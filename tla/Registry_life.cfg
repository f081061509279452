\* Two threads construct, destroy and look up; one system call fails.
SPECIFICATION Spec
CONSTANTS
  t1 = t1
  t2 = t2
  c1 = c1
  c2 = c2
  Threads = {t1, t2}
  Controllers = {c1, c2}
  SizeOf <- Sizes
  PageSize = 3
  PageCount = 5
  MaxFailures = 1
  NoThread = NoThread
  NoController = NoController
INVARIANTS TypeOK MapGuarded HandlersBeforeControllers SpacesFollowControllers LostByFailureOnly
PROPERTY FaultFindsOwner
SYMMETRY Symmetry
