\* A load-modify-store instruction on a controller that hooks loads.
SPECIFICATION FairSpec
CONSTANTS
  t1 = t1
  t2 = t2
  c1 = c1
  c2 = c2
  Threads = {t1, t2}
  Controllers = {c1}
  Offsets = {0}
  Kinds = {"read", "write", "rmw"}
  HookType <- OneReadWrite
  Platform = "posix"
  Drivers <- OneByBoth
  LockedAccess = {}
  Nests <- NestsOne
  Destroyable = {}
  MaxOps = 1
  NoThread = NoThread
  NoController = NoController
  NoAccess = NoAccess
INVARIANTS EveryLoadHooked
