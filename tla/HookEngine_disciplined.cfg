\* Windows: c1 shared by two threads under its memory lock, c2 driven by one.
SPECIFICATION FairSpec
CONSTANTS
  t1 = t1
  t2 = t2
  c1 = c1
  c2 = c2
  Threads = {t1, t2}
  Controllers = {c1, c2}
  Offsets = {0}
  Kinds = {"read", "write", "rmw"}
  HookType <- ReadAndWrite
  Platform = "windows"
  Drivers <- SharedAndOwned
  LockedAccess = {c1}
  Nests <- NestsOrdered
  Destroyable = {c2}
  MaxOps = 3
  NoThread = NoThread
  NoController = NoController
  NoAccess = NoAccess
INVARIANTS QuiescentProtected ExactlyOnce OnlyRequestedHooks
PROPERTIES RefinesHookedAccess RetrySucceeds
