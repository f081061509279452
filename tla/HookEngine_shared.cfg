\* Two threads use two controllers, in nested ways and with no locking around
\* accesses, and one controller is destroyed.
SPECIFICATION FairSpec
CONSTANTS
  t1 = t1
  t2 = t2
  c1 = c1
  c2 = c2
  Threads = {t1, t2}
  Controllers = {c1, c2}
  Offsets = {0, 4}
  Kinds = {"read", "write"}
  HookType <- ReadWriteAndWrite
  Platform = "posix"
  Drivers <- BothByBoth
  LockedAccess = {}
  Nests <- NestsOrdered
  Destroyable = {c1}
  MaxOps = 2
  NoThread = NoThread
  NoController = NoController
  NoAccess = NoAccess
INVARIANTS TypeOK LockBalanced QuiescentProtected BreakPointMatches
           SteppedAccessHooked NoDanglingBreakPoint KilledOnlyByStrayAccess
PROPERTY EveryOperationEnds
