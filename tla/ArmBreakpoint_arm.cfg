\* Two threads, three controllers, Thumb and ARM code, on pages that end in
\* any place of it.
SPECIFICATION FairSpec
CONSTANTS
  t1 = t1
  t2 = t2
  c1 = c1
  c2 = c2
  c3 = c3
  Threads = {t1, t2}
  Controllers = {c1, c2, c3}
  HookType <- ReadWriteWriteRead
  Reentrant = {c2, c3}
  PageSize = 16
  Layouts <- Everywhere
  NoAccess = NoAccess
INVARIANTS TypeOK NoTraceLeft KilledOnlyByKnownCauses
PROPERTIES RefinesHookedAccess ThreadsEnd
CHECK_DEADLOCK FALSE
