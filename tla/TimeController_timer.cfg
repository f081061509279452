\* One driver thread uses two timers, with interrupts or without, and destroys
\* the controller.
SPECIFICATION FairSpec
CONSTANTS
  Timers = {1, 2}
  Base = 2
  HiTimes = {1}
  LoTimes = {2}
  Programs = {{"driver"}, {"routine"}}
  Leftovers = {"Idle", "Abort", "Running", "Restart"}
  Uptime = 1
  MaxTime = 2
  MaxOps = 2
INVARIANTS TypeOK NoInterruptLost
PROPERTIES NeverEarly DestructorReturns InterruptsDelivered TimersElapse
CHECK_DEADLOCK FALSE
