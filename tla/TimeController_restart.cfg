\* The driver writes Start twice.
SPECIFICATION FairSpec
CONSTANTS
  Timers = {1}
  Base = 2
  HiTimes = {1}
  LoTimes = {2}
  Programs = {{"driver"}}
  Leftovers = {"Idle"}
  Uptime = 1
  MaxTime = 2
  MaxOps = 2
PROPERTY EveryStartRestarts
CHECK_DEADLOCK FALSE
