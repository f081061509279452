\* A FIFO of seven records, of which the driver latches eight of up to ten.
SPECIFICATION FairSpec
CONSTANTS
  FifoMaxSize = 7
  UsageBits = 3
  Records = 8
  MaxCounter = 10
INVARIANTS TypeOK StatusTracksFifo RoutineSeesHalfFull
PROPERTIES TimeoutJustified FreshRecord RecordsConsecutive DriverEnds
CHECK_DEADLOCK FALSE
