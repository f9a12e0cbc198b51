SPECIFICATION Spec
CONSTANTS
  Workers <- TwoWorkers
  SequenceSize = 2
  WorkerSize = 2
  DataCenterSize = 2
  TimestampSize = 8
  BaseEpoch = 1
  MaxClock = 3
  MaxIds = 4
CHECK_DEADLOCK FALSE
INVARIANTS
  TypeOK
  DistinctWorkersNeverCollide
  IncreasingUnlessBehind
  BehindOnlyAfterOverrun
  UniqueWithinCapacity
  BorrowsOneMillisecond
