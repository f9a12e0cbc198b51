SPECIFICATION Spec
CONSTANTS
  Workers <- OneWorker
  SequenceSize = 2
  WorkerSize = 2
  DataCenterSize = 2
  TimestampSize = 8
  BaseEpoch = 1
  MaxClock = 2
  MaxIds = 4
CHECK_DEADLOCK FALSE
INVARIANT
  UniqueOnSteadyClock
