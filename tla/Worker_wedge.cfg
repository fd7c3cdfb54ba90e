\* One burst alone exceeds the event queue.
SPECIFICATION WorkerFairSpec
CONSTANTS
  CommandCapacity = 1
  EventCapacity = 1
  CommandBatch = 1
  DrainBatch = 2
  Bursts = {0, 2}
  MaxProjections = 0
PROPERTIES ShutdownReturns
CHECK_DEADLOCK FALSE
