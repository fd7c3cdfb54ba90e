\* Both queues fill, drains end early, and what the worker publishes between two
\* looks at the stop flag fits the event queue.
SPECIFICATION WorkerFairSpec
CONSTANTS
  CommandCapacity = 1
  EventCapacity = 4
  CommandBatch = 1
  DrainBatch = 1
  Bursts = {0, 1}
  MaxProjections = 2
INVARIANTS NoLostWakeup ProjectionCoalesced FailureReported
PROPERTIES ShutdownReturns
