CONSTANTS
  QueueCap = 4
  FifoCap = 3
  DrainMax = 2
  Batch = 5
  MaxEvents <- MCMaxEvents
SPECIFICATION Spec
INVARIANTS TypeOK SleepIsCovered
PROPERTY EmptySleeperWakes
