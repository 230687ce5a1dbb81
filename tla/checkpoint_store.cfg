CONSTANTS
  Trainings = {t1}
  Threads = {s1}
  EventLoop = loop
  MaxSaves = 2
  MaxJobs = 5
  Allowed = {"overlap", "failure", "expiry", "last_version"}
  NoRecord = NoRecord
SPECIFICATION Spec
INVARIANTS
  TypeOK
  ListedCanBeLoaded
  SavedIsListed
  DeletionIsClean
  MetricsAreTrue
  StatusIsTheHandlers
  CheckpointsGoWithAlgorithm
CHECK_DEADLOCK FALSE
