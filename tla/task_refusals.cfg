\* One task of either kind with up to three faults: a write the primary storage refuses, a
\* stop request that a check misses, a broker that loses the task.
CONSTANTS
  NoRecord = NoRecord
  Tasks = {x}
  Kinds = {"execution","training"}
  CarelessTasks = {}
  MaxWorkers = 1
  FaultKinds = {"refuse", "miss", "broker"}
  MaxFaults = 3
  MaxReports = 2
  MaxDeletes = 0
  MaxRestarts = 0
  x = x
SPECIFICATION FairSpec
PROPERTIES KeepsPromise Settles
