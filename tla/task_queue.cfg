\* Two executions share one worker thread; no faults; clients may stop them at any time.
CONSTANTS
  NoRecord = NoRecord
  Tasks = {x,y}
  Kinds = {"execution"}
  CarelessTasks = {}
  MaxWorkers = 1
  FaultKinds = {}
  MaxFaults = 0
  MaxReports = 1
  MaxDeletes = 0
  MaxRestarts = 0
  x = x
  y = y
SPECIFICATION FairSpec
PROPERTIES KeepsPromise Settles
