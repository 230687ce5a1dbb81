\* One task of either kind with a careless algorithm, storage faults of every
\* other kind, a deletion and a restart of the process.
CONSTANTS
  NoRecord = NoRecord
  Tasks = {x}
  Kinds = {"execution","training"}
  CarelessTasks = {x}
  MaxWorkers = 1
  FaultKinds = {"get","unacked","miss","broker"}
  MaxFaults = 2
  MaxReports = 2
  MaxDeletes = 1
  MaxRestarts = 1
  x = x
SPECIFICATION Spec
INVARIANTS TypeOK CompletedIsWhole StopTakesEffect FailureIsFinal
PROPERTIES TerminalNeverReopens
