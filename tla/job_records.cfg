\* A benchmark and a deployment, with storage that fails six times and a restart.
SPECIFICATION Spec
CONSTANTS
  Benchmarks = {b1}
  Deployments = {d1}
  MaxFaults = 6
  MaxRestarts = 1
  NoRecord = NoRecord
INVARIANTS
  TypeOK
  OutcomeIsRecorded
PROPERTIES
  FinalStaysFinal
CHECK_DEADLOCK FALSE
