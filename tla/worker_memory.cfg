\* Two workers share sessions and runners in every order of their statements.
SPECIFICATION Spec
CONSTANTS
  Workers = {w1, w2}
  Tokens = {x1, x2, x3}
  Keys = {k1, k2}
  Requests = {q1, q2}
  MaxSessions = 2
  MaxItems = 1
  MaxRunners = 1
  MaxTasks = 3
  MaxUses = 2
  MaxCaches = 3
  Nobody = Nobody
INVARIANTS
  TypeOK
  NothingIsStuck
  SerialIsExact
  RunnerFits
SYMMETRY Symmetry
CHECK_DEADLOCK FALSE
