\* One operation at a time, nothing fails: a later version may be made of what an
\* earlier one is made of.
SPECIFICATION Spec
CONSTANTS
  Names = {n1}
  Deployments = {d1, d2}
  Sources = {{m1, w}, {m2, w}}
  Overlap = FALSE
  NoRecord = NoRecord
  MaxVersion = 1
  MaxRemovals = 1
  MaxFailures = 0
INVARIANT VersionsStayUsable
CHECK_DEADLOCK FALSE
