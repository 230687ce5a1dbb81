\* Operations overlap: one name, two deployments of two sources that share an
\* asset, two removals.
SPECIFICATION Spec
CONSTANTS
  Names = {n1}
  Deployments = {d1, d2}
  Sources = {{m1, w}, {m2, w}}
  Overlap = TRUE
  NoRecord = NoRecord
  MaxVersion = 1
  MaxRemovals = 2
  MaxFailures = 0
INVARIANTS LatestIsNewest
CHECK_DEADLOCK FALSE
