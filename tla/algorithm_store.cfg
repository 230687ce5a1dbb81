\* One operation at a time: two names, three deployments of two sources that share
\* an asset, two removals, one failure.
SPECIFICATION Spec
CONSTANTS
  Names = {n1, n2}
  Deployments = {d1, d2, d3}
  Sources = {{m1, w}, {m2, w}}
  Overlap = FALSE
  NoRecord = NoRecord
  MaxVersion = 2
  MaxRemovals = 2
  MaxFailures = 1
INVARIANTS TypeOK OneRecordPerName NothingLeftBehind
PROPERTIES OthersStayUsable PublishedWhole VersionsKeepTheirSource OtherVersionsKeepAlgorithm
CHECK_DEADLOCK FALSE
