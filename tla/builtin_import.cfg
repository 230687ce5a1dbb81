\* Two bundles, four starts, two deployments, two failures.
SPECIFICATION Spec
CONSTANTS
  Names = {a, b}
  Objects = {m1, m2, w}
  Checkpoints = {c1, c2}
  Hashes = {h1, h2}
  a = a
  b = b
  m1 = m1
  m2 = m2
  w = w
  c1 = c1
  c2 = c2
  h1 = h1
  h2 = h2
  AssetsOf <- MCAssetsOf
  ParentOf <- MCParentOf
  Content <- MCContent
  Builds = {{m1}, {m1, w}}
  Payload = Payload
  Nothing = Nothing
  MaxFaults = 2
  MaxStarts = 4
  MaxDeploys = 2
INVARIANTS TypeOK  
CHECK_DEADLOCK FALSE
