\* One server that never fails, clients that delete a file and then a sample.
SPECIFICATION Spec
CONSTANTS
  Files = {f1, f2}
  Samples = {s1, s2}
  Trainings = {t1}
  Allowed = {}
  Reused = {}
  Untagged = Untagged
  Nothing = Nothing
INVARIANT SampleFilesDoNotExpire
CHECK_DEADLOCK FALSE
