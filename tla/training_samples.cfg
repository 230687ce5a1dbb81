\* Everything that may go wrong does; a training reads what the server changes.
SPECIFICATION Spec
CONSTANTS
  Files = {f1, f2}
  Samples = {s1, s2}
  Trainings = {t1}
  Allowed = {"failure", "presigned"}
  Reused = {f1}
  Untagged = Untagged
  Nothing = Nothing
INVARIANTS
  TypeOK
  TagsCountSamples
  SampleKeepsFiles
PROPERTIES
  TrainingFindsItsFiles
  NewSampleIsWhole
  UnusedFilesExpire
CHECK_DEADLOCK FALSE
