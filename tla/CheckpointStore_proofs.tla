------------------------ MODULE CheckpointStore_proofs ------------------------
(***************************************************************************)
(* Proofs about CheckpointStore for every set of trainings and threads,    *)
(* every bound and every set of circumstances.                             *)
(***************************************************************************)
EXTENDS CheckpointStore, TLAPS

Handling == {"save", "delete", "remove"}

Deleting == {"delete", "remove"}

Rewriting == {"refresh", "rewrite", "remove_version"}

\* Job w is where such a job may be.
InPlace(w) ==
  /\ w.for = "save" =>
       w.at \in {"post_assets", "put_manifest", "read_algorithm", "write_algorithm",
                 "read_training", "write_training"}
  /\ w.for \in Deleting =>
       w.at \in {"next", "delete_assets", "read_algorithm", "write_algorithm",
                 "read_training", "write_training", "erase_manifest"}
  /\ w.at = "next" => w.for = "remove"
  /\ w.for \in Rewriting => w.at \in {"count", "put", "erase"}
  /\ w.at = "erase" => w.for = "remove_version"
  /\ w.for \in Updates => w.at \in {"read_training", "write_training"}

\* What makes job w of actor a sound when M is made and C is condemned: it is where
\* such a job may be and is allowed, it holds the copy it is going to write, and the
\* checkpoint it deletes is condemned.
JobOK(a, w, M, C) ==
  /\ InPlace(w)
  /\ w.for \in Updates \union {"save"} => a \in Trainings
  /\ w.for \in Handling /\ w.at # "next" => w.checkpoint \in M
  /\ w.for \in Deleting /\ w.at # "next" => w.checkpoint \in C
  /\ w.at \in {"write_algorithm", "count", "put"} => w.copy # NoRecord
  /\ w.at = "write_training" => w.record # NoRecord
  /\ w.for = "remove_version" => "last_version" \in Allowed

JobsOK ==
  /\ work \in [Actors -> Job \union {NoRecord}]
  /\ \A a \in Actors : work[a] # NoRecord => JobOK(a, work[a], made, condemned)

\* TypeOK is not inductive: jobs have to be sound as well.
TypeInv == TypeOK /\ manifests \subseteq made /\ condemned \subseteq made /\ JobsOK

\* One actor gets another sound job, or none.
LEMMA WorkChange ==
  ASSUME TypeInv, NEW a \in Actors, NEW w \in Job \union {NoRecord},
         work' = [work EXCEPT ![a] = w],
         made \subseteq made', condemned \subseteq condemned',
         w # NoRecord => JobOK(a, w, made', condemned')
  PROVE  JobsOK'
BY DEF TypeInv, JobsOK, JobOK

\* What a job is for shows from where it is.
LEMMA PurposeOfPlace ==
  ASSUME NEW w \in Job, InPlace(w)
  PROVE  /\ w.at \in {"post_assets", "put_manifest"} => w.for = "save"
         /\ w.at \in {"delete_assets", "erase_manifest", "next"} => w.for \in Deleting
         /\ w.at \in {"read_algorithm", "write_algorithm"} => w.for \in Handling
         /\ w.at \in {"read_training", "write_training"} => w.for \in Handling \union Updates
         /\ w.at \in {"count", "put", "erase"} => w.for \in Rewriting
BY DEF InPlace, Job, Purposes, Updates, Handling, Deleting, Rewriting

\* A job that handles a checkpoint moves on.
LEMMA MoveJob ==
  ASSUME NEW a, NEW w \in Job, NEW M, NEW C, JobOK(a, w, M, C), w.at # "next",
         NEW place \in {"put_manifest", "read_algorithm", "read_training", "erase_manifest",
                        "next"},
         \/ w.for = "save" /\ place \notin {"erase_manifest", "next"}
         \/ w.for \in Deleting /\ place \notin {"put_manifest", "next"}
         \/ w.for = "remove" /\ place = "next"
  PROVE  [w EXCEPT !.at = place] \in Job /\ JobOK(a, [w EXCEPT !.at = place], M, C)
<1> DEFINE v == [w EXCEPT !.at = place]
<1>1. v \in Job
  BY DEF Job, Places
<1>2. /\ v.for = w.for /\ v.at = place /\ v.checkpoint = w.checkpoint
      /\ v.copy = w.copy /\ v.record = w.record
  BY DEF Job
<1> HIDE DEF v
<1>3. InPlace(v)
  BY <1>2 DEF InPlace, Updates, Deleting, Rewriting
<1>4. JobOK(a, v, M, C)
  BY <1>2, <1>3 DEF JobOK, Handling, Deleting
<1> QED
  BY <1>1, <1>4 DEF v

\* A job that begins.
LEMMA NewJobType ==
  ASSUME NEW purpose \in Purposes, NEW place \in Places, NEW c \in Checkpoints \union {NoRecord}
  PROVE  NewJob(purpose, place, c) \in Job
BY DEF NewJob, Job

\* The handler of a training that failed marks it.
LEMMA UnwindType ==
  ASSUME TypeInv, NEW a \in Actors, Unwind(a), UNCHANGED <<made, condemned>>
  PROVE  JobsOK'
<1> DEFINE w == IF a \in Trainings /\ work[a].for # "FAILED"
                THEN NewJob("FAILED", "read_training", NoRecord) ELSE NoRecord
<1>1. NewJob("FAILED", "read_training", NoRecord) \in Job
  BY NewJobType DEF Purposes, Updates, Places
<1>2. a \in Trainings => JobOK(a, NewJob("FAILED", "read_training", NoRecord), made, condemned)
  BY DEF JobOK, InPlace, NewJob, Updates, Handling, Deleting, Rewriting
<1>3. w \in Job \union {NoRecord} /\ (w # NoRecord => JobOK(a, w, made', condemned'))
  BY <1>1, <1>2
<1> QED
  BY <1>3, WorkChange DEF Unwind

\* The initial state satisfies the invariant.
LEMMA TypeInit == Init => TypeInv
BY BoundsAssumption DEF Init, TypeInv, TypeOK, JobsOK, AlgorithmRecord, TrainingRecord, Statuses

\* A job begins.
LEMMA TypeBegin ==
  ASSUME TypeInv, NEW a \in Actors, NEW w \in Job, Begin(a, w),
         made \subseteq made', condemned \subseteq condemned',
         JobOK(a, w, made', condemned')
  PROVE  JobsOK' /\ jobs' \in 0 .. MaxJobs /\ happened' \subseteq Allowed
<1>1. jobs' \in 0 .. MaxJobs /\ happened' \subseteq Allowed
  BY BoundsAssumption DEF Begin, TypeInv, TypeOK
<1> QED
  BY <1>1, WorkChange DEF Begin

\* A step of a training preserves it.
LEMMA TypeTraining ==
  ASSUME TypeInv, NEW t \in Trainings, TrainingStep(t)
  PROVE  TypeInv'
<1> USE DEF TypeInv, TypeOK, JobsOK, stores, history
<1>0. t \in Actors
  BY DEF Actors
<1>1. ASSUME NEW c \in Checkpoints, BeginSave(t, c) PROVE TypeInv'
  <2> DEFINE w == NewJob("save", "post_assets", c)
  <2>1. w \in Job
    BY NewJobType DEF Purposes, Places
  <2>2. JobOK(t, w, made', condemned')
    BY <1>1 DEF BeginSave, JobOK, InPlace, NewJob, Updates, Handling, Deleting, Rewriting
  <2> QED
    BY <1>0, <1>1, <2>1, <2>2, TypeBegin DEF BeginSave
<1>2. CASE PostAssets(t)
  <2> DEFINE w == [work[t] EXCEPT !.at = "put_manifest"]
  <2>1. work[t] \in Job /\ JobOK(t, work[t], made, condemned)
    BY <1>0, <1>2 DEF PostAssets, At
  <2>2. work[t].for = "save" /\ work[t].at # "next"
    BY <1>2, <2>1, PurposeOfPlace DEF PostAssets, At, JobOK
  <2>3. w \in Job /\ JobOK(t, w, made, condemned)
    BY <2>1, <2>2, MoveJob
  <2>4. work[t].checkpoint \in made
    BY <2>1, <2>2 DEF JobOK, Handling
  <2>5. work' = [work EXCEPT ![t] = w]
    BY <1>2 DEF PostAssets, Move
  <2> QED
    BY <1>0, <1>2, <2>3, <2>4, <2>5, WorkChange DEF PostAssets, AssetsOf
<1>3. CASE PutManifest(t)
  <2> DEFINE w == [work[t] EXCEPT !.at = "read_algorithm"]
  <2>1. work[t] \in Job /\ JobOK(t, work[t], made, condemned)
    BY <1>0, <1>3 DEF PutManifest, At
  <2>2. work[t].for = "save" /\ work[t].at # "next"
    BY <1>3, <2>1, PurposeOfPlace DEF PutManifest, At, JobOK
  <2>3. w \in Job /\ JobOK(t, w, made, condemned)
    BY <2>1, <2>2, MoveJob
  <2>4. work[t].checkpoint \in made
    BY <2>1, <2>2 DEF JobOK, Handling
  <2>5. work' = [work EXCEPT ![t] = w]
    BY <1>3 DEF PutManifest, Move
  <2> QED
    BY <1>0, <1>3, <2>3, <2>4, <2>5, WorkChange DEF PutManifest
<1>4. ASSUME NEW update \in Updates, BeginUpdate(t, update) PROVE TypeInv'
  <2> DEFINE w == NewJob(update, "read_training", NoRecord)
  <2>1. w \in Job
    BY NewJobType DEF Purposes, Places
  <2>2. JobOK(t, w, made', condemned')
    BY <1>4 DEF BeginUpdate, JobOK, InPlace, NewJob, Updates, Handling, Deleting, Rewriting
  <2> QED
    BY <1>0, <1>4, <2>1, <2>2, TypeBegin DEF BeginUpdate
<1>5. CASE ReadNothing(t)
  <2> DEFINE w == [work[t] EXCEPT !.at = "write_training", !.record = Stub]
  <2>1. work[t] \in Job /\ JobOK(t, work[t], made, condemned)
    BY <1>0, <1>5 DEF ReadNothing, At
  <2>2. Stub \in TrainingRecord /\ Stub # NoRecord
    BY NoRecordAssumption DEF Stub, TrainingRecord, Statuses
  <2>3. w \in Job /\ JobOK(t, w, made, condemned)
    BY <1>5, <2>1, <2>2 DEF ReadNothing, At, Places, Job, JobOK, InPlace, Updates, Handling,
                            Deleting, Rewriting
  <2>4. work' = [work EXCEPT ![t] = w]
    BY <1>5 DEF ReadNothing
  <2> QED
    BY <1>0, <1>5, <2>3, <2>4, WorkChange DEF ReadNothing
<1>6. CASE WriteUpdate(t)
  <2>1. work[t] \in Job /\ JobOK(t, work[t], made, condemned)
    BY <1>0, <1>6 DEF WriteUpdate, At
  <2>2. work[t].record \in TrainingRecord
    BY <1>6, <2>1 DEF WriteUpdate, At, JobOK, Job
  <2>3. training' \in [Trainings -> TrainingRecord \union {NoRecord}]
    BY <1>6, <2>2 DEF WriteUpdate, TrainingRecord, Updates, Statuses
  <2>4. told' \in [Trainings -> Statuses]
    BY <1>6 DEF WriteUpdate, Updates, Statuses
  <2> QED
    BY <1>0, <1>6, <2>3, <2>4, WorkChange DEF WriteUpdate, End
<1>7. CASE Expire(t)
  BY <1>7, AllowedAssumption DEF Expire
<1> QED
  BY <1>1, <1>2, <1>3, <1>4, <1>5, <1>6, <1>7 DEF TrainingStep

\* A job that has dealt with the record of the training preserves it.
LEMMA AfterTrainingType ==
  ASSUME TypeInv, NEW a \in Actors, work[a] # NoRecord, work[a].for \notin Updates,
         work[a].at \in {"read_training", "write_training"},
         AfterTraining(a), UNCHANGED <<made, condemned>>
  PROVE  JobsOK' /\ saved' \subseteq made'
<1>1. work[a] \in Job /\ JobOK(a, work[a], made, condemned)
  BY DEF TypeInv, JobsOK
<1>2. work[a].for \in Handling /\ work[a].at # "next"
  BY <1>1, PurposeOfPlace DEF JobOK
<1>3. CASE work[a].for = "save"
  BY <1>1, <1>2, <1>3, WorkChange DEF AfterTraining, End, JobOK, TypeInv, TypeOK
<1>4. CASE work[a].for \in Deleting
  <2> DEFINE w == [work[a] EXCEPT !.at = "erase_manifest"]
  <2>1. w \in Job /\ JobOK(a, w, made, condemned)
    BY <1>1, <1>2, <1>4, MoveJob
  <2>2. work' = [work EXCEPT ![a] = w] /\ saved' = saved
    BY <1>4 DEF AfterTraining, Move, Deleting
  <2> QED
    BY <2>1, <2>2, WorkChange DEF TypeInv, TypeOK
<1> QED
  BY <1>2, <1>3, <1>4 DEF Handling, Deleting

\* A step that writes one of the lists, or deletes, preserves it.
LEMMA TypeCheckpoint ==
  ASSUME TypeInv, NEW a \in Trainings \union {EventLoop}, CheckpointStep(a)
  PROVE  TypeInv'
<1> USE DEF TypeInv, TypeOK, stores, history
<1>0. a \in Actors
  BY DEF Actors
<1>1. ASSUME NEW c \in Checkpoints, BeginDelete(a, c) PROVE TypeInv'
  <2> DEFINE w == NewJob("delete", "delete_assets", c)
  <2>1. w \in Job
    BY NewJobType DEF Purposes, Places
  <2>2. JobOK(a, w, made', condemned')
    BY <1>1 DEF BeginDelete, JobOK, InPlace, NewJob, Updates, Handling, Deleting, Rewriting
  <2> QED
    BY <1>0, <1>1, <2>1, <2>2, TypeBegin DEF BeginDelete, JobsOK
<1>2. ASSUME work[a] # NoRecord
      PROVE  work[a] \in Job /\ JobOK(a, work[a], made, condemned) /\ InPlace(work[a])
  BY <1>0, <1>2 DEF JobsOK, JobOK
<1>3. CASE DeleteAssets(a)
  <2> DEFINE w == [work[a] EXCEPT !.at = "read_algorithm"]
  <2>1. work[a].for \in Deleting /\ work[a].at # "next"
    BY <1>2, <1>3, PurposeOfPlace DEF DeleteAssets, At
  <2>2. w \in Job /\ JobOK(a, w, made, condemned)
    BY <1>2, <1>3, <2>1, MoveJob DEF DeleteAssets, At
  <2>3. work' = [work EXCEPT ![a] = w]
    BY <1>3 DEF DeleteAssets, Move
  <2> QED
    BY <1>0, <1>3, <2>2, <2>3, WorkChange DEF DeleteAssets
<1>4. CASE ReadAlgorithm(a)
  <2>1. work[a].for \in Handling /\ work[a].at # "next"
    BY <1>2, <1>4, PurposeOfPlace DEF ReadAlgorithm, At
  <2>2. CASE work' = [work EXCEPT ![a].at = "read_training"]
    <3> DEFINE w == [work[a] EXCEPT !.at = "read_training"]
    <3>1. w \in Job /\ JobOK(a, w, made, condemned)
      BY <1>2, <1>4, <2>1, MoveJob DEF ReadAlgorithm, At, Handling, Deleting
    <3> QED
      BY <1>0, <1>4, <2>2, <3>1, WorkChange DEF ReadAlgorithm
  <2>3. CASE work' = [work EXCEPT ![a].at = "write_algorithm", ![a].copy = algorithm]
    <3> DEFINE w == [work[a] EXCEPT !.at = "write_algorithm", !.copy = algorithm]
    <3>1. w \in Job /\ w.for = work[a].for /\ w.at = "write_algorithm" /\ w.copy # NoRecord
          /\ w.checkpoint = work[a].checkpoint
      BY <1>2, <1>4 DEF ReadAlgorithm, At, Job, Places
    <3>2. work' = [work EXCEPT ![a] = w]
      BY <2>3
    <3> HIDE DEF w
    <3>3. InPlace(w) /\ JobOK(a, w, made, condemned)
      BY <1>2, <1>4, <2>1, <3>1
         DEF ReadAlgorithm, At, JobOK, InPlace, Updates, Handling, Deleting, Rewriting
    <3> QED
      BY <1>0, <1>4, <3>1, <3>2, <3>3, WorkChange DEF ReadAlgorithm
  <2> QED
    BY <1>4, <2>2, <2>3 DEF ReadAlgorithm, Move
<1>5. CASE WriteAlgorithm(a)
  <2> DEFINE w == [work[a] EXCEPT !.at = "read_training"]
  <2>1. work[a].for \in Handling /\ work[a].at # "next"
    BY <1>2, <1>5, PurposeOfPlace DEF WriteAlgorithm, At
  <2>2. w \in Job /\ JobOK(a, w, made, condemned)
    BY <1>2, <1>5, <2>1, MoveJob DEF WriteAlgorithm, At, Handling, Deleting
  <2>3. work[a].copy \in AlgorithmRecord /\ work[a].checkpoint \in Checkpoints
    BY <1>2, <1>5, <2>1 DEF WriteAlgorithm, At, Job, JobOK
  <2>4. algorithm' \in AlgorithmRecord
    BY <1>5, <2>3 DEF WriteAlgorithm, MarkStale, Listed, AlgorithmRecord
  <2>5. work' = [work EXCEPT ![a] = w]
    BY <1>5 DEF WriteAlgorithm, Move
  <2> QED
    BY <1>0, <1>5, <2>2, <2>4, <2>5, WorkChange DEF WriteAlgorithm
<1>6. CASE ReadTraining(a)
  <2>1. work[a].for \in Handling \union Updates /\ work[a].at = "read_training"
    BY <1>2, <1>6, PurposeOfPlace DEF ReadTraining, At
  <2>2. CASE work[a].for \notin Updates /\ AfterTraining(a)
    BY <1>0, <1>2, <1>6, <2>1, <2>2, AfterTrainingType DEF ReadTraining, At, JobsOK
  <2>3. CASE /\ work' = [work EXCEPT ![a].at = "write_training",
                                     ![a].record = training[Concerned(a)]]
             /\ UNCHANGED saved
    <3> DEFINE w == [work[a] EXCEPT !.at = "write_training", !.record = training[Concerned(a)]]
    <3>1. Concerned(a) \in Trainings
      BY <1>2, <1>6, <2>1
         DEF Concerned, JobOK, ReadTraining, At, Handling, Updates, Maker, Checkpoints
    <3>2. w \in Job /\ w.for = work[a].for /\ w.at = "write_training" /\ w.record # NoRecord
          /\ w.checkpoint = work[a].checkpoint
      BY <1>2, <1>6, <3>1 DEF ReadTraining, At, Job, Places
    <3>3. work' = [work EXCEPT ![a] = w]
      BY <2>3
    <3> HIDE DEF w
    <3>4. InPlace(w) /\ JobOK(a, w, made, condemned)
      BY <1>2, <1>6, <2>1, <3>2
         DEF ReadTraining, At, JobOK, InPlace, Updates, Handling, Deleting, Rewriting
    <3> QED
      BY <1>0, <1>6, <2>3, <3>2, <3>3, <3>4, WorkChange DEF ReadTraining
  <2> QED
    BY <1>6, <2>2, <2>3 DEF ReadTraining
<1>7. CASE WriteTraining(a)
  <2>1. work[a].for \in Handling
    BY <1>2, <1>7, PurposeOfPlace DEF WriteTraining, At
  <2>2. work[a].record \in TrainingRecord /\ work[a].checkpoint \in Checkpoints
    BY <1>2, <1>7, <2>1 DEF WriteTraining, At, Job, JobOK
  <2>3. training' \in [Trainings -> TrainingRecord \union {NoRecord}]
    BY <1>7, <2>2 DEF WriteTraining, WithList, Listed, TrainingRecord
  <2>4. JobsOK' /\ saved' \subseteq made'
    BY <1>0, <1>7, AfterTrainingType DEF WriteTraining, At
  <2> QED
    BY <1>7, <2>3, <2>4 DEF WriteTraining, JobsOK
<1>8. CASE EraseManifest(a)
  <2>1. work[a].for \in Deleting /\ work[a].at # "next" /\ work[a].checkpoint \in condemned
    BY <1>2, <1>8, PurposeOfPlace DEF EraseManifest, At, JobOK
  <2>2. JobsOK'
    <3>1. CASE End(a)
      BY <1>0, <1>8, <3>1, WorkChange DEF EraseManifest, End
    <3>2. CASE work[a].for = "remove" /\ Move(a, "next")
      <4> DEFINE w == [work[a] EXCEPT !.at = "next"]
      <4>1. w \in Job /\ JobOK(a, w, made, condemned)
        BY <1>2, <1>8, <2>1, <3>2, MoveJob DEF EraseManifest, At
      <4>2. work' = [work EXCEPT ![a] = w]
        BY <3>2 DEF Move
      <4> QED
        BY <1>0, <1>8, <4>1, <4>2, WorkChange DEF EraseManifest
    <3> QED
      BY <1>8, <3>1, <3>2 DEF EraseManifest
  <2> QED
    BY <1>8, <2>1, <2>2 DEF EraseManifest, JobsOK
<1>9. CASE Raises(a)
  BY <1>0, <1>9, UnwindType DEF Raises, JobsOK
<1> QED
  BY <1>1, <1>3, <1>4, <1>5, <1>6, <1>7, <1>8, <1>9 DEF CheckpointStep

\* A job starts with a copy of the algorithm's record.
LEMMA CopyType ==
  ASSUME TypeInv, NEW a \in Actors, NEW purpose \in Rewriting, NEW place \in {"count", "put"},
         algorithm # NoRecord, NEW M, NEW C,
         purpose = "remove_version" => "last_version" \in Allowed
  PROVE  LET w == [NewJob(purpose, place, NoRecord) EXCEPT !.copy = algorithm]
         IN  w \in Job /\ JobOK(a, w, M, C)
<1> DEFINE w == [NewJob(purpose, place, NoRecord) EXCEPT !.copy = algorithm]
<1>1. w = [for |-> purpose, at |-> place, checkpoint |-> NoRecord, copy |-> algorithm,
           record |-> NoRecord, todo |-> {}]
  BY DEF NewJob
<1>2. w \in Job
  BY <1>1 DEF TypeInv, TypeOK, Job, Purposes, Rewriting, Places
<1>3. JobOK(a, w, M, C)
  BY <1>1 DEF JobOK, InPlace, Updates, Handling, Deleting, Rewriting
<1> QED
  BY <1>2, <1>3

\* A step that writes the algorithm's record for another reason preserves it.
LEMMA TypeRewrite ==
  ASSUME TypeInv, NEW a \in Threads \union {EventLoop}, RewriteStep(a)
  PROVE  TypeInv'
<1> USE DEF TypeInv, TypeOK, stores, history
<1>0. a \in Actors
  BY DEF Actors
<1>1. CASE BeginRefresh(a)
  <2> DEFINE w == [NewJob("refresh", "count", NoRecord) EXCEPT !.copy = algorithm]
  <2>1. w \in Job /\ JobOK(a, w, made', condemned')
    BY <1>0, <1>1, CopyType DEF BeginRefresh, Rewriting
  <2> QED
    BY <1>0, <1>1, <2>1, TypeBegin DEF BeginRefresh, JobsOK
<1>2. ASSUME NEW place \in {"count", "put"}, BeginRewrite(a, place) PROVE TypeInv'
  <2> DEFINE w == [NewJob("rewrite", place, NoRecord) EXCEPT !.copy = algorithm]
  <2>1. w \in Job /\ JobOK(a, w, made', condemned')
    BY <1>0, <1>2, CopyType DEF BeginRewrite, Rewriting
  <2> QED
    BY <1>0, <1>2, <2>1, TypeBegin DEF BeginRewrite, JobsOK
<1>3. ASSUME work[a] # NoRecord
      PROVE  work[a] \in Job /\ JobOK(a, work[a], made, condemned) /\ InPlace(work[a])
  BY <1>0, <1>3 DEF JobsOK, JobOK
<1>4. CASE Count(a)
  <2> DEFINE w == [work[a] EXCEPT !.at = "put", !.copy = Counted(@)]
  <2>1. work[a].for \in Rewriting /\ work[a].copy \in AlgorithmRecord
    BY <1>3, <1>4, PurposeOfPlace DEF Count, At, JobOK, Job
  <2>2. Counted(work[a].copy) \in AlgorithmRecord
    BY <2>1 DEF Counted, AlgorithmRecord
  <2>3. w \in Job /\ w.for = work[a].for /\ w.at = "put" /\ w.copy # NoRecord
    BY <1>3, <1>4, <2>2, NoRecordAssumption DEF Count, At, Job, Places
  <2>4. work' = [work EXCEPT ![a] = w]
    BY <1>4 DEF Count
  <2> HIDE DEF w
  <2>5. InPlace(w) /\ JobOK(a, w, made, condemned)
    BY <1>3, <1>4, <2>1, <2>3
       DEF Count, At, JobOK, InPlace, Updates, Handling, Deleting, Rewriting
  <2> QED
    BY <1>0, <1>4, <2>3, <2>4, <2>5, WorkChange DEF Count, JobsOK
<1>5. CASE Put(a)
  <2>1. work[a].for \in Rewriting /\ work[a].copy \in AlgorithmRecord
    BY <1>3, <1>5, PurposeOfPlace DEF Put, At, JobOK, Job
  <2>2. CASE work[a].for = "remove_version" /\ Move(a, "erase")
    <3> DEFINE w == [work[a] EXCEPT !.at = "erase"]
    <3>1. w \in Job /\ w.for = "remove_version" /\ w.at = "erase"
      BY <1>3, <1>5, <2>2 DEF Put, At, Job, Places
    <3>2. work' = [work EXCEPT ![a] = w]
      BY <2>2 DEF Move
    <3> HIDE DEF w
    <3>3. InPlace(w) /\ JobOK(a, w, made, condemned)
      BY <1>3, <1>5, <2>2, <3>1 DEF Put, At, JobOK, InPlace, Updates, Handling, Deleting, Rewriting
    <3> QED
      BY <1>0, <1>5, <2>1, <3>1, <3>2, <3>3, WorkChange DEF Put, JobsOK
  <2>3. CASE End(a)
    BY <1>0, <1>5, <2>1, <2>3, WorkChange DEF Put, End, JobsOK
  <2> QED
    BY <1>5, <2>2, <2>3 DEF Put
<1> QED
  BY <1>1, <1>2, <1>4, <1>5 DEF RewriteStep

\* A step of a removal preserves it.
LEMMA TypeRemoval ==
  ASSUME TypeInv, RemovalStep
  PROVE  TypeInv'
<1> USE DEF TypeInv, TypeOK, stores, history
<1>0. EventLoop \in Actors
  BY DEF Actors
<1>1. ASSUME work[EventLoop] # NoRecord
      PROVE  /\ work[EventLoop] \in Job /\ JobOK(EventLoop, work[EventLoop], made, condemned)
             /\ InPlace(work[EventLoop])
  BY <1>0, <1>1 DEF JobsOK, JobOK
<1>2. CASE BeginRemove
  <2> DEFINE w == [NewJob("remove", "next", NoRecord) EXCEPT !.todo = ToDelete(algorithm)]
  <2>1. w = [for |-> "remove", at |-> "next", checkpoint |-> NoRecord, copy |-> NoRecord,
             record |-> NoRecord, todo |-> algorithm.checkpoints]
    BY DEF NewJob, ToDelete
  <2>2. w \in Job
    BY <1>2, <2>1 DEF BeginRemove, AlgorithmRecord, Job, Purposes, Places
  <2>3. JobOK(EventLoop, w, made', condemned')
    BY <2>1 DEF JobOK, InPlace, Updates, Handling, Deleting, Rewriting
  <2> QED
    BY <1>0, <1>2, <2>2, <2>3, TypeBegin DEF BeginRemove, JobsOK
<1>3. ASSUME NEW c \in Checkpoints, DeleteNext(c) PROVE TypeInv'
  <2> DEFINE w == [work[EventLoop] EXCEPT !.at = "delete_assets", !.checkpoint = c,
                                          !.todo = @ \ {c}]
  <2>1. work[EventLoop].for = "remove"
    BY <1>1, <1>3 DEF DeleteNext, At, InPlace
  <2>2. w \in Job /\ w.for = "remove" /\ w.at = "delete_assets" /\ w.checkpoint = c
    BY <1>1, <1>3, <2>1 DEF DeleteNext, At, Job, Places
  <2>3. work' = [work EXCEPT ![EventLoop] = w]
    BY <1>3 DEF DeleteNext
  <2> HIDE DEF w
  <2>4. InPlace(w) /\ JobOK(EventLoop, w, made', condemned')
    BY <1>3, <2>2 DEF DeleteNext, JobOK, InPlace, Updates, Handling, Deleting, Rewriting
  <2> QED
    BY <1>0, <1>3, <2>2, <2>3, <2>4, WorkChange DEF DeleteNext, JobsOK
<1>4. CASE EraseAlgorithm
  BY <1>0, <1>4, WorkChange DEF EraseAlgorithm, End, JobsOK
<1>5. CASE BeginRemoveVersion
  <2> DEFINE w == [NewJob("remove_version", "count", NoRecord) EXCEPT !.copy = algorithm]
  <2>1. w \in Job /\ JobOK(EventLoop, w, made', condemned')
    BY <1>0, <1>5, CopyType DEF BeginRemoveVersion, Rewriting
  <2> QED
    BY <1>0, <1>5, <2>1, TypeBegin DEF BeginRemoveVersion, JobsOK
<1>6. CASE EraseAfterVersion
  BY <1>0, <1>1, <1>6, WorkChange DEF EraseAfterVersion, At, End, JobsOK, JobOK, InPlace
<1> QED
  BY <1>2, <1>3, <1>4, <1>5, <1>6 DEF RemovalStep

\* TypeInv is inductive.
LEMMA TypeInductive == TypeInv /\ [Next]_vars => TypeInv'
<1> SUFFICES ASSUME TypeInv, [Next]_vars PROVE TypeInv'
  OBVIOUS
<1>1. CASE UNCHANGED vars
  BY <1>1 DEF vars, stores, history, TypeInv, TypeOK, JobsOK
<1>2. ASSUME NEW a \in Actors, Fails(a) PROVE TypeInv'
  BY <1>2, UnwindType DEF Fails, TypeInv, TypeOK, JobsOK, stores
<1> QED
  BY <1>1, <1>2, TypeTraining, TypeCheckpoint, TypeRewrite, TypeRemoval DEF Next

\* Records have their types and jobs are sound in every state.
THEOREM TypeInvariance == Spec => []TypeInv
BY TypeInit, TypeInductive, PTL DEF Spec

\* Every state has the types: a record that is written is one that was read, and only
\* checkpoints somebody has begun to delete are deleted.
THEOREM TypeCorrect == Spec => []TypeOK
<1>1. TypeInv => TypeOK
  BY DEF TypeInv
<1> QED
  BY <1>1, TypeInvariance, PTL

-----------------------------------------------------------------------------
(* What is listed can be loaded. *)

\* The checkpoints that can be loaded or whose deletion has begun.
SafeOnes == condemned \union (manifests \intersect assets)

\* What a job has copied, and what it is going to list, is safe.
LoadOK(w, safe, stored) ==
  /\ ListedIn(w.copy) \subseteq safe
  /\ ListedIn(w.record) \subseteq safe
  /\ w.for = "save" /\ w.at = "put_manifest" => w.checkpoint \in stored
  /\ w.for = "save" /\ w.at \notin {"post_assets", "put_manifest"} => w.checkpoint \in safe

Stored == condemned \union assets

JobsLoad == \A a \in Actors : work[a] # NoRecord => LoadOK(work[a], SafeOnes, Stored)

LoadInv ==
  /\ manifests \subseteq SafeOnes
  /\ ListedIn(algorithm) \subseteq SafeOnes
  /\ \A t \in Trainings : ListedIn(training[t]) \subseteq SafeOnes
  /\ JobsLoad

\* Nothing that is safe becomes unsafe: only what is condemned gets lost.
LEMMA SafeGrows ==
  ASSUME TypeInv, [Next]_vars
  PROVE  SafeOnes \subseteq SafeOnes' /\ Stored \subseteq Stored'
<1> DEFINE Grows == SafeOnes \subseteq SafeOnes' /\ Stored \subseteq Stored'
<1> USE DEF SafeOnes, Stored, stores, history
<1>1. CASE UNCHANGED vars
  BY <1>1 DEF vars
<1>2. ASSUME NEW t \in Trainings, TrainingStep(t) PROVE Grows
  BY <1>2 DEF TrainingStep, BeginSave, PostAssets, PutManifest, BeginUpdate, ReadNothing,
              WriteUpdate, Expire
<1>3. ASSUME NEW a \in Trainings \union {EventLoop}, CheckpointStep(a) PROVE Grows
  <2>1. ASSUME At(a, "delete_assets") \/ At(a, "erase_manifest")
        PROVE  work[a].checkpoint \in condemned
    <3>1. a \in Actors /\ work[a] # NoRecord
      BY <2>1 DEF At, Actors
    <3>2. work[a] \in Job /\ JobOK(a, work[a], made, condemned)
      BY <3>1 DEF TypeInv, JobsOK
    <3> QED
      BY <2>1, <3>2, PurposeOfPlace DEF At, JobOK
  <2>2. CASE DeleteAssets(a)
    BY <2>1, <2>2 DEF DeleteAssets, AssetsOf
  <2>3. CASE EraseManifest(a)
    BY <2>1, <2>3 DEF EraseManifest
  <2> QED
    BY <1>3, <2>2, <2>3 DEF CheckpointStep, BeginDelete, ReadAlgorithm, WriteAlgorithm,
                            ReadTraining, WriteTraining, Raises
<1>4. ASSUME NEW a \in Threads \union {EventLoop}, RewriteStep(a) PROVE Grows
  BY <1>4 DEF RewriteStep, BeginRefresh, BeginRewrite, Count, Put
<1>5. ASSUME NEW a \in Actors, Fails(a) PROVE Grows
  BY <1>5 DEF Fails
<1>6. CASE RemovalStep
  BY <1>6 DEF RemovalStep, BeginRemove, DeleteNext, EraseAlgorithm, BeginRemoveVersion,
              EraseAfterVersion
<1> QED
  BY <1>1, <1>2, <1>3, <1>4, <1>5, <1>6 DEF Next

\* One actor gets another job that copied safe checkpoints, or none.
LEMMA LoadChange ==
  ASSUME TypeInv, LoadInv, NEW a \in Actors, NEW w \in Job \union {NoRecord},
         work' = [work EXCEPT ![a] = w],
         SafeOnes \subseteq SafeOnes', Stored \subseteq Stored',
         w # NoRecord => LoadOK(w, SafeOnes', Stored')
  PROVE  JobsLoad'
<1> SUFFICES ASSUME NEW b \in Actors, work'[b] # NoRecord
             PROVE  LoadOK(work'[b], SafeOnes', Stored')
  BY DEF JobsLoad
<1>1. work'[b] = IF b = a THEN w ELSE work[b]
  BY DEF TypeInv, JobsOK
<1>2. CASE b = a
  BY <1>1, <1>2
<1>3. CASE b # a
  BY <1>1, <1>3 DEF LoadInv, JobsLoad, LoadOK
<1> QED
  BY <1>2, <1>3

\* A job that begins without a copy.
LEMMA LoadNew ==
  ASSUME NEW purpose, NEW place, NEW c, NEW S, NEW T,
         purpose = "save" => place = "post_assets"
  PROVE  LoadOK(NewJob(purpose, place, c), S, T)
BY DEF LoadOK, NewJob, ListedIn

\* Where the handler of a training fails.
LEMMA LoadUnwind ==
  ASSUME TypeInv, LoadInv, NEW a \in Actors, Unwind(a),
         SafeOnes \subseteq SafeOnes', Stored \subseteq Stored'
  PROVE  JobsLoad'
<1> DEFINE w == IF a \in Trainings /\ work[a].for # "FAILED"
                THEN NewJob("FAILED", "read_training", NoRecord) ELSE NoRecord
<1>1. NewJob("FAILED", "read_training", NoRecord) \in Job
  BY NewJobType DEF Purposes, Updates, Places
<1>2. LoadOK(NewJob("FAILED", "read_training", NoRecord), SafeOnes', Stored')
  BY LoadNew
<1>3. w \in Job \union {NoRecord} /\ (w # NoRecord => LoadOK(w, SafeOnes', Stored'))
  BY <1>1, <1>2
<1> QED
  BY <1>3, LoadChange DEF Unwind

\* A job moves on.
LEMMA LoadMove ==
  ASSUME TypeInv, LoadInv, NEW a \in Actors, work[a] # NoRecord, NEW place \in Places,
         Move(a, place), SafeOnes \subseteq SafeOnes', Stored \subseteq Stored',
         work[a].for = "save" =>
           /\ place # "post_assets"
           /\ place = "put_manifest" => work[a].checkpoint \in Stored'
           /\ place # "put_manifest" => work[a].checkpoint \in SafeOnes'
  PROVE  JobsLoad'
<1> DEFINE w == [work[a] EXCEPT !.at = place]
<1>1. work[a] \in Job /\ LoadOK(work[a], SafeOnes, Stored)
  BY DEF TypeInv, JobsOK, LoadInv, JobsLoad
<1>2. w \in Job /\ w.for = work[a].for /\ w.at = place /\ w.checkpoint = work[a].checkpoint
      /\ w.copy = work[a].copy /\ w.record = work[a].record
  BY <1>1 DEF Job
<1>3. work' = [work EXCEPT ![a] = w]
  BY DEF Move
<1> HIDE DEF w
<1>4. LoadOK(w, SafeOnes', Stored')
  BY <1>1, <1>2 DEF LoadOK
<1> QED
  BY <1>2, <1>3, <1>4, LoadChange

\* A step of a training preserves LoadInv.
LEMMA LoadTraining ==
  ASSUME TypeInv, LoadInv, NEW t \in Trainings, TrainingStep(t),
         SafeOnes \subseteq SafeOnes', Stored \subseteq Stored'
  PROVE  LoadInv'
<1> USE DEF LoadInv, stores, history
<1>0. t \in Actors
  BY DEF Actors
<1>1. ASSUME work[t] # NoRecord
      PROVE  /\ work[t] \in Job /\ InPlace(work[t]) /\ JobOK(t, work[t], made, condemned)
             /\ LoadOK(work[t], SafeOnes, Stored)
  BY <1>0, <1>1 DEF TypeInv, JobsOK, JobOK, JobsLoad
<1>2. ASSUME NEW c \in Checkpoints, BeginSave(t, c) PROVE LoadInv'
  <2> DEFINE w == NewJob("save", "post_assets", c)
  <2>1. w \in Job /\ LoadOK(w, SafeOnes', Stored')
    BY NewJobType, LoadNew DEF Purposes, Places
  <2>2. JobsLoad'
    BY <1>0, <1>2, <2>1, LoadChange DEF BeginSave, Begin
  <2> QED
    BY <1>2, <2>2 DEF BeginSave
<1>3. CASE PostAssets(t)
  <2>1. work[t].checkpoint \in Stored'
    BY <1>3 DEF PostAssets, AssetsOf, Stored
  <2>2. JobsLoad'
    BY <1>0, <1>3, <2>1, LoadMove DEF PostAssets, At, Places
  <2> QED
    BY <1>3, <2>2 DEF PostAssets
<1>4. CASE PutManifest(t)
  <2>1. work[t].checkpoint \in Stored
    BY <1>1, <1>4, PurposeOfPlace DEF PutManifest, At, LoadOK
  <2>2. work[t].checkpoint \in SafeOnes'
    BY <1>4, <2>1 DEF PutManifest, SafeOnes, Stored, history
  <2>3. JobsLoad'
    BY <1>0, <1>4, <2>2, LoadMove DEF PutManifest, At, Places
  <2>4. manifests' \subseteq SafeOnes'
    BY <1>4, <2>2 DEF PutManifest
  <2> QED
    BY <1>4, <2>3, <2>4 DEF PutManifest
<1>5. ASSUME NEW update \in Updates, BeginUpdate(t, update) PROVE LoadInv'
  <2> DEFINE w == NewJob(update, "read_training", NoRecord)
  <2>1. w \in Job /\ LoadOK(w, SafeOnes', Stored')
    BY NewJobType, LoadNew DEF Purposes, Places, Updates
  <2>2. JobsLoad'
    BY <1>0, <1>5, <2>1, LoadChange DEF BeginUpdate, Begin
  <2> QED
    BY <1>5, <2>2 DEF BeginUpdate
<1>6. CASE ReadNothing(t)
  <2> DEFINE w == [work[t] EXCEPT !.at = "write_training", !.record = Stub]
  <2>1. Stub \in TrainingRecord /\ ListedIn(Stub) = {}
    BY DEF Stub, TrainingRecord, Statuses, ListedIn
  <2>2. /\ w \in Job /\ w.for = "FAILED" /\ w.at = "write_training"
        /\ w.copy = work[t].copy /\ w.record = Stub
    BY <1>1, <1>6, <2>1 DEF ReadNothing, At, Job, Places
  <2>3. work' = [work EXCEPT ![t] = w]
    BY <1>6 DEF ReadNothing
  <2> HIDE DEF w
  <2>4. LoadOK(w, SafeOnes', Stored')
    BY <1>1, <1>6, <2>1, <2>2 DEF ReadNothing, At, LoadOK
  <2>5. JobsLoad'
    BY <1>0, <2>2, <2>3, <2>4, LoadChange
  <2> QED
    BY <1>6, <2>5 DEF ReadNothing
<1>7. CASE WriteUpdate(t)
  <2>1. JobsLoad'
    BY <1>0, <1>7, LoadChange DEF WriteUpdate, End
  <2>2. work[t].record \in TrainingRecord /\ work[t].record # NoRecord
    BY <1>1, <1>7 DEF WriteUpdate, At, JobOK, Job
  <2>3. ListedIn(work[t].record) \subseteq SafeOnes'
    BY <1>1, <1>7 DEF WriteUpdate, At, LoadOK
  <2>4. /\ training'[t] # NoRecord
        /\ training'[t].checkpoints = work[t].record.checkpoints
    <3>1. training'[t] \in TrainingRecord
      BY <1>7, <2>2 DEF WriteUpdate, TypeInv, TypeOK, TrainingRecord, Updates, Statuses
    <3> QED
      BY <1>7, <2>2, <3>1, NoRecordAssumption DEF WriteUpdate, TypeInv, TypeOK, TrainingRecord
  <2>5. \A u \in Trainings : ListedIn(training'[u]) \subseteq SafeOnes'
    <3>1. \A u \in Trainings \ {t} : training'[u] = training[u]
      BY <1>7 DEF WriteUpdate, TypeInv, TypeOK
    <3>2. ListedIn(training'[t]) = ListedIn(work[t].record)
      BY <2>2, <2>4 DEF ListedIn
    <3> QED
      BY <2>3, <3>1, <3>2
  <2> QED
    BY <1>7, <2>1, <2>5 DEF WriteUpdate
<1>8. CASE Expire(t)
  <2>1. \A u \in Trainings : ListedIn(training'[u]) \subseteq ListedIn(training[u])
    BY <1>8 DEF Expire, ListedIn, TypeInv, TypeOK
  <2>2. JobsLoad'
    BY <1>8 DEF Expire, JobsLoad, LoadOK
  <2> QED
    BY <1>8, <2>1, <2>2 DEF Expire
<1> QED
  BY <1>2, <1>3, <1>4, <1>5, <1>6, <1>7, <1>8 DEF TrainingStep

\* A list changed for a job that handles a checkpoint stays safe.
LEMMA ListedSafe ==
  ASSUME NEW a \in Actors, work[a].for \in Handling, NEW S, NEW L, S \subseteq L,
         work[a].for = "save" => work[a].checkpoint \in L
  PROVE  Listed(S, a) \subseteq L
BY DEF Listed

\* A job that has dealt with the record of the training.
LEMMA LoadAfterTraining ==
  ASSUME TypeInv, LoadInv, NEW a \in Actors, work[a] # NoRecord, AfterTraining(a),
         SafeOnes \subseteq SafeOnes', Stored \subseteq Stored'
  PROVE  JobsLoad'
<1>1. CASE work[a].for = "save"
  BY <1>1, LoadChange DEF AfterTraining, End
<1>2. CASE work[a].for # "save"
  BY <1>2, LoadMove DEF AfterTraining, Places
<1> QED
  BY <1>1, <1>2

\* A step that writes one of the lists, or deletes, preserves LoadInv.
LEMMA LoadCheckpoint ==
  ASSUME TypeInv, LoadInv, NEW a \in Trainings \union {EventLoop}, CheckpointStep(a),
         SafeOnes \subseteq SafeOnes', Stored \subseteq Stored'
  PROVE  LoadInv'
<1> USE DEF LoadInv, stores, history
<1>0. a \in Actors
  BY DEF Actors
<1>1. ASSUME work[a] # NoRecord
      PROVE  /\ work[a] \in Job /\ InPlace(work[a]) /\ JobOK(a, work[a], made, condemned)
             /\ LoadOK(work[a], SafeOnes, Stored)
  BY <1>0, <1>1 DEF TypeInv, JobsOK, JobOK, JobsLoad
<1>2. ASSUME NEW c \in Checkpoints, BeginDelete(a, c) PROVE LoadInv'
  <2> DEFINE w == NewJob("delete", "delete_assets", c)
  <2>1. w \in Job /\ LoadOK(w, SafeOnes', Stored')
    BY NewJobType, LoadNew DEF Purposes, Places
  <2>2. JobsLoad'
    BY <1>0, <1>2, <2>1, LoadChange DEF BeginDelete, Begin
  <2> QED
    BY <1>2, <2>2 DEF BeginDelete
<1>3. CASE DeleteAssets(a)
  <2>1. work[a].for # "save"
    BY <1>1, <1>3, PurposeOfPlace DEF DeleteAssets, At, Deleting
  <2>2. JobsLoad'
    BY <1>0, <1>3, <2>1, LoadMove DEF DeleteAssets, At, Places
  <2> QED
    BY <1>3, <2>2 DEF DeleteAssets
<1>4. CASE ReadAlgorithm(a)
  <2>1. work[a].for = "save" => work[a].checkpoint \in SafeOnes'
    BY <1>1, <1>4 DEF ReadAlgorithm, At, LoadOK
  <2>2. CASE Move(a, "read_training")
    <3>1. JobsLoad'
      BY <1>0, <1>4, <2>1, <2>2, LoadMove DEF ReadAlgorithm, At, Places
    <3> QED
      BY <1>4, <3>1 DEF ReadAlgorithm
  <2>3. CASE work' = [work EXCEPT ![a].at = "write_algorithm", ![a].copy = algorithm]
    <3> DEFINE w == [work[a] EXCEPT !.at = "write_algorithm", !.copy = algorithm]
    <3>1. /\ w \in Job /\ w.for = work[a].for /\ w.at = "write_algorithm"
          /\ w.copy = algorithm /\ w.record = work[a].record
          /\ w.checkpoint = work[a].checkpoint
      BY <1>1, <1>4 DEF ReadAlgorithm, At, Job, Places, TypeInv, TypeOK
    <3>2. work' = [work EXCEPT ![a] = w]
      BY <2>3
    <3> HIDE DEF w
    <3>3. LoadOK(w, SafeOnes', Stored')
      BY <1>1, <1>4, <2>1, <3>1 DEF ReadAlgorithm, At, LoadOK
    <3>4. JobsLoad'
      BY <1>0, <3>1, <3>2, <3>3, LoadChange
    <3> QED
      BY <1>4, <3>4 DEF ReadAlgorithm
  <2> QED
    BY <1>4, <2>2, <2>3 DEF ReadAlgorithm
<1>5. CASE WriteAlgorithm(a)
  <2>1. /\ work[a].for \in Handling /\ work[a].copy \in AlgorithmRecord
        /\ ListedIn(work[a].copy) \subseteq SafeOnes'
        /\ work[a].for = "save" => work[a].checkpoint \in SafeOnes'
    BY <1>1, <1>5, PurposeOfPlace DEF WriteAlgorithm, At, JobOK, Job, LoadOK
  <2>2. work[a].copy.checkpoints \subseteq SafeOnes'
    BY <2>1, NoRecordAssumption DEF ListedIn
  <2>3. algorithm'.checkpoints = Listed(work[a].copy.checkpoints, a)
    BY <1>5, <2>1 DEF WriteAlgorithm, MarkStale, AlgorithmRecord
  <2>4. ListedIn(algorithm') \subseteq SafeOnes'
    <3>1. Listed(work[a].copy.checkpoints, a) \subseteq SafeOnes'
      BY <1>0, <2>1, <2>2, ListedSafe
    <3> QED
      BY <2>3, <3>1 DEF ListedIn
  <2>5. JobsLoad'
    BY <1>0, <1>5, <2>1, LoadMove DEF WriteAlgorithm, At, Places
  <2> QED
    BY <1>5, <2>4, <2>5 DEF WriteAlgorithm
<1>6. CASE ReadTraining(a)
  <2>1. CASE AfterTraining(a)
    BY <1>0, <1>6, <2>1, LoadAfterTraining DEF ReadTraining, At
  <2>2. CASE work' = [work EXCEPT ![a].at = "write_training",
                                  ![a].record = training[Concerned(a)]]
    <3> DEFINE w == [work[a] EXCEPT !.at = "write_training", !.record = training[Concerned(a)]]
    <3>1. Concerned(a) \in Trainings
      <4>1. work[a].for \in Handling \union Updates
        BY <1>1, <1>6, PurposeOfPlace DEF ReadTraining, At
      <4> QED
        BY <1>1, <1>6, <4>1
           DEF Concerned, JobOK, ReadTraining, At, Handling, Updates, Maker, Checkpoints,
               TypeInv, TypeOK
    <3>2. /\ w \in Job /\ w.for = work[a].for /\ w.at = "write_training"
          /\ w.copy = work[a].copy /\ w.record = training[Concerned(a)]
          /\ w.checkpoint = work[a].checkpoint
      BY <1>1, <1>6, <3>1 DEF ReadTraining, At, Job, Places, TypeInv, TypeOK
    <3>3. work' = [work EXCEPT ![a] = w]
      BY <2>2
    <3> HIDE DEF w
    <3>4. LoadOK(w, SafeOnes', Stored')
      BY <1>1, <1>6, <3>1, <3>2 DEF ReadTraining, At, LoadOK
    <3>5. JobsLoad'
      BY <1>0, <3>2, <3>3, <3>4, LoadChange
    <3> QED
      BY <1>6, <3>5 DEF ReadTraining
  <2> QED
    BY <1>6, <2>1, <2>2 DEF ReadTraining
<1>7. CASE WriteTraining(a)
  <2>1. /\ work[a].for \in Handling /\ work[a].record \in TrainingRecord
        /\ ListedIn(work[a].record) \subseteq SafeOnes'
        /\ work[a].for = "save" => work[a].checkpoint \in SafeOnes'
    BY <1>1, <1>7, PurposeOfPlace DEF WriteTraining, At, JobOK, Job, LoadOK
  <2>2. work[a].record.checkpoints \subseteq SafeOnes'
    BY <2>1, NoRecordAssumption DEF ListedIn
  <2> DEFINE r == WithList(work[a].record, a)
  <2>3. r.checkpoints = Listed(work[a].record.checkpoints, a)
    BY <2>1 DEF WithList, TrainingRecord
  <2>4. ListedIn(r) \subseteq SafeOnes'
    <3>1. Listed(work[a].record.checkpoints, a) \subseteq SafeOnes'
      BY <1>0, <2>1, <2>2, ListedSafe
    <3> QED
      BY <2>3, <3>1 DEF ListedIn
  <2>5. \A t \in Trainings : training'[t] = r \/ training'[t] = training[t]
    BY <1>7 DEF WriteTraining, TypeInv, TypeOK
  <2>6. JobsLoad'
    BY <1>0, <1>7, LoadAfterTraining DEF WriteTraining, At
  <2> HIDE DEF r
  <2>7. \A t \in Trainings : ListedIn(training'[t]) \subseteq SafeOnes'
    BY <2>4, <2>5
  <2> QED
    BY <1>7, <2>6, <2>7 DEF WriteTraining
<1>8. CASE EraseManifest(a)
  <2>1. work[a].for # "save"
    BY <1>1, <1>8, PurposeOfPlace DEF EraseManifest, At, Deleting
  <2>2. JobsLoad'
    BY <1>0, <1>8, <2>1, LoadMove, LoadChange DEF EraseManifest, At, End, Places
  <2> QED
    BY <1>8, <2>2 DEF EraseManifest
<1>9. CASE Raises(a)
  BY <1>0, <1>9, LoadUnwind DEF Raises
<1> QED
  BY <1>2, <1>3, <1>4, <1>5, <1>6, <1>7, <1>8, <1>9 DEF CheckpointStep

\* A step that writes the algorithm's record for another reason preserves LoadInv.
LEMMA LoadRewrite ==
  ASSUME TypeInv, LoadInv, NEW a \in Threads \union {EventLoop}, RewriteStep(a),
         SafeOnes \subseteq SafeOnes', Stored \subseteq Stored'
  PROVE  LoadInv'
<1> USE DEF LoadInv, stores, history
<1>0. a \in Actors
  BY DEF Actors
<1>1. ASSUME NEW purpose \in Rewriting, NEW place \in {"count", "put"}, algorithm # NoRecord,
             Begin(a, [NewJob(purpose, place, NoRecord) EXCEPT !.copy = algorithm])
      PROVE  JobsLoad'
  <2> DEFINE w == [NewJob(purpose, place, NoRecord) EXCEPT !.copy = algorithm]
  <2>1. w = [for |-> purpose, at |-> place, checkpoint |-> NoRecord, copy |-> algorithm,
             record |-> NoRecord, todo |-> {}]
    BY DEF NewJob
  <2>2. w \in Job
    BY <1>1, <2>1 DEF TypeInv, TypeOK, Job, Purposes, Places, Rewriting
  <2>3. LoadOK(w, SafeOnes', Stored')
    BY <2>1 DEF LoadOK, ListedIn, Rewriting
  <2> QED
    BY <1>0, <1>1, <2>2, <2>3, LoadChange DEF Begin
<1>2. ASSUME work[a] # NoRecord
      PROVE  /\ work[a] \in Job /\ InPlace(work[a]) /\ JobOK(a, work[a], made, condemned)
             /\ LoadOK(work[a], SafeOnes, Stored)
  BY <1>0, <1>2 DEF TypeInv, JobsOK, JobOK, JobsLoad
<1>3. CASE BeginRefresh(a)
  BY <1>1, <1>3 DEF BeginRefresh, Rewriting
<1>4. ASSUME NEW place \in {"count", "put"}, BeginRewrite(a, place) PROVE LoadInv'
  BY <1>1, <1>4 DEF BeginRewrite, Rewriting
<1>5. CASE Count(a)
  <2> DEFINE w == [work[a] EXCEPT !.at = "put", !.copy = Counted(@)]
  <2>1. /\ work[a].for \in Rewriting /\ work[a].copy \in AlgorithmRecord
        /\ ListedIn(work[a].copy) \subseteq SafeOnes'
    BY <1>2, <1>5, PurposeOfPlace DEF Count, At, JobOK, Job, LoadOK
  <2>2. /\ Counted(work[a].copy) \in AlgorithmRecord
        /\ Counted(work[a].copy).checkpoints = work[a].copy.checkpoints
    BY <2>1 DEF Counted, AlgorithmRecord
  <2>3. /\ w \in Job /\ w.for = work[a].for /\ w.copy = Counted(work[a].copy)
        /\ w.record = work[a].record
    BY <1>2, <1>5, <2>2 DEF Count, At, Job, Places
  <2>4. work' = [work EXCEPT ![a] = w]
    BY <1>5 DEF Count
  <2> HIDE DEF w
  <2>5. ListedIn(w.copy) \subseteq SafeOnes'
    BY <2>1, <2>2, <2>3, NoRecordAssumption DEF ListedIn
  <2>6. LoadOK(w, SafeOnes', Stored')
    BY <1>2, <1>5, <2>1, <2>3, <2>5 DEF Count, At, LoadOK, Rewriting
  <2>7. JobsLoad'
    BY <1>0, <2>3, <2>4, <2>6, LoadChange
  <2> QED
    BY <1>5, <2>7 DEF Count
<1>6. CASE Put(a)
  <2>1. work[a].for \in Rewriting /\ ListedIn(work[a].copy) \subseteq SafeOnes'
    BY <1>2, <1>6, PurposeOfPlace DEF Put, At, LoadOK
  <2>2. JobsLoad'
    BY <1>0, <1>6, <2>1, LoadMove, LoadChange DEF Put, At, End, Places, Rewriting
  <2> QED
    BY <1>6, <2>1, <2>2 DEF Put
<1> QED
  BY <1>3, <1>4, <1>5, <1>6 DEF RewriteStep

\* A step of a removal preserves LoadInv.
LEMMA LoadRemoval ==
  ASSUME TypeInv, LoadInv, RemovalStep,
         SafeOnes \subseteq SafeOnes', Stored \subseteq Stored'
  PROVE  LoadInv'
<1> USE DEF LoadInv, stores, history
<1>0. EventLoop \in Actors
  BY DEF Actors
<1>1. ASSUME work[EventLoop] # NoRecord
      PROVE  /\ work[EventLoop] \in Job /\ InPlace(work[EventLoop])
             /\ LoadOK(work[EventLoop], SafeOnes, Stored)
  BY <1>0, <1>1 DEF TypeInv, JobsOK, JobOK, JobsLoad
<1>2. CASE BeginRemove
  <2> DEFINE w == [NewJob("remove", "next", NoRecord) EXCEPT !.todo = ToDelete(algorithm)]
  <2>1. w = [for |-> "remove", at |-> "next", checkpoint |-> NoRecord, copy |-> NoRecord,
             record |-> NoRecord, todo |-> algorithm.checkpoints]
    BY DEF NewJob, ToDelete
  <2>2. w \in Job /\ LoadOK(w, SafeOnes', Stored')
    BY <1>2, <2>1 DEF BeginRemove, TypeInv, TypeOK, AlgorithmRecord, Job, Purposes, Places,
                      LoadOK, ListedIn
  <2>3. JobsLoad'
    BY <1>0, <1>2, <2>2, LoadChange DEF BeginRemove, Begin
  <2> QED
    BY <1>2, <2>3 DEF BeginRemove
<1>3. ASSUME NEW c \in Checkpoints, DeleteNext(c) PROVE LoadInv'
  <2> DEFINE w == [work[EventLoop] EXCEPT !.at = "delete_assets", !.checkpoint = c,
                                          !.todo = @ \ {c}]
  <2>1. work[EventLoop].for = "remove"
    BY <1>1, <1>3 DEF DeleteNext, At, InPlace
  <2>2. /\ w \in Job /\ w.for = "remove"
        /\ w.copy = work[EventLoop].copy /\ w.record = work[EventLoop].record
    BY <1>1, <1>3, <2>1 DEF DeleteNext, At, Job, Places
  <2>3. work' = [work EXCEPT ![EventLoop] = w]
    BY <1>3 DEF DeleteNext
  <2> HIDE DEF w
  <2>4. LoadOK(w, SafeOnes', Stored')
    BY <1>1, <1>3, <2>2 DEF DeleteNext, At, LoadOK
  <2>5. JobsLoad'
    BY <1>0, <2>2, <2>3, <2>4, LoadChange
  <2> QED
    BY <1>3, <2>5 DEF DeleteNext
<1>4. CASE EraseAlgorithm
  <2>1. JobsLoad'
    BY <1>0, <1>4, LoadChange DEF EraseAlgorithm, End
  <2> QED
    BY <1>4, <2>1 DEF EraseAlgorithm, ListedIn
<1>5. CASE BeginRemoveVersion
  <2> DEFINE w == [NewJob("remove_version", "count", NoRecord) EXCEPT !.copy = algorithm]
  <2>1. w = [for |-> "remove_version", at |-> "count", checkpoint |-> NoRecord,
             copy |-> algorithm, record |-> NoRecord, todo |-> {}]
    BY DEF NewJob
  <2>2. w \in Job /\ LoadOK(w, SafeOnes', Stored')
    BY <1>5, <2>1 DEF BeginRemoveVersion, TypeInv, TypeOK, Job, Purposes, Places, LoadOK, ListedIn
  <2>3. JobsLoad'
    BY <1>0, <1>5, <2>2, LoadChange DEF BeginRemoveVersion, Begin
  <2> QED
    BY <1>5, <2>3 DEF BeginRemoveVersion
<1>6. CASE EraseAfterVersion
  <2>1. JobsLoad'
    BY <1>0, <1>6, LoadChange DEF EraseAfterVersion, End
  <2> QED
    BY <1>6, <2>1 DEF EraseAfterVersion, ListedIn
<1> QED
  BY <1>2, <1>3, <1>4, <1>5, <1>6 DEF RemovalStep

\* LoadInv is inductive relative to TypeInv.
LEMMA LoadInductive == TypeInv /\ LoadInv /\ [Next]_vars => LoadInv'
<1> SUFFICES ASSUME TypeInv, LoadInv, [Next]_vars PROVE LoadInv'
  OBVIOUS
<1>0. SafeOnes \subseteq SafeOnes' /\ Stored \subseteq Stored'
  BY SafeGrows
<1>1. CASE UNCHANGED vars
  BY <1>1 DEF vars, stores, history, LoadInv, JobsLoad, SafeOnes, Stored
<1>2. ASSUME NEW a \in Actors, Fails(a) PROVE LoadInv'
  <2>1. JobsLoad'
    BY <1>0, <1>2, LoadUnwind DEF Fails
  <2> QED
    BY <1>0, <1>2, <2>1 DEF Fails, LoadInv, stores
<1> QED
  BY <1>0, <1>1, <1>2, LoadTraining, LoadCheckpoint, LoadRewrite, LoadRemoval DEF Next

\* What clients find, in the store or in a record, can be loaded unless its deletion has
\* begun: register_checkpoint writes the manifest after the assets and before the lists,
\* and no job writes a list it did not read.
THEOREM FoundCanBeLoaded == Spec => []ListedCanBeLoaded
<1>1. Init => LoadInv
  BY DEF Init, LoadInv, JobsLoad, ListedIn
<1>2. LoadInv => ListedCanBeLoaded
  <2> SUFFICES ASSUME LoadInv PROVE Visible \subseteq SafeOnes
    BY DEF ListedCanBeLoaded, SafeOnes
  <2> QED
    BY DEF LoadInv, Visible
<1> QED
  BY <1>1, <1>2, TypeInvariance, LoadInductive, PTL DEF Spec

-----------------------------------------------------------------------------
(* Jobs that do not overlap *)

Own(t) == {c \in Checkpoints : Maker(c) = t}

\* A job that is alone works on what is stored, and a deletion gets on.
Fresh(a) ==
  LET w == work[a]
      c == w.checkpoint
      t == Concerned(a)
  IN  /\ w.at = "write_algorithm" => w.copy = algorithm
      /\ w.at \in {"count", "put"} =>
           algorithm # NoRecord /\ w.copy.checkpoints = algorithm.checkpoints
      /\ w.at = "write_training" =>
           /\ w.record.checkpoints \subseteq Own(t) \ deleted
           /\ w.for # "FAILED" => w.record.status = told[t]
           /\ training[t] # NoRecord => w.record = training[t]
      /\ w.for = "save" =>
           /\ c \notin deleted
           /\ w.at \in {"read_training", "write_training"} => c \in ListedIn(algorithm)
      /\ w.for \in Deleting /\ w.at \notin {"next", "delete_assets"} => c \notin assets
      /\ w.for \in Deleting /\ w.at \in {"read_training", "write_training", "erase_manifest"} =>
           c \notin ListedIn(algorithm)
      /\ w.for \in Deleting /\ w.at = "erase_manifest" => c \notin ListedIn(training[t])

JobsFresh == \A a \in Actors : work[a] # NoRecord => Alone(a) /\ Fresh(a)

\* A training's record lists its own checkpoints, and has the status of the handler.
RecordsAreTheirs ==
  \A t \in Trainings :
    training[t] # NoRecord =>
      training[t].checkpoints \subseteq Own(t) /\ training[t].status = told[t]

DeletedIsGone ==
  /\ deleted \intersect (manifests \union assets \union ListedIn(algorithm)) = {}
  /\ \A t \in Trainings : deleted \intersect ListedIn(training[t]) = {}

SavedIsKept ==
  "expiry" \notin happened =>
    /\ \A t \in Trainings : training[t] # NoRecord
    /\ \A c \in saved \ condemned :
         /\ algorithm # NoRecord => c \in algorithm.checkpoints
         /\ c \in training[Maker(c)].checkpoints

Serial == JobsFresh /\ RecordsAreTheirs /\ DeletedIsGone /\ SavedIsKept

SerialInv == "overlap" \notin happened => Serial

\* What has happened is not forgotten.
LEMMA HappenedGrows == [Next]_vars => happened \subseteq happened'
<1> SUFFICES ASSUME [Next]_vars PROVE happened \subseteq happened'
  OBVIOUS
<1> USE DEF history
<1>1. CASE UNCHANGED vars
  BY <1>1 DEF vars
<1>2. ASSUME NEW t \in Trainings, TrainingStep(t) PROVE happened \subseteq happened'
  BY <1>2 DEF TrainingStep, BeginSave, PostAssets, PutManifest, BeginUpdate, ReadNothing,
              WriteUpdate, Expire, Begin
<1>3. ASSUME NEW a \in Trainings \union {EventLoop}, CheckpointStep(a)
      PROVE  happened \subseteq happened'
  BY <1>3 DEF CheckpointStep, BeginDelete, DeleteAssets, ReadAlgorithm, WriteAlgorithm,
              ReadTraining, WriteTraining, EraseManifest, Raises, Begin
<1>4. ASSUME NEW a \in Threads \union {EventLoop}, RewriteStep(a)
      PROVE  happened \subseteq happened'
  BY <1>4 DEF RewriteStep, BeginRefresh, BeginRewrite, Count, Put, Begin
<1>5. ASSUME NEW a \in Actors, Fails(a) PROVE happened \subseteq happened'
  BY <1>5 DEF Fails
<1>6. CASE RemovalStep
  BY <1>6 DEF RemovalStep, BeginRemove, DeleteNext, EraseAlgorithm, BeginRemoveVersion,
              EraseAfterVersion, Begin
<1> QED
  BY <1>1, <1>2, <1>3, <1>4, <1>5, <1>6 DEF Next

\* The only job changes.
LEMMA OneJob ==
  ASSUME TypeInv, NEW a \in Actors, Alone(a), NEW w, work' = [work EXCEPT ![a] = w],
         w # NoRecord => Fresh(a)'
  PROVE  JobsFresh'
<1>1. work'[a] = w /\ \A b \in Actors \ {a} : work'[b] = NoRecord
  BY DEF TypeInv, JobsOK, Alone
<1>2. Alone(a)'
  BY <1>1 DEF Alone
<1> QED
  BY <1>1, <1>2 DEF JobsFresh

\* A job begins when there is no other.
LEMMA BeginAlone ==
  ASSUME TypeInv, NEW a \in Actors, NEW w \in Job, Begin(a, w), "overlap" \notin happened'
  PROVE  /\ Alone(a) /\ work'[a] = w
         /\ happened' = happened
BY DEF Begin, TypeInv, JobsOK

\* The handler of a training that failed starts to mark it.
LEMMA SerialUnwind ==
  ASSUME TypeInv, JobsFresh, NEW a \in Actors, work[a] # NoRecord, Unwind(a)
  PROVE  JobsFresh'
<1>1. /\ Alone(a)
      /\ \/ work'[a] = NewJob("FAILED", "read_training", NoRecord)
         \/ work'[a] = NoRecord
  BY DEF JobsFresh, TypeInv, JobsOK, Unwind
<1>2. CASE work'[a] = NewJob("FAILED", "read_training", NoRecord)
  <2>1. work'[a].for = "FAILED" /\ work'[a].at = "read_training"
    BY <1>2 DEF NewJob
  <2>2. Fresh(a)'
    BY <2>1 DEF Fresh, Deleting
  <2> QED
    BY <1>1, <2>2, OneJob DEF Unwind
<1>3. CASE work'[a] = NoRecord
  <2>1. work' = [work EXCEPT ![a] = NoRecord]
    BY <1>3 DEF Unwind, TypeInv, JobsOK
  <2> QED
    BY <1>1, <2>1, OneJob
<1> QED
  BY <1>1, <1>2, <1>3


\* A step of a training preserves Serial.
LEMMA SerialTraining ==
  ASSUME TypeInv, Serial, NEW t \in Trainings, TrainingStep(t), "overlap" \notin happened'
  PROVE  Serial'
<1> USE DEF Serial, stores, history
<1>0. t \in Actors /\ work \in [Actors -> Job \union {NoRecord}]
  BY DEF Actors, TypeInv, JobsOK
<1>1. ASSUME work[t] # NoRecord
      PROVE  /\ work[t] \in Job /\ InPlace(work[t]) /\ JobOK(t, work[t], made, condemned)
             /\ Alone(t) /\ Fresh(t)
  BY <1>0, <1>1 DEF TypeInv, JobsOK, JobOK, JobsFresh
<1>2. ASSUME NEW c \in Checkpoints, BeginSave(t, c) PROVE Serial'
  <2> DEFINE w == NewJob("save", "post_assets", c)
  <2>1. w \in Job
    BY NewJobType DEF Purposes, Places
  <2>2. Alone(t) /\ work'[t] = w /\ happened' = happened
    BY <1>0, <1>2, <2>1, BeginAlone DEF BeginSave
  <2>3. /\ work'[t].for = "save" /\ work'[t].at = "post_assets" /\ work'[t].checkpoint = c
        /\ c \notin deleted'
    BY <1>2, <2>2 DEF NewJob, BeginSave, TypeInv, TypeOK
  <2>4. Fresh(t)'
    BY <2>3 DEF Fresh, Deleting
  <2>5. JobsFresh'
    BY <1>0, <1>2, <2>2, <2>4, OneJob DEF BeginSave, Begin
  <2> QED
    BY <1>2, <2>2, <2>5 DEF BeginSave, RecordsAreTheirs, DeletedIsGone, SavedIsKept
<1>3. CASE PostAssets(t) \/ PutManifest(t)
  <2>1. work[t] # NoRecord /\ work[t].at \in {"post_assets", "put_manifest"}
    BY <1>3 DEF PostAssets, PutManifest, At
  <2>2. work[t].for = "save" /\ work[t].checkpoint \notin deleted
    BY <1>1, <2>1, PurposeOfPlace DEF Fresh
  <2>3. PICK place \in {"put_manifest", "read_algorithm"} : Move(t, place)
    BY <1>3 DEF PostAssets, PutManifest
  <2>4. /\ work'[t].for = "save" /\ work'[t].at = place
        /\ work'[t].checkpoint \notin deleted'
    BY <1>0, <1>1, <1>3, <2>1, <2>2, <2>3 DEF Move, Job, PostAssets, PutManifest
  <2>5. Fresh(t)'
    BY <2>4 DEF Fresh, Deleting
  <2>6. JobsFresh'
    BY <1>0, <1>1, <2>1, <2>3, <2>5, OneJob DEF Move
  <2>7. DeletedIsGone'
    BY <1>3, <2>2 DEF DeletedIsGone, PostAssets, PutManifest, AssetsOf
  <2> QED
    BY <1>3, <2>6, <2>7 DEF PostAssets, PutManifest, RecordsAreTheirs, SavedIsKept
<1>4. ASSUME NEW update \in Updates, BeginUpdate(t, update) PROVE Serial'
  <2> DEFINE w == NewJob(update, "read_training", NoRecord)
  <2>1. w \in Job
    BY NewJobType DEF Purposes, Places
  <2>2. Alone(t) /\ work'[t] = w /\ happened' = happened
    BY <1>0, <1>4, <2>1, BeginAlone DEF BeginUpdate
  <2>3. work'[t].for \in Updates /\ work'[t].at = "read_training"
    BY <2>2 DEF NewJob
  <2>4. Fresh(t)'
    BY <2>3 DEF Fresh, Deleting, Updates
  <2>5. JobsFresh'
    BY <1>0, <1>4, <2>2, <2>4, OneJob DEF BeginUpdate, Begin
  <2> QED
    BY <1>4, <2>2, <2>5 DEF BeginUpdate, RecordsAreTheirs, DeletedIsGone, SavedIsKept
<1>5. CASE ReadNothing(t)
  <2> DEFINE w == [work[t] EXCEPT !.at = "write_training", !.record = Stub]
  <2>1. work' = [work EXCEPT ![t] = w]
    BY <1>5 DEF ReadNothing
  <2>2. /\ work'[t].for = "FAILED" /\ work'[t].at = "write_training"
        /\ work'[t].record.checkpoints = {}
    BY <1>0, <1>1, <1>5, <2>1 DEF ReadNothing, At, Job, Stub
  <2>3. Concerned(t)' = t /\ training'[t] = NoRecord
    BY <1>5, <2>2 DEF ReadNothing, Concerned, Updates
  <2>4. Fresh(t)'
    BY <2>2, <2>3 DEF Fresh, Deleting
  <2>5. JobsFresh'
    BY <1>0, <1>1, <1>5, <2>1, <2>4, OneJob DEF ReadNothing, At
  <2> QED
    BY <1>5, <2>5 DEF ReadNothing, RecordsAreTheirs, DeletedIsGone, SavedIsKept
<1>6. CASE WriteUpdate(t)
  <2>1. /\ Alone(t) /\ Fresh(t) /\ Concerned(t) = t
        /\ work[t].at = "write_training" /\ work[t].for \in Updates
        /\ work[t].record \in TrainingRecord
    BY <1>0, <1>1, <1>6 DEF WriteUpdate, At, JobOK, Job, Concerned
  <2>2. /\ work[t].record.checkpoints \subseteq Own(t) \ deleted
        /\ work[t].for # "FAILED" => work[t].record.status = told[t]
        /\ training[t] # NoRecord => work[t].record = training[t]
    BY <2>1 DEF Fresh
  <2>3. JobsFresh'
    BY <1>0, <1>6, <2>1, OneJob DEF WriteUpdate, End
  <2>4. /\ training'[t] \in TrainingRecord
        /\ training'[t].checkpoints = work[t].record.checkpoints
        /\ training'[t].status = told'[t]
        /\ \A u \in Trainings \ {t} : training'[u] = training[u] /\ told'[u] = told[u]
    BY <1>6, <2>1, <2>2 DEF WriteUpdate, TypeInv, TypeOK, TrainingRecord, Updates, Statuses
  <2>5. RecordsAreTheirs'
    BY <2>2, <2>4 DEF RecordsAreTheirs
  <2>6. DeletedIsGone'
    BY <1>6, <2>2, <2>4 DEF WriteUpdate, DeletedIsGone, ListedIn
  <2>7. SavedIsKept'
    <3> SUFFICES ASSUME "expiry" \notin happened PROVE SavedIsKept'
      BY <1>6 DEF SavedIsKept, WriteUpdate
    <3>1. \A u \in Trainings : training'[u] # NoRecord
                               /\ training'[u].checkpoints = training[u].checkpoints
      BY <2>2, <2>4, NoRecordAssumption DEF SavedIsKept
    <3>2. \A c \in saved : Maker(c) \in Trainings
      BY DEF TypeInv, TypeOK, Checkpoints, Maker
    <3> QED
      BY <1>6, <3>1, <3>2 DEF SavedIsKept, WriteUpdate
  <2> QED
    BY <2>3, <2>5, <2>6, <2>7
<1>7. CASE Expire(t)
  <2>1. \A u \in Trainings : training'[u] = training[u] \/ training'[u] = NoRecord
    BY <1>7 DEF Expire, TypeInv, TypeOK
  <2>2. SavedIsKept'
    BY <1>7 DEF Expire, SavedIsKept
  <2>3. RecordsAreTheirs' /\ DeletedIsGone'
    BY <1>7, <2>1 DEF Expire, RecordsAreTheirs, DeletedIsGone, ListedIn
  <2>4. ASSUME NEW a \in Actors, work'[a] # NoRecord PROVE Alone(a)' /\ Fresh(a)'
    <3>1. work[a] # NoRecord /\ Alone(a) /\ Fresh(a) /\ Alone(a)'
      BY <1>7, <2>4 DEF Expire, JobsFresh, Alone
    <3>2. work[a] \in Job /\ JobOK(a, work[a], made, condemned)
      BY <3>1 DEF TypeInv, JobsOK
    <3>3. work[a].at \in {"write_training", "erase_manifest"} => Concerned(a) \in Trainings
      BY <3>2, PurposeOfPlace
         DEF JobOK, Concerned, Maker, Handling, Deleting, Updates, TypeInv, TypeOK, Checkpoints
    <3>4. Concerned(a)' = Concerned(a)
      BY <1>7 DEF Expire, Concerned
    <3> QED
      BY <1>7, <2>1, <3>1, <3>3, <3>4 DEF Expire, Fresh, ListedIn
  <2>5. JobsFresh'
    BY <2>4 DEF JobsFresh
  <2> QED
    BY <2>2, <2>3, <2>5
<1> QED
  BY <1>2, <1>3, <1>4, <1>5, <1>6, <1>7 DEF TrainingStep


\* A job that has dealt with the record of the training.
LEMMA SerialAfterTraining ==
  ASSUME TypeInv, Serial, NEW a \in Actors, work[a] # NoRecord, work[a].for \in Handling,
         work[a].at \in {"read_training", "write_training"}, AfterTraining(a),
         UNCHANGED <<algorithm, assets, made, condemned, deleted>>,
         RecordsAreTheirs', NEW t \in Trainings, t = Maker(work[a].checkpoint),
         training'[t] # NoRecord,
         work[a].for = "save" => work[a].checkpoint \in training'[t].checkpoints,
         work[a].for # "save" => work[a].checkpoint \notin training'[t].checkpoints
  PROVE  /\ JobsFresh'
         /\ work[a].for = "save" => /\ work[a].checkpoint \in ListedIn(algorithm)
                                    /\ saved' = saved \union {work[a].checkpoint}
         /\ work[a].for # "save" => saved' = saved
<1>1. Alone(a) /\ Fresh(a) /\ work[a] \in Job
  BY DEF Serial, JobsFresh, TypeInv, JobsOK
<1>2. CASE work[a].for = "save"
  <2>1. work[a].checkpoint \in ListedIn(algorithm)
    BY <1>1, <1>2 DEF Fresh
  <2>2. JobsFresh'
    BY <1>1, <1>2, OneJob DEF AfterTraining, End
  <2> QED
    BY <1>2, <2>1, <2>2 DEF AfterTraining
<1>3. CASE work[a].for # "save"
  <2>1. /\ work'[a].for = work[a].for /\ work'[a].at = "erase_manifest"
        /\ work'[a].checkpoint = work[a].checkpoint
    BY <1>1, <1>3 DEF AfterTraining, Move, Job, TypeInv, JobsOK
  <2>2. work[a].for \in Deleting
    BY <1>3 DEF Handling, Deleting
  <2>3. work[a].checkpoint \notin assets /\ work[a].checkpoint \notin ListedIn(algorithm)
    BY <1>1, <2>2 DEF Fresh
  <2>4. Concerned(a)' = t
    BY <2>1, <2>2 DEF Concerned, Deleting, Updates
  <2>5. Fresh(a)'
    BY <1>3, <2>1, <2>2, <2>3, <2>4 DEF Fresh, ListedIn
  <2> QED
    BY <1>1, <1>3, <2>5, OneJob DEF AfterTraining, Move
<1> QED
  BY <1>2, <1>3

\* A step that writes one of the lists, or deletes, preserves Serial.
LEMMA SerialCheckpoint ==
  ASSUME TypeInv, Serial, NEW a \in Trainings \union {EventLoop}, CheckpointStep(a),
         "overlap" \notin happened'
  PROVE  Serial'
<1> USE DEF Serial, stores, history
<1>0. a \in Actors /\ work \in [Actors -> Job \union {NoRecord}]
  BY DEF Actors, TypeInv, JobsOK
<1>1. ASSUME work[a] # NoRecord
      PROVE  /\ work[a] \in Job /\ InPlace(work[a]) /\ JobOK(a, work[a], made, condemned)
             /\ Alone(a) /\ Fresh(a)
  BY <1>0, <1>1 DEF TypeInv, JobsOK, JobOK, JobsFresh
<1>2. ASSUME NEW c \in Checkpoints, BeginDelete(a, c) PROVE Serial'
  <2> DEFINE w == NewJob("delete", "delete_assets", c)
  <2>1. w \in Job
    BY NewJobType DEF Purposes, Places
  <2>2. Alone(a) /\ work'[a] = w /\ happened' = happened
    BY <1>0, <1>2, <2>1, BeginAlone DEF BeginDelete
  <2>3. work'[a].for = "delete" /\ work'[a].at = "delete_assets"
    BY <2>2 DEF NewJob
  <2>4. Fresh(a)'
    BY <2>3 DEF Fresh
  <2>5. JobsFresh'
    BY <1>0, <1>2, <2>2, <2>4, OneJob DEF BeginDelete, Begin
  <2> QED
    BY <1>2, <2>2, <2>5 DEF BeginDelete, RecordsAreTheirs, DeletedIsGone, SavedIsKept
<1>3. CASE DeleteAssets(a)
  <2>1. work[a] # NoRecord /\ work[a].for \in Deleting
    BY <1>1, <1>3, PurposeOfPlace DEF DeleteAssets, At
  <2>2. /\ work'[a].for = work[a].for /\ work'[a].at = "read_algorithm"
        /\ work'[a].checkpoint = work[a].checkpoint
    BY <1>0, <1>1, <1>3, <2>1 DEF DeleteAssets, Move, Job
  <2>3. work[a].checkpoint \notin assets' /\ assets' \subseteq assets
    BY <1>3 DEF DeleteAssets, AssetsOf
  <2>4. Fresh(a)'
    BY <2>1, <2>2, <2>3 DEF Fresh, Deleting
  <2>5. JobsFresh'
    BY <1>0, <1>1, <1>3, <2>1, <2>4, OneJob DEF DeleteAssets, Move
  <2> QED
    BY <1>3, <2>3, <2>5 DEF DeleteAssets, RecordsAreTheirs, DeletedIsGone, SavedIsKept
<1>4. CASE ReadAlgorithm(a)
  <2>1. work[a] # NoRecord /\ work[a].for \in Handling /\ work[a].at = "read_algorithm"
    BY <1>1, <1>4, PurposeOfPlace DEF ReadAlgorithm, At
  <2>2. /\ work[a].for = "save" => work[a].checkpoint \notin deleted
        /\ work[a].for \in Deleting => work[a].checkpoint \notin assets
    BY <1>1, <2>1 DEF Fresh
  <2>3. ASSUME Listed(algorithm.checkpoints, a) = algorithm.checkpoints, Move(a, "read_training")
        PROVE  JobsFresh'
    <3>1. /\ work'[a].for = work[a].for /\ work'[a].at = "read_training"
          /\ work'[a].checkpoint = work[a].checkpoint
      BY <1>0, <1>1, <2>1, <2>3 DEF Move, Job
    <3>2. /\ work[a].for = "save" => work[a].checkpoint \in ListedIn(algorithm)
          /\ work[a].for # "save" => work[a].checkpoint \notin ListedIn(algorithm)
      BY <1>4, <2>3 DEF ReadAlgorithm, Listed, ListedIn
    <3>3. Fresh(a)'
      BY <1>4, <2>1, <2>2, <3>1, <3>2 DEF ReadAlgorithm, Fresh, Deleting
    <3> QED
      BY <1>0, <1>1, <2>1, <2>3, <3>3, OneJob DEF Move
  <2>4. ASSUME work' = [work EXCEPT ![a].at = "write_algorithm", ![a].copy = algorithm]
        PROVE  JobsFresh'
    <3>1. /\ work'[a].for = work[a].for /\ work'[a].at = "write_algorithm"
          /\ work'[a].checkpoint = work[a].checkpoint /\ work'[a].copy = algorithm
      BY <1>0, <1>1, <2>1, <2>4 DEF Job
    <3>2. Fresh(a)'
      BY <1>4, <2>1, <2>2, <3>1 DEF ReadAlgorithm, Fresh, Deleting
    <3> QED
      BY <1>0, <1>1, <2>1, <2>4, <3>2, OneJob
  <2>5. JobsFresh'
    BY <1>4, <2>3, <2>4 DEF ReadAlgorithm
  <2> QED
    BY <1>4, <2>5 DEF ReadAlgorithm, RecordsAreTheirs, DeletedIsGone, SavedIsKept
<1>5. CASE WriteAlgorithm(a)
  <2>1. /\ work[a] # NoRecord /\ work[a].for \in Handling /\ work[a].at = "write_algorithm"
        /\ work[a].copy = algorithm /\ algorithm \in AlgorithmRecord /\ algorithm # NoRecord
    BY <1>1, <1>5, PurposeOfPlace DEF WriteAlgorithm, At, Fresh, JobOK, TypeInv, TypeOK
  <2>2. /\ work[a].for = "save" => work[a].checkpoint \notin deleted
        /\ work[a].for \in Deleting =>
             work[a].checkpoint \notin assets /\ work[a].checkpoint \in condemned
    BY <1>1, <2>1 DEF Fresh, JobOK
  <2>3. /\ work'[a].for = work[a].for /\ work'[a].at = "read_training"
        /\ work'[a].checkpoint = work[a].checkpoint
    BY <1>0, <1>1, <1>5, <2>1 DEF WriteAlgorithm, Move, Job
  <2>4. /\ algorithm' \in AlgorithmRecord
        /\ algorithm'.checkpoints = Listed(algorithm.checkpoints, a)
    <3>1. Listed(algorithm.checkpoints, a) \subseteq Checkpoints
      BY <1>1, <2>1 DEF Listed, AlgorithmRecord, JobOK, Handling, TypeInv, TypeOK
    <3>2. algorithm' = MarkStale([algorithm EXCEPT !.checkpoints = Listed(@, a)])
      BY <1>5, <2>1 DEF WriteAlgorithm
    <3> QED
      BY <2>1, <3>1, <3>2 DEF MarkStale, AlgorithmRecord
  <2>5. ListedIn(algorithm') = Listed(ListedIn(algorithm), a)
    BY <2>1, <2>4, NoRecordAssumption DEF ListedIn
  <2>6. Fresh(a)'
    BY <1>5, <2>1, <2>2, <2>3, <2>5 DEF WriteAlgorithm, Fresh, Listed, Handling, Deleting
  <2>7. JobsFresh'
    BY <1>0, <1>1, <1>5, <2>1, <2>6, OneJob DEF WriteAlgorithm, Move
  <2>8. DeletedIsGone'
    BY <1>5, <2>2, <2>5 DEF WriteAlgorithm, DeletedIsGone, Listed
  <2>9. SavedIsKept'
    BY <1>5, <2>1, <2>2, <2>4, NoRecordAssumption
       DEF WriteAlgorithm, SavedIsKept, Listed, Handling, Deleting
  <2> QED
    BY <1>5, <2>7, <2>8, <2>9 DEF WriteAlgorithm, RecordsAreTheirs
<1>6. CASE ReadTraining(a)
  <2> DEFINE t == Concerned(a)
  <2>1. /\ work[a] # NoRecord /\ work[a].for \in Handling \union Updates
        /\ work[a].at = "read_training" /\ training[t] # NoRecord
    BY <1>1, <1>6, PurposeOfPlace DEF ReadTraining, At
  <2>2. t \in Trainings
    BY <1>1, <2>1 DEF Concerned, JobOK, Handling, Updates, Maker, Checkpoints, TypeInv, TypeOK
  <2>3. CASE /\ work[a].for \notin Updates /\ AfterTraining(a)
             /\ Listed(training[t].checkpoints, a) = training[t].checkpoints
    <3>1. /\ t = Maker(work[a].checkpoint) /\ work[a].for \in Handling
          /\ work[a].for = "save" => work[a].checkpoint \in training[t].checkpoints
          /\ work[a].for # "save" => work[a].checkpoint \notin training[t].checkpoints
      BY <2>1, <2>3 DEF Concerned, Listed
    <3>2. RecordsAreTheirs'
      BY <1>6 DEF ReadTraining, RecordsAreTheirs
    <3> HIDE DEF t
    <3>3. /\ JobsFresh'
          /\ work[a].for = "save" => /\ work[a].checkpoint \in ListedIn(algorithm)
                                     /\ saved' = saved \union {work[a].checkpoint}
          /\ work[a].for # "save" => saved' = saved
      BY <1>0, <1>6, <2>1, <2>2, <2>3, <3>1, <3>2, SerialAfterTraining DEF ReadTraining
    <3>4. SavedIsKept'
      BY <1>6, <3>1, <3>3 DEF ReadTraining, SavedIsKept, ListedIn
    <3> QED
      BY <1>6, <3>2, <3>3, <3>4 DEF ReadTraining, DeletedIsGone
  <2>4. CASE /\ work' = [work EXCEPT ![a].at = "write_training", ![a].record = training[t]]
             /\ UNCHANGED saved
    <3>1. /\ work'[a].for = work[a].for /\ work'[a].at = "write_training"
          /\ work'[a].checkpoint = work[a].checkpoint /\ work'[a].record = training[t]
      BY <1>0, <1>1, <2>1, <2>4 DEF Job
    <3>2. Concerned(a)' = t
      BY <3>1 DEF Concerned
    <3>3. /\ work[a].for = "save" => /\ work[a].checkpoint \notin deleted
                                     /\ work[a].checkpoint \in ListedIn(algorithm)
          /\ work[a].for \in Deleting => /\ work[a].checkpoint \notin assets
                                         /\ work[a].checkpoint \notin ListedIn(algorithm)
      BY <1>1, <2>1 DEF Fresh
    <3>4. /\ training[t].checkpoints \subseteq Own(t) \ deleted
          /\ training[t].status = told[t]
      BY <2>1, <2>2 DEF RecordsAreTheirs, DeletedIsGone, ListedIn
    <3> HIDE DEF t
    <3>5. Fresh(a)'
      BY <1>6, <3>1, <3>2, <3>3, <3>4 DEF ReadTraining, Fresh
    <3>6. JobsFresh'
      BY <1>0, <1>1, <2>1, <2>4, <3>5, OneJob
    <3> QED
      BY <1>6, <2>4, <3>6 DEF ReadTraining, RecordsAreTheirs, DeletedIsGone, SavedIsKept
  <2> QED
    BY <1>6, <2>3, <2>4 DEF ReadTraining
<1>7. CASE WriteTraining(a)
  <2> DEFINE t == Concerned(a)
             c == work[a].checkpoint
             r == work[a].record
  <2>1. /\ work[a] # NoRecord /\ work[a].for \in Handling /\ work[a].at = "write_training"
        /\ r \in TrainingRecord /\ c \in Checkpoints /\ t = Maker(c) /\ t \in Trainings
    <3>1. work[a] # NoRecord /\ work[a].for \in Handling /\ work[a].at = "write_training"
      BY <1>1, <1>7, PurposeOfPlace DEF WriteTraining, At
    <3> QED
      BY <1>1, <1>7, <3>1
         DEF WriteTraining, JobOK, Job, Concerned, Handling, Maker, Checkpoints, TypeInv, TypeOK
  <2>2. /\ r.checkpoints \subseteq Own(t) \ deleted /\ r.status = told[t]
        /\ training[t] # NoRecord => r = training[t]
        /\ work[a].for = "save" => c \notin deleted
    BY <1>1, <1>7, <2>1 DEF Fresh, WriteTraining, Updates
  <2>3. /\ training'[t] \in TrainingRecord /\ training'[t] # NoRecord
        /\ training'[t].checkpoints = Listed(r.checkpoints, a)
        /\ training'[t].status = told[t]
        /\ \A u \in Trainings \ {t} : training'[u] = training[u]
    BY <1>7, <2>1, <2>2, NoRecordAssumption
       DEF WriteTraining, WithList, Listed, TrainingRecord, TypeInv, TypeOK
  <2>4. Listed(r.checkpoints, a) \subseteq Own(t) \ deleted
    BY <2>1, <2>2 DEF Listed, Own
  <2>5. RecordsAreTheirs'
    BY <1>7, <2>3, <2>4 DEF WriteTraining, RecordsAreTheirs
  <2>6. DeletedIsGone'
    BY <1>7, <2>3, <2>4 DEF WriteTraining, DeletedIsGone, ListedIn
  <2>7. /\ JobsFresh'
        /\ work[a].for = "save" => /\ c \in ListedIn(algorithm)
                                   /\ saved' = saved \union {c}
        /\ work[a].for # "save" => saved' = saved
    <3>1. /\ work[a].for = "save" => c \in training'[t].checkpoints
          /\ work[a].for # "save" => c \notin training'[t].checkpoints
      BY <2>3 DEF Listed
    <3> HIDE DEF t
    <3> QED
      BY <1>0, <1>7, <2>1, <2>3, <2>5, <3>1, SerialAfterTraining DEF WriteTraining
  <2>8. SavedIsKept'
    <3> SUFFICES ASSUME "expiry" \notin happened PROVE SavedIsKept'
      BY <1>7 DEF SavedIsKept, WriteTraining
    <3>1. r = training[t]
      BY <2>1, <2>2 DEF SavedIsKept
    <3>2. work[a].for # "save" => c \in condemned
      BY <1>1, <2>1 DEF JobOK, Handling, Deleting
    <3>3. ASSUME NEW d \in saved' \ condemned
          PROVE  /\ algorithm # NoRecord => d \in algorithm.checkpoints
                 /\ d \in training'[Maker(d)].checkpoints
      <4>1. CASE d \in saved
        <5>1. Maker(d) \in Trainings
          BY <4>1 DEF TypeInv, TypeOK, Checkpoints, Maker
        <5>2. /\ d \in training[Maker(d)].checkpoints
              /\ algorithm # NoRecord => d \in algorithm.checkpoints
          BY <3>3, <4>1 DEF SavedIsKept
        <5>3. Maker(d) = t => d \in Listed(r.checkpoints, a)
          BY <3>1, <3>2, <3>3, <5>2 DEF Listed
        <5> QED
          BY <2>3, <5>1, <5>2, <5>3
      <4>2. CASE d = c /\ work[a].for = "save"
        BY <2>1, <2>3, <2>7, <4>2 DEF Listed, ListedIn
      <4> QED
        BY <2>7, <4>1, <4>2
    <3>4. \A u \in Trainings : training'[u] # NoRecord
      BY <2>3 DEF SavedIsKept
    <3> HIDE DEF t, c, r
    <3> QED
      BY <1>7, <3>3, <3>4 DEF SavedIsKept, WriteTraining
  <2> QED
    BY <2>5, <2>6, <2>7, <2>8
<1>8. CASE EraseManifest(a)
  <2> DEFINE c == work[a].checkpoint
  <2>1. /\ work[a] # NoRecord /\ work[a].for \in Deleting /\ work[a].at = "erase_manifest"
        /\ c \in Checkpoints /\ Maker(c) \in Trainings
    <3>1. work[a] # NoRecord /\ work[a].for \in Deleting /\ work[a].at = "erase_manifest"
      BY <1>1, <1>8, PurposeOfPlace DEF EraseManifest, At
    <3> QED
      BY <1>1, <3>1 DEF JobOK, Handling, Deleting, Maker, Checkpoints, TypeInv, TypeOK
  <2>2. /\ c \notin assets /\ c \notin ListedIn(algorithm)
        /\ c \notin ListedIn(training[Maker(c)])
    BY <1>1, <2>1 DEF Fresh, Concerned, Deleting, Updates
  <2>3. DeletedIsGone'
    <3>1. \A t \in Trainings : c \notin ListedIn(training[t])
      BY <2>1, <2>2 DEF RecordsAreTheirs, ListedIn, Own
    <3> QED
      BY <1>8, <2>2, <3>1 DEF EraseManifest, DeletedIsGone
  <2>4. SavedIsKept'
    BY <1>8 DEF EraseManifest, SavedIsKept
  <2>5. CASE End(a)
    <3>1. JobsFresh'
      BY <1>0, <1>1, <2>1, <2>5, OneJob DEF End
    <3> QED
      BY <1>8, <2>3, <2>4, <3>1 DEF EraseManifest, RecordsAreTheirs
  <2>6. CASE work[a].for = "remove" /\ Move(a, "next")
    <3>1. work'[a].for = "remove" /\ work'[a].at = "next"
      BY <1>0, <1>1, <2>1, <2>6 DEF Move, Job
    <3>2. Fresh(a)'
      BY <3>1 DEF Fresh
    <3>3. JobsFresh'
      BY <1>0, <1>1, <2>1, <2>6, <3>2, OneJob DEF Move
    <3> QED
      BY <1>8, <2>3, <2>4, <3>3 DEF EraseManifest, RecordsAreTheirs
  <2> QED
    BY <1>8, <2>5, <2>6 DEF EraseManifest
<1>9. CASE Raises(a)
  <2>1. work[a] # NoRecord
    BY <1>9 DEF Raises, Missing, At
  <2>2. JobsFresh'
    BY <1>0, <1>9, <2>1, SerialUnwind DEF Raises
  <2> QED
    BY <1>9, <2>2 DEF Raises, RecordsAreTheirs, DeletedIsGone, SavedIsKept
<1> QED
  BY <1>2, <1>3, <1>4, <1>5, <1>6, <1>7, <1>8, <1>9 DEF CheckpointStep


\* A job that starts with a copy of the algorithm's record.
LEMMA SerialCopy ==
  ASSUME TypeInv, Serial, NEW a \in Actors, NEW purpose \in Rewriting,
         NEW place \in {"count", "put"}, algorithm # NoRecord,
         Begin(a, [NewJob(purpose, place, NoRecord) EXCEPT !.copy = algorithm]),
         UNCHANGED <<stores, saved, made, told, condemned, deleted>>, "overlap" \notin happened'
  PROVE  Serial'
<1> DEFINE w == [NewJob(purpose, place, NoRecord) EXCEPT !.copy = algorithm]
<1>1. w = [for |-> purpose, at |-> place, checkpoint |-> NoRecord, copy |-> algorithm,
           record |-> NoRecord, todo |-> {}]
  BY DEF NewJob
<1>2. w \in Job
  BY <1>1 DEF TypeInv, TypeOK, Job, Purposes, Places, Rewriting
<1>3. Alone(a) /\ work'[a] = w /\ happened' = happened
  BY <1>2, BeginAlone
<1>4. Fresh(a)'
  BY <1>1, <1>3 DEF Fresh, Deleting, Rewriting, stores
<1>5. JobsFresh'
  BY <1>3, <1>4, OneJob DEF Begin
<1> QED
  BY <1>3, <1>5 DEF Serial, stores, RecordsAreTheirs, DeletedIsGone, SavedIsKept

\* A step that writes the algorithm's record for another reason preserves Serial.
LEMMA SerialRewrite ==
  ASSUME TypeInv, Serial, NEW a \in Threads \union {EventLoop}, RewriteStep(a),
         "overlap" \notin happened'
  PROVE  Serial'
<1> USE DEF Serial
<1>0. a \in Actors /\ work \in [Actors -> Job \union {NoRecord}]
  BY DEF Actors, TypeInv, JobsOK
<1>1. CASE BeginRefresh(a)
  BY <1>0, <1>1, SerialCopy DEF BeginRefresh, Rewriting
<1>2. ASSUME NEW place \in {"count", "put"}, BeginRewrite(a, place) PROVE Serial'
  BY <1>0, <1>2, SerialCopy DEF BeginRewrite, Rewriting
<1>3. ASSUME At(a, "count") \/ At(a, "put")
      PROVE  /\ work[a] # NoRecord /\ work[a] \in Job /\ work[a].for \in Rewriting
             /\ work[a].copy \in AlgorithmRecord /\ algorithm # NoRecord
             /\ work[a].copy.checkpoints = algorithm.checkpoints /\ Alone(a)
  <2>1. /\ work[a] # NoRecord /\ work[a] \in Job /\ work[a].at \in {"count", "put"}
        /\ JobOK(a, work[a], made, condemned) /\ Alone(a) /\ Fresh(a)
    BY <1>0, <1>3 DEF At, TypeInv, JobsOK, JobsFresh
  <2> QED
    BY <2>1, PurposeOfPlace DEF JobOK, Job, Fresh
<1>4. CASE Count(a)
  <2> DEFINE w == [work[a] EXCEPT !.at = "put", !.copy = Counted(@)]
  <2>1. work' = [work EXCEPT ![a] = w] /\ UNCHANGED stores
    BY <1>4 DEF Count
  <2>2. Counted(work[a].copy).checkpoints = work[a].copy.checkpoints
    BY <1>3, <1>4 DEF Count, Counted, AlgorithmRecord
  <2>3. /\ work'[a].for = work[a].for /\ work'[a].at = "put"
        /\ work'[a].copy = Counted(work[a].copy)
    BY <1>0, <1>3, <1>4, <2>1 DEF Count, Job
  <2>4. Fresh(a)'
    BY <1>3, <1>4, <2>1, <2>2, <2>3 DEF Count, Fresh, Deleting, Rewriting, stores
  <2>5. JobsFresh'
    BY <1>0, <1>3, <1>4, <2>1, <2>4, OneJob DEF Count
  <2> QED
    BY <1>4, <2>5 DEF Count, stores, history, RecordsAreTheirs, DeletedIsGone, SavedIsKept
<1>5. CASE Put(a)
  <2>1. ListedIn(algorithm') = ListedIn(algorithm) /\ algorithm' # NoRecord
        /\ algorithm'.checkpoints = algorithm.checkpoints
    BY <1>3, <1>5, NoRecordAssumption DEF Put, ListedIn
  <2>2. ASSUME work[a].for = "remove_version", Move(a, "erase") PROVE JobsFresh'
    <3>1. work'[a].for = "remove_version" /\ work'[a].at = "erase"
      BY <1>0, <1>3, <1>5, <2>2 DEF Put, Move, Job
    <3>2. Fresh(a)'
      BY <3>1 DEF Fresh, Deleting
    <3> QED
      BY <1>0, <1>3, <1>5, <2>2, <3>2, OneJob DEF Put, Move
  <2>3. ASSUME End(a) PROVE JobsFresh'
    BY <1>0, <1>3, <1>5, <2>3, OneJob DEF Put, End
  <2>4. JobsFresh'
    BY <1>5, <2>2, <2>3 DEF Put
  <2> QED
    BY <1>3, <1>5, <2>1, <2>4
       DEF Put, history, RecordsAreTheirs, DeletedIsGone, SavedIsKept
<1> QED
  BY <1>1, <1>2, <1>4, <1>5 DEF RewriteStep

\* A step of a removal preserves Serial.
LEMMA SerialRemoval ==
  ASSUME TypeInv, Serial, RemovalStep, "overlap" \notin happened'
  PROVE  Serial'
<1> USE DEF Serial, stores, history
<1>0. EventLoop \in Actors /\ work \in [Actors -> Job \union {NoRecord}]
  BY DEF Actors, TypeInv, JobsOK
<1>1. ASSUME work[EventLoop] # NoRecord
      PROVE  /\ work[EventLoop] \in Job /\ InPlace(work[EventLoop])
             /\ Alone(EventLoop)
  BY <1>0, <1>1 DEF TypeInv, JobsOK, JobOK, JobsFresh
<1>2. CASE BeginRemove
  <2> DEFINE w == [NewJob("remove", "next", NoRecord) EXCEPT !.todo = ToDelete(algorithm)]
  <2>1. w = [for |-> "remove", at |-> "next", checkpoint |-> NoRecord, copy |-> NoRecord,
             record |-> NoRecord, todo |-> algorithm.checkpoints]
    BY DEF NewJob, ToDelete
  <2>2. w \in Job
    BY <1>2, <2>1 DEF BeginRemove, TypeInv, TypeOK, AlgorithmRecord, Job, Purposes, Places
  <2>3. Alone(EventLoop) /\ work'[EventLoop] = w /\ happened' = happened
    BY <1>0, <1>2, <2>2, BeginAlone DEF BeginRemove
  <2>4. Fresh(EventLoop)'
    BY <2>1, <2>3 DEF Fresh
  <2>5. JobsFresh'
    BY <1>0, <1>2, <2>3, <2>4, OneJob DEF BeginRemove, Begin
  <2> QED
    BY <1>2, <2>3, <2>5 DEF BeginRemove, RecordsAreTheirs, DeletedIsGone, SavedIsKept
<1>3. ASSUME NEW c \in Checkpoints, DeleteNext(c) PROVE Serial'
  <2> DEFINE w == [work[EventLoop] EXCEPT !.at = "delete_assets", !.checkpoint = c,
                                          !.todo = @ \ {c}]
  <2>0. work' = [work EXCEPT ![EventLoop] = w]
    BY <1>3 DEF DeleteNext
  <2>1. work[EventLoop] # NoRecord /\ work[EventLoop].for = "remove"
    BY <1>1, <1>3 DEF DeleteNext, At, InPlace
  <2>2. work'[EventLoop].for = "remove" /\ work'[EventLoop].at = "delete_assets"
    BY <1>0, <1>1, <1>3, <2>1 DEF DeleteNext, Job
  <2>3. Fresh(EventLoop)'
    BY <2>2 DEF Fresh
  <2>4. JobsFresh'
    BY <1>0, <1>1, <2>0, <2>1, <2>3, OneJob
  <2> QED
    BY <1>3, <2>4 DEF DeleteNext, RecordsAreTheirs, DeletedIsGone, SavedIsKept
<1>4. CASE EraseAlgorithm \/ EraseAfterVersion
  <2>1. work[EventLoop] # NoRecord /\ End(EventLoop) /\ algorithm' = NoRecord
    BY <1>4 DEF EraseAlgorithm, EraseAfterVersion, At
  <2>2. JobsFresh'
    BY <1>0, <1>1, <2>1, OneJob DEF End
  <2> QED
    BY <1>4, <2>1, <2>2
       DEF EraseAlgorithm, EraseAfterVersion, ListedIn, RecordsAreTheirs, DeletedIsGone, SavedIsKept
<1>5. CASE BeginRemoveVersion
  BY <1>0, <1>5, SerialCopy DEF BeginRemoveVersion, Rewriting
<1> QED
  BY <1>2, <1>3, <1>4, <1>5 DEF RemovalStep

\* SerialInv is inductive relative to TypeInv.
LEMMA SerialInductive == TypeInv /\ SerialInv /\ [Next]_vars => SerialInv'
<1> SUFFICES ASSUME TypeInv, SerialInv, [Next]_vars, "overlap" \notin happened' PROVE Serial'
  BY DEF SerialInv
<1>0. Serial
  BY HappenedGrows DEF SerialInv
<1>1. CASE UNCHANGED vars
  BY <1>0, <1>1 DEF vars, stores, history, Serial, JobsFresh, Alone, Fresh, Concerned,
                    RecordsAreTheirs, DeletedIsGone, SavedIsKept
<1>2. ASSUME NEW a \in Actors, Fails(a) PROVE Serial'
  <2>1. JobsFresh'
    BY <1>0, <1>2, SerialUnwind DEF Fails, Serial
  <2> QED
    BY <1>0, <1>2, <2>1 DEF Fails, stores, Serial, RecordsAreTheirs, DeletedIsGone, SavedIsKept
<1> QED
  BY <1>0, <1>1, <1>2, SerialTraining, SerialCheckpoint, SerialRewrite, SerialRemoval DEF Next

\* Serial holds as long as no jobs have overlapped.
LEMMA SerialInvariance == Spec => []SerialInv
<1>1. Init => SerialInv
  <2> SUFFICES ASSUME Init PROVE Serial
    BY DEF SerialInv
  <2>1. \A t \in Trainings : training[t].checkpoints = {} /\ training[t].status = told[t]
    BY DEF Init
  <2>2. \A t \in Trainings : training[t] # NoRecord
    <3>1. [checkpoints |-> {}, status |-> "RUNNING"] \in TrainingRecord
      BY DEF TrainingRecord, Statuses
    <3> QED
      BY <3>1, NoRecordAssumption DEF Init
  <2>3. JobsFresh /\ RecordsAreTheirs
    BY <2>1 DEF Init, JobsFresh, RecordsAreTheirs
  <2>4. DeletedIsGone /\ SavedIsKept
    BY <2>2 DEF Init, DeletedIsGone, SavedIsKept
  <2> QED
    BY <2>3, <2>4 DEF Serial
<1> QED
  BY <1>1, TypeInvariance, SerialInductive, PTL DEF Spec

\* Jobs that do not overlap never take a training back to an earlier status, although
\* each deletion of a checkpoint writes the whole record of the training.
THEOREM StatusIsKept == Spec => []StatusIsTheHandlers
<1>1. SerialInv => StatusIsTheHandlers
  BY DEF SerialInv, Serial, RecordsAreTheirs, StatusIsTheHandlers
<1> QED
  BY <1>1, SerialInvariance, PTL

\* A deletion that nothing overlaps leaves nothing, whatever failed before it.
THEOREM DeletionLeavesNothing == Spec => []DeletionIsClean
<1>1. SerialInv => DeletionIsClean
  <2> SUFFICES ASSUME SerialInv, "overlap" \notin happened
               PROVE  deleted \intersect (Visible \union assets) = {}
    BY DEF DeletionIsClean
  <2>1. DeletedIsGone
    BY DEF SerialInv, Serial
  <2> QED
    BY <2>1 DEF DeletedIsGone, Visible
<1> QED
  BY <1>1, SerialInvariance, PTL

\* What a training saved is in both lists while no jobs overlap and no record expires.
THEOREM SavedStaysListed == Spec => []SavedIsListed
<1>1. SerialInv => SavedIsListed
  BY DEF SerialInv, Serial, SavedIsKept, SavedIsListed
<1> QED
  BY <1>1, SerialInvariance, PTL
-----------------------------------------------------------------------------
(* Metrics, and what the removal of the algorithm leaves *)

\* Job w has deleted the assets of c, which may still be listed.
Strips(w, c) ==
  /\ w # NoRecord /\ w.for \in Deleting /\ w.checkpoint = c
  /\ w.at \in {"read_algorithm", "write_algorithm"}

\* What a job that is alone knows of the stores.
Knows(w) ==
  /\ w.at = "put_manifest" => w.checkpoint \in assets
  /\ w.for = "save" /\ w.at \in {"read_algorithm", "write_algorithm"} =>
       w.checkpoint \in manifests \intersect assets
  /\ w.at = "put" => w.copy.stale \/ w.copy.counted = w.copy.checkpoints

\* What is listed is stored, so that counting again counts all of it, and metrics that are
\* not marked as stale count what is listed. w is the only job, or NoRecord.
Sound(w) ==
  /\ algorithm # NoRecord =>
       /\ \A c \in algorithm.checkpoints : c \in manifests \intersect assets \/ Strips(w, c)
       /\ algorithm.stale \/ algorithm.counted = algorithm.checkpoints
  /\ w # NoRecord => Knows(w)

SoundInv ==
  happened \intersect {"overlap", "failure"} = {} => \A a \in Actors : Alone(a) => Sound(work[a])

\* Only one actor does something.
Only(a) == Alone(a) /\ \A b \in Actors \ {a} : work'[b] = work[b]

LEMMA OnlyTraining ==
  ASSUME TypeInv, Serial, NEW t \in Trainings, TrainingStep(t), "overlap" \notin happened'
  PROVE  Only(t) \/ Expire(t)
<1>0. t \in Actors /\ work \in [Actors -> Job \union {NoRecord}]
  BY DEF Actors, TypeInv, JobsOK
<1>1. work[t] # NoRecord => Alone(t)
  BY <1>0 DEF Serial, JobsFresh
<1>2. ASSUME NEW w, Begin(t, w) PROVE Only(t)
  BY <1>0, <1>2 DEF Begin, Only, Alone
<1>3. CASE PostAssets(t) \/ PutManifest(t) \/ ReadNothing(t) \/ WriteUpdate(t)
  BY <1>0, <1>1, <1>3
     DEF PostAssets, PutManifest, ReadNothing, WriteUpdate, At, Move, End, Only
<1> QED
  BY <1>2, <1>3 DEF TrainingStep, BeginSave, BeginUpdate

LEMMA OnlyCheckpoint ==
  ASSUME TypeInv, Serial, NEW a \in Trainings \union {EventLoop}, CheckpointStep(a),
         "overlap" \notin happened'
  PROVE  Only(a)
<1>0. a \in Actors /\ work \in [Actors -> Job \union {NoRecord}]
  BY DEF Actors, TypeInv, JobsOK
<1>1. work[a] # NoRecord => Alone(a)
  BY <1>0 DEF Serial, JobsFresh
<1>2. ASSUME NEW w, Begin(a, w) PROVE Only(a)
  BY <1>0, <1>2 DEF Begin, Only, Alone
<1>3. CASE DeleteAssets(a) \/ ReadAlgorithm(a) \/ WriteAlgorithm(a)
  BY <1>0, <1>1, <1>3 DEF DeleteAssets, ReadAlgorithm, WriteAlgorithm, At, Move, Only
<1>4. CASE ReadTraining(a) \/ WriteTraining(a) \/ EraseManifest(a)
  BY <1>0, <1>1, <1>4
     DEF ReadTraining, WriteTraining, EraseManifest, AfterTraining, At, Move, End, Only
<1>5. CASE Raises(a)
  BY <1>0, <1>1, <1>5 DEF Raises, Missing, Unwind, At, Only
<1> QED
  BY <1>2, <1>3, <1>4, <1>5 DEF CheckpointStep, BeginDelete

LEMMA OnlyRewrite ==
  ASSUME TypeInv, Serial, NEW a \in Threads \union {EventLoop}, RewriteStep(a),
         "overlap" \notin happened'
  PROVE  Only(a)
<1>0. a \in Actors /\ work \in [Actors -> Job \union {NoRecord}]
  BY DEF Actors, TypeInv, JobsOK
<1>1. work[a] # NoRecord => Alone(a)
  BY <1>0 DEF Serial, JobsFresh
<1>2. ASSUME NEW w, Begin(a, w) PROVE Only(a)
  BY <1>0, <1>2 DEF Begin, Only, Alone
<1>3. CASE Count(a) \/ Put(a)
  BY <1>0, <1>1, <1>3 DEF Count, Put, At, Move, End, Only
<1> QED
  BY <1>2, <1>3 DEF RewriteStep, BeginRefresh, BeginRewrite

LEMMA OnlyRemoval ==
  ASSUME TypeInv, Serial, RemovalStep, "overlap" \notin happened'
  PROVE  Only(EventLoop)
<1>0. EventLoop \in Actors /\ work \in [Actors -> Job \union {NoRecord}]
  BY DEF Actors, TypeInv, JobsOK
<1>1. work[EventLoop] # NoRecord => Alone(EventLoop)
  BY <1>0 DEF Serial, JobsFresh
<1>2. ASSUME NEW w, Begin(EventLoop, w) PROVE Only(EventLoop)
  BY <1>0, <1>2 DEF Begin, Only, Alone
<1>3. ASSUME NEW c \in Checkpoints, DeleteNext(c) PROVE Only(EventLoop)
  BY <1>0, <1>1, <1>3 DEF DeleteNext, At, Only
<1>4. CASE EraseAlgorithm \/ EraseAfterVersion
  BY <1>0, <1>1, <1>4 DEF EraseAlgorithm, EraseAfterVersion, At, End, Only
<1> QED
  BY <1>2, <1>3, <1>4 DEF RemovalStep, BeginRemove, BeginRemoveVersion

\* Whoever is alone afterwards has the same job as the only actor that did something, or
\* there is none.
LEMMA OnlySound ==
  ASSUME NEW a \in Actors, Only(a), Sound(work[a])'
  PROVE  (\A b \in Actors : Alone(b) => Sound(work[b]))'
<1>1. ASSUME NEW b \in Actors, Alone(b)' PROVE Sound(work[b])'
  <2>1. CASE b = a
    BY <2>1
  <2>2. CASE b # a
    <3>1. work'[b] = work'[a]
      BY <1>1, <2>2 DEF Only, Alone
    <3> QED
      BY <3>1 DEF Sound, Knows, Strips
  <2> QED
    BY <2>1, <2>2
<1> QED
  BY <1>1

\* A step that leaves the record of the algorithm and what is stored.
LEMMA SoundFrame ==
  ASSUME NEW a \in Actors, Only(a), Sound(work[a]),
         UNCHANGED <<algorithm, manifests, assets>>,
         \A c : Strips(work[a], c) => Strips(work[a], c)' \/ c \notin ListedIn(algorithm),
         work'[a] # NoRecord => Knows(work[a])'
  PROVE  (\A b \in Actors : Alone(b) => Sound(work[b]))'
<1>1. Sound(work[a])'
  BY DEF Sound, ListedIn
<1> QED
  BY <1>1, OnlySound

\* A job that begins with nothing to know.
LEMMA SoundBegin ==
  ASSUME TypeInv, NEW a \in Actors, NEW w \in Job, Begin(a, w), Only(a), Sound(NoRecord),
         UNCHANGED stores, w.at = "put" => w.copy = algorithm /\ algorithm # NoRecord,
         w.at \notin {"put_manifest", "read_algorithm", "write_algorithm"}
  PROVE  (\A b \in Actors : Alone(b) => Sound(work[b]))'
<1>1. work'[a] = w /\ work[a] = NoRecord
  BY DEF Begin, TypeInv, JobsOK
<1>2. Knows(work[a])'
  BY <1>1 DEF Knows, Sound, stores
<1> QED
  BY <1>1, <1>2, SoundFrame DEF stores, Strips

\* A step of a training preserves SoundInv.
LEMMA SoundTraining ==
  ASSUME TypeInv, Serial, NEW t \in Trainings, TrainingStep(t), Only(t), Sound(work[t])
  PROVE  (\A b \in Actors : Alone(b) => Sound(work[b]))'
<1> USE DEF stores, history
<1>0. t \in Actors /\ work \in [Actors -> Job \union {NoRecord}]
  BY DEF Actors, TypeInv, JobsOK
<1>1. ASSUME work[t] # NoRecord
      PROVE  work[t] \in Job /\ InPlace(work[t]) /\ JobOK(t, work[t], made, condemned)
  BY <1>0, <1>1 DEF TypeInv, JobsOK, JobOK
<1>2. ASSUME NEW c \in Checkpoints, BeginSave(t, c)
      PROVE  (\A b \in Actors : Alone(b) => Sound(work[b]))'
  <2> DEFINE w == NewJob("save", "post_assets", c)
  <2>1. w \in Job /\ w.at = "post_assets"
    BY NewJobType DEF Purposes, Places, NewJob
  <2>2. Sound(NoRecord)
    BY <1>2 DEF BeginSave, Begin
  <2> QED
    BY <1>0, <1>2, <2>1, <2>2, SoundBegin DEF BeginSave
<1>3. CASE PostAssets(t)
  <2>1. work[t] # NoRecord /\ work[t].at = "post_assets" /\ work[t].for = "save"
    BY <1>1, <1>3, PurposeOfPlace DEF PostAssets, At
  <2>2. /\ work'[t].for = "save" /\ work'[t].at = "put_manifest"
        /\ work'[t].checkpoint = work[t].checkpoint /\ work'[t].checkpoint \in assets'
        /\ assets \subseteq assets'
    BY <1>0, <1>1, <1>3, <2>1 DEF PostAssets, Move, Job, AssetsOf
  <2>3. Sound(work[t])'
    BY <1>3, <2>1, <2>2 DEF PostAssets, Sound, Knows, Strips
  <2> QED
    BY <1>0, <2>3, OnlySound
<1>4. CASE PutManifest(t)
  <2>1. work[t] # NoRecord /\ work[t].at = "put_manifest" /\ work[t].for = "save"
    BY <1>1, <1>4, PurposeOfPlace DEF PutManifest, At
  <2>2. /\ work'[t].for = "save" /\ work'[t].at = "read_algorithm"
        /\ work'[t].checkpoint = work[t].checkpoint
        /\ work'[t].checkpoint \in manifests' \intersect assets'
        /\ manifests \subseteq manifests'
    BY <1>0, <1>1, <1>4, <2>1 DEF PutManifest, Move, Job, Sound, Knows
  <2>3. Sound(work[t])'
    BY <1>4, <2>1, <2>2 DEF PutManifest, Sound, Knows, Strips, Deleting
  <2> QED
    BY <1>0, <2>3, OnlySound
<1>5. ASSUME NEW update \in Updates, BeginUpdate(t, update)
      PROVE  (\A b \in Actors : Alone(b) => Sound(work[b]))'
  <2> DEFINE w == NewJob(update, "read_training", NoRecord)
  <2>1. w \in Job /\ w.at = "read_training"
    BY NewJobType DEF Purposes, Places, NewJob
  <2>2. Sound(NoRecord)
    BY <1>5 DEF BeginUpdate, Begin
  <2> QED
    BY <1>0, <1>5, <2>1, <2>2, SoundBegin DEF BeginUpdate
<1>6. CASE ReadNothing(t)
  <2>1. /\ work[t] # NoRecord /\ work[t].at = "read_training"
        /\ work'[t].at = "write_training" /\ UNCHANGED stores
    BY <1>0, <1>1, <1>6 DEF ReadNothing, At, Job
  <2> QED
    BY <1>0, <2>1, SoundFrame DEF Strips, Knows
<1>7. CASE WriteUpdate(t)
  <2>1. /\ work[t].at = "write_training" /\ work'[t] = NoRecord
        /\ UNCHANGED <<algorithm, manifests, assets>>
    BY <1>0, <1>7 DEF WriteUpdate, At, End
  <2> QED
    BY <1>0, <2>1, SoundFrame DEF Strips
<1>8. CASE Expire(t)
  <2>1. Sound(work[t])' /\ UNCHANGED work
    BY <1>8 DEF Expire, Sound, Knows, Strips
  <2> QED
    BY <1>0, <2>1, OnlySound DEF Only
<1> QED
  BY <1>2, <1>3, <1>4, <1>5, <1>6, <1>7, <1>8 DEF TrainingStep

\* A step that writes one of the lists, or deletes, preserves SoundInv.
LEMMA SoundCheckpoint ==
  ASSUME TypeInv, Serial, NEW a \in Trainings \union {EventLoop}, CheckpointStep(a), Only(a),
         Sound(work[a])
  PROVE  (\A b \in Actors : Alone(b) => Sound(work[b]))'
<1> USE DEF stores, history
<1>0. a \in Actors /\ work \in [Actors -> Job \union {NoRecord}]
  BY DEF Actors, TypeInv, JobsOK
<1>1. ASSUME work[a] # NoRecord
      PROVE  /\ work[a] \in Job /\ InPlace(work[a]) /\ JobOK(a, work[a], made, condemned)
             /\ Fresh(a)
  BY <1>0, <1>1 DEF TypeInv, JobsOK, JobOK, Serial, JobsFresh
<1>2. ASSUME NEW c \in Checkpoints, BeginDelete(a, c)
      PROVE  (\A b \in Actors : Alone(b) => Sound(work[b]))'
  <2> DEFINE w == NewJob("delete", "delete_assets", c)
  <2>1. w \in Job /\ w.at = "delete_assets"
    BY NewJobType DEF Purposes, Places, NewJob
  <2>2. Sound(NoRecord)
    BY <1>2 DEF BeginDelete, Begin
  <2> QED
    BY <1>0, <1>2, <2>1, <2>2, SoundBegin DEF BeginDelete
<1>3. CASE DeleteAssets(a)
  <2> DEFINE c == work[a].checkpoint
  <2>1. work[a] # NoRecord /\ work[a].for \in Deleting /\ work[a].at = "delete_assets"
    BY <1>1, <1>3, PurposeOfPlace DEF DeleteAssets, At
  <2>2. /\ work'[a].for = work[a].for /\ work'[a].at = "read_algorithm" /\ work'[a].checkpoint = c
        /\ work'[a] \in Job
    BY <1>0, <1>1, <1>3, <2>1 DEF DeleteAssets, Move, Job, Places
  <2>3. work'[a] # NoRecord
    BY <2>2, NoJobAssumption
  <2>4. assets' = assets \ {c} /\ UNCHANGED <<algorithm, manifests>>
    BY <1>3 DEF DeleteAssets, AssetsOf
  <2>5. Sound(work[a])'
    BY <2>1, <2>2, <2>3, <2>4 DEF Sound, Knows, Strips, Deleting
  <2> QED
    BY <1>0, <2>5, OnlySound
<1>4. CASE ReadAlgorithm(a)
  <2>1. /\ work[a] # NoRecord /\ work[a].for \in Handling /\ work[a].at = "read_algorithm"
        /\ algorithm # NoRecord /\ UNCHANGED <<algorithm, manifests, assets>>
    BY <1>1, <1>4, PurposeOfPlace DEF ReadAlgorithm, At
  <2>2. ASSUME Listed(algorithm.checkpoints, a) = algorithm.checkpoints, Move(a, "read_training")
        PROVE  (\A b \in Actors : Alone(b) => Sound(work[b]))'
    <3>1. work'[a].at = "read_training"
      BY <1>0, <1>1, <2>1, <2>2 DEF Move, Job
    <3>2. ASSUME NEW c, Strips(work[a], c) PROVE c \notin ListedIn(algorithm)
      BY <2>1, <2>2, <3>2 DEF Strips, Listed, ListedIn, Deleting
    <3>3. Knows(work[a])'
      BY <3>1 DEF Knows
    <3> QED
      BY <1>0, <2>1, <3>2, <3>3, SoundFrame
  <2>3. ASSUME work' = [work EXCEPT ![a].at = "write_algorithm", ![a].copy = algorithm]
        PROVE  (\A b \in Actors : Alone(b) => Sound(work[b]))'
    <3>1. /\ work'[a].for = work[a].for /\ work'[a].at = "write_algorithm"
          /\ work'[a].checkpoint = work[a].checkpoint /\ work'[a] # NoRecord
      <4>1. work'[a] \in Job
        BY <1>0, <1>1, <2>1, <2>3 DEF Job, Places, TypeInv, TypeOK
      <4>2. work'[a] # NoRecord
        BY <4>1, NoJobAssumption
      <4> QED
        BY <1>0, <1>1, <2>1, <2>3, <4>2 DEF Job
    <3>2. Knows(work[a])'
      BY <2>1, <3>1 DEF Knows, Sound
    <3>3. Sound(work[a])'
      BY <2>1, <3>1, <3>2 DEF Sound, Strips
    <3> QED
      BY <1>0, <3>3, OnlySound
  <2> QED
    BY <1>4, <2>2, <2>3 DEF ReadAlgorithm
<1>5. CASE WriteAlgorithm(a)
  <2> DEFINE c == work[a].checkpoint
  <2>1. /\ work[a] # NoRecord /\ work[a].for \in Handling /\ work[a].at = "write_algorithm"
        /\ work[a].copy = algorithm /\ algorithm \in AlgorithmRecord /\ algorithm # NoRecord
        /\ c \in Checkpoints /\ UNCHANGED <<manifests, assets>>
    BY <1>1, <1>5, PurposeOfPlace
       DEF WriteAlgorithm, At, Fresh, JobOK, TypeInv, TypeOK, Handling
  <2>2. work'[a].at = "read_training"
    BY <1>0, <1>1, <1>5, <2>1 DEF WriteAlgorithm, Move, Job
  <2>3. Listed(algorithm.checkpoints, a) \subseteq Checkpoints
    BY <2>1 DEF Listed, AlgorithmRecord
  <2>4. algorithm'.checkpoints = Listed(algorithm.checkpoints, a) /\ algorithm'.stale
    BY <1>5, <2>1, <2>3 DEF WriteAlgorithm, MarkStale, AlgorithmRecord
  <2>5. ASSUME NEW d \in Listed(algorithm.checkpoints, a) PROVE d \in manifests \intersect assets
    <3>1. CASE work[a].for = "save" /\ d = c
      BY <2>1, <3>1 DEF Sound, Knows
    <3>2. CASE d \in algorithm.checkpoints /\ (work[a].for # "save" => d # c)
      BY <2>1, <3>2 DEF Sound, Strips, Deleting
    <3> QED
      BY <2>5, <3>1, <3>2 DEF Listed
  <2>6. Knows(work[a])'
    BY <2>2 DEF Knows
  <2>7. Sound(work[a])'
    BY <2>1, <2>4, <2>5, <2>6 DEF Sound
  <2> QED
    BY <1>0, <2>7, OnlySound
<1>6. ASSUME work[a].at \in {"read_training", "write_training"}, work[a] # NoRecord,
             UNCHANGED <<algorithm, manifests, assets>>,
             work'[a] # NoRecord => work'[a].at \in {"write_training", "erase_manifest"}
      PROVE  (\A b \in Actors : Alone(b) => Sound(work[b]))'
  BY <1>0, <1>6, SoundFrame DEF Strips, Knows
<1>7. CASE ReadTraining(a) \/ WriteTraining(a)
  <2>1. /\ work[a].at \in {"read_training", "write_training"} /\ work[a] # NoRecord
        /\ UNCHANGED <<algorithm, manifests, assets>>
    BY <1>7 DEF ReadTraining, WriteTraining, At
  <2>2. work'[a] # NoRecord => work'[a].at \in {"write_training", "erase_manifest"}
    BY <1>0, <1>1, <1>7, <2>1 DEF ReadTraining, WriteTraining, AfterTraining, Move, End, Job
  <2> QED
    BY <1>6, <2>1, <2>2
<1>8. CASE EraseManifest(a)
  <2> DEFINE c == work[a].checkpoint
  <2>1. work[a] # NoRecord /\ work[a].for \in Deleting /\ work[a].at = "erase_manifest"
    BY <1>1, <1>8, PurposeOfPlace DEF EraseManifest, At
  <2>2. c \notin ListedIn(algorithm)
    BY <1>1, <2>1 DEF Fresh
  <2>3. work'[a] # NoRecord => work'[a].at = "next"
    BY <1>0, <1>1, <1>8, <2>1 DEF EraseManifest, Move, End, Job
  <2>4. Knows(work[a])' \/ work'[a] = NoRecord
    BY <2>3 DEF Knows
  <2>5. manifests' = manifests \ {c} /\ UNCHANGED <<algorithm, assets>>
    BY <1>8 DEF EraseManifest
  <2>6. Sound(work[a])'
    BY <2>1, <2>2, <2>4, <2>5 DEF Sound, ListedIn, Strips
  <2> QED
    BY <1>0, <2>6, OnlySound
<1>9. CASE Raises(a)
  <2>1. /\ work[a] # NoRecord /\ UNCHANGED stores
        /\ work[a].at \in {"read_training", "next"} \/ algorithm = NoRecord
    BY <1>9 DEF Raises, Missing, At
  <2>2. work'[a] # NoRecord => work'[a].at = "read_training"
    BY <1>0, <1>9 DEF Raises, Unwind, NewJob
  <2>3. Knows(work[a])' \/ work'[a] = NoRecord
    BY <2>2 DEF Knows
  <2> QED
    BY <1>0, <2>1, <2>3, SoundFrame DEF Strips, ListedIn
<1> QED
  BY <1>2, <1>3, <1>4, <1>5, <1>7, <1>8, <1>9 DEF CheckpointStep

\* A step that writes the algorithm's record for another reason preserves SoundInv.
LEMMA SoundRewrite ==
  ASSUME TypeInv, Serial, NEW a \in Threads \union {EventLoop}, RewriteStep(a), Only(a),
         Sound(work[a])
  PROVE  (\A b \in Actors : Alone(b) => Sound(work[b]))'
<1>0. a \in Actors /\ work \in [Actors -> Job \union {NoRecord}]
  BY DEF Actors, TypeInv, JobsOK
<1>1. ASSUME NEW purpose \in Rewriting, NEW place \in {"count", "put"}, algorithm # NoRecord,
             Begin(a, [NewJob(purpose, place, NoRecord) EXCEPT !.copy = algorithm]),
             UNCHANGED stores
      PROVE  (\A b \in Actors : Alone(b) => Sound(work[b]))'
  <2> DEFINE w == [NewJob(purpose, place, NoRecord) EXCEPT !.copy = algorithm]
  <2>1. w = [for |-> purpose, at |-> place, checkpoint |-> NoRecord, copy |-> algorithm,
             record |-> NoRecord, todo |-> {}]
    BY DEF NewJob
  <2>2. w \in Job /\ w.at = place /\ w.copy = algorithm
    BY <2>1 DEF TypeInv, TypeOK, Job, Purposes, Places, Rewriting
  <2>3. Sound(NoRecord)
    BY <1>1 DEF Begin
  <2> QED
    BY <1>0, <1>1, <2>2, <2>3, SoundBegin
<1>2. CASE BeginRefresh(a)
  BY <1>1, <1>2 DEF BeginRefresh, Rewriting
<1>3. ASSUME NEW place \in {"count", "put"}, BeginRewrite(a, place)
      PROVE  (\A b \in Actors : Alone(b) => Sound(work[b]))'
  BY <1>1, <1>3 DEF BeginRewrite, Rewriting
<1>4. ASSUME At(a, "count") \/ At(a, "put")
      PROVE  /\ work[a] # NoRecord /\ work[a] \in Job /\ work[a].for \in Rewriting
             /\ work[a].copy \in AlgorithmRecord /\ algorithm # NoRecord
             /\ algorithm \in AlgorithmRecord
             /\ work[a].copy.checkpoints = algorithm.checkpoints
             /\ \A c \in algorithm.checkpoints : c \in manifests \intersect assets
  <2>1. /\ work[a] # NoRecord /\ work[a] \in Job /\ work[a].at \in {"count", "put"}
        /\ JobOK(a, work[a], made, condemned) /\ Fresh(a)
    BY <1>0, <1>4 DEF At, TypeInv, JobsOK, Serial, JobsFresh
  <2>2. /\ work[a].for \in Rewriting /\ work[a].copy \in AlgorithmRecord /\ algorithm # NoRecord
        /\ work[a].copy.checkpoints = algorithm.checkpoints
    BY <2>1, PurposeOfPlace DEF JobOK, Job, Fresh
  <2>3. \A c : ~ Strips(work[a], c)
    BY <2>1 DEF Strips
  <2> QED
    BY <2>1, <2>2, <2>3 DEF Sound, TypeInv, TypeOK
<1>5. CASE Count(a)
  <2> DEFINE w == [work[a] EXCEPT !.at = "put", !.copy = Counted(@)]
  <2>1. At(a, "count") /\ work' = [work EXCEPT ![a] = w] /\ UNCHANGED stores
    BY <1>5 DEF Count
  <2>2. Counted(work[a].copy).counted = Counted(work[a].copy).checkpoints
    BY <1>4, <2>1 DEF Counted, AlgorithmRecord
  <2>3. work'[a].at = "put" /\ work'[a].copy = Counted(work[a].copy)
    BY <1>0, <1>4, <2>1 DEF Job
  <2>4. Knows(work[a])'
    BY <2>2, <2>3 DEF Knows
  <2>5. \A c : ~ Strips(work[a], c)
    BY <2>1 DEF Strips, At
  <2> QED
    BY <1>0, <2>1, <2>4, <2>5, SoundFrame DEF stores
<1>6. CASE Put(a)
  <2>1. At(a, "put") /\ algorithm' = work[a].copy /\ UNCHANGED <<manifests, assets>>
    BY <1>6 DEF Put
  <2>2. work[a].copy.stale \/ work[a].copy.counted = work[a].copy.checkpoints
    BY <2>1 DEF Sound, Knows, At
  <2>3. work'[a] # NoRecord => work'[a].at = "erase"
    BY <1>0, <1>4, <1>6, <2>1 DEF Put, Move, End, Job
  <2>4. Knows(work[a])' \/ work'[a] = NoRecord
    BY <2>3 DEF Knows
  <2>5. Sound(work[a])'
    BY <1>4, <2>1, <2>2, <2>4 DEF Sound
  <2> QED
    BY <1>0, <2>5, OnlySound
<1> QED
  BY <1>2, <1>3, <1>5, <1>6 DEF RewriteStep

\* A step of a removal preserves SoundInv.
LEMMA SoundRemoval ==
  ASSUME TypeInv, Serial, RemovalStep, Only(EventLoop), Sound(work[EventLoop])
  PROVE  (\A b \in Actors : Alone(b) => Sound(work[b]))'
<1> USE DEF stores, history
<1>0. EventLoop \in Actors /\ work \in [Actors -> Job \union {NoRecord}]
  BY DEF Actors, TypeInv, JobsOK
<1>1. CASE BeginRemove
  <2> DEFINE w == [NewJob("remove", "next", NoRecord) EXCEPT !.todo = ToDelete(algorithm)]
  <2>1. w = [for |-> "remove", at |-> "next", checkpoint |-> NoRecord, copy |-> NoRecord,
             record |-> NoRecord, todo |-> algorithm.checkpoints]
    BY DEF NewJob, ToDelete
  <2>2. w \in Job /\ w.at = "next"
    BY <1>1, <2>1 DEF BeginRemove, TypeInv, TypeOK, AlgorithmRecord, Job, Purposes, Places
  <2>3. Sound(NoRecord)
    BY <1>1 DEF BeginRemove, Begin
  <2> QED
    BY <1>0, <1>1, <2>2, <2>3, SoundBegin DEF BeginRemove
<1>2. ASSUME NEW c \in Checkpoints, DeleteNext(c)
      PROVE  (\A b \in Actors : Alone(b) => Sound(work[b]))'
  <2>1. /\ work[EventLoop] # NoRecord /\ work[EventLoop] \in Job /\ work[EventLoop].at = "next"
        /\ UNCHANGED stores
    BY <1>0, <1>2 DEF DeleteNext, At
  <2>2. work'[EventLoop].at = "delete_assets"
    BY <1>0, <1>2, <2>1 DEF DeleteNext, Job
  <2> QED
    BY <1>0, <2>1, <2>2, SoundFrame DEF Strips, Knows
<1>3. CASE EraseAlgorithm \/ EraseAfterVersion
  <2>1. work'[EventLoop] = NoRecord /\ algorithm' = NoRecord
    BY <1>0, <1>3 DEF EraseAlgorithm, EraseAfterVersion, End
  <2>2. Sound(work[EventLoop])'
    BY <2>1 DEF Sound
  <2> QED
    BY <1>0, <2>2, OnlySound
<1>4. CASE BeginRemoveVersion
  <2> DEFINE w == [NewJob("remove_version", "count", NoRecord) EXCEPT !.copy = algorithm]
  <2>1. w = [for |-> "remove_version", at |-> "count", checkpoint |-> NoRecord,
             copy |-> algorithm, record |-> NoRecord, todo |-> {}]
    BY DEF NewJob
  <2>2. w \in Job /\ w.at = "count"
    BY <2>1 DEF TypeInv, TypeOK, Job, Purposes, Places
  <2>3. Sound(NoRecord)
    BY <1>4 DEF BeginRemoveVersion, Begin
  <2> QED
    BY <1>0, <1>4, <2>2, <2>3, SoundBegin DEF BeginRemoveVersion
<1> QED
  BY <1>1, <1>2, <1>3, <1>4 DEF RemovalStep

\* SoundInv is inductive relative to TypeInv and SerialInv.
LEMMA SoundInductive ==
  TypeInv /\ SerialInv /\ SoundInv /\ [Next]_vars => SoundInv'
<1> SUFFICES ASSUME TypeInv, SerialInv, SoundInv, [Next]_vars,
                    happened' \intersect {"overlap", "failure"} = {}
             PROVE  (\A b \in Actors : Alone(b) => Sound(work[b]))'
  BY DEF SoundInv
<1>1. /\ happened \intersect {"overlap", "failure"} = {} /\ Serial
      /\ \A a \in Actors : Alone(a) => Sound(work[a])
  BY HappenedGrows DEF SerialInv, SoundInv
<1>2. \A a \in Actors : Only(a) => Sound(work[a])
  BY <1>1 DEF Only
<1>3. CASE UNCHANGED vars
  BY <1>1, <1>3 DEF vars, stores, Alone, Sound, Knows, Strips
<1>4. ASSUME NEW t \in Trainings, TrainingStep(t)
      PROVE  (\A b \in Actors : Alone(b) => Sound(work[b]))'
  <2>1. CASE Only(t)
    BY <1>1, <1>2, <1>4, <2>1, SoundTraining DEF Actors
  <2>2. CASE Expire(t)
    BY <1>1, <2>2 DEF Expire, Alone, Sound, Knows, Strips
  <2> QED
    BY <1>1, <1>4, <2>1, <2>2, OnlyTraining
<1>5. ASSUME NEW a \in Trainings \union {EventLoop}, CheckpointStep(a)
      PROVE  (\A b \in Actors : Alone(b) => Sound(work[b]))'
  BY <1>1, <1>2, <1>5, OnlyCheckpoint, SoundCheckpoint DEF Actors
<1>6. ASSUME NEW a \in Threads \union {EventLoop}, RewriteStep(a)
      PROVE  (\A b \in Actors : Alone(b) => Sound(work[b]))'
  BY <1>1, <1>2, <1>6, OnlyRewrite, SoundRewrite DEF Actors
<1>7. CASE RemovalStep
  BY <1>1, <1>2, <1>7, OnlyRemoval, SoundRemoval DEF Actors
<1>8. ASSUME NEW a \in Actors, Fails(a) PROVE FALSE
  BY <1>8 DEF Fails
<1> QED
  BY <1>3, <1>4, <1>5, <1>6, <1>7, <1>8 DEF Next

LEMMA SoundInvariance == Spec => []SoundInv
<1>1. Init => SoundInv
  BY DEF Init, SoundInv, Sound
<1> QED
  BY <1>1, TypeInvariance, SerialInvariance, SoundInductive, PTL DEF Spec

\* Metrics that are not marked as stale are those of the checkpoints in the record, as long as
\* no jobs overlap and none fails, also while a job is in progress.
THEOREM MetricsStayTrue == Spec => []MetricsAreTrue
<1>1. SoundInv => MetricsAreTrue
  <2> SUFFICES ASSUME SoundInv, Quiet, algorithm # NoRecord,
                      happened \intersect {"overlap", "failure"} = {}
               PROVE  algorithm.stale \/ algorithm.counted = algorithm.checkpoints
    BY DEF MetricsAreTrue
  <2>1. EventLoop \in Actors /\ Alone(EventLoop)
    BY DEF Actors, Quiet, Alone
  <2> QED
    BY <2>1 DEF SoundInv, Sound
<1> QED
  BY <1>1, SoundInvariance, PTL

\* Job w has c in hand.
Holds(w, c) == w # NoRecord /\ w.for \in Handling /\ w.at # "next" /\ w.checkpoint = c

\* What is stored is listed in the record of the algorithm, or the only job, w, has it in hand.
\* The job finds the record of the algorithm, and a removal has still to delete exactly what
\* is listed.
Claims(w) ==
  /\ \A c \in manifests \union assets : c \in ListedIn(algorithm) \/ Holds(w, c)
  /\ w # NoRecord /\ w.for \in Handling => algorithm # NoRecord
  /\ w # NoRecord /\ w.for = "remove" =>
       w.todo = algorithm.checkpoints \ (IF w.at = "next" THEN {} ELSE {w.checkpoint})

ClaimsInv == happened = {} => \A a \in Actors : Alone(a) => Claims(work[a])

LEMMA OnlyClaims ==
  ASSUME NEW a \in Actors, Only(a), Claims(work[a])'
  PROVE  (\A b \in Actors : Alone(b) => Claims(work[b]))'
<1>1. ASSUME NEW b \in Actors, Alone(b)' PROVE Claims(work[b])'
  <2>1. CASE b = a
    BY <2>1
  <2>2. CASE b # a
    <3>1. work'[b] = work'[a]
      BY <1>1, <2>2 DEF Only, Alone
    <3> QED
      BY <3>1 DEF Claims, Holds
  <2> QED
    BY <2>1, <2>2
<1> QED
  BY <1>1

\* A job that handles no checkpoint begins, ends or goes on.
LEMMA ClaimsOther ==
  ASSUME NEW a \in Actors, Only(a), Claims(work[a]),
         ListedIn(algorithm) \subseteq ListedIn(algorithm)', UNCHANGED <<manifests, assets>>,
         work[a] # NoRecord => work[a].for \notin Handling,
         work'[a] # NoRecord => work'[a].for \notin Handling
  PROVE  (\A b \in Actors : Alone(b) => Claims(work[b]))'
<1>1. Claims(work[a])'
  BY DEF Claims, Holds, Handling
<1> QED
  BY <1>1, OnlyClaims

\* A job that handles a checkpoint goes on with it.
LEMMA ClaimsMove ==
  ASSUME NEW a \in Actors, Only(a), Claims(work[a]), UNCHANGED algorithm,
         manifests' \union assets' \subseteq manifests \union assets \union {work[a].checkpoint},
         work[a] # NoRecord, work[a].for \in Handling, work[a].at # "next",
         work'[a] # NoRecord, work'[a].for = work[a].for, work'[a].at # "next",
         work'[a].checkpoint = work[a].checkpoint, work'[a].todo = work[a].todo
  PROVE  (\A b \in Actors : Alone(b) => Claims(work[b]))'
<1>1. Claims(work[a])'
  BY DEF Claims, Holds
<1> QED
  BY <1>1, OnlyClaims

\* One of the job's own fields is all that Move changes.
LEMMA MoveKeeps ==
  ASSUME NEW a \in Actors, NEW place \in Places, work[a] \in Job, Move(a, place),
         work \in [Actors -> Job \union {NoRecord}]
  PROVE  /\ work'[a] # NoRecord /\ work'[a].for = work[a].for /\ work'[a].at = place
         /\ work'[a].checkpoint = work[a].checkpoint /\ work'[a].todo = work[a].todo
<1>1. /\ work'[a] \in Job /\ work'[a].for = work[a].for /\ work'[a].at = place
      /\ work'[a].checkpoint = work[a].checkpoint /\ work'[a].todo = work[a].todo
  BY DEF Move, Job
<1> QED
  BY <1>1, NoJobAssumption

\* A step of a training preserves ClaimsInv.
LEMMA ClaimsTraining ==
  ASSUME TypeInv, Serial, NEW t \in Trainings, TrainingStep(t), Only(t), Claims(work[t]),
         happened' = {}
  PROVE  (\A b \in Actors : Alone(b) => Claims(work[b]))'
<1> USE DEF stores, history
<1>0. t \in Actors /\ work \in [Actors -> Job \union {NoRecord}]
  BY DEF Actors, TypeInv, JobsOK
<1>1. ASSUME work[t] # NoRecord
      PROVE  work[t] \in Job /\ InPlace(work[t]) /\ JobOK(t, work[t], made, condemned)
  BY <1>0, <1>1 DEF TypeInv, JobsOK, JobOK
<1>2. ASSUME NEW c \in Checkpoints, BeginSave(t, c)
      PROVE  (\A b \in Actors : Alone(b) => Claims(work[b]))'
  <2> DEFINE w == NewJob("save", "post_assets", c)
  <2>1. work'[t] = w /\ work[t] = NoRecord /\ UNCHANGED stores /\ algorithm # NoRecord
    BY <1>0, <1>2 DEF BeginSave, Begin
  <2>2. w.for = "save"
    BY DEF NewJob
  <2>3. Claims(work[t])'
    BY <2>1, <2>2 DEF Claims, Holds
  <2> QED
    BY <1>0, <2>3, OnlyClaims
<1>3. CASE PostAssets(t)
  <2>1. work[t] # NoRecord /\ work[t].at = "post_assets" /\ work[t].for = "save"
    BY <1>1, <1>3, PurposeOfPlace DEF PostAssets, At
  <2>2. /\ Move(t, "put_manifest") /\ UNCHANGED <<algorithm, manifests>>
        /\ assets' = assets \union {work[t].checkpoint}
    BY <1>3 DEF PostAssets, AssetsOf
  <2> QED
    BY <1>0, <1>1, <2>1, <2>2, MoveKeeps, ClaimsMove DEF Places, Handling
<1>4. CASE PutManifest(t)
  <2>1. work[t] # NoRecord /\ work[t].at = "put_manifest" /\ work[t].for = "save"
    BY <1>1, <1>4, PurposeOfPlace DEF PutManifest, At
  <2>2. /\ Move(t, "read_algorithm") /\ UNCHANGED <<algorithm, assets>>
        /\ manifests' = manifests \union {work[t].checkpoint}
    BY <1>4 DEF PutManifest
  <2> QED
    BY <1>0, <1>1, <2>1, <2>2, MoveKeeps, ClaimsMove DEF Places, Handling
<1>5. ASSUME NEW update \in Updates, BeginUpdate(t, update)
      PROVE  (\A b \in Actors : Alone(b) => Claims(work[b]))'
  <2>1. /\ work'[t] = NewJob(update, "read_training", NoRecord) /\ work[t] = NoRecord
        /\ UNCHANGED stores
    BY <1>0, <1>5 DEF BeginUpdate, Begin
  <2>2. work'[t].for = update
    BY <2>1 DEF NewJob
  <2> QED
    BY <1>0, <2>1, <2>2, ClaimsOther DEF Updates, Handling
<1>6. CASE ReadNothing(t)
  <2>1. /\ work[t] # NoRecord /\ work[t].for = "FAILED" /\ work'[t].for = "FAILED"
        /\ UNCHANGED stores
    BY <1>0, <1>1, <1>6 DEF ReadNothing, At, Job
  <2> QED
    BY <1>0, <2>1, ClaimsOther DEF Handling
<1>7. CASE WriteUpdate(t)
  <2>1. /\ work[t].for \in Updates /\ work'[t] = NoRecord
        /\ UNCHANGED <<algorithm, manifests, assets>>
    BY <1>0, <1>7 DEF WriteUpdate, At, End
  <2> QED
    BY <1>0, <2>1, ClaimsOther DEF Updates, Handling
<1>8. CASE Expire(t)
  BY <1>8 DEF Expire
<1> QED
  BY <1>2, <1>3, <1>4, <1>5, <1>6, <1>7, <1>8 DEF TrainingStep

\* A step that writes one of the lists, or deletes, preserves ClaimsInv. Nothing that a job
\* looks for is missing.
LEMMA ClaimsCheckpoint ==
  ASSUME TypeInv, Serial, NEW a \in Trainings \union {EventLoop}, CheckpointStep(a), Only(a),
         Sound(work[a]), Claims(work[a]), happened' = {}, happened = {}
  PROVE  (\A b \in Actors : Alone(b) => Claims(work[b]))'
<1> USE DEF stores, history
<1>0. a \in Actors /\ work \in [Actors -> Job \union {NoRecord}]
  BY DEF Actors, TypeInv, JobsOK
<1>1. ASSUME work[a] # NoRecord
      PROVE  /\ work[a] \in Job /\ InPlace(work[a]) /\ JobOK(a, work[a], made, condemned)
             /\ Fresh(a)
  BY <1>0, <1>1 DEF TypeInv, JobsOK, JobOK, Serial, JobsFresh
<1>2. ASSUME NEW c \in Checkpoints, BeginDelete(a, c)
      PROVE  (\A b \in Actors : Alone(b) => Claims(work[b]))'
  <2> DEFINE w == NewJob("delete", "delete_assets", c)
  <2>1. work'[a] = w /\ work[a] = NoRecord /\ UNCHANGED stores /\ c \in manifests
    BY <1>0, <1>2 DEF BeginDelete, Begin
  <2>2. w.for = "delete"
    BY DEF NewJob
  <2>3. algorithm # NoRecord
    BY <2>1 DEF Claims, Holds, ListedIn
  <2>4. Claims(work[a])'
    BY <2>1, <2>2, <2>3 DEF Claims, Holds
  <2> QED
    BY <1>0, <2>4, OnlyClaims
<1>3. CASE DeleteAssets(a)
  <2>1. work[a] # NoRecord /\ work[a].for \in Handling /\ work[a].at = "delete_assets"
    BY <1>1, <1>3, PurposeOfPlace DEF DeleteAssets, At, Deleting, Handling
  <2>2. Move(a, "read_algorithm") /\ UNCHANGED <<algorithm, manifests>> /\ assets' \subseteq assets
    BY <1>3 DEF DeleteAssets
  <2> QED
    BY <1>0, <1>1, <2>1, <2>2, MoveKeeps, ClaimsMove DEF Places
<1>4. CASE ReadAlgorithm(a)
  <2>1. /\ work[a] # NoRecord /\ work[a].for \in Handling /\ work[a].at = "read_algorithm"
        /\ UNCHANGED <<algorithm, manifests, assets>>
    BY <1>1, <1>4, PurposeOfPlace DEF ReadAlgorithm, At
  <2>2. CASE Move(a, "read_training")
    BY <1>0, <1>1, <2>1, <2>2, MoveKeeps, ClaimsMove DEF Places
  <2>3. CASE work' = [work EXCEPT ![a].at = "write_algorithm", ![a].copy = algorithm]
    <3>1. /\ work'[a] \in Job /\ work'[a].for = work[a].for /\ work'[a].at = "write_algorithm"
          /\ work'[a].checkpoint = work[a].checkpoint /\ work'[a].todo = work[a].todo
      BY <1>0, <1>1, <2>1, <2>3 DEF Job, Places, TypeInv, TypeOK
    <3>2. work'[a] # NoRecord
      BY <3>1, NoJobAssumption
    <3> QED
      BY <1>0, <2>1, <3>1, <3>2, ClaimsMove
  <2> QED
    BY <1>4, <2>2, <2>3 DEF ReadAlgorithm
<1>5. CASE WriteAlgorithm(a)
  <2> DEFINE c == work[a].checkpoint
  <2>1. /\ work[a] # NoRecord /\ work[a].for \in Handling /\ work[a].at = "write_algorithm"
        /\ work[a].copy = algorithm /\ algorithm \in AlgorithmRecord /\ algorithm # NoRecord
        /\ c \in Checkpoints /\ UNCHANGED <<manifests, assets>>
    BY <1>1, <1>5, PurposeOfPlace
       DEF WriteAlgorithm, At, Fresh, JobOK, TypeInv, TypeOK, Handling
  <2>2. /\ work'[a] # NoRecord /\ work'[a].for = work[a].for /\ work'[a].at = "read_training"
        /\ work'[a].checkpoint = c /\ work'[a].todo = work[a].todo
    BY <1>0, <1>1, <1>5, <2>1, MoveKeeps DEF WriteAlgorithm, Places
  <2>3. Listed(algorithm.checkpoints, a) \subseteq Checkpoints
    BY <2>1 DEF Listed, AlgorithmRecord
  <2>4. algorithm' \in AlgorithmRecord /\ algorithm'.checkpoints = Listed(algorithm.checkpoints, a)
    BY <1>5, <2>1, <2>3 DEF WriteAlgorithm, MarkStale, AlgorithmRecord
  <2>5. algorithm' # NoRecord
    BY <2>4, NoRecordAssumption
  <2>6. Claims(work[a])'
    <3>1. ASSUME NEW d \in manifests \union assets
          PROVE  d \in ListedIn(algorithm') \/ Holds(work[a], d)'
      BY <2>1, <2>2, <2>4, <2>5 DEF Claims, Holds, ListedIn, Listed
    <3>2. ASSUME work[a].for = "remove"
          PROVE  work'[a].todo = algorithm'.checkpoints \ {c}
      <4>1. work[a].todo = algorithm.checkpoints \ {c}
        BY <2>1, <3>2 DEF Claims
      <4>2. algorithm'.checkpoints = algorithm.checkpoints \ {c}
        BY <2>4, <3>2 DEF Listed
      <4> QED
        BY <2>2, <4>1, <4>2
    <3> QED
      BY <2>1, <2>2, <2>5, <3>1, <3>2 DEF Claims
  <2> QED
    BY <1>0, <2>6, OnlyClaims
<1>6. CASE ReadTraining(a) \/ WriteTraining(a)
  <2>1. /\ work[a] # NoRecord /\ work[a].at \in {"read_training", "write_training"}
        /\ work[a].for \in Handling \union Updates
        /\ UNCHANGED <<algorithm, manifests, assets>>
    BY <1>1, <1>6, PurposeOfPlace DEF ReadTraining, WriteTraining, At
  <2>2. CASE AfterTraining(a) /\ work[a].for \in Handling
    <3>1. CASE work[a].for = "save"
      <4>1. work[a].checkpoint \in ListedIn(algorithm)
        BY <1>1, <2>1, <3>1 DEF Fresh
      <4>2. work'[a] = NoRecord
        BY <1>0, <2>2, <3>1 DEF AfterTraining, End
      <4>3. Claims(work[a])'
        BY <2>1, <4>1, <4>2 DEF Claims, Holds
      <4> QED
        BY <1>0, <4>3, OnlyClaims
    <3>2. CASE work[a].for # "save"
      <4>1. Move(a, "erase_manifest")
        BY <2>2, <3>2 DEF AfterTraining
      <4> QED
        BY <1>0, <1>1, <2>1, <2>2, <4>1, MoveKeeps, ClaimsMove DEF Places
    <3> QED
      BY <3>1, <3>2
  <2>3. CASE ReadTraining(a) /\ work' = [work EXCEPT ![a].at = "write_training",
                                                     ![a].record = training[Concerned(a)]]
    <3>1. Concerned(a) \in Trainings /\ training[Concerned(a)] # NoRecord
      BY <1>1, <2>1, <2>3
         DEF ReadTraining, Concerned, JobOK, Handling, Updates, Maker, Checkpoints, TypeInv, TypeOK
    <3>2. training[Concerned(a)] \in TrainingRecord
      BY <3>1 DEF TypeInv, TypeOK
    <3>3. /\ work'[a] \in Job /\ work'[a].for = work[a].for /\ work'[a].at = "write_training"
          /\ work'[a].checkpoint = work[a].checkpoint /\ work'[a].todo = work[a].todo
      BY <1>0, <1>1, <2>1, <2>3, <3>2 DEF Job, Places
    <3>4. work'[a] # NoRecord
      BY <3>3, NoJobAssumption
    <3>5. CASE work[a].for \in Handling
      BY <1>0, <2>1, <3>3, <3>4, <3>5, ClaimsMove
    <3>6. CASE work[a].for \notin Handling
      BY <1>0, <2>1, <3>3, <3>6, ClaimsOther
    <3> QED
      BY <3>5, <3>6
  <2>4. CASE WriteTraining(a)
    BY <2>1, <2>2, <2>4 DEF WriteTraining
  <2>5. CASE ReadTraining(a)
    <3>1. \/ work[a].for \notin Updates /\ AfterTraining(a)
          \/ work' = [work EXCEPT ![a].at = "write_training",
                                  ![a].record = training[Concerned(a)]]
      BY <2>5 DEF ReadTraining
    <3> QED
      BY <2>1, <2>2, <2>3, <2>5, <3>1
  <2> QED
    BY <1>6, <2>4, <2>5
<1>7. CASE EraseManifest(a)
  <2> DEFINE c == work[a].checkpoint
  <2>1. /\ work[a] # NoRecord /\ work[a].for \in Deleting /\ work[a].at = "erase_manifest"
    BY <1>1, <1>7, PurposeOfPlace DEF EraseManifest, At
  <2>2. c \notin ListedIn(algorithm) /\ c \notin assets
    BY <1>1, <2>1 DEF Fresh
  <2>3. manifests' = manifests \ {c} /\ UNCHANGED <<algorithm, assets>>
    BY <1>7 DEF EraseManifest
  <2>4. \A d \in manifests' \union assets' : d \in ListedIn(algorithm)
    BY <2>2, <2>3 DEF Claims, Holds
  <2>5. CASE End(a)
    <3>1. work'[a] = NoRecord
      BY <1>0, <2>5 DEF End
    <3>2. Claims(work[a])'
      BY <2>3, <2>4, <3>1 DEF Claims
    <3> QED
      BY <1>0, <3>2, OnlyClaims
  <2>6. CASE work[a].for = "remove" /\ Move(a, "next")
    <3>1. /\ work'[a] # NoRecord /\ work'[a].for = "remove" /\ work'[a].at = "next"
          /\ work'[a].todo = work[a].todo
      BY <1>0, <1>1, <2>1, <2>6, MoveKeeps DEF Places
    <3>2. algorithm # NoRecord /\ work[a].todo = algorithm.checkpoints \ {c}
      BY <2>1, <2>6 DEF Claims, Handling
    <3>3. work[a].todo = algorithm.checkpoints
      BY <2>2, <3>2 DEF ListedIn
    <3>4. Claims(work[a])'
      BY <2>3, <2>4, <3>1, <3>2, <3>3 DEF Claims
    <3> QED
      BY <1>0, <3>4, OnlyClaims
  <2> QED
    BY <1>7, <2>5, <2>6 DEF EraseManifest
<1>8. CASE Raises(a)
  <2>1. work[a] # NoRecord /\ Missing(a)
    BY <1>8 DEF Raises, Missing, At
  <2>2. ASSUME At(a, "read_algorithm"), algorithm = NoRecord PROVE FALSE
    BY <1>1, <2>1, <2>2, PurposeOfPlace DEF At, Claims
  <2>3. ASSUME At(a, "read_training"), training[Concerned(a)] = NoRecord PROVE FALSE
    <3>1. Concerned(a) \in Trainings
      BY <1>1, <2>1, <2>3, PurposeOfPlace
         DEF At, Concerned, JobOK, Handling, Updates, Maker, Checkpoints, TypeInv, TypeOK
    <3> QED
      BY <2>3, <3>1 DEF Serial, SavedIsKept
  <2>4. ASSUME At(a, "next"), work[a].todo \ manifests # {} PROVE FALSE
    <3>1. work[a].for = "remove" /\ algorithm # NoRecord /\ work[a].todo = algorithm.checkpoints
      BY <1>1, <2>1, <2>4 DEF At, InPlace, Claims, Handling
    <3>2. algorithm.checkpoints \subseteq manifests
      BY <2>4, <3>1 DEF Sound, Strips, At
    <3> QED
      BY <2>4, <3>1, <3>2
  <2> QED
    BY <2>1, <2>2, <2>3, <2>4 DEF Missing
<1> QED
  BY <1>2, <1>3, <1>4, <1>5, <1>6, <1>7, <1>8 DEF CheckpointStep

\* A step that writes the algorithm's record for another reason preserves ClaimsInv.
LEMMA ClaimsRewrite ==
  ASSUME TypeInv, Serial, NEW a \in Threads \union {EventLoop}, RewriteStep(a), Only(a),
         Claims(work[a])
  PROVE  (\A b \in Actors : Alone(b) => Claims(work[b]))'
<1>0. a \in Actors /\ work \in [Actors -> Job \union {NoRecord}]
  BY DEF Actors, TypeInv, JobsOK
<1>1. ASSUME NEW purpose \in Rewriting, NEW place \in {"count", "put"},
             Begin(a, [NewJob(purpose, place, NoRecord) EXCEPT !.copy = algorithm]),
             UNCHANGED stores
      PROVE  (\A b \in Actors : Alone(b) => Claims(work[b]))'
  <2> DEFINE w == [NewJob(purpose, place, NoRecord) EXCEPT !.copy = algorithm]
  <2>1. w = [for |-> purpose, at |-> place, checkpoint |-> NoRecord, copy |-> algorithm,
             record |-> NoRecord, todo |-> {}]
    BY DEF NewJob
  <2>2. work'[a] = w /\ work[a] = NoRecord
    BY <1>0, <1>1 DEF Begin
  <2>3. work'[a].for = purpose
    BY <2>1, <2>2
  <2> QED
    BY <1>0, <1>1, <2>2, <2>3, ClaimsOther DEF stores, Rewriting, Handling
<1>2. CASE BeginRefresh(a)
  BY <1>1, <1>2 DEF BeginRefresh, Rewriting
<1>3. ASSUME NEW place \in {"count", "put"}, BeginRewrite(a, place)
      PROVE  (\A b \in Actors : Alone(b) => Claims(work[b]))'
  BY <1>1, <1>3 DEF BeginRewrite, Rewriting
<1>4. ASSUME At(a, "count") \/ At(a, "put")
      PROVE  /\ work[a] # NoRecord /\ work[a] \in Job /\ work[a].for \in Rewriting
             /\ work[a].copy \in AlgorithmRecord /\ algorithm # NoRecord
             /\ work[a].copy.checkpoints = algorithm.checkpoints
  <2>1. /\ work[a] # NoRecord /\ work[a] \in Job /\ work[a].at \in {"count", "put"}
        /\ JobOK(a, work[a], made, condemned) /\ Fresh(a)
    BY <1>0, <1>4 DEF At, TypeInv, JobsOK, Serial, JobsFresh
  <2> QED
    BY <2>1, PurposeOfPlace DEF JobOK, Job, Fresh
<1>5. CASE Count(a)
  <2>1. work'[a].for = work[a].for /\ UNCHANGED stores
    BY <1>0, <1>4, <1>5 DEF Count, Job
  <2> QED
    BY <1>0, <1>4, <1>5, <2>1, ClaimsOther DEF Count, stores, Rewriting, Handling
<1>6. CASE Put(a)
  <2>1. At(a, "put") /\ algorithm' = work[a].copy /\ UNCHANGED <<manifests, assets>>
    BY <1>6 DEF Put
  <2>2. ListedIn(algorithm)' = ListedIn(algorithm)
    BY <1>4, <2>1, NoRecordAssumption DEF ListedIn
  <2>3. work'[a] # NoRecord => work'[a].for = work[a].for
    BY <1>0, <1>4, <1>6, <2>1 DEF Put, Move, End, Job
  <2> QED
    BY <1>0, <1>4, <2>1, <2>2, <2>3, ClaimsOther DEF Rewriting, Handling
<1> QED
  BY <1>2, <1>3, <1>5, <1>6 DEF RewriteStep

\* A step of a removal preserves ClaimsInv: at its end there is nothing left to delete.
LEMMA ClaimsRemoval ==
  ASSUME TypeInv, Serial, RemovalStep, Only(EventLoop), Claims(work[EventLoop]), happened' = {}
  PROVE  (\A b \in Actors : Alone(b) => Claims(work[b]))'
<1> USE DEF stores, history
<1>0. EventLoop \in Actors /\ work \in [Actors -> Job \union {NoRecord}]
  BY DEF Actors, TypeInv, JobsOK
<1>1. CASE BeginRemove
  <2> DEFINE w == [NewJob("remove", "next", NoRecord) EXCEPT !.todo = ToDelete(algorithm)]
  <2>1. w = [for |-> "remove", at |-> "next", checkpoint |-> NoRecord, copy |-> NoRecord,
             record |-> NoRecord, todo |-> algorithm.checkpoints]
    BY DEF NewJob, ToDelete
  <2>2. /\ work'[EventLoop] = w /\ work[EventLoop] = NoRecord
        /\ UNCHANGED stores /\ algorithm # NoRecord
    BY <1>0, <1>1 DEF BeginRemove, Begin
  <2>3. work'[EventLoop].at = "next" /\ work'[EventLoop].todo = algorithm.checkpoints
    BY <2>1, <2>2
  <2>4. Claims(work[EventLoop])'
    BY <2>2, <2>3 DEF Claims, Holds
  <2> QED
    BY <1>0, <2>4, OnlyClaims
<1>2. ASSUME NEW c \in Checkpoints, DeleteNext(c)
      PROVE  (\A b \in Actors : Alone(b) => Claims(work[b]))'
  <2>1. /\ work[EventLoop] # NoRecord /\ work[EventLoop] \in Job /\ work[EventLoop].at = "next"
        /\ work[EventLoop].for = "remove" /\ UNCHANGED stores
    BY <1>0, <1>2 DEF DeleteNext, At, TypeInv, JobsOK, JobOK, InPlace
  <2>2. /\ work'[EventLoop] \in Job /\ work'[EventLoop].at = "delete_assets"
        /\ work'[EventLoop].for = "remove" /\ work'[EventLoop].checkpoint = c
        /\ work'[EventLoop].todo = work[EventLoop].todo \ {c}
    BY <1>0, <1>2, <2>1 DEF DeleteNext, Job, Places
  <2>3. work[EventLoop].todo = algorithm.checkpoints /\ algorithm # NoRecord
    BY <2>1 DEF Claims, Handling
  <2>4. Claims(work[EventLoop])'
    BY <2>1, <2>2, <2>3 DEF Claims, Holds
  <2> QED
    BY <1>0, <2>4, OnlyClaims
<1>3. CASE EraseAlgorithm
  <2>1. /\ work[EventLoop] # NoRecord /\ work[EventLoop].at = "next"
        /\ work[EventLoop].for = "remove" /\ work[EventLoop].todo = {}
        /\ UNCHANGED <<manifests, assets>> /\ work'[EventLoop] = NoRecord
    BY <1>0, <1>3 DEF EraseAlgorithm, At, End, TypeInv, JobsOK, JobOK, InPlace
  <2>2. algorithm # NoRecord /\ algorithm.checkpoints = {}
    BY <2>1 DEF Claims, Handling
  <2>3. manifests \union assets = {}
    BY <2>1, <2>2 DEF Claims, Holds, ListedIn
  <2>4. Claims(work[EventLoop])'
    BY <2>1, <2>3 DEF Claims
  <2> QED
    BY <1>0, <2>4, OnlyClaims
<1>4. CASE EraseAfterVersion
  BY <1>4 DEF EraseAfterVersion
<1>5. CASE BeginRemoveVersion
  <2> DEFINE w == [NewJob("remove_version", "count", NoRecord) EXCEPT !.copy = algorithm]
  <2>1. w = [for |-> "remove_version", at |-> "count", checkpoint |-> NoRecord,
             copy |-> algorithm, record |-> NoRecord, todo |-> {}]
    BY DEF NewJob
  <2>2. work'[EventLoop] = w /\ work[EventLoop] = NoRecord /\ UNCHANGED stores
    BY <1>0, <1>5 DEF BeginRemoveVersion, Begin
  <2>3. work'[EventLoop].for = "remove_version"
    BY <2>1, <2>2
  <2> QED
    BY <1>0, <2>2, <2>3, ClaimsOther DEF Handling
<1> QED
  BY <1>1, <1>2, <1>3, <1>4, <1>5 DEF RemovalStep

\* ClaimsInv is inductive relative to TypeInv, SerialInv and SoundInv.
LEMMA ClaimsInductive ==
  TypeInv /\ SerialInv /\ SoundInv /\ ClaimsInv /\ [Next]_vars => ClaimsInv'
<1> SUFFICES ASSUME TypeInv, SerialInv, SoundInv, ClaimsInv, [Next]_vars, happened' = {}
             PROVE  (\A b \in Actors : Alone(b) => Claims(work[b]))'
  BY DEF ClaimsInv
<1>1. /\ happened = {} /\ Serial
      /\ \A a \in Actors : Alone(a) => Sound(work[a]) /\ Claims(work[a])
  BY HappenedGrows DEF SerialInv, SoundInv, ClaimsInv
<1>2. \A a \in Actors : Only(a) => Sound(work[a]) /\ Claims(work[a])
  BY <1>1 DEF Only
<1>3. CASE UNCHANGED vars
  BY <1>1, <1>3 DEF vars, stores, Alone, Claims, Holds
<1>4. ASSUME NEW t \in Trainings, TrainingStep(t)
      PROVE  (\A b \in Actors : Alone(b) => Claims(work[b]))'
  <2>1. CASE Only(t)
    BY <1>1, <1>2, <1>4, <2>1, ClaimsTraining DEF Actors
  <2>2. CASE Expire(t)
    BY <2>2 DEF Expire
  <2> QED
    BY <1>1, <1>4, <2>1, <2>2, OnlyTraining
<1>5. ASSUME NEW a \in Trainings \union {EventLoop}, CheckpointStep(a)
      PROVE  (\A b \in Actors : Alone(b) => Claims(work[b]))'
  BY <1>1, <1>2, <1>5, OnlyCheckpoint, ClaimsCheckpoint DEF Actors
<1>6. ASSUME NEW a \in Threads \union {EventLoop}, RewriteStep(a)
      PROVE  (\A b \in Actors : Alone(b) => Claims(work[b]))'
  BY <1>1, <1>2, <1>6, OnlyRewrite, ClaimsRewrite DEF Actors
<1>7. CASE RemovalStep
  BY <1>1, <1>2, <1>7, OnlyRemoval, ClaimsRemoval DEF Actors
<1>8. ASSUME NEW a \in Actors, Fails(a) PROVE FALSE
  BY <1>8 DEF Fails
<1> QED
  BY <1>3, <1>4, <1>5, <1>6, <1>7, <1>8 DEF Next

\* When nothing out of the ordinary happens, the removal of an algorithm takes all of its
\* checkpoints with it, and no job misses what it looks for.
THEOREM CheckpointsAreRemoved == Spec => []CheckpointsGoWithAlgorithm
<1>1. Init => ClaimsInv
  BY DEF Init, ClaimsInv, Claims
<1>2. ClaimsInv => CheckpointsGoWithAlgorithm
  <2> SUFFICES ASSUME ClaimsInv, Quiet, algorithm = NoRecord, happened = {}
               PROVE  manifests \union assets = {}
    BY DEF CheckpointsGoWithAlgorithm
  <2>1. EventLoop \in Actors /\ Alone(EventLoop) /\ work[EventLoop] = NoRecord
    BY DEF Actors, Quiet, Alone
  <2> QED
    BY <2>1 DEF ClaimsInv, Claims, Holds, ListedIn
<1> QED
  BY <1>1, <1>2, TypeInvariance, SerialInvariance, SoundInvariance, ClaimsInductive, PTL DEF Spec
=============================================================================
