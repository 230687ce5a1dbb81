--------------------------- MODULE CheckpointStore ---------------------------
(***************************************************************************)
(* Checkpoints of one algorithm.  A checkpoint is a manifest, the assets   *)
(* the manifest names, and its id in two lists: in the record of the       *)
(* algorithm and in the record of the training that made it.  Trainings    *)
(* save checkpoints and may delete them (TrainingHandler), clients delete  *)
(* them, and the removal of the algorithm deletes all of them              *)
(* (AlgorithmCheckpoint).  Deployments, GET requests and the handlers of   *)
(* trainings write the same two records for reasons of their own.          *)
(*                                                                         *)
(* Nothing locks a record: everybody reads all of it and writes all of it. *)
(***************************************************************************)
EXTENDS Naturals

CONSTANTS
  Trainings,
  Threads,    \* of the server: those that deploy and that answer plain requests
  EventLoop,  \* the thread that runs the asynchronous endpoints one at a time
  MaxSaves,   \* bound: how many checkpoints a training tries to save
  MaxJobs,    \* bound: how many jobs there are
  Allowed,    \* the circumstances that may occur
  NoRecord    \* what stands for an object that is not there

Actors == Trainings \union Threads \union {EventLoop}

Circumstances ==
  {"overlap",       \* two jobs are in progress at a time
   "failure",       \* a call of a job raises (once)
   "expiry",        \* the record of a training expires (after 30 days)
   "last_version"}  \* the last minor version of the algorithm is removed

ASSUME AllowedAssumption == Allowed \subseteq Circumstances

ASSUME BoundsAssumption == MaxSaves \in Nat /\ MaxJobs \in Nat

ASSUME ActorsAssumption ==
  /\ Threads \intersect Trainings = {}
  /\ EventLoop \notin Trainings \union Threads

\* The ids of checkpoints: uuids, here named after the training that draws them.
Checkpoints == Trainings \X (1 .. MaxSaves)

Maker(c) == c[1]

VARIABLES
  algorithm,  \* the record of the algorithm, or NoRecord
  training,   \* training[t]: the record of t, or NoRecord
  manifests,  \* the algorithm-checkpoint-store: whose manifests are there
  assets,     \* the asset-store: whose assets are there
  work,       \* work[a]: the job in progress, or NoRecord
  saved,      \* the lists output_checkpoint_ids of the handlers
  made,       \* the ids drawn so far
  jobs,       \* how many jobs there were
  (* History *)
  told,       \* told[t]: the status the handler of t stored last
  condemned,  \* the checkpoints whose deletion has begun
  deleted,    \* the checkpoints a deletion of which has returned
  happened    \* the circumstances that have occurred

stores == <<algorithm, training, manifests, assets>>

history == <<told, condemned, deleted, happened>>

vars == <<stores, work, saved, made, jobs, history>>

-----------------------------------------------------------------------------
(* Records and jobs *)

\* counted: the checkpoints whose size is in storage_metrics; stale: the flag
\* storage_metrics_stale.
AlgorithmRecord ==
  [checkpoints: SUBSET Checkpoints, counted: SUBSET Checkpoints, stale: BOOLEAN]

Statuses == {"RUNNING", "COMPLETED", "FAILED"}

TrainingRecord == [checkpoints: SUBSET Checkpoints, status: Statuses]

\* _build_failed_record starts from this if there is nothing to read.
BugStub == [checkpoints |-> {}, status |-> "PENDING"]  \* Mutant: the record of a new task.

Stub == [checkpoints |-> {}, status |-> "FAILED"]

ASSUME NoRecordAssumption == NoRecord \notin AlgorithmRecord \union TrainingRecord

\* Updates of its record by the handler of a training.
Updates == {"progress", "COMPLETED", "FAILED"}

Purposes ==
  {"save", "delete", "remove", "remove_version", "refresh", "rewrite"} \union Updates

Places ==
  {"post_assets", "put_manifest", "delete_assets", "read_algorithm", "write_algorithm",
   "read_training", "write_training", "erase_manifest", "next", "count", "put", "erase"}

\* copy: the record of the algorithm as read; record: that of the training;
\* todo: the checkpoints a removal has still to delete.
Job ==
  [for: Purposes, at: Places, checkpoint: Checkpoints \union {NoRecord},
   copy: AlgorithmRecord \union {NoRecord}, record: TrainingRecord \union {NoRecord},
   todo: SUBSET Checkpoints]

ASSUME NoJobAssumption == NoRecord \notin Job

NewJob(purpose, place, c) ==
  [for |-> purpose, at |-> place, checkpoint |-> c, copy |-> NoRecord,
   record |-> NoRecord, todo |-> {}]

At(a, place) == work[a] # NoRecord /\ work[a].at = place

Alone(a) == \A b \in Actors \ {a} : work[b] = NoRecord

Quiet == \A a \in Actors : work[a] = NoRecord

Begin(a, job) ==
  /\ jobs < MaxJobs
  /\ work[a] = NoRecord
  /\ Alone(a) \/ "overlap" \in Allowed
  /\ jobs' = jobs + 1
  /\ work' = [work EXCEPT ![a] = job]
  /\ happened' = IF Alone(a) THEN happened ELSE happened \union {"overlap"}

Move(a, place) == work' = [work EXCEPT ![a].at = place]

End(a) == work' = [work EXCEPT ![a] = NoRecord]

\* The assets of a checkpoint get ids of their own.
BugAssetsOf(c) == {d \in Checkpoints : Maker(d) = Maker(c)}  \* Mutant: named by content.

AssetsOf(c) == {c}

\* calculate_metrics leaves out what is not stored.
Counted(r) ==
  [r EXCEPT !.counted = r.checkpoints \intersect (manifests \intersect assets),
            !.stale = FALSE]

-----------------------------------------------------------------------------
(* What trainings do *)

Running(t) == told[t] # "COMPLETED"

\* save_checkpoint: the training's record and the algorithm are looked up first.
BeginSave(t, c) ==
  /\ Running(t) /\ Maker(c) = t /\ c \notin made
  /\ algorithm # NoRecord /\ training[t] # NoRecord
  /\ Begin(t, NewJob("save", "post_assets", c))
  /\ made' = made \union {c}
  /\ UNCHANGED <<stores, saved, told, condemned, deleted>>

PostAssets(t) ==
  /\ At(t, "post_assets")
  /\ assets' = assets \union AssetsOf(work[t].checkpoint)
  /\ Move(t, "put_manifest")
  /\ UNCHANGED <<algorithm, training, manifests, saved, made, jobs, history>>

\* register_checkpoint
PutManifest(t) ==
  /\ At(t, "put_manifest")
  /\ manifests' = manifests \union {work[t].checkpoint}
  /\ Move(t, "read_algorithm")
  /\ UNCHANGED <<algorithm, training, assets, saved, made, jobs, history>>

\* A setter of the handler, mark_as_completed, mark_as_failed.
BeginUpdate(t, update) ==
  /\ Running(t)
  /\ Begin(t, NewJob(update, "read_training", NoRecord))
  /\ UNCHANGED <<stores, saved, made, told, condemned, deleted>>

-----------------------------------------------------------------------------
(* Deletion, by a client or by a training *)

\* The constructor of AlgorithmCheckpoint loads the manifest.
BeginDelete(a, c) ==
  /\ a \in Trainings => Running(a)
  /\ c \in manifests
  /\ Begin(a, NewJob("delete", "delete_assets", c))
  /\ condemned' = condemned \union {c}
  /\ UNCHANGED <<stores, saved, made, told, deleted>>

DeleteAssets(a) ==
  /\ At(a, "delete_assets")
  /\ assets' = assets \ AssetsOf(work[a].checkpoint)
  /\ Move(a, "read_algorithm")
  /\ UNCHANGED <<algorithm, training, manifests, saved, made, jobs, history>>

EraseManifest(a) ==
  LET c == work[a].checkpoint
  IN  /\ At(a, "erase_manifest")
      /\ manifests' = manifests \ {c}
      /\ deleted' = deleted \union {c}
      /\ saved' = IF Maker(c) = a THEN saved \ {c} ELSE saved
      /\ IF work[a].for = "remove" THEN Move(a, "next") ELSE End(a)
      /\ UNCHANGED <<algorithm, training, assets, made, jobs, told, condemned, happened>>

-----------------------------------------------------------------------------
(* The two lists *)

BugAdds(S, a) ==  \* Mutant: the list is stored anew for each checkpoint.
  IF work[a].for = "save" THEN {work[a].checkpoint} ELSE S \ {work[a].checkpoint}

BugKeeps(S, a) ==  \* Mutant: a deletion leaves the list alone.
  IF work[a].for = "save" THEN S \union {work[a].checkpoint} ELSE S

Listed(S, a) ==
  IF work[a].for = "save" THEN S \union {work[a].checkpoint} ELSE S \ {work[a].checkpoint}

\* A list that is right already is not written.
ReadAlgorithm(a) ==
  /\ At(a, "read_algorithm") /\ algorithm # NoRecord
  /\ IF Listed(algorithm.checkpoints, a) = algorithm.checkpoints
     THEN Move(a, "read_training")
     ELSE work' = [work EXCEPT ![a].at = "write_algorithm", ![a].copy = algorithm]
  /\ UNCHANGED <<stores, saved, made, jobs, history>>

BugMarkStale(r) == r  \* Mutant: the metrics are taken for fresh.

MarkStale(r) == [r EXCEPT !.stale = TRUE]

WriteAlgorithm(a) ==
  /\ At(a, "write_algorithm")
  /\ algorithm' = MarkStale([work[a].copy EXCEPT !.checkpoints = Listed(@, a)])
  /\ Move(a, "read_training")
  /\ UNCHANGED <<training, manifests, assets, saved, made, jobs, history>>

\* The training a job writes the record of.
Concerned(a) ==
  IF work[a].for \in Updates THEN a ELSE Maker(work[a].checkpoint)

AfterTraining(a) ==
  IF work[a].for = "save"
  THEN End(a) /\ saved' = saved \union {work[a].checkpoint}
  ELSE Move(a, "erase_manifest") /\ UNCHANGED saved

\* Also the first half of an update of the handler.
ReadTraining(a) ==
  LET r == training[Concerned(a)]
  IN  /\ At(a, "read_training")
      /\ r # NoRecord
      /\ IF work[a].for \notin Updates /\ Listed(r.checkpoints, a) = r.checkpoints
         THEN AfterTraining(a)
         ELSE /\ work' = [work EXCEPT ![a].at = "write_training", ![a].record = r]
              /\ UNCHANGED saved
      /\ UNCHANGED <<stores, made, jobs, history>>

\* mark_as_failed of a task that has no record.
ReadNothing(t) ==
  /\ At(t, "read_training")
  /\ work[t].for = "FAILED" /\ training[t] = NoRecord
  /\ work' = [work EXCEPT ![t].at = "write_training", ![t].record = Stub]
  /\ UNCHANGED <<stores, saved, made, jobs, history>>

BugWithList(r, a) ==  \* Mutant: the other fields get their initial values.
  [checkpoints |-> Listed(r.checkpoints, a), status |-> "RUNNING"]

WithList(r, a) == [r EXCEPT !.checkpoints = Listed(@, a)]

WriteTraining(a) ==
  /\ At(a, "write_training") /\ work[a].for \notin Updates
  /\ training' = [training EXCEPT ![Concerned(a)] = WithList(work[a].record, a)]
  /\ AfterTraining(a)
  /\ UNCHANGED <<algorithm, manifests, assets, made, jobs, history>>

\* The second half of an update of the handler.
WriteUpdate(t) ==
  LET next(status) == IF work[t].for = "progress" THEN status ELSE work[t].for
  IN  /\ At(t, "write_training") /\ work[t].for \in Updates
      /\ training' = [training EXCEPT ![t] = [work[t].record EXCEPT !.status = next(@)]]
      /\ told' = [told EXCEPT ![t] = next(@)]
      /\ End(t)
      /\ UNCHANGED <<algorithm, manifests, assets, saved, made, jobs, condemned, deleted,
                     happened>>

-----------------------------------------------------------------------------
(* Writers of the algorithm's record *)

BugToDelete(r) == r.counted  \* Mutant: the removal goes by storage_metrics.

ToDelete(r) == r.checkpoints

\* delete_algorithm works through the list of the record it read.
BeginRemove ==
  /\ algorithm # NoRecord
  /\ Begin(EventLoop, [NewJob("remove", "next", NoRecord) EXCEPT !.todo = ToDelete(algorithm)])
  /\ UNCHANGED <<stores, saved, made, told, condemned, deleted>>

DeleteNext(c) ==
  /\ At(EventLoop, "next") /\ c \in work[EventLoop].todo
  /\ c \in manifests
  /\ work' = [work EXCEPT ![EventLoop].at = "delete_assets",
                          ![EventLoop].checkpoint = c,
                          ![EventLoop].todo = @ \ {c}]
  /\ condemned' = condemned \union {c}
  /\ UNCHANGED <<stores, saved, made, jobs, told, deleted, happened>>

EraseAlgorithm ==
  /\ At(EventLoop, "next") /\ work[EventLoop].todo = {}
  /\ algorithm' = NoRecord
  /\ End(EventLoop)
  /\ UNCHANGED <<training, manifests, assets, saved, made, jobs, history>>

\* load_record: a record whose metrics are stale is read again under a lock, which
\* lets one refresh happen at a time.
BeginRefresh(a) ==
  /\ algorithm # NoRecord /\ algorithm.stale
  /\ \A b \in Actors : work[b] # NoRecord => work[b].for # "refresh"
  /\ Begin(a, [NewJob("refresh", "count", NoRecord) EXCEPT !.copy = algorithm])
  /\ UNCHANGED <<stores, saved, made, told, condemned, deleted>>

\* A redeployment and the removal of a minor version refresh the metrics of the
\* record they write, the setters of flags do not.
BeginRewrite(a, place) ==
  /\ algorithm # NoRecord
  /\ place = "put" => a \in Threads
  /\ Begin(a, [NewJob("rewrite", place, NoRecord) EXCEPT !.copy = algorithm])
  /\ UNCHANGED <<stores, saved, made, told, condemned, deleted>>

\* delete_algorithm_minor_version for the only version left.
BeginRemoveVersion ==
  /\ "last_version" \in Allowed
  /\ algorithm # NoRecord
  /\ Begin(EventLoop, [NewJob("remove_version", "count", NoRecord) EXCEPT !.copy = algorithm])
  /\ UNCHANGED <<stores, saved, made, told, condemned, deleted>>

Count(a) ==
  /\ At(a, "count")
  /\ work' = [work EXCEPT ![a].at = "put", ![a].copy = Counted(@)]
  /\ UNCHANGED <<stores, saved, made, jobs, history>>

Put(a) ==
  /\ At(a, "put")
  /\ algorithm' = work[a].copy
  /\ IF work[a].for = "remove_version" THEN Move(a, "erase") ELSE End(a)
  /\ UNCHANGED <<training, manifests, assets, saved, made, jobs, history>>

EraseAfterVersion ==
  /\ At(EventLoop, "erase")
  /\ algorithm' = NoRecord
  /\ End(EventLoop)
  /\ happened' = happened \union {"last_version"}
  /\ UNCHANGED <<training, manifests, assets, saved, made, jobs, told, condemned, deleted>>

-----------------------------------------------------------------------------
(* What goes wrong *)

\* The record or the manifest to read is not there.
Missing(a) ==
  \/ At(a, "read_algorithm") /\ algorithm = NoRecord
  \/ At(a, "read_training") /\ work[a].for # "FAILED" /\ training[Concerned(a)] = NoRecord
  \/ At(a, "next") /\ work[a].todo \ manifests # {}

\* An exception ends a job; what was done stays.  The handler of a training marks it
\* as failed, unless that is what raised.
Unwind(a) ==
  work' = [work EXCEPT ![a] =
    IF a \in Trainings /\ work[a].for # "FAILED"
    THEN NewJob("FAILED", "read_training", NoRecord) ELSE NoRecord]

Raises(a) ==
  /\ Missing(a)
  /\ Unwind(a)
  /\ UNCHANGED <<stores, saved, made, jobs, history>>

\* Any other call may raise.
Fails(a) ==
  /\ "failure" \in Allowed \ happened
  /\ work[a] # NoRecord
  /\ Unwind(a)
  /\ happened' = happened \union {"failure"}
  /\ UNCHANGED <<stores, saved, made, jobs, told, condemned, deleted>>

Expire(t) ==
  /\ "expiry" \in Allowed
  /\ work[t] = NoRecord /\ training[t] # NoRecord
  /\ training' = [training EXCEPT ![t] = NoRecord]
  /\ happened' = happened \union {"expiry"}
  /\ UNCHANGED <<algorithm, manifests, assets, work, saved, made, jobs, told, condemned, deleted>>

-----------------------------------------------------------------------------

Init ==
  /\ algorithm = [checkpoints |-> {}, counted |-> {}, stale |-> FALSE]
  /\ training = [t \in Trainings |-> [checkpoints |-> {}, status |-> "RUNNING"]]
  /\ manifests = {} /\ assets = {}
  /\ work = [a \in Actors |-> NoRecord]
  /\ saved = {} /\ made = {} /\ jobs = 0
  /\ told = [t \in Trainings |-> "RUNNING"]
  /\ condemned = {} /\ deleted = {} /\ happened = {}

TrainingStep(t) ==
  \/ \E c \in Checkpoints : BeginSave(t, c)
  \/ PostAssets(t)
  \/ PutManifest(t)
  \/ \E update \in Updates : BeginUpdate(t, update)
  \/ ReadNothing(t)
  \/ WriteUpdate(t)
  \/ Expire(t)

CheckpointStep(a) ==
  \/ \E c \in Checkpoints : BeginDelete(a, c)
  \/ DeleteAssets(a)
  \/ ReadAlgorithm(a)
  \/ WriteAlgorithm(a)
  \/ ReadTraining(a)
  \/ WriteTraining(a)
  \/ EraseManifest(a)
  \/ Raises(a)

RewriteStep(a) ==
  \/ BeginRefresh(a)
  \/ \E place \in {"count", "put"} : BeginRewrite(a, place)
  \/ Count(a)
  \/ Put(a)

RemovalStep ==
  \/ BeginRemove
  \/ \E c \in Checkpoints : DeleteNext(c)
  \/ EraseAlgorithm
  \/ BeginRemoveVersion
  \/ EraseAfterVersion

Next ==
  \/ \E t \in Trainings : TrainingStep(t)
  \/ \E a \in Trainings \union {EventLoop} : CheckpointStep(a)
  \/ \E a \in Threads \union {EventLoop} : RewriteStep(a)
  \/ \E a \in Actors : Fails(a)
  \/ RemovalStep

Spec == Init /\ [][Next]_vars

-----------------------------------------------------------------------------
(* Properties *)

TypeOK ==
  /\ algorithm \in AlgorithmRecord \union {NoRecord}
  /\ training \in [Trainings -> TrainingRecord \union {NoRecord}]
  /\ manifests \subseteq Checkpoints /\ assets \subseteq Checkpoints
  /\ work \in [Actors -> Job \union {NoRecord}]
  /\ saved \subseteq made /\ made \subseteq Checkpoints /\ jobs \in 0 .. MaxJobs
  /\ told \in [Trainings -> Statuses]
  /\ condemned \subseteq Checkpoints /\ deleted \subseteq condemned
  /\ happened \subseteq Allowed

ListedIn(r) == IF r = NoRecord THEN {} ELSE r.checkpoints

Visible ==
  manifests \union ListedIn(algorithm) \union UNION {ListedIn(training[t]) : t \in Trainings}

\* A client that finds a checkpoint, in a record or in the store, can load it: the
\* manifest and the assets are there, unless somebody has begun to delete it. That
\* holds whatever overlaps, fails or expires.
ListedCanBeLoaded == Visible \ condemned \subseteq manifests \intersect assets

(* The rest is not true of jobs that overlap.                              *)

\* What a training has saved is in both lists, where clients look for it.
SavedIsListed ==
  happened \intersect {"overlap", "expiry"} = {} =>
    \A c \in saved \ condemned :
      /\ algorithm # NoRecord => c \in algorithm.checkpoints
      /\ c \in training[Maker(c)].checkpoints

\* A deletion that has returned leaves nothing of the checkpoint.
DeletionIsClean ==
  "overlap" \notin happened => deleted \intersect (Visible \union assets) = {}

\* The metrics that GET returns without counting again are those of the checkpoints
\* in the record.
MetricsAreTrue ==
  happened \intersect {"overlap", "failure"} = {} /\ Quiet /\ algorithm # NoRecord =>
    algorithm.stale \/ algorithm.counted = algorithm.checkpoints

\* The status a client reads is the one the handler of the training stored last:
\* deleting a checkpoint does not take a training back to an earlier status.
StatusIsTheHandlers ==
  "overlap" \notin happened =>
    \A t \in Trainings : training[t] # NoRecord => training[t].status = told[t]

\* The removal of an algorithm leaves none of its checkpoints.
CheckpointsGoWithAlgorithm ==
  happened = {} /\ Quiet /\ algorithm = NoRecord => manifests \union assets = {}

=============================================================================
