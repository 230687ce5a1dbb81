--------------------------- MODULE TrainingSamples ---------------------------
(***************************************************************************)
(* Files, samples and the trainings that read them.  A sample is a         *)
(* manifest that names files of the data-store.  The storage expires a     *)
(* file whose tag training_ref is "0", so a new sample adds one to the     *)
(* tag of each of its files and the deletion of the sample takes one off   *)
(* (TrainingSample).  The tags are all that keeps a file of a sample.      *)
(*                                                                         *)
(* The server answers these requests in one thread, one at a time.         *)
(* Meanwhile the storage expires files, clients upload by presigned URLs,  *)
(* workers upload results and trainings download.                          *)
(***************************************************************************)
EXTENDS Naturals, FiniteSets

CONSTANTS
  Files,
  Samples,
  Trainings,
  Allowed,   \* the circumstances that may occur
  Reused,    \* the files whose names clients may use for a second file, by a URL
  Untagged,  \* what stands for a missing training_ref
  Nothing    \* what stands for no job and for no file

Circumstances ==
  {"failure",    \* a call to the storage raises, or the server crashes
   "presigned"}  \* a client uploads a file by a presigned URL

ASSUME AllowedAssumption == Allowed \subseteq Circumstances /\ Reused \subseteq Files

ASSUME ConstantsAssumption ==
  /\ IsFiniteSet(Samples)
  /\ Untagged \notin Nat

VARIABLES
  stored,      \* the files in the data-store
  tag,         \* tag[f]: the training_ref of f, or Untagged
  samples,     \* the samples in the sample-store
  filesOf,     \* filesOf[s]: the files that the manifest of s names
  job,         \* what the server is doing to a sample, or Nothing
  training,    \* training[t]: how far t is
  drawn,       \* the ids of samples drawn so far
  uploading,   \* the files put but not yet tagged
  known,       \* the files whose ids clients have
  (* History *)
  removed,     \* the files that clients have deleted
  condemned,   \* the samples whose deletion has begun
  overcounted, \* the files promoted for a sample whose addition was given up
  undercounted \* the files demoted for a sample whose deletion was given up, or replaced

store == <<stored, tag, samples, filesOf>>

ids == <<drawn, uploading, known>>

faults == <<overcounted, undercounted>>

vars == <<store, job, training, ids, removed, condemned, faults>>

-----------------------------------------------------------------------------

\* todo: the files still to visit; file: the file whose tag was read, ref: what it said.
Job ==
  [op: {"add", "delete"}, sample: Samples, todo: SUBSET Files,
   file: Files \cup {Nothing}, ref: Nat]

\* samples: what it trains on; todo: the files still to fetch; held: those in memory;
\* local: those in its TempStore.
Training ==
  [at: {"new", "accepted", "download", "over", "no_file"},
   samples: SUBSET Samples, todo: SUBSET Files, held: SUBSET Files, local: SUBSET Files]

AtRest(place) == [at |-> place, samples |-> {}, todo |-> {}, held |-> {}, local |-> {}]

ASSUME NothingAssumption == Nothing \notin Files \cup Job

\* int(tags.get("training_ref", "0"))
RefOf(t) == IF t = Untagged THEN 0 ELSE t

Idle == job = Nothing

-----------------------------------------------------------------------------
(* Files *)

\* put_objects stores the file and then tags it; a worker's post_data does the same.
PutFile(f) ==
  /\ f \notin stored \cup known
  /\ stored' = stored \cup {f}
  /\ uploading' = uploading \cup {f}
  /\ UNCHANGED <<tag, samples, filesOf, job, training, drawn, known, removed, condemned, faults>>

\* The tag is set if there is none, and the client gets the id.
TagFile(f) ==
  /\ f \in uploading
  /\ tag' = [tag EXCEPT ![f] = RefOf(@)]
  /\ uploading' = uploading \ {f}
  /\ known' = known \cup {f}
  /\ UNCHANGED <<stored, samples, filesOf, job, training, drawn, removed, condemned, faults>>

TagFileFails(f) ==
  /\ "failure" \in Allowed
  /\ f \in uploading
  /\ uploading' = uploading \ {f}
  /\ UNCHANGED <<store, job, training, drawn, known, removed, condemned, faults>>

\* The client puts the file itself, under a name of its choice; a new object has no tags.
PutByUrl(f) ==
  /\ "presigned" \in Allowed
  /\ f \in known => f \in Reused
  /\ f \in stored => f \in known
  /\ stored' = stored \cup {f}
  /\ tag' = [tag EXCEPT ![f] = Untagged]
  /\ undercounted' = IF f \in known THEN undercounted \cup {f} ELSE undercounted
  /\ known' = known \cup {f}
  /\ UNCHANGED <<samples, filesOf, job, training, drawn, uploading, removed, condemned,
                 overcounted>>

\* The tags go with the file.
Erase(f) == stored' = stored \ {f} /\ tag' = [tag EXCEPT ![f] = Untagged]

BugMayExpire(f) == RefOf(tag[f]) < 2  \* Mutant: the count starts at one.

\* The rule that create_collections gives to the storage; time is left out.
MayExpire(f) == tag[f] = 0

Expire(f) ==
  /\ f \in stored
  /\ MayExpire(f)
  /\ Erase(f)
  /\ UNCHANGED <<samples, filesOf, job, training, ids, removed, condemned, faults>>

\* Nobody asks whether a sample needs the file.
DeleteFile(f) ==
  /\ Idle
  /\ f \in stored \cap known
  /\ Erase(f)
  /\ removed' = removed \cup {f}
  /\ UNCHANGED <<samples, filesOf, job, training, ids, condemned, faults>>

-----------------------------------------------------------------------------
(* Samples *)

NewJob(op, s, F) == [op |-> op, sample |-> s, todo |-> F, file |-> Nothing, ref |-> 0]

\* The files are checked twice in a row.
Checked(F) == F \subseteq stored \cap known

\* add_sample
AddSample(s, F) ==
  /\ Idle
  /\ s \notin drawn
  /\ Checked(F)
  /\ drawn' = drawn \cup {s}
  /\ filesOf' = [filesOf EXCEPT ![s] = F]
  /\ job' = NewJob("add", s, F)
  /\ UNCHANGED <<stored, tag, samples, training, uploading, known, removed, condemned, faults>>

\* delete_sample
DeleteSample(s) ==
  /\ Idle
  /\ s \in samples
  /\ condemned' = condemned \cup {s}
  /\ job' = NewJob("delete", s, filesOf[s])
  /\ UNCHANGED <<store, training, ids, removed, faults>>

\* get_object_tags
ReadTag(f) ==
  /\ ~Idle
  /\ job.file = Nothing /\ f \in job.todo
  /\ f \in stored
  /\ job' = [job EXCEPT !.file = f, !.ref = RefOf(tag[f])]
  /\ UNCHANGED <<store, training, ids, removed, condemned, faults>>

BugNewRef(op, ref) == IF op = "add" THEN 1 ELSE 0  \* Mutant: a flag instead of a count.

BugKeptRef(op, ref) == IF op = "add" THEN ref + 1 ELSE ref  \* Mutant: no demotion.

BugSignedRef(op, ref) == IF op = "add" THEN ref + 1 ELSE ref - 1  \* Mutant: no max.

NewRef(op, ref) ==
  IF op = "add" THEN ref + 1 ELSE IF ref = 0 THEN 0 ELSE ref - 1

\* put_object_tags
WriteTag ==
  /\ ~Idle
  /\ job.file # Nothing
  /\ job.file \in stored
  /\ tag' = [tag EXCEPT ![job.file] = NewRef(job.op, job.ref)]
  /\ job' = [job EXCEPT !.file = Nothing, !.todo = @ \ {job.file}]
  /\ UNCHANGED <<stored, samples, filesOf, training, ids, removed, condemned, faults>>

BugReady == job.file = Nothing  \* Mutant: the manifest is put first.

Ready == job.file = Nothing /\ job.todo = {}

\* The manifest is put, or deleted, when all files have been visited.
Finish ==
  /\ ~Idle
  /\ Ready
  /\ samples' = IF job.op = "add" THEN samples \cup {job.sample} ELSE samples \ {job.sample}
  /\ job' = Nothing
  /\ UNCHANGED <<stored, tag, filesOf, training, ids, removed, condemned, faults>>

\* Nothing is taken back when a request ends early.
GiveUp ==
  LET visited == filesOf[job.sample] \ job.todo
  IN  /\ job' = Nothing
      /\ IF job.op = "add"
         THEN overcounted' = overcounted \cup visited /\ UNCHANGED undercounted
         ELSE undercounted' = undercounted \cup visited /\ UNCHANGED overcounted
      /\ UNCHANGED <<store, training, ids, removed, condemned>>

\* The storage raises NoSuchKey for the tags of a file that is gone.
MissesFile ==
  /\ ~Idle
  /\ IF job.file = Nothing THEN job.todo \ stored # {} ELSE job.file \notin stored
  /\ GiveUp

Fails ==
  /\ "failure" \in Allowed
  /\ ~Idle
  /\ GiveUp

-----------------------------------------------------------------------------
(* Trainings *)

\* How a training ended is left out; the directory of its TempStore goes with it.
EndTraining(t) == training' = [training EXCEPT ![t] = AtRest("over")]

\* A file is not where the training looks for it.
Misses(t) == training' = [training EXCEPT ![t] = AtRest("no_file")]

Wanted(S) == UNION {filesOf[s] : s \in S}

\* The checks of train_algorithm, in a thread of their own; then the task waits.
AcceptTraining(t, S) ==
  /\ training[t].at = "new"
  /\ S \subseteq samples
  /\ \A s \in S : filesOf[s] \subseteq stored
  /\ training' = [training EXCEPT ![t].at = "accepted", ![t].samples = S]
  /\ UNCHANGED <<store, job, ids, removed, condemned, faults>>

\* get_training_dataset, in a worker, loads the manifests again.
LoadDataset(t) ==
  LET S == training[t].samples
  IN  /\ training[t].at = "accepted"
      /\ IF S \subseteq samples
         THEN training' = [training EXCEPT ![t].at = "download",
                                           ![t].todo = Wanted(S)]
         ELSE EndTraining(t)
      /\ UNCHANGED <<store, job, ids, removed, condemned, faults>>

\* TrainingDataset wants the same keys in all samples, which train_algorithm did not ask
\* for; the keys themselves are left out.
RefuseDataset(t) ==
  /\ training[t].at = "accepted"
  /\ training[t].samples \subseteq samples /\ Cardinality(training[t].samples) > 1
  /\ EndTraining(t)
  /\ UNCHANGED <<store, job, ids, removed, condemned, faults>>

\* download_files_to_temp_store, or fetch_data by the algorithm: the files come into memory first.
Fetch(t, f) ==
  /\ training[t].at = "download" /\ f \in training[t].todo
  /\ IF f \in stored
     THEN training' = [training EXCEPT ![t].todo = @ \ {f}, ![t].held = @ \cup {f}]
     ELSE Misses(t)
  /\ UNCHANGED <<store, job, ids, removed, condemned, faults>>

\* TempStore.save gives each file a name of its own and moves it there when it is whole.
Saved(local, held) == local \cup held

\* The end of a batch, or save_training_files_to_temp_store.
Save(t) ==
  /\ training[t].at = "download" /\ training[t].held # {}
  /\ training' = [training EXCEPT ![t].local = Saved(@, training[t].held), ![t].held = {}]
  /\ UNCHANGED <<store, job, ids, removed, condemned, faults>>

\* load_dataset_from_temp_store; a file that is not there raises.
Train(t) ==
  /\ training[t].at = "download" /\ training[t].todo = {} /\ training[t].held = {}
  /\ IF Wanted(training[t].samples) \subseteq training[t].local THEN EndTraining(t) ELSE Misses(t)
  /\ UNCHANGED <<store, job, ids, removed, condemned, faults>>

\* The disk is full, the training is stopped, the worker dies.
Abort(t) ==
  /\ "failure" \in Allowed
  /\ training[t].at \in {"accepted", "download"}
  /\ EndTraining(t)
  /\ UNCHANGED <<store, job, ids, removed, condemned, faults>>

-----------------------------------------------------------------------------

Init ==
  /\ stored = {} /\ tag = [f \in Files |-> Untagged]
  /\ samples = {} /\ filesOf = [s \in Samples |-> {}]
  /\ job = Nothing
  /\ training = [t \in Trainings |-> AtRest("new")]
  /\ drawn = {} /\ uploading = {} /\ known = {}
  /\ removed = {} /\ condemned = {} /\ overcounted = {} /\ undercounted = {}

FileStep(f) ==
  \/ PutFile(f)
  \/ TagFile(f)
  \/ TagFileFails(f)
  \/ PutByUrl(f)
  \/ Expire(f)
  \/ DeleteFile(f)

\* What the server does to a sample once it has begun.
Proceed ==
  \/ \E f \in Files : ReadTag(f)
  \/ WriteTag
  \/ Finish
  \/ MissesFile

SampleStep ==
  \/ \E s \in Samples, F \in SUBSET Files : AddSample(s, F)
  \/ \E s \in Samples : DeleteSample(s)
  \/ Proceed
  \/ Fails

TrainingStep(t) ==
  \/ \E S \in SUBSET Samples \ {{}} : AcceptTraining(t, S)
  \/ LoadDataset(t)
  \/ RefuseDataset(t)
  \/ \E f \in Files : Fetch(t, f)
  \/ Save(t)
  \/ Train(t)
  \/ Abort(t)

Next ==
  \/ \E f \in Files : FileStep(f)
  \/ SampleStep
  \/ \E t \in Trainings : TrainingStep(t)

\* The server goes on with what it has begun, and the storage keeps to its rule.
Fairness ==
  /\ WF_vars(Proceed)
  /\ \A f \in Files : WF_vars(TagFile(f)) /\ WF_vars(Expire(f))

Spec == Init /\ [][Next]_vars /\ Fairness

-----------------------------------------------------------------------------
(* Properties *)

TypeOK ==
  /\ stored \subseteq Files /\ tag \in [Files -> Nat \cup {Untagged}]
  /\ samples \subseteq drawn /\ filesOf \in [Samples -> SUBSET Files]
  /\ job \in Job \cup {Nothing}
  /\ training \in [Trainings -> Training]
  /\ drawn \subseteq Samples /\ uploading \subseteq Files /\ known \subseteq Files
  /\ removed \subseteq Files /\ condemned \subseteq Samples
  /\ overcounted \subseteq Files /\ undercounted \subseteq Files

\* The samples that name f.
Users(f) == {s \in samples : f \in filesOf[s]}

\* The request in progress has counted f for its sample already.
Visited(op, f) == ~Idle /\ job.op = op /\ f \in filesOf[job.sample] \ job.todo

\* The tag of a file is the number of samples that name it, the request in progress
\* counted as far as it got. The tags are read and written one by one while files
\* expire and are deleted; only a request that was given up and a file put anew leave a
\* wrong count, and only to the files they touched.
TagsCountSamples ==
  \A f \in stored \ (overcounted \cup undercounted) :
    IF Visited("delete", f) THEN RefOf(tag[f]) + 1 = Cardinality(Users(f))
    ELSE RefOf(tag[f]) = Cardinality(Users(f)) + (IF Visited("add", f) THEN 1 ELSE 0)

\* An addition that is given up makes tags too large, never too small: the files of a
\* sample stay, unless a client deletes or replaces them, as long as no deletion of a
\* sample is given up.
SampleKeepsFiles ==
  \A s \in samples :
    (~Idle /\ job.sample = s) \/ filesOf[s] \subseteq stored \cup removed \cup undercounted

\* docs: "Files referenced by sample do not expire as long as the sample exists." The
\* samples a client has asked to delete and the files it has deleted do not count.
SampleFilesDoNotExpire ==
  \A s \in samples \ condemned : filesOf[s] \subseteq stored \cup removed

\* When a sample appears its files are all there and none of them may expire, whatever
\* other requests left half done before.
NewSampleIsWhole ==
  [][\A s \in samples' \ samples : \A f \in filesOf'[s] : f \in stored' /\ tag'[f] # 0]_vars

\* A training that was accepted misses a file only if a client deleted or replaced the
\* file, or asked to delete a sample. Once it has downloaded them it has a copy of each,
\* whatever becomes of the files and of the samples.
TrainingFindsItsFiles ==
  [][\A t \in Trainings : training[t].at # "no_file" /\ training'[t].at = "no_file" =>
       /\ training[t].todo # {}
       /\ \/ training[t].samples \cap condemned # {}
          \/ training[t].todo \cap (removed \cup undercounted) # {}]_vars

\* A file that no sample uses is reclaimed in the end, if it has a tag and no request
\* that was given up has counted it.
UnusedFilesExpire ==
  \A f \in Files :
    f \in stored ~>
      f \notin stored \/ Users(f) # {} \/ f \in overcounted \/ (tag[f] = Untagged /\ f \notin uploading)
=============================================================================
