------------------------ MODULE TrainingSamples_proofs ------------------------
(***************************************************************************)
(* Proofs about files, samples and trainings.  Everything rests on the     *)
(* count: CountInv says what the tag of a file is worth at every point of  *)
(* a request, and the rest says who may rely on it.                        *)
(***************************************************************************)
EXTENDS TrainingSamples, FiniteSetTheorems, TLAPS

\* Only a file that is stored has tags, and one being put has none yet.
FilesInv ==
  \A f \in Files :
    /\ f \notin stored => tag[f] = Untagged
    /\ f \in uploading => f \in stored \ known /\ tag[f] = Untagged

NamesInv == \A s \in Samples : filesOf[s] \subseteq known

\* The request in progress: what it works on, and what it has read.
JobInv ==
  ~Idle =>
    /\ job.todo \subseteq filesOf[job.sample]
    /\ job.file # Nothing => job.file \in job.todo
    /\ job.op = "add" => job.sample \in drawn \ samples
    /\ job.op = "delete" => job.sample \in samples \cap condemned
    /\ job.file \in stored \ undercounted => job.ref = RefOf(tag[job.file])
    /\ job.op = "add" => \A f \in filesOf[job.sample] \ job.todo : f \in stored /\ tag[f] # 0

Count(f) == RefOf(tag[f]) + (IF Visited("delete", f) THEN 1 ELSE 0)

Due(f) == Cardinality(Users(f)) + (IF Visited("add", f) THEN 1 ELSE 0)

\* A file is never counted for less than it is due, and exactly unless an addition was
\* given up.
CountInv ==
  \A f \in stored \ undercounted :
    Count(f) >= Due(f) /\ (f \notin overcounted => Count(f) = Due(f))

\* The files of a sample are there, but those that its own deletion has visited.
KeepInv ==
  \A s \in samples : \A f \in filesOf[s] :
    f \in stored \cup removed \cup undercounted \/ (Visited("delete", f) /\ job.sample = s)

TrainingInv(t) ==
  training[t].at \in {"accepted", "download"} =>
    /\ training[t].samples \subseteq drawn
    /\ training[t].samples \ condemned \subseteq samples
    /\ training[t].at = "download" =>
         /\ training[t].todo \subseteq Wanted(training[t].samples)
         /\ Wanted(training[t].samples) \subseteq
              training[t].todo \cup training[t].held \cup training[t].local

TrainingsInv == \A t \in Trainings : TrainingInv(t)

Inv ==
  /\ TypeOK
  /\ FilesInv /\ NamesInv /\ JobInv
  /\ CountInv /\ KeepInv /\ TrainingsInv

\* What a step on one file leaves alone.
samplesAndJobs == <<samples, filesOf, job, training, drawn, condemned>>

-----------------------------------------------------------------------------
(* Counts *)

LEMMA UsersType ==
  ASSUME TypeOK, NEW f
  PROVE  /\ IsFiniteSet(Users(f)) /\ Cardinality(Users(f)) \in Nat
         /\ \A s \in Users(f) : Cardinality(Users(f)) >= 1
         /\ \A s, r \in Users(f) : s # r => Cardinality(Users(f)) >= 2
<1>1. IsFiniteSet(Users(f))
  <2>1. Users(f) \subseteq Samples
    BY DEF Users, TypeOK
  <2> QED BY <2>1, ConstantsAssumption, FS_Subset
<1>2. Cardinality(Users(f)) \in Nat
  BY <1>1, FS_CardinalityType
<1>3. ASSUME NEW s \in Users(f)
      PROVE  /\ Cardinality(Users(f)) >= 1
             /\ IsFiniteSet(Users(f) \ {s})
             /\ Cardinality(Users(f) \ {s}) = Cardinality(Users(f)) - 1
             /\ Cardinality(Users(f) \ {s}) \in Nat
  <2>1. /\ IsFiniteSet(Users(f) \ {s})
        /\ Cardinality(Users(f) \ {s}) = Cardinality(Users(f)) - 1
    BY <1>1, FS_RemoveElement
  <2>2. Cardinality(Users(f) \ {s}) \in Nat
    BY <2>1, FS_CardinalityType
  <2> QED BY <1>2, <2>1, <2>2
<1>4. ASSUME NEW s \in Users(f), NEW r \in Users(f), s # r
      PROVE  Cardinality(Users(f)) >= 2
  <2>1. r \in Users(f) \ {s}
    BY <1>4
  <2>2. IsFiniteSet(Users(f) \ {s})
    BY <1>3
  <2>3. Cardinality((Users(f) \ {s}) \ {r}) = Cardinality(Users(f) \ {s}) - 1
        /\ IsFiniteSet((Users(f) \ {s}) \ {r})
    BY <2>1, <2>2, FS_RemoveElement
  <2>4. Cardinality((Users(f) \ {s}) \ {r}) \in Nat
    BY <2>3, FS_CardinalityType
  <2>5. Cardinality(Users(f) \ {s}) = Cardinality(Users(f)) - 1
    BY <1>3
  <2> QED BY <1>2, <2>3, <2>4, <2>5
<1> QED BY <1>1, <1>2, <1>3, <1>4

LEMMA RefType ==
  ASSUME NEW t \in Nat \cup {Untagged}
  PROVE  /\ RefOf(t) \in Nat /\ RefOf(RefOf(t)) = RefOf(t)
         /\ RefOf(Untagged) = 0 /\ Untagged # 0
BY ConstantsAssumption DEF RefOf

LEMMA CountType ==
  ASSUME TypeOK, NEW f \in Files
  PROVE  RefOf(tag[f]) \in Nat /\ Count(f) \in Nat /\ Due(f) \in Nat
<1>1. RefOf(tag[f]) \in Nat
  BY RefType DEF TypeOK
<1> QED BY <1>1, UsersType DEF Count, Due

\* A file keeps its count as long as its reference count and the samples do not change.
LEMMA CountStays ==
  ASSUME NEW f, UNCHANGED samplesAndJobs, RefOf(tag'[f]) = RefOf(tag[f])
  PROVE  Count(f)' = Count(f) /\ Due(f)' = Due(f)
BY DEF Count, Due, Visited, Users, Idle, samplesAndJobs

\* A file that no client knows is in no sample.
LEMMA UnknownFile ==
  ASSUME Inv, NEW f \in Files \ known
  PROVE  /\ \A s \in Samples : f \notin filesOf[s]
         /\ ~ Visited("add", f) /\ ~ Visited("delete", f) /\ Users(f) = {}
         /\ ~Idle => f \notin job.todo /\ f \notin filesOf[job.sample]
<1>1. \A s \in Samples : f \notin filesOf[s]
  BY DEF Inv, NamesInv
<1>2. Users(f) = {}
  BY <1>1 DEF Users, Inv, TypeOK
<1>3. ~Idle => f \notin filesOf[job.sample] /\ f \notin job.todo
  BY <1>1 DEF Inv, TypeOK, JobInv, Idle, Job
<1> QED BY <1>1, <1>2, <1>3 DEF Visited

LEMMA JobType ==
  ASSUME TypeOK, ~Idle
  PROVE  /\ job \in Job /\ job.sample \in Samples /\ job.op \in {"add", "delete"}
         /\ job.ref \in Nat /\ job.todo \subseteq Files
         /\ job.file # Nothing => job.file \in Files
BY DEF TypeOK, Idle, Job

\* What the steps on files keep of samples and trainings.
LEMMA FileFrame ==
  ASSUME Inv, UNCHANGED samplesAndJobs, known \subseteq known'
  PROVE  NamesInv' /\ TrainingsInv'
<1>1. NamesInv'
  BY DEF Inv, NamesInv, samplesAndJobs
<1>2. TrainingsInv'
  BY DEF Inv, TrainingsInv, TrainingInv, Wanted, samplesAndJobs
<1> QED BY <1>1, <1>2

\* What the steps on files keep of the request in progress.
LEMMA JobFrame ==
  ASSUME Inv, UNCHANGED samplesAndJobs, stored' \subseteq Files,
         ~Idle => \A g \in filesOf[job.sample] :
           /\ g \in stored' \ undercounted' =>
                g \in stored \ undercounted /\ RefOf(tag'[g]) = RefOf(tag[g])
           /\ job.op = "add" /\ g \notin job.todo => g \in stored' /\ tag'[g] # 0
  PROVE  JobInv'
<1>1. ASSUME ~Idle, job.file \in stored' \ undercounted'
      PROVE  job.ref = RefOf(tag'[job.file])
  <2>1. job.file # Nothing
    BY <1>1, NothingAssumption
  <2>2. job.file \in filesOf[job.sample]
    BY <1>1, <2>1 DEF Inv, JobInv
  <2> QED BY <1>1, <2>2 DEF Inv, JobInv
<1>2. ASSUME ~Idle, job.op = "add", NEW g \in filesOf[job.sample] \ job.todo
      PROVE  g \in stored' /\ tag'[g] # 0
  BY <1>2
<1> QED BY <1>1, <1>2 DEF Inv, JobInv, Idle, samplesAndJobs

-----------------------------------------------------------------------------
(* Steps on files *)

\* A file that nobody knew is put: it is worth nothing, and nobody uses it.
LEMMA NewFileCount ==
  ASSUME Inv, NEW f \in Files \ known, f \notin stored, UNCHANGED samplesAndJobs,
         stored' = stored \cup {f}, tag' = tag \/ tag' = [tag EXCEPT ![f] = Untagged],
         UNCHANGED <<overcounted, undercounted>>
  PROVE  CountInv' /\ tag' = tag
<1>1. tag[f] = Untagged
  BY DEF Inv, FilesInv
<1>2. tag' = tag
  BY <1>1 DEF Inv, TypeOK
<1>3. Count(f) = 0 /\ Due(f) = 0
  <2>1. RefOf(tag[f]) = 0
    BY <1>1 DEF RefOf
  <2>2. Cardinality(Users(f)) = 0
    BY UnknownFile, FS_EmptySet
  <2> QED BY <2>1, <2>2, UnknownFile DEF Count, Due
<1>4. ASSUME NEW g \in stored' \ undercounted'
      PROVE  Count(g)' >= Due(g)' /\ (g \notin overcounted' => Count(g)' = Due(g)')
  <2>1. Count(g)' = Count(g) /\ Due(g)' = Due(g)
    BY <1>2, CountStays
  <2> QED BY <1>3, <1>4, <2>1 DEF Inv, CountInv
<1> QED BY <1>2, <1>4 DEF CountInv

LEMMA PutFileKeeps == ASSUME Inv, NEW f \in Files, PutFile(f) PROVE Inv'
<1>1. /\ f \in Files \ known /\ f \notin stored /\ stored' = stored \cup {f}
      /\ uploading' = uploading \cup {f} /\ UNCHANGED samplesAndJobs
      /\ UNCHANGED <<tag, known, removed, overcounted, undercounted>>
  BY DEF PutFile, samplesAndJobs, faults
<1>2. TypeOK'
  BY <1>1 DEF Inv, TypeOK, samplesAndJobs
<1>3. CountInv'
  BY <1>1, NewFileCount
<1>4. NamesInv' /\ TrainingsInv'
  BY <1>1, FileFrame
<1>5. FilesInv'
  BY <1>1 DEF Inv, FilesInv
<1>6. JobInv'
  <2>1. ~Idle => f \notin filesOf[job.sample]
    BY <1>1, UnknownFile
  <2>2. ~Idle => \A g \in filesOf[job.sample] :
          /\ g \in stored' \ undercounted' =>
               g \in stored \ undercounted /\ RefOf(tag'[g]) = RefOf(tag[g])
          /\ job.op = "add" /\ g \notin job.todo => g \in stored' /\ tag'[g] # 0
    BY <1>1, <2>1 DEF Inv, JobInv
  <2>3. stored' \subseteq Files
    BY <1>2 DEF TypeOK
  <2> QED BY <1>1, <2>2, <2>3, JobFrame
<1>7. KeepInv'
  BY <1>1 DEF Inv, KeepInv, Visited, Idle, samplesAndJobs
<1> QED BY <1>2, <1>3, <1>4, <1>5, <1>6, <1>7 DEF Inv

LEMMA TagFileKeeps == ASSUME Inv, NEW f \in Files, TagFile(f) PROVE Inv'
<1>1. /\ f \in uploading /\ tag' = [tag EXCEPT ![f] = RefOf(tag[f])]
      /\ uploading' = uploading \ {f} /\ known' = known \cup {f} /\ UNCHANGED samplesAndJobs
      /\ UNCHANGED <<stored, removed, overcounted, undercounted>>
  BY DEF TagFile, samplesAndJobs, faults
<1>2. f \in stored \ known /\ tag[f] = Untagged
  BY <1>1 DEF Inv, FilesInv
<1>3. \A g \in Files : g # f => tag'[g] = tag[g]
  BY <1>1 DEF Inv, TypeOK
<1>4. \A g \in Files : RefOf(tag'[g]) = RefOf(tag[g]) /\ tag'[g] \in Nat \cup {Untagged}
  BY <1>1, RefType DEF Inv, TypeOK
<1>5. TypeOK'
  BY <1>1, <1>4 DEF Inv, TypeOK, samplesAndJobs
<1>6. CountInv'
  <2>1. ASSUME NEW g \in stored' \ undercounted'
        PROVE  Count(g)' >= Due(g)' /\ (g \notin overcounted' => Count(g)' = Due(g)')
    <3>1. g \in Files /\ Count(g)' = Count(g) /\ Due(g)' = Due(g)
      BY <1>1, <1>4, CountStays DEF Inv, TypeOK
    <3> QED BY <1>1, <2>1, <3>1 DEF Inv, CountInv
  <2> QED BY <2>1 DEF CountInv
<1>7. NamesInv' /\ TrainingsInv'
  BY <1>1, FileFrame
<1>8. FilesInv'
  BY <1>1, <1>2, <1>3 DEF Inv, FilesInv
<1>9. JobInv'
  <2>1. ~Idle => f \notin job.todo /\ f \notin filesOf[job.sample]
    BY <1>2, UnknownFile
  <2>2. ~Idle => filesOf[job.sample] \subseteq Files
    BY JobType DEF Inv, TypeOK
  <2>3. ~Idle => \A g \in filesOf[job.sample] :
          /\ g \in stored' \ undercounted' =>
               g \in stored \ undercounted /\ RefOf(tag'[g]) = RefOf(tag[g])
          /\ job.op = "add" /\ g \notin job.todo => g \in stored' /\ tag'[g] # 0
    BY <1>1, <1>3, <2>1, <2>2 DEF Inv, JobInv
  <2>4. stored' \subseteq Files
    BY <1>5 DEF TypeOK
  <2> QED BY <1>1, <2>3, <2>4, JobFrame
<1>10. KeepInv'
  BY <1>1 DEF Inv, KeepInv, Visited, Idle, samplesAndJobs
<1> QED BY <1>5, <1>6, <1>7, <1>8, <1>9, <1>10 DEF Inv

LEMMA TagFileFailsKeeps == ASSUME Inv, NEW f \in Files, TagFileFails(f) PROVE Inv'
<1>1. /\ uploading' = uploading \ {f} /\ UNCHANGED samplesAndJobs
      /\ UNCHANGED <<stored, tag, known, removed, overcounted, undercounted>>
  BY DEF TagFileFails, samplesAndJobs, store, faults
<1>2. TypeOK' /\ FilesInv'
  BY <1>1 DEF Inv, TypeOK, FilesInv, samplesAndJobs
<1>3. CountInv'
  BY <1>1 DEF Inv, CountInv, Count, Due, Visited, Users, Idle, samplesAndJobs
<1>4. NamesInv' /\ TrainingsInv'
  BY <1>1, FileFrame
<1>5. JobInv' /\ KeepInv'
  BY <1>1 DEF Inv, JobInv, KeepInv, Visited, Idle, samplesAndJobs
<1> QED BY <1>2, <1>3, <1>4, <1>5 DEF Inv

LEMMA PutByUrlKeeps == ASSUME Inv, NEW f \in Files, PutByUrl(f) PROVE Inv'
<1>1. /\ f \in stored => f \in known
      /\ stored' = stored \cup {f} /\ tag' = [tag EXCEPT ![f] = Untagged]
      /\ undercounted' = IF f \in known THEN undercounted \cup {f} ELSE undercounted
      /\ known' = known \cup {f} /\ UNCHANGED samplesAndJobs
      /\ UNCHANGED <<uploading, removed, overcounted>>
  BY DEF PutByUrl, samplesAndJobs
<1>2. f \notin uploading
  BY <1>1 DEF Inv, FilesInv
<1>3. tag'[f] = Untagged /\ \A g \in Files : g # f => tag'[g] = tag[g]
  BY <1>1 DEF Inv, TypeOK
<1>4. TypeOK'
  BY <1>1 DEF Inv, TypeOK, samplesAndJobs
<1>5. CountInv'
  <2>1. CASE f \notin known
    BY <1>1, <2>1, NewFileCount
  <2>2. CASE f \in known
    <3>1. ASSUME NEW g \in stored' \ undercounted'
          PROVE  Count(g)' >= Due(g)' /\ (g \notin overcounted' => Count(g)' = Due(g)')
      <4>1. g \in stored \ undercounted /\ g # f /\ g \in Files
        BY <1>1, <2>2, <3>1 DEF Inv, TypeOK
      <4>2. Count(g)' = Count(g) /\ Due(g)' = Due(g)
        BY <1>1, <1>3, <4>1, CountStays
      <4> QED BY <1>1, <4>1, <4>2 DEF Inv, CountInv
    <3> QED BY <3>1 DEF CountInv
  <2> QED BY <2>1, <2>2
<1>6. NamesInv' /\ TrainingsInv'
  BY <1>1, FileFrame
<1>7. FilesInv'
  BY <1>1, <1>2, <1>3 DEF Inv, FilesInv
<1>8. JobInv'
  <2>1. ~Idle /\ f \notin known => f \notin job.todo /\ f \notin filesOf[job.sample]
    BY UnknownFile
  <2>2. ~Idle => filesOf[job.sample] \subseteq Files /\ job.todo \subseteq Files
    BY JobType DEF Inv, TypeOK
  <2>3. Untagged # 0
    BY ConstantsAssumption
  <2>4. ~Idle => \A g \in filesOf[job.sample] :
          /\ g \in stored' \ undercounted' =>
               g \in stored \ undercounted /\ RefOf(tag'[g]) = RefOf(tag[g])
          /\ job.op = "add" /\ g \notin job.todo => g \in stored' /\ tag'[g] # 0
    BY <1>1, <1>3, <2>1, <2>2, <2>3 DEF Inv, JobInv
  <2>5. stored' \subseteq Files
    BY <1>4 DEF TypeOK
  <2> QED BY <1>1, <2>4, <2>5, JobFrame
<1>9. KeepInv'
  BY <1>1 DEF Inv, KeepInv, Visited, Idle, samplesAndJobs
<1> QED BY <1>4, <1>5, <1>6, <1>7, <1>8, <1>9 DEF Inv

\* A file leaves the storage.
LEMMA EraseKeeps ==
  ASSUME Inv, NEW f \in Files, Erase(f), UNCHANGED samplesAndJobs,
         UNCHANGED <<uploading, known, overcounted, undercounted>>, removed \subseteq removed',
         removed' \subseteq Files, f \notin uploading,
         ~Idle /\ job.op = "add" => f \notin filesOf[job.sample] \ job.todo,
         KeepInv'
  PROVE  Inv'
<1>1. /\ stored' = stored \ {f} /\ tag' = [tag EXCEPT ![f] = Untagged]
      /\ tag'[f] = Untagged /\ \A g \in Files : g # f => tag'[g] = tag[g]
  BY DEF Erase, Inv, TypeOK
<1>2. TypeOK'
  BY <1>1 DEF Inv, TypeOK, samplesAndJobs
<1>3. CountInv'
  <2>1. ASSUME NEW g \in stored' \ undercounted'
        PROVE  Count(g)' >= Due(g)' /\ (g \notin overcounted' => Count(g)' = Due(g)')
    <3>1. g \in stored \ undercounted /\ g # f /\ g \in Files
      BY <1>1, <2>1 DEF Inv, TypeOK
    <3>2. Count(g)' = Count(g) /\ Due(g)' = Due(g)
      BY <1>1, <3>1, CountStays
    <3> QED BY <3>1, <3>2 DEF Inv, CountInv
  <2> QED BY <2>1 DEF CountInv
<1>4. NamesInv' /\ TrainingsInv'
  BY FileFrame
<1>5. FilesInv'
  BY <1>1 DEF Inv, FilesInv
<1>6. JobInv'
  <2>1. ~Idle => filesOf[job.sample] \subseteq Files
    BY JobType DEF Inv, TypeOK
  <2>2. stored \subseteq Files
    BY DEF Inv, TypeOK
  <2> QED BY <1>1, <2>1, <2>2 DEF Inv, JobInv, Idle, samplesAndJobs
<1> QED BY <1>2, <1>3, <1>4, <1>5, <1>6 DEF Inv

LEMMA ExpireKeeps == ASSUME Inv, NEW f \in Files, Expire(f) PROVE Inv'
<1>1. /\ f \in stored /\ tag[f] = 0 /\ Erase(f) /\ UNCHANGED samplesAndJobs
      /\ UNCHANGED <<uploading, known, removed, overcounted, undercounted>>
  BY DEF Expire, MayExpire, samplesAndJobs, ids, faults
<1>2. f \notin uploading
  BY <1>1, ConstantsAssumption DEF Inv, FilesInv
<1>3. ~Idle /\ job.op = "add" => f \notin filesOf[job.sample] \ job.todo
  BY <1>1 DEF Inv, JobInv
<1>4. ASSUME NEW s \in samples, f \in filesOf[s], f \notin undercounted
      PROVE  Visited("delete", f) /\ job.sample = s
  <2>1. RefOf(tag[f]) = 0
    BY <1>1, ConstantsAssumption DEF RefOf
  <2>2. Count(f) >= Due(f) /\ Due(f) >= Cardinality(Users(f)) /\ Due(f) \in Nat
    <3>1. Count(f) >= Due(f)
      BY <1>1, <1>4 DEF Inv, CountInv
    <3>2. Due(f) >= Cardinality(Users(f)) /\ Due(f) \in Nat
      BY UsersType DEF Inv, Due
    <3> QED BY <3>1, <3>2
  <2>3. s \in Users(f)
    BY <1>4 DEF Users
  <2>4. Visited("delete", f)
    <3> SUFFICES ASSUME ~ Visited("delete", f) PROVE FALSE
      OBVIOUS
    <3>1. Count(f) = 0
      BY <2>1 DEF Count
    <3> QED BY <2>2, <2>3, <3>1, UsersType DEF Inv
  <2>5. job.sample = s
    <3> SUFFICES ASSUME job.sample # s PROVE FALSE
      OBVIOUS
    <3>1. job.sample \in Users(f)
      BY <2>4 DEF Visited, Users, Inv, JobInv
    <3>2. Cardinality(Users(f)) >= 2 /\ Cardinality(Users(f)) \in Nat
      BY <2>3, <3>1, UsersType DEF Inv
    <3>3. Count(f) = 1
      BY <2>1, <2>4 DEF Count
    <3> QED BY <2>2, <3>2, <3>3
  <2> QED BY <2>4, <2>5
<1>5. KeepInv'
  <2>1. ASSUME NEW s \in samples, NEW g \in filesOf[s]
        PROVE  g \in stored' \cup removed' \cup undercounted'
                 \/ (Visited("delete", g) /\ job.sample = s)
    <3>1. g \in stored \cup removed \cup undercounted \/ (Visited("delete", g) /\ job.sample = s)
      BY <2>1 DEF Inv, KeepInv
    <3>2. stored' = stored \ {f}
      BY <1>1 DEF Erase
    <3> QED BY <1>1, <1>4, <3>1, <3>2
  <2> QED BY <1>1, <2>1 DEF KeepInv, Visited, Idle, samplesAndJobs
<1>6. removed' \subseteq Files
  BY <1>1 DEF Inv, TypeOK
<1> QED BY <1>1, <1>2, <1>3, <1>5, <1>6, EraseKeeps

LEMMA DeleteFileKeeps == ASSUME Inv, NEW f \in Files, DeleteFile(f) PROVE Inv'
<1>1. /\ Idle /\ f \in known /\ Erase(f) /\ UNCHANGED samplesAndJobs
      /\ removed' = removed \cup {f}
      /\ UNCHANGED <<uploading, known, overcounted, undercounted>>
  BY DEF DeleteFile, samplesAndJobs, ids, faults
<1>2. f \notin uploading
  BY <1>1 DEF Inv, FilesInv
<1>3. KeepInv'
  BY <1>1 DEF Inv, KeepInv, Visited, Idle, samplesAndJobs, Erase
<1>4. removed' \subseteq Files
  BY <1>1 DEF Inv, TypeOK
<1> QED BY <1>1, <1>2, <1>3, <1>4, EraseKeeps

-----------------------------------------------------------------------------
(* Steps on samples *)

LEMMA AddSampleKeeps ==
  ASSUME Inv, NEW s \in Samples, NEW F \in SUBSET Files, AddSample(s, F)
  PROVE  Inv'
<1>1. /\ Idle /\ s \notin drawn /\ F \subseteq known
      /\ drawn' = drawn \cup {s} /\ filesOf' = [filesOf EXCEPT ![s] = F]
      /\ job' = NewJob("add", s, F)
      /\ UNCHANGED <<stored, tag, samples, training, uploading, known, removed, condemned,
                     overcounted, undercounted>>
  BY DEF AddSample, Checked, faults
<1>2. /\ job' \in Job /\ job' # Nothing /\ job'.op = "add" /\ job'.sample = s
      /\ job'.todo = F /\ job'.file = Nothing
  BY <1>1, NothingAssumption DEF NewJob, Job
<1>3. /\ filesOf' \in [Samples -> SUBSET Files] /\ filesOf'[s] = F
      /\ \A r \in Samples : r # s => filesOf'[r] = filesOf[r]
  BY <1>1 DEF Inv, TypeOK
<1>4. \A r \in drawn : filesOf'[r] = filesOf[r]
  BY <1>1, <1>3 DEF Inv, TypeOK
<1>5. TypeOK'
  BY <1>1, <1>2, <1>3 DEF Inv, TypeOK
<1>6. FilesInv' /\ NamesInv'
  BY <1>1, <1>3 DEF Inv, FilesInv, NamesInv
<1>7. JobInv'
  <2>1. Nothing \notin stored
    BY NothingAssumption DEF Inv, TypeOK
  <2> QED BY <1>1, <1>2, <1>3, <2>1 DEF JobInv, Inv, TypeOK
<1>8. \A op, f : ~ Visited(op, f) /\ ~ Visited(op, f)'
  BY <1>1, <1>2, <1>3 DEF Visited, Idle
<1>9. CountInv'
  <2>1. ASSUME NEW f PROVE Count(f)' = Count(f) /\ Due(f)' = Due(f)
    <3>1. Users(f)' = Users(f)
      BY <1>1, <1>4 DEF Users, Inv, TypeOK
    <3> QED BY <1>1, <1>8, <3>1 DEF Count, Due
  <2> QED BY <1>1, <2>1 DEF Inv, CountInv
<1>10. KeepInv'
  BY <1>1, <1>4, <1>8 DEF Inv, TypeOK, KeepInv
<1>11. TrainingsInv'
  <2>1. ASSUME NEW t \in Trainings
        PROVE  TrainingInv(t)'
    <3>1. training[t].samples \subseteq drawn =>
            Wanted(training[t].samples)' = Wanted(training[t].samples)
      BY <1>1, <1>4 DEF Wanted
    <3> QED BY <1>1, <3>1 DEF Inv, TrainingsInv, TrainingInv
  <2> QED BY <2>1 DEF TrainingsInv
<1> QED BY <1>5, <1>6, <1>7, <1>9, <1>10, <1>11 DEF Inv

LEMMA DeleteSampleKeeps == ASSUME Inv, NEW s \in Samples, DeleteSample(s) PROVE Inv'
<1>1. /\ Idle /\ s \in samples /\ condemned' = condemned \cup {s}
      /\ job' = NewJob("delete", s, filesOf[s])
      /\ UNCHANGED <<stored, tag, samples, filesOf, training, drawn, uploading, known, removed,
                     overcounted, undercounted>>
  BY DEF DeleteSample, store, ids, faults
<1>2. filesOf[s] \subseteq Files
  BY DEF Inv, TypeOK
<1>3. /\ job' \in Job /\ job' # Nothing /\ job'.op = "delete" /\ job'.sample = s
      /\ job'.todo = filesOf[s] /\ job'.file = Nothing
  BY <1>1, <1>2, NothingAssumption DEF NewJob, Job
<1>4. TypeOK'
  BY <1>1, <1>3 DEF Inv, TypeOK
<1>5. FilesInv' /\ NamesInv'
  BY <1>1 DEF Inv, FilesInv, NamesInv
<1>6. JobInv'
  <2>1. Nothing \notin stored
    BY NothingAssumption DEF Inv, TypeOK
  <2> QED BY <1>1, <1>3, <2>1 DEF JobInv
<1>7. \A op, f : ~ Visited(op, f) /\ ~ Visited(op, f)'
  BY <1>1, <1>3 DEF Visited, Idle
<1>8. CountInv'
  BY <1>1, <1>7 DEF Inv, CountInv, Count, Due, Users
<1>9. KeepInv'
  BY <1>1, <1>7 DEF Inv, KeepInv
<1>10. TrainingsInv'
  BY <1>1 DEF Inv, TrainingsInv, TrainingInv, Wanted
<1> QED BY <1>4, <1>5, <1>6, <1>8, <1>9, <1>10 DEF Inv

LEMMA ReadTagKeeps == ASSUME Inv, NEW f \in Files, ReadTag(f) PROVE Inv'
<1>1. /\ ~Idle /\ job.file = Nothing /\ f \in job.todo /\ f \in stored
      /\ job' = [job EXCEPT !.file = f, !.ref = RefOf(tag[f])]
      /\ UNCHANGED <<stored, tag, samples, filesOf, training, drawn, uploading, known, removed,
                     condemned, overcounted, undercounted>>
  BY DEF ReadTag, store, ids, faults
<1>2. RefOf(tag[f]) \in Nat
  BY RefType DEF Inv, TypeOK
<1>3. /\ job' \in Job /\ job'.op = job.op /\ job'.sample = job.sample
      /\ job'.todo = job.todo /\ job'.file = f /\ job'.ref = RefOf(tag[f])
  BY <1>1, <1>2, JobType DEF Inv, Job
<1>4. job' # Nothing
  BY <1>3, NothingAssumption
<1>5. TypeOK'
  BY <1>1, <1>3 DEF Inv, TypeOK
<1>6. FilesInv' /\ NamesInv' /\ TrainingsInv'
  BY <1>1 DEF Inv, FilesInv, NamesInv, TrainingsInv, TrainingInv, Wanted
<1>7. JobInv'
  BY <1>1, <1>3 DEF Inv, JobInv
<1>8. \A op, g : Visited(op, g)' = Visited(op, g)
  BY <1>1, <1>3, <1>4 DEF Visited, Idle
<1>9. CountInv'
  BY <1>1, <1>8 DEF Inv, CountInv, Count, Due, Users
<1>10. KeepInv'
  BY <1>1, <1>3, <1>8 DEF Inv, KeepInv
<1> QED BY <1>5, <1>6, <1>7, <1>9, <1>10 DEF Inv

LEMMA WriteTagKeeps == ASSUME Inv, WriteTag PROVE Inv'
<1> DEFINE s == job.sample
           ref == NewRef(job.op, job.ref)
<1>0. PICK f : f = job.file
  OBVIOUS
<1>1. /\ ~Idle /\ f # Nothing /\ f \in stored
      /\ tag' = [tag EXCEPT ![f] = ref]
      /\ job' = [job EXCEPT !.file = Nothing, !.todo = job.todo \ {f}]
      /\ UNCHANGED <<stored, samples, filesOf, training, drawn, uploading, known, removed,
                     condemned, overcounted, undercounted>>
  BY <1>0 DEF WriteTag, ids, faults
<1>2. /\ job \in Job /\ f \in Files /\ f \in job.todo /\ f \in filesOf[s] /\ s \in Samples
      /\ job.op \in {"add", "delete"} /\ job.ref \in Nat /\ job.todo \subseteq Files
      /\ job.op = "delete" => s \in samples
      /\ f \notin undercounted => job.ref = RefOf(tag[f])
  BY <1>0, <1>1, JobType DEF Inv, JobInv
<1>3. /\ ref \in Nat /\ RefOf(ref) = ref
      /\ job.op = "add" => ref = job.ref + 1 /\ ref # 0
      /\ job.op = "delete" /\ job.ref # 0 => ref = job.ref - 1
  BY <1>2, ConstantsAssumption DEF NewRef, RefOf
<1> HIDE DEF ref
<1>4. /\ job' \in Job /\ job'.op = job.op /\ job'.sample = s
      /\ job'.todo = job.todo \ {f} /\ job'.file = Nothing
  BY <1>1, <1>2 DEF Job
<1>5. job' # Nothing
  BY <1>4, NothingAssumption
<1>6. tag'[f] = ref /\ \A g \in Files : g # f => tag'[g] = tag[g]
  BY <1>1, <1>2 DEF Inv, TypeOK
<1>7. TypeOK'
  <2>1. tag' \in [Files -> Nat \cup {Untagged}]
    BY <1>1, <1>3 DEF Inv, TypeOK
  <2> QED BY <1>1, <1>4, <2>1 DEF Inv, TypeOK
<1>8. f \notin uploading
  BY <1>2 DEF Inv, NamesInv, FilesInv
<1>9. FilesInv'
  BY <1>1, <1>6, <1>8 DEF Inv, FilesInv
<1>10. NamesInv' /\ TrainingsInv'
  BY <1>1 DEF Inv, NamesInv, TrainingsInv, TrainingInv, Wanted
<1>11. JobInv'
  <2>1. Nothing \notin stored
    BY NothingAssumption DEF Inv, TypeOK
  <2>2. filesOf[s] \subseteq Files
    BY <1>2 DEF Inv, TypeOK
  <2>3. ASSUME job.op = "add", NEW g \in filesOf[s] \ (job.todo \ {f})
        PROVE  g \in stored /\ tag'[g] # 0
    <3>1. CASE g = f
      BY <1>1, <1>3, <1>6, <2>3, <3>1
    <3>2. CASE g # f
      BY <1>1, <1>6, <2>2, <2>3, <3>2 DEF Inv, JobInv
    <3> QED BY <3>1, <3>2
  <2> QED BY <1>1, <1>4, <2>1, <2>3 DEF Inv, JobInv
<1>12. /\ \A op, g : g # f => Visited(op, g)' = Visited(op, g)
       /\ \A op : ~ Visited(op, f) /\ (Visited(op, f)' <=> job.op = op)
  BY <1>1, <1>2, <1>4, <1>5 DEF Visited, Idle
<1>13. CountInv'
  <2>1. ASSUME NEW g \in stored' \ undercounted'
        PROVE  Count(g)' >= Due(g)' /\ (g \notin overcounted' => Count(g)' = Due(g)')
    <3>1. Users(g)' = Users(g) /\ g \in Files
      BY <1>1, <2>1 DEF Users, Inv, TypeOK
    <3>2. CASE g # f
      <4>1. Count(g)' = Count(g) /\ Due(g)' = Due(g)
        BY <1>6, <1>12, <3>1, <3>2 DEF Count, Due
      <4> QED BY <1>1, <2>1, <4>1 DEF Inv, CountInv
    <3>3. CASE g = f
      <4>1. /\ Count(f) = job.ref /\ Due(f) = Cardinality(Users(f)) /\ Due(f) \in Nat
            /\ Count(f) >= Due(f) /\ (f \notin overcounted => Count(f) = Due(f))
        <5>1. job.ref = RefOf(tag[f])
          BY <1>1, <1>2, <2>1, <3>3
        <5>2. Count(f) = job.ref /\ Due(f) = Cardinality(Users(f))
          BY <1>2, <1>12, <5>1, UsersType DEF Count, Due, Inv
        <5> QED BY <1>1, <2>1, <3>3, <5>2, UsersType DEF Inv, CountInv
      <4>2. CASE job.op = "add"
        <5>1. Count(f)' = job.ref + 1 /\ Due(f)' = Cardinality(Users(f)) + 1
          BY <1>3, <1>6, <1>12, <3>1, <3>3, <4>2 DEF Count, Due
        <5> QED BY <1>1, <1>2, <3>3, <4>1, <5>1
      <4>3. CASE job.op = "delete"
        <5>1. Cardinality(Users(f)) >= 1
          <6>1. s \in Users(f)
            BY <1>2, <4>3 DEF Users
          <6> QED BY <6>1, UsersType DEF Inv
        <5>2. job.ref # 0 /\ ref = job.ref - 1
          BY <1>2, <1>3, <4>1, <4>3, <5>1
        <5>3. Count(f)' = job.ref /\ Due(f)' = Cardinality(Users(f))
          <6>1. Due(f)' = Cardinality(Users(f)) + 0 /\ Cardinality(Users(f)) \in Nat
            BY <1>12, <3>1, <3>3, <4>3, UsersType DEF Due, Inv
          <6>2. Count(f)' = ref + 1
            BY <1>3, <1>6, <1>12, <4>3 DEF Count
          <6> QED BY <1>2, <5>2, <6>1, <6>2
        <5> QED BY <1>1, <3>3, <4>1, <5>3
      <4> QED BY <1>2, <4>2, <4>3
    <3> QED BY <3>2, <3>3
  <2> QED BY <2>1 DEF CountInv
<1>14. KeepInv'
  <2>1. \A op, g : Visited(op, g) => Visited(op, g)'
    BY <1>12
  <2> QED BY <1>1, <1>4, <2>1 DEF Inv, KeepInv
<1> QED BY <1>7, <1>9, <1>10, <1>11, <1>13, <1>14 DEF Inv

LEMMA FinishKeeps == ASSUME Inv, Finish PROVE Inv'
<1> DEFINE s == job.sample
<1>1. /\ ~Idle /\ job.file = Nothing /\ job.todo = {} /\ job' = Nothing
      /\ UNCHANGED <<stored, tag, filesOf, training, drawn, uploading, known, removed,
                     condemned, overcounted, undercounted>>
  BY DEF Finish, Ready, ids, faults
<1>2. /\ s \in Samples /\ job.op \in {"add", "delete"}
      /\ job.op = "add" => s \in drawn \ samples
      /\ job.op = "delete" => s \in samples \cap condemned
      /\ job.op = "add" => \A f \in filesOf[s] : f \in stored
  BY <1>1, JobType DEF Inv, JobInv
<1>3. samples' = IF job.op = "add" THEN samples \cup {s} ELSE samples \ {s}
  BY DEF Finish
<1>4. TypeOK'
  BY <1>1, <1>2, <1>3 DEF Inv, TypeOK
<1>5. FilesInv' /\ NamesInv'
  BY <1>1 DEF Inv, FilesInv, NamesInv
<1>6. JobInv'
  BY <1>1 DEF JobInv, Idle
<1>7. TrainingsInv'
  BY <1>1, <1>2, <1>3 DEF Inv, TrainingsInv, TrainingInv, Wanted
<1>8. /\ \A op, f : ~ Visited(op, f)'
      /\ \A op, f : Visited(op, f) <=> job.op = op /\ f \in filesOf[s]
  BY <1>1 DEF Visited, Idle
<1>9. CountInv'
  <2>1. ASSUME NEW f \in stored' \ undercounted'
        PROVE  Count(f)' >= Due(f)' /\ (f \notin overcounted' => Count(f)' = Due(f)')
    <3>1. /\ RefOf(tag[f]) \in Nat /\ Count(f) \in Nat /\ Due(f) \in Nat
          /\ IsFiniteSet(Users(f)) /\ Cardinality(Users(f)) \in Nat
      BY <1>1, <2>1, CountType, UsersType DEF Inv, TypeOK
    <3>2. Count(f) >= Due(f) /\ (f \notin overcounted => Count(f) = Due(f))
      BY <1>1, <2>1 DEF Inv, CountInv
    <3>3. Count(f)' = RefOf(tag[f]) /\ Due(f)' = Cardinality(Users(f)')
      <4>1. Count(f)' = RefOf(tag[f]) + 0 /\ Due(f)' = Cardinality(Users(f)') + 0
        BY <1>1, <1>8 DEF Count, Due
      <4>2. Cardinality(Users(f)') \in Nat
        <5>1. Users(f)' \subseteq Samples
          BY <1>4 DEF Users, TypeOK
        <5> QED BY <5>1, ConstantsAssumption, FS_Subset, FS_CardinalityType
      <4> QED BY <3>1, <4>1, <4>2
    <3>4. CASE f \notin filesOf[s]
      <4>1. Users(f)' = Users(f)
        BY <1>1, <1>3, <3>4 DEF Users
      <4>2. Count(f) = RefOf(tag[f]) /\ Due(f) = Cardinality(Users(f))
        BY <1>8, <3>1, <3>4 DEF Count, Due
      <4> QED BY <1>1, <3>2, <3>3, <4>1, <4>2
    <3>5. CASE f \in filesOf[s] /\ job.op = "add"
      <4>1. Users(f)' = Users(f) \cup {s} /\ s \notin Users(f)
        BY <1>1, <1>2, <1>3, <3>5 DEF Users
      <4>2. Cardinality(Users(f)') = Cardinality(Users(f)) + 1
        BY <3>1, <4>1, FS_AddElement
      <4>3. Count(f) = RefOf(tag[f]) /\ Due(f) = Cardinality(Users(f)) + 1
        BY <1>8, <3>1, <3>5 DEF Count, Due
      <4> QED BY <1>1, <3>2, <3>3, <4>2, <4>3
    <3>6. CASE f \in filesOf[s] /\ job.op = "delete"
      <4>1. Users(f)' = Users(f) \ {s} /\ s \in Users(f)
        BY <1>1, <1>2, <1>3, <3>6 DEF Users
      <4>2. Cardinality(Users(f)') = Cardinality(Users(f)) - 1
        BY <3>1, <4>1, FS_RemoveElement
      <4>3. Count(f) = RefOf(tag[f]) + 1 /\ Due(f) = Cardinality(Users(f))
        BY <1>8, <3>1, <3>6 DEF Count, Due
      <4> QED BY <1>1, <3>1, <3>2, <3>3, <4>2, <4>3
    <3> QED BY <1>2, <3>4, <3>5, <3>6
  <2> QED BY <2>1 DEF CountInv
<1>10. KeepInv'
  <2>1. ASSUME NEW r \in samples', NEW f \in filesOf[r]
        PROVE  f \in stored \cup removed \cup undercounted
    <3>1. CASE job.op = "add" /\ r = s
      BY <1>2, <2>1, <3>1
    <3>2. CASE ~ (job.op = "add" /\ r = s)
      <4>1. r \in samples /\ ~ (Visited("delete", f) /\ job.sample = r)
        BY <1>2, <1>3, <1>8, <3>2
      <4> QED BY <2>1, <4>1 DEF Inv, KeepInv
    <3> QED BY <3>1, <3>2
  <2> QED BY <1>1, <2>1 DEF KeepInv
<1> QED BY <1>4, <1>5, <1>6, <1>7, <1>9, <1>10 DEF Inv

LEMMA GiveUpKeeps == ASSUME Inv, ~Idle, GiveUp PROVE Inv'
<1> DEFINE visited == filesOf[job.sample] \ job.todo
<1>1. /\ job' = Nothing
      /\ UNCHANGED <<stored, tag, samples, filesOf, training, drawn, uploading, known, removed,
                     condemned>>
  BY DEF GiveUp, store, ids
<1>2. /\ overcounted' = IF job.op = "add" THEN overcounted \cup visited ELSE overcounted
      /\ undercounted' = IF job.op = "add" THEN undercounted ELSE undercounted \cup visited
  BY DEF GiveUp
<1>3. visited \subseteq Files /\ job.op \in {"add", "delete"}
  BY JobType DEF Inv, TypeOK
<1>4. TypeOK'
  BY <1>1, <1>2, <1>3 DEF Inv, TypeOK
<1>5. FilesInv' /\ NamesInv' /\ TrainingsInv'
  BY <1>1 DEF Inv, FilesInv, NamesInv, TrainingsInv, TrainingInv, Wanted
<1>6. JobInv'
  BY <1>1 DEF JobInv, Idle
<1>7. /\ \A op, f : ~ Visited(op, f)'
      /\ \A op, f : Visited(op, f) <=> job.op = op /\ f \in visited
  BY <1>1 DEF Visited, Idle
<1>8. CountInv'
  <2>1. ASSUME NEW f \in stored' \ undercounted'
        PROVE  Count(f)' >= Due(f)' /\ (f \notin overcounted' => Count(f)' = Due(f)')
    <3>1. /\ RefOf(tag[f]) \in Nat /\ Count(f) \in Nat /\ Due(f) \in Nat
          /\ Cardinality(Users(f)) \in Nat
      BY <1>1, <2>1, CountType, UsersType DEF Inv, TypeOK
    <3>2. f \in stored \ undercounted /\ ~ (job.op = "delete" /\ f \in visited)
      BY <1>1, <1>2, <1>3, <2>1
    <3>3. Count(f) >= Due(f) /\ (f \notin overcounted => Count(f) = Due(f))
      BY <3>2 DEF Inv, CountInv
    <3>4. /\ Count(f) = RefOf(tag[f])
          /\ Due(f) = Cardinality(Users(f)) + (IF job.op = "add" /\ f \in visited THEN 1 ELSE 0)
      BY <1>7, <3>1, <3>2 DEF Count, Due
    <3>5. Count(f)' = RefOf(tag[f]) /\ Due(f)' = Cardinality(Users(f))
      <4>1. Users(f)' = Users(f)
        BY <1>1 DEF Users
      <4>2. Count(f)' = RefOf(tag[f]) + 0 /\ Due(f)' = Cardinality(Users(f)) + 0
        BY <1>1, <1>7, <4>1 DEF Count, Due
      <4> QED BY <3>1, <4>2
    <3>6. f \notin overcounted' => f \notin overcounted /\ ~ (job.op = "add" /\ f \in visited)
      BY <1>2
    <3> HIDE DEF visited
    <3> QED BY <3>1, <3>3, <3>4, <3>5, <3>6
  <2> QED BY <2>1 DEF CountInv
<1>9. KeepInv'
  <2>1. ASSUME NEW r \in samples, NEW f \in filesOf[r]
        PROVE  f \in stored \cup removed \cup undercounted'
    <3>1. f \in stored \cup removed \cup undercounted \/ Visited("delete", f)
      BY <2>1 DEF Inv, KeepInv
    <3> QED BY <1>2, <1>7, <3>1
  <2> QED BY <1>1, <2>1 DEF KeepInv
<1> QED BY <1>4, <1>5, <1>6, <1>8, <1>9 DEF Inv

-----------------------------------------------------------------------------
(* Steps of trainings *)

\* A training changes its own record only.
LEMMA TrainingFrame ==
  ASSUME Inv, NEW t \in Trainings, NEW r \in Training, training' = [training EXCEPT ![t] = r],
         UNCHANGED <<store, job, ids, removed, condemned, faults>>,
         r.at \in {"accepted", "download"} =>
           /\ r.samples \subseteq drawn /\ r.samples \ condemned \subseteq samples
           /\ r.at = "download" =>
                r.todo \subseteq Wanted(r.samples)
                /\ Wanted(r.samples) \subseteq r.todo \cup r.held \cup r.local
  PROVE  Inv'
<1>1. training' \in [Trainings -> Training] /\ training'[t] = r
      /\ \A u \in Trainings : u # t => training'[u] = training[u]
  BY DEF Inv, TypeOK
<1>2. TypeOK'
  BY <1>1 DEF Inv, TypeOK, store, ids, faults
<1>3. FilesInv' /\ NamesInv' /\ JobInv'
  BY DEF Inv, FilesInv, NamesInv, JobInv, Idle, store, ids, faults
<1>4. CountInv' /\ KeepInv'
  BY DEF Inv, CountInv, KeepInv, Count, Due, Visited, Users, Idle, store, ids, faults
<1>5. ASSUME NEW u \in Trainings
      PROVE  TrainingInv(u)'
  <2>1. CASE u = t
    BY <1>1, <2>1 DEF TrainingInv, Wanted, store, ids
  <2>2. CASE u # t
    BY <1>1, <2>2 DEF Inv, TrainingsInv, TrainingInv, Wanted, store, ids
  <2> QED BY <2>1, <2>2
<1> QED BY <1>2, <1>3, <1>4, <1>5 DEF Inv, TrainingsInv

LEMMA TrainingEnds ==
  ASSUME Inv, NEW t \in Trainings, EndTraining(t) \/ Misses(t),
         UNCHANGED <<store, job, ids, removed, condemned, faults>>
  PROVE  Inv'
<1>1. PICK place \in {"over", "no_file"} : training' = [training EXCEPT ![t] = AtRest(place)]
  BY DEF EndTraining, Misses
<1>2. AtRest(place) \in Training /\ AtRest(place).at = place
  BY DEF AtRest, Training
<1> QED BY <1>1, <1>2, TrainingFrame

LEMMA TrainingType ==
  ASSUME Inv, NEW t \in Trainings
  PROVE  training[t] \in Training /\ TrainingInv(t)
BY DEF Inv, TypeOK, TrainingsInv

LEMMA TrainingStepKeeps == ASSUME Inv, NEW t \in Trainings, TrainingStep(t) PROVE Inv'
<1> DEFINE old == training[t]
<1>1. old \in Training /\ TrainingInv(t)
  BY TrainingType
<1>2. UNCHANGED <<store, job, ids, removed, condemned, faults>>
  BY DEF TrainingStep, AcceptTraining, LoadDataset, RefuseDataset, Fetch, Save, Train, Abort
<1>3. ASSUME EndTraining(t) \/ Misses(t)
      PROVE  Inv'
  BY <1>2, <1>3, TrainingEnds
<1>4. ASSUME NEW S \in SUBSET Samples \ {{}}, AcceptTraining(t, S)
      PROVE  Inv'
  <2> DEFINE r == [old EXCEPT !.at = "accepted", !.samples = S]
  <2>1. training' = [training EXCEPT ![t] = r] /\ S \subseteq samples
    BY <1>4 DEF AcceptTraining, Inv, TypeOK
  <2>2. r \in Training /\ r.at = "accepted" /\ r.samples = S
    BY <1>1 DEF Training
  <2> HIDE DEF r
  <2>3. S \subseteq drawn
    BY <2>1 DEF Inv, TypeOK
  <2> QED BY <1>2, <2>1, <2>2, <2>3, TrainingFrame
<1>5. ASSUME LoadDataset(t)
      PROVE  Inv'
  <2> DEFINE W == Wanted(old.samples)
             r == [old EXCEPT !.at = "download", !.todo = W]
  <2>1. CASE old.samples \subseteq samples
    <3>1. training' = [training EXCEPT ![t] = r] /\ old.at = "accepted"
      BY <1>5, <2>1 DEF LoadDataset, Inv, TypeOK
    <3>2. W \subseteq Files
      BY <1>1 DEF Wanted, Training, Inv, TypeOK
    <3>3. /\ r \in Training /\ r.at = "download" /\ r.samples = old.samples /\ r.todo = W
          /\ r.held = old.held /\ r.local = old.local
      BY <1>1, <3>2 DEF Training
    <3> HIDE DEF r
    <3>4. Wanted(r.samples) = W
      BY <3>3
    <3> HIDE DEF W
    <3> QED BY <1>1, <1>2, <3>1, <3>3, <3>4, TrainingFrame DEF TrainingInv
  <2>2. CASE ~ (old.samples \subseteq samples)
    BY <1>3, <1>5, <2>2 DEF LoadDataset
  <2> QED BY <2>1, <2>2
<1>6. ASSUME NEW f \in Files, Fetch(t, f)
      PROVE  Inv'
  <2> DEFINE r == [old EXCEPT !.todo = old.todo \ {f}, !.held = old.held \cup {f}]
  <2>1. CASE f \in stored
    <3>1. training' = [training EXCEPT ![t] = r] /\ old.at = "download"
      BY <1>6, <2>1 DEF Fetch, Inv, TypeOK
    <3>2. /\ r \in Training /\ r.at = old.at /\ r.samples = old.samples
          /\ r.todo = old.todo \ {f} /\ r.held = old.held \cup {f} /\ r.local = old.local
      BY <1>1 DEF Training
    <3> HIDE DEF r
    <3>3. Wanted(r.samples) = Wanted(old.samples)
      BY <3>2
    <3> QED BY <1>1, <1>2, <3>1, <3>2, <3>3, TrainingFrame DEF TrainingInv
  <2>2. CASE f \notin stored
    BY <1>3, <1>6, <2>2 DEF Fetch
  <2> QED BY <2>1, <2>2
<1>7. ASSUME Save(t)
      PROVE  Inv'
  <2> DEFINE r == [old EXCEPT !.local = old.local \cup old.held, !.held = {}]
  <2>1. training' = [training EXCEPT ![t] = r] /\ old.at = "download"
    BY <1>7 DEF Save, Saved, Inv, TypeOK
  <2>2. /\ r \in Training /\ r.at = old.at /\ r.samples = old.samples
        /\ r.todo = old.todo /\ r.held = {} /\ r.local = old.local \cup old.held
    BY <1>1 DEF Training
  <2> HIDE DEF r
  <2>3. Wanted(r.samples) = Wanted(old.samples)
    BY <2>2
  <2> QED BY <1>1, <1>2, <2>1, <2>2, <2>3, TrainingFrame DEF TrainingInv
<1>8. ASSUME RefuseDataset(t) \/ Train(t) \/ Abort(t)
      PROVE  Inv'
  BY <1>3, <1>8 DEF RefuseDataset, Train, Abort
<1> QED BY <1>4, <1>5, <1>6, <1>7, <1>8 DEF TrainingStep

-----------------------------------------------------------------------------
(* The specification *)

LEMMA InitInv == Init => Inv
<1> SUFFICES ASSUME Init PROVE Inv
  OBVIOUS
<1>1. TypeOK
  <2>1. AtRest("new") \in Training
    BY DEF AtRest, Training
  <2> QED BY <2>1 DEF Init, TypeOK
<1>2. FilesInv /\ NamesInv /\ JobInv
  BY DEF Init, FilesInv, NamesInv, JobInv, Idle
<1>3. CountInv /\ KeepInv
  BY DEF Init, CountInv, KeepInv
<1>4. TrainingsInv
  BY DEF Init, TrainingsInv, TrainingInv, AtRest
<1> QED BY <1>1, <1>2, <1>3, <1>4 DEF Inv

LEMMA NextInv == ASSUME Inv, [Next]_vars PROVE Inv'
<1>1. CASE UNCHANGED vars
  <2>1. UNCHANGED <<stored, tag, samples, filesOf, job, training, drawn, uploading, known,
                    removed, condemned, overcounted, undercounted>>
    BY <1>1 DEF vars, store, ids, faults
  <2>2. TypeOK' /\ FilesInv' /\ NamesInv' /\ JobInv' /\ TrainingsInv'
    BY <2>1 DEF Inv, TypeOK, FilesInv, NamesInv, JobInv, Idle, TrainingsInv, TrainingInv, Wanted
  <2>3. CountInv' /\ KeepInv'
    BY <2>1 DEF Inv, CountInv, KeepInv, Count, Due, Visited, Users, Idle
  <2> QED BY <2>2, <2>3 DEF Inv
<1>2. ASSUME NEW f \in Files, FileStep(f)
      PROVE  Inv'
  BY <1>2, PutFileKeeps, TagFileKeeps, TagFileFailsKeeps, PutByUrlKeeps, ExpireKeeps,
     DeleteFileKeeps DEF FileStep
<1>3. ASSUME SampleStep
      PROVE  Inv'
  <2>1. ASSUME NEW s \in Samples, NEW F \in SUBSET Files, AddSample(s, F)
        PROVE  Inv'
    BY <2>1, AddSampleKeeps
  <2>2. ASSUME NEW s \in Samples, DeleteSample(s)
        PROVE  Inv'
    BY <2>2, DeleteSampleKeeps
  <2>3. ASSUME Proceed
        PROVE  Inv'
    BY <2>3, ReadTagKeeps, WriteTagKeeps, FinishKeeps, GiveUpKeeps DEF Proceed, MissesFile
  <2>4. ASSUME Fails
        PROVE  Inv'
    BY <2>4, GiveUpKeeps DEF Fails
  <2> QED BY <1>3, <2>1, <2>2, <2>3, <2>4 DEF SampleStep
<1>4. ASSUME NEW t \in Trainings, TrainingStep(t)
      PROVE  Inv'
  BY <1>4, TrainingStepKeeps
<1> QED BY <1>1, <1>2, <1>3, <1>4 DEF Next

LEMMA Invariance == Spec => []Inv
BY InitInv, NextInv, PTL DEF Spec

\* The tags, the samples and what is in progress keep their types.
THEOREM TypeCorrect == Spec => []TypeOK
<1>1. Inv => TypeOK
  BY DEF Inv
<1> QED BY <1>1, Invariance, PTL

\* For every set of files and samples: the tag of a file is the number of samples that name
\* it, but for the files that a request that was given up or an upload has touched.
THEOREM CountsAreTrue == Spec => []TagsCountSamples
<1>1. Inv => TagsCountSamples
  <2> SUFFICES ASSUME Inv, NEW f \in stored \ (overcounted \cup undercounted)
               PROVE  IF Visited("delete", f) THEN RefOf(tag[f]) + 1 = Cardinality(Users(f))
                      ELSE RefOf(tag[f]) = Cardinality(Users(f))
                                             + (IF Visited("add", f) THEN 1 ELSE 0)
    BY DEF TagsCountSamples
  <2>1. Count(f) = Due(f)
    BY DEF Inv, CountInv
  <2>2. RefOf(tag[f]) \in Nat /\ Cardinality(Users(f)) \in Nat
    BY CountType, UsersType DEF Inv, TypeOK
  <2>3. ~ (Visited("delete", f) /\ Visited("add", f))
    BY DEF Visited
  <2> QED BY <2>1, <2>2, <2>3 DEF Count, Due
<1> QED BY <1>1, Invariance, PTL

\* The files of a sample stay, whatever additions were given up.
THEOREM FilesAreKept == Spec => []SampleKeepsFiles
<1>1. Inv => SampleKeepsFiles
  BY DEF Inv, KeepInv, SampleKeepsFiles, Visited
<1> QED BY <1>1, Invariance, PTL

\* A sample appears with all its files, and none of them may expire.
THEOREM NewSamplesAreWhole == Spec => NewSampleIsWhole
<1>1. ASSUME Inv, [Next]_vars
      PROVE  \A s \in samples' \ samples : \A f \in filesOf'[s] : f \in stored' /\ tag'[f] # 0
  <2> SUFFICES ASSUME NEW s \in samples' \ samples, NEW f \in filesOf'[s]
               PROVE  f \in stored' /\ tag'[f] # 0
    OBVIOUS
  <2>1. Finish
    BY <1>1 DEF Next, vars, store, FileStep, PutFile, TagFile, TagFileFails, PutByUrl, Expire,
       DeleteFile, SampleStep, AddSample, DeleteSample, Proceed, ReadTag, WriteTag, MissesFile,
       Fails, GiveUp, TrainingStep, AcceptTraining, LoadDataset, RefuseDataset, Fetch, Save,
       Train, Abort
  <2>2. /\ ~Idle /\ job.todo = {} /\ UNCHANGED <<stored, tag, filesOf>>
        /\ job.op = "add" /\ s = job.sample
    BY <2>1 DEF Finish, Ready
  <2> QED BY <1>1, <2>2 DEF Inv, JobInv
<1> QED BY <1>1, Invariance, PTL DEF Spec, NewSampleIsWhole

\* A training that was accepted misses a file only after a client touched the file, or
\* asked to delete one of its samples.
THEOREM TrainingsFindTheirFiles == Spec => TrainingFindsItsFiles
<1> DEFINE Excused(t) ==
      /\ training[t].todo # {}
      /\ \/ training[t].samples \cap condemned # {}
         \/ training[t].todo \cap (removed \cup undercounted) # {}
<1>1. ASSUME Inv, NEW t \in Trainings, NEW f \in Files, Fetch(t, f), f \notin stored
      PROVE  Excused(t)
  <2>1. /\ training[t].at = "download" /\ f \in training[t].todo
        /\ training[t].samples \ condemned \subseteq samples
        /\ f \in Wanted(training[t].samples)
    BY <1>1, TrainingType DEF Fetch, TrainingInv
  <2>2. PICK s \in training[t].samples : f \in filesOf[s]
    BY <2>1 DEF Wanted
  <2>3. ASSUME s \notin condemned
        PROVE  f \in removed \cup undercounted
    <3>1. s \in samples
      BY <2>1, <2>2, <2>3
    <3>2. ~ (Visited("delete", f) /\ job.sample = s)
      BY <1>1, <2>3 DEF Visited, Inv, JobInv
    <3> QED BY <1>1, <2>2, <3>1, <3>2 DEF Inv, KeepInv
  <2> QED BY <2>1, <2>2, <2>3
<1>2. ASSUME Inv, NEW t \in Trainings, Train(t), training'[t].at = "no_file"
      PROVE  FALSE
  <2>1. Wanted(training[t].samples) \subseteq training[t].local
    BY <1>2, TrainingType DEF Train, TrainingInv
  <2>2. training'[t].at = "over"
    BY <1>2, <2>1 DEF Train, EndTraining, AtRest, Inv, TypeOK
  <2> QED BY <1>2, <2>2
<1>3. ASSUME Inv, [Next]_vars, NEW t \in Trainings,
             training[t].at # "no_file", training'[t].at = "no_file"
      PROVE  Excused(t)
  <2>1. training'[t] # training[t]
    BY <1>3
  <2>2. PICK u \in Trainings : TrainingStep(u)
    BY <1>3, <2>1 DEF Next, vars, store, FileStep, PutFile, TagFile, TagFileFails, PutByUrl,
       Expire, DeleteFile, SampleStep, AddSample, DeleteSample, Proceed, ReadTag, WriteTag,
       Finish, MissesFile, Fails, GiveUp
  <2>3. u = t
    <3>1. training' = [training EXCEPT ![u] = training'[u]]
      BY <1>3, <2>2 DEF TrainingStep, AcceptTraining, LoadDataset, RefuseDataset, Fetch, Save,
         Train, Abort, EndTraining, Misses, Inv, TypeOK
    <3> QED BY <1>3, <2>1, <3>1 DEF Inv, TypeOK
  <2>4. ~ EndTraining(t)
    BY <1>3 DEF EndTraining, AtRest, Inv, TypeOK
  <2>5. training[t] \in Training
    BY <1>3, TrainingType
  <2>6. ASSUME NEW S \in SUBSET Samples, AcceptTraining(t, S)
        PROVE  FALSE
    BY <1>3, <2>5, <2>6 DEF AcceptTraining, Inv, TypeOK, Training
  <2>7. ~ LoadDataset(t) /\ ~ RefuseDataset(t) /\ ~ Abort(t)
    BY <1>3, <2>4, <2>5 DEF LoadDataset, RefuseDataset, Abort, Inv, TypeOK, Training
  <2>8. ~ Save(t)
    BY <1>3, <2>5 DEF Save, Inv, TypeOK, Training
  <2>9. ~ Train(t)
    BY <1>2, <1>3
  <2>10. PICK f \in Files : Fetch(t, f)
    BY <2>2, <2>3, <2>6, <2>7, <2>8, <2>9 DEF TrainingStep
  <2>11. f \notin stored
    BY <1>3, <2>5, <2>10 DEF Fetch, Inv, TypeOK, Training
  <2> QED BY <1>1, <1>3, <2>10, <2>11
<1>4. ASSUME Inv, [Next]_vars
      PROVE  \A t \in Trainings : training[t].at # "no_file" /\ training'[t].at = "no_file" =>
               /\ training[t].todo # {}
               /\ \/ training[t].samples \cap condemned # {}
                  \/ training[t].todo \cap (removed \cup undercounted) # {}
  BY <1>3, <1>4
<1> QED BY <1>4, Invariance, PTL DEF Spec, TrainingFindsItsFiles

=============================================================================
