---------------------------- MODULE BuiltinImport ----------------------------
(***************************************************************************)
(* The import of the bundled algorithms at the start of the server         *)
(* (BuiltinAlgorithmImporter): algorithm by algorithm the objects that are *)
(* missing are copied, the manifests of the checkpoints written and the    *)
(* record merged with the one that is there. Each write is first noted in  *)
(* a journal in memory; when anything fails, the journal is undone from    *)
(* its end. The object migration-state says which bundle was imported.     *)
(*                                                                         *)
(* The import runs in lifespan, before the server answers: nobody else     *)
(* writes to the storage then. Between two starts users deploy algorithms. *)
(***************************************************************************)
EXTENDS Naturals, Sequences, SequencesExt

CONSTANTS
  Names,        \* algorithms: name and major version
  Objects,      \* modules and assets
  Checkpoints,
  AssetsOf,     \* the assets that the manifest of a checkpoint names
  ParentOf,     \* its parent_checkpoint_id, or Nothing
  Hashes,       \* bundles, by their SHA256
  Content,      \* the algorithms of a bundle
  Builds,       \* the module and assets of what users deploy
  Payload,      \* what an object is
  Nothing,
  MaxFaults, MaxStarts, MaxDeploys  \* bounds

ASSUME KeysAssumption ==
  /\ Names \cap Objects = {} /\ Names \cap Checkpoints = {} /\ Objects \cap Checkpoints = {}
  /\ Nothing \notin Names \cup Objects \cup Checkpoints \cup Hashes

Ids == Names \X {"bundled", "deployed"}

\* Nothing depends on the order of the checkpoints of a record.
Record == [id : Ids, versions : Seq(SUBSET Objects), checkpoints : SUBSET Checkpoints]

Manifest == [parent_algorithm_id : Ids]

Values == Record \cup Manifest \cup {Payload, Nothing}

ASSUME NothingAssumption ==
  Nothing \notin Record /\ Nothing \notin Manifest /\ Nothing # Payload

Keys == Names \cup Objects \cup Checkpoints

\* What the storage may have under a key, Nothing if the object is not there.
ValuesAt(k) ==
  {Nothing} \cup (IF k \in Names THEN Record ELSE IF k \in Objects THEN {Payload} ELSE Manifest)

Storage == {s \in [Keys -> Values] : \A k \in Keys : s[k] \in ValuesAt(k)}

ASSUME CheckpointAssumption ==
  /\ AssetsOf \in [Checkpoints -> SUBSET Objects]
  /\ ParentOf \in [Checkpoints -> Checkpoints \cup {Nothing}]

\* The deployer stores no version twice in a row, and a bundle is made of deployed algorithms.
ASSUME ContentAssumption ==
  \A h \in Hashes :
    /\ DOMAIN Content[h] \subseteq Names
    /\ \A n \in DOMAIN Content[h] :
         /\ Content[h][n] \in [versions : Seq(SUBSET Objects), checkpoints : Seq(Checkpoints)]
         /\ Content[h][n].versions # <<>>
         /\ \A i \in 1..(Len(Content[h][n].versions) - 1) :
              Content[h][n].versions[i] # Content[h][n].versions[i + 1]

ASSUME BuildsAssumption == Builds \subseteq SUBSET Objects
ASSUME BoundsAssumption == MaxFaults \in Nat /\ MaxStarts \in Nat /\ MaxDeploys \in Nat

\* Each checkpoint is one algorithm's, and its parent is the same algorithm's.
Owners ==
  {owner \in [Checkpoints -> Names] :
     /\ \A h \in Hashes : \A n \in DOMAIN Content[h] :
          \A c \in ToSet(Content[h][n].checkpoints) : owner[c] = n
     /\ \A c \in Checkpoints : ParentOf[c] # Nothing => owner[ParentOf[c]] = owner[c]}

VARIABLES
  store,      \* what the storage holds, key by key
  state,      \* migration-state
  at,         \* what the server is doing
  known,      \* the hash in the state the import began with
  bundle,     \* the bundle being imported
  left,       \* its algorithms still to come
  todo,       \* what is still to do for the current one: objects to copy, then a key to put
  merged,     \* the record to put in the end
  journal,    \* rollback_journal
  faults, starts, deploys,
  (* History *)
  before,     \* the storage when the import began
  undone,     \* no step of the rollback failed
  sure,       \* no write of COMPLETED failed since the last state
  users       \* algorithms users deployed since the last import began

vars == <<store, state, at, known, bundle, left, todo, merged, journal, faults, starts, deploys,
          before, undone, sure, users>>

\* What one run of the import keeps in memory.
run == <<known, bundle, left, todo, merged>>

-----------------------------------------------------------------------------

Stored(S) == \A k \in S : store[k] # Nothing

\* One more failure of the storage or of a read of the bundle.
Fault == faults < MaxFaults /\ faults' = faults + 1

\* insert_new_minor_version
Insert(versions, v) == IF versions # <<>> /\ Last(versions) = v THEN versions ELSE Append(versions, v)

BugMerge(n) ==  \* Mutant: of a known algorithm the new version only.
  IF store[n] = Nothing
  THEN [id |-> <<n, "bundled">>, versions |-> Content[bundle][n].versions,
        checkpoints |-> ToSet(Content[bundle][n].checkpoints)]
  ELSE Content[bundle][n]

\* _merge_algorithm_record
Merge(n) ==
  LET source == Content[bundle][n]
      target == store[n]
  IN IF target = Nothing
     THEN [id |-> <<n, "bundled">>, versions |-> source.versions,
           checkpoints |-> ToSet(source.checkpoints)]
     ELSE [target EXCEPT
             !.versions = Insert(target.versions, Last(source.versions)),
             !.checkpoints = @ \cup ToSet(source.checkpoints)]

\* One step of the import: objects to copy if they are missing, then a key to put, if any.
Task == [needs : SUBSET Objects, puts : Names \cup Checkpoints \cup {Nothing}]

CheckpointTask(c) == [needs |-> AssetsOf[c], puts |-> c]

\* _import_algorithm_semantically: every version of a new algorithm, the last one of another.
Plan(n) ==
  LET source == Content[bundle][n]
      versions == IF store[n] = Nothing THEN source.versions ELSE <<Last(source.versions)>>
  IN [i \in 1..Len(versions) |-> [needs |-> versions[i], puts |-> Nothing]]
     \o [i \in 1..Len(source.checkpoints) |-> CheckpointTask(source.checkpoints[i])]
     \o <<[needs |-> {}, puts |-> n]>>

-----------------------------------------------------------------------------
(* The start: run_startup_migration up to the import itself *)

WriteState(s) == state' = s

Fresh == sure' = TRUE

\* The memory of a run is gone when it ends.
Forget ==
  /\ known' = Nothing /\ bundle' = Nothing /\ left' = {}
  /\ todo' = <<>> /\ merged' = Nothing /\ journal' = <<>>

\* The bundle of the last import, completed: nothing to do.
StartAgain(h) ==
  /\ at = "down" /\ starts < MaxStarts
  /\ state = [hash |-> h, status |-> "COMPLETED"] /\ h # Nothing
  /\ starts' = starts + 1 /\ at' = "up"
  /\ UNCHANGED <<store, state, run, journal, faults, deploys, before, undone, sure, users>>

\* The state becomes RUNNING and keeps the hash of the last import. keyed: path and key are set.
Start(h, keyed) ==
  /\ at = "down" /\ starts < MaxStarts
  /\ ~ (state = [hash |-> h, status |-> "COMPLETED"] /\ h # Nothing)
  /\ keyed => h # Nothing
  /\ WriteState([state EXCEPT !.status = "RUNNING"]) /\ Fresh
  /\ starts' = starts + 1
  /\ before' = store /\ undone' = TRUE /\ users' = {}
  /\ IF keyed THEN at' = "open" /\ bundle' = h ELSE at' = "skip" /\ UNCHANGED bundle
  /\ known' = state.hash
  /\ UNCHANGED <<store, left, todo, merged, journal, faults, deploys>>

\* The write of RUNNING fails: the server does not come up.
StartFails(written) ==
  /\ at = "down" /\ starts < MaxStarts /\ starts' = starts + 1
  /\ Fault
  /\ IF written
     THEN WriteState([state EXCEPT !.status = "RUNNING"]) /\ Fresh
     ELSE UNCHANGED <<state, sure>>
  /\ UNCHANGED <<store, at, run, journal, deploys, before, undone, users>>

\* No bundle is configured, or its file is not there.
Skip ==
  /\ at = "skip"
  /\ LET skipped == [hash |-> known, status |-> "SKIPPED"]
     IN \/ /\ WriteState(skipped) /\ Fresh
           /\ at' = "up" /\ Forget
           /\ UNCHANGED faults
        \/ /\ Fault
           /\ (WriteState(skipped) /\ Fresh) \/ UNCHANGED <<state, sure>>
           /\ at' = "rollback"
           /\ UNCHANGED <<run, journal>>
  /\ UNCHANGED <<store, starts, deploys, before, undone, users>>

\* The manifest of the bundle, its signature and its collections are in order; Fail, if not.
Open ==
  /\ at = "open"
  /\ at' = "import" /\ left' = DOMAIN Content[bundle]
  /\ UNCHANGED <<store, state, known, bundle, todo, merged, journal, faults, starts, deploys,
                 before, undone, sure, users>>

-----------------------------------------------------------------------------
(* The import of one algorithm *)

Find(n) ==
  /\ at = "import" /\ todo = <<>> /\ n \in left
  /\ left' = left \ {n}
  /\ todo' = Plan(n) /\ merged' = Merge(n)
  /\ UNCHANGED <<store, state, at, known, bundle, journal, faults, starts, deploys,
                 before, undone, sure, users>>

\* How to undo a write of k: put back what was there, or delete it.
Noted(k) == Append(journal, [key |-> k, old |-> store[k]])

BugPut(k, value, next) ==  \* Mutant: the entry of a write once it succeeded.
  /\ \/ /\ store' = [store EXCEPT ![k] = value]
        /\ todo' = next
        /\ journal' = Noted(k)
        /\ UNCHANGED <<at, faults>>
     \/ /\ Fault
        /\ store' \in {store, [store EXCEPT ![k] = value]}
        /\ at' = "rollback"
        /\ UNCHANGED <<todo, journal>>
  /\ UNCHANGED <<state, known, bundle, left, merged, starts, deploys, before, undone, sure, users>>

\* _put_object_with_journal. The journal has the entry before the storage has the object.
Put(k, value, next) ==
  /\ journal' = Noted(k)
  /\ \/ /\ store' = [store EXCEPT ![k] = value]
        /\ todo' = next
        /\ UNCHANGED <<at, faults>>
     \/ /\ Fault
        /\ store' \in {store, [store EXCEPT ![k] = value]}
        /\ at' = "rollback"
        /\ UNCHANGED todo
  /\ UNCHANGED <<state, known, bundle, left, merged, starts, deploys, before, undone, sure, users>>

Working == at = "import" /\ todo # <<>>

\* _copy_object_if_missing
Copy(k) ==
  /\ Working /\ k \in Head(todo).needs
  /\ store[k] = Nothing
  /\ Put(k, Payload, todo)

\* A version whose module and assets are all there.
Advance ==
  /\ Working /\ Stored(Head(todo).needs) /\ Head(todo).puts = Nothing
  /\ todo' = Tail(todo)
  /\ UNCHANGED <<store, state, at, known, bundle, left, merged, journal, faults, starts, deploys,
                 before, undone, sure, users>>

\* _copy_checkpoint_if_missing: the manifest, rewritten to the algorithm, and next its parent.
PutManifest ==
  LET c == Head(todo).puts
      parent == IF ParentOf[c] = Nothing THEN <<>> ELSE <<CheckpointTask(ParentOf[c])>>
  IN /\ Working /\ Stored(Head(todo).needs) /\ c \in Checkpoints
     /\ Put(c, [parent_algorithm_id |-> merged.id], parent \o Tail(todo))

\* _upsert_algorithm_record
PutRecord ==
  LET n == Head(todo).puts
  IN /\ Working /\ n \in Names
     /\ Put(n, merged, Tail(todo))

\* A read of the bundle or of the storage fails.
Fail ==
  /\ at \in {"open", "import"} /\ Fault
  /\ at' = "rollback"
  /\ UNCHANGED <<store, state, run, journal, starts, deploys, before, undone, sure, users>>

Done == [hash |-> bundle, status |-> "COMPLETED"]

\* After the last algorithm the state becomes COMPLETED; if that write fails, all is undone.
Complete ==
  /\ at = "import" /\ todo = <<>> /\ left = {}
  /\ \/ /\ WriteState(Done) /\ Fresh
        /\ at' = "up" /\ Forget
        /\ UNCHANGED faults
     \/ /\ Fault
        /\ \/ UNCHANGED <<state, sure>>
           \/ WriteState(Done) /\ sure' = FALSE
        /\ at' = "rollback"
        /\ UNCHANGED <<run, journal>>
  /\ UNCHANGED <<store, starts, deploys, before, undone, users>>

-----------------------------------------------------------------------------
(* The rollback: _rollback_journal and the state FAILED *)

BugUndo ==  \* Mutant: from the first entry on.
  /\ at = "rollback" /\ undone /\ journal # <<>>
  /\ LET e == Head(journal)
         reverted == [store EXCEPT ![e.key] = e.old]
     IN \/ store' = reverted /\ journal' = Tail(journal) /\ UNCHANGED <<faults, undone>>
        \/ Fault /\ store' \in {store, reverted} /\ undone' = FALSE /\ UNCHANGED journal
  /\ UNCHANGED <<state, at, run, starts, deploys, before, sure, users>>

Undo ==
  /\ at = "rollback" /\ undone /\ journal # <<>>
  /\ LET e == Last(journal)
         reverted == [store EXCEPT ![e.key] = e.old]
     IN \/ store' = reverted /\ journal' = Front(journal) /\ UNCHANGED <<faults, undone>>
        \/ Fault /\ store' \in {store, reverted} /\ undone' = FALSE /\ UNCHANGED journal
  /\ UNCHANGED <<state, at, run, starts, deploys, before, sure, users>>

\* The state FAILED has the hash of the last import. The error ends the server.
Report ==
  /\ at = "rollback" /\ (undone => journal = <<>>)
  /\ LET failed == [hash |-> known, status |-> "FAILED"]
     IN \/ WriteState(failed) /\ Fresh /\ UNCHANGED faults
        \/ Fault /\ ((WriteState(failed) /\ Fresh) \/ UNCHANGED <<state, sure>>)
  /\ at' = "down" /\ Forget
  /\ UNCHANGED <<store, starts, deploys, before, undone, users>>

-----------------------------------------------------------------------------
(* Around the import *)

\* The process stops, at any step. That of import_algorithm_bundle ends with the import.
Stop ==
  /\ at # "down"
  /\ at' = "down" /\ Forget
  /\ UNCHANGED <<store, state, faults, starts, deploys, before, undone, sure, users>>

\* upsert_algorithm_record, after the module and the assets of the record are stored.
Upserted(n, record, v) ==
  [k \in Keys |-> IF k = n THEN record ELSE IF k \in v THEN Payload ELSE store[k]]

\* AlgorithmDeployer.store_algorithm, in one step: AlgorithmStore has its steps.
Deploy(n, v) ==
  /\ at = "up" /\ deploys < MaxDeploys /\ deploys' = deploys + 1
  /\ LET old == store[n]
         new == IF old = Nothing
                THEN [id |-> <<n, "deployed">>, versions |-> <<v>>, checkpoints |-> {}]
                ELSE [old EXCEPT !.versions = Insert(@, v)]
     IN store' = Upserted(n, new, v)
  /\ users' = users \cup {n}
  /\ UNCHANGED <<state, at, run, journal, faults, starts, before, undone, sure>>

-----------------------------------------------------------------------------

Init ==
  /\ store = [k \in Keys |-> Nothing]
  /\ state = [hash |-> Nothing, status |-> "NONE"]
  /\ at = "down"
  /\ known = Nothing /\ bundle = Nothing /\ left = {}
  /\ todo = <<>> /\ merged = Nothing /\ journal = <<>>
  /\ faults = 0 /\ starts = 0 /\ deploys = 0
  /\ before = store /\ undone = TRUE /\ sure = TRUE /\ users = {}

Next ==
  \/ \E h \in Hashes : StartAgain(h)
  \/ \E h \in Hashes \cup {Nothing}, keyed \in BOOLEAN : Start(h, keyed)
  \/ \E written \in BOOLEAN : StartFails(written)
  \/ Skip \/ Open
  \/ \E n \in Names : Find(n)
  \/ \E k \in Objects : Copy(k)
  \/ Advance \/ PutManifest \/ PutRecord
  \/ Fail \/ Complete
  \/ Undo \/ Report
  \/ Stop
  \/ \E n \in Names, v \in Builds : Deploy(n, v)

Spec == Init /\ [][Next]_vars

-----------------------------------------------------------------------------
(* Properties *)

Statuses == {"NONE", "RUNNING", "SKIPPED", "COMPLETED", "FAILED"}

Entry == {e \in [key : Keys, old : Values] : e.old \in ValuesAt(e.key)}

\* Every variable has a value of its kind.
TypeOK ==
  /\ store \in Storage /\ before \in Storage
  /\ state \in [hash : Hashes \cup {Nothing}, status : Statuses]
  /\ at \in {"down", "skip", "open", "import", "rollback", "up"}
  /\ known \in Hashes \cup {Nothing} /\ bundle \in Hashes \cup {Nothing}
  /\ left \subseteq Names
  /\ todo \in Seq(Task) /\ merged \in Record \cup {Nothing}
  /\ journal \in Seq(Entry)
  /\ faults \in 0..MaxFaults /\ starts \in 0..MaxStarts /\ deploys \in 0..MaxDeploys
  /\ undone \in BOOLEAN /\ sure \in BOOLEAN /\ users \subseteq Names

BelongsTo(c, record) == store[c] = [parent_algorithm_id |-> record.id]

\* A record names only what the storage has: the module and assets of each version, a manifest
\* of this algorithm for each checkpoint.
RecordIsWhole(n) ==
  store[n] # Nothing =>
    /\ \A i \in 1..Len(store[n].versions) : Stored(store[n].versions[i])
    /\ \A c \in store[n].checkpoints : BelongsTo(c, store[n])

\* A manifest names only assets that the storage has.
ManifestIsWhole(c) == store[c] # Nothing => Stored(AssetsOf[c])

\* A checkpoint of a record has its parent.
ParentIsThere(n) ==
  store[n] # Nothing =>
    \A c \in store[n].checkpoints : ParentOf[c] # Nothing => BelongsTo(ParentOf[c], store[n])

\* No version of an algorithm repeats the one before.
VersionsDiffer(n) ==
  store[n] # Nothing =>
    \A i \in 1..(Len(store[n].versions) - 1) : store[n].versions[i] # store[n].versions[i + 1]

\* At every step of an import, of its rollback, after a crash or a failed rollback, what the
\* storage offers can be used: no record and no manifest names an object that is missing, and a
\* repeated import adds no version twice.
StoreIsWhole ==
  /\ \A n \in Names : RecordIsWhole(n) /\ ParentIsThere(n) /\ VersionsDiffer(n)
  /\ \A c \in Checkpoints : ManifestIsWhole(c)

\* A rollback that met no failure leaves the storage as the import found it.
RollbackRestores == at = "rollback" /\ undone /\ journal = <<>> => store = before

\* What migration-state calls completed is there, but for what users deployed on top of it:
\* the last version and the checkpoints of each algorithm of the bundle. The exception is a
\* write of COMPLETED that fails and happened all the same.
CompletedIsImported ==
  state.status = "COMPLETED" /\ sure =>
    \A n \in DOMAIN Content[state.hash] :
      /\ store[n] # Nothing
      /\ n \notin users => Last(store[n].versions) = Last(Content[state.hash][n].versions)
      /\ ToSet(Content[state.hash][n].checkpoints) \subseteq store[n].checkpoints

\* A bundle is imported as a whole or not at all, as far as the storage lets the importer.
ImportIsAtomic == RollbackRestores /\ CompletedIsImported

=============================================================================
