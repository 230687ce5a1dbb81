--------------------------- MODULE AlgorithmStore ---------------------------
(***************************************************************************)
(* The algorithm store: records of algorithms with their minor versions,   *)
(* and the modules and assets the versions are made of, which are stored   *)
(* under the hash of their content and so are shared by every version and  *)
(* every algorithm that has them.  Deployments (AlgorithmDeployer and the  *)
(* endpoints, tasks and menus around it) add versions, removals            *)
(* (AlgorithmManager behind the DELETE endpoint and the system tray) take  *)
(* away a version or an algorithm.                                         *)
(*                                                                         *)
(* Nothing locks a record.  A deployment works on the record it read at    *)
(* its start, a removal on the records it listed at its start; both write  *)
(* the whole record back.  Artifacts are stored before the record that     *)
(* names them and deleted before the record that named them.               *)
(***************************************************************************)
EXTENDS Integers

CONSTANTS
  Names,        \* algorithms as users name them: a name and a major version
  Deployments,  \* deployments; the first one of a name makes up the algorithm's id
  Sources,      \* what may be deployed: each source is the set of its artifacts
  Overlap,      \* TRUE: operations overlap; FALSE: one runs at a time
  NoRecord,     \* what stands for an object that is not there
  MaxVersion, MaxRemovals, MaxFailures  \* bounds on unbounded repetition

Artifacts == UNION Sources

NoSource == {}

Versions == 0 .. MaxVersion

NoVersion == -1  \* None

ASSUME SourcesAssumption == NoSource \notin Sources

ASSUME BoundsAssumption ==
  MaxVersion \in Nat /\ MaxRemovals \in Nat /\ MaxFailures \in Nat

ASSUME OverlapAssumption == Overlap \in BOOLEAN

VARIABLES
  algorithms,  \* the algorithm-store: algorithms[id], a record or NoRecord
  store,       \* the module-store and the asset-store: the artifacts that are there
  begun,       \* the deployments that have begun
  deployment,  \* deployment[d]: the deployment in progress, or NoRecord
  removal,     \* the removal in progress, or NoRecord
  removals, failures  \* how many there were

vars == <<algorithms, store, begun, deployment, removal, removals, failures>>

-----------------------------------------------------------------------------
(* Records *)

\* versions[v]: the artifacts of minor version v, NoSource if there is none.
AlgorithmRecord ==
  [name: Names, versions: [Versions -> Sources \union {NoSource}],
   latest: Versions \union {NoVersion}, removable: BOOLEAN]

ASSUME NoRecordAssumption == NoRecord \notin AlgorithmRecord

VersionsOf(r) == {v \in Versions : r.versions[v] # NoSource}

ArtifactsOf(r) == UNION {r.versions[v] : v \in Versions}

Stored == {a \in Deployments : algorithms[a] # NoRecord}

BugNamed(n) == {}  \* Mutant: a deployment does not find what was deployed before.

Named(n) == {a \in Stored : algorithms[a].name = n}

\* The pairs the manager collects: what the algorithms other than a are made of.
BugUsedByOthers(a) == {}  \* Mutant: the pairs are not looked at.

BugUsedAtAll(a) == UNION {ArtifactsOf(algorithms[b]) : b \in Stored}  \* Mutant: a counts.

UsedByOthers(a) == UNION {ArtifactsOf(algorithms[b]) : b \in Stored \ {a}}

\* compose_new_algorithm_record
BugNewRecord(n, source, v, removable) ==  \* Mutant: latest is the next build number.
  [name |-> n, versions |-> [w \in Versions |-> IF w = v THEN source ELSE NoSource],
   latest |-> v + 1, removable |-> removable]

NewRecord(n, source, v, removable) ==
  [name |-> n, versions |-> [w \in Versions |-> IF w = v THEN source ELSE NoSource],
   latest |-> v, removable |-> removable]

\* insert_new_minor_version
BugWithVersion(r, source) ==  \* Mutant: the build number is not counted up.
  [r EXCEPT !.versions[r.latest] = source]

WithVersion(r, source) ==
  IF r.versions[r.latest] = source THEN r
  ELSE [r EXCEPT !.versions[r.latest + 1] = source,
                 !.latest = @ + 1]

\* The record delete_algorithm_minor_version leaves.
Newest(S) == IF S = {} THEN NoVersion ELSE CHOOSE v \in S : \A w \in S : w <= v

BugWithoutVersion(r, v) ==  \* Mutant: latest is not brought up to date.
  [r EXCEPT !.versions[v] = NoSource]

WithoutVersion(r, v) ==
  [r EXCEPT !.versions[v] = NoSource,
            !.latest = IF @ = v THEN Newest(VersionsOf(r) \ {v}) ELSE @]

-----------------------------------------------------------------------------
(* Operations in progress *)

\* at: building the module, storing artifacts and then the record, or in one half of the
\* updates that set the two flags; id: the algorithm's; copy: the record last read; todo: the
\* artifacts not stored yet.
DeployPlaces ==
  {"build", "store", "read_removable", "write_removable", "read_exportable", "write_exportable"}

Deployment ==
  [at: DeployPlaces, name: Names, source: Sources, id: Deployments,
   copy: AlgorithmRecord \union {NoRecord}, todo: SUBSET Artifacts]

\* version: the minor version to remove, NoVersion for all of the algorithm; listed:
\* the records of that name as listed and not treated yet; current: the one being
\* treated; doomed: the artifacts still to be deleted for it.
Removal ==
  [at: {"next", "artifacts", "erase"}, version: Versions \union {NoVersion},
   listed: [Deployments -> AlgorithmRecord \union {NoRecord}],
   current: Deployments, doomed: SUBSET Artifacts]

ASSUME NoOperationAssumption == NoRecord \notin Deployment /\ NoRecord \notin Removal

Quiet == removal = NoRecord /\ \A d \in Deployments : deployment[d] = NoRecord

MayBegin == Overlap \/ Quiet

-----------------------------------------------------------------------------
(* Deployment *)

\* find_existing_algorithm_by_name_and_major: the id and the record of one with
\* that name, or a fresh id.
BeginDeploy(d, n, source) ==
  /\ MayBegin
  /\ d \notin begun
  /\ begun' = begun \union {d}
  /\ \E a \in IF Named(n) = {} THEN {d} ELSE Named(n) :
       /\ algorithms[a] # NoRecord => algorithms[a].latest < MaxVersion  \* bound
       /\ deployment' = [deployment EXCEPT ![d] =
            [at |-> "build", name |-> n, source |-> source, id |-> a,
             copy |-> algorithms[a], todo |-> source]]
  /\ UNCHANGED <<algorithms, store, removal, removals, failures>>

\* _create_algorithm_module. The hash of the module is that of the transformed files.
CreateModule(d) ==
  /\ deployment[d] # NoRecord /\ deployment[d].at = "build"
  /\ deployment' = [deployment EXCEPT ![d].at = "store"]
  /\ UNCHANGED <<algorithms, store, begun, removal, removals, failures>>

\* There is no Runner, or the module cannot be imported here.
RefuseModule(d) ==
  /\ deployment[d] # NoRecord /\ deployment[d].at = "build"
  /\ deployment' = [deployment EXCEPT ![d] = NoRecord]
  /\ UNCHANGED <<algorithms, store, begun, removal, removals, failures>>

\* An artifact whose hash is in the store is not stored again.
StoreArtifact(d, x) ==
  /\ deployment[d] # NoRecord /\ deployment[d].at = "store"
  /\ x \in deployment[d].todo
  /\ store' = store \union {x}
  /\ deployment' = [deployment EXCEPT ![d].todo = @ \ {x}]
  /\ UNCHANGED <<algorithms, begun, removal, removals, failures>>

BugReadyToPublish(d) ==  \* Mutant: the record is stored ahead of its artifacts.
  deployment[d] # NoRecord /\ deployment[d].at = "store"

ReadyToPublish(d) ==
  deployment[d] # NoRecord /\ deployment[d].at = "store" /\ deployment[d].todo = {}

\* upsert_algorithm_record; what pyproject.toml says of minor and removable is used
\* for a new record only.
Publish(d, minor, removable) ==
  LET this == deployment[d]
  IN  /\ ReadyToPublish(d)
      /\ this.copy # NoRecord => this.copy.latest # NoVersion
      /\ algorithms' = [algorithms EXCEPT ![this.id] =
           IF this.copy = NoRecord THEN NewRecord(this.name, this.source, minor, removable)
           ELSE WithVersion(this.copy, this.source)]
      /\ deployment' = [deployment EXCEPT ![d].at = "read_removable", ![d].copy = NoRecord]
      /\ UNCHANGED <<store, begun, removal, removals, failures>>

\* A record without any version has latest None: looking it up raises KeyError.
PublishRaises(d) ==
  /\ ReadyToPublish(d)
  /\ deployment[d].copy # NoRecord /\ deployment[d].copy.latest = NoVersion
  /\ deployment' = [deployment EXCEPT ![d] = NoRecord]
  /\ UNCHANGED <<algorithms, store, begun, removal, removals, failures>>

\* What was started in the system tray, or by the command line without a server, ends here.
EndWithoutFlags(d) ==
  /\ deployment[d] # NoRecord /\ deployment[d].at = "read_removable"
  /\ deployment' = [deployment EXCEPT ![d] = NoRecord]
  /\ UNCHANGED <<algorithms, store, begun, removal, removals, failures>>

\* _set_algorithm_removable and _set_algorithm_exportable find the record, ...
ReadForFlag(d) ==
  /\ deployment[d] # NoRecord /\ algorithms[deployment[d].id] # NoRecord
  /\ \/ /\ deployment[d].at = "read_removable"
        /\ deployment' = [deployment EXCEPT ![d].at = "write_removable",
                                            ![d].copy = algorithms[deployment[d].id]]
     \/ /\ deployment[d].at = "read_exportable"
        /\ deployment' = [deployment EXCEPT ![d].at = "write_exportable",
                                            ![d].copy = algorithms[deployment[d].id]]
  /\ UNCHANGED <<algorithms, store, begun, removal, removals, failures>>

\* ... do nothing if there is none, ...
SkipFlag(d) ==
  /\ deployment[d] # NoRecord /\ algorithms[deployment[d].id] = NoRecord
  /\ \/ /\ deployment[d].at = "read_removable"
        /\ deployment' = [deployment EXCEPT ![d].at = "read_exportable"]
     \/ /\ deployment[d].at = "read_exportable"
        /\ deployment' = [deployment EXCEPT ![d] = NoRecord]
  /\ UNCHANGED <<algorithms, store, begun, removal, removals, failures>>

\* ... and write it back.
WriteRemovable(d, removable) ==
  /\ deployment[d] # NoRecord /\ deployment[d].at = "write_removable"
  /\ algorithms' = [algorithms EXCEPT ![deployment[d].id] =
       [deployment[d].copy EXCEPT !.removable = removable]]
  /\ deployment' = [deployment EXCEPT ![d].at = "read_exportable", ![d].copy = NoRecord]
  /\ UNCHANGED <<store, begun, removal, removals, failures>>

WriteExportable(d) ==
  /\ deployment[d] # NoRecord /\ deployment[d].at = "write_exportable"
  /\ algorithms' = [algorithms EXCEPT ![deployment[d].id] = deployment[d].copy]
  /\ deployment' = [deployment EXCEPT ![d] = NoRecord]
  /\ UNCHANGED <<store, begun, removal, removals, failures>>

\* Any call of a deployment may raise; what it has done stays.
DeployFails(d) ==
  /\ failures < MaxFailures
  /\ deployment[d] # NoRecord
  /\ deployment' = [deployment EXCEPT ![d] = NoRecord]
  /\ failures' = failures + 1
  /\ UNCHANGED <<algorithms, store, begun, removal, removals>>

-----------------------------------------------------------------------------
(* Removal, which the event loop runs without interruption by another one *)

\* list_algorithms of the name that a has.
ListForRemoval(a, v) ==
  /\ MayBegin
  /\ removal = NoRecord
  /\ removals < MaxRemovals
  /\ algorithms[a] # NoRecord
  /\ removals' = removals + 1
  /\ removal' =
       [at |-> "next", version |-> v, current |-> a, doomed |-> {},
        listed |-> [b \in Deployments |->
                      IF b \in Named(algorithms[a].name) THEN algorithms[b] ELSE NoRecord]]
  /\ UNCHANGED <<algorithms, store, begun, deployment, failures>>

\* delete_removable_algorithm
BeginRemoval(a, v) ==
  /\ algorithms[a] # NoRecord /\ algorithms[a].removable
  /\ ListForRemoval(a, v)

\* The menu of the system tray, which does not ask whether the algorithm is removable.
RemoveAtTray(a) == ListForRemoval(a, NoVersion)

\* The artifacts to delete are those no other algorithm is made of at this moment.
PlanRemoval(b) ==
  LET r == removal.listed[b]
      gone == IF removal.version = NoVersion THEN ArtifactsOf(r)
              ELSE r.versions[removal.version]
  IN  /\ removal # NoRecord /\ removal.at = "next"
      /\ r # NoRecord
      /\ removal' =
           IF removal.version = NoVersion \/ gone # NoSource
           THEN [removal EXCEPT !.at = "artifacts", !.current = b,
                                !.doomed = gone \ UsedByOthers(b)]
           ELSE [removal EXCEPT !.listed[b] = NoRecord]
      /\ UNCHANGED <<algorithms, store, begun, deployment, removals, failures>>

DeleteArtifact(x) ==
  /\ removal # NoRecord /\ x \in removal.doomed
  /\ store' = store \ {x}
  /\ removal' = [removal EXCEPT !.doomed = @ \ {x}]
  /\ UNCHANGED <<algorithms, begun, deployment, removals, failures>>

Treated(b) == [removal EXCEPT !.at = "next", !.listed[b] = NoRecord]

\* The record without the version; the record of an algorithm that has none left is
\* erased after that.
WriteWithout ==
  LET b == removal.current
      r == WithoutVersion(removal.listed[b], removal.version)
  IN  /\ removal # NoRecord /\ removal.at = "artifacts" /\ removal.doomed = {}
      /\ removal.version # NoVersion
      /\ algorithms' = [algorithms EXCEPT ![b] = r]
      /\ removal' = IF VersionsOf(r) = {} THEN [removal EXCEPT !.at = "erase"] ELSE Treated(b)
      /\ UNCHANGED <<store, begun, deployment, removals, failures>>

BugMayErase ==  \* Mutant: the number of versions left is not looked at.
  \/ removal.at = "erase"
  \/ removal.at = "artifacts" /\ removal.doomed = {}

MayErase ==
  \/ removal.at = "erase"
  \/ removal.at = "artifacts" /\ removal.doomed = {} /\ removal.version = NoVersion

EraseRecord ==
  /\ removal # NoRecord /\ MayErase
  /\ algorithms' = [algorithms EXCEPT ![removal.current] = NoRecord]
  /\ removal' = Treated(removal.current)
  /\ UNCHANGED <<store, begun, deployment, removals, failures>>

EndRemoval ==
  /\ removal # NoRecord /\ removal.at = "next"
  /\ \A b \in Deployments : removal.listed[b] = NoRecord
  /\ removal' = NoRecord
  /\ UNCHANGED <<algorithms, store, begun, deployment, removals, failures>>

\* Any call of a removal may raise; what it has done stays.
RemovalFails ==
  /\ failures < MaxFailures
  /\ removal # NoRecord
  /\ removal' = NoRecord
  /\ failures' = failures + 1
  /\ UNCHANGED <<algorithms, store, begun, deployment, removals>>

-----------------------------------------------------------------------------

Init ==
  /\ algorithms = [a \in Deployments |-> NoRecord]
  /\ store = {}
  /\ begun = {}
  /\ deployment = [d \in Deployments |-> NoRecord]
  /\ removal = NoRecord
  /\ removals = 0
  /\ failures = 0

DeployStep(d) ==
  \/ \E n \in Names, source \in Sources : BeginDeploy(d, n, source)
  \/ CreateModule(d)
  \/ RefuseModule(d)
  \/ \E x \in Artifacts : StoreArtifact(d, x)
  \/ \E minor \in Versions, removable \in BOOLEAN : Publish(d, minor, removable)
  \/ PublishRaises(d)
  \/ EndWithoutFlags(d)
  \/ ReadForFlag(d)
  \/ SkipFlag(d)
  \/ \E removable \in BOOLEAN : WriteRemovable(d, removable)
  \/ WriteExportable(d)
  \/ DeployFails(d)

RemovalStep ==
  \/ \E a \in Deployments, v \in Versions \union {NoVersion} : BeginRemoval(a, v)
  \/ \E a \in Deployments : RemoveAtTray(a)
  \/ \E b \in Deployments : PlanRemoval(b)
  \/ \E x \in Artifacts : DeleteArtifact(x)
  \/ WriteWithout
  \/ EraseRecord
  \/ EndRemoval
  \/ RemovalFails

Next == (\E d \in Deployments : DeployStep(d)) \/ RemovalStep

Spec == Init /\ [][Next]_vars

-----------------------------------------------------------------------------
(* Properties *)

TypeOK ==
  /\ algorithms \in [Deployments -> AlgorithmRecord \union {NoRecord}]
  /\ store \subseteq Artifacts
  /\ begun \subseteq Deployments
  /\ deployment \in [Deployments -> Deployment \union {NoRecord}]
  /\ removal \in Removal \union {NoRecord}
  /\ removals \in 0 .. MaxRemovals /\ failures \in 0 .. MaxFailures

\* The version a client gets by default is the newest one there is, whatever
\* overlaps: latest names a version of the record and no version is newer, and it
\* is None only in a record that has no version.
IsNewest(r) ==
  IF VersionsOf(r) = {} THEN r.latest = NoVersion
  ELSE r.latest \in VersionsOf(r) /\ \A v \in VersionsOf(r) : v <= r.latest

LatestIsNewest == \A a \in Stored : IsNewest(algorithms[a])

(* The rest is only true of operations that do not overlap.                *)

\* An artifact leaves the store only when the algorithm being removed is the only
\* one that is made of it: no removal breaks an algorithm of another name.
SparesOthers ==
  \A x \in store \ store' : \A a \in Stored \ {removal.current} :
    x \notin ArtifactsOf(algorithms[a])

OthersStayUsable == [][SparesOthers]_vars

\* What a deployment adds to a record is complete: each version that was not there
\* before has all its artifacts in the store.
AddsWhole ==
  \A a \in Deployments, v \in Versions :
    algorithms'[a] # NoRecord
      /\ (algorithms[a] # NoRecord => algorithms[a].versions[v] = NoSource)
    => algorithms'[a].versions[v] \subseteq store'

PublishedWhole == [][AddsWhole]_vars

\* A minor version is never redefined: as long as a record has a version, the version
\* is made of what it was first made of (records of tasks and results name versions).
RedefinesNone ==
  \A a \in Stored, v \in Versions :
    algorithms'[a] # NoRecord /\ algorithms[a].versions[v] # NoSource
    => algorithms'[a].versions[v] \in {algorithms[a].versions[v], NoSource}

VersionsKeepTheirSource == [][RedefinesNone]_vars

\* Removing a minor version never takes the algorithm with it while it has another.
ErasesEmpty ==
  \A a \in Stored :
    algorithms'[a] = NoRecord /\ removal.version # NoVersion
    => VersionsOf(algorithms[a]) = {}

OtherVersionsKeepAlgorithm == [][ErasesEmpty]_vars

\* A name and a major version lead to one record, however often it is deployed.
OneRecordPerName ==
  \A a, b \in Stored : algorithms[a].name = algorithms[b].name => a = b

\* When all is done and nothing failed, the store holds no artifact that no
\* algorithm is made of, and no record without a version (which could not be
\* deployed again).
NothingLeftBehind ==
  Quiet /\ failures = 0 =>
    /\ store \subseteq UNION {ArtifactsOf(algorithms[a]) : a \in Stored}
    /\ \A a \in Stored : VersionsOf(algorithms[a]) # {}

\* When all is done and nothing failed, the artifacts of every version of every
\* algorithm are in the store.
VersionsStayUsable ==
  Quiet /\ failures = 0 =>
    \A a \in Stored : ArtifactsOf(algorithms[a]) \subseteq store
=============================================================================
