------------------------ MODULE AlgorithmStore_proofs ------------------------
(***************************************************************************)
(* Proofs about AlgorithmStore for every set of names, sources and         *)
(* deployments and for every bound.                                        *)
(***************************************************************************)
EXTENDS AlgorithmStore, FiniteSetTheorems, WellFoundedInduction, TLAPS

\* TypeOK is not inductive: a record is written from a copy only where one was read,
\* and a build number is counted up only below the bound.
DeploymentOK(d) ==
  /\ deployment[d].at \in {"write_removable", "write_exportable"}
       => deployment[d].copy # NoRecord
  /\ deployment[d].at \in {"build", "store"} /\ deployment[d].copy # NoRecord
       => deployment[d].copy.latest < MaxVersion

RemovalOK == removal.at # "next" => removal.listed[removal.current] # NoRecord

TypeInv ==
  /\ TypeOK
  /\ \A d \in Deployments : deployment[d] # NoRecord => DeploymentOK(d)
  /\ removal # NoRecord => RemovalOK

\* A set of build numbers that is not empty has a newest one.
LEMMA NewestExists ==
  ASSUME NEW S \in SUBSET Versions, S # {}
  PROVE  Newest(S) \in S /\ \A w \in S : w <= Newest(S)
<1> DEFINE Above(v) == {w \in S : w > v}
           T == {Above(v) : v \in S}
<1>1. S \subseteq Nat /\ IsFiniteSet(S)
  <2>1. IsFiniteSet(Versions) /\ Versions \subseteq Nat
    BY FS_Interval, BoundsAssumption DEF Versions
  <2> QED
    BY <2>1, FS_Subset
<1>2. IsWellFoundedOn(StrictSubsetOrdering(S), SUBSET S)
  BY <1>1, FS_StrictSubsetOrderingWellFounded, FS_FiniteSubsetsOfFinite
<1>3. T \subseteq SUBSET S /\ T # {}
  OBVIOUS
<1>4. PICK x \in T : \A y \in T : ~ (<<y, x>> \in StrictSubsetOrdering(S))
  BY <1>2, <1>3, WFMin
<1>5. PICK v \in S : x = Above(v)
  OBVIOUS
<1>6. \A w \in S : w <= v
  <2> SUFFICES ASSUME NEW w \in S, w > v PROVE FALSE
    BY <1>1
  <2>0. Above(w) \in T
    OBVIOUS
  <2>1. Above(w) \subseteq Above(v)
    <3> SUFFICES ASSUME NEW u \in S, u > w PROVE u > v
      OBVIOUS
    <3> QED
      BY <1>1
  <2>2. w \in Above(v) /\ w \notin Above(w)
    BY <1>1
  <2>3. <<Above(w), Above(v)>> \in StrictSubsetOrdering(S)
    BY <2>1, <2>2 DEF StrictSubsetOrdering
  <2> QED
    BY <2>0, <2>3, <1>4, <1>5
<1> QED
  BY <1>6 DEF Newest

\* Newest is a build number, or None for no versions.
LEMMA NewestType ==
  ASSUME NEW S \in SUBSET Versions
  PROVE  Newest(S) \in Versions \union {NoVersion}
<1>1. CASE S = {}
  BY <1>1 DEF Newest
<1>2. CASE S # {}
  BY <1>2, NewestExists
<1> QED
  BY <1>1, <1>2

\* The three ways to make a record make a record.
LEMMA NewRecordType ==
  ASSUME NEW n \in Names, NEW source \in Sources, NEW v \in Versions, NEW b \in BOOLEAN
  PROVE  NewRecord(n, source, v, b) \in AlgorithmRecord
BY DEF NewRecord, AlgorithmRecord

LEMMA WithVersionType ==
  ASSUME NEW r \in AlgorithmRecord, NEW source \in Sources,
         r.latest < MaxVersion
  PROVE  WithVersion(r, source) \in AlgorithmRecord
<1>1. r.latest + 1 \in Versions
  BY BoundsAssumption DEF AlgorithmRecord, Versions, NoVersion
<1> QED
  BY <1>1 DEF WithVersion, AlgorithmRecord

LEMMA WithoutVersionType ==
  ASSUME NEW r \in AlgorithmRecord, NEW v \in Versions
  PROVE  WithoutVersion(r, v) \in AlgorithmRecord
<1>1. Newest(VersionsOf(r) \ {v}) \in Versions \union {NoVersion}
  BY NewestType DEF VersionsOf
<1> QED
  BY <1>1 DEF WithoutVersion, AlgorithmRecord

\* The initial state satisfies the inductive invariant.
LEMMA TypeInit == Init => TypeInv
BY BoundsAssumption, NoRecordAssumption DEF Init, TypeInv, TypeOK

\* A step of a deployment preserves it.
LEMMA TypeDeploy ==
  ASSUME TypeInv, NEW d \in Deployments, DeployStep(d)
  PROVE  TypeInv'
<1> USE DEF TypeInv, TypeOK, DeploymentOK, RemovalOK, Deployment, DeployPlaces
<1>1. ASSUME NEW n \in Names, NEW source \in Sources, BeginDeploy(d, n, source)
      PROVE  TypeInv'
  <2>1. PICK a \in IF Named(n) = {} THEN {d} ELSE Named(n) :
          /\ algorithms[a] # NoRecord => algorithms[a].latest < MaxVersion
          /\ deployment' = [deployment EXCEPT ![d] =
               [at |-> "build", name |-> n, source |-> source, id |-> a,
                copy |-> algorithms[a], todo |-> source]]
    BY <1>1 DEF BeginDeploy
  <2>2. a \in Deployments
    BY <2>1 DEF Named, Stored
  <2>3. source \subseteq Artifacts
    BY DEF Artifacts
  <2> QED
    BY <1>1, <2>1, <2>2, <2>3, NoRecordAssumption DEF BeginDeploy
<1>2. ASSUME NEW x \in Artifacts, StoreArtifact(d, x) PROVE TypeInv'
  BY <1>2, NoRecordAssumption DEF StoreArtifact
<1>3. ASSUME NEW minor \in Versions, NEW b \in BOOLEAN, Publish(d, minor, b)
      PROVE  TypeInv'
  <2> DEFINE this == deployment[d]
             r == IF this.copy = NoRecord THEN NewRecord(this.name, this.source, minor, b)
                  ELSE WithVersion(this.copy, this.source)
  <2>1. r \in AlgorithmRecord
    BY <1>3, NewRecordType, WithVersionType DEF Publish, ReadyToPublish
  <2> QED
    BY <1>3, <2>1, NoRecordAssumption DEF Publish, ReadyToPublish
<1>4. CASE PublishRaises(d)
  BY <1>4 DEF PublishRaises
<1>5. CASE ReadForFlag(d)
  BY <1>5, NoRecordAssumption DEF ReadForFlag
<1>6. CASE SkipFlag(d)
  BY <1>6, NoRecordAssumption DEF SkipFlag
<1>7. ASSUME NEW b \in BOOLEAN, WriteRemovable(d, b) PROVE TypeInv'
  <2>1. [deployment[d].copy EXCEPT !.removable = b] \in AlgorithmRecord
    BY <1>7 DEF WriteRemovable, AlgorithmRecord
  <2> QED
    BY <1>7, <2>1, NoRecordAssumption DEF WriteRemovable
<1>8. CASE WriteExportable(d)
  BY <1>8, NoRecordAssumption DEF WriteExportable
<1>9. CASE DeployFails(d)
  BY <1>9, BoundsAssumption DEF DeployFails
<1>10. CASE CreateModule(d)
  BY <1>10, NoRecordAssumption DEF CreateModule
<1>11. CASE RefuseModule(d) \/ EndWithoutFlags(d)
  BY <1>11 DEF RefuseModule, EndWithoutFlags
<1> QED
  BY <1>1, <1>2, <1>3, <1>4, <1>5, <1>6, <1>7, <1>8, <1>9, <1>10, <1>11 DEF DeployStep

\* A step of a removal preserves it.
LEMMA TypeRemoval ==
  ASSUME TypeInv, RemovalStep
  PROVE  TypeInv'
<1> USE DEF TypeInv, TypeOK, DeploymentOK, RemovalOK, Removal
<1>1. ASSUME NEW a \in Deployments, NEW v \in Versions \union {NoVersion},
             BeginRemoval(a, v) \/ RemoveAtTray(a)
      PROVE  TypeInv'
  BY <1>1, BoundsAssumption, NoRecordAssumption DEF BeginRemoval, RemoveAtTray, ListForRemoval
<1>2. ASSUME NEW b \in Deployments, PlanRemoval(b) PROVE TypeInv'
  <2> DEFINE r == removal.listed[b]
             gone == IF removal.version = NoVersion THEN ArtifactsOf(r)
                     ELSE r.versions[removal.version]
  <2>1. r \in AlgorithmRecord
    BY <1>2 DEF PlanRemoval
  <2>2. gone \subseteq Artifacts
    BY <1>2, <2>1 DEF PlanRemoval, AlgorithmRecord, ArtifactsOf, Artifacts, NoSource
  <2>3. removal' \in Removal /\ RemovalOK'
    BY <1>2, <2>1, <2>2, NoRecordAssumption DEF PlanRemoval
  <2> QED
    BY <1>2, <2>3 DEF PlanRemoval
<1>3. ASSUME NEW x \in Artifacts, DeleteArtifact(x) PROVE TypeInv'
  BY <1>3 DEF DeleteArtifact
<1>4. CASE WriteWithout
  <2> DEFINE b == removal.current
             r == WithoutVersion(removal.listed[b], removal.version)
  <2>1. b \in Deployments /\ r \in AlgorithmRecord
    BY <1>4, WithoutVersionType DEF WriteWithout
  <2>2. removal' \in Removal /\ RemovalOK'
    BY <1>4, <2>1 DEF WriteWithout, Treated
  <2>3. algorithms' = [algorithms EXCEPT ![b] = r]
    BY <1>4 DEF WriteWithout
  <2> QED
    BY <1>4, <2>1, <2>2, <2>3 DEF WriteWithout
<1>5. CASE EraseRecord
  BY <1>5, NoRecordAssumption DEF EraseRecord, Treated
<1>6. CASE EndRemoval
  BY <1>6 DEF EndRemoval
<1>7. CASE RemovalFails
  BY <1>7, BoundsAssumption DEF RemovalFails
<1> QED
  BY <1>1, <1>2, <1>3, <1>4, <1>5, <1>6, <1>7 DEF RemovalStep

\* TypeInv is an invariant; so is TypeOK, the type of every variable.
LEMMA TypeInvariance == Spec => []TypeInv
<1>1. TypeInv /\ [Next]_vars => TypeInv'
  <2>1. CASE UNCHANGED vars
    BY <2>1 DEF vars, TypeInv, TypeOK, DeploymentOK, RemovalOK
  <2> QED
    BY <2>1, TypeDeploy, TypeRemoval DEF Next
<1> QED
  BY <1>1, TypeInit, PTL DEF Spec

THEOREM TypeCorrect == Spec => []TypeOK
<1>1. TypeInv => TypeOK
  BY DEF TypeInv
<1> QED
  BY <1>1, TypeInvariance, PTL

-----------------------------------------------------------------------------
(* The latest version is the newest one, in the store and in every copy of  *)
(* a record that somebody may still write back.                            *)

NewestInv ==
  /\ LatestIsNewest
  /\ \A d \in Deployments :
       deployment[d] # NoRecord /\ deployment[d].copy # NoRecord
       => IsNewest(deployment[d].copy)
  /\ \A b \in Deployments :
       removal # NoRecord /\ removal.listed[b] # NoRecord => IsNewest(removal.listed[b])

\* A new record has one version, its latest.
LEMMA NewRecordNewest ==
  ASSUME NEW n, NEW source \in Sources, NEW v \in Versions, NEW b
  PROVE  IsNewest(NewRecord(n, source, v, b))
<1> DEFINE r == NewRecord(n, source, v, b)
<1>1. VersionsOf(r) = {v} /\ r.latest = v
  BY SourcesAssumption DEF VersionsOf, NewRecord
<1>2. v <= v
  BY BoundsAssumption DEF Versions
<1> QED
  BY <1>1, <1>2 DEF IsNewest

\* A version is added above all others.
LEMMA WithVersionNewest ==
  ASSUME NEW r \in AlgorithmRecord, NEW source \in Sources,
         IsNewest(r), r.latest < MaxVersion, r.latest # NoVersion
  PROVE  IsNewest(WithVersion(r, source))
<1> DEFINE q == WithVersion(r, source)
           next == r.latest + 1
<1>1. r.latest \in Versions /\ next \in Versions /\ next > r.latest
  BY BoundsAssumption DEF AlgorithmRecord, Versions, NoVersion
<1>2. CASE r.versions[r.latest] = source
  BY <1>2 DEF WithVersion
<1>3. CASE r.versions[r.latest] # source
  <2>1. q.latest = next /\ q.versions = [r.versions EXCEPT ![next] = source]
    BY <1>3 DEF WithVersion, AlgorithmRecord
  <2>2. VersionsOf(q) = VersionsOf(r) \union {next}
    BY <1>1, <2>1, SourcesAssumption DEF VersionsOf, AlgorithmRecord
  <2>3. \A v \in VersionsOf(r) : v <= r.latest
    BY DEF IsNewest
  <2>4. \A v \in VersionsOf(q) : v <= next
    BY <1>1, <2>2, <2>3, BoundsAssumption DEF VersionsOf, Versions
  <2> QED
    BY <2>1, <2>2, <2>4 DEF IsNewest
<1> QED
  BY <1>2, <1>3

\* When the latest version is removed, the newest of the others takes its place.
LEMMA WithoutVersionNewest ==
  ASSUME NEW r \in AlgorithmRecord, NEW v \in Versions, IsNewest(r)
  PROVE  IsNewest(WithoutVersion(r, v))
<1> DEFINE q == WithoutVersion(r, v)
           left == VersionsOf(r) \ {v}
<1>1. VersionsOf(q) = left
  BY DEF VersionsOf, WithoutVersion, AlgorithmRecord
<1>2. CASE r.latest = v
  <2>1. q.latest = Newest(left)
    BY <1>2 DEF WithoutVersion, AlgorithmRecord
  <2>2. left \in SUBSET Versions
    BY DEF VersionsOf
  <2>3. CASE left = {}
    BY <1>1, <2>1, <2>3 DEF IsNewest, Newest
  <2>4. CASE left # {}
    BY <1>1, <2>1, <2>2, <2>4, NewestExists DEF IsNewest
  <2> QED
    BY <2>3, <2>4
<1>3. CASE r.latest # v
  <2>1. q.latest = r.latest
    BY <1>3 DEF WithoutVersion, AlgorithmRecord
  <2>2. CASE VersionsOf(r) = {}
    BY <1>1, <2>1, <2>2 DEF IsNewest
  <2>3. CASE VersionsOf(r) # {}
    BY <1>1, <1>3, <2>1, <2>3 DEF IsNewest
  <2> QED
    BY <2>2, <2>3
<1> QED
  BY <1>2, <1>3

\* The flags do not matter.
LEMMA FlagNewest ==
  ASSUME NEW r \in AlgorithmRecord, NEW b, IsNewest(r)
  PROVE  IsNewest([r EXCEPT !.removable = b])
BY DEF IsNewest, VersionsOf, AlgorithmRecord

\* A record that is stored takes the place of one record.
LEMMA NewestPut ==
  ASSUME TypeInv, NewestInv, NEW a \in Deployments, NEW r,
         algorithms' = [algorithms EXCEPT ![a] = r], r # NoRecord => IsNewest(r)
  PROVE  LatestIsNewest'
BY DEF LatestIsNewest, NewestInv, Stored, TypeInv, TypeOK

\* A step of a deployment stores and copies such records only.
LEMMA NewestDeploy ==
  ASSUME TypeInv, NewestInv, NEW d \in Deployments, DeployStep(d)
  PROVE  NewestInv'
<1> USE DEF TypeInv, TypeOK, NewestInv, Deployment
<1>k. LatestIsNewest' <=> (\A a \in Deployments : algorithms'[a] # NoRecord => IsNewest(algorithms'[a]))
  BY DEF LatestIsNewest, Stored
<1>s. \A a \in Deployments : algorithms[a] # NoRecord => IsNewest(algorithms[a])
  BY DEF LatestIsNewest, Stored
<1>1. ASSUME NEW n \in Names, NEW source \in Sources, BeginDeploy(d, n, source)
      PROVE  NewestInv'
  <2>1. PICK a \in IF Named(n) = {} THEN {d} ELSE Named(n) :
          deployment' = [deployment EXCEPT ![d] =
            [at |-> "build", name |-> n, source |-> source, id |-> a,
             copy |-> algorithms[a], todo |-> source]]
    BY <1>1 DEF BeginDeploy
  <2>2. a \in Deployments
    BY <2>1 DEF Named, Stored
  <2> QED
    BY <1>1, <1>k, <1>s, <2>1, <2>2 DEF BeginDeploy
<1>2. ASSUME NEW x \in Artifacts, StoreArtifact(d, x) PROVE NewestInv'
  BY <1>2, <1>k, <1>s DEF StoreArtifact
<1>3. ASSUME NEW minor \in Versions, NEW b \in BOOLEAN, Publish(d, minor, b)
      PROVE  NewestInv'
  <2> DEFINE this == deployment[d]
             r == IF this.copy = NoRecord THEN NewRecord(this.name, this.source, minor, b)
                  ELSE WithVersion(this.copy, this.source)
  <2>1. this \in Deployment /\ this.at = "store" /\ DeploymentOK(d)
    BY <1>3 DEF Publish, ReadyToPublish
  <2>2. ASSUME this.copy = NoRecord PROVE IsNewest(r)
    BY <2>1, <2>2, NewRecordNewest
  <2>3. ASSUME this.copy # NoRecord PROVE IsNewest(r)
    <3>1. /\ this.copy \in AlgorithmRecord /\ IsNewest(this.copy)
          /\ this.copy.latest < MaxVersion /\ this.copy.latest # NoVersion
      BY <1>3, <2>1, <2>3 DEF Publish, ReadyToPublish, DeploymentOK
    <3> QED
      BY <2>1, <2>3, <3>1, WithVersionNewest
  <2>4. IsNewest(r)
    BY <2>2, <2>3
  <2>5. LatestIsNewest'
    BY <1>3, <2>1, <2>4, NewestPut DEF Publish
  <2> QED
    BY <1>3, <2>5 DEF Publish, ReadyToPublish
<1>4. CASE PublishRaises(d)
  BY <1>4, <1>k, <1>s DEF PublishRaises, ReadyToPublish
<1>5. CASE ReadForFlag(d)
  <2>1. deployment[d].id \in Deployments
    BY <1>5 DEF ReadForFlag
  <2> QED
    BY <1>5, <1>k, <1>s, <2>1 DEF ReadForFlag
<1>6. CASE SkipFlag(d)
  BY <1>6, <1>k, <1>s DEF SkipFlag
<1>7. ASSUME NEW b \in BOOLEAN, WriteRemovable(d, b) PROVE NewestInv'
  <2>1. IsNewest([deployment[d].copy EXCEPT !.removable = b])
    BY <1>7, FlagNewest DEF WriteRemovable, DeploymentOK
  <2>2. LatestIsNewest'
    BY <1>7, <2>1, NewestPut DEF WriteRemovable
  <2> QED
    BY <1>7, <2>2 DEF WriteRemovable
<1>8. CASE WriteExportable(d)
  <2>1. IsNewest(deployment[d].copy)
    BY <1>8 DEF WriteExportable, DeploymentOK
  <2>2. LatestIsNewest'
    BY <1>8, <2>1, NewestPut DEF WriteExportable
  <2> QED
    BY <1>8, <2>2 DEF WriteExportable
<1>9. CASE DeployFails(d)
  BY <1>9, <1>k, <1>s DEF DeployFails
<1>10. CASE CreateModule(d) \/ RefuseModule(d) \/ EndWithoutFlags(d)
  BY <1>10, <1>k, <1>s DEF CreateModule, RefuseModule, EndWithoutFlags
<1> QED
  BY <1>1, <1>2, <1>3, <1>4, <1>5, <1>6, <1>7, <1>8, <1>9, <1>10 DEF DeployStep

\* A step of a removal stores and lists such records only.
LEMMA NewestRemoval ==
  ASSUME TypeInv, NewestInv, RemovalStep
  PROVE  NewestInv'
<1> USE DEF TypeInv, TypeOK, NewestInv, Removal
<1>k. LatestIsNewest' <=> (\A a \in Deployments : algorithms'[a] # NoRecord => IsNewest(algorithms'[a]))
  BY DEF LatestIsNewest, Stored
<1>s. \A a \in Deployments : algorithms[a] # NoRecord => IsNewest(algorithms[a])
  BY DEF LatestIsNewest, Stored
<1>1. ASSUME NEW a \in Deployments, NEW v \in Versions \union {NoVersion},
             BeginRemoval(a, v) \/ RemoveAtTray(a)
      PROVE  NewestInv'
  BY <1>1, <1>k, <1>s DEF BeginRemoval, RemoveAtTray, ListForRemoval
<1>2. ASSUME NEW b \in Deployments, PlanRemoval(b) PROVE NewestInv'
  BY <1>2, <1>k, <1>s DEF PlanRemoval
<1>3. ASSUME NEW x \in Artifacts, DeleteArtifact(x) PROVE NewestInv'
  BY <1>3, <1>k, <1>s DEF DeleteArtifact
<1>4. CASE WriteWithout
  <2> DEFINE b == removal.current
             r == WithoutVersion(removal.listed[b], removal.version)
  <2>1. IsNewest(r)
    BY <1>4, WithoutVersionNewest DEF WriteWithout, RemovalOK
  <2>2. LatestIsNewest'
    BY <1>4, <2>1, NewestPut DEF WriteWithout
  <2> QED
    BY <1>4, <2>2 DEF WriteWithout, Treated
<1>5. CASE EraseRecord
  <2>1. LatestIsNewest'
    BY <1>5, NewestPut DEF EraseRecord
  <2> QED
    BY <1>5, <2>1 DEF EraseRecord, Treated
<1>6. CASE EndRemoval
  BY <1>6, <1>k, <1>s DEF EndRemoval
<1>7. CASE RemovalFails
  BY <1>7, <1>k, <1>s DEF RemovalFails
<1> QED
  BY <1>1, <1>2, <1>3, <1>4, <1>5, <1>6, <1>7 DEF RemovalStep

\* So they all are, always.
LEMMA NewestInvariance == Spec => []NewestInv
<1>1. Init => NewestInv
  BY DEF Init, NewestInv, LatestIsNewest, Stored
<1>2. TypeInv /\ NewestInv /\ [Next]_vars => NewestInv'
  <2>1. CASE UNCHANGED vars
    BY <2>1 DEF vars, NewestInv, LatestIsNewest, Stored
  <2> QED
    BY <2>1, NewestDeploy, NewestRemoval DEF Next
<1> QED
  BY <1>1, <1>2, TypeInvariance, PTL DEF Spec

\* The version a client gets by default is the newest one there is, although
\* deployments and removals that overlap write back stale copies of the record.
THEOREM LatestVersionIsNewest == Spec => []LatestIsNewest
<1>1. NewestInv => LatestIsNewest
  BY DEF NewestInv
<1> QED
  BY <1>1, NewestInvariance, PTL

-----------------------------------------------------------------------------
(* Operations that do not overlap: every copy of a record is the record.   *)

\* A deployment works on what the store holds.
DeploymentFresh(d) ==
  /\ removal = NoRecord
  /\ \A e \in Deployments \ {d} : deployment[e] = NoRecord
  /\ deployment[d].at \in {"build", "store"} =>
       /\ deployment[d].copy = algorithms[deployment[d].id]
       /\ deployment[d].copy = NoRecord => Named(deployment[d].name) = {}
       /\ deployment[d].source \subseteq store \union deployment[d].todo
       /\ deployment[d].todo \subseteq deployment[d].source
  /\ deployment[d].at \in {"write_removable", "write_exportable"} =>
       deployment[d].copy = algorithms[deployment[d].id]

\* A removal works on what the store holds, and deletes nothing that is used elsewhere.
RemovalFresh ==
  /\ \A d \in Deployments : deployment[d] = NoRecord
  /\ \A b \in Deployments :
       removal.listed[b] # NoRecord /\ ~(removal.at = "erase" /\ b = removal.current)
       => removal.listed[b] = algorithms[b]
  /\ removal.at # "artifacts" => removal.doomed = {}
  /\ removal.at = "artifacts" => removal.doomed \intersect UsedByOthers(removal.current) = {}
  /\ removal.at = "erase" =>
       /\ algorithms[removal.current] # NoRecord
       /\ VersionsOf(algorithms[removal.current]) = {}

SerialInv ==
  /\ \A d \in Deployments : deployment[d] # NoRecord => DeploymentFresh(d)
  /\ removal # NoRecord => RemovalFresh
  /\ OneRecordPerName
\* A step of a deployment that is alone.
LEMMA SerialDeploy ==
  ASSUME ~Overlap, TypeInv, SerialInv, NEW d \in Deployments, DeployStep(d)
  PROVE  SerialInv'
<1> USE DEF TypeInv, TypeOK, SerialInv, DeploymentFresh, Deployment
<1>n. ASSUME UNCHANGED algorithms PROVE OneRecordPerName' /\ (\A n : Named(n)' = Named(n))
  BY <1>n DEF OneRecordPerName, Stored, Named
<1>p. ASSUME NEW a \in Deployments, NEW r \in AlgorithmRecord,
             algorithms' = [algorithms EXCEPT ![a] = r],
             Named(r.name) \subseteq {a}
      PROVE  OneRecordPerName'
  BY <1>p, NoRecordAssumption DEF OneRecordPerName, Stored, Named
<1>q. ASSUME NEW a \in Stored PROVE Named(algorithms[a].name) \subseteq {a}
  BY <1>q DEF OneRecordPerName, Named, Stored
<1>1. ASSUME NEW n \in Names, NEW source \in Sources, BeginDeploy(d, n, source)
      PROVE  SerialInv'
  <2>1. PICK a \in IF Named(n) = {} THEN {d} ELSE Named(n) :
          deployment' = [deployment EXCEPT ![d] =
            [at |-> "build", name |-> n, source |-> source, id |-> a,
             copy |-> algorithms[a], todo |-> source]]
    BY <1>1 DEF BeginDeploy
  <2>2. /\ a \in Deployments
        /\ algorithms[a] = NoRecord => Named(n) = {}
    BY <2>1 DEF Named, Stored
  <2>3. Quiet /\ UNCHANGED <<algorithms, store, removal>>
    BY <1>1 DEF BeginDeploy, MayBegin
  <2> QED
    BY <1>n, <2>1, <2>2, <2>3 DEF Quiet
<1>2. ASSUME NEW x \in Artifacts, StoreArtifact(d, x) PROVE SerialInv'
  BY <1>2, <1>n DEF StoreArtifact
<1>3. ASSUME NEW minor \in Versions, NEW b \in BOOLEAN, Publish(d, minor, b)
      PROVE  SerialInv'
  <2> DEFINE this == deployment[d]
             r == IF this.copy = NoRecord THEN NewRecord(this.name, this.source, minor, b)
                  ELSE WithVersion(this.copy, this.source)
  <2>1. this \in Deployment /\ this.at = "store" /\ DeploymentOK(d) /\ DeploymentFresh(d)
    BY <1>3 DEF Publish, ReadyToPublish
  <2>2. ASSUME this.copy = NoRecord
        PROVE  r \in AlgorithmRecord /\ Named(r.name) \subseteq {this.id}
    BY <2>1, <2>2, NewRecordType DEF NewRecord
  <2>3. ASSUME this.copy # NoRecord
        PROVE  r \in AlgorithmRecord /\ Named(r.name) \subseteq {this.id}
    <3>1. r \in AlgorithmRecord
      BY <2>1, <2>3, WithVersionType DEF DeploymentOK
    <3>2. r.name = algorithms[this.id].name /\ this.id \in Stored
      BY <2>1, <2>3 DEF WithVersion, AlgorithmRecord, Stored
    <3> QED
      BY <1>q, <3>1, <3>2
  <2>4. OneRecordPerName'
    BY <1>3, <1>p, <2>1, <2>2, <2>3 DEF Publish
  <2> QED
    BY <1>3, <2>1, <2>4 DEF Publish
<1>4. CASE PublishRaises(d)
  BY <1>4, <1>n DEF PublishRaises, ReadyToPublish
<1>5. CASE ReadForFlag(d)
  BY <1>5, <1>n DEF ReadForFlag
<1>6. CASE SkipFlag(d)
  BY <1>6, <1>n DEF SkipFlag
<1>7. ASSUME NEW b \in BOOLEAN, WriteRemovable(d, b) PROVE SerialInv'
  <2> DEFINE r == [deployment[d].copy EXCEPT !.removable = b]
  <2>1. /\ deployment[d] # NoRecord /\ deployment[d].id \in Deployments
        /\ deployment[d].copy = algorithms[deployment[d].id]
        /\ deployment[d].copy \in AlgorithmRecord
    BY <1>7 DEF WriteRemovable, DeploymentOK
  <2>2. r \in AlgorithmRecord /\ r.name = algorithms[deployment[d].id].name
    BY <2>1 DEF AlgorithmRecord
  <2>3. deployment[d].id \in Stored
    BY <2>1, NoRecordAssumption DEF Stored
  <2>4. OneRecordPerName'
    BY <1>7, <1>p, <1>q, <2>1, <2>2, <2>3 DEF WriteRemovable
  <2> QED
    BY <1>7, <2>4 DEF WriteRemovable
<1>8. CASE WriteExportable(d)
  <2>1. /\ deployment[d] # NoRecord /\ deployment[d].id \in Deployments
        /\ deployment[d].copy = algorithms[deployment[d].id]
    BY <1>8 DEF WriteExportable
  <2>2. algorithms' = algorithms
    BY <1>8, <2>1 DEF WriteExportable
  <2> QED
    BY <1>8, <1>n, <2>2 DEF WriteExportable
<1>9. CASE DeployFails(d)
  BY <1>9, <1>n DEF DeployFails
<1>10. CASE CreateModule(d)
  BY <1>10, <1>n DEF CreateModule
<1>11. CASE RefuseModule(d) \/ EndWithoutFlags(d)
  BY <1>11, <1>n DEF RefuseModule, EndWithoutFlags
<1> QED
  BY <1>1, <1>2, <1>3, <1>4, <1>5, <1>6, <1>7, <1>8, <1>9, <1>10, <1>11 DEF DeployStep

\* A step of a removal that is alone.
LEMMA SerialRemoval ==
  ASSUME ~Overlap, TypeInv, SerialInv, RemovalStep
  PROVE  SerialInv'
<1> USE DEF TypeInv, TypeOK, SerialInv, RemovalFresh, Removal
<1>n. ASSUME UNCHANGED algorithms
      PROVE  OneRecordPerName' /\ (\A a : UsedByOthers(a)' = UsedByOthers(a))
  BY <1>n DEF OneRecordPerName, Stored, UsedByOthers
<1>1. ASSUME NEW a \in Deployments, NEW v \in Versions \union {NoVersion},
             BeginRemoval(a, v) \/ RemoveAtTray(a)
      PROVE  SerialInv'
  <2>1. Quiet
    BY <1>1 DEF BeginRemoval, RemoveAtTray, ListForRemoval, MayBegin
  <2> QED
    BY <1>1, <1>n, <2>1 DEF BeginRemoval, RemoveAtTray, ListForRemoval, Quiet
<1>2. ASSUME NEW b \in Deployments, PlanRemoval(b) PROVE SerialInv'
  <2> DEFINE r == removal.listed[b]
             gone == IF removal.version = NoVersion THEN ArtifactsOf(r)
                     ELSE r.versions[removal.version]
  <2>1. CASE removal' = [removal EXCEPT !.at = "artifacts", !.current = b,
                                        !.doomed = gone \ UsedByOthers(b)]
    BY <1>2, <1>n, <2>1 DEF PlanRemoval
  <2>2. CASE removal' = [removal EXCEPT !.listed[b] = NoRecord]
    BY <1>2, <1>n, <2>2 DEF PlanRemoval
  <2> QED
    BY <1>2, <2>1, <2>2 DEF PlanRemoval
<1>3. ASSUME NEW x \in Artifacts, DeleteArtifact(x) PROVE SerialInv'
  BY <1>3, <1>n DEF DeleteArtifact
<1>4. CASE WriteWithout
  <2> DEFINE b == removal.current
             r == WithoutVersion(removal.listed[b], removal.version)
  <2>1. /\ b \in Deployments /\ removal.listed[b] \in AlgorithmRecord
        /\ removal.listed[b] = algorithms[b] /\ removal.version \in Versions
    BY <1>4 DEF WriteWithout, RemovalOK
  <2>2. r \in AlgorithmRecord /\ r.name = algorithms[b].name
    BY <2>1, WithoutVersionType DEF WithoutVersion, AlgorithmRecord
  <2>3. algorithms' = [algorithms EXCEPT ![b] = r]
    BY <1>4 DEF WriteWithout
  <2>4. OneRecordPerName'
    BY <2>1, <2>2, <2>3, NoRecordAssumption DEF OneRecordPerName, Stored
  <2>5. CASE VersionsOf(r) = {} /\ removal' = [removal EXCEPT !.at = "erase"]
    <3>1. algorithms'[b] = r /\ r # NoRecord /\ removal'.current = b
      BY <2>1, <2>2, <2>3, <2>5, NoRecordAssumption
    <3> QED
      BY <1>4, <2>1, <2>3, <2>4, <2>5, <3>1 DEF WriteWithout
  <2>6. CASE removal' = Treated(b)
    <3>1. /\ removal'.at = "next" /\ removal'.doomed = {}
          /\ removal'.listed = [removal.listed EXCEPT ![b] = NoRecord]
      BY <1>4, <2>6 DEF WriteWithout, Treated
    <3>2. ASSUME NEW c \in Deployments, removal'.listed[c] # NoRecord
          PROVE  removal'.listed[c] = algorithms'[c]
      <4>1. c # b /\ removal.listed[c] = removal'.listed[c]
        BY <1>4, <2>1, <3>1, <3>2 DEF WriteWithout
      <4>2. removal.listed[c] = algorithms[c]
        BY <1>4, <3>2, <4>1 DEF WriteWithout
      <4> QED
        BY <2>1, <2>3, <4>1, <4>2
    <3> QED
      BY <1>4, <2>4, <3>1, <3>2 DEF WriteWithout
  <2> QED
    BY <1>4, <2>5, <2>6 DEF WriteWithout
<1>5. CASE EraseRecord
  <2>1. OneRecordPerName'
    BY <1>5, NoRecordAssumption DEF EraseRecord, OneRecordPerName, Stored
  <2> QED
    BY <1>5, <2>1 DEF EraseRecord, MayErase, Treated
<1>6. CASE EndRemoval
  BY <1>6, <1>n DEF EndRemoval
<1>7. CASE RemovalFails
  BY <1>7, <1>n DEF RemovalFails
<1> QED
  BY <1>1, <1>2, <1>3, <1>4, <1>5, <1>6, <1>7 DEF RemovalStep

\* Operations that run one at a time keep each other's copies fresh.
LEMMA SerialInvariance ==
  ASSUME ~Overlap
  PROVE  Spec => []SerialInv
<1>1. Init => SerialInv
  BY DEF Init, SerialInv, OneRecordPerName, Stored
<1>2. TypeInv /\ SerialInv /\ [Next]_vars => SerialInv'
  <2>1. CASE UNCHANGED vars
    BY <2>1 DEF vars, SerialInv, DeploymentFresh, RemovalFresh, OneRecordPerName,
                Stored, Named, UsedByOthers
  <2> QED
    BY <2>1, SerialDeploy, SerialRemoval DEF Next
<1> QED
  BY <1>1, <1>2, TypeInvariance, PTL DEF Spec

\* When operations do not overlap, a name and a major version lead to one record.
THEOREM NamesAreUnique ==
  ASSUME ~Overlap
  PROVE  Spec => []OneRecordPerName
<1>1. SerialInv => OneRecordPerName
  BY DEF SerialInv
<1> QED
  BY <1>1, SerialInvariance, PTL

\* When operations do not overlap, an artifact is deleted only if no algorithm but the
\* one being removed is made of it.
THEOREM RemovalSparesOthers ==
  ASSUME ~Overlap
  PROVE  Spec => OthersStayUsable
<1>1. ASSUME TypeInv, SerialInv, [Next]_vars PROVE SparesOthers
  <2>1. CASE store' = store \/ store \subseteq store'
    BY <2>1 DEF SparesOthers
  <2>2. ASSUME NEW x \in Artifacts, DeleteArtifact(x) PROVE SparesOthers
    BY <1>1, <2>2 DEF DeleteArtifact, SerialInv, RemovalFresh, UsedByOthers,
                      SparesOthers
  <2>3. ASSUME NEW d \in Deployments, DeployStep(d) PROVE store \subseteq store'
    BY <2>3 DEF DeployStep, BeginDeploy, StoreArtifact, Publish, PublishRaises, ReadForFlag,
                SkipFlag, WriteRemovable, WriteExportable, DeployFails, CreateModule,
                RefuseModule, EndWithoutFlags
  <2>4. ASSUME RemovalStep, ~ \E x \in Artifacts : DeleteArtifact(x) PROVE store' = store
    BY <2>4 DEF RemovalStep, BeginRemoval, RemoveAtTray, ListForRemoval, PlanRemoval, WriteWithout, EraseRecord,
                EndRemoval, RemovalFails
  <2>5. CASE UNCHANGED vars
    BY <2>1, <2>5 DEF vars
  <2> QED
    BY <1>1, <2>1, <2>2, <2>3, <2>4, <2>5 DEF Next
<1> QED
  BY <1>1, TypeInvariance, SerialInvariance, PTL DEF Spec, OthersStayUsable
\* What may happen to the record of algorithm a: it gets a version it did not have,
\* made of what is in the store, ...
Grown(a) ==
  \E w \in Versions, source \in SUBSET store :
    /\ store' = store
    /\ algorithms'[a] # NoRecord
    /\ algorithms[a] # NoRecord => algorithms[a].versions[w] = NoSource
    /\ algorithms'[a].versions[w] = source
    /\ \A v \in Versions \ {w} :
         algorithms'[a].versions[v] =
           IF algorithms[a] = NoRecord THEN NoSource ELSE algorithms[a].versions[v]

\* ... or loses some version or none, ...
Shrunk(a) ==
  /\ algorithms[a] # NoRecord /\ algorithms'[a] # NoRecord
  /\ \A v \in Versions :
       algorithms'[a].versions[v] \in {algorithms[a].versions[v], NoSource}

\* ... or is erased, with all its versions or when it has none left.
Gone(a) ==
  /\ algorithms'[a] = NoRecord
  /\ removal.version # NoVersion => VersionsOf(algorithms[a]) = {}

\* When operations do not overlap, nothing else happens to it.
LEMMA SerialChange ==
  ASSUME ~Overlap, TypeInv, NewestInv, SerialInv, [Next]_vars,
         NEW a \in Deployments, algorithms'[a] # algorithms[a]
  PROVE  Grown(a) \/ Shrunk(a) \/ Gone(a)
<1> USE DEF TypeInv, TypeOK, SerialInv
<1>1. ASSUME NEW d \in Deployments, NEW minor \in Versions, NEW b \in BOOLEAN,
             Publish(d, minor, b)
      PROVE  Grown(a) \/ Shrunk(a)
  <2> DEFINE this == deployment[d]
             r == IF this.copy = NoRecord THEN NewRecord(this.name, this.source, minor, b)
                  ELSE WithVersion(this.copy, this.source)
  <2>1. /\ this \in Deployment /\ this.at = "store" /\ this.todo = {}
        /\ DeploymentOK(d) /\ DeploymentFresh(d)
    BY <1>1 DEF Publish, ReadyToPublish
  <2>2. a = this.id /\ algorithms'[a] = r /\ store' = store
    BY <1>1, <2>1 DEF Publish, Deployment
  <2>3. this.source \subseteq store /\ this.copy = algorithms[a] /\ this.source \in Sources
    BY <2>1, <2>2 DEF DeploymentFresh, Deployment
  <2>4. CASE this.copy = NoRecord
    <3>1. r \in AlgorithmRecord /\ r = NewRecord(this.name, this.source, minor, b)
      BY <2>1, <2>4, NewRecordType DEF Deployment
    <3> QED
      BY <2>2, <2>3, <2>4, <3>1, NoRecordAssumption DEF Grown, NewRecord
  <2>5. CASE this.copy # NoRecord
    <3> DEFINE c == this.copy
               next == c.latest + 1
    <3>1. /\ c \in AlgorithmRecord /\ IsNewest(c)
          /\ c.latest \in Versions /\ c.latest < MaxVersion
      BY <1>1, <2>1, <2>5 DEF Publish, Deployment, DeploymentOK, NewestInv, AlgorithmRecord
    <3>2. next \in Versions /\ next > c.latest
      BY <3>1, BoundsAssumption DEF Versions
    <3>3. c.versions[next] = NoSource
      BY <3>1, <3>2, BoundsAssumption DEF IsNewest, VersionsOf, Versions
    <3>4. r \in AlgorithmRecord /\ r = WithVersion(c, this.source)
      BY <2>3, <2>5, <3>1, WithVersionType
    <3>5. CASE c.versions[c.latest] = this.source
      BY <2>2, <2>3, <3>4, <3>5 DEF WithVersion
    <3>6. CASE c.versions[c.latest] # this.source
      <4>1. r.versions = [c.versions EXCEPT ![next] = this.source]
        BY <3>1, <3>4, <3>6 DEF WithVersion, AlgorithmRecord
      <4>2. /\ r.versions[next] = this.source
            /\ \A v \in Versions \ {next} : r.versions[v] = c.versions[v]
        BY <3>1, <3>2, <4>1 DEF AlgorithmRecord
      <4> QED
        BY <2>2, <2>3, <2>5, <3>2, <3>3, <3>4, <4>2, NoRecordAssumption DEF Grown
    <3> QED
      BY <3>5, <3>6
  <2> QED
    BY <2>4, <2>5
<1>2. ASSUME NEW d \in Deployments, NEW b \in BOOLEAN, WriteRemovable(d, b)
      PROVE  Shrunk(a)
  <2>1. /\ deployment[d] \in Deployment /\ deployment[d].copy \in AlgorithmRecord
        /\ deployment[d].copy = algorithms[deployment[d].id]
    BY <1>2 DEF WriteRemovable, Deployment, DeploymentOK, DeploymentFresh
  <2>2. a = deployment[d].id /\ algorithms'[a] = [algorithms[a] EXCEPT !.removable = b]
    BY <1>2, <2>1 DEF WriteRemovable, Deployment
  <2>3. algorithms'[a] \in AlgorithmRecord /\ algorithms'[a].versions = algorithms[a].versions
    BY <2>1, <2>2 DEF AlgorithmRecord
  <2> QED
    BY <2>1, <2>2, <2>3, NoRecordAssumption DEF Shrunk
<1>3. ASSUME NEW d \in Deployments, WriteExportable(d)
      PROVE  FALSE
  BY <1>3 DEF WriteExportable, Deployment, DeploymentFresh
<1>4. CASE WriteWithout
  <2> DEFINE b == removal.current
             r == WithoutVersion(removal.listed[b], removal.version)
  <2>1. /\ b \in Deployments /\ removal.listed[b] \in AlgorithmRecord
        /\ removal.listed[b] = algorithms[b] /\ removal.version \in Versions
    BY <1>4 DEF WriteWithout, RemovalOK, RemovalFresh, Removal
  <2>2. a = b /\ algorithms'[a] = r
    BY <1>4, <2>1 DEF WriteWithout
  <2>3. r \in AlgorithmRecord
    BY <2>1, WithoutVersionType
  <2>4. r.versions = [algorithms[b].versions EXCEPT ![removal.version] = NoSource]
    BY <2>1 DEF WithoutVersion, AlgorithmRecord
  <2>5. \A v \in Versions : r.versions[v] \in {algorithms[b].versions[v], NoSource}
    BY <2>1, <2>4 DEF AlgorithmRecord
  <2> QED
    BY <2>1, <2>2, <2>3, <2>5, NoRecordAssumption DEF Shrunk
<1>5. CASE EraseRecord
  <2>1. a = removal.current /\ algorithms'[a] = NoRecord
    BY <1>5 DEF EraseRecord, Removal
  <2>2. removal.version # NoVersion => removal.at = "erase"
    BY <1>5 DEF EraseRecord, MayErase
  <2> QED
    BY <1>5, <2>1, <2>2 DEF Gone, EraseRecord, RemovalFresh
<1>6. CASE UNCHANGED algorithms
  BY <1>6
<1>7. ASSUME NEW d \in Deployments, DeployStep(d) PROVE Grown(a) \/ Shrunk(a)
  BY <1>1, <1>2, <1>3, <1>6, <1>7 DEF DeployStep, BeginDeploy, StoreArtifact, PublishRaises,
     ReadForFlag, SkipFlag, DeployFails, CreateModule, RefuseModule, EndWithoutFlags
<1>8. CASE RemovalStep
  BY <1>4, <1>5, <1>6, <1>8 DEF RemovalStep, BeginRemoval, RemoveAtTray, ListForRemoval, PlanRemoval,
     DeleteArtifact, EndRemoval, RemovalFails
<1>9. CASE UNCHANGED vars
  BY <1>6, <1>9 DEF vars
<1> QED
  BY <1>7, <1>8, <1>9 DEF Next

\* When operations do not overlap, a version a deployment adds has all its artifacts.
THEOREM DeploymentsAreWhole ==
  ASSUME ~Overlap
  PROVE  Spec => PublishedWhole
<1>1. ASSUME TypeInv, NewestInv, SerialInv, [Next]_vars PROVE AddsWhole
  <2> SUFFICES ASSUME NEW a \in Deployments, NEW v \in Versions, algorithms'[a] # NoRecord,
                      algorithms[a] # NoRecord => algorithms[a].versions[v] = NoSource
               PROVE  algorithms'[a].versions[v] \subseteq store'
    BY DEF AddsWhole
  <2>1. CASE algorithms'[a] = algorithms[a]
    BY <2>1 DEF NoSource
  <2>2. CASE algorithms'[a] # algorithms[a]
    <3>1. Grown(a) \/ Shrunk(a)
      BY <1>1, <2>2, SerialChange DEF Gone
    <3> QED
      BY <3>1 DEF Grown, Shrunk, NoSource
  <2> QED
    BY <2>1, <2>2
<1> QED
  BY <1>1, TypeInvariance, NewestInvariance, SerialInvariance, PTL DEF Spec, PublishedWhole

\* When operations do not overlap, a minor version keeps what it is made of.
THEOREM VersionsAreFixed ==
  ASSUME ~Overlap
  PROVE  Spec => VersionsKeepTheirSource
<1>1. ASSUME TypeInv, NewestInv, SerialInv, [Next]_vars PROVE RedefinesNone
  <2> SUFFICES ASSUME NEW a \in Stored, NEW v \in Versions, algorithms'[a] # NoRecord,
                      algorithms[a].versions[v] # NoSource
               PROVE  algorithms'[a].versions[v] \in {algorithms[a].versions[v], NoSource}
    BY DEF RedefinesNone
  <2>1. CASE algorithms'[a] = algorithms[a]
    BY <2>1
  <2>2. CASE algorithms'[a] # algorithms[a]
    <3>1. Grown(a) \/ Shrunk(a)
      BY <1>1, <2>2, SerialChange DEF Gone, Stored
    <3> QED
      BY <3>1 DEF Grown, Shrunk, Stored
  <2> QED
    BY <2>1, <2>2
<1> QED
  BY <1>1, TypeInvariance, NewestInvariance, SerialInvariance, PTL
     DEF Spec, VersionsKeepTheirSource

\* When operations do not overlap, an algorithm that has a version is not erased by the
\* removal of another one.
THEOREM AlgorithmsWithVersionsStay ==
  ASSUME ~Overlap
  PROVE  Spec => OtherVersionsKeepAlgorithm
<1>1. ASSUME TypeInv, NewestInv, SerialInv, [Next]_vars PROVE ErasesEmpty
  <2> SUFFICES ASSUME NEW a \in Stored, algorithms'[a] = NoRecord, removal.version # NoVersion
               PROVE  VersionsOf(algorithms[a]) = {}
    BY DEF ErasesEmpty
  <2>1. Gone(a)
    BY <1>1, SerialChange DEF Grown, Shrunk, Stored
  <2> QED
    BY <2>1 DEF Gone
<1> QED
  BY <1>1, TypeInvariance, NewestInvariance, SerialInvariance, PTL
     DEF Spec, OtherVersionsKeepAlgorithm
-----------------------------------------------------------------------------
(* Nothing is left behind. *)

InUse(x) ==
  \E a \in Deployments, v \in Versions : algorithms[a] # NoRecord /\ x \in algorithms[a].versions[v]

InUseElsewhere(x, b) ==
  \E a \in Deployments \ {b}, v \in Versions :
    algorithms[a] # NoRecord /\ x \in algorithms[a].versions[v]

\* What the removal of the current algorithm takes away.
Leaving ==
  IF removal.version = NoVersion THEN ArtifactsOf(removal.listed[removal.current])
  ELSE removal.listed[removal.current].versions[removal.version]

\* Without a failure, what is in the store is in use or about to be, and what a removal has
\* planned to delete and deleted is gone from the store. A record that has lost its last
\* version is about to be erased.
TidyRecords ==
  \A a \in Deployments :
    algorithms[a] # NoRecord /\ VersionsOf(algorithms[a]) = {} =>
      removal # NoRecord /\ removal.at = "erase" /\ removal.current = a

TidyStore ==
  \A x \in store :
    \/ InUse(x)
    \/ \E d \in Deployments :
         deployment[d] # NoRecord /\ deployment[d].at = "store" /\ x \in deployment[d].source

TidyRemoval ==
  removal # NoRecord /\ removal.at = "artifacts" =>
    \A x \in store : x \in Leaving /\ ~ InUseElsewhere(x, removal.current) => x \in removal.doomed

TidyInv == failures = 0 => TidyRecords /\ TidyStore /\ TidyRemoval

LEMMA UsedElsewhere ==
  ASSUME NEW x, NEW b
  PROVE  x \in UsedByOthers(b) <=> InUseElsewhere(x, b)
BY DEF UsedByOthers, InUseElsewhere, ArtifactsOf, Stored

LEMMA TidyIsEmpty == TidyInv => NothingLeftBehind
<1> SUFFICES ASSUME TidyInv, Quiet, failures = 0
             PROVE  /\ store \subseteq UNION {ArtifactsOf(algorithms[a]) : a \in Stored}
                    /\ \A a \in Stored : VersionsOf(algorithms[a]) # {}
  BY DEF NothingLeftBehind
<1>1. \A x \in store : InUse(x)
  BY DEF TidyInv, TidyStore, Quiet
<1>2. \A a \in Stored : VersionsOf(algorithms[a]) # {}
  BY DEF TidyInv, TidyRecords, Quiet, Stored
<1> QED
  BY <1>1, <1>2 DEF InUse, ArtifactsOf, Stored

\* A step that changes no record and keeps the store, or takes something from it.
LEMMA TidyFrame ==
  ASSUME TidyInv, UNCHANGED <<algorithms, failures>>, store' \subseteq store,
         UNCHANGED removal \/ (removal' # NoRecord => removal'.at = "next"),
         removal # NoRecord => removal.at # "erase" \/ UNCHANGED removal,
         \A d \in Deployments :
           deployment[d] # NoRecord /\ deployment[d].at = "store" =>
             deployment'[d] # NoRecord /\ deployment'[d].at = "store"
               /\ deployment'[d].source = deployment[d].source
  PROVE  TidyInv'
<1> SUFFICES ASSUME failures = 0 PROVE (TidyRecords /\ TidyStore /\ TidyRemoval)'
  BY DEF TidyInv
<1>1. \A x : InUse(x)' = InUse(x) /\ \A b : InUseElsewhere(x, b)' = InUseElsewhere(x, b)
  BY DEF InUse, InUseElsewhere
<1>2. TidyRecords'
  BY DEF TidyInv, TidyRecords
<1>3. TidyStore'
  BY <1>1 DEF TidyInv, TidyStore
<1>4. TidyRemoval'
  BY <1>1 DEF TidyInv, TidyRemoval, Leaving
<1> QED
  BY <1>2, <1>3, <1>4

\* A record written by a deployment keeps what the record had.
LEMMA TidyWrite ==
  ASSUME TypeInv, TidyInv, removal = NoRecord, UNCHANGED <<store, removal, failures>>,
         NEW a \in Deployments, NEW r \in AlgorithmRecord,
         algorithms' = [algorithms EXCEPT ![a] = r], VersionsOf(r) # {},
         algorithms[a] # NoRecord =>
           \A v \in Versions : algorithms[a].versions[v] \subseteq r.versions[v],
         \A d \in Deployments :
           deployment[d] # NoRecord /\ deployment[d].at = "store" =>
             \E v \in Versions : deployment[d].source \subseteq r.versions[v]
  PROVE  TidyInv'
<1> SUFFICES ASSUME failures = 0 PROVE (TidyRecords /\ TidyStore /\ TidyRemoval)'
  BY DEF TidyInv
<1>1. /\ algorithms'[a] = r /\ r # NoRecord
      /\ \A b \in Deployments : b # a => algorithms'[b] = algorithms[b]
  BY NoRecordAssumption DEF TypeInv, TypeOK
<1>2. TidyRecords'
  BY <1>1 DEF TidyInv, TidyRecords
<1>3. ASSUME NEW x \in store PROVE InUse(x)'
  <2>1. CASE InUse(x)
    BY <1>1, <2>1 DEF InUse
  <2>2. CASE ~ InUse(x)
    BY <1>1, <2>2 DEF TidyInv, TidyStore, InUse
  <2> QED
    BY <2>1, <2>2
<1>4. TidyStore'
  BY <1>3 DEF TidyStore
<1> QED
  BY <1>2, <1>4 DEF TidyRemoval

LEMMA TidyPublish ==
  ASSUME ~Overlap, TypeInv, NewestInv, SerialInv, TidyInv, NEW d \in Deployments,
         NEW minor \in Versions, NEW b \in BOOLEAN, Publish(d, minor, b)
  PROVE  TidyInv'
<1> USE DEF TypeInv, TypeOK, SerialInv
<1> DEFINE this == deployment[d]
           r == IF this.copy = NoRecord THEN NewRecord(this.name, this.source, minor, b)
                ELSE WithVersion(this.copy, this.source)
<1>1. /\ this \in Deployment /\ this.at = "store"
      /\ DeploymentOK(d) /\ DeploymentFresh(d)
      /\ this.id \in Deployments /\ this.source \in Sources /\ this.source # NoSource
      /\ algorithms' = [algorithms EXCEPT ![this.id] = r]
      /\ UNCHANGED <<store, removal, failures>> /\ this # NoRecord
      /\ this.copy # NoRecord => this.copy.latest # NoVersion
  BY SourcesAssumption DEF Publish, ReadyToPublish, Deployment
<1>2. this.copy = algorithms[this.id] /\ removal = NoRecord
      /\ \A e \in Deployments : deployment[e] # NoRecord => e = d
  BY <1>1 DEF DeploymentFresh
<1>3. /\ r \in AlgorithmRecord
      /\ this.copy # NoRecord => \A v \in Versions : this.copy.versions[v] \subseteq r.versions[v]
      /\ \E w \in Versions : r.versions[w] = this.source
  <2>1. CASE this.copy = NoRecord
    <3>1. r \in AlgorithmRecord /\ r = NewRecord(this.name, this.source, minor, b)
      BY <1>1, <2>1, NewRecordType DEF Deployment
    <3>2. r.versions[minor] = this.source
      BY <3>1 DEF NewRecord
    <3> QED
      BY <2>1, <3>1, <3>2
  <2>2. CASE this.copy # NoRecord
    <3> DEFINE c == this.copy
               next == c.latest + 1
    <3>1. /\ c \in AlgorithmRecord /\ IsNewest(c)
          /\ c.latest \in Versions /\ c.latest < MaxVersion
      BY <1>1, <2>2 DEF Deployment, DeploymentOK, NewestInv, AlgorithmRecord
    <3>2. next \in Versions /\ next > c.latest
      BY <3>1, BoundsAssumption DEF Versions
    <3>3. c.versions[next] = NoSource
      BY <3>1, <3>2, BoundsAssumption DEF IsNewest, VersionsOf, Versions
    <3>4. r \in AlgorithmRecord /\ r = WithVersion(c, this.source)
      BY <1>1, <2>2, <3>1, WithVersionType
    <3>5. CASE c.versions[c.latest] = this.source
      <4>1. r = c
        BY <3>4, <3>5 DEF WithVersion
      <4> QED
        BY <2>2, <3>1, <3>4, <3>5, <4>1
    <3>6. CASE c.versions[c.latest] # this.source
      <4>1. r.versions = [c.versions EXCEPT ![next] = this.source]
        BY <3>1, <3>4, <3>6 DEF WithVersion, AlgorithmRecord
      <4>2. /\ r.versions[next] = this.source
            /\ \A v \in Versions \ {next} : r.versions[v] = c.versions[v]
        BY <3>1, <3>2, <4>1 DEF AlgorithmRecord
      <4>3. \A v \in Versions : c.versions[v] \subseteq r.versions[v]
        BY <3>3, <4>2 DEF NoSource
      <4> QED
        BY <2>2, <3>2, <3>4, <4>2, <4>3
    <3> QED
      BY <3>5, <3>6
  <2> QED
    BY <2>1, <2>2
<1> HIDE DEF r
<1>4. VersionsOf(r) # {}
  BY <1>1, <1>3 DEF VersionsOf
<1>5. algorithms[this.id] # NoRecord =>
        \A v \in Versions : algorithms[this.id].versions[v] \subseteq r.versions[v]
  BY <1>2, <1>3
<1>6. \A e \in Deployments :
        deployment[e] # NoRecord /\ deployment[e].at = "store" =>
          \E v \in Versions : deployment[e].source \subseteq r.versions[v]
  BY <1>2, <1>3
<1> QED
  BY <1>1, <1>2, <1>3, <1>4, <1>5, <1>6, TidyWrite

LEMMA TidyDeploy ==
  ASSUME ~Overlap, TypeInv, NewestInv, SerialInv, TidyInv, NEW d \in Deployments, DeployStep(d)
  PROVE  TidyInv'
<1> USE DEF TypeInv, TypeOK
<1>1. ASSUME NEW n \in Names, NEW source \in Sources, BeginDeploy(d, n, source) PROVE TidyInv'
  <2>1. UNCHANGED <<algorithms, failures, store, removal>> /\ Quiet
        /\ \A e \in Deployments : deployment[e] = NoRecord
    BY <1>1 DEF BeginDeploy, MayBegin, Quiet
  <2> QED
    BY <2>1, TidyFrame
<1>2. ASSUME NEW x \in Artifacts, StoreArtifact(d, x) PROVE TidyInv'
  <2> SUFFICES ASSUME failures = 0 PROVE (TidyRecords /\ TidyStore /\ TidyRemoval)'
    BY <1>2 DEF TidyInv, StoreArtifact
  <2>1. /\ UNCHANGED <<algorithms, failures, removal>> /\ removal = NoRecord
        /\ store' = store \union {x}
    BY <1>2 DEF StoreArtifact, SerialInv, DeploymentFresh
  <2>2. /\ deployment'[d] # NoRecord /\ deployment'[d].at = "store"
        /\ deployment'[d].source = deployment[d].source
        /\ \A e \in Deployments : e # d => deployment'[e] = deployment[e]
        /\ deployment[d] \in Deployment /\ deployment'[d] \in Deployment
        /\ x \in deployment[d].todo
    <3>1. /\ deployment[d] \in Deployment /\ deployment[d].at = "store"
          /\ deployment' = [deployment EXCEPT ![d].todo = @ \ {x}] /\ x \in deployment[d].todo
      BY <1>2 DEF StoreArtifact
    <3>2. deployment'[d] = [deployment[d] EXCEPT !.todo = @ \ {x}]
      BY <3>1
    <3>3. deployment'[d] \in Deployment /\ deployment'[d].at = "store"
          /\ deployment'[d].source = deployment[d].source
      BY <3>1, <3>2 DEF Deployment
    <3> QED
      BY <3>1, <3>3, NoOperationAssumption
  <2>3. x \in deployment[d].source
    BY <1>2, <2>2 DEF StoreArtifact, SerialInv, DeploymentFresh
  <2> QED
    BY <2>1, <2>2, <2>3 DEF TidyInv, TidyRecords, TidyStore, TidyRemoval, InUse
<1>3. ASSUME NEW minor \in Versions, NEW b \in BOOLEAN, Publish(d, minor, b) PROVE TidyInv'
  BY <1>3, TidyPublish
<1>4. CASE PublishRaises(d)
  <2>1. ASSUME failures = 0 PROVE FALSE
    <3>1. /\ deployment[d] # NoRecord /\ deployment[d] \in Deployment /\ deployment[d].at = "store"
          /\ deployment[d].copy # NoRecord /\ deployment[d].copy.latest = NoVersion
          /\ DeploymentFresh(d)
      BY <1>4 DEF PublishRaises, ReadyToPublish, SerialInv
    <3> DEFINE a == deployment[d].id
    <3>2. /\ a \in Deployments /\ algorithms[a] # NoRecord /\ removal = NoRecord
          /\ algorithms[a].latest = NoVersion /\ IsNewest(algorithms[a])
      BY <3>1 DEF DeploymentFresh, Deployment, NewestInv
    <3>3. VersionsOf(algorithms[a]) = {}
      BY <3>2, BoundsAssumption DEF IsNewest, VersionsOf, Versions, NoVersion
    <3> QED
      BY <2>1, <3>2, <3>3 DEF TidyInv, TidyRecords
  <2>2. failures' = failures
    BY <1>4 DEF PublishRaises
  <2> QED
    BY <2>1, <2>2 DEF TidyInv
<1>5. ASSUME UNCHANGED <<algorithms, store, removal, failures>>,
             deployment[d].at # "store",
             \A e \in Deployments : e # d => deployment'[e] = deployment[e]
      PROVE  TidyInv'
  BY <1>5, TidyFrame
<1>6. CASE CreateModule(d) \/ RefuseModule(d)
  BY <1>5, <1>6 DEF CreateModule, RefuseModule
<1>7. CASE EndWithoutFlags(d) \/ SkipFlag(d)
  BY <1>5, <1>7 DEF EndWithoutFlags, SkipFlag
<1>8. CASE ReadForFlag(d)
  BY <1>5, <1>8 DEF ReadForFlag
<1>9. ASSUME NEW b \in BOOLEAN, WriteRemovable(d, b) PROVE TidyInv'
  <2> DEFINE a == deployment[d].id
             r == [deployment[d].copy EXCEPT !.removable = b]
  <2>1. /\ deployment[d] # NoRecord /\ deployment[d] \in Deployment
        /\ deployment[d].copy = algorithms[a] /\ deployment[d].copy \in AlgorithmRecord
        /\ a \in Deployments /\ removal = NoRecord /\ deployment[d].at # "store"
        /\ \A e \in Deployments : deployment[e] # NoRecord => e = d
    BY <1>9 DEF WriteRemovable, DeploymentOK, DeploymentFresh, SerialInv, Deployment
  <2>2. r \in AlgorithmRecord /\ r.versions = algorithms[a].versions
    BY <2>1 DEF AlgorithmRecord
  <2>3. algorithms' = [algorithms EXCEPT ![a] = r] /\ UNCHANGED <<store, removal, failures>>
    BY <1>9 DEF WriteRemovable
  <2> HIDE DEF r
  <2>4. CASE failures = 0
    <3>1. VersionsOf(r) # {}
      BY <2>1, <2>2, <2>4, NoRecordAssumption DEF TidyInv, TidyRecords, VersionsOf
    <3> QED
      BY <2>1, <2>2, <2>3, <3>1, TidyWrite
  <2>5. CASE failures # 0
    BY <2>3, <2>5 DEF TidyInv
  <2> QED
    BY <2>4, <2>5
<1>10. CASE WriteExportable(d)
  <2>1. algorithms' = algorithms
    BY <1>10 DEF WriteExportable, Deployment, DeploymentFresh, SerialInv
  <2> QED
    BY <1>5, <1>10, <2>1 DEF WriteExportable
<1>11. CASE DeployFails(d)
  BY <1>11 DEF DeployFails, TidyInv
<1> QED
  BY <1>1, <1>2, <1>3, <1>4, <1>6, <1>7, <1>8, <1>9, <1>10, <1>11 DEF DeployStep

LEMMA TidyPlan ==
  ASSUME ~Overlap, TypeInv, SerialInv, TidyInv, NEW b \in Deployments, PlanRemoval(b)
  PROVE  TidyInv'
<1> USE DEF TypeInv, TypeOK
<1> SUFFICES ASSUME failures = 0 PROVE (TidyRecords /\ TidyStore /\ TidyRemoval)'
  BY DEF TidyInv, PlanRemoval
<1> DEFINE r == removal.listed[b]
           gone == IF removal.version = NoVersion THEN ArtifactsOf(r)
                   ELSE r.versions[removal.version]
<1>1. /\ removal \in Removal /\ removal # NoRecord /\ removal.at = "next"
      /\ UNCHANGED <<algorithms, store, deployment, failures>>
  BY DEF PlanRemoval
<1>2. \A x : /\ InUse(x)' = InUse(x)
             /\ \A a : InUseElsewhere(x, a)' = InUseElsewhere(x, a)
  BY <1>1 DEF InUse, InUseElsewhere
<1>3. TidyRecords'
  BY <1>1 DEF TidyInv, TidyRecords
<1>4. TidyStore'
  BY <1>1, <1>2 DEF TidyInv, TidyStore
<1>5. CASE removal' = [removal EXCEPT !.at = "artifacts", !.current = b,
                                      !.doomed = gone \ UsedByOthers(b)]
  <2>1. /\ removal'.current = b /\ removal'.doomed = gone \ UsedByOthers(b)
        /\ removal'.listed = removal.listed /\ removal'.version = removal.version
    BY <1>1, <1>5 DEF Removal
  <2>2. Leaving' = gone
    BY <2>1 DEF Leaving
  <2>3. TidyRemoval'
    BY <1>2, <2>1, <2>2, UsedElsewhere DEF TidyRemoval
  <2> QED
    BY <1>3, <1>4, <2>3
<1>6. CASE removal' = [removal EXCEPT !.listed[b] = NoRecord]
  BY <1>1, <1>3, <1>4, <1>6 DEF TidyRemoval, Removal
<1> QED
  BY <1>5, <1>6 DEF PlanRemoval

LEMMA TidyDelete ==
  ASSUME ~Overlap, TypeInv, SerialInv, TidyInv, NEW x \in Artifacts, DeleteArtifact(x)
  PROVE  TidyInv'
<1> USE DEF TypeInv, TypeOK
<1> SUFFICES ASSUME failures = 0 PROVE (TidyRecords /\ TidyStore /\ TidyRemoval)'
  BY DEF TidyInv, DeleteArtifact
<1>1. /\ removal \in Removal /\ removal # NoRecord
      /\ UNCHANGED <<algorithms, deployment, failures>> /\ store' = store \ {x}
      /\ removal' = [removal EXCEPT !.doomed = @ \ {x}]
  BY DEF DeleteArtifact
<1>2. /\ removal' \in Removal /\ removal' # NoRecord /\ removal'.at = removal.at /\ removal'.current = removal.current
      /\ removal'.listed = removal.listed /\ removal'.version = removal.version
      /\ removal'.doomed = removal.doomed \ {x}
  <2>1. /\ removal' \in Removal /\ removal'.at = removal.at /\ removal'.current = removal.current
        /\ removal'.listed = removal.listed /\ removal'.version = removal.version
        /\ removal'.doomed = removal.doomed \ {x}
    BY <1>1 DEF Removal
  <2> QED
    BY <2>1, NoOperationAssumption
<1>3. \A y : /\ InUse(y)' = InUse(y)
             /\ \A a : InUseElsewhere(y, a)' = InUseElsewhere(y, a)
  BY <1>1 DEF InUse, InUseElsewhere
<1>4. TidyRecords'
  BY <1>1, <1>2 DEF TidyInv, TidyRecords
<1>5. TidyStore'
  BY <1>1, <1>3 DEF TidyInv, TidyStore
<1>6. TidyRemoval'
  BY <1>1, <1>2, <1>3 DEF TidyInv, TidyRemoval, Leaving
<1> QED
  BY <1>4, <1>5, <1>6

\* The record without the version: what only that version had is no longer in the store.
LEMMA TidyWithout ==
  ASSUME ~Overlap, TypeInv, SerialInv, TidyInv, WriteWithout
  PROVE  TidyInv'
<1> USE DEF TypeInv, TypeOK
<1> SUFFICES ASSUME failures = 0 PROVE (TidyRecords /\ TidyStore /\ TidyRemoval)'
  BY DEF TidyInv, WriteWithout
<1> DEFINE b == removal.current
           r == WithoutVersion(removal.listed[b], removal.version)
<1>1. /\ removal \in Removal /\ removal # NoRecord /\ removal.at = "artifacts" /\ removal.doomed = {}
      /\ b \in Deployments /\ removal.listed[b] \in AlgorithmRecord
      /\ removal.listed[b] = algorithms[b] /\ removal.version \in Versions
      /\ removal.version # NoVersion /\ algorithms' = [algorithms EXCEPT ![b] = r]
      /\ UNCHANGED <<store, deployment, failures>>
      /\ \A d \in Deployments : deployment[d] = NoRecord
  BY DEF WriteWithout, RemovalOK, RemovalFresh, Removal, SerialInv
<1>2. r \in AlgorithmRecord /\ r.versions = [algorithms[b].versions EXCEPT ![removal.version] = NoSource]
  BY <1>1, WithoutVersionType DEF WithoutVersion, AlgorithmRecord
<1>3. \A v \in Versions : r.versions[v] = IF v = removal.version THEN NoSource ELSE algorithms[b].versions[v]
  BY <1>1, <1>2 DEF AlgorithmRecord
<1> HIDE DEF r
<1>4. /\ algorithms'[b] = r /\ r # NoRecord
      /\ \A a \in Deployments : a # b => algorithms'[a] = algorithms[a]
  BY <1>1, <1>2, NoRecordAssumption
<1>5. ASSUME NEW x \in store PROVE InUse(x)'
  <2>1. CASE InUseElsewhere(x, b)
    BY <1>4, <2>1 DEF InUse, InUseElsewhere
  <2>2. CASE ~ InUseElsewhere(x, b)
    <3>1. InUse(x)
      BY <1>1 DEF TidyInv, TidyStore
    <3>2. PICK v \in Versions : algorithms[b] # NoRecord /\ x \in algorithms[b].versions[v]
      BY <2>2, <3>1 DEF InUse, InUseElsewhere
    <3>3. x \notin algorithms[b].versions[removal.version]
      BY <1>1, <2>2 DEF TidyInv, TidyRemoval, Leaving
    <3>4. v # removal.version /\ x \in r.versions[v]
      BY <1>3, <3>2, <3>3
    <3> QED
      BY <1>1, <1>4, <3>4 DEF InUse
  <2> QED
    BY <2>1, <2>2
<1>6. TidyStore'
  BY <1>1, <1>5 DEF TidyStore
<1>7. CASE VersionsOf(r) = {} /\ removal' = [removal EXCEPT !.at = "erase"]
  <2>1. removal'.at = "erase" /\ removal'.current = b /\ removal' # NoRecord
    <3>1. removal'.at = "erase" /\ removal'.current = b /\ removal' \in Removal
      BY <1>1, <1>7 DEF Removal
    <3> QED
      BY <3>1, NoOperationAssumption
  <2>2. TidyRecords'
    BY <1>1, <1>4, <2>1 DEF TidyInv, TidyRecords
  <2> QED
    BY <1>6, <2>1, <2>2 DEF TidyRemoval
<1>8. CASE VersionsOf(r) # {} /\ removal' = Treated(b)
  <2>1. removal'.at = "next"
    BY <1>1, <1>8 DEF Treated, Removal
  <2>2. TidyRecords'
    BY <1>1, <1>4, <1>8 DEF TidyInv, TidyRecords
  <2> QED
    BY <1>6, <2>1, <2>2 DEF TidyRemoval
<1> QED
  BY <1>7, <1>8 DEF WriteWithout, r

LEMMA TidyErase ==
  ASSUME ~Overlap, TypeInv, SerialInv, TidyInv, EraseRecord
  PROVE  TidyInv'
<1> USE DEF TypeInv, TypeOK
<1> SUFFICES ASSUME failures = 0 PROVE (TidyRecords /\ TidyStore /\ TidyRemoval)'
  BY DEF TidyInv, EraseRecord
<1> DEFINE b == removal.current
<1>1. /\ removal \in Removal /\ removal # NoRecord /\ MayErase /\ b \in Deployments
      /\ algorithms' = [algorithms EXCEPT ![b] = NoRecord]
      /\ UNCHANGED <<store, deployment, failures>> /\ removal'.at = "next"
      /\ \A d \in Deployments : deployment[d] = NoRecord
  BY DEF EraseRecord, Treated, Removal, SerialInv, RemovalFresh
<1>2. /\ algorithms'[b] = NoRecord
      /\ \A a \in Deployments : a # b => algorithms'[a] = algorithms[a]
  BY <1>1
<1>3. ASSUME NEW x \in store PROVE InUseElsewhere(x, b)
  <2> SUFFICES ASSUME ~ InUseElsewhere(x, b) PROVE FALSE
    OBVIOUS
  <2>1. InUse(x)
    BY <1>1 DEF TidyInv, TidyStore
  <2>2. PICK v \in Versions : algorithms[b] # NoRecord /\ x \in algorithms[b].versions[v]
    BY <2>1 DEF InUse, InUseElsewhere
  <2>3. CASE removal.at = "erase"
    BY <1>1, <2>2, <2>3 DEF SerialInv, RemovalFresh, VersionsOf, NoSource
  <2>4. CASE removal.at = "artifacts" /\ removal.doomed = {} /\ removal.version = NoVersion
    <3>1. removal.listed[b] = algorithms[b]
      BY <1>1, <2>4 DEF SerialInv, RemovalFresh, RemovalOK
    <3>2. x \in Leaving
      BY <2>2, <2>4, <3>1 DEF Leaving, ArtifactsOf
    <3> QED
      BY <1>1, <2>4, <3>2 DEF TidyInv, TidyRemoval
  <2> QED
    BY <1>1, <2>3, <2>4 DEF MayErase
<1>4. TidyStore'
  BY <1>2, <1>3, <1>1 DEF TidyStore, InUse, InUseElsewhere
<1>5. TidyRecords'
  BY <1>1, <1>2 DEF TidyInv, TidyRecords
<1> QED
  BY <1>1, <1>4, <1>5 DEF TidyRemoval

LEMMA TidyRemove ==
  ASSUME ~Overlap, TypeInv, SerialInv, TidyInv, RemovalStep
  PROVE  TidyInv'
<1> USE DEF TypeInv, TypeOK
<1>1. ASSUME NEW a \in Deployments, NEW v \in Versions \union {NoVersion},
             BeginRemoval(a, v) \/ RemoveAtTray(a)
      PROVE  TidyInv'
  <2>1. /\ UNCHANGED <<algorithms, store, deployment, failures>> /\ removal = NoRecord
        /\ removal'.at = "next"
    BY <1>1 DEF BeginRemoval, RemoveAtTray, ListForRemoval
  <2> QED
    BY <2>1, TidyFrame
<1>2. CASE EndRemoval
  <2>1. UNCHANGED <<algorithms, store, deployment, failures>> /\ removal.at = "next" /\ removal' = NoRecord
    BY <1>2 DEF EndRemoval
  <2> QED
    BY <2>1, TidyFrame
<1>3. CASE RemovalFails
  BY <1>3 DEF RemovalFails, TidyInv
<1> QED
  BY <1>1, <1>2, <1>3, TidyPlan, TidyDelete, TidyWithout, TidyErase DEF RemovalStep

\* Operations that do not overlap and do not fail leave nothing in the store that no algorithm
\* is made of, and no record without a version.
THEOREM RemovalsAreTidy ==
  ASSUME ~Overlap
  PROVE  Spec => []NothingLeftBehind
<1>1. Init => TidyInv
  BY DEF Init, TidyInv, TidyRecords, TidyStore, TidyRemoval
<1>2. TypeInv /\ NewestInv /\ SerialInv /\ TidyInv /\ [Next]_vars => TidyInv'
  <2>1. CASE UNCHANGED vars
    BY <2>1 DEF vars, TidyInv, TidyRecords, TidyStore, TidyRemoval, InUse, InUseElsewhere, Leaving
  <2> QED
    BY <2>1, TidyDeploy, TidyRemove DEF Next
<1> QED
  BY <1>1, <1>2, TidyIsEmpty, TypeInvariance, NewestInvariance, SerialInvariance, PTL DEF Spec
=============================================================================
