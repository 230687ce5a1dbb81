------------------------ MODULE BuiltinImport_proofs ------------------------
(***************************************************************************)
(* Proofs about the import of the bundled algorithms, for every content of *)
(* the bundles and every bound: its types, that its rollback restores what *)
(* was there and COMPLETED means imported, and that the storage is whole   *)
(* at every step, the rollback's included.                                 *)
(***************************************************************************)
EXTENDS BuiltinImport, SequenceTheorems, TLAPS

-----------------------------------------------------------------------------
(* Lemmas about storages *)

\* What the storage may have under each kind of key.
LEMMA KindsOfValues ==
  /\ \A k \in Names : ValuesAt(k) = Record \cup {Nothing}
  /\ \A k \in Objects : ValuesAt(k) = {Payload, Nothing}
  /\ \A k \in Checkpoints : ValuesAt(k) = Manifest \cup {Nothing}
  /\ \A k \in Keys : ValuesAt(k) \subseteq Values
  /\ Keys = Names \cup Objects \cup Checkpoints
  /\ Nothing \notin Keys
BY KeysAssumption DEF ValuesAt, Values, Keys

\* A storage has under a key what it may have there.
LEMMA StorageApply ==
  ASSUME NEW s \in Storage, NEW k \in Keys
  PROVE  s[k] \in ValuesAt(k)
BY DEF Storage

\* A put changes one key.
LEMMA StoragePut ==
  ASSUME NEW s \in Storage, NEW k \in Keys, NEW v \in ValuesAt(k)
  PROVE  /\ [s EXCEPT ![k] = v] \in Storage
         /\ [s EXCEPT ![k] = v][k] = v
         /\ \A l \in Keys : l # k => [s EXCEPT ![k] = v][l] = s[l]
<1>1. v \in Values
  BY KindsOfValues
<1>2. s \in [Keys -> Values] /\ \A l \in Keys : s[l] \in ValuesAt(l)
  BY DEF Storage
<1>3. [s EXCEPT ![k] = v] \in [Keys -> Values]
  BY <1>1, <1>2
<1>4. \A l \in Keys : [s EXCEPT ![k] = v][l] = IF l = k THEN v ELSE s[l]
  BY <1>2
<1> QED
  BY <1>2, <1>3, <1>4 DEF Storage

\* Putting back what was there undoes a put.
LEMMA PutBack ==
  ASSUME NEW s \in Storage, NEW k \in Keys, NEW v \in ValuesAt(k), NEW t \in {s, [s EXCEPT ![k] = v]}
  PROVE  [t EXCEPT ![k] = s[k]] = s
<1>1. s \in [Keys -> Values]
  BY DEF Storage
<1> QED
  BY <1>1

-----------------------------------------------------------------------------
(* Lemmas about sequences *)

\* The elements of a sequence are those of its head and of its tail.
LEMMA ElementsOfTail ==
  ASSUME NEW S, NEW l \in Seq(S), l # <<>>
  PROVE  /\ Head(l) \in S /\ Tail(l) \in Seq(S)
         /\ ToSet(l) = {Head(l)} \cup ToSet(Tail(l))
         /\ Tail(l) # <<>> => Last(Tail(l)) = Last(l)
<1>1. /\ Tail(l) \in Seq(S) /\ Len(Tail(l)) = Len(l) - 1
      /\ \A i \in 1..Len(Tail(l)) : Tail(l)[i] = l[i + 1]
      /\ Head(l) \in S
  BY HeadTailProperties
<1>2. Len(l) \in Nat \ {0} /\ Head(l) = l[1] /\ DOMAIN l = 1..Len(l)
  BY EmptySeq, LenProperties
<1>3. DOMAIN Tail(l) = 1..(Len(l) - 1)
  BY <1>1, LenProperties
<1>4. ToSet(l) = {Head(l)} \cup ToSet(Tail(l))
  <2>1. ASSUME NEW x \in ToSet(l) PROVE x \in {Head(l)} \cup ToSet(Tail(l))
    <3>1. PICK i \in 1..Len(l) : x = l[i]
      BY <1>2 DEF ToSet
    <3>2. CASE i = 1
      BY <3>1, <3>2, <1>2
    <3>3. CASE i # 1
      <4>1. i - 1 \in 1..(Len(l) - 1) /\ Tail(l)[i - 1] = x
        BY <3>1, <3>3, <1>1, <1>2
      <4> QED
        BY <4>1, <1>3 DEF ToSet
    <3> QED
      BY <3>2, <3>3
  <2>2. ASSUME NEW x \in ToSet(Tail(l)) PROVE x \in ToSet(l)
    <3>1. PICK i \in 1..(Len(l) - 1) : x = Tail(l)[i]
      BY <1>3 DEF ToSet
    <3>2. i + 1 \in 1..Len(l) /\ x = l[i + 1]
      BY <3>1, <1>1, <1>2
    <3> QED
      BY <3>2, <1>2 DEF ToSet
  <2>3. Head(l) \in ToSet(l)
    BY <1>2 DEF ToSet
  <2> QED
    BY <2>1, <2>2, <2>3
<1>5. Tail(l) # <<>> => Last(Tail(l)) = Last(l)
  <2>1. Tail(l) # <<>> => Len(Tail(l)) \in Nat \ {0}
    BY <1>1, EmptySeq
  <2> QED
    BY <2>1, <1>1, <1>2 DEF Last
<1> QED
  BY <1>1, <1>4, <1>5

\* The elements of a concatenation.
LEMMA ElementsOfConcat ==
  ASSUME NEW S, NEW l \in Seq(S), NEW m \in Seq(S)
  PROVE  /\ l \o m \in Seq(S)
         /\ ToSet(l \o m) = ToSet(l) \cup ToSet(m)
         /\ m # <<>> => l \o m # <<>> /\ Last(l \o m) = Last(m)
<1>1. /\ l \o m \in Seq(S) /\ Len(l \o m) = Len(l) + Len(m)
      /\ \A i \in 1..(Len(l) + Len(m)) : (l \o m)[i] = IF i <= Len(l) THEN l[i] ELSE m[i - Len(l)]
  BY ConcatProperties
<1>2. /\ Len(l) \in Nat /\ Len(m) \in Nat
      /\ DOMAIN l = 1..Len(l) /\ DOMAIN m = 1..Len(m) /\ DOMAIN (l \o m) = 1..(Len(l) + Len(m))
  BY <1>1, LenProperties
<1>3. ASSUME NEW x \in ToSet(l \o m) PROVE x \in ToSet(l) \cup ToSet(m)
  <2>1. PICK i \in 1..(Len(l) + Len(m)) : x = (l \o m)[i]
    BY <1>2 DEF ToSet
  <2>2. CASE i <= Len(l)
    <3>1. i \in 1..Len(l) /\ x = l[i]
      BY <1>1, <1>2, <2>1, <2>2
    <3> QED
      BY <3>1, <1>2 DEF ToSet
  <2>3. CASE ~ (i <= Len(l))
    <3>1. i - Len(l) \in 1..Len(m) /\ x = m[i - Len(l)]
      BY <1>1, <1>2, <2>1, <2>3
    <3> QED
      BY <3>1, <1>2 DEF ToSet
  <2> QED
    BY <2>2, <2>3
<1>4. ASSUME NEW x \in ToSet(l) PROVE x \in ToSet(l \o m)
  <2>1. PICK i \in 1..Len(l) : x = l[i]
    BY <1>2 DEF ToSet
  <2>2. i \in 1..(Len(l) + Len(m)) /\ x = (l \o m)[i]
    BY <2>1, <1>1, <1>2
  <2> QED
    BY <2>2, <1>2 DEF ToSet
<1>5. ASSUME NEW x \in ToSet(m) PROVE x \in ToSet(l \o m)
  <2>1. PICK i \in 1..Len(m) : x = m[i]
    BY <1>2 DEF ToSet
  <2>2. i + Len(l) \in 1..(Len(l) + Len(m)) /\ x = (l \o m)[i + Len(l)]
    BY <2>1, <1>1, <1>2
  <2> QED
    BY <2>2, <1>2 DEF ToSet
<1>6. m # <<>> => l \o m # <<>> /\ Last(l \o m) = Last(m)
  <2>1. m # <<>> => Len(m) \in Nat \ {0}
    BY EmptySeq
  <2>2. m # <<>> => Len(l \o m) # 0
    BY <2>1, <1>1, <1>2
  <2>3. Len(<<>>) = 0
    BY EmptySeq
  <2> QED
    BY <2>1, <2>2, <2>3, <1>1, <1>2 DEF Last
<1> QED
  BY <1>1, <1>3, <1>4, <1>5, <1>6

\* An entry appended to a sequence is its last element; Front is what was there before.
LEMMA ElementsOfAppend ==
  ASSUME NEW S, NEW l \in Seq(S), NEW x \in S
  PROVE  /\ Append(l, x) \in Seq(S) /\ Append(l, x) # <<>>
         /\ ToSet(Append(l, x)) = ToSet(l) \cup {x}
         /\ Last(Append(l, x)) = x
<1>1. <<x>> \in Seq(S) /\ Len(<<x>>) = 1 /\ <<x>>[1] = x /\ DOMAIN <<x>> = {1}
  OBVIOUS
<1>2. PICK one \in Seq(S) : one = <<x>> /\ Len(one) = 1 /\ one[1] = x /\ DOMAIN one = {1}
  BY <1>1
<1>3. one # <<>> /\ ToSet(one) = {x} /\ Last(one) = x
  BY <1>2, EmptySeq DEF ToSet, Last
<1>4. ToSet(l \o one) = ToSet(l) \cup ToSet(one) /\ Last(l \o one) = Last(one)
  BY <1>3, ElementsOfConcat
<1>5. Append(l, x) = l \o one /\ Append(l, x) \in Seq(S) /\ Append(l, x) # <<>>
  BY <1>2, AppendIsConcat, AppendProperties
<1> QED
  BY <1>3, <1>4, <1>5, Zenon

\* Front takes the last element off.
LEMMA FrontOfSeq ==
  ASSUME NEW S, NEW l \in Seq(S), l # <<>>
  PROVE  /\ Front(l) \in Seq(S) /\ Len(Front(l)) = Len(l) - 1 /\ Len(l) \in Nat \ {0}
         /\ \A i \in 1..(Len(l) - 1) : Front(l)[i] = l[i]
         /\ Last(l) = l[Len(l)] /\ Last(l) \in S
<1>1. Len(l) \in Nat \ {0}
  BY EmptySeq
<1>2. \A i \in 1..Len(l) : l[i] \in S
  BY ElementOfSeq
<1>3. /\ Front(l) \in Seq(S) /\ Len(Front(l)) = Len(l) - 1
      /\ \A i \in 1..(Len(l) - 1) : Front(l)[i] = l[i]
  <2>1. \A i \in 1..(Len(l) - 1) : l[i] \in S
    BY <1>1, <1>2
  <2>2. /\ Front(l) \in Seq(S)
        /\ Len(Front(l)) = IF 1 <= Len(l) - 1 THEN (Len(l) - 1) - 1 + 1 ELSE 0
        /\ \A i \in 1..((Len(l) - 1) - 1 + 1) : Front(l)[i] = l[1 + i - 1]
    BY <1>1, <2>1, SubSeqProperties DEF Front
  <2>3. \A i \in 1..(Len(l) - 1) : i \in 1..((Len(l) - 1) - 1 + 1) /\ 1 + i - 1 = i
    BY <1>1
  <2>4. ASSUME NEW i \in 1..(Len(l) - 1) PROVE Front(l)[i] = l[i]
    BY <2>2, <2>3
  <2>5. Len(Front(l)) = Len(l) - 1
    <3>1. \A k \in Nat \ {0} : (IF 1 <= k - 1 THEN (k - 1) - 1 + 1 ELSE 0) = k - 1
      OBVIOUS
    <3> QED
      BY <3>1, <1>1, <2>2, Zenon
  <2> QED
    BY <2>2, <2>4, <2>5
<1> QED
  BY <1>1, <1>2, <1>3 DEF Last

-----------------------------------------------------------------------------
(* Lemmas about the records and the work of an algorithm *)

Differ(versions) == \A i \in 1..(Len(versions) - 1) : versions[i] # versions[i + 1]

\* What a bundle has of an algorithm.
LEMMA ContentFacts ==
  ASSUME NEW h \in Hashes, NEW n \in DOMAIN Content[h]
  PROVE  /\ n \in Names
         /\ Content[h][n].versions \in Seq(SUBSET Objects) /\ Content[h][n].versions # <<>>
         /\ Last(Content[h][n].versions) \in SUBSET Objects
         /\ Last(Content[h][n].versions) \in ToSet(Content[h][n].versions)
         /\ Differ(Content[h][n].versions)
         /\ Content[h][n].checkpoints \in Seq(Checkpoints)
         /\ ToSet(Content[h][n].checkpoints) \subseteq Checkpoints
<1>1. /\ n \in Names
      /\ Content[h][n].versions \in Seq(SUBSET Objects) /\ Content[h][n].versions # <<>>
      /\ Differ(Content[h][n].versions)
      /\ Content[h][n].checkpoints \in Seq(Checkpoints)
  <2>1. Content[h][n] \in [versions : Seq(SUBSET Objects), checkpoints : Seq(Checkpoints)]
    BY ContentAssumption
  <2> QED
    BY <2>1, ContentAssumption DEF Differ
<1>2. \A S : \A l \in Seq(S) : l # <<>> => Last(l) \in S /\ Last(l) \in ToSet(l)
  <2>1. ASSUME NEW S, NEW l \in Seq(S), l # <<>> PROVE Last(l) \in S /\ Last(l) \in ToSet(l)
    BY <2>1, EmptySeq, LenProperties, ElementOfSeq DEF Last, ToSet
  <2> QED
    BY <2>1
<1>3. \A S : \A l \in Seq(S) : ToSet(l) \subseteq S
  <2>1. ASSUME NEW S, NEW l \in Seq(S) PROVE ToSet(l) \subseteq S
    BY LenProperties, ElementOfSeq DEF ToSet
  <2> QED
    BY <2>1
<1> QED
  BY <1>1, <1>2, <1>3

\* A version is inserted at the end, unless it is the last one there already.
LEMMA InsertFacts ==
  ASSUME NEW S, NEW versions \in Seq(S), NEW v \in S
  PROVE  /\ Insert(versions, v) \in Seq(S) /\ Insert(versions, v) # <<>>
         /\ Last(Insert(versions, v)) = v
         /\ ToSet(Insert(versions, v)) = ToSet(versions) \cup {v}
         /\ Differ(versions) => Differ(Insert(versions, v))
<1>1. Len(versions) \in Nat /\ DOMAIN versions = 1..Len(versions)
  BY LenProperties
<1>2. CASE versions # <<>> /\ Last(versions) = v
  <2>1. Insert(versions, v) = versions
    BY <1>2 DEF Insert
  <2>2. Len(versions) \in Nat \ {0}
    BY <1>2, EmptySeq
  <2>3. v \in ToSet(versions)
    BY <1>1, <1>2, <2>2 DEF Last, ToSet
  <2> QED
    BY <1>2, <2>1, <2>3
<1>3. CASE ~ (versions # <<>> /\ Last(versions) = v)
  <2>1. Insert(versions, v) = Append(versions, v)
    BY <1>3 DEF Insert
  <2>2. /\ Len(Append(versions, v)) = Len(versions) + 1
        /\ \A i \in 1..Len(versions) : Append(versions, v)[i] = versions[i]
        /\ Append(versions, v)[Len(versions) + 1] = v
    BY AppendProperties
  <2>3. ASSUME Differ(versions) PROVE Differ(Append(versions, v))
    <3>1. ASSUME NEW i \in 1..(Len(Append(versions, v)) - 1)
          PROVE  Append(versions, v)[i] # Append(versions, v)[i + 1]
      <4>0. i \in 1..Len(versions)
        BY <1>1, <2>2
      <4>1. CASE i < Len(versions)
        <5>1. i \in 1..(Len(versions) - 1) /\ i + 1 \in 1..Len(versions)
          BY <4>0, <4>1, <1>1
        <5>2. versions[i] # versions[i + 1]
          BY <5>1, <2>3 DEF Differ
        <5>3. Append(versions, v)[i] = versions[i]
          BY <4>0, <2>2, Zenon
        <5>4. Append(versions, v)[i + 1] = versions[i + 1]
          BY <5>1, <2>2, Zenon
        <5> QED
          BY <5>2, <5>3, <5>4, Zenon
      <4>2. CASE i = Len(versions)
        <5>1. Last(versions) # v
          BY <4>0, <4>2, <1>3, EmptySeq
        <5>2. Append(versions, v)[i] = Last(versions)
          BY <4>0, <4>2, <2>2, Zenon DEF Last
        <5>3. Append(versions, v)[i + 1] = v
          BY <4>2, <2>2, Zenon
        <5> QED
          BY <5>1, <5>2, <5>3, Zenon
      <4>3. i < Len(versions) \/ i = Len(versions)
        <5>1. \A k \in Nat : i \in 1..k => i < k \/ i = k
          OBVIOUS
        <5> QED
          BY <5>1, <4>0, <1>1, Zenon
      <4> QED
        BY <4>1, <4>2, <4>3, Zenon
    <3> QED
      BY <3>1 DEF Differ
  <2> QED
    BY <2>1, <2>3, ElementsOfAppend
<1> QED
  BY <1>2, <1>3

\* The work of an algorithm ends with the put of its record, and puts no record before.
Worklist(l, n) ==
  /\ l # <<>> /\ Last(l) = [needs |-> {}, puts |-> n]
  /\ \A i \in 1..(Len(l) - 1) : l[i].puts \notin Names

LEMMA WorkEnds ==
  ASSUME NEW l \in Seq(Task), NEW n \in Names, Worklist(l, n), Head(l).puts \in Names
  PROVE  Head(l) = [needs |-> {}, puts |-> n] /\ Tail(l) = <<>>
<1>1. Len(l) \in Nat \ {0} /\ Head(l) = l[1]
  BY EmptySeq DEF Worklist
<1>2. Len(l) = 1
  <2>1. \A k \in Nat \ {0} : k # 1 => 1 \in 1..(k - 1)
    OBVIOUS
  <2> QED
    BY <1>1, <2>1, Zenon DEF Worklist
<1>3. Tail(l) \in Seq(Task) /\ Len(Tail(l)) = 0
  BY <1>2, HeadTailProperties DEF Worklist
<1>4. Tail(l) = <<>>
  BY <1>3, EmptySeq
<1> QED
  BY <1>1, <1>2, <1>4 DEF Worklist, Last

LEMMA WorkGoesOn ==
  ASSUME NEW l \in Seq(Task), NEW n \in Names, Worklist(l, n), Head(l).puts \notin Names
  PROVE  Tail(l) \in Seq(Task) /\ Worklist(Tail(l), n)
<1>1. /\ Tail(l) \in Seq(Task) /\ Len(Tail(l)) = Len(l) - 1
      /\ \A i \in 1..Len(Tail(l)) : Tail(l)[i] = l[i + 1]
  BY HeadTailProperties DEF Worklist
<1>2. Len(l) \in Nat \ {0} /\ Head(l) = l[1]
  BY EmptySeq DEF Worklist
<1>3. Len(l) # 1
  <2>1. [needs |-> {}, puts |-> n].puts \in Names
    OBVIOUS
  <2> QED
    BY <1>2, <2>1 DEF Worklist, Last
<1>4. Tail(l) # <<>> /\ Last(Tail(l)) = Last(l)
  <2>1. Len(Tail(l)) # 0 /\ Len(<<>>) = 0
    BY <1>1, <1>2, <1>3, EmptySeq
  <2>2. Tail(l) # <<>>
    BY <2>1, Zenon
  <2> QED
    BY <2>2, ElementsOfTail DEF Worklist
<1>5. ASSUME NEW i \in 1..(Len(Tail(l)) - 1) PROVE Tail(l)[i].puts \notin Names
  <2>1. i \in 1..Len(Tail(l)) /\ i + 1 \in 1..(Len(l) - 1)
    BY <1>1, <1>2
  <2> QED
    BY <2>1, <1>1 DEF Worklist
<1> QED
  BY <1>1, <1>4, <1>5 DEF Worklist

LEMMA WorkIsAdded ==
  ASSUME NEW k \in Seq(Task), NEW l \in Seq(Task), NEW n \in Names, Worklist(l, n),
         \A t \in ToSet(k) : t.puts \notin Names
  PROVE  k \o l \in Seq(Task) /\ Worklist(k \o l, n) /\ ToSet(k \o l) = ToSet(k) \cup ToSet(l)
<1>1. /\ k \o l \in Seq(Task) /\ ToSet(k \o l) = ToSet(k) \cup ToSet(l)
      /\ k \o l # <<>> /\ Last(k \o l) = Last(l)
  BY ElementsOfConcat DEF Worklist
<1>2. /\ Len(k \o l) = Len(k) + Len(l)
      /\ \A i \in 1..(Len(k) + Len(l)) : (k \o l)[i] = IF i <= Len(k) THEN k[i] ELSE l[i - Len(k)]
  BY ConcatProperties
<1>3. Len(k) \in Nat /\ Len(l) \in Nat /\ DOMAIN k = 1..Len(k)
  BY LenProperties
<1>4. ASSUME NEW i \in 1..(Len(k \o l) - 1) PROVE (k \o l)[i].puts \notin Names
  <2>1. CASE i <= Len(k)
    <3>1. i \in 1..Len(k) /\ (k \o l)[i] = k[i]
      BY <2>1, <1>2, <1>3
    <3> QED
      BY <3>1, <1>3 DEF ToSet
  <2>2. CASE ~ (i <= Len(k))
    <3>1. i - Len(k) \in 1..(Len(l) - 1) /\ (k \o l)[i] = l[i - Len(k)]
      BY <2>2, <1>2, <1>3
    <3> QED
      BY <3>1 DEF Worklist
  <2> QED
    BY <2>1, <2>2
<1> QED
  BY <1>1, <1>4 DEF Worklist

\* The merged record ends with the version of the bundle and has its checkpoints.
LEMMA MergeFacts ==
  ASSUME store \in Storage, bundle \in Hashes, NEW n \in DOMAIN Content[bundle]
  PROVE  LET source == Content[bundle][n]
         IN /\ Merge(n) \in Record /\ Merge(n).versions # <<>>
            /\ Last(Merge(n).versions) = Last(source.versions)
            /\ ToSet(source.checkpoints) \subseteq Merge(n).checkpoints
            /\ store[n] = Nothing =>
                 /\ ToSet(Merge(n).versions) = ToSet(source.versions)
                 /\ Merge(n).checkpoints = ToSet(source.checkpoints)
                 /\ Differ(Merge(n).versions)
            /\ store[n] # Nothing =>
                 /\ Merge(n).id = store[n].id
                 /\ ToSet(Merge(n).versions) = ToSet(store[n].versions) \cup {Last(source.versions)}
                 /\ Merge(n).checkpoints = store[n].checkpoints \cup ToSet(source.checkpoints)
                 /\ Differ(store[n].versions) => Differ(Merge(n).versions)
<1> DEFINE source == Content[bundle][n]
<1>1. /\ n \in Names /\ source.versions \in Seq(SUBSET Objects) /\ source.versions # <<>>
      /\ Last(source.versions) \in SUBSET Objects /\ Differ(source.versions)
      /\ ToSet(source.checkpoints) \subseteq Checkpoints
  BY ContentFacts
<1>2. store[n] \in Record \cup {Nothing}
  BY <1>1, StorageApply, KindsOfValues
<1>3. CASE store[n] = Nothing
  <2>1. Merge(n) = [id |-> <<n, "bundled">>, versions |-> source.versions,
                    checkpoints |-> ToSet(source.checkpoints)]
    BY <1>3 DEF Merge
  <2>2. <<n, "bundled">> \in Ids
    BY <1>1 DEF Ids
  <2> QED
    BY <2>1, <2>2, <1>1, <1>3 DEF Record
<1>4. CASE store[n] # Nothing
  <2>1. PICK target \in Record : target = store[n]
    BY <1>2, <1>4
  <2>2. /\ target.versions \in Seq(SUBSET Objects) /\ target.checkpoints \subseteq Checkpoints
        /\ target.id \in Ids
        /\ target = [id |-> target.id, versions |-> target.versions, checkpoints |-> target.checkpoints]
    BY <2>1 DEF Record
  <2> DEFINE inserted == Insert(target.versions, Last(source.versions))
  <2>3. /\ inserted \in Seq(SUBSET Objects) /\ inserted # <<>>
        /\ Last(inserted) = Last(source.versions)
        /\ ToSet(inserted) = ToSet(target.versions) \cup {Last(source.versions)}
        /\ Differ(target.versions) => Differ(inserted)
    BY <1>1, <2>2, InsertFacts
  <2>4. Merge(n) = [target EXCEPT !.versions = inserted, !.checkpoints = @ \cup ToSet(source.checkpoints)]
    BY <1>4, <2>1 DEF Merge
  <2> HIDE DEF inserted
  <2>5. Merge(n) = [id |-> target.id, versions |-> inserted,
                    checkpoints |-> target.checkpoints \cup ToSet(source.checkpoints)]
    BY <2>2, <2>4
  <2> QED
    BY <1>1, <1>4, <2>1, <2>2, <2>3, <2>5 DEF Record
<1> QED
  BY <1>3, <1>4

\* The plan names the objects of each version to copy and puts each checkpoint of the bundle.
LEMMA PlanFacts ==
  ASSUME bundle \in Hashes, NEW n \in DOMAIN Content[bundle]
  PROVE  LET source == Content[bundle][n]
         IN /\ Plan(n) \in Seq(Task) /\ Worklist(Plan(n), n)
            /\ \A v \in ToSet(source.versions) :
                 store[n] = Nothing => \E t \in ToSet(Plan(n)) : t.needs = v
            /\ \E t \in ToSet(Plan(n)) : t.needs = Last(source.versions)
            /\ \A c \in ToSet(source.checkpoints) : \E t \in ToSet(Plan(n)) : t.puts = c
            /\ \A t \in ToSet(Plan(n)) :
                 t.puts \in Checkpoints =>
                   t.puts \in ToSet(source.checkpoints) /\ t.needs = AssetsOf[t.puts]
<1> DEFINE source == Content[bundle][n]
           versions == IF store[n] = Nothing THEN source.versions ELSE <<Last(source.versions)>>
           copies == [i \in 1..Len(versions) |-> [needs |-> versions[i], puts |-> Nothing]]
           puts == [i \in 1..Len(source.checkpoints) |-> CheckpointTask(source.checkpoints[i])]
           ending == <<[needs |-> {}, puts |-> n]>>
<1>1. /\ n \in Names /\ source.versions \in Seq(SUBSET Objects) /\ source.versions # <<>>
      /\ Last(source.versions) \in SUBSET Objects /\ Last(source.versions) \in ToSet(source.versions)
      /\ source.checkpoints \in Seq(Checkpoints)
  BY ContentFacts
<1>2. versions \in Seq(SUBSET Objects) /\ Last(source.versions) \in ToSet(versions)
  <2>1. CASE store[n] = Nothing
    BY <1>1, <2>1
  <2>2. CASE store[n] # Nothing
    <3>1. PICK v \in SUBSET Objects : v = Last(source.versions)
      BY <1>1
    <3>2. <<v>> \in Seq(SUBSET Objects) /\ DOMAIN <<v>> = {1} /\ <<v>>[1] = v
      OBVIOUS
    <3>3. versions = <<v>>
      BY <2>2, <3>1
    <3> HIDE DEF versions
    <3>4. v \in ToSet(versions)
      BY <3>2, <3>3 DEF ToSet
    <3> QED
      BY <3>1, <3>2, <3>3, <3>4, Zenon
  <2> QED
    BY <2>1, <2>2
<1>3. Plan(n) = (copies \o puts) \o ending
  BY DEF Plan
<1> HIDE DEF versions
<1>4. /\ copies \in Seq(Task)
      /\ \A v \in ToSet(versions) : \E t \in ToSet(copies) : t.needs = v
      /\ \A t \in ToSet(copies) : t.puts = Nothing
  <2>1. Len(versions) \in Nat /\ DOMAIN versions = 1..Len(versions)
        /\ \A i \in 1..Len(versions) : versions[i] \in SUBSET Objects
    BY <1>2, LenProperties, ElementOfSeq
  <2>2. copies \in [1..Len(versions) -> Task]
    BY <2>1 DEF Task
  <2>3. \A i \in 1..Len(versions) : copies[i].needs = versions[i] /\ copies[i].puts = Nothing
    OBVIOUS
  <2>4. DOMAIN copies = 1..Len(versions)
    OBVIOUS
  <2> HIDE DEF copies
  <2>5. copies \in Seq(Task)
    BY <2>1, <2>2, SeqDef
  <2> QED
    BY <2>1, <2>3, <2>4, <2>5 DEF ToSet
<1>5. /\ puts \in Seq(Task)
      /\ \A c \in ToSet(source.checkpoints) : \E t \in ToSet(puts) : t.puts = c
      /\ \A t \in ToSet(puts) :
           t.puts \in ToSet(source.checkpoints) /\ t.puts \in Checkpoints /\ t.needs = AssetsOf[t.puts]
  <2> DEFINE list == source.checkpoints
  <2>1. Len(list) \in Nat /\ DOMAIN list = 1..Len(list) /\ \A i \in 1..Len(list) : list[i] \in Checkpoints
    BY <1>1, LenProperties, ElementOfSeq
  <2>2. puts \in [1..Len(list) -> Task]
    BY <2>1, CheckpointAssumption DEF Task, CheckpointTask
  <2>3. \A i \in 1..Len(list) : puts[i].puts = list[i] /\ puts[i].needs = AssetsOf[list[i]]
    BY DEF CheckpointTask
  <2>4. DOMAIN puts = 1..Len(list)
    OBVIOUS
  <2> HIDE DEF puts, list
  <2>5. puts \in Seq(Task)
    BY <2>1, <2>2, SeqDef
  <2>6. /\ \A c \in ToSet(list) : \E t \in ToSet(puts) : t.puts = c
        /\ \A t \in ToSet(puts) : t.puts \in ToSet(list) /\ t.puts \in Checkpoints /\ t.needs = AssetsOf[t.puts]
    BY <2>1, <2>3, <2>4 DEF ToSet
  <2> QED
    BY <2>5, <2>6 DEF list
<1>6. ending \in Seq(Task) /\ Worklist(ending, n) /\ \A t \in ToSet(ending) : t.puts = n
  <2>1. PICK last \in Task : last = [needs |-> {}, puts |-> n]
    BY <1>1 DEF Task
  <2>2. <<last>> \in Seq(Task) /\ Len(<<last>>) = 1 /\ <<last>>[1] = last /\ DOMAIN <<last>> = {1}
    OBVIOUS
  <2>3. PICK one \in Seq(Task) : one = <<last>> /\ Len(one) = 1 /\ one[1] = last /\ DOMAIN one = {1}
    BY <2>2
  <2>4. one = ending
    BY <2>1, <2>3
  <2>5. one # <<>> /\ Last(one) = last /\ ToSet(one) = {last} /\ last.puts = n
    BY <2>1, <2>3, EmptySeq DEF Last, ToSet
  <2>6. Worklist(one, n)
    BY <2>1, <2>3, <2>5 DEF Worklist
  <2> HIDE DEF ending
  <2> QED
    BY <2>3, <2>4, <2>5, <2>6
<1> HIDE DEF copies, puts, ending
<1>7. copies \o puts \in Seq(Task) /\ ToSet(copies \o puts) = ToSet(copies) \cup ToSet(puts)
  BY <1>4, <1>5, ElementsOfConcat
<1>8. \A t \in ToSet(copies \o puts) : t.puts \notin Names
  BY <1>4, <1>5, <1>7, KeysAssumption, NothingAssumption
<1>9. /\ Plan(n) \in Seq(Task) /\ Worklist(Plan(n), n)
      /\ ToSet(Plan(n)) = ToSet(copies) \cup ToSet(puts) \cup ToSet(ending)
  <2>1. PICK k \in Seq(Task), l \in Seq(Task) : k = copies \o puts /\ l = ending
    BY <1>6, <1>7
  <2>2. \A t \in ToSet(k) : t.puts \notin Names
    BY <2>1, <1>8, Zenon
  <2>3. Worklist(l, n)
    BY <2>1, <1>6, Zenon
  <2>4. k \o l \in Seq(Task) /\ Worklist(k \o l, n) /\ ToSet(k \o l) = ToSet(k) \cup ToSet(l)
    BY <1>1, <2>2, <2>3, WorkIsAdded
  <2> QED
    BY <1>3, <1>7, <2>1, <2>4, Zenon
<1>10. \A v \in ToSet(source.versions) :
         store[n] = Nothing => \E t \in ToSet(Plan(n)) : t.needs = v
  BY <1>4, <1>9 DEF versions
<1>11. \A t \in ToSet(Plan(n)) :
         t.puts \in Checkpoints =>
           t.puts \in ToSet(source.checkpoints) /\ t.needs = AssetsOf[t.puts]
  BY <1>1, <1>4, <1>5, <1>6, <1>9, KeysAssumption, NothingAssumption
<1> QED
  BY <1>2, <1>4, <1>5, <1>9, <1>10, <1>11

-----------------------------------------------------------------------------
(* Types *)

\* TypeOK is not inductive: where the import is tells what of its memory is set.
TypeInv ==
  /\ TypeOK
  /\ at \in {"open", "import"} => bundle \in Hashes
  /\ at = "import" => left \subseteq DOMAIN Content[bundle]
  /\ at \in {"down", "skip", "open", "up"} => todo = <<>> /\ journal = <<>>
  /\ at = "import" /\ todo # <<>> => merged \in Record

LEMMA TypeInit == Init => TypeInv
<1> SUFFICES ASSUME Init PROVE TypeInv
  OBVIOUS
<1>1. store \in [Keys -> Values] /\ \A k \in Keys : store[k] = Nothing
  BY DEF Init, Values
<1>2. store \in Storage
  BY <1>1 DEF Storage, ValuesAt
<1>3. <<>> \in Seq(Task) /\ <<>> \in Seq(Entry)
  BY EmptySeq
<1> QED
  BY <1>2, <1>3, BoundsAssumption DEF Init, TypeInv, TypeOK, Statuses

LEMMA FaultCounts ==
  ASSUME TypeInv
  PROVE  /\ Fault => faults' \in 0..MaxFaults
         /\ UNCHANGED faults => faults' \in 0..MaxFaults
BY BoundsAssumption DEF Fault, TypeInv, TypeOK

\* The entry of the journal of a write.
LEMMA NotedIsJournal ==
  ASSUME TypeInv, NEW k \in Keys
  PROVE  /\ [key |-> k, old |-> store[k]] \in Entry
         /\ Noted(k) \in Seq(Entry) /\ Len(Noted(k)) = Len(journal) + 1
         /\ \A i \in 1..Len(journal) : Noted(k)[i] = journal[i]
         /\ Noted(k)[Len(journal) + 1] = [key |-> k, old |-> store[k]]
<1>1. store \in Storage /\ journal \in Seq(Entry)
  BY DEF TypeInv, TypeOK
<1>2. store[k] \in ValuesAt(k) /\ store[k] \in Values
  BY <1>1, StorageApply, KindsOfValues
<1>3. [key |-> k, old |-> store[k]] \in Entry
  BY <1>2 DEF Entry
<1> QED
  BY <1>1, <1>3, AppendProperties DEF Noted

LEMMA TypePut ==
  ASSUME TypeInv, Working, NEW k \in Keys, NEW value \in ValuesAt(k), NEW next \in Seq(Task),
         Put(k, value, next)
  PROVE  TypeInv'
<1>1. store' \in Storage
  BY StoragePut DEF Put, TypeInv, TypeOK
<1>2. journal' \in Seq(Entry)
  BY NotedIsJournal DEF Put
<1>3. todo' \in Seq(Task) /\ faults' \in 0..MaxFaults /\ at' \in {"import", "rollback"}
  BY BoundsAssumption DEF Put, Fault, TypeInv, TypeOK, Working
<1> QED
  BY <1>1, <1>2, <1>3 DEF Put, TypeInv, TypeOK, Working

\* A put changes one key, if it changes any.
LEMMA PutChanges ==
  ASSUME TypeInv, Working, NEW k \in Keys, NEW v \in ValuesAt(k), NEW next, Put(k, v, next)
  PROVE  /\ \A l \in Keys : l # k => store'[l] = store[l]
         /\ store'[k] = store[k] \/ store'[k] = v
         /\ at' = at => store'[k] = v
<1> DEFINE s == [store EXCEPT ![k] = v]
<1>1. /\ store' = store \/ store' = s
      /\ at' = at => store' = s
  BY DEF Put, Working
<1>2. store \in Storage
  BY DEF TypeInv, TypeOK
<1>3. s[k] = v /\ \A l \in Keys : l # k => s[l] = store[l]
  <2>1. store \in [Keys -> Values]
    BY <1>2 DEF Storage
  <2> QED
    BY <2>1
<1> HIDE DEF s
<1> QED
  BY <1>1, <1>3

LEMMA TypeFind ==
  ASSUME TypeInv, NEW n \in Names, Find(n)
  PROVE  TypeInv'
<1>1. store \in Storage /\ bundle \in Hashes /\ n \in DOMAIN Content[bundle]
  BY DEF Find, TypeInv, TypeOK
<1>2. Merge(n) \in Record
  BY <1>1, MergeFacts
<1>3. Plan(n) \in Seq(Task)
  BY <1>1, PlanFacts
<1> QED
  BY <1>1, <1>2, <1>3 DEF Find, TypeInv, TypeOK

LEMMA TypeAdvance ==
  ASSUME TypeInv, Advance
  PROVE  TypeInv'
<1>1. Tail(todo) \in Seq(Task)
  BY HeadTailProperties DEF Advance, Working, TypeInv, TypeOK
<1> QED
  BY <1>1 DEF Advance, Working, TypeInv, TypeOK

\* What the copy of a manifest adds to the work, and what it puts.
LEMMA ManifestFacts ==
  ASSUME TypeInv, Working, Head(todo).puts \in Checkpoints
  PROVE  LET c == Head(todo).puts
             parent == IF ParentOf[c] = Nothing THEN <<>> ELSE <<CheckpointTask(ParentOf[c])>>
         IN /\ [parent_algorithm_id |-> merged.id] \in Manifest
            /\ parent \in Seq(Task) /\ parent \o Tail(todo) \in Seq(Task)
            /\ Tail(todo) \in Seq(Task)
            /\ ParentOf[c] = Nothing => ToSet(parent) = {}
            /\ ParentOf[c] # Nothing =>
                 ParentOf[c] \in Checkpoints /\ ToSet(parent) = {CheckpointTask(ParentOf[c])}
<1> DEFINE c == Head(todo).puts
           parent == IF ParentOf[c] = Nothing THEN <<>> ELSE <<CheckpointTask(ParentOf[c])>>
<1>1. merged \in Record /\ todo \in Seq(Task) /\ todo # <<>>
  BY DEF Working, TypeInv, TypeOK
<1>2. [parent_algorithm_id |-> merged.id] \in Manifest
  BY <1>1 DEF Record, Manifest
<1>3. Tail(todo) \in Seq(Task)
  BY <1>1, HeadTailProperties
<1>4. CASE ParentOf[c] = Nothing
  <2>1. parent = <<>> /\ <<>> \in Seq(Task) /\ DOMAIN <<>> = {}
    BY <1>4
  <2>2. ToSet(<<>>) = {}
    BY <2>1 DEF ToSet
  <2> QED
    BY <1>2, <1>3, <1>4, <2>1, <2>2, ConcatProperties
<1>5. CASE ParentOf[c] # Nothing
  <2>1. ParentOf[c] \in Checkpoints
    BY <1>5, CheckpointAssumption
  <2>2. PICK t \in Task : t = CheckpointTask(ParentOf[c])
    BY <2>1, CheckpointAssumption DEF CheckpointTask, Task
  <2>3. <<t>> \in Seq(Task) /\ DOMAIN <<t>> = {1} /\ <<t>>[1] = t
    OBVIOUS
  <2>4. PICK one \in Seq(Task) : one = <<t>> /\ DOMAIN one = {1} /\ one[1] = t
    BY <2>3
  <2>5. parent = one
    BY <1>5, <2>2, <2>4
  <2>6. ToSet(one) = {t} /\ one \o Tail(todo) \in Seq(Task)
    BY <1>3, <2>4, ConcatProperties DEF ToSet
  <2> HIDE DEF parent
  <2> QED
    BY <1>2, <1>3, <1>5, <2>1, <2>2, <2>5, <2>6, Zenon DEF parent
<1> QED
  BY <1>4, <1>5

LEMMA TypeRun ==
  ASSUME TypeInv
  PROVE  /\ \A k \in Objects : Copy(k) => TypeInv'
         /\ PutManifest => TypeInv'
         /\ PutRecord => TypeInv'
<1>1. ASSUME NEW k \in Objects, Copy(k) PROVE TypeInv'
  <2>1. k \in Keys /\ Payload \in ValuesAt(k) /\ todo \in Seq(Task)
    BY KindsOfValues DEF TypeInv, TypeOK
  <2> QED
    BY <1>1, <2>1, TypePut DEF Copy
<1>2. ASSUME PutManifest PROVE TypeInv'
  <2> DEFINE c == Head(todo).puts
             parent == IF ParentOf[c] = Nothing THEN <<>> ELSE <<CheckpointTask(ParentOf[c])>>
             manifest == [parent_algorithm_id |-> merged.id]
  <2>1. Working /\ c \in Checkpoints /\ Put(c, manifest, parent \o Tail(todo))
    BY <1>2 DEF PutManifest
  <2>2. manifest \in Manifest /\ parent \o Tail(todo) \in Seq(Task)
    BY <2>1, ManifestFacts
  <2>3. c \in Keys /\ manifest \in ValuesAt(c)
    BY <2>1, <2>2, KindsOfValues
  <2> HIDE DEF c, parent, manifest
  <2> QED
    BY <2>1, <2>2, <2>3, TypePut
<1>3. ASSUME PutRecord PROVE TypeInv'
  <2> DEFINE n == Head(todo).puts
  <2>1. Working /\ n \in Names /\ Put(n, merged, Tail(todo))
    BY <1>3 DEF PutRecord
  <2>2. merged \in Record /\ Tail(todo) \in Seq(Task)
    BY <2>1, HeadTailProperties DEF Working, TypeInv, TypeOK
  <2>3. n \in Keys /\ merged \in ValuesAt(n)
    BY <2>1, <2>2, KindsOfValues
  <2> HIDE DEF n
  <2> QED
    BY <2>1, <2>2, <2>3, TypePut
<1> QED
  BY <1>1, <1>2, <1>3

\* The last entry of the journal and what it undoes.
LEMMA UndoFacts ==
  ASSUME TypeInv, journal # <<>>
  PROVE  /\ Last(journal).key \in Keys /\ Last(journal).old \in ValuesAt(Last(journal).key)
         /\ [store EXCEPT ![Last(journal).key] = Last(journal).old] \in Storage
         /\ Front(journal) \in Seq(Entry)
<1>1. Last(journal) \in Entry /\ Front(journal) \in Seq(Entry) /\ store \in Storage
  BY FrontOfSeq DEF TypeInv, TypeOK
<1>2. Last(journal).key \in Keys /\ Last(journal).old \in ValuesAt(Last(journal).key)
  BY <1>1 DEF Entry
<1> QED
  BY <1>1, <1>2, StoragePut

LEMMA TypeUndo ==
  ASSUME TypeInv, Undo
  PROVE  TypeInv'
<1> DEFINE reverted == [store EXCEPT ![Last(journal).key] = Last(journal).old]
<1>1. at = "rollback" /\ journal # <<>> /\ store' \in {store, reverted}
      /\ journal' \in {journal, Front(journal)}
      /\ \/ faults' = faults /\ undone' = undone
         \/ Fault /\ undone' = FALSE
  BY DEF Undo
<1>2. reverted \in Storage /\ Front(journal) \in Seq(Entry)
  BY <1>1, UndoFacts
<1> HIDE DEF reverted
<1>3. store' \in Storage /\ journal' \in Seq(Entry)
  BY <1>1, <1>2 DEF TypeInv, TypeOK
<1>4. faults' \in 0..MaxFaults /\ undone' \in BOOLEAN
  BY <1>1, FaultCounts DEF TypeInv, TypeOK
<1> QED
  BY <1>1, <1>3, <1>4 DEF Undo, run, TypeInv, TypeOK

\* What a deployment stores.
LEMMA UpsertedFacts ==
  ASSUME store \in Storage, NEW n \in Names, NEW record \in Record, NEW v \in SUBSET Objects
  PROVE  /\ Upserted(n, record, v) \in Storage
         /\ \A m \in Names : Upserted(n, record, v)[m] = IF m = n THEN record ELSE store[m]
         /\ \A o \in Objects : Upserted(n, record, v)[o] = IF o \in v THEN Payload ELSE store[o]
         /\ \A c \in Checkpoints : Upserted(n, record, v)[c] = store[c]
<1>1. /\ \A m \in Names : Upserted(n, record, v)[m] = IF m = n THEN record ELSE store[m]
      /\ \A o \in Objects : Upserted(n, record, v)[o] = IF o \in v THEN Payload ELSE store[o]
      /\ \A c \in Checkpoints : Upserted(n, record, v)[c] = store[c]
  BY KeysAssumption DEF Upserted, Keys
<1>2. ASSUME NEW k \in Keys PROVE Upserted(n, record, v)[k] \in ValuesAt(k)
  <2>1. store[k] \in ValuesAt(k)
    BY StorageApply
  <2> QED
    BY <1>1, <2>1, KindsOfValues, KeysAssumption
<1>3. Upserted(n, record, v) \in [Keys -> Values]
  <2>1. \A k \in Keys : Upserted(n, record, v)[k] \in Values
    BY <1>2, KindsOfValues
  <2>2. Upserted(n, record, v) = [k \in Keys |-> Upserted(n, record, v)[k]]
    BY DEF Upserted
  <2> QED
    BY <2>1, <2>2, Zenon
<1> QED
  BY <1>1, <1>2, <1>3 DEF Storage

\* The record of a deployment.
Deployed(n, v) ==
  IF store[n] = Nothing
  THEN [id |-> <<n, "deployed">>, versions |-> <<v>>, checkpoints |-> {}]
  ELSE [store[n] EXCEPT !.versions = Insert(@, v)]

LEMMA DeployedFacts ==
  ASSUME store \in Storage, NEW n \in Names, NEW v \in SUBSET Objects
  PROVE  /\ Deployed(n, v) \in Record
         /\ store[n] = Nothing =>
              /\ ToSet(Deployed(n, v).versions) = {v} /\ Deployed(n, v).checkpoints = {}
              /\ Differ(Deployed(n, v).versions)
         /\ store[n] # Nothing =>
              /\ ToSet(Deployed(n, v).versions) = ToSet(store[n].versions) \cup {v}
              /\ Deployed(n, v).checkpoints = store[n].checkpoints
              /\ Deployed(n, v).id = store[n].id
              /\ Differ(store[n].versions) => Differ(Deployed(n, v).versions)
<1>1. store[n] \in Record \cup {Nothing}
  BY StorageApply, KindsOfValues
<1>2. CASE store[n] = Nothing
  <2>1. <<v>> \in Seq(SUBSET Objects) /\ Len(<<v>>) = 1 /\ <<v>>[1] = v /\ DOMAIN <<v>> = {1}
    OBVIOUS
  <2>2. PICK one \in Seq(SUBSET Objects) : one = <<v>> /\ Len(one) = 1 /\ one[1] = v /\ DOMAIN one = {1}
    BY <2>1
  <2>3. ToSet(one) = {v} /\ Differ(one)
    BY <2>2 DEF ToSet, Differ
  <2>4. Deployed(n, v) = [id |-> <<n, "deployed">>, versions |-> one, checkpoints |-> {}]
    BY <1>2, <2>2 DEF Deployed
  <2>5. <<n, "deployed">> \in Ids
    BY DEF Ids
  <2> QED
    BY <1>2, <2>3, <2>4, <2>5 DEF Record
<1>3. CASE store[n] # Nothing
  <2>1. PICK old \in Record : old = store[n]
    BY <1>1, <1>3
  <2>2. /\ old.versions \in Seq(SUBSET Objects) /\ old.checkpoints \subseteq Checkpoints
        /\ old.id \in Ids
        /\ old = [id |-> old.id, versions |-> old.versions, checkpoints |-> old.checkpoints]
    BY <2>1 DEF Record
  <2> DEFINE inserted == Insert(old.versions, v)
  <2>3. /\ inserted \in Seq(SUBSET Objects)
        /\ ToSet(inserted) = ToSet(old.versions) \cup {v}
        /\ Differ(old.versions) => Differ(inserted)
    BY <2>2, InsertFacts
  <2>4. Deployed(n, v) = [old EXCEPT !.versions = inserted]
    BY <1>3, <2>1 DEF Deployed
  <2> HIDE DEF inserted
  <2>5. Deployed(n, v) = [id |-> old.id, versions |-> inserted, checkpoints |-> old.checkpoints]
    BY <2>2, <2>4
  <2> QED
    BY <1>3, <2>1, <2>2, <2>3, <2>5 DEF Record
<1> QED
  BY <1>2, <1>3

LEMMA DeployStores ==
  ASSUME NEW n, NEW v, Deploy(n, v)
  PROVE  store' = Upserted(n, Deployed(n, v), v)
BY DEF Deploy, Deployed

LEMMA TypeDeploy ==
  ASSUME TypeInv, NEW n \in Names, NEW v \in Builds, Deploy(n, v)
  PROVE  TypeInv'
<1>1. store \in Storage /\ v \in SUBSET Objects
  BY BuildsAssumption DEF TypeInv, TypeOK
<1>2. store' \in Storage
  BY <1>1, DeployStores, DeployedFacts, UpsertedFacts
<1> QED
  BY <1>2, BoundsAssumption DEF Deploy, run, TypeInv, TypeOK

\* A run of the import ends: its memory is empty.
LEMMA TypeForget ==
  ASSUME TypeInv, Forget, UNCHANGED store, UNCHANGED before, at' \in {"down", "up"},
         state' \in [hash : Hashes \cup {Nothing}, status : Statuses],
         faults' \in 0..MaxFaults, sure' \in BOOLEAN, UNCHANGED <<starts, deploys, undone, users>>
  PROVE  TypeInv'
<1>1. <<>> \in Seq(Task) /\ <<>> \in Seq(Entry)
  BY EmptySeq
<1> QED
  BY <1>1 DEF Forget, TypeInv, TypeOK

LEMMA TypeEnds ==
  ASSUME TypeInv
  PROVE  /\ Skip => TypeInv'
         /\ Complete => TypeInv'
         /\ Report => TypeInv'
         /\ Stop => TypeInv'
<1> USE BoundsAssumption DEF WriteState, Fresh
<1>1. ASSUME Skip PROVE TypeInv'
  <2>1. /\ state' \in [hash : Hashes \cup {Nothing}, status : Statuses]
        /\ faults' \in 0..MaxFaults /\ sure' \in BOOLEAN
    <3>1. faults' \in 0..MaxFaults
      BY <1>1, FaultCounts DEF Skip
    <3>2. sure' \in BOOLEAN
      BY <1>1 DEF Skip, TypeInv, TypeOK
    <3>3. state' = state \/ state' = [hash |-> known, status |-> "SKIPPED"]
      BY <1>1 DEF Skip
    <3>4. state' \in [hash : Hashes \cup {Nothing}, status : Statuses]
      BY <3>3 DEF TypeInv, TypeOK, Statuses
    <3> QED
      BY <3>1, <3>2, <3>4
  <2>2. CASE at' = "up"
    BY <1>1, <2>1, <2>2, TypeForget DEF Skip
  <2>3. CASE at' = "rollback"
    BY <1>1, <2>1, <2>3 DEF Skip, run, TypeInv, TypeOK
  <2> QED
    BY <1>1, <2>2, <2>3 DEF Skip
<1>2. ASSUME Complete PROVE TypeInv'
  <2>1. /\ state' \in [hash : Hashes \cup {Nothing}, status : Statuses]
        /\ faults' \in 0..MaxFaults /\ sure' \in BOOLEAN
    <3>1. faults' \in 0..MaxFaults
      BY <1>2, FaultCounts DEF Complete, Done
    <3>2. sure' \in BOOLEAN
      BY <1>2 DEF Complete, Done, TypeInv, TypeOK
    <3>3. state' = state \/ state' = [hash |-> bundle, status |-> "COMPLETED"]
      BY <1>2 DEF Complete, Done
    <3>4. state' \in [hash : Hashes \cup {Nothing}, status : Statuses]
      BY <3>3 DEF TypeInv, TypeOK, Statuses
    <3> QED
      BY <3>1, <3>2, <3>4
  <2>2. CASE at' = "up"
    BY <1>2, <2>1, <2>2, TypeForget DEF Complete
  <2>3. CASE at' = "rollback"
    BY <1>2, <2>1, <2>3 DEF Complete, run, TypeInv, TypeOK
  <2> QED
    BY <1>2, <2>2, <2>3 DEF Complete
<1>3. ASSUME Report PROVE TypeInv'
  <2>1. /\ state' \in [hash : Hashes \cup {Nothing}, status : Statuses]
        /\ faults' \in 0..MaxFaults /\ sure' \in BOOLEAN
    <3>1. faults' \in 0..MaxFaults
      BY <1>3, FaultCounts DEF Report
    <3>2. sure' \in BOOLEAN
      BY <1>3 DEF Report, TypeInv, TypeOK
    <3>3. state' = state \/ state' = [hash |-> known, status |-> "FAILED"]
      BY <1>3 DEF Report
    <3>4. state' \in [hash : Hashes \cup {Nothing}, status : Statuses]
      BY <3>3 DEF TypeInv, TypeOK, Statuses
    <3> QED
      BY <3>1, <3>2, <3>4
  <2> QED
    BY <1>3, <2>1, TypeForget DEF Report
<1>4. ASSUME Stop PROVE TypeInv'
  <2>1. /\ state' \in [hash : Hashes \cup {Nothing}, status : Statuses]
        /\ faults' \in 0..MaxFaults /\ sure' \in BOOLEAN
    BY <1>4 DEF Stop, TypeInv, TypeOK
  <2> QED
    BY <1>4, <2>1, TypeForget DEF Stop
<1> QED
  BY <1>1, <1>2, <1>3, <1>4

LEMMA TypeStarts ==
  ASSUME TypeInv
  PROVE  /\ \A h \in Hashes : StartAgain(h) => TypeInv'
         /\ \A h \in Hashes \cup {Nothing}, keyed \in BOOLEAN : Start(h, keyed) => TypeInv'
         /\ \A written \in BOOLEAN : StartFails(written) => TypeInv'
         /\ Open => TypeInv'
         /\ Fail => TypeInv'
<1> USE BoundsAssumption DEF WriteState, Fresh, run
<1>1. ASSUME NEW h \in Hashes, StartAgain(h) PROVE TypeInv'
  BY <1>1 DEF StartAgain, TypeInv, TypeOK
<1>2. ASSUME NEW h \in Hashes \cup {Nothing}, NEW keyed \in BOOLEAN, Start(h, keyed) PROVE TypeInv'
  <2>1. /\ state' \in [hash : Hashes \cup {Nothing}, status : Statuses]
        /\ state.hash \in Hashes \cup {Nothing} /\ starts' \in 0..MaxStarts
    BY <1>2 DEF Start, TypeInv, TypeOK, Statuses
  <2>2. /\ bundle' \in Hashes \cup {Nothing} /\ at' \in {"open", "skip"}
        /\ at' = "open" => bundle' \in Hashes
    BY <1>2 DEF Start, TypeInv, TypeOK
  <2> QED
    BY <1>2, <2>1, <2>2 DEF Start, TypeInv, TypeOK
<1>3. ASSUME NEW written \in BOOLEAN, StartFails(written) PROVE TypeInv'
  <2>1. /\ state' \in [hash : Hashes \cup {Nothing}, status : Statuses]
        /\ starts' \in 0..MaxStarts /\ faults' \in 0..MaxFaults /\ sure' \in BOOLEAN
    <3>1. state' \in [hash : Hashes \cup {Nothing}, status : Statuses] /\ sure' \in BOOLEAN
      BY <1>3 DEF StartFails, TypeInv, TypeOK, Statuses
    <3>2. faults' \in 0..MaxFaults
      BY <1>3, FaultCounts DEF StartFails
    <3>3. starts' \in 0..MaxStarts
      BY <1>3 DEF StartFails, TypeInv, TypeOK
    <3> QED
      BY <3>1, <3>2, <3>3
  <2> QED
    BY <1>3, <2>1 DEF StartFails, TypeInv, TypeOK
<1>4. ASSUME Open PROVE TypeInv'
  BY <1>4, ContentAssumption DEF Open, TypeInv, TypeOK
<1>5. ASSUME Fail PROVE TypeInv'
  BY <1>5 DEF Fail, Fault, TypeInv, TypeOK
<1> QED
  BY <1>1, <1>2, <1>3, <1>4, <1>5

LEMMA TypeInductive == TypeInv /\ [Next]_vars => TypeInv'
<1> SUFFICES ASSUME TypeInv, [Next]_vars PROVE TypeInv'
  OBVIOUS
<1>1. CASE UNCHANGED vars
  BY <1>1 DEF vars, TypeInv, TypeOK
<1>2. CASE Next
  BY <1>2, TypeStarts, TypeEnds, TypeFind, TypeAdvance, TypeRun, TypeUndo, TypeDeploy DEF Next
<1> QED
  BY <1>1, <1>2

\* Type correctness of the import, for every content of the bundles and every bound.
THEOREM TypeCorrect == Spec => []TypeInv
BY TypeInit, TypeInductive, PTL DEF Spec

\* The type invariant that the run checks follows from the inductive one.
THEOREM TypesAreKept == Spec => []TypeOK
BY TypeCorrect, PTL DEF TypeInv

-----------------------------------------------------------------------------
(* The rollback *)

\* past leads from the storage b to s, one write for each entry of the journal j, within S.
Leads(past, S, j, b, s) ==
  /\ past \in [0..Len(j) -> S]
  /\ past[0] = b /\ past[Len(j)] = s
  /\ \A i \in 1..Len(j) : past[i - 1] = [past[i] EXCEPT ![j[i].key] = j[i].old]

\* As long as no step of the rollback failed, the journal leads back to where the import began,
\* by way of storages of S.
RollbackInv(S) ==
  at \in {"skip", "open", "import", "rollback"} /\ undone =>
    \E past \in [0..Len(journal) -> S] : Leads(past, S, journal, before, store)

\* A write and its entry make the way longer.
LEMMA WayGrows ==
  ASSUME TypeInv, NEW S, NEW past, Leads(past, S, journal, before, store),
         NEW k \in Keys, NEW v \in ValuesAt(k),
         NEW s \in S, s = store \/ s = [store EXCEPT ![k] = v]
  PROVE  \E p \in [0..Len(Noted(k)) -> S] : Leads(p, S, Noted(k), before, s)
<1> DEFINE len == Len(journal)
           p == [i \in 0..(len + 1) |-> IF i <= len THEN past[i] ELSE s]
<1>1. len \in Nat /\ store \in Storage
  BY LenProperties DEF TypeInv, TypeOK
<1>2. /\ Len(Noted(k)) = len + 1
      /\ \A i \in 1..len : Noted(k)[i] = journal[i]
      /\ Noted(k)[len + 1] = [key |-> k, old |-> store[k]]
  BY NotedIsJournal
<1>3. /\ past \in [0..len -> S] /\ past[0] = before /\ past[len] = store
      /\ \A i \in 1..len : past[i - 1] = [past[i] EXCEPT ![journal[i].key] = journal[i].old]
  BY DEF Leads
<1>4. [s EXCEPT ![k] = store[k]] = store
  BY <1>1, PutBack
<1> HIDE DEF len
<1>5. p \in [0..(len + 1) -> S]
  BY <1>1, <1>3
<1>6. /\ \A i \in 0..len : p[i] = past[i]
      /\ p[len + 1] = s
  BY <1>1
<1> HIDE DEF p
<1>7. ASSUME NEW i \in 1..(len + 1)
      PROVE  p[i - 1] = [p[i] EXCEPT ![Noted(k)[i].key] = Noted(k)[i].old]
  <2>1. CASE i <= len
    <3>1. i \in 1..len /\ i \in 0..len /\ i - 1 \in 0..len
      BY <1>1, <2>1
    <3> QED
      BY <3>1, <1>2, <1>3, <1>6
  <2>2. CASE ~ (i <= len)
    <3>1. i = len + 1 /\ i - 1 = len /\ len \in 0..len
      BY <1>1, <2>2
    <3>2. p[i - 1] = store
      BY <3>1, <1>3, <1>6
    <3>3. Noted(k)[i].key = k /\ Noted(k)[i].old = store[k] /\ p[i] = s
      BY <3>1, <1>2, <1>6
    <3> QED
      BY <3>2, <3>3, <1>4
  <2> QED
    BY <2>1, <2>2
<1>8. p[0] = before /\ p[len + 1] = s
  BY <1>1, <1>3, <1>6
<1> QED
  BY <1>2, <1>5, <1>7, <1>8 DEF Leads

\* An undo of the last entry goes one step back.
LEMMA WayShrinks ==
  ASSUME TypeInv, NEW S, NEW past, Leads(past, S, journal, before, store), journal # <<>>
  PROVE  LET s == [store EXCEPT ![Last(journal).key] = Last(journal).old]
         IN /\ s \in S
            /\ \E p \in [0..Len(Front(journal)) -> S] : Leads(p, S, Front(journal), before, s)
<1> DEFINE len == Len(journal)
           s == [store EXCEPT ![Last(journal).key] = Last(journal).old]
           p == [i \in 0..(len - 1) |-> past[i]]
<1>0. journal \in Seq(Entry)
  BY DEF TypeInv, TypeOK
<1>1. /\ len \in Nat \ {0} /\ Len(Front(journal)) = len - 1
      /\ \A i \in 1..(len - 1) : Front(journal)[i] = journal[i]
      /\ Last(journal) = journal[len]
  BY <1>0, FrontOfSeq, Zenon
<1>2. /\ past \in [0..len -> S] /\ past[0] = before /\ past[len] = store
      /\ \A i \in 1..len : past[i - 1] = [past[i] EXCEPT ![journal[i].key] = journal[i].old]
  BY DEF Leads
<1>3. past[len - 1] = s /\ s \in S
  <2>1. \A m \in Nat \ {0} : m \in 1..m /\ m - 1 \in 0..m
    OBVIOUS
  <2>2. len \in 1..len /\ len - 1 \in 0..len
    BY <2>1, <1>1, Zenon
  <2>3. past[len - 1] = [past[len] EXCEPT ![journal[len].key] = journal[len].old]
    BY <2>2, <1>2, Zenon
  <2>4. past[len - 1] = s
    BY <2>3, <1>1, <1>2, Zenon
  <2>5. past[len - 1] \in S
    BY <2>2, <1>2
  <2> QED
    BY <2>4, <2>5
<1> HIDE DEF len, s
<1>4. p \in [0..(len - 1) -> S]
  BY <1>1, <1>2
<1>5. \A i \in 0..(len - 1) : p[i] = past[i]
  OBVIOUS
<1> HIDE DEF p
<1>6. p[0] = before /\ p[len - 1] = s
  BY <1>1, <1>2, <1>3, <1>5
<1>7. ASSUME NEW i \in 1..(len - 1)
      PROVE  p[i - 1] = [p[i] EXCEPT ![Front(journal)[i].key] = Front(journal)[i].old]
  <2>1. i \in 1..len /\ i \in 0..(len - 1) /\ i - 1 \in 0..(len - 1)
    BY <1>1
  <2> QED
    BY <2>1, <1>1, <1>2, <1>5
<1>8. Leads(p, S, Front(journal), before, s)
  BY <1>1, <1>4, <1>6, <1>7 DEF Leads
<1> QED
  BY <1>1, <1>3, <1>4, <1>8 DEF s

\* A step of the import that changes neither the storage nor the journal.
LEMMA RollbackFrame ==
  ASSUME NEW S, RollbackInv(S), UNCHANGED <<store, journal, before, undone>>,
         at \in {"skip", "open", "import", "rollback"}
  PROVE  RollbackInv(S)'
BY DEF RollbackInv

LEMMA RollbackPut ==
  ASSUME TypeInv, NEW S, RollbackInv(S), store' \in S, Working,
         NEW k \in Keys, NEW v \in ValuesAt(k), NEW next, Put(k, v, next)
  PROVE  RollbackInv(S)'
<1>1. /\ journal' = Noted(k) /\ before' = before /\ undone' = undone /\ at = "import"
      /\ store' = store \/ store' = [store EXCEPT ![k] = v]
  BY DEF Put, Working
<1>2. CASE ~ undone
  BY <1>1, <1>2 DEF RollbackInv
<1>3. CASE undone
  <2>1. PICK past \in [0..Len(journal) -> S] : Leads(past, S, journal, before, store)
    BY <1>1, <1>3 DEF RollbackInv
  <2>2. PICK s \in S : s = store'
    OBVIOUS
  <2>3. \E p \in [0..Len(Noted(k)) -> S] : Leads(p, S, Noted(k), before, s)
    BY <1>1, <2>1, <2>2, WayGrows
  <2> QED
    BY <1>1, <2>2, <2>3 DEF RollbackInv
<1> QED
  BY <1>2, <1>3

LEMMA RollbackUndo ==
  ASSUME TypeInv, NEW S, RollbackInv(S), Undo
  PROVE  RollbackInv(S)'
<1> DEFINE s == [store EXCEPT ![Last(journal).key] = Last(journal).old]
<1>1. /\ at = "rollback" /\ undone /\ journal # <<>> /\ before' = before
      /\ \/ store' = s /\ journal' = Front(journal)
         \/ undone' = FALSE
  BY DEF Undo
<1>2. CASE undone' = FALSE
  BY <1>2 DEF RollbackInv
<1>3. CASE store' = s /\ journal' = Front(journal)
  <2>1. PICK past \in [0..Len(journal) -> S] : Leads(past, S, journal, before, store)
    BY <1>1 DEF RollbackInv
  <2>2. \E p \in [0..Len(Front(journal)) -> S] : Leads(p, S, Front(journal), before, s)
    BY <1>1, <2>1, WayShrinks
  <2> HIDE DEF s
  <2> QED
    BY <1>1, <1>3, <2>2 DEF RollbackInv
<1> QED
  BY <1>1, <1>2, <1>3

LEMMA RollbackStart ==
  ASSUME TypeInv, NEW S, store \in S, NEW h, NEW keyed, Start(h, keyed)
  PROVE  RollbackInv(S)'
<1>1. journal' = <<>> /\ before' = store /\ store' = store
  BY DEF Start, TypeInv
<1> DEFINE p == [i \in 0..0 |-> store]
<1>2. Len(<<>>) = 0
  OBVIOUS
<1>3. p \in [0..0 -> S] /\ p[0] = store
  OBVIOUS
<1> HIDE DEF p
<1>4. Leads(p, S, <<>>, store, store)
  BY <1>2, <1>3 DEF Leads
<1> QED
  BY <1>1, <1>2, <1>3, <1>4 DEF RollbackInv

\* Each step keeps the way back, if the storages before and after it are of S.
LEMMA RollbackInductive ==
  ASSUME TypeInv, NEW S, RollbackInv(S), store \in S, store' \in S, [Next]_vars
  PROVE  RollbackInv(S)'
<1>1. CASE UNCHANGED vars
  BY <1>1 DEF vars, RollbackInv
<1>2. ASSUME at' \in {"down", "up"} PROVE RollbackInv(S)'
  BY <1>2 DEF RollbackInv
<1>3. ASSUME NEW h \in Hashes, StartAgain(h) PROVE RollbackInv(S)'
  BY <1>2, <1>3 DEF StartAgain
<1>4. ASSUME NEW h \in Hashes \cup {Nothing}, NEW keyed \in BOOLEAN, Start(h, keyed)
      PROVE  RollbackInv(S)'
  BY <1>4, RollbackStart
<1>5. ASSUME NEW written \in BOOLEAN, StartFails(written) PROVE RollbackInv(S)'
  BY <1>2, <1>5 DEF StartFails
<1>6. ASSUME Skip PROVE RollbackInv(S)'
  BY <1>2, <1>6, RollbackFrame DEF Skip
<1>7. ASSUME Open PROVE RollbackInv(S)'
  BY <1>7, RollbackFrame DEF Open
<1>8. ASSUME NEW n \in Names, Find(n) PROVE RollbackInv(S)'
  BY <1>8, RollbackFrame DEF Find
<1>9. ASSUME NEW k \in Objects, Copy(k) PROVE RollbackInv(S)'
  <2>1. k \in Keys /\ Payload \in ValuesAt(k)
    BY KindsOfValues
  <2> QED
    BY <1>9, <2>1, RollbackPut DEF Copy
<1>10. ASSUME Advance PROVE RollbackInv(S)'
  BY <1>10, RollbackFrame DEF Advance, Working
<1>11. ASSUME PutManifest PROVE RollbackInv(S)'
  <2> DEFINE c == Head(todo).puts
             parent == IF ParentOf[c] = Nothing THEN <<>> ELSE <<CheckpointTask(ParentOf[c])>>
             manifest == [parent_algorithm_id |-> merged.id]
  <2>1. Working /\ c \in Checkpoints /\ Put(c, manifest, parent \o Tail(todo))
    BY <1>11 DEF PutManifest
  <2>2. c \in Keys /\ manifest \in ValuesAt(c)
    BY <2>1, ManifestFacts, KindsOfValues
  <2> HIDE DEF c, parent, manifest
  <2> QED
    BY <2>1, <2>2, RollbackPut
<1>12. ASSUME PutRecord PROVE RollbackInv(S)'
  <2> DEFINE n == Head(todo).puts
  <2>1. Working /\ n \in Names /\ Put(n, merged, Tail(todo))
    BY <1>12 DEF PutRecord
  <2>2. n \in Keys /\ merged \in ValuesAt(n)
    BY <2>1, KindsOfValues DEF Working, TypeInv
  <2> HIDE DEF n
  <2> QED
    BY <2>1, <2>2, RollbackPut
<1>13. ASSUME Fail PROVE RollbackInv(S)'
  BY <1>13, RollbackFrame DEF Fail
<1>14. ASSUME Complete PROVE RollbackInv(S)'
  BY <1>2, <1>14, RollbackFrame DEF Complete
<1>15. ASSUME Undo PROVE RollbackInv(S)'
  BY <1>15, RollbackUndo
<1>16. ASSUME Report PROVE RollbackInv(S)'
  BY <1>2, <1>16 DEF Report
<1>17. ASSUME Stop PROVE RollbackInv(S)'
  BY <1>2, <1>17 DEF Stop
<1>18. ASSUME NEW n \in Names, NEW v \in Builds, Deploy(n, v) PROVE RollbackInv(S)'
  BY <1>2, <1>18 DEF Deploy
<1> QED
  BY <1>1, <1>3, <1>4, <1>5, <1>6, <1>7, <1>8, <1>9, <1>10, <1>11, <1>12, <1>13, <1>14, <1>15,
     <1>16, <1>17, <1>18 DEF Next

LEMMA RollbackEnds ==
  ASSUME NEW S, RollbackInv(S)
  PROVE  RollbackRestores
<1>1. Len(<<>>) = 0
  OBVIOUS
<1> QED
  BY <1>1 DEF RollbackInv, RollbackRestores, Leads

-----------------------------------------------------------------------------
(* COMPLETED means imported *)

\* A record that has what the bundle h has of the algorithm n.
Has(record, h, n) ==
  /\ record # Nothing
  /\ Last(record.versions) = Last(Content[h][n].versions)
  /\ ToSet(Content[h][n].checkpoints) \subseteq record.checkpoints

\* The work to do ends with the put of a record that has what the bundle has.
WorkInv ==
  at = "import" /\ todo # <<>> =>
    \E n \in DOMAIN Content[bundle] : n \notin left /\ Worklist(todo, n) /\ Has(merged, bundle, n)

\* An algorithm of the bundle that is no longer to come is imported or being imported.
SettledInv ==
  at = "import" =>
    \A n \in DOMAIN Content[bundle] :
      n \notin left => Has(store[n], bundle, n) \/ (todo # <<>> /\ Worklist(todo, n))

\* The state is COMPLETED only once an import ended, and then rightly.
StatusInv ==
  /\ at \in {"skip", "open", "import"} => state.status # "COMPLETED"
  /\ at = "rollback" /\ sure => state.status # "COMPLETED"
  /\ state.status = "COMPLETED" => state.hash \in Hashes
  /\ CompletedIsImported

ImportInv == WorkInv /\ SettledInv /\ StatusInv

LEMMA ImportInit == Init => ImportInv
BY DEF Init, ImportInv, WorkInv, SettledInv, StatusInv, CompletedIsImported

\* A step outside the import itself, after which the state is not COMPLETED unless it was.
LEMMA ImportFrame ==
  ASSUME TypeInv, ImportInv, at' # "import", UNCHANGED <<store, users>>,
         \/ state' = state /\ sure' = sure /\ (at' \in {"skip", "open"} => at \in {"skip", "open"})
            /\ (at' = "rollback" => at # "up" /\ at # "down")
         \/ state'.status # "COMPLETED"
  PROVE  ImportInv'
<1>1. CASE /\ state' = state /\ sure' = sure /\ (at' \in {"skip", "open"} => at \in {"skip", "open"})
           /\ (at' = "rollback" => at # "up" /\ at # "down")
  <2>1. CompletedIsImported'
    BY <1>1, Zenon DEF ImportInv, StatusInv, CompletedIsImported
  <2>2. state.status = "COMPLETED" => state.hash \in Hashes
    BY DEF ImportInv, StatusInv
  <2>3. at' \in {"skip", "open"} => state.status # "COMPLETED"
    BY <1>1 DEF ImportInv, StatusInv
  <2>4. at' = "rollback" /\ sure => state.status # "COMPLETED"
    BY <1>1 DEF ImportInv, StatusInv, TypeInv, TypeOK
  <2>5. StatusInv'
    BY <1>1, <2>1, <2>2, <2>3, <2>4, Zenon DEF StatusInv
  <2> QED
    BY <2>5 DEF ImportInv, WorkInv, SettledInv
<1>2. CASE state'.status # "COMPLETED"
  BY <1>2, Zenon DEF ImportInv, WorkInv, SettledInv, StatusInv, CompletedIsImported
<1> QED
  BY <1>1, <1>2

LEMMA ImportOpen ==
  ASSUME TypeInv, ImportInv, Open
  PROVE  ImportInv'
<1>1. /\ at = "open" /\ at' = "import" /\ bundle' = bundle /\ store' = store /\ state' = state
      /\ left' = DOMAIN Content[bundle] /\ todo' = <<>> /\ sure' = sure /\ users' = users
  BY DEF Open, TypeInv
<1>2. state.status # "COMPLETED"
  BY <1>1 DEF ImportInv, StatusInv
<1> QED
  BY <1>1, <1>2 DEF ImportInv, WorkInv, SettledInv, StatusInv, CompletedIsImported

\* In the import itself the state is RUNNING.
LEMMA StatusInImport ==
  ASSUME ImportInv, at = "import", at' \in {"import", "rollback"}, UNCHANGED state
  PROVE  StatusInv'
BY DEF ImportInv, StatusInv, CompletedIsImported

LEMMA ImportFind ==
  ASSUME TypeInv, ImportInv, NEW n \in Names, Find(n)
  PROVE  ImportInv'
<1>1. /\ at = "import" /\ at' = "import" /\ todo = <<>> /\ n \in left /\ left' = left \ {n}
      /\ todo' = Plan(n) /\ merged' = Merge(n)
      /\ bundle' = bundle /\ store' = store /\ state' = state
  BY DEF Find
<1>2. store \in Storage /\ bundle \in Hashes /\ n \in DOMAIN Content[bundle]
  BY <1>1 DEF TypeInv, TypeOK
<1>3. Worklist(Plan(n), n)
  BY <1>2, PlanFacts
<1>4. Has(Merge(n), bundle, n)
  <2>1. Merge(n) # Nothing
    BY <1>2, MergeFacts, NothingAssumption
  <2> QED
    BY <1>2, <2>1, MergeFacts DEF Has
<1>5. WorkInv'
  BY <1>1, <1>2, <1>3, <1>4 DEF WorkInv
<1>6. SettledInv'
  <2>1. Plan(n) # <<>>
    BY <1>3 DEF Worklist
  <2>2. \A m \in DOMAIN Content[bundle] : m \notin left => Has(store[m], bundle, m)
    BY <1>1 DEF ImportInv, SettledInv
  <2> QED
    BY <1>1, <1>3, <2>1, <2>2, Zenon DEF SettledInv
<1> QED
  BY <1>1, <1>5, <1>6, StatusInImport DEF ImportInv

\* The work goes on after a step that puts no record.
LEMMA ImportGoesOn ==
  ASSUME TypeInv, ImportInv, Working, at' \in {"import", "rollback"},
         UNCHANGED <<state, bundle, left, merged>>,
         \A n \in Names : store'[n] = store[n],
         at' = "import" =>
           todo' # <<>> /\ \A n \in Names : Worklist(todo, n) => Worklist(todo', n)
  PROVE  ImportInv'
<1>1. bundle \in Hashes /\ at = "import" /\ todo # <<>>
  BY DEF Working, TypeInv
<1>2. DOMAIN Content[bundle] \subseteq Names
  BY <1>1, ContentAssumption
<1>3. WorkInv'
  BY <1>1, <1>2 DEF ImportInv, WorkInv
<1>4. SettledInv'
  BY <1>1, <1>2 DEF ImportInv, SettledInv
<1> QED
  BY <1>1, <1>3, <1>4, StatusInImport DEF ImportInv

LEMMA ImportCopy ==
  ASSUME TypeInv, ImportInv, NEW k \in Objects, Copy(k)
  PROVE  ImportInv'
<1>1. k \in Keys /\ Payload \in ValuesAt(k) /\ store \in Storage /\ Names \subseteq Keys
  BY KindsOfValues DEF TypeInv, TypeOK
<1>2. \A n \in Names : store'[n] = store[n]
  BY <1>1, PutChanges, KeysAssumption DEF Copy, Working
<1> QED
  BY <1>2, ImportGoesOn DEF Copy, Put, Working

LEMMA ImportAdvance ==
  ASSUME TypeInv, ImportInv, Advance
  PROVE  ImportInv'
<1>1. /\ Working /\ Head(todo).puts \notin Names /\ todo \in Seq(Task) /\ todo' = Tail(todo)
  BY NothingAssumption, KeysAssumption DEF Advance, TypeInv, TypeOK
<1>2. \A n \in Names : Worklist(todo, n) => Worklist(todo', n)
  BY <1>1, WorkGoesOn
<1>3. \E n \in Names : Worklist(todo, n)
  BY <1>1, ContentAssumption DEF ImportInv, WorkInv, Working, TypeInv
<1>4. todo' # <<>>
  BY <1>2, <1>3 DEF Worklist
<1> QED
  BY <1>1, <1>2, <1>4, ImportGoesOn DEF Advance, Working

LEMMA ImportManifest ==
  ASSUME TypeInv, ImportInv, PutManifest
  PROVE  ImportInv'
<1> DEFINE c == Head(todo).puts
           parent == IF ParentOf[c] = Nothing THEN <<>> ELSE <<CheckpointTask(ParentOf[c])>>
           manifest == [parent_algorithm_id |-> merged.id]
<1>1. Working /\ c \in Checkpoints /\ Put(c, manifest, parent \o Tail(todo))
  BY DEF PutManifest
<1>2. /\ c \in Keys /\ manifest \in ValuesAt(c) /\ store \in Storage /\ Names \subseteq Keys
      /\ c \notin Names /\ todo \in Seq(Task)
  BY <1>1, ManifestFacts, KindsOfValues, KeysAssumption DEF TypeInv, TypeOK
<1>3. /\ parent \in Seq(Task)
      /\ \A t \in ToSet(parent) : t.puts \notin Names
  BY <1>1, ManifestFacts, KeysAssumption DEF CheckpointTask
<1> HIDE DEF parent, manifest
<1>4. \A n \in Names : store'[n] = store[n]
  BY <1>1, <1>2, PutChanges
<1>5. ASSUME NEW n \in Names, Worklist(todo, n) PROVE Worklist(parent \o Tail(todo), n)
  <2>1. Tail(todo) \in Seq(Task) /\ Worklist(Tail(todo), n)
    BY <1>2, <1>5, WorkGoesOn
  <2> QED
    BY <1>3, <2>1, WorkIsAdded
<1>6. \E n \in Names : Worklist(todo, n)
  BY <1>1, ContentAssumption DEF ImportInv, WorkInv, Working, TypeInv
<1>7. parent \o Tail(todo) # <<>>
  BY <1>5, <1>6 DEF Worklist
<1> QED
  BY <1>1, <1>4, <1>5, <1>7, ImportGoesOn DEF Put, Working

LEMMA ImportRecord ==
  ASSUME TypeInv, ImportInv, PutRecord
  PROVE  ImportInv'
<1> DEFINE n == Head(todo).puts
<1>1. Working /\ n \in Names /\ Put(n, merged, Tail(todo))
  BY DEF PutRecord
<1>2. /\ n \in Keys /\ merged \in ValuesAt(n) /\ store \in Storage /\ todo \in Seq(Task)
      /\ Names \subseteq Keys /\ bundle \in Hashes /\ DOMAIN Content[bundle] \subseteq Names
  BY <1>1, KindsOfValues, ContentAssumption DEF Working, TypeInv, TypeOK
<1>3. \A m \in Names : Worklist(todo, m) => m = n /\ Tail(todo) = <<>>
  BY <1>1, <1>2, WorkEnds
<1>4. n \in DOMAIN Content[bundle] /\ n \notin left /\ Has(merged, bundle, n) /\ Tail(todo) = <<>>
  BY <1>1, <1>2, <1>3 DEF ImportInv, WorkInv, Working
<1>5. CASE at' = "rollback"
  BY <1>1, <1>5, StatusInImport DEF ImportInv, WorkInv, SettledInv, Put, Working
<1>6. CASE at' # "rollback"
  <2>1. /\ at' = "import" /\ at = "import" /\ todo' = <<>> /\ store' = [store EXCEPT ![n] = merged]
        /\ UNCHANGED <<state, bundle, left>>
    BY <1>1, <1>4, <1>6 DEF Put, Working
  <2>2. store'[n] = merged /\ \A m \in Names : m # n => store'[m] = store[m]
    BY <1>2, <2>1, StoragePut
  <2>3. ASSUME NEW m \in DOMAIN Content[bundle], m \notin left PROVE Has(store'[m], bundle, m)
    <3>1. CASE m = n
      BY <1>4, <2>2, <3>1
    <3>2. CASE m # n
      <4>1. Has(store[m], bundle, m)
        BY <1>2, <1>3, <2>1, <2>3, <3>2 DEF ImportInv, SettledInv
      <4> QED
        BY <1>2, <2>2, <3>2, <4>1
    <3> QED
      BY <3>1, <3>2
  <2>4. SettledInv'
    BY <2>1, <2>3 DEF SettledInv
  <2> QED
    BY <2>1, <2>4, StatusInImport DEF ImportInv, WorkInv
<1> QED
  BY <1>5, <1>6

LEMMA ImportComplete ==
  ASSUME TypeInv, ImportInv, Complete
  PROVE  ImportInv'
<1>1. /\ at = "import" /\ todo = <<>> /\ left = {} /\ bundle \in Hashes
      /\ store' = store /\ users' = users /\ at' \in {"up", "rollback"}
  BY DEF Complete, TypeInv
<1>2. state' = state \/ state' = [hash |-> bundle, status |-> "COMPLETED"]
  BY DEF Complete, WriteState, Done
<1>3. state.status # "COMPLETED" /\ \A n \in DOMAIN Content[bundle] : Has(store[n], bundle, n)
  BY <1>1 DEF ImportInv, SettledInv, StatusInv
<1>4. CASE state' = state
  BY <1>1, <1>3, <1>4, ImportFrame
<1>5. CASE state' = [hash |-> bundle, status |-> "COMPLETED"]
  <2>1. state'.hash = bundle /\ state'.status = "COMPLETED"
    BY <1>5
  <2>2. at' = "rollback" => sure' = FALSE
    <3>1. Done # state
      BY <1>3 DEF Done
    <3> QED
      BY <1>5, <3>1 DEF Complete, Done
  <2>3. CompletedIsImported'
    BY <1>1, <1>3, <2>1 DEF CompletedIsImported, Has
  <2> QED
    BY <1>1, <2>1, <2>2, <2>3 DEF ImportInv, WorkInv, SettledInv, StatusInv
<1> QED
  BY <1>2, <1>4, <1>5

LEMMA ImportUndo ==
  ASSUME ImportInv, Undo
  PROVE  ImportInv'
BY DEF Undo, ImportInv, WorkInv, SettledInv, StatusInv, CompletedIsImported

LEMMA ImportDeploy ==
  ASSUME TypeInv, ImportInv, NEW n \in Names, NEW v \in Builds, Deploy(n, v)
  PROVE  ImportInv'
<1>1. /\ at' = "up" /\ at = "up" /\ state' = state /\ sure' = sure /\ users' = users \cup {n}
      /\ store \in Storage /\ v \in SUBSET Objects
  BY BuildsAssumption DEF Deploy, TypeInv, TypeOK
<1>2. Deployed(n, v) \in Record /\ Deployed(n, v) # Nothing
  BY <1>1, DeployedFacts, NothingAssumption
<1>3. \A m \in Names : store'[m] = IF m = n THEN Deployed(n, v) ELSE store[m]
  BY <1>1, <1>2, DeployStores, UpsertedFacts
<1>4. CompletedIsImported'
  <2> SUFFICES ASSUME state.status = "COMPLETED", sure, NEW m \in DOMAIN Content[state.hash]
               PROVE  /\ store'[m] # Nothing
                      /\ m \notin users' =>
                           Last(store'[m].versions) = Last(Content[state.hash][m].versions)
                      /\ ToSet(Content[state.hash][m].checkpoints) \subseteq store'[m].checkpoints
    BY <1>1 DEF CompletedIsImported
  <2>1. m \in Names
    BY ContentAssumption DEF ImportInv, StatusInv
  <2>2. /\ store[m] # Nothing
        /\ m \notin users => Last(store[m].versions) = Last(Content[state.hash][m].versions)
        /\ ToSet(Content[state.hash][m].checkpoints) \subseteq store[m].checkpoints
    BY DEF ImportInv, StatusInv, CompletedIsImported
  <2>3. CASE m = n
    BY <1>1, <1>2, <1>3, <2>1, <2>2, <2>3, DeployedFacts
  <2>4. CASE m # n
    BY <1>1, <1>3, <2>1, <2>2, <2>4
  <2> QED
    BY <2>3, <2>4
<1> QED
  BY <1>1, <1>4 DEF ImportInv, WorkInv, SettledInv, StatusInv

LEMMA ImportInductive == TypeInv /\ ImportInv /\ [Next]_vars => ImportInv'
<1> SUFFICES ASSUME TypeInv, ImportInv, [Next]_vars PROVE ImportInv'
  OBVIOUS
<1>1. CASE UNCHANGED vars
  BY <1>1, Zenon DEF vars, ImportInv, WorkInv, SettledInv, StatusInv, CompletedIsImported
<1>2. ASSUME NEW h \in Hashes, StartAgain(h) PROVE ImportInv'
  BY <1>2, ImportFrame DEF StartAgain
<1>3. ASSUME NEW h \in Hashes \cup {Nothing}, NEW keyed \in BOOLEAN, Start(h, keyed) PROVE ImportInv'
  <2>1. state'.status = "RUNNING" /\ store' = store /\ at' \in {"skip", "open"}
    BY <1>3 DEF Start, WriteState, TypeInv, TypeOK
  <2> QED
    BY <2>1 DEF ImportInv, WorkInv, SettledInv, StatusInv, CompletedIsImported
<1>4. ASSUME NEW written \in BOOLEAN, StartFails(written) PROVE ImportInv'
  <2>1. at' = "down" /\ store' = store /\ users' = users
    BY <1>4 DEF StartFails
  <2>2. (state' = state /\ sure' = sure) \/ state'.status = "RUNNING"
    BY <1>4 DEF StartFails, WriteState, TypeInv, TypeOK
  <2> QED
    BY <2>1, <2>2, ImportFrame
<1>5. ASSUME Skip PROVE ImportInv'
  <2>1. at = "skip" /\ at' \in {"up", "rollback"} /\ store' = store /\ users' = users
    BY <1>5 DEF Skip
  <2>2. (state' = state /\ sure' = sure) \/ state'.status = "SKIPPED"
    BY <1>5 DEF Skip, WriteState
  <2> QED
    BY <2>1, <2>2, ImportFrame
<1>6. ASSUME Fail PROVE ImportInv'
  BY <1>6, ImportFrame DEF Fail
<1>7. ASSUME Report PROVE ImportInv'
  <2>1. at = "rollback" /\ at' = "down" /\ store' = store /\ users' = users
    BY <1>7 DEF Report
  <2>2. (state' = state /\ sure' = sure) \/ state'.status = "FAILED"
    BY <1>7 DEF Report, WriteState
  <2> QED
    BY <2>1, <2>2, ImportFrame
<1>8. ASSUME Stop PROVE ImportInv'
  BY <1>8, ImportFrame DEF Stop
<1> QED
  BY <1>1, <1>2, <1>3, <1>4, <1>5, <1>6, <1>7, <1>8, ImportOpen, ImportFind, ImportCopy,
     ImportAdvance, ImportManifest, ImportRecord, ImportComplete, ImportUndo, ImportDeploy DEF Next

\* A bundle is imported as a whole or not at all: what migration-state calls completed is there,
\* and a rollback without a failure restores what was there (run_startup_migration).
THEOREM ImportsAreAtomic == Spec => []ImportIsAtomic
<1>1. Init => RollbackInv(Storage)
  BY DEF Init, RollbackInv
<1>2. TypeInv /\ TypeInv' /\ RollbackInv(Storage) /\ [Next]_vars => RollbackInv(Storage)'
  BY RollbackInductive DEF TypeInv, TypeOK
<1>3. RollbackInv(Storage) /\ ImportInv => ImportIsAtomic
  BY RollbackEnds DEF ImportIsAtomic, ImportInv, StatusInv
<1> QED
  BY <1>1, <1>2, <1>3, TypeCorrect, ImportInit, ImportInductive, PTL DEF Spec

-----------------------------------------------------------------------------
(* The storage is whole *)

Owner == CHOOSE owner : owner \in Owners

LEMMA OwnerFacts ==
  ASSUME Owners # {}
  PROVE  /\ \A c \in Checkpoints : Owner[c] \in Names
         /\ \A h \in Hashes : \A n \in DOMAIN Content[h] :
              \A c \in ToSet(Content[h][n].checkpoints) : Owner[c] = n
         /\ \A c \in Checkpoints : ParentOf[c] # Nothing => Owner[ParentOf[c]] = Owner[c]
<1>1. Owner \in Owners
  BY DEF Owner
<1> QED
  BY <1>1 DEF Owners

\* The manifest of a checkpoint of an algorithm.
Signed(record) == [parent_algorithm_id |-> record.id]

\* What a record of the storage s names is there, and its checkpoints are its own.
RecordStands(s, n) ==
  s[n] # Nothing =>
    /\ \A v \in ToSet(s[n].versions) : \A o \in v : s[o] # Nothing
    /\ \A c \in s[n].checkpoints :
         /\ Owner[c] = n /\ s[c] = Signed(s[n])
         /\ ParentOf[c] # Nothing => s[ParentOf[c]] = Signed(s[n])
    /\ Differ(s[n].versions)

ManifestStands(s, c) == s[c] # Nothing => \A o \in AssetsOf[c] : s[o] # Nothing

WholeStorage ==
  {s \in Storage : (\A n \in Names : RecordStands(s, n)) /\ (\A c \in Checkpoints : ManifestStands(s, c))}

LEMMA WholeIsWhole == store \in WholeStorage => StoreIsWhole
<1> SUFFICES ASSUME store \in WholeStorage PROVE StoreIsWhole
  OBVIOUS
<1>1. \A c \in Checkpoints : ManifestIsWhole(c)
  BY DEF WholeStorage, ManifestStands, ManifestIsWhole, Stored
<1>2. ASSUME NEW n \in Names PROVE RecordIsWhole(n) /\ ParentIsThere(n) /\ VersionsDiffer(n)
  <2>1. CASE store[n] = Nothing
    BY <2>1 DEF RecordIsWhole, ParentIsThere, VersionsDiffer
  <2>2. CASE store[n] # Nothing
    <3>1. store[n] \in Record
      BY <2>2, StorageApply, KindsOfValues DEF WholeStorage
    <3>2. store[n].versions \in Seq(SUBSET Objects)
      BY <3>1 DEF Record
    <3>3. DOMAIN store[n].versions = 1..Len(store[n].versions)
      BY <3>2, LenProperties
    <3>4. RecordStands(store, n)
      BY DEF WholeStorage
    <3>5. \A i \in 1..Len(store[n].versions) : Stored(store[n].versions[i])
      BY <2>2, <3>3, <3>4 DEF RecordStands, Stored, ToSet
    <3> QED
      BY <2>2, <3>4, <3>5 DEF RecordStands, RecordIsWhole, ParentIsThere, VersionsDiffer, BelongsTo, Signed, Differ
  <2> QED
    BY <2>1, <2>2
<1> QED
  BY <1>1, <1>2 DEF StoreIsWhole

\* The versions and checkpoints of a record, and what a manifest names, are objects and checkpoints.
LEMMA RecordNames ==
  ASSUME NEW record \in Record
  PROVE  /\ \A v \in ToSet(record.versions) : v \subseteq Objects
         /\ record.checkpoints \subseteq Checkpoints
<1>1. record.versions \in Seq(SUBSET Objects) /\ record.checkpoints \subseteq Checkpoints
  BY DEF Record
<1>2. ToSet(record.versions) \subseteq SUBSET Objects
  BY <1>1, LenProperties, ElementOfSeq DEF ToSet
<1> QED
  BY <1>1, <1>2

\* One more object leaves a whole storage whole.
LEMMA WholeObjects ==
  ASSUME NEW s \in WholeStorage, NEW t \in Storage,
         \A k \in Names \cup Checkpoints : t[k] = s[k],
         \A o \in Objects : s[o] # Nothing => t[o] # Nothing
  PROVE  t \in WholeStorage
<1>1. s \in Storage
  BY DEF WholeStorage
<1>2. ASSUME NEW c \in Checkpoints PROVE ManifestStands(t, c)
  <2>1. AssetsOf[c] \subseteq Objects /\ ManifestStands(s, c)
    BY CheckpointAssumption DEF WholeStorage
  <2> QED
    BY <2>1 DEF ManifestStands
<1>3. ASSUME NEW n \in Names, t[n] # Nothing PROVE RecordStands(t, n)
  <2>1. s[n] \in Record /\ t[n] = s[n] /\ RecordStands(s, n)
    BY <1>1, <1>3, StorageApply, KindsOfValues DEF WholeStorage
  <2>2. /\ \A v \in ToSet(s[n].versions) : v \subseteq Objects
        /\ s[n].checkpoints \subseteq Checkpoints
    BY <2>1, RecordNames
  <2> QED
    BY <1>3, <2>1, <2>2, CheckpointAssumption DEF RecordStands
<1> QED
  BY <1>2, <1>3 DEF WholeStorage, RecordStands

\* So does the manifest of a checkpoint whose assets are there, if it has the id of its owner.
LEMMA WholeManifest ==
  ASSUME Owners # {}, NEW s \in WholeStorage, NEW t \in Storage, NEW c \in Checkpoints,
         NEW id, s[Owner[c]] # Nothing => s[Owner[c]].id = id,
         \A o \in AssetsOf[c] : s[o] # Nothing,
         \A k \in Keys : k # c => t[k] = s[k], t[c] = [parent_algorithm_id |-> id]
  PROVE  t \in WholeStorage
<1>1. /\ s \in Storage /\ c \notin Names /\ c \notin Objects
      /\ Names \subseteq Keys /\ Objects \subseteq Keys /\ Checkpoints \subseteq Keys
  BY KeysAssumption DEF WholeStorage, Keys
<1>2. ASSUME NEW d \in Checkpoints PROVE ManifestStands(t, d)
  <2>1. AssetsOf[d] \subseteq Objects /\ ManifestStands(s, d)
    BY CheckpointAssumption DEF WholeStorage
  <2>2. \A o \in Objects : t[o] = s[o]
    BY <1>1
  <2>3. CASE d = c
    BY <2>1, <2>2, <2>3 DEF ManifestStands
  <2>4. CASE d # c
    BY <1>1, <2>1, <2>2, <2>4 DEF ManifestStands
  <2> QED
    BY <2>3, <2>4
<1>3. ASSUME NEW n \in Names, t[n] # Nothing PROVE RecordStands(t, n)
  <2>1. t[n] = s[n] /\ s[n] \in Record /\ RecordStands(s, n)
    BY <1>1, <1>3, StorageApply, KindsOfValues DEF WholeStorage
  <2>2. /\ \A v \in ToSet(s[n].versions) : v \subseteq Objects
        /\ s[n].checkpoints \subseteq Checkpoints
    BY <2>1, RecordNames
  <2>3. \A v \in ToSet(s[n].versions) : \A o \in v : t[o] # Nothing
    <3>1. \A o \in Objects : t[o] = s[o]
      BY <1>1
    <3> QED
      BY <1>3, <2>1, <2>2, <3>1 DEF RecordStands
  <2>4. n = Owner[c] => t[c] = Signed(s[n])
    BY <1>3, <2>1 DEF Signed
  <2>5. ASSUME NEW d \in s[n].checkpoints
        PROVE  /\ Owner[d] = n /\ t[d] = Signed(s[n])
               /\ ParentOf[d] # Nothing => t[ParentOf[d]] = Signed(s[n])
    <3>1. /\ d \in Checkpoints /\ Owner[d] = n /\ s[d] = Signed(s[n])
          /\ ParentOf[d] # Nothing => s[ParentOf[d]] = Signed(s[n])
      BY <1>3, <2>1, <2>2 DEF RecordStands
    <3>2. t[d] = Signed(s[n])
      BY <1>1, <2>4, <3>1
    <3>3. ASSUME ParentOf[d] # Nothing PROVE t[ParentOf[d]] = Signed(s[n])
      <4>1. ParentOf[d] \in Checkpoints /\ Owner[ParentOf[d]] = n
        BY <3>1, <3>3, OwnerFacts, CheckpointAssumption
      <4> QED
        BY <1>1, <2>4, <3>1, <3>3, <4>1
    <3> QED
      BY <3>1, <3>2, <3>3
  <2>6. Differ(s[n].versions)
    BY <1>3, <2>1 DEF RecordStands
  <2> QED
    BY <2>1, <2>3, <2>5, <2>6 DEF RecordStands
<1> QED
  BY <1>2, <1>3 DEF WholeStorage, RecordStands

\* And so does a record of which all is there.
LEMMA WholeRecord ==
  ASSUME NEW s \in WholeStorage, NEW t \in Storage, NEW n \in Names,
         \A k \in Keys : k # n => t[k] = s[k], RecordStands(t, n)
  PROVE  t \in WholeStorage
<1>1. /\ s \in Storage /\ n \notin Objects /\ n \notin Checkpoints
      /\ Names \subseteq Keys /\ Objects \subseteq Keys /\ Checkpoints \subseteq Keys
  BY KeysAssumption DEF WholeStorage, Keys
<1>2. \A k \in Objects \cup Checkpoints : t[k] = s[k]
  BY <1>1
<1>3. ASSUME NEW c \in Checkpoints PROVE ManifestStands(t, c)
  <2>1. AssetsOf[c] \subseteq Objects /\ ManifestStands(s, c)
    BY CheckpointAssumption DEF WholeStorage
  <2> QED
    BY <1>2, <2>1 DEF ManifestStands
<1>4. ASSUME NEW m \in Names, m # n, t[m] # Nothing PROVE RecordStands(t, m)
  <2>1. t[m] = s[m] /\ s[m] \in Record /\ RecordStands(s, m)
    BY <1>1, <1>4, StorageApply, KindsOfValues DEF WholeStorage
  <2>2. /\ \A v \in ToSet(s[m].versions) : v \subseteq Objects
        /\ s[m].checkpoints \subseteq Checkpoints
    BY <2>1, RecordNames
  <2> QED
    BY <1>2, <1>4, <2>1, <2>2, CheckpointAssumption DEF RecordStands
<1>5. ASSUME NEW m \in Names PROVE RecordStands(t, m)
  BY <1>4 DEF RecordStands
<1> QED
  BY <1>3, <1>5 DEF WholeStorage

\* What the merged record of n names is there or still to be done.
Pending(n) ==
  /\ Worklist(todo, n)
  /\ store[n] # Nothing => store[n].id = merged.id
  /\ Differ(merged.versions)
  /\ \A v \in ToSet(merged.versions) :
       (\A o \in v : store[o] # Nothing) \/ (\E t \in ToSet(todo) : t.needs = v)
  /\ \A c \in merged.checkpoints :
       /\ Owner[c] = n
       /\ store[c] = Signed(merged) \/ \E t \in ToSet(todo) : t.puts = c
       /\ ParentOf[c] # Nothing =>
            \/ store[ParentOf[c]] = Signed(merged)
            \/ \E t \in ToSet(todo) : t.puts \in {c, ParentOf[c]}
  /\ \A t \in ToSet(todo) :
       t.puts \in Checkpoints => Owner[t.puts] = n /\ t.needs = AssetsOf[t.puts]

PendingInv == at = "import" /\ todo # <<>> => \E n \in Names : Pending(n)

LEMMA PendingFind ==
  ASSUME Owners # {}, TypeInv, store \in WholeStorage, NEW n \in Names, Find(n)
  PROVE  PendingInv'
<1> DEFINE source == Content[bundle][n]
<1>1. /\ bundle \in Hashes /\ n \in DOMAIN Content[bundle] /\ store \in Storage
      /\ todo' = Plan(n) /\ merged' = Merge(n) /\ store' = store
  BY DEF Find, TypeInv, TypeOK
<1>2. /\ Worklist(Plan(n), n)
      /\ \A v \in ToSet(source.versions) :
           store[n] = Nothing => \E t \in ToSet(Plan(n)) : t.needs = v
      /\ \E t \in ToSet(Plan(n)) : t.needs = Last(source.versions)
      /\ \A c \in ToSet(source.checkpoints) : \E t \in ToSet(Plan(n)) : t.puts = c
      /\ \A t \in ToSet(Plan(n)) :
           t.puts \in Checkpoints =>
             t.puts \in ToSet(source.checkpoints) /\ t.needs = AssetsOf[t.puts]
  BY <1>1, PlanFacts
<1>3. /\ store[n] = Nothing =>
           /\ ToSet(Merge(n).versions) = ToSet(source.versions)
           /\ Merge(n).checkpoints = ToSet(source.checkpoints)
           /\ Differ(Merge(n).versions)
      /\ store[n] # Nothing =>
           /\ Merge(n).id = store[n].id
           /\ ToSet(Merge(n).versions) = ToSet(store[n].versions) \cup {Last(source.versions)}
           /\ Merge(n).checkpoints = store[n].checkpoints \cup ToSet(source.checkpoints)
           /\ Differ(store[n].versions) => Differ(Merge(n).versions)
  BY <1>1, MergeFacts
<1>4. RecordStands(store, n)
  BY DEF WholeStorage
<1>5. \A c \in ToSet(source.checkpoints) : Owner[c] = n
  BY <1>1, OwnerFacts
<1> DEFINE plan == Plan(n)
           record == Merge(n)
<1> HIDE DEF source, plan, record
<1>6. /\ store[n] # Nothing => store[n].id = record.id
      /\ Differ(record.versions)
  BY <1>3, <1>4 DEF RecordStands, record
<1>7. \A v \in ToSet(record.versions) :
        (\A o \in v : store[o] # Nothing) \/ (\E t \in ToSet(plan) : t.needs = v)
  BY <1>2, <1>3, <1>4 DEF RecordStands, plan, record
<1>8. ASSUME NEW c \in record.checkpoints
      PROVE  /\ Owner[c] = n
             /\ store[c] = Signed(record) \/ \E t \in ToSet(plan) : t.puts = c
             /\ ParentOf[c] # Nothing =>
                  \/ store[ParentOf[c]] = Signed(record)
                  \/ \E t \in ToSet(plan) : t.puts \in {c, ParentOf[c]}
  <2>1. CASE c \in ToSet(source.checkpoints)
    BY <1>2, <1>5, <2>1 DEF plan
  <2>2. CASE c \notin ToSet(source.checkpoints)
    <3>1. store[n] # Nothing /\ c \in store[n].checkpoints /\ record.id = store[n].id
      BY <1>3, <1>8, <2>2 DEF record
    <3> QED
      BY <1>4, <3>1 DEF RecordStands, Signed
  <2> QED
    BY <2>1, <2>2
<1>9. \A t \in ToSet(plan) :
        t.puts \in Checkpoints => Owner[t.puts] = n /\ t.needs = AssetsOf[t.puts]
  BY <1>2, <1>5 DEF plan
<1>10. Pending(n)'
  <2>1. todo' = plan /\ merged' = record /\ store' = store /\ Worklist(plan, n)
    BY <1>1, <1>2 DEF plan, record
  <2> QED
    BY <1>6, <1>7, <1>8, <1>9, <2>1 DEF Pending, Signed
<1> QED
  BY <1>10 DEF PendingInv

\* Copies and finished versions: what was there stays, what is no longer to be done is there.
LEMMA PendingGoesOn ==
  ASSUME NEW n \in Names, Pending(n), Worklist(todo', n), UNCHANGED merged,
         \A k \in Names \cup Checkpoints : store'[k] = store[k],
         \A o \in Objects : store[o] # Nothing => store'[o] # Nothing,
         merged \in Record,
         ToSet(todo') \subseteq ToSet(todo),
         \A t \in ToSet(todo) :
           \/ t \in ToSet(todo')
           \/ t.puts = Nothing /\ \A o \in t.needs : store'[o] # Nothing
  PROVE  Pending(n)'
<1>1. /\ \A v \in ToSet(merged.versions) : v \subseteq Objects
      /\ merged.checkpoints \subseteq Checkpoints
  BY RecordNames
<1>2. \A v \in ToSet(merged.versions) :
        (\A o \in v : store'[o] # Nothing) \/ (\E t \in ToSet(todo') : t.needs = v)
  BY <1>1 DEF Pending
<1>3. ASSUME NEW c \in merged.checkpoints
      PROVE  /\ store'[c] = Signed(merged) \/ \E t \in ToSet(todo') : t.puts = c
             /\ ParentOf[c] # Nothing =>
                  \/ store'[ParentOf[c]] = Signed(merged)
                  \/ \E t \in ToSet(todo') : t.puts \in {c, ParentOf[c]}
  <2>1. c \in Checkpoints /\ c # Nothing /\ (ParentOf[c] # Nothing => ParentOf[c] \in Checkpoints)
    BY <1>1, CheckpointAssumption, KeysAssumption
  <2>2. store[c] = Signed(merged) \/ \E t \in ToSet(todo) : t.puts = c
    BY DEF Pending
  <2>3. ParentOf[c] # Nothing =>
          \/ store[ParentOf[c]] = Signed(merged)
          \/ \E t \in ToSet(todo) : t.puts \in {c, ParentOf[c]}
    BY DEF Pending
  <2> QED
    BY <2>1, <2>2, <2>3
<1> QED
  BY <1>2, <1>3 DEF Pending, Signed

LEMMA PendingCopy ==
  ASSUME TypeInv, PendingInv, NEW k \in Objects, Copy(k)
  PROVE  PendingInv'
<1>1. k \in Keys /\ Payload \in ValuesAt(k) /\ Working /\ Put(k, Payload, todo)
  BY KindsOfValues DEF Copy
<1>2. CASE at' = "import"
  <2>1. PICK n \in Names : Pending(n)
    BY <1>1 DEF PendingInv, Working
  <2>2. todo' = todo /\ merged' = merged /\ merged \in Record
    BY <1>1, <1>2 DEF Put, Working, TypeInv
  <2>3. /\ \A l \in Names \cup Checkpoints : store'[l] = store[l]
        /\ \A o \in Objects : store[o] # Nothing => store'[o] # Nothing
    <3>1. /\ \A l \in Keys : l # k => store'[l] = store[l]
          /\ store'[k] = store[k] \/ store'[k] = Payload
      BY <1>1, PutChanges
    <3> QED
      BY <3>1, KeysAssumption, NothingAssumption DEF Keys
  <2>4. Worklist(todo', n)
    BY <2>1, <2>2 DEF Pending
  <2>5. Pending(n)'
    BY <2>1, <2>2, <2>3, <2>4, PendingGoesOn
  <2> QED
    BY <2>5 DEF PendingInv
<1>3. CASE at' # "import"
  BY <1>3 DEF PendingInv
<1> QED
  BY <1>2, <1>3

LEMMA PendingAdvance ==
  ASSUME TypeInv, PendingInv, Advance
  PROVE  PendingInv'
<1>1. /\ todo \in Seq(Task) /\ todo # <<>> /\ todo' = Tail(todo) /\ merged' = merged /\ store' = store
      /\ Head(todo).puts = Nothing /\ \A o \in Head(todo).needs : store[o] # Nothing
      /\ merged \in Record
  BY DEF Advance, Working, Stored, TypeInv, TypeOK
<1>2. PICK n \in Names : Pending(n)
  BY DEF PendingInv, Advance, Working
<1>3. ToSet(todo) = {Head(todo)} \cup ToSet(Tail(todo))
  BY <1>1, ElementsOfTail
<1>4. Worklist(Tail(todo), n)
  BY <1>1, <1>2, WorkGoesOn, KeysAssumption DEF Pending
<1>5. Pending(n)'
  BY <1>1, <1>2, <1>3, <1>4, PendingGoesOn
<1> QED
  BY <1>5 DEF PendingInv

LEMMA PendingManifest ==
  ASSUME Owners # {}, TypeInv, PendingInv, PutManifest
  PROVE  PendingInv'
<1> DEFINE c == Head(todo).puts
           parent == IF ParentOf[c] = Nothing THEN <<>> ELSE <<CheckpointTask(ParentOf[c])>>
           manifest == [parent_algorithm_id |-> merged.id]
<1>1. Working /\ c \in Checkpoints /\ Put(c, manifest, parent \o Tail(todo)) /\ Stored(Head(todo).needs)
  BY DEF PutManifest
<1>2. /\ c \in Keys /\ manifest \in ValuesAt(c) /\ c \notin Names /\ c \notin Objects
      /\ Names \subseteq Keys /\ Objects \subseteq Keys /\ Checkpoints \subseteq Keys
      /\ todo \in Seq(Task) /\ todo # <<>> /\ merged \in Record
  BY <1>1, ManifestFacts, KindsOfValues, KeysAssumption DEF Keys, TypeInv, TypeOK, Working
<1>3. /\ parent \in Seq(Task) /\ Tail(todo) \in Seq(Task)
      /\ ParentOf[c] = Nothing => ToSet(parent) = {}
      /\ ParentOf[c] # Nothing =>
           ParentOf[c] \in Checkpoints /\ ToSet(parent) = {CheckpointTask(ParentOf[c])}
  BY <1>1, ManifestFacts
<1>4. PICK n \in Names : Pending(n)
  BY <1>1 DEF PendingInv, Working
<1>5. ToSet(todo) = {Head(todo)} \cup ToSet(Tail(todo)) /\ Worklist(Tail(todo), n)
  BY <1>2, <1>4, ElementsOfTail, WorkGoesOn DEF Pending
<1> HIDE DEF parent
<1>6. \A t \in ToSet(parent) :
        t.puts \in Checkpoints /\ t.puts \notin Names /\ Owner[t.puts] = n /\ t.needs = AssetsOf[t.puts]
  <2>1. Owner[c] = n
    BY <1>1, <1>4, <1>5 DEF Pending
  <2>2. ASSUME NEW t \in ToSet(parent) PROVE t.puts = ParentOf[c] /\ t.needs = AssetsOf[ParentOf[c]]
                                             /\ ParentOf[c] \in Checkpoints /\ ParentOf[c] # Nothing
    BY <1>3 DEF CheckpointTask
  <2> QED
    BY <1>1, <2>1, <2>2, OwnerFacts, KeysAssumption
<1>7. /\ Worklist(parent \o Tail(todo), n)
      /\ ToSet(parent \o Tail(todo)) = ToSet(parent) \cup ToSet(Tail(todo))
  BY <1>3, <1>5, <1>6, WorkIsAdded
<1>8. CASE at' = "import"
  <2> DEFINE rest == parent \o Tail(todo)
  <2>1. todo' = rest /\ merged' = merged /\ at' = at
    BY <1>1, <1>8 DEF Put, Working
  <2>2. store'[c] = manifest /\ \A l \in Keys : l # c => store'[l] = store[l]
    BY <1>1, <1>2, <2>1, PutChanges
  <2>3. \A t \in ToSet(todo) : t = Head(todo) \/ t \in ToSet(rest)
    BY <1>5, <1>7
  <2>4. \A t \in ToSet(rest) : t \in ToSet(parent) \/ t \in ToSet(todo)
    BY <1>5, <1>7
  <2>5. ParentOf[c] # Nothing => \E t \in ToSet(rest) : t.puts = ParentOf[c]
    <3>1. CheckpointTask(ParentOf[c]).puts = ParentOf[c]
      BY DEF CheckpointTask
    <3>2. ParentOf[c] # Nothing => CheckpointTask(ParentOf[c]) \in ToSet(rest)
      BY <1>3, <1>7
    <3> QED
      BY <3>1, <3>2, Zenon
  <2> HIDE DEF rest
  <2>6. /\ \A v \in ToSet(merged.versions) : v \subseteq Objects
        /\ merged.checkpoints \subseteq Checkpoints
    BY <1>2, RecordNames
  <2>7. \A v \in ToSet(merged.versions) :
          (\A o \in v : store'[o] # Nothing) \/ (\E t \in ToSet(rest) : t.needs = v)
    <3>1. \A o \in Objects : store'[o] = store[o]
      BY <1>2, <2>2
    <3>2. \A o \in Head(todo).needs : store[o] # Nothing
      BY <1>1 DEF Stored
    <3> QED
      BY <1>4, <2>3, <2>6, <3>1, <3>2 DEF Pending
  <2>8. ASSUME NEW d \in merged.checkpoints
        PROVE  /\ Owner[d] = n
               /\ store'[d] = manifest \/ \E t \in ToSet(rest) : t.puts = d
               /\ ParentOf[d] # Nothing =>
                    \/ store'[ParentOf[d]] = manifest
                    \/ \E t \in ToSet(rest) : t.puts \in {d, ParentOf[d]}
    <3>1. d \in Checkpoints /\ (ParentOf[d] # Nothing => ParentOf[d] \in Checkpoints)
      BY <2>6, CheckpointAssumption
    <3>2. /\ Owner[d] = n
          /\ store[d] = manifest \/ \E t \in ToSet(todo) : t.puts = d
          /\ ParentOf[d] # Nothing =>
               \/ store[ParentOf[d]] = manifest
               \/ \E t \in ToSet(todo) : t.puts \in {d, ParentOf[d]}
      BY <1>4 DEF Pending, Signed
    <3> HIDE DEF manifest
    <3>3. store'[d] = manifest \/ \E t \in ToSet(rest) : t.puts = d
      BY <1>2, <2>2, <2>3, <3>1, <3>2
    <3>4. ASSUME ParentOf[d] # Nothing
          PROVE  \/ store'[ParentOf[d]] = manifest
                 \/ \E t \in ToSet(rest) : t.puts \in {d, ParentOf[d]}
      <4>1. CASE d = c
        BY <2>5, <3>4, <4>1
      <4>2. CASE ParentOf[d] = c
        BY <2>2, <4>2
      <4>3. CASE d # c /\ ParentOf[d] # c
        BY <1>2, <2>2, <2>3, <3>1, <3>2, <3>4, <4>3
      <4> QED
        BY <4>1, <4>2, <4>3
    <3> QED
      BY <3>2, <3>3, <3>4
  <2>9. \A t \in ToSet(rest) :
          t.puts \in Checkpoints => Owner[t.puts] = n /\ t.needs = AssetsOf[t.puts]
    BY <1>4, <1>6, <2>4 DEF Pending
  <2>10. store'[n] = store[n] /\ Worklist(rest, n) /\ Differ(merged.versions)
         /\ (store[n] # Nothing => store[n].id = merged.id)
    BY <1>2, <1>4, <1>7, <2>2 DEF Pending, rest
  <2>11. Pending(n)'
    BY <2>1, <2>7, <2>8, <2>9, <2>10 DEF Pending, Signed
  <2> QED
    BY <2>11 DEF PendingInv
<1>9. CASE at' # "import"
  BY <1>9 DEF PendingInv
<1> QED
  BY <1>8, <1>9

LEMMA PendingRecord ==
  ASSUME TypeInv, PendingInv, PutRecord
  PROVE  PendingInv'
<1>1. Working /\ Head(todo).puts \in Names /\ Put(Head(todo).puts, merged, Tail(todo))
  BY DEF PutRecord
<1>2. PICK n \in Names : Pending(n)
  BY <1>1 DEF PendingInv, Working
<1>3. Tail(todo) = <<>>
  BY <1>1, <1>2, WorkEnds DEF Pending, TypeInv, TypeOK
<1> QED
  BY <1>1, <1>3 DEF Put, PendingInv

LEMMA PendingInductive ==
  ASSUME Owners # {}, TypeInv, PendingInv, store \in WholeStorage, [Next]_vars
  PROVE  PendingInv'
<1>1. CASE UNCHANGED vars
  BY <1>1 DEF vars, PendingInv, Pending
<1>2. ASSUME at' # "import" PROVE PendingInv'
  BY <1>2 DEF PendingInv
<1>3. ASSUME NEW h \in Hashes, StartAgain(h) PROVE PendingInv'
  BY <1>2, <1>3 DEF StartAgain
<1>4. ASSUME NEW h \in Hashes \cup {Nothing}, NEW keyed \in BOOLEAN, Start(h, keyed) PROVE PendingInv'
  BY <1>2, <1>4 DEF Start
<1>5. ASSUME NEW written \in BOOLEAN, StartFails(written) PROVE PendingInv'
  BY <1>2, <1>5 DEF StartFails
<1>6. ASSUME Skip PROVE PendingInv'
  BY <1>2, <1>6 DEF Skip
<1>7. ASSUME Open PROVE PendingInv'
  BY <1>7 DEF Open, TypeInv, PendingInv
<1>8. ASSUME Complete PROVE PendingInv'
  BY <1>2, <1>8 DEF Complete
<1>9. ASSUME Fail PROVE PendingInv'
  BY <1>2, <1>9 DEF Fail
<1>10. ASSUME Undo PROVE PendingInv'
  BY <1>2, <1>10 DEF Undo
<1>11. ASSUME Report PROVE PendingInv'
  BY <1>2, <1>11 DEF Report
<1>12. ASSUME Stop PROVE PendingInv'
  BY <1>2, <1>12 DEF Stop
<1>13. ASSUME NEW n \in Names, NEW v \in Builds, Deploy(n, v) PROVE PendingInv'
  BY <1>2, <1>13 DEF Deploy
<1> QED
  BY <1>1, <1>3, <1>4, <1>5, <1>6, <1>7, <1>8, <1>9, <1>10, <1>11, <1>12, <1>13, PendingFind,
     PendingCopy, PendingAdvance, PendingManifest, PendingRecord DEF Next

\* Each step leaves a whole storage, that of a rollback because it goes back to one.
LEMMA WholeCopy ==
  ASSUME TypeInv, TypeInv', store \in WholeStorage, NEW k \in Objects, Copy(k)
  PROVE  store' \in WholeStorage
<1>1. k \in Keys /\ Payload \in ValuesAt(k) /\ Working /\ Put(k, Payload, todo)
  BY KindsOfValues DEF Copy
<1>2. /\ \A l \in Keys : l # k => store'[l] = store[l]
      /\ store'[k] = store[k] \/ store'[k] = Payload
  BY <1>1, PutChanges
<1>3. /\ \A l \in Names \cup Checkpoints : store'[l] = store[l]
      /\ \A o \in Objects : store[o] # Nothing => store'[o] # Nothing
  BY <1>2, KeysAssumption, NothingAssumption DEF Keys
<1>4. store' \in Storage
  BY DEF TypeInv, TypeOK
<1> QED
  BY <1>3, <1>4, WholeObjects

LEMMA WholePutManifest ==
  ASSUME Owners # {}, TypeInv, TypeInv', store \in WholeStorage, PendingInv, PutManifest
  PROVE  store' \in WholeStorage
<1> DEFINE c == Head(todo).puts
           parent == IF ParentOf[c] = Nothing THEN <<>> ELSE <<CheckpointTask(ParentOf[c])>>
           manifest == [parent_algorithm_id |-> merged.id]
<1>1. Working /\ c \in Checkpoints /\ Put(c, manifest, parent \o Tail(todo)) /\ Stored(Head(todo).needs)
  BY DEF PutManifest
<1>2. /\ c \in Keys /\ manifest \in ValuesAt(c) /\ todo \in Seq(Task) /\ todo # <<>>
      /\ store' \in Storage
  BY <1>1, ManifestFacts, KindsOfValues DEF TypeInv, TypeOK, Working
<1>3. PICK n \in Names : Pending(n)
  BY <1>1 DEF PendingInv, Working
<1>4. Head(todo) \in ToSet(todo)
  BY <1>2, ElementsOfTail
<1>5. Owner[c] = n /\ Head(todo).needs = AssetsOf[c]
  BY <1>1, <1>3, <1>4 DEF Pending
<1>6. store[Owner[c]] # Nothing => store[Owner[c]].id = merged.id
  BY <1>3, <1>5 DEF Pending
<1>7. \A o \in AssetsOf[c] : store[o] # Nothing
  BY <1>1, <1>5 DEF Stored
<1>8. CASE store' = store
  BY <1>8
<1>9. CASE store' # store
  <2>1. store' = [store EXCEPT ![c] = manifest]
    BY <1>1, <1>9 DEF Put
  <2>2. store \in [Keys -> Values]
    BY DEF TypeInv, TypeOK, Storage
  <2>3. store'[c] = manifest /\ \A l \in Keys : l # c => store'[l] = store[l]
    BY <1>2, <2>1, <2>2
  <2> HIDE DEF c
  <2> QED
    BY <1>1, <1>2, <1>6, <1>7, <2>3, WholeManifest
<1> QED
  BY <1>8, <1>9

LEMMA WholePutRecord ==
  ASSUME TypeInv, TypeInv', store \in WholeStorage, PendingInv, PutRecord
  PROVE  store' \in WholeStorage
<1> DEFINE n == Head(todo).puts
<1>1. Working /\ n \in Names /\ Put(n, merged, Tail(todo))
  BY DEF PutRecord
<1>2. /\ n \in Keys /\ merged \in Record /\ todo \in Seq(Task) /\ todo # <<>>
      /\ store' \in Storage /\ n \notin Objects /\ n \notin Checkpoints
      /\ Objects \subseteq Keys /\ Checkpoints \subseteq Keys
  BY <1>1, KindsOfValues, KeysAssumption DEF Keys, TypeInv, TypeOK, Working
<1>3. PICK m \in Names : Pending(m)
  BY <1>1 DEF PendingInv, Working
<1>4. Head(todo) = [needs |-> {}, puts |-> m] /\ Tail(todo) = <<>>
  BY <1>1, <1>2, <1>3, WorkEnds DEF Pending
<1>5. n = m /\ \A t \in ToSet(todo) : t.puts = n /\ t.needs = {}
  <2>1. ToSet(todo) = {Head(todo)} \cup ToSet(Tail(todo))
    BY <1>2, ElementsOfTail
  <2>2. DOMAIN <<>> = {}
    OBVIOUS
  <2>3. ToSet(<<>>) = {}
    BY <2>2 DEF ToSet
  <2>4. ToSet(todo) = {Head(todo)}
    BY <1>4, <2>1, <2>3, Zenon
  <2>5. Head(todo).puts = m /\ Head(todo).needs = {}
    BY <1>4
  <2> QED
    BY <2>4, <2>5, Zenon
<1> HIDE DEF n
<1>6. CASE store' = store
  BY <1>6
<1>7. CASE store' # store
  <2>1. store' = [store EXCEPT ![n] = merged]
    BY <1>1, <1>7 DEF Put
  <2>2. store \in [Keys -> Values]
    BY DEF TypeInv, TypeOK, Storage
  <2>3. store'[n] = merged /\ \A l \in Keys : l # n => store'[l] = store[l]
    BY <1>2, <2>1, <2>2
  <2>4. /\ \A v \in ToSet(merged.versions) : v \subseteq Objects
        /\ merged.checkpoints \subseteq Checkpoints
    BY <1>2, RecordNames
  <2>5. \A k \in Objects \cup Checkpoints : store'[k] = store[k]
    BY <1>2, <2>3
  <2>6. \A v \in ToSet(merged.versions) : \A o \in v : store'[o] # Nothing
    BY <1>3, <1>5, <2>4, <2>5 DEF Pending
  <2>7. ASSUME NEW c \in merged.checkpoints
        PROVE  /\ Owner[c] = n /\ store'[c] = Signed(merged)
               /\ ParentOf[c] # Nothing => store'[ParentOf[c]] = Signed(merged)
    <3>1. c \in Checkpoints /\ (ParentOf[c] # Nothing => ParentOf[c] \in Checkpoints)
      BY <2>4, CheckpointAssumption
    <3> QED
      BY <1>2, <1>3, <1>5, <2>5, <3>1 DEF Pending
  <2>8. RecordStands(store', n)
    BY <1>3, <2>3, <2>6, <2>7 DEF RecordStands, Pending
  <2> QED
    BY <1>1, <1>2, <2>3, <2>8, WholeRecord
<1> QED
  BY <1>6, <1>7

LEMMA WholeDeploy ==
  ASSUME TypeInv, TypeInv', store \in WholeStorage, NEW n \in Names, NEW v \in Builds, Deploy(n, v)
  PROVE  store' \in WholeStorage
<1> DEFINE record == Deployed(n, v)
<1>1. v \in SUBSET Objects /\ store \in Storage /\ store' \in Storage
  BY BuildsAssumption DEF TypeInv, TypeOK
<1>2. /\ record \in Record /\ record # Nothing
      /\ store[n] = Nothing =>
           ToSet(record.versions) = {v} /\ record.checkpoints = {} /\ Differ(record.versions)
      /\ store[n] # Nothing =>
           /\ ToSet(record.versions) = ToSet(store[n].versions) \cup {v}
           /\ record.checkpoints = store[n].checkpoints /\ record.id = store[n].id
           /\ Differ(store[n].versions) => Differ(record.versions)
  BY <1>1, DeployedFacts, NothingAssumption
<1> HIDE DEF record
<1>3. store' = Upserted(n, record, v)
  BY DeployStores DEF record
<1>4. /\ \A m \in Names : store'[m] = IF m = n THEN record ELSE store[m]
      /\ \A o \in Objects : store'[o] = IF o \in v THEN Payload ELSE store[o]
      /\ \A c \in Checkpoints : store'[c] = store[c]
  BY <1>1, <1>2, <1>3, UpsertedFacts
<1>5. \A o \in Objects : (store[o] # Nothing => store'[o] # Nothing) /\ (o \in v => store'[o] # Nothing)
  BY <1>4, NothingAssumption
<1>6. /\ \A m \in Names : store[m] # Nothing => store[m] \in Record
      /\ \A m \in Names : RecordStands(store, m)
      /\ \A c \in Checkpoints : ManifestStands(store, c)
  BY <1>1, StorageApply, KindsOfValues DEF WholeStorage
<1>7. ASSUME NEW m \in Names, m # n, store'[m] # Nothing PROVE RecordStands(store', m)
  <2>1. store'[m] = store[m] /\ store[m] \in Record /\ RecordStands(store, m)
    BY <1>4, <1>6, <1>7
  <2>2. /\ \A w \in ToSet(store[m].versions) : w \subseteq Objects
        /\ store[m].checkpoints \subseteq Checkpoints
    BY <2>1, RecordNames
  <2> QED
    BY <1>4, <1>5, <1>7, <2>1, <2>2, CheckpointAssumption DEF RecordStands
<1>8. RecordStands(store', n)
  <2>1. store'[n] = record
    BY <1>4
  <2>2. CASE store[n] = Nothing
    BY <1>1, <1>2, <1>5, <2>1, <2>2 DEF RecordStands
  <2>3. CASE store[n] # Nothing
    <3>1. store[n] \in Record /\ RecordStands(store, n)
      BY <1>6, <2>3
    <3>2. /\ \A w \in ToSet(store[n].versions) : w \subseteq Objects
          /\ store[n].checkpoints \subseteq Checkpoints
      BY <3>1, RecordNames
    <3>3. \A w \in ToSet(record.versions) : \A o \in w : store'[o] # Nothing
      BY <1>1, <1>2, <1>5, <2>3, <3>1, <3>2 DEF RecordStands
    <3>4. ASSUME NEW c \in record.checkpoints
          PROVE  /\ Owner[c] = n /\ store'[c] = Signed(record)
                 /\ ParentOf[c] # Nothing => store'[ParentOf[c]] = Signed(record)
      BY <1>2, <1>4, <2>3, <3>1, <3>2, CheckpointAssumption DEF RecordStands, Signed
    <3> QED
      BY <1>2, <2>1, <2>3, <3>1, <3>3, <3>4 DEF RecordStands
  <2> QED
    BY <2>2, <2>3
<1>9. ASSUME NEW c \in Checkpoints PROVE ManifestStands(store', c)
  BY <1>4, <1>5, <1>6, CheckpointAssumption DEF ManifestStands
<1>10. \A m \in Names : RecordStands(store', m)
  BY <1>7, <1>8 DEF RecordStands
<1> QED
  BY <1>1, <1>9, <1>10 DEF WholeStorage

LEMMA WholeUndo ==
  ASSUME TypeInv, store \in WholeStorage, RollbackInv(WholeStorage), Undo
  PROVE  store' \in WholeStorage
<1> DEFINE s == [store EXCEPT ![Last(journal).key] = Last(journal).old]
<1>1. /\ at = "rollback" /\ undone /\ journal # <<>>
      /\ store' = store \/ store' = s
  BY DEF Undo
<1>2. PICK past \in [0..Len(journal) -> WholeStorage] : Leads(past, WholeStorage, journal, before, store)
  BY <1>1 DEF RollbackInv
<1>3. s \in WholeStorage
  BY <1>1, <1>2, WayShrinks
<1> QED
  BY <1>1, <1>3

LEMMA WholeInductive ==
  ASSUME Owners # {}, TypeInv, TypeInv', store \in WholeStorage, RollbackInv(WholeStorage), PendingInv,
         [Next]_vars
  PROVE  store' \in WholeStorage
<1>1. CASE UNCHANGED store
  BY <1>1
<1>2. ASSUME Next, store' # store PROVE store' \in WholeStorage
  <2>1. \/ \E k \in Objects : Copy(k)
        \/ PutManifest \/ PutRecord \/ Undo
        \/ \E n \in Names, v \in Builds : Deploy(n, v)
    BY <1>2 DEF Next, StartAgain, Start, StartFails, Skip, Open, Find, Advance, Fail, Complete, Report, Stop
  <2> QED
    BY <2>1, WholeCopy, WholePutManifest, WholePutRecord, WholeUndo, WholeDeploy
<1> QED
  BY <1>1, <1>2 DEF vars

\* At every step of an import, of its rollback, after a crash or a failed rollback, a record
\* and a manifest name only what the storage has (_import_algorithm_semantically and
\* _rollback_journal), if no two algorithms share a checkpoint.
THEOREM StoreStaysWhole == ASSUME Owners # {} PROVE Spec => []StoreIsWhole
<1> DEFINE Inv == store \in WholeStorage /\ RollbackInv(WholeStorage) /\ PendingInv
<1>1. Init => Inv
  <2> SUFFICES ASSUME Init PROVE Inv
    OBVIOUS
  <2>1. store \in Storage /\ \A k \in Keys : store[k] = Nothing
    BY TypeInit DEF Init, TypeInv, TypeOK
  <2>2. store \in WholeStorage
    BY <2>1 DEF WholeStorage, RecordStands, ManifestStands, Keys
  <2> QED
    BY <2>2 DEF Init, RollbackInv, PendingInv
<1>2. TypeInv /\ TypeInv' /\ Inv /\ [Next]_vars => Inv'
  <2> SUFFICES ASSUME TypeInv, TypeInv', Inv, [Next]_vars PROVE Inv'
    OBVIOUS
  <2>1. store' \in WholeStorage
    BY WholeInductive
  <2>2. RollbackInv(WholeStorage)'
    BY <2>1, RollbackInductive
  <2>3. PendingInv'
    BY PendingInductive
  <2> QED
    BY <2>1, <2>2, <2>3
<1>3. Inv => StoreIsWhole
  BY WholeIsWhole
<1> HIDE DEF Inv
<1> QED
  BY <1>1, <1>2, <1>3, TypeCorrect, PTL DEF Spec

=============================================================================
