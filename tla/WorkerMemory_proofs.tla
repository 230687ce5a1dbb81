------------------------- MODULE WorkerMemory_proofs -------------------------
(***************************************************************************)
(* Proofs about the memory that worker threads share.  A step changes the  *)
(* place of one thread, so the invariant has one predicate for each thread *)
(* (TaskInv), which the steps of the others leave alone (Others), and one  *)
(* for each structure.  The second half is about one task at a time, where *)
(* the structures are exact (SerialInv).                                   *)
(***************************************************************************)
EXTENDS WorkerMemory, SequenceTheorems, FiniteSetTheorems, WellFoundedInduction, TLAPS

\* Where a thread has the lock.
Holding == {"pop", "del", "forget", "store", "append_key"}

\* Where a thread uses a cache.
UsingCache == Holding \cup {"move", "move_back", "get"}

\* Where a thread has no runner yet.
Fetching == {"look_up", "touch", "retouch", "take", "extract", "load"}

\* Runner r is there, was loaded for q and is whole.
Fits(r, q) == r \in 1 .. Len(runners) /\ runners[r].for = q /\ runners[r].whole

TaskInv(w) ==
  worker[w] # Nobody =>
    /\ worker[w].at \in UsingCache => worker[w].cache \in 1 .. Len(caches)
    /\ worker[w].at \in {"pop", "store", "append_key", "move", "move_back", "get"} =>
         worker[w].key \in Keys
    /\ worker[w].at \in {"del", "forget"} => worker[w].victim \in Keys
    /\ worker[w].at = "forget" => worker[w].victim \notin caches[worker[w].cache].items
    /\ worker[w].at = "drop" => worker[w].victim \in Requests
    /\ worker[w].at \in Holding => lock = w
    /\ worker[w].at \in Fetching \/ worker[w].runner # 0
    /\ worker[w].runner # 0 => Fits(worker[w].runner, worker[w].request)

TasksInv == \A w \in Workers : TaskInv(w)

SessionsInv == \A x \in Tokens : sessions[x] \in 0 .. Len(caches)

FetchedInv == \A q \in Requests : fetched[q] # 0 => Fits(fetched[q], q)

\* The three parts of NothingIsStuck.
KeysReach ==
  \A c \in 1 .. Len(caches) : \A k \in caches[c].items :
    k \in Members(caches[c].order) \/ KeyInHand(c, k)

RunnersReach == \A q \in Cached : q \in Members(order) \/ RunnerInHand(q)

LockInv == lock # Nobody => worker[lock] # Nobody /\ worker[lock].at \in Holding

Inv ==
  /\ TypeOK
  /\ TasksInv /\ SessionsInv /\ FetchedInv
  /\ KeysReach /\ RunnersReach /\ LockInv

HasKey(w, c, k) ==
  /\ worker[w] # Nobody
  /\ worker[w].cache = c
  /\ \/ worker[w].at \in {"move_back", "append_key"} /\ worker[w].key = k
     \/ worker[w].at = "del" /\ worker[w].victim = k

HasRunner(w, q) ==
  /\ worker[w] # Nobody
  /\ \/ worker[w].at \in {"retouch", "append"} /\ worker[w].request = q
     \/ worker[w].at = "drop" /\ worker[w].victim = q

\* The step is of w.
WorkerStep(w) ==
  /\ worker' \in [Workers -> Task \cup {Nobody}]
  /\ \A v \in Workers \ {w} : worker'[v] = worker[v]

\* What a step of w leaves to the other threads.
Grows(w) ==
  /\ Len(caches) <= Len(caches')
  /\ \A r \in 1 .. Len(runners) :
       /\ r \in 1 .. Len(runners')
       /\ runners'[r].for = runners[r].for
       /\ runners'[r].whole = runners[r].whole
  /\ \A v \in Workers \ {w} : lock = v =>
       lock' = v /\ \A c \in 1 .. Len(caches) : caches'[c].items \subseteq caches[c].items

\* Key k of cache c is found after a step of w.
KeyKept(w, c, k) ==
  \/ k \in Members(caches'[c].order)
  \/ HasKey(w, c, k)'
  \/ /\ c \in 1 .. Len(caches) /\ k \in caches[c].items
     /\ k \in Members(caches[c].order) => k \in Members(caches'[c].order)
     /\ ~ HasKey(w, c, k)

RunnerKept(w, q) ==
  \/ q \in Members(order')
  \/ HasRunner(w, q)'
  \/ /\ fetched[q] # 0
     /\ q \in Members(order) => q \in Members(order')
     /\ ~ HasRunner(w, q)

-----------------------------------------------------------------------------
(* Sequences *)

LEMMA MembersAppend ==
  ASSUME NEW S, NEW s \in Seq(S), NEW x \in S
  PROVE  /\ Append(s, x) \in Seq(S)
         /\ x \in Members(Append(s, x))
         /\ Members(s) \subseteq Members(Append(s, x))
<1>1. /\ Append(s, x) \in Seq(S)
      /\ Len(Append(s, x)) = Len(s) + 1 /\ Len(s) \in Nat
      /\ \A i \in 1 .. Len(s) : Append(s, x)[i] = s[i]
      /\ Append(s, x)[Len(s) + 1] = x
  BY AppendProperties, LenProperties
<1>2. \A i \in 1 .. Len(s) : i \in 1 .. Len(Append(s, x))
  BY <1>1
<1>3. Len(s) + 1 \in 1 .. Len(Append(s, x))
  BY <1>1
<1>4. x \in Members(Append(s, x))
  BY <1>1, <1>3 DEF Members
<1>5. Members(s) \subseteq Members(Append(s, x))
  BY <1>1, <1>2 DEF Members
<1> QED BY <1>1, <1>4, <1>5

LEMMA MembersTail ==
  ASSUME NEW S, NEW s \in Seq(S), s # << >>
  PROVE  /\ Head(s) \in S /\ Tail(s) \in Seq(S)
         /\ Members(s) \subseteq Members(Tail(s)) \cup {Head(s)}
<1>1. /\ Head(s) \in S /\ Tail(s) \in Seq(S) /\ Head(s) = s[1]
      /\ Len(Tail(s)) = Len(s) - 1 /\ Len(s) \in Nat \ {0}
      /\ \A i \in 1 .. Len(Tail(s)) : Tail(s)[i] = s[i + 1]
  BY HeadTailProperties, EmptySeq
<1>2. ASSUME NEW i \in 1 .. Len(s)
      PROVE  s[i] \in Members(Tail(s)) \cup {Head(s)}
  <2>1. CASE i = 1
    BY <1>1, <2>1
  <2>2. CASE i # 1
    <3>1. i - 1 \in 1 .. Len(Tail(s)) /\ (i - 1) + 1 = i
      BY <1>1, <2>2
    <3>2. Tail(s)[i - 1] = s[i]
      BY <1>1, <3>1
    <3> QED BY <3>1, <3>2 DEF Members
  <2> QED BY <2>1, <2>2
<1>3. Members(s) \subseteq Members(Tail(s)) \cup {Head(s)}
  BY <1>2 DEF Members
<1> QED BY <1>1, <1>3

\* The first occurrence that Without looks for is there.
LEMMA FirstOccurrence ==
  ASSUME NEW S, NEW s \in Seq(S), NEW x \in Members(s)
  PROVE  \E j \in 1 .. Len(s) : s[j] = x /\ \A l \in 1 .. j - 1 : s[l] # x
<1> DEFINE S1 == 1 .. Len(s)
           T == {i \in S1 : s[i] = x}
           Below(j) == {i \in T : i < j}
           U == {Below(j) : j \in T}
<1>0. Len(s) \in Nat /\ S1 \subseteq Nat /\ T # {}
  BY LenProperties DEF Members
<1>1. IsFiniteSet(S1) /\ S1 \subseteq Nat /\ T # {}
  <2>1. IsFiniteSet(1 .. Len(s))
    BY <1>0, FS_Interval
  <2> QED BY <1>0, <2>1
<1>2. IsWellFoundedOn(StrictSubsetOrdering(S1), SUBSET S1)
  BY <1>1, FS_StrictSubsetOrderingWellFounded, FS_FiniteSubsetsOfFinite
<1>3. U \subseteq SUBSET S1 /\ U # {}
  BY <1>1
<1>4. PICK y \in U : \A z \in U : ~ (<<z, y>> \in StrictSubsetOrdering(S1))
  BY <1>2, <1>3, WFMin
<1>5. PICK j \in T : y = Below(j)
  OBVIOUS
<1>6. ASSUME NEW l \in 1 .. j - 1, s[l] = x
      PROVE  FALSE
  <2>1. l \in T /\ l < j
    BY <1>1, <1>6
  <2>2. Below(l) \in U /\ Below(l) \subseteq Below(j)
    BY <1>1, <2>1
  <2>3. l \in Below(j) /\ l \notin Below(l)
    BY <1>1, <2>1
  <2>4. <<Below(l), Below(j)>> \in StrictSubsetOrdering(S1)
    BY <2>2, <2>3 DEF StrictSubsetOrdering
  <2> QED BY <1>4, <1>5, <2>2, <2>4
<1> QED BY <1>6

LEMMA MembersWithout ==
  ASSUME NEW S, NEW s \in Seq(S), NEW x \in Members(s)
  PROVE  /\ Without(s, x) \in Seq(S)
         /\ Members(s) \subseteq Members(Without(s, x)) \cup {x}
<1> DEFINE i == CHOOSE j \in 1 .. Len(s) : s[j] = x /\ \A l \in 1 .. j - 1 : s[l] # x
           a == SubSeq(s, 1, i - 1)
           b == SubSeq(s, i + 1, Len(s))
<1>0. Without(s, x) = a \o b
  BY DEF Without
<1>1. i \in 1 .. Len(s) /\ s[i] = x /\ Len(s) \in Nat
  BY FirstOccurrence, LenProperties
<1> HIDE DEF i
<1>2. /\ a \in Seq(S) /\ Len(a) = i - 1
      /\ \A l \in 1 .. i - 1 : a[l] = s[l]
  BY <1>1, SubSeqProperties
<1>3. /\ b \in Seq(S) /\ Len(b) = Len(s) - i
      /\ \A l \in 1 .. Len(s) - i : b[l] = s[i + l]
  BY <1>1, SubSeqProperties
<1> HIDE DEF a, b
<1>a. a \o b \in Seq(S) /\ Len(a \o b) = Len(a) + Len(b)
  BY <1>2, <1>3, ConcatProperties
<1>b. \A l \in 1 .. Len(a) + Len(b) : (a \o b)[l] = IF l <= Len(a) THEN a[l] ELSE b[l - Len(a)]
  BY <1>2, <1>3, ConcatProperties
<1>4. /\ Len(a \o b) = Len(s) - 1
      /\ \A l \in 1 .. Len(a \o b) : (a \o b)[l] = IF l <= Len(a) THEN a[l] ELSE b[l - Len(a)]
  BY <1>1, <1>2, <1>3, <1>a, <1>b
<1>5. ASSUME NEW l \in 1 .. Len(s)
      PROVE  s[l] \in Members(a \o b) \cup {x}
  <2>1. CASE l < i
    <3>1. l \in 1 .. Len(a \o b) /\ (a \o b)[l] = s[l]
      BY <1>1, <1>2, <1>4, <2>1
    <3> QED BY <3>1 DEF Members
  <2>2. CASE l = i
    BY <1>1, <2>2
  <2>3. CASE l > i
    <3>1. /\ l - 1 \in 1 .. Len(a \o b) /\ ~ (l - 1 <= Len(a))
          /\ (l - 1) - Len(a) = l - i /\ l - i \in 1 .. Len(s) - i /\ i + (l - i) = l
      BY <1>1, <1>2, <1>4, <2>3
    <3>2. (a \o b)[l - 1] = s[l]
      BY <1>3, <1>4, <3>1
    <3> QED BY <3>1, <3>2 DEF Members
  <2> QED BY <1>1, <2>1, <2>2, <2>3
<1>6. Members(s) \subseteq Members(a \o b) \cup {x}
  BY <1>5 DEF Members
<1> QED BY <1>0, <1>a, <1>6

-----------------------------------------------------------------------------
(* Threads *)

LEMMA Becomes ==
  ASSUME TypeOK, NEW w \in Workers, NEW t \in Task, worker' = [worker EXCEPT ![w] = t]
  PROVE  WorkerStep(w) /\ worker'[w] = t /\ worker'[w] # Nobody
BY TaskAssumption DEF TypeOK, WorkerStep

LEMMA Dies ==
  ASSUME TypeOK, NEW w \in Workers, worker' = [worker EXCEPT ![w] = Nobody]
  PROVE  WorkerStep(w) /\ worker'[w] = Nobody
BY DEF TypeOK, WorkerStep

LEMMA IsTask ==
  ASSUME TypeOK, NEW w \in Workers, worker[w] # Nobody
  PROVE  worker[w] \in Task
BY DEF TypeOK

LEMMA Moves ==
  ASSUME TypeOK, NEW w \in Workers, worker[w] # Nobody, NEW place \in Places, Move(w, place)
  PROVE  /\ WorkerStep(w) /\ worker'[w] # Nobody
         /\ worker'[w].at = place /\ worker'[w].request = worker[w].request
         /\ worker'[w].runner = worker[w].runner /\ worker'[w].key = worker[w].key
         /\ worker'[w].cache = worker[w].cache /\ worker'[w].victim = worker[w].victim
         /\ worker'[w].token = worker[w].token
<1> DEFINE t == [worker[w] EXCEPT !.at = place]
<1>1. worker[w] \in Task
  BY IsTask
<1>2. /\ t \in Task
      /\ t.at = place /\ t.request = worker[w].request
      /\ t.runner = worker[w].runner /\ t.key = worker[w].key
      /\ t.cache = worker[w].cache /\ t.victim = worker[w].victim /\ t.token = worker[w].token
  BY <1>1 DEF Task
<1>3. worker' = [worker EXCEPT ![w] = t]
  BY DEF Move, TypeOK
<1> HIDE DEF t
<1> QED BY <1>2, <1>3, Becomes

LEMMA IsDone ==
  ASSUME TypeOK, NEW w \in Workers, worker[w] # Nobody, Done(w)
  PROVE  /\ WorkerStep(w) /\ worker'[w] # Nobody
         /\ worker'[w].at = "run" /\ worker'[w].request = worker[w].request
         /\ worker'[w].runner = worker[w].runner
         /\ worker'[w].token = worker[w].token /\ worker'[w].key = Nobody
<1> DEFINE t == [worker[w] EXCEPT !.at = "run", !.key = Nobody, !.cache = 0, !.victim = Nobody]
<1>1. worker[w] \in Task
  BY IsTask
<1>2. /\ t \in Task
      /\ t.at = "run" /\ t.request = worker[w].request /\ t.runner = worker[w].runner
      /\ t.token = worker[w].token /\ t.key = Nobody
  BY <1>1 DEF Task, Places
<1>3. worker' = [worker EXCEPT ![w] = t]
  BY DEF Done, TypeOK
<1> HIDE DEF t
<1> QED BY <1>2, <1>3, Becomes

LEMMA Uses ==
  ASSUME TypeOK, NEW w \in Workers, CanUse(w), NEW k \in Keys, NEW place \in Places,
         NEW c \in Nat, Use(w, k, place, c)
  PROVE  /\ WorkerStep(w) /\ worker'[w] # Nobody
         /\ worker'[w].at = place /\ worker'[w].request = worker[w].request
         /\ worker'[w].runner = worker[w].runner /\ worker'[w].key = k
         /\ worker'[w].cache = c /\ worker'[w].token = worker[w].token
<1> DEFINE t == [worker[w] EXCEPT !.at = place, !.key = k, !.cache = c, !.uses = @ + 1]
<1>1. worker[w] \in Task /\ worker[w].uses < MaxUses
  BY IsTask DEF CanUse, At
<1>2. worker[w].uses + 1 \in 0 .. MaxUses
  BY <1>1, BoundsAssumption DEF Task
<1>3. /\ t \in Task
      /\ t.at = place /\ t.request = worker[w].request
      /\ t.runner = worker[w].runner /\ t.key = k /\ t.cache = c /\ t.token = worker[w].token
  BY <1>1, <1>2 DEF Task
<1>4. worker' = [worker EXCEPT ![w] = t]
  BY DEF Use, TypeOK
<1> HIDE DEF t
<1> QED BY <1>3, <1>4, Becomes

LEMMA FitsStay ==
  ASSUME NEW w \in Workers, Grows(w), NEW r, NEW q, Fits(r, q)
  PROVE  Fits(r, q)'
BY DEF Grows, Fits

LEMMA OthersKeep ==
  ASSUME Inv, NEW w \in Workers, WorkerStep(w), Grows(w), TaskInv(w)'
  PROVE  TasksInv'
<1> SUFFICES ASSUME NEW v \in Workers \ {w}, worker'[v] # Nobody
             PROVE  TaskInv(v)'
  BY DEF TasksInv, TaskInv
<1>1. worker'[v] = worker[v] /\ TaskInv(v)
  BY DEF WorkerStep, Inv, TasksInv
<1>2. Len(caches) \in Nat /\ Len(caches') >= Len(caches)
  BY LenProperties DEF Grows, Inv, TypeOK
<1>3. worker[v].at \in UsingCache => worker[v].cache \in 1 .. Len(caches')
  BY <1>1, <1>2 DEF TaskInv
<1>4. worker[v].at \in Holding => lock' = v
  BY <1>1 DEF TaskInv, Grows
<1>5. worker[v].at = "forget" => worker[v].victim \notin caches'[worker[v].cache].items
  BY <1>1 DEF TaskInv, Grows, Holding, UsingCache
<1>6. worker[v].runner # 0 => Fits(worker[v].runner, worker[v].request)'
  <2>1. worker[v].runner # 0 => Fits(worker[v].runner, worker[v].request)
    BY <1>1 DEF TaskInv
  <2> QED BY <1>1, <2>1 DEF Grows, Fits
<1> QED BY <1>1, <1>3, <1>4, <1>5, <1>6 DEF TaskInv

LEMMA KeysAreKept ==
  ASSUME Inv, NEW w \in Workers, WorkerStep(w),
         \A c \in 1 .. Len(caches') : \A k \in caches'[c].items : KeyKept(w, c, k)
  PROVE  KeysReach'
<1> SUFFICES ASSUME NEW c \in 1 .. Len(caches'), NEW k \in caches'[c].items,
                    k \notin Members(caches'[c].order), ~ HasKey(w, c, k)'
             PROVE  \E v \in Workers : HasKey(v, c, k)'
  BY DEF KeysReach, KeyInHand, HasKey
<1>1. /\ c \in 1 .. Len(caches) /\ k \in caches[c].items
      /\ k \notin Members(caches[c].order) /\ ~ HasKey(w, c, k)
  BY DEF KeyKept
<1>2. PICK v \in Workers : HasKey(v, c, k)
  BY <1>1 DEF Inv, KeysReach, KeyInHand, HasKey
<1>3. worker'[v] = worker[v]
  BY <1>1, <1>2 DEF WorkerStep
<1> QED BY <1>2, <1>3 DEF HasKey

LEMMA RunnersAreKept ==
  ASSUME Inv, NEW w \in Workers, WorkerStep(w),
         \A q \in Requests : fetched'[q] # 0 => RunnerKept(w, q)
  PROVE  RunnersReach'
<1> SUFFICES ASSUME NEW q \in Requests, fetched'[q] # 0,
                    q \notin Members(order'), ~ HasRunner(w, q)'
             PROVE  \E v \in Workers : HasRunner(v, q)'
  BY DEF RunnersReach, Cached, RunnerInHand, HasRunner, At, KeyFor, KeyOf
<1>1. fetched[q] # 0 /\ q \notin Members(order) /\ ~ HasRunner(w, q)
  BY DEF RunnerKept
<1>2. PICK v \in Workers : HasRunner(v, q)
  BY <1>1 DEF Inv, RunnersReach, Cached, RunnerInHand, HasRunner, At, KeyFor, KeyOf
<1>3. worker'[v] = worker[v]
  BY <1>1, <1>2 DEF WorkerStep
<1> QED BY <1>2, <1>3 DEF HasRunner

\* A step that leaves sessions, caches and the lock alone.
LEMMA MemoryStays ==
  ASSUME Inv, NEW w \in Workers, WorkerStep(w), UNCHANGED memory,
         worker[w] = Nobody \/ worker[w].at \notin Holding \cup {"move_back"}
  PROVE  SessionsInv' /\ KeysReach' /\ LockInv'
<1>1. SessionsInv'
  BY DEF Inv, SessionsInv, memory
<1>2. KeysReach'
  <2>1. \A c \in 1 .. Len(caches') : \A k \in caches'[c].items : KeyKept(w, c, k)
    BY DEF KeyKept, HasKey, memory, Holding
  <2> QED BY <2>1, KeysAreKept
<1>3. LockInv'
  BY DEF Inv, LockInv, memory, WorkerStep, TypeOK
<1> QED BY <1>1, <1>2, <1>3

\* A step that leaves the cache of runners alone.
LEMMA RunnersStay ==
  ASSUME Inv, NEW w \in Workers, WorkerStep(w), Grows(w), UNCHANGED <<fetched, order>>,
         worker[w] = Nobody \/ worker[w].at \notin {"retouch", "append", "drop"}
  PROVE  FetchedInv' /\ RunnersReach'
<1>1. FetchedInv'
  BY DEF Inv, FetchedInv, Grows, Fits
<1>2. RunnersReach'
  <2>1. \A q \in Requests : fetched'[q] # 0 => RunnerKept(w, q)
    BY DEF RunnerKept, HasRunner
  <2> QED BY <2>1, RunnersAreKept
<1> QED BY <1>1, <1>2

LEMMA NothingGrows ==
  ASSUME TypeOK, NEW w \in Workers, UNCHANGED <<caches, lock, runners>>
  PROVE  Grows(w)
<1>1. Len(caches) \in Nat
  BY LenProperties DEF TypeOK
<1> QED BY <1>1 DEF Grows

\* A task that is where it uses no cache and drops no runner.
LEMMA RestingTask ==
  ASSUME Inv, NEW w \in Workers, Grows(w), worker'[w] # Nobody, worker[w] # Nobody,
         worker'[w].at \notin UsingCache \cup {"drop"},
         worker'[w].runner = worker[w].runner /\ worker'[w].request = worker[w].request,
         worker'[w].at \in Fetching \/ worker[w].at \notin Fetching
  PROVE  TaskInv(w)'
<1>1. TaskInv(w)
  BY DEF Inv, TasksInv
<1>2. worker[w].runner # 0 => Fits(worker[w].runner, worker[w].request)'
  BY <1>1 DEF TaskInv, Grows, Fits
<1> QED BY <1>1, <1>2 DEF TaskInv, UsingCache, Holding, Fits

OthersType ==
  /\ modules' \in [Requests -> Extents]
  /\ tasks' \in 0 .. MaxTasks
  /\ happened' \subseteq {"overlap", "saved_again", "broken"}

\* The three kinds of steps: of a thread only, of the cache of runners, of sessions.
LEMMA ThreadStep ==
  ASSUME Inv, NEW w \in Workers, WorkerStep(w), TaskInv(w)', OthersType,
         UNCHANGED <<memory, fetched, order, runners>>,
         worker[w] = Nobody \/
           worker[w].at \notin Holding \cup {"move_back", "retouch", "append", "drop"}
  PROVE  Inv'
<1>1. Grows(w)
  BY NothingGrows DEF memory, Inv
<1>2. TasksInv'
  BY <1>1, OthersKeep
<1>3. SessionsInv' /\ KeysReach' /\ LockInv'
  BY MemoryStays
<1>4. FetchedInv' /\ RunnersReach'
  BY <1>1, RunnersStay
<1>5. TypeOK'
  BY DEF Inv, TypeOK, memory, OthersType, WorkerStep
<1> QED BY <1>2, <1>3, <1>4, <1>5 DEF Inv

LEMMA RunnersStep ==
  ASSUME Inv, NEW w \in Workers, WorkerStep(w), TaskInv(w)', OthersType,
         Grows(w), UNCHANGED memory,
         fetched' \in [Requests -> Nat], order' \in Seq(Requests), runners' \in Seq(Runner),
         worker[w].at \notin Holding \cup {"move_back"},
         FetchedInv', RunnersReach'
  PROVE  Inv'
<1>1. TasksInv'
  BY OthersKeep
<1>2. SessionsInv' /\ KeysReach' /\ LockInv'
  BY MemoryStays
<1>3. TypeOK'
  BY DEF Inv, TypeOK, memory, OthersType, WorkerStep
<1> QED BY <1>1, <1>2, <1>3 DEF Inv

LEMMA SessionsStep ==
  ASSUME Inv, NEW w \in Workers, WorkerStep(w), TaskInv(w)',
         Grows(w), UNCHANGED algorithms, tasks' \in 0 .. MaxTasks,
         happened' \subseteq {"overlap", "saved_again", "broken"},
         sessions' \in [Tokens -> Nat], caches' \in Seq(Cache), lock' \in Workers \cup {Nobody},
         worker[w] = Nobody \/ worker[w].at \notin {"retouch", "append", "drop"},
         SessionsInv', KeysReach', LockInv'
  PROVE  Inv'
<1>1. TasksInv'
  BY OthersKeep
<1>2. FetchedInv' /\ RunnersReach'
  BY RunnersStay DEF algorithms
<1>3. TypeOK'
  BY DEF Inv, TypeOK, algorithms, WorkerStep
<1> QED BY <1>1, <1>2, <1>3 DEF Inv

\* The task of a thread ends where it has nothing in hand.
LEMMA TaskEnds ==
  ASSUME Inv, NEW w \in Workers, worker' = [worker EXCEPT ![w] = Nobody],
         happened' = happened \/ happened' = happened \cup {"broken"},
         UNCHANGED <<memory, fetched, order, runners, tasks>>,
         modules' \in [Requests -> Extents],
         worker[w].at \notin Holding \cup {"move_back", "retouch", "append", "drop"}
  PROVE  Inv'
<1>1. WorkerStep(w) /\ worker'[w] = Nobody
  BY Dies DEF Inv
<1>2. TaskInv(w)'
  BY <1>1 DEF TaskInv
<1>3. OthersType
  BY DEF OthersType, Inv, TypeOK
<1> QED BY <1>1, <1>2, <1>3, ThreadStep

-----------------------------------------------------------------------------
(* Steps of a thread only *)

LEMMA LookUpKeeps == ASSUME Inv, NEW w \in Workers, LookUp(w) PROVE Inv'
<1> DEFINE place == IF fetched[KeyFor(w)] # 0 THEN "touch" ELSE "extract"
<1>1. worker[w] # Nobody /\ worker[w].at = "look_up" /\ place \in {"touch", "extract"}
  BY DEF LookUp, At
<1>2. Move(w, place) /\ place \in Places
  BY <1>1 DEF LookUp, Places
<1> HIDE DEF place
<1>3. /\ WorkerStep(w) /\ worker'[w] # Nobody /\ worker'[w].at = place
      /\ worker'[w].request = worker[w].request /\ worker'[w].runner = worker[w].runner
  BY <1>1, <1>2, Moves DEF Inv
<1>4. Grows(w)
  BY NothingGrows DEF Inv, LookUp, memory, algorithms
<1>5. TaskInv(w)'
  BY <1>1, <1>3, <1>4, RestingTask DEF UsingCache, Holding, Fetching
<1>6. OthersType
  BY DEF OthersType, Inv, TypeOK, LookUp, algorithms
<1> QED BY <1>1, <1>3, <1>5, <1>6, ThreadStep DEF LookUp, memory, algorithms, Holding

LEMMA TakeKeeps == ASSUME Inv, NEW w \in Workers, Take(w) PROVE Inv'
<1>1. worker[w] # Nobody /\ worker[w].at = "take" /\ worker[w] \in Task
  BY IsTask DEF Take, At, Inv
<1>2. UNCHANGED <<memory, fetched, order, runners>> /\ OthersType
  BY DEF OthersType, Inv, TypeOK, Take, Break, memory, algorithms
<1>3. ASSUME fetched[KeyFor(w)] = 0
      PROVE  Inv'
  <2>1. worker' = [worker EXCEPT ![w] = Nobody] /\ happened' = happened \cup {"broken"}
    BY <1>3 DEF Take, Break
  <2> QED BY <1>1, <1>2, <2>1, TaskEnds DEF Holding, OthersType, Take, algorithms
<1>4. ASSUME fetched[KeyFor(w)] # 0
      PROVE  Inv'
  <2> DEFINE r == fetched[KeyFor(w)]
             t == [worker[w] EXCEPT !.at = "initialize", !.runner = r]
  <2>1. worker[w].request \in Requests /\ r = fetched[worker[w].request]
    BY <1>1 DEF Task, KeyFor, KeyOf
  <2>2. r \in Nat /\ r # 0 /\ Fits(r, worker[w].request)
    BY <2>1, <1>4 DEF Inv, TypeOK, FetchedInv
  <2>3. worker' = [worker EXCEPT ![w] = t]
    BY <1>4 DEF Take, Inv, TypeOK
  <2> HIDE DEF r
  <2>4. t \in Task /\ t.at = "initialize" /\ t.runner = r /\ t.request = worker[w].request
    BY <1>1, <2>2 DEF Task, Places
  <2> HIDE DEF t
  <2>5. WorkerStep(w) /\ worker'[w] = t
    BY <2>3, <2>4, Becomes DEF Inv
  <2>6. /\ worker'[w] # Nobody /\ worker'[w].at = "initialize" /\ worker'[w].runner = r
        /\ worker'[w].request = worker[w].request
    BY <2>4, <2>5, TaskAssumption
  <2>7. TaskInv(w)'
    BY <1>2, <2>2, <2>6 DEF TaskInv, UsingCache, Holding, Fetching, Fits
  <2> QED BY <1>1, <1>2, <2>5, <2>7, ThreadStep DEF Holding
<1> QED BY <1>3, <1>4

LEMMA ExtractKeeps == ASSUME Inv, NEW w \in Workers, Extract(w) PROVE Inv'
<1>1. worker[w] # Nobody /\ worker[w].at = "extract"
  BY DEF Extract, At
<1>2. UNCHANGED <<memory, fetched, order, runners, tasks, happened>>
  BY DEF Extract
<1>3. modules' \in [Requests -> Extents]
  BY DEF Extract, Inv, TypeOK, Extents
<1>4. ASSUME worker' = [worker EXCEPT ![w] = Nobody]
      PROVE  Inv'
  BY <1>1, <1>2, <1>3, <1>4, TaskEnds DEF Holding
<1>5. ASSUME Move(w, "load")
      PROVE  Inv'
  <2>1. /\ WorkerStep(w) /\ worker'[w] # Nobody /\ worker'[w].at = "load"
        /\ worker'[w].request = worker[w].request /\ worker'[w].runner = worker[w].runner
    BY <1>1, <1>5, Moves DEF Inv, Places
  <2>2. Grows(w)
    BY <1>2, NothingGrows DEF Inv, memory
  <2>3. TaskInv(w)'
    BY <1>1, <2>1, <2>2, RestingTask DEF UsingCache, Holding, Fetching
  <2>4. OthersType
    BY <1>2, <1>3 DEF OthersType, Inv, TypeOK
  <2> QED BY <1>1, <1>2, <2>1, <2>3, <2>4, ThreadStep DEF Holding
<1> QED BY <1>4, <1>5 DEF Extract

LEMMA EndsKeep ==
  ASSUME Inv, NEW w \in Workers,
         NotFound(w) \/ NoDevice(w) \/ LoadFails(w) \/ Assign(w) \/ Finish(w)
  PROVE  Inv'
<1>1. worker[w] # Nobody /\ worker[w].at \in {"look_up", "extract", "load", "run"}
  BY DEF NotFound, NoDevice, LoadFails, Assign, Finish, CanUse, At
<1>2. worker' = [worker EXCEPT ![w] = Nobody]
  BY DEF NotFound, NoDevice, LoadFails, Assign, Finish
<1>3. happened' = happened \/ happened' = happened \cup {"broken"}
  BY DEF NotFound, NoDevice, LoadFails, Assign, Finish
<1>4. UNCHANGED <<memory, fetched, order, runners, tasks>> /\ modules' \in [Requests -> Extents]
  BY DEF NotFound, NoDevice, LoadFails, Assign, Finish, algorithms, Inv, TypeOK
<1> QED BY <1>1, <1>2, <1>3, <1>4, TaskEnds DEF Holding

LEMMA InitRunnerKeeps == ASSUME Inv, NEW w \in Workers, InitRunner(w) PROVE Inv'
<1>1. worker[w] # Nobody /\ worker[w].at = "init"
  BY DEF InitRunner, At
<1>2. UNCHANGED <<memory, fetched, order, runners, modules, tasks>> /\ OthersType
  BY DEF OthersType, Inv, TypeOK, InitRunner, Break, memory, algorithms
<1>3. ASSUME Break(w)
      PROVE  Inv'
  BY <1>1, <1>2, <1>3, TaskEnds DEF Break, Holding, OthersType
<1>4. ASSUME Move(w, "end_init")
      PROVE  Inv'
  <2>1. /\ WorkerStep(w) /\ worker'[w] # Nobody /\ worker'[w].at = "end_init"
        /\ worker'[w].request = worker[w].request /\ worker'[w].runner = worker[w].runner
    BY <1>1, <1>4, Moves DEF Inv, Places
  <2>2. Grows(w)
    BY <1>2, NothingGrows DEF Inv, memory
  <2>3. TaskInv(w)'
    BY <1>1, <2>1, <2>2, RestingTask DEF UsingCache, Holding, Fetching
  <2> QED BY <1>1, <1>2, <2>1, <2>3, ThreadStep DEF Holding
<1> QED BY <1>3, <1>4 DEF InitRunner

LEMMA GetKeeps == ASSUME Inv, NEW w \in Workers, Get(w) PROVE Inv'
<1>1. worker[w] # Nobody /\ worker[w].at = "get"
  BY DEF Get, At
<1>2. UNCHANGED <<memory, fetched, order, runners, modules, tasks>> /\ OthersType
  BY DEF OthersType, Inv, TypeOK, Get, Break, memory, algorithms
<1>3. ASSUME Break(w)
      PROVE  Inv'
  BY <1>1, <1>2, <1>3, TaskEnds DEF Break, Holding, OthersType
<1>4. ASSUME Done(w)
      PROVE  Inv'
  <2>1. /\ WorkerStep(w) /\ worker'[w] # Nobody /\ worker'[w].at = "run"
        /\ worker'[w].request = worker[w].request /\ worker'[w].runner = worker[w].runner
    BY <1>1, <1>4, IsDone DEF Inv
  <2>2. Grows(w)
    BY <1>2, NothingGrows DEF Inv, memory
  <2>3. TaskInv(w)'
    BY <1>1, <2>1, <2>2, RestingTask DEF UsingCache, Holding, Fetching
  <2> QED BY <1>1, <1>2, <2>1, <2>3, ThreadStep DEF Holding
<1> QED BY <1>3, <1>4 DEF Get

LEMMA LoadKeeps == ASSUME Inv, NEW w \in Workers, NEW k \in Keys, Load(w, k) PROVE Inv'
<1> DEFINE c == sessions[worker[w].token]
<1>1. worker[w] # Nobody /\ worker[w].at = "run" /\ worker[w] \in Task /\ CanUse(w)
  BY IsTask DEF Load, CanUse, At, Inv
<1>2. UNCHANGED <<memory, fetched, order, runners, modules, tasks>> /\ OthersType
      /\ happened' = happened
  BY DEF OthersType, Inv, TypeOK, Load, memory, algorithms
<1>3. ASSUME worker' = [worker EXCEPT ![w] = Nobody]
      PROVE  Inv'
  BY <1>1, <1>2, <1>3, TaskEnds DEF Holding, OthersType
<1>4. ASSUME c # 0, Use(w, k, "move", c)
      PROVE  Inv'
  <2>1. worker[w].token \in Tokens
    BY <1>1 DEF Task
  <2>2. Len(caches) \in Nat /\ c \in 1 .. Len(caches) /\ c \in Nat
    BY <2>1, <1>4, LenProperties DEF Inv, TypeOK, SessionsInv
  <2> HIDE DEF c
  <2>3. /\ WorkerStep(w) /\ worker'[w] # Nobody /\ worker'[w].at = "move"
        /\ worker'[w].request = worker[w].request /\ worker'[w].runner = worker[w].runner
        /\ worker'[w].key = k /\ worker'[w].cache = c
    BY <1>1, <1>4, <2>2, Uses DEF Inv, Places
  <2>4. TaskInv(w)
    BY DEF Inv, TasksInv
  <2>5. TaskInv(w)'
    BY <1>1, <1>2, <2>2, <2>3, <2>4 DEF TaskInv, UsingCache, Holding, Fetching, Fits, memory
  <2> QED BY <1>1, <1>2, <2>3, <2>5, ThreadStep DEF Holding
<1> QED BY <1>3, <1>4 DEF Load

-----------------------------------------------------------------------------
(* Steps of the cache of runners *)

LEMMA TouchKeeps == ASSUME Inv, NEW w \in Workers, Touch(w) PROVE Inv'
<1> DEFINE q == worker[w].request
<1>1. worker[w] # Nobody /\ worker[w].at = "touch" /\ KeyFor(w) = q
  BY DEF Touch, At, KeyFor, KeyOf
<1>2. UNCHANGED <<memory, fetched, runners, modules, tasks>> /\ OthersType
  BY DEF OthersType, Inv, TypeOK, Touch, Break, memory, algorithms
<1>3. ASSUME Break(w), UNCHANGED order
      PROVE  Inv'
  BY <1>1, <1>2, <1>3, TaskEnds DEF Break, Holding, OthersType
<1>4. ASSUME q \in Members(order), order' = Without(order, q), Move(w, "retouch")
      PROVE  Inv'
  <2>1. /\ WorkerStep(w) /\ worker'[w] # Nobody /\ worker'[w].at = "retouch"
        /\ worker'[w].request = q /\ worker'[w].runner = worker[w].runner
    BY <1>1, <1>4, Moves DEF Inv, Places
  <2>2. Grows(w)
    BY <1>2, NothingGrows DEF Inv, memory
  <2>3. TaskInv(w)'
    BY <1>1, <2>1, <2>2, RestingTask DEF UsingCache, Holding, Fetching
  <2>4. order' \in Seq(Requests) /\ Members(order) \subseteq Members(order') \cup {q}
    BY <1>4, MembersWithout DEF Inv, TypeOK
  <2>5. RunnersReach'
    <3>1. ASSUME NEW p \in Requests, fetched'[p] # 0
          PROVE  RunnerKept(w, p)
      BY <1>1, <1>2, <2>1, <2>4, <3>1 DEF RunnerKept, HasRunner
    <3> QED BY <2>1, <3>1, RunnersAreKept
  <2>6. FetchedInv' /\ fetched' \in [Requests -> Nat] /\ runners' \in Seq(Runner)
    BY <1>2 DEF FetchedInv, Inv, TypeOK, Fits
  <2> QED BY <1>1, <1>2, <2>1, <2>2, <2>3, <2>4, <2>5, <2>6, RunnersStep DEF Holding
<1> QED BY <1>1, <1>3, <1>4 DEF Touch

\* Retouch and AppendRunner.
LEMMA AppendsKeep ==
  ASSUME Inv, NEW w \in Workers, Retouch(w) \/ AppendRunner(w)
  PROVE  Inv'
<1> DEFINE q == worker[w].request
           place == IF Retouch(w) THEN "take" ELSE "limit"
<1>1. /\ worker[w] # Nobody
      /\ worker[w].at = IF Retouch(w) THEN "retouch" ELSE "append"
      /\ KeyFor(w) = q /\ Move(w, place) /\ place \in {"take", "limit"}
  BY DEF Retouch, AppendRunner, At, KeyFor, KeyOf
<1>2. worker[w].at = "retouch" => place = "take"
  BY <1>1
<1> HIDE DEF place
<1>3. UNCHANGED <<memory, fetched, runners, modules, tasks, happened>> /\ OthersType
  BY DEF OthersType, Inv, TypeOK, Retouch, AppendRunner
<1>4. q \in Requests
  BY <1>1, IsTask DEF Inv, Task
<1>5. order' = Append(order, q)
  BY <1>1 DEF Retouch, AppendRunner
<1>6. /\ WorkerStep(w) /\ worker'[w] # Nobody /\ worker'[w].at = place
      /\ worker'[w].request = q /\ worker'[w].runner = worker[w].runner
  BY <1>1, Moves DEF Inv, Places
<1>7. Grows(w)
  BY <1>3, NothingGrows DEF Inv, memory
<1>8. TaskInv(w)'
  BY <1>1, <1>2, <1>6, <1>7, RestingTask DEF UsingCache, Holding, Fetching
<1>9. /\ order' \in Seq(Requests) /\ q \in Members(order')
      /\ Members(order) \subseteq Members(order')
  BY <1>4, <1>5, MembersAppend DEF Inv, TypeOK
<1>10. RunnersReach'
  <2>1. ASSUME NEW p \in Requests, fetched'[p] # 0
        PROVE  RunnerKept(w, p)
    BY <1>1, <1>3, <1>9, <2>1 DEF RunnerKept, HasRunner
  <2> QED BY <1>6, <2>1, RunnersAreKept
<1>11. FetchedInv' /\ fetched' \in [Requests -> Nat] /\ runners' \in Seq(Runner)
  BY <1>3 DEF FetchedInv, Inv, TypeOK, Fits
<1> QED BY <1>1, <1>3, <1>6, <1>7, <1>8, <1>9, <1>10, <1>11, RunnersStep DEF Holding

LEMMA LoadRunnerKeeps == ASSUME Inv, NEW w \in Workers, LoadRunner(w) PROVE Inv'
<1> DEFINE n == Len(runners) + 1
           r == [for |-> worker[w].request, whole |-> TRUE, initializing |-> FALSE]
           t == [worker[w] EXCEPT !.at = "enter", !.runner = n]
<1>1. worker[w] # Nobody /\ worker[w].at = "load" /\ worker[w] \in Task
  BY IsTask DEF LoadRunner, At, Inv
<1>2. UNCHANGED <<memory, fetched, order, modules, tasks, happened>> /\ OthersType
  BY DEF OthersType, Inv, TypeOK, LoadRunner
<1>3. r \in Runner /\ r.for = worker[w].request /\ r.whole
  BY <1>1 DEF Runner, Task
<1>4. runners' = Append(runners, r) /\ worker' = [worker EXCEPT ![w] = t]
  BY DEF LoadRunner, Verified, Inv, TypeOK
<1>5. n \in Nat /\ n # 0 /\ Len(runners) \in Nat
  BY LenProperties DEF Inv, TypeOK
<1>6. t \in Task /\ t.at = "enter" /\ t.request = worker[w].request /\ t.runner = n
  BY <1>1, <1>5 DEF Task, Places
<1> HIDE DEF r, t
<1>7. /\ runners' \in Seq(Runner) /\ Len(runners') = n
      /\ \A i \in 1 .. Len(runners) : runners'[i] = runners[i]
      /\ runners'[n] = r
  BY <1>3, <1>4, AppendProperties DEF Inv, TypeOK
<1>8. WorkerStep(w) /\ worker'[w] = t /\ worker'[w] # Nobody
  BY <1>4, <1>6, Becomes DEF Inv
<1>9. Grows(w)
  <2>1. Len(caches) \in Nat
    BY LenProperties DEF Inv, TypeOK
  <2> QED BY <1>2, <1>5, <1>7, <2>1 DEF Grows, memory
<1>10. n \in 1 .. Len(runners')
  BY <1>5, <1>7
<1>11. TaskInv(w)'
  <2>1. /\ worker'[w].at = "enter" /\ worker'[w].runner = n
        /\ worker'[w].request = worker[w].request
    BY <1>6, <1>8
  <2>2. runners'[worker'[w].runner].for = worker'[w].request /\ runners'[worker'[w].runner].whole
    BY <1>3, <1>7, <2>1
  <2> HIDE DEF n
  <2> QED BY <1>5, <1>8, <1>10, <2>1, <2>2 DEF TaskInv, UsingCache, Holding, Fetching, Fits
<1>12. FetchedInv' /\ RunnersReach'
  BY <1>1, <1>2, <1>8, <1>9, RunnersStay
<1>13. fetched' \in [Requests -> Nat] /\ order' \in Seq(Requests)
  BY <1>2 DEF Inv, TypeOK
<1> QED BY <1>1, <1>2, <1>7, <1>8, <1>9, <1>11, <1>12, <1>13, RunnersStep DEF Holding

LEMMA EnterKeeps == ASSUME Inv, NEW w \in Workers, Enter(w) PROVE Inv'
<1> DEFINE q == worker[w].request
<1>1. worker[w] # Nobody /\ worker[w].at = "enter" /\ worker[w] \in Task /\ KeyFor(w) = q
  BY IsTask DEF Enter, At, Inv, KeyFor, KeyOf
<1>2. UNCHANGED <<memory, order, runners, modules, tasks, happened>> /\ OthersType
  BY DEF OthersType, Inv, TypeOK, Enter
<1>3. /\ WorkerStep(w) /\ worker'[w] # Nobody /\ worker'[w].at = "append"
      /\ worker'[w].request = q /\ worker'[w].runner = worker[w].runner
  BY <1>1, Moves DEF Inv, Places, Enter
<1>4. Grows(w)
  BY <1>2, NothingGrows DEF Inv, memory
<1>5. TaskInv(w)'
  BY <1>1, <1>3, <1>4, RestingTask DEF UsingCache, Holding, Fetching
<1>6. worker[w].runner \in Nat /\ q \in Requests
  BY <1>1 DEF Task
<1>7. worker[w].runner # 0 /\ Fits(worker[w].runner, q)
  BY <1>1 DEF Inv, TasksInv, TaskInv, Fetching
<1>8. fetched' = [fetched EXCEPT ![q] = worker[w].runner]
  BY <1>1 DEF Enter
<1>9. /\ fetched' \in [Requests -> Nat] /\ fetched'[q] = worker[w].runner
      /\ \A p \in Requests \ {q} : fetched'[p] = fetched[p]
  BY <1>6, <1>8 DEF Inv, TypeOK
<1>10. FetchedInv'
  BY <1>2, <1>7, <1>9 DEF FetchedInv, Inv, Fits
<1>11. RunnersReach'
  <2>1. ASSUME NEW p \in Requests, fetched'[p] # 0
        PROVE  RunnerKept(w, p)
    <3>1. CASE p = q
      BY <1>3, <3>1 DEF RunnerKept, HasRunner
    <3>2. CASE p # q
      BY <1>1, <1>2, <1>9, <2>1, <3>2 DEF RunnerKept, HasRunner
    <3> QED BY <3>1, <3>2
  <2> QED BY <1>3, <2>1, RunnersAreKept
<1>12. order' \in Seq(Requests) /\ runners' \in Seq(Runner)
  BY <1>2 DEF Inv, TypeOK
<1> QED BY <1>1, <1>2, <1>3, <1>4, <1>5, <1>9, <1>10, <1>11, <1>12, RunnersStep DEF Holding

LEMMA LimitKeeps == ASSUME Inv, NEW w \in Workers, Limit(w) PROVE Inv'
<1>1. worker[w] # Nobody /\ worker[w].at = "limit" /\ worker[w] \in Task
  BY IsTask DEF Limit, At, Inv
<1>2. UNCHANGED <<memory, fetched, runners, modules, tasks>> /\ OthersType
  BY DEF OthersType, Inv, TypeOK, Limit, Break
<1>3. ASSUME Break(w), UNCHANGED order
      PROVE  Inv'
  BY <1>1, <1>2, <1>3, TaskEnds DEF Break, Holding, OthersType
<1>4. Grows(w)
  BY <1>2, NothingGrows DEF Inv, memory
<1>5. ASSUME Move(w, "initialize"), UNCHANGED order
      PROVE  Inv'
  <2>1. /\ WorkerStep(w) /\ worker'[w] # Nobody /\ worker'[w].at = "initialize"
        /\ worker'[w].request = worker[w].request /\ worker'[w].runner = worker[w].runner
    BY <1>1, <1>5, Moves DEF Inv, Places
  <2>2. TaskInv(w)'
    BY <1>1, <1>4, <2>1, RestingTask DEF UsingCache, Holding, Fetching
  <2> QED BY <1>1, <1>2, <1>5, <2>1, <2>2, ThreadStep DEF Holding
<1>6. ASSUME order # << >>, order' = Tail(order),
             worker' = [worker EXCEPT ![w].at = "drop", ![w].victim = Head(order)]
      PROVE  Inv'
  <2> DEFINE t == [worker[w] EXCEPT !.at = "drop", !.victim = Head(order)]
  <2>1. /\ Head(order) \in Requests /\ order' \in Seq(Requests)
        /\ Members(order) \subseteq Members(order') \cup {Head(order)}
    BY <1>6, MembersTail DEF Inv, TypeOK
  <2>2. /\ t \in Task /\ t.at = "drop" /\ t.victim = Head(order)
        /\ t.request = worker[w].request /\ t.runner = worker[w].runner
    BY <1>1, <2>1 DEF Task, Places
  <2>3. worker' = [worker EXCEPT ![w] = t]
    BY <1>6 DEF Inv, TypeOK
  <2> HIDE DEF t
  <2>4. WorkerStep(w) /\ worker'[w] = t /\ worker'[w] # Nobody
    BY <2>2, <2>3, Becomes DEF Inv
  <2>5. TaskInv(w)'
    <3>1. TaskInv(w)
      BY DEF Inv, TasksInv
    <3> QED BY <1>1, <1>2, <2>1, <2>2, <2>4, <3>1
            DEF TaskInv, UsingCache, Holding, Fetching, Fits
  <2>6. RunnersReach'
    <3>1. ASSUME NEW p \in Requests, fetched'[p] # 0
          PROVE  RunnerKept(w, p)
      BY <1>1, <1>2, <2>1, <2>2, <2>4, <3>1 DEF RunnerKept, HasRunner
    <3> QED BY <2>4, <3>1, RunnersAreKept
  <2>7. FetchedInv' /\ fetched' \in [Requests -> Nat] /\ runners' \in Seq(Runner)
    BY <1>2 DEF FetchedInv, Inv, TypeOK, Fits
  <2> QED BY <1>1, <1>2, <1>4, <2>1, <2>4, <2>5, <2>6, <2>7, RunnersStep DEF Holding
<1> QED BY <1>3, <1>5, <1>6 DEF Limit

LEMMA DropKeeps == ASSUME Inv, NEW w \in Workers, Drop(w) PROVE Inv'
<1> DEFINE q == worker[w].victim
<1>1. worker[w] # Nobody /\ worker[w].at = "drop" /\ worker[w] \in Task
  BY IsTask DEF Drop, At, Inv
<1>2. UNCHANGED <<memory, order, runners, modules, tasks>> /\ OthersType
  BY DEF OthersType, Inv, TypeOK, Drop, Break
<1>3. q \in Requests
  BY <1>1 DEF Inv, TasksInv, TaskInv
<1>4. Grows(w)
  BY <1>2, NothingGrows DEF Inv, memory
<1>5. order' \in Seq(Requests) /\ runners' \in Seq(Runner)
  BY <1>2 DEF Inv, TypeOK
<1>6. ASSUME fetched[q] = 0, Break(w), UNCHANGED fetched
      PROVE  Inv'
  <2>1. WorkerStep(w) /\ worker'[w] = Nobody
    BY <1>6, Dies DEF Break, Inv
  <2>2. TaskInv(w)'
    BY <2>1 DEF TaskInv
  <2>3. RunnersReach'
    <3>1. ASSUME NEW p \in Requests, fetched'[p] # 0
          PROVE  RunnerKept(w, p)
      BY <1>1, <1>2, <1>6, <3>1 DEF RunnerKept, HasRunner
    <3> QED BY <2>1, <3>1, RunnersAreKept
  <2>4. FetchedInv' /\ fetched' \in [Requests -> Nat]
    BY <1>2, <1>6 DEF FetchedInv, Inv, TypeOK, Fits
  <2> QED BY <1>1, <1>2, <1>4, <1>5, <2>1, <2>2, <2>3, <2>4, RunnersStep DEF Holding
<1>7. ASSUME fetched' = [fetched EXCEPT ![q] = 0],
             worker' = [worker EXCEPT ![w].at = "limit", ![w].victim = Nobody]
      PROVE  Inv'
  <2> DEFINE t == [worker[w] EXCEPT !.at = "limit", !.victim = Nobody]
  <2>1. /\ t \in Task /\ t.at = "limit"
        /\ t.request = worker[w].request /\ t.runner = worker[w].runner
    BY <1>1 DEF Task, Places
  <2>2. worker' = [worker EXCEPT ![w] = t]
    BY <1>7 DEF Inv, TypeOK
  <2> HIDE DEF t
  <2>3. WorkerStep(w) /\ worker'[w] = t /\ worker'[w] # Nobody
    BY <2>1, <2>2, Becomes DEF Inv
  <2>4. TaskInv(w)'
    BY <1>1, <1>4, <2>1, <2>3, RestingTask DEF UsingCache, Holding, Fetching
  <2>5. /\ fetched' \in [Requests -> Nat] /\ fetched'[q] = 0
        /\ \A p \in Requests \ {q} : fetched'[p] = fetched[p]
    BY <1>3, <1>7 DEF Inv, TypeOK
  <2>6. RunnersReach'
    <3>1. ASSUME NEW p \in Requests, fetched'[p] # 0
          PROVE  RunnerKept(w, p)
      BY <1>1, <1>2, <2>5, <3>1 DEF RunnerKept, HasRunner
    <3> QED BY <2>3, <3>1, RunnersAreKept
  <2>7. FetchedInv'
    BY <1>2, <2>5 DEF FetchedInv, Inv, Fits
  <2> QED BY <1>1, <1>2, <1>4, <1>5, <2>3, <2>4, <2>5, <2>6, <2>7, RunnersStep DEF Holding
<1> QED BY <1>6, <1>7 DEF Drop

\* Initialize and EndInit.
LEMMA FlagsKeep ==
  ASSUME Inv, NEW w \in Workers, Initialize(w) \/ EndInit(w)
  PROVE  Inv'
<1> DEFINE place == IF Initialize(w) THEN "init" ELSE "run"
           n == worker[w].runner
<1>1. /\ worker[w] # Nobody /\ worker[w].at \in {"initialize", "end_init"}
      /\ Move(w, place) /\ place \in {"init", "run"}
  BY DEF Initialize, EndInit, At
<1> HIDE DEF place
<1>2. UNCHANGED <<memory, fetched, order, modules, tasks, happened>> /\ OthersType
  BY DEF OthersType, Inv, TypeOK, Initialize, EndInit
<1>3. n \in 1 .. Len(runners)
  BY <1>1 DEF Inv, TasksInv, TaskInv, Fetching, Fits
<1>4. PICK flag \in BOOLEAN : runners' = [runners EXCEPT ![n].initializing = flag]
  BY DEF Initialize, EndInit, SetInitializing
<1> HIDE DEF n
<1> DEFINE r == [runners[n] EXCEPT !.initializing = flag]
<1>5. runners[n] \in Runner
  BY <1>3, ElementOfSeq DEF Inv, TypeOK
<1>6. r \in Runner /\ r.for = runners[n].for /\ r.whole = runners[n].whole
  BY <1>5 DEF Runner
<1>7. runners' = [runners EXCEPT ![n] = r]
  BY <1>4
<1> HIDE DEF r
<1>8. /\ runners' \in Seq(Runner) /\ Len(runners') = Len(runners)
      /\ \A i \in 1 .. Len(runners) : runners'[i] = IF i = n THEN r ELSE runners[i]
  BY <1>3, <1>6, <1>7, ExceptSeq DEF Inv, TypeOK
<1>9. /\ WorkerStep(w) /\ worker'[w] # Nobody /\ worker'[w].at = place
      /\ worker'[w].request = worker[w].request /\ worker'[w].runner = worker[w].runner
  BY <1>1, Moves DEF Inv, Places
<1>10. Grows(w)
  <2>1. Len(caches) \in Nat
    BY LenProperties DEF Inv, TypeOK
  <2> QED BY <1>2, <1>6, <1>8, <2>1 DEF Grows, memory
<1>11. TaskInv(w)'
  BY <1>1, <1>9, <1>10, RestingTask DEF UsingCache, Holding, Fetching
<1>12. FetchedInv' /\ RunnersReach'
  BY <1>1, <1>2, <1>9, <1>10, RunnersStay
<1>13. fetched' \in [Requests -> Nat] /\ order' \in Seq(Requests)
  BY <1>2 DEF Inv, TypeOK
<1> QED BY <1>1, <1>2, <1>8, <1>9, <1>10, <1>11, <1>12, <1>13, RunnersStep DEF Holding

-----------------------------------------------------------------------------
(* Steps of sessions *)

LEMMA CacheType ==
  ASSUME TypeOK, NEW c \in 1 .. Len(caches)
  PROVE  caches[c] \in Cache /\ caches[c].items \subseteq Keys /\ caches[c].order \in Seq(Keys)
<1>1. caches[c] \in Cache
  BY ElementOfSeq DEF TypeOK
<1> QED BY <1>1 DEF Cache

LEMMA OrderChanges ==
  ASSUME TypeOK, NEW c \in 1 .. Len(caches), NEW o \in Seq(Keys),
         caches' = [caches EXCEPT ![c].order = o]
  PROVE  /\ caches' \in Seq(Cache) /\ Len(caches') = Len(caches) /\ Len(caches) \in Nat
         /\ caches'[c].items = caches[c].items /\ caches'[c].order = o
         /\ \A i \in 1 .. Len(caches) : i # c => caches'[i] = caches[i]
<1> DEFINE r == [caches[c] EXCEPT !.order = o]
<1>1. r \in Cache /\ r.items = caches[c].items /\ r.order = o
  BY CacheType DEF Cache
<1>2. caches' = [caches EXCEPT ![c] = r]
  OBVIOUS
<1> HIDE DEF r
<1>3. /\ caches' \in Seq(Cache) /\ Len(caches') = Len(caches)
      /\ \A i \in 1 .. Len(caches) : caches'[i] = IF i = c THEN r ELSE caches[i]
  <2>1. caches \in Seq(Cache) /\ r \in Cache
    BY <1>1 DEF TypeOK
  <2>2. [caches EXCEPT ![c] = r] \in Seq(Cache)
    BY <2>1, ExceptSeq
  <2>3. Len([caches EXCEPT ![c] = r]) = Len(caches)
    BY <2>1, ExceptSeq
  <2>4. \A i \in 1 .. Len(caches) : [caches EXCEPT ![c] = r][i] = IF i = c THEN r ELSE caches[i]
    BY <2>1, ExceptSeq
  <2> QED BY <1>2, <2>2, <2>3, <2>4
<1>4. Len(caches) \in Nat
  BY LenProperties DEF TypeOK
<1> QED BY <1>1, <1>3, <1>4

LEMMA ItemsChange ==
  ASSUME TypeOK, NEW c \in 1 .. Len(caches), NEW I \in SUBSET Keys,
         caches' = [caches EXCEPT ![c].items = I]
  PROVE  /\ caches' \in Seq(Cache) /\ Len(caches') = Len(caches) /\ Len(caches) \in Nat
         /\ caches'[c].items = I /\ caches'[c].order = caches[c].order
         /\ \A i \in 1 .. Len(caches) : i # c => caches'[i] = caches[i]
<1> DEFINE r == [caches[c] EXCEPT !.items = I]
<1>1. r \in Cache /\ r.items = I /\ r.order = caches[c].order
  BY CacheType DEF Cache
<1>2. caches' = [caches EXCEPT ![c] = r]
  OBVIOUS
<1> HIDE DEF r
<1>3. /\ caches' \in Seq(Cache) /\ Len(caches') = Len(caches)
      /\ \A i \in 1 .. Len(caches) : caches'[i] = IF i = c THEN r ELSE caches[i]
  <2>1. caches \in Seq(Cache) /\ r \in Cache
    BY <1>1 DEF TypeOK
  <2>2. [caches EXCEPT ![c] = r] \in Seq(Cache)
    BY <2>1, ExceptSeq
  <2>3. Len([caches EXCEPT ![c] = r]) = Len(caches)
    BY <2>1, ExceptSeq
  <2>4. \A i \in 1 .. Len(caches) : [caches EXCEPT ![c] = r][i] = IF i = c THEN r ELSE caches[i]
    BY <2>1, ExceptSeq
  <2> QED BY <1>2, <2>2, <2>3, <2>4
<1>4. Len(caches) \in Nat
  BY LenProperties DEF TypeOK
<1> QED BY <1>1, <1>3, <1>4

\* A thread that uses a cache: the lock is its own where it needs it.
LEMMA HasCache ==
  ASSUME Inv, NEW w \in Workers, worker[w] # Nobody, worker[w].at \in UsingCache
  PROVE  /\ worker[w] \in Task /\ worker[w].cache \in 1 .. Len(caches)
         /\ worker[w].runner # 0 /\ Fits(worker[w].runner, worker[w].request)
         /\ worker[w].at \in Holding => lock = w
<1>1. TaskInv(w) /\ worker[w] \in Task
  BY IsTask DEF Inv, TasksInv
<1>2. worker[w].at \notin Fetching
  BY DEF UsingCache, Holding, Fetching
<1> QED BY <1>1, <1>2 DEF TaskInv

\* A step on one cache that removes items, if any, under the lock.
LEMMA CacheGrows ==
  ASSUME Inv, NEW w \in Workers, UNCHANGED <<sessions, runners>>,
         Len(caches') = Len(caches), Len(caches) \in Nat,
         \/ lock = w
         \/ lock' = lock /\ \A c \in 1 .. Len(caches) : caches'[c].items = caches[c].items
  PROVE  Grows(w) /\ SessionsInv'
<1>1. SessionsInv'
  BY DEF Inv, SessionsInv
<1>2. Grows(w)
  BY DEF Grows
<1> QED BY <1>1, <1>2

LEMMA AfterLock ==
  ASSUME Inv, NEW w \in Workers, WorkerStep(w),
         \/ lock' = Nobody
         \/ lock' = w /\ worker'[w] # Nobody /\ worker'[w].at \in Holding
         \/ lock' = lock /\ worker[w] # Nobody /\ worker[w].at \notin Holding
  PROVE  LockInv'
BY DEF Inv, LockInv, WorkerStep, TypeOK

LEMMA LockType ==
  ASSUME Inv, NEW w \in Workers, lock' \in {lock, w, Nobody}
  PROVE  lock' \in Workers \cup {Nobody}
BY DEF Inv, TypeOK

LEMMA RoomIsMade ==
  ASSUME NEW S \in [Tokens -> Nat]
  PROVE  /\ MakeRoom(S) \in [Tokens -> Nat]
         /\ \A x \in Tokens : MakeRoom(S)[x] \in {0, S[x]}
BY DEF MakeRoom

LEMMA StartKeeps ==
  ASSUME Inv, NEW w \in Workers, NEW x \in Tokens, NEW q \in Requests,
         NEW n \in 0 .. Len(caches), Start(w, x, q, n)
  PROVE  Inv'
<1> DEFINE t == [at |-> "look_up", token |-> x, request |-> q, runner |-> 0, key |-> Nobody,
                 cache |-> 0, victim |-> Nobody, uses |-> 0]
<1>1. worker[w] = Nobody /\ lock = Nobody /\ worker' = [worker EXCEPT ![w] = t]
  BY DEF Start
<1>2. UNCHANGED <<caches, lock, algorithms>>
  BY DEF Start
<1>3. t \in Task /\ t.at = "look_up" /\ t.runner = 0 /\ t.cache = 0
  BY BoundsAssumption DEF Task, Places
<1> HIDE DEF t
<1>4. WorkerStep(w) /\ worker'[w] = t /\ worker'[w] # Nobody
  BY <1>1, <1>3, Becomes DEF Inv
<1>5. TaskInv(w)'
  BY <1>3, <1>4 DEF TaskInv, UsingCache, Holding, Fetching
<1>6. Grows(w)
  BY <1>2, NothingGrows DEF Inv, algorithms
<1>7. Unexpired(n) \in [Tokens -> Nat] /\ \A y \in Tokens : Unexpired(n)[y] \in {0, sessions[y]}
  BY DEF Unexpired, Inv, TypeOK
<1>8. /\ sessions' \in [Tokens -> Nat]
      /\ \A y \in Tokens : sessions'[y] \in {0, Unexpired(n)[y]}
  BY <1>7, RoomIsMade DEF Start
<1>9. SessionsInv'
  <2>1. Len(caches) \in Nat
    BY LenProperties DEF Inv, TypeOK
  <2>2. \A y \in Tokens : sessions'[y] \in {0, sessions[y]}
    BY <1>7, <1>8
  <2> QED BY <1>2, <2>1, <2>2 DEF Inv, SessionsInv
<1>10. KeysReach'
  <2>1. \A c \in 1 .. Len(caches') : \A k \in caches'[c].items : KeyKept(w, c, k)
    BY <1>1, <1>2 DEF KeyKept, HasKey
  <2> QED BY <1>4, <2>1, KeysAreKept
<1>11. LockInv'
  BY <1>1, <1>2 DEF LockInv
<1>12. tasks' \in 0 .. MaxTasks
  BY BoundsAssumption DEF Start, Inv, TypeOK
<1>13. happened' \subseteq {"overlap", "saved_again", "broken"}
  BY DEF Start, Inv, TypeOK
<1>14. caches' \in Seq(Cache) /\ lock' \in Workers \cup {Nobody}
  BY <1>2 DEF Inv, TypeOK
<1> QED BY <1>1, <1>2, <1>4, <1>5, <1>6, <1>8, <1>9, <1>10, <1>11, <1>12, <1>13, <1>14,
           SessionsStep

LEMMA SaveKeeps == ASSUME Inv, NEW w \in Workers, NEW k \in Keys, Save(w, k) PROVE Inv'
<1> DEFINE x == worker[w].token
           c == IF sessions[x] = 0 THEN Len(caches) + 1 ELSE sessions[x]
           kept == IF sessions[x] = 0 THEN Append(caches, EmptyCache) ELSE caches
           place == IF Full(kept[c]) THEN "pop" ELSE "store"
<1>1. /\ CanUse(w) /\ worker[w] # Nobody /\ worker[w].at = "run" /\ worker[w] \in Task
      /\ lock = Nobody /\ lock' = w
  BY IsTask DEF Save, CanUse, At, Inv
<1>2. UNCHANGED <<algorithms, tasks>> /\ happened' \subseteq {"overlap", "saved_again", "broken"}
  BY DEF Save, Inv, TypeOK
<1>3. sessions' = [sessions EXCEPT ![x] = c] /\ caches' = kept /\ Use(w, k, place, c)
  BY DEF Save
<1>4. x \in Tokens
  BY <1>1 DEF Task
<1>5. place \in {"pop", "store"}
  OBVIOUS
<1>6. Len(caches) \in Nat /\ sessions[x] \in 0 .. Len(caches)
  BY <1>4, LenProperties DEF Inv, TypeOK, SessionsInv
<1>7. /\ caches' \in Seq(Cache) /\ Len(caches') >= Len(caches) /\ Len(caches') \in Nat
      /\ \A i \in 1 .. Len(caches) : caches'[i] = caches[i]
      /\ \A i \in 1 .. Len(caches') : i \notin 1 .. Len(caches) => caches'[i].items = {}
      /\ c \in 1 .. Len(caches')
  <2>1. CASE sessions[x] = 0
    <3>1. EmptyCache \in Cache /\ EmptyCache.items = {}
      BY EmptySeq DEF EmptyCache, Cache
    <3>2. /\ caches' \in Seq(Cache) /\ Len(caches') = Len(caches) + 1
          /\ \A i \in 1 .. Len(caches) : caches'[i] = caches[i]
          /\ caches'[Len(caches) + 1] = EmptyCache
      BY <1>3, <2>1, <3>1, AppendProperties DEF Inv, TypeOK
    <3>3. \A i \in 1 .. Len(caches') : i \notin 1 .. Len(caches) => i = Len(caches) + 1
      BY <1>6, <3>2
    <3>4. c = Len(caches) + 1 /\ c \in 1 .. Len(caches')
      BY <1>6, <2>1, <3>2
    <3> QED BY <1>6, <3>1, <3>2, <3>3, <3>4
  <2>2. CASE sessions[x] # 0
    BY <1>3, <1>6, <2>2 DEF Inv, TypeOK
  <2> QED BY <2>1, <2>2
<1>8. c \in Nat
  BY <1>7
<1> HIDE DEF c, kept, place
<1>9. /\ WorkerStep(w) /\ worker'[w] # Nobody /\ worker'[w].at = place
      /\ worker'[w].request = worker[w].request /\ worker'[w].runner = worker[w].runner
      /\ worker'[w].key = k /\ worker'[w].cache = c
  BY <1>1, <1>3, <1>5, <1>8, Uses DEF Inv, Places
<1>10. TaskInv(w)'
  <2>1. TaskInv(w)
    BY DEF Inv, TasksInv
  <2> QED BY <1>1, <1>2, <1>5, <1>7, <1>9, <2>1
          DEF TaskInv, UsingCache, Holding, Fetching, Fits, algorithms
<1>11. Grows(w)
  BY <1>1, <1>2, <1>7, NobodyAssumption DEF Grows, algorithms
<1>12. sessions' \in [Tokens -> Nat] /\ SessionsInv'
  <2>1. sessions' \in [Tokens -> Nat]
    BY <1>3, <1>8 DEF Inv, TypeOK
  <2>2. ASSUME NEW y \in Tokens PROVE sessions'[y] \in 0 .. Len(caches')
    <3>1. sessions'[y] = IF y = x THEN c ELSE sessions[y]
      BY <1>3 DEF Inv, TypeOK
    <3>2. sessions[y] \in 0 .. Len(caches)
      BY DEF Inv, SessionsInv
    <3> QED BY <1>6, <1>7, <3>1, <3>2
  <2> QED BY <2>1, <2>2 DEF SessionsInv
<1>13. KeysReach'
  <2>1. ASSUME NEW d \in 1 .. Len(caches'), NEW l \in caches'[d].items
        PROVE  KeyKept(w, d, l)
    BY <1>1, <1>7 DEF KeyKept, HasKey
  <2> QED BY <1>9, <2>1, KeysAreKept
<1>14. LockInv'
  BY <1>1, <1>5, <1>9 DEF LockInv, Holding
<1>15. tasks' \in 0 .. MaxTasks /\ lock' \in Workers \cup {Nobody}
  BY <1>1, <1>2 DEF Inv, TypeOK
<1> QED BY <1>1, <1>2, <1>7, <1>9, <1>10, <1>11, <1>12, <1>13, <1>14, <1>15, SessionsStep

LEMMA RemoveKeeps == ASSUME Inv, NEW w \in Workers, NEW k \in Keys, Remove(w, k) PROVE Inv'
<1> DEFINE c == sessions[worker[w].token]
<1>1. /\ worker[w] # Nobody /\ worker[w].at = "run" /\ worker[w] \in Task
      /\ worker[w].uses < MaxUses /\ lock = Nobody
  BY IsTask DEF Remove, CanUse, At, Inv
<1>2. UNCHANGED <<sessions, caches, algorithms, tasks, happened>>
  BY DEF Remove
<1>3. ASSUME worker' = [worker EXCEPT ![w] = Nobody], UNCHANGED lock
      PROVE  Inv'
  <2>1. modules' \in [Requests -> Extents] /\ UNCHANGED <<memory, fetched, order, runners>>
    BY <1>2, <1>3 DEF Inv, TypeOK, algorithms, memory
  <2> QED BY <1>1, <1>2, <1>3, <2>1, TaskEnds DEF Holding
<1>4. ASSUME c # 0, lock' = w,
             worker' = [worker EXCEPT ![w].at = "del", ![w].cache = c, ![w].victim = k,
                                      ![w].uses = @ + 1]
      PROVE  Inv'
  <2> DEFINE t == [worker[w] EXCEPT !.at = "del", !.cache = c, !.victim = k, !.uses = @ + 1]
  <2>1. Len(caches) \in Nat /\ c \in 1 .. Len(caches) /\ c \in Nat
    BY <1>1, <1>4, LenProperties DEF Inv, TypeOK, SessionsInv, Task
  <2>2. worker' = [worker EXCEPT ![w] = t]
    BY <1>4 DEF Inv, TypeOK
  <2> HIDE DEF c
  <2>3. worker[w].uses + 1 \in 0 .. MaxUses
    BY <1>1, BoundsAssumption DEF Task
  <2>4. /\ t \in Task /\ t.at = "del" /\ t.cache = c /\ t.victim = k
        /\ t.request = worker[w].request /\ t.runner = worker[w].runner
    BY <1>1, <2>1, <2>3 DEF Task, Places
  <2> HIDE DEF t
  <2>5. WorkerStep(w) /\ worker'[w] = t /\ worker'[w] # Nobody
    BY <2>2, <2>4, Becomes DEF Inv
  <2>6. TaskInv(w)'
    <3>1. TaskInv(w)
      BY DEF Inv, TasksInv
    <3> QED BY <1>1, <1>2, <1>4, <2>1, <2>4, <2>5, <3>1
            DEF TaskInv, UsingCache, Holding, Fetching, Fits, algorithms
  <2>7. Grows(w) /\ SessionsInv'
    BY <1>1, <1>2, <2>1, NobodyAssumption DEF Grows, algorithms, Inv, SessionsInv
  <2>8. KeysReach'
    <3>1. \A d \in 1 .. Len(caches') : \A l \in caches'[d].items : KeyKept(w, d, l)
      BY <1>1, <1>2 DEF KeyKept, HasKey
    <3> QED BY <2>5, <3>1, KeysAreKept
  <2>9. LockInv' /\ lock' \in Workers \cup {Nobody}
    BY <1>4, <2>4, <2>5 DEF LockInv, Holding
  <2>10. /\ sessions' \in [Tokens -> Nat] /\ caches' \in Seq(Cache) /\ tasks' \in 0 .. MaxTasks
         /\ happened' \subseteq {"overlap", "saved_again", "broken"}
    BY <1>2 DEF Inv, TypeOK
  <2> QED BY <1>1, <1>2, <2>5, <2>6, <2>7, <2>8, <2>9, <2>10, SessionsStep
<1> QED BY <1>3, <1>4 DEF Remove

\* The use of the lock ends, or goes on with the item to store.
LEMMA AfterRemovalEffect ==
  ASSUME Inv, NEW w \in Workers, worker[w] # Nobody, worker[w].at \in {"del", "forget"},
         AfterRemoval(w), Len(caches') = Len(caches), UNCHANGED runners
  PROVE  WorkerStep(w) /\ TaskInv(w)' /\ LockInv' /\ lock' \in Workers \cup {Nobody}
<1>1. /\ worker[w] \in Task /\ worker[w].cache \in 1 .. Len(caches')
      /\ worker[w].runner # 0 /\ Fits(worker[w].runner, worker[w].request) /\ lock = w
  BY HasCache DEF UsingCache, Holding
<1>2. ASSUME Done(w), lock' = Nobody
      PROVE  WorkerStep(w) /\ TaskInv(w)' /\ LockInv' /\ lock' \in Workers \cup {Nobody}
  <2>1. /\ WorkerStep(w) /\ worker'[w] # Nobody /\ worker'[w].at = "run"
        /\ worker'[w].request = worker[w].request /\ worker'[w].runner = worker[w].runner
    BY <1>2, IsDone DEF Inv
  <2>2. TaskInv(w)'
    BY <1>1, <2>1 DEF TaskInv, UsingCache, Holding, Fetching, Fits
  <2> QED BY <1>2, <2>1, <2>2 DEF LockInv
<1>3. ASSUME worker[w].key # Nobody, Move(w, "store"), UNCHANGED lock
      PROVE  WorkerStep(w) /\ TaskInv(w)' /\ LockInv' /\ lock' \in Workers \cup {Nobody}
  <2>1. /\ WorkerStep(w) /\ worker'[w] # Nobody /\ worker'[w].at = "store"
        /\ worker'[w].request = worker[w].request /\ worker'[w].runner = worker[w].runner
        /\ worker'[w].key = worker[w].key /\ worker'[w].cache = worker[w].cache
    BY <1>3, Moves DEF Inv, Places
  <2>2. worker[w].key \in Keys
    BY <1>1, <1>3 DEF Task
  <2>3. TaskInv(w)'
    BY <1>1, <1>3, <2>1, <2>2 DEF TaskInv, UsingCache, Holding, Fetching, Fits
  <2>4. LockInv'
    BY <1>1, <1>3, <2>1, AfterLock DEF Holding
  <2> QED BY <1>1, <1>3, <2>1, <2>3, <2>4
<1> QED BY <1>2, <1>3 DEF AfterRemoval

LEMMA PopKeeps == ASSUME Inv, NEW w \in Workers, Pop(w) PROVE Inv'
<1> DEFINE c == worker[w].cache
           o == caches[c].order
<1>1. worker[w] # Nobody /\ worker[w].at = "pop"
  BY DEF Pop, At
<1>2. /\ worker[w] \in Task /\ c \in 1 .. Len(caches) /\ lock = w
      /\ worker[w].runner # 0 /\ Fits(worker[w].runner, worker[w].request)
  BY <1>1, HasCache DEF UsingCache, Holding
<1>3. UNCHANGED <<sessions, algorithms, runners, tasks>>
      /\ happened' \subseteq {"overlap", "saved_again", "broken"}
      /\ sessions' \in [Tokens -> Nat] /\ tasks' \in 0 .. MaxTasks
  BY DEF Pop, Break, algorithms, Inv, TypeOK
<1>4. o \in Seq(Keys)
  BY <1>2, CacheType DEF Inv
<1>5. ASSUME Break(w), lock' = Nobody, UNCHANGED caches
      PROVE  Inv'
  <2>1. WorkerStep(w) /\ worker'[w] = Nobody
    BY <1>5, Dies DEF Break, Inv
  <2>2. TaskInv(w)' /\ LockInv' /\ lock' \in Workers \cup {Nobody}
    BY <1>5, <2>1 DEF TaskInv, LockInv
  <2>3. Len(caches) \in Nat /\ caches' \in Seq(Cache)
    BY <1>5, LenProperties DEF Inv, TypeOK
  <2>4. Grows(w) /\ SessionsInv'
    BY <1>2, <1>3, <1>5, <2>3, CacheGrows
  <2>5. KeysReach'
    <3>1. \A d \in 1 .. Len(caches') : \A l \in caches'[d].items : KeyKept(w, d, l)
      BY <1>1, <1>5 DEF KeyKept, HasKey
    <3> QED BY <2>1, <3>1, KeysAreKept
  <2> QED BY <1>1, <1>3, <2>1, <2>2, <2>3, <2>4, <2>5, SessionsStep
<1>6. ASSUME o # << >>, UNCHANGED lock, caches' = [caches EXCEPT ![c].order = Tail(o)],
             worker' = [worker EXCEPT ![w].at = "del", ![w].victim = Head(o)]
      PROVE  Inv'
  <2> DEFINE k == Head(o)
             t == [worker[w] EXCEPT !.at = "del", !.victim = k]
  <2>1. k \in Keys /\ Tail(o) \in Seq(Keys) /\ Members(o) \subseteq Members(Tail(o)) \cup {k}
    BY <1>4, <1>6, MembersTail
  <2>2. worker' = [worker EXCEPT ![w] = t]
    BY <1>6 DEF Inv, TypeOK
  <2>3. /\ caches' \in Seq(Cache) /\ Len(caches') = Len(caches) /\ Len(caches) \in Nat
        /\ caches'[c].items = caches[c].items /\ caches'[c].order = Tail(o)
        /\ \A i \in 1 .. Len(caches) : i # c => caches'[i] = caches[i]
    BY <1>2, <1>6, <2>1, OrderChanges DEF Inv
  <2> HIDE DEF k
  <2>4. /\ t \in Task /\ t.at = "del" /\ t.victim = k /\ t.cache = c
        /\ t.request = worker[w].request /\ t.runner = worker[w].runner
    BY <1>2, <2>1 DEF Task, Places
  <2> HIDE DEF t
  <2>5. WorkerStep(w) /\ worker'[w] = t /\ worker'[w] # Nobody
    BY <2>2, <2>4, Becomes DEF Inv
  <2>6. TaskInv(w)'
    BY <1>2, <1>3, <1>6, <2>1, <2>3, <2>4, <2>5 DEF TaskInv, UsingCache, Holding, Fetching, Fits
  <2>7. Grows(w) /\ SessionsInv'
    BY <1>2, <1>3, <2>3, CacheGrows
  <2>8. KeysReach'
    <3>1. ASSUME NEW d \in 1 .. Len(caches'), NEW l \in caches'[d].items
          PROVE  KeyKept(w, d, l)
      <4>1. ~ HasKey(w, d, l) /\ d \in 1 .. Len(caches) /\ l \in caches[d].items
        BY <1>1, <2>3, <3>1 DEF HasKey
      <4>2. CASE d = c /\ l = k
        BY <2>4, <2>5, <4>2 DEF KeyKept, HasKey
      <4>3. CASE d = c /\ l # k
        <5>1. l \in Members(caches[d].order) => l \in Members(caches'[d].order)
          BY <2>1, <2>3, <4>3
        <5> QED BY <4>1, <5>1 DEF KeyKept
      <4>4. CASE d # c
        BY <2>3, <4>1, <4>4 DEF KeyKept
      <4> QED BY <4>2, <4>3, <4>4
    <3> QED BY <2>5, <3>1, KeysAreKept
  <2>9. LockInv' /\ lock' \in Workers \cup {Nobody}
    BY <1>2, <1>6, <2>4, <2>5, AfterLock DEF Holding
  <2> QED BY <1>1, <1>3, <2>3, <2>5, <2>6, <2>7, <2>8, <2>9, SessionsStep
<1> QED BY <1>5, <1>6 DEF Pop

LEMMA DelKeeps == ASSUME Inv, NEW w \in Workers, Del(w) PROVE Inv'
<1> DEFINE c == worker[w].cache
           k == worker[w].victim
<1>1. worker[w] # Nobody /\ worker[w].at = "del"
  BY DEF Del, At
<1>2. /\ worker[w] \in Task /\ c \in 1 .. Len(caches) /\ lock = w
      /\ worker[w].runner # 0 /\ Fits(worker[w].runner, worker[w].request)
  BY <1>1, HasCache DEF UsingCache, Holding
<1>3. /\ UNCHANGED <<sessions, algorithms, runners, tasks, happened>>
      /\ happened' \subseteq {"overlap", "saved_again", "broken"}
      /\ sessions' \in [Tokens -> Nat] /\ tasks' \in 0 .. MaxTasks
  BY DEF Del, algorithms, Inv, TypeOK
<1>4. k \in Keys
  BY <1>1 DEF Inv, TasksInv, TaskInv
<1>5. /\ caches' \in Seq(Cache) /\ Len(caches') = Len(caches) /\ Len(caches) \in Nat
      /\ caches'[c].items = caches[c].items \ {k} /\ caches'[c].order = caches[c].order
      /\ \A i \in 1 .. Len(caches) : i # c => caches'[i] = caches[i]
  <2>1. caches[c].items \ {k} \in SUBSET Keys
    BY <1>2, CacheType DEF Inv
  <2>2. caches' = [caches EXCEPT ![c].items = caches[c].items \ {k}]
    BY DEF Del
  <2> QED BY <1>2, <2>1, <2>2, ItemsChange DEF Inv
<1>6. WorkerStep(w) /\ TaskInv(w)' /\ LockInv' /\ lock' \in Workers \cup {Nobody}
  <2>1. ASSUME AfterRemoval(w)
        PROVE  WorkerStep(w) /\ TaskInv(w)' /\ LockInv' /\ lock' \in Workers \cup {Nobody}
    BY <1>1, <1>3, <1>5, <2>1, AfterRemovalEffect
  <2>2. ASSUME Move(w, "forget"), UNCHANGED lock
        PROVE  WorkerStep(w) /\ TaskInv(w)' /\ LockInv' /\ lock' \in Workers \cup {Nobody}
    <3>1. /\ WorkerStep(w) /\ worker'[w] # Nobody /\ worker'[w].at = "forget"
          /\ worker'[w].request = worker[w].request /\ worker'[w].runner = worker[w].runner
          /\ worker'[w].victim = k /\ worker'[w].cache = c
      BY <1>1, <2>2, Moves DEF Inv, Places
    <3>2. TaskInv(w)'
      BY <1>2, <1>3, <1>4, <1>5, <2>2, <3>1 DEF TaskInv, UsingCache, Holding, Fetching, Fits
    <3>3. LockInv'
      BY <1>2, <2>2, <3>1, AfterLock DEF Holding
    <3> QED BY <1>2, <2>2, <3>1, <3>2, <3>3
  <2> QED BY <2>1, <2>2 DEF Del
<1>7. Grows(w) /\ SessionsInv'
  BY <1>2, <1>3, <1>5, CacheGrows
<1>8. KeysReach'
  <2>1. ASSUME NEW d \in 1 .. Len(caches'), NEW l \in caches'[d].items
        PROVE  KeyKept(w, d, l)
    <3>1. ~ HasKey(w, d, l)
      BY <1>1, <1>5, <2>1 DEF HasKey
    <3>2. /\ d \in 1 .. Len(caches) /\ l \in caches[d].items
          /\ caches'[d].order = caches[d].order
      BY <1>5, <2>1
    <3> QED BY <3>1, <3>2 DEF KeyKept
  <2> QED BY <1>6, <2>1, KeysAreKept
<1> QED BY <1>1, <1>3, <1>5, <1>6, <1>7, <1>8, SessionsStep

LEMMA ForgetKeeps == ASSUME Inv, NEW w \in Workers, Forget(w) PROVE Inv'
<1> DEFINE c == worker[w].cache
           k == worker[w].victim
           o == caches[c].order
<1>1. worker[w] # Nobody /\ worker[w].at = "forget"
  BY DEF Forget, At
<1>2. /\ worker[w] \in Task /\ c \in 1 .. Len(caches) /\ lock = w
      /\ k \notin caches[c].items
  BY <1>1, HasCache DEF UsingCache, Holding, Inv, TasksInv, TaskInv
<1>3. UNCHANGED <<sessions, algorithms, runners, tasks>>
      /\ happened' \subseteq {"overlap", "saved_again", "broken"}
      /\ sessions' \in [Tokens -> Nat] /\ tasks' \in 0 .. MaxTasks
  BY DEF Forget, Break, algorithms, Inv, TypeOK
<1>4. o \in Seq(Keys)
  BY <1>2, CacheType DEF Inv
<1>5. ASSUME Break(w), lock' = Nobody, UNCHANGED caches
      PROVE  Inv'
  <2>1. WorkerStep(w) /\ worker'[w] = Nobody
    BY <1>5, Dies DEF Break, Inv
  <2>2. TaskInv(w)' /\ LockInv' /\ lock' \in Workers \cup {Nobody}
    BY <1>5, <2>1 DEF TaskInv, LockInv
  <2>3. Len(caches) \in Nat /\ caches' \in Seq(Cache)
    BY <1>5, LenProperties DEF Inv, TypeOK
  <2>4. Grows(w) /\ SessionsInv'
    BY <1>2, <1>3, <1>5, <2>3, CacheGrows
  <2>5. KeysReach'
    <3>1. \A d \in 1 .. Len(caches') : \A l \in caches'[d].items : KeyKept(w, d, l)
      BY <1>1, <1>5 DEF KeyKept, HasKey
    <3> QED BY <2>1, <3>1, KeysAreKept
  <2> QED BY <1>1, <1>3, <2>1, <2>2, <2>3, <2>4, <2>5, SessionsStep
<1>6. ASSUME k \in Members(o), caches' = [caches EXCEPT ![c].order = Without(o, k)],
             AfterRemoval(w)
      PROVE  Inv'
  <2>1. Without(o, k) \in Seq(Keys) /\ Members(o) \subseteq Members(Without(o, k)) \cup {k}
    BY <1>4, <1>6, MembersWithout
  <2>2. /\ caches' \in Seq(Cache) /\ Len(caches') = Len(caches) /\ Len(caches) \in Nat
        /\ caches'[c].items = caches[c].items /\ caches'[c].order = Without(o, k)
        /\ \A i \in 1 .. Len(caches) : i # c => caches'[i] = caches[i]
    BY <1>2, <1>6, <2>1, OrderChanges DEF Inv
  <2>3. WorkerStep(w) /\ TaskInv(w)' /\ LockInv' /\ lock' \in Workers \cup {Nobody}
    BY <1>1, <1>3, <1>6, <2>2, AfterRemovalEffect
  <2>4. Grows(w) /\ SessionsInv'
    BY <1>2, <1>3, <2>2, CacheGrows
  <2>5. KeysReach'
    <3>1. ASSUME NEW d \in 1 .. Len(caches'), NEW l \in caches'[d].items
          PROVE  KeyKept(w, d, l)
      <4>1. ~ HasKey(w, d, l) /\ d \in 1 .. Len(caches) /\ l \in caches[d].items
        BY <1>1, <2>2, <3>1 DEF HasKey
      <4>2. l \in Members(caches[d].order) => l \in Members(caches'[d].order)
        BY <1>2, <2>1, <2>2, <4>1
      <4> QED BY <4>1, <4>2 DEF KeyKept
    <3> QED BY <2>3, <3>1, KeysAreKept
  <2> QED BY <1>1, <1>3, <2>2, <2>3, <2>4, <2>5, SessionsStep
<1> QED BY <1>5, <1>6 DEF Forget

LEMMA StoreKeeps == ASSUME Inv, NEW w \in Workers, Store(w) PROVE Inv'
<1> DEFINE c == worker[w].cache
           k == worker[w].key
<1>1. worker[w] # Nobody /\ worker[w].at = "store"
  BY DEF Store, At
<1>2. /\ worker[w] \in Task /\ c \in 1 .. Len(caches) /\ lock = w /\ k \in Keys
      /\ worker[w].runner # 0 /\ Fits(worker[w].runner, worker[w].request)
  BY <1>1, HasCache DEF UsingCache, Holding, Inv, TasksInv, TaskInv
<1>3. /\ UNCHANGED <<sessions, lock, algorithms, runners, tasks, happened>>
      /\ happened' \subseteq {"overlap", "saved_again", "broken"}
      /\ sessions' \in [Tokens -> Nat] /\ tasks' \in 0 .. MaxTasks
  BY DEF Store, algorithms, Inv, TypeOK
<1>4. /\ caches' \in Seq(Cache) /\ Len(caches') = Len(caches) /\ Len(caches) \in Nat
      /\ caches'[c].items = caches[c].items \cup {k} /\ caches'[c].order = caches[c].order
      /\ \A i \in 1 .. Len(caches) : i # c => caches'[i] = caches[i]
  <2>1. caches[c].items \cup {k} \in SUBSET Keys
    BY <1>2, CacheType DEF Inv
  <2>2. caches' = [caches EXCEPT ![c].items = caches[c].items \cup {k}]
    BY DEF Store
  <2> QED BY <1>2, <2>1, <2>2, ItemsChange DEF Inv
<1>5. /\ WorkerStep(w) /\ worker'[w] # Nobody /\ worker'[w].at = "append_key"
      /\ worker'[w].request = worker[w].request /\ worker'[w].runner = worker[w].runner
      /\ worker'[w].key = k /\ worker'[w].cache = c
  BY <1>1, Moves DEF Inv, Places, Store
<1>6. TaskInv(w)'
  BY <1>2, <1>3, <1>4, <1>5 DEF TaskInv, UsingCache, Holding, Fetching, Fits
<1>7. LockInv' /\ lock' \in Workers \cup {Nobody}
  BY <1>2, <1>3, <1>5, AfterLock DEF Holding
<1>8. Grows(w) /\ SessionsInv'
  BY <1>2, <1>3, <1>4, CacheGrows
<1>9. KeysReach'
  <2>1. ASSUME NEW d \in 1 .. Len(caches'), NEW l \in caches'[d].items
        PROVE  KeyKept(w, d, l)
    <3>1. CASE d = c /\ l = k
      BY <1>5, <3>1 DEF KeyKept, HasKey
    <3>2. CASE ~ (d = c /\ l = k)
      <4>1. /\ ~ HasKey(w, d, l) /\ d \in 1 .. Len(caches) /\ l \in caches[d].items
            /\ caches'[d].order = caches[d].order
        BY <1>1, <1>4, <2>1, <3>2 DEF HasKey
      <4> QED BY <4>1 DEF KeyKept
    <3> QED BY <3>1, <3>2
  <2> QED BY <1>5, <2>1, KeysAreKept
<1> QED BY <1>1, <1>3, <1>4, <1>5, <1>6, <1>7, <1>8, <1>9, SessionsStep

\* AppendKey and MoveBack.
LEMMA KeyAppendsKeep ==
  ASSUME Inv, NEW w \in Workers, AppendKey(w) \/ MoveBack(w)
  PROVE  Inv'
<1> DEFINE c == worker[w].cache
           k == worker[w].key
           o == caches[c].order
<1>1. /\ worker[w] # Nobody /\ worker[w].at \in {"append_key", "move_back"}
      /\ caches' = [caches EXCEPT ![c].order = Append(o, k)]
  BY DEF AppendKey, MoveBack, At
<1>2. /\ worker[w] \in Task /\ c \in 1 .. Len(caches) /\ k \in Keys
      /\ worker[w].runner # 0 /\ Fits(worker[w].runner, worker[w].request)
  BY <1>1, HasCache DEF UsingCache, Holding, Inv, TasksInv, TaskInv
<1>3. /\ UNCHANGED <<sessions, algorithms, runners, tasks, happened>>
      /\ happened' \subseteq {"overlap", "saved_again", "broken"}
      /\ sessions' \in [Tokens -> Nat] /\ tasks' \in 0 .. MaxTasks
  BY DEF AppendKey, MoveBack, algorithms, Inv, TypeOK
<1>4. o \in Seq(Keys)
  BY <1>2, CacheType DEF Inv
<1>5. /\ Append(o, k) \in Seq(Keys) /\ k \in Members(Append(o, k))
      /\ Members(o) \subseteq Members(Append(o, k))
  BY <1>2, <1>4, MembersAppend
<1>6. /\ caches' \in Seq(Cache) /\ Len(caches') = Len(caches) /\ Len(caches) \in Nat
      /\ caches'[c].items = caches[c].items /\ caches'[c].order = Append(o, k)
      /\ \A i \in 1 .. Len(caches) : i # c => caches'[i] = caches[i]
  BY <1>1, <1>2, <1>5, OrderChanges DEF Inv
<1>7. \/ Done(w) /\ lock = w /\ lock' = Nobody
      \/ Move(w, "get") /\ lock' = lock /\ worker[w].at = "move_back"
  BY HasCache DEF AppendKey, MoveBack, At, UsingCache, Holding
<1>8. WorkerStep(w) /\ TaskInv(w)' /\ LockInv' /\ lock' \in Workers \cup {Nobody}
  <2>1. ASSUME Done(w), lock' = Nobody
        PROVE  WorkerStep(w) /\ TaskInv(w)' /\ LockInv' /\ lock' \in Workers \cup {Nobody}
    <3>1. /\ WorkerStep(w) /\ worker'[w] # Nobody /\ worker'[w].at = "run"
          /\ worker'[w].request = worker[w].request /\ worker'[w].runner = worker[w].runner
      BY <1>1, <2>1, IsDone DEF Inv
    <3>2. TaskInv(w)'
      BY <1>2, <1>3, <3>1 DEF TaskInv, UsingCache, Holding, Fetching, Fits
    <3> QED BY <2>1, <3>1, <3>2 DEF LockInv
  <2>2. ASSUME Move(w, "get"), lock' = lock, worker[w].at = "move_back"
        PROVE  WorkerStep(w) /\ TaskInv(w)' /\ LockInv' /\ lock' \in Workers \cup {Nobody}
    <3>1. /\ WorkerStep(w) /\ worker'[w] # Nobody /\ worker'[w].at = "get"
          /\ worker'[w].request = worker[w].request /\ worker'[w].runner = worker[w].runner
          /\ worker'[w].key = k /\ worker'[w].cache = c
      BY <1>1, <2>2, Moves DEF Inv, Places
    <3>2. TaskInv(w)'
      BY <1>2, <1>3, <1>6, <3>1 DEF TaskInv, UsingCache, Holding, Fetching, Fits
    <3>3. LockInv' /\ lock' \in Workers \cup {Nobody}
      BY <1>1, <2>2, <3>1, AfterLock DEF Holding, Inv, TypeOK
    <3> QED BY <3>1, <3>2, <3>3
  <2> QED BY <1>7, <2>1, <2>2
<1>9. Grows(w) /\ SessionsInv'
  <2>1. \A i \in 1 .. Len(caches) : caches'[i].items = caches[i].items
    BY <1>6
  <2> QED BY <1>3, <1>6, <1>7, <2>1, CacheGrows
<1>10. KeysReach'
  <2>1. ASSUME NEW d \in 1 .. Len(caches'), NEW l \in caches'[d].items
        PROVE  KeyKept(w, d, l)
    <3>1. CASE d = c /\ l = k
      BY <1>5, <1>6, <3>1 DEF KeyKept
    <3>2. CASE ~ (d = c /\ l = k)
      <4>1. ~ HasKey(w, d, l) /\ d \in 1 .. Len(caches) /\ l \in caches[d].items
        BY <1>1, <1>6, <2>1, <3>2 DEF HasKey
      <4>2. l \in Members(caches[d].order) => l \in Members(caches'[d].order)
        BY <1>5, <1>6, <4>1
      <4> QED BY <4>1, <4>2 DEF KeyKept
    <3> QED BY <3>1, <3>2
  <2> QED BY <1>8, <2>1, KeysAreKept
<1> QED BY <1>1, <1>3, <1>6, <1>8, <1>9, <1>10, SessionsStep

LEMMA MoveKeyKeeps == ASSUME Inv, NEW w \in Workers, MoveKey(w) PROVE Inv'
<1> DEFINE c == worker[w].cache
           k == worker[w].key
           o == caches[c].order
<1>1. worker[w] # Nobody /\ worker[w].at = "move"
  BY DEF MoveKey, At
<1>2. /\ worker[w] \in Task /\ c \in 1 .. Len(caches) /\ k \in Keys
      /\ worker[w].runner # 0 /\ Fits(worker[w].runner, worker[w].request)
  BY <1>1, HasCache DEF UsingCache, Holding, Inv, TasksInv, TaskInv
<1>3. /\ UNCHANGED <<sessions, lock, algorithms, runners, tasks>>
      /\ happened' \subseteq {"overlap", "saved_again", "broken"}
      /\ sessions' \in [Tokens -> Nat] /\ tasks' \in 0 .. MaxTasks
      /\ lock' \in Workers \cup {Nobody}
  BY DEF MoveKey, Break, algorithms, Inv, TypeOK
<1>4. o \in Seq(Keys)
  BY <1>2, CacheType DEF Inv
<1>5. ASSUME Break(w), UNCHANGED caches
      PROVE  Inv'
  <2>1. /\ UNCHANGED <<memory, fetched, order, runners, tasks>>
        /\ modules' \in [Requests -> Extents]
    BY <1>3, <1>5 DEF memory, algorithms, Inv, TypeOK
  <2> QED BY <1>1, <1>5, <2>1, TaskEnds DEF Break, Holding
<1>6. ASSUME k \in Members(o), caches' = [caches EXCEPT ![c].order = Without(o, k)],
             Move(w, "move_back")
      PROVE  Inv'
  <2>1. Without(o, k) \in Seq(Keys) /\ Members(o) \subseteq Members(Without(o, k)) \cup {k}
    BY <1>4, <1>6, MembersWithout
  <2>2. /\ caches' \in Seq(Cache) /\ Len(caches') = Len(caches) /\ Len(caches) \in Nat
        /\ caches'[c].items = caches[c].items /\ caches'[c].order = Without(o, k)
        /\ \A i \in 1 .. Len(caches) : i # c => caches'[i] = caches[i]
    BY <1>2, <1>6, <2>1, OrderChanges DEF Inv
  <2>3. /\ WorkerStep(w) /\ worker'[w] # Nobody /\ worker'[w].at = "move_back"
        /\ worker'[w].request = worker[w].request /\ worker'[w].runner = worker[w].runner
        /\ worker'[w].key = k /\ worker'[w].cache = c
    BY <1>1, <1>6, Moves DEF Inv, Places
  <2>4. TaskInv(w)'
    BY <1>2, <1>3, <2>2, <2>3 DEF TaskInv, UsingCache, Holding, Fetching, Fits
  <2>5. LockInv'
    BY <1>1, <1>3, <2>3, AfterLock DEF Holding
  <2>6. Grows(w) /\ SessionsInv'
    <3>1. \A i \in 1 .. Len(caches) : caches'[i].items = caches[i].items
      BY <2>2
    <3> QED BY <1>3, <2>2, <3>1, CacheGrows
  <2>7. KeysReach'
    <3>1. ASSUME NEW d \in 1 .. Len(caches'), NEW l \in caches'[d].items
          PROVE  KeyKept(w, d, l)
      <4>1. ~ HasKey(w, d, l) /\ d \in 1 .. Len(caches) /\ l \in caches[d].items
        BY <1>1, <2>2, <3>1 DEF HasKey
      <4>2. CASE d = c /\ l = k
        BY <2>3, <4>2 DEF KeyKept, HasKey
      <4>3. CASE ~ (d = c /\ l = k)
        <5>1. l \in Members(caches[d].order) => l \in Members(caches'[d].order)
          BY <2>1, <2>2, <4>1, <4>3
        <5> QED BY <4>1, <5>1 DEF KeyKept
      <4> QED BY <4>2, <4>3
    <3> QED BY <2>3, <3>1, KeysAreKept
  <2> QED BY <1>1, <1>3, <2>2, <2>3, <2>4, <2>5, <2>6, <2>7, SessionsStep
<1> QED BY <1>3, <1>5, <1>6 DEF MoveKey

-----------------------------------------------------------------------------
(* The specification *)

LEMMA InitInv == Init => Inv
<1> SUFFICES ASSUME Init PROVE Inv
  OBVIOUS
<1>1. caches \in Seq(Cache) /\ order \in Seq(Requests) /\ runners \in Seq(Runner) /\ Len(caches) = 0
  BY EmptySeq DEF Init
<1>2. TypeOK
  BY <1>1, BoundsAssumption DEF Init, TypeOK, Extents
<1>3. TasksInv /\ FetchedInv /\ RunnersReach /\ LockInv
  BY DEF Init, TasksInv, TaskInv, FetchedInv, RunnersReach, Cached, LockInv
<1>4. SessionsInv /\ KeysReach
  BY <1>1 DEF Init, SessionsInv, KeysReach
<1> QED BY <1>2, <1>3, <1>4 DEF Inv

LEMMA NextInv == ASSUME Inv, [Next]_vars PROVE Inv'
<1>1. CASE UNCHANGED vars
  BY <1>1 DEF vars, Inv, TypeOK, TasksInv, TaskInv, SessionsInv, FetchedInv, Fits, KeysReach,
              KeyInHand, RunnersReach, Cached, RunnerInHand, At, KeyFor, KeyOf, LockInv
<1>2. ASSUME NEW w \in Workers, NEW x \in Tokens, NEW q \in Requests,
             NEW n \in 0 .. Len(caches), Start(w, x, q, n)
      PROVE  Inv'
  BY <1>2, StartKeeps
<1>3. ASSUME NEW w \in Workers, SessionStep(w)
      PROVE  Inv'
  <2>1. ASSUME NEW k \in Keys, Save(w, k) \/ Remove(w, k) \/ Load(w, k)
        PROVE  Inv'
    BY <2>1, SaveKeeps, RemoveKeeps, LoadKeeps
  <2>2. ASSUME Pop(w) \/ Del(w) \/ Forget(w) \/ Store(w)
        PROVE  Inv'
    BY <2>2, PopKeeps, DelKeeps, ForgetKeeps, StoreKeeps
  <2>3. ASSUME AppendKey(w) \/ MoveKey(w) \/ MoveBack(w) \/ Get(w)
        PROVE  Inv'
    BY <2>3, KeyAppendsKeep, MoveKeyKeeps, GetKeeps
  <2> QED BY <1>3, <2>1, <2>2, <2>3 DEF SessionStep
<1>4. ASSUME NEW w \in Workers, FetchStep(w)
      PROVE  Inv'
  <2>1. ASSUME LookUp(w) \/ Touch(w) \/ Retouch(w) \/ Take(w) \/ Extract(w) \/ LoadRunner(w)
        PROVE  Inv'
    BY <2>1, LookUpKeeps, TouchKeeps, AppendsKeep, TakeKeeps, ExtractKeeps, LoadRunnerKeeps
  <2>2. ASSUME \/ NotFound(w) \/ NoDevice(w) \/ LoadFails(w)
               \/ Enter(w) \/ AppendRunner(w) \/ Limit(w) \/ Drop(w)
        PROVE  Inv'
    BY <2>2, EndsKeep, EnterKeeps, AppendsKeep, LimitKeeps, DropKeeps
  <2> QED BY <1>4, <2>1, <2>2 DEF FetchStep
<1>5. ASSUME NEW w \in Workers, RunnerStep(w)
      PROVE  Inv'
  BY <1>5, FlagsKeep, InitRunnerKeeps, EndsKeep DEF RunnerStep
<1> QED BY <1>1, <1>2, <1>3, <1>4, <1>5 DEF Next

LEMMA Invariance == Spec => []Inv
BY InitInv, NextInv, PTL DEF Spec

\* The structures keep their types: what a worker uses of a cache or of a runner has been
\* made, and the position of a thread in a method tells what it holds.
THEOREM TypeCorrect == Spec => []TypeOK
<1>1. Inv => TypeOK
  BY DEF Inv
<1> QED BY <1>1, Invariance, PTL

\* For every number of workers, and however their statements interleave: every item and
\* every runner stays where the eviction finds it, or a thread has it in hand, and the
\* lock is held only by a thread that will release it.
THEOREM NothingGetsStuck == Spec => []NothingIsStuck
<1>1. Inv => NothingIsStuck
  <2> SUFFICES ASSUME Inv PROVE NothingIsStuck
    OBVIOUS
  <2>1. lock # Nobody =>
          \E p \in {"pop", "del", "forget", "store", "append_key"} : At(lock, p)
    BY DEF Inv, LockInv, Holding, At
  <2> QED BY <2>1 DEF Inv, KeysReach, RunnersReach, NothingIsStuck
<1> QED BY <1>1, Invariance, PTL

\* Threads that share the cache of runners never run each other's algorithm, and a module
\* that was extracted in part never runs.
THEOREM RunnersFit == Spec => []RunnerFits
<1>1. Inv => RunnerFits
  BY DEF Inv, TasksInv, TaskInv, Fits, RunnerFits
<1> QED BY <1>1, Invariance, PTL

-----------------------------------------------------------------------------
(* One task at a time *)

Distinct(s) == \A i, j \in 1 .. Len(s) : s[i] = s[j] => i = j

Alone(w) == \A v \in Workers \ {w} : worker[v] = Nobody

\* The next four say for the only task t, or Nobody, how a limit and a structure stand.
SessionsExact(t) ==
  /\ IsFiniteSet(Active) /\ Cardinality(Active) <= MaxSessions
  /\ \A x, y \in Active : sessions[x] = sessions[y] => x = y
  /\ t # Nobody => Cardinality(Active \ {t.token}) < MaxSessions

\* What is in the cache of runners and not in the order.
Loose(t) ==
  IF t = Nobody THEN {}
  ELSE IF t.at \in {"retouch", "append"} THEN {t.request}
  ELSE IF t.at = "drop" THEN {t.victim} ELSE {}

RunnersExact(t) ==
  /\ IsFiniteSet(Cached) /\ Distinct(order)
  /\ Loose(t) \subseteq Cached /\ Members(order) = Cached \ Loose(t)
  /\ \/ Cardinality(Cached) <= MaxRunners
     \/ t # Nobody /\ t.at \in {"append", "limit", "drop"}
  /\ t # Nobody =>
       /\ t.at \in {"touch", "take"} => t.request \in Cached
       /\ t.at \in {"extract", "load", "enter"} => t.request \notin Cached
       /\ t.at \in {"init", "end_init"} => runners[t.runner].initializing
       /\ t.at \in UsingCache \cup {"run"} => ~ runners[t.runner].initializing

Using(t, c) == t # Nobody /\ t.at \in UsingCache /\ t.cache = c

\* items, keys: those of the cache in use and of its order.
InUse(items, keys, t) ==
  /\ t.at \in {"pop", "store", "move", "get"} => keys = items
  /\ t.at \in {"append_key", "move_back"} => keys = items \ {t.key}
  /\ t.at = "del" =>
       /\ keys \subseteq items /\ items \subseteq keys \cup {t.victim}
       /\ t.key # Nobody => t.victim \in items
  /\ t.at = "forget" =>
       /\ keys \ {t.victim} = items
       /\ t.key # Nobody => Cardinality(items) < MaxItems
  /\ t.at \in {"pop", "del", "forget", "store"} => t.key \notin items
  /\ t.at = "store" => Cardinality(items) < MaxItems

CacheExact(c, t) ==
  LET items == caches[c].items
      keys == Members(caches[c].order)
  IN  /\ Distinct(caches[c].order) /\ Cardinality(items) <= MaxItems
      /\ IF Using(t, c) THEN InUse(items, keys, t) ELSE keys = items

\* What of the cache in use holds although a key was saved twice.
Found(t) ==
  t # Nobody =>
    /\ t.at \notin UsingCache => t.key = Nobody
    /\ t.at = "pop" => caches[t.cache].items # {}
    /\ t.at = "forget" => t.victim \in Members(caches[t.cache].order)
    /\ t.at \in {"append_key", "move", "move_back", "get"} => t.key \in caches[t.cache].items

CachesExact(t) ==
  /\ \A c \in 1 .. Len(caches) : IsFiniteSet(caches[c].items)
  /\ "saved_again" \notin happened => \A c \in 1 .. Len(caches) : CacheExact(c, t)
  /\ Found(t)

Exact(t) == SessionsExact(t) /\ RunnersExact(t) /\ CachesExact(t)

Serial ==
  /\ "broken" \notin happened
  /\ \A w \in Workers : worker[w] # Nobody => Alone(w) /\ Exact(worker[w])
  /\ (\A w \in Workers : worker[w] = Nobody) => Exact(Nobody)

SerialInv == "overlap" \notin happened => Serial

\* What a step has to show: of w, whose task is the only one.
StaysExact(w) == "broken" \notin happened' /\ Exact(worker[w])'

-----------------------------------------------------------------------------
(* Sequences without repetition *)

LEMMA DistinctAppend ==
  ASSUME NEW S, NEW s \in Seq(S), NEW x \in S, Distinct(s), x \notin Members(s)
  PROVE  Distinct(Append(s, x)) /\ Members(Append(s, x)) = Members(s) \cup {x}
<1>1. /\ Len(Append(s, x)) = Len(s) + 1 /\ Len(s) \in Nat
      /\ \A i \in 1 .. Len(s) : Append(s, x)[i] = s[i]
      /\ Append(s, x)[Len(s) + 1] = x
  BY AppendProperties, LenProperties
<1>2. \A i \in 1 .. Len(Append(s, x)) : i \in 1 .. Len(s) \/ i = Len(s) + 1
  BY <1>1
<1>3. \A i \in 1 .. Len(s) : s[i] # x
  BY DEF Members
<1>4. Distinct(Append(s, x))
  BY <1>1, <1>2, <1>3 DEF Distinct
<1>5. Members(Append(s, x)) \subseteq Members(s) \cup {x}
  BY <1>1, <1>2 DEF Members
<1> QED BY <1>4, <1>5, MembersAppend

LEMMA DistinctTail ==
  ASSUME NEW S, NEW s \in Seq(S), s # << >>, Distinct(s)
  PROVE  /\ Distinct(Tail(s)) /\ Members(Tail(s)) = Members(s) \ {Head(s)}
         /\ Head(s) \in Members(s)
<1>1. /\ Head(s) = s[1] /\ Len(Tail(s)) = Len(s) - 1 /\ Len(s) \in Nat \ {0}
      /\ \A i \in 1 .. Len(Tail(s)) : Tail(s)[i] = s[i + 1]
  BY HeadTailProperties, EmptySeq
<1>2. 1 \in 1 .. Len(s) /\ \A i \in 1 .. Len(Tail(s)) : i + 1 \in 1 .. Len(s) /\ i + 1 # 1
  BY <1>1
<1>3. Distinct(Tail(s))
  <2>1. SUFFICES ASSUME NEW i \in 1 .. Len(Tail(s)), NEW j \in 1 .. Len(Tail(s)),
                        Tail(s)[i] = Tail(s)[j]
                 PROVE  i = j
    BY DEF Distinct
  <2>2. i + 1 = j + 1
    BY <1>1, <1>2, <2>1 DEF Distinct
  <2> QED BY <1>1, <2>2
<1>4. Head(s) \notin Members(Tail(s)) /\ Members(Tail(s)) \subseteq Members(s)
  BY <1>1, <1>2 DEF Members, Distinct
<1>5. Head(s) \in Members(s)
  BY <1>1, <1>2 DEF Members
<1> QED BY <1>3, <1>4, <1>5, MembersTail

LEMMA DistinctWithout ==
  ASSUME NEW S, NEW s \in Seq(S), NEW x \in Members(s), Distinct(s)
  PROVE  Distinct(Without(s, x)) /\ Members(Without(s, x)) = Members(s) \ {x}
<1> DEFINE i == CHOOSE j \in 1 .. Len(s) : s[j] = x /\ \A l \in 1 .. j - 1 : s[l] # x
           a == SubSeq(s, 1, i - 1)
           b == SubSeq(s, i + 1, Len(s))
           at(l) == IF l < i THEN l ELSE l + 1
<1>0. Without(s, x) = a \o b
  BY DEF Without
<1>1. i \in 1 .. Len(s) /\ s[i] = x /\ Len(s) \in Nat
  BY FirstOccurrence, LenProperties
<1> HIDE DEF i
<1>2. /\ a \in Seq(S) /\ Len(a) = i - 1
      /\ \A l \in 1 .. i - 1 : a[l] = s[l]
  BY <1>1, SubSeqProperties
<1>3. /\ b \in Seq(S) /\ Len(b) = Len(s) - i
      /\ \A l \in 1 .. Len(s) - i : b[l] = s[i + l]
  BY <1>1, SubSeqProperties
<1> HIDE DEF a, b
<1>4. /\ Len(a \o b) = Len(a) + Len(b)
      /\ \A l \in 1 .. Len(a) + Len(b) : (a \o b)[l] = IF l <= Len(a) THEN a[l] ELSE b[l - Len(a)]
  BY <1>2, <1>3, ConcatProperties
<1>5. Len(a \o b) = Len(s) - 1
  BY <1>1, <1>2, <1>3, <1>4
<1>6. ASSUME NEW l \in 1 .. Len(a \o b)
      PROVE  (a \o b)[l] = s[at(l)] /\ at(l) \in 1 .. Len(s) /\ at(l) # i
  <2>1. CASE l < i
    <3>1. l \in 1 .. i - 1 /\ l <= Len(a) /\ l \in 1 .. Len(a) + Len(b) /\ l \in 1 .. Len(s) /\ l # i
      BY <1>1, <1>2, <1>3, <1>5, <2>1
    <3> QED BY <1>2, <1>4, <2>1, <3>1
  <2>2. CASE ~ (l < i)
    <3>1. /\ ~ (l <= Len(a)) /\ l \in 1 .. Len(a) + Len(b) /\ l - Len(a) \in 1 .. Len(s) - i
          /\ i + (l - Len(a)) = l + 1 /\ l + 1 \in 1 .. Len(s) /\ l + 1 # i
      BY <1>1, <1>2, <1>3, <1>5, <2>2
    <3> QED BY <1>3, <1>4, <2>2, <3>1
  <2> QED BY <2>1, <2>2
<1>7. \A l, m \in 1 .. Len(a \o b) : at(l) = at(m) => l = m
  BY <1>1, <1>5
<1> HIDE DEF at
<1>8. Distinct(a \o b)
  BY <1>6, <1>7 DEF Distinct
<1>9. ASSUME NEW l \in 1 .. Len(a \o b)
      PROVE  (a \o b)[l] # x /\ (a \o b)[l] \in Members(s)
  <2>1. s[at(l)] # s[i]
    BY <1>1, <1>6 DEF Distinct
  <2> QED BY <1>1, <1>6, <2>1 DEF Members
<1>10. x \notin Members(a \o b) /\ Members(a \o b) \subseteq Members(s)
  BY <1>9 DEF Members
<1> QED BY <1>0, <1>8, <1>10, MembersWithout

-----------------------------------------------------------------------------
(* What a step leaves exact *)

LEMMA SessionsFrame ==
  ASSUME NEW w \in Workers, SessionsExact(worker[w]), UNCHANGED sessions,
         worker'[w] = Nobody \/ (worker[w] # Nobody /\ worker'[w].token = worker[w].token)
  PROVE  SessionsExact(worker[w])'
BY DEF SessionsExact, Active

LEMMA RunnersFrame ==
  ASSUME NEW w \in Workers, RunnersExact(worker[w]), UNCHANGED <<fetched, order, runners>>,
         worker[w] # Nobody, worker[w].at \in UsingCache \cup {"run"},
         \/ worker'[w] = Nobody
         \/ worker'[w].at \in UsingCache \cup {"run"} /\ worker'[w].runner = worker[w].runner
  PROVE  RunnersExact(worker[w])'
<1>1. Loose(worker[w]) = {} /\ Loose(worker'[w]) = {}
  BY DEF Loose, UsingCache, Holding
<1>2. Cached' = Cached
  BY DEF Cached
<1>3. /\ IsFiniteSet(Cached) /\ Distinct(order) /\ Members(order) = Cached
      /\ Cardinality(Cached) <= MaxRunners /\ ~ runners[worker[w].runner].initializing
  BY <1>1 DEF RunnersExact, UsingCache, Holding
<1>4. worker'[w] # Nobody =>
        worker'[w].at \in UsingCache \cup {"run"} /\ worker'[w].runner = worker[w].runner
  OBVIOUS
<1> QED BY <1>1, <1>2, <1>3, <1>4 DEF RunnersExact, UsingCache, Holding

LEMMA CachesFrame ==
  ASSUME NEW w \in Workers, CachesExact(worker[w]), UNCHANGED caches,
         happened' = happened \/ happened' = happened \cup {"overlap"},
         worker[w] = Nobody \/ worker[w].at \notin UsingCache,
         \/ worker'[w] = Nobody
         \/ worker'[w].at \notin UsingCache /\ worker'[w].key = Nobody
  PROVE  CachesExact(worker[w])'
<1>1. \A c \in 1 .. Len(caches) : ~ Using(worker[w], c) /\ ~ Using(worker'[w], c)
  BY DEF Using
<1>2. "saved_again" \notin happened' => "saved_again" \notin happened
  OBVIOUS
<1>3. Found(worker[w])'
  BY DEF Found, UsingCache, Holding
<1>4. \A c \in 1 .. Len(caches) : CacheExact(c, worker[w]) => CacheExact(c, worker[w])'
  BY <1>1 DEF CacheExact
<1> QED BY <1>2, <1>3, <1>4 DEF CachesExact

\* A step on cache c, the only one in use.
LEMMA OneCache ==
  ASSUME NEW w \in Workers, NEW c \in 1 .. Len(caches), CachesExact(worker[w]),
         worker[w] # Nobody, Using(worker[w], worker[w].cache) => worker[w].cache = c,
         Using(worker'[w], worker'[w].cache) => worker'[w].cache = c,
         Len(caches') = Len(caches), \A i \in 1 .. Len(caches) : i # c => caches'[i] = caches[i],
         IsFiniteSet(caches'[c].items), Found(worker[w])',
         "saved_again" \notin happened' =>
           "saved_again" \notin happened /\ CacheExact(c, worker[w])'
  PROVE  CachesExact(worker[w])'
<1>1. \A i \in 1 .. Len(caches) : i # c => ~ Using(worker[w], i) /\ ~ Using(worker'[w], i)
  BY DEF Using
<1>2. ASSUME NEW i \in 1 .. Len(caches), i # c, CacheExact(i, worker[w])
      PROVE  CacheExact(i, worker[w])'
  BY <1>1, <1>2 DEF CacheExact
<1>3. \A i \in 1 .. Len(caches') : IsFiniteSet(caches'[i].items)
  BY DEF CachesExact
<1>4. "saved_again" \notin happened' =>
        \A i \in 1 .. Len(caches') : CacheExact(i, worker[w])'
  BY <1>2 DEF CachesExact
<1> QED BY <1>3, <1>4 DEF CachesExact

\* A step of the use of a cache.
LEMMA SessionExact ==
  ASSUME NEW w \in Workers, Exact(worker[w]), "broken" \notin happened',
         worker[w] # Nobody, worker[w].at \in UsingCache \cup {"run"},
         UNCHANGED <<sessions, algorithms>>,
         \/ worker'[w] = Nobody
         \/ /\ worker'[w].at \in UsingCache \cup {"run"}
            /\ worker'[w].token = worker[w].token /\ worker'[w].runner = worker[w].runner,
         CachesExact(worker[w])'
  PROVE  StaysExact(w)
<1>1. SessionsExact(worker[w])'
  BY SessionsFrame DEF Exact
<1>2. RunnersExact(worker[w])'
  BY RunnersFrame DEF Exact, algorithms
<1> QED BY <1>1, <1>2 DEF StaysExact, Exact

\* A step of the cache of runners or of a runner.
LEMMA FetchExact ==
  ASSUME NEW w \in Workers, Exact(worker[w]), "broken" \notin happened,
         worker[w] # Nobody, worker[w].at \notin UsingCache,
         UNCHANGED <<memory, happened>>,
         \/ worker'[w] = Nobody
         \/ /\ worker'[w].at \notin UsingCache
            /\ worker'[w].token = worker[w].token /\ worker'[w].key = worker[w].key,
         RunnersExact(worker[w])'
  PROVE  StaysExact(w)
<1>1. SessionsExact(worker[w])'
  BY SessionsFrame DEF Exact, memory
<1>2. worker[w].key = Nobody
  BY DEF Exact, CachesExact, Found
<1>3. CachesExact(worker[w])'
  BY <1>2, CachesFrame DEF Exact, memory
<1> QED BY <1>1, <1>3 DEF StaysExact, Exact

\* The task ends where nothing is in hand.
LEMMA EndIsExact ==
  ASSUME TypeOK, NEW w \in Workers, Exact(worker[w]), "broken" \notin happened, worker[w] # Nobody,
         worker[w].at \notin UsingCache \cup {"retouch", "append", "limit", "drop"},
         worker' = [worker EXCEPT ![w] = Nobody],
         UNCHANGED <<memory, fetched, order, happened>>
  PROVE  StaysExact(w)
<1>1. worker'[w] = Nobody
  BY Dies
<1>2. Loose(worker[w]) = {} /\ Loose(worker'[w]) = {}
  BY <1>1 DEF Loose
<1>3. RunnersExact(worker[w])'
  BY <1>1, <1>2 DEF Exact, RunnersExact, Cached
<1> QED BY <1>1, <1>3, FetchExact

\* With nobody else about, an item is in the order unless it is in the hand of the thread.
LEMMA ItemsAreInOrder ==
  ASSUME Inv, NEW w \in Workers, Alone(w), NEW c \in 1 .. Len(caches),
         worker[w] = Nobody \/ worker[w].at \notin {"move_back", "append_key", "del"}
  PROVE  caches[c].items \subseteq Members(caches[c].order)
BY DEF Inv, KeysReach, KeyInHand, Alone

-----------------------------------------------------------------------------
(* Steps of sessions, one task at a time *)

LEMMA PopExact ==
  ASSUME Inv, NEW w \in Workers, Alone(w), Exact(worker[w]), "broken" \notin happened, Pop(w)
  PROVE  StaysExact(w)
<1>1. worker[w] # Nobody /\ worker[w].at = "pop"
  BY DEF Pop, At
<1>2. worker[w] \in Task /\ worker[w].cache \in 1 .. Len(caches)
  BY <1>1, HasCache DEF UsingCache, Holding
<1> PICK c \in 1 .. Len(caches) : c = worker[w].cache
  BY <1>2
<1> PICK o \in Seq(Keys) : o = caches[c].order
  BY CacheType DEF Inv
<1>3. caches[c].items \subseteq Members(o)
  BY <1>1, ItemsAreInOrder
<1>4. o # << >>
  <2>1. caches[c].items # {}
    BY <1>1 DEF Exact, CachesExact, Found
  <2> QED BY <1>3, <2>1 DEF Members
<1>5. /\ UNCHANGED <<happened, sessions, algorithms>>
      /\ caches' = [caches EXCEPT ![c].order = Tail(o)]
      /\ worker' = [worker EXCEPT ![w].at = "del", ![w].victim = Head(o)]
  BY <1>4 DEF Pop
<1> DEFINE t == [worker[w] EXCEPT !.at = "del", !.victim = Head(o)]
<1>6. Head(o) \in Keys /\ Tail(o) \in Seq(Keys)
  BY <1>4, MembersTail
<1>7. /\ t \in Task /\ t.at = "del" /\ t.victim = Head(o) /\ t.cache = c /\ t.key = worker[w].key
      /\ t.token = worker[w].token /\ t.runner = worker[w].runner
  BY <1>2, <1>6 DEF Task, Places
<1>8. worker' = [worker EXCEPT ![w] = t]
  BY <1>5 DEF Inv, TypeOK
<1> HIDE DEF t
<1>9. worker'[w] = t /\ worker'[w] # Nobody
  BY <1>7, <1>8, Becomes DEF Inv
<1>10. /\ Len(caches') = Len(caches)
       /\ caches'[c].items = caches[c].items /\ caches'[c].order = Tail(o)
       /\ \A i \in 1 .. Len(caches) : i # c => caches'[i] = caches[i]
  BY <1>5, <1>6, OrderChanges DEF Inv
<1>11. "saved_again" \notin happened' =>
         "saved_again" \notin happened /\ CacheExact(c, worker[w])'
  <2> SUFFICES ASSUME "saved_again" \notin happened
               PROVE  CacheExact(c, worker[w])'
    BY <1>5
  <2>1. CacheExact(c, worker[w])
    BY DEF Exact, CachesExact
  <2>2. /\ Distinct(o) /\ Cardinality(caches[c].items) <= MaxItems
        /\ Members(o) = caches[c].items /\ worker[w].key \notin caches[c].items
    BY <1>1, <2>1 DEF CacheExact, Using, InUse, UsingCache, Holding
  <2>3. /\ Distinct(Tail(o)) /\ Members(Tail(o)) = Members(o) \ {Head(o)}
        /\ Head(o) \in Members(o)
    BY <1>4, <2>2, DistinctTail
  <2>4. InUse(caches[c].items, Members(Tail(o)), t)
    BY <1>7, <2>2, <2>3 DEF InUse
  <2>5. Using(worker'[w], c)
    BY <1>7, <1>9 DEF Using, UsingCache, Holding
  <2> QED BY <1>9, <1>10, <2>2, <2>3, <2>4, <2>5 DEF CacheExact
<1>12. Found(worker[w])'
  BY <1>7, <1>9 DEF Found, UsingCache, Holding
<1>13. IsFiniteSet(caches'[c].items)
  BY <1>10 DEF Exact, CachesExact
<1>14. CachesExact(worker[w])'
  BY <1>1, <1>7, <1>9, <1>10, <1>11, <1>12, <1>13, OneCache DEF Exact
<1> QED BY <1>1, <1>5, <1>7, <1>9, <1>14, SessionExact DEF UsingCache, Holding

\* What AfterRemoval makes of the thread.
LEMMA AfterRemovalIs ==
  ASSUME Inv, NEW w \in Workers, worker[w] # Nobody, AfterRemoval(w)
  PROVE  /\ worker'[w] # Nobody
         /\ worker'[w].token = worker[w].token /\ worker'[w].runner = worker[w].runner
         /\ \/ worker'[w].at = "run" /\ worker'[w].key = Nobody
            \/ /\ worker'[w].at = "store" /\ worker[w].key # Nobody
               /\ worker'[w].key = worker[w].key /\ worker'[w].cache = worker[w].cache
<1>1. CASE Done(w)
  BY <1>1, IsDone DEF Inv
<1>2. CASE Move(w, "store") /\ worker[w].key # Nobody
  <2>1. "store" \in Places
    BY DEF Places
  <2> QED BY <1>2, <2>1, Moves DEF Inv
<1> QED BY <1>1, <1>2 DEF AfterRemoval

LEMMA DelExact ==
  ASSUME Inv, NEW w \in Workers, Alone(w), Exact(worker[w]), "broken" \notin happened, Del(w)
  PROVE  StaysExact(w)
<1>1. worker[w] # Nobody /\ worker[w].at = "del" /\ UNCHANGED <<happened, sessions, algorithms>>
  BY DEF Del, At
<1>2. /\ worker[w] \in Task /\ worker[w].cache \in 1 .. Len(caches)
      /\ worker[w].victim \in Keys
  BY <1>1, HasCache DEF UsingCache, Holding, Inv, TasksInv, TaskInv
<1> PICK c \in 1 .. Len(caches) : c = worker[w].cache
  BY <1>2
<1> PICK k \in Keys : k = worker[w].victim
  BY <1>2
<1> PICK I \in SUBSET Keys : I = caches[c].items
  BY CacheType DEF Inv
<1>3. /\ Len(caches') = Len(caches)
      /\ caches'[c].items = I \ {k} /\ caches'[c].order = caches[c].order
      /\ \A i \in 1 .. Len(caches) : i # c => caches'[i] = caches[i]
  <2>1. caches' = [caches EXCEPT ![c].items = I \ {k}]
    BY DEF Del
  <2> QED BY <2>1, ItemsChange DEF Inv
<1>4. /\ worker'[w] # Nobody
      /\ worker'[w].token = worker[w].token /\ worker'[w].runner = worker[w].runner
      /\ \/ /\ worker'[w].at = "forget" /\ worker'[w].key = worker[w].key
            /\ worker'[w].cache = c /\ worker'[w].victim = k
            /\ k \in I /\ k \in Members(caches[c].order)
         \/ /\ ~ (k \in I /\ k \in Members(caches[c].order))
            /\ worker'[w].at = "run" /\ worker'[w].key = Nobody
         \/ /\ ~ (k \in I /\ k \in Members(caches[c].order))
            /\ worker'[w].at = "store" /\ worker'[w].key = worker[w].key
            /\ worker'[w].cache = c /\ worker[w].key # Nobody
  <2>1. CASE k \in I /\ k \in Members(caches[c].order)
    <3>1. Move(w, "forget") /\ "forget" \in Places
      BY <2>1 DEF Del, Places
    <3> QED BY <1>1, <2>1, <3>1, Moves DEF Inv
  <2>2. CASE ~ (k \in I /\ k \in Members(caches[c].order))
    <3>1. AfterRemoval(w)
      BY <2>2 DEF Del
    <3> QED BY <1>1, <2>2, <3>1, AfterRemovalIs
  <2> QED BY <2>1, <2>2
<1>5. IsFiniteSet(I) /\ IsFiniteSet(I \ {k}) /\ Cardinality(I) \in Nat
      /\ Cardinality(I \ {k}) = IF k \in I THEN Cardinality(I) - 1 ELSE Cardinality(I)
  BY FS_RemoveElement, FS_CardinalityType DEF Exact, CachesExact
<1>6. "saved_again" \notin happened' =>
         "saved_again" \notin happened /\ CacheExact(c, worker[w])'
  <2> SUFFICES ASSUME "saved_again" \notin happened
               PROVE  CacheExact(c, worker[w])'
    BY <1>1
  <2>1. CacheExact(c, worker[w])
    BY DEF Exact, CachesExact
  <2> DEFINE keys == Members(caches[c].order)
  <2>2. /\ Distinct(caches[c].order) /\ Cardinality(I) <= MaxItems
        /\ keys \subseteq I /\ I \subseteq keys \cup {k} /\ worker[w].key \notin I
        /\ worker[w].key # Nobody => k \in I
    BY <1>1, <2>1 DEF CacheExact, Using, InUse, UsingCache, Holding
  <2>3. MaxItems \in Nat
    BY BoundsAssumption
  <2>4. Cardinality(I \ {k}) <= MaxItems /\ (k \in I => Cardinality(I \ {k}) < MaxItems)
    BY <1>5, <2>2, <2>3
  <2> HIDE DEF keys
  <2>5. IF Using(worker'[w], c) THEN InUse(I \ {k}, keys, worker'[w]) ELSE keys = I \ {k}
    <3>1. CASE worker'[w].at = "forget"
      <4>1. Using(worker'[w], c)
        BY <1>4, <3>1 DEF Using, UsingCache, Holding
      <4>2. keys \ {k} = I \ {k}
        BY <2>2
      <4> QED BY <1>4, <2>2, <2>4, <3>1, <4>1, <4>2 DEF InUse
    <3>2. CASE worker'[w].at # "forget"
      <4>1. keys = I \ {k}
        BY <1>4, <2>2, <3>2 DEF keys
      <4> QED BY <1>4, <2>2, <2>4, <3>2, <4>1 DEF InUse, Using, UsingCache, Holding
    <3> QED BY <3>1, <3>2
  <2> QED BY <1>3, <2>2, <2>4, <2>5 DEF CacheExact, keys
<1>7. Found(worker[w])'
  BY <1>3, <1>4 DEF Found, UsingCache, Holding
<1>8. CachesExact(worker[w])'
  BY <1>1, <1>3, <1>4, <1>5, <1>6, <1>7, OneCache DEF Exact, Using, UsingCache, Holding
<1> QED BY <1>1, <1>4, <1>8, SessionExact DEF UsingCache, Holding

LEMMA ForgetExact ==
  ASSUME Inv, NEW w \in Workers, Alone(w), Exact(worker[w]), "broken" \notin happened, Forget(w)
  PROVE  StaysExact(w)
<1>1. worker[w] # Nobody /\ worker[w].at = "forget" /\ UNCHANGED <<sessions, algorithms>>
  BY DEF Forget, At
<1>2. /\ worker[w] \in Task /\ worker[w].cache \in 1 .. Len(caches)
      /\ worker[w].victim \in Keys /\ worker[w].victim \notin caches[worker[w].cache].items
  BY <1>1, HasCache DEF UsingCache, Holding, Inv, TasksInv, TaskInv
<1> PICK c \in 1 .. Len(caches) : c = worker[w].cache
  BY <1>2
<1> PICK k \in Keys : k = worker[w].victim
  BY <1>2
<1> PICK o \in Seq(Keys) : o = caches[c].order
  BY CacheType DEF Inv
<1>3. k \in Members(o) /\ k \notin caches[c].items
  BY <1>1, <1>2 DEF Exact, CachesExact, Found
<1>4. /\ happened' = happened /\ AfterRemoval(w)
      /\ caches' = [caches EXCEPT ![c].order = Without(o, k)]
  BY <1>3 DEF Forget
<1>5. Without(o, k) \in Seq(Keys)
  BY <1>3, MembersWithout
<1>6. /\ Len(caches') = Len(caches)
      /\ caches'[c].items = caches[c].items /\ caches'[c].order = Without(o, k)
      /\ \A i \in 1 .. Len(caches) : i # c => caches'[i] = caches[i]
  BY <1>4, <1>5, OrderChanges DEF Inv
<1>7. /\ worker'[w] # Nobody
      /\ worker'[w].token = worker[w].token /\ worker'[w].runner = worker[w].runner
      /\ \/ worker'[w].at = "run" /\ worker'[w].key = Nobody
         \/ /\ worker'[w].at = "store" /\ worker'[w].key = worker[w].key
            /\ worker'[w].cache = c /\ worker[w].key # Nobody
  BY <1>1, <1>4, AfterRemovalIs
<1>8. "saved_again" \notin happened' =>
         "saved_again" \notin happened /\ CacheExact(c, worker[w])'
  <2> SUFFICES ASSUME "saved_again" \notin happened
               PROVE  CacheExact(c, worker[w])'
    BY <1>4
  <2>1. CacheExact(c, worker[w])
    BY DEF Exact, CachesExact
  <2>2. /\ Distinct(o) /\ Cardinality(caches[c].items) <= MaxItems
        /\ Members(o) \ {k} = caches[c].items /\ worker[w].key \notin caches[c].items
        /\ worker[w].key # Nobody => Cardinality(caches[c].items) < MaxItems
    BY <1>1, <2>1 DEF CacheExact, Using, InUse, UsingCache, Holding
  <2>3. Distinct(Without(o, k)) /\ Members(Without(o, k)) = caches[c].items
    BY <1>3, <2>2, DistinctWithout
  <2>4. IF Using(worker'[w], c) THEN InUse(caches[c].items, caches[c].items, worker'[w]) ELSE TRUE
    BY <1>7, <2>2 DEF InUse, Using, UsingCache, Holding
  <2> QED BY <1>6, <2>2, <2>3, <2>4 DEF CacheExact
<1>9. Found(worker[w])'
  BY <1>7 DEF Found, UsingCache, Holding
<1>10. IsFiniteSet(caches'[c].items)
  BY <1>6 DEF Exact, CachesExact
<1>11. CachesExact(worker[w])'
  BY <1>1, <1>6, <1>7, <1>8, <1>9, <1>10, OneCache DEF Exact, Using, UsingCache, Holding
<1> QED BY <1>1, <1>4, <1>7, <1>11, SessionExact DEF UsingCache, Holding

LEMMA StoreExact ==
  ASSUME Inv, NEW w \in Workers, Alone(w), Exact(worker[w]), "broken" \notin happened, Store(w)
  PROVE  StaysExact(w)
<1>1. worker[w] # Nobody /\ worker[w].at = "store" /\ UNCHANGED <<happened, sessions, algorithms>>
  BY DEF Store, At
<1>2. worker[w] \in Task /\ worker[w].cache \in 1 .. Len(caches) /\ worker[w].key \in Keys
  BY <1>1, HasCache DEF UsingCache, Holding, Inv, TasksInv, TaskInv
<1> PICK c \in 1 .. Len(caches) : c = worker[w].cache
  BY <1>2
<1> PICK k \in Keys : k = worker[w].key
  BY <1>2
<1> PICK I \in SUBSET Keys : I = caches[c].items
  BY CacheType DEF Inv
<1>3. /\ Len(caches') = Len(caches)
      /\ caches'[c].items = I \cup {k} /\ caches'[c].order = caches[c].order
      /\ \A i \in 1 .. Len(caches) : i # c => caches'[i] = caches[i]
  <2>1. caches' = [caches EXCEPT ![c].items = I \cup {k}]
    BY DEF Store
  <2> QED BY <2>1, ItemsChange DEF Inv
<1>4. /\ worker'[w] # Nobody /\ worker'[w].at = "append_key"
      /\ worker'[w].token = worker[w].token /\ worker'[w].runner = worker[w].runner
      /\ worker'[w].key = k /\ worker'[w].cache = c
  BY <1>1, Moves DEF Store, Places, Inv
<1>5. /\ IsFiniteSet(I \cup {k}) /\ Cardinality(I) \in Nat
      /\ k \notin I => Cardinality(I \cup {k}) = Cardinality(I) + 1
  BY FS_AddElement, FS_CardinalityType DEF Exact, CachesExact
<1>6. "saved_again" \notin happened' =>
         "saved_again" \notin happened /\ CacheExact(c, worker[w])'
  <2> SUFFICES ASSUME "saved_again" \notin happened
               PROVE  CacheExact(c, worker[w])'
    BY <1>1
  <2>1. CacheExact(c, worker[w])
    BY DEF Exact, CachesExact
  <2>2. /\ Distinct(caches[c].order) /\ Members(caches[c].order) = I
        /\ k \notin I /\ Cardinality(I) < MaxItems
    BY <1>1, <2>1 DEF CacheExact, Using, InUse, UsingCache, Holding
  <2>3. MaxItems \in Nat
    BY BoundsAssumption
  <2>4. Cardinality(I \cup {k}) <= MaxItems
    BY <1>5, <2>2, <2>3
  <2>5. InUse(I \cup {k}, I, worker'[w])
    BY <1>4, <2>2 DEF InUse
  <2> QED BY <1>3, <1>4, <2>2, <2>4, <2>5 DEF CacheExact, Using, UsingCache, Holding
<1>7. Found(worker[w])'
  BY <1>3, <1>4 DEF Found, UsingCache, Holding
<1>8. CachesExact(worker[w])'
  BY <1>1, <1>3, <1>4, <1>5, <1>6, <1>7, OneCache DEF Exact
<1> QED BY <1>1, <1>4, <1>8, SessionExact DEF UsingCache, Holding

\* AppendKey and MoveBack.
LEMMA KeyAppendsExact ==
  ASSUME Inv, NEW w \in Workers, Alone(w), Exact(worker[w]), "broken" \notin happened,
         AppendKey(w) \/ MoveBack(w)
  PROVE  StaysExact(w)
<1>1. /\ worker[w] # Nobody /\ worker[w].at \in {"append_key", "move_back"}
      /\ UNCHANGED <<happened, sessions, algorithms>>
  BY DEF AppendKey, MoveBack, At
<1>2. worker[w] \in Task /\ worker[w].cache \in 1 .. Len(caches) /\ worker[w].key \in Keys
  BY <1>1, HasCache DEF UsingCache, Holding, Inv, TasksInv, TaskInv
<1> PICK c \in 1 .. Len(caches) : c = worker[w].cache
  BY <1>2
<1> PICK k \in Keys : k = worker[w].key
  BY <1>2
<1> PICK o \in Seq(Keys) : o = caches[c].order
  BY CacheType DEF Inv
<1>3. /\ Len(caches') = Len(caches)
      /\ caches'[c].items = caches[c].items /\ caches'[c].order = Append(o, k)
      /\ \A i \in 1 .. Len(caches) : i # c => caches'[i] = caches[i]
  <2>1. caches' = [caches EXCEPT ![c].order = Append(o, k)] /\ Append(o, k) \in Seq(Keys)
    BY MembersAppend DEF AppendKey, MoveBack
  <2> QED BY <2>1, OrderChanges DEF Inv
<1>4. /\ worker'[w] # Nobody
      /\ worker'[w].token = worker[w].token /\ worker'[w].runner = worker[w].runner
      /\ \/ worker'[w].at = "run" /\ worker'[w].key = Nobody
         \/ worker'[w].at = "get" /\ worker'[w].key = k /\ worker'[w].cache = c
  <2>1. CASE Done(w)
    BY <1>1, <2>1, IsDone DEF Inv
  <2>2. CASE Move(w, "get")
    BY <1>1, <2>2, Moves DEF Inv, Places
  <2> QED BY <2>1, <2>2 DEF AppendKey, MoveBack
<1>5. k \in caches[c].items
  BY <1>1 DEF Exact, CachesExact, Found
<1>6. "saved_again" \notin happened' =>
         "saved_again" \notin happened /\ CacheExact(c, worker[w])'
  <2> SUFFICES ASSUME "saved_again" \notin happened
               PROVE  CacheExact(c, worker[w])'
    BY <1>1
  <2>1. CacheExact(c, worker[w])
    BY DEF Exact, CachesExact
  <2>2. /\ Distinct(o) /\ Cardinality(caches[c].items) <= MaxItems
        /\ Members(o) = caches[c].items \ {k}
    BY <1>1, <2>1 DEF CacheExact, Using, InUse, UsingCache, Holding
  <2>3. k \notin Members(o)
    BY <2>2
  <2>4. Distinct(Append(o, k)) /\ Members(Append(o, k)) = Members(o) \cup {k}
    BY <2>2, <2>3, DistinctAppend
  <2>5. Members(Append(o, k)) = caches[c].items
    BY <1>5, <2>2, <2>4
  <2>6. Using(worker'[w], c) => InUse(caches[c].items, caches[c].items, worker'[w])
    BY <1>4 DEF InUse, Using, UsingCache, Holding
  <2> QED BY <1>3, <2>2, <2>4, <2>5, <2>6 DEF CacheExact
<1>7. Found(worker[w])'
  BY <1>3, <1>4, <1>5 DEF Found, UsingCache, Holding
<1>8. IsFiniteSet(caches'[c].items)
  BY <1>3 DEF Exact, CachesExact
<1>9. CachesExact(worker[w])'
  BY <1>1, <1>3, <1>4, <1>6, <1>7, <1>8, OneCache DEF Exact, Using, UsingCache, Holding
<1> QED BY <1>1, <1>4, <1>9, SessionExact DEF UsingCache, Holding

LEMMA MoveKeyExact ==
  ASSUME Inv, NEW w \in Workers, Alone(w), Exact(worker[w]), "broken" \notin happened, MoveKey(w)
  PROVE  StaysExact(w)
<1>1. worker[w] # Nobody /\ worker[w].at = "move" /\ UNCHANGED <<sessions, algorithms>>
  BY DEF MoveKey, At
<1>2. worker[w] \in Task /\ worker[w].cache \in 1 .. Len(caches) /\ worker[w].key \in Keys
  BY <1>1, HasCache DEF UsingCache, Holding, Inv, TasksInv, TaskInv
<1> PICK c \in 1 .. Len(caches) : c = worker[w].cache
  BY <1>2
<1> PICK k \in Keys : k = worker[w].key
  BY <1>2
<1> PICK o \in Seq(Keys) : o = caches[c].order
  BY CacheType DEF Inv
<1>3. k \in caches[c].items
  BY <1>1 DEF Exact, CachesExact, Found
<1>4. k \in Members(o)
  BY <1>1, <1>3, ItemsAreInOrder
<1>5. /\ happened' = happened /\ Move(w, "move_back")
      /\ caches' = [caches EXCEPT ![c].order = Without(o, k)]
  BY <1>4 DEF MoveKey
<1>6. /\ Len(caches') = Len(caches)
      /\ caches'[c].items = caches[c].items /\ caches'[c].order = Without(o, k)
      /\ \A i \in 1 .. Len(caches) : i # c => caches'[i] = caches[i]
  <2>1. Without(o, k) \in Seq(Keys)
    BY <1>4, MembersWithout
  <2> QED BY <1>5, <2>1, OrderChanges DEF Inv
<1>7. /\ worker'[w] # Nobody /\ worker'[w].at = "move_back"
      /\ worker'[w].token = worker[w].token /\ worker'[w].runner = worker[w].runner
      /\ worker'[w].key = k /\ worker'[w].cache = c
  BY <1>1, <1>5, Moves DEF Places, Inv
<1>8. "saved_again" \notin happened' =>
         "saved_again" \notin happened /\ CacheExact(c, worker[w])'
  <2> SUFFICES ASSUME "saved_again" \notin happened
               PROVE  CacheExact(c, worker[w])'
    BY <1>5
  <2>1. CacheExact(c, worker[w])
    BY DEF Exact, CachesExact
  <2>2. /\ Distinct(o) /\ Cardinality(caches[c].items) <= MaxItems
        /\ Members(o) = caches[c].items
    BY <1>1, <2>1 DEF CacheExact, Using, InUse, UsingCache, Holding
  <2>3. Distinct(Without(o, k)) /\ Members(Without(o, k)) = Members(o) \ {k}
    BY <1>4, <2>2, DistinctWithout
  <2>4. InUse(caches[c].items, Members(Without(o, k)), worker'[w])
    BY <1>7, <2>2, <2>3 DEF InUse
  <2> QED BY <1>6, <1>7, <2>2, <2>3, <2>4 DEF CacheExact, Using, UsingCache, Holding
<1>9. Found(worker[w])'
  BY <1>3, <1>6, <1>7 DEF Found, UsingCache, Holding
<1>10. IsFiniteSet(caches'[c].items)
  BY <1>6 DEF Exact, CachesExact
<1>11. CachesExact(worker[w])'
  BY <1>1, <1>6, <1>7, <1>8, <1>9, <1>10, OneCache DEF Exact
<1> QED BY <1>1, <1>5, <1>7, <1>11, SessionExact DEF UsingCache, Holding

\* A step that changes no cache, and leaves the order of the one in use as it should be.
LEMMA CachesStayExact ==
  ASSUME Inv, NEW w \in Workers, worker[w] # Nobody, Exact(worker[w]),
         worker[w].at \in {"run", "get"}, UNCHANGED <<caches, happened>>, Found(worker[w])',
         \/ worker'[w] = Nobody
         \/ worker'[w].at = "run"
         \/ worker'[w].at \in {"move", "del"} /\ worker'[w].key \in Keys \cup {Nobody}
            /\ (worker'[w].at = "del" => worker'[w].key = Nobody)
  PROVE  CachesExact(worker[w])'
<1>1. ASSUME NEW c \in 1 .. Len(caches), CacheExact(c, worker[w])
      PROVE  CacheExact(c, worker[w])'
  <2>1. /\ Distinct(caches[c].order) /\ Cardinality(caches[c].items) <= MaxItems
        /\ Members(caches[c].order) = caches[c].items
    BY <1>1 DEF CacheExact, Using, InUse, UsingCache, Holding
  <2>2. Using(worker'[w], c) => InUse(caches[c].items, caches[c].items, worker'[w])
    <3>1. Nobody \notin caches[c].items
      BY CacheType, NobodyAssumption DEF Inv
    <3> QED BY <3>1 DEF InUse, Using, UsingCache, Holding
  <2> QED BY <2>1, <2>2 DEF CacheExact
<1> QED BY <1>1 DEF Exact, CachesExact

LEMMA GetExact ==
  ASSUME Inv, NEW w \in Workers, Alone(w), Exact(worker[w]), "broken" \notin happened, Get(w)
  PROVE  StaysExact(w)
<1>1. worker[w] # Nobody /\ worker[w].at = "get" /\ UNCHANGED <<sessions, caches, algorithms>>
  BY DEF Get, At, memory
<1>2. worker[w].key \in caches[worker[w].cache].items
  BY <1>1 DEF Exact, CachesExact, Found
<1>3. Done(w) /\ UNCHANGED happened
  BY <1>2 DEF Get
<1>4. /\ worker'[w] # Nobody /\ worker'[w].at = "run" /\ worker'[w].key = Nobody
      /\ worker'[w].token = worker[w].token /\ worker'[w].runner = worker[w].runner
  BY <1>1, <1>3, IsDone DEF Inv
<1>5. Found(worker[w])'
  BY <1>4 DEF Found, UsingCache, Holding
<1>6. CachesExact(worker[w])'
  BY <1>1, <1>3, <1>4, <1>5, CachesStayExact
<1> QED BY <1>1, <1>3, <1>4, <1>6, SessionExact DEF UsingCache, Holding

LEMMA LoadExact ==
  ASSUME Inv, NEW w \in Workers, Alone(w), Exact(worker[w]), "broken" \notin happened,
         NEW k \in Keys, Load(w, k)
  PROVE  StaysExact(w)
<1>1. /\ worker[w] # Nobody /\ worker[w].at = "run" /\ CanUse(w) /\ worker[w] \in Task
      /\ UNCHANGED <<sessions, caches, algorithms, happened>>
  BY IsTask DEF Load, CanUse, At, memory, Inv
<1>2. CASE worker' = [worker EXCEPT ![w] = Nobody]
  <2>1. worker'[w] = Nobody
    BY <1>2, Dies DEF Inv
  <2>2. CachesExact(worker[w])'
    BY <1>1, <2>1, CachesStayExact DEF Found
  <2> QED BY <1>1, <2>1, <2>2, SessionExact
<1>3. CASE worker' # [worker EXCEPT ![w] = Nobody]
  <2> DEFINE c == sessions[worker[w].token]
  <2>1. c # 0 /\ k \in caches[c].items /\ Use(w, k, "move", c)
    BY <1>3 DEF Load
  <2>2. c \in Nat
    BY <1>1 DEF Task, Inv, TypeOK
  <2> HIDE DEF c
  <2>3. /\ worker'[w] # Nobody /\ worker'[w].at = "move"
        /\ worker'[w].key = k /\ worker'[w].cache = c
        /\ worker'[w].token = worker[w].token /\ worker'[w].runner = worker[w].runner
    BY <1>1, <2>1, <2>2, Uses DEF Inv, Places
  <2>4. Found(worker[w])'
    BY <1>1, <2>1, <2>3 DEF Found, UsingCache, Holding
  <2>5. CachesExact(worker[w])'
    BY <1>1, <2>3, <2>4, CachesStayExact
  <2> QED BY <1>1, <2>3, <2>5, SessionExact DEF UsingCache, Holding
<1> QED BY <1>2, <1>3

LEMMA RemoveExact ==
  ASSUME Inv, NEW w \in Workers, Alone(w), Exact(worker[w]), "broken" \notin happened,
         NEW k \in Keys, Remove(w, k)
  PROVE  StaysExact(w)
<1>1. /\ worker[w] # Nobody /\ worker[w].at = "run" /\ worker[w] \in Task
      /\ worker[w].uses < MaxUses /\ worker[w].key = Nobody
      /\ UNCHANGED <<sessions, caches, algorithms, happened>>
  BY IsTask DEF Remove, CanUse, At, Inv, Exact, CachesExact, Found, UsingCache, Holding
<1>2. CASE worker' = [worker EXCEPT ![w] = Nobody]
  <2>1. worker'[w] = Nobody
    BY <1>2, Dies DEF Inv
  <2>2. CachesExact(worker[w])'
    BY <1>1, <2>1, CachesStayExact DEF Found
  <2> QED BY <1>1, <2>1, <2>2, SessionExact
<1>3. CASE worker' # [worker EXCEPT ![w] = Nobody]
  <2> DEFINE c == sessions[worker[w].token]
             t == [worker[w] EXCEPT !.at = "del", !.cache = c, !.victim = k, !.uses = @ + 1]
  <2>1. worker' = [worker EXCEPT ![w] = t]
    BY <1>3 DEF Remove, Inv, TypeOK
  <2>2. c \in Nat /\ worker[w].uses + 1 \in 0 .. MaxUses
    BY <1>1, BoundsAssumption DEF Task, Inv, TypeOK
  <2> HIDE DEF c
  <2>3. /\ t \in Task /\ t.at = "del" /\ t.key = worker[w].key
        /\ t.token = worker[w].token /\ t.runner = worker[w].runner
    BY <1>1, <2>2 DEF Task, Places
  <2> HIDE DEF t
  <2>4. worker'[w] = t /\ worker'[w] # Nobody
    BY <2>1, <2>3, Becomes DEF Inv
  <2>5. Found(worker[w])'
    BY <2>3, <2>4 DEF Found, UsingCache, Holding
  <2>6. CachesExact(worker[w])'
    BY <1>1, <2>3, <2>4, <2>5, CachesStayExact
  <2> QED BY <1>1, <2>3, <2>4, <2>6, SessionExact DEF UsingCache, Holding
<1> QED BY <1>2, <1>3

LEMMA SaveExact ==
  ASSUME Inv, NEW w \in Workers, Alone(w), Exact(worker[w]), "broken" \notin happened,
         NEW k \in Keys, Save(w, k)
  PROVE  StaysExact(w)
<1>1. /\ CanUse(w) /\ worker[w] # Nobody /\ worker[w].at = "run" /\ worker[w] \in Task
      /\ worker[w].token \in Tokens /\ UNCHANGED algorithms
  BY IsTask DEF Save, CanUse, At, Inv, Task
<1> PICK x \in Tokens : x = worker[w].token
  BY <1>1
<1>2. sessions[x] \in 0 .. Len(caches) /\ Len(caches) \in Nat /\ MaxItems \in Nat \ {0}
      /\ MaxSessions \in Nat \ {0}
  BY LenProperties, BoundsAssumption DEF Inv, TypeOK, SessionsInv
<1>3. PICK c \in 1 .. Len(caches) + 1 : c = IF sessions[x] = 0 THEN Len(caches) + 1 ELSE sessions[x]
  BY <1>2
<1> DEFINE kept == IF sessions[x] = 0 THEN Append(caches, EmptyCache) ELSE caches
<1>4. /\ sessions' = [sessions EXCEPT ![x] = c] /\ caches' = kept
      /\ Use(w, k, IF Full(kept[c]) THEN "pop" ELSE "store", c)
      /\ happened' = IF k \in kept[c].items THEN happened \cup {"saved_again"} ELSE happened
  BY <1>3 DEF Save
<1>5. /\ \A i \in 1 .. Len(caches) : caches'[i] = caches[i]
      /\ \A i \in 1 .. Len(caches') : i \in 1 .. Len(caches) \/ caches'[i] = EmptyCache
  <2>1. CASE sessions[x] = 0
    <3>1. EmptyCache \in Cache
      BY EmptySeq DEF EmptyCache, Cache
    <3>2. /\ Len(caches') = Len(caches) + 1
          /\ \A i \in 1 .. Len(caches) : caches'[i] = caches[i]
          /\ caches'[Len(caches) + 1] = EmptyCache
      BY <1>4, <2>1, <3>1, AppendProperties DEF Inv, TypeOK
    <3>3. \A i \in 1 .. Len(caches') : i \in 1 .. Len(caches) \/ i = Len(caches) + 1
      BY <1>2, <3>2
    <3> QED BY <3>2, <3>3
  <2>2. CASE sessions[x] # 0
    BY <1>4, <2>2
  <2> QED BY <2>1, <2>2
<1> PICK place \in {"pop", "store"} : place = IF Full(caches'[c]) THEN "pop" ELSE "store"
  OBVIOUS
<1>6. Use(w, k, place, c) /\ happened' = IF k \in caches'[c].items
                                         THEN happened \cup {"saved_again"} ELSE happened
  BY <1>4
<1> HIDE DEF kept
<1>7. /\ worker'[w] # Nobody /\ worker'[w].at = place /\ worker'[w].key = k
      /\ worker'[w].cache = c
      /\ worker'[w].token = x /\ worker'[w].runner = worker[w].runner
  BY <1>1, <1>2, <1>6, Uses DEF Inv, Places
\* The sessions.
<1>8. SessionsExact(worker[w])'
  <2>1. \A y \in Tokens : sessions'[y] = IF y = x THEN c ELSE sessions[y]
    BY <1>4 DEF Inv, TypeOK
  <2>2. Active' = Active \cup {x} /\ Active' \ {x} = Active \ {x}
    BY <2>1 DEF Active
  <2>3. /\ IsFiniteSet(Active) /\ Cardinality(Active \ {x}) < MaxSessions
        /\ \A y, z \in Active : sessions[y] = sessions[z] => y = z
    BY <1>1 DEF Exact, SessionsExact
  <2>4. IsFiniteSet(Active \ {x}) /\ Cardinality(Active \ {x}) \in Nat
    BY <2>3, FS_Subset, FS_CardinalityType
  <2>5. /\ IsFiniteSet((Active \ {x}) \cup {x})
        /\ Cardinality((Active \ {x}) \cup {x}) = Cardinality(Active \ {x}) + 1
    BY <2>4, FS_AddElement
  <2>6. Active' = (Active \ {x}) \cup {x}
    BY <2>2
  <2>7. IsFiniteSet(Active') /\ Cardinality(Active') <= MaxSessions
    <3>1. \A m \in Nat : m < MaxSessions => m + 1 <= MaxSessions
      BY <1>2
    <3> QED BY <2>3, <2>4, <2>5, <2>6, <3>1
  <2>8. \A y \in Tokens \ {x} : sessions[y] # 0 => sessions[y] # c
    <3>1. CASE sessions[x] = 0
      BY <1>2, <1>3, <3>1 DEF Inv, SessionsInv
    <3>2. CASE sessions[x] # 0
      BY <1>3, <2>3, <3>2 DEF Active
    <3> QED BY <3>1, <3>2
  <2>9. ASSUME NEW y \in Active', NEW z \in Active', sessions'[y] = sessions'[z] PROVE y = z
    BY <2>1, <2>3, <2>8, <2>9 DEF Active
  <2>10. Cardinality(Active' \ {worker'[w].token}) < MaxSessions
    BY <1>7, <2>2, <2>3
  <2> QED BY <2>7, <2>9, <2>10 DEF SessionsExact
\* The caches.
<1>9. /\ IsFiniteSet({}) /\ Cardinality({}) = 0 /\ Members(<< >>) = {} /\ Distinct(<< >>)
      /\ EmptyCache.items = {} /\ EmptyCache.order = << >>
  BY FS_EmptySet, EmptySeq DEF Members, Distinct, EmptyCache
<1>10. \A i \in 1 .. Len(caches') : IsFiniteSet(caches'[i].items)
  BY <1>5, <1>9 DEF Exact, CachesExact
<1>11. ASSUME "saved_again" \notin happened', NEW i \in 1 .. Len(caches')
       PROVE  CacheExact(i, worker[w])'
  <2>1. /\ Distinct(caches'[i].order) /\ Cardinality(caches'[i].items) <= MaxItems
        /\ Members(caches'[i].order) = caches'[i].items
    <3>1. CASE i \in 1 .. Len(caches)
      <4>1. CacheExact(i, worker[w])
        BY <1>6, <1>11, <3>1 DEF Exact, CachesExact
      <4> QED BY <1>1, <1>5, <3>1, <4>1 DEF CacheExact, Using, UsingCache, Holding
    <3>2. CASE caches'[i] = EmptyCache
      <4>1. caches'[i].items = {} /\ caches'[i].order = << >>
        BY <1>9, <3>2
      <4>2. Cardinality({}) <= MaxItems
        BY <1>2, <1>9
      <4> QED BY <1>9, <4>1, <4>2, Zenon
    <3> QED BY <1>5, <3>1, <3>2
  <2>2. ASSUME Using(worker'[w], i)
        PROVE  InUse(caches'[i].items, caches'[i].items, worker'[w])
    <3>1. i = c /\ k \notin caches'[i].items
      BY <1>6, <1>7, <1>11, <2>2 DEF Using
    <3>2. Cardinality(caches'[i].items) \in Nat
      BY <1>10, FS_CardinalityType
    <3>3. place = "store" => Cardinality(caches'[i].items) < MaxItems
      BY <1>2, <3>1, <3>2 DEF Full
    <3> QED BY <1>7, <3>1, <3>3 DEF InUse
  <2> QED BY <2>1, <2>2 DEF CacheExact
<1>12. Found(worker[w])'
  <2>1. ASSUME place = "pop" PROVE caches'[c].items # {}
    <3>1. Cardinality(caches'[c].items) >= MaxItems
      BY <2>1 DEF Full
    <3>2. ~ (Cardinality({}) >= MaxItems)
      BY <1>2, <1>9
    <3> QED BY <3>1, <3>2, Zenon
  <2> QED BY <1>7, <2>1 DEF Found, UsingCache, Holding
<1>13. CachesExact(worker[w])'
  BY <1>10, <1>11, <1>12 DEF CachesExact
<1>14. RunnersExact(worker[w])'
  BY <1>1, <1>7, RunnersFrame DEF Exact, algorithms, UsingCache, Holding
<1>15. "broken" \notin happened'
  BY <1>6
<1> QED BY <1>8, <1>13, <1>14, <1>15 DEF StaysExact, Exact

-----------------------------------------------------------------------------
(* Steps of the cache of runners and of runners, one task at a time *)

LEMMA FetchingTask ==
  ASSUME Inv, NEW w \in Workers, worker[w] # Nobody
  PROVE  /\ worker[w] \in Task /\ worker[w].request \in Requests
         /\ KeyFor(w) = worker[w].request /\ order \in Seq(Requests)
         /\ worker[w].at \notin Fetching =>
              worker[w].runner # 0 /\ worker[w].runner \in 1 .. Len(runners)
<1>1. worker[w] \in Task
  BY IsTask DEF Inv
<1> QED BY <1>1 DEF Task, KeyFor, KeyOf, Inv, TypeOK, TasksInv, TaskInv, Fits

LEMMA LookUpExact ==
  ASSUME Inv, NEW w \in Workers, Exact(worker[w]), "broken" \notin happened, LookUp(w)
  PROVE  StaysExact(w)
<1>1. /\ worker[w] # Nobody /\ worker[w].at = "look_up"
      /\ UNCHANGED <<memory, fetched, order, runners, happened>>
  BY DEF LookUp, At, algorithms
<1> PICK q \in Requests : q = worker[w].request
  BY <1>1, FetchingTask
<1> PICK place \in {"touch", "extract"} : place = IF fetched[q] # 0 THEN "touch" ELSE "extract"
  OBVIOUS
<1>2. Move(w, place)
  BY <1>1, FetchingTask DEF LookUp
<1>3. /\ worker'[w] # Nobody /\ worker'[w].at = place /\ worker'[w].request = q
      /\ worker'[w].token = worker[w].token /\ worker'[w].key = worker[w].key
  BY <1>1, <1>2, Moves DEF Inv, Places
<1>4. RunnersExact(worker[w])'
  <2>1. Loose(worker[w]) = {} /\ Loose(worker'[w]) = {}
    BY <1>1, <1>3 DEF Loose
  <2>2. /\ IsFiniteSet(Cached) /\ Distinct(order) /\ Members(order) = Cached
        /\ Cardinality(Cached) <= MaxRunners
    BY <1>1, <2>1 DEF Exact, RunnersExact
  <2>3. place = "touch" <=> q \in Cached
    BY DEF Cached
  <2>4. Cached' = Cached
    BY <1>1 DEF Cached
  <2> QED BY <1>1, <1>3, <2>1, <2>2, <2>3, <2>4 DEF RunnersExact, UsingCache, Holding
<1> QED BY <1>1, <1>3, <1>4, FetchExact DEF UsingCache, Holding

LEMMA TouchExact ==
  ASSUME Inv, NEW w \in Workers, Exact(worker[w]), "broken" \notin happened, Touch(w)
  PROVE  StaysExact(w)
<1>1. worker[w] # Nobody /\ worker[w].at = "touch" /\ UNCHANGED <<memory, fetched, runners>>
  BY DEF Touch, At
<1> PICK q \in Requests : q = worker[w].request
  BY <1>1, FetchingTask
<1> PICK o \in Seq(Requests) : o = order
  BY <1>1, FetchingTask
<1>2. Loose(worker[w]) = {}
  BY <1>1 DEF Loose
<1>3. /\ IsFiniteSet(Cached) /\ Distinct(o) /\ Members(o) = Cached /\ q \in Members(o)
      /\ Cardinality(Cached) <= MaxRunners
  BY <1>1, <1>2 DEF Exact, RunnersExact
<1>4. order' = Without(o, q) /\ Move(w, "retouch") /\ UNCHANGED happened
  BY <1>1, <1>3, FetchingTask DEF Touch
<1>5. /\ worker'[w] # Nobody /\ worker'[w].at = "retouch" /\ worker'[w].request = q
      /\ worker'[w].token = worker[w].token /\ worker'[w].key = worker[w].key
  BY <1>1, <1>4, Moves DEF Inv, Places
<1>6. Distinct(order') /\ Members(order') = Cached \ {q}
  BY <1>3, <1>4, DistinctWithout
<1>7. Loose(worker'[w]) = {q} /\ Cached' = Cached
  BY <1>1, <1>5 DEF Loose, Cached
<1>8. RunnersExact(worker[w])'
  BY <1>3, <1>5, <1>6, <1>7 DEF RunnersExact, UsingCache, Holding
<1> QED BY <1>1, <1>4, <1>5, <1>8, FetchExact DEF UsingCache, Holding

\* Retouch and AppendRunner.
LEMMA RunnerAppendsExact ==
  ASSUME Inv, NEW w \in Workers, Exact(worker[w]), "broken" \notin happened,
         Retouch(w) \/ AppendRunner(w)
  PROVE  StaysExact(w)
<1>1. /\ worker[w] # Nobody /\ worker[w].at \in {"retouch", "append"}
      /\ UNCHANGED <<memory, fetched, runners, happened>>
  BY DEF Retouch, AppendRunner, At
<1> PICK q \in Requests : q = worker[w].request
  BY <1>1, FetchingTask
<1> PICK o \in Seq(Requests) : o = order
  BY <1>1, FetchingTask
<1>2. Loose(worker[w]) = {q}
  BY <1>1 DEF Loose
<1>3. /\ IsFiniteSet(Cached) /\ Distinct(o) /\ Members(o) = Cached \ {q} /\ q \in Cached
      /\ worker[w].at = "retouch" => Cardinality(Cached) <= MaxRunners
  BY <1>1, <1>2 DEF Exact, RunnersExact
<1>4. order' = Append(o, q)
  BY <1>1, FetchingTask DEF Retouch, AppendRunner
<1> PICK place \in {"take", "limit"} : place = IF worker[w].at = "retouch" THEN "take" ELSE "limit"
  OBVIOUS
<1>5. Move(w, place)
  BY DEF Retouch, AppendRunner, At
<1>6. /\ worker'[w] # Nobody /\ worker'[w].at = place /\ worker'[w].request = q
      /\ worker'[w].token = worker[w].token /\ worker'[w].key = worker[w].key
  BY <1>1, <1>5, Moves DEF Inv, Places
<1>7. Distinct(order') /\ Members(order') = Cached
  <2>1. q \notin Members(o)
    BY <1>3
  <2>2. Distinct(Append(o, q)) /\ Members(Append(o, q)) = Members(o) \cup {q}
    BY <1>3, <2>1, DistinctAppend
  <2> QED BY <1>3, <1>4, <2>2
<1>8. Loose(worker'[w]) = {} /\ Cached' = Cached
  BY <1>1, <1>6 DEF Loose, Cached
<1>9. RunnersExact(worker[w])'
  BY <1>1, <1>3, <1>6, <1>7, <1>8 DEF RunnersExact, UsingCache, Holding
<1> QED BY <1>1, <1>6, <1>9, FetchExact DEF UsingCache, Holding

LEMMA TakeExact ==
  ASSUME Inv, NEW w \in Workers, Exact(worker[w]), "broken" \notin happened, Take(w)
  PROVE  StaysExact(w)
<1>1. /\ worker[w] # Nobody /\ worker[w].at = "take" /\ worker[w] \in Task
      /\ UNCHANGED <<memory, fetched, order, runners>>
  BY IsTask DEF Take, At, Inv, algorithms
<1> PICK q \in Requests : q = worker[w].request
  BY <1>1, FetchingTask
<1>2. Loose(worker[w]) = {}
  BY <1>1 DEF Loose
<1>3. /\ IsFiniteSet(Cached) /\ Distinct(order) /\ Members(order) = Cached /\ q \in Cached
      /\ Cardinality(Cached) <= MaxRunners
  BY <1>1, <1>2 DEF Exact, RunnersExact
<1> PICK r \in Nat : r = fetched[q]
  BY DEF Inv, TypeOK
<1>4. r # 0
  BY <1>3 DEF Cached
<1> DEFINE t == [worker[w] EXCEPT !.at = "initialize", !.runner = r]
<1>5. worker' = [worker EXCEPT ![w] = t] /\ UNCHANGED happened
  BY <1>1, <1>4, FetchingTask DEF Take, Inv, TypeOK
<1>6. t \in Task /\ t.at = "initialize" /\ t.token = worker[w].token /\ t.key = worker[w].key
  BY <1>1 DEF Task, Places
<1> HIDE DEF t
<1>7. worker'[w] = t /\ worker'[w] # Nobody
  BY <1>5, <1>6, Becomes DEF Inv
<1>8. Loose(worker'[w]) = {} /\ Cached' = Cached
  BY <1>1, <1>6, <1>7 DEF Loose, Cached
<1>9. RunnersExact(worker[w])'
  BY <1>1, <1>3, <1>6, <1>7, <1>8 DEF RunnersExact, UsingCache, Holding
<1> QED BY <1>1, <1>5, <1>6, <1>7, <1>9, FetchExact DEF UsingCache, Holding

LEMMA ExtractExact ==
  ASSUME Inv, NEW w \in Workers, Exact(worker[w]), "broken" \notin happened, Extract(w)
  PROVE  StaysExact(w)
<1>1. /\ worker[w] # Nobody /\ worker[w].at = "extract"
      /\ UNCHANGED <<memory, fetched, order, runners, happened>>
  BY DEF Extract, At
<1>2. CASE worker' = [worker EXCEPT ![w] = Nobody]
  BY <1>1, <1>2, EndIsExact DEF Inv, UsingCache, Holding
<1>3. CASE Move(w, "load")
  <2>1. /\ worker'[w] # Nobody /\ worker'[w].at = "load"
        /\ worker'[w].request = worker[w].request
        /\ worker'[w].token = worker[w].token /\ worker'[w].key = worker[w].key
    BY <1>1, <1>3, Moves DEF Inv, Places
  <2>2. Loose(worker[w]) = {} /\ Loose(worker'[w]) = {} /\ Cached' = Cached
    BY <1>1, <2>1 DEF Loose, Cached
  <2>3. RunnersExact(worker[w])'
    BY <1>1, <2>1, <2>2 DEF Exact, RunnersExact, UsingCache, Holding
  <2> QED BY <1>1, <2>1, <2>3, FetchExact DEF UsingCache, Holding
<1> QED BY <1>2, <1>3 DEF Extract

LEMMA LoadRunnerExact ==
  ASSUME Inv, NEW w \in Workers, Exact(worker[w]), "broken" \notin happened, LoadRunner(w)
  PROVE  StaysExact(w)
<1>1. /\ worker[w] # Nobody /\ worker[w].at = "load" /\ worker[w] \in Task
      /\ UNCHANGED <<memory, fetched, order, happened>>
  BY IsTask DEF LoadRunner, At, Inv
<1> PICK n \in Nat : n = Len(runners) + 1
  BY LenProperties DEF Inv, TypeOK
<1> DEFINE t == [worker[w] EXCEPT !.at = "enter", !.runner = n]
<1>2. worker' = [worker EXCEPT ![w] = t]
  BY DEF LoadRunner, Inv, TypeOK
<1>3. /\ t \in Task /\ t.at = "enter" /\ t.request = worker[w].request
      /\ t.token = worker[w].token /\ t.key = worker[w].key
  BY <1>1 DEF Task, Places
<1> HIDE DEF t
<1>4. worker'[w] = t /\ worker'[w] # Nobody
  BY <1>2, <1>3, Becomes DEF Inv
<1>5. Loose(worker[w]) = {} /\ Loose(worker'[w]) = {} /\ Cached' = Cached
  BY <1>1, <1>3, <1>4 DEF Loose, Cached
<1>6. RunnersExact(worker[w])'
  BY <1>1, <1>3, <1>4, <1>5 DEF Exact, RunnersExact, UsingCache, Holding
<1> QED BY <1>1, <1>3, <1>4, <1>6, FetchExact DEF UsingCache, Holding

LEMMA EnterExact ==
  ASSUME Inv, NEW w \in Workers, Exact(worker[w]), "broken" \notin happened, Enter(w)
  PROVE  StaysExact(w)
<1>1. /\ worker[w] # Nobody /\ worker[w].at = "enter" /\ Move(w, "append")
      /\ UNCHANGED <<memory, order, runners, happened>>
  BY DEF Enter, At
<1> PICK q \in Requests : q = worker[w].request
  BY <1>1, FetchingTask
<1>2. Loose(worker[w]) = {}
  BY <1>1 DEF Loose
<1>3. IsFiniteSet(Cached) /\ Distinct(order) /\ Members(order) = Cached /\ q \notin Cached
  BY <1>1, <1>2 DEF Exact, RunnersExact
<1>4. fetched' = [fetched EXCEPT ![q] = worker[w].runner] /\ worker[w].runner # 0
  BY <1>1, FetchingTask DEF Enter, Fetching
<1>5. Cached' = Cached \cup {q}
  BY <1>4 DEF Cached, Inv, TypeOK
<1>6. IsFiniteSet(Cached')
  BY <1>3, <1>5, FS_AddElement
<1>7. /\ worker'[w] # Nobody /\ worker'[w].at = "append" /\ worker'[w].request = q
      /\ worker'[w].token = worker[w].token /\ worker'[w].key = worker[w].key
  BY <1>1, Moves DEF Inv, Places
<1>8. Loose(worker'[w]) = {q} /\ Members(order') = Cached' \ {q} /\ q \in Cached'
  BY <1>1, <1>3, <1>5, <1>7 DEF Loose
<1>9. RunnersExact(worker[w])'
  BY <1>1, <1>3, <1>6, <1>7, <1>8 DEF RunnersExact, UsingCache, Holding
<1> QED BY <1>1, <1>7, <1>9, FetchExact DEF UsingCache, Holding

LEMMA LimitExact ==
  ASSUME Inv, NEW w \in Workers, Exact(worker[w]), "broken" \notin happened, Limit(w)
  PROVE  StaysExact(w)
<1>1. /\ worker[w] # Nobody /\ worker[w].at = "limit" /\ worker[w] \in Task
      /\ UNCHANGED <<memory, fetched, runners>>
  BY IsTask DEF Limit, At, Inv
<1>2. Loose(worker[w]) = {}
  BY <1>1 DEF Loose
<1>3. IsFiniteSet(Cached) /\ Distinct(order) /\ Members(order) = Cached
  BY <1>1, <1>2 DEF Exact, RunnersExact
<1>4. Cached' = Cached
  BY <1>1 DEF Cached
<1>5. CASE Cardinality(Cached) <= MaxRunners
  <2>1. Move(w, "initialize") /\ UNCHANGED <<order, happened>>
    BY <1>5 DEF Limit
  <2>2. /\ worker'[w] # Nobody /\ worker'[w].at = "initialize"
        /\ worker'[w].token = worker[w].token /\ worker'[w].key = worker[w].key
    BY <1>1, <2>1, Moves DEF Inv, Places
  <2>3. Loose(worker'[w]) = {}
    BY <2>2 DEF Loose
  <2>4. RunnersExact(worker[w])'
    BY <1>3, <1>4, <1>5, <2>1, <2>2, <2>3 DEF RunnersExact, UsingCache, Holding
  <2> QED BY <1>1, <2>1, <2>2, <2>4, FetchExact DEF UsingCache, Holding
<1>6. CASE ~ (Cardinality(Cached) <= MaxRunners)
  <2> PICK o \in Seq(Requests) : o = order
    BY <1>1, FetchingTask
  <2>1. o # << >>
    <3>1. Cardinality({}) <= MaxRunners
      BY FS_EmptySet, BoundsAssumption
    <3>2. Cached # {}
      BY <1>6, <3>1, Zenon
    <3> QED BY <1>3, <3>2 DEF Members
  <2> PICK q \in Requests : q = Head(o)
    BY <2>1, MembersTail
  <2> DEFINE t == [worker[w] EXCEPT !.at = "drop", !.victim = q]
  <2>2. /\ worker' = [worker EXCEPT ![w] = t]
        /\ order' = Tail(o) /\ UNCHANGED happened
    BY <1>6, <2>1 DEF Limit, Inv, TypeOK
  <2>3. /\ t \in Task /\ t.at = "drop" /\ t.victim = q
        /\ t.token = worker[w].token /\ t.key = worker[w].key
    BY <1>1 DEF Task, Places
  <2> HIDE DEF t
  <2>4. worker'[w] = t /\ worker'[w] # Nobody
    BY <2>2, <2>3, Becomes DEF Inv
  <2>5. Distinct(order') /\ Members(order') = Cached \ {q} /\ q \in Cached
    BY <1>3, <2>1, <2>2, DistinctTail
  <2>6. Loose(worker'[w]) = {q}
    BY <2>3, <2>4 DEF Loose
  <2>7. RunnersExact(worker[w])'
    BY <1>3, <1>4, <2>3, <2>4, <2>5, <2>6 DEF RunnersExact, UsingCache, Holding
  <2> QED BY <1>1, <2>2, <2>3, <2>4, <2>7, FetchExact DEF UsingCache, Holding
<1> QED BY <1>5, <1>6

LEMMA DropExact ==
  ASSUME Inv, NEW w \in Workers, Exact(worker[w]), "broken" \notin happened, Drop(w)
  PROVE  StaysExact(w)
<1>1. /\ worker[w] # Nobody /\ worker[w].at = "drop" /\ worker[w] \in Task
      /\ UNCHANGED <<memory, order, runners>>
  BY IsTask DEF Drop, At, Inv
<1> PICK q \in Requests : q = worker[w].victim
  BY <1>1 DEF Inv, TasksInv, TaskInv
<1>2. Loose(worker[w]) = {q}
  BY <1>1 DEF Loose
<1>3. IsFiniteSet(Cached) /\ Distinct(order) /\ Members(order) = Cached \ {q} /\ q \in Cached
  BY <1>1, <1>2 DEF Exact, RunnersExact
<1>4. fetched[q] # 0
  BY <1>3 DEF Cached
<1> DEFINE t == [worker[w] EXCEPT !.at = "limit", !.victim = Nobody]
<1>5. /\ fetched' = [fetched EXCEPT ![q] = 0] /\ worker' = [worker EXCEPT ![w] = t]
      /\ UNCHANGED happened
  BY <1>4 DEF Drop, Inv, TypeOK
<1>6. t \in Task /\ t.at = "limit" /\ t.token = worker[w].token /\ t.key = worker[w].key
  BY <1>1 DEF Task, Places
<1> HIDE DEF t
<1>7. worker'[w] = t /\ worker'[w] # Nobody
  BY <1>5, <1>6, Becomes DEF Inv
<1>8. Cached' = Cached \ {q} /\ Loose(worker'[w]) = {}
  BY <1>5, <1>6, <1>7 DEF Cached, Loose, Inv, TypeOK
<1>9. IsFiniteSet(Cached')
  BY <1>3, <1>8, FS_Subset
<1>10. RunnersExact(worker[w])'
  BY <1>1, <1>3, <1>6, <1>7, <1>8, <1>9 DEF RunnersExact, UsingCache, Holding
<1> QED BY <1>1, <1>5, <1>6, <1>7, <1>10, FetchExact DEF UsingCache, Holding

\* Initialize and EndInit.
LEMMA FlagsExact ==
  ASSUME Inv, NEW w \in Workers, Exact(worker[w]), "broken" \notin happened,
         Initialize(w) \/ EndInit(w)
  PROVE  StaysExact(w)
<1> PICK place \in {"init", "run"} : place = IF Initialize(w) THEN "init" ELSE "run"
  OBVIOUS
<1> PICK flag \in BOOLEAN : flag = (place = "init")
  OBVIOUS
<1>1. /\ worker[w] # Nobody /\ worker[w].at \in {"initialize", "end_init"}
      /\ Move(w, place) /\ SetInitializing(w, flag)
      /\ UNCHANGED <<memory, fetched, order, happened>>
  BY DEF Initialize, EndInit, At
<1> PICK n \in 1 .. Len(runners) : n = worker[w].runner
  BY <1>1, FetchingTask DEF Fetching
<1>2. runners'[n].initializing = flag
  <2> DEFINE r == [runners[n] EXCEPT !.initializing = flag]
  <2>1. runners[n] \in Runner
    BY ElementOfSeq DEF Inv, TypeOK
  <2>2. r \in Runner /\ r.initializing = flag
    BY <2>1 DEF Runner
  <2>3. runners' = [runners EXCEPT ![n] = r]
    BY <1>1 DEF SetInitializing
  <2> HIDE DEF r
  <2>4. runners'[n] = r
    BY <2>2, <2>3, ExceptSeq DEF Inv, TypeOK
  <2> QED BY <2>2, <2>4
<1>3. /\ worker'[w] # Nobody /\ worker'[w].at = place /\ worker'[w].runner = n
      /\ worker'[w].token = worker[w].token /\ worker'[w].key = worker[w].key
  BY <1>1, Moves DEF Inv, Places
<1>4. Loose(worker[w]) = {} /\ Loose(worker'[w]) = {} /\ Cached' = Cached
  BY <1>1, <1>3 DEF Loose, Cached
<1>5. RunnersExact(worker[w])'
  <2>1. /\ IsFiniteSet(Cached) /\ Distinct(order) /\ Members(order) = Cached
        /\ Cardinality(Cached) <= MaxRunners
    BY <1>1, <1>4 DEF Exact, RunnersExact
  <2> QED BY <1>1, <1>2, <1>3, <1>4, <2>1 DEF RunnersExact, UsingCache, Holding
<1> QED BY <1>1, <1>3, <1>5, FetchExact DEF UsingCache, Holding

LEMMA InitRunnerExact ==
  ASSUME Inv, NEW w \in Workers, Exact(worker[w]), "broken" \notin happened, InitRunner(w)
  PROVE  StaysExact(w)
<1>1. /\ worker[w] # Nobody /\ worker[w].at = "init"
      /\ UNCHANGED <<memory, fetched, order, runners>>
  BY DEF InitRunner, At, algorithms
<1>2. runners[worker[w].runner].initializing
  BY <1>1 DEF Exact, RunnersExact
<1>3. Move(w, "end_init") /\ UNCHANGED happened
  BY <1>2 DEF InitRunner
<1>4. /\ worker'[w] # Nobody /\ worker'[w].at = "end_init"
      /\ worker'[w].runner = worker[w].runner
      /\ worker'[w].token = worker[w].token /\ worker'[w].key = worker[w].key
  BY <1>1, <1>3, Moves DEF Inv, Places
<1>5. Loose(worker[w]) = {} /\ Loose(worker'[w]) = {} /\ Cached' = Cached
  BY <1>1, <1>4 DEF Loose, Cached
<1>6. RunnersExact(worker[w])'
  BY <1>1, <1>2, <1>4, <1>5 DEF Exact, RunnersExact, UsingCache, Holding
<1> QED BY <1>1, <1>3, <1>4, <1>6, FetchExact DEF UsingCache, Holding

LEMMA EndsExact ==
  ASSUME Inv, NEW w \in Workers, Exact(worker[w]), "broken" \notin happened,
         NotFound(w) \/ NoDevice(w) \/ LoadFails(w) \/ Assign(w) \/ Finish(w)
  PROVE  StaysExact(w)
<1>1. /\ worker[w] # Nobody /\ worker[w].at \in {"look_up", "extract", "load", "run"}
      /\ worker' = [worker EXCEPT ![w] = Nobody] /\ UNCHANGED <<memory, fetched, order>>
  BY DEF NotFound, NoDevice, LoadFails, Assign, Finish, CanUse, At, algorithms
<1>2. worker[w].at = "run" => ~ runners[worker[w].runner].initializing
  BY <1>1 DEF Exact, RunnersExact
<1>3. UNCHANGED happened
  BY <1>1, <1>2 DEF NotFound, NoDevice, LoadFails, Assign, Finish, CanUse, At
<1> QED BY <1>1, <1>3, EndIsExact DEF Inv, UsingCache, Holding

-----------------------------------------------------------------------------
(* The start of a task *)

\* A set of numbers that is not empty has a least element.
LEMMA LeastIsThere ==
  ASSUME NEW S \in SUBSET Nat, S # {}
  PROVE  \E c \in S : \A d \in S : c <= d
<1> PICK m \in S : m \in Nat
  OBVIOUS
<1> DEFINE B == 0 .. m
           T == S \cap B
           Under(j) == {i \in T : i < j}
           U == {Under(j) : j \in T}
<1>1. IsFiniteSet(0 .. m) /\ m \in T /\ T \subseteq B /\ T \subseteq Nat
  <2>1. IsFiniteSet(0 .. m)
    BY FS_Interval
  <2>2. m \in 0 .. m /\ 0 .. m \subseteq Nat
    OBVIOUS
  <2> QED BY <2>1, <2>2
<1>2. \A d \in S : d \in T \/ m < d
  OBVIOUS
<1>3. \A i \in T : i <= m
  OBVIOUS
<1> HIDE DEF B, T
<1>4. IsWellFoundedOn(StrictSubsetOrdering(B), SUBSET B)
  BY <1>1, FS_StrictSubsetOrderingWellFounded, FS_FiniteSubsetsOfFinite DEF B
<1>5. U \subseteq SUBSET B /\ U # {}
  BY <1>1
<1>6. PICK y \in U : \A z \in U : ~ (<<z, y>> \in StrictSubsetOrdering(B))
  BY <1>4, <1>5, WFMin
<1>7. PICK j \in T : y = Under(j)
  OBVIOUS
<1>8. ASSUME NEW l \in T, l < j
      PROVE  FALSE
  <2>1. Under(l) \in U /\ Under(l) \in SUBSET B /\ Under(j) \in SUBSET B
    BY <1>1
  <2>2. l \in Under(j) /\ l \notin Under(l)
    BY <1>1, <1>8
  <2>3. Under(l) \subseteq Under(j)
    <3>1. l \in Nat /\ j \in Nat
      BY <1>1
    <3>2. \A i \in T : i < l => i < j
      BY <1>1, <1>8, <3>1
    <3> QED BY <3>2
  <2>4. <<Under(l), Under(j)>> \in StrictSubsetOrdering(B)
    <3> HIDE DEF Under
    <3> QED BY <2>1, <2>2, <2>3 DEF StrictSubsetOrdering
  <2> QED BY <1>6, <1>7, <2>1, <2>4
<1>9. j \in S /\ j \in Nat /\ j <= m
  BY <1>1, <1>3 DEF T
<1>10. ASSUME NEW d \in S PROVE j <= d
  <2>1. CASE d \in T
    BY <1>1, <1>8, <1>9, <2>1
  <2>2. CASE m < d
    BY <1>9, <2>2
  <2> QED BY <1>2, <2>1, <2>2
<1> QED BY <1>9, <1>10

\* No two tokens share a cache.
Apart(S) == \A x, y \in Tokens : S[x] # 0 /\ S[x] = S[y] => x = y

\* The tokens that have a cache are as many as their caches.
LEMMA CachesOfTokens ==
  ASSUME NEW S \in [Tokens -> Nat], Apart(S), NEW A, A = {x \in Tokens : S[x] # 0}, IsFiniteSet(A)
  PROVE  LET left == {S[x] : x \in Tokens} \ {0}
         IN  IsFiniteSet(left) /\ Cardinality(left) = Cardinality(A)
<1> DEFINE left == {S[x] : x \in Tokens} \ {0}
           f == [x \in A |-> S[x]]
<1>1. f \in Surjection(A, left)
  BY DEF Surjection
<1>2. f \in Injection(A, left)
  BY DEF Injection, IsInjective, Apart
<1>3. IsFiniteSet(left) /\ Cardinality(left) <= Cardinality(A)
      /\ (Cardinality(left) = Cardinality(A) <=> f \in Injection(A, left))
  BY <1>1, FS_Surjection
<1> QED BY <1>2, <1>3

\* After the constructor of TaskSession one more session has room.
LEMMA ThereIsRoom ==
  ASSUME NEW S \in [Tokens -> Nat], Apart(S), IsFiniteSet({x \in Tokens : S[x] # 0}),
         Cardinality({x \in Tokens : S[x] # 0}) <= MaxSessions
  PROVE  Cardinality({x \in Tokens : MakeRoom(S)[x] # 0}) < MaxSessions
<1> DEFINE left == {S[x] : x \in Tokens} \ {0}
           oldest == CHOOSE c \in left : \A d \in left : c <= d
<1> PICK A \in SUBSET Tokens : A = {x \in Tokens : S[x] # 0}
  OBVIOUS
<1>1. IsFiniteSet(A) /\ Cardinality(A) <= MaxSessions /\ Cardinality(A) \in Nat
      /\ MaxSessions \in Nat \ {0}
  BY FS_CardinalityType, BoundsAssumption
<1>2. Cardinality(left) = Cardinality(A)
  BY <1>1, CachesOfTokens
<1>3. CASE Cardinality(left) < MaxSessions
  BY <1>2, <1>3 DEF MakeRoom
<1>4. CASE ~ (Cardinality(left) < MaxSessions)
  <2>1. left \subseteq Nat /\ left # {}
    <3>1. A # {}
      <4>1. Cardinality({}) < MaxSessions
        BY <1>1, FS_EmptySet
      <4> QED BY <1>2, <1>4, <4>1, Zenon
    <3> QED BY <3>1
  <2>2. oldest \in left
    BY <2>1, LeastIsThere
  <2> PICK c \in left : c = oldest
    BY <2>2
  <2>3. MakeRoom(S) = [x \in Tokens |-> IF S[x] = c THEN 0 ELSE S[x]]
    BY <1>4 DEF MakeRoom
  <2>4. PICK z \in A : S[z] = c
    OBVIOUS
  <2>5. {x \in Tokens : MakeRoom(S)[x] # 0} = A \ {z}
    BY <2>3, <2>4 DEF Apart
  <2>6. Cardinality(A \ {z}) = Cardinality(A) - 1
    BY <1>1, FS_RemoveElement
  <2>7. Cardinality(A \ {z}) < MaxSessions
    BY <1>1, <2>6
  <2> QED BY <2>5, <2>7, Zenon
<1> QED BY <1>3, <1>4

LEMMA StartExact ==
  ASSUME Inv, NEW w \in Workers, worker[w] = Nobody, Exact(Nobody), "broken" \notin happened,
         NEW x \in Tokens, NEW q \in Requests, NEW n \in 0 .. Len(caches), Start(w, x, q, n)
  PROVE  StaysExact(w)
<1> DEFINE t == [at |-> "look_up", token |-> x, request |-> q, runner |-> 0, key |-> Nobody,
                 cache |-> 0, victim |-> Nobody, uses |-> 0]
<1>1. /\ worker' = [worker EXCEPT ![w] = t] /\ sessions' = MakeRoom(Unexpired(n))
      /\ UNCHANGED <<caches, fetched, order, runners>>
      /\ happened' = happened \/ happened' = happened \cup {"overlap"}
  BY DEF Start, algorithms
<1>2. t \in Task /\ t.at = "look_up" /\ t.key = Nobody /\ t.token = x
  BY BoundsAssumption DEF Task, Places
<1> HIDE DEF t
<1>3. worker'[w] = t /\ worker'[w] # Nobody
  BY <1>1, <1>2, Becomes DEF Inv
<1>4. "broken" \notin happened'
  BY <1>1
<1>5. CachesExact(worker[w])'
  BY <1>1, <1>2, <1>3, CachesFrame DEF Exact, UsingCache, Holding
<1>6. RunnersExact(worker[w])'
  <2>1. Loose(Nobody) = {} /\ Loose(worker'[w]) = {} /\ Cached' = Cached
    BY <1>1, <1>2, <1>3 DEF Loose, Cached
  <2>2. /\ IsFiniteSet(Cached) /\ Distinct(order) /\ Members(order) = Cached
        /\ Cardinality(Cached) <= MaxRunners
    BY <2>1 DEF Exact, RunnersExact
  <2> QED BY <1>1, <1>2, <1>3, <2>1, <2>2 DEF RunnersExact, UsingCache, Holding
<1>7. SessionsExact(worker[w])'
  <2>1. PICK S \in [Tokens -> Nat] : S = Unexpired(n)
    BY DEF Unexpired, Inv, TypeOK
  <2>2. \A y \in Tokens : S[y] \in {0, sessions[y]}
    BY <2>1 DEF Unexpired
  <2>3. /\ IsFiniteSet(Active) /\ Cardinality(Active) <= MaxSessions
        /\ \A y, z \in Active : sessions[y] = sessions[z] => y = z
    BY DEF Exact, SessionsExact
  <2>4. Apart(S)
    BY <2>2, <2>3 DEF Apart, Active
  <2> DEFINE A == {y \in Tokens : S[y] # 0}
  <2>5. A \subseteq Active
    BY <2>2 DEF Active
  <2>6. IsFiniteSet(A) /\ Cardinality(A) <= Cardinality(Active)
    BY <2>3, <2>5, FS_Subset
  <2>7. Cardinality(A) <= MaxSessions
    <3>1. Cardinality(A) \in Nat /\ Cardinality(Active) \in Nat /\ MaxSessions \in Nat
      BY <2>3, <2>6, FS_CardinalityType, BoundsAssumption
    <3> QED BY <2>3, <2>6, <3>1
  <2>8. Cardinality({y \in Tokens : MakeRoom(S)[y] # 0}) < MaxSessions
    BY <2>4, <2>6, <2>7, ThereIsRoom
  <2>9. sessions' = MakeRoom(S)
    BY <1>1, <2>1
  <2>10. Active' = {y \in Tokens : MakeRoom(S)[y] # 0}
    BY <2>9 DEF Active
  <2>11. \A y \in Tokens : sessions'[y] \in {0, sessions[y]}
    BY <2>2, <2>9, RoomIsMade
  <2>12. Active' \subseteq Active
    BY <2>11 DEF Active
  <2>13. IsFiniteSet(Active') /\ Cardinality(Active') < MaxSessions
    BY <2>3, <2>8, <2>10, <2>12, FS_Subset
  <2>14. /\ IsFiniteSet(Active' \ {x}) /\ Cardinality(Active' \ {x}) <= Cardinality(Active')
         /\ Cardinality(Active') \in Nat /\ Cardinality(Active' \ {x}) \in Nat
    BY <2>13, FS_Subset, FS_CardinalityType
  <2>15. Cardinality(Active') <= MaxSessions /\ Cardinality(Active' \ {x}) < MaxSessions
    BY <2>13, <2>14, BoundsAssumption
  <2>16. ASSUME NEW y \in Active', NEW z \in Active', sessions'[y] = sessions'[z] PROVE y = z
    BY <2>3, <2>11, <2>12, <2>16 DEF Active
  <2> QED BY <1>2, <1>3, <2>13, <2>15, <2>16 DEF SessionsExact
<1> QED BY <1>4, <1>5, <1>6, <1>7 DEF StaysExact, Exact

-----------------------------------------------------------------------------
(* The specification, one task at a time *)

LEMMA SessionStepExact ==
  ASSUME Inv, NEW w \in Workers, Alone(w), Exact(worker[w]), "broken" \notin happened,
         SessionStep(w)
  PROVE  StaysExact(w)
<1>1. ASSUME NEW k \in Keys, Save(w, k) \/ Remove(w, k) \/ Load(w, k)
      PROVE  StaysExact(w)
  BY <1>1, SaveExact, RemoveExact, LoadExact
<1>2. ASSUME Pop(w) \/ Del(w) \/ Forget(w) \/ Store(w)
      PROVE  StaysExact(w)
  BY <1>2, PopExact, DelExact, ForgetExact, StoreExact
<1>3. ASSUME AppendKey(w) \/ MoveKey(w) \/ MoveBack(w) \/ Get(w)
      PROVE  StaysExact(w)
  BY <1>3, KeyAppendsExact, MoveKeyExact, GetExact
<1> QED BY <1>1, <1>2, <1>3 DEF SessionStep

LEMMA FetchStepExact ==
  ASSUME Inv, NEW w \in Workers, Exact(worker[w]), "broken" \notin happened,
         FetchStep(w) \/ RunnerStep(w)
  PROVE  StaysExact(w)
<1>1. ASSUME LookUp(w) \/ Touch(w) \/ Retouch(w) \/ Take(w) \/ Extract(w) \/ LoadRunner(w)
      PROVE  StaysExact(w)
  BY <1>1, LookUpExact, TouchExact, RunnerAppendsExact, TakeExact, ExtractExact, LoadRunnerExact
<1>2. ASSUME Enter(w) \/ AppendRunner(w) \/ Limit(w) \/ Drop(w)
      PROVE  StaysExact(w)
  BY <1>2, EnterExact, RunnerAppendsExact, LimitExact, DropExact
<1>3. ASSUME NotFound(w) \/ NoDevice(w) \/ LoadFails(w) \/ RunnerStep(w)
      PROVE  StaysExact(w)
  BY <1>3, EndsExact, FlagsExact, InitRunnerExact DEF RunnerStep
<1> QED BY <1>1, <1>2, <1>3 DEF FetchStep

\* A step of w leaves the other threads alone, and only a task takes one.
LEMMA StepIsOfOne ==
  ASSUME Inv, NEW w \in Workers, SessionStep(w) \/ FetchStep(w) \/ RunnerStep(w)
  PROVE  worker[w] # Nobody /\ \A v \in Workers \ {w} : worker'[v] = worker[v]
<1>1. ASSUME SessionStep(w)
      PROVE  worker[w] # Nobody /\ \A v \in Workers \ {w} : worker'[v] = worker[v]
  BY <1>1 DEF SessionStep, Save, Remove, Load, Pop, Del, Forget, Store, AppendKey, MoveKey,
              MoveBack, Get, AfterRemoval, Done, Use, Move, Break, CanUse, At, Inv, TypeOK
<1>2. ASSUME FetchStep(w)
      PROVE  worker[w] # Nobody /\ \A v \in Workers \ {w} : worker'[v] = worker[v]
  BY <1>2 DEF FetchStep, NotFound, LookUp, Touch, Retouch, Take, NoDevice, Extract, LoadRunner,
              LoadFails, Enter, AppendRunner, Limit, Drop, Move, Break, At, Inv, TypeOK
<1>3. ASSUME RunnerStep(w)
      PROVE  worker[w] # Nobody /\ \A v \in Workers \ {w} : worker'[v] = worker[v]
  BY <1>3 DEF RunnerStep, Initialize, InitRunner, EndInit, Assign, Finish, Move, Break, CanUse,
              At, Inv, TypeOK
<1> QED BY <1>1, <1>2, <1>3

LEMMA OverlapLasts ==
  ASSUME Inv, [Next]_vars, "overlap" \in happened
  PROVE  "overlap" \in happened'
<1>1. CASE UNCHANGED vars
  BY <1>1 DEF vars
<1>2. ASSUME NEW w \in Workers, NEW x \in Tokens, NEW q \in Requests,
             NEW n \in 0 .. Len(caches), Start(w, x, q, n)
      PROVE  "overlap" \in happened'
  BY <1>2 DEF Start
<1>3. ASSUME NEW w \in Workers, SessionStep(w)
      PROVE  "overlap" \in happened'
  BY <1>3 DEF SessionStep, Save, Remove, Load, Pop, Del, Forget, Store, AppendKey, MoveKey,
              MoveBack, Get, Break
<1>4. ASSUME NEW w \in Workers, FetchStep(w) \/ RunnerStep(w)
      PROVE  "overlap" \in happened'
  BY <1>4 DEF FetchStep, NotFound, LookUp, Touch, Retouch, Take, NoDevice, Extract, LoadRunner,
              LoadFails, Enter, AppendRunner, Limit, Drop, RunnerStep, Initialize, InitRunner,
              EndInit, Assign, Finish, Break
<1> QED BY <1>1, <1>2, <1>3, <1>4 DEF Next

LEMMA InitSerial == Init => SerialInv
<1> SUFFICES ASSUME Init PROVE Serial
  BY DEF SerialInv
<1>1. Active = {} /\ Cached = {} /\ Loose(Nobody) = {} /\ Len(caches) = 0 /\ Len(order) = 0
  BY DEF Init, Active, Cached, Loose
<1>2. IsFiniteSet({}) /\ Cardinality({}) = 0
  BY FS_EmptySet
<1>3. Cardinality({}) <= MaxSessions /\ Cardinality({}) <= MaxRunners
  BY <1>2, BoundsAssumption
<1>4. IsFiniteSet(Active) /\ Cardinality(Active) <= MaxSessions
  BY <1>1, <1>2, <1>3, Zenon
<1>5. SessionsExact(Nobody)
  BY <1>1, <1>4 DEF SessionsExact
<1>6. IsFiniteSet(Cached) /\ Cardinality(Cached) <= MaxRunners
  BY <1>1, <1>2, <1>3, Zenon
<1>7. Distinct(order) /\ Members(order) = {}
  BY <1>1 DEF Distinct, Members
<1>8. RunnersExact(Nobody)
  BY <1>1, <1>6, <1>7 DEF RunnersExact
<1>9. CachesExact(Nobody)
  BY <1>1 DEF CachesExact, Found
<1> QED BY <1>5, <1>8, <1>9 DEF Serial, Exact, Init

LEMMA NextSerial ==
  ASSUME Inv, SerialInv, [Next]_vars
  PROVE  SerialInv'
<1> SUFFICES ASSUME "overlap" \notin happened'
             PROVE  Serial'
  BY DEF SerialInv
<1>1. "overlap" \notin happened /\ Serial
  BY OverlapLasts DEF SerialInv
\* The task of w is the only one after a step that leaves it exact.
<1>2. ASSUME NEW w \in Workers, StaysExact(w), \A v \in Workers \ {w} : worker'[v] = Nobody
      PROVE  Serial'
  <2>1. Alone(w)'
    BY <1>2 DEF Alone
  <2>2. ASSUME NEW v \in Workers, worker'[v] # Nobody
        PROVE  Alone(v)' /\ Exact(worker[v])'
    <3>1. v = w
      BY <1>2, <2>2
    <3> QED BY <1>2, <2>1, <3>1 DEF StaysExact
  <2>3. ASSUME worker'[w] = Nobody
        PROVE  Exact(Nobody)'
    BY <1>2, <2>3 DEF StaysExact, Exact, SessionsExact, RunnersExact, CachesExact, CacheExact,
                      Using, InUse, Found, Loose
  <2> QED BY <1>2, <2>2, <2>3 DEF Serial, StaysExact
<1>3. CASE UNCHANGED vars
  BY <1>1, <1>3 DEF vars, Serial, Alone, Exact, SessionsExact, Active, RunnersExact, Cached,
                    CachesExact, CacheExact, Found
<1>4. ASSUME NEW w \in Workers, NEW x \in Tokens, NEW q \in Requests,
             NEW n \in 0 .. Len(caches), Start(w, x, q, n)
      PROVE  Serial'
  <2>1. \A v \in Workers : worker[v] = Nobody
    BY <1>4 DEF Start
  <2>2. StaysExact(w)
    BY <1>1, <1>4, <2>1, StartExact DEF Serial
  <2>3. \A v \in Workers \ {w} : worker'[v] = Nobody
    BY <1>4, <2>1 DEF Start, Inv, TypeOK
  <2> QED BY <1>2, <2>2, <2>3
<1>5. ASSUME NEW w \in Workers, SessionStep(w) \/ FetchStep(w) \/ RunnerStep(w)
      PROVE  Serial'
  <2>1. worker[w] # Nobody /\ \A v \in Workers \ {w} : worker'[v] = worker[v]
    BY <1>5, StepIsOfOne
  <2>2. Alone(w) /\ Exact(worker[w]) /\ "broken" \notin happened
    BY <1>1, <2>1 DEF Serial
  <2>3. StaysExact(w)
    BY <1>5, <2>2, SessionStepExact, FetchStepExact
  <2> QED BY <1>2, <2>1, <2>2, <2>3 DEF Alone
<1> QED BY <1>3, <1>4, <1>5 DEF Next

\* With one worker at a time, for every limit: no structure breaks, which takes that the two
\* orders hold each entry once and exactly what is stored, that eviction therefore finds
\* what it looks for, and that the constructor of TaskSession makes room for one session.
THEOREM SerialStaysExact == Spec => []SerialIsExact
<1>1. SerialInv => SerialIsExact
  <2> SUFFICES ASSUME Serial PROVE SerialIsExact
    BY DEF SerialInv, SerialIsExact
  <2>1. PICK t : \/ t = Nobody /\ \A w \in Workers : worker[w] = Nobody
                 \/ \E w \in Workers : worker[w] # Nobody /\ t = worker[w]
    OBVIOUS
  <2>2. Exact(t) /\ "broken" \notin happened
    BY <2>1 DEF Serial
  <2>3. Cardinality(Active) <= MaxSessions
    BY <2>2 DEF Exact, SessionsExact
  <2>4. (\A w \in Workers : worker[w] = Nobody \/ At(w, "run")) => Cardinality(Cached) <= MaxRunners
    BY <2>1, <2>2 DEF Exact, RunnersExact, At
  <2>5. "saved_again" \notin happened =>
          \A c \in 1 .. Len(caches) : Cardinality(caches[c].items) <= MaxItems
    BY <2>2 DEF Exact, CachesExact, CacheExact
  <2> QED BY <2>2, <2>3, <2>4, <2>5 DEF SerialIsExact
<1>2. Inv /\ SerialInv /\ [Next]_vars => SerialInv'
  BY NextSerial
<1> QED BY <1>1, <1>2, InitSerial, Invariance, PTL DEF Spec

=============================================================================
