---------------------------- MODULE WorkerMemory ----------------------------
(***************************************************************************)
(* What the worker threads of one process share in memory while they run   *)
(* executions: the data caches of sessions (TaskSession, DataCache), the   *)
(* cache of runners (algorithm_cache around TaskHandler's fetch of an      *)
(* algorithm), the modules that ZipImporter extracts for the process, and  *)
(* the runners made of them.                                               *)
(*                                                                         *)
(* A lock guards the changes of sessions, and one an extraction; loads     *)
(* from a session and the whole cache of runners have none. There every    *)
(* statement on a shared object is a step of its own, and statements that  *)
(* commute with those of other threads are joined.                         *)
(***************************************************************************)
EXTENDS Naturals, Sequences, FiniteSets

CONSTANTS
  Workers,      \* worker_number
  Tokens,       \* session tokens
  Keys,         \* of items in a session
  Requests,     \* the arguments of the cached fetch: record, device, checkpoint, version
  MaxSessions,  \* max_number_of_data_caches
  MaxItems,     \* max_cache_size
  MaxRunners,   \* algorithm_cache_maxsize
  MaxTasks, MaxUses, MaxCaches, \* bounds: tasks, what each does, caches ever made
  Nobody        \* what stands for no worker, key or request

ASSUME BoundsAssumption ==
  /\ MaxSessions \in Nat \ {0} /\ MaxItems \in Nat \ {0} /\ MaxRunners \in Nat \ {0}
  /\ MaxTasks \in Nat /\ MaxUses \in Nat /\ MaxCaches \in Nat

ASSUME NobodyAssumption == Nobody \notin Workers \cup Keys \cup Requests

VARIABLES
  sessions,  \* data_caches: sessions[x] is the number of the cache of token x, or 0
  caches,    \* the caches made so far, oldest first, those that were evicted included
  lock,      \* who holds TaskSession._lock
  fetched,   \* the cache of runners: fetched[q] is the number of a runner, or 0
  order,     \* access_order
  runners,   \* the runners loaded so far
  modules,   \* modules[q]: how much of the module for q is in the cache directory
  worker,    \* worker[w]: the task w runs and how far it is
  tasks,     \* how many tasks were started
  (* History *)
  happened   \* what went on that makes the limits void

vars == <<sessions, caches, lock, fetched, order, runners, modules, worker, tasks, happened>>

memory == <<sessions, caches, lock>>

algorithms == <<fetched, order, runners, modules>>

-----------------------------------------------------------------------------

Places ==
  {"idle",
   "look_up", "touch", "retouch", "take",            \* the cache of runners: a hit
   "extract", "load", "enter", "append", "limit", "drop", \* and a miss
   "initialize", "init", "end_init", "run",           \* the runner
   "pop", "del", "forget", "store", "append_key",     \* add_item, remove_item
   "move", "move_back", "get"}                        \* DataCache.__getitem__

\* key, cache: the item and the cache that are being used; victim: the key to remove;
\* uses: what the task did with its session and its runner so far.
Task ==
  [at: Places, token: Tokens, request: Requests, runner: Nat, key: Keys \cup {Nobody},
   cache: Nat, victim: Keys \cup Requests \cup {Nobody}, uses: 0 .. MaxUses]

ASSUME TaskAssumption == Nobody \notin Task

Cache == [items: SUBSET Keys, order: Seq(Keys)]

\* for: what it was loaded for; whole: from a whole module; initializing: its _initializing.
Runner == [for: Requests, whole: BOOLEAN, initializing: BOOLEAN]

Extents == {"none", "part", "whole"}

At(w, place) == worker[w] # Nobody /\ worker[w].at = place

Move(w, place) == worker' = [worker EXCEPT ![w].at = place]

Members(s) == {s[i] : i \in 1 .. Len(s)}

\* list.remove: the first occurrence goes.
Without(s, x) ==
  LET i == CHOOSE j \in 1 .. Len(s) : s[j] = x /\ \A l \in 1 .. j - 1 : s[l] # x
  IN  SubSeq(s, 1, i - 1) \o SubSeq(s, i + 1, Len(s))

\* A Python error of the caches themselves ends the task: ValueError, IndexError, or the
\* KeyError of an entry that was there a moment ago.
Break(w) ==
  /\ worker' = [worker EXCEPT ![w] = Nobody]
  /\ happened' = happened \cup {"broken"}

-----------------------------------------------------------------------------
(* Sessions *)

Active == {x \in Tokens : sessions[x] # 0}

\* The caches older than expire_hours go, which are the oldest n.
Unexpired(n) == [x \in Tokens |-> IF sessions[x] <= n THEN 0 ELSE sessions[x]]

BugMakeRoom(S) == S  \* Mutant: sessions are only expired.

\* If there are too many, the oldest of the rest goes, whoever uses it.
MakeRoom(S) ==
  LET left == {S[x] : x \in Tokens} \ {0}
      oldest == CHOOSE c \in left : \A d \in left : c <= d
  IN  IF Cardinality(left) < MaxSessions THEN S
      ELSE [x \in Tokens |-> IF S[x] = oldest THEN 0 ELSE S[x]]

\* A worker takes a task: the constructor of TaskSession, then fetch_algorithm reads the
\* record of the algorithm.
Start(w, x, q, n) ==
  /\ tasks < MaxTasks
  /\ worker[w] = Nobody
  /\ lock = Nobody
  /\ tasks' = tasks + 1
  /\ sessions' = MakeRoom(Unexpired(n))
  /\ worker' = [worker EXCEPT ![w] =
       [at |-> "look_up", token |-> x, request |-> q, runner |-> 0, key |-> Nobody,
        cache |-> 0, victim |-> Nobody, uses |-> 0]]
  /\ happened' = IF \A v \in Workers \ {w} : worker[v] = Nobody
                 THEN happened ELSE happened \cup {"overlap"}
  /\ UNCHANGED <<caches, lock, algorithms>>

\* The algorithm uses an item of its session.
Use(w, k, place, c) ==
  worker' = [worker EXCEPT ![w].at = place, ![w].key = k, ![w].cache = c, ![w].uses = @ + 1]

CanUse(w) == At(w, "run") /\ worker[w].uses < MaxUses

\* The use of an item is over.
Done(w) ==
  worker' = [worker EXCEPT ![w].at = "run", ![w].key = Nobody, ![w].cache = 0,
                           ![w].victim = Nobody]

Full(c) == Cardinality(c.items) >= MaxItems

EmptyCache == [items |-> {}, order |-> << >>]

\* add_item takes the lock, makes the cache if there is none, and evicts if it is full.
Save(w, k) ==
  LET x == worker[w].token
      new == sessions[x] = 0
      c == IF new THEN Len(caches) + 1 ELSE sessions[x]
      kept == IF new THEN Append(caches, EmptyCache) ELSE caches
  IN  /\ CanUse(w)
      /\ lock = Nobody
      /\ c <= MaxCaches
      /\ lock' = w
      /\ sessions' = [sessions EXCEPT ![x] = c]
      /\ caches' = kept
      /\ Use(w, k, IF Full(kept[c]) THEN "pop" ELSE "store", c)
      /\ happened' = IF k \in kept[c].items THEN happened \cup {"saved_again"} ELSE happened
      /\ UNCHANGED <<algorithms, tasks>>

Pop(w) ==
  LET c == worker[w].cache
  IN  /\ At(w, "pop")
      /\ IF caches[c].order = << >>
         THEN Break(w) /\ lock' = Nobody /\ UNCHANGED caches
         ELSE /\ worker' = [worker EXCEPT ![w].at = "del", ![w].victim = Head(caches[c].order)]
              /\ caches' = [caches EXCEPT ![c].order = Tail(@)]
              /\ UNCHANGED <<lock, happened>>
      /\ UNCHANGED <<sessions, algorithms, tasks>>

\* remove_item, which an algorithm may call; that there is no cache ends the task.
Remove(w, k) ==
  LET c == sessions[worker[w].token]
  IN  /\ CanUse(w)
      /\ lock = Nobody
      /\ IF c = 0
         THEN worker' = [worker EXCEPT ![w] = Nobody] /\ UNCHANGED lock
         ELSE /\ lock' = w
              /\ worker' = [worker EXCEPT ![w].at = "del", ![w].cache = c, ![w].victim = k,
                                          ![w].uses = @ + 1]
      /\ UNCHANGED <<sessions, caches, algorithms, tasks, happened>>

BugAfterRemoval(w) == Move(w, "store") /\ UNCHANGED lock  \* Mutant: it always stores.

\* What follows remove_item: the rest of add_item, or nothing.
AfterRemoval(w) ==
  IF worker[w].key = Nobody THEN Done(w) /\ lock' = Nobody
  ELSE Move(w, "store") /\ UNCHANGED lock

Del(w) ==
  LET c == worker[w].cache
      k == worker[w].victim
  IN  /\ At(w, "del")
      /\ caches' = [caches EXCEPT ![c].items = @ \ {k}]
      /\ IF k \in caches[c].items \cap Members(caches[c].order)
         THEN Move(w, "forget") /\ UNCHANGED lock
         ELSE AfterRemoval(w)
      /\ UNCHANGED <<sessions, algorithms, tasks, happened>>

Forget(w) ==
  LET c == worker[w].cache
      k == worker[w].victim
  IN  /\ At(w, "forget")
      /\ IF k \in Members(caches[c].order)
         THEN /\ caches' = [caches EXCEPT ![c].order = Without(@, k)]
              /\ AfterRemoval(w)
              /\ UNCHANGED happened
         ELSE Break(w) /\ lock' = Nobody /\ UNCHANGED caches
      /\ UNCHANGED <<sessions, algorithms, tasks>>

Store(w) ==
  /\ At(w, "store")
  /\ caches' = [caches EXCEPT ![worker[w].cache].items = @ \cup {worker[w].key}]
  /\ Move(w, "append_key")
  /\ UNCHANGED <<sessions, lock, algorithms, tasks, happened>>

AppendKey(w) ==
  /\ At(w, "append_key")
  /\ caches' = [caches EXCEPT ![worker[w].cache].order = Append(@, worker[w].key)]
  /\ lock' = Nobody
  /\ Done(w)
  /\ UNCHANGED <<sessions, algorithms, tasks, happened>>

\* A load takes no lock. That nothing is there to load ends the task, which is as it
\* should be.
Load(w, k) ==
  LET c == sessions[worker[w].token]
  IN  /\ CanUse(w)
      /\ IF c # 0 /\ k \in caches[c].items
         THEN Use(w, k, "move", c)
         ELSE worker' = [worker EXCEPT ![w] = Nobody]
      /\ UNCHANGED <<memory, algorithms, tasks, happened>>

MoveKey(w) ==
  LET c == worker[w].cache
      k == worker[w].key
  IN  /\ At(w, "move")
      /\ IF k \in Members(caches[c].order)
         THEN /\ caches' = [caches EXCEPT ![c].order = Without(@, k)]
              /\ Move(w, "move_back")
              /\ UNCHANGED happened
         ELSE Break(w) /\ UNCHANGED caches
      /\ UNCHANGED <<sessions, lock, algorithms, tasks>>

MoveBack(w) ==
  /\ At(w, "move_back")
  /\ caches' = [caches EXCEPT ![worker[w].cache].order = Append(@, worker[w].key)]
  /\ Move(w, "get")
  /\ UNCHANGED <<sessions, lock, algorithms, tasks, happened>>

Get(w) ==
  /\ At(w, "get")
  /\ IF worker[w].key \in caches[worker[w].cache].items
     THEN Done(w) /\ UNCHANGED happened
     ELSE Break(w)
  /\ UNCHANGED <<memory, algorithms, tasks>>

-----------------------------------------------------------------------------
(* The cache of runners *)

\* The reprs of all arguments.
KeyOf(q) == q

KeyFor(w) == KeyOf(worker[w].request)

LookUp(w) ==
  /\ At(w, "look_up")
  /\ Move(w, IF fetched[KeyFor(w)] # 0 THEN "touch" ELSE "extract")
  /\ UNCHANGED <<memory, algorithms, tasks, happened>>

\* There is no such algorithm.
NotFound(w) ==
  /\ At(w, "look_up")
  /\ worker' = [worker EXCEPT ![w] = Nobody]
  /\ UNCHANGED <<memory, algorithms, tasks, happened>>

Touch(w) ==
  /\ At(w, "touch")
  /\ IF KeyFor(w) \in Members(order)
     THEN order' = Without(order, KeyFor(w)) /\ Move(w, "retouch") /\ UNCHANGED happened
     ELSE Break(w) /\ UNCHANGED order
  /\ UNCHANGED <<memory, fetched, runners, modules, tasks>>

Retouch(w) ==
  /\ At(w, "retouch")
  /\ order' = Append(order, KeyFor(w))
  /\ Move(w, "take")
  /\ UNCHANGED <<memory, fetched, runners, modules, tasks, happened>>

Take(w) ==
  /\ At(w, "take")
  /\ IF fetched[KeyFor(w)] # 0
     THEN /\ worker' = [worker EXCEPT ![w].at = "initialize", ![w].runner = fetched[KeyFor(w)]]
          /\ UNCHANGED happened
     ELSE Break(w)
  /\ UNCHANGED <<memory, algorithms, tasks>>

\* A miss resolves the device, which may be one that the algorithm does not support.
NoDevice(w) ==
  /\ At(w, "extract")
  /\ worker' = [worker EXCEPT ![w] = Nobody]
  /\ UNCHANGED <<memory, algorithms, tasks, happened>>

\* ZipImporter extracts a module that has no directory yet, in a critical section; the
\* directory stays there when that fails.
Extract(w) ==
  LET q == worker[w].request
  IN  /\ At(w, "extract")
      /\ \/ modules[q] = "none" /\ modules' = [modules EXCEPT ![q] = "whole"] /\ Move(w, "load")
         \/ /\ modules[q] = "none"
            /\ modules' = [modules EXCEPT ![q] = "part"]
            /\ worker' = [worker EXCEPT ![w] = Nobody]
         \/ modules[q] # "none" /\ Move(w, "load") /\ UNCHANGED modules
      /\ UNCHANGED <<memory, fetched, order, runners, tasks, happened>>

BugVerified(q) == TRUE  \* Mutant: what is in the cache directory is trusted.

\* _verify_module_integrity compares every member of the archive with its file.
Verified(q) == modules[q] = "whole"

\* The module is imported and the assets are loaded into a new runner nobody else has; or
\* an error ends the task.
LoadRunner(w) ==
  LET q == worker[w].request
  IN  /\ At(w, "load")
      /\ Verified(q)
      /\ runners' = Append(runners, [for |-> q, whole |-> modules[q] = "whole",
                                     initializing |-> FALSE])
      /\ worker' = [worker EXCEPT ![w].at = "enter", ![w].runner = Len(runners) + 1]
      /\ UNCHANGED <<memory, fetched, order, modules, tasks, happened>>

LoadFails(w) ==
  /\ At(w, "load")
  /\ worker' = [worker EXCEPT ![w] = Nobody]
  /\ UNCHANGED <<memory, algorithms, tasks, happened>>

Enter(w) ==
  /\ At(w, "enter")
  /\ fetched' = [fetched EXCEPT ![KeyFor(w)] = worker[w].runner]
  /\ Move(w, "append")
  /\ UNCHANGED <<memory, order, runners, modules, tasks, happened>>

AppendRunner(w) ==
  /\ At(w, "append")
  /\ order' = Append(order, KeyFor(w))
  /\ Move(w, "limit")
  /\ UNCHANGED <<memory, fetched, runners, modules, tasks, happened>>

Cached == {q \in Requests : fetched[q] # 0}

\* The test of the while loop, and popleft.
Limit(w) ==
  /\ At(w, "limit")
  /\ IF Cardinality(Cached) <= MaxRunners
     THEN Move(w, "initialize") /\ UNCHANGED <<order, happened>>
     ELSE IF order = << >> THEN Break(w) /\ UNCHANGED order
     ELSE /\ worker' = [worker EXCEPT ![w].at = "drop", ![w].victim = Head(order)]
          /\ order' = Tail(order)
          /\ UNCHANGED happened
  /\ UNCHANGED <<memory, fetched, runners, modules, tasks>>

\* Mutant: the runner leaves the order but not the cache.
BugDrop(w) ==
  /\ At(w, "drop")
  /\ worker' = [worker EXCEPT ![w].at = "limit", ![w].victim = Nobody]
  /\ UNCHANGED <<memory, algorithms, tasks, happened>>

Drop(w) ==
  /\ At(w, "drop")
  /\ IF fetched[worker[w].victim] # 0
     THEN /\ fetched' = [fetched EXCEPT ![worker[w].victim] = 0]
          /\ worker' = [worker EXCEPT ![w].at = "limit", ![w].victim = Nobody]
          /\ UNCHANGED happened
     ELSE Break(w) /\ UNCHANGED fetched
  /\ UNCHANGED <<memory, order, runners, modules, tasks>>

-----------------------------------------------------------------------------
(* Runners, which threads share *)

SetInitializing(w, flag) ==
  runners' = [runners EXCEPT ![worker[w].runner].initializing = flag]

Initialize(w) ==
  /\ At(w, "initialize")
  /\ SetInitializing(w, TRUE)
  /\ Move(w, "init")
  /\ UNCHANGED <<memory, fetched, order, modules, tasks, happened>>

\* __init__ assigns to attributes that load_assets has set: ignored, or AttributeError.
InitRunner(w) ==
  /\ At(w, "init")
  /\ IF runners[worker[w].runner].initializing
     THEN Move(w, "end_init") /\ UNCHANGED happened
     ELSE Break(w)
  /\ UNCHANGED <<memory, algorithms, tasks>>

EndInit(w) ==
  /\ At(w, "end_init")
  /\ SetInitializing(w, FALSE)
  /\ Move(w, "run")
  /\ UNCHANGED <<memory, fetched, order, modules, tasks, happened>>

\* The algorithm does the same while it runs, and should be told.
Assign(w) ==
  /\ CanUse(w)
  /\ worker' = [worker EXCEPT ![w] = Nobody]
  /\ happened' = IF runners[worker[w].runner].initializing
                 THEN happened \cup {"broken"} ELSE happened
  /\ UNCHANGED <<memory, algorithms, tasks>>

Finish(w) ==
  /\ At(w, "run")
  /\ worker' = [worker EXCEPT ![w] = Nobody]
  /\ UNCHANGED <<memory, algorithms, tasks, happened>>

-----------------------------------------------------------------------------

Init ==
  /\ sessions = [x \in Tokens |-> 0] /\ caches = << >> /\ lock = Nobody
  /\ fetched = [q \in Requests |-> 0] /\ order = << >> /\ runners = << >>
  /\ modules = [q \in Requests |-> "none"]
  /\ worker = [w \in Workers |-> Nobody]
  /\ tasks = 0 /\ happened = {}

SessionStep(w) ==
  \/ \E k \in Keys : Save(w, k) \/ Remove(w, k) \/ Load(w, k)
  \/ Pop(w) \/ Del(w) \/ Forget(w) \/ Store(w) \/ AppendKey(w)
  \/ MoveKey(w) \/ MoveBack(w) \/ Get(w)

FetchStep(w) ==
  \/ NotFound(w) \/ LookUp(w) \/ Touch(w) \/ Retouch(w) \/ Take(w)
  \/ NoDevice(w) \/ Extract(w) \/ LoadRunner(w) \/ LoadFails(w)
  \/ Enter(w) \/ AppendRunner(w) \/ Limit(w) \/ Drop(w)

RunnerStep(w) == Initialize(w) \/ InitRunner(w) \/ EndInit(w) \/ Assign(w) \/ Finish(w)

Next ==
  \E w \in Workers :
    \/ \E x \in Tokens, q \in Requests, n \in 0 .. Len(caches) : Start(w, x, q, n)
    \/ SessionStep(w)
    \/ FetchStep(w)
    \/ RunnerStep(w)

Spec == Init /\ [][Next]_vars

-----------------------------------------------------------------------------
(* Properties *)

TypeOK ==
  /\ sessions \in [Tokens -> Nat]
  /\ caches \in Seq(Cache)
  /\ lock \in Workers \cup {Nobody}
  /\ fetched \in [Requests -> Nat]
  /\ order \in Seq(Requests)
  /\ runners \in Seq(Runner)
  /\ modules \in [Requests -> Extents]
  /\ worker \in [Workers -> Task \cup {Nobody}]
  /\ tasks \in 0 .. MaxTasks
  /\ happened \subseteq {"overlap", "saved_again", "broken"}

\* Somebody is about to append key k to the order of cache c, or to delete item k from it.
KeyInHand(c, k) ==
  \E w \in Workers :
    /\ worker[w] # Nobody
    /\ worker[w].cache = c
    /\ \/ worker[w].at \in {"move_back", "append_key"} /\ worker[w].key = k
       \/ worker[w].at = "del" /\ worker[w].victim = k

RunnerInHand(q) ==
  \E w \in Workers :
    \/ (At(w, "retouch") \/ At(w, "append")) /\ KeyFor(w) = q
    \/ At(w, "drop") /\ worker[w].victim = q

\* However the threads interleave, nothing in memory becomes unreachable for the eviction
\* that bounds it: an item of a session and a runner are in their order of use, or a
\* thread is about to put them there or to delete them; and nobody dies with the lock.
NothingIsStuck ==
  /\ \A c \in 1 .. Len(caches) : \A k \in caches[c].items :
       k \in Members(caches[c].order) \/ KeyInHand(c, k)
  /\ \A q \in Cached : q \in Members(order) \/ RunnerInHand(q)
  /\ lock # Nobody =>
       \E p \in {"pop", "del", "forget", "store", "append_key"} : At(lock, p)

\* With one worker at a time, which is the default, no structure breaks, no assignment to
\* an attribute of a shared runner is lost, and the numbers of sessions and of runners
\* keep to their limits between tasks. If besides no key is saved twice, a session keeps
\* at most max_cache_size items.
SerialIsExact ==
  "overlap" \notin happened =>
    /\ "broken" \notin happened
    /\ Cardinality(Active) <= MaxSessions
    /\ (\A w \in Workers : worker[w] = Nobody \/ At(w, "run")) => Cardinality(Cached) <= MaxRunners
    /\ "saved_again" \notin happened =>
         \A c \in 1 .. Len(caches) : Cardinality(caches[c].items) <= MaxItems

\* A task runs the runner that was loaded for what it asked for, and never one that was
\* imported from a module of which only a part could be extracted.
RunnerFits ==
  \A w \in Workers :
    worker[w] # Nobody /\ worker[w].runner # 0 =>
      runners[worker[w].runner].for = worker[w].request /\ runners[worker[w].runner].whole

=============================================================================
