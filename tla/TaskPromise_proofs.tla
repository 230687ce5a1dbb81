------------------------- MODULE TaskPromise_proofs -------------------------
(***************************************************************************)
(* Proofs about what a client that polls a task sees: TaskLifecycle        *)
(* implements TaskStatus, and an error mark_as_failed reported is final,   *)
(* for every set of tasks, every pool size and every bound.                *)
(***************************************************************************)
EXTENDS TaskLifecycle_proofs

\* What KeepsPromise needs of the surroundings.  Storage calls may be refused, an existence
\* check may miss a stop request and the broker may lose a task; but no read of a record
\* fails, no write is applied unacknowledged, nobody deletes a record of a task, no algorithm
\* swallows the errors of its handler, and where a write may be refused the process
\* does not restart (a restart purges the emergency store).
PromiseConditions ==
  /\ FaultKinds \subseteq {"refuse", "miss", "broker"}
  /\ MaxDeletes = 0
  /\ CarelessTasks = {}
  /\ "refuse" \in FaultKinds => MaxRestarts = 0

-----------------------------------------------------------------------------
(* The inductive invariant *)

\* The status of a record, by the update its thread is busy with or comes to next.
StatusDuring(f) ==
  IF f = "started" THEN "PENDING"
  ELSE IF f \in {"session", "device", "running"} THEN "STARTED"
  ELSE "RUNNING"

\* The update a thread comes to next where it is not busy with one.
DuePlaces == {"idle", "accepted", "queued", "fetch", "ready", "work"}

Due(place) ==
  CASE place = "fetch" -> "device"
    [] place = "ready" -> "running"
    [] place = "work" -> "report"
    [] OTHER -> "started"

UpdatePlaces == {"read", "reread", "write"}

\* The task goes its way, and nobody has stopped it yet.
OnCourse(h) ==
  \/ h.at \in {"accepted", "queued", "fetch", "ready", "work"}
  \/ h.at \in UpdatePlaces /\ h.field \notin StopFields

\* The task is being marked as failed or stopped, and is not stopped yet.
Failing(h) ==
  \/ h.at \in MarkPlaces \union {"stop_clear"}
  \/ h.at \in UpdatePlaces /\ h.field \in StopFields

\* h, r, f: the thread, the record and the fallback record of one task.  A task that is
\* on its course has the status of its place, no fallback record and its logger sink; one
\* that is failing is not COMPLETED or STOPPED; fallback records are those of failures.
PromiseOK(h, r, f) ==
  /\ r # NoRecord => r.readable
  /\ f # NoRecord => f.readable /\ f.status = "FAILED"
  /\ "refuse" \notin FaultKinds => f = NoRecord
  /\ IF h.at = "idle" THEN r = NoRecord /\ f = NoRecord
     ELSE r # NoRecord \/ (f # NoRecord /\ h.at = "done")
  /\ h.at \in DuePlaces => h.field = Due(h.at)
  /\ OnCourse(h) \/ h.at \in {"idle", "close"} => h.sink /\ f = NoRecord
  /\ OnCourse(h) => h.field \notin StopFields /\ r.status = StatusDuring(h.field)
  /\ h.at = "close" => r.status = "COMPLETED"
  /\ Failing(h) => r.status \in Active \union {"FAILED"}
  /\ h.at \in MarkPlaces => h.after \in {"done", "stop_clear"}
  /\ h.at = "mark_clear" => r.status = "FAILED"
  /\ h.at = "mark_spill" => "refuse" \in FaultKinds
  /\ h.at \in {"write", "mark_put", "mark_spill"} => h.copy.readable
  /\ h.at \in {"mark_put", "mark_spill"} => h.copy.status = "FAILED"

PromiseInv ==
  /\ \A t \in Tasks : PromiseOK(handler[t], record[t], fallback[t])
  /\ \A t \in stopping : record[t] # NoRecord

\* What a client is told, in terms of the record and the fallback record.
View(r, f) ==
  IF r = NoRecord THEN IF f = NoRecord THEN "NOT_FOUND" ELSE "FAILED"
  ELSE IF f = NoRecord \/ r.status \in Terminal THEN r.status ELSE "FAILED"

Requested(t) == t \in stopRequests \/ handler[t].acknowledged

\* The changes of the status that TaskStatus allows.
Legal(v, w, requested) ==
  \/ w = v
  \/ v = "NOT_FOUND" /\ w \in {"PENDING", "FAILED"}
  \/ v = "PENDING" /\ w = "STARTED"
  \/ v = "STARTED" /\ w = "RUNNING"
  \/ v = "RUNNING" /\ w = "COMPLETED"
  \/ v \in Active /\ w = "FAILED"
  \/ v \in Active \union {"FAILED"} /\ w = "STOPPED" /\ requested

\* A step after which all is as PromiseInv says and, to the clients, at most the status
\* of t has changed, in a way TaskStatus allows; nobody asked for a stop.
ClientStep(t) ==
  /\ PromiseInv'
  /\ \A s \in Tasks : Requested(s)' <=> Requested(s)
  /\ \A s \in Tasks \ {t} : View(record'[s], fallback'[s]) = View(record[s], fallback[s])
  /\ Legal(View(record[t], fallback[t]), View(record'[t], fallback'[t]), Requested(t))

-----------------------------------------------------------------------------
(* Steps *)

\* The thread of t moves on and nothing of another task changes: only t matters.
LEMMA PromiseFrame ==
  ASSUME TypeInv, PromiseInv, NEW t \in Tasks, NEW h, Thread(t, h), UNCHANGED stopping,
         \A s \in Tasks : s # t =>
           /\ record'[s] = record[s] /\ fallback'[s] = fallback[s]
           /\ s \in stopRequests' <=> s \in stopRequests,
         PromiseOK(h, record'[t], fallback'[t]),
         record[t] # NoRecord => record'[t] # NoRecord,
         (t \in stopRequests' \/ h.acknowledged) <=> Requested(t),
         Legal(View(record[t], fallback[t]), View(record'[t], fallback'[t]), Requested(t))
  PROVE  ClientStep(t)
<1>1. handler'[t] = h /\ \A s \in Tasks : s # t => handler'[s] = handler[s]
  BY DEF Thread, TypeInv, TypeOK
<1>2. PromiseInv'
  BY <1>1 DEF PromiseInv, TypeInv, TypeOK
<1>3. \A s \in Tasks : Requested(s)' <=> Requested(s)
  BY <1>1 DEF Requested
<1> QED
  BY <1>2, <1>3 DEF ClientStep

\* Only the primary storage, and only the record of t, or neither store changes.
LEMMA StoresApart ==
  ASSUME TypeInv, NEW t \in Tasks, NEW r, UNCHANGED <<fallback, stopRequests>>,
         UNCHANGED record \/ Store(t, r)
  PROVE  /\ \A s \in Tasks : s # t =>
              /\ record'[s] = record[s] /\ fallback'[s] = fallback[s]
              /\ s \in stopRequests' <=> s \in stopRequests
         /\ fallback'[t] = fallback[t]
         /\ Store(t, r) => record'[t] = r
BY StoreOnly

\* What holds in the places of an update.
LEMMA PlacesApart ==
  ASSUME NEW h
  PROVE  /\ h.at \in UpdatePlaces => (OnCourse(h) <=> h.field \notin StopFields)
         /\ h.at \in UpdatePlaces => (Failing(h) <=> h.field \in StopFields)
         /\ h.at \in {"accepted", "queued", "fetch", "ready", "work"} =>
              OnCourse(h) /\ ~Failing(h)
         /\ h.at \in MarkPlaces \union {"stop_clear"} => Failing(h) /\ ~OnCourse(h)
         /\ h.at \in {"idle", "stopped", "close", "done", "dead"} =>
              ~OnCourse(h) /\ ~Failing(h)
BY DEF OnCourse, Failing, UpdatePlaces, MarkPlaces

\* A task on its course is active, and one that is failing is active or failed.
LEMMA CourseIsActive ==
  ASSUME NEW h, NEW r, NEW f, PromiseOK(h, r, f), OnCourse(h) \/ Failing(h)
  PROVE  /\ r # NoRecord /\ r.status \in Active \union {"FAILED"}
         /\ View(r, f) \in Active \union {"FAILED"}
<1>1. h.at \notin {"idle", "done"}
  BY DEF OnCourse, Failing, UpdatePlaces, MarkPlaces
<1>2. r # NoRecord
  BY <1>1 DEF PromiseOK
<1>3. r.status \in Active \union {"FAILED"}
  BY DEF PromiseOK, StatusDuring, Active
<1> QED
  BY <1>2, <1>3 DEF View

\* An exception starts on its way up: the clients do not notice yet.
LEMMA PromiseMark ==
  ASSUME TypeInv, PromiseInv, NEW t \in Tasks, NEW n, NEW after \in {"done", "stop_clear"},
         MarkAsFailed(t, n, after), OnCourse(handler[t]) \/ Failing(handler[t]),
         UNCHANGED <<record, fallback, stopRequests, stopping>>
  PROVE  ClientStep(t)
<1> DEFINE h == [handler[t] EXCEPT !.at = "mark_read", !.marks = n, !.after = after]
<1>1. handler[t] \in Handler
  BY DEF TypeInv, TypeOK
<1>2. h.at = "mark_read" /\ h.after = after /\ h.acknowledged = handler[t].acknowledged
  BY <1>1 DEF Handler
<1>3. Thread(t, h)
  BY DEF MarkAsFailed
<1>4. PromiseOK(handler[t], record[t], fallback[t])
  BY DEF PromiseInv
<1> HIDE DEF h
<1>5. PromiseOK(h, record[t], fallback[t])
  BY <1>2, <1>4, PlacesApart, CourseIsActive DEF PromiseOK, MarkPlaces, DuePlaces
<1>6. Legal(View(record[t], fallback[t]), View(record'[t], fallback'[t]), Requested(t))
  BY DEF Legal
<1> QED
  BY <1>2, <1>3, <1>5, <1>6, PromiseFrame DEF Requested

\* The thread goes to another place and the clients do not notice.
LEMMA PromiseGoto ==
  ASSUME TypeInv, PromiseInv, NEW t \in Tasks, NEW place, NEW f, Goto(t, place, f),
         UNCHANGED <<record, fallback, stopRequests, stopping>>,
         record[t] # NoRecord,
         \/ place = "done"
         \/ place = "queued" /\ f = Due("queued")
         \/ place = "read" /\ f \notin StopFields,
         place # "done" =>
           OnCourse(handler[t]) /\ StatusDuring(f) = StatusDuring(handler[t].field)
  PROVE  ClientStep(t)
<1> DEFINE h == [handler[t] EXCEPT !.at = place, !.field = f]
<1>1. handler[t] \in Handler
  BY DEF TypeInv, TypeOK
<1>2. /\ h.at = place /\ h.field = f /\ h.sink = handler[t].sink
      /\ h.acknowledged = handler[t].acknowledged
  BY <1>1 DEF Handler
<1>3. Thread(t, h)
  BY DEF Goto
<1>4. PromiseOK(handler[t], record[t], fallback[t])
  BY DEF PromiseInv
<1> HIDE DEF h
<1>5. PromiseOK(h, record[t], fallback[t])
  BY <1>2, <1>4, PlacesApart DEF PromiseOK, MarkPlaces, UpdatePlaces, DuePlaces, Due, StopFields
<1>6. Legal(View(record[t], fallback[t]), View(record'[t], fallback'[t]), Requested(t))
  BY DEF Legal
<1> QED
  BY <1>2, <1>3, <1>5, <1>6, PromiseFrame DEF Requested

\* An exception of an update leads to a stop's end or to the end of the task.
LEMMA PromiseRaise ==
  ASSUME PromiseConditions, TypeInv, PromiseInv, NEW t \in Tasks, RaiseError(t),
         handler[t].at \in UpdatePlaces,
         UNCHANGED <<record, fallback, stopRequests, stopping>>
  PROVE  ClientStep(t)
<1>1. PICK u \in Unwind(t, handler[t].field, handler[t].origin) :
        MarkAsFailed(t, u.marks, u.after)
  BY DEF RaiseError
<1>2. u.after \in {"done", "stop_clear"}
  BY DEF Unwind, CanCatch, PromiseConditions
<1> QED
  BY <1>1, <1>2, PlacesApart, PromiseMark

\* The record a field update leaves is as readable as the one it found.
LEMMA UpdatedReadable ==
  ASSUME NEW r \in Record, NEW f
  PROVE  Updated(r, f).readable = r.readable
BY DEF Updated, Record

\* The status a field update leaves, one by one.
LEMMA StatusCases ==
  ASSUME NEW r \in Record, NEW f \in Fields \ StopFields
  PROVE  StatusAfter(r, f) =
           IF f = "started" THEN "STARTED" ELSE IF f = "running" THEN "RUNNING"
           ELSE IF f = "completed" THEN "COMPLETED" ELSE r.status
BY DEF StatusAfter, StatusSetBy, Fields, StopFields

\* The status during the update that follows is the status the update leaves.
LEMMA StatusFollows ==
  ASSUME NEW t \in Tasks, NEW r \in Record, NEW f \in Fields \ StopFields,
         r.status = StatusDuring(f)
  PROVE  /\ f # "completed" =>
              /\ Follow(t, f).at \in {"read", "fetch", "ready", "work"}
              /\ Follow(t, f).field \in Fields \ StopFields
              /\ Follow(t, f).at \in DuePlaces => Follow(t, f).field = Due(Follow(t, f).at)
              /\ StatusAfter(r, f) = StatusDuring(Follow(t, f).field)
         /\ f = "completed" => Follow(t, f).at = "close" /\ StatusAfter(r, f) = "COMPLETED"
<1>1. /\ f # "completed" =>
           /\ Follow(t, f).at \in {"read", "fetch", "ready", "work"}
           /\ Follow(t, f).field \in Fields \ StopFields
           /\ Follow(t, f).at \in DuePlaces => Follow(t, f).field = Due(Follow(t, f).at)
      /\ f = "completed" => Follow(t, f).at = "close"
  BY DEF Follow, Fields, StopFields, DuePlaces, Due
<1>2. f # "completed" =>
        StatusDuring(Follow(t, f).field) =
          IF f = "started" THEN "STARTED" ELSE IF f = "running" THEN "RUNNING"
          ELSE StatusDuring(f)
  BY DEF Follow, Fields, StopFields, StatusDuring
<1> QED
  BY <1>1, <1>2, StatusCases

\* So it is with the updates of a stop, the last of which sets the status.
LEMMA StopFollows ==
  ASSUME NEW t \in Tasks, NEW r \in Record, NEW f \in StopFields
  PROVE  /\ f # "stop_status" =>
              /\ Follow(t, f).at \in {"read", "stop_clear"}
              /\ Follow(t, f).field \in StopFields
              /\ StatusAfter(r, f) = r.status
         /\ f = "stop_status" => Follow(t, f).at = "stopped" /\ StatusAfter(r, f) = "STOPPED"
<1>1. /\ f # "stop_status" =>
           Follow(t, f).at \in {"read", "stop_clear"} /\ Follow(t, f).field \in StopFields
      /\ f = "stop_status" => Follow(t, f).at = "stopped"
  BY DEF Follow, StopFields
<1>2. StatusAfter(r, f) = IF f = "stop_status" THEN "STOPPED" ELSE r.status
  BY DEF StatusAfter, StatusSetBy, StopFields
<1> QED
  BY <1>1, <1>2

\* What a field update does to the status a client sees.
LEMMA LegalStatus ==
  ASSUME NEW t \in Tasks, NEW r \in Record, NEW f \in Fields \ StopFields,
         r.status = StatusDuring(f), NEW requested
  PROVE  Legal(r.status, StatusAfter(r, f), requested)
BY StatusCases DEF Legal, StatusDuring

\* The two halves of a field update are steps the clients may see.
LEMMA PromiseUpdate ==
  ASSUME PromiseConditions, TypeInv, StopInv, RecordInv, PromiseInv, NEW t \in Tasks, Update(t)
  PROVE  ClientStep(t)
<1>h. handler[t] \in Handler /\ handler[t].field \in Fields
  BY DEF TypeInv, TypeOK, Handler
<1>r. record[t] # NoRecord => record[t] \in Record
  BY DEF TypeInv, TypeOK
<1>i. PromiseOK(handler[t], record[t], fallback[t])
  BY DEF PromiseInv
<1>j. RecordOK(handler[t], record[t])
  BY DEF RecordInv
<1>p. handler[t].at \in UpdatePlaces => record[t] # NoRecord
  BY <1>i DEF PromiseOK, UpdatePlaces
<1>1. CASE ReadFindsStop(t)
  <2> DEFINE h == [handler[t] EXCEPT !.acknowledged = TRUE, !.origin = handler[t].field,
                                     !.field = "stop_finished"]
  <2>1. h.at = handler[t].at /\ h.field = "stop_finished" /\ h.acknowledged
    BY <1>h DEF Handler
  <2>2. /\ Thread(t, h) /\ UNCHANGED <<record, fallback, stopRequests, stopping>>
        /\ handler[t].at = "read" /\ t \in stopRequests
    BY <1>1 DEF ReadFindsStop, StopPending
  <2> HIDE DEF h
  <2>3. /\ OnCourse(handler[t]) \/ Failing(handler[t])
        /\ Failing(h) /\ ~OnCourse(h)
    BY <2>1, <2>2, PlacesApart DEF UpdatePlaces, StopFields
  <2>4. PromiseOK(h, record[t], fallback[t])
    BY <1>i, <2>1, <2>2, <2>3, CourseIsActive DEF PromiseOK, MarkPlaces, DuePlaces
  <2> QED
    BY <2>1, <2>2, <2>4, PromiseFrame DEF Legal, Requested
<1>2. CASE ReadRecord(t)
  <2> DEFINE place == IF handler[t].field = "checkpoint" THEN "reread" ELSE "write"
             h == [handler[t] EXCEPT !.at = place, !.copy = record[t]]
  <2>1. /\ h.at \in {"reread", "write"} /\ h.field = handler[t].field /\ h.copy = record[t]
        /\ h.sink = handler[t].sink /\ h.acknowledged = handler[t].acknowledged
    BY <1>h DEF Handler
  <2>2. /\ Thread(t, h) /\ UNCHANGED <<record, fallback, stopRequests, stopping>>
        /\ handler[t].at = "read" /\ record[t] # NoRecord
    BY <1>2 DEF ReadRecord
  <2> HIDE DEF h
  <2>3. (OnCourse(handler[t]) <=> OnCourse(h)) /\ (Failing(handler[t]) <=> Failing(h))
    BY <2>1, <2>2, PlacesApart DEF UpdatePlaces
  <2>4. PromiseOK(h, record[t], fallback[t])
    BY <1>i, <2>1, <2>2, <2>3 DEF PromiseOK, MarkPlaces, DuePlaces
  <2> QED
    BY <2>1, <2>2, <2>4, PromiseFrame DEF Legal, Requested
<1>3. CASE RereadRecord(t)
  <2> DEFINE h == [handler[t] EXCEPT !.at = "write", !.copy = record[t]]
  <2>1. /\ h.at = "write" /\ h.field = handler[t].field /\ h.copy = record[t]
        /\ h.sink = handler[t].sink /\ h.acknowledged = handler[t].acknowledged
    BY <1>h DEF Handler
  <2>2. /\ Thread(t, h) /\ UNCHANGED <<record, fallback, stopRequests, stopping>>
        /\ handler[t].at = "reread" /\ record[t] # NoRecord
    BY <1>3 DEF RereadRecord
  <2> HIDE DEF h
  <2>3. (OnCourse(handler[t]) <=> OnCourse(h)) /\ (Failing(handler[t]) <=> Failing(h))
    BY <2>1, <2>2, PlacesApart DEF UpdatePlaces
  <2>4. PromiseOK(h, record[t], fallback[t])
    BY <1>i, <2>1, <2>2, <2>3 DEF PromiseOK, MarkPlaces, DuePlaces
  <2> QED
    BY <2>1, <2>2, <2>4, PromiseFrame DEF Legal, Requested
<1>4. CASE ReadFails(t)
  BY <1>4, PromiseRaise DEF ReadFails, UpdatePlaces
<1>5. CASE WriteRecord(t)
  <2> DEFINE c == handler[t].copy
             f == handler[t].field
             new == Updated(c, f)
             h == [handler[t] EXCEPT
                    !.at = Follow(t, f).at, !.field = Follow(t, f).field, !.copy = NoRecord,
                    !.saved = @ \/ f = "checkpoint",
                    !.late = IF StopPending(t) THEN @ + 1 ELSE @]
  <2>1. /\ h.at = Follow(t, f).at /\ h.field = Follow(t, f).field
        /\ h.sink = handler[t].sink /\ h.acknowledged = handler[t].acknowledged
    BY <1>h DEF Handler
  <2>2. /\ Thread(t, h) /\ handler[t].at = "write" /\ Store(t, new)
        /\ UNCHANGED <<fallback, stopRequests, stopping>>
    BY <1>5 DEF WriteRecord
  <2>3. c \in Record /\ c = record[t] /\ c.readable
    BY <1>i, <1>j, <1>p, <1>r, <2>2 DEF RecordOK, PromiseOK, UpdatePlaces
  <2>4. record'[t] = new /\ fallback'[t] = fallback[t]
    BY <2>2, StoreOnly
  <2>5. f \in Fields
    BY <1>h
  <2>a. f \in StopFields => handler[t].acknowledged
    BY DEF StopInv, Timely, Stopping
  <2> HIDE DEF h, c, f
  <2>6. new.readable /\ new.status = StatusAfter(c, f) /\ new # NoRecord
    BY <2>3, <2>5, UpdatedReadable, UpdatedStatus, UpdatedType, NoRecordAssumption DEF new
  <2> HIDE DEF new
  <2>7. CASE f \notin StopFields
    <3>1. OnCourse(handler[t])
      BY <2>2, <2>7, PlacesApart DEF UpdatePlaces, f
    <3>2. c.status = StatusDuring(f) /\ fallback[t] = NoRecord /\ handler[t].sink
      BY <1>i, <2>3, <3>1 DEF PromiseOK, f
    <3>3. PromiseOK(h, new, fallback[t])
      <4>1. CASE f # "completed"
        <5>1. /\ h.at \in {"read", "fetch", "ready", "work"} /\ h.field \in Fields \ StopFields
              /\ h.at \in DuePlaces => h.field = Due(h.at)
              /\ new.status = StatusDuring(h.field)
          BY <2>1, <2>3, <2>5, <2>6, <2>7, <3>2, <4>1, StatusFollows
        <5>2. ~Failing(h)
          BY <5>1, PlacesApart DEF UpdatePlaces
        <5> QED
          BY <2>1, <2>6, <3>2, <5>1, <5>2 DEF PromiseOK, MarkPlaces
      <4>2. CASE f = "completed"
        <5>1. h.at = "close" /\ new.status = "COMPLETED"
          BY <2>1, <2>3, <2>5, <2>6, <2>7, <3>2, <4>2, StatusFollows
        <5>2. ~Failing(h) /\ ~OnCourse(h)
          BY <5>1, PlacesApart
        <5> QED
          BY <2>1, <2>6, <3>2, <5>1, <5>2 DEF PromiseOK, MarkPlaces, DuePlaces
      <4> QED
        BY <4>1, <4>2
    <3>4. Legal(c.status, new.status, Requested(t))
      BY <2>3, <2>5, <2>6, <2>7, <3>2, LegalStatus
    <3>5. View(c, fallback[t]) = c.status /\ View(new, fallback[t]) = new.status
      BY <1>p, <2>2, <2>3, <2>6, <3>2 DEF View, UpdatePlaces
    <3> QED
      BY <2>1, <2>2, <2>3, <2>4, <2>6, <3>3, <3>4, <3>5, StoresApart, PromiseFrame DEF Requested
  <2>8. CASE f \in StopFields
    <3>1. Failing(handler[t])
      BY <2>2, <2>8, PlacesApart DEF UpdatePlaces, f
    <3>2. c # NoRecord /\ c.status \in Active \union {"FAILED"}
          /\ View(c, fallback[t]) \in Active \union {"FAILED"}
      BY <1>i, <2>3, <3>1, CourseIsActive
    <3>3. PromiseOK(h, new, fallback[t])
      <4>1. CASE f # "stop_status"
        <5>1. /\ h.at \in {"read", "stop_clear"} /\ h.field \in StopFields
              /\ new.status = c.status
          BY <2>1, <2>3, <2>6, <2>8, <4>1, StopFollows
        <5>2. ~OnCourse(h)
          BY <5>1, PlacesApart DEF UpdatePlaces
        <5> QED
          BY <1>i, <2>1, <2>6, <3>2, <5>1, <5>2 DEF PromiseOK, MarkPlaces, DuePlaces
      <4>2. CASE f = "stop_status"
        <5>1. h.at = "stopped"
          BY <2>1, <2>3, <2>8, <4>2, StopFollows
        <5>2. ~Failing(h) /\ ~OnCourse(h)
          BY <5>1, PlacesApart
        <5> QED
          BY <1>i, <2>1, <2>6, <5>1, <5>2 DEF PromiseOK, MarkPlaces, DuePlaces
      <4> QED
        BY <4>1, <4>2
    <3>4. Legal(View(c, fallback[t]), View(new, fallback[t]), Requested(t))
      <4>1. CASE f # "stop_status"
        <5>1. new.status = c.status
          BY <2>3, <2>6, <2>8, <4>1, StopFollows
        <5> QED
          BY <2>6, <3>2, <5>1 DEF View, Legal
      <4>2. CASE f = "stop_status"
        <5>1. new.status = "STOPPED"
          BY <2>3, <2>6, <2>8, <4>2, StopFollows
        <5>2. View(new, fallback[t]) = "STOPPED"
          BY <2>6, <5>1 DEF View, Terminal
        <5> QED
          BY <2>8, <2>a, <3>2, <5>2 DEF Legal, Requested
      <4> QED
        BY <4>1, <4>2
    <3> QED
      BY <2>1, <2>2, <2>3, <2>4, <2>6, <3>3, <3>4, StoresApart, PromiseFrame DEF Requested
  <2> QED
    BY <2>7, <2>8
<1>6. CASE WriteFails(t)
  BY <1>6, PromiseRaise DEF WriteFails, UpdatePlaces, PromiseConditions, Fault
<1>7. CASE StopEscapes(t)
  <2>1. record[t] # NoRecord
    BY <1>7, <1>i DEF StopEscapes, PromiseOK
  <2> QED
    BY <1>7, <2>1, PromiseGoto DEF StopEscapes
<1>8. CASE StopSwallowed(t)
  BY <1>8 DEF StopSwallowed, CanCatch, PromiseConditions
<1> QED
  BY <1>1, <1>2, <1>3, <1>4, <1>5, <1>6, <1>7, <1>8 DEF Update

\* What the runner does between the updates goes unnoticed.
LEMMA PromiseWork ==
  ASSUME PromiseConditions, TypeInv, PromiseInv, NEW t \in Tasks, Work(t)
  PROVE  ClientStep(t)
<1>h. handler[t] \in Handler
  BY DEF TypeInv, TypeOK
<1>i. PromiseOK(handler[t], record[t], fallback[t])
  BY DEF PromiseInv
<1>u. UNCHANGED <<record, fallback, stopRequests, stopping>>
  BY DEF Work, FetchAlgorithm, Initialize, Report, RunnerFails, CaughtFailure, FinishWork,
         FinishWithoutCheckpoint, CloseLog
<1>c. handler[t].at \in {"fetch", "ready", "work"} =>
        OnCourse(handler[t]) /\ record[t] # NoRecord /\ handler[t].field = Due(handler[t].at)
  BY <1>i, PlacesApart DEF PromiseOK, DuePlaces
<1>1. CASE FetchAlgorithm(t)
  <2>1. OnCourse(handler[t]) /\ record[t] # NoRecord /\ handler[t].field = "device"
    BY <1>1, <1>c DEF FetchAlgorithm, Due
  <2> QED
    BY <1>1, <1>u, <2>1, PromiseGoto, PromiseMark DEF FetchAlgorithm, StopFields
<1>2. CASE Initialize(t)
  <2>1. OnCourse(handler[t]) /\ record[t] # NoRecord /\ handler[t].field = "running"
    BY <1>2, <1>c DEF Initialize, Due
  <2> QED
    BY <1>2, <1>u, <2>1, PromiseGoto, PromiseMark DEF Initialize, StopFields
<1>3. CASE Report(t)
  <2>1. PICK f \in {"report", "checkpoint"} :
          Thread(t, [handler[t] EXCEPT !.at = "read", !.field = f, !.reports = @ + 1])
    BY <1>3 DEF Report
  <2> DEFINE h == [handler[t] EXCEPT !.at = "read", !.field = f, !.reports = @ + 1]
  <2>2. /\ h.at = "read" /\ h.field = f /\ h.sink = handler[t].sink
        /\ h.acknowledged = handler[t].acknowledged
    BY <1>h DEF Handler
  <2>3. Thread(t, h)
    BY <2>1
  <2>4. /\ OnCourse(handler[t]) /\ record[t] # NoRecord
        /\ StatusDuring(handler[t].field) = StatusDuring(f)
    BY <1>3, <1>c DEF Report, Due, StatusDuring
  <2> HIDE DEF h
  <2>5. PromiseOK(h, record[t], fallback[t])
    BY <1>i, <2>2, <2>4, PlacesApart
       DEF PromiseOK, UpdatePlaces, MarkPlaces, DuePlaces, StopFields
  <2> QED
    BY <1>u, <2>2, <2>3, <2>5, PromiseFrame DEF Legal, Requested
<1>4. CASE RunnerFails(t)
  BY <1>4, <1>u, <1>c, PromiseMark DEF RunnerFails
<1>5. CASE CaughtFailure(t) \/ FinishWithoutCheckpoint(t)
  BY <1>5 DEF CaughtFailure, FinishWithoutCheckpoint, PromiseConditions
<1>6. CASE FinishWork(t)
  <2>1. /\ OnCourse(handler[t]) /\ record[t] # NoRecord
        /\ StatusDuring(handler[t].field) = StatusDuring("progress")
    BY <1>6, <1>c DEF FinishWork, Due, StatusDuring
  <2> QED
    BY <1>6, <1>u, <2>1, PromiseGoto DEF FinishWork, StopFields
<1>7. CASE CloseLog(t)
  <2> DEFINE h == [handler[t] EXCEPT !.at = "done", !.sink = FALSE]
  <2>1. h.at = "done" /\ h.acknowledged = handler[t].acknowledged
    BY <1>h DEF Handler
  <2>2. Thread(t, h)
    BY <1>7, <1>i DEF CloseLog, PromiseOK
  <2>3. record[t] # NoRecord
    BY <1>7, <1>i DEF CloseLog, PromiseOK
  <2> HIDE DEF h
  <2>4. PromiseOK(h, record[t], fallback[t])
    BY <1>i, <2>1, <2>3, PlacesApart DEF PromiseOK, MarkPlaces, DuePlaces
  <2> QED
    BY <1>u, <2>1, <2>2, <2>4, PromiseFrame DEF Legal, Requested
<1> QED
  BY <1>1, <1>2, <1>3, <1>4, <1>5, <1>6, <1>7 DEF Work

\* mark_as_failed and mark_as_stopped show the clients at most that the task failed.
LEMMA PromiseEnd ==
  ASSUME PromiseConditions, TypeInv, StopInv, PromiseInv, NEW t \in Tasks, End(t)
  PROVE  ClientStep(t)
<1>h. handler[t] \in Handler
  BY DEF TypeInv, TypeOK
<1>i. PromiseOK(handler[t], record[t], fallback[t])
  BY DEF PromiseInv
<1>f. Failing(handler[t])
  BY PlacesApart DEF End, MarkRead, MarkPut, EndMark, StopClear, MarkPlaces
<1>a. /\ record[t] # NoRecord /\ record[t].status \in Active \union {"FAILED"}
      /\ View(record[t], fallback[t]) \in Active \union {"FAILED"}
  BY <1>i, <1>f, CourseIsActive
<1>1. CASE MarkRead(t)
  <2> DEFINE r == FailedRecord(t, record[t])
             h == [handler[t] EXCEPT !.at = "mark_put", !.copy = r, !.marked = TRUE]
  <2>1. Build(t, r)
    BY <1>1, <1>a DEF MarkRead, Fault, PromiseConditions
  <2>2. r.status = "FAILED" /\ r.readable = record[t].readable
    BY <1>a DEF TypeInv, TypeOK, FailedRecord, Record
  <2>3. /\ h.at = "mark_put" /\ h.copy = r /\ h.after = handler[t].after
        /\ h.acknowledged = handler[t].acknowledged
    BY <1>h DEF Handler
  <2>4. /\ Thread(t, h) /\ UNCHANGED <<record, fallback, stopRequests, stopping>>
        /\ handler[t].at = "mark_read"
    BY <1>1, <2>1 DEF MarkRead, Build
  <2> HIDE DEF h, r
  <2>5. ~OnCourse(h)
    BY <2>3, PlacesApart DEF MarkPlaces
  <2>6. PromiseOK(h, record[t], fallback[t])
    BY <1>i, <1>a, <2>2, <2>3, <2>4, <2>5 DEF PromiseOK, MarkPlaces, DuePlaces
  <2> QED
    BY <2>3, <2>4, <2>6, PromiseFrame DEF Legal, Requested
<1>2. CASE MarkPut(t)
  <2> DEFINE c == handler[t].copy
  <2>1. PICK place \in {"mark_clear", "mark_spill"} :
          /\ Goto(t, place, handler[t].field)
          /\ IF place = "mark_clear" THEN Store(t, c)
             ELSE UNCHANGED record /\ "refuse" \in FaultKinds
    BY <1>2 DEF MarkPut, Fault, PromiseConditions
  <2> DEFINE h == [handler[t] EXCEPT !.at = place, !.field = handler[t].field]
  <2>2. /\ h.at = place /\ h.after = handler[t].after /\ h.copy = c
        /\ h.acknowledged = handler[t].acknowledged
    BY <1>h DEF Handler
  <2>3. /\ Thread(t, h) /\ handler[t].at = "mark_put"
        /\ UNCHANGED <<fallback, stopRequests, stopping>>
    BY <1>2, <2>1 DEF MarkPut, Goto
  <2>4. c \in Record /\ c.status = "FAILED" /\ c.readable /\ c # NoRecord
    BY <1>i, <2>3, NoRecordAssumption DEF PromiseOK, TypeInv, CopyOK
  <2> HIDE DEF h, c
  <2>5. record'[t] = IF place = "mark_clear" THEN c ELSE record[t]
    BY <2>1, StoreOnly
  <2>6. ~OnCourse(h)
    BY <2>2, PlacesApart DEF MarkPlaces
  <2>7. PromiseOK(h, record'[t], fallback[t])
    BY <1>i, <1>a, <2>1, <2>2, <2>3, <2>4, <2>5, <2>6 DEF PromiseOK, MarkPlaces, DuePlaces
  <2>8. Legal(View(record[t], fallback[t]), View(record'[t], fallback[t]), Requested(t))
    BY <1>a, <2>4, <2>5 DEF View, Legal
  <2> QED
    BY <1>a, <2>1, <2>2, <2>3, <2>4, <2>5, <2>7, <2>8, StoresApart, PromiseFrame DEF Requested
<1>3. CASE EndMark(t)
  <2> DEFINE left == handler[t].marks - 1
             next == IF left > 0 THEN "mark_read"
                     ELSE IF handler[t].after = "progress" THEN "read" ELSE handler[t].after
             f == IF left = 0 /\ handler[t].after = "progress"
                    THEN "progress" ELSE handler[t].field
             h == [handler[t] EXCEPT !.at = next, !.marks = left, !.copy = NoRecord,
                                     !.sink = FALSE, !.field = f]
  <2>1. h.at = next /\ h.after = handler[t].after /\ h.acknowledged = handler[t].acknowledged
    BY <1>h DEF Handler
  <2>2. /\ Thread(t, h) /\ UNCHANGED <<record, stopRequests, stopping>>
        /\ handler[t].at \in {"mark_clear", "mark_spill"}
        /\ fallback' = [fallback EXCEPT ![t] = Kept(handler[t])]
    BY <1>3 DEF EndMark
  <2>3. next \in {"mark_read", "done", "stop_clear"}
    BY <1>i, <2>2 DEF PromiseOK, MarkPlaces
  <2>4. /\ fallback'[t] = Kept(handler[t])
        /\ \A s \in Tasks : s # t => fallback'[s] = fallback[s]
    BY <2>2 DEF TypeInv, TypeOK
  <2> HIDE DEF h, next
  <2>5. ~OnCourse(h)
    BY <2>1, <2>3, PlacesApart DEF MarkPlaces
  <2>6. /\ handler[t].at = "mark_clear" => fallback'[t] = NoRecord
        /\ handler[t].at = "mark_spill" =>
             /\ fallback'[t] = handler[t].copy /\ fallback'[t] # NoRecord
             /\ "refuse" \in FaultKinds
    BY <1>i, <2>4, NoRecordAssumption DEF Kept, PromiseOK, TypeInv, CopyOK
  <2>7. PromiseOK(h, record[t], fallback'[t])
    BY <1>i, <1>a, <2>1, <2>2, <2>3, <2>5, <2>6 DEF PromiseOK, MarkPlaces, DuePlaces
  <2>8. Legal(View(record[t], fallback[t]), View(record[t], fallback'[t]), Requested(t))
    BY <1>i, <1>a, <2>2, <2>6 DEF PromiseOK, View, Legal, Terminal
  <2> QED
    BY <2>1, <2>2, <2>4, <2>7, <2>8, PromiseFrame DEF Requested
<1>4. CASE StopClear(t)
  <2> DEFINE h == [handler[t] EXCEPT !.at = "read", !.field = "stop_status", !.sink = FALSE]
  <2>1. h.at = "read" /\ h.field = "stop_status" /\ h.acknowledged = handler[t].acknowledged
    BY <1>h DEF Handler
  <2>2. /\ Thread(t, h) /\ UNCHANGED <<record, fallback, stopping>>
        /\ handler[t].at = "stop_clear"
        /\ \A s \in Tasks : s # t => (s \in stopRequests' <=> s \in stopRequests)
    BY <1>4 DEF StopClear
  <2>3. handler[t].acknowledged
    BY <2>2 DEF StopInv, Timely, Stopping
  <2> HIDE DEF h
  <2>4. Failing(h) /\ ~OnCourse(h)
    BY <2>1, PlacesApart DEF UpdatePlaces, StopFields
  <2>5. PromiseOK(h, record[t], fallback[t])
    BY <1>i, <1>a, <2>1, <2>2, <2>4 DEF PromiseOK, MarkPlaces, DuePlaces
  <2> QED
    BY <2>1, <2>2, <2>3, <2>5, PromiseFrame DEF Legal, Requested
<1> QED
  BY <1>1, <1>2, <1>3, <1>4 DEF End

\* The endpoints and the pool show the clients at most that the task was accepted or refused.
LEMMA PromiseClient ==
  ASSUME PromiseConditions, TypeInv, PromiseInv, NEW t \in Tasks,
         PutPending(t) \/ SubmitRejected(t) \/ StopCheck(t) \/ DeleteRecord(t)
           \/ Enqueue(t) \/ StartTask(t)
  PROVE  ClientStep(t)
<1>h. handler[t] \in Handler
  BY DEF TypeInv, TypeOK
<1>i. PromiseOK(handler[t], record[t], fallback[t])
  BY DEF PromiseInv
<1>k. ASSUME NEW place \in {"accepted", "done"}, NEW kind \in Kinds,
             Thread(t, [handler[t] EXCEPT !.at = place, !.kind = kind]),
             handler[t].at = "idle", UNCHANGED <<stopRequests, stopping>>,
             \A s \in Tasks : s # t => record'[s] = record[s] /\ fallback'[s] = fallback[s],
             IF place = "accepted" THEN record'[t] = Pending /\ fallback'[t] = fallback[t]
             ELSE /\ record'[t] = record[t] /\ fallback'[t] = Rejected
                  /\ "refuse" \in FaultKinds
      PROVE  ClientStep(t)
  <2> DEFINE h == [handler[t] EXCEPT !.at = place, !.kind = kind]
  <2>1. /\ h.at = place /\ h.acknowledged = handler[t].acknowledged
        /\ h.field = handler[t].field /\ h.sink = handler[t].sink
    BY <1>h DEF Handler
  <2>2. Thread(t, h)
    BY <1>k
  <2>3. /\ Pending.status = "PENDING" /\ Pending.readable
        /\ Rejected.status = "FAILED" /\ Rejected.readable
    BY DEF Pending, Rejected
  <2>4. Pending # NoRecord /\ Rejected # NoRecord
    BY ConstantRecords, NoRecordAssumption
  <2>5. record[t] = NoRecord /\ fallback[t] = NoRecord /\ handler[t].field = "started"
    BY <1>i, <1>k DEF PromiseOK, DuePlaces, Due
  <2> HIDE DEF h
  <2>s. place = "accepted" => h.sink
    BY <1>i, <1>k, <2>1 DEF PromiseOK
  <2>6. PromiseOK(h, record'[t], fallback'[t])
    BY <1>k, <2>1, <2>3, <2>4, <2>5, <2>s, PlacesApart
       DEF PromiseOK, MarkPlaces, DuePlaces, Due, StatusDuring, StopFields
  <2>7. Legal(View(record[t], fallback[t]), View(record'[t], fallback'[t]), Requested(t))
    BY <1>k, <2>3, <2>4, <2>5 DEF View, Legal
  <2> QED
    BY <1>k, <2>1, <2>2, <2>4, <2>5, <2>6, <2>7, PromiseFrame DEF Requested
<1>1. CASE PutPending(t)
  BY <1>1, <1>k, StoreOnly DEF PutPending
<1>2. CASE SubmitRejected(t)
  <2>1. fallback'[t] = Rejected /\ \A s \in Tasks : s # t => fallback'[s] = fallback[s]
    BY <1>2 DEF SubmitRejected, TypeInv, TypeOK
  <2> QED
    BY <1>2, <1>k, <2>1 DEF SubmitRejected, Fault
<1>3. CASE StopCheck(t)
  <2>1. PromiseInv'
    BY <1>3 DEF StopCheck, PromiseInv
  <2> QED
    BY <1>3, <2>1 DEF StopCheck, ClientStep, Legal, Requested
<1>4. CASE DeleteRecord(t)
  BY <1>4 DEF DeleteRecord, PromiseConditions, TypeInv, TypeOK
<1>5. CASE Enqueue(t)
  <2>1. /\ OnCourse(handler[t]) /\ record[t] # NoRecord /\ handler[t].field = "started"
    BY <1>5, <1>i, PlacesApart DEF Enqueue, PromiseOK, DuePlaces, Due
  <2> QED
    BY <1>5, <2>1, PromiseGoto DEF Enqueue, Due
<1>6. CASE StartTask(t)
  <2>1. /\ OnCourse(handler[t]) /\ record[t] # NoRecord /\ handler[t].field = "started"
    BY <1>6, <1>i, PlacesApart DEF StartTask, PromiseOK, DuePlaces, Due
  <2> QED
    BY <1>6, <2>1, PromiseGoto DEF StartTask, StopFields
<1> QED
  BY <1>1, <1>2, <1>3, <1>4, <1>5, <1>6

\* A stop endpoint posts its request for a task the clients know, or does not.
LEMMA PromiseAsk ==
  ASSUME PromiseInv, NEW t \in Tasks, StopSubmit(t)
  PROVE  /\ PromiseInv' /\ UNCHANGED <<record, fallback, handler>>
         /\ stopRequests' \in {stopRequests, stopRequests \union {t}}
         /\ record[t] # NoRecord
BY DEF StopSubmit, PromiseInv

\* A restart of the process changes nothing the clients see, where no fallback record
\* can be lost with it.
LEMMA PromiseRestart ==
  ASSUME PromiseConditions, TypeInv, PromiseInv, Restart
  PROVE  /\ PromiseInv' /\ UNCHANGED <<record, fallback, stopRequests>>
         /\ \A t \in Tasks : handler'[t].acknowledged = handler[t].acknowledged
<1>1. "refuse" \notin FaultKinds
  BY DEF Restart, PromiseConditions, TypeInv, TypeOK
<1>2. UNCHANGED <<record, stopRequests>> /\ stopping' = {}
  BY DEF Restart
<1>3. \A t \in Tasks : fallback[t] = NoRecord
  BY <1>1 DEF PromiseInv, PromiseOK
<1>4. UNCHANGED fallback
  BY <1>3 DEF Restart, TypeInv, TypeOK
<1>5. ASSUME NEW t \in Tasks
      PROVE  /\ handler'[t].acknowledged = handler[t].acknowledged
             /\ PromiseOK(handler'[t], record[t], fallback[t])
  <2>1. handler[t] \in Handler /\ PromiseOK(handler[t], record[t], fallback[t])
    BY DEF TypeInv, TypeOK, PromiseInv
  <2>2. CASE handler'[t] = handler[t]
    BY <2>1, <2>2
  <2>3. CASE handler'[t] = [handler[t] EXCEPT !.at = "dead"] /\ handler[t].at # "idle"
    <3>1. handler'[t].at = "dead" /\ handler'[t].acknowledged = handler[t].acknowledged
      BY <2>1, <2>3 DEF Handler
    <3>2. record[t] # NoRecord
      BY <1>3, <2>1, <2>3 DEF PromiseOK
    <3> QED
      BY <2>1, <3>1, <3>2, PlacesApart DEF PromiseOK, MarkPlaces, DuePlaces
  <2> QED
    BY <2>2, <2>3 DEF Restart
<1> QED
  BY <1>2, <1>4, <1>5 DEF PromiseInv

-----------------------------------------------------------------------------
(* The refinement *)

\* Under PromiseInv a client is told what View says, before a step and after it.
LEMMA ClientSeesView ==
  /\ PromiseInv => \A t \in Tasks : ClientView(t) = View(record[t], fallback[t])
  /\ PromiseInv' => \A t \in Tasks : ClientView(t)' = View(record'[t], fallback'[t])
BY DEF PromiseInv, PromiseOK, ClientView, View, Terminal

\* A step that shows the clients a legal change of the status of one task is a step of
\* TaskStatus, or none.
LEMMA ClientStepMaps ==
  ASSUME TypeInv, TypeInv', PromiseInv, NEW t \in Tasks, ClientStep(t)
  PROVE  [Promise!Next]_(Promise!vars)
<1> DEFINE status == [s \in Tasks |-> ClientView(s)]
           asked == stopRequests \union {s \in Tasks : handler[s].acknowledged}
           v == View(record[t], fallback[t])
           w == View(record'[t], fallback'[t])
<1>1. status[t] = v /\ status'[t] = w
  BY ClientSeesView DEF ClientStep
<1>2. ASSUME NEW s \in Tasks, s # t
      PROVE  status'[s] = status[s]
  BY <1>2, ClientSeesView DEF ClientStep
<1>3. status' = [status EXCEPT ![t] = w]
  BY <1>1, <1>2
<1>4. asked' = asked
  BY DEF ClientStep, Requested, TypeInv, TypeOK
<1>5. Requested(t) <=> t \in asked
  BY DEF Requested
<1>6. Legal(v, w, t \in asked)
  BY <1>5 DEF ClientStep, Legal
<1>7. w = v => status' = status
  BY <1>1, <1>3
<1>8. /\ v = "NOT_FOUND" /\ w \in {"PENDING", "FAILED"} => Promise!Accept(t)
      /\ v = "PENDING" /\ w = "STARTED" => Promise!Progress(t)
      /\ v = "STARTED" /\ w = "RUNNING" => Promise!Progress(t)
      /\ v = "RUNNING" /\ w = "COMPLETED" => Promise!Progress(t)
  BY <1>1, <1>3, <1>4 DEF Promise!Accept, Promise!Progress, Promise!Become
<1>9. /\ v \in Active /\ w = "FAILED" => Promise!Fail(t)
      /\ v \in Active \union {"FAILED"} /\ w = "STOPPED" /\ t \in asked => Promise!Stop(t)
  BY <1>1, <1>3, <1>4 DEF Promise!Fail, Promise!Stop, Promise!Become, Promise!Active, Active
<1> QED
  BY <1>4, <1>6, <1>7, <1>8, <1>9 DEF Legal, Promise!Next, Promise!vars

\* A posted stop request is a request TaskStatus knows of, unless there was one.
LEMMA AskMaps ==
  ASSUME TypeInv, PromiseInv, NEW t \in Tasks, StopSubmit(t)
  PROVE  [Promise!Next]_(Promise!vars)
<1> DEFINE status == [s \in Tasks |-> ClientView(s)]
           asked == stopRequests \union {s \in Tasks : handler[s].acknowledged}
<1>1. status' = status
  BY PromiseAsk DEF ClientView
<1>2. asked' = asked \/ asked' = asked \union {t}
  BY PromiseAsk
<1>3. status[t] # "NOT_FOUND"
  <2>1. record[t] # NoRecord /\ status[t] = View(record[t], fallback[t])
    BY PromiseAsk, ClientSeesView
  <2>2. record[t].status # "NOT_FOUND"
    BY <2>1 DEF TypeInv, TypeOK, Record, Active, Terminal
  <2> QED
    BY <2>1, <2>2 DEF View
<1>4. asked' = asked \union {t} => Promise!Ask(t)
  BY <1>1, <1>3 DEF Promise!Ask
<1> QED
  BY <1>1, <1>2, <1>4 DEF Promise!Next, Promise!vars

\* PromiseInv is inductive, given what is known of the types, the stops and the records,
\* and under it every step is one of TaskStatus or leaves what the clients see.
LEMMA PromiseInductive ==
  ASSUME PromiseConditions, TypeInv, TypeInv', StopInv, RecordInv, PromiseInv, [Next]_vars
  PROVE  PromiseInv' /\ [Promise!Next]_(Promise!vars)
<1>1. CASE UNCHANGED vars
  <2>1. UNCHANGED <<[s \in Tasks |-> ClientView(s)],
                    stopRequests \union {s \in Tasks : handler[s].acknowledged}>>
    BY <1>1 DEF vars, ClientView
  <2> QED
    BY <1>1, <2>1 DEF vars, PromiseInv, Promise!vars
<1>2. CASE Restart
  <2>1. UNCHANGED <<[s \in Tasks |-> ClientView(s)],
                    stopRequests \union {s \in Tasks : handler[s].acknowledged}>>
    BY <1>2, PromiseRestart DEF ClientView
  <2> QED
    BY <1>2, <2>1, PromiseRestart DEF Promise!vars
<1>3. ASSUME NEW t \in Tasks, StopSubmit(t)
      PROVE  PromiseInv' /\ [Promise!Next]_(Promise!vars)
  BY <1>3, PromiseAsk, AskMaps
<1>4. ASSUME NEW t \in Tasks,
             (Client(t) /\ ~StopSubmit(t)) \/ Enqueue(t) \/ StartTask(t) \/ Worker(t)
      PROVE  PromiseInv' /\ [Promise!Next]_(Promise!vars)
  <2>1. ClientStep(t)
    BY <1>4, PromiseClient, PromiseUpdate, PromiseWork, PromiseEnd DEF Client, Worker
  <2> QED
    BY <2>1, ClientStepMaps DEF ClientStep
<1> QED
  BY <1>1, <1>2, <1>3, <1>4 DEF Next, Finished, Client

\* Types, stops and records are as the invariants of TaskLifecycle_proofs say.
LEMMA LifecycleInvariant == Spec => [](TypeInv /\ StopInv /\ RecordInv)
<1>1. Init => StopInv /\ RecordInv
  BY DEF Init, StopInv, Timely, Stopping, NewHandler, MarkPlaces, StopFields, RecordInv, RecordOK
<1> QED
  BY <1>1, TypeCorrect, StopInductive, RecordInductive, PTL DEF Spec

\* TaskLifecycle implements TaskStatus: whoever polls a task through the execution and
\* training endpoints sees its statuses in the promised order, and STOPPED only for a
\* task somebody asked to stop, whatever writes the storage refuses.
THEOREM PromiseIsKept == ASSUME PromiseConditions PROVE Spec => KeepsPromise
<1>1. Init => PromiseInv /\ Promise!Init
  BY DEF Init, PromiseInv, PromiseOK, NewHandler, OnCourse, Failing, UpdatePlaces, MarkPlaces,
         DuePlaces, Due, Promise!Init, ClientView
<1>2. TypeInv /\ TypeInv' /\ StopInv /\ RecordInv /\ PromiseInv /\ [Next]_vars =>
        PromiseInv' /\ [Promise!Next]_(Promise!vars)
  BY PromiseInductive
<1> QED
  BY <1>1, <1>2, LifecycleInvariant, PTL DEF Spec, KeepsPromise, Promise!Spec

-----------------------------------------------------------------------------
(* A failure is final *)

\* A thread that called mark_as_failed has no sink any more once that is over, and leaves
\* mark_as_failed with a record that is not COMPLETED, if any.
FinalOK(h, r) ==
  /\ h.marked /\ h.at \notin MarkPlaces \union {"dead"} => ~h.sink
  /\ h.at \in {"mark_clear", "mark_spill"} \/ (h.at = "done" /\ h.marked) =>
       (r = NoRecord \/ r.status # "COMPLETED")

FinalInv == \A t \in Tasks : FinalOK(handler[t], record[t])

\* The thread of t moves on and no other record changes: only t matters.
LEMMA FinalFrame ==
  ASSUME TypeInv, FinalInv, NEW t \in Tasks, NEW h, Thread(t, h),
         \A s \in Tasks : s # t => record'[s] = record[s],
         FinalOK(h, record'[t])
  PROVE  FinalInv'
<1>1. handler'[t] = h /\ \A s \in Tasks : s # t => handler'[s] = handler[s]
  BY DEF Thread, TypeInv, TypeOK
<1> QED
  BY <1>1 DEF FinalInv

\* An exception starts on its way up.
LEMMA FinalMark ==
  ASSUME TypeInv, FinalInv, NEW t \in Tasks, NEW n, NEW after, MarkAsFailed(t, n, after),
         \A s \in Tasks : s # t => record'[s] = record[s]
  PROVE  FinalInv'
<1> DEFINE h == [handler[t] EXCEPT !.at = "mark_read", !.marks = n, !.after = after]
<1>1. h.at = "mark_read"
  BY DEF TypeInv, TypeOK, Handler
<1>2. Thread(t, h)
  BY DEF MarkAsFailed
<1> HIDE DEF h
<1>3. FinalOK(h, record'[t])
  BY <1>1 DEF FinalOK, MarkPlaces
<1> QED
  BY <1>2, <1>3, FinalFrame

\* The thread moves to a place outside mark_as_failed and its sink does not come back.
LEMMA FinalMove ==
  ASSUME TypeInv, RecordInv, FinalInv, NEW t \in Tasks, NEW h, Thread(t, h),
         handler[t].at \notin MarkPlaces \union {"dead"}, h.at \notin MarkPlaces,
         h.marked = handler[t].marked, h.sink => handler[t].sink,
         h.at = "done" => ~Leaving(handler[t]) \/ handler[t].sink,
         UNCHANGED record \/ (h.at # "done" /\ \E r : Store(t, r))
  PROVE  FinalInv'
<1>1. \A s \in Tasks : s # t => record'[s] = record[s]
  BY StoreOnly
<1>2. FinalOK(handler[t], record[t]) /\ RecordOK(handler[t], record[t])
  BY DEF FinalInv, RecordInv
<1>3. FinalOK(h, record'[t])
  BY <1>2 DEF FinalOK, RecordOK, MarkPlaces
<1> QED
  BY <1>1, <1>3, FinalFrame

\* Field updates keep FinalInv.
LEMMA FinalUpdate ==
  ASSUME TypeInv, RecordInv, FinalInv, NEW t \in Tasks, Update(t)
  PROVE  FinalInv'
<1>h. handler[t] \in Handler /\ handler[t].field \in Fields
  BY DEF TypeInv, TypeOK, Handler
<1>1. CASE ReadFindsStop(t)
  <2> DEFINE h == [handler[t] EXCEPT !.acknowledged = TRUE, !.origin = handler[t].field,
                                     !.field = "stop_finished"]
  <2>1. h.at = handler[t].at /\ h.marked = handler[t].marked /\ h.sink = handler[t].sink
    BY <1>h DEF Handler
  <2>2. Thread(t, h) /\ UNCHANGED record /\ handler[t].at = "read"
    BY <1>1 DEF ReadFindsStop
  <2> HIDE DEF h
  <2> QED
    BY <2>1, <2>2, FinalMove DEF MarkPlaces
<1>2. CASE ReadRecord(t) \/ RereadRecord(t)
  <2>1. PICK place \in {"reread", "write"} :
          Thread(t, [handler[t] EXCEPT !.at = place, !.copy = record[t]])
    BY <1>2 DEF ReadRecord, RereadRecord
  <2> DEFINE h == [handler[t] EXCEPT !.at = place, !.copy = record[t]]
  <2>2. h.at = place /\ h.marked = handler[t].marked /\ h.sink = handler[t].sink
    BY <1>h DEF Handler
  <2>3. Thread(t, h) /\ UNCHANGED record /\ handler[t].at \in {"read", "reread"}
    BY <1>2, <2>1 DEF ReadRecord, RereadRecord
  <2> HIDE DEF h
  <2> QED
    BY <2>2, <2>3, FinalMove DEF MarkPlaces
<1>3. CASE ReadFails(t) \/ WriteFails(t)
  <2>1. PICK u \in Unwind(t, handler[t].field, handler[t].origin) :
          MarkAsFailed(t, u.marks, u.after)
    BY <1>3 DEF ReadFails, WriteFails, RaiseError
  <2>2. \A s \in Tasks : s # t => record'[s] = record[s]
    BY <1>3, StoreOnly DEF ReadFails, WriteFails
  <2> QED
    BY <2>1, <2>2, FinalMark
<1>4. CASE WriteRecord(t)
  <2> DEFINE f == handler[t].field
             h == [handler[t] EXCEPT
                    !.at = Follow(t, f).at, !.field = Follow(t, f).field, !.copy = NoRecord,
                    !.saved = @ \/ f = "checkpoint",
                    !.late = IF StopPending(t) THEN @ + 1 ELSE @]
  <2>1. h.at = Follow(t, f).at /\ h.marked = handler[t].marked /\ h.sink = handler[t].sink
    BY <1>h DEF Handler
  <2>2. Thread(t, h) /\ handler[t].at = "write" /\ \E r : Store(t, r)
    BY <1>4 DEF WriteRecord
  <2>3. Follow(t, f).at \notin MarkPlaces \union {"done"}
    BY <1>h DEF Follow, Fields, StopFields, MarkPlaces
  <2> HIDE DEF h, f
  <2> QED
    BY <2>1, <2>2, <2>3, FinalMove DEF MarkPlaces
<1>5. CASE StopEscapes(t) \/ StopSwallowed(t)
  <2>1. PICK place \in {"done", "work"}, f \in {"stop_status", "report"} : Goto(t, place, f)
    BY <1>5 DEF StopEscapes, StopSwallowed
  <2> DEFINE h == [handler[t] EXCEPT !.at = place, !.field = f]
  <2>2. h.at = place /\ h.marked = handler[t].marked /\ h.sink = handler[t].sink
    BY <1>h DEF Handler
  <2>3. Thread(t, h) /\ UNCHANGED record /\ handler[t].at = "stopped"
    BY <1>5, <2>1 DEF StopEscapes, StopSwallowed, Goto
  <2> HIDE DEF h
  <2> QED
    BY <2>2, <2>3, FinalMove DEF MarkPlaces, Leaving
<1> QED
  BY <1>1, <1>2, <1>3, <1>4, <1>5 DEF Update

\* The runner keeps FinalInv: only a thread that still has its sink ends at CloseLog.
LEMMA FinalWork ==
  ASSUME TypeInv, RecordInv, FinalInv, NEW t \in Tasks, Work(t)
  PROVE  FinalInv'
<1>h. handler[t] \in Handler
  BY DEF TypeInv, TypeOK
<1>u. UNCHANGED record
  BY DEF Work, FetchAlgorithm, Initialize, Report, RunnerFails, CaughtFailure, FinishWork,
         FinishWithoutCheckpoint, CloseLog
<1>a. handler[t].at \in {"fetch", "ready", "work", "close"}
  BY DEF Work, FetchAlgorithm, Initialize, Report, RunnerFails, CaughtFailure, FinishWork,
         FinishWithoutCheckpoint, CloseLog
<1>g. ASSUME NEW f, Goto(t, "read", f)
      PROVE  FinalInv'
  <2> DEFINE h == [handler[t] EXCEPT !.at = "read", !.field = f]
  <2>1. h.at = "read" /\ h.marked = handler[t].marked /\ h.sink = handler[t].sink
    BY <1>h DEF Handler
  <2>2. Thread(t, h)
    BY <1>g DEF Goto
  <2> HIDE DEF h
  <2> QED
    BY <1>u, <1>a, <2>1, <2>2, FinalMove DEF MarkPlaces
<1>1. CASE FetchAlgorithm(t) \/ Initialize(t) \/ RunnerFails(t) \/ FinishWork(t)
             \/ FinishWithoutCheckpoint(t)
  BY <1>1, <1>u, <1>g, FinalMark
     DEF FetchAlgorithm, Initialize, RunnerFails, FinishWork, FinishWithoutCheckpoint
<1>2. CASE Report(t)
  <2>1. PICK f \in {"report", "checkpoint"} :
          Thread(t, [handler[t] EXCEPT !.at = "read", !.field = f, !.reports = @ + 1])
    BY <1>2 DEF Report
  <2> DEFINE h == [handler[t] EXCEPT !.at = "read", !.field = f, !.reports = @ + 1]
  <2>2. h.at = "read" /\ h.marked = handler[t].marked /\ h.sink = handler[t].sink
    BY <1>h DEF Handler
  <2>3. Thread(t, h)
    BY <2>1
  <2> HIDE DEF h
  <2> QED
    BY <1>u, <1>a, <2>2, <2>3, FinalMove DEF MarkPlaces
<1>3. CASE CaughtFailure(t)
  <2> DEFINE h == [handler[t] EXCEPT !.at = "mark_read", !.marks = 1, !.after = "work",
                                     !.reports = @ + 1]
  <2>1. h.at = "mark_read"
    BY <1>h DEF Handler
  <2>2. Thread(t, h)
    BY <1>3 DEF CaughtFailure
  <2> HIDE DEF h
  <2>3. FinalOK(h, record'[t])
    BY <2>1 DEF FinalOK, MarkPlaces
  <2> QED
    BY <1>u, <2>2, <2>3, FinalFrame
<1>4. CASE CloseLog(t)
  <2> DEFINE h == [handler[t] EXCEPT !.at = "done", !.sink = FALSE]
  <2>1. h.at = "done" /\ h.marked = handler[t].marked /\ ~h.sink
    BY <1>h DEF Handler
  <2>2. IF handler[t].sink THEN Thread(t, h) ELSE MarkAsFailed(t, 1, "done")
    BY <1>4 DEF CloseLog
  <2> HIDE DEF h
  <2> QED
    BY <1>u, <1>a, <2>1, <2>2, FinalMove, FinalMark DEF MarkPlaces
<1> QED
  BY <1>1, <1>2, <1>3, <1>4 DEF Work

\* mark_as_failed keeps FinalInv where the storage refuses no write.
LEMMA FinalEnd ==
  ASSUME "refuse" \notin FaultKinds, TypeInv, RecordInv, FinalInv, NEW t \in Tasks, End(t)
  PROVE  FinalInv'
<1>h. handler[t] \in Handler
  BY DEF TypeInv, TypeOK
<1>i. FinalOK(handler[t], record[t]) /\ RecordOK(handler[t], record[t])
  BY DEF FinalInv, RecordInv
<1>1. CASE MarkRead(t)
  <2>1. PICK r : Build(t, r)
    BY <1>1 DEF MarkRead
  <2> DEFINE h == [handler[t] EXCEPT !.at = "mark_put", !.copy = r, !.marked = TRUE]
  <2>2. h.at = "mark_put"
    BY <1>h DEF Handler
  <2>3. Thread(t, h) /\ UNCHANGED record
    BY <1>1, <2>1 DEF MarkRead, Build
  <2> HIDE DEF h
  <2>4. FinalOK(h, record'[t])
    BY <2>2 DEF FinalOK, MarkPlaces
  <2> QED
    BY <2>3, <2>4, FinalFrame
<1>2. CASE MarkPut(t)
  <2>1. PICK place \in {"mark_clear", "mark_spill"} : Goto(t, place, handler[t].field)
    BY <1>2 DEF MarkPut
  <2> DEFINE h == [handler[t] EXCEPT !.at = place, !.field = handler[t].field]
  <2>2. h.at = place
    BY <1>h DEF Handler
  <2>3. Thread(t, h) /\ Store(t, handler[t].copy) /\ handler[t].at = "mark_put"
    BY <1>2, <2>1 DEF MarkPut, Goto, Fault
  <2> HIDE DEF h
  <2>4. record'[t].status = "FAILED" /\ \A s \in Tasks : s # t => record'[s] = record[s]
    BY <1>i, <2>3, StoreOnly DEF RecordOK
  <2>5. FinalOK(h, record'[t])
    BY <2>2, <2>4 DEF FinalOK, MarkPlaces
  <2> QED
    BY <2>3, <2>4, <2>5, FinalFrame
<1>3. CASE EndMark(t)
  <2>1. PICK h : Thread(t, h) /\ ~h.sink
    <3> DEFINE left == handler[t].marks - 1
               next == IF left > 0 THEN "mark_read"
                       ELSE IF handler[t].after = "progress" THEN "read" ELSE handler[t].after
               f == IF left = 0 /\ handler[t].after = "progress"
                      THEN "progress" ELSE handler[t].field
               h == [handler[t] EXCEPT !.at = next, !.marks = left, !.copy = NoRecord,
                                       !.sink = FALSE, !.field = f]
    <3>1. Thread(t, h)
      BY <1>3 DEF EndMark
    <3>2. ~h.sink
      BY <1>h DEF Handler
    <3> QED
      BY <3>1, <3>2
  <2>2. UNCHANGED record /\ handler[t].at \in {"mark_clear", "mark_spill"}
    BY <1>3 DEF EndMark
  <2>3. FinalOK(h, record'[t])
    BY <1>i, <2>1, <2>2 DEF FinalOK
  <2> QED
    BY <2>1, <2>2, <2>3, FinalFrame
<1>4. CASE StopClear(t)
  <2> DEFINE h == [handler[t] EXCEPT !.at = "read", !.field = "stop_status", !.sink = FALSE]
  <2>1. h.at = "read" /\ ~h.sink /\ h.marked = handler[t].marked
    BY <1>h DEF Handler
  <2>2. Thread(t, h) /\ UNCHANGED record /\ handler[t].at = "stop_clear"
    BY <1>4 DEF StopClear
  <2> HIDE DEF h
  <2> QED
    BY <2>1, <2>2, FinalMove DEF MarkPlaces
<1> QED
  BY <1>1, <1>2, <1>3, <1>4 DEF End

\* The endpoints and the pool keep FinalInv.
LEMMA FinalClient ==
  ASSUME "refuse" \notin FaultKinds, TypeInv, RecordInv, FinalInv, NEW t \in Tasks,
         Client(t) \/ Enqueue(t) \/ StartTask(t)
  PROVE  FinalInv'
<1>h. handler[t] \in Handler
  BY DEF TypeInv, TypeOK
<1>1. CASE PutPending(t)
  <2>1. PICK kind \in Kinds : Thread(t, [handler[t] EXCEPT !.at = "accepted", !.kind = kind])
    BY <1>1 DEF PutPending
  <2> DEFINE h == [handler[t] EXCEPT !.at = "accepted", !.kind = kind]
  <2>2. h.at = "accepted" /\ h.marked = handler[t].marked /\ h.sink = handler[t].sink
    BY <1>h DEF Handler
  <2>3. Thread(t, h) /\ handler[t].at = "idle" /\ Store(t, Pending)
    BY <1>1, <2>1 DEF PutPending
  <2> HIDE DEF h
  <2> QED
    BY <2>2, <2>3, FinalMove DEF MarkPlaces
<1>2. CASE SubmitRejected(t)
  BY <1>2 DEF SubmitRejected, Fault
<1>3. CASE StopCheck(t) \/ StopSubmit(t)
  BY <1>3 DEF StopCheck, StopSubmit, FinalInv
<1>4. CASE DeleteRecord(t)
  <2>1. record'[t] = NoRecord /\ \A s \in Tasks : s # t => record'[s] = record[s]
    BY <1>4, StoreOnly DEF DeleteRecord
  <2>2. UNCHANGED handler
    BY <1>4 DEF DeleteRecord
  <2> QED
    BY <2>1, <2>2 DEF FinalInv, FinalOK
<1>5. CASE Enqueue(t) \/ StartTask(t)
  <2>1. PICK place \in {"queued", "done", "read"} : Goto(t, place, "started")
    BY <1>5 DEF Enqueue, StartTask
  <2> DEFINE h == [handler[t] EXCEPT !.at = place, !.field = "started"]
  <2>2. h.at = place /\ h.marked = handler[t].marked /\ h.sink = handler[t].sink
    BY <1>h DEF Handler
  <2>3. Thread(t, h) /\ UNCHANGED record /\ handler[t].at \in {"accepted", "queued"}
    BY <1>5, <2>1 DEF Enqueue, StartTask, Goto
  <2> HIDE DEF h
  <2> QED
    BY <2>2, <2>3, FinalMove DEF MarkPlaces, Leaving
<1> QED
  BY <1>1, <1>2, <1>3, <1>4, <1>5 DEF Client

\* A restart of the process keeps FinalInv.
LEMMA FinalRestart == TypeInv /\ FinalInv /\ Restart => FinalInv'
<1> SUFFICES ASSUME TypeInv, FinalInv, Restart, NEW t \in Tasks
             PROVE  FinalOK(handler'[t], record'[t])
  BY DEF FinalInv
<1>1. handler[t] \in Handler /\ FinalOK(handler[t], record[t]) /\ UNCHANGED record
  BY DEF TypeInv, TypeOK, FinalInv, Restart
<1>2. CASE handler'[t] = handler[t]
  BY <1>1, <1>2
<1>3. CASE handler'[t] = [handler[t] EXCEPT !.at = "dead"]
  BY <1>1, <1>3 DEF Handler, FinalOK, MarkPlaces
<1> QED
  BY <1>2, <1>3 DEF Restart

\* When an error was reported by mark_as_failed, even one the algorithm then swallowed, the
\* task does not end up COMPLETED, unless the storage refused the record of the failure.
THEOREM FailuresAreFinal == ASSUME "refuse" \notin FaultKinds PROVE Spec => []FailureIsFinal
<1>1. Init => FinalInv
  BY DEF Init, FinalInv, FinalOK, NewHandler, MarkPlaces
<1>2. TypeInv /\ RecordInv /\ FinalInv /\ [Next]_vars => FinalInv'
  <2> SUFFICES ASSUME TypeInv, RecordInv, FinalInv, [Next]_vars
               PROVE  FinalInv'
    OBVIOUS
  <2>1. CASE UNCHANGED vars
    BY <2>1 DEF vars, FinalInv
  <2>2. CASE Restart
    BY <2>2, FinalRestart
  <2>3. ASSUME NEW t \in Tasks, Client(t) \/ Enqueue(t) \/ StartTask(t)
        PROVE  FinalInv'
    BY <2>3, FinalClient
  <2>4. ASSUME NEW t \in Tasks, Worker(t)
        PROVE  FinalInv'
    BY <2>4, FinalUpdate, FinalWork, FinalEnd DEF Worker
  <2> QED
    BY <2>1, <2>2, <2>3, <2>4 DEF Next, Finished
<1>3. FinalInv => FailureIsFinal
  BY DEF FinalInv, FinalOK, FailureIsFinal
<1> QED
  BY <1>1, <1>2, <1>3, LifecycleInvariant, PTL DEF Spec

=============================================================================
