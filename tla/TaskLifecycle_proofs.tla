------------------------ MODULE TaskLifecycle_proofs ------------------------
(***************************************************************************)
(* Proofs about TaskLifecycle for every set of tasks, every pool size and  *)
(* every bound, and for every combination of storage faults.               *)
(***************************************************************************)
EXTENDS TaskLifecycle, TLAPS

MarkPlaces == {"mark_read", "mark_put", "mark_clear", "mark_spill"}

\* TypeOK is not inductive: a record is written from a copy only where one was
\* made, and the calls of mark_as_failed are counted down only while some are left.
CopyOK ==
  \A t \in Tasks :
    handler[t].at \in {"write", "mark_put", "mark_spill"} => handler[t].copy \in Record

MarksOK == \A t \in Tasks : handler[t].at \in MarkPlaces => handler[t].marks > 0

TypeInv == TypeOK /\ CopyOK /\ MarksOK

\* A field update turns a record into a record.
LEMMA UpdatedType ==
  ASSUME NEW r \in Record, NEW f \in Fields
  PROVE  Updated(r, f) \in Record
<1>1. StatusAfter(r, f) \in Active \union Terminal
  BY DEF StatusAfter, StatusSetBy, Record, Fields, StopFields, Active, Terminal
<1>2. /\ ((r.full /\ f # "report") \/ f = "progress") \in BOOLEAN
      /\ (r.finished \/ f \in {"finished", "stop_finished"}) \in BOOLEAN
      /\ (r.outputs \/ f \in {"outputs", "checkpoint"}) \in BOOLEAN
  OBVIOUS
<1> QED
  BY <1>1, <1>2 DEF Updated, Record

\* An update that succeeded is followed by a place that holds no copy to be written.
LEMMA FollowType ==
  ASSUME NEW t \in Tasks, NEW f \in Fields
  PROVE  Follow(t, f).at \in Places /\ Follow(t, f).field \in Fields
           /\ Follow(t, f).at \notin MarkPlaces \union {"write"}
BY DEF Follow, Places, Fields, StopFields, MarkPlaces

\* An exception on its way up calls mark_as_failed at least once.
LEMMA UnwindType ==
  ASSUME NEW t \in Tasks, NEW f, NEW origin, NEW u \in Unwind(t, f, origin)
  PROVE  /\ u.marks \in Nat /\ u.marks > 0
         /\ u.after \in {"done", "stop_clear", "work"}
BY DEF Unwind, Frames

\* _build_failed_record turns a record into a record.
LEMMA FailedType ==
  ASSUME NEW t \in Tasks, NEW r \in Record
  PROVE  FailedRecord(t, r) \in Record
BY DEF FailedRecord, Record, Active, Terminal, Training

\* The records the code builds from nothing are records.
LEMMA ConstantRecords == Pending \in Record /\ Rejected \in Record /\ StubRecord \in Record
BY DEF Pending, Rejected, StubRecord, Record, Active, Terminal

\* A thread that becomes a well-formed handler leaves the others alone.
LEMMA ThreadType ==
  ASSUME TypeInv, NEW t \in Tasks, NEW h \in Handler, Thread(t, h),
         h.at \in {"write", "mark_put", "mark_spill"} => h.copy \in Record,
         h.at \in MarkPlaces => h.marks > 0
  PROVE  /\ handler' \in [Tasks -> Handler]
         /\ CopyOK'
         /\ MarksOK'
BY DEF TypeInv, TypeOK, CopyOK, MarksOK, Thread

\* A thread that starts calling mark_as_failed is well formed.
LEMMA MarkAsFailedType ==
  ASSUME TypeInv, NEW t \in Tasks, NEW n \in Nat, n > 0,
         NEW after \in {"done", "stop_clear", "work", "progress"},
         MarkAsFailed(t, n, after)
  PROVE  /\ handler' \in [Tasks -> Handler]
         /\ CopyOK'
         /\ MarksOK'
<1> DEFINE h == [handler[t] EXCEPT !.at = "mark_read", !.marks = n, !.after = after]
<1>1. handler[t] \in Handler
  BY DEF TypeInv, TypeOK
<1>2. h \in Handler /\ h.at = "mark_read" /\ h.marks = n
  BY <1>1 DEF Handler, Places
<1>3. Thread(t, h)
  BY DEF MarkAsFailed
<1> QED
  BY <1>2, <1>3, ThreadType DEF MarkPlaces

\* A thread whose update raises is well formed.
LEMMA RaiseErrorType ==
  ASSUME TypeInv, NEW t \in Tasks, RaiseError(t)
  PROVE  /\ handler' \in [Tasks -> Handler]
         /\ CopyOK'
         /\ MarksOK'
<1>1. PICK u \in Unwind(t, handler[t].field, handler[t].origin) :
        MarkAsFailed(t, u.marks, u.after)
  BY DEF RaiseError
<1> QED
  BY <1>1, UnwindType, MarkAsFailedType

\* Storing a record, or removing one, leaves the primary storage well formed.
LEMMA StoreType ==
  ASSUME TypeInv, NEW t \in Tasks, NEW r \in Record \union {NoRecord}, Store(t, r)
  PROVE  record' \in [Tasks -> Record \union {NoRecord}]
BY DEF TypeInv, TypeOK, Store

\* A fault keeps the counters natural numbers.
LEMMA FaultType ==
  ASSUME TypeInv, NEW k, Fault(k)
  PROVE  faults' \in Nat /\ deletes' \in Nat /\ restarts' \in Nat
BY DEF TypeInv, TypeOK, Fault

\* The same for a thread that only moves to another place and another update.
LEMMA GotoType ==
  ASSUME TypeInv, NEW t \in Tasks, NEW place \in Places, NEW f \in Fields, Goto(t, place, f),
         place \in {"write", "mark_put"} => FALSE,
         place \in {"mark_read", "mark_clear", "mark_spill"} =>
           handler[t].at = "mark_put"
  PROVE  /\ handler' \in [Tasks -> Handler]
         /\ CopyOK'
         /\ MarksOK'
<1> DEFINE h == [handler[t] EXCEPT !.at = place, !.field = f]
<1>1. handler[t] \in Handler
  BY DEF TypeInv, TypeOK
<1>2. h \in Handler /\ h.at = place /\ h.marks = handler[t].marks /\ h.copy = handler[t].copy
  BY <1>1 DEF Handler
<1>3. Thread(t, h)
  BY DEF Goto
<1>4. place \in MarkPlaces => h.marks > 0
  BY <1>2 DEF TypeInv, MarksOK, MarkPlaces
<1>5. place \in {"write", "mark_put", "mark_spill"} => h.copy \in Record
  BY <1>2 DEF TypeInv, CopyOK
<1> QED
  BY <1>2, <1>3, <1>4, <1>5, ThreadType

\* The two halves of a field update keep every type.
LEMMA UpdateType ==
  ASSUME TypeInv, NEW t \in Tasks, Update(t)
  PROVE  TypeInv'
<1> USE DEF TypeInv
<1> DEFINE H == handler' \in [Tasks -> Handler] /\ CopyOK' /\ MarksOK'
<1>h. handler[t] \in Handler
  BY DEF TypeOK
<1>1. CASE ReadFindsStop(t)
  <2>1. [handler[t] EXCEPT !.acknowledged = TRUE, !.origin = handler[t].field,
                           !.field = "stop_finished"] \in Handler
    BY <1>h DEF Handler, Fields, StopFields
  <2> QED
    BY <1>1, <2>1, ThreadType DEF ReadFindsStop, TypeOK, env, Handler, MarkPlaces
<1>2. CASE ReadRecord(t)
  <2> DEFINE place == IF handler[t].field = "checkpoint" THEN "reread" ELSE "write"
             h == [handler[t] EXCEPT !.at = place, !.copy = record[t]]
  <2>1. record[t] \in Record
    BY <1>2 DEF ReadRecord, TypeOK
  <2>2. h \in Handler /\ h.at \notin MarkPlaces /\ h.copy \in Record
    BY <1>h, <2>1 DEF Handler, Places, MarkPlaces
  <2>3. H
    BY <1>2, <2>2, ThreadType DEF ReadRecord
  <2> QED
    BY <1>2, <2>3, FaultType DEF ReadRecord, SeesNoStop, TypeOK, env
<1>3. CASE RereadRecord(t)
  <2> DEFINE h == [handler[t] EXCEPT !.at = "write", !.copy = record[t]]
  <2>1. record[t] \in Record
    BY <1>3 DEF RereadRecord, TypeOK
  <2>2. h \in Handler /\ h.at \notin MarkPlaces /\ h.copy \in Record
    BY <1>h, <2>1 DEF Handler, Places, MarkPlaces
  <2>3. H
    BY <1>3, <2>2, ThreadType DEF RereadRecord
  <2> QED
    BY <1>3, <2>3 DEF RereadRecord, TypeOK, env
<1>4. CASE ReadFails(t)
  <2>1. H
    BY <1>4, RaiseErrorType DEF ReadFails
  <2> QED
    BY <1>4, <2>1, FaultType DEF ReadFails, SeesNoStop, TypeOK, env
<1>5. CASE WriteRecord(t)
  <2> DEFINE f == handler[t].field
             h == [handler[t] EXCEPT
                    !.at = Follow(t, f).at, !.field = Follow(t, f).field, !.copy = NoRecord,
                    !.saved = @ \/ f = "checkpoint",
                    !.late = IF StopPending(t) THEN @ + 1 ELSE @]
  <2>1. f \in Fields
    BY <1>h DEF Handler
  <2>2. /\ (handler[t].saved \/ f = "checkpoint") \in BOOLEAN
        /\ (IF StopPending(t) THEN handler[t].late + 1 ELSE handler[t].late) \in Nat
    BY <1>h DEF Handler
  <2>3. h \in Handler
    BY <1>h, <2>1, <2>2, FollowType DEF Handler
  <2>4. h.at = Follow(t, f).at
    BY <1>h DEF Handler
  <2>5. H
    BY <1>5, <2>1, <2>3, <2>4, FollowType, ThreadType DEF WriteRecord, MarkPlaces
  <2>6. record' \in [Tasks -> Record \union {NoRecord}]
    BY <1>5, <2>1, UpdatedType, StoreType DEF WriteRecord, CopyOK
  <2> QED
    BY <1>5, <2>5, <2>6 DEF WriteRecord, TypeOK, env
<1>6. CASE WriteFails(t)
  <2>1. H
    BY <1>6, RaiseErrorType DEF WriteFails
  <2>2. Updated(handler[t].copy, handler[t].field) \in Record
    BY <1>h, <1>6, UpdatedType DEF WriteFails, CopyOK, Handler
  <2>3. record' \in [Tasks -> Record \union {NoRecord}]
    BY <1>6, <2>2, StoreType DEF WriteFails, TypeOK
  <2> QED
    BY <1>6, <2>1, <2>3, FaultType DEF WriteFails, TypeOK
<1>7. CASE StopEscapes(t)
  <2>1. H
    BY <1>7, GotoType DEF StopEscapes, Places, Fields, StopFields
  <2> QED
    BY <1>7, <2>1 DEF StopEscapes, TypeOK, env
<1>8. CASE StopSwallowed(t)
  <2>1. H
    BY <1>8, GotoType DEF StopSwallowed, Places, Fields
  <2> QED
    BY <1>8, <2>1 DEF StopSwallowed, TypeOK, env
<1> QED
  BY <1>1, <1>2, <1>3, <1>4, <1>5, <1>6, <1>7, <1>8 DEF Update

\* What the runner does between the updates keeps every type.
LEMMA WorkType ==
  ASSUME TypeInv, NEW t \in Tasks, Work(t)
  PROVE  TypeInv'
<1> USE DEF TypeInv
<1> DEFINE H == handler' \in [Tasks -> Handler] /\ CopyOK' /\ MarksOK'
<1>h. handler[t] \in Handler
  BY DEF TypeOK
<1>r. handler[t].reports + 1 \in Nat
  BY <1>h DEF Handler
<1>1. CASE FetchAlgorithm(t)
  <2>1. H
    BY <1>1, GotoType, MarkAsFailedType DEF FetchAlgorithm, Places, Fields
  <2> QED
    BY <1>1, <2>1 DEF FetchAlgorithm, TypeOK, env
<1>2. CASE Initialize(t)
  <2>1. H
    BY <1>2, GotoType, MarkAsFailedType DEF Initialize, Places, Fields
  <2> QED
    BY <1>2, <2>1 DEF Initialize, TypeOK, env
<1>3. CASE Report(t)
  <2>1. PICK f \in {"report", "checkpoint"} :
          Thread(t, [handler[t] EXCEPT !.at = "read", !.field = f, !.reports = @ + 1])
    BY <1>3 DEF Report
  <2>2. [handler[t] EXCEPT !.at = "read", !.field = f, !.reports = @ + 1] \in Handler
    BY <1>h, <1>r DEF Handler, Places, Fields
  <2>3. [handler[t] EXCEPT !.at = "read", !.field = f, !.reports = @ + 1].at = "read"
    BY <1>h DEF Handler
  <2>4. H
    BY <2>1, <2>2, <2>3, ThreadType DEF MarkPlaces
  <2> QED
    BY <1>3, <2>4 DEF Report, TypeOK, env
<1>4. CASE RunnerFails(t)
  <2>1. H
    BY <1>4, MarkAsFailedType DEF RunnerFails
  <2> QED
    BY <1>4, <2>1 DEF RunnerFails, TypeOK, env
<1>5. CASE CaughtFailure(t)
  <2> DEFINE h == [handler[t] EXCEPT !.at = "mark_read", !.marks = 1, !.after = "work",
                                     !.reports = @ + 1]
  <2>1. h \in Handler
    BY <1>h, <1>r DEF Handler, Places
  <2>2. h.at = "mark_read" /\ h.marks = 1
    BY <1>h DEF Handler
  <2>3. Thread(t, h)
    BY <1>5 DEF CaughtFailure
  <2> HIDE DEF h
  <2>4. H
    BY <2>1, <2>2, <2>3, ThreadType
  <2> QED
    BY <1>5, <2>4 DEF CaughtFailure, TypeOK, env
<1>6. CASE FinishWork(t)
  <2>1. H
    BY <1>6, GotoType DEF FinishWork, Places, Fields
  <2> QED
    BY <1>6, <2>1 DEF FinishWork, TypeOK, env
<1>7. CASE FinishWithoutCheckpoint(t)
  <2>1. H
    BY <1>7, MarkAsFailedType DEF FinishWithoutCheckpoint
  <2> QED
    BY <1>7, <2>1 DEF FinishWithoutCheckpoint, TypeOK, env
<1>8. CASE CloseLog(t)
  <2> DEFINE h == [handler[t] EXCEPT !.at = "done", !.sink = FALSE]
  <2>1. h \in Handler /\ h.at = "done"
    BY <1>h DEF Handler, Places
  <2>2. Thread(t, h) \/ MarkAsFailed(t, 1, "done")
    BY <1>8 DEF CloseLog
  <2> HIDE DEF h
  <2>3. Thread(t, h) => H
    BY <2>1, ThreadType DEF MarkPlaces
  <2>4. H
    BY <2>2, <2>3, MarkAsFailedType
  <2> QED
    BY <1>8, <2>4 DEF CloseLog, TypeOK, env
<1> QED
  BY <1>1, <1>2, <1>3, <1>4, <1>5, <1>6, <1>7, <1>8 DEF Work

\* mark_as_failed and mark_as_stopped keep every type.
LEMMA EndType ==
  ASSUME TypeInv, NEW t \in Tasks, End(t)
  PROVE  TypeInv'
<1> USE DEF TypeInv
<1> DEFINE H == handler' \in [Tasks -> Handler] /\ CopyOK' /\ MarksOK'
<1>h. handler[t] \in Handler
  BY DEF TypeOK
<1>g. handler[t].field \in Fields
  BY <1>h DEF Handler
<1>1. CASE MarkRead(t)
  <2>1. PICK r \in Record : Build(t, r)
    <3>1. record[t] # NoRecord => record[t] \in Record
      BY DEF TypeOK
    <3> QED
      BY <1>1, <3>1, FailedType, ConstantRecords DEF MarkRead
  <2> DEFINE h == [handler[t] EXCEPT !.at = "mark_put", !.copy = r, !.marked = TRUE]
  <2>2. h \in Handler /\ h.copy = r /\ h.marks = handler[t].marks
    BY <1>h DEF Handler, Places
  <2>3. handler[t].marks > 0
    BY <1>1 DEF MarkRead, MarksOK, MarkPlaces
  <2>4. H
    BY <2>1, <2>2, <2>3, ThreadType DEF Build
  <2> QED
    BY <1>1, <2>4, FaultType DEF MarkRead, TypeOK, env
<1>2. CASE MarkPut(t)
  <2>1. H
    BY <1>2, <1>g, GotoType DEF MarkPut, Places
  <2>2. record' \in [Tasks -> Record \union {NoRecord}]
    BY <1>2, StoreType DEF MarkPut, CopyOK, TypeOK
  <2> QED
    BY <1>2, <2>1, <2>2, FaultType DEF MarkPut, TypeOK, env
<1>3. CASE EndMark(t)
  <2> DEFINE left == handler[t].marks - 1
             next == IF left > 0 THEN "mark_read"
                     ELSE IF handler[t].after = "progress" THEN "read" ELSE handler[t].after
             f == IF left = 0 /\ handler[t].after = "progress"
                    THEN "progress" ELSE handler[t].field
             h == [handler[t] EXCEPT !.at = next, !.marks = left, !.copy = NoRecord,
                                     !.sink = FALSE, !.field = f]
  <2>1. left \in Nat
    BY <1>h, <1>3 DEF EndMark, MarksOK, MarkPlaces, Handler
  <2>2. next \in Places /\ next \notin {"write", "mark_put", "mark_spill"}
    BY <1>h DEF Handler, Places
  <2>3. next \in MarkPlaces => left > 0
    BY <1>h DEF Handler, MarkPlaces
  <2>4. f \in Fields
    BY <1>g DEF Fields
  <2>5. h \in Handler /\ h.at = next /\ h.marks = left
    BY <1>h, <2>1, <2>2, <2>4 DEF Handler
  <2>6. Thread(t, h)
    BY <1>3 DEF EndMark
  <2>7. H
    BY <2>2, <2>3, <2>5, <2>6, ThreadType
  <2>8. Kept(handler[t]) \in Record \union {NoRecord}
    BY <1>3 DEF EndMark, CopyOK, Kept
  <2> QED
    BY <1>3, <2>7, <2>8 DEF EndMark, TypeOK, env
<1>4. CASE StopClear(t)
  <2> DEFINE h == [handler[t] EXCEPT !.at = "read", !.field = "stop_status", !.sink = FALSE]
  <2>1. "stop_status" \in Fields
    BY DEF Fields, StopFields
  <2>2. h \in Handler /\ h.at = "read"
    BY <1>h, <2>1 DEF Handler, Places
  <2>3. H
    BY <1>4, <2>2, ThreadType DEF StopClear, MarkPlaces
  <2> QED
    BY <1>4, <2>3, FaultType DEF StopClear, TypeOK, env
<1> QED
  BY <1>1, <1>2, <1>3, <1>4 DEF End

\* The endpoints keep every type.
LEMMA ClientType ==
  ASSUME TypeInv, NEW t \in Tasks, Client(t) \/ Enqueue(t) \/ StartTask(t)
  PROVE  TypeInv'
<1> USE DEF TypeInv
<1> DEFINE H == handler' \in [Tasks -> Handler] /\ CopyOK' /\ MarksOK'
<1>h. handler[t] \in Handler
  BY DEF TypeOK
<1>k. ASSUME NEW place \in {"accepted", "done"}, NEW kind \in Kinds,
             Thread(t, [handler[t] EXCEPT !.at = place, !.kind = kind])
      PROVE  H
  <2>1. /\ [handler[t] EXCEPT !.at = place, !.kind = kind] \in Handler
        /\ [handler[t] EXCEPT !.at = place, !.kind = kind].at = place
    BY <1>h, KindsAssumption DEF Handler, Places
  <2> QED
    BY <1>k, <2>1, ThreadType DEF MarkPlaces
<1>1. CASE PutPending(t)
  <2>1. H
    BY <1>1, <1>k DEF PutPending
  <2>2. record' \in [Tasks -> Record \union {NoRecord}]
    BY <1>1, ConstantRecords, StoreType DEF PutPending
  <2> QED
    BY <1>1, <2>1, <2>2 DEF PutPending, TypeOK, env
<1>2. CASE SubmitRejected(t)
  <2>1. H
    BY <1>2, <1>k DEF SubmitRejected
  <2> QED
    BY <1>2, <2>1, ConstantRecords, FaultType DEF SubmitRejected, TypeOK
<1>3. CASE StopCheck(t)
  BY <1>3 DEF StopCheck, TypeOK, env, CopyOK, MarksOK
<1>4. CASE StopSubmit(t)
  BY <1>4, FaultType DEF StopSubmit, TypeOK, env, CopyOK, MarksOK
<1>5. CASE DeleteRecord(t)
  <2>1. record' \in [Tasks -> Record \union {NoRecord}]
    BY <1>5, StoreType DEF DeleteRecord
  <2> QED
    BY <1>5, <2>1 DEF DeleteRecord, TypeOK, CopyOK, MarksOK
<1>6. CASE Enqueue(t)
  <2>1. H
    BY <1>6, GotoType DEF Enqueue, Places, Fields
  <2> QED
    BY <1>6, <2>1, FaultType DEF Enqueue, TypeOK, env
<1>7. CASE StartTask(t)
  <2>1. H
    BY <1>7, GotoType DEF StartTask, Places, Fields
  <2> QED
    BY <1>7, <2>1 DEF StartTask, TypeOK, env
<1> QED
  BY <1>1, <1>2, <1>3, <1>4, <1>5, <1>6, <1>7 DEF Client

\* A restart of the process keeps every type.
LEMMA RestartType == TypeInv /\ Restart => TypeInv'
<1> SUFFICES ASSUME TypeInv, Restart
             PROVE  TypeInv'
  OBVIOUS
<1>1. ASSUME NEW t \in Tasks
      PROVE  /\ handler'[t] \in Handler
             /\ handler'[t] = handler[t] \/ handler'[t].at = "dead"
  BY DEF Restart, TypeInv, TypeOK, Handler, Places
<1>2. handler' \in [Tasks -> Handler]
  BY <1>1 DEF Restart
<1>3. CopyOK' /\ MarksOK'
  BY <1>1 DEF TypeInv, CopyOK, MarksOK, MarkPlaces
<1> QED
  BY <1>2, <1>3 DEF TypeInv, TypeOK, Restart

\* Every variable keeps its type, whatever fails and whoever interferes.
THEOREM TypeCorrect == Spec => []TypeInv
<1>1. Init => TypeInv
  BY DEF Init, TypeInv, TypeOK, CopyOK, MarksOK, MarkPlaces, NewHandler, Handler, Places, Fields
<1>2. TypeInv /\ [Next]_vars => TypeInv'
  <2> SUFFICES ASSUME TypeInv, [Next]_vars
               PROVE  TypeInv'
    OBVIOUS
  <2>1. CASE UNCHANGED vars
    BY <2>1 DEF vars, TypeInv, TypeOK, CopyOK, MarksOK
  <2>2. CASE Restart
    BY <2>2, RestartType
  <2>3. ASSUME NEW t \in Tasks, Client(t) \/ Enqueue(t) \/ StartTask(t)
        PROVE  TypeInv'
    BY <2>3, ClientType
  <2>4. ASSUME NEW t \in Tasks, Worker(t)
        PROVE  TypeInv'
    BY <2>4, UpdateType, WorkType, EndType DEF Worker
  <2> QED
    BY <2>1, <2>2, <2>3, <2>4 DEF Next, Finished
<1> QED
  BY <1>1, <1>2, PTL DEF Spec

\* Whatever fails, no record, handler or queue of TaskLifecycle loses its shape.
THEOREM TypesAreKept == Spec => []TypeOK
<1>1. TypeInv => TypeOK
  BY DEF TypeInv
<1> QED
  BY <1>1, TypeCorrect, PTL

-----------------------------------------------------------------------------
(* A stop request takes effect *)

\* The thread has found its stop request and is on its way out.
Stopping(h) ==
  \/ h.field \in StopFields
  \/ h.at \in {"stop_clear", "stopped"}
  \/ h.at \in MarkPlaces /\ h.after = "stop_clear"

\* late counts nothing before the request is posted, and at most one update that
\* was under way; a thread that is about to write has counted none but the
\* updates it owes to faults.  requested: its stop request is posted.
Timely(h, requested, n) ==
  /\ h.late <= 1 + n
  /\ ~h.acknowledged /\ ~requested => h.late = 0
  /\ ~h.acknowledged /\ h.at \in {"reread", "write"} => h.late <= n
  /\ Stopping(h) => h.acknowledged

StopInv == \A t \in Tasks : Timely(handler[t], t \in stopRequests, faults)

\* One thread moves and at most one more fault happens: only that thread matters.
LEMMA StopFrame ==
  ASSUME TypeInv, StopInv, NEW t \in Tasks, NEW h, Thread(t, h),
         faults' \in {faults, faults + 1},
         \A s \in Tasks : s # t => (s \in stopRequests' <=> s \in stopRequests),
         Timely(h, t \in stopRequests', faults')
  PROVE  StopInv'
<1>1. handler'[t] = h /\ \A s \in Tasks : s # t => handler'[s] = handler[s]
  BY DEF Thread, TypeInv, TypeOK
<1>2. ASSUME NEW s \in Tasks, s # t
      PROVE  Timely(handler[s], s \in stopRequests', faults')
  <2>1. handler[s].late \in Nat /\ faults \in Nat
    BY DEF TypeInv, TypeOK, Handler
  <2>2. Timely(handler[s], s \in stopRequests, faults)
    BY DEF StopInv
  <2> QED
    BY <1>2, <2>1, <2>2 DEF Timely
<1> QED
  BY <1>1, <1>2 DEF StopInv

\* A fault is one more fault.
LEMMA FaultCount ==
  ASSUME TypeInv, (UNCHANGED env) \/ \E k \in {"get", "refuse", "unacked", "miss", "broker"} : Fault(k)
  PROVE  faults' \in {faults, faults + 1} /\ faults \in Nat
BY DEF TypeInv, TypeOK, Fault, env

\* An exception starts on its way up.
LEMMA StopMark ==
  ASSUME TypeInv, StopInv, NEW t \in Tasks, NEW n,
         NEW after \in {"done", "stop_clear", "work", "progress"},
         MarkAsFailed(t, n, after), UNCHANGED stopRequests,
         faults' \in {faults, faults + 1},
         after = "stop_clear" => handler[t].acknowledged
  PROVE  StopInv'
<1> DEFINE h == [handler[t] EXCEPT !.at = "mark_read", !.marks = n, !.after = after]
<1>1. handler[t] \in Handler /\ faults \in Nat
  BY DEF TypeInv, TypeOK
<1>2. /\ h.at = "mark_read" /\ h.after = after /\ h.field = handler[t].field
      /\ h.late = handler[t].late /\ h.acknowledged = handler[t].acknowledged
      /\ handler[t].late \in Nat
  BY <1>1 DEF Handler
<1>3. Timely(handler[t], t \in stopRequests, faults)
  BY DEF StopInv
<1>4. Thread(t, h)
  BY DEF MarkAsFailed
<1> HIDE DEF h
<1>5. Timely(h, t \in stopRequests', faults')
  BY <1>1, <1>2, <1>3 DEF Timely, Stopping
<1> QED
  BY <1>4, <1>5, StopFrame

\* The exception of an update that raises: the thread is not about to write any more.
LEMMA StopRaise ==
  ASSUME TypeInv, StopInv, NEW t \in Tasks, RaiseError(t), UNCHANGED stopRequests,
         faults' \in {faults, faults + 1}
  PROVE  StopInv'
<1>1. PICK u \in Unwind(t, handler[t].field, handler[t].origin) :
        MarkAsFailed(t, u.marks, u.after)
  BY DEF RaiseError
<1>2. u.after = "stop_clear" => handler[t].field \in StopFields
  BY DEF Unwind, StopFields
<1>3. Timely(handler[t], t \in stopRequests, faults)
  BY DEF StopInv
<1> QED
  BY <1>1, <1>2, <1>3, UnwindType, StopMark DEF Timely, Stopping

\* The thread goes to a place that is not one of stopping or writing.
LEMMA StopGoto ==
  ASSUME TypeInv, StopInv, NEW t \in Tasks, NEW place, NEW f, Goto(t, place, f),
         UNCHANGED stopRequests, faults' \in {faults, faults + 1},
         place \notin {"reread", "write", "stop_clear", "stopped"},
         place \in MarkPlaces => handler[t].at \in MarkPlaces,
         f \in StopFields => Stopping(handler[t])
  PROVE  StopInv'
<1> DEFINE h == [handler[t] EXCEPT !.at = place, !.field = f]
<1>1. handler[t] \in Handler /\ faults \in Nat
  BY DEF TypeInv, TypeOK
<1>2. /\ h.at = place /\ h.after = handler[t].after /\ h.field = f
      /\ h.late = handler[t].late /\ h.acknowledged = handler[t].acknowledged
      /\ handler[t].late \in Nat
  BY <1>1 DEF Handler
<1>3. Timely(handler[t], t \in stopRequests, faults)
  BY DEF StopInv
<1>4. Thread(t, h)
  BY DEF Goto
<1> HIDE DEF h
<1>5. Timely(h, t \in stopRequests', faults')
  BY <1>1, <1>2, <1>3 DEF Timely, Stopping
<1> QED
  BY <1>4, <1>5, StopFrame

\* The two halves of a field update keep StopInv.
LEMMA UpdateStop ==
  ASSUME TypeInv, StopInv, NEW t \in Tasks, Update(t)
  PROVE  StopInv'
<1>h. handler[t] \in Handler /\ faults \in Nat /\ handler[t].late \in Nat
  BY DEF TypeInv, TypeOK, Handler
<1>i. Timely(handler[t], t \in stopRequests, faults)
  BY DEF StopInv
<1>1. CASE ReadFindsStop(t)
  <2> DEFINE h == [handler[t] EXCEPT !.acknowledged = TRUE, !.origin = handler[t].field,
                                     !.field = "stop_finished"]
  <2>1. h.acknowledged /\ h.late = handler[t].late
    BY <1>h DEF Handler
  <2>2. Thread(t, h) /\ UNCHANGED <<stopRequests, faults>>
    BY <1>1 DEF ReadFindsStop, env
  <2> HIDE DEF h
  <2>3. Timely(h, t \in stopRequests', faults')
    BY <1>h, <1>i, <2>1, <2>2 DEF Timely
  <2> QED
    BY <2>2, <2>3, StopFrame
<1>2. CASE ReadRecord(t)
  <2> DEFINE place == IF handler[t].field = "checkpoint" THEN "reread" ELSE "write"
             h == [handler[t] EXCEPT !.at = place, !.copy = record[t]]
  <2>1. /\ h.at \in {"reread", "write"} /\ h.field = handler[t].field
        /\ h.late = handler[t].late /\ h.acknowledged = handler[t].acknowledged
    BY <1>h DEF Handler
  <2>2. Thread(t, h) /\ UNCHANGED stopRequests
    BY <1>2 DEF ReadRecord
  <2>3. \/ faults' = faults /\ ~StopPending(t)
        \/ faults' = faults + 1
    BY <1>2 DEF ReadRecord, SeesNoStop, Fault, env
  <2> HIDE DEF h
  <2>4. Timely(h, t \in stopRequests', faults')
    BY <1>h, <1>i, <2>1, <2>2, <2>3 DEF Timely, Stopping, StopPending, MarkPlaces
  <2> QED
    BY <2>2, <2>3, <2>4, StopFrame
<1>3. CASE RereadRecord(t)
  <2> DEFINE h == [handler[t] EXCEPT !.at = "write", !.copy = record[t]]
  <2>1. /\ h.at = "write" /\ h.field = handler[t].field
        /\ h.late = handler[t].late /\ h.acknowledged = handler[t].acknowledged
    BY <1>h DEF Handler
  <2>2. Thread(t, h) /\ UNCHANGED <<stopRequests, faults>> /\ handler[t].at = "reread"
    BY <1>3 DEF RereadRecord, env
  <2> HIDE DEF h
  <2>3. Timely(h, t \in stopRequests', faults')
    BY <1>h, <1>i, <2>1, <2>2 DEF Timely, Stopping, MarkPlaces
  <2> QED
    BY <2>2, <2>3, StopFrame
<1>4. CASE ReadFails(t)
  <2>1. faults' \in {faults, faults + 1}
    BY <1>4 DEF ReadFails, SeesNoStop, Fault, env
  <2> QED
    BY <1>4, <2>1, StopRaise DEF ReadFails
<1>5. CASE WriteRecord(t)
  <2> DEFINE f == handler[t].field
             h == [handler[t] EXCEPT
                    !.at = Follow(t, f).at, !.field = Follow(t, f).field, !.copy = NoRecord,
                    !.saved = @ \/ f = "checkpoint",
                    !.late = IF StopPending(t) THEN @ + 1 ELSE @]
  <2>1. /\ h.at = Follow(t, f).at /\ h.field = Follow(t, f).field
        /\ h.late = (IF StopPending(t) THEN handler[t].late + 1 ELSE handler[t].late)
        /\ h.acknowledged = handler[t].acknowledged
    BY <1>h DEF Handler
  <2>2. Thread(t, h) /\ UNCHANGED <<stopRequests, faults>> /\ handler[t].at = "write"
    BY <1>5 DEF WriteRecord, env
  <2>3. f \in Fields
    BY <1>h DEF Handler
  <2>4. Follow(t, f).field \in StopFields \/ Follow(t, f).at \in {"stop_clear", "stopped"}
          => f \in StopFields
    BY <2>3 DEF Follow, StopFields, Fields
  <2>5. Follow(t, f).at \notin MarkPlaces \union {"write", "reread"}
    BY <2>3 DEF Follow, StopFields, Fields, MarkPlaces
  <2> HIDE DEF h
  <2>6. Timely(h, t \in stopRequests', faults')
    BY <1>h, <1>i, <2>1, <2>2, <2>4, <2>5 DEF Timely, Stopping, StopPending
  <2> QED
    BY <2>2, <2>6, StopFrame
<1>6. CASE WriteFails(t)
  <2>1. faults' \in {faults, faults + 1}
    BY <1>6 DEF WriteFails, Fault
  <2> QED
    BY <1>6, <2>1, StopRaise DEF WriteFails
<1>7. CASE StopEscapes(t)
  <2>1. Stopping(handler[t])
    BY <1>7 DEF StopEscapes, Stopping
  <2> QED
    BY <1>7, <2>1, StopGoto DEF StopEscapes, env, MarkPlaces
<1>8. CASE StopSwallowed(t)
  BY <1>8, StopGoto DEF StopSwallowed, env, MarkPlaces, StopFields
<1> QED
  BY <1>1, <1>2, <1>3, <1>4, <1>5, <1>6, <1>7, <1>8 DEF Update

\* What the runner does between the updates keeps StopInv.
LEMMA WorkStop ==
  ASSUME TypeInv, StopInv, NEW t \in Tasks, Work(t)
  PROVE  StopInv'
<1>h. handler[t] \in Handler /\ faults \in Nat /\ handler[t].late \in Nat
  BY DEF TypeInv, TypeOK, Handler
<1>i. Timely(handler[t], t \in stopRequests, faults)
  BY DEF StopInv
<1>u. UNCHANGED <<stopRequests, faults>>
  BY DEF Work, FetchAlgorithm, Initialize, Report, RunnerFails, CaughtFailure, FinishWork,
         FinishWithoutCheckpoint, CloseLog, env
<1>1. CASE FetchAlgorithm(t)
  BY <1>1, <1>u, StopGoto, StopMark DEF FetchAlgorithm, MarkPlaces, StopFields
<1>2. CASE Initialize(t)
  BY <1>2, <1>u, StopGoto, StopMark DEF Initialize, MarkPlaces, StopFields
<1>3. CASE Report(t)
  <2>1. PICK f \in {"report", "checkpoint"} :
          Thread(t, [handler[t] EXCEPT !.at = "read", !.field = f, !.reports = @ + 1])
    BY <1>3 DEF Report
  <2> DEFINE h == [handler[t] EXCEPT !.at = "read", !.field = f, !.reports = @ + 1]
  <2>2. /\ h.at = "read" /\ h.field = f
        /\ h.late = handler[t].late /\ h.acknowledged = handler[t].acknowledged
    BY <1>h DEF Handler
  <2>3. Thread(t, h)
    BY <2>1
  <2> HIDE DEF h
  <2>4. Timely(h, t \in stopRequests', faults')
    BY <1>h, <1>i, <1>u, <2>2 DEF Timely, Stopping, StopFields, MarkPlaces
  <2> QED
    BY <1>u, <2>3, <2>4, StopFrame
<1>4. CASE RunnerFails(t)
  BY <1>4, <1>u, StopMark DEF RunnerFails
<1>5. CASE CaughtFailure(t)
  <2> DEFINE h == [handler[t] EXCEPT !.at = "mark_read", !.marks = 1, !.after = "work",
                                     !.reports = @ + 1]
  <2>1. /\ h.at = "mark_read" /\ h.after = "work" /\ h.field = handler[t].field
        /\ h.late = handler[t].late /\ h.acknowledged = handler[t].acknowledged
    BY <1>h DEF Handler
  <2>2. Thread(t, h)
    BY <1>5 DEF CaughtFailure
  <2> HIDE DEF h
  <2>3. Timely(h, t \in stopRequests', faults')
    BY <1>h, <1>i, <1>u, <2>1 DEF Timely, Stopping
  <2> QED
    BY <1>u, <2>2, <2>3, StopFrame
<1>6. CASE FinishWork(t)
  BY <1>6, <1>u, StopGoto DEF FinishWork, MarkPlaces, StopFields
<1>7. CASE FinishWithoutCheckpoint(t)
  BY <1>7, <1>u, StopMark DEF FinishWithoutCheckpoint
<1>8. CASE CloseLog(t)
  <2> DEFINE h == [handler[t] EXCEPT !.at = "done", !.sink = FALSE]
  <2>1. /\ h.at = "done" /\ h.field = handler[t].field
        /\ h.late = handler[t].late /\ h.acknowledged = handler[t].acknowledged
    BY <1>h DEF Handler
  <2>2. Thread(t, h) \/ MarkAsFailed(t, 1, "done")
    BY <1>8 DEF CloseLog
  <2> HIDE DEF h
  <2>3. Timely(h, t \in stopRequests', faults')
    BY <1>h, <1>i, <1>u, <2>1 DEF Timely, Stopping, MarkPlaces
  <2> QED
    BY <1>u, <2>2, <2>3, StopFrame, StopMark
<1> QED
  BY <1>1, <1>2, <1>3, <1>4, <1>5, <1>6, <1>7, <1>8 DEF Work

\* mark_as_failed and mark_as_stopped keep StopInv.
LEMMA EndStop ==
  ASSUME TypeInv, StopInv, NEW t \in Tasks, End(t)
  PROVE  StopInv'
<1>h. handler[t] \in Handler /\ faults \in Nat /\ handler[t].late \in Nat
  BY DEF TypeInv, TypeOK, Handler
<1>i. Timely(handler[t], t \in stopRequests, faults)
  BY DEF StopInv
<1>f. faults' \in {faults, faults + 1}
  BY DEF End, MarkRead, MarkPut, EndMark, StopClear, Fault, env
<1>1. CASE MarkRead(t)
  <2>1. PICK r : Build(t, r)
    BY <1>1 DEF MarkRead
  <2> DEFINE h == [handler[t] EXCEPT !.at = "mark_put", !.copy = r, !.marked = TRUE]
  <2>2. /\ h.at = "mark_put" /\ h.after = handler[t].after /\ h.field = handler[t].field
        /\ h.late = handler[t].late /\ h.acknowledged = handler[t].acknowledged
    BY <1>h DEF Handler
  <2>3. Thread(t, h)
    BY <2>1 DEF Build
  <2>4. UNCHANGED stopRequests /\ handler[t].at = "mark_read"
    BY <1>1 DEF MarkRead
  <2> HIDE DEF h
  <2>5. Timely(h, t \in stopRequests', faults')
    BY <1>h, <1>i, <1>f, <2>2, <2>4 DEF Timely, Stopping, MarkPlaces
  <2> QED
    BY <1>f, <2>3, <2>4, <2>5, StopFrame
<1>2. CASE MarkPut(t)
  <2>1. PICK place \in {"mark_clear", "mark_spill"} : Goto(t, place, handler[t].field)
    BY <1>2 DEF MarkPut
  <2>2. UNCHANGED stopRequests /\ handler[t].at \in MarkPlaces
    BY <1>2 DEF MarkPut, MarkPlaces
  <2> QED
    BY <1>f, <2>1, <2>2, StopGoto DEF Stopping
<1>3. CASE EndMark(t)
  <2> DEFINE left == handler[t].marks - 1
             next == IF left > 0 THEN "mark_read"
                     ELSE IF handler[t].after = "progress" THEN "read" ELSE handler[t].after
             f == IF left = 0 /\ handler[t].after = "progress"
                    THEN "progress" ELSE handler[t].field
             h == [handler[t] EXCEPT !.at = next, !.marks = left, !.copy = NoRecord,
                                     !.sink = FALSE, !.field = f]
  <2>1. /\ h.at = next /\ h.after = handler[t].after /\ h.field = f
        /\ h.late = handler[t].late /\ h.acknowledged = handler[t].acknowledged
    BY <1>h DEF Handler
  <2>2. Thread(t, h) /\ UNCHANGED stopRequests /\ handler[t].at \in MarkPlaces
    BY <1>3 DEF EndMark, MarkPlaces
  <2>3. next \notin {"reread", "write", "stopped"}
    BY <1>h DEF Handler
  <2>4. next = "stop_clear" => handler[t].after = "stop_clear"
    OBVIOUS
  <2>5. f \in StopFields => handler[t].field \in StopFields
    BY DEF StopFields
  <2> HIDE DEF h, next, f, left
  <2>6. Timely(h, t \in stopRequests', faults')
    BY <1>h, <1>i, <1>f, <2>1, <2>2, <2>3, <2>4, <2>5 DEF Timely, Stopping
  <2> QED
    BY <1>f, <2>2, <2>6, StopFrame
<1>4. CASE StopClear(t)
  <2> DEFINE h == [handler[t] EXCEPT !.at = "read", !.field = "stop_status", !.sink = FALSE]
  <2>1. h.late = handler[t].late /\ h.acknowledged = handler[t].acknowledged
    BY <1>h DEF Handler
  <2>2. /\ Thread(t, h) /\ handler[t].at = "stop_clear"
        /\ \A s \in Tasks : s # t => (s \in stopRequests' <=> s \in stopRequests)
    BY <1>4 DEF StopClear
  <2> HIDE DEF h
  <2>3. Timely(h, t \in stopRequests', faults')
    BY <1>h, <1>i, <1>f, <2>1, <2>2 DEF Timely, Stopping
  <2> QED
    BY <1>f, <2>2, <2>3, StopFrame
<1> QED
  BY <1>1, <1>2, <1>3, <1>4 DEF End

\* The endpoints keep StopInv: a request is posted while no late update counts yet.
LEMMA ClientStop ==
  ASSUME TypeInv, StopInv, NEW t \in Tasks, Client(t) \/ Enqueue(t) \/ StartTask(t)
  PROVE  StopInv'
<1>h. handler[t] \in Handler /\ faults \in Nat /\ handler[t].late \in Nat
  BY DEF TypeInv, TypeOK, Handler
<1>i. Timely(handler[t], t \in stopRequests, faults)
  BY DEF StopInv
<1>f. faults' \in {faults, faults + 1}
  BY DEF Client, PutPending, SubmitRejected, StopCheck, StopSubmit, DeleteRecord, Enqueue,
         StartTask, Fault, env
<1>k. ASSUME NEW place \in {"accepted", "done"}, NEW kind \in Kinds, UNCHANGED stopRequests,
             Thread(t, [handler[t] EXCEPT !.at = place, !.kind = kind])
      PROVE  StopInv'
  <2> DEFINE h == [handler[t] EXCEPT !.at = place, !.kind = kind]
  <2>1. /\ h.at = place /\ h.after = handler[t].after /\ h.field = handler[t].field
        /\ h.late = handler[t].late /\ h.acknowledged = handler[t].acknowledged
    BY <1>h DEF Handler
  <2>2. Thread(t, h)
    BY <1>k
  <2> HIDE DEF h
  <2>3. Timely(h, t \in stopRequests', faults')
    BY <1>h, <1>i, <1>f, <1>k, <2>1 DEF Timely, Stopping, MarkPlaces
  <2> QED
    BY <1>f, <1>k, <2>2, <2>3, StopFrame
<1>1. CASE PutPending(t)
  BY <1>1, <1>k DEF PutPending
<1>2. CASE SubmitRejected(t)
  BY <1>2, <1>k DEF SubmitRejected
<1>3. CASE StopCheck(t) \/ DeleteRecord(t)
  BY <1>3 DEF StopCheck, DeleteRecord, StopInv, env
<1>4. CASE StopSubmit(t)
  <2>1. ASSUME NEW s \in Tasks
        PROVE  Timely(handler[s], s \in stopRequests', faults')
    <3>1. Timely(handler[s], s \in stopRequests, faults) /\ handler[s].late \in Nat
      BY DEF StopInv, TypeInv, TypeOK, Handler
    <3>2. s \in stopRequests => s \in stopRequests'
      BY <1>4 DEF StopSubmit
    <3> QED
      BY <1>h, <1>f, <3>1, <3>2 DEF Timely
  <2> QED
    BY <1>4, <2>1 DEF StopSubmit, StopInv
<1>5. CASE Enqueue(t) \/ StartTask(t)
  <2>1. PICK place \in {"queued", "done", "read"} : Goto(t, place, "started")
    BY <1>5 DEF Enqueue, StartTask
  <2>2. UNCHANGED stopRequests
    BY <1>5 DEF Enqueue, StartTask
  <2> QED
    BY <1>f, <2>1, <2>2, StopGoto DEF MarkPlaces, StopFields
<1> QED
  BY <1>1, <1>2, <1>3, <1>4, <1>5 DEF Client

\* A restart of the process keeps StopInv.
LEMMA RestartStop == TypeInv /\ StopInv /\ Restart => StopInv'
<1> SUFFICES ASSUME TypeInv, StopInv, Restart, NEW t \in Tasks
             PROVE  Timely(handler'[t], t \in stopRequests, faults)
  BY DEF Restart, StopInv
<1>1. handler[t] \in Handler
  BY DEF TypeInv, TypeOK
<1>2. Timely(handler[t], t \in stopRequests, faults)
  BY DEF StopInv
<1>3. CASE handler'[t] = handler[t]
  BY <1>2, <1>3
<1>4. CASE handler'[t] = [handler[t] EXCEPT !.at = "dead"]
  <2>1. /\ handler'[t].at = "dead" /\ handler'[t].field = handler[t].field
        /\ handler'[t].late = handler[t].late
        /\ handler'[t].acknowledged = handler[t].acknowledged
    BY <1>1, <1>4 DEF Handler
  <2> QED
    BY <1>2, <2>1 DEF Timely, Stopping, MarkPlaces
<1> QED
  BY <1>3, <1>4 DEF Restart

\* StopInv is inductive, given the types.
LEMMA StopInductive == TypeInv /\ StopInv /\ [Next]_vars => StopInv'
<1> SUFFICES ASSUME TypeInv, StopInv, [Next]_vars
             PROVE  StopInv'
  OBVIOUS
<1>1. CASE UNCHANGED vars
  BY <1>1 DEF vars, StopInv
<1>2. CASE Restart
  BY <1>2, RestartStop
<1>3. ASSUME NEW t \in Tasks, Client(t) \/ Enqueue(t) \/ StartTask(t)
      PROVE  StopInv'
  BY <1>3, ClientStop
<1>4. ASSUME NEW t \in Tasks, Worker(t)
      PROVE  StopInv'
  BY <1>4, UpdateStop, WorkStop, EndStop DEF Worker
<1> QED
  BY <1>1, <1>2, <1>3, <1>4 DEF Next, Finished

\* A task whose stop request is posted makes at most the update that was under
\* way then and one more for every storage call that misbehaved, whatever its
\* algorithm swallows and however many tasks, faults, deletions and restarts
\* there are.
THEOREM StopIsTimely == Spec => []StopTakesEffect
<1>1. Init => StopInv
  BY DEF Init, StopInv, Timely, Stopping, NewHandler, MarkPlaces, StopFields
<1>2. StopInv => StopTakesEffect
  BY DEF StopInv, Timely, StopTakesEffect
<1> QED
  BY <1>1, <1>2, TypeCorrect, StopInductive, PTL DEF Spec

-----------------------------------------------------------------------------
(* Final statuses *)

Early == {"started", "session", "device", "running"}

\* What a record holds when the update of f is due in mark_as_completed.
Prepared(kind, f, r) ==
  /\ f \in {"outputs", "finished", "log", "completed"} => r.full
  /\ f \in {"finished", "log", "completed"} /\ kind = "execution" => r.outputs
  /\ f \in {"log", "completed"} => r.finished

Whole(kind, r) == r.full /\ r.finished /\ (kind = "execution" => r.outputs)

\* The thread has nothing left to do but to report a failure, if that.
Leaving(h) ==
  \/ h.at \in {"close", "done", "dead"}
  \/ h.at \in MarkPlaces /\ h.after = "done"

\* A thread that is starting finds no final status; the copy it is about to
\* write is the record as it is, or as it was when it was deleted; and nothing
\* is written to a COMPLETED record but the record of a failure.
RecordOK(h, r) ==
  /\ h.at = "idle" => r = NoRecord
  /\ (h.at \in {"accepted", "queued", "fetch", "ready"}
        \/ (h.at \in {"read", "write"} /\ h.field \in Early)) =>
       (r = NoRecord \/ r.status \in Active)
  /\ h.at = "reread" => h.field = "checkpoint"
  /\ h.at = "read" => (r = NoRecord \/ Prepared(h.kind, h.field, r))
  /\ h.at = "write" =>
       /\ r = NoRecord \/ r = h.copy
       /\ Prepared(h.kind, h.field, h.copy)
       /\ h.copy.status # "COMPLETED"
       /\ h.field \in Early => h.copy.status \in Active
  /\ h.at = "mark_put" => h.copy.status = "FAILED"
  /\ (r # NoRecord /\ r.status = "COMPLETED") => (Whole(h.kind, r) /\ Leaving(h))

RecordInv == \A t \in Tasks : RecordOK(handler[t], record[t])

\* A record and its handler that stay as they are stay consistent.
LEMMA RecordFrame ==
  ASSUME TypeInv, RecordInv, NEW t \in Tasks, NEW h, Thread(t, h),
         \A s \in Tasks : s # t => record'[s] = record[s],
         RecordOK(h, record'[t])
  PROVE  RecordInv'
<1>1. handler'[t] = h /\ \A s \in Tasks : s # t => handler'[s] = handler[s]
  BY DEF Thread, TypeInv, TypeOK
<1> QED
  BY <1>1 DEF RecordInv

\* Storing the record of one task changes no other record.
LEMMA StoreOnly ==
  ASSUME TypeInv, NEW t \in Tasks, NEW r, Store(t, r)
  PROVE  record'[t] = r /\ \A s \in Tasks : s # t => record'[s] = record[s]
BY DEF TypeInv, TypeOK, Store

\* Only the updates of the status change the status of a record.
LEMMA UpdatedStatus ==
  ASSUME NEW r \in Record, NEW f \in Fields
  PROVE  /\ Updated(r, f).status = StatusAfter(r, f)
         /\ Updated(r, f).full = ((r.full /\ f # "report") \/ f = "progress")
         /\ Updated(r, f).finished = (r.finished \/ f \in {"finished", "stop_finished"})
         /\ Updated(r, f).outputs = (r.outputs \/ f \in {"outputs", "checkpoint"})
BY DEF Updated, Record

\* The status a field update leaves is one it sets or the one it found.
LEMMA StatusAfterCases ==
  ASSUME NEW r \in Record, NEW f \in Fields
  PROVE  /\ StatusAfter(r, f) = "COMPLETED" => f = "completed" \/ r.status = "COMPLETED"
         /\ StatusAfter(r, f) \in Terminal \/ f \in Early \/ StatusAfter(r, f) = r.status
         /\ f = "started" => StatusAfter(r, f) = "STARTED"
         /\ f = "running" => StatusAfter(r, f) = "RUNNING"
         /\ f \in {"session", "device"} => StatusAfter(r, f) = r.status
BY DEF StatusAfter, StatusSetBy, Fields, StopFields, Terminal, Early

\* An exception starts on its way up; the record is as it was, or written last.
LEMMA RecordMark ==
  ASSUME TypeInv, RecordInv, NEW t \in Tasks, NEW n,
         NEW after \in {"done", "stop_clear", "work", "progress"},
         MarkAsFailed(t, n, after),
         \A s \in Tasks : s # t => record'[s] = record[s],
         (record'[t] # NoRecord /\ record'[t].status = "COMPLETED") =>
           (after = "done" /\ Whole(handler[t].kind, record'[t]))
  PROVE  RecordInv'
<1> DEFINE h == [handler[t] EXCEPT !.at = "mark_read", !.marks = n, !.after = after]
<1>1. handler[t] \in Handler
  BY DEF TypeInv, TypeOK
<1>2. h.at = "mark_read" /\ h.after = after /\ h.kind = handler[t].kind
  BY <1>1 DEF Handler
<1>3. Thread(t, h)
  BY DEF MarkAsFailed
<1> HIDE DEF h
<1>4. RecordOK(h, record'[t])
  BY <1>2 DEF RecordOK, Leaving, MarkPlaces
<1> QED
  BY <1>3, <1>4, RecordFrame

\* The thread goes somewhere else and the record stays as it is.
LEMMA RecordGoto ==
  ASSUME TypeInv, RecordInv, NEW t \in Tasks, NEW place, NEW f, Goto(t, place, f),
         UNCHANGED record,
         place \notin {"idle", "reread", "write", "mark_put"},
         (place \in {"accepted", "queued", "fetch", "ready"} \/ (place = "read" /\ f \in Early))
           => handler[t].at \in {"accepted", "queued", "fetch", "ready"},
         place = "read" => f \notin {"outputs", "finished", "log", "completed"},
         ~Leaving(handler[t]) \/ place \in {"close", "done", "dead"}
  PROVE  RecordInv'
<1> DEFINE h == [handler[t] EXCEPT !.at = place, !.field = f]
<1>1. handler[t] \in Handler
  BY DEF TypeInv, TypeOK
<1>2. h.at = place /\ h.field = f /\ h.kind = handler[t].kind
  BY <1>1 DEF Handler
<1>3. RecordOK(handler[t], record[t])
  BY DEF RecordInv
<1>4. Thread(t, h)
  BY DEF Goto
<1> HIDE DEF h
<1>5. RecordOK(h, record'[t])
  BY <1>2, <1>3 DEF RecordOK, Leaving, Prepared
<1> QED
  BY <1>4, <1>5, RecordFrame

\* The two halves of a field update keep RecordInv.
LEMMA RecordUpdate ==
  ASSUME TypeInv, RecordInv, NEW t \in Tasks, Update(t)
  PROVE  RecordInv'
<1>h. handler[t] \in Handler /\ handler[t].field \in Fields
  BY DEF TypeInv, TypeOK, Handler
<1>r. record[t] # NoRecord => record[t] \in Record
  BY DEF TypeInv, TypeOK
<1>i. RecordOK(handler[t], record[t])
  BY DEF RecordInv
<1>1. CASE ReadFindsStop(t)
  <2> DEFINE h == [handler[t] EXCEPT !.acknowledged = TRUE, !.origin = handler[t].field,
                                     !.field = "stop_finished"]
  <2>1. h.at = "read" /\ h.field = "stop_finished" /\ h.kind = handler[t].kind
    BY <1>h, <1>1 DEF Handler, ReadFindsStop
  <2>2. Thread(t, h) /\ UNCHANGED record /\ handler[t].at = "read"
    BY <1>1 DEF ReadFindsStop
  <2> HIDE DEF h
  <2>3. RecordOK(h, record'[t])
    BY <1>i, <2>1, <2>2 DEF RecordOK, Prepared, Early, Leaving, MarkPlaces
  <2> QED
    BY <2>2, <2>3, RecordFrame
<1>2. CASE ReadRecord(t)
  <2> DEFINE place == IF handler[t].field = "checkpoint" THEN "reread" ELSE "write"
             h == [handler[t] EXCEPT !.at = place, !.copy = record[t]]
  <2>1. /\ h.at \in {"reread", "write"} /\ h.field = handler[t].field /\ h.copy = record[t]
        /\ h.at = "reread" => h.field = "checkpoint"
        /\ h.kind = handler[t].kind
    BY <1>h DEF Handler
  <2>2. Thread(t, h) /\ UNCHANGED record /\ record[t] # NoRecord /\ handler[t].at = "read"
    BY <1>2 DEF ReadRecord
  <2>3. record[t].status # "COMPLETED"
    BY <1>i, <2>2 DEF RecordOK, Leaving, MarkPlaces
  <2> HIDE DEF h
  <2>4. RecordOK(h, record'[t])
    BY <1>i, <2>1, <2>2, <2>3 DEF RecordOK
  <2> QED
    BY <2>2, <2>4, RecordFrame
<1>3. CASE RereadRecord(t)
  <2> DEFINE h == [handler[t] EXCEPT !.at = "write", !.copy = record[t]]
  <2>1. h.at = "write" /\ h.field = handler[t].field /\ h.copy = record[t]
    BY <1>h DEF Handler
  <2>2. Thread(t, h) /\ UNCHANGED record /\ record[t] # NoRecord /\ handler[t].at = "reread"
    BY <1>3 DEF RereadRecord
  <2>3. record[t].status # "COMPLETED" /\ h.field = "checkpoint"
    BY <1>i, <2>1, <2>2 DEF RecordOK, Leaving, MarkPlaces
  <2> HIDE DEF h
  <2>4. RecordOK(h, record'[t])
    BY <1>i, <2>1, <2>2, <2>3 DEF RecordOK, Prepared, Early
  <2> QED
    BY <2>2, <2>4, RecordFrame
<1>4. CASE ReadFails(t)
  <2>1. PICK u \in Unwind(t, handler[t].field, handler[t].origin) :
          MarkAsFailed(t, u.marks, u.after)
    BY <1>4 DEF ReadFails, RaiseError
  <2>2. UNCHANGED record /\ handler[t].at \in {"read", "reread"}
    BY <1>4 DEF ReadFails
  <2>3. ~(record[t] # NoRecord /\ record[t].status = "COMPLETED")
    BY <1>i, <2>2 DEF RecordOK, Leaving, MarkPlaces
  <2> QED
    BY <2>1, <2>2, <2>3, UnwindType, RecordMark
<1>w. ASSUME handler[t].at = "write"
      PROVE  /\ handler[t].copy \in Record
             /\ LET new == Updated(handler[t].copy, handler[t].field)
                IN  /\ new # NoRecord
                    /\ new.status = "COMPLETED" =>
                         handler[t].field = "completed" /\ Whole(handler[t].kind, new)
  <2> DEFINE c == handler[t].copy
             f == handler[t].field
  <2>1. c \in Record
    BY <1>w DEF TypeInv, CopyOK
  <2>2. c.status # "COMPLETED" /\ Prepared(handler[t].kind, f, c)
    BY <1>w, <1>i DEF RecordOK
  <2> HIDE DEF c, f
  <2>3. f \in Fields
    BY <1>h DEF f
  <2>4. Updated(c, f) # NoRecord
    BY <2>1, <2>3, UpdatedType, NoRecordAssumption
  <2>5. Updated(c, f).status = "COMPLETED" => f = "completed"
    BY <2>1, <2>2, <2>3, UpdatedStatus, StatusAfterCases
  <2>6. f = "completed" => Whole(handler[t].kind, Updated(c, f))
    BY <2>1, <2>2, <2>3, UpdatedStatus DEF Prepared, Whole
  <2> QED
    BY <2>1, <2>4, <2>5, <2>6 DEF c, f
<1>5. CASE WriteRecord(t)
  <2> DEFINE c == handler[t].copy
             f == handler[t].field
             new == Updated(c, f)
             h == [handler[t] EXCEPT
                    !.at = Follow(t, f).at, !.field = Follow(t, f).field, !.copy = NoRecord,
                    !.saved = @ \/ f = "checkpoint",
                    !.late = IF StopPending(t) THEN @ + 1 ELSE @]
  <2>1. /\ h.at = Follow(t, f).at /\ h.field = Follow(t, f).field
        /\ h.kind = handler[t].kind
    BY <1>h DEF Handler
  <2>2. Thread(t, h) /\ handler[t].at = "write" /\ Store(t, new)
    BY <1>5 DEF WriteRecord
  <2>3. c \in Record /\ f \in Fields /\ handler[t].kind \in {"execution", "training"}
    BY <1>h, <1>w, <2>2 DEF Handler
  <2>4. /\ Prepared(handler[t].kind, f, c)
        /\ f \in Early => c.status \in Active
    BY <1>i, <2>2 DEF RecordOK
  <2>5. /\ new # NoRecord
        /\ new.status = "COMPLETED" => f = "completed" /\ Whole(handler[t].kind, new)
    BY <1>w, <2>2
  <2> HIDE DEF h, c, f
  <2>6. Prepared(handler[t].kind, Follow(t, f).field, new)
    BY <2>3, <2>4, UpdatedStatus DEF Prepared, Follow, Training, Fields, StopFields
  <2>7. f \in Early => new.status \in Active
    BY <2>3, <2>4, UpdatedStatus, StatusAfterCases DEF Early, Active
  <2>8. /\ Follow(t, f).at \notin {"idle", "accepted", "queued", "reread", "write", "mark_put"}
        /\ Follow(t, f).at \in {"fetch", "ready"} => f \in Early
        /\ Follow(t, f).at = "read" /\ Follow(t, f).field \in Early => f \in Early
        /\ f = "completed" => Follow(t, f).at = "close"
    BY <2>3 DEF Follow, Early, Fields, StopFields
  <2> HIDE DEF new
  <2>9. RecordOK(h, new)
    BY <2>1, <2>5, <2>6, <2>7, <2>8 DEF RecordOK, Leaving
  <2> QED
    BY <2>2, <2>9, StoreOnly, RecordFrame
<1>6. CASE WriteFails(t)
  <2> DEFINE new == Updated(handler[t].copy, handler[t].field)
  <2>1. PICK u \in Unwind(t, handler[t].field, handler[t].origin) :
          MarkAsFailed(t, u.marks, u.after)
    BY <1>6 DEF WriteFails, RaiseError
  <2>2. handler[t].at = "write" /\ (UNCHANGED record \/ Store(t, new))
    BY <1>6 DEF WriteFails
  <2>3. \A s \in Tasks : s # t => record'[s] = record[s]
    BY <2>2, StoreOnly
  <2>4. record'[t] = record[t] \/ record'[t] = new
    BY <2>2, StoreOnly
  <2>5. ~(record[t] # NoRecord /\ record[t].status = "COMPLETED")
    BY <1>i, <2>2 DEF RecordOK, Leaving, MarkPlaces
  <2>6. new.status = "COMPLETED" =>
          handler[t].field = "completed" /\ Whole(handler[t].kind, new)
    BY <1>w, <2>2
  <2>7. handler[t].field = "completed" => u.after = "done"
    BY DEF Unwind, CanCatch
  <2> HIDE DEF new
  <2> QED
    BY <2>1, <2>3, <2>4, <2>5, <2>6, <2>7, UnwindType, RecordMark
<1>7. CASE StopEscapes(t)
  BY <1>7, RecordGoto DEF StopEscapes
<1>8. CASE StopSwallowed(t)
  <2>1. ~Leaving(handler[t])
    BY <1>8 DEF StopSwallowed, Leaving, MarkPlaces
  <2> QED
    BY <1>8, <2>1, RecordGoto DEF StopSwallowed
<1> QED
  BY <1>1, <1>2, <1>3, <1>4, <1>5, <1>6, <1>7, <1>8 DEF Update

\* What the runner does between the updates keeps RecordInv.
LEMMA RecordWork ==
  ASSUME TypeInv, RecordInv, NEW t \in Tasks, Work(t)
  PROVE  RecordInv'
<1>h. handler[t] \in Handler
  BY DEF TypeInv, TypeOK
<1>i. RecordOK(handler[t], record[t])
  BY DEF RecordInv
<1>u. UNCHANGED record
  BY DEF Work, FetchAlgorithm, Initialize, Report, RunnerFails, CaughtFailure, FinishWork,
         FinishWithoutCheckpoint, CloseLog
<1>s. \A s \in Tasks : s # t => record'[s] = record[s]
  BY <1>u
<1>n. ASSUME handler[t].at # "close"
      PROVE  /\ ~Leaving(handler[t])
             /\ ~(record'[t] # NoRecord /\ record'[t].status = "COMPLETED")
  <2>1. handler[t].at \in {"fetch", "ready", "work", "close"}
    BY DEF Work, FetchAlgorithm, Initialize, Report, RunnerFails, CaughtFailure, FinishWork,
           FinishWithoutCheckpoint, CloseLog
  <2>2. ~Leaving(handler[t])
    BY <1>n, <2>1 DEF Leaving, MarkPlaces
  <2> QED
    BY <1>i, <1>u, <2>2 DEF RecordOK
<1>1. CASE FetchAlgorithm(t)
  BY <1>1, <1>u, <1>n, <1>s, RecordGoto, RecordMark DEF FetchAlgorithm
<1>2. CASE Initialize(t)
  BY <1>2, <1>u, <1>n, <1>s, RecordGoto, RecordMark DEF Initialize
<1>3. CASE Report(t)
  <2>1. PICK f \in {"report", "checkpoint"} :
          Thread(t, [handler[t] EXCEPT !.at = "read", !.field = f, !.reports = @ + 1])
    BY <1>3 DEF Report
  <2> DEFINE h == [handler[t] EXCEPT !.at = "read", !.field = f, !.reports = @ + 1]
  <2>2. h.at = "read" /\ h.field = f
    BY <1>h DEF Handler
  <2>3. Thread(t, h)
    BY <2>1
  <2>4. handler[t].at = "work"
    BY <1>3 DEF Report
  <2> HIDE DEF h
  <2>5. RecordOK(h, record'[t])
    BY <1>n, <2>2, <2>4 DEF RecordOK, Prepared, Early
  <2> QED
    BY <1>s, <2>3, <2>5, RecordFrame
<1>4. CASE RunnerFails(t)
  BY <1>4, <1>n, <1>s, RecordMark DEF RunnerFails
<1>5. CASE CaughtFailure(t)
  <2> DEFINE h == [handler[t] EXCEPT !.at = "mark_read", !.marks = 1, !.after = "work",
                                     !.reports = @ + 1]
  <2>1. h.at = "mark_read"
    BY <1>h DEF Handler
  <2>2. Thread(t, h) /\ handler[t].at = "work"
    BY <1>5 DEF CaughtFailure
  <2> HIDE DEF h
  <2>3. RecordOK(h, record'[t])
    BY <1>n, <2>1, <2>2 DEF RecordOK
  <2> QED
    BY <1>s, <2>2, <2>3, RecordFrame
<1>6. CASE FinishWork(t)
  BY <1>6, <1>u, <1>n, RecordGoto DEF FinishWork, Early
<1>7. CASE FinishWithoutCheckpoint(t)
  BY <1>7, <1>n, <1>s, RecordMark DEF FinishWithoutCheckpoint
<1>8. CASE CloseLog(t)
  <2> DEFINE h == [handler[t] EXCEPT !.at = "done", !.sink = FALSE]
  <2>1. h.at = "done" /\ h.kind = handler[t].kind
    BY <1>h DEF Handler
  <2>2. Thread(t, h) \/ MarkAsFailed(t, 1, "done")
    BY <1>8 DEF CloseLog
  <2> HIDE DEF h
  <2>3. RecordOK(h, record'[t])
    BY <1>i, <1>u, <2>1 DEF RecordOK, Leaving
  <2>4. (record'[t] # NoRecord /\ record'[t].status = "COMPLETED") =>
          Whole(handler[t].kind, record'[t])
    BY <1>i, <1>u DEF RecordOK
  <2> QED
    BY <1>s, <2>2, <2>3, <2>4, RecordFrame, RecordMark
<1> QED
  BY <1>1, <1>2, <1>3, <1>4, <1>5, <1>6, <1>7, <1>8 DEF Work

\* mark_as_failed and mark_as_stopped keep RecordInv.
LEMMA RecordEnd ==
  ASSUME TypeInv, RecordInv, NEW t \in Tasks, End(t)
  PROVE  RecordInv'
<1>h. handler[t] \in Handler
  BY DEF TypeInv, TypeOK
<1>i. RecordOK(handler[t], record[t])
  BY DEF RecordInv
<1>1. CASE MarkRead(t)
  <2>1. PICK r : Build(t, r) /\ r.status = "FAILED"
    <3>1. record[t] # NoRecord => FailedRecord(t, record[t]).status = "FAILED"
      BY DEF TypeInv, TypeOK, FailedRecord, Record
    <3>2. StubRecord.status = "FAILED"
      BY DEF StubRecord
    <3> QED
      BY <1>1, <3>1, <3>2 DEF MarkRead
  <2> DEFINE h == [handler[t] EXCEPT !.at = "mark_put", !.copy = r, !.marked = TRUE]
  <2>2. /\ h.at = "mark_put" /\ h.copy = r /\ h.after = handler[t].after
        /\ h.kind = handler[t].kind
    BY <1>h DEF Handler
  <2>3. Thread(t, h) /\ UNCHANGED record /\ handler[t].at = "mark_read"
    BY <1>1, <2>1 DEF MarkRead, Build
  <2> HIDE DEF h
  <2>4. RecordOK(h, record'[t])
    BY <1>i, <2>1, <2>2, <2>3 DEF RecordOK, Leaving, MarkPlaces
  <2> QED
    BY <2>3, <2>4, RecordFrame
<1>2. CASE MarkPut(t)
  <2>1. PICK place \in {"mark_clear", "mark_spill"} : Goto(t, place, handler[t].field)
    BY <1>2 DEF MarkPut
  <2> DEFINE h == [handler[t] EXCEPT !.at = place, !.field = handler[t].field]
  <2>2. h.at = place /\ h.after = handler[t].after /\ h.kind = handler[t].kind
    BY <1>h DEF Handler
  <2>3. /\ Thread(t, h) /\ handler[t].at = "mark_put"
        /\ UNCHANGED record \/ Store(t, handler[t].copy)
    BY <1>2, <2>1 DEF MarkPut, Goto
  <2> HIDE DEF h
  <2>4. /\ record'[t] = record[t] \/ record'[t] = handler[t].copy
        /\ \A s \in Tasks : s # t => record'[s] = record[s]
    BY <2>3, StoreOnly
  <2>5. RecordOK(h, record'[t])
    BY <1>i, <2>2, <2>3, <2>4 DEF RecordOK, Leaving, MarkPlaces
  <2> QED
    BY <2>3, <2>4, <2>5, RecordFrame
<1>3. CASE EndMark(t)
  <2> DEFINE left == handler[t].marks - 1
             next == IF left > 0 THEN "mark_read"
                     ELSE IF handler[t].after = "progress" THEN "read" ELSE handler[t].after
             f == IF left = 0 /\ handler[t].after = "progress"
                    THEN "progress" ELSE handler[t].field
             h == [handler[t] EXCEPT !.at = next, !.marks = left, !.copy = NoRecord,
                                     !.sink = FALSE, !.field = f]
  <2>1. /\ h.at = next /\ h.after = handler[t].after /\ h.field = f
        /\ h.kind = handler[t].kind
    BY <1>h DEF Handler
  <2>2. Thread(t, h) /\ UNCHANGED record /\ handler[t].at \in MarkPlaces
    BY <1>3 DEF EndMark, MarkPlaces
  <2>3. /\ next \in {"mark_read", "read", "done", "stop_clear", "work"}
        /\ handler[t].after = "done" => next \in {"mark_read", "done"}
        /\ next = "read" => f = "progress"
    <3>1. left \in Nat
      BY <1>h, <2>2 DEF TypeInv, MarksOK, Handler
    <3>2. handler[t].after \in {"done", "stop_clear", "work", "progress"}
      BY <1>h DEF Handler
    <3> HIDE DEF left
    <3>3. CASE left > 0
      BY <3>3
    <3>4. CASE left = 0
      BY <3>2, <3>4
    <3> QED
      BY <3>1, <3>3, <3>4
  <2> HIDE DEF h, next, f, left
  <2>4. RecordOK(h, record'[t])
    BY <1>i, <2>1, <2>2, <2>3 DEF RecordOK, Leaving, Prepared, Early, MarkPlaces
  <2> QED
    BY <2>2, <2>4, RecordFrame
<1>4. CASE StopClear(t)
  <2> DEFINE h == [handler[t] EXCEPT !.at = "read", !.field = "stop_status", !.sink = FALSE]
  <2>1. h.at = "read" /\ h.field = "stop_status"
    BY <1>h DEF Handler
  <2>2. Thread(t, h) /\ UNCHANGED record /\ handler[t].at = "stop_clear"
    BY <1>4 DEF StopClear
  <2> HIDE DEF h
  <2>3. RecordOK(h, record'[t])
    BY <1>i, <2>1, <2>2 DEF RecordOK, Prepared, Early, Leaving, MarkPlaces
  <2> QED
    BY <2>2, <2>3, RecordFrame
<1> QED
  BY <1>1, <1>2, <1>3, <1>4 DEF End

\* The endpoints keep RecordInv.
LEMMA RecordClient ==
  ASSUME TypeInv, RecordInv, NEW t \in Tasks, Client(t) \/ Enqueue(t) \/ StartTask(t)
  PROVE  RecordInv'
<1>h. handler[t] \in Handler
  BY DEF TypeInv, TypeOK
<1>i. RecordOK(handler[t], record[t])
  BY DEF RecordInv
<1>k. ASSUME NEW place \in {"accepted", "done"}, NEW kind \in Kinds,
             Thread(t, [handler[t] EXCEPT !.at = place, !.kind = kind]),
             \A s \in Tasks : s # t => record'[s] = record[s],
             record'[t] \in {Pending, NoRecord}
      PROVE  RecordInv'
  <2> DEFINE h == [handler[t] EXCEPT !.at = place, !.kind = kind]
  <2>1. h.at = place
    BY <1>h DEF Handler
  <2>2. Thread(t, h)
    BY <1>k
  <2>3. Pending.status = "PENDING"
    BY DEF Pending
  <2> HIDE DEF h
  <2>4. RecordOK(h, record'[t])
    BY <1>k, <2>1, <2>3 DEF RecordOK, Active
  <2> QED
    BY <1>k, <2>2, <2>4, RecordFrame
<1>1. CASE PutPending(t)
  <2>1. record'[t] = Pending /\ \A s \in Tasks : s # t => record'[s] = record[s]
    BY <1>1, StoreOnly DEF PutPending
  <2> QED
    BY <1>1, <1>k, <2>1 DEF PutPending
<1>2. CASE SubmitRejected(t)
  <2>1. UNCHANGED record /\ record[t] = NoRecord
    BY <1>2, <1>i DEF SubmitRejected, RecordOK
  <2> QED
    BY <1>2, <1>k, <2>1 DEF SubmitRejected
<1>3. CASE StopCheck(t) \/ StopSubmit(t)
  BY <1>3 DEF StopCheck, StopSubmit, RecordInv
<1>4. CASE DeleteRecord(t)
  <2>1. record'[t] = NoRecord /\ \A s \in Tasks : s # t => record'[s] = record[s]
    BY <1>4, StoreOnly DEF DeleteRecord
  <2>2. RecordOK(handler[t], NoRecord)
    BY <1>i DEF RecordOK
  <2> QED
    BY <1>4, <2>1, <2>2 DEF DeleteRecord, RecordInv
<1>5. CASE Enqueue(t)
  <2>1. ~Leaving(handler[t])
    BY <1>5 DEF Enqueue, Leaving, MarkPlaces
  <2> QED
    BY <1>5, <2>1, RecordGoto DEF Enqueue
<1>6. CASE StartTask(t)
  <2>1. ~Leaving(handler[t])
    BY <1>6 DEF StartTask, Leaving, MarkPlaces
  <2> QED
    BY <1>6, <2>1, RecordGoto DEF StartTask
<1> QED
  BY <1>1, <1>2, <1>3, <1>4, <1>5, <1>6 DEF Client

\* A restart of the process keeps RecordInv.
LEMMA RecordRestart == TypeInv /\ RecordInv /\ Restart => RecordInv'
<1> SUFFICES ASSUME TypeInv, RecordInv, Restart, NEW t \in Tasks
             PROVE  RecordOK(handler'[t], record[t])
  BY DEF Restart, RecordInv
<1>1. handler[t] \in Handler
  BY DEF TypeInv, TypeOK
<1>2. RecordOK(handler[t], record[t])
  BY DEF RecordInv
<1>3. CASE handler'[t] = handler[t]
  BY <1>2, <1>3
<1>4. CASE handler'[t] = [handler[t] EXCEPT !.at = "dead"]
  <2>1. handler'[t].at = "dead" /\ handler'[t].kind = handler[t].kind
    BY <1>1, <1>4 DEF Handler
  <2> QED
    BY <1>2, <2>1 DEF RecordOK, Leaving
<1> QED
  BY <1>3, <1>4 DEF Restart

\* RecordInv is inductive, given the types.
LEMMA RecordInductive == TypeInv /\ RecordInv /\ [Next]_vars => RecordInv'
<1> SUFFICES ASSUME TypeInv, RecordInv, [Next]_vars
             PROVE  RecordInv'
  OBVIOUS
<1>1. CASE UNCHANGED vars
  BY <1>1 DEF vars, RecordInv
<1>2. CASE Restart
  BY <1>2, RecordRestart
<1>3. ASSUME NEW t \in Tasks, Client(t) \/ Enqueue(t) \/ StartTask(t)
      PROVE  RecordInv'
  BY <1>3, RecordClient
<1>4. ASSUME NEW t \in Tasks, Worker(t)
      PROVE  RecordInv'
  BY <1>4, RecordUpdate, RecordWork, RecordEnd DEF Worker
<1> QED
  BY <1>1, <1>2, <1>3, <1>4 DEF Next, Finished

\* Types and RecordInv hold in every behaviour.
LEMMA RecordInvariant == Spec => [](TypeInv /\ RecordInv)
<1>1. Init => RecordInv
  BY DEF Init, RecordInv, RecordOK, NewHandler
<1> QED
  BY <1>1, TypeCorrect, RecordInductive, PTL DEF Spec

\* Whoever reads a COMPLETED record finds progress 1.0, the time of completion
\* and the outputs of an execution on it.
THEOREM CompletedRecordsAreWhole == Spec => []CompletedIsWhole
<1>1. TypeInv /\ RecordInv => CompletedIsWhole
  <2> SUFFICES ASSUME TypeInv, RecordInv, NEW t \in Tasks,
                      record[t] # NoRecord, record[t].status = "COMPLETED"
               PROVE  record[t].full /\ record[t].finished /\ (~Training(t) => record[t].outputs)
    BY DEF CompletedIsWhole
  <2>1. Whole(handler[t].kind, record[t])
    BY DEF RecordInv, RecordOK
  <2>2. ~Training(t) => handler[t].kind = "execution"
    BY DEF TypeInv, TypeOK, Handler, Training
  <2> QED
    BY <2>1, <2>2 DEF Whole
<1> QED
  BY <1>1, RecordInvariant, PTL

\* A record with a final status never gets another kind of status again, not
\* from a late update of a handler, a resurrected record or a swallowed error.
THEOREM TerminalRecordsStayTerminal == Spec => TerminalNeverReopens
<1> DEFINE Final(r) == r # NoRecord /\ r.status \in Terminal
           StaysFinal(t) == Final(record[t]) => record'[t] = NoRecord \/ record'[t].status \in Terminal
<1>1. ASSUME TypeInv, RecordInv, [Next]_vars, NEW t \in Tasks
      PROVE  StaysFinal(t)
  <2> USE <1>1
  <2>i. RecordOK(handler[t], record[t])
    BY DEF RecordInv
  <2>a. Terminal \intersect Active = {}
    BY DEF Terminal, Active
  <2>1. ASSUME NEW s \in Tasks, NEW r, Store(s, r), s # t
        PROVE  StaysFinal(t)
    BY <2>1, StoreOnly
  <2>2. CASE UNCHANGED record
    BY <2>2
  <2>3. ASSUME NEW s \in Tasks, PutPending(s)
        PROVE  StaysFinal(t)
    BY <2>i, <2>1, <2>3 DEF PutPending, RecordOK
  <2>4. ASSUME NEW s \in Tasks, DeleteRecord(s)
        PROVE  StaysFinal(t)
    BY <2>1, <2>4, StoreOnly DEF DeleteRecord
  <2>5. ASSUME NEW s \in Tasks, WriteRecord(s) \/ WriteFails(s)
        PROVE  StaysFinal(t)
    <3> DEFINE c == handler[t].copy
               f == handler[t].field
    <3>1. handler[s].at = "write"
      BY <2>5 DEF WriteRecord, WriteFails
    <3>2. UNCHANGED record \/ Store(s, Updated(handler[s].copy, handler[s].field))
      BY <2>5 DEF WriteRecord, WriteFails
    <3>3. CASE s = t /\ Final(record[t]) /\ Store(t, Updated(c, f))
      <4>1. c \in Record /\ f \in Fields /\ c.status \in Terminal
        BY <2>i, <3>1, <3>3 DEF RecordOK, TypeInv, TypeOK, CopyOK, Handler
      <4>2. f \notin Early
        BY <2>i, <2>a, <3>1, <3>3, <4>1 DEF RecordOK
      <4>3. record'[t] = Updated(c, f)
        BY <3>3, StoreOnly
      <4> HIDE DEF c, f
      <4> QED
        BY <4>1, <4>2, <4>3, UpdatedStatus, StatusAfterCases
    <3> QED
      BY <2>1, <2>2, <3>2, <3>3
  <2>6. ASSUME NEW s \in Tasks, MarkPut(s)
        PROVE  StaysFinal(t)
    <3>1. UNCHANGED record \/ Store(s, handler[s].copy)
      BY <2>6 DEF MarkPut
    <3>2. s = t => handler[t].copy.status \in Terminal
      BY <2>i, <2>6 DEF MarkPut, RecordOK, Terminal
    <3> QED
      BY <2>1, <3>1, <3>2, StoreOnly
  <2>7. ASSUME NEW s \in Tasks, Worker(s)
        PROVE  StaysFinal(t)
    BY <2>2, <2>5, <2>6, <2>7 DEF Worker, Update, Work, End, ReadFindsStop, ReadRecord,
       RereadRecord, ReadFails, StopEscapes, StopSwallowed, FetchAlgorithm, Initialize, Report,
       RunnerFails, CaughtFailure, FinishWork, FinishWithoutCheckpoint, CloseLog, MarkRead,
       EndMark, StopClear
  <2>8. ASSUME NEW s \in Tasks, Client(s) \/ Enqueue(s) \/ StartTask(s)
        PROVE  StaysFinal(t)
    BY <2>2, <2>3, <2>4, <2>8 DEF Client, SubmitRejected, StopCheck, StopSubmit, Enqueue, StartTask
  <2> QED
    BY <1>1, <2>2, <2>7, <2>8 DEF Next, Restart, Finished, vars
<1>2. TypeInv /\ RecordInv /\ [Next]_vars =>
        [\A t \in Tasks : (record[t] # NoRecord /\ record[t].status \in Terminal) =>
             (record'[t] = NoRecord \/ record'[t].status \in Terminal)]_vars
  BY <1>1
<1> QED
  BY <1>2, RecordInvariant, PTL DEF Spec, TerminalNeverReopens

=============================================================================
