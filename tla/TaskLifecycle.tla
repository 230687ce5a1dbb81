--------------------------- MODULE TaskLifecycle ---------------------------
(***************************************************************************)
(* The life of an execution or training task: the endpoint that accepts    *)
(* it, the worker thread that runs it through TaskHandler and BaseRunner,  *)
(* the clients that poll, stop and delete it, the primary storage that     *)
(* holds its record, and the emergency store that keeps a fallback record  *)
(* when the primary storage refuses the final one.                         *)
(*                                                                         *)
(* Every change TaskHandler makes to a record is a read of the whole       *)
(* record, preceded by a look at the stop-requests collection, and a later *)
(* write of the whole record.  The two are separate steps here, so that    *)
(* everybody else may act between them.  A record is reduced to the fields *)
(* the properties tell apart; a write that changes none of them (log,      *)
(* session_token, resolved_execution_device) is still a step.              *)
(***************************************************************************)
EXTENDS Naturals, FiniteSets

CONSTANTS
  Tasks,          \* task ids (uuids, never reused)
  Kinds,          \* which kinds of task are submitted: "execution", "training"
  CarelessTasks,  \* the tasks whose algorithm swallows the errors of its handler, or
                  \* finishes a training without saving a checkpoint
  MaxWorkers,     \* max_workers of the thread pool
  FaultKinds,     \* which storage and broker calls may misbehave
  NoRecord,       \* what stands for an object that is not there
  MaxFaults, MaxReports, MaxDeletes, MaxRestarts  \* bounds on unbounded repetition

ASSUME KindsAssumption == Kinds \subseteq {"execution", "training"}

VARIABLES
  record,        \* the primary storage: record[t] in execution-store or training-store
  fallback,      \* the emergency store: fallback[t]
  stopRequests,  \* the ids with an object in the stop-requests collection
  stopping,      \* the ids some stop endpoint found stoppable and has not posted yet
  handler,       \* handler[t]: the worker thread of t (TaskHandler, runner, call stack)
  faults, deletes, restarts  \* how often each of these happened

vars == <<record, fallback, stopRequests, stopping, handler, faults, deletes, restarts>>

env == <<faults, deletes, restarts>>

-----------------------------------------------------------------------------
(* Records *)

Active == {"PENDING", "STARTED", "RUNNING"}      \* STOPPABLE_STATES

Terminal == {"COMPLETED", "FAILED", "STOPPED"}   \* TERMINAL_STATES

\* readable: it has every field the pydantic record model requires;
\* full: progress is 1.0; finished: time_completed is set; outputs: the ids of
\* the outputs (datasets or checkpoints) are on it.
Record ==
  [status: Active \union Terminal, readable: BOOLEAN, full: BOOLEAN,
   finished: BOOLEAN, outputs: BOOLEAN]

ASSUME NoRecordAssumption == NoRecord \notin Record

Pending ==
  [status |-> "PENDING", readable |-> TRUE, full |-> FALSE,
   finished |-> FALSE, outputs |-> FALSE]

\* The endpoint's own fallback record for a task that was never submitted.
Rejected == [Pending EXCEPT !.status = "FAILED", !.full = TRUE, !.finished = TRUE]

Training(t) == handler[t].kind = "training"

\* _build_failed_record when the stored record could be read, ...
FailedRecord(t, r) ==
  [r EXCEPT !.status = "FAILED", !.full = TRUE, !.finished = TRUE,
            !.outputs = Training(t) /\ @]

\* ... and when it could not: the id and the fields of a failure, nothing else.
StubRecord ==
  [status |-> "FAILED", readable |-> FALSE, full |-> TRUE,
   finished |-> TRUE, outputs |-> FALSE]

\* What one field update does to the copy of the record it was made on.
BugStatusSetBy ==  \* Mutant: a status the setter would refuse.
  [started |-> "STARTED", running |-> "RUNNING", completed |-> "DONE",
   stop_status |-> "STOPPED"]

StatusSetBy ==
  [started |-> "STARTED", running |-> "RUNNING", completed |-> "COMPLETED",
   stop_status |-> "STOPPED"]

\* Mutant: the status is set along with the progress instead of last.
BugStatusTooEarly(r, f) ==
  IF f = "progress" THEN "COMPLETED"
  ELSE IF f \in DOMAIN StatusSetBy THEN StatusSetBy[f] ELSE r.status

\* Mutant: a progress update asserts that the task is running.
BugReportRevives(r, f) ==
  IF f = "report" THEN "RUNNING"
  ELSE IF f \in DOMAIN StatusSetBy THEN StatusSetBy[f] ELSE r.status

StatusAfter(r, f) == IF f \in DOMAIN StatusSetBy THEN StatusSetBy[f] ELSE r.status

Updated(r, f) ==
  [r EXCEPT !.status = StatusAfter(r, f),
            !.full = (@ /\ f # "report") \/ f = "progress",
            !.finished = @ \/ f \in {"finished", "stop_finished"},
            !.outputs = @ \/ f \in {"outputs", "checkpoint"}]

(* What GET /v0/executions/{id} and GET /v0/training/{id} answer: the      *)
(* status of the record they return, "NOT_FOUND", or "ERROR".              *)
ClientView(t) ==
  LET primary == record[t]
      fallbackAnswer == IF fallback[t].readable THEN fallback[t].status ELSE "ERROR"
  IN  IF primary = NoRecord
        THEN IF fallback[t] = NoRecord THEN "NOT_FOUND" ELSE fallbackAnswer
      ELSE IF fallback[t] = NoRecord
        THEN IF primary.readable THEN primary.status ELSE "ERROR"
      ELSE IF primary.readable /\ (primary.status \in Terminal \/ fallback[t].status # "FAILED")
        THEN primary.status
        ELSE fallbackAnswer

-----------------------------------------------------------------------------
(* The worker thread *)

\* Where the thread is.  "read" and "write" are the two halves of an update of
\* `field` ("reread" belongs to a checkpoint, whose id is added to a record read
\* anew); the mark_* states are the steps of mark_as_failed.
Places ==
  {"idle", "accepted", "queued", "fetch", "ready", "work", "read", "reread", "write",
   "mark_read", "mark_put", "mark_clear", "mark_spill", "stop_clear", "stopped",
   "close", "done", "dead"}

StopFields == {"stop_finished", "stop_log", "stop_status"}

Fields ==
  {"started", "session", "device", "running", "report", "checkpoint", "progress",
   "outputs", "finished", "log", "completed"} \union StopFields

\* kind: whether it is a TaskHandler or a TrainingHandler; field: the update in
\* progress or the next one; origin: the update a stop request interrupted; copy:
\* what was read for it; marks: the calls of mark_as_failed still to be made while
\* the error travels up the stack; after: where it ends; acknowledged: of
\* StopRequest; sink: the logger sink is still registered; saved:
\* output_checkpoint_ids is not empty; marked: mark_as_failed has run; reports:
\* updates made so far by the algorithm; late: field updates written since the
\* stop request was posted, without having seen it.
Handler ==
  [kind: {"execution", "training"}, at: Places, field: Fields, origin: Fields,
   copy: Record \union {NoRecord}, marks: Nat,
   after: {"done", "stop_clear", "work", "progress"}, acknowledged: BOOLEAN,
   sink: BOOLEAN, saved: BOOLEAN, marked: BOOLEAN, reports: Nat, late: Nat]

NewHandler ==
  [kind |-> "execution", at |-> "idle", field |-> "started", origin |-> "started",
   copy |-> NoRecord, marks |-> 0, after |-> "done", acknowledged |-> FALSE,
   sink |-> TRUE, saved |-> FALSE, marked |-> FALSE, reports |-> 0, late |-> 0]

\* The place and the update that follow a successful update of f.
Follow(t, f) ==
  LET To(place, next) == [at |-> place, field |-> next]
  IN  CASE f = "started" -> IF Training(t) THEN To("fetch", "device") ELSE To("read", "session")
        [] f = "session" -> To("fetch", "device")
        [] f = "device" -> To("ready", "running")
        [] f \in {"running", "report", "checkpoint"} -> To("work", "report")
        [] f = "progress" -> To("read", IF Training(t) THEN "finished" ELSE "outputs")
        [] f = "outputs" -> To("read", "finished")
        [] f = "finished" -> To("read", "log")
        [] f = "log" -> To("read", "completed")
        [] f = "completed" -> To("close", "completed")
        [] f = "stop_finished" -> To("read", "stop_log")
        [] f = "stop_log" -> To("stop_clear", "stop_status")
        [] f = "stop_status" -> To("stopped", "stop_status")

\* Algorithm code sees the errors of its own calls only, and may carry on.
CanCatch(t, f) == t \in CarelessTasks /\ f \in {"report", "checkpoint"}

\* The calls of mark_as_failed made for an error raised by the update of f, one
\* in the handler's method and one in BaseRunner.run, the latter only from
\* inside its try block.
Frames(t, f) ==
  IF f \in {"started", "session", "device"} \/ (f = "running" /\ Training(t))
    THEN 1 ELSE 2

\* What the stack does with that error: how often it calls mark_as_failed, and
\* what happens then.  The error of a stop's first writes is kept inside
\* mark_as_stopped; that of its last write replaces TaskStoppedException, and
\* passes _update_task_record_field and _check_for_stop_request on its way to
\* the update the stop interrupted.
Unwind(t, f, origin) ==
  LET inStop == f = "stop_status"
      raiser == IF inStop THEN origin ELSE f
      extra == IF inStop THEN 2 ELSE 0
  IN  IF f \in {"stop_finished", "stop_log"}
        THEN {[marks |-> 2, after |-> "stop_clear"]}
        ELSE {[marks |-> extra + Frames(t, raiser), after |-> "done"]}
             \union {u \in {[marks |-> extra + 1, after |-> "work"]} : CanCatch(t, raiser)}

-----------------------------------------------------------------------------
(* Steps of the worker thread *)

\* The thread of t moves: h is what it becomes.
Thread(t, h) == handler' = [handler EXCEPT ![t] = h]

Goto(t, place, f) == Thread(t, [handler[t] EXCEPT !.at = place, !.field = f])

\* A call to the storage or the broker misbehaves.
Fault(kind) ==
  /\ kind \in FaultKinds
  /\ faults < MaxFaults
  /\ faults' = faults + 1
  /\ UNCHANGED <<deletes, restarts>>

MarkAsFailed(t, marks, after) ==
  Thread(t, [handler[t] EXCEPT !.at = "mark_read", !.marks = marks, !.after = after])

\* The exception of an update travels up the stack.
RaiseError(t) ==
  \E u \in Unwind(t, handler[t].field, handler[t].origin) : MarkAsFailed(t, u.marks, u.after)

\* Mutant: a thread that is done stays out of the pool.
BugRunning == {t \in Tasks : handler[t].at \notin {"idle", "accepted", "queued", "dead"}}

Running == {t \in Tasks : handler[t].at \notin {"idle", "accepted", "queued", "done", "dead"}}

\* The pool has a free thread: TaskHandler.__init__ begins with status STARTED.
StartTask(t) ==
  /\ handler[t].at = "queued"
  /\ Cardinality(Running) < MaxWorkers
  /\ Goto(t, "read", "started")
  /\ UNCHANGED <<record, fallback, stopRequests, stopping, env>>

StopPending(t) == t \in stopRequests /\ ~handler[t].acknowledged

\* First half of an update, _get_task_record: look for a stop request, which
\* makes the handler write its stop first and unwind; then read the record.
ReadFindsStop(t) ==
  /\ handler[t].at = "read"
  /\ StopPending(t)
  /\ Thread(t, [handler[t] EXCEPT !.acknowledged = TRUE, !.origin = handler[t].field,
                                  !.field = "stop_finished"])
  /\ UNCHANGED <<record, fallback, stopRequests, stopping, env>>

\* Mutant: the record is read without looking for a stop.
BugSeesNoStop(t) == UNCHANGED env

\* An existence check that fails answers that the object does not exist.
SeesNoStop(t) ==
  \/ ~StopPending(t) /\ UNCHANGED env
  \/ StopPending(t) /\ Fault("miss")

ReadRecord(t) ==
  /\ handler[t].at = "read"
  /\ record[t] # NoRecord
  /\ SeesNoStop(t)
  /\ Thread(t, [handler[t] EXCEPT
                  !.at = IF handler[t].field = "checkpoint" THEN "reread" ELSE "write",
                  !.copy = record[t]])
  /\ UNCHANGED <<record, fallback, stopRequests, stopping>>

\* register_checkpoint reads the training record again, without looking for a stop.
RereadRecord(t) ==
  /\ handler[t].at = "reread"
  /\ record[t] # NoRecord
  /\ Thread(t, [handler[t] EXCEPT !.at = "write", !.copy = record[t]])
  /\ UNCHANGED <<record, fallback, stopRequests, stopping, env>>

\* The record was deleted, or the storage does not answer.
ReadFails(t) ==
  /\ \/ handler[t].at = "read" /\ SeesNoStop(t) /\ record[t] = NoRecord
     \/ handler[t].at = "reread" /\ record[t] = NoRecord /\ UNCHANGED env
     \/ handler[t].at = "read" /\ ~StopPending(t) /\ Fault("get")
     \/ handler[t].at = "reread" /\ Fault("get")
  /\ RaiseError(t)
  /\ UNCHANGED <<record, fallback, stopRequests, stopping>>

Store(t, r) == record' = [record EXCEPT ![t] = r]

\* Second half of an update, _save_task_record.
WriteRecord(t) ==
  LET h == handler[t]
      next == Follow(t, h.field)
  IN  /\ h.at = "write"
      /\ Store(t, Updated(h.copy, h.field))
      /\ Thread(t, [h EXCEPT !.at = next.at, !.field = next.field, !.copy = NoRecord,
                             !.saved = @ \/ h.field = "checkpoint",
                             !.late = IF StopPending(t) THEN @ + 1 ELSE @])
      /\ UNCHANGED <<fallback, stopRequests, stopping, env>>

\* The write is refused, or applied without the handler being told.
WriteFails(t) ==
  /\ handler[t].at = "write"
  /\ \/ Fault("refuse") /\ UNCHANGED record
     \/ Fault("unacked") /\ Store(t, Updated(handler[t].copy, handler[t].field))
  /\ RaiseError(t)
  /\ UNCHANGED <<fallback, stopRequests, stopping>>

\* TaskStoppedException leaves the runner, unless the algorithm swallows it.
StopEscapes(t) ==
  /\ handler[t].at = "stopped"
  /\ Goto(t, "done", "stop_status")
  /\ UNCHANGED <<record, fallback, stopRequests, stopping, env>>

StopSwallowed(t) ==
  /\ handler[t].at = "stopped"
  /\ CanCatch(t, handler[t].origin)
  /\ Goto(t, "work", "report")
  /\ UNCHANGED <<record, fallback, stopRequests, stopping, env>>

-----------------------------------------------------------------------------
(* What happens between the updates *)

\* fetch_algorithm finds the algorithm and its assets, or marks the task as
\* failed, once in itself and possibly once more in what it calls.
FetchAlgorithm(t) ==
  /\ handler[t].at = "fetch"
  /\ \/ Goto(t, "read", "device")
     \/ \E marks \in {1, 2} : MarkAsFailed(t, marks, "done")
  /\ UNCHANGED <<record, fallback, stopRequests, stopping, env>>

\* runner.initialize succeeds and the runner begins with status RUNNING.
Initialize(t) ==
  /\ handler[t].at = "ready"
  /\ \/ Goto(t, "read", "running")
     \/ MarkAsFailed(t, 1, "done")
  /\ UNCHANGED <<record, fallback, stopRequests, stopping, env>>

\* The algorithm sets progress or log, or saves a checkpoint.
Report(t) ==
  /\ handler[t].at = "work"
  /\ handler[t].reports < MaxReports
  /\ \E f \in {"report"} \union {c \in {"checkpoint"} : Training(t)} :
       Thread(t, [handler[t] EXCEPT !.at = "read", !.field = f, !.reports = @ + 1])
  /\ UNCHANGED <<record, fallback, stopRequests, stopping, env>>

\* The algorithm raises, in its own code or in a call of the handler.
RunnerFails(t) ==
  /\ handler[t].at = "work"
  /\ \E marks \in {1, 2} : MarkAsFailed(t, marks, "done")
  /\ UNCHANGED <<record, fallback, stopRequests, stopping, env>>

\* A call of the handler marks the task as failed and the algorithm carries on.
CaughtFailure(t) ==
  /\ handler[t].at = "work"
  /\ t \in CarelessTasks
  /\ handler[t].reports < MaxReports
  /\ Thread(t, [handler[t] EXCEPT !.at = "mark_read", !.marks = 1, !.after = "work",
                                  !.reports = @ + 1])
  /\ UNCHANGED <<record, fallback, stopRequests, stopping, env>>

\* The algorithm returns: mark_as_completed begins with progress 1.0.
FinishWork(t) ==
  /\ handler[t].at = "work"
  /\ Training(t) => handler[t].saved
  /\ Goto(t, "read", "progress")
  /\ UNCHANGED <<record, fallback, stopRequests, stopping, env>>

\* A training without checkpoints is marked as failed, and then as completed.
FinishWithoutCheckpoint(t) ==
  /\ handler[t].at = "work"
  /\ t \in CarelessTasks
  /\ Training(t)
  /\ ~handler[t].saved
  /\ MarkAsFailed(t, 1, "progress")
  /\ UNCHANGED <<record, fallback, stopRequests, stopping, env>>

\* Mutant: the sink is removed whether it is there or not.
BugCloseLog(t) ==
  /\ handler[t].at = "close"
  /\ Thread(t, [handler[t] EXCEPT !.at = "done", !.sink = FALSE])
  /\ UNCHANGED <<record, fallback, stopRequests, stopping, env>>

\* The last step of mark_as_completed removes the logger sink, which raises if
\* mark_as_failed or mark_as_stopped removed it before.
CloseLog(t) ==
  /\ handler[t].at = "close"
  /\ IF handler[t].sink
       THEN Thread(t, [handler[t] EXCEPT !.at = "done", !.sink = FALSE])
       ELSE MarkAsFailed(t, 1, "done")
  /\ UNCHANGED <<record, fallback, stopRequests, stopping, env>>

-----------------------------------------------------------------------------
(* mark_as_failed and the end of mark_as_stopped *)

\* _build_failed_record, from the stored record or from nothing.
Build(t, failed) ==
  Thread(t, [handler[t] EXCEPT !.at = "mark_put", !.copy = failed, !.marked = TRUE])

MarkRead(t) ==
  /\ handler[t].at = "mark_read"
  /\ \/ record[t] # NoRecord /\ Build(t, FailedRecord(t, record[t])) /\ UNCHANGED env
     \/ record[t] # NoRecord /\ Build(t, StubRecord) /\ Fault("get")
     \/ record[t] = NoRecord /\ Build(t, StubRecord) /\ UNCHANGED env
  /\ UNCHANGED <<record, fallback, stopRequests, stopping>>

\* Mutant: the fallback record is dropped before the failed record is stored.
BugMarkPut(t) ==
  /\ handler[t].at = "mark_put"
  /\ \/ Store(t, handler[t].copy) /\ Goto(t, "mark_clear", handler[t].field) /\ UNCHANGED env
     \/ Fault("refuse") /\ Goto(t, "mark_spill", handler[t].field) /\ UNCHANGED record
  /\ fallback' = [fallback EXCEPT ![t] = NoRecord]
  /\ UNCHANGED <<stopRequests, stopping>>

MarkPut(t) ==
  /\ handler[t].at = "mark_put"
  /\ \/ Store(t, handler[t].copy) /\ Goto(t, "mark_clear", handler[t].field) /\ UNCHANGED env
     \/ Fault("refuse") /\ Goto(t, "mark_spill", handler[t].field) /\ UNCHANGED record
     \/ Fault("unacked") /\ Goto(t, "mark_spill", handler[t].field) /\ Store(t, handler[t].copy)
  /\ UNCHANGED <<fallback, stopRequests, stopping>>

\* What the emergency store holds after that.  Mutant: nothing, ever.
BugKept(h) == NoRecord

Kept(h) == IF h.at = "mark_clear" THEN NoRecord ELSE h.copy

\* The emergency store drops its fallback record, or gets the failed one; the
\* sink goes, and the exception travels on.
EndMark(t) ==
  /\ handler[t].at \in {"mark_clear", "mark_spill"}
  /\ fallback' = [fallback EXCEPT ![t] = Kept(handler[t])]
  /\ LET left == handler[t].marks - 1
         next == IF left > 0 THEN "mark_read"
                 ELSE IF handler[t].after = "progress" THEN "read" ELSE handler[t].after
     IN  Thread(t, [handler[t] EXCEPT
           !.at = next, !.marks = left, !.copy = NoRecord, !.sink = FALSE,
           !.field = IF left = 0 /\ handler[t].after = "progress" THEN "progress" ELSE @])
  /\ UNCHANGED <<record, stopRequests, stopping, env>>

\* The finally block of mark_as_stopped: the sink and the stop request go, the
\* latter if the storage lets it, and status STOPPED is written.
StopClear(t) ==
  /\ handler[t].at = "stop_clear"
  /\ \/ stopRequests' = stopRequests \ {t} /\ UNCHANGED env
     \/ Fault("refuse") /\ UNCHANGED stopRequests
  /\ Thread(t, [handler[t] EXCEPT !.at = "read", !.field = "stop_status", !.sink = FALSE])
  /\ UNCHANGED <<record, fallback, stopping>>

-----------------------------------------------------------------------------
(* The endpoints and the process *)

PutPending(t) ==
  /\ handler[t].at = "idle"
  /\ Store(t, Pending)
  /\ \E kind \in Kinds : Thread(t, [handler[t] EXCEPT !.at = "accepted", !.kind = kind])
  /\ UNCHANGED <<fallback, stopRequests, stopping, env>>

\* The storage refuses the new record: the task is answered as a failed one.
SubmitRejected(t) ==
  /\ handler[t].at = "idle"
  /\ Fault("refuse")
  /\ fallback' = [fallback EXCEPT ![t] = Rejected]
  /\ \E kind \in Kinds : Thread(t, [handler[t] EXCEPT !.at = "done", !.kind = kind])
  /\ UNCHANGED <<record, stopRequests, stopping>>

\* The executor takes the task, or the broker loses it after its record was stored.
Enqueue(t) ==
  /\ handler[t].at = "accepted"
  /\ \/ Goto(t, "queued", "started") /\ UNCHANGED env
     \/ Fault("broker") /\ Goto(t, "done", "started")
  /\ UNCHANGED <<record, fallback, stopRequests, stopping>>

\* A stop endpoint reads the record and finds it stoppable, ...
StopCheck(t) ==
  /\ t \notin stopping
  /\ record[t] # NoRecord
  /\ record[t].readable
  /\ record[t].status \in Active
  /\ stopping' = stopping \union {t}
  /\ UNCHANGED <<record, fallback, stopRequests, handler, env>>

\* ... and posts the request, whatever became of the task in between.
StopSubmit(t) ==
  /\ t \in stopping
  /\ stopping' = stopping \ {t}
  /\ \/ stopRequests' = stopRequests \union {t} /\ UNCHANGED env
     \/ Fault("refuse") /\ UNCHANGED stopRequests
  /\ UNCHANGED <<record, fallback, handler>>

\* A client deletes the record, or it expires; nobody looks whether the task runs.
DeleteRecord(t) ==
  /\ record[t] # NoRecord
  /\ deletes < MaxDeletes
  /\ deletes' = deletes + 1
  /\ Store(t, NoRecord)
  /\ UNCHANGED <<fallback, stopRequests, stopping, handler, faults, restarts>>

\* The process dies with its threads and its queue; a new one starts and purges
\* the emergency store.
Restart ==
  /\ restarts < MaxRestarts
  /\ restarts' = restarts + 1
  /\ handler' = [t \in Tasks |->
                  IF handler[t].at \in {"idle", "done", "dead"} THEN handler[t]
                  ELSE [handler[t] EXCEPT !.at = "dead"]]
  /\ fallback' = [t \in Tasks |-> NoRecord]
  /\ stopping' = {}
  /\ UNCHANGED <<record, stopRequests, faults, deletes>>

\* Nothing is left to do.
Finished ==
  /\ \A t \in Tasks : handler[t].at \in {"done", "dead"}
  /\ UNCHANGED vars

-----------------------------------------------------------------------------
Init ==
  /\ record = [t \in Tasks |-> NoRecord]
  /\ fallback = [t \in Tasks |-> NoRecord]
  /\ stopRequests = {}
  /\ stopping = {}
  /\ handler = [t \in Tasks |-> NewHandler]
  /\ faults = 0
  /\ deletes = 0
  /\ restarts = 0

Update(t) ==
  \/ ReadFindsStop(t) \/ ReadRecord(t) \/ RereadRecord(t) \/ ReadFails(t)
  \/ WriteRecord(t) \/ WriteFails(t) \/ StopEscapes(t) \/ StopSwallowed(t)

Work(t) ==
  \/ FetchAlgorithm(t) \/ Initialize(t) \/ Report(t) \/ RunnerFails(t) \/ CaughtFailure(t)
  \/ FinishWork(t) \/ FinishWithoutCheckpoint(t) \/ CloseLog(t)

End(t) == MarkRead(t) \/ MarkPut(t) \/ EndMark(t) \/ StopClear(t)

\* A step of the worker thread of t.
Worker(t) == Update(t) \/ Work(t) \/ End(t)

Client(t) ==
  PutPending(t) \/ SubmitRejected(t) \/ StopCheck(t) \/ StopSubmit(t) \/ DeleteRecord(t)

Next ==
  \/ \E t \in Tasks : Client(t) \/ Enqueue(t) \/ StartTask(t) \/ Worker(t)
  \/ Restart
  \/ Finished

Spec == Init /\ [][Next]_vars

\* A pool thread that can take a step takes one, and a free one takes a queued
\* task: the operating system and ThreadPoolExecutor see to that.  An algorithm
\* makes at most MaxReports updates and then ends.  Clients owe nothing.
Fairness == \A t \in Tasks : WF_vars(StartTask(t)) /\ WF_vars(Worker(t))

FairSpec == Spec /\ Fairness

-----------------------------------------------------------------------------
(* Properties *)

\* Every variable holds what its comment says.
TypeOK ==
  /\ record \in [Tasks -> Record \union {NoRecord}]
  /\ fallback \in [Tasks -> Record \union {NoRecord}]
  /\ stopRequests \subseteq Tasks
  /\ stopping \subseteq Tasks
  /\ handler \in [Tasks -> Handler]
  /\ faults \in Nat
  /\ deletes \in Nat
  /\ restarts \in Nat

\* mark_as_completed writes status COMPLETED last: whoever reads a COMPLETED
\* record finds progress 1.0, the time of completion and the output datasets of
\* an execution on it, although each came with a write of its own and anything
\* may fail, be deleted or be marked as failed in between.
CompletedIsWhole ==
  \A t \in Tasks :
    (record[t] # NoRecord /\ record[t].status = "COMPLETED") =>
      /\ record[t].full
      /\ record[t].finished
      /\ ~Training(t) => record[t].outputs

\* _get_task_record looks for a stop before each update: a task whose stop
\* request is posted makes at most the update that was under way then, and one
\* more for every storage call that misbehaved.
StopTakesEffect == \A t \in Tasks : handler[t].late <= 1 + faults

\* A record with a final status never gets another kind of status again, not
\* from a late update of a handler, a resurrected record or a swallowed error.
TerminalNeverReopens ==
  [][\A t \in Tasks :
       (record[t] # NoRecord /\ record[t].status \in Terminal) =>
         (record'[t] = NoRecord \/ record'[t].status \in Terminal)]_vars

\* When an error was reported by mark_as_failed, even one the algorithm then
\* swallowed, the task does not end up COMPLETED, unless the record of the
\* failure could not be stored.  (CloseLog is what ensures it: the sink is gone.)
FailureIsFinal ==
  \A t \in Tasks :
    (handler[t].at = "done" /\ handler[t].marked /\ record[t] # NoRecord) =>
      record[t].status # "COMPLETED"

\* A client that polls the task sees the statuses TaskStatus allows.
Promise ==
  INSTANCE TaskStatus WITH
    status <- [t \in Tasks |-> ClientView(t)],
    asked <- stopRequests \union {t \in Tasks : handler[t].acknowledged}

KeepsPromise == Promise!Spec

\* A task the executor took reaches a final status and the client keeps seeing one.
Settles ==
  \A t \in Tasks : handler[t].at = "queued" ~> [](ClientView(t) \in Terminal)
=============================================================================
