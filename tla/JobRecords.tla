----------------------------- MODULE JobRecords -----------------------------
(***************************************************************************)
(* The records of benchmarks (benchmark_controller, BenchmarkHandler) and  *)
(* of asynchronous deployments (deployment_controller,                     *)
(* deploy_task_fastapi). Neither uses the record keeping of executions and *)
(* trainings: a BenchmarkHandler goes on with a copy of the record when    *)
(* the storage fails and puts what it cannot store into the emergency      *)
(* store, whatever it is; a deployment puts only its failure there.        *)
(*                                                                         *)
(* Only the task of a job changes its record once the job is posted, so    *)
(* that a read and the write that follows it are one step. No endpoint     *)
(* stops either kind.                                                      *)
(***************************************************************************)
EXTENDS Naturals, FiniteSets

CONSTANTS
  Benchmarks, Deployments,
  MaxFaults, MaxRestarts,  \* bounds
  NoRecord

Jobs == Benchmarks \cup Deployments

Statuses == {"PENDING", "STARTED", "RUNNING", "COMPLETED", "FAILED"}

\* data: the results of a benchmark, the metadata of a deployed algorithm.
Record == [status : Statuses, data : BOOLEAN]

ASSUME NoRecordAssumption == NoRecord \notin Record
ASSUME KindsAssumption == Benchmarks \cap Deployments = {}
ASSUME BoundsAssumption == MaxFaults \in Nat /\ MaxRestarts \in Nat

VARIABLES
  primary,    \* the records in the storage
  emergency,  \* the records in the emergency store
  initial,    \* initial_record of the handler of a benchmark
  at,         \* how far a job is
  faults, restarts,
  (* History *)
  missed,     \* jobs that could not read their record once
  unsaved,    \* benchmarks whose status COMPLETED the storage refused
  caught,     \* benchmarks whose algorithm caught a failure of a method of the handler
  lost,       \* jobs with a record that neither store took
  outcome     \* how a job ended

vars == <<primary, emergency, initial, at, faults, restarts, missed, unsaved, caught, lost, outcome>>

-----------------------------------------------------------------------------

BugPending == [status |-> "QUEUED", data |-> FALSE]  \* Mutant: no status that clients know.

Pending == [status |-> "PENDING", data |-> FALSE]

Failed == [status |-> "FAILED", data |-> FALSE]

Status(r) == IF r = NoRecord THEN "none" ELSE r.status

Final(r) == Status(r) \in {"COMPLETED", "FAILED"}

Places ==
  {"new", "queued", "over",
   "fetch", "benchmark", "log", "time", "status", "data", "fail", "fail_again",
   "deploy", "complete"}

\* What comes of a put_objects: an error says little about whether the object is there.
\* "lost": and then the emergency store fails, too.
Puts == {"stored", "refused", "unacknowledged", "lost"}

Costs(n) == faults + n <= MaxFaults /\ faults' = faults + n

Fault(bad) == IF bad THEN 1 ELSE 0

Put(j, r, put) ==
  primary' = IF put \in {"stored", "unacknowledged"} THEN [primary EXCEPT ![j] = r] ELSE primary

\* _save_record_or_fallback
Kept(j, r, put) ==
  emergency' = CASE put = "stored" -> [emergency EXCEPT ![j] = NoRecord]
                 [] put = "lost" -> emergency
                 [] put \in {"refused", "unacknowledged"} -> [emergency EXCEPT ![j] = r]

Goto(j, place) == at' = [at EXCEPT ![j] = place]

End(j, how) == Goto(j, "over") /\ outcome' = [outcome EXCEPT ![j] = how]

-----------------------------------------------------------------------------
(* The endpoints *)

\* benchmark_algorithm, deploy_algorithm_local_async. A job whose record may not be stored
\* is not submitted; a broker may refuse one that is.
Post(j, put) ==
  /\ at[j] = "new"
  /\ Costs(Fault(put # "stored"))
  /\ Put(j, Pending, put)
  /\ emergency' = IF put \in {"refused", "unacknowledged"}
                  THEN [emergency EXCEPT ![j] = Failed] ELSE emergency
  /\ lost' = IF put = "lost" THEN lost \cup {j} ELSE lost
  /\ IF put = "stored" THEN Goto(j, "queued") /\ UNCHANGED outcome ELSE End(j, "failed")
  /\ UNCHANGED <<initial, restarts, missed, unsaved, caught>>

Unsent(j) ==
  /\ at[j] = "queued"
  /\ Costs(1)
  /\ End(j, "unsent")
  /\ UNCHANGED <<primary, emergency, initial, restarts, missed, unsaved, caught, lost>>

BugBenchmarkView(b) ==  \* Mutant: a fallback record that was never dropped is believed.
  IF emergency[b] # NoRecord THEN emergency[b] ELSE primary[b]

\* get_benchmark_record and get_deploy_record, while the storage can be read.
BenchmarkView(b) == IF primary[b] = NoRecord THEN emergency[b] ELSE primary[b]

DeploymentView(d) ==
  IF \/ primary[d] = NoRecord
     \/ Status(emergency[d]) = "FAILED" /\ ~Final(primary[d])
  THEN emergency[d]
  ELSE primary[d]

View(j) == IF j \in Benchmarks THEN BenchmarkView(j) ELSE DeploymentView(j)

-----------------------------------------------------------------------------
(* Benchmarks *)

\* _get_record_or_stub: initial_record is the same object every time, and is changed.
Read(b, readable) == IF readable THEN primary[b] ELSE initial[b]

BugUpdate(b, r, readable, put) ==  \* Mutant: what cannot be stored is forgotten.
  /\ Costs(Fault(~readable) + Fault(put # "stored"))
  /\ initial' = IF readable THEN initial ELSE [initial EXCEPT ![b] = r]
  /\ missed' = IF readable THEN missed ELSE missed \cup {b}
  /\ lost' = IF put = "lost" THEN lost \cup {b} ELSE lost
  /\ Put(b, r, put)
  /\ UNCHANGED <<emergency, restarts>>

Update(b, r, readable, put) ==
  /\ Costs(Fault(~readable) + Fault(put # "stored"))
  /\ initial' = IF readable THEN initial ELSE [initial EXCEPT ![b] = r]
  /\ missed' = IF readable THEN missed ELSE missed \cup {b}
  /\ lost' = IF put = "lost" THEN lost \cup {b} ELSE lost
  /\ Put(b, r, put)
  /\ Kept(b, r, put)
  /\ UNCHANGED restarts

\* The constructor sets the status before there is an initial_record, and before there is
\* a log for the stub: a failed read ends the task.
StartBenchmark(b, put) ==
  /\ at[b] = "queued"
  /\ Costs(Fault(put # "stored"))
  /\ LET r == [primary[b] EXCEPT !.status = "STARTED"]
     IN  Put(b, r, put) /\ Kept(b, r, put)
  /\ initial' = [initial EXCEPT ![b] = Pending]
  /\ IF put = "lost" THEN End(b, "died") /\ lost' = lost \cup {b}
     ELSE Goto(b, "fetch") /\ UNCHANGED <<lost, outcome>>
  /\ UNCHANGED <<restarts, missed, unsaved, caught>>

DieAtStart(b) ==
  /\ at[b] = "queued"
  /\ Costs(1)
  /\ missed' = missed \cup {b}
  /\ End(b, "died")
  /\ UNCHANGED <<primary, emergency, initial, restarts, unsaved, caught, lost>>

\* fetch_algorithm, which ends with the algorithm's initialize(), and the algorithm's own
\* benchmark(). An error that a method of the handler raises has been marked before
\* fetch_algorithm or run_benchmark marks it.
Work(b, next) ==
  /\ \/ at[b] = "fetch" /\ next \in {"benchmark", "fail", "fail_again"}
     \/ at[b] = "benchmark" /\ next \in {"log", "fail", "fail_again"}
  /\ Goto(b, next)
  /\ UNCHANGED <<primary, emergency, initial, faults, restarts, missed, unsaved, caught, lost, outcome>>

\* A method of the handler (fetch_asset, fetch_data, post_data, the three for items of the
\* session) fails, marks the benchmark as failed and raises; the algorithm catches that, or
\* the error of the emergency store, and goes on.
CaughtFailure(b, readable, put) ==
  /\ at[b] \in {"fetch", "benchmark"}
  /\ Update(b, Failed, readable, put)
  /\ caught' = caught \cup {b}
  /\ UNCHANGED <<at, unsaved, outcome>>

\* preprocess_base sets the status, and it, inference_base and postprocess_base end with
\* update_log; benchmark() calls them as it likes. The error of a record that neither store
\* takes goes to benchmark(), which may pass it on (Work) or not.
Report(b, running, readable, put) ==
  /\ at[b] = "benchmark"
  /\ Update(b, IF running THEN [Read(b, readable) EXCEPT !.status = "RUNNING"] ELSE Read(b, readable),
            readable, put)
  /\ UNCHANGED <<at, unsaved, caught, outcome>>

After(place) ==
  CASE place = "log" -> "time" [] place = "time" -> "status" [] place = "status" -> "data"
    [] place = "data" -> "over"

Completed(r, place) ==
  [status |-> IF place = "status" THEN "COMPLETED" ELSE r.status,
   data |-> IF place = "data" THEN TRUE ELSE r.data]

\* mark_as_completed, one field after the other. An error of both stores marks the
\* benchmark failed, here and again in run_benchmark.
Complete(b, readable, put) ==
  /\ at[b] \in {"log", "time", "status", "data"}
  /\ Update(b, Completed(Read(b, readable), at[b]), readable, put)
  /\ unsaved' = IF at[b] = "status" /\ put = "refused" THEN unsaved \cup {b} ELSE unsaved
  /\ IF put = "lost" THEN Goto(b, "fail") /\ UNCHANGED outcome
     ELSE IF at[b] = "data" THEN End(b, "completed")
     ELSE Goto(b, After(at[b])) /\ UNCHANGED outcome
  /\ UNCHANGED caught

\* mark_as_failed
Fail(b, readable, put) ==
  /\ at[b] \in {"fail", "fail_again"}
  /\ Update(b, Failed, readable, put)
  /\ IF at[b] = "fail" THEN Goto(b, "fail_again") /\ UNCHANGED outcome
     ELSE End(b, "failed")
  /\ UNCHANGED <<unsaved, caught>>

-----------------------------------------------------------------------------
(* Deployments *)

\* _update_deploy_record: anything that goes wrong fails the deployment.
Deploying(d, r, readable, put, next) ==
  /\ Costs(Fault(~readable \/ put # "stored"))
  /\ IF readable THEN Put(d, r, put) ELSE UNCHANGED primary
  /\ missed' = IF readable THEN missed ELSE missed \cup {d}
  /\ Goto(d, IF readable /\ put = "stored" THEN next ELSE "fail")
  /\ UNCHANGED <<emergency, initial, restarts, unsaved, caught, lost>>

StartDeployment(d, readable, put) ==
  /\ at[d] = "queued"
  /\ Deploying(d, [primary[d] EXCEPT !.status = "RUNNING"], readable, put, "deploy")
  /\ UNCHANGED outcome

Deploy(d, next) ==
  /\ at[d] = "deploy"
  /\ next \in {"complete", "fail"}
  /\ Goto(d, next)
  /\ UNCHANGED <<primary, emergency, initial, faults, restarts, missed, unsaved, caught, lost, outcome>>

CompleteDeployment(d, readable, put) ==
  /\ at[d] = "complete"
  /\ Deploying(d, [status |-> "COMPLETED", data |-> TRUE], readable, put, "over")
  /\ outcome' = IF at'[d] = "over" THEN [outcome EXCEPT ![d] = "completed"] ELSE outcome

\* The record of the failure goes to the emergency store only.
FailDeployment(d, put) ==
  /\ at[d] = "fail"
  /\ put \in {"stored", "lost"}
  /\ Costs(Fault(put = "lost"))
  /\ emergency' = IF put = "lost" THEN emergency ELSE [emergency EXCEPT ![d] = Failed]
  /\ lost' = IF put = "lost" THEN lost \cup {d} ELSE lost
  /\ End(d, "failed")
  /\ UNCHANGED <<primary, initial, restarts, missed, unsaved, caught>>

-----------------------------------------------------------------------------

\* The process ends, and with it every task. At the next start purge_all_records empties
\* the collections it knows, which those of benchmarks are not.
Restart ==
  /\ restarts < MaxRestarts
  /\ restarts' = restarts + 1
  /\ emergency' = [j \in Jobs |-> IF j \in Deployments THEN NoRecord ELSE emergency[j]]
  /\ at' = [j \in Jobs |-> IF at[j] = "new" THEN "new" ELSE "over"]
  /\ outcome' = [j \in Jobs |-> IF at[j] = "new" \/ (j \in Benchmarks /\ at[j] = "over")
                                THEN outcome[j] ELSE "restarted"]
  /\ UNCHANGED <<primary, initial, faults, missed, unsaved, caught, lost>>

Init ==
  /\ primary = [j \in Jobs |-> NoRecord] /\ emergency = [j \in Jobs |-> NoRecord]
  /\ initial = [j \in Jobs |-> Pending]
  /\ at = [j \in Jobs |-> "new"]
  /\ faults = 0 /\ restarts = 0
  /\ missed = {} /\ unsaved = {} /\ caught = {} /\ lost = {}
  /\ outcome = [j \in Jobs |-> "none"]

BenchmarkStep(b) ==
  \/ DieAtStart(b)
  \/ \E next \in Places : Work(b, next)
  \/ \E put \in Puts :
       \/ StartBenchmark(b, put)
       \/ \E readable \in BOOLEAN :
            \/ CaughtFailure(b, readable, put)
            \/ \E running \in BOOLEAN : Report(b, running, readable, put)
            \/ Complete(b, readable, put)
            \/ Fail(b, readable, put)

DeploymentStep(d) ==
  \/ \E next \in Places : Deploy(d, next)
  \/ \E put \in Puts :
       \/ FailDeployment(d, put)
       \/ \E readable \in BOOLEAN :
            StartDeployment(d, readable, put) \/ CompleteDeployment(d, readable, put)

Next ==
  \/ \E j \in Jobs : Unsent(j) \/ \E put \in Puts : Post(j, put)
  \/ \E b \in Benchmarks : BenchmarkStep(b)
  \/ \E d \in Deployments : DeploymentStep(d)
  \/ Restart

Spec == Init /\ [][Next]_vars

-----------------------------------------------------------------------------
(* Properties *)

Outcomes == {"none", "unsent", "died", "completed", "failed", "restarted"}

TypeOK ==
  /\ primary \in [Jobs -> Record \cup {NoRecord}]
  /\ emergency \in [Jobs -> Record \cup {NoRecord}]
  /\ initial \in [Jobs -> Record]
  /\ at \in [Jobs -> Places]
  /\ faults \in 0 .. MaxFaults /\ restarts \in 0 .. MaxRestarts
  /\ missed \subseteq Jobs /\ unsaved \subseteq Benchmarks /\ caught \subseteq Benchmarks
  /\ lost \subseteq Jobs
  /\ outcome \in [Jobs -> Outcomes]

\* A job that has ended has left its result behind, unless both stores refused a record:
\* a benchmark its failure, even if its record could not be read, and its results if the
\* record could be read and the storage took the status; of a deployment, the client that
\* asks for it is told.
OutcomeIsRecorded ==
  /\ \A b \in Benchmarks \ lost :
       /\ outcome[b] = "failed" => Failed \in {primary[b], emergency[b]}
       /\ outcome[b] = "completed" /\ b \notin missed \cup unsaved =>
            [status |-> "COMPLETED", data |-> TRUE] \in {primary[b], emergency[b]}
  /\ \A d \in Deployments \ lost :
       /\ outcome[d] = "failed" => Final(View(d))
       /\ outcome[d] = "completed" => View(d) = [status |-> "COMPLETED", data |-> TRUE]

\* A final status that a client has seen does not change, unless the record of a benchmark
\* could not be read, both stores refused a record, or a restart purges the emergency
\* record of a failed deployment. COMPLETED is as final as that for every benchmark; FAILED
\* only for one whose algorithm lets the errors of its handler pass: mark_as_failed ends
\* nothing by itself, and the next status is written over it.
FinalStaysFinal ==
  [][\A j \in Jobs :
       Final(View(j)) =>
         \/ Status(View(j)') = Status(View(j))
         \/ Status(View(j)) = "FAILED" /\ j \in caught
         \/ j \in missed' \cap Benchmarks
         \/ j \in lost'
         \/ restarts' # restarts]_vars

=============================================================================
