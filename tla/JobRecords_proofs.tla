-------------------------- MODULE JobRecords_proofs --------------------------
(***************************************************************************)
(* Proofs about the records of benchmarks and deployments.  No two jobs    *)
(* share a record, so the invariant is one predicate for each job, JobInv, *)
(* and a step of one job leaves those of the others alone (Frame).         *)
(***************************************************************************)
EXTENDS JobRecords, TLAPS

\* A job has a result only when it is over; before that its record is where it belongs.
Placed(j) ==
  /\ outcome[j] # "none" => at[j] = "over"
  /\ at[j] = "new" => primary[j] = NoRecord /\ emergency[j] = NoRecord
  /\ at[j] \notin {"new", "over"} => primary[j] # NoRecord

\* A benchmark whose algorithm catches no failure writes a final status at two places only,
\* one whose algorithm does may be FAILED anywhere, and one that could be read and written
\* is COMPLETED before it gets its results.
BenchmarkInv(b) ==
  /\ b \notin missed \cup lost /\ Final(primary[b]) =>
       \/ at[b] \in {"data", "over"}
       \/ (at[b] = "fail_again" \/ b \in caught) /\ Status(primary[b]) = "FAILED"
  /\ b \notin missed \cup unsaved \cup lost /\ at[b] = "data" => Status(primary[b]) = "COMPLETED"
  /\ b \notin lost /\ outcome[b] = "failed" => Failed \in {primary[b], emergency[b]}
  /\ b \notin missed \cup unsaved \cup lost /\ outcome[b] = "completed" =>
       [status |-> "COMPLETED", data |-> TRUE] \in {primary[b], emergency[b]}

\* A deployment uses the emergency store only when it fails.
DeploymentInv(d) ==
  /\ at[d] # "over" => emergency[d] = NoRecord
  /\ at[d] \notin {"fail", "over"} => ~Final(primary[d])
  /\ d \notin lost /\ outcome[d] = "failed" => Final(View(d))
  /\ d \notin lost /\ outcome[d] = "completed" => View(d) = [status |-> "COMPLETED", data |-> TRUE]

JobInv(j) ==
  /\ Placed(j)
  /\ j \in Benchmarks => BenchmarkInv(j)
  /\ j \in Deployments => DeploymentInv(j)

Inv == TypeOK /\ \A j \in Jobs : JobInv(j)

\* What FinalStaysFinal says of one job.
FinalKept(j) ==
  Final(View(j)) =>
    \/ Status(View(j)') = Status(View(j))
    \/ Status(View(j)) = "FAILED" /\ j \in caught
    \/ j \in missed' \cap Benchmarks
    \/ j \in lost'
    \/ restarts' # restarts

Untouched(i) ==
  /\ primary'[i] = primary[i] /\ emergency'[i] = emergency[i]
  /\ at'[i] = at[i] /\ outcome'[i] = outcome[i]
  /\ (i \in missed') = (i \in missed)
  /\ (i \in unsaved') = (i \in unsaved)
  /\ (i \in caught') = (i \in caught)
  /\ (i \in lost') = (i \in lost)

Whole == [status |-> "COMPLETED", data |-> TRUE]

USE DEF Jobs

-----------------------------------------------------------------------------
(* Records *)

LEMMA Records ==
  /\ Pending \in Record /\ Failed \in Record /\ Whole \in Record
  /\ Status(Pending) = "PENDING" /\ Status(Failed) = "FAILED" /\ Status(Whole) = "COMPLETED"
  /\ NoRecord \notin {Pending, Failed, Whole}
  /\ Status(NoRecord) = "none"
<1>1. Pending \in Record /\ Failed \in Record /\ Whole \in Record
  BY DEF Record, Pending, Failed, Whole, Statuses
<1>2. NoRecord \notin {Pending, Failed, Whole}
  BY <1>1, NoRecordAssumption
<1>3. Status(Pending) = "PENDING" /\ Status(Failed) = "FAILED" /\ Status(Whole) = "COMPLETED"
  BY <1>2 DEF Pending, Failed, Whole, Status
<1> QED BY <1>1, <1>2, <1>3 DEF Status

LEMMA RecordStatus ==
  ASSUME NEW r \in Record
  PROVE  r # NoRecord /\ Status(r) = r.status /\ r.status \in Statuses /\ r.data \in BOOLEAN
BY NoRecordAssumption DEF Record, Status

\* A record with another status.
LEMMA WithStatus ==
  ASSUME NEW r \in Record, NEW s \in Statuses
  PROVE  [r EXCEPT !.status = s] \in Record /\ Status([r EXCEPT !.status = s]) = s
<1>1. [r EXCEPT !.status = s] \in Record /\ [r EXCEPT !.status = s].status = s
  BY DEF Record
<1> QED BY <1>1, RecordStatus

\* What a field of mark_as_completed makes of a record.
LEMMA CompletedRecord ==
  ASSUME NEW r \in Record, NEW place
  PROVE  /\ Completed(r, place) \in Record
         /\ Status(Completed(r, place)) = IF place = "status" THEN "COMPLETED" ELSE Status(r)
         /\ place = "data" => Completed(r, place).data = TRUE
<1>1. Completed(r, place) \in Record
  BY RecordStatus DEF Completed, Record, Statuses
<1>2. Completed(r, place).status = IF place = "status" THEN "COMPLETED" ELSE r.status
  BY DEF Completed
<1>3. place = "data" => Completed(r, place).data = TRUE
  BY DEF Completed
<1> QED BY <1>1, <1>2, <1>3, RecordStatus

\* A completed record with data is the whole one.
LEMMA WholeRecord ==
  ASSUME NEW r \in Record, Status(r) = "COMPLETED", r.data = TRUE
  PROVE  r = Whole
BY RecordStatus DEF Record, Whole

-----------------------------------------------------------------------------
(* The two stores *)

LEMMA PutEffect ==
  ASSUME TypeOK, NEW j \in Jobs, NEW r \in Record, NEW put \in Puts, Put(j, r, put)
  PROVE  /\ primary' \in [Jobs -> Record \cup {NoRecord}]
         /\ \A i \in Jobs \ {j} : primary'[i] = primary[i]
         /\ primary'[j] = IF put \in {"stored", "unacknowledged"} THEN r ELSE primary[j]
BY DEF TypeOK, Put

LEMMA KeptEffect ==
  ASSUME TypeOK, NEW j \in Jobs, NEW r \in Record, NEW put \in Puts, Kept(j, r, put)
  PROVE  /\ emergency' \in [Jobs -> Record \cup {NoRecord}]
         /\ \A i \in Jobs \ {j} : emergency'[i] = emergency[i]
         /\ emergency'[j] = IF put = "stored" THEN NoRecord
                            ELSE IF put = "lost" THEN emergency[j] ELSE r
<1>1. CASE put = "stored"
  BY <1>1 DEF TypeOK, Kept
<1>2. CASE put = "lost"
  BY <1>2 DEF TypeOK, Kept
<1>3. CASE put \in {"refused", "unacknowledged"}
  BY <1>3 DEF TypeOK, Kept
<1> QED BY <1>1, <1>2, <1>3 DEF Puts

LEMMA CostsBound ==
  ASSUME TypeOK, NEW n \in Nat, Costs(n)
  PROVE  faults' \in 0 .. MaxFaults
BY BoundsAssumption DEF TypeOK, Costs

LEMMA FaultNat == \A x : Fault(x) \in Nat
BY DEF Fault

LEMMA Moved ==
  ASSUME TypeOK, NEW j \in Jobs, NEW place \in Places, Goto(j, place)
  PROVE  /\ at' \in [Jobs -> Places]
         /\ at'[j] = place
         /\ \A i \in Jobs \ {j} : at'[i] = at[i]
BY DEF TypeOK, Goto

LEMMA Ended ==
  ASSUME TypeOK, NEW j \in Jobs, NEW how \in Outcomes, End(j, how)
  PROVE  /\ at' \in [Jobs -> Places] /\ outcome' \in [Jobs -> Outcomes]
         /\ at'[j] = "over" /\ outcome'[j] = how
         /\ \A i \in Jobs \ {j} : at'[i] = at[i] /\ outcome'[i] = outcome[i]
BY DEF TypeOK, End, Goto, Places

\* A job that a step does not touch keeps its invariant and what its client sees.
LEMMA Frame ==
  ASSUME NEW i \in Jobs, JobInv(i), Untouched(i)
  PROVE  JobInv(i)' /\ FinalKept(i)
<1>1. Placed(i)'
  BY DEF JobInv, Placed, Untouched
<1>2. ASSUME i \in Benchmarks PROVE BenchmarkInv(i)'
  BY <1>2 DEF JobInv, BenchmarkInv, Untouched, Final, Status
<1>3. View(i)' = View(i)
  BY DEF View, BenchmarkView, DeploymentView, Untouched, Final, Status
<1>4. ASSUME i \in Deployments PROVE DeploymentInv(i)'
  BY <1>3, <1>4 DEF JobInv, DeploymentInv, Untouched, Final, Status
<1>5. FinalKept(i)
  BY <1>3 DEF FinalKept
<1> QED BY <1>1, <1>2, <1>4, <1>5 DEF JobInv

-----------------------------------------------------------------------------
(* The steps *)

LEMMA InitInv == Init => Inv
<1> SUFFICES ASSUME Init PROVE Inv
  OBVIOUS
<1>1. TypeOK
  BY Records, BoundsAssumption DEF Init, TypeOK, Places, Outcomes
<1>2. ASSUME NEW j \in Jobs PROVE JobInv(j)
  BY <1>2, Records DEF Init, JobInv, Placed, BenchmarkInv, DeploymentInv, Final
<1> QED BY <1>1, <1>2 DEF Inv

LEMMA PostStep ==
  ASSUME Inv, NEW j \in Jobs, NEW put \in Puts, Post(j, put)
  PROVE  Inv' /\ \A i \in Jobs : FinalKept(i)
<1> USE DEF Inv
<1>1. at[j] = "new" /\ primary[j] = NoRecord /\ emergency[j] = NoRecord /\ outcome[j] = "none"
  BY DEF Post, JobInv, Placed, TypeOK, Outcomes
<1>2. /\ primary' \in [Jobs -> Record \cup {NoRecord}]
      /\ \A i \in Jobs \ {j} : primary'[i] = primary[i]
      /\ primary'[j] = IF put \in {"stored", "unacknowledged"} THEN Pending ELSE primary[j]
  BY PutEffect, Records DEF Post
<1>3. /\ emergency' \in [Jobs -> Record \cup {NoRecord}]
      /\ \A i \in Jobs \ {j} : emergency'[i] = emergency[i]
      /\ emergency'[j] = IF put \in {"refused", "unacknowledged"} THEN Failed ELSE NoRecord
  BY <1>1, Records DEF Post, TypeOK
<1>4. faults' \in 0 .. MaxFaults
  BY CostsBound, FaultNat DEF Post
<1>5. /\ lost' \subseteq Jobs
      /\ \A i \in Jobs \ {j} : (i \in lost') = (i \in lost)
      /\ put = "lost" => j \in lost'
  BY DEF Post, TypeOK
<1>6. /\ at' \in [Jobs -> Places] /\ outcome' \in [Jobs -> Outcomes]
      /\ \A i \in Jobs \ {j} : at'[i] = at[i] /\ outcome'[i] = outcome[i]
      /\ IF put = "stored" THEN at'[j] = "queued" /\ outcome'[j] = "none"
                          ELSE at'[j] = "over" /\ outcome'[j] = "failed"
  <2>1. CASE put = "stored"
    BY <1>1, <2>1, Moved DEF Post, Places, TypeOK
  <2>2. CASE put # "stored"
    BY <2>2, Ended DEF Post, Outcomes
  <2> QED BY <2>1, <2>2
<1>7. UNCHANGED <<initial, restarts, missed, unsaved, caught>>
  BY DEF Post
<1>8. TypeOK'
  BY <1>2, <1>3, <1>4, <1>5, <1>6, <1>7 DEF TypeOK
<1>9. JobInv(j)'
  <2>1. Placed(j)'
    BY <1>2, <1>6, Records DEF Placed
  <2>2. BenchmarkInv(j)'
    BY <1>1, <1>2, <1>3, <1>5, <1>6, Records DEF BenchmarkInv, Final, Puts
  <2>3. ASSUME j \in Deployments PROVE DeploymentInv(j)'
    <3>1. j \notin Benchmarks
      BY <2>3, KindsAssumption
    <3>2. primary'[j] # NoRecord \/ put \in {"refused", "lost"}
      BY <1>1, <1>2, Records, NoRecordAssumption DEF Puts
    <3>3. /\ at'[j] = "over" => outcome'[j] = "failed"
          /\ put = "stored" => primary'[j] = Pending
      BY <1>2, <1>6
    <3> QED BY <1>1, <1>2, <1>3, <1>5, <1>6, <2>3, <3>1, <3>2, <3>3, Records
            DEF DeploymentInv, Final, Status, View, DeploymentView, Puts
  <2> QED BY <2>1, <2>2, <2>3 DEF JobInv
<1>10. FinalKept(j)
  BY <1>1, Records DEF FinalKept, Final, View, BenchmarkView, DeploymentView
<1>11. ASSUME NEW i \in Jobs \ {j} PROVE JobInv(i)' /\ FinalKept(i)
  BY <1>2, <1>3, <1>5, <1>6, <1>7, Frame DEF Untouched
<1> QED BY <1>8, <1>9, <1>10, <1>11

LEMMA UnsentStep ==
  ASSUME Inv, NEW j \in Jobs, Unsent(j)
  PROVE  Inv' /\ \A i \in Jobs : FinalKept(i)
<1> USE DEF Inv
<1>1. at[j] = "queued" /\ outcome[j] = "none"
  BY DEF Unsent, JobInv, Placed, TypeOK, Outcomes
<1>2. /\ at' \in [Jobs -> Places] /\ outcome' \in [Jobs -> Outcomes]
      /\ at'[j] = "over" /\ outcome'[j] = "unsent"
      /\ \A i \in Jobs \ {j} : at'[i] = at[i] /\ outcome'[i] = outcome[i]
  BY Ended DEF Unsent, Outcomes
<1>3. UNCHANGED <<primary, emergency, initial, restarts, missed, unsaved, caught, lost>>
  BY DEF Unsent
<1>4. faults' \in 0 .. MaxFaults
  BY CostsBound DEF Unsent
<1>5. TypeOK'
  BY <1>2, <1>3, <1>4 DEF TypeOK
<1>6. JobInv(j)'
  BY <1>1, <1>2, <1>3 DEF JobInv, Placed, BenchmarkInv, DeploymentInv, Final, Status
<1>7. FinalKept(j)
  BY <1>3 DEF FinalKept, View, BenchmarkView, DeploymentView, Final, Status
<1>8. ASSUME NEW i \in Jobs \ {j} PROVE JobInv(i)' /\ FinalKept(i)
  BY <1>2, <1>3, Frame DEF Untouched
<1> QED BY <1>5, <1>6, <1>7, <1>8

LEMMA RestartStep ==
  ASSUME Inv, Restart
  PROVE  Inv' /\ \A i \in Jobs : FinalKept(i)
<1> USE DEF Inv
<1>1. /\ emergency' = [j \in Jobs |-> IF j \in Deployments THEN NoRecord ELSE emergency[j]]
      /\ at' = [j \in Jobs |-> IF at[j] = "new" THEN "new" ELSE "over"]
      /\ outcome' = [j \in Jobs |-> IF at[j] = "new" \/ (j \in Benchmarks /\ at[j] = "over")
                                    THEN outcome[j] ELSE "restarted"]
      /\ UNCHANGED <<primary, initial, faults, missed, unsaved, caught, lost>>
      /\ restarts < MaxRestarts /\ restarts' = restarts + 1
  BY DEF Restart
<1>2. TypeOK'
  <2>1. restarts' \in 0 .. MaxRestarts
    BY <1>1, BoundsAssumption DEF TypeOK
  <2>2. emergency' \in [Jobs -> Record \cup {NoRecord}]
    BY <1>1 DEF TypeOK
  <2>3. at' \in [Jobs -> Places] /\ outcome' \in [Jobs -> Outcomes]
    BY <1>1 DEF TypeOK, Places, Outcomes
  <2> QED BY <1>1, <2>1, <2>2, <2>3 DEF TypeOK
<1>3. ASSUME NEW j \in Jobs PROVE JobInv(j)'
  <2>1. at'[j] = IF at[j] = "new" THEN "new" ELSE "over"
    BY <1>1
  <2>2. outcome'[j] = IF at[j] = "new" \/ (j \in Benchmarks /\ at[j] = "over")
                      THEN outcome[j] ELSE "restarted"
    BY <1>1
  <2>3. emergency'[j] = IF j \in Deployments THEN NoRecord ELSE emergency[j]
    BY <1>1
  <2>4. JobInv(j) /\ outcome[j] \in Outcomes
    BY DEF TypeOK
  <2>5. Placed(j)'
    BY <1>1, <2>1, <2>2, <2>3, <2>4 DEF JobInv, Placed
  <2>6. ASSUME j \in Benchmarks PROVE BenchmarkInv(j)'
    <3>1. j \notin Deployments
      BY <2>6, KindsAssumption
    <3> QED BY <1>1, <2>1, <2>2, <2>3, <2>4, <2>6, <3>1 DEF JobInv, Placed, BenchmarkInv, Final, Status
  <2>7. ASSUME j \in Deployments PROVE DeploymentInv(j)'
    <3>1. j \notin Benchmarks
      BY <2>7, KindsAssumption
    <3>2. outcome'[j] \notin {"failed", "completed"}
      BY <2>2, <2>4, <3>1 DEF JobInv, Placed
    <3>3. at'[j] # "over" => at'[j] = "new" /\ at[j] = "new"
      BY <2>1
    <3>4. at[j] = "new" => ~Final(primary[j])
      BY <2>4, Records DEF JobInv, Placed, Final
    <3> QED BY <1>1, <2>3, <2>7, <3>2, <3>3, <3>4 DEF DeploymentInv, Final, Status
  <2> QED BY <2>5, <2>6, <2>7 DEF JobInv
<1>4. restarts' # restarts
  BY <1>1 DEF TypeOK
<1> QED BY <1>2, <1>3, <1>4 DEF FinalKept

-----------------------------------------------------------------------------
(* Benchmarks *)

\* While a benchmark is under way its record is in the storage, and that is what clients see.
LEMMA Busy ==
  ASSUME Inv, NEW b \in Benchmarks, at[b] \notin {"new", "over"}
  PROVE  /\ primary[b] \in Record /\ initial[b] \in Record
         /\ outcome[b] = "none"
         /\ b \notin Deployments
         /\ View(b) = primary[b]
         /\ BenchmarkInv(b)
<1>1. JobInv(b)
  BY DEF Inv
<1>2. b \notin Deployments
  BY KindsAssumption
<1>3. primary[b] # NoRecord /\ outcome[b] = "none"
  BY <1>1 DEF JobInv, Placed, Inv, TypeOK
<1>4. primary[b] \in Record /\ initial[b] \in Record
  BY <1>3 DEF Inv, TypeOK
<1> QED BY <1>1, <1>2, <1>3, <1>4 DEF View, BenchmarkView, DeploymentView, JobInv

LEMMA UpdateEffect ==
  ASSUME Inv, NEW b \in Benchmarks, NEW r \in Record, NEW readable \in BOOLEAN, NEW put \in Puts,
         Update(b, r, readable, put)
  PROVE  /\ primary' \in [Jobs -> Record \cup {NoRecord}]
         /\ emergency' \in [Jobs -> Record \cup {NoRecord}]
         /\ initial' \in [Jobs -> Record]
         /\ faults' \in 0 .. MaxFaults /\ restarts' = restarts
         /\ missed' \subseteq Jobs /\ lost' \subseteq Jobs
         /\ \A i \in Jobs \ {b} :
              /\ primary'[i] = primary[i] /\ emergency'[i] = emergency[i]
              /\ (i \in missed') = (i \in missed) /\ (i \in lost') = (i \in lost)
         /\ primary'[b] = IF put \in {"stored", "unacknowledged"} THEN r ELSE primary[b]
         /\ emergency'[b] = IF put = "stored" THEN NoRecord
                            ELSE IF put = "lost" THEN emergency[b] ELSE r
         /\ missed \subseteq missed' /\ (~readable => b \in missed')
         /\ lost \subseteq lost' /\ (put = "lost" => b \in lost')
<1> USE DEF Inv
<1>1. Put(b, r, put) /\ Kept(b, r, put) /\ restarts' = restarts
  BY DEF Update
<1>2. faults' \in 0 .. MaxFaults
  <2>1. Fault(~readable) + Fault(put # "stored") \in Nat
    BY DEF Fault
  <2> QED BY <2>1, CostsBound DEF Update
<1>3. initial' \in [Jobs -> Record]
  BY DEF Update, TypeOK
<1>4. /\ missed' = IF readable THEN missed ELSE missed \cup {b}
      /\ lost' = IF put = "lost" THEN lost \cup {b} ELSE lost
  BY DEF Update
<1>5. missed' \subseteq Jobs /\ lost' \subseteq Jobs
  BY <1>4 DEF TypeOK
<1>6. ASSUME NEW i \in Jobs \ {b}
      PROVE  (i \in missed') = (i \in missed) /\ (i \in lost') = (i \in lost)
  BY <1>4
<1>7. /\ missed \subseteq missed' /\ (~readable => b \in missed')
      /\ lost \subseteq lost' /\ (put = "lost" => b \in lost')
  BY <1>4
<1> QED BY <1>1, <1>2, <1>3, <1>5, <1>6, <1>7, PutEffect, KeptEffect

LEMMA StartBenchmarkStep ==
  ASSUME Inv, NEW b \in Benchmarks, NEW put \in Puts, StartBenchmark(b, put)
  PROVE  Inv' /\ \A i \in Jobs : FinalKept(i)
<1> USE DEF Inv
<1> DEFINE r == [primary[b] EXCEPT !.status = "STARTED"]
<1>1. at[b] = "queued"
  BY DEF StartBenchmark
<1>2. /\ primary[b] \in Record /\ outcome[b] = "none" /\ b \notin Deployments
      /\ View(b) = primary[b] /\ BenchmarkInv(b)
  BY <1>1, Busy
<1>3. r \in Record /\ Status(r) = "STARTED"
  BY <1>2, WithStatus DEF Statuses
<1>4. Put(b, r, put) /\ Kept(b, r, put)
  BY DEF StartBenchmark
<1> HIDE DEF r
<1>5. /\ primary' \in [Jobs -> Record \cup {NoRecord}]
      /\ \A i \in Jobs \ {b} : primary'[i] = primary[i]
      /\ primary'[b] = IF put \in {"stored", "unacknowledged"} THEN r ELSE primary[b]
  BY <1>3, <1>4, PutEffect
<1>6. /\ emergency' \in [Jobs -> Record \cup {NoRecord}]
      /\ \A i \in Jobs \ {b} : emergency'[i] = emergency[i]
  BY <1>3, <1>4, KeptEffect
<1>7. faults' \in 0 .. MaxFaults
  BY CostsBound, FaultNat DEF StartBenchmark
<1>8. initial' \in [Jobs -> Record]
  BY Records DEF StartBenchmark, TypeOK
<1>9. UNCHANGED <<restarts, missed, unsaved, caught>>
  BY DEF StartBenchmark
<1>10. /\ at' \in [Jobs -> Places] /\ outcome' \in [Jobs -> Outcomes]
       /\ \A i \in Jobs \ {b} : at'[i] = at[i] /\ outcome'[i] = outcome[i]
       /\ lost' \subseteq Jobs /\ \A i \in Jobs \ {b} : (i \in lost') = (i \in lost)
       /\ IF put = "lost" THEN at'[b] = "over" /\ outcome'[b] = "died" /\ b \in lost'
                          ELSE at'[b] = "fetch" /\ outcome'[b] = "none" /\ lost' = lost
  <2>1. CASE put = "lost"
    <3>1. End(b, "died") /\ lost' = lost \cup {b}
      BY <2>1 DEF StartBenchmark
    <3> QED BY <2>1, <3>1, Ended DEF Outcomes, TypeOK
  <2>2. CASE put # "lost"
    <3>1. Goto(b, "fetch") /\ UNCHANGED <<lost, outcome>>
      BY <2>2 DEF StartBenchmark
    <3> QED BY <1>2, <2>2, <3>1, Moved DEF Places, TypeOK
  <2> QED BY <2>1, <2>2
<1>11. TypeOK'
  BY <1>5, <1>6, <1>7, <1>8, <1>9, <1>10 DEF TypeOK
<1>12. \/ ~Final(primary[b]) \/ b \in missed \cup lost
       \/ b \in caught /\ Status(primary[b]) = "FAILED"
  BY <1>1, <1>2 DEF BenchmarkInv
<1>13. Placed(b)'
  BY <1>2, <1>3, <1>5, <1>10, NoRecordAssumption DEF Placed
<1>14. BenchmarkInv(b)'
  BY <1>2, <1>3, <1>5, <1>9, <1>10, <1>12 DEF BenchmarkInv, Final
<1>15. FinalKept(b)
  BY <1>2, <1>9, <1>10, <1>12 DEF FinalKept
<1>16. ASSUME NEW i \in Jobs \ {b} PROVE JobInv(i)' /\ FinalKept(i)
  BY <1>5, <1>6, <1>9, <1>10, Frame DEF Untouched
<1> QED BY <1>2, <1>11, <1>13, <1>14, <1>15, <1>16 DEF JobInv

LEMMA DieAtStartStep ==
  ASSUME Inv, NEW b \in Benchmarks, DieAtStart(b)
  PROVE  Inv' /\ \A i \in Jobs : FinalKept(i)
<1> USE DEF Inv
<1>1. at[b] = "queued"
  BY DEF DieAtStart
<1>2. /\ outcome[b] = "none" /\ b \notin Deployments /\ BenchmarkInv(b)
  BY <1>1, Busy
<1>3. /\ at' \in [Jobs -> Places] /\ outcome' \in [Jobs -> Outcomes]
      /\ at'[b] = "over" /\ outcome'[b] = "died"
      /\ \A i \in Jobs \ {b} : at'[i] = at[i] /\ outcome'[i] = outcome[i]
  BY Ended DEF DieAtStart, Outcomes
<1>4. /\ UNCHANGED <<primary, emergency, initial, restarts, unsaved, caught, lost>>
      /\ missed' = missed \cup {b}
  BY DEF DieAtStart
<1>5. faults' \in 0 .. MaxFaults
  BY CostsBound DEF DieAtStart
<1>6. TypeOK'
  BY <1>3, <1>4, <1>5 DEF TypeOK
<1>7. JobInv(b)'
  BY <1>2, <1>3, <1>4 DEF JobInv, Placed, BenchmarkInv
<1>8. FinalKept(b)
  BY <1>4 DEF FinalKept
<1>9. ASSUME NEW i \in Jobs \ {b} PROVE JobInv(i)' /\ FinalKept(i)
  BY <1>3, <1>4, Frame DEF Untouched
<1> QED BY <1>6, <1>7, <1>8, <1>9

LEMMA WorkStep ==
  ASSUME Inv, NEW b \in Benchmarks, NEW next \in Places, Work(b, next)
  PROVE  Inv' /\ \A i \in Jobs : FinalKept(i)
<1> USE DEF Inv
<1>1. at[b] \in {"fetch", "benchmark"} /\ next \in {"benchmark", "fail", "fail_again", "log"}
  BY DEF Work
<1>2. /\ primary[b] \in Record /\ outcome[b] = "none" /\ b \notin Deployments
      /\ BenchmarkInv(b) /\ View(b) = primary[b]
  BY <1>1, Busy
<1>3. /\ at' \in [Jobs -> Places] /\ at'[b] = next
      /\ \A i \in Jobs \ {b} : at'[i] = at[i]
  BY Moved DEF Work
<1>4. UNCHANGED <<primary, emergency, initial, faults, restarts, missed, unsaved, caught, lost, outcome>>
  BY DEF Work
<1>5. TypeOK'
  BY <1>3, <1>4 DEF TypeOK
<1>6. JobInv(b)'
  <2>1. Placed(b)'
    BY <1>1, <1>2, <1>3, <1>4, NoRecordAssumption DEF Placed
  <2>2. BenchmarkInv(b)'
    BY <1>1, <1>2, <1>3, <1>4 DEF BenchmarkInv, Final, Status
  <2> QED BY <1>2, <2>1, <2>2 DEF JobInv
<1>7. FinalKept(b)
  BY <1>4 DEF FinalKept, View, BenchmarkView, DeploymentView, Final, Status
<1>8. ASSUME NEW i \in Jobs \ {b} PROVE JobInv(i)' /\ FinalKept(i)
  BY <1>3, <1>4, Frame DEF Untouched
<1> QED BY <1>5, <1>6, <1>7, <1>8

\* What the algorithm of a benchmark does while it runs: it leaves the record with a status
\* it had, one that is not final, or the FAILED of a failure that it caught.
Runs(b, r, readable, put) ==
  /\ at[b] \in {"fetch", "benchmark"}
  /\ Update(b, r, readable, put)
  /\ caught' \in {caught, caught \cup {b}}
  /\ UNCHANGED <<at, unsaved, outcome>>
  /\ readable => \/ ~Final(r)
                 \/ Status(r) = "FAILED" /\ b \in caught'
                 \/ Status(r) = Status(primary[b])

LEMMA RunningStep ==
  ASSUME Inv, NEW b \in Benchmarks, NEW r \in Record, NEW readable \in BOOLEAN, NEW put \in Puts,
         Runs(b, r, readable, put)
  PROVE  Inv' /\ \A i \in Jobs : FinalKept(i)
<1>1. /\ at[b] \in {"fetch", "benchmark"}
      /\ Update(b, r, readable, put)
      /\ UNCHANGED <<at, unsaved, outcome>>
  BY DEF Runs
<1>2. /\ primary[b] \in Record /\ outcome[b] = "none" /\ b \notin Deployments
      /\ View(b) = primary[b] /\ BenchmarkInv(b)
  BY <1>1, Busy
<1>3. /\ primary' \in [Jobs -> Record \cup {NoRecord}]
      /\ emergency' \in [Jobs -> Record \cup {NoRecord}]
      /\ initial' \in [Jobs -> Record]
  BY <1>1, UpdateEffect
<1>4. faults' \in 0 .. MaxFaults /\ restarts' = restarts /\ missed' \subseteq Jobs /\ lost' \subseteq Jobs
  BY <1>1, UpdateEffect
<1>5. \A i \in Jobs \ {b} :
        /\ primary'[i] = primary[i] /\ emergency'[i] = emergency[i]
        /\ (i \in missed') = (i \in missed) /\ (i \in lost') = (i \in lost)
  BY <1>1, UpdateEffect
<1>6. /\ primary'[b] = IF put \in {"stored", "unacknowledged"} THEN r ELSE primary[b]
      /\ missed \subseteq missed' /\ (~readable => b \in missed')
      /\ lost \subseteq lost'
  BY <1>1, UpdateEffect
<1> USE DEF Inv
<1>7. /\ caught' \subseteq Benchmarks /\ caught \subseteq caught'
       /\ \A i \in Jobs \ {b} : (i \in caught') = (i \in caught)
  BY DEF Runs, TypeOK
<1>8. TypeOK'
  BY <1>1, <1>3, <1>7, <1>4 DEF TypeOK
<1>9. Placed(b)'
  BY <1>1, <1>2, <1>6, NoRecordAssumption DEF Placed
<1>10. b \notin missed' \cup lost' /\ Final(primary[b]) =>
        b \in caught /\ Status(primary[b]) = "FAILED"
  BY <1>1, <1>2, <1>6 DEF BenchmarkInv
<1>11. b \notin missed' \cup lost' /\ Final(primary'[b]) =>
        b \in caught' /\ Status(primary'[b]) = "FAILED"
  BY <1>6, <1>10, <1>7 DEF Final, Runs
<1>12. BenchmarkInv(b)'
  BY <1>1, <1>2, <1>11 DEF BenchmarkInv
<1>13. FinalKept(b)
  BY <1>2, <1>10 DEF FinalKept
<1>14. ASSUME NEW i \in Jobs \ {b} PROVE JobInv(i)' /\ FinalKept(i)
  BY <1>1, <1>7, <1>5, Frame DEF Untouched
<1> QED BY <1>2, <1>8, <1>9, <1>12, <1>13, <1>14 DEF JobInv

LEMMA CaughtFailureStep ==
  ASSUME Inv, NEW b \in Benchmarks, NEW readable \in BOOLEAN, NEW put \in Puts,
         CaughtFailure(b, readable, put)
  PROVE  Inv' /\ \A i \in Jobs : FinalKept(i)
<1> DEFINE r == Failed
<1>1. r \in Record /\ Status(r) = "FAILED" /\ Update(b, r, readable, put)
  BY Records DEF CaughtFailure
<1> HIDE DEF r
<1>2. /\ at[b] \in {"fetch", "benchmark"}
      /\ caught' = caught \cup {b}
      /\ UNCHANGED <<at, unsaved, outcome>>
  BY DEF CaughtFailure
<1>3. Runs(b, r, readable, put)
  BY <1>1, <1>2 DEF Runs
<1> QED BY <1>1, <1>3, RunningStep

LEMMA ReportStep ==
  ASSUME Inv, NEW b \in Benchmarks, NEW running \in BOOLEAN, NEW readable \in BOOLEAN,
         NEW put \in Puts, Report(b, running, readable, put)
  PROVE  Inv' /\ \A i \in Jobs : FinalKept(i)
<1> DEFINE r == IF running THEN [Read(b, readable) EXCEPT !.status = "RUNNING"] ELSE Read(b, readable)
<1>1. at[b] = "benchmark" /\ UNCHANGED <<at, unsaved, caught, outcome>>
  BY DEF Report
<1>2. primary[b] \in Record /\ initial[b] \in Record
  BY <1>1, Busy
<1>3. Read(b, readable) \in Record
  BY <1>2 DEF Read
<1>4. /\ r \in Record
      /\ Status(r) = IF running THEN "RUNNING" ELSE Status(Read(b, readable))
  BY <1>3, WithStatus DEF Statuses
<1>5. Update(b, r, readable, put)
  BY DEF Report
<1> HIDE DEF r
<1>6. readable => ~Final(r) \/ Status(r) = Status(primary[b])
  BY <1>4 DEF Read, Final
<1>7. Runs(b, r, readable, put)
  BY <1>1, <1>5, <1>6 DEF Runs
<1> QED BY <1>4, <1>7, RunningStep

LEMMA CompleteStep ==
  ASSUME Inv, NEW b \in Benchmarks, NEW readable \in BOOLEAN, NEW put \in Puts,
         Complete(b, readable, put)
  PROVE  Inv' /\ \A i \in Jobs : FinalKept(i)
<1> USE DEF Inv
<1> DEFINE r == Completed(Read(b, readable), at[b])
<1>1. at[b] \in {"log", "time", "status", "data"}
  BY DEF Complete
<1>2. /\ primary[b] \in Record /\ initial[b] \in Record
      /\ outcome[b] = "none" /\ b \notin Deployments
      /\ View(b) = primary[b] /\ BenchmarkInv(b)
  BY <1>1, Busy
<1>3. Read(b, readable) \in Record
  BY <1>2 DEF Read
<1>4. /\ r \in Record
      /\ Status(r) = IF at[b] = "status" THEN "COMPLETED" ELSE Status(Read(b, readable))
      /\ at[b] = "data" => r.data = TRUE
  BY <1>3, CompletedRecord
<1>5. Update(b, r, readable, put)
  BY DEF Complete
<1> HIDE DEF r
<1>6. /\ primary' \in [Jobs -> Record \cup {NoRecord}]
      /\ emergency' \in [Jobs -> Record \cup {NoRecord}]
      /\ initial' \in [Jobs -> Record]
      /\ faults' \in 0 .. MaxFaults /\ restarts' = restarts
      /\ missed' \subseteq Jobs /\ lost' \subseteq Jobs
      /\ \A i \in Jobs \ {b} :
           /\ primary'[i] = primary[i] /\ emergency'[i] = emergency[i]
           /\ (i \in missed') = (i \in missed) /\ (i \in lost') = (i \in lost)
  BY <1>4, <1>5, UpdateEffect
<1>7. /\ primary'[b] = IF put \in {"stored", "unacknowledged"} THEN r ELSE primary[b]
      /\ emergency'[b] = IF put = "stored" THEN NoRecord
                         ELSE IF put = "lost" THEN emergency[b] ELSE r
      /\ missed \subseteq missed' /\ (~readable => b \in missed')
      /\ lost \subseteq lost' /\ (put = "lost" => b \in lost')
  BY <1>4, <1>5, UpdateEffect
<1>8. /\ unsaved' \subseteq Benchmarks /\ unsaved \subseteq unsaved'
      /\ at[b] = "status" /\ put = "refused" => b \in unsaved'
      /\ \A i \in Jobs \ {b} : (i \in unsaved') = (i \in unsaved)
      /\ caught' = caught
  BY DEF Complete, TypeOK
<1>9. /\ at' \in [Jobs -> Places] /\ outcome' \in [Jobs -> Outcomes]
      /\ \A i \in Jobs \ {b} : at'[i] = at[i] /\ outcome'[i] = outcome[i]
      /\ put = "lost" => at'[b] = "fail" /\ outcome'[b] = "none"
      /\ put # "lost" /\ at[b] = "data" => at'[b] = "over" /\ outcome'[b] = "completed"
      /\ put # "lost" /\ at[b] # "data" =>
           /\ at'[b] = (CASE at[b] = "log" -> "time" [] at[b] = "time" -> "status"
                          [] at[b] = "status" -> "data")
           /\ outcome'[b] = "none"
  <2>1. CASE put = "lost"
    <3>1. Goto(b, "fail") /\ UNCHANGED outcome
      BY <2>1 DEF Complete
    <3> QED BY <1>2, <2>1, <3>1, Moved DEF Places, TypeOK
  <2>2. CASE put # "lost" /\ at[b] = "data"
    <3>1. End(b, "completed")
      BY <2>2 DEF Complete
    <3> QED BY <2>2, <3>1, Ended DEF Outcomes
  <2>3. CASE put # "lost" /\ at[b] # "data"
    <3>1. Goto(b, After(at[b])) /\ UNCHANGED outcome
      BY <2>3 DEF Complete
    <3>2. CASE at[b] = "log"
      <4>1. After(at[b]) = "time"
        BY <3>2 DEF After
      <4> QED BY <1>2, <2>3, <3>1, <3>2, <4>1, Moved DEF Places, TypeOK
    <3>3. CASE at[b] = "time"
      <4>1. After(at[b]) = "status"
        BY <3>3 DEF After
      <4> QED BY <1>2, <2>3, <3>1, <3>3, <4>1, Moved DEF Places, TypeOK
    <3>4. CASE at[b] = "status"
      <4>1. After(at[b]) = "data"
        BY <3>4 DEF After
      <4> QED BY <1>2, <2>3, <3>1, <3>4, <4>1, Moved DEF Places, TypeOK
    <3> QED BY <1>1, <2>3, <3>2, <3>3, <3>4
  <2> QED BY <2>1, <2>2, <2>3
<1>10. TypeOK'
  BY <1>6, <1>8, <1>9 DEF TypeOK
<1>11. readable => Read(b, readable) = primary[b]
  BY DEF Read
<1>12. b \notin missed' \cup lost' => readable /\ put # "lost" /\ b \notin missed \cup lost
  BY <1>7
<1>13. Placed(b)'
  BY <1>1, <1>2, <1>4, <1>7, <1>9, NoRecordAssumption DEF Placed
<1>14. BenchmarkInv(b)'
  <2>1. b \notin missed' \cup lost' /\ Final(primary'[b]) =>
          \/ at'[b] \in {"data", "over"}
          \/ b \in caught' /\ Status(primary'[b]) = "FAILED"
    <3> SUFFICES ASSUME b \notin missed' \cup lost', Final(primary'[b])
                 PROVE  \/ at'[b] \in {"data", "over"}
                        \/ b \in caught' /\ Status(primary'[b]) = "FAILED"
      OBVIOUS
    <3>1. CASE at[b] = "data"
      BY <1>9, <1>12, <3>1
    <3>2. CASE at[b] = "status"
      BY <1>9, <1>12, <3>2
    <3>3. CASE at[b] \in {"log", "time"}
      <4>1. ~Final(primary[b]) \/ (b \in caught /\ Status(primary[b]) = "FAILED")
        BY <1>2, <1>12, <3>3 DEF BenchmarkInv
      <4>2. Status(r) = Status(primary[b])
        BY <1>4, <1>11, <1>12, <3>3
      <4> QED BY <1>7, <1>8, <4>1, <4>2 DEF Final
    <3> QED BY <1>1, <3>1, <3>2, <3>3
  <2>2. b \notin missed' \cup unsaved' \cup lost' /\ at'[b] = "data" => Status(primary'[b]) = "COMPLETED"
    <3> SUFFICES ASSUME b \notin missed' \cup unsaved' \cup lost', at'[b] = "data"
                 PROVE  Status(primary'[b]) = "COMPLETED"
      OBVIOUS
    <3>1. at[b] = "status"
      BY <1>1, <1>9, <1>12
    <3>2. put \in {"stored", "unacknowledged"}
      BY <1>8, <1>12, <3>1 DEF Puts
    <3> QED BY <1>4, <1>7, <3>1, <3>2
  <2>3. outcome'[b] # "failed"
    BY <1>1, <1>9
  <2>4. b \notin missed' \cup unsaved' \cup lost' /\ outcome'[b] = "completed" =>
          Whole \in {primary'[b], emergency'[b]}
    <3> SUFFICES ASSUME b \notin missed' \cup unsaved' \cup lost', outcome'[b] = "completed"
                 PROVE  Whole \in {primary'[b], emergency'[b]}
      OBVIOUS
    <3>1. at[b] = "data"
      BY <1>1, <1>9
    <3>2. Status(primary[b]) = "COMPLETED"
      BY <1>2, <1>8, <1>12, <3>1 DEF BenchmarkInv
    <3>3. r = Whole
      BY <1>4, <1>11, <1>12, <3>1, <3>2, WholeRecord
    <3> QED BY <1>7, <1>12, <3>3 DEF Puts
  <2> QED BY <2>1, <2>2, <2>3, <2>4 DEF BenchmarkInv, Whole
<1>15. FinalKept(b)
  <2> SUFFICES ASSUME Final(View(b)), b \notin missed' \cup lost',
                      ~(Status(View(b)) = "FAILED" /\ b \in caught)
               PROVE  Status(View(b)') = Status(View(b))
    BY <1>2 DEF FinalKept
  <2>1. at[b] = "data"
    BY <1>1, <1>2, <1>12 DEF BenchmarkInv
  <2>2. Status(r) = Status(primary[b])
    BY <1>4, <1>11, <1>12, <2>1
  <2>3. View(b)' = primary'[b]
    BY <1>2, <1>4, <1>7, NoRecordAssumption DEF View, BenchmarkView, DeploymentView
  <2> QED BY <1>2, <1>7, <2>2, <2>3
<1>16. ASSUME NEW i \in Jobs \ {b} PROVE JobInv(i)' /\ FinalKept(i)
  BY <1>6, <1>8, <1>9, Frame DEF Untouched
<1> QED BY <1>2, <1>10, <1>13, <1>14, <1>15, <1>16 DEF JobInv

LEMMA FailStep ==
  ASSUME Inv, NEW b \in Benchmarks, NEW readable \in BOOLEAN, NEW put \in Puts,
         Fail(b, readable, put)
  PROVE  Inv' /\ \A i \in Jobs : FinalKept(i)
<1> USE DEF Inv
<1>1. at[b] \in {"fail", "fail_again"}
  BY DEF Fail
<1>2. /\ primary[b] \in Record /\ outcome[b] = "none" /\ b \notin Deployments
      /\ View(b) = primary[b] /\ BenchmarkInv(b)
  BY <1>1, Busy
<1> DEFINE r == Failed
<1>3. r \in Record /\ Update(b, r, readable, put)
  BY Records DEF Fail
<1> HIDE DEF r
<1>4. /\ primary' \in [Jobs -> Record \cup {NoRecord}]
      /\ emergency' \in [Jobs -> Record \cup {NoRecord}]
      /\ initial' \in [Jobs -> Record]
      /\ faults' \in 0 .. MaxFaults /\ restarts' = restarts
      /\ missed' \subseteq Jobs /\ lost' \subseteq Jobs
      /\ \A i \in Jobs \ {b} :
           /\ primary'[i] = primary[i] /\ emergency'[i] = emergency[i]
           /\ (i \in missed') = (i \in missed) /\ (i \in lost') = (i \in lost)
  BY <1>3, UpdateEffect
<1>5. /\ primary'[b] = IF put \in {"stored", "unacknowledged"} THEN r ELSE primary[b]
      /\ emergency'[b] = IF put = "stored" THEN NoRecord
                         ELSE IF put = "lost" THEN emergency[b] ELSE r
      /\ missed \subseteq missed' /\ lost \subseteq lost' /\ (put = "lost" => b \in lost')
  BY <1>3, UpdateEffect
<1>6. UNCHANGED <<unsaved, caught>>
  BY DEF Fail
<1>7. /\ at' \in [Jobs -> Places] /\ outcome' \in [Jobs -> Outcomes]
      /\ \A i \in Jobs \ {b} : at'[i] = at[i] /\ outcome'[i] = outcome[i]
      /\ IF at[b] = "fail" THEN at'[b] = "fail_again" /\ outcome'[b] = "none"
                           ELSE at'[b] = "over" /\ outcome'[b] = "failed"
  <2>1. CASE at[b] = "fail"
    <3>1. Goto(b, "fail_again") /\ UNCHANGED outcome
      BY <2>1 DEF Fail
    <3> QED BY <1>2, <2>1, <3>1, Moved DEF Places, TypeOK
  <2>2. CASE at[b] # "fail"
    <3>1. End(b, "failed")
      BY <2>2 DEF Fail
    <3> QED BY <2>2, <3>1, Ended DEF Outcomes
  <2> QED BY <2>1, <2>2
<1> USE DEF r
<1>8. TypeOK'
  BY <1>4, <1>6, <1>7 DEF TypeOK
<1>9. b \notin missed \cup lost /\ Final(primary[b]) => Status(primary[b]) = "FAILED"
  BY <1>1, <1>2 DEF BenchmarkInv
<1>10. Placed(b)'
  BY <1>1, <1>2, <1>5, <1>7, Records, NoRecordAssumption DEF Placed
<1>11. BenchmarkInv(b)'
  <2>1. b \notin missed' \cup lost' /\ Final(primary'[b]) => Status(primary'[b]) = "FAILED"
    BY <1>5, <1>9, Records
  <2>2. at'[b] \in {"fail_again", "over"} /\ outcome'[b] # "completed"
    BY <1>7
  <2>3. b \notin lost' /\ outcome'[b] = "failed" => Failed \in {primary'[b], emergency'[b]}
    BY <1>5 DEF Puts
  <2> QED BY <2>1, <2>2, <2>3 DEF BenchmarkInv
<1>12. FinalKept(b)
  <2>1. View(b)' = primary'[b]
    BY <1>2, <1>5, Records, NoRecordAssumption DEF View, BenchmarkView, DeploymentView
  <2> QED BY <1>2, <1>5, <1>9, <2>1, Records DEF FinalKept
<1>13. ASSUME NEW i \in Jobs \ {b} PROVE JobInv(i)' /\ FinalKept(i)
  BY <1>4, <1>6, <1>7, Frame DEF Untouched
<1> QED BY <1>2, <1>8, <1>10, <1>11, <1>12, <1>13 DEF JobInv

-----------------------------------------------------------------------------
(* Deployments *)

\* A deployment under way has used the storage only.
LEMMA Deploying_Busy ==
  ASSUME Inv, NEW d \in Deployments, at[d] \notin {"new", "over"}
  PROVE  /\ primary[d] \in Record /\ emergency[d] = NoRecord
         /\ outcome[d] = "none"
         /\ d \notin Benchmarks
         /\ View(d) = primary[d]
         /\ at[d] # "fail" => ~Final(primary[d])
<1>1. JobInv(d)
  BY DEF Inv
<1>2. d \notin Benchmarks
  BY KindsAssumption
<1>3. primary[d] # NoRecord /\ outcome[d] = "none"
  BY <1>1 DEF JobInv, Placed, Inv, TypeOK
<1>4. primary[d] \in Record
  BY <1>3 DEF Inv, TypeOK
<1>5. emergency[d] = NoRecord /\ (at[d] # "fail" => ~Final(primary[d]))
  BY <1>1 DEF JobInv, DeploymentInv
<1> QED BY <1>2, <1>3, <1>4, <1>5, Records DEF View, BenchmarkView, DeploymentView

LEMMA DeployingEffect ==
  ASSUME Inv, NEW d \in Deployments, NEW r \in Record, NEW readable \in BOOLEAN, NEW put \in Puts,
         NEW next \in Places, Deploying(d, r, readable, put, next)
  PROVE  /\ primary' \in [Jobs -> Record \cup {NoRecord}]
         /\ at' \in [Jobs -> Places]
         /\ faults' \in 0 .. MaxFaults /\ missed' \subseteq Jobs
         /\ UNCHANGED <<emergency, initial, restarts, unsaved, caught, lost>>
         /\ \A i \in Jobs \ {d} :
              primary'[i] = primary[i] /\ at'[i] = at[i] /\ (i \in missed') = (i \in missed)
         /\ primary'[d] = IF readable /\ put \in {"stored", "unacknowledged"} THEN r ELSE primary[d]
         /\ at'[d] = IF readable /\ put = "stored" THEN next ELSE "fail"
<1> USE DEF Inv
<1>1. /\ primary' \in [Jobs -> Record \cup {NoRecord}]
      /\ \A i \in Jobs \ {d} : primary'[i] = primary[i]
      /\ primary'[d] = IF readable /\ put \in {"stored", "unacknowledged"} THEN r ELSE primary[d]
  <2>1. CASE readable
    <3>1. Put(d, r, put)
      BY <2>1 DEF Deploying
    <3> QED BY <2>1, <3>1, PutEffect
  <2>2. CASE ~readable
    <3>1. UNCHANGED primary
      BY <2>2 DEF Deploying
    <3> QED BY <2>2, <3>1 DEF TypeOK
  <2> QED BY <2>1, <2>2
<1>2. /\ at' \in [Jobs -> Places]
      /\ \A i \in Jobs \ {d} : at'[i] = at[i]
      /\ at'[d] = IF readable /\ put = "stored" THEN next ELSE "fail"
  <2> DEFINE place == IF readable /\ put = "stored" THEN next ELSE "fail"
  <2>1. place \in Places /\ Goto(d, place)
    BY DEF Deploying, Places
  <2> HIDE DEF place
  <2>2. /\ at' \in [Jobs -> Places]
        /\ \A i \in Jobs \ {d} : at'[i] = at[i]
        /\ at'[d] = place
    BY <2>1, Moved
  <2> QED BY <2>2 DEF place
<1>3. faults' \in 0 .. MaxFaults
  BY CostsBound, FaultNat DEF Deploying
<1>4. missed' \subseteq Jobs /\ \A i \in Jobs \ {d} : (i \in missed') = (i \in missed)
  BY DEF Deploying, TypeOK
<1> QED BY <1>1, <1>2, <1>3, <1>4 DEF Deploying

LEMMA StartDeploymentStep ==
  ASSUME Inv, NEW d \in Deployments, NEW readable \in BOOLEAN, NEW put \in Puts,
         StartDeployment(d, readable, put)
  PROVE  Inv' /\ \A i \in Jobs : FinalKept(i)
<1> USE DEF Inv
<1> DEFINE r == [primary[d] EXCEPT !.status = "RUNNING"]
<1>1. at[d] = "queued" /\ UNCHANGED outcome
  BY DEF StartDeployment
<1>2. /\ primary[d] \in Record /\ emergency[d] = NoRecord /\ outcome[d] = "none"
      /\ d \notin Benchmarks /\ View(d) = primary[d] /\ ~Final(primary[d])
  BY <1>1, Deploying_Busy
<1>3. r \in Record /\ Status(r) = "RUNNING" /\ "deploy" \in Places
  BY <1>2, WithStatus DEF Statuses, Places
<1>4. Deploying(d, r, readable, put, "deploy")
  BY DEF StartDeployment
<1> HIDE DEF r
<1>5. /\ primary' \in [Jobs -> Record \cup {NoRecord}]
      /\ at' \in [Jobs -> Places]
      /\ faults' \in 0 .. MaxFaults /\ missed' \subseteq Jobs
      /\ UNCHANGED <<emergency, initial, restarts, unsaved, caught, lost>>
      /\ \A i \in Jobs \ {d} :
           primary'[i] = primary[i] /\ at'[i] = at[i] /\ (i \in missed') = (i \in missed)
  BY <1>3, <1>4, DeployingEffect
<1>6. /\ primary'[d] = IF readable /\ put \in {"stored", "unacknowledged"} THEN r ELSE primary[d]
      /\ at'[d] \in {"deploy", "fail"}
  BY <1>3, <1>4, DeployingEffect
<1>7. TypeOK'
  BY <1>1, <1>5 DEF TypeOK
<1>8. Placed(d)'
  BY <1>1, <1>2, <1>3, <1>6, NoRecordAssumption DEF Placed
<1>9. DeploymentInv(d)'
  BY <1>1, <1>2, <1>3, <1>5, <1>6 DEF DeploymentInv, Final, Status
<1>10. FinalKept(d)
  BY <1>2 DEF FinalKept
<1>11. ASSUME NEW i \in Jobs \ {d} PROVE JobInv(i)' /\ FinalKept(i)
  BY <1>1, <1>5, Frame DEF Untouched
<1> QED BY <1>2, <1>7, <1>8, <1>9, <1>10, <1>11 DEF JobInv

LEMMA DeployStep ==
  ASSUME Inv, NEW d \in Deployments, NEW next \in Places, Deploy(d, next)
  PROVE  Inv' /\ \A i \in Jobs : FinalKept(i)
<1> USE DEF Inv
<1>1. at[d] = "deploy" /\ next \in {"complete", "fail"}
  BY DEF Deploy
<1>2. /\ primary[d] \in Record /\ emergency[d] = NoRecord /\ outcome[d] = "none"
      /\ d \notin Benchmarks /\ View(d) = primary[d] /\ ~Final(primary[d])
  BY <1>1, Deploying_Busy
<1>3. /\ at' \in [Jobs -> Places] /\ at'[d] = next
      /\ \A i \in Jobs \ {d} : at'[i] = at[i]
  BY Moved DEF Deploy
<1>4. UNCHANGED <<primary, emergency, initial, faults, restarts, missed, unsaved, caught, lost, outcome>>
  BY DEF Deploy
<1>5. TypeOK'
  BY <1>3, <1>4 DEF TypeOK
<1>6. JobInv(d)'
  <2>1. Placed(d)'
    BY <1>1, <1>2, <1>3, <1>4, NoRecordAssumption DEF Placed
  <2>2. DeploymentInv(d)'
    BY <1>1, <1>2, <1>3, <1>4 DEF DeploymentInv, Final, Status
  <2> QED BY <1>2, <2>1, <2>2 DEF JobInv
<1>7. FinalKept(d)
  BY <1>2 DEF FinalKept
<1>8. ASSUME NEW i \in Jobs \ {d} PROVE JobInv(i)' /\ FinalKept(i)
  BY <1>3, <1>4, Frame DEF Untouched
<1> QED BY <1>5, <1>6, <1>7, <1>8

LEMMA CompleteDeploymentStep ==
  ASSUME Inv, NEW d \in Deployments, NEW readable \in BOOLEAN, NEW put \in Puts,
         CompleteDeployment(d, readable, put)
  PROVE  Inv' /\ \A i \in Jobs : FinalKept(i)
<1>1. at[d] = "complete"
  BY DEF CompleteDeployment
<1>2. /\ primary[d] \in Record /\ emergency[d] = NoRecord /\ outcome[d] = "none"
      /\ d \notin Benchmarks /\ View(d) = primary[d] /\ ~Final(primary[d])
  BY <1>1, Deploying_Busy DEF Inv
<1> DEFINE r == Whole
           next == "over"
<1>3. Status(r) = "COMPLETED"
  BY Records
<1>6. r \in Record
  BY Records
<1>13. next \in Places
  BY DEF Places
<1>4. Deploying(d, r, readable, put, next)
  BY DEF CompleteDeployment, Whole
<1> HIDE DEF r, next
<1>5. /\ primary' \in [Jobs -> Record \cup {NoRecord}]
      /\ at' \in [Jobs -> Places]
      /\ faults' \in 0 .. MaxFaults /\ missed' \subseteq Jobs
      /\ UNCHANGED <<emergency, initial, restarts, unsaved, caught, lost>>
      /\ \A i \in Jobs \ {d} :
           primary'[i] = primary[i] /\ at'[i] = at[i] /\ (i \in missed') = (i \in missed)
      /\ primary'[d] = IF readable /\ put \in {"stored", "unacknowledged"} THEN r ELSE primary[d]
      /\ at'[d] = IF readable /\ put = "stored" THEN next ELSE "fail"
  <2>1. primary' \in [Jobs -> Record \cup {NoRecord}]
    BY <1>4, <1>6, <1>13, DeployingEffect
  <2>2. at' \in [Jobs -> Places]
    BY <1>4, <1>6, <1>13, DeployingEffect
  <2>3. faults' \in 0 .. MaxFaults /\ missed' \subseteq Jobs
    BY <1>4, <1>6, <1>13, DeployingEffect
  <2>4. UNCHANGED <<emergency, initial, restarts, unsaved, caught, lost>>
    BY <1>4, <1>6, <1>13, DeployingEffect
  <2>5. \A i \in Jobs \ {d} :
           primary'[i] = primary[i] /\ at'[i] = at[i] /\ (i \in missed') = (i \in missed)
    BY <1>4, <1>6, <1>13, DeployingEffect
  <2>6. primary'[d] = IF readable /\ put \in {"stored", "unacknowledged"} THEN r ELSE primary[d]
    BY <1>4, <1>6, <1>13, DeployingEffect
  <2>7. at'[d] = IF readable /\ put = "stored" THEN next ELSE "fail"
    BY <1>4, <1>6, <1>13, DeployingEffect
  <2> QED BY <2>1, <2>2, <2>3, <2>4, <2>5, <2>6, <2>7
<1> USE DEF next, Inv
<1>7. /\ outcome' \in [Jobs -> Outcomes]
      /\ \A i \in Jobs \ {d} : outcome'[i] = outcome[i]
      /\ outcome'[d] = IF at'[d] = "over" THEN "completed" ELSE "none"
  BY <1>2 DEF CompleteDeployment, TypeOK, Outcomes
<1>8. TypeOK'
  BY <1>5, <1>7 DEF TypeOK
<1>9. Placed(d)'
  BY <1>2, <1>3, <1>5, <1>6, <1>7, NoRecordAssumption DEF Placed
<1>10. DeploymentInv(d)'
  <2>1. emergency'[d] = NoRecord /\ at'[d] \in {"fail", "over"} /\ outcome'[d] # "failed"
    BY <1>2, <1>5, <1>7
  <2>2. outcome'[d] = "completed" => View(d)' = r
    BY <1>3, <1>5, <1>6, <1>7, NoRecordAssumption DEF View, BenchmarkView, DeploymentView, Final
  <2> QED BY <2>1, <2>2 DEF DeploymentInv, Whole, r
<1>11. FinalKept(d)
  BY <1>2 DEF FinalKept
<1>12. ASSUME NEW i \in Jobs \ {d} PROVE JobInv(i)' /\ FinalKept(i)
  BY <1>5, <1>7, Frame DEF Untouched
<1> QED BY <1>2, <1>8, <1>9, <1>10, <1>11, <1>12 DEF JobInv

LEMMA FailDeploymentStep ==
  ASSUME Inv, NEW d \in Deployments, NEW put \in Puts, FailDeployment(d, put)
  PROVE  Inv' /\ \A i \in Jobs : FinalKept(i)
<1> USE DEF Inv
<1>1. at[d] = "fail" /\ put \in {"stored", "lost"}
  BY DEF FailDeployment
<1>2. /\ primary[d] \in Record /\ emergency[d] = NoRecord /\ outcome[d] = "none"
      /\ d \notin Benchmarks /\ View(d) = primary[d]
  BY <1>1, Deploying_Busy
<1>3. /\ emergency' \in [Jobs -> Record \cup {NoRecord}]
      /\ \A i \in Jobs \ {d} : emergency'[i] = emergency[i]
      /\ put = "stored" => emergency'[d] = Failed
  BY <1>1, Records DEF FailDeployment, TypeOK
<1>4. /\ lost' \subseteq Jobs /\ \A i \in Jobs \ {d} : (i \in lost') = (i \in lost)
      /\ put = "lost" => d \in lost'
  BY DEF FailDeployment, TypeOK
<1>5. /\ at' \in [Jobs -> Places] /\ outcome' \in [Jobs -> Outcomes]
      /\ at'[d] = "over" /\ outcome'[d] = "failed"
      /\ \A i \in Jobs \ {d} : at'[i] = at[i] /\ outcome'[i] = outcome[i]
  BY Ended DEF FailDeployment, Outcomes
<1>6. UNCHANGED <<primary, initial, restarts, missed, unsaved, caught>>
  BY DEF FailDeployment
<1>7. faults' \in 0 .. MaxFaults
  BY CostsBound, FaultNat DEF FailDeployment
<1>8. TypeOK'
  BY <1>3, <1>4, <1>5, <1>6, <1>7 DEF TypeOK
<1>9. Placed(d)'
  BY <1>5 DEF Placed
<1>10. d \notin lost' => View(d)' = IF Final(primary[d]) THEN primary[d] ELSE Failed
  BY <1>1, <1>2, <1>3, <1>4, <1>6, Records, NoRecordAssumption DEF View, BenchmarkView, DeploymentView, Final
<1>11. DeploymentInv(d)'
  BY <1>5, <1>10, Records DEF DeploymentInv, Final
<1>12. FinalKept(d)
  BY <1>2, <1>10 DEF FinalKept
<1>13. ASSUME NEW i \in Jobs \ {d} PROVE JobInv(i)' /\ FinalKept(i)
  BY <1>3, <1>4, <1>5, <1>6, Frame DEF Untouched
<1> QED BY <1>2, <1>8, <1>9, <1>11, <1>12, <1>13 DEF JobInv

-----------------------------------------------------------------------------

LEMMA NextInv ==
  ASSUME Inv, Next
  PROVE  Inv' /\ \A i \in Jobs : FinalKept(i)
<1>1. CASE \E j \in Jobs : Unsent(j) \/ \E put \in Puts : Post(j, put)
  BY <1>1, UnsentStep, PostStep
<1>2. CASE \E b \in Benchmarks : BenchmarkStep(b)
  <2> PICK b \in Benchmarks : BenchmarkStep(b)
    BY <1>2
  <2>1. CASE DieAtStart(b)
    BY <2>1, DieAtStartStep
  <2>2. CASE \E next \in Places : Work(b, next)
    BY <2>2, WorkStep
  <2>3. CASE \E put \in Puts : StartBenchmark(b, put)
    BY <2>3, StartBenchmarkStep
  <2>4. CASE \E put \in Puts, readable \in BOOLEAN : Complete(b, readable, put)
    BY <2>4, CompleteStep
  <2>5. CASE \E put \in Puts, readable \in BOOLEAN : Fail(b, readable, put)
    BY <2>5, FailStep
  <2>6. CASE \E put \in Puts, readable \in BOOLEAN : CaughtFailure(b, readable, put)
    BY <2>6, CaughtFailureStep
  <2>7. CASE \E put \in Puts, readable \in BOOLEAN, running \in BOOLEAN : Report(b, running, readable, put)
    BY <2>7, ReportStep
  <2> QED BY <2>1, <2>2, <2>3, <2>4, <2>5, <2>6, <2>7 DEF BenchmarkStep
<1>3. CASE \E d \in Deployments : DeploymentStep(d)
  <2> PICK d \in Deployments : DeploymentStep(d)
    BY <1>3
  <2>1. CASE \E next \in Places : Deploy(d, next)
    BY <2>1, DeployStep
  <2>2. CASE \E put \in Puts : FailDeployment(d, put)
    BY <2>2, FailDeploymentStep
  <2>3. CASE \E put \in Puts, readable \in BOOLEAN : StartDeployment(d, readable, put)
    BY <2>3, StartDeploymentStep
  <2>4. CASE \E put \in Puts, readable \in BOOLEAN : CompleteDeployment(d, readable, put)
    BY <2>4, CompleteDeploymentStep
  <2> QED BY <2>1, <2>2, <2>3, <2>4 DEF DeploymentStep
<1>4. CASE Restart
  BY <1>4, RestartStep
<1> QED BY <1>1, <1>2, <1>3, <1>4 DEF Next

LEMMA Stutter ==
  ASSUME Inv, UNCHANGED vars
  PROVE  Inv' /\ \A i \in Jobs : FinalKept(i)
<1>1. TypeOK'
  BY DEF Inv, TypeOK, vars
<1>2. ASSUME NEW i \in Jobs PROVE JobInv(i)' /\ FinalKept(i)
  BY Frame DEF Inv, Untouched, vars
<1> QED BY <1>1, <1>2 DEF Inv

LEMMA Invariance == Spec => []Inv
<1>1. Inv /\ [Next]_vars => Inv'
  BY NextInv, Stutter
<1> QED BY <1>1, InitInv, PTL DEF Spec

\* Every record is a record and every job is somewhere, for any number of jobs, failures
\* and restarts.
THEOREM TypeCorrect == Spec => []TypeOK
<1>1. Inv => TypeOK
  BY DEF Inv
<1> QED BY <1>1, Invariance, PTL

\* What came of a job is in one of the two stores, and a client of a deployment is told.
THEOREM OutcomesAreRecorded == Spec => []OutcomeIsRecorded
<1>1. Inv => OutcomeIsRecorded
  <2> SUFFICES ASSUME Inv PROVE OutcomeIsRecorded
    OBVIOUS
  <2>1. \A b \in Benchmarks : BenchmarkInv(b)
    BY DEF Inv, JobInv
  <2>2. \A d \in Deployments : DeploymentInv(d)
    BY DEF Inv, JobInv
  <2> QED BY <2>1, <2>2 DEF OutcomeIsRecorded, BenchmarkInv, DeploymentInv
<1> QED BY <1>1, Invariance, PTL

\* COMPLETED stays once a client of a job has seen it, and FAILED unless the algorithm of
\* a benchmark has caught a failure of its handler; the other circumstances are those that
\* the property names (a failed read, a record that neither store took, a restart).
THEOREM FinalStatusStays == Spec => FinalStaysFinal
<1>1. Inv /\ [Next]_vars =>
        [\A j \in Jobs :
           Final(View(j)) =>
             \/ Status(View(j)') = Status(View(j))
             \/ Status(View(j)) = "FAILED" /\ j \in caught
             \/ j \in missed' \cap Benchmarks
             \/ j \in lost'
             \/ restarts' # restarts]_vars
  BY NextInv DEF FinalKept
<1> QED BY <1>1, Invariance, PTL DEF Spec, FinalStaysFinal

=============================================================================
