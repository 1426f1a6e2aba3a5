--------------------------- MODULE JobQueueProofs ---------------------------
(* Theorems about JobQueue, for any jobs, workers, administrators, budgets  *)
(* and delays.                                                              *)
EXTENDS JobQueue, TLAPS

(* The row of a claim names a job and never exhausts it: it has no          *)
(* maxAttempts.                                                             *)
LEMMA RowShape ==
  ASSUME NEW r \in Rows
  PROVE  /\ r.id \in Jobs
         /\ r.attempts \in 0..AttemptCap
         /\ ~Exhausted(r)
  BY DEF Rows, Exhausted

(* A worker that is at a job holds a row. *)
LEMMA HoldsRow ==
  ASSUME TypeOK, NEW w \in Workers, pc[w] \notin {"idle", "down"}
  PROVE  row[w] \in Rows /\ row[w].id \in Jobs /\ row[w].attempts \in 0..AttemptCap
                /\ ~Exhausted(row[w])
  BY RowShape DEF TypeOK

(* The initial state is typed. *)
LEMMA InitTypeOK == Init => TypeOK
  BY BackoffAssumption DEF Init, TypeOK, Statuses, WorkerStates

(* Every step keeps the types. *)
LEMMA NextTypeOK == TypeOK /\ [Next]_vars => TypeOK'
<1> SUFFICES ASSUME TypeOK, [Next]_vars PROVE TypeOK'
  OBVIOUS
<1> USE ConstantsAssumption, NullsAssumption, BackoffAssumption
<1>1. ASSUME NEW j \in Jobs, NEW delay \in Delays, Enqueue(j, delay) PROVE TypeOK'
  BY <1>1 DEF TypeOK, Enqueue, Statuses
<1>2. ASSUME NEW w \in Workers, NEW j \in Jobs, ClaimNext(w, j) PROVE TypeOK'
  <2> DEFINE n == Least(AttemptCap, attempts[j] + 1)
  <2> DEFINE r == [id |-> j, attempts |-> n, max_attempts |-> MaxAttempts[j]]
  <2>1. n \in 0..AttemptCap
    BY DEF TypeOK, Least
  <2>2. r \in Rows /\ r # NoRow
    BY <2>1 DEF Rows
  <2>3. row' = [row EXCEPT ![w] = r] /\ attempts' = [attempts EXCEPT ![j] = n]
    BY <1>2 DEF ClaimNext
  <2> HIDE DEF n, r
  <2>4. row' \in [Workers -> Rows \union {NoRow}] /\ attempts' \in [Jobs -> 0..AttemptCap]
    BY <2>1, <2>2, <2>3 DEF TypeOK
  <2>5. pc' \in [Workers -> WorkerStates]
        /\ \A v \in Workers : row'[v] = NoRow <=> pc'[v] \in {"idle", "down"}
    BY <1>2, <2>2, <2>3 DEF TypeOK, ClaimNext, WorkerStates
  <2>6. QED
    BY <1>2, <2>4, <2>5 DEF TypeOK, ClaimNext, Statuses
<1>3. ASSUME NEW w \in Workers, HandlerReturns(w) PROVE TypeOK'
  BY <1>3, HoldsRow DEF TypeOK, HandlerReturns, WorkerStates, table
<1>4. ASSUME NEW w \in Workers, AttemptThrows(w) PROVE TypeOK'
  BY <1>4 DEF TypeOK, AttemptThrows, WorkerStates, table
<1>5. ASSUME NEW w \in Workers, MarkSucceeded(w) PROVE TypeOK'
  BY <1>5, HoldsRow DEF TypeOK, MarkSucceeded, Unlock, WorkerStates, Statuses
<1>6. ASSUME NEW w \in Workers, FinishJob(w) PROVE TypeOK'
  BY <1>6 DEF TypeOK, FinishJob, WorkerStates, table
<1>7. ASSUME NEW w \in Workers, MarkFailed(w) PROVE TypeOK'
  <2>1. row[w].id \in Jobs /\ ComputeBackoff(row[w].attempts) \in 0..Horizon
    BY <1>7, HoldsRow, BackoffAssumption DEF MarkFailed
  <2>2. QED
    BY <1>7, <2>1 DEF TypeOK, MarkFailed, Unlock, WorkerStates, Statuses
<1>8. ASSUME NEW w \in Workers, Crash(w) \/ Restart(w) PROVE TypeOK'
  BY <1>8 DEF TypeOK, Crash, Restart, WorkerStates, table
<1>9. ASSUME NEW w \in Workers, RecoverStale(w) PROVE TypeOK'
  BY <1>9 DEF TypeOK, RecoverStale, Statuses
<1>10. ASSUME NEW a \in Admins, NEW j \in Jobs, RetryRead(a, j) \/ CancelRead(a, j)
       PROVE TypeOK'
  BY <1>10 DEF TypeOK, RetryRead, CancelRead, Requests, table
<1>11. ASSUME NEW a \in Admins, NEW j \in Jobs, RetryWrite(a, j) PROVE TypeOK'
  BY <1>11 DEF TypeOK, RetryWrite, Unlock, Statuses
<1>12. ASSUME NEW a \in Admins, NEW j \in Jobs, CancelWrite(a, j) PROVE TypeOK'
  BY <1>12 DEF TypeOK, CancelWrite, Statuses
<1>13. ASSUME Tick PROVE TypeOK'
  BY <1>13 DEF TypeOK, Tick, Greatest, Least
<1>14. CASE UNCHANGED vars
  BY <1>14 DEF TypeOK, vars
<1>15. QED
  BY <1>1, <1>2, <1>3, <1>4, <1>5, <1>6, <1>7, <1>8, <1>9, <1>10, <1>11, <1>12, <1>13, <1>14
  DEF Next, Worker, Admin

(* The tables and the processes keep their types, for any constants. *)
THEOREM TypeCorrect == Spec => []TypeOK
<1>1. QED
  BY InitTypeOK, NextTypeOK, PTL DEF Spec
-----------------------------------------------------------------------------
(* The lock columns follow the status through every step.                   *)
LEMMA NextLocked == TypeOK /\ LockedIffRunning /\ [Next]_vars => LockedIffRunning'
<1> SUFFICES ASSUME TypeOK, LockedIffRunning, [Next]_vars PROVE LockedIffRunning'
  OBVIOUS
<1> USE NullsAssumption DEF LockedIffRunning
<1>1. ASSUME NEW j \in Jobs, NEW delay \in Delays, Enqueue(j, delay) PROVE LockedIffRunning'
  BY <1>1 DEF TypeOK, Enqueue
<1>2. ASSUME NEW w \in Workers, NEW j \in Jobs, ClaimNext(w, j) PROVE LockedIffRunning'
  BY <1>2 DEF TypeOK, ClaimNext
<1>3. ASSUME NEW w \in Workers, MarkSucceeded(w) PROVE LockedIffRunning'
  BY <1>3, HoldsRow DEF TypeOK, MarkSucceeded, Unlock
<1>4. ASSUME NEW w \in Workers, MarkFailed(w) PROVE LockedIffRunning'
  BY <1>4, HoldsRow DEF TypeOK, MarkFailed, Unlock
<1>5. ASSUME NEW w \in Workers, RecoverStale(w) PROVE LockedIffRunning'
  BY <1>5 DEF TypeOK, RecoverStale, Stale
<1>6. ASSUME NEW a \in Admins, NEW j \in Jobs, RetryWrite(a, j) PROVE LockedIffRunning'
  BY <1>6 DEF TypeOK, RetryWrite, Unlock
<1>7. ASSUME NEW a \in Admins, NEW j \in Jobs, CancelWrite(a, j) PROVE LockedIffRunning'
  BY <1>7 DEF TypeOK, CancelWrite
<1>8. ASSUME UNCHANGED <<status, lockedBy>> PROVE LockedIffRunning'
  BY <1>8
<1>9. QED
  BY <1>1, <1>2, <1>3, <1>4, <1>5, <1>6, <1>7, <1>8
  DEF Next, Worker, Admin, vars, table, HandlerReturns, AttemptThrows, FinishJob, Crash,
      Restart, RetryRead, CancelRead, Tick

(* A job is locked exactly while it runs. *)
THEOREM LockedCorrect == Spec => []LockedIffRunning
<1>1. Init => LockedIffRunning
  BY DEF Init, LockedIffRunning
<1>2. QED
  BY <1>1, NextLocked, TypeCorrect, PTL DEF Spec
-----------------------------------------------------------------------------
(* The inductive invariant behind the exclusion: an attempt at a job nobody *)
(* disturbed is the only one, and the row of the job is as it left it.      *)
IInv == ExclusiveUnlessDisturbed /\ AttendedByHolder

(* Nobody is at an undisturbed job that is not running or succeeded: a      *)
(* claim of a pending job, or a retry of a finished one, meets no attempt.  *)
LEMMA NobodyAtOthers ==
  ASSUME AttendedByHolder, NEW j \in Jobs \ disturbed,
         status[j] \notin {"running", "succeeded"}, NEW w \in Workers
  PROVE  ~InFlight(w, j)
  BY DEF AttendedByHolder

(* A step that changes no attempt, no status and no lock keeps IInv. *)
LEMMA NextExclusive == TypeOK /\ LockedIffRunning /\ IInv /\ [Next]_vars => IInv'
<1> SUFFICES ASSUME TypeOK, LockedIffRunning, IInv, [Next]_vars PROVE IInv'
  OBVIOUS
<1> USE NullsAssumption DEF IInv, ExclusiveUnlessDisturbed, AttendedByHolder, InFlight
<1>1. ASSUME NEW j \in Jobs, NEW delay \in Delays, Enqueue(j, delay) PROVE IInv'
  BY <1>1 DEF TypeOK, Enqueue
<1>2. ASSUME NEW w \in Workers, NEW j \in Jobs, ClaimNext(w, j) PROVE IInv'
  <2>1. j \notin disturbed => \A v \in Workers : ~InFlight(v, j)
    BY <1>2, NobodyAtOthers DEF ClaimNext, Claimable
  <2>2. pc' = [pc EXCEPT ![w] = "executing"] /\ row'[w].id = j
        /\ \A v \in Workers \ {w} : row'[v] = row[v]
    BY <1>2 DEF TypeOK, ClaimNext
  <2>3. status' = [status EXCEPT ![j] = "running"] /\ lockedBy' = [lockedBy EXCEPT ![j] = w]
        /\ disturbed' = disturbed
    BY <1>2 DEF ClaimNext
  <2>4. QED
    BY <2>1, <2>2, <2>3 DEF TypeOK
<1>3. ASSUME NEW w \in Workers, HandlerReturns(w) \/ AttemptThrows(w) PROVE IInv'
  BY <1>3 DEF TypeOK, HandlerReturns, AttemptThrows, table
<1>4. ASSUME NEW w \in Workers, MarkSucceeded(w) PROVE IInv'
  BY <1>4, HoldsRow DEF TypeOK, MarkSucceeded, Unlock
<1>5. ASSUME NEW w \in Workers, FinishJob(w) \/ Crash(w) \/ Restart(w) PROVE IInv'
  BY <1>5 DEF TypeOK, FinishJob, Crash, Restart, table
<1>6. ASSUME NEW w \in Workers, MarkFailed(w) PROVE IInv'
  BY <1>6, HoldsRow DEF TypeOK, MarkFailed, Unlock
<1>7. ASSUME NEW w \in Workers, RecoverStale(w) PROVE IInv'
  BY <1>7 DEF TypeOK, RecoverStale, Stale
<1>8. ASSUME NEW a \in Admins, NEW j \in Jobs, RetryRead(a, j) \/ CancelRead(a, j)
      PROVE IInv'
  BY <1>8 DEF RetryRead, CancelRead, table
<1>9. ASSUME NEW a \in Admins, NEW j \in Jobs, RetryWrite(a, j) PROVE IInv'
  BY <1>9 DEF TypeOK, RetryWrite, Unlock
<1>10. ASSUME NEW a \in Admins, NEW j \in Jobs, CancelWrite(a, j) PROVE IInv'
  BY <1>10 DEF TypeOK, CancelWrite
<1>11. ASSUME Tick PROVE IInv'
  BY <1>11 DEF Tick
<1>12. CASE UNCHANGED vars
  BY <1>12 DEF vars
<1>13. QED
  BY <1>1, <1>2, <1>3, <1>4, <1>5, <1>6, <1>7, <1>8, <1>9, <1>10, <1>11, <1>12
  DEF Next, Worker, Admin

(* The inductive invariant holds throughout. *)
LEMMA AttendedCorrect == Spec => []IInv
<1>1. Init => IInv
  BY DEF Init, IInv, ExclusiveUnlessDisturbed, AttendedByHolder, InFlight
<1>2. QED
  BY <1>1, NextExclusive, TypeCorrect, LockedCorrect, PTL DEF Spec

(* One process at a time per job, unless a lock expired under its holder or *)
(* a retry overwrote an unfinished job.                                     *)
THEOREM ExclusiveCorrect == Spec => []ExclusiveUnlessDisturbed
<1>1. IInv => ExclusiveUnlessDisturbed
  BY DEF IInv
<1>2. QED
  BY <1>1, AttendedCorrect, PTL
-----------------------------------------------------------------------------
(* What a recorded success rests on, as an inductive invariant.             *)
RunInv == SucceededHasRun /\ ReturnedHasRun

(* A retry forgets the earlier run only when no attempt relies on it.       *)
LEMMA NextRun == TypeOK /\ IInv /\ RunInv /\ [Next]_vars => RunInv'
<1> SUFFICES ASSUME TypeOK, IInv, RunInv, [Next]_vars PROVE RunInv'
  OBVIOUS
<1> USE DEF RunInv, SucceededHasRun, ReturnedHasRun, InFlight
<1>1. ASSUME NEW j \in Jobs, NEW delay \in Delays, Enqueue(j, delay) PROVE RunInv'
  BY <1>1 DEF TypeOK, Enqueue
<1>2. ASSUME NEW w \in Workers, NEW j \in Jobs, ClaimNext(w, j) PROVE RunInv'
  <2>1. pc' = [pc EXCEPT ![w] = "executing"] /\ status' = [status EXCEPT ![j] = "running"]
        /\ UNCHANGED <<ran, disturbed>> /\ \A v \in Workers \ {w} : row'[v] = row[v]
    BY <1>2 DEF TypeOK, ClaimNext
  <2>2. QED
    BY <2>1 DEF TypeOK
<1>3. ASSUME NEW w \in Workers, HandlerReturns(w) \/ AttemptThrows(w) PROVE RunInv'
  BY <1>3, HoldsRow DEF TypeOK, HandlerReturns, AttemptThrows, table
<1>4. ASSUME NEW w \in Workers, MarkSucceeded(w) PROVE RunInv'
  BY <1>4, HoldsRow DEF TypeOK, MarkSucceeded, Unlock
<1>5. ASSUME NEW w \in Workers, FinishJob(w) \/ Crash(w) \/ Restart(w) PROVE RunInv'
  BY <1>5 DEF TypeOK, FinishJob, Crash, Restart, table
<1>6. ASSUME NEW w \in Workers, MarkFailed(w) PROVE RunInv'
  BY <1>6, HoldsRow DEF TypeOK, MarkFailed, Unlock
<1>7. ASSUME NEW w \in Workers, RecoverStale(w) PROVE RunInv'
  BY <1>7 DEF TypeOK, RecoverStale, Stale
<1>8. ASSUME NEW a \in Admins, NEW j \in Jobs, RetryRead(a, j) \/ CancelRead(a, j)
      PROVE RunInv'
  BY <1>8 DEF RetryRead, CancelRead, table
<1>9. ASSUME NEW a \in Admins, NEW j \in Jobs, RetryWrite(a, j) PROVE RunInv'
  <2>1. j \notin disturbed' => \A w \in Workers : ~InFlight(w, j)
    BY <1>9, NobodyAtOthers DEF RetryWrite, IInv
  <2>2. QED
    BY <1>9, <2>1 DEF TypeOK, RetryWrite, Unlock
<1>10. ASSUME NEW a \in Admins, NEW j \in Jobs, CancelWrite(a, j) PROVE RunInv'
  BY <1>10 DEF TypeOK, CancelWrite
<1>11. ASSUME Tick PROVE RunInv'
  BY <1>11 DEF Tick
<1>12. CASE UNCHANGED vars
  BY <1>12 DEF vars
<1>13. QED
  BY <1>1, <1>2, <1>3, <1>4, <1>5, <1>6, <1>7, <1>8, <1>9, <1>10, <1>11, <1>12
  DEF Next, Worker, Admin

(* RunInv holds throughout.                                                 *)
LEMMA RunCorrect == Spec => []RunInv
<1>1. Init => RunInv
  BY DEF Init, RunInv, SucceededHasRun, ReturnedHasRun, InFlight
<1>2. QED
  BY <1>1, NextRun, TypeCorrect, AttendedCorrect, PTL DEF Spec

(* A success is recorded only after the handler returned for that queueing. *)
THEOREM SucceededHasRunCorrect == Spec => []SucceededHasRun
<1>1. RunInv => SucceededHasRun
  BY DEF RunInv
<1>2. QED
  BY <1>1, RunCorrect, PTL

(* Only a failing attempt of its own takes a success back.                  *)
THEOREM SuccessIsFinalCorrect == Spec => SuccessIsFinal
<1> DEFINE Kept ==
      \A j \in Jobs \ disturbed' :
        status[j] = "succeeded" /\ status'[j] # "succeeded" =>
          \E w \in Workers : /\ pc[w] = "failing" /\ pc'[w] = "reporting"
                             /\ row[w].id = j /\ j \in ran
<1>1. ASSUME TypeOK, RunInv, [Next]_vars PROVE [Kept]_vars
  <2> SUFFICES ASSUME NEW j \in Jobs, j \notin disturbed',
                      status[j] = "succeeded", status'[j] # "succeeded"
               PROVE  \E w \in Workers : /\ pc[w] = "failing" /\ pc'[w] = "reporting"
                                         /\ row[w].id = j /\ j \in ran
    OBVIOUS
  <2>1. ASSUME NEW w \in Workers, MarkFailed(w)
        PROVE  pc[w] = "failing" /\ pc'[w] = "reporting" /\ row[w].id = j /\ j \in ran
    BY <1>1, <2>1, HoldsRow DEF TypeOK, MarkFailed, RunInv, SucceededHasRun
  <2>2. ASSUME NEW a \in Admins, NEW k \in Jobs, RetryWrite(a, k) PROVE FALSE
    BY <1>1, <2>2 DEF TypeOK, RetryWrite
  <2>3. ASSUME NEW a \in Admins, NEW k \in Jobs, CancelWrite(a, k) PROVE FALSE
    BY <1>1, <2>3 DEF TypeOK, CancelWrite
  <2>4. ASSUME NEW w \in Workers, NEW k \in Jobs, ClaimNext(w, k) PROVE FALSE
    BY <1>1, <2>4 DEF TypeOK, ClaimNext, Claimable
  <2>5. ASSUME NEW w \in Workers, RecoverStale(w) PROVE FALSE
    BY <1>1, <2>5 DEF TypeOK, RecoverStale, Stale
  <2>6. ASSUME NEW k \in Jobs, NEW delay \in Delays, Enqueue(k, delay) PROVE FALSE
    BY <1>1, <2>6 DEF TypeOK, Enqueue
  <2>7. ASSUME NEW w \in Workers, MarkSucceeded(w) PROVE FALSE
    BY <1>1, <2>7, HoldsRow DEF TypeOK, MarkSucceeded
  <2>8. QED
    BY <1>1, <2>1, <2>2, <2>3, <2>4, <2>5, <2>6, <2>7
    DEF Next, Worker, Admin, vars, table, HandlerReturns, AttemptThrows, FinishJob, Crash,
        Restart, RetryRead, CancelRead, Tick
<1>2. QED
  BY <1>1, TypeCorrect, RunCorrect, PTL DEF Spec, SuccessIsFinal
-----------------------------------------------------------------------------
(* Only recoverStale kills a job, and it looks at the budget.               *)
THEOREM DeadCorrect == Spec => []DeadIsExhausted
<1>1. Init => DeadIsExhausted
  BY DEF Init, DeadIsExhausted
<1>2. ASSUME TypeOK, DeadIsExhausted, [Next]_vars PROVE DeadIsExhausted'
  <2> USE <1>2 DEF DeadIsExhausted
  <2>1. ASSUME NEW w \in Workers, NEW j \in Jobs, ClaimNext(w, j) PROVE DeadIsExhausted'
    BY <2>1 DEF TypeOK, ClaimNext
  <2>2. ASSUME NEW w \in Workers, MarkFailed(w) PROVE DeadIsExhausted'
    BY <2>2, HoldsRow DEF TypeOK, MarkFailed
  <2>3. ASSUME NEW w \in Workers, RecoverStale(w) PROVE DeadIsExhausted'
    BY <2>3 DEF TypeOK, RecoverStale, OutOfAttempts
  <2>4. ASSUME NEW w \in Workers, MarkSucceeded(w) PROVE DeadIsExhausted'
    BY <2>4 DEF TypeOK, MarkSucceeded
  <2>5. ASSUME NEW j \in Jobs, NEW delay \in Delays, Enqueue(j, delay) PROVE DeadIsExhausted'
    BY <2>5 DEF TypeOK, Enqueue
  <2>6. ASSUME NEW a \in Admins, NEW j \in Jobs, RetryWrite(a, j) \/ CancelWrite(a, j)
        PROVE DeadIsExhausted'
    BY <2>6 DEF TypeOK, RetryWrite, CancelWrite
  <2>7. ASSUME UNCHANGED <<status, attempts>> PROVE DeadIsExhausted'
    BY <2>7
  <2>8. QED
    BY <2>1, <2>2, <2>3, <2>4, <2>5, <2>6, <2>7
    DEF Next, Worker, Admin, vars, table, HandlerReturns, AttemptThrows, FinishJob, Crash,
        Restart, RetryRead, CancelRead, Tick
<1>3. QED
  BY <1>1, <1>2, TypeCorrect, PTL DEF Spec
-----------------------------------------------------------------------------
(* Workers and administrators are at jobs that were enqueued.               *)
HeldIsEnqueued ==
  /\ \A w \in Workers : row[w] # NoRow => status[row[w].id] # "absent"
  /\ \A a \in Admins : request[a] # NoRequest => status[request[a].id] # "absent"

(* The row of a job is never deleted.                                       *)
LEMMA StaysEnqueued ==
  ASSUME TypeOK, [Next]_vars, NEW j \in Jobs, status[j] # "absent"
  PROVE  status'[j] # "absent"
<1>1. ASSUME NEW w \in Workers, MarkSucceeded(w) \/ MarkFailed(w) \/ RecoverStale(w)
      PROVE  status'[j] # "absent"
  BY <1>1 DEF TypeOK, MarkSucceeded, MarkFailed, RecoverStale
<1>2. ASSUME NEW w \in Workers, NEW k \in Jobs, ClaimNext(w, k) PROVE status'[j] # "absent"
  BY <1>2 DEF TypeOK, ClaimNext
<1>3. ASSUME NEW k \in Jobs, NEW delay \in Delays, Enqueue(k, delay) PROVE status'[j] # "absent"
  BY <1>3 DEF TypeOK, Enqueue
<1>4. ASSUME NEW a \in Admins, NEW k \in Jobs, RetryWrite(a, k) \/ CancelWrite(a, k)
      PROVE  status'[j] # "absent"
  BY <1>4 DEF TypeOK, RetryWrite, CancelWrite
<1>5. QED
  BY <1>1, <1>2, <1>3, <1>4
  DEF Next, Worker, Admin, Tick, HandlerReturns, AttemptThrows, FinishJob, Crash, Restart,
      RetryRead, CancelRead, table, vars

(* A worker or an administrator holds a row only of a job that was          *)
(* enqueued, and rows are never deleted.                                    *)
LEMMA NextEnqueued == TypeOK /\ HeldIsEnqueued /\ [Next]_vars => HeldIsEnqueued'
<1> SUFFICES ASSUME TypeOK, HeldIsEnqueued, [Next]_vars PROVE HeldIsEnqueued'
  OBVIOUS
<1>1. /\ \A w \in Workers : row[w] # NoRow => row[w].id \in Jobs
      /\ \A a \in Admins : request[a] # NoRequest => request[a].id \in Jobs
  BY RowShape DEF TypeOK, Requests
<1>2. ASSUME NEW v \in Workers, row'[v] # NoRow
      PROVE  row'[v] = row[v] \/ (row'[v].id \in Jobs /\ status[row'[v].id] # "absent")
  <2> DEFINE goal == row'[v] = row[v] \/ (row'[v].id \in Jobs /\ status[row'[v].id] # "absent")
  <2>1. ASSUME NEW w \in Workers, NEW j \in Jobs, ClaimNext(w, j) PROVE goal
    BY <2>1 DEF TypeOK, ClaimNext, Claimable
  <2>2. ASSUME NEW w \in Workers, FinishJob(w) \/ Crash(w) PROVE goal
    BY <1>2, <2>2 DEF TypeOK, FinishJob, Crash
  <2>3. QED
    BY <2>1, <2>2
    DEF Next, Worker, Admin, Enqueue, Tick, HandlerReturns, AttemptThrows, MarkSucceeded,
        MarkFailed, RecoverStale, Restart, RetryRead, RetryWrite, CancelRead, CancelWrite,
        table, vars
<1>3. ASSUME NEW b \in Admins, request'[b] # NoRequest
      PROVE  request'[b] = request[b] \/ (request'[b].id \in Jobs /\ status[request'[b].id] # "absent")
  <2> DEFINE goal == request'[b] = request[b]
                       \/ (request'[b].id \in Jobs /\ status[request'[b].id] # "absent")
  <2>1. ASSUME NEW a \in Admins, NEW j \in Jobs, RetryRead(a, j) \/ CancelRead(a, j) PROVE goal
    BY <2>1 DEF TypeOK, RetryRead, CancelRead
  <2>2. ASSUME NEW a \in Admins, NEW j \in Jobs, RetryWrite(a, j) \/ CancelWrite(a, j) PROVE goal
    BY <1>3, <2>2 DEF TypeOK, RetryWrite, CancelWrite
  <2>3. QED
    BY <2>1, <2>2
    DEF Next, Worker, Admin, Enqueue, Tick, ClaimNext, HandlerReturns, AttemptThrows,
        MarkSucceeded, FinishJob, MarkFailed, RecoverStale, Crash, Restart, table, vars
<1>4. QED
  BY <1>1, <1>2, <1>3, StaysEnqueued DEF HeldIsEnqueued

(* The phase of every status.                                               *)
LEMMA Phases ==
  /\ PhaseOf("pending") = "open" /\ PhaseOf("running") = "open"
  /\ \A s \in Statuses : s \notin {"pending", "running"} => PhaseOf(s) = s
  /\ \A s \in Statuses : PhaseOf(s) = "absent" => s = "absent"
  BY DEF PhaseOf, Statuses

(* What the steps of the abstract specification rest on.                    *)
RefInv == TypeOK /\ IInv /\ RunInv /\ HeldIsEnqueued

(* A step of the queue is a step of the abstract execution, or none.        *)
LEMMA NextRefines == RefInv /\ [Next]_vars => [Execution!Next]_(Execution!vars)
<1> SUFFICES ASSUME RefInv, [Next]_vars PROVE [Execution!Next]_(Execution!vars)
  OBVIOUS
<1> USE Phases
<1> DEFINE phase == [j \in Jobs |-> PhaseOf(status[j])]
<1>t. TypeOK /\ IInv /\ RunInv /\ HeldIsEnqueued /\ status \in [Jobs -> Statuses]
  BY DEF RefInv, TypeOK
<1>e. ASSUME NEW w \in Workers, NEW j \in Jobs, InFlight(w, j), pc[w] \in {"executing", "returned"}
      PROVE  Execution!Executing(j)
  <2>1. status[j] # "absent"
    BY <1>e, <1>t, HoldsRow DEF HeldIsEnqueued, InFlight, TypeOK
  <2>2. j \notin disturbed => status[j] = "running"
    BY <1>e, <1>t DEF IInv, AttendedByHolder
  <2>3. QED
    BY <1>t, <2>1, <2>2 DEF Execution!Executing
<1>1. ASSUME NEW j \in Jobs, NEW delay \in Delays, Enqueue(j, delay) PROVE Execution!Accept(j)
  BY <1>1, <1>t DEF Enqueue, Execution!Accept, Execution!Become
<1>2. ASSUME NEW w \in Workers, NEW j \in Jobs, ClaimNext(w, j)
      PROVE  UNCHANGED Execution!vars
  <2>1. status[j] = "pending" /\ status' = [status EXCEPT ![j] = "running"] /\ UNCHANGED <<ran, disturbed>>
    BY <1>2 DEF ClaimNext, Claimable
  <2>2. \A k \in Jobs : PhaseOf(status'[k]) = PhaseOf(status[k])
    BY <1>t, <2>1
  <2>3. QED
    BY <2>1, <2>2 DEF Execution!vars
<1>3. ASSUME NEW w \in Workers, HandlerReturns(w)
      PROVE  \E j \in Jobs : Execution!Return(j)
  <2>1. row[w].id \in Jobs /\ InFlight(w, row[w].id)
    BY <1>3, <1>t, HoldsRow DEF HandlerReturns, InFlight
  <2>2. Execution!Executing(row[w].id)
    BY <1>3, <1>e, <2>1 DEF HandlerReturns
  <2>3. Execution!Return(row[w].id)
    BY <1>3, <2>2 DEF HandlerReturns, Execution!Return, table
  <2>4. QED
    BY <2>1, <2>3
<1>4. ASSUME NEW w \in Workers, MarkSucceeded(w)
      PROVE  (\E j \in Jobs : Execution!Succeed(j)) \/ UNCHANGED Execution!vars
  <2> DEFINE j == row[w].id
  <2>1. j \in Jobs /\ InFlight(w, j) /\ pc[w] = "returned" /\ UNCHANGED <<ran, disturbed>>
    BY <1>4, <1>t, HoldsRow DEF MarkSucceeded, InFlight
  <2>2. j \in ran \union disturbed
    BY <1>t, <2>1 DEF RunInv, ReturnedHasRun
  <2>3. CASE status[j] = "running"
    <3>1. status' = [status EXCEPT ![j] = "succeeded"]
      BY <1>4, <2>3 DEF MarkSucceeded
    <3>2. Execution!Succeed(j)
      BY <1>t, <2>1, <2>2, <2>3, <3>1 DEF Execution!Succeed, Execution!Become, Statuses
    <3>3. QED
      BY <2>1, <3>2
  <2>4. CASE status[j] # "running"
    BY <1>4, <2>1, <2>4 DEF MarkSucceeded, Execution!vars
  <2>5. QED
    BY <2>3, <2>4
<1>5. ASSUME NEW w \in Workers, MarkFailed(w) PROVE \E j \in Jobs : Execution!Fail(j)
  <2> DEFINE j == row[w].id
  <2>1. /\ j \in Jobs /\ InFlight(w, j) /\ pc[w] = "failing" /\ row[w] # NoRow
        /\ status' = [status EXCEPT ![j] = "pending"] /\ UNCHANGED <<ran, disturbed>>
    BY <1>5, <1>t, HoldsRow DEF MarkFailed, InFlight, TypeOK
  <2>2. status[j] # "absent"
    BY <1>t, <2>1 DEF HeldIsEnqueued
  <2>3. j \notin disturbed => status[j] \in {"running", "succeeded"}
    BY <1>t, <2>1 DEF IInv, AttendedByHolder
  <2>4. j \notin disturbed /\ status[j] = "succeeded" => j \in ran
    BY <1>t, <2>1 DEF RunInv, SucceededHasRun
  <2>5. Execution!Executing(j) \/ (phase[j] = "succeeded" /\ j \in ran)
    BY <1>t, <2>1, <2>2, <2>3, <2>4 DEF Execution!Executing
  <2>6. phase' = [phase EXCEPT ![j] = "open"]
    BY <1>t, <2>1
  <2> HIDE DEF j
  <2>7. Execution!Fail(j)
    BY <2>1, <2>5, <2>6 DEF Execution!Fail, Execution!Become
  <2>8. QED
    BY <2>1, <2>7
<1>6. ASSUME NEW w \in Workers, RecoverStale(w)
      PROVE  \E expired, lost \in SUBSET Jobs : Execution!Expire(expired, lost)
  <2> DEFINE expired == {j \in Jobs : Stale(j) /\ \E v \in Workers : InFlight(v, j)}
             lost == {j \in Jobs : Stale(j) /\ OutOfAttempts(j)}
  <2>1. /\ disturbed' = disturbed \union expired /\ ran' = ran
        /\ status' = [j \in Jobs |-> IF ~Stale(j) THEN status[j]
                                     ELSE IF OutOfAttempts(j) THEN "dead" ELSE "pending"]
    BY <1>6 DEF RecoverStale
  <2>2. \A j \in Jobs : Stale(j) => status[j] = "running"
    BY DEF Stale
  <2>3. ASSUME NEW j \in Jobs
        PROVE  PhaseOf(status'[j]) = IF j \in lost THEN "dead" ELSE PhaseOf(status[j])
    <3>1. CASE ~Stale(j)
      BY <2>1, <3>1
    <3>2. CASE Stale(j) /\ OutOfAttempts(j)
      BY <2>1, <3>2 DEF Statuses
    <3>3. CASE Stale(j) /\ ~OutOfAttempts(j)
      BY <2>1, <2>2, <3>3
    <3>4. QED
      BY <3>1, <3>2, <3>3
  <2>4. \A j \in expired \union lost : phase[j] = "open"
    BY <2>2
  <2>5. expired \in SUBSET Jobs /\ lost \in SUBSET Jobs
    OBVIOUS
  <2> HIDE DEF expired, lost
  <2>6. phase' = [j \in Jobs |-> IF j \in lost THEN "dead" ELSE phase[j]]
    BY <2>3
  <2>7. Execution!Expire(expired, lost)
    BY <2>1, <2>4, <2>6 DEF Execution!Expire
  <2>8. QED
    BY <2>5, <2>7
<1>7. ASSUME NEW a \in Admins, NEW j \in Jobs, RetryWrite(a, j) PROVE Execution!Retry(j)
  <2>1. /\ status' = [status EXCEPT ![j] = "pending"] /\ ran' = ran \ {j}
        /\ disturbed' = IF status[j] \in {"dead", "cancelled"}
                          THEN disturbed ELSE disturbed \union {j}
    BY <1>7 DEF RetryWrite
  <2>2. status[j] # "absent"
    BY <1>7, <1>t, NullsAssumption DEF RetryWrite, HeldIsEnqueued, Requests
  <2>3. phase[j] \in {"dead", "cancelled"} <=> status[j] \in {"dead", "cancelled"}
    BY <1>t DEF Statuses, PhaseOf
  <2>4. phase[j] # "absent" /\ phase' = [phase EXCEPT ![j] = "open"]
    BY <1>t, <2>1, <2>2
  <2>5. QED
    BY <2>1, <2>3, <2>4 DEF Execution!Retry, Execution!Become
<1>8. ASSUME NEW a \in Admins, NEW j \in Jobs, CancelWrite(a, j)
      PROVE  Execution!Cancel(j) \/ UNCHANGED Execution!vars
  <2>1. CASE status[j] = "pending"
    <3>1. status' = [status EXCEPT ![j] = "cancelled"] /\ UNCHANGED <<ran, disturbed>>
      BY <1>8, <2>1 DEF CancelWrite
    <3>2. PhaseOf("cancelled") = "cancelled" /\ phase[j] = "open"
      BY <2>1 DEF Statuses
    <3>3. phase' = [phase EXCEPT ![j] = "cancelled"]
      BY <1>t, <3>1, <3>2
    <3>4. QED
      BY <3>1, <3>2, <3>3 DEF Execution!Cancel, Execution!Become
  <2>2. CASE status[j] # "pending"
    BY <1>8, <2>2 DEF CancelWrite, Execution!vars
  <2>3. QED
    BY <2>1, <2>2
<1>9. ASSUME UNCHANGED <<status, ran, disturbed>> PROVE UNCHANGED Execution!vars
  BY <1>9 DEF Execution!vars
<1>10. QED
  BY <1>1, <1>2, <1>3, <1>4, <1>5, <1>6, <1>7, <1>8, <1>9
  DEF Next, Worker, Admin, Tick, AttemptThrows, FinishJob, Crash, Restart, RetryRead,
      CancelRead, table, vars, Execution!Next

(* The queue executes jobs at least once, whatever its workers, expired     *)
(* locks, retries and cancellations do.                                     *)
THEOREM Refinement == Spec => ExecutionSpec
<1>1. Init => Execution!Init
  BY Phases DEF Init, Execution!Init, Statuses
<1>2. Init => HeldIsEnqueued
  BY DEF Init, HeldIsEnqueued
<1>3. Spec => []HeldIsEnqueued
  BY <1>2, NextEnqueued, TypeCorrect, PTL DEF Spec
<1>4. TypeOK /\ IInv /\ RunInv /\ HeldIsEnqueued => RefInv
  BY DEF RefInv
<1>5. QED
  BY <1>1, <1>3, <1>4, NextRefines, TypeCorrect, AttendedCorrect, RunCorrect, PTL
  DEF Spec, ExecutionSpec, Execution!Spec
=============================================================================
