------------------------------ MODULE JobQueue ------------------------------
(***************************************************************************)
(* The persistent job queue (table job_runs) of the jobs package, the      *)
(* worker processes that drain it and the administrators who retry and     *)
(* cancel jobs.  One atomic action is one SQL statement or one return of a *)
(* job handler: what a process read before an await may be stale when it   *)
(* writes.                                                                 *)
(***************************************************************************)
EXTENDS Backoff

CONSTANTS
  Jobs,          (* the jobs that may be enqueued                           *)
  Workers,       (* worker slots: one process at a time, each with a new id *)
  Admins,        (* administrator requests in flight at the same time       *)
  NoWorker,      (* locked_by IS NULL                                       *)
  NoRow,         (* a worker that has claimed nothing                       *)
  NoRequest,     (* an administrator slot without a request                 *)
  Priority,      (* priority of each job, the smallest is claimed first     *)
  MaxAttempts,   (* max_attempts of each job                                *)
  Delays         (* available_at - now() of an enqueued job, in ticks       *)

ASSUME ConstantsAssumption ==
  /\ Priority \in [Jobs -> Nat]
  /\ MaxAttempts \in [Jobs -> 1..(AttemptCap - 1)]
  /\ Delays \subseteq 0..Horizon

VARIABLES
  status,     (* job_runs.status, "absent" before the row exists            *)
  attempts,   (* job_runs.attempts                                          *)
  lockedBy,   (* job_runs.locked_by                                         *)
  lockAge,    (* ticks since locked_at, saturating at StaleAfter            *)
  dueIn,      (* ticks until available_at, 0 once it has passed             *)
  pc,         (* where each worker stands in processJob                     *)
  row,        (* the row claimNext returned to each worker                  *)
  request,    (* the retry or cancel each administrator is executing        *)
  ran,        (* history: jobs whose handler returned since they were queued*)
  disturbed   (* history: jobs requeued while a process was still at them   *)

table == <<status, attempts, lockedBy, lockAge, dueIn>>
vars == <<status, attempts, lockedBy, lockAge, dueIn, pc, row, request, ran, disturbed>>

Statuses == {"absent", "pending", "running", "succeeded", "dead", "cancelled"}
WorkerStates == {"idle", "executing", "returned", "auditing", "failing", "reporting", "down"}

(* claimNext returns the row as the database names its columns (RETURNING  *)
(* job.*, executed as raw SQL): there is a max_attempts and no maxAttempts.*)
Rows == [id : Jobs, attempts : 0..AttemptCap, max_attempts : 1..AttemptCap]
Requests == [op : {"retry", "cancel"}, id : Jobs]

(* The nulls are not values. *)
ASSUME NullsAssumption ==
  /\ NoWorker \notin Workers
  /\ NoRow \notin Rows
  /\ NoRequest \notin Requests

(* The worker is between claiming j and reporting how the attempt ended.   *)
InFlight(w, j) ==
  /\ pc[w] \in {"executing", "returned", "auditing", "failing"}
  /\ row[w].id = j

Init ==
  /\ status = [j \in Jobs |-> "absent"]
  /\ attempts = [j \in Jobs |-> 0]
  /\ lockedBy = [j \in Jobs |-> NoWorker]
  /\ lockAge = [j \in Jobs |-> 0]
  /\ dueIn = [j \in Jobs |-> 0]
  /\ pc = [w \in Workers |-> "idle"]
  /\ row = [w \in Workers |-> NoRow]
  /\ request = [a \in Admins |-> NoRequest]
  /\ ran = {}
  /\ disturbed = {}
-----------------------------------------------------------------------------
(* A caller enqueues j.  Enqueueing a dedupe key that exists returns the   *)
(* existing row and changes nothing, whatever that row's status.           *)
Enqueue(j, delay) ==
  /\ status[j] = "absent"
  /\ status' = [status EXCEPT ![j] = "pending"]
  /\ dueIn' = [dueIn EXCEPT ![j] = delay]
  /\ UNCHANGED <<attempts, lockedBy, lockAge, pc, row, request, ran, disturbed>>

(* Mutant: the claim's WHERE forgets the status. *)
ClaimableByDateOnly(j) == status[j] \in {"pending", "running"} /\ dueIn[j] = 0

(* Mutant: the claim's WHERE leaves out jobs without attempts left. *)
ClaimableWithBudget(j) ==
  status[j] = "pending" /\ dueIn[j] = 0 /\ attempts[j] < MaxAttempts[j]

Claimable(j) == status[j] = "pending" /\ dueIn[j] = 0

(* One job that is due, of the best priority.  Among equals the code takes *)
(* the oldest available_at; the model leaves that choice open.             *)
ClaimNext(w, j) ==
  /\ pc[w] = "idle"
  /\ Claimable(j)
  /\ \A other \in Jobs : Claimable(other) => Priority[j] <= Priority[other]
  /\ LET n == Least(AttemptCap, attempts[j] + 1) IN
       /\ attempts' = [attempts EXCEPT ![j] = n]
       /\ row' = [row EXCEPT ![w] = [id |-> j, attempts |-> n,
                                     max_attempts |-> MaxAttempts[j]]]
  /\ status' = [status EXCEPT ![j] = "running"]
  /\ lockedBy' = [lockedBy EXCEPT ![j] = w]
  /\ lockAge' = [lockAge EXCEPT ![j] = 0]
  /\ pc' = [pc EXCEPT ![w] = "executing"]
  /\ UNCHANGED <<dueIn, request, ran, disturbed>>

(* The handler's promise resolves: its effects are done. *)
HandlerReturns(w) ==
  /\ pc[w] = "executing"
  /\ pc' = [pc EXCEPT ![w] = "returned"]
  /\ ran' = ran \union {row[w].id}
  /\ UNCHANGED <<table, row, request, disturbed>>

(* The try block of processJob throws: in the handler (which the 60 s abort*)
(* signal may also interrupt), in markSucceeded or in the audit that       *)
(* follows it.  All three lead to the same catch.                          *)
AttemptThrows(w) ==
  /\ pc[w] \in {"executing", "returned", "auditing"}
  /\ pc' = [pc EXCEPT ![w] = "failing"]
  /\ UNCHANGED <<table, row, request, ran, disturbed>>

(* locked_at = NULL, locked_by = NULL *)
Unlock(j) ==
  /\ lockedBy' = [lockedBy EXCEPT ![j] = NoWorker]
  /\ lockAge' = [lockAge EXCEPT ![j] = 0]

(* Mutant: markSucceeded leaves the lock columns. *)
MarkSucceededKeepsLock(w) ==
  LET j == row[w].id IN
  /\ pc[w] = "returned"
  /\ status' = IF status[j] = "running" THEN [status EXCEPT ![j] = "succeeded"] ELSE status
  /\ pc' = [pc EXCEPT ![w] = "auditing"]
  /\ UNCHANGED <<attempts, lockedBy, lockAge, dueIn, row, request, ran, disturbed>>

(* Mutant: the success is recorded before the handler is awaited. *)
MarkSucceededEarly(w) ==
  LET j == row[w].id IN
  /\ pc[w] \in {"executing", "returned"}
  /\ IF status[j] = "running"
       THEN status' = [status EXCEPT ![j] = "succeeded"] /\ Unlock(j)
       ELSE UNCHANGED <<status, lockedBy, lockAge>>
  /\ pc' = [pc EXCEPT ![w] = "auditing"]
  /\ UNCHANGED <<attempts, dueIn, row, request, ran, disturbed>>

(* Guarded by the status but not by locked_by: a worker that lost its lock *)
(* completes the job for whoever runs it now.                              *)
MarkSucceeded(w) ==
  LET j == row[w].id IN
  /\ pc[w] = "returned"
  /\ IF status[j] = "running"
       THEN status' = [status EXCEPT ![j] = "succeeded"] /\ Unlock(j)
       ELSE UNCHANGED <<status, lockedBy, lockAge>>
  /\ pc' = [pc EXCEPT ![w] = "auditing"]
  /\ UNCHANGED <<attempts, dueIn, row, request, ran, disturbed>>

(* The worker is done with its row: the audit of a success was written, or *)
(* the audit and the incident of a failure.                                *)
FinishJob(w) ==
  /\ pc[w] \in {"auditing", "reporting"}
  /\ pc' = [pc EXCEPT ![w] = "idle"]
  /\ row' = [row EXCEPT ![w] = NoRow]
  /\ UNCHANGED <<table, request, ran, disturbed>>

(* job.attempts >= job.maxAttempts, where a column the row does not have   *)
(* is undefined and compares as false.                                     *)
Exhausted(r) == "maxAttempts" \in DOMAIN r /\ r.attempts >= r.maxAttempts

(* Written by id alone: neither the status nor the lock is rechecked. *)
MarkFailed(w) ==
  LET r == row[w] IN
  /\ pc[w] = "failing"
  /\ IF Exhausted(r)
       THEN status' = [status EXCEPT ![r.id] = "dead"] /\ UNCHANGED dueIn
       ELSE /\ status' = [status EXCEPT ![r.id] = "pending"]
            /\ dueIn' = [dueIn EXCEPT ![r.id] = ComputeBackoff(r.attempts)]
  /\ Unlock(r.id)
  /\ pc' = [pc EXCEPT ![w] = "reporting"]
  /\ UNCHANGED <<attempts, row, request, ran, disturbed>>

(* The process dies, is stopped, or an error escapes the catch of          *)
(* processJob and ends its loop.  The row it holds stays as it is.         *)
Crash(w) ==
  /\ pc[w] # "down"
  /\ pc' = [pc EXCEPT ![w] = "down"]
  /\ row' = [row EXCEPT ![w] = NoRow]
  /\ UNCHANGED <<table, request, ran, disturbed>>

Restart(w) ==
  /\ pc[w] = "down"
  /\ pc' = [pc EXCEPT ![w] = "idle"]
  /\ UNCHANGED <<table, row, request, ran, disturbed>>

Stale(j) == status[j] = "running" /\ lockAge[j] >= StaleAfter

(* Mutant: the job dies with one attempt left. *)
OutOfAttemptsEarly(j) == attempts[j] + 1 >= MaxAttempts[j]

(* The CASE of recoverStale, on the columns themselves. *)
OutOfAttempts(j) == attempts[j] >= MaxAttempts[j]

(* Mutant: only jobs with attempts left are recovered. *)
RecoverStaleWithBudget(w) ==
  /\ pc[w] = "idle"
  /\ \E j \in Jobs : Stale(j) /\ ~OutOfAttempts(j)
  /\ status' = [j \in Jobs |-> IF Stale(j) /\ ~OutOfAttempts(j) THEN "pending" ELSE status[j]]
  /\ lockedBy' = [j \in Jobs |-> IF Stale(j) /\ ~OutOfAttempts(j) THEN NoWorker ELSE lockedBy[j]]
  /\ lockAge' = [j \in Jobs |-> IF Stale(j) /\ ~OutOfAttempts(j) THEN 0 ELSE lockAge[j]]
  /\ UNCHANGED <<attempts, dueIn, pc, row, request, ran, disturbed>>

(* Every job locked for too long, in one statement.  Nothing tells whether *)
(* the process that locked it is dead or slow.                             *)
RecoverStale(w) ==
  /\ pc[w] = "idle"
  /\ \E j \in Jobs : Stale(j)
  /\ status' = [j \in Jobs |-> IF ~Stale(j) THEN status[j]
                               ELSE IF OutOfAttempts(j) THEN "dead" ELSE "pending"]
  /\ lockedBy' = [j \in Jobs |-> IF Stale(j) THEN NoWorker ELSE lockedBy[j]]
  /\ lockAge' = [j \in Jobs |-> IF Stale(j) THEN 0 ELSE lockAge[j]]
  /\ dueIn' = [j \in Jobs |-> IF Stale(j) THEN 0 ELSE dueIn[j]]
  /\ disturbed' = disturbed \union
                    {j \in Jobs : Stale(j) /\ \E v \in Workers : InFlight(v, j)}
  /\ UNCHANGED <<attempts, pc, row, request, ran>>
-----------------------------------------------------------------------------
(* An administrator's request reads the job and refuses the wrong status;  *)
(* its UPDATE is a second statement.                                       *)
RetryRead(a, j) ==
  /\ request[a] = NoRequest
  /\ status[j] \in {"dead", "cancelled"}
  /\ request' = [request EXCEPT ![a] = [op |-> "retry", id |-> j]]
  /\ UNCHANGED <<table, pc, row, ran, disturbed>>

CancelRead(a, j) ==
  /\ request[a] = NoRequest
  /\ status[j] = "pending"
  /\ request' = [request EXCEPT ![a] = [op |-> "cancel", id |-> j]]
  /\ UNCHANGED <<table, pc, row, ran, disturbed>>

(* retry writes by id alone. *)
RetryWrite(a, j) ==
  /\ request[a] = [op |-> "retry", id |-> j]
  /\ status' = [status EXCEPT ![j] = "pending"]
  /\ attempts' = [attempts EXCEPT ![j] = 0]
  /\ dueIn' = [dueIn EXCEPT ![j] = 0]
  /\ Unlock(j)
  /\ request' = [request EXCEPT ![a] = NoRequest]
  /\ ran' = ran \ {j}
  /\ disturbed' = IF status[j] \in {"dead", "cancelled"}
                    THEN disturbed ELSE disturbed \union {j}
  /\ UNCHANGED <<pc, row>>

(* Mutant: cancel writes by id alone, like retry. *)
CancelWriteById(a, j) ==
  /\ request[a] = [op |-> "cancel", id |-> j]
  /\ status' = [status EXCEPT ![j] = "cancelled"]
  /\ Unlock(j)
  /\ request' = [request EXCEPT ![a] = NoRequest]
  /\ UNCHANGED <<attempts, dueIn, pc, row, ran, disturbed>>

(* cancel rechecks the status in its WHERE. *)
CancelWrite(a, j) ==
  /\ request[a] = [op |-> "cancel", id |-> j]
  /\ status' = IF status[j] = "pending" THEN [status EXCEPT ![j] = "cancelled"] ELSE status
  /\ request' = [request EXCEPT ![a] = NoRequest]
  /\ UNCHANGED <<attempts, lockedBy, lockAge, dueIn, pc, row, ran, disturbed>>

(* Time passes for the whole table at once. *)
Tick ==
  /\ \E j \in Jobs : dueIn[j] > 0 \/ (status[j] = "running" /\ lockAge[j] < StaleAfter)
  /\ dueIn' = [j \in Jobs |-> Greatest(0, dueIn[j] - 1)]
  /\ lockAge' = [j \in Jobs |-> IF status[j] = "running"
                                  THEN Least(StaleAfter, lockAge[j] + 1) ELSE lockAge[j]]
  /\ UNCHANGED <<status, attempts, lockedBy, pc, row, request, ran, disturbed>>

Worker(w) ==
  \/ \E j \in Jobs : ClaimNext(w, j)
  \/ HandlerReturns(w)
  \/ AttemptThrows(w)
  \/ MarkSucceeded(w)
  \/ FinishJob(w)
  \/ MarkFailed(w)
  \/ RecoverStale(w)
  \/ Crash(w)
  \/ Restart(w)

Admin(a) ==
  \E j \in Jobs : RetryRead(a, j) \/ RetryWrite(a, j) \/ CancelRead(a, j) \/ CancelWrite(a, j)

Next ==
  \/ \E j \in Jobs, delay \in Delays : Enqueue(j, delay)
  \/ \E w \in Workers : Worker(w)
  \/ \E a \in Admins : Admin(a)
  \/ Tick

Spec == Init /\ [][Next]_vars

(* A process that is up goes on with the row it holds, handlers settle and *)
(* the process manager restarts what died.  A worker that is killed again  *)
(* and again still gets to recover and to claim now and then (strong       *)
(* fairness); a due job keeps its available_at, so that only finitely many *)
(* jobs of its priority can ever come before it.                           *)
Progress(w) ==
  HandlerReturns(w) \/ AttemptThrows(w) \/ MarkSucceeded(w)
    \/ FinishJob(w) \/ MarkFailed(w) \/ Restart(w)

Fairness ==
  /\ WF_vars(Tick)
  /\ \A w \in Workers : WF_vars(Progress(w))
  /\ SF_vars(\E w \in Workers : RecoverStale(w))
  /\ \A j \in Jobs : SF_vars(\E w \in Workers : ClaimNext(w, j))

FairSpec == Spec /\ Fairness
-----------------------------------------------------------------------------
(* Every variable has its type; the columns obey the table's constraints. *)
TypeOK ==
  /\ status \in [Jobs -> Statuses]
  /\ attempts \in [Jobs -> 0..AttemptCap]
  /\ lockedBy \in [Jobs -> Workers \union {NoWorker}]
  /\ lockAge \in [Jobs -> 0..StaleAfter]
  /\ dueIn \in [Jobs -> 0..Horizon]
  /\ pc \in [Workers -> WorkerStates]
  /\ row \in [Workers -> Rows \union {NoRow}]
  /\ \A w \in Workers : row[w] = NoRow <=> pc[w] \in {"idle", "down"}
  /\ request \in [Admins -> Requests \union {NoRequest}]
  /\ ran \subseteq Jobs
  /\ disturbed \subseteq Jobs

(* A job carries a lock exactly while it runs, whatever writes its row: a  *)
(* pending job with a leftover lock would confuse the operators, a running *)
(* one without would never be recovered.                                   *)
LockedIffRunning ==
  \A j \in Jobs : status[j] = "running" <=> lockedBy[j] # NoWorker

(* Two processes are at the same job only after a lock expired under the   *)
(* process that held it, or after a retry overwrote a job that was neither *)
(* dead nor cancelled.  Claims, failures, cancellations, crashes and       *)
(* restarts alone never lead there.                                        *)
ExclusiveUnlessDisturbed ==
  \A j \in Jobs \ disturbed : \A v, w \in Workers :
    InFlight(v, j) /\ InFlight(w, j) => v = w

(* A succeeded job has had its handler return since it was last queued,    *)
(* under the same proviso.                                                 *)
SucceededHasRun ==
  \A j \in Jobs \ disturbed : status[j] = "succeeded" => j \in ran

(* What the exclusion rests on: the job of an attempt in flight is running *)
(* under the lock of its worker, or is the success that worker recorded.   *)
AttendedByHolder ==
  \A j \in Jobs \ disturbed : \A w \in Workers : InFlight(w, j) =>
    \/ /\ pc[w] \in {"executing", "returned", "failing"}
       /\ status[j] = "running"
       /\ lockedBy[j] = w
    \/ pc[w] \in {"auditing", "failing"} /\ status[j] = "succeeded"

(* What a recorded success rests on: the attempt that is past its handler. *)
ReturnedHasRun ==
  \A j \in Jobs \ disturbed : \A w \in Workers :
    InFlight(w, j) /\ pc[w] \in {"returned", "auditing"} => j \in ran

(* A dead job has used its attempts. *)
DeadIsExhausted ==
  \A j \in Jobs : status[j] = "dead" => attempts[j] >= MaxAttempts[j]

(* A job that succeeded is queued again only by the process whose attempt  *)
(* failed after the success was recorded (its audit could not be written), *)
(* under the same proviso.                                                 *)
SuccessIsFinal ==
  [][\A j \in Jobs \ disturbed' :
       status[j] = "succeeded" /\ status'[j] # "succeeded" =>
         \E w \in Workers : /\ pc[w] = "failing" /\ pc'[w] = "reporting"
                            /\ row[w].id = j /\ j \in ran]_vars

(* The phase of a job in the eyes of those who enqueue it. *)
PhaseOf(s) == IF s \in {"pending", "running"} THEN "open" ELSE s

Execution == INSTANCE AtLeastOnceExecution WITH
  phase <- [j \in Jobs |-> PhaseOf(status[j])],
  done <- ran

(* Handlers return and jobs succeed only while they are open; dead and     *)
(* cancelled jobs stay so until they are retried, under the same proviso.  *)
ExecutionSpec == Execution!Spec

(* Docs (docs/jobs-notifications.md, line 11): a job that has used up its  *)
(* attempts becomes dead.  Here: when its last attempt fails.              *)
ExhaustedFailureDies ==
  [][\A w \in Workers :
       /\ pc[w] = "failing" /\ pc'[w] = "reporting"
       /\ row[w].attempts >= row[w].max_attempts
       => status'[row[w].id] = "dead"]_vars

(* A lock is always released in the end, also when its process died. *)
LockReleased ==
  \A j \in Jobs : status[j] = "running" ~> status[j] # "running"

(* A pending job is claimed or cancelled in the end, however often other   *)
(* jobs fail and come back, as long as none has a better priority.         *)
PendingIsTaken ==
  \A j \in Jobs : status[j] = "pending" ~> status[j] # "pending"
=============================================================================
