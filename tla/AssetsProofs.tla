---------------------------- MODULE AssetsProofs ----------------------------
(* Theorems about Assets, for any assets, requests, workers and fields.     *)
EXTENDS Assets, TLAPS

(* A request that is at an operation holds a call.                          *)
LEMMA AtShape ==
  ASSUME NEW c \in Callers, NEW op \in Ops, NEW a \in Assets, At(c, op, a)
  PROVE  call[c] # NoCall /\ call[c].op = op /\ call[c].asset = a /\ call[c] \in Calls
<1>1. [op |-> op, asset |-> a] \in Calls
  BY DEF Calls
<1>2. QED
  BY <1>1, NullsAssumption DEF At

(* What Begin and End leave in the request slots.                           *)
LEMMA BeginShape ==
  ASSUME NEW c \in Callers, NEW op \in Ops, NEW a \in Assets,
         call \in [Callers -> Calls \union {NoCall}], Begin(c, op, a)
  PROVE  /\ call' \in [Callers -> Calls \union {NoCall}]
         /\ call'[c] # NoCall /\ call'[c].op = op /\ call'[c].asset = a
         /\ \A d \in Callers \ {c} : call'[d] = call[d]
<1>1. [op |-> op, asset |-> a] \in Calls
  BY DEF Calls
<1>2. call' = [call EXCEPT ![c] = [op |-> op, asset |-> a]]
  BY DEF Begin
<1>3. QED
  BY <1>1, <1>2, NullsAssumption

(* A caller that ends holds no call; the other callers keep theirs.         *)
LEMMA EndShape ==
  ASSUME NEW c \in Callers, call \in [Callers -> Calls \union {NoCall}], End(c)
  PROVE  /\ call' \in [Callers -> Calls \union {NoCall}]
         /\ call'[c] = NoCall
         /\ \A d \in Callers \ {c} : call'[d] = call[d]
  BY DEF End

(* A request that moves on to its next statement.                           *)
LEMMA StepShape ==
  ASSUME NEW c \in Callers, NEW op \in Ops, NEW next \in Ops, NEW a \in Assets,
         call \in [Callers -> Calls \union {NoCall}], At(c, op, a),
         call' = [call EXCEPT ![c].op = next]
  PROVE  /\ call' \in [Callers -> Calls \union {NoCall}]
         /\ call'[c] # NoCall /\ call'[c].op = next /\ call'[c].asset = a
         /\ \A d \in Callers \ {c} : call'[d] = call[d]
<1>1. call[c] \in Calls /\ call[c].asset = a
  BY AtShape
<1>2. [call[c] EXCEPT !.op = next] \in Calls
  BY <1>1 DEF Calls
<1>3. [call[c] EXCEPT !.op = next].op = next /\ [call[c] EXCEPT !.op = next].asset = a
  BY <1>1 DEF Calls
<1>4. call'[c] = [call[c] EXCEPT !.op = next] /\ \A d \in Callers \ {c} : call'[d] = call[d]
  OBVIOUS
<1>5. call' \in [Callers -> Calls \union {NoCall}]
  BY <1>2
<1>6. QED
  BY <1>2, <1>3, <1>4, <1>5, NullsAssumption

(* The same for the workers.                                                *)
LEMMA StartShape ==
  ASSUME TypeOK, NEW w \in Workers, NEW k \in Kinds, NEW a \in Assets, NEW step \in Steps,
         Start(w, k, a, step)
  PROVE  /\ run' \in [Workers -> Runs \union {NoRun}]
         /\ run'[w] # NoRun /\ run'[w].kind = k /\ run'[w].asset = a
         /\ run'[w].step = step /\ run'[w].seen = status[a]
         /\ \A v \in Workers \ {w} : run'[v] = run[v]
<1> DEFINE r == [kind |-> k, asset |-> a, step |-> step, seen |-> status[a]]
<1>1. status[a] \in Statuses
  BY DEF TypeOK
<1>2. r \in Runs
  BY <1>1 DEF Runs
<1>3. run' = [run EXCEPT ![w] = r]
  BY DEF Start
<1>4. r.kind = k /\ r.asset = a /\ r.step = step /\ r.seen = status[a]
  OBVIOUS
<1> HIDE DEF r
<1>5. QED
  BY <1>2, <1>3, <1>4, NullsAssumption DEF TypeOK

(* A run that goes to a step keeps its kind, its asset and what it has      *)
(* read.                                                                    *)
LEMMA GotoShape ==
  ASSUME TypeOK, NEW w \in Workers, NEW step \in Steps, run[w] # NoRun, Goto(w, step)
  PROVE  /\ run' \in [Workers -> Runs \union {NoRun}]
         /\ run'[w] # NoRun /\ run'[w].kind = run[w].kind /\ run'[w].asset = run[w].asset
         /\ run'[w].step = step /\ run'[w].seen = run[w].seen
         /\ \A v \in Workers \ {w} : run'[v] = run[v]
<1> DEFINE r == [run[w] EXCEPT !.step = step]
<1>1. run[w] \in Runs
  BY DEF TypeOK
<1>2. r \in Runs
  BY <1>1 DEF Runs
<1>3. run' = [run EXCEPT ![w] = r]
  BY DEF Goto
<1>4. r.kind = run[w].kind /\ r.asset = run[w].asset /\ r.step = step /\ r.seen = run[w].seen
  BY <1>1 DEF Runs
<1> HIDE DEF r
<1>5. QED
  BY <1>2, <1>3, <1>4, NullsAssumption DEF TypeOK

(* The asset of a worker's job.                                             *)
LEMMA RunShape ==
  ASSUME TypeOK, NEW w \in Workers, run[w] # NoRun
  PROVE  run[w].asset \in Assets /\ run[w].kind \in Kinds /\ run[w].seen \in Statuses
  BY DEF TypeOK, Runs

(* Setting a status and queueing a job keep their types.                    *)
LEMMA SetType ==
  ASSUME TypeOK, NEW a \in Assets, NEW s \in Statuses, Set(a, s)
  PROVE  /\ status' \in [Assets -> Statuses]
         /\ status'[a] = s /\ \A b \in Assets \ {a} : status'[b] = status[b]
  BY DEF TypeOK, Set

(* Writing one job of one asset keeps the table of jobs typed.              *)
LEMMA JobType ==
  ASSUME TypeOK, NEW a \in Assets, NEW k \in Kinds, NEW s \in JobStates,
         job' = [job EXCEPT ![a][k] = s]
  PROVE  job' \in [Assets -> [Kinds -> JobStates]]
<1>1. job[a] \in [Kinds -> JobStates]
  BY DEF TypeOK
<1>2. [job[a] EXCEPT ![k] = s] \in [Kinds -> JobStates]
  BY <1>1
<1>3. QED
  BY <1>2 DEF TypeOK

(* An enqueue under its deduplication key keeps the table of jobs typed.    *)
LEMMA EnqueueType ==
  ASSUME TypeOK, NEW a \in Assets, NEW k \in Kinds, EnqueueOnce(a, k)
  PROVE  job' \in [Assets -> [Kinds -> JobStates]]
  BY JobType DEF EnqueueOnce, JobStates, TypeOK
-----------------------------------------------------------------------------
(* The initial state is typed.                                              *)
LEMMA InitTypeOK == Init => TypeOK
  BY DEF Init, TypeOK, Statuses, Kinds, JobStates

(* Every step keeps the types.                                              *)
LEMMA NextTypeOK == TypeOK /\ [Next]_vars => TypeOK'
<1> SUFFICES ASSUME TypeOK, [Next]_vars PROVE TypeOK'
  OBVIOUS
<1> USE DEF store, jobs, retries
<1>c. call \in [Callers -> Calls \union {NoCall}]
  BY DEF TypeOK
<1>s. Statuses = {"absent", "pending", "active", "archived", "deleting", "deleted", "failed"}
  BY DEF Statuses
<1>1. ASSUME NEW c \in Callers, NEW a \in Assets, CreateIntent(c, a) PROVE TypeOK'
  BY <1>1, <1>c, <1>s, BeginShape, SetType DEF TypeOK, CreateIntent, Ops
<1>2. ASSUME NEW c \in Callers, NEW a \in Assets, IssueToken(c, a) PROVE TypeOK'
  BY <1>2, <1>c, StepShape DEF TypeOK, IssueToken, Ops
<1>3. ASSUME NEW c \in Callers, NEW a \in Assets, FinishIntent(c, a) PROVE TypeOK'
  <2>1. job' \in [Assets -> [Kinds -> JobStates]]
    BY <1>3, EnqueueType DEF FinishIntent, Kinds
  <2>2. QED
    BY <1>3, <1>c, <2>1, EndShape DEF TypeOK, FinishIntent
<1>4. ASSUME NEW c \in Callers, NEW a \in Assets,
             FailIntent(c, a) \/ ConfirmMismatch(c, a) \/ ConfirmActivate(c, a) \/ SetArchived(c, a)
      PROVE  TypeOK'
  <2>1. status' \in [Assets -> Statuses]
    BY <1>4, <1>s, SetType DEF TypeOK, FailIntent, ConfirmMismatch, ConfirmActivate, SetArchived
  <2>2. call' \in [Callers -> Calls \union {NoCall}]
    BY <1>4, <1>c, EndShape DEF FailIntent, ConfirmMismatch, ConfirmActivate, SetArchived
  <2>3. QED
    BY <1>4, <2>1, <2>2 DEF TypeOK, FailIntent, ConfirmMismatch, ConfirmActivate, SetArchived
<1>5. ASSUME NEW c \in Callers, NEW a \in Assets,
             ConfirmRead(c, a) \/ ArchiveRead(c, a) \/ SaveRead(c, a)
      PROVE  TypeOK'
  <2>1. \E op \in Ops : Begin(c, op, a)
    BY <1>5 DEF ConfirmRead, ArchiveRead, SaveRead, Ops
  <2>2. call' \in [Callers -> Calls \union {NoCall}]
    BY <2>1, <1>c, BeginShape
  <2>3. QED
    BY <1>5, <2>2 DEF TypeOK, ConfirmRead, ArchiveRead, SaveRead
<1>6. ASSUME NEW c \in Callers, NEW a \in Assets, ConfirmStat(c, a) PROVE TypeOK'
  <2>1. call' \in [Callers -> Calls \union {NoCall}]
    BY <1>6, <1>c, StepShape DEF ConfirmStat, Ops
  <2>2. QED
    BY <1>6, <2>1 DEF TypeOK, ConfirmStat
<1>7. ASSUME NEW c \in Callers, NEW a \in Assets, NEW f \in Fields, ReplaceReferences(c, a, f)
      PROVE  TypeOK'
  <2>1. [asset |-> a, locked |-> FALSE] \in References
    BY DEF References
  <2>2. QED
    BY <1>7, <1>c, <2>1, EndShape DEF TypeOK, ReplaceReferences
<1>8. ASSUME NEW c \in Callers, Abort(c) PROVE TypeOK'
  BY <1>8, <1>c, EndShape DEF TypeOK, Abort
<1>9. ASSUME NEW a \in Assets, NEW size \in {"good", "bad"}, Upload(a, size) PROVE TypeOK'
  BY <1>9 DEF TypeOK, Upload
<1>10. ASSUME NEW a \in Assets, ExpireToken(a) PROVE TypeOK'
  BY <1>10 DEF TypeOK, ExpireToken
<1>11. ASSUME NEW a \in Assets, RequestDelete(a) PROVE TypeOK'
  <2>1. job' \in [Assets -> [Kinds -> JobStates]]
    BY <1>11, EnqueueType DEF RequestDelete, Kinds
  <2>2. QED
    BY <1>11, <1>s, <2>1, SetType DEF TypeOK, RequestDelete
<1>12. ASSUME NEW a \in Assets, NEW f \in Fields, LinkReference(a, f) PROVE TypeOK'
  <2>1. [asset |-> a, locked |-> TRUE] \in References
    BY DEF References
  <2>2. QED
    BY <1>12, <2>1 DEF TypeOK, LinkReference
<1>13. ASSUME NEW f \in Fields, UnlinkReference(f) PROVE TypeOK'
  BY <1>13 DEF TypeOK, UnlinkReference
<1>14. ASSUME NEW a \in Assets, NEW k \in Kinds,
              StopJob(a, k) \/ RetryRead(a, k) \/ RetryWrite(a, k)
       PROVE  TypeOK'
  <2>1. job' \in [Assets -> [Kinds -> JobStates]]
    BY <1>14, JobType DEF TypeOK, StopJob, RetryRead, RetryWrite, JobStates
  <2>2. <<a, k>> \in Assets \X Kinds
    OBVIOUS
  <2>3. retrying' \subseteq Assets \X Kinds /\ retried' \subseteq Assets
    BY <1>14, <2>2 DEF TypeOK, StopJob, RetryRead, RetryWrite
  <2> QED
    BY <1>14, <2>1, <2>3 DEF TypeOK, StopJob, RetryRead, RetryWrite
<1>15. ASSUME NEW w \in Workers, NEW a \in Assets, DeleteRead(w, a) \/ ExpireRead(w, a)
       PROVE  TypeOK'
  <2>1. PICK k \in Kinds, step \in Steps : Start(w, k, a, step)
    BY <1>15 DEF DeleteRead, ExpireRead, Kinds, Steps
  <2>2. QED
    BY <2>1, StartShape DEF TypeOK, Start
<1>16. ASSUME NEW w \in Workers, NEW a \in Assets, DeleteWrite(w, a) \/ ExpireMark(w, a)
       PROVE  TypeOK'
  <2>1. run' \in [Workers -> Runs \union {NoRun}]
    BY <1>16, GotoShape DEF DeleteWrite, ExpireMark, Doing, Steps
  <2>2. status' \in [Assets -> Statuses]
    BY <1>16, <1>s, SetType DEF TypeOK, DeleteWrite, ExpireMark
  <2>3. QED
    BY <1>16, <2>1, <2>2 DEF TypeOK, DeleteWrite, ExpireMark
<1>17. ASSUME NEW w \in Workers, NEW a \in Assets, ExpireWrite(w, a) PROVE TypeOK'
  BY <1>17, GotoShape DEF TypeOK, ExpireWrite, Doing, Steps
<1>18. ASSUME NEW w \in Workers, NEW a \in Assets, NEW k \in Kinds, Purge(w, k, a) PROVE TypeOK'
  <2>1. run' \in [Workers -> Runs \union {NoRun}]
    BY <1>18, GotoShape DEF Purge, Doing, Steps
  <2>2. QED
    BY <1>18, <2>1 DEF TypeOK, Purge
<1>19. ASSUME NEW w \in Workers, NEW a \in Assets, NEW k \in Kinds, JobSucceeds(w, k, a)
       PROVE  TypeOK'
  <2>1. job' \in [Assets -> [Kinds -> JobStates]]
    BY <1>19, JobType DEF TypeOK, JobSucceeds, JobStates
  <2>2. QED
    BY <1>19, <2>1 DEF TypeOK, JobSucceeds
<1>20. ASSUME NEW w \in Workers, JobFails(w) PROVE TypeOK'
  <2>1. job' \in [Assets -> [Kinds -> JobStates]]
    BY <1>20, JobType, RunShape DEF JobFails, JobStates
  <2>2. QED
    BY <1>20, <2>1 DEF TypeOK, JobFails
<1>21. ASSUME NEW w \in Workers, Crash(w) PROVE TypeOK'
  BY <1>21 DEF TypeOK, Crash
<1>22. CASE UNCHANGED vars
  BY <1>22 DEF TypeOK, vars
<1>23. QED
  BY <1>1, <1>2, <1>3, <1>4, <1>5, <1>6, <1>7, <1>8, <1>9, <1>10, <1>11, <1>12, <1>13, <1>14,
     <1>15, <1>16, <1>17, <1>18, <1>19, <1>20, <1>21, <1>22
  DEF Next, Caller, Worker, Atomic

(* Assets, requests and jobs keep their types, for any constants.           *)
THEOREM TypeCorrect == Spec => []TypeOK
  BY InitTypeOK, NextTypeOK, PTL DEF Spec
-----------------------------------------------------------------------------
(* What writing one job leaves of the others.                              *)
LEMMA JobShape ==
  ASSUME TypeOK, NEW a \in Assets, NEW k \in Kinds, NEW s \in JobStates,
         job' = [job EXCEPT ![a][k] = s]
  PROVE  /\ job'[a][k] = s
         /\ \A l \in Kinds \ {k} : job'[a][l] = job[a][l]
         /\ \A b \in Assets \ {a} : job'[b] = job[b]
<1>1. job[a] \in [Kinds -> JobStates]
  BY DEF TypeOK
<1> QED
  BY <1>1 DEF TypeOK

(* An enqueue under its deduplication key makes a job only where there was  *)
(* none, and touches no other.                                              *)
LEMMA EnqueueShape ==
  ASSUME TypeOK, NEW a \in Assets, NEW k \in Kinds, EnqueueOnce(a, k)
  PROVE  /\ job'[a][k] = IF job[a][k] = "none" THEN "queued" ELSE job[a][k]
         /\ \A l \in Kinds \ {k} : job'[a][l] = job[a][l]
         /\ \A b \in Assets \ {a} : job'[b] = job[b]
BY JobShape DEF EnqueueOnce, JobStates

(* The expire job comes with the token: an upload without one has no such   *)
(* job, no retry of it and no execution.                                    *)
JobInv ==
  /\ \A a \in Assets :
       token[a] = "none" => job[a]["expire"] = "none" /\ <<a, "expire">> \notin retrying
  /\ \A a \in retried : token[a] # "none"
  /\ \A w \in Workers :
       run[w] # NoRun /\ run[w].kind = "expire" => token[run[w].asset] # "none"

(* A step never takes a token back, and makes an expire job, a retry of one *)
(* or an execution of one only where there is a token.                      *)
LEMMA NextJobInv == TypeOK /\ JobInv /\ [Next]_vars => JobInv'
<1> SUFFICES ASSUME TypeOK, JobInv, [Next]_vars PROVE JobInv'
  OBVIOUS
<1> USE DEF store, jobs, retries
<1>k. Kinds = {"expire", "delete"}
  BY DEF Kinds
<1>t. /\ token \in [Assets -> {"none", "valid", "used", "expired"}]
      /\ run \in [Workers -> Runs \union {NoRun}]
      /\ retried \subseteq Assets
      /\ \A w \in Workers : run[w] # NoRun => run[w].asset \in Assets
  BY DEF TypeOK, Runs
(* The tokens that are out stay out, and nothing else changes.              *)
<1>f. ASSUME \A a \in Assets : token[a] # "none" => token'[a] # "none",
             UNCHANGED <<job, retrying, retried, run>>
      PROVE  JobInv'
  BY <1>f, <1>t DEF JobInv
<1>1. ASSUME NEW c \in Callers, NEW a \in Assets, FinishIntent(c, a) PROVE JobInv'
  <2>1. /\ token'[a] = "valid" /\ \A b \in Assets \ {a} : token'[b] = token[b]
        /\ UNCHANGED <<retrying, retried, run>>
    BY <1>1, <1>t DEF FinishIntent
  <2>2. \A b \in Assets \ {a} : job'[b] = job[b]
    BY <1>1, <1>k, EnqueueShape DEF FinishIntent
  <2> QED
    BY <1>t, <2>1, <2>2 DEF JobInv
<1>2. ASSUME NEW a \in Assets,
             ExpireToken(a) \/ \E size \in {"good", "bad"} : Upload(a, size)
      PROVE  JobInv'
  BY <1>2, <1>f, <1>t DEF ExpireToken, Upload
<1>3. ASSUME NEW a \in Assets, RequestDelete(a) PROVE JobInv'
  <2>1. \A b \in Assets : job'[b]["expire"] = job[b]["expire"]
    BY <1>3, <1>k, EnqueueShape DEF RequestDelete
  <2> QED
    BY <1>3, <2>1 DEF RequestDelete, JobInv
<1>4. ASSUME NEW w \in Workers, NEW a \in Assets, DeleteRead(w, a) \/ ExpireRead(w, a)
      PROVE  JobInv'
  <2>1. PICK k \in Kinds, step \in Steps : Start(w, k, a, step)
    BY <1>4 DEF DeleteRead, ExpireRead, Kinds, Steps
  <2>2. /\ run'[w].kind = k /\ run'[w].asset = a /\ \A v \in Workers \ {w} : run'[v] = run[v]
        /\ job[a][k] = "queued" /\ UNCHANGED <<token, job, retrying, retried>>
    BY <2>1, StartShape DEF Start
  <2> QED
    BY <2>2 DEF JobInv
<1>5. ASSUME NEW w \in Workers, NEW a \in Assets, NEW k \in Kinds,
             Purge(w, k, a) \/ DeleteWrite(w, a) \/ ExpireMark(w, a) \/ ExpireWrite(w, a)
      PROVE  JobInv'
  <2>1. PICK step \in Steps : run[w] # NoRun /\ Goto(w, step)
    BY <1>5 DEF Purge, DeleteWrite, ExpireMark, ExpireWrite, Doing, Steps
  <2>2. /\ run'[w].kind = run[w].kind /\ run'[w].asset = run[w].asset
        /\ \A v \in Workers \ {w} : run'[v] = run[v]
    BY <2>1, GotoShape
  <2>3. UNCHANGED <<token, job, retrying, retried>>
    BY <1>5 DEF Purge, DeleteWrite, ExpireMark, ExpireWrite
  <2> QED
    BY <2>1, <2>2, <2>3 DEF JobInv
<1>6. ASSUME NEW w \in Workers, NEW a \in Assets, NEW k \in Kinds,
             run[w] # NoRun, run[w].kind = k, run[w].asset = a,
             JobSucceeds(w, k, a) \/ JobFails(w) \/ Crash(w)
      PROVE  JobInv'
  <2>1. /\ \A v \in Workers : run'[v] = NoRun \/ run'[v] = run[v]
        /\ UNCHANGED <<token, retrying, retried>>
    BY <1>6, <1>t DEF JobSucceeds, JobFails, Crash
  <2>2. job' = job \/ \E s \in JobStates : job' = [job EXCEPT ![a][k] = s]
    BY <1>6 DEF JobSucceeds, JobFails, Crash, JobStates
  <2>3. /\ \A b \in Assets \ {a} : job'[b] = job[b]
        /\ \A l \in Kinds \ {k} : job'[a][l] = job[a][l]
    BY <2>2, JobShape
  <2>4. k = "expire" => token[a] # "none"
    BY <1>6 DEF JobInv
  <2>5. \A b \in Assets : token[b] = "none" => job'[b]["expire"] = job[b]["expire"]
    BY <1>k, <2>3, <2>4
  <2> QED
    BY <2>1, <2>5 DEF JobInv
<1>7. ASSUME NEW a \in Assets, NEW k \in Kinds,
             StopJob(a, k) \/ RetryRead(a, k) \/ RetryWrite(a, k)
      PROVE  JobInv'
  <2>1. k = "expire" => token[a] # "none"
    BY <1>7 DEF StopJob, RetryRead, RetryWrite, JobInv
  <2>2. /\ retrying' \subseteq retrying \union {<<a, k>>}
        /\ retried' \subseteq retried \union {b \in {a} : k = "expire"}
        /\ UNCHANGED <<token, run>>
    BY <1>7 DEF StopJob, RetryRead, RetryWrite
  <2>3. job' = job \/ \E s \in JobStates : job' = [job EXCEPT ![a][k] = s]
    BY <1>7 DEF StopJob, RetryRead, RetryWrite, JobStates
  <2>4. /\ \A b \in Assets \ {a} : job'[b] = job[b]
        /\ \A l \in Kinds \ {k} : job'[a][l] = job[a][l]
    BY <2>3, JobShape
  <2>5. \A b \in Assets : token[b] = "none" =>
           job'[b]["expire"] = job[b]["expire"] /\ <<b, "expire">> # <<a, k>>
    BY <1>k, <2>1, <2>4
  <2> QED
    BY <2>1, <2>2, <2>5 DEF JobInv
<1>8. ASSUME UNCHANGED <<token, job, retrying, retried, run>> PROVE JobInv'
  BY <1>8, <1>f
<1>9. ASSUME NEW c \in Callers, Caller(c) PROVE JobInv'
  BY <1>9, <1>1, <1>8
  DEF Caller, CreateIntent, IssueToken, FailIntent, ConfirmRead, ConfirmStat, ConfirmMismatch,
      ConfirmActivate, ArchiveRead, SetArchived, SaveRead, ReplaceReferences, Abort
<1>10. ASSUME NEW w \in Workers, Worker(w) PROVE JobInv'
  <2>1. run[w] # NoRun => run[w].asset \in Assets /\ run[w].kind \in Kinds
    BY RunShape
  <2> QED
    BY <1>10, <1>4, <1>5, <1>6, <1>k, <2>1 DEF Worker, JobSucceeds, JobFails, Crash, Doing
<1>11. CASE Atomic
  BY <1>11, <1>2, <1>3, <1>7, <1>8 DEF Atomic, LinkReference, UnlinkReference
<1> QED
  BY <1>8, <1>9, <1>10, <1>11 DEF Next, vars

(* No expire job without a token, throughout.                               *)
LEMMA JobInvCorrect == Spec => []JobInv
<1>1. Init => JobInv
  BY DEF Init, JobInv, Kinds
<1> QED
  BY <1>1, NextJobInv, TypeCorrect, PTL DEF Spec
-----------------------------------------------------------------------------
(* An asset that failed or is being deleted never becomes usable again.     *)
Gone == {"failed", "deleting", "deleted"}

(* What a request knows about the asset it works on: the token of an intent *)
(* is not out, and an object that was inspected while the asset is pending  *)
(* has not changed since.                                                   *)
CallInv(c) ==
  LET op == call[c].op  a == call[c].asset IN
  call[c] # NoCall =>
    /\ op \in {"intent", "token"} => status[a] = "pending" /\ token[a] = "none"
    /\ op \in {"statGood", "statBad"} => status[a] # "absent"
    /\ op = "statGood" /\ status[a] = "pending" => object[a] = "good"
    /\ op = "statBad" /\ status[a] = "pending" => object[a] = "bad"
    /\ op = "statBad" => status[a] \notin {"active", "archived"}

(* An intent is carried out by one request.                                 *)
IntentAlone ==
  \A c, d \in Callers :
    /\ call[c] # NoCall /\ call[c].op \in {"intent", "token"}
    /\ call[d] # NoCall /\ call[d].op \in {"intent", "token"}
    /\ call[c].asset = call[d].asset
    => c = d

(* What a worker knows: a job that removes an object, or has removed it,    *)
(* works on an asset that is gone; an expiry found it pending or failed.    *)
RunInv(w) ==
  LET a == run[w].asset IN
  run[w] # NoRun =>
    /\ run[w].step \in {"marked", "purged"} => status[a] \in Gone
    /\ run[w].step = "read" => run[w].seen \in {"pending", "failed"}

(* Without a token there is no object.                                      *)
TokenFirst ==
  \A a \in Assets :
    /\ status[a] = "absent" => token[a] = "none"
    /\ token[a] = "none" => object[a] = "none"

IInv ==
  /\ ActiveHasObject /\ LinkedIsKept /\ IntentAlone /\ TokenFirst
  /\ \A c \in Callers : CallInv(c)
  /\ \A w \in Workers : RunInv(w)

(* IInv is inductive: one step per action, and under it what the action can *)
(* disturb.                                                                 *)
LEMMA NextIInv == TypeOK /\ JobInv /\ IInv /\ [Next]_vars => IInv'
<1> SUFFICES ASSUME TypeOK, JobInv, IInv, [Next]_vars PROVE IInv'
  OBVIOUS
<1> USE DEF store, jobs, retries
<1>t. /\ call \in [Callers -> Calls \union {NoCall}]
      /\ status \in [Assets -> Statuses]
      /\ token \in [Assets -> {"none", "valid", "used", "expired"}]
      /\ object \in [Assets -> {"none", "good", "bad"}]
      /\ refs \in [Fields -> References \union {NoReference}]
      /\ run \in [Workers -> Runs \union {NoRun}]
  BY DEF TypeOK
<1>i. /\ ActiveHasObject /\ LinkedIsKept /\ IntentAlone /\ TokenFirst
      /\ \A c \in Callers : CallInv(c)
      /\ \A w \in Workers : RunInv(w)
  BY DEF IInv
<1>a. /\ \A c \in Callers : call[c] # NoCall => call[c].asset \in Assets
      /\ \A w \in Workers : run[w] # NoRun => run[w].asset \in Assets
      /\ \A f \in Fields : refs[f] # NoReference => refs[f].asset \in Assets
  BY <1>t DEF Calls, Runs, References
(* Neither the assets nor the references change.                            *)
<1>q. ASSUME UNCHANGED <<status, token, object, refs>>
      PROVE  ActiveHasObject' /\ LinkedIsKept' /\ TokenFirst'
  BY <1>q, <1>i DEF ActiveHasObject, LinkedIsKept, TokenFirst
(* A request slot that is kept or released.                                 *)
<1>e. ASSUME \A d \in Callers : call'[d] = NoCall \/ call'[d] = call[d]
      PROVE  IntentAlone'
  BY <1>e, <1>i DEF IntentAlone
<1>1. ASSUME NEW c \in Callers, NEW a \in Assets, CreateIntent(c, a) PROVE IInv'
  <2>1. /\ status[a] = "absent" /\ status'[a] = "pending"
        /\ \A b \in Assets \ {a} : status'[b] = status[b]
        /\ UNCHANGED <<token, object, refs, run>>
    BY <1>1, <1>t DEF CreateIntent, Set
  <2>2. /\ call'[c] # NoCall /\ call'[c].op = "intent" /\ call'[c].asset = a
        /\ \A d \in Callers \ {c} : call'[d] = call[d]
    BY <1>1, <1>t, BeginShape DEF CreateIntent, Ops
  <2>3. token[a] = "none" /\ object[a] = "none"
    BY <1>i, <2>1 DEF TokenFirst
  <2>4. \A d \in Callers \ {c} : call[d] # NoCall =>
           call[d].asset # a \/ call[d].op \notin {"intent", "token", "statGood", "statBad"}
    BY <1>i, <2>1 DEF CallInv
  <2>5. \A d \in Callers : CallInv(d)'
    BY <1>i, <1>a, <2>1, <2>2, <2>3, <2>4 DEF CallInv
  <2>6. IntentAlone'
    BY <1>i, <2>2, <2>4 DEF IntentAlone
  <2>7. \A w \in Workers : RunInv(w)'
    BY <1>i, <1>a, <2>1 DEF RunInv, Gone
  <2>8. ActiveHasObject' /\ LinkedIsKept' /\ TokenFirst'
    BY <1>i, <1>a, <2>1, <2>3 DEF ActiveHasObject, LinkedIsKept, TokenFirst
  <2>9. QED
    BY <2>5, <2>6, <2>7, <2>8 DEF IInv
<1>2. ASSUME NEW c \in Callers, NEW a \in Assets, IssueToken(c, a) PROVE IInv'
  <2>1. UNCHANGED <<status, token, object, refs, run>>
    BY <1>2 DEF IssueToken
  <2>2. /\ call'[c] # NoCall /\ call'[c].op = "token" /\ call'[c].asset = a
        /\ \A d \in Callers \ {c} : call'[d] = call[d]
    BY <1>2, <1>t, StepShape DEF IssueToken, Ops
  <2>3. call[c] # NoCall /\ call[c].op = "intent" /\ call[c].asset = a
    BY <1>2, AtShape DEF IssueToken, Ops
  <2>4. \A d \in Callers : CallInv(d)'
    BY <1>i, <2>1, <2>2, <2>3 DEF CallInv
  <2>5. IntentAlone'
    BY <1>i, <2>2, <2>3 DEF IntentAlone
  <2>6. QED
    BY <1>i, <1>q, <2>1, <2>4, <2>5 DEF IInv, RunInv
<1>3. ASSUME NEW c \in Callers, NEW a \in Assets, FinishIntent(c, a) PROVE IInv'
  <2>1. /\ UNCHANGED <<status, object, refs, run>>
        /\ token'[a] = "valid" /\ \A b \in Assets \ {a} : token'[b] = token[b]
    BY <1>3, <1>t DEF FinishIntent
  <2>2. call'[c] = NoCall /\ \A d \in Callers \ {c} : call'[d] = call[d]
    BY <1>3, <1>t, EndShape DEF FinishIntent
  <2>3. call[c] # NoCall /\ call[c].op = "token" /\ call[c].asset = a
    BY <1>3, AtShape DEF FinishIntent, Ops
  <2>4. status[a] = "pending" /\ token[a] = "none"
    BY <1>i, <2>3 DEF CallInv
  <2>5. \A d \in Callers \ {c} : call[d] # NoCall /\ call[d].op \in {"intent", "token"} =>
           call[d].asset # a
    BY <1>i, <2>3 DEF IntentAlone
  <2>6. \A d \in Callers : CallInv(d)'
    BY <1>i, <1>a, <2>1, <2>2, <2>5 DEF CallInv
  <2>7. \A w \in Workers : RunInv(w)'
    BY <1>i, <1>a, <2>1, <2>4 DEF RunInv, Gone
  <2>8. ActiveHasObject' /\ LinkedIsKept' /\ TokenFirst'
    BY <1>i, <2>1, <2>4 DEF ActiveHasObject, LinkedIsKept, TokenFirst
  <2>9. QED
    BY <1>e, <2>2, <2>6, <2>7, <2>8 DEF IInv
<1>4. ASSUME NEW c \in Callers, NEW a \in Assets, FailIntent(c, a) \/ ConfirmMismatch(c, a)
      PROVE  IInv'
  <2>1. /\ status'[a] = "failed" /\ \A b \in Assets \ {a} : status'[b] = status[b]
        /\ UNCHANGED <<token, object, refs, run>>
    BY <1>4, <1>t DEF FailIntent, ConfirmMismatch, Set
  <2>2. call'[c] = NoCall /\ \A d \in Callers \ {c} : call'[d] = call[d]
    BY <1>4, <1>t, EndShape DEF FailIntent, ConfirmMismatch
  <2>3. call[c] # NoCall /\ call[c].op \in {"intent", "token", "statBad"} /\ call[c].asset = a
    BY <1>4, AtShape DEF FailIntent, ConfirmMismatch, Ops
  <2>4. status[a] \notin {"absent", "active", "archived"}
    BY <1>i, <2>3 DEF CallInv
  <2>5. \A d \in Callers \ {c} : call[d] # NoCall /\ call[d].op \in {"intent", "token"} =>
           call[d].asset # a
    <3>1. CASE call[c].op \in {"intent", "token"}
      BY <1>i, <2>3, <3>1 DEF IntentAlone
    <3>2. CASE call[c].op = "statBad"
      <4>1. status[a] = "pending" => token[a] # "none"
        BY <1>i, <2>3, <3>2 DEF CallInv, TokenFirst
      <4>2. QED
        BY <1>i, <4>1 DEF CallInv
    <3>3. QED
      BY <2>3, <3>1, <3>2
  <2>6. \A d \in Callers : CallInv(d)'
    BY <1>i, <1>a, <2>1, <2>2, <2>5 DEF CallInv
  <2>7. \A w \in Workers : RunInv(w)'
    BY <1>i, <1>a, <2>1 DEF RunInv, Gone
  <2>8. ActiveHasObject' /\ LinkedIsKept' /\ TokenFirst'
    BY <1>i, <1>a, <2>1, <2>4 DEF ActiveHasObject, LinkedIsKept, TokenFirst
  <2>9. QED
    BY <1>e, <2>2, <2>6, <2>7, <2>8 DEF IInv
<1>5. ASSUME NEW c \in Callers, NEW a \in Assets,
             ConfirmRead(c, a) \/ ArchiveRead(c, a) \/ SaveRead(c, a)
      PROVE  IInv'
  <2>1. UNCHANGED <<status, token, object, refs, run>>
    BY <1>5 DEF ConfirmRead, ArchiveRead, SaveRead
  <2>2. PICK op \in {"confirm", "archive", "restore", "save"} : Begin(c, op, a)
    BY <1>5 DEF ConfirmRead, ArchiveRead, SaveRead
  <2>3. /\ call'[c] # NoCall /\ call'[c].op = op /\ call'[c].asset = a
        /\ \A d \in Callers \ {c} : call'[d] = call[d]
    BY <2>2, <1>t, BeginShape DEF Ops
  <2>4. \A d \in Callers : CallInv(d)'
    BY <1>i, <2>1, <2>2, <2>3 DEF CallInv
  <2>5. IntentAlone'
    BY <1>i, <2>2, <2>3 DEF IntentAlone
  <2>6. QED
    BY <1>i, <1>q, <2>1, <2>4, <2>5 DEF IInv, RunInv
<1>6. ASSUME NEW c \in Callers, NEW a \in Assets, ConfirmStat(c, a) PROVE IInv'
  <2>1. UNCHANGED <<status, token, object, refs, run>> /\ object[a] \in {"good", "bad"}
    BY <1>6, <1>t DEF ConfirmStat
  <2>2. PICK op \in {"statGood", "statBad"} :
          /\ op = IF object[a] = "good" THEN "statGood" ELSE "statBad"
          /\ call' = [call EXCEPT ![c].op = op]
    BY <1>6 DEF ConfirmStat
  <2>3. /\ call'[c] # NoCall /\ call'[c].op = op /\ call'[c].asset = a
        /\ \A d \in Callers \ {c} : call'[d] = call[d]
    BY <1>6, <2>2, <1>t, StepShape DEF ConfirmStat, Ops
  <2>4. status[a] # "absent" /\ (op = "statBad" => status[a] \notin {"active", "archived"})
    BY <1>i, <2>1, <2>2 DEF TokenFirst, ActiveHasObject
  <2>5. \A d \in Callers : CallInv(d)'
    BY <1>i, <2>1, <2>2, <2>3, <2>4 DEF CallInv
  <2>6. IntentAlone'
    BY <1>i, <2>2, <2>3 DEF IntentAlone
  <2>7. QED
    BY <1>i, <1>q, <2>1, <2>5, <2>6 DEF IInv, RunInv
<1>7. ASSUME NEW c \in Callers, NEW a \in Assets, ConfirmActivate(c, a) PROVE IInv'
  <2>1. /\ \A b \in Assets \ {a} : status'[b] = status[b]
        /\ status'[a] = IF status[a] = "pending" THEN "active" ELSE status[a]
        /\ UNCHANGED <<token, object, refs, run>>
    BY <1>7, <1>t DEF ConfirmActivate, Set
  <2>2. call'[c] = NoCall /\ \A d \in Callers \ {c} : call'[d] = call[d]
    BY <1>7, <1>t, EndShape DEF ConfirmActivate
  <2>3. call[c] # NoCall /\ call[c].op = "statGood" /\ call[c].asset = a
    BY <1>7, AtShape DEF ConfirmActivate, Ops
  <2>4. status[a] = "pending" => object[a] = "good" /\ token[a] # "none"
    BY <1>i, <2>3 DEF CallInv, TokenFirst
  <2>5. \A d \in Callers : CallInv(d)'
    BY <1>i, <1>a, <2>1, <2>2, <2>4 DEF CallInv
  <2>6. \A w \in Workers : RunInv(w)'
    BY <1>i, <1>a, <2>1 DEF RunInv, Gone
  <2>7. ActiveHasObject' /\ LinkedIsKept' /\ TokenFirst'
    BY <1>i, <1>a, <2>1, <2>4 DEF ActiveHasObject, LinkedIsKept, TokenFirst
  <2>8. QED
    BY <1>e, <2>2, <2>5, <2>6, <2>7 DEF IInv
<1>8. ASSUME NEW c \in Callers, NEW a \in Assets, SetArchived(c, a) PROVE IInv'
  <2>1. /\ \A b \in Assets \ {a} : status'[b] = status[b]
        /\ status'[a] = status[a] \/ {status[a], status'[a]} \subseteq {"active", "archived"}
        /\ UNCHANGED <<token, object, refs, run>>
    BY <1>8, <1>t DEF SetArchived
  <2>2. call'[c] = NoCall /\ \A d \in Callers \ {c} : call'[d] = call[d]
    BY <1>8, <1>t, EndShape DEF SetArchived
  <2>3. \A d \in Callers : CallInv(d)'
    BY <1>i, <1>a, <2>1, <2>2 DEF CallInv
  <2>4. \A w \in Workers : RunInv(w)'
    BY <1>i, <1>a, <2>1 DEF RunInv, Gone
  <2>5. ActiveHasObject' /\ LinkedIsKept' /\ TokenFirst'
    BY <1>i, <1>a, <2>1 DEF ActiveHasObject, LinkedIsKept, TokenFirst
  <2>6. QED
    BY <1>e, <2>2, <2>3, <2>4, <2>5 DEF IInv
<1>9. ASSUME NEW c \in Callers, NEW a \in Assets, NEW f \in Fields, ReplaceReferences(c, a, f)
      PROVE  IInv'
  <2>1. /\ UNCHANGED <<status, token, object, run>>
        /\ ~refs'[f].locked /\ \A g \in Fields \ {f} : refs'[g] = refs[g]
    BY <1>9, <1>t DEF ReplaceReferences
  <2>2. call'[c] = NoCall /\ \A d \in Callers \ {c} : call'[d] = call[d]
    BY <1>9, <1>t, EndShape DEF ReplaceReferences
  <2>3. \A d \in Callers : CallInv(d)'
    BY <1>i, <2>1, <2>2 DEF CallInv
  <2>4. ActiveHasObject' /\ LinkedIsKept' /\ TokenFirst'
    BY <1>i, <2>1 DEF ActiveHasObject, LinkedIsKept, TokenFirst
  <2>5. QED
    BY <1>i, <1>e, <2>1, <2>2, <2>3, <2>4 DEF IInv, RunInv
<1>10. ASSUME NEW c \in Callers, Abort(c) PROVE IInv'
  <2>1. UNCHANGED <<status, token, object, refs, run>>
    BY <1>10 DEF Abort
  <2>2. call'[c] = NoCall /\ \A d \in Callers \ {c} : call'[d] = call[d]
    BY <1>10, <1>t, EndShape DEF Abort
  <2>3. \A d \in Callers : CallInv(d)'
    BY <1>i, <2>1, <2>2 DEF CallInv
  <2>4. QED
    BY <1>i, <1>q, <1>e, <2>1, <2>2, <2>3 DEF IInv, RunInv
<1>11. ASSUME NEW a \in Assets, NEW size \in {"good", "bad"}, Upload(a, size) PROVE IInv'
  <2>1. /\ object[a] = "none" /\ token[a] \in {"valid", "used"} /\ token'[a] = "used"
        /\ \A b \in Assets \ {a} : object'[b] = object[b] /\ token'[b] = token[b]
        /\ UNCHANGED <<status, refs, call, run>>
    BY <1>11, <1>t DEF Upload
  <2>2. status[a] \notin {"absent", "active", "archived"}
    BY <1>i, <2>1 DEF TokenFirst, ActiveHasObject
  <2>3. \A d \in Callers : CallInv(d)'
    BY <1>i, <1>a, <2>1 DEF CallInv
  <2>4. \A w \in Workers : RunInv(w)'
    BY <1>i, <1>a, <2>1 DEF RunInv
  <2>5. ActiveHasObject' /\ LinkedIsKept' /\ TokenFirst'
    BY <1>i, <2>1, <2>2 DEF ActiveHasObject, LinkedIsKept, TokenFirst
  <2>6. QED
    BY <1>e, <2>1, <2>3, <2>4, <2>5 DEF IInv
<1>12. ASSUME NEW a \in Assets, ExpireToken(a) PROVE IInv'
  <2>1. /\ token[a] \in {"valid", "used"} /\ token'[a] = "expired"
        /\ \A b \in Assets \ {a} : token'[b] = token[b]
        /\ UNCHANGED <<status, object, refs, call, run>>
    BY <1>12, <1>t DEF ExpireToken
  <2>2. \A d \in Callers : CallInv(d)'
    BY <1>i, <1>a, <2>1 DEF CallInv
  <2>3. \A w \in Workers : RunInv(w)'
    BY <1>i, <1>a, <2>1 DEF RunInv
  <2>4. ActiveHasObject' /\ LinkedIsKept' /\ TokenFirst'
    BY <1>i, <2>1 DEF ActiveHasObject, LinkedIsKept, TokenFirst
  <2>5. QED
    BY <1>e, <2>1, <2>2, <2>3, <2>4 DEF IInv
<1>13. ASSUME NEW a \in Assets, RequestDelete(a) PROVE IInv'
  <2>1. /\ status[a] \in {"active", "archived", "failed"} /\ status'[a] = "deleting"
        /\ \A b \in Assets \ {a} : status'[b] = status[b]
        /\ UNCHANGED <<token, object, refs, call, run>>
    BY <1>13, <1>t DEF RequestDelete, Set
  <2>2. \A f \in Fields : refs[f] # NoReference => refs[f].asset # a
    BY <1>13 DEF RequestDelete, Referenced
  <2>3. \A d \in Callers : CallInv(d)'
    BY <1>i, <1>a, <2>1 DEF CallInv
  <2>4. \A w \in Workers : RunInv(w)'
    BY <1>i, <1>a, <2>1 DEF RunInv, Gone
  <2>5. ActiveHasObject' /\ LinkedIsKept' /\ TokenFirst'
    BY <1>i, <1>a, <2>1, <2>2 DEF ActiveHasObject, LinkedIsKept, TokenFirst
  <2>6. QED
    BY <1>e, <2>1, <2>3, <2>4, <2>5 DEF IInv
<1>14. ASSUME NEW a \in Assets, NEW f \in Fields, LinkReference(a, f) PROVE IInv'
  <2>1. /\ status[a] = "active" /\ refs'[f].asset = a
        /\ \A g \in Fields \ {f} : refs'[g] = refs[g]
        /\ UNCHANGED <<status, token, object, call, run>>
    BY <1>14, <1>t DEF LinkReference
  <2>2. LinkedIsKept'
    BY <1>i, <2>1 DEF LinkedIsKept
  <2>3. QED
    BY <1>i, <1>e, <2>1, <2>2 DEF IInv, CallInv, RunInv, ActiveHasObject, TokenFirst
<1>15. ASSUME NEW f \in Fields, UnlinkReference(f) PROVE IInv'
  <2>1. /\ refs'[f] = NoReference /\ \A g \in Fields \ {f} : refs'[g] = refs[g]
        /\ UNCHANGED <<status, token, object, call, run>>
    BY <1>15, <1>t DEF UnlinkReference
  <2>2. LinkedIsKept'
    BY <1>i, <2>1 DEF LinkedIsKept
  <2>3. QED
    BY <1>i, <1>e, <2>1, <2>2 DEF IInv, CallInv, RunInv, ActiveHasObject, TokenFirst
<1>16. ASSUME NEW w \in Workers, NEW a \in Assets, DeleteRead(w, a) \/ ExpireRead(w, a)
       PROVE  IInv'
  <2>1. UNCHANGED <<status, token, object, refs, call>>
    BY <1>16 DEF DeleteRead, ExpireRead, Start
  <2>2. PICK k \in Kinds, step \in {"read", "marked", "done"} :
          /\ Start(w, k, a, step)
          /\ step = "marked" => status[a] = "deleting"
          /\ step = "read" => status[a] \in {"pending", "failed"}
    BY <1>16 DEF DeleteRead, ExpireRead, Kinds
  <2>3. /\ run'[w] # NoRun /\ run'[w].asset = a /\ run'[w].step = step /\ run'[w].seen = status[a]
        /\ \A v \in Workers \ {w} : run'[v] = run[v]
    BY <2>2, StartShape DEF Steps
  <2>4. \A v \in Workers : RunInv(v)'
    BY <1>i, <2>1, <2>2, <2>3 DEF RunInv, Gone
  <2>5. QED
    BY <1>i, <1>e, <1>q, <2>1, <2>4 DEF IInv, CallInv
<1>17. ASSUME NEW w \in Workers, NEW a \in Assets, NEW k \in Kinds, Purge(w, k, a) PROVE IInv'
  <2>1. /\ run[w] # NoRun /\ run[w].step = "marked" /\ run[w].asset = a
        /\ object'[a] = "none" /\ \A b \in Assets \ {a} : object'[b] = object[b]
        /\ UNCHANGED <<status, token, refs, call>>
    BY <1>17, <1>t DEF Purge, Doing
  <2>2. /\ run'[w] # NoRun /\ run'[w].asset = a /\ run'[w].step = "purged"
        /\ \A v \in Workers \ {w} : run'[v] = run[v]
    BY <1>17, <2>1, GotoShape DEF Purge, Steps
  <2>3. status[a] \in Gone
    BY <1>i, <2>1 DEF RunInv
  <2>4. \A d \in Callers : CallInv(d)'
    BY <1>i, <1>a, <2>1, <2>3 DEF CallInv, Gone
  <2>5. \A v \in Workers : RunInv(v)'
    BY <1>i, <2>1, <2>2, <2>3 DEF RunInv
  <2>6. ActiveHasObject' /\ LinkedIsKept' /\ TokenFirst'
    BY <1>i, <2>1, <2>3 DEF ActiveHasObject, LinkedIsKept, TokenFirst, Gone
  <2>7. QED
    BY <1>e, <2>1, <2>4, <2>5, <2>6 DEF IInv
<1>18. ASSUME NEW w \in Workers, NEW a \in Assets, DeleteWrite(w, a) PROVE IInv'
  <2>1. /\ run[w] # NoRun /\ run[w].step = "purged" /\ run[w].asset = a
        /\ status'[a] = "deleted" /\ \A b \in Assets \ {a} : status'[b] = status[b]
        /\ UNCHANGED <<token, object, refs, call>>
    BY <1>18, <1>t DEF DeleteWrite, Doing, Set
  <2>2. /\ run'[w] # NoRun /\ run'[w].step = "done"
        /\ \A v \in Workers \ {w} : run'[v] = run[v]
    BY <1>18, <2>1, GotoShape DEF DeleteWrite, Steps
  <2>3. status[a] \in Gone
    BY <1>i, <2>1 DEF RunInv
  <2>4. \A d \in Callers : CallInv(d)'
    BY <1>i, <1>a, <2>1, <2>3 DEF CallInv, Gone
  <2>5. \A v \in Workers : RunInv(v)'
    BY <1>i, <1>a, <2>1, <2>2 DEF RunInv, Gone
  <2>6. ActiveHasObject' /\ LinkedIsKept' /\ TokenFirst'
    BY <1>i, <1>a, <2>1, <2>3 DEF ActiveHasObject, LinkedIsKept, TokenFirst, Gone
  <2>7. QED
    BY <1>e, <2>1, <2>4, <2>5, <2>6 DEF IInv
<1>19. ASSUME NEW w \in Workers, NEW a \in Assets, ExpireMark(w, a) PROVE IInv'
  <2>1. /\ run[w] # NoRun /\ run[w].step = "read" /\ run[w].kind = "expire" /\ run[w].asset = a
        /\ UNCHANGED <<token, object, refs, call>>
    BY <1>19 DEF ExpireMark, Doing
  <2>2. run[w].seen \in {"pending", "failed"} /\ token[a] # "none"
    BY <1>i, <2>1 DEF RunInv, JobInv
  <2>3. CASE status[a] = run[w].seen
    <3>1. /\ status'[a] = "failed" /\ \A b \in Assets \ {a} : status'[b] = status[b]
          /\ Goto(w, "marked")
      BY <1>19, <1>t, <2>3 DEF ExpireMark, Set
    <3>2. /\ run'[w] # NoRun /\ run'[w].asset = a /\ run'[w].step = "marked"
          /\ \A v \in Workers \ {w} : run'[v] = run[v]
      BY <2>1, <3>1, GotoShape DEF Steps
    <3>3. \A d \in Callers : CallInv(d)'
      BY <1>i, <1>a, <2>1, <2>2, <2>3, <3>1 DEF CallInv
    <3>4. \A v \in Workers : RunInv(v)'
      BY <1>i, <1>a, <2>1, <3>1, <3>2 DEF RunInv, Gone
    <3>5. ActiveHasObject' /\ LinkedIsKept' /\ TokenFirst'
      BY <1>i, <1>a, <2>1, <2>2, <2>3, <3>1 DEF ActiveHasObject, LinkedIsKept, TokenFirst
    <3>6. QED
      BY <1>e, <2>1, <3>3, <3>4, <3>5 DEF IInv
  <2>4. CASE status[a] # run[w].seen
    <3>1. status' = status /\ Goto(w, "done")
      BY <1>19, <2>4 DEF ExpireMark
    <3>2. run'[w].step = "done" /\ \A v \in Workers \ {w} : run'[v] = run[v]
      BY <2>1, <3>1, GotoShape DEF Steps
    <3>3. \A v \in Workers : RunInv(v)'
      BY <1>i, <2>1, <3>1, <3>2 DEF RunInv
    <3>4. QED
      BY <1>i, <1>e, <1>q, <2>1, <3>1, <3>3 DEF IInv, CallInv
  <2>5. QED
    BY <2>3, <2>4
<1>20. ASSUME NEW w \in Workers, NEW a \in Assets, ExpireWrite(w, a) PROVE IInv'
  <2>1. run[w] # NoRun /\ UNCHANGED <<status, token, object, refs, call>>
    BY <1>20 DEF ExpireWrite, Doing
  <2>2. run'[w].step = "done" /\ \A v \in Workers \ {w} : run'[v] = run[v]
    BY <1>20, <2>1, GotoShape DEF ExpireWrite, Steps
  <2>3. \A v \in Workers : RunInv(v)'
    BY <1>i, <2>1, <2>2 DEF RunInv
  <2>4. QED
    BY <1>i, <1>e, <1>q, <2>1, <2>3 DEF IInv, CallInv
<1>21. ASSUME NEW w \in Workers,
              JobFails(w) \/ Crash(w) \/ \E a \in Assets, k \in Kinds : JobSucceeds(w, k, a)
       PROVE  IInv'
  <2>1. /\ UNCHANGED <<status, token, object, refs, call>>
        /\ run'[w] = NoRun /\ \A v \in Workers \ {w} : run'[v] = run[v]
    BY <1>21, <1>t DEF JobFails, Crash, JobSucceeds
  <2>2. \A v \in Workers : RunInv(v)'
    BY <1>i, <2>1 DEF RunInv
  <2>3. QED
    BY <1>i, <1>e, <1>q, <2>1, <2>2 DEF IInv, CallInv
<1>22. ASSUME UNCHANGED <<status, token, object, refs, call, run>> PROVE IInv'
  BY <1>22, <1>i, <1>e, <1>q DEF IInv, CallInv, RunInv
<1>23. QED
  BY <1>1, <1>2, <1>3, <1>4, <1>5, <1>6, <1>7, <1>8, <1>9, <1>10, <1>11, <1>12, <1>13, <1>14,
     <1>15, <1>16, <1>17, <1>18, <1>19, <1>20, <1>21, <1>22
  DEF Next, Caller, Worker, Atomic, StopJob, RetryRead, RetryWrite, vars

(* IInv holds throughout.                                                   *)
LEMMA IInvCorrect == Spec => []IInv
<1>1. Init => IInv
  BY DEF Init, IInv, ActiveHasObject, LinkedIsKept, IntentAlone, TokenFirst, CallInv, RunInv
<1>2. QED
  BY <1>1, NextIInv, TypeCorrect, JobInvCorrect, PTL DEF Spec

(* No expiry or deletion removes the object of an asset that can be used,   *)
(* however many requests and workers act on what they read earlier.         *)
THEOREM ActiveCorrect == Spec => []ActiveHasObject
<1>1. IInv => ActiveHasObject
  BY DEF IInv
<1>2. QED
  BY <1>1, IInvCorrect, PTL

(* An asset referenced under the row lock is never deleted.                 *)
THEOREM LinkedCorrect == Spec => []LinkedIsKept
<1>1. IInv => LinkedIsKept
  BY DEF IInv
<1>2. QED
  BY <1>1, IInvCorrect, PTL

-----------------------------------------------------------------------------
(* What the jobs leave behind: the objects they remove, and the assets     *)
(* that wait for them.                                                     *)

(* An asset, its object and its jobs: the expire job outlives an upload    *)
(* that is open, the delete job comes with the deletion and outlives it.   *)
AssetInv(a) ==
  /\ status[a] = "pending" /\ token[a] # "none" => job[a]["expire"] \in {"queued", "stopped"}
  /\ status[a] = "deleting" => job[a]["delete"] \in {"queued", "stopped"} \/ a \in overwritten
  /\ job[a]["delete"] = "done" => status[a] = "deleted" \/ a \in overwritten
  /\ status[a] = "deleted" => object[a] = "none" \/ a \in late

(* What a worker leaves behind at each step of a job.                      *)
RunLeaves(w) ==
  LET a == run[w].asset IN
  run[w] # NoRun =>
    /\ run[w].kind = "expire" /\ run[w].step = "read" /\ run[w].seen = "failed" => status[a] \in Gone
    /\ run[w].kind = "expire" /\ run[w].step = "done" => status[a] \notin {"absent", "pending"}
    /\ run[w].kind = "delete" /\ run[w].step = "done" => status[a] = "deleted" \/ a \in overwritten
    /\ run[w].kind = "delete" /\ run[w].step = "purged" => object[a] = "none" \/ a \in late

CleanupInv ==
  /\ \A a \in Assets : AssetInv(a)
  /\ \A w \in Workers : RunLeaves(w)

(* Every step keeps what the maintenance handlers know of their asset.      *)
LEMMA NextCleanupInv == TypeOK /\ JobInv /\ IInv /\ CleanupInv /\ [Next]_vars => CleanupInv'
<1> SUFFICES ASSUME TypeOK, JobInv, IInv, CleanupInv, [Next]_vars PROVE CleanupInv'
  OBVIOUS
<1> USE DEF store, jobs, retries
<1>k. Kinds = {"expire", "delete"}
  BY DEF Kinds
<1>t. /\ call \in [Callers -> Calls \union {NoCall}]
      /\ status \in [Assets -> Statuses]
      /\ token \in [Assets -> {"none", "valid", "used", "expired"}]
      /\ object \in [Assets -> {"none", "good", "bad"}]
      /\ run \in [Workers -> Runs \union {NoRun}]
      /\ \A a \in Assets, k \in Kinds : job[a][k] \in {"none", "queued", "done", "stopped"}
  BY DEF TypeOK, JobStates
<1>i. /\ \A c \in Callers : CallInv(c)
      /\ \A w \in Workers : RunInv(w)
      /\ TokenFirst /\ ActiveHasObject
      /\ \A a \in Assets : AssetInv(a)
      /\ \A w \in Workers : RunLeaves(w)
  BY DEF IInv, CleanupInv
<1>a. /\ \A c \in Callers : call[c] # NoCall => call[c].asset \in Assets
      /\ \A w \in Workers : run[w] # NoRun => run[w].asset \in Assets
  BY <1>t DEF Calls, Runs
(* Workers that go on or stop, assets that do not change.                  *)
<1>r. ASSUME \A v \in Workers : run'[v] = NoRun \/ run'[v] = run[v],
             UNCHANGED <<status, object, overwritten, late>>
      PROVE  \A v \in Workers : RunLeaves(v)'
  BY <1>r, <1>i DEF RunLeaves
<1>s. ASSUME UNCHANGED <<status, token, object, job, overwritten, late>>
      PROVE  \A a \in Assets : AssetInv(a)'
  BY <1>s, <1>i DEF AssetInv
(* The status of one asset that is not deleted changes, not to pending.    *)
<1>w. ASSUME NEW a \in Assets,
             \A b \in Assets \ {a} : status'[b] = status[b],
             status[a] \in Gone => status'[a] \in Gone,
             status'[a] \in {"absent", "pending"} => status[a] \in {"absent", "pending"},
             status'[a] # "absent" \/ status[a] = "absent",
             status[a] = "deleted" => status'[a] = "deleted" \/ a \in overwritten',
             status'[a] = "pending" => status[a] = "pending" \/ token[a] = "none",
             overwritten \subseteq overwritten', UNCHANGED <<token, object, late, run>>
      PROVE  \A v \in Workers : RunLeaves(v)'
  BY <1>w, <1>i, <1>a DEF RunLeaves, Gone
<1>1. ASSUME NEW c \in Callers, NEW a \in Assets, CreateIntent(c, a) PROVE CleanupInv'
  <2>1. /\ status[a] = "absent" /\ status'[a] = "pending" /\ token[a] = "none"
        /\ \A b \in Assets \ {a} : status'[b] = status[b]
        /\ UNCHANGED <<token, object, job, overwritten, late, run>>
    BY <1>1, <1>t, <1>i DEF CreateIntent, Set, TokenFirst
  <2>2. \A b \in Assets : AssetInv(b)'
    BY <1>i, <2>1 DEF AssetInv
  <2>3. \A v \in Workers : RunLeaves(v)'
    BY <1>i, <1>a, <1>w, <2>1 DEF Gone
  <2> QED
    BY <2>2, <2>3 DEF CleanupInv
<1>2. ASSUME NEW c \in Callers, NEW a \in Assets,
             \/ IssueToken(c, a) \/ ConfirmRead(c, a) \/ ConfirmStat(c, a)
             \/ ArchiveRead(c, a) \/ SaveRead(c, a)
      PROVE  CleanupInv'
  BY <1>2, <1>r, <1>s
  DEF IssueToken, ConfirmRead, ConfirmStat, ArchiveRead, SaveRead, CleanupInv
<1>3. ASSUME NEW c \in Callers, NEW a \in Assets, FinishIntent(c, a) PROVE CleanupInv'
  <2>1. call[c] # NoCall /\ call[c].op = "token" /\ call[c].asset = a
    BY <1>3, AtShape DEF FinishIntent, Ops
  <2>2. status[a] = "pending" /\ token[a] = "none" /\ job[a]["expire"] = "none"
    BY <1>i, <2>1 DEF CallInv, JobInv
  <2>3. /\ token'[a] = "valid" /\ \A b \in Assets \ {a} : token'[b] = token[b]
        /\ UNCHANGED <<status, object, run, overwritten, late>>
    BY <1>3, <1>t DEF FinishIntent
  <2>4. /\ job'[a]["expire"] = "queued" /\ job'[a]["delete"] = job[a]["delete"]
        /\ \A b \in Assets \ {a} : job'[b] = job[b]
    BY <1>3, <1>k, <2>2, EnqueueShape DEF FinishIntent
  <2>5. \A b \in Assets : AssetInv(b)'
    BY <1>i, <2>2, <2>3, <2>4 DEF AssetInv
  <2> QED
    BY <1>r, <2>3, <2>5 DEF CleanupInv
<1>4. ASSUME NEW c \in Callers, NEW a \in Assets, FailIntent(c, a) PROVE CleanupInv'
  <2>1. status[a] = "pending" /\ token[a] = "none"
    <3>1. call[c] # NoCall /\ call[c].op \in {"intent", "token"} /\ call[c].asset = a
      BY <1>4, AtShape DEF FailIntent, Ops
    <3> QED
      BY <1>i, <3>1 DEF CallInv
  <2>2. /\ status'[a] = "failed" /\ \A b \in Assets \ {a} : status'[b] = status[b]
        /\ UNCHANGED <<token, object, job, run, overwritten, late>>
    BY <1>4, <1>t DEF FailIntent, Set
  <2>3. \A b \in Assets : AssetInv(b)'
    BY <1>i, <2>1, <2>2 DEF AssetInv
  <2> QED
    BY <1>w, <2>1, <2>2, <2>3 DEF CleanupInv, Gone
<1>5. ASSUME NEW c \in Callers, NEW a \in Assets, ConfirmMismatch(c, a) PROVE CleanupInv'
  <2>1. status[a] # "absent"
    <3>1. call[c] # NoCall /\ call[c].op = "statBad" /\ call[c].asset = a
      BY <1>5, AtShape DEF ConfirmMismatch, Ops
    <3> QED
      BY <1>i, <3>1 DEF CallInv
  <2>2. /\ status'[a] = "failed" /\ \A b \in Assets \ {a} : status'[b] = status[b]
        /\ overwritten \subseteq overwritten'
        /\ status[a] \in {"pending", "failed"} \/ a \in overwritten'
        /\ UNCHANGED <<token, object, job, run, late>>
    BY <1>5, <1>t DEF ConfirmMismatch, Set
  <2>3. \A b \in Assets : AssetInv(b)'
    BY <1>i, <2>1, <2>2 DEF AssetInv
  <2> QED
    BY <1>w, <2>1, <2>2, <2>3 DEF CleanupInv, Gone
<1>6. ASSUME NEW c \in Callers, NEW a \in Assets, ConfirmActivate(c, a) \/ SetArchived(c, a)
      PROVE  CleanupInv'
  <2>1. /\ \A b \in Assets \ {a} : status'[b] = status[b]
        /\ \/ status'[a] = status[a]
           \/ status[a] \in {"pending", "active", "archived"} /\ status'[a] \in {"active", "archived"}
        /\ UNCHANGED <<token, object, job, run, overwritten, late>>
    BY <1>6, <1>t DEF ConfirmActivate, SetArchived, Set
  <2>2. \A b \in Assets : AssetInv(b)'
    BY <1>i, <2>1 DEF AssetInv
  <2> QED
    BY <1>w, <2>1, <2>2 DEF CleanupInv, Gone
<1>7. ASSUME NEW a \in Assets, NEW size \in {"good", "bad"}, Upload(a, size) PROVE CleanupInv'
  <2>1. /\ \A b \in Assets \ {a} : object'[b] = object[b] /\ token'[b] = token[b]
        /\ token[a] # "none"
        /\ late \subseteq late' /\ (RemovedForGood(a) => a \in late')
        /\ UNCHANGED <<status, job, run, overwritten>>
    BY <1>7, <1>t DEF Upload
  <2>2. \A b \in Assets : AssetInv(b)'
    BY <1>i, <2>1 DEF AssetInv, RemovedForGood
  <2>3. \A v \in Workers : RunLeaves(v)'
    BY <1>i, <1>a, <2>1 DEF RunLeaves, RemovedForGood
  <2> QED
    BY <2>2, <2>3 DEF CleanupInv
<1>8. ASSUME NEW a \in Assets, ExpireToken(a) PROVE CleanupInv'
  <2>1. /\ token[a] # "none" /\ \A b \in Assets \ {a} : token'[b] = token[b]
        /\ UNCHANGED <<status, object, job, run, overwritten, late>>
    BY <1>8, <1>t DEF ExpireToken
  <2>2. \A b \in Assets : AssetInv(b)'
    BY <1>i, <2>1 DEF AssetInv
  <2> QED
    BY <1>r, <2>1, <2>2 DEF CleanupInv
<1>9. ASSUME NEW a \in Assets, RequestDelete(a) PROVE CleanupInv'
  <2>1. /\ status[a] \in {"active", "archived", "failed"} /\ status'[a] = "deleting"
        /\ \A b \in Assets \ {a} : status'[b] = status[b]
        /\ UNCHANGED <<token, object, run, overwritten, late>>
    BY <1>9, <1>t DEF RequestDelete, Set
  <2>2. /\ job'[a]["delete"] = IF job[a]["delete"] = "none" THEN "queued" ELSE job[a]["delete"]
        /\ job'[a]["expire"] = job[a]["expire"]
        /\ \A b \in Assets \ {a} : job'[b] = job[b]
    BY <1>9, <1>k, EnqueueShape DEF RequestDelete
  <2>3. \A b \in Assets : AssetInv(b)'
    BY <1>i, <1>t, <1>k, <2>1, <2>2 DEF AssetInv
  <2> QED
    BY <1>w, <2>1, <2>3 DEF CleanupInv, Gone
<1>10. ASSUME NEW w \in Workers, NEW a \in Assets, DeleteRead(w, a) \/ ExpireRead(w, a)
       PROVE  CleanupInv'
  <2>1. UNCHANGED <<status, token, object, job, overwritten, late>>
    BY <1>10 DEF DeleteRead, ExpireRead, Start
  <2>2. PICK k \in Kinds, step \in {"read", "marked", "done"} :
          /\ Start(w, k, a, step)
          /\ k = "expire" /\ step = "done" => status[a] # "pending"
          /\ k = "delete" /\ step = "done" => status[a] = "deleted"
    BY <1>10, <1>k DEF DeleteRead, ExpireRead
  <2>3. /\ run'[w].kind = k /\ run'[w].asset = a /\ run'[w].step = step
        /\ run'[w].seen = status[a] /\ \A v \in Workers \ {w} : run'[v] = run[v]
    BY <2>2, StartShape DEF Steps
  <2>4. k = "expire" => status[a] # "absent"
    BY <1>i, <2>2 DEF Start, JobInv, TokenFirst
  <2>5. \A v \in Workers : RunLeaves(v)'
    BY <1>i, <1>k, <2>1, <2>2, <2>3, <2>4 DEF RunLeaves, Gone
  <2> QED
    BY <1>s, <2>1, <2>5 DEF CleanupInv
<1>11. ASSUME NEW w \in Workers, NEW a \in Assets, NEW k \in Kinds, Purge(w, k, a)
       PROVE  CleanupInv'
  <2>1. /\ run[w] # NoRun /\ run[w].step = "marked" /\ run[w].kind = k /\ run[w].asset = a
        /\ object'[a] = "none" /\ \A b \in Assets \ {a} : object'[b] = object[b]
        /\ UNCHANGED <<status, token, job, overwritten, late>>
    BY <1>11, <1>t DEF Purge, Doing
  <2>2. /\ run'[w].kind = k /\ run'[w].asset = a /\ run'[w].step = "purged"
        /\ \A v \in Workers \ {w} : run'[v] = run[v]
    BY <1>11, <2>1, GotoShape DEF Purge, Steps
  <2>3. \A b \in Assets : AssetInv(b)'
    BY <1>i, <2>1 DEF AssetInv
  <2>4. \A v \in Workers : RunLeaves(v)'
    BY <1>i, <1>a, <2>1, <2>2 DEF RunLeaves
  <2> QED
    BY <2>1, <2>3, <2>4 DEF CleanupInv
<1>12. ASSUME NEW w \in Workers, NEW a \in Assets, DeleteWrite(w, a) PROVE CleanupInv'
  <2>1. /\ run[w] # NoRun /\ run[w].step = "purged" /\ run[w].kind = "delete" /\ run[w].asset = a
        /\ status'[a] = "deleted" /\ \A b \in Assets \ {a} : status'[b] = status[b]
        /\ UNCHANGED <<token, object, job, overwritten, late>>
    BY <1>12, <1>t DEF DeleteWrite, Doing, Set
  <2>2. /\ run'[w].kind = "delete" /\ run'[w].asset = a /\ run'[w].step = "done"
        /\ \A v \in Workers \ {w} : run'[v] = run[v]
    BY <1>12, <2>1, GotoShape DEF DeleteWrite, Steps
  <2>3. (object[a] = "none" \/ a \in late) /\ status[a] \in Gone
    BY <1>i, <2>1 DEF RunLeaves, RunInv
  <2>4. \A b \in Assets : AssetInv(b)'
    BY <1>i, <2>1, <2>3 DEF AssetInv, Gone
  <2>5. \A v \in Workers : RunLeaves(v)'
    BY <1>i, <1>a, <2>1, <2>2 DEF RunLeaves, Gone
  <2> QED
    BY <2>1, <2>4, <2>5 DEF CleanupInv
<1>13. ASSUME NEW w \in Workers, NEW a \in Assets, ExpireMark(w, a) PROVE CleanupInv'
  <2>1. /\ run[w] # NoRun /\ run[w].step = "read" /\ run[w].kind = "expire" /\ run[w].asset = a
        /\ UNCHANGED <<token, object, job, overwritten, late>>
    BY <1>13 DEF ExpireMark, Doing
  <2>2. /\ run[w].seen \in {"pending", "failed"} /\ token[a] # "none"
        /\ run[w].seen = "failed" => status[a] \in Gone
    BY <1>i, <2>1 DEF RunInv, RunLeaves, JobInv
  <2>3. CASE status[a] = run[w].seen
    <3>1. /\ status'[a] = "failed" /\ \A b \in Assets \ {a} : status'[b] = status[b]
          /\ Goto(w, "marked")
      BY <1>13, <1>t, <2>3 DEF ExpireMark, Set
    <3>2. /\ run'[w].kind = "expire" /\ run'[w].asset = a /\ run'[w].step = "marked"
          /\ \A v \in Workers \ {w} : run'[v] = run[v]
      BY <2>1, <3>1, GotoShape DEF Steps
    <3>3. \A b \in Assets : AssetInv(b)'
      BY <1>i, <2>1, <2>2, <2>3, <3>1 DEF AssetInv
    <3>4. \A v \in Workers : RunLeaves(v)'
      BY <1>i, <1>a, <2>1, <2>2, <2>3, <3>1, <3>2 DEF RunLeaves, Gone
    <3> QED
      BY <2>1, <3>3, <3>4 DEF CleanupInv
  <2>4. CASE status[a] # run[w].seen
    <3>1. status' = status /\ Goto(w, "done")
      BY <1>13, <2>4 DEF ExpireMark
    <3>2. /\ run'[w].kind = "expire" /\ run'[w].asset = a /\ run'[w].step = "done"
          /\ \A v \in Workers \ {w} : run'[v] = run[v]
      BY <2>1, <3>1, GotoShape DEF Steps
    <3>3. status[a] # "pending" /\ status[a] # "absent"
      BY <1>i, <2>2, <2>4 DEF TokenFirst, Gone
    <3>4. \A v \in Workers : RunLeaves(v)'
      BY <1>i, <2>1, <2>2, <3>1, <3>2, <3>3 DEF RunLeaves
    <3> QED
      BY <1>s, <2>1, <3>1, <3>4 DEF CleanupInv
  <2> QED
    BY <2>3, <2>4
<1>14. ASSUME NEW w \in Workers, NEW a \in Assets, ExpireWrite(w, a) PROVE CleanupInv'
  <2>1. /\ run[w] # NoRun /\ run[w].step = "purged" /\ run[w].kind = "expire" /\ run[w].asset = a
        /\ UNCHANGED <<status, token, object, job, overwritten, late>>
    BY <1>14 DEF ExpireWrite, Doing
  <2>2. /\ run'[w].kind = "expire" /\ run'[w].asset = a /\ run'[w].step = "done"
        /\ \A v \in Workers \ {w} : run'[v] = run[v]
    BY <1>14, <2>1, GotoShape DEF ExpireWrite, Steps
  <2>3. status[a] \in Gone
    BY <1>i, <2>1 DEF RunInv
  <2>4. \A v \in Workers : RunLeaves(v)'
    BY <1>i, <2>1, <2>2, <2>3 DEF RunLeaves, Gone
  <2> QED
    BY <1>s, <2>1, <2>4 DEF CleanupInv
<1>15. ASSUME NEW w \in Workers, NEW a \in Assets, NEW k \in Kinds, JobSucceeds(w, k, a)
       PROVE  CleanupInv'
  <2>1. /\ run[w] # NoRun /\ run[w].step = "done" /\ run[w].kind = k /\ run[w].asset = a
        /\ UNCHANGED <<status, token, object, overwritten, late>>
        /\ \A v \in Workers : run'[v] = NoRun \/ run'[v] = run[v]
    BY <1>15, <1>t DEF JobSucceeds, Doing
  <2>2. /\ job'[a][k] = IF job[a][k] = "queued" THEN "done" ELSE job[a][k]
        /\ \A l \in Kinds \ {k} : job'[a][l] = job[a][l]
        /\ \A b \in Assets \ {a} : job'[b] = job[b]
    BY <1>15, JobShape DEF JobSucceeds, JobStates
  <2>3. /\ k = "expire" => status[a] \notin {"absent", "pending"}
        /\ k = "delete" => status[a] = "deleted" \/ a \in overwritten
    BY <1>i, <2>1 DEF RunLeaves
  <2>4. \A b \in Assets : AssetInv(b)'
    BY <1>i, <1>k, <2>1, <2>2, <2>3 DEF AssetInv
  <2> QED
    BY <1>r, <2>1, <2>4 DEF CleanupInv
<1>16. ASSUME NEW w \in Workers, JobFails(w) PROVE CleanupInv'
  <2>1. PICK a \in Assets, k \in Kinds :
          /\ run[w] # NoRun /\ run[w].asset = a /\ run[w].kind = k
          /\ job' = [job EXCEPT ![a][k] = "queued"]
    BY <1>16, RunShape DEF JobFails
  <2>q. "queued" \in JobStates /\ job' = [job EXCEPT ![a][k] = "queued"]
    BY <2>1 DEF JobStates
  <2>2. /\ UNCHANGED <<status, token, object, overwritten, late>>
        /\ \A v \in Workers : run'[v] = NoRun \/ run'[v] = run[v]
    BY <1>16, <1>t DEF JobFails
  <2>3. /\ job'[a][k] = "queued"
        /\ \A l \in Kinds \ {k} : job'[a][l] = job[a][l]
        /\ \A b \in Assets \ {a} : job'[b] = job[b]
    BY <2>q, JobShape
  <2>4. \A b \in Assets : AssetInv(b)'
    BY <1>i, <1>k, <2>2, <2>3 DEF AssetInv
  <2> QED
    BY <1>r, <2>2, <2>4 DEF CleanupInv
<1>17. ASSUME NEW w \in Workers, Crash(w) PROVE CleanupInv'
  BY <1>17, <1>t, <1>r, <1>s DEF Crash, CleanupInv
<1>18. ASSUME NEW a \in Assets, NEW k \in Kinds, StopJob(a, k) \/ RetryWrite(a, k)
       PROVE  CleanupInv'
  <2>1. /\ job'[a][k] \in {"queued", "stopped"}
        /\ \A l \in Kinds \ {k} : job'[a][l] = job[a][l]
        /\ \A b \in Assets \ {a} : job'[b] = job[b]
        /\ UNCHANGED <<status, token, object, run, overwritten, late>>
    BY <1>18, JobShape DEF StopJob, RetryWrite, JobStates
  <2>2. \A b \in Assets : AssetInv(b)'
    BY <1>i, <1>k, <2>1 DEF AssetInv
  <2> QED
    BY <1>r, <2>1, <2>2 DEF CleanupInv
<1>19. ASSUME UNCHANGED <<status, token, object, job, run, overwritten, late>>
       PROVE  CleanupInv'
  BY <1>19, <1>r, <1>s DEF CleanupInv
<1>20. ASSUME NEW a \in Assets, NEW k \in Kinds, RetryRead(a, k) PROVE CleanupInv'
  BY <1>19, <1>20 DEF RetryRead
<1>21. ASSUME NEW f \in Fields, UnlinkReference(f) \/ \E a \in Assets : LinkReference(a, f)
       PROVE  CleanupInv'
  BY <1>19, <1>21 DEF LinkReference, UnlinkReference
<1>22. CASE UNCHANGED vars
  BY <1>19, <1>22 DEF vars
<1>23. ASSUME NEW c \in Callers, Caller(c) PROVE CleanupInv'
  <2>1. ASSUME NEW a \in Assets, NEW f \in Fields, ReplaceReferences(c, a, f) PROVE CleanupInv'
    BY <1>19, <2>1 DEF ReplaceReferences
  <2>2. CASE Abort(c)
    BY <1>19, <2>2 DEF Abort
  <2> QED
    BY <1>23, <1>1, <1>2, <1>3, <1>4, <1>5, <1>6, <2>1, <2>2 DEF Caller
<1>24. ASSUME NEW w \in Workers, Worker(w) PROVE CleanupInv'
  BY <1>24, <1>10, <1>11, <1>12, <1>13, <1>14, <1>15, <1>16, <1>17 DEF Worker
<1>25. CASE Atomic
  BY <1>25, <1>7, <1>8, <1>9, <1>18, <1>20, <1>21 DEF Atomic
<1> QED
  BY <1>22, <1>23, <1>24, <1>25 DEF Next

(* The knowledge of the maintenance handlers is an invariant of the         *)
(* component.                                                               *)
LEMMA CleanupCorrect == Spec => []CleanupInv
<1>1. Init => CleanupInv
  BY DEF Init, CleanupInv, AssetInv, RunLeaves, Kinds
<1> QED
  BY <1>1, NextCleanupInv, TypeCorrect, JobInvCorrect, IInvCorrect, PTL DEF Spec

(* A deletion leaves no object behind, though the upload token outlives    *)
(* it, unless the token served for a second upload.                        *)
THEOREM DeletedCorrect == Spec => []DeletedHasNoObject
<1>1. CleanupInv => DeletedHasNoObject
  BY DEF CleanupInv, AssetInv, DeletedHasNoObject
<1> QED
  BY <1>1, CleanupCorrect, PTL

(* An asset that waits for a job has one that is not over, though a dedupe *)
(* key lets each be enqueued once: an upload handed out its expire job, a  *)
(* deletion its delete job unless a stale mismatch overwrote the status.   *)
THEOREM UnsettledCorrect == Spec => []UnsettledIsBacked
<1>1. CleanupInv => UnsettledIsBacked
  BY DEF CleanupInv, AssetInv, UnsettledIsBacked, PendingIsBacked, DeletingIsBacked
<1> QED
  BY <1>1, CleanupCorrect, PTL
=============================================================================
