------------------------ MODULE AtLeastOnceExecution ------------------------
(***************************************************************************)
(* What the job queue promises those who enqueue, cancel and retry jobs:   *)
(* its handler returns, perhaps several times, only while a job is open,   *)
(* and it succeeds only once the handler has returned.  A job that was     *)
(* given up or cancelled stays so until it is retried.  All this holds of  *)
(* a job until it is disturbed: handed out or retried while an execution   *)
(* of it may still be under way.                                           *)
(***************************************************************************)
CONSTANT
  Jobs           (* the jobs that may be enqueued                           *)

VARIABLES
  phase,     (* "absent", "open", "succeeded", "dead" or "cancelled"        *)
  done,      (* the jobs whose handler returned since they were queued      *)
  disturbed  (* the jobs of which executions may overlap                    *)

vars == <<phase, done, disturbed>>

Become(j, p) == phase' = [phase EXCEPT ![j] = p]

Init ==
  /\ phase = [j \in Jobs |-> "absent"]
  /\ done = {}
  /\ disturbed = {}

Accept(j) ==
  /\ phase[j] = "absent"
  /\ Become(j, "open")
  /\ UNCHANGED <<done, disturbed>>

(* Whether the job may be in execution. *)
Executing(j) == phase[j] = "open" \/ (j \in disturbed /\ phase[j] # "absent")

Return(j) ==
  /\ Executing(j)
  /\ done' = done \union {j}
  /\ UNCHANGED <<phase, disturbed>>

Succeed(j) ==
  /\ phase[j] = "open"
  /\ j \in done \union disturbed
  /\ Become(j, "succeeded")
  /\ UNCHANGED <<done, disturbed>>

(* An execution that fails makes the job open again, also one that had     *)
(* succeeded before it failed.                                             *)
Fail(j) ==
  /\ Executing(j) \/ (phase[j] = "succeeded" /\ j \in done)
  /\ Become(j, "open")
  /\ UNCHANGED <<done, disturbed>>

(* Some jobs whose executions take too long are handed out again, others   *)
(* are given up.                                                           *)
Expire(expired, lost) ==
  /\ \A j \in expired \union lost : phase[j] = "open"
  /\ phase' = [j \in Jobs |-> IF j \in lost THEN "dead" ELSE phase[j]]
  /\ disturbed' = disturbed \union expired
  /\ UNCHANGED done

Cancel(j) ==
  /\ phase[j] = "open"
  /\ Become(j, "cancelled")
  /\ UNCHANGED <<done, disturbed>>

(* What was not given up is disturbed by a retry. *)
Retry(j) ==
  /\ phase[j] # "absent"
  /\ Become(j, "open")
  /\ done' = done \ {j}
  /\ disturbed' = IF phase[j] \in {"dead", "cancelled"}
                    THEN disturbed ELSE disturbed \union {j}

Next ==
  \/ \E j \in Jobs : Accept(j) \/ Return(j) \/ Succeed(j) \/ Fail(j) \/ Cancel(j) \/ Retry(j)
  \/ \E expired, lost \in SUBSET Jobs : Expire(expired, lost)

Spec == Init /\ [][Next]_vars
=============================================================================
