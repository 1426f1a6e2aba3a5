------------------------------- MODULE Backoff -------------------------------
(* The delays and budgets that jobs and outbox events share.               *)
EXTENDS Integers

CONSTANTS
  AttemptCap,    (* bound: attempts saturates here, above every max_attempts*)
  BackoffBase,   (* first backoff, in ticks                                 *)
  BackoffCap,    (* longest backoff, in ticks                               *)
  Horizon,       (* bound: nothing is ever due later than that many ticks   *)
  StaleAfter     (* WORKER_STALE_TIMEOUT_MS, in ticks                       *)

Least(a, b) == IF a <= b THEN a ELSE b
Greatest(a, b) == IF a >= b THEN a ELSE b

(* The delay before the next attempt, after the n-th one failed. *)
ComputeBackoff(n) == Least(BackoffCap, BackoffBase * 2 ^ Greatest(0, n - 1))

(* Saturation is exact: attempts is only ever compared with max_attempts,  *)
(* which is below the cap, and used in ComputeBackoff, constant from there.*)
ASSUME BackoffAssumption ==
  /\ AttemptCap \in Nat
  /\ Horizon \in Nat
  /\ StaleAfter \in Nat \ {0}
  /\ \A n \in 0..AttemptCap : ComputeBackoff(n) \in 0..Horizon
  /\ ComputeBackoff(AttemptCap) = BackoffCap
=============================================================================
