------------------------ MODULE AtLeastOnceDelivery ------------------------
(***************************************************************************)
(* What the transactional outbox promises its users: an event that was     *)
(* recorded is handed to its subscribers one after the other, each may see *)
(* it several times, and it is acknowledged only once all have handled it. *)
(* An acknowledged or abandoned event may be opened again, never forgotten.*)
(***************************************************************************)
EXTENDS Naturals, Sequences

CONSTANTS
  Events,        (* the events that may be recorded                         *)
  Route          (* for each event, its subscribers in the order of dispatch*)

VARIABLES
  phase,     (* "unrecorded", "open", "acknowledged" or "abandoned"         *)
  handled    (* for each event, the positions of Route that have handled it *)

vars == <<phase, handled>>

Positions(e) == 1..Len(Route[e])

Init ==
  /\ phase = [e \in Events |-> "unrecorded"]
  /\ handled = [e \in Events |-> {}]

Record(e) ==
  /\ phase[e] = "unrecorded"
  /\ phase' = [phase EXCEPT ![e] = "open"]
  /\ UNCHANGED handled

(* A subscriber is reached only when those before it have handled e. *)
Handle(e, i) ==
  /\ phase[e] # "unrecorded"
  /\ 1..(i - 1) \subseteq handled[e]
  /\ handled' = [handled EXCEPT ![e] = @ \union {i}]
  /\ UNCHANGED phase

Acknowledge(e) ==
  /\ phase[e] # "unrecorded"
  /\ handled[e] = Positions(e)
  /\ phase' = [phase EXCEPT ![e] = "acknowledged"]
  /\ UNCHANGED handled

Reopen(e) ==
  /\ phase[e] # "unrecorded"
  /\ phase' = [phase EXCEPT ![e] = "open"]
  /\ UNCHANGED handled

(* Several events are given up at once. *)
Abandon(S) ==
  /\ \A e \in S : phase[e] = "open"
  /\ phase' = [e \in Events |-> IF e \in S THEN "abandoned" ELSE phase[e]]
  /\ UNCHANGED handled

Next ==
  \/ \E e \in Events : Record(e) \/ Acknowledge(e) \/ Reopen(e)
  \/ \E e \in Events : \E i \in Positions(e) : Handle(e, i)
  \/ \E S \in SUBSET Events : Abandon(S)

Spec == Init /\ [][Next]_vars
=============================================================================
