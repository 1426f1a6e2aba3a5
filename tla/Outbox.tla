------------------------------- MODULE Outbox -------------------------------
(***************************************************************************)
(* The transactional outbox (table outbox_events) and the workers that     *)
(* dispatch its events to the registered subscribers.  The atomic steps    *)
(* are those of JobQueue: one SQL statement, or one subscriber's return.   *)
(***************************************************************************)
EXTENDS Backoff, Sequences

CONSTANTS
  Events,            (* the events that may be published                    *)
  Workers,           (* worker slots                                        *)
  NoRow,             (* a worker that has claimed nothing                   *)
  Topic,             (* the topic of each event                             *)
  TopicSubscribers,  (* for each topic, its subscribers in order            *)
  AnySubscribers,    (* the subscribers of '*'                              *)
  MaxAttempts        (* max_attempts of each event                          *)

ASSUME EventsAssumption ==
  /\ Topic \in [Events -> DOMAIN TopicSubscribers]
  /\ \A t \in DOMAIN TopicSubscribers : TopicSubscribers[t] \in Seq(STRING)
  /\ AnySubscribers \in Seq(STRING)
  /\ MaxAttempts \in [Events -> 1..(AttemptCap - 1)]

(* dispatch calls the subscribers of the topic, then those of every topic. *)
Route == [e \in Events |-> TopicSubscribers[Topic[e]] \o AnySubscribers]

VARIABLES
  status,     (* outbox_events.status, "absent" before the row exists       *)
  attempts,   (* outbox_events.attempts                                     *)
  lockAge,    (* ticks since locked_at, saturating at StaleAfter            *)
  dueIn,      (* ticks until available_at, 0 once it has passed             *)
  pc,         (* where each worker stands in processOutbox                  *)
  row,        (* the row claimNext returned to each worker                  *)
  next,       (* the subscriber each worker awaits, a position of Route     *)
  handled     (* for each event, the subscribers whose effects took place   *)

table == <<status, attempts, lockAge, dueIn>>
vars == <<status, attempts, lockAge, dueIn, pc, row, next, handled>>

Statuses == {"absent", "pending", "processing", "published", "dead"}
WorkerStates == {"idle", "dispatching", "failing", "down"}

(* As for jobs, the raw row has a max_attempts and no maxAttempts. *)
Rows == [id : Events, attempts : 0..AttemptCap, max_attempts : 1..AttemptCap]

ASSUME NullRowAssumption == NoRow \notin Rows

Init ==
  /\ status = [e \in Events |-> "absent"]
  /\ attempts = [e \in Events |-> 0]
  /\ lockAge = [e \in Events |-> 0]
  /\ dueIn = [e \in Events |-> 0]
  /\ pc = [w \in Workers |-> "idle"]
  /\ row = [w \in Workers |-> NoRow]
  /\ next = [w \in Workers |-> 1]
  /\ handled = [e \in Events |-> {}]
-----------------------------------------------------------------------------
(* The event becomes visible when the transaction that publishes it        *)
(* commits.  Publishing a dedupe key again changes nothing.                *)
Publish(e) ==
  /\ status[e] = "absent"
  /\ status' = [status EXCEPT ![e] = "pending"]
  /\ UNCHANGED <<attempts, lockAge, dueIn, pc, row, next, handled>>

ClaimNext(w, e) ==
  /\ pc[w] = "idle"
  /\ status[e] = "pending" /\ dueIn[e] = 0
  /\ LET n == Least(AttemptCap, attempts[e] + 1) IN
       /\ attempts' = [attempts EXCEPT ![e] = n]
       /\ row' = [row EXCEPT ![w] = [id |-> e, attempts |-> n,
                                     max_attempts |-> MaxAttempts[e]]]
  /\ status' = [status EXCEPT ![e] = "processing"]
  /\ lockAge' = [lockAge EXCEPT ![e] = 0]
  /\ pc' = [pc EXCEPT ![w] = "dispatching"]
  /\ next' = [next EXCEPT ![w] = 1]
  /\ UNCHANGED <<dueIn, handled>>

(* The worker still has subscribers to call. *)
Calling(w) == pc[w] = "dispatching" /\ next[w] <= Len(Route[row[w].id])

(* The awaited subscriber's effects take place (they are idempotent: a key *)
(* made of the event id) and its promise resolves.                         *)
SubscriberReturns(w) ==
  /\ Calling(w)
  /\ handled' = [handled EXCEPT ![row[w].id] = @ \union {next[w]}]
  /\ next' = [next EXCEPT ![w] = @ + 1]
  /\ UNCHANGED <<table, pc, row>>

(* Mutant: a failing subscriber is skipped, the others are still called. *)
SubscriberIsSkipped(w) ==
  /\ Calling(w)
  /\ next' = [next EXCEPT ![w] = @ + 1]
  /\ UNCHANGED <<table, pc, row, handled>>

(* The awaited subscriber throws, before or after its effects took place.  *)
(* The subscribers after it are not called in this attempt.                *)
SubscriberThrows(w) ==
  /\ Calling(w)
  /\ pc' = [pc EXCEPT ![w] = "failing"]
  /\ handled' \in {handled, [handled EXCEPT ![row[w].id] = @ \union {next[w]}]}
  /\ UNCHANGED <<table, row, next>>

(* Gives the row back and forgets the event. *)
Release(w) ==
  /\ pc' = [pc EXCEPT ![w] = "idle"]
  /\ row' = [row EXCEPT ![w] = NoRow]
  /\ next' = [next EXCEPT ![w] = 1]

(* Mutant: the event is confirmed before its subscribers are awaited. *)
MarkPublishedEarly(w) ==
  LET e == row[w].id IN
  /\ pc[w] = "dispatching"
  /\ status' = [status EXCEPT ![e] = "published"]
  /\ lockAge' = [lockAge EXCEPT ![e] = 0]
  /\ Release(w)
  /\ UNCHANGED <<attempts, dueIn, handled>>

(* Written by id alone, whatever happened to the row since the claim. *)
MarkPublished(w) ==
  LET e == row[w].id IN
  /\ pc[w] = "dispatching" /\ ~Calling(w)
  /\ status' = [status EXCEPT ![e] = "published"]
  /\ lockAge' = [lockAge EXCEPT ![e] = 0]
  /\ Release(w)
  /\ UNCHANGED <<attempts, dueIn, handled>>

(* The database refuses the confirmation: the same catch as a subscriber's.*)
MarkPublishedThrows(w) ==
  /\ pc[w] = "dispatching" /\ ~Calling(w)
  /\ pc' = [pc EXCEPT ![w] = "failing"]
  /\ UNCHANGED <<table, row, next, handled>>

Exhausted(r) == "maxAttempts" \in DOMAIN r /\ r.attempts >= r.maxAttempts

(* Written by id alone too: the failure of a worker that lost its lock     *)
(* reopens an event another worker has published.                          *)
MarkFailed(w) ==
  LET r == row[w] IN
  /\ pc[w] = "failing"
  /\ IF Exhausted(r)
       THEN status' = [status EXCEPT ![r.id] = "dead"] /\ UNCHANGED dueIn
       ELSE /\ status' = [status EXCEPT ![r.id] = "pending"]
            /\ dueIn' = [dueIn EXCEPT ![r.id] = ComputeBackoff(r.attempts)]
  /\ lockAge' = [lockAge EXCEPT ![r.id] = 0]
  /\ Release(w)
  /\ UNCHANGED <<attempts, handled>>

Crash(w) ==
  /\ pc[w] # "down"
  /\ pc' = [pc EXCEPT ![w] = "down"]
  /\ row' = [row EXCEPT ![w] = NoRow]
  /\ next' = [next EXCEPT ![w] = 1]
  /\ UNCHANGED <<table, handled>>

Restart(w) ==
  /\ pc[w] = "down"
  /\ pc' = [pc EXCEPT ![w] = "idle"]
  /\ UNCHANGED <<table, row, next, handled>>

Stale(e) == status[e] = "processing" /\ lockAge[e] >= StaleAfter

OutOfAttempts(e) == attempts[e] >= MaxAttempts[e]

(* Mutant: only events with attempts left are recovered. *)
RecoverStaleWithBudget(w) ==
  /\ pc[w] = "idle"
  /\ \E e \in Events : Stale(e) /\ ~OutOfAttempts(e)
  /\ status' = [e \in Events |-> IF Stale(e) /\ ~OutOfAttempts(e) THEN "pending" ELSE status[e]]
  /\ lockAge' = [e \in Events |-> IF Stale(e) /\ ~OutOfAttempts(e) THEN 0 ELSE lockAge[e]]
  /\ UNCHANGED <<attempts, dueIn, pc, row, next, handled>>

(* Every event locked for too long, in one statement. *)
RecoverStale(w) ==
  /\ pc[w] = "idle"
  /\ \E e \in Events : Stale(e)
  /\ status' = [e \in Events |-> IF ~Stale(e) THEN status[e]
                                 ELSE IF OutOfAttempts(e) THEN "dead" ELSE "pending"]
  /\ lockAge' = [e \in Events |-> IF Stale(e) THEN 0 ELSE lockAge[e]]
  /\ dueIn' = [e \in Events |-> IF Stale(e) THEN 0 ELSE dueIn[e]]
  /\ UNCHANGED <<attempts, pc, row, next, handled>>

Tick ==
  /\ \E e \in Events : dueIn[e] > 0 \/ (status[e] = "processing" /\ lockAge[e] < StaleAfter)
  /\ dueIn' = [e \in Events |-> Greatest(0, dueIn[e] - 1)]
  /\ lockAge' = [e \in Events |-> IF status[e] = "processing"
                                    THEN Least(StaleAfter, lockAge[e] + 1) ELSE lockAge[e]]
  /\ UNCHANGED <<status, attempts, pc, row, next, handled>>

Worker(w) ==
  \/ \E e \in Events : ClaimNext(w, e)
  \/ SubscriberReturns(w)
  \/ SubscriberThrows(w)
  \/ MarkPublished(w)
  \/ MarkPublishedThrows(w)
  \/ MarkFailed(w)
  \/ RecoverStale(w)
  \/ Crash(w)
  \/ Restart(w)

Next ==
  \/ \E e \in Events : Publish(e)
  \/ \E w \in Workers : Worker(w)
  \/ Tick

Spec == Init /\ [][Next]_vars

(* As for jobs; besides, outages end: a subscriber that is called again    *)
(* and again returns in the end, and so does the confirmation.             *)
Fairness ==
  /\ WF_vars(Tick)
  /\ SF_vars(\E w \in Workers : RecoverStale(w))
  /\ \A e \in Events : SF_vars(\E w \in Workers : ClaimNext(w, e))
  /\ \A w \in Workers :
       /\ WF_vars(MarkFailed(w) \/ Restart(w))
       /\ SF_vars(MarkPublished(w))
  /\ \A e \in Events : \A i \in 1..Len(Route[e]) :
       SF_vars(\E w \in Workers :
                 row[w] # NoRow /\ row[w].id = e /\ next[w] = i /\ SubscriberReturns(w))

FairSpec == Spec /\ Fairness
-----------------------------------------------------------------------------
(* Every variable has its type; the columns obey the table's constraints   *)
(* and a worker holds a row exactly while it is dispatching or failing.    *)
TypeOK ==
  /\ status \in [Events -> Statuses]
  /\ attempts \in [Events -> 0..AttemptCap]
  /\ lockAge \in [Events -> 0..StaleAfter]
  /\ dueIn \in [Events -> 0..Horizon]
  /\ pc \in [Workers -> WorkerStates]
  /\ row \in [Workers -> Rows \union {NoRow}]
  /\ \A w \in Workers : row[w] = NoRow <=> pc[w] \in {"idle", "down"}
  /\ next \in [Workers -> Nat \ {0}]
  /\ \A w \in Workers : row[w] # NoRow => next[w] <= Len(Route[row[w].id]) + 1
  /\ handled \in [Events -> SUBSET Nat]
  /\ \A e \in Events : handled[e] \subseteq 1..Len(Route[e])

(* A published event has been handled by every subscriber of its route,    *)
(* whichever worker confirmed it and however stale its claim was.          *)
PublishedIsHandled ==
  \A e \in Events : status[e] = "published" => handled[e] = 1..Len(Route[e])

(* A subscriber has seen an event only if those before it have: a failing  *)
(* subscriber holds back the ones behind it.                               *)
InOrder ==
  \A e \in Events : \A i \in handled[e] : 1..i \subseteq handled[e]

(* The subscribers a dispatching worker has passed have handled the event. *)
PassedIsHandled ==
  \A w \in Workers : row[w] # NoRow => 1..(next[w] - 1) \subseteq handled[row[w].id]

(* The phase of an event in the eyes of those who publish and subscribe. *)
PhaseOf(s) ==
  CASE s = "absent" -> "unrecorded"
    [] s = "published" -> "acknowledged"
    [] s = "dead" -> "abandoned"
    [] OTHER -> "open"

Delivery == INSTANCE AtLeastOnceDelivery WITH
  phase <- [e \in Events |-> PhaseOf(status[e])],
  handled <- handled

(* The outbox delivers at least once and in order. *)
DeliverySpec == Delivery!Spec

(* An event whose transaction committed is handled by every subscriber or  *)
(* ends up dead; it is never just forgotten (docs/jobs-notifications.md).  *)
EventuallyHandled ==
  \A e \in Events : status[e] # "absent" ~> (status[e] = "dead" \/ handled[e] = 1..Len(Route[e]))
=============================================================================
