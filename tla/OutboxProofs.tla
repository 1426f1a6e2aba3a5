---------------------------- MODULE OutboxProofs ----------------------------
(* Theorems about Outbox, for any events, routes, workers and budgets.      *)
EXTENDS Outbox, SequenceTheorems, TLAPS

(* Every event has a route, and its length is a number.                     *)
LEMMA RouteType == Route \in [Events -> Seq(STRING)] /\ \A e \in Events : Len(Route[e]) \in Nat
  BY EventsAssumption, ConcatProperties DEF Route

(* The row of a claim names an event and never exhausts it: it has no       *)
(* maxAttempts.                                                             *)
LEMMA RowShape ==
  ASSUME NEW r \in Rows
  PROVE  r.id \in Events /\ r.attempts \in 0..AttemptCap /\ ~Exhausted(r)
  BY DEF Rows, Exhausted

(* A worker that is at an event holds its row.                              *)
LEMMA HoldsRow ==
  ASSUME TypeOK, NEW w \in Workers, pc[w] \notin {"idle", "down"}
  PROVE  /\ row[w] \in Rows /\ row[w].id \in Events /\ row[w].attempts \in 0..AttemptCap
         /\ ~Exhausted(row[w]) /\ row[w] # NoRow
  BY NullRowAssumption, RowShape DEF TypeOK

(* The initial state is typed.                                              *)
LEMMA InitTypeOK == Init => TypeOK
  BY BackoffAssumption, RouteType DEF Init, TypeOK, Statuses, WorkerStates

(* Every step keeps the types.                                              *)
LEMMA NextTypeOK == TypeOK /\ [Next]_vars => TypeOK'
<1> SUFFICES ASSUME TypeOK, [Next]_vars PROVE TypeOK'
  OBVIOUS
<1> USE NullRowAssumption
<1>r. \A e \in Events : Len(Route[e]) \in Nat
  BY RouteType
<1>b. /\ AttemptCap \in Nat /\ Horizon \in Nat /\ StaleAfter \in Nat \ {0}
      /\ MaxAttempts \in [Events -> 1..(AttemptCap - 1)]
  BY BackoffAssumption, EventsAssumption
<1>1. ASSUME NEW e \in Events, Publish(e) PROVE TypeOK'
  BY <1>1 DEF TypeOK, Publish, Statuses
<1>2. ASSUME NEW w \in Workers, NEW e \in Events, ClaimNext(w, e) PROVE TypeOK'
  <2> DEFINE n == Least(AttemptCap, attempts[e] + 1)
  <2> DEFINE r == [id |-> e, attempts |-> n, max_attempts |-> MaxAttempts[e]]
  <2>1. n \in 0..AttemptCap
    BY <1>b DEF TypeOK, Least
  <2>2. r \in Rows /\ r # NoRow /\ r.id = e
    BY <1>b, <2>1 DEF Rows
  <2>3. row' = [row EXCEPT ![w] = r] /\ attempts' = [attempts EXCEPT ![e] = n]
    BY <1>2 DEF ClaimNext
  <2> HIDE DEF n, r
  <2>4. row' \in [Workers -> Rows \union {NoRow}] /\ attempts' \in [Events -> 0..AttemptCap]
    BY <2>1, <2>2, <2>3 DEF TypeOK
  <2>5. pc' \in [Workers -> WorkerStates]
        /\ \A v \in Workers : row'[v] = NoRow <=> pc'[v] \in {"idle", "down"}
    BY <1>2, <2>2, <2>3 DEF TypeOK, ClaimNext, WorkerStates
  <2>6. next' \in [Workers -> Nat \ {0}]
        /\ \A v \in Workers : row'[v] # NoRow => next'[v] <= Len(Route[row'[v].id]) + 1
    BY <1>2, <1>r, <2>2, <2>3 DEF TypeOK, ClaimNext
  <2>7. QED
    BY <1>2, <1>b, <2>4, <2>5, <2>6 DEF TypeOK, ClaimNext, Statuses
<1>3. ASSUME NEW w \in Workers, SubscriberReturns(w) PROVE TypeOK'
  <2>1. row[w] \in Rows /\ row[w] # NoRow /\ row[w].id \in Events
    BY <1>3, HoldsRow DEF SubscriberReturns, Calling
  <2>2. next[w] \in 1..Len(Route[row[w].id])
    BY <1>3, <1>r, <2>1 DEF TypeOK, SubscriberReturns, Calling
  <2>3. next' \in [Workers -> Nat \ {0}]
        /\ \A v \in Workers : row'[v] # NoRow => next'[v] <= Len(Route[row'[v].id]) + 1
    BY <1>3, <1>r, <2>1, <2>2 DEF TypeOK, SubscriberReturns
  <2>4. handled' \in [Events -> SUBSET Nat] /\ \A e \in Events : handled'[e] \subseteq 1..Len(Route[e])
    BY <1>3, <1>r, <2>1, <2>2 DEF TypeOK, SubscriberReturns
  <2>5. QED
    BY <1>3, <2>3, <2>4 DEF TypeOK, SubscriberReturns, table
<1>4. ASSUME NEW w \in Workers, SubscriberThrows(w) PROVE TypeOK'
  <2>1. row[w] \in Rows /\ row[w] # NoRow /\ row[w].id \in Events
    BY <1>4, HoldsRow DEF SubscriberThrows, Calling
  <2>2. next[w] \in 1..Len(Route[row[w].id])
    BY <1>4, <1>r, <2>1 DEF TypeOK, SubscriberThrows, Calling
  <2>3. handled' \in [Events -> SUBSET Nat] /\ \A e \in Events : handled'[e] \subseteq 1..Len(Route[e])
    <3>1. CASE handled' = handled
      BY <3>1 DEF TypeOK
    <3>2. CASE handled' = [handled EXCEPT ![row[w].id] = @ \union {next[w]}]
      BY <3>2, <1>r, <2>1, <2>2 DEF TypeOK
    <3>3. QED
      BY <1>4, <3>1, <3>2 DEF SubscriberThrows
  <2>4. pc' \in [Workers -> WorkerStates]
        /\ \A v \in Workers : row'[v] = NoRow <=> pc'[v] \in {"idle", "down"}
    BY <1>4, <2>1 DEF TypeOK, SubscriberThrows, Calling, WorkerStates
  <2>5. QED
    BY <1>4, <2>3, <2>4 DEF TypeOK, SubscriberThrows, table
<1>rel. ASSUME NEW w \in Workers, Release(w)
        PROVE  /\ row' \in [Workers -> Rows \union {NoRow}]
               /\ pc' \in [Workers -> WorkerStates]
               /\ \A v \in Workers : row'[v] = NoRow <=> pc'[v] \in {"idle", "down"}
               /\ next' \in [Workers -> Nat \ {0}]
               /\ \A v \in Workers : row'[v] # NoRow => next'[v] <= Len(Route[row'[v].id]) + 1
  BY <1>rel DEF TypeOK, Release, WorkerStates
<1>5. ASSUME NEW w \in Workers, MarkPublished(w) PROVE TypeOK'
  <2>1. row[w].id \in Events /\ Release(w)
    BY <1>5, HoldsRow DEF MarkPublished
  <2>2. status' \in [Events -> Statuses] /\ lockAge' \in [Events -> 0..StaleAfter]
    BY <1>5, <1>b, <2>1 DEF TypeOK, MarkPublished, Statuses
  <2>3. QED
    BY <1>5, <1>rel, <2>1, <2>2 DEF TypeOK, MarkPublished
<1>6. ASSUME NEW w \in Workers, MarkPublishedThrows(w) PROVE TypeOK'
  BY <1>6, <1>b DEF TypeOK, MarkPublishedThrows, WorkerStates, table
<1>7. ASSUME NEW w \in Workers, MarkFailed(w) PROVE TypeOK'
  <2>1. row[w].id \in Events /\ ComputeBackoff(row[w].attempts) \in 0..Horizon
    BY <1>7, HoldsRow, BackoffAssumption DEF MarkFailed
  <2>2. Release(w) /\ UNCHANGED <<attempts, handled>>
    BY <1>7 DEF MarkFailed
  <2>3. lockAge' \in [Events -> 0..StaleAfter]
    BY <1>7, <1>b, <2>1 DEF TypeOK, MarkFailed
  <2>4. status' \in [Events -> Statuses] /\ dueIn' \in [Events -> 0..Horizon]
    BY <1>7, <2>1 DEF TypeOK, MarkFailed, Statuses
  <2>5. QED
    BY <1>rel, <2>1, <2>2, <2>3, <2>4 DEF TypeOK
<1>8. ASSUME NEW w \in Workers, Crash(w) \/ Restart(w) PROVE TypeOK'
  <2>1. CASE Crash(w)
    <3>1. /\ row' \in [Workers -> Rows \union {NoRow}]
          /\ pc' \in [Workers -> WorkerStates]
          /\ \A v \in Workers : row'[v] = NoRow <=> pc'[v] \in {"idle", "down"}
      BY <2>1 DEF TypeOK, Crash, WorkerStates
    <3>2. /\ next' \in [Workers -> Nat \ {0}]
          /\ \A v \in Workers : row'[v] # NoRow => next'[v] <= Len(Route[row'[v].id]) + 1
      BY <2>1 DEF TypeOK, Crash
    <3>3. QED
      BY <2>1, <3>1, <3>2 DEF TypeOK, Crash, table
  <2>2. CASE Restart(w)
    BY <2>2, <1>b DEF TypeOK, Restart, WorkerStates, table
  <2>3. QED
    BY <1>8, <2>1, <2>2
<1>9. ASSUME NEW w \in Workers, RecoverStale(w) PROVE TypeOK'
  BY <1>9, <1>b DEF TypeOK, RecoverStale, Statuses
<1>10. ASSUME Tick PROVE TypeOK'
  BY <1>10, <1>b DEF TypeOK, Tick, Greatest, Least
<1>11. CASE UNCHANGED vars
  BY <1>11, <1>b DEF TypeOK, vars
<1>12. QED
  BY <1>1, <1>2, <1>3, <1>4, <1>5, <1>6, <1>7, <1>8, <1>9, <1>10, <1>11 DEF Next, Worker

(* The outbox and its workers keep their types, for any constants.          *)
THEOREM TypeCorrect == Spec => []TypeOK
  BY InitTypeOK, NextTypeOK, PTL DEF Spec
-----------------------------------------------------------------------------
(* What a worker passed is handled, and it passes subscribers in order.     *)
HandledInv == PassedIsHandled /\ InOrder /\ PublishedIsHandled

(* No step disorders what is handled, and only a worker that has passed all *)
(* the subscribers of an event publishes it.                                *)
LEMMA NextHandled == TypeOK /\ HandledInv /\ [Next]_vars => HandledInv'
<1> SUFFICES ASSUME TypeOK, HandledInv, [Next]_vars PROVE HandledInv'
  OBVIOUS
<1> USE DEF HandledInv, PassedIsHandled, InOrder, PublishedIsHandled
<1>r. \A e \in Events : Len(Route[e]) \in Nat
  BY RouteType
<1>1. ASSUME NEW e \in Events, Publish(e) PROVE HandledInv'
  BY <1>1 DEF TypeOK, Publish
<1>2. ASSUME NEW w \in Workers, NEW e \in Events, ClaimNext(w, e) PROVE HandledInv'
  <2>1. next' = [next EXCEPT ![w] = 1] /\ handled' = handled
        /\ (\A v \in Workers \ {w} : row'[v] = row[v])
        /\ status' = [status EXCEPT ![e] = "processing"]
    BY <1>2 DEF TypeOK, ClaimNext
  <2>2. QED
    BY <2>1 DEF TypeOK
<1>3. ASSUME NEW w \in Workers, SubscriberReturns(w) \/ SubscriberThrows(w) PROVE HandledInv'
  <2>1. row[w] # NoRow /\ row[w].id \in Events /\ Calling(w)
    BY <1>3, HoldsRow DEF SubscriberReturns, SubscriberThrows, Calling
  <2> DEFINE e == row[w].id
  <2>2. next[w] \in 1..Len(Route[e]) /\ 1..(next[w] - 1) \subseteq handled[e]
    BY <1>r, <2>1 DEF TypeOK, Calling
  <2>3. row' = row /\ status' = status
        /\ (handled' = handled \/ handled' = [handled EXCEPT ![e] = @ \union {next[w]}])
    BY <1>3 DEF SubscriberReturns, SubscriberThrows, table
  <2>4. /\ \A x \in Events : handled[x] \subseteq handled'[x]
        /\ \A x \in Events \ {e} : handled'[x] = handled[x]
        /\ handled'[e] \subseteq handled[e] \union {next[w]}
    <3>1. handled \in [Events -> SUBSET Nat]
      BY DEF TypeOK
    <3>2. QED
      BY <2>1, <2>3, <3>1
  <2>5. PassedIsHandled'
    <3>1. CASE SubscriberReturns(w)
      <4>1. next' = [next EXCEPT ![w] = @ + 1] /\ next[w] \in handled'[e]
        BY <3>1, <2>1 DEF TypeOK, SubscriberReturns
      <4>2. ASSUME NEW v \in Workers, v # w, row'[v] # NoRow
            PROVE  1..(next'[v] - 1) \subseteq handled'[row'[v].id]
        <5>1. next'[v] = next[v] /\ row[v].id \in Events /\ row[v] # NoRow
          BY <4>1, <4>2, <2>3, RowShape DEF TypeOK
        <5>2. QED
          BY <5>1, <2>3, <2>4
      <4>3. 1..(next'[w] - 1) \subseteq handled'[row'[w].id]
        BY <4>1, <2>1, <2>2, <2>3, <2>4 DEF TypeOK
      <4>4. QED
        BY <4>2, <4>3
    <3>2. CASE SubscriberThrows(w)
      <4>1. next' = next
        BY <3>2 DEF SubscriberThrows
      <4>2. \A v \in Workers : row[v] # NoRow => row[v].id \in Events
        BY RowShape DEF TypeOK
      <4>3. QED
        BY <4>1, <4>2, <2>3, <2>4
    <3>3. QED
      BY <1>3, <3>1, <3>2
  <2>6. InOrder'
    <3>1. SUFFICES ASSUME NEW x \in Events, NEW i \in handled'[x] PROVE 1..i \subseteq handled'[x]
      OBVIOUS
    <3>2. CASE i \in handled[x]
      BY <2>4, <3>2
    <3>3. CASE i \notin handled[x]
      <4>1. x = e /\ i = next[w]
        BY <2>4, <3>3
      <4>2. \A k \in 1..i : k = i \/ k \in 1..(next[w] - 1)
        BY <2>2, <1>r, <2>1, <4>1
      <4>3. QED
        BY <2>2, <2>4, <4>1, <4>2
    <3>4. QED
      BY <3>2, <3>3
  <2>7. PublishedIsHandled'
    <3>1. SUFFICES ASSUME NEW x \in Events, status[x] = "published"
                   PROVE handled'[x] = 1..Len(Route[x])
      BY <2>3
    <3>2. handled[x] = 1..Len(Route[x])
      BY <3>1
    <3>3. QED
      <4>1. CASE x = e
        <5>1. handled'[e] \subseteq 1..Len(Route[e]) /\ 1..Len(Route[e]) \subseteq handled'[e]
          BY <2>1, <2>2, <2>4, <3>2, <4>1
        <5>2. QED
          BY <4>1, <5>1
      <4>2. CASE x # e
        BY <2>4, <3>2, <4>2
      <4>3. QED
        BY <4>1, <4>2
  <2>8. QED
    BY <2>5, <2>6, <2>7
<1>5. ASSUME NEW w \in Workers, MarkPublished(w) PROVE HandledInv'
  <2>1. row[w] # NoRow /\ row[w].id \in Events /\ ~Calling(w) /\ pc[w] = "dispatching"
    BY <1>5, HoldsRow DEF MarkPublished
  <2> DEFINE e == row[w].id
  <2>2. next[w] = Len(Route[e]) + 1
    BY <1>r, <2>1 DEF TypeOK, Calling
  <2>3. handled[e] = 1..Len(Route[e])
    <3>1. 1..(next[w] - 1) \subseteq handled[e] /\ handled[e] \subseteq 1..Len(Route[e])
      BY <2>1 DEF TypeOK
    <3>2. next[w] - 1 = Len(Route[e])
      BY <1>r, <2>1, <2>2
    <3>3. QED
      BY <3>1, <3>2
  <2>4. /\ row' = [row EXCEPT ![w] = NoRow] /\ next' = [next EXCEPT ![w] = 1]
        /\ status' = [status EXCEPT ![e] = "published"] /\ handled' = handled
    BY <1>5 DEF MarkPublished, Release
  <2>5. PassedIsHandled'
    BY <2>4 DEF TypeOK
  <2>6. QED
    BY <2>3, <2>4, <2>5 DEF TypeOK
<1>6. ASSUME NEW w \in Workers, MarkPublishedThrows(w) \/ Crash(w) \/ Restart(w)
      PROVE HandledInv'
  <2>1. status' = status /\ handled' = handled
    BY <1>6 DEF MarkPublishedThrows, Crash, Restart, table
  <2>2. \/ row' = row /\ next' = next
        \/ row' = [row EXCEPT ![w] = NoRow] /\ next' = [next EXCEPT ![w] = 1]
    BY <1>6 DEF MarkPublishedThrows, Crash, Restart
  <2>3. PassedIsHandled'
    BY <2>1, <2>2 DEF TypeOK
  <2>4. QED
    BY <2>1, <2>3
<1>7. ASSUME NEW w \in Workers, MarkFailed(w) PROVE HandledInv'
  BY <1>7, HoldsRow DEF TypeOK, MarkFailed, Release
<1>8. ASSUME NEW w \in Workers, RecoverStale(w) PROVE HandledInv'
  BY <1>8 DEF TypeOK, RecoverStale, Stale
<1>9. ASSUME UNCHANGED <<status, row, next, handled>> PROVE HandledInv'
  BY <1>9
<1>10. QED
  BY <1>1, <1>2, <1>3, <1>5, <1>6, <1>7, <1>8, <1>9 DEF Next, Worker, Tick, vars

(* HandledInv holds throughout.                                             *)
LEMMA HandledCorrect == Spec => []HandledInv
<1>1. Init => HandledInv
  BY NullRowAssumption
  DEF Init, HandledInv, PassedIsHandled, InOrder, PublishedIsHandled
<1>2. QED
  BY <1>1, NextHandled, TypeCorrect, PTL DEF Spec

(* A published event was handled by its whole route, zombies included.      *)
THEOREM PublishedCorrect == Spec => []PublishedIsHandled
<1>1. HandledInv => PublishedIsHandled
  BY DEF HandledInv
<1>2. QED
  BY <1>1, HandledCorrect, PTL

(* Subscribers see an event in the order of its route.                      *)
THEOREM InOrderCorrect == Spec => []InOrder
<1>1. HandledInv => InOrder
  BY DEF HandledInv
<1>2. QED
  BY <1>1, HandledCorrect, PTL
-----------------------------------------------------------------------------
(* An event that a worker holds was published.                              *)
HeldIsRecorded == \A w \in Workers : row[w] # NoRow => status[row[w].id] # "absent"

(* No step forgets an event.                                                *)
LEMMA NextRecorded == TypeOK /\ HeldIsRecorded /\ [Next]_vars => HeldIsRecorded'
<1> SUFFICES ASSUME TypeOK, HeldIsRecorded, [Next]_vars PROVE HeldIsRecorded'
  OBVIOUS
<1>1. \A v \in Workers : row[v] # NoRow => row[v].id \in Events
  BY RowShape DEF TypeOK
<1>2. \A e \in Events : status[e] # "absent" => status'[e] # "absent"
  <2>1. ASSUME NEW w \in Workers, MarkPublished(w) \/ MarkFailed(w) \/ RecoverStale(w)
        PROVE  \A e \in Events : status[e] # "absent" => status'[e] # "absent"
    BY <2>1 DEF TypeOK, MarkPublished, MarkFailed, RecoverStale
  <2>2. ASSUME NEW w \in Workers, NEW e \in Events, ClaimNext(w, e)
        PROVE  \A x \in Events : status[x] # "absent" => status'[x] # "absent"
    BY <2>2 DEF TypeOK, ClaimNext
  <2>3. ASSUME NEW e \in Events, Publish(e)
        PROVE  \A x \in Events : status[x] # "absent" => status'[x] # "absent"
    BY <2>3 DEF TypeOK, Publish
  <2>4. QED
    BY <2>1, <2>2, <2>3
    DEF Next, Worker, Tick, SubscriberReturns, SubscriberThrows, MarkPublishedThrows,
        Crash, Restart, table, vars
<1>3. ASSUME NEW v \in Workers, row'[v] # NoRow
      PROVE  row'[v] = row[v] \/ (row'[v].id \in Events /\ status[row'[v].id] # "absent")
  <2> DEFINE goal == row'[v] = row[v] \/ (row'[v].id \in Events /\ status[row'[v].id] # "absent")
  <2>1. ASSUME NEW w \in Workers, NEW e \in Events, ClaimNext(w, e) PROVE goal
    BY <2>1 DEF TypeOK, ClaimNext
  <2>2. ASSUME NEW w \in Workers, MarkPublished(w) \/ MarkFailed(w) \/ Crash(w) PROVE goal
    BY <2>2, <1>3 DEF TypeOK, MarkPublished, MarkFailed, Release, Crash
  <2>3. QED
    BY <2>1, <2>2
    DEF Next, Worker, Publish, Tick, SubscriberReturns, SubscriberThrows, MarkPublishedThrows,
        RecoverStale, Restart, table, vars
<1>4. QED
  BY <1>1, <1>2, <1>3 DEF HeldIsRecorded

(* The part of the state that the abstract specification talks about stays  *)
(* in step with it: the invariants that the refinement needs.               *)
RefInv == TypeOK /\ HandledInv /\ HeldIsRecorded

(* The phase of every status.                                               *)
LEMMA Phases ==
  /\ PhaseOf("absent") = "unrecorded" /\ PhaseOf("published") = "acknowledged"
  /\ PhaseOf("dead") = "abandoned"
  /\ PhaseOf("pending") = "open" /\ PhaseOf("processing") = "open"
  /\ \A s \in Statuses : s # "absent" => PhaseOf(s) # "unrecorded"
  BY DEF PhaseOf, Statuses

(* A step of the outbox is a step of the abstract delivery, or none.        *)
LEMMA NextRefines == RefInv /\ [Next]_vars => [Delivery!Next]_(Delivery!vars)
<1> SUFFICES ASSUME RefInv, [Next]_vars PROVE [Delivery!Next]_(Delivery!vars)
  OBVIOUS
<1> USE Phases
<1>t. TypeOK /\ HandledInv /\ HeldIsRecorded /\ status \in [Events -> Statuses]
  BY DEF RefInv, TypeOK
<1>1. ASSUME NEW e \in Events, Publish(e) PROVE Delivery!Record(e)
  BY <1>1, <1>t DEF Publish, Delivery!Record
<1>2. ASSUME NEW w \in Workers, NEW e \in Events, ClaimNext(w, e)
      PROVE  UNCHANGED Delivery!vars
  BY <1>2, <1>t DEF ClaimNext, Delivery!vars
<1>h. ASSUME NEW w \in Workers, Calling(w), UNCHANGED status,
             handled' = [handled EXCEPT ![row[w].id] = @ \union {next[w]}]
      PROVE  \E e \in Events : \E i \in Delivery!Positions(e) : Delivery!Handle(e, i)
  <2>1. row[w] # NoRow /\ row[w].id \in Events
    BY <1>h, <1>t, HoldsRow DEF Calling
  <2>2. next[w] \in Delivery!Positions(row[w].id)
    BY <1>h, <1>t, <2>1, RouteType DEF TypeOK, Calling, Delivery!Positions
  <2>3. 1..(next[w] - 1) \subseteq handled[row[w].id] /\ status[row[w].id] # "absent"
    BY <1>t, <2>1 DEF HandledInv, PassedIsHandled, HeldIsRecorded
  <2>4. Delivery!Handle(row[w].id, next[w])
    BY <1>h, <1>t, <2>1, <2>3 DEF Delivery!Handle
  <2>5. QED
    BY <2>1, <2>2, <2>4
<1>3. ASSUME NEW w \in Workers, SubscriberReturns(w) \/ SubscriberThrows(w)
      PROVE  [Delivery!Next]_(Delivery!vars)
  <2>1. Calling(w) /\ UNCHANGED status
    BY <1>3 DEF SubscriberReturns, SubscriberThrows, table
  <2>2. CASE handled' = handled
    BY <2>1, <2>2 DEF Delivery!vars
  <2>3. CASE handled' = [handled EXCEPT ![row[w].id] = @ \union {next[w]}]
    BY <2>1, <2>3, <1>h DEF Delivery!Next
  <2>4. QED
    BY <1>3, <2>2, <2>3 DEF SubscriberReturns, SubscriberThrows
<1>5. ASSUME NEW w \in Workers, MarkPublished(w)
      PROVE  \E e \in Events : Delivery!Acknowledge(e)
  <2>1. row[w] # NoRow /\ row[w].id \in Events /\ ~Calling(w)
    BY <1>5, <1>t, HoldsRow DEF MarkPublished
  <2>2. status[row[w].id] # "absent"
    BY <1>t, <2>1 DEF HeldIsRecorded
  <2>3. status' = [status EXCEPT ![row[w].id] = "published"] /\ handled' = handled
    BY <1>5 DEF MarkPublished
  <2>4. HandledInv' /\ status'[row[w].id] = "published"
    BY <1>t, <2>1, <2>3, NextHandled
  <2>5. handled[row[w].id] = Delivery!Positions(row[w].id)
    BY <2>1, <2>3, <2>4 DEF HandledInv, PublishedIsHandled, Delivery!Positions
  <2>6. Delivery!Acknowledge(row[w].id)
    BY <1>t, <2>1, <2>2, <2>3, <2>5 DEF Delivery!Acknowledge
  <2>7. QED
    BY <2>1, <2>6
<1>7. ASSUME NEW w \in Workers, MarkFailed(w)
      PROVE  \E e \in Events : Delivery!Reopen(e)
  <2>1. row[w] # NoRow /\ row[w].id \in Events /\ ~Exhausted(row[w])
    BY <1>7, <1>t, HoldsRow DEF MarkFailed
  <2>2. status[row[w].id] # "absent"
    BY <1>t, <2>1 DEF HeldIsRecorded
  <2>3. status' = [status EXCEPT ![row[w].id] = "pending"] /\ handled' = handled
    BY <1>7, <2>1 DEF MarkFailed
  <2>4. Delivery!Reopen(row[w].id)
    BY <1>t, <2>1, <2>2, <2>3 DEF Delivery!Reopen
  <2>5. QED
    BY <2>1, <2>4
<1>8. ASSUME NEW w \in Workers, RecoverStale(w)
      PROVE  \E S \in SUBSET Events : Delivery!Abandon(S)
  <2> DEFINE S == {e \in Events : Stale(e) /\ OutOfAttempts(e)}
  <2>1. handled' = handled
        /\ status' = [e \in Events |-> IF ~Stale(e) THEN status[e]
                                       ELSE IF OutOfAttempts(e) THEN "dead" ELSE "pending"]
    BY <1>8 DEF RecoverStale
  <2>2. \A e \in Events : Stale(e) => status[e] = "processing"
    BY DEF Stale
  <2>3. ASSUME NEW e \in Events
        PROVE  PhaseOf(status'[e]) = IF e \in S THEN "abandoned" ELSE PhaseOf(status[e])
    <3>1. CASE e \in S
      <4>1. status'[e] = "dead"
        BY <2>1, <3>1
      <4>2. QED
        BY <3>1, <4>1
    <3>2. CASE e \notin S /\ Stale(e)
      <4>1. status'[e] = "pending" /\ status[e] = "processing"
        BY <2>1, <2>2, <3>2
      <4>2. QED
        BY <3>2, <4>1
    <3>3. CASE e \notin S /\ ~Stale(e)
      <4>1. status'[e] = status[e]
        BY <2>1, <3>3
      <4>2. QED
        BY <3>3, <4>1
    <3>4. QED
      BY <3>1, <3>2, <3>3
  <2>4. \A e \in S : e \in Events /\ PhaseOf(status[e]) = "open"
    BY <2>2
  <2> HIDE DEF S
  <2>5. Delivery!Abandon(S)
    BY <2>1, <2>3, <2>4 DEF Delivery!Abandon
  <2>6. S \in SUBSET Events
    BY DEF S
  <2>7. QED
    BY <2>5, <2>6
<1>9. ASSUME UNCHANGED <<status, handled>> PROVE UNCHANGED Delivery!vars
  BY <1>9 DEF Delivery!vars
<1>10. QED
  BY <1>1, <1>2, <1>3, <1>5, <1>7, <1>8, <1>9
  DEF Next, Worker, Tick, MarkPublishedThrows, Crash, Restart, table, vars, Delivery!Next

(* The outbox implements at-least-once, in-order delivery, whatever its     *)
(* workers, crashes, stale locks and recoveries do.                         *)
THEOREM Refinement == Spec => DeliverySpec
<1>1. Init => Delivery!Init
  BY Phases DEF Init, Delivery!Init
<1>2. Init => HeldIsRecorded
  BY DEF Init, HeldIsRecorded
<1>3. Spec => []HeldIsRecorded
  BY <1>2, NextRecorded, TypeCorrect, PTL DEF Spec
<1>4. TypeOK /\ HandledInv /\ HeldIsRecorded => RefInv
  BY DEF RefInv
<1>5. QED
  BY <1>1, <1>3, <1>4, NextRefines, TypeCorrect, HandledCorrect, PTL
  DEF Spec, DeliverySpec, Delivery!Spec
=============================================================================
