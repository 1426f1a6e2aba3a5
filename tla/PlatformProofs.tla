---------------------------- MODULE PlatformProofs ----------------------------
(* Theorems of Platform, for any systems, builds, requests, values and     *)
(* events, each about the part of the sum that has the property.           *)
EXTENDS Platform, SequenceTheorems, Recursion

-----------------------------------------------------------------------------
(* The history of a row.                                                   *)

(* The history has as many rows as the current version says, one of each;  *)
(* a request that is about to append one has counted from a version that   *)
(* was current, which need not be the last.                                *)
Counted(r) ==
  /\ request[r].at = "write" => request[r].row = "setting"
  /\ request[r].at \in {"upsert", "append"} =>
       /\ request[r].row \in V!Rows
       /\ request[r].version \in 1..(current[request[r].row].version + 1)

HistoryInv ==
  /\ DOMAIN current = V!Rows /\ DOMAIN versions = V!Rows /\ DOMAIN request = Requests
  /\ \A k \in V!Rows :
       /\ current[k].version \in Nat
       /\ IsFiniteSet(versions[k])
       /\ {v.version : v \in versions[k]} = 1..current[k].version
       /\ Cardinality(versions[k]) = current[k].version
       /\ V!Exists(k) => current[k] \in versions[k]
  /\ \A r \in Requests : Counted(r)

(* The instance of Revisions counts as the library does.                    *)
LEMMA RowCount == \A S : V!Cardinality(S) = Cardinality(S)
  BY DEF V!Cardinality, Cardinality

(* At first no row has a version and no history.                            *)
LEMMA HistoryInit == V!Init => HistoryInv
<1> SUFFICES ASSUME V!Init PROVE HistoryInv
  OBVIOUS
<1>1. ASSUME NEW k \in V!Rows PROVE current[k].version = 0 /\ versions[k] = {}
  BY DEF V!Init
<1>2. {v.version : v \in {}} = 1..0
  OBVIOUS
<1> QED
  BY <1>1, <1>2, FS_EmptySet DEF V!Init, V!Idle, V!Exists, HistoryInv, Counted

(* A request that does not commit changes nothing but itself and locks.    *)
LEMMA HistoryLook ==
  ASSUME HistoryInv, NEW r \in Requests, NEW s, V!Become(r, s), UNCHANGED V!tables,
         s.at = "write" => s.row = "setting",
         s.at \in {"upsert", "append"} =>
           s.row \in V!Rows /\ s.version \in 1..(current[s.row].version + 1)
  PROVE  HistoryInv'
<1>1. /\ \A q \in Requests : request'[q] = IF q = r THEN s ELSE request[q]
      /\ DOMAIN request' = Requests
  BY DEF V!Become, HistoryInv
<1>2. current' = current /\ versions' = versions
  BY DEF V!tables
<1>3. \A q \in Requests : Counted(q)'
  BY <1>1, <1>2 DEF HistoryInv, Counted
<1> QED
  BY <1>1, <1>2, <1>3 DEF HistoryInv, V!Exists

(* The transaction that writes the profile writes the one row of history    *)
(* that belongs to it.                                                      *)
LEMMA HistoryCommit ==
  ASSUME HistoryInv, NEW r \in Requests, V!Commit(r)
  PROVE  HistoryInv'
<1> DEFINE k == request[r].row
           n == current[k].version
           saved == [version |-> request[r].version, value |-> request[r].value]
<1>1. CASE \E v \in versions[k] : v.version = saved.version
  <2>1. V!Abort(r)
    BY <1>1 DEF V!Commit
  <2> QED
    BY <2>1, HistoryLook DEF V!Abort, V!Idle
<1>2. CASE \A v \in versions[k] : v.version # saved.version
  <2>1. /\ current' = [current EXCEPT ![k] = saved]
        /\ versions' = [versions EXCEPT ![k] = versions[k] \cup {saved}]
        /\ request' = [request EXCEPT ![r] = V!Idle]
    BY <1>2 DEF V!Commit, V!Become
  <2>2. k \in V!Rows /\ n \in Nat /\ request[r].version \in 1..(n + 1)
    BY DEF V!Commit, V!At, HistoryInv, Counted
  <2>3. {v.version : v \in versions[k]} = 1..n
    BY <2>2 DEF HistoryInv
  <2>4. saved.version = n + 1
    <3>1. request[r].version \notin 1..n
      BY <1>2, <2>3
    <3> QED
      BY <2>2, <3>1
  <2> HIDE DEF saved, k, n
  <2>5. saved \notin versions[k]
    BY <1>2
  <2>6. IsFiniteSet(versions[k] \cup {saved}) /\ Cardinality(versions[k] \cup {saved}) = n + 1
    BY <2>2, <2>5, FS_AddElement DEF HistoryInv, n
  <2>7. {v.version : v \in versions[k] \cup {saved}} = 1..(n + 1)
    <3>1. 1..(n + 1) = (1..n) \cup {n + 1}
      BY <2>2
    <3> QED
      BY <2>3, <2>4, <3>1
  <2>8. ASSUME NEW j \in V!Rows
        PROVE  /\ current'[j] = IF j = k THEN saved ELSE current[j]
               /\ versions'[j] = IF j = k THEN versions[k] \cup {saved} ELSE versions[j]
    BY <2>1 DEF HistoryInv
  <2>9. ASSUME NEW q \in Requests PROVE Counted(q)'
    <3>1. CASE q = r
      BY <2>1, <3>1 DEF HistoryInv, Counted, V!Idle
    <3>2. CASE q # r
      <4>1. request'[q] = request[q]
        BY <2>1, <3>2 DEF HistoryInv
      <4>2. \A j \in V!Rows : current[j].version \in Nat
              /\ current'[j].version \in Nat /\ current[j].version <= current'[j].version
        BY <2>2, <2>4, <2>8 DEF HistoryInv, n
      <4> QED
        BY <4>1, <4>2 DEF HistoryInv, Counted
    <3> QED
      BY <3>1, <3>2
  <2>10. DOMAIN current' = V!Rows /\ DOMAIN versions' = V!Rows /\ DOMAIN request' = Requests
    BY <2>1 DEF HistoryInv
  <2>11. ASSUME NEW j \in V!Rows
         PROVE /\ current'[j].version \in Nat
               /\ IsFiniteSet(versions'[j])
               /\ {v.version : v \in versions'[j]} = 1..current'[j].version
               /\ Cardinality(versions'[j]) = current'[j].version
               /\ V!Exists(j)' => current'[j] \in versions'[j]
    <3>1. CASE j = k
      <4>1. current'[j] = saved /\ versions'[j] = versions[k] \cup {saved}
        BY <2>8, <3>1
      <4>2. saved.version \in Nat
        BY <2>2, <2>4
      <4>3. saved \in versions[k] \cup {saved}
        OBVIOUS
      <4> QED
        BY <2>4, <2>6, <2>7, <4>1, <4>2, <4>3, Zenon
    <3>2. CASE j # k
      BY <2>8, <3>2 DEF HistoryInv, V!Exists
    <3> QED
      BY <3>1, <3>2
  <2> QED
    BY <2>9, <2>10, <2>11 DEF HistoryInv
<1> QED
  BY <1>1, <1>2

(* Every step of the profile keeps its history fitting its revision.        *)
LEMMA HistoryNext == HistoryInv /\ [V!Next]_revisions => HistoryInv'
<1> SUFFICES ASSUME HistoryInv, [V!Next]_revisions PROVE HistoryInv'
  OBVIOUS
<1>0. CASE UNCHANGED revisions
  BY <1>0 DEF revisions, HistoryInv, Counted, V!Exists
<1>1. ASSUME NEW r \in Requests, NEW value \in Values, V!BeginSetting(r, value) PROVE HistoryInv'
  BY <1>1, HistoryLook DEF V!BeginSetting
<1>2. ASSUME NEW r \in Requests, NEW value \in Values, V!BeginProfile(r, value) PROVE HistoryInv'
  <2>1. "profile" \in V!Rows /\ current["profile"].version \in Nat
    BY DEF HistoryInv, V!Rows
  <2> QED
    BY <1>2, <2>1, HistoryLook DEF V!BeginProfile
<1>3. ASSUME NEW r \in Requests, V!WriteSetting(r) PROVE HistoryInv'
  <2>1. "setting" \in V!Rows /\ current["setting"].version \in Nat
    BY DEF HistoryInv, V!Rows
  <2>2. CASE V!Abort(r)
    BY <2>2, HistoryLook DEF V!Abort, V!Idle
  <2>3. CASE /\ V!Become(r, [at |-> "append", row |-> "setting", value |-> request[r].value,
                             version |-> current["setting"].version + 1])
             /\ UNCHANGED V!tables
    BY <2>1, <2>3, HistoryLook
  <2> QED
    BY <1>3, <2>2, <2>3 DEF V!WriteSetting
<1>4. ASSUME NEW r \in Requests, V!UpsertProfile(r) PROVE HistoryInv'
  <2> DEFINE s == [request[r] EXCEPT !.at = "append"]
  <2>1. request[r].row \in V!Rows
        /\ request[r].version \in 1..(current[request[r].row].version + 1)
    BY <1>4 DEF V!UpsertProfile, V!At, HistoryInv, Counted
  <2>2. s.row = request[r].row /\ s.version = request[r].version /\ s.at # "write"
    BY <1>4 DEF V!UpsertProfile, V!At
  <2> QED
    BY <1>4, <2>1, <2>2, HistoryLook DEF V!UpsertProfile
<1>5. ASSUME NEW r \in Requests, V!Rollback(r) PROVE HistoryInv'
  BY <1>5, HistoryLook DEF V!Rollback, V!Abort, V!Idle
<1> QED
  BY <1>0, <1>1, <1>2, <1>3, <1>4, <1>5, HistoryCommit DEF V!Next, revisions

(* The history of a row is complete, however saves overlap and fail.       *)
THEOREM HistoryCorrect == Spec => []HistoryIsComplete
<1>1. Init => HistoryInv
  BY HistoryInit DEF Init
<1>2. HistoryInv /\ [Next]_vars => HistoryInv'
  BY HistoryNext DEF Next, vars
<1>3. HistoryInv => HistoryIsComplete
  BY RowCount DEF HistoryInv, HistoryIsComplete, V!HistoryIsComplete
<1> QED
  BY <1>1, <1>2, <1>3, PTL DEF Spec

-----------------------------------------------------------------------------
(* The heartbeats of a worker.                                             *)

(* After the signal no heartbeat is sent but the last, and the loop is     *)
(* left only for the signal or with an error.                              *)
WorkerInv ==
  /\ at = "created" => seen = "none" /\ beats = {} /\ ~timer
  /\ at = "listening" => ~timer /\ (stopping => early)
  /\ stopping => ~timer
  /\ at \in {"closing", "ending", "ended"} => stopping \/ failed
  /\ stopping /\ ~missed /\ ~early /\ ~failed =>
       /\ "healthy" \notin beats
       /\ "stopping" \in beats \/ seen \in {"stopping", "none"}
  /\ beats \subseteq {"healthy", "stopping"}
  /\ at \in {"ending", "ended"} => ~timer
  /\ at = "ended" => beats = {}

(* Every step of the worker's loop keeps its invariant.                     *)
LEMMA WorkerNext == WorkerInv /\ [W!Next]_worker => WorkerInv'
<1> SUFFICES ASSUME WorkerInv, [W!Next]_worker PROVE WorkerInv'
  OBVIOUS
<1>0. CASE UNCHANGED worker
  BY <1>0 DEF worker, WorkerInv
<1>1. CASE W!Run
  <2>1. /\ at = "created" /\ at' = "listening" /\ ~stopping
        /\ UNCHANGED <<stopping, failed, timer, beats, seen, missed, early>>
    BY <1>1, Zenon DEF W!Run, W!health
  <2> QED
    BY <2>1 DEF WorkerInv
<1>12. CASE W!Listened
  <2>1. /\ at = "listening" /\ at' = "starting"
        /\ UNCHANGED <<stopping, failed, timer, seen, missed, early>>
    BY <1>12, Zenon DEF W!Listened
  <2>2. beats' = beats \cup {"healthy"}
    BY <1>12 DEF W!Listened
  <2> QED
    BY <2>1, <2>2 DEF WorkerInv
<1>2. CASE W!Started
  <2>1. at = "starting" /\ at' \in {"closing", "recover"} /\ (stopping \/ at' # "closing")
        /\ UNCHANGED <<stopping, failed, beats, seen, missed, early>>
    BY <1>2 DEF W!Started, W!Turn
  <2>2. stopping => ~timer'
    BY <1>2, Zenon DEF W!Started
  <2> QED
    BY <2>1, <2>2 DEF WorkerInv
<1>3. CASE W!Throw
  <2>1. at' = "closing" /\ failed' /\ UNCHANGED <<stopping, timer, beats, seen, missed, early>>
    BY <1>3, Zenon DEF W!Throw, W!health
  <2> QED
    BY <2>1 DEF WorkerInv
<1>4. ASSUME NEW found, NEW e,
             W!Recover(found) \/ W!ClaimEvent(e) \/ W!NoEvent \/ W!ClaimJob \/ W!NoJob
             \/ W!Dispatched(e) \/ W!DispatchFails(e) \/ W!Executed \/ W!Wake
      PROVE  WorkerInv'
  <2>1. /\ at \in {"recover", "outbox", "dispatch", "job", "execute", "sleeping"}
        /\ UNCHANGED <<stopping, failed, timer, beats, seen, missed, early>>
    BY <1>4 DEF W!Recover, W!ClaimEvent, W!NoEvent, W!ClaimJob, W!NoJob, W!Dispatched,
                W!DispatchFails, W!Executed, W!Wake, W!health
  <2>2. at' \in {"closing", "recover", "outbox", "dispatch", "job", "execute", "sleeping"}
        /\ (stopping \/ at' # "closing")
    BY <1>4 DEF W!Recover, W!ClaimEvent, W!NoEvent, W!ClaimJob, W!NoJob, W!Dispatched,
                W!DispatchFails, W!Executed, W!Wake, W!Turn
  <2> QED
    BY <2>1, <2>2 DEF WorkerInv
<1>5. CASE W!Close \/ W!End
  <2>1. /\ (at = "closing" /\ at' = "ending") \/ (at = "ending" /\ at' = "ended")
        /\ UNCHANGED <<stopping, failed, beats, seen, missed, early>> /\ (at' = "ended" => beats = {})
    BY <1>5 DEF W!Close, W!End, W!health
  <2>2. (at = "closing" /\ ~timer') \/ (at = "ending" /\ timer' = timer)
    BY <1>5, Zenon DEF W!Close, W!End, W!health
  <2> QED
    BY <2>1, <2>2 DEF WorkerInv
<1>6. CASE W!Beat
  BY <1>6 DEF W!Beat, W!loop, WorkerInv
<1>7. CASE W!Stop
  <2>1. /\ stopping' /\ ~timer' /\ UNCHANGED <<at, failed, seen>>
        /\ missed' <=> "healthy" \in beats
        /\ early' <=> at = "listening"
    BY <1>7, Zenon DEF W!Stop
  <2>2. beats' = IF W!Running THEN beats \cup {"stopping"} ELSE beats
    BY <1>7 DEF W!Stop
  <2> QED
    BY <1>7, <2>1, <2>2 DEF WorkerInv, W!Running, W!Stop
<1>8. CASE W!Dispose
  <2>1. stopping' /\ at = "created" /\ at' = "ended" /\ UNCHANGED <<failed, timer, beats, seen, missed, early>>
    BY <1>8, Zenon DEF W!Dispose, W!health
  <2> QED
    BY <2>1 DEF WorkerInv
<1>9. ASSUME NEW status \in beats, W!Written(status) PROVE WorkerInv'
  BY <1>9 DEF W!Written, W!loop, WorkerInv
<1>10. ASSUME NEW status \in beats, W!Lost(status) PROVE WorkerInv'
  <2>1. /\ beats' = beats \ {status} /\ UNCHANGED <<stopping, timer, seen, early>>
        /\ missed' <=> missed \/ status = "stopping"
    BY <1>10, Zenon DEF W!Lost
  <2>2. \/ at = "starting" /\ at' = "closing" /\ failed'
        \/ at' = at /\ failed' = failed
    BY <1>10, Zenon DEF W!Lost
  <2>3. at \notin {"created", "ended"}
    BY <1>10 DEF WorkerInv
  <2>4. CASE at = "starting" /\ at' = "closing" /\ failed'
    BY <2>1, <2>4 DEF WorkerInv
  <2>5. CASE at' = at /\ failed' = failed
    BY <2>1, <2>3, <2>5 DEF WorkerInv
  <2> QED
    BY <2>2, <2>4, <2>5
<1>11. ASSUME NEW e, NEW state, W!Publish(e, state) \/ W!BackoffEnds(e) PROVE WorkerInv'
  <2>1. UNCHANGED <<at, stopping, failed, timer, beats, seen, missed, early>>
    BY <1>11 DEF W!Publish, W!BackoffEnds, W!loop, W!health
  <2> QED
    BY <2>1 DEF WorkerInv
<1> QED
  BY <1>0, <1>1, <1>2, <1>3, <1>4, <1>5, <1>6, <1>7, <1>8, <1>9, <1>10, <1>11, <1>12
     DEF W!Next, W!Step, worker

(* A worker that ended on a signal does not look healthy, unless stop came  *)
(* before its first heartbeat or with one on its way, or its own was lost.  *)
THEOREM EndedCorrect == Spec => []EndedIsNotHealthy
<1>1. Init => WorkerInv
  BY DEF Init, W!Init, WorkerInv
<1>2. WorkerInv /\ [Next]_vars => WorkerInv'
  BY WorkerNext DEF Next, vars
<1>3. WorkerInv => EndedIsNotHealthy
  BY DEF WorkerInv, EndedIsNotHealthy, W!EndedIsNotHealthy
<1> QED
  BY <1>1, <1>2, <1>3, PTL DEF Spec
-----------------------------------------------------------------------------
(* The order of the extensions.                                            *)

Sorted == {sorted[k] : k \in 1..Len(sorted)}
Missing(j) == {i \in P!Extensions \ Sorted : <<i, j>> \in edges}

(* While extensions are sorted, the counter of each tells how many of its  *)
(* providers are not, and those are ready that wait for none.              *)
Counting ==
  /\ ready \subseteq P!Extensions
  /\ \A j \in P!Extensions :
       /\ indegree[j] = Cardinality(Missing(j))
       /\ j \in ready <=> j \notin Sorted /\ Missing(j) = {}

SortInv ==
  /\ Len(system) \in Nat
  /\ sorted \in Seq(P!Extensions)
  /\ Len(sorted) = Cardinality(Sorted)
  /\ edges \subseteq P!Extensions \X P!Extensions
  /\ phase \in {"claim", "edges"} => sorted = <<>>
  /\ phase = "sort" => Counting
  /\ P!ProvidersFirst
  /\ P!RefusedForACircle

(* The instance of Composition counts as the library does.                  *)
LEMMA Counts == \A S : P!Cardinality(S) = Cardinality(S)
  BY DEF P!Cardinality, Cardinality

(* Sets of installed extensions are finite, so their cardinality is a       *)
(* number.                                                                  *)
LEMMA ExtensionsFinite ==
  ASSUME Len(system) \in Nat, NEW S, S \subseteq P!Extensions
  PROVE  IsFiniteSet(S) /\ Cardinality(S) \in Nat
<1>1. IsFiniteSet(P!Extensions)
  BY FS_Interval DEF P!Extensions
<1> QED
  BY <1>1, FS_Subset, FS_CardinalityType

(* Only installed extensions are put in order.                              *)
LEMMA SortedInstalled ==
  ASSUME sorted \in Seq(P!Extensions)
  PROVE  Len(sorted) \in Nat /\ Sorted \subseteq P!Extensions
<1>1. Len(sorted) \in Nat /\ \A k \in 1..Len(sorted) : sorted[k] \in P!Extensions
  OBVIOUS
<1> QED
  BY <1>1 DEF Sorted

(* The sort starts with every count at zero and nothing ready.              *)
LEMMA SortInit == P!Init => SortInv
<1> SUFFICES ASSUME P!Init PROVE SortInv
  OBVIOUS
<1>1. Len(system) \in Nat
  BY PlatformAssumption DEF P!Init
<1>2. sorted = <<>> /\ edges = {} /\ phase = "claim"
  BY DEF P!Init
<1>3. Sorted = {} /\ Len(sorted) = 0 /\ sorted \in Seq(P!Extensions)
  BY <1>2 DEF Sorted
<1>4. P!ProvidersFirst /\ P!RefusedForACircle
  BY <1>2, <1>3 DEF P!ProvidersFirst, P!RefusedForACircle
<1> QED
  BY <1>1, <1>2, <1>3, <1>4, FS_EmptySet DEF SortInv

(* What an extension follows is installed.                                 *)
LEMMA FollowsInstalled ==
  ASSUME NEW j \in P!Extensions, P!Satisfied(j)
  PROVE  P!Follows(j) \subseteq P!Extensions
<1> SUFFICES ASSUME NEW c \in system[j].requires PROVE P!Provider(c) \in P!Extensions
  BY DEF P!Follows
<1>1. \E p \in P!Extensions : \E o \in system[p].provides : o.id = c.id
  BY DEF P!Satisfied, P!Satisfies
<1> QED
  BY <1>1 DEF P!Provider

(* Once the edges are added, the count of an extension is that of its       *)
(* providers.                                                               *)
LEMMA AddEdgesCounts ==
  ASSUME SortInv, P!AddEdges, \A i \in P!Extensions : P!Satisfied(i)
  PROVE  SortInv'
<1>1. /\ system' = system /\ sorted' = sorted /\ sorted = <<>> /\ phase' = "sort"
      /\ edges' = {e \in P!Extensions \X P!Extensions : e[1] \in P!Follows(e[2])}
      /\ indegree' = [i \in P!Extensions |-> P!WaitsFor(i)]
      /\ ready' = {i \in P!Extensions : P!WaitsFor(i) = 0}
  BY DEF P!AddEdges, SortInv
<1>2. P!Extensions' = P!Extensions /\ Sorted' = {} /\ Sorted = {}
  BY <1>1 DEF P!Extensions, Sorted
<1>3. ASSUME NEW j \in P!Extensions PROVE Missing(j)' = P!Follows(j)
  <2>1. P!Follows(j) \subseteq P!Extensions
    BY FollowsInstalled
  <2>2. \A i \in P!Extensions : <<i, j>> \in edges' <=> i \in P!Follows(j)
    BY <1>1
  <2> QED
    BY <1>2, <2>1, <2>2 DEF Missing
<1>4. ASSUME NEW j \in P!Extensions
      PROVE  /\ indegree'[j] = Cardinality(Missing(j)')
             /\ j \in ready' <=> Missing(j)' = {}
  <2>1. P!WaitsFor(j) = Cardinality(Missing(j)')
    BY <1>3, Counts DEF P!WaitsFor
  <2>2. IsFiniteSet(Missing(j)')
    BY <1>3, FollowsInstalled, ExtensionsFinite DEF SortInv
  <2>3. Cardinality(Missing(j)') = 0 <=> Missing(j)' = {}
    BY <2>2, FS_EmptySet
  <2> QED
    BY <1>1, <2>1, <2>3
<1>5. Counting'
  BY <1>1, <1>2, <1>4 DEF Counting
<1>6. P!ProvidersFirst' /\ P!RefusedForACircle'
  BY <1>1 DEF P!ProvidersFirst, P!RefusedForACircle
<1> QED
  BY <1>1, <1>2, <1>5, <1>6 DEF SortInv

(* An extension that is ready comes after all its providers; those that    *)
(* waited for it alone are ready then.                                     *)
LEMMA ShiftCounts ==
  ASSUME SortInv, NEW i \in P!Extensions, P!Shift(i)
  PROVE  SortInv'
<1> DEFINE n == Len(sorted)
<1>1. /\ system' = system /\ edges' = edges /\ phase' = phase /\ phase = "sort"
      /\ sorted' = Append(sorted, i)
      /\ indegree' = [j \in P!Extensions |->
                        IF <<i, j>> \in edges THEN indegree[j] - 1 ELSE indegree[j]]
      /\ ready' = (ready \ {i})
                    \cup {j \in P!Extensions : <<i, j>> \in edges /\ indegree[j] = 1}
  BY DEF P!Shift
<1>2. /\ n \in Nat /\ Len(sorted') = n + 1 /\ sorted' \in Seq(P!Extensions)
      /\ sorted'[n + 1] = i /\ \A k \in 1..n : sorted'[k] = sorted[k]
  BY <1>1 DEF SortInv
<1>3. P!Extensions' = P!Extensions
  BY <1>1 DEF P!Extensions
<1>4. Sorted' = Sorted \cup {i}
  <2>1. 1..(n + 1) = (1..n) \cup {n + 1}
    BY <1>2
  <2> QED
    BY <1>2, <2>1 DEF Sorted
<1>5. i \notin Sorted /\ Missing(i) = {} /\ Sorted \subseteq P!Extensions
  <2>1. i \in ready
    BY DEF P!Shift
  <2>2. i \notin Sorted /\ Missing(i) = {}
    BY <1>1, <2>1 DEF SortInv, Counting
  <2> QED
    BY <2>2, SortedInstalled DEF SortInv
<1>6. Len(sorted') = Cardinality(Sorted')
  <2>1. IsFiniteSet(Sorted)
    BY <1>5, ExtensionsFinite DEF SortInv
  <2>2. Cardinality(Sorted \cup {i}) = Cardinality(Sorted) + 1
    BY <1>5, <2>1, FS_AddElement
  <2>3. n = Cardinality(Sorted)
    BY DEF SortInv
  <2> QED
    BY <1>2, <1>4, <1>5, <2>1, <2>2, <2>3
<1>7. \A j \in P!Extensions : Missing(j)' = Missing(j) \ {i}
  BY <1>1, <1>3, <1>4 DEF Missing
<1>8. \A j \in P!Extensions : i \in Missing(j) <=> <<i, j>> \in edges
  BY <1>5 DEF Missing
<1>9. \A j \in Sorted : Missing(j) = {}
  <2> SUFFICES ASSUME NEW k \in 1..n PROVE Missing(sorted[k]) = {}
    BY DEF Sorted
  <2>1. \A x \in P!Extensions : <<x, sorted[k]>> \in edges => \E m \in 1..(k - 1) : sorted[m] = x
    BY DEF SortInv, P!ProvidersFirst
  <2>2. \A m \in 1..(k - 1) : m \in 1..n
    BY <1>2
  <2> QED
    BY <2>1, <2>2 DEF Missing, Sorted
<1>10. ASSUME NEW j \in P!Extensions
       PROVE  /\ indegree'[j] = Cardinality(Missing(j)')
              /\ j \in ready' <=> j \notin Sorted' /\ Missing(j)' = {}
  <2>1. Missing(j) \subseteq P!Extensions
    BY DEF Missing
  <2>2. IsFiniteSet(Missing(j)) /\ Cardinality(Missing(j)) \in Nat
    BY <2>1, ExtensionsFinite DEF SortInv
  <2>3. /\ indegree[j] = Cardinality(Missing(j))
        /\ j \in ready <=> j \notin Sorted /\ Missing(j) = {}
    BY <1>1 DEF SortInv, Counting
  <2>4. CASE <<i, j>> \in edges
    <3>1. i \in Missing(j)
      BY <1>8, <2>4
    <3>2. Cardinality(Missing(j)') = Cardinality(Missing(j)) - 1
      BY <1>7, <2>2, <3>1, FS_RemoveElement
    <3>3. IsFiniteSet(Missing(j)')
      BY <1>7, <2>2, FS_RemoveElement
    <3>4. Missing(j)' = {} <=> indegree[j] = 1
      BY <2>2, <2>3, <3>2, <3>3, FS_EmptySet
    <3>5. j \notin Sorted' /\ j \notin ready
      BY <1>4, <1>5, <1>9, <2>3, <3>1
    <3> QED
      BY <1>1, <2>2, <2>3, <2>4, <3>2, <3>4, <3>5
  <2>5. CASE <<i, j>> \notin edges
    <3>1. Missing(j)' = Missing(j)
      BY <1>7, <1>8, <2>5
    <3> QED
      BY <1>1, <1>4, <2>3, <2>5, <3>1
  <2> QED
    BY <2>4, <2>5
<1>11. Counting'
  BY <1>1, <1>3, <1>10 DEF SortInv, Counting
<1>12. P!ProvidersFirst'
  <2> SUFFICES ASSUME NEW j \in 1..(n + 1), NEW x \in P!Extensions
               PROVE  /\ <<x, sorted'[j]>> \in edges => \E k \in 1..(j - 1) : sorted'[k] = x
                      /\ \A k \in 1..(j - 1) : sorted'[k] # sorted'[j]
    BY <1>1, <1>2, <1>3 DEF P!ProvidersFirst
  <2>1. CASE j = n + 1
    <3>1. 1..(j - 1) = 1..n /\ sorted'[j] = i
      BY <1>2, <2>1
    <3>2. \A k \in 1..n : sorted[k] # i
      BY <1>5 DEF Sorted
    <3>3. <<x, i>> \in edges => \E k \in 1..n : sorted[k] = x
      BY <1>5 DEF Missing, Sorted
    <3> QED
      BY <1>2, <3>1, <3>2, <3>3
  <2>2. CASE j # n + 1
    <3>1. j \in 1..n /\ \A k \in 1..(j - 1) : k \in 1..n
      BY <1>2, <2>2
    <3> QED
      BY <1>2, <3>1 DEF SortInv, P!ProvidersFirst
  <2> QED
    BY <2>1, <2>2
<1>13. P!RefusedForACircle'
  BY <1>1 DEF P!RefusedForACircle
<1> QED
  BY <1>1, <1>2, <1>3, <1>6, <1>11, <1>12, <1>13 DEF SortInv

(* As long as some are not sorted and none is ready, each of those waits   *)
(* for another of them.                                                    *)
LEMMA EndSortCircle ==
  ASSUME SortInv, P!EndSort
  PROVE  SortInv'
<1>1. /\ phase = "sort" /\ ready = {} /\ UNCHANGED <<system, edges, sorted>>
      /\ phase' = IF Len(sorted) = Len(system) THEN "register" ELSE "circular"
  BY DEF P!EndSort, P!sort
<1>2. P!RefusedForACircle'
  <2> SUFFICES ASSUME Len(sorted) # Len(system) PROVE P!RefusedForACircle'
    BY <1>1 DEF P!RefusedForACircle
  <2> DEFINE circle == P!Extensions \ Sorted
  <2>1. circle # {}
    <3> SUFFICES ASSUME P!Extensions \subseteq Sorted PROVE FALSE
      OBVIOUS
    <3>1. Sorted = P!Extensions
      BY SortedInstalled DEF SortInv
    <3>2. Cardinality(P!Extensions) = Len(system)
      <4>1. Len(system) \in Nat /\ 1 \in Int /\ Len(system) \in Int
        BY DEF SortInv
      <4>2. Cardinality(1..Len(system)) = IF 1 > Len(system) THEN 0 ELSE Len(system) - 1 + 1
        BY <4>1, FS_Interval
      <4> QED
        BY <4>1, <4>2 DEF P!Extensions
    <3> QED
      BY <3>1, <3>2 DEF SortInv
  <2>2. \A j \in circle : \E i \in circle : <<i, j>> \in edges
    BY <1>1 DEF SortInv, Counting, Missing
  <2>3. P!Extensions' = P!Extensions /\ edges' = edges
    BY <1>1 DEF P!Extensions
  <2>4. circle \in (SUBSET P!Extensions) \ {{}}
    BY <2>1
  <2> QED
    BY <2>2, <2>3, <2>4 DEF P!RefusedForACircle
<1>3. Sorted' = Sorted /\ P!Extensions' = P!Extensions
  BY <1>1 DEF Sorted, P!Extensions
<1>4. P!ProvidersFirst'
  BY <1>1, <1>3 DEF P!ProvidersFirst, SortInv
<1> QED
  BY <1>1, <1>2, <1>3, <1>4 DEF SortInv

(* Every step of the composition keeps the counts of the sort right.        *)
LEMMA SortNext == SortInv /\ [P!Next]_composition => SortInv'
<1> SUFFICES ASSUME SortInv, [P!Next]_composition PROVE SortInv'
  OBVIOUS
<1>0. ASSUME UNCHANGED <<system, edges, indegree, ready, sorted>>, phase' # "circular" \/ phase' = phase,
             phase' \in {"claim", "edges"} => phase \in {"claim", "edges"},
             phase' = "sort" => phase = "sort"
      PROVE  SortInv'
  <2>1. P!Extensions' = P!Extensions /\ Sorted' = Sorted
    BY <1>0 DEF P!Extensions, Sorted
  <2>2. \A j : Missing(j)' = Missing(j)
    BY <1>0, <2>1 DEF Missing
  <2>3. P!ProvidersFirst' /\ P!RefusedForACircle'
    BY <1>0, <2>1 DEF SortInv, P!ProvidersFirst, P!RefusedForACircle
  <2>4. phase' = "sort" => Counting'
    BY <1>0, <2>1, <2>2 DEF SortInv, Counting
  <2> QED
    BY <1>0, <2>1, <2>3, <2>4 DEF SortInv
<1>1. ASSUME NEW i \in P!Extensions, P!Claim(i) PROVE SortInv'
  BY <1>0, <1>1 DEF P!Claim, P!Fail, P!sort
<1>2. CASE P!AddEdges
  <2>1. CASE \A i \in P!Extensions : P!Satisfied(i)
    BY <1>2, <2>1, AddEdgesCounts
  <2>2. CASE ~\A i \in P!Extensions : P!Satisfied(i)
    BY <1>0, <1>2, <2>2 DEF P!AddEdges, P!Fail
  <2> QED
    BY <2>1, <2>2
<1>3. ASSUME NEW added, P!Register(added) \/ P!Start PROVE SortInv'
  BY <1>0, <1>3 DEF P!Register, P!Start, P!Fail, P!sort
<1>4. CASE UNCHANGED composition
  BY <1>0, <1>4 DEF composition
<1> QED
  BY <1>1, <1>2, <1>3, <1>4, ShiftCounts, EndSortCircle DEF P!Next, composition

(* Every system is started in an order that respects what its extensions   *)
(* ask for, and only a circle keeps one without.                           *)
THEOREM SortCorrect == Spec => []SortIsRight
<1>1. Init => SortInv
  BY SortInit DEF Init
<1>2. SortInv /\ [Next]_vars => SortInv'
  BY SortNext DEF Next, vars
<1>3. SortInv => SortIsRight
  BY DEF SortInv, SortIsRight, P!SortIsRight
<1> QED
  BY <1>1, <1>2, <1>3, PTL DEF Spec

-----------------------------------------------------------------------------
(* What a started system has.                                              *)

Phases == {"claim", "edges", "sort", "register", "started", "failed", "circular"}

CompositionTypes ==
  /\ system \in Systems
  /\ phase \in Phases
  /\ indegree \in [P!Extensions -> Nat]
  /\ ready \subseteq P!Extensions

(* The extensions that are registered have their routes; none is before    *)
(* the order is complete, and all are when the system has started.         *)
RegisterInv ==
  /\ registered \in Nat /\ registered <= Len(sorted)
  /\ phase \in {"claim", "edges", "sort"} => registered = 0
  /\ phase \in {"register", "started"} => Len(sorted) = Len(system)
  /\ phase = "started" => registered = Len(sorted)
  /\ \A k \in 1..registered : system[sorted[k]].routes \subseteq routes

(* Every route that an extension of a started system declares is served.   *)
StartedIsServed ==
  phase = "started" => \A i \in P!Extensions : system[i].routes \subseteq routes

CompositionInv == SortInv /\ CompositionTypes /\ RegisterInv

(* The composition starts with nothing sorted, registered or started.       *)
LEMMA CompositionInit == P!Init => CompositionInv
<1> SUFFICES ASSUME P!Init PROVE CompositionInv
  OBVIOUS
<1>1. SortInv
  BY SortInit
<1>2. CompositionTypes
  BY DEF P!Init, CompositionTypes, Phases
<1>3. sorted = << >> /\ registered = 0 /\ phase = "claim"
  BY DEF P!Init
<1>4. RegisterInv
  BY <1>3 DEF RegisterInv
<1> QED
  BY <1>1, <1>2, <1>4 DEF CompositionInv

(* Every step of the composition keeps its stages in their order.           *)
LEMMA CompositionNext == CompositionInv /\ [P!Next]_composition => CompositionInv'
<1> SUFFICES ASSUME CompositionInv, [P!Next]_composition PROVE CompositionInv'
  OBVIOUS
<1>s. SortInv'
  BY SortNext DEF CompositionInv
<1>l. Len(sorted) \in Nat /\ Len(sorted') \in Nat /\ sorted \in Seq(P!Extensions)
  BY <1>s, LenProperties DEF CompositionInv, SortInv
<1>0. CASE UNCHANGED composition
  BY <1>s, <1>0 DEF composition, CompositionInv, CompositionTypes, RegisterInv, P!Extensions
<1>1. ASSUME NEW i \in P!Extensions, P!Claim(i) PROVE CompositionInv'
  <2>1. /\ phase = "claim" /\ phase' \in {"claim", "edges", "failed"}
        /\ UNCHANGED <<system, indegree, ready, sorted, registered, routes>>
    BY <1>1 DEF P!Claim, P!Fail, P!sort
  <2>2. CompositionTypes'
    BY <2>1 DEF CompositionInv, CompositionTypes, P!Extensions, Phases
  <2>3. RegisterInv'
    BY <2>1 DEF CompositionInv, RegisterInv
  <2> QED
    BY <1>s, <2>2, <2>3 DEF CompositionInv
<1>c. ASSUME phase' = "sort", P!Extensions' = P!Extensions,
             indegree' = [j \in P!Extensions |-> indegree'[j]]
      PROVE  indegree' \in [P!Extensions' -> Nat] /\ ready' \subseteq P!Extensions'
  <2>1. Counting' /\ Len(system)' \in Nat
    BY <1>s, <1>c DEF SortInv
  <2>2. ASSUME NEW j \in P!Extensions PROVE indegree'[j] \in Nat
    <3>1. indegree'[j] = Cardinality(Missing(j)') /\ Missing(j)' \subseteq P!Extensions'
      BY <1>c, <2>1 DEF Counting, Missing
    <3>2. \A S : S \subseteq P!Extensions' => Cardinality(S) \in Nat
      <4>1. IsFiniteSet(P!Extensions')
        BY <2>1, FS_Interval DEF P!Extensions
      <4> QED
        BY <4>1, FS_Subset, FS_CardinalityType
    <3> QED
      BY <3>1, <3>2
  <2> QED
    BY <1>c, <2>1, <2>2 DEF Counting
<1>2. CASE P!AddEdges
  <2>1. /\ phase = "edges" /\ phase' \in {"sort", "failed"}
        /\ UNCHANGED <<system, sorted, registered, routes>>
    BY <1>2 DEF P!AddEdges, P!Fail
  <2>2. P!Extensions' = P!Extensions
    BY <2>1 DEF P!Extensions
  <2>3. indegree' \in [P!Extensions' -> Nat] /\ ready' \subseteq P!Extensions'
    <3>1. CASE /\ indegree' = [i \in P!Extensions |-> P!WaitsFor(i)]
               /\ phase' = "sort"
      <4>1. indegree' = [i \in P!Extensions |-> indegree'[i]]
        BY <3>1
      <4> QED
        BY <1>c, <2>2, <3>1, <4>1
    <3>2. CASE UNCHANGED <<indegree, ready>>
      BY <2>2, <3>2 DEF CompositionInv, CompositionTypes
    <3> QED
      BY <1>2, <3>1, <3>2 DEF P!AddEdges
  <2>4. RegisterInv'
    BY <2>1 DEF CompositionInv, RegisterInv
  <2> QED
    BY <1>s, <2>1, <2>3, <2>4 DEF CompositionInv, CompositionTypes, Phases
<1>3. ASSUME NEW i \in P!Extensions, P!Shift(i) PROVE CompositionInv'
  <2>1. /\ phase = "sort" /\ phase' = phase /\ sorted' = Append(sorted, i)
        /\ UNCHANGED <<system, registered, routes>>
        /\ indegree' = [j \in P!Extensions |->
                          IF <<i, j>> \in edges THEN indegree[j] - 1 ELSE indegree[j]]
    BY <1>3 DEF P!Shift
  <2>2. P!Extensions' = P!Extensions
    BY <2>1 DEF P!Extensions
  <2>3. indegree' \in [P!Extensions' -> Nat] /\ ready' \subseteq P!Extensions'
    <3>1. indegree' = [j \in P!Extensions |-> indegree'[j]]
      BY <2>1
    <3> QED
      BY <1>c, <2>1, <2>2, <3>1
  <2>4. RegisterInv'
    BY <1>l, <2>1 DEF CompositionInv, RegisterInv
  <2> QED
    BY <1>s, <2>1, <2>3, <2>4 DEF CompositionInv, CompositionTypes
<1>4. CASE P!EndSort
  <2>1. /\ phase = "sort" /\ phase' \in {"register", "circular"}
        /\ phase' = "register" => Len(sorted) = Len(system)
        /\ UNCHANGED <<system, indegree, ready, sorted, registered, routes>>
    BY <1>4 DEF P!EndSort, P!sort
  <2>2. RegisterInv'
    BY <2>1 DEF CompositionInv, RegisterInv
  <2> QED
    BY <1>s, <2>1, <2>2 DEF CompositionInv, CompositionTypes, P!Extensions, Phases
<1>5. ASSUME NEW added, P!Register(added) PROVE CompositionInv'
  <2>1. /\ phase = "register" /\ phase' \in {"register", "failed"}
        /\ routes' = routes \cup added /\ registered < Len(sorted)
        /\ UNCHANGED <<system, indegree, ready, sorted>>
        /\ \/ UNCHANGED registered
           \/ registered' = registered + 1 /\ system[sorted[registered + 1]].routes \subseteq added
    BY <1>5 DEF P!Register, P!Fail, P!sort
  <2>2. CASE UNCHANGED registered
    BY <1>s, <2>1, <2>2 DEF CompositionInv, CompositionTypes, RegisterInv, P!Extensions, Phases
  <2>3. CASE registered' = registered + 1 /\ system[sorted[registered + 1]].routes \subseteq added
    <3>1. registered \in Nat /\ \A k \in 1..(registered + 1) : k \in 1..registered \/ k = registered + 1
      BY DEF CompositionInv, RegisterInv
    <3>2. \A k \in 1..registered' : system[sorted[k]].routes \subseteq routes'
      BY <2>1, <2>3, <3>1 DEF CompositionInv, RegisterInv
    <3>3. RegisterInv'
      BY <1>l, <2>1, <2>3, <3>1, <3>2 DEF CompositionInv, RegisterInv
    <3> QED
      BY <1>s, <2>1, <3>3 DEF CompositionInv, CompositionTypes, P!Extensions, Phases
  <2> QED
    BY <2>1, <2>2, <2>3
<1>6. CASE P!Start
  <2>1. /\ phase = "register" /\ phase' = "started" /\ registered = Len(sorted)
        /\ UNCHANGED <<system, indegree, ready, sorted, registered, routes>>
    BY <1>6 DEF P!Start, P!sort
  <2>2. RegisterInv'
    BY <2>1 DEF CompositionInv, RegisterInv
  <2> QED
    BY <1>s, <2>1, <2>2 DEF CompositionInv, CompositionTypes, P!Extensions, Phases
<1> QED
  BY <1>0, <1>1, <1>2, <1>3, <1>4, <1>5, <1>6 DEF P!Next, composition

(* An order of that length has every extension.                            *)
LEMMA AllSorted ==
  ASSUME CompositionInv, phase = "started", NEW i \in P!Extensions
  PROVE  \E k \in 1..registered : sorted[k] = i
<1>1. Len(system) \in Nat /\ Sorted \subseteq P!Extensions
  BY SortedInstalled DEF CompositionInv, SortInv
<1>2. Cardinality(Sorted) = Len(system) /\ registered = Len(sorted)
  BY DEF CompositionInv, SortInv, RegisterInv
<1>3. IsFiniteSet(P!Extensions) /\ Cardinality(P!Extensions) = Len(system)
  <2>1. IsFiniteSet(1..Len(system)) /\ Cardinality(1..Len(system)) = Len(system)
    <3> DEFINE n == Len(system)
    <3>1. n \in Nat
      BY <1>1
    <3> HIDE DEF n
    <3>2. IsFiniteSet(1..n) /\ Cardinality(1..n) = IF 1 > n THEN 0 ELSE n - 1 + 1
      BY <3>1, FS_Interval
    <3>3. Cardinality(1..n) = n
      BY <3>1, <3>2
    <3> QED
      BY <3>2, <3>3 DEF n
  <2> QED
    BY <2>1 DEF P!Extensions
<1>4. Sorted = P!Extensions
  BY <1>1, <1>2, <1>3, FS_Subset
<1> QED
  BY <1>2, <1>4 DEF Sorted

(* Every variable of Composition has its type.                             *)
THEOREM CompositionTyped == Spec => []P!TypeOK
<1>1. Init => CompositionInv
  BY CompositionInit DEF Init
<1>2. CompositionInv /\ [Next]_vars => CompositionInv'
  BY CompositionNext DEF Next, vars
<1>3. CompositionInv => P!TypeOK
  <2> SUFFICES ASSUME CompositionInv PROVE P!TypeOK
    OBVIOUS
  <2>1. registered \in 0..Len(sorted)
    BY LenProperties DEF CompositionInv, SortInv, RegisterInv
  <2> QED
    BY <2>1 DEF CompositionInv, CompositionTypes, SortInv, Phases, P!TypeOK
<1> QED
  BY <1>1, <1>2, <1>3, PTL DEF Spec

(* A system that has started serves every route its extensions declare:    *)
(* what they add must have it, and an order that leaves one out is refused. *)
THEOREM StartedCorrect == Spec => []StartedIsServed
<1>1. Init => CompositionInv
  BY CompositionInit DEF Init
<1>2. CompositionInv /\ [Next]_vars => CompositionInv'
  BY CompositionNext DEF Next, vars
<1>3. CompositionInv => StartedIsServed
  BY AllSorted DEF CompositionInv, RegisterInv, StartedIsServed
<1> QED
  BY <1>1, <1>2, <1>3, PTL DEF Spec

-----------------------------------------------------------------------------
(* The plan of a migration.                                                *)

(* A sequence that flattens the first n sequences: it has what they have,  *)
(* and an element comes after those of the sequences before its own.       *)
Flat(flat, seqs, n, S) ==
  /\ flat \in Seq(S)
  /\ \A t \in 1..n : M!Range(seqs[t]) \subseteq M!Range(flat)
  /\ \A k \in 1..Len(flat) : \E t \in 1..n :
       /\ flat[k] \in M!Range(seqs[t])
       /\ \A u \in 1..(t - 1) : \A x \in M!Range(seqs[u]) : \E j \in 1..(k - 1) : flat[j] = x

(* Appending the next of the sequences to a flat prefix of them gives a     *)
(* longer flat prefix.                                                      *)
LEMMA FlatNext ==
  ASSUME NEW S, NEW N \in Nat, NEW seqs \in [1..N -> Seq(S)], NEW n \in 1..N,
         NEW flat, Flat(flat, seqs, n - 1, S)
  PROVE  Flat(flat \o seqs[n], seqs, n, S)
<1> DEFINE s == seqs[n]
           longer == flat \o s
<1>1. flat \in Seq(S) /\ s \in Seq(S)
  BY DEF Flat
<1>2. /\ longer \in Seq(S)
      /\ Len(longer) = Len(flat) + Len(s)
      /\ \A k \in 1..(Len(flat) + Len(s)) :
           longer[k] = IF k <= Len(flat) THEN flat[k] ELSE s[k - Len(flat)]
  <2> HIDE DEF s
  <2> QED
    BY <1>1, ConcatProperties
<1>3. Len(flat) \in Nat /\ Len(s) \in Nat /\ DOMAIN flat = 1..Len(flat) /\ DOMAIN s = 1..Len(s)
      /\ DOMAIN longer = 1..Len(longer)
  BY <1>1, <1>2, LenProperties
<1> HIDE DEF longer, s
<1>4. ASSUME NEW x \in M!Range(flat) PROVE \E j \in 1..Len(flat) : longer[j] = x
  <2>1. PICK j \in 1..Len(flat) : flat[j] = x
    BY <1>3 DEF M!Range
  <2>2. longer[j] = x
    BY <1>2, <1>3, <2>1
  <2> QED
    BY <2>2
<1>5. M!Range(flat) \subseteq M!Range(longer)
  <2>1. \A j \in 1..Len(flat) : j \in DOMAIN longer
    BY <1>2, <1>3
  <2> QED
    BY <1>4, <2>1 DEF M!Range
<1>6. M!Range(s) \subseteq M!Range(longer)
  <2> SUFFICES ASSUME NEW i \in DOMAIN s PROVE \E k \in DOMAIN longer : longer[k] = s[i]
    BY DEF M!Range
  <2>1. Len(flat) + i \in DOMAIN longer /\ longer[Len(flat) + i] = s[i]
    BY <1>2, <1>3
  <2> QED
    BY <2>1
<1>7. \A t \in 1..n : M!Range(seqs[t]) \subseteq M!Range(longer)
  <2> SUFFICES ASSUME NEW t \in 1..n PROVE M!Range(seqs[t]) \subseteq M!Range(longer)
    OBVIOUS
  <2>1. CASE t = n
    BY <1>6, <2>1 DEF s
  <2>2. CASE t # n
    <3>1. t \in 1..(n - 1)
      BY <2>2
    <3> QED
      BY <1>5, <3>1 DEF Flat
  <2> QED
    BY <2>1, <2>2
<1>8. ASSUME NEW k \in 1..Len(longer)
      PROVE  \E t \in 1..n :
               /\ longer[k] \in M!Range(seqs[t])
               /\ \A u \in 1..(t - 1) : \A x \in M!Range(seqs[u]) : \E j \in 1..(k - 1) : longer[j] = x
  <2>1. CASE k <= Len(flat)
    <3>1. k \in 1..Len(flat) /\ longer[k] = flat[k]
      BY <1>2, <1>3, <2>1
    <3>2. PICK t \in 1..(n - 1) :
            /\ flat[k] \in M!Range(seqs[t])
            /\ \A u \in 1..(t - 1) : \A x \in M!Range(seqs[u]) : \E j \in 1..(k - 1) : flat[j] = x
      BY <3>1 DEF Flat
    <3>3. \A j \in 1..(k - 1) : longer[j] = flat[j]
      BY <1>2, <1>3, <2>1
    <3>4. t \in 1..n
      OBVIOUS
    <3> QED
      BY <3>1, <3>2, <3>3, <3>4
  <2>2. CASE k > Len(flat)
    <3>1. longer[k] \in M!Range(seqs[n])
      <4>1. k - Len(flat) \in DOMAIN s /\ longer[k] = s[k - Len(flat)]
        BY <1>2, <1>3, <2>2
      <4> QED
        BY <4>1 DEF M!Range, s
    <3>2. ASSUME NEW u \in 1..(n - 1), NEW x \in M!Range(seqs[u])
          PROVE  \E j \in 1..(k - 1) : longer[j] = x
      <4>1. x \in M!Range(flat)
        BY DEF Flat
      <4>2. \A j \in 1..Len(flat) : j \in 1..(k - 1)
        BY <1>2, <1>3, <2>2
      <4> QED
        BY <1>4, <4>1, <4>2
    <3>3. n \in 1..n
      OBVIOUS
    <3> QED
      BY <3>1, <3>2, <3>3
  <2> QED
    BY <1>3, <2>1, <2>2
<1> QED
  BY <1>2, <1>7, <1>8 DEF Flat, longer, s

(* FlattenSeq puts its sequences one behind the other, whatever they hold.  *)
LEMMA FlattenSeqIsFlat ==
  ASSUME NEW S, NEW N \in Nat, NEW seqs \in [1..N -> Seq(S)]
  PROVE  Flat(M!FlattenSeq(seqs), seqs, N, S)
<1>1. seqs \in Seq(Seq(S)) /\ Len(seqs) = N
  OBVIOUS
<1>2. CASE N = 0
  <2>1. M!FlattenSeq(seqs) = seqs /\ seqs = << >>
    BY <1>1, <1>2 DEF M!FlattenSeq
  <2> QED
    BY <1>2, <2>1 DEF Flat
<1>3. CASE N # 0
  <2> DEFINE lists == Seq(S)
             append == [x \in (1..N) \X lists |-> x[2] \o seqs[x[1]]]
  <2>1. append \in [(1..N) \X lists -> lists]
    <3>1. \A x \in lists, n \in 1..N : x \o seqs[n] \in lists
      BY ConcatProperties
    <3> QED
      BY <3>1
  <2>2. << >> \in lists
    OBVIOUS
  <2>3. PICK f : Iterates(f, lists, << >>, N, append)
    <3> HIDE DEF lists, append
    <3> QED
      BY <2>1, <2>2, Iteration
  <2>4. ASSUME NEW n \in 1..N PROVE f[n - 1] \in lists /\ f[n] = f[n - 1] \o seqs[n]
    <3> HIDE DEF lists
    <3>1. n - 1 \in 0..N /\ f[n - 1] \in lists /\ f[n] = append[<<n, f[n - 1]>>]
      <4> HIDE DEF append
      <4> QED
        BY <2>3 DEF Iterates
    <3>2. <<n, f[n - 1]>> \in (1..N) \X lists
      BY <3>1
    <3> QED
      BY <3>1, <3>2
  <2>5. 0..N \subseteq {n \in 0..N : Flat(f[n], seqs, n, S)}
    <3> DEFINE good == {n \in 0..N : Flat(f[n], seqs, n, S)}
    <3>1. 0 \in good
      BY <2>3 DEF Iterates, Flat
    <3>2. ASSUME NEW n \in 1..N, n - 1 \in good PROVE n \in good
      <4>1. Flat(f[n - 1], seqs, n - 1, S) /\ f[n] = f[n - 1] \o seqs[n]
        BY <2>4, <3>2
      <4>2. Flat(f[n - 1] \o seqs[n], seqs, n, S)
        BY <4>1, FlatNext
      <4>3. Flat(f[n], seqs, n, S)
        BY <4>1, <4>2, Zenon
      <4>4. n \in 0..N
        OBVIOUS
      <4> QED
        BY <4>3, <4>4
    <3> HIDE DEF good
    <3>3. 0..N \subseteq good
      BY <3>1, <3>2, UpTo
    <3> QED
      BY <3>3 DEF good
  <2> DEFINE g == [n \in 1..N |-> f[n]]
  <2>a. f[1] = seqs[1]
    <3>1. f[1] = << >> \o seqs[1]
      <4>1. 1 \in 1..N /\ f[1 - 1] = << >>
        BY <1>3, <2>3 DEF Iterates
      <4> QED
        BY <2>4, <4>1
    <3>2. seqs[1] \in Seq(S)
      BY <1>3
    <3> QED
      BY <3>1, <3>2, ConcatEmptySeq
  <2>6. g = [n \in 1..N |-> IF n = 1 THEN seqs[n] ELSE g[n - 1] \o seqs[n]]
    <3>2. \A n \in 1..N : n # 1 => n - 1 \in 1..N
      OBVIOUS
    <3> QED
      BY <2>4, <2>a, <3>2
  <2> DEFINE h == CHOOSE r : r = [n \in 1..N |-> IF n = 1 THEN seqs[n] ELSE r[n - 1] \o seqs[n]]
  <2>7. h = [n \in 1..N |-> IF n = 1 THEN seqs[n] ELSE h[n - 1] \o seqs[n]]
    <3> HIDE DEF g
    <3> QED
      BY <2>6
  <2>8. M!FlattenSeq(seqs) = h[N]
    BY <1>1, <1>3 DEF M!FlattenSeq
  <2>9. 0..N \subseteq {n \in 0..N : n # 0 => h[n] = f[n]}
    <3> DEFINE good == {n \in 0..N : n # 0 => h[n] = f[n]}
    <3> HIDE DEF h
    <3>1. 0 \in good
      OBVIOUS
    <3>2. ASSUME NEW n \in 1..N, n - 1 \in good PROVE n \in good
      <4>1. h[n] = IF n = 1 THEN seqs[n] ELSE h[n - 1] \o seqs[n]
        BY <2>7
      <4>2. f[n] = IF n = 1 THEN seqs[n] ELSE f[n - 1] \o seqs[n]
        BY <2>4, <2>a
      <4>3. n # 1 => h[n - 1] = f[n - 1]
        BY <3>2
      <4> QED
        BY <4>1, <4>2, <4>3
    <3> HIDE DEF good
    <3>3. 0..N \subseteq good
      BY <3>1, <3>2, UpTo
    <3> QED
      BY <3>3 DEF good
  <2>b. N \in 0..N /\ Flat(f[N], seqs, N, S) /\ h[N] = f[N]
    <3> HIDE DEF h
    <3> QED
      BY <1>3, <2>5, <2>9
  <2> HIDE DEF h
  <2> QED
    BY <2>8, <2>b
<1> QED
  BY <1>2, <1>3

-----------------------------------------------------------------------------
(* The places of a source's dependencies are before its own.               *)
Ordered(order, sources) ==
  /\ order \in Seq(DOMAIN sources)
  /\ \A k \in 1..Len(order) : \A d \in sources[order[k]].dependencies :
       \E j \in 1..(k - 1) : sources[order[j]].id = d.id

(* The sources that may come next, and the order with the first of them.   *)
Nexts(order, sources) ==
  {i \in (DOMAIN sources) \ M!Range(order) :
     \A d \in sources[i].dependencies : \E j \in M!Range(order) : sources[j].id = d.id}
Longer(order, sources) ==
  IF Nexts(order, sources) = {} THEN order
  ELSE Append(order, CHOOSE i \in Nexts(order, sources) : \A j \in Nexts(order, sources) : i <= j)

(* Each round of the ordering appends a source only behind its              *)
(* dependencies.                                                            *)
LEMMA LongerIsOrdered ==
  ASSUME NEW sources, DOMAIN sources \subseteq Nat, NEW order, Ordered(order, sources)
  PROVE  Ordered(Longer(order, sources), sources)
<1>1. CASE Nexts(order, sources) = {}
  BY <1>1 DEF Longer
<1>2. CASE Nexts(order, sources) # {}
  <2> DEFINE nexts == Nexts(order, sources)
             i == CHOOSE k \in nexts : \A j \in nexts : k <= j
             longer == Append(order, i)
  <2>1. nexts \subseteq Nat /\ nexts # {}
    BY <1>2 DEF Nexts
  <2>2. i \in nexts
    <3> HIDE DEF nexts
    <3>1. \E k \in nexts : \A j \in nexts : k <= j
      BY <2>1, LeastNumber
    <3> QED
      BY <3>1
  <2>3. i \in DOMAIN sources
        /\ \A d \in sources[i].dependencies : \E j \in M!Range(order) : sources[j].id = d.id
    BY <2>2 DEF Nexts
  <2> HIDE DEF i
  <2>4. order \in Seq(DOMAIN sources) /\ Len(order) \in Nat /\ DOMAIN order = 1..Len(order)
    BY LenProperties DEF Ordered
  <2>5. /\ longer \in Seq(DOMAIN sources)
        /\ Len(longer) = Len(order) + 1
        /\ longer[Len(order) + 1] = i
        /\ \A k \in 1..Len(order) : longer[k] = order[k]
    BY <2>3, <2>4, AppendProperties
  <2> HIDE DEF longer
  <2>6. ASSUME NEW k \in 1..Len(longer), NEW d \in sources[longer[k]].dependencies
        PROVE  \E j \in 1..(k - 1) : sources[longer[j]].id = d.id
    <3>1. CASE k \in 1..Len(order)
      <4>1. PICK j \in 1..(k - 1) : sources[order[j]].id = d.id
        BY <2>5, <2>6, <3>1 DEF Ordered
      <4>2. j \in 1..Len(order)
        BY <2>4, <3>1
      <4> QED
        BY <2>5, <4>1, <4>2
    <3>2. CASE k = Len(order) + 1
      <4>1. PICK c \in M!Range(order) : sources[c].id = d.id
        BY <2>3, <2>5, <2>6, <3>2
      <4>2. PICK j \in 1..Len(order) : order[j] = c
        BY <2>4 DEF M!Range
      <4>3. j \in 1..(k - 1) /\ longer[j] = c
        BY <2>4, <2>5, <3>2, <4>2
      <4> QED
        BY <4>1, <4>3
    <3> QED
      BY <2>4, <2>5, <3>1, <3>2
  <2>7. Ordered(longer, sources)
    BY <2>5, <2>6 DEF Ordered
  <2> QED
    BY <1>2, <2>7 DEF Longer, longer, i
<1> QED
  BY <1>1, <1>2

(* The order of the migration sources is one in which dependencies come     *)
(* first.                                                                   *)
LEMMA OrderIsOrdered ==
  ASSUME NEW T, NEW sources \in Seq(T)
  PROVE  Ordered(M!Order(sources), sources)
<1> DEFINE N == Len(sources)
           orders == {order \in Seq(DOMAIN sources) : Ordered(order, sources)}
           longer == [x \in (1..N) \X orders |-> Longer(x[2], sources)]
<1>1. N \in Nat /\ DOMAIN sources = 1..N
  BY LenProperties
<1>2. \A order \in orders : Longer(order, sources) \in orders
  <2> SUFFICES ASSUME NEW order \in orders PROVE Longer(order, sources) \in orders
    OBVIOUS
  <2>1. Ordered(Longer(order, sources), sources)
    BY <1>1, LongerIsOrdered
  <2> QED
    BY <2>1 DEF Ordered
<1>3. << >> \in orders
  BY DEF Ordered
<1> HIDE DEF orders, N
<1>4. longer \in [(1..N) \X orders -> orders]
  BY <1>2
<1>5. PICK f : Iterates(f, orders, << >>, N, longer)
  <2> HIDE DEF longer
  <2> QED
    BY <1>1, <1>3, <1>4, Iteration
<1>6. f = [n \in 0..N |-> IF n = 0 THEN << >> ELSE Longer(f[n - 1], sources)]
  <2>1. ASSUME NEW n \in 1..N PROVE f[n] = Longer(f[n - 1], sources)
    <3>1. n - 1 \in 0..N /\ f[n - 1] \in orders /\ f[n] = longer[<<n, f[n - 1]>>]
      <4> HIDE DEF longer
      <4> QED
        BY <1>1, <1>5 DEF Iterates
    <3>2. <<n, f[n - 1]>> \in (1..N) \X orders
      BY <3>1
    <3> QED
      BY <3>1, <3>2
  <2>2. \A n \in 0..N : n # 0 => n \in 1..N
    BY <1>1
  <2> QED
    BY <1>5, <2>1, <2>2 DEF Iterates
<1> DEFINE h == CHOOSE s : s = [n \in 0..N |-> IF n = 0 THEN << >> ELSE Longer(s[n - 1], sources)]
<1>7. h = [n \in 0..N |-> IF n = 0 THEN << >> ELSE Longer(h[n - 1], sources)]
  BY <1>6
<1>8. M!Order(sources) = h[N]
  BY DEF M!Order, N, Longer, Nexts
<1>9. 0..N \subseteq {n \in 0..N : h[n] \in orders}
  <2> DEFINE good == {n \in 0..N : h[n] \in orders}
  <2> HIDE DEF h
  <2>1. h[0] = << >> /\ \A n \in 1..N : h[n] = Longer(h[n - 1], sources)
    BY <1>1, <1>7
  <2>2. 0 \in good
    BY <1>1, <1>3, <2>1
  <2>3. ASSUME NEW n \in 1..N, n - 1 \in good PROVE n \in good
    BY <1>2, <2>1, <2>3
  <2> HIDE DEF good
  <2>4. 0..N \subseteq good
    BY <1>1, <2>2, <2>3, UpTo
  <2> QED
    BY <2>4 DEF good
<1>10. h[N] \in orders
  <2> HIDE DEF h
  <2> QED
    BY <1>1, <1>9
<1> QED
  <2> HIDE DEF h
  <2> QED
    BY <1>8, <1>10 DEF orders

-----------------------------------------------------------------------------
(* What a source adds to the plan.                                         *)
Block(source) ==
  [m \in 1..Len(source.migrations) |->
     [name |-> <<source.id, source.migrations[m].id>>,
      sql |-> source.migrations[m].sql,
      aliases |-> source.migrations[m].aliases]]

Blocks(sources) == [n \in 1..Len(M!Order(sources)) |-> Block(sources[M!Order(sources)[n]])]

Steps(sources) == UNION {M!Range(Block(source)) : source \in M!Range(sources)}

(* The plan of a build is the steps of its sources, in their order, one     *)
(* behind the other.                                                        *)
LEMMA PlanIsFlat ==
  ASSUME NEW b \in DOMAIN Builds
  PROVE  Flat(M!Plan(Builds[b]), Blocks(Builds[b]), Len(M!Order(Builds[b])), Steps(Builds[b]))
<1> DEFINE sources == Builds[b]
           order == M!Order(sources)
<1>1. sources \in Seq(M!Range(sources))
  BY MigrationsAssumption
<1>2. order \in Seq(DOMAIN sources)
  <2> HIDE DEF sources
  <2>1. Ordered(M!Order(sources), sources)
    BY <1>1, OrderIsOrdered
  <2> QED
    BY <2>1 DEF Ordered
<1>3. Len(order) \in Nat /\ \A n \in 1..Len(order) : order[n] \in DOMAIN sources
  <2> HIDE DEF order, sources
  <2> QED
    BY <1>2, LenProperties, ElementOfSeq
<1>4. ASSUME NEW i \in DOMAIN sources PROVE Block(sources[i]) \in Seq(Steps(sources))
  <2>1. sources[i] \in M!Range(sources)
    BY DEF M!Range
  <2>2. Len(sources[i].migrations) \in Nat
    <3>1. sources[i].migrations \in Seq(M!Range(sources[i].migrations))
      BY <2>1, MigrationsAssumption
    <3> HIDE DEF sources
    <3> QED
      BY <3>1, LenProperties
  <2>3. \A m \in 1..Len(sources[i].migrations) : Block(sources[i])[m] \in M!Range(Block(sources[i]))
    BY DEF Block, M!Range
  <2>4. M!Range(Block(sources[i])) \subseteq Steps(sources)
    BY <2>1 DEF Steps
  <2>5. Block(sources[i]) \in [1..Len(sources[i].migrations) -> Steps(sources)]
    BY <2>3, <2>4 DEF Block
  <2> HIDE DEF sources
  <2> QED
    BY <2>2, <2>5
<1>5. Blocks(sources) \in [1..Len(order) -> Seq(Steps(sources))]
  BY <1>3, <1>4 DEF Blocks
<1>6. M!Plan(sources) = M!FlattenSeq(Blocks(sources))
  BY DEF M!Plan, Blocks, Block
<1> HIDE DEF order, sources
<1>7. Flat(M!FlattenSeq(Blocks(sources)), Blocks(sources), Len(order), Steps(sources))
  BY <1>3, <1>5, FlattenSeqIsFlat
<1> QED
  BY <1>6, <1>7 DEF order, sources

(* The plan of a build is a sequence.                                       *)
LEMMA PlanIsSequence ==
  ASSUME NEW b \in DOMAIN Builds
  PROVE  LET plan == M!Plan(Builds[b])
         IN  Len(plan) \in Nat /\ DOMAIN plan = 1..Len(plan)
<1>1. M!Plan(Builds[b]) \in Seq(Steps(Builds[b]))
  BY PlanIsFlat DEF Flat
<1> QED
  BY <1>1, LenProperties

(* In a plan, a source's migrations follow those of the sources on which   *)
(* it depends.                                                             *)
THEOREM PlanFollowsDependencies ==
  ASSUME NEW b \in DOMAIN Builds, M!Compiles(Builds[b]),
         NEW k \in 1..Len(M!Plan(Builds[b])),
         NEW source \in M!Range(Builds[b]), source.id = M!Plan(Builds[b])[k].name[1],
         NEW other \in M!Range(Builds[b]), NEW d \in source.dependencies, d.id = other.id,
         NEW m \in M!Range(other.migrations)
  PROVE  \E j \in 1..(k - 1) : M!Plan(Builds[b])[j].name = <<other.id, m.id>>
<1> DEFINE sources == Builds[b]
           order == M!Order(sources)
           plan == M!Plan(sources)
<1>1. Ordered(order, sources)
  <2>1. sources \in Seq(M!Range(sources))
    BY MigrationsAssumption
  <2> HIDE DEF sources
  <2> QED
    BY <2>1, OrderIsOrdered
<1>2. Len(order) \in Nat /\ \A n \in 1..Len(order) : order[n] \in DOMAIN sources
  <2> HIDE DEF order, sources
  <2> QED
    BY <1>1, LenProperties, ElementOfSeq DEF Ordered
<1>3. \A i, j \in DOMAIN sources : sources[i].id = sources[j].id => i = j
  BY DEF M!Compiles
<1>4. PICK t \in 1..Len(order) :
        /\ plan[k] \in M!Range(Blocks(sources)[t])
        /\ \A u \in 1..(t - 1) : \A x \in M!Range(Blocks(sources)[u]) : \E j \in 1..(k - 1) : plan[j] = x
  BY PlanIsFlat DEF Flat
<1>5. \A u \in 1..Len(order) : Blocks(sources)[u] = Block(sources[order[u]])
  BY DEF Blocks
<1> HIDE DEF order, sources, plan
<1>6. sources[order[t]] = source
  <2>1. plan[k].name[1] = sources[order[t]].id
    <3> DEFINE mine == sources[order[t]]
    <3>1. plan[k] \in M!Range(Block(mine))
      BY <1>4, <1>5
    <3> HIDE DEF mine
    <3>2. PICK i \in DOMAIN Block(mine) : plan[k] = Block(mine)[i]
      BY <3>1 DEF M!Range
    <3>3. i \in 1..Len(mine.migrations)
      BY DEF Block
    <3>4. Block(mine)[i].name = <<mine.id, mine.migrations[i].id>>
      BY <3>3 DEF Block
    <3>5. plan[k].name = <<mine.id, mine.migrations[i].id>>
      BY <3>2, <3>4
    <3> QED
      BY <3>5 DEF mine
  <2>2. PICK i \in DOMAIN sources : sources[i] = source
    BY DEF M!Range, sources
  <2>3. source.id = plan[k].name[1]
    BY DEF plan, sources
  <2> QED
    BY <1>2, <1>3, <2>1, <2>2, <2>3
<1>7. PICK u \in 1..(t - 1) : sources[order[u]].id = d.id
  BY <1>1, <1>6 DEF Ordered
<1>8. u \in 1..Len(order)
  BY <1>2
<1>9. sources[order[u]] = other
  <2>1. PICK i \in DOMAIN sources : sources[i] = other
    BY DEF M!Range, sources
  <2> QED
    BY <1>2, <1>3, <1>7, <1>8, <2>1
<1>10. \E x \in M!Range(Block(other)) : x.name = <<other.id, m.id>>
  <2>1. other.migrations \in Seq(M!Range(other.migrations))
    BY MigrationsAssumption
  <2>2. DOMAIN other.migrations = 1..Len(other.migrations)
    BY <2>1, LenProperties
  <2>3. PICK n \in 1..Len(other.migrations) : other.migrations[n] = m
    BY <2>2 DEF M!Range
  <2>4. Block(other)[n].name = <<other.id, m.id>> /\ n \in DOMAIN Block(other)
    BY <2>3 DEF Block
  <2> QED
    BY <2>4 DEF M!Range
<1>11. \E j \in 1..(k - 1) : plan[j].name = <<other.id, m.id>>
  BY <1>4, <1>5, <1>7, <1>8, <1>9, <1>10
<1> QED
  BY <1>11 DEF plan, sources

-----------------------------------------------------------------------------
(* The processes that migrate.                                             *)

MigrationStates ==
  [at : {"lock", "look", "adopt", "execute", "error", "done", "failed"},
   build : DOMAIN Builds,
   plan : {M!Plan(Builds[b]) : b \in DOMAIN Builds} \cup {<< >>},
   next : Nat \ {0}]

(* What was committed is of a migration of its build.                      *)
Commits ==
  UNION {[sql : {m.sql : m \in M!Range(M!Plan(Builds[b]))}, build : {b}] : b \in DOMAIN Builds}

MigrationTypes ==
  /\ process \in [Processes -> {M!Idle} \cup MigrationStates]
  /\ executed \in Seq(Commits)

(* A process goes through the plan of its build, and holds the lock from   *)
(* the first migration on.  Behind it everything is recorded, and what it  *)
(* is about to execute is not, under any of its names.                     *)
UnderLock(p) ==
  /\ process[p].at \in {"look", "adopt", "execute", "error"} => lock = p
  /\ process[p].at \in {"lock", "look", "adopt", "execute"} =>
       /\ M!Compiles(M!Sources(p))
       /\ process[p].plan = M!Plan(M!Sources(p))
       /\ \A k \in 1..(process[p].next - 1) : process[p].plan[k].name \in DOMAIN recorded
  /\ process[p].at \in {"adopt", "execute"} => process[p].next <= Len(process[p].plan)
  /\ process[p].at = "execute" =>
       M!Migration(p).name \notin DOMAIN recorded /\ M!Migration(p).aliases \cap DOMAIN recorded = {}

Ran(e) ==
  \E m \in M!Range(M!Plan(Builds[e.build])) : m.sql = e.sql /\ m.name \in DOMAIN recorded

MigrationInv ==
  /\ MigrationTypes
  /\ \A p \in Processes : UnderLock(p)
  /\ \A i \in DOMAIN executed : Ran(executed[i])
  /\ M!ExecutedOnce

(* No process runs at first, and nothing is recorded or executed.           *)
LEMMA MigrationInit == M!Init => MigrationInv
<1> SUFFICES ASSUME M!Init PROVE MigrationInv
  OBVIOUS
<1>1. executed = << >>
  BY DEF M!Init
<1>2. \A p \in Processes : process[p] = M!Idle
  BY DEF M!Init
<1>3. \A p \in Processes : process[p].at = "idle"
  BY <1>2 DEF M!Idle
<1>4. \A p \in Processes : UnderLock(p)
  BY <1>3 DEF UnderLock
<1>5. MigrationTypes
  BY <1>1 DEF M!Init, MigrationTypes
<1>6. (\A i \in DOMAIN executed : Ran(executed[i])) /\ M!ExecutedOnce
  BY <1>1 DEF M!ExecutedOnce
<1> QED
  BY <1>4, <1>5, <1>6 DEF MigrationInv

(* A step of one process leaves another one what it relies on: one that    *)
(* relies on the lock has it, and only its holder records anything.        *)
LEMMA OthersUnderLock ==
  ASSUME MigrationInv, NEW p \in Processes, NEW q \in Processes, p # q,
         process'[q] = process[q], DOMAIN recorded \subseteq DOMAIN recorded',
         lock = q => lock' = q /\ recorded' = recorded
  PROVE  UnderLock(q)'
BY DEF MigrationInv, UnderLock, M!Sources, M!Migration

(* A step that records nothing.                                            *)
LEMMA MigrationQuiet ==
  ASSUME MigrationInv, NEW p \in Processes, NEW s \in {M!Idle} \cup MigrationStates,
         M!Become(p, s), UNCHANGED <<recorded, executed>>,
         \A q \in Processes \ {p} : lock = q => lock' = q,
         UnderLock(p)'
  PROVE  MigrationInv'
<1>1. process' = [process EXCEPT ![p] = s]
  BY DEF M!Become
<1>2. MigrationTypes'
  BY <1>1 DEF MigrationInv, MigrationTypes
<1>3. \A q \in Processes \ {p} : process'[q] = process[q]
  BY <1>1 DEF MigrationInv, MigrationTypes
<1>4. \A q \in Processes : UnderLock(q)'
  BY <1>3, OthersUnderLock
<1>5. (\A i \in DOMAIN executed' : Ran(executed[i])') /\ M!ExecutedOnce'
  BY DEF MigrationInv, Ran, M!ExecutedOnce
<1> QED
  BY <1>2, <1>4, <1>5 DEF MigrationInv

(* A process that runs has a build, a plan and a place in it.               *)
LEMMA ProcessShape ==
  ASSUME MigrationInv, NEW p \in Processes, process[p].at # "idle"
  PROVE  /\ process[p] \in MigrationStates
         /\ process[p].next \in Nat \ {0}
         /\ process[p].build \in DOMAIN Builds
<1>1. process[p] \in MigrationStates
  BY DEF MigrationInv, MigrationTypes, M!Idle
<1> QED
  BY <1>1 DEF MigrationStates

(* A process that goes on keeps its build and its plan.                    *)
LEMMA ProcessMoved ==
  ASSUME MigrationInv, NEW p \in Processes, process[p].at # "idle",
         NEW at2 \in {"lock", "look", "adopt", "execute", "error", "done", "failed"},
         NEW s, s = [process[p] EXCEPT !.at = at2], M!Become(p, s)
  PROVE  /\ s \in MigrationStates
         /\ process'[p] = s /\ s.at = at2 /\ s.build = process[p].build
         /\ s.plan = process[p].plan /\ s.next = process[p].next
<1>1. process[p] \in MigrationStates
  BY ProcessShape
<1>2. /\ s \in MigrationStates
      /\ s.at = at2 /\ s.build = process[p].build
      /\ s.plan = process[p].plan /\ s.next = process[p].next
  BY <1>1, Zenon DEF MigrationStates
<1>3. process'[p] = s
  BY DEF M!Become, MigrationInv, MigrationTypes
<1> QED
  BY <1>2, <1>3

(* Advancing looks at the next step of the same plan.                       *)
LEMMA ProcessAdvanced ==
  ASSUME MigrationInv, NEW p \in Processes, process[p].at # "idle", M!Advance(p)
  PROVE  \E s \in MigrationStates :
           /\ M!Become(p, s)
           /\ process'[p] = s /\ s.at = "look" /\ s.build = process[p].build
           /\ s.plan = process[p].plan /\ s.next = process[p].next + 1
<1> DEFINE s == [process[p] EXCEPT !.at = "look", !.next = process[p].next + 1]
<1>1. process[p] \in MigrationStates /\ process[p].next \in Nat \ {0}
  BY ProcessShape
<1>2. process[p].next + 1 \in Nat \ {0}
  BY <1>1
<1>3. /\ s \in MigrationStates
      /\ s.at = "look" /\ s.build = process[p].build
      /\ s.plan = process[p].plan /\ s.next = process[p].next + 1
  BY <1>1, <1>2, Zenon DEF MigrationStates
<1>4. M!Become(p, s)
  BY DEF M!Advance
<1> HIDE DEF s
<1>5. process'[p] = s
  BY <1>4 DEF M!Become, MigrationInv, MigrationTypes
<1> QED
  BY <1>3, <1>4, <1>5

(* The migration that is next is recorded.                                 *)
LEMMA MigrationRecorded ==
  ASSUME MigrationInv, NEW p \in Processes, process[p].at \in {"adopt", "execute"},
         M!Recorded(M!Migration(p)), M!Advance(p), lock' = lock,
         executed' \in Seq(Commits), \A i \in DOMAIN executed' : Ran(executed[i])', M!ExecutedOnce'
  PROVE  MigrationInv'
<1>1. PICK s \in MigrationStates :
        /\ M!Become(p, s)
        /\ process'[p] = s /\ s.at = "look" /\ s.build = process[p].build
        /\ s.plan = process[p].plan /\ s.next = process[p].next + 1
  BY ProcessAdvanced
<1>2. process' = [process EXCEPT ![p] = s]
  BY <1>1 DEF M!Become
<1>3. MigrationTypes'
  BY <1>1, <1>2 DEF MigrationInv, MigrationTypes
<1>4. DOMAIN recorded' = DOMAIN recorded \cup {M!Migration(p).name}
  BY DEF M!Recorded
<1>5. UnderLock(p) /\ lock = p /\ process[p].next \in Nat
  BY ProcessShape DEF MigrationInv, UnderLock
<1>6. UnderLock(p)'
  <2>1. M!Sources(p)' = M!Sources(p)
    BY <1>1 DEF M!Sources
  <2>2. ASSUME NEW k \in 1..(process'[p].next - 1)
        PROVE  process'[p].plan[k].name \in DOMAIN recorded'
    <3>1. CASE k \in 1..(process[p].next - 1)
      BY <1>1, <1>4, <1>5, <3>1 DEF UnderLock
    <3>2. CASE k = process[p].next
      BY <1>1, <1>4, <3>2 DEF M!Migration
    <3> QED
      BY <1>1, <1>5, <3>1, <3>2
  <2> QED
    BY <1>1, <1>5, <2>1, <2>2 DEF UnderLock
<1>7. ASSUME NEW q \in Processes, q # p PROVE UnderLock(q)'
  <2>1. process'[q] = process[q]
    BY <1>2, <1>7 DEF MigrationInv, MigrationTypes
  <2> QED
    BY <1>4, <1>5, <1>7, <2>1, OthersUnderLock
<1> QED
  BY <1>3, <1>6, <1>7 DEF MigrationInv

(* Every step of the migrating processes, a crash among them, keeps the     *)
(* invariant.                                                               *)
LEMMA MigrationNext == MigrationInv /\ [M!Next]_migrations => MigrationInv'
<1> SUFFICES ASSUME MigrationInv, [M!Next]_migrations PROVE MigrationInv'
  OBVIOUS
<1>0. CASE UNCHANGED migrations
  BY <1>0 DEF migrations, MigrationInv, MigrationTypes, UnderLock, Ran, M!ExecutedOnce,
              M!Sources, M!Migration
<1>1. ASSUME NEW p \in Processes, NEW build \in DOMAIN Builds, M!Begin(p, build) PROVE MigrationInv'
  <2> DEFINE s == IF M!Compiles(Builds[build])
                  THEN [at |-> "lock", build |-> build, plan |-> M!Plan(Builds[build]), next |-> 1]
                  ELSE [at |-> "failed", build |-> build, plan |-> << >>, next |-> 1]
  <2>1. s \in MigrationStates
    BY DEF MigrationStates
  <2>2. M!Become(p, s) /\ UNCHANGED <<lock, recorded, executed>>
    BY <1>1 DEF M!Begin
  <2>3. process'[p] = s
    BY <2>2 DEF M!Become, MigrationInv, MigrationTypes
  <2>4. UnderLock(p)'
    BY <2>3 DEF UnderLock, M!Sources
  <2> HIDE DEF s
  <2> QED
    BY <2>1, <2>2, <2>4, MigrationQuiet
<1>2. ASSUME NEW p \in Processes, M!Lock(p) PROVE MigrationInv'
  <2> DEFINE s == [process[p] EXCEPT !.at = "look"]
  <2>1. process[p].at = "lock" /\ M!Become(p, s) /\ UNCHANGED <<recorded, executed>> /\ lock' = p /\ lock = M!Nobody
    BY <1>2 DEF M!Lock, M!At
  <2> HIDE DEF s
  <2>2. /\ s \in MigrationStates
        /\ process'[p] = s /\ s.at = "look" /\ s.build = process[p].build
        /\ s.plan = process[p].plan /\ s.next = process[p].next
    BY <2>1, ProcessMoved DEF s
  <2>3. UnderLock(p)'
    BY <2>1, <2>2 DEF MigrationInv, UnderLock, M!Sources, M!Migration
  <2>4. \A q \in Processes : lock # q
    BY <2>1, MigrationsAssumption
  <2> QED
    BY <2>1, <2>2, <2>3, <2>4, MigrationQuiet
<1>3. ASSUME NEW p \in Processes, M!Look(p) PROVE MigrationInv'
  <2> DEFINE m == M!Migration(p)
             legacy == m.aliases \cap DOMAIN recorded
  <2>1. process[p].at = "look" /\ process[p].next <= Len(process[p].plan) /\ UNCHANGED <<lock, recorded, executed>>
    BY <1>3 DEF M!Look, M!At
  <2>2. UnderLock(p) /\ process[p].next \in Nat
    BY <2>1, ProcessShape DEF MigrationInv
  <2>3. CASE m.name \in DOMAIN recorded /\ M!Advance(p)
    <3>1. PICK s \in MigrationStates :
            /\ M!Become(p, s)
            /\ process'[p] = s /\ s.at = "look" /\ s.build = process[p].build
            /\ s.plan = process[p].plan /\ s.next = process[p].next + 1
      BY <2>1, <2>3, ProcessAdvanced
    <3>2. \A k \in 1..(s.next - 1) : k \in 1..(process[p].next - 1) \/ k = process[p].next
      BY <2>2, <3>1
    <3>3. \A k \in 1..(s.next - 1) : s.plan[k].name \in DOMAIN recorded
      BY <2>1, <2>2, <2>3, <3>1, <3>2 DEF UnderLock, M!Migration
    <3>4. UnderLock(p)'
      BY <2>1, <2>2, <3>1, <3>3 DEF UnderLock, M!Sources
    <3> QED
      BY <2>1, <3>1, <3>4, MigrationQuiet
  <2>4. ASSUME NEW at2 \in {"adopt", "execute", "error"},
               M!Become(p, [process[p] EXCEPT !.at = at2]),
               at2 = "execute" => m.name \notin DOMAIN recorded /\ legacy = {}
        PROVE  MigrationInv'
    <3>1. PICK s : s = [process[p] EXCEPT !.at = at2]
      OBVIOUS
    <3>2. /\ s \in MigrationStates /\ M!Become(p, s)
          /\ process'[p] = s /\ s.at = at2 /\ s.build = process[p].build
          /\ s.plan = process[p].plan /\ s.next = process[p].next
      BY <2>1, <2>4, <3>1, ProcessMoved
    <3>3. M!Migration(p)' = m /\ M!Sources(p)' = M!Sources(p)
      BY <3>2 DEF M!Migration, M!Sources
    <3>4. UnderLock(p)'
      BY <2>1, <2>2, <2>4, <3>2, <3>3 DEF UnderLock
    <3> QED
      BY <2>1, <3>2, <3>4, MigrationQuiet
  <2>5. \/ m.name \in DOMAIN recorded /\ M!Advance(p)
        \/ \E at2 \in {"adopt", "execute", "error"} :
             /\ M!Become(p, [process[p] EXCEPT !.at = at2])
             /\ at2 = "execute" => m.name \notin DOMAIN recorded /\ legacy = {}
    BY <1>3 DEF M!Look
  <2> QED
    BY <2>3, <2>4, <2>5
<1>4. ASSUME NEW p \in Processes, M!Adopt(p) PROVE MigrationInv'
  <2>1. /\ process[p].at = "adopt" /\ M!Recorded(M!Migration(p)) /\ M!Advance(p)
        /\ UNCHANGED <<lock, executed>>
    BY <1>4 DEF M!Adopt, M!At
  <2>2. DOMAIN recorded \subseteq DOMAIN recorded'
    BY <2>1 DEF M!Recorded
  <2>3. (\A i \in DOMAIN executed' : Ran(executed[i])') /\ M!ExecutedOnce'
    BY <2>1, <2>2 DEF MigrationInv, Ran, M!ExecutedOnce
  <2> QED
    BY <2>1, <2>3, MigrationRecorded DEF MigrationInv, MigrationTypes
<1>5. ASSUME NEW p \in Processes, M!Execute(p) PROVE MigrationInv'
  <2> DEFINE m == M!Migration(p)
             b == process[p].build
             plan == M!Plan(Builds[b])
             e == [sql |-> m.sql, build |-> b]
  <2>1. /\ process[p].at = "execute" /\ M!Recorded(m) /\ M!Advance(p)
        /\ executed' = Append(executed, e) /\ lock' = lock
    BY <1>5 DEF M!Execute, M!At, M!Executed
  <2>2. UnderLock(p) /\ b \in DOMAIN Builds /\ process[p].next \in Nat \ {0}
    BY <2>1, ProcessShape DEF MigrationInv
  <2>3. m \in M!Range(plan)
    <3>1. process[p].plan = plan /\ process[p].next <= Len(plan)
      BY <2>1, <2>2 DEF UnderLock, M!Sources
    <3>2. Len(plan) \in Nat /\ DOMAIN plan = 1..Len(plan)
      BY <2>2, PlanIsSequence
    <3>3. process[p].next \in DOMAIN plan
      BY <2>2, <3>1, <3>2
    <3> QED
      BY <3>1, <3>3 DEF M!Range, M!Migration
  <2>4. m.name \notin DOMAIN recorded /\ m.aliases \cap DOMAIN recorded = {}
    BY <2>1, <2>2 DEF UnderLock
  <2>5. e \in Commits
    BY <2>2, <2>3 DEF Commits
  <2> HIDE DEF e
  <2>6. /\ executed' \in Seq(Commits)
        /\ Len(executed') = Len(executed) + 1
        /\ executed'[Len(executed) + 1] = e
        /\ \A i \in 1..Len(executed) : executed'[i] = executed[i]
    BY <2>1, <2>5, AppendProperties DEF MigrationInv, MigrationTypes
  <2>7. /\ Len(executed) \in Nat /\ DOMAIN executed = 1..Len(executed)
        /\ DOMAIN executed' = 1..(Len(executed) + 1)
    BY <2>6, LenProperties DEF MigrationInv, MigrationTypes
  <2>8. DOMAIN recorded' = DOMAIN recorded \cup {m.name}
    BY <2>1 DEF M!Recorded
  <2>9. ASSUME NEW i \in DOMAIN executed' PROVE Ran(executed[i])'
    <3>1. CASE i \in DOMAIN executed
      BY <2>6, <2>7, <2>8, <3>1 DEF MigrationInv, Ran
    <3>2. CASE i = Len(executed) + 1
      <4>1. e.build = b /\ e.sql = m.sql
        BY DEF e
      <4> QED
        BY <2>3, <2>6, <2>8, <3>2, <4>1 DEF Ran
    <3> QED
      BY <2>7, <3>1, <3>2
  <2>10. ASSUME NEW i \in DOMAIN executed, executed[i].sql = e.sql PROVE e.build < executed[i].build
    <3>1. PICK n \in M!Range(M!Plan(Builds[executed[i].build])) :
            n.sql = executed[i].sql /\ n.name \in DOMAIN recorded
      BY DEF MigrationInv, Ran
    <3>2. executed[i].build \in DOMAIN Builds
      <4>1. executed[i] \in Commits
        BY <2>7, ElementOfSeq DEF MigrationInv, MigrationTypes
      <4> QED
        BY <4>1 DEF Commits
    <3>3. e.build = b /\ e.sql = m.sql
      BY DEF e
    <3>4. ~(n.name = m.name \/ n.name \in m.aliases)
      BY <2>4, <3>1
    <3>5. ~(executed[i].build <= b)
      BY <2>2, <2>3, <2>10, <3>1, <3>2, <3>3, <3>4, ReleasesAssumption
    <3> QED
      BY <2>2, <3>2, <3>3, <3>5, MigrationsAssumption
  <2>11. M!ExecutedOnce'
    <3> SUFFICES ASSUME NEW i \in DOMAIN executed', NEW j \in DOMAIN executed',
                        i < j, executed'[i].sql = executed'[j].sql
                 PROVE  executed'[j].build < executed'[i].build
      BY DEF M!ExecutedOnce
    <3>1. i \in DOMAIN executed /\ executed'[i] = executed[i]
      BY <2>6, <2>7
    <3>2. CASE j \in DOMAIN executed
      BY <2>6, <2>7, <3>1, <3>2 DEF MigrationInv, M!ExecutedOnce
    <3>3. CASE j = Len(executed) + 1
      BY <2>6, <2>10, <3>1, <3>3
    <3> QED
      BY <2>7, <3>2, <3>3
  <2> QED
    BY <2>1, <2>6, <2>9, <2>11, MigrationRecorded
<1>6. ASSUME NEW p \in Processes, M!Reject(p) PROVE MigrationInv'
  <2>1. PICK s : s = [process[p] EXCEPT !.at = "error"]
    OBVIOUS
  <2>2. process[p].at \in {"adopt", "execute"} /\ M!Become(p, s) /\ UNCHANGED <<lock, recorded, executed>>
    BY <1>6, <2>1 DEF M!Reject
  <2>3. s \in MigrationStates /\ process'[p] = s /\ s.at = "error"
    BY <2>1, <2>2, ProcessMoved
  <2>4. UnderLock(p)'
    BY <2>2, <2>3 DEF MigrationInv, UnderLock
  <2> QED
    BY <2>2, <2>3, <2>4, MigrationQuiet
<1>7. ASSUME NEW p \in Processes, M!Finish(p) PROVE MigrationInv'
  <2>1. PICK at2 \in {"failed", "done"} : M!Become(p, [process[p] EXCEPT !.at = at2])
    BY <1>7 DEF M!Finish
  <2>2. PICK s : s = [process[p] EXCEPT !.at = at2]
    OBVIOUS
  <2>3. process[p].at \in {"error", "look"} /\ M!Become(p, s) /\ UNCHANGED <<recorded, executed>>
    BY <1>7, <2>1, <2>2 DEF M!Finish, M!At
  <2>4. s \in MigrationStates /\ process'[p] = s /\ s.at = at2
    BY <2>2, <2>3, ProcessMoved
  <2>5. UnderLock(p)'
    BY <2>4 DEF UnderLock
  <2>6. lock = p
    BY <2>3 DEF MigrationInv, UnderLock
  <2> QED
    BY <2>3, <2>4, <2>5, <2>6, MigrationQuiet
<1>8. ASSUME NEW p \in Processes, M!Crash(p) PROVE MigrationInv'
  <2>1. /\ M!Become(p, M!Idle) /\ UNCHANGED <<recorded, executed>>
        /\ lock' = IF lock = p THEN M!Nobody ELSE lock
    BY <1>8 DEF M!Crash
  <2>2. process'[p].at = "idle"
    BY <2>1 DEF M!Become, M!Idle, MigrationInv, MigrationTypes
  <2>3. UnderLock(p)'
    BY <2>2 DEF UnderLock
  <2> QED
    BY <2>1, <2>3, MigrationQuiet
<1> QED
  BY <1>0, <1>1, <1>2, <1>3, <1>4, <1>5, <1>6, <1>7, <1>8 DEF M!Next, migrations, M!vars

(* No SQL is executed a second time, whichever processes die, wait or      *)
(* overtake each other, if every build knows what earlier builds released. *)
THEOREM ExecutedOnceCorrect == Spec => []ExecutedOnce
<1>1. Init => MigrationInv
  BY MigrationInit DEF Init
<1>2. MigrationInv /\ [Next]_vars => MigrationInv'
  BY MigrationNext DEF Next, vars
<1>3. MigrationInv => ExecutedOnce
  BY DEF MigrationInv, ExecutedOnce
<1> QED
  BY <1>1, <1>2, <1>3, PTL DEF Spec

(* A migration is executed after every one of the sources that its own     *)
(* source depends on.                                                      *)
THEOREM AfterDependenciesCorrect == Spec => AfterDependencies
<1>1. Init => MigrationInv
  BY MigrationInit DEF Init
<1>2. MigrationInv /\ [Next]_vars => MigrationInv'
  BY MigrationNext DEF Next, vars
<1>3. ASSUME MigrationInv, NEW p \in Processes, M!At(p, "execute"),
             NEW source \in M!Range(M!Sources(p)), NEW other \in M!Range(M!Sources(p)),
             source.id = M!Migration(p).name[1],
             \E d \in source.dependencies : d.id = other.id,
             NEW m \in M!Range(other.migrations)
      PROVE  <<other.id, m.id>> \in DOMAIN recorded
  <2> DEFINE b == process[p].build
             plan == M!Plan(Builds[b])
             k == process[p].next
  <2>1. UnderLock(p) /\ process[p].at = "execute" /\ b \in DOMAIN Builds /\ k \in Nat \ {0}
    BY <1>3, ProcessShape DEF M!At, MigrationInv
  <2>2. /\ M!Compiles(Builds[b]) /\ process[p].plan = plan /\ k <= Len(plan)
        /\ \A j \in 1..(k - 1) : plan[j].name \in DOMAIN recorded
    BY <2>1 DEF UnderLock, M!Sources
  <2>3. k \in 1..Len(plan)
    BY <2>1, <2>2, PlanIsSequence
  <2>4. source.id = plan[k].name[1] /\ source \in M!Range(Builds[b]) /\ other \in M!Range(Builds[b])
    BY <1>3, <2>2 DEF M!Migration, M!Sources
  <2>5. PICK d \in source.dependencies : d.id = other.id
    BY <1>3
  <2>6. \E j \in 1..(k - 1) : plan[j].name = <<other.id, m.id>>
    BY <2>1, <2>2, <2>3, <2>4, <2>5, PlanFollowsDependencies
  <2> QED
    BY <2>2, <2>6
<1>4. MigrationInv => [\A p \in Processes :
        executed' # executed /\ M!At(p, "execute") /\ process'[p] # process[p] =>
          \A source, other \in M!Range(M!Sources(p)) :
            /\ source.id = M!Migration(p).name[1]
            /\ \E d \in source.dependencies : d.id = other.id
            => \A m \in M!Range(other.migrations) : <<other.id, m.id>> \in DOMAIN recorded]_(M!vars)
  BY <1>3
<1> QED
  BY <1>1, <1>2, <1>4, PTL DEF Spec, AfterDependencies, M!AfterDependencies

(* One process at a time is between the lock and the end of its run,        *)
(* whichever of them die.                                                  *)
Migrating(p) == process[p].at \in {"look", "adopt", "execute", "error"}

OneMigrates == \A p, q \in Processes : Migrating(p) /\ Migrating(q) => p = q

(* The advisory lock excludes: two processes that start together never      *)
(* migrate at the same time.                                                *)
THEOREM OneMigratesCorrect == Spec => []OneMigrates
<1>1. Init => MigrationInv
  BY MigrationInit DEF Init
<1>2. MigrationInv /\ [Next]_vars => MigrationInv'
  BY MigrationNext DEF Next, vars
<1>3. MigrationInv => OneMigrates
  BY DEF MigrationInv, UnderLock, OneMigrates, Migrating
<1> QED
  BY <1>1, <1>2, <1>3, PTL DEF Spec

(* Every variable of Migrations has its type.                              *)
MigrationBounds ==
  /\ lock \in Processes \cup {M!Nobody}
  /\ \A p \in Processes : process[p] # M!Idle =>
       Len(process[p].plan) \in Nat /\ process[p].next <= Len(process[p].plan) + 1

(* The plan of a process that runs is finite.                               *)
LEMMA PlansAre ==
  ASSUME MigrationInv, NEW p \in Processes, process[p] # M!Idle
  PROVE  process[p] \in MigrationStates /\ Len(process[p].plan) \in Nat
  BY PlanIsSequence DEF MigrationInv, MigrationTypes, MigrationStates

(* Every step keeps the place of each process within its plan.              *)
LEMMA MigrationBoundsNext ==
  ASSUME MigrationInv, MigrationInv', MigrationBounds, [M!Next]_migrations PROVE MigrationBounds'
<1>0. CASE UNCHANGED migrations
  BY <1>0 DEF migrations, MigrationBounds
<1>t. process \in [Processes -> {M!Idle} \cup MigrationStates]
  BY DEF MigrationInv, MigrationTypes
<1>1. ASSUME NEW p \in Processes, NEW s, process'[p] = s,
             \A q \in Processes \ {p} : process'[q] = process[q],
             s = M!Idle \/ s.next <= Len(s.plan) + 1, lock' \in {lock, p, M!Nobody}
      PROVE  MigrationBounds'
  <2>1. ASSUME NEW q \in Processes, process'[q] # M!Idle
        PROVE  Len(process'[q].plan) \in Nat /\ process'[q].next <= Len(process'[q].plan) + 1
    <3>1. Len(process'[q].plan) \in Nat
      BY <2>1, PlansAre
    <3> QED
      BY <1>1, <2>1, <3>1 DEF MigrationBounds
  <2> QED
    BY <1>1, <2>1 DEF MigrationBounds
<1>2. ASSUME NEW p \in Processes, NEW s, M!Become(p, s)
      PROVE  process'[p] = s /\ \A q \in Processes \ {p} : process'[q] = process[q]
  BY <1>2, <1>t DEF M!Become
<1>3. ASSUME NEW p \in Processes, process[p].at # "idle"
      PROVE  /\ process[p] # M!Idle /\ process[p].next \in Nat \ {0}
             /\ Len(process[p].plan) \in Nat /\ process[p].next <= Len(process[p].plan) + 1
  BY <1>3, ProcessShape DEF M!Idle, MigrationBounds
<1>4. ASSUME NEW p \in Processes, process[p].at # "idle",
             NEW at2 \in {"lock", "look", "adopt", "execute", "error", "done", "failed"},
             M!Become(p, [process[p] EXCEPT !.at = at2]), lock' \in {lock, p, M!Nobody}
      PROVE  MigrationBounds'
  <2>1. PICK s : s = [process[p] EXCEPT !.at = at2]
    OBVIOUS
  <2>2. s.plan = process[p].plan /\ s.next = process[p].next
    BY <1>4, <2>1, ProcessMoved
  <2> QED
    BY <1>1, <1>2, <1>3, <1>4, <2>1, <2>2
<1>5. ASSUME NEW p \in Processes, process[p].at # "idle", process[p].next <= Len(process[p].plan),
             M!Advance(p), lock' = lock
      PROVE  MigrationBounds'
  <2>1. PICK s \in MigrationStates :
          M!Become(p, s) /\ s.plan = process[p].plan /\ s.next = process[p].next + 1
    BY <1>5, ProcessAdvanced
  <2>2. s.next <= Len(s.plan) + 1
    BY <1>3, <1>5, <2>1
  <2> QED
    BY <1>1, <1>2, <1>5, <2>1, <2>2
<1>6. ASSUME NEW p \in Processes, NEW build \in DOMAIN Builds, M!Begin(p, build) PROVE MigrationBounds'
  <2>1. PICK s : s = IF M!Compiles(Builds[build])
                     THEN [at |-> "lock", build |-> build, plan |-> M!Plan(Builds[build]), next |-> 1]
                     ELSE [at |-> "failed", build |-> build, plan |-> << >>, next |-> 1]
    OBVIOUS
  <2>2. M!Become(p, s) /\ lock' = lock
    BY <1>6, <2>1 DEF M!Begin
  <2>3. s.next = 1 /\ s.at # "idle"
    BY <2>1
  <2>4. Len(s.plan) \in Nat
    <3>1. s # M!Idle
      BY <2>3 DEF M!Idle
    <3> QED
      BY <1>2, <2>2, <3>1, PlansAre
  <2> QED
    BY <1>1, <1>2, <2>2, <2>3, <2>4
<1>7. ASSUME NEW p \in Processes, M!Lock(p) PROVE MigrationBounds'
  BY <1>4, <1>7 DEF M!Lock, M!At
<1>8. ASSUME NEW p \in Processes, M!Look(p) PROVE MigrationBounds'
  <2>1. process[p].at = "look" /\ process[p].next <= Len(process[p].plan) /\ lock' = lock
    BY <1>8 DEF M!Look, M!At
  <2>2. \/ M!Advance(p)
        \/ \E at2 \in {"adopt", "execute", "error"} : M!Become(p, [process[p] EXCEPT !.at = at2])
    BY <1>8 DEF M!Look
  <2> QED
    BY <1>4, <1>5, <2>1, <2>2
<1>9. ASSUME NEW p \in Processes, process[p].at \in {"adopt", "execute"}, M!Advance(p), lock' = lock
      PROVE  MigrationBounds'
  <2>1. process[p].next <= Len(process[p].plan)
    BY <1>9 DEF MigrationInv, UnderLock
  <2> QED
    BY <1>5, <1>9, <2>1
<1>10. ASSUME NEW p \in Processes, M!Adopt(p) \/ M!Execute(p) PROVE MigrationBounds'
  BY <1>9, <1>10 DEF M!Adopt, M!Execute, M!At
<1>11. ASSUME NEW p \in Processes, M!Reject(p) PROVE MigrationBounds'
  BY <1>4, <1>11 DEF M!Reject
<1>12. ASSUME NEW p \in Processes, M!Finish(p) PROVE MigrationBounds'
  <2>1. PICK at2 \in {"failed", "done"} : M!Become(p, [process[p] EXCEPT !.at = at2])
    BY <1>12 DEF M!Finish
  <2> QED
    BY <1>4, <1>12, <2>1 DEF M!Finish, M!At
<1>13. ASSUME NEW p \in Processes, M!Crash(p) PROVE MigrationBounds'
  <2>1. M!Become(p, M!Idle) /\ lock' \in {lock, M!Nobody}
    BY <1>13 DEF M!Crash
  <2> QED
    BY <1>1, <1>2, <2>1
<1> QED
  BY <1>0, <1>6, <1>7, <1>8, <1>10, <1>11, <1>12, <1>13 DEF M!Next, migrations, M!vars

(* Every variable of Migrations has its type in every state, whatever the   *)
(* builds are.                                                              *)
THEOREM MigrationsTyped == Spec => []M!TypeOK
<1>1. Init => MigrationInv /\ MigrationBounds
  <2> SUFFICES ASSUME M!Init PROVE MigrationInv /\ MigrationBounds
    BY DEF Init
  <2>1. (\A p \in Processes : process[p] = M!Idle) /\ lock = M!Nobody
    BY DEF M!Init
  <2> QED
    BY <2>1, MigrationInit DEF MigrationBounds
<1>2. MigrationInv /\ MigrationBounds /\ [Next]_vars => MigrationInv' /\ MigrationBounds'
  BY MigrationNext, MigrationBoundsNext DEF Next, vars
<1>3. MigrationInv /\ MigrationBounds => M!TypeOK
  <2> SUFFICES ASSUME MigrationInv, MigrationBounds PROVE M!TypeOK
    OBVIOUS
  <2>1. ASSUME NEW p \in Processes, process[p] # M!Idle
        PROVE  /\ process[p].at \in {"lock", "look", "adopt", "execute", "error", "done", "failed"}
               /\ process[p].build \in DOMAIN Builds
               /\ process[p].next \in 1..(Len(process[p].plan) + 1)
    <3>1. process[p] \in MigrationStates /\ Len(process[p].plan) \in Nat
      BY <2>1, PlansAre
    <3> QED
      BY <2>1, <3>1 DEF MigrationStates, MigrationBounds
  <2> QED
    BY <2>1 DEF M!TypeOK, MigrationBounds
<1> QED
  BY <1>1, <1>2, <1>3, PTL DEF Spec

(* The record is true: whatever it has, under whichever name, was executed *)
(* with that checksum.  A process that adopts an alias has seen it there.  *)
Committed == {executed[i].sql : i \in DOMAIN executed}

RecordIsTrue == \A name \in DOMAIN recorded : recorded[name] \in Committed

RecordInv ==
  /\ RecordIsTrue
  /\ \A p \in Processes : process[p].at = "adopt" => M!Migration(p).sql \in Committed

(* Every step records a name only with a checksum that was executed.        *)
LEMMA RecordNext ==
  ASSUME MigrationInv, MigrationInv', RecordInv, [M!Next]_migrations PROVE RecordInv'
<1>0. CASE UNCHANGED migrations
  BY <1>0 DEF migrations, RecordInv, RecordIsTrue, Committed, M!Migration
<1>t. process \in [Processes -> {M!Idle} \cup MigrationStates] /\ executed \in Seq(Commits)
  BY DEF MigrationInv, MigrationTypes
<1>1. ASSUME UNCHANGED recorded, UNCHANGED executed, NEW p \in Processes, NEW s, M!Become(p, s),
             s.at = "adopt" => s.plan[s.next].sql \in Committed
      PROVE  RecordInv'
  <2>1. process'[p] = s /\ \A q \in Processes \ {p} : process'[q] = process[q]
    BY <1>1, <1>t DEF M!Become
  <2>2. Committed' = Committed
    BY <1>1 DEF Committed
  <2> QED
    BY <1>1, <2>1, <2>2 DEF RecordInv, RecordIsTrue, M!Migration
<1>2. ASSUME NEW p \in Processes, NEW build \in DOMAIN Builds,
             M!Begin(p, build)
      PROVE  RecordInv'
  BY <1>1, <1>2 DEF M!Begin
<1>3. ASSUME NEW p \in Processes, process[p].at # "idle",
             NEW at2 \in {"lock", "look", "adopt", "execute", "error", "done", "failed"},
             M!Become(p, [process[p] EXCEPT !.at = at2]), UNCHANGED <<recorded, executed>>,
             at2 = "adopt" => M!Migration(p).sql \in Committed
      PROVE  RecordInv'
  <2>1. PICK s : s = [process[p] EXCEPT !.at = at2]
    OBVIOUS
  <2>2. s.at = at2 /\ s.plan = process[p].plan /\ s.next = process[p].next
    BY <1>3, <2>1, ProcessMoved
  <2> QED
    BY <1>1, <1>3, <2>1, <2>2 DEF M!Migration
<1>4. ASSUME NEW p \in Processes, process[p].at # "idle", M!Advance(p)
      PROVE  \E s : M!Become(p, s) /\ s.at = "look"
  BY <1>4, ProcessAdvanced
<1>5. ASSUME NEW p \in Processes, M!Lock(p) PROVE RecordInv'
  BY <1>3, <1>5 DEF M!Lock, M!At
<1>6. ASSUME NEW p \in Processes, M!Look(p) PROVE RecordInv'
  <2> DEFINE m == M!Migration(p)
             legacy == m.aliases \cap DOMAIN recorded
  <2>1. process[p].at = "look" /\ UNCHANGED <<lock, recorded, executed>>
    BY <1>6 DEF M!Look, M!At
  <2>2. \/ M!Advance(p)
        \/ \E at2 \in {"execute", "error"} : M!Become(p, [process[p] EXCEPT !.at = at2])
        \/ /\ M!Become(p, [process[p] EXCEPT !.at = "adopt"])
           /\ legacy # {} /\ \A a \in legacy : recorded[a] = m.sql
    BY <1>6 DEF M!Look
  <2>3. CASE M!Advance(p)
    BY <1>1, <1>4, <2>1, <2>3
  <2>4. CASE \E at2 \in {"execute", "error"} : M!Become(p, [process[p] EXCEPT !.at = at2])
    BY <1>3, <2>1, <2>4
  <2>5. CASE /\ M!Become(p, [process[p] EXCEPT !.at = "adopt"])
             /\ legacy # {} /\ \A a \in legacy : recorded[a] = m.sql
    <3>1. PICK a \in DOMAIN recorded : recorded[a] = m.sql
      BY <2>5
    <3>2. m.sql \in Committed
      BY <3>1 DEF RecordInv, RecordIsTrue
    <3> QED
      BY <1>3, <2>1, <2>5, <3>2
  <2> QED
    BY <2>2, <2>3, <2>4, <2>5
<1>7. ASSUME NEW p \in Processes, process[p].at \in {"adopt", "execute"},
             M!Recorded(M!Migration(p)), M!Advance(p),
             Committed \subseteq Committed', M!Migration(p).sql \in Committed'
      PROVE  RecordInv'
  <2>1. PICK s : M!Become(p, s) /\ s.at = "look"
    BY <1>4, <1>7
  <2>2. process'[p].at = "look" /\ \A q \in Processes \ {p} : process'[q] = process[q]
    BY <1>t, <2>1 DEF M!Become
  <2>3. ASSUME NEW name \in DOMAIN recorded' PROVE recorded'[name] \in Committed'
    BY <1>7, <2>3 DEF M!Recorded, RecordInv, RecordIsTrue
  <2>4. ASSUME NEW q \in Processes, process'[q].at = "adopt" PROVE M!Migration(q)'.sql \in Committed'
    <3>1. q # p /\ M!Migration(q)' = M!Migration(q) /\ process[q].at = "adopt"
      BY <2>2, <2>4 DEF M!Migration
    <3> QED
      BY <1>7, <3>1 DEF RecordInv
  <2> QED
    BY <2>3, <2>4 DEF RecordInv, RecordIsTrue
<1>8. ASSUME NEW p \in Processes, M!Adopt(p) PROVE RecordInv'
  <2>1. process[p].at = "adopt" /\ UNCHANGED executed /\ M!Recorded(M!Migration(p)) /\ M!Advance(p)
    BY <1>8 DEF M!Adopt, M!At
  <2>2. Committed' = Committed
    BY <2>1 DEF Committed
  <2>3. M!Migration(p).sql \in Committed
    BY <2>1 DEF RecordInv
  <2> QED
    BY <1>7, <2>1, <2>2, <2>3
<1>9. ASSUME NEW p \in Processes, M!Execute(p) PROVE RecordInv'
  <2> DEFINE m == M!Migration(p)
             e == [sql |-> m.sql, build |-> process[p].build]
  <2>1. /\ process[p].at = "execute" /\ M!Recorded(m) /\ M!Advance(p)
        /\ executed' = Append(executed, e)
    BY <1>9 DEF M!Execute, M!At, M!Executed
  <2>2. e.sql = m.sql
    OBVIOUS
  <2> HIDE DEF e
  <2>3. executed' \in Seq(Commits)
    BY DEF MigrationInv, MigrationTypes
  <2>4. /\ Len(executed) \in Nat /\ DOMAIN executed = 1..Len(executed)
        /\ DOMAIN executed' = 1..(Len(executed) + 1)
        /\ executed'[Len(executed) + 1] = e
        /\ \A i \in 1..Len(executed) : executed'[i] = executed[i]
    BY <1>t, <2>1
  <2>5. m.sql \in Committed' /\ Committed \subseteq Committed'
    BY <2>2, <2>4 DEF Committed
  <2> QED
    BY <1>7, <2>1, <2>5
<1>10. ASSUME NEW p \in Processes, M!Reject(p) PROVE RecordInv'
  BY <1>3, <1>10 DEF M!Reject
<1>11. ASSUME NEW p \in Processes, M!Finish(p) PROVE RecordInv'
  <2>1. PICK at2 \in {"failed", "done"} : M!Become(p, [process[p] EXCEPT !.at = at2])
    BY <1>11 DEF M!Finish
  <2> QED
    BY <1>3, <1>11, <2>1 DEF M!Finish, M!At
<1>12. ASSUME NEW p \in Processes, M!Crash(p) PROVE RecordInv'
  <2>1. M!Idle.at # "adopt"
    BY DEF M!Idle
  <2> QED
    BY <1>1, <1>12, <2>1 DEF M!Crash
<1> QED
  BY <1>0, <1>2, <1>5, <1>6, <1>8, <1>9, <1>10, <1>11, <1>12 DEF M!Next, migrations, M!vars

(* Whatever lingcoo_migrations records was executed with that checksum,     *)
(* adopted aliases included.                                                *)
THEOREM RecordCorrect == Spec => []RecordIsTrue
<1>1. Init => MigrationInv /\ RecordInv
  <2> SUFFICES ASSUME M!Init PROVE RecordInv
    BY MigrationInit DEF Init
  <2>1. DOMAIN recorded = {}
    BY DEF M!Init
  <2>2. \A p \in Processes : process[p].at = "idle"
    BY DEF M!Init, M!Idle
  <2> QED
    BY <2>1, <2>2 DEF RecordInv, RecordIsTrue
<1>2. MigrationInv /\ RecordInv /\ [Next]_vars => MigrationInv' /\ RecordInv'
  BY MigrationNext, RecordNext DEF Next, vars
<1> QED
  BY <1>1, <1>2, PTL DEF Spec, RecordInv
=============================================================================
