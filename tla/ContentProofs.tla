---------------------------- MODULE ContentProofs ----------------------------
(* Theorems of Content, for any number of requests, workers, inputs, times *)
(* and versions.                                                           *)
EXTENDS Content, TLAPS, SequenceTheorems

(* The shapes a process may have.                                          *)
LEMMA Shapes ==
  /\ Idle \in States
  /\ \A i \in Inputs : [op |-> "update", input |-> i] \in States
  /\ \A s \in Statuses, v \in Nat, t \in Times \cup {Never} :
       [op |-> "status", to |-> s, version |-> v, at |-> t] \in States
  /\ \A s \in Statuses, t \in Times \cup {Never} :
       [op |-> "schedule", to |-> t, status |-> s] \in States
  /\ \A o \in {"job", "publish", "done"}, t \in Times : [op |-> o, at |-> t] \in States
BY DEF States

(* What a process that is on its way carries, by the operation it is in.    *)
LEMMA Fields ==
  ASSUME TypeOK, NEW p \in Processes
  PROVE  /\ process[p] \in States
         /\ process[p].op = "update" => process[p].input \in Inputs
         /\ process[p].op = "status" => /\ process[p].to \in Statuses
                                        /\ process[p].version \in Nat
                                        /\ process[p].at \in Times \cup {Never}
         /\ process[p].op = "schedule" => /\ process[p].to \in Times \cup {Never}
                                          /\ process[p].status \in Statuses
         /\ process[p].op \in {"job", "publish", "done"} => process[p].at \in Times
<1>1. process[p] \in States
  BY DEF TypeOK
<1> QED
  BY <1>1 DEF States, Idle

(* A step of one process leaves the others where they are.                  *)
LEMMA BecomeShape ==
  ASSUME TypeOK, NEW p \in Processes, NEW s \in States, Become(p, s)
  PROVE  /\ process' \in [Processes -> States]
         /\ process'[p] = s
         /\ \A q \in Processes \ {p} : process'[q] = process[q]
BY DEF TypeOK, Become

(* A time is not Never, and the clock does not run past the horizon.       *)
LEMMA TimesAreLater == \A t \in Times : t \in Nat /\ t # Never
BY ContentAssumption DEF Never

-----------------------------------------------------------------------------
(* The first state is typed.                                                *)
LEMMA InitTypeOK == Init => TypeOK
<1> SUFFICES ASSUME Init PROVE TypeOK
  OBVIOUS
<1>1. snapshots \in Seq(Inputs)
  BY DEF Init
<1>2. process \in [Processes -> States]
  BY Shapes DEF Init
<1> QED
  BY <1>1, <1>2, ContentAssumption DEF Init, TypeOK, Statuses, JobStates

(* A worker that gives its job back leaves every variable typed.            *)
LEMMA GiveBackType ==
  ASSUME TypeOK, NEW w \in Workers, NEW t \in Times \cup {Never}, GiveBack(w, t)
  PROVE  TypeOK'
<1>1. process' \in [Processes -> States]
  BY Shapes, BecomeShape DEF GiveBack, Processes
<1>2. job' \in [Times -> JobStates]
  BY DEF GiveBack, TypeOK, JobStates
<1> QED
  BY <1>1, <1>2 DEF GiveBack, TypeOK, row

(* Every step keeps every variable typed.                                   *)
LEMMA NextTypeOK == TypeOK /\ [Next]_vars => TypeOK'
<1> SUFFICES ASSUME TypeOK, [Next]_vars PROVE TypeOK'
  OBVIOUS
<1> USE DEF row, queue
<1>1. ASSUME NEW r \in Requests, NEW i \in Inputs, BeginUpdate(r, i) PROVE TypeOK'
  <2>1. process' \in [Processes -> States]
    BY <1>1, Shapes, BecomeShape DEF BeginUpdate, Processes
  <2> QED
    BY <1>1, <2>1 DEF BeginUpdate, TypeOK
<1>2. ASSUME NEW r \in Requests, CommitUpdate(r) PROVE TypeOK'
  <2>1. process' \in [Processes -> States]
    BY <1>2, Shapes, BecomeShape DEF CommitUpdate, Processes
  <2>2. process[r].input \in Inputs
    BY <1>2, Fields DEF CommitUpdate, Processes
  <2>3. snapshots' \in Seq(Inputs)
    BY <1>2, <2>2, AppendProperties DEF CommitUpdate, TypeOK
  <2> QED
    BY <1>2, <2>1, <2>2, <2>3 DEF CommitUpdate, TypeOK
<1>3. ASSUME NEW r \in Requests, NEW s \in Statuses, BeginStatus(r, s) PROVE TypeOK'
  <2>1. [op |-> "status", to |-> s, version |-> version, at |-> Never] \in States
    BY Shapes DEF TypeOK
  <2>2. process' \in [Processes -> States]
    BY <1>3, <2>1, BecomeShape DEF BeginStatus, Processes
  <2> QED
    BY <1>3, <2>2 DEF BeginStatus, TypeOK
<1>4. ASSUME NEW p \in Processes, CommitStatus(p) PROVE TypeOK'
  <2>1. /\ process[p].to \in Statuses /\ process[p].version \in Nat
        /\ process[p].at \in Times \cup {Never}
    BY <1>4, Fields DEF CommitStatus
  <2> DEFINE next == IF process[p].at = Never THEN Idle
                     ELSE [op |-> "done", at |-> process[p].at]
  <2>2. next \in States
    BY <2>1, Shapes
  <2>3. process' \in [Processes -> States]
    BY <1>4, <2>2, BecomeShape DEF CommitStatus
  <2>4. events' \subseteq Nat
    BY <1>4, <2>1 DEF CommitStatus, Announce, TypeOK
  <2> QED
    BY <1>4, <2>1, <2>3, <2>4 DEF CommitStatus, TypeOK
<1>5. ASSUME NEW r \in Requests, NEW t \in Times \cup {Never}, BeginSchedule(r, t) PROVE TypeOK'
  <2>1. [op |-> "schedule", to |-> t, status |-> status] \in States
    BY Shapes DEF TypeOK
  <2>2. process' \in [Processes -> States]
    BY <1>5, <2>1, BecomeShape DEF BeginSchedule, Processes
  <2> QED
    BY <1>5, <2>2 DEF BeginSchedule, TypeOK
<1>6. ASSUME NEW r \in Requests, CommitSchedule(r) PROVE TypeOK'
  <2>1. process[r].to \in Times \cup {Never} /\ process[r].status \in Statuses
    BY <1>6, Fields DEF CommitSchedule, Processes
  <2>2. process' \in [Processes -> States]
    BY <1>6, Shapes, BecomeShape DEF CommitSchedule, Processes
  <2>3. scheduled' \in Times \cup {Never} /\ status' \in Statuses
    BY <1>6, <2>1 DEF CommitSchedule, Statuses
  <2>4. job' \in [Times -> JobStates] /\ excused' \subseteq Times /\ tries' = tries
    BY <1>6, <2>1 DEF CommitSchedule, Enqueue, TypeOK, JobStates
  <2> QED
    BY <1>6, <2>2, <2>3, <2>4 DEF CommitSchedule, TypeOK
<1>7. ASSUME NEW w \in Workers, NEW t \in Times, TakeJob(w, t) PROVE TypeOK'
  <2>1. process' \in [Processes -> States]
    BY <1>7, Shapes, BecomeShape DEF TakeJob, Processes
  <2>2. job' \in [Times -> JobStates]
    BY <1>7 DEF TakeJob, TypeOK, JobStates
  <2>3. tries' \in [Times -> 0..MaxAttempts]
    BY <1>7, ContentAssumption DEF TakeJob, TypeOK
  <2> QED
    BY <1>7, <2>1, <2>2, <2>3 DEF TakeJob, TypeOK
<1>8. ASSUME NEW w \in Workers, CheckSchedule(w) PROVE TypeOK'
  <2>1. process[w].at \in Times
    BY <1>8, Fields DEF CheckSchedule, Processes
  <2>2. CASE GiveBack(w, process[w].at)
    BY <2>1, <2>2, GiveBackType
  <2>3. ASSUME NEW o \in {"publish", "done"}, Become(w, [op |-> o, at |-> process[w].at]),
               UNCHANGED <<row, queue, now>>
        PROVE  TypeOK'
    <3>1. process' \in [Processes -> States]
      BY <2>1, <2>3, Shapes, BecomeShape DEF Processes
    <3> QED
      BY <2>3, <3>1 DEF TypeOK
  <2> QED
    BY <1>8, <2>2, <2>3 DEF CheckSchedule
<1>9. ASSUME NEW w \in Workers, PublishScheduled(w) PROVE TypeOK'
  <2>1. process[w].at \in Times
    BY <1>9, Fields DEF PublishScheduled, Processes
  <2>2. CASE GiveBack(w, process[w].at)
    BY <2>1, <2>2, GiveBackType
  <2>3. CASE ~GiveBack(w, process[w].at)
    <3>1. [op |-> "status", to |-> "published", version |-> version, at |-> process[w].at] \in States
      BY <2>1, Shapes DEF TypeOK, Statuses
    <3>2. process' \in [Processes -> States]
      BY <1>9, <2>3, <3>1, BecomeShape DEF PublishScheduled, Processes
    <3> QED
      BY <1>9, <2>3, <3>2 DEF PublishScheduled, TypeOK
  <2> QED
    BY <2>2, <2>3
<1>10. ASSUME NEW w \in Workers, Throws(w) PROVE TypeOK'
  <2>1. process[w].at \in Times \cup {Never}
    BY <1>10, Fields DEF Throws, Processes
  <2> QED
    BY <1>10, <2>1, GiveBackType DEF Throws
<1>11. ASSUME NEW w \in Workers, FinishJob(w) PROVE TypeOK'
  <2>1. process' \in [Processes -> States]
    BY <1>11, Shapes, BecomeShape DEF FinishJob, Processes
  <2>2. job' \in [Times -> JobStates]
    BY <1>11 DEF FinishJob, TypeOK, JobStates
  <2> QED
    BY <1>11, <2>1, <2>2 DEF FinishJob, TypeOK
<1>12. ASSUME NEW p \in Processes, Crash(p) PROVE TypeOK'
  BY <1>12, Shapes, BecomeShape DEF Crash, TypeOK
<1>13. ASSUME NEW t \in Times, LoseLock(t) \/ CancelJob(t) \/ RetryJob(t) PROVE TypeOK'
  <2>1. job' \in [Times -> JobStates]
    BY <1>13 DEF LoseLock, CancelJob, RetryJob, TypeOK, JobStates
  <2>2. tries' \in [Times -> 0..MaxAttempts]
    BY <1>13, ContentAssumption DEF LoseLock, CancelJob, RetryJob, TypeOK
  <2> QED
    BY <1>13, <2>1, <2>2 DEF LoseLock, CancelJob, RetryJob, TypeOK
<1>14. CASE Tick
  BY <1>14, ContentAssumption DEF Tick, TypeOK
<1>15. CASE UNCHANGED vars
  BY <1>15 DEF vars, TypeOK
<1> QED
  BY <1>1, <1>2, <1>3, <1>4, <1>5, <1>6, <1>7, <1>8, <1>9, <1>10, <1>11, <1>12, <1>13, <1>14,
     <1>15
  DEF Next, Request, Execution, Processes

(* Every variable keeps its type.                                          *)
THEOREM TypeCorrect == Spec => []TypeOK
  BY InitTypeOK, NextTypeOK, PTL DEF Spec
-----------------------------------------------------------------------------
(* What the transactions rest on: a request that is about to write a       *)
(* schedule has read an entry that is not archived.                        *)
ScheduleReadsLive ==
  \A p \in Processes : process[p].op = "schedule" => process[p].status # "archived"

(* A step of a process that does not begin a schedule keeps that.          *)
LEMMA OtherProcess ==
  ASSUME TypeOK, ScheduleReadsLive, NEW p \in Processes, NEW s \in States,
         s.op # "schedule", Become(p, s)
  PROVE  ScheduleReadsLive'
<1>1. process'[p] = s /\ \A q \in Processes \ {p} : process'[q] = process[q]
  BY BecomeShape
<1> QED
  BY <1>1 DEF ScheduleReadsLive

EntryInv == LatestSnapshotIsLive /\ OnlyDraftsAreScheduled /\ ScheduleReadsLive

(* The row of the entry and its versions: one step per transaction.        *)
LEMMA NextEntryInv == TypeOK /\ EntryInv /\ [Next]_vars => EntryInv'
<1> SUFFICES ASSUME TypeOK, EntryInv, [Next]_vars PROVE EntryInv'
  OBVIOUS
<1> USE DEF row, queue
<1>r. ASSUME UNCHANGED <<status, content, version, scheduled, snapshots>>
      PROVE  LatestSnapshotIsLive' /\ OnlyDraftsAreScheduled'
  BY <1>r DEF EntryInv, LatestSnapshotIsLive, OnlyDraftsAreScheduled
<1>p. ASSUME NEW p \in Processes, NEW s \in States, s.op # "schedule", Become(p, s)
      PROVE  ScheduleReadsLive'
  BY <1>p, OtherProcess DEF EntryInv
<1>i. ASSUME NEW p \in Processes, Become(p, Idle) PROVE ScheduleReadsLive'
  BY <1>i, <1>p, Shapes DEF Idle
<1>g. ASSUME NEW w \in Workers, NEW t, GiveBack(w, t) PROVE EntryInv'
  BY <1>g, <1>r, <1>i DEF GiveBack, EntryInv, Processes
<1>1. ASSUME NEW r \in Requests, NEW i \in Inputs, BeginUpdate(r, i) PROVE EntryInv'
  BY <1>1, <1>r, <1>p, Shapes DEF BeginUpdate, EntryInv, Processes
<1>2. ASSUME NEW r \in Requests, CommitUpdate(r) PROVE EntryInv'
  <2>1. process[r].input \in Inputs
    BY <1>2, Fields DEF CommitUpdate, Processes
  <2>2. /\ Len(snapshots') = Len(snapshots) + 1
        /\ snapshots'[Len(snapshots) + 1] = process[r].input
    BY <1>2, <2>1, AppendProperties DEF CommitUpdate, TypeOK
  <2>3. LatestSnapshotIsLive'
    BY <1>2, <2>2 DEF CommitUpdate, EntryInv, LatestSnapshotIsLive
  <2> QED
    BY <1>2, <2>3, <1>i DEF CommitUpdate, EntryInv, OnlyDraftsAreScheduled, Processes
<1>3. ASSUME NEW r \in Requests, NEW s \in Statuses, BeginStatus(r, s) PROVE EntryInv'
  <2>1. [op |-> "status", to |-> s, version |-> version, at |-> Never] \in States
    BY Shapes DEF TypeOK
  <2> QED
    BY <1>3, <2>1, <1>r, <1>p DEF BeginStatus, EntryInv, Processes
<1>4. ASSUME NEW p \in Processes, CommitStatus(p) PROVE EntryInv'
  <2>1. process[p].at \in Times \cup {Never}
    BY <1>4, Fields DEF CommitStatus
  <2> DEFINE next == IF process[p].at = Never THEN Idle
                     ELSE [op |-> "done", at |-> process[p].at]
  <2>2. next \in States /\ next.op # "schedule"
    BY <2>1, Shapes DEF Idle
  <2>3. Become(p, next)
    BY <1>4 DEF CommitStatus
  <2>4. ScheduleReadsLive'
    BY <2>2, <2>3, <1>p
  <2> QED
    BY <1>4, <2>4 DEF CommitStatus, EntryInv, LatestSnapshotIsLive, OnlyDraftsAreScheduled
<1>5. ASSUME NEW r \in Requests, NEW t \in Times \cup {Never}, BeginSchedule(r, t) PROVE EntryInv'
  <2>1. [op |-> "schedule", to |-> t, status |-> status] \in States
    BY Shapes DEF TypeOK
  <2>2. /\ process'[r] = [op |-> "schedule", to |-> t, status |-> status]
        /\ \A q \in Processes \ {r} : process'[q] = process[q]
    BY <1>5, <2>1, BecomeShape DEF BeginSchedule, Processes
  <2>3. ScheduleReadsLive'
    BY <1>5, <2>2 DEF BeginSchedule, EntryInv, ScheduleReadsLive
  <2> QED
    BY <1>5, <2>3, <1>r DEF BeginSchedule, EntryInv
<1>6. ASSUME NEW r \in Requests, CommitSchedule(r) PROVE EntryInv'
  <2>1. process[r].status \in {"draft", "published"}
    BY <1>6, Fields DEF CommitSchedule, Processes, EntryInv, ScheduleReadsLive, Statuses
  <2>2. OnlyDraftsAreScheduled'
    BY <1>6, <2>1 DEF CommitSchedule, OnlyDraftsAreScheduled
  <2> QED
    BY <1>6, <2>2, <1>i DEF CommitSchedule, EntryInv, LatestSnapshotIsLive, Processes
<1>7. ASSUME NEW w \in Workers, NEW t \in Times, TakeJob(w, t) PROVE EntryInv'
  BY <1>7, <1>r, <1>p, Shapes DEF TakeJob, EntryInv, Processes
<1>8. ASSUME NEW w \in Workers, CheckSchedule(w) PROVE EntryInv'
  <2>1. process[w].at \in Times
    BY <1>8, Fields DEF CheckSchedule, Processes
  <2>2. ASSUME NEW o \in {"publish", "done"}, Become(w, [op |-> o, at |-> process[w].at]),
               UNCHANGED row
        PROVE  EntryInv'
    BY <2>1, <2>2, <1>r, <1>p, Shapes DEF EntryInv, Processes
  <2> QED
    BY <1>8, <1>g, <2>2 DEF CheckSchedule
<1>9. ASSUME NEW w \in Workers, PublishScheduled(w) PROVE EntryInv'
  <2>1. process[w].at \in Times
    BY <1>9, Fields DEF PublishScheduled, Processes
  <2>2. [op |-> "status", to |-> "published", version |-> version, at |-> process[w].at] \in States
    BY <2>1, Shapes DEF TypeOK, Statuses
  <2>3. CASE ~GiveBack(w, process[w].at)
    BY <1>9, <2>2, <2>3, <1>r, <1>p DEF PublishScheduled, EntryInv, Processes
  <2> QED
    BY <1>g, <2>3
<1>10. ASSUME NEW w \in Workers, Throws(w) \/ FinishJob(w) PROVE EntryInv'
  BY <1>10, <1>g, <1>r, <1>i DEF Throws, FinishJob, EntryInv, Processes
<1>11. ASSUME NEW p \in Processes, Crash(p) PROVE EntryInv'
  BY <1>11, <1>r, <1>i DEF Crash, EntryInv
<1>12. ASSUME UNCHANGED <<row, process>> PROVE EntryInv'
  BY <1>12, <1>r DEF EntryInv, ScheduleReadsLive
<1> QED
  BY <1>1, <1>2, <1>3, <1>4, <1>5, <1>6, <1>7, <1>8, <1>9, <1>10, <1>11, <1>12
  DEF Next, Request, Execution, LoseLock, CancelJob, RetryJob, Tick, vars, Processes

(* What is said of the entry, its snapshots and its schedule is an          *)
(* invariant.                                                               *)
LEMMA EntryCorrect == Spec => []EntryInv
<1>1. Init => EntryInv
  <2> SUFFICES ASSUME Init PROVE EntryInv
    OBVIOUS
  <2>1. LatestSnapshotIsLive
    BY DEF Init, LatestSnapshotIsLive
  <2> QED
    BY <2>1 DEF Init, EntryInv, OnlyDraftsAreScheduled, ScheduleReadsLive, Idle
<1> QED
  BY <1>1, NextEntryInv, TypeCorrect, PTL DEF Spec

(* However many editors save at once, the versions have no gap and the row *)
(* shows the last of them.                                                 *)
THEOREM LatestCorrect == Spec => []LatestSnapshotIsLive
<1>1. EntryInv => LatestSnapshotIsLive
  BY DEF EntryInv
<1> QED
  BY <1>1, EntryCorrect, PTL

(* Neither a published nor an archived entry is scheduled, whatever order  *)
(* the changes of its status and of its schedule commit in.                *)
THEOREM ScheduledCorrect == Spec => []OnlyDraftsAreScheduled
<1>1. EntryInv => OnlyDraftsAreScheduled
  BY DEF EntryInv
<1> QED
  BY <1>1, EntryCorrect, PTL
-----------------------------------------------------------------------------
(* A job that runs, and what a worker does for it, waits for its time,     *)
(* unless an administrator had it retried.                                 *)
Due(t) == now >= t \/ t \in excused

(* A worker acts for a job that was due, and one that is done leaves no    *)
(* schedule behind, but one that was renewed when its time had passed.     *)
WorkIsDue ==
  \A p \in Processes :
    LET t == process[p].at IN
    /\ process[p].op \in {"job", "publish", "done"} => Due(t)
    /\ process[p].op = "status" /\ t # Never => Due(t)
    /\ process[p].op = "done" => scheduled # t \/ t \in excused

(* Only a due job succeeds, and only an administrator cancels one.         *)
EndIsDue ==
  \A t \in Times : /\ job[t] = "succeeded" => Due(t)
                   /\ job[t] = "cancelled" => t \in excused

QueueInv == ScheduleHasJob /\ WorkIsDue /\ EndIsDue

(* One step of one process that is due.                                    *)
LEMMA OtherWork ==
  ASSUME TypeOK, WorkIsDue, NEW p \in Processes, NEW s \in States, Become(p, s),
         now' = now, excused \subseteq excused',
         \A t \in Times : scheduled' = t => scheduled = t,
         s.op \in {"job", "publish", "done"} => s.at \in Times /\ Due(s.at)',
         s.op = "status" => s.at = Never \/ Due(s.at)',
         s.op = "done" => scheduled' # s.at \/ s.at \in excused'
  PROVE  WorkIsDue'
<1>1. process'[p] = s /\ \A q \in Processes \ {p} : process'[q] = process[q]
  BY BecomeShape
<1>2. \A q \in Processes : process[q].op \in {"job", "publish", "done"} => process[q].at \in Times
  BY Fields
<1> QED
  BY <1>1, <1>2 DEF WorkIsDue, Due

(* Every step keeps what ties the schedule of the entry to the jobs of the  *)
(* queue.                                                                   *)
LEMMA NextQueueInv == TypeOK /\ EntryInv /\ QueueInv /\ [Next]_vars => QueueInv'
<1> SUFFICES ASSUME TypeOK, EntryInv, QueueInv, [Next]_vars PROVE QueueInv'
  OBVIOUS
<1> USE DEF row, queue
<1>q. ASSUME UNCHANGED <<scheduled, job, excused, now>> PROVE ScheduleHasJob' /\ EndIsDue'
  BY <1>q DEF QueueInv, ScheduleHasJob, EndIsDue, Due
<1>i. ASSUME NEW p \in Processes, Become(p, Idle), UNCHANGED <<scheduled, excused, now>>
      PROVE  WorkIsDue'
  BY <1>i, OtherWork, Shapes DEF Idle, QueueInv
<1>g. ASSUME NEW w \in Workers, NEW t, GiveBack(w, t) PROVE QueueInv'
  <2>1. WorkIsDue'
    BY <1>g, <1>i DEF GiveBack, Processes
  <2>2. ScheduleHasJob' /\ EndIsDue'
    BY <1>g DEF GiveBack, QueueInv, ScheduleHasJob, EndIsDue, Due, TypeOK
  <2> QED
    BY <2>1, <2>2 DEF QueueInv
<1>1. ASSUME NEW r \in Requests, NEW i \in Inputs, BeginUpdate(r, i) PROVE QueueInv'
  BY <1>1, <1>q, OtherWork, Shapes DEF BeginUpdate, QueueInv, Processes
<1>2. ASSUME NEW r \in Requests, CommitUpdate(r) PROVE QueueInv'
  BY <1>2, <1>q, <1>i DEF CommitUpdate, QueueInv, Processes
<1>3. ASSUME NEW r \in Requests, NEW s \in Statuses, BeginStatus(r, s) PROVE QueueInv'
  <2>1. [op |-> "status", to |-> s, version |-> version, at |-> Never] \in States
    BY Shapes DEF TypeOK
  <2> QED
    BY <1>3, <2>1, <1>q, OtherWork DEF BeginStatus, QueueInv, Processes
<1>4. ASSUME NEW p \in Processes, CommitStatus(p) PROVE QueueInv'
  <2>1. PICK t \in Times \cup {Never} : process[p].at = t
    BY <1>4, Fields DEF CommitStatus
  <2>2. scheduled' = Never /\ UNCHANGED <<job, excused, now>>
    BY <1>4 DEF CommitStatus
  <2>3. ScheduleHasJob' /\ EndIsDue'
    BY <2>2, TimesAreLater DEF QueueInv, ScheduleHasJob, EndIsDue, Due
  <2>4. CASE t = Never
    <3>1. Become(p, Idle)
      BY <1>4, <2>1, <2>4 DEF CommitStatus
    <3> QED
      BY <2>2, <2>3, <3>1, OtherWork, Shapes, TimesAreLater DEF Idle, QueueInv
  <2>5. CASE t \in Times
    <3>1. Due(t)'
      BY <1>4, <2>1, <2>2, <2>5, TimesAreLater DEF CommitStatus, QueueInv, WorkIsDue, Due
    <3>2. Become(p, [op |-> "done", at |-> t])
      BY <1>4, <2>1, <2>5, TimesAreLater DEF CommitStatus
    <3> QED
      BY <2>2, <2>3, <2>5, <3>1, <3>2, OtherWork, Shapes, TimesAreLater DEF QueueInv
  <2> QED
    BY <2>4, <2>5
<1>5. ASSUME NEW r \in Requests, NEW t \in Times \cup {Never}, BeginSchedule(r, t) PROVE QueueInv'
  <2>1. [op |-> "schedule", to |-> t, status |-> status] \in States
    BY Shapes DEF TypeOK
  <2> QED
    BY <1>5, <2>1, <1>q, OtherWork DEF BeginSchedule, QueueInv, Processes
<1>6. ASSUME NEW r \in Requests, CommitSchedule(r) PROVE QueueInv'
  <2>1. process[r].to \in Times \cup {Never} /\ now' = now
    BY <1>6, Fields DEF CommitSchedule, Processes
  <2>2. CASE process[r].to = Never
    <3>1. scheduled' = Never /\ UNCHANGED <<job, excused>>
      BY <1>6, <2>2 DEF CommitSchedule
    <3>2. ScheduleHasJob' /\ EndIsDue'
      BY <2>1, <3>1, TimesAreLater DEF QueueInv, ScheduleHasJob, EndIsDue, Due
    <3>3. WorkIsDue'
      BY <1>6, <2>1, <3>1, OtherWork, Shapes, TimesAreLater
      DEF CommitSchedule, QueueInv, Idle, Processes
    <3> QED
      BY <3>2, <3>3 DEF QueueInv
  <2>3. ASSUME NEW t \in Times, process[r].to = t PROVE QueueInv'
    <3>1. /\ scheduled' = t
          /\ job' = IF job[t] = "none" THEN [job EXCEPT ![t] = "queued"] ELSE job
          /\ excused' = IF now >= t THEN excused \cup {t} ELSE excused
      BY <1>6, <2>3, TimesAreLater DEF CommitSchedule, Enqueue
    (* A schedule that finds its job over is committed after its time.     *)
    <3>2. Due(t) => t \in excused'
      BY <3>1 DEF Due
    <3>3. \A u \in Times : job'[u] = job[u] \/ (job[u] = "none" /\ job'[u] = "queued")
      BY <3>1 DEF TypeOK
    <3>4. job'[t] # "none"
      BY <3>1 DEF TypeOK
    <3>5. EndIsDue'
      BY <2>1, <3>1, <3>3 DEF QueueInv, EndIsDue, Due
    <3>6. ScheduleHasJob'
      <4>1. job'[t] \in {"queued", "succeeded", "dead", "cancelled"} \cup Workers
        BY <3>1, <3>4 DEF TypeOK, JobStates
      <4>2. job'[t] \in {"succeeded", "cancelled"} => t \in excused'
        BY <3>1, <3>2, <3>3 DEF QueueInv, EndIsDue
      <4> QED
        BY <3>1, <4>1, <4>2 DEF ScheduleHasJob
    <3>7. WorkIsDue'
      <4>1. /\ process'[r] = Idle
            /\ \A q \in Processes \ {r} : process'[q] = process[q]
        BY <1>6, Shapes, BecomeShape DEF CommitSchedule, Processes
      <4> QED
        BY <2>1, <3>1, <3>2, <4>1 DEF QueueInv, WorkIsDue, Due, Idle
    <3> QED
      BY <3>5, <3>6, <3>7 DEF QueueInv
  <2> QED
    BY <2>1, <2>2, <2>3
<1>7. ASSUME NEW w \in Workers, NEW t \in Times, TakeJob(w, t) PROVE QueueInv'
  <2>1. Due(t) /\ UNCHANGED <<scheduled, excused, now>>
    BY <1>7 DEF TakeJob, Due
  <2>2. /\ job[t] = "queued" /\ job'[t] = w
        /\ \A u \in Times \ {t} : job'[u] = job[u]
    BY <1>7 DEF TakeJob, TypeOK
  <2>3. ScheduleHasJob'
    BY <2>1, <2>2 DEF QueueInv, ScheduleHasJob
  <2>4. EndIsDue'
    BY <2>1, <2>2, WorkersAssumption DEF QueueInv, EndIsDue, Due
  <2>5. WorkIsDue'
    BY <1>7, <2>1, OtherWork, Shapes DEF TakeJob, QueueInv, Processes, Due
  <2> QED
    BY <2>3, <2>4, <2>5 DEF QueueInv
<1>8. ASSUME NEW w \in Workers, CheckSchedule(w) PROVE QueueInv'
  <2>1. process[w].at \in Times /\ Due(process[w].at)
    BY <1>8, Fields DEF CheckSchedule, Processes, QueueInv, WorkIsDue
  <2>2. status = "archived" => scheduled # process[w].at
    BY <2>1, TimesAreLater DEF EntryInv, OnlyDraftsAreScheduled
  <2>3. CASE /\ Become(w, [op |-> IF scheduled # process[w].at \/ status = "archived"
                                  THEN "done" ELSE "publish", at |-> process[w].at])
             /\ UNCHANGED <<row, queue, now>>
    <3>1. CASE scheduled # process[w].at
      <4>1. Become(w, [op |-> "done", at |-> process[w].at])
        BY <2>3, <3>1
      <4> QED
        BY <2>1, <2>3, <3>1, <4>1, <1>q, OtherWork, Shapes DEF QueueInv, Processes, Due
    <3>2. CASE scheduled = process[w].at
      <4>1. Become(w, [op |-> "publish", at |-> process[w].at])
        BY <2>2, <2>3, <3>2
      <4> QED
        BY <2>1, <2>3, <4>1, <1>q, OtherWork, Shapes DEF QueueInv, Processes, Due
    <3> QED
      BY <3>1, <3>2
  <2> QED
    BY <1>8, <1>g, <2>3 DEF CheckSchedule
<1>9. ASSUME NEW w \in Workers, PublishScheduled(w) PROVE QueueInv'
  <2>1. process[w].at \in Times /\ Due(process[w].at)
    BY <1>9, Fields DEF PublishScheduled, Processes, QueueInv, WorkIsDue
  <2>2. [op |-> "status", to |-> "published", version |-> version, at |-> process[w].at] \in States
    BY <2>1, Shapes DEF TypeOK, Statuses
  <2>3. CASE ~GiveBack(w, process[w].at)
    BY <1>9, <2>1, <2>2, <2>3, <1>q, OtherWork DEF PublishScheduled, QueueInv, Processes, Due
  <2> QED
    BY <1>g, <2>3
<1>10. ASSUME NEW w \in Workers, Throws(w) PROVE QueueInv'
  BY <1>10, <1>g DEF Throws
<1>11. ASSUME NEW w \in Workers, FinishJob(w) PROVE QueueInv'
  <2> DEFINE t == process[w].at
  <2>1. t \in Times /\ Due(t) /\ (scheduled # t \/ t \in excused)
    BY <1>11, Fields DEF FinishJob, Processes, QueueInv, WorkIsDue
  <2>2. /\ \A u \in Times \ {t} : job'[u] = job[u]
        /\ job'[t] = job[t] \/ job'[t] = "succeeded"
        /\ UNCHANGED <<scheduled, excused, now>>
    BY <1>11 DEF FinishJob, TypeOK
  <2>3. ScheduleHasJob' /\ EndIsDue'
    BY <2>1, <2>2 DEF QueueInv, ScheduleHasJob, EndIsDue, Due
  <2>4. WorkIsDue'
    BY <1>11, <2>2, <1>i DEF FinishJob, Processes
  <2> QED
    BY <2>3, <2>4 DEF QueueInv
<1>12. ASSUME NEW p \in Processes, Crash(p) PROVE QueueInv'
  BY <1>12, <1>q, <1>i DEF Crash, QueueInv
<1>13. ASSUME NEW t \in Times, LoseLock(t) \/ CancelJob(t) \/ RetryJob(t) PROVE QueueInv'
  <2>1. /\ \A u \in Times \ {t} : job'[u] = job[u]
        /\ job'[t] \in {"queued", "dead"} \/ (job'[t] = "cancelled" /\ t \in excused')
        /\ excused \subseteq excused' /\ UNCHANGED <<scheduled, now, process>>
    BY <1>13 DEF LoseLock, CancelJob, RetryJob, TypeOK
  <2> QED
    BY <2>1 DEF QueueInv, ScheduleHasJob, EndIsDue, WorkIsDue, Due
<1>14. CASE Tick
  <2>1. \A t \in Times : Due(t) => Due(t)'
    BY <1>14, TimesAreLater DEF Tick, Due, TypeOK
  <2>2. WorkIsDue'
    BY <1>14, <2>1, Fields DEF Tick, QueueInv, WorkIsDue
  <2> QED
    BY <1>14, <2>1, <2>2 DEF Tick, QueueInv, ScheduleHasJob, EndIsDue
<1>15. CASE UNCHANGED vars
  BY <1>15 DEF vars, QueueInv, ScheduleHasJob, EndIsDue, WorkIsDue, Due
<1> QED
  BY <1>1, <1>2, <1>3, <1>4, <1>5, <1>6, <1>7, <1>8, <1>9, <1>10, <1>11, <1>12, <1>13, <1>14,
     <1>15
  DEF Next, Request, Execution, Processes

(* A schedule always has a job that is still to carry it out, though the   *)
(* dedupe key lets a time be enqueued only once: one whose job has ended   *)
(* was committed after its time or is in an administrator's hands.         *)
THEOREM ScheduleCorrect == Spec => []ScheduleHasJob
<1>1. Init => QueueInv
  <2> SUFFICES ASSUME Init PROVE QueueInv
    OBVIOUS
  <2>1. ScheduleHasJob
    BY TimesAreLater DEF Init, ScheduleHasJob
  <2> QED
    BY <2>1 DEF Init, QueueInv, WorkIsDue, EndIsDue, Idle
<1>2. QueueInv => ScheduleHasJob
  BY DEF QueueInv
<1> QED
  BY <1>1, <1>2, NextQueueInv, TypeCorrect, EntryCorrect, PTL DEF Spec
=============================================================================
