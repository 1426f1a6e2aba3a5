------------------------------- MODULE Content -------------------------------
(***************************************************************************)
(* One entry of the content module (cms_content_entries), its versions, its *)
(* publishing schedule and the jobs and events that go with it.  Requests  *)
(* and job executions are concurrent processes: what one read before an    *)
(* await may be stale when its transaction commits.  Entries share nothing *)
(* but the uniqueness of their slug, an index of the database.             *)
(***************************************************************************)
EXTENDS Naturals, Sequences

CONSTANTS
  Requests,      (* API requests in flight at the same time                 *)
  Workers,       (* job executions in flight at the same time               *)
  Inputs,        (* what an editor may save: body, terms and other fields   *)
  Blank,         (* the inputs whose body is empty                          *)
  Times,         (* the times an entry may be scheduled for                 *)
  Horizon,       (* bound on the clock                                      *)
  VersionCap,    (* bound on the number of versions                         *)
  MaxAttempts    (* attempts a job has before a lost lock kills it          *)

ASSUME ContentAssumption ==
  /\ Blank \subseteq Inputs
  /\ Horizon \in Nat
  /\ Times \subseteq 1..Horizon
  /\ VersionCap \in Nat
  /\ MaxAttempts \in Nat \ {0}

VARIABLES
  status,     (* cms_content_entries.status                                 *)
  content,    (* the columns and term assignments the editor fills          *)
  version,    (* current_version                                            *)
  scheduled,  (* scheduled_publish_at, Never for NULL                       *)
  snapshots,  (* cms_content_versions, in the order of their number         *)
  job,        (* cms.content.publish-scheduled of each time: its dedupe key *)
              (* allows one; the worker that holds it while it runs         *)
  tries,      (* attempts of that job                                       *)
  events,     (* versions whose cms.content.published event exists          *)
  now,        (* the clock, in steps of 30 seconds                          *)
  process,    (* what each request and each worker is doing                 *)
  excused     (* history: times whose job an administrator took in hand, or *)
              (* whose schedule was committed when the time had passed      *)

row == <<status, content, version, scheduled, snapshots, events>>
queue == <<job, tries, excused>>
vars == <<row, queue, now, process>>

Never == 0
Statuses == {"draft", "published", "archived"}
JobStates == {"none", "queued", "succeeded", "dead", "cancelled"} \cup Workers
Processes == Requests \cup Workers

Idle == [op |-> "idle"]
(* What a process holds between two awaits: the input it validated, the row *)
(* it read, the job it executes ("at" is Never for an API request).         *)
States ==
  {Idle}
  \cup [op : {"update"}, input : Inputs]
  \cup [op : {"status"}, to : Statuses, version : Nat, at : Times \cup {Never}]
  \cup [op : {"schedule"}, to : Times \cup {Never}, status : Statuses]
  \cup [op : {"job", "publish", "done"}, at : Times]

ASSUME WorkersAssumption ==
  /\ Requests \cap Workers = {}
  /\ Workers \cap {"none", "queued", "succeeded", "dead", "cancelled"} = {}

Become(p, state) == process' = [process EXCEPT ![p] = state]

-----------------------------------------------------------------------------
(* create: the entry and its first version, in one transaction.             *)
Init ==
  /\ status = "draft"
  /\ content \in Inputs
  /\ version = 1
  /\ scheduled = Never
  /\ snapshots = <<content>>
  /\ job = [t \in Times |-> "none"]
  /\ tries = [t \in Times |-> 0]
  /\ events = {}
  /\ now = 0
  /\ process = [p \in Processes |-> Idle]
  /\ excused = {}

(* update reads the entry and validates its input before its transaction.   *)
BeginUpdate(r, input) ==
  /\ process[r] = Idle
  /\ Become(r, [op |-> "update", input |-> input])
  /\ UNCHANGED <<row, queue, now>>

(* A plausible bug: the row keeps the number of its version.                *)
CommitUpdateUnlocked(r) ==
  /\ process[r].op = "update"
  /\ version < VersionCap
  /\ content' = process[r].input
  /\ snapshots' = Append(snapshots, process[r].input)
  /\ Become(r, Idle)
  /\ UNCHANGED <<status, version, scheduled, events, queue, now>>

(* The transaction locks the row, so that it numbers the version it writes  *)
(* after the last one, and replaces the term assignments.                   *)
CommitUpdate(r) ==
  /\ process[r].op = "update"
  /\ version < VersionCap
  /\ content' = process[r].input
  /\ version' = version + 1
  /\ snapshots' = Append(snapshots, process[r].input)
  /\ Become(r, Idle)
  /\ UNCHANGED <<status, scheduled, events, queue, now>>

(* setStatus reads the entry and refuses to publish an empty body ...       *)
BeginStatus(r, to) ==
  /\ process[r] = Idle
  /\ ~(to = "published" /\ content \in Blank)
  /\ Become(r, [op |-> "status", to |-> to, version |-> version, at |-> Never])
  /\ UNCHANGED <<row, queue, now>>

(* publishContent: one event per version, whatever happened in between.     *)
Announce(v) == events' = events \cup {v}

(* A plausible bug: the schedule survives a change of the status.           *)
CommitStatusKeepingSchedule(p) ==
  /\ process[p].op = "status"
  /\ status' = process[p].to
  /\ IF process[p].to = "published" THEN Announce(process[p].version) ELSE UNCHANGED events
  /\ Become(p, IF process[p].at = Never THEN Idle
               ELSE [op |-> "done", at |-> process[p].at])
  /\ UNCHANGED <<content, version, scheduled, snapshots, queue, now>>

(* ... and writes the row by id, with the event of the version it read.     *)
CommitStatus(p) ==
  /\ process[p].op = "status"
  /\ status' = process[p].to
  /\ scheduled' = Never
  /\ IF process[p].to = "published" THEN Announce(process[p].version) ELSE UNCHANGED events
  /\ Become(p, IF process[p].at = Never THEN Idle
               ELSE [op |-> "done", at |-> process[p].at])
  /\ UNCHANGED <<content, version, snapshots, queue, now>>

(* schedule refuses archived and empty entries and times that are not more  *)
(* than 30 seconds ahead; Never cancels.                                    *)
BeginSchedule(r, t) ==
  /\ process[r] = Idle
  /\ status # "archived"
  /\ t # Never => content \notin Blank /\ t > now + 1
  /\ Become(r, [op |-> "schedule", to |-> t, status |-> status])
  /\ UNCHANGED <<row, queue, now>>

(* A plausible bug: the job is enqueued after the transaction, and lost.    *)
EnqueueNothing(t) ==
  /\ excused' = IF now >= t THEN excused \cup {t} ELSE excused
  /\ UNCHANGED <<job, tries>>

(* schedulePublish: a job that exists under the dedupe key stays as it is.  *)
Enqueue(t) ==
  /\ job' = IF job[t] = "none" THEN [job EXCEPT ![t] = "queued"] ELSE job
  /\ excused' = IF now >= t THEN excused \cup {t} ELSE excused
  /\ UNCHANGED tries

(* The status is written as it was read, a published one as draft.          *)
CommitSchedule(r) ==
  /\ process[r].op = "schedule"
  /\ LET t == process[r].to IN
     /\ scheduled' = t
     /\ status' = IF process[r].status = "published" /\ t # Never
                  THEN "draft" ELSE process[r].status
     /\ IF t = Never THEN UNCHANGED queue ELSE Enqueue(t)
  /\ Become(r, Idle)
  /\ UNCHANGED <<content, version, snapshots, events, now>>

-----------------------------------------------------------------------------
(* The job queue, as JobQueue promises it: a job is claimed when its time   *)
(* has come (at once after a retry), by one worker; the lock may be lost.   *)
TakeJob(w, t) ==
  /\ process[w] = Idle
  /\ job[t] = "queued"
  /\ now >= t \/ t \in excused
  /\ job' = [job EXCEPT ![t] = w]
  /\ tries' = [tries EXCEPT ![t] = IF @ < MaxAttempts THEN @ + 1 ELSE @]
  /\ Become(w, [op |-> "job", at |-> t])
  /\ UNCHANGED <<row, excused, now>>

(* The handler throws: markFailed queues the job by id, whoever holds it.   *)
GiveBack(w, t) ==
  /\ job' = [job EXCEPT ![t] = "queued"]
  /\ Become(w, Idle)
  /\ UNCHANGED <<row, tries, excused, now>>

(* A plausible bug: publishScheduled ends without calling setStatus.        *)
CheckScheduleOnly(w) ==
  /\ process[w].op = "job"
  /\ Become(w, [op |-> "done", at |-> process[w].at])
  /\ UNCHANGED <<row, queue, now>>

(* publishScheduled: skip a schedule that has changed, refuse one that is   *)
(* not due, else call setStatus, ...                                        *)
CheckSchedule(w) ==
  /\ process[w].op = "job"
  /\ LET t == process[w].at
         changed == scheduled # t \/ status = "archived"
     IN IF ~changed /\ t > now
        THEN GiveBack(w, t)
        ELSE /\ Become(w, [op |-> IF changed THEN "done" ELSE "publish", at |-> t])
             /\ UNCHANGED <<row, queue, now>>

(* ... which reads the entry again and refuses an empty body.               *)
PublishScheduled(w) ==
  /\ process[w].op = "publish"
  /\ LET t == process[w].at IN
     IF content \in Blank
     THEN GiveBack(w, t)
     ELSE /\ Become(w, [op |-> "status", to |-> "published", version |-> version, at |-> t])
          /\ UNCHANGED <<row, queue, now>>

(* A statement fails on the way, or the audit of the success does.          *)
Throws(w) ==
  /\ process[w].op \in {"job", "publish", "status", "done"}
  /\ GiveBack(w, process[w].at)

(* markSucceeded: the job succeeds if it is running, for whichever worker.  *)
FinishJob(w) ==
  /\ process[w].op = "done"
  /\ LET t == process[w].at IN
     job' = IF job[t] \in Workers THEN [job EXCEPT ![t] = "succeeded"] ELSE job
  /\ Become(w, Idle)
  /\ UNCHANGED <<row, tries, excused, now>>

(* recoverStale: the worker was killed or is too slow.                      *)
LoseLock(t) ==
  /\ job[t] \in Workers
  /\ job' = [job EXCEPT ![t] = IF tries[t] < MaxAttempts THEN "queued" ELSE "dead"]
  /\ UNCHANGED <<row, tries, excused, now, process>>

(* A process is killed with its server; a job it executed waits for         *)
(* recoverStale.                                                            *)
Crash(p) ==
  /\ process[p] # Idle
  /\ Become(p, Idle)
  /\ UNCHANGED <<row, queue, now>>

(* An administrator cancels a queued job or retries one that has ended; as  *)
(* in JobQueue the read and the write may lie apart, which "excused" covers.*)
CancelJob(t) ==
  /\ job[t] = "queued"
  /\ job' = [job EXCEPT ![t] = "cancelled"]
  /\ excused' = excused \cup {t}
  /\ UNCHANGED <<row, tries, now, process>>

RetryJob(t) ==
  /\ job[t] \in {"cancelled", "dead"}
  /\ job' = [job EXCEPT ![t] = "queued"]
  /\ tries' = [tries EXCEPT ![t] = 0]
  /\ excused' = excused \cup {t}
  /\ UNCHANGED <<row, now, process>>

Tick ==
  /\ now < Horizon
  /\ now' = now + 1
  /\ UNCHANGED <<row, queue, process>>

-----------------------------------------------------------------------------
Request(r) ==
  \/ \E input \in Inputs : BeginUpdate(r, input)
  \/ CommitUpdate(r)
  \/ \E to \in Statuses : BeginStatus(r, to)
  \/ CommitStatus(r)
  \/ \E t \in Times \cup {Never} : BeginSchedule(r, t)
  \/ CommitSchedule(r)

Execution(w) ==
  \/ \E t \in Times : TakeJob(w, t)
  \/ CheckSchedule(w)
  \/ PublishScheduled(w)
  \/ CommitStatus(w)
  \/ FinishJob(w)

Next ==
  \/ \E r \in Requests : Request(r)
  \/ \E w \in Workers : Execution(w) \/ Throws(w)
  \/ \E p \in Processes : Crash(p)
  \/ \E t \in Times : LoseLock(t) \/ CancelJob(t) \/ RetryJob(t)
  \/ Tick

Spec == Init /\ [][Next]_vars

(* The clock runs, workers go on with the job they have and do not fail at  *)
(* the same step for ever, no job is passed over for ever (claimNext takes  *)
(* the one that has waited longest), and a stale lock is recovered.         *)
Fairness ==
  /\ WF_vars(Tick)
  /\ \A w \in Workers : /\ SF_vars(CheckSchedule(w))
                        /\ SF_vars(PublishScheduled(w))
                        /\ SF_vars(CommitStatus(w))
                        /\ WF_vars(FinishJob(w))
  /\ \A t \in Times : /\ SF_vars(\E w \in Workers : TakeJob(w, t))
                      /\ WF_vars(LoseLock(t))

FairSpec == Spec /\ Fairness

-----------------------------------------------------------------------------
(* Every variable has its type.                                             *)
TypeOK ==
  /\ status \in Statuses
  /\ content \in Inputs
  /\ version \in Nat
  /\ scheduled \in Times \cup {Never}
  /\ snapshots \in Seq(Inputs)
  /\ job \in [Times -> JobStates]
  /\ tries \in [Times -> 0..MaxAttempts]
  /\ events \subseteq Nat
  /\ now \in 0..Horizon
  /\ process \in [Processes -> States]
  /\ excused \subseteq Times

(* Versions are numbered without a gap, and what readers see is the last    *)
(* snapshot, however many editors save at once.                             *)
LatestSnapshotIsLive ==
  /\ version = Len(snapshots)
  /\ content = snapshots[version]

(* A schedule belongs to a draft: neither a published nor an archived entry *)
(* has one, though setStatus and schedule write over each other.            *)
OnlyDraftsAreScheduled == scheduled # Never => status = "draft"

(* Every schedule has a job that is still to run, or running, under its     *)
(* dedupe key, also when the same time was scheduled and cancelled before,  *)
(* unless an administrator took the job in hand, its attempts are used up,  *)
(* or the schedule was committed when its time had passed.                  *)
ScheduleHasJob ==
  \A t \in Times :
    scheduled = t => \/ job[t] \in {"queued", "dead"} \cup Workers
                     \/ t \in excused

(* A schedule that comes due is carried out or replaced, unless its job was *)
(* taken in hand or died, or the body was emptied after it was scheduled.   *)
ScheduleRuns ==
  \A t \in Times :
    scheduled = t ~> \/ scheduled # t
                     \/ t \in excused
                     \/ job[t] = "dead"
                     \/ content \in Blank

=============================================================================
