---------------------------- MODULE Notifications ----------------------------
(***************************************************************************)
(* Notifications and their delivery by mail: the subscriber of a password  *)
(* change, the announcements of an administrator, what recipients do with  *)
(* a notification, and the job that hands a mail to the connection.        *)
(* Several executions of a job overlap when its lock is lost.              *)
(***************************************************************************)
EXTENDS Naturals

CONSTANTS
  Event,       (* the dedupe key of the notification of a password change   *)
  Announced,   (* the dedupe keys of one announcement, one per recipient    *)
  Mailable,    (* the keys whose recipient has an address                   *)
  Workers,     (* job executions in flight at the same time                 *)
  MailCap,     (* bound on the mails of one notification                    *)
  MaxAttempts  (* attempts a job has before a lost lock kills it            *)

Keys == {Event} \cup Announced

JobStatuses == {"none", "queued", "succeeded", "dead", "cancelled"}

ASSUME NotificationsAssumption ==
  /\ MailCap \in Nat
  /\ MaxAttempts \in Nat
  /\ Workers \cap JobStatuses = {}

VARIABLES
  notice,     (* notifications.status of each key, "none" without a row     *)
  delivery,   (* notification_deliveries.status of each key                 *)
  job,        (* notification.email.deliver of each key: its status, or the *)
              (* worker that holds it                                       *)
  tries,      (* attempts of that job                                       *)
  retrying,   (* keys of the jobs a retry has read and not yet written      *)
  worker,     (* what each execution is doing                               *)
  announcing, (* the recipients an announcement in progress still has to    *)
              (* reach                                                      *)
  published,  (* publishAnnouncement has returned                           *)
  mails,      (* history: mails the service has accepted for each key       *)
  shaken      (* history: keys for which two executions overlapped, or an   *)
              (* accepted mail was not marked as sent                       *)

vars == <<notice, delivery, job, tries, retrying, worker, announcing, published, mails, shaken>>
queue == <<job, tries, retrying, worker, mails, shaken>>

Idle == [op |-> "idle"]
States == {Idle} \cup [op : {"read", "mark", "send", "sent", "failed", "done"}, key : Keys]
Become(w, op, k) == worker' = [worker EXCEPT ![w] = [op |-> op, key |-> k]]
At(w, op, k) == worker[w] = [op |-> op, key |-> k]
Shake(k) == shaken' = shaken \cup {k}
Delivering(k) ==
  \E w \in Workers, op \in {"read", "mark", "send", "sent", "failed"} : At(w, op, k)

Init ==
  /\ notice = [k \in Keys |-> "none"]
  /\ delivery = [k \in Keys |-> "none"]
  /\ job = [k \in Keys |-> "none"]
  /\ tries = [k \in Keys |-> 0]
  /\ retrying = {}
  /\ worker = [w \in Workers |-> Idle]
  /\ announcing = {}
  /\ published = FALSE
  /\ mails = [k \in Keys |-> 0]
  /\ shaken = {}

-----------------------------------------------------------------------------
Deliver(k, mailed) ==
  IF mailed /\ k \in Mailable
  THEN /\ delivery' = [delivery EXCEPT ![k] = "pending"]
       /\ job' = [job EXCEPT ![k] = "queued"]
  ELSE UNCHANGED <<delivery, job>>

(* create: notification, delivery and job in one transaction, nothing when  *)
(* the dedupe key is taken; without a mail connection or an address there   *)
(* is no delivery.                                                          *)
Create(k, mailed) ==
  IF notice[k] = "none"
  THEN notice' = [notice EXCEPT ![k] = "unread"] /\ Deliver(k, mailed)
  ELSE UNCHANGED <<notice, delivery, job>>

(* The subscriber of auth.password_changed, as often as the outbox delivers.*)
PasswordChanged(mailed) ==
  /\ Create(Event, mailed)
  /\ UNCHANGED <<tries, retrying, worker, announcing, published, mails, shaken>>

(* publishAnnouncement reads the recipients and creates one notification    *)
(* after the other ...                                                      *)
Announce ==
  /\ announcing = {}
  /\ ~published
  /\ \A k \in Announced : notice[k] = "none"
  /\ announcing' = Announced
  /\ UNCHANGED <<notice, delivery, published, queue>>

AnnounceNext(k, mailed) ==
  /\ k \in announcing
  /\ Create(k, mailed)
  /\ announcing' = announcing \ {k}
  /\ published' = (announcing = {k})
  /\ UNCHANGED <<tries, retrying, worker, mails, shaken>>

(* ... and stops where it stands when the server dies.                      *)
AnnounceCrash ==
  /\ announcing # {}
  /\ announcing' = {}
  /\ UNCHANGED <<notice, delivery, published, queue>>

(* markRead writes by id, markAllRead only what is unread, archive by id.   *)
SetNotice(k, from, to) ==
  /\ notice[k] \in from
  /\ notice' = [notice EXCEPT ![k] = to]
  /\ UNCHANGED <<delivery, announcing, published, queue>>

MarkRead(k) == SetNotice(k, {"unread", "read", "archived"}, "read")
MarkAllRead(k) == SetNotice(k, {"unread"}, "read")
Archive(k) == SetNotice(k, {"unread", "read", "archived"}, "archived")

-----------------------------------------------------------------------------
(* The worker claims the job, and deliverEmail reads the delivery.          *)
TakeJob(w, k) ==
  /\ worker[w] = Idle
  /\ job[k] = "queued"
  /\ job' = [job EXCEPT ![k] = w]
  /\ tries' = [tries EXCEPT ![k] = IF @ < MaxAttempts THEN @ + 1 ELSE @]
  /\ Become(w, "read", k)
  /\ UNCHANGED <<notice, delivery, retrying, announcing, published, mails, shaken>>

(* A plausible bug: a delivery that was sent is sent again.                 *)
ReadAnyDelivery(w, k) ==
  /\ At(w, "read", k)
  /\ Become(w, "mark", k)
  /\ UNCHANGED <<notice, delivery, job, tries, retrying, announcing, published, mails, shaken>>

(* A delivery that was sent is not sent again.                              *)
ReadDelivery(w, k) ==
  /\ At(w, "read", k)
  /\ Become(w, IF delivery[k] = "sent" THEN "done" ELSE "mark", k)
  /\ UNCHANGED <<notice, delivery, job, tries, retrying, announcing, published, mails, shaken>>

SetDelivery(k, s) == delivery' = [delivery EXCEPT ![k] = s]

MarkSending(w, k) ==
  /\ At(w, "mark", k)
  /\ SetDelivery(k, "sending")
  /\ Become(w, "send", k)
  /\ UNCHANGED <<notice, job, tries, retrying, announcing, published, mails, shaken>>

(* The connection hands the mail over and says so; it fails; or the mail is *)
(* accepted and the answer, or the record of the operation, is lost.        *)
Send(w, k, accepted, ok) ==
  /\ At(w, "send", k)
  /\ ok => accepted
  /\ accepted => mails[k] < MailCap
  /\ mails' = IF accepted THEN [mails EXCEPT ![k] = @ + 1] ELSE mails
  /\ IF accepted /\ ~ok THEN Shake(k) ELSE UNCHANGED shaken
  /\ Become(w, IF ok THEN "sent" ELSE "failed", k)
  /\ UNCHANGED <<notice, delivery, job, tries, retrying, announcing, published>>

MarkSent(w, k) ==
  /\ At(w, "sent", k)
  /\ SetDelivery(k, "sent")
  /\ Become(w, "done", k)
  /\ UNCHANGED <<notice, job, tries, retrying, announcing, published, mails, shaken>>

(* The statement that marks it as sent fails: the catch marks it as failed. *)
MarkSentFails(w, k) ==
  /\ At(w, "sent", k)
  /\ Become(w, "failed", k)
  /\ Shake(k)
  /\ UNCHANGED <<notice, delivery, job, tries, retrying, announcing, published, mails>>

(* A plausible bug: the handler does not throw, and the job is done.        *)
MarkFailedQuietly(w, k) ==
  /\ At(w, "failed", k)
  /\ SetDelivery(k, "failed")
  /\ Become(w, "done", k)
  /\ UNCHANGED <<notice, job, tries, retrying, announcing, published, mails, shaken>>

(* The delivery has failed by id, and the handler throws: the job is queued *)
(* by id, whoever holds it.                                                 *)
MarkFailed(w, k) ==
  /\ At(w, "failed", k)
  /\ SetDelivery(k, "failed")
  /\ job' = [job EXCEPT ![k] = "queued"]
  /\ worker' = [worker EXCEPT ![w] = Idle]
  /\ UNCHANGED <<notice, tries, retrying, announcing, published, mails, shaken>>

(* The handler throws outside of its try, or the audit of the success does. *)
Throws(w, k) ==
  /\ worker[w].op \in {"read", "mark", "done"} /\ worker[w].key = k
  /\ job' = [job EXCEPT ![k] = "queued"]
  /\ worker' = [worker EXCEPT ![w] = Idle]
  /\ UNCHANGED <<notice, delivery, tries, retrying, announcing, published, mails, shaken>>

(* markSucceeded: the job succeeds if it is running, for whichever worker.  *)
FinishJob(w, k) ==
  /\ At(w, "done", k)
  /\ job' = IF job[k] \in Workers THEN [job EXCEPT ![k] = "succeeded"] ELSE job
  /\ worker' = [worker EXCEPT ![w] = Idle]
  /\ UNCHANGED <<notice, delivery, tries, retrying, announcing, published, mails, shaken>>

(* The process is killed: it matters when a mail was accepted and not yet   *)
(* marked as sent.                                                          *)
Crash(w) ==
  /\ worker[w] # Idle
  /\ IF worker[w].op = "sent" THEN Shake(worker[w].key) ELSE UNCHANGED shaken
  /\ worker' = [worker EXCEPT ![w] = Idle]
  /\ UNCHANGED <<notice, delivery, job, tries, retrying, announcing, published, mails>>

(* recoverStale: the next execution overlaps one that is still at it.       *)
LoseLock(k) ==
  /\ job[k] \in Workers
  /\ job' = [job EXCEPT ![k] = IF tries[k] < MaxAttempts THEN "queued" ELSE "dead"]
  /\ IF Delivering(k) THEN Shake(k) ELSE UNCHANGED shaken
  /\ UNCHANGED <<notice, delivery, tries, retrying, worker, announcing, published, mails>>

(* An administrator cancels a job, only while it is pending: the delivery   *)
(* stays as it is.                                                          *)
CancelJob(k) ==
  /\ job[k] = "queued"
  /\ job' = [job EXCEPT ![k] = "cancelled"]
  /\ UNCHANGED <<notice, delivery, tries, retrying, worker, announcing, published, mails, shaken>>

(* retry reads a job that died or was cancelled ...                         *)
RetryRead(k) ==
  /\ job[k] \in {"dead", "cancelled"}
  /\ retrying' = retrying \cup {k}
  /\ UNCHANGED <<notice, delivery, job, tries, worker, announcing, published, mails, shaken>>

(* ... and queues it by id, whatever it became: another administrator may   *)
(* have read the same, and the job may have been taken in between.          *)
RetryWrite(k) ==
  /\ k \in retrying
  /\ retrying' \in {retrying, retrying \ {k}}
  /\ job' = [job EXCEPT ![k] = "queued"]
  /\ tries' = [tries EXCEPT ![k] = 0]
  /\ IF Delivering(k) THEN Shake(k) ELSE UNCHANGED shaken
  /\ UNCHANGED <<notice, delivery, worker, announcing, published, mails>>

Execution(w, k) ==
  \/ TakeJob(w, k)
  \/ ReadDelivery(w, k)
  \/ MarkSending(w, k)
  \/ \E accepted, ok \in BOOLEAN : Send(w, k, accepted, ok)
  \/ MarkSent(w, k)
  \/ MarkSentFails(w, k)
  \/ MarkFailed(w, k)
  \/ Throws(w, k)
  \/ FinishJob(w, k)

Next ==
  \/ \E mailed \in BOOLEAN : PasswordChanged(mailed)
  \/ Announce
  \/ \E k \in Announced, mailed \in BOOLEAN : AnnounceNext(k, mailed)
  \/ AnnounceCrash
  \/ \E k \in Keys : MarkRead(k) \/ MarkAllRead(k) \/ Archive(k)
  \/ \E k \in Keys : LoseLock(k) \/ CancelJob(k) \/ RetryRead(k) \/ RetryWrite(k)
  \/ \E w \in Workers, k \in Keys : Execution(w, k)
  \/ \E w \in Workers : Crash(w)

Spec == Init /\ [][Next]_vars

-----------------------------------------------------------------------------
(* Every variable has its type.                                             *)
TypeOK ==
  /\ notice \in [Keys -> {"none", "unread", "read", "archived"}]
  /\ delivery \in [Keys -> {"none", "pending", "sending", "sent", "failed"}]
  /\ job \in [Keys -> JobStatuses \cup Workers]
  /\ tries \in [Keys -> 0..MaxAttempts]
  /\ retrying \subseteq Keys
  /\ worker \in [Workers -> States]
  /\ announcing \subseteq Announced
  /\ published \in BOOLEAN
  /\ mails \in [Keys -> 0..MailCap]
  /\ shaken \subseteq Keys

(* docs/jobs-notifications.md: stable dedupe keys avoid repeated            *)
(* notifications.  However often the outbox delivers the event and the job  *)
(* is attempted, one mail is sent and the delivery says so, unless two      *)
(* executions overlapped or the acceptance of a mail was lost.              *)
MailedOnce ==
  \A k \in Keys \ shaken :
    /\ mails[k] <= 1
    /\ delivery[k] = "sent" <=> mails[k] = 1 /\ \A w \in Workers : ~At(w, "sent", k)

(* A delivery that is not sent never stands behind a job that is over: its  *)
(* job will attempt it, or used up its attempts or was cancelled, where an  *)
(* administrator finds it and can retry it.  No mail is forgotten, however  *)
(* attempts fail, die and are retried, with the same provisos.              *)
NothingForgotten ==
  \A k \in Keys :
    delivery[k] \in {"pending", "sending", "failed"} =>
      job[k] \in {"queued", "dead", "cancelled"} \cup Workers \/ k \in shaken
=============================================================================
