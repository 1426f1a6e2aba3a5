------------------------------- MODULE Assets -------------------------------
(***************************************************************************)
(* The media assets (tables storage_assets and storage_asset_references),  *)
(* the requests that upload, confirm, archive, reference and delete them,  *)
(* the two background jobs that remove their objects, and the object store *)
(* as the code uses it.  An atomic step is one SQL statement, one          *)
(* transaction that holds the asset's row lock, or one call of the store.  *)
(***************************************************************************)
EXTENDS Integers

CONSTANTS
  Assets,       (* the assets that may be created                           *)
  Callers,      (* API requests in flight at the same time                  *)
  Workers,      (* job executions in flight at the same time                *)
  Fields,       (* the owner fields an asset may be referenced from         *)
  NoCall,       (* a request slot that is free                              *)
  NoRun,        (* a worker that executes neither of the two jobs           *)
  NoReference   (* a field without a reference                              *)

VARIABLES
  status,      (* storage_assets.status, "absent" before the row exists     *)
  expiring,    (* assets whose upload_expires_at is set                     *)
  token,       (* the upload token of each asset                            *)
  object,      (* what the store holds: "none", or the promised size or not *)
  job,         (* the expire and the delete job of each asset               *)
  refs,        (* for each field, the asset it references, and whether the  *)
               (* reference was written under the lock of the asset's row   *)
  call,        (* what each request has read and is about to do             *)
  run,         (* where each worker stands in a job                         *)
  retrying,    (* the jobs a retry has found stopped and has not written    *)
  retried,     (* assets whose expire job was made due by a retry           *)
  overwritten, (* history: assets settled before a mismatch was written     *)
  late         (* history: assets uploaded after a deletion had removed     *)
               (* their object                                              *)

store == <<token, object, late>>
retries == <<retrying, retried>>
jobs == <<job, retries>>
vars == <<status, expiring, token, object, job, refs, call, run,
          retrying, retried, overwritten, late>>

Statuses == {"absent", "pending", "active", "archived", "deleting", "deleted", "failed"}
Kinds == {"expire", "delete"}
(* A job in the eyes of assets: pending or running, succeeded, or dead or  *)
(* cancelled.                                                              *)
JobStates == {"none", "queued", "done", "stopped"}

Ops == {"intent", "token", "confirm", "statGood", "statBad", "archive", "restore", "save"}
Calls == [op : Ops, asset : Assets]
Steps == {"read", "marked", "purged", "done"}
Runs == [kind : Kinds, asset : Assets, step : Steps, seen : Statuses]
References == [asset : Assets, locked : BOOLEAN]

ASSUME NullsAssumption ==
  /\ NoCall \notin Calls
  /\ NoRun \notin Runs
  /\ NoReference \notin References

Init ==
  /\ status = [a \in Assets |-> "absent"]
  /\ expiring = {}
  /\ token = [a \in Assets |-> "none"]
  /\ object = [a \in Assets |-> "none"]
  /\ job = [a \in Assets |-> [k \in Kinds |-> "none"]]
  /\ refs = [f \in Fields |-> NoReference]
  /\ call = [c \in Callers |-> NoCall]
  /\ run = [w \in Workers |-> NoRun]
  /\ retrying = {}
  /\ retried = {}
  /\ overwritten = {}
  /\ late = {}

Set(a, s) == status' = [status EXCEPT ![a] = s]
Begin(c, op, a) == call[c] = NoCall /\ call' = [call EXCEPT ![c] = [op |-> op, asset |-> a]]
End(c) == call' = [call EXCEPT ![c] = NoCall]
At(c, op, a) == call[c] = [op |-> op, asset |-> a]

(* A dedupe key made of the asset id: the job is created at most once. *)
EnqueueOnce(a, k) ==
  job' = IF job[a][k] = "none" THEN [job EXCEPT ![a][k] = "queued"] ELSE job
-----------------------------------------------------------------------------
(* createUploadIntent: the row, the token, then the job and the reply.     *)
CreateIntent(c, a) ==
  /\ status[a] = "absent"
  /\ Begin(c, "intent", a)
  /\ Set(a, "pending")
  /\ expiring' = expiring \union {a}
  /\ UNCHANGED <<store, jobs, refs, run, overwritten>>

IssueToken(c, a) ==
  /\ At(c, "intent", a)
  /\ call' = [call EXCEPT ![c].op = "token"]
  /\ UNCHANGED <<status, expiring, store, jobs, refs, run, overwritten>>

(* Mutant: the expire job is not enqueued with the upload. *)
FinishIntentWithoutJob(c, a) ==
  /\ At(c, "token", a)
  /\ token' = [token EXCEPT ![a] = "valid"]
  /\ End(c)
  /\ UNCHANGED <<status, expiring, object, jobs, refs, run, overwritten, late>>

(* One transaction; then the caller gets the token. *)
FinishIntent(c, a) ==
  /\ At(c, "token", a)
  /\ EnqueueOnce(a, "expire")
  /\ token' = [token EXCEPT ![a] = "valid"]
  /\ End(c)
  /\ UNCHANGED <<status, expiring, object, retries, refs, run, overwritten, late>>

(* The store or the transaction fails: written by id alone. *)
FailIntent(c, a) ==
  /\ At(c, "intent", a) \/ At(c, "token", a)
  /\ Set(a, "failed")
  /\ End(c)
  /\ UNCHANGED <<expiring, store, jobs, refs, run, overwritten>>

(* The object of the asset was removed to delete it. *)
RemovedForGood(a) ==
  \/ status[a] = "deleted"
  \/ \E w \in Workers :
       run[w] # NoRun /\ run[w].kind = "delete" /\ run[w].asset = a /\ run[w].step = "purged"

(* The browser uploads.  The token forbids to overwrite an object and caps *)
(* its size, so that an object may only be smaller than promised.          *)
Upload(a, size) ==
  /\ token[a] \in {"valid", "used"} /\ object[a] = "none"
  /\ object' = [object EXCEPT ![a] = size]
  /\ late' = IF RemovedForGood(a) THEN late \union {a} ELSE late
  /\ token' = [token EXCEPT ![a] = "used"]
  /\ UNCHANGED <<status, expiring, jobs, refs, call, run, overwritten>>

ExpireToken(a) ==
  /\ token[a] \in {"valid", "used"}
  /\ token' = [token EXCEPT ![a] = "expired"]
  /\ UNCHANGED <<status, expiring, object, jobs, refs, call, run, overwritten, late>>
-----------------------------------------------------------------------------
(* confirmUpload reads the row, asks the store, and writes.                *)
ConfirmRead(c, a) ==
  /\ status[a] = "pending"
  /\ Begin(c, "confirm", a)
  /\ UNCHANGED <<status, expiring, store, jobs, refs, run, overwritten>>

ConfirmStat(c, a) ==
  /\ At(c, "confirm", a)
  /\ object[a] # "none"
  /\ call' = [call EXCEPT ![c].op = IF object[a] = "good" THEN "statGood" ELSE "statBad"]
  /\ UNCHANGED <<status, expiring, store, jobs, refs, run, overwritten>>

(* The size is not the promised one: written by id alone. *)
ConfirmMismatch(c, a) ==
  /\ At(c, "statBad", a)
  /\ Set(a, "failed")
  /\ overwritten' = IF status[a] \in {"pending", "failed"}
                      THEN overwritten ELSE overwritten \union {a}
  /\ End(c)
  /\ UNCHANGED <<expiring, store, jobs, refs, run>>

(* Only while the row is still pending; otherwise the request fails. *)
ConfirmActivate(c, a) ==
  /\ At(c, "statGood", a)
  /\ IF status[a] = "pending"
       THEN Set(a, "active") /\ expiring' = expiring \ {a}
       ELSE UNCHANGED <<status, expiring>>
  /\ End(c)
  /\ UNCHANGED <<store, jobs, refs, run, overwritten>>

ArchiveRead(c, a) ==
  /\ \/ status[a] = "active" /\ Begin(c, "archive", a)
     \/ status[a] = "archived" /\ Begin(c, "restore", a)
  /\ UNCHANGED <<status, expiring, store, jobs, refs, run, overwritten>>

(* Mutant: archiving and restoring write by id alone. *)
SetArchivedById(c, a) ==
  /\ \/ At(c, "archive", a) /\ Set(a, "archived")
     \/ At(c, "restore", a) /\ Set(a, "active")
  /\ End(c)
  /\ UNCHANGED <<expiring, store, jobs, refs, run, overwritten>>

(* Only while the row still has the status that was read. *)
SetArchived(c, a) ==
  /\ \/ /\ At(c, "archive", a)
        /\ status' = IF status[a] = "active" THEN [status EXCEPT ![a] = "archived"] ELSE status
     \/ /\ At(c, "restore", a)
        /\ status' = IF status[a] = "archived" THEN [status EXCEPT ![a] = "active"] ELSE status
  /\ End(c)
  /\ UNCHANGED <<expiring, store, jobs, refs, run, overwritten>>

(* Any request may throw, or its process die, before its next statement.   *)
Abort(c) ==
  /\ call[c] # NoCall
  /\ End(c)
  /\ UNCHANGED <<status, expiring, store, jobs, refs, run, overwritten>>
-----------------------------------------------------------------------------
Referenced(a) == \E f \in Fields : refs[f] # NoReference /\ refs[f].asset = a

(* Mutant: the references are not counted. *)
RequestDeleteUncounted(a) ==
  /\ status[a] \in {"active", "archived", "failed"}
  /\ Set(a, "deleting")
  /\ EnqueueOnce(a, "delete")
  /\ UNCHANGED <<expiring, store, retries, refs, call, run, overwritten>>

(* Mutant: the delete job is forgotten. *)
RequestDeleteWithoutJob(a) ==
  /\ status[a] \in {"active", "archived", "failed"}
  /\ ~Referenced(a)
  /\ Set(a, "deleting")
  /\ UNCHANGED <<expiring, store, jobs, refs, call, run, overwritten>>

(* The count of references, the status and the job, under the row lock.    *)
RequestDelete(a) ==
  /\ status[a] \in {"active", "archived", "failed"}
  /\ ~Referenced(a)
  /\ Set(a, "deleting")
  /\ EnqueueOnce(a, "delete")
  /\ UNCHANGED <<expiring, store, retries, refs, call, run, overwritten>>

(* The status is checked under the row lock. *)
LinkReference(a, f) ==
  /\ status[a] = "active"
  /\ refs' = [refs EXCEPT ![f] = [asset |-> a, locked |-> TRUE]]
  /\ UNCHANGED <<status, expiring, store, jobs, call, run, overwritten>>

UnlinkReference(f) ==
  /\ refs[f] # NoReference
  /\ refs' = [refs EXCEPT ![f] = NoReference]
  /\ UNCHANGED <<status, expiring, store, jobs, call, run, overwritten>>

(* An owner (a content entry, the presentation profile, an account) that   *)
(* saves an image validates it first, with a statement of its own ...      *)
SaveRead(c, a) ==
  /\ status[a] = "active"
  /\ Begin(c, "save", a)
  /\ UNCHANGED <<status, expiring, store, jobs, refs, run, overwritten>>

(* ... and its transaction replaces the references of the owner without    *)
(* looking at the asset again.                                             *)
ReplaceReferences(c, a, f) ==
  /\ At(c, "save", a)
  /\ refs' = [refs EXCEPT ![f] = [asset |-> a, locked |-> FALSE]]
  /\ End(c)
  /\ UNCHANGED <<status, expiring, store, jobs, run, overwritten>>
-----------------------------------------------------------------------------
Start(w, k, a, step) ==
  /\ run[w] = NoRun
  /\ job[a][k] = "queued"
  /\ run' = [run EXCEPT ![w] = [kind |-> k, asset |-> a, step |-> step, seen |-> status[a]]]
  /\ UNCHANGED <<status, expiring, store, jobs, refs, call, overwritten>>

Doing(w, k, a, step) ==
  run[w] # NoRun /\ run[w].kind = k /\ run[w].asset = a /\ run[w].step = step

Goto(w, step) == run' = [run EXCEPT ![w].step = step]

(* executeDelete reads the row: nothing is left to do for a deleted asset. *)
DeleteRead(w, a) ==
  \/ status[a] = "deleted" /\ Start(w, "delete", a, "done")
  \/ status[a] = "deleting" /\ Start(w, "delete", a, "marked")

(* The object is removed, or was not there. *)
Purge(w, k, a) ==
  /\ Doing(w, k, a, "marked")
  /\ object' = [object EXCEPT ![a] = "none"]
  /\ Goto(w, "purged")
  /\ UNCHANGED <<status, expiring, token, jobs, refs, call, overwritten, late>>

(* Mutant: the row is written before the object is removed. *)
DeleteWriteFirst(w, a) ==
  /\ Doing(w, "delete", a, "marked")
  /\ Set(a, "deleted")
  /\ Goto(w, "done")
  /\ UNCHANGED <<expiring, store, jobs, refs, call, overwritten>>

DeleteWrite(w, a) ==
  /\ Doing(w, "delete", a, "purged")
  /\ Set(a, "deleted")
  /\ Goto(w, "done")
  /\ UNCHANGED <<expiring, store, jobs, refs, call, overwritten>>

(* expireUpload, five minutes after the token expired or as soon as an     *)
(* administrator has retried its job: it reads the row and has nothing to  *)
(* do unless the upload was never completed.                               *)
ExpireRead(w, a) ==
  /\ token[a] = "expired" \/ a \in retried
  /\ IF status[a] = "pending" \/ (status[a] = "failed" /\ a \in expiring)
       THEN Start(w, "expire", a, "read")
       ELSE Start(w, "expire", a, "done")

(* Only while the row still has the status that was read. *)
ExpireMark(w, a) ==
  /\ Doing(w, "expire", a, "read")
  /\ IF status[a] = run[w].seen
       THEN Set(a, "failed") /\ Goto(w, "marked")
       ELSE UNCHANGED status /\ Goto(w, "done")
  /\ UNCHANGED <<expiring, store, jobs, refs, call, overwritten>>

ExpireWrite(w, a) ==
  /\ Doing(w, "expire", a, "purged")
  /\ expiring' = expiring \ {a}
  /\ Goto(w, "done")
  /\ UNCHANGED <<status, store, jobs, refs, call, overwritten>>

(* The handler returned; markSucceeded only completes a running job. *)
JobSucceeds(w, k, a) ==
  /\ Doing(w, k, a, "done")
  /\ job' = IF job[a][k] = "queued" THEN [job EXCEPT ![a][k] = "done"] ELSE job
  /\ run' = [run EXCEPT ![w] = NoRun]
  /\ UNCHANGED <<status, expiring, store, retries, refs, call, overwritten>>

(* The handler threw; markFailed queues the job again whatever it became.  *)
JobFails(w) ==
  /\ run[w] # NoRun
  /\ job' = [job EXCEPT ![run[w].asset][run[w].kind] = "queued"]
  /\ run' = [run EXCEPT ![w] = NoRun]
  /\ UNCHANGED <<status, expiring, store, retries, refs, call, overwritten>>

(* The worker dies; the job is found again when its lock has expired.      *)
Crash(w) ==
  /\ run[w] # NoRun
  /\ run' = [run EXCEPT ![w] = NoRun]
  /\ UNCHANGED <<status, expiring, store, jobs, refs, call, overwritten>>

(* Cancelled by an administrator, or dead when its lock expired for good.  *)
StopJob(a, k) ==
  /\ job[a][k] = "queued"
  /\ job' = [job EXCEPT ![a][k] = "stopped"]
  /\ UNCHANGED <<status, expiring, store, retries, refs, call, run, overwritten>>

(* retry reads the job ...                                                 *)
RetryRead(a, k) ==
  /\ job[a][k] = "stopped"
  /\ retrying' = retrying \union {<<a, k>>}
  /\ UNCHANGED <<status, expiring, store, job, retried, refs, call, run, overwritten>>

(* ... and queues it by id, whatever it became, to be executed at once.    *)
(* Another administrator may have read the same.                           *)
RetryWrite(a, k) ==
  /\ <<a, k>> \in retrying
  /\ job' = [job EXCEPT ![a][k] = "queued"]
  /\ retrying' \in {retrying, retrying \ {<<a, k>>}}
  /\ retried' = IF k = "expire" THEN retried \union {a} ELSE retried
  /\ UNCHANGED <<status, expiring, store, refs, call, run, overwritten>>

Caller(c) ==
  \/ \E a \in Assets :
       \/ CreateIntent(c, a) \/ IssueToken(c, a) \/ FinishIntent(c, a) \/ FailIntent(c, a)
       \/ ConfirmRead(c, a) \/ ConfirmStat(c, a) \/ ConfirmMismatch(c, a) \/ ConfirmActivate(c, a)
       \/ ArchiveRead(c, a) \/ SetArchived(c, a)
       \/ SaveRead(c, a) \/ \E f \in Fields : ReplaceReferences(c, a, f)
  \/ Abort(c)

Atomic ==
  \/ \E a \in Assets :
       \/ \E size \in {"good", "bad"} : Upload(a, size)
       \/ ExpireToken(a) \/ RequestDelete(a)
       \/ \E f \in Fields : LinkReference(a, f)
       \/ \E k \in Kinds : StopJob(a, k) \/ RetryRead(a, k) \/ RetryWrite(a, k)
  \/ \E f \in Fields : UnlinkReference(f)

Worker(w) ==
  \/ \E a \in Assets :
       \/ DeleteRead(w, a) \/ DeleteWrite(w, a)
       \/ ExpireRead(w, a) \/ ExpireMark(w, a) \/ ExpireWrite(w, a)
       \/ \E k \in Kinds : Purge(w, k, a) \/ JobSucceeds(w, k, a)
  \/ JobFails(w) \/ Crash(w)

Next ==
  \/ \E c \in Callers : Caller(c)
  \/ \E w \in Workers : Worker(w)
  \/ Atomic

Spec == Init /\ [][Next]_vars

(* Tokens expire; a queued job is executed again and again (module         *)
(* JobQueue) and neither the store nor the database is down forever.       *)
(* Requests and administrators owe nothing.                                *)
Fairness ==
  \A a \in Assets :
    /\ WF_vars(ExpireToken(a))
    /\ SF_vars(\E w \in Workers : DeleteRead(w, a))
    /\ SF_vars(\E w \in Workers : ExpireRead(w, a))
    /\ SF_vars(\E w \in Workers : ExpireMark(w, a))
    /\ SF_vars(\E w \in Workers : Purge(w, "delete", a))
    /\ SF_vars(\E w \in Workers : DeleteWrite(w, a))
    /\ \A w \in Workers : WF_vars(JobFails(w) \/ \E k \in Kinds : JobSucceeds(w, k, a))

FairSpec == Spec /\ Fairness
-----------------------------------------------------------------------------
(* Every variable has its type: a status is one the table's constraint     *)
(* allows.                                                                 *)
TypeOK ==
  /\ status \in [Assets -> Statuses]
  /\ expiring \subseteq Assets
  /\ token \in [Assets -> {"none", "valid", "used", "expired"}]
  /\ object \in [Assets -> {"none", "good", "bad"}]
  /\ job \in [Assets -> [Kinds -> JobStates]]
  /\ refs \in [Fields -> References \union {NoReference}]
  /\ call \in [Callers -> Calls \union {NoCall}]
  /\ run \in [Workers -> Runs \union {NoRun}]
  /\ retrying \subseteq Assets \X Kinds
  /\ retried \subseteq Assets
  /\ overwritten \subseteq Assets
  /\ late \subseteq Assets

(* An asset that can be used has its object in the store, of the size that *)
(* was promised: neither an expiry nor a deletion that works on what it    *)
(* read earlier ever removes the object of an asset that was confirmed.    *)
ActiveHasObject ==
  \A a \in Assets : status[a] \in {"active", "archived"} => object[a] = "good"

(* An asset referenced through linkReference is not being deleted. *)
LinkedIsKept ==
  \A f \in Fields : refs[f] # NoReference /\ refs[f].locked =>
    status[refs[f].asset] \in {"active", "archived"}

(* A deleted asset leaves no object behind: whatever was uploaded before    *)
(* the deletion removed its object is gone, also when the worker dies      *)
(* between the store and the row.  What is uploaded afterwards with the    *)
(* token, which no deletion revokes, is not removed (late).                *)
DeletedHasNoObject ==
  \A a \in Assets \ late : status[a] = "deleted" => object[a] = "none"

(* What only a job ends has that job behind it, not over: an upload that   *)
(* was handed out has the job that cleans up after it, and an asset that   *)
(* waits for its deletion has the one that deletes it, unless a stale      *)
(* mismatch had overwritten its status: enqueueing again under the same    *)
(* key would not start a finished job.                                     *)
PendingIsBacked ==
  \A a \in Assets :
    status[a] = "pending" /\ token[a] # "none" => job[a]["expire"] \in {"queued", "stopped"}

DeletingIsBacked ==
  \A a \in Assets \ overwritten :
    status[a] = "deleting" => job[a]["delete"] \in {"queued", "stopped"}

UnsettledIsBacked == PendingIsBacked /\ DeletingIsBacked

(* An upload that was handed out and not completed in time does not stay   *)
(* pending, unless its job was stopped.                                    *)
UploadSettles ==
  \A a \in Assets : status[a] = "pending" /\ token[a] # "none" ~>
    status[a] # "pending" \/ job[a]["expire"] = "stopped"

(* A deletion that was accepted ends, with the same provisos. *)
DeletionCompletes ==
  \A a \in Assets : status[a] = "deleting" ~>
    status[a] = "deleted" \/ job[a]["delete"] = "stopped" \/ a \in overwritten
=============================================================================
