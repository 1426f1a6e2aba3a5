----------------------------- MODULE WorkerLoop ------------------------------
(***************************************************************************)
(* One worker process from its creation to its end: the loop that looks    *)
(* for a due event first and for a due job only when there is none, the    *)
(* heartbeats it sends beside the loop, and the signal that stops it.      *)
(***************************************************************************)
EXTENDS Naturals

CONSTANT
  Events      (* rows of the outbox: a row whose event was published stands *)
              (* for the next event, so that publication never has to end   *)

VARIABLES
  at,         (* where the worker is                                        *)
  stopping,   (* stop was called                                            *)
  failed,     (* run ends with an error                                     *)
  timer,      (* the heartbeat timer is set                                 *)
  beats,      (* heartbeats that were sent and not written yet              *)
  seen,       (* the status that was written last                           *)
  event,      (* the state of each row of the outbox                        *)
  job,        (* the state of a job                                         *)
  missed,     (* history: stop was called with a heartbeat on its way, or   *)
              (* its own was lost                                           *)
  early       (* history: stop was called before the first heartbeat of a   *)
              (* worker that was already running                            *)

loop == <<at, stopping, failed>>
health == <<timer, beats, seen, missed, early>>
work == <<event, job>>
vars == <<loop, health, work>>

Running == at \notin {"created", "ended"}

Init ==
  /\ at = "created"
  /\ stopping = FALSE
  /\ failed = FALSE
  /\ timer = FALSE
  /\ beats = {}
  /\ seen = "none"
  /\ event = [e \in Events |-> "absent"]
  /\ job = "due"
  /\ missed = FALSE
  /\ early = FALSE

-----------------------------------------------------------------------------
(* The head of the loop; what is left of execute is its finally.            *)
Turn == at' = IF stopping THEN "closing" ELSE "recover"

(* A query fails, or the health server cannot listen: the loop is left      *)
(* with an error.                                                           *)
Throw ==
  /\ Running
  /\ at \notin {"starting", "sleeping", "closing", "ending"}
  /\ at' = "closing"
  /\ failed' = TRUE
  /\ UNCHANGED <<stopping, health, work>>

(* run waits for the health server to listen ...                            *)
Run ==
  /\ at = "created"
  /\ ~stopping
  /\ at' = "listening"
  /\ UNCHANGED <<stopping, failed, health, work>>

(* ... then sends the first heartbeat, even when stop was called meanwhile, *)
(* and waits for it before it sets the timer.                               *)
Listened ==
  /\ at = "listening"
  /\ at' = "starting"
  /\ beats' = beats \cup {"healthy"}
  /\ UNCHANGED <<stopping, failed, timer, seen, missed, early, work>>

Started ==
  /\ at = "starting"
  /\ "healthy" \notin beats
  /\ Turn
  /\ timer' = ~stopping
  /\ UNCHANGED <<stopping, failed, beats, seen, missed, early, work>>

(* recoverStaleWork makes due again what a dead worker has left behind.     *)
Recover(found) ==
  /\ at = "recover"
  /\ at' = "outbox"
  /\ event' = [e \in Events |->
                 IF e \in found /\ event[e] = "processing" THEN "due" ELSE event[e]]
  /\ UNCHANGED <<stopping, failed, health, job>>

SetEvent(e, state) == event' = [event EXCEPT ![e] = state]

ClaimEvent(e) ==
  /\ at = "outbox"
  /\ event[e] = "due"
  /\ SetEvent(e, "dispatching")
  /\ at' = "dispatch"
  /\ UNCHANGED <<stopping, failed, health, job>>

NoEvent ==
  /\ at = "outbox"
  /\ \A e \in Events : event[e] # "due"
  /\ at' = "job"
  /\ UNCHANGED <<stopping, failed, health, work>>

(* A plausible bug: an event that was handled is not marked as published.   *)
DispatchedUnmarked(e) ==
  /\ at = "dispatch" /\ event[e] = "dispatching"
  /\ Turn
  /\ SetEvent(e, "due")
  /\ UNCHANGED <<stopping, failed, health, job>>

Dispatched(e) ==
  /\ at = "dispatch" /\ event[e] = "dispatching"
  /\ Turn
  /\ SetEvent(e, "published")
  /\ UNCHANGED <<stopping, failed, health, job>>

(* markFailed puts the event off, however often it has failed: as in        *)
(* Outbox, the row that was claimed has no maxAttempts to compare with.     *)
DispatchFails(e) ==
  /\ at = "dispatch" /\ event[e] = "dispatching"
  /\ Turn
  /\ SetEvent(e, "later")
  /\ UNCHANGED <<stopping, failed, health, job>>

ClaimJob ==
  /\ at = "job"
  /\ job = "due"
  /\ job' = "claimed"
  /\ at' = "execute"
  /\ UNCHANGED <<stopping, failed, health, event>>

(* markSucceeded or markFailed, of which JobQueue has the details.          *)
Executed ==
  /\ at = "execute"
  /\ job' = "settled"
  /\ Turn
  /\ UNCHANGED <<stopping, failed, health, event>>

NoJob ==
  /\ at = "job"
  /\ job # "due"
  /\ at' = "sleeping"
  /\ UNCHANGED <<stopping, failed, health, work>>

(* A plausible bug: a worker that sleeps does not look for the signal.      *)
WakeUnaware ==
  /\ at = "sleeping"
  /\ at' = "recover"
  /\ UNCHANGED <<stopping, failed, health, work>>

Wake ==
  /\ at = "sleeping"
  /\ Turn
  /\ UNCHANGED <<stopping, failed, health, work>>

(* finally: no more heartbeats, ...                                         *)
Close ==
  /\ at = "closing"
  /\ at' = "ending"
  /\ timer' = FALSE
  /\ UNCHANGED <<stopping, failed, beats, seen, missed, early, work>>

(* ... and the pool ends when its queries have.                             *)
End ==
  /\ at = "ending"
  /\ beats = {}
  /\ at' = "ended"
  /\ UNCHANGED <<stopping, failed, health, work>>

-----------------------------------------------------------------------------
Beat ==
  /\ timer
  /\ beats' = beats \cup {"healthy"}
  /\ UNCHANGED <<loop, timer, seen, missed, early, work>>

(* Heartbeats use the connections of a pool: the order in which they are    *)
(* written is not the order in which they were sent; one may fail.          *)
Written(status) ==
  /\ status \in beats
  /\ beats' = beats \ {status}
  /\ seen' = status
  /\ UNCHANGED <<loop, timer, missed, early, work>>

Lost(status) ==
  /\ status \in beats
  /\ beats' = beats \ {status}
  /\ IF at = "starting" /\ status = "healthy"
     THEN at' = "closing" /\ failed' = TRUE
     ELSE UNCHANGED <<at, failed>>
  /\ missed' = (missed \/ status = "stopping")
  /\ UNCHANGED <<stopping, timer, seen, early, work>>

(* A plausible bug: the timer goes on until the worker has ended.           *)
StopKeepingTimer ==
  /\ ~stopping
  /\ stopping' = TRUE
  /\ beats' = IF Running THEN beats \cup {"stopping"} ELSE beats
  /\ missed' = ("healthy" \in beats)
  /\ early' = (at = "listening")
  /\ UNCHANGED <<at, failed, timer, seen, work>>

(* stop, on SIGTERM or SIGINT: the loop is left at its next turn.           *)
Stop ==
  /\ ~stopping
  /\ stopping' = TRUE
  /\ timer' = FALSE
  /\ beats' = IF Running THEN beats \cup {"stopping"} ELSE beats
  /\ missed' = ("healthy" \in beats)
  /\ early' = (at = "listening")
  /\ UNCHANGED <<at, failed, seen, work>>

(* dispose of a worker that was not run.                                    *)
Dispose ==
  /\ at = "created"
  /\ stopping' = TRUE
  /\ at' = "ended"
  /\ UNCHANGED <<failed, health, work>>

-----------------------------------------------------------------------------
(* Other processes publish events, for ever if they like, or die and leave  *)
(* them claimed; time passes.                                               *)
Publish(e, state) ==
  /\ event[e] \in {"absent", "published"}
  /\ SetEvent(e, state)
  /\ UNCHANGED <<loop, health, job>>

BackoffEnds(e) ==
  /\ event[e] = "later"
  /\ SetEvent(e, "due")
  /\ UNCHANGED <<loop, health, job>>

Step ==
  \/ Run \/ Listened \/ Started \/ Throw
  \/ \E found \in SUBSET Events : Recover(found)
  \/ \E e \in Events : ClaimEvent(e) \/ Dispatched(e) \/ DispatchFails(e)
  \/ NoEvent
  \/ ClaimJob \/ Executed \/ NoJob \/ Wake \/ Close \/ End

Next ==
  \/ Step
  \/ Beat \/ Stop \/ Dispose
  \/ \E status \in beats : Written(status) \/ Lost(status)
  \/ \E e \in Events : BackoffEnds(e) \/ \E state \in {"due", "processing"} : Publish(e, state)

(* The process runs: what it awaits settles, the handlers of jobs and       *)
(* events included, and no subscriber throws for ever.                      *)
Fairness ==
  /\ WF_vars(Step)
  /\ \A e \in Events : SF_vars(Dispatched(e))
  /\ \A status \in {"healthy", "stopping"} : WF_vars(Written(status) \/ Lost(status))

Spec == Init /\ [][Next]_vars /\ Fairness

-----------------------------------------------------------------------------
(* A due job gets its turn although the loop looks at events first: not     *)
(* only must every event be handled in the end (an event that always fails  *)
(* comes back for ever), the stream of new events must end as well.  While  *)
(* one is due at each turn, the loop never looks at a job.                  *)
JobGetsATurn ==
  \/ []<><<\E e \in Events, state \in {"due", "processing"} : Publish(e, state)>>_vars
  \/ (job = "due" /\ Running) ~> (job # "due" \/ stopping \/ failed)

(* A worker that is told to stop comes to an end, whatever it is doing.     *)
StopEnds == stopping ~> (at \in {"created", "ended"})

(* What an ended worker is seen to be is not healthy, unless a heartbeat    *)
(* was on its way when it was told to stop, its last one was lost, or it    *)
(* was told so while its health server was about to listen: then the first  *)
(* heartbeat is sent after the one that says stopping.                      *)
EndedIsNotHealthy ==
  (at = "ended" /\ stopping /\ ~failed /\ ~missed /\ ~early) => seen # "healthy"
=============================================================================
