------------------------------- MODULE Platform -------------------------------
(* What every process of a deployment goes through: its extensions are put  *)
(* together, the database is migrated, the worker runs; and the rows with a *)
(* history of versions.  A behaviour is one of what "part" names.           *)
EXTENDS Naturals, Sequences, FiniteSets

CONSTANTS
  Systems, Resting,              (* Composition, and one of them             *)
  Processes, Builds,             (* Migrations                               *)
  Requests, Values, VersionCap,  (* Revisions                                *)
  Events                         (* WorkerLoop                               *)

VARIABLES part,
  system, phase, claims, edges, indegree, ready, sorted, registered, routes,
  process, lock, recorded, executed,
  current, versions, locked, request,
  at, stopping, failed, timer, beats, seen, event, job, missed, early

composition == <<system, phase, claims, edges, indegree, ready, sorted, registered, routes>>
migrations == <<process, lock, recorded, executed>>
revisions == <<current, versions, locked, request>>
worker == <<at, stopping, failed, timer, beats, seen, event, job, missed, early>>
vars == <<part, composition, migrations, revisions, worker>>

-----------------------------------------------------------------------------
P == INSTANCE Composition

M == INSTANCE Migrations

V == INSTANCE Revisions

W == INSTANCE WorkerLoop

(* A system is a list of manifests.                                         *)
ASSUME PlatformAssumption ==
  /\ Resting \in Systems
  /\ \A s \in Systems : Len(s) \in Nat
  /\ VersionCap \in Nat

(* A build lists its sources, a source its migrations.  No process is       *)
(* called nobody.                                                           *)
ASSUME MigrationsAssumption ==
  /\ M!Nobody \notin Processes
  /\ DOMAIN Builds \subseteq Nat
  /\ \A b \in DOMAIN Builds :
       /\ Builds[b] \in Seq(M!Range(Builds[b]))
       /\ \A source \in M!Range(Builds[b]) :
            source.migrations \in Seq(M!Range(source.migrations))

(* docs/adr/0003: what was released is not changed, and is known by the     *)
(* place where it was.  A build that has the SQL of an earlier build, or of *)
(* itself, has it under the same name or names that place as an alias.      *)
ASSUME ReleasesAssumption ==
  \A b, c \in DOMAIN Builds : b <= c =>
    \A m \in M!Range(M!Plan(Builds[b])), n \in M!Range(M!Plan(Builds[c])) :
      m.sql = n.sql => m.name = n.name \/ m.name \in n.aliases

-----------------------------------------------------------------------------
Init ==
  /\ part \in {"composition", "migrations", "revisions", "worker"}
  /\ P!Init /\ M!Init /\ V!Init /\ W!Init
  /\ part # "composition" => system = Resting

Next ==
  \/ part = "composition" /\ P!Next /\ UNCHANGED <<part, migrations, revisions, worker>>
  \/ part = "migrations" /\ M!Next /\ UNCHANGED <<part, composition, revisions, worker>>
  \/ part = "revisions" /\ V!Next /\ UNCHANGED <<part, composition, migrations, worker>>
  \/ part = "worker" /\ W!Next /\ UNCHANGED <<part, composition, migrations, revisions>>

(* The fairness of each part, while a behaviour is about it.                *)
Fairness ==
  /\ WF_worker(part = "worker" /\ W!Step)
  /\ \A e \in Events : SF_worker(part = "worker" /\ W!Dispatched(e))
  /\ \A status \in {"healthy", "stopping"} :
       WF_worker(part = "worker" /\ (W!Written(status) \/ W!Lost(status)))

Spec == Init /\ [][Next]_vars /\ Fairness

-----------------------------------------------------------------------------
(* Extensions are registered in an order that respects what they ask for,   *)
(* and refused an order only when they wait for each other in a circle.     *)
SortIsRight == P!SortIsRight

(* No SQL is executed a second time.                                        *)
ExecutedOnce == M!ExecutedOnce

(* A migration follows those of the sources that its own depends on.        *)
AfterDependencies == M!AfterDependencies

(* The history has every version of a row, and the current value.           *)
HistoryIsComplete == V!HistoryIsComplete

(* A due job is looked at, although events go first, if they are handled    *)
(* and do not come for ever.                                                *)
JobGetsATurn == W!JobGetsATurn

(* A worker that is told to stop ends.                                      *)
StopEnds == W!StopEnds

(* An ended worker does not look healthy, unless stop raced a heartbeat.    *)
EndedIsNotHealthy == W!EndedIsNotHealthy
=============================================================================
