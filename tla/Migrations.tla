------------------------------ MODULE Migrations -----------------------------
(***************************************************************************)
(* The migration runner.  The processes of a deployment run the plan of    *)
(* their build against one database at the same time, under an advisory    *)
(* lock; any of them may die and be started again, and a later build may   *)
(* have moved a migration to another source, which then names the earlier  *)
(* place as an alias.                                                      *)
(***************************************************************************)
EXTENDS Naturals, Sequences, SequencesExt

CONSTANTS
  Processes,  (* processes that migrate the database                        *)
  Builds      (* sequence of builds, each a sequence of migration sources   *)

VARIABLES
  process,    (* what each process is doing, with its build                 *)
  lock,       (* the session that holds the advisory lock, or Nobody        *)
  recorded,   (* framework_migrations: the checksum of each recorded name   *)
  executed    (* history: the SQL that was committed, and by which build    *)

vars == <<process, lock, recorded, executed>>

Nobody == "nobody"
Idle == [at |-> "idle"]

-----------------------------------------------------------------------------
(* A plausible bug: sources are taken as they come.                         *)
OrderAsGiven(sources) == [i \in DOMAIN sources |-> i]

(* The order of the sources: next is always the first in the input all of   *)
(* whose dependencies are there; a circle stops it short.                   *)
Order(sources) ==
  LET meets(i, done) ==
        \A d \in sources[i].dependencies : \E j \in done : sources[j].id = d.id
      step[n \in 0..Len(sources)] ==
        IF n = 0 THEN <<>>
        ELSE LET done == Range(step[n - 1])
                 next == {i \in (DOMAIN sources) \ done : meets(i, done)}
             IN IF next = {} THEN step[n - 1]
                ELSE Append(step[n - 1], CHOOSE i \in next : \A j \in next : i <= j)
  IN step[Len(sources)]

(* compileMigrationPlan refuses sources of one id, dependencies that are    *)
(* not installed in an accepted version, circles, and an alias that is a    *)
(* migration itself or that two migrations claim.                           *)
Compiles(sources) ==
  LET named == {<<i, m>> \in UNION {{i} \X Range(sources[i].migrations) : i \in DOMAIN sources} : TRUE}
  IN /\ \A i, j \in DOMAIN sources : sources[i].id = sources[j].id => i = j
     /\ \A i \in DOMAIN sources : \A d \in sources[i].dependencies :
          \E j \in (DOMAIN sources) \ {i} :
            sources[j].id = d.id /\ sources[j].version \in d.range
     /\ \A x, y \in named :
          /\ x[1] = y[1] /\ x[2].id = y[2].id => x = y
          /\ x[2].aliases \cap y[2].aliases # {} => x = y
          /\ <<sources[x[1]].id, x[2].id>> \notin y[2].aliases
     /\ Len(Order(sources)) = Len(sources)

(* The migrations of the ordered sources, each source's own in its order.   *)
Plan(sources) ==
  FlattenSeq([n \in 1..Len(Order(sources)) |->
    LET source == sources[Order(sources)[n]] IN
    [m \in 1..Len(source.migrations) |->
       [name |-> <<source.id, source.migrations[m].id>>,
        sql |-> source.migrations[m].sql,
        aliases |-> source.migrations[m].aliases]]])

-----------------------------------------------------------------------------
Init ==
  /\ process = [p \in Processes |-> Idle]
  /\ lock = Nobody
  /\ recorded = <<>>
  /\ executed = <<>>

Become(p, state) == process' = [process EXCEPT ![p] = state]
At(p, at) == process[p].at = at
Sources(p) == Builds[process[p].build]
Migration(p) == process[p].plan[process[p].next]

(* runMigrations compiles the plan before it connects.                      *)
Begin(p, build) ==
  /\ process[p] = Idle
  /\ Become(p, IF Compiles(Builds[build])
               THEN [at |-> "lock", build |-> build, plan |-> Plan(Builds[build]), next |-> 1]
               ELSE [at |-> "failed", build |-> build, plan |-> <<>>, next |-> 1])
  /\ UNCHANGED <<lock, recorded, executed>>

(* A plausible bug: nobody waits for the lock.                              *)
LockTried(p) ==
  /\ At(p, "lock")
  /\ lock' = p
  /\ Become(p, [process[p] EXCEPT !.at = "look"])
  /\ UNCHANGED <<recorded, executed>>

(* pg_advisory_lock waits for the session that has it.                      *)
Lock(p) ==
  /\ At(p, "lock")
  /\ lock = Nobody
  /\ lock' = p
  /\ Become(p, [process[p] EXCEPT !.at = "look"])
  /\ UNCHANGED <<recorded, executed>>

Advance(p) == Become(p, [process[p] EXCEPT !.at = "look", !.next = @ + 1])

(* A recorded migration is skipped if its SQL is what was recorded.         *)
Look(p) ==
  /\ At(p, "look")
  /\ process[p].next <= Len(process[p].plan)
  /\ LET m == Migration(p)
         legacy == m.aliases \cap DOMAIN recorded
     IN CASE m.name \in DOMAIN recorded /\ recorded[m.name] = m.sql -> Advance(p)
          [] m.name \in DOMAIN recorded /\ recorded[m.name] # m.sql ->
               Become(p, [process[p] EXCEPT !.at = "error"])
          [] m.name \notin DOMAIN recorded /\ legacy # {} ->
               Become(p, [process[p] EXCEPT !.at =
                 IF \A a \in legacy : recorded[a] = m.sql THEN "adopt" ELSE "error"])
          [] OTHER -> Become(p, [process[p] EXCEPT !.at = "execute"])
  /\ UNCHANGED <<lock, recorded, executed>>

Recorded(m) ==
  recorded' = [name \in (DOMAIN recorded) \cup {m.name} |->
                 IF name = m.name THEN m.sql ELSE recorded[name]]
Executed(p) ==
  executed' = Append(executed, [sql |-> Migration(p).sql, build |-> process[p].build])

(* A migration that was recorded by another name gets its record, ...       *)
Adopt(p) ==
  /\ At(p, "adopt")
  /\ Recorded(Migration(p))
  /\ Advance(p)
  /\ UNCHANGED <<lock, executed>>

(* ... any other is executed and recorded in one transaction.               *)
Execute(p) ==
  /\ At(p, "execute")
  /\ Migration(p).name \notin DOMAIN recorded
  /\ Recorded(Migration(p))
  /\ Executed(p)
  /\ Advance(p)
  /\ UNCHANGED lock

(* The transaction fails and is rolled back, ...                            *)
Reject(p) ==
  /\ process[p].at \in {"adopt", "execute"}
  /\ Become(p, [process[p] EXCEPT !.at = "error"])
  /\ UNCHANGED <<lock, recorded, executed>>

(* ... which ends the run, as its last migration does: finally unlocks.     *)
Finish(p) ==
  /\ \/ At(p, "error")
     \/ At(p, "look") /\ process[p].next > Len(process[p].plan)
  /\ lock' = Nobody
  /\ Become(p, [process[p] EXCEPT !.at = IF At(p, "error") THEN "failed" ELSE "done"])
  /\ UNCHANGED <<recorded, executed>>

(* A process dies, with it its session, its transaction and its lock; the   *)
(* container is started again, maybe with another image.                    *)
Crash(p) ==
  /\ process[p].at \notin {"idle", "done"}
  /\ Become(p, Idle)
  /\ lock' = IF lock = p THEN Nobody ELSE lock
  /\ UNCHANGED <<recorded, executed>>

Next ==
  \E p \in Processes :
    \/ \E build \in DOMAIN Builds : Begin(p, build)
    \/ Lock(p)
    \/ Look(p)
    \/ Adopt(p)
    \/ Execute(p)
    \/ Reject(p)
    \/ Finish(p)
    \/ Crash(p)

Spec == Init /\ [][Next]_vars

-----------------------------------------------------------------------------
(* Every variable has its type.                                             *)
TypeOK ==
  /\ \A p \in Processes :
       process[p] # Idle =>
         /\ process[p].at \in {"lock", "look", "adopt", "execute", "error", "done", "failed"}
         /\ process[p].build \in DOMAIN Builds
         /\ process[p].next \in 1..(Len(process[p].plan) + 1)
  /\ lock \in Processes \cup {Nobody}

(* docs/adr/0003: no SQL is executed a second time, whichever processes     *)
(* die, wait or overtake each other, and wherever a later build has moved   *)
(* it.  Only an earlier build, which does not know the new place of a       *)
(* migration, executes what a later one has.                                *)
ExecutedOnce ==
  \A i, j \in DOMAIN executed :
    i < j /\ executed[i].sql = executed[j].sql => executed[j].build < executed[i].build

(* A migration is executed after every one of the sources its own source    *)
(* depends on, in the build that executes it.                               *)
AfterDependencies ==
  [][\A p \in Processes :
       executed' # executed /\ At(p, "execute") /\ process'[p] # process[p] =>
         \A source, other \in Range(Sources(p)) :
           /\ source.id = Migration(p).name[1]
           /\ \E d \in source.dependencies : d.id = other.id
           => \A m \in Range(other.migrations) : <<other.id, m.id>> \in DOMAIN recorded]_vars
=============================================================================
