----------------------------- MODULE Composition -----------------------------
(***************************************************************************)
(* How a system is put together from extensions: defineSystem checks what  *)
(* every manifest declares against the others, orders the extensions so    *)
(* that each follows what it depends on, and the host registers them in    *)
(* that order.                                                             *)
(***************************************************************************)
EXTENDS Naturals, Sequences, FiniteSets

CONSTANT
  Systems     (* what may be passed to defineSystem: sequences of manifests *)

VARIABLES
  system,     (* options.extensions                                         *)
  phase,      (* where the start of the system is                           *)
  claims,     (* what the manifests looked at so far declare as their own   *)
  edges,      (* <<i, j>>: extension j has to follow extension i            *)
  indegree,   (* how many extensions each one still waits for               *)
  ready,      (* extensions that wait for none                              *)
  sorted,     (* the order so far                                           *)
  registered, (* how many of them the host has registered                   *)
  routes      (* the routes the host serves                                 *)

sort == <<edges, indegree, ready, sorted>>
vars == <<system, phase, claims, sort, registered, routes>>

(* Extensions are named by their place in the input.                        *)
Extensions == 1..Len(system)
Fail == phase' = "failed"

Satisfies(offers, needs) == \E o \in offers : o.id = needs.id /\ o.version \in needs.range

Installed(id) == \E i \in Extensions : system[i].id = id
Offered(i) == {[id |-> system[i].id, version |-> system[i].version]}

(* Its dependencies, with the optional ones that are installed.             *)
Dependencies(i) ==
  system[i].dependencies \cup {d \in system[i].optional : Installed(d.id)}

(* The extension that is asked for, or provides what is asked for.          *)
Provider(capability) ==
  CHOOSE p \in Extensions : \E c \in system[p].provides : c.id = capability.id

Init ==
  /\ system \in Systems
  /\ phase = "claim"
  /\ claims = {}
  /\ edges = {}
  /\ indegree = [i \in Extensions |-> 0]
  /\ ready = {}
  /\ sorted = <<>>
  /\ registered = 0
  /\ routes = {}

-----------------------------------------------------------------------------
(* validateManifest, as far as it compares: an extension neither depends on *)
(* itself nor requires what it provides, and names each only once.          *)
ValidManifest(m) ==
  LET asked == m.dependencies \cup m.optional
      names(S) == {x.id : x \in S}
  IN /\ m.id \notin names(asked)
     /\ Cardinality(names(asked)) = Cardinality(m.dependencies) + Cardinality(m.optional)
     /\ names(m.provides) \cap names(m.requires) = {}

(* Ids, capabilities, routes, jobs, permissions and all else that has one   *)
(* owner in a system.                                                       *)
Claimed(m) ==
  {<<"extension", m.id>>}
    \cup {<<"capability", c.id>> : c \in m.provides}
    \cup {<<"route", r>> : r \in m.routes}

Claim(i) ==
  /\ phase = "claim"
  /\ Cardinality({c \in claims : c[1] = "extension"}) = i - 1
  /\ IF ValidManifest(system[i]) /\ Claimed(system[i]) \cap claims = {}
     THEN /\ claims' = claims \cup Claimed(system[i])
          /\ phase' = IF i = Len(system) THEN "edges" ELSE phase
     ELSE Fail /\ UNCHANGED claims
  /\ UNCHANGED <<system, sort, registered, routes>>

-----------------------------------------------------------------------------
(* sortExtensions: what an extension asks for is installed in a version it  *)
(* accepts, ...                                                             *)
Satisfied(i) ==
  /\ \A d \in Dependencies(i) : \E p \in Extensions : Satisfies(Offered(p), d)
  /\ \A c \in system[i].requires : \E p \in Extensions : Satisfies(system[p].provides, c)

(* ... and precedes it.                                                     *)
Follows(i) ==
  {p \in Extensions : \E d \in Dependencies(i) : system[p].id = d.id}
    \cup {Provider(c) : c \in system[i].requires}

(* addEdge counts an extension once.                                        *)
WaitsFor(i) == Cardinality(Follows(i))

AddEdges ==
  /\ phase = "edges"
  /\ IF \A i \in Extensions : Satisfied(i)
     THEN /\ edges' = {e \in Extensions \X Extensions : e[1] \in Follows(e[2])}
          /\ indegree' = [i \in Extensions |-> WaitsFor(i)]
          /\ ready' = {i \in Extensions : WaitsFor(i) = 0}
          /\ phase' = "sort"
     ELSE Fail /\ UNCHANGED <<edges, indegree, ready>>
  /\ UNCHANGED <<system, claims, sorted, registered, routes>>

(* A plausible bug: a consumer is ready when the first provider is sorted.  *)
ShiftEager(i) ==
  /\ phase = "sort"
  /\ i \in ready
  /\ \A j \in ready : i <= j
  /\ sorted' = Append(sorted, i)
  /\ indegree' = [j \in Extensions |->
                    IF <<i, j>> \in edges THEN indegree[j] - 1 ELSE indegree[j]]
  /\ ready' = (ready \ {i}) \cup {j \in Extensions : <<i, j>> \in edges}
  /\ UNCHANGED <<system, phase, claims, edges, registered, routes>>

(* The ready extension that comes first in the input is next; those that    *)
(* waited for it last are ready then.                                       *)
Shift(i) ==
  /\ phase = "sort"
  /\ i \in ready
  /\ \A j \in ready : i <= j
  /\ sorted' = Append(sorted, i)
  /\ indegree' = [j \in Extensions |->
                    IF <<i, j>> \in edges THEN indegree[j] - 1 ELSE indegree[j]]
  /\ ready' = (ready \ {i})
                \cup {j \in Extensions : <<i, j>> \in edges /\ indegree[j] = 1}
  /\ UNCHANGED <<system, phase, claims, edges, registered, routes>>

(* What is left over waits for each other.                                  *)
EndSort ==
  /\ phase = "sort"
  /\ ready = {}
  /\ phase' = IF Len(sorted) = Len(system) THEN "register" ELSE "circular"
  /\ UNCHANGED <<system, claims, sort, registered, routes>>

-----------------------------------------------------------------------------
(* registerSystemServerExtensions: the surface of the next extension adds   *)
(* its routes to those of the host; a route it declared and did not add, or *)
(* that was there before, ends the start.                                   *)
Register(added) ==
  /\ phase = "register"
  /\ registered < Len(sorted)
  /\ LET declared == system[sorted[registered + 1]].routes IN
     IF declared \cap routes = {} /\ declared \subseteq added
     THEN registered' = registered + 1 /\ UNCHANGED phase
     ELSE Fail /\ UNCHANGED registered
  /\ routes' = routes \cup added
  /\ UNCHANGED <<system, claims, sort>>

Start ==
  /\ phase = "register"
  /\ registered = Len(sorted)
  /\ phase' = "started"
  /\ UNCHANGED <<system, claims, sort, registered, routes>>

Next ==
  \/ \E i \in Extensions : Claim(i)
  \/ AddEdges
  \/ \E i \in Extensions : Shift(i)
  \/ EndSort
  \/ \E added \in SUBSET UNION {system[i].routes : i \in Extensions} : Register(added)
  \/ Start

Spec == Init /\ [][Next]_vars

-----------------------------------------------------------------------------
(* Every variable has its type.                                             *)
TypeOK ==
  /\ system \in Systems
  /\ phase \in {"claim", "edges", "sort", "register", "started", "failed", "circular"}
  /\ edges \subseteq Extensions \X Extensions
  /\ indegree \in [Extensions -> Nat]
  /\ ready \subseteq Extensions
  /\ sorted \in Seq(Extensions)
  /\ registered \in 0..Len(sorted)

(* An extension is registered after every extension it depends on and every *)
(* one that provides what it requires, and only once.                       *)
ProvidersFirst ==
  \A j \in 1..Len(sorted) :
    \A i \in Extensions :
      /\ <<i, sorted[j]>> \in edges => \E k \in 1..(j - 1) : sorted[k] = i
      /\ \A k \in 1..(j - 1) : sorted[k] # sorted[j]

(* A system whose manifests agree is only refused when extensions wait for  *)
(* each other in a circle.                                                  *)
RefusedForACircle ==
  phase = "circular" =>
    \E circle \in (SUBSET Extensions) \ {{}} :
      \A j \in circle : \E i \in circle : <<i, j>> \in edges

(* What sortExtensions promises: an order that respects what the extensions *)
(* ask for, and a refusal only where there is none.                         *)
SortIsRight == ProvidersFirst /\ RefusedForACircle
=============================================================================
