---------------------------- MODULE AdminRegistry -----------------------------
(***************************************************************************)
(* createAdminRegistry: the console's extensions are bound one by one, what *)
(* each manifest declares to what its surface registers.  The first        *)
(* difference throws and no console is built.                              *)
EXTENDS Sequences, SequencesExt

CONSTANT System     (* the extensions in their order                         *)

VARIABLES
  bound,      (* how many extensions are bound                              *)
  routes,     (* RegisteredAdminRoute: the routes bound so far, in order     *)
  outcome     (* building, built, or the name of what was thrown             *)

vars == <<bound, routes, outcome>>

-----------------------------------------------------------------------------
(* manifest.ts and defaults.tsx: the routes of the Frame's own extensions.  *)
Manifest ==
  [identity |-> {"access", "account"}, jobs |-> {"operations"},
   notifications |-> {"notifications"}, integrations |-> {"integrations"},
   assets |-> {"assets"}, presentation |-> {"presentation"}]

Complete ==
  {"systemInfo", "observability", "metadata", "audit", "settings", "help"}
  \union UNION {Manifest[f] : f \in DOMAIN Manifest}

KernelManifest == Complete \ UNION {Manifest[f] : f \in DOMAIN Manifest}

Surface ==
  [identity |-> <<"access", "account">>, jobs |-> <<"operations">>,
   notifications |-> <<"notifications">>, integrations |-> <<"integrations">>,
   assets |-> <<"assets">>, presentation |-> <<"presentation">>]

KernelSurface ==
  <<"systemInfo", "observability", "metadata", "audit", "presentation", "settings", "help">>

Extension(declared, registered) == [declared |-> declared, registered |-> registered]
Kernel == Extension(KernelManifest, KernelSurface)
Feature(f) == Extension(Manifest[f], Surface[f])

(* The consoles of the reference application and of the generated one: the *)
(* kernel, the features, and the application's own pages.                  *)
Features ==
  <<"identity", "integrations", "jobs", "assets", "presentation", "notifications">>

Application(pages) ==
  <<Kernel>> \o [i \in DOMAIN Features |-> Feature(Features[i])] \o pages

-----------------------------------------------------------------------------
Init ==
  /\ bound = 0
  /\ routes = <<>>
  /\ outcome = "building"

Current == System[bound + 1]

(* indexRuntime, then bindDeclared in both directions.  Navigation, search *)
(* and widgets are bound alike; no extension differs in them.              *)
Duplicate(e) == ~IsInjective(e.registered)
Undeclared(e) == ~(ToSet(e.registered) \subseteq e.declared)
Unregistered(e) == ~(e.declared \subseteq ToSet(e.registered))

Throw(what) == outcome' = what /\ UNCHANGED <<bound, routes>>

Bind ==
  /\ outcome = "building" /\ bound < Len(System)
  /\ \/ Duplicate(Current) /\ Throw("registered duplicate Admin route")
     \/ ~Duplicate(Current) /\ Undeclared(Current) /\ Throw("registered undeclared Admin route")
     \/ /\ ~Duplicate(Current) /\ ~Undeclared(Current) /\ Unregistered(Current)
        /\ Throw("did not register declared Admin route")
     \/ /\ ~Duplicate(Current) /\ ~Undeclared(Current) /\ ~Unregistered(Current)
        /\ routes' = routes \o Current.registered
        /\ bound' = bound + 1
        /\ UNCHANGED outcome

Build ==
  /\ outcome = "building" /\ bound = Len(System)
  /\ outcome' = "built"
  /\ UNCHANGED <<bound, routes>>

Next == Bind \/ Build

Spec == Init /\ [][Next]_vars

-----------------------------------------------------------------------------
(* "The technical routes are still registered completely": when the        *)
(* registry is settled, every route of the Frame's manifest is bound.      *)
TechnicalRoutesRegistered ==
  outcome # "building" => Complete \subseteq ToSet(routes)
=============================================================================
