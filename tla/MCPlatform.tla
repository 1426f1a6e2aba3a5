------------------------------ MODULE MCPlatform ------------------------------
EXTENDS Platform, TLC

-----------------------------------------------------------------------------
(* Manifests: every graph of dependencies between three extensions in every *)
(* order of the input, a capability in an accepted and in another version,  *)
(* two extensions of one id, and an optional dependency that is missing.    *)
On(ids) == {[id |-> i, range |-> {1}] : i \in ids}

Manifest(id, dependencies) ==
  [id |-> id, version |-> 1, dependencies |-> On(dependencies), optional |-> {},
   provides |-> {}, requires |-> {}, routes |-> {id}]

Ids == {"a", "b", "c"}
Orders == {o \in [1..3 -> Ids] : {o[i] : i \in 1..3} = Ids}
Graphs == {g \in [Ids -> SUBSET Ids] : \A i \in Ids : i \notin g[i]}

Capable(version) ==
  << [Manifest("a", {}) EXCEPT !.requires = {[id |-> "mail", range |-> {1}]}],
     [Manifest("b", {}) EXCEPT !.provides = {[id |-> "mail", version |-> version]}],
     Manifest("c", {"a", "b"}) >>

MCSystems ==
  {[i \in 1..3 |-> Manifest(order[i], graph[order[i]])] : order \in Orders, graph \in Graphs}
  \cup {Capable(1), Capable(2),
        <<Manifest("a", {}), Manifest("a", {})>>,
        <<[Manifest("a", {}) EXCEPT !.optional = On({"b"})], Manifest("c", {"a"})>>}

MCResting == Capable(1)

-----------------------------------------------------------------------------
(* Builds: one whose sources come after what they depend on only when they  *)
(* are ordered, a later one that has moved a migration, and a circle.       *)
Migration(id, sql, aliases) == [id |-> id, sql |-> sql, aliases |-> aliases]
Source(id, dependencies, steps) ==
  [id |-> id, version |-> 1, dependencies |-> On(dependencies), migrations |-> steps]

MCBuilds ==
  << << Source("cms", {"frame"}, <<Migration("1", "pages", {})>>),
        Source("frame", {}, <<Migration("0", "base", {}), Migration("8", "brand", {})>>) >>,
     << Source("cms", {"frame", "brand"}, <<Migration("1", "pages", {})>>),
        Source("brand", {}, <<Migration("1", "brand", {<<"frame", "8">>})>>),
        Source("frame", {}, <<Migration("0", "base", {})>>) >>,
     << Source("x", {"y"}, <<>>), Source("y", {"x"}, <<>>) >> >>
=============================================================================
