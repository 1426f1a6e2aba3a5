------------------------------ MODULE Taxonomy -------------------------------
(***************************************************************************)
(* A taxonomy and the tree of its terms (taxonomies, taxonomy_terms), and  *)
(* the requests that edit them or import a document.  A request checks     *)
(* what it read, one query at a time, and writes by id in a later one;     *)
(* terms are never deleted.                                                *)
(***************************************************************************)
CONSTANTS
  Terms,      (* the terms the taxonomy may have                            *)
  Documents,  (* what may be imported: kind, shape and the listed terms,    *)
              (* each with its parent                                       *)
  Requests    (* requests in flight at the same time                        *)

VARIABLES
  taxonomy,   (* kind, and shape: "tree" if hierarchical, else "flat"       *)
  parent,     (* the parent of each term, Root, or Absent                   *)
  request,    (* what each request has checked and is about to do           *)
  stale,      (* history: requests whose checks a write has overtaken       *)
  overlapped  (* history: one of them has written                           *)

vars == <<taxonomy, parent, request, stale, overlapped>>
tables == <<taxonomy, parent>>
history == <<stale, overlapped>>

Root == "root"
Absent == "absent"
Idle == [op |-> "idle"]
Present == {t \in Terms : parent[t] # Absent}

Taxonomies == [kind : {"tag", "category"}, shape : {"flat", "tree"}]
Changes == UNION {[fields -> {"tag", "category", "flat", "tree"}] :
                    fields \in (SUBSET {"kind", "shape"}) \ {{}}}
Valid(t) == ~(t.kind = "tag" /\ t.shape = "tree")

(* No set of terms in which every term has its parent.                      *)
NoCycle(up) ==
  \A S \in (SUBSET DOMAIN up) \ {{}} : \E t \in S : up[t] \notin S

Become(r, state) == request' = [request EXCEPT ![r] = state]

Refuse(r) ==
  /\ Become(r, Idle)
  /\ stale' = stale \ {r}
  /\ UNCHANGED <<tables, overlapped>>

(* A statement of r was executed: what others have checked is stale now.    *)
Written(r) ==
  /\ Become(r, Idle)
  /\ overlapped' = (overlapped \/ r \in stale)
  /\ stale' = {q \in Requests \ {r} : request[q] # Idle}

Init ==
  /\ taxonomy \in {t \in Taxonomies : Valid(t)}
  /\ parent = [t \in Terms |-> Absent]
  /\ request = [r \in Requests |-> Idle]
  /\ stale = {}
  /\ overlapped = FALSE

-----------------------------------------------------------------------------
(* validateParent                                                           *)
ParentAllowed(p) == p = Root \/ (taxonomy.shape = "tree" /\ p \in Present)

(* createTerm; the unique index is checked with the insert again.           *)
BeginCreateTerm(r, t, p) ==
  /\ request[r] = Idle
  /\ t \notin Present
  /\ ParentAllowed(p)
  /\ Become(r, [op |-> "create", term |-> t, parent |-> p])
  /\ UNCHANGED <<tables, history>>

CreateTerm(r) ==
  /\ request[r].op = "create"
  /\ request[r].term \notin Present
  /\ parent' = [parent EXCEPT ![request[r].term] = request[r].parent]
  /\ Written(r)
  /\ UNCHANGED taxonomy

(* A plausible bug: only the term itself is excluded, not its descendants.  *)
BeginMoveTermUnwalked(r, t, p) ==
  /\ request[r] = Idle
  /\ t \in Present
  /\ p # t
  /\ ParentAllowed(p)
  /\ Become(r, [op |-> "walk", term |-> t, parent |-> p, cursor |-> Root])
  /\ UNCHANGED <<tables, history>>

(* updateTerm with a parent: a term is not moved under itself, ...          *)
BeginMoveTerm(r, t, p) ==
  /\ request[r] = Idle
  /\ t \in Present
  /\ p # t
  /\ ParentAllowed(p)
  /\ Become(r, [op |-> "walk", term |-> t, parent |-> p, cursor |-> p])
  /\ UNCHANGED <<tables, history>>

(* ... nor under one of its descendants: the ancestors of the new parent    *)
(* are read one by one.                                                     *)
Walk(r) ==
  /\ request[r].op = "walk"
  /\ request[r].cursor \notin {Root, request[r].term}
  /\ Become(r, [request[r] EXCEPT !.cursor = parent[@]])
  /\ UNCHANGED <<tables, history>>

RefuseMove(r) ==
  /\ request[r].op = "walk"
  /\ request[r].cursor = request[r].term
  /\ Refuse(r)

MoveTerm(r) ==
  /\ request[r].op = "walk"
  /\ request[r].cursor = Root
  /\ parent' = [parent EXCEPT ![request[r].term] = request[r].parent]
  /\ Written(r)
  /\ UNCHANGED taxonomy

(* The taxonomy with the columns that an update gives.                      *)
Changed(change) ==
  [kind |-> IF "kind" \in DOMAIN change THEN change["kind"] ELSE taxonomy.kind,
   shape |-> IF "shape" \in DOMAIN change THEN change["shape"] ELSE taxonomy.shape]

(* updateTaxonomy checks the taxonomy as it will be if nobody else writes   *)
(* it, and that no term has a parent when it stops being a tree; ...        *)
BeginUpdateTaxonomy(r, change) ==
  LET next == Changed(change) IN
  /\ request[r] = Idle
  /\ next \in Taxonomies
  /\ Valid(next)
  /\ taxonomy.shape = "tree" /\ next.shape = "flat" =>
       \A t \in Present : parent[t] = Root
  /\ Become(r, [op |-> "update", change |-> change])
  /\ UNCHANGED <<tables, history>>

(* ... it writes the columns it was given.                                  *)
UpdateTaxonomy(r) ==
  /\ request[r].op = "update"
  /\ taxonomy' = Changed(request[r].change)
  /\ Written(r)
  /\ UNCHANGED parent

-----------------------------------------------------------------------------
(* hierarchyErrors: a document lists the parents of its terms, gives none   *)
(* in a flat taxonomy, and has no cycle.                                    *)
WellFormed(document) ==
  LET up == document.parents IN
  /\ Valid(document)
  /\ \A t \in DOMAIN up : up[t] \in (DOMAIN up) \cup {Root}
  /\ document.shape = "flat" => \A t \in DOMAIN up : up[t] = Root
  /\ NoCycle(up)

(* preview, in the transaction of the import: an import changes neither the *)
(* kind nor the shape of a taxonomy.                                        *)
BeginImport(r, document) ==
  /\ request[r] = Idle
  /\ WellFormed(document)
  /\ taxonomy = [kind |-> document.kind, shape |-> document.shape]
  /\ Become(r, [op |-> "import", parents |-> document.parents])
  /\ UNCHANGED <<tables, history>>

(* apply inserts the terms it lists or takes their parents away, and then   *)
(* gives each its own; a term it does not list keeps its place.  The        *)
(* statements become visible together, when the transaction commits.        *)
Import(r) ==
  /\ request[r].op = "import"
  /\ LET new == request[r].parents IN
     parent' = [t \in Terms |-> IF t \in DOMAIN new THEN new[t] ELSE parent[t]]
  /\ Written(r)
  /\ UNCHANGED taxonomy

(* A statement fails or the server dies: an open transaction is rolled back.*)
Abandon(r) == request[r] # Idle /\ Refuse(r)

Next ==
  \E r \in Requests :
    \/ \E t \in Terms, p \in Terms \cup {Root} : BeginCreateTerm(r, t, p)
    \/ CreateTerm(r)
    \/ \E t \in Terms, p \in Terms \cup {Root} : BeginMoveTerm(r, t, p)
    \/ Walk(r)
    \/ RefuseMove(r)
    \/ MoveTerm(r)
    \/ \E change \in Changes : BeginUpdateTaxonomy(r, change)
    \/ UpdateTaxonomy(r)
    \/ \E document \in Documents : BeginImport(r, document)
    \/ Import(r)
    \/ Abandon(r)

Spec == Init /\ [][Next]_vars

-----------------------------------------------------------------------------
(* Every variable has its type.                                             *)
TypeOK ==
  /\ taxonomy \in Taxonomies
  /\ parent \in [Terms -> Terms \cup {Root, Absent}]
  /\ DOMAIN request = Requests
  /\ \A r \in Requests : request[r].op = "walk" =>
       /\ request[r].term \in Present
       /\ request[r].cursor \in Present \cup {Root}
  /\ stale \subseteq {r \in Requests : request[r] # Idle}
  /\ overlapped \in BOOLEAN

(* The terms form a forest, which is flat in a flat taxonomy, and a tag     *)
(* taxonomy is flat, however moves, imports and updates of the taxonomy     *)
(* follow each other, as long as none of them writes on the strength of     *)
(* what it read before another one wrote.                                   *)
Forest ==
  ~overlapped =>
    /\ Valid(taxonomy)
    /\ taxonomy.shape = "flat" => \A t \in Present : parent[t] = Root
    /\ NoCycle([t \in Present |-> parent[t]])
=============================================================================
