------------------------------ MODULE Redirects ------------------------------
(***************************************************************************)
(* The redirects of the public site (cms_redirects) and the requests that  *)
(* write them.  Each request validates its input against the whole table   *)
(* and writes one row in a later statement.                                *)
(***************************************************************************)
EXTENDS Naturals, FiniteSets

CONSTANTS
  Ids,        (* the rows the table may have                                *)
  Inputs,     (* what may be saved: records of source, target and enabled   *)
  Requests    (* requests in flight at the same time                        *)

VARIABLES
  redirect,   (* the rows of the table, Absent where there is none          *)
  pending,    (* what each request has validated and is about to write      *)
  stale,      (* history: requests whose validation a save has overtaken    *)
  overlapped  (* history: one of them was written                           *)

vars == <<redirect, pending, stale, overlapped>>

Absent == [source |-> "", target |-> "", enabled |-> FALSE]
Nothing == [op |-> "none"]
Rows == {i \in Ids : redirect[i] # Absent}

(* The path reached after each number of redirects by rows other than id;   *)
(* a path that no enabled row redirects is the end.                         *)
Walk(start, id) ==
  LET step[n \in 0..Cardinality(Rows)] ==
        IF n = 0 THEN start
        ELSE LET via == {i \in Rows \ {id} : /\ redirect[i].enabled
                                             /\ redirect[i].source = step[n - 1]}
             IN IF via = {} THEN step[n - 1] ELSE redirect[CHOOSE i \in via : TRUE].target
  IN step

(* A plausible bug: only the redirect of the target is looked at.           *)
ClosesLoopOfTwo(input, id) ==
  Rows # {} /\ \E n \in 0..1 : Walk(input.target, id)[n] = input.source

(* validateRedirect follows the enabled rows from the target for as many    *)
(* steps as there are rows, ...                                             *)
ClosesLoop(input, id) ==
  \E n \in 0..Cardinality(Rows) : Walk(input.target, id)[n] = input.source

(* ... and refuses a source that another row has; so does the unique index. *)
Duplicate(input, id) == \E i \in Rows \ {id} : redirect[i].source = input.source

Init ==
  /\ redirect = [i \in Ids |-> Absent]
  /\ pending = [r \in Requests |-> Nothing]
  /\ stale = {}
  /\ overlapped = FALSE

Begin(r, op, id, input) ==
  /\ pending[r] = Nothing
  /\ input.source # input.target
  /\ ~Duplicate(input, id)
  /\ ~ClosesLoop(input, id)
  /\ pending' = [pending EXCEPT ![r] = [op |-> op, id |-> id, input |-> input]]
  /\ UNCHANGED <<redirect, stale, overlapped>>

BeginCreate(r, input) == Begin(r, "create", "new", input)
BeginUpdate(r, id, input) == id \in Rows /\ Begin(r, "update", id, input)

(* The statement of either writes one row: what the other requests have     *)
(* validated is stale now.                                                  *)
Write(r, id) ==
  /\ redirect' = [redirect EXCEPT ![id] = pending[r].input]
  /\ pending' = [pending EXCEPT ![r] = Nothing]
  /\ overlapped' = (overlapped \/ r \in stale)
  /\ stale' = {q \in Requests \ {r} : pending[q] # Nothing}

CreateRedirect(r) ==
  /\ pending[r].op = "create"
  /\ ~Duplicate(pending[r].input, "new")
  /\ \E id \in Ids \ Rows : Write(r, id)

UpdateRedirect(r) ==
  /\ pending[r].op = "update"
  /\ pending[r].id \in Rows
  /\ ~Duplicate(pending[r].input, pending[r].id)
  /\ Write(r, pending[r].id)

(* The index refuses, the row to update is gone, or the server dies.        *)
Abandon(r) ==
  /\ pending[r] # Nothing
  /\ pending' = [pending EXCEPT ![r] = Nothing]
  /\ stale' = stale \ {r}
  /\ UNCHANGED <<redirect, overlapped>>

DeleteRedirect(id) ==
  /\ id \in Rows
  /\ redirect' = [redirect EXCEPT ![id] = Absent]
  /\ UNCHANGED <<pending, stale, overlapped>>

Next ==
  \/ \E r \in Requests :
       \/ \E input \in Inputs : BeginCreate(r, input)
       \/ \E id \in Ids, input \in Inputs : BeginUpdate(r, id, input)
       \/ CreateRedirect(r)
       \/ UpdateRedirect(r)
       \/ Abandon(r)
  \/ \E id \in Ids : DeleteRedirect(id)

Spec == Init /\ [][Next]_vars

-----------------------------------------------------------------------------
(* Every variable has its type.                                             *)
TypeOK ==
  /\ redirect \in [Ids -> Inputs \cup {Absent}]
  /\ pending \in [Requests -> {Nothing}
                    \cup [op : {"create"}, id : {"new"}, input : Inputs]
                    \cup [op : {"update"}, id : Ids, input : Inputs]]
  /\ stale \subseteq Requests
  /\ overlapped \in BOOLEAN

(* docs/cms-lite.md: the service refuses redirects that form a loop.  No    *)
(* set of enabled rows leads from each of them to another of them, as long  *)
(* as no request wrote what it had validated before another one wrote.      *)
NoLoop ==
  LET enabled == {i \in Rows : redirect[i].enabled} IN
  ~overlapped =>
    \A loop \in (SUBSET enabled) \ {{}} :
      \E i \in loop : \A j \in loop : redirect[i].target # redirect[j].source
=============================================================================
