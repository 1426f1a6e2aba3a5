-------------------------------- MODULE Editor --------------------------------
(***************************************************************************)
(* The editor of content entries in one browser (CmsEditor).  The same     *)
(* mounted editor serves a new entry and every entry whose address the     *)
(* router shows while it is mounted; what it loads for one address, and    *)
(* the answer to what it saved, may arrive when it shows another.          *)
(***************************************************************************)
EXTENDS Naturals, FiniteSets

CONSTANTS
  Entries,      (* the entries that exist or can be created                 *)
  New, List,    (* the addresses of a new entry and of the list             *)
  NoEntry,
  RequestCap    (* bound: requests that are not settled                     *)

Addresses == Entries \union {New}

VARIABLES
  text,      (* per entry at the server: where its text was typed, if there *)
  orders,    (* per entry at the server: where it was published or scheduled*)
  exists,    (* the entries there are                                       *)
  at,        (* the address in the browser                                  *)
  draft,     (* the form: where its text was typed, and whose slug it has   *)
  content,   (* the entry of the last answer                                *)
  loads,     (* the entries the mounted editor waits for                    *)
  requests,  (* what was sent; "mine" is what the mounted editor sent       *)
  moved      (* history: a mounted editor was given another's address       *)

vars == <<text, orders, exists, at, draft, content, loads, requests, moved>>
server == <<text, orders, exists>>

EmptyDraft == [from |-> {}, slug |-> NoEntry]
Request(what, target, address, form, mine, step) ==
  [what |-> what, target |-> target, at |-> address, draft |-> form, mine |-> mine, step |-> step]

Init ==
  /\ exists \in SUBSET Entries
  /\ text = [e \in Entries |-> IF e \in exists THEN {e} ELSE {}]
  /\ orders = [e \in Entries |-> {}]
  /\ at = List
  /\ draft = EmptyDraft
  /\ content = NoEntry
  /\ loads = {}
  /\ requests = {}
  /\ moved = FALSE

-----------------------------------------------------------------------------
(* CmsAdminRoute: the list and the editor replace each other; an editor    *)
(* stays mounted when only its address changes.                            *)
Reachable == exists \union {New}

Open(p) ==
  /\ at = List /\ ~moved /\ p \in Reachable
  /\ at' = p
  /\ loads' = {p} \ {New}
  /\ UNCHANGED <<server, draft, content, requests, moved>>

Orphaned == {Request(r.what, r.target, r.at, r.draft, FALSE, r.step) : r \in requests}

(* A plausible bug: the answers to an editor that is gone reach the next.  *)
LeaveListening ==
  /\ at # List /\ ~moved
  /\ at' = List
  /\ draft' = EmptyDraft
  /\ content' = NoEntry
  /\ requests' = Orphaned
  /\ UNCHANGED <<server, loads, moved>>

Leave ==
  /\ at # List /\ ~moved
  /\ at' = List
  /\ draft' = EmptyDraft
  /\ content' = NoEntry
  /\ loads' = {}
  /\ requests' = Orphaned
  /\ UNCHANGED <<server, moved>>

(* A result of the search, or the history of the browser, leads from one   *)
(* entry to the other.                                                     *)
Move(p) ==
  /\ at # List /\ ~moved /\ p \in Reachable \ {at}
  /\ at' = p
  /\ loads' = loads \union ({p} \ {New})
  /\ moved' = TRUE
  /\ UNCHANGED <<server, draft, content, requests>>

-----------------------------------------------------------------------------
(* The effect on contentId: an answer fills the form, whatever it shows.   *)
Load(e) ==
  /\ e \in loads
  /\ content' = e
  /\ draft' = [from |-> text[e], slug |-> e]
  /\ loads' = loads \ {e}
  /\ UNCHANGED <<server, at, requests, moved>>

LoadFails(e) ==
  /\ e \in loads
  /\ loads' = loads \ {e}
  /\ UNCHANGED <<server, at, draft, content, requests, moved>>

(* setField: some of the text, and perhaps the slug, is typed here.        *)
Type(slug) ==
  /\ at # List /\ ~moved
  /\ slug \in {draft.slug, at}
  /\ draft' = [from |-> draft.from \union {at}, slug |-> slug]
  /\ UNCHANGED <<server, at, content, loads, requests, moved>>

-----------------------------------------------------------------------------
(* Bound: an editor that was given another's address is followed no more.  *)
Send(what, target, form) ==
  /\ at # List /\ ~moved
  /\ Cardinality(requests) < RequestCap
  /\ requests' = requests \union {Request(what, target, at, form, TRUE, "asked")}

(* The button is disabled while a save of this editor is under way; the    *)
(* fields that a text needs are there.                                     *)
Save ==
  /\ draft.slug # NoEntry
  /\ ~\E r \in requests : r.mine /\ r.what = "save"
  /\ Send("save", at, draft)
  /\ UNCHANGED <<server, at, draft, content, loads, moved>>

(* changeStatus and updateSchedule name the entry of the last answer.      *)
Order ==
  /\ content # NoEntry
  /\ Send("order", content, EmptyDraft)
  /\ UNCHANGED <<server, at, draft, content, loads, moved>>

Replace(r, step, target) ==
  requests' = (requests \ {r})
                \union {Request(r.what, target, target, EmptyDraft, r.mine, step)}

(* The slug of another entry is refused.                                   *)
Refused(r) == r.what = "save" /\ r.draft.slug \in exists \ {r.target}

(* The text of a new entry was typed for the entry that it becomes.        *)
Becoming(e, addresses) ==
  (addresses \ {New}) \union (IF New \in addresses THEN {e} ELSE {})

Serve(r, e) ==
  /\ r \in requests /\ r.step = "asked"
  /\ ~Refused(r)
  /\ IF r.target = New THEN e \in Entries \ exists ELSE e = r.target
  /\ exists' = exists \union {e}
  /\ text' = IF r.what = "save"
               THEN [text EXCEPT ![e] = IF r.target = New THEN Becoming(e, r.draft.from) ELSE r.draft.from]
               ELSE text
  /\ orders' = IF r.what = "order" THEN [orders EXCEPT ![e] = @ \union {r.at}] ELSE orders
  /\ Replace(r, IF r.target = New THEN "created" ELSE "answered", e)
  /\ UNCHANGED <<at, draft, content, loads, moved>>

(* A refused or lost request leaves a message and nothing else.            *)
Fail(r) ==
  /\ r \in requests /\ r.step = "asked"
  /\ requests' = requests \ {r}
  /\ UNCHANGED <<server, at, draft, content, loads, moved>>

(* The answer is kept by the editor that asked, if it is still mounted.    *)
Keep(r) == content' = IF r.mine THEN r.target ELSE content

Land(r) ==
  /\ r \in requests /\ r.step = "answered"
  /\ Keep(r)
  /\ requests' = requests \ {r}
  /\ UNCHANGED <<server, at, draft, loads, moved>>

(* The answer to a creation leads the browser to the new entry, wherever   *)
(* it is by then.  The editor that asked has the text of the new entry.    *)
LandCreated(r) ==
  /\ r \in requests /\ r.step = "created"
  /\ LET own == r.mine /\ at = New IN
       /\ moved' = (moved \/ (at \notin {List, r.target} /\ ~own))
       /\ draft' = IF own THEN [from |-> Becoming(r.target, draft.from), slug |-> r.target] ELSE draft
  /\ Keep(r)
  /\ at' = r.target
  /\ loads' = IF at = r.target THEN loads ELSE loads \union {r.target}
  /\ requests' = requests \ {r}
  /\ UNCHANGED server

-----------------------------------------------------------------------------
Next ==
  \/ \E p \in Addresses : Open(p) \/ Move(p)
  \/ Leave
  \/ \E e \in Entries : Load(e) \/ LoadFails(e)
  \/ \E s \in Addresses \union {NoEntry} : Type(s)
  \/ Save \/ Order
  \/ \E r \in requests : (\E e \in Entries : Serve(r, e)) \/ Fail(r) \/ Land(r) \/ LandCreated(r)

Spec == Init /\ [][Next]_vars

-----------------------------------------------------------------------------
(* Everything that an entry's text holds was typed, and every order for it *)
(* was given, at its own address: late answers of an editor that was left  *)
(* change neither the form nor what the orders name.  A mounted editor     *)
(* that is given another entry's address does not keep them apart.         *)
DoneAtItsAddress ==
  ~moved => \A e \in Entries : text[e] \union orders[e] \subseteq {e}
=============================================================================
