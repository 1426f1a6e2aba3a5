------------------------------- MODULE Services -------------------------------
(* Five services that keep tables of their own, and the two parts of the    *)
(* console that do: they share nothing.  A behaviour is one of the part     *)
(* that "part" names; the others stay as they were created.                 *)
EXTENDS Notifications, FiniteSets

CONSTANTS
  Requests,                       (* of each service, in flight together     *)
  RedirectIds, RedirectInputs,    (* Redirects                               *)
  RevisionCap,                    (* Connections                             *)
  Terms, TermDocuments,           (* Taxonomy                                *)
  Items, ItemDocuments,           (* Dictionary                              *)
  First, Second, NoUser,          (* Console                                 *)
  Entries, New, List, NoEntry, RequestCap   (* Editor                        *)

VARIABLES part,
  redirect, rPending, rStale, rOverlapped,
  revision, enabled, lastTest, cRequest, passed, overtaken,
  taxonomy, parent, tRequest, tStale, tOverlapped,
  valueType, value, dRequest, dStale, dOverlapped,
  granted, must, session, account, loading, asked, page, call, found,
  changed, ended, kOverlapped, refused,
  text, orders, exists, at, draft, content, loads, requests, moved

redirects == <<redirect, rPending, rStale, rOverlapped>>
connections == <<revision, enabled, lastTest, cRequest, passed, overtaken>>
terms == <<taxonomy, parent, tRequest, tStale, tOverlapped>>
items == <<valueType, value, dRequest, dStale, dOverlapped>>
console ==
  <<granted, must, session, account, loading, asked, page, call, found,
    changed, ended, kOverlapped, refused>>
editor == <<text, orders, exists, at, draft, content, loads, requests, moved>>
services == <<part, redirects, connections, vars, terms, items, console, editor>>

-----------------------------------------------------------------------------
R == INSTANCE Redirects WITH
       Ids <- RedirectIds, Inputs <- RedirectInputs,
       pending <- rPending, stale <- rStale, overlapped <- rOverlapped

C == INSTANCE Connections WITH request <- cRequest

T == INSTANCE Taxonomy WITH
       Documents <- TermDocuments,
       request <- tRequest, stale <- tStale, overlapped <- tOverlapped

D == INSTANCE Dictionary WITH
       Documents <- ItemDocuments,
       request <- dRequest, stale <- dStale, overlapped <- dOverlapped

K == INSTANCE Console WITH overlapped <- kOverlapped

E == INSTANCE Editor

(* The row that a request creates has an id of its own by then.             *)
ASSUME RedirectsAssumption == "new" \notin RedirectIds

(* A document lists terms and items that a table may have.                  *)
ASSUME DocumentsAssumption ==
  /\ Terms \cap {T!Root, T!Absent} = {}
  /\ \A d \in TermDocuments : DOMAIN d.parents \subseteq Terms
  /\ \A d \in ItemDocuments :
       DOMAIN d.values \subseteq Items /\ \A i \in DOMAIN d.values : d.values[i] \in D!Values

(* The addresses are distinct, and no entry is none.                        *)
ASSUME EditorAssumption ==
  New \notin Entries /\ List \notin Entries \cup {New} /\ NoEntry \notin Entries

-----------------------------------------------------------------------------
ServicesInit ==
  /\ part \in {"redirects", "connections", "notifications", "taxonomy", "dictionary",
               "console", "editor"}
  /\ R!Init /\ C!Init /\ Init /\ T!Init /\ D!Init
  /\ part # "taxonomy" => taxonomy = [kind |-> "tag", shape |-> "flat"]
  /\ part # "dictionary" => valueType = "json"
  /\ K!Init
  /\ part # "console" => page = "account" /\ must = {} /\ session = NoUser /\ granted[First] = {}
  /\ E!Init
  /\ part # "editor" => exists = {}

ServicesNext ==
  \/ /\ part = "redirects" /\ R!Next
     /\ UNCHANGED <<part, connections, vars, terms, items, console, editor>>
  \/ /\ part = "connections" /\ C!Next
     /\ UNCHANGED <<part, redirects, vars, terms, items, console, editor>>
  \/ /\ part = "notifications" /\ Next
     /\ UNCHANGED <<part, redirects, connections, terms, items, console, editor>>
  \/ /\ part = "taxonomy" /\ T!Next
     /\ UNCHANGED <<part, redirects, connections, vars, items, console, editor>>
  \/ /\ part = "dictionary" /\ D!Next
     /\ UNCHANGED <<part, redirects, connections, vars, terms, console, editor>>
  \/ /\ part = "console" /\ K!Next
     /\ UNCHANGED <<part, redirects, connections, vars, terms, items, editor>>
  \/ /\ part = "editor" /\ E!Next
     /\ UNCHANGED <<part, redirects, connections, vars, terms, items, console>>

ServicesSpec == ServicesInit /\ [][ServicesNext]_services

-----------------------------------------------------------------------------
(* validateRedirect keeps the enabled redirects free of loops.              *)
NoLoop == R!NoLoop

(* Only what passed a test of its current configuration is enabled.         *)
EnabledIsTested == C!EnabledIsTested

(* The terms of a taxonomy form a forest.                                   *)
Forest == T!Forest

(* Every item has a value of the type of its dictionary.                    *)
ItemsMatchType == D!ItemsMatchType

(* The console shows the account whose session its requests are made with. *)
AccountIsOfSession == K!AccountIsOfSession

(* Nothing that the console shows is refused, but what it shows everybody.  *)
ShownIsAllowed == K!ShownIsAllowed

(* An entry's text and orders were given at its own address.                *)
DoneAtItsAddress == E!DoneAtItsAddress
=============================================================================
