--------------------------- MODULE AccessState -----------------------------
(* The state of Access and what must hold of it.                            *)
EXTENDS Integers

CONSTANTS
  Accounts,     (* the accounts that may be created                         *)
  Servers,      (* the processes that start and bootstrap                   *)
  Requests,     (* updateAccount requests in flight at the same time        *)
  NoServer,     (* nobody holds the advisory lock                           *)
  NoRequest     (* a free request slot                                      *)

Statuses == {"absent", "active", "suspended"}

(* An administrator stands for every role with iam.accounts.write but the  *)
(* owner's, a viewer for the roles without.                                *)
Ranks == {"owner", "administrator", "viewer"}
BootSteps == {"starting", "counting", "inserting", "up"}

Updates == [account : Accounts, status : {"keep", "active", "suspended"},
            rank : {"keep"} \union Ranks, step : {"read", "count", "write"}]

ASSUME NullsAssumption ==
  /\ NoServer \notin Servers
  /\ NoRequest \notin Updates

VARIABLES
  status,       (* accounts.status, "absent" before the row exists          *)
  rank,         (* the strongest role of each account                       *)
  boot,         (* how far the bootstrap of each server is                  *)
  lock,         (* the server that holds the advisory lock of the bootstrap *)
  request,      (* what each updateAccount has read and is about to write   *)
  fresh,        (* history: the requests that read the account's roles and  *)
                (* since when no update was written                         *)
  bootstrapped, (* history: the accounts created by a bootstrap             *)
  raced         (* history: the accounts updated by a request not fresh     *)

Exists(a) == status[a] # "absent"
IsActiveOwner(a) == status[a] = "active" /\ rank[a] = "owner"
Administers(a) == status[a] = "active" /\ rank[a] \in {"owner", "administrator"}
-----------------------------------------------------------------------------
AnOwner == \E a \in Accounts : IsActiveOwner(a)

(* However many servers start, crash and start again at the same time, the *)
(* bootstrap creates one account at most.                                  *)
OneBootstrap == \A a, b \in bootstrapped : a = b

(* Once there are accounts an active owner remains, as long as no update   *)
(* wrote after another one that it had not seen.                           *)
OwnerUnlessRaced ==
  raced = {} /\ (\E a \in Accounts : Exists(a)) => AnOwner
=============================================================================
