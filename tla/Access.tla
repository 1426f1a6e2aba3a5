------------------------------- MODULE Access -------------------------------
(***************************************************************************)
(* Who administers the system: the accounts, the rank their roles give     *)
(* them, the bootstrap of the first owner by every starting server, and    *)
(* the administrators' requests that create and update accounts.  What a   *)
(* request has read is not locked: only its last transaction is atomic.    *)
(***************************************************************************)
EXTENDS AccessState

vars == <<status, rank, boot, lock, request, fresh, bootstrapped, raced>>

Init ==
  /\ status = [a \in Accounts |-> "absent"]
  /\ rank = [a \in Accounts |-> "viewer"]
  /\ boot = [s \in Servers |-> "starting"]
  /\ lock = NoServer
  /\ request = [r \in Requests |-> NoRequest]
  /\ bootstrapped = {}
  /\ fresh = {}
  /\ raced = {}

-----------------------------------------------------------------------------
(* Mutant: the bootstrap does not wait for the advisory lock. *)
BootLockUnheld(s) ==
  /\ boot[s] = "starting"
  /\ lock' = s
  /\ boot' = [boot EXCEPT ![s] = "counting"]
  /\ UNCHANGED <<status, rank, request, fresh, bootstrapped, raced>>

(* bootstrapOwner: a transaction under an advisory lock, released when the *)
(* transaction ends, however it ends.                                      *)
BootLock(s) ==
  /\ boot[s] = "starting"
  /\ lock = NoServer
  /\ lock' = s
  /\ boot' = [boot EXCEPT ![s] = "counting"]
  /\ UNCHANGED <<status, rank, request, fresh, bootstrapped, raced>>

BootCount(s) ==
  /\ boot[s] = "counting"
  /\ IF \E a \in Accounts : Exists(a)
       THEN boot' = [boot EXCEPT ![s] = "up"] /\ lock' = NoServer
       ELSE boot' = [boot EXCEPT ![s] = "inserting"] /\ UNCHANGED lock
  /\ UNCHANGED <<status, rank, request, fresh, bootstrapped, raced>>

BootInsert(s, a) ==
  /\ boot[s] = "inserting"
  /\ ~Exists(a)
  /\ status' = [status EXCEPT ![a] = "active"]
  /\ rank' = [rank EXCEPT ![a] = "owner"]
  /\ bootstrapped' = bootstrapped \union {a}
  /\ boot' = [boot EXCEPT ![s] = "up"]
  /\ lock' = NoServer
  /\ UNCHANGED <<request, fresh, raced>>

BootCrash(s) ==
  /\ boot[s] # "starting"
  /\ boot' = [boot EXCEPT ![s] = "starting"]
  /\ lock' = IF lock = s THEN NoServer ELSE lock
  /\ UNCHANGED <<status, rank, request, fresh, bootstrapped, raced>>

(* createAccount: the row and its roles in one transaction. *)
CreateAccount(actor, a, k) ==
  /\ Administers(actor)
  /\ ~Exists(a)
  /\ status' = [status EXCEPT ![a] = "active"]
  /\ rank' = [rank EXCEPT ![a] = k]
  /\ UNCHANGED <<boot, lock, request, fresh, bootstrapped, raced>>
-----------------------------------------------------------------------------
(* The update would take an owner away, as far as the roles that were read *)
(* say: a suspended owner counts as one.                                   *)
RemovesOwner(a, s, k) ==
  rank[a] = "owner" /\ (s = "suspended" \/ k \notin {"keep", "owner"})

(* The route checks the permission of the actor and, from the input alone, *)
(* that nobody suspends himself ...                                        *)
UpdateBegin(r, actor, a, s, k) ==
  /\ request[r] = NoRequest
  /\ Administers(actor)
  /\ s # "keep" \/ k # "keep"
  /\ ~(a = actor /\ s = "suspended")
  /\ request' = [request EXCEPT ![r] =
       [account |-> a, status |-> s, rank |-> k, step |-> "read"]]
  /\ UNCHANGED <<status, rank, boot, lock, fresh, bootstrapped, raced>>

(* ... updateAccount reads the roles of the account ...                    *)
UpdateRead(r) ==
  LET u == request[r] IN
  /\ u # NoRequest /\ u.step = "read"
  /\ Exists(u.account)
  /\ request' = [request EXCEPT ![r].step =
       IF RemovesOwner(u.account, u.status, u.rank) THEN "count" ELSE "write"]
  /\ fresh' = fresh \union {r}
  /\ UNCHANGED <<status, rank, boot, lock, bootstrapped, raced>>

OtherActiveOwner(a) == \E other \in Accounts \ {a} : IsActiveOwner(other)

(* The request is over: refused, failed or lost with its server.           *)
End(r) ==
  /\ request' = [request EXCEPT ![r] = NoRequest]
  /\ fresh' = fresh \ {r}
  /\ UNCHANGED <<status, rank, boot, lock, bootstrapped, raced>>

GoOn(r) ==
  /\ request' = [request EXCEPT ![r].step = "write"]
  /\ UNCHANGED <<status, rank, boot, lock, fresh, bootstrapped, raced>>

(* Mutant: suspended owners are counted too. *)
UpdateCountSuspended(r) ==
  /\ request[r] # NoRequest /\ request[r].step = "count"
  /\ IF \E other \in Accounts \ {request[r].account} : rank[other] = "owner"
       THEN GoOn(r) ELSE End(r)

(* ... counts the other active owners if it takes one away, and refuses    *)
(* when there is none ...                                                  *)
UpdateCount(r) ==
  /\ request[r] # NoRequest /\ request[r].step = "count"
  /\ IF OtherActiveOwner(request[r].account) THEN GoOn(r) ELSE End(r)

(* ... and writes the account and its roles in one transaction that looks  *)
(* at nothing again.                                                       *)
UpdateWrite(r) ==
  LET u == request[r] IN
  /\ u # NoRequest /\ u.step = "write"
  /\ status' = IF u.status = "keep" THEN status ELSE [status EXCEPT ![u.account] = u.status]
  /\ rank' = IF u.rank = "keep" THEN rank ELSE [rank EXCEPT ![u.account] = u.rank]
  /\ raced' = IF r \in fresh THEN raced ELSE raced \union {u.account}
  /\ request' = [request EXCEPT ![r] = NoRequest]
  /\ fresh' = {}
  /\ UNCHANGED <<boot, lock, bootstrapped>>

(* The request throws (an unknown account or role) or its server dies.     *)
Abort(r) == request[r] # NoRequest /\ End(r)

Server(s) ==
  BootLock(s) \/ BootCount(s) \/ BootCrash(s) \/ \E a \in Accounts : BootInsert(s, a)

Update(r) ==
  \/ \E actor, a \in Accounts :
       \E s \in {"keep", "active", "suspended"}, k \in {"keep"} \union Ranks :
         UpdateBegin(r, actor, a, s, k)
  \/ UpdateRead(r) \/ UpdateCount(r) \/ UpdateWrite(r) \/ Abort(r)

Next ==
  \/ \E s \in Servers : Server(s)
  \/ \E actor, a \in Accounts : \E k \in Ranks : CreateAccount(actor, a, k)
  \/ \E r \in Requests : Update(r)

Spec == Init /\ [][Next]_vars
-----------------------------------------------------------------------------
(* Every variable has its type. *)
TypeOK ==
  /\ status \in [Accounts -> Statuses]
  /\ rank \in [Accounts -> Ranks]
  /\ boot \in [Servers -> BootSteps]
  /\ lock \in Servers \union {NoServer}
  /\ request \in [Requests -> Updates \union {NoRequest}]
  /\ bootstrapped \subseteq Accounts
  /\ fresh \subseteq Requests
  /\ raced \subseteq Accounts

(* What that rests on: a transaction of the bootstrap holds the lock, and  *)
(* one that is about to insert still has an empty table before it.         *)
BootUnderLock ==
  /\ \A s \in Servers : boot[s] \in {"counting", "inserting"} => lock = s
  /\ \A s \in Servers : boot[s] = "inserting" => \A a \in Accounts : ~Exists(a)
  /\ \A a \in bootstrapped : Exists(a)
(* What that rests on: an update that has seen every other may write only  *)
(* if it takes no owner away or another one remains.                       *)
ReadIsOfAccount ==
  \A r \in Requests : request[r] # NoRequest /\ request[r].step # "read" =>
    Exists(request[r].account)

FreshIsSafe ==
  \A r \in fresh : LET u == request[r] IN
    /\ u # NoRequest
    /\ u.step = "write" =>
         ~RemovesOwner(u.account, u.status, u.rank) \/ OtherActiveOwner(u.account)

(* Docs (docs/identity-access.md, line 93): the last active owner cannot   *)
(* be removed.                                                             *)
AlwaysAnOwner == (\E a \in Accounts : Exists(a)) => AnOwner
=============================================================================
