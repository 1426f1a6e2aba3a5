--------------------------- MODULE IdentityProofs ---------------------------
(* Theorems of Identity, for any accounts, servers, requests, sessions and *)
(* links, each about the half that has the property.                       *)
EXTENDS Identity, TLAPS

-----------------------------------------------------------------------------
(* A behaviour is one of each half, of which the other one rests.          *)
LEMMA Halves ==
  /\ IdentityInit => Init /\ A!Init
  /\ [IdentityNext]_<<part, access, credentials>> => [Next]_vars /\ [A!Next]_access
<1>1. UNCHANGED credentials => UNCHANGED vars
  BY DEF credentials, vars, links
<1> QED
  BY <1>1 DEF IdentityInit, IdentityNext

-----------------------------------------------------------------------------
(* The credentials.                                                        *)

(* The shapes a request may have. *)
LEMMA CallTypes ==
  /\ \A p \in Passwords : [op |-> "login", seen |-> p] \in Calls
  /\ \A s \in Sessions : [op |-> "change", session |-> s] \in Calls
  /\ \A p \in Passwords : [op |-> "publish", of |-> p] \in Calls
  /\ \A p \in Purposes : [op |-> "ask", purpose |-> p] \in Calls
  /\ \A p \in Purposes, S \in SUBSET Tokens :
       [op |-> "issue", purpose |-> p, open |-> S] \in Calls
  /\ \A t \in Tokens : [op |-> "deliver", token |-> t] \in Calls
  /\ \A t \in Tokens : [op |-> "complete", token |-> t] \in Calls
BY DEF Calls

(* What a call that is on its way carries, by the operation it is in.       *)
LEMMA CallFields ==
  ASSUME TypeOK, NEW c \in Callers
  PROVE  /\ Doing(c, "login") => call[c].seen \in Passwords
         /\ Doing(c, "change") => call[c].session \in Sessions
         /\ Doing(c, "publish") => call[c].of \in Passwords
         /\ Doing(c, "ask") => call[c].purpose \in Purposes
         /\ Doing(c, "issue") => call[c].purpose \in Purposes /\ call[c].open \subseteq Tokens
         /\ Doing(c, "deliver") => call[c].token \in Tokens
         /\ Doing(c, "complete") => call[c].token \in Tokens
<1>1. Doing(c, call[c].op) => call[c] \in Calls
  BY DEF TypeOK, Doing
<1> QED
  BY <1>1 DEF Doing, Calls

(* Every variable of the credentials keeps its type. *)
THEOREM CredentialsTyped == IdentitySpec => []TypeOK
<1>1. Init => TypeOK
  BY MaxPasswordsAssumption DEF Init, TypeOK, Passwords, TokenStates, Purposes
<1>2. TypeOK /\ [Next]_vars => TypeOK'
  <2> SUFFICES ASSUME TypeOK, [Next]_vars PROVE TypeOK'
    OBVIOUS
  <2>1. CASE \E c \in Callers : Request(c)
    <3> PICK c \in Callers : Request(c)
      BY <2>1
    <3> USE CallTypes, CallFields DEF TypeOK, Begin, GoOn, End, links
    <3>0. password < MaxPasswords => password + 1 \in Passwords
      BY MaxPasswordsAssumption DEF Passwords
    <3>1. CASE LoginRead(c)
      BY <3>1 DEF LoginRead
    <3>2. CASE Publish(c)
      BY <3>2 DEF Publish
    <3>3. CASE Deliver(c) \/ DeliverNot(c)
      BY <3>3 DEF Deliver, DeliverNot, TokenStates
    <3>4. CASE ChangeWrite(c)
      BY <3>0, <3>4 DEF ChangeWrite, EndAllBut
    <3>5. CASE FinishPassword(c)
      BY <3>0, <3>5 DEF FinishPassword, EndAllBut, Used, TokenStates
    <3>6. CASE FinishVerification(c)
      BY <3>6 DEF FinishVerification, Used, TokenStates
    <3>7. CASE Abort(c)
      BY <3>7 DEF Abort
    <3>8. ASSUME NEW s \in Sessions, LoginCreate(c, s) \/ ChangeRead(c, s) PROVE TypeOK'
      BY <3>8 DEF LoginCreate, ChangeRead
    <3>9. ASSUME NEW p \in Purposes, Ask(c, p) PROVE TypeOK'
      BY <3>9 DEF Ask
    <3>10. CASE IssueConsume(c)
      BY <3>10 DEF IssueConsume
    <3>11. ASSUME NEW t \in Tokens, IssueInsert(c, t) \/ ConsumeChallenge(c, t) PROVE TypeOK'
      BY <3>11 DEF IssueInsert, ConsumeChallenge, TokenStates
    <3> QED
      BY <3>1, <3>2, <3>3, <3>4, <3>5, <3>6, <3>7, <3>8, <3>9, <3>10, <3>11 DEF Request
  <2>2. ASSUME NEW s \in Sessions, EndSession(s) \/ RevokeOtherSessions(s) PROVE TypeOK'
    BY <2>2 DEF EndSession, RevokeOtherSessions, EndAllBut, TypeOK, links
  <2>3. ASSUME NEW t \in Tokens, Expire(t) PROVE TypeOK'
    BY <2>3 DEF Expire, TypeOK, TokenStates
  <2>4. CASE UNCHANGED vars
    BY <2>4 DEF vars, TypeOK
  <2> QED
    BY <2>1, <2>2, <2>3, <2>4 DEF Next
<1> QED
  BY <1>1, <1>2, Halves, PTL DEF IdentitySpec
-----------------------------------------------------------------------------
(* What LinkWorksOnce rests on: a link that is not consumed was never used.*)
UnusedUntilConsumed ==
  \A t \in Tokens : token[t] # "consumed" => uses[t] = 0

(* A link works once: using it consumes it, and a consumed link is never   *)
(* open again.                                                             *)
THEOREM LinkCorrect == IdentitySpec => []LinkWorksOnce
<1> DEFINE Inv == UnusedUntilConsumed /\ LinkWorksOnce
<1>1. Init => Inv
  BY DEF Init, UnusedUntilConsumed, LinkWorksOnce
<1>2. TypeOK /\ Inv /\ [Next]_vars => Inv'
  <2> SUFFICES ASSUME TypeOK, Inv, [Next]_vars PROVE Inv'
    OBVIOUS
  <2> USE DEF UnusedUntilConsumed, LinkWorksOnce
  <2>1. ASSUME NEW c \in Callers, NEW t \in Tokens, t = call[c].token, Open(t), Used(t)
        PROVE  Inv'
    BY <2>1 DEF Open, Used, TypeOK
  <2>2. ASSUME NEW t \in Tokens, NEW c \in Callers, IssueInsert(c, t) PROVE Inv'
    BY <2>2 DEF IssueInsert, TypeOK
  <2>3. ASSUME uses' = uses,
               \A t \in Tokens : token'[t] # "consumed" => token[t] # "consumed"
        PROVE  Inv'
    BY <2>3
  <2>4. ASSUME NEW c \in Callers, Request(c) PROVE Inv'
    <3>1. CASE FinishPassword(c) \/ FinishVerification(c)
      BY <3>1, <2>1, CallFields DEF FinishPassword, FinishVerification
    <3>2. ASSUME NEW t \in Tokens, IssueInsert(c, t) PROVE Inv'
      BY <3>2, <2>2
    <3>3. CASE Deliver(c) \/ DeliverNot(c)
      BY <3>3, <2>3 DEF Deliver, DeliverNot, TypeOK
    <3>4. CASE UNCHANGED <<token, uses>>
      BY <3>4
    <3> QED
      BY <2>4, <3>1, <3>2, <3>3, <3>4
         DEF Request, LoginRead, IssueConsume, Publish, ChangeWrite,
         Abort, LoginCreate, ChangeRead, Ask, ConsumeChallenge, links
  <2>5. ASSUME NEW t \in Tokens, Expire(t) PROVE Inv'
    BY <2>5, <2>3 DEF Expire, TypeOK
  <2>6. CASE UNCHANGED <<token, uses>>
    BY <2>6
  <2> QED
    BY <2>4, <2>5, <2>6 DEF Next, EndSession, RevokeOtherSessions, vars, links
<1> QED
  BY <1>1, <1>2, CredentialsTyped, Halves, PTL DEF IdentitySpec
-----------------------------------------------------------------------------
(* A live session is of the current password, unless the login that opened *)
(* it was overtaken: whatever changes the password ends the sessions that  *)
(* it does not confirm.                                                    *)
THEOREM SessionsCorrect == IdentitySpec => []LiveSessionIsCurrent
<1>1. Init => LiveSessionIsCurrent
  BY DEF Init, LiveSessionIsCurrent, Live
<1>2. TypeOK /\ LiveSessionIsCurrent /\ [Next]_vars => LiveSessionIsCurrent'
  <2> SUFFICES ASSUME TypeOK, LiveSessionIsCurrent, [Next]_vars PROVE LiveSessionIsCurrent'
    OBVIOUS
  <2> USE DEF LiveSessionIsCurrent, Live
  <2>1. ASSUME NEW c \in Callers, Request(c) PROVE LiveSessionIsCurrent'
    <3>1. CASE ChangeWrite(c)
      BY <3>1, CallFields DEF ChangeWrite, EndAllBut, TypeOK
    <3>2. CASE FinishPassword(c)
      BY <3>2 DEF FinishPassword, EndAllBut
    <3>3. ASSUME NEW s \in Sessions, LoginCreate(c, s) PROVE LiveSessionIsCurrent'
      BY <3>3 DEF LoginCreate, TypeOK
    <3>4. CASE UNCHANGED <<password, session, since, overtaken>>
      BY <3>4
    <3> QED
      BY <2>1, <3>1, <3>2, <3>3, <3>4 DEF Request, LoginRead, IssueConsume, Publish, Deliver,
         DeliverNot, FinishVerification, Abort, ChangeRead, Ask, IssueInsert, ConsumeChallenge
  <2>2. ASSUME NEW s \in Sessions, EndSession(s) \/ RevokeOtherSessions(s)
        PROVE  LiveSessionIsCurrent'
    BY <2>2 DEF EndSession, RevokeOtherSessions, EndAllBut, TypeOK
  <2>3. CASE UNCHANGED <<password, session, since, overtaken>>
    BY <2>3
  <2> QED
    BY <2>1, <2>2, <2>3 DEF Next, Expire, vars
<1> QED
  BY <1>1, <1>2, CredentialsTyped, Halves, PTL DEF IdentitySpec
-----------------------------------------------------------------------------
(* The accounts. *)

(* Every variable keeps its type. *)
THEOREM AccessTyped == IdentitySpec => []A!TypeOK
<1>1. A!Init => A!TypeOK
  BY DEF A!Init, A!TypeOK, A!Statuses, A!Ranks, A!BootSteps
<1>2. A!TypeOK /\ [A!Next]_access => A!TypeOK'
  <2> SUFFICES ASSUME A!TypeOK, [A!Next]_access PROVE A!TypeOK'
    OBVIOUS
  <2> USE DEF A!TypeOK
  <2>1. CASE \E s \in Servers : A!Server(s)
    <3> PICK s \in Servers : A!Server(s)
      BY <2>1
    <3>1. CASE A!BootLock(s)
      BY <3>1 DEF A!BootLock, A!BootSteps
    <3>2. CASE A!BootCount(s)
      BY <3>2 DEF A!BootCount, A!BootSteps
    <3>3. CASE A!BootCrash(s)
      BY <3>3 DEF A!BootCrash, A!BootSteps
    <3>4. ASSUME NEW a \in Accounts, A!BootInsert(s, a) PROVE A!TypeOK'
      BY <3>4 DEF A!BootInsert, A!BootSteps, A!Statuses, A!Ranks
    <3> QED
      BY <3>1, <3>2, <3>3, <3>4 DEF A!Server
  <2>2. ASSUME NEW actor \in Accounts, NEW a \in Accounts, NEW k \in A!Ranks,
               A!CreateAccount(actor, a, k)
        PROVE  A!TypeOK'
    BY <2>2 DEF A!CreateAccount, A!Statuses
  <2>3. CASE \E r \in Requests : A!Update(r)
    <3> PICK r \in Requests : A!Update(r)
      BY <2>3
    <3>1. ASSUME NEW actor \in Accounts, NEW a \in Accounts,
                 NEW s \in {"keep", "active", "suspended"}, NEW k \in {"keep"} \union A!Ranks,
                 A!UpdateBegin(r, actor, a, s, k)
          PROVE  A!TypeOK'
      <4>1. [account |-> a, status |-> s, rank |-> k, step |-> "read"] \in A!Updates
        BY DEF A!Updates
      <4> QED
        BY <3>1, <4>1 DEF A!UpdateBegin
    <3>2. CASE A!UpdateRead(r)
      BY <3>2 DEF A!UpdateRead, A!Updates
    <3>3. CASE A!UpdateCount(r)
      BY <3>3 DEF A!UpdateCount, A!GoOn, A!End, A!Updates
    <3>4. CASE A!UpdateWrite(r)
      <4>1. request[r] \in A!Updates
        BY <3>4 DEF A!UpdateWrite
      <4>2. status' \in [Accounts -> A!Statuses] /\ rank' \in [Accounts -> A!Ranks]
        BY <3>4, <4>1 DEF A!UpdateWrite, A!Updates, A!Statuses
      <4>3. raced' \subseteq Accounts
        BY <3>4, <4>1 DEF A!UpdateWrite, A!Updates
      <4> QED
        BY <3>4, <4>2, <4>3 DEF A!UpdateWrite
    <3>5. CASE A!Abort(r)
      BY <3>5 DEF A!Abort, A!End
    <3> QED
      BY <3>1, <3>2, <3>3, <3>4, <3>5 DEF A!Update
  <2>4. CASE UNCHANGED access
    BY <2>4 DEF access
  <2> QED
    BY <2>1, <2>2, <2>3, <2>4 DEF A!Next
<1> QED
  BY <1>1, <1>2, Halves, PTL DEF IdentitySpec
-----------------------------------------------------------------------------
(* The values that stand for nothing are no server and no request.          *)
LEMMA Nulls == NoServer \notin Servers /\ NoRequest \notin A!Updates
  BY NullsAssumption DEF Updates, Ranks, A!Updates, A!Ranks

(* Accounts never disappear, and what an update has read is of one that    *)
(* exists.                                                                 *)
LEMMA AccountsStay ==
  ASSUME A!TypeOK, A!ReadIsOfAccount, [A!Next]_access
  PROVE  \A a \in Accounts : A!Exists(a) => A!Exists(a)'
<1> USE DEF A!TypeOK, A!Exists
<1>1. CASE \E s \in Servers : A!Server(s)
  BY <1>1 DEF A!Server, A!BootLock, A!BootCount, A!BootCrash, A!BootInsert
<1>2. ASSUME NEW actor \in Accounts, NEW a \in Accounts, NEW k \in A!Ranks,
             A!CreateAccount(actor, a, k)
      PROVE  \A b \in Accounts : A!Exists(b) => A!Exists(b)'
  BY <1>2 DEF A!CreateAccount
<1>3. CASE \E r \in Requests : A!Update(r)
  <2> PICK r \in Requests : A!Update(r)
    BY <1>3
  <2>1. CASE A!UpdateWrite(r)
    <3>1. request[r] \in A!Updates
      BY <2>1 DEF A!UpdateWrite
    <3> QED
      BY <2>1, <3>1 DEF A!UpdateWrite, A!Updates
  <2>2. CASE ~A!UpdateWrite(r)
    BY <2>2 DEF A!Update, A!UpdateBegin, A!UpdateRead, A!UpdateCount, A!GoOn, A!Abort, A!End
  <2> QED
    BY <2>1, <2>2
<1>4. CASE UNCHANGED access
  BY <1>4 DEF access
<1> QED
  BY <1>1, <1>2, <1>3, <1>4 DEF A!Next

(* An account that a request has read goes on existing: accounts are never  *)
(* deleted.                                                                 *)
LEMMA ReadStays ==
  ASSUME A!TypeOK, A!ReadIsOfAccount, [A!Next]_access
  PROVE  A!ReadIsOfAccount'
<1> SUFFICES ASSUME NEW q \in Requests,
                    request'[q] # NoRequest, request'[q].step # "read"
             PROVE  A!Exists(request[q].account)'
  BY DEF A!ReadIsOfAccount
<1>1. CASE request'[q] = request[q]
  <2>1. request[q] \in A!Updates /\ A!Exists(request[q].account)
    BY <1>1 DEF A!ReadIsOfAccount, A!TypeOK
  <2> QED
    BY <1>1, <2>1, AccountsStay DEF A!Updates, A!Exists
<1>2. CASE request'[q] # request[q]
  <2>1. CASE \E r \in Requests : A!Update(r)
    <3> PICK r \in Requests : A!Update(r)
      BY <2>1
    <3>1. CASE A!UpdateRead(r)
      BY <3>1, <1>2 DEF A!UpdateRead, A!TypeOK, A!Exists, A!Updates
    <3>2. CASE A!UpdateCount(r)
      BY <3>2, <1>2
         DEF A!UpdateCount, A!GoOn, A!End, A!TypeOK, A!Exists, A!Updates, A!ReadIsOfAccount
    <3>3. CASE ~A!UpdateRead(r) /\ ~A!UpdateCount(r)
      BY <3>3, <1>2 DEF A!Update, A!UpdateBegin, A!UpdateWrite, A!Abort, A!End, A!TypeOK
    <3> QED
      BY <3>1, <3>2, <3>3
  <2>2. CASE ~\E r \in Requests : A!Update(r)
    BY <2>2, <1>2 DEF A!Next, A!Server, A!BootLock, A!BootCount, A!BootCrash, A!BootInsert,
                      A!CreateAccount, access
  <2> QED
    BY <2>1, <2>2
<1> QED
  BY <1>1, <1>2
-----------------------------------------------------------------------------
(* The bootstrap creates one account at most: its transactions exclude     *)
(* each other, and accounts never disappear.                               *)
THEOREM OneBootstrapCorrect == IdentitySpec => []OneBootstrap
<1> DEFINE Inv == A!ReadIsOfAccount /\ A!BootUnderLock /\ A!OneBootstrap
<1>1. A!Init => Inv
  <2> SUFFICES ASSUME A!Init PROVE Inv
    OBVIOUS
  <2>1. A!ReadIsOfAccount
    BY DEF A!Init, A!ReadIsOfAccount
  <2>2. A!BootUnderLock
    BY DEF A!Init, A!BootUnderLock
  <2>3. A!OneBootstrap
    BY DEF A!Init, A!OneBootstrap
  <2> QED
    BY <2>1, <2>2, <2>3
<1>2. A!TypeOK /\ A!TypeOK' /\ Inv /\ [A!Next]_access => Inv'
  <2> SUFFICES ASSUME A!TypeOK, A!TypeOK', Inv, [A!Next]_access PROVE Inv'
    OBVIOUS
  <2>1. A!ReadIsOfAccount'
    BY ReadStays
  <2>2. A!BootUnderLock' /\ A!OneBootstrap'
    <3>1. CASE \E s \in Servers : A!Server(s)
      <4> PICK s \in Servers : A!Server(s)
        BY <3>1
      <4> USE Nulls DEF A!TypeOK, A!BootUnderLock, A!OneBootstrap, A!Exists
      <4>1. CASE A!BootLock(s)
        <5>1. \A t \in Servers : boot[t] \notin {"counting", "inserting"}
          BY <4>1 DEF A!BootLock
        <5>2. \A t \in Servers \ {s} : boot'[t] = boot[t]
          BY <4>1 DEF A!BootLock
        <5>3. lock' = s /\ boot'[s] = "counting" /\ UNCHANGED <<status, bootstrapped>>
          BY <4>1 DEF A!BootLock
        <5> QED
          BY <5>1, <5>2, <5>3
      <4>2. CASE A!BootCount(s)
        <5>1. \A t \in Servers \ {s} : boot'[t] = boot[t]
                                       /\ boot[t] \notin {"counting", "inserting"}
          BY <4>2 DEF A!BootCount
        <5>2. UNCHANGED <<status, bootstrapped>>
          BY <4>2 DEF A!BootCount
        <5>3. \/ boot'[s] = "up"
              \/ boot'[s] = "inserting" /\ lock' = s /\ \A a \in Accounts : ~A!Exists(a)
          BY <4>2 DEF A!BootCount
        <5> QED
          BY <5>1, <5>2, <5>3
      <4>3. CASE A!BootCrash(s)
        <5>1. \A t \in Servers \ {s} : boot'[t] = boot[t]
          BY <4>3 DEF A!BootCrash
        <5>2. boot'[s] = "starting" /\ UNCHANGED <<status, bootstrapped>>
          BY <4>3 DEF A!BootCrash
        <5>3. \A t \in Servers \ {s} : lock = t => lock' = t
          BY <4>3 DEF A!BootCrash
        <5> QED
          BY <5>1, <5>2, <5>3
      <4>4. ASSUME NEW a \in Accounts, A!BootInsert(s, a) PROVE A!BootUnderLock' /\ A!OneBootstrap'
        <5>1. bootstrapped = {}
          BY <4>4 DEF A!BootInsert
        <5> QED
          BY <4>4, <5>1 DEF A!BootInsert, A!BootSteps, A!Statuses
      <4> QED
        BY <4>1, <4>2, <4>3, <4>4 DEF A!Server
    <3>2. ASSUME NEW actor \in Accounts, NEW a \in Accounts, NEW k \in A!Ranks,
                 A!CreateAccount(actor, a, k)
          PROVE  A!BootUnderLock' /\ A!OneBootstrap'
      BY <3>2 DEF A!CreateAccount, A!Administers, A!BootUnderLock, A!OneBootstrap, A!Exists,
                  A!TypeOK
    <3>3. CASE \E r \in Requests : A!Update(r)
      <4>1. UNCHANGED <<boot, lock, bootstrapped>>
        BY <3>3 DEF A!Update, A!UpdateBegin, A!UpdateRead, A!UpdateCount, A!GoOn, A!End,
                    A!UpdateWrite, A!Abort
      <4>2. (\A a \in Accounts : ~A!Exists(a)) => UNCHANGED status
        <5> PICK r \in Requests : A!Update(r)
          BY <3>3
        <5>1. CASE A!UpdateWrite(r)
          BY <5>1 DEF A!UpdateWrite, A!ReadIsOfAccount, A!Updates, A!TypeOK
        <5>2. CASE ~A!UpdateWrite(r)
          BY <5>2 DEF A!Update, A!UpdateBegin, A!UpdateRead, A!UpdateCount, A!GoOn, A!End,
                      A!Abort
        <5> QED
          BY <5>1, <5>2
      <4> QED
        BY <4>1, <4>2, AccountsStay DEF A!BootUnderLock, A!OneBootstrap, A!Exists, A!TypeOK
    <3>4. CASE UNCHANGED access
      BY <3>4 DEF access, A!BootUnderLock, A!OneBootstrap, A!Exists
    <3> QED
      BY <3>1, <3>2, <3>3, <3>4 DEF A!Next
  <2> QED
    BY <2>1, <2>2
<1>3. Inv => OneBootstrap
  BY DEF OneBootstrap, A!OneBootstrap
<1> QED
  BY <1>1, <1>2, <1>3, AccessTyped, Halves, PTL DEF IdentitySpec
-----------------------------------------------------------------------------
(* A new account takes no owner away and disturbs no update.               *)
LEMMA NewAccount ==
  ASSUME A!TypeOK, A!ReadIsOfAccount, A!FreshIsSafe,
         NEW a \in Accounts, ~A!Exists(a), UNCHANGED <<request, fresh>>,
         \A b \in Accounts \ {a} : status'[b] = status[b] /\ rank'[b] = rank[b]
  PROVE  A!FreshIsSafe' /\ (A!AnOwner => A!AnOwner')
<1>1. \A b \in Accounts : A!IsActiveOwner(b) => b # a /\ A!IsActiveOwner(b)'
  BY DEF A!IsActiveOwner, A!Exists
<1>2. A!AnOwner => A!AnOwner'
  BY <1>1 DEF A!AnOwner
<1>3. ASSUME NEW r \in fresh, request[r].step = "write"
      PROVE  \/ ~A!RemovesOwner(request[r].account, request[r].status, request[r].rank)'
             \/ A!OtherActiveOwner(request[r].account)'
  <2> DEFINE u == request[r]
  <2>1. r \in Requests /\ u # NoRequest /\ u \in A!Updates
    BY DEF A!FreshIsSafe, A!TypeOK
  <2>2. u.account \in Accounts /\ u.account # a
    BY <1>3, <2>1 DEF A!ReadIsOfAccount, A!Updates
  <2>3. request' = request /\ rank'[u.account] = rank[u.account]
    BY <2>2
  <2>4. ~A!RemovesOwner(u.account, u.status, u.rank) \/ A!OtherActiveOwner(u.account)
    BY <1>3 DEF A!FreshIsSafe
  <2> QED
    BY <1>1, <2>3, <2>4 DEF A!RemovesOwner, A!OtherActiveOwner
<1> QED
  BY <1>2, <1>3 DEF A!FreshIsSafe

(* The step of the next theorem that matters: an update writes.            *)
LEMMA WriteKeepsAnOwner ==
  ASSUME A!TypeOK, A!ReadIsOfAccount, A!FreshIsSafe, A!OwnerUnlessRaced,
         NEW r \in Requests, A!UpdateWrite(r), raced' = {}
  PROVE  A!AnOwner'
<1> DEFINE u == request[r]
<1>1. u \in A!Updates /\ u # NoRequest /\ u.step = "write" /\ r \in fresh /\ raced = {}
  BY DEF A!UpdateWrite, A!TypeOK
<1>2. u.account \in Accounts /\ A!Exists(u.account)
  BY <1>1 DEF A!ReadIsOfAccount, A!Updates
<1>3. CASE A!OtherActiveOwner(u.account)
  <2> PICK other \in Accounts \ {u.account} : A!IsActiveOwner(other)
    BY <1>3 DEF A!OtherActiveOwner
  <2>1. status'[other] = status[other] /\ rank'[other] = rank[other]
    BY <1>2 DEF A!UpdateWrite, A!TypeOK
  <2> QED
    BY <2>1 DEF A!AnOwner, A!IsActiveOwner
<1>4. CASE ~A!OtherActiveOwner(u.account)
  <2>1. ~A!RemovesOwner(u.account, u.status, u.rank)
    BY <1>1, <1>4 DEF A!FreshIsSafe
  <2>2. A!IsActiveOwner(u.account)
    BY <1>1, <1>2, <1>4 DEF A!OwnerUnlessRaced, A!AnOwner, A!OtherActiveOwner
  <2>3. u.status # "suspended" /\ u.rank \in {"keep", "owner"}
    BY <2>1, <2>2 DEF A!RemovesOwner, A!IsActiveOwner
  <2>4. status'[u.account] = "active" /\ rank'[u.account] = "owner"
    BY <1>1, <1>2, <2>2, <2>3 DEF A!UpdateWrite, A!TypeOK, A!Updates, A!IsActiveOwner
  <2> QED
    BY <1>2, <2>4 DEF A!AnOwner, A!IsActiveOwner
<1> QED
  BY <1>3, <1>4

(* An active owner remains unless updates overlap. *)
THEOREM OwnerCorrect == IdentitySpec => []OwnerUnlessRaced
<1> DEFINE Inv == A!ReadIsOfAccount /\ A!FreshIsSafe /\ A!OwnerUnlessRaced
<1>1. A!Init => Inv
  BY DEF A!Init, A!ReadIsOfAccount, A!FreshIsSafe, A!OwnerUnlessRaced, A!Exists
<1>2. A!TypeOK /\ A!TypeOK' /\ Inv /\ [A!Next]_access => Inv'
  <2> SUFFICES ASSUME A!TypeOK, A!TypeOK', Inv, [A!Next]_access PROVE Inv'
    OBVIOUS
  <2>1. A!ReadIsOfAccount'
    BY ReadStays
  <2>2. A!FreshIsSafe' /\ A!OwnerUnlessRaced'
    <3>1. CASE \E s \in Servers : A!Server(s)
      <4>1. CASE UNCHANGED <<status, rank>>
        BY <3>1, <4>1
           DEF A!Server, A!BootLock, A!BootCount, A!BootCrash, A!BootInsert, A!FreshIsSafe,
           A!OwnerUnlessRaced, A!RemovesOwner, A!OtherActiveOwner, A!AnOwner, A!IsActiveOwner, A!Exists
      <4>2. ASSUME NEW s \in Servers, NEW a \in Accounts, A!BootInsert(s, a)
            PROVE  A!FreshIsSafe' /\ A!OwnerUnlessRaced'
        <5>1. A!FreshIsSafe'
          BY <4>2, NewAccount DEF A!BootInsert, A!TypeOK
        <5>2. A!IsActiveOwner(a)'
          BY <4>2 DEF A!BootInsert, A!IsActiveOwner, A!TypeOK
        <5> QED
          BY <5>1, <5>2 DEF A!OwnerUnlessRaced, A!AnOwner
      <4> QED
        BY <3>1, <4>1, <4>2 DEF A!Server, A!BootLock, A!BootCount, A!BootCrash
    <3>2. ASSUME NEW actor \in Accounts, NEW a \in Accounts, NEW k \in A!Ranks,
                 A!CreateAccount(actor, a, k)
          PROVE  A!FreshIsSafe' /\ A!OwnerUnlessRaced'
      <4>1. A!FreshIsSafe' /\ (A!AnOwner => A!AnOwner')
        BY <3>2, NewAccount DEF A!CreateAccount, A!TypeOK
      <4>2. A!Exists(actor) /\ raced' = raced
        BY <3>2 DEF A!CreateAccount, A!Administers, A!Exists
      <4> QED
        BY <4>1, <4>2 DEF A!OwnerUnlessRaced
    <3>3. CASE \E r \in Requests : A!Update(r)
      <4> PICK r \in Requests : A!Update(r)
        BY <3>3
      <4>1. CASE A!UpdateWrite(r)
        BY <4>1, WriteKeepsAnOwner DEF A!UpdateWrite, A!FreshIsSafe, A!OwnerUnlessRaced
      <4>2. CASE A!UpdateRead(r) \/ A!UpdateCount(r)
        <5>1. A!OwnerUnlessRaced'
          BY <4>2 DEF A!UpdateRead, A!UpdateCount, A!GoOn, A!End, A!OwnerUnlessRaced, A!AnOwner,
                      A!IsActiveOwner, A!Exists
        <5>2. ASSUME NEW q \in fresh', request'[q].step = "write"
              PROVE  \/ ~A!RemovesOwner(request'[q].account, request'[q].status, request'[q].rank)
                     \/ A!OtherActiveOwner(request'[q].account)
          <6>1. CASE q # r
            BY <4>2, <5>2, <6>1
               DEF A!UpdateRead, A!UpdateCount, A!GoOn, A!End, A!FreshIsSafe, A!TypeOK
          <6>2. CASE q = r /\ A!UpdateRead(r)
            BY <5>2, <6>2 DEF A!UpdateRead, A!TypeOK, A!Updates
          <6>3. CASE q = r /\ A!UpdateCount(r)
            BY <5>2, <6>3 DEF A!UpdateCount, A!GoOn, A!End, A!TypeOK, A!Updates
          <6> QED
            BY <4>2, <6>1, <6>2, <6>3
        <5>3. \A q \in fresh' : request'[q] # NoRequest
          <6>1. \A q \in fresh' : q # r => q \in fresh /\ request'[q] = request[q]
            BY <4>2 DEF A!UpdateRead, A!UpdateCount, A!GoOn, A!End, A!TypeOK
          <6>2. r \in fresh' => request'[r].step \in {"count", "write"} /\ request'[r] \in A!Updates
            BY <4>2 DEF A!UpdateRead, A!UpdateCount, A!GoOn, A!End, A!TypeOK, A!Updates
          <6> QED
            BY <6>1, <6>2, Nulls DEF A!FreshIsSafe
        <5>4. UNCHANGED <<status, rank>>
          BY <4>2 DEF A!UpdateRead, A!UpdateCount, A!GoOn, A!End
        <5> QED
          BY <5>1, <5>2, <5>3, <5>4
             DEF A!FreshIsSafe, A!RemovesOwner, A!OtherActiveOwner, A!IsActiveOwner
      <4>4. CASE ~A!UpdateWrite(r) /\ ~A!UpdateRead(r) /\ ~A!UpdateCount(r)
        BY <4>4 DEF A!Update, A!UpdateBegin, A!Abort, A!End, A!FreshIsSafe, A!OwnerUnlessRaced,
                    A!RemovesOwner,
           A!OtherActiveOwner, A!AnOwner, A!IsActiveOwner, A!Exists, A!TypeOK
      <4> QED
        BY <4>1, <4>2, <4>4
    <3>4. CASE UNCHANGED access
      BY <3>4 DEF access, A!FreshIsSafe, A!OwnerUnlessRaced, A!RemovesOwner,
         A!OtherActiveOwner, A!AnOwner, A!IsActiveOwner, A!Exists
    <3> QED
      BY <3>1, <3>2, <3>3, <3>4 DEF A!Next
  <2> QED
    BY <2>1, <2>2
<1>3. Inv => OwnerUnlessRaced
  BY DEF OwnerUnlessRaced, AnOwner, IsActiveOwner, Exists,
         A!OwnerUnlessRaced, A!AnOwner, A!IsActiveOwner, A!Exists
<1> QED
  BY <1>1, <1>2, <1>3, AccessTyped, Halves, PTL DEF IdentitySpec
=============================================================================
