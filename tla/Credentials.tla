---------------------------- MODULE Credentials ----------------------------
(***************************************************************************)
(* The credentials of one active account: its password, its sessions, the  *)
(* single-use links that reset the password, accept an invitation or       *)
(* verify the email, and the event that announces a new password.          *)
(* Accounts do not interact.  An atomic step is one SQL statement or one   *)
(* transaction; the password is checked on what was read before it.        *)
(***************************************************************************)
EXTENDS Integers

CONSTANTS
  Sessions,      (* the sessions that may be created                        *)
  Tokens,        (* the links that may be issued                            *)
  Callers,       (* requests in flight at the same time                     *)
  NoCall,        (* a free request slot                                     *)
  MaxPasswords   (* bound: the number of password changes                   *)

ASSUME MaxPasswordsAssumption == MaxPasswords \in Nat

VARIABLES
  password,    (* the password, numbered by how often it was changed        *)
  session,     (* the state of each session; an expired one is "ended" too  *)
  since,       (* history: the password each session was last checked with  *)
  overtaken,   (* history: sessions created after the password that their   *)
               (* login checked was changed                                 *)
  token,       (* where each link stands: "issued" until it is in the mail  *)
               (* queue, "expired" once its expires_at has passed, or       *)
               (* "consumed" (consumed_at is set)                           *)
  purpose,     (* auth_security_challenges.purpose                          *)
  email,       (* accounts.email_verified_at                                *)
  uses,        (* history: how often each link did what it is for           *)
  announced,   (* history: the passwords whose event is in the outbox       *)
  call         (* what each request has read and is about to do             *)

links == <<token, purpose, uses>>
vars == <<password, session, since, overtaken, token, purpose, uses, email, announced, call>>

TokenStates == {"absent", "issued", "mailed", "expired", "consumed"}
Passwords == 0..MaxPasswords
Purposes == {"password_reset", "account_invitation", "email_verification"}

(* A request, and what it remembers between its statements. *)
Calls ==
  [op : {"login"}, seen : Passwords]
    \union [op : {"change"}, session : Sessions]
    \union [op : {"publish"}, of : Passwords]
    \union [op : {"ask"}, purpose : Purposes]
    \union [op : {"issue"}, purpose : Purposes, open : SUBSET Tokens]
    \union [op : {"deliver", "complete"}, token : Tokens]

ASSUME NullCallAssumption == NoCall \notin Calls

Init ==
  /\ password = 0
  /\ session = [s \in Sessions |-> "absent"]
  /\ since = [s \in Sessions |-> 0]
  /\ overtaken = {}
  /\ token = [t \in Tokens |-> "absent"]
  /\ purpose = [t \in Tokens |-> "password_reset"]
  /\ email = "unverified"
  /\ uses = [t \in Tokens |-> 0]
  /\ announced = {}
  /\ call = [c \in Callers |-> NoCall]

Idle(c) == call[c] = NoCall
Doing(c, op) == call[c] # NoCall /\ call[c].op = op
Begin(c, r) == Idle(c) /\ call' = [call EXCEPT ![c] = r]
GoOn(c, r) == call' = [call EXCEPT ![c] = r]
End(c) == GoOn(c, NoCall)
Live(s) == session[s] = "live"
-----------------------------------------------------------------------------
(* login reads the credential and verifies the password, with the slow     *)
(* hash, then creates the session with a statement of its own.             *)
LoginRead(c) ==
  /\ Begin(c, [op |-> "login", seen |-> password])
  /\ UNCHANGED <<password, session, since, overtaken, links, email, announced>>

LoginCreate(c, s) ==
  /\ Doing(c, "login")
  /\ session[s] = "absent"
  /\ session' = [session EXCEPT ![s] = "live"]
  /\ since' = [since EXCEPT ![s] = call[c].seen]
  /\ overtaken' = IF call[c].seen = password THEN overtaken ELSE overtaken \union {s}
  /\ End(c)
  /\ UNCHANGED <<password, links, email, announced>>

(* logout and revokeSession, or its expires_at passes. *)
EndSession(s) ==
  /\ Live(s)
  /\ session' = [session EXCEPT ![s] = "ended"]
  /\ UNCHANGED <<password, since, overtaken, links, email, announced, call>>

EndAllBut(keep) ==
  session' = [s \in Sessions |-> IF Live(s) /\ s \notin keep THEN "ended" ELSE session[s]]

RevokeOtherSessions(s) ==
  /\ Live(s)
  /\ EndAllBut({s})
  /\ UNCHANGED <<password, since, overtaken, links, email, announced, call>>

(* changePassword, authenticated by a session, verifies the password ...   *)
ChangeRead(c, s) ==
  /\ Live(s)
  /\ Begin(c, [op |-> "change", session |-> s])
  /\ UNCHANGED <<password, session, since, overtaken, links, email, announced>>

(* Mutant: the other sessions survive. *)
ChangeWriteKeepsSessions(c) ==
  /\ Doing(c, "change")
  /\ password < MaxPasswords
  /\ password' = password + 1
  /\ since' = [since EXCEPT ![call[c].session] = password + 1]
  /\ GoOn(c, [op |-> "publish", of |-> password + 1])
  /\ UNCHANGED <<session, overtaken, links, email, announced>>

(* ... and in one transaction sets the new one and ends the other sessions.*)
ChangeWrite(c) ==
  /\ Doing(c, "change")
  /\ password < MaxPasswords
  /\ password' = password + 1
  /\ EndAllBut({call[c].session})
  /\ since' = [since EXCEPT ![call[c].session] = password + 1]
  /\ overtaken' = overtaken \ {call[c].session}
  /\ GoOn(c, [op |-> "publish", of |-> password + 1])
  /\ UNCHANGED <<links, email, announced>>

(* The event is published after the transaction, by another statement.     *)
Publish(c) ==
  /\ Doing(c, "publish")
  /\ announced' = announced \union {call[c].of}
  /\ End(c)
  /\ UNCHANGED <<password, session, since, overtaken, links, email>>
-----------------------------------------------------------------------------
(* consumed_at IS NULL *)
Open(t) == token[t] \in {"issued", "mailed", "expired"}

(* A link is asked for: whatever but a reset wants an unverified email.    *)
Ask(c, p) ==
  /\ p # "password_reset" => email = "unverified"
  /\ Begin(c, [op |-> "ask", purpose |-> p])
  /\ UNCHANGED <<password, session, since, overtaken, links, email, announced>>

(* issueChallenge: a transaction that consumes the open links of the       *)
(* purpose, those its UPDATE can see ...                                   *)
IssueConsume(c) ==
  /\ Doing(c, "ask")
  /\ GoOn(c, [op |-> "issue", purpose |-> call[c].purpose,
              open |-> {t \in Tokens : Open(t) /\ purpose[t] = call[c].purpose}])
  /\ UNCHANGED <<password, session, since, overtaken, links, email, announced>>

(* ... and inserts the new one; both become visible when it commits.       *)
IssueInsert(c, t) ==
  /\ Doing(c, "issue")
  /\ token[t] = "absent"
  /\ token' = [u \in Tokens |-> IF u = t THEN "issued"
                                ELSE IF u \in call[c].open THEN "consumed" ELSE token[u]]
  /\ purpose' = [purpose EXCEPT ![t] = call[c].purpose]
  /\ GoOn(c, [op |-> "deliver", token |-> t])
  /\ UNCHANGED <<password, session, since, overtaken, uses, email, announced>>

(* Then it is queued as a mail ...                                         *)
Deliver(c) ==
  LET t == call[c].token IN
  /\ Doing(c, "deliver")
  /\ token' = IF token[t] = "issued" THEN [token EXCEPT ![t] = "mailed"] ELSE token
  /\ End(c)
  /\ UNCHANGED <<password, session, since, overtaken, purpose, uses, email, announced>>

(* ... or, where no mail is configured and none is required, consumed.     *)
DeliverNot(c) ==
  LET t == call[c].token IN
  /\ Doing(c, "deliver")
  /\ purpose[t] = "password_reset"
  /\ token' = [token EXCEPT ![t] = "consumed"]
  /\ End(c)
  /\ UNCHANGED <<password, session, since, overtaken, purpose, uses, email, announced>>

Expire(t) ==
  /\ token[t] \in {"issued", "mailed"}
  /\ token' = [token EXCEPT ![t] = "expired"]
  /\ UNCHANGED <<password, session, since, overtaken, purpose, uses, email, announced, call>>

(* consumeChallenge only looks the link up; the new password is hashed     *)
(* before the transaction that consumes it.                                *)
ConsumeChallenge(c, t) ==
  /\ token[t] = "mailed"
  /\ Begin(c, [op |-> "complete", token |-> t])
  /\ UNCHANGED <<password, session, since, overtaken, links, email, announced>>

Used(t) ==
  /\ token' = [token EXCEPT ![t] = "consumed"]
  /\ uses' = [uses EXCEPT ![t] = @ + 1]

(* Mutant: the transaction does not look at the link again. *)
FinishPasswordUnchecked(c) ==
  LET t == call[c].token IN
  /\ Doing(c, "complete")
  /\ purpose[t] # "email_verification"
  /\ password < MaxPasswords
  /\ password' = password + 1
  /\ EndAllBut({})
  /\ Used(t)
  /\ email' = IF purpose[t] = "account_invitation" THEN "verified" ELSE email
  /\ GoOn(c, [op |-> "publish", of |-> password + 1])
  /\ UNCHANGED <<since, overtaken, purpose, announced>>

(* resetPassword and acceptInvitation: a transaction that locks the link,  *)
(* rechecks that it was not used, and ends every session.                  *)
FinishPassword(c) ==
  LET t == call[c].token IN
  /\ Doing(c, "complete")
  /\ purpose[t] # "email_verification"
  /\ Open(t)
  /\ password < MaxPasswords
  /\ password' = password + 1
  /\ EndAllBut({})
  /\ Used(t)
  /\ email' = IF purpose[t] = "account_invitation" THEN "verified" ELSE email
  /\ GoOn(c, [op |-> "publish", of |-> password + 1])
  /\ UNCHANGED <<since, overtaken, purpose, announced>>

(* verifyEmail: consumed only where it is still open. *)
FinishVerification(c) ==
  LET t == call[c].token IN
  /\ Doing(c, "complete")
  /\ purpose[t] = "email_verification"
  /\ Open(t)
  /\ Used(t)
  /\ email' = "verified"
  /\ End(c)
  /\ UNCHANGED <<password, session, since, overtaken, purpose, announced>>

(* Any request may throw (a wrong password, a link that was used, a mail   *)
(* that cannot be sent) or lose its server before its next statement.      *)
Abort(c) ==
  /\ ~Idle(c)
  /\ End(c)
  /\ UNCHANGED <<password, session, since, overtaken, links, email, announced>>

Request(c) ==
  \/ LoginRead(c) \/ IssueConsume(c) \/ Publish(c) \/ Deliver(c) \/ DeliverNot(c)
  \/ ChangeWrite(c) \/ FinishPassword(c) \/ FinishVerification(c) \/ Abort(c)
  \/ \E s \in Sessions : LoginCreate(c, s) \/ ChangeRead(c, s)
  \/ \E p \in Purposes : Ask(c, p)
  \/ \E t \in Tokens : IssueInsert(c, t) \/ ConsumeChallenge(c, t)

Next ==
  \/ \E c \in Callers : Request(c)
  \/ \E s \in Sessions : EndSession(s) \/ RevokeOtherSessions(s)
  \/ \E t \in Tokens : Expire(t)

Spec == Init /\ [][Next]_vars

-----------------------------------------------------------------------------
(* Every variable has its type. *)
TypeOK ==
  /\ password \in Passwords
  /\ session \in [Sessions -> {"absent", "live", "ended"}]
  /\ since \in [Sessions -> Passwords]
  /\ overtaken \subseteq Sessions
  /\ token \in [Tokens -> TokenStates]
  /\ purpose \in [Tokens -> Purposes]
  /\ email \in {"unverified", "verified"}
  /\ uses \in [Tokens -> Nat]
  /\ announced \subseteq Passwords
  /\ call \in [Callers -> Calls \union {NoCall}]

(* A link works once, however many requests bring it at the same time. *)
LinkWorksOnce == \A t \in Tokens : uses[t] <= 1

(* A live session was opened, or confirmed, with the password of today,    *)
(* unless its login was overtaken by the change.                           *)
LiveSessionIsCurrent ==
  \A s \in Sessions \ overtaken : Live(s) => since[s] = password
=============================================================================
