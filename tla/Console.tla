------------------------------ MODULE Console -------------------------------
(***************************************************************************)
(* The administrators' console in one browser: the account that it shows,  *)
(* the pages, and what they ask of the server.  The console decides what   *)
(* it shows by the permissions it was told when it asked for the account;  *)
(* the server decides every request by those the account has then.        *)
(***************************************************************************)
EXTENDS AdminPages

CONSTANTS
  First, Second,   (* the accounts that may sign in                         *)
  NoUser           (* nobody                                                *)

Users == {First, Second}

VARIABLES
  granted,    (* the permissions of each account, at the server             *)
  must,       (* the accounts that must change their password               *)
  session,    (* whose live session the browser's cookie names              *)
  account,    (* what the console shows: the user and what it was told      *)
  loading,    (* the first question for the account is not settled          *)
  asked,      (* per question for the account: idle, asked, or its answer   *)
  page,       (* where the browser is                                       *)
  call,       (* a request of a page, and what the console knew             *)
  found,      (* where the results of the search lead, and for what account *)
  changed,    (* history: the permissions of First were taken away          *)
  ended,      (* history: the session ended while the console was open      *)
  overlapped, (* history: a refresh was under way at a sign-out             *)
  refused     (* history: what was shown and has just been refused          *)

vars == <<granted, must, session, account, loading, asked, page, call, found,
          changed, ended, overlapped, refused>>
auth == <<granted, must, session, account, loading, asked, changed, ended, overlapped>>
server == <<granted, must, session, changed, ended>>

Nobody == [user |-> NoUser, must |-> FALSE, known |-> {}]
Told(u) == [user |-> u, must |-> u \in must, known |-> granted[u]]
Idle == [step |-> "idle"]
Asked == [step |-> "asked"]
Failed == [step |-> "failed"]
Answer(a) == [step |-> "answered", account |-> a]
NoResults == [known |-> {}, pages |-> {}]
NoCall == [page |-> "none", what |-> "nothing", known |-> {}]

-----------------------------------------------------------------------------
(* The accounts worth telling apart, for the page at which the browser is  *)
(* opened: one that may see it and nothing more, one that may do one more  *)
(* thing that it asks for, one that may do everything, and one that is no  *)
(* administrator.                                                          *)
Opens(p) == {"admin.access", Pages[p]}
Extras(p) == {e \in Permissions : \E c \in Asks(p, Permissions) : Demands(c, e)}
Profiles(p) ==
  {Opens(p) \union {e} : e \in Extras(p) \union {Pages[p]}} \union {Permissions, {}}

Init ==
  /\ page \in DOMAIN Pages
  /\ granted \in {[u \in Users |-> g] : g \in Profiles(page)}
  /\ must \in IF page = "account" THEN SUBSET {First} ELSE {{}}
  /\ session \in IF page = "account" THEN {First, NoUser} ELSE {First}
  /\ account = Nobody
  /\ loading = TRUE
  /\ asked = [q \in {"initial", "refresh", "login", "logout"} |-> IF q = "initial" THEN Asked ELSE Idle]
  /\ call = NoCall
  /\ found = NoResults
  /\ changed = FALSE
  /\ ended = FALSE
  /\ overlapped = FALSE
  /\ refused = {}

-----------------------------------------------------------------------------
(* The server's answers to the questions for the account.                  *)
Settle(q, answer) == asked' = [asked EXCEPT ![q] = answer]

(* Bound: a page asks while no question for the account is under way, and  *)
(* no question is asked while a page waits.  Neither reads what the other  *)
(* changes, but for what the console knows, which a call carries.          *)
Unasked == \A q \in DOMAIN asked : asked[q] = Idle

(* Bound: signing in, signing out and the end of a session are looked at   *)
(* from one address, for accounts that may do the same little.             *)
AtTheDoor == page = "account" /\ call = NoCall /\ granted[Second] = Opens("account")

Quiet == UNCHANGED <<page, call, found>> /\ refused' = {}

AnswerAccount(q) ==
  /\ q \in {"initial", "refresh"}
  /\ asked[q] = Asked
  /\ Settle(q, IF session = NoUser THEN Failed ELSE Answer(Told(session)))
  /\ UNCHANGED <<server, account, loading, overlapped>> /\ Quiet

AnswerLogin(u) ==
  /\ asked["login"] = Asked
  /\ session' = u
  /\ ended' = FALSE
  /\ Settle("login", Answer(Told(u)))
  /\ UNCHANGED <<granted, must, account, loading, changed, overlapped>> /\ Quiet

AnswerLogout ==
  /\ asked["logout"] = Asked
  /\ session' = NoUser
  /\ Settle("logout", Answer(Nobody))
  /\ UNCHANGED <<granted, must, account, loading, changed, ended, overlapped>> /\ Quiet

(* A request is lost, or the server is not there.                          *)
Lose(q) ==
  /\ asked[q] = Asked
  /\ Settle(q, Failed)
  /\ UNCHANGED <<server, account, loading, overlapped>> /\ Quiet

-----------------------------------------------------------------------------
(* AdminAuthProvider: what it does with the answers.                       *)
Settled(q) == asked[q] \notin {Idle, Asked}
Answered(q) == Settled(q) /\ asked[q] # Failed

LandInitial ==
  /\ Settled("initial")
  /\ account' = IF Answered("initial") THEN asked["initial"].account ELSE Nobody
  /\ loading' = FALSE
  /\ Settle("initial", Idle)
  /\ UNCHANGED <<server, overlapped>> /\ Quiet

(* A refresh that fails leaves the account as it is.                       *)
LandRefresh ==
  /\ Settled("refresh")
  /\ account' = IF Answered("refresh") THEN asked["refresh"].account ELSE account
  /\ Settle("refresh", Idle)
  /\ UNCHANGED <<server, loading, overlapped>> /\ Quiet

AskLogin ==
  /\ ~loading /\ account = Nobody
  /\ asked["login"] = Idle /\ AtTheDoor
  /\ Settle("login", Asked)
  /\ UNCHANGED <<server, account, loading, overlapped>> /\ Quiet

LandLogin ==
  /\ Settled("login")
  /\ account' = IF Answered("login") THEN asked["login"].account ELSE account
  /\ overlapped' = (overlapped \/ (Answered("login") /\ asked["refresh"] # Idle))
  /\ Settle("login", Idle)
  /\ UNCHANGED <<server, loading>> /\ Quiet

(* A plausible bug: the account is gone from the screen before the server   *)
(* is asked.                                                               *)
AskLogoutEager ==
  /\ account # Nobody
  /\ asked["logout"] = Idle /\ AtTheDoor
  /\ account' = Nobody
  /\ Settle("logout", Asked)
  /\ UNCHANGED <<server, loading, overlapped>> /\ Quiet

AskLogout ==
  /\ account # Nobody
  /\ asked["logout"] = Idle /\ AtTheDoor
  /\ Settle("logout", Asked)
  /\ UNCHANGED <<server, account, loading, overlapped>> /\ Quiet

(* Whether or not the server answered, the account is gone from the screen.*)
LandLogout ==
  /\ Settled("logout")
  /\ account' = Nobody
  /\ overlapped' = (overlapped \/ asked["refresh"] # Idle)
  /\ Settle("logout", Idle)
  /\ found' = NoResults
  /\ refused' = {}
  /\ UNCHANGED <<server, loading, page, call>>

-----------------------------------------------------------------------------
(* RoutedApp: what is on the screen.                                       *)
Entered == account # Nobody /\ ~account.must /\ "admin.access" \in account.known
Mounted == Entered /\ Pages[page] \in account.known

(* The password is changed on the account's page or because it must be,    *)
(* the profile on the account's page; then the account is asked for again. *)
ChangeAccount ==
  /\ account # Nobody
  /\ account.must \/ (Mounted /\ page = "account")
  /\ session = account.user
  /\ asked["refresh"] = Idle /\ call = NoCall
  /\ must' = must \ {session}
  /\ Settle("refresh", Asked)
  /\ UNCHANGED <<granted, session, account, loading, changed, ended, overlapped>> /\ Quiet

(* A page asks for something, when it is opened or when it is told to.     *)
Ask(c) ==
  /\ Mounted /\ c \in Asks(page, account.known)
  /\ Unasked /\ call = NoCall
  /\ call' = [page |-> page, what |-> c, known |-> account.known]
  /\ refused' = {}
  /\ UNCHANGED <<auth, page, found>>

(* The server decides by what the account is granted now.  A refusal is    *)
(* none of the console's doing when it was told something else.            *)
Serve ==
  /\ call # NoCall
  /\ LET may == IF session = NoUser THEN {} ELSE granted[session]
         answered == session # NoUser /\ Answers(call.what, may) IN
       /\ found' = IF answered /\ call.what = "searchResources"
                     THEN [known |-> call.known, pages |-> Found(may)] ELSE found
       /\ refused' = IF ~answered /\ call.known = may
                       THEN {<<call.page, call.what>>} ELSE {}
  /\ call' = NoCall
  /\ UNCHANGED <<auth, page>>

(* A link of the page, of the shell or of the results.                     *)
Follow(p) ==
  /\ Mounted
  /\ \/ p \in Links(page, account.known)
     \/ p \in found.pages
  /\ page' = p
  /\ refused' = IF Pages[p] \notin account.known
                   /\ (p \in Links(page, account.known) \/ found.known = account.known)
                  THEN {<<page, p>>} ELSE {}
  /\ found' = NoResults
  /\ UNCHANGED <<auth, call>>

-----------------------------------------------------------------------------
(* Meanwhile: the permissions are taken away, or the session ends.         *)
Revoke ==
  /\ ~changed
  /\ granted' = [granted EXCEPT ![First] = {}]
  /\ changed' = TRUE
  /\ UNCHANGED <<must, session, account, loading, asked, ended, overlapped>> /\ Quiet

End ==
  /\ session # NoUser /\ AtTheDoor
  /\ session' = NoUser
  /\ ended' = TRUE
  /\ UNCHANGED <<granted, must, account, loading, asked, changed, overlapped>> /\ Quiet

Browser ==
  \/ LandInitial \/ LandRefresh \/ LandLogin \/ LandLogout
  \/ AskLogin \/ AskLogout \/ ChangeAccount
  \/ \E p \in DOMAIN Pages : Follow(p)
  \/ \E c \in Calls : Ask(c)

Server ==
  \/ \E q \in {"initial", "refresh"} : AnswerAccount(q)
  \/ \E u \in Users : AnswerLogin(u)
  \/ AnswerLogout \/ Serve \/ End
  \/ \E q \in DOMAIN asked : Lose(q)
  \/ Revoke

Next == Browser \/ Server

Spec == Init /\ [][Next]_vars

-----------------------------------------------------------------------------
(* The console shows the account whose session its requests are made with, *)
(* as long as the session was not ended elsewhere, the server's answer to  *)
(* a sign-out is not on its way, and no refresh was under way when the     *)
(* account was exchanged.                                                  *)
AccountIsOfSession ==
  account # Nobody /\ ~ended /\ ~overlapped /\ ~Settled("logout") => session = account.user

(* What the pages of the console offer to everybody who may open them.     *)
Ungated ==
  {<<"access", c>> : c \in {"fetchAccessRoles", "fetchAccessPermissions"}}
  \union {<<"integrations", c>> : c \in SubmitConnection \union SubmitTests \union OperateConnection}
  \union {<<"operations", c>> : c \in OperationRows}
  \union {<<"observability", c>> : c \in IncidentRows}
  \union {<<"account", "fetchAssets">>, <<"presentation", "fetchAssets">>}
  \union {<<"cms", c>> : c \in {"listAssets", "getPresentation", "listTaxonomies", "listTaxonomyTerms"}}
  \union {<<"help", p>> : p \in Workflows} \union {<<"home", "cms">>}

(* An account that nobody changed is refused nothing of what it is shown,  *)
(* but what is shown to everybody.                                         *)
ShownIsAllowed == refused \subseteq Ungated
=============================================================================
