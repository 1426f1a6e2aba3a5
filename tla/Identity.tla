------------------------------ MODULE Identity ------------------------------
(* The two halves of the identity package, which share no state: the        *)
(* credentials of one account, and who administers the system.  A behaviour *)
(* is one of the half that "part" names.                                    *)
EXTENDS Credentials, AccessState

VARIABLE part

access == <<status, rank, boot, lock, request, fresh, bootstrapped, raced>>
credentials == <<password, session, since, overtaken, links, email, announced, call>>

A == INSTANCE Access

IdentityInit == part \in {"access", "credentials"} /\ Init /\ A!Init

IdentityNext ==
  \/ part = "credentials" /\ Next /\ UNCHANGED <<part, access>>
  \/ part = "access" /\ A!Next /\ UNCHANGED <<part, credentials>>

IdentitySpec == IdentityInit /\ [][IdentityNext]_<<part, access, credentials>>
=============================================================================
