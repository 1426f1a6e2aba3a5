------------------------------ MODULE Revisions ------------------------------
(***************************************************************************)
(* System settings and the presentation profile: a row with a version and  *)
(* a history of the versions, written together in one transaction.  The    *)
(* database runs transactions at READ COMMITTED: a statement sees what is  *)
(* committed when it starts, and waits for the lock of a row it writes.    *)
(***************************************************************************)
EXTENDS Naturals, FiniteSets

CONSTANTS
  Requests,   (* requests in flight at the same time                        *)
  Values,     (* what may be saved                                          *)
  VersionCap  (* bound on the versions of a row                             *)

VARIABLES
  current,    (* the committed row: its version, 0 without a row, and value *)
  versions,   (* the committed history rows                                 *)
  locked,     (* the transaction that has written or locked the row         *)
  request     (* what each request has read and written                     *)

vars == <<current, versions, locked, request>>
tables == <<current, versions>>

Rows == {"setting", "profile"}
Idle == [at |-> "idle"]
Nobody == "nobody"

Init ==
  /\ current = [k \in Rows |-> [version |-> 0, value |-> "default"]]
  /\ versions = [k \in Rows |-> {}]
  /\ locked = [k \in Rows |-> Nobody]
  /\ request = [r \in Requests |-> Idle]

Become(r, state) == request' = [request EXCEPT ![r] = state]
At(r, at) == request[r].at = at
Free(k) == locked[k] = Nobody
Exists(k) == current[k].version > 0

Abort(r) ==
  /\ Become(r, Idle)
  /\ locked' = [k \in Rows |-> IF locked[k] = r THEN Nobody ELSE locked[k]]
  /\ UNCHANGED tables

-----------------------------------------------------------------------------
(* SettingsService.update looks whether the row exists ...                  *)
BeginSetting(r, value) ==
  /\ request[r] = Idle
  /\ current["setting"].version < VersionCap
  /\ Become(r, [at |-> "write", row |-> "setting", value |-> value,
                exists |-> Exists("setting")])
  /\ UNCHANGED <<tables, locked>>

(* ... and adds one to the version of the row it finds, or inserts the      *)
(* first, unless another request has done so.                               *)
WriteSetting(r) ==
  /\ At(r, "write")
  /\ Free("setting")
  /\ IF request[r].exists \/ ~Exists("setting")
     THEN /\ locked' = [locked EXCEPT !["setting"] = r]
          /\ Become(r, [at |-> "append", row |-> "setting", value |-> request[r].value,
                        version |-> current["setting"].version + 1])
          /\ UNCHANGED tables
     ELSE Abort(r)

(* PresentationService.update reads the version for update.  Without a      *)
(* committed row nothing is locked, ...                                     *)
BeginProfile(r, value) ==
  /\ request[r] = Idle
  /\ current["profile"].version < VersionCap
  /\ Exists("profile") => Free("profile")
  /\ locked' = IF Exists("profile") THEN [locked EXCEPT !["profile"] = r] ELSE locked
  /\ Become(r, [at |-> "upsert", row |-> "profile", value |-> value,
                version |-> current["profile"].version + 1])
  /\ UNCHANGED tables

(* ... so that the upsert may overwrite a row that was not there before.    *)
UpsertProfile(r) ==
  /\ At(r, "upsert")
  /\ locked["profile"] \in {Nobody, r}
  /\ locked' = [locked EXCEPT !["profile"] = r]
  /\ Become(r, [request[r] EXCEPT !.at = "append"])
  /\ UNCHANGED tables

(* A plausible bug: the history has no unique index.                        *)
CommitUnindexed(r) ==
  /\ At(r, "append")
  /\ LET row == request[r].row
         saved == [version |-> request[r].version, value |-> request[r].value]
     IN /\ current' = [current EXCEPT ![row] = saved]
        /\ versions' = [versions EXCEPT ![row] = @ \cup {saved}]
        /\ locked' = [locked EXCEPT ![row] = Nobody]
        /\ Become(r, Idle)

(* The history has one row of each version: a second one ends the           *)
(* transaction, which takes the write back.                                 *)
Commit(r) ==
  /\ At(r, "append")
  /\ LET row == request[r].row
         saved == [version |-> request[r].version, value |-> request[r].value]
     IN IF \A v \in versions[row] : v.version # saved.version
        THEN /\ current' = [current EXCEPT ![row] = saved]
             /\ versions' = [versions EXCEPT ![row] = @ \cup {saved}]
             /\ locked' = [locked EXCEPT ![row] = Nobody]
             /\ Become(r, Idle)
        ELSE Abort(r)

(* A statement fails or the server dies.                                    *)
Rollback(r) == request[r] # Idle /\ Abort(r)

Next ==
  \E r \in Requests :
    \/ \E value \in Values : BeginSetting(r, value) \/ BeginProfile(r, value)
    \/ WriteSetting(r)
    \/ UpsertProfile(r)
    \/ Commit(r)
    \/ Rollback(r)

Spec == Init /\ [][Next]_vars

-----------------------------------------------------------------------------
(* The history tells how the row came to be: it has one row for each        *)
(* version up to the current one, and the last has the current value,       *)
(* whichever first, later and failed saves overlap.                         *)
HistoryIsComplete ==
  \A k \in Rows :
    /\ {v.version : v \in versions[k]} = 1..current[k].version
    /\ Cardinality(versions[k]) = current[k].version
    /\ Exists(k) => current[k] \in versions[k]
=============================================================================
