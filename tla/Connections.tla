----------------------------- MODULE Connections -----------------------------
(***************************************************************************)
(* A connection to an external service (integration_connections), the      *)
(* requests that change, test and enable it, and the operations executed   *)
(* through it (mail, payments, storage, AI).  Every request reads the row  *)
(* first and writes it by id after its last await.                         *)
(***************************************************************************)
EXTENDS Naturals

CONSTANTS
  Requests,   (* requests in flight at the same time                        *)
  RevisionCap (* bound on the changes of the configuration                  *)

VARIABLES
  revision,   (* which configuration and credentials the row has            *)
  enabled,    (* enabled                                                    *)
  lastTest,   (* last_test_status, "none" for NULL                          *)
  request,    (* what each request has read and is doing                    *)
  passed,     (* history: the revisions that passed a test                  *)
  overtaken   (* history: an outcome or an enabling was written to a row    *)
              (* whose configuration had changed since it was read          *)

row == <<revision, enabled, lastTest>>
history == <<passed, overtaken>>
vars == <<row, request, history>>

Idle == [op |-> "idle"]
States ==
  {Idle}
  \cup [op : {"change", "enable", "disable", "test", "execute"}, revision : Nat]
  \cup [op : {"tested"}, revision : Nat, ok : BOOLEAN]
  \cup [op : {"record"}, done : BOOLEAN, ok : BOOLEAN]

Become(r, state) == request' = [request EXCEPT ![r] = state]
Unchanged(r) == request[r].revision = revision

(* createConnection: disabled and not tested, whatever the input says.      *)
Init ==
  /\ revision = 0
  /\ enabled = FALSE
  /\ lastTest = "none"
  /\ request = [r \in Requests |-> Idle]
  /\ passed = {}
  /\ overtaken = FALSE

-----------------------------------------------------------------------------
(* updateConnection reads the row; it refuses to enable a connection whose  *)
(* last test did not succeed, or together with a change.                    *)
BeginUpdate(r, op) ==
  /\ request[r] = Idle
  /\ op = "enable" => lastTest = "success"
  /\ Become(r, [op |-> op, revision |-> revision])
  /\ UNCHANGED <<row, history>>

(* A plausible bug: a change leaves the connection as it was tested.        *)
ChangeKeepingTest(r) ==
  /\ request[r].op = "change"
  /\ revision < RevisionCap
  /\ revision' = revision + 1
  /\ Become(r, Idle)
  /\ UNCHANGED <<enabled, lastTest, history>>

(* New configuration or credentials disable the connection and clear the    *)
(* outcome of its test.                                                     *)
Change(r) ==
  /\ request[r].op = "change"
  /\ revision < RevisionCap
  /\ revision' = revision + 1
  /\ enabled' = FALSE
  /\ lastTest' = "none"
  /\ Become(r, Idle)
  /\ UNCHANGED history

(* The column enabled is written whatever the row has become.               *)
SetEnabled(r) ==
  /\ request[r].op \in {"enable", "disable"}
  /\ enabled' = (request[r].op = "enable")
  /\ overtaken' = (overtaken \/ (enabled' /\ ~Unchanged(r)))
  /\ Become(r, Idle)
  /\ UNCHANGED <<revision, lastTest, passed>>

(* testConnection asks the provider with what it read, within 15 seconds ...*)
BeginTest(r) ==
  /\ request[r] = Idle
  /\ Become(r, [op |-> "test", revision |-> revision])
  /\ UNCHANGED <<row, history>>

TestAnswered(r, ok) ==
  /\ request[r].op = "test"
  /\ passed' = IF ok THEN passed \cup {request[r].revision} ELSE passed
  /\ Become(r, [op |-> "tested", revision |-> request[r].revision, ok |-> ok])
  /\ UNCHANGED <<row, overtaken>>

(* ... and finishTest writes the outcome by id.                             *)
FinishTest(r) ==
  /\ request[r].op = "tested"
  /\ lastTest' = IF request[r].ok THEN "success" ELSE "failure"
  /\ overtaken' = (overtaken \/ (request[r].ok /\ ~Unchanged(r)))
  /\ Become(r, Idle)
  /\ UNCHANGED <<revision, enabled, passed>>

-----------------------------------------------------------------------------
(* executeConnection: an operation of an enabled connection.                *)
BeginExecute(r) ==
  /\ request[r] = Idle
  /\ enabled
  /\ Become(r, [op |-> "execute", revision |-> revision])
  /\ UNCHANGED <<row, history>>

(* The service does what is asked or not; an answer that takes more than 30 *)
(* seconds is an error, whatever the service did.                           *)
Answered(r, done, ok) ==
  /\ request[r].op = "execute"
  /\ ok => done
  /\ Become(r, [op |-> "record", done |-> done, ok |-> ok])
  /\ UNCHANGED <<row, history>>

(* recordOperation appends an event, and the caller gets the answer.        *)
Record(r) ==
  /\ request[r].op = "record"
  /\ Become(r, Idle)
  /\ UNCHANGED <<row, history>>

(* Recording a success fails inside the try: the catch records a failure,   *)
(* and the caller is told of one, although the service did what was asked.  *)
RecordFails(r) ==
  /\ request[r].op = "record"
  /\ Become(r, IF request[r].ok
               THEN [op |-> "record", done |-> request[r].done, ok |-> FALSE] ELSE Idle)
  /\ UNCHANGED <<row, history>>

Crash(r) ==
  /\ request[r] # Idle
  /\ Become(r, Idle)
  /\ UNCHANGED <<row, history>>

Next ==
  \E r \in Requests :
    \/ \E op \in {"change", "enable", "disable"} : BeginUpdate(r, op)
    \/ Change(r)
    \/ SetEnabled(r)
    \/ BeginTest(r)
    \/ \E ok \in BOOLEAN : TestAnswered(r, ok)
    \/ FinishTest(r)
    \/ BeginExecute(r)
    \/ \E done, ok \in BOOLEAN : Answered(r, done, ok)
    \/ Record(r)
    \/ RecordFails(r)
    \/ Crash(r)

Spec == Init /\ [][Next]_vars

-----------------------------------------------------------------------------
(* Every variable has its type.                                             *)
TypeOK ==
  /\ revision \in Nat
  /\ enabled \in BOOLEAN
  /\ lastTest \in {"none", "success", "failure"}
  /\ request \in [Requests -> States]
  /\ passed \subseteq Nat
  /\ overtaken \in BOOLEAN

(* docs/integration-foundation.md: a connection is enabled only after its   *)
(* current configuration passed a test, and what it executes runs with a    *)
(* configuration that did.  It holds however updates and tests interleave,  *)
(* unless one of them wrote what it had read of a configuration that was    *)
(* replaced meanwhile.                                                      *)
EnabledIsTested ==
  \/ overtaken
  \/ /\ enabled => revision \in passed
     /\ \A r \in Requests : request[r].op = "execute" => request[r].revision \in passed

=============================================================================
