----------------------------- MODULE Dictionary ------------------------------
(***************************************************************************)
(* A dictionary, its value type and its items (metadata_dictionaries,      *)
(* metadata_dictionary_items), and the requests that edit or import them.  *)
(***************************************************************************)
CONSTANTS
  Items,      (* the items the dictionary may have                          *)
  Documents,  (* what may be imported: the value type and some items' values*)
  Requests    (* requests in flight at the same time                        *)

VARIABLES
  valueType,  (* value_type                                                 *)
  value,      (* what the value of each item is, or Absent                  *)
  request,    (* what each request has checked and is about to write        *)
  stale,      (* history: requests whose checks a write has overtaken       *)
  overlapped  (* history: one of them has written                           *)

vars == <<valueType, value, request, stale, overlapped>>
tables == <<valueType, value>>
history == <<stale, overlapped>>

Absent == "absent"
Idle == [op |-> "idle"]
Values == {"string", "number", "other"}
Types == {"string", "number", "json"}
Present == {i \in Items : value[i] # Absent}

(* validateValue: any value is one of json.                                 *)
Matches(type, v) == type = "json" \/ v = type

Become(r, state) == request' = [request EXCEPT ![r] = state]

Written(r) ==
  /\ Become(r, Idle)
  /\ overlapped' = (overlapped \/ r \in stale)
  /\ stale' = {q \in Requests \ {r} : request[q] # Idle}

Init ==
  /\ valueType \in Types
  /\ value = [i \in Items |-> Absent]
  /\ request = [r \in Requests |-> Idle]
  /\ stale = {}
  /\ overlapped = FALSE

(* createDictionaryItem and updateDictionaryItem validate the value against *)
(* the dictionary they read, ...                                            *)
BeginItem(r, op, i, v) ==
  /\ request[r] = Idle
  /\ op = "create" <=> i \notin Present
  /\ Matches(valueType, v)
  /\ Become(r, [op |-> op, item |-> i, value |-> v])
  /\ UNCHANGED <<tables, history>>

(* ... and write the item in a later statement.                             *)
WriteItem(r) ==
  /\ request[r].op \in {"create", "update"}
  /\ request[r].op = "create" => request[r].item \notin Present
  /\ value' = [value EXCEPT ![request[r].item] = request[r].value]
  /\ Written(r)
  /\ UNCHANGED valueType

(* A plausible bug: the items are not counted.                              *)
BeginUpdateUncounted(r, type) ==
  /\ request[r] = Idle
  /\ Become(r, [op |-> "retype", type |-> type])
  /\ UNCHANGED <<tables, history>>

(* updateDictionary counts the items before it changes the value type.      *)
BeginUpdate(r, type) ==
  /\ request[r] = Idle
  /\ type # valueType => Present = {}
  /\ Become(r, [op |-> "retype", type |-> type])
  /\ UNCHANGED <<tables, history>>

UpdateDictionary(r) ==
  /\ request[r].op = "retype"
  /\ valueType' = request[r].type
  /\ Written(r)
  /\ UNCHANGED value

(* The preview of an import, in its transaction: the type of an existing    *)
(* dictionary is not changed, every value has the type of the document.     *)
BeginImport(r, document) ==
  /\ request[r] = Idle
  /\ document.type = valueType
  /\ \A i \in DOMAIN document.values : Matches(document.type, document.values[i])
  /\ Become(r, [op |-> "import", values |-> document.values])
  /\ UNCHANGED <<tables, history>>

(* apply writes the items that are listed and leaves the type as it is.     *)
Import(r) ==
  /\ request[r].op = "import"
  /\ LET new == request[r].values IN
     value' = [i \in Items |-> IF i \in DOMAIN new THEN new[i] ELSE value[i]]
  /\ Written(r)
  /\ UNCHANGED valueType

(* The index refuses, a statement fails or the server dies.                 *)
Abandon(r) ==
  /\ request[r] # Idle
  /\ Become(r, Idle)
  /\ stale' = stale \ {r}
  /\ UNCHANGED <<tables, overlapped>>

Next ==
  \E r \in Requests :
    \/ \E op \in {"create", "update"}, i \in Items, v \in Values : BeginItem(r, op, i, v)
    \/ WriteItem(r)
    \/ \E type \in Types : BeginUpdate(r, type)
    \/ UpdateDictionary(r)
    \/ \E document \in Documents : BeginImport(r, document)
    \/ Import(r)
    \/ Abandon(r)

Spec == Init /\ [][Next]_vars

-----------------------------------------------------------------------------
(* Every variable has its type.                                             *)
TypeOK ==
  /\ valueType \in Types
  /\ value \in [Items -> Values \cup {Absent}]
  /\ DOMAIN request = Requests
  /\ stale \subseteq {r \in Requests : request[r] # Idle}
  /\ overlapped \in BOOLEAN

(* Every item has a value of the type of its dictionary, which readers of   *)
(* the dictionary rely on, unless a request wrote after the table had been  *)
(* written under the check it made.                                         *)
ItemsMatchType == overlapped \/ \A i \in Present : Matches(valueType, value[i])
=============================================================================
