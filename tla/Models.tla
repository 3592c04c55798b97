------------------------------- MODULE Models -------------------------------
(***************************************************************************)
(* The parsing helpers of src/python/src/agentic_identity/models.py,       *)
(* parse_receipt and parse_trust_grant, which turn the dict json.loads     *)
(* makes of a record the library returned into the frozen dataclasses     *)
(* ActionReceipt and TrustGrant; and the example script's reading of the   *)
(* grant it creates (src/examples/python_example.py).                      *)
(*                                                                         *)
(* A JSON object is a function from its keys to its values, an array a    *)
(* sequence, null the constant None.  Python's outcome of a call is the   *)
(* value it returned or the class of the exception it raised.              *)
(*                                                                         *)
(* The records themselves are made by the Rust core, not under src/: the  *)
(* logical records and their serialized forms are modelled from spec 3,   *)
(* 4.1 and the dicts the package's tests feed the parsers (spec-modelled). *)
(* One state is one receipt and one grant handed to the parsers; the next *)
(* state hands over another.                                               *)
(***************************************************************************)
EXTENDS Naturals, Sequences

CONSTANT None     \* JSON null / Python None

(* JSON object literals: the object {k: v}, and {**g, **f}, the keys of f *)
(* together with those of g that f lacks.                                  *)
Field(k, v) == [x \in {k} |-> v]

Merge(f, g) == [x \in DOMAIN f \cup DOMAIN g |-> IF x \in DOMAIN f THEN f[x] ELSE g[x]]

-----------------------------------------------------------------------------
(* models.py, ActionType: the values of its members.                       *)
ActionTypeValues ==
    {"decision", "observation", "mutation", "delegation", "revocation",
     "identity_operation", "custom"}

(* The fields of the ActionReceipt dataclass.                              *)
ReceiptFieldNames ==
    {"id", "actor", "actor_key", "action_type", "description", "timestamp",
     "signature", "receipt_hash", "data", "previous_receipt"}

(* ActionReceipt.is_chained                                                *)
IsChained(r) == r.previous_receipt # None

(* What a call did: returned a value, or raised an exception of a class.  *)
Returned(v) == [raised |-> "none", value |-> v]
Raised(cls) == [raised |-> cls, value |-> None]

(* dict.get(k, default): the value under k, even null, else the default.   *)
Get(d, k, default) == IF k \in DOMAIN d THEN d[k] ELSE default

(* The literal {}.                                                          *)
NoKeys == [k \in {} |-> None]

(* str.lower on the action type names the parser is handed.                *)
Lower == [Decision |-> "decision", Observation |-> "observation",
          Mutation |-> "mutation", Delegation |-> "delegation",
          Revocation |-> "revocation", IdentityOperation |-> "identityoperation",
          decision |-> "decision", observation |-> "observation",
          mutation |-> "mutation", delegation |-> "delegation",
          revocation |-> "revocation", identity_operation |-> "identity_operation",
          custom |-> "custom"]

(* Mutant: description and data read from the top level of the record.    *)
ParseReceiptFlat(data) ==
    LET actionType == Get(data, "action_type", "custom") IN
    IF actionType = None THEN Raised("AttributeError")
    ELSE Returned([id |-> Get(data, "id", ""), actor |-> Get(data, "actor", ""),
                   actor_key |-> Get(data, "actor_key", ""),
                   action_type |-> Lower[actionType],
                   description |-> Get(data, "description", ""),
                   timestamp |-> Get(data, "timestamp", 0),
                   signature |-> Get(data, "signature", ""),
                   receipt_hash |-> Get(data, "receipt_hash", ""),
                   data |-> Get(data, "data", None),
                   previous_receipt |-> Get(data, "previous_receipt", None)])

(* parse_receipt: `.lower()` of a null action_type, and `.get` on a null   *)
(* action, raise AttributeError; missing keys take the defaults.           *)
ParseReceipt(data) ==
    LET action     == Get(data, "action", NoKeys)
        actionType == Get(data, "action_type", "custom")
    IN  IF actionType = None \/ action = None THEN Raised("AttributeError")
        ELSE Returned([id |-> Get(data, "id", ""), actor |-> Get(data, "actor", ""),
                       actor_key |-> Get(data, "actor_key", ""),
                       action_type |-> Lower[actionType],
                       description |-> Get(action, "description", ""),
                       timestamp |-> Get(data, "timestamp", 0),
                       signature |-> Get(data, "signature", ""),
                       receipt_hash |-> Get(data, "receipt_hash", ""),
                       data |-> Get(action, "data", None),
                       previous_receipt |-> Get(data, "previous_receipt", None)])

(* Mutant: not_after copied from the not_before line.                      *)
ParseTrustGrantSwapped(data) ==
    LET constraints  == Get(data, "constraints", NoKeys)
        delegation   == Get(data, "delegation", NoKeys)
        capabilities == Get(data, "capabilities", <<>>)
    IN  IF capabilities = None THEN Raised("TypeError")
        ELSE IF constraints = None \/ delegation = None THEN Raised("AttributeError")
        ELSE Returned([id |-> Get(data, "id", ""), grantor |-> Get(data, "grantor", ""),
                       grantee |-> Get(data, "grantee", ""), capabilities |-> capabilities,
                       signature |-> Get(data, "signature", ""),
                       created_at |-> Get(data, "created_at", ""),
                       not_before |-> Get(constraints, "not_before", None),
                       not_after |-> Get(constraints, "not_before", None),
                       max_uses |-> Get(constraints, "max_uses", None),
                       delegation_allowed |-> Get(delegation, "allowed", FALSE),
                       max_delegation_depth |-> Get(delegation, "max_depth", 0)])

(* parse_trust_grant: `tuple(None)` raises TypeError, `.get` on a null     *)
(* constraints or delegation raises AttributeError; missing keys take the  *)
(* defaults.                                                               *)
ParseTrustGrant(data) ==
    LET constraints  == Get(data, "constraints", NoKeys)
        delegation   == Get(data, "delegation", NoKeys)
        capabilities == Get(data, "capabilities", <<>>)
    IN  IF capabilities = None THEN Raised("TypeError")
        ELSE IF constraints = None \/ delegation = None THEN Raised("AttributeError")
        ELSE Returned([id |-> Get(data, "id", ""), grantor |-> Get(data, "grantor", ""),
                       grantee |-> Get(data, "grantee", ""), capabilities |-> capabilities,
                       signature |-> Get(data, "signature", ""),
                       created_at |-> Get(data, "created_at", ""),
                       not_before |-> Get(constraints, "not_before", None),
                       not_after |-> Get(constraints, "not_after", None),
                       max_uses |-> Get(constraints, "max_uses", None),
                       delegation_allowed |-> Get(delegation, "allowed", FALSE),
                       max_delegation_depth |-> Get(delegation, "max_depth", 0)])

(* The example's `[c['uri'] for c in grant.get('capabilities', [])]`:      *)
(* iterating null raises TypeError, and so does subscripting a str.        *)
ExampleCapabilityUris(grant) ==
    LET caps == Get(grant, "capabilities", <<>>) IN
    IF caps = None \/ \E i \in DOMAIN caps : caps[i] \in STRING
      THEN Raised("TypeError")
      ELSE Returned([i \in DOMAIN caps |-> caps[i]["uri"]])

-----------------------------------------------------------------------------
(***************************************************************************)
(* The records the library returns (spec 3; spec-modelled).  An optional   *)
(* value that is not set is serialized either by leaving its key out or   *)
(* as null (spec 4.1 keeps the two apart), and a well-known action type    *)
(* is spelled as in ActionType, or capitalized as the Rust variant, the    *)
(* spelling the parser's own test hands it.                                *)
(***************************************************************************)
Encodings == [unset : {"absent", "null"}, names : {"snake", "pascal"}]

SerdeName == [pascal |-> [decision |-> "Decision", observation |-> "Observation",
                          mutation |-> "Mutation", delegation |-> "Delegation",
                          revocation |-> "Revocation",
                          identity_operation |-> "IdentityOperation"],
              snake  |-> [t \in {"decision", "observation", "mutation", "delegation",
                                 "revocation", "identity_operation"} |-> t]]

Payload == [version |-> 2]

(* A receipt of spec 3, with its well-known type and optional parts.       *)
Receipts ==
    [id : {"arec_2"}, actor : {"aid_a"}, actor_key : {"pk_a"},
     action_type : DOMAIN SerdeName.snake, description : {"deploy"},
     data : {None, Payload}, timestamp : {1700}, signature : {"sig_r"},
     receipt_hash : {"h_r"}, previous_receipt : {None, "arec_1"}]

(* A grant of spec 3: a non-empty capability list, optional constraints   *)
(* and delegation.                                                         *)
Grants ==
    [id : {"atrust_1"}, grantor : {"aid_a"}, grantee : {"aid_b"},
     capabilities : {<<"read:calendar">>, <<"read:*", "write:email">>},
     signature : {"sig_g"}, created_at : {"t0"},
     constraints : {None} \cup [not_before : {None, "t1"}, not_after : {None, "t2"},
                                max_uses : {None, 3}],
     delegation : {None} \cup [allowed : BOOLEAN, max_depth : {0, 2}]]

(* The texts, numbers, flags and payloads the nested objects of these     *)
(* records hold, and their keys.                                           *)
NestedValues == {"deploy", "t1", "t2", None, Payload} \cup Nat \cup BOOLEAN

NestedKeys ==
    {"description", "data", "not_before", "not_after", "max_uses", "allowed", "max_depth"}

(* null is not a bool, an int, a type name the parser lowercases, nor any  *)
(* dict nested in these records: Python's `x is None` tells them apart.    *)
ASSUME NoneAssumption ==
    /\ None \notin BOOLEAN \cup Nat \cup DOMAIN Lower
    /\ \A K \in SUBSET NestedKeys : None \notin [K -> NestedValues]

(* The key k with value v, or, when v is unset, no key or a null.          *)
OptField(k, v, enc) ==
    IF v # None \/ enc.unset = "null" THEN Field(k, v) ELSE NoKeys

(* A JSON object of the record's fields, optional ones as OptField.        *)
OptObject(rec, enc) ==
    [k \in {f \in DOMAIN rec : rec[f] # None \/ enc.unset = "null"} |-> rec[k]]

EncodeReceipt(r, enc) ==
    Merge([id |-> r.id, actor |-> r.actor, actor_key |-> r.actor_key,
           action_type |-> SerdeName[enc.names][r.action_type],
           action |-> Merge([description |-> r.description],
                            OptField("data", r.data, enc)),
           timestamp |-> r.timestamp, signature |-> r.signature,
           receipt_hash |-> r.receipt_hash],
          OptField("previous_receipt", r.previous_receipt, enc))

(* The library writes a grant's signature under "grantor_signature": the  *)
(* key test_identity.py asserts of what create_trust_grant returns.       *)
EncodeGrant(g, enc) ==
    Merge(Merge([id |-> g.id, grantor |-> g.grantor, grantee |-> g.grantee,
                 capabilities |-> g.capabilities, grantor_signature |-> g.signature,
                 created_at |-> g.created_at],
                OptField("constraints",
                         IF g.constraints = None THEN None
                         ELSE OptObject(g.constraints, enc), enc)),
          OptField("delegation",
                   IF g.delegation = None THEN None
                   ELSE OptObject([allowed |-> g.delegation.allowed,
                                   max_depth |-> g.delegation.max_depth], enc), enc))

(* The TrustGrant a grant stands for: unset constraints are None, and no   *)
(* delegation means none allowed, to depth 0 (the dataclass defaults).     *)
ExpectedGrant(g) ==
    LET c(f) == IF g.constraints = None THEN None ELSE g.constraints[f] IN
    [id |-> g.id, grantor |-> g.grantor, grantee |-> g.grantee,
     capabilities |-> g.capabilities, signature |-> g.signature,
     created_at |-> g.created_at, not_before |-> c("not_before"),
     not_after |-> c("not_after"), max_uses |-> c("max_uses"),
     delegation_allowed |-> IF g.delegation = None THEN FALSE ELSE g.delegation.allowed,
     max_delegation_depth |-> IF g.delegation = None THEN 0 ELSE g.delegation.max_depth]

VARIABLES
    receipt,   \* the receipt sign_action returned last
    renc,      \* how it was serialized
    grant,     \* the grant create_trust_grant returned last
    genc       \* how it was serialized

vars == <<receipt, renc, grant, genc>>

TypeOK ==
    /\ receipt \in Receipts /\ renc \in Encodings
    /\ grant \in Grants /\ genc \in Encodings

Init == TypeOK

(* The library returns another receipt, or another grant.                  *)
NewReceipt ==
    /\ \E r \in Receipts, e \in Encodings : receipt' = r /\ renc' = e
    /\ UNCHANGED <<grant, genc>>

NewGrant ==
    /\ \E g \in Grants, e \in Encodings : grant' = g /\ genc' = e
    /\ UNCHANGED <<receipt, renc>>

Next == NewReceipt \/ NewGrant

Spec == Init /\ [][Next]_vars

-----------------------------------------------------------------------------
(***************************************************************************)
(* parse_receipt reads back what was signed (spec 3): every field of the   *)
(* receipt but its type comes out of the nested action object or the top  *)
(* level where the serialization put it, an unset optional one as None    *)
(* however it was left unset, and is_chained holds exactly when the       *)
(* receipt names a previous one.                                           *)
(***************************************************************************)
ReceiptRoundTrip ==
    LET res == ParseReceipt(EncodeReceipt(receipt, renc)) IN
    /\ res.raised = "none"
    /\ \A f \in ReceiptFieldNames \ {"action_type"} : res.value[f] = receipt[f]
    /\ IsChained(res.value) = (receipt.previous_receipt # None)

(***************************************************************************)
(* parse_trust_grant reads back the grant (spec 3): when it returns, its   *)
(* TrustGrant has the grant's signature and capabilities, the constraints  *)
(* it set and None for the others, and its delegation or the defaults.    *)
(***************************************************************************)
GrantRoundTrip ==
    LET res == ParseTrustGrant(EncodeGrant(grant, genc)) IN
    res.raised = "none" => res.value = ExpectedGrant(grant)

(***************************************************************************)
(* parse_receipt gives each well-known type the value of its ActionType    *)
(* member (spec 3's enumeration), in either spelling the parser is meant  *)
(* to accept: the `.lower()` it applies is there for the capitalized one.  *)
(***************************************************************************)
ActionTypeKnown ==
    LET res == ParseReceipt(EncodeReceipt(receipt, renc)) IN
    res.raised = "none" /\ res.value.action_type \in ActionTypeValues
        /\ res.value.action_type = receipt.action_type

(***************************************************************************)
(* parse_trust_grant accepts every grant spec 3 allows, whether its unset  *)
(* optional constraints and delegation were left out or written as null   *)
(* (spec 1: verification is tolerant to optional fields).                 *)
(***************************************************************************)
GrantParseTotal ==
    ParseTrustGrant(EncodeGrant(grant, genc)).raised = "none"

(***************************************************************************)
(* The example script lists the capabilities of the grant it created:     *)
(* line 121 runs to completion on every grant the library returns, whose  *)
(* capabilities are URI strings (spec 3; TrustGrant's docstring).         *)
(***************************************************************************)
ExampleListsCapabilities ==
    ExampleCapabilityUris(EncodeGrant(grant, genc)).raised = "none"

=============================================================================
