---------------------------- MODULE ModelsProofs ----------------------------
(***************************************************************************)
(* Proofs about parse_receipt and parse_trust_grant (module Models), for  *)
(* records of spec 3's shape whatever strings and numbers they hold, in   *)
(* every encoding of their unset optional values: parse_receipt reads a   *)
(* receipt back, and parse_trust_grant reads back every field of a grant  *)
(* but its signature, which it always loses.                              *)
(***************************************************************************)
EXTENDS Models, TLAPS

(* Receipts whose ids, keys, signatures and hashes are any values of S   *)
(* and whose descriptions are any values of D: the shape of Receipts.      *)
AnyReceipts(S, D) ==
    [id : S, actor : S, actor_key : S, action_type : DOMAIN SerdeName.snake,
     description : D, data : {None, Payload}, timestamp : Nat, signature : S,
     receipt_hash : S, previous_receipt : S \cup {None}]

(* The constraints of a grant with times T, and its delegations.          *)
GrantConstraints(T) ==
    {None} \cup [not_before : T \cup {None}, not_after : T \cup {None},
                 max_uses : Nat \cup {None}]

GrantDelegations == {None} \cup [allowed : BOOLEAN, max_depth : Nat]

(* Grants of any ids S, capability lists C, times T, use counts and depths. *)
AnyGrants(S, C, T) ==
    [id : S, grantor : S, grantee : S, capabilities : C, signature : S,
     created_at : S, constraints : GrantConstraints(T), delegation : GrantDelegations]

ReceiptIds == {"arec_2", "aid_a", "pk_a", "sig_r", "h_r", "arec_1"}

LEMMA ReceiptsAreAny == Receipts \subseteq AnyReceipts(ReceiptIds, {"deploy"})
BY DEF Receipts, AnyReceipts, ReceiptIds

LEMMA GrantsAreAny ==
    Grants \subseteq AnyGrants({"atrust_1", "aid_a", "aid_b", "sig_g", "t0"},
                               {<<"read:calendar">>, <<"read:*", "write:email">>},
                               {"t1", "t2"})
<1> SUFFICES ASSUME NEW g \in Grants
             PROVE  g \in AnyGrants({"atrust_1", "aid_a", "aid_b", "sig_g", "t0"},
                                    {<<"read:calendar">>, <<"read:*", "write:email">>},
                                    {"t1", "t2"})
  OBVIOUS
<1>1. g.constraints \in GrantConstraints({"t1", "t2"})
  BY DEF Grants, GrantConstraints
<1>2. g.delegation \in GrantDelegations
  BY DEF Grants, GrantDelegations
<1>3. /\ g.id \in {"atrust_1"} /\ g.grantor \in {"aid_a"} /\ g.grantee \in {"aid_b"}
      /\ g.capabilities \in {<<"read:calendar">>, <<"read:*", "write:email">>}
      /\ g.signature \in {"sig_g"} /\ g.created_at \in {"t0"}
      /\ g = [id |-> g.id, grantor |-> g.grantor, grantee |-> g.grantee,
              capabilities |-> g.capabilities, signature |-> g.signature,
              created_at |-> g.created_at, constraints |-> g.constraints,
              delegation |-> g.delegation]
  BY DEF Grants
<1>4. QED
  BY <1>1, <1>2, <1>3 DEF AnyGrants

(* null is no bool and no int.                                             *)
NullIsNoScalar == None \notin BOOLEAN \cup Nat

(* null is no object with keys among K and values in V.                  *)
NullIsNoObject(K, V) == \A Kd \in SUBSET K : None \notin [Kd -> V]

-----------------------------------------------------------------------------
(* The keys of a merged object, and what Get reads from it.                *)
LEMMA MergeDomain ==
    ASSUME NEW f, NEW g PROVE DOMAIN Merge(f, g) = DOMAIN f \cup DOMAIN g
BY DEF Merge

LEMMA GetMerge ==
    ASSUME NEW f, NEW g, NEW k, NEW x
    PROVE  /\ Get(Merge(f, g), k, x) = IF k \in DOMAIN f THEN f[k] ELSE Get(g, k, x)
           /\ k \notin DOMAIN g => Get(Merge(f, g), k, x) = Get(f, k, x)
BY DEF Get, Merge

(* Get of an optional field: its value when set or written as null, else  *)
(* the default.                                                            *)
LEMMA GetOptField ==
    ASSUME NEW k, NEW v, NEW enc \in Encodings, NEW j, NEW x
    PROVE  /\ DOMAIN OptField(k, v, enc) \subseteq {k}
           /\ Get(OptField(k, v, enc), k, x) =
                IF v = None /\ enc.unset = "absent" THEN x ELSE v
           /\ j # k => Get(OptField(k, v, enc), j, x) = x
BY DEF Get, OptField, Field, NoKeys, Encodings

(* Get of a field of an object written by OptObject: its value, set or     *)
(* not, when the default is null or the field is set.                      *)
LEMMA GetOptObject ==
    ASSUME NEW rec, NEW enc \in Encodings, NEW k \in DOMAIN rec, NEW x,
           rec[k] = None => x = None
    PROVE  Get(OptObject(rec, enc), k, x) = rec[k]
BY DEF Get, OptObject

(* OptObject keeps some of the keys and their values.                       *)
LEMMA OptObjectShape ==
    ASSUME NEW K, NEW V, NEW rec \in [K -> V], NEW enc \in Encodings
    PROVE  \E Kd \in SUBSET K : OptObject(rec, enc) \in [Kd -> V]
BY DEF OptObject

(* ReceiptRoundTrip, of any receipt and encoding.                          *)
ReadsBackReceipt(r, enc) ==
    LET res == ParseReceipt(EncodeReceipt(r, enc)) IN
    /\ res.raised = "none"
    /\ \A f \in ReceiptFieldNames \ {"action_type"} : res.value[f] = r[f]
    /\ IsChained(res.value) = (r.previous_receipt # None)

(* ExpectedGrant(g), the TrustGrant g stands for, but with the signature  *)
(* the dataclass gets from a missing "signature" key: "".                 *)
GrantUnsigned(g) ==
    LET c(f) == IF g.constraints = None THEN None ELSE g.constraints[f] IN
    [id |-> g.id, grantor |-> g.grantor, grantee |-> g.grantee,
     capabilities |-> g.capabilities, signature |-> "",
     created_at |-> g.created_at, not_before |-> c("not_before"),
     not_after |-> c("not_after"), max_uses |-> c("max_uses"),
     delegation_allowed |-> IF g.delegation = None THEN FALSE ELSE g.delegation.allowed,
     max_delegation_depth |-> IF g.delegation = None THEN 0 ELSE g.delegation.max_depth]

(* What parse_trust_grant makes of grant g serialized by enc, when it      *)
(* returns: g with its signature lost.                                     *)
ReadsBackGrant(g, enc) ==
    LET res == ParseTrustGrant(EncodeGrant(g, enc)) IN
    res.raised = "none" => res.value = GrantUnsigned(g)

(* parse_receipt of any receipt, serialized either way, returns it: every  *)
(* field but the type as signed, and is_chained as the previous receipt.  *)
(* It needs only that null is no action object of such a receipt.         *)
LEMMA ParseEncodeReceipt ==
    ASSUME NEW S, NEW D, NullIsNoObject({"description", "data"}, D \cup {None, Payload}),
           None \notin DOMAIN Lower,
           NEW r \in AnyReceipts(S, D), NEW enc \in Encodings
    PROVE  ReadsBackReceipt(r, enc)
<1> SUFFICES LET res == ParseReceipt(EncodeReceipt(r, enc)) IN
             /\ res.raised = "none"
             /\ \A f \in ReceiptFieldNames \ {"action_type"} : res.value[f] = r[f]
             /\ IsChained(res.value) = (r.previous_receipt # None)
  BY DEF ReadsBackReceipt
<1> DEFINE act  == Merge([description |-> r.description], OptField("data", r.data, enc))
           top  == [id |-> r.id, actor |-> r.actor, actor_key |-> r.actor_key,
                    action_type |-> SerdeName[enc.names][r.action_type],
                    action |-> act, timestamp |-> r.timestamp,
                    signature |-> r.signature, receipt_hash |-> r.receipt_hash]
           d    == Merge(top, OptField("previous_receipt", r.previous_receipt, enc))
<1>1. EncodeReceipt(r, enc) = d
  BY DEF EncodeReceipt
<1>2. /\ Get(act, "description", "") = r.description
      /\ Get(act, "data", None) = r.data
  BY DEF Get, Merge, OptField, Field, NoKeys
<1>3. act # None
  <2>1. act = IF r.data # None \/ enc.unset = "null"
              THEN [description |-> r.description, data |-> r.data]
              ELSE [description |-> r.description]
    BY DEF Merge, OptField, Field, NoKeys
  <2>2. \E Kd \in SUBSET {"description", "data"} : act \in [Kd -> D \cup {None, Payload}]
    BY <2>1 DEF AnyReceipts
  <2>3. QED
    BY <2>2 DEF NullIsNoObject
<1>4. /\ Get(d, "id", "") = r.id /\ Get(d, "actor", "") = r.actor
      /\ Get(d, "actor_key", "") = r.actor_key /\ Get(d, "timestamp", 0) = r.timestamp
      /\ Get(d, "signature", "") = r.signature
      /\ Get(d, "receipt_hash", "") = r.receipt_hash
      /\ Get(d, "action", NoKeys) = act
      /\ Get(d, "action_type", "custom") = SerdeName[enc.names][r.action_type]
      /\ Get(d, "previous_receipt", None) = r.previous_receipt
  BY DEF Get, Merge, OptField, Field, NoKeys
<1>5. SerdeName[enc.names][r.action_type] # None
  BY DEF AnyReceipts, SerdeName, Encodings, Lower
<1>6. ParseReceipt(d) =
        Returned([id |-> r.id, actor |-> r.actor, actor_key |-> r.actor_key,
                  action_type |-> Lower[SerdeName[enc.names][r.action_type]],
                  description |-> r.description, timestamp |-> r.timestamp,
                  signature |-> r.signature, receipt_hash |-> r.receipt_hash,
                  data |-> r.data, previous_receipt |-> r.previous_receipt])
  BY <1>2, <1>3, <1>4, <1>5 DEF ParseReceipt
<1> DEFINE res == ParseReceipt(EncodeReceipt(r, enc))
           val == [id |-> r.id, actor |-> r.actor, actor_key |-> r.actor_key,
                   action_type |-> Lower[SerdeName[enc.names][r.action_type]],
                   description |-> r.description, timestamp |-> r.timestamp,
                   signature |-> r.signature, receipt_hash |-> r.receipt_hash,
                   data |-> r.data, previous_receipt |-> r.previous_receipt]
<1>7. res = Returned(val)
  BY <1>1, <1>6
<1>8. res.raised = "none" /\ res.value = val
  BY <1>7 DEF Returned
<1>9. IsChained(res.value) = (r.previous_receipt # None)
  BY <1>8 DEF IsChained
<1>10. ASSUME NEW f \in ReceiptFieldNames \ {"action_type"} PROVE res.value[f] = r[f]
  <2>1. f \in {"id", "actor", "actor_key", "description", "timestamp", "signature",
               "receipt_hash", "data", "previous_receipt"}
    BY DEF ReceiptFieldNames
  <2>2. QED
    BY <1>8, <2>1 DEF AnyReceipts
<1>11. QED
  BY <1>8, <1>9, <1>10

(* parse_trust_grant of any grant, serialized either way, when it returns, *)
(* returns the TrustGrant the grant stands for except for its signature,  *)
(* which is "" since the library writes it under "grantor_signature".  It *)
(* needs only that null is no bool, int, constraints or delegation object. *)
LEMMA ParseEncodeGrant ==
    ASSUME NEW S, NEW C, NEW T, NEW g \in AnyGrants(S, C, T), NEW enc \in Encodings,
           NullIsNoScalar,
           NullIsNoObject({"not_before", "not_after", "max_uses"}, T \cup Nat \cup {None}),
           NullIsNoObject({"allowed", "max_depth"}, BOOLEAN \cup Nat)
    PROVE  ReadsBackGrant(g, enc)
<1> SUFFICES LET res == ParseTrustGrant(EncodeGrant(g, enc)) IN
             res.raised = "none" => res.value = GrantUnsigned(g)
  BY DEF ReadsBackGrant
<1> DEFINE cons == IF g.constraints = None THEN None ELSE OptObject(g.constraints, enc)
           drec == [allowed |-> g.delegation.allowed, max_depth |-> g.delegation.max_depth]
           dele == IF g.delegation = None THEN None ELSE OptObject(drec, enc)
           base == [id |-> g.id, grantor |-> g.grantor, grantee |-> g.grantee,
                    capabilities |-> g.capabilities, grantor_signature |-> g.signature,
                    created_at |-> g.created_at]
           oc   == OptField("constraints", cons, enc)
           od   == OptField("delegation", dele, enc)
           d1   == Merge(base, oc)
           d    == Merge(d1, od)
           constraints == Get(d, "constraints", NoKeys)
           delegation  == Get(d, "delegation", NoKeys)
<1>1. EncodeGrant(g, enc) = d
  BY DEF EncodeGrant
<1>2. /\ DOMAIN oc \subseteq {"constraints"} /\ DOMAIN od \subseteq {"delegation"}
      /\ Get(oc, "constraints", NoKeys) =
            IF cons = None /\ enc.unset = "absent" THEN NoKeys ELSE cons
      /\ Get(od, "delegation", NoKeys) =
            IF dele = None /\ enc.unset = "absent" THEN NoKeys ELSE dele
  BY GetOptField
<1>3. /\ DOMAIN d1 = DOMAIN base \cup DOMAIN oc
      /\ \A k \in DOMAIN base : d1[k] = base[k]
      /\ \A k \in DOMAIN d1 : d[k] = d1[k]
      /\ DOMAIN d = DOMAIN d1 \cup DOMAIN od
  BY DEF Merge
<1>4. /\ Get(d, "id", "") = g.id /\ Get(d, "grantor", "") = g.grantor
      /\ Get(d, "grantee", "") = g.grantee
      /\ Get(d, "capabilities", <<>>) = g.capabilities
      /\ Get(d, "created_at", "") = g.created_at
  BY <1>3 DEF Get
<1>4b. Get(d, "signature", "") = ""
  <2>1. "signature" \notin DOMAIN d
    BY <1>2, <1>3
  <2>2. QED
    BY <2>1 DEF Get
<1>5. constraints = IF cons = None /\ enc.unset = "absent" THEN NoKeys ELSE cons
  <2>1. "constraints" \notin DOMAIN base /\ "constraints" \notin DOMAIN od
    BY <1>2
  <2>2. constraints = Get(oc, "constraints", NoKeys)
    BY <1>3, <2>1 DEF Get, Merge
  <2>3. QED
    BY <1>2, <2>2
<1>6. delegation = IF dele = None /\ enc.unset = "absent" THEN NoKeys ELSE dele
  <2>1. "delegation" \notin DOMAIN d1
    BY <1>2, <1>3
  <2>2. delegation = Get(od, "delegation", NoKeys)
    BY <2>1 DEF Get, Merge
  <2>3. QED
    BY <1>2, <2>2
<1>7. ASSUME constraints # None, NEW k \in {"not_before", "not_after", "max_uses"}
      PROVE  Get(constraints, k, None) = IF g.constraints = None THEN None
                                         ELSE g.constraints[k]
  <2>1. CASE g.constraints = None
    BY <1>5, <1>7, <2>1 DEF Get, NoKeys
  <2>2. CASE g.constraints # None
    <3> DEFINE K == {"not_before", "not_after", "max_uses"}
               V == T \cup Nat \cup {None}
    <3>1. g.constraints \in [K -> V]
      BY <2>2 DEF AnyGrants, GrantConstraints
    <3>2. PICK Kd \in SUBSET K : OptObject(g.constraints, enc) \in [Kd -> V]
      BY <3>1, OptObjectShape
    <3>3. cons # None
      BY <2>2, <3>2 DEF NullIsNoObject
    <3>4. constraints = OptObject(g.constraints, enc)
      BY <1>5, <2>2, <3>3
    <3>5. QED
      BY <2>2, <3>1, <3>4 DEF Get, OptObject
  <2>3. QED
    BY <2>1, <2>2
<1>8. ASSUME delegation # None
      PROVE  /\ Get(delegation, "allowed", FALSE) =
                   IF g.delegation = None THEN FALSE ELSE g.delegation.allowed
             /\ Get(delegation, "max_depth", 0) =
                   IF g.delegation = None THEN 0 ELSE g.delegation.max_depth
  <2>1. CASE g.delegation = None
    BY <1>6, <1>8, <2>1 DEF Get, NoKeys
  <2>2. CASE g.delegation # None
    <3> DEFINE K == {"allowed", "max_depth"}
               V == BOOLEAN \cup Nat
    <3>1. drec \in [K -> V] /\ g.delegation.allowed \in BOOLEAN
          /\ g.delegation.max_depth \in Nat
      BY <2>2 DEF AnyGrants, GrantDelegations
    <3>2. PICK Kd \in SUBSET K : OptObject(drec, enc) \in [Kd -> V]
      <4>1. drec \in [K -> V]
        BY <3>1
      <4>2. QED
        BY <4>1, OptObjectShape
    <3>3. dele # None
      BY <2>2, <3>2 DEF NullIsNoObject
    <3>4. delegation = OptObject(drec, enc)
      BY <1>6, <2>2, <3>3
    <3>5. drec["allowed"] # None /\ drec["max_depth"] # None
      BY <3>1 DEF NullIsNoScalar
    <3>6. QED
      BY <2>2, <3>4, <3>5 DEF Get, OptObject
  <2>3. QED
    BY <2>1, <2>2
<1> DEFINE res == ParseTrustGrant(EncodeGrant(g, enc))
<1>9. ASSUME res.raised = "none" PROVE res.value = GrantUnsigned(g)
  <2> DEFINE val == [id |-> g.id, grantor |-> g.grantor, grantee |-> g.grantee,
                      capabilities |-> g.capabilities, signature |-> "",
                      created_at |-> g.created_at,
                      not_before |-> Get(constraints, "not_before", None),
                      not_after |-> Get(constraints, "not_after", None),
                      max_uses |-> Get(constraints, "max_uses", None),
                      delegation_allowed |-> Get(delegation, "allowed", FALSE),
                      max_delegation_depth |-> Get(delegation, "max_depth", 0)]
  <2> HIDE DEF val, res, d
  <2>1. /\ Get(d, "capabilities", <<>>) # None
        /\ constraints # None /\ delegation # None
    BY <1>1, <1>9 DEF ParseTrustGrant, Raised, res
  <2>2. ParseTrustGrant(d) = Returned(val)
    BY <1>4, <1>4b, <2>1 DEF ParseTrustGrant, val
  <2>3. res.value = val
    BY <1>1, <2>2 DEF Returned, res
  <2>4. val = GrantUnsigned(g)
    BY <2>1, <1>7, <1>8 DEF GrantUnsigned, val
  <2>5. QED
    BY <2>3, <2>4
<1>10. QED
  BY <1>9

-----------------------------------------------------------------------------
(* What NoneAssumption gives the two lemmas for the records of the model.  *)
LEMMA NullFacts ==
    /\ NullIsNoScalar
    /\ None \notin DOMAIN Lower
    /\ NullIsNoObject({"description", "data"}, {"deploy"} \cup {None, Payload})
    /\ NullIsNoObject({"not_before", "not_after", "max_uses"},
                      {"t1", "t2"} \cup Nat \cup {None})
    /\ NullIsNoObject({"allowed", "max_depth"}, BOOLEAN \cup Nat)
<1>1. ASSUME NEW K \in SUBSET NestedKeys, NEW V \in SUBSET NestedValues
      PROVE  NullIsNoObject(K, V)
  <2>1. ASSUME NEW Kd \in SUBSET K PROVE [Kd -> V] \subseteq [Kd -> NestedValues]
    OBVIOUS
  <2>2. QED
    BY <2>1, NoneAssumption DEF NullIsNoObject
<1>2. /\ {"description", "data"} \in SUBSET NestedKeys
      /\ {"not_before", "not_after", "max_uses"} \in SUBSET NestedKeys
      /\ {"allowed", "max_depth"} \in SUBSET NestedKeys
  BY DEF NestedKeys
<1>3. /\ {"deploy"} \cup {None, Payload} \in SUBSET NestedValues
      /\ {"t1", "t2"} \cup Nat \cup {None} \in SUBSET NestedValues
      /\ BOOLEAN \cup Nat \in SUBSET NestedValues
  BY DEF NestedValues
<1>4. QED
  BY <1>1, <1>2, <1>3, NoneAssumption DEF NullIsNoScalar

LEMMA TypeOKInductive == Spec => []TypeOK
<1>1. TypeOK /\ [Next]_vars => TypeOK'
  BY DEF TypeOK, Next, NewReceipt, NewGrant, vars
<1>2. QED
  BY <1>1, PTL DEF Spec, Init

(***************************************************************************)
(* parse_receipt reads back every receipt the library hands it, in either *)
(* serialization of unset optional values (spec 3, 4.1): the run          *)
(* models_parse checks this on the model's records, and the lemma         *)
(* ParseEncodeReceipt holds for receipts of any strings and numbers.      *)
(***************************************************************************)
THEOREM ReceiptRoundTripHolds == Spec => []ReceiptRoundTrip
<1>1. TypeOK => ReceiptRoundTrip
  <2> SUFFICES ASSUME TypeOK PROVE ReceiptRoundTrip
    OBVIOUS
  <2>1. receipt \in AnyReceipts(ReceiptIds, {"deploy"}) /\ renc \in Encodings
    BY ReceiptsAreAny DEF TypeOK
  <2>2. NullIsNoObject({"description", "data"}, {"deploy"} \cup {None, Payload})
        /\ None \notin DOMAIN Lower
    BY NullFacts
  <2>3. ReadsBackReceipt(receipt, renc)
    BY <2>1, <2>2, ParseEncodeReceipt
  <2>4. QED
    BY <2>3 DEF ReadsBackReceipt, ReceiptRoundTrip
<1>2. QED
  BY <1>1, TypeOKInductive, PTL

(***************************************************************************)
(* parse_trust_grant loses the signature of every grant the library       *)
(* returns, and only that: whenever it returns, its TrustGrant has every  *)
(* other field of the grant (capabilities, constraints set or None,       *)
(* delegation or the defaults) and signature "", because models.py reads  *)
(* the key "signature" and create_trust_grant's JSON carries              *)
(* "grantor_signature".  The run models_grant_signature finds             *)
(* GrantRoundTrip violated; this says exactly how.                        *)
(***************************************************************************)
THEOREM GrantSignatureLost == Spec => []ReadsBackGrant(grant, genc)
<1>1. TypeOK => ReadsBackGrant(grant, genc)
  <2> SUFFICES ASSUME TypeOK PROVE ReadsBackGrant(grant, genc)
    OBVIOUS
  <2>1. grant \in AnyGrants({"atrust_1", "aid_a", "aid_b", "sig_g", "t0"},
                            {<<"read:calendar">>, <<"read:*", "write:email">>},
                            {"t1", "t2"})
        /\ genc \in Encodings
    BY GrantsAreAny DEF TypeOK
  <2>2. QED
    BY <2>1, NullFacts, ParseEncodeGrant
<1>2. QED
  BY <1>1, TypeOKInductive, PTL
====
