# Verification of the agentic-identity Python binding

This directory holds TLA+ models of the Python package
`src/python/src/agentic_identity`, the TLC configurations that check them,
and TLAPS proofs about them. The package is a ctypes binding over a native
library, `libagentic_identity_ffi`. That library is the Rust core described in
`spec.md`, and its source is not part of this repository's `src/`.

## 1. The system

### Parts and how they interact

| Part | Source | State | Operations |
|---|---|---|---|
| Identity handle wrapper | `__init__.py` 175-405 | `self._handle` of each `Identity` object (an address of a native `IdentityAnchor`, or `None`); the anchors allocated in the native heap | `load`, `identity_id`, `public_key`, `sign_action`, `create_trust_grant`, `__repr__`, `close`, `__exit__`, `__del__`, `_require_handle` |
| `Identity.create` | `__init__.py` 192-227 | a container file on disk (in Rust) | create identity, write container, return id |
| Verification functions | `__init__.py` 107-167 | none (pure) | `verify_receipt`, `verify_trust_grant` |
| `version()` | `__init__.py` 98-104 | none | read a static string |
| FFI helpers | `_ffi.py` 193-218 | library-owned result strings | `_check` maps a return code to `AgenticIdentityError`; `_take_string` copies a result and frees it |
| Library loading | `_ffi.py` 51-185 | the `_lib` singleton | locate and load the shared library at import |
| Error hierarchy | `errors.py` | none | `AidError` and six subclasses with fixed codes |
| Data models | `models.py` | none (frozen dataclasses) | `parse_receipt`, `parse_trust_grant` turn the JSON of a returned record into `ActionReceipt` / `TrustGrant` |
| Example script | `src/examples/python_example.py` | none | creates, loads, signs, grants and verifies, printing the results |
| Rust core (spec §4) | not under `src/` | key containers on disk | Key Vault, Canonicalizer, Receipt Engine, Trust Engine, Verification Facade |

Every method of `Identity` does the same three things:

1. It reads `self._handle` through `_require_handle`.
2. For `sign_action` and `create_trust_grant`, it marshals its arguments with `json.dumps`.
3. It makes one foreign call with the address it read, then `_check`s the return code and `_take_string`s the result.

`close()` runs three separate steps: it tests the field, calls `aid_identity_free`, and sets the field to `None`. `__exit__` and `__del__` both call `close()`.

### What makes it hard

- **Threads.** Python threads may share an `Identity`. The interpreter can switch threads between any two bytecodes, and ctypes releases the GIL for the whole of each foreign call. So a method and a `close()` on one object interleave at every line. The class has no lock.
- **Address reuse.** After a free, the native allocator may hand the same address to the next `load`. A stale address then names another identity's anchor, so a late call signs with the wrong key rather than crashing.
- **Destruction paths.** Anchors hold decrypted key material. They must be freed on every path (`close`, `__exit__`, `__del__`) and exactly once.
- **Error mapping.** `_check` raises `AgenticIdentityError` for every failure. Neither the `AidError` hierarchy nor the spec's `PassphraseFailure` is ever raised by the library calls.

### Properties per part

- **Handle wrapper:**
  - no foreign call on a freed or foreign anchor (`NoUseAfterFree`);
  - `aid_identity_free` only of the object's own live anchor (`FreeOnlyLiveAnchor`);
  - no leaked anchor (`NoLeak`), whether or not callers serialize their calls;
  - the wrapper implements the abstract anchor lifecycle of spec 4.3 (`AnchorRefinement`).
- **Key Vault and error mapping:**
  - a failed load raises the typed error spec 4.2 names (`TypedLoadErrors`, violated).
- **Parsing of returned records:**
  - `parse_receipt` reads back every field of a spec 3 receipt, however its unset parts were serialized (`ReceiptRoundTrip`);
  - `parse_trust_grant` reads back every field of a grant as the library serializes it (`GrantRoundTrip`, violated: the signature is lost);
  - a well-known action type parses to its `ActionType` value (`ActionTypeKnown`, violated);
  - a grant with null optional sections parses (`GrantParseTotal`, violated);
  - the example lists its grant's capabilities (`ExampleListsCapabilities`, violated).
- **Receipts and grants (planned):**
  - round-trip signing and tamper sensitivity, with signatures as symbols and a tampering adversary;
  - capability matching as exact-or-prefix-wildcard (spec §4.5), checked against a reference definition.

## 2. Modules

### `IdentityHandle.tla`: the `Identity` wrapper

**Constants.**
- `Threads`, `Objects` (one per load) and `Addrs` (addresses the allocator may reuse).
- The markers `None`, `Free` and `NoObj`.
- `Serialized`: whether callers keep their calls on one object from overlapping.

**State.**
- `objState[o]`: unborn, live or dropped (collected).
- `handle[o]`: the field `self._handle`.
- `heap[a]`: which object's load allocated the anchor at `a`, or `Free`.
- Per thread: `pc`, the object `obj`, the method `op`, and the local variable `h` that holds the address `_require_handle` returned.

**Actions.** Each action is one atomic piece of the code, at the granularity where the GIL may be released or switched.

| Action | Code |
|---|---|
| `Load(t,o,a)` | `Identity.load` + `__init__` (the allocation and the store of the new address) |
| `StartMethod(t,o,m)` / `StartClose(t,o)` | entry into a method / `close`, `__exit__` |
| `ReprCheck(t)` | `__repr__`'s `if self._handle is None` |
| `RequireHandle(t)` | `_require_handle`'s test `if self._handle is None` (line 279): raise, or go on |
| `RequireReturn(t)` | `_require_handle`'s `return self._handle` (line 281): a second read of the field, copied to the method's local |
| `NativeCall(t)` | marshal, foreign call, `_check`, `_take_string` (the result string is allocated and freed in the step) |
| `MarshalRaise(t)` | `json.dumps` raising between `_require_handle` and the call |
| `CloseCheck(t)`, `CloseFree(t)`, `CloseClear(t)` | the three lines of `close()` (265, 266, 267) |
| `Drop(o)` | the last reference is dropped and `__del__` closes the object, with no thread inside a call on it |

`MCIdentityHandle.tla` gives the symmetry set (permutations of threads, objects and addresses).

**Refinement mapping.** `Abs == INSTANCE AnchorLifecycle WITH ...` maps the state onto the abstract lifecycle:
- `StatusBar[o]`: `unborn` and `dropped` as `objState`; for a live object, `closed` once its field is `None` or some thread is in `close_clear` on it (the anchor is freed, the field not yet reset), else `open`;
- `AllocBar`: the objects some address holds an anchor of;
- `InFlightBar[t]`: the object of a thread in `native` (between `_require_handle` and the end of the foreign call), else `NoObj`.

`_require_handle` reads the field twice, so a `close()` on another thread may run between the test and the return; the method then receives `None` and passes a null pointer to the library. The split into `RequireHandle` and `RequireReturn` keeps that interleaving.

**No fairness.** The properties of this module are all safety properties, so `Spec` assumes none.

### `AnchorLifecycle.tla`: the abstract anchor (spec 4.3, 9)

What an `Identity` promises of its anchor, each operation one atomic step: `status[o]` (unborn, open, closed, dropped), the set `alloc` of objects whose anchor is allocated, and `inFlight[t]`, the object whose anchor thread `t`'s call borrows. `Load` opens and allocates; `Borrow` needs an open object with an allocated anchor; `Release` ends a borrow; `Close` and `Drop` free the anchor only when no call borrows it. All of it is spec-modelled.

### `KeyVault.tla`: `Identity.create`, `Identity.load` and the error mapping

**Constants.**
- `Paths`, with its subset `Writable`.
- `Passphrases`.
- `Ids` that the native create may mint.
- The markers `Absent` and `NoId`.

**State.**
- `disk[p]`: a container `[id, pass, form]`, or `Absent`. The `form` is intact, flipped (ciphertext) or malformed (structure).
- `minted`: the ids handed out, which keeps them fresh.
- `loads`: the history of every `Identity.load`. Each record holds its inputs, what it met on disk, the native outcome and the Python result, in the manner of an externally observed history.

**Where the definitions come from.**
- From the Python source:
  - `AID_*` and `FfiCode`: the code table of `_ffi.py`;
  - `Check`: `_check`, which raises `AgenticIdentityError(rc)` for any non-zero code;
  - `Bases` and `IsInstance`: the class hierarchy of `errors.py`, where `AgenticIdentityError` derives from `Exception` only;
  - the actions `Create` and `Load`: `Identity.create` and `Identity.load`.
- From spec 4.2 and 8, marked spec-modelled because the Rust core is not under `src/`:
  - `LoadKind`: a missing file gives IdentityNotFound, a broken structure gives Serialization, and a failed authenticated decryption gives Passphrase;
  - `NativeCreate`: writes over the path, or fails on an unwritable one;
  - `Tamper`: damage at rest.

`Create` is one step: the native write and Python's return of the id. Concurrent creates at one path are therefore not modelled. The module is used only to check which exception class `Identity.load` raises for each native failure (`TypedLoadErrors`); it claims nothing about the native outcomes themselves, which come from the spec.

### `Models.tla`: parsing of returned records, and the example's reading of a grant

- From `models.py`: `ParseReceipt` and `ParseTrustGrant` (with `Get` for `dict.get`, which returns a stored null rather than the default; `Lower` for `str.lower` on the names it meets; `NoKeys` for the `{}` defaults), `IsChained`, `ActionTypeValues` and the fields of the dataclasses; a call's outcome is `Returned(v)` or `Raised(cls)`.
- From the example: `ExampleCapabilityUris`, its line 121.
- Spec-modelled (the records come from the Rust core): `Receipts` and `Grants` are logical records of spec 3 over small value sets; `EncodeReceipt` and `EncodeGrant` serialize them, nesting description and data under `action` and the grant's constraints and delegation in their own objects, as the package's tests do. A grant's signature is written under `grantor_signature`: `test_identity.py` line 327 asserts that key of what `create_trust_grant` returns. `Encodings` chooses whether an unset optional value is left out or written as null (spec 4.1 keeps both apart), and whether a type name is spelled as the `ActionType` value or capitalized as the Rust variant (the spelling `test_models.py` feeds the parser, the reason for its `.lower()`).
- The state is one receipt and one grant handed to the parsers; `NewReceipt` and `NewGrant` hand over another. The invariants relate each record to what the parsers make of it.

**Field and Merge.** The encoders build JSON objects as record literals merged with `OptField`, the optional member. `Field(k, v)` is the object literal `{k: v}`, and `Merge(f, g)` is `{**g, **f}`: keys of `f` win. They are written out in `Models` rather than taken from TLC's `:>` and `@@`, so that the proofs can expand them.

**`NoneAssumption`.** The model value `None` (JSON null) is not a Boolean, an integer or a serialized type name. It is also not any object nested in these records. TLC evaluates the assumption on every `Models` run.

### `IdentityHandleProofs.tla`, `ModelsProofs.tla`: proofs

These modules EXTEND their component and `TLAPS`. Their contents are described in section 4.

## 3. Runs

| Run | Config | Expect | Shows |
|---|---|---|---|
| `identity_handle_serialized` | `MCIdentityHandle.cfg` | pass | With 3 threads, 3 objects, 2 addresses and callers that serialize per object, no foreign call on a null, freed or foreign anchor (`NoUseAfterFree`), and close frees only the object's own live anchor (`FreeOnlyLiveAnchor`). 3,555 distinct states. |
| `key_vault_typed_errors` | `MCKeyVault_Typed.cfg` | violation of `TypedLoadErrors` | Loading a missing path raises `AgenticIdentityError(-4)`, not `IdentityNotFoundError`. A wrong passphrase likewise raises `AgenticIdentityError(-3)`, not `PassphraseError`. |
| `identity_handle_race_use` | `MCIdentityHandle_RaceUse.cfg` | violation of `NoUseAfterFree` | With 2 threads and no serialization, the trace is: T1 reads the handle, T2 closes and frees it, and T1 is then about to make its foreign call on the freed anchor. |
| `identity_handle_race_free` | `MCIdentityHandle_RaceFree.cfg` | violation of `FreeOnlyLiveAnchor` | Two concurrent closes both pass `is not None` and free the anchor twice. |
| `identity_handle_shared_no_leak` | `MCIdentityHandle_SharedNoLeak.cfg` | pass | With 3 threads, 3 objects and 2 addresses, and no serialization, overlapping closes may free a foreign anchor, but `NoLeak` still holds: no allocated anchor loses the live object that loaded it. 300,416 distinct states. |
| `identity_handle_refines` | `MCIdentityHandle_Refines.cfg` | pass | With the bounds of the serialized run, every step is a step of `AnchorLifecycle` under the mapping, or leaves it unchanged (`AnchorRefinement`). 3,555 distinct states. |
| `models_parse` | `MCModels.cfg` | pass | Every receipt (6 types, data and previous receipt set or not), in every encoding: `ReceiptRoundTrip`. 34,560 distinct states. |
| `models_grant_signature` | `MCModels_GrantSignature.cfg` | violation of `GrantRoundTrip` | The first grant, serialized as the library does with its signature under `grantor_signature`, parses to a `TrustGrant` whose signature is `""`. |
| `models_action_type` | `MCModels_ActionType.cfg` | violation of `ActionTypeKnown` | A receipt of type identity_operation spelled `IdentityOperation` parses to `identityoperation`. |
| `models_null_sections` | `MCModels_NullSections.cfg` | violation of `GrantParseTotal` | A grant with no constraints, written as `"constraints": null`, makes `parse_trust_grant` raise `AttributeError`. |
| `example_capabilities` | `MCModels_Example.cfg` | violation of `ExampleListsCapabilities` | The example's `c['uri']` raises `TypeError` on the grant's capability strings. |

**Why these bounds are enough.**
- KeyVault (the typed-errors run):
  - Two ids allow a create to replace an earlier one at the same path.
  - The read-only path exercises create's failure.
  - Two passphrases give both the right and the wrong one.
  - `Tamper` gives both kinds of damage.
  - A third id multiplies the history to millions of states without adding a case.
- IdentityHandle:
  - Two addresses for three objects force the allocator to reuse an address, which is the case that turns a stale handle into a wrong-key call.
  - Three threads let a close, a method and a load interleave on one address.
  - Every method has the same shape, so enlarging `Methods` adds no new control path.
- Models: each optional part is unset, set, or (for constraints) set field by field, in both encodings; larger value sets would only rename the same strings.

**Deadlock.** Checking is off in the IdentityHandle runs: the program ends once every identity has been loaded and dropped. That is a real terminal state, not a deadlock, since no thread ever waits.

**Fairness.** No run assumes any: every property checked is a safety property.

**Mutants.** Each property of the passing run is broken by a plausible bug in the code it is about, and TLC finds the violation:
- `RequireHandleUnchecked` (no `None` check) breaks `NoUseAfterFree`;
- `CloseCheckUntested` (no `is not None` in `close`) breaks `FreeOnlyLiveAnchor`;
- `DropWithoutDel` (an object collected without `__del__`) breaks `NoLeak` in the shared run;
- `CloseClearNoReset` (close frees but never resets the field) breaks `AnchorRefinement`: the next method borrows a freed anchor;
- `ParseReceiptFlat` (description and data read from the top level) breaks `ReceiptRoundTrip`.

**Findings.**
- **Use after free when threads share an object.** The class neither synchronizes its calls nor documents that callers must. Spec §4.3 requires use after destruction to fail with `InvalidHandle`, and §5 requires calls on one anchor to be serialized or documented as needing external serialization.
- **`close()` is not safe to call more than once.** Its docstring says it is, but two concurrent calls can both free the anchor.
- **Errors are untyped.** `_check` raises the untyped `AgenticIdentityError` for every failure, so the `errors.py` hierarchy the package exports is never raised by a library call. Spec 4.2 and 8 say a wrong passphrase fails with `PassphraseError`, and §7 says no operation fails with a generic untyped failure. `except AidError` catches none of these errors.
- **`IdentityOperation` is not lowercased into an `ActionType` value.** `parse_receipt` applies `.lower()` to the type name, which works for the capitalized one-word names its test feeds it, but yields `identityoperation` for the two-word variant instead of `identity_operation`.
- **Null optional sections break `parse_trust_grant`.** `data.get("constraints", {})` returns `None` when the key holds null, and `constraints.get` then raises `AttributeError`. Spec 1 asks for tolerance of optional fields, and 4.1 counts absent and null as distinct encodings.
- **`parse_trust_grant` loses the signature.** It reads `data.get("signature", "")`, but the grant `create_trust_grant` returns carries the signature under `grantor_signature` (`test_identity.py` line 327). Every grant the library returns thus parses with signature `""`. `test_models.py` feeds the parser a hand-written dict with the parser's own key, so no test notices.
- **The example and the parser disagree on capabilities.** The example reads `c['uri']` of each capability. Spec 3, `TrustGrant`'s docstring, `parse_trust_grant` and `test_models.py` all treat capabilities as strings. Whichever way the Rust core serializes them, one of the two is wrong.

## 4. Proofs (TLAPS)

In `IdentityHandleProofs.tla`:

- **`TypeCorrect`:** `Spec => []TypeOK` for every value of the constants. It rests on `TypeInv`: `TypeOK` strengthened with "a busy thread's `self` is an object", which is needed because actions read `handle[obj[t]]`.
- **`SerializedSafety`:** assuming `Serialized = TRUE`, `Spec => [](NoUseAfterFree /\ FreeOnlyLiveAnchor /\ NoLeak)`. The inductive invariant `IInv` is the conjunction of the following (it was first checked by TLC as an invariant of the passing run):
  - `TypeInv`;
  - `ThreadInv`: a busy thread's object is live; in `require_ret` (between the two reads of `_require_handle`), the field is an address; in `native`, `h[t]` equals the object's current field and is an address; in `close_free`, the field is an address; in `close_clear`, no address holds the object's anchor;
  - `SerialInv`: two busy threads are on distinct objects;
  - `HandleInv`: a non-live object has a `None` field, and a non-`None` field names the object's own anchor, except in the window of `close()` between the free and the reset;
  - `NoLeak`.

  The key is `ThreadInv`'s `native` conjunct together with `SerialInv`. No other thread can be in close on the same object, so the address copied by `_require_handle` is still the field's value, and the field still names the object's own anchor.
- **`SerializedFreeOnlyLive`:** the `FreeOnlyLiveAnchor` conjunct of `SerializedSafety`, stated on its own.
- **`SharedNoLeak`:** `Spec => []NoLeak` for every value of the constants, `Serialized = FALSE` included. Its inductive invariant `LeakInv` does not use `SerialInv`. It was checked by TLC first, over 300,416 distinct states with three unserialized threads. It is the conjunction of:
  - `TypeInv`;
  - `CallerLive`: a busy thread's object is live;
  - `ClearWindow`: in `close_clear`, no address holds the object's anchor;
  - `NoLeak`.

  `ClearWindow` is what lets `self._handle = None` drop the field without orphaning an anchor. It is re-established by `CloseFree` through `NoLeak`: the address that close frees is the only one that can hold the object's anchor. This is so even when another thread's close has already freed it and the address went to another identity. `CallerLive` keeps `Load`, which only takes unborn objects, from touching the object of a thread in close.
- **The races.** The same argument fails without `SerialInv`, which is exactly where the two violation runs break.
- **`Refinement`:** assuming `Serialized = TRUE`, `Spec => AnchorRefinement`, i.e. the wrapper implements `AnchorLifecycle`. Three lemmas:
  - `InitRefines`: the mapped initial state is `Abs!Init`.
  - `StepRefines`: `IInv /\ IInv' /\ [Next]_vars => [Abs!Next]_AbsVars`, one step per action. `Load` is `Abs!Load`; `RequireReturn` is `Abs!Borrow` (the object is open because `SerialInv` keeps other threads out of its `close()`, and allocated by `HandleInv`); `NativeCall` and `MarshalRaise` are `Abs!Release`; `CloseFree` is `Abs!Close` (`NoLeak` says the freed address was the object's only one, `SerialInv` that nobody borrows it); `Drop` is `Abs!Drop`; every other step, `RequireHandle`'s test included, is a stutter (lemmas `AbsStutter` and `LocalStep`).
  - `SerializedIInv`: `Spec => []IInv`, from the invariance proof above.

  `StatusBar` is an IF chain rather than a CASE: CASE arms whose guards overlap (an unborn object also has a `None` field) denote a choice among them, not the first match TLC evaluates.

In `ModelsProofs.tla`:
- **`ReceiptRoundTripHolds`:** `Spec => []ReceiptRoundTrip`, from `NoneAssumption`. It rests on the lemma `ParseEncodeReceipt`, stated for receipts over arbitrary sets of ids, texts and times (`AnyReceipts`), not only the small sets of the run, and for every encoding of unset values and type names.
- **`GrantSignatureLost`:** `Spec => []ReadsBackGrant(grant, genc)`. Whenever `parse_trust_grant` returns on a grant serialized as the library does, its `TrustGrant` is `GrantUnsigned(g)`: every field of the grant, with the constraints flattened, except the signature, which is `""`. This is the finding of `models_grant_signature` stated for all grants: the signature is the only field lost. It rests on the lemma `ParseEncodeGrant`, over arbitrary grants (`AnyGrants`).
  - The argument goes field by field. `Get` of a merged object returns the member of the side that holds the key (`GetMerge`). An optional member is absent, null or the value (`GetOptField`). The parser's null checks and `{}` defaults therefore give back the logical value, because null is no value a field can hold (`NullIsNoScalar`, `NullIsNoObject`, derived from `NoneAssumption`).
  - The state is only the records handed to the parsers, so both theorems follow from `TypeOKInductive` (every reachable record is in `Receipts` and `Grants`, hence in `AnyReceipts` and `AnyGrants` by `ReceiptsAreAny` and `GrantsAreAny`) and the two lemmas.

## 5. What is only model-checked, and what is not modelled

TLAPS cannot reach the following, so they stay with TLC:
- liveness and `ENABLED`;
- what recursive definitions compute for every input;
- modules with `RECURSIVE` operators.

`FreeOnlyLiveAnchor`, `NoUseAfterFree` and `AnchorRefinement` are proved only under `Serialized = TRUE`: without serialization they are false, as the two violation runs show. The violated properties of `KeyVault` and `Models` are findings, not theorems.

Not modelled yet:
- **The composition of KeyVault with IdentityHandle.** A successful load yields the anchor that IdentityHandle then tracks.
- **The Rust engines**, which are described only by `spec.md`.
- **`IdentityInfo`, `VerificationResult`, `TrustScope`** of `models.py`: declarations the package never uses.
- **`Identity.__init__` on a null handle** (`__init__.py` 187): it raises before `_handle` is set, so `__del__`'s `close()` raises `AttributeError`. Only direct construction, which the class forbids, reaches it.
- **Library loading and `version()`.** These are environment lookups with no state to check.
- **The concurrent `sign_action` uniqueness requirement (spec §5).** It is decided inside Rust.

## 6. Plan

1. **`CapabilityMatch.tla`.** Spec §4.5's exact-or-prefix-wildcard match as an operator, checked against a reference definition over small capability sets; the example's expected GRANTED/DENIED lines as a check of it.
2. **`Receipts.tla` and `TrustGrants.tla`.** Spec-modelled signing with symbolic signatures and hashes, plus an adversary that tampers with serialized records. This covers round-trip, tamper sensitivity, temporal bounds and non-empty capabilities.
3. **Composition.** Anchors loaded by `KeyVault` feed `IdentityHandle`; sign and grant results feed `Models` and the verifiers.
