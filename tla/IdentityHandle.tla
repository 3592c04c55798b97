--------------------------- MODULE IdentityHandle ---------------------------
(***************************************************************************)
(* The Python `Identity` wrapper of src/python/src/agentic_identity/       *)
(* __init__.py and the native anchors it owns.                             *)
(*                                                                         *)
(* An `Identity` object keeps one field, `self._handle`: the address of a  *)
(* native IdentityAnchor, or None once closed.  Python threads may share   *)
(* an object.  Every access to `_handle` and every foreign call is its own *)
(* step, because the interpreter may switch threads between bytecodes and  *)
(* ctypes releases the GIL for the duration of each foreign call.          *)
(*                                                                         *)
(* The native heap is abstracted to the map `heap`: which object's load    *)
(* allocated the anchor at an address, or Free.  Addresses are reused by   *)
(* the allocator, so a stale address may name another identity's anchor.  *)
(* Strings returned by the library are allocated and freed inside one      *)
(* step of one thread (`_take_string`) and are not part of the state.      *)
(***************************************************************************)
EXTENDS Naturals, FiniteSets

CONSTANTS
    Threads,     \* Python threads calling into the wrapper
    Objects,     \* `Identity` objects the program may create, one per load
    Addrs,       \* addresses the native allocator may hand out for anchors
    None,        \* Python None / a null pointer
    Free,        \* marks an address with no live anchor
    NoObj,       \* a thread that is not inside a call on any object
    Serialized   \* TRUE when callers never overlap calls on one object

ASSUME ConstantsAssumption ==
    /\ None \notin Addrs
    /\ Free \notin Objects
    /\ NoObj \notin Objects
    /\ Serialized \in BOOLEAN

(* The methods that read `_handle` and then make one foreign call on it.  *)
Methods == {"identity_id", "public_key", "sign_action",
            "create_trust_grant", "__repr__"}

(* sign_action and create_trust_grant marshal a JSON argument between     *)
(* `_require_handle` and the foreign call; json.dumps can raise there.   *)
MarshalMayRaise == {"sign_action", "create_trust_grant"}

PCs == {"idle", "repr_check", "require", "require_ret", "native",
        "close_check", "close_free", "close_clear"}

VARIABLES
    objState,   \* objState[o]: "unborn", "live" (reachable), or "dropped" (collected)
    handle,     \* handle[o]: the field self._handle of object o
    heap,       \* heap[a]: the object whose load allocated the anchor at a, or Free
    pc,         \* pc[t]: where thread t is inside a wrapper call
    obj,        \* obj[t]: `self` of the call thread t is in
    op,         \* op[t]: the method thread t is in
    h           \* h[t]: the local `handle` returned by `_require_handle`

vars == <<objState, handle, heap, pc, obj, op, h>>

TypeOK ==
    /\ objState \in [Objects -> {"unborn", "live", "dropped"}]
    /\ handle \in [Objects -> Addrs \cup {None}]
    /\ heap \in [Addrs -> Objects \cup {Free}]
    /\ pc \in [Threads -> PCs]
    /\ obj \in [Threads -> Objects \cup {NoObj}]
    /\ op \in [Threads -> Methods \cup {"close", "none"}]
    /\ h \in [Threads -> Addrs \cup {None}]

Init ==
    /\ objState = [o \in Objects |-> "unborn"]
    /\ handle = [o \in Objects |-> None]
    /\ heap = [a \in Addrs |-> Free]
    /\ pc = [t \in Threads |-> "idle"]
    /\ obj = [t \in Threads |-> NoObj]
    /\ op = [t \in Threads |-> "none"]
    /\ h = [t \in Threads |-> None]

-----------------------------------------------------------------------------
(* Thread t is inside a call on object o.                                  *)
InCall(t, o) == pc[t] # "idle" /\ obj[t] = o

(* Under the serialized discipline no other thread is inside a call on o. *)
MayEnter(t, o) == Serialized => \A u \in Threads \ {t} : ~InCall(u, o)

(* Return thread t to the caller, normally or by an exception.             *)
Return(t) ==
    /\ pc' = [pc EXCEPT ![t] = "idle"]
    /\ obj' = [obj EXCEPT ![t] = NoObj]
    /\ op' = [op EXCEPT ![t] = "none"]
    /\ h' = [h EXCEPT ![t] = None]

(***************************************************************************)
(* Identity.load: aid_identity_load allocates an anchor at a free address  *)
(* and `cls(anchor_out)` stores it in a new object.  A failed load raises   *)
(* from `_check` and changes nothing.  The new object is reachable by      *)
(* every thread from then on.                                              *)
(***************************************************************************)
Load(t, o, a) ==
    /\ pc[t] = "idle"
    /\ objState[o] = "unborn"
    /\ heap[a] = Free
    /\ objState' = [objState EXCEPT ![o] = "live"]
    /\ handle' = [handle EXCEPT ![o] = a]
    /\ heap' = [heap EXCEPT ![a] = o]
    /\ UNCHANGED <<pc, obj, op, h>>

(* A call of method m, or of close/__exit__, on a live object begins.      *)
StartMethod(t, o, m) ==
    /\ pc[t] = "idle"
    /\ objState[o] = "live"
    /\ MayEnter(t, o)
    /\ pc' = [pc EXCEPT ![t] = IF m = "__repr__" THEN "repr_check" ELSE "require"]
    /\ obj' = [obj EXCEPT ![t] = o]
    /\ op' = [op EXCEPT ![t] = m]
    /\ UNCHANGED <<objState, handle, heap, h>>

StartClose(t, o) ==
    /\ pc[t] = "idle"
    /\ objState[o] = "live"
    /\ MayEnter(t, o)
    /\ pc' = [pc EXCEPT ![t] = "close_check"]
    /\ obj' = [obj EXCEPT ![t] = o]
    /\ op' = [op EXCEPT ![t] = "close"]
    /\ UNCHANGED <<objState, handle, heap, h>>

(* __repr__: a closed object prints as closed without a foreign call.      *)
ReprCheck(t) ==
    /\ pc[t] = "repr_check"
    /\ IF handle[obj[t]] = None
         THEN Return(t)
         ELSE /\ pc' = [pc EXCEPT ![t] = "require"]
              /\ UNCHANGED <<obj, op, h>>
    /\ UNCHANGED <<objState, handle, heap>>

(* Mutant: `_require_handle` without its `is None` test.                 *)
RequireHandleUnchecked(t) ==
    /\ pc[t] = "require"
    /\ pc' = [pc EXCEPT ![t] = "require_ret"]
    /\ UNCHANGED <<objState, handle, heap, obj, op, h>>

(* _require_handle, `if self._handle is None: raise`.                      *)
RequireHandle(t) ==
    /\ pc[t] = "require"
    /\ IF handle[obj[t]] = None
         THEN Return(t)
         ELSE /\ pc' = [pc EXCEPT ![t] = "require_ret"]
              /\ UNCHANGED <<obj, op, h>>
    /\ UNCHANGED <<objState, handle, heap>>

(* `return self._handle`, read a second time, into the method's local     *)
(* `handle`; a close since the test makes it None.                        *)
RequireReturn(t) ==
    /\ pc[t] = "require_ret"
    /\ pc' = [pc EXCEPT ![t] = "native"]
    /\ h' = [h EXCEPT ![t] = handle[obj[t]]]
    /\ UNCHANGED <<objState, handle, heap, obj, op>>

(***************************************************************************)
(* The rest of the method: marshal the arguments (json.dumps may raise),   *)
(* make the foreign call on the local address, `_check` its return code   *)
(* and `_take_string` the result.  None of it changes shared state: the    *)
(* call only reads the anchor, and the result string is freed in the step. *)
(***************************************************************************)
NativeCall(t) ==
    /\ pc[t] = "native"
    /\ Return(t)
    /\ UNCHANGED <<objState, handle, heap>>

MarshalRaise(t) ==
    /\ pc[t] = "native"
    /\ op[t] \in MarshalMayRaise
    /\ Return(t)
    /\ UNCHANGED <<objState, handle, heap>>

(* Mutant: close() without its `is not None` test.                          *)
CloseCheckUntested(t) ==
    /\ pc[t] = "close_check"
    /\ pc' = [pc EXCEPT ![t] = "close_free"]
    /\ UNCHANGED <<objState, handle, heap, obj, op, h>>

(* close(): `if self._handle is not None:`                                 *)
CloseCheck(t) ==
    /\ pc[t] = "close_check"
    /\ IF handle[obj[t]] = None
         THEN Return(t)
         ELSE /\ pc' = [pc EXCEPT ![t] = "close_free"]
              /\ UNCHANGED <<obj, op, h>>
    /\ UNCHANGED <<objState, handle, heap>>

(* `_lib.aid_identity_free(self._handle)`: the field is read again here;   *)
(* the library ignores a null pointer.                                     *)
CloseFree(t) ==
    /\ pc[t] = "close_free"
    /\ LET a == handle[obj[t]] IN
         heap' = IF a = None THEN heap ELSE [heap EXCEPT ![a] = Free]
    /\ pc' = [pc EXCEPT ![t] = "close_clear"]
    /\ UNCHANGED <<objState, handle, obj, op, h>>

(* Mutant: close() frees the anchor but leaves the field set.              *)
CloseClearNoReset(t) ==
    /\ pc[t] = "close_clear"
    /\ Return(t)
    /\ UNCHANGED <<objState, handle, heap>>

(* `self._handle = None`                                                    *)
CloseClear(t) ==
    /\ pc[t] = "close_clear"
    /\ handle' = [handle EXCEPT ![obj[t]] = None]
    /\ Return(t)
    /\ UNCHANGED <<objState, heap>>

(* Mutant: the object is collected without __del__ closing it.            *)
DropWithoutDel(o) ==
    /\ objState[o] = "live"
    /\ \A t \in Threads : ~InCall(t, o)
    /\ objState' = [objState EXCEPT ![o] = "dropped"]
    /\ UNCHANGED <<handle, heap, pc, obj, op, h>>

(***************************************************************************)
(* The program drops its last reference to o and CPython runs __del__,     *)
(* which is close().  No thread is inside a call on o, whose frame would   *)
(* still reference it, and no thread can reach o afterwards, so the whole  *)
(* close runs as one step.                                                 *)
(***************************************************************************)
Drop(o) ==
    /\ objState[o] = "live"
    /\ \A t \in Threads : ~InCall(t, o)
    /\ objState' = [objState EXCEPT ![o] = "dropped"]
    /\ heap' = IF handle[o] = None THEN heap ELSE [heap EXCEPT ![handle[o]] = Free]
    /\ handle' = [handle EXCEPT ![o] = None]
    /\ UNCHANGED <<pc, obj, op, h>>

Next ==
    \/ \E t \in Threads, o \in Objects, a \in Addrs : Load(t, o, a)
    \/ \E t \in Threads, o \in Objects, m \in Methods : StartMethod(t, o, m)
    \/ \E t \in Threads, o \in Objects : StartClose(t, o)
    \/ \E t \in Threads :
          \/ ReprCheck(t) \/ RequireHandle(t) \/ RequireReturn(t)
          \/ NativeCall(t) \/ MarshalRaise(t)
          \/ CloseCheck(t) \/ CloseFree(t) \/ CloseClear(t)
    \/ \E o \in Objects : Drop(o)

Spec == Init /\ [][Next]_vars

-----------------------------------------------------------------------------
(* Some thread has freed o's anchor in close() but not yet reset the field. *)
Closing(o) == \E t \in Threads : pc[t] = "close_clear" /\ obj[t] = o

(* The refinement mapping onto AnchorLifecycle: an object counts as closed *)
(* from the moment close() frees its anchor; an object's anchor is         *)
(* allocated while some address holds it; a thread borrows its object's   *)
(* anchor from `_require_handle` returning it until the method returns.    *)
StatusBar ==
    [o \in Objects |->
        IF objState[o] # "live" THEN objState[o]
        ELSE IF handle[o] = None \/ Closing(o) THEN "closed"
        ELSE "open"]

AllocBar == {heap[a] : a \in Addrs} \ {Free}

InFlightBar == [t \in Threads |-> IF pc[t] = "native" THEN obj[t] ELSE NoObj]

Abs == INSTANCE AnchorLifecycle
           WITH status <- StatusBar, alloc <- AllocBar, inFlight <- InFlightBar

-----------------------------------------------------------------------------
(***************************************************************************)
(* No use after free (spec 4.3: an anchor used after destruction must fail *)
(* with InvalidHandle, never operate on freed memory): when a method makes *)
(* its foreign call, the address it took from `_require_handle` is not     *)
(* null and holds the live anchor that this very object loaded: not a      *)
(* freed one, and not another identity's anchor reallocated at the same    *)
(* address.                                                                *)
(***************************************************************************)
NoUseAfterFree ==
    \A t \in Threads :
        pc[t] = "native" => h[t] \in Addrs /\ heap[h[t]] = obj[t]

(***************************************************************************)
(* Free only a live anchor (close() is documented as safe to call more    *)
(* than once, and tests the field before freeing): when close(), __exit__ *)
(* or a second close() reaches aid_identity_free, the field it passes is   *)
(* not null and holds the anchor this object loaded, so nothing is freed   *)
(* twice and no other identity's anchor is freed.                          *)
(***************************************************************************)
FreeOnlyLiveAnchor ==
    \A t \in Threads :
        pc[t] = "close_free" =>
            handle[obj[t]] \in Addrs /\ heap[handle[obj[t]]] = obj[t]

(***************************************************************************)
(* No leaked anchor (the Identity docstring: native memory is freed when   *)
(* the object is collected or closed): every allocated anchor is still     *)
(* reachable through the `_handle` of the live object that loaded it.      *)
(***************************************************************************)
NoLeak ==
    \A a \in Addrs :
        heap[a] # Free => objState[heap[a]] = "live" /\ handle[heap[a]] = a

(***************************************************************************)
(* The wrapper implements the anchor lifecycle of spec 4.3 and 9: every    *)
(* step of load, a method, close, __exit__ or __del__ is a step of         *)
(* AnchorLifecycle or leaves its state alone, so no method uses an anchor  *)
(* of a closed or collected object and no anchor is freed while a method   *)
(* uses it or freed twice.                                                 *)
(***************************************************************************)
AnchorRefinement == Abs!Spec

=============================================================================
