--------------------------- MODULE AnchorLifecycle ---------------------------
(***************************************************************************)
(* What an Identity object promises of the native anchor it owns (spec     *)
(* 4.3, 5 and 9): each object holds one anchor from its load until it is   *)
(* closed or collected; a method borrows the anchor only while the object  *)
(* is open and the anchor allocated; and the anchor is released, once,     *)
(* only when no method is borrowing it.  Each operation is one atomic      *)
(* step; module IdentityHandle refines it.                                 *)
(***************************************************************************)
CONSTANTS Threads, Objects, NoObj

VARIABLES
    status,     \* status[o]: "unborn", "open", "closed" or "dropped"
    alloc,      \* the objects whose anchor is allocated
    inFlight    \* inFlight[t]: the object whose anchor thread t's call borrows

vars == <<status, alloc, inFlight>>

TypeOK ==
    /\ status \in [Objects -> {"unborn", "open", "closed", "dropped"}]
    /\ alloc \subseteq Objects
    /\ inFlight \in [Threads -> Objects \cup {NoObj}]

Init ==
    /\ status = [o \in Objects |-> "unborn"]
    /\ alloc = {}
    /\ inFlight = [t \in Threads |-> NoObj]

(* No call is borrowing o's anchor.                                         *)
Unborrowed(o) == \A t \in Threads : inFlight[t] # o

(* A load yields an open object holding a fresh anchor.                     *)
Load(o) ==
    /\ status[o] = "unborn"
    /\ status' = [status EXCEPT ![o] = "open"]
    /\ alloc' = alloc \cup {o}
    /\ UNCHANGED inFlight

(* A method starts using o's anchor: o is open and its anchor allocated.   *)
Borrow(t, o) ==
    /\ inFlight[t] = NoObj
    /\ status[o] = "open"
    /\ o \in alloc
    /\ inFlight' = [inFlight EXCEPT ![t] = o]
    /\ UNCHANGED <<status, alloc>>

(* The method is done with the anchor, normally or by an exception.        *)
Release(t) ==
    /\ inFlight[t] # NoObj
    /\ inFlight' = [inFlight EXCEPT ![t] = NoObj]
    /\ UNCHANGED <<status, alloc>>

(* close(): an open object's anchor is released, with no call using it.    *)
Close(o) ==
    /\ status[o] = "open"
    /\ Unborrowed(o)
    /\ status' = [status EXCEPT ![o] = "closed"]
    /\ alloc' = alloc \ {o}
    /\ UNCHANGED inFlight

(* Collection: the object goes, and its anchor with it if still held.      *)
Drop(o) ==
    /\ status[o] \in {"open", "closed"}
    /\ Unborrowed(o)
    /\ status' = [status EXCEPT ![o] = "dropped"]
    /\ alloc' = alloc \ {o}
    /\ UNCHANGED inFlight

Next ==
    \/ \E o \in Objects : Load(o) \/ Close(o) \/ Drop(o)
    \/ \E t \in Threads : Release(t) \/ \E o \in Objects : Borrow(t, o)

Spec == Init /\ [][Next]_vars

=============================================================================
