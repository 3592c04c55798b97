------------------------ MODULE IdentityHandleProofs ------------------------
(***************************************************************************)
(* Proofs about the Python `Identity` wrapper (module IdentityHandle):     *)
(* its type correctness for every value of the constants, and, for callers *)
(* that serialize their calls on each object, that no foreign call ever    *)
(* sees a freed or foreign anchor and no anchor is leaked.                 *)
(***************************************************************************)
EXTENDS IdentityHandle, TLAPS

(* Thread t is inside some wrapper call.                                    *)
Busy(t) == pc[t] # "idle"

(* TypeOK, and a busy thread's `self` is an object.                         *)
TypeInv ==
    /\ TypeOK
    /\ \A t \in Threads : Busy(t) => obj[t] \in Objects

(* What a thread inside a call knows of its object.                         *)
ThreadInv ==
    \A t \in Threads :
        /\ Busy(t) => objState[obj[t]] = "live"
        /\ pc[t] = "require_ret" => handle[obj[t]] \in Addrs
        /\ pc[t] = "native" => h[t] = handle[obj[t]] /\ h[t] \in Addrs
        /\ pc[t] = "close_free" => handle[obj[t]] \in Addrs
        /\ pc[t] = "close_clear" => \A a \in Addrs : heap[a] # obj[t]

(* Calls on one object never overlap (the serialized discipline).           *)
SerialInv ==
    \A t, u \in Threads : t # u /\ Busy(t) /\ Busy(u) => obj[t] # obj[u]

(* A field names its object's own anchor, except in the window of close()  *)
(* between aid_identity_free and the reset; only live objects hold one.    *)
HandleInv ==
    \A o \in Objects :
        /\ objState[o] # "live" => handle[o] = None
        /\ handle[o] # None /\ ~Closing(o) => heap[handle[o]] = o

(* The inductive invariant behind SerializedSafety.                         *)
IInv == TypeInv /\ ThreadInv /\ SerialInv /\ HandleInv /\ NoLeak

(* A busy thread's object is live: no object is collected while a frame   *)
(* of one of its methods still references it.                               *)
CallerLive == \A t \in Threads : Busy(t) => objState[obj[t]] = "live"

(* Between aid_identity_free and `self._handle = None` no address holds   *)
(* the closing object's anchor, whichever thread freed it.                 *)
ClearWindow ==
    \A t \in Threads : pc[t] = "close_clear" => \A a \in Addrs : heap[a] # obj[t]

(* The inductive invariant behind SharedNoLeak; unlike IInv it does not   *)
(* assume that calls on one object never overlap.                          *)
LeakInv == TypeInv /\ CallerLive /\ ClearWindow /\ NoLeak

-----------------------------------------------------------------------------
(* Every step keeps TypeInv: it holds initially and each action preserves  *)
(* it; a busy thread's object is needed to type the field it reads.        *)
LEMMA TypeInvInductive == TypeInv /\ [Next]_vars => TypeInv'
<1> SUFFICES ASSUME TypeInv, [Next]_vars PROVE TypeInv'
  OBVIOUS
<1> USE ConstantsAssumption DEF TypeInv, TypeOK, Busy, PCs, Methods
<1>1. ASSUME NEW t \in Threads, NEW o \in Objects, NEW a \in Addrs, Load(t, o, a)
      PROVE TypeInv'
  BY <1>1 DEF Load
<1>2. ASSUME NEW t \in Threads, NEW o \in Objects, NEW m \in Methods,
             StartMethod(t, o, m)
      PROVE TypeInv'
  BY <1>2 DEF StartMethod
<1>3. ASSUME NEW t \in Threads, NEW o \in Objects, StartClose(t, o)
      PROVE TypeInv'
  BY <1>3 DEF StartClose
<1>4. ASSUME NEW t \in Threads, ReprCheck(t) PROVE TypeInv'
  BY <1>4 DEF ReprCheck, Return
<1>5. ASSUME NEW t \in Threads, RequireHandle(t) PROVE TypeInv'
  BY <1>5 DEF RequireHandle, Return
<1>13. ASSUME NEW t \in Threads, RequireReturn(t) PROVE TypeInv'
  BY <1>13 DEF RequireReturn
<1>6. ASSUME NEW t \in Threads, NativeCall(t) \/ MarshalRaise(t) PROVE TypeInv'
  BY <1>6 DEF NativeCall, MarshalRaise, Return
<1>7. ASSUME NEW t \in Threads, CloseCheck(t) PROVE TypeInv'
  BY <1>7 DEF CloseCheck, Return
<1>8. ASSUME NEW t \in Threads, CloseFree(t) PROVE TypeInv'
  BY <1>8 DEF CloseFree
<1>9. ASSUME NEW t \in Threads, CloseClear(t) PROVE TypeInv'
  BY <1>9 DEF CloseClear, Return
<1>10. ASSUME NEW o \in Objects, Drop(o) PROVE TypeInv'
  BY <1>10 DEF Drop
<1>11. CASE UNCHANGED vars
  BY <1>11 DEF vars
<1>12. QED
  BY <1>1, <1>2, <1>3, <1>4, <1>5, <1>13, <1>6, <1>7, <1>8, <1>9, <1>10, <1>11
     DEF Next

(* Type correctness of the wrapper model, for all values of the constants. *)
THEOREM TypeCorrect == Spec => []TypeOK
<1>1. Init => TypeInv
  BY ConstantsAssumption DEF Init, TypeInv, TypeOK, Busy, PCs
<1>2. TypeInv => TypeOK
  BY DEF TypeInv
<1>3. QED
  BY <1>1, <1>2, TypeInvInductive, PTL DEF Spec

-----------------------------------------------------------------------------
LEMMA InitIInv == Init => IInv
BY ConstantsAssumption
   DEF Init, IInv, TypeInv, TypeOK, Busy, PCs, ThreadInv, SerialInv,
       HandleInv, NoLeak, Closing

(* The three safety properties follow from IInv.                           *)
LEMMA IInvSafe == IInv => NoUseAfterFree /\ FreeOnlyLiveAnchor /\ NoLeak
<1> SUFFICES ASSUME IInv PROVE NoUseAfterFree /\ FreeOnlyLiveAnchor /\ NoLeak
  OBVIOUS
<1>1. ASSUME NEW t \in Threads, pc[t] \in {"native", "close_free"}
      PROVE ~Closing(obj[t])
  BY <1>1 DEF IInv, SerialInv, Closing, Busy
<1>2. NoUseAfterFree
  BY <1>1, ConstantsAssumption
     DEF IInv, TypeInv, TypeOK, Busy, ThreadInv, HandleInv, NoUseAfterFree
<1>3. FreeOnlyLiveAnchor
  BY <1>1, ConstantsAssumption
     DEF IInv, TypeInv, TypeOK, Busy, ThreadInv, HandleInv, FreeOnlyLiveAnchor
<1>4. QED
  BY <1>2, <1>3 DEF IInv

LEMMA IInvInductive ==
    ASSUME Serialized = TRUE
    PROVE  IInv /\ [Next]_vars => IInv'
<1> SUFFICES ASSUME IInv, [Next]_vars PROVE IInv'
  OBVIOUS
<1>0. TypeInv'
  BY TypeInvInductive DEF IInv
<1> USE ConstantsAssumption, <1>0
    DEF IInv, TypeInv, TypeOK, Busy, PCs, ThreadInv, SerialInv, HandleInv,
        NoLeak, Closing
<1>1. ASSUME NEW t \in Threads, NEW o \in Objects, NEW a \in Addrs, Load(t, o, a)
      PROVE IInv'
  BY <1>1 DEF Load
<1>2. ASSUME NEW t \in Threads, NEW o \in Objects, NEW m \in Methods,
             StartMethod(t, o, m)
      PROVE IInv'
  BY <1>2 DEF StartMethod, MayEnter, InCall
<1>3. ASSUME NEW t \in Threads, NEW o \in Objects, StartClose(t, o)
      PROVE IInv'
  BY <1>3 DEF StartClose, MayEnter, InCall
<1>4. ASSUME NEW t \in Threads, ReprCheck(t) PROVE IInv'
  BY <1>4 DEF ReprCheck, Return
<1>5. ASSUME NEW t \in Threads, RequireHandle(t) PROVE IInv'
  BY <1>5 DEF RequireHandle, Return
<1>13. ASSUME NEW t \in Threads, RequireReturn(t) PROVE IInv'
  BY <1>13 DEF RequireReturn
<1>6. ASSUME NEW t \in Threads, NativeCall(t) \/ MarshalRaise(t) PROVE IInv'
  BY <1>6 DEF NativeCall, MarshalRaise, Return
<1>7. ASSUME NEW t \in Threads, CloseCheck(t) PROVE IInv'
  BY <1>7 DEF CloseCheck, Return
<1>8. ASSUME NEW t \in Threads, CloseFree(t) PROVE IInv'
  BY <1>8 DEF CloseFree
<1>9. ASSUME NEW t \in Threads, CloseClear(t) PROVE IInv'
  BY <1>9 DEF CloseClear, Return
<1>10. ASSUME NEW o \in Objects, Drop(o) PROVE IInv'
  BY <1>10 DEF Drop, InCall
<1>11. CASE UNCHANGED vars
  BY <1>11 DEF vars
<1>12. QED
  BY <1>1, <1>2, <1>3, <1>4, <1>5, <1>13, <1>6, <1>7, <1>8, <1>9, <1>10, <1>11
     DEF Next

(***************************************************************************)
(* For callers that never overlap calls on one Identity object, the        *)
(* wrapper never makes a foreign call on a freed or foreign anchor, never  *)
(* frees one twice, and never loses one: NoUseAfterFree, FreeOnlyLiveAnchor *)
(* and NoLeak hold in every reachable state, for any number of threads,    *)
(* objects and addresses.                                                  *)
(***************************************************************************)
THEOREM SerializedSafety ==
    ASSUME Serialized = TRUE
    PROVE  Spec => [](NoUseAfterFree /\ FreeOnlyLiveAnchor /\ NoLeak)
BY InitIInv, IInvInductive, IInvSafe, PTL DEF Spec

(* close(), __exit__ and a second close() free only the object's own live *)
(* anchor, under per-object serialized calls.                              *)
THEOREM SerializedFreeOnlyLive ==
    ASSUME Serialized = TRUE
    PROVE  Spec => []FreeOnlyLiveAnchor
BY SerializedSafety, PTL

-----------------------------------------------------------------------------
LEMMA InitLeakInv == Init => LeakInv
BY ConstantsAssumption
   DEF Init, LeakInv, TypeInv, TypeOK, Busy, PCs, CallerLive, ClearWindow, NoLeak

(* Each step keeps LeakInv, whether or not callers serialize their calls.  *)
(* The close_clear window is what lets `self._handle = None` drop a field  *)
(* without orphaning an anchor; NoLeak itself makes the thread that frees  *)
(* the field's address leave no other address holding the object.         *)
LEMMA LeakInvInductive == LeakInv /\ [Next]_vars => LeakInv'
<1> SUFFICES ASSUME LeakInv, [Next]_vars PROVE LeakInv'
  OBVIOUS
<1>0. TypeInv'
  BY TypeInvInductive DEF LeakInv
<1> USE ConstantsAssumption, <1>0
    DEF LeakInv, TypeInv, TypeOK, Busy, PCs, CallerLive, ClearWindow, NoLeak
<1>1. ASSUME NEW t \in Threads, NEW o \in Objects, NEW a \in Addrs, Load(t, o, a)
      PROVE LeakInv'
  BY <1>1 DEF Load
<1>2. ASSUME NEW t \in Threads, NEW o \in Objects, NEW m \in Methods,
             StartMethod(t, o, m)
      PROVE LeakInv'
  BY <1>2 DEF StartMethod
<1>3. ASSUME NEW t \in Threads, NEW o \in Objects, StartClose(t, o)
      PROVE LeakInv'
  BY <1>3 DEF StartClose
<1>4. ASSUME NEW t \in Threads, ReprCheck(t) PROVE LeakInv'
  BY <1>4 DEF ReprCheck, Return
<1>5. ASSUME NEW t \in Threads, RequireHandle(t) PROVE LeakInv'
  BY <1>5 DEF RequireHandle, Return
<1>13. ASSUME NEW t \in Threads, RequireReturn(t) PROVE LeakInv'
  BY <1>13 DEF RequireReturn
<1>6. ASSUME NEW t \in Threads, NativeCall(t) \/ MarshalRaise(t) PROVE LeakInv'
  BY <1>6 DEF NativeCall, MarshalRaise, Return
<1>7. ASSUME NEW t \in Threads, CloseCheck(t) PROVE LeakInv'
  BY <1>7 DEF CloseCheck, Return
<1>8. ASSUME NEW t \in Threads, CloseFree(t) PROVE LeakInv'
  BY <1>8 DEF CloseFree
<1>9. ASSUME NEW t \in Threads, CloseClear(t) PROVE LeakInv'
  BY <1>9 DEF CloseClear, Return
<1>10. ASSUME NEW o \in Objects, Drop(o) PROVE LeakInv'
  BY <1>10 DEF Drop, InCall
<1>11. CASE UNCHANGED vars
  BY <1>11 DEF vars
<1>12. QED
  BY <1>1, <1>2, <1>3, <1>4, <1>5, <1>13, <1>6, <1>7, <1>8, <1>9, <1>10, <1>11
     DEF Next

(***************************************************************************)
(* No anchor is leaked even when threads share an Identity object without  *)
(* a lock: close(), __exit__, __del__ and the methods, interleaved in any  *)
(* order by any number of threads, keep every allocated anchor reachable  *)
(* through the `_handle` of the live object that loaded it.  Overlapping   *)
(* calls can free the wrong anchor (identity_handle_race_free) but never   *)
(* orphan one.                                                              *)
(***************************************************************************)
THEOREM SharedNoLeak == Spec => []NoLeak
<1>1. LeakInv => NoLeak
  BY DEF LeakInv
<1>2. QED
  BY InitLeakInv, LeakInvInductive, <1>1, PTL DEF Spec

-----------------------------------------------------------------------------
(* Under serialized calls IInv holds in every reachable state.             *)
LEMMA SerializedIInv ==
    ASSUME Serialized = TRUE
    PROVE  Spec => []IInv
BY InitIInv, IInvInductive, PTL DEF Spec

(* Abbreviations for the abstract state under the refinement mapping.      *)
AbsVars == <<StatusBar, AllocBar, InFlightBar>>

LEMMA InitRefines == Init => Abs!Init
<1> SUFFICES ASSUME Init PROVE Abs!Init
  OBVIOUS
<1>1. StatusBar = [o \in Objects |-> "unborn"]
  BY DEF Init, StatusBar
<1>2. AllocBar = {}
  BY DEF Init, AllocBar
<1>3. InFlightBar = [t \in Threads |-> NoObj]
  BY DEF Init, InFlightBar
<1>4. QED
  BY <1>1, <1>2, <1>3 DEF Abs!Init

(* Steps that leave the abstract state alone: the three mapped functions   *)
(* are unchanged when no object changes lifecycle state, no address        *)
(* changes owner, no field changes, and no thread enters or leaves a call  *)
(* in progress, nor close_clear.                                           *)
LEMMA AbsStutter ==
    ASSUME TypeInv, TypeInv',
           UNCHANGED <<objState, heap, handle>>,
           \A u \in Threads : (pc'[u] = "native") = (pc[u] = "native"),
           \A u \in Threads : (pc'[u] = "close_clear") = (pc[u] = "close_clear"),
           \A u \in Threads : pc[u] \in {"native", "close_clear"} => obj'[u] = obj[u]
    PROVE  UNCHANGED AbsVars
<1>1. StatusBar' = StatusBar
  <2>1. \A o \in Objects : Closing(o)' = Closing(o)
    BY DEF Closing
  <2>2. QED
    BY <2>1 DEF StatusBar
<1>2. AllocBar' = AllocBar
  BY DEF AllocBar
<1>3. InFlightBar' = InFlightBar
  BY DEF InFlightBar, TypeInv, TypeOK
<1>4. QED
  BY <1>1, <1>2, <1>3 DEF AbsVars


(* A step of one thread that moves it between two places outside the      *)
(* foreign call and close_clear, and touches no object, address or field,  *)
(* leaves the abstract state alone.                                        *)
LEMMA LocalStep ==
    ASSUME TypeInv, TypeInv', NEW t \in Threads, NEW s,
           pc[t] \notin {"native", "close_clear"}, s \notin {"native", "close_clear"},
           pc' = [pc EXCEPT ![t] = s],
           \A u \in Threads \ {t} : obj'[u] = obj[u],
           UNCHANGED <<objState, heap, handle>>
    PROVE  UNCHANGED AbsVars
<1>1. \A u \in Threads : (pc'[u] = "native") = (pc[u] = "native")
  BY DEF TypeInv, TypeOK
<1>2. \A u \in Threads : (pc'[u] = "close_clear") = (pc[u] = "close_clear")
  BY DEF TypeInv, TypeOK
<1>3. \A u \in Threads : pc[u] \in {"native", "close_clear"} => obj'[u] = obj[u]
  OBVIOUS
<1>4. QED
  BY <1>1, <1>2, <1>3, AbsStutter

LEMMA StepRefines ==
    ASSUME Serialized = TRUE
    PROVE  IInv /\ IInv' /\ [Next]_vars => [Abs!Next]_AbsVars
<1> SUFFICES ASSUME IInv, IInv', [Next]_vars PROVE [Abs!Next]_AbsVars
  OBVIOUS
<1> USE ConstantsAssumption
<1>0. TypeInv /\ TypeInv'
  BY DEF IInv
<1>1. ASSUME NEW t \in Threads, NEW o \in Objects, NEW a \in Addrs, Load(t, o, a)
      PROVE [Abs!Next]_AbsVars
  <2>1. ~Closing(o) /\ ~Closing(o)'
    BY <1>1 DEF Load, Closing, IInv, ThreadInv, TypeInv, TypeOK, Busy
  <2>2. StatusBar[o] = "unborn"
    BY <1>1 DEF Load, StatusBar
  <2>3. objState'[o] = "live" /\ handle'[o] = a
    BY <1>0, <1>1 DEF Load, TypeInv, TypeOK
  <2>4. StatusBar'[o] = "open"
    BY <2>1, <2>3 DEF StatusBar
  <2>5. \A o2 \in Objects \ {o} : StatusBar'[o2] = StatusBar[o2]
    BY <1>1 DEF Load, StatusBar, Closing, IInv, TypeInv, TypeOK
  <2>6. StatusBar' = [StatusBar EXCEPT ![o] = "open"]
    BY <2>4, <2>5 DEF StatusBar
  <2>7. AllocBar' = AllocBar \cup {o}
    BY <1>1 DEF Load, AllocBar, IInv, TypeInv, TypeOK
  <2>8. InFlightBar' = InFlightBar
    BY <1>1 DEF Load, InFlightBar
  <2>9. Abs!Load(o)
    BY <2>2, <2>6, <2>7, <2>8 DEF Abs!Load
  <2>10. QED
    BY <2>9 DEF Abs!Next
<1>2. ASSUME NEW t \in Threads, NEW o \in Objects, NEW m \in Methods,
             StartMethod(t, o, m)
      PROVE [Abs!Next]_AbsVars
  <2>1. UNCHANGED AbsVars
    BY <1>0, <1>2, LocalStep DEF StartMethod, TypeInv, TypeOK
  <2>2. QED
    BY <2>1 DEF AbsVars
<1>3. ASSUME NEW t \in Threads, NEW o \in Objects, StartClose(t, o)
      PROVE [Abs!Next]_AbsVars
  <2>1. UNCHANGED AbsVars
    BY <1>0, <1>3, LocalStep DEF StartClose, TypeInv, TypeOK
  <2>2. QED
    BY <2>1 DEF AbsVars
<1>4. ASSUME NEW t \in Threads, ReprCheck(t) PROVE [Abs!Next]_AbsVars
  <2>1. CASE handle[obj[t]] = None
    BY <1>0, <1>4, <2>1, LocalStep DEF ReprCheck, Return, TypeInv, TypeOK, AbsVars
  <2>2. CASE handle[obj[t]] # None
    BY <1>0, <1>4, <2>2, LocalStep DEF ReprCheck, AbsVars
  <2>3. QED
    BY <2>1, <2>2
<1>5. ASSUME NEW t \in Threads, RequireHandle(t) PROVE [Abs!Next]_AbsVars
  <2>1. CASE handle[obj[t]] = None
    BY <1>0, <1>5, <2>1, LocalStep DEF RequireHandle, Return, TypeInv, TypeOK, AbsVars
  <2>2. CASE handle[obj[t]] # None
    BY <1>0, <1>5, <2>2, LocalStep DEF RequireHandle, AbsVars
  <2>3. QED
    BY <2>1, <2>2
<1>13. ASSUME NEW t \in Threads, RequireReturn(t) PROVE [Abs!Next]_AbsVars
  <2>0. /\ pc' = [pc EXCEPT ![t] = "native"] /\ obj' = obj
        /\ UNCHANGED <<objState, handle, heap>>
    BY <1>13 DEF RequireReturn
  <2>1. obj[t] \in Objects /\ objState[obj[t]] = "live" /\ ~Closing(obj[t])
        /\ handle[obj[t]] \in Addrs
    BY <1>13 DEF RequireReturn, IInv, TypeInv, Busy, ThreadInv, SerialInv, Closing
  <2>2. StatusBar[obj[t]] = "open"
    BY <2>1 DEF StatusBar
  <2>3. obj[t] \in AllocBar
    BY <2>1 DEF AllocBar, IInv, HandleInv, TypeInv, TypeOK
  <2>4. InFlightBar[t] = NoObj
    BY <1>13 DEF RequireReturn, InFlightBar
  <2>5. InFlightBar' = [InFlightBar EXCEPT ![t] = obj[t]]
    BY <1>0, <2>0 DEF InFlightBar, TypeInv, TypeOK
  <2>6. \A o \in Objects : Closing(o)' = Closing(o)
    BY <1>0, <1>13, <2>0 DEF RequireReturn, Closing, TypeInv, TypeOK
  <2>7. StatusBar' = StatusBar /\ AllocBar' = AllocBar
    BY <2>0, <2>6 DEF StatusBar, AllocBar
  <2>8. Abs!Borrow(t, obj[t])
    BY <2>2, <2>3, <2>4, <2>5, <2>7 DEF Abs!Borrow
  <2>9. QED
    BY <2>1, <2>8 DEF Abs!Next
<1>6. ASSUME NEW t \in Threads, NativeCall(t) \/ MarshalRaise(t)
      PROVE [Abs!Next]_AbsVars
  <2>1. pc[t] = "native" /\ obj[t] \in Objects /\ Return(t)
        /\ UNCHANGED <<objState, handle, heap>>
    BY <1>6 DEF NativeCall, MarshalRaise, IInv, TypeInv, Busy
  <2>2. InFlightBar[t] # NoObj /\ InFlightBar' = [InFlightBar EXCEPT ![t] = NoObj]
    BY <2>1 DEF Return, InFlightBar, IInv, TypeInv, TypeOK
  <2>3. StatusBar' = StatusBar /\ AllocBar' = AllocBar
    BY <2>1 DEF Return, StatusBar, AllocBar, Closing, IInv, TypeInv, TypeOK
  <2>4. Abs!Release(t)
    BY <2>2, <2>3 DEF Abs!Release
  <2>5. QED
    BY <2>4 DEF Abs!Next
<1>7. ASSUME NEW t \in Threads, CloseCheck(t) PROVE [Abs!Next]_AbsVars
  <2>1. CASE handle[obj[t]] = None
    BY <1>0, <1>7, <2>1, LocalStep DEF CloseCheck, Return, TypeInv, TypeOK, AbsVars
  <2>2. CASE handle[obj[t]] # None
    BY <1>0, <1>7, <2>2, LocalStep DEF CloseCheck, AbsVars
  <2>3. QED
    BY <2>1, <2>2
<1>8. ASSUME NEW t \in Threads, CloseFree(t) PROVE [Abs!Next]_AbsVars
  <2> DEFINE ob == obj[t]
  <2> DEFINE ad == handle[ob]
  <2>1. ob \in Objects /\ objState[ob] = "live" /\ ad \in Addrs /\ heap[ad] = ob
        /\ ~Closing(ob)
    BY <1>8 DEF CloseFree, IInv, TypeInv, Busy, ThreadInv, HandleInv, SerialInv, Closing
  <2>2. heap' = [heap EXCEPT ![ad] = Free] /\ pc'[t] = "close_clear"
        /\ UNCHANGED <<objState, handle, obj>>
    BY <1>0, <1>8, <2>1 DEF CloseFree, TypeInv, TypeOK
  <2>3. \A b \in Addrs : heap[b] = ob => b = ad
    BY <2>1 DEF IInv, NoLeak
  <2>4. AllocBar' = AllocBar \ {ob}
    BY <2>1, <2>2, <2>3 DEF AllocBar, IInv, TypeInv, TypeOK
  <2>5. StatusBar[ob] = "open" /\ Closing(ob)'
    BY <2>1, <2>2 DEF StatusBar, Closing
  <2>6. \A o2 \in Objects \ {ob} : Closing(o2)' = Closing(o2)
    BY <1>8, <2>1 DEF CloseFree, Closing
  <2>7. StatusBar' = [StatusBar EXCEPT ![ob] = "closed"]
    BY <2>1, <2>2, <2>5, <2>6 DEF StatusBar
  <2>8. \A u \in Threads : InFlightBar[u] # ob
    BY <1>8, <2>1 DEF CloseFree, InFlightBar, IInv, SerialInv, Busy
  <2>9. InFlightBar' = InFlightBar
    BY <1>8 DEF CloseFree, InFlightBar
  <2>10. Abs!Close(ob)
    BY <2>4, <2>5, <2>7, <2>8, <2>9 DEF Abs!Close, Abs!Unborrowed
  <2>11. QED
    BY <2>1, <2>10 DEF Abs!Next
<1>9. ASSUME NEW t \in Threads, CloseClear(t) PROVE [Abs!Next]_AbsVars
  <2> DEFINE o == obj[t]
  <2>1. o \in Objects /\ Closing(o)
    BY <1>9 DEF CloseClear, IInv, TypeInv, Busy, Closing
  <2>2. \A u \in Threads \ {t} : pc[u] # "idle" => obj[u] # o
    BY <1>9, <2>1 DEF CloseClear, IInv, SerialInv, Busy
  <2>3. \A o2 \in Objects \ {o} : Closing(o2)' = Closing(o2)
    BY <1>9, <2>1 DEF CloseClear, Return, Closing, IInv, TypeInv, TypeOK
  <2>4. StatusBar' = StatusBar
    BY <1>9, <2>1, <2>3 DEF CloseClear, StatusBar, IInv, TypeInv, TypeOK
  <2>5. AllocBar' = AllocBar /\ InFlightBar' = InFlightBar
    BY <1>9 DEF CloseClear, Return, AllocBar, InFlightBar, IInv, TypeInv, TypeOK
  <2>6. QED
    BY <2>4, <2>5 DEF AbsVars
<1>10. ASSUME NEW o \in Objects, Drop(o) PROVE [Abs!Next]_AbsVars
  <2>0. objState[o] = "live" /\ objState'[o] = "dropped"
    BY <1>0, <1>10 DEF Drop, TypeInv, TypeOK
  <2>1. StatusBar[o] \in {"open", "closed"} /\ StatusBar'[o] = "dropped"
    BY <2>0 DEF StatusBar
  <2>2. ~Closing(o)
    BY <1>10 DEF Drop, Closing, InCall
  <2>3. \A o2 \in Objects \ {o} : StatusBar'[o2] = StatusBar[o2]
    BY <1>10 DEF Drop, StatusBar, Closing
  <2>4. StatusBar' = [StatusBar EXCEPT ![o] = "dropped"]
    BY <2>1, <2>3 DEF StatusBar
  <2>5. AllocBar' = AllocBar \ {o}
    <3>1. CASE handle[o] = None
      <4>1. \A b \in Addrs : heap[b] # o
        BY <3>1 DEF IInv, NoLeak
      <4>2. QED
        BY <1>10, <3>1, <4>1 DEF Drop, AllocBar
    <3>2. CASE handle[o] # None
      <4>1. handle[o] \in Addrs /\ heap[handle[o]] = o
        BY <3>2, <2>2 DEF IInv, HandleInv, TypeInv, TypeOK
      <4>2. \A b \in Addrs : heap[b] = o => b = handle[o]
        BY DEF IInv, NoLeak
      <4>3. QED
        BY <1>10, <3>2, <4>1, <4>2 DEF Drop, AllocBar, IInv, TypeInv, TypeOK
    <3>3. QED
      BY <3>1, <3>2
  <2>6. Abs!Unborrowed(o) /\ InFlightBar' = InFlightBar
    BY <1>10 DEF Drop, InFlightBar, InCall, Abs!Unborrowed
  <2>7. Abs!Drop(o)
    BY <2>1, <2>4, <2>5, <2>6 DEF Abs!Drop
  <2>8. QED
    BY <2>7 DEF Abs!Next
<1>11. CASE UNCHANGED vars
  BY <1>11 DEF vars, AbsVars, StatusBar, AllocBar, InFlightBar, Closing
<1>12. QED
  BY <1>1, <1>2, <1>3, <1>4, <1>5, <1>13, <1>6, <1>7, <1>8, <1>9, <1>10, <1>11
     DEF Next


(***************************************************************************)
(* For callers that serialize their calls on each object, the wrapper      *)
(* implements AnchorLifecycle under the mapping StatusBar, AllocBar,       *)
(* InFlightBar: load, the methods, close, __exit__ and __del__ never take  *)
(* a step the abstract anchor lifecycle forbids.                           *)
(***************************************************************************)
THEOREM Refinement ==
    ASSUME Serialized = TRUE
    PROVE  Spec => AnchorRefinement
<1>1. Spec => []IInv
  BY SerializedIInv
<1>2. IInv /\ IInv' /\ [Next]_vars => [Abs!Next]_AbsVars
  BY StepRefines
<1>3. QED
  BY <1>1, <1>2, InitRefines, PTL DEF Spec, AnchorRefinement, Abs!Spec, AbsVars, Abs!vars

=============================================================================
