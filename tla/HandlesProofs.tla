---------------------------- MODULE HandlesProofs ----------------------------
(***************************************************************************)
(* Handle<T, Free> proved for any number of owners and engine objects.     *)
(*                                                                         *)
(* The four invariants are inductive only together: that a free meets a    *)
(* live object needs NoDangling, that it leaves nobody dangling needs      *)
(* OneOwner, and that a new object has no owner yet needs NoDangling again.*)
(***************************************************************************)
EXTENDS Handles, TLAPS

IInv == TypeOK /\ NoLeak /\ NoDangling /\ OneOwner

LEMMA InitIInv == Init => IInv
  BY DEF Init, IInv, TypeOK, NoLeak, NoDangling, OneOwner, EngineStates

LEMMA StepIInv == IInv /\ [Next]_vars => IInv'
<1> SUFFICES ASSUME IInv, [Next]_vars PROVE IInv'
  OBVIOUS
<1> USE NullAssumption DEF IInv, TypeOK, NoLeak, NoDangling, OneOwner, Holds, EngineStates
<1>1. ASSUME NEW o \in Objects, Default(o) PROVE IInv'
  BY <1>1 DEF Default
<1>2. ASSUME NEW o \in Objects, Release(o) PROVE IInv'
  BY <1>2 DEF Release
<1>3. ASSUME NEW o \in Objects, Destroy(o) PROVE IInv'
  BY <1>3 DEF Destroy, FreeIfAny, Free
<1>4. ASSUME NEW o \in Objects, NEW x \in EngineObjects, Adopt(o, x) PROVE IInv'
  BY <1>4 DEF Adopt
<1>5. ASSUME NEW d \in Objects, NEW s \in Objects, MoveConstruct(d, s) PROVE IInv'
  BY <1>5 DEF MoveConstruct
<1>6. ASSUME NEW d \in Objects, NEW s \in Objects, MoveAssign(d, s) PROVE IInv'
  <2>1. CASE d = s
    BY <1>6, <2>1 DEF MoveAssign, FreeIfAny, Free
  <2>2. CASE d # s
    BY <1>6, <2>2 DEF MoveAssign, FreeIfAny, Free
  <2> QED BY <2>1, <2>2
<1>7. CASE UNCHANGED vars
  BY <1>7 DEF vars
<1> QED
  BY <1>1, <1>2, <1>3, <1>4, <1>5, <1>6, <1>7 DEF Next

LEMMA AlwaysIInv == Spec => []IInv
  BY InitIInv, StepIInv, PTL DEF Spec

(* No engine object is freed twice, or freed after it was handed over.     *)
THEOREM TypeCorrect == Spec => []TypeOK
  BY AlwaysIInv, PTL DEF IInv

(* No sequence of moves, overwrites and destructors loses an object.       *)
THEOREM NothingLeaks == Spec => []NoLeak
  BY AlwaysIInv, PTL DEF IInv

(* An owner inside its lifetime holds nothing, or something live that no   *)
(* other owner holds.                                                      *)
THEOREM OwnersAreSound == Spec => []SoundOwners
  BY AlwaysIInv, PTL DEF IInv, SoundOwners

(* Seen from the engine, every object is made once and ended at most once. *)
THEOREM HandlesImplementPromise == Spec => PromiseSpec
<1>1. Init => Promise!Init
  BY DEF Init, Promise!Init
<1>2. IInv /\ [Next]_vars => [Promise!Next]_engine
  <2> SUFFICES ASSUME IInv, [Next]_vars PROVE Promise!Next \/ UNCHANGED engine
    OBVIOUS
  <2> USE NullAssumption DEF IInv, TypeOK, NoDangling,
          Promise!Next, Promise!Make, Promise!Free, Promise!Give, Promise!Becomes
  <2>1. ASSUME NEW o \in Objects, Default(o) \/ Release(o) \/ Destroy(o)
        PROVE Promise!Next \/ UNCHANGED engine
    BY <2>1 DEF Default, Release, Destroy, FreeIfAny, Free
  <2>2. ASSUME NEW o \in Objects, NEW x \in EngineObjects, Adopt(o, x)
        PROVE Promise!Next \/ UNCHANGED engine
    BY <2>2 DEF Adopt
  <2>3. ASSUME NEW d \in Objects, NEW s \in Objects, MoveConstruct(d, s) \/ MoveAssign(d, s)
        PROVE Promise!Next \/ UNCHANGED engine
    BY <2>3 DEF MoveConstruct, MoveAssign, FreeIfAny, Free
  <2> QED BY <2>1, <2>2, <2>3 DEF Next, vars
<1> QED BY <1>1, <1>2, AlwaysIInv, PTL DEF Spec, PromiseSpec, Promise!Spec
==============================================================================
