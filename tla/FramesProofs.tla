----------------------------- MODULE FramesProofs -----------------------------
(***************************************************************************)
(* The release callback proved for any number of frames, buffers and       *)
(* connections: what a statement can read is allocated, and a function on  *)
(* the heap is deleted once, by the frame that has it.                     *)
(***************************************************************************)
EXTENDS Frames, TLAPS

(* The proof of Handle<T, Free>, about the Frame objects. *)
HP == INSTANCE HandlesProofs
        WITH Objects <- Objects, EngineObjects <- EngineFrames, p <- f, engine <- eframe

(* Both instances of Handles are one. *)
LEMMA SameHandles ==
  /\ Frame!Init <=> HP!Init
  /\ [Frame!Next]_frameVars <=> [HP!Next]_HP!vars
  BY DEF frameVars, Frame!Init, HP!Init, Frame!Next, HP!Next, HP!vars,
         Frame!Default, HP!Default, Frame!Adopt, HP!Adopt, Frame!Release, HP!Release,
         Frame!MoveConstruct, HP!MoveConstruct, Frame!MoveAssign, HP!MoveAssign,
         Frame!Destroy, HP!Destroy, Frame!FreeIfAny, HP!FreeIfAny, Frame!Free, HP!Free

LEMMA FrameStep == [Next]_vars => [Frame!Next]_frameVars
  BY DEF Frame!Next, Next, CreatePlain, Create, CreateFails, DropUser, Move, Assign, Empty, Destroy,
         Register, Unregister, Query, QueryEnds, Close, release_trampoline, frameVars, vars

LEMMA HandlesStep == HP!IInv /\ [Next]_vars => HP!IInv'
<1>1. HP!IInv /\ [HP!Next]_HP!vars => HP!IInv'
  BY HP!StepIInv, NullAssumption
<1> QED BY <1>1, FrameStep, SameHandles

(* A zu_frame is made once and freed at most once, on every path.           *)
THEOREM FramesEndOnce == Spec => HP!PromiseSpec
<1>1. Init => HP!Init
  BY SameHandles DEF Init
<1>2. [Next]_vars => [HP!Next]_HP!vars
  BY FrameStep, SameHandles
<1>3. HP!Spec => HP!PromiseSpec
  BY HP!HandlesImplementPromise, NullAssumption
<1> QED BY <1>1, <1>2, <1>3, PTL DEF Spec, HP!Spec

(* An engine frame never goes back: one that was made is not unmade again, *)
(* and one that is over stays so.                                          *)
LEMMA FramesEnd ==
  ASSUME HP!IInv, HP!IInv', [Next]_vars, NEW x \in EngineFrames
  PROVE  /\ eframe[x] \notin {"unmade", "live"} => eframe'[x] \notin {"unmade", "live"}
         /\ eframe[x] # "unmade" => eframe'[x] # "unmade"
<1>1. [Frame!Next]_frameVars
  BY FrameStep
<1> USE NullAssumption DEF HP!IInv, HP!TypeOK, HP!EngineStates, HP!NoDangling
<1>2. ASSUME NEW o \in Objects, Frame!Default(o) \/ Frame!Release(o) \/ Frame!Destroy(o)
      PROVE  /\ eframe[x] \notin {"unmade", "live"} => eframe'[x] \notin {"unmade", "live"}
             /\ eframe[x] # "unmade" => eframe'[x] # "unmade"
  BY <1>2 DEF Frame!Default, Frame!Release, Frame!Destroy, Frame!FreeIfAny, Frame!Free
<1>3. ASSUME NEW o \in Objects, NEW y \in EngineFrames, Frame!Adopt(o, y)
      PROVE  /\ eframe[x] \notin {"unmade", "live"} => eframe'[x] \notin {"unmade", "live"}
             /\ eframe[x] # "unmade" => eframe'[x] # "unmade"
  BY <1>3 DEF Frame!Adopt
<1>4. ASSUME NEW d \in Objects, NEW s \in Objects, Frame!MoveConstruct(d, s) \/ Frame!MoveAssign(d, s)
      PROVE  /\ eframe[x] \notin {"unmade", "live"} => eframe'[x] \notin {"unmade", "live"}
             /\ eframe[x] # "unmade" => eframe'[x] # "unmade"
  BY <1>4 DEF Frame!MoveConstruct, Frame!MoveAssign, Frame!FreeIfAny, Frame!Free
<1> QED BY <1>1, <1>2, <1>3, <1>4 DEF Frame!Next, frameVars

------------------------------------------------------------------------------
(* The inductive invariant.  A function that is live is the share that is  *)
(* held; a frame has its owner until it is done; and a frame that was      *)
(* never made has nothing yet.                                             *)

SharesAreLive == held = {w \in Owners : fn[w] = "live"}

OwnersStay ==
    \A x \in EngineFrames :
        /\ owner[x] # Null => over[x] = owner[x]
        /\ owner[x] = Null /\ over[x] # Null => Done(x)

UnmadeHaveNone ==
    \A x \in EngineFrames : eframe[x] = "unmade" =>
        over[x] = Null /\ owner[x] = Null /\ ~Registered(x) /\ ~Read(x)

Facts == FunctionsAreOwed /\ SharesAreLive /\ OwnersStay /\ UnmadeHaveNone

IInv == TypeOK /\ HP!IInv /\ Facts

LEMMA InitIInv == Init => IInv
<1> SUFFICES ASSUME Init PROVE IInv
  OBVIOUS
<1>1. HP!IInv
  <2>1. HP!Init => HP!IInv
    BY HP!InitIInv, NullAssumption
  <2> QED BY <2>1, SameHandles DEF Init
<1>2. TypeOK
  BY <1>1, NullAssumption DEF Init, TypeOK, Frame!Init, Frame!TypeOK, Frame!EngineStates
<1>3. Facts
  BY NullAssumption DEF Init, Facts, FunctionsAreOwed, SharesAreLive, OwnersStay, UnmadeHaveNone, Registered, Read
<1> QED BY <1>1, <1>2, <1>3 DEF IInv

(* A step after which the owners are what they were, and no frame that was *)
(* not made, or that is done, has gained a table or a reader.              *)
LEMMA OwnersUntouched ==
  ASSUME IInv, UNCHANGED ownerVars, HP!IInv', [Next]_vars,
         \A x \in EngineFrames : (Registered(x) \/ Read(x))' =>
             Registered(x) \/ Read(x) \/ eframe[x] = "live"
  PROVE  Facts'
<1>1. \A x \in EngineFrames :
        /\ eframe[x] \notin {"unmade", "live"} => eframe'[x] \notin {"unmade", "live"}
        /\ eframe[x] # "unmade" => eframe'[x] # "unmade"
  BY FramesEnd DEF IInv
<1>2. FunctionsAreOwed' /\ SharesAreLive'
  BY DEF ownerVars, IInv, Facts, FunctionsAreOwed, SharesAreLive
<1>3. OwnersStay'
  BY <1>1 DEF ownerVars, IInv, Facts, OwnersStay, Done
<1>4. UnmadeHaveNone'
  BY <1>1 DEF ownerVars, IInv, Facts, UnmadeHaveNone
<1> QED BY <1>2, <1>3, <1>4 DEF Facts

LEMMA TypeStep ==
  ASSUME IInv, HP!IInv', [Next]_vars PROVE TypeOK'
<1>0. Frame!TypeOK'
  BY DEF HP!IInv, HP!TypeOK, Frame!TypeOK, HP!EngineStates, Frame!EngineStates
<1>a. f \in [Objects -> EngineFrames \cup {Null}]
  BY DEF IInv, HP!IInv, HP!TypeOK
<1>b. TypeOK /\ FunctionsAreOwed
  BY DEF IInv, Facts
<1> USE <1>0, <1>a, <1>b DEF TypeOK, ownerVars, connVars
<1>1. ASSUME NEW o \in Objects, NEW x \in EngineFrames, CreatePlain(o, x) PROVE TypeOK'
  BY <1>1 DEF CreatePlain
<1>2. ASSUME NEW o \in Objects, NEW x \in EngineFrames, NEW w \in Owners, Create(o, x, w) PROVE TypeOK'
  BY <1>2 DEF Create
<1>3. ASSUME NEW w \in Owners, CreateFails(w) PROVE TypeOK'
  BY <1>3 DEF CreateFails
<1>4. ASSUME NEW w \in Owners, DropUser(w) PROVE TypeOK'
  BY <1>4 DEF DropUser
<1>5. ASSUME NEW d \in Objects, NEW s \in Objects, Move(d, s) \/ Assign(d, s) PROVE TypeOK'
  BY <1>5 DEF Move, Assign
<1>6. ASSUME NEW o \in Objects, Empty(o) \/ Destroy(o) PROVE TypeOK'
  BY <1>6 DEF Empty, Destroy
<1>7. ASSUME NEW c \in Conns, NEW o \in Objects, Register(c, o) PROVE TypeOK'
  BY <1>7 DEF Register
<1>8. ASSUME NEW c \in Conns, NEW x \in EngineFrames, Unregister(c, x) PROVE TypeOK'
  BY <1>8 DEF Unregister
<1>9. ASSUME NEW c \in Conns, Query(c) PROVE TypeOK'
  BY <1>9 DEF Query
<1>10. ASSUME NEW c \in Conns, QueryEnds(c) PROVE TypeOK'
  BY <1>10 DEF QueryEnds
<1>11. ASSUME NEW c \in Conns, Close(c) PROVE TypeOK'
  BY <1>11 DEF Close
<1>12. ASSUME NEW x \in EngineFrames, release_trampoline(x) PROVE TypeOK'
  BY <1>12, NullAssumption DEF release_trampoline, Delete, FunctionsAreOwed
<1>13. CASE UNCHANGED vars
  BY <1>13 DEF vars
<1> QED
  BY <1>1, <1>2, <1>3, <1>4, <1>5, <1>6, <1>7, <1>8, <1>9, <1>10, <1>11, <1>12, <1>13 DEF Next

LEMMA StepIInv == IInv /\ [Next]_vars => IInv'
<1> SUFFICES ASSUME IInv, [Next]_vars PROVE IInv'
  OBVIOUS
<1>1. HP!IInv'
  BY HandlesStep DEF IInv
<1>2. TypeOK'
  BY <1>1, TypeStep
<1> SUFFICES Facts'
  BY <1>1, <1>2 DEF IInv
<1>3. CASE UNCHANGED <<ownerVars, connVars>>
  BY <1>1, <1>3, OwnersUntouched DEF connVars, Registered, Read
<1>4. ASSUME NEW c \in Conns, NEW o \in Objects, Register(c, o) PROVE Facts'
  <2>1. f[o] \in EngineFrames /\ eframe[f[o]] = "live"
    BY <1>4, NullAssumption DEF Register, IInv, HP!IInv, HP!TypeOK, HP!NoDangling
  <2> QED BY <1>1, <1>4, <2>1, OwnersUntouched DEF Register, Registered, Read, IInv, TypeOK
<1>5. ASSUME NEW c \in Conns, NEW x \in EngineFrames, Unregister(c, x) PROVE Facts'
  BY <1>1, <1>5, OwnersUntouched DEF Unregister, Registered, Read, IInv, TypeOK
<1>6. ASSUME NEW c \in Conns, Query(c) PROVE Facts'
  BY <1>1, <1>6, OwnersUntouched DEF Query, Registered, Read, IInv, TypeOK
<1>7. ASSUME NEW c \in Conns, QueryEnds(c) \/ Close(c) PROVE Facts'
  BY <1>1, <1>7, OwnersUntouched DEF QueryEnds, Close, Registered, Read, IInv, TypeOK
<1> USE NullAssumption DEF IInv, Facts, TypeOK, FunctionsAreOwed, SharesAreLive, OwnersStay,
        UnmadeHaveNone, Registered, Read, Done
<1>8. ASSUME NEW o \in Objects, NEW x \in EngineFrames, NEW w \in Owners, Create(o, x, w) PROVE Facts'
  <2>1. eframe[x] = "unmade" /\ eframe' = [eframe EXCEPT ![x] = "live"]
    BY <1>8 DEF Create, Frame!Adopt
  <2>2. eframe \in [EngineFrames -> HP!EngineStates]
    BY DEF HP!IInv, HP!TypeOK
  <2>3. FunctionsAreOwed' /\ SharesAreLive'
    BY <1>8, <2>1 DEF Create
  <2>4. OwnersStay' /\ UnmadeHaveNone'
    BY <1>8, <2>1, <2>2 DEF Create, connVars
  <2> QED BY <2>3, <2>4
<1>9. ASSUME NEW w \in Owners, CreateFails(w) PROVE Facts'
  BY <1>9 DEF CreateFails, frameVars, connVars
<1>10. ASSUME NEW x \in EngineFrames, release_trampoline(x) PROVE Facts'
  <2>1. FunctionsAreOwed' /\ SharesAreLive'
    BY <1>10 DEF release_trampoline, Delete
  <2>2. OwnersStay' /\ UnmadeHaveNone'
    BY <1>10 DEF release_trampoline, frameVars, connVars
  <2> QED BY <2>1, <2>2
<1> QED
  BY <1>3, <1>4, <1>5, <1>6, <1>7, <1>8, <1>9, <1>10
  DEF Next, CreatePlain, DropUser, Move, Assign, Empty, Destroy, vars

LEMMA Always == Spec => []IInv
  BY InitIInv, StepIInv, PTL DEF Spec

(* No function is deleted twice, and no zu_frame freed twice.              *)
THEOREM TypeCorrect == Spec => []TypeOK
  BY Always, PTL DEF IInv

(* A function on the heap has one frame that will end it, through refused  *)
(* creates and callbacks that ran.                                         *)
THEOREM FunctionsEndOnce == Spec => []FunctionsAreOwed
  BY Always, PTL DEF IInv, Facts

(* What a statement can read, now or through a table it finds registered,  *)
(* is over memory that is still allocated.                                 *)
THEOREM ReadersAreSafe == Spec => []ReadsLiveMemory
<1>1. IInv => ReadsLiveMemory
  <2> SUFFICES ASSUME IInv, NEW x \in EngineFrames, Read(x) \/ Registered(x), over[x] # Null
               PROVE  Allocated(over[x])
    BY DEF ReadsLiveMemory
  <2>1. owner[x] # Null /\ over[x] = owner[x] /\ owner[x] \in Owners
    BY DEF IInv, Facts, OwnersStay, Done, TypeOK
  <2> QED BY <2>1 DEF IInv, Facts, FunctionsAreOwed, SharesAreLive, Allocated
<1> QED BY <1>1, Always, PTL
==============================================================================
