----------------------------- MODULE ResultsProofs -----------------------------
(***************************************************************************)
(* zu::Result proved for any number of objects and results, of any names:  *)
(* what is kept of the names is the result's own, and live, through every  *)
(* move, and a lookup by name answers the first column of that name.       *)
(***************************************************************************)
EXTENDS Results, SequenceTheorems, WellFoundedInduction, TLAPS

(* The proof of Handle<T, Free>, about the Result objects. *)
HP == INSTANCE HandlesProofs
        WITH EngineObjects <- EngineResults, p <- h, engine <- eres

(* Both instances of Handles are one. *)
LEMMA SameHandles ==
  /\ Res!Init <=> HP!Init
  /\ [Res!Next]_resVars <=> [HP!Next]_HP!vars
  BY DEF resVars, Res!Init, HP!Init, Res!Next, HP!Next, HP!vars,
         Res!Default, HP!Default, Res!Adopt, HP!Adopt, Res!Release, HP!Release,
         Res!MoveConstruct, HP!MoveConstruct, Res!MoveAssign, HP!MoveAssign,
         Res!Destroy, HP!Destroy, Res!FreeIfAny, HP!FreeIfAny, Res!Free, HP!Free

LEMMA ResStep == [Next]_vars => [Res!Next]_resVars
  BY DEF Res!Next, Next, Result, Empty, Move, Assign, Destroy, to_arrow, FillNames,
         FillFails, resVars, vars

LEMMA HandlesStep == HP!IInv /\ [Next]_vars => HP!IInv'
<1>1. HP!IInv /\ [HP!Next]_HP!vars => HP!IInv'
  BY HP!StepIInv, NullAssumption
<1> QED BY <1>1, ResStep, SameHandles

(* A zu_result is made once and ended at most once, freed or exported.      *)
THEOREM ResultsEndOnce == Spec => HP!PromiseSpec
<1>1. Init => HP!Init
  BY SameHandles DEF Init
<1>2. [Next]_vars => [HP!Next]_HP!vars
  BY ResStep, SameHandles
<1>3. HP!Spec => HP!PromiseSpec
  BY HP!HandlesImplementPromise, NullAssumption
<1> QED BY <1>1, <1>2, <1>3, PTL DEF Spec, HP!Spec

------------------------------------------------------------------------------
(* The inductive invariant.  What an object keeps is sound: whole names are *)
(* as the mark says (NamesAgree); those of an object assigned to itself,   *)
(* of which FindsItsOwn speaks too, are its result's or gone; and of names *)
(* refused part way there is only whose they are.                          *)

Owned(s, x) == \A i \in 1 .. Len(s) : s[i][1] = x

Sound(s, mark, x, c) ==
    /\ c = "whole" => s = IF mark THEN NamesOf(x) ELSE <<>>
    /\ (x # Null /\ c # "cut") => s \in {<<>>, NamesOf(x)} /\ (~mark => s = <<>>)
    /\ IF c = "given" THEN x = Null ELSE Owned(s, x)

CachesAreSound == \A o \in alive : Sound(names[o], named[o], h[o], cache[o])

(* The names are a function over the objects. *)
Total == names = [o \in Objects |-> names[o]]

IInv == TypeOK /\ HP!IInv /\ Total /\ CachesAreSound

LEMMA NamesOfType ==
  ASSUME NEW x \in EngineResults \cup {Null}
  PROVE  NamesOf(x) \in Seq(Names) /\ <<>> \o NamesOf(x) = NamesOf(x) /\ Owned(NamesOf(x), x)
<1>1. CASE x = Null
  BY <1>1 DEF NamesOf, Owned
<1>2. CASE x # Null
  <2>1. Cols(x) \in Nat
    BY <1>2, ShapeAssumption DEF Cols
  <2>2. \A i \in 1 .. Cols(x) : <<x, i>> \in Names
    BY <1>2 DEF Names
  <2>3. NamesOf(x) \in Seq(Names)
    BY <1>2, <2>1, <2>2 DEF NamesOf
  <2>4. Owned(NamesOf(x), x)
    BY <1>2, <2>1 DEF NamesOf, Owned
  <2> QED BY <2>3, <2>4, ConcatEmptySeq
<1> QED BY <1>1, <1>2

LEMMA InitIInv == Init => IInv
<1> SUFFICES ASSUME Init PROVE IInv
  OBVIOUS
<1>1. HP!IInv
  <2>1. HP!Init => HP!IInv
    BY HP!InitIInv, NullAssumption
  <2> QED BY <2>1, SameHandles DEF Init
<1>2. TypeOK
  <2>1. Res!TypeOK
    BY <1>1 DEF HP!IInv, HP!TypeOK, HP!EngineStates, Res!TypeOK, Res!EngineStates
  <2>2. <<>> \in Seq(Names)
    OBVIOUS
  <2> QED BY <2>1, <2>2 DEF Init, TypeOK, Histories
<1>3. alive = {}
  BY DEF Init, Res!Init
<1>4. Total
  BY DEF Init, Total
<1> QED BY <1>1, <1>2, <1>3, <1>4 DEF IInv, CachesAreSound

------------------------------------------------------------------------------
(* One step.                                                               *)

(* What of the caches every step has to keep. *)
CacheInv ==
    /\ names = [o \in Objects |-> names[o]]
    /\ \A o \in Objects : names[o] \in Seq(Names)
    /\ named \in [Objects -> BOOLEAN]
    /\ cache \in [Objects -> Histories]
    /\ CachesAreSound

LEMMA NothingIsSound ==
  ASSUME NEW mark \in BOOLEAN, NEW x, x = Null \/ ~mark
  PROVE  <<>> \in Seq(Names) /\ Sound(<<>>, mark, x, "whole")
  BY DEF Sound, NamesOf, Owned

(* What IInv says of every object. *)
LEMMA Shapes ==
  ASSUME IInv
  PROVE  /\ alive \subseteq Objects
         /\ h \in [Objects -> EngineResults \cup {Null}]
         /\ names = [o \in Objects |-> names[o]] /\ \A o \in Objects : names[o] \in Seq(Names)
         /\ named \in [Objects -> BOOLEAN]
         /\ cache \in [Objects -> Histories]
         /\ \A o \in alive : Sound(names[o], named[o], h[o], cache[o])
  BY DEF IInv, HP!IInv, HP!TypeOK, TypeOK, Total, CachesAreSound

LEMMA Together ==
  ASSUME names' = [o \in Objects |-> names'[o]], \A o \in Objects : names'[o] \in Seq(Names),
         named' \in [Objects -> BOOLEAN], cache' \in [Objects -> Histories],
         \A o \in alive' : Sound(names'[o], named'[o], h'[o], cache'[o])
  PROVE  CacheInv'
<1>1. CachesAreSound'
  BY DEF CachesAreSound, Sound, Owned, NamesOf
<1> QED BY <1>1 DEF CacheInv

(* A new object starts with nothing kept. *)
LEMMA StepFresh ==
  ASSUME IInv, NEW o \in Objects, Empty(o) \/ \E x \in EngineResults : Result(o, x)
  PROVE  CacheInv'
<1>1. /\ alive' = alive \cup {o}
      /\ \A q \in Objects : q # o => h'[q] = h[q]
      /\ names' = [names EXCEPT ![o] = <<>>]
      /\ named' = [named EXCEPT ![o] = FALSE]
      /\ cache' = [cache EXCEPT ![o] = "whole"]
  BY Shapes DEF Empty, Result, Res!Default, Res!Adopt
<1>2. names'[o] = <<>> /\ named'[o] = FALSE /\ cache'[o] = "whole"
  BY <1>1, Shapes
<1>3. /\ <<>> \in Seq(Names)
      /\ Sound(names'[o], named'[o], h'[o], cache'[o])
  BY <1>2, NothingIsSound
<1>4. ASSUME NEW q \in alive, q # o
      PROVE  Sound(names'[q], named'[q], h'[q], cache'[q])
  BY <1>1, <1>4, Shapes
<1>5. /\ names' = [q \in Objects |-> names'[q]] /\ \A q \in Objects : names'[q] \in Seq(Names)
      /\ named' \in [Objects -> BOOLEAN] /\ cache' \in [Objects -> Histories]
  BY <1>1, <1>3, Shapes DEF Histories
<1>6. \A q \in alive' : Sound(names'[q], named'[q], h'[q], cache'[q])
  BY <1>1, <1>3, <1>4
<1> QED BY <1>5, <1>6, Together

(* The members move together, the flag of the source and all. *)
LEMMA StepMoved ==
  ASSUME IInv, NEW d \in Objects, NEW s \in Objects, d # s, Move(d, s) \/ Assign(d, s)
  PROVE  CacheInv'
<1>1. /\ s \in alive /\ alive' = alive \cup {d}
      /\ h' = [h EXCEPT ![d] = h[s], ![s] = Null]
      /\ names' = [names EXCEPT ![d] = names[s], ![s] = <<>>]
      /\ named' = [named EXCEPT ![d] = named[s]]
      /\ cache' = [cache EXCEPT ![d] = cache[s], ![s] = "whole"]
  BY DEF Move, Assign, Res!MoveConstruct, Res!MoveAssign
<1>2. /\ h'[d] = h[s] /\ names'[d] = names[s] /\ named'[d] = named[s] /\ cache'[d] = cache[s]
      /\ h'[s] = Null /\ names'[s] = <<>> /\ named'[s] = named[s] /\ cache'[s] = "whole"
      /\ \A q \in Objects : q \notin {d, s} =>
            h'[q] = h[q] /\ names'[q] = names[q] /\ named'[q] = named[q] /\ cache'[q] = cache[q]
  BY <1>1, Shapes
<1>3. Sound(names'[d], named'[d], h'[d], cache'[d])
  BY <1>1, <1>2, Shapes
<1>4. /\ <<>> \in Seq(Names)
      /\ Sound(names'[s], named'[s], h'[s], cache'[s])
  BY <1>2, Shapes, NothingIsSound
<1>5. ASSUME NEW q \in alive, q \notin {d, s}
      PROVE  Sound(names'[q], named'[q], h'[q], cache'[q])
  BY <1>2, <1>5, Shapes
<1>6. /\ names' = [q \in Objects |-> names'[q]] /\ \A q \in Objects : names'[q] \in Seq(Names)
      /\ named' \in [Objects -> BOOLEAN] /\ cache' \in [Objects -> Histories]
  BY <1>1, <1>4, Shapes DEF Histories
<1>7. \A q \in alive' : Sound(names'[q], named'[q], h'[q], cache'[q])
  BY <1>1, <1>3, <1>4, <1>5
<1> QED BY <1>6, <1>7, Together

(* An object assigned to itself may lose what it kept. *)
LEMMA StepSelf ==
  ASSUME IInv, NEW d \in Objects, Assign(d, d)
  PROVE  CacheInv'
<1>1. /\ d \in alive /\ UNCHANGED <<alive, h, named>>
      /\ names' \in {names, [names EXCEPT ![d] = <<>>]}
      /\ cache' = [cache EXCEPT ![d] = IF @ = "whole" THEN "lost" ELSE @]
  BY DEF Assign, Res!MoveAssign
<1>2. /\ names'[d] \in {names[d], <<>>}
      /\ cache'[d] # "whole" /\ cache'[d] \in {"lost", cache[d]}
      /\ cache'[d] = "lost" => cache[d] \in {"whole", "lost"}
      /\ \A q \in Objects : q # d => names'[q] = names[q] /\ cache'[q] = cache[q]
  BY <1>1, Shapes
<1>3. Sound(names[d], named[d], h[d], cache[d])
  BY <1>1, Shapes
<1>4. Sound(names'[d], named'[d], h'[d], cache'[d])
  BY <1>1, <1>2, <1>3 DEF Sound, Owned, NamesOf
<1>5. ASSUME NEW q \in alive, q # d
      PROVE  Sound(names'[q], named'[q], h'[q], cache'[q])
  BY <1>1, <1>2, <1>5, Shapes
<1>6. <<>> \in Seq(Names)
  OBVIOUS
<1>7. /\ names' = [q \in Objects |-> names'[q]] /\ \A q \in Objects : names'[q] \in Seq(Names)
      /\ named' \in [Objects -> BOOLEAN] /\ cache' \in [Objects -> Histories]
  BY <1>1, <1>6, Shapes DEF Histories
<1>8. \A q \in alive' : Sound(names'[q], named'[q], h'[q], cache'[q])
  BY <1>1, <1>4, <1>5
<1> QED BY <1>7, <1>8, Together

(* The walk that reaches the end, and the one that is refused on its way.  *)
LEMMA StepFilled ==
  ASSUME IInv, NEW o \in Objects, FillNames(o) \/ FillFails(o)
  PROVE  CacheInv'
<1>1. o \in alive /\ ~named[o] /\ UNCHANGED <<alive, h>>
  BY DEF FillNames, FillFails, resVars
<1>2. /\ NamesOf(h[o]) \in Seq(Names) /\ <<>> \o NamesOf(h[o]) = NamesOf(h[o])
      /\ Owned(NamesOf(h[o]), h[o]) /\ names[o] \in Seq(Names)
      /\ Sound(names[o], named[o], h[o], cache[o])
  BY <1>1, Shapes, NamesOfType
<1>3. ASSUME NEW s \in Seq(Names), NEW t \in Seq(Names), Owned(s, h[o]), Owned(t, h[o])
      PROVE  Owned(s \o t, h[o])
  BY <1>3 DEF Owned
<1>4. CASE FillNames(o)
  <2>1. /\ names' = [names EXCEPT ![o] = @ \o NamesOf(h[o])]
        /\ named' = [named EXCEPT ![o] = TRUE] /\ UNCHANGED cache
    BY <1>4 DEF FillNames
  <2>2. names'[o] = names[o] \o NamesOf(h[o]) /\ named'[o] /\ names'[o] \in Seq(Names)
    BY <1>2, <2>1, Shapes
  <2>3. cache[o] # "given" => Owned(names'[o], h[o])
    BY <1>2, <1>3, <2>2 DEF Sound
  <2>4. Sound(names'[o], named'[o], h[o], cache[o])
    BY <1>1, <1>2, <2>2, <2>3 DEF Sound
  <2>5. ASSUME NEW q \in alive, q # o PROVE Sound(names'[q], named'[q], h[q], cache[q])
    BY <2>1, <2>5, Shapes
  <2>6. /\ names' = [q \in Objects |-> names'[q]] /\ \A q \in Objects : names'[q] \in Seq(Names)
        /\ named' \in [Objects -> BOOLEAN] /\ cache' \in [Objects -> Histories]
    BY <2>1, <2>2, Shapes
  <2>7. \A q \in alive' : Sound(names'[q], named'[q], h'[q], cache'[q])
    BY <1>1, <2>1, <2>4, <2>5
  <2> QED BY <2>6, <2>7, Together
<1>5. CASE FillFails(o)
  <2>1. PICK k \in 1 .. Cols(h[o]) - 1 : names' = [names EXCEPT ![o] = @ \o SubSeq(NamesOf(h[o]), 1, k)]
    BY <1>5 DEF FillFails
  <2>2. h[o] \in EngineResults /\ UNCHANGED named /\ cache' = [cache EXCEPT ![o] = "cut"]
    BY <1>5, Shapes DEF FillFails
  <2> DEFINE t == SubSeq(NamesOf(h[o]), 1, k)
  <2>3. Cols(h[o]) \in Nat /\ Len(NamesOf(h[o])) = Cols(h[o])
    BY <2>2, ShapeAssumption, NullAssumption DEF Cols, NamesOf
  <2>4. t \in Seq(Names) /\ Owned(t, h[o])
    <3>1. t \in Seq(Names) /\ Len(t) = k /\ \A i \in 1 .. k : t[i] = NamesOf(h[o])[i]
      BY <1>2, <2>3, SubSeqProperties
    <3>2. \A i \in 1 .. k : NamesOf(h[o])[i][1] = h[o]
      BY <1>2, <2>3 DEF Owned
    <3> QED BY <3>1, <3>2 DEF Owned
  <2> HIDE DEF t
  <2>5. names'[o] = names[o] \o t /\ cache'[o] = "cut"
    BY <2>1, <2>2, Shapes DEF t
  <2>6. Owned(names[o], h[o])
    BY <1>1, <1>2, <1>5, <2>2 DEF Sound, FillFails
  <2>7. names'[o] \in Seq(Names) /\ Owned(names'[o], h[o])
    BY <1>2, <1>3, <2>4, <2>5, <2>6
  <2>8. Sound(names'[o], named'[o], h[o], cache'[o])
    BY <2>5, <2>7 DEF Sound
  <2>9. ASSUME NEW q \in alive, q # o PROVE Sound(names'[q], named'[q], h[q], cache'[q])
    BY <2>1, <2>2, <2>9, Shapes
  <2>10. /\ names' = [q \in Objects |-> names'[q]] /\ \A q \in Objects : names'[q] \in Seq(Names)
         /\ named' \in [Objects -> BOOLEAN] /\ cache' \in [Objects -> Histories]
    BY <2>1, <2>2, <2>7, Shapes DEF Histories
  <2>11. \A q \in alive' : Sound(names'[q], named'[q], h'[q], cache'[q])
    BY <1>1, <2>8, <2>9
  <2> QED BY <2>10, <2>11, Together
<1> QED BY <1>4, <1>5

(* The export leaves the object what it kept, which is the stream's now.   *)
LEMMA StepGiven ==
  ASSUME IInv, NEW o \in Objects, to_arrow(o)
  PROVE  CacheInv'
<1>1. /\ h' = [h EXCEPT ![o] = Null] /\ cache' = [cache EXCEPT ![o] = "given"]
      /\ UNCHANGED <<alive, names, named>>
  BY DEF to_arrow, Res!Release
<1>2. h'[o] = Null /\ cache'[o] = "given"
  BY <1>1, Shapes
<1>3. Sound(names'[o], named'[o], h'[o], cache'[o])
  BY <1>2 DEF Sound
<1>4. ASSUME NEW q \in alive, q # o PROVE Sound(names'[q], named'[q], h'[q], cache'[q])
  BY <1>1, <1>4, Shapes
<1>5. \A q \in alive' : Sound(names'[q], named'[q], h'[q], cache'[q])
  BY <1>1, <1>3, <1>4
<1> QED BY <1>1, <1>5, Shapes, Together DEF Histories

LEMMA StepCaches == IInv /\ [Next]_vars => CacheInv'
<1> SUFFICES ASSUME IInv, [Next]_vars PROVE CacheInv'
  OBVIOUS
<1>1. CASE /\ UNCHANGED <<h, names, named, cache>> /\ alive' \subseteq alive
  BY <1>1, Shapes, Together
<1>2. ASSUME NEW o \in Objects, Destroy(o) PROVE CacheInv'
  BY <1>1, <1>2 DEF Destroy, Res!Destroy, cacheVars
<1>3. ASSUME NEW d \in Objects, NEW s \in Objects, Move(d, s) \/ Assign(d, s) PROVE CacheInv'
  <2>1. d = s => Assign(d, s)
    BY <1>3 DEF Move, Res!MoveConstruct
  <2> QED BY <1>3, <2>1, StepMoved, StepSelf
<1> QED BY <1>1, <1>2, <1>3, StepFresh, StepFilled, StepGiven DEF Next, vars, resVars, cacheVars

LEMMA StepIInv == IInv /\ [Next]_vars => IInv'
<1> SUFFICES ASSUME IInv, [Next]_vars PROVE IInv'
  OBVIOUS
<1>1. HP!IInv' /\ CacheInv'
  BY HandlesStep, StepCaches DEF IInv
<1>2. Res!TypeOK'
  BY <1>1 DEF HP!IInv, HP!TypeOK, HP!EngineStates, Res!TypeOK, Res!EngineStates
<1> QED BY <1>1, <1>2 DEF IInv, CacheInv, TypeOK, Total

LEMMA Always == Spec => []IInv
  BY InitIInv, StepIInv, PTL DEF Spec

------------------------------------------------------------------------------
(* What the invariant says of a lookup.                                    *)

(* A set of numbers has a least one. *)
LEMMA LeastNumber ==
  ASSUME NEW S, S \subseteq Nat, S # {}
  PROVE  \E i \in S : \A j \in S : i <= j
<1>1. PICK n \in S : \A m \in S : ~(<<m, n>> \in OpToRel(<, Nat))
  BY NatLessThanWellFounded, WFMin, Zenon
<1>2. \A m \in S : ~(m < n)
  BY <1>1 DEF OpToRel
<1> QED BY <1>2

(* A lookup in names that are a result's own, or gone, finds the first of  *)
(* its columns of that name, or none.                                      *)
LEMMA FindsFirst ==
  ASSUME NEW o, NEW x \in EngineResults, NEW name,
         names[o] \in {<<>>, NamesOf(x)}, find(o, name) # 0
  PROVE  /\ find(o, name) <= Cols(x)
         /\ ColumnNames[x][find(o, name)] = name
         /\ \A j \in 1 .. find(o, name) - 1 : ColumnNames[x][j] # name
<1> DEFINE at == {i \in 1 .. Len(names[o]) : ColumnNames[names[o][i][1]][names[o][i][2]] = name}
<1>1. find(o, name) = IF at = {} THEN 0 ELSE CHOOSE i \in at : \A j \in at : i <= j
  BY DEF find
<1>2. at # {}
  BY <1>1
<1>3. Cols(x) \in Nat /\ x # Null
  BY ShapeAssumption, NullAssumption DEF Cols
<1>4. names[o] = NamesOf(x)
  BY <1>2
<1>5. at = {i \in 1 .. Cols(x) : ColumnNames[x][i] = name}
  BY <1>3, <1>4 DEF NamesOf
<1>a. at \subseteq Nat
  BY <1>3, <1>5
<1> HIDE DEF at
<1>6. find(o, name) \in at /\ \A j \in at : find(o, name) <= j
  <2>1. \E i \in at : \A j \in at : i <= j
    BY <1>2, <1>a, LeastNumber, Zenon
  <2> QED BY <1>1, <1>2, <2>1
<1> QED BY <1>3, <1>5, <1>6

(* The types of the variables; no result is freed twice, or freed after    *)
(* its buffers went to Arrow.                                              *)
THEOREM TypeCorrect == Spec => []TypeOK
  BY Always, PTL DEF IInv

(* Through every move, self-assignment and export, a read by name reads    *)
(* the first column of that name of the result the object holds.           *)
THEOREM NamesStayOwn == Spec => []NamesAreItsOwn
<1>1. IInv => NamesAreItsOwn
  <2> SUFFICES ASSUME IInv PROVE NamesAgree /\ FindsItsOwn
    BY DEF NamesAreItsOwn
  <2>1. NamesAgree
    BY Shapes DEF NamesAgree, Sound
  <2>2. \A o \in alive : (h[o] # Null /\ cache[o] # "cut") =>
            h[o] \in EngineResults /\ names[o] \in {<<>>, NamesOf(h[o])}
    BY Shapes DEF Sound
  <2>3. ASSUME NEW o \in alive, h[o] # Null, cache[o] # "cut", NEW name, find(o, name) # 0
        PROVE  /\ find(o, name) <= Cols(h[o])
               /\ ColumnNames[h[o]][find(o, name)] = name
               /\ \A j \in 1 .. find(o, name) - 1 : ColumnNames[h[o]][j] # name
    BY <2>2, <2>3, FindsFirst
  <2> QED BY <2>1, <2>3 DEF FindsItsOwn
<1> QED BY <1>1, Always, PTL

(* Whatever an object keeps of its names, however it came by them, is of   *)
(* the result it holds, and that result is not freed.                      *)
THEOREM NamesStayLive == Spec => []KeptNamesAreLive
<1>1. IInv => KeptNamesAreLive
  <2> SUFFICES ASSUME IInv, NEW o \in alive, cache[o] # "given", NEW i \in 1 .. Len(names[o])
               PROVE  names[o][i][1] = h[o] /\ eres[h[o]] = "live"
    BY DEF KeptNamesAreLive
  <2>1. names[o][i][1] = h[o]
    BY Shapes DEF Sound, Owned
  <2>2. names[o][i] \in Names
    BY Shapes
  <2>3. h[o] # Null
    BY <2>1, <2>2, NullAssumption DEF Names
  <2> QED BY <2>1, <2>3, Shapes DEF IInv, HP!IInv, HP!NoDangling
<1> QED BY <1>1, Always, PTL
==============================================================================
