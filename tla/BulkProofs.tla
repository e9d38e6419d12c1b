------------------------------ MODULE BulkProofs ------------------------------
(***************************************************************************)
(* A load and the appenders after it, proved for any number of loaders,    *)
(* columns, counts, arrays, appenders and rows: the file goes from nothing *)
(* to one whole table and is what finish() said, and the rows end_row said *)
(* yes to stay whole, counted, and each in one place.                      *)
(***************************************************************************)
EXTENDS Bulk, FiniteSetTheorems, TLAPS

(* The proof of Handle<T, Free>, about the Loader objects. *)
LP == INSTANCE HandlesProofs
        WITH Objects <- LoadObjects, EngineObjects <- EngineLoads,
             alive <- loaders, p <- l, engine <- eload

(* Both instances of Handles are one. *)
LEMMA SameLoaders ==
  /\ Loader!Load!Init <=> LP!Init
  /\ [Loader!Load!Next]_Loader!loadVars <=> [LP!Next]_LP!vars
  BY DEF Loader!loadVars, Loader!Load!Init, LP!Init, Loader!Load!Next, LP!Next, LP!vars,
         Loader!Load!Default, LP!Default, Loader!Load!Adopt, LP!Adopt,
         Loader!Load!Release, LP!Release, Loader!Load!MoveConstruct, LP!MoveConstruct,
         Loader!Load!MoveAssign, LP!MoveAssign, Loader!Load!Destroy, LP!Destroy,
         Loader!Load!FreeIfAny, LP!FreeIfAny, Loader!Load!Free, LP!Free

LEMMA LoaderStep == [Loader!Next]_Loader!vars => [Loader!Load!Next]_Loader!loadVars
  BY DEF Loader!Load!Next, Loader!Next, Loader!Empty, Loader!create, Loader!Move, Loader!Assign,
         Loader!Destroy, Loader!table, Loader!column, Loader!edges_impl, Loader!finish,
         Loader!loadVars, Loader!vars

LEMMA LoaderHandles == LP!IInv /\ [Loader!Next]_Loader!vars => LP!IInv'
<1>1. LP!IInv /\ [LP!Next]_LP!vars => LP!IInv'
  BY LP!StepIInv, LoadAssumption DEF Loader!LoadConstants
<1> QED BY <1>1, LoaderStep, SameLoaders

------------------------------------------------------------------------------
(* The inductive invariant.  ToldIsTrue says nothing of a loader that has  *)
(* not finished; the next finish() writes a whole table only because all   *)
(* columns it took agree with the rows, and all edges have two ends.       *)

ColumnsFit == \A x \in EngineLoads : \A v \in cols[x] : v[2] = rows[x]

EdgesHaveEnds == \A x \in EngineLoads : edges[x] \subseteq Nat \X Nat

LoadBooks == ColumnsFit /\ EdgesHaveEnds /\ Loader!ToldIsTrue

LoadInv == Loader!TypeOK /\ LP!IInv /\ LoadBooks

LEMMA LoadInit == Loader!Init => LoadInv
<1> SUFFICES ASSUME Loader!Init PROVE LoadInv
  OBVIOUS
<1>1. LP!IInv
  <2>1. LP!Init => LP!IInv
    BY LP!InitIInv, LoadAssumption DEF Loader!LoadConstants
  <2> QED BY <2>1, SameLoaders DEF Loader!Init
<1>2. Loader!TypeOK
  BY <1>1 DEF Loader!Init, Loader!TypeOK, LP!IInv, LP!TypeOK, LP!EngineStates,
              Loader!Load!TypeOK, Loader!Load!EngineStates
<1>3. LoadBooks
  BY DEF Loader!Init, LoadBooks, ColumnsFit, EdgesHaveEnds, Loader!ToldIsTrue
<1> QED BY <1>1, <1>2, <1>3 DEF LoadInv

(* The loader a call is made on is one the engine handed out. *)
LEMMA InUseIsMade ==
  ASSUME LoadInv, NEW o \in LoadObjects, Loader!InUse(o)
  PROVE  l[o] \in EngineLoads /\ l[o] \notin finished
  BY DEF Loader!InUse, LoadInv, LP!IInv, LP!TypeOK

(* What edges() hands over of two arrays of one length: two ends each. *)
LEMMA PairsHaveEnds ==
  ASSUME NEW from \in Arrays, NEW to \in Arrays, Len(from) = Len(to)
  PROVE  /\ Loader!Pairs(from, to) \subseteq Nat \X Nat
         /\ Loader!Pairs(from, to) \subseteq Loader!Ends \X Loader!Ends
<1>1. from \in Seq(Nat) /\ to \in Seq(Nat) /\ DOMAIN from = DOMAIN to
  BY LoadAssumption DEF Loader!LoadConstants
<1>2. \A i \in DOMAIN from : from[i] \in Nat /\ to[i] \in Nat /\ Loader!At(to, i) = to[i]
  BY <1>1 DEF Loader!At
<1>3. \A i \in DOMAIN from : from[i] \in Loader!Ends /\ to[i] \in Loader!Ends
  BY <1>1 DEF Loader!Ends
<1> QED BY <1>2, <1>3 DEF Loader!Pairs

(* A file that is written is one the types allow, *)
LEMMA WrittenIsTable ==
  ASSUME LoadInv, NEW x \in EngineLoads, Loader!zu_loader_finish(x)
  PROVE  file' \in Loader!Tables
  BY DEF LoadInv, Loader!TypeOK, Loader!zu_loader_finish, Loader!Tables

(* and it is whole. *)
LEMMA WrittenIsWhole ==
  ASSUME LoadInv, NEW x \in EngineLoads, Loader!zu_loader_finish(x)
  PROVE  Loader!Whole(file')
<1>1. /\ rows[x] \in Nat
      /\ file'.rows = rows[x] /\ file'.cols = cols[x] /\ file'.edges = edges[x]
  BY LoadAssumption DEF LoadInv, Loader!TypeOK, Loader!zu_loader_finish, Loader!LoadConstants
<1>2. cols[x] \subseteq Columns \X {rows[x]}
  BY DEF LoadInv, Loader!TypeOK, LoadBooks, ColumnsFit
<1>3. edges[x] \subseteq (0 .. rows[x] - 1) \X (0 .. rows[x] - 1)
  <2> SUFFICES ASSUME NEW e \in edges[x] PROVE e \in (0 .. rows[x] - 1) \X (0 .. rows[x] - 1)
    OBVIOUS
  <2>1. e \in Nat \X Nat
    BY DEF LoadInv, LoadBooks, EdgesHaveEnds
  <2>2. e[1] < rows[x] /\ e[2] < rows[x]
    BY <2>1 DEF Loader!zu_loader_finish, Loader!InTable, Loader!Row
  <2> QED BY <1>1, <2>1, <2>2
<1> QED BY <1>1, <1>2, <1>3 DEF Loader!Whole

LEMMA LoadTypes ==
  ASSUME LoadInv, LP!IInv', [Loader!Next]_Loader!vars PROVE Loader!TypeOK'
<1>0. Loader!Load!TypeOK'
  BY DEF LP!IInv, LP!TypeOK, LP!EngineStates, Loader!Load!TypeOK, Loader!Load!EngineStates
<1>a. Loader!TypeOK
  BY DEF LoadInv
<1> USE <1>0, <1>a DEF Loader!TypeOK
<1>1. CASE UNCHANGED <<rows, cols, edges, file, finished>>
  BY <1>1
<1>2. ASSUME NEW o \in LoadObjects, NEW n \in Counts, Loader!table(o, n)
      PROVE  Loader!TypeOK'
  BY <1>2 DEF Loader!table
<1>3. ASSUME NEW o \in LoadObjects, NEW n \in Counts, NEW c \in Columns, Loader!column(o, c, n)
      PROVE  Loader!TypeOK'
  BY <1>3, InUseIsMade DEF Loader!column
<1>4. ASSUME NEW o \in LoadObjects, NEW from \in Arrays, NEW to \in Arrays,
             Loader!edges_impl(o, from, to)
      PROVE  Loader!TypeOK'
  BY <1>4, InUseIsMade, PairsHaveEnds DEF Loader!edges_impl
<1>5. ASSUME NEW o \in LoadObjects, Loader!finish(o) PROVE Loader!TypeOK'
  <2>1. l[o] \in EngineLoads
    BY <1>5, InUseIsMade DEF Loader!finish
  <2> QED BY <1>5, <2>1, WrittenIsTable DEF Loader!finish, Loader!bookVars
<1> QED
  BY <1>1, <1>2, <1>3, <1>4, <1>5
  DEF Loader!Next, Loader!Empty, Loader!create, Loader!Move, Loader!Assign, Loader!Destroy,
      Loader!bookVars, Loader!vars

LEMMA LoadBooksStep ==
  ASSUME LoadInv, [Loader!Next]_Loader!vars PROVE LoadBooks'
<1>0. Loader!TypeOK /\ LoadBooks
  BY DEF LoadInv
<1> USE <1>0 DEF LoadBooks, ColumnsFit, EdgesHaveEnds, Loader!ToldIsTrue
<1>1. CASE UNCHANGED <<rows, cols, edges, file, finished>>
  BY <1>1
<1>2. ASSUME NEW o \in LoadObjects, NEW n \in Counts, Loader!table(o, n) PROVE LoadBooks'
  <2>1. l[o] \in EngineLoads /\ l[o] \notin finished
    BY <1>2, InUseIsMade DEF Loader!table
  <2>2. cols[l[o]] = {}
    BY <1>2, <2>1, LoadAssumption DEF Loader!table, Loader!TypeOK, Loader!LoadConstants
  <2> QED BY <1>2, <2>1, <2>2 DEF Loader!table, Loader!TypeOK
<1>3. ASSUME NEW o \in LoadObjects, NEW n \in Counts, NEW c \in Columns, Loader!column(o, c, n)
      PROVE  LoadBooks'
  <2>1. l[o] \in EngineLoads /\ l[o] \notin finished
    BY <1>3, InUseIsMade DEF Loader!column
  <2> QED BY <1>3, <2>1 DEF Loader!column, Loader!TypeOK
<1>4. ASSUME NEW o \in LoadObjects, NEW from \in Arrays, NEW to \in Arrays,
             Loader!edges_impl(o, from, to)
      PROVE  LoadBooks'
  <2>1. /\ l[o] \in EngineLoads /\ l[o] \notin finished
        /\ Loader!Pairs(from, to) \subseteq Nat \X Nat
    BY <1>4, InUseIsMade, PairsHaveEnds DEF Loader!edges_impl
  <2> QED BY <1>4, <2>1 DEF Loader!edges_impl, Loader!TypeOK
<1>5. ASSUME NEW o \in LoadObjects, Loader!finish(o) PROVE LoadBooks'
  <2>1. l[o] \in EngineLoads
    BY <1>5, InUseIsMade DEF Loader!finish
  <2>2. CASE UNCHANGED <<file, finished>>
    BY <1>5, <2>2 DEF Loader!finish, Loader!bookVars
  <2>3. CASE Loader!zu_loader_finish(l[o]) /\ finished' = finished \cup {l[o]}
    <3>1. finished' = {l[o]}
      BY <2>3 DEF Loader!zu_loader_finish
    <3>2. file' # Absent
      BY <2>1, <2>3, WrittenIsTable, LoadAssumption DEF Loader!LoadConstants
    <3> QED BY <1>5, <2>3, <3>1, <3>2 DEF Loader!finish, Loader!zu_loader_finish, Loader!bookVars
  <2> QED BY <1>5, <2>2, <2>3 DEF Loader!finish
<1> QED
  BY <1>1, <1>2, <1>3, <1>4, <1>5
  DEF Loader!Next, Loader!Empty, Loader!create, Loader!Move, Loader!Assign, Loader!Destroy,
      Loader!bookVars, Loader!vars

LEMMA LoadStep == LoadInv /\ [Loader!Next]_Loader!vars => LoadInv'
  BY LoaderHandles, LoadTypes, LoadBooksStep DEF LoadInv

(* A step of a load is the whole load, or nothing as far as the file is    *)
(* concerned.                                                              *)
LEMMA LoadPromise == LoadInv /\ [Loader!Next]_Loader!vars => [Loader!Promise!Next]_file
<1> SUFFICES ASSUME LoadInv, [Loader!Next]_Loader!vars PROVE Loader!Promise!Next \/ UNCHANGED file
  OBVIOUS
<1>1. ASSUME NEW o \in LoadObjects, Loader!finish(o) PROVE Loader!Promise!Next \/ UNCHANGED file
  <2>1. l[o] \in EngineLoads
    BY <1>1, InUseIsMade DEF Loader!finish
  <2>2. Loader!zu_loader_finish(l[o]) =>
          file = Absent /\ file' \in Loader!Tables /\ Loader!Whole(file')
    BY <2>1, WrittenIsTable, WrittenIsWhole DEF Loader!zu_loader_finish
  <2> QED BY <1>1, <2>2 DEF Loader!finish, Loader!Promise!Next, Loader!Promise!Load
<1> QED
  BY <1>1 DEF Loader!Next, Loader!Empty, Loader!create, Loader!Move, Loader!Assign, Loader!Destroy,
              Loader!table, Loader!column, Loader!edges_impl, Loader!vars

(* The appenders leave all that the loaders have alone. *)
LEMMA BulkStep == [BulkNext]_<<vars, fileVars>> => [Loader!Next]_Loader!vars
  BY DEF BulkNext, fileVars, Loader!vars, Loader!loadVars, Loader!bookVars

(* A zu_loader is made once and freed at most once, whatever its calls say. *)
THEOREM LoadersEndOnce == BulkSpec => LP!PromiseSpec
<1>1. BulkInit => LP!Init
  BY SameLoaders DEF BulkInit, Loader!Init
<1>2. [BulkNext]_<<vars, fileVars>> => [LP!Next]_LP!vars
  BY BulkStep, LoaderStep, SameLoaders
<1>3. LP!Spec => LP!PromiseSpec
  BY LP!HandlesImplementPromise, LoadAssumption DEF Loader!LoadConstants
<1> QED BY <1>1, <1>2, <1>3, PTL DEF BulkSpec, LP!Spec

LEMMA AlwaysLoadInv == BulkSpec => []LoadInv
<1>1. BulkInit => LoadInv
  BY LoadInit DEF BulkInit
<1> QED BY <1>1, BulkStep, LoadStep, PTL DEF BulkSpec

(* What finish() answered is what the file holds, for any number of        *)
(* loaders that race for it.                                               *)
THEOREM FinishTellsTheTruth == BulkSpec => []ToldIsTrue
  BY AlwaysLoadInv, PTL DEF LoadInv, LoadBooks, ToldIsTrue

(* The file goes from nothing to one whole table, in one step, for good:   *)
(* a load implements the abstract load of WholeLoads.                      *)
THEOREM LoadsHappenOrNot == BulkSpec => HappensOrNot
<1>1. BulkInit => Loader!Promise!Init
  BY DEF BulkInit, Loader!Init, Loader!Promise!Init
<1> QED
  BY <1>1, BulkStep, LoadPromise, AlwaysLoadInv, PTL
  DEF BulkSpec, HappensOrNot, Loader!HappensOrNot, Loader!Promise!Spec

------------------------------------------------------------------------------
(* The appenders.  They start from the actions of Handle<T, Free> as well. *)

AP == INSTANCE HandlesProofs WITH EngineObjects <- EngineApps, p <- a, engine <- eapp

LEMMA SameAppenders ==
  /\ App!Init <=> AP!Init
  /\ [App!Next]_appVars <=> [AP!Next]_AP!vars
  BY DEF appVars, App!Init, AP!Init, App!Next, AP!Next, AP!vars,
         App!Default, AP!Default, App!Adopt, AP!Adopt, App!Release, AP!Release,
         App!MoveConstruct, AP!MoveConstruct, App!MoveAssign, AP!MoveAssign,
         App!Destroy, AP!Destroy, App!FreeIfAny, AP!FreeIfAny, App!Free, AP!Free

LEMMA AppenderStep == [Next]_vars => [App!Next]_appVars
  BY DEF App!Next, Next, Empty, appender, Move, Assign, Destroy, append, Abandon, end_row,
         flush, discard, close, appVars, vars

LEMMA AppenderHandles == AP!IInv /\ [Next]_vars => AP!IInv'
<1>1. AP!IInv /\ [AP!Next]_AP!vars => AP!IInv'
  BY AP!StepIInv, NullAssumption
<1> QED BY <1>1, AppenderStep, SameAppenders

(* A zu_appender is made once and freed at most once, closed or not.        *)
THEOREM AppendersEndOnce == BulkSpec => AP!PromiseSpec
<1>1. BulkInit => AP!Init
  BY SameAppenders DEF BulkInit, Init
<1>2. [BulkNext]_<<vars, fileVars>> => [AP!Next]_AP!vars
  BY AppenderStep, SameAppenders DEF BulkNext
<1>3. AP!Spec => AP!PromiseSpec
  BY AP!HandlesImplementPromise, NullAssumption
<1> QED BY <1>1, <1>2, <1>3, PTL DEF BulkSpec, AP!Spec

(* A whole row is a row of the table, and names the row it is. *)
LEMMA WholeIsRow ==
  ASSUME NEW r \in Rows
  PROVE  Whole(r) \in Seq(Values) /\ Len(Whole(r)) = Width
  BY WidthAssumption DEF Whole, Values

LEMMA WholeIsOne ==
  ASSUME NEW r \in Rows, NEW q \in Rows, Whole(r) = Whole(q)
  PROVE  r = q
<1>1. Whole(r)[1] = <<r, 1>> /\ Whole(q)[1] = <<q, 1>>
  BY WidthAssumption DEF Whole
<1> QED BY <1>1

------------------------------------------------------------------------------
(* The inductive invariant.  RowsAreWhole is not inductive: what end_row   *)
(* takes is whole because a row that is as long as the caller has come in  *)
(* it has the caller's values and no others, and one that met something    *)
(* left over, or lost a value, can never be that long again (InOrder).     *)
(* That a row is in one place needs every row to be one appender's.        *)

Gone == dropped \cup lost

WaitsOnLive == \A x \in EngineApps : eapp[x] # "live" => buffered[x] = {}

StartsAtOne ==
    \A x \in EngineApps : giving[x] = Null /\ eapp[x] \in {"unmade", "live"} => place[x] = 1

InOrder ==
    \A x \in EngineApps : Len(partial[x]) = place[x] - 1 =>
        \A i \in 1 .. place[x] - 1 : partial[x][i] = <<giving[x], i>>

GivenOnce ==
    \A x, y \in EngineApps :
        /\ giving[x] # Null => giving[x] \in started /\ giving[x] \notin answered[y]
        /\ giving[x] # Null /\ giving[x] = giving[y] => x = y

AnsweredOnce ==
    /\ \A x \in EngineApps : answered[x] \subseteq started
    /\ \A x, y \in EngineApps : x # y => answered[x] \cap answered[y] = {}

WaitingWereAnswered == \A x \in EngineApps : \A w \in buffered[x] : \E r \in answered[x] : w = Whole(r)

SettledWereAnswered ==
    \A w \in table \cup Gone : \E x \in EngineApps : \E r \in answered[x] : w = Whole(r)

InOnePlace ==
    \A x \in EngineApps : \A r \in answered[x] :
        /\ Whole(r) \in buffered[x] \cup table \cup Gone
        /\ Whole(r) \in buffered[x] => Whole(r) \notin table \cup Gone
        /\ Whole(r) \in table => Whole(r) \notin Gone

Kept(x) == {r \in answered[x] : Whole(r) \in table}

Counted == \A x \in EngineApps : IsFiniteSet(answered[x]) /\ committed[x] = Cardinality(Kept(x))

RowFacts == WaitsOnLive /\ StartsAtOne /\ InOrder /\ GivenOnce /\ AnsweredOnce
PlaceFacts == WaitingWereAnswered /\ SettledWereAnswered /\ InOnePlace /\ Counted

AppInv == TypeOK /\ AP!IInv /\ RowFacts /\ PlaceFacts

LEMMA AppInit == Init => AppInv
<1> SUFFICES ASSUME Init PROVE AppInv
  OBVIOUS
<1>1. AP!IInv
  <2>1. AP!Init => AP!IInv
    BY AP!InitIInv, NullAssumption
  <2> QED BY <2>1, SameAppenders DEF Init
<1>2. TypeOK
  BY <1>1, WidthAssumption DEF Init, TypeOK, AP!IInv, AP!TypeOK, AP!EngineStates, App!TypeOK, App!EngineStates
<1>3. RowFacts
  BY DEF Init, RowFacts, WaitsOnLive, StartsAtOne, InOrder, GivenOnce, AnsweredOnce
<1>4. PlaceFacts
  <2>1. WaitingWereAnswered /\ SettledWereAnswered /\ InOnePlace
    BY DEF Init, WaitingWereAnswered, SettledWereAnswered, InOnePlace, Gone
  <2>2. Counted
    BY FS_EmptySet DEF Init, Counted, Kept
  <2> QED BY <2>1, <2>2 DEF PlaceFacts
<1> QED BY <1>1, <1>2, <1>3, <1>4 DEF AppInv

------------------------------------------------------------------------------
(* Where the rows are.  What waits on one appender goes to the table, and  *)
(* is counted, or is gone; the rows of the others stay where they are.     *)

Emptied(x) ==
    /\ buffered' = [buffered EXCEPT ![x] = {}]
    /\ UNCHANGED answered
    /\ \/ /\ table' = table \cup buffered[x]
          /\ committed' = [committed EXCEPT ![x] = @ + Cardinality(buffered[x])]
          /\ Gone' = Gone
       \/ /\ UNCHANGED <<table, committed>>
          /\ Gone' = Gone \cup buffered[x]

Waiting(x) == {r \in answered[x] : Whole(r) \in buffered[x]}

(* As many rows wait as there are answers to them. *)
LEMMA WaitingAreCounted ==
  ASSUME AppInv, NEW x \in EngineApps
  PROVE  /\ IsFiniteSet(Waiting(x)) /\ IsFiniteSet(buffered[x])
         /\ Cardinality(buffered[x]) = Cardinality(Waiting(x))
<1>1. IsFiniteSet(Waiting(x))
  BY FS_Subset DEF AppInv, PlaceFacts, Counted, Waiting
<1> DEFINE f == [r \in Waiting(x) |-> Whole(r)]
<1>2. f \in Bijection(Waiting(x), buffered[x])
  <2>1. \A r \in Waiting(x) : r \in Rows
    BY DEF AppInv, TypeOK, Waiting
  <2>2. f \in [Waiting(x) -> buffered[x]]
    BY DEF Waiting
  <2>3. \A r, q \in Waiting(x) : f[r] = f[q] => r = q
    BY <2>1, WholeIsOne
  <2>4. \A w \in buffered[x] : \E r \in Waiting(x) : f[r] = w
    BY DEF AppInv, PlaceFacts, WaitingWereAnswered, Waiting
  <2> HIDE DEF f
  <2>5. f \in Injection(Waiting(x), buffered[x])
    BY <2>2, <2>3 DEF Injection, IsInjective
  <2>6. f \in Surjection(Waiting(x), buffered[x])
    BY <2>2, <2>4 DEF Surjection
  <2> QED BY <2>5, <2>6 DEF Bijection
<1>3. ExistsBijection(Waiting(x), buffered[x])
  BY <1>2 DEF ExistsBijection
<1> QED BY <1>1, <1>3, FS_Bijection

(* A row that waits on one appender is none that another answered for. *)
LEMMA WaitingAreApart ==
  ASSUME AppInv, NEW x \in EngineApps, NEW y \in EngineApps, x # y,
         NEW r \in answered[y]
  PROVE  Whole(r) \notin buffered[x]
<1> SUFFICES ASSUME Whole(r) \in buffered[x] PROVE FALSE
  OBVIOUS
<1>1. PICK q \in answered[x] : Whole(r) = Whole(q)
  BY DEF AppInv, PlaceFacts, WaitingWereAnswered
<1>2. q \in Rows /\ r \in Rows
  BY DEF AppInv, TypeOK
<1> QED BY <1>1, <1>2, WholeIsOne DEF AppInv, RowFacts, AnsweredOnce

LEMMA EmptiedKeepsPlaces ==
  ASSUME AppInv, NEW x \in EngineApps, Emptied(x) PROVE PlaceFacts'
<1>0. /\ WaitingWereAnswered /\ SettledWereAnswered /\ InOnePlace /\ Counted
      /\ DOMAIN buffered = EngineApps /\ committed \in [EngineApps -> Nat]
  BY DEF AppInv, PlaceFacts, TypeOK
<1>a. \A y \in EngineApps : buffered'[y] = IF y = x THEN {} ELSE buffered[y]
  BY <1>0 DEF Emptied
<1>1. WaitingWereAnswered'
  BY <1>0, <1>a DEF Emptied, WaitingWereAnswered
<1>2. SettledWereAnswered'
  BY <1>0 DEF Emptied, WaitingWereAnswered, SettledWereAnswered
<1>3. InOnePlace'
  <2> SUFFICES ASSUME NEW y \in EngineApps, NEW r \in answered[y]
               PROVE  /\ Whole(r) \in buffered'[y] \cup table' \cup Gone'
                      /\ Whole(r) \in buffered'[y] => Whole(r) \notin table' \cup Gone'
                      /\ Whole(r) \in table' => Whole(r) \notin Gone'
    BY DEF InOnePlace, Emptied, Whole
  <2>1. CASE y = x
    BY <1>0, <1>a, <2>1 DEF Emptied, InOnePlace
  <2>2. CASE y # x
    BY <1>0, <1>a, <2>2, WaitingAreApart DEF Emptied, InOnePlace
  <2> QED BY <2>1, <2>2
<1>4. Counted'
  <2> SUFFICES ASSUME NEW y \in EngineApps PROVE committed'[y] = Cardinality(Kept(y)')
    BY <1>0 DEF Counted, Emptied
  <2>1. CASE UNCHANGED <<table, committed>>
    BY <1>0, <2>1 DEF Emptied, Counted, Kept, Whole
  <2>2. CASE /\ table' = table \cup buffered[x]
             /\ committed' = [committed EXCEPT ![x] = @ + Cardinality(buffered[x])]
    <3>1. CASE y # x
      <4>1. Kept(y)' = Kept(y)
        BY <2>2, <3>1, WaitingAreApart DEF Emptied, Kept, Whole
      <4> QED BY <1>0, <2>2, <3>1, <4>1 DEF Counted
    <3>2. CASE y = x
      <4>1. Kept(x)' = Kept(x) \cup Waiting(x)
        BY <2>2 DEF Emptied, Kept, Waiting, Whole
      <4>2. Kept(x) \cap Waiting(x) = {}
        BY <1>0 DEF InOnePlace, Kept, Waiting
      <4>3. IsFiniteSet(Kept(x))
        BY <1>0, FS_Subset DEF Counted, Kept
      <4>4. Cardinality(Kept(x)') = Cardinality(Kept(x)) + Cardinality(Waiting(x))
        <5>1. IsFiniteSet(Waiting(x))
          BY WaitingAreCounted
        <5>2. Cardinality(Kept(x) \cup Waiting(x))
                = Cardinality(Kept(x)) + Cardinality(Waiting(x)) - Cardinality(Kept(x) \cap Waiting(x))
          BY <4>3, <5>1, FS_Union
        <5>3. Cardinality(Kept(x)) \in Nat /\ Cardinality(Waiting(x)) \in Nat
          BY <4>3, <5>1, FS_CardinalityType
        <5>4. Cardinality(Kept(x) \cap Waiting(x)) = 0
          BY <4>2, FS_EmptySet
        <5>5. Cardinality(Kept(x) \cup Waiting(x)) = Cardinality(Kept(x)) + Cardinality(Waiting(x))
          BY <5>2, <5>3, <5>4
        <5> QED BY <4>1, <5>5
      <4> QED BY <1>0, <2>2, <3>2, <4>4, WaitingAreCounted DEF Counted
    <3> QED BY <3>1, <3>2
  <2> QED BY <2>1, <2>2 DEF Emptied
<1> QED BY <1>1, <1>2, <1>3, <1>4 DEF PlaceFacts

LEMMA PlacesUntouched ==
  ASSUME AppInv, UNCHANGED <<buffered, answered, committed, table, dropped, lost>>
  PROVE  PlaceFacts'
<1> USE DEF AppInv, PlaceFacts, Gone, Whole
<1>1. WaitingWereAnswered' /\ SettledWereAnswered'
  BY DEF WaitingWereAnswered, SettledWereAnswered
<1>2. InOnePlace'
  BY DEF InOnePlace
<1>3. Counted'
  BY DEF Counted, Kept
<1> QED BY <1>1, <1>2, <1>3

(* A row that end_row takes: it waits, and is answered for by nobody else. *)
LEMMA AnsweredKeepsPlaces ==
  ASSUME AppInv, NEW x \in EngineApps, NEW r \in Rows,
         \A y \in EngineApps : r \notin answered[y],
         buffered' = [buffered EXCEPT ![x] = @ \cup {Whole(r)}],
         answered' = [answered EXCEPT ![x] = @ \cup {r}],
         UNCHANGED <<committed, table, dropped, lost>>
  PROVE  PlaceFacts'
<1>0. /\ WaitingWereAnswered /\ SettledWereAnswered /\ InOnePlace /\ Counted
      /\ buffered \in [EngineApps -> SUBSET Seq(Values)]
      /\ answered \in [EngineApps -> SUBSET Rows]
  BY DEF AppInv, PlaceFacts, TypeOK
<1>a. \A y \in EngineApps :
        /\ buffered'[y] = IF y = x THEN buffered[x] \cup {Whole(r)} ELSE buffered[y]
        /\ answered'[y] = IF y = x THEN answered[x] \cup {r} ELSE answered[y]
  BY <1>0
<1>b. /\ \A y \in EngineApps : Whole(r) \notin buffered[y]
      /\ Whole(r) \notin table \cup Gone
  BY <1>0, WholeIsOne DEF WaitingWereAnswered, SettledWereAnswered
<1>c. \A y \in EngineApps : \A q \in answered[y] : Whole(q) # Whole(r)
  BY <1>0, WholeIsOne
<1>d. Gone' = Gone /\ table' = table /\ committed' = committed
  BY DEF Gone
<1>1. WaitingWereAnswered'
  BY <1>0, <1>a DEF WaitingWereAnswered, Whole
<1>2. SettledWereAnswered'
  BY <1>0, <1>a, <1>d DEF SettledWereAnswered, Whole
<1>3. InOnePlace'
  <2> SUFFICES ASSUME NEW y \in EngineApps, NEW q \in answered'[y]
               PROVE  /\ Whole(q) \in buffered'[y] \cup table \cup Gone
                      /\ Whole(q) \in buffered'[y] => Whole(q) \notin table \cup Gone
                      /\ Whole(q) \in table => Whole(q) \notin Gone
    BY <1>d DEF InOnePlace, Whole
  <2>1. CASE y = x /\ q = r
    BY <1>a, <1>b, <2>1
  <2>2. CASE q \in answered[y]
    BY <1>0, <1>a, <1>c, <2>2 DEF InOnePlace
  <2> QED BY <1>a, <2>1, <2>2
<1>4. Counted'
  <2>1. \A y \in EngineApps : Kept(y)' = Kept(y)
    <3> SUFFICES ASSUME NEW y \in EngineApps, NEW q
                 PROVE  q \in answered'[y] /\ Whole(q) \in table <=> q \in answered[y] /\ Whole(q) \in table
      BY <1>d DEF Kept, Whole
    <3>1. CASE q = r
      BY <1>b, <3>1
    <3>2. CASE q # r
      BY <1>a, <3>2
    <3> QED BY <3>1, <3>2
  <2>2. IsFiniteSet(answered[x] \cup {r})
    BY <1>0, FS_AddElement DEF Counted
  <2> QED BY <1>0, <1>a, <1>d, <2>1, <2>2 DEF Counted
<1> QED BY <1>1, <1>2, <1>3, <1>4 DEF PlaceFacts

(* A row as long as the caller has come in it is the caller's, and whole.  *)
LEMMA FullIsWhole ==
  ASSUME AppInv, NEW x \in EngineApps, giving[x] # Null,
         place[x] = Width + 1, Len(partial[x]) = Width
  PROVE  giving[x] \in Rows /\ partial[x] = Whole(giving[x])
<1>1. giving[x] \in Rows /\ partial[x] \in Seq(Values)
  BY DEF AppInv, TypeOK
<1>2. \A i \in 1 .. Width : partial[x][i] = <<giving[x], i>>
  BY WidthAssumption DEF AppInv, RowFacts, InOrder
<1>3. partial[x] = [i \in 1 .. Width |-> partial[x][i]]
  BY <1>1
<1> QED BY <1>1, <1>2, <1>3 DEF Whole

------------------------------------------------------------------------------
(* The actions.                                                            *)

(* The appender a call is made on is one the engine handed out. *)
LEMMA InUseIsLive ==
  ASSUME AppInv, NEW o \in Objects, InUse(o)
  PROVE  a[o] \in EngineApps /\ eapp[a[o]] = "live"
  BY DEF InUse, AppInv, AP!IInv, AP!TypeOK, AP!NoDangling

LEMMA HandlesTyped ==
  ASSUME AppInv, AP!IInv'
  PROVE  /\ a \in [Objects -> EngineApps \cup {Null}]
         /\ eapp \in [EngineApps -> {"unmade", "live", "freed", "given"}]
         /\ App!TypeOK'
  BY DEF AppInv, AP!IInv, AP!TypeOK, AP!EngineStates, App!TypeOK, App!EngineStates

(* What a write moves are rows. *)
LEMMA MovedAreRows ==
  ASSUME AppInv, NEW x \in EngineApps PROVE buffered[x] \subseteq Seq(Values)
  BY DEF AppInv, TypeOK

(* And what it counts is a number. *)
LEMMA CountsAreNumbers ==
  ASSUME AppInv, NEW x \in EngineApps
  PROVE  /\ committed \in [EngineApps -> Nat]
         /\ [committed EXCEPT ![x] = @ + Cardinality(buffered[x])] \in [EngineApps -> Nat]
<1>1. committed \in [EngineApps -> Nat]
  BY DEF AppInv, TypeOK
<1>2. Cardinality(buffered[x]) \in Nat
  BY WaitingAreCounted, FS_CardinalityType
<1> QED BY <1>1, <1>2

(* Making and moving an appender is nothing to the rows. *)
LEMMA RowsUntouched ==
  ASSUME AppInv, AP!IInv', UNCHANGED <<rowVars, bookVars>>,
         \A x \in EngineApps : /\ eapp'[x] # "live" => eapp[x] # "live"
                               /\ eapp'[x] \in {"unmade", "live"} => eapp[x] \in {"unmade", "live"}
  PROVE  AppInv'
<1>1. TypeOK'
  BY HandlesTyped DEF AppInv, TypeOK, rowVars, bookVars
<1>2. RowFacts'
  BY DEF AppInv, RowFacts, WaitsOnLive, StartsAtOne, InOrder, GivenOnce, AnsweredOnce, rowVars, bookVars
<1>3. PlaceFacts'
  BY PlacesUntouched DEF rowVars, bookVars
<1> QED BY <1>1, <1>2, <1>3 DEF AppInv

(* A handle that ends: nothing waits on it, and no row is given to it.     *)
LEMMA FreeStep ==
  ASSUME AppInv, AP!IInv', NEW x \in EngineApps, zu_appender_free(x), eapp[x] = "live",
         eapp' = [eapp EXCEPT ![x] = "freed"]
  PROVE  AppInv'
<1> USE DEF zu_appender_free
<1>0. TypeOK /\ RowFacts
  BY DEF AppInv
<1>1. Emptied(x)
  BY DEF Emptied, Written, Gone
<1>2. PlaceFacts'
  BY <1>1, EmptiedKeepsPlaces
<1>3. TypeOK'
  <2>2. buffered' \in [EngineApps -> SUBSET Seq(Values)]
    BY <1>0, <1>1 DEF TypeOK, Emptied
  <2>3. committed' \in [EngineApps -> Nat]
    BY CountsAreNumbers DEF Written
  <2>4. table' \cup dropped' \cup lost' \subseteq Seq(Values)
    BY <1>0, MovedAreRows DEF TypeOK, Written
  <2>5. partial' \in [EngineApps -> Seq(Values)] /\ \A y \in EngineApps : Len(partial'[y]) <= Width
    BY <1>0, WidthAssumption DEF TypeOK
  <2> QED BY <1>0, <2>2, <2>3, <2>4, <2>5, HandlesTyped DEF TypeOK
<1>4. RowFacts'
  <2>1. WaitsOnLive'
    BY <1>0, <1>1, HandlesTyped DEF RowFacts, WaitsOnLive, Emptied, TypeOK
  <2>2. StartsAtOne'
    BY <1>0, HandlesTyped DEF RowFacts, StartsAtOne, TypeOK
  <2>3. InOrder'
    <3> SUFFICES ASSUME NEW y \in EngineApps, Len(partial'[y]) = place[y] - 1, NEW i \in 1 .. place[y] - 1
                 PROVE  partial'[y][i] = <<giving'[y], i>>
      BY DEF InOrder
    <3>1. CASE y = x
      BY <1>0, <3>1 DEF TypeOK
    <3>2. CASE y # x
      BY <1>0, <3>2 DEF RowFacts, InOrder, TypeOK
    <3> QED BY <3>1, <3>2
  <2>4. GivenOnce' /\ AnsweredOnce'
    BY <1>0 DEF RowFacts, GivenOnce, AnsweredOnce, TypeOK
  <2> QED BY <2>1, <2>2, <2>3, <2>4 DEF RowFacts
<1> QED BY <1>2, <1>3, <1>4 DEF AppInv

(* flush and close write, or fail, and leave the row alone; so does        *)
(* discard.                                                                *)
LEMMA WriteStep ==
  ASSUME AppInv, AP!IInv', NEW x \in EngineApps,
         \/ Written(x) \/ Refused(x)
         \/ /\ dropped' = dropped \cup buffered[x]
            /\ buffered' = [buffered EXCEPT ![x] = {}]
            /\ UNCHANGED <<committed, table, lost>>,
         spent' \in SUBSET EngineApps, UNCHANGED <<appVars, rowVars>>
  PROVE  AppInv'
<1>0. TypeOK /\ RowFacts /\ PlaceFacts
  BY DEF AppInv
<1>1. Emptied(x) \/ UNCHANGED <<buffered, committed, table, dropped, lost>>
  BY DEF Emptied, Written, Refused, Gone, rowVars
<1>2. PlaceFacts'
  <2>1. CASE UNCHANGED <<buffered, committed, table, dropped, lost>>
    BY <2>1, PlacesUntouched DEF rowVars
  <2> QED BY <1>1, <2>1, EmptiedKeepsPlaces
<1>3. TypeOK'
  <2>2. buffered' \in [EngineApps -> SUBSET Seq(Values)]
    BY <1>0, <1>1 DEF TypeOK, Emptied
  <2>3. committed' \in [EngineApps -> Nat]
    BY CountsAreNumbers DEF Written, Refused
  <2>4. table' \cup dropped' \cup lost' \subseteq Seq(Values)
    BY <1>0, MovedAreRows DEF TypeOK, Written, Refused
  <2> QED BY <1>0, <2>2, <2>3, <2>4, HandlesTyped DEF TypeOK, appVars, rowVars
<1>4. \A y \in EngineApps : buffered'[y] = {} \/ buffered'[y] = buffered[y]
  BY <1>0, <1>1 DEF Emptied, TypeOK
<1>5. RowFacts'
  BY <1>0, <1>4 DEF RowFacts, WaitsOnLive, StartsAtOne, InOrder, GivenOnce, AnsweredOnce, appVars, rowVars
<1> QED BY <1>2, <1>3, <1>5 DEF AppInv

(* append: the row that meets what is left of another, or loses a value,   *)
(* is out of step with the caller from then on.                            *)
LEMMA AppendStep ==
  ASSUME AppInv, AP!IInv', NEW o \in Objects, NEW r \in Rows, NEW fits \in BOOLEAN, append(o, r, fits)
  PROVE  AppInv'
<1> DEFINE x == a[o]
<1>0. x \in EngineApps /\ eapp[x] = "live" /\ eapp' = eapp
  BY InUseIsLive DEF append, appVars
<1>1. TypeOK /\ RowFacts /\ PlaceFacts
  BY DEF AppInv
<1>2. /\ giving[x] = r \/ (giving[x] = Null /\ r \notin started)
      /\ place[x] \in 1 .. Width
      /\ started' = started \cup {r}
      /\ partial[x] \in Seq(Values) /\ Len(partial[x]) <= Width
      /\ <<r, place[x]>> \in Values
  BY <1>0, <1>1 DEF append, TypeOK, Values
<1>3. \/ /\ Len(partial[x]) < Width
         /\ partial' = [partial EXCEPT ![x] = Append(@, <<r, place[x]>>)]
      \/ partial' = [partial EXCEPT ![x] = <<>>]
  BY DEF append, zu_append
<1>4. \/ /\ giving' = [giving EXCEPT ![x] = r]
         /\ place' = [place EXCEPT ![x] = @ + 1]
      \/ /\ giving' = [giving EXCEPT ![x] = Null]
         /\ place' = [place EXCEPT ![x] = 1]
  BY DEF append
<1>5. UNCHANGED <<a, eapp, alive, answered, buffered, committed, spent, table, dropped, lost>>
  BY DEF append, appVars, bookVars
<1> HIDE DEF x
<1>6. TypeOK'
  <2>1. partial' \in [EngineApps -> Seq(Values)] /\ \A y \in EngineApps : Len(partial'[y]) <= Width
    <3>1. partial \in [EngineApps -> Seq(Values)] /\ \A y \in EngineApps : Len(partial[y]) <= Width
      BY <1>1 DEF TypeOK
    <3>2. CASE partial' = [partial EXCEPT ![x] = <<>>]
      BY <1>0, <3>1, <3>2, WidthAssumption
    <3>3. CASE Len(partial[x]) < Width /\ partial' = [partial EXCEPT ![x] = Append(@, <<r, place[x]>>)]
      BY <1>0, <1>2, <3>1, <3>3, WidthAssumption
    <3> QED BY <1>3, <3>2, <3>3
  <2>2. giving' \in [EngineApps -> Rows \cup {Null}] /\ place' \in [EngineApps -> 1 .. Width + 1]
    <3>1. giving \in [EngineApps -> Rows \cup {Null}] /\ place \in [EngineApps -> 1 .. Width + 1]
      BY <1>1 DEF TypeOK
    <3>2. place[x] + 1 \in 1 .. Width + 1 /\ 1 \in 1 .. Width + 1
      BY <1>2, WidthAssumption
    <3> QED BY <1>0, <1>4, <3>1, <3>2
  <2> QED BY <1>1, <1>2, <1>5, <2>1, <2>2, HandlesTyped DEF TypeOK
<1>7. InOrder'
  <2> SUFFICES ASSUME NEW y \in EngineApps, Len(partial'[y]) = place'[y] - 1, NEW i \in 1 .. place'[y] - 1
               PROVE  partial'[y][i] = <<giving'[y], i>>
    BY DEF InOrder
  <2>0. /\ partial \in [EngineApps -> Seq(Values)] /\ giving \in [EngineApps -> Rows \cup {Null}]
        /\ place \in [EngineApps -> 1 .. Width + 1]
    BY <1>1 DEF TypeOK
  <2>1. CASE y # x
    BY <1>1, <1>3, <1>4, <2>0, <2>1 DEF RowFacts, InOrder
  <2>2. CASE y = x /\ place'[x] = 1
    BY <2>2
  <2>3. CASE y = x /\ giving'[x] = r /\ place'[x] = place[x] + 1
    <3>1. CASE partial' = [partial EXCEPT ![x] = <<>>]
      <4>1. Len(partial'[x]) = 0
        BY <1>0, <2>0, <3>1
      <4> QED BY <1>2, <2>3, <4>1
    <3>2. CASE partial' = [partial EXCEPT ![x] = Append(@, <<r, place[x]>>)]
      <4>1. /\ partial'[x] = Append(partial[x], <<r, place[x]>>)
            /\ Len(partial[x]) = place[x] - 1
        BY <1>0, <1>2, <2>0, <2>3, <3>2
      <4>2. CASE i = place[x]
        BY <1>2, <2>3, <4>1, <4>2
      <4>3. CASE i # place[x]
        <5>1. i \in 1 .. place[x] - 1 /\ partial'[x][i] = partial[x][i]
          BY <1>2, <2>3, <4>1, <4>3
        <5>2. giving[x] = r
          BY <1>0, <1>1, <1>2, <5>1 DEF RowFacts, StartsAtOne
        <5> QED BY <1>0, <1>1, <2>3, <4>1, <5>1, <5>2 DEF RowFacts, InOrder
      <4> QED BY <4>2, <4>3
    <3> QED BY <1>3, <3>1, <3>2
  <2> QED BY <1>0, <1>4, <2>0, <2>1, <2>2, <2>3
<1>8. WaitsOnLive' /\ StartsAtOne' /\ GivenOnce' /\ AnsweredOnce'
  <2>0. giving \in [EngineApps -> Rows \cup {Null}] /\ place \in [EngineApps -> 1 .. Width + 1]
    BY <1>1 DEF TypeOK
  <2>1. WaitsOnLive' /\ AnsweredOnce'
    BY <1>1, <1>2, <1>5 DEF RowFacts, WaitsOnLive, AnsweredOnce
  <2>2. StartsAtOne'
    BY <1>0, <1>1, <1>4, <1>5, <2>0, NullAssumption DEF RowFacts, StartsAtOne
  <2>3. GivenOnce'
    BY <1>0, <1>1, <1>2, <1>4, <1>5, <2>0 DEF RowFacts, GivenOnce, AnsweredOnce
  <2> QED BY <2>1, <2>2, <2>3
<1>9. PlaceFacts'
  BY <1>5, PlacesUntouched
<1> QED BY <1>6, <1>7, <1>8, <1>9 DEF AppInv, RowFacts

(* The row is over, by an exception of the program's or by an end_row that *)
(* refused it: whatever is left of it stays with the engine.               *)
LEMMA RowOver ==
  ASSUME AppInv, AP!IInv', NEW x \in EngineApps,
         giving' = [giving EXCEPT ![x] = Null], place' = [place EXCEPT ![x] = 1],
         partial' \in {partial, [partial EXCEPT ![x] = <<>>]},
         UNCHANGED <<appVars, started, answered, bookVars>>
  PROVE  AppInv'
<1>1. TypeOK /\ RowFacts /\ PlaceFacts
  BY DEF AppInv
<1>2. TypeOK'
  <2>1. partial' \in [EngineApps -> Seq(Values)] /\ \A y \in EngineApps : Len(partial'[y]) <= Width
    <3>1. partial \in [EngineApps -> Seq(Values)] /\ \A y \in EngineApps : Len(partial[y]) <= Width
      BY <1>1 DEF TypeOK
    <3>2. CASE partial' = partial
      BY <3>1, <3>2
    <3>3. CASE partial' = [partial EXCEPT ![x] = <<>>]
      BY <3>1, <3>3, WidthAssumption
    <3> QED BY <3>2, <3>3
  <2>2. giving' \in [EngineApps -> Rows \cup {Null}] /\ place' \in [EngineApps -> 1 .. Width + 1]
    BY <1>1, WidthAssumption DEF TypeOK
  <2> QED BY <1>1, <2>1, <2>2, HandlesTyped DEF TypeOK, appVars, bookVars
<1>3. RowFacts'
  <2>0. giving \in [EngineApps -> Rows \cup {Null}] /\ place \in [EngineApps -> 1 .. Width + 1]
    BY <1>1 DEF TypeOK
  <2>1. WaitsOnLive' /\ AnsweredOnce'
    BY <1>1 DEF RowFacts, WaitsOnLive, AnsweredOnce, appVars, bookVars
  <2>2. StartsAtOne' /\ GivenOnce'
    BY <1>1, <2>0 DEF RowFacts, StartsAtOne, GivenOnce, appVars
  <2>3. \A y \in EngineApps : y # x => partial'[y] = partial[y]
    BY <1>1 DEF TypeOK
  <2>4. InOrder'
    BY <1>1, <2>0, <2>3 DEF RowFacts, InOrder
  <2> QED BY <2>1, <2>2, <2>4 DEF RowFacts
<1>4. PlaceFacts'
  BY PlacesUntouched DEF bookVars
<1> QED BY <1>2, <1>3, <1>4 DEF AppInv

(* end_row takes a full row, which waits from then on. *)
LEMMA TakeStep ==
  ASSUME AppInv, AP!IInv', NEW x \in EngineApps, eapp[x] = "live", giving[x] # Null,
         place[x] = Width + 1, Len(partial[x]) = Width,
         buffered' = [buffered EXCEPT ![x] = @ \cup {partial[x]}],
         answered' = [answered EXCEPT ![x] = @ \cup {giving[x]}],
         partial' = [partial EXCEPT ![x] = <<>>],
         giving' = [giving EXCEPT ![x] = Null], place' = [place EXCEPT ![x] = 1],
         UNCHANGED <<appVars, started, committed, spent, table, dropped, lost>>
  PROVE  AppInv'
<1>1. TypeOK /\ RowFacts
  BY DEF AppInv
<1> DEFINE r == giving[x]
<1>2. r \in Rows /\ partial[x] = Whole(r) /\ Whole(r) \in Seq(Values)
  BY FullIsWhole, WholeIsRow
<1>3. r \in started /\ \A y \in EngineApps : r \notin answered[y] /\ (giving[y] = r => y = x)
  BY <1>1 DEF RowFacts, GivenOnce
<1>4. PlaceFacts'
  BY <1>2, <1>3, AnsweredKeepsPlaces
<1>a. /\ giving \in [EngineApps -> Rows \cup {Null}] /\ place \in [EngineApps -> 1 .. Width + 1]
      /\ partial \in [EngineApps -> Seq(Values)] /\ \A y \in EngineApps : Len(partial[y]) <= Width
      /\ buffered \in [EngineApps -> SUBSET Seq(Values)] /\ answered \in [EngineApps -> SUBSET Rows]
  BY <1>1 DEF TypeOK
<1>5. TypeOK'
  <2>1. partial' \in [EngineApps -> Seq(Values)] /\ \A y \in EngineApps : Len(partial'[y]) <= Width
    BY <1>a, WidthAssumption
  <2>2. giving' \in [EngineApps -> Rows \cup {Null}] /\ place' \in [EngineApps -> 1 .. Width + 1]
    BY <1>a, WidthAssumption
  <2>3. buffered' \in [EngineApps -> SUBSET Seq(Values)] /\ answered' \in [EngineApps -> SUBSET Rows]
    BY <1>a, <1>2
  <2> QED BY <1>1, <2>1, <2>2, <2>3, HandlesTyped DEF TypeOK, appVars
<1>6. RowFacts'
  <2>1. WaitsOnLive'
    BY <1>1, <1>a DEF RowFacts, WaitsOnLive, appVars
  <2>2. StartsAtOne' /\ GivenOnce'
    BY <1>1, <1>a, <1>3 DEF RowFacts, StartsAtOne, GivenOnce, appVars
  <2>3. InOrder'
    <3> SUFFICES ASSUME NEW y \in EngineApps, Len(partial'[y]) = place'[y] - 1, NEW i \in 1 .. place'[y] - 1
                 PROVE  partial'[y][i] = <<giving'[y], i>>
      BY DEF InOrder
    <3>1. CASE y = x
      BY <1>a, <3>1
    <3>2. CASE y # x
      BY <1>1, <1>a, <3>2 DEF RowFacts, InOrder
    <3> QED BY <3>1, <3>2
  <2>4. AnsweredOnce'
    BY <1>1, <1>a, <1>3 DEF RowFacts, AnsweredOnce
  <2> QED BY <2>1, <2>2, <2>3, <2>4 DEF RowFacts
<1> QED BY <1>4, <1>5, <1>6 DEF AppInv

LEMMA AppStep == AppInv /\ [Next]_vars => AppInv'
<1> SUFFICES ASSUME AppInv, [Next]_vars PROVE AppInv'
  OBVIOUS
<1>0. AP!IInv'
  BY AppenderHandles DEF AppInv
<1>a. a \in [Objects -> EngineApps \cup {Null}] /\ eapp \in [EngineApps -> {"unmade", "live", "freed", "given"}]
  BY <1>0, HandlesTyped
<1>b. \A o \in alive : a[o] # Null => a[o] \in EngineApps /\ eapp[a[o]] = "live"
  BY <1>a DEF AppInv, AP!IInv, AP!TypeOK, AP!NoDangling
<1>1. ASSUME NEW o \in Objects, Empty(o) PROVE AppInv'
  BY <1>0, <1>1, RowsUntouched DEF Empty, App!Default
<1>2. ASSUME NEW o \in Objects, NEW x \in EngineApps, appender(o, x) PROVE AppInv'
  BY <1>0, <1>2, <1>a, RowsUntouched DEF appender, App!Adopt
<1>3. ASSUME NEW d \in Objects, NEW s \in Objects, Move(d, s) PROVE AppInv'
  BY <1>0, <1>3, RowsUntouched DEF Move, App!MoveConstruct
<1>4. ASSUME NEW d \in Objects, NEW s \in Objects, Assign(d, s) PROVE AppInv'
  <2>1. CASE d = s \/ a[d] = Null
    BY <1>0, <1>4, <2>1, RowsUntouched DEF Assign, FreeIfAny, App!MoveAssign, App!FreeIfAny
  <2>2. CASE d # s /\ a[d] # Null
    <3>1. a[d] \in EngineApps /\ eapp[a[d]] = "live"
      BY <1>4, <1>b, <2>2 DEF Assign, App!MoveAssign
    <3>2. zu_appender_free(a[d]) /\ eapp' = [eapp EXCEPT ![a[d]] = "freed"]
      BY <1>4, <2>2, <3>1 DEF Assign, FreeIfAny, App!MoveAssign, App!FreeIfAny, App!Free
    <3> QED BY <1>0, <3>1, <3>2, FreeStep
  <2> QED BY <2>1, <2>2
<1>5. ASSUME NEW o \in Objects, Destroy(o) PROVE AppInv'
  <2>1. CASE a[o] = Null
    BY <1>0, <1>5, <2>1, RowsUntouched DEF Destroy, FreeIfAny, App!Destroy, App!FreeIfAny
  <2>2. CASE a[o] # Null
    <3>1. a[o] \in EngineApps /\ eapp[a[o]] = "live"
      BY <1>5, <1>b, <2>2 DEF Destroy, App!Destroy
    <3>2. zu_appender_free(a[o]) /\ eapp' = [eapp EXCEPT ![a[o]] = "freed"]
      BY <1>5, <2>2, <3>1 DEF Destroy, FreeIfAny, App!Destroy, App!FreeIfAny, App!Free
    <3> QED BY <1>0, <3>1, <3>2, FreeStep
  <2> QED BY <2>1, <2>2
<1>6. ASSUME NEW o \in Objects, NEW r \in Rows, NEW fits \in BOOLEAN, append(o, r, fits) PROVE AppInv'
  BY <1>0, <1>6, AppendStep
<1>7. ASSUME NEW o \in Objects, Abandon(o) PROVE AppInv'
  BY <1>0, <1>7, InUseIsLive, RowOver DEF Abandon
<1>8. ASSUME NEW o \in Objects, end_row(o) PROVE AppInv'
  <2>1. a[o] \in EngineApps /\ eapp[a[o]] = "live"
    BY <1>8, InUseIsLive DEF end_row
  <2>2. CASE Len(partial[a[o]]) = Width
    BY <1>0, <1>8, <2>1, <2>2, TakeStep DEF end_row
  <2>3. CASE Len(partial[a[o]]) # Width
    BY <1>0, <1>8, <2>1, <2>3, RowOver DEF end_row, bookVars
  <2> QED BY <2>2, <2>3
<1>9. ASSUME NEW o \in Objects, flush(o) \/ discard(o) \/ close(o) PROVE AppInv'
  <2>1. a[o] \in EngineApps
    BY <1>9, InUseIsLive DEF flush, discard, close
  <2>2. spent' \in SUBSET EngineApps
    BY <1>9, <2>1 DEF flush, discard, close, AppInv, TypeOK
  <2> QED BY <1>0, <1>9, <2>1, <2>2, WriteStep DEF flush, discard, close
<1>10. CASE UNCHANGED vars
  BY <1>0, <1>10, RowsUntouched DEF vars, appVars
<1> QED
  BY <1>1, <1>2, <1>3, <1>4, <1>5, <1>6, <1>7, <1>8, <1>9, <1>10 DEF Next

LEMMA AlwaysAppInv == BulkSpec => []AppInv
<1>1. BulkInit => AppInv
  BY AppInit DEF BulkInit
<1>2. [BulkNext]_<<vars, fileVars>> => [Next]_vars
  BY DEF BulkNext
<1> QED BY <1>1, <1>2, AppStep, PTL DEF BulkSpec

(* No handle of either kind is freed twice, and the types.                 *)
THEOREM TypeCorrect == BulkSpec => []BulkTypeOK
  BY AlwaysAppInv, AlwaysLoadInv, PTL DEF AppInv, LoadInv, BulkTypeOK

(* However values are refused and rows abandoned, what waits and what is   *)
(* written are whole rows of the program's.                                *)
THEOREM RowsStayWhole == BulkSpec => []RowsAreWhole
<1>1. AppInv => RowsAreWhole
  <2> SUFFICES ASSUME AppInv, NEW w \in table \cup UNION {buffered[x] : x \in EngineApps}
               PROVE  \E r \in Rows : w = Whole(r)
    BY DEF RowsAreWhole
  <2>1. \E x \in EngineApps : \E r \in answered[x] : w = Whole(r)
    BY DEF AppInv, PlaceFacts, WaitingWereAnswered, SettledWereAnswered
  <2> QED BY <2>1 DEF AppInv, TypeOK
<1> QED BY <1>1, AlwaysAppInv, PTL

(* committed() and buffered() together are the rows end_row said yes to    *)
(* that were not thrown away.                                              *)
THEOREM CountsAddUp == BulkSpec => []CountsAgree
<1>1. AppInv => CountsAgree
  <2> SUFFICES ASSUME AppInv, NEW x \in EngineApps
               PROVE  committed[x] + Cardinality(buffered[x])
                        = Cardinality({r \in answered[x] : Whole(r) \notin dropped \cup lost})
    BY DEF CountsAgree
  <2>1. IsFiniteSet(Waiting(x)) /\ Cardinality(buffered[x]) = Cardinality(Waiting(x))
    BY WaitingAreCounted
  <2>2. IsFiniteSet(Kept(x)) /\ committed[x] = Cardinality(Kept(x))
    BY FS_Subset DEF AppInv, PlaceFacts, Counted, Kept
  <2>3. /\ {r \in answered[x] : Whole(r) \notin dropped \cup lost} = Kept(x) \cup Waiting(x)
        /\ Kept(x) \cap Waiting(x) = {}
    BY DEF AppInv, PlaceFacts, InOnePlace, Gone, Kept, Waiting
  <2>4. Cardinality(Kept(x) \cup Waiting(x))
          = Cardinality(Kept(x)) + Cardinality(Waiting(x)) - Cardinality(Kept(x) \cap Waiting(x))
    BY <2>1, <2>2, FS_Union
  <2>5. /\ Cardinality(Kept(x)) \in Nat /\ Cardinality(Waiting(x)) \in Nat
        /\ Cardinality(Kept(x) \cap Waiting(x)) = 0
    BY <2>1, <2>2, <2>3, FS_CardinalityType, FS_EmptySet
  <2>6. Cardinality(Kept(x) \cup Waiting(x)) = Cardinality(Kept(x)) + Cardinality(Waiting(x))
    BY <2>4, <2>5
  <2> QED BY <2>1, <2>2, <2>3, <2>6
<1> QED BY <1>1, AlwaysAppInv, PTL

(* A row end_row said yes to is in one place, and while it waits some      *)
(* object inside its lifetime will write it.                               *)
THEOREM EveryRowIsOnce == BulkSpec => []EveryRowOnce
<1>1. AppInv => EveryRowOnce
  <2> SUFFICES ASSUME AppInv, NEW x \in EngineApps, NEW r \in answered[x]
               PROVE  /\ \/ Whole(r) \in buffered[x] /\ \E o \in alive : a[o] = x
                         \/ Whole(r) \in table \cup dropped \cup lost
                      /\ Whole(r) \in buffered[x] => Whole(r) \notin table \cup dropped \cup lost
                      /\ Whole(r) \in table => Whole(r) \notin dropped \cup lost
    BY DEF EveryRowOnce
  <2>1. /\ Whole(r) \in buffered[x] \cup table \cup Gone
        /\ Whole(r) \in buffered[x] => Whole(r) \notin table \cup Gone
        /\ Whole(r) \in table => Whole(r) \notin Gone
    BY DEF AppInv, PlaceFacts, InOnePlace
  <2>2. Whole(r) \in buffered[x] => \E o \in alive : a[o] = x
    BY DEF AppInv, RowFacts, WaitsOnLive, AP!IInv, AP!NoLeak, AP!Holds
  <2> QED BY <2>1, <2>2 DEF Gone
<1> QED BY <1>1, AlwaysAppInv, PTL
==============================================================================
