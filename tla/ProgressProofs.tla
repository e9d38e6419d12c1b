---------------------------- MODULE ProgressProofs ----------------------------
(***************************************************************************)
(* The watcher proved for any number of connections and addresses: the     *)
(* engine calls on what its Connection owns, through every move, refusal   *)
(* and replacement; and, where the engine refuses a new arrangement while  *)
(* a statement runs, never on a Watch that was freed.                      *)
(***************************************************************************)
EXTENDS Progress, TLAPS

(* The proof of Handle<T, Free>, about the Connection objects. *)
HP == INSTANCE HandlesProofs
        WITH Objects <- Conns, EngineObjects <- EngineConns, p <- h, engine <- econn

(* Both instances of Handles are one. *)
LEMMA SameHandles ==
  /\ Conn!Init <=> HP!Init
  /\ [Conn!Next]_connVars <=> [HP!Next]_HP!vars
  BY DEF connVars, Conn!Init, HP!Init, Conn!Next, HP!Next, HP!vars,
         Conn!Default, HP!Default, Conn!Adopt, HP!Adopt, Conn!Release, HP!Release,
         Conn!MoveConstruct, HP!MoveConstruct, Conn!MoveAssign, HP!MoveAssign,
         Conn!Destroy, HP!Destroy, Conn!FreeIfAny, HP!FreeIfAny, Conn!Free, HP!Free

LEMMA ConnStep == [Next]_vars => [Conn!Next]_connVars
  BY DEF Conn!Next, Next, Empty, Close, Query, Interrupt, Connect, Move, Assign,
         SetProgress, Enter, Finish, Halt, Ends, Join, Return, connVars, vars

LEMMA HandlesStep == HP!IInv /\ [Next]_vars => HP!IInv'
<1>1. HP!IInv /\ [HP!Next]_HP!vars => HP!IInv'
  BY HP!StepIInv, NullAssumption
<1> QED BY <1>1, ConnStep, SameHandles

(* Whatever happens on the other threads, a zu_conn is made once and closed  *)
(* at most once.                                                            *)
THEOREM ConnectionsEndOnce == Spec => HP!PromiseSpec
<1>1. Init => HP!Init
  BY SameHandles DEF Init
<1>2. [Next]_vars => [HP!Next]_HP!vars
  BY ConnStep, SameHandles
<1>3. HP!Spec => HP!PromiseSpec
  BY HP!HandlesImplementPromise, NullAssumption
<1> QED BY <1>1, <1>2, <1>3, PTL DEF Spec, HP!Spec

------------------------------------------------------------------------------
(* The books: what is armed belongs to a connection that is held, and what *)
(* is not alive has no Watch.                                              *)

ArmedAreHeld == \A x \in EngineConns : armed[x] # Null => \E c \in alive : h[c] = x

DeadHaveNone == \A c \in Conns : c \notin alive => watch[c] = Null

BooksInv ==
    /\ TypeOK /\ HP!IInv
    /\ ArmedIsOwn /\ WatchesAreOwned
    /\ ArmedAreHeld /\ DeadHaveNone

LEMMA InitBooks == Init => BooksInv
<1> SUFFICES ASSUME Init PROVE BooksInv
  OBVIOUS
<1>1. HP!IInv
  <2>1. HP!Init => HP!IInv
    BY HP!InitIInv, NullAssumption
  <2> QED BY <2>1, SameHandles DEF Init
<1>2. TypeOK
  BY <1>1, NullAssumption DEF Init, TypeOK, Conn!Init, Conn!TypeOK, Conn!EngineStates
<1>3. ArmedIsOwn /\ WatchesAreOwned /\ ArmedAreHeld /\ DeadHaveNone
  BY NullAssumption DEF Init, Conn!Init, ArmedIsOwn, WatchesAreOwned, ArmedAreHeld, DeadHaveNone
<1> QED BY <1>1, <1>2, <1>3 DEF BooksInv

(* What HP!IInv says, in the words of this module. *)
LEMMA Held ==
  ASSUME HP!IInv
  PROVE  /\ alive \subseteq Conns
         /\ h \in [Conns -> EngineConns \cup {Null}]
         /\ \A c \in alive : h[c] # Null => econn[h[c]] = "live"
         /\ \A c, d \in alive : h[c] = h[d] /\ h[c] # Null => c = d
  BY DEF HP!IInv, HP!TypeOK, HP!NoDangling, HP!OneOwner

Books == ArmedIsOwn /\ WatchesAreOwned /\ ArmedAreHeld /\ DeadHaveNone

LEMMA TypeStep ==
  ASSUME TypeOK, HP!IInv, HP!IInv', [Next]_vars PROVE TypeOK'
<1>0. Conn!TypeOK'
  BY DEF HP!IInv, HP!TypeOK, Conn!TypeOK, HP!EngineStates, Conn!EngineStates
<1>a. alive \subseteq Conns /\ h \in [Conns -> EngineConns \cup {Null}]
  BY Held
<1> USE <1>0, <1>a, NullAssumption DEF TypeOK, connVars, watchVars, runVars
<1>1. ASSUME NEW c \in Conns, Empty(c) PROVE TypeOK'
  BY <1>1 DEF Empty
<1>9. ASSUME NEW c \in Conns, Close(c) PROVE TypeOK'
  BY <1>9 DEF Close, Disarm
<1>10. ASSUME NEW c \in Conns, Query(c) PROVE TypeOK'
  BY <1>10 DEF Query
<1>8. ASSUME NEW c \in Conns, Interrupt(c) PROVE TypeOK'
  <2>1. told' \in [EngineConns -> BOOLEAN]
    BY <1>8 DEF Interrupt
  <2>2. asked' \in [EngineConns -> BOOLEAN]
    BY <1>8, Zenon DEF Interrupt, Busy
  <2> QED BY <1>8, <2>1, <2>2 DEF Interrupt
<1>2. ASSUME NEW c \in Conns, NEW x \in EngineConns, Connect(c, x) PROVE TypeOK'
  BY <1>2 DEF Connect
<1>3. ASSUME NEW d \in Conns, NEW s \in Conns, Move(d, s) \/ Assign(d, s) PROVE TypeOK'
  BY <1>3 DEF Move, Assign, Disarm
<1>4. ASSUME NEW c \in Conns, NEW w \in Watches \cup {Null}, NEW every \in {0, 1}, SetProgress(c, w, every)
      PROVE TypeOK'
  BY <1>4 DEF SetProgress
<1>5. ASSUME NEW x \in EngineConns, Enter(x) \/ Finish(x) \/ Halt(x) \/ Join(x) PROVE TypeOK'
  BY <1>5 DEF Enter, Finish, Halt, Ends, Join
<1>6. ASSUME NEW x \in EngineConns, NEW answer \in {"yes", "no", "throws"}, Return(x, answer) PROVE TypeOK'
  BY <1>6 DEF Return
<1>7. CASE UNCHANGED vars
  BY <1>7 DEF vars
<1> QED BY <1>1, <1>2, <1>3, <1>4, <1>5, <1>6, <1>7, <1>8, <1>9, <1>10 DEF Next

LEMMA StepBooks == BooksInv /\ [Next]_vars => BooksInv'
<1> SUFFICES ASSUME BooksInv, [Next]_vars PROVE BooksInv'
  OBVIOUS
<1>1. HP!IInv'
  BY HandlesStep DEF BooksInv
<1>2. TypeOK'
  BY <1>1, TypeStep DEF BooksInv
<1> SUFFICES Books'
  BY <1>1, <1>2 DEF Books, BooksInv
<1> USE Held, NullAssumption DEF BooksInv, Books, TypeOK,
        ArmedIsOwn, WatchesAreOwned, ArmedAreHeld, DeadHaveNone
<1>3. ASSUME NEW c \in Conns, Empty(c) PROVE Books'
  BY <1>3 DEF Empty, Conn!Default
<1>4. ASSUME NEW c \in Conns, NEW x \in EngineConns, Connect(c, x) PROVE Books'
  BY <1>4 DEF Connect, Conn!Adopt, watchVars
<1>5. ASSUME NEW c \in Conns, Close(c) PROVE Books'
  BY <1>5 DEF Close, Disarm, Conn!Destroy
<1>6. ASSUME NEW d \in Conns, NEW s \in Conns, Move(d, s) PROVE Books'
  BY <1>6 DEF Move, Conn!MoveConstruct
<1>7. ASSUME NEW d \in Conns, NEW s \in Conns, Assign(d, s) PROVE Books'
  <2>1. CASE d = s
    BY <1>7, <2>1 DEF Assign, Conn!MoveAssign, watchVars
  <2>2. CASE d # s
    BY <1>7, <2>2 DEF Assign, Disarm, Conn!MoveAssign
  <2> QED BY <2>1, <2>2
<1>8. ASSUME NEW c \in Conns, NEW w \in Watches \cup {Null}, NEW every \in {0, 1}, SetProgress(c, w, every)
      PROVE Books'
  BY <1>8 DEF SetProgress, Accepts, connVars, watchVars
<1>9. CASE UNCHANGED <<connVars, watchVars>>
  BY <1>9 DEF connVars, watchVars
<1> QED
  BY <1>3, <1>4, <1>5, <1>6, <1>7, <1>8, <1>9
  DEF Next, Query, Interrupt, Enter, Finish, Halt, Ends, Join, Return, vars
LEMMA AlwaysBooks == Spec => []BooksInv
  BY InitBooks, StepBooks, PTL DEF Spec

(* The types, and no zu_conn closed twice, whatever the engine refuses.    *)
THEOREM TypeCorrect == Spec => []TypeOK
  BY AlwaysBooks, PTL DEF BooksInv

(* The engine calls with the Watch its Connection owns, or with none; no   *)
(* Watch is leaked, and none has two owners.                               *)
THEOREM EngineAndObjectAgree == Spec => []ArrangementAgrees
  BY AlwaysBooks, PTL DEF BooksInv, ArrangementAgrees

------------------------------------------------------------------------------
(* Running statements.  While one runs its connection is held, and, with   *)
(* an engine that refuses, what it started with is still armed; so what a  *)
(* callback runs on is what the Connection owns.                           *)

RunningAreHeld ==
    \A x \in EngineConns : phase[x] # "idle" =>
        /\ \E c \in alive : h[c] = x
        /\ kept[x] = armed[x]

CallingIsKept ==
    \A x \in EngineConns : calling[x] # Null => calling[x] = kept[x] /\ phase[x] # "idle"

RunInv == BooksInv /\ RunningAreHeld /\ CallingIsKept

LEMMA InitRun == Init => RunInv
  BY InitBooks DEF Init, RunInv, RunningAreHeld, CallingIsKept

LEMMA StepRun == Refuses /\ RunInv /\ [Next]_vars => RunInv'
<1> SUFFICES ASSUME Refuses, RunInv, [Next]_vars PROVE RunInv'
  OBVIOUS
<1>1. BooksInv'
  BY StepBooks DEF RunInv
<1> DEFINE Runs == RunningAreHeld /\ CallingIsKept
<1> SUFFICES Runs'
  BY <1>1 DEF RunInv
<1>2. /\ alive \subseteq Conns
      /\ h \in [Conns -> EngineConns \cup {Null}]
      /\ \A c \in alive : h[c] # Null => econn[h[c]] = "live"
      /\ \A c, d \in alive : h[c] = h[d] /\ h[c] # Null => c = d
  BY Held DEF RunInv, BooksInv
<1> USE <1>2, NullAssumption DEF RunInv, BooksInv, TypeOK, RunningAreHeld, CallingIsKept
<1>3. ASSUME NEW c \in Conns, Empty(c) PROVE Runs'
  BY <1>3 DEF Empty, Conn!Default, runVars
<1>4. ASSUME NEW c \in Conns, NEW x \in EngineConns, Connect(c, x) PROVE Runs'
  BY <1>4 DEF Connect, Conn!Adopt, watchVars, runVars
<1>5. ASSUME NEW c \in Conns, Close(c) PROVE Runs'
  BY <1>5 DEF Close, Disarm, Conn!Destroy, Busy, runVars
<1>6. ASSUME NEW d \in Conns, NEW s \in Conns, Move(d, s) PROVE Runs'
  BY <1>6 DEF Move, Conn!MoveConstruct, Busy, runVars
<1>7. ASSUME NEW d \in Conns, NEW s \in Conns, Assign(d, s) PROVE Runs'
  <2>1. CASE d = s
    BY <1>7, <2>1 DEF Assign, Conn!MoveAssign, watchVars, runVars
  <2>2. CASE d # s
    BY <1>7, <2>2 DEF Assign, Disarm, Conn!MoveAssign, Busy, runVars
  <2> QED BY <2>1, <2>2
<1>8. ASSUME NEW c \in Conns, NEW w \in Watches \cup {Null}, NEW every \in {0, 1}, SetProgress(c, w, every)
      PROVE Runs'
  BY <1>8 DEF SetProgress, Accepts, Busy, connVars, watchVars, runVars
<1>9. ASSUME NEW c \in Conns, Query(c) PROVE Runs'
  BY <1>9 DEF Query, Busy, connVars, watchVars
<1>10. ASSUME NEW x \in EngineConns, Enter(x) PROVE Runs'
  BY <1>10 DEF Enter, connVars, watchVars
<1>11. ASSUME NEW x \in EngineConns, Finish(x) \/ Halt(x) PROVE Runs'
  BY <1>11 DEF Finish, Halt, Ends, connVars, watchVars
<1>12. ASSUME NEW x \in EngineConns, Join(x) PROVE Runs'
  BY <1>12 DEF Join, connVars, watchVars
<1>13. ASSUME NEW x \in EngineConns, NEW answer \in {"yes", "no", "throws"}, Return(x, answer) PROVE Runs'
  BY <1>13 DEF Return, connVars, watchVars
<1>14. ASSUME NEW c \in Conns, Interrupt(c) PROVE Runs'
  BY <1>14 DEF Interrupt, connVars, watchVars
<1>15. CASE UNCHANGED vars
  BY <1>15 DEF vars, connVars, watchVars, runVars
<1> QED
  BY <1>3, <1>4, <1>5, <1>6, <1>7, <1>8, <1>9, <1>10, <1>11, <1>12, <1>13, <1>14, <1>15 DEF Next

(* With an engine that refuses a new arrangement while a statement runs: a *)
(* callback in flight runs on a Watch that is allocated, inside its        *)
(* statement.                                                              *)
THEOREM CallbacksAreSafe == Refuses /\ Spec => []CallbackIsSafe
<1>1. RunInv => CallbackIsSafe
  <2> SUFFICES ASSUME RunInv, NEW x \in EngineConns, calling[x] # Null
               PROVE  calling[x] \in heap /\ phase[x] # "idle"
    BY DEF CallbackIsSafe
  <2>1. phase[x] # "idle" /\ calling[x] = armed[x]
    BY DEF RunInv, RunningAreHeld, CallingIsKept
  <2>2. PICK c \in alive : h[c] = x
    BY <2>1 DEF RunInv, RunningAreHeld
  <2>3. watch[c] = calling[x]
    BY <2>1, <2>2, NullAssumption DEF RunInv, BooksInv, ArmedIsOwn
  <2> QED BY <2>1, <2>3 DEF RunInv, BooksInv, WatchesAreOwned
<1>2. CASE Refuses
  <2>1. RunInv /\ [Next]_vars => RunInv'
    BY <1>2, StepRun
  <2> QED BY <1>1, <2>1, InitRun, PTL DEF Spec
<1>3. CASE ~Refuses
  BY <1>3
<1> QED BY <1>2, <1>3

------------------------------------------------------------------------------
(* What the engine's stop flag says of a running statement was asked of    *)
(* that statement.                                                         *)

ToldWasAsked ==
    \A x \in EngineConns :
        /\ phase[x] # "idle" /\ told[x] => asked[x]
        /\ outcome[x] = "interrupted" => asked[x]

StopInv == BooksInv /\ ToldWasAsked

LEMMA StepStop == StopInv /\ [Next]_vars => StopInv'
<1> SUFFICES ASSUME StopInv, [Next]_vars PROVE StopInv'
  OBVIOUS
<1>1. BooksInv'
  BY StepBooks DEF StopInv
<1> SUFFICES ToldWasAsked'
  BY <1>1 DEF StopInv
<1> USE DEF StopInv, BooksInv, TypeOK, ToldWasAsked
<1>2. CASE UNCHANGED runVars
  BY <1>2 DEF runVars
<1>3. ASSUME NEW c \in Conns, Query(c) PROVE ToldWasAsked'
  BY <1>3, Held DEF Query
<1>4. ASSUME NEW c \in Conns, Interrupt(c) PROVE ToldWasAsked'
  BY <1>4, Held DEF Interrupt, Busy
<1>5. ASSUME NEW x \in EngineConns, Enter(x) \/ Join(x) PROVE ToldWasAsked'
  BY <1>5 DEF Enter, Join
<1>6. ASSUME NEW x \in EngineConns, Finish(x) PROVE ToldWasAsked'
  BY <1>6 DEF Finish, Ends
<1>7. ASSUME NEW x \in EngineConns, Halt(x) PROVE ToldWasAsked'
  BY <1>7 DEF Halt, Ends
<1>8. ASSUME NEW x \in EngineConns, NEW answer \in {"yes", "no", "throws"}, Return(x, answer) PROVE ToldWasAsked'
  BY <1>8 DEF Return
<1> QED
  BY <1>2, <1>3, <1>4, <1>5, <1>6, <1>7, <1>8
  DEF Next, Empty, Close, Connect, Move, Assign, SetProgress, vars

(* A statement that was stopped was asked to stop, whatever was asked of   *)
(* the connection before it began.                                         *)
THEOREM StopsWereAsked == Spec => []InterruptedOnlyIfAsked
<1>1. Init => StopInv
  BY InitBooks DEF Init, StopInv, ToldWasAsked
<1>2. StopInv => InterruptedOnlyIfAsked
  BY DEF StopInv, ToldWasAsked, InterruptedOnlyIfAsked
<1> QED BY <1>1, <1>2, StepStop, PTL DEF Spec
==============================================================================
