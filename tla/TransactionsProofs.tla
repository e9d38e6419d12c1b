-------------------------- MODULE TransactionsProofs --------------------------
(***************************************************************************)
(* The scope guard proved for any number of connections, guards and        *)
(* transactions.  What a guard owes its own transaction is proved of every *)
(* behaviour for as long as the program is orderly: no guarded Connection  *)
(* moved, no guarded transaction ended but through its guard.  The rest is *)
(* proved of every behaviour.                                              *)
(***************************************************************************)
EXTENDS Transactions, TLAPS

(* The proof of Handle<T, Free>, about the Connection objects. *)
HP == INSTANCE HandlesProofs
        WITH Objects <- Conns, EngineObjects <- EngineConns, p <- h, engine <- econn

(* Both instances of Handles are one. *)
LEMMA SameHandles ==
  /\ Conn!Init <=> HP!Init
  /\ [Conn!Next]_connVars <=> [HP!Next]_HP!vars
  BY DEF connVars, Conn!Init, HP!Init, Conn!Next, HP!Next, HP!vars,
         Conn!Default, HP!Default, Conn!Adopt, HP!Adopt, Conn!Release, HP!Release,
         Conn!MoveConstruct, HP!MoveConstruct, Conn!MoveAssign, HP!MoveAssign,
         Conn!Destroy, HP!Destroy, Conn!FreeIfAny, HP!FreeIfAny, Conn!Free, HP!Free

LEMMA ConnStep == [Next]_vars => [Conn!Next]_connVars
  BY DEF Conn!Next, Next, Empty, Close, BareEnd, Connect, Move, Assign,
         Begin, Transaction, GuardMove, GuardAssign, GuardEnd, GuardDestroy, connVars, vars

LEMMA HandlesStep == HP!IInv /\ [Next]_vars => HP!IInv'
<1>1. HP!IInv /\ [HP!Next]_HP!vars => HP!IInv'
  BY HP!StepIInv, NullAssumption
<1> QED BY <1>1, ConnStep, SameHandles

LEMMA HandlesAlways == Spec => []HP!IInv
<1>1. Init => HP!IInv
  <2>1. HP!Init => HP!IInv
    BY HP!InitIInv, NullAssumption
  <2> QED BY <2>1, SameHandles DEF Init
<1> QED BY <1>1, HandlesStep, PTL DEF Spec

(* Connections own their zu_conn handles as Handle<T, Free> promises,      *)
(* whatever the guards do.                                                 *)
THEOREM ConnectionsImplementHandles == Spec => ConnectionsAreHandles
<1>1. Init => Conn!Init
  BY DEF Init
<1>2. [Next]_vars => [Conn!Next]_Conn!vars
  BY ConnStep DEF connVars, Conn!vars
<1> QED BY <1>1, <1>2, PTL DEF Spec, ConnectionsAreHandles, Conn!Spec

(* Whatever the guards do, a zu_conn is made once and closed at most once.  *)
THEOREM ConnectionsEndOnce == Spec => HP!PromiseSpec
<1>1. Init => HP!Init
  BY SameHandles DEF Init
<1>2. [Next]_vars => [HP!Next]_HP!vars
  BY ConnStep, SameHandles
<1>3. HP!Spec => HP!PromiseSpec
  BY HP!HandlesImplementPromise, NullAssumption
<1> QED BY <1>1, <1>2, <1>3, PTL DEF Spec, HP!Spec

------------------------------------------------------------------------------
(* Without any discipline: the engine's side of the books.                 *)

TxnsAgree ==
    /\ \A x \in EngineConns : txn[x] # NoTxn => fate[txn[x]] = "open" /\ econn[x] = "live"
    /\ \A x, y \in EngineConns : (txn[x] = txn[y] /\ txn[x] # NoTxn) => x = y
    /\ \A t \in Txns : fate[t] = "open" => \E x \in EngineConns : txn[x] = t

PointersOK == \A g \in Guards : conn[g] # Null => g \in guards /\ conn[g] \in alive

FreeInv == TypeOK /\ HP!IInv /\ TxnsAgree /\ PointersOK

(* What an end call, the commit or the rollback, does to the books.        *)
LEMMA EndCall ==
  ASSUME FreeInv, NEW c \in Conns, zu_commit(c) \/ zu_rollback(c), h[c] \in EngineConns \cup {Null},
         econn' = econn
  PROVE  /\ TxnsAgree'
         /\ txn' \in [EngineConns -> Txns \cup {NoTxn}]
         /\ fate' \in [Txns -> Fates]
         /\ faulted' \subseteq Txns
<1> USE TxnAssumption, NullAssumption
<1>1. CASE UNCHANGED engineVars
  BY <1>1 DEF engineVars, FreeInv, TxnsAgree, TypeOK
<1>2. CASE Open(c) # NoTxn /\ Refused(h[c])
  BY <1>2 DEF Open, Refused, FreeInv, TxnsAgree, TypeOK
<1>3. ASSUME NEW how \in {"committed", "rolledback"}, Open(c) # NoTxn, Over(h[c], how)
      PROVE  /\ TxnsAgree'
             /\ txn' \in [EngineConns -> Txns \cup {NoTxn}]
             /\ fate' \in [Txns -> Fates]
             /\ faulted' \subseteq Txns
  BY <1>3 DEF Open, Over, FreeInv, TxnsAgree, TypeOK, Fates
<1> QED BY <1>1, <1>2, <1>3 DEF zu_commit, zu_rollback

(* What closing a handle does to them. *)
LEMMA CloseCall ==
  ASSUME FreeInv, NEW x \in EngineConns \cup {Null}, zu_conn_close(x),
         x = Null => econn' = econn,
         x # Null => econn' = [econn EXCEPT ![x] = "freed"]
  PROVE  /\ TxnsAgree'
         /\ txn' \in [EngineConns -> Txns \cup {NoTxn}]
         /\ fate' \in [Txns -> Fates]
         /\ faulted' \subseteq Txns
<1> USE TxnAssumption, NullAssumption
<1>1. econn \in [EngineConns -> {"unmade", "live", "freed", "given"}]
  BY DEF FreeInv, TypeOK, Conn!TypeOK, Conn!EngineStates
<1>2. CASE x # Null /\ txn[x] # NoTxn
  BY <1>1, <1>2 DEF zu_conn_close, Over, FreeInv, TxnsAgree, TypeOK, Fates
<1>3. CASE ~(x # Null /\ txn[x] # NoTxn)
  BY <1>1, <1>3 DEF zu_conn_close, engineVars, FreeInv, TxnsAgree, TypeOK
<1> QED BY <1>2, <1>3

(* What beginning a transaction does to them. *)
LEMMA BeginCall ==
  ASSUME FreeInv, NEW c \in alive, NEW t \in Txns, zu_begin(c, t), econn' = econn
  PROVE  /\ TxnsAgree'
         /\ txn' \in [EngineConns -> Txns \cup {NoTxn}]
         /\ fate' \in [Txns -> Fates]
         /\ faulted' \subseteq Txns
<1> USE TxnAssumption, NullAssumption
<1>1. h[c] \in EngineConns /\ econn[h[c]] = "live"
  BY DEF zu_begin, FreeInv, TypeOK, Conn!TypeOK, HP!IInv, HP!NoDangling
<1> QED
  BY <1>1 DEF zu_begin, Open, FreeInv, TxnsAgree, TypeOK, Fates

(* The handle of an object inside its lifetime, and of the target of an    *)
(* assignment, is live when it is closed.                                  *)
LEMMA Handle ==
  ASSUME FreeInv, NEW c \in alive
  PROVE  /\ c \in Conns
         /\ h[c] \in EngineConns \cup {Null}
         /\ h[c] # Null => econn[h[c]] = "live"
  BY DEF FreeInv, TypeOK, Conn!TypeOK, HP!IInv, HP!NoDangling

LEMMA ClosesLive ==
  ASSUME FreeInv, NEW c \in alive, Conn!FreeIfAny(h[c])
  PROVE  /\ h[c] = Null => econn' = econn
         /\ h[c] # Null => econn' = [econn EXCEPT ![h[c]] = "freed"]
  BY Handle DEF Conn!FreeIfAny, Conn!Free

(* What undo() does to them. *)
LEMMA UndoCall ==
  ASSUME FreeInv, NEW g \in guards, Undo(g), econn' = econn
  PROVE  /\ TxnsAgree'
         /\ txn' \in [EngineConns -> Txns \cup {NoTxn}]
         /\ fate' \in [Txns -> Fates]
         /\ faulted' \subseteq Txns
         /\ strays' \subseteq Txns
<1>1. g \in Guards /\ strays \subseteq Txns
  BY DEF FreeInv, TypeOK
<1>2. CASE conn[g] # Null
  <2>1. conn[g] \in alive
    BY <1>1, <1>2 DEF FreeInv, PointersOK
  <2>2. strays' \subseteq Txns
    BY <1>1, <1>2 DEF Undo, Note
  <2> QED BY <1>2, <2>1, <2>2, Handle, EndCall DEF Undo
<1>3. CASE conn[g] = Null
  BY <1>1, <1>3 DEF Undo, engineVars, FreeInv, TypeOK, TxnsAgree
<1> QED BY <1>2, <1>3

LEMMA InitFree == Init => FreeInv
<1> SUFFICES ASSUME Init PROVE FreeInv
  OBVIOUS
<1>1. HP!IInv
  <2>1. HP!Init => HP!IInv
    BY HP!InitIInv, NullAssumption
  <2> QED BY <2>1, SameHandles DEF Init
<1>2. TypeOK
  BY <1>1 DEF Init, TypeOK, Fates, HP!IInv, HP!TypeOK, HP!EngineStates, Conn!TypeOK, Conn!EngineStates
<1>3. TxnsAgree /\ PointersOK
  BY DEF Init, TxnsAgree, PointersOK
<1> QED BY <1>1, <1>2, <1>3 DEF FreeInv

(* One step per action; the engine's side of each is one of the lemmas     *)
(* above, the owners' side is the invariant of Handle<T, Free>.            *)
LEMMA StepFree == FreeInv /\ [Next]_vars => FreeInv'
<1> SUFFICES ASSUME FreeInv, [Next]_vars PROVE TypeOK' /\ TxnsAgree' /\ PointersOK'
  BY HandlesStep DEF FreeInv
<1> USE TxnAssumption, NullAssumption
<1>1. Conn!TypeOK'
  BY HandlesStep DEF FreeInv, HP!IInv, HP!TypeOK, HP!EngineStates, Conn!TypeOK, Conn!EngineStates
<1>2. ASSUME NEW c \in Conns, Empty(c) PROVE TypeOK' /\ TxnsAgree' /\ PointersOK'
  BY <1>1, <1>2 DEF Empty, Conn!Default, engineVars, guardVars, FreeInv, TypeOK, TxnsAgree, PointersOK
<1>3. ASSUME NEW c \in Conns, Close(c) PROVE TypeOK' /\ TxnsAgree' /\ PointersOK'
  <2>1. c \in alive /\ alive' = alive \ {c} /\ h' = h /\ Conn!FreeIfAny(h[c])
    BY <1>3 DEF Close, Conn!Destroy
  <2>2. /\ TxnsAgree'
        /\ txn' \in [EngineConns -> Txns \cup {NoTxn}]
        /\ fate' \in [Txns -> Fates]
        /\ faulted' \subseteq Txns
    BY <1>3, <2>1, Handle, ClosesLive, CloseCall DEF Close
  <2>3. PointersOK'
    BY <1>3, <2>1 DEF Close, Guarded, guardVars, FreeInv, PointersOK
  <2> QED BY <1>1, <1>3, <2>2, <2>3 DEF Close, guardVars, FreeInv, TypeOK
<1>4. ASSUME NEW c \in Conns, BareEnd(c) PROVE TypeOK' /\ TxnsAgree' /\ PointersOK'
  <2>1. /\ TxnsAgree'
        /\ txn' \in [EngineConns -> Txns \cup {NoTxn}]
        /\ fate' \in [Txns -> Fates]
        /\ faulted' \subseteq Txns
    BY <1>4, Handle, EndCall DEF BareEnd, connVars
  <2> QED BY <1>1, <1>4, <2>1 DEF BareEnd, connVars, guardVars, FreeInv, TypeOK, PointersOK
<1>5. ASSUME NEW c \in Conns, NEW x \in EngineConns, Connect(c, x)
      PROVE  TypeOK' /\ TxnsAgree' /\ PointersOK'
  <2>1. TxnsAgree'
    BY <1>5 DEF Connect, Conn!Adopt, engineVars, FreeInv, TypeOK, Conn!TypeOK, TxnsAgree
  <2> QED BY <1>1, <1>5, <2>1 DEF Connect, Conn!Adopt, engineVars, guardVars, FreeInv, TypeOK, PointersOK
<1>6. ASSUME NEW d \in Conns, NEW s \in Conns, Move(d, s)
      PROVE  TypeOK' /\ TxnsAgree' /\ PointersOK'
  BY <1>1, <1>6 DEF Move, Conn!MoveConstruct, engineVars, guardVars, FreeInv, TypeOK, TxnsAgree, PointersOK
<1>7. ASSUME NEW d \in Conns, NEW s \in Conns, Assign(d, s)
      PROVE  TypeOK' /\ TxnsAgree' /\ PointersOK'
  <2>1. CASE d = s
    BY <1>1, <1>7, <2>1 DEF Assign, Conn!MoveAssign, engineVars, guardVars, FreeInv, TypeOK,
       TxnsAgree, PointersOK
  <2>2. CASE d # s
    <3>1. d \in alive /\ alive' = alive /\ Conn!FreeIfAny(h[d])
      BY <1>7, <2>2 DEF Assign, Conn!MoveAssign
    <3>2. /\ TxnsAgree'
          /\ txn' \in [EngineConns -> Txns \cup {NoTxn}]
          /\ fate' \in [Txns -> Fates]
          /\ faulted' \subseteq Txns
      BY <1>7, <2>2, <3>1, Handle, ClosesLive, CloseCall DEF Assign
    <3> QED BY <1>1, <1>7, <3>1, <3>2 DEF Assign, guardVars, FreeInv, TypeOK, PointersOK
  <2> QED BY <2>1, <2>2
<1>8. ASSUME NEW c \in Conns, NEW t \in Txns, Begin(c, t)
      PROVE  TypeOK' /\ TxnsAgree' /\ PointersOK'
  BY <1>1, <1>8, BeginCall DEF Begin, connVars, guardVars, FreeInv, TypeOK, PointersOK
<1>9. ASSUME NEW c \in Conns, NEW g \in Guards, NEW t \in Txns, Transaction(c, g, t)
      PROVE  TypeOK' /\ TxnsAgree' /\ PointersOK'
  <2>1. /\ TxnsAgree'
        /\ txn' \in [EngineConns -> Txns \cup {NoTxn}]
        /\ fate' \in [Txns -> Fates]
        /\ faulted' \subseteq Txns
    BY <1>9, BeginCall DEF Transaction, connVars
  <2> QED BY <1>1, <1>9, <2>1 DEF Transaction, connVars, FreeInv, TypeOK, PointersOK
<1>10. ASSUME NEW d \in Guards, NEW s \in Guards, GuardMove(d, s)
       PROVE  TypeOK' /\ TxnsAgree' /\ PointersOK'
  BY <1>1, <1>10 DEF GuardMove, connVars, engineVars, FreeInv, TypeOK, TxnsAgree, PointersOK
<1>11. ASSUME NEW d \in Guards, NEW s \in Guards, GuardAssign(d, s)
       PROVE  TypeOK' /\ TxnsAgree' /\ PointersOK'
  <2>1. CASE d = s /\ UNCHANGED <<engineVars, conn, made, strays>>
    BY <1>1, <1>11, <2>1 DEF GuardAssign, connVars, engineVars, FreeInv, TypeOK, TxnsAgree, PointersOK
  <2>2. CASE /\ d # s
             /\ Undo(d)
             /\ conn' = [conn EXCEPT ![d] = conn[s], ![s] = Null]
             /\ made' = [made EXCEPT ![d] = made[s], ![s] = NoTxn]
    <3>1. /\ TxnsAgree'
          /\ txn' \in [EngineConns -> Txns \cup {NoTxn}]
          /\ fate' \in [Txns -> Fates]
          /\ faulted' \subseteq Txns
          /\ strays' \subseteq Txns
      BY <1>11, <2>2, UndoCall DEF GuardAssign, connVars
    <3> QED BY <1>1, <1>11, <2>2, <3>1 DEF GuardAssign, connVars, FreeInv, TypeOK, PointersOK
  <2> QED BY <1>11, <2>1, <2>2 DEF GuardAssign
<1>12. ASSUME NEW g \in Guards, GuardEnd(g) PROVE TypeOK' /\ TxnsAgree' /\ PointersOK'
  <2>1. conn[g] \in alive
    BY <1>12 DEF GuardEnd, FreeInv, PointersOK
  <2>2. /\ TxnsAgree'
        /\ txn' \in [EngineConns -> Txns \cup {NoTxn}]
        /\ fate' \in [Txns -> Fates]
        /\ faulted' \subseteq Txns
    BY <1>12, <2>1, Handle, EndCall DEF GuardEnd, connVars
  <2>3. strays' \subseteq Txns
    BY <1>12 DEF GuardEnd, Note, FreeInv, TypeOK
  <2> QED BY <1>1, <1>12, <2>2, <2>3 DEF GuardEnd, connVars, FreeInv, TypeOK, PointersOK
<1>13. ASSUME NEW g \in Guards, GuardDestroy(g) PROVE TypeOK' /\ TxnsAgree' /\ PointersOK'
  <2>1. /\ TxnsAgree'
        /\ txn' \in [EngineConns -> Txns \cup {NoTxn}]
        /\ fate' \in [Txns -> Fates]
        /\ faulted' \subseteq Txns
        /\ strays' \subseteq Txns
    BY <1>13, UndoCall DEF GuardDestroy, connVars
  <2> QED BY <1>1, <1>13, <2>1 DEF GuardDestroy, connVars, FreeInv, TypeOK, PointersOK
<1>14. CASE UNCHANGED vars
  BY <1>1, <1>14 DEF vars, connVars, engineVars, guardVars, FreeInv, TypeOK, TxnsAgree, PointersOK
<1> QED
  BY <1>2, <1>3, <1>4, <1>5, <1>6, <1>7, <1>8, <1>9, <1>10, <1>11, <1>12, <1>13, <1>14 DEF Next

LEMMA AlwaysFree == Spec => []FreeInv
  BY InitFree, StepFree, PTL DEF Spec

(* The types, and no zu_conn closed twice, whatever the program does.      *)
THEOREM TypeCorrect == Spec => []TypeOK
  BY AlwaysFree, PTL DEF FreeInv

(* A transaction left open is on a connection some object still holds,     *)
(* with no discipline asked of the program.                                *)
THEOREM OpenStaysReachable == Spec => []OpenIsReachable
<1>1. FreeInv => OpenIsReachable
  <2> SUFFICES ASSUME FreeInv, NEW t \in Txns, fate[t] = "open"
      PROVE  \E c \in alive : h[c] # Null /\ econn[h[c]] = "live" /\ txn[h[c]] = t
    BY DEF OpenIsReachable
  <2>1. PICK x \in EngineConns : txn[x] = t
    BY DEF FreeInv, TxnsAgree
  <2>2. econn[x] = "live"
    BY <2>1, TxnAssumption DEF FreeInv, TxnsAgree
  <2>3. PICK c \in Conns : c \in alive /\ h[c] = x
    BY <2>2 DEF FreeInv, HP!IInv, HP!NoLeak, HP!Holds
  <2> QED BY <2>1, <2>2, <2>3, NullAssumption
<1> QED BY <1>1, AlwaysFree, PTL

------------------------------------------------------------------------------
(* While the program is orderly: a guarded connection stays where it is,   *)
(* and what a guard stands over is ended through that guard.               *)

Stands(g) == conn[g] # Null

(* A standing guard reaches, through its pointer, the transaction it was   *)
(* made for; nobody else stands over that connection; what was scoped and  *)
(* is still open has its guard.                                            *)
GuardsReach ==
    /\ \A g \in Guards : Stands(g) =>
           /\ h[conn[g]] # Null
           /\ made[g] # NoTxn
           /\ txn[h[conn[g]]] = made[g]
    /\ \A g, k \in Guards : (Stands(g) /\ conn[g] = conn[k]) => g = k

ScopedHaveGuards ==
    /\ \A t \in scoped : fate[t] # "unborn"
    /\ \A t \in scoped \ faulted : fate[t] = "open" =>
           \E g \in Guards : Stands(g) /\ made[g] = t

ScopedInv == FreeInv /\ GuardsReach /\ ScopedHaveGuards /\ strays = {}

(* The inductive invariant of every behaviour. *)
OrderlyInv == FreeInv /\ (orderly => GuardsReach /\ ScopedHaveGuards /\ strays = {})

(* All that an end or a close of handle x can do: only what is open on x   *)
(* is over, and if it is not, the engine refused.                          *)
OnlyAt(x) ==
    /\ \A y \in EngineConns : y # x => txn'[y] = txn[y]
    /\ \A t \in Txns : \/ fate'[t] = fate[t]
                       \/ x # Null /\ t = txn[x] /\ fate'[t] \notin {"open", "unborn"}
    /\ faulted \subseteq faulted'
    /\ (x # Null /\ txn[x] # NoTxn) => fate'[txn[x]] # "open" \/ txn[x] \in faulted'

LEMMA EndsOnlyAt ==
  ASSUME FreeInv, NEW c \in alive, zu_commit(c) \/ zu_rollback(c)
  PROVE  OnlyAt(h[c])
<1> USE TxnAssumption, NullAssumption, Handle
<1>1. CASE Open(c) = NoTxn /\ UNCHANGED engineVars
  BY <1>1 DEF Open, engineVars, OnlyAt
<1>2. CASE Open(c) # NoTxn /\ Refused(h[c])
  BY <1>2 DEF Open, Refused, OnlyAt
<1>3. ASSUME NEW how \in {"committed", "rolledback"}, Open(c) # NoTxn, Over(h[c], how)
      PROVE  OnlyAt(h[c])
  BY <1>3 DEF Open, Over, OnlyAt, FreeInv, TypeOK
<1> QED BY <1>1, <1>2, <1>3 DEF zu_commit, zu_rollback

LEMMA CloseOnlyAt ==
  ASSUME FreeInv, NEW c \in alive, zu_conn_close(h[c])
  PROVE  OnlyAt(h[c])
  BY TxnAssumption, NullAssumption, Handle
     DEF zu_conn_close, Over, engineVars, OnlyAt, FreeInv, TypeOK

(* Two objects inside their lifetime hold two handles. *)
LEMMA Apart ==
  ASSUME FreeInv, NEW c \in alive, NEW d \in alive, c # d, h[d] # Null
  PROVE  h[c] # h[d]
  BY DEF FreeInv, HP!IInv, HP!OneOwner

(* What happens on a connection without a guard leaves the guards' side    *)
(* alone.                                                                  *)
LEMMA Unguarded ==
  ASSUME ScopedInv, NEW c \in alive, ~Guarded(c), OnlyAt(h[c]),
         UNCHANGED <<conn, made, scoped, strays>>,
         \A k \in Conns : Guarded(k) => h'[k] = h[k]
  PROVE  GuardsReach' /\ ScopedHaveGuards'
<1>1. \A g \in Guards : Stands(g) => /\ Guarded(conn[g])
                                     /\ conn[g] \in alive /\ conn[g] \in Conns /\ conn[g] # c
                                     /\ h[conn[g]] \in EngineConns /\ h[conn[g]] # h[c]
  BY Handle, Apart DEF ScopedInv, FreeInv, PointersOK, GuardsReach, Stands, Guarded
<1>2. GuardsReach'
  BY <1>1 DEF ScopedInv, GuardsReach, Stands, OnlyAt
<1>3. ScopedHaveGuards'
  BY DEF ScopedInv, ScopedHaveGuards, FreeInv, TypeOK, Stands, OnlyAt
<1> QED BY <1>2, <1>3

(* undo(), or the end a guard was asked for, reaches the transaction the   *)
(* guard was made for and nothing else.                                    *)
LEMMA GuardReaches ==
  ASSUME ScopedInv, NEW g \in guards, Undo(g) \/ (Stands(g) /\ (zu_commit(conn[g]) \/ zu_rollback(conn[g])) /\ Note(g))
  PROVE  /\ strays' = {}
         /\ \A k \in Guards : Stands(k) /\ k # g => /\ conn[k] \in Conns
                                                    /\ txn'[h[conn[k]]] = txn[h[conn[k]]]
         /\ \A t \in Txns : fate[t] # "unborn" => fate'[t] # "unborn"
         /\ \A t \in Txns : fate'[t] = "open" => fate[t] = "open"
         /\ faulted \subseteq faulted'
         /\ Stands(g) => fate'[made[g]] # "open" \/ made[g] \in faulted'
<1>1. g \in Guards
  BY DEF ScopedInv, FreeInv, TypeOK
<1>2. CASE ~Stands(g)
  BY <1>1, <1>2 DEF Undo, Stands, engineVars, ScopedInv, FreeInv, TypeOK
<1>3. CASE Stands(g)
  <2>1. conn[g] \in alive /\ h[conn[g]] \in EngineConns /\ txn[h[conn[g]]] = made[g] /\ made[g] # NoTxn
    BY <1>1, <1>3, Handle DEF Stands, ScopedInv, FreeInv, PointersOK, GuardsReach
  <2>2. OnlyAt(h[conn[g]]) /\ Note(g)
    BY <1>3, <2>1, EndsOnlyAt DEF Undo, Stands, ScopedInv
  <2>3. \A k \in Guards : Stands(k) /\ k # g => /\ conn[k] \in Conns
                                                /\ h[conn[k]] \in EngineConns
                                                /\ h[conn[k]] # h[conn[g]]
    BY <1>1, <1>3, <2>1, Handle, Apart DEF Stands, ScopedInv, FreeInv, PointersOK, GuardsReach
  <2>4. strays' = {}
    BY <2>1, <2>2, NullAssumption DEF Note, OnlyAt, ScopedInv
  <2> QED BY <1>3, <2>1, <2>2, <2>3, <2>4, NullAssumption DEF OnlyAt
<1> QED BY <1>2, <1>3

LEMMA InitScoped == Init => ScopedInv
  BY InitFree DEF Init, ScopedInv, GuardsReach, ScopedHaveGuards, Stands

LEMMA StepScoped == ScopedInv /\ [Next]_vars /\ orderly' => ScopedInv'
<1> SUFFICES ASSUME ScopedInv, [Next]_vars, orderly'
             PROVE GuardsReach' /\ ScopedHaveGuards' /\ strays' = {}
  BY StepFree DEF ScopedInv
<1> DEFINE Goal == GuardsReach' /\ ScopedHaveGuards' /\ strays' = {}
<1>1. \A c \in Conns : ~Guarded(c) => \A g \in Guards : conn[g] # c
  BY NullAssumption DEF Guarded, ScopedInv, FreeInv, PointersOK
<1>2. \A g \in Guards : Stands(g) => /\ conn[g] \in alive
                                     /\ conn[g] \in Conns
                                     /\ h[conn[g]] \in EngineConns
  BY Handle DEF Stands, ScopedInv, FreeInv, PointersOK, GuardsReach
<1>3. ASSUME NEW c \in Conns, Empty(c) PROVE Goal
  BY <1>2, <1>3 DEF Empty, Conn!Default, engineVars, guardVars, ScopedInv, GuardsReach,
                    ScopedHaveGuards, Stands, FreeInv, TypeOK, Conn!TypeOK
<1>4. ASSUME NEW c \in Conns, Close(c) PROVE Goal
  <2>1. c \in alive /\ h' = h /\ ~Guarded(c) /\ OnlyAt(h[c])
    BY <1>4, CloseOnlyAt DEF Close, Conn!Destroy, ScopedInv
  <2> QED BY <1>4, <2>1, Unguarded DEF Close, guardVars, ScopedInv
<1>5. ASSUME NEW c \in Conns, BareEnd(c) PROVE Goal
  <2>1. c \in alive /\ h' = h /\ ~Guarded(c) /\ OnlyAt(h[c])
    BY <1>5, EndsOnlyAt DEF BareEnd, connVars, ScopedInv
  <2> QED BY <1>5, <2>1, Unguarded DEF BareEnd, guardVars, ScopedInv
<1>6. ASSUME NEW c \in Conns, NEW x \in EngineConns, Connect(c, x) PROVE Goal
  BY <1>2, <1>6 DEF Connect, Conn!Adopt, engineVars, guardVars, ScopedInv, GuardsReach,
                    ScopedHaveGuards, Stands, FreeInv, TypeOK, Conn!TypeOK
<1>7. ASSUME NEW d \in Conns, NEW s \in Conns, Move(d, s) PROVE Goal
  <2>1. ~Guarded(s) /\ d \notin alive
    BY <1>7 DEF Move, Conn!MoveConstruct
  <2> QED BY <1>1, <1>2, <1>7, <2>1 DEF Move, Conn!MoveConstruct, engineVars, guardVars, ScopedInv,
             GuardsReach, ScopedHaveGuards, Stands, FreeInv, TypeOK, Conn!TypeOK
<1>8. ASSUME NEW d \in Conns, NEW s \in Conns, Assign(d, s) PROVE Goal
  <2>1. CASE d = s
    BY <1>8, <2>1 DEF Assign, Conn!MoveAssign, engineVars, guardVars, ScopedInv,
       GuardsReach, ScopedHaveGuards, Stands
  <2>2. CASE d # s
    <3>1. d \in alive /\ ~Guarded(d) /\ ~Guarded(s) /\ OnlyAt(h[d])
      BY <1>8, <2>2, CloseOnlyAt DEF Assign, Conn!MoveAssign, ScopedInv
    <3>2. \A k \in Conns : Guarded(k) => h'[k] = h[k]
      BY <1>8, <2>2, <3>1 DEF Assign, Conn!MoveAssign, ScopedInv, FreeInv, TypeOK, Conn!TypeOK
    <3> QED BY <1>8, <3>1, <3>2, Unguarded DEF Assign, guardVars, ScopedInv
  <2> QED BY <2>1, <2>2
<1>9. ASSUME NEW c \in alive, NEW t \in Txns, zu_begin(c, t)
      PROVE  /\ fate[t] = "unborn" /\ t \notin scoped
             /\ \A g \in Guards : conn[g] # c
             /\ h[c] \in EngineConns
             /\ txn' = [txn EXCEPT ![h[c]] = t]
             /\ fate' = [fate EXCEPT ![t] = "open"]
             /\ faulted' = faulted
             /\ \A g \in Guards : Stands(g) => txn'[h[conn[g]]] = txn[h[conn[g]]]
  <2>1. h[c] \in EngineConns /\ txn[h[c]] = NoTxn
    BY <1>9, Handle DEF zu_begin, Open, ScopedInv
  <2>2. \A g \in Guards : conn[g] # c
    BY <2>1, Handle, NullAssumption DEF ScopedInv, GuardsReach, Stands
  <2>3. \A g \in Guards : Stands(g) => h[conn[g]] # h[c]
    BY <1>2, <2>1, <2>2, Apart, NullAssumption DEF ScopedInv
  <2> QED BY <1>2, <1>9, <2>1, <2>2, <2>3 DEF zu_begin, ScopedInv, ScopedHaveGuards, FreeInv, TypeOK
<1>10. ASSUME NEW c \in Conns, NEW t \in Txns, Begin(c, t) PROVE Goal
  <2>1. c \in alive /\ zu_begin(c, t) /\ h' = h /\ UNCHANGED <<conn, made, scoped, strays>>
    BY <1>10 DEF Begin, connVars, guardVars
  <2> QED BY <1>9, <2>1 DEF ScopedInv, GuardsReach, ScopedHaveGuards, Stands, FreeInv, TypeOK
<1>11. ASSUME NEW c \in Conns, NEW g \in Guards, NEW t \in Txns, Transaction(c, g, t) PROVE Goal
  <2>1. /\ c \in alive /\ zu_begin(c, t) /\ h' = h /\ g \notin guards
        /\ conn' = [conn EXCEPT ![g] = c]
        /\ made' = [made EXCEPT ![g] = t]
        /\ scoped' = scoped \cup {t}
        /\ strays' = strays
    BY <1>11 DEF Transaction, connVars
  <2>2. ~Stands(g)
    BY <2>1 DEF Stands, ScopedInv, FreeInv, PointersOK
  <2>3. GuardsReach'
    BY <1>9, <2>1, <2>2, TxnAssumption, NullAssumption
       DEF ScopedInv, GuardsReach, Stands, FreeInv, TypeOK
  <2>4. ScopedHaveGuards'
    BY <1>9, <2>1, <2>2, NullAssumption DEF ScopedInv, ScopedHaveGuards, Stands, FreeInv, TypeOK
  <2> QED BY <2>1, <2>3, <2>4 DEF ScopedInv
<1>12. ASSUME NEW d \in Guards, NEW s \in Guards, GuardMove(d, s) PROVE Goal
  <2>1. ~Stands(d)
    BY <1>12 DEF GuardMove, Stands, ScopedInv, FreeInv, PointersOK
  <2> QED BY <1>2, <1>12, <2>1 DEF GuardMove, connVars, engineVars, ScopedInv, GuardsReach,
             ScopedHaveGuards, Stands, FreeInv, TypeOK
<1>13. ASSUME NEW d \in Guards, NEW s \in Guards, GuardAssign(d, s) PROVE Goal
  <2>1. CASE d = s /\ UNCHANGED <<engineVars, conn, made, strays>>
    BY <1>13, <2>1 DEF GuardAssign, connVars, engineVars, ScopedInv, GuardsReach,
       ScopedHaveGuards, Stands
  <2>2. CASE /\ d # s
             /\ Undo(d)
             /\ conn' = [conn EXCEPT ![d] = conn[s], ![s] = Null]
             /\ made' = [made EXCEPT ![d] = made[s], ![s] = NoTxn]
    <3>1. d \in guards /\ h' = h /\ scoped' = scoped
      BY <1>13 DEF GuardAssign, connVars
    <3>2. GuardsReach'
      BY <2>2, <3>1, GuardReaches DEF ScopedInv, GuardsReach, Stands, FreeInv, TypeOK
    <3>3. ScopedHaveGuards'
      BY <2>2, <3>1, GuardReaches DEF ScopedInv, ScopedHaveGuards, Stands, FreeInv, TypeOK
    <3> QED BY <2>2, <3>1, <3>2, <3>3, GuardReaches
  <2> QED BY <1>13, <2>1, <2>2 DEF GuardAssign
<1>14. ASSUME NEW g \in Guards, GuardEnd(g) \/ GuardDestroy(g) PROVE Goal
  <2>1. /\ g \in guards /\ h' = h /\ scoped' = scoped /\ made' = made
        /\ conn' = [conn EXCEPT ![g] = Null]
        /\ Undo(g) \/ (Stands(g) /\ (zu_commit(conn[g]) \/ zu_rollback(conn[g])) /\ Note(g))
    BY <1>14 DEF GuardEnd, GuardDestroy, Stands, connVars
  <2>2. GuardsReach'
    BY <2>1, GuardReaches DEF ScopedInv, GuardsReach, Stands, FreeInv, TypeOK
  <2>3. ScopedHaveGuards'
    BY <2>1, GuardReaches DEF ScopedInv, ScopedHaveGuards, Stands, FreeInv, TypeOK
  <2> QED BY <2>1, <2>2, <2>3, GuardReaches
<1>15. CASE UNCHANGED vars
  BY <1>15 DEF vars, connVars, engineVars, guardVars, ScopedInv, GuardsReach,
     ScopedHaveGuards, Stands
<1> QED
  BY <1>3, <1>4, <1>5, <1>6, <1>7, <1>8, <1>10, <1>11, <1>12, <1>13, <1>14, <1>15 DEF Next

(* Nothing makes a program orderly again. *)
LEMMA OrderlyLost == FreeInv /\ [Next]_vars /\ orderly' => orderly
  BY DEF FreeInv, TypeOK, Next, Empty, Close, BareEnd, Connect, Move, Assign, Begin, Transaction,
         GuardMove, GuardAssign, GuardEnd, GuardDestroy, vars

LEMMA AlwaysOrderly == Spec => []OrderlyInv
<1>1. Init => OrderlyInv
  BY InitScoped DEF ScopedInv, OrderlyInv
<1>2. OrderlyInv /\ [Next]_vars => OrderlyInv'
  BY StepScoped, StepFree, OrderlyLost DEF ScopedInv, OrderlyInv
<1> QED BY <1>1, <1>2, PTL DEF Spec

(* "Leaves nothing behind": a transaction whose guard is gone is over.     *)
THEOREM ScopesEndTheirTransactions == Spec => []AbandonedIsOver
<1>1. OrderlyInv => AbandonedIsOver
  BY DEF OrderlyInv, ScopedHaveGuards, AbandonedIsOver, FreeInv, PointersOK, Stands
<1> QED BY <1>1, AlwaysOrderly, PTL

(* No guard ever ends the transaction of another scope, and a guard that   *)
(* stands owns an open transaction.                                        *)
THEOREM GuardsAreSound == Spec => []EndsOnlyItsOwn
<1>1. OrderlyInv => EndsOnlyItsOwn
  <2> SUFFICES ASSUME ScopedInv
               PROVE  strays = {} /\ \A g \in guards : Standing(g) => fate[made[g]] = "open"
    BY DEF OrderlyInv, ScopedInv, EndsOnlyItsOwn
  <2>1. ASSUME NEW g \in guards, Standing(g) PROVE fate[made[g]] = "open"
    <3>1. /\ h[conn[g]] \in EngineConns
          /\ txn[h[conn[g]]] = made[g] /\ made[g] # NoTxn
      BY <2>1, Handle DEF Standing, Stands, ScopedInv, FreeInv, TypeOK, PointersOK, GuardsReach
    <3> QED BY <3>1 DEF ScopedInv, FreeInv, TxnsAgree
  <2> QED BY <2>1 DEF ScopedInv
<1> QED BY <1>1, AlwaysOrderly, PTL

------------------------------------------------------------------------------
(* Who commits.                                                            *)

Commits == \E t \in Txns : fate[t] # "committed" /\ fate'[t] = "committed"

(* No rollback, close or begin makes a transaction committed. *)
LEMMA NeverCommits ==
  ASSUME FreeInv, UNCHANGED fate \/ (\E c : zu_rollback(c)) \/ (\E x : zu_conn_close(x))
                  \/ (\E c : \E t \in Txns : zu_begin(c, t)) \/ (\E g : Undo(g))
  PROVE  ~Commits
<1> USE DEF FreeInv, TypeOK, Commits
<1>1. CASE UNCHANGED fate
  BY <1>1
<1>2. ASSUME NEW x, NEW how \in {"rolledback", "discarded"}, Over(x, how) PROVE ~Commits
  BY <1>2 DEF Over
<1>3. ASSUME NEW c, zu_rollback(c) PROVE ~Commits
  BY <1>1, <1>2, <1>3 DEF zu_rollback, engineVars, Refused
<1>4. ASSUME NEW x, zu_conn_close(x) PROVE ~Commits
  BY <1>1, <1>2, <1>4 DEF zu_conn_close, engineVars
<1>5. ASSUME NEW c, NEW t \in Txns, zu_begin(c, t) PROVE ~Commits
  BY <1>5 DEF zu_begin
<1>6. ASSUME NEW g, Undo(g) PROVE ~Commits
  BY <1>1, <1>3, <1>6 DEF Undo, engineVars
<1> QED BY <1>1, <1>3, <1>4, <1>5, <1>6

(* A scope that ends commits nothing, however it ends.                     *)
THEOREM ScopesNeverCommit == Spec => OnlyAskedCommits
<1> DEFINE Asked == Commits => UNCHANGED <<connVars, guards, made>>
<1>1. FreeInv /\ [Next]_vars => [Asked]_vars
  <2> SUFFICES ASSUME FreeInv, Next PROVE Asked
    OBVIOUS
  <2>1. ASSUME NEW c \in Conns, BareEnd(c) PROVE Asked
    BY <2>1 DEF BareEnd, guardVars
  <2>2. ASSUME NEW g \in Guards, GuardEnd(g) PROVE Asked
    BY <2>2 DEF GuardEnd
  <2>3. ASSUME NEW c \in Conns,
               \/ Empty(c) \/ Close(c)
               \/ \E x \in EngineConns : Connect(c, x)
               \/ \E d \in Conns : Move(d, c) \/ Assign(d, c)
               \/ \E t \in Txns : Begin(c, t) \/ \E g \in Guards : Transaction(c, g, t)
        PROVE  ~Commits
    BY <2>3, NeverCommits DEF Empty, Close, Connect, Move, Assign, Begin, Transaction, engineVars
  <2>4. ASSUME NEW g \in Guards,
               GuardDestroy(g) \/ \E d \in Guards : GuardMove(d, g) \/ GuardAssign(d, g)
        PROVE  ~Commits
    BY <2>4, NeverCommits DEF GuardDestroy, GuardMove, GuardAssign, engineVars
  <2> QED BY <2>1, <2>2, <2>3, <2>4 DEF Next
<1> QED BY <1>1, AlwaysFree, PTL DEF Spec, OnlyAskedCommits, Commits

------------------------------------------------------------------------------
(* One guard over one transaction, orderly or not.                         *)

OneEach ==
    /\ \A g \in Guards : Stands(g) => made[g] \in Txns /\ fate[made[g]] # "unborn"
    /\ \A g, k \in Guards : (Stands(g) /\ Stands(k) /\ made[g] = made[k]) => g = k

(* What was born stays born. *)
LEMMA Born ==
  ASSUME FreeInv, [Next]_vars, NEW t \in Txns, fate[t] # "unborn"
  PROVE  fate'[t] # "unborn"
<1> USE DEF FreeInv, TypeOK
<1>1. ASSUME NEW x, NEW how \in {"committed", "rolledback", "discarded"}, Over(x, how)
      PROVE  fate'[t] # "unborn"
  BY <1>1 DEF Over
<1>2. ASSUME NEW c, zu_commit(c) \/ zu_rollback(c) PROVE fate'[t] # "unborn"
  BY <1>1, <1>2 DEF zu_commit, zu_rollback, engineVars, Refused
<1>3. ASSUME NEW x, zu_conn_close(x) PROVE fate'[t] # "unborn"
  BY <1>1, <1>3 DEF zu_conn_close, engineVars
<1>4. ASSUME NEW c, NEW u \in Txns, zu_begin(c, u) PROVE fate'[t] # "unborn"
  BY <1>4 DEF zu_begin
<1>5. ASSUME NEW g, Undo(g) PROVE fate'[t] # "unborn"
  BY <1>2, <1>5 DEF Undo, engineVars
<1> QED BY <1>2, <1>3, <1>4, <1>5
     DEF Next, Empty, Close, BareEnd, Connect, Move, Assign, Begin, Transaction,
         GuardMove, GuardAssign, GuardEnd, GuardDestroy, vars, engineVars

LEMMA StepOneEach == FreeInv /\ OneEach /\ [Next]_vars => OneEach'
<1> SUFFICES ASSUME FreeInv, OneEach, [Next]_vars PROVE OneEach'
  OBVIOUS
<1> USE NullAssumption DEF FreeInv, TypeOK, Stands, OneEach
<1>1. CASE UNCHANGED <<conn, made>>
  BY <1>1, Born
<1>2. ASSUME NEW c \in Conns, NEW g \in Guards, NEW t \in Txns, Transaction(c, g, t)
      PROVE  OneEach'
  BY <1>2, Born, TxnAssumption DEF Transaction, zu_begin
<1>3. ASSUME NEW d \in Guards, NEW s \in Guards, GuardMove(d, s) PROVE OneEach'
  <2>1. d # s
    BY <1>3 DEF GuardMove
  <2> QED BY <1>3, <2>1, Born DEF GuardMove
<1>4. ASSUME NEW d \in Guards, NEW s \in Guards, GuardAssign(d, s) PROVE OneEach'
  BY <1>1, <1>4, Born DEF GuardAssign
<1>5. ASSUME NEW g \in Guards, GuardEnd(g) \/ GuardDestroy(g) PROVE OneEach'
  BY <1>5, Born DEF GuardEnd, GuardDestroy
<1> QED BY <1>1, <1>2, <1>3, <1>4, <1>5
     DEF Next, Empty, Close, BareEnd, Connect, Move, Assign, Begin, vars, guardVars

(* "Two guards over one transaction would be two rollbacks": there are     *)
(* never two, whatever the program does with its guards.                   *)
THEOREM NoTwoGuards == Spec => []OneGuardEach
<1>1. Init => OneEach
  BY DEF Init, OneEach, Stands
<1>2. FreeInv /\ OneEach => OneGuardEach
  BY DEF OneEach, OneGuardEach, Standing, Stands, FreeInv, TypeOK
<1> QED BY <1>1, <1>2, StepOneEach, AlwaysFree, PTL DEF Spec
==============================================================================
