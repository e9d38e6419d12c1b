---------------------------- MODULE Transactions ----------------------------
(***************************************************************************)
(* zu::Connection and zu::Transaction of include/zu.hpp: connections that  *)
(* move, transactions of the engine, and the scope guards that are meant   *)
(* to roll them back.                                                      *)
(*                                                                         *)
(* A guard keeps a pointer to a Connection OBJECT, while the transaction   *)
(* lives on the engine's connection that the object holds; what the guard  *)
(* reaches is therefore decided by everything that happened to the object  *)
(* since.  A program may do anything here; a history variable remembers    *)
(* whether it kept to the use the comments describe.                       *)
(***************************************************************************)
CONSTANTS Conns,          (* Connection objects                            *)
          EngineConns,    (* zu_conn handles                               *)
          Guards,         (* Transaction objects                           *)
          Txns,           (* the transactions of a behaviour (a bound)     *)
          Null,           (* the null pointer                              *)
          NoTxn           (* no transaction is open                        *)

ASSUME NullAssumption == Null \notin EngineConns /\ Null \notin Conns
ASSUME TxnAssumption == NoTxn \notin Txns

VARIABLES alive, h, econn, (* the Connection objects, as owners of handles *)
          txn,      (* the transaction open on each engine connection      *)
          fate,     (* what became of each transaction                     *)
          guards,   (* the guards inside their lifetime                    *)
          conn,     (* conn_ of every guard                                *)
          made,     (* history: the transaction each guard stands for      *)
          scoped,   (* history: the transactions begun by transaction()    *)
          faulted,  (* history: those an end call failed on and left open  *)
          strays,   (* history: those ended by a guard made for another    *)
          orderly   (* history: no Connection was moved, and none ended    *)
                    (* its transaction by itself, while a guard stood over *)
                    (* it                                                  *)

connVars == <<alive, h, econn>>
engineVars == <<txn, fate, faulted>>
guardVars == <<guards, conn, made, scoped, strays>>
vars == <<connVars, engineVars, guardVars, orderly>>

(* Handle<zu_conn, zu_conn_close>, the only member that matters here. *)
Conn == INSTANCE Handles
          WITH Objects <- Conns, EngineObjects <- EngineConns, p <- h, engine <- econn

Init ==
    /\ Conn!Init
    /\ txn = [x \in EngineConns |-> NoTxn]
    /\ fate = [t \in Txns |-> "unborn"]
    /\ guards = {}
    /\ conn = [g \in Guards |-> Null]
    /\ made = [g \in Guards |-> NoTxn]
    /\ scoped = {}
    /\ faulted = {}
    /\ strays = {}
    /\ orderly = TRUE

------------------------------------------------------------------------------
(* The engine, by what the header can observe of it.                       *)

(* What zu_conn_in_transaction finds on the handle of c; an empty          *)
(* connection answers misuse, which undo() reads as nothing to do.         *)
Open(c) == IF h[c] = Null THEN NoTxn ELSE txn[h[c]]

Over(x, how) ==
    /\ fate' = [fate EXCEPT ![txn[x]] = how]
    /\ txn' = [txn EXCEPT ![x] = NoTxn]
    /\ UNCHANGED faulted

(* An end call that failed and left the transaction as it was. *)
Refused(x) ==
    /\ faulted' = faulted \cup {txn[x]}
    /\ UNCHANGED <<txn, fate>>

zu_begin(c, t) ==
    /\ h[c] # Null
    /\ Open(c) = NoTxn
    /\ fate[t] = "unborn"
    /\ txn' = [txn EXCEPT ![h[c]] = t]
    /\ fate' = [fate EXCEPT ![t] = "open"]
    /\ UNCHANGED faulted

(* With nothing open, or on an empty connection, both answer an error and  *)
(* do nothing.  A commit that loses to a concurrent write keeps nothing.   *)
zu_commit(c) ==
    \/ Open(c) = NoTxn /\ UNCHANGED engineVars
    \/ Open(c) # NoTxn /\ Over(h[c], "committed")
    \/ Open(c) # NoTxn /\ Over(h[c], "rolledback")
    \/ Open(c) # NoTxn /\ Refused(h[c])

zu_rollback(c) ==
    \/ Open(c) = NoTxn /\ UNCHANGED engineVars
    \/ Open(c) # NoTxn /\ Over(h[c], "rolledback")
    \/ Open(c) # NoTxn /\ Refused(h[c])

(* zu_conn_close discards what was not committed. *)
zu_conn_close(x) ==
    IF x # Null /\ txn[x] # NoTxn THEN Over(x, "discarded") ELSE UNCHANGED engineVars

------------------------------------------------------------------------------
(* Connection.                                                             *)

Standing(g) == g \in guards /\ conn[g] # Null
Guarded(c) == \E g \in guards : conn[g] = c

Connect(c, x) == Conn!Adopt(c, x) /\ UNCHANGED <<engineVars, guardVars, orderly>>

Empty(c) == Conn!Default(c) /\ UNCHANGED <<engineVars, guardVars, orderly>>

(* Mutation: the moved-from connection keeps its handle. *)
Move_Copies(d, s) ==
    /\ Conn!MoveConstruct_Copies(d, s)
    /\ orderly' = (orderly /\ ~Guarded(s))
    /\ UNCHANGED <<engineVars, guardVars>>

(* The defaulted move constructor.  Nothing tells the guards. *)
Move(d, s) ==
    /\ Conn!MoveConstruct(d, s)
    /\ orderly' = (orderly /\ ~Guarded(s))
    /\ UNCHANGED <<engineVars, guardVars>>

(* Mutation: the handle is overwritten rather than closed. *)
Assign_NoClose(d, s) ==
    /\ Conn!MoveAssign_NoFree(d, s)
    /\ orderly' = (orderly /\ ~Guarded(d) /\ ~Guarded(s))
    /\ UNCHANGED <<engineVars, guardVars>>

(* The move assignment closes what the target had. *)
Assign(d, s) ==
    /\ Conn!MoveAssign(d, s)
    /\ IF d # s THEN zu_conn_close(h[d]) ELSE UNCHANGED engineVars
    /\ orderly' = (orderly /\ ~Guarded(d) /\ ~Guarded(s))
    /\ UNCHANGED guardVars

(* The destructor.  A guard over a destroyed object would be a dangling    *)
(* pointer in the program itself, so no guard outlives its object.         *)
Close(c) ==
    /\ ~Guarded(c)
    /\ Conn!Destroy(c)
    /\ zu_conn_close(h[c])
    /\ UNCHANGED <<guardVars, orderly>>

(* begin(), and the same through a statement: no guard is made. *)
Begin(c, t) ==
    /\ c \in alive
    /\ zu_begin(c, t)
    /\ UNCHANGED <<connVars, guardVars, orderly>>

(* commit(), rollback(), and COMMIT or ROLLBACK sent as a statement. *)
BareEnd(c) ==
    /\ c \in alive
    /\ zu_commit(c) \/ zu_rollback(c)
    /\ orderly' = (orderly /\ ~Guarded(c))
    /\ UNCHANGED <<connVars, guardVars>>

(* transaction(): a begin that failed throws and makes no guard. *)
Transaction(c, g, t) ==
    /\ c \in alive
    /\ g \notin guards
    /\ zu_begin(c, t)
    /\ guards' = guards \cup {g}
    /\ conn' = [conn EXCEPT ![g] = c]
    /\ made' = [made EXCEPT ![g] = t]
    /\ scoped' = scoped \cup {t}
    /\ UNCHANGED <<connVars, strays, orderly>>

------------------------------------------------------------------------------
(* The guard.                                                              *)

(* History of a guard's call that ended a transaction it was not made for. *)
Note(g) ==
    strays' = strays \cup {t \in Txns : fate[t] = "open" /\ fate'[t] # "open" /\ t # made[g]}

(* Mutation: the scope's end commits what its body left open.              *)
Undo_Commits(g) ==
    IF conn[g] # Null
    THEN zu_commit(conn[g]) /\ Note(g)
    ELSE UNCHANGED <<engineVars, strays>>

(* undo(): only when the connection says a transaction is running, and a   *)
(* rollback that fails is swallowed.                                       *)
Undo(g) ==
    IF conn[g] # Null
    THEN zu_rollback(conn[g]) /\ Note(g)
    ELSE UNCHANGED <<engineVars, strays>>

(* Mutation: conn_ is copied, so two guards stand over one transaction.    *)
GuardMove_Copies(d, s) ==
    /\ s \in guards
    /\ d \notin guards
    /\ guards' = guards \cup {d}
    /\ conn' = [conn EXCEPT ![d] = conn[s]]
    /\ made' = [made EXCEPT ![d] = made[s]]
    /\ UNCHANGED <<connVars, engineVars, scoped, strays, orderly>>

GuardMove(d, s) ==
    /\ s \in guards
    /\ d \notin guards
    /\ guards' = guards \cup {d}
    /\ conn' = [conn EXCEPT ![d] = conn[s], ![s] = Null]
    /\ made' = [made EXCEPT ![d] = made[s], ![s] = NoTxn]
    /\ UNCHANGED <<connVars, engineVars, scoped, strays, orderly>>

(* Mutation: the transaction the target stood over is simply forgotten.    *)
GuardAssign_NoUndo(d, s) ==
    /\ d \in guards
    /\ s \in guards
    /\ d # s
    /\ conn' = [conn EXCEPT ![d] = conn[s], ![s] = Null]
    /\ made' = [made EXCEPT ![d] = made[s], ![s] = NoTxn]
    /\ UNCHANGED <<connVars, engineVars, guards, scoped, strays, orderly>>

(* The assignment undoes the target's own first.  The source was made      *)
(* before that, which is what tx = conn.transaction() depends on.          *)
GuardAssign(d, s) ==
    /\ d \in guards
    /\ s \in guards
    /\ \/ /\ d = s
          /\ UNCHANGED <<engineVars, conn, made, strays>>
       \/ /\ d # s
          /\ Undo(d)
          /\ conn' = [conn EXCEPT ![d] = conn[s], ![s] = Null]
          /\ made' = [made EXCEPT ![d] = made[s], ![s] = NoTxn]
    /\ UNCHANGED <<connVars, guards, scoped, orderly>>

(* Mutation: the guard is spent only in the destructor. *)
GuardEnd_Unspent(g) ==
    /\ g \in guards
    /\ conn[g] # Null
    /\ zu_commit(conn[g]) \/ zu_rollback(conn[g])
    /\ Note(g)
    /\ UNCHANGED <<connVars, guards, conn, made, scoped, orderly>>

(* commit() and rollback() spend the guard before they call, so a call     *)
(* that fails leaves nothing for the destructor to undo.  On a spent guard *)
(* they do nothing.                                                        *)
GuardEnd(g) ==
    /\ g \in guards
    /\ conn[g] # Null
    /\ zu_commit(conn[g]) \/ zu_rollback(conn[g])
    /\ conn' = [conn EXCEPT ![g] = Null]
    /\ Note(g)
    /\ UNCHANGED <<connVars, guards, made, scoped, orderly>>

(* The destructor, on the ordinary path and on the path that threw.        *)
GuardDestroy(g) ==
    /\ g \in guards
    /\ Undo(g)
    /\ guards' = guards \ {g}
    /\ conn' = [conn EXCEPT ![g] = Null]
    /\ UNCHANGED <<connVars, made, scoped, orderly>>

Next ==
    \/ \E c \in Conns : Empty(c) \/ Close(c) \/ BareEnd(c)
    \/ \E c \in Conns, x \in EngineConns : Connect(c, x)
    \/ \E d, s \in Conns : Move(d, s) \/ Assign(d, s)
    \/ \E c \in Conns, t \in Txns : Begin(c, t)
    \/ \E c \in Conns, g \in Guards, t \in Txns : Transaction(c, g, t)
    \/ \E d, s \in Guards : GuardMove(d, s) \/ GuardAssign(d, s)
    \/ \E g \in Guards : GuardEnd(g) \/ GuardDestroy(g)

Spec == Init /\ [][Next]_vars

------------------------------------------------------------------------------

Fates == {"unborn", "open", "committed", "rolledback", "discarded"}

(* The types of the variables, and no zu_conn closed twice. *)
TypeOK ==
    /\ Conn!TypeOK
    /\ txn \in [EngineConns -> Txns \cup {NoTxn}]
    /\ fate \in [Txns -> Fates]
    /\ guards \subseteq Guards
    /\ conn \in [Guards -> Conns \cup {Null}]
    /\ made \in [Guards -> Txns \cup {NoTxn}]
    /\ scoped \subseteq Txns
    /\ faulted \subseteq Txns
    /\ strays \subseteq Txns
    /\ orderly \in BOOLEAN

(* "A guard that rolls back if it goes out of scope without a commit,      *)
(* which is what makes a throw halfway through leave nothing behind": when *)
(* the guard a transaction was made with is gone, wherever it was moved    *)
(* meanwhile, the transaction is over, unless the engine refused to end it.*)
AbandonedIsOver ==
    orderly => \A t \in scoped \ faulted :
                   fate[t] = "open" => \E g \in guards : made[g] = t

(* A guard ends the transaction it was made for and never another one that *)
(* happens to be open on its connection ("rolls that one back first"); and *)
(* a guard that still stands has its own to end: operator bool is "True    *)
(* while this scope still owns a transaction".                             *)
EndsOnlyItsOwn ==
    orderly => strays = {} /\ \A g \in guards : Standing(g) => fate[made[g]] = "open"

(* The same of a program whose body "may have ended it by sending COMMIT   *)
(* itself": the guard is asked to commit or to undo nothing but its own.   *)
NeverAnothers == strays = {}

(* "Two guards over one transaction would be two rollbacks." *)
OneGuardEach ==
    \A g, k \in guards : (Standing(g) /\ Standing(k) /\ made[g] = made[k]) => g = k

(* However connections and guards were moved, a transaction left open sits *)
(* on a connection some object still holds, so it can still be ended and   *)
(* is discarded when that object goes.                                     *)
OpenIsReachable ==
    \A t \in Txns : fate[t] = "open" =>
        \E c \in alive : h[c] # Null /\ econn[h[c]] = "live" /\ txn[h[c]] = t

(* "A guard that rolls back if it goes out of scope without a commit":     *)
(* nothing is committed by a scope that ends, by a guard that is moved or  *)
(* assigned over, or by a connection that moves or closes; only by a call  *)
(* that changes no object's lifetime, handle or transaction.               *)
OnlyAskedCommits ==
    [][(\E t \in Txns : fate[t] # "committed" /\ fate'[t] = "committed")
          => UNCHANGED <<connVars, guards, made>>]_vars

(* Connections are owners of their handles as Handle<T, Free> promises.    *)
ConnectionsAreHandles == Conn!Spec
==============================================================================
