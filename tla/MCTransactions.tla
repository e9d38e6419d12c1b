--------------------------- MODULE MCTransactions ---------------------------
(* Two of everything that can be confused with another one.                *)
EXTENDS Transactions

CONSTANTS c1, c2, e1, e2, g1, g2, t1, t2

MCConns == {c1, c2}
MCEngineConns == {e1, e2}
MCGuards == {g1, g2}
MCTxns == {t1, t2}
==============================================================================
