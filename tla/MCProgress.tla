----------------------------- MODULE MCProgress -----------------------------
(* Two connections and two addresses, so that one can be freed, allocated  *)
(* again and confused with the other.                                      *)
EXTENDS Progress

CONSTANTS c1, c2, e1, e2, w1, w2

MCConns == {c1, c2}
MCEngineConns == {e1, e2}
MCWatches == {w1, w2}
==============================================================================
