------------------------------ MODULE MCFrames ------------------------------
(* Two of what can be confused with another one.                           *)
EXTENDS Frames

CONSTANTS o1, o2, x1, x2, w1, w2, c1, c2

MCObjects == {o1, o2}
MCEngineFrames == {x1, x2}
MCOwners == {w1, w2}
MCConns == {c1, c2}
==============================================================================
