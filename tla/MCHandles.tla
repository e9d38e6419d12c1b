------------------------------ MODULE MCHandles ------------------------------
(* Three places and three engine objects: a move takes two places, and the *)
(* third is where an aliased or a leaked object would hide.                *)
EXTENDS Handles

CONSTANTS o1, o2, o3, x1, x2, x3

MCObjects == {o1, o2, o3}
MCEngineObjects == {x1, x2, x3}
==============================================================================
