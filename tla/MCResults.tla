------------------------------ MODULE MCResults ------------------------------
(* Two results that share a name in different places, one of them twice.    *)
EXTENDS Results

CONSTANTS o1, o2, x1, x2

MCObjects == {o1, o2}
MCEngineResults == {x1, x2}
MCColumnNames ==
    [x \in MCEngineResults |-> IF x = x1 THEN <<"a", "b", "c">> ELSE <<"b", "b">>]
==============================================================================
