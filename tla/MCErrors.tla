------------------------------ MODULE MCErrors ------------------------------
(* Two failures in a row, over one class of every branch of raise(); and   *)
(* places with a column before, inside, at the end of and past an excerpt  *)
(* of one to three bytes a character, or with one of the two missing.      *)
EXTENDS Errors

CONSTANTS x1, x2

MCEngineErrors == {x1, x2}
MCClasses == {"08", "22", "40", "42", "G1"}
MCStatuses == {"ok", "done", "error", "misuse", "conflict", "interrupted", "io"}

s1 == "start"
c1 == "continuation"
Wide == <<s1, c1, s1, s1, c1, c1>>
MCPlaces ==
    [excerpt : {Wide}, column : {0, 1, 2, 3, 4, 6}] \cup [excerpt : {<<>>}, column : {2}]
        \cup [excerpt : {Wide}, column : {Missing}] \cup [excerpt : {Missing}, column : {3}]
==============================================================================
