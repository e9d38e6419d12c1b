-------------------------------- MODULE Values --------------------------------
(***************************************************************************)
(* The values that cross: parameters that are bound and come back as       *)
(* cells, cells that Row::get reads, and the Decimal among them that is    *)
(* read whole and then printed.                                            *)
(***************************************************************************)
EXTENDS Parameters, Decimals

valuesVars == <<readVars, parameterVars, vars>>

(* A cell that is a decimal is its halves, and one that is not has none.   *)
ValuesInit ==
    /\ ParametersInit
    /\ Init
    /\ IF cell.kind = "decimal" THEN cell.v = 0 ELSE dec = [hi |-> 0, lo |-> 0]

ValuesNext ==
    \/ /\ cell.kind # "decimal"
       /\ \/ Reading /\ UNCHANGED parameterVars
          \/ ParametersNext
       /\ UNCHANGED vars
    \/ /\ cell.kind = "decimal"
       /\ ReadAs("decimal", FALSE)
       /\ UNCHANGED <<parameterVars, vars>>
    \/ /\ cell.kind = "decimal" /\ got = Answer(cell.v)
       /\ Next
       /\ UNCHANGED <<readVars, parameterVars>>

ValuesSpec == ValuesInit /\ [][ValuesNext]_valuesVars
==============================================================================
