----------------------------- MODULE WholeLoads -----------------------------
(***************************************************************************)
(* What a bulk load promises of the file it is named after: "a load either *)
(* happened or did not", and a file that is there is never loaded again.   *)
(***************************************************************************)
CONSTANTS Tables,  (* what a whole load can leave in a file                *)
          Absent   (* no file                                              *)

VARIABLE file

Init == file = Absent

Load ==
    /\ file = Absent
    /\ file' \in Tables

Next == Load

Spec == Init /\ [][Next]_file
==============================================================================
