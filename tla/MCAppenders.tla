----------------------------- MODULE MCAppenders -----------------------------
(* Two loaders race for one path, with arrays of edges that are too short, *)
(* too long or name a row that is not there; then two appenders and three  *)
(* rows of three columns: one row left half given, one that meets what is  *)
(* left of it, and one after that.                                         *)
EXTENDS Bulk, TLC

CONSTANTS o1, o2, x1, x2, r1, r2, r3, k1, k2, y1, y2, c1, c2, c3

MCObjects == {o1, o2}
MCEngineApps == {x1, x2}
MCRows == {r1, r2, r3}
MCLoadObjects == {k1, k2}
MCEngineLoads == {y1, y2}
MCColumns == {c1, c2, c3}
MCCounts == {1, 2}
MCArrays == {<<>>, <<0>>, <<0, 1>>}
MCSymmetry ==
    UNION {Permutations(S) : S \in {MCObjects, MCEngineApps, MCRows, MCLoadObjects, MCEngineLoads}}

(* A bound: rows are appended only to tables that were loaded by the one   *)
(* loader ever made, with one row and no edges.                            *)
PlainTables ==
    alive # {} => /\ \A x \in EngineLoads : eload[x] # "unmade" => x \in finished
                  /\ file.rows = 1
                  /\ file.edges = {}
==============================================================================
