-------------------------------- MODULE Bulk --------------------------------
(***************************************************************************)
(* How a table comes to be and grows: a load makes it, and when that is    *)
(* over, and only if every column is there, appenders add rows to it, the  *)
(* order of examples/load.cpp.                                             *)
(***************************************************************************)
EXTENDS Appenders

CONSTANTS LoadObjects, EngineLoads, Columns, Counts, Arrays, Beyond, Absent

(* A row an appender is given has a value for each column of the load.      *)
ASSUME ColumnsAssumption == Width = Cardinality(Columns)

VARIABLES loaders, l, eload, rows, cols, edges, file, finished

fileVars == <<loaders, l, eload, rows, cols, edges, file, finished>>

Loader == INSTANCE Loads WITH Objects <- LoadObjects, alive <- loaders

ASSUME LoadAssumption == Loader!LoadConstants

BulkInit == Init /\ Loader!Init

(* The loader's own scope is over, and the file is one to open. *)
Opened == loaders = {} /\ file # Absent /\ \A c \in Columns : \E v \in file.cols : v[1] = c

BulkNext ==
    \/ Loader!Next /\ alive = {} /\ UNCHANGED vars
    \/ Opened /\ Next /\ UNCHANGED fileVars

BulkSpec == BulkInit /\ [][BulkNext]_<<vars, fileVars>>

------------------------------------------------------------------------------

(* The types of both halves. *)
BulkTypeOK == TypeOK /\ Loader!TypeOK

(* The load's side of the table (see Loads). *)
HappensOrNot == Loader!HappensOrNot
ToldIsTrue == Loader!ToldIsTrue
==============================================================================
