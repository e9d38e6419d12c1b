------------------------------- MODULE Results -------------------------------
(***************************************************************************)
(* zu::Result of include/zu.hpp: the names of its columns, read once and   *)
(* kept beside the handle, and the Arrow export that gives the handle up.  *)
(* The three members move by the defaulted operations of the class, each   *)
(* in its own way.                                                         *)
(*                                                                         *)
(* A name is a view into the result it was read from: the pair of that     *)
(* zu_result and the column's place.                                       *)
(***************************************************************************)
EXTENDS Naturals, Sequences

CONSTANTS Objects,        (* Result objects                                *)
          EngineResults,  (* zu_result handles                             *)
          Null,
          ColumnNames,    (* the names of each result's columns            *)
          MaxNames        (* how far refused fills may pile up (a bound)   *)

ASSUME NullAssumption == Null \notin EngineResults
ASSUME BoundAssumption == MaxNames \in Nat
ASSUME ShapeAssumption == \A x \in EngineResults : ColumnNames[x] \in Seq(STRING)

VARIABLES alive, h, eres, (* the Result objects, as owners of handles      *)
          names,    (* names_ of every object                              *)
          named,    (* named_ of every object                              *)
          cache     (* history: what has happened to an object's names_    *)

(* "cut": the engine refused a name part way through; "lost": the object   *)
(* was assigned to itself; "given": its handle went to Arrow; "whole":     *)
(* none of these.                                                          *)
Histories == {"whole", "cut", "lost", "given"}

resVars == <<alive, h, eres>>
cacheVars == <<names, named, cache>>
vars == <<resVars, cacheVars>>

(* Handle<zu_result, zu_result_free>. *)
Res == INSTANCE Handles
         WITH EngineObjects <- EngineResults, p <- h, engine <- eres

Cols(x) == Len(ColumnNames[x])

Init ==
    /\ Res!Init
    /\ names = [o \in Objects |-> <<>>]
    /\ named = [o \in Objects |-> FALSE]
    /\ cache = [o \in Objects |-> "whole"]

------------------------------------------------------------------------------
(* The members, moved together.                                            *)

(* A statement's answer, Connection::query_impl or Statement::execute_impl. *)
Result(o, x) ==
    /\ Res!Adopt(o, x)
    /\ names' = [names EXCEPT ![o] = <<>>]
    /\ named' = [named EXCEPT ![o] = FALSE]
    /\ cache' = [cache EXCEPT ![o] = "whole"]

Empty(o) ==
    /\ Res!Default(o)
    /\ names' = [names EXCEPT ![o] = <<>>]
    /\ named' = [named EXCEPT ![o] = FALSE]
    /\ cache' = [cache EXCEPT ![o] = "whole"]

(* Mutation: the names are copied, and the source keeps its own. *)
Move_CopiesNames(d, s) ==
    /\ Res!MoveConstruct(d, s)
    /\ names' = [names EXCEPT ![d] = names[s]]
    /\ named' = [named EXCEPT ![d] = named[s]]
    /\ cache' = [cache EXCEPT ![d] = cache[s], ![s] = "whole"]

(* The vector leaves its source empty; the flag is copied and stays set in *)
(* the source.                                                             *)
Move(d, s) ==
    /\ Res!MoveConstruct(d, s)
    /\ names' = [names EXCEPT ![d] = names[s], ![s] = <<>>]
    /\ named' = [named EXCEPT ![d] = named[s]]
    /\ cache' = [cache EXCEPT ![d] = cache[s], ![s] = "whole"]

(* Mutation: an assignment of the handle alone, with the target's cache    *)
(* left as it was.                                                         *)
Assign_HandleOnly(d, s) == Res!MoveAssign(d, s) /\ UNCHANGED cacheVars

(* An assignment to itself keeps the handle and may empty the vector, which *)
(* is the library's to choose.                                             *)
Assign(d, s) ==
    /\ Res!MoveAssign(d, s)
    /\ \/ /\ d # s
          /\ names' = [names EXCEPT ![d] = names[s], ![s] = <<>>]
          /\ named' = [named EXCEPT ![d] = named[s]]
          /\ cache' = [cache EXCEPT ![d] = cache[s], ![s] = "whole"]
       \/ /\ d = s
          /\ names' \in {names, [names EXCEPT ![d] = <<>>]}
          /\ cache' = [cache EXCEPT ![d] = IF @ = "whole" THEN "lost" ELSE @]
          /\ UNCHANGED named

Destroy(o) == Res!Destroy(o) /\ UNCHANGED cacheVars

(* Mutation: the export is given the pointer and the object keeps it.      *)
to_arrow_Keeps(o) ==
    /\ Res!Release_Keeps(o)
    /\ cache' = [cache EXCEPT ![o] = "given"]
    /\ UNCHANGED <<names, named>>

(* arrow_impl: the handle is released before the call and consumed by it   *)
(* on every path, whether it answered or failed.  The cache stays.         *)
to_arrow(o) ==
    /\ Res!Release(o)
    /\ cache' = [cache EXCEPT ![o] = "given"]
    /\ UNCHANGED <<names, named>>

------------------------------------------------------------------------------
(* Reading.                                                                *)

(* The names the engine has for what o holds: none for an empty handle,    *)
(* whose columns are nought.                                               *)
NamesOf(x) == IF x = Null THEN <<>> ELSE [i \in 1 .. Cols(x) |-> <<x, i>>]

(* names(), and everything that walks it: find, column, every read by name. *)
FillNames(o) ==
    /\ o \in alive
    /\ ~named[o]
    /\ names' = [names EXCEPT ![o] = @ \o NamesOf(h[o])]
    /\ named' = [named EXCEPT ![o] = TRUE]
    /\ UNCHANGED <<resVars, cache>>

(* The same walk when the engine refuses a name part way: those before it  *)
(* are in the vector, the exception leaves, and the mark is not set, so    *)
(* that the next call appends all of them to what is there.  A refusal of  *)
(* the first name changes nothing.                                         *)
FillFails(o) ==
    /\ o \in alive
    /\ ~named[o]
    /\ h[o] # Null
    /\ \E k \in 1 .. Cols(h[o]) - 1 :
           /\ Len(names[o]) + k <= MaxNames
           /\ names' = [names EXCEPT ![o] = @ \o SubSeq(NamesOf(h[o]), 1, k)]
    /\ cache' = [cache EXCEPT ![o] = "cut"]
    /\ UNCHANGED <<resVars, named>>

(* find(): the first of the names kept that is this one, or none (0). *)
find(o, name) ==
    LET at == {i \in 1 .. Len(names[o]) : ColumnNames[names[o][i][1]][names[o][i][2]] = name}
    IN  IF at = {} THEN 0 ELSE CHOOSE i \in at : \A j \in at : i <= j

Next ==
    \/ \E o \in Objects : Empty(o) \/ Destroy(o) \/ to_arrow(o) \/ FillNames(o) \/ FillFails(o)
    \/ \E o \in Objects, x \in EngineResults : Result(o, x)
    \/ \E d, s \in Objects : Move(d, s) \/ Assign(d, s)

Spec == Init /\ [][Next]_vars

------------------------------------------------------------------------------

Names == UNION {{<<x, i>> : i \in 1 .. Cols(x)} : x \in EngineResults}

(* The types of the variables; no result is freed twice, or freed after    *)
(* its buffers went to Arrow.                                              *)
TypeOK ==
    /\ Res!TypeOK
    /\ \A o \in Objects : names[o] \in Seq(Names)
    /\ named \in [Objects -> BOOLEAN]
    /\ cache \in [Objects -> Histories]

(* "Every column name in order, read once and kept": through every move,   *)
(* the cache that is marked full has the names of the result the object    *)
(* holds, and the one that is not marked is empty, so that filling it does *)
(* not append to what was left there.                                      *)
NamesAgree ==
    \A o \in alive : cache[o] = "whole" =>
        names[o] = IF named[o] THEN NamesOf(h[o]) ELSE <<>>

(* Whatever was moved, assigned or given away before: an index find        *)
(* answers for an object that holds a result is the first column of that   *)
(* result with that name, and never a column of another one.  An object    *)
(* whose names were refused part way is left out: there find goes wrong.   *)
FindsItsOwn ==
    \A o \in alive : (h[o] # Null /\ cache[o] # "cut") =>
        LET x == h[o] IN
        \A name \in {ColumnNames[x][i] : i \in 1 .. Cols(x)} \cup {"none such"} :
            find(o, name) # 0 =>
                /\ find(o, name) <= Cols(x)
                /\ ColumnNames[x][find(o, name)] = name
                /\ \A j \in 1 .. find(o, name) - 1 : ColumnNames[x][j] # name

(* A read by name reads a column of the result the object holds.           *)
NamesAreItsOwn == NamesAgree /\ FindsItsOwn

(* The names are "borrowed from the result": whatever an object still keeps *)
(* of them, refused part way, moved from or assigned to itself, is of the  *)
(* result it holds and that is not freed, until it gives the handle to     *)
(* Arrow, when what it keeps is the stream's.                              *)
KeptNamesAreLive ==
    \A o \in alive : cache[o] # "given" =>
        \A i \in 1 .. Len(names[o]) :
            names[o][i][1] = h[o] /\ eres[h[o]] = "live"
==============================================================================
