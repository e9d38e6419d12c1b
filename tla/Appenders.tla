------------------------------ MODULE Appenders ------------------------------
(***************************************************************************)
(* zu::Appender of include/zu.hpp: rows given a value at a time, buffered  *)
(* by the engine and written by a flush, a close or the destructor.        *)
(*                                                                         *)
(* The program is one that mishandles failures in every way the two        *)
(* spellings allow: a refused value may unwind out of the row, or be       *)
(* ignored and the rest of the row given all the same, and a row may be    *)
(* left half given by an exception of the program's own.                   *)
(*                                                                         *)
(* A value is the pair of the row it belongs to and its place in it.       *)
(***************************************************************************)
EXTENDS Naturals, Sequences, FiniteSets

CONSTANTS Objects,     (* Appender objects                                 *)
          EngineApps,  (* zu_appender handles                              *)
          Rows,        (* the rows of a behaviour, each given once         *)
          Width,       (* the columns of the table                         *)
          Null

ASSUME NullAssumption == Null \notin EngineApps /\ Null \notin Rows
ASSUME WidthAssumption == Width \in Nat \ {0}

VARIABLES alive, a, eapp, (* the Appender objects, as owners of handles    *)
          giving,     (* the row the program is in the middle of           *)
          place,      (* the place of the value it gives next              *)
          started,    (* history: the rows it began                        *)
          partial,    (* the engine's row part way through                 *)
          buffered,   (* the whole rows waiting                            *)
          committed,  (* how many rows it has written so far               *)
          spent,      (* the appenders close has spent                     *)
          table,      (* the rows in the table                             *)
          answered,   (* history: the rows end_row said yes to             *)
          dropped,    (* history: the rows discard threw away              *)
          lost        (* history: those a refused write took with it       *)

appVars == <<alive, a, eapp>>
rowVars == <<giving, place, started, partial, answered>>
bookVars == <<buffered, committed, spent, table, dropped, lost>>
vars == <<appVars, rowVars, bookVars>>

(* Handle<zu_appender, zu_appender_free>. *)
App == INSTANCE Handles
         WITH EngineObjects <- EngineApps, p <- a, engine <- eapp

Whole(r) == [i \in 1 .. Width |-> <<r, i>>]

Init ==
    /\ App!Init
    /\ giving = [x \in EngineApps |-> Null]
    /\ place = [x \in EngineApps |-> 1]
    /\ started = {}
    /\ partial = [x \in EngineApps |-> <<>>]
    /\ buffered = [x \in EngineApps |-> {}]
    /\ committed = [x \in EngineApps |-> 0]
    /\ spent = {}
    /\ table = {}
    /\ answered = [x \in EngineApps |-> {}]
    /\ dropped = {}
    /\ lost = {}

------------------------------------------------------------------------------
(* The engine.                                                             *)

(* A value that does not fit its column, or has no column, is refused, and *)
(* "nothing of that row is kept".                                          *)
zu_append(x, v, fits) ==
    partial' = IF fits /\ Len(partial[x]) < Width
               THEN [partial EXCEPT ![x] = Append(@, v)]
               ELSE [partial EXCEPT ![x] = <<>>]

(* One commit: all that is buffered is in the table when it returns. *)
Written(x) ==
    /\ table' = table \cup buffered[x]
    /\ committed' = [committed EXCEPT ![x] = @ + Cardinality(buffered[x])]
    /\ buffered' = [buffered EXCEPT ![x] = {}]
    /\ UNCHANGED <<dropped, lost>>

(* A write that failed put nothing into the table; its rows still wait, or *)
(* they are gone.                                                          *)
Refused(x) ==
    /\ \/ UNCHANGED <<buffered, lost>>
       \/ /\ lost' = lost \cup buffered[x]
          /\ buffered' = [buffered EXCEPT ![x] = {}]
    /\ UNCHANGED <<table, committed, dropped>>

(* zu_appender_free writes what waits; if that fails nobody hears of it. *)
zu_appender_free(x) ==
    /\ \/ Written(x)
       \/ /\ lost' = lost \cup buffered[x]
          /\ buffered' = [buffered EXCEPT ![x] = {}]
          /\ UNCHANGED <<table, committed, dropped>>
    /\ partial' = [partial EXCEPT ![x] = <<>>]
    /\ giving' = [giving EXCEPT ![x] = Null]
    /\ UNCHANGED <<place, started, answered, spent>>

FreeIfAny(x) == IF x # Null THEN zu_appender_free(x) ELSE UNCHANGED <<rowVars, bookVars>>

------------------------------------------------------------------------------
(* The Appender.                                                           *)

Empty(o) == App!Default(o) /\ UNCHANGED <<rowVars, bookVars>>

(* Connection::appender. *)
appender(o, x) == App!Adopt(o, x) /\ UNCHANGED <<rowVars, bookVars>>

(* Mutation: the moved-from appender keeps its handle. *)
Move_Copies(d, s) == App!MoveConstruct_Copies(d, s) /\ UNCHANGED <<rowVars, bookVars>>

Move(d, s) == App!MoveConstruct(d, s) /\ UNCHANGED <<rowVars, bookVars>>

(* Assigning over an appender writes what the target had waiting. *)
Assign(d, s) ==
    /\ App!MoveAssign(d, s)
    /\ IF d = s THEN UNCHANGED <<rowVars, bookVars>> ELSE FreeIfAny(a[d])

(* Mutation: the destructor lets go of the handle and frees nothing. *)
Destroy_Forgets(o) ==
    /\ o \in alive
    /\ alive' = alive \ {o}
    /\ UNCHANGED <<a, eapp, rowVars, bookVars>>

(* The destructor, on the ordinary path and on the one that threw: "rows   *)
(* that were appended are rows the caller meant to write".                 *)
Destroy(o) == App!Destroy(o) /\ FreeIfAny(a[o])

InUse(o) == o \in alive /\ a[o] # Null /\ a[o] \notin spent

(* append(): one value of row r, refused if it does not fit.  After a      *)
(* refusal append() throws out of the row, and a caller of try_append may  *)
(* carry on with the next value.                                           *)
append(o, r, fits) ==
    LET x == a[o] IN
    /\ InUse(o)
    /\ giving[x] = r \/ (giving[x] = Null /\ r \notin started)
    /\ place[x] <= Width
    /\ zu_append(x, <<r, place[x]>>, fits)
    /\ started' = started \cup {r}
    /\ \/ /\ giving' = [giving EXCEPT ![x] = r]
          /\ place' = [place EXCEPT ![x] = @ + 1]
       \/ /\ ~fits \/ Len(partial[x]) = Width
          /\ giving' = [giving EXCEPT ![x] = Null]
          /\ place' = [place EXCEPT ![x] = 1]
    /\ UNCHANGED <<appVars, answered, bookVars>>

(* An exception of the program's own between two values of a row: the      *)
(* appender lives on, and so does what the engine has of the row.          *)
Abandon(o) ==
    /\ InUse(o)
    /\ giving[a[o]] # Null
    /\ giving' = [giving EXCEPT ![a[o]] = Null]
    /\ place' = [place EXCEPT ![a[o]] = 1]
    /\ UNCHANGED <<appVars, started, partial, answered, bookVars>>

(* Mutation: the refusal of a short row is not looked at. *)
end_row_TakesShort(o) ==
    LET x == a[o] IN
    /\ InUse(o)
    /\ giving[x] # Null
    /\ place[x] = Width + 1
    /\ buffered' = [buffered EXCEPT ![x] = @ \cup {partial[x]}]
    /\ answered' = [answered EXCEPT ![x] = @ \cup {giving[x]}]
    /\ partial' = [partial EXCEPT ![x] = <<>>]
    /\ giving' = [giving EXCEPT ![x] = Null]
    /\ place' = [place EXCEPT ![x] = 1]
    /\ UNCHANGED <<appVars, started, committed, spent, table, dropped, lost>>

(* end_row(): a short row is refused, and the engine may or may not keep   *)
(* what it has of it.                                                      *)
end_row(o) ==
    LET x == a[o] IN
    /\ InUse(o)
    /\ giving[x] # Null
    /\ place[x] = Width + 1
    /\ \/ /\ Len(partial[x]) = Width
          /\ buffered' = [buffered EXCEPT ![x] = @ \cup {partial[x]}]
          /\ answered' = [answered EXCEPT ![x] = @ \cup {giving[x]}]
          /\ partial' = [partial EXCEPT ![x] = <<>>]
       \/ /\ Len(partial[x]) # Width
          /\ partial' \in {partial, [partial EXCEPT ![x] = <<>>]}
          /\ UNCHANGED <<buffered, answered>>
    /\ giving' = [giving EXCEPT ![x] = Null]
    /\ place' = [place EXCEPT ![x] = 1]
    /\ UNCHANGED <<appVars, started, committed, spent, table, dropped, lost>>

flush(o) ==
    /\ InUse(o)
    /\ Written(a[o]) \/ Refused(a[o])
    /\ UNCHANGED <<appVars, rowVars, spent>>

(* Mutation: the count is answered and the rows stay. *)
discard_Keeps(o) ==
    /\ InUse(o)
    /\ dropped' = dropped \cup buffered[a[o]]
    /\ UNCHANGED <<appVars, rowVars, buffered, committed, spent, table, lost>>

discard(o) ==
    /\ InUse(o)
    /\ dropped' = dropped \cup buffered[a[o]]
    /\ buffered' = [buffered EXCEPT ![a[o]] = {}]
    /\ UNCHANGED <<appVars, rowVars, committed, spent, table, lost>>

(* close(): a flush that spends the appender; one that failed does not,    *)
(* and closing a spent one writes nothing.                                 *)
close(o) ==
    /\ InUse(o)
    /\ \/ Written(a[o]) /\ spent' = spent \cup {a[o]}
       \/ Refused(a[o]) /\ UNCHANGED spent
    /\ UNCHANGED <<appVars, rowVars>>

Next ==
    \/ \E o \in Objects : Empty(o) \/ Destroy(o)
    \/ \E o \in Objects, x \in EngineApps : appender(o, x)
    \/ \E d, s \in Objects : Move(d, s) \/ Assign(d, s)
    \/ \E o \in Objects, r \in Rows, fits \in BOOLEAN : append(o, r, fits)
    \/ \E o \in Objects : Abandon(o) \/ end_row(o) \/ flush(o) \/ discard(o) \/ close(o)

Spec == Init /\ [][Next]_vars

------------------------------------------------------------------------------

Values == Rows \X (1 .. Width)

(* The types of the variables; no appender is freed twice. *)
TypeOK ==
    /\ App!TypeOK
    /\ giving \in [EngineApps -> Rows \cup {Null}]
    /\ place \in [EngineApps -> 1 .. Width + 1]
    /\ started \subseteq Rows
    /\ partial \in [EngineApps -> Seq(Values)]
    /\ \A x \in EngineApps : Len(partial[x]) <= Width
    /\ buffered \in [EngineApps -> SUBSET Seq(Values)]
    /\ committed \in [EngineApps -> Nat]
    /\ spent \subseteq EngineApps
    /\ table \cup dropped \cup lost \subseteq Seq(Values)
    /\ answered \in [EngineApps -> SUBSET Rows]

(* However a caller mishandles a refusal or leaves a row half given, what  *)
(* waits and what is written are rows it gave: whole, and never the values *)
(* of two rows.                                                            *)
RowsAreWhole ==
    \A w \in table \cup UNION {buffered[x] : x \in EngineApps} : \E r \in Rows : w = Whole(r)

(* The row is the row end_row answered for: "the two together are every    *)
(* row it has been given" that was not thrown away since.                  *)
CountsAgree ==
    \A x \in EngineApps :
        committed[x] + Cardinality(buffered[x])
            = Cardinality({r \in answered[x] : Whole(r) \notin dropped \cup lost})

(* A row end_row said yes to is in one place: in the table, thrown away by *)
(* a discard or a failed write, or waiting on an appender some object will *)
(* still write at the end of its scope.                                    *)
EveryRowOnce ==
    \A x \in EngineApps : \A r \in answered[x] :
        LET w == Whole(r)
            waits == w \in buffered[x] /\ \E o \in alive : a[o] = x
        IN  /\ waits \/ w \in table \cup dropped \cup lost
            /\ w \in buffered[x] => w \notin table \cup dropped \cup lost
            /\ w \in table => w \notin dropped \cup lost
==============================================================================
