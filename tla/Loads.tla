-------------------------------- MODULE Loads --------------------------------
(***************************************************************************)
(* zu::Loader of include/zu.hpp: a table built column by column, with its  *)
(* edges, and written to one path by finish().                             *)
(*                                                                         *)
(* The calls of a load may come in any order, be refused and be carried on *)
(* after, and the Loader may move, be assigned over or go before finish(). *)
(* The values of a column are abstracted to how many there are; an edge is *)
(* the two rows it joins.                                                  *)
(***************************************************************************)
EXTENDS Naturals, Sequences

CONSTANTS Objects,     (* Loader objects                                   *)
          EngineLoads, (* zu_loader handles                                *)
          Columns,     (* the names of columns                             *)
          Counts,      (* how many rows a table, or values a column, has   *)
          Arrays,      (* the arrays of row numbers edges() is given       *)
          Beyond,      (* what lies past the end of an array               *)
          Absent,      (* no file                                          *)
          Null

(* What an end of an edge can be taken for, and what a file can hold.      *)
Ends == (UNION {{a[i] : i \in DOMAIN a} : a \in Arrays}) \cup {Beyond}
Tables == [rows : Counts, cols : SUBSET (Columns \X Counts), edges : SUBSET (Ends \X Ends)]

(* What is asked of the constants, by whoever gives them values. *)
LoadConstants ==
    /\ Null \notin EngineLoads
    /\ Counts \subseteq Nat /\ Absent \notin Counts \cup Tables
    /\ Arrays \subseteq Seq(Nat) /\ Beyond \notin Nat

VARIABLES alive, l, eload, (* the Loader objects, as owners of handles     *)
          rows,    (* the rows zu_loader_table was told of                 *)
          cols,    (* the columns taken, with as many values each          *)
          edges,   (* the edges taken                                      *)
          file,    (* what is at the path                                  *)
          finished (* history: the loaders whose finish() said yes         *)

loadVars == <<alive, l, eload>>
bookVars == <<rows, cols, edges>>
vars == <<loadVars, bookVars, file, finished>>

(* Handle<zu_loader, zu_loader_free>. *)
Load == INSTANCE Handles WITH EngineObjects <- EngineLoads, p <- l, engine <- eload

Init ==
    /\ Load!Init
    /\ rows = [x \in EngineLoads |-> Absent]
    /\ cols = [x \in EngineLoads |-> {}]
    /\ edges = [x \in EngineLoads |-> {}]
    /\ file = Absent
    /\ finished = {}

Empty(o) == Load!Default(o) /\ UNCHANGED <<bookVars, file, finished>>

(* create(): "fails if the path exists". *)
create(o, x) ==
    /\ file = Absent
    /\ Load!Adopt(o, x)
    /\ UNCHANGED <<bookVars, file, finished>>

(* Mutation: the moved-from loader keeps its handle. *)
Move_Copies(d, s) == Load!MoveConstruct_Copies(d, s) /\ UNCHANGED <<bookVars, file, finished>>

Move(d, s) == Load!MoveConstruct(d, s) /\ UNCHANGED <<bookVars, file, finished>>

(* zu_loader_free forgets what it was given and writes nothing. *)
Assign(d, s) == Load!MoveAssign(d, s) /\ UNCHANGED <<bookVars, file, finished>>
Destroy(o) == Load!Destroy(o) /\ UNCHANGED <<bookVars, file, finished>>

(* A moved-from loader, and one that has written its file, refuse. *)
InUse(o) == o \in alive /\ l[o] # Null /\ l[o] \notin finished

(* "One table per loader." *)
table(o, n) ==
    /\ InUse(o)
    /\ rows[l[o]] = Absent
    /\ rows' = [rows EXCEPT ![l[o]] = n]
    /\ UNCHANGED <<loadVars, cols, edges, file, finished>>

(* ints, doubles, bools, strings and temporals: a column with a value      *)
(* missing is "an error and not a shorter table".                          *)
column(o, c, n) ==
    /\ InUse(o)
    /\ n = rows[l[o]]
    /\ cols' = [cols EXCEPT ![l[o]] = @ \cup {<<c, n>>}]
    /\ UNCHANGED <<loadVars, rows, edges, file, finished>>

(* The engine is given two addresses and the length of the first array.    *)
At(a, i) == IF i \in DOMAIN a THEN a[i] ELSE Beyond
Pairs(from, to) == {<<from[i], At(to, i)>> : i \in DOMAIN from}

(* Mutation: the lengths are not compared. *)
edges_Uneven(o, from, to) ==
    /\ InUse(o)
    /\ rows[l[o]] # Absent
    /\ edges' = [edges EXCEPT ![l[o]] = @ \cup Pairs(from, to)]
    /\ UNCHANGED <<loadVars, rows, cols, file, finished>>

(* edges(): refused by the header itself unless every edge has two ends. *)
edges_impl(o, from, to) ==
    /\ InUse(o)
    /\ Len(from) = Len(to)
    /\ rows[l[o]] # Absent
    /\ edges' = [edges EXCEPT ![l[o]] = @ \cup Pairs(from, to)]
    /\ UNCHANGED <<loadVars, rows, cols, file, finished>>

Row(x, e) == e \in Nat => e < rows[x]
InTable(x) == \A e \in edges[x] : Row(x, e[1]) /\ Row(x, e[2])

(* The engine writes all it took, once, to a path where nothing is; a load *)
(* with an edge of no row it refuses, and any load it may fail to write.   *)
zu_loader_finish(x) ==
    /\ rows[x] # Absent
    /\ InTable(x)
    /\ file = Absent
    /\ file' = [rows |-> rows[x], cols |-> cols[x], edges |-> edges[x]]

(* Mutation: what zu_loader_finish answered is not looked at. *)
finish_Unheard(o) ==
    /\ InUse(o)
    /\ zu_loader_finish(l[o]) \/ UNCHANGED file
    /\ finished' = finished \cup {l[o]}
    /\ UNCHANGED <<loadVars, bookVars>>

(* finish(): "the database is on disk when this returns". *)
finish(o) ==
    /\ InUse(o)
    /\ \/ zu_loader_finish(l[o]) /\ finished' = finished \cup {l[o]}
       \/ UNCHANGED <<file, finished>>
    /\ UNCHANGED <<loadVars, bookVars>>

Next ==
    \/ \E o \in Objects : Empty(o) \/ Destroy(o) \/ finish(o)
    \/ \E o \in Objects, x \in EngineLoads : create(o, x)
    \/ \E d, s \in Objects : Move(d, s) \/ Assign(d, s)
    \/ \E o \in Objects, n \in Counts : table(o, n) \/ \E c \in Columns : column(o, c, n)
    \/ \E o \in Objects, from, to \in Arrays : edges_impl(o, from, to)

Spec == Init /\ [][Next]_vars

------------------------------------------------------------------------------

(* A table as a load may leave it: every column has a value for every row, *)
(* and every edge joins two of the rows.                                   *)
Whole(t) ==
    /\ t.cols \subseteq Columns \X {t.rows}
    /\ t.edges \subseteq (0 .. t.rows - 1) \X (0 .. t.rows - 1)

(* The types of the variables; no zu_loader is freed twice. *)
TypeOK ==
    /\ Load!TypeOK
    /\ rows \in [EngineLoads -> Counts \cup {Absent}]
    /\ cols \in [EngineLoads -> SUBSET (Columns \X Counts)]
    /\ edges \in [EngineLoads -> SUBSET (Ends \X Ends)]
    /\ file \in Tables \cup {Absent}
    /\ finished \subseteq EngineLoads

Promise == INSTANCE WholeLoads WITH Tables <- {t \in Tables : Whole(t)}

(* "Nothing reaches the file until finish, so a load either happened or    *)
(* did not": whatever was refused, moved or let go on the way, the file    *)
(* goes from nothing to one whole table, in one step, and stays that.      *)
HappensOrNot == Promise!Spec

(* What the program was told is what the file holds: there is a file just  *)
(* when one finish() said so, and it is that loader's table, columns and   *)
(* edges, none of another's.                                               *)
ToldIsTrue ==
    /\ finished = {} <=> file = Absent
    /\ \A x \in finished : file = [rows |-> rows[x], cols |-> cols[x], edges |-> edges[x]]
==============================================================================
