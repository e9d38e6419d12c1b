-------------------------------- MODULE Reads --------------------------------
(***************************************************************************)
(* Row::get<T> of include/zu.hpp, plain and optional: a cell read as the   *)
(* type it is and nothing else, and for an integral T the int64_t compared *)
(* with the limits of T after those are cast to int64_t, and cast to T.    *)
(*                                                                         *)
(* The width is a parameter: an int64_t runs over -Limit .. Limit - 1, so  *)
(* that Limit is 2^63 in the code, and a cast into it wraps modulo         *)
(* 2 * Limit.  An integral type is its std::numeric_limits, the record     *)
(* [lo, hi].  What a cell of another kind holds is a number as well, 0 for *)
(* false, an empty text and nought.                                        *)
(***************************************************************************)
EXTENDS Integers

CONSTANTS Limit,   (* 2^63, at the width of the code                       *)
          Types,   (* the integral types a program asks for                *)
          Kinds    (* the other kinds of value, null left out              *)

ASSUME LimitAssumption == Limit \in Nat \ {0}
ASSUME KindsAssumption == "integer" \notin Kinds /\ "null" \notin Kinds

(* Every integral type is at most as wide as int64_t, and so lies inside   *)
(* the range of either int64_t or uint64_t.                                *)
ASSUME TypesAssumption ==
    \A T \in Types :
        /\ T.lo \in Int /\ T.hi \in Int /\ T.lo <= T.hi
        /\ \/ T.lo >= -Limit /\ T.hi < Limit
           \/ T.lo = 0 /\ T.hi < 2 * Limit

Int64 == -Limit .. Limit - 1

(* static_cast<std::int64_t> of a value of a type at most as wide. *)
ToInt64(n) == IF n >= Limit THEN n - 2 * Limit ELSE n

(* static_cast<T> of an int64_t. *)
Cast(T, n) == T.lo + ((n - T.lo) % (T.hi - T.lo + 1))

Fits(T, v) == T.lo <= v /\ v <= T.hi

------------------------------------------------------------------------------

Cell(kind, v) == [kind |-> kind, v |-> v]
NullCell == Cell("null", 0)
Cells == [kind : {"integer"}, v : Int64] \cup [kind : Kinds, v : {0, 1}] \cup {NullCell}

Answer(v) == [how |-> "value", v |-> v]
Nothing == [how |-> "nothing", v |-> 0]
Raised == [how |-> "raised", v |-> 0]

(* Value::as_int, as_bool, as_string and the rest: "asking for another one *)
(* throws rather than converting, and null is not any of these either".    *)
as(kind, c) == IF c.kind = kind THEN Answer(c.v) ELSE Raised

(* Mutation: the lower limit alone is tested. *)
get_NoUpper(T, c) ==
    LET read == as("integer", c)
    IN  IF read.how = "value" /\ read.v >= ToInt64(T.lo)
        THEN Answer(Cast(T, read.v))
        ELSE Raised

(* Mutation: the upper limit is excluded. *)
get_StrictUpper(T, c) ==
    LET read == as("integer", c)
    IN  IF read.how = "value" /\ ToInt64(T.lo) <= read.v /\ read.v < ToInt64(T.hi)
        THEN Answer(Cast(T, read.v))
        ELSE Raised

(* Row::get<T> for an integral T. *)
get(T, c) ==
    LET read == as("integer", c)
    IN  IF read.how = "value" /\ ToInt64(T.lo) <= read.v /\ read.v <= ToInt64(T.hi)
        THEN Answer(Cast(T, read.v))
        ELSE Raised

(* Row::get<std::optional<T>>, for a T whose plain read answers r: the     *)
(* null case folded in.                                                    *)
OrNothing(c, r) == IF c.kind = "null" THEN Nothing ELSE r

------------------------------------------------------------------------------

VARIABLES cell,     (* the cell under the cursor                           *)
          asked,    (* the last read: its type, and whether optional       *)
          got       (* what it came to                                     *)

readVars == <<cell, asked, got>>

NoType == [lo |-> 0, hi |-> 0]
Question(kind, T, optional) == [kind |-> kind, type |-> T, optional |-> optional]
None == Question("none", NoType, FALSE)

ReadInit ==
    /\ cell \in Cells
    /\ asked = None
    /\ got = Raised

(* get<T> and get<std::optional<T>> for an integral T. *)
Read(T, optional) ==
    /\ asked' = Question("integer", T, optional)
    /\ got' = IF optional THEN OrNothing(cell, get(T, cell)) ELSE get(T, cell)
    /\ UNCHANGED cell

(* The same for bool, double, std::string_view, Temporal and the rest. *)
ReadAs(kind, optional) ==
    /\ asked' = Question(kind, NoType, optional)
    /\ got' = IF optional THEN OrNothing(cell, as(kind, cell)) ELSE as(kind, cell)
    /\ UNCHANGED cell

(* The cursor moves, to another row, column or result. *)
Fetch ==
    /\ cell' \in Cells
    /\ asked' = None
    /\ got' = Raised

Reading ==
    \E optional \in BOOLEAN :
        \/ \E T \in Types : Read(T, optional)
        \/ \E kind \in Kinds : ReadAs(kind, optional)

ReadNext == Reading \/ Fetch

ReadSpec == ReadInit /\ [][ReadNext]_readVars

------------------------------------------------------------------------------

(* "Quietly wrapping is how a row count comes back negative": a value that *)
(* is answered is the cell's own, of the kind asked for, and an integral   *)
(* type asked for can hold it; a null is nothing to an optional and a      *)
(* failure to a plain read, and nothing else is ever taken for a null.     *)
NeverWraps ==
    /\ got.how = "value" => /\ cell.kind = asked.kind
                            /\ got.v = cell.v
                            /\ asked.kind = "integer" => Fits(asked.type, got.v)
    /\ got = Nothing <=> (asked # None /\ cell.kind = "null" /\ asked.optional)

(* "The value does not fit the type it was read as" is said only of values *)
(* that do not fit: whatever T can hold is answered.                       *)
FitsIsAnswered ==
    (asked # None /\ cell.kind = asked.kind /\ (asked.kind = "integer" => Fits(asked.type, cell.v)))
        => got = Answer(cell.v)
==============================================================================
