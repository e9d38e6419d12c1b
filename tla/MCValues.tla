------------------------------- MODULE MCValues -------------------------------
(* An int64_t of 6 bits, which keeps every case there is: types of the     *)
(* same width and narrower ones, signed and not, and one of one bit.  For  *)
(* the Decimals a word of 8 bits, and so 16 bits for the two: the least    *)
(* even W where a remainder and half a word fit a word is 10, and 16 is    *)
(* the least power of two.  Scales up to one past the five digits there    *)
(* can be.  Of every host type there is an argument.                       *)
EXTENDS Values

MCLimit == 32
SignedType(half) == [lo |-> -half, hi |-> half - 1]
UnsignedType(half) == [lo |-> 0, hi |-> 2 * half - 1]
MCTypes == {SignedType(16), UnsignedType(8), SignedType(32)}
MCKinds == {"floating", "boolean", "string", "temporal", "decimal"}
MCScales == {0, 1, 3, 6}
MCGiven == [host : {"int64", "int", "double", "bool", "view", "chars", "Temporal"}, v : {1}]
           \cup [host : {"no chars", "nullptr"}, v : {0}]

(* A cell of another result is only read while nothing is bound: binding   *)
(* leaves it alone.                                                        *)
ReadOrBound ==
    sought = NotGiven => cell = NullCell \/ \A n \in Names : bound[n] = Unbound
==============================================================================
