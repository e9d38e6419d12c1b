------------------------------- MODULE MCReads -------------------------------
(* The width is scaled to 6 bits, which keeps every case there is: types   *)
(* of the same width and narrower ones, signed and not, and one of one     *)
(* bit; the unsigned one of the full width is the one at fault.            *)
EXTENDS Reads

MCLimit == 32
SignedType(half) == [lo |-> -half, hi |-> half - 1]
UnsignedType(half) == [lo |-> 0, hi |-> 2 * half - 1]

WithFullWidth == {SignedType(16), UnsignedType(8), UnsignedType(32)}
MCKinds == {"string"}
==============================================================================
