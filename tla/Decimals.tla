------------------------------ MODULE Decimals ------------------------------
(***************************************************************************)
(* Decimal of include/zu.hpp: an integer of two words, its sign and its    *)
(* magnitude, the test for one word, and detail::digits128, which divides  *)
(* the two words by ten with nothing wider than a word.                    *)
(*                                                                         *)
(* The width is a parameter: W is 2^32 in the code, a word runs modulo     *)
(* Full = W * W, and the high word of a Decimal is signed.                 *)
(***************************************************************************)
EXTENDS Integers, Sequences

CONSTANTS W,        (* 2^32 in the code: half a word                       *)
          Scales    (* the scales a program prints with                    *)

(* A remainder below ten and half a word have to fit a word.               *)
ASSUME WidthAssumption == W \in Nat /\ W >= 10 /\ W % 2 = 0
ASSUME ScalesAssumption == Scales \subseteq Nat

Full == W * W
Half == W * (W \div 2)

Word == 0 .. Full - 1
SignedWord == -Half .. Half - 1

(* Casts of a word to its signed twin and of any integer to a word. *)
Signed(n) == IF n >= Half THEN n - Full ELSE n
ToWord(n) == n % Full

(* The integer two words stand for. *)
Value(hi, lo) == hi * Full + lo
Abs(n) == IF n < 0 THEN -n ELSE n

------------------------------------------------------------------------------
(* The two halves.                                                         *)

of(u) == [hi |-> IF u < 0 THEN -1 ELSE 0, lo |-> ToWord(u)]

(* wide() and unscaled(): to the integer of two words and back. *)
wide(u) == [hi |-> Signed((u % (Full * Full)) \div Full), lo |-> ToWord(u)]

unscaled(d) ==
    LET u == ToWord(d.hi) * Full + d.lo
    IN  IF u >= Half * Full THEN u - Full * Full ELSE u

(* Mutation: the halves are only asked to have one sign. *)
unscaled64_SameSign(d) ==
    LET narrow == Signed(d.lo)
    IN  IF (narrow < 0) # (d.hi < 0) THEN {} ELSE {narrow}

(* The optional: one value, or none. *)
unscaled64(d) ==
    LET narrow == Signed(d.lo)
    IN  IF (IF narrow < 0 THEN -1 ELSE 0) # d.hi THEN {} ELSE {narrow}

(* Mutation: the low half's carry is lost. *)
magnitude128_NoCarry(d) ==
    IF d.hi < 0
    THEN [hi |-> Full - 1 - ToWord(d.hi), lo |-> ToWord(Full - d.lo)]
    ELSE [hi |-> d.hi, lo |-> d.lo]

(* detail::magnitude128: both halves complemented and one added, with the  *)
(* carry into the high half when the low one wraps.                        *)
magnitude128(d) ==
    IF d.hi < 0
    THEN LET lo == ToWord(Full - d.lo)
             hi == Full - 1 - ToWord(d.hi)
         IN  [hi |-> IF lo = 0 THEN ToWord(hi + 1) ELSE hi, lo |-> lo]
    ELSE [hi |-> d.hi, lo |-> d.lo]

------------------------------------------------------------------------------

VARIABLES dec,          (* the Decimal that is printed                     *)
          high, low,    (* what is left of its magnitude                   *)
          digits,       (* the digits so far, least significant first      *)
          place, built, (* history: ten to the number of digits, and what  *)
                        (* the digits come to                              *)
          text          (* what to_string answered: sign, whole, fraction, *)
                        (* and the scale it was asked for (history)        *)

vars == <<dec, high, low, digits, place, built, text>>

Unprinted == [minus |-> FALSE, whole |-> <<>>, fraction |-> <<>>, scale |-> 0]

Init ==
    /\ dec \in [hi : SignedWord, lo : Word]
    /\ high = magnitude128(dec).hi
    /\ low = magnitude128(dec).lo
    /\ digits = <<>>
    /\ place = 1
    /\ built = 0
    /\ text = Unprinted

(* (a << 32) | b of words, for b below W. *)
Join(a, b) == ToWord(a * W) + b

(* Mutation: the last quotient is pushed in place of the last remainder.   *)
DivideByTen_Quotient(h, l) ==
    LET top == Join(h % 10, l \div W)
        bottom == Join(top % 10, l % W)
    IN  [hi |-> h \div 10, lo |-> Join(top \div 10, bottom \div 10), digit |-> bottom \div 10]

(* One round of the loop on <<h, l>>: the quotient by ten in two words and *)
(* the remainder.                                                          *)
DivideByTen(h, l) ==
    LET top == Join(h % 10, l \div W)
        bottom == Join(top % 10, l % W)
    IN  [hi |-> h \div 10, lo |-> Join(top \div 10, bottom \div 10), digit |-> bottom % 10]

(* The loop of detail::digits128. *)
Divide ==
    LET q == DivideByTen(high, low) IN
    /\ high # 0 \/ low # 0
    /\ high' = q.hi
    /\ low' = q.lo
    /\ digits' = Append(digits, q.digit)
    /\ place' = 10 * place
    /\ built' = built + place * q.digit
    /\ UNCHANGED <<dec, text>>

(* The digits turned round; no digit at all is written as a nought. *)
Turned == IF digits = <<>> THEN <<0>> ELSE [i \in 1 .. Len(digits) |-> digits[Len(digits) + 1 - i]]

Zeros(n) == [i \in 1 .. n |-> 0]

(* Mutation: a number that is all fraction is not padded. *)
Placed_NoZeros(ds, scale) ==
    LET cut == Len(ds) - scale IN
    IF cut <= 0
    THEN [whole |-> <<0>>, fraction |-> ds]
    ELSE [whole |-> SubSeq(ds, 1, cut), fraction |-> SubSeq(ds, cut + 1, Len(ds))]

(* Where to_string puts the point. *)
Placed(ds, scale) ==
    LET cut == Len(ds) - scale IN
    IF scale > 0 /\ cut <= 0
    THEN [whole |-> <<0>>, fraction |-> Zeros(-cut) \o ds]
    ELSE [whole |-> SubSeq(ds, 1, cut), fraction |-> SubSeq(ds, cut + 1, Len(ds))]

to_string(scale) ==
    LET t == Placed(Turned, scale) IN
    /\ high = 0 /\ low = 0
    /\ text = Unprinted
    /\ text' = [minus |-> dec.hi < 0, whole |-> t.whole, fraction |-> t.fraction, scale |-> scale]
    /\ UNCHANGED <<dec, high, low, digits, place, built>>

Next == Divide \/ \E scale \in Scales : to_string(scale)

Spec == Init /\ [][Next]_vars

------------------------------------------------------------------------------

(* Every half stays inside a word, and what is pushed is a digit: nothing  *)
(* the division shifts is wider than the words it is done in.              *)
TypeOK ==
    /\ dec \in [hi : SignedWord, lo : Word]
    /\ high \in Word /\ low \in Word
    /\ digits \in Seq(0 .. 9)
    /\ place \in Nat \ {0} /\ built \in Nat
    /\ text.minus \in BOOLEAN

(* "Negating it gives the same bits back, which is exactly the magnitude   *)
(* wanted": after any number of rounds the digits that are out and the two *)
(* halves that are left make up the magnitude, the most negative integer's *)
(* included.                                                               *)
DivisionIsExact == Value(high, low) * place + built = Abs(Value(dec.hi, dec.lo))

Numeral(s) ==
    LET upto[i \in 0 .. Len(s)] == IF i = 0 THEN 0 ELSE 10 * upto[i - 1] + s[i]
    IN  upto[Len(s)]

(* "The number written out, with the point where the scale puts it": what  *)
(* is read back is the integer, with exactly the places of the scale, a    *)
(* figure before the point and no idle nought before that.                 *)
TextIsTheNumber ==
    text # Unprinted =>
        /\ Numeral(text.whole \o text.fraction) = Abs(Value(dec.hi, dec.lo))
        /\ text.minus <=> Value(dec.hi, dec.lo) < 0
        /\ Len(text.fraction) = text.scale
        /\ Len(text.whole) >= 1
        /\ Len(text.whole) > 1 => text.whole[1] # 0

(* "The unscaled integer when it fits an int64_t, and nothing when it does *)
(* not", for every pair of halves.                                         *)
FitsOneWord ==
    LET v == Value(dec.hi, dec.lo)
    IN  unscaled64(dec) = {v} \cap SignedWord

(* The ways to make a Decimal agree with the ways to read one: of() and    *)
(* unscaled64(), wide() and unscaled(), in either direction.               *)
HalvesRoundTrip ==
    LET v == Value(dec.hi, dec.lo)
    IN  /\ unscaled(dec) = v
        /\ wide(v) = dec
        /\ v \in SignedWord => of(v) = dec

(* A Decimal is the integer it stands for, whichever way it is made and    *)
(* read, and unscaled64() says so exactly when a word is enough.           *)
HalvesAgree == FitsOneWord /\ HalvesRoundTrip
==============================================================================
