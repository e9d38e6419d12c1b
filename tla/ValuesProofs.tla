---------------------------- MODULE ValuesProofs ----------------------------
(***************************************************************************)
(* The values that cross, proved.  Decimal for every width: the magnitude, *)
(* the test for one word, the division by ten and the text, however long.  *)
(* Row::get<T> for every width, the real one of 2^63 included, and every   *)
(* set of types.  Statement::bind for any names and arguments.  And that   *)
(* the three together are a program of each.                               *)
(*                                                                         *)
(* A word is W * W, so the steps about it first give names to products and *)
(* quotients and leave the provers linear facts about them.                *)
(***************************************************************************)
EXTENDS Values, SequenceTheorems, WellFoundedInduction, TLAPS

(* A word is an even number of at least a hundred. *)
LEMMA Widths ==
  /\ Full \in Nat /\ Half \in Nat /\ Full = 2 * Half /\ Full >= 10 * W /\ Full > 0
<1>1. PICK k \in Nat : W = 2 * k /\ W \div 2 = k
  <2>1. W \div 2 \in Nat /\ W = 2 * (W \div 2)
    BY WidthAssumption
  <2> QED BY <2>1
<1>2. W * W = 2 * (W * k)
  BY <1>1, WidthAssumption
<1>3. W * W >= 10 * W
  BY WidthAssumption
<1> QED BY <1>1, <1>2, <1>3, WidthAssumption DEF Full, Half

(* Division with remainder, for a positive divisor. *)
LEMMA DivMod ==
  ASSUME NEW a \in Int, NEW b \in Nat, b > 0
  PROVE  /\ a \div b \in Int /\ a % b \in 0 .. b - 1
         /\ a = b * (a \div b) + (a % b)
  OBVIOUS

(* A product is monotonic in a factor. *)
LEMMA Monotonic ==
  ASSUME NEW a \in Int, NEW b \in Int, NEW c \in Nat, a <= b
  PROVE  a * c <= b * c
  OBVIOUS

(* The quotient of a word by half a word is half a word. *)
LEMMA HalfWords ==
  ASSUME NEW l \in Word
  PROVE  /\ l \div W \in 0 .. W - 1
         /\ l % W \in 0 .. W - 1
         /\ l = W * (l \div W) + (l % W)
<1>1. l \in Int /\ 0 <= l /\ l < W * W /\ W \in Nat /\ W > 0
  BY Widths, WidthAssumption DEF Word, Full
<1>2. l \div W \in Int /\ l % W \in 0 .. W - 1 /\ l = W * (l \div W) + (l % W)
  BY <1>1, DivMod
<1>3. ~(l \div W >= W)
  <2> SUFFICES ASSUME l \div W >= W PROVE FALSE
    OBVIOUS
  <2>1. W * W <= (l \div W) * W
    BY <1>1, <1>2, Monotonic
  <2> QED BY <1>1, <1>2, <2>1
<1>4. ~(l \div W < 0)
  <2> SUFFICES ASSUME l \div W <= -1 PROVE FALSE
    BY <1>2
  <2>1. (l \div W) * W <= (-1) * W
    BY <1>1, <1>2, Monotonic
  <2> QED BY <1>1, <1>2, <2>1
<1> QED BY <1>1, <1>2, <1>3, <1>4

(* A remainder by ten shifted by half a word, and half a word, fit a word  *)
(* and do not overlap: the | of the code is a sum and loses nothing.       *)
LEMMA JoinIsExact ==
  ASSUME NEW a \in 0 .. W - 1, NEW b \in 0 .. W - 1
  PROVE  Join(a, b) = a * W + b /\ Join(a, b) \in Word
<1>1. a * W <= (W - 1) * W
  BY Monotonic, WidthAssumption
<1>2. (W - 1) * W = W * W - W
  BY WidthAssumption
<1>3. a * W \in Nat
  BY WidthAssumption
<1>4. ToWord(a * W) = a * W
  BY <1>1, <1>2, <1>3, WidthAssumption DEF ToWord, Full
<1> QED BY <1>1, <1>2, <1>3, <1>4, WidthAssumption DEF Join, Word, Full

(* A number below ten times half a word leaves half a word by ten. *)
LEMMA TenthOf ==
  ASSUME NEW c \in 0 .. 9, NEW b \in 0 .. W - 1
  PROVE  LET n == c * W + b IN
         /\ n \div 10 \in 0 .. W - 1 /\ n % 10 \in 0 .. 9
         /\ n = 10 * (n \div 10) + (n % 10)
<1> DEFINE n == c * W + b
<1>1. c * W <= 9 * W /\ 0 * W <= c * W
  BY Monotonic, WidthAssumption
<1>2. n \in Nat /\ n < 10 * W
  BY <1>1, WidthAssumption
<1> HIDE DEF n
<1> QED BY <1>2, WidthAssumption DEF n

(* One round: ten times the quotient and the digit are what there was.     *)
LEMMA DivideIsExact ==
  ASSUME NEW h \in Word, NEW l \in Word
  PROVE  LET q == DivideByTen(h, l) IN
         /\ q.hi \in Word /\ q.lo \in Word /\ q.digit \in 0 .. 9
         /\ Value(h, l) = 10 * Value(q.hi, q.lo) + q.digit
<1> DEFINE h1 == h \div 10
           c == h % 10
           lt == l \div W
           lb == l % W
           top == c * W + lt
           qt == top \div 10
           c2 == top % 10
           bottom == c2 * W + lb
           qb == bottom \div 10
           c3 == bottom % 10
<1>1. /\ h1 \in Word /\ c \in 0 .. 9 /\ h = 10 * h1 + c
  BY Widths DEF Word
<1>2. /\ lt \in 0 .. W - 1 /\ lb \in 0 .. W - 1 /\ l = W * lt + lb
  BY HalfWords
<1>3. 0 .. 9 \subseteq 0 .. W - 1
  BY WidthAssumption
<1>4. Join(c, lt) = top
  BY <1>1, <1>2, <1>3, JoinIsExact
<1>5. qt \in 0 .. W - 1 /\ c2 \in 0 .. 9 /\ top = 10 * qt + c2
  <2> HIDE DEF c, lt
  <2> QED BY <1>1, <1>2, TenthOf
<1>6. Join(c2, lb) = bottom
  <2> HIDE DEF c2, lb
  <2> QED BY <1>2, <1>3, <1>5, JoinIsExact
<1>7. qb \in 0 .. W - 1 /\ c3 \in 0 .. 9 /\ bottom = 10 * qb + c3
  <2> HIDE DEF c2, lb
  <2> QED BY <1>2, <1>5, TenthOf
<1>8. Join(qt, qb) = qt * W + qb /\ Join(qt, qb) \in Word
  <2> HIDE DEF qt, qb
  <2> QED BY <1>5, <1>7, JoinIsExact
<1>9. DivideByTen(h, l) = [hi |-> h1, lo |-> qt * W + qb, digit |-> c3]
  BY <1>4, <1>6, <1>8 DEF DivideByTen
<1>10. h * Full + l = 10 * (h1 * Full + (qt * W + qb)) + c3
  <2>1. h1 \in Nat /\ c \in Nat /\ lt \in Nat /\ lb \in Nat /\ qt \in Nat /\ c2 \in Nat
        /\ qb \in Nat /\ c3 \in Nat /\ W \in Nat
    BY <1>1, <1>2, <1>5, <1>7, WidthAssumption DEF Word
  <2>2. c * W + lt = 10 * qt + c2 /\ c2 * W + lb = 10 * qb + c3
    BY <1>5, <1>7
  <2> HIDE DEF h1, c, lt, lb, qt, c2, qb, c3
  <2>3. (c * W + lt) * W = (10 * qt + c2) * W
    BY <2>2
  <2>4. (c * W + lt) * W = c * (W * W) + W * lt
    BY <2>1
  <2>5. (10 * qt + c2) * W = 10 * (qt * W) + c2 * W
    BY <2>1
  <2>6. h * (W * W) = 10 * (h1 * (W * W)) + c * (W * W)
    BY <1>1, <2>1
  <2>7. c * (W * W) + W * lt = 10 * (qt * W) + c2 * W
    BY <2>3, <2>4, <2>5
  <2> DEFINE A == c * (W * W)
             B == W * lt
             C == qt * W
             D == c2 * W
             E == h1 * (W * W)
  <2>8. A \in Nat /\ B \in Nat /\ C \in Nat /\ D \in Nat /\ E \in Nat
    BY <2>1
  <2>9. A + B = 10 * C + D /\ D + lb = 10 * qb + c3 /\ h * (W * W) = 10 * E + A /\ l = B + lb
    BY <1>2, <2>2, <2>6, <2>7
  <2> HIDE DEF A, B, C, D, E
  <2>10. h * (W * W) + l = 10 * (E + (C + qb)) + c3
    BY <2>1, <2>8, <2>9
  <2> QED BY <2>10 DEF E, C, Full
<1> HIDE DEF qt, qb, h1, c3
<1> QED BY <1>1, <1>7, <1>8, <1>9, <1>10 DEF Value

(* A quotient and a remainder are the only ones.                           *)
LEMMA DivModIsUnique ==
  ASSUME NEW n \in Int, NEW b \in Nat, b > 0, NEW j \in Int, NEW s \in 0 .. b - 1, n = j * b + s
  PROVE  n \div b = j /\ n % b = s
<1> DEFINE k == n \div b
           r == n % b
<1>1. n = k * b + r /\ k \in Int /\ r \in 0 .. b - 1
  BY DivMod
<1> HIDE DEF k, r
<1>2. CASE k = j
  BY <1>1, <1>2 DEF k, r
<1>3. CASE k >= j + 1
  <2>1. (j + 1) * b <= k * b /\ (j + 1) * b = j * b + b
    BY <1>1, <1>3, Monotonic
  <2> QED BY <1>1, <2>1
<1>4. CASE k <= j - 1
  <2>1. k * b <= (j - 1) * b /\ (j - 1) * b = j * b - b
    BY <1>1, <1>4, Monotonic
  <2> QED BY <1>1, <2>1
<1> QED BY <1>1, <1>2, <1>3, <1>4

(* What a cast to a word does to the integers it is given here. *)
LEMMA Casts ==
  ASSUME NEW n \in Int
  PROVE  /\ n \in Word => ToWord(n) = n
         /\ -Full <= n /\ n < 0 => ToWord(n) = n + Full
         /\ n = Full => ToWord(n) = 0
<1>1. Full \in Nat /\ Full > 0
  BY Widths
<1>2. n \in Word => n = 0 * Full + n /\ n \in 0 .. Full - 1
  BY <1>1 DEF Word
<1>3. -Full <= n /\ n < 0 => n = (-1) * Full + (n + Full) /\ n + Full \in 0 .. Full - 1
  BY <1>1
<1>4. n = Full => n = 1 * Full + 0 /\ 0 \in 0 .. Full - 1
  BY <1>1
<1> QED BY <1>1, <1>2, <1>3, <1>4, DivModIsUnique DEF ToWord

(* What the high half adds, below, at and above nought. *)
LEMMA HighHalf ==
  ASSUME NEW hi \in Int
  PROVE  /\ hi * Full \in Int
         /\ hi >= 1 => hi * Full >= Full
         /\ hi <= -1 => hi * Full <= -Full
         /\ hi <= -2 => hi * Full <= -(2 * Full)
         /\ (-hi) * Full = -(hi * Full)
         /\ (-1 - hi) * Full = -(hi * Full) - Full
<1>1. Full \in Nat /\ Full > 0
  BY Widths
<1>2. hi * Full \in Int /\ (-hi) * Full = -(hi * Full) /\ (-1 - hi) * Full = -(hi * Full) - Full
  BY <1>1
<1>3. hi >= 1 => 1 * Full <= hi * Full
  BY <1>1, Monotonic
<1>4. hi <= -1 => hi * Full <= (-1) * Full
  BY <1>1, Monotonic
<1>5. hi <= -2 => hi * Full <= (-2) * Full
  BY <1>1, Monotonic
<1> QED BY <1>1, <1>2, <1>3, <1>4, <1>5

Decimal == [hi : SignedWord, lo : Word]

(* "Exactly the magnitude wanted", the most negative value's as well.      *)
LEMMA MagnitudeIsAbs ==
  ASSUME NEW d \in Decimal
  PROVE  LET m == magnitude128(d) IN
         /\ m.hi \in Word /\ m.lo \in Word
         /\ Value(m.hi, m.lo) = Abs(Value(d.hi, d.lo))
<1> DEFINE hi == d.hi
           lo == d.lo
<1>1. hi \in Int /\ -Half <= hi /\ hi < Half /\ lo \in Word /\ lo \in Int /\ 0 <= lo /\ lo < Full
  BY Widths DEF Decimal, SignedWord, Word
<1> USE HighHalf, Widths
<1>2. CASE hi >= 0
  <2>1. hi \in Word /\ hi * Full >= 0
    BY <1>1, <1>2 DEF Word
  <2>2. magnitude128(d) = [hi |-> hi, lo |-> lo]
    BY <1>1, <1>2 DEF magnitude128
  <2> HIDE DEF hi, lo
  <2>3. Abs(Value(hi, lo)) = Value(hi, lo)
    BY <1>1, <2>1 DEF Abs, Value
  <2> QED BY <1>1, <2>1, <2>2, <2>3 DEF hi, lo
<1>3. CASE hi < 0
  <2>1. ToWord(hi) = hi + Full
    BY <1>1, <1>3, Casts
  <2>2. Abs(Value(hi, lo)) = -(hi * Full) - lo
    <3> HIDE DEF hi, lo
    <3> QED BY <1>1, <1>3 DEF Abs, Value
  <2>3. Full - 1 - ToWord(hi) = -1 - hi /\ -1 - hi \in Word
    BY <1>1, <1>3, <2>1 DEF Word
  <2>4. CASE lo = 0
    <3>1. ToWord(Full - lo) = 0
      BY <2>4, Casts
    <3>2. -hi \in Word /\ ToWord(-hi) = -hi /\ (-1 - hi) + 1 = -hi
      BY <1>1, <1>3, Casts DEF Word
    <3>3. magnitude128(d) = [hi |-> -hi, lo |-> 0]
      BY <1>3, <2>3, <3>1, <3>2 DEF magnitude128
    <3> HIDE DEF hi, lo
    <3>4. Value(-hi, 0) = -(hi * Full)
      BY <1>1 DEF Value
    <3> QED BY <1>1, <2>2, <2>4, <3>2, <3>3, <3>4 DEF hi, lo, Word
  <2>5. CASE lo # 0
    <3>1. Full - lo \in Word /\ ToWord(Full - lo) = Full - lo /\ Full - lo # 0
      BY <1>1, <2>5, Casts DEF Word
    <3>2. magnitude128(d) = [hi |-> -1 - hi, lo |-> Full - lo]
      BY <1>3, <2>3, <3>1 DEF magnitude128
    <3> HIDE DEF hi, lo
    <3>3. Value(-1 - hi, Full - lo) = -(hi * Full) - lo
      BY <1>1 DEF Value
    <3> QED BY <1>1, <2>2, <2>3, <3>1, <3>2, <3>3 DEF hi, lo
  <2> QED BY <2>4, <2>5
<1> QED BY <1>1, <1>2, <1>3

(* The test for one word. *)
LEMMA OneWord ==
  ASSUME NEW d \in Decimal
  PROVE  unscaled64(d) = {Value(d.hi, d.lo)} \cap SignedWord
<1> DEFINE hi == d.hi
           lo == d.lo
           v == hi * Full + lo
<1>1. hi \in Int /\ -Half <= hi /\ hi < Half /\ lo \in Int /\ 0 <= lo /\ lo < Full
  BY Widths DEF Decimal, SignedWord, Word
<1> USE HighHalf, Widths
<1>2. unscaled64(d) = IF (IF Signed(lo) < 0 THEN -1 ELSE 0) # hi THEN {} ELSE {Signed(lo)}
  BY DEF unscaled64
<1>3. Value(d.hi, d.lo) = v
  BY DEF Value
<1> HIDE DEF hi, lo
<1>4. CASE hi = 0
  BY <1>1, <1>2, <1>3, <1>4 DEF Signed, SignedWord
<1>5. CASE hi = -1
  BY <1>1, <1>2, <1>3, <1>5 DEF Signed, SignedWord
<1>6. CASE hi >= 1
  BY <1>1, <1>2, <1>3, <1>6 DEF Signed, SignedWord
<1>7. CASE hi <= -2
  BY <1>1, <1>2, <1>3, <1>7 DEF Signed, SignedWord
<1> QED BY <1>1, <1>4, <1>5, <1>6, <1>7

(* The two ways to make a Decimal and to read it.                          *)
LEMMA WaysAgree ==
  ASSUME NEW d \in Decimal
  PROVE  /\ unscaled(d) = Value(d.hi, d.lo)
         /\ wide(Value(d.hi, d.lo)) = d
         /\ Value(d.hi, d.lo) \in SignedWord => of(Value(d.hi, d.lo)) = d
<1> DEFINE hi == d.hi
           lo == d.lo
           v == hi * Full + lo
           top == ToWord(hi)
<1>1. hi \in Int /\ -Half <= hi /\ hi < Half /\ lo \in Int /\ 0 <= lo /\ lo < Full
  BY Widths DEF Decimal, SignedWord, Word
<1>2. d = [hi |-> hi, lo |-> lo] /\ Value(d.hi, d.lo) = v
  BY DEF Decimal, Value
<1> HIDE DEF hi, lo
<1>3. hi * Full \in Int /\ v \in Int /\ Full * Full \in Nat /\ Full * Full > 0
  <2>1. 1 * Full <= Full * Full
    BY Widths, Monotonic
  <2> QED BY <1>1, <2>1, Widths
<1>4. top = IF hi < 0 THEN hi + Full ELSE hi
  BY <1>1, Casts, Widths DEF Word
<1>5. top \in Int /\ 0 <= top /\ top <= Full - 1 /\ (top >= Half <=> hi < 0)
  BY <1>1, <1>4, Widths
<1>6. top * Full = hi * Full + (IF hi < 0 THEN Full * Full ELSE 0)
  BY <1>1, <1>4, Widths
<1>7. /\ top >= Half => top * Full >= Half * Full
      /\ top < Half => top * Full <= Half * Full - Full
      /\ 0 <= top * Full /\ top * Full <= Full * Full - Full
      /\ top * Full \in Int /\ Half * Full \in Int
  <2>1. top >= Half => Half * Full <= top * Full
    BY <1>5, Widths, Monotonic
  <2>2. top <= Half - 1 => top * Full <= (Half - 1) * Full
    BY <1>5, Widths, Monotonic
  <2>3. 0 * Full <= top * Full /\ top * Full <= (Full - 1) * Full
    BY <1>5, Widths, Monotonic
  <2>4. (Half - 1) * Full = Half * Full - Full /\ (Full - 1) * Full = Full * Full - Full
    BY Widths
  <2> HIDE DEF top
  <2> QED BY <1>5, <2>1, <2>2, <2>3, <2>4, Widths
<1>8. unscaled(d) = IF top * Full + lo >= Half * Full
                    THEN (top * Full + lo) - Full * Full ELSE top * Full + lo
  BY DEF unscaled, hi, lo
<1> HIDE DEF top
<1>9. unscaled(d) = v
  BY <1>1, <1>3, <1>5, <1>6, <1>7, <1>8, Widths
<1>10. ToWord(v) = lo
  BY <1>1, <1>3, Widths, DivModIsUnique DEF ToWord
<1>11. v % (Full * Full) = top * Full + lo
  <2> DEFINE j == IF hi < 0 THEN -1 ELSE 0
             FF == Full * Full
  <2>1. top * Full + lo \in 0 .. FF - 1
    BY <1>1, <1>3, <1>7, Widths
  <2>2. v = j * FF + (top * Full + lo)
    BY <1>1, <1>3, <1>5, <1>6
  <2>3. FF \in Nat /\ FF > 0 /\ j \in Int
    BY <1>3
  <2> HIDE DEF j, FF, v
  <2>4. v % FF = top * Full + lo
    BY <1>3, <2>1, <2>2, <2>3, DivModIsUnique
  <2> QED BY <2>4 DEF FF
<1>12. (top * Full + lo) \div Full = top
  BY <1>1, <1>5, <1>7, Widths, DivModIsUnique
<1>13. Signed(top) = hi
  BY <1>1, <1>4, <1>5, Widths DEF Signed
<1>14. wide(v) = d
  BY <1>2, <1>10, <1>11, <1>12, <1>13 DEF wide
<1>15. v \in SignedWord => hi = IF v < 0 THEN -1 ELSE 0
  BY <1>1, HighHalf, Widths DEF SignedWord
<1>16. v \in SignedWord => of(v) = d
  BY <1>2, <1>10, <1>15 DEF of
<1> QED BY <1>2, <1>9, <1>14, <1>16

------------------------------------------------------------------------------

(* The inductive invariant: what is divided and what is built stay in      *)
(* their types, and together make up the magnitude.                        *)
IInv == TypeOK /\ DivisionIsExact

LEMMA InitIInv == Init => IInv
<1> SUFFICES ASSUME Init PROVE IInv
  OBVIOUS
<1>1. dec \in Decimal
  BY DEF Init, Decimal
<1>2. high \in Word /\ low \in Word /\ Value(high, low) = Abs(Value(dec.hi, dec.lo))
  BY <1>1, MagnitudeIsAbs DEF Init
<1>3. Value(high, low) \in Int
  BY <1>2, Widths DEF Value, Word
<1>4. TypeOK
  BY <1>1, <1>2 DEF Init, TypeOK, Decimal, Unprinted
<1>5. DivisionIsExact
  BY <1>2, <1>3 DEF Init, DivisionIsExact
<1> QED BY <1>4, <1>5 DEF IInv

LEMMA StepIInv == IInv /\ [Next]_vars => IInv'
<1> SUFFICES ASSUME IInv, [Next]_vars PROVE IInv'
  OBVIOUS
<1> USE DEF IInv, TypeOK, DivisionIsExact
<1>1. CASE Divide
  <2> DEFINE q == DivideByTen(high, low)
  <2>1. /\ q.hi \in Word /\ q.lo \in Word /\ q.digit \in 0 .. 9
        /\ Value(high, low) = 10 * Value(q.hi, q.lo) + q.digit
    BY DivideIsExact
  <2>2. /\ high' = q.hi /\ low' = q.lo /\ digits' = Append(digits, q.digit)
        /\ place' = 10 * place /\ built' = built + place * q.digit
        /\ UNCHANGED <<dec, text>>
    BY <1>1 DEF Divide
  <2> HIDE DEF q
  <2>3. TypeOK'
    <3>1. place * q.digit \in Nat
      BY <2>1
    <3>2. digits' \in Seq(0 .. 9)
      BY <2>1, <2>2
    <3>3. place' \in Nat \ {0} /\ built' \in Nat
      BY <2>2, <3>1
    <3> QED BY <2>1, <2>2, <3>2, <3>3
  <2>4. Value(q.hi, q.lo) \in Int
    BY <2>1, Widths DEF Value, Word
  <2>5. DivisionIsExact'
    <3> DEFINE V == Value(q.hi, q.lo)
               c == q.digit
    <3>1. Value(high, low) * place + built = V * (10 * place) + (built + place * c)
      <4>1. V \in Int /\ c \in Int /\ place \in Int /\ built \in Int /\ Value(high, low) = 10 * V + c
        BY <2>1, <2>4
      <4> HIDE DEF V, c
      <4>2. (10 * V + c) * place = V * (10 * place) + place * c
        BY <4>1
      <4> QED BY <4>1, <4>2
    <3>2. Value(high, low)' = V /\ Value(dec.hi, dec.lo)' = Value(dec.hi, dec.lo)
      BY <2>2 DEF Value
    <3> QED BY <2>2, <3>1, <3>2 DEF Abs
  <2> QED BY <2>3, <2>5
<1>2. ASSUME NEW scale \in Scales, to_string(scale) PROVE IInv'
  BY <1>2 DEF to_string, Value, Abs
<1>3. CASE UNCHANGED vars
  BY <1>3 DEF vars, Value, Abs
<1> QED BY <1>1, <1>2, <1>3 DEF Next

LEMMA Always == Spec => []IInv
  BY InitIInv, StepIInv, PTL DEF Spec

(* For every width of at least ten: nothing the loop shifts or pushes      *)
(* leaves its word.                                                        *)
THEOREM TypeCorrect == Spec => []TypeOK
  BY Always, PTL DEF IInv

(* For every width: the digits that are out and the halves that are left   *)
(* make up the magnitude of every Decimal, so that the digits of a loop    *)
(* that is over are the whole of it.                                       *)
THEOREM DigitsAreExact ==
  Spec => []/\ DivisionIsExact
            /\ high = 0 /\ low = 0 => built = Abs(Value(dec.hi, dec.lo))
<1>1. IInv => (high = 0 /\ low = 0 => built = Abs(Value(dec.hi, dec.lo)))
  <2>1. Value(0, 0) = 0
    BY Widths DEF Value
  <2> QED BY <2>1 DEF IInv, TypeOK, DivisionIsExact
<1> QED BY <1>1, Always, PTL DEF IInv

(* For every width: a Decimal is the integer it stands for, whichever way  *)
(* it is made and read, and unscaled64 answers exactly those of one word.  *)
THEOREM HalvesAreTheNumber == Spec => []HalvesAgree
<1>1. IInv => HalvesAgree
  BY OneWord, WaysAgree DEF IInv, TypeOK, Decimal, HalvesAgree, FitsOneWord, HalvesRoundTrip
<1> QED BY <1>1, Always, PTL

------------------------------------------------------------------------------
(* The text.  Reading digits from a number m on is a run of Horner's rule: *)
(* what has been read so far, after every digit.                           *)
Run(m, s, f) ==
    /\ f \in [0 .. Len(s) -> Nat]
    /\ f[0] = m
    /\ \A i \in 1 .. Len(s) : f[i] = 10 * f[i - 1] + s[i]

Reversed(s) == [i \in 1 .. Len(s) |-> s[Len(s) + 1 - i]]

(* Whatever was read before, the digits so far add what has been built.    *)
DigitsRead ==
    \A m \in Nat : \A f : Run(m, Reversed(digits), f) => f[Len(digits)] = m * place + built

(* The digit of the last round is not a nought: a round takes a number     *)
(* above nought, and what it leaves is nought only after the last.         *)
LeadDigit == high = 0 /\ low = 0 /\ digits # <<>> => digits[Len(digits)] # 0

(* Induction over the natural numbers, from their order being well founded. *)
LEMMA InductiveSet ==
  ASSUME NEW S, 0 \in S, \A n \in S : n \in Nat => n + 1 \in S
  PROVE  Nat \subseteq S
<1> SUFFICES ASSUME Nat \ S # {} PROVE FALSE
  OBVIOUS
<1>1. PICK n \in Nat \ S : \A m \in Nat \ S : ~(<<m, n>> \in OpToRel(<, Nat))
  BY NatLessThanWellFounded, WFMin, Zenon
<1>2. n # 0 /\ n - 1 \in Nat
  OBVIOUS
<1>3. n - 1 \notin S
  <2> SUFFICES ASSUME n - 1 \in S PROVE FALSE
    OBVIOUS
  <2>1. (n - 1) + 1 \in S
    BY <1>2
  <2>2. (n - 1) + 1 = n
    OBVIOUS
  <2> QED BY <2>1, <2>2
<1>4. <<n - 1, n>> \in OpToRel(<, Nat)
  BY <1>2 DEF OpToRel
<1> QED BY <1>1, <1>2, <1>3, <1>4

(* There is a run over every sequence of digits. *)
LEMMA RunExists ==
  ASSUME NEW s \in Seq(0 .. 9)
  PROVE  \E f : Run(0, s, f)
<1> DEFINE P(n, f) == /\ f \in [0 .. n -> Nat]
                      /\ f[0] = 0
                      /\ \A i \in 1 .. n : f[i] = 10 * f[i - 1] + s[i]
           S == {n \in Nat : n <= Len(s) => \E f : P(n, f)}
<1>1. 0 \in S
  <2>1. P(0, [i \in 0 .. 0 |-> 0])
    OBVIOUS
  <2> QED BY <2>1
<1>2. ASSUME NEW n \in S, n \in Nat PROVE n + 1 \in S
  <2> HIDE DEF P
  <2> SUFFICES ASSUME n + 1 <= Len(s) PROVE \E f : P(n + 1, f)
    BY <1>2
  <2>0. n \in Nat /\ n <= Len(s) /\ Len(s) \in Nat
    BY <1>2
  <2>1. PICK f : P(n, f)
    BY <2>0
  <2> USE DEF P
  <2> DEFINE g == [i \in 0 .. n + 1 |-> IF i = n + 1 THEN 10 * f[n] + s[n + 1] ELSE f[i]]
  <2>2. s[n + 1] \in 0 .. 9 /\ f[n] \in Nat
    BY <2>0, <2>1
  <2>3. g \in [0 .. n + 1 -> Nat] /\ g[0] = 0
    <3>1. 10 * f[n] + s[n + 1] \in Nat
      <4>1. \A a \in Nat : \A b \in 0 .. 9 : 10 * a + b \in Nat
        OBVIOUS
      <4> QED BY <2>2, <4>1, Zenon
    <3>2. \A i \in 0 .. n + 1 : i # n + 1 => i \in 0 .. n
      BY <2>0
    <3>3. \A i \in 0 .. n : f[i] \in Nat
      BY <2>1
    <3>4. \A i \in 0 .. n + 1 : (IF i = n + 1 THEN 10 * f[n] + s[n + 1] ELSE f[i]) \in Nat
      BY <3>1, <3>2, <3>3
    <3>5. g[0] = f[0]
      BY <2>0
    <3> QED BY <2>1, <3>4, <3>5
  <2>4. ASSUME NEW i \in 1 .. n + 1 PROVE g[i] = 10 * g[i - 1] + s[i]
    <3>1. CASE i = n + 1
      <4>1. g[i] = 10 * f[n] + s[n + 1] /\ g[i - 1] = f[n]
        BY <2>0, <3>1
      <4> QED BY <3>1, <4>1
    <3>2. CASE i # n + 1
      <4>1. g[i] = f[i] /\ g[i - 1] = f[i - 1] /\ i \in 1 .. n
        BY <2>0, <3>2
      <4> QED BY <2>1, <4>1
    <3> QED BY <3>1, <3>2
  <2> HIDE DEF g
  <2>5. P(n + 1, g)
    BY <2>3, <2>4
  <2> QED BY <2>5
<1> HIDE DEF P
<1>3. Nat \subseteq S
  <2> HIDE DEF S
  <2> QED BY <1>1, <1>2, InductiveSet
<1>4. PICK f : P(Len(s), f)
  BY <1>3
<1> QED BY <1>4 DEF Run, P

(* Numeral is where the run from nought ends.                              *)
LEMMA NumeralIsRun ==
  ASSUME NEW s \in Seq(0 .. 9)
  PROVE  \E f : Run(0, s, f) /\ Numeral(s) = f[Len(s)]
<1> DEFINE Body(f) == [i \in 0 .. Len(s) |-> IF i = 0 THEN 0 ELSE 10 * f[i - 1] + s[i]]
           upto == CHOOSE f : f = Body(f)
<1>1. Numeral(s) = upto[Len(s)]
  BY DEF Numeral
<1>2. \E f : f = Body(f)
  <2>1. PICK f : Run(0, s, f)
    BY RunExists
  <2>2. f = [i \in 0 .. Len(s) |-> f[i]]
    BY <2>1 DEF Run
  <2>3. ASSUME NEW i \in 0 .. Len(s) PROVE f[i] = Body(f)[i]
    BY <2>1 DEF Run
  <2>4. f = Body(f)
    BY <2>2, <2>3
  <2> QED BY <2>4
<1>3. upto = Body(upto)
  BY <1>2
<1> HIDE DEF upto
<1>4. /\ DOMAIN upto = 0 .. Len(s)
      /\ upto = [i \in 0 .. Len(s) |-> upto[i]]
      /\ \A i \in 0 .. Len(s) : upto[i] = IF i = 0 THEN 0 ELSE 10 * upto[i - 1] + s[i]
  BY <1>3
<1>5. \A i \in 0 .. Len(s) : upto[i] \in Nat
  <2> DEFINE S == {n \in Nat : n <= Len(s) => upto[n] \in Nat}
  <2>1. 0 \in S
    BY <1>4
  <2>2. ASSUME NEW n \in S, n \in Nat PROVE n + 1 \in S
    <3> SUFFICES ASSUME n + 1 <= Len(s) PROVE upto[n + 1] \in Nat
      BY <2>2
    <3>0. n \in Nat /\ n <= Len(s) /\ n + 1 \in 0 .. Len(s) /\ n + 1 # 0 /\ (n + 1) - 1 = n
      BY <2>2
    <3>1. upto[n + 1] = 10 * upto[n] + s[n + 1] /\ upto[n] \in Nat
      BY <1>4, <3>0
    <3>2. s[n + 1] \in 0 .. 9
      BY <3>0
    <3>3. \A a \in Nat : \A b \in 0 .. 9 : 10 * a + b \in Nat
      OBVIOUS
    <3> QED BY <3>1, <3>2, <3>3
  <2>3. Nat \subseteq S
    <3> HIDE DEF S
    <3> QED BY <2>1, <2>2, InductiveSet
  <2> QED BY <2>3
<1>6. Run(0, s, upto)
  <2>1. upto \in [0 .. Len(s) -> Nat]
    BY <1>4, <1>5
  <2> QED BY <1>4, <2>1 DEF Run
<1> QED BY <1>1, <1>6

(* Noughts before the digits change nothing of what is read.               *)
LEMMA NoughtsBefore ==
  ASSUME NEW s \in Seq(0 .. 9), NEW t \in Seq(0 .. 9), NEW k \in Nat,
         Len(s) = k + Len(t),
         \A i \in 1 .. k : s[i] = 0,
         \A i \in 1 .. Len(t) : s[i + k] = t[i]
  PROVE  \E f : Run(0, t, f) /\ Numeral(s) = f[Len(t)]
<1>1. PICK f : Run(0, s, f) /\ Numeral(s) = f[Len(s)]
  BY NumeralIsRun
<1>2. \A i \in 0 .. k : f[i] = 0
  <2> DEFINE S == {n \in Nat : n <= k => f[n] = 0}
  <2>1. 0 \in S
    BY <1>1 DEF Run
  <2>2. ASSUME NEW n \in S, n \in Nat PROVE n + 1 \in S
    <3> SUFFICES ASSUME n + 1 <= k PROVE f[n + 1] = 0
      OBVIOUS
    <3>1. n + 1 \in 1 .. k /\ n + 1 \in 1 .. Len(s) /\ f[n] = 0
      OBVIOUS
    <3>2. f[n + 1] = 10 * f[(n + 1) - 1] + s[n + 1]
      BY <1>1, <3>1 DEF Run
    <3>3. (n + 1) - 1 = n /\ s[n + 1] = 0
      BY <3>1
    <3> QED BY <3>1, <3>2, <3>3
  <2>3. Nat \subseteq S
    <3> HIDE DEF S
    <3> QED BY <2>1, <2>2, InductiveSet
  <2> QED BY <2>3
<1> DEFINE g == [i \in 0 .. Len(t) |-> f[i + k]]
<1>3. g \in [0 .. Len(t) -> Nat] /\ g[0] = 0
  BY <1>1, <1>2 DEF Run
<1>4. ASSUME NEW i \in 1 .. Len(t) PROVE g[i] = 10 * g[i - 1] + t[i]
  <2>1. i + k \in 1 .. Len(s) /\ (i + k) - 1 = (i - 1) + k /\ i - 1 \in 0 .. Len(t)
    OBVIOUS
  <2>2. f[i + k] = 10 * f[(i + k) - 1] + s[i + k]
    BY <1>1, <2>1 DEF Run
  <2>3. g[i] = f[i + k] /\ g[i - 1] = f[(i - 1) + k]
    BY <2>1
  <2> QED BY <2>1, <2>2, <2>3
<1>5. g[Len(t)] = f[Len(s)]
  OBVIOUS
<1> HIDE DEF g
<1>6. Run(0, t, g)
  BY <1>3, <1>4 DEF Run
<1> QED BY <1>1, <1>5, <1>6

LEMMA ReversedIsDigits ==
  ASSUME NEW s \in Seq(0 .. 9)
  PROVE  /\ Reversed(s) \in Seq(0 .. 9) /\ Len(Reversed(s)) = Len(s)
         /\ \A i \in 1 .. Len(s) : Reversed(s)[i] = s[Len(s) + 1 - i]
<1>1. \A i \in 1 .. Len(s) : Len(s) + 1 - i \in 1 .. Len(s)
  OBVIOUS
<1>2. \A i \in 1 .. Len(s) : s[Len(s) + 1 - i] \in 0 .. 9
  BY <1>1
<1> QED BY <1>2 DEF Reversed

(* One digit more before those that are out: read from m on it is read     *)
(* from ten times m and the digit on.                                      *)
LEMMA DigitsReadKept == IInv /\ DigitsRead /\ LeadDigit /\ Divide => DigitsRead' /\ LeadDigit'
<1> SUFFICES ASSUME IInv, DigitsRead, LeadDigit, Divide PROVE DigitsRead' /\ LeadDigit'
  OBVIOUS
<1> DEFINE q == DivideByTen(high, low)
           d == q.digit
           n == Len(digits)
<1>1. /\ q.hi \in Word /\ q.lo \in Word /\ d \in 0 .. 9
      /\ Value(high, low) = 10 * Value(q.hi, q.lo) + d
  BY DivideIsExact DEF IInv, TypeOK
<1>2. /\ high' = q.hi /\ low' = q.lo /\ digits' = Append(digits, d)
      /\ place' = 10 * place /\ built' = built + place * d
      /\ high # 0 \/ low # 0
  BY DEF Divide
<1>3. digits \in Seq(0 .. 9) /\ place \in Nat /\ built \in Nat /\ n \in Nat /\ high \in Word /\ low \in Word
  BY DEF IInv, TypeOK
<1> HIDE DEF q, d
<1>4. /\ Len(digits') = n + 1 /\ digits'[n + 1] = d /\ digits' \in Seq(0 .. 9)
      /\ \A i \in 1 .. n : digits'[i] = digits[i]
  BY <1>1, <1>2, <1>3
<1>5. ASSUME NEW m \in Nat, NEW f, Run(m, Reversed(digits'), f)
      PROVE  f[n + 1] = m * (10 * place) + (built + place * d)
  <2> DEFINE g == [i \in 0 .. n |-> f[i + 1]]
             r == Reversed(digits')
             o == Reversed(digits)
  <2>1. Len(r) = n + 1 /\ Len(o) = n /\ \A i \in 1 .. n + 1 : r[i] = digits'[(n + 1) + 1 - i]
    BY <1>3, <1>4, ReversedIsDigits
  <2>2. r[1] = d
    BY <1>3, <1>4, <2>1
  <2>3. ASSUME NEW i \in 1 .. n PROVE r[i + 1] = o[i]
    <3>1. r[i + 1] = digits'[(n + 1) + 1 - (i + 1)]
      BY <1>3, <2>1
    <3>2. (n + 1) + 1 - (i + 1) = n + 1 - i /\ n + 1 - i \in 1 .. n
      BY <1>3
    <3>3. o[i] = digits[n + 1 - i]
      BY <1>3, ReversedIsDigits
    <3> QED BY <1>4, <3>1, <3>2, <3>3
  <2> HIDE DEF r, o
  <2>4. /\ f \in [0 .. n + 1 -> Nat] /\ f[0] = m
        /\ \A i \in 1 .. n + 1 : f[i] = 10 * f[i - 1] + r[i]
    BY <1>5, <2>1 DEF Run, r
  <2>5. f[1] = 10 * m + d
    <3>1. 1 \in 1 .. n + 1 /\ 1 - 1 = 0
      BY <1>3
    <3> QED BY <2>2, <2>4, <3>1
  <2>6. ASSUME NEW i \in 1 .. n PROVE g[i] = 10 * g[i - 1] + o[i]
    <3>1. i + 1 \in 1 .. n + 1 /\ (i + 1) - 1 = i /\ (i - 1) + 1 = i /\ i - 1 \in 0 .. n /\ i \in 0 .. n
      BY <1>3
    <3>2. f[i + 1] = 10 * f[(i + 1) - 1] + r[i + 1]
      BY <2>4, <3>1
    <3> QED BY <2>3, <3>1, <3>2
  <2>7. g \in [0 .. n -> Nat] /\ g[0] = 10 * m + d /\ g[n] = f[n + 1]
    BY <1>3, <2>4, <2>5
  <2> HIDE DEF g
  <2>8. 10 * m + d \in Nat /\ Run(10 * m + d, o, g)
    BY <1>1, <2>1, <2>6, <2>7 DEF Run
  <2>9. g[n] = (10 * m + d) * place + built
    BY <2>8 DEF DigitsRead, o
  <2>10. (10 * m + d) * place = m * (10 * place) + place * d
    BY <1>1, <1>3
  <2>11. m * (10 * place) \in Nat /\ place * d \in Nat
    BY <1>1, <1>3
  <2> QED BY <1>3, <2>7, <2>9, <2>10, <2>11
<1>6. DigitsRead'
  BY <1>2, <1>4, <1>5 DEF DigitsRead
<1>7. LeadDigit'
  <2> SUFFICES ASSUME q.hi = 0, q.lo = 0 PROVE d # 0
    BY <1>2, <1>4 DEF LeadDigit
  <2>1. Value(q.hi, q.lo) = 0
    BY Widths DEF Value
  <2>2. Value(high, low) # 0
    <3>1. high \in Int /\ high >= 0 /\ low \in Int /\ low >= 0
      BY <1>3, Widths DEF Word
    <3>2. high * Full \in Int /\ (high >= 1 => high * Full >= Full)
      BY <3>1, HighHalf
    <3>3. high = 0 => high * Full = 0
      BY Widths
    <3>4. high * Full + low # 0
      <4> DEFINE A == high * Full
      <4>1. A \in Int /\ (high >= 1 => A >= Full) /\ (high = 0 => A = 0)
        BY <3>2, <3>3
      <4> HIDE DEF A
      <4>2. A + low # 0
        BY <1>2, <3>1, <4>1, Widths
      <4> QED BY <4>2 DEF A
    <3> QED BY <3>4 DEF Value
  <2> QED BY <1>1, <2>1, <2>2
<1> QED BY <1>6, <1>7

(* Two sequences put together, and one cut in two. *)
LEMMA Joined ==
  ASSUME NEW D, NEW a \in Seq(D), NEW b \in Seq(D)
  PROVE  /\ a \o b \in Seq(D) /\ Len(a \o b) = Len(a) + Len(b)
         /\ \A i \in 1 .. Len(a) : (a \o b)[i] = a[i]
         /\ \A i \in 1 .. Len(b) : (a \o b)[Len(a) + i] = b[i]
<1>1. /\ a \o b \in Seq(D) /\ Len(a \o b) = Len(a) + Len(b)
      /\ \A i \in 1 .. Len(a) + Len(b) : (a \o b)[i] = IF i <= Len(a) THEN a[i] ELSE b[i - Len(a)]
  BY ConcatProperties
<1>2. Len(a) \in Nat /\ Len(b) \in Nat
  OBVIOUS
<1>3. ASSUME NEW i \in 1 .. Len(b) PROVE (a \o b)[Len(a) + i] = b[i]
  <2>1. Len(a) + i \in 1 .. Len(a) + Len(b) /\ ~(Len(a) + i <= Len(a)) /\ (Len(a) + i) - Len(a) = i
    BY <1>2
  <2> QED BY <1>1, <2>1
<1> QED BY <1>1, <1>2, <1>3

LEMMA CutInTwo ==
  ASSUME NEW D, NEW s \in Seq(D), NEW c \in 1 .. Len(s)
  PROVE  /\ Len(SubSeq(s, 1, c)) = c /\ SubSeq(s, 1, c)[1] = s[1]
         /\ Len(SubSeq(s, c + 1, Len(s))) = Len(s) - c
         /\ SubSeq(s, 1, c) \o SubSeq(s, c + 1, Len(s)) = s
<1>1. Len(s) \in Nat /\ c \in Nat /\ \A i \in 1 .. Len(s) : s[i] \in D
  OBVIOUS
<1>2. /\ Len(SubSeq(s, 1, c)) = c
      /\ \A i \in 1 .. c - 1 + 1 : SubSeq(s, 1, c)[i] = s[1 + i - 1]
  BY <1>1, SubSeqProperties
<1>3. Len(SubSeq(s, c + 1, Len(s))) = Len(s) - c
  <2>1. /\ \A i \in c + 1 .. Len(s) : s[i] \in D
        /\ c + 1 \in Int /\ Len(s) \in Int
    BY <1>1
  <2>2. Len(SubSeq(s, c + 1, Len(s))) = IF c + 1 <= Len(s) THEN Len(s) - (c + 1) + 1 ELSE 0
    BY <2>1, SubSeqProperties
  <2> QED BY <1>1, <2>2
<1>4. SubSeq(s, 1, c) \o SubSeq(s, c + 1, Len(s)) = SubSeq(s, 1, Len(s))
  BY <1>1, ConcatAdjacentSubSeq
<1>5. SubSeq(s, 1, Len(s)) = s
  BY SubSeqFull
<1>6. SubSeq(s, 1, c)[1] = s[1]
  <2>1. 1 \in 1 .. c - 1 + 1 /\ 1 + 1 - 1 = 1
    BY <1>1
  <2> QED BY <1>2, <2>1
<1> QED BY <1>2, <1>3, <1>4, <1>5, <1>6

(* What is written when nothing is left: the digits, most significant      *)
(* first, with noughts before them at most; the scale's places after the   *)
(* point, a figure before it, and no nought at the head of two figures.    *)
LEMMA TextRight ==
  ASSUME IInv, DigitsRead, LeadDigit, high = 0, low = 0, NEW scale \in Nat
  PROVE  LET t == Placed(Turned, scale) IN
         /\ Numeral(t.whole \o t.fraction) = built
         /\ Len(t.fraction) = scale
         /\ Len(t.whole) >= 1
         /\ Len(t.whole) > 1 => t.whole[1] # 0
<1> DEFINE ds == Turned
           r == Reversed(digits)
           n == Len(digits)
           k0 == IF digits = <<>> THEN 1 ELSE 0
           cut == Len(ds) - scale
           t == Placed(ds, scale)
<1>1. digits \in Seq(0 .. 9) /\ n \in Nat /\ place \in Nat /\ built \in Nat
  BY DEF IInv, TypeOK
<1>2. /\ r \in Seq(0 .. 9) /\ Len(r) = n
      /\ \A i \in 1 .. n : r[i] = digits[n + 1 - i]
  BY <1>1, ReversedIsDigits
<1>3. digits = <<>> <=> n = 0
  BY <1>1
<1>4. /\ ds \in Seq(0 .. 9) /\ Len(ds) = k0 + n /\ Len(ds) >= 1
      /\ \A i \in 1 .. k0 : ds[i] = 0
      /\ \A i \in 1 .. n : ds[i + k0] = r[i]
  <2>1. CASE digits = <<>>
    <3>1. ds = <<0>> /\ k0 = 1 /\ n = 0
      BY <2>1, <1>3 DEF Turned
    <3> HIDE DEF ds, r, n, k0
    <3> QED BY <3>1
  <2>2. CASE digits # <<>>
    <3>1. ds = r /\ k0 = 0 /\ n >= 1
      BY <2>2, <1>1, <1>3 DEF Turned, Reversed
    <3> HIDE DEF ds, r, n, k0
    <3> QED BY <1>2, <3>1
  <2> QED BY <2>1, <2>2
<1>5. Len(ds) > 1 => ds[1] # 0
  <2> SUFFICES ASSUME Len(ds) > 1 PROVE ds[1] # 0
    OBVIOUS
  <2>1. digits # <<>> /\ k0 = 0 /\ n >= 1
    BY <1>1, <1>3, <1>4
  <2>2. ds[1] = digits[n]
    <3>1. ds[1 + 0] = r[1] /\ r[1] = digits[n + 1 - 1]
      BY <1>2, <1>4, <2>1
    <3> QED BY <1>1, <3>1
  <2> QED BY <2>1, <2>2 DEF LeadDigit
<1> HIDE DEF ds, r, n
<1>6. k0 \in {0, 1} /\ Len(ds) \in Nat /\ cut \in Int
  BY <1>4
<1>7. ASSUME NEW s \in Seq(0 .. 9), NEW k \in Nat, Len(s) = k + n,
             \A i \in 1 .. k : s[i] = 0, \A i \in 1 .. n : s[i + k] = r[i]
      PROVE  Numeral(s) = built
  <2>1. PICK f : Run(0, r, f) /\ Numeral(s) = f[n]
    BY <1>2, <1>7, NoughtsBefore
  <2>2. f[n] = 0 * place + built
    BY <2>1 DEF DigitsRead, r, n
  <2> QED BY <1>1, <2>1, <2>2
<1>8. CASE scale > 0 /\ cut <= 0
  <2> DEFINE z == Zeros(-cut)
             s == <<0>> \o (z \o ds)
             k == 1 + (-cut) + k0
  <2>1. t.whole = <<0>> /\ t.fraction = z \o ds
    BY <1>8 DEF Placed
  <2>2. -cut \in Nat /\ z \in Seq(0 .. 9) /\ Len(z) = -cut /\ \A i \in 1 .. -cut : z[i] = 0
    BY <1>6, <1>8 DEF Zeros
  <2> HIDE DEF t, z
  <2>3. Len(z \o ds) = scale /\ z \o ds \in Seq(0 .. 9)
    <3>1. /\ z \o ds \in Seq(0 .. 9) /\ Len(z \o ds) = Len(z) + Len(ds)
      BY <1>4, <2>2, Joined
    <3> QED BY <1>6, <2>2, <3>1
  <2>4. /\ s \in Seq(0 .. 9) /\ Len(s) = k + n /\ k \in Nat
        /\ s[1] = 0
        /\ \A i \in 1 .. -cut : s[i + 1] = z[i]
        /\ \A i \in 1 .. Len(ds) : s[i + (1 - cut)] = ds[i]
    <3> DEFINE y == z \o ds
    <3>1. /\ Len(y) = scale /\ y \in Seq(0 .. 9)
          /\ \A i \in 1 .. -cut : y[i] = z[i]
          /\ \A i \in 1 .. Len(ds) : y[-cut + i] = ds[i]
      <4>1. ds \in Seq(0 .. 9) /\ z \in Seq(0 .. 9)
        BY <1>4, <2>2
      <4>2. /\ \A i \in 1 .. Len(z) : (z \o ds)[i] = z[i]
            /\ \A i \in 1 .. Len(ds) : (z \o ds)[Len(z) + i] = ds[i]
        BY <4>1, Joined
      <4> QED BY <2>2, <2>3, <4>2
    <3>2. <<0>> \in Seq(0 .. 9) /\ Len(<<0>>) = 1 /\ <<0>>[1] = 0
      OBVIOUS
    <3> HIDE DEF y
    <3>3. /\ <<0>> \o y \in Seq(0 .. 9) /\ Len(<<0>> \o y) = 1 + scale
          /\ (<<0>> \o y)[1] = 0
          /\ \A i \in 1 .. scale : (<<0>> \o y)[1 + i] = y[i]
      BY <3>1, <3>2, Joined
    <3>4. s = <<0>> \o y
      BY DEF y
    <3> HIDE DEF s
    <3>5. ASSUME NEW i \in 1 .. -cut PROVE s[i + 1] = z[i]
      <4>1. i \in 1 .. scale /\ i + 1 = 1 + i
        BY <1>4, <1>6, <2>2
      <4> QED BY <3>1, <3>3, <3>4, <4>1
    <3>6. ASSUME NEW i \in 1 .. Len(ds) PROVE s[i + (1 - cut)] = ds[i]
      <4>1. -cut + i \in 1 .. scale /\ i + (1 - cut) = 1 + (-cut + i)
        BY <1>6, <2>2
      <4> QED BY <3>1, <3>3, <3>4, <4>1
    <3>7. 1 + scale = k + n /\ k \in Nat
      BY <1>1, <1>4, <1>6, <2>2
    <3> QED BY <3>3, <3>4, <3>5, <3>6, <3>7
  <2>5. ASSUME NEW i \in 1 .. k PROVE s[i] = 0
    <3>1. CASE i = 1
      BY <2>4, <3>1
    <3>2. CASE i \in 2 .. 1 - cut
      <4>1. i - 1 \in 1 .. -cut /\ (i - 1) + 1 = i
        BY <1>6, <3>2
      <4>2. s[(i - 1) + 1] = z[i - 1] /\ z[i - 1] = 0
        BY <2>2, <2>4, <4>1
      <4> QED BY <4>1, <4>2
    <3>3. CASE i > 1 - cut
      <4>1. i = 1 + (1 - cut) /\ k0 = 1
        BY <1>6, <2>2, <3>3
      <4>2. 1 \in 1 .. Len(ds) /\ 1 \in 1 .. k0
        BY <1>4, <1>6, <4>1
      <4> HIDE DEF s, k, k0
      <4>3. s[1 + (1 - cut)] = ds[1] /\ ds[1] = 0
        BY <1>4, <2>4, <4>2
      <4> QED BY <4>1, <4>3
    <3>4. i = 1 \/ i \in 2 .. 1 - cut \/ i > 1 - cut
      BY <1>6, <2>4
    <3> QED BY <3>1, <3>2, <3>3, <3>4
  <2>6. ASSUME NEW i \in 1 .. n PROVE s[i + k] = r[i]
    <3>1. i + k0 \in 1 .. Len(ds) /\ i + k = (i + k0) + (1 - cut)
      BY <1>1, <1>4, <1>6
    <3>2. s[(i + k0) + (1 - cut)] = ds[i + k0] /\ ds[i + k0] = r[i]
      BY <1>4, <2>4, <3>1
    <3> QED BY <3>1, <3>2
  <2> HIDE DEF s, k
  <2>7. Numeral(s) = built
    BY <2>4, <2>5, <2>6, <1>7
  <2> QED BY <2>1, <2>3, <2>7 DEF t, s, ds
<1>9. CASE ~(scale > 0 /\ cut <= 0)
  <2>1. cut \in 1 .. Len(ds)
    BY <1>4, <1>6, <1>9
  <2>2. t.whole = SubSeq(ds, 1, cut) /\ t.fraction = SubSeq(ds, cut + 1, Len(ds))
    BY <1>9 DEF Placed
  <2> HIDE DEF t
  <2>3. ds \in Seq(0 .. 9)
    BY <1>4
  <2>4. /\ Len(t.whole) = cut /\ t.whole[1] = ds[1]
        /\ Len(t.fraction) = Len(ds) - cut
        /\ t.whole \o t.fraction = ds
    <3> HIDE DEF cut
    <3>1. /\ Len(SubSeq(ds, 1, cut)) = cut /\ SubSeq(ds, 1, cut)[1] = ds[1]
          /\ Len(SubSeq(ds, cut + 1, Len(ds))) = Len(ds) - cut
          /\ SubSeq(ds, 1, cut) \o SubSeq(ds, cut + 1, Len(ds)) = ds
      BY <2>1, <2>3, CutInTwo
    <3> QED BY <2>2, <3>1
  <2>5. Numeral(ds) = built
    BY <1>4, <1>6, <1>7
  <2>6. Len(ds) - cut = scale /\ cut \in Nat /\ (cut > 1 => Len(ds) > 1)
    BY <1>6, <2>1
  <2>7. /\ Numeral(t.whole \o t.fraction) = built
        /\ Len(t.fraction) = scale
        /\ Len(t.whole) >= 1
        /\ Len(t.whole) > 1 => t.whole[1] # 0
    <3> HIDE DEF cut
    <3>1. Len(t.whole) > 1 => t.whole[1] # 0
      BY <1>5, <2>4, <2>6
    <3>2. Len(t.whole) >= 1
      BY <2>1, <2>4
    <3> QED BY <2>4, <2>5, <2>6, <3>1, <3>2
  <2> QED BY <2>7 DEF t, ds
<1> QED BY <1>6, <1>8, <1>9

(* The text for every width, every pair of halves and every scale: it      *)
(* reads as the integer, however many digits it takes.                     *)
THEOREM TextIsRight == Spec => []TextIsTheNumber
<1> DEFINE Inv == IInv /\ DigitsRead /\ LeadDigit /\ TextIsTheNumber
<1>1. Init => Inv
  <2> SUFFICES ASSUME Init PROVE Inv
    OBVIOUS
  <2>1. digits = <<>> /\ place = 1 /\ built = 0 /\ text = Unprinted
    BY DEF Init
  <2>2. DigitsRead
    <3>1. Len(Reversed(digits)) = 0 /\ Len(digits) = 0
      BY <2>1 DEF Reversed
    <3> QED BY <2>1, <3>1 DEF DigitsRead, Run
  <2> QED BY <2>1, <2>2, InitIInv DEF LeadDigit, TextIsTheNumber
<1>2. Inv /\ [Next]_vars => Inv'
  <2> SUFFICES ASSUME Inv, [Next]_vars PROVE Inv'
    OBVIOUS
  <2>1. IInv'
    BY StepIInv
  <2>2. CASE Divide
    <3>1. dec' = dec /\ text' = text
      BY <2>2 DEF Divide
    <3> QED BY <2>1, <2>2, <3>1, DigitsReadKept DEF TextIsTheNumber, Value, Abs
  <2>3. ASSUME NEW scale \in Scales, to_string(scale) PROVE Inv'
    <3>1. /\ high = 0 /\ low = 0
          /\ text' = [minus |-> dec.hi < 0, whole |-> Placed(Turned, scale).whole,
                      fraction |-> Placed(Turned, scale).fraction, scale |-> scale]
          /\ UNCHANGED <<dec, high, low, digits, place, built>>
      BY <2>3 DEF to_string
    <3>2. DigitsRead' /\ LeadDigit'
      BY <3>1 DEF DigitsRead, LeadDigit
    <3>3. scale \in Nat
      BY ScalesAssumption
    <3> DEFINE t == Placed(Turned, scale)
    <3>4. /\ Numeral(t.whole \o t.fraction) = built
          /\ Len(t.fraction) = scale
          /\ Len(t.whole) >= 1
          /\ Len(t.whole) > 1 => t.whole[1] # 0
      BY <3>1, <3>3, TextRight
    <3>5. built = Abs(Value(dec.hi, dec.lo))
      <4>1. Value(0, 0) = 0
        BY Widths DEF Value
      <4> QED BY <3>1, <4>1 DEF IInv, TypeOK, DivisionIsExact
    <3>6. dec.hi < 0 <=> Value(dec.hi, dec.lo) < 0
      <4> DEFINE hi == dec.hi
                 lo == dec.lo
      <4>1. hi \in Int /\ lo \in Int /\ 0 <= lo /\ lo < Full
        BY Widths DEF IInv, TypeOK, SignedWord, Word
      <4> HIDE DEF hi, lo
      <4>2. hi >= 0 => hi * Full >= 0
        BY <4>1, HighHalf, Widths
      <4>3. hi < 0 => hi * Full <= -Full
        BY <4>1, HighHalf, Widths
      <4>4. hi * Full \in Int /\ Full \in Nat
        BY <4>1, HighHalf, Widths
      <4>5. hi < 0 <=> hi * Full + lo < 0
        BY <4>1, <4>2, <4>3, <4>4
      <4> QED BY <4>5 DEF Value, hi, lo
    <3> HIDE DEF t
    <3>7. TextIsTheNumber'
      <4>1. /\ text'.minus = (dec.hi < 0) /\ text'.scale = scale
            /\ text'.whole = t.whole /\ text'.fraction = t.fraction /\ dec' = dec
        BY <3>1 DEF t
      <4>2. Value(dec.hi, dec.lo)' = Value(dec.hi, dec.lo)
        BY <4>1 DEF Value
      <4>3. Numeral(text.whole \o text.fraction)' = Numeral(t.whole \o t.fraction)
        BY <4>1 DEF Numeral
      <4> QED BY <3>4, <3>5, <3>6, <4>1, <4>2, <4>3 DEF TextIsTheNumber, Abs
    <3> QED BY <2>1, <3>2, <3>7
  <2>4. CASE UNCHANGED vars
    BY <2>1, <2>4 DEF vars, DigitsRead, LeadDigit, TextIsTheNumber, Value, Abs
  <2> QED BY <2>2, <2>3, <2>4 DEF Next
<1> QED BY <1>1, <1>2, PTL DEF Spec

------------------------------------------------------------------------------

(* A cast of what the type can hold keeps the value. *)
LEMMA CastKeeps ==
  ASSUME NEW lo \in Int, NEW hi \in Int, NEW n \in Int, lo <= n, n <= hi
  PROVE  lo + ((n - lo) % (hi - lo + 1)) = n
<1> DEFINE a == n - lo
           b == hi - lo + 1
<1>1. a \in Int /\ b \in Int /\ 0 <= a /\ a < b /\ b > 0
  OBVIOUS
<1> HIDE DEF a, b
<1>2. a % b = a
  BY <1>1, Z3
<1> QED BY <1>2 DEF a, b

Holdable(T) == T.lo >= -Limit /\ T.hi < Limit

(* Whatever passes the two comparisons is answered as it is, never wrapped. *)
LEMMA PlainRead ==
  ASSUME NEW T \in Types, NEW c \in Cells
  PROVE  /\ get(T, c) \in {Raised, Answer(c.v)}
         /\ get(T, c) = Answer(c.v) => c.kind = "integer" /\ Fits(T, c.v)
<1> USE DEF get, as, Answer, Raised, Fits, Cast, ToInt64
<1>1. c.kind # "integer" => get(T, c) = Raised
  OBVIOUS
<1>2. CASE c.kind = "integer" /\ ToInt64(T.lo) <= c.v /\ c.v <= ToInt64(T.hi)
  <2>1. c.v \in Int /\ T.lo \in Int /\ T.hi \in Int /\ -Limit <= c.v /\ c.v < Limit
    BY <1>2, LimitAssumption, TypesAssumption DEF Cells, Int64, NullCell, Cell
  <2>2. T.lo <= c.v /\ c.v <= T.hi
    <3> USE <1>2, <2>1, LimitAssumption
    <3>1. CASE T.lo >= -Limit /\ T.hi < Limit /\ T.lo <= T.hi
      <4>1. ToInt64(T.lo) = T.lo /\ ToInt64(T.hi) = T.hi
        BY <3>1
      <4> QED BY <4>1
    <3>2. CASE T.lo = 0 /\ T.hi < 2 * Limit /\ T.hi >= Limit
      <4>1. ToInt64(T.lo) = 0 /\ ToInt64(T.hi) < 0
        BY <3>2
      <4> QED BY <4>1
    <3>3. T.lo <= T.hi /\ (T.lo >= -Limit \/ T.lo = 0) /\ T.hi < 2 * Limit
      BY TypesAssumption
    <3> QED BY <3>1, <3>2, <3>3, TypesAssumption
  <2>3. Cast(T, c.v) = c.v
    BY <2>1, <2>2, CastKeeps
  <2>4. get(T, c) = Answer(Cast(T, c.v))
    BY <1>2
  <2> QED BY <1>2, <2>2, <2>3, <2>4
<1>3. CASE c.kind = "integer" /\ ~(ToInt64(T.lo) <= c.v /\ c.v <= ToInt64(T.hi))
  <2>1. get(T, c) = Raised
    BY <1>3
  <2> QED BY <2>1
<1> QED BY <1>1, <1>2, <1>3

LEMMA InitTyped == ReadInit => cell \in Cells /\ got = Raised /\ asked = None
  BY DEF ReadInit

(* A read answers the cell, nothing, or raises. *)
LEMMA OtherRead ==
  ASSUME NEW kind \in Kinds, NEW c \in Cells
  PROVE  /\ as(kind, c) \in {Raised, Answer(c.v)}
         /\ as(kind, c) = Answer(c.v) => c.kind = kind
  BY DEF as, Raised, Answer

(* The three outcomes are told apart. *)
LEMMA Outcomes ==
  /\ Raised.how = "raised" /\ Nothing.how = "nothing"
  /\ \A v : Answer(v).how = "value" /\ Answer(v).v = v
  /\ Raised # Nothing /\ \A v : Answer(v) # Nothing
<1>1. /\ Raised.how = "raised" /\ Nothing.how = "nothing"
      /\ \A v : Answer(v).how = "value" /\ Answer(v).v = v
  BY DEF Raised, Nothing, Answer
<1> QED BY <1>1

(* A question is never the absence of one: none asks for the kind "none"   *)
(* unless the program does, and that one is never optional.                *)
LEMMA Questions ==
  ASSUME NEW kind, NEW T, NEW optional \in BOOLEAN
  PROVE  LET q == Question(kind, T, optional) IN
         /\ q.kind = kind /\ q.type = T /\ q.optional = optional
         /\ optional => q # None
<1>1. LET q == Question(kind, T, optional) IN q.kind = kind /\ q.type = T /\ q.optional = optional
  BY DEF Question
<1>2. None.optional = FALSE
  BY DEF None, Question
<1> QED BY <1>1, <1>2

(* No read of any integral type ever answers a wrapped value, and no read  *)
(* takes a null, or a cell of another kind, for a value.                   *)
THEOREM ReadsNeverWrap == ReadSpec => []NeverWraps
<1> DEFINE Inv == cell \in Cells /\ NeverWraps
<1>1. ReadInit => Inv
  BY InitTyped, Outcomes DEF NeverWraps
<1>2. Inv /\ [ReadNext]_readVars => Inv'
  <2> SUFFICES ASSUME Inv, [ReadNext]_readVars PROVE Inv'
    OBVIOUS
  <2>1. ASSUME NEW kind, NEW T, NEW r, NEW optional \in BOOLEAN,
               asked' = Question(kind, T, optional), UNCHANGED cell,
               got' = IF optional THEN OrNothing(cell, r) ELSE r,
               r \in {Raised, Answer(cell.v)},
               r = Answer(cell.v) => cell.kind = kind /\ (kind = "integer" => Fits(T, cell.v)),
               cell.kind = "null" => r = Raised
        PROVE  Inv'
    <3>1. cell.kind = "null" /\ optional => got' = Nothing
      BY <2>1 DEF OrNothing
    <3>2. ~(cell.kind = "null" /\ optional) => got' = r
      BY <2>1 DEF OrNothing
    <3>3. /\ asked'.kind = kind /\ asked'.type = T /\ asked'.optional = optional
          /\ optional => asked' # None
      BY <2>1, Questions
    <3>4. (got' = Nothing) <=> (asked' # None /\ cell.kind = "null" /\ asked'.optional)
      BY <2>1, <3>1, <3>2, <3>3, Outcomes
    <3>5. got'.how = "value" =>
              cell.kind = kind /\ got'.v = cell.v /\ (kind = "integer" => Fits(T, cell.v))
      BY <2>1, <3>1, <3>2, Outcomes
    <3> QED BY <2>1, <3>3, <3>4, <3>5 DEF NeverWraps
  <2>2. ASSUME NEW T \in Types, NEW optional \in BOOLEAN, Read(T, optional) PROVE Inv'
    <3>1. cell.kind = "null" => get(T, cell) = Raised
      BY DEF get, as, Raised
    <3> QED BY <2>2, <3>1, <2>1, PlainRead DEF Read
  <2>3. ASSUME NEW kind \in Kinds, NEW optional \in BOOLEAN, ReadAs(kind, optional) PROVE Inv'
    <3>1. kind # "integer" /\ kind # "null"
      BY KindsAssumption
    <3>2. cell.kind = "null" => as(kind, cell) = Raised
      BY <3>1 DEF as
    <3> QED BY <2>3, <3>1, <3>2, <2>1, OtherRead DEF ReadAs
  <2>4. CASE Fetch
    <3>1. cell' \in Cells /\ asked' = None /\ got' = Raised
      BY <2>4 DEF Fetch
    <3> QED BY <3>1, Outcomes DEF NeverWraps
  <2>5. CASE UNCHANGED readVars
    BY <2>5 DEF readVars, NeverWraps
  <2> QED BY <2>2, <2>3, <2>4, <2>5 DEF ReadNext, Reading
<1> QED BY <1>1, <1>2, PTL DEF ReadSpec

(* When no type asked for is an unsigned one of the full width, every      *)
(* value its type can hold is answered.                                    *)
THEOREM HoldableIsAnswered ==
  ASSUME \A T \in Types : Holdable(T)
  PROVE  ReadSpec => []FitsIsAnswered
<1> DEFINE Inv == cell \in Cells /\ FitsIsAnswered
<1>1. ASSUME NEW T \in Types, NEW c \in Cells, c.kind = "integer", Fits(T, c.v)
      PROVE  get(T, c) = Answer(c.v)
  <2>1. ToInt64(T.lo) = T.lo /\ ToInt64(T.hi) = T.hi
    BY LimitAssumption, TypesAssumption, <1>1 DEF Holdable, ToInt64, Fits
  <2>2. c.v \in Int /\ T.lo \in Int /\ T.hi \in Int
    BY <1>1, LimitAssumption, TypesAssumption, KindsAssumption DEF Cells, Int64, NullCell, Cell
  <2>3. Cast(T, c.v) = c.v
    BY <1>1, <2>2, CastKeeps DEF Cast, Fits
  <2> QED BY <1>1, <2>1, <2>3 DEF get, as, Answer, Raised, Fits
<1>2. ReadInit => Inv
  BY InitTyped DEF FitsIsAnswered
<1>3. Inv /\ [ReadNext]_readVars => Inv'
  <2> SUFFICES ASSUME Inv, [ReadNext]_readVars PROVE Inv'
    OBVIOUS
  <2>1. ASSUME NEW T \in Types, NEW optional \in BOOLEAN, Read(T, optional) PROVE Inv'
    <3>1. cell.kind = "integer" /\ Fits(T, cell.v) => got' = Answer(cell.v)
      BY <2>1, <1>1 DEF Read, OrNothing
    <3> QED BY <2>1, <3>1 DEF Read, FitsIsAnswered, Question
  <2>2. ASSUME NEW kind \in Kinds, NEW optional \in BOOLEAN, ReadAs(kind, optional) PROVE Inv'
    BY <2>2, KindsAssumption DEF ReadAs, as, OrNothing, FitsIsAnswered, Question
  <2>3. CASE Fetch
    BY <2>3 DEF Fetch, FitsIsAnswered
  <2>4. CASE UNCHANGED readVars
    BY <2>4 DEF readVars, FitsIsAnswered
  <2> QED BY <2>1, <2>2, <2>3, <2>4 DEF ReadNext, Reading
<1> QED BY <1>2, <1>3, PTL DEF ReadSpec

(* The cast of the upper limit of an unsigned type of the full width is    *)
(* -1, no value passes both comparisons, and every read of such a type is  *)
(* raised: uint64_t cannot be read at all.                                 *)
THEOREM FullWidthUnsignedIsNeverAnswered ==
  ASSUME NEW T \in Types, T.lo = 0, T.hi = 2 * Limit - 1, NEW c \in Cells
  PROVE  get(T, c) = Raised
<1>1. ToInt64(T.lo) = 0 /\ ToInt64(T.hi) = -1
  BY LimitAssumption DEF ToInt64
<1>2. c.v \in Int
  BY LimitAssumption DEF Cells, Int64, NullCell, Cell
<1> QED BY <1>1, <1>2 DEF get, as, Answer, Raised

------------------------------------------------------------------------------
(* The parameters.  What the engine holds for a name, or the cursor finds, *)
(* is what the program meant, but for a pointer through try_bind.          *)
KeptFor(m, c) == (m.spelling = "try_bind" /\ m.given.host \in Pointers) \/ c = Meaning(m.given)

BindingsKept ==
    /\ cell \in Cells
    /\ bound \in [Names -> Cells \cup {Unbound}]
    /\ DOMAIN meant = Names
    /\ \A n \in Names : bound[n] # Unbound => KeptFor(meant[n], bound[n])
    /\ sought # NotGiven => KeptFor(sought, cell)

(* Ranks are numbers, an exact one is the least, and the last is no way.   *)
LEMMA RankedFrom ==
  ASSUME NEW host, NEW p
  PROVE  /\ Rank(host, p) \in 0 .. 4
         /\ host = p => Rank(host, p) = 0
<1>1. Rank(host, p) \in {0, 1, 2, 3, 4}
  BY Zenon DEF Rank
<1>2. host = p => Rank(host, p) = 0
  BY Zenon DEF Rank
<1>3. {0, 1, 2, 3, 4} \subseteq 0 .. 4
  OBVIOUS
<1> QED BY <1>1, <1>2, <1>3, Zenon

LEMMA BestIsBetter ==
  ASSUME NEW spelling \in {"bind", "try_bind"}, NEW host \in Hosts,
         NEW p \in Best[spelling][host]
  PROVE  /\ p \in Overloads(spelling) /\ Rank(host, p) < 4
         /\ \A q \in Overloads(spelling) :
                Rank(host, q) < 4 /\ p # q => Rank(host, p) < Rank(host, q)
<1>1. Best[spelling][host] =
          LET viable == {k \in Overloads(spelling) : Rank(host, k) < 4}
          IN  {k \in viable : \A q \in viable : k # q => Rank(host, k) < Rank(host, q)}
  BY DEF Best
<1> QED BY <1>1, Zenon

(* The overload bind has for every argument. *)
LEMMA BestOfBind ==
  ASSUME NEW host \in Hosts, NEW p \in Best["bind"][host]
  PROVE  p = IF host = "no chars" THEN "chars" ELSE host
<1> DEFINE q == IF host = "no chars" THEN "chars" ELSE host
<1>1. q \in Overloads("bind")
  BY DEF Overloads, Impls, Hosts, Numbers, Pointers
<1>2. Rank(host, q) = 0
  BY DEF Rank
<1>3. Rank(host, p) \in 0 .. 4
  BY RankedFrom
<1> HIDE DEF q
<1>4. p # q => Rank(host, p) < Rank(host, q)
  <2>1. \A k \in Overloads("bind") : Rank(host, k) < 4 /\ p # k => Rank(host, p) < Rank(host, k)
    BY BestIsBetter
  <2>2. Rank(host, q) < 4
    BY <1>2
  <2> QED BY <1>1, <2>1, <2>2, Zenon
<1>5. p = q
  <2>1. ~(Rank(host, p) < Rank(host, q))
    BY <1>2, <1>3
  <2> QED BY <1>4, <2>1, Zenon
<1> QED BY <1>5 DEF q

(* try_bind has one for a pointer, and the exact one for everything else   *)
(* it takes: an int goes to three of them, and to none better than to the  *)
(* others.                                                                 *)
LEMMA BestOfTryBind ==
  ASSUME NEW host \in Hosts, NEW p \in Best["try_bind"][host], host \notin Pointers
  PROVE  p = host
<1>1. p \in Impls /\ Rank(host, p) < 4
  BY BestIsBetter DEF Overloads
<1>2. CASE host \in Impls
  <2>1. p # host => Rank(host, p) < Rank(host, host)
    BY <1>2, BestIsBetter, RankedFrom DEF Overloads
  <2>2. Rank(host, p) \in 0 .. 4 /\ Rank(host, host) = 0
    BY RankedFrom
  <2> QED BY <2>1, <2>2
<1>3. CASE host = "int"
  <2>1. Rank("int", "int64") = 2 /\ Rank("int", "double") = 2 /\ Rank("int", "bool") = 2
    BY DEF Rank, Numbers, Pointers
  <2>2. p \in {"int64", "double", "bool"}
    BY <1>1, <1>3 DEF Rank, Impls, Numbers, Pointers
  <2>3. {"int64", "double", "bool"} \subseteq Overloads("try_bind")
    BY DEF Overloads, Impls
  <2> QED BY <1>3, <2>1, <2>2, <2>3, BestIsBetter
<1>4. CASE host = "nullptr"
  BY <1>1, <1>4 DEF Rank, Impls, Numbers, Pointers
<1> QED BY <1>2, <1>3, <1>4 DEF Hosts, Numbers, Pointers, Impls

(* The kind bound by the exact overload is the one meant. *)
LEMMA KindMeant ==
  ASSUME NEW g,
         g.host \in {"int64", "int", "double", "bool", "view", "chars", "Temporal"}
  PROVE  Meaning(g) = Cell(bind_impl[g.host], g.v)
<1>1. g.host = "int64" \/ g.host = "int" => Meaning(g) = Cell("integer", g.v)
  BY DEF Meaning
<1>2. g.host = "double" => Meaning(g) = Cell("floating", g.v)
  BY DEF Meaning
<1>3. g.host = "bool" => Meaning(g) = Cell("boolean", g.v)
  BY DEF Meaning
<1>4. g.host = "view" \/ g.host = "chars" => Meaning(g) = Cell("string", g.v)
  BY DEF Meaning
<1>5. g.host = "Temporal" => Meaning(g) = Cell("temporal", g.v)
  BY DEF Meaning
<1>6. /\ bind_impl["int64"] = "integer" /\ bind_impl["int"] = "integer"
      /\ bind_impl["double"] = "floating" /\ bind_impl["bool"] = "boolean"
      /\ bind_impl["view"] = "string" /\ bind_impl["chars"] = "string"
      /\ bind_impl["Temporal"] = "temporal"
  BY DEF bind_impl
<1> QED BY <1>1, <1>2, <1>3, <1>4, <1>5, <1>6, Zenon

(* What a call of bind or try_bind leaves is a cell, and the one meant.    *)
LEMMA BoundAsMeant ==
  ASSUME NEW g \in Given, NEW spelling \in {"bind", "try_bind"}, NEW p \in Best[spelling][g.host]
  PROVE  LET c == Cell(bind_impl[p], Converted(g, p)) IN
         /\ c \in Cells
         /\ KeptFor([spelling |-> spelling, given |-> g], c)
<1> DEFINE c == Cell(bind_impl[p], Converted(g, p))
           pointed == spelling = "try_bind" /\ g.host \in Pointers
<1>1. g.host \in Hosts /\ g.v \in {0, 1} /\ g.v \in Int64 /\ 0 \in Int64
  BY GivenAssumption, LimitAssumption DEF Int64
<1>2. {"floating", "boolean", "string", "temporal"} \subseteq Kinds
  BY GivenAssumption
<1>3. CASE ~pointed
  <2>1. p = IF g.host = "no chars" THEN "chars" ELSE g.host
    <3>1. CASE spelling = "bind"
      BY <1>1, <3>1, BestOfBind
    <3>2. CASE spelling = "try_bind"
      <4>1. g.host \notin Pointers /\ g.host # "no chars"
        BY <1>3, <3>2 DEF Pointers
      <4> QED BY <1>1, <3>2, <4>1, BestOfTryBind
    <3> QED BY <3>1, <3>2
  <2>2. g.host \in {"int64", "int", "double", "bool", "view", "chars", "no chars", "Temporal", "nullptr"}
    BY <1>1 DEF Hosts, Numbers, Pointers
  <2>3. c = Meaning(g)
    <3>1. CASE g.host \in {"int64", "int", "double", "bool", "view", "chars", "Temporal"}
      <4>1. p = g.host /\ Converted(g, p) = g.v
        BY <2>1, <3>1 DEF Converted, Pointers
      <4> QED BY <3>1, <4>1, KindMeant
    <3>2. CASE g.host = "no chars"
      <4>1. p = "chars" /\ Converted(g, p) = 0
        BY <2>1, <3>2 DEF Converted, Pointers
      <4> QED BY <3>2, <4>1 DEF bind_impl, Meaning
    <3>3. CASE g.host = "nullptr"
      <4>1. p = "nullptr" /\ Converted(g, p) = 0
        BY <2>1, <3>3 DEF Converted, Pointers
      <4> QED BY <3>3, <4>1 DEF bind_impl, Meaning, NullCell
    <3> QED BY <2>2, <3>1, <3>2, <3>3
  <2>4. Meaning(g) \in Cells
    BY <1>1, <1>2, <2>2 DEF Meaning, Cells, Cell, NullCell
  <2> QED BY <2>3, <2>4 DEF KeptFor
<1>4. CASE pointed
  <2>1. p \in Impls
    BY <1>1, <1>4, BestIsBetter DEF Overloads
  <2>2. Converted(g, p) \in {0, 1} /\ (Converted(g, p) \in Int64 \/ p = "bool")
    BY <1>1 DEF Converted
  <2>3. c \in Cells
    BY <1>2, <2>1, <2>2 DEF bind_impl, Impls, Cells, Cell
  <2> QED BY <1>4, <2>3 DEF KeptFor
<1> QED BY <1>3, <1>4

LEMMA BindingsInit == ValuesInit => BindingsKept
  BY InitTyped DEF ValuesInit, ParametersInit, ReadInit, BindingsKept

LEMMA BindingsStep == BindingsKept /\ [ValuesNext]_valuesVars => BindingsKept'
<1> SUFFICES ASSUME BindingsKept, [ValuesNext]_valuesVars PROVE BindingsKept'
  OBVIOUS
<1> USE DEF BindingsKept
<1>1. ASSUME UNCHANGED cell, UNCHANGED parameterVars PROVE BindingsKept'
  BY <1>1 DEF parameterVars
<1>2. CASE ParametersNext
  <2>1. ASSUME NEW n \in Names, NEW g \in Given, NEW spelling \in {"bind", "try_bind"},
               bind(n, spelling, g)
        PROVE  BindingsKept'
    <3>1. PICK p \in Best[spelling][g.host] :
              /\ bound' = [bound EXCEPT ![n] = Cell(bind_impl[p], Converted(g, p))]
              /\ meant' = [meant EXCEPT ![n] = [spelling |-> spelling, given |-> g]]
              /\ UNCHANGED <<sought, readVars>>
      BY <2>1 DEF bind
    <3> DEFINE c == Cell(bind_impl[p], Converted(g, p))
               m == [spelling |-> spelling, given |-> g]
    <3>2. c \in Cells /\ KeptFor(m, c)
      BY BoundAsMeant
    <3>3. bound' = [bound EXCEPT ![n] = c] /\ meant' = [meant EXCEPT ![n] = m]
      BY <3>1
    <3> HIDE DEF c, m
    <3>4. \A k \in Names : bound'[k] # Unbound => KeptFor(meant'[k], bound'[k])
      <4> SUFFICES ASSUME NEW k \in Names, bound'[k] # Unbound
                   PROVE  KeptFor(meant'[k], bound'[k])
        OBVIOUS
      <4>1. CASE k = n
        BY <3>2, <3>3, <4>1
      <4>2. CASE k # n
        <5>1. bound'[k] = bound[k] /\ meant'[k] = meant[k]
          BY <3>3, <4>2
        <5> QED BY <5>1
      <4> QED BY <4>1, <4>2
    <3>5. bound' \in [Names -> Cells \cup {Unbound}] /\ DOMAIN meant' = Names
      BY <3>2, <3>3
    <3>6. cell' = cell /\ sought' = sought
      BY <3>1 DEF readVars
    <3> QED BY <3>4, <3>5, <3>6
  <2>2. ASSUME NEW n \in Names, bind_null(n) PROVE BindingsKept'
    <3> DEFINE m == [spelling |-> "bind_null", given |-> [host |-> "nullptr", v |-> 0]]
    <3>1. bound' = [bound EXCEPT ![n] = NullCell] /\ meant' = [meant EXCEPT ![n] = m]
          /\ cell' = cell /\ sought' = sought
      BY <2>2 DEF bind_null, readVars
    <3>2. NullCell \in Cells /\ KeptFor(m, NullCell)
      BY DEF Cells, KeptFor, Meaning
    <3> HIDE DEF m
    <3>3. \A k \in Names : bound'[k] # Unbound => KeptFor(meant'[k], bound'[k])
      <4> SUFFICES ASSUME NEW k \in Names, bound'[k] # Unbound
                   PROVE  KeptFor(meant'[k], bound'[k])
        OBVIOUS
      <4>1. CASE k = n
        BY <3>1, <3>2, <4>1
      <4>2. CASE k # n
        <5>1. bound'[k] = bound[k] /\ meant'[k] = meant[k]
          BY <3>1, <4>2
        <5> QED BY <5>1
      <4> QED BY <4>1, <4>2
    <3>4. bound' \in [Names -> Cells \cup {Unbound}] /\ DOMAIN meant' = Names
      BY <3>1, <3>2
    <3> QED BY <3>1, <3>3, <3>4
  <2>3. ASSUME NEW n \in Names, execute(n) PROVE BindingsKept'
    <3>1. bound[n] # Unbound /\ cell' = bound[n] /\ sought' = meant[n]
          /\ bound' = bound /\ meant' = meant
      BY <2>3 DEF execute
    <3>2. bound[n] \in Cells /\ KeptFor(meant[n], bound[n])
      BY <3>1
    <3> QED BY <3>1, <3>2
  <2>4. CASE prepare
    BY <2>4 DEF prepare, readVars
  <2> QED BY <1>2, <2>1, <2>2, <2>3, <2>4 DEF ParametersNext
<1>3. CASE Reading /\ UNCHANGED parameterVars
  BY <1>1, <1>3 DEF Reading, Read, ReadAs
<1>4. CASE ReadAs("decimal", FALSE) /\ UNCHANGED parameterVars
  BY <1>1, <1>4 DEF ReadAs
<1>5. CASE UNCHANGED <<readVars, parameterVars>>
  BY <1>1, <1>5 DEF readVars
<1>6. CASE UNCHANGED valuesVars
  BY <1>1, <1>6 DEF valuesVars, readVars
<1> QED BY <1>2, <1>3, <1>4, <1>5, <1>6 DEF ValuesNext

LEMMA BindingsAlways == ValuesSpec => []BindingsKept
  BY BindingsInit, BindingsStep, PTL DEF ValuesSpec

(* A parameter crosses and comes back, for any names, any arguments of the *)
(* host types and any order of binds, executions and preparations: only a  *)
(* pointer through try_bind is not what the program meant.                 *)
THEOREM ParametersComeBack == ValuesSpec => []RoundTrip
<1>1. BindingsKept => RoundTrip
  BY DEF BindingsKept, KeptFor, RoundTrip, AsMeant
<1> QED BY <1>1, BindingsAlways, PTL

(* A program that binds and reads is one that reads: executing puts a cell *)
(* under the cursor, as any move of it does.                               *)
THEOREM ExecutesAreFetches == ValuesSpec => ReadSpec
<1>1. ValuesInit => ReadInit
  BY DEF ValuesInit, ParametersInit
<1>2. BindingsKept /\ [ValuesNext]_valuesVars => [ReadNext]_readVars
  <2> SUFFICES ASSUME BindingsKept, [ValuesNext]_valuesVars PROVE [ReadNext]_readVars
    OBVIOUS
  <2>1. CASE Reading
    BY <2>1 DEF ReadNext
  <2>2. CASE ParametersNext
    <3>1. ASSUME NEW n \in Names, execute(n) PROVE Fetch
      BY <3>1 DEF execute, Fetch, BindingsKept
    <3>2. ASSUME NEW n \in Names, NEW g \in Given, NEW spelling, bind(n, spelling, g)
          PROVE  UNCHANGED readVars
      BY <3>2 DEF bind
    <3>3. ASSUME NEW n \in Names, bind_null(n) PROVE UNCHANGED readVars
      BY <3>3 DEF bind_null
    <3>4. CASE prepare
      BY <3>4 DEF prepare
    <3> QED BY <2>2, <3>1, <3>2, <3>3, <3>4 DEF ParametersNext, ReadNext
  <2>3. CASE cell.kind = "decimal" /\ ReadAs("decimal", FALSE)
    <3>1. "decimal" \in Kinds
      BY <2>3 DEF BindingsKept, Cells, NullCell, Cell
    <3> QED BY <2>3, <3>1 DEF ReadNext, Reading
  <2>4. CASE UNCHANGED readVars
    BY <2>4
  <2>5. CASE UNCHANGED valuesVars
    BY <2>5 DEF valuesVars
  <2> QED BY <2>1, <2>2, <2>3, <2>4, <2>5 DEF ValuesNext
<1> QED BY <1>1, <1>2, BindingsAlways, PTL DEF ValuesSpec, ReadSpec

(* And one that prints.                                                    *)
THEOREM ValuesArePrinted == ValuesSpec => Spec
<1>1. ValuesInit => Init
  BY DEF ValuesInit
<1>2. [ValuesNext]_valuesVars => [Next]_vars
  BY DEF ValuesNext, valuesVars
<1> QED BY <1>1, <1>2, PTL DEF ValuesSpec, Spec

(* All that is said of a Decimal, a read and a parameter holds of a        *)
(* program that binds, reads and prints.                                   *)
THEOREM ValuesCross ==
  ASSUME \A T \in Types : Holdable(T)
  PROVE  ValuesSpec => []/\ TypeOK /\ DivisionIsExact /\ TextIsTheNumber /\ HalvesAgree
                         /\ NeverWraps /\ FitsIsAnswered /\ RoundTrip
<1>1. ReadSpec => []FitsIsAnswered
  BY HoldableIsAnswered
<1> QED BY <1>1, TypeCorrect, DigitsAreExact, TextIsRight, HalvesAreTheNumber, ReadsNeverWrap,
           ParametersComeBack, ExecutesAreFetches, ValuesArePrinted, PTL
==============================================================================
