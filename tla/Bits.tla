-------------------------------- MODULE Bits --------------------------------
(***************************************************************************)
(* The puzzles of src/datalab/bits.c, in words of W bits where the code    *)
(* has 32: shifts by 31 are by W - 1, bytes have W / 4 bits, and a float   *)
(* has Exp exponent bits (for 8) and Frac fraction bits (for 23).          *)
(*                                                                         *)
(* A word is the set of the positions of its one bits, so that & is an     *)
(* intersection, | a union, ~ a complement and a shift moves positions.    *)
(* An addition is made modulo 2^W, as the two's complement of the machine  *)
(* does it.                                                                *)
(***************************************************************************)
EXTENDS Integers, SequencesExt

CONSTANTS W, Exp, Frac      \* W is 4, 8, 16 or 32, and 1 + Exp + Frac

-----------------------------------------------------------------------------
Positions == 0 .. W - 1

Words == SUBSET Positions

Value == [x \in Words |-> MapThenSumSet(LAMBDA i : 2 ^ i, x)]

Word(n) == {i \in Positions : (n \div 2 ^ i) % 2 = 1}

Negative(x) == W - 1 \in x

Signed(x) == IF Negative(x) THEN Value[x] - 2 ^ W ELSE Value[x]

-----------------------------------------------------------------------------
(* The operators of C.                                                     *)
Not(x) == IF x = {} THEN {0} ELSE {}

Inv(x) == Positions \ x

Xor(x, y) == (x \cup y) \ (x \cap y)

Add(x, y) == Word(Value[x] + Value[y])

Neg(x) == Add(Inv(x), {0})

Shl(x, n) == {i + n : i \in x} \cap Positions

(* >> of an int repeats the sign.                                          *)
Shr(x, n) == ({i - n : i \in x} \cap Positions)
                \cup IF Negative(x) THEN W - n .. W - 1 ELSE {}

check == {W - 1}            \* 1 << 31

Ones == Positions           \* ~0

-----------------------------------------------------------------------------
Byte == W \div 4

evenBits == UNION {Shl({i \in 0 .. Byte - 1 : i % 2 = 0}, k * Byte) : k \in 0 .. 3}

isEqual(x, y) == Not(Xor(x, y))

byteSwap(x, n, m) ==
  LET temp1 == Shl(0 .. Byte - 1, n * Byte)
      temp2 == Shl(0 .. Byte - 1, m * Byte)
  IN  (Shl(Shr(temp1 \cap x, n * Byte), m * Byte) \cap temp2)
        \cup (Shl(Shr(temp2 \cap x, m * Byte), n * Byte) \cap temp1)
        \cup (Inv(temp1) \cap Inv(temp2) \cap x)

(* For n = 0 the left shift is by the width of an int, which may leave all *)
(* or none of the bits: a set of results.                                  *)
rotateRight(x, n) ==
  LET temp == Shl(Shr(Inv(check), n), 1) \cup {0}
  IN  {left \cup (Shr(x, n) \cap temp) :
         left \in IF n = 0 THEN {x, {}} ELSE {Shl(x, W - n)}}

logicalNeg(x) ==
  Shr(Add(x \cap Inv(check), Ones) \cap check, W - 1) \cap {0}
    \cap Add(Shr(x, W - 1), {0})

tmax == Inv(check)

sign(x) == Not(Not(x)) \cup Shr(x \cap check, W - 1)

(* first and second say that x and y are not negative.                     *)
isGreater_Equal(x, y) ==
  LET first  == Not(x \cap check)
      second == Not(y \cap check)
      basicCheck == Not(Add(x, Neg(y)) \cap check)
  IN  (basicCheck \cap Not(Not(first) \cap second)) \cup (first \cap Not(second))

isGreater(x, y) ==
  LET first  == Not(x \cap check)
      second == Not(y \cap check)
      basicCheck == Not(Add(Add(x, Neg(y)), Ones) \cap check)
  IN  (basicCheck \cap Not(Not(first) \cap second)) \cup (first \cap Not(second))

subOK(x, y) ==
  LET first  == Not(x \cap check)
      second == Not(y \cap check)
      basicCheck == Not(Add(x, Neg(y)) \cap check)
  IN  Not((basicCheck \cap Not(first) \cap second)
            \cup (first \cap Not(second) \cap Not(basicCheck)))

satAdd(x, y) ==
  LET sum    == Add(x, y)
      first  == Not(x \cap check)
      second == Not(y \cap check)
      basicCheck == Not(sum \cap check)
      pOverflow  == basicCheck \cup Not(first) \cup Not(second)
      nOverflow  == Not(first) \cap Not(second) \cap basicCheck
  IN  (Inv(check) \cap Add(Ones, pOverflow)) \cup Shl(nOverflow, W - 1)
        \cup (sum \cap Add(Ones, Not(pOverflow) \cup nOverflow))

-----------------------------------------------------------------------------
(* howManyBits: the magnitude, then one step of a binary search for its    *)
(* highest bit per power of two below W.                                   *)
Halve(w, k) ==
  LET tmp == Add(Ones, Not(Shr(w.x, k))) \cap Word(k)
  IN  [x |-> Shr(w.x, Value[tmp]), count |-> Add(w.count, tmp)]

Steps == SetToSortSeq({k \in 1 .. W \div 2 : W % k = 0}, >)

howManyBits(x) ==
  LET positive == Not(check \cap x)
      m == ((Add(Ones, positive) \cap Neg(x)) \cup (Add(Ones, Not(positive)) \cap x))
             \cap Inv(check)
      one == {0} \cap (Not(Not(m \cap Add(m, Ones))) \cup (positive \cap Not(Not(m))))
      least == Add(Ones, Not(Not(m) \cap Not(positive))) \cap Word(W - 1)
      found == FoldLeft(Halve, [x |-> m, count |-> Add(Add(one, Not(m)), least)], Steps)
  IN  Add(found.count, found.x \cap {0})

-----------------------------------------------------------------------------
Infinite == 2 ^ Exp - 1     \* the exponent of infinities and NaNs

Bias == 2 ^ (Exp - 1) - 1

Exponent(uf) == Value[Shr(uf, Frac) \cap (0 .. Exp - 1)]

Fraction(uf) == uf \cap (0 .. Frac - 1)

float_half(uf) ==
  LET e  == Exponent(uf)
      fs == uf \cap check
      n1 == uf \ check
      m1 == Shr(n1, 1)
  IN  IF e = Infinite THEN uf
      ELSE IF e <= 1 THEN Add(fs \cup m1, n1 \cap m1 \cap {0})
      ELSE fs \cup Shl(Word(e - 1), Frac) \cup Fraction(uf)

float_f2i(uf) ==
  LET e == Exponent(uf)
      power == IF e > 0 THEN e - Bias ELSE 1 - Bias
      m == Fraction(uf)
      shifted == IF power > Frac - 1 THEN Shl(m, power - Frac)
                                     ELSE Shr(m, Frac - power)
      exp == Add(shifted, Shl({0}, power))
  IN  IF e = Infinite \/ power > W - 2 THEN check
      ELSE IF power < 0 THEN {}
      ELSE IF uf \cap check # {} THEN Neg(exp) ELSE exp

-----------------------------------------------------------------------------
Bool(p) == IF p THEN {0} ELSE {}

InRange(n) == n \in -(2 ^ (W - 1)) .. 2 ^ (W - 1) - 1

ByteOf(x, k) == {i \in 0 .. Byte - 1 : i + k * Byte \in x}

Swapped(k, n, m) == IF k = n THEN m ELSE IF k = m THEN n ELSE k

(* What the comments above the puzzles say, for every word: of the bits a  *)
(* puzzle moves,                                                           *)
MovesRight(x) ==
  /\ \A n \in Positions : rotateRight(x, n) = {{(i - n) % W : i \in x}}
  /\ \A n, m, k \in 0 .. 3 :
        ByteOf(byteSwap(x, n, m), k) = ByteOf(x, Swapped(k, n, m))

(* of the numbers it computes, overflow included,                          *)
ComputesRight(x) ==
  LET a == Signed(x)
  IN  /\ evenBits = {i \in Positions : i % 2 = 0}
      /\ Signed(tmax) = 2 ^ (W - 1) - 1
      /\ logicalNeg(x) = Bool(x = {})
      /\ Signed(sign(x)) = IF a > 0 THEN 1 ELSE IF a = 0 THEN 0 ELSE -1
      /\ Value[howManyBits(x)] = CHOOSE n \in 1 .. W :
            /\ a \in -(2 ^ (n - 1)) .. 2 ^ (n - 1) - 1
            /\ n = 1 \/ a \notin -(2 ^ (n - 2)) .. 2 ^ (n - 2) - 1
      /\ \A y \in Words :
           LET c == Signed(y)
           IN  /\ isEqual(x, y) = Bool(a = c)
               /\ isGreater(x, y) = Bool(a > c)
               /\ subOK(x, y) = Bool(InRange(a - c))
               /\ Signed(satAdd(x, y)) =
                    IF InRange(a + c) THEN a + c
                    ELSE IF a > 0 THEN 2 ^ (W - 1) - 1 ELSE -(2 ^ (W - 1))

(* and of floats: halving rounds to the nearest, a tie to the even one;    *)
(* the conversion truncates, and what is out of range gives 1 << 31.       *)
(* Magnitude counts in units of the least denormal.                        *)
Magnitude(uf) ==
  IF Exponent(uf) = 0 THEN Value[Fraction(uf)]
  ELSE (2 ^ Frac + Value[Fraction(uf)]) * 2 ^ (Exponent(uf) - 1)

FloatsRight(uf) ==
  LET whole == Magnitude(uf) \div 2 ^ (Bias + Frac - 1)
      half  == Magnitude(float_half(uf))
      int   == IF Negative(uf) THEN -whole ELSE whole
  IN  IF Exponent(uf) = Infinite
      THEN float_half(uf) = uf /\ float_f2i(uf) = check
      ELSE /\ Negative(float_half(uf)) = Negative(uf)
           /\ \/ 2 * half = Magnitude(uf)
              \/ half % 2 = 0 /\ 2 * half - Magnitude(uf) \in {-1, 1}
           /\ Signed(float_f2i(uf)) = IF InRange(int) THEN int ELSE Signed(check)
=============================================================================
