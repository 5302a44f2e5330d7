-------------------------- MODULE IntegerToString --------------------------
(***************************************************************************)
(* util/integer_to_string.cc: integers to decimal digits, in the version   *)
(* for SSE2, which divides by multiplying with a reciprocal, and in the    *)
(* portable one, which looks pairs of digits up in a table.                *)
(*                                                                         *)
(* A 64-bit value is the record of its parts: high * 10^16 + mid * 10^8 +  *)
(* low, the parts the code divides it into.  A text is a sequence of       *)
(* digits, the sign being the element Minus.                               *)
(***************************************************************************)
EXTENDS Integers, Sequences, FiniteSetsExt, SequencesExt

Ten4 == 10000
Ten8 == 100000000

\* gDigitsLut: both digits of a number below 100
Pair(n) == <<n \div 10, n % 10>>

\* The four digits of b, through two pairs.
Four(b) == Pair(b \div 100) \o Pair(b % 100)
Eight(v) == Four(v \div Ten4) \o Four(v % Ten4)

\* The guards `if (value >= 10...0)` before each digit: the digits from the
\* first one that is not zero on, but always the last `least` ones.
WithoutZeros(digits, least) ==
    LET n == Len(digits)
        first == Min({i \in 1..n : digits[i] # 0 \/ i > n - least})
    IN  SubSeq(digits, first, n)

Below10000(v) == WithoutZeros(Four(v), 1)

\* value = bbbbcccc, at least 10000
Below10To8(v) ==
    LET b == v \div Ten4
        c == v % Ten4
    IN  WithoutZeros(Four(b), 1) \o Four(c)

-----------------------------------------------------------------------------
(* Convert8DigitsSSE2 *)

Half == 65536   \* registers of 16 bits
Limb == 8192    \* 2^13: products of limbs fit

\* x * y divided by 2^45, for x below 2^27 and y below 2^32 (as its limbs).
MulShift45(x, y) ==
    LET x0 == x % Limb
        x1 == (x \div Limb) % Limb
        x2 == x \div (Limb * Limb)
        t0 == (x0 * y[1]) \div Limb
        t1 == (x0 * y[2] + x1 * y[1] + t0) \div Limb
        t2 == (x0 * y[3] + x1 * y[2] + x2 * y[1] + t1) \div Limb
    IN  (t2 + x1 * y[3] + x2 * y[2] + x2 * y[3] * Limb) \div 64

\* 0xd1b71759, lowest limb first
kDiv10000 == <<5977, 3512, 52>>

\* _mm_mulhi_epu16
MulHi(x, y) == (x * y) \div Half

\* Slip: a reciprocal is rounded down.
kDivPowersDown == <<8389, 5242, 13108, 32768>>

kDivPowers == <<8389, 5243, 13108, 32768>>

kShiftPowers == <<128, 2048, 8192, 32768>>

\* Both halves of a register are worked on at a time; this is one of them.
\* v4 = [a, ab, abc, abcd], and every digit is what remains after ten times
\* the element before it.
FourSSE2(abcd) ==
    LET v2 == (abcd * 4) % Half
        v4 == [i \in 1..4 |-> MulHi(MulHi(v2, kDivPowers[i]), kShiftPowers[i])]
    IN  [i \in 1..4 |-> (v4[i] - (IF i = 1 THEN 0 ELSE (v4[i - 1] * 10) % Half)) % Half]

\* packus: 16 bits to 8, with saturation.
Packed8(digits) == [i \in DOMAIN digits |-> IF digits[i] > 255 THEN 255 ELSE digits[i]]

Convert8DigitsSSE2(value) ==
    LET abcd == MulShift45(value, kDiv10000)
        efgh == value - abcd * Ten4
    IN  Packed8(FourSSE2(abcd) \o FourSSE2(efgh))

\* The mask of zeros: the number of leading ones, at most 15.
CountZeros(digits) ==
    Min({i \in 0..(Len(digits) - 1) : digits[i + 1] # 0 \/ i = 15})

ShiftDigits(digits, n) == SubSeq(digits, n + 1, Len(digits))

-----------------------------------------------------------------------------
(* ToString for the unsigned types *)

\* a as one or two, or up to four, digits
UpTo42(a) == IF a >= 10 THEN Pair(a) ELSE <<a>>
UpTo1844(a) ==
    IF a < 10 THEN <<a>>
    ELSE IF a < 100 THEN Pair(a)
    ELSE IF a < 1000 THEN <<a \div 100>> \o Pair(a % 100)
    ELSE Pair(a \div 100) \o Pair(a % 100)

\* mid and low together, a 32-bit value being at most 42 * 10^8 + 10^8 - 1
U32Sse2(v) ==
    IF v.mid = 0 /\ v.low < Ten4 THEN Below10000(v.low)
    ELSE IF v.mid = 0 THEN Below10To8(v.low)
    ELSE UpTo42(v.mid) \o Convert8DigitsSSE2(v.low)

U32Branchlut(v) ==
    IF v.mid = 0 /\ v.low < Ten4 THEN Below10000(v.low)
    ELSE IF v.mid = 0 THEN Below10To8(v.low)
    ELSE UpTo42(v.mid) \o Eight(v.low)

U64Sse2(v) ==
    LET digits == Convert8DigitsSSE2(v.mid) \o Convert8DigitsSSE2(v.low)
    IN  IF v.high > 0 THEN UpTo1844(v.high) \o digits
        ELSE IF v.mid > 0 THEN ShiftDigits(digits, CountZeros(digits))
        ELSE IF v.low < Ten4 THEN Below10000(v.low)
        ELSE Below10To8(v.low)

U64Branchlut(v) ==
    IF v.high > 0 THEN UpTo1844(v.high) \o Eight(v.mid) \o Eight(v.low)
    ELSE IF v.mid > 0 THEN WithoutZeros(Eight(v.mid), 1) \o Eight(v.low)
    ELSE IF v.low < Ten4 THEN Below10000(v.low)
    ELSE Below10To8(v.low)

-----------------------------------------------------------------------------
(* Signed integers and pointers *)

Minus == -1

\* The negation is done on the unsigned type of w values, where it is defined
\* for the smallest integer too.
ToStringSigned(value, w) ==
    LET un == value % w
        Digits10(n) == U32Sse2([high |-> 0, mid |-> 0, low |-> n])
    IN  IF value < 0 THEN <<Minus>> \o Digits10((-un) % w) ELSE Digits10(un)

\* A pointer, given by its hexadecimal digits.
ToStringPointer(nibbles) ==
    IF \A i \in DOMAIN nibbles : nibbles[i] = 0 THEN <<0>>
    ELSE SubSeq(nibbles, Min({i \in DOMAIN nibbles : nibbles[i] # 0}), Len(nibbles))
=============================================================================
