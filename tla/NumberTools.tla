---------------------------- MODULE NumberTools ----------------------------
(***************************************************************************)
(* Bignums and the conversions of floating-point numbers, on the numbers   *)
(* of two small formats and on texts around the boundaries between them.   *)
(***************************************************************************)
EXTENDS DoubleConversion, ToolRun

CONSTANTS
    kBase10MaximalLength,   \* the most digits of a number (17)
    PrintStep,              \* bound: every so manyth double is written
    ParseStep,              \* bound: every so manyth boundary between doubles is read
    MaxSyntax               \* bound: characters of a text that need not be a number

-----------------------------------------------------------------------------
(* Bignums *)

BignumInputs ==
    [a : {0, 1, 3, 10, 255, 256, 257, 999, 46340, 65535, 65536, 99999, 1048575},
     b : {1, 2, 9, 10, 255, 256, 1000, 4095, 65535, 65536, 1000000},
     n : {0, 1, 2, 3, 7, 8, 9, 12}]

DecimalDigits(v) ==
    LET places == Max({n \in 1..10 : n = 1 \/ v >= 10^(n - 1)})
    IN  [i \in 1..places |-> (v \div 10^(places - i)) % 10]

PowerBase == (input.b % 2^kBigitSize) + 1

ComputeBignum ==
    LET a == AssignUInt64(input.a)
        b == AssignUInt64(input.b)
        large == MultiplyByPowerOfTen(AddUInt64(ShiftLeft(a, input.n), input.b), input.n)
    IN  Return("bignum",
            [a |-> a, b |-> b, sum |-> AddBignum(a, b), difference |-> SubtractBignum(AddBignum(a, b), b),
             shifted |-> ShiftLeft(a, input.n), times |-> MultiplyByUInt32(a, input.b % 2^kChunkSize),
             product |-> MultiplyByUInt64(a, input.b), square |-> Square(a),
             power |-> AssignPowerUInt16(PowerBase, input.n),
             nextPower |-> AssignPowerUInt16(PowerBase, input.n + 1),
             decimal |-> AssignDecimalString(DecimalDigits(input.a)),
             hex |-> AssignHexString(ToHexString(large)), large |-> large,
             plus |-> PlusCompare(a, b, large), compare |-> Compare(a, b),
             \* A caller's quotient is a digit.
             division |-> IF input.a \div input.b < 10 THEN DivideModuloIntBignum(a, b) ELSE <<>>])

ValueOf(x) == FoldRight(LAMBDA d, v : v * 2^kBigitSize + d, x.bigits, 0) * 2^(kBigitSize * x.exponent)
IsSmall(x) == BigitLength(x) * kBigitSize < 31
Equals(x, v) == IsClamped(x) /\ \A i \in DOMAIN x.bigits : x.bigits[i] < 2^kBigitSize
                /\ IsSmall(x) => ValueOf(x) = v
Sign(v) == IF v < 0 THEN -1 ELSE IF v > 0 THEN 1 ELSE 0
SameNumber(x, y) == IsClamped(x) /\ IsClamped(y) /\ Compare(x, y) = 0

\* Multiplied bit by bit, with shifts and sums only.
ProductOf(x, v) ==
    FoldLeft(LAMBDA y, n : IF (v \div 2^n) % 2 = 1 THEN AddBignum(y, ShiftLeft(x, n)) ELSE y,
             BigZero, [k \in 1..BitSize(v) |-> k - 1])

\* Bignums compute what integers compute: no carry or borrow is lost between
\* bigits, no word overflows, results have no zeros on top, and the remainder of
\* a small quotient is exact although the loop over the bigits above the
\* divisor's skips every other one.  PlusCompare and Compare order as the sums
\* do; beyond the integers of TLC products and powers are compared with
\* repeated sums and shifts, and hexadecimal digits are read back.
BignumExact ==
    Returned("bignum") =>
        LET a == input.a
            b == input.b
            r == result
        IN  /\ Equals(r.a, a) /\ Equals(r.b, b)
            /\ Equals(r.sum, a + b) /\ Equals(r.difference, a)
            /\ r.compare = Sign(a - b)
            /\ r.plus = Compare(r.sum, r.large)
            /\ Equals(r.decimal, a)
            /\ SameNumber(r.shifted, ProductOf(r.a, 2^input.n))
            /\ SameNumber(r.times, ProductOf(r.a, b % 2^kChunkSize))
            /\ SameNumber(r.product, ProductOf(r.a, b))
            /\ SameNumber(r.square, ProductOf(r.a, a))
            /\ SameNumber(r.nextPower, ProductOf(r.power, PowerBase))
            /\ input.n = 0 => Equals(r.power, 1)
            /\ SameNumber(r.large, ProductOf(ShiftLeft(AddBignum(r.shifted, r.b), input.n), 5^input.n))
            /\ SameNumber(r.hex, r.large)
            /\ a \div b < 10 => r.division.result = a \div b /\ Equals(r.division.rest, a % b)

-----------------------------------------------------------------------------
(* Decimal numbers as digits at every place, to compare them *)

IntegerPlaces == 6
FractionPlaces == 34
PlaceOf(exponent) == IntegerPlaces - exponent

Decimal(digits, exponent) ==
    [p \in 1..(PlaceOf(exponent) - Len(digits)) |-> 0] \o digits \o [p \in 1..(FractionPlaces + exponent) |-> 0]

FirstDifference(x, y) == Min({p \in DOMAIN x : x[p] # y[p]})
CompareDecimals(x, y) ==
    IF x = y THEN 0 ELSE Sign(x[FirstDifference(x, y)] - y[FirstDifference(x, y)])

\* h * 2^e, by long division
BinaryDecimal(h, e) ==
    LET unit == 2^Max({0, -e})
        integer == IF e >= 0 THEN h * 2^e ELSE h \div unit
        rests == FoldLeft(LAMBDA s, k : Append(s, (10 * Last(s)) % unit), <<h % unit>>, [k \in 1..FractionPlaces |-> k])
    IN  [p \in 1..IntegerPlaces |-> (integer \div 10^(IntegerPlaces - p)) % 10]
        \o [k \in 1..FractionPlaces |-> (10 * rests[k]) \div unit]

UpperDecimal(F, d) == BinaryDecimal(2 * Significand(F, d) + 1, Exponent(F, d) - 1)
OwnDecimal(F, d) == BinaryDecimal(Significand(F, d), Exponent(F, d))

\* d is the number nearest to x; of two equally near ones the one with an even
\* significand.
IsNearest(F, x, d) ==
    LET above == CompareDecimals(x, UpperDecimal(F, d))
        below == CompareDecimals(x, UpperDecimal(F, d - 1))
        even == Significand(F, d) % 2 = 0
    IN  /\ d < kInfinity(F) => above < 0 \/ (above = 0 /\ even)
        /\ d > 0 => below > 0 \/ (below = 0 /\ even)

Formats == {Double, Single}

\* All numbers of the smaller format; of the larger one some, among them those
\* next to a power of two.
Sample(F, step) ==
    {d \in 0..(kInfinity(F) - 1) : F = Single \/ d % step = 0 \/ Physical(F, d) \in {0, kHiddenBit(F) - 1}}

\* The digits of x without the zeros on either side, or up to an exponent.
FirstExponent(x) == IntegerPlaces - Min({p \in DOMAIN x : x[p] # 0})
LastExponent(x) == IntegerPlaces - Max({p \in DOMAIN x : x[p] # 0})
DigitsOf(x, last) == SubSeq(x, PlaceOf(FirstExponent(x)), PlaceOf(last))

-----------------------------------------------------------------------------
(* Writing *)

SpecialNumbers(F) == {kInfinity(F), kNaN(F)}

WriteInputs ==
    UNION {{[format |-> F, bits |-> d] :
              d \in {0, kSignMask(F), kSignMask(F) + 1, kSignMask(F) + kInfinity(F) - 1,
                     kSignMask(F) + kInfinity(F)} \cup SpecialNumbers(F)
                    \cup Sample(F, PrintStep)} : F \in Formats}

IsFinitePositive(F, d) == d \in 1..(kInfinity(F) - 1)

\* The digits that are written, the exact ones, and given numbers of digits.
DigitsWritten(F, d) ==
    [digits |-> DoubleToAscii(F, d), exact |-> BignumDtoa(F, d, 0),
     counted |-> [n \in 1..3 |-> BignumDtoa(F, d, n)], fastCounted |-> [n \in 1..3 |-> Grisu3Counted(F, d, n)]]

Written(F, d, text) ==
    [text |-> text, back |-> ParseNumber(F, text),
     of |-> IF IsFinitePositive(F, d) THEN DigitsWritten(F, d) ELSE <<>>]

WriteNumber == Return("write", Written(input.format, input.bits, ToShortestIeeeNumber(input.format, input.bits)))

\* A number with so many digits, its last at place e, next to x: rounded down,
\* and one more.
Below10(x, e) == FoldLeft(LAMBDA v, d : 10 * v + d, 0, DigitsOf(x, e))
Candidates(x, e) == {Decimal(DecimalDigits(v), e) : v \in {Below10(x, e), Below10(x, e) + 1}}

\* x is not farther from y than from z, all with digits up to place e.
Middle(x, e) == Decimal(DecimalDigits(10 * Below10(x, e) + 5), e - 1)

\* The shortest digits are read back as the number, there are no shorter ones,
\* and of those as short they are nearest to the number.
IsShortest(F, d, digits, point) ==
    LET x == OwnDecimal(F, d)
        e == point - Len(digits)
        y == Decimal(digits, e)
        up == CompareDecimals(y, x) > 0
        half == CompareDecimals(x, Middle(x, e))
    IN  /\ IsNearest(F, y, d)
        /\ digits[1] # 0
        /\ y \in Candidates(x, e)
        /\ Len(digits) > 1 => \A z \in Candidates(x, e + 1) : ~IsNearest(F, z, d)
        /\ (\A z \in Candidates(x, e) : IsNearest(F, z, d)) => IF up THEN half >= 0 ELSE half <= 0

\* Exactly n digits, rounded half up.
IsRounded(F, d, n, r) ==
    LET x == OwnDecimal(F, d)
        e == FirstExponent(x) - n + 1
        v == Below10(x, e) + (IF CompareDecimals(x, Middle(x, e)) >= 0 THEN 1 ELSE 0)
    IN  Len(r.digits) = n /\ Decimal(r.digits, r.decimal_point - n) = Decimal(DecimalDigits(v), e)

\* ToStringBuf<double>: the digits, and two more.
kBytes == kBase10MaximalLength + 2

\* The text of a number fits in the buffer that ToStringBuf reserves for it.
TextFits == Returned("write") => Len(result.text) <= kBytes

\* Of every number util writes the shortest digits that are read back as the
\* same number, the nearest ones of that length, however the fast algorithm and
\* the exact one share the work; they fit in the converter's buffer.  All of
\* the text is consumed when it is read.  The digits of a given number are
\* rounded correctly, and wherever the fast algorithm is sure it agrees.  The
\* buffer for the text is left to TextFits.
ShortestExact ==
    Returned("write") =>
        LET F == input.format
            d == input.bits
            back == result.back
            r == result.of
        IN  /\ back.count = Len(result.text) /\ ~back.thrown /\ back.value = d
            /\ IsFinitePositive(F, d) =>
                /\ IsShortest(F, d, r.digits.digits, r.digits.decimal_point)
                /\ IsShortest(F, d, r.exact.digits, r.exact.decimal_point)
                /\ Len(r.digits.digits) <= kBase10MaximalLength
                /\ \A n \in 1..3 :
                    /\ IsRounded(F, d, n, r.counted[n])
                    /\ r.fastCounted[n].ok =>
                         /\ r.fastCounted[n].digits = r.counted[n].digits
                         /\ r.fastCounted[n].decimal_point = r.counted[n].decimal_point

-----------------------------------------------------------------------------
(* Reading *)

Boundaries == UNION {{UpperDecimal(F, d) : d \in Sample(F, ParseStep)} : F \in Formats}

\* A boundary, something just above it, something just below it, all with more
\* digits than are looked at; and its first digits only.
Around(x) ==
    LET all == DigitsOf(x, LastExponent(x))
        n == Len(all)
        zeros == [i \in 1..(kMaxSignificantDigits - n + 1) |-> 0]
        Cut(k) == [digits |-> SubSeq(all, 1, k), exponent |-> FirstExponent(x) - k + 1]
    IN  {[digits |-> all, exponent |-> LastExponent(x)],
         [digits |-> all \o zeros \o <<1>>, exponent |-> LastExponent(x) - Len(zeros) - 1],
         [digits |-> [all EXCEPT ![n] = @ - 1] \o [i \in DOMAIN zeros |-> 9],
          exponent |-> LastExponent(x) - Len(zeros)]}
        \cup {Cut(k) : k \in {2, 4, 6, 7, 9} \cap 1..(n - 1)}

AsChars(digits) == [i \in DOMAIN digits |-> CharOf(digits[i])]
SignedChars(v) == IF v < 0 THEN <<MinusChar>> \o AsChars(DecimalDigits(-v)) ELSE AsChars(DecimalDigits(v))

WithPoint(digits, point) ==
    AsChars(SubSeq(digits, 1, point)) \o <<PointChar>> \o AsChars(SubSeq(digits, point + 1, Len(digits)))

\* As digits and an exponent, with or without a point, or with a point only.
TextOf(x) ==
    LET length == Len(x.digits)
        point == length + x.exponent
        last == x.digits[length]
    IN  IF last % 3 = 0 THEN AsChars(x.digits) \o <<101>> \o SignedChars(x.exponent)
        ELSE IF last % 3 = 1 THEN WithPoint(x.digits, 1) \o <<101>> \o SignedChars(point - 1)
        ELSE IF point <= 0 THEN <<CharOf(0), PointChar>> \o Zeros(-point) \o AsChars(x.digits)
        ELSE IF x.exponent >= 0 THEN AsChars(x.digits) \o Zeros(x.exponent) \o <<PointChar>>
        ELSE WithPoint(x.digits, point)

\* Exponents around the largest one that is kept.
LargeExponents(sign) ==
    {<<CharOf(1), 101>> \o sign \o AsChars(DecimalDigits(MaxExponent + k)) : k \in {-1, 0, 1, 1000}}
HugeTexts == LargeExponents(<<>>) \cup LargeExponents(<<PlusChar>>)
TinyTexts == LargeExponents(<<MinusChar>>)

SyntaxChars == {CharOf(0), CharOf(3), PointChar, 101, MinusChar, SpaceChar}
SymbolTexts ==
    {SubSeq(s, 1, n) \o t : s \in {InfSymbol, <<MinusChar>> \o InfSymbol, NanSymbol, <<PlusChar>> \o NanSymbol},
                            n \in 1..3, t \in {<<>>, <<SpaceChar>>, <<110>>}}
    \cup {<<110, 97, 110>>}

ReadInputs ==
    {[text |-> TextOf(x), number |-> x] : x \in UNION {Around(b) : b \in Boundaries}}
    \cup {[text |-> t, number |-> <<>>] : t \in BoundedSeq(SyntaxChars, MaxSyntax) \cup SymbolTexts \cup HugeTexts \cup TinyTexts}

ReadNumber ==
    Return("read", [double |-> ParseNumber(Double, input.text), float |-> ParseNumber(Single, input.text)])

IsMinusOrPlus(c) == c \in {MinusChar, PlusChar}
AllDigits(text) == \A i \in DOMAIN text : IsDigit(text[i])

\* What is consumed of a text is a number as it is usually written; the e of
\* an exponent may also stand alone, or with a sign.
IsNumber(text) ==
    \E sign, integer, point, fraction, e \in 0..Len(text) :
        LET Part(i, j) == SubSeq(text, i + 1, j)
        IN  /\ sign <= integer /\ integer <= point /\ point <= fraction /\ fraction <= e
            /\ sign = 0 \/ (sign = 1 /\ IsMinusOrPlus(text[1]))
            /\ AllDigits(Part(sign, integer)) /\ AllDigits(Part(point, fraction))
            /\ Part(integer, point) \in {<<>>, <<PointChar>>}
            /\ point = integer => fraction = point
            /\ integer > sign \/ fraction > point
            /\ \/ e = fraction
               \/ e > fraction /\ text[fraction + 1] \in ExponentChars
                    /\ \/ e = fraction + 1
                       \/ e = fraction + 2 /\ IsMinusOrPlus(text[e])
            /\ AllDigits(Part(e, Len(text))) /\ (e = fraction => e = Len(text))

\* Leading spaces are skipped.
NumberAt(text) == Min({i \in 1..(Len(text) + 1) : i > Len(text) \/ text[i] # SpaceChar})
NumberEnds(text) == {n \in NumberAt(text)..Len(text) : IsNumber(SubSeq(text, NumberAt(text), n))}

ReadsNumber(F, r) ==
    LET text == input.text
        x == Decimal(input.number.digits, input.number.exponent)
    IN  IF input.number # <<>>
        THEN r.count = Len(text) /\ ~r.thrown /\ IsNearest(F, x, r.value)
        ELSE IF text \in HugeTexts THEN r.value = kInfinity(F)
        ELSE IF text \in TinyTexts THEN r.value = 0
        ELSE text \notin SymbolTexts =>
             /\ NumberEnds(text) = {} => r.thrown
             /\ NumberEnds(text) # {} => ~r.thrown /\ r.count = Max(NumberEnds(text))

\* Every decimal number is read as the nearest number of the format, halves
\* to even, however many digits it has and on whichever side of a boundary
\* it lies: neither the error of the words, nor the digits that are cut off,
\* nor a second rounding from double to float shows.  FilePiece consumes the
\* longest number that the text begins with, and throws if there is none.
NearestExact == Returned("read") => ReadsNumber(Double, result.double) /\ ReadsNumber(Single, result.float)
=============================================================================
