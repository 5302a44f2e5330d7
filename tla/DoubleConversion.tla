-------------------------- MODULE DoubleConversion --------------------------
(***************************************************************************)
(* Floating-point numbers to text and back (double-conversion.cc), with    *)
(* the two converters of util: float_to_string.cc writes, file_piece.cc    *)
(* reads and lets something else follow the number.  Characters are their  *)
(* codes.                                                                  *)
(***************************************************************************)
EXTENDS Strtod

CONSTANTS
    kMaxSignificantDigits,   \* digits that are passed on when a number is read (772)
    DecimalLowPlaces,        \* decimal_in_shortest_low is its negative (6)
    DecimalHigh,             \* decimal_in_shortest_high (21)
    MaxExponent              \* the cap of a written exponent (INT_MAX / 2)

CharOf(digit) == 48 + digit
DigitOf(c) == c - 48
IsDigit(c) == c \in 48..57
PointChar == 46
MinusChar == 45
PlusChar == 43
SpaceChar == 32
ExponentChars == {101, 69}
InfSymbol == <<105, 110, 102>>
NanSymbol == <<78, 97, 78>>

-----------------------------------------------------------------------------
(* Writing *)

Negated(F, d) == IF IsNegative(F, d) THEN d - kSignMask(F) ELSE d + kSignMask(F)
Absolute(F, d) == IF IsNegative(F, d) THEN Negated(F, d) ELSE d

\* The shortest digits of a number that is not negative.
FastOrExact(F, v, fast) ==
    IF fast.ok THEN [digits |-> fast.digits, decimal_point |-> fast.decimal_point] ELSE BignumDtoa(F, v, 0)
DoubleToAscii(F, v) ==
    IF v = 0 THEN [digits |-> <<0>>, decimal_point |-> 1] ELSE FastOrExact(F, v, Grisu3(F, v))

Zeros(n) == [i \in 1..Max({0, n}) |-> CharOf(0)]

CreateExponentialRepresentation(digits, exponent) ==
    LET size == IF exponent < 0 THEN -exponent ELSE exponent
        places == Max({n \in 0..9 : n = 0 \/ size >= 10^(n - 1)})
    IN  <<digits[1]>>
        \o (IF Len(digits) = 1 THEN <<>> ELSE <<PointChar>> \o Tail(digits))
        \o <<101>> \o (IF exponent < 0 THEN <<MinusChar>> ELSE <<>>)
        \o (IF exponent = 0 THEN Zeros(1)
            ELSE [i \in 1..places |-> CharOf((size \div 10^(places - i)) % 10)])

\* ToShortest asks for as many digits after the point as there are.
CreateDecimalRepresentation(digits, decimal_point) ==
    LET length == Len(digits)
    IN  IF decimal_point <= 0 THEN Zeros(1) \o <<PointChar>> \o Zeros(-decimal_point) \o digits
        ELSE IF decimal_point >= length THEN digits \o Zeros(decimal_point - length)
        ELSE SubSeq(digits, 1, decimal_point) \o <<PointChar>> \o SubSeq(digits, decimal_point + 1, length)

HandleSpecialValues(F, d) ==
    IF IsInfinite(F, d) THEN (IF IsNegative(F, d) THEN <<MinusChar>> ELSE <<>>) \o InfSymbol
    ELSE NanSymbol

Representation(ascii) ==
    LET digits == [i \in DOMAIN ascii.digits |-> CharOf(ascii.digits[i])]
        exponent == ascii.decimal_point - 1
    IN  IF -DecimalLowPlaces <= exponent /\ exponent < DecimalHigh
        THEN CreateDecimalRepresentation(digits, ascii.decimal_point)
        ELSE CreateExponentialRepresentation(digits, exponent)

ToShortestIeeeNumber(F, d) ==
    IF IsSpecial(F, d) THEN HandleSpecialValues(F, d)
    ELSE (IF IsNegative(F, d) THEN <<MinusChar>> ELSE <<>>) \o Representation(DoubleToAscii(F, Absolute(F, d)))

-----------------------------------------------------------------------------
(* Reading, from position i of the text; behind its end there is nothing *)

At(text, i) == IF i > Len(text) THEN -1 ELSE text[i]
Past(text, i, Skipped(_)) == Min({k \in i..(Len(text) + 1) : k > Len(text) \/ ~Skipped(text[k])})
PastZeros(text, i) == Past(text, i, LAMBDA c : c = CharOf(0))
PastDigits(text, i) == Past(text, i, IsDigit)
AdvanceToNonspace(text, i) == Past(text, i, LAMBDA c : c = SpaceChar)

\* The value that stands for what is not a number is a NaN, and nothing is consumed.
JunkNumber(F) == [value |-> kNaN(F), count |-> 0]
WithSign(F, sign, value) == IF sign THEN Negated(F, value) ELSE value

ConsumeSubString(F, text, i, sign, symbol, value) ==
    IF \A k \in DOMAIN symbol : At(text, i + k - 1) = symbol[k]
    THEN [value |-> WithSign(F, sign, value), count |-> i + Len(symbol) - 1]
    ELSE JunkNumber(F)

\* Slip: the digits that are dropped leave nothing behind.
SignificantDigitsOnly(integer, fraction) ==
    LET all == integer \o fraction
        kept == SubSeq(all, 1, Min({Len(all), kMaxSignificantDigits}))
    IN  [digits |-> kept,
         exponent |-> Max({0, Len(integer) - kMaxSignificantDigits}) - Max({0, Len(kept) - Len(integer)})]

\* Both parts of the digits with the exponent they leave.
SignificantDigits(integer, fraction) ==
    LET all == integer \o fraction
        kept == SubSeq(all, 1, Min({Len(all), kMaxSignificantDigits}))
        insignificant == Max({0, Len(integer) - kMaxSignificantDigits})
        in_fraction == Max({0, Len(kept) - Len(integer)})
        dropped == \E k \in (kMaxSignificantDigits + 1)..Len(all) : all[k] # 0
    IN  IF dropped THEN [digits |-> Append(kept, 1), exponent |-> insignificant - in_fraction - 1]
        ELSE [digits |-> kept, exponent |-> insignificant - in_fraction]

\* The written exponent, which does not overflow.
CappedExponent(digits) ==
    FoldLeft(LAMBDA num, digit :
                 IF num >= MaxExponent \div 10 /\ ~(num = MaxExponent \div 10 /\ digit <= MaxExponent % 10)
                 THEN MaxExponent ELSE num * 10 + digit,
             0, digits)

\* An exponent at position i, if there is one; an e without digits is consumed,
\* and so is a sign behind it.
ParseExponent(text, i) ==
    LET signed == At(text, i + 1) \in {PlusChar, MinusChar}
        first == IF signed THEN i + 2 ELSE i + 1
        after == PastDigits(text, first)
        num == CappedExponent([k \in 1..(after - first) |-> DigitOf(text[first + k - 1])])
    IN  IF At(text, i) \notin ExponentChars THEN [num |-> 0, next |-> i]
        ELSE [num |-> IF At(text, i + 1) = MinusChar THEN -num ELSE num, next |-> after]

Chars(text, from, to) == [k \in 1..(to - from) |-> DigitOf(text[from + k - 1])]

\* Where the digits in front of the point begin and end, and those behind it.
\* Zeros behind the point count only as places when no digit is in front.
ScanFraction(text, integer, point, from) ==
    [integer |-> integer, point |-> point, places |-> from - (point + 1), fraction |-> from,
     behind |-> PastDigits(text, from)]
ScanPoint(text, integer, point) ==
    IF At(text, point) # PointChar
    THEN [integer |-> integer, point |-> point, places |-> 0, fraction |-> point, behind |-> point]
    ELSE ScanFraction(text, integer, point, IF point = integer THEN PastZeros(text, point + 1) ELSE point + 1)
ScanInteger(text, integer) == ScanPoint(text, integer, PastDigits(text, integer))

ToNumber(F, digits, exponent) == IF F = Double THEN StrtodOf(digits, exponent) ELSE StrtofOf(digits, exponent)

NumberFrom(F, sign, leading_zero, significant, places, power) ==
    IF ~leading_zero /\ places = 0 /\ significant.digits = <<>> THEN JunkNumber(F)
    ELSE [value |-> WithSign(F, sign, ToNumber(F, significant.digits, significant.exponent - places + power.num)),
          count |-> power.next - 1]
ParseScanned(F, text, sign, leading_zero, s) ==
    NumberFrom(F, sign, leading_zero,
               SignificantDigits(Chars(text, s.integer, s.point), Chars(text, s.fraction, s.behind)),
               s.places, ParseExponent(text, s.behind))

\* A number without its sign: integer part, fraction, exponent.
ParseDigits(F, text, i, sign) ==
    ParseScanned(F, text, sign, At(text, i) = CharOf(0), ScanInteger(text, PastZeros(text, i)))

ParseSigned(F, text, i, signed, sign) ==
    IF i > Len(text) \/ (signed /\ text[i] = SpaceChar) THEN JunkNumber(F)
    ELSE IF text[i] = Head(InfSymbol) THEN ConsumeSubString(F, text, i, sign, InfSymbol, kInfinity(F))
    ELSE IF text[i] = Head(NanSymbol) THEN ConsumeSubString(F, text, i, sign, NanSymbol, kNaN(F))
    ELSE ParseDigits(F, text, i, sign)
ParseFrom(F, text, start) ==
    IF start > Len(text) THEN [value |-> kNaN(F), count |-> Len(text)]
    ELSE LET signed == text[start] \in {PlusChar, MinusChar}
         IN  ParseSigned(F, text, IF signed THEN start + 1 ELSE start, signed, text[start] = MinusChar)

\* StringToDouble or StringToFloat.
StringToIeee(F, text) == ParseFrom(F, text, AdvanceToNonspace(text, 1))

\* FilePiece's ParseNumber takes a NaN only if nothing else is there.
CheckNan(F, text, parsed) ==
    [value |-> parsed.value, count |-> parsed.count,
     thrown |-> IsNan(F, parsed.value) /\ text \notin {NanSymbol, <<110, 97, 110>>}]
ParseNumber(F, text) == CheckNan(F, text, StringToIeee(F, text))
=============================================================================
