------------------------------- MODULE Strtod -------------------------------
(***************************************************************************)
(* The floating-point number nearest to digits * 10^exponent               *)
(* (util/double-conversion/strtod.cc): by the processor where that is      *)
(* exact, with words where their error cannot matter, and else by an exact *)
(* comparison with the boundary above the guess.                           *)
(***************************************************************************)
EXTENDS Dtoa

CONSTANTS
    kMaxExactDoubleIntegerDecimalDigits,   \* so many digits always fit in a double (15)
    kExactPowersOfTenSize,                 \* powers of ten that a double holds exactly (23)
    kMaxDecimalPower,                      \* from 10^kMaxDecimalPower on it is infinity (309)
    MinDecimalPlaces,                      \* at 10^-MinDecimalPlaces and below it is zero (324)
    kMaxSignificantDecimalDigits           \* digits behind them are replaced by a single 1 (780)

kMinDecimalPower == -MinDecimalPlaces
kMaxUint64 == 2^kDoubleChunkSize - 1

\* Where the digits other than zero begin and end.
TrimAndCut(buffer, exponent) ==
    LET nonzero == {i \in DOMAIN buffer : buffer[i] # 0}
        trimmed == SubSeq(buffer, Min(nonzero), Max(nonzero))
        updated == exponent + Len(buffer) - Max(nonzero)
        cut == SubSeq(trimmed, 1, kMaxSignificantDecimalDigits - 1) \o <<1>>
    IN  IF nonzero = {} THEN [digits |-> <<>>, exponent |-> exponent]
        ELSE IF Len(trimmed) > kMaxSignificantDecimalDigits
        THEN [digits |-> cut, exponent |-> updated + Len(trimmed) - kMaxSignificantDecimalDigits]
        ELSE [digits |-> trimmed, exponent |-> updated]

\* As many digits as are sure to fit in a word.
RECURSIVE ReadUint64(_, _, _)
ReadUint64(buffer, i, value) ==
    IF i = Len(buffer) \/ value > kMaxUint64 \div 10 - 1 THEN [value |-> value, read |-> i]
    ELSE ReadUint64(buffer, i + 1, DoubleChunk(10 * value + buffer[i + 1]))

ReadDiyFp(buffer) ==
    LET read == ReadUint64(buffer, 0, 0)
        up == read.read < Len(buffer) /\ buffer[read.read + 1] >= 5
    IN  [input |-> DiyFp(IF up THEN read.value + 1 ELSE read.value, 0), remaining |-> Len(buffer) - read.read]

-----------------------------------------------------------------------------
(* The processor rounds n / d to the nearest number, to the even one of two *)

HalfToEven(q, r, d) == IF 2 * r > d \/ (2 * r = d /\ q % 2 = 1) THEN q + 1 ELSE q
RoundedDivision(n, d) == HalfToEven(n \div d, n % d, d)

FitsExponent(F, n, d, e) == IF e >= 0 THEN n < 2^F.size * d * 2^e ELSE n < -((-2^F.size * d) \div 2^(-e))
RoundedAt(F, n, d, e) ==
    IF e = kMaxExponent(F) THEN kInfinity(F)
    ELSE Min({RoundedDivision(IF e < 0 THEN n * 2^(-e) ELSE n, IF e < 0 THEN d ELSE d * 2^e)
                + kHiddenBit(F) * (e + kExponentBias(F) - 1),
              kInfinity(F)})
RoundedQuotient(F, n, d) ==
    RoundedAt(F, n, d, Min({e \in kDenormalExponent(F)..kMaxExponent(F) :
                               FitsExponent(F, n, d, e) \/ e = kMaxExponent(F)}))

NoGuess == [ok |-> FALSE, guess |-> 0]

\* The third case multiplies twice, but only the second product is rounded.
DoubleStrtod(trimmed, exponent) ==
    LET value == ReadUint64(trimmed, 0, 0).value
        remaining_digits == kMaxExactDoubleIntegerDecimalDigits - Len(trimmed)
    IN  IF remaining_digits < 0 THEN NoGuess
        ELSE IF exponent < 0
        THEN IF -exponent < kExactPowersOfTenSize
             THEN [ok |-> TRUE, guess |-> RoundedQuotient(Double, value, 10^(-exponent))]
             ELSE NoGuess
        ELSE IF exponent < kExactPowersOfTenSize
        THEN [ok |-> TRUE, guess |-> RoundedQuotient(Double, value * 10^exponent, 1)]
        ELSE IF exponent - remaining_digits < kExactPowersOfTenSize
        THEN [ok |-> TRUE, guess |-> RoundedQuotient(Double, (value * 10^remaining_digits)
                                                             * 10^(exponent - remaining_digits), 1)]
        ELSE NoGuess

-----------------------------------------------------------------------------
(* With words, and their error in eighths of the last bit *)

kDenominatorLog == 3
kDenominator == 2^kDenominatorLog

AdjustmentPowerOfTen(exponent) == Normalize(DiyFp(10^exponent, 0))

WithError(x, error) == [f |-> x.f, e |-> x.e, error |-> error]
NormalizeWithError(x) ==
    LET n == Normalize(DiyFp(x.f, x.e))
    IN  WithError(n, x.error * 2^(x.e - n.e))

\* The power of ten between two cached ones is exact, and so is the product if
\* it fits in a word.
Adjusted(input, length, adjustment) ==
    LET exact == kMaxUint64DecimalDigits - length >= adjustment
    IN  IF adjustment = 0 THEN input
        ELSE WithError(Times(input, AdjustmentPowerOfTen(adjustment)),
                       input.error + IF exact THEN 0 ELSE kDenominator \div 2)

TimesCached(adjusted, power) ==
    LET error_ab == IF adjusted.error = 0 THEN 0 ELSE 1
    IN  NormalizeWithError(WithError(Times(adjusted, power),
                                     adjusted.error + kDenominator \div 2 + error_ab + kDenominator \div 2))

\* input * 10^exponent
ScaledBy(cached, input, length, exponent) ==
    TimesCached(Adjusted(input, length, exponent - cached.decimal_exponent), cached.power)
Scaled(input, length, exponent) == ScaledBy(GetCachedPowerForDecimalExponent(exponent), input, length, exponent)

\* Slip: the error of the product is forgotten.
RoundScaledSure(x, precision_digits_count) ==
    LET precision_bits == DoubleChunk((x.f % 2^precision_digits_count) * kDenominator)
        half_way == DoubleChunk(2^(precision_digits_count - 1) * kDenominator)
        f == x.f \div 2^precision_digits_count
    IN  [ok |-> TRUE, guess |-> DiyFpToUint64(Double, DiyFp(IF precision_bits >= half_way THEN f + 1 ELSE f,
                                                            x.e + precision_digits_count))]

\* Rounds to the precision given; close to the middle nothing is sure.
RoundScaled(x, precision_digits_count) ==
    LET precision_bits == DoubleChunk((x.f % 2^precision_digits_count) * kDenominator)
        half_way == DoubleChunk(2^(precision_digits_count - 1) * kDenominator)
        above == DoubleChunk(half_way + x.error)
        f == x.f \div 2^precision_digits_count
    IN  [ok |-> ~(DoubleChunk(half_way - x.error) < precision_bits /\ precision_bits < above),
         guess |-> DiyFpToUint64(Double, DiyFp(IF precision_bits >= above THEN f + 1 ELSE f,
                                               x.e + precision_digits_count))]

\* To the precision of a double; half of the last bit of a small denormal would
\* not fit in a word.
RoundToDouble(x) ==
    LET count == kDoubleChunkSize - SignificandSizeForOrderOfMagnitude(Double, kDoubleChunkSize + x.e)
        shift_amount == Max({0, count + kDenominatorLog - kDoubleChunkSize + 1})
        shifted == [f |-> x.f \div 2^shift_amount, e |-> x.e + shift_amount,
                    error |-> x.error \div 2^shift_amount + 1 + kDenominator]
    IN  IF shift_amount > 0 THEN RoundScaled(shifted, count - shift_amount) ELSE RoundScaled(x, count)

DiyFpStrtodFrom(first, length, power) ==
    IF power < -kCachedPowersOffset THEN [ok |-> TRUE, guess |-> 0]
    ELSE RoundToDouble(Scaled(NormalizeWithError(WithError(first.input, IF first.remaining = 0 THEN 0
                                                                        ELSE kDenominator \div 2)),
                              length, power))
DiyFpStrtod(buffer, exponent) ==
    DiyFpStrtodFrom(ReadDiyFp(buffer), Len(buffer), exponent + ReadDiyFp(buffer).remaining)

-----------------------------------------------------------------------------
(* Exactly *)

TimesTen(x, exponent) == IF exponent > 0 THEN MultiplyByPowerOfTen(x, exponent) ELSE x
TimesTwo(x, exponent) == IF exponent > 0 THEN ShiftLeft(x, exponent) ELSE x

CompareBufferWithDiyFp(buffer, exponent, diy_fp) ==
    Compare(TimesTwo(TimesTen(AssignDecimalString(buffer), exponent), -diy_fp.e),
            TimesTwo(TimesTen(AssignUInt64(diy_fp.f), -exponent), diy_fp.e))

\* Is the guess right, or may it be the number below the right one?
OrInfinite(careful) == [careful EXCEPT !.ok = @ \/ careful.guess = kInfinity(Double)]
FastOrCareful(fast, trimmed, exponent) ==
    IF fast.ok THEN fast ELSE OrInfinite(DiyFpStrtod(trimmed, exponent))
ComputeGuess(trimmed, exponent) ==
    IF trimmed = <<>> THEN [ok |-> TRUE, guess |-> 0]
    ELSE IF exponent + Len(trimmed) - 1 >= kMaxDecimalPower THEN [ok |-> TRUE, guess |-> kInfinity(Double)]
    ELSE IF exponent + Len(trimmed) <= kMinDecimalPower THEN [ok |-> TRUE, guess |-> 0]
    ELSE FastOrCareful(DoubleStrtod(trimmed, exponent), trimmed, exponent)

\* On a boundary the number with an even significand wins.
Closer(F, guess, next, comparison) ==
    IF comparison < 0 \/ (comparison = 0 /\ Significand(F, guess) % 2 = 0) THEN guess ELSE next

StrtodFrom(t, g) ==
    IF g.ok THEN g.guess
    ELSE Closer(Double, g.guess, NextDouble(Double, g.guess),
                CompareBufferWithDiyFp(t.digits, t.exponent, UpperBoundary(Double, g.guess)))
StrtodTrimmed(t) == StrtodFrom(t, ComputeGuess(t.digits, t.exponent))
StrtodOf(buffer, exponent) == StrtodTrimmed(TrimAndCut(buffer, exponent))

\* A double as a float, by the processor.
ToFloat(d) ==
    LET f == Significand(Double, d)
        e == Exponent(Double, d)
    IN  IF d = kInfinity(Double) THEN kInfinity(Single)
        ELSE IF e >= 0 THEN RoundedQuotient(Single, f * 2^e, 1)
        ELSE RoundedQuotient(Single, f, 2^(-e))

\* Whether the float has the value of the double.
SameValue(float, d) ==
    IF IsSpecial(Single, float) \/ IsSpecial(Double, d)
    THEN IsSpecial(Single, float) /\ IsSpecial(Double, d)
    ELSE Significand(Single, float) * 2^(Exponent(Single, float) - kDenormalExponent(Single)) * 2^(kDenormalExponent(Single) - kDenormalExponent(Double))
           = Significand(Double, d) * 2^(Exponent(Double, d) - kDenormalExponent(Double))

\* Half of the smallest float is a double.
HalfMinFloat == DiyFp(1, kDenormalExponent(Single) - 1)

\* Slip: a double is rounded once more to a float.
StrtofTwice(buffer, exponent) == ToFloat(StrtodOf(buffer, exponent))

\* A second rounding shows when a neighbour of the double rounds to another float.
FloatBoundary(f1) == IF f1 = 0 THEN HalfMinFloat ELSE UpperBoundary(Single, f1)
StrtofBetween(t, guess, f1, f4) ==
    IF SameValue(ToFloat(guess), guess) \/ f1 = f4 THEN ToFloat(guess)
    ELSE Closer(Single, f1, f4, CompareBufferWithDiyFp(t.digits, t.exponent, FloatBoundary(f1)))
NextAfter(g) == NextDouble(Double, IF g.ok THEN g.guess ELSE NextDouble(Double, g.guess))
StrtofFrom(t, g) ==
    StrtofBetween(t, g.guess, ToFloat(PreviousDouble(Double, g.guess)), ToFloat(NextAfter(g)))
StrtofTrimmed(t) == StrtofFrom(t, ComputeGuess(t.digits, t.exponent))
StrtofOf(buffer, exponent) == StrtofTrimmed(TrimAndCut(buffer, exponent))
=============================================================================
