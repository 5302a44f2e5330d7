-------------------------------- MODULE Dtoa --------------------------------
(***************************************************************************)
(* The digits of a floating-point number d of format F: fast with words    *)
(* (util/double-conversion/fast-dtoa.cc), which may give up, and exactly   *)
(* with bignums (bignum-dtoa.cc).  The shortest digits that are read back  *)
(* as d, or a given number of digits.                                      *)
(***************************************************************************)
EXTENDS Ieee

kMinimalTargetExponent == 4 - kDoubleChunkSize
kMaximalTargetExponent == -kChunkSize

\* A last digit 10 is carried, up to the first digit, which may become 10.
RECURSIVE CarryTens(_)
CarryTens(digits) ==
    IF Len(digits) = 1 \/ Last(digits) # 10 THEN digits
    ELSE Append(CarryTens([Front(digits) EXCEPT ![Len(digits) - 1] = @ + 1]), 0)

Incremented(digits) == [digits EXCEPT ![Len(digits)] = @ + 1]

-----------------------------------------------------------------------------
(* fast-dtoa *)

kSmallPowersOfTen == [i \in 0..8 |-> IF i = 0 THEN 0 ELSE 10^(i - 1)]

BiggestPowerTen(number, number_bits) ==
    LET guess == ((number_bits + 1) * 1233) \div 4096 + 1
    IN  Max({i \in 0..guess : kSmallPowersOfTen[i] <= number})

\* Goes down to the digits closest to the upper end of what w may be.
RECURSIVE RoundTowards(_, _, _, _, _)
RoundTowards(digits, small_distance, unsafe_interval, rest, ten_kappa) ==
    IF /\ rest < small_distance
       /\ unsafe_interval - rest >= ten_kappa
       /\ \/ rest + ten_kappa < small_distance
          \/ small_distance - rest >= rest + ten_kappa - small_distance
    THEN RoundTowards([digits EXCEPT ![Len(digits)] = @ - 1], small_distance, unsafe_interval,
                      DoubleChunk(rest + ten_kappa), ten_kappa)
    ELSE [digits |-> digits, rest |-> rest]

\* Slip: the digits need not lie safely inside of the interval.
RoundWeedUnsafe(digits, distance, unsafe_interval, rest, ten_kappa, unit) ==
    LET small == RoundTowards(digits, DoubleChunk(distance - unit), unsafe_interval, rest, ten_kappa)
    IN  [ok |-> TRUE, digits |-> small.digits]

\* Whether these are the digits for every value that w may have.
RoundWeed(digits, distance, unsafe_interval, rest, ten_kappa, unit) ==
    LET small == RoundTowards(digits, DoubleChunk(distance - unit), unsafe_interval, rest, ten_kappa)
        big_distance == DoubleChunk(distance + unit)
        r == small.rest
        two_possible ==
            /\ r < big_distance
            /\ unsafe_interval - r >= ten_kappa
            /\ r + ten_kappa < big_distance \/ big_distance - r > r + ten_kappa - big_distance
    IN  [ok |-> ~two_possible /\ 2 * unit <= r /\ r <= DoubleChunk(unsafe_interval - 4 * unit),
         digits |-> small.digits]

RoundWeedCounted(digits, rest, ten_kappa, unit, kappa) ==
    LET up == CarryTens(Incremented(digits))
    IN  IF unit >= ten_kappa \/ ten_kappa - unit <= unit
        THEN [ok |-> FALSE, digits |-> digits, kappa |-> kappa]
        ELSE IF ten_kappa - rest > rest /\ ten_kappa - 2 * rest >= 2 * unit
        THEN [ok |-> TRUE, digits |-> digits, kappa |-> kappa]
        ELSE IF rest > unit /\ ten_kappa - (rest - unit) <= rest - unit
        THEN IF up[1] = 10 THEN [ok |-> TRUE, digits |-> [up EXCEPT ![1] = 1], kappa |-> kappa + 1]
             ELSE [ok |-> TRUE, digits |-> up, kappa |-> kappa]
        ELSE [ok |-> FALSE, digits |-> digits, kappa |-> kappa]

\* Where digits are taken from: integrals left of the point, fractionals right
\* of it, both in units of 2^e.
DigitsFrom(f, e, unsafe) ==
    LET integrals == f \div 2^(-e)
    IN  [digits |-> <<>>, integrals |-> integrals, fractionals |-> f % 2^(-e),
         kappa |-> BiggestPowerTen(integrals, kDoubleChunkSize + e), e |-> e,
         unit |-> 1, unsafe |-> unsafe]

NextIntegral(s) ==
    [s EXCEPT !.digits = Append(@, s.integrals \div 10^(s.kappa - 1)),
              !.integrals = @ % 10^(s.kappa - 1), !.kappa = @ - 1]

NextFractional(s) ==
    LET fractionals == DoubleChunk(10 * s.fractionals)
    IN  [s EXCEPT !.digits = Append(@, fractionals \div 2^(-s.e)), !.fractionals = fractionals % 2^(-s.e),
                  !.kappa = @ - 1, !.unit = DoubleChunk(10 * @), !.unsafe = DoubleChunk(10 * @)]

Rest(s) == s.integrals * 2^(-s.e) + s.fractionals

WithKappa(round, kappa) == [ok |-> round.ok, digits |-> round.digits, kappa |-> kappa]

RECURSIVE GenFractionals(_, _)
GenFractionals(s, distance) ==
    LET n == NextFractional(s)
    IN  IF n.fractionals < n.unsafe
        THEN WithKappa(RoundWeed(n.digits, DoubleChunk(distance * n.unit), n.unsafe, n.fractionals,
                                 2^(-n.e), n.unit), n.kappa)
        ELSE GenFractionals(n, distance)

RECURSIVE GenIntegrals(_, _)
GenIntegrals(s, distance) ==
    IF s.kappa = 0 THEN GenFractionals(s, distance)
    ELSE LET n == NextIntegral(s)
         IN  IF Rest(n) < n.unsafe
             THEN WithKappa(RoundWeed(n.digits, distance, n.unsafe, Rest(n), 10^n.kappa * 2^(-n.e), 1), n.kappa)
             ELSE GenIntegrals(n, distance)

DigitGen(low, w, high) ==
    GenIntegrals(DigitsFrom(high.f + 1, w.e, high.f - low.f + 2), high.f + 1 - w.f)

RECURSIVE GenCounted(_, _)
GenCounted(s, requested_digits) ==
    IF s.kappa > 0 /\ requested_digits > 0 THEN GenCounted(NextIntegral(s), requested_digits - 1)
    ELSE IF requested_digits = 0
    THEN IF s.kappa >= 0 THEN RoundWeedCounted(s.digits, Rest(s), 10^s.kappa * 2^(-s.e), 1, s.kappa)
         ELSE RoundWeedCounted(s.digits, s.fractionals, 2^(-s.e), s.unit, s.kappa)
    ELSE IF s.fractionals > s.unit THEN GenCounted(NextFractional(s), requested_digits - 1)
    ELSE [ok |-> FALSE, digits |-> s.digits, kappa |-> s.kappa]

DigitGenCounted(w, requested_digits) == GenCounted(DigitsFrom(w.f, w.e, 0), requested_digits)

TenMk(w) == GetCachedPowerForBinaryExponentRange(kMinimalTargetExponent - (w.e + kDoubleChunkSize))

\* The digits are those of d * 10^mk.
PointFrom(gen, mk) ==
    [ok |-> gen.ok, digits |-> gen.digits, decimal_point |-> Len(gen.digits) + gen.kappa - mk]

Grisu3Scaled(w, boundaries, ten_mk) ==
    PointFrom(DigitGen(Times(boundaries.minus, ten_mk.power), Times(w, ten_mk.power),
                       Times(boundaries.plus, ten_mk.power)),
              ten_mk.decimal_exponent)
Grisu3(F, d) == Grisu3Scaled(AsNormalizedDiyFp(F, d), NormalizedBoundaries(F, d), TenMk(AsNormalizedDiyFp(F, d)))

Grisu3CountedScaled(w, ten_mk, requested_digits) ==
    PointFrom(DigitGenCounted(Times(w, ten_mk.power), requested_digits), ten_mk.decimal_exponent)
Grisu3Counted(F, d, requested_digits) ==
    Grisu3CountedScaled(AsNormalizedDiyFp(F, d), TenMk(AsNormalizedDiyFp(F, d)), requested_digits)

-----------------------------------------------------------------------------
(* bignum-dtoa *)

\* Of a normalized significand of a double, whatever the format.
NormalizedExponent(significand, exponent) == exponent - (DoubleSize - BitSize(significand))

EstimatePower(exponent) == CeilLog10Of2(exponent + DoubleSize - 1)

\* numerator / denominator is v / 10^power, and delta half of the distance to
\* the next number over the same denominator.
StartPositiveExponent(f, e, power) ==
    [numerator |-> ShiftLeft(AssignUInt64(f), e), denominator |-> AssignPowerUInt16(10, power),
     delta |-> ShiftLeft(AssignUInt16(1), e)]

StartNegativeExponentPositivePower(f, e, power) ==
    [numerator |-> AssignUInt64(f), denominator |-> ShiftLeft(AssignPowerUInt16(10, power), -e),
     delta |-> AssignUInt16(1)]

StartWithPowerTen(power_ten, f, e) ==
    [numerator |-> MultiplyByUInt64(power_ten, f), denominator |-> ShiftLeft(AssignUInt16(1), -e),
     delta |-> power_ten]
StartNegativeExponentNegativePower(f, e, power) ==
    StartWithPowerTen(AssignPowerUInt16(10, -power), f, e)

\* need_boundary_deltas: a common denominator of two, or of four if the lower
\* boundary is closer.
WithDeltas(s, lower_boundary_is_closer) ==
    LET double == IF lower_boundary_is_closer THEN 2 ELSE 1
    IN  [numerator |-> ShiftLeft(s.numerator, double), denominator |-> ShiftLeft(s.denominator, double),
         delta_minus |-> s.delta, delta_plus |-> ShiftLeft(s.delta, double - 1)]

WithoutDeltas(s) ==
    [numerator |-> s.numerator, denominator |-> s.denominator, delta_minus |-> BigZero, delta_plus |-> BigZero]

StartValues(f, e, power) ==
    IF e >= 0 THEN StartPositiveExponent(f, e, power)
    ELSE IF power >= 0 THEN StartNegativeExponentPositivePower(f, e, power)
    ELSE StartNegativeExponentNegativePower(f, e, power)

MaybeWithDeltas(start, need_boundary_deltas, lower_boundary_is_closer) ==
    IF need_boundary_deltas THEN WithDeltas(start, lower_boundary_is_closer) ELSE WithoutDeltas(start)

InitialScaledStartValues(F, d, power, need_boundary_deltas) ==
    MaybeWithDeltas(StartValues(Significand(F, d), Exponent(F, d), power),
                    need_boundary_deltas, LowerBoundaryIsCloser(F, d))

\* A boundary belongs to d if its significand is even.
ReachesPlus(s, is_even) ==
    PlusCompare(s.numerator, s.delta_plus, s.denominator) >= (IF is_even THEN 0 ELSE 1)
ReachesMinus(s, is_even) ==
    Compare(s.numerator, s.delta_minus) <= (IF is_even THEN 0 ELSE -1)

AllTimes10(s) ==
    [s EXCEPT !.numerator = Times10(@), !.delta_minus = Times10(@), !.delta_plus = Times10(@)]

FixupMultiply10(s, estimated_power, is_even) ==
    IF ReachesPlus(s, is_even) THEN [start |-> s, decimal_point |-> estimated_power + 1]
    ELSE [start |-> AllTimes10(s), decimal_point |-> estimated_power]

\* Round up the last digit: more than a half is left, or a half behind an odd
\* digit, or only that end of the interval is within reach.
RoundsUp(s, is_even, digit) ==
    LET compare == PlusCompare(s.numerator, s.numerator, s.denominator)
    IN  /\ ReachesPlus(s, is_even)
        /\ ReachesMinus(s, is_even) => compare > 0 \/ (compare = 0 /\ digit % 2 = 1)

AfterDigit(s, division) == [s EXCEPT !.numerator = division.rest]
Digit(s) == DivideModuloIntBignum(s.numerator, s.denominator)

RECURSIVE GenerateShortestDigits(_, _, _)
ShortestFrom(n, is_even, digits, digit) ==
    IF ~ReachesMinus(n, is_even) /\ ~ReachesPlus(n, is_even)
    THEN GenerateShortestDigits(AllTimes10(n), is_even, Append(digits, digit))
    ELSE Append(digits, IF RoundsUp(n, is_even, digit) THEN digit + 1 ELSE digit)
ShortestDivided(s, is_even, digits, division) ==
    ShortestFrom(AfterDigit(s, division), is_even, digits, division.result)
GenerateShortestDigits(s, is_even, digits) == ShortestDivided(s, is_even, digits, Digit(s))

RECURSIVE CountedDigits(_, _, _)
CountedFrom(n, count, digits, digit) ==
    IF count > 1 THEN CountedDigits([n EXCEPT !.numerator = Times10(@)], count - 1, Append(digits, digit))
    ELSE Append(digits, IF PlusCompare(n.numerator, n.numerator, n.denominator) >= 0 THEN digit + 1 ELSE digit)
CountedDivided(s, count, digits, division) == CountedFrom(AfterDigit(s, division), count, digits, division.result)
CountedDigits(s, count, digits) == CountedDivided(s, count, digits, Digit(s))

CarryInto(digits, decimal_point) ==
    IF digits[1] = 10 THEN [digits |-> [digits EXCEPT ![1] = 1], decimal_point |-> decimal_point + 1]
    ELSE [digits |-> digits, decimal_point |-> decimal_point]
GenerateCountedDigits(s, count, decimal_point) == CarryInto(CarryTens(CountedDigits(s, count, <<>>)), decimal_point)

\* The shortest digits, or as many as are requested.
DigitsOfStart(fixed, is_even, requested_digits) ==
    IF requested_digits = 0
    THEN [digits |-> GenerateShortestDigits(fixed.start, is_even, <<>>), decimal_point |-> fixed.decimal_point]
    ELSE GenerateCountedDigits(fixed.start, requested_digits, fixed.decimal_point)

BignumDtoaFrom(F, d, power, is_even, requested_digits) ==
    DigitsOfStart(FixupMultiply10(InitialScaledStartValues(F, d, power, requested_digits = 0), power, is_even),
                  is_even, requested_digits)
BignumDtoa(F, d, requested_digits) ==
    BignumDtoaFrom(F, d, EstimatePower(NormalizedExponent(Significand(F, d), Exponent(F, d))),
                   Significand(F, d) % 2 = 0, requested_digits)
=============================================================================
