-------------------------------- MODULE Ieee --------------------------------
(***************************************************************************)
(* Floating-point numbers as bits (util/double-conversion/ieee.h) and the  *)
(* library's own ones of a whole word's precision (diy-fp.h, diy-fp.cc,    *)
(* cached-powers.cc).  The sizes are parameters, so that every number of a *)
(* small format can be converted.  Double and Single differ only in them.  *)
(***************************************************************************)
EXTENDS Bignum

CONSTANTS
    DoubleSize, DoubleExponentSize,   \* bits of a double's significand and exponent (53, 11)
    SingleSize, SingleExponentSize,   \* bits of a float's (24, 8)
    kCachedPowersOffset,              \* the first cached power of ten is 10^-kCachedPowersOffset (348)
    kDecimalExponentDistance          \* between two of them (8)

Double == [size |-> DoubleSize, exponents |-> 2^DoubleExponentSize]
Single == [size |-> SingleSize, exponents |-> 2^SingleExponentSize]

kHiddenBit(F) == 2^(F.size - 1)
kExponentBias(F) == F.exponents \div 2 - 1 + F.size - 1
kDenormalExponent(F) == 1 - kExponentBias(F)
kMaxExponent(F) == F.exponents - 1 - kExponentBias(F)
kInfinity(F) == (F.exponents - 1) * kHiddenBit(F)
kNaN(F) == kInfinity(F) + kHiddenBit(F) \div 2
kSignMask(F) == F.exponents * kHiddenBit(F)

Physical(F, d) == d % kHiddenBit(F)
BiasedExponent(F, d) == (d \div kHiddenBit(F)) % F.exponents
IsDenormal(F, d) == BiasedExponent(F, d) = 0
IsSpecial(F, d) == BiasedExponent(F, d) = F.exponents - 1
IsNan(F, d) == IsSpecial(F, d) /\ Physical(F, d) # 0
IsInfinite(F, d) == IsSpecial(F, d) /\ Physical(F, d) = 0
IsNegative(F, d) == d >= kSignMask(F)

Exponent(F, d) == IF IsDenormal(F, d) THEN kDenormalExponent(F) ELSE BiasedExponent(F, d) - kExponentBias(F)
Significand(F, d) == Physical(F, d) + (IF IsDenormal(F, d) THEN 0 ELSE kHiddenBit(F))

NextDouble(F, d) ==
    IF d = kInfinity(F) THEN d
    ELSE IF IsNegative(F, d) THEN (IF Significand(F, d) = 0 THEN 0 ELSE d - 1)
    ELSE d + 1

PreviousDouble(F, d) ==
    IF d = kInfinity(F) + kSignMask(F) THEN d
    ELSE IF IsNegative(F, d) THEN d + 1
    ELSE IF Significand(F, d) = 0 THEN kSignMask(F)
    ELSE d - 1

LowerBoundaryIsCloser(F, d) == Physical(F, d) = 0 /\ Exponent(F, d) # kDenormalExponent(F)

SignificandSizeForOrderOfMagnitude(F, order) ==
    IF order >= kDenormalExponent(F) + F.size THEN F.size
    ELSE IF order <= kDenormalExponent(F) THEN 0
    ELSE order - kDenormalExponent(F)

\* The significand is shifted until it fits, and until its hidden bit is set
\* unless the number is denormal.
DiyFpToUint64(F, diy_fp) ==
    LET right == Min({n \in 0..kDoubleChunkSize : diy_fp.f \div 2^n < 2 * kHiddenBit(F)})
        f == diy_fp.f \div 2^right
        e == diy_fp.e + right
        left == Min({n \in 0..F.size : e - n <= kDenormalExponent(F) \/ f * 2^n >= kHiddenBit(F)})
    IN  IF e >= kMaxExponent(F) THEN kInfinity(F)
        ELSE IF e < kDenormalExponent(F) THEN 0
        ELSE Physical(F, f * 2^left)
             + kHiddenBit(F) * (IF f * 2^left < kHiddenBit(F) THEN 0 ELSE e - left + kExponentBias(F))

-----------------------------------------------------------------------------
(* DiyFp *)

DiyFp(f, e) == [f |-> f, e |-> e]

\* Rounds to the upper half of the product, computed from four products of halves.
Times(x, y) ==
    LET a == x.f \div 2^kChunkSize
        b == Chunk(x.f)
        c == y.f \div 2^kChunkSize
        d == Chunk(y.f)
        tmp == (b * d) \div 2^kChunkSize + Chunk(a * d) + Chunk(b * c) + 2^(kChunkSize - 1)
    IN  DiyFp(DoubleChunk(a * c + (a * d) \div 2^kChunkSize + (b * c) \div 2^kChunkSize
                          + tmp \div 2^kChunkSize),
              x.e + y.e + kDoubleChunkSize)

Normalize(x) ==
    LET shift == kDoubleChunkSize - BitSize(x.f)
    IN  DiyFp(x.f * 2^shift, x.e - shift)

AsDiyFp(F, d) == DiyFp(Significand(F, d), Exponent(F, d))
AsNormalizedDiyFp(F, d) == Normalize(AsDiyFp(F, d))
UpperBoundary(F, d) == DiyFp(2 * Significand(F, d) + 1, Exponent(F, d) - 1)

NormalizedBoundaries(F, d) ==
    LET v == AsDiyFp(F, d)
        plus == Normalize(UpperBoundary(F, d))
        minus == IF LowerBoundaryIsCloser(F, d) THEN DiyFp(4 * v.f - 1, v.e - 2) ELSE DiyFp(2 * v.f - 1, v.e - 1)
    IN  [minus |-> DiyFp(minus.f * 2^(minus.e - plus.e), plus.e), plus |-> plus]

-----------------------------------------------------------------------------
(* Cached powers of ten, rounded to a word *)

\* ceil(n / lg(10)), as the code computes it with a double.
CeilLog10Of2(n) == -((-n * 30103) \div 100000)

\* The first n bits of r / d, and whether they are to be rounded up.
RECURSIVE QuotientBits(_, _, _, _)
QuotientBits(r, d, n, q) ==
    IF n = 0 THEN (IF 2 * r >= d THEN q + 1 ELSE q)
    ELSE IF 2 * r >= d THEN QuotientBits(2 * r - d, d, n - 1, 2 * q + 1)
    ELSE QuotientBits(2 * r, d, n - 1, 2 * q)

\* 5^-n lies between 2^-size and 2^(1-size) for the size of 5^n in bits.
CachedPower(k) ==
    IF k >= 0 THEN [power |-> Normalize(DiyFp(5^k, k)), decimal_exponent |-> k]
    ELSE LET d == 5^(-k)
             size == BitSize(d)
         IN  [power |-> DiyFp(QuotientBits(2^(size - 1), d, kDoubleChunkSize, 0), k - size + 1 - kDoubleChunkSize),
              decimal_exponent |-> k]

kCachedPowers(index) == CachedPower(index * kDecimalExponentDistance - kCachedPowersOffset)

GetCachedPowerForBinaryExponentRange(min_exponent) ==
    LET k == CeilLog10Of2(min_exponent + kDoubleChunkSize - 1)
    IN  kCachedPowers((kCachedPowersOffset + k - 1) \div kDecimalExponentDistance + 1)

GetCachedPowerForDecimalExponent(requested_exponent) ==
    kCachedPowers((requested_exponent + kCachedPowersOffset) \div kDecimalExponentDistance)
=============================================================================
