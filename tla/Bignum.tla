------------------------------- MODULE Bignum -------------------------------
(***************************************************************************)
(* The integers of any size that the conversions of floating-point numbers *)
(* fall back to (util/double-conversion/bignum.cc).  A bignum is a record  *)
(* of its used bigits, the least significant first, and the number of      *)
(* bigits that are left out below them because they are zero.  Every word  *)
(* is computed modulo its width, so that an overflow would show; the       *)
(* widths are parameters.                                                  *)
(***************************************************************************)
EXTENDS Integers, Sequences, FiniteSetsExt, SequencesExt

CONSTANTS
    kBigitSize,       \* bits of a bigit (28)
    kChunkSize,       \* bits of a uint32_t (32); a uint64_t has twice as many
    HexSize,          \* bits of a hexadecimal character (4)
    ShortFive,        \* 5^ShortFive fits in a uint32_t (13)
    LongFive,         \* 5^LongFive fits in a uint64_t (27)
    kMaxUint64DecimalDigits   \* so many decimal digits always fit in a uint64_t (19)

kDoubleChunkSize == 2 * kChunkSize
Chunk(v) == v % 2^kChunkSize
DoubleChunk(v) == v % 2^kDoubleChunkSize
Bigit(v) == v % 2^kBigitSize
AboveBigit(v) == v \div 2^kBigitSize

BigZero == [bigits |-> <<>>, exponent |-> 0]

BigitLength(x) == Len(x.bigits) + x.exponent

BigitAt(x, i) ==
    IF i >= BigitLength(x) \/ i < x.exponent THEN 0 ELSE x.bigits[i - x.exponent + 1]

Clamp(x) ==
    LET used == Max({i \in 0..Len(x.bigits) : i = 0 \/ x.bigits[i] # 0})
    IN  IF used = 0 THEN BigZero ELSE [x EXCEPT !.bigits = SubSeq(@, 1, used)]

IsClamped(x) == x.bigits = <<>> \/ Last(x.bigits) # 0

Align(x, other) ==
    LET zero_digits == Max({0, x.exponent - other.exponent})
    IN  [bigits |-> [i \in 1..zero_digits |-> 0] \o x.bigits, exponent |-> x.exponent - zero_digits]

AssignUInt64(value) ==
    Clamp([bigits |-> [i \in 1..(kDoubleChunkSize \div kBigitSize + 1) |->
                          Bigit(value \div 2^((i - 1) * kBigitSize))],
           exponent |-> 0])

AssignUInt16(value) == IF value = 0 THEN BigZero ELSE [bigits |-> <<value>>, exponent |-> 0]

-----------------------------------------------------------------------------
(* Carries and borrows *)

\* `while (carry != 0)`: the bigits of a carry.
RECURSIVE CarryBigits(_)
CarryBigits(carry) == IF carry = 0 THEN <<>> ELSE <<Bigit(carry)>> \o CarryBigits(AboveBigit(carry))

\* Columns are summed with what the column below carries, in words of w bits.
RECURSIVE Carried(_, _, _)
Carried(columns, carry, w) ==
    IF columns = <<>> THEN CarryBigits(carry)
    ELSE LET sum == (Head(columns) + carry) % 2^w
         IN  <<Bigit(sum)>> \o Carried(Tail(columns), AboveBigit(sum), w)

AddAligned(x, y) ==
    [x EXCEPT !.bigits =
        Carried([i \in 1..(Max({BigitLength(x), BigitLength(y)}) - x.exponent) |->
                    BigitAt(x, x.exponent + i - 1) + BigitAt(y, x.exponent + i - 1)],
                0, kChunkSize)]
AddBignum(x, y) == AddAligned(Align(x, y), y)

AddUInt64(x, operand) == IF operand = 0 THEN x ELSE AddBignum(x, AssignUInt64(operand))

\* Subtracts the columns of y, then the borrow.
RECURSIVE Borrowed(_, _, _)
Borrowed(bigits, columns, borrow) ==
    IF columns = <<>> /\ borrow = 0 THEN bigits
    ELSE LET minus == IF columns = <<>> THEN 0 ELSE Head(columns)
             difference == Chunk(Head(bigits) - minus - borrow)
         IN  <<Bigit(difference)>>
             \o Borrowed(Tail(bigits), IF columns = <<>> THEN <<>> ELSE Tail(columns),
                         difference \div 2^(kChunkSize - 1))

Below(x, y) == [i \in 1..(y.exponent - x.exponent) |-> x.bigits[i]]
AtAndAbove(x, y) == SubSeq(x.bigits, y.exponent - x.exponent + 1, Len(x.bigits))

SubtractAligned(x, y) ==
    Clamp([x EXCEPT !.bigits = Below(x, y) \o Borrowed(AtAndAbove(x, y), y.bigits, 0)])
SubtractBignum(x, y) == SubtractAligned(Align(x, y), y)

-----------------------------------------------------------------------------
(* Products *)

\* Slip: the local shift forgets the bits that leave the top bigit.
ShiftLeftNoCarry(x, shift_amount) ==
    IF x.bigits = <<>> THEN x
    ELSE [bigits |-> [i \in DOMAIN x.bigits |-> Bigit(x.bigits[i] * 2^(shift_amount % kBigitSize))],
          exponent |-> x.exponent + shift_amount \div kBigitSize]

\* BigitsShiftLeft by what is not a multiple of a bigit.
ShiftLeft(x, shift_amount) ==
    IF x.bigits = <<>> THEN x
    ELSE [bigits |-> Carried([i \in DOMAIN x.bigits |-> x.bigits[i] * 2^(shift_amount % kBigitSize)],
                             0, kDoubleChunkSize),
          exponent |-> x.exponent + shift_amount \div kBigitSize]

MultiplyByUInt32(x, factor) ==
    IF factor = 0 THEN BigZero
    ELSE [x EXCEPT !.bigits = Carried([i \in DOMAIN @ |-> factor * @[i]], 0, kDoubleChunkSize)]

Times10(x) == MultiplyByUInt32(x, 10)

\* The factor is multiplied in halves.
RECURSIVE LongCarried(_, _, _, _)
LongCarried(bigits, low, high, carry) ==
    IF bigits = <<>> THEN CarryBigits(carry)
    ELSE LET tmp == DoubleChunk(Bigit(carry) + low * Head(bigits))
             product_high == high * Head(bigits)
         IN  <<Bigit(tmp)>>
             \o LongCarried(Tail(bigits), low, high,
                    DoubleChunk(AboveBigit(carry) + AboveBigit(tmp)
                                + product_high * 2^(kChunkSize - kBigitSize)))

MultiplyByUInt64(x, factor) ==
    IF factor = 0 THEN BigZero
    ELSE IF factor = 1 THEN x
    ELSE [x EXCEPT !.bigits = LongCarried(@, Chunk(factor), factor \div 2^kChunkSize, 0)]

\* Multiplies by the powers of five and shifts by the powers of two.
RECURSIVE MultiplyByFives(_, _)
MultiplyByFives(x, remaining_exponent) ==
    IF remaining_exponent >= LongFive
    THEN MultiplyByFives(MultiplyByUInt64(x, 5^LongFive), remaining_exponent - LongFive)
    ELSE IF remaining_exponent >= ShortFive
    THEN MultiplyByFives(MultiplyByUInt32(x, 5^ShortFive), remaining_exponent - ShortFive)
    ELSE MultiplyByUInt32(x, 5^remaining_exponent)

MultiplyByPowerOfTen(x, exponent) ==
    IF exponent = 0 \/ x.bigits = <<>> THEN x
    ELSE ShiftLeft(MultiplyByFives(x, exponent), exponent)

\* Comba multiplication: column by column, in one accumulator.
Square(x) ==
    LET used == Len(x.bigits)
        Column(k) == FoldLeft(+, 0, [i \in 1..used |->
                        IF k + 1 - i \in 1..used THEN x.bigits[i] * x.bigits[k + 1 - i] ELSE 0])
    IN  Clamp([bigits |-> Carried([k \in 1..(2 * used) |-> Column(k)], 0, kDoubleChunkSize),
               exponent |-> 2 * x.exponent])

-----------------------------------------------------------------------------
(* Powers, from the left of the exponent's bits *)

BitSize(v) == Min({n \in 0..(kDoubleChunkSize + kBigitSize) : 2^n > v})

\* In a uint64_t as long as the square fits in it.
RECURSIVE PowerInWord(_, _, _, _, _)
PowerInWord(base, exponent, mask, value, delayed) ==
    IF mask = 0 \/ value >= 2^kChunkSize THEN [mask |-> mask, value |-> value, delayed |-> delayed]
    ELSE LET squared == DoubleChunk(value * value)
             wanted == (exponent \div mask) % 2 = 1
             high_bits_zero == squared < 2^(kDoubleChunkSize - BitSize(base))
         IN  PowerInWord(base, exponent, mask \div 2,
                 IF wanted /\ high_bits_zero THEN DoubleChunk(squared * base) ELSE squared,
                 delayed \/ (wanted /\ ~high_bits_zero))

RECURSIVE PowerInBignum(_, _, _, _)
PowerInBignum(base, exponent, mask, x) ==
    IF mask = 0 THEN x
    ELSE PowerInBignum(base, exponent, mask \div 2,
             IF (exponent \div mask) % 2 = 1 THEN MultiplyByUInt32(Square(x), base) ELSE Square(x))

TrailingZeros(base) == Max({n \in 0..BitSize(base) : base % 2^n = 0})

PowerAfterWord(base, exponent, word, x) ==
    PowerInBignum(base, exponent, word.mask, IF word.delayed THEN MultiplyByUInt32(x, base) ELSE x)
PowerFromWord(base, exponent, word) == PowerAfterWord(base, exponent, word, AssignUInt64(word.value))
OddPower(base, exponent) ==
    PowerFromWord(base, exponent, PowerInWord(base, exponent, 2^BitSize(exponent) \div 4, base, FALSE))

AssignPowerUInt16(base, power_exponent) ==
    IF power_exponent = 0 THEN AssignUInt16(1)
    ELSE LET shifts == TrailingZeros(base)
         IN  ShiftLeft(OddPower(base \div 2^shifts, power_exponent), shifts * power_exponent)

-----------------------------------------------------------------------------
(* Strings of digits *)

ReadUInt64(digits) == FoldLeft(LAMBDA v, d : DoubleChunk(v * 10 + d), 0, digits)

AppendDigits(x, digits) == AddUInt64(MultiplyByPowerOfTen(x, Len(digits)), ReadUInt64(digits))

RECURSIVE DecimalFrom(_, _)
DecimalFrom(x, digits) ==
    IF Len(digits) < kMaxUint64DecimalDigits THEN Clamp(AppendDigits(x, digits))
    ELSE DecimalFrom(AppendDigits(x, SubSeq(digits, 1, kMaxUint64DecimalDigits)),
                     SubSeq(digits, kMaxUint64DecimalDigits + 1, Len(digits)))

AssignDecimalString(digits) == DecimalFrom(BigZero, digits)

HexCharsPerBigit == kBigitSize \div HexSize
ValueOfHex(digits) == FoldLeft(LAMBDA v, d : v * 2^HexSize + d, 0, digits)

AssignHexString(digits) ==
    LET length == Len(digits)
        full == (length * HexSize) \div kBigitSize
        End(i) == length - (i - 1) * HexCharsPerBigit
    IN  Clamp([bigits |-> [i \in 1..full |-> ValueOfHex(SubSeq(digits, End(i) - HexCharsPerBigit + 1, End(i)))]
                          \o <<ValueOfHex(SubSeq(digits, 1, End(full + 1)))>>,
               exponent |-> 0])

SizeInHexChars(number) == (BitSize(number) + HexSize - 1) \div HexSize

HexOf(value, size) == [i \in 1..size |-> (value \div 2^(HexSize * (size - i))) % 2^HexSize]

ToHexString(x) ==
    IF x.bigits = <<>> THEN <<0>>
    ELSE HexOf(Last(x.bigits), SizeInHexChars(Last(x.bigits)))
         \o FlattenSeq([i \in 1..(BigitLength(x) - 1) |-> HexOf(BigitAt(x, BigitLength(x) - 1 - i), HexCharsPerBigit)])

-----------------------------------------------------------------------------
(* Comparisons *)

RECURSIVE CompareFrom(_, _, _)
CompareFrom(a, b, i) ==
    IF i < Min({a.exponent, b.exponent}) THEN 0
    ELSE IF BigitAt(a, i) # BigitAt(b, i) THEN (IF BigitAt(a, i) < BigitAt(b, i) THEN -1 ELSE 1)
    ELSE CompareFrom(a, b, i - 1)

Compare(a, b) ==
    IF BigitLength(a) < BigitLength(b) THEN -1
    ELSE IF BigitLength(a) > BigitLength(b) THEN 1
    ELSE CompareFrom(a, b, BigitLength(a) - 1)

\* What is missing to c is carried down, as long as it may still be found.
RECURSIVE PlusCompareFrom(_, _, _, _, _)
PlusCompareFrom(a, b, c, i, borrow) ==
    IF i < Min({a.exponent, b.exponent, c.exponent}) THEN (IF borrow = 0 THEN 0 ELSE -1)
    ELSE LET sum == Chunk(BigitAt(a, i) + BigitAt(b, i))
             left == Chunk(BigitAt(c, i) + borrow) - sum
         IN  IF left < 0 THEN 1
             ELSE IF left > 1 THEN -1
             ELSE PlusCompareFrom(a, b, c, i - 1, left * 2^kBigitSize)

PlusCompareLonger(a, b, c) ==
    IF BigitLength(a) + 1 < BigitLength(c) THEN -1
    ELSE IF BigitLength(a) > BigitLength(c) THEN 1
    ELSE IF a.exponent >= BigitLength(b) /\ BigitLength(a) < BigitLength(c) THEN -1
    ELSE PlusCompareFrom(a, b, c, BigitLength(c) - 1, 0)

PlusCompare(a, b, c) ==
    IF BigitLength(a) < BigitLength(b) THEN PlusCompareLonger(b, a, c) ELSE PlusCompareLonger(a, b, c)

-----------------------------------------------------------------------------
(* Division with a small quotient *)

\* One pass over the bigits of the divisor; the rest of a product and of a
\* borrow go on together.
RECURSIVE RemovedTimes(_, _, _, _)
RemovedTimes(bigits, columns, factor, borrow) ==
    IF columns = <<>> THEN [bigits |-> <<>>, above |-> bigits, borrow |-> borrow]
    ELSE LET remove == DoubleChunk(borrow + factor * Head(columns))
             difference == Chunk(Head(bigits) - Bigit(remove))
             rest == RemovedTimes(Tail(bigits), Tail(columns), factor,
                         Chunk(difference \div 2^(kChunkSize - 1) + AboveBigit(remove)))
         IN  [rest EXCEPT !.bigits = <<Bigit(difference)>> \o @]

\* The loop over the bigits above steps by two: it takes the borrow from the
\* first, the third and so on, and stops without Clamp when there is none.
RECURSIVE BorrowByTwo(_, _)
BorrowByTwo(above, borrow) ==
    IF above = <<>> \/ borrow = 0 THEN above
    ELSE LET difference == Chunk(Head(above) - borrow)
             skipped == SubSeq(above, 2, Min({2, Len(above)}))
         IN  <<Bigit(difference)>> \o skipped
             \o BorrowByTwo(SubSeq(above, 3, Len(above)), difference \div 2^(kChunkSize - 1))

SubtractRemoved(x, other, removed) ==
    LET all == [x EXCEPT !.bigits = Below(x, other) \o removed.bigits \o BorrowByTwo(removed.above, removed.borrow)]
    IN  IF removed.above # <<>> /\ removed.borrow = 0 THEN all ELSE Clamp(all)

RECURSIVE SubtractTimes(_, _, _)
SubtractTimes(x, other, factor) ==
    IF factor = 0 THEN x
    ELSE IF factor < 3 THEN SubtractTimes(SubtractBignum(x, other), other, factor - 1)
    ELSE SubtractRemoved(x, other, RemovedTimes(AtAndAbove(x, other), other.bigits, factor, 0))

\* Multiples of the top bigit are removed until both are equally long.
RECURSIVE RemoveTop(_, _, _)
RemoveTop(x, other, result) ==
    IF BigitLength(x) <= BigitLength(other) THEN [rest |-> x, result |-> result]
    ELSE RemoveTop(SubtractTimes(x, other, Last(x.bigits)), other, result + Last(x.bigits))

RECURSIVE SubtractWhile(_, _, _)
SubtractWhile(x, other, result) ==
    IF Compare(other, x) <= 0 THEN SubtractWhile(SubtractBignum(x, other), other, result + 1)
    ELSE [rest |-> x, result |-> result]

AfterEstimate(top, other, estimate) ==
    [rest |-> SubtractTimes(top.rest, other, estimate), result |-> top.result + estimate]
SubtractMore(divided, other) == SubtractWhile(divided.rest, other, divided.result)

DivideTop(top, other) ==
    LET this_bigit == Last(top.rest.bigits)
        other_bigit == Last(other.bigits)
        estimate == this_bigit \div (other_bigit + 1)
        quotient == this_bigit \div other_bigit
    IN  IF Len(other.bigits) = 1
        THEN [rest |-> Clamp([top.rest EXCEPT !.bigits[Len(top.rest.bigits)] = @ - other_bigit * quotient]),
              result |-> top.result + quotient]
        ELSE IF other_bigit * (estimate + 1) > this_bigit THEN AfterEstimate(top, other, estimate)
        ELSE SubtractMore(AfterEstimate(top, other, estimate), other)

DivideModuloIntBignum(x, other) ==
    IF BigitLength(x) < BigitLength(other) THEN [rest |-> x, result |-> 0]
    ELSE DivideTop(RemoveTop(Align(x, other), other, 0), other)
=============================================================================
