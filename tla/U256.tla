-------------------------------- MODULE U256 --------------------------------
(***************************************************************************)
(* The 256-bit arithmetic of guest/src/lib/u256.pnk, and the results that  *)
(* tools/gen_u256_vectors.py computes with unbounded integers.             *)
(*                                                                         *)
(* The sizes are parameters: a number has Limbs words (4), a word has two  *)
(* digits of Half bits (32, a power of two), and a byte has ByteBits (8).  *)
(* The rare branches of the division, which random 32-bit digits take once *)
(* in 2^31 times, are common when digits are small. A value is written as  *)
(* a number; the operations work on its limbs.                             *)
(***************************************************************************)
LOCAL INSTANCE Integers
LOCAL INSTANCE Sequences
LOCAL INSTANCE SequencesExt
LOCAL INSTANCE FiniteSetsExt
LOCAL INSTANCE Bitwise

CONSTANTS Half, Limbs, ByteBits

B     == 2^Half
W     == B * B                  \* a word
Word  == 2 * Half               \* its bits
Bits  == Word * Limbs
Digits == 2 * Limbs
Mod   == 2^Bits                 \* M256 + 1
Sign  == 2^(Bits - 1)
Bytes == Bits \div ByteBits
WordBytes == Word \div ByteBits

\* The number with these digits, lowest first.
RECURSIVE NumberIn(_, _)
NumberIn(base, ds) == IF ds = <<>> THEN 0 ELSE Head(ds) + base * NumberIn(base, Tail(ds))

-----------------------------------------------------------------------------
(* The reference: what the vectors expect of a, b and m *)

Low(x, n)  == x % 2^n
Bit(x, t)  == (x \div 2^t) % 2
Abs(x)     == IF x < 0 THEN -x ELSE x
BitLength(x)  == CHOOSE n \in 0..Bits : x < 2^n /\ (n > 0 => x >= 2^(n - 1))
ByteLength(x) == (BitLength(x) + ByteBits - 1) \div ByteBits

ToSigned(x) == IF x >= Sign THEN x - Mod ELSE x

SDiv(a, b) ==
    LET q == Abs(ToSigned(a)) \div Abs(ToSigned(b))
    IN  IF b = 0 THEN 0
        ELSE IF (ToSigned(a) < 0) # (ToSigned(b) < 0) THEN (-q) % Mod ELSE q % Mod

SMod(a, b) ==
    LET r == Abs(ToSigned(a)) % Abs(ToSigned(b))
    IN  IF b = 0 THEN 0 ELSE IF ToSigned(a) < 0 THEN (-r) % Mod ELSE r

\* >> of a negative number rounds down, as \div does.
Sar(a, n) ==
    IF n >= Bits THEN IF a >= Sign THEN Mod - 1 ELSE 0
    ELSE (ToSigned(a) \div 2^n) % Mod

SignExtend(b, x) ==
    LET t == ByteBits * b + ByteBits - 1
    IN  IF b >= Bytes - 1 THEN x
        ELSE IF Bit(x, t) = 1 THEN Low(x, t + 1) + (Mod - 2^(t + 1)) ELSE Low(x, t + 1)

ByteOf(i, x) == IF i >= Bytes THEN 0 ELSE (x \div 2^(ByteBits * (Bytes - 1 - i))) % 2^ByteBits

BytesOf(x) == [i \in 1..Bytes |-> ByteOf(i - 1, x)]   \* to_bytes(32, "big")
LeadingBytes(n, x) == SubSeq(BytesOf(x), 1, n)

RECURSIVE PowerMod(_, _)
PowerMod(a, n) == IF n = 0 THEN 1 ELSE (a * PowerMod(a, n - 1)) % Mod

Results(a, b, m) ==
    LET sh == b % (2 * Bits)
        fn == IF m % (2 * Bytes) > Bytes THEN Bytes ELSE m % (2 * Bytes)
    IN  [add |-> (a + b) % Mod, sub |-> (a - b) % Mod, mul |-> (a * b) % Mod,
         div |-> IF b = 0 THEN 0 ELSE a \div b,
         mod |-> IF b = 0 THEN 0 ELSE a % b,
         sdiv |-> SDiv(a, b),
         smod |-> SMod(a, b),
         addmod |-> IF m = 0 THEN 0 ELSE (a + b) % m,
         mulmod |-> IF m = 0 THEN 0 ELSE (a * b) % m,
         exp |-> PowerMod(a, sh),
         shl |-> IF sh < Bits THEN (a * 2^sh) % Mod ELSE 0,
         shr |-> IF sh < Bits THEN a \div 2^sh ELSE 0,
         sar |-> Sar(a, sh),
         signextend |-> SignExtend(b % (2 * Bytes), a),
         byte |-> ByteOf(b % (2 * Bytes), a),
         lt |-> a < b, gt |-> a > b, eq |-> a = b,
         slt |-> ToSigned(a) < ToSigned(b), sgt |-> ToSigned(a) > ToSigned(b),
         cmp |-> IF a < b THEN 0 ELSE IF a = b THEN 1 ELSE 2,
         is_zero |-> a = 0, fits_word |-> a < W, add_carry |-> a + b > Mod - 1,
         be_min |-> TRUE, from_low |-> a < W, minus_self |-> TRUE, neg_neg |-> TRUE,
         bit_length |-> BitLength(a), byte_length |-> ByteLength(a), min_len |-> ByteLength(a),
         and |-> a & b, or_not |-> a | (b ^^ (Mod - 1)), neg_xor |-> ((-a) % Mod) ^^ b,
         high |-> (a * b) \div Mod,
         from_be |-> NumberIn(2^ByteBits, Reverse(LeadingBytes(fn, a))),
         written |-> {BytesOf(a)}]

-----------------------------------------------------------------------------
(* Limbs: comparisons, bitwise operations, addition *)

Top == Limbs - 1
Limb(x, i) == (x \div W^i) % W
Assemble(limbs) == NumberIn(W, [i \in 1..Limbs |-> limbs[i - 1]])
OneLimb(x) == \A i \in 1..Top : Limb(x, i) = 0
GuestBit(x, t) == IF t >= Bits THEN 0 ELSE (Limb(x, t \div Word) \div 2^(t % Word)) % 2

\* The highest limb that differs decides; of the signed comparison, the top
\* limb is compared as a signed word.
GuestEq(a, b) == \A i \in 0..Top : Limb(a, i) = Limb(b, i)
GuestLt(a, b) ==
    \E i \in 0..Top : /\ Limb(a, i) < Limb(b, i)
                      /\ \A j \in (i + 1)..Top : Limb(a, j) = Limb(b, j)
SignedTop(x) == IF Limb(x, Top) >= W \div 2 THEN Limb(x, Top) - W ELSE Limb(x, Top)
GuestSlt(a, b) ==
    IF Limb(a, Top) # Limb(b, Top) THEN SignedTop(a) < SignedTop(b) ELSE GuestLt(a, b)
GuestCmp(a, b) == IF GuestLt(a, b) THEN 0 ELSE IF GuestEq(a, b) THEN 1 ELSE 2

Complement(a)  == Assemble([i \in 0..Top |-> Limb(a, i) ^^ (W - 1)])       \* u256_not
GuestAnd(a, b) == Assemble([i \in 0..Top |-> Limb(a, i) & Limb(b, i)])
GuestOr(a, b)  == Assemble([i \in 0..Top |-> Limb(a, i) | Limb(b, i)])
GuestXor(a, b) == Assemble([i \in 0..Top |-> Limb(a, i) ^^ Limb(b, i)])

\* Sums of words, lowest first: each leaves a word and carries the rest into the next.
RECURSIVE Carried(_, _)
Carried(sums, c) ==
    LET x == Head(sums) + c
    IN  IF sums = <<>> THEN <<c>> ELSE <<x % W>> \o Carried(Tail(sums), x \div W)

AddCarry(a, b, c) ==
    LET words == Carried([i \in 1..Limbs |-> Limb(a, i - 1) + Limb(b, i - 1)], c)
    IN  [sum |-> NumberIn(W, Front(words)), carry |-> Last(words)]
Add(a, b) == AddCarry(a, b, 0).sum
Sub(a, b) == AddCarry(a, Complement(b), 1).sum
Minus(x)  == AddCarry(0, Complement(x), 1).sum                     \* u256_neg

-----------------------------------------------------------------------------
(* Multiplication *)

\* mul64x64: two words by their halves, as <<lo, hi>>.
MulLimbs(x, y) ==
    LET mid == (x % B) * (y \div B) + (x \div B) * (y % B)
        lo  == (x % B) * (y % B) + (mid % B) * B
    IN  [lo |-> lo % W,
         hi |-> ((x \div B) * (y \div B) + ((mid % W) \div B) + (mid \div W) * B + lo \div W) % W]

\* The first n words: the k-th adds up the low words of the products whose
\* places add up to k, the high words of those before, and what the column
\* before carried. The columns past the n-th are not computed.
Product(a, b, n) ==
    LET p == [ij \in (0..Top) \X (0..Top) |-> MulLimbs(Limb(a, ij[1]), Limb(b, ij[2]))]
        places(k) == {ij \in DOMAIN p : ij[1] + ij[2] = k}
        column(k) == MapThenSumSet(LAMBDA ij : p[ij].lo, places(k))
                       + MapThenSumSet(LAMBDA ij : p[ij].hi, places(k - 1))
    IN  NumberIn(W, Front(Carried([k \in 1..n |-> column(k - 1)], 0)))

ShortProduct(x, y) == MulLimbs(x, y).lo + W * MulLimbs(x, y).hi
Mul(a, b) == IF OneLimb(a) /\ OneLimb(b) THEN ShortProduct(a, b) ELSE Product(a, b, Limbs)
MulFull(a, b) == Product(a, b, 2 * Limbs)

-----------------------------------------------------------------------------
(* divmnu: Knuth's algorithm D on digits, lowest first                       *)

\* Restoring division bit by bit: k is the remainder so far, i bits of lo are left
\* (udivmod, div64by32). The remainder doubles within a word.
RECURSIVE BitDivision(_, _, _, _, _)
BitDivision(k, lo, d, i, q) ==
    LET r == ((2 * k) % W) + ((lo \div 2^(i - 1)) % 2)
    IN  IF i = 0 THEN [q |-> q, r |-> k]
        ELSE IF r >= d THEN BitDivision(r - d, lo, d, i - 1, q + 2^(i - 1))
        ELSE BitDivision(r, lo, d, i - 1, q)

\* The zeros above the first one of a digit (nlz32), from w = Half \div 2.
RECURSIVE LeadingZeros(_, _)
LeadingZeros(x, w) ==
    IF w = 0 THEN 0
    ELSE IF x \div 2^(Half - w) = 0 THEN w + LeadingZeros(x * 2^w, w \div 2)
    ELSE LeadingZeros(x, w \div 2)

DigitsOf(x, n) == [i \in 1..n |-> (x \div B^(i - 1)) % B]
DigitsLen(ds) ==
    CHOOSE n \in 0..Len(ds) : (n > 0 => ds[n] # 0) /\ \A i \in (n + 1)..Len(ds) : ds[i] = 0

\* Correct the estimate of a quotient digit with the second digit of the
\* divisor, while the remainder fits a digit.
RECURSIVE Corrected(_, _, _, _, _)
Corrected(qhat, rhat, vtop, vsec, next) ==
    IF rhat < B /\ qhat * vsec > rhat * B + next
    THEN Corrected(qhat - 1, rhat + vtop, vtop, vsec, next)
    ELSE qhat

\* a mistake: the estimate is never one too large
FinishDigitTrusting(rest, v, qhat) == [q |-> qhat, rest |-> rest - qhat * v]

\* Multiply and subtract; add back when the estimate was one too large.
FinishDigit(rest, v, qhat) ==
    IF rest < qhat * v THEN [q |-> qhat - 1, rest |-> rest - qhat * v + v]
    ELSE [q |-> qhat, rest |-> rest - qhat * v]

\* The quotient digits from the j-th down: un is what is left of the dividend,
\* the divisor v has n digits and its top bit is set.
RECURSIVE LongDivision(_, _, _, _, _)
LongDivision(un, v, n, j, q) ==
    LET digit(i) == (un \div B^(j + i)) % B      \* un[j + i]
        vtop == v \div B^(n - 1)
        vsec == (v \div B^(n - 2)) % B
        est  == IF digit(n) >= vtop
                THEN [q |-> B - 1, r |-> digit(n) * B + digit(n - 1) - (B - 1) * vtop]
                ELSE BitDivision(digit(n), digit(n - 1), vtop, Half, 0)
        d    == FinishDigit(un \div B^j, v, Corrected(est.q, est.r, vtop, vsec, digit(n - 2)))
    IN  IF j < 0 THEN [q |-> q, r |-> un]
        ELSE LongDivision(d.rest * B^j + (un % B^j), v, n, j - 1, q * B + d.q)

\* One digit at a time, for a divisor of one digit.
RECURSIVE ShortDivision(_, _, _, _)
ShortDivision(us, d, k, q) ==
    IF us = <<>> THEN [q |-> q, r |-> k]
    ELSE LET qr == BitDivision(k, Last(us), d, Half, 0)
         IN  ShortDivision(Front(us), d, qr.r, q * B + qr.q)

\* digits_divmod, with the divisor normalised by s bits and the remainder
\* shifted back.
DivMod(u, d, size) ==
    LET us == DigitsOf(u, size)
        vs == DigitsOf(d, Digits)
        m  == DigitsLen(us)
        n  == DigitsLen(vs)
        s  == LeadingZeros(vs[n], Half \div 2)
        qr == LongDivision(u * 2^s, d * 2^s, n, m - n, 0)
    IN  CASE m < n  -> [q |-> 0, r |-> u]
          [] m >= n /\ n = 1 -> ShortDivision(SubSeq(us, 1, m), d, 0, 0)
          [] m >= n /\ n > 1 -> [q |-> qr.q, r |-> qr.r \div 2^s]

-----------------------------------------------------------------------------
(* The guest's operations *)

\* Two numbers of one limb are divided as words.
GuestDivMod(a, b) ==
    IF b = 0 THEN [q |-> 0, r |-> 0]
    ELSE IF GuestLt(a, b) THEN [q |-> 0, r |-> a]
    ELSE IF OneLimb(a) /\ OneLimb(b) THEN BitDivision(0, a, b, Word, 0)
    ELSE DivMod(a, b, Digits)

Negative(x)  == Limb(x, Top) >= W \div 2
Magnitude(x) == IF Negative(x) THEN Minus(x) ELSE x    \* u256_abs

GuestSDiv(a, b) ==
    LET q == GuestDivMod(Magnitude(a), Magnitude(b)).q
    IN  IF b = 0 THEN 0 ELSE IF Negative(a) # Negative(b) THEN Minus(q) ELSE q
GuestSMod(a, b) ==
    LET r == GuestDivMod(Magnitude(a), Magnitude(b)).r
    IN  IF b = 0 THEN 0 ELSE IF Negative(a) THEN Minus(r) ELSE r

\* The sum keeps its carry: two digits more are divided when there is one.
GuestAddMod(a, b, m) ==
    LET s == AddCarry(a, b, 0)
    IN  IF m = 0 THEN 0
        ELSE IF s.carry = 0 THEN GuestDivMod(s.sum, m).r
        ELSE DivMod(s.sum + Mod, m, Digits + 2).r

\* The product of two limbs is a number; if it fits in one limb it is divided as any
\* other is, and else its four digits are.
GuestMulMod(a, b, m) ==
    IF m = 0 THEN 0
    ELSE IF OneLimb(a) /\ OneLimb(b)
    THEN IF MulLimbs(a, b).hi = 0 THEN GuestDivMod(MulLimbs(a, b).lo, m).r
         ELSE DivMod(ShortProduct(a, b), m, 4).r
    ELSE DivMod(MulFull(a, b), m, 2 * Digits).r

\* bit_length64 halves the width, from w = Half.
RECURSIVE WordLength(_, _)
WordLength(x, w) ==
    IF w = 0 THEN x
    ELSE IF x \div 2^w # 0 THEN w + WordLength(x \div 2^w, w \div 2)
    ELSE WordLength(x, w \div 2)
GuestBitLength(a) ==
    LET i == CHOOSE i \in 0..Top : /\ \A j \in (i + 1)..Top : Limb(a, j) = 0
                                   /\ i > 0 => Limb(a, i) # 0
    IN  i * Word + WordLength(Limb(a, i), Half)
GuestByteLength(a) == (GuestBitLength(a) + ByteBits - 1) \div ByteBits

\* Square and multiply from the lowest bit; the last square is not made.
RECURSIVE ExpFrom(_, _, _, _)
ExpFrom(base, e, t, result) ==
    LET r == IF GuestBit(e, t) = 1 THEN Mul(result, base) ELSE result
        n == GuestBitLength(e)
    IN  IF t >= n THEN result
        ELSE ExpFrom(IF t + 1 < n THEN Mul(base, base) ELSE base, e, t + 1, r)

\* Limbs move as a whole; then each takes the bits that its neighbour loses.
Shl(a, n) ==
    LET s        == n % Word
        moved(i) == IF i < n \div Word THEN 0 ELSE Limb(a, i - (n \div Word))
        in(i)    == IF i = 0 \/ s = 0 THEN 0 ELSE moved(i - 1) \div 2^(Word - s)
    IN  IF n >= Bits THEN 0 ELSE Assemble([i \in 0..Top |-> ((moved(i) * 2^s) % W) | in(i)])
Shr(a, n) ==
    LET s        == n % Word
        moved(i) == IF i + (n \div Word) > Top THEN 0 ELSE Limb(a, i + (n \div Word))
        in(i)    == IF i = Top \/ s = 0 THEN 0 ELSE (moved(i + 1) * 2^(Word - s)) % W
    IN  IF n >= Bits THEN 0 ELSE Assemble([i \in 0..Top |-> (moved(i) \div 2^s) | in(i)])

GuestSar(a, n) ==
    IF n >= Bits THEN IF Negative(a) THEN Mod - 1 ELSE 0
    ELSE IF Negative(a) /\ n # 0 THEN GuestOr(Shr(a, n), Shl(Mod - 1, Bits - n))
    ELSE Shr(a, n)

GuestSignExtend(b, x) ==
    LET t    == b * ByteBits + ByteBits - 1
        mask == Shl(Mod - 1, t + 1)
    IN  IF b >= Bytes - 1 THEN x
        ELSE IF GuestBit(x, t) = 1 THEN GuestOr(x, mask) ELSE GuestAnd(x, Complement(mask))

\* The byte at pos, counted from the lowest.
LowByte(w)    == w % 2^ByteBits
ByteAt(x, pos) == LowByte(Limb(x, pos \div WordBytes) \div 2^((pos % WordBytes) * ByteBits))
GuestByte(i, x) == IF i >= Bytes THEN 0 ELSE ByteAt(x, Bytes - 1 - i)

\* A word in memory, lowest byte first, and with its bytes the other way round.
Stored(w) == [i \in 1..WordBytes |-> LowByte(w \div 2^((i - 1) * ByteBits))]
Loaded(p) == NumberIn(2^ByteBits, p)
Swapped(w) == Loaded(Reverse(Stored(w)))                           \* bswap64

\* An aligned number is read in words; else each byte goes to its place.
FromBe(p, aligned) ==
    LET n == Len(p)
        at(i) == {k \in 1..n : (n - k) \div WordBytes = i}
    IN  IF n = Bytes /\ aligned
        THEN Assemble([i \in 0..Top |->
               Swapped(Loaded(SubSeq(p, (Top - i) * WordBytes + 1, (Top - i + 1) * WordBytes)))])
        ELSE Assemble([i \in 0..Top |->
               MapThenSumSet(LAMBDA k : p[k] * 2^(((n - k) % WordBytes) * ByteBits), at(i))])

ToBe32(a, aligned) ==
    FlattenSeq([k \in 1..Limbs |->
      IF aligned THEN Stored(Swapped(Limb(a, Limbs - k))) ELSE Reverse(Stored(Limb(a, Limbs - k)))])
ToBeMin(a) == [k \in 1..GuestByteLength(a) |-> ByteAt(a, GuestByteLength(a) - k)]

GuestResults(a, b, m) ==
    LET sh == b % (2 * Bits)
        fn == IF m % (2 * Bytes) > Bytes THEN Bytes ELSE m % (2 * Bytes)
        qr == GuestDivMod(a, b)
    IN  [add |-> Add(a, b), sub |-> Sub(a, b), mul |-> Mul(a, b),
         div |-> qr.q, mod |-> qr.r,
         sdiv |-> GuestSDiv(a, b), smod |-> GuestSMod(a, b),
         addmod |-> GuestAddMod(a, b, m), mulmod |-> GuestMulMod(a, b, m),
         exp |-> ExpFrom(a, sh, 0, 1),
         shl |-> Shl(a, sh), shr |-> Shr(a, sh), sar |-> GuestSar(a, sh),
         signextend |-> GuestSignExtend(b % (2 * Bytes), a),
         byte |-> GuestByte(b % (2 * Bytes), a),
         lt |-> GuestLt(a, b), gt |-> GuestLt(b, a), eq |-> GuestEq(a, b),
         slt |-> GuestSlt(a, b), sgt |-> GuestSlt(b, a), cmp |-> GuestCmp(a, b),
         is_zero |-> GuestEq(a, 0), fits_word |-> OneLimb(a),
         add_carry |-> AddCarry(a, b, 0).carry = 1,
         be_min |-> GuestEq(FromBe(ToBeMin(a), TRUE), a),
         from_low |-> GuestEq(Limb(a, 0), a),
         minus_self |-> Sub(a, a) = 0, neg_neg |-> GuestEq(Minus(Minus(a)), a),
         bit_length |-> GuestBitLength(a), byte_length |-> GuestByteLength(a),
         min_len |-> Len(ToBeMin(a)),
         and |-> GuestAnd(a, b), or_not |-> GuestOr(a, Complement(b)),
         neg_xor |-> GuestXor(Minus(a), b),
         high |-> MulFull(a, b) \div Mod,
         from_be |-> FromBe(LeadingBytes(fn, a), m % 2 = 0),
         written |-> {ToBe32(a, TRUE), ToBe32(a, FALSE)}]

-----------------------------------------------------------------------------
\* Each of the results that t_u256.pnk writes is the one that unbounded integers
\* give; so are quotient and remainder of a dividend twice as long as a number
\* (u256.pnk, gen_u256_vectors.results).
ArithmeticAgrees(a, b, m) ==
    /\ GuestResults(a, b, m) = Results(a, b, m)
    /\ m # 0 => LET d == DivMod(a * Mod + b, m, 2 * Digits)
                IN  d.q = (a * Mod + b) \div m /\ d.r = (a * Mod + b) % m
=============================================================================
