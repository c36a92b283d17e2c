------------------------------ MODULE UeccVli ------------------------------
(***************************************************************************)
(* The multi-word arithmetic of micro-ecc (vendors/ocaml-uecc/src/uECC.c    *)
(* and the mmod_fast routines of curve-specific.h), in the 64-bit build     *)
(* with SUPPORTS_INT128 and uECC_SQUARE_FUNC.  A VLI is the sequence of its *)
(* words, least significant first; every word operation wraps at            *)
(* 2^uECC_WORD_BITS as it does in C.  The word size is a constant, so that  *)
(* all the values of a few words can be tried; the primes scale with it (a  *)
(* half word stands for the 32 bits the reductions shift by).               *)
(***************************************************************************)
EXTENDS Integers, Sequences, SequencesExt

CONSTANTS uECC_WORD_BITS,   \* an even number; 64 in the build
          uECC_WORD_SIZE    \* the bytes of a word; 8 in the build

B == 2 ^ uECC_WORD_BITS
H == 2 ^ (uECC_WORD_BITS \div 2)
HIGH_BIT_SET == B \div 2

ASSUME WordAssumption == /\ uECC_WORD_BITS \in Nat /\ uECC_WORD_BITS % 2 = 0
                         /\ uECC_WORD_SIZE \in Nat \ {0}
                         /\ uECC_WORD_BITS % uECC_WORD_SIZE = 0

\* The number a VLI stands for, and the VLI of n words of a number.
Value(v) == FoldLeft(LAMBDA sum, i : sum + v[i] * B ^ (i - 1), 0, [i \in 1 .. Len(v) |-> i])
Words(x, n) == [i \in 1 .. n |-> (x \div B ^ (i - 1)) % B]

Low(v, n) == SubSeq(v, 1, n)
From(v, k) == SubSeq(v, k + 1, Len(v))
Flag(b) == IF b THEN 1 ELSE 0

\* The element of a set of one.  TLC computes a value bound by a set at once.
Only(S) == CHOOSE x \in S : TRUE

-----------------------------------------------------------------------------
(* Comparing and shifting *)

uECC_vli_isZero(v) == \A i \in 1 .. Len(v) : v[i] = 0

uECC_vli_testBit(v, bit) ==
    (v[bit \div uECC_WORD_BITS + 1] \div 2 ^ (bit % uECC_WORD_BITS)) % 2 = 1

vli_numDigits(v) == Max({0} \cup {i \in 1 .. Len(v) : v[i] # 0})

uECC_vli_numBits(v) ==
    LET num_digits == vli_numDigits(v)
    IN  IF num_digits = 0 THEN 0
        ELSE (num_digits - 1) * uECC_WORD_BITS
               + Min({i \in 0 .. uECC_WORD_BITS : v[num_digits] < 2 ^ i})

uECC_vli_cmp_unsafe(left, right) ==
    LET differ == {i \in 1 .. Len(left) : left[i] # right[i]}
    IN  IF differ = {} THEN 0
        ELSE IF left[Max(differ)] > right[Max(differ)] THEN 1 ELSE -1

\* From the top word down, the low bit of each word carried into the next.
RECURSIVE ShiftDown(_, _, _)
ShiftDown(v, result, carry) ==
    IF Len(result) = Len(v) THEN result
    ELSE LET temp == v[Len(v) - Len(result)]
         IN  ShiftDown(v, <<temp \div 2 + carry>> \o result, (temp * HIGH_BIT_SET) % B)

uECC_vli_rshift1(v) == ShiftDown(v, << >>, 0)

-----------------------------------------------------------------------------
(* Adding and subtracting: the carry into a word is kept when the sum      *)
(* equals the left word, and found by comparing them otherwise.            *)

\* Faulty variant of AddWords: the carry is lost where the sum equals the word.
RECURSIVE AddWordsLossy(_, _, _, _)
AddWordsLossy(left, right, result, carry) ==
    IF Len(result) = Len(left) THEN [word |-> result, carry |-> carry]
    ELSE LET i == Len(result) + 1
             sum == (left[i] + right[i] + carry) % B
         IN  AddWordsLossy(left, right, Append(result, sum), Flag(sum < left[i]))

RECURSIVE AddWords(_, _, _, _)
AddWords(left, right, result, carry) ==
    IF Len(result) = Len(left) THEN [word |-> result, carry |-> carry]
    ELSE LET i == Len(result) + 1
             sum == (left[i] + right[i] + carry) % B
         IN  AddWords(left, right, Append(result, sum),
                      IF sum # left[i] THEN Flag(sum < left[i]) ELSE carry)

uECC_vli_add(left, right) == AddWords(left, right, << >>, 0)

RECURSIVE SubWords(_, _, _, _)
SubWords(left, right, result, borrow) ==
    IF Len(result) = Len(left) THEN [word |-> result, borrow |-> borrow]
    ELSE LET i == Len(result) + 1
             diff == (left[i] - right[i] - borrow) % B
         IN  SubWords(left, right, Append(result, diff),
                      IF diff # left[i] THEN Flag(diff > left[i]) ELSE borrow)

uECC_vli_sub(left, right) == SubWords(left, right, << >>, 0)

uECC_vli_cmp(left, right) ==
    LET s == uECC_vli_sub(left, right)
    IN  Flag(~uECC_vli_isZero(s.word)) - 2 * s.borrow

uECC_vli_modAdd(left, right, mod) ==
    LET s == uECC_vli_add(left, right)
    IN  IF s.carry = 1 \/ uECC_vli_cmp_unsafe(mod, s.word) # 1
        THEN uECC_vli_sub(s.word, mod).word
        ELSE s.word

uECC_vli_modSub(left, right, mod) ==
    LET s == uECC_vli_sub(left, right)
    IN  IF s.borrow = 1 THEN uECC_vli_add(s.word, mod).word ELSE s.word

-----------------------------------------------------------------------------
(* Multiplying: column by column, the sum of a column in three words       *)

Columns == [r0 |-> 0, r1 |-> 0, r2 |-> 0]

Accumulate(r, p) ==
    LET r01 == (r.r1 * B + r.r0 + p) % (B * B)
    IN  [r0 |-> r01 % B, r1 |-> r01 \div B, r2 |-> (r.r2 + Flag(r01 < p)) % B]

muladd(a, b, r) == Accumulate(r, a * b)

mul2add(a, b, r) ==
    Accumulate([r EXCEPT !.r2 = (@ + (a * b) \div (B * HIGH_BIT_SET)) % B],
               (2 * a * b) % (B * B))

NextColumn(r) == [r0 |-> r.r1, r1 |-> r.r2, r2 |-> 0]

\* The indices of column k, counted from 0, in the order of the inner loop.
Column(k, n) == LET min == IF k < n THEN 0 ELSE k + 1 - n
                IN  [i \in 1 .. (IF k < n THEN k ELSE n - 1) - min + 1 |-> min + i - 1]

RECURSIVE MultColumns(_, _, _, _, _)
MultColumns(left, right, k, r, result) ==
    IF k = 2 * Len(left) - 1 THEN Append(result, r.r0)
    ELSE LET c == FoldLeft(LAMBDA s, i : muladd(left[i + 1], right[k - i + 1], s),
                           r, Column(k, Len(left)))
         IN  MultColumns(left, right, k + 1, NextColumn(c), Append(result, c.r0))

uECC_vli_mult(left, right) == MultColumns(left, right, 0, Columns, << >>)

\* Each pair of equal products is added once, doubled.
Squared(left, i, j, r) == IF i < j THEN mul2add(left[i + 1], left[j + 1], r)
                          ELSE IF i = j THEN muladd(left[i + 1], left[j + 1], r)
                          ELSE r

RECURSIVE SquareColumns(_, _, _, _)
SquareColumns(left, k, r, result) ==
    IF k = 2 * Len(left) - 1 THEN Append(result, r.r0)
    ELSE LET c == FoldLeft(LAMBDA s, i : Squared(left, i, k - i, s), r, Column(k, Len(left)))
         IN  SquareColumns(left, k + 1, NextColumn(c), Append(result, c.r0))

uECC_vli_square(left) == SquareColumns(left, 0, Columns, << >>)

-----------------------------------------------------------------------------
(* The general reduction and the inverse *)

\* mod shifted so that its highest bit is the highest of 2n words.  The top
\* word of every modulus is not 0, so that the word shift is n.
ShiftedToTop(mod) ==
    LET n == Len(mod)
        bit_shift == n * uECC_WORD_BITS - uECC_vli_numBits(mod)
        over(i) == IF i = 1 THEN 0 ELSE mod[i - 1] \div 2 ^ (uECC_WORD_BITS - bit_shift)
    IN  [i \in 1 .. n |-> 0] \o [i \in 1 .. n |-> ((mod[i] * 2 ^ bit_shift) % B) + over(i)]

RECURSIVE SubtractAndShift(_)
SubtractAndShift(s) ==
    IF s.shift < 0 THEN s.v
    ELSE LET d == uECC_vli_sub(s.v, s.mod_multiple)
         IN  SubtractAndShift([v |-> IF d.borrow = 1 THEN s.v ELSE d.word,
                               mod_multiple |-> uECC_vli_rshift1(s.mod_multiple),
                               shift |-> s.shift - 1])

uECC_vli_mmod(product, mod) ==
    Low(SubtractAndShift([v |-> product, mod_multiple |-> ShiftedToTop(mod),
                          shift |-> 2 * Len(mod) * uECC_WORD_BITS - uECC_vli_numBits(mod)]),
        Len(mod))

uECC_vli_modMult(left, right, mod) == uECC_vli_mmod(uECC_vli_mult(left, right), mod)

EVEN(v) == v[1] % 2 = 0

\* Faulty variant of vli_modInv_update: the carry does not become the top bit.
UpdateCarryLost(uv, mod) ==
    uECC_vli_rshift1(IF EVEN(uv) THEN uv ELSE uECC_vli_add(uv, mod).word)

vli_modInv_update(uv, mod) ==
    LET s == IF EVEN(uv) THEN [word |-> uv, carry |-> 0] ELSE uECC_vli_add(uv, mod)
    IN  [uECC_vli_rshift1(s.word) EXCEPT ![Len(uv)] = @ + s.carry * HIGH_BIT_SET]

\* x - y after y's cofactor, halved: what both odd branches do to u or to v.
Cofactor(x, y, mod) ==
    LET up == IF uECC_vli_cmp_unsafe(x, y) < 0 THEN uECC_vli_add(x, mod).word ELSE x
    IN  vli_modInv_update(uECC_vli_sub(up, y).word, mod)

HalfDifference(x, y) == uECC_vli_rshift1(uECC_vli_sub(x, y).word)

InvStep(s, mod) ==
    IF EVEN(s.a)
    THEN [s EXCEPT !.a = uECC_vli_rshift1(@), !.u = vli_modInv_update(@, mod)]
    ELSE IF EVEN(s.b)
    THEN [s EXCEPT !.b = uECC_vli_rshift1(@), !.v = vli_modInv_update(@, mod)]
    ELSE IF uECC_vli_cmp_unsafe(s.a, s.b) > 0
    THEN [s EXCEPT !.a = HalfDifference(@, s.b), !.u = Cofactor(@, s.v, mod)]
    ELSE [s EXCEPT !.b = HalfDifference(@, s.a), !.v = Cofactor(@, s.u, mod)]

RECURSIVE InvLoop(_, _)
InvLoop(s, mod) == IF s.a = s.b THEN s.u ELSE InvLoop(InvStep(s, mod), mod)

uECC_vli_modInv(input, mod) ==
    IF uECC_vli_isZero(input) THEN input
    ELSE InvLoop([a |-> input, b |-> mod, u |-> Words(1, Len(mod)), v |-> Words(0, Len(mod))], mod)

-----------------------------------------------------------------------------
(* The reductions of each curve.  Hi and Lo keep a half of a word in place *)
(* (& 0xffffffff00000000, & 0xffffffff), Up and Down shift it by a half    *)
(* (<< 32, >> 32); the halves an | joins never overlap.                    *)

Hi(w) == (w \div H) * H
Lo(w) == w % H
Up(w) == (w % H) * H
Down(w) == w \div H

\* A result and the carries that have left it so far.
Start(v) == [word |-> v, carry |-> 0]

Add(acc, t) == LET s == uECC_vli_add(acc.word, t)
               IN  [word |-> s.word, carry |-> acc.carry + s.carry]

Sub(acc, t) == LET s == uECC_vli_sub(acc.word, t)
               IN  [word |-> s.word, carry |-> acc.carry - s.borrow]

AddDoubled(acc, t) == LET d == uECC_vli_add(t, t)
                      IN  Add([acc EXCEPT !.carry = @ + d.carry], d.word)

\* Faulty variant of TakeOff: p is taken off once at most.
TakeOffOnce(acc, p) ==
    IF acc.carry # 0 \/ uECC_vli_cmp_unsafe(p, acc.word) # 1 THEN Sub(acc, p).word ELSE acc.word

RECURSIVE TakeOff(_, _)
TakeOff(acc, p) ==
    IF acc.carry # 0 \/ uECC_vli_cmp_unsafe(p, acc.word) # 1
    THEN TakeOff(Sub(acc, p), p) ELSE acc.word

RECURSIVE PutBack(_, _)
PutBack(acc, p) == IF acc.carry < 0 THEN PutBack(Add(acc, p), p) ELSE acc.word

Settle(acc, p) == IF acc.carry < 0 THEN PutBack(acc, p) ELSE TakeOff(acc, p)

\* p = B^3 - B - 1
vli_mmod_fast_secp192r1(product, p) ==
    LET w(i) == product[i + 1]
    IN  TakeOff(Add(Add(Add(Start(Low(product, 3)),
                            <<w(3), w(4), w(5)>>),
                        <<0, w(3), w(4)>>),
                    <<w(5), w(5), 0>>), p)

\* p = H^7 - H^3 + 1
vli_mmod_fast_secp224r1(product, p) ==
    LET w(i) == product[i + 1]
        t == <<w(0), w(1), w(2), Lo(w(3))>>
        s1 == <<0, Hi(w(3)), w(4), Lo(w(5))>>
        s2 == <<0, Hi(w(5)), w(6), 0>>
        d1 == <<Down(w(3)) + Up(w(4)), Down(w(4)) + Up(w(5)), Down(w(5)) + Up(w(6)), Down(w(6))>>
        d2 == <<Down(w(5)) + Up(w(6)), Down(w(6)), 0, 0>>
        sum == uECC_vli_add(uECC_vli_add(t, s1).word, s2).word
    IN  Settle(Sub(Sub(Start(sum), d1), d2), p)

\* p = H^8 - H^7 + H^6 + H^3 - 1
vli_mmod_fast_secp256r1(product, p) ==
    LET w(i) == product[i + 1]
        s1 == <<0, Hi(w(5)), w(6), w(7)>>
        s2 == <<0, Up(w(6)), Down(w(6)) + Up(w(7)), Down(w(7))>>
        s3 == <<w(4), Lo(w(5)), 0, w(7)>>
        s4 == <<Down(w(4)) + Up(w(5)), Down(w(5)) + Hi(w(6)), w(7), Down(w(6)) + Up(w(4))>>
        d1 == <<Down(w(5)) + Up(w(6)), Down(w(6)), 0, Lo(w(4)) + Up(w(5))>>
        d2 == <<w(6), w(7), 0, Down(w(4)) + Hi(w(5))>>
        d3 == <<Down(w(6)) + Up(w(7)), Down(w(7)) + Up(w(4)), Down(w(4)) + Up(w(5)), Up(w(6))>>
        d4 == <<w(7), Hi(w(4)), w(5), Hi(w(6))>>
        doubled == AddDoubled(AddDoubled(Start(Low(product, 4)), s1), s2)
        plus == Only({Add(Add(acc, s3), s4) : acc \in {doubled}})
        minus == Only({Sub(Sub(acc, d1), d2) : acc \in {plus}})
    IN  Only({Settle(Sub(Sub(acc, d3), d4), p) : acc \in {minus}})

\* right times c, one word longer.
omega_mult_secp256k1(right, c) ==
    LET digit(acc, x) == LET r == muladd(c, x, acc.r)
                         IN  [r |-> NextColumn(r), result |-> Append(acc.result, r.r0)]
        all == FoldLeft(digit, [r |-> Columns, result |-> << >>], right)
    IN  Append(all.result, all.r.r0)

RECURSIVE TakeOffCarry(_, _, _)
TakeOffCarry(result, carry, p) ==
    IF carry = 0 THEN result
    ELSE TakeOffCarry(uECC_vli_sub(result, p).word, carry - 1, p)

\* p = B^n - c
vli_mmod_fast_secp256k1(product, p, c) ==
    LET n == Len(p)
        tmp == omega_mult_secp256k1(From(product, n), c) \o Words(0, n - 1)
        rq == omega_mult_secp256k1(From(tmp, n), c)
        sum == Add(Add(Start(Low(product, n)), Low(tmp, n)), Low(rq, n))
        result == TakeOffCarry(sum.word, sum.carry, p)
    IN  IF uECC_vli_cmp_unsafe(result, p) > 0 THEN uECC_vli_sub(result, p).word ELSE result

\* The top half of each word of right and the low half of the next, times
\* H/2 + 1; the carry is half a word wide.
omega_mult_secp160r1(right) ==
    LET digit(acc, i) ==
            LET tmp == Down(right[i]) + Up(right[i + 1])
                r == (tmp * (H \div 2) + tmp + acc.carry) % B
                over == r < tmp \/ (acc.carry # 0 /\ r = tmp)
            IN  [word |-> Append(acc.word, r),
                 carry |-> (tmp \div (2 * H) + Flag(over)) % H]
        all == FoldLeft(digit, Start(<< >>), <<1, 2, 3>>)
    IN  Append(all.word, all.carry)

RECURSIVE TakeOffAbove(_, _)
TakeOffAbove(result, p) ==
    IF uECC_vli_cmp_unsafe(result, p) > 0
    THEN TakeOffAbove(uECC_vli_sub(result, p).word, p) ELSE result

\* p = H^5 - H/2 - 1, in three words of which the last is half used.
vli_mmod_fast_secp160r1(product, p) ==
    LET half(v) == <<v[1], v[2], Lo(v[3])>>
        tmp == omega_mult_secp160r1(From(product, 2)) \o <<0, 0>>
        rq == omega_mult_secp160r1(From(tmp, 2))
        sum == uECC_vli_add(half(product), half(tmp)).word
    IN  TakeOffAbove(uECC_vli_add(sum, Low(rq, 3)).word, p)

-----------------------------------------------------------------------------
(* Bytes, most significant first *)

BYTE == 2 ^ (uECC_WORD_BITS \div uECC_WORD_SIZE)

uECC_vli_nativeToBytes(num_bytes, native) ==
    [i \in 1 .. num_bytes |->
        LET b == num_bytes - i
        IN  (native[b \div uECC_WORD_SIZE + 1] \div BYTE ^ (b % uECC_WORD_SIZE)) % BYTE]

uECC_vli_bytesToNative(bytes) ==
    LET num_bytes == Len(bytes)
        set(v, i) == LET b == num_bytes - i
                     IN  [v EXCEPT ![b \div uECC_WORD_SIZE + 1] =
                                       @ + bytes[i] * BYTE ^ (b % uECC_WORD_SIZE)]
    IN  FoldLeft(set, Words(0, (num_bytes + uECC_WORD_SIZE - 1) \div uECC_WORD_SIZE),
                 [i \in 1 .. num_bytes |-> i])
=============================================================================
