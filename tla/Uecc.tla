-------------------------------- MODULE Uecc --------------------------------
(***************************************************************************)
(* The elliptic-curve code of micro-ecc (vendors/ocaml-uecc/src/uECC.c and  *)
(* curve-specific.h): the co-Z Montgomery ladder, key generation, ECDH,     *)
(* point compression and ECDSA.  A number is itself here, with the width of *)
(* num_words words where it can overflow; module UeccVli has the word-level *)
(* arithmetic that computes the modular operations below.                   *)
(*                                                                          *)
(* A curve is a record: p, n, num_n_bits, G and b as in uECC_Curve_t;       *)
(* num_bits the bits of num_words words (which also hold n); byte the bits  *)
(* of a byte and num_bytes the bytes of a coordinate; kind "default"        *)
(* (a = -3), "k1" (a = 0) or "secp224r1" (its own square root), for the     *)
(* sets of function pointers.                                               *)
(***************************************************************************)
EXTENDS Integers, Sequences

CONSTANT uECC_RNG_MAX_TRIES

NumBits(x) == CHOOSE i \in 0 .. 31 : x < 2 ^ i /\ (i > 0 => x >= 2 ^ (i - 1))
testBit(x, i) == (x \div 2 ^ i) % 2

-----------------------------------------------------------------------------
(* Modular arithmetic *)

modMult(l, r, m) == (l * r) % m
\* The fast reduction is taken for the residue; UeccCases!ReductionsExact says
\* what it is, and for which rare products secp256k1's differs.
modMult_fast(c, l, r) == modMult(l, r, c.p)
modSquare_fast(c, x) == modMult(x, x, c.p)

modAdd(c, l, r, m) ==
    LET sum == l + r
    IN  IF sum >= 2 ^ c.num_bits \/ m <= sum THEN (sum - m) % 2 ^ c.num_bits ELSE sum

modSub(c, l, r) == IF l < r THEN (l - r + c.p) % 2 ^ c.num_bits ELSE l - r

modInv(x, m) == IF x = 0 THEN 0 ELSE CHOOSE y \in 1 .. m - 1 : (x * y) % m = 1

\* x / 2: an odd x has p added, the carry becomes the top bit.
Halve(c, x) == IF x % 2 = 1 THEN (x + c.p) \div 2 ELSE x \div 2

-----------------------------------------------------------------------------
(* Points: a pair of coordinates; a point in Jacobian form has its Z apart *)

EccPoint_isZero(P) == P = <<0, 0>>

apply_z(c, P, z) ==
    LET zz == modSquare_fast(c, z)
    IN  <<modMult_fast(c, P[1], zz), modMult_fast(c, P[2], modMult_fast(c, zz, z))>>

\* The slope of the tangent, times z: 3/2 (x^2 - z^4), or 3/2 x^2.
Slope(c, x, z) ==
    LET zz == modSquare_fast(c, z)
        sum == modAdd(c, x, zz, c.p)
        m == IF c.kind = "k1" THEN modSquare_fast(c, x)
             ELSE modMult_fast(c, sum, modSub(c, sum, modAdd(c, zz, zz, c.p)))
    IN  Halve(c, modAdd(c, m, modAdd(c, m, m, c.p), c.p))

TangentX(c, slope, a) == modSub(c, modSub(c, modSquare_fast(c, slope), a), a)

TangentY(c, slope, a, x3, y4) ==
    modSub(c, modMult_fast(c, slope, modSub(c, a, x3)), y4)

Doubled(c, slope, a, x3, y4) == <<x3, TangentY(c, slope, a, x3, y4)>>

double_jacobian(c, P, z) ==
    IF z = 0 THEN [pt |-> P, z |-> z]
    ELSE LET yy == modSquare_fast(c, P[2])
             a == modMult_fast(c, P[1], yy)
             slope == Slope(c, P[1], z)
         IN  [pt |-> Doubled(c, slope, a, TangentX(c, slope, a), modSquare_fast(c, yy)),
              z |-> modMult_fast(c, P[2], z)]

\* P and Q share a Z.  The pair of P with the new Z and of P + Q.
XYcZ_add(c, P, Q) ==
    LET a == modSquare_fast(c, modSub(c, Q[1], P[1]))
        b == modMult_fast(c, P[1], a)
        cc == modMult_fast(c, Q[1], a)
        dy == modSub(c, Q[2], P[2])
        e == modMult_fast(c, P[2], modSub(c, cc, b))
        x3 == modSub(c, modSub(c, modSquare_fast(c, dy), b), cc)
    IN  << <<b, e>>, <<x3, modSub(c, modMult_fast(c, dy, modSub(c, b, x3)), e)>> >>

\* The pair of P - Q and of P + Q.
XYcZ_addC(c, P, Q) ==
    LET a == modSquare_fast(c, modSub(c, Q[1], P[1]))
        b == modMult_fast(c, P[1], a)
        cc == modMult_fast(c, Q[1], a)
        sy == modAdd(c, Q[2], P[2], c.p)
        dy == modSub(c, Q[2], P[2])
        e == modMult_fast(c, P[2], modSub(c, cc, b))
        bc == modAdd(c, b, cc, c.p)
        x3 == modSub(c, modSquare_fast(c, dy), bc)
        xm == modSub(c, modSquare_fast(c, sy), bc)
    IN  << <<xm, modSub(c, modMult_fast(c, modSub(c, xm, b), sy), e)>>,
           <<x3, modSub(c, modMult_fast(c, dy, modSub(c, b, x3)), e)>> >>

\* R[1] is twice the point and R[0] the point, both with the Z of the double.
XYcZ_initial_double(c, P, initial_Z) ==
    LET d == double_jacobian(c, apply_z(c, P, initial_Z), initial_Z)
    IN  <<apply_z(c, P, d.z), d.pt>>

\* R[nb] and R[1 - nb], and the pair that has the given points there.
At(R, nb) == R[nb + 1]
Cells(nb, at_nb, at_other) == IF nb = 0 THEN <<at_nb, at_other>> ELSE <<at_other, at_nb>>

LadderAddC(c, R, nb) ==
    LET s == XYcZ_addC(c, At(R, 1 - nb), At(R, nb)) IN Cells(nb, s[2], s[1])

LadderAdd(c, R, nb) ==
    LET s == XYcZ_add(c, At(R, nb), At(R, 1 - nb)) IN Cells(nb, s[1], s[2])

\* s holds the pair R and the bit i.
RECURSIVE Ladder(_, _, _)
Ladder(c, s, scalar) ==
    IF s.i = 0 THEN s.R
    ELSE LET nb == 1 - testBit(scalar, s.i)
         IN  Ladder(c, [R |-> LadderAdd(c, LadderAddC(c, s.R, nb), nb), i |-> s.i - 1], scalar)

\* 1/Z, from the coordinates of the difference, which is the point itself.
FinalZ(c, R, nb, P) ==
    LET other == At(R, 1 - nb)
        z == modMult_fast(c, modMult_fast(c, modSub(c, At(R, 1)[1], At(R, 0)[1]), other[2]), P[1])
    IN  modMult_fast(c, modMult_fast(c, modInv(z, c.p), P[2]), other[1])

LadderEnd(c, R, nb, P) == apply_z(c, At(LadderAdd(c, R, nb), 0), FinalZ(c, R, nb, P))

EccPoint_mult(c, P, scalar, initial_Z, num_bits) ==
    LET nb == 1 - testBit(scalar, 0)
        R == Ladder(c, [R |-> XYcZ_initial_double(c, P, initial_Z), i |-> num_bits - 2], scalar)
    IN  LadderEnd(c, LadderAddC(c, R, nb), nb, P)

\* Faulty variant of regularize_k: n is added once whatever the length.
RegularizeOnce(c, k) == (k + c.n) % 2 ^ c.num_bits

\* k + n or k + 2n, whichever has num_n_bits + 1 bits; the top one may be
\* lost, and EccPoint_mult never looks at it.
regularize_k(c, k) ==
    LET k0 == (k + c.n) % 2 ^ c.num_bits
        carry == \/ k + c.n >= 2 ^ c.num_bits
                 \/ c.num_n_bits < c.num_bits /\ testBit(k0, c.num_n_bits) = 1
    IN  IF carry THEN k0 ELSE (k0 + c.n) % 2 ^ c.num_bits

x_side(c, x) ==
    IF c.kind = "k1"
    THEN modAdd(c, modMult_fast(c, modSquare_fast(c, x), x), c.b, c.p)
    ELSE modAdd(c, modMult_fast(c, modSub(c, modSquare_fast(c, x), 3), x), c.b, c.p)

RECURSIVE Power(_, _, _, _, _)
Power(c, a, e, i, result) ==
    IF i <= 1 THEN result
    ELSE LET sq == modSquare_fast(c, result)
         IN  Power(c, a, e, i - 1, IF testBit(e, i) = 1 THEN modMult_fast(c, sq, a) ELSE sq)

\* a^((p + 1) / 4): the two low bits of p + 1 are not visited.
mod_sqrt_default(c, a) == Power(c, a, c.p + 1, NumBits(c.p + 1) - 1, 1)

\* The square root for secp224r1, whose p is not 3 (mod 4): p - 1 = 2^s q with
\* q = 2^(2^m) - 1.  The curve has m and s as rp_steps and two_adicity (7 and
\* 96 there).  A step works on triples d, e, f.
mod_sqrt_secp224r1_rs(c, t) ==
    LET dd == modSquare_fast(c, t.d)
        twice(x) == modAdd(c, x, x, c.p)
    IN  [d |-> modAdd(c, dd, t.f, c.p),
         e |-> twice(modMult_fast(c, t.d, t.e)),
         f |-> twice(twice(modMult_fast(c, dd, t.f)))]

RECURSIVE mod_sqrt_secp224r1_rss(_, _, _)
mod_sqrt_secp224r1_rss(c, t, j) ==
    IF j = 0 THEN t ELSE mod_sqrt_secp224r1_rss(c, mod_sqrt_secp224r1_rs(c, t), j - 1)

\* Faulty variant of mod_sqrt_secp224r1_rm: the product of the e is not negated.
RmUnsigned(c, a, t0, t1) ==
    LET ee == modMult_fast(c, modMult_fast(c, t0.e, t1.e), a)
        e2 == modAdd(c, modMult_fast(c, t1.d, t0.e), modMult_fast(c, t0.d, t1.e), c.p)
    IN  [d |-> modAdd(c, modMult_fast(c, t0.d, t1.d), ee, c.p),
         e |-> e2,
         f |-> modSub(c, c.p, modMult_fast(c, modSquare_fast(c, e2), a))]

mod_sqrt_secp224r1_rm(c, a, t0, t1) ==
    LET ee == modMult_fast(c, modMult_fast(c, t0.e, t1.e), a)
        e2 == modAdd(c, modMult_fast(c, t1.d, t0.e), modMult_fast(c, t0.d, t1.e), c.p)
    IN  [d |-> modAdd(c, modMult_fast(c, t0.d, t1.d), modSub(c, c.p, ee), c.p),
         e |-> e2,
         f |-> modSub(c, c.p, modMult_fast(c, modSquare_fast(c, e2), a))]

RECURSIVE RpLoop(_, _, _, _)
RpLoop(c, a, t, i) ==
    IF i = c.rp_steps THEN t
    ELSE RpLoop(c, a,
                mod_sqrt_secp224r1_rm(c, a, mod_sqrt_secp224r1_rss(c, t, 2 ^ i), t), i + 1)

mod_sqrt_secp224r1_rp(c, a) ==
    RpLoop(c, a, [d |-> a, e |-> 1, f |-> modSub(c, c.p, a)], 0)

\* The triple before the one whose d is 0.
RECURSIVE RootLoop(_, _, _, _)
RootLoop(c, t0, t1, i) ==
    IF i >= c.two_adicity THEN t0
    ELSE LET t2 == mod_sqrt_secp224r1_rs(c, t1)
         IN  IF t2.d = 0 THEN t1 ELSE RootLoop(c, t1, t2, i + 1)

mod_sqrt_secp224r1(c, a) ==
    LET t == mod_sqrt_secp224r1_rp(c, a)
        root == RootLoop(c, t, mod_sqrt_secp224r1_rs(c, t), 1)
    IN  modMult_fast(c, root.d, modInv(root.e, c.p))

\* The function pointer of the curve.
mod_sqrt(c, a) == IF c.kind = "secp224r1" THEN mod_sqrt_secp224r1(c, a)
                  ELSE mod_sqrt_default(c, a)

-----------------------------------------------------------------------------
(* Keys *)

\* The random generator is the sequence of what its calls will fill in; it
\* fails when the sequence is used up.
Drawn(ok, value, rng) == [ok |-> ok, value |-> value, rng |-> rng]

RECURSIVE Draw(_, _, _)
Draw(top, rng, tries) ==
    IF tries = uECC_RNG_MAX_TRIES \/ rng = << >> THEN Drawn(FALSE, 0, rng)
    ELSE LET random == Head(rng) % 2 ^ NumBits(top)
         IN  IF random # 0 /\ top > random THEN Drawn(TRUE, random, Tail(rng))
             ELSE Draw(top, Tail(rng), tries + 1)

uECC_generate_random_int(top, rng) == Draw(top, rng, 0)

EccPoint_compute_public_key(c, private) ==
    EccPoint_mult(c, c.G, regularize_k(c, private), 1, c.num_n_bits + 1)

NoKey == [ok |-> FALSE, private |-> 0, public |-> <<0, 0>>]
Key(private, public) == [ok |-> TRUE, private |-> private, public |-> public]

RECURSIVE KeyLoop(_, _, _)
KeyLoop(c, rng, tries) ==
    IF tries = uECC_RNG_MAX_TRIES THEN NoKey
    ELSE LET draw == uECC_generate_random_int(c.n, rng)
             public == EccPoint_compute_public_key(c, draw.value)
         IN  IF ~draw.ok THEN NoKey
             ELSE IF EccPoint_isZero(public) THEN KeyLoop(c, draw.rng, tries + 1)
             ELSE Key(draw.value, public)

uECC_make_key(c, rng) == KeyLoop(c, rng, 0)

\* Faulty variant of uECC_compute_public_key: the range is not checked.
ComputePublicKeyAny(c, private) ==
    LET public == EccPoint_compute_public_key(c, private)
    IN  IF EccPoint_isZero(public) THEN NoKey ELSE Key(private, public)

uECC_compute_public_key(c, private) ==
    IF private = 0 \/ private >= c.n THEN NoKey
    ELSE LET public == EccPoint_compute_public_key(c, private)
         IN  IF EccPoint_isZero(public) THEN NoKey ELSE Key(private, public)

\* g_rng_function is a set: without a generator the initial Z is 1.
uECC_shared_secret(c, public, private, g_rng_function) ==
    LET z == IF g_rng_function = {} THEN Drawn(TRUE, 1, << >>)
             ELSE uECC_generate_random_int(c.p, CHOOSE rng \in g_rng_function : TRUE)
        P == EccPoint_mult(c, public, regularize_k(c, private), z.value, c.num_n_bits + 1)
    IN  [ok |-> z.ok /\ ~EccPoint_isZero(P), secret |-> IF z.ok THEN P[1] ELSE 0]

uECC_compress(P) == <<2 + (P[2] % 2), P[1]>>

\* Faulty variant of uECC_decompress: the root is taken whatever its parity.
DecompressAnyParity(c, compressed) ==
    <<compressed[2], mod_sqrt(c, x_side(c, compressed[2]))>>

uECC_decompress(c, compressed) ==
    LET y == mod_sqrt(c, x_side(c, compressed[2]))
    IN  <<compressed[2],
          IF y % 2 # compressed[1] % 2 THEN (c.p - y) % 2 ^ c.num_bits ELSE y>>

uECC_valid_point(c, P) ==
    /\ ~EccPoint_isZero(P)
    /\ P[1] < c.p /\ P[2] < c.p
    /\ modSquare_fast(c, P[2]) = x_side(c, P[1])

-----------------------------------------------------------------------------
(* ECDSA *)

\* Faulty variant of bits2int: the bits beyond those of n are not shifted out.
BitsUnshifted(c, hash) ==
    LET num_n_bytes == (c.num_n_bits + c.byte - 1) \div c.byte
        size == IF hash.size > num_n_bytes THEN num_n_bytes ELSE hash.size
    IN  hash.bits \div 2 ^ ((hash.size - size) * c.byte)

\* A hash is its bytes read as one number, and how many they are.  It is
\* reduced mod n only if it had to be shifted.
bits2int(c, hash) ==
    LET num_n_bytes == (c.num_n_bits + c.byte - 1) \div c.byte
        size == IF hash.size > num_n_bytes THEN num_n_bytes ELSE hash.size
        native == hash.bits \div 2 ^ ((hash.size - size) * c.byte)
        shifted == native \div 2 ^ (size * c.byte - c.num_n_bits)
    IN  IF size * c.byte <= c.num_n_bits THEN native
        ELSE IF shifted >= c.n THEN shifted - c.n ELSE shifted

Unsigned(rng) == [ok |-> FALSE, r |-> 0, s |-> 0, rng |-> rng]

\* blind is the number that hides k from the inversion.
SignBlinded(c, private, hash, k, r, blind) ==
    LET inverse == modMult(modInv(modMult(k, blind.value, c.n), c.n), blind.value, c.n)
        sum == modAdd(c, bits2int(c, hash), modMult(private, r, c.n), c.n)
        s == modMult(sum, inverse, c.n)
    IN  IF NumBits(s) > c.num_bytes * c.byte THEN Unsigned(blind.rng)
        ELSE [ok |-> TRUE, r |-> r, s |-> s, rng |-> blind.rng]

\* r is the x of the point as it is, not mod n.
uECC_sign_with_k(c, private, hash, k, rng) ==
    LET r == EccPoint_mult(c, c.G, regularize_k(c, k), 1, c.num_n_bits + 1)[1]
        blind == uECC_generate_random_int(c.n, rng)
    IN  IF k = 0 \/ k >= c.n \/ r = 0 THEN Unsigned(rng)
        ELSE IF ~blind.ok THEN Unsigned(blind.rng)
        ELSE SignBlinded(c, private, hash, k, r, blind)

RECURSIVE SignLoop(_, _, _, _, _)
SignLoop(c, private, hash, rng, tries) ==
    IF tries = uECC_RNG_MAX_TRIES THEN Unsigned(rng)
    ELSE LET draw == uECC_generate_random_int(c.n, rng)
             sig == uECC_sign_with_k(c, private, hash, draw.value, draw.rng)
         IN  IF ~draw.ok THEN Unsigned(draw.rng)
             ELSE IF sig.ok THEN sig ELSE SignLoop(c, private, hash, sig.rng, tries + 1)

uECC_sign(c, private, hash, rng) == SignLoop(c, private, hash, rng, 0)

\* G + Q in affine coordinates.
SumOf(c, Q) ==
    apply_z(c, XYcZ_add(c, c.G, Q)[2], modInv(modSub(c, Q[1], c.G[1]), c.p))

\* Adds the affine point T to the accumulator R.
Added(c, R, T) ==
    LET t == apply_z(c, T, R.z)
    IN  [pt |-> XYcZ_add(c, t, R.pt)[2],
         z |-> modMult_fast(c, R.z, modSub(c, R.pt[1], t[1]))]

\* points[0] is no point.  R is the accumulator with the bit i to visit.
RECURSIVE Shamir(_, _, _, _, _)
Shamir(c, points, u1, u2, R) ==
    IF R.i < 0 THEN R
    ELSE LET index == testBit(u1, R.i) + 2 * testBit(u2, R.i)
             D == double_jacobian(c, R.pt, R.z)
             A == IF index = 0 THEN D ELSE Added(c, D, points[index])
         IN  Shamir(c, points, u1, u2, [pt |-> A.pt, z |-> A.z, i |-> R.i - 1])

ShamirFrom(c, points, u1, u2, num_bits) ==
    Shamir(c, points, u1, u2,
           [pt |-> points[testBit(u1, num_bits - 1) + 2 * testBit(u2, num_bits - 1)],
            z |-> 1, i |-> num_bits - 2])

smax(a, b) == IF a > b THEN a ELSE b

\* Faulty variant of Accepts: the x of the point is not reduced modulo n.
AcceptsUnreduced(c, R, r) == apply_z(c, R.pt, modInv(R.z, c.p))[1] = r

Accepts(c, R, r) ==
    LET rx == apply_z(c, R.pt, modInv(R.z, c.p))[1]
    IN  (IF c.n <= rx THEN rx - c.n ELSE rx) = r

VerifyWith(c, Q, r, u1, u2) ==
    Accepts(c, ShamirFrom(c, <<c.G, Q, SumOf(c, Q)>>, u1, u2, smax(NumBits(u1), NumBits(u2))), r)

uECC_verify(c, Q, hash, r, s) ==
    /\ r # 0 /\ s # 0
    /\ r < c.n /\ s < c.n
    /\ VerifyWith(c, Q, r, modMult(bits2int(c, hash), modInv(s, c.n), c.n),
                  modMult(r, modInv(s, c.n), c.n))
=============================================================================
