----------------------------- MODULE UeccCases ------------------------------
(***************************************************************************)
(* The word arithmetic of micro-ecc (UeccVli) and its curve operations      *)
(* (Uecc) against their definitions.  A behaviour picks a job, a call with  *)
(* its arguments, and computes its result.                                  *)
(***************************************************************************)
EXTENDS UeccVli, Uecc, FiniteSets, FiniteSetsExt

VARIABLES job, out

job_vars == <<job, out>>

\* Four-bit words, for the primes that need a wider half word.
Wide == INSTANCE UeccVli WITH uECC_WORD_BITS <- 4, uECC_WORD_SIZE <- 2

-----------------------------------------------------------------------------
(* Words *)

Two == [1 .. 2 -> 0 .. B - 1]
Three == [1 .. 3 -> 0 .. B - 1]
Moduli == {29, 37, 59, 61}

VliJobs ==
    [op : {"words"}, a : Two, b : Two]
      \cup [op : {"mod"}, a : Three, b : {Words(x, 3) : x \in {0, 1, 5, 17, 28}}, m : Moduli]
      \cup [op : {"bytes"}, a : Three, n : {5, 6}]

VliRun(j) ==
    CASE j.op = "words" ->
           [add |-> uECC_vli_add(j.a, j.b), sub |-> uECC_vli_sub(j.a, j.b),
            mult |-> uECC_vli_mult(j.a, j.b), square |-> uECC_vli_square(j.a),
            cmp |-> uECC_vli_cmp(j.a, j.b), cmp_unsafe |-> uECC_vli_cmp_unsafe(j.a, j.b),
            bits |-> uECC_vli_numBits(j.a), half |-> uECC_vli_rshift1(j.a),
            set |-> {i \in 0 .. 2 * uECC_WORD_BITS - 1 : uECC_vli_testBit(j.a, i)}]
      [] j.op = "mod" ->
           [mult |-> uECC_vli_modMult(j.a, j.b, Words(j.m, 3)),
            inv |-> uECC_vli_modInv(j.a, Words(j.m, 3)),
            add |-> uECC_vli_modAdd(j.a, j.b, Words(j.m, 3)),
            sub |-> uECC_vli_modSub(j.a, j.b, Words(j.m, 3))]
      [] j.op = "bytes" -> uECC_vli_nativeToBytes(j.n, j.a)

\* The reductions of the five curves, at moduli of the same shape.
Prime == [secp192r1 |-> 59, secp256r1 |-> 199, secp256k1 |-> 61, secp224r1 |-> 16321, secp160r1 |-> 1021]
Edges(n, W) == {v \in 0 .. n : Wide!Words(v, 4) \in [1 .. 4 -> W]}

ReduceJobs ==
    [curve : {"secp192r1"}, a : 0 .. 58, b : 0 .. 58]
      \cup [curve : {"secp256r1"}, a : 0 .. 198, b : {v \in 0 .. 198 : v % 7 = 0} \cup 190 .. 198]
      \cup [curve : {"secp256k1"}, a : 0 .. 60, b : 0 .. 60]
      \cup [curve : {"secp224r1"}, a : Edges(16320, {0, 3, 12, 15}), b : {63, 64, 255, 4095, 16319, 16320}]
      \cup [curve : {"secp160r1"}, a : Edges(1020, {0, 1, 3, 14, 15}), b : {v \in 0 .. 1020 : v % 17 = 0}]

Narrow(j, n) == uECC_vli_mult(Words(j.a, n), Words(j.b, n))
Broad(j, n) == Wide!uECC_vli_mult(Wide!Words(j.a, n), Wide!Words(j.b, n))

ReduceRun(j) ==
    CASE j.curve = "secp192r1" -> Value(vli_mmod_fast_secp192r1(Narrow(j, 3), Words(59, 3)))
      [] j.curve = "secp256r1" -> Value(vli_mmod_fast_secp256r1(Narrow(j, 4), Words(199, 4)))
      [] j.curve = "secp256k1" -> Value(vli_mmod_fast_secp256k1(Narrow(j, 3), Words(61, 3), 3))
      [] j.curve = "secp224r1" ->
           Wide!Value(Wide!vli_mmod_fast_secp224r1(Broad(j, 4), Wide!Words(16321, 4)))
      [] j.curve = "secp160r1" ->
           Wide!Value(Wide!vli_mmod_fast_secp160r1(Broad(j, 3), Wide!Words(1021, 3)))

-----------------------------------------------------------------------------
(* Curves of prime order over small fields: n below p with all its words'  *)
(* bits in use (as secp256r1), n longer than p by a bit (as secp160r1),     *)
(* a = 0 (as secp256k1), and p - 1 = 2^two_adicity (2^(2^rp_steps) - 1) (as *)
(* secp224r1; a second field of that shape is for its square root alone).   *)

R1 == [kind |-> "default", p |-> 31, b |-> 25, G |-> <<9, 13>>, n |-> 23,
       num_n_bits |-> 5, num_bits |-> 5, byte |-> 5, num_bytes |-> 1]
S1 == [kind |-> "default", p |-> 31, b |-> 7, G |-> <<1, 6>>, n |-> 37,
       num_n_bits |-> 6, num_bits |-> 10, byte |-> 5, num_bytes |-> 1]
K1 == [kind |-> "k1", p |-> 31, b |-> 3, G |-> <<1, 2>>, n |-> 43,
       num_n_bits |-> 6, num_bits |-> 6, byte |-> 3, num_bytes |-> 2]
Curves == {R1, S1, K1}
Q1 == [kind |-> "secp224r1", p |-> 97, b |-> 6, num_bits |-> 7, rp_steps |-> 1, two_adicity |-> 5]
Fields == {Q1, [p |-> 241, num_bits |-> 8, rp_steps |-> 2, two_adicity |-> 4]}

\* The group law, with << >> for the point at infinity.
Infinity == << >>

Opposite(c, P, Q) == P[1] = Q[1] /\ (P[2] + Q[2]) % c.p = 0

Plus(c, P, Q) ==
    LET A == IF c.kind = "k1" THEN 0 ELSE -3
        slope == IF P = Q THEN ((3 * P[1] * P[1] + A) * modInv((2 * P[2]) % c.p, c.p)) % c.p
                 ELSE ((Q[2] - P[2]) * modInv((Q[1] - P[1]) % c.p, c.p)) % c.p
        x == (slope * slope - P[1] - Q[1]) % c.p
    IN  IF P = Infinity THEN Q
        ELSE IF Q = Infinity THEN P
        ELSE IF Opposite(c, P, Q) THEN Infinity
        ELSE <<x, (slope * (P[1] - x) - P[2]) % c.p>>

RECURSIVE Times(_, _, _)
Times(c, k, P) == IF k = 0 THEN Infinity
                  ELSE IF k % 2 = 1 THEN Plus(c, P, Times(c, k - 1, P))
                  ELSE Only({Plus(c, Q, Q) : Q \in {Times(c, k \div 2, P)}})

Points(c) == {P \in (0 .. c.p - 1) \X (0 .. c.p - 1) :
                 (P[2] * P[2]) % c.p =
                    (P[1] * P[1] * P[1] + c.b + (IF c.kind = "k1" THEN 0 ELSE -3) * P[1]) % c.p}

\* The scalars, and the points, at which the ladder meets infinity.
Degenerate(c, k, P) == k \in {1, c.n - 2, c.n - 1} \/ P[1] = 0

\* The leftmost bits of a hash, as many as n has.
Leftmost(c, h) == LET over == h.size * c.byte - c.num_n_bits
                  IN  IF over > 0 THEN h.bits \div 2 ^ over ELSE h.bits

\* What ECDSA accepts.
Accepted(c, Q, h, r, s) ==
    /\ r \in 1 .. c.n - 1 /\ s \in 1 .. c.n - 1
    /\ LET u1 == (Leftmost(c, h) * modInv(s, c.n)) % c.n
           u2 == (r * modInv(s, c.n)) % c.n
           R == Plus(c, Times(c, u1, c.G), Times(c, u2, Q))
       IN  R # Infinity /\ R[1] % c.n = r

\* No addition of the verification of u1 G + u2 Q meets a point and itself, its
\* opposite or infinity: R is the multiple computed before bit i.
RECURSIVE Smooth(_, _, _, _, _, _)
Smooth(c, Q, u1, u2, R, i) ==
    IF i < 0 THEN TRUE
    ELSE LET T == Plus(c, Times(c, testBit(u1, i), c.G), Times(c, testBit(u2, i), Q))
             D == Plus(c, R, R)
         IN  /\ R # Infinity /\ T # Infinity => (D # Infinity /\ D[1] # T[1])
             /\ R = Infinity => i = smax(NumBits(u1), NumBits(u2)) - 1
             /\ Smooth(c, Q, u1, u2, Plus(c, D, T), i - 1)

Generic(c, Q, h, r, s) ==
    Q[1] # c.G[1] /\ LET u1 == (Leftmost(c, h) * modInv(s, c.n)) % c.n
                         u2 == (r * modInv(s, c.n)) % c.n
                     IN  Smooth(c, Q, u1, u2, Infinity, smax(NumBits(u1), NumBits(u2)) - 1)

\* Hashes as long as n, shorter and longer, some not below n.
Hashes(c) == {h \in [bits : {0, 1, 31, 60, 500}, size : 1 .. 3] : h.bits < 2 ^ (h.size * c.byte)}

CurveJobs ==
    UNION {[op : {"mult"}, c : {c}, P : Points(c), k : 1 .. c.n - 1, z : {1, 30}]
             \cup [op : {"public"}, c : {c}, k : 0 .. c.n + 2]
             \cup [op : {"key"}, c : {c}, rng : (0 .. c.n) \X {0, 1, 2, c.n - 1, c.n}]
             \cup [op : {"secret"}, c : {c}, k : {2, 3, 9, 20}, l : 1 .. c.n - 1, z : {{}, {<<1>>}, {<<0, 5>>}}]
             \cup [op : {"compress"}, c : {c}, P : Points(c)]
             \cup [op : {"sign"}, c : {c}, d : {2, 11, 20},
                   h : Hashes(c),
                   rng : {f \o <<k, 7>> : f \in {<< >>, <<0>>, <<1>>}, k \in 1 .. c.n - 1}]
           : c \in Curves}
      \cup [op : {"verify"}, c : {R1}, d : {2, 11}, h : [bits : {0, 5, 30}, size : {1}],
            r : 0 .. 31, s : 0 .. 31]
      \cup [op : {"verify"}, c : {K1}, d : {5}, h : [bits : {7}, size : {2}], r : 0 .. 44, s : 0 .. 44]
      \cup [op : {"compress"}, c : {Q1}, P : Points(Q1)]
      \cup [op : {"root"}, c : Fields, x : 1 .. 240]

Public(c, d) == Times(c, d, c.G)

CurveRun(j) ==
    CASE j.op = "mult" -> EccPoint_mult(j.c, j.P, regularize_k(j.c, j.k), j.z, j.c.num_n_bits + 1)
      [] j.op = "public" -> uECC_compute_public_key(j.c, j.k)
      [] j.op = "key" -> uECC_make_key(j.c, j.rng)
      [] j.op = "secret" -> <<uECC_shared_secret(j.c, Public(j.c, j.l), j.k, j.z),
                              uECC_shared_secret(j.c, Public(j.c, j.k), j.l, j.z)>>
      [] j.op = "compress" -> uECC_decompress(j.c, uECC_compress(j.P))
      [] j.op = "sign" -> uECC_sign(j.c, j.d, j.h, j.rng)
      [] j.op = "verify" -> uECC_verify(j.c, Public(j.c, j.d), j.h, j.r, j.s)
      [] j.op = "root" -> mod_sqrt_secp224r1(j.c, j.x % j.c.p)

-----------------------------------------------------------------------------
NoJob == [lib |-> "none"]

JobInit == /\ \/ job \in [lib : {"vli"}, call : VliJobs]
              \/ job \in [lib : {"reduce"}, call : ReduceJobs]
              \/ job \in [lib : {"curve"}, call : CurveJobs]
           /\ out = << >>

Compute(lib, Run(_)) ==
    /\ out = << >> /\ job.lib = lib
    /\ out' = <<Run(job.call)>>
    /\ UNCHANGED job

JobNext == \/ Compute("vli", VliRun)
           \/ Compute("reduce", ReduceRun)
           \/ Compute("curve", CurveRun)

-----------------------------------------------------------------------------
(* Properties *)

\* The call of job, once its result is there.
Finished(lib) == job.lib = lib /\ out # << >>
Call == job.call
Result == out[1]

\* The word loops compute the numbers: sums and differences with their carry,
\* products and squares with the carries of their columns, comparisons, shifts,
\* and bytes that are the number's low ones.
WordsExact ==
    Finished("vli") /\ Call.op \in {"words", "bytes"} =>
        IF Call.op = "bytes"
        THEN Value(uECC_vli_bytesToNative(Result)) = Value(Call.a) % BYTE ^ Call.n
        ELSE LET a == Value(Call.a)  b == Value(Call.b)  W == B ^ 2
             IN  /\ a + b = Value(Result.add.word) + W * Result.add.carry
                 /\ a - b = Value(Result.sub.word) - W * Result.sub.borrow
                 /\ Value(Result.mult) = a * b
                 /\ Value(Result.square) = a * a
                 /\ Result.cmp = Result.cmp_unsafe
                 /\ (Result.cmp = 0) = (a = b) /\ (Result.cmp = 1) = (a > b)
                 /\ Result.bits = NumBits(a) /\ Value(Result.half) = a \div 2
                 /\ a = FoldSet(LAMBDA i, sum : sum + 2 ^ i, 0, Result.set)

\* The modular operations compute the residue, below the modulus, for operands
\* below it; uECC_vli_modMult for any operands (sign multiplies by a hash that
\* may exceed n); uECC_vli_modInv is an inverse.
ModularExact ==
    Finished("vli") /\ Call.op = "mod" =>
        LET a == Value(Call.a)  b == Value(Call.b)  m == Call.m
        IN  /\ Value(Result.mult) = (a * b) % m
            /\ a < m => /\ Value(Result.add) = (a + b) % m
                        /\ Value(Result.sub) = (a - b) % m
                        /\ a > 0 => /\ Value(Result.inv) < m
                                    /\ (Value(Result.inv) * a) % m = 1

\* The words that secp256k1's reduction adds up: the low half of the product,
\* and the low words of the high half times c and of what is above that times c.
SumOfK1(j) == LET pr == j.a * j.b
                  hi == (pr \div 64) * 3
              IN  (pr % 64) + (hi % 64) + (((hi \div 64) * 3) % 64)

\* They leave one carry, and a word that is not below p.  Taking p off the word
\* borrows nothing then, but the loop counts the carry as used up.
CarryAndMore(j) == SumOfK1(j) \in 64 + 61 .. 2 * 64 - 1

\* Each curve's fast reduction of a product of two residues gives the product
\* modulo the curve's modulus; that of secp256k1 falls short of it by c,
\* modulo p, for exactly the products that CarryAndMore describes.
ReductionsExact ==
    Finished("reduce") =>
        LET short == IF Call.curve = "secp256k1" /\ CarryAndMore(Call) THEN 3 ELSE 0
        IN  /\ Result < Prime[Call.curve]
            /\ (Result + short) % Prime[Call.curve] = (Call.a * Call.b) % Prime[Call.curve]

\* The regularised co-Z ladder computes k P whatever the initial Z; where it
\* meets infinity on the way it gives the zero point, which every caller
\* rejects, and never another point.
LadderExact ==
    Finished("curve") /\ Call.op = "mult" =>
        Result = IF Degenerate(Call.c, Call.k, Call.P) THEN <<0, 0>>
                 ELSE Times(Call.c, Call.k, Call.P)

\* A key pair that is handed out fits together and its private half is in
\* range; a draw that gives none is retried; both sides of a key exchange that
\* succeed have the same secret, the x of the product.
KeysFit ==
    /\ Finished("curve") /\ Call.op = "public" =>
          Result = IF Call.k \in 2 .. Call.c.n - 3 THEN Key(Call.k, Public(Call.c, Call.k)) ELSE NoKey
    /\ Finished("curve") /\ Call.op = "key" =>
          /\ Result.ok = \E i \in 1 .. 2 : Call.rng[i] \in 2 .. Call.c.n - 3
          /\ Result.ok => Result.public = Public(Call.c, Result.private)
    /\ Finished("curve") /\ Call.op = "secret" =>
          \A i \in 1 .. 2 :
             /\ Result[i].ok = ~Degenerate(Call.c, <<Call.k, Call.l>>[i],
                                           Public(Call.c, <<Call.l, Call.k>>[i]))
             /\ Result[i].ok =>
                   Result[i].secret = Public(Call.c, (Call.k * Call.l) % Call.c.n)[1]

\* x to the power e.
RECURSIVE PowerMod(_, _, _)
PowerMod(x, e, p) == IF e = 0 THEN 1
                     ELSE IF e % 2 = 1 THEN (x * PowerMod(x, e - 1, p)) % p
                     ELSE PowerMod((x * x) % p, e \div 2, p)

\* The search of mod_sqrt_secp224r1 for a root of y^2 meets its zero: y^2 is
\* not -1 and, with i^2 = -1, (y + i)/(y - i) has an order that does not
\* divide 4 (2^(2^rp_steps) - 1).  The loop looks at the third power of two
\* and later ones only, and for the others these have passed the zero.
RootFound(c, y) ==
    LET e == 4 * (2 ^ (2 ^ c.rp_steps) - 1)
    IN  \A i \in 1 .. c.p - 1 :
           (i * i) % c.p = c.p - 1 =>
              y \notin {i, c.p - i} /\ PowerMod(y + i, e, c.p) # PowerMod(y + c.p - i, e, c.p)

\* A compressed point is recovered, and satisfies the curve's equation; on a
\* curve like secp224r1 just when the square root is found, and otherwise what
\* comes out is no point of the curve.
CompressionInverts ==
    Finished("curve") /\ Call.op = "compress" =>
        IF Call.c.kind # "secp224r1" \/ RootFound(Call.c, Call.P[2])
        THEN Result = Call.P /\ uECC_valid_point(Call.c, Result)
        ELSE ~uECC_valid_point(Call.c, Result)

\* A signature solves the equation of ECDSA for the nonce drawn, and
\* uECC_verify accepts it with the signer's public key, when r is below n, s is
\* not 0 and no addition of the verification is degenerate.
SignaturesVerify ==
    Finished("curve") /\ Call.op = "sign" /\ Result.ok =>
        LET c == Call.c
            k == Call.rng[Len(Call.rng) - 1]
            Q == Public(c, Call.d)
        IN  /\ Result.r = Public(c, k)[1]
            /\ (Result.s * k) % c.n = (Leftmost(c, Call.h) + Result.r * Call.d) % c.n
            /\ Result.r < c.n /\ Result.s # 0 /\ Generic(c, Q, Call.h, Result.r, Result.s)
                 => uECC_verify(c, Q, Call.h, Result.r, Result.s)

\* uECC_verify accepts exactly what ECDSA accepts, short of a degenerate
\* addition, and nothing with r or s out of range.
VerifyExact ==
    Finished("curve") /\ Call.op = "verify" =>
        LET Q == Public(Call.c, Call.d)
        IN  IF Call.r \in 1 .. Call.c.n - 1 /\ Call.s \in 1 .. Call.c.n - 1
            THEN Generic(Call.c, Q, Call.h, Call.r, Call.s) =>
                    Result = Accepted(Call.c, Q, Call.h, Call.r, Call.s)
            ELSE ~Result

\* The square root for a prime of secp224r1's shape is one exactly for the
\* squares whose search meets the zero it looks for.
RootsExact ==
    Finished("curve") /\ Call.op = "root" =>
        \A y \in 1 .. Call.c.p - 1 :
           (y * y) % Call.c.p = Call.x % Call.c.p =>
              ((Result * Result) % Call.c.p = Call.x % Call.c.p) = RootFound(Call.c, y)

\* The arithmetic of micro-ecc, from uECC_vli_add to the square root of
\* secp224r1, is that of the integers and of the residues, but for the products
\* and the squares that ReductionsExact and RootsExact single out.
ArithmeticExact == WordsExact /\ ModularExact /\ ReductionsExact /\ RootsExact

\* The operations on points: multiplication, key pairs, the shared secret and
\* the compression of points.
CurvesExact == LadderExact /\ KeysFit /\ CompressionInverts

\* What uECC_sign signs is what ECDSA says, and so is what uECC_verify accepts.
EcdsaExact == SignaturesVerify /\ VerifyExact

\* uECC_vli_mmod_fast computes the product modulo p for every curve, as
\* uECC_vli.h says.  The code does not ensure it: see CarryAndMore.
ReductionsFull ==
    Finished("reduce") => Result = (Call.a * Call.b) % Prime[Call.curve]
=============================================================================
