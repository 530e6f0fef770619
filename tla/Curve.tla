-------------------------------- MODULE Curve --------------------------------
(***************************************************************************)
(* ECDSA on a short Weierstrass curve y^2 = x^3 + a x + b over the field   *)
(* of p elements: public key recovery (secp256k1) and verification         *)
(* (P-256), as tools/gen_secp_vectors.py and tools/gen_p256_vectors.py     *)
(* define them with affine points, and as guest/src/lib/secp256k1.pnk and  *)
(* guest/src/lib/p256.pnk compute them.                                    *)
(*                                                                         *)
(* A curve c is a record [p, n, a, b, g]: the field, the order of the      *)
(* group, the coefficients and the generator. Words are the numbers that   *)
(* 32 bytes can hold: more than p of them, fewer than 2n.                  *)
(***************************************************************************)
LOCAL INSTANCE Integers
LOCAL INSTANCE Sequences

\* pow(a, e, m)
RECURSIVE Power(_, _, _)
Power(a, e, m) ==
    IF e = 0 THEN 1
    ELSE LET h == Power(a, e \div 2, m)
         IN  IF e % 2 = 0 THEN h * h % m ELSE ((h * h) % m) * (a % m) % m

\* The inverse modulo the prime m, by Fermat; 0 for 0.
InverseMod(a, m) == Power(a, m - 2, m)

At(x, y)   == [x |-> x, y |-> y]
Fails(why) == [err |-> why]
IsPoint(q) == DOMAIN q = {"x", "y"}
Infinity   == Fails("atInfinity")   \* the identity

-----------------------------------------------------------------------------
(* The reference: the chord and tangent rule on affine points *)

\* The third point of the line of slope lam through q and r, reflected.
Third(c, lam, q, r) ==
    LET x == (lam * lam - q.x - r.x) % c.p
    IN  At(x, (lam * (q.x - x) - q.y) % c.p)

CurveAdd(c, q, r) == Third(c, (r.y - q.y) * InverseMod(r.x - q.x, c.p) % c.p, q, r)
CurveDbl(c, q) == Third(c, (3 * q.x * q.x + c.a) * InverseMod(2 * q.y, c.p) % c.p, q, q)

PointAdd(c, q, r) ==
    CASE ~IsPoint(q) -> r
      [] IsPoint(q) /\ ~IsPoint(r) -> q
      [] IsPoint(q) /\ IsPoint(r) ->
           IF q.x # r.x THEN CurveAdd(c, q, r)
           ELSE IF (q.y + r.y) % c.p = 0 THEN Infinity
           ELSE CurveDbl(c, q)

\* Double and add, from the lowest bit.
RECURSIVE Multiply(_, _, _, _)
Multiply(c, k, q, acc) ==
    IF k = 0 THEN acc
    ELSE Multiply(c, k \div 2, PointAdd(c, q, q),
                  IF k % 2 = 1 THEN PointAdd(c, acc, q) ELSE acc)
ScalarMul(c, k, q) == Multiply(c, k, q, Infinity)

OnCurve(c, q) == (q.y * q.y) % c.p = (q.x * q.x * q.x + c.a * q.x + c.b) % c.p

PubKey(c, d) == ScalarMul(c, d, c.g)

-----------------------------------------------------------------------------
(* Signatures *)

\* sign, with the nonce k; recid says which point has r as its abscissa.
Sign(c, d, e, k) ==
    LET R == ScalarMul(c, k, c.g)
        r == R.x % c.n
        s == InverseMod(k, c.n) * ((e + r * d) % c.n) % c.n
    IN  IF r = 0 \/ s = 0 THEN Fails("retry")
        ELSE [r |-> r, s |-> s, recid |-> (R.y % 2) + (IF R.x >= c.n THEN 2 ELSE 0)]

InScalarRange(c, k) == k # 0 /\ k < c.n

\* Requires p % 4 = 3, and a = 0 as on secp256k1.
DecompressR(c, r, recid) ==
    LET x   == r + (IF (recid \div 2) % 2 = 1 THEN c.n ELSE 0)
        rhs == (x * x * x + c.b) % c.p
        y0  == Power(rhs, (c.p + 1) \div 4, c.p)
    IN  CASE x >= c.p -> Fails("xOutOfRange")
          [] x < c.p /\ (y0 * y0) % c.p # rhs -> Fails("xNotSquare")
          [] OTHER -> At(x, IF y0 % 2 = recid % 2 THEN y0 ELSE (c.p - y0) % c.p)

Recover(c, e, r, s, recid) ==
    LET R    == DecompressR(c, r, recid)
        rinv == InverseMod(r, c.n)
        u1   == ((c.n - (e % c.n)) % c.n) * rinv % c.n
        u2   == (s % c.n) * rinv % c.n
    IN  CASE ~InScalarRange(c, r) -> Fails("rOutOfRange")
          [] InScalarRange(c, r) /\ ~InScalarRange(c, s) -> Fails("sOutOfRange")
          [] InScalarRange(c, r) /\ InScalarRange(c, s) ->
               IF IsPoint(R)
               THEN PointAdd(c, ScalarMul(c, u1, c.g), ScalarMul(c, u2, R))
               ELSE R

\* The precompile: v is 27 or 28. An address is the key it is hashed from.
EcrecoverAddress(c, e, v, r, s) ==
    IF v \in {27, 28} THEN Recover(c, e, r, s, v - 27) ELSE Fails("v")

\* recover_pubkey of compare-clients.py: nothing is in range, and a recid of 2 or
\* 3 is taken for 0 or 1.
RecoverPubkey(c, h, r, s, recid) ==
    LET y2   == (r * r * r + c.b) % c.p
        y    == Power(y2, (c.p + 1) \div 4, c.p)
        R    == At(r, IF y % 2 = recid % 2 THEN y ELSE c.p - y)
        rinv == InverseMod(r, c.n)
    IN  IF (y * y) % c.p # y2 THEN Fails("not a square")
        ELSE PointAdd(c, ScalarMul(c, s * rinv % c.n, R),
                      ScalarMul(c, ((-h) * rinv) % c.n, c.g))

Verify(c, e, r, s, q) ==
    LET sinv == InverseMod(s, c.n)
        u1   == (e * sinv) % c.n
        u2   == (r * sinv) % c.n
        R    == PointAdd(c, ScalarMul(c, u1, c.g), ScalarMul(c, u2, q))
    IN  /\ InScalarRange(c, r)
        /\ InScalarRange(c, s)
        /\ q.x < c.p /\ q.y < c.p
        /\ q # At(0, 0)
        /\ OnCurve(c, q)
        /\ IsPoint(R)
        /\ R.x % c.n = r

-----------------------------------------------------------------------------
(* secp256k1.pnk: a joint multiplication by windows of two bits, with the    *)
(* sixteen multiples of the two points in a table. The accelerated point     *)
(* operations return affine points.                                          *)

Digit(k, window) == (k \div 4^window) % 4

\* The entry d1 * A + d2 * B, built by doublings and additions.
JointTable(c, A, B) ==
    LET times(d, q) == CASE d = 0 -> Infinity
                         [] d = 1 -> q
                         [] d = 2 -> PointAdd(c, q, q)
                         [] d = 3 -> PointAdd(c, PointAdd(c, q, q), q)
    IN  [d \in (0..3) \X (0..3) |-> PointAdd(c, times(d[1], A), times(d[2], B))]

\* From the highest of the windows down.
RECURSIVE JointMulFrom(_, _, _, _, _, _)
JointMulFrom(c, table, k1, k2, windows, acc) ==
    IF windows = 0 THEN acc
    ELSE LET w  == windows - 1
             a2 == PointAdd(c, acc, acc)
             a4 == PointAdd(c, a2, a2)
         IN  JointMulFrom(c, table, k1, k2, w,
                          PointAdd(c, a4, table[<<Digit(k1, w), Digit(k2, w)>>]))

\* secp256k1_recover: the hash is reduced by at most one subtraction.
ReducedOnce(c, e) == IF e < c.n THEN e ELSE e - c.n

GuestRecover(c, windows, e, r, s, recid) ==
    LET R    == DecompressR(c, r, recid)
        rinv == InverseMod(r, c.n)
        e1   == ReducedOnce(c, e)
        u1   == (IF e1 = 0 THEN 0 ELSE c.n - e1) * rinv % c.n
        u2   == s * rinv % c.n
    IN  IF InScalarRange(c, r) /\ InScalarRange(c, s) /\ IsPoint(R)
        THEN JointMulFrom(c, JointTable(c, c.g, R), u1, u2, windows, Infinity)
        ELSE Fails("rejected")

-----------------------------------------------------------------------------
(* p256.pnk: Jacobian coordinates, [X, Y, Z] for the affine point            *)
(* (X / Z^2, Y / Z^3), and Z = 0 for the identity; a = -3.                   *)

Jac(X, Y, Z) == [X |-> X, Y |-> Y, Z |-> Z]
JacInfinity  == Jac(1, 1, 0)

JacDouble(c, q) ==
    LET delta == q.Z * q.Z % c.p
        gamma == q.Y * q.Y % c.p
        beta  == q.X * gamma % c.p
        alpha == 3 * ((q.X - delta) * (q.X + delta) % c.p) % c.p
        x3    == (alpha * alpha - 8 * beta) % c.p
    IN  IF q.Z = 0 THEN q
        ELSE IF q.Y = 0 THEN JacInfinity
        ELSE Jac(x3,
                 (alpha * (4 * beta - x3) - 8 * gamma * gamma) % c.p,
                 ((q.Y + q.Z) * (q.Y + q.Z) - gamma - delta) % c.p)

JacAddAffine(c, q, a) ==
    LET zz == q.Z * q.Z % c.p
        s2 == a.y * (q.Z * zz % c.p) % c.p
        h  == (a.x * zz - q.X) % c.p
        rr == (s2 - q.Y) % c.p
        hh == h * h % c.p
        v  == q.X * hh % c.p
        x3 == (rr * rr - h * hh - 2 * v) % c.p
    IN  CASE q.Z = 0 -> Jac(a.x, a.y, 1)
          [] q.Z # 0 /\ h = 0 ->
               IF (s2 + q.Y) % c.p = 0 THEN JacInfinity ELSE JacDouble(c, q)
          [] OTHER ->
               Jac(x3, (rr * (v - x3) - q.Y * (h * hh % c.p)) % c.p, q.Z * h % c.p)

\* p256_ec_mul2, from the highest of the bits down.
RECURSIVE JacMul2(_, _, _, _, _, _, _)
JacMul2(c, bits, k1, A, k2, B, acc) ==
    IF bits = 0 THEN acc
    ELSE LET bit(k) == (k \div 2^(bits - 1)) % 2 = 1
             d == JacDouble(c, acc)
             a == IF bit(k1) THEN JacAddAffine(c, d, A) ELSE d
         IN  JacMul2(c, bits - 1, k1, A, k2, B,
                     IF bit(k2) THEN JacAddAffine(c, a, B) ELSE a)

\* p256_verify compares X with r Z^2, or with (r + n) Z^2 when that is in the
\* field, rather than divide by Z^2.
\* a mistake: the second abscissa is forgotten
SameAbscissaLow(c, q, r) == q.X = r * (q.Z * q.Z % c.p) % c.p

SameAbscissa(c, q, r) ==
    LET zz == q.Z * q.Z % c.p
    IN  \/ q.X = r * zz % c.p
        \/ r + c.n < c.p /\ q.X = (r + c.n) * zz % c.p

GuestVerify(c, bits, e, r, s, q) ==
    LET sinv == InverseMod(s, c.n)
        u1   == ReducedOnce(c, e) * sinv % c.n
        u2   == r * sinv % c.n
        R    == JacMul2(c, bits, u1, c.g, u2, q, JacInfinity)
    IN  /\ InScalarRange(c, r)
        /\ InScalarRange(c, s)
        /\ q.x < c.p /\ q.y < c.p
        /\ q # At(0, 0)
        /\ OnCurve(c, q)
        /\ R.Z # 0
        /\ SameAbscissa(c, R, r)

-----------------------------------------------------------------------------
\* The key that signed is recovered, with R.x beyond the order too; n - s with
\* the other parity is a signature of the same key, and either change alone is
\* one of another key (gen_random of gen_secp_vectors.py: "flip s: the recovered
\* key is a different valid point").
RecoverFindsSigner(c, d, e, k) ==
    LET sig  == Sign(c, d, e, k)
        q    == PubKey(c, d)
        flip == IF sig.recid % 2 = 0 THEN sig.recid + 1 ELSE sig.recid - 1
    IN  "err" \notin DOMAIN sig =>
          /\ Recover(c, e, sig.r, sig.s, sig.recid) = q
          /\ Recover(c, e, sig.r, c.n - sig.s, flip) = q
          /\ Recover(c, e, sig.r, c.n - sig.s, sig.recid) # q
          /\ Recover(c, e, sig.r, sig.s, flip) # q

\* Of the points of the curve, those that verify a pair (r, s), in range or not,
\* are those that some recid recovers from it.
RecoverMeansVerify(c, points, e, r, s) ==
    {q \in points : Verify(c, e, r, s, q)}
      = {q \in points : \E recid \in 0..3 : Recover(c, e, r, s, recid) = q}

\* The guest accepts what the reference accepts, and computes the same key;
\* for r and s in range and recid below 2, so do the tools that add the keys to
\* the inputs of other clients (compare-clients.py).
GuestRecoverAgrees(c, windows, e, r, s, recid) ==
    LET ref   == Recover(c, e, r, s, recid)
        guest == GuestRecover(c, windows, e, r, s, recid)
    IN  /\ IsPoint(ref) <=> IsPoint(guest)
        /\ IsPoint(ref) => guest = ref
        /\ InScalarRange(c, r) /\ InScalarRange(c, s) /\ recid < 2
             => LET key == RecoverPubkey(c, e, r, s, recid)
                IN  (IsPoint(ref) <=> IsPoint(key)) /\ (IsPoint(ref) => key = ref)

\* The guest's verification in Jacobian coordinates, without a division at the
\* end, is the reference's, for keys in the field and on the curve or not.
GuestVerifyAgrees(c, bits, e, r, s, q) ==
    GuestVerify(c, bits, e, r, s, q) = Verify(c, e, r, s, q)
=============================================================================
