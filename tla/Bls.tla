--------------------------------- MODULE Bls ---------------------------------
(***************************************************************************)
(* The pairing of tools/blsref.py, which defines what                      *)
(* guest/src/lib/fp384.pnk and guest/src/lib/bls12381.pnk compute: the     *)
(* tower of fields Fp2 = Fp[u]/(u^2 + 1), Fp6 = Fp2[v]/(v^3 - xi) and      *)
(* Fp12 = Fp6[w]/(w^2 - v), the projective group law, the Miller loop and  *)
(* the final exponentiation.                                               *)
(*                                                                         *)
(* The numbers of BLS12-381 are parameters, so that a curve of the same    *)
(* family with small numbers can be computed.                              *)
(***************************************************************************)
LOCAL INSTANCE Integers
LOCAL INSTANCE Sequences

CONSTANTS
    P,       \* the prime of the field, 3 modulo 4
    Order,   \* R_ORDER, the order of the groups
    BlsX,    \* |x| for the parameter x < 0 of the family
    Coeff,   \* the curve is y^2 = x^3 + Coeff; 4 in the program
    Xi       \* (1, 1) in the program: neither a square nor a cube in Fp2

\* op(v), with v computed first.
OfValue(op(_), v) == CHOOSE r \in {op(x) : x \in {v}} : TRUE

-----------------------------------------------------------------------------
(* Fp, Fp2, Fp6, Fp12 *)

\* pow(a, e, P)
RECURSIVE FpPow(_, _)
FpPow(a, e) ==
    IF e = 0 THEN 1
    ELSE LET h == FpPow(a, e \div 2)
         IN  IF e % 2 = 0 THEN h * h % P ELSE (h * h % P) * a % P
FpInv(a) == FpPow(a % P, P - 2)               \* 0 for 0

F2Zero == <<0, 0>>
F2One  == <<1, 0>>
F2Add(a, b)   == <<(a[1] + b[1]) % P, (a[2] + b[2]) % P>>
F2Sub(a, b)   == <<(a[1] - b[1]) % P, (a[2] - b[2]) % P>>
F2Neg(a)      == F2Sub(F2Zero, a)
F2Mul(a, b)   == <<(a[1] * b[1] - a[2] * b[2]) % P, (a[1] * b[2] + a[2] * b[1]) % P>>
F2Sqr(a)      == F2Mul(a, a)
F2Conj(a)     == <<a[1], (-a[2]) % P>>
F2MulXi(a)    == F2Mul(a, Xi)
F2Scale(a, k) == <<(a[1] * k) % P, (a[2] * k) % P>>
F2Inv(a)      == LET d == FpInv((a[1] * a[1] + a[2] * a[2]) % P)
                 IN  <<(a[1] * d) % P, ((-a[2]) * d) % P>>
RECURSIVE F2Pow(_, _)
F2Pow(a, e) ==
    IF e = 0 THEN F2One
    ELSE LET h == OfValue(F2Sqr, F2Pow(a, e \div 2))
         IN  IF e % 2 = 0 THEN h ELSE F2Mul(h, a)

F6Zero == <<F2Zero, F2Zero, F2Zero>>
F6One  == <<F2One, F2Zero, F2Zero>>
F6Add(a, b) == <<F2Add(a[1], b[1]), F2Add(a[2], b[2]), F2Add(a[3], b[3])>>
F6Sub(a, b) == <<F2Sub(a[1], b[1]), F2Sub(a[2], b[2]), F2Sub(a[3], b[3])>>
F6Neg(a)    == F6Sub(F6Zero, a)
F6Mul(a, b) ==
    <<F2Add(F2Mul(a[1], b[1]), F2MulXi(F2Add(F2Mul(a[2], b[3]), F2Mul(a[3], b[2])))),
      F2Add(F2Add(F2Mul(a[1], b[2]), F2Mul(a[2], b[1])), F2MulXi(F2Mul(a[3], b[3]))),
      F2Add(F2Add(F2Mul(a[1], b[3]), F2Mul(a[2], b[2])), F2Mul(a[3], b[1]))>>
F6MulV(a)   == <<F2MulXi(a[3]), a[1], a[2]>>
F6Inv(a) ==
    LET t0 == F2Sub(F2Sqr(a[1]), F2MulXi(F2Mul(a[2], a[3])))
        t1 == F2Sub(F2MulXi(F2Sqr(a[3])), F2Mul(a[1], a[2]))
        t2 == F2Sub(F2Sqr(a[2]), F2Mul(a[1], a[3]))
        d  == F2Add(F2Mul(a[1], t0), F2MulXi(F2Add(F2Mul(a[3], t1), F2Mul(a[2], t2))))
        di == F2Inv(d)
    IN  <<F2Mul(t0, di), F2Mul(t1, di), F2Mul(t2, di)>>

F12One == <<F6One, F6Zero>>
F12Mul(a, b) ==
    LET t0 == F6Mul(a[1], b[1])
        t1 == F6Mul(a[2], b[2])
    IN  <<F6Add(t0, F6MulV(t1)),
          F6Sub(F6Sub(F6Mul(F6Add(a[1], a[2]), F6Add(b[1], b[2])), t0), t1)>>
F12Sqr(a)  == F12Mul(a, a)
F12Conj(a) == <<a[1], F6Neg(a[2])>>
F12Inv(a) ==
    LET d == F6Inv(F6Sub(F6Mul(a[1], a[1]), F6MulV(F6Mul(a[2], a[2]))))
    IN  <<F6Mul(a[1], d), F6Neg(F6Mul(a[2], d))>>
RECURSIVE F12Pow(_, _)
F12Pow(a, e) ==
    IF e = 0 THEN F12One
    ELSE LET h == OfValue(F12Sqr, F12Pow(a, e \div 2))
         IN  IF e % 2 = 0 THEN h ELSE F12Mul(h, a)

\* Frobenius: conjugation, and powers of gamma_k = xi^(k (p - 1) / 6).
Gamma == [k \in 1..5 |-> F2Pow(Xi, (k * (P - 1)) \div 6)]

F12Frob(a) ==
    LET c(x) == F2Conj(x)
    IN  <<<<c(a[1][1]), F2Mul(c(a[1][2]), Gamma[2]), F2Mul(c(a[1][3]), Gamma[4])>>,
          <<F2Mul(c(a[2][1]), Gamma[1]), F2Mul(c(a[2][2]), Gamma[3]),
            F2Mul(c(a[2][3]), Gamma[5])>>>>

\* a^x for the negative x, in the cyclotomic subgroup.
F12ExpX(a) == F12Conj(F12Pow(a, BlsX))

\* f^((p^6 - 1)(p^2 + 1)), then to the power 3 (p^4 - p^2 + 1) / r.
FinalExp(f) ==
    LET conj(g)  == F12Mul(F12Conj(g), F12Inv(g))             \* p^6 - 1
        frob2(t) == F12Mul(F12Frob(F12Frob(t)), t)            \* p^2 + 1
        less1(m) == F12Mul(F12ExpX(m), F12Conj(m))            \* x - 1
        plusP(a) == F12Mul(F12ExpX(a), F12Frob(a))            \* x + p
        last(b)  == F12Mul(F12Mul(OfValue(F12ExpX, F12ExpX(b)), F12Frob(F12Frob(b))),
                           F12Conj(b))                        \* x^2 + p^2 - 1
        hard(m)  == F12Mul(OfValue(last, OfValue(plusP, OfValue(less1, OfValue(less1, m)))),
                           F12Mul(F12Sqr(m), m))
    IN  OfValue(hard, OfValue(frob2, OfValue(conj, f)))

-----------------------------------------------------------------------------
(* The group law on projective points (X/Z, Y/Z). The code is generic in the *)
(* field; here a coordinate of G1 is an element <<a, 0>> of Fp2.             *)

Fp(a) == <<a % P, 0>>
Times(k, a) == F2Scale(a, k)                \* smul, a repeated addition

PtInf      == <<F2One, F2One, F2Zero>>
PtIsInf(p) == p[3] = F2Zero
PtNeg(p)   == <<p[1], F2Neg(p[2]), p[3]>>

PtDouble(p) ==
    LET W  == Times(3, F2Sqr(p[1]))
        S  == F2Mul(p[2], p[3])
        B  == F2Mul(F2Mul(p[1], p[2]), S)
        H  == F2Sub(F2Sqr(W), Times(8, B))
        S2 == F2Sqr(S)
    IN  <<Times(2, F2Mul(H, S)),
          F2Sub(F2Mul(W, F2Sub(Times(4, B), H)), Times(8, F2Mul(F2Sqr(p[2]), S2))),
          Times(8, F2Mul(S, S2))>>

PtAdd(p, q) ==
    LET U1 == F2Mul(q[2], p[3])   U2 == F2Mul(p[2], q[3])
        V1 == F2Mul(q[1], p[3])   V2 == F2Mul(p[1], q[3])
        U  == F2Sub(U1, U2)       V  == F2Sub(V1, V2)
        VV == F2Mul(F2Sqr(V), V2) V3 == F2Mul(V, F2Sqr(V))
        W  == F2Mul(p[3], q[3])
        A  == F2Sub(F2Sub(F2Mul(F2Sqr(U), W), V3), Times(2, VV))
    IN  CASE PtIsInf(p) -> q
          [] ~PtIsInf(p) /\ PtIsInf(q) -> p
          [] ~PtIsInf(p) /\ ~PtIsInf(q) ->
               IF V1 # V2
               THEN <<F2Mul(V, A), F2Sub(F2Mul(U, F2Sub(VV, A)), F2Mul(V3, U2)), F2Mul(V3, W)>>
               ELSE IF U1 = U2 THEN PtDouble(p) ELSE PtInf

\* Double and add, from the highest bit.
RECURSIVE PtMul(_, _)
PtMul(p, n) ==
    IF n = 0 THEN PtInf
    ELSE LET r == PtDouble(PtMul(p, n \div 2)) IN IF n % 2 = 1 THEN PtAdd(r, p) ELSE r

PtNormalize(p) == LET zi == F2Inv(p[3]) IN <<F2Mul(p[1], zi), F2Mul(p[2], zi)>>

G1OnCurve(x, y) == F2Sqr(Fp(y)) = F2Add(F2Mul(F2Sqr(Fp(x)), Fp(x)), Fp(Coeff))
\* The twist, y^2 = x^3 + Coeff * xi.
G2OnCurve(x, y) == F2Sqr(y) = F2Add(F2Mul(F2Sqr(x), x), F2MulXi(Fp(Coeff)))

-----------------------------------------------------------------------------
(* The Miller loop: R runs through multiples of Q in Jacobian coordinates, and *)
(* each step gives the coefficients of a line.                                *)

DoublingStep(R) ==
    LET zsq == F2Sqr(R[3])
        xx  == F2Sqr(R[1])
        yy  == F2Sqr(R[2])
        y4  == F2Sqr(yy)
        s   == Times(2, F2Sub(F2Sub(F2Sqr(F2Add(yy, R[1])), xx), y4))
        e   == Times(3, xx)
        ee  == F2Sqr(e)
        nx  == F2Sub(F2Sub(ee, s), s)
        nz  == F2Sub(F2Sub(F2Sqr(F2Add(R[3], R[2])), yy), zsq)
        ny  == F2Sub(F2Mul(F2Sub(s, nx), e), Times(8, y4))
    IN  [R |-> <<nx, ny, nz>>,
         coeffs |-> <<Times(2, F2Mul(nz, zsq)),
                      F2Neg(Times(2, F2Mul(e, zsq))),
                      F2Sub(F2Sub(F2Sub(F2Sqr(F2Add(R[1], e)), xx), ee), Times(4, yy))>>]

AdditionStep(R, Q) ==
    LET zsq == F2Sqr(R[3])
        ysq == F2Sqr(Q[2])
        t1  == F2Mul(F2Sub(F2Sub(F2Sqr(F2Add(Q[2], R[3])), ysq), zsq), zsq)
        t2  == F2Sub(F2Mul(zsq, Q[1]), R[1])
        t3  == F2Sqr(t2)
        t5  == F2Mul(Times(4, t3), t2)
        t6  == F2Sub(F2Sub(t1, R[2]), R[2])
        t7  == F2Mul(Times(4, t3), R[1])
        nx  == F2Sub(F2Sub(F2Sub(F2Sqr(t6), t5), t7), t7)
        nz  == F2Sub(F2Sub(F2Sqr(F2Add(R[3], t2)), zsq), t3)
        ny  == F2Sub(F2Mul(F2Sub(t7, nx), t6), Times(2, F2Mul(R[2], t5)))
        t10 == F2Sub(F2Sub(F2Sqr(F2Add(Q[2], nz)), ysq), F2Sqr(nz))
    IN  [R |-> <<nx, ny, nz>>,
         coeffs |-> <<Times(2, nz), Times(2, F2Neg(t6)),
                      F2Sub(Times(2, F2Mul(t6, Q[1])), t10)>>]

\* The line through the multiples of Q at the point p of G1, into f.
Ell(f, coeffs, p) ==
    F12Mul(f, <<<<coeffs[3], F2Mul(coeffs[2], p[1]), F2Zero>>,
                <<F2Zero, F2Mul(coeffs[1], p[2]), F2Zero>>>>)

\* From the second highest bit of |x|: R and f so far.
RECURSIVE Loop(_, _, _)
Loop(p, Q, n) ==
    IF n = 1 THEN [R |-> <<Q[1], Q[2], F2One>>, f |-> F12One]
    ELSE LET prev == Loop(p, Q, n \div 2)
             d    == DoublingStep(prev.R)
             f    == Ell(F12Sqr(prev.f), d.coeffs, p)
             a    == AdditionStep(d.R, Q)
         IN  IF n % 2 = 0 THEN [R |-> d.R, f |-> f]
             ELSE [R |-> a.R, f |-> Ell(f, a.coeffs, p)]

MillerLoop(p, Q) == F12Conj(Loop(p, Q, BlsX).f)

\* a mistake: a point at infinity is not told apart
PairingRawBlind(p, q) == MillerLoop(PtNormalize(p), PtNormalize(q))

PairingRaw(p, q) ==
    IF PtIsInf(p) \/ PtIsInf(q) THEN F12One
    ELSE MillerLoop(PtNormalize(p), PtNormalize(q))

Pairing(p, q) == FinalExp(PairingRaw(p, q))

-----------------------------------------------------------------------------
(* The records of tools/gen_bls12381_vectors.py and gen_bn254_vectors.py:    *)
(* what a precompiled contract answers to points given by their coordinates, *)
(* two numbers for G1 and four for G2. (0, 0) stands for infinity.           *)

Fails(why) == [err |-> why]
IsRead(r)  == DOMAIN r = {"pt"}

\* A point whose coordinates are in the field: on the curve, in the subgroup?
Checked(x, y, onCurve, subgroup) ==
    LET inf == x = F2Zero /\ y = F2Zero
        pt  == <<x, y, IF inf THEN F2Zero ELSE F2One>>
    IN  CASE ~inf /\ ~onCurve -> Fails("curve")
          [] (inf \/ onCurve) /\ subgroup /\ ~PtIsInf(PtMul(pt, Order)) -> Fails("subgroup")
          [] OTHER -> [pt |-> pt]

ReadPointG1(d, subgroup) ==
    IF d[1] >= P \/ d[2] >= P THEN Fails("field")
    ELSE Checked(Fp(d[1]), Fp(d[2]), G1OnCurve(d[1], d[2]), subgroup)
ReadPointG2(d, subgroup) ==
    LET x == <<d[1], d[2]>>
        y == <<d[3], d[4]>>
    IN  IF \E i \in 1..4 : d[i] >= P THEN Fails("field")
        ELSE Checked(x, y, G2OnCurve(x, y), subgroup)

\* g1_bytes, g2_bytes: affine coordinates, zeros for infinity.
PointBytes(p) == IF PtIsInf(p) THEN <<F2Zero, F2Zero>> ELSE PtNormalize(p)

\* point_result: an exception is status 1.
PointResult(ok, p) == IF ok THEN [status |-> 0, out |-> PointBytes(p)] ELSE [status |-> 1]

\* The additions and the multiplications do not ask for the subgroup.
AddRecord(r1, r2) == PointResult(IsRead(r1) /\ IsRead(r2), PtAdd(r1.pt, r2.pt))
MulRecord(r, k)   == PointResult(IsRead(r), PtMul(r.pt, k))

\* The multi-scalar multiplication does. terms is a sequence of [read, k].
RECURSIVE SumOf(_)
SumOf(terms) ==
    LET q == PtMul(terms[1].read.pt, terms[1].k)
    IN  IF Len(terms) = 1 THEN q ELSE PtAdd(q, SumOf(Tail(terms)))
MsmRecord(terms) ==
    PointResult(terms # <<>> /\ \A i \in DOMAIN terms : IsRead(terms[i].read), SumOf(terms))

\* result *= pairing(q, p), over the pairs
RECURSIVE ProductOf(_)
ProductOf(pairs) ==
    IF pairs = <<>> THEN F12One
    ELSE F12Mul(Pairing(pairs[1].p.pt, pairs[1].q.pt), ProductOf(Tail(pairs)))

\* The product check: 0 or 1, 2 for a bad point and 3 for a bad length. data is
\* a sequence of [g1, g2].
PairingRecord(data) ==
    LET pairs == [i \in DOMAIN data |-> [p |-> ReadPointG1(data[i].g1, TRUE),
                                        q |-> ReadPointG2(data[i].g2, TRUE)]]
    IN  CASE data = <<>> -> 3
          [] \E i \in DOMAIN pairs : ~IsRead(pairs[i].p) \/ ~IsRead(pairs[i].q) -> 2
          [] OTHER -> IF ProductOf(pairs) = F12One THEN 1 ELSE 0

-----------------------------------------------------------------------------
\* The coordinates of a point of G1 and of one of G2.
CoordsG1(p) == LET b == PointBytes(p) IN <<b[1][1], b[2][1]>>
CoordsG2(p) == LET b == PointBytes(p) IN b[1] \o b[2]

\* The records add as a group does, the points outside the subgroup, the
\* infinity, equal points and opposite ones included: the sum does not depend on
\* the order, multiples of a point add up, and its opposite cancels it.
PointsAdd(g1, x, y, z, j, k) ==
    LET r(d) == IF g1 THEN ReadPointG1(d, FALSE) ELSE ReadPointG2(d, FALSE)
        sum(p, q) == [pt |-> PtAdd(p.pt, q.pt)]
        dx == r(x)  dy == r(y)  dz == r(z)
        terms == <<[read |-> dx, k |-> j], [read |-> dx, k |-> k]>>
    IN  /\ AddRecord(sum(dx, dy), dz) = AddRecord(dx, sum(dz, dy))
        /\ AddRecord(dx, [pt |-> PtNeg(dx.pt)]).out = <<F2Zero, F2Zero>>
        /\ MsmRecord(terms) = MulRecord(dx, j + k)

\* What the contract answers of points that are known multiples of the
\* generators, or bad: 1 exactly if the products of the logarithms add up to a
\* multiple of the order (gen_bls12381_vectors.eval_record, blsref.pairing).
PairingDecides(data, logs) ==
    LET bad == \E i \in DOMAIN logs : logs[i].a = -1 \/ logs[i].b = -1
        sum[i \in 0..Len(logs)] ==
            IF i = 0 THEN 0 ELSE (sum[i - 1] + logs[i].a * logs[i].b) % Order
    IN  PairingRecord(data) =
          CASE data = <<>> -> 3
            [] data # <<>> /\ bad -> 2
            [] OTHER -> IF sum[Len(logs)] = 0 THEN 1 ELSE 0
=============================================================================
