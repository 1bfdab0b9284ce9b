---------------------------- MODULE BulletProof ----------------------------
(***************************************************************************)
(* The proof library of src/bplib: a reading is scaled by the standard of  *)
(* its proof type, its distances to both ends of the standard are          *)
(* committed to, and one aggregated range proof shows that both lie in     *)
(* 0 .. 2^N - 1.  The library's tests also call the proof of a single      *)
(* value; both are modelled, and both verifiers.                           *)
(*                                                                         *)
(* A group element is the vector of its coefficients over the generators   *)
(* whose discrete logarithms nobody knows.  A challenge is a hash of what  *)
(* was committed to so far: here any member of the role's challenge set,   *)
(* the same for prover and verifier, who hash the same messages.           *)
(***************************************************************************)
EXTENDS Integers, Sequences

CONSTANTS
    Order,                          \* ORDER, the order of the group
    N,                              \* bits of a value: 16 in the program
    Files,                          \* standard files: sequences of entries
    Readings,                       \* raw data, in units finer than any step
    Unit,                           \* such units in one, the step of precision 0
    SingleValues,                   \* witnesses of the single proof
    Tapes,                          \* what the random reader answers
    Y, Z, X, C, R,                  \* challenges of each role
    User,                           \* ProofUser, a sequence of characters
    NoStandard

ASSUME Parameters ==
    /\ N \in {2, 4, 8, 16, 32}
    /\ Y \subseteq 1 .. Order - 1 /\ Z \subseteq 1 .. Order - 1
    /\ X \subseteq 1 .. Order - 1 /\ C \subseteq 1 .. Order - 1
    /\ R \subseteq 1 .. Order - 1

\* ORDER is a prime: every number but zero has an inverse.
ASSUME OrderIsPrime ==
    /\ Order \in Nat /\ Order > 1
    /\ \A a \in 1 .. Order - 1 : \E b \in 1 .. Order - 1 : (a * b) % Order = 1

\* The units in a step of precision p.
Step(p) == Unit \div 10^p

FitsRune(t) == -2147483647 <= t /\ t <= 2147483647

\* What the callers pass: the tape is long enough for two values; a single
\* value is one that is not reduced modulo ORDER when it is committed to; a type
\* fits a rune; the numbers of an entry are whole numbers of units, and so are
\* the steps.
ASSUME Inputs ==
    /\ Readings \subseteq Int
    /\ SingleValues \subseteq 2 - Order .. Order - 1
    /\ \A t \in Tapes : t \in Seq(Int) /\ Len(t) >= 6 + 4 * N
    /\ \A f \in Files :
          /\ f \in Seq({f[i] : i \in DOMAIN f})
          /\ \A i \in 1 .. Len(f) :
                /\ f[i].type \in Int /\ FitsRune(f[i].type)
                /\ f[i].owner \in Seq(Nat) /\ f[i].user \in Seq(Nat)
                /\ f[i].low \in Int /\ f[i].high \in Int /\ f[i].precision \in Int
                /\ f[i].precision >= 0 => /\ Step(f[i].precision) \in Nat \ {0}
                                          /\ Step(f[i].precision) * 10^f[i].precision = Unit
    /\ NoStandard \notin [low : Int, high : Int, precision : Int]

VARIABLES
    phase,      \* how far the call and the check of its proof are
    kind,       \* "aggregate" or "single"
    file,       \* the standards of the call
    reading,    \* the data of the call
    rs,         \* the rendered standard of the proof type
    v,          \* the witness
    secret,     \* what the prover drew and derived from the witness
    proof,      \* the proof
    ch,         \* the challenges
    ip          \* the inner product argument, round by round

vars == <<phase, kind, file, reading, rs, v, secret, proof, ch, ip>>

-----------------------------------------------------------------------------
(* The field, and vectors over it                                          *)

Fp == 0 .. Order - 1

Pow(a, k) == LET p[i \in 0 .. k] == IF i = 0 THEN 1 ELSE (a * p[i - 1]) % Order
             IN  p[k]

ModInverse(a) == CHOOSE b \in Fp : (a * b) % Order = 1

\* The sum of f[1] .. f[n].
Sum(f, n) == LET s[i \in 0 .. n] == IF i = 0 THEN 0 ELSE (s[i - 1] + f[i]) % Order
             IN  s[n]

VectorInnerProduct(a, b) == Sum([i \in 1 .. Len(a) |-> a[i] * b[i]], Len(a))

VectorAdd(a, b) == [i \in 1 .. Len(a) |-> (a[i] + b[i]) % Order]
VectorScalarMul(a, s) == [i \in 1 .. Len(a) |-> (a[i] * s) % Order]

Left(a)  == SubSeq(a, 1, Len(a) \div 2)
Right(a) == SubSeq(a, Len(a) \div 2 + 1, Len(a))

-----------------------------------------------------------------------------
(* The group                                                               *)

\* g, h and the u that an aggregated proof hashes x to; the two vectors, as
\* long as two values need.
Generators == {<<"g", 0>>, <<"h", 0>>, <<"u", 0>>}
                  \cup ({"gVector", "hVector"} \X (1 .. 2 * N))

Infinity == [k \in Generators |-> 0]
Generator(name, i) == [Infinity EXCEPT ![<<name, i>>] = 1]

Add(p, q) == [k \in Generators |-> (p[k] + q[k]) % Order]
ScalarMult(p, s) == [k \in Generators |-> (p[k] * s) % Order]

\* Points p[1] .. p[n] to the powers of a: a sum, as the group is written.
VectorScalarMulSum(a, p) ==
    [k \in Generators |-> Sum([i \in 1 .. Len(a) |-> a[i] * p[i][k]], Len(a))]

VectorScalarExp(p, s) == [i \in 1 .. Len(p) |-> ScalarMult(p[i], s)]
VectorEcAdd(p, q) == [i \in 1 .. Len(p) |-> Add(p[i], q[i])]

gVector(n) == [i \in 1 .. n |-> Generator("gVector", i)]
hVector(n) == [i \in 1 .. n |-> Generator("hVector", i)]
g == Generator("g", 0)
h == Generator("h", 0)

PedersenCommit(value, r) == Add(ScalarMult(h, r), ScalarMult(g, value))

VectorCommit(a, b, r) ==
    Add(ScalarMult(h, r), Add(VectorScalarMulSum(a, gVector(Len(a))),
                              VectorScalarMulSum(b, hVector(Len(b)))))

-----------------------------------------------------------------------------
(* Standards                                                               *)

\* math.Trunc of the value times 10^p, which is exact here and not that of a
\* float64; Pow10 is left out for negative precision.
Trunc(r, p) == IF r >= 0 THEN r \div Step(p) ELSE -((-r) \div Step(p))
Scaled(r, p) == IF p < 0 THEN 0 ELSE Trunc(r, p)

\* string(rune(t)): what is no character becomes the replacement character.
Rune(t) == IF (0 <= t /\ t < 55296) \/ (57343 < t /\ t < 1114112) THEN t ELSE 65533

\* omitID: what makes two entries the same standard.  The texts run together.
OmitID(e) == <<Rune(e.type)>> \o e.owner \o e.user

ErrorStandard(e) == e.low >= e.high
UnusableStandard(e) == e.user # User
\* A slip of the next: the first of two equal entries is kept.
RepeatsEarlier(f, i) == \E j \in 1 .. i - 1 : OmitID(f[j]) = OmitID(f[i])

RepeatedElement(f, i) == \E j \in i + 1 .. Len(f) : OmitID(f[j]) = OmitID(f[i])

StandardCleaning(f) ==
    {i \in 1 .. Len(f) : ~ErrorStandard(f[i]) /\ ~UnusableStandard(f[i])
                            /\ ~RepeatedElement(f, i)}

\* StandardPreparing, checkType: a later entry of the type overwrites.
StandardOf(f, t) ==
    LET of == {i \in StandardCleaning(f) : f[i].type = t}
    IN  IF of = {} THEN NoStandard
        ELSE LET e == f[CHOOSE i \in of : \A j \in of : j <= i]
             IN  [low |-> Scaled(e.low, e.precision),
                  high |-> Scaled(e.high, e.precision), precision |-> e.precision]

\* A slip of the next: both distances are taken from the low end.
MaterialFromLow(r, s) == <<Scaled(r, s.precision) - s.low, Scaled(r, s.precision) - s.low>>

RawToMaterial(r, s) == <<Scaled(r, s.precision) - s.low, s.high - Scaled(r, s.precision)>>

-----------------------------------------------------------------------------
(* The witness, the polynomials and the commitments                        *)

\* N digits of x; a value that is not positive after a digit ends the loop,
\* so a negative one leaves its lowest bit.
Decompose(x) ==
    [i \in 1 .. N |-> IF x < 0 /\ i > 1 THEN 0 ELSE (x \div 2^(i - 1)) % 2]

\* The block of position i of a vector, and its place there.
Block(i) == (i - 1) \div N + 1
Place(i) == (i - 1) % N

VectorDecompose(w) ==
    [i \in 1 .. N * Len(w) |-> Decompose(w[Block(i)])[Place(i) + 1]]

ComputeAR(aL) == [i \in 1 .. Len(aL) |-> (aL[i] - 1) % Order]

\* z^(j+1) 2^n in the j-th block of a vector.
Weight(z, i) == Pow(z, Block(i) + 1) * 2^Place(i)

LZero(aL, z) == [i \in 1 .. Len(aL) |-> (aL[i] - z) % Order]
RZero(aR, y, z) ==
    [i \in 1 .. Len(aR) |-> (Pow(y, i - 1) * (aR[i] + z) + Weight(z, i)) % Order]
ROne(sR, y) == [i \in 1 .. Len(sR) |-> (Pow(y, i - 1) * sR[i]) % Order]

\* s is what the prover keeps secret.
t1(s, y, z) == (VectorInnerProduct(LZero(s.aL, z), ROne(s.sR, y))
                  + VectorInnerProduct(s.sL, RZero(s.aR, y, z))) % Order
t2(s, y) == VectorInnerProduct(s.sL, ROne(s.sR, y))

\* A slip of the next: the weight of a block is a power of z too low.
DeltaOfWeights(n, y, z) ==
    ((z - z * z) * Sum([i \in 1 .. n |-> Pow(y, i - 1)], n)
        - Sum([i \in 1 .. n |-> Weight(z, i)], n)) % Order

\* For vectors of n elements.
Delta(n, y, z) ==
    ((z - z * z) * Sum([i \in 1 .. n |-> Pow(y, i - 1)], n)
        - Sum([i \in 1 .. n |-> z * Weight(z, i)], n)) % Order

GenerateHprime(n, y) ==
    [i \in 1 .. n |-> ScalarMult(hVector(n)[i], Pow(ModInverse(y), i - 1))]

\* A + x S - z g + h' (z y^n + weights) - mu h, of the proof p.
UpdateP(p, n, x, y, z) ==
    LET hExp == [i \in 1 .. n |-> (z * Pow(y, i - 1) + Weight(z, i)) % Order]
    IN  Add(Add(p.A, ScalarMult(p.S, x)),
            Add(Add(VectorScalarMulSum([i \in 1 .. n |-> Order - z], gVector(n)),
                    VectorScalarMulSum(hExp, GenerateHprime(n, y))),
                ScalarMult(h, Order - p.mu)))

\* The single proof takes h for the fixed point of the inner product.
u(k) == IF k = "aggregate" THEN Generator("u", 0) ELSE h

-----------------------------------------------------------------------------
(* The prover                                                              *)

\* Messages and challenges that are still to come.
NoProof == [V |-> <<>>, A |-> Infinity, S |-> Infinity, T1 |-> Infinity, T2 |-> Infinity,
            taux |-> 0, mu |-> 0, tHat |-> 0, LS |-> <<>>, RS |-> <<>>, a |-> 0, b |-> 0]
NoChallenges == [y |-> 0, z |-> 0, x |-> 0, c |-> 0, rounds |-> <<>>]

Init ==
    /\ kind \in {"aggregate", "single"}
    /\ phase = IF kind = "aggregate" THEN "render" ELSE "commit"
    /\ file \in IF kind = "aggregate" THEN Files ELSE {<<>>}
    /\ reading \in IF kind = "aggregate" THEN Readings ELSE {0}
    /\ v \in IF kind = "aggregate" THEN {<<>>} ELSE {<<w>> : w \in SingleValues}
    /\ rs = NoStandard
    /\ secret = <<>> /\ proof = NoProof /\ ch = NoChallenges /\ ip = <<>>

\* BulletProof up to the proof: initMap, checkType and rawToMaterial, for the
\* proof type 1.
Render ==
    LET s == StandardOf(file, 1)
    IN  /\ phase = "render"
        /\ rs' = s
        /\ phase' = IF s = NoStandard THEN "refused" ELSE "commit"
        /\ v' = IF s = NoStandard THEN v ELSE RawToMaterial(reading, s)
        /\ UNCHANGED <<kind, file, reading, secret, proof, ch, ip>>

\* prove-0 and prove-1: V, A and S.  The tape is read in the code's order.
Commit ==
    /\ phase = "commit"
    /\ \E tape \in Tapes :
          LET m == Len(v)
              nm == N * m
              aL == VectorDecompose(v)
              aR == ComputeAR(aL)
              sL == SubSeq(tape, m + 2, m + 1 + nm)
              sR == SubSeq(tape, m + 2 + nm, m + 1 + 2 * nm)
          IN  /\ secret' = [gamma |-> SubSeq(tape, 1, m), alpha |-> tape[m + 1],
                            rho |-> tape[m + 2 + 2 * nm], aL |-> aL, aR |-> aR,
                            sL |-> sL, sR |-> sR, tau1 |-> tape[m + 3 + 2 * nm],
                            tau2 |-> tape[m + 4 + 2 * nm]]
              /\ proof' = [proof EXCEPT
                              !.V = [j \in 1 .. m |-> PedersenCommit(v[j], tape[j])],
                              !.A = VectorCommit(aL, aR, tape[m + 1]),
                              !.S = VectorCommit(sL, sR, tape[m + 2 + 2 * nm])]
    /\ phase' = "poly"
    /\ UNCHANGED <<kind, file, reading, rs, v, ch, ip>>

\* challenge-1 and prove-2: y and z, then T1 and T2.
CommitPoly ==
    /\ phase = "poly"
    /\ \E y \in Y, z \in Z :
          /\ ch' = [ch EXCEPT !.y = y, !.z = z]
          /\ proof' = [proof EXCEPT !.T1 = PedersenCommit(t1(secret, y, z), secret.tau1),
                                    !.T2 = PedersenCommit(t2(secret, y), secret.tau2)]
    /\ phase' = "evaluate"
    /\ UNCHANGED <<kind, file, reading, rs, v, secret, ip>>

\* prove-3: the blinding of tHat, and tHat; the single proof takes t0 from
\* the witness, the aggregated one from the vectors.
TauX(s, z, x) ==
    LET m == Len(s.gamma)
    IN  (s.tau1 * x + s.tau2 * x * x
           + Sum([j \in 1 .. m |-> Pow(z, j + 1) * s.gamma[j]], m)) % Order

Lx(s, z, x) == VectorAdd(LZero(s.aL, z), VectorScalarMul(s.sL, x))
Rx(s, y, z, x) == VectorAdd(RZero(s.aR, y, z), VectorScalarMul(ROne(s.sR, y), x))

THat(k, w, s, y, z, x) ==
    IF k = "aggregate" THEN VectorInnerProduct(Lx(s, z, x), Rx(s, y, z, x))
    ELSE (w[1] * z * z + Delta(Len(s.aL), y, z) + t1(s, y, z) * x + t2(s, y) * x * x) % Order

\* Protocol1: the inner product c becomes a multiple of the point, and that is
\* scaled by the challenge x.
Protocol1(P, point, c, x) ==
    LET ux == ScalarMult(point, x) IN [P |-> Add(P, ScalarMult(ux, c)), u |-> ux]

\* challenge-2, prove-3 and the entry of the inner product argument.
Evaluate ==
    /\ phase = "evaluate"
    /\ \E x \in X, c \in C :
          LET nm == Len(secret.aL)
              made == [proof EXCEPT !.taux = TauX(secret, ch.z, x),
                                    !.mu = (secret.alpha + secret.rho * x) % Order,
                                    !.tHat = THat(kind, v, secret, ch.y, ch.z, x)]
              start == Protocol1(UpdateP(made, nm, x, ch.y, ch.z), u(kind), made.tHat, c)
          IN  /\ proof' = made
              /\ ch' = [ch EXCEPT !.x = x, !.c = c]
              /\ ip' = [a |-> Lx(secret, ch.z, x), b |-> Rx(secret, ch.y, ch.z, x),
                        g |-> gVector(nm), h |-> GenerateHprime(nm, ch.y),
                        P |-> start.P, u |-> start.u]
    /\ phase' = "rounds"
    /\ UNCHANGED <<kind, file, reading, rs, v, secret>>

\* recursiveIpProof: one round halves the vectors of the instance q.  L and R
\* carry what the halves have across; the first is a slip of L, its right half
\* not paired.
CrossLUnpaired(q) ==
    Add(Add(VectorScalarMulSum(Left(q.a), Right(q.g)),
            VectorScalarMulSum(Right(q.b), Right(q.h))),
        ScalarMult(q.u, VectorInnerProduct(Left(q.a), Right(q.b))))

CrossL(q) == Add(Add(VectorScalarMulSum(Left(q.a), Right(q.g)),
                     VectorScalarMulSum(Right(q.b), Left(q.h))),
                 ScalarMult(q.u, VectorInnerProduct(Left(q.a), Right(q.b))))
CrossR(q) == Add(Add(VectorScalarMulSum(Right(q.a), Left(q.g)),
                     VectorScalarMulSum(Left(q.b), Right(q.h))),
                 ScalarMult(q.u, VectorInnerProduct(Right(q.a), Left(q.b))))

\* The instance and the witness after the round's challenge x.
Folded(q, x) ==
    LET xInv == ModInverse(x)
    IN  [a |-> VectorAdd(VectorScalarMul(Left(q.a), x), VectorScalarMul(Right(q.a), xInv)),
         b |-> VectorAdd(VectorScalarMul(Left(q.b), xInv), VectorScalarMul(Right(q.b), x)),
         g |-> VectorEcAdd(VectorScalarExp(Left(q.g), xInv), VectorScalarExp(Right(q.g), x)),
         h |-> VectorEcAdd(VectorScalarExp(Left(q.h), x), VectorScalarExp(Right(q.h), xInv)),
         P |-> Add(Add(ScalarMult(CrossL(q), x * x), q.P),
                   ScalarMult(CrossR(q), xInv * xInv)),
         u |-> q.u]

Fold ==
    /\ phase = "rounds" /\ Len(ip.a) > 1
    /\ \E x \in R :
          /\ ip' = Folded(ip, x)
          /\ ch' = [ch EXCEPT !.rounds = Append(@, x)]
    /\ proof' = [proof EXCEPT !.LS = Append(@, CrossL(ip)), !.RS = Append(@, CrossR(ip))]
    /\ UNCHANGED <<phase, kind, file, reading, rs, v, secret>>

\* One element is left of each vector: they end the proof.
Finish ==
    /\ phase = "rounds" /\ Len(ip.a) = 1
    /\ proof' = [proof EXCEPT !.a = ip.a[1], !.b = ip.b[1]]
    /\ phase' = "made"
    /\ UNCHANGED <<kind, file, reading, rs, v, secret, ch, ip>>

-----------------------------------------------------------------------------
(* The verifier                                                            *)

\* VerifyAggtHat, VerifyThat: tHat is the value committed to.
VerifyTHat ==
    LET m == Len(proof.V)
    IN  PedersenCommit(proof.tHat, proof.taux) =
            Add(Add(ScalarMult(g, Delta(N * m, ch.y, ch.z)),
                    VectorScalarMulSum([j \in 1 .. m |-> Pow(ch.z, j + 1)], proof.V)),
                Add(ScalarMult(proof.T1, ch.x), ScalarMult(proof.T2, ch.x * ch.x)))

\* A slip of the next: the bits are counted from the other end.
BijFromTop(i, j) == ((i - 1) \div 2^(Len(proof.LS) - j)) % 2 = 1

\* Whether bit j of i - 1 is set; Bij answers 1 or -1 for it.
Bij(i, j) == ((i - 1) \div 2^(j - 1)) % 2 = 1

\* What generator i was multiplied by in all rounds, of which there is one
\* at least: the verifier's case of vectors of one element is not reached.
sVector(i, xs) ==
    LET nLog == Len(xs)
        s[j \in 0 .. nLog] ==
            IF j = 0 THEN 1
            ELSE (s[j - 1] * (IF Bij(i, nLog + 1 - j) THEN xs[j] ELSE ModInverse(xs[j])))
                     % Order
    IN  s[nLog]

InnerProductVerifier ==
    LET nm == N * Len(proof.V)
        hprime == GenerateHprime(nm, ch.y)
        start == Protocol1(UpdateP(proof, nm, ch.x, ch.y, ch.z), u(kind), proof.tHat, ch.c)
        s == [i \in 1 .. nm |-> sVector(i, ch.rounds)]
        square == [j \in DOMAIN ch.rounds |-> (ch.rounds[j] * ch.rounds[j]) % Order]
    IN  Add(Add(VectorScalarMulSum([i \in 1 .. nm |-> proof.a * s[i]], gVector(nm)),
                VectorScalarMulSum([i \in 1 .. nm |-> proof.b * ModInverse(s[i])], hprime)),
            ScalarMult(start.u, proof.a * proof.b))
        = Add(start.P, Add(VectorScalarMulSum(square, proof.LS),
                           VectorScalarMulSum([j \in DOMAIN square |-> ModInverse(square[j])],
                                              proof.RS)))

\* AggBpVerify, Verify.
Check ==
    /\ phase = "made"
    /\ phase' = IF VerifyTHat /\ InnerProductVerifier THEN "accepted" ELSE "rejected"
    /\ UNCHANGED <<kind, file, reading, rs, v, secret, proof, ch, ip>>

Next == Render \/ Commit \/ CommitPoly \/ Evaluate \/ Fold \/ Finish \/ Check

Spec == Init /\ [][Next]_vars

-----------------------------------------------------------------------------
(* Properties                                                              *)

\* The value the digits stand for.
Digits(x) == LET d == Decompose(x)
                 s[i \in 0 .. N] == IF i = 0 THEN 0 ELSE s[i - 1] + d[i] * 2^(i - 1)
             IN  s[N]

InRange(x) == x \in 0 .. 2^N - 1

\* Every round keeps the relation between the point P, the vectors and their
\* inner product; what it starts with too much of u is what tHat exceeds
\* the inner product by, which is nothing in the aggregated proof.
RoundsKeepRelation ==
    phase = "rounds" =>
        LET excess == proof.tHat - VectorInnerProduct(Lx(secret, ch.z, ch.x),
                                                      Rx(secret, ch.y, ch.z, ch.x))
        IN  /\ ip.P = Add(Add(VectorScalarMulSum(ip.a, ip.g), VectorScalarMulSum(ip.b, ip.h)),
                          ScalarMult(ip.u, VectorInnerProduct(ip.a, ip.b) + excess))
            /\ kind = "aggregate" => excess = 0

\* The verifier, who never folds, multiplies each generator by what the
\* rounds of the prover did to it.
ScalarsFollowRounds ==
    phase = "made" =>
        LET nm == N * Len(v)
            s == [i \in 1 .. nm |-> sVector(i, ch.rounds)]
        IN  /\ ip.g[1] = VectorScalarMulSum(s, gVector(nm))
            /\ ip.h[1] = VectorScalarMulSum([i \in 1 .. nm |-> ModInverse(s[i])],
                                            GenerateHprime(nm, ch.y))

\* The challenge z happens to hide what the digits miss of the distances.
ZHidesMiss ==
    LET m == Len(v)
        miss == [j \in 1 .. m |-> v[j] - Digits(v[j])]
    IN  /\ kind = "aggregate"
        /\ \E j \in 1 .. m : miss[j] # 0
        /\ Sum([j \in 1 .. m |-> Pow(ch.z, j) * miss[j]], m) = 0

\* The entries of the file that the user may prove by.
Candidates == {e \in {file[i] : i \in DOMAIN file} :
                  e.type = 1 /\ e.user = User /\ e.low < e.high}

\* Trunc cuts off less than a step, on either side of zero towards zero: two
\* numbers a < b come out the same only if b is below a + Lost(a, b, p).
Lost(a, b, p) == IF a < 0 /\ 0 < b THEN 2 * Step(p) ELSE Step(p)

\* The prover proves any witness without complaint; the verifier accepts no
\* proof of a reading that lies further outside each candidate than Trunc
\* loses, unless z is a root of what the digits miss.  A candidate of negative
\* precision admits every reading.
AcceptedIsInStandard ==
    phase = "accepted" =>
        \/ kind = "single" /\ InRange(v[1])
        \/ ZHidesMiss
        \/ \E e \in Candidates : \/ e.precision < 0
                                 \/ /\ e.low < reading + Lost(reading, e.low, e.precision)
                                    /\ reading < e.high + Lost(e.high, reading, e.precision)

\* A later entry of the same name displaces an entry although it is itself of no
\* use: malformed, or of another user whose owner and name read the same when run
\* together.
Displaced(e) ==
    \E i, j \in DOMAIN file :
        /\ i < j /\ file[i] = e /\ OmitID(file[j]) = OmitID(e)
        /\ ErrorStandard(file[j]) \/ UnusableStandard(file[j])

\* A reading is refused only if no entry is a candidate that was not displaced;
\* and one that lies in each candidate is not rejected by any verifier, whatever
\* was drawn and whatever the challenges, unless one is too wide for N bits.
InStandardIsAccepted ==
    /\ phase = "refused" => \A e \in Candidates : Displaced(e)
    /\ phase = "rejected" =>
          IF kind = "single" THEN ~InRange(v[1])
          ELSE \E e \in Candidates :
                   \/ reading \notin e.low .. e.high
                   \/ Scaled(e.high, e.precision) - Scaled(e.low, e.precision) >= 2^N
=============================================================================
