-------------------------- MODULE PreCipher_proofs --------------------------
(***************************************************************************)
(* Proofs that re-encryption hands the data key to the addressed receiver  *)
(* and to no other, for every field and every set of receivers.            *)
(***************************************************************************)
EXTENDS PreCipher, TLAPS

\* The cipher text of each stage, in closed form.
CipherInv ==
    /\ pc = "response" =>
          /\ rk = Mul(b[to], a)
          /\ cipher = [c1 |-> k, c2 |-> Add(mGT, Mul(a, k))]
    /\ pc = "result" =>
          cipher = [c1 |-> Mul(Mul(b[to], a), Add(kPrime, k)),
                    c2 |-> Add(mGT, Mul(a, Add(kPrime, k)))]

\* What a receiver holds is the decryption of the result under its secret.
MsgInv ==
    \A r \in Receivers : msg[r] # NoKey =>
        /\ pc = "result"
        /\ msg[r] = Decryption(cipher, b[r])

IInv == TypeOK /\ CipherInv /\ MsgInv

-----------------------------------------------------------------------------
(* The field                                                               *)

\* One is neutral on the left: a power of a generator is its exponent.
LEMMA MulOne == ASSUME NEW x \in Fr PROVE Mul(One, x) = x
  BY FieldIsClosed, FieldMultiplies

\* Adding and then dividing by the same element leaves what was there.
LEMMA AddCancels == ASSUME NEW x \in Fr, NEW y \in Fr PROVE Over(Add(x, y), y) = x
  BY FieldIsClosed, FieldAdds DEF Over

\* A sum that leaves its first term unchanged adds zero.
LEMMA AddZero ==
  ASSUME NEW x \in Fr, NEW y \in Fr, NEW z \in Fr, Over(Add(x, y), z) = x PROVE y = z
<1>1. Neg(z) \in Fr /\ Neg(x) \in Fr
  BY FieldIsClosed
<1>2. Add(x, Add(y, Neg(z))) = x
  BY <1>1, FieldAdds DEF Over
<1>3. Add(y, Neg(z)) = Zero
  <2>1. Add(y, Neg(z)) \in Fr
    BY <1>1, FieldIsClosed
  <2>2. Add(Neg(x), Add(x, Add(y, Neg(z)))) = Add(Add(Neg(x), x), Add(y, Neg(z)))
    BY <1>1, <2>1, FieldAdds
  <2>3. Add(Neg(x), x) = Zero
    BY <1>1, FieldAdds
  <2>4. Add(Zero, Add(y, Neg(z))) = Add(y, Neg(z))
    BY <2>1, FieldIsClosed, FieldAdds
  <2> QED BY <1>2, <2>2, <2>3, <2>4
<1>4. Add(Add(y, Neg(z)), z) = Add(y, Add(Neg(z), z))
  BY <1>1, FieldAdds
<1>5. Add(Neg(z), z) = Zero
  BY <1>1, FieldAdds
<1>6. Add(Zero, z) = z
  BY FieldIsClosed, FieldAdds
<1> QED BY <1>3, <1>4, <1>5, <1>6, FieldAdds

\* A product with something that is not zero can be cancelled.
LEMMA MulCancels ==
  ASSUME NEW x \in Fr, NEW y \in Fr, NEW z \in Fr \ {Zero}, Mul(x, z) = Mul(y, z)
  PROVE  x = y
<1>1. Inv(z) \in Fr /\ z \in Fr
  BY FieldIsClosed
<1>2. Mul(Mul(x, z), Inv(z)) = x
  BY <1>1, FieldMultiplies
<1>3. Mul(Mul(y, z), Inv(z)) = y
  BY <1>1, FieldMultiplies
<1> QED BY <1>2, <1>3

-----------------------------------------------------------------------------
(* The encryptions                                                         *)

\* The sender's cipher text and re-encryption key.
LEMMA SenderCipherIs ==
  ASSUME NEW sk1 \in Fr, NEW sk2 \in Fr, NEW m \in Fr, NEW r \in Fr
  PROVE  /\ Level1Cipher(PublicKey1(sk1), m, r) = [c1 |-> r, c2 |-> Add(m, Mul(sk1, r))]
         /\ ReEncryptKey(PublicKey2(sk2), sk1) = Mul(sk2, sk1)
         /\ PublicKey1(sk1) = sk1
<1>1. e = One /\ g1 = One /\ g2 = One
  BY MulOne, FieldIsClosed DEF e, g1, g2, Pairing
<1>2. PublicKey1(sk1) = sk1 /\ PublicKey2(sk2) = sk2 /\ Power(g2, r) = r
  BY <1>1, MulOne DEF PublicKey1, PublicKey2, Power
<1> QED BY <1>2 DEF Level1Cipher, ReEncryptKey, Times, Power

\* The proxy's cipher text: both random exponents add up.
LEMMA ReEncryptCipherIs ==
  ASSUME NEW sk1 \in Fr, NEW sk2 \in Fr, NEW m \in Fr, NEW r \in Fr, NEW s \in Fr
  PROVE  ReEncryptCipher(Mul(sk2, sk1), [c1 |-> r, c2 |-> Add(m, Mul(sk1, r))],
                         PublicKey1(sk1), s)
         = [c1 |-> Mul(Mul(sk2, sk1), Add(s, r)), c2 |-> Add(m, Mul(sk1, Add(s, r)))]
<1>1. PublicKey1(sk1) = sk1
  BY SenderCipherIs
<1>2. Power(g2, s) = s
  BY MulOne DEF Power, g2
<1>3. Mul(sk1, r) \in Fr /\ Mul(sk1, s) \in Fr
  BY FieldIsClosed
<1>4. Add(Add(m, Mul(sk1, r)), Mul(sk1, s)) = Add(m, Mul(sk1, Add(s, r)))
  <2>1. Add(Add(m, Mul(sk1, r)), Mul(sk1, s)) = Add(m, Add(Mul(sk1, r), Mul(sk1, s)))
    BY <1>3, FieldAdds
  <2>2. Add(Mul(sk1, r), Mul(sk1, s)) = Add(Mul(sk1, s), Mul(sk1, r))
    BY <1>3, FieldAdds
  <2>3. Add(Mul(sk1, s), Mul(sk1, r)) = Mul(sk1, Add(s, r))
    BY FieldMultiplies
  <2> QED BY <2>1, <2>2, <2>3
<1> QED BY <1>1, <1>2, <1>4 DEF ReEncryptCipher, Pairing, Times, Power

\* Decryption with the receiver's own secret undoes both encryptions.
LEMMA DecryptionIsRight ==
  ASSUME NEW sk1 \in Fr, NEW sk2 \in Fr \ {Zero}, NEW m \in Fr, NEW s \in Fr
  PROVE  Decryption([c1 |-> Mul(Mul(sk2, sk1), s), c2 |-> Add(m, Mul(sk1, s))], sk2) = m
<1>1. Inv(sk2) \in Fr /\ sk2 \in Fr /\ Mul(sk1, s) \in Fr
  BY FieldIsClosed
<1>2. Mul(Mul(Mul(sk2, sk1), s), Inv(sk2)) = Mul(sk1, s)
  <2>1. Mul(Mul(sk2, sk1), s) = Mul(sk2, Mul(sk1, s))
    BY <1>1, FieldMultiplies
  <2>2. Mul(sk2, Mul(sk1, s)) = Mul(Mul(sk1, s), sk2)
    BY <1>1, FieldMultiplies
  <2>3. Mul(Mul(Mul(sk1, s), sk2), Inv(sk2)) = Mul(Mul(sk1, s), Mul(sk2, Inv(sk2)))
    BY <1>1, FieldMultiplies
  <2> QED BY <1>1, <2>1, <2>2, <2>3, FieldMultiplies
<1> QED BY <1>1, <1>2, AddCancels DEF Decryption, Power

\* Decryption with another secret gives something else, unless the exponents of
\* the two encryptions cancel.
LEMMA DecryptionIsFor ==
  ASSUME NEW sk1 \in Fr \ {Zero}, NEW sk2 \in Fr \ {Zero}, NEW other \in Fr \ {Zero},
         NEW m \in Fr, NEW s \in Fr \ {Zero},
         Decryption([c1 |-> Mul(Mul(sk2, sk1), s), c2 |-> Add(m, Mul(sk1, s))], other) = m
  PROVE  other = sk2
<1> DEFINE w == Mul(sk1, s)
<1>1. w \in Fr /\ Inv(other) \in Fr /\ Mul(Mul(sk2, sk1), s) \in Fr
  BY FieldIsClosed
<1>2. w # Zero
  <2> SUFFICES ASSUME w = Zero PROVE FALSE
    OBVIOUS
  <2>1. Mul(Zero, s) = Zero
    <3>1. Mul(s, Add(Zero, Zero)) = Add(Mul(s, Zero), Mul(s, Zero))
      BY FieldIsClosed, FieldMultiplies
    <3>2. Add(Zero, Zero) = Zero
      BY FieldIsClosed, FieldAdds
    <3>3. Over(Add(Mul(s, Zero), Mul(s, Zero)), Mul(s, Zero)) = Mul(s, Zero)
      BY FieldIsClosed, AddCancels
    <3>4. Over(Mul(s, Zero), Mul(s, Zero)) = Zero
      BY FieldIsClosed, FieldAdds DEF Over
    <3> QED BY <3>1, <3>2, <3>3, <3>4, FieldIsClosed, FieldMultiplies
  <2>2. Mul(sk1, s) = Mul(Zero, s)
    BY <2>1
  <2> QED BY <2>2, MulCancels, FieldIsClosed
<1>3. w = Mul(Mul(Mul(sk2, sk1), s), Inv(other))
  <2>1. Mul(Mul(Mul(sk2, sk1), s), Inv(other)) \in Fr
    BY <1>1, FieldIsClosed
  <2>2. Over(Add(m, w), Mul(Mul(Mul(sk2, sk1), s), Inv(other))) = m
    BY DEF Decryption, Power
  <2> QED BY <1>1, <2>1, <2>2, AddZero
<1>4. Mul(w, other) = Mul(Mul(sk2, sk1), s)
  <2>1. Mul(Mul(Mul(Mul(sk2, sk1), s), Inv(other)), other)
        = Mul(Mul(Mul(sk2, sk1), s), Mul(Inv(other), other))
    BY <1>1, FieldMultiplies
  <2>2. Mul(Inv(other), other) = One
    BY <1>1, FieldMultiplies
  <2> QED BY <1>1, <1>3, <2>1, <2>2, FieldMultiplies
<1>5. Mul(Mul(sk2, sk1), s) = Mul(sk2, w)
  BY FieldMultiplies
<1>6. Mul(other, w) = Mul(sk2, w)
  BY <1>1, <1>4, <1>5, FieldMultiplies
<1> QED BY <1>1, <1>2, <1>6, MulCancels

-----------------------------------------------------------------------------
(* The exchange                                                            *)

LEMMA InitIInv == Init => IInv
<1> SUFFICES ASSUME Init PROVE IInv
  OBVIOUS
<1>1. TypeOK
  <2>1. mGT \in Fr
    BY FieldIsClosed DEF Init, Power, e, g1, g2, Pairing
  <2> QED BY <2>1, FieldIsClosed DEF Init, TypeOK, Secrets, Ciphers
<1>2. CipherInv /\ MsgInv
  BY DEF Init, CipherInv, MsgInv
<1> QED BY <1>1, <1>2 DEF IInv

LEMMA StepIInv == IInv /\ [Next]_vars => IInv'
<1> SUFFICES ASSUME IInv, [Next]_vars PROVE IInv'
  OBVIOUS
<1> USE DEF IInv
<1>0. a \in Fr /\ b[to] \in Fr /\ mGT \in Fr /\ k \in Fr /\ kPrime \in Fr
  BY DEF TypeOK
<1>1. CASE SenderCipher
  <2>1. rk' = Mul(b[to], a) /\ cipher' = [c1 |-> k', c2 |-> Add(mGT, Mul(a, k'))]
    BY <1>0, <1>1, SenderCipherIs DEF SenderCipher
  <2>2. TypeOK'
    BY <1>0, <1>1, <2>1, FieldIsClosed DEF SenderCipher, TypeOK, Ciphers
  <2>3. CipherInv' /\ MsgInv'
    BY <1>1, <2>1 DEF SenderCipher, CipherInv, MsgInv
  <2> QED BY <2>2, <2>3
<1>2. CASE ProxyReEncrypt
  <2>1. cipher' = [c1 |-> Mul(Mul(b[to], a), Add(kPrime', k)),
                   c2 |-> Add(mGT, Mul(a, Add(kPrime', k)))]
    <3>1. kPrime' \in Fr /\ cipher' = ReEncryptCipher(rk, cipher, PublicKey1(a), kPrime')
      BY <1>2 DEF ProxyReEncrypt
    <3>2. rk = Mul(b[to], a) /\ cipher = [c1 |-> k, c2 |-> Add(mGT, Mul(a, k))]
      BY <1>2 DEF ProxyReEncrypt, CipherInv
    <3>3. ReEncryptCipher(Mul(b[to], a), [c1 |-> k, c2 |-> Add(mGT, Mul(a, k))],
                          PublicKey1(a), kPrime')
          = [c1 |-> Mul(Mul(b[to], a), Add(kPrime', k)),
             c2 |-> Add(mGT, Mul(a, Add(kPrime', k)))]
      BY <1>0, <3>1, ReEncryptCipherIs
    <3> QED BY <3>1, <3>2, <3>3
  <2>2. TypeOK'
    <3>1. cipher' \in Ciphers
      BY <1>0, <1>2, <2>1, FieldIsClosed DEF ProxyReEncrypt, Ciphers
    <3> QED BY <1>2, <3>1 DEF ProxyReEncrypt, TypeOK
  <2>3. CipherInv' /\ MsgInv'
    BY <1>2, <2>1 DEF ProxyReEncrypt, CipherInv, MsgInv
  <2> QED BY <2>2, <2>3
<1>3. ASSUME NEW r \in Receivers, ReceiverDecrypt(r) PROVE IInv'
  <2>1. Decryption(cipher, b[r]) \in Fr
    BY FieldIsClosed DEF TypeOK, Ciphers, Decryption, Over, Power
  <2>2. TypeOK'
    BY <1>3, <2>1 DEF ReceiverDecrypt, TypeOK
  <2>3. CipherInv' /\ MsgInv'
    BY <1>3 DEF ReceiverDecrypt, TypeOK, CipherInv, MsgInv, Decryption
  <2> QED BY <2>2, <2>3
<1>4. CASE UNCHANGED vars
  <2>1. TypeOK'
    BY <1>4 DEF vars, TypeOK
  <2>2. CipherInv' /\ MsgInv'
    BY <1>4 DEF vars, CipherInv, MsgInv, Decryption
  <2> QED BY <2>1, <2>2
<1> QED BY <1>1, <1>2, <1>3, <1>4 DEF Next

LEMMA InvariantHolds == Spec => []IInv
  BY InitIInv, StepIInv, PTL DEF Spec

\* Every key, exponent and cipher text stays in its type, and no secret is zero.
THEOREM TypeCorrect == Spec => []TypeOK
<1>1. IInv => TypeOK
  BY DEF IInv
<1> QED BY <1>1, InvariantHolds, PTL

\* The receiver the sender's response was made for decrypts the data key.
THEOREM ReEncryptionIsCorrect == Spec => []AddressedDecrypts
<1>1. IInv => AddressedDecrypts
  <2> SUFFICES ASSUME IInv, msg[to] # NoKey PROVE msg[to] = mGT
    BY DEF AddressedDecrypts
  <2>1. a \in Fr /\ b[to] \in Fr \ {Zero} /\ mGT \in Fr /\ Add(kPrime, k) \in Fr
    BY FieldIsClosed DEF IInv, TypeOK
  <2>2. pc = "result" /\ msg[to] = Decryption(cipher, b[to])
    BY DEF IInv, TypeOK, MsgInv
  <2> QED BY <2>1, <2>2, DecryptionIsRight DEF IInv, CipherInv
<1> QED BY <1>1, InvariantHolds, PTL

\* A receiver with another secret gets the data key only if the random exponents
\* of the two encryptions cancel.
THEOREM ReEncryptionIsForOne == Spec => []OthersDecryptGarbage
<1>1. IInv => OthersDecryptGarbage
  <2> SUFFICES ASSUME IInv, NEW r \in Receivers, b[r] # b[to], Add(k, kPrime) # Zero,
                      msg[r] = mGT
               PROVE  FALSE
    BY DEF OthersDecryptGarbage
  <2>1. /\ a \in Fr \ {Zero} /\ b[to] \in Fr \ {Zero} /\ b[r] \in Fr \ {Zero}
        /\ mGT \in Fr /\ Add(kPrime, k) \in Fr \ {Zero}
    BY FieldIsClosed, FieldAdds DEF IInv, TypeOK
  <2>2. msg[r] # NoKey
    BY <2>1, NoKeyIsNoExponent
  <2>3. pc = "result" /\ Decryption(cipher, b[r]) = mGT
    BY <2>2 DEF IInv, MsgInv
  <2> QED BY <2>1, <2>3, DecryptionIsFor DEF IInv, CipherInv
<1> QED BY <1>1, InvariantHolds, PTL
=============================================================================
