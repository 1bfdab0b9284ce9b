------------------------------ MODULE PreCipher ------------------------------
(***************************************************************************)
(* The proxy re-encryption of src/src_c/pre/pre_api.c: the sender encrypts *)
(* a data key to itself, the proxy turns the cipher text into one for the  *)
(* receiver without reading it, the receiver decrypts.                     *)
(*                                                                         *)
(* The groups G1, G2 and GT are cyclic of the same prime order and have    *)
(* fixed generators g1, g2 and e(g1, g2), so an element is modelled by its *)
(* exponent, a member of the field Fr of the curve: a product of elements  *)
(* adds exponents, a power multiplies by one, the pairing multiplies two.  *)
(* The field is a parameter, known by its axioms only.                     *)
(***************************************************************************)
EXTENDS Integers

CONSTANTS
    Receivers,                      \* devices subscribed to the results
    Fr,                             \* exponents
    Zero, One, Add(_, _), Neg(_), Mul(_, _), Inv(_),
    NoKey                           \* what a receiver has before it decrypts

\* Exponents are a field: the curve's order is prime.
ASSUME FieldIsClosed ==
    /\ Zero \in Fr /\ One \in Fr /\ Zero # One
    /\ \A x, y \in Fr : Add(x, y) \in Fr /\ Mul(x, y) \in Fr
    /\ \A x \in Fr : Neg(x) \in Fr
    /\ \A x \in Fr \ {Zero} : Inv(x) \in Fr

ASSUME FieldAdds ==
    /\ \A x, y \in Fr : Add(x, y) = Add(y, x)
    /\ \A x, y, z \in Fr : Add(Add(x, y), z) = Add(x, Add(y, z))
    /\ \A x \in Fr : Add(x, Zero) = x /\ Add(x, Neg(x)) = Zero

ASSUME FieldMultiplies ==
    /\ \A x, y \in Fr : Mul(x, y) = Mul(y, x)
    /\ \A x, y, z \in Fr : Mul(Mul(x, y), z) = Mul(x, Mul(y, z))
    /\ \A x \in Fr : Mul(x, One) = x
    /\ \A x \in Fr \ {Zero} : Mul(x, Inv(x)) = One
    /\ \A x, y, z \in Fr : Mul(x, Add(y, z)) = Add(Mul(x, y), Mul(x, z))

ASSUME NoKeyIsNoExponent == NoKey \notin Fr

-----------------------------------------------------------------------------
(* Groups                                                                  *)

Times(x, y) == Add(x, y)            \* mclBnG2_add, mclBnGT_mul
Over(x, y)  == Add(x, Neg(y))       \* mclBnGT_div
Power(x, k) == Mul(x, k)            \* mclBnG1_mul, mclBnG2_mul, mclBnGT_pow
Pairing(x, y) == Mul(x, y)          \* mclBn_pairing

g1 == One
g2 == One
e  == Pairing(g1, g2)

\* A slip of it: the secrets are drawn once, without the length test.
SecretsDrawnOnce == Fr

\* PreUserKeyGenerate repeats until both secrets have full length: never zero.
Secrets == Fr \ {Zero}

PublicKey1(sk1) == Power(e, sk1)
PublicKey2(sk2) == Power(g1, sk2)

\* A slip of the next: the receiver's public key is left out.
ReEncryptKeyForNobody(pk2, sk1) == Power(g1, sk1)

ReEncryptKey(pk2, sk1) == Power(pk2, sk1)

Level1Cipher(pk1, m, r) ==
    [c1 |-> Power(g2, r), c2 |-> Times(m, Power(pk1, r))]

\* A slip of the next: the fresh power masks c1 but not c2.
ReEncryptCipherHalf(rkG1, cipher1, pk1, r) ==
    [c1 |-> Pairing(rkG1, Times(Power(g2, r), cipher1.c1)), c2 |-> cipher1.c2]

ReEncryptCipher(rkG1, cipher1, pk1, r) ==
    [c1 |-> Pairing(rkG1, Times(Power(g2, r), cipher1.c1)),
     c2 |-> Times(cipher1.c2, Power(pk1, r))]

Decryption(cipher2, sk2) == Over(cipher2.c2, Power(cipher2.c1, Inv(sk2)))

Ciphers == [c1 : Fr, c2 : Fr]

-----------------------------------------------------------------------------
VARIABLES
    a,              \* the sender's secret_key1
    b,              \* each receiver's secret_key2
    mGT,            \* the data key the sender encrypts
    pc,             \* "idle", "response" (to the proxy), "result" (to receivers)
    to,             \* the receiver the response is for
    k, kPrime,      \* the random exponents of the two encryptions
    rk,             \* the re-encryption key in the response
    cipher,         \* the cipher text in the message under way
    msg             \* what each receiver decrypted

vars == <<a, b, mGT, pc, to, k, kPrime, rk, cipher, msg>>

Init ==
    /\ a \in Secrets
    /\ b \in [Receivers -> Secrets]
    /\ mGT \in {Power(e, r) : r \in Fr}
    /\ pc = "idle"
    /\ to \in Receivers
    /\ k = Zero /\ kPrime = Zero /\ rk = Zero
    /\ cipher = [c1 |-> Zero, c2 |-> Zero]
    /\ msg = [r \in Receivers |-> NoKey]

\* The sender answers the request the proxy forwarded: it encrypts the data key
\* to itself and makes the re-encryption key for the receiver of the request.
SenderCipher ==
    /\ pc = "idle"
    /\ k' \in Fr
    /\ cipher' = Level1Cipher(PublicKey1(a), mGT, k')
    /\ rk' = ReEncryptKey(PublicKey2(b[to]), a)
    /\ pc' = "response"
    /\ UNCHANGED <<a, b, mGT, to, kPrime, msg>>

\* The proxy re-encrypts with fresh randomness and publishes the result.
ProxyReEncrypt ==
    /\ pc = "response"
    /\ kPrime' \in Fr
    /\ cipher' = ReEncryptCipher(rk, cipher, PublicKey1(a), kPrime')
    /\ pc' = "result"
    /\ UNCHANGED <<a, b, mGT, to, k, rk, msg>>

\* A receiver decrypts a result, whether or not it was the one that asked.
ReceiverDecrypt(r) ==
    /\ pc = "result"
    /\ msg[r] = NoKey
    /\ msg' = [msg EXCEPT ![r] = Decryption(cipher, b[r])]
    /\ UNCHANGED <<a, b, mGT, pc, to, k, kPrime, rk, cipher>>

Next ==
    \/ SenderCipher
    \/ ProxyReEncrypt
    \/ \E r \in Receivers : ReceiverDecrypt(r)

Spec == Init /\ [][Next]_vars

-----------------------------------------------------------------------------
(* Properties                                                              *)

\* Types of the state: keys, exponents and cipher texts of pre_api.c.
TypeOK ==
    /\ a \in Fr \ {Zero} /\ b \in [Receivers -> Fr \ {Zero}]
    /\ mGT \in Fr /\ k \in Fr /\ kPrime \in Fr /\ rk \in Fr
    /\ pc \in {"idle", "response", "result"} /\ to \in Receivers
    /\ cipher \in Ciphers
    /\ msg \in [Receivers -> Fr \cup {NoKey}]

\* The receiver a response was made for decrypts the sender's data key,
\* whatever the keys and the randomness of both encryptions
\* (PreLevel1CipherGenerate, PreReEncryptCipherGenerate, PreDecryption).
AddressedDecrypts == msg[to] \in {NoKey, mGT}

\* A receiver with another secret decrypts something else, unless the two random
\* exponents happen to cancel: the result is for one receiver although the
\* broker hands it to all.
OthersDecryptGarbage ==
    \A r \in Receivers :
        /\ b[r] # b[to]
        /\ Add(k, kPrime) # Zero
        => msg[r] # mGT

=============================================================================
