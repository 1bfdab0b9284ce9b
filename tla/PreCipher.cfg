\* Two receivers, exponents modulo 5.
SPECIFICATION Spec
CONSTANTS
    Receivers = {r1, r2}
    Prime = 5
    Fr <- ModField
    Zero = 0
    One = 1
    Add <- ModAdd
    Neg <- ModNeg
    Mul <- ModMul
    Inv <- ModInv
    NoKey = NoKey
INVARIANTS
    TypeOK
    AddressedDecrypts
    OthersDecryptGarbage
\* one exchange: it stops when every receiver has decrypted
CHECK_DEADLOCK FALSE
