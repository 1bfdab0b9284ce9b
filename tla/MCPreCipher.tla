----------------------------- MODULE MCPreCipher -----------------------------
(* PreCipher over the integers modulo a small prime.                        *)
EXTENDS PreCipher

CONSTANTS Prime

ModField == 0 .. Prime - 1
ModAdd(x, y) == (x + y) % Prime
ModNeg(x) == (Prime - x) % Prime
ModMul(x, y) == (x * y) % Prime
ModInv(x) == CHOOSE y \in ModField : ModMul(x, y) = 1
=============================================================================
