---------------------------- MODULE MCBulletProof ----------------------------
(* BulletProof on small standards, two bits a value, modulo a small prime.  *)
EXTENDS BulletProof

Entry(owner, user, low, high, precision) ==
    [type |-> 1, owner |-> owner, user |-> user, low |-> low, high |-> high,
     precision |-> precision]

\* Texts are sequences of code points.
MCUser == <<32>>

Fits      == Entry(<<97>>, MCUser, 0, 7, 1)        \* 0 .. 3 in steps of two
TooWide   == Entry(<<97>>, MCUser, -1, 8, 1)       \* 0 .. 4
OtherUser == Entry(<<97>>, <<33>>, 0, 7, 1)
Malformed == Entry(<<97>>, MCUser, 5, 5, 1)
OtherOwner == Entry(<<98>>, MCUser, -3, 1, 1)      \* -1 .. 0
AboveZero == Entry(<<97>>, MCUser, 1, 7, 1)        \* its low end is cut off to zero
Coarse    == Entry(<<99>>, MCUser, 0, 7, -1)
Whole     == Entry(<<99>>, MCUser, -21, 45, 0)     \* -1 .. 2 in steps of twenty

\* Entries of two users and owners that run together to one name.
LongOwner == Entry(<<97, 98>>, MCUser, 0, 7, 1)
LongUser  == Entry(<<97>>, <<98, 32>>, 0, 7, 1)

MCFiles == {<<Fits>>, <<TooWide>>, <<AboveZero>>, <<Coarse>>, <<OtherUser>>, <<Fits, TooWide>>,
            <<Fits, Malformed>>, <<Malformed, Fits>>, <<OtherOwner, Fits, OtherUser>>,
            <<Fits, OtherOwner>>, <<OtherOwner>>, <<Fits, Whole>>, <<Whole, Fits>>,
            <<LongOwner, LongUser>>, <<LongUser, LongOwner>>}

MCReadings == {-4, -2, -1, 0, 1, 4, 7, 8, 10, 61}

MCSingleValues == -2 .. 4

MCTapes == {[i \in 1 .. 14 |-> (i * i + 2) % Order]}
=============================================================================
