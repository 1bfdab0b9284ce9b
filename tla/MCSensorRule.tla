---------------------------- MODULE MCSensorRule ----------------------------
(* Small instances of SensorRule for TLC.                                   *)
EXTENDS SensorRule, TLC

CONSTANTS k1, k2, k3, k4, k5, k6

\* A full rule, a rule without a proof, a rule without an AlgList, a push of
\* another section only, a push in which nothing differs, and a rule that only
\* has a proof.
MCContent ==
    k1 :> [rule |-> {"average", "proof"}, other |-> FALSE] @@
    k2 :> [rule |-> {"average"}, other |-> TRUE] @@
    k3 :> [rule |-> {}, other |-> FALSE] @@
    k4 :> [rule |-> {NoRule}, other |-> TRUE] @@
    k5 :> [rule |-> {NoRule}, other |-> FALSE] @@
    k6 :> [rule |-> {"proof"}, other |-> FALSE]

ProvisionedRule == {"average", "proof"}
=============================================================================
