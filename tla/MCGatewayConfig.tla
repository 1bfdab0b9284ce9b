-------------------------- MODULE MCGatewayConfig --------------------------
(* Small instances of GatewayConfig for TLC.                                *)
EXTENDS GatewayConfig, TLC

CONSTANTS k1, k2, k3, k4, s1, d1, d2, c1, c2, b1, b2

\* k1 brings a chain and a list, k2 only the empty list, k3 is rejected after it
\* changed the running chain, k4 changes it, or leaves a trace of its first item.
PushContent ==
    k1 :> [chain |-> <<c1, c2>>, list |-> {d1, d2}] @@
    k2 :> [chain |-> <<>>, list |-> {}] @@
    k3 :> [chain |-> <<c2, BadItem>>, list |-> {d1}] @@
    k4 :> [chain |-> <<c1, c1>>, list |-> NoList]

\* What the runs explore: at most one save fails, and d1 alone is moved to
\* another MQTT server, as long as none failed (d2 keeps the gateway's).
FewMoves == moved' \subseteq (IF Intact THEN {d1} ELSE moved)
OneFailure == (Works /\ FewMoves) \/ (Intact /\ SaveFails)
OneFailureSpec == Init /\ [][OneFailure]_vars /\ Fairness
=============================================================================
