---------------------------- MODULE ConfigSource ----------------------------
(***************************************************************************)
(* What the sub-devices of a gateway may rely on: the configuration they   *)
(* inherit is there as a whole or not at all, it is replaced only while    *)
(* none of them is on line, and one that is on line runs with its MQTT     *)
(* server unless it was moved to another one, and with the rest of it      *)
(* unless it had a push of its own.                                        *)
(***************************************************************************)
CONSTANTS Devices, Cfgs, SubIds, NoCfg

VARIABLES
    base,    \* the configuration to inherit; NoCfg while it is withdrawn
    live,    \* live[d]: what sub-device d runs with; NoCfg if it is off line
    moved    \* the sub-devices that were moved to another MQTT server

AllOff == [d \in Devices |-> NoCfg]

Init == base = NoCfg /\ live = AllOff /\ moved = {}

Withdraw == base' = NoCfg /\ live' = AllOff /\ moved' \subseteq moved

Offer == base = NoCfg /\ base' \in Cfgs /\ UNCHANGED <<live, moved>>

\* The configurations sub-device d may run with when it inherited b.
Derived(d, b, cfg) ==
    /\ cfg.mqtt # b.mqtt => d \in moved
    /\ cfg.id \notin SubIds => cfg.id = b.id /\ cfg.chain = b.chain

Run(d) ==
    /\ base # NoCfg
    /\ UNCHANGED <<base, moved>>
    /\ live' = [live EXCEPT ![d] = live'[d]]
    /\ live'[d] # NoCfg
    /\ Derived(d, base, live'[d])

\* A sub-device takes another MQTT server, which it uses when it is back.
Move(d) ==
    /\ base # NoCfg
    /\ moved' = moved \union {d}
    /\ live' = [live EXCEPT ![d] = NoCfg]
    /\ UNCHANGED base

Leave(d) == UNCHANGED <<base, moved>> /\ live' = [live EXCEPT ![d] = NoCfg]

Next == Withdraw \/ Offer \/ \E d \in Devices : Run(d) \/ Move(d) \/ Leave(d)

Spec == Init /\ [][Next]_<<base, live, moved>>
=============================================================================
