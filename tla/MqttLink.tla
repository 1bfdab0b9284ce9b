------------------------------ MODULE MqttLink ------------------------------
(***************************************************************************)
(* What a device may rely on from its MQTT session, whatever the broker,   *)
(* the network and the threads of mosquitto_api.c do: messages are handled *)
(* one at a time, a handler starts only while the subscriptions stand, and *)
(* a session that was taken down stays down.                               *)
(***************************************************************************)
VARIABLES
    phase,     \* "closed", "open" (subscribed) or "over" (taken down)
    handling   \* whether a message handler runs

Init == phase = "closed" /\ handling = FALSE

Open == phase = "closed" /\ phase' = "open" /\ UNCHANGED handling

\* The connection is lost; a handler that runs goes on.
Lose == phase = "open" /\ phase' = "closed" /\ UNCHANGED handling

Take == phase = "open" /\ ~handling /\ handling' = TRUE /\ UNCHANGED phase

Return == handling /\ handling' = FALSE /\ UNCHANGED phase

\* The connect thread gives the attempt up and stops the library's thread.
Abort == phase # "over" /\ phase' = "closed" /\ handling' = FALSE

TakeDown == ~handling /\ phase' = "over" /\ UNCHANGED handling

Next == Open \/ Lose \/ Take \/ Return \/ Abort \/ TakeDown

Spec == Init /\ [][Next]_<<phase, handling>>
=============================================================================
