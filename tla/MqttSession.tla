---------------------------- MODULE MqttSession ----------------------------
(***************************************************************************)
(* One MQTT session of a device: mosquitto_api.c, and the connect thread   *)
(* of dev_mqtt.c.  Three threads work on the same MQTT_CONNECT_PARAM:      *)
(*                                                                         *)
(*   the connect thread (cpc): device_mqtt_connect, or for a trial of a    *)
(*     new broker the caller of device_mqtt_check;                         *)
(*   the network thread (net), which mosquitto_loop_start creates and on   *)
(*     which every callback runs;                                          *)
(*   the controller (dpc): DeviceMqttDisConnect, MqttServerDisConnect.     *)
(*                                                                         *)
(* They share two objects on the heap, the library's client and the user   *)
(* data of the callbacks.  A thread that uses one after it was freed is    *)
(* recorded in stale: the program may then go on or die.                   *)
(***************************************************************************)
VARIABLES
    sub,        \* sub_topics # NULL: a device's session, else a trial
    cpc,        \* the connect thread
    dpc,        \* the controller
    cancelled,  \* pthread_cancel was called for the connect thread
    para,       \* para->mosq # NULL
    client,     \* struct mosquitto: "none", "live" or "freed"
    net,        \* the network thread
    link,       \* state of the connection in the library
    ud,         \* MQTT_USER_PARAM: "none", "live" or "freed"
    csem,       \* sem_connect is posted
    dsem,       \* disconnect_sem is posted
    refused,    \* connect_status
    granted,    \* the broker accepted this attempt (history)
    early,      \* the disconnect began before the session stood (history)
    stale       \* threads that used an object after it was freed (history)

cvars == <<cpc, ud, csem, dsem, refused, granted>>
dvars == <<dpc, cancelled, early>>
nvars == <<net, link>>
vars == <<sub, cvars, dvars, nvars, para, client, stale>>

CSteps == {"off", "enter", "create", "start", "connect", "await", "check",
           "giveup", "clear", "drop", "failed", "serve", "release",
           "returned", "ended", "cancelled", "dead"}
DSteps == {"idle", "post", "disconnect", "stop", "destroy", "null", "cancel", "done",
           "dead"}
Links == {"unset", "down", "tcp", "up", "subscribed", "closed"}

\* mosquitto_api.c sets para->mosq before the connection is made, and a
\* session stands once the connect thread waits for disconnect_sem.
Init ==
    /\ sub \in BOOLEAN
    /\ cpc = "off" /\ dpc = "idle" /\ cancelled = FALSE
    /\ para = FALSE /\ client = "none" /\ net = "off" /\ link = "unset"
    /\ ud = "none" /\ csem = FALSE /\ dsem = FALSE /\ refused = FALSE
    /\ granted = FALSE /\ early = FALSE /\ stale = {}

\* Thread t uses the client, or the user data, of the session.
UseClient(t) == stale' = stale \union (IF client = "live" THEN {} ELSE {t})
UseUserData(t) == stale' = stale \union (IF ud = "live" THEN {} ELSE {t})

\* mosquitto_destroy: the network thread is cancelled and joined.
Destroy(t) ==
    /\ UseClient(t)
    /\ client' = "freed"
    /\ net' = "off"
    /\ link' = "unset"

-----------------------------------------------------------------------------
(* The connect thread.                                                      *)

CStart ==
    /\ cpc = "off" /\ dpc = "idle"
    /\ cpc' = "enter"
    /\ UNCHANGED <<sub, ud, csem, dsem, refused, granted, dvars, nvars, para,
                   client, stale>>

\* MqttServerConnect up to the call of _mqtt_connect_.
CEnter ==
    /\ cpc = "enter"
    /\ IF para
       THEN /\ cpc' = "returned"
            /\ UNCHANGED <<ud, csem, dsem, refused, granted>>
       ELSE /\ cpc' = "create"
            /\ ud' = "live"
            /\ csem' = FALSE /\ dsem' = FALSE /\ refused' = FALSE /\ granted' = FALSE
    /\ UNCHANGED <<sub, dvars, nvars, para, client, stale>>

CNoMemory ==
    /\ cpc = "enter" /\ ~para
    /\ cpc' = "failed"
    /\ UNCHANGED <<sub, ud, csem, dsem, refused, granted, dvars, nvars, para,
                   client, stale>>

CCreate ==
    /\ cpc = "create"
    /\ client' = "live" /\ link' = "unset" /\ para' = TRUE
    /\ cpc' = "start"
    /\ UNCHANGED <<sub, ud, csem, dsem, refused, granted, dvars, net, stale>>

CCreateFails ==
    /\ cpc = "create"
    /\ cpc' = "drop"
    /\ UNCHANGED <<sub, ud, csem, dsem, refused, granted, dvars, nvars, para,
                   client, stale>>

\* mosquitto_loop_start.
CLoopStart ==
    /\ cpc = "start"
    /\ UseClient("connect")
    /\ net' = IF client = "live" THEN "loop" ELSE net
    /\ cpc' = "connect"
    /\ UNCHANGED <<sub, ud, csem, dsem, refused, granted, dvars, link, para, client>>

CLoopStartFails ==
    /\ cpc = "start"
    /\ UseClient("connect")
    /\ cpc' = "giveup"
    /\ UNCHANGED <<sub, ud, csem, dsem, refused, granted, dvars, nvars, para, client>>

\* mosquitto_connect: it keeps the host, also when it fails, so that the
\* network thread may connect by itself from then on.
CConnect ==
    /\ cpc = "connect" /\ ~cancelled
    /\ UseClient("connect")
    /\ link' = IF link = "unset" /\ client = "live" THEN "tcp" ELSE link
    /\ cpc' = "await"
    /\ UNCHANGED <<sub, ud, csem, dsem, refused, granted, dvars, net, para, client>>

CConnectFails ==
    /\ cpc = "connect" /\ ~cancelled
    /\ UseClient("connect")
    /\ link' = IF link = "unset" /\ client = "live" THEN "down" ELSE link
    /\ cpc' = "giveup"
    /\ UNCHANGED <<sub, ud, csem, dsem, refused, granted, dvars, net, para, client>>

\* Mutant: the answer of the broker is not waited for.
CAwaitNot ==
    /\ cpc = "await" /\ ~cancelled
    /\ csem' = FALSE
    /\ cpc' = "check"
    /\ UNCHANGED <<sub, ud, dsem, refused, granted, dvars, nvars, para, client, stale>>

CAwait ==
    /\ cpc = "await" /\ ~cancelled
    /\ csem
    /\ csem' = FALSE
    /\ cpc' = "check"
    /\ UNCHANGED <<sub, ud, dsem, refused, granted, dvars, nvars, para, client, stale>>

CCheck ==
    /\ cpc = "check"
    /\ cpc' = IF refused THEN "giveup" ELSE IF sub THEN "serve" ELSE "release"
    /\ UNCHANGED <<sub, ud, csem, dsem, refused, granted, dvars, nvars, para,
                   client, stale>>

\* The three error paths of _mqtt_connect_: the client is destroyed, then
\* para->mosq is cleared, then MqttServerConnect frees the user data.
CGiveUp ==
    /\ cpc = "giveup"
    /\ Destroy("connect")
    /\ cpc' = "clear"
    /\ UNCHANGED <<sub, ud, csem, dsem, refused, granted, dvars, para>>

CClear ==
    /\ cpc = "clear"
    /\ para' = FALSE
    /\ cpc' = "drop"
    /\ UNCHANGED <<sub, ud, csem, dsem, refused, granted, dvars, nvars, client, stale>>

CDrop ==
    /\ cpc = "drop"
    /\ ud' = "freed"
    /\ cpc' = "failed"
    /\ UNCHANGED <<sub, csem, dsem, refused, granted, dvars, nvars, para, client, stale>>

\* Mutant: the session is left as soon as it stands, as a trial is.
CServeNot ==
    /\ cpc = "serve" /\ ~cancelled
    /\ cpc' = "release"
    /\ UNCHANGED <<sub, ud, csem, dsem, refused, granted, dvars, nvars, para,
                   client, stale>>

\* A session stands until disconnect_sem is posted; a trial is not waited for.
CServe ==
    /\ cpc = "serve" /\ ~cancelled
    /\ dsem
    /\ dsem' = FALSE
    /\ cpc' = "release"
    /\ UNCHANGED <<sub, ud, csem, refused, granted, dvars, nvars, para, client, stale>>

CRelease ==
    /\ cpc = "release"
    /\ ud' = "freed"
    /\ cpc' = "returned"
    /\ UNCHANGED <<sub, csem, dsem, refused, granted, dvars, nvars, para, client, stale>>

\* device_mqtt_connect: do MqttServerConnect; sleep 3 while it failed.
CRetry ==
    /\ cpc \in {"failed", "returned"} /\ sub /\ ~cancelled
    /\ cpc' = IF cpc = "failed" THEN "enter" ELSE "ended"
    /\ UNCHANGED <<sub, ud, csem, dsem, refused, granted, dvars, nvars, para,
                   client, stale>>

\* A cancelled thread ends at the next call that is a cancellation point.
CCancelled ==
    /\ cancelled /\ cpc \in {"connect", "await", "serve", "failed", "returned"}
    /\ link' \in (IF cpc = "connect" /\ link = "unset" /\ client = "live"
                  THEN {"unset", "down", "tcp"} ELSE {link})
    /\ cpc' = "cancelled"
    /\ UNCHANGED <<sub, ud, csem, dsem, refused, granted, dvars, net, para,
                   client, stale>>

-----------------------------------------------------------------------------
(* The network thread: the library's loop and the callbacks.                *)

\* Mutant: the subscriptions are made on the first connection only.
SubscribesOnce == sub /\ ~granted
Subscribes == sub

\* on_connect with result 0, and sub_on_connect, which subscribes to the
\* topics of the session on every connection, also a repeated one.
NAccept ==
    /\ net = "loop" /\ link = "tcp"
    /\ UseUserData("network")
    /\ link' = IF Subscribes THEN "subscribed" ELSE "up"
    /\ refused' = FALSE
    /\ granted' = TRUE
    /\ net' = "post"
    /\ UNCHANGED <<sub, cpc, ud, csem, dsem, dvars, para, client>>

\* Mutant: sem_connect is posted only for a connection that was accepted.
NRefuseNoPost ==
    /\ net = "loop" /\ link = "tcp"
    /\ UseUserData("network")
    /\ link' = "down"
    /\ refused' = TRUE
    /\ UNCHANGED <<sub, cpc, net, ud, csem, dsem, granted, dvars, para, client>>

NRefuse ==
    /\ net = "loop" /\ link = "tcp"
    /\ UseUserData("network")
    /\ link' = "down"
    /\ refused' = TRUE
    /\ net' = "post"
    /\ UNCHANGED <<sub, cpc, ud, csem, dsem, granted, dvars, para, client>>

NPost ==
    /\ net = "post"
    /\ UseUserData("network")
    /\ csem' = TRUE
    /\ net' = "loop"
    /\ UNCHANGED <<sub, cpc, ud, dsem, refused, granted, dvars, link, para, client>>

\* on_message calls msg_cb, mqtt_receiver_cb for a device.
NMessage ==
    /\ net = "loop" /\ link = "subscribed"
    /\ UseUserData("network")
    /\ net' = "handle"
    /\ UNCHANGED <<sub, cvars, dvars, link, para, client>>

NReturn ==
    /\ net = "handle"
    /\ net' = "loop"
    /\ UNCHANGED <<sub, cvars, dvars, link, para, client, stale>>

\* The connection, or the broker behind it, is lost; on_disconnect does
\* nothing and the library's loop connects again.
NLose ==
    /\ net \in {"loop", "post", "handle"} /\ link \in {"tcp", "up", "subscribed"}
    /\ link' = "down"
    /\ UNCHANGED <<sub, cvars, dvars, net, para, client, stale>>

NReconnect ==
    /\ net = "loop" /\ link = "down"
    /\ link' = "tcp"
    /\ UNCHANGED <<sub, cvars, dvars, net, para, client, stale>>

\* A thread of the device publishes through para->mosq (MqttPublish); only a
\* use of a freed client leaves a trace.
Publish ==
    /\ sub /\ para /\ client = "freed"
    /\ UseClient("publish")
    /\ UNCHANGED <<sub, cvars, dvars, nvars, para, client>>

-----------------------------------------------------------------------------
(* The controller.  A trial is taken down by the thread that made it, and   *)
(* a device's session by another one, at any moment.                        *)

\* The early return of MqttServerDisConnect if para->mosq is NULL.
DBegin ==
    /\ dpc = "idle"
    /\ IF sub THEN cpc # "off" ELSE cpc \in {"failed", "returned"}
    /\ early' = (sub /\ cpc # "serve")
    /\ dpc' = IF para THEN "post" ELSE IF sub THEN "cancel" ELSE "done"
    /\ UNCHANGED <<sub, cvars, cancelled, nvars, para, client, stale>>

DPost ==
    /\ dpc = "post"
    /\ dsem' = TRUE
    /\ dpc' = "disconnect"
    /\ UNCHANGED <<sub, cpc, ud, csem, refused, granted, cancelled, early, nvars,
                   para, client, stale>>

\* Mutant: the library is not told to disconnect.
DDisconnectNot ==
    /\ dpc = "disconnect"
    /\ dpc' = "stop"
    /\ UNCHANGED <<sub, cvars, cancelled, early, nvars, para, client, stale>>

DDisconnect ==
    /\ dpc = "disconnect"
    /\ UseClient("controller")
    /\ link' = IF client = "live" THEN "closed" ELSE link
    /\ dpc' = "stop"
    /\ UNCHANGED <<sub, cvars, cancelled, early, net, para, client>>

\* Mutant: the client is neither stopped nor destroyed.
DStopNot ==
    /\ dpc = "stop"
    /\ UseClient("controller")
    /\ dpc' = "null"
    /\ UNCHANGED <<sub, cvars, cancelled, early, nvars, para, client>>

\* mosquitto_loop_stop without force joins the network thread, which first
\* finishes the callback it is in and ends only after mosquitto_disconnect.
DStop ==
    /\ dpc = "stop"
    /\ net = "off" \/ (net = "loop" /\ link = "closed")
    /\ UseClient("controller")
    /\ net' = "off"
    /\ dpc' = "destroy"
    /\ UNCHANGED <<sub, cvars, cancelled, early, link, para, client>>

DDestroy ==
    /\ dpc = "destroy"
    /\ Destroy("controller")
    /\ dpc' = "null"
    /\ UNCHANGED <<sub, cvars, cancelled, early, para>>

DNull ==
    /\ dpc = "null"
    /\ para' = FALSE
    /\ dpc' = IF sub THEN "cancel" ELSE "done"
    /\ UNCHANGED <<sub, cvars, cancelled, early, nvars, client, stale>>

\* DeviceMqttDisConnect cancels the connect thread, a detached one: its id is
\* no longer valid if it ended in the meantime.
DCancel ==
    /\ dpc = "cancel"
    /\ cancelled' = (cpc # "ended")
    /\ stale' = stale \union (IF cpc = "ended" THEN {"controller"} ELSE {})
    /\ dpc' = "done"
    /\ UNCHANGED <<sub, cvars, early, nvars, para, client>>

-----------------------------------------------------------------------------
ConnectThread ==
    \/ CEnter \/ CNoMemory \/ CCreate \/ CCreateFails \/ CLoopStart
    \/ CLoopStartFails \/ CConnect \/ CConnectFails \/ CAwait \/ CCheck
    \/ CGiveUp \/ CClear \/ CDrop \/ CServe \/ CRelease \/ CRetry \/ CCancelled

NetworkThread ==
    NAccept \/ NRefuse \/ NPost \/ NMessage \/ NReturn \/ NLose \/ NReconnect

Controller == DPost \/ DDisconnect \/ DStop \/ DDestroy \/ DNull \/ DCancel

\* What a use of a freed object may end in: every thread is gone.
Die ==
    /\ stale # {} /\ cpc # "dead"
    /\ cpc' = "dead" /\ net' = "dead" /\ link' = "unset" /\ para' = FALSE
    /\ dpc' = IF dpc = "done" THEN "done" ELSE "dead"
    /\ UNCHANGED <<sub, ud, csem, dsem, refused, granted, cancelled, early,
                   client, stale>>

Next ==
    \/ CStart \/ ConnectThread \/ NetworkThread \/ Publish
    \/ DBegin \/ Controller \/ Die

\* Threads run; a handler returns.  If asked again and again, the library finds
\* memory and the server, a lost connection is made again and the broker answers
\* at last; it accepts a device at last, but may refuse a trial for ever.
\* Nothing is assumed of the faults, nor that anybody starts or ends a session.
Fairness ==
    /\ WF_vars(ConnectThread) /\ WF_vars(Controller) /\ WF_vars(DBegin /\ ~sub)
    /\ WF_vars(NPost \/ NReturn)
    /\ SF_vars(CEnter) /\ SF_vars(CCreate) /\ SF_vars(CLoopStart) /\ SF_vars(CConnect)
    /\ SF_vars(NReconnect) /\ SF_vars(NAccept \/ NRefuse) /\ SF_vars(NAccept /\ sub)

Spec == Init /\ [][Next]_vars
FairSpec == Spec /\ Fairness

-----------------------------------------------------------------------------
(* Properties                                                              *)

TypeOK ==
    /\ sub \in BOOLEAN /\ cpc \in CSteps /\ dpc \in DSteps /\ cancelled \in BOOLEAN
    /\ para \in BOOLEAN
    /\ client \in {"none", "live", "freed"} /\ ud \in {"none", "live", "freed"}
    /\ net \in {"off", "loop", "post", "handle", "dead"} /\ link \in Links
    /\ csem \in BOOLEAN /\ dsem \in BOOLEAN /\ refused \in BOOLEAN
    /\ granted \in BOOLEAN /\ early \in BOOLEAN
    /\ stale \in SUBSET {"connect", "network", "controller", "publish"}

\* MqttServerConnect reports success, and a session stands, only if the broker
\* accepted this very attempt: GatewayMqttCfgRecvCb moves the gateway and all
\* its sub-devices to another broker on the word of a trial.
SuccessIsGranted == cpc \in {"serve", "release", "returned"} => granted

\* Where an object can be used after it was freed, and nowhere else, unless the
\* disconnect began before the session stood: the network thread once
\* MqttServerDisConnect posted disconnect_sem, or in a trial, whose user data is
\* freed on success; a publisher in the gap between mosquitto_destroy and the
\* clearing of para->mosq; pthread_cancel if the connect thread has ended.
\* Failed attempts, refusals and reconnects are not among them.
StaleUseWindows ==
    [][\A t \in stale' \ stale :
         \/ early
         \/ t = "network" /\ (sub => dpc \in {"disconnect", "stop"})
         \/ t = "publish" /\ (cpc = "clear" \/ dpc = "null")
         \/ t = "controller" /\ dpc = "cancel" /\ cpc = "ended"]_vars

\* The session keeps the promise of MqttLink: it is over once a disconnect that
\* found it standing has returned.
Link == INSTANCE MqttLink WITH
    phase <- IF dpc = "done" /\ ~early THEN "over"
             ELSE IF link = "subscribed" THEN "open" ELSE "closed",
    handling <- (net = "handle")
LinkPromise == Link!Spec

\* As long as nobody takes it down, a device gets its subscriptions back, from
\* whatever failed attempt, refusal or lost connection.
StaysSubscribed ==
    sub /\ cpc # "off" ~> (link = "subscribed" \/ dpc # "idle" \/ stale # {})

\* The disconnect of a session that stood returns, and the connect thread is
\* gone afterwards: it does not try again.
DisconnectEnds ==
    dpc # "idle" /\ ~early ~>
        (stale # {} \/ (dpc = "done" /\ (sub => cpc \in {"ended", "cancelled"})))

\* A trial of a broker comes to its end: the network thread of the running
\* session, on which it is made, is not blocked by it for ever.
TrialEnds == ~sub /\ cpc # "off" ~> (dpc = "done" \/ stale # {})
=============================================================================
