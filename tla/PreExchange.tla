----------------------------- MODULE PreExchange -----------------------------
(***************************************************************************)
(* The demonstration of proxy re-encryption in src/src_c/pre: receivers    *)
(* ask a proxy for the sender's data key, the proxy forwards the request,  *)
(* the sender answers with the key encrypted to itself, and the proxy      *)
(* re-encrypts the answer for the receiver.  All of it goes through an     *)
(* MQTT broker with QoS 0, which keeps the order of one client's messages  *)
(* and may lose any.  Meanwhile a thread of the sender replaces the data   *)
(* key in the file ./sym_key every 200 seconds.                            *)
(*                                                                         *)
(* Data keys are numbered in the order they are generated.  What a cipher  *)
(* text decrypts to is the subject of module PreCipher; here one made for  *)
(* a receiver decrypts to the key there and to Garbage elsewhere.          *)
(***************************************************************************)
EXTENDS Integers, Sequences

CONSTANTS
    Receivers,
    Garbage,            \* decryption of a result made for someone else
    PutFails,           \* ConfigPut may return an error
    MaxKeys,            \* bound on generated data keys
    MaxRequests,        \* bound on requests
    MaxFaults           \* bound on lost messages and sender restarts

ASSUME ConstantsAssumption ==
    /\ PutFails \in BOOLEAN
    /\ MaxKeys \in Nat \ {0} /\ MaxRequests \in Nat /\ MaxFaults \in Nat
    /\ Garbage \notin Nat
    /\ Receivers \cap {"proxy", "sender", "none"} = {}

\* A key number; 0 is a field of the file or of data_key that is not there.
Keys == 0 .. MaxKeys

\* PRE_SYMMETRIC_KEY: m is the hash of mGT, so both carry the key's number.
SymmetricKeys == [m : Keys, mGT : Keys]
NoKey == [m |-> 0, mGT |-> 0]

Clients == Receivers \cup {"proxy", "sender"}

VARIABLES
    provisioned,\* whether ./sym_key existed before the sender's first start
    keyFile,    \* ./sym_key; it exists once a field is there
    made,       \* number of data keys generated so far
    upd,        \* Key_Update: "make", "putM", "putGT", "stopped"
    updKey,     \* its data_key
    snd,        \* pre_sender_process: "idle", "readM", ..., "answer"
    sndKey,     \* its data_key
    sndTo,      \* the receiver of the request it answers
    inbox,      \* messages on their way to each client
    got,        \* msg.mGT of each receiver
    held,       \* the last key each receiver decrypted (history)
    asks,       \* requests made
    faults      \* messages lost and restarts

fileVars == <<provisioned, keyFile, made>>
updVars  == <<upd, updKey>>
sndVars  == <<snd, sndKey, sndTo>>
vars == <<fileVars, updVars, sndVars, inbox, got, held, asks, faults>>

FileExists == keyFile # NoKey

\* Topics: "request" (receivers to proxy), "forward" (proxy to sender),
\* "response" (sender to proxy), "result" (proxy to receivers).
Subscribers(topic) ==
    CASE topic \in {"request", "response"} -> {"proxy"}
      [] topic = "forward" -> {"sender"}
      [] topic = "result" -> Receivers

Roles == {"receiver", "proxy", "sender"}
Messages == [topic : {"request", "forward", "response", "result"},
             role : Roles, to : Receivers, key : Keys]

Message(topic, role, to, key) ==
    [topic |-> topic, role |-> role, to |-> to, key |-> key]

\* MqttPublish: the broker hands the message to every subscriber of the topic.
\* taken is the client whose first message is being handled, or "none".
Deliver(msg, taken) ==
    [c \in Clients |->
        LET rest == IF c = taken THEN Tail(inbox[c]) ELSE inbox[c]
        IN  IF c \in Subscribers(msg.topic) THEN Append(rest, msg) ELSE rest]

Drop(c) == [inbox EXCEPT ![c] = Tail(@)]

\* Whether the first message of client c has this topic.
IsNext(c, topic) == inbox[c] # <<>> /\ Head(inbox[c]).topic = topic

Init ==
    /\ provisioned \in BOOLEAN
    /\ keyFile = IF provisioned THEN [m |-> 1, mGT |-> 1] ELSE NoKey
    /\ made = IF provisioned THEN 1 ELSE 0
    /\ upd = "make" /\ updKey = 0
    /\ snd = "idle" /\ sndKey = NoKey /\ sndTo \in Receivers
    /\ inbox = [c \in Clients |-> <<>>]
    /\ got = [r \in Receivers |-> 0] /\ held = got
    /\ asks = 0 /\ faults = 0

-----------------------------------------------------------------------------
(* Key_Update                                                              *)

UpdMake ==
    /\ upd = "make"
    /\ made < MaxKeys
    /\ made' = made + 1
    /\ updKey' = made + 1
    /\ upd' = "putM"
    /\ UNCHANGED <<provisioned, keyFile, sndVars, inbox, got, held, asks, faults>>

\* A slip of the next: writing the first field starts the file anew.
UpdPutMAnew ==
    /\ upd = "putM"
    /\ keyFile' = [m |-> updKey, mGT |-> 0]
    /\ upd' = "putGT"
    /\ UNCHANGED <<provisioned, made, updKey, sndVars, inbox, got, held, asks, faults>>

\* sharedKey_Set writes m, then mGT.
UpdPutM ==
    /\ upd = "putM"
    /\ keyFile' = [keyFile EXCEPT !.m = updKey]
    /\ upd' = "putGT"
    /\ UNCHANGED <<provisioned, made, updKey, sndVars, inbox, got, held, asks, faults>>

UpdPutGT ==
    /\ upd = "putGT"
    /\ keyFile' = [keyFile EXCEPT !.mGT = updKey]
    /\ upd' = "make"
    /\ UNCHANGED <<provisioned, made, updKey, sndVars, inbox, got, held, asks, faults>>

\* A failed ConfigPut ends the loop: the key is never replaced again.
UpdPutFails ==
    /\ PutFails
    /\ upd \in {"putM", "putGT"}
    /\ upd' = "stopped"
    /\ UNCHANGED <<fileVars, updKey, sndVars, inbox, got, held, asks, faults>>

-----------------------------------------------------------------------------
(* The sender's handler, pre_sender_process                                *)

\* A slip: the branch of PreSymmetricKey_Get that is compiled out, which
\* generates a key for every request and keeps it nowhere.
SndReceiveAlwaysNew ==
    /\ snd = "idle"
    /\ IsNext("sender", "forward") /\ Head(inbox["sender"]).role = "proxy"
    /\ made < MaxKeys
    /\ made' = made + 1
    /\ sndKey' = [m |-> made + 1, mGT |-> made + 1]
    /\ sndTo' = Head(inbox["sender"]).to
    /\ snd' = "answer"
    /\ inbox' = Drop("sender")
    /\ UNCHANGED <<provisioned, keyFile, updVars, got, held, asks, faults>>

\* A slip: the handler takes the key Key_Update has in memory.
SndReceiveFromMemory ==
    /\ snd = "idle"
    /\ IsNext("sender", "forward") /\ Head(inbox["sender"]).role = "proxy"
    /\ sndKey' = [m |-> updKey, mGT |-> updKey]
    /\ sndTo' = Head(inbox["sender"]).to
    /\ snd' = "answer"
    /\ inbox' = Drop("sender")
    /\ UNCHANGED <<fileVars, updVars, got, held, asks, faults>>

\* A forwarded request: read the key where the file exists, make one otherwise.
\* The public key of the sender that the request names is not looked at.
SndReceive ==
    /\ snd = "idle"
    /\ IsNext("sender", "forward") /\ Head(inbox["sender"]).role = "proxy"
    /\ sndTo' = Head(inbox["sender"]).to
    /\ inbox' = Drop("sender")
    /\ \/ /\ FileExists
          /\ sndKey' = NoKey
          /\ snd' = "readM"
          /\ made' = made
       \/ /\ ~FileExists
          /\ made < MaxKeys
          /\ made' = made + 1
          /\ sndKey' = [m |-> made + 1, mGT |-> made + 1]
          /\ snd' = "putM"
    /\ UNCHANGED <<provisioned, keyFile, updVars, got, held, asks, faults>>

\* sharedKey_Get reads m, then mGT.  A field that is not there makes it fail;
\* pre_sender_process ignores the failure and goes on with what was read.
SndReadM ==
    /\ snd = "readM"
    /\ sndKey' = [sndKey EXCEPT !.m = keyFile.m]
    /\ snd' = IF keyFile.m = 0 THEN "answer" ELSE "readGT"
    /\ UNCHANGED <<fileVars, updVars, sndTo, inbox, got, held, asks, faults>>

SndReadGT ==
    /\ snd = "readGT"
    /\ sndKey' = [sndKey EXCEPT !.mGT = keyFile.mGT]
    /\ snd' = "answer"
    /\ UNCHANGED <<fileVars, updVars, sndTo, inbox, got, held, asks, faults>>

SndPutM ==
    /\ snd = "putM"
    /\ keyFile' = [keyFile EXCEPT !.m = sndKey.m]
    /\ snd' = "putGT"
    /\ UNCHANGED <<provisioned, made, updVars, sndKey, sndTo, inbox, got, held, asks, faults>>

SndPutGT ==
    /\ snd = "putGT"
    /\ keyFile' = [keyFile EXCEPT !.mGT = sndKey.mGT]
    /\ snd' = "answer"
    /\ UNCHANGED <<provisioned, made, updVars, sndKey, sndTo, inbox, got, held, asks, faults>>

\* The handler ignores a failed ConfigPut as well.
SndPutFails ==
    /\ PutFails
    /\ snd \in {"putM", "putGT"}
    /\ snd' = "answer"
    /\ UNCHANGED <<fileVars, updVars, sndKey, sndTo, inbox, got, held, asks, faults>>

\* Only mGT is encrypted; the receiver computes m from it.
SndAnswer ==
    /\ snd = "answer"
    /\ inbox' = Deliver(Message("response", "sender", sndTo, sndKey.mGT), "none")
    /\ snd' = "idle"
    /\ UNCHANGED <<fileVars, updVars, sndKey, sndTo, got, held, asks, faults>>

-----------------------------------------------------------------------------
(* The proxy, pre_proxy_cb                                                 *)

\* A slip: the request is forwarded as it came, with the receiver's role.
ProxyForwardAsIs ==
    /\ IsNext("proxy", "request")
    /\ LET req == Head(inbox["proxy"])
       IN  /\ req.role = "receiver"
           /\ inbox' = Deliver(Message("forward", req.role, req.to, 0), "proxy")
    /\ UNCHANGED <<fileVars, updVars, sndVars, got, held, asks, faults>>

\* pre_proxy_process_recv.  A message whose role is not the expected one is
\* ignored by each program; in this system none is sent.
ProxyForward ==
    /\ IsNext("proxy", "request")
    /\ LET req == Head(inbox["proxy"])
       IN  /\ req.role = "receiver"
           /\ inbox' = Deliver(Message("forward", "proxy", req.to, 0), "proxy")
    /\ UNCHANGED <<fileVars, updVars, sndVars, got, held, asks, faults>>

\* pre_proxy_process_send.
ProxyReEncrypt ==
    /\ IsNext("proxy", "response")
    /\ LET resp == Head(inbox["proxy"])
       IN  /\ resp.role = "sender"
           /\ inbox' = Deliver(Message("result", "proxy", resp.to, resp.key), "proxy")
    /\ UNCHANGED <<fileVars, updVars, sndVars, got, held, asks, faults>>

-----------------------------------------------------------------------------
(* The receivers                                                           *)

\* PreReceiverSendReq.
RecvRequest(r) ==
    /\ asks < MaxRequests
    /\ asks' = asks + 1
    /\ inbox' = Deliver(Message("request", "receiver", r, 0), "none")
    /\ UNCHANGED <<fileVars, updVars, sndVars, got, held, faults>>

\* pre_receiver_process decrypts every result the broker delivers: it does not
\* look at the receiver's public key in it.
RecvResult(r) ==
    /\ IsNext(r, "result") /\ Head(inbox[r]).role = "proxy"
    /\ got' = [got EXCEPT ![r] = IF Head(inbox[r]).to = r THEN Head(inbox[r]).key
                                                          ELSE Garbage]
    /\ held' = [held EXCEPT ![r] = IF Head(inbox[r]).to = r THEN Head(inbox[r]).key ELSE @]
    /\ inbox' = Drop(r)
    /\ UNCHANGED <<fileVars, updVars, sndVars, asks, faults>>

-----------------------------------------------------------------------------
(* Faults                                                                  *)

\* QoS 0: a message may not arrive.
Lose(c) ==
    /\ faults < MaxFaults
    /\ inbox[c] # <<>>
    /\ inbox' = Drop(c)
    /\ faults' = faults + 1
    /\ UNCHANGED <<fileVars, updVars, sndVars, got, held, asks>>

\* The sender's process dies and starts again; only the file is left, and what
\* was published to it meanwhile is gone.
Restart ==
    /\ faults < MaxFaults
    /\ faults' = faults + 1
    /\ upd' = "make" /\ updKey' = 0
    /\ snd' = "idle" /\ sndKey' = NoKey
    /\ inbox' = [inbox EXCEPT !["sender"] = <<>>]
    /\ UNCHANGED <<fileVars, sndTo, got, held, asks>>

Update == UpdMake \/ UpdPutM \/ UpdPutGT \/ UpdPutFails
Sender ==
    \/ SndReceive
    \/ SndReadM \/ SndReadGT
    \/ SndPutM \/ SndPutGT \/ SndPutFails
    \/ SndAnswer
Proxy == ProxyForward \/ ProxyReEncrypt

Next ==
    \/ Update
    \/ Sender
    \/ Proxy
    \/ \E r \in Receivers : RecvRequest(r) \/ RecvResult(r)
    \/ \E c \in Clients : Lose(c)
    \/ Restart

Spec == Init /\ [][Next]_vars

\* The network thread of each client handles what arrives; nobody has to ask,
\* and the thread that replaces the key may be as slow as it likes.
Fairness ==
    /\ WF_vars(Sender)
    /\ WF_vars(Proxy)
    /\ \A r \in Receivers : WF_vars(RecvResult(r))

FairSpec == Spec /\ Fairness

-----------------------------------------------------------------------------
(* Properties                                                              *)

\* Types of the state of the three programs and of the messages between them.
TypeOK ==
    /\ provisioned \in BOOLEAN /\ keyFile \in SymmetricKeys /\ made \in Keys
    /\ upd \in {"make", "putM", "putGT", "stopped"} /\ updKey \in Keys
    /\ snd \in {"idle", "readM", "readGT", "putM", "putGT", "answer"}
    /\ sndKey \in SymmetricKeys /\ sndTo \in Receivers
    /\ inbox \in [Clients -> Seq(Messages)]
    /\ got \in [Receivers -> Keys \cup {Garbage}] /\ held \in [Receivers -> Keys]
    /\ asks \in 0 .. MaxRequests /\ faults \in 0 .. MaxFaults

\* Where the key file existed from the start, so that only Key_Update writes it:
\* the keys a receiver decrypts never go back to an older one, although keys are
\* replaced, messages are lost, others' results come in between and the sender
\* restarts.
KeysAdvance ==
    [][provisioned => \A r \in Receivers : held'[r] >= held[r]]_vars

\* There, too, a key on its way to a receiver is already in the sender's file, so
\* a restart of the sender cannot lose a key that somebody holds (sharedKey_Set
\* by Key_Update before sharedKey_Get by the handler).
GivenIsSaved ==
    provisioned =>
        /\ \A c \in Clients : \A i \in DOMAIN inbox[c] : inbox[c][i].key <= keyFile.mGT
        /\ \A r \in Receivers : held[r] <= keyFile.mGT

\* A request of r waits at the proxy, and from now on no message is lost and the
\* sender stays up.
HasAsked(r) ==
    /\ faults = MaxFaults
    /\ \E i \in DOMAIN inbox["proxy"] :
          inbox["proxy"][i].topic = "request" /\ inbox["proxy"][i].to = r

\* A request that waits at the proxy while the file holds key v ends with its
\* receiver holding v or a newer key, whatever was lost before.
RequestRefreshes ==
    \A r \in Receivers : \A v \in Keys :
        (provisioned /\ keyFile.mGT = v /\ HasAsked(r)) ~> (got[r] \in Keys /\ got[r] >= v)

\* Also where the file did not exist at first, so that the handler and Key_Update
\* both generate and write keys: once the file has a key, a request is answered
\* with some key and never with nothing.
RequestGetsKey ==
    \A r \in Receivers :
        (keyFile.mGT # 0 /\ HasAsked(r)) ~> (got[r] \in Keys \ {0})

\* "5. the data provider generates or reads the symmetric key m ..., a point of
\* GT": the m the sender works with is the hash of the mGT it encrypts.
SharedKeyAgrees == snd = "answer" => sndKey.m = sndKey.mGT
=============================================================================
