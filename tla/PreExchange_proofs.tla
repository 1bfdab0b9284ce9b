------------------------- MODULE PreExchange_proofs -------------------------
(***************************************************************************)
(* Proofs that a receiver of the exchange never goes back to an older data *)
(* key and that no key leaves the sender before its file holds it, for any *)
(* number of receivers, keys, requests, lost messages and restarts.        *)
(***************************************************************************)
EXTENDS PreExchange, TLAPS

-----------------------------------------------------------------------------
(* Sequences of messages, of which only answers carry a key.               *)

Carries(msg) == msg.topic \in {"response", "result"}
Keyed(s) == {i \in 1 .. Len(s) : Carries(s[i])}

Sorted(s) == \A i, j \in Keyed(s) : i < j => s[i].key <= s[j].key
Below(s, n) == \A i \in Keyed(s) : s[i].key <= n
Above(s, n) == \A i \in Keyed(s) : n <= s[i].key
Between(s, t) == \A i \in Keyed(s), j \in Keyed(t) : s[i].key <= t[j].key

LEMMA TailFacts ==
    ASSUME NEW s \in Seq(Messages), s # <<>>
    PROVE  /\ Tail(s) \in Seq(Messages)
           /\ \A i \in Keyed(Tail(s)) : i + 1 \in Keyed(s) /\ Tail(s)[i] = s[i + 1]
<1>1. Tail(s) \in Seq(Messages) /\ Len(Tail(s)) = Len(s) - 1
  OBVIOUS
<1>2. \A i \in 1 .. Len(Tail(s)) : i + 1 \in 1 .. Len(s) /\ Tail(s)[i] = s[i + 1]
  BY <1>1
<1> QED BY <1>1, <1>2 DEF Keyed

LEMMA AppendFacts ==
    ASSUME NEW s \in Seq(Messages), NEW msg \in Messages
    PROVE  /\ Append(s, msg) \in Seq(Messages)
           /\ \A i \in Keyed(Append(s, msg)) :
                 \/ i \in Keyed(s) /\ i <= Len(s) /\ Append(s, msg)[i] = s[i]
                 \/ i = Len(s) + 1 /\ Append(s, msg)[i] = msg /\ Carries(msg)
<1>1. Append(s, msg) \in Seq(Messages) /\ Len(Append(s, msg)) = Len(s) + 1
  OBVIOUS
<1>2. \A i \in 1 .. Len(s) : Append(s, msg)[i] = s[i]
  OBVIOUS
<1>3. Append(s, msg)[Len(s) + 1] = msg
  OBVIOUS
<1>4. \A i \in 1 .. Len(s) + 1 : i \in 1 .. Len(s) \/ i = Len(s) + 1
  OBVIOUS
<1> QED BY <1>1, <1>2, <1>3, <1>4 DEF Keyed

\* Taking the first message away disturbs none of the orders.
LEMMA TailOrder ==
    ASSUME NEW s \in Seq(Messages), s # <<>>
    PROVE  /\ Sorted(s) => Sorted(Tail(s))
           /\ \A n \in Nat : Below(s, n) => Below(Tail(s), n)
           /\ \A n \in Nat : Above(s, n) => Above(Tail(s), n)
           /\ \A t : Between(s, t) => Between(Tail(s), t)
           /\ \A t : Between(t, s) => Between(t, Tail(s))
<1>1. \A i \in Keyed(Tail(s)) : i \in Nat /\ i + 1 \in Keyed(s) /\ Tail(s)[i] = s[i + 1]
  BY TailFacts DEF Keyed
<1>2. \A i, j \in Keyed(Tail(s)) : i < j => i + 1 < j + 1
  BY <1>1
<1> QED BY <1>1, <1>2 DEF Sorted, Below, Above, Between

\* A message added at the end keeps the orders it fits into.
LEMMA AppendOrder ==
    ASSUME NEW s \in Seq(Messages), NEW msg \in Messages
    PROVE  /\ Sorted(s) /\ (Carries(msg) => Below(s, msg.key))
                 => Sorted(Append(s, msg))
           /\ \A n \in Nat : Below(s, n) /\ (Carries(msg) => msg.key <= n)
                 => Below(Append(s, msg), n)
           /\ \A n \in Nat : Above(s, n) /\ (Carries(msg) => n <= msg.key)
                 => Above(Append(s, msg), n)
           /\ \A t : Between(s, t) /\ (Carries(msg) => Above(t, msg.key))
                 => Between(Append(s, msg), t)
           /\ \A t : Between(t, s) /\ (Carries(msg) => Below(t, msg.key))
                 => Between(t, Append(s, msg))
<1> DEFINE a == Append(s, msg)
<1>1. \A i \in Keyed(a) : \/ i \in Keyed(s) /\ i <= Len(s) /\ a[i] = s[i]
                          \/ i = Len(s) + 1 /\ a[i] = msg /\ Carries(msg)
  BY AppendFacts
<1>2. \A i \in Keyed(a) : i \in Nat /\ i <= Len(s) + 1
  BY <1>1 DEF Keyed
<1> HIDE DEF a
<1>3. Sorted(s) /\ (Carries(msg) => Below(s, msg.key)) => Sorted(a)
  <2> SUFFICES ASSUME Sorted(s), Carries(msg) => Below(s, msg.key),
                      NEW i \in Keyed(a), NEW j \in Keyed(a), i < j
               PROVE  a[i].key <= a[j].key
    BY DEF Sorted
  <2>1. i \in Keyed(s) /\ i <= Len(s) /\ a[i] = s[i]
    BY <1>1, <1>2
  <2>2. CASE j \in Keyed(s) /\ a[j] = s[j]
    BY <2>1, <2>2 DEF Sorted
  <2>3. CASE a[j] = msg /\ Carries(msg)
    BY <2>1, <2>3 DEF Below
  <2> QED BY <1>1, <2>2, <2>3
<1>4. \A n \in Nat : Below(s, n) /\ (Carries(msg) => msg.key <= n) => Below(a, n)
  BY <1>1 DEF Below
<1>5. \A n \in Nat : Above(s, n) /\ (Carries(msg) => n <= msg.key) => Above(a, n)
  BY <1>1 DEF Above
<1>6. \A t : Between(s, t) /\ (Carries(msg) => Above(t, msg.key)) => Between(a, t)
  BY <1>1 DEF Between, Above
<1>7. \A t : Between(t, s) /\ (Carries(msg) => Below(t, msg.key)) => Between(t, a)
  BY <1>1 DEF Between, Below
<1> QED BY <1>3, <1>4, <1>5, <1>6, <1>7 DEF a
-----------------------------------------------------------------------------
(* Types                                                                   *)

LEMMA ClientFacts ==
    /\ "proxy" \in Clients /\ "sender" \in Clients /\ "none" \notin Clients
    /\ Receivers \subseteq Clients
    /\ \A r \in Receivers : r # "proxy" /\ r # "sender"
    /\ Garbage \notin Nat
BY ConstantsAssumption DEF Clients

LEMMA KeyFacts == MaxKeys \in Nat /\ Keys = 0 .. MaxKeys /\ 0 \in Keys
BY ConstantsAssumption DEF Keys

\* A delivered message keeps the type of the inboxes.
LEMMA DeliverFacts ==
    ASSUME inbox \in [Clients -> Seq(Messages)], NEW msg \in Messages,
           NEW taken \in Clients \cup {"none"},
           taken \in Clients => inbox[taken] # <<>>
    PROVE  Deliver(msg, taken) \in [Clients -> Seq(Messages)]
<1>1. \A c \in Clients :
          (IF c = taken THEN Tail(inbox[c]) ELSE inbox[c]) \in Seq(Messages)
  BY TailFacts
<1>2. \A rest \in Seq(Messages) : Append(rest, msg) \in Seq(Messages)
  OBVIOUS
<1> QED BY <1>1, <1>2 DEF Deliver

LEMMA InitTypeOK == Init => TypeOK
BY ClientFacts, KeyFacts, ConstantsAssumption
   DEF Init, TypeOK, SymmetricKeys, NoKey, Keys

\* The fields of a message whose topic and role are known.
LEMMA MessageFacts ==
    ASSUME NEW topic \in {"request", "forward", "response", "result"},
           NEW role \in Roles, NEW to \in Receivers, NEW key \in Keys
    PROVE  /\ Message(topic, role, to, key) \in Messages
           /\ Message(topic, role, to, key).topic = topic
           /\ Message(topic, role, to, key).to = to
           /\ Message(topic, role, to, key).key = key
BY DEF Message, Messages

LEMMA StepTypeOK == TypeOK /\ [Next]_vars => TypeOK'
<1> SUFFICES ASSUME TypeOK, [Next]_vars PROVE TypeOK'
  OBVIOUS
<1> USE ClientFacts, KeyFacts DEF TypeOK
<1>h. \A c \in Clients : inbox[c] # <<>> => Head(inbox[c]) \in Messages
  OBVIOUS
<1>t. \A c \in Clients : inbox[c] # <<>> => Drop(c) \in [Clients -> Seq(Messages)]
  BY TailFacts DEF Drop
<1>1. CASE Update
  <2> USE DEF sndVars
  <2>1. CASE UpdMake
    BY <2>1 DEF UpdMake
  <2>2. CASE UpdPutM
    BY <2>2 DEF UpdPutM, SymmetricKeys
  <2>3. CASE UpdPutGT
    BY <2>3 DEF UpdPutGT, SymmetricKeys
  <2>4. CASE UpdPutFails
    BY <2>4 DEF UpdPutFails, fileVars
  <2> QED BY <1>1, <2>1, <2>2, <2>3, <2>4 DEF Update
<1>2. CASE SndReceive
  <2> USE <1>2 DEF SndReceive, IsNext, updVars
  <2>1. Head(inbox["sender"]).to \in Receivers
    BY <1>h DEF Messages
  <2>2. inbox' \in [Clients -> Seq(Messages)]
    BY <1>t
  <2>3. made' \in Keys /\ sndKey' \in SymmetricKeys
    BY DEF SymmetricKeys, NoKey
  <2> QED BY <2>1, <2>2, <2>3
<1>3. CASE SndReadM \/ SndReadGT \/ SndPutM \/ SndPutGT \/ SndPutFails
  BY <1>3 DEF SndReadM, SndReadGT, SndPutM, SndPutGT, SndPutFails, fileVars, updVars,
              SymmetricKeys
<1>4. CASE SndAnswer
  <2> USE <1>4 DEF SndAnswer, fileVars, updVars
  <2>1. Message("response", "sender", sndTo, sndKey.mGT) \in Messages
    BY MessageFacts DEF SymmetricKeys, Roles
  <2>2. inbox' \in [Clients -> Seq(Messages)]
    BY <2>1, DeliverFacts
  <2> QED BY <2>2
<1>5. CASE ProxyForward
  <2> USE <1>5 DEF ProxyForward, IsNext, fileVars, updVars, sndVars
  <2>0. Head(inbox["proxy"]).to \in Receivers
    BY <1>h DEF Messages
  <2>1. Message("forward", "proxy", Head(inbox["proxy"]).to, 0) \in Messages
    BY <2>0, MessageFacts DEF Roles
  <2>2. inbox' \in [Clients -> Seq(Messages)]
    BY <2>1, DeliverFacts
  <2> QED BY <2>2
<1>6. CASE ProxyReEncrypt
  <2> USE <1>6 DEF ProxyReEncrypt, IsNext, fileVars, updVars, sndVars
  <2>0. Head(inbox["proxy"]).to \in Receivers /\ Head(inbox["proxy"]).key \in Keys
    BY <1>h DEF Messages
  <2>1. Message("result", "proxy", Head(inbox["proxy"]).to, Head(inbox["proxy"]).key)
           \in Messages
    BY <2>0, MessageFacts DEF Roles
  <2>2. inbox' \in [Clients -> Seq(Messages)]
    BY <2>1, DeliverFacts
  <2> QED BY <2>2
<1>7. ASSUME NEW r \in Receivers, RecvRequest(r) PROVE TypeOK'
  <2> USE <1>7 DEF RecvRequest, fileVars, updVars, sndVars
  <2>1. Message("request", "receiver", r, 0) \in Messages
    BY MessageFacts DEF Roles
  <2>2. inbox' \in [Clients -> Seq(Messages)]
    BY <2>1, DeliverFacts
  <2>3. asks' \in 0 .. MaxRequests
    BY ConstantsAssumption
  <2> QED BY <2>2, <2>3
<1>8. ASSUME NEW r \in Receivers, RecvResult(r) PROVE TypeOK'
  <2> USE <1>8 DEF RecvResult, IsNext, fileVars, updVars, sndVars
  <2>1. Head(inbox[r]).key \in Keys
    BY <1>h DEF Messages
  <2>2. got' \in [Receivers -> Keys \cup {Garbage}] /\ held' \in [Receivers -> Keys]
    BY <2>1
  <2>3. inbox' \in [Clients -> Seq(Messages)]
    BY <1>t
  <2> QED BY <2>2, <2>3
<1>9. ASSUME NEW c \in Clients, Lose(c) PROVE TypeOK'
  <2> USE <1>9 DEF Lose, fileVars, updVars, sndVars
  <2>1. inbox' \in [Clients -> Seq(Messages)]
    BY <1>t
  <2>2. faults' \in 0 .. MaxFaults
    BY ConstantsAssumption
  <2> QED BY <2>1, <2>2
<1>10. CASE Restart
  <2> USE <1>10 DEF Restart, fileVars
  <2>1. faults' \in 0 .. MaxFaults
    BY ConstantsAssumption
  <2>2. inbox' \in [Clients -> Seq(Messages)]
    OBVIOUS
  <2>3. sndKey' \in SymmetricKeys
    BY DEF SymmetricKeys, NoKey
  <2> QED BY <2>1, <2>2, <2>3
<1>11. CASE UNCHANGED vars
  BY <1>11 DEF vars, fileVars, updVars, sndVars
<1> QED
  BY <1>1, <1>2, <1>3, <1>4, <1>5, <1>6, <1>7, <1>8, <1>9, <1>10, <1>11
  DEF Next, Sender, Proxy

\* The three programs and the messages between them keep their types.
THEOREM TypeCorrect == Spec => []TypeOK
BY InitTypeOK, StepTypeOK, PTL DEF Spec
-----------------------------------------------------------------------------
(* The inductive invariant.  A sender that found its key file keeps the     *)
(* keys in the order of their numbers along the way: what a receiver has is *)
(* no newer than what waits for it, that no newer than what waits at the    *)
(* proxy, that no newer than the key the handler holds, and that no newer   *)
(* than the file's, which Key_Update only replaces by the newest.           *)

KeyInv ==
    provisioned =>
        /\ keyFile.m >= 1 /\ keyFile.mGT >= 1 /\ keyFile.mGT <= made
        /\ upd \in {"putM", "putGT"} => updKey = made
        /\ snd \notin {"putM", "putGT"}

WayInv ==
    provisioned =>
        /\ \A c \in Clients : Sorted(inbox[c]) /\ Below(inbox[c], keyFile.mGT)
        /\ \A r \in Receivers : Between(inbox[r], inbox["proxy"])
        /\ \A r \in Receivers :
              /\ Above(inbox[r], held[r]) /\ Above(inbox["proxy"], held[r])
              /\ held[r] <= keyFile.mGT
        /\ snd = "answer" =>
              /\ sndKey.mGT <= keyFile.mGT
              /\ Below(inbox["proxy"], sndKey.mGT)
              /\ \A r \in Receivers : /\ Below(inbox[r], sndKey.mGT)
                                      /\ held[r] <= sndKey.mGT

\* A request carries no key.
Plain(s) == \A i \in 1 .. Len(s) : Carries(s[i]) \/ s[i].key = 0
PlainInv == \A c \in Clients : Plain(inbox[c])

IInv == TypeOK /\ KeyInv /\ WayInv /\ PlainInv
LEMMA InitIInv == Init => IInv
<1> SUFFICES ASSUME Init PROVE IInv
  OBVIOUS
<1> USE DEF Init
<1>1. TypeOK
  BY InitTypeOK
<1>2. KeyInv
  BY DEF KeyInv
<1>3. \A c \in Clients : inbox[c] = <<>>
  OBVIOUS
<1>4. Keyed(<<>>) = {} /\ Plain(<<>>)
  BY DEF Keyed, Plain
<1>5. WayInv
  BY <1>3, <1>4, ClientFacts DEF WayInv, Sorted, Below, Above, Between
<1>6. PlainInv
  BY <1>3, <1>4 DEF PlainInv
<1> QED BY <1>1, <1>2, <1>5, <1>6 DEF IInv

\* The first message of an inbox, if it carries a key.
LEMMA HeadOrder ==
    ASSUME NEW s \in Seq(Messages), s # <<>>, Carries(Head(s))
    PROVE  /\ Head(s).key \in Nat
           /\ \A n \in Nat : Below(s, n) => Head(s).key <= n
           /\ \A n \in Nat : Above(s, n) => n <= Head(s).key
           /\ \A t : Between(t, s) => Below(t, Head(s).key)
           /\ \A t : Between(s, t) => Above(t, Head(s).key)
           /\ Sorted(s) => Above(Tail(s), Head(s).key)
<1>1. 1 \in Keyed(s) /\ s[1] = Head(s)
  BY DEF Keyed
<1>2. Head(s) \in Messages
  OBVIOUS
<1>3. Head(s).key \in Nat
  BY <1>2, KeyFacts DEF Messages
<1>4. ASSUME Sorted(s) PROVE Above(Tail(s), Head(s).key)
  <2>1. \A i \in Keyed(Tail(s)) : 1 < i + 1 /\ i + 1 \in Keyed(s) /\ Tail(s)[i] = s[i + 1]
    BY TailFacts DEF Keyed
  <2> QED BY <1>1, <1>4, <2>1 DEF Sorted, Above
<1> QED BY <1>1, <1>3, <1>4 DEF Below, Above, Between

\* A larger bound is a bound.
LEMMA BelowMonotone ==
    ASSUME NEW s \in Seq(Messages), NEW m \in Nat, NEW n \in Nat, m <= n, Below(s, m)
    PROVE  Below(s, n)
<1>1. \A j \in 1 .. Len(s) : s[j] \in Messages
  OBVIOUS
<1>2. \A j \in Keyed(s) : s[j].key \in Nat
  BY <1>1, KeyFacts DEF Keyed, Messages
<1> QED BY <1>2 DEF Below

\* A step that keeps every order there is among the inboxes.
Kept ==
    /\ \A c \in Clients :
          /\ Sorted(inbox[c]) => Sorted(inbox'[c])
          /\ \A n \in Nat : Below(inbox[c], n) => Below(inbox'[c], n)
          /\ \A n \in Nat : Above(inbox[c], n) => Above(inbox'[c], n)
          /\ Plain(inbox[c]) => Plain(inbox'[c])
    /\ \A r \in Receivers :
          Between(inbox[r], inbox["proxy"]) => Between(inbox'[r], inbox'["proxy"])

LEMMA KeptWay ==
    ASSUME TypeOK, WayInv, PlainInv, Kept, UNCHANGED <<provisioned, keyFile, held>>,
           snd' = "answer" => snd = "answer" /\ sndKey' = sndKey
    PROVE  WayInv' /\ PlainInv'
<1>1. PlainInv'
  BY DEF PlainInv, Kept
<1>2. ASSUME provisioned PROVE WayInv'
  <2>1. keyFile.mGT \in Nat /\ sndKey.mGT \in Nat
    BY KeyFacts DEF TypeOK, SymmetricKeys
  <2>2. \A r \in Receivers : held[r] \in Nat
    BY KeyFacts DEF TypeOK
  <2>3. \A c \in Clients : Sorted(inbox'[c]) /\ Below(inbox'[c], keyFile.mGT)
    BY <1>2, <2>1 DEF WayInv, Kept
  <2>4. \A r \in Receivers : Between(inbox'[r], inbox'["proxy"])
    BY <1>2 DEF WayInv, Kept
  <2>5. \A r \in Receivers :
            /\ Above(inbox'[r], held[r]) /\ Above(inbox'["proxy"], held[r])
            /\ held[r] <= keyFile.mGT
    BY <1>2, <2>2, ClientFacts DEF WayInv, Kept
  <2>6. snd' = "answer" =>
            /\ sndKey.mGT <= keyFile.mGT
            /\ Below(inbox'["proxy"], sndKey.mGT)
            /\ \A r \in Receivers : /\ Below(inbox'[r], sndKey.mGT)
                                    /\ held[r] <= sndKey.mGT
    BY <1>2, <2>1, ClientFacts DEF WayInv, Kept
  <2> QED BY <2>3, <2>4, <2>5, <2>6 DEF WayInv
<1> QED BY <1>1, <1>2 DEF WayInv

LEMMA TailPlain ==
    ASSUME NEW s \in Seq(Messages), s # <<>>, Plain(s) PROVE Plain(Tail(s))
<1>1. \A i \in 1 .. Len(Tail(s)) : i + 1 \in 1 .. Len(s) /\ Tail(s)[i] = s[i + 1]
  OBVIOUS
<1> QED BY <1>1 DEF Plain

LEMMA AppendPlain ==
    ASSUME NEW s \in Seq(Messages), NEW msg \in Messages, Plain(s),
           Carries(msg) \/ msg.key = 0
    PROVE  Plain(Append(s, msg))
<1>1. \A i \in 1 .. Len(Append(s, msg)) :
         \/ i \in 1 .. Len(s) /\ Append(s, msg)[i] = s[i]
         \/ Append(s, msg)[i] = msg
  OBVIOUS
<1> QED BY <1>1 DEF Plain

\* Messages that are handled, lost, or gone with a process keep every order.
LEMMA ShorterKept ==
    ASSUME TypeOK,
           \A c \in Clients : \/ inbox'[c] = inbox[c]
                              \/ inbox[c] # <<>> /\ inbox'[c] = Tail(inbox[c])
                              \/ inbox'[c] = <<>>
    PROVE  Kept
<1>1. \A c \in Clients : inbox[c] \in Seq(Messages)
  BY DEF TypeOK
<1>2. Keyed(<<>>) = {} /\ Plain(<<>>)
  BY DEF Keyed, Plain
<1>3. ASSUME NEW c \in Clients
      PROVE  /\ Sorted(inbox[c]) => Sorted(inbox'[c])
             /\ \A n \in Nat : Below(inbox[c], n) => Below(inbox'[c], n)
             /\ \A n \in Nat : Above(inbox[c], n) => Above(inbox'[c], n)
             /\ Plain(inbox[c]) => Plain(inbox'[c])
             /\ \A t : Between(inbox[c], t) => Between(inbox'[c], t)
             /\ \A t : Between(t, inbox[c]) => Between(t, inbox'[c])
  <2>1. CASE inbox'[c] = inbox[c]
    BY <2>1
  <2>2. CASE inbox[c] # <<>> /\ inbox'[c] = Tail(inbox[c])
    BY <1>1, <2>2, TailOrder, TailPlain
  <2>3. CASE inbox'[c] = <<>>
    BY <1>2, <2>3 DEF Sorted, Below, Above, Between
  <2> QED BY <2>1, <2>2, <2>3
<1> QED BY <1>3, ClientFacts DEF Kept

\* So does a request, forwarded or new.
LEMMA RequestKept ==
    ASSUME TypeOK, NEW msg \in Messages, ~Carries(msg), msg.key = 0,
           NEW taken \in Clients \cup {"none"},
           taken \in Clients => inbox[taken] # <<>>,
           inbox' = Deliver(msg, taken)
    PROVE  Kept
<1>0. inbox \in [Clients -> Seq(Messages)]
  BY DEF TypeOK
<1>1. \A c \in Clients : inbox[c] \in Seq(Messages)
  BY <1>0
<1>2. ASSUME NEW c \in Clients
      PROVE  /\ Sorted(inbox[c]) => Sorted(inbox'[c])
             /\ \A n \in Nat : Below(inbox[c], n) => Below(inbox'[c], n)
             /\ \A n \in Nat : Above(inbox[c], n) => Above(inbox'[c], n)
             /\ Plain(inbox[c]) => Plain(inbox'[c])
             /\ \A t : Between(inbox[c], t) => Between(inbox'[c], t)
             /\ \A t : Between(t, inbox[c]) => Between(t, inbox'[c])
  <2> DEFINE rest == IF c = taken THEN Tail(inbox[c]) ELSE inbox[c]
  <2>1. /\ rest \in Seq(Messages)
        /\ rest = IF c = taken THEN Tail(inbox[c]) ELSE inbox[c]
        /\ inbox'[c] = IF c \in Subscribers(msg.topic) THEN Append(rest, msg)
                                                       ELSE rest
    BY <1>1, TailFacts DEF Deliver
  <2> HIDE DEF rest
  <2>2. /\ Sorted(inbox[c]) => Sorted(rest)
        /\ \A n \in Nat : Below(inbox[c], n) => Below(rest, n)
        /\ \A n \in Nat : Above(inbox[c], n) => Above(rest, n)
        /\ Plain(inbox[c]) => Plain(rest)
        /\ \A t : Between(inbox[c], t) => Between(rest, t)
        /\ \A t : Between(t, inbox[c]) => Between(t, rest)
    <3>1. CASE c = taken
      BY <1>1, <2>1, <3>1, TailOrder, TailPlain
    <3>2. CASE c # taken
      BY <2>1, <3>2
    <3> QED BY <3>1, <3>2
  <2>3. CASE c \in Subscribers(msg.topic)
    <3>1. inbox'[c] = Append(rest, msg) /\ rest \in Seq(Messages)
      BY <2>1, <2>3
    <3> QED BY <2>2, <3>1, AppendOrder, AppendPlain
  <2>4. CASE c \notin Subscribers(msg.topic)
    BY <2>1, <2>2, <2>4
  <2> QED BY <2>3, <2>4
<1> QED BY <1>2, ClientFacts DEF Kept
\* The handler's answer: its key is the newest on the way.
LEMMA AnswerStep == IInv /\ SndAnswer => WayInv' /\ PlainInv'
<1> SUFFICES ASSUME IInv, SndAnswer PROVE WayInv' /\ PlainInv'
  OBVIOUS
<1> DEFINE msg == Message("response", "sender", sndTo, sndKey.mGT)
           k == sndKey.mGT
<1>1. /\ inbox \in [Clients -> Seq(Messages)] /\ k \in Keys /\ sndTo \in Receivers
      /\ keyFile.mGT \in Nat /\ held \in [Receivers -> Nat]
  BY KeyFacts DEF IInv, TypeOK, SymmetricKeys
<1>2. msg \in Messages /\ Carries(msg) /\ msg.key = k /\ msg.topic = "response"
  BY <1>1, MessageFacts DEF Carries, Roles
<1>3. /\ snd = "answer" /\ snd' = "idle"
      /\ UNCHANGED <<provisioned, keyFile, held>>
      /\ inbox' = Deliver(msg, "none")
  BY DEF SndAnswer, fileVars
<1> HIDE DEF msg
<1>4. /\ inbox'["proxy"] = Append(inbox["proxy"], msg)
      /\ \A c \in Clients : c # "proxy" => inbox'[c] = inbox[c]
  BY <1>2, <1>3, ClientFacts DEF Deliver, Subscribers
<1>5. PlainInv'
  <2>1. \A c \in Clients : Plain(inbox[c])
    BY DEF IInv, PlainInv
  <2>2. Plain(inbox'["proxy"])
    BY <1>1, <1>2, <1>4, <2>1, ClientFacts, AppendPlain
  <2> QED BY <1>4, <2>1, <2>2 DEF PlainInv
<1>6. ASSUME provisioned PROVE WayInv'
  <2>1. /\ k <= keyFile.mGT /\ Below(inbox["proxy"], k)
        /\ \A r \in Receivers : /\ Below(inbox[r], k)
                                /\ held[r] <= k
    BY <1>3, <1>6 DEF IInv, WayInv
  <2>2. inbox["proxy"] \in Seq(Messages)
    BY <1>1, ClientFacts
  <2>3. \A c \in Clients : Sorted(inbox'[c]) /\ Below(inbox'[c], keyFile.mGT)
    <3>1. Sorted(inbox["proxy"]) /\ Below(inbox["proxy"], keyFile.mGT)
      BY <1>6, ClientFacts DEF IInv, WayInv
    <3>2. Sorted(inbox'["proxy"]) /\ Below(inbox'["proxy"], keyFile.mGT)
      BY <1>1, <1>2, <1>4, <2>1, <2>2, <3>1, AppendOrder
    <3> QED BY <1>4, <1>6, <3>2 DEF IInv, WayInv
  <2>4. \A r \in Receivers : Between(inbox'[r], inbox'["proxy"])
    BY <1>2, <1>4, <1>6, <2>1, <2>2, ClientFacts, AppendOrder DEF IInv, WayInv
  <2>5. ASSUME NEW r \in Receivers
        PROVE  /\ Above(inbox'[r], held[r]) /\ Above(inbox'["proxy"], held[r])
               /\ held[r] <= keyFile.mGT
    <3>1. /\ Above(inbox[r], held[r]) /\ Above(inbox["proxy"], held[r])
          /\ held[r] <= keyFile.mGT
      BY <1>6 DEF IInv, WayInv
    <3>2. Above(inbox'["proxy"], held[r])
      BY <1>1, <1>2, <1>4, <2>1, <2>2, <3>1, AppendOrder
    <3> QED BY <1>4, <3>1, <3>2, ClientFacts
  <2> QED BY <1>3, <2>3, <2>4, <2>5 DEF WayInv
<1> QED BY <1>3, <1>5, <1>6 DEF WayInv

\* The proxy hands the oldest waiting key on to all receivers.
LEMMA ReEncryptStep == IInv /\ ProxyReEncrypt => WayInv' /\ PlainInv'
<1> SUFFICES ASSUME IInv, ProxyReEncrypt PROVE WayInv' /\ PlainInv'
  OBVIOUS
<1> DEFINE resp == Head(inbox["proxy"])
           msg == Message("result", "proxy", resp.to, resp.key)
           k == resp.key
<1>1. /\ inbox \in [Clients -> Seq(Messages)] /\ keyFile.mGT \in Nat /\ sndKey.mGT \in Nat
      /\ held \in [Receivers -> Nat]
  BY KeyFacts DEF IInv, TypeOK, SymmetricKeys
<1>2. /\ inbox["proxy"] \in Seq(Messages) /\ inbox["proxy"] # <<>>
      /\ resp.topic = "response"
      /\ UNCHANGED <<provisioned, keyFile, snd, sndKey, held>>
      /\ inbox' = Deliver(msg, "proxy")
  BY <1>1, ClientFacts DEF ProxyReEncrypt, IsNext, fileVars, sndVars
<1>3. resp \in Messages
  BY <1>2
<1>4. resp.to \in Receivers /\ k \in Keys /\ Carries(resp)
  BY <1>2, <1>3 DEF Messages, Carries
<1>5. msg \in Messages /\ Carries(msg) /\ msg.key = k /\ msg.topic = "result"
  BY <1>4, MessageFacts DEF Carries, Roles
<1> HIDE DEF msg, resp
<1>6. /\ inbox'["proxy"] = Tail(inbox["proxy"])
      /\ inbox'["sender"] = inbox["sender"]
      /\ \A r \in Receivers : inbox'[r] = Append(inbox[r], msg)
  BY <1>2, <1>5, ClientFacts DEF Deliver, Subscribers
<1>7. \A c \in Clients : c \in Receivers \/ c = "proxy" \/ c = "sender"
  BY DEF Clients
<1>8. \A r \in Receivers : inbox[r] \in Seq(Messages)
  BY <1>1, ClientFacts
<1>9. PlainInv'
  <2>1. \A c \in Clients : Plain(inbox[c])
    BY DEF IInv, PlainInv
  <2>2. Plain(inbox'["proxy"]) /\ Plain(inbox'["sender"])
    BY <1>2, <1>6, <2>1, ClientFacts, TailPlain
  <2>3. \A r \in Receivers : Plain(inbox'[r])
    BY <1>5, <1>6, <1>8, <2>1, ClientFacts, AppendPlain
  <2> QED BY <1>7, <2>2, <2>3 DEF PlainInv
<1>10. ASSUME provisioned PROVE WayInv'
  <2>1. /\ \A c \in Clients : Sorted(inbox[c]) /\ Below(inbox[c], keyFile.mGT)
        /\ \A r \in Receivers : Between(inbox[r], inbox["proxy"])
        /\ \A r \in Receivers :
              /\ Above(inbox[r], held[r]) /\ Above(inbox["proxy"], held[r])
              /\ held[r] <= keyFile.mGT
        /\ snd = "answer" =>
              /\ sndKey.mGT <= keyFile.mGT
              /\ Below(inbox["proxy"], sndKey.mGT)
              /\ \A r \in Receivers : /\ Below(inbox[r], sndKey.mGT)
                                      /\ held[r] <= sndKey.mGT
    BY <1>10 DEF IInv, WayInv
  <2>2. /\ k \in Nat
        /\ \A n \in Nat : Below(inbox["proxy"], n) => k <= n
        /\ \A n \in Nat : Above(inbox["proxy"], n) => n <= k
        /\ \A t : Between(t, inbox["proxy"]) => Below(t, k)
        /\ Sorted(inbox["proxy"]) => Above(Tail(inbox["proxy"]), k)
    BY <1>2, <1>4, HeadOrder DEF resp
  <2>3. k <= keyFile.mGT /\ Above(inbox'["proxy"], k)
    BY <1>1, <1>6, <2>1, <2>2, ClientFacts
  <2>a. \A r \in Receivers :
            /\ Sorted(inbox[r]) /\ Below(inbox[r], k) => Sorted(inbox'[r])
            /\ \A n \in Nat : Below(inbox[r], n) /\ k <= n => Below(inbox'[r], n)
            /\ \A n \in Nat : Above(inbox[r], n) /\ n <= k => Above(inbox'[r], n)
            /\ \A t : Between(inbox[r], t) /\ Above(t, k) => Between(inbox'[r], t)
    <3> SUFFICES ASSUME NEW r \in Receivers
                 PROVE  /\ Sorted(inbox[r]) /\ Below(inbox[r], k) => Sorted(inbox'[r])
                        /\ \A n \in Nat : Below(inbox[r], n) /\ k <= n => Below(inbox'[r], n)
                        /\ \A n \in Nat : Above(inbox[r], n) /\ n <= k => Above(inbox'[r], n)
                        /\ \A t : Between(inbox[r], t) /\ Above(t, k) => Between(inbox'[r], t)
      OBVIOUS
    <3>1. inbox[r] \in Seq(Messages) /\ inbox'[r] = Append(inbox[r], msg)
      BY <1>6, <1>8
    <3>2. Sorted(inbox[r]) /\ Below(inbox[r], k) => Sorted(inbox'[r])
      BY ONLY <1>5, <3>1, AppendOrder
    <3>3. \A n \in Nat : Below(inbox[r], n) /\ k <= n => Below(inbox'[r], n)
      BY ONLY <1>5, <3>1, AppendOrder
    <3> QED BY <1>5, <3>1, <3>2, <3>3, AppendOrder
  <2>4. \A r \in Receivers : Sorted(inbox'[r]) /\ Below(inbox'[r], keyFile.mGT)
    <3>1. \A r \in Receivers : Below(inbox[r], k)
      BY <2>1, <2>2
    <3> QED BY <1>1, <2>1, <2>2, <2>3, <2>a, <3>1, ClientFacts
  <2>5. Sorted(inbox'["proxy"]) /\ Below(inbox'["proxy"], keyFile.mGT)
    BY <1>1, <1>2, <1>6, <2>1, ClientFacts, TailOrder
  <2>6. \A r \in Receivers : Between(inbox'[r], inbox'["proxy"])
    <3>1. \A r \in Receivers : Between(inbox[r], inbox'["proxy"])
      BY <1>2, <1>6, <2>1, TailOrder
    <3> QED BY <2>3, <2>a, <3>1
  <2>7. ASSUME NEW r \in Receivers
        PROVE  /\ Above(inbox'[r], held[r]) /\ Above(inbox'["proxy"], held[r])
               /\ held[r] <= keyFile.mGT
    <3>1. held[r] \in Nat /\ held[r] <= k
      BY <1>1, <2>1, <2>2
    <3>2. Above(inbox'[r], held[r])
      BY <2>1, <2>a, <3>1
    <3>3. Above(inbox'["proxy"], held[r])
      BY <1>2, <1>6, <2>1, <3>1, TailOrder
    <3> QED BY <2>1, <3>2, <3>3
  <2>8. ASSUME snd = "answer"
        PROVE  /\ sndKey.mGT <= keyFile.mGT
               /\ Below(inbox'["proxy"], sndKey.mGT)
               /\ \A r \in Receivers : /\ Below(inbox'[r], sndKey.mGT)
                                       /\ held[r] <= sndKey.mGT
    <3>0. sndKey.mGT \in Nat /\ Below(inbox["proxy"], sndKey.mGT)
      BY <1>1, <2>1, <2>8
    <3>1. k <= sndKey.mGT
      BY <2>2, <3>0
    <3>2. Below(inbox'["proxy"], sndKey.mGT)
      BY <1>2, <1>6, <3>0, TailOrder
    <3>3. ASSUME NEW r \in Receivers PROVE Below(inbox'[r], sndKey.mGT)
      <4>1. Below(inbox[r], sndKey.mGT)
        BY <2>1, <2>8
      <4> QED BY <2>a, <3>0, <3>1, <4>1
    <3> QED BY <2>1, <2>8, <3>2, <3>3
  <2>9. Sorted(inbox'["sender"]) /\ Below(inbox'["sender"], keyFile.mGT)
    BY <1>6, <2>1, ClientFacts
  <2> QED BY <1>2, <1>7, <2>4, <2>5, <2>6, <2>7, <2>8, <2>9 DEF WayInv
<1> QED BY <1>2, <1>9, <1>10 DEF WayInv
\* A receiver takes the oldest key that waits for it, or what another's result
\* decrypts to.
LEMMA ResultStep ==
    ASSUME IInv, NEW r \in Receivers, RecvResult(r)
    PROVE  WayInv' /\ PlainInv'
<1> DEFINE result == Head(inbox[r])
           k == result.key
<1>1. /\ inbox \in [Clients -> Seq(Messages)] /\ keyFile.mGT \in Nat /\ sndKey.mGT \in Nat
      /\ held \in [Receivers -> Nat]
  BY KeyFacts DEF IInv, TypeOK, SymmetricKeys
<1>2. /\ inbox[r] \in Seq(Messages) /\ inbox[r] # <<>>
      /\ inbox'[r] = Tail(inbox[r])
      /\ \A c \in Clients : c # r => inbox'[c] = inbox[c]
      /\ Carries(result)
      /\ UNCHANGED <<provisioned, keyFile, snd, sndKey>>
  BY <1>1, ClientFacts DEF RecvResult, IsNext, Drop, Carries, fileVars, sndVars
<1>3. /\ held'[r] \in {k, held[r]}
      /\ \A q \in Receivers : q # r => held'[q] = held[q]
  BY DEF RecvResult, IInv, TypeOK
<1> HIDE DEF result
<1>4. Kept
  BY <1>2, ShorterKept DEF IInv
<1>5. PlainInv'
  BY <1>4 DEF IInv, PlainInv, Kept
<1>6. ASSUME provisioned PROVE WayInv'
  <2>1. /\ \A c \in Clients : Sorted(inbox[c]) /\ Below(inbox[c], keyFile.mGT)
        /\ \A q \in Receivers : Between(inbox[q], inbox["proxy"])
        /\ \A q \in Receivers :
              /\ Above(inbox[q], held[q]) /\ Above(inbox["proxy"], held[q])
              /\ held[q] <= keyFile.mGT
        /\ snd = "answer" =>
              /\ sndKey.mGT <= keyFile.mGT
              /\ Below(inbox["proxy"], sndKey.mGT)
              /\ \A q \in Receivers : /\ Below(inbox[q], sndKey.mGT)
                                      /\ held[q] <= sndKey.mGT
    BY <1>6 DEF IInv, WayInv
  <2>2. /\ k \in Nat
        /\ \A n \in Nat : Below(inbox[r], n) => k <= n
        /\ \A t : Between(inbox[r], t) => Above(t, k)
        /\ Sorted(inbox[r]) => Above(Tail(inbox[r]), k)
    BY <1>2, HeadOrder DEF result
  <2>3. \A c \in Clients : Sorted(inbox'[c]) /\ Below(inbox'[c], keyFile.mGT)
    BY <1>1, <1>4, <2>1 DEF Kept
  <2>4. \A q \in Receivers : Between(inbox'[q], inbox'["proxy"])
    BY <1>4, <2>1 DEF Kept
  <2>5. Above(inbox'[r], k) /\ Above(inbox'["proxy"], k) /\ k <= keyFile.mGT
    BY <1>1, <1>2, <2>1, <2>2, ClientFacts
  <2>6. ASSUME NEW q \in Receivers
        PROVE  /\ Above(inbox'[q], held'[q]) /\ Above(inbox'["proxy"], held'[q])
               /\ held'[q] <= keyFile.mGT
    <3>1. CASE q = r /\ held'[q] = k
      BY <2>5, <3>1
    <3>2. CASE held'[q] = held[q]
      <4>1. Above(inbox'[q], held[q]) /\ Above(inbox'["proxy"], held[q])
        BY <1>1, <1>4, <2>1, ClientFacts DEF Kept
      <4> QED BY <2>1, <3>2, <4>1
    <3> QED BY <1>3, <3>1, <3>2
  <2>7. ASSUME snd = "answer"
        PROVE  /\ sndKey.mGT <= keyFile.mGT
               /\ Below(inbox'["proxy"], sndKey.mGT)
               /\ \A q \in Receivers : /\ Below(inbox'[q], sndKey.mGT)
                                       /\ held'[q] <= sndKey.mGT
    <3>1. k <= sndKey.mGT
      BY <1>1, <2>1, <2>2, <2>7
    <3>2. \A c \in Clients : Below(inbox[c], sndKey.mGT) => Below(inbox'[c], sndKey.mGT)
      BY <1>1, <1>4 DEF Kept
    <3>3. ASSUME NEW q \in Receivers PROVE held'[q] <= sndKey.mGT
      <4>1. CASE q = r /\ held'[q] = k
        BY <3>1, <4>1
      <4>2. CASE held'[q] = held[q]
        BY <2>1, <2>7, <4>2
      <4> QED BY <1>3, <4>1, <4>2
    <3> QED BY <2>1, <2>7, <3>2, <3>3, ClientFacts
  <2> QED BY <1>2, <2>3, <2>4, <2>6, <2>7 DEF WayInv
<1> QED BY <1>2, <1>5, <1>6 DEF WayInv

LEMMA StepKeyInv == TypeOK /\ KeyInv /\ [Next]_vars => KeyInv'
<1> SUFFICES ASSUME TypeOK, KeyInv, [Next]_vars, provisioned' PROVE KeyInv'
  BY DEF KeyInv
<1> USE DEF KeyInv
<1>1. keyFile \in SymmetricKeys /\ made \in Nat /\ provisioned
  <2>1. provisioned' = provisioned
    BY DEF Next, Update, UpdMake, UpdPutM, UpdPutGT, UpdPutFails, Sender, SndReceive,
           SndReadM, SndReadGT, SndPutM, SndPutGT, SndPutFails, SndAnswer, Proxy,
           ProxyForward, ProxyReEncrypt, RecvRequest, RecvResult, Lose, Restart,
           vars, fileVars
  <2> QED BY <2>1, KeyFacts DEF TypeOK
<1>2. FileExists
  BY <1>1 DEF FileExists, NoKey
<1>3. CASE Update
  <2>0. keyFile.m \in Nat /\ keyFile.mGT \in Nat
    BY <1>1, KeyFacts DEF SymmetricKeys
  <2>1. CASE UpdMake
    BY <1>1, <2>0, <2>1 DEF UpdMake, sndVars
  <2>2. CASE UpdPutM
    <3>1. keyFile'.m = made /\ keyFile'.mGT = keyFile.mGT
      BY <1>1, <2>2 DEF UpdPutM, SymmetricKeys
    <3> QED BY <1>1, <2>0, <2>2, <3>1 DEF UpdPutM, sndVars
  <2>3. CASE UpdPutGT
    <3>1. keyFile'.m = keyFile.m /\ keyFile'.mGT = made
      BY <1>1, <2>3 DEF UpdPutGT, SymmetricKeys
    <3> QED BY <1>1, <2>0, <2>3, <3>1 DEF UpdPutGT, sndVars
  <2>4. CASE UpdPutFails
    BY <1>1, <2>4 DEF UpdPutFails, fileVars, sndVars
  <2> QED BY <1>3, <2>1, <2>2, <2>3, <2>4 DEF Update
<1>4. CASE Sender
  <2>1. CASE SndReceive
    BY <1>1, <1>2, <2>1 DEF SndReceive, updVars
  <2>2. CASE SndReadM \/ SndReadGT \/ SndAnswer
    BY <1>1, <2>2 DEF SndReadM, SndReadGT, SndAnswer, fileVars, updVars
  <2>3. CASE SndPutM \/ SndPutGT \/ SndPutFails
    BY <1>1, <2>3 DEF SndPutM, SndPutGT, SndPutFails
  <2> QED BY <1>4, <2>1, <2>2, <2>3 DEF Sender
<1>5. CASE Proxy
  BY <1>5 DEF Proxy, ProxyForward, ProxyReEncrypt, fileVars, updVars, sndVars
<1>6. ASSUME NEW r \in Receivers, RecvRequest(r) \/ RecvResult(r) PROVE KeyInv'
  BY <1>6 DEF RecvRequest, RecvResult, fileVars, updVars, sndVars
<1>7. ASSUME NEW c \in Clients, Lose(c) PROVE KeyInv'
  BY <1>7 DEF Lose, fileVars, updVars, sndVars
<1>8. CASE Restart
  BY <1>8 DEF Restart, fileVars
<1>9. CASE UNCHANGED vars
  BY <1>9 DEF vars, fileVars, updVars, sndVars
<1> QED BY <1>3, <1>4, <1>5, <1>6, <1>7, <1>8, <1>9 DEF Next

LEMMA StepWay == IInv /\ [Next]_vars => WayInv' /\ PlainInv'
<1> SUFFICES ASSUME IInv, [Next]_vars PROVE WayInv' /\ PlainInv'
  OBVIOUS
<1>0. TypeOK /\ KeyInv /\ WayInv /\ PlainInv
  BY DEF IInv
<1>i. inbox \in [Clients -> Seq(Messages)]
  BY <1>0 DEF TypeOK
<1>k. /\ keyFile.mGT \in Nat /\ keyFile \in SymmetricKeys /\ sndKey \in SymmetricKeys
      /\ made \in Nat
  BY <1>0, KeyFacts DEF TypeOK, SymmetricKeys
<1>s. inbox' = inbox => Kept
  BY <1>0, ShorterKept
<1>d. \A c \in Clients : inbox[c] # <<>> /\ inbox' = Drop(c) => Kept
  <2> SUFFICES ASSUME NEW c \in Clients, inbox[c] # <<>>, inbox' = Drop(c) PROVE Kept
    OBVIOUS
  <2>1. \A d \in Clients : \/ inbox'[d] = inbox[d]
                           \/ inbox[d] # <<>> /\ inbox'[d] = Tail(inbox[d])
    BY <1>i DEF Drop
  <2> QED BY <1>0, <2>1, ShorterKept
<1>1. CASE UpdMake \/ UpdPutFails
  BY <1>0, <1>1, <1>s, KeptWay DEF UpdMake, UpdPutFails, fileVars, sndVars
<1>2. CASE UpdPutM \/ UpdPutGT
  <2>1. /\ UNCHANGED <<provisioned, inbox, held, snd, sndKey>>
        /\ provisioned => keyFile'.mGT \in Nat /\ keyFile.mGT <= keyFile'.mGT
    BY <1>0, <1>2, <1>k DEF UpdPutM, UpdPutGT, KeyInv, SymmetricKeys, sndVars
  <2>2. PlainInv'
    BY <1>0, <2>1 DEF PlainInv
  <2>3. ASSUME provisioned PROVE WayInv'
    <3>1. \A c \in Clients : Below(inbox[c], keyFile'.mGT)
      BY <1>0, <1>i, <1>k, <2>1, <2>3, BelowMonotone DEF WayInv
    <3>2. \A r \in Receivers : held[r] <= keyFile'.mGT
      BY <1>0, <1>k, <2>1, <2>3, KeyFacts DEF TypeOK, WayInv
    <3>3. snd = "answer" => sndKey.mGT <= keyFile'.mGT
      BY <1>0, <1>k, <2>1, <2>3, KeyFacts DEF WayInv, SymmetricKeys
    <3> QED BY <1>0, <2>1, <2>3, <3>1, <3>2, <3>3 DEF WayInv
  <2> QED BY <2>1, <2>2, <2>3 DEF WayInv
<1>3. CASE SndReceive
  <2>1. Kept
    BY <1>3, <1>d, ClientFacts DEF SndReceive, IsNext
  <2>2. PlainInv'
    BY <1>0, <2>1 DEF Kept, PlainInv
  <2>3. ASSUME provisioned PROVE WayInv'
    <3>1. FileExists
      BY <1>0, <2>3 DEF KeyInv, FileExists, NoKey
    <3>2. snd' # "answer" /\ UNCHANGED <<provisioned, keyFile, held>>
      BY <1>3, <3>1 DEF SndReceive
    <3> QED BY <1>0, <2>1, <3>2, KeptWay
  <2>4. provisioned' = provisioned
    BY <1>3 DEF SndReceive
  <2> QED BY <2>2, <2>3, <2>4 DEF WayInv
<1>4. CASE SndReadM
  <2>1. UNCHANGED <<provisioned, keyFile, held, inbox>>
    BY <1>4 DEF SndReadM, fileVars
  <2>2. PlainInv'
    BY <1>0, <2>1 DEF PlainInv
  <2>3. ASSUME provisioned PROVE WayInv'
    <3>1. snd' # "answer"
      BY <1>0, <1>4, <2>3 DEF SndReadM, KeyInv
    <3> QED BY <1>0, <1>s, <2>1, <3>1, KeptWay
  <2> QED BY <2>1, <2>2, <2>3 DEF WayInv
<1>5. CASE SndReadGT
  <2>1. /\ UNCHANGED <<provisioned, keyFile, held, inbox>>
        /\ sndKey'.mGT = keyFile.mGT
    BY <1>5, <1>k DEF SndReadGT, fileVars, SymmetricKeys
  <2>2. PlainInv'
    BY <1>0, <2>1 DEF PlainInv
  <2>3. ASSUME provisioned PROVE WayInv'
    BY <1>0, <1>k, <2>1, <2>3, ClientFacts DEF WayInv
  <2> QED BY <2>1, <2>2, <2>3 DEF WayInv
<1>6. CASE SndPutM \/ SndPutGT \/ SndPutFails
  <2>1. snd \in {"putM", "putGT"} /\ UNCHANGED <<provisioned, inbox>>
    BY <1>6 DEF SndPutM, SndPutGT, SndPutFails, fileVars
  <2>2. ~provisioned
    BY <1>0, <2>1 DEF KeyInv
  <2> QED BY <1>0, <2>1, <2>2 DEF WayInv, PlainInv
<1>7. CASE SndAnswer
  BY <1>7, AnswerStep
<1>8. CASE ProxyForward
  <2> DEFINE msg == Message("forward", "proxy", Head(inbox["proxy"]).to, 0)
  <2>1. inbox["proxy"] # <<>> /\ inbox' = Deliver(msg, "proxy")
        /\ UNCHANGED <<provisioned, keyFile, held, snd, sndKey>>
    BY <1>8 DEF ProxyForward, IsNext, fileVars, sndVars
  <2>2. Head(inbox["proxy"]) \in Messages
    BY <1>i, <2>1, ClientFacts
  <2>3. Head(inbox["proxy"]).to \in Receivers
    BY <2>2 DEF Messages
  <2>4. msg \in Messages /\ ~Carries(msg) /\ msg.key = 0
    BY <2>3, MessageFacts, KeyFacts DEF Carries, Roles
  <2> HIDE DEF msg
  <2>5. Kept
    BY <1>0, <2>1, <2>4, ClientFacts, RequestKept
  <2> QED BY <1>0, <2>1, <2>5, KeptWay
<1>9. CASE ProxyReEncrypt
  BY <1>9, ReEncryptStep
<1>10. ASSUME NEW r \in Receivers, RecvRequest(r) PROVE WayInv' /\ PlainInv'
  <2> DEFINE msg == Message("request", "receiver", r, 0)
  <2>1. inbox' = Deliver(msg, "none")
        /\ UNCHANGED <<provisioned, keyFile, held, snd, sndKey>>
    BY <1>10 DEF RecvRequest, fileVars, sndVars
  <2>2. msg \in Messages /\ ~Carries(msg) /\ msg.key = 0
    BY MessageFacts, KeyFacts DEF Carries, Roles
  <2> HIDE DEF msg
  <2>3. Kept
    BY <1>0, <2>1, <2>2, ClientFacts, RequestKept
  <2> QED BY <1>0, <2>1, <2>3, KeptWay
<1>11. ASSUME NEW r \in Receivers, RecvResult(r) PROVE WayInv' /\ PlainInv'
  BY <1>11, ResultStep
<1>12. ASSUME NEW c \in Clients, Lose(c) PROVE WayInv' /\ PlainInv'
  <2>1. Kept /\ UNCHANGED <<provisioned, keyFile, held, snd, sndKey>>
    BY <1>12, <1>d DEF Lose, fileVars, sndVars
  <2> QED BY <1>0, <2>1, KeptWay
<1>13. CASE Restart
  <2>1. \A c \in Clients : inbox'[c] = inbox[c] \/ inbox'[c] = <<>>
    BY <1>13, <1>i DEF Restart
  <2>2. Kept
    BY <1>0, <2>1, ShorterKept
  <2>3. UNCHANGED <<provisioned, keyFile, held>> /\ snd' # "answer"
    BY <1>13 DEF Restart, fileVars
  <2> QED BY <1>0, <2>2, <2>3, KeptWay
<1>14. CASE UNCHANGED vars
  BY <1>0, <1>14, <1>s, KeptWay DEF vars, fileVars, sndVars
<1> QED
  BY <1>1, <1>2, <1>3, <1>4, <1>5, <1>6, <1>7, <1>8, <1>9, <1>10, <1>11, <1>12,
     <1>13, <1>14 DEF Next, Update, Sender, Proxy

LEMMA IInvHolds == Spec => []IInv
<1>1. IInv /\ [Next]_vars => IInv'
  BY StepTypeOK, StepKeyInv, StepWay DEF IInv
<1> QED BY <1>1, InitIInv, PTL DEF Spec

-----------------------------------------------------------------------------
\* A key on its way to a receiver, or with one, is in the sender's file: no
\* restart of the sender loses a key that somebody holds.
THEOREM Saved == Spec => []GivenIsSaved
<1>1. IInv => GivenIsSaved
  <2> SUFFICES ASSUME IInv, provisioned
               PROVE  /\ \A c \in Clients : \A i \in DOMAIN inbox[c] :
                            inbox[c][i].key <= keyFile.mGT
                      /\ \A r \in Receivers : held[r] <= keyFile.mGT
    BY DEF GivenIsSaved
  <2>1. keyFile.mGT \in Nat /\ inbox \in [Clients -> Seq(Messages)]
    BY KeyFacts DEF IInv, TypeOK, SymmetricKeys
  <2>2. ASSUME NEW c \in Clients, NEW i \in DOMAIN inbox[c]
        PROVE  inbox[c][i].key <= keyFile.mGT
    <3>1. i \in 1 .. Len(inbox[c])
      BY <2>1
    <3>2. CASE Carries(inbox[c][i])
      BY <3>1, <3>2 DEF IInv, WayInv, Below, Keyed
    <3>3. CASE inbox[c][i].key = 0
      BY <2>1, <3>3
    <3> QED BY <3>1, <3>2, <3>3 DEF IInv, PlainInv, Plain
  <2> QED BY <2>2 DEF IInv, WayInv
<1> QED BY <1>1, IInvHolds, PTL

\* No receiver ever goes back to an older key.
THEOREM NeverOlder == Spec => KeysAdvance
<1>1. IInv /\ [Next]_vars => [provisioned => \A r \in Receivers : held'[r] >= held[r]]_vars
  <2> SUFFICES ASSUME IInv, [Next]_vars, NEW r \in Receivers, provisioned
               PROVE  held'[r] >= held[r]
    OBVIOUS
  <2>1. held[r] \in Nat
    BY KeyFacts DEF IInv, TypeOK
  <2>2. CASE RecvResult(r) /\ held'[r] # held[r]
    <3>1. /\ inbox[r] \in Seq(Messages) /\ inbox[r] # <<>> /\ Carries(Head(inbox[r]))
          /\ held'[r] = Head(inbox[r]).key
      BY <2>2, ClientFacts DEF IInv, TypeOK, RecvResult, IsNext, Carries
    <3>2. Above(inbox[r], held[r])
      BY DEF IInv, WayInv
    <3>3. held[r] <= Head(inbox[r]).key /\ Head(inbox[r]).key \in Nat
      BY <2>1, <3>1, <3>2, HeadOrder
    <3> QED BY <2>1, <3>1, <3>3
  <2>3. CASE held'[r] = held[r]
    BY <2>1, <2>3
  <2>4. RecvResult(r) \/ held'[r] = held[r]
    BY DEF IInv, TypeOK, Next, Update, UpdMake, UpdPutM, UpdPutGT, UpdPutFails, Sender,
           SndReceive, SndReadM, SndReadGT, SndPutM, SndPutGT, SndPutFails, SndAnswer,
           Proxy, ProxyForward, ProxyReEncrypt, RecvRequest, RecvResult, Lose, Restart,
           vars
  <2> QED BY <2>2, <2>3, <2>4
<1> QED BY <1>1, IInvHolds, PTL DEF Spec, KeysAdvance
=============================================================================
