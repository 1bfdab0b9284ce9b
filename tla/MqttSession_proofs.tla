------------------------- MODULE MqttSession_proofs -------------------------
(***************************************************************************)
(* Proofs about MqttSession: what success means, where a freed object can  *)
(* be used, and that a session implements MqttLink.                        *)
(***************************************************************************)
EXTENDS MqttSession, TLAPS

(***************************************************************************)
(* The inductive invariant.  "Early" disconnects are the ones that begin   *)
(* before the session stood; most parts say nothing of what follows them.  *)
(***************************************************************************)

\* Steps of the connect thread that hold the user data, in order.
Allocated == {"create", "start", "connect", "await", "check", "giveup",
              "clear", "drop", "serve", "release"}

\* Steps after which no further attempt is made.
Over == {"serve", "release", "returned", "ended", "cancelled", "dead"}

\* An answer that was recorded sets connect_status or was an acceptance.
AnswerInv ==
    /\ net = "post" \/ csem \/ cpc = "check" => granted \/ refused
    /\ cpc \in {"serve", "release", "returned"} => granted

\* The network thread exists only between its start and its end, by which of
\* the two threads ever.
NetInv ==
    /\ cpc \in {"off", "enter", "create", "start", "clear", "drop", "failed"}
          => net = "off"
    /\ cpc = "dead" => net = "dead" /\ dpc \in {"done", "dead"}
    /\ ~early /\ dpc \in {"destroy", "null", "cancel", "done"} => net \in {"off", "dead"}

\* What the connect thread holds, and the controller has not touched yet.
ConnectInv ==
    /\ cpc \in Allocated => ud = "live"
    /\ cpc \in {"off", "enter", "create", "drop", "failed"} => ~para
    /\ dpc = "idle" =>
          /\ ~dsem /\ ~cancelled
          /\ sub => cpc \notin {"release", "returned", "ended", "cancelled"}
          /\ ~sub => cpc \notin {"serve", "ended", "cancelled"}
          /\ cpc \in {"start", "connect", "await", "check", "giveup", "serve",
                      "release", "returned"} => para /\ client = "live"

\* How far a disconnect that found the session standing has come.
DisconnectInv ==
    dpc # "idle" /\ ~early =>
        /\ sub => cpc \in Over
        /\ ~sub => cpc \in {"failed", "returned", "dead"} /\ dpc # "cancel"
        /\ dpc \in {"post", "disconnect", "stop", "destroy"} => client = "live"
        /\ dpc \in {"post", "disconnect", "stop", "destroy", "null"}
              => cpc \notin {"cancelled", "dead", "failed"} /\ ~cancelled
        /\ dpc \in {"cancel", "done"} => ~para
        /\ dpc = "post" => ~dsem /\ (sub => cpc = "serve")
        /\ dpc \notin {"done", "dead"} => ~cancelled /\ cpc # "dead"
        /\ dpc = "dead" => cpc = "dead" /\ ~para

\* A trial is taken down by the thread that made it.
TrialInv == ~sub => ~early /\ ~cancelled

IInv == TypeOK /\ AnswerInv /\ NetInv /\ ConnectInv /\ DisconnectInv /\ TrialInv

-----------------------------------------------------------------------------
(* The invariant holds initially and is preserved by every step of each     *)
(* thread.                                                                  *)

LEMMA InitIInv == Init => IInv
BY DEF Init, IInv, TypeOK, AnswerInv, NetInv, ConnectInv, DisconnectInv, TrialInv,
       CSteps, DSteps, Links, Allocated, Over

LEMMA StepIInv == IInv /\ [Next]_vars => IInv'
<1> SUFFICES ASSUME IInv, [Next]_vars PROVE IInv'
  OBVIOUS
<1> USE DEF IInv, TypeOK, AnswerInv, NetInv, ConnectInv, DisconnectInv, TrialInv,
            CSteps, DSteps, Links, Allocated, Over, cvars, dvars, nvars
<1>1. CASE CStart
  BY <1>1 DEF CStart
<1>2. CASE CEnter
  <2> USE <1>2 DEF CEnter
  <2>0. csem' \in BOOLEAN /\ dsem' \in BOOLEAN /\ refused' \in BOOLEAN /\ granted' \in BOOLEAN
    BY Zenon
  <2>1. TypeOK'
    BY <2>0
  <2>2. AnswerInv'
    OBVIOUS
  <2>3. NetInv'
    OBVIOUS
  <2>4. ConnectInv'
    OBVIOUS
  <2>5. DisconnectInv' /\ TrialInv'
    OBVIOUS
  <2> QED BY <2>1, <2>2, <2>3, <2>4, <2>5
<1>3. CASE CNoMemory
  BY <1>3 DEF CNoMemory
<1>4. CASE CCreate
  BY <1>4 DEF CCreate
<1>5. CASE CCreateFails
  BY <1>5 DEF CCreateFails
<1>6. CASE CLoopStart
  BY <1>6 DEF CLoopStart, UseClient
<1>7. CASE CLoopStartFails
  BY <1>7 DEF CLoopStartFails, UseClient
<1>8. CASE CConnect
  BY <1>8 DEF CConnect, UseClient
<1>9. CASE CConnectFails
  BY <1>9 DEF CConnectFails, UseClient
<1>10. CASE CAwait
  <2> USE <1>10 DEF CAwait
  <2>0. csem' \in BOOLEAN
    BY Zenon
  <2>1. TypeOK'
    BY <2>0
  <2>2. AnswerInv'
    OBVIOUS
  <2>3. NetInv'
    OBVIOUS
  <2>4. ConnectInv'
    OBVIOUS
  <2>5. DisconnectInv' /\ TrialInv'
    OBVIOUS
  <2> QED BY <2>1, <2>2, <2>3, <2>4, <2>5
<1>11. CASE CCheck
  BY <1>11 DEF CCheck
<1>12. CASE CGiveUp
  BY <1>12 DEF CGiveUp, UseClient, Destroy
<1>13. CASE CClear
  <2> USE <1>13 DEF CClear
  <2>0. para' \in BOOLEAN
    BY Zenon
  <2>1. TypeOK'
    BY <2>0
  <2>2. AnswerInv'
    OBVIOUS
  <2>3. NetInv'
    OBVIOUS
  <2>4. ConnectInv'
    OBVIOUS
  <2>5. DisconnectInv' /\ TrialInv'
    OBVIOUS
  <2> QED BY <2>1, <2>2, <2>3, <2>4, <2>5
<1>14. CASE CDrop
  BY <1>14 DEF CDrop
<1>15. CASE CServe
  <2> USE <1>15 DEF CServe
  <2>0. dsem' \in BOOLEAN
    BY Zenon
  <2>1. TypeOK'
    BY <2>0
  <2>2. AnswerInv'
    OBVIOUS
  <2>3. NetInv'
    OBVIOUS
  <2>4. ConnectInv'
    OBVIOUS
  <2>5. DisconnectInv' /\ TrialInv'
    OBVIOUS
  <2> QED BY <2>1, <2>2, <2>3, <2>4, <2>5
<1>16. CASE CRelease
  BY <1>16 DEF CRelease
<1>17. CASE CRetry
  BY <1>17 DEF CRetry
<1>18. CASE CCancelled
  <2> USE <1>18 DEF CCancelled
  <2>1. TypeOK'
    OBVIOUS
  <2>2. AnswerInv'
    OBVIOUS
  <2>3. NetInv'
    OBVIOUS
  <2>4. ConnectInv'
    OBVIOUS
  <2>5. DisconnectInv' /\ TrialInv'
    OBVIOUS
  <2> QED BY <2>1, <2>2, <2>3, <2>4, <2>5
<1>19. CASE NAccept
  <2> USE <1>19 DEF NAccept, UseUserData, Subscribes
  <2>0. refused' \in BOOLEAN /\ granted' \in BOOLEAN
    BY Zenon
  <2>1. TypeOK'
    BY <2>0
  <2>2. AnswerInv'
    OBVIOUS
  <2>3. NetInv'
    OBVIOUS
  <2>4. ConnectInv'
    OBVIOUS
  <2>5. DisconnectInv' /\ TrialInv'
    OBVIOUS
  <2> QED BY <2>1, <2>2, <2>3, <2>4, <2>5
<1>20. CASE NRefuse
  BY <1>20 DEF NRefuse, UseUserData
<1>21. CASE NPost
  BY <1>21 DEF NPost, UseUserData
<1>22. CASE NMessage
  BY <1>22 DEF NMessage, UseUserData
<1>23. CASE NReturn
  BY <1>23 DEF NReturn
<1>24. CASE NLose
  BY <1>24 DEF NLose
<1>25. CASE NReconnect
  BY <1>25 DEF NReconnect
<1>26. CASE Publish
  BY <1>26 DEF Publish, UseClient
<1>27. CASE DBegin
  BY <1>27 DEF DBegin
<1>28. CASE DPost
  BY <1>28 DEF DPost
<1>29. CASE DDisconnect
  BY <1>29 DEF DDisconnect, UseClient
<1>30. CASE DStop
  BY <1>30 DEF DStop, UseClient
<1>31. CASE DDestroy
  <2> USE <1>31 DEF DDestroy, UseClient, Destroy
  <2>1. TypeOK'
    OBVIOUS
  <2>2. AnswerInv'
    OBVIOUS
  <2>3. NetInv'
    OBVIOUS
  <2>4. ConnectInv'
    OBVIOUS
  <2>5. DisconnectInv' /\ TrialInv'
    OBVIOUS
  <2> QED BY <2>1, <2>2, <2>3, <2>4, <2>5
<1>32. CASE DNull
  <2> USE <1>32 DEF DNull
  <2>0. para' \in BOOLEAN
    BY Zenon
  <2>1. TypeOK'
    BY <2>0
  <2>2. AnswerInv'
    OBVIOUS
  <2>3. NetInv'
    OBVIOUS
  <2>4. ConnectInv'
    OBVIOUS
  <2>5. DisconnectInv' /\ TrialInv'
    OBVIOUS
  <2> QED BY <2>1, <2>2, <2>3, <2>4, <2>5
<1>33. CASE DCancel
  BY <1>33 DEF DCancel
<1>34. CASE Die
  <2> USE <1>34 DEF Die
  <2>0. para' \in BOOLEAN
    BY Zenon
  <2>1. TypeOK'
    BY <2>0
  <2>2. AnswerInv'
    OBVIOUS
  <2>3. NetInv'
    OBVIOUS
  <2>4. ConnectInv'
    OBVIOUS
  <2>5. DisconnectInv' /\ TrialInv'
    OBVIOUS
  <2> QED BY <2>1, <2>2, <2>3, <2>4, <2>5
<1>35. CASE UNCHANGED vars
  BY <1>35 DEF vars
<1> QED
  BY <1>1, <1>2, <1>3, <1>4, <1>5, <1>6, <1>7, <1>8, <1>9, <1>10, <1>11, <1>12, <1>13, <1>14, <1>15, <1>16, <1>17, <1>18,
     <1>19, <1>20, <1>21, <1>22, <1>23, <1>24, <1>25, <1>26, <1>27, <1>28, <1>29, <1>30, <1>31, <1>32, <1>33, <1>34, <1>35
  DEF Next, ConnectThread, NetworkThread, Controller

LEMMA IInvHolds == Spec => []IInv
BY InitIInv, StepIInv, PTL DEF Spec

-----------------------------------------------------------------------------
(* The theorems.                                                            *)

\* MqttServerConnect returns 0 only for an attempt the broker accepted.
THEOREM SuccessGranted == Spec => []SuccessIsGranted
<1>1. IInv => SuccessIsGranted
  BY DEF IInv, AnswerInv, SuccessIsGranted
<1> QED BY <1>1, IInvHolds, PTL

\* The only windows in which a freed client or freed user data can be used.
THEOREM StaleUses == Spec => StaleUseWindows
<1> DEFINE Window(t) ==
      \/ early
      \/ t = "network" /\ (sub => dpc \in {"disconnect", "stop"})
      \/ t = "publish" /\ (cpc = "clear" \/ dpc = "null")
      \/ t = "controller" /\ dpc = "cancel" /\ cpc = "ended"
<1>1. ASSUME IInv, [Next]_vars, NEW t \in stale' \ stale PROVE Window(t)
  <2> USE DEF IInv, TypeOK, AnswerInv, NetInv, ConnectInv, DisconnectInv, TrialInv,
              CSteps, DSteps, Links, Allocated, Over
  <2>1. CASE CLoopStart \/ CLoopStartFails \/ CConnect \/ CConnectFails \/ CGiveUp
    BY <1>1, <2>1 DEF CLoopStart, CLoopStartFails, CConnect, CConnectFails, CGiveUp,
                      UseClient, Destroy
  <2>2. CASE NAccept \/ NRefuse \/ NPost \/ NMessage
    BY <1>1, <2>2 DEF NAccept, NRefuse, NPost, NMessage, UseUserData
  <2>3. CASE Publish
    BY <1>1, <2>3 DEF Publish, UseClient
  <2>4. CASE DDisconnect \/ DStop \/ DDestroy \/ DCancel
    BY <1>1, <2>4 DEF DDisconnect, DStop, DDestroy, DCancel, UseClient, Destroy
  <2>5. CASE \/ CStart \/ CEnter \/ CNoMemory \/ CCreate \/ CCreateFails \/ CAwait
             \/ CCheck \/ CClear \/ CDrop \/ CServe \/ CRelease \/ CRetry \/ CCancelled
             \/ NReturn \/ NLose \/ NReconnect \/ DBegin \/ DPost \/ DNull \/ Die
             \/ UNCHANGED vars
    <3>1. stale' = stale
      BY <2>5 DEF CStart, CEnter, CNoMemory, CCreate, CCreateFails, CAwait, CCheck,
                  CClear, CDrop, CServe, CRelease, CRetry, CCancelled, NReturn, NLose,
                  NReconnect, DBegin, DPost, DNull, Die, vars
    <3> QED BY <1>1, <3>1
  <2> QED
    BY <1>1, <2>1, <2>2, <2>3, <2>4, <2>5
    DEF Next, ConnectThread, NetworkThread, Controller
<1>2. IInv /\ [Next]_vars => [\A t \in stale' \ stale : Window(t)]_vars
  BY <1>1
<1> QED BY <1>2, IInvHolds, PTL DEF Spec, StaleUseWindows

\* A session implements MqttLink: one message at a time, only while subscribed,
\* and none after a disconnect that found the session standing.
THEOREM LinkImplemented == Spec => LinkPromise
<1> DEFINE Phase == IF dpc = "done" /\ ~early THEN "over"
                    ELSE IF link = "subscribed" THEN "open" ELSE "closed"
           Handling == (net = "handle")
<1>1. Init => Link!Init
  BY DEF Init, Link!Init
<1>2. ASSUME IInv, [Next]_vars PROVE [Link!Next]_<<Phase, Handling>>
  <2> USE DEF IInv, TypeOK, NetInv, DisconnectInv, TrialInv, CSteps, DSteps, Links, Over,
              Link!Next, Link!Open, Link!Lose, Link!Take, Link!Return, Link!Abort,
              Link!TakeDown, cvars, dvars, nvars
  <2>1. CASE CStart \/ CEnter \/ CNoMemory \/ CCreateFails \/ CAwait \/ CCheck
             \/ CClear \/ CDrop \/ CServe \/ CRelease \/ CRetry \/ Publish \/ DPost
    BY <2>1 DEF CStart, CEnter, CNoMemory, CCreateFails, CAwait, CCheck, CClear, CDrop,
                CServe, CRelease, CRetry, Publish, DPost
  <2>2. CASE CCreate \/ CLoopStart \/ CLoopStartFails
    BY <1>2, <2>2 DEF CCreate, CLoopStart, CLoopStartFails
  <2>3. CASE CConnect \/ CConnectFails \/ CCancelled
    BY <1>2, <2>3 DEF CConnect, CConnectFails, CCancelled
  <2>4. CASE CGiveUp \/ DDestroy
    BY <1>2, <2>4 DEF CGiveUp, DDestroy, Destroy
  <2>5. CASE NAccept \/ NRefuse \/ NPost
    BY <1>2, <2>5 DEF NAccept, NRefuse, NPost, Subscribes
  <2>6. CASE NMessage \/ NReturn
    BY <1>2, <2>6 DEF NMessage, NReturn
  <2>7. CASE NLose \/ NReconnect \/ DDisconnect
    BY <1>2, <2>7 DEF NLose, NReconnect, DDisconnect
  <2>8. CASE DStop
    BY <1>2, <2>8 DEF DStop
  <2>9. CASE DBegin \/ DNull \/ DCancel
    BY <1>2, <2>9 DEF DBegin, DNull, DCancel, ConnectInv
  <2>10. CASE Die
    BY <1>2, <2>10 DEF Die
  <2>11. CASE UNCHANGED vars
    BY <2>11 DEF vars
  <2> QED
    BY <1>2, <2>1, <2>2, <2>3, <2>4, <2>5, <2>6, <2>7, <2>8, <2>9, <2>10, <2>11
    DEF Next, ConnectThread, NetworkThread, Controller
<1> QED BY <1>1, <1>2, IInvHolds, PTL DEF Spec, LinkPromise, Link!Spec
=============================================================================
