-------------------------- MODULE SensorRule_proofs --------------------------
(***************************************************************************)
(* Proofs that a sensor runs one rule at a time and that its timer thread  *)
(* never works with a freed algorithm, for every set of pushes.            *)
(***************************************************************************)
EXTENDS SensorRule, TLAPS

\* The timer library runs the timer whose handle rule_cfg holds, and no other.
TimerInv == armed = IF timer THEN 1 ELSE 0

\* A timer exists exactly for a rule that has algorithms, except from its stop
\* to the start of the new one, and before the sensor is on line.
ScheduleInv ==
    /\ pc \in {"idle", "stop", "saveId", "saveRule", "answer"} => (timer <=> algs # {})
    /\ pc \in {"off", "online", "wait", "delete", "install", "start"} => ~timer

\* From the return of TimerDelete to the next start no callback is running; a
\* callback that is not running points to nothing.
CallbackInv ==
    /\ pc \in {"off", "online"} => exec = "idle"
    /\ TimerDeleteWaits =>
          /\ pc \in {"delete", "install", "start"} => exec = "idle"
          /\ ave # "freed" /\ proof # "freed"
          /\ exec # "idle" => pc \in {"wait"} \/ timer
    /\ exec = "idle" => ave = "none" /\ proof = "none"

\* A push is being handled; it has a rule where one is installed.
ReqInv ==
    /\ pc \in {"stop", "wait", "delete", "install"} => req \in Ids /\ HasRule(req)
    /\ pc \in {"start", "saveId", "saveRule", "answer"} => req \in Ids

IInv == TypeOK /\ TimerInv /\ ScheduleInv /\ CallbackInv /\ ReqInv

LEMMA InitIInv == Init => IInv
<1> SUFFICES ASSUME Init PROVE IInv
  OBVIOUS
<1>1. TypeOK
  BY DEF Init, TypeOK
<1>2. TimerInv /\ ScheduleInv
  BY DEF Init, TimerInv, ScheduleInv
<1>3. CallbackInv /\ ReqInv
  BY DEF Init, CallbackInv, ReqInv
<1> QED BY <1>1, <1>2, <1>3 DEF IInv

LEMMA StepIInv == IInv /\ [Next]_vars => IInv'
<1> SUFFICES ASSUME IInv, [Next]_vars PROVE IInv'
  OBVIOUS
<1> USE DEF IInv
<1>1. CASE CfgInit
  <2> USE <1>1 DEF CfgInit, execVars
  <2>1. TypeOK'
    BY ConstantsAssumption DEF TypeOK
  <2>2. TimerInv' /\ ScheduleInv'
    BY DEF TypeOK, TimerInv, ScheduleInv
  <2>3. CallbackInv'
    BY DEF TypeOK, TimerInv, ScheduleInv, CallbackInv
  <2>4. ReqInv'
    BY DEF ReqInv, HasRule
  <2> QED BY <2>1, <2>2, <2>3, <2>4
<1>2. CASE Online
  <2> USE <1>2 DEF Online, StartRule, execVars
  <2>0a. armed' \in Nat
    BY DEF TypeOK
  <2>0b. timer' \in BOOLEAN
    BY DEF TypeOK
  <2>1. TypeOK'
    BY <2>0a, <2>0b DEF TypeOK
  <2>2. TimerInv' /\ ScheduleInv'
    BY DEF TypeOK, TimerInv, ScheduleInv
  <2>3. CallbackInv'
    BY DEF TypeOK, TimerInv, ScheduleInv, CallbackInv
  <2>4. ReqInv'
    BY DEF ReqInv, HasRule
  <2> QED BY <2>1, <2>2, <2>3, <2>4
<1>3. CASE Restart
  <2> USE <1>3 DEF Restart
  <2>1. TypeOK'
    BY DEF TypeOK
  <2>2. TimerInv' /\ ScheduleInv'
    BY DEF TypeOK, TimerInv, ScheduleInv
  <2>3. CallbackInv'
    BY DEF TypeOK, TimerInv, ScheduleInv, CallbackInv
  <2>4. ReqInv'
    BY DEF ReqInv, HasRule
  <2> QED BY <2>1, <2>2, <2>3, <2>4
<1>4. ASSUME NEW k \in Ids, RecvSame(k) PROVE IInv'
  <2> USE <1>4 DEF RecvSame, execVars
  <2>1. TypeOK'
    BY DEF TypeOK
  <2>2. TimerInv' /\ ScheduleInv'
    BY DEF TypeOK, TimerInv, ScheduleInv
  <2>3. CallbackInv'
    BY DEF TypeOK, TimerInv, ScheduleInv, CallbackInv
  <2>4. ReqInv'
    BY DEF ReqInv, HasRule
  <2> QED BY <2>1, <2>2, <2>3, <2>4
<1>5. ASSUME NEW k \in Ids, RecvUnchanged(k) PROVE IInv'
  <2> USE <1>5 DEF RecvUnchanged, execVars
  <2>1. TypeOK'
    BY DEF TypeOK
  <2>2. TimerInv' /\ ScheduleInv'
    BY DEF TypeOK, TimerInv, ScheduleInv
  <2>3. CallbackInv'
    BY DEF TypeOK, TimerInv, ScheduleInv, CallbackInv
  <2>4. ReqInv'
    BY DEF ReqInv, HasRule
  <2> QED BY <2>1, <2>2, <2>3, <2>4
<1>6. ASSUME NEW k \in Ids, RecvChanged(k) PROVE IInv'
  <2> USE <1>6 DEF RecvChanged, execVars
  <2>1. TypeOK'
    BY DEF TypeOK
  <2>2. TimerInv' /\ ScheduleInv'
    BY DEF TypeOK, TimerInv, ScheduleInv
  <2>3. CallbackInv'
    BY DEF TypeOK, TimerInv, ScheduleInv, CallbackInv
  <2>4. ReqInv'
    BY DEF ReqInv, HasRule
  <2> QED BY <2>1, <2>2, <2>3, <2>4
<1>7. CASE RuleStop
  <2> USE <1>7 DEF RuleStop, execVars
  <2>0a. armed' \in Nat
    BY DEF TypeOK, TimerInv
  <2>0b. timer' \in BOOLEAN
    BY DEF TypeOK
  <2>1. TypeOK'
    BY <2>0a, <2>0b DEF TypeOK
  <2>2. TimerInv' /\ ScheduleInv'
    BY DEF TypeOK, TimerInv, ScheduleInv
  <2>3. CallbackInv'
    BY DEF TypeOK, TimerInv, ScheduleInv, CallbackInv
  <2>4. ReqInv'
    BY DEF ReqInv, HasRule
  <2> QED BY <2>1, <2>2, <2>3, <2>4
<1>8. CASE RuleStopped
  <2> USE <1>8 DEF RuleStopped, execVars
  <2>1. TypeOK'
    BY DEF TypeOK
  <2>2. TimerInv' /\ ScheduleInv'
    BY DEF TypeOK, TimerInv, ScheduleInv
  <2>3. CallbackInv'
    BY DEF TypeOK, TimerInv, ScheduleInv, CallbackInv
  <2>4. ReqInv'
    BY DEF ReqInv, HasRule
  <2> QED BY <2>1, <2>2, <2>3, <2>4
<1>9. CASE RuleDelete
  <2> USE <1>9 DEF RuleDelete, Freed
  <2>1. TypeOK'
    BY ZenonT(30) DEF TypeOK
  <2>2. TimerInv' /\ ScheduleInv'
    BY DEF TypeOK, TimerInv, ScheduleInv
  <2>3. CallbackInv'
    BY DEF TypeOK, TimerInv, ScheduleInv, CallbackInv
  <2>4. ReqInv'
    BY DEF ReqInv, HasRule
  <2> QED BY <2>1, <2>2, <2>3, <2>4
<1>10. CASE RuleInstall
  <2> USE <1>10 DEF RuleInstall, execVars
  <2>1. TypeOK'
    BY ConstantsAssumption DEF TypeOK, ReqInv, HasRule
  <2>2. TimerInv' /\ ScheduleInv'
    BY DEF TypeOK, TimerInv, ScheduleInv
  <2>3. CallbackInv'
    BY DEF TypeOK, TimerInv, ScheduleInv, CallbackInv
  <2>4. ReqInv'
    BY DEF ReqInv, HasRule
  <2> QED BY <2>1, <2>2, <2>3, <2>4
<1>11. CASE RuleStart
  <2> USE <1>11 DEF RuleStart, StartRule, execVars
  <2>0a. armed' \in Nat
    BY DEF TypeOK
  <2>0b. timer' \in BOOLEAN
    BY DEF TypeOK
  <2>1. TypeOK'
    BY <2>0a, <2>0b DEF TypeOK
  <2>2. TimerInv' /\ ScheduleInv'
    BY DEF TypeOK, TimerInv, ScheduleInv
  <2>3. CallbackInv'
    BY DEF TypeOK, TimerInv, ScheduleInv, CallbackInv
  <2>4. ReqInv'
    BY DEF ReqInv, HasRule
  <2> QED BY <2>1, <2>2, <2>3, <2>4
<1>12. CASE SaveId
  <2> USE <1>12 DEF SaveId, execVars
  <2>1. TypeOK'
    BY DEF TypeOK, ReqInv
  <2>2. TimerInv' /\ ScheduleInv'
    BY DEF TypeOK, TimerInv, ScheduleInv
  <2>3. CallbackInv'
    BY DEF TypeOK, TimerInv, ScheduleInv, CallbackInv
  <2>4. ReqInv'
    BY DEF ReqInv, HasRule
  <2> QED BY <2>1, <2>2, <2>3, <2>4
<1>13. CASE SaveRule
  <2> USE <1>13 DEF SaveRule, execVars
  <2>1. TypeOK'
    BY ZenonT(30) DEF TypeOK, Algs
  <2>2. TimerInv' /\ ScheduleInv'
    BY DEF TypeOK, TimerInv, ScheduleInv
  <2>3. CallbackInv'
    BY DEF TypeOK, TimerInv, ScheduleInv, CallbackInv
  <2>4. ReqInv'
    BY DEF ReqInv, HasRule
  <2> QED BY <2>1, <2>2, <2>3, <2>4
<1>14. CASE Answer
  <2> USE <1>14 DEF Answer, execVars
  <2>1. TypeOK'
    BY DEF TypeOK, ReqInv
  <2>2. TimerInv' /\ ScheduleInv'
    BY DEF TypeOK, TimerInv, ScheduleInv
  <2>3. CallbackInv'
    BY DEF TypeOK, TimerInv, ScheduleInv, CallbackInv
  <2>4. ReqInv'
    BY DEF ReqInv, HasRule
  <2> QED BY <2>1, <2>2, <2>3, <2>4
<1>15. CASE ExecStart
  <2> USE <1>15 DEF ExecStart
  <2>1. TypeOK'
    BY DEF TypeOK, Algs
  <2>2. TimerInv' /\ ScheduleInv'
    BY DEF TypeOK, TimerInv, ScheduleInv
  <2>3. CallbackInv'
    BY DEF TypeOK, TimerInv, ScheduleInv, CallbackInv
  <2>4. ReqInv'
    BY DEF ReqInv, HasRule
  <2> QED BY <2>1, <2>2, <2>3, <2>4
<1>16. CASE ExecAverage
  <2> USE <1>16 DEF ExecAverage, ExecDone
  <2>1. TypeOK'
    BY DEF TypeOK
  <2>2. TimerInv' /\ ScheduleInv'
    BY DEF TypeOK, TimerInv, ScheduleInv
  <2>3. CallbackInv'
    BY DEF TypeOK, TimerInv, ScheduleInv, CallbackInv
  <2>4. ReqInv'
    BY DEF ReqInv, HasRule
  <2> QED BY <2>1, <2>2, <2>3, <2>4
<1>17. CASE ExecOnchain
  <2> USE <1>17 DEF ExecOnchain, ExecDone
  <2>1. TypeOK'
    BY DEF TypeOK
  <2>2. TimerInv' /\ ScheduleInv'
    BY DEF TypeOK, TimerInv, ScheduleInv
  <2>3. CallbackInv'
    BY DEF TypeOK, TimerInv, ScheduleInv, CallbackInv
  <2>4. ReqInv'
    BY DEF ReqInv, HasRule
  <2> QED BY <2>1, <2>2, <2>3, <2>4
<1>18. CASE ExecProof
  <2> USE <1>18 DEF ExecProof, ExecDone
  <2>1. TypeOK'
    BY DEF TypeOK
  <2>2. TimerInv' /\ ScheduleInv'
    BY DEF TypeOK, TimerInv, ScheduleInv
  <2>3. CallbackInv'
    BY DEF TypeOK, TimerInv, ScheduleInv, CallbackInv
  <2>4. ReqInv'
    BY DEF ReqInv, HasRule
  <2> QED BY <2>1, <2>2, <2>3, <2>4
<1>19. CASE UNCHANGED vars
  BY <1>19 DEF vars, TypeOK, TimerInv, ScheduleInv, CallbackInv, ReqInv
<1> QED
    BY <1>1, <1>2, <1>3, <1>4, <1>5, <1>6, <1>7, <1>8, <1>9, <1>10, <1>11,
     <1>12, <1>13, <1>14, <1>15, <1>16, <1>17, <1>18, <1>19
  DEF Next, Handler, Callback, Push

LEMMA IInvHolds == Spec => []IInv
BY InitIInv, StepIInv, PTL DEF Spec

-----------------------------------------------------------------------------
\* The state of both threads keeps its type; no timer is deleted that does not
\* exist.
THEOREM TypeCorrect == Spec => []TypeOK
<1>1. IInv => TypeOK
  BY DEF IInv
<1> QED BY <1>1, IInvHolds, PTL

\* One timer runs for a sensor at rest that has a rule, none for one without,
\* and never two, after any sequence of pushes and restarts.
THEOREM OneRule == Spec => []OneRuleRuns
<1>1. IInv => OneRuleRuns
  BY DEF IInv, TimerInv, ScheduleInv, OneRuleRuns
<1> QED BY <1>1, IInvHolds, PTL

\* The timer thread never holds a pointer into a freed rule if TimerDelete waits
\* for a running callback.
THEOREM NoUseAfterDelete == Spec => []ExecUsesLiveAlgs
<1>1. IInv => ExecUsesLiveAlgs
  BY DEF IInv, CallbackInv, ExecUsesLiveAlgs
<1> QED BY <1>1, IInvHolds, PTL
-----------------------------------------------------------------------------
(* What the file holds, as long as the process was not restarted: nothing   *)
(* without a name; between the deletion of a rule and the save of the next  *)
(* one nothing at all; and after a save exactly what is in memory.          *)

FileInv ==
    ~restarted =>
        /\ ~file.named => file.algs = {}
        /\ pc \in {"off", "online", "install", "start"} => file.algs = {}
        /\ file.algs \subseteq algs
        /\ pc \in {"saveRule", "answer"} => cfgId # NoId
        /\ pc = "answer" => file.algs = algs
        /\ pc \in {"idle", "stop", "wait", "delete"} /\ cfgId # NoId
              => file.algs = algs
        /\ (\E k \in acked : HasRule(k)) => cfgId # NoId
        /\ pc \in {"off", "online"} => cfgId = NoId /\ file.id = NoId

LEMMA InitFileInv == Init => FileInv
BY DEF Init, FileInv

LEMMA StepFileInv == IInv /\ FileInv /\ [Next]_vars => FileInv'
<1> SUFFICES ASSUME IInv, FileInv, [Next]_vars, ~restarted' PROVE FileInv'
  BY DEF FileInv
<1> USE DEF FileInv
<1>0. TypeOK /\ ReqInv /\ NoId \notin Ids
  BY ConstantsAssumption DEF IInv
<1>1. CASE CfgInit
  BY <1>0, <1>1 DEF CfgInit, execVars, HasRule
<1>2. CASE Online
  BY <1>2 DEF Online, execVars, HasRule
<1>3. CASE Restart
  BY <1>3 DEF Restart
<1>4. ASSUME NEW k \in Ids, RecvSame(k) PROVE FileInv'
  BY <1>0, <1>4 DEF RecvSame, execVars, HasRule
<1>5. ASSUME NEW k \in Ids, RecvUnchanged(k) PROVE FileInv'
  BY <1>5 DEF RecvUnchanged, execVars, HasRule
<1>6. ASSUME NEW k \in Ids, RecvChanged(k) PROVE FileInv'
  BY <1>6 DEF RecvChanged, execVars, HasRule
<1>7. CASE RuleStop
  BY <1>7 DEF RuleStop, execVars, HasRule
<1>8. CASE RuleStopped
  BY <1>8 DEF RuleStopped, execVars, HasRule
<1>9. CASE RuleDelete
  <2> USE <1>0, <1>9 DEF RuleDelete
  <2>1. file'.algs = {} /\ file'.id = file.id
    BY DEF TypeOK
  <2> QED BY <2>1 DEF HasRule
<1>10. CASE RuleInstall
  BY <1>10 DEF RuleInstall, execVars, HasRule
<1>11. CASE RuleStart
  BY <1>11 DEF RuleStart, execVars, HasRule
<1>12. CASE SaveId
  <2> USE <1>0, <1>12 DEF SaveId, execVars
  <2>1. file'.algs = file.algs /\ file'.named = file.named
    BY DEF TypeOK
  <2>2. cfgId' # NoId
    BY DEF ReqInv
  <2> QED BY <2>1, <2>2 DEF HasRule
<1>13. CASE SaveRule
  <2> USE <1>0, <1>13 DEF SaveRule, execVars
  <2>1. file'.algs = algs
    BY DEF TypeOK
  <2>2. ~file'.named => file'.algs = {}
    BY DEF TypeOK
  <2> QED BY <2>1, <2>2 DEF HasRule
<1>14. CASE Answer
  BY <1>0, <1>14 DEF Answer, execVars, HasRule
<1>15. CASE ExecStart
  BY <1>15 DEF ExecStart, HasRule
<1>16. CASE Callback
  BY <1>16 DEF Callback, ExecAverage, ExecOnchain, ExecProof, HasRule
<1>17. CASE UNCHANGED vars
  BY <1>17 DEF vars, HasRule
<1> QED
  BY <1>1, <1>2, <1>3, <1>4, <1>5, <1>6, <1>7, <1>8, <1>9, <1>10, <1>11,
     <1>12, <1>13, <1>14, <1>15, <1>16, <1>17
  DEF Next, Handler, Push

\* A sensor at rest that was not restarted has in its file exactly the rule it
\* was pushed last, for any pushes in any order.
THEOREM FileFollows == Spec => []FileHoldsRule
<1>1. FileInv => FileHoldsRule
  BY DEF FileInv, FileHoldsRule
<1>2. Spec => []FileInv
  BY InitFileInv, StepFileInv, IInvHolds, PTL DEF Spec
<1> QED BY <1>1, <1>2, PTL
=============================================================================
