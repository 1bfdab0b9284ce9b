----------------------------- MODULE SensorRule -----------------------------
(***************************************************************************)
(* The rule of a temperature or humidity sensor: a push replaces it, a     *)
(* timer runs it, the configuration file is meant to keep it               *)
(* (tempsensor.c, dev_rule.c, dev_cfg.c).                                  *)
(*                                                                         *)
(* Two threads share dev->rule_cfg without a lock: the MQTT thread, in     *)
(* CfgRecvCb, stops the timer, frees the algorithm structs and installs    *)
(* the new list; the timer thread, in dev_rul_exec, picks up a pointer to  *)
(* an algorithm struct and works with it over two HTTP requests.  Whether  *)
(* TimerDelete waits for a running callback is decided in a library the    *)
(* repository does not hold: TimerDeleteWaits.                             *)
(***************************************************************************)
EXTENDS Naturals, FiniteSets

CONSTANTS
    Ids,              \* configuration ids (ResqId) of pushes
    NoId,             \* cfg_id of a sensor that never had a push
    NoRule,           \* no CfgRule key
    Content,          \* Content[k]: [rule, other] of the push with id k
    InitRule,         \* CfgRule of the provisioned configuration file
    TimerDeleteWaits  \* TimerDelete returns only when no callback is running

\* The algorithms a rule may list, set by ALG_TYPE_INT.
Algs == {"average", "proof"}

\* rule: the AlgList of the push, {} when CfgRule comes without AlgList.
\* other: whether its chain or BP section differs from the running one.
ASSUME ConstantsAssumption ==
    /\ NoId \notin Ids
    /\ NoRule \notin Algs
    /\ Content \in [Ids -> [rule : (SUBSET Algs) \union {{NoRule}},
                            other : BOOLEAN]]
    /\ InitRule \in SUBSET Algs
    /\ TimerDeleteWaits \in BOOLEAN

VARIABLES
    cfgId,   \* dev->cfg_id
    algs,    \* the types in dev->rule_cfg.alg_list
    timer,   \* dev->rule_cfg.timer > 0
    armed,   \* timers in the timer library that call dev_rul_exec
    pc,      \* what the MQTT thread does next
    req,     \* the push it handles
    exec,    \* what the timer thread does next
    ave,     \* the ALG_AVE exec points to: "none", "live" or "freed"
    proof,   \* the ALG_PROOF exec points to
    file,    \* id and rule (RuleName and AlgList, top level) in cfg_file
    acked,   \* pushes answered with STATUS_SUCCESS
    restarted \* whether the process has been started again

vars == <<cfgId, algs, timer, armed, pc, req, exec, ave, proof, file, acked,
          restarted>>
execVars == <<exec, ave, proof>>

HasRule(k) == Content[k].rule # {NoRule}

Init ==
    /\ cfgId = NoId
    /\ algs = {}
    /\ timer = FALSE
    /\ armed = 0
    /\ pc = "off"
    /\ req = NoId
    /\ exec = "idle" /\ ave = "none" /\ proof = "none"
    /\ file = [id |-> NoId, named |-> FALSE, algs |-> {}]
    /\ acked = {} /\ restarted = FALSE

-----------------------------------------------------------------------------
(* Start and stop of the process.                                           *)

\* TempsensorCfgInit takes the rule from the CfgRule section, which only the
\* provisioned file has.
CfgInit ==
    /\ pc = "off"
    /\ cfgId' = file.id
    /\ algs' = InitRule
    /\ pc' = "online"
    /\ UNCHANGED <<timer, armed, req, execVars, file, acked, restarted>>

\* DevRuleStart.
StartRule ==
    IF algs = {} THEN UNCHANGED <<timer, armed>>
    ELSE /\ armed' = IF timer THEN armed ELSE armed + 1
         /\ timer' = TRUE

\* TempsensorOnline.
Online ==
    /\ pc = "online"
    /\ StartRule
    /\ pc' = "idle"
    /\ UNCHANGED <<cfgId, algs, req, execVars, file, acked, restarted>>

\* The process ends, at any moment, and is started again.
Restart ==
    /\ pc # "off"
    /\ cfgId' = NoId
    /\ algs' = {}
    /\ timer' = FALSE
    /\ armed' = 0
    /\ pc' = "off"
    /\ req' = NoId
    /\ exec' = "idle" /\ ave' = "none" /\ proof' = "none"
    /\ restarted' = TRUE
    /\ UNCHANGED <<file, acked>>

-----------------------------------------------------------------------------
(* TempsensorCfgRecvCb, on the MQTT thread.                                 *)

RecvSame(k) ==
    /\ pc = "idle"
    /\ k = cfgId
    /\ acked' = acked \union {k}
    /\ UNCHANGED <<cfgId, algs, timer, armed, pc, req, execVars, file, restarted>>

\* No section differs: answered, but the id is not taken over.
RecvUnchanged(k) ==
    /\ pc = "idle"
    /\ k # cfgId
    /\ ~HasRule(k) /\ ~Content[k].other
    /\ acked' = acked \union {k}
    /\ UNCHANGED <<cfgId, algs, timer, armed, pc, req, execVars, file, restarted>>

\* device_rule_compare says of any rule that it differs.
RecvChanged(k) ==
    /\ pc = "idle"
    /\ k # cfgId
    /\ HasRule(k) \/ Content[k].other
    /\ req' = k
    /\ pc' = IF HasRule(k) THEN "stop" ELSE "saveId"
    /\ UNCHANGED <<cfgId, algs, timer, armed, execVars, file, acked, restarted>>

\* Mutants: the timer handle is cleared and the timer left running; the timer
\* is not stopped at all.
RuleStopKeepsTimer ==
    /\ pc = "stop"
    /\ timer' = FALSE
    /\ pc' = "delete"
    /\ UNCHANGED <<cfgId, algs, armed, req, execVars, file, acked, restarted>>

RuleStopSkipped ==
    /\ pc = "stop"
    /\ pc' = "delete"
    /\ UNCHANGED <<cfgId, algs, timer, armed, req, execVars, file, acked, restarted>>

\* Mutant: a timer is deleted whether or not there is one.
RuleStopUnguarded ==
    /\ pc = "stop"
    /\ timer' = FALSE
    /\ armed' = armed - 1
    /\ pc' = "delete"
    /\ UNCHANGED <<cfgId, algs, req, execVars, file, acked, restarted>>

\* DevRuleStop.
RuleStop ==
    /\ pc = "stop"
    /\ IF algs = {} \/ ~timer
       THEN /\ UNCHANGED <<timer, armed>>
            /\ pc' = "delete"
       ELSE /\ timer' = FALSE
            /\ armed' = armed - 1
            /\ pc' = IF TimerDeleteWaits THEN "wait" ELSE "delete"
    /\ UNCHANGED <<cfgId, algs, req, execVars, file, acked, restarted>>

\* TimerDelete returns.
RuleStopped ==
    /\ pc = "wait"
    /\ exec = "idle"
    /\ pc' = "delete"
    /\ UNCHANGED <<cfgId, algs, timer, armed, req, execVars, file, acked, restarted>>

Freed(pointer) == IF pointer = "live" THEN "freed" ELSE pointer

\* Mutant: the algorithms of the old rule stay in the file.
RuleDeleteKeepsFile ==
    /\ pc = "delete"
    /\ algs' = {}
    /\ ave' = Freed(ave) /\ proof' = Freed(proof)
    /\ pc' = "install"
    /\ UNCHANGED <<cfgId, timer, armed, req, exec, file, acked, restarted>>

\* DeviceCfgRuleDelete: without a list nothing is done; when RuleName is not in
\* the file, PackageJsonDataDel (external) may report an error, and then the
\* list is neither freed nor its algorithms removed from the file.
RuleDelete ==
    /\ pc = "delete"
    /\ \/ /\ algs # {}
          /\ file' = [file EXCEPT !.named = FALSE, !.algs = @ \ algs]
          /\ algs' = {}
          /\ ave' = Freed(ave) /\ proof' = Freed(proof)
       \/ /\ algs = {} \/ ~file.named
          /\ UNCHANGED <<file, algs, ave, proof>>
    /\ pc' = "install"
    /\ UNCHANGED <<cfgId, timer, armed, req, exec, acked, restarted>>

\* memcpy of rule_new, whose timer is 0, over rule_cfg.
RuleInstall ==
    /\ pc = "install"
    /\ algs' = Content[req].rule
    /\ timer' = FALSE
    /\ pc' = "start"
    /\ UNCHANGED <<cfgId, armed, req, execVars, file, acked, restarted>>

RuleStart ==
    /\ pc = "start"
    /\ StartRule
    /\ pc' = "saveId"
    /\ UNCHANGED <<cfgId, algs, req, execVars, file, acked, restarted>>

SaveId ==
    /\ pc = "saveId"
    /\ cfgId' = req
    /\ file' = [file EXCEPT !.id = req]
    /\ pc' = "saveRule"
    /\ UNCHANGED <<algs, timer, armed, req, execVars, acked, restarted>>

\* DeviceCfgRuleSave, and the writes of the chain and BP sections around it:
\* an algorithm replaces one of its own type in the file's AlgList.
SaveRule ==
    /\ pc = "saveRule"
    /\ file' = IF algs = {} THEN file
               ELSE [file EXCEPT !.named = TRUE, !.algs = @ \union algs]
    /\ pc' = "answer"
    /\ UNCHANGED <<cfgId, algs, timer, armed, req, execVars, acked, restarted>>

\* Mutant: the handler returns without an answer.
AnswerForgotten ==
    /\ pc = "answer"
    /\ req' = NoId
    /\ pc' = "idle"
    /\ UNCHANGED <<cfgId, algs, timer, armed, execVars, file, acked, restarted>>

Answer ==
    /\ pc = "answer"
    /\ acked' = acked \union {req}
    /\ req' = NoId
    /\ pc' = "idle"
    /\ UNCHANGED <<cfgId, algs, timer, armed, execVars, file, restarted>>

-----------------------------------------------------------------------------
(* dev_rul_exec and TempSensorRuleExec, on the timer thread.  Each request  *)
(* may fail; the result is reported and the callback returns.               *)

ExecStart ==
    /\ exec = "idle"
    /\ armed > 0
    /\ "average" \in algs
    /\ ave' = "live"
    /\ exec' = "average"
    /\ UNCHANGED <<cfgId, algs, timer, armed, pc, req, proof, file, acked, restarted>>

ExecDone ==
    /\ exec' = "idle"
    /\ ave' = "none"
    /\ proof' = "none"

\* temp_ave_rule_exec writes the average into ALG_AVE.
ExecAverage ==
    /\ exec = "average"
    /\ ExecDone \/ (exec' = "onchain" /\ UNCHANGED <<ave, proof>>)
    /\ UNCHANGED <<cfgId, algs, timer, armed, pc, req, file, acked, restarted>>

\* DevAveOnchain, then the search for the proof algorithm.
ExecOnchain ==
    /\ exec = "onchain"
    /\ \/ ExecDone
       \/ /\ "proof" \in algs
          /\ proof' = "live"
          /\ exec' = "proof"
          /\ ave' = ave
    /\ UNCHANGED <<cfgId, algs, timer, armed, pc, req, file, acked, restarted>>

\* DevBulletProof and BulletProofOnchain, with both structs.
ExecProof ==
    /\ exec = "proof"
    /\ ExecDone
    /\ UNCHANGED <<cfgId, algs, timer, armed, pc, req, file, acked, restarted>>

-----------------------------------------------------------------------------
Handler ==
    \/ CfgInit \/ Online
    \/ RuleStop \/ RuleStopped \/ RuleDelete \/ RuleInstall \/ RuleStart
    \/ SaveId \/ SaveRule \/ Answer

Callback == ExecAverage \/ ExecOnchain \/ ExecProof

Push == \E k \in Ids : RecvSame(k) \/ RecvUnchanged(k) \/ RecvChanged(k)

Next == Handler \/ Callback \/ Push \/ ExecStart \/ Restart

\* The handler is straight-line code, and a callback, whose requests end with an
\* answer or an error, returns.  Nothing is assumed of the platform.
Fairness == WF_vars(Handler) /\ WF_vars(Callback)

Spec == Init /\ [][Next]_vars /\ Fairness

-----------------------------------------------------------------------------
(* Properties                                                              *)

\* Types of the rule in memory, of the file and of the two threads' positions;
\* a timer exists or does not (dev_rule.c keeps one handle).
TypeOK ==
    /\ cfgId \in Ids \union {NoId} /\ req \in Ids \union {NoId}
    /\ algs \in SUBSET Algs
    /\ timer \in BOOLEAN
    /\ armed \in Nat
    /\ pc \in {"off", "online", "idle", "stop", "wait", "delete", "install", "start",
               "saveId", "saveRule", "answer"}
    /\ exec \in {"idle", "average", "onchain", "proof"}
    /\ ave \in {"none", "live", "freed"} /\ proof \in {"none", "live", "freed"}
    /\ file \in [id : Ids \union {NoId}, named : BOOLEAN, algs : SUBSET Algs]
    /\ acked \in SUBSET Ids /\ restarted \in BOOLEAN

\* The timer thread never works with an algorithm struct that the MQTT thread
\* has freed (DevRuleStop before DeviceCfgRuleDelete), if TimerDelete waits.
ExecUsesLiveAlgs == TimerDeleteWaits => ave # "freed" /\ proof # "freed"

\* "One device can run only one rule at present" (dev_rule.c:265): a sensor at
\* rest has one timer running if it has a rule, and none otherwise, whatever
\* came before; at no time has it two.
OneRuleRuns ==
    /\ armed <= 1
    /\ pc = "idle" => armed = (IF algs = {} THEN 0 ELSE 1)

\* A sensor at rest that was not restarted keeps in its file exactly the rule
\* that was pushed last (DeviceCfgRuleDelete before DeviceCfgRuleSave).
FileHoldsRule ==
    ~restarted /\ pc = "idle" /\ (\E k \in acked : HasRule(k)) => file.algs = algs

\* A push that reaches the handler is answered, although the handler waits for
\* the running callback to come to an end, unless the process ends before.
PushIsAnswered ==
    \A k \in Ids : (pc = "stop" /\ req = k) ~> (k \in acked \/ pc = "off")

\* "The running config is same as the received" (tempsensor.c:488): the sensor
\* runs the rule of the configuration whose id it has.
RunningSameAsReceived ==
    pc = "idle" /\ cfgId # NoId /\ HasRule(cfgId) => algs = Content[cfgId].rule
=============================================================================
