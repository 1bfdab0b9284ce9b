---------------------------- MODULE DeviceReport ----------------------------
(***************************************************************************)
(* What a device sends to the platform and puts on the block chain         *)
(* (dev_pkg.c, blockchain.c, dev_rule.c), and the word all its threads     *)
(* share without a lock: dev->dev_status.  A failed request to the chain   *)
(* sets it, every package that is handed to the MQTT client clears it,     *)
(* and DevicePkgReport sends no data while it is set.                      *)
(*                                                                         *)
(* The threads: an application that reports samples (for the gateway: the  *)
(* thread that forwards log lines), the timer that runs the rule of a      *)
(* sensor, the thread of the gateway that asks for the time, and the MQTT  *)
(* thread that answers pushes.                                             *)
(***************************************************************************)

CONSTANTS
    ChainTypes      \* the chain types the configuration may name

ASSUME ChainTypesAssumption == ChainTypes \subseteq {"samurai", "bcop", "none"}

VARIABLES
    kind,       \* "gateway" or "sensor"
    rule,       \* whether a sensor's timer runs a rule (SensorRule)
    chainType,  \* chain_cfg.type
    onchain,    \* chain_cfg.data_onchain
    link,       \* whether the MQTT client is connected
    chain,      \* whether the block chain service answers with success
    status,     \* dev->dev_status
    smp,        \* the thread that reports data
    poe,        \* the hash its package carries: "unasked", "saved", "missing"
    report,     \* the hash of the package reported last
    through,    \* whether the last sample was reported
    rows,       \* whether the data base has samples within the rule's interval
    tmr,        \* the thread of the rule timer
    exec,       \* whether TempSensorRuleExec came to its end
    ave,        \* whether ALG_AVE's hasher is that of its value
    pid,        \* whether ALG_PROOF's pid is the hash of ALG_AVE's value
    result,     \* the rule result sent last
    clk,        \* the gateway's time request thread
    mq          \* the MQTT thread

cfgVars == <<kind, rule, chainType>>
envVars == <<link, chain>>
smpVars == <<smp, poe, report, through>>
tmrVars == <<tmr, exec, ave, pid, result>>
vars == <<cfgVars, envVars, onchain, status, smpVars, rows, tmrVars, clk, mq>>

Init ==
    /\ kind \in {"gateway", "sensor"} /\ chainType \in ChainTypes
    /\ rule \in BOOLEAN /\ onchain \in BOOLEAN
    /\ kind = "gateway" => ~rule /\ ~onchain
    /\ link = TRUE /\ chain = TRUE
    /\ status = "success"
    /\ smp = "idle" /\ poe = "unasked" /\ report = "unasked" /\ through = FALSE
    /\ rows = FALSE
    /\ tmr = "idle" /\ exec = FALSE /\ ave = FALSE /\ pid = FALSE
    /\ result = [exec |-> FALSE, ave |-> FALSE, pid |-> FALSE]
    /\ clk = "idle" /\ mq = "idle"

-----------------------------------------------------------------------------
(* DataOnchain                                                             *)

\* A slip of the next: a request the BCOP service rejects returns 0.
DataOnchainReturnsZero ==
    {[ret |-> 0, poe |-> IF chain THEN "saved" ELSE "missing",
      status |-> IF chain THEN status ELSE "onchainFail"]}

\* What a call may return, the hash it writes and the dev_status it leaves.  In
\* the Samurai branch an answer with a bad SaveRetCode returns TextHashPoeSave's
\* own return value, which may be 0; an empty answer of the BCOP service and an
\* unknown chain type leave dev_status alone.
DataOnchain ==
    IF chainType = "none" THEN {[ret |-> 1, poe |-> "missing", status |-> status]}
    ELSE IF chain THEN {[ret |-> 0, poe |-> "saved", status |-> status]}
    ELSE {[ret |-> 1, poe |-> "missing", status |-> "onchainFail"]}
         \cup (IF chainType = "samurai"
               THEN {[ret |-> 0, poe |-> "missing", status |-> "onchainFail"]}
               ELSE {[ret |-> 1, poe |-> "missing", status |-> status]})

-----------------------------------------------------------------------------
(* DevicePkgReport, called with each sample or log line                    *)

ReportRefused ==
    /\ smp = "idle"
    /\ status # "success"
    /\ through' = FALSE
    /\ UNCHANGED <<cfgVars, envVars, onchain, status, smp, poe, report, rows,
                   tmrVars, clk, mq>>

ReportStart ==
    /\ smp = "idle"
    /\ status = "success"
    /\ smp' = "pkg"
    /\ UNCHANGED <<cfgVars, envVars, onchain, status, poe, report, through, rows,
                   tmrVars, clk, mq>>

\* device_pkg_send puts the whole package of a sensor on chain first.
ReportPkg ==
    /\ smp = "pkg"
    /\ poe' = "unasked"
    /\ smp' = IF kind # "gateway" /\ onchain THEN "onchain" ELSE "publish"
    /\ UNCHANGED <<cfgVars, envVars, onchain, status, report, through, rows,
                   tmrVars, clk, mq>>

\* The package, or its hash field, cannot be built; the exits of device_pkg_send
\* before the hash leave dev_status alone.
ReportFails ==
    /\ smp = "pkg" \/ (smp = "publish" /\ poe # "unasked")
    /\ status' \in {"pkgFail"} \cup (IF smp = "pkg" THEN {status} ELSE {})
    /\ through' = FALSE
    /\ smp' = "idle"
    /\ UNCHANGED <<cfgVars, envVars, onchain, poe, report, rows, tmrVars, clk, mq>>

ReportOnchain ==
    /\ smp = "onchain"
    /\ \E res \in DataOnchain :
         IF res.ret # 0
         THEN /\ status' = "onchainFail"
              /\ through' = FALSE
              /\ smp' = "idle"
              /\ poe' = poe
         ELSE /\ status' = res.status
              /\ poe' = res.poe
              /\ smp' = "publish"
              /\ through' = through
    /\ UNCHANGED <<cfgVars, envVars, onchain, report, rows, tmrVars, clk, mq>>

\* MqttPublish, whose failure leaves dev_status alone.
ReportPublish ==
    /\ smp = "publish"
    /\ report' = IF link THEN poe ELSE report
    /\ through' = link
    /\ smp' = IF link THEN "sent" ELSE "idle"
    /\ UNCHANGED <<cfgVars, envVars, onchain, status, poe, rows, tmrVars, clk, mq>>

\* device_pkg_send clears dev_status; TempsensorDataSendJava goes on to save.
ReportSent ==
    /\ smp = "sent"
    /\ status' = "success"
    /\ smp' = IF kind = "sensor" THEN "save" ELSE "idle"
    /\ UNCHANGED <<cfgVars, envVars, onchain, poe, report, through, rows,
                   tmrVars, clk, mq>>

\* TempsensorDataToDb, whose failure is only logged.
ReportSave ==
    /\ smp = "save"
    /\ rows' \in {rows, TRUE}
    /\ smp' = "idle"
    /\ UNCHANGED <<cfgVars, envVars, onchain, status, poe, report, through,
                   tmrVars, clk, mq>>

-----------------------------------------------------------------------------
(* dev_rul_exec on the timer thread: TempSensorRuleExec, then              *)
(* DevicePkgRuleResult, which is sent whatever the execution returned      *)

\* A slip of the next: no rule runs while dev_status is set.
RuleStartIfSuccess ==
    /\ tmr = "idle" /\ rule /\ status = "success"
    /\ tmr' = "average"
    /\ exec' = FALSE
    /\ UNCHANGED <<cfgVars, envVars, onchain, status, smpVars, rows, ave, pid,
                   result, clk, mq>>

RuleStart ==
    /\ tmr = "idle" /\ rule
    /\ tmr' = "average"
    /\ exec' = FALSE
    /\ UNCHANGED <<cfgVars, envVars, onchain, status, smpVars, rows, ave, pid,
                   result, clk, mq>>

\* temp_ave_rule_exec; an average of zero counts as a failure.
RuleAverage ==
    /\ tmr = "average"
    /\ \/ /\ rows
          /\ ave' = FALSE /\ pid' = FALSE
          /\ tmr' = "onchain"
       \/ /\ tmr' = "result"
          /\ UNCHANGED <<ave, pid>>
    /\ UNCHANGED <<cfgVars, envVars, onchain, status, smpVars, rows, exec, result,
                   clk, mq>>

\* A slip of the next: a failed DataOnchain does not end the execution.
RuleOnchainGoesOn ==
    /\ tmr = "onchain"
    /\ \E res \in DataOnchain :
         /\ status' = res.status
         /\ ave' = (res.poe = "saved")
    /\ tmr' = "proof"
    /\ UNCHANGED <<cfgVars, envVars, onchain, smpVars, rows, exec, pid, result, clk, mq>>

\* DevAveOnchain, which does not ask for data_onchain.
RuleOnchain ==
    /\ tmr = "onchain"
    /\ \E res \in DataOnchain :
         /\ status' = res.status
         /\ ave' = (res.ret = 0 /\ res.poe = "saved")
         /\ tmr' = IF res.ret = 0 THEN "proof" ELSE "result"
    /\ UNCHANGED <<cfgVars, envVars, onchain, smpVars, rows, exec, pid, result, clk, mq>>

\* DevBulletProof, the copy of the hash to the pid, and BulletProofOnchain; each
\* request may fail.  An empty hash has hasher_len 0 and leaves the old pid.
RuleProof ==
    /\ tmr = "proof"
    /\ \/ exec' = FALSE /\ pid' = pid
       \/ pid' = ave /\ exec' \in {FALSE, chain}
    /\ tmr' = "result"
    /\ UNCHANGED <<cfgVars, envVars, onchain, status, smpVars, rows, ave, result,
                   clk, mq>>

\* DevicePkgRuleResult; not put on chain (ONCHAIN_NO).
RuleResult ==
    /\ tmr = "result"
    /\ IF link
       THEN /\ result' = [exec |-> exec, ave |-> ave, pid |-> pid]
            /\ tmr' = "sent"
       ELSE result' = result /\ tmr' = "idle"
    /\ UNCHANGED <<cfgVars, envVars, onchain, status, smpVars, rows, exec, ave, pid,
                   clk, mq>>

\* A slip of the next: the end of device_pkg_send leaves dev_status as it is.
RuleSentKeepsStatus ==
    /\ tmr = "sent"
    /\ tmr' = "idle"
    /\ UNCHANGED <<cfgVars, envVars, onchain, status, smpVars, rows, exec, ave, pid,
                   result, clk, mq>>

RuleSent ==
    /\ tmr = "sent"
    /\ status' = "success"
    /\ tmr' = "idle"
    /\ UNCHANGED <<cfgVars, envVars, onchain, smpVars, rows, exec, ave, pid, result,
                   clk, mq>>

-----------------------------------------------------------------------------
(* The gateway's time request, every 60 seconds, and the MQTT thread       *)

TimeRequest ==
    /\ kind = "gateway" /\ clk = "idle"
    /\ clk' = IF link THEN "sent" ELSE "idle"
    /\ UNCHANGED <<cfgVars, envVars, onchain, status, smpVars, rows, tmrVars, mq>>

TimeSent ==
    /\ clk = "sent"
    /\ status' = "success"
    /\ clk' = "idle"
    /\ UNCHANGED <<cfgVars, envVars, onchain, smpVars, rows, tmrVars, mq>>

\* A push, which may switch a sensor's data_onchain and is then answered.
Push ==
    /\ mq = "idle"
    /\ onchain' \in {onchain} \cup (IF kind = "sensor" THEN BOOLEAN ELSE {})
    /\ mq' = "answer"
    /\ UNCHANGED <<cfgVars, envVars, status, smpVars, rows, tmrVars, clk>>

\* DevicePkgCfgRes.
PushAnswer ==
    /\ mq = "answer"
    /\ mq' = IF link THEN "sent" ELSE "idle"
    /\ UNCHANGED <<cfgVars, envVars, onchain, status, smpVars, rows, tmrVars, clk>>

PushSent ==
    /\ mq = "sent"
    /\ status' = "success"
    /\ mq' = "idle"
    /\ UNCHANGED <<cfgVars, envVars, onchain, smpVars, rows, tmrVars, clk>>

\* GatewayMqttCfgRecvCb: an MQTT section that does not parse is not answered.
MqttCfgRejected ==
    /\ kind = "gateway" /\ mq = "idle"
    /\ status' = "configFail"
    /\ UNCHANGED <<cfgVars, envVars, onchain, smpVars, rows, tmrVars, clk, mq>>

-----------------------------------------------------------------------------
(* The environment                                                         *)

\* The connection to the broker, or the chain service, fails or comes back.
EnvChange ==
    /\ \/ link' = ~link /\ chain' = chain
       \/ chain' = ~chain /\ link' = link
    /\ UNCHANGED <<cfgVars, onchain, status, smpVars, rows, tmrVars, clk, mq>>

\* The samples grow older than the interval of the rule.
RowsExpire ==
    /\ rows
    /\ rows' = FALSE
    /\ UNCHANGED <<cfgVars, envVars, onchain, status, smpVars, tmrVars, clk, mq>>

Report ==
    \/ ReportRefused
    \/ ReportStart \/ ReportPkg \/ ReportFails \/ ReportOnchain \/ ReportPublish
    \/ ReportSent \/ ReportSave
Rule ==
    \/ RuleStart
    \/ RuleAverage \/ RuleOnchain \/ RuleProof
    \/ RuleResult \/ RuleSent
Time == TimeRequest \/ TimeSent
Mqtt == Push \/ PushAnswer \/ PushSent \/ MqttCfgRejected

Next == Report \/ Rule \/ Time \/ Mqtt \/ EnvChange \/ RowsExpire

Spec == Init /\ [][Next]_vars

\* The application reports again and again, both timers fire again and again, and
\* the MQTT thread answers what it received; nobody has to push.  A package that
\* is tried again and again gets built: what fails it is a lack of memory.
FairSpec == Spec /\ WF_vars(Report) /\ WF_vars(Rule) /\ WF_vars(Time)
                 /\ WF_vars(PushAnswer \/ PushSent)
                 /\ SF_vars(ReportPkg) /\ SF_vars(ReportPublish)

-----------------------------------------------------------------------------
(* Properties                                                              *)

\* Types of the shared status and of what each thread does.
TypeOK ==
    /\ kind \in {"gateway", "sensor"} /\ rule \in BOOLEAN
    /\ chainType \in {"samurai", "bcop", "none"}
    /\ onchain \in BOOLEAN /\ link \in BOOLEAN /\ chain \in BOOLEAN
    /\ rows \in BOOLEAN /\ through \in BOOLEAN
    /\ exec \in BOOLEAN /\ ave \in BOOLEAN /\ pid \in BOOLEAN
    /\ status \in {"success", "onchainFail", "configFail", "pkgFail"}
    /\ smp \in {"idle", "pkg", "onchain", "publish", "sent", "save"}
    /\ poe \in {"unasked", "saved", "missing"}
    /\ report \in {"unasked", "saved", "missing"}
    /\ tmr \in {"idle", "average", "onchain", "proof", "result", "sent"}
    /\ result \in [exec : BOOLEAN, ave : BOOLEAN, pid : BOOLEAN]
    /\ clk \in {"idle", "sent"} /\ mq \in {"idle", "answer", "sent"}

\* "4. put the whole data package on chain as a hash" (dev_pkg.c:293): where the
\* configuration asks for it, no package is reported without its hash.
ReportIsOnChain == report # "missing"

\* A rule result that says success carries the hash of its own average, and the
\* proof is stored under that hash, whatever failed in the executions before.
ResultIsProved == result.exec => result.ave /\ result.pid

\* A device that has a rule, the gateway, and any device that goes on to receive
\* pushes does not refuse data for ever: once the connection stays up, dev_status
\* is cleared again after every failure, although only a package that is sent
\* clears it and data is not sent until then (dev_pkg.c:445, 759).
StatusIsCleared ==
    (kind = "gateway" \/ rule \/ []<>(mq = "answer")) /\ <>[]link
        => []<>(status = "success")

\* Once the chain works as well, the samples of a sensor with a rule get through.
SamplesGetThrough ==
    rule /\ chainType # "none" /\ <>[](link /\ chain) => []<>through
=============================================================================
