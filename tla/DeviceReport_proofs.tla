------------------------- MODULE DeviceReport_proofs -------------------------
(***************************************************************************)
(* Proofs that nothing leaves a device as proved on chain that is not,     *)
(* with a chain service whose failures are returned as failures.           *)
(***************************************************************************)
EXTENDS DeviceReport, TLAPS

\* A package that waits to be published, and the last published one, carries
\* its hash if it needs one.
HashInv == smp \in {"publish", "sent", "save"} => poe # "missing"

\* Past DevAveOnchain the average carries its own hash; an execution that came
\* to its end has stored the proof under it.
ProofInv ==
    /\ tmr = "proof" => ave
    /\ tmr = "average" => ~exec
    /\ tmr \in {"onchain", "proof"} => ~exec
    /\ tmr = "result" /\ exec => ave /\ pid

IInv == TypeOK /\ chainType # "samurai" /\ HashInv /\ ProofInv
        /\ ReportIsOnChain /\ ResultIsProved

LEMMA InitIInv == ASSUME "samurai" \notin ChainTypes PROVE Init => IInv
<1> SUFFICES ASSUME Init PROVE IInv
  OBVIOUS
<1> USE DEF Init
<1>1. TypeOK
  <2>1. /\ kind \in {"gateway", "sensor"} /\ rule \in BOOLEAN
        /\ onchain \in BOOLEAN /\ chainType \in ChainTypes
    OBVIOUS
  <2>2. chainType \in {"samurai", "bcop", "none"}
    BY <2>1, ChainTypesAssumption
  <2> QED BY <2>1, <2>2 DEF TypeOK
<1>2. chainType # "samurai"
  OBVIOUS
<1>3. HashInv /\ ProofInv /\ ReportIsOnChain /\ ResultIsProved
  BY DEF HashInv, ProofInv, ReportIsOnChain, ResultIsProved
<1> QED BY <1>1, <1>2, <1>3 DEF IInv

\* What DataOnchain may return without the Samurai branch.
LEMMA DataOnchainReturns ==
    ASSUME IInv, NEW res \in DataOnchain
    PROVE  /\ res.ret = 0 => res.poe = "saved"
           /\ res.poe \in {"saved", "missing"}
           /\ res.status \in {status, "onchainFail"}
BY DEF IInv, DataOnchain

LEMMA StepIInv == IInv /\ [Next]_vars => IInv'
<1> SUFFICES ASSUME IInv, [Next]_vars PROVE IInv'
  OBVIOUS
<1> USE DEF IInv, TypeOK, HashInv, ProofInv, ReportIsOnChain, ResultIsProved
<1>1. CASE ReportRefused
  <2> USE <1>1 DEF ReportRefused, cfgVars, envVars, tmrVars
  <2>0. through' \in BOOLEAN
    OBVIOUS
  <2>1. TypeOK' /\ chainType' # "samurai"
    BY <2>0
  <2>2. HashInv' /\ ProofInv' /\ ReportIsOnChain' /\ ResultIsProved'
    OBVIOUS
  <2> QED BY <2>1, <2>2
<1>2. CASE ReportStart
  BY <1>2 DEF ReportStart, cfgVars, envVars, tmrVars
<1>3. CASE ReportPkg
  <2> USE <1>3 DEF ReportPkg, cfgVars, envVars, tmrVars
  <2>1. TypeOK' /\ chainType' # "samurai"
    OBVIOUS
  <2>2. HashInv' /\ ProofInv' /\ ReportIsOnChain' /\ ResultIsProved'
    OBVIOUS
  <2> QED BY <2>1, <2>2
<1>3a. CASE ReportFails
  <2>1. /\ status' \in {status, "pkgFail"} /\ through' = FALSE /\ smp' = "idle"
        /\ UNCHANGED <<kind, rule, chainType, link, chain, onchain, poe, report, rows,
                       tmr, exec, ave, pid, result, clk, mq>>
    BY <1>3a DEF ReportFails, cfgVars, envVars, tmrVars
  <2>2. /\ status' \in {"success", "onchainFail", "configFail", "pkgFail"}
        /\ through' \in BOOLEAN
        /\ smp' \in {"idle", "pkg", "onchain", "publish", "sent", "save"}
    BY <2>1
  <2>3. TypeOK' /\ chainType' # "samurai"
    <3> HIDE DEF HashInv, ProofInv, ReportIsOnChain, ResultIsProved
    <3> QED BY <2>1, <2>2
  <2>4. HashInv' /\ ProofInv' /\ ReportIsOnChain' /\ ResultIsProved'
    BY <2>1
  <2> QED BY <2>3, <2>4
<1>4. CASE ReportOnchain
  <2> PICK res \in DataOnchain :
        IF res.ret # 0
        THEN /\ status' = "onchainFail" /\ through' = FALSE
             /\ smp' = "idle" /\ poe' = poe
        ELSE /\ status' = res.status /\ poe' = res.poe
             /\ smp' = "publish" /\ through' = through
    BY <1>4 DEF ReportOnchain
  <2>1. /\ res.ret = 0 => res.poe = "saved"
        /\ res.status \in {status, "onchainFail"}
    BY DataOnchainReturns
  <2>2. through' \in BOOLEAN
    OBVIOUS
  <2>3. /\ status' \in {"success", "onchainFail", "configFail", "pkgFail"}
        /\ poe' \in {"unasked", "saved", "missing"}
        /\ smp' \in {"idle", "publish"} /\ (smp' = "publish" => poe' # "missing")
    BY <2>1
  <2> USE <1>4 DEF ReportOnchain, cfgVars, envVars, tmrVars
  <2>4. TypeOK' /\ chainType' # "samurai"
    BY <2>2, <2>3
  <2>5. HashInv' /\ ProofInv' /\ ReportIsOnChain' /\ ResultIsProved'
    BY <2>3
  <2> QED BY <2>4, <2>5
<1>5. CASE ReportPublish
  BY <1>5 DEF ReportPublish, cfgVars, envVars, tmrVars
<1>6. CASE ReportSent
  BY <1>6 DEF ReportSent, cfgVars, envVars, tmrVars
<1>7. CASE ReportSave
  <2> USE <1>7 DEF ReportSave, cfgVars, envVars, tmrVars
  <2>0. rows' \in BOOLEAN
    OBVIOUS
  <2>1. TypeOK' /\ chainType' # "samurai"
    BY <2>0
  <2>2. HashInv' /\ ProofInv' /\ ReportIsOnChain' /\ ResultIsProved'
    OBVIOUS
  <2> QED BY <2>1, <2>2
<1>8. CASE RuleStart
  <2> USE <1>8 DEF RuleStart, cfgVars, envVars, smpVars
  <2>0. exec' \in BOOLEAN
    OBVIOUS
  <2>1. TypeOK' /\ chainType' # "samurai"
    BY <2>0
  <2>2. HashInv' /\ ProofInv' /\ ReportIsOnChain' /\ ResultIsProved'
    OBVIOUS
  <2> QED BY <2>1, <2>2
<1>9. CASE RuleAverage
  <2> USE <1>9 DEF RuleAverage, cfgVars, envVars, smpVars
  <2>0. ave' \in BOOLEAN /\ pid' \in BOOLEAN
    OBVIOUS
  <2>1. TypeOK' /\ chainType' # "samurai"
    BY <2>0
  <2>2. HashInv' /\ ProofInv' /\ ReportIsOnChain' /\ ResultIsProved'
    OBVIOUS
  <2> QED BY <2>1, <2>2
<1>10. CASE RuleOnchain
  <2> PICK res \in DataOnchain :
        /\ status' = res.status
        /\ ave' = (res.ret = 0 /\ res.poe = "saved")
        /\ tmr' = IF res.ret = 0 THEN "proof" ELSE "result"
    BY <1>10 DEF RuleOnchain
  <2>1. /\ res.ret = 0 => res.poe = "saved"
        /\ res.status \in {status, "onchainFail"}
    BY DataOnchainReturns
  <2>2. ave' \in BOOLEAN /\ (tmr' = "proof" => ave')
    BY <2>1
  <2> QED BY <1>10, <2>1, <2>2 DEF RuleOnchain, cfgVars, envVars, smpVars
<1>11. CASE RuleProof
  <2> USE <1>11 DEF RuleProof, cfgVars, envVars, smpVars
  <2>0. exec' \in BOOLEAN /\ pid' \in BOOLEAN
    OBVIOUS
  <2>1. TypeOK' /\ chainType' # "samurai"
    BY <2>0
  <2>2. HashInv' /\ ProofInv' /\ ReportIsOnChain' /\ ResultIsProved'
    OBVIOUS
  <2> QED BY <2>1, <2>2
<1>12. CASE RuleResult
  BY <1>12 DEF RuleResult, cfgVars, envVars, smpVars
<1>13. CASE RuleSent
  BY <1>13 DEF RuleSent, cfgVars, envVars, smpVars
<1>14. CASE Time
  BY <1>14 DEF Time, TimeRequest, TimeSent, cfgVars, envVars, smpVars, tmrVars
<1>15. CASE Mqtt
  BY <1>15 DEF Mqtt, Push, PushAnswer, PushSent, MqttCfgRejected, cfgVars, envVars,
               smpVars, tmrVars
<1>16. CASE EnvChange \/ RowsExpire
  <2> USE <1>16 DEF EnvChange, RowsExpire, cfgVars, envVars, smpVars, tmrVars
  <2>0. link' \in BOOLEAN /\ chain' \in BOOLEAN /\ rows' \in BOOLEAN
    OBVIOUS
  <2>1. TypeOK' /\ chainType' # "samurai"
    BY <2>0
  <2>2. HashInv' /\ ProofInv' /\ ReportIsOnChain' /\ ResultIsProved'
    OBVIOUS
  <2> QED BY <2>1, <2>2
<1>17. CASE UNCHANGED vars
  BY <1>17 DEF vars, cfgVars, envVars, smpVars, tmrVars
<1> QED
  BY <1>1, <1>2, <1>3, <1>3a, <1>4, <1>5, <1>6, <1>7, <1>8, <1>9, <1>10, <1>11, <1>12,
     <1>13, <1>14, <1>15, <1>16, <1>17 DEF Next, Report, Rule

-----------------------------------------------------------------------------
\* Without the Samurai branch of DataOnchain, no package that the configuration
\* wants on chain is reported without its hash, whatever fails and in whatever
\* order the threads run.
THEOREM ReportsOnChain ==
    ASSUME "samurai" \notin ChainTypes PROVE Spec => []ReportIsOnChain
<1>1. IInv => ReportIsOnChain
  BY DEF IInv
<1> QED BY <1>1, InitIInv, StepIInv, PTL DEF Spec

\* Nor does a rule result say success without the hash of its average.
THEOREM ResultsProved ==
    ASSUME "samurai" \notin ChainTypes PROVE Spec => []ResultIsProved
<1>1. IInv => ResultIsProved
  BY DEF IInv
<1> QED BY <1>1, InitIInv, StepIInv, PTL DEF Spec

\* The shared status and the state of all threads keep their types.
THEOREM TypeCorrect ==
    ASSUME "samurai" \notin ChainTypes PROVE Spec => []TypeOK
<1>1. IInv => TypeOK
  BY DEF IInv
<1> QED BY <1>1, InitIInv, StepIInv, PTL DEF Spec
=============================================================================
