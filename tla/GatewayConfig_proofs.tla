------------------------ MODULE GatewayConfig_proofs ------------------------
(***************************************************************************)
(* Proofs of the safety properties of GatewayConfig, for every set of      *)
(* pushes, devices, chains and brokers, with losses of power and failing   *)
(* saves.                                                                  *)
(***************************************************************************)
EXTENDS GatewayConfig, WellFoundedInduction, TLAPS

(***************************************************************************)
(* The inductive invariant.  Each part says what the two files, the memory *)
(* of the gateway and the sub-devices have in common while the gateway is  *)
(* at a given step.                                                        *)
(***************************************************************************)

\* DEV_DEFAULT_CFG agrees with the gateway's own file.
Synced == dflt.id = file.id /\ dflt.chain = Saved(file.chain)

\* Steps between two pushes, or of a change of MQTT server: files agree.
SyncedSteps == {"bootStart", "idle", "list", "finish", "check", "mqttFile", "mqttDflt"}

\* How far the handler, or GatewayCfgInit, has come with the files, if no save
\* failed.
FilesInv == Intact =>
    /\ pc \in SyncedSteps => Synced
    /\ pc \in {"bootChain", "dfltChain"} => dflt.id = file.id
    /\ pc \in {"bootId", "bootChain", "bootStart"} => mem = file
    /\ pc \in {"chain", "dfltId", "dfltChain"} => mem.id = file.id
    /\ pc \in {"dfltId", "dfltChain"} => file.chain = Saved(mem.chain)

\* The running device list is the one in the file, except between its removal
\* from the file and its return to it.
ListInv == Intact =>
    /\ pc \in {"idle", "replace", "finish", "check", "mqttFile", "mqttDflt", "powerOff"}
          => mem.list = file.list
    /\ pc \in {"id", "chain", "dfltId", "dfltChain", "list"}
          => file.list \in {{}, mem.list}

\* The push being handled; ReplaceList is reached only if it has a list.
ReqInv ==
    /\ pc \in {"replace", "id", "chain", "dfltId", "dfltChain", "list", "finish"}
          => req \in Ids
    /\ pc = "replace" => Content[req].list # NoList

\* Only at rest, or while a broker is tried out, are there tasks.
TasksInv ==
    /\ tasks \subseteq mem.list
    /\ pc \notin {"idle", "check"} => tasks = {}
    /\ \A d \in Devices : live[d] # NoCfg => d \in tasks /\ own[d] = live[d]

\* A configuration file of a sub-device exists only for a listed device and
\* outside the handlers; what its own requests left of it was inherited from the
\* present default.
OwnInv == Intact =>
    \A d \in Devices : own[d] # NoCfg =>
        /\ pc \in {"off", "failed", "bootId", "bootChain", "bootStart", "idle", "check"}
        /\ d \in file.list
        /\ Synced
        /\ own[d].mqtt # dflt.mqtt => d \in moved
        /\ own[d].id \notin SubIds => own[d].id = dflt.id /\ own[d].chain = dflt.chain

IInv == TypeOK /\ FilesInv /\ ListInv /\ ReqInv /\ TasksInv /\ OwnInv

-----------------------------------------------------------------------------
(* Lemmas about the chain section.                                          *)

\* A non-empty set of indices up to n has a last one.
LEMMA LastIndex ==
    ASSUME NEW n \in Nat, NEW T \in SUBSET (1..n), T # {}
    PROVE  \E i \in T : \A j \in T : j <= i
<1> DEFINE M == {n - i : i \in T}
<1>1. \A i \in T : i \in Nat /\ i <= n /\ n - i \in Nat
  BY SMT
<1>2. M \subseteq Nat /\ M # {}
  BY <1>1
<1>3. \E m \in M : \A y \in M : ~ (<<y, m>> \in OpToRel(<, Nat))
  <2> HIDE DEF M
  <2> QED BY <1>2, NatLessThanWellFounded, WFMin, Zenon
<1>4. PICK m \in M : \A y \in M : ~ (<<y, m>> \in OpToRel(<, Nat))
  BY <1>3
<1>5. \A y \in M : m <= y
  <2> HIDE DEF M
  <2>1. ASSUME NEW y \in M, y < m PROVE FALSE
    <3>1. y \in Nat /\ m \in Nat
      BY <1>2
    <3>2. <<y, m>> \in OpToRel(<, Nat)
      BY <2>1, <3>1 DEF OpToRel
    <3> QED BY <1>4, <2>1, <3>2
  <2> QED BY <2>1, <1>2, SMT
<1>6. PICK i \in T : m = n - i
  OBVIOUS
<1>7. ASSUME NEW j \in T PROVE j <= i
  <2>1. n - j \in M
    OBVIOUS
  <2>2. n - i <= n - j
    BY <1>5, <1>6, <2>1, Zenon
  <2> HIDE DEF M
  <2> QED BY <1>1, <2>2
<1> QED BY <1>7

\* DeviceCfgChainParse leaves a complete chain section, or none at all, in
\* chain_cfg, whatever items a message holds.
LEMMA ChainAfterType ==
    ASSUME NEW cur \in Chains \union {NoChain},
           NEW items \in Seq(Chains \union {BadItem})
    PROVE  ChainAfter(cur, items) \in Chains \union {NoChain}
<1> DEFINE V == ValidUpTo(items, Len(items))
           L == CHOOSE i \in V : \A j \in V : j <= i
<1>1. CASE V = {}
  BY <1>1 DEF ChainAfter, ChainUpTo
<1>2. CASE V # {}
  <2>1. V \in SUBSET (1..Len(items)) /\ Len(items) \in Nat
    BY DEF ValidUpTo
  <2>2. \E i \in V : \A j \in V : j <= i
    BY <1>2, <2>1, LastIndex
  <2>3. L \in V
    BY <2>2
  <2>4. items[L] \in Chains
    BY <2>1, <2>3 DEF ValidUpTo
  <2>5. ChainAfter(cur, items) = items[L]
    BY <1>2 DEF ChainAfter, ChainUpTo
  <2> QED BY <2>4, <2>5
<1> QED BY <1>1, <1>2

\* What DeviceCfgChainSave writes is a fixed point: loaded and saved again it
\* does not change.
LEMMA SavedType ==
    ASSUME NEW c \in ChainSection
    PROVE  Saved(c) \in ChainSection /\ Saved(Saved(c)) = Saved(c)
BY ConstantsAssumption DEF Saved, ChainSection

-----------------------------------------------------------------------------
(* The invariant holds initially and is preserved by every action.          *)

LEMMA InitIInv == Init => IInv
<1> SUFFICES ASSUME Init PROVE IInv
  OBVIOUS
<1> USE DEF Init, Blank, NoneLive, Intact, Faults
<1>1. TypeOK
  BY ConstantsAssumption DEF TypeOK, BaseCfg, SubCfg, ChainSection, Steps
<1>2. FilesInv /\ ListInv /\ ReqInv
  BY DEF FilesInv, ListInv, ReqInv, SyncedSteps
<1>3. TasksInv /\ OwnInv
  BY DEF TasksInv, OwnInv
<1> QED BY <1>1, <1>2, <1>3 DEF IInv

\* A handler that stops every listed task leaves no process of a sub-device
\* behind, and, if no save failed, no file of one.
LEMMA StopTasksClears ==
    ASSUME IInv, StopTasks, pc \in {"idle", "check"}
    PROVE  tasks' = {} /\ live' = NoneLive /\ (Intact => own' = NoneLive)
<1>1. tasks \subseteq mem.list /\ \A d \in Devices : live[d] # NoCfg => d \in mem.list
  BY DEF IInv, TasksInv
<1>2. Intact => \A d \in Devices : own[d] # NoCfg => d \in mem.list
  BY DEF IInv, OwnInv, ListInv
<1> QED BY <1>1, <1>2 DEF StopTasks, NoneLive

LEMMA StepIInv == IInv /\ [Next]_vars => IInv'
<1> SUFFICES ASSUME IInv, [Next]_vars PROVE IInv'
  OBVIOUS
<1> USE DEF IInv, Intact, Faults
<1>1. CASE Boot
  <2> USE <1>1 DEF Boot, Blank
  <2>1. TypeOK'
    BY ConstantsAssumption, ZenonT(30) DEF TypeOK, BaseCfg, ChainSection, Steps
  <2>2. FilesInv'
    BY DEF TypeOK, BaseCfg, FilesInv, Synced, SyncedSteps
  <2>3. ListInv' /\ ReqInv'
    BY DEF TypeOK, FilesInv, ListInv, ReqInv
  <2>4. TasksInv'
    BY DEF TypeOK, FilesInv, ListInv, TasksInv
  <2>5. OwnInv'
    BY DEF TypeOK, FilesInv, ListInv, OwnInv, Synced, SyncedSteps
  <2> QED BY <2>1, <2>2, <2>3, <2>4, <2>5
<1>2. CASE BootSaveId
  <2> USE <1>2 DEF BootSaveId
  <2>1. Intact /\ (\E d \in Devices : own[d] # NoCfg) => dflt' = dflt
    BY DEF TypeOK, BaseCfg, FilesInv, OwnInv, Synced
  <2>2. TypeOK'
    BY DEF TypeOK, BaseCfg, ChainSection, Steps
  <2>3. FilesInv'
    BY DEF TypeOK, BaseCfg, FilesInv, Synced, SyncedSteps
  <2>4. ListInv' /\ ReqInv'
    BY DEF TypeOK, FilesInv, ListInv, ReqInv
  <2>5. TasksInv'
    BY DEF TypeOK, FilesInv, ListInv, TasksInv
  <2>6. OwnInv'
    BY <2>1 DEF TypeOK, FilesInv, ListInv, OwnInv, Synced, SyncedSteps
  <2> QED BY <2>2, <2>3, <2>4, <2>5, <2>6
<1>3. CASE BootSaveChain
  <2> USE <1>3 DEF BootSaveChain
  <2>1. Intact /\ (\E d \in Devices : own[d] # NoCfg) => dflt' = dflt
    BY DEF TypeOK, BaseCfg, FilesInv, OwnInv, Synced
  <2>2. TypeOK'
    BY SavedType DEF TypeOK, BaseCfg, ChainSection, Steps
  <2>3. FilesInv'
    BY SavedType DEF TypeOK, BaseCfg, FilesInv, Synced, SyncedSteps
  <2>4. ListInv' /\ ReqInv'
    BY DEF TypeOK, FilesInv, ListInv, ReqInv
  <2>5. TasksInv'
    BY DEF TypeOK, FilesInv, ListInv, TasksInv
  <2>6. OwnInv'
    BY <2>1 DEF TypeOK, FilesInv, ListInv, OwnInv, Synced, SyncedSteps
  <2> QED BY <2>2, <2>3, <2>4, <2>5, <2>6
<1>4. CASE BootStart
  <2> USE <1>4 DEF BootStart, StartTasks
  <2>1. TypeOK'
    BY DEF TypeOK, BaseCfg, ChainSection, Steps
  <2>2. FilesInv'
    BY DEF TypeOK, BaseCfg, FilesInv, Synced, SyncedSteps
  <2>3. ListInv' /\ ReqInv'
    BY DEF TypeOK, FilesInv, ListInv, ReqInv
  <2>4. TasksInv'
    BY DEF TypeOK, FilesInv, ListInv, TasksInv
  <2>5. OwnInv'
    BY DEF TypeOK, FilesInv, ListInv, OwnInv, Synced, SyncedSteps
  <2> QED BY <2>1, <2>2, <2>3, <2>4, <2>5
<1>5. CASE ReplaceList
  <2> USE <1>5 DEF ReplaceList
  <2>1. TypeOK'
    BY ContentAssumption DEF TypeOK, BaseCfg, ChainSection, Steps, ReqInv
  <2>2. FilesInv'
    BY DEF TypeOK, BaseCfg, FilesInv, Synced, SyncedSteps
  <2>3. ListInv' /\ ReqInv'
    BY DEF TypeOK, FilesInv, ListInv, ReqInv
  <2>4. TasksInv'
    BY DEF TypeOK, FilesInv, ListInv, TasksInv
  <2>5. OwnInv'
    BY DEF TypeOK, FilesInv, ListInv, OwnInv, Synced, SyncedSteps
  <2> QED BY <2>1, <2>2, <2>3, <2>4, <2>5
<1>6. CASE SaveId
  <2> USE <1>6 DEF SaveId
  <2>1. TypeOK'
    BY DEF TypeOK, BaseCfg, ChainSection, Steps, ReqInv
  <2>2. FilesInv'
    BY DEF TypeOK, BaseCfg, FilesInv, Synced, SyncedSteps
  <2>3. ListInv' /\ ReqInv'
    BY DEF TypeOK, FilesInv, ListInv, ReqInv
  <2>4. TasksInv'
    BY DEF TypeOK, FilesInv, ListInv, TasksInv
  <2>5. OwnInv'
    BY DEF TypeOK, FilesInv, ListInv, OwnInv, Synced, SyncedSteps
  <2> QED BY <2>1, <2>2, <2>3, <2>4, <2>5
<1>7. CASE SaveChain
  <2> USE <1>7 DEF SaveChain
  <2>1. TypeOK'
    BY SavedType DEF TypeOK, BaseCfg, ChainSection, Steps
  <2>2. FilesInv'
    BY SavedType DEF TypeOK, BaseCfg, FilesInv, Synced, SyncedSteps
  <2>3. ListInv' /\ ReqInv'
    BY DEF TypeOK, FilesInv, ListInv, ReqInv
  <2>4. TasksInv'
    BY DEF TypeOK, FilesInv, ListInv, TasksInv
  <2>5. OwnInv'
    BY DEF TypeOK, FilesInv, ListInv, OwnInv, Synced, SyncedSteps
  <2> QED BY <2>1, <2>2, <2>3, <2>4, <2>5
<1>8. CASE SaveDefaultId
  <2> USE <1>8 DEF SaveDefaultId
  <2>1. TypeOK'
    BY DEF TypeOK, BaseCfg, ChainSection, Steps
  <2>2. FilesInv'
    BY DEF TypeOK, BaseCfg, FilesInv, Synced, SyncedSteps
  <2>3. ListInv' /\ ReqInv'
    BY DEF TypeOK, FilesInv, ListInv, ReqInv
  <2>4. TasksInv'
    BY DEF TypeOK, FilesInv, ListInv, TasksInv
  <2>5. OwnInv'
    BY DEF TypeOK, FilesInv, ListInv, OwnInv, Synced, SyncedSteps
  <2> QED BY <2>1, <2>2, <2>3, <2>4, <2>5
<1>9. CASE SaveDefaultChain
  <2> USE <1>9 DEF SaveDefaultChain
  <2>0. Saved(Saved(mem.chain)) = Saved(mem.chain)
    BY SavedType DEF TypeOK, ChainSection
  <2>1. TypeOK'
    BY SavedType DEF TypeOK, BaseCfg, ChainSection, Steps
  <2>2. FilesInv'
    BY <2>0 DEF TypeOK, BaseCfg, FilesInv, Synced, SyncedSteps
  <2>3. ListInv' /\ ReqInv'
    BY DEF TypeOK, FilesInv, ListInv, ReqInv
  <2>4. TasksInv'
    BY DEF TypeOK, FilesInv, ListInv, TasksInv
  <2>5. OwnInv'
    BY DEF TypeOK, FilesInv, ListInv, OwnInv, Synced, SyncedSteps
  <2> QED BY <2>1, <2>2, <2>3, <2>4, <2>5
<1>10. CASE SaveList
  <2> USE <1>10 DEF SaveList
  <2>1. TypeOK'
    BY DEF TypeOK, BaseCfg, ChainSection, Steps
  <2>2. FilesInv'
    BY DEF TypeOK, BaseCfg, FilesInv, Synced, SyncedSteps
  <2>3. ListInv' /\ ReqInv'
    BY DEF TypeOK, FilesInv, ListInv, ReqInv
  <2>4. TasksInv'
    BY DEF TypeOK, FilesInv, ListInv, TasksInv
  <2>5. OwnInv'
    BY DEF TypeOK, FilesInv, ListInv, OwnInv, Synced, SyncedSteps
  <2> QED BY <2>1, <2>2, <2>3, <2>4, <2>5
<1>11. CASE CfgFinish
  <2> USE <1>11 DEF CfgFinish, StartTasks
  <2>1. TypeOK'
    BY DEF TypeOK, BaseCfg, ChainSection, Steps, ReqInv
  <2>2. FilesInv'
    BY DEF TypeOK, BaseCfg, FilesInv, Synced, SyncedSteps
  <2>3. ListInv' /\ ReqInv'
    BY DEF TypeOK, FilesInv, ListInv, ReqInv
  <2>4. TasksInv'
    BY DEF TypeOK, FilesInv, ListInv, TasksInv
  <2>5. OwnInv'
    BY DEF TypeOK, FilesInv, ListInv, OwnInv, Synced, SyncedSteps
  <2> QED BY <2>1, <2>2, <2>3, <2>4, <2>5
<1>12. CASE SaveMqtt
  <2> USE <1>12 DEF SaveMqtt
  <2>1. TypeOK'
    BY DEF TypeOK, BaseCfg, ChainSection, Steps
  <2>2. FilesInv'
    BY DEF TypeOK, BaseCfg, FilesInv, Synced, SyncedSteps
  <2>3. ListInv' /\ ReqInv'
    BY DEF TypeOK, FilesInv, ListInv, ReqInv
  <2>4. TasksInv'
    BY DEF TypeOK, FilesInv, ListInv, TasksInv
  <2>5. OwnInv'
    BY DEF TypeOK, FilesInv, ListInv, OwnInv, Synced, SyncedSteps
  <2> QED BY <2>1, <2>2, <2>3, <2>4, <2>5
<1>13. CASE SaveDefaultMqtt
  <2> USE <1>13 DEF SaveDefaultMqtt
  <2>1. TypeOK'
    BY DEF TypeOK, BaseCfg, ChainSection, Steps
  <2>2. FilesInv'
    BY DEF TypeOK, BaseCfg, FilesInv, Synced, SyncedSteps
  <2>3. ListInv' /\ ReqInv'
    BY DEF TypeOK, FilesInv, ListInv, ReqInv
  <2>4. TasksInv'
    BY DEF TypeOK, FilesInv, ListInv, TasksInv
  <2>5. OwnInv'
    BY DEF TypeOK, FilesInv, ListInv, OwnInv, Synced, SyncedSteps
  <2> QED BY <2>1, <2>2, <2>3, <2>4, <2>5
<1>14. CASE PowerOff
  <2> USE <1>14 DEF PowerOff, PowerDown, Blank, NoneLive
  <2>1. TypeOK'
    BY ConstantsAssumption DEF TypeOK, BaseCfg, ChainSection, Steps, SubCfg
  <2>2. FilesInv'
    BY DEF TypeOK, BaseCfg, FilesInv, Synced, SyncedSteps
  <2>3. ListInv' /\ ReqInv'
    BY DEF TypeOK, FilesInv, ListInv, ReqInv
  <2>4. TasksInv'
    BY DEF TypeOK, FilesInv, ListInv, TasksInv
  <2>5. OwnInv'
    BY DEF TypeOK, FilesInv, ListInv, OwnInv, Synced, SyncedSteps
  <2> QED BY <2>1, <2>2, <2>3, <2>4, <2>5
<1>15. CASE MqttCheckFail
  <2> USE <1>15 DEF MqttCheckFail
  <2>1. TypeOK'
    BY ConstantsAssumption DEF TypeOK, BaseCfg, ChainSection, Steps
  <2>2. FilesInv'
    BY DEF TypeOK, BaseCfg, FilesInv, Synced, SyncedSteps
  <2>3. ListInv' /\ ReqInv'
    BY DEF TypeOK, FilesInv, ListInv, ReqInv
  <2>4. TasksInv'
    BY DEF TypeOK, FilesInv, ListInv, TasksInv
  <2>5. OwnInv'
    BY DEF TypeOK, FilesInv, ListInv, OwnInv, Synced, SyncedSteps
  <2> QED BY <2>1, <2>2, <2>3, <2>4, <2>5
<1>16. CASE MqttCheckOk
  <2> USE <1>16 DEF MqttCheckOk
  <2>1. tasks' = {} /\ live' = NoneLive /\ (Intact => own' = NoneLive)
    BY StopTasksClears
  <2>2. TypeOK'
    BY <2>1 DEF TypeOK, BaseCfg, ChainSection, Steps, NoneLive, SubCfg, StopTasks
  <2>3. FilesInv'
    BY DEF TypeOK, BaseCfg, FilesInv, Synced, SyncedSteps
  <2>4. ListInv' /\ ReqInv'
    BY DEF TypeOK, FilesInv, ListInv, ReqInv
  <2>5. TasksInv'
    BY <2>1 DEF TypeOK, FilesInv, ListInv, TasksInv, NoneLive
  <2>6. OwnInv'
    BY <2>1 DEF TypeOK, FilesInv, ListInv, OwnInv, Synced, SyncedSteps, NoneLive
  <2> QED BY <2>2, <2>3, <2>4, <2>5, <2>6
<1>17. ASSUME NEW k \in Ids, CfgSame(k) PROVE IInv'
  <2> USE <1>17 DEF CfgSame
  <2>1. TypeOK'
    BY DEF TypeOK, BaseCfg, ChainSection, Steps
  <2>2. FilesInv'
    BY DEF TypeOK, BaseCfg, FilesInv, Synced, SyncedSteps
  <2>3. ListInv' /\ ReqInv'
    BY DEF TypeOK, FilesInv, ListInv, ReqInv
  <2>4. TasksInv'
    BY DEF TypeOK, FilesInv, ListInv, TasksInv
  <2>5. OwnInv'
    BY DEF TypeOK, FilesInv, ListInv, OwnInv, Synced, SyncedSteps
  <2> QED BY <2>1, <2>2, <2>3, <2>4, <2>5
<1>18. ASSUME NEW k \in Ids, CfgRejected(k) PROVE IInv'
  <2> USE <1>18 DEF CfgRejected, LeavesTraces
  <2>1. TypeOK'
    BY ContentAssumption, ChainAfterType DEF TypeOK, BaseCfg, ChainSection,
       Steps
  <2>2. FilesInv'
    BY DEF TypeOK, BaseCfg, FilesInv, Synced, SyncedSteps
  <2>3. ListInv' /\ ReqInv'
    BY DEF TypeOK, FilesInv, ListInv, ReqInv
  <2>4. TasksInv'
    BY DEF TypeOK, FilesInv, ListInv, TasksInv
  <2>5. OwnInv'
    BY DEF TypeOK, FilesInv, ListInv, OwnInv, Synced, SyncedSteps
  <2> QED BY <2>1, <2>2, <2>3, <2>4, <2>5
<1>19. ASSUME NEW k \in Ids, CfgUnchanged(k) PROVE IInv'
  <2> USE <1>19 DEF CfgUnchanged, LeavesTraces
  <2>1. TypeOK'
    BY ContentAssumption, ChainAfterType DEF TypeOK, BaseCfg, ChainSection,
       Steps
  <2>2. FilesInv'
    BY DEF TypeOK, BaseCfg, FilesInv, Synced, SyncedSteps
  <2>3. ListInv' /\ ReqInv'
    BY DEF TypeOK, FilesInv, ListInv, ReqInv
  <2>4. TasksInv'
    BY DEF TypeOK, FilesInv, ListInv, TasksInv
  <2>5. OwnInv'
    BY DEF TypeOK, FilesInv, ListInv, OwnInv, Synced, SyncedSteps
  <2> QED BY <2>1, <2>2, <2>3, <2>4, <2>5
<1>20. ASSUME NEW k \in Ids, CfgChanged(k) PROVE IInv'
  <2> USE <1>20 DEF CfgChanged
  <2>1. tasks' = {} /\ live' = NoneLive /\ (Intact => own' = NoneLive)
    BY StopTasksClears
  <2>2. TypeOK'
    BY <2>1, ContentAssumption, ChainAfterType DEF TypeOK, BaseCfg,
       ChainSection, Steps, NoneLive, SubCfg, StopTasks
  <2>3. FilesInv'
    BY DEF TypeOK, BaseCfg, FilesInv, Synced, SyncedSteps
  <2>4. ListInv' /\ ReqInv'
    BY DEF TypeOK, FilesInv, ListInv, ReqInv
  <2>5. TasksInv'
    BY <2>1 DEF TypeOK, FilesInv, ListInv, TasksInv, NoneLive
  <2>6. OwnInv'
    BY <2>1 DEF TypeOK, FilesInv, ListInv, OwnInv, Synced, SyncedSteps, NoneLive
  <2> QED BY <2>2, <2>3, <2>4, <2>5, <2>6
<1>21. ASSUME NEW m \in Brokers, MqttRecv(m) PROVE IInv'
  <2> USE <1>21 DEF MqttRecv
  <2>1. TypeOK'
    BY DEF TypeOK, BaseCfg, ChainSection, Steps
  <2>2. FilesInv'
    BY DEF TypeOK, BaseCfg, FilesInv, Synced, SyncedSteps
  <2>3. ListInv' /\ ReqInv'
    BY DEF TypeOK, FilesInv, ListInv, ReqInv
  <2>4. TasksInv'
    BY DEF TypeOK, FilesInv, ListInv, TasksInv
  <2>5. OwnInv'
    BY DEF TypeOK, FilesInv, ListInv, OwnInv, Synced, SyncedSteps
  <2> QED BY <2>1, <2>2, <2>3, <2>4, <2>5
<1>22. ASSUME NEW d \in Devices, SubOnline(d) PROVE IInv'
  <2> USE <1>22 DEF SubOnline
  <2>1. TypeOK'
    BY DEF TypeOK, BaseCfg, ChainSection, Steps, SubCfg
  <2>2. FilesInv'
    BY DEF TypeOK, BaseCfg, FilesInv, Synced, SyncedSteps
  <2>3. ListInv' /\ ReqInv'
    BY DEF TypeOK, FilesInv, ListInv, ReqInv
  <2>4. TasksInv'
    BY DEF TypeOK, FilesInv, ListInv, TasksInv
  <2>5. OwnInv'
    BY DEF TypeOK, FilesInv, ListInv, OwnInv, Synced, SyncedSteps, TasksInv
  <2> QED BY <2>1, <2>2, <2>3, <2>4, <2>5
<1>23. ASSUME NEW d \in Devices, SubPush(d) PROVE IInv'
  <2>1. PICK k \in SubIds, c \in Chains :
          LET new == [live[d] EXCEPT !.id = k, !.chain = c]
          IN  \/ /\ live' = [live EXCEPT ![d] = new]
                 /\ own' = [own EXCEPT ![d] = new]
                 /\ tasks' = tasks
              \/ /\ live' = [live EXCEPT ![d] = NoCfg]
                 /\ own' = [own EXCEPT ![d].id = k]
                 /\ tasks' = tasks \ {d}
    BY <1>23 DEF SubPush
  <2> DEFINE new == [live[d] EXCEPT !.id = k, !.chain = c]
             torn == [own[d] EXCEPT !.id = k]
  <2>2. /\ live[d] # NoCfg
        /\ UNCHANGED <<mem, file, dflt, moved, pc, req, broker, acked, faults>>
    BY <1>23 DEF SubPush
  <2>3. /\ live[d] \in SubCfg /\ own[d] = live[d]
        /\ new \in SubCfg /\ new.mqtt = own[d].mqtt /\ new.id = k
        /\ torn \in SubCfg /\ torn.mqtt = own[d].mqtt /\ torn.id = k
    BY <2>2, ZenonT(30) DEF TypeOK, SubCfg, ChainSection, TasksInv
  <2>4. \/ /\ live' = [live EXCEPT ![d] = new]
           /\ own' = [own EXCEPT ![d] = new]
           /\ tasks' = tasks
        \/ /\ live' = [live EXCEPT ![d] = NoCfg]
           /\ own' = [own EXCEPT ![d] = torn]
           /\ tasks' = tasks \ {d}
    BY <2>1
  <2> HIDE DEF new, torn
  <2>5. TypeOK'
    BY <2>2, <2>3, <2>4 DEF TypeOK
  <2>6. FilesInv' /\ ListInv' /\ ReqInv'
    BY <2>2 DEF FilesInv, ListInv, ReqInv, Synced
  <2>7. TasksInv'
    BY <2>2, <2>3, <2>4 DEF TypeOK, TasksInv
  <2>8. own[d] # NoCfg /\ \A e \in Devices : own'[e] # NoCfg =>
           own'[e] = own[e] \/ (e = d /\ own'[e].mqtt = own[e].mqtt /\ own'[e].id = k)
    BY <2>2, <2>3, <2>4 DEF TypeOK
  <2>9. OwnInv'
    BY <2>2, <2>8 DEF OwnInv, Synced
  <2> QED BY <2>5, <2>6, <2>7, <2>9
<1>24. ASSUME NEW d \in Devices, TaskExit(d) PROVE IInv'
  <2> USE <1>24 DEF TaskExit
  <2>1. TypeOK'
    BY DEF TypeOK, BaseCfg, ChainSection, Steps, SubCfg
  <2>2. FilesInv'
    BY DEF TypeOK, BaseCfg, FilesInv, Synced, SyncedSteps
  <2>3. ListInv' /\ ReqInv'
    BY DEF TypeOK, FilesInv, ListInv, ReqInv
  <2>4. TasksInv'
    BY DEF TypeOK, FilesInv, ListInv, TasksInv
  <2>5. OwnInv'
    BY DEF TypeOK, FilesInv, ListInv, OwnInv, Synced, SyncedSteps, TasksInv
  <2> QED BY <2>1, <2>2, <2>3, <2>4, <2>5
<1>25. ASSUME NEW d \in Devices, SubMqttPush(d) PROVE IInv'
  <2>1. PICK m \in Brokers : own' = [own EXCEPT ![d].mqtt = m]
    BY <1>25 DEF SubMqttPush
  <2> DEFINE new == [own[d] EXCEPT !.mqtt = m]
  <2>2. /\ live[d] # NoCfg /\ own[d] = live[d]
        /\ moved' = moved \union {d}
        /\ live' = [live EXCEPT ![d] = NoCfg]
        /\ tasks' \in {tasks, tasks \ {d}}
        /\ UNCHANGED <<mem, file, dflt, pc, req, broker, acked, faults>>
    BY <1>25 DEF SubMqttPush, TasksInv
  <2>3. /\ own[d] \in SubCfg /\ new \in SubCfg
        /\ new.id = own[d].id /\ new.chain = own[d].chain
    BY <2>2, ZenonT(30) DEF TypeOK, SubCfg
  <2>4. own' = [own EXCEPT ![d] = new]
    BY <2>1
  <2> HIDE DEF new
  <2>5. TypeOK'
    BY <2>2, <2>3, <2>4 DEF TypeOK
  <2>6. FilesInv' /\ ListInv' /\ ReqInv'
    BY <2>2 DEF FilesInv, ListInv, ReqInv, Synced
  <2>7. TasksInv'
    BY <2>2, <2>4 DEF TypeOK, TasksInv
  <2>8. \A e \in Devices : own'[e] # NoCfg =>
           \/ own'[e] = own[e]
           \/ e = d /\ own[e] # NoCfg /\ own'[e].id = own[e].id /\ own'[e].chain = own[e].chain
    BY <2>2, <2>3, <2>4 DEF TypeOK
  <2>9. OwnInv'
    BY <2>2, <2>8 DEF OwnInv, Synced
  <2> QED BY <2>5, <2>6, <2>7, <2>9
<1>26. CASE Crash
  <2> USE <1>26 DEF Crash, PowerDown, Blank, NoneLive
  <2>1. TypeOK'
    BY ConstantsAssumption DEF TypeOK, BaseCfg, ChainSection, Steps, SubCfg
  <2>2. FilesInv'
    BY DEF TypeOK, BaseCfg, FilesInv, Synced, SyncedSteps
  <2>3. ListInv' /\ ReqInv'
    BY DEF TypeOK, FilesInv, ListInv, ReqInv
  <2>4. TasksInv'
    BY DEF TypeOK, FilesInv, ListInv, TasksInv
  <2>5. OwnInv'
    BY DEF TypeOK, FilesInv, ListInv, OwnInv, Synced, SyncedSteps
  <2> QED BY <2>1, <2>2, <2>3, <2>4, <2>5
<1>27. CASE SaveFails
  <2> USE <1>27 DEF SaveFails, NextStep
  <2>a. pc' \in Steps
    BY DEF Steps
  <2>b. /\ pc = "id" => req \in Ids
        /\ pc = "replace" => Content[req].list \in SUBSET Devices
    BY ContentAssumption DEF ReqInv, NoList
  <2>c. mem' \in [id : Ids \union {NoId}, chain : Chains \union {NoChain},
                  mqtt : Brokers, list : SUBSET Devices]
    BY <2>b DEF TypeOK
  <2>1. TypeOK'
    BY <2>a, <2>c DEF TypeOK
  <2>2. FilesInv' /\ ListInv' /\ OwnInv'
    BY DEF FilesInv, ListInv, OwnInv
  <2>3. ReqInv'
    BY DEF ReqInv
  <2>4. TasksInv'
    BY DEF TypeOK, TasksInv
  <2> QED BY <2>1, <2>2, <2>3, <2>4
<1>28. CASE UNCHANGED vars
  BY <1>28 DEF vars, TypeOK, FilesInv, ListInv, ReqInv, TasksInv, OwnInv, Synced
<1> QED
  BY <1>1, <1>2, <1>3, <1>4, <1>5, <1>6, <1>7, <1>8, <1>9, <1>10, <1>11,
     <1>12, <1>13, <1>14, <1>15, <1>16, <1>17, <1>18, <1>19, <1>20, <1>21,
     <1>22, <1>23, <1>24, <1>25, <1>26, <1>27, <1>28
  DEF Next, Works, BootSteps, CfgSteps, MqttSteps, Platform

LEMMA IInvHolds == Spec => []IInv
BY InitIInv, StepIInv, PTL DEF Spec

-----------------------------------------------------------------------------
(* The MQTT server in the two files.                                        *)

\* No save failed and the power was not lost: the two files differ only between
\* the writes of a change of server, and the running server is that of cfg_file.
BrokerInv == faults \intersect {"power", "write"} = {} =>
    /\ pc \notin {"mqttFile", "mqttDflt", "powerOff"} => file.mqtt = dflt.mqtt
    /\ pc \notin {"off", "mqttFile"} => mem.mqtt = file.mqtt
    /\ pc = "powerOff" => mem.mqtt = dflt.mqtt

LEMMA InitBrokerInv == Init => BrokerInv
BY DEF Init, Blank, BrokerInv

LEMMA StepBrokerInv == TypeOK /\ BrokerInv /\ [Next]_vars => BrokerInv'
<1> SUFFICES ASSUME TypeOK, BrokerInv, [Next]_vars PROVE BrokerInv'
  OBVIOUS
<1> USE DEF TypeOK, BaseCfg, BrokerInv, Intact
<1>1. CASE Boot
  BY <1>1 DEF Boot, Blank
<1>2. CASE BootSaveId
  BY <1>2 DEF BootSaveId
<1>3. CASE BootSaveChain
  BY <1>3 DEF BootSaveChain
<1>4. CASE BootStart
  BY <1>4 DEF BootStart
<1>5. CASE ReplaceList
  BY <1>5 DEF ReplaceList
<1>6. CASE SaveId
  BY <1>6 DEF SaveId
<1>7. CASE SaveChain
  BY <1>7 DEF SaveChain
<1>8. CASE SaveDefaultId
  BY <1>8 DEF SaveDefaultId
<1>9. CASE SaveDefaultChain
  BY <1>9 DEF SaveDefaultChain
<1>10. CASE SaveList
  BY <1>10 DEF SaveList
<1>11. CASE CfgFinish
  BY <1>11 DEF CfgFinish
<1>12. CASE SaveMqtt
  BY <1>12 DEF SaveMqtt
<1>13. CASE SaveDefaultMqtt
  BY <1>13 DEF SaveDefaultMqtt
<1>14. CASE PowerOff
  BY <1>14 DEF PowerOff, PowerDown, Blank
<1>15. CASE MqttCheckFail
  BY <1>15 DEF MqttCheckFail
<1>16. CASE MqttCheckOk
  BY <1>16 DEF MqttCheckOk
<1>17. ASSUME NEW k \in Ids, CfgSame(k) PROVE BrokerInv'
  BY <1>17 DEF CfgSame
<1>18. ASSUME NEW k \in Ids, CfgRejected(k) PROVE BrokerInv'
  BY <1>18 DEF CfgRejected, LeavesTraces
<1>19. ASSUME NEW k \in Ids, CfgUnchanged(k) PROVE BrokerInv'
  BY <1>19 DEF CfgUnchanged, LeavesTraces
<1>20. ASSUME NEW k \in Ids, CfgChanged(k) PROVE BrokerInv'
  BY <1>20 DEF CfgChanged
<1>21. ASSUME NEW m \in Brokers, MqttRecv(m) PROVE BrokerInv'
  BY <1>21 DEF MqttRecv
<1>22. ASSUME NEW d \in Devices, SubOnline(d) PROVE BrokerInv'
  BY <1>22 DEF SubOnline
<1>23. ASSUME NEW d \in Devices, SubPush(d) PROVE BrokerInv'
  BY <1>23 DEF SubPush
<1>24. ASSUME NEW d \in Devices, TaskExit(d) PROVE BrokerInv'
  BY <1>24 DEF TaskExit
<1>25. ASSUME NEW d \in Devices, SubMqttPush(d) PROVE BrokerInv'
  BY <1>25 DEF SubMqttPush
<1>26. CASE Crash
  BY <1>26 DEF Crash, PowerDown, Blank
<1>27. CASE SaveFails
  BY <1>27 DEF SaveFails, NextStep
<1>28. CASE UNCHANGED vars
  BY <1>28 DEF vars
<1> QED
  BY <1>1, <1>2, <1>3, <1>4, <1>5, <1>6, <1>7, <1>8, <1>9, <1>10, <1>11,
     <1>12, <1>13, <1>14, <1>15, <1>16, <1>17, <1>18, <1>19, <1>20, <1>21,
     <1>22, <1>23, <1>24, <1>25, <1>26, <1>27, <1>28
  DEF Next, Works, BootSteps, CfgSteps, MqttSteps, Platform

-----------------------------------------------------------------------------
(* What was answered with success is applied.                               *)

\* A chain message that ends in a valid item leaves that item in chain_cfg.
LEMMA LastItem ==
    ASSUME NEW cur, NEW items \in Seq(Chains \union {BadItem}),
           items # <<>>, items[Len(items)] # BadItem
    PROVE  ChainAfter(cur, items) = items[Len(items)]
<1> DEFINE n == Len(items)
           V == ValidUpTo(items, n)
           L == CHOOSE i \in V : \A j \in V : j <= i
<1>1. n \in Nat /\ n > 0
  OBVIOUS
<1>2. n \in V /\ V \subseteq 1..n
  BY <1>1 DEF ValidUpTo
<1>3. \A i \in V : i <= n
  BY <1>1, <1>2
<1>4. L \in V /\ n <= L
  BY <1>2, <1>3
<1>5. L = n
  BY <1>1, <1>2, <1>4
<1> QED BY <1>2, <1>5 DEF ChainAfter, ChainUpTo

\* The power was not lost, and no other push left its traces.
Clean == faults \subseteq {"unprovisioned", "write"}

\* While a push is handled, its chain section and then its list are running.
PushInv ==
    /\ pc \in {"replace", "id", "chain", "dfltId", "dfltChain", "list", "finish"}
          => AppliedTo(req, [mem EXCEPT !.list = Content[req].list])
    /\ pc \in {"id", "chain", "dfltId", "dfltChain", "list", "finish"}
          => Content[req].list \in {NoList, mem.list}
    /\ pc \in {"chain", "dfltId", "dfltChain", "list", "finish"} => mem.id = req

\* The file says what is running, but for an all-zero chain section, unless a
\* save failed.
SavedInv == Intact =>
    /\ pc \in {"idle", "check", "mqttFile", "mqttDflt", "powerOff", "finish", "list",
               "dfltChain", "dfltId", "chain"} => mem.id = file.id
    /\ pc \in {"list", "finish"} => file.chain = Saved(mem.chain)
    /\ pc \in {"idle", "check", "mqttFile", "mqttDflt", "powerOff"} /\ Clean
          => file.chain \in {mem.chain, Saved(mem.chain)}

\* The running configuration is what its id, and the last id answered with
\* success, stand for; before the start-up the file is.
AckInv == Clean =>
    /\ pc \in {"bootId", "bootChain", "bootStart", "idle", "check", "mqttFile",
               "mqttDflt", "powerOff"}
          => \A k \in {acked, mem.id} \ {NoId} : AppliedTo(k, mem)
    /\ pc = "off" => Intact /\ \A k \in {acked, file.id} \ {NoId} : AppliedTo(k, file)

RestInv == PushInv /\ SavedInv /\ AckInv

LEMMA InitRestInv == Init => RestInv
BY DEF Init, Blank, RestInv, PushInv, SavedInv, AckInv, Intact

LEMMA StepPushInv == IInv /\ PushInv /\ [Next]_vars => PushInv'
<1> SUFFICES ASSUME IInv, PushInv, [Next]_vars PROVE PushInv'
  OBVIOUS
<1> USE DEF IInv, TypeOK, PushInv
<1>1. CASE Boot
  BY <1>1 DEF Boot, Blank, AppliedTo
<1>2. CASE BootSaveId
  BY <1>2 DEF BootSaveId, AppliedTo
<1>3. CASE BootSaveChain
  BY <1>3 DEF BootSaveChain, AppliedTo
<1>4. CASE BootStart
  BY <1>4 DEF BootStart, AppliedTo
<1>5. CASE ReplaceList
  BY <1>5 DEF ReplaceList, AppliedTo
<1>6. CASE SaveId
  BY <1>6 DEF SaveId, AppliedTo
<1>7. CASE SaveChain
  BY <1>7 DEF SaveChain, AppliedTo
<1>8. CASE SaveDefaultId
  BY <1>8 DEF SaveDefaultId, AppliedTo
<1>9. CASE SaveDefaultChain
  BY <1>9 DEF SaveDefaultChain, AppliedTo
<1>10. CASE SaveList
  BY <1>10 DEF SaveList, AppliedTo
<1>11. CASE CfgFinish
  BY <1>11 DEF CfgFinish, AppliedTo
<1>12. CASE SaveMqtt
  BY <1>12 DEF SaveMqtt, AppliedTo
<1>13. CASE SaveDefaultMqtt
  BY <1>13 DEF SaveDefaultMqtt, AppliedTo
<1>14. CASE PowerOff
  BY <1>14 DEF PowerOff, PowerDown, Blank, AppliedTo
<1>15. CASE MqttCheckFail
  BY <1>15 DEF MqttCheckFail, AppliedTo
<1>16. CASE MqttCheckOk
  BY <1>16 DEF MqttCheckOk, AppliedTo
<1>17. ASSUME NEW k \in Ids, CfgSame(k) PROVE PushInv'
  BY <1>17 DEF CfgSame, AppliedTo
<1>18. ASSUME NEW k \in Ids, CfgRejected(k) PROVE PushInv'
  BY <1>18 DEF CfgRejected, LeavesTraces, AppliedTo
<1>19. ASSUME NEW k \in Ids, CfgUnchanged(k) PROVE PushInv'
  BY <1>19 DEF CfgUnchanged, LeavesTraces, AppliedTo
<1>20. ASSUME NEW k \in Ids, CfgChanged(k) PROVE PushInv'
  BY <1>20, ContentAssumption, LastItem DEF CfgChanged, AppliedTo, ChainResult
<1>21. ASSUME NEW m \in Brokers, MqttRecv(m) PROVE PushInv'
  BY <1>21 DEF MqttRecv, AppliedTo
<1>22. ASSUME NEW d \in Devices, SubOnline(d) PROVE PushInv'
  BY <1>22 DEF SubOnline, AppliedTo
<1>23. ASSUME NEW d \in Devices, SubPush(d) PROVE PushInv'
  BY <1>23 DEF SubPush, AppliedTo
<1>24. ASSUME NEW d \in Devices, TaskExit(d) PROVE PushInv'
  BY <1>24 DEF TaskExit, AppliedTo
<1>25. ASSUME NEW d \in Devices, SubMqttPush(d) PROVE PushInv'
  BY <1>25 DEF SubMqttPush, AppliedTo
<1>26. CASE Crash
  BY <1>26 DEF Crash, PowerDown, Blank, AppliedTo
<1>27. CASE SaveFails
  BY <1>27 DEF SaveFails, NextStep, AppliedTo
<1>28. CASE UNCHANGED vars
  BY <1>28 DEF vars, AppliedTo
<1> QED
  BY <1>1, <1>2, <1>3, <1>4, <1>5, <1>6, <1>7, <1>8, <1>9, <1>10, <1>11,
     <1>12, <1>13, <1>14, <1>15, <1>16, <1>17, <1>18, <1>19, <1>20, <1>21,
     <1>22, <1>23, <1>24, <1>25, <1>26, <1>27, <1>28
  DEF Next, Works, BootSteps, CfgSteps, MqttSteps, Platform

LEMMA StepSavedInv == IInv /\ SavedInv /\ [Next]_vars => SavedInv'
<1> SUFFICES ASSUME IInv, SavedInv, [Next]_vars PROVE SavedInv'
  OBVIOUS
<1> USE DEF IInv, TypeOK, SavedInv, FilesInv, Intact, Clean
<1>1. CASE Boot
  BY <1>1 DEF Boot, Blank
<1>2. CASE BootSaveId
  BY <1>2 DEF BootSaveId
<1>3. CASE BootSaveChain
  BY <1>3 DEF BootSaveChain
<1>4. CASE BootStart
  BY <1>4 DEF BootStart
<1>5. CASE ReplaceList
  BY <1>5 DEF ReplaceList
<1>6. CASE SaveId
  BY <1>6 DEF SaveId
<1>7. CASE SaveChain
  BY <1>7 DEF SaveChain
<1>8. CASE SaveDefaultId
  BY <1>8 DEF SaveDefaultId
<1>9. CASE SaveDefaultChain
  BY <1>9 DEF SaveDefaultChain
<1>10. CASE SaveList
  BY <1>10 DEF SaveList
<1>11. CASE CfgFinish
  BY <1>11 DEF CfgFinish
<1>12. CASE SaveMqtt
  BY <1>12 DEF SaveMqtt
<1>13. CASE SaveDefaultMqtt
  BY <1>13 DEF SaveDefaultMqtt
<1>14. CASE PowerOff
  BY <1>14 DEF PowerOff, PowerDown, Blank
<1>15. CASE MqttCheckFail
  BY <1>15 DEF MqttCheckFail
<1>16. CASE MqttCheckOk
  BY <1>16 DEF MqttCheckOk
<1>17. ASSUME NEW k \in Ids, CfgSame(k) PROVE SavedInv'
  BY <1>17 DEF CfgSame
<1>18. ASSUME NEW k \in Ids, CfgRejected(k) PROVE SavedInv'
  BY <1>18 DEF CfgRejected, LeavesTraces
<1>19. ASSUME NEW k \in Ids, CfgUnchanged(k) PROVE SavedInv'
  BY <1>19 DEF CfgUnchanged, LeavesTraces
<1>20. ASSUME NEW k \in Ids, CfgChanged(k) PROVE SavedInv'
  BY <1>20 DEF CfgChanged
<1>21. ASSUME NEW m \in Brokers, MqttRecv(m) PROVE SavedInv'
  BY <1>21 DEF MqttRecv
<1>22. ASSUME NEW d \in Devices, SubOnline(d) PROVE SavedInv'
  BY <1>22 DEF SubOnline
<1>23. ASSUME NEW d \in Devices, SubPush(d) PROVE SavedInv'
  BY <1>23 DEF SubPush
<1>24. ASSUME NEW d \in Devices, TaskExit(d) PROVE SavedInv'
  BY <1>24 DEF TaskExit
<1>25. ASSUME NEW d \in Devices, SubMqttPush(d) PROVE SavedInv'
  BY <1>25 DEF SubMqttPush
<1>26. CASE Crash
  BY <1>26 DEF Crash, PowerDown, Blank
<1>27. CASE SaveFails
  BY <1>27 DEF SaveFails, NextStep
<1>28. CASE UNCHANGED vars
  BY <1>28 DEF vars
<1> QED
  BY <1>1, <1>2, <1>3, <1>4, <1>5, <1>6, <1>7, <1>8, <1>9, <1>10, <1>11,
     <1>12, <1>13, <1>14, <1>15, <1>16, <1>17, <1>18, <1>19, <1>20, <1>21,
     <1>22, <1>23, <1>24, <1>25, <1>26, <1>27, <1>28
  DEF Next, Works, BootSteps, CfgSteps, MqttSteps, Platform

\* What a push asks for and the gateway runs with is what the file says.
LEMMA SavedKeepsItems ==
    ASSUME NEW k \in Ids, AppliedTo(k, mem), mem.list = file.list,
           file.chain \in {mem.chain, Saved(mem.chain)}
    PROVE  AppliedTo(k, file)
<1>1. Content[k].chain \in Seq(Chains \union {BadItem})
  BY ContentAssumption
<1>2. Content[k].chain # <<>> =>
          Content[k].chain[Len(Content[k].chain)] \in Chains \union {BadItem}
  BY <1>1
<1> QED BY <1>2, ConstantsAssumption DEF AppliedTo, Saved

LEMMA StepAckInv == IInv /\ RestInv /\ [Next]_vars => AckInv'
<1> SUFFICES ASSUME IInv, RestInv, [Next]_vars PROVE AckInv'
  OBVIOUS
<1> USE DEF IInv, RestInv, TypeOK, AckInv, Clean, Intact
<1>1. CASE Boot
  BY <1>1 DEF Boot, Blank, AppliedTo
<1>2. CASE BootSaveId
  BY <1>2 DEF BootSaveId, AppliedTo
<1>3. CASE BootSaveChain
  BY <1>3 DEF BootSaveChain, AppliedTo
<1>4. CASE BootStart
  BY <1>4 DEF BootStart, AppliedTo
<1>5. CASE ReplaceList
  BY <1>5 DEF ReplaceList, AppliedTo
<1>6. CASE SaveId
  BY <1>6 DEF SaveId, AppliedTo
<1>7. CASE SaveChain
  BY <1>7 DEF SaveChain, AppliedTo
<1>8. CASE SaveDefaultId
  BY <1>8 DEF SaveDefaultId, AppliedTo
<1>9. CASE SaveDefaultChain
  BY <1>9 DEF SaveDefaultChain, AppliedTo
<1>10. CASE SaveList
  BY <1>10 DEF SaveList, AppliedTo
<1>11. CASE CfgFinish
  <2>1. pc = "finish" /\ mem.id = req /\ acked' = req /\ mem' = mem
    BY <1>11 DEF CfgFinish, PushInv
  <2>2. AppliedTo(req, mem)
    BY <2>1 DEF PushInv, AppliedTo
  <2> QED BY <2>1, <2>2, <1>11 DEF CfgFinish
<1>12. CASE SaveMqtt
  BY <1>12 DEF SaveMqtt, AppliedTo
<1>13. CASE SaveDefaultMqtt
  BY <1>13 DEF SaveDefaultMqtt, AppliedTo
<1>14. CASE PowerOff
  <2> SUFFICES ASSUME Clean' PROVE AckInv'
    BY DEF Clean
  <2>1. pc = "powerOff" /\ pc' = "off" /\ UNCHANGED <<file, acked>>
    BY <1>14 DEF PowerOff, PowerDown
  <2>2. Intact /\ Clean /\ faults' = faults
    BY <1>14, Zenon DEF PowerOff, Clean, Intact
  <2>3. /\ mem.list = file.list /\ mem.id = file.id
        /\ file.chain \in {mem.chain, Saved(mem.chain)}
    BY <2>1, <2>2 DEF ListInv, SavedInv
  <2>4. \A k \in Ids : AppliedTo(k, mem) => AppliedTo(k, file)
    BY <2>3, ContentAssumption, SavedKeepsItems
  <2>5. acked \in Ids \union {NoId} /\ file.id \in Ids \union {NoId}
    BY DEF TypeOK
  <2>6. \A k \in {acked, file.id} \ {NoId} : AppliedTo(k, mem)
    BY <2>1, <2>2, <2>3
  <2> QED BY <2>1, <2>2, <2>4, <2>5, <2>6 DEF AppliedTo
<1>15. CASE MqttCheckFail
  BY <1>15 DEF MqttCheckFail, AppliedTo
<1>16. CASE MqttCheckOk
  BY <1>16 DEF MqttCheckOk, AppliedTo
<1>17. ASSUME NEW k \in Ids, CfgSame(k) PROVE AckInv'
  BY <1>17 DEF CfgSame, AppliedTo
<1>18. ASSUME NEW k \in Ids, CfgRejected(k) PROVE AckInv'
  BY <1>18 DEF CfgRejected, LeavesTraces, AppliedTo
<1>19. ASSUME NEW k \in Ids, CfgUnchanged(k) PROVE AckInv'
  <2> USE <1>19 DEF CfgUnchanged, LeavesTraces
  <2> SUFFICES ASSUME Clean' PROVE AckInv'
    BY DEF Clean
  <2>1. mem' = mem
    BY DEF Clean, TypeOK
  <2>2. Clean
    BY DEF Clean
  <2>3. AppliedTo(k, mem')
    BY ContentAssumption, LastItem DEF AppliedTo, ChainResult
  <2> QED BY <2>1, <2>2, <2>3
<1>20. ASSUME NEW k \in Ids, CfgChanged(k) PROVE AckInv'
  BY <1>20 DEF CfgChanged, AppliedTo
<1>21. ASSUME NEW m \in Brokers, MqttRecv(m) PROVE AckInv'
  BY <1>21 DEF MqttRecv, AppliedTo
<1>22. ASSUME NEW d \in Devices, SubOnline(d) PROVE AckInv'
  BY <1>22 DEF SubOnline, AppliedTo
<1>23. ASSUME NEW d \in Devices, SubPush(d) PROVE AckInv'
  BY <1>23 DEF SubPush, AppliedTo
<1>24. ASSUME NEW d \in Devices, TaskExit(d) PROVE AckInv'
  BY <1>24 DEF TaskExit, AppliedTo
<1>25. ASSUME NEW d \in Devices, SubMqttPush(d) PROVE AckInv'
  BY <1>25 DEF SubMqttPush, AppliedTo
<1>26. CASE Crash
  BY <1>26 DEF Crash, PowerDown, Blank, AppliedTo
<1>27. CASE SaveFails
  BY <1>27 DEF SaveFails, NextStep, AppliedTo
<1>28. CASE UNCHANGED vars
  BY <1>28 DEF vars, AppliedTo
<1> QED
  BY <1>1, <1>2, <1>3, <1>4, <1>5, <1>6, <1>7, <1>8, <1>9, <1>10, <1>11,
     <1>12, <1>13, <1>14, <1>15, <1>16, <1>17, <1>18, <1>19, <1>20, <1>21,
     <1>22, <1>23, <1>24, <1>25, <1>26, <1>27, <1>28
  DEF Next, Works, BootSteps, CfgSteps, MqttSteps, Platform

-----------------------------------------------------------------------------
(* The default configuration and the sub-devices implement ConfigSource.    *)

\* What the refinement mapping of Source stands for.
B == IF Intact /\ AtRest THEN dflt ELSE NoCfg
L == IF Intact THEN live ELSE NoneLive
V == IF Intact THEN moved ELSE {}

\* While no save fails every step is one of ConfigSource, or changes nothing of B,
\* L and V: leaving rest withdraws B, coming to rest offers it.
LEMMA IntactStep ==
    ASSUME IInv, Intact, Intact', Next
    PROVE  Source!Next \/ UNCHANGED <<B, L, V>>
<1> USE DEF IInv, B, L, V, Source!Next
<1>00. B = (IF AtRest THEN dflt ELSE NoCfg) /\ L = live
       /\ B' = (IF AtRest' THEN dflt' ELSE NoCfg) /\ L' = live'
       /\ V = moved /\ V' = moved'
  OBVIOUS
<1>0. dflt \in BaseCfg /\ NoCfg \notin BaseCfg
  BY ConstantsAssumption DEF TypeOK, BaseCfg, SubCfg
<1>1. CASE Boot
  BY <1>1 DEF Boot, Blank, AtRest
<1>2. CASE BootSaveId
  BY <1>2 DEF BootSaveId, AtRest
<1>3. CASE BootSaveChain
  BY <1>3 DEF BootSaveChain, AtRest
<1>4. CASE BootStart
  BY <1>4, <1>0 DEF BootStart, AtRest, TypeOK, Source!Offer
<1>5. CASE ReplaceList
  BY <1>5 DEF ReplaceList, AtRest
<1>6. CASE SaveId
  BY <1>6 DEF SaveId, AtRest
<1>7. CASE SaveChain
  BY <1>7 DEF SaveChain, AtRest
<1>8. CASE SaveDefaultId
  BY <1>8 DEF SaveDefaultId, AtRest
<1>9. CASE SaveDefaultChain
  BY <1>9 DEF SaveDefaultChain, AtRest
<1>10. CASE SaveList
  BY <1>10 DEF SaveList, AtRest
<1>11. CASE CfgFinish
  BY <1>11, <1>0 DEF CfgFinish, AtRest, TypeOK, Source!Offer
<1>12. CASE SaveMqtt
  BY <1>12 DEF SaveMqtt, AtRest
<1>13. CASE SaveDefaultMqtt
  BY <1>13 DEF SaveDefaultMqtt, AtRest
<1>14. CASE PowerOff
  BY <1>14 DEF PowerOff, PowerDown, Blank, AtRest, NoneLive, Source!Withdraw, Source!AllOff
<1>15. CASE MqttCheckFail
  BY <1>15 DEF MqttCheckFail, AtRest
<1>16. CASE MqttCheckOk
  <2>1. live' = NoneLive /\ ~ AtRest' /\ moved' \subseteq moved
    BY <1>16, StopTasksClears DEF MqttCheckOk, StopTasks, AtRest
  <2> QED BY <2>1 DEF Source!Withdraw, Source!AllOff, NoneLive
<1>17. ASSUME NEW k \in Ids, CfgSame(k) PROVE Source!Next \/ UNCHANGED <<B, L, V>>
  BY <1>17 DEF CfgSame, AtRest
<1>18. ASSUME NEW k \in Ids, CfgRejected(k) PROVE Source!Next \/ UNCHANGED <<B, L, V>>
  BY <1>18 DEF CfgRejected, LeavesTraces, AtRest
<1>19. ASSUME NEW k \in Ids, CfgUnchanged(k) PROVE Source!Next \/ UNCHANGED <<B, L, V>>
  BY <1>19 DEF CfgUnchanged, LeavesTraces, AtRest
<1>20. ASSUME NEW k \in Ids, CfgChanged(k) PROVE Source!Next \/ UNCHANGED <<B, L, V>>
  <2>1. live' = NoneLive /\ ~ AtRest' /\ moved' \subseteq moved
    BY <1>20, StopTasksClears DEF CfgChanged, StopTasks, AtRest
  <2> QED BY <2>1 DEF Source!Withdraw, Source!AllOff, NoneLive
<1>21. ASSUME NEW m \in Brokers, MqttRecv(m) PROVE Source!Next \/ UNCHANGED <<B, L, V>>
  BY <1>21 DEF MqttRecv, AtRest
<1>22. ASSUME NEW d \in Devices, SubOnline(d) PROVE Source!Next \/ UNCHANGED <<B, L, V>>
  <2>1. d \in tasks /\ pc' = pc /\ UNCHANGED <<dflt, moved>> /\ AtRest /\ AtRest'
    BY <1>22 DEF SubOnline, TasksInv, AtRest
  <2>2. PICK cfg \in SubCfg : live' = [live EXCEPT ![d] = cfg] /\ cfg \in {dflt, own[d]}
                             /\ (own[d] # NoCfg \/ cfg = dflt)
    BY <1>22 DEF SubOnline, TypeOK, SubCfg, BaseCfg
  <2>3. /\ cfg.mqtt # dflt.mqtt => d \in moved
        /\ cfg.id \notin SubIds => cfg.id = dflt.id /\ cfg.chain = dflt.chain
    BY <2>2 DEF OwnInv
  <2>a. live'[d] = cfg /\ live' = [live EXCEPT ![d] = live'[d]]
    BY <2>1, <2>2, <2>3 DEF TypeOK
  <2>b. cfg # NoCfg /\ dflt # NoCfg /\ B = dflt /\ B' = dflt
    BY <1>0, <2>1, <2>2, <2>3, ConstantsAssumption
  <2>4. Source!Run(d)
    BY <1>00, <2>1, <2>2, <2>3, <2>a, <2>b DEF Source!Run, Source!Derived
  <2> QED BY <2>4
<1>23. ASSUME NEW d \in Devices, SubPush(d) PROVE Source!Next \/ UNCHANGED <<B, L, V>>
  <2>1. d \in tasks /\ pc' = pc /\ UNCHANGED <<dflt, moved>> /\ AtRest /\ AtRest'
        /\ live[d] # NoCfg /\ own[d] = live[d] /\ (own[d].mqtt # dflt.mqtt => d \in moved)
    BY <1>23 DEF SubPush, TasksInv, AtRest, OwnInv
  <2>2. CASE live' = [live EXCEPT ![d] = NoCfg]
    BY <2>1, <2>2 DEF Source!Leave
  <2>3. ASSUME NEW k \in SubIds, NEW c \in Chains,
               live' = [live EXCEPT ![d] = [live[d] EXCEPT !.id = k, !.chain = c]]
        PROVE  Source!Next
    <3> DEFINE cfg == [live[d] EXCEPT !.id = k, !.chain = c]
    <3>1. live[d] \in SubCfg
      BY <2>1 DEF TypeOK
    <3>2. cfg \in SubCfg /\ (cfg.mqtt # dflt.mqtt => d \in moved) /\ cfg.id \in SubIds
      BY <2>1, <3>1 DEF SubCfg, ChainSection
    <3>3. live' = [live EXCEPT ![d] = cfg]
      BY <2>3
    <3> HIDE DEF cfg
    <3>a. live'[d] = cfg /\ live' = [live EXCEPT ![d] = live'[d]]
      BY <2>1, <3>2, <3>3 DEF TypeOK
    <3>b. cfg # NoCfg /\ dflt # NoCfg /\ B = dflt /\ B' = dflt
      BY <1>0, <2>1, <3>2, <3>3, ConstantsAssumption
    <3>4. Source!Run(d)
      BY <1>00, <2>1, <3>2, <3>3, <3>a, <3>b DEF Source!Run, Source!Derived
    <3> QED BY <3>4
  <2> QED BY <2>2, <2>3, <1>23 DEF SubPush
<1>24. ASSUME NEW d \in Devices, TaskExit(d) PROVE Source!Next \/ UNCHANGED <<B, L, V>>
  <2>1. pc' = pc /\ dflt' = dflt /\ AtRest
    BY <1>24 DEF TaskExit, TasksInv, AtRest
  <2>2. Source!Leave(d)
    BY <1>24, <2>1 DEF TaskExit, AtRest, Source!Leave
  <2> QED BY <2>2
<1>25. ASSUME NEW d \in Devices, SubMqttPush(d) PROVE Source!Next \/ UNCHANGED <<B, L, V>>
  <2>1. AtRest /\ AtRest' /\ dflt' = dflt /\ dflt # NoCfg
    BY <1>25, <1>0 DEF SubMqttPush, TasksInv, AtRest
  <2>2. Source!Move(d)
    BY <1>25, <1>00, <2>1 DEF SubMqttPush, Source!Move
  <2> QED BY <2>2
<1>26. CASE Crash
  BY <1>26 DEF Crash, PowerDown, Blank, AtRest, NoneLive, Source!Withdraw, Source!AllOff
<1>27. CASE SaveFails
  BY <1>27 DEF SaveFails, Intact
<1> QED
  BY <1>1, <1>2, <1>3, <1>4, <1>5, <1>6, <1>7, <1>8, <1>9, <1>10, <1>11,
     <1>12, <1>13, <1>14, <1>15, <1>16, <1>17, <1>18, <1>19, <1>20, <1>21,
     <1>22, <1>23, <1>24, <1>25, <1>26, <1>27
  DEF Next, Works, BootSteps, CfgSteps, MqttSteps, Platform

LEMMA SourceStep == IInv /\ [Next]_vars => [Source!Next]_<<B, L, V>>
<1> SUFFICES ASSUME IInv, [Next]_vars PROVE Source!Next \/ UNCHANGED <<B, L, V>>
  BY DEF B, L, V
<1>1. CASE UNCHANGED vars
  BY <1>1 DEF vars, B, L, V, Intact, AtRest
<1>2. CASE Next
  <2>1. Intact' => Intact
    BY <1>2 DEF Next, Works, BootSteps, CfgSteps, MqttSteps, Platform, Intact, Boot,
       BootSaveId, BootSaveChain, BootStart, CfgSame, CfgRejected, CfgUnchanged,
       LeavesTraces, CfgChanged, ReplaceList, SaveId, SaveChain, SaveDefaultId,
       SaveDefaultChain, SaveList, CfgFinish, MqttRecv, MqttCheckFail, MqttCheckOk,
       SaveMqtt, SaveDefaultMqtt, PowerOff, Crash, SubOnline, SubPush, SubMqttPush, TaskExit,
       SaveFails
  <2>2. CASE Intact /\ Intact'
    BY <1>2, <2>2, IntactStep
  <2>3. CASE Intact /\ ~ Intact'
    BY <2>3 DEF B, L, V, NoneLive, Source!Next, Source!Withdraw, Source!AllOff
  <2>4. CASE ~ Intact /\ ~ Intact'
    BY <2>4 DEF B, L, V
  <2> QED BY <2>1, <2>2, <2>3, <2>4
<1> QED BY <1>1, <1>2

-----------------------------------------------------------------------------
(* The theorems.                                                            *)

\* Memory, both files and the sub-devices' configurations keep their type: in
\* particular no rejected chain item is ever copied into the running chain_cfg.
THEOREM TypeCorrect == Spec => []TypeOK
<1>1. IInv => TypeOK
  BY DEF IInv
<1> QED BY <1>1, IInvHolds, PTL

\* No task runs for a device outside the gateway's list (GatewayDevlistStop
\* before the list is replaced).
THEOREM TasksListed == Spec => []TasksAreListed
<1>1. IInv => TasksAreListed
  BY DEF IInv, TasksInv, TasksAreListed
<1> QED BY <1>1, IInvHolds, PTL

\* Unless a save failed, a gateway at rest has DEV_DEFAULT_CFG agree with its own
\* file, whatever was pushed and wherever the power was lost.
THEOREM DefaultFollows == Spec => []DefaultFollowsGateway
<1>1. IInv => DefaultFollowsGateway
  BY DEF IInv, FilesInv, SyncedSteps, Synced, DefaultFollowsGateway
<1> QED BY <1>1, IInvHolds, PTL

\* Unless a save failed, a sub-device on line runs with the id and the chain
\* section of the present default configuration unless it had a push of its own,
\* and with its MQTT server unless its own request moved it to another one.
THEOREM SubDevicesFollow == Spec => []SubDevicesInherit
<1>1. IInv => SubDevicesInherit
  BY DEF IInv, TasksInv, OwnInv, SubDevicesInherit
<1> QED BY <1>1, IInvHolds, PTL

\* DEV_DEFAULT_CFG is rewritten only while no sub-device process exists and,
\* unless a save failed, no file of one that would outlive the change.
THEOREM DefaultQuiet == Spec => DefaultChangesQuietly
<1>1. IInv /\ [Next]_vars =>
         [dflt' # dflt => tasks = {} /\ (Intact => own = NoneLive)]_vars
  <2> SUFFICES ASSUME IInv, [Next]_vars, dflt' # dflt
               PROVE  tasks = {} /\ (Intact => own = NoneLive)
    OBVIOUS
  <2>1. BootSaveId \/ BootSaveChain \/ SaveDefaultId \/ SaveDefaultChain
          \/ SaveDefaultMqtt
    BY DEF Next, Works, BootSteps, CfgSteps, MqttSteps, Platform, vars, Boot, BootStart,
           CfgSame, CfgRejected, CfgUnchanged, CfgChanged, ReplaceList, SaveId,
           SaveChain, SaveList, CfgFinish, MqttRecv, MqttCheckFail, MqttCheckOk,
           SaveMqtt, PowerOff, Crash, PowerDown, SubOnline, SubPush, SubMqttPush,
           TaskExit, SaveFails
  <2>2. tasks = {}
    BY <2>1 DEF IInv, TasksInv, BootSaveId, BootSaveChain, SaveDefaultId,
                SaveDefaultChain, SaveDefaultMqtt
  <2>3. ASSUME Intact, NEW d \in Devices, own[d] # NoCfg PROVE FALSE
    <3>1. /\ pc \in {"off", "failed", "bootId", "bootChain", "bootStart", "idle", "check"}
          /\ Synced
      BY <2>3 DEF IInv, OwnInv
    <3>2. dflt' = dflt
      BY <2>1, <2>3, <3>1 DEF IInv, TypeOK, BaseCfg, FilesInv, Synced, BootSaveId,
         BootSaveChain, SaveDefaultId, SaveDefaultChain, SaveDefaultMqtt
    <3> QED BY <3>2
  <2>4. Intact => own = NoneLive
    BY <2>3 DEF IInv, TypeOK, NoneLive
  <2> QED BY <2>2, <2>4
<1> QED BY <1>1, IInvHolds, PTL DEF Spec, DefaultChangesQuietly

\* Without a failed save or a loss of power both files name the server the
\* gateway at rest uses.
THEOREM BrokerShared == Spec => []BrokerIsShared
<1>1. BrokerInv => BrokerIsShared
  BY DEF BrokerInv, BrokerIsShared
<1>2. IInv => TypeOK
  BY DEF IInv
<1> QED BY <1>1, <1>2, IInvHolds, InitBrokerInv, StepBrokerInv, PTL DEF Spec

\* A push answered with success is what the gateway at rest runs with, across
\* restarts, and until the next one also if a save of it failed.
THEOREM AckedApplied == Spec => []AckedIsApplied
<1>1. IInv /\ RestInv /\ [Next]_vars => RestInv'
  BY StepPushInv, StepSavedInv, StepAckInv DEF RestInv
<1>2. RestInv => AckedIsApplied
  BY DEF RestInv, AckInv, Clean, AckedIsApplied, Applied
<1> QED BY <1>1, <1>2, IInvHolds, InitRestInv, PTL DEF Spec

\* To its sub-devices the gateway is a source of one configuration, withdrawn
\* while it is being replaced: GatewayConfig implements ConfigSource.
THEOREM SourceImplemented == Spec => InheritsOneSource
<1>1. Init => Source!Init
  BY DEF Init, NoneLive, Intact, AtRest, Source!Init, Source!AllOff
<1>2. IInv /\ [Next]_vars => [Source!Next]_<<B, L, V>>
  BY SourceStep
<1> QED BY <1>1, <1>2, IInvHolds, PTL DEF Spec, InheritsOneSource, Source!Spec, B, L, V
=============================================================================
