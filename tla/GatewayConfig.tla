--------------------------- MODULE GatewayConfig ---------------------------
(***************************************************************************)
(* How the gateway takes a configuration from the platform, keeps it in    *)
(* two files and restarts its sub-devices on it (gateway.c, dev_cfg.c).    *)
(*                                                                         *)
(* One thread (the MQTT loop of the gateway) runs every handler, so a      *)
(* handler is never interleaved with another one; what does come between   *)
(* two of its file writes is a loss of power.  Each write of a file is     *)
(* therefore a step of its own, and pc says which write comes next.        *)
(*                                                                         *)
(* The two files:  file is the gateway's own cfg_file, dflt is             *)
(* DEV_DEFAULT_CFG, from which a sub-device without a file of its own is   *)
(* configured.  mem is the DEV_DRIVER of the running gateway.              *)
(***************************************************************************)
EXTENDS Naturals, Sequences

CONSTANTS
    Ids,          \* configuration ids (ResqId) the platform pushes to the gateway
    SubIds,       \* those it pushes to a sub-device
    Devices,      \* DEVICE_INFO entries a device list may hold
    Chains,       \* complete block chain sections (CHAIN_CFG)
    Brokers,      \* MQTT servers
    Content,      \* Content[k]: the sections the push with id k carries
    NoId,         \* cfg_id of a gateway that never had a push
    NoDevice,     \* stands for the missing DevList key of a push
    BadItem,      \* a chain item device_chain_cfg_parse rejects
    NoChain,      \* no CfgChain key; CHAIN_CFG all zero
    Incomplete,   \* a CfgChain written from an all-zero CHAIN_CFG
    NoCfg,        \* no configuration file, or not on line
    InitChains,   \* chain sections default.json may be provisioned with
    InitBroker    \* its MQTT section

ChainSection == Chains \union {NoChain, Incomplete}
BaseCfg == [id : Ids \union {NoId}, chain : ChainSection, mqtt : Brokers]
SubCfg == [id : Ids \union SubIds \union {NoId}, chain : ChainSection, mqtt : Brokers]

\* The device list of a push without the DevList key.
NoList == {NoDevice}

ASSUME ConstantsAssumption ==
    /\ NoId \notin Ids /\ SubIds \intersect (Ids \union {NoId}) = {}
    /\ NoDevice \notin Devices
    /\ BadItem \notin Chains
    /\ NoChain \notin Chains /\ Incomplete \notin Chains /\ NoChain # Incomplete
    /\ NoCfg \notin SubCfg
    /\ InitChains \subseteq Chains \union {NoChain}
    /\ InitBroker \in Brokers

ASSUME ContentAssumption ==
    Content \in [Ids -> [chain : Seq(Chains \union {BadItem}),
                         list  : (SUBSET Devices) \union {NoList}]]

VARIABLES
    mem,     \* cfg_id, chain_cfg, mqtt_cfg, dev_list of the running gateway
    file,    \* the same four in cfg_file
    dflt,    \* id, chain and mqtt in DEV_DEFAULT_CFG
    tasks,   \* devices whose task (a process of its own) is running
    own,     \* own[d]: the configuration file of sub-device d
    live,    \* live[d]: what the process of sub-device d runs with
    pc,      \* what the gateway does next
    req,     \* id of the push being handled
    broker,  \* MQTT server of the request being handled
    acked,   \* last id answered with STATUS_SUCCESS
    moved,   \* sub-devices that changed their MQTT server since they inherited
             \* one (history)
    faults   \* what went wrong so far (history)

vars == <<mem, file, dflt, tasks, own, live, pc, req, broker, acked, moved, faults>>

\* A loss of power, or a restart after a save failed; a save that returned 1; a
\* push that was not accepted, or found to change nothing, but left its traces
\* in memory; a default.json without a chain section.
Faults == {"power", "write", "traces", "unprovisioned"}

\* No save has failed so far.
Intact == "write" \notin faults

Steps == {"off", "failed", "bootId", "bootChain", "bootStart", "idle",
          "replace", "id", "chain", "dfltId", "dfltChain", "list", "finish",
          "check", "mqttFile", "mqttDflt", "powerOff"}

-----------------------------------------------------------------------------
(* DeviceCfgChainParse walks over the chain items of a message and copies   *)
(* each valid one that differs into the running chain_cfg; it returns the   *)
(* result of the LAST item.                                                *)

\* Mutant: an item that does not parse is copied like any other.
ValidUpToUnchecked(items, n) == 1..n

ValidUpTo(items, n) == {i \in 1..n : items[i] # BadItem}

ChainUpTo(cur, items, n) ==
    IF ValidUpTo(items, n) = {}
    THEN cur
    ELSE items[CHOOSE i \in ValidUpTo(items, n) :
                   \A j \in ValidUpTo(items, n) : j <= i]

ChainAfter(cur, items) == ChainUpTo(cur, items, Len(items))

ChainResult(cur, items) ==
    IF items = <<>> THEN "equal"
    ELSE IF items[Len(items)] = BadItem THEN "rejected"
    ELSE IF items[Len(items)] = ChainUpTo(cur, items, Len(items) - 1)
    THEN "equal" ELSE "changed"

\* DeviceCfgChainSave of an all-zero chain_cfg writes {"OnChain":"no"}, which
\* device_chain_cfg_parse rejects later on: its guard "flag = 0" assigns.
Saved(chain) == IF chain = NoChain THEN Incomplete ELSE chain

-----------------------------------------------------------------------------
Blank == [id |-> NoId, chain |-> NoChain, mqtt |-> InitBroker, list |-> {}]
NoneLive == [d \in Devices |-> NoCfg]

Init ==
    /\ mem = Blank
    /\ \E c \in InitChains :
          /\ file = [id |-> NoId, chain |-> c, mqtt |-> InitBroker, list |-> {}]
          /\ dflt = [id |-> NoId, chain |-> c, mqtt |-> InitBroker]
          /\ faults = IF c = NoChain THEN {"unprovisioned"} ELSE {}
    /\ tasks = {}
    /\ own = NoneLive
    /\ moved = {}
    /\ live = NoneLive
    /\ pc = "off"
    /\ req = NoId
    /\ broker = InitBroker
    /\ acked = NoId

\* Power is gone: every process stops, the files stay.
PowerDown ==
    /\ pc' = "off"
    /\ mem' = Blank
    /\ tasks' = {}
    /\ live' = NoneLive
    /\ req' = NoId
    /\ broker' = InitBroker
    /\ UNCHANGED <<file, dflt, own, moved, acked>>

Crash == pc # "off" /\ PowerDown /\ faults' = faults \union {"power"}

-----------------------------------------------------------------------------
(* GatewayCfgInit, and the start of the tasks by the gateway's main.        *)

Boot ==
    /\ pc = "off"
    /\ IF file.chain = Incomplete
       THEN /\ mem' = [Blank EXCEPT !.id = file.id, !.mqtt = file.mqtt]
            /\ pc' = "failed"
       ELSE /\ mem' = file
            /\ pc' = "bootId"
    /\ UNCHANGED <<file, dflt, tasks, own, moved, live, req, broker, acked, faults>>

BootSaveId ==
    /\ pc = "bootId"
    /\ dflt' = [dflt EXCEPT !.id = mem.id]
    /\ pc' = "bootChain"
    /\ UNCHANGED <<mem, file, tasks, own, moved, live, req, broker, acked, faults>>

BootSaveChain ==
    /\ pc = "bootChain"
    /\ dflt' = [dflt EXCEPT !.chain = Saved(mem.chain)]
    /\ pc' = "bootStart"
    /\ UNCHANGED <<mem, file, tasks, own, moved, live, req, broker, acked, faults>>

\* GatewayDevlistStart: ThreadStart may fail for any device, and the
\* failure is not reported.
StartTasks == \E started \in SUBSET mem.list : tasks' = tasks \union started

\* GatewayDevlistStop: the task of every listed device is stopped and its
\* configuration file removed, also when no running task was found.
\* Mutants: the tasks of the list are left alone; their files are left behind.
StopTasksNone == UNCHANGED <<tasks, own, moved, live>>

StopTasksKeepFiles ==
    /\ tasks' = tasks \ mem.list
    /\ live' = [d \in Devices |-> IF d \in mem.list THEN NoCfg ELSE live[d]]
    /\ UNCHANGED <<own, moved>>

StopTasks ==
    /\ tasks' = tasks \ mem.list
    /\ own' = [d \in Devices |-> IF d \in mem.list THEN NoCfg ELSE own[d]]
    /\ moved' = moved \ mem.list
    /\ live' = [d \in Devices |-> IF d \in mem.list THEN NoCfg ELSE live[d]]

BootStart ==
    /\ pc = "bootStart"
    /\ StartTasks
    /\ pc' = "idle"
    /\ UNCHANGED <<mem, file, dflt, own, moved, live, req, broker, acked, faults>>

-----------------------------------------------------------------------------
(* GatewayCfgRecvCb: a configuration push.                                  *)

CfgSame(k) ==
    /\ pc = "idle"
    /\ k = mem.id
    /\ acked' = k
    /\ UNCHANGED <<mem, file, dflt, tasks, own, moved, live, pc, req, broker, faults>>

\* The running chain section was changed, and nothing is saved.
LeavesTraces(k) ==
    faults' = IF ChainAfter(mem.chain, Content[k].chain) = mem.chain THEN faults
              ELSE faults \union {"traces"}

CfgRejected(k) ==
    /\ pc = "idle"
    /\ k # mem.id
    /\ ChainResult(mem.chain, Content[k].chain) = "rejected"
    /\ mem' = [mem EXCEPT !.chain = ChainAfter(@, Content[k].chain)]
    /\ LeavesTraces(k)
    /\ UNCHANGED <<file, dflt, tasks, own, moved, live, pc, req, broker, acked>>

CfgUnchanged(k) ==
    /\ pc = "idle"
    /\ k # mem.id
    /\ ChainResult(mem.chain, Content[k].chain) = "equal"
    /\ Content[k].list = NoList
    /\ mem' = [mem EXCEPT !.chain = ChainAfter(@, Content[k].chain)]
    /\ acked' = k
    /\ LeavesTraces(k)
    /\ UNCHANGED <<file, dflt, tasks, own, moved, live, pc, req, broker>>

CfgChanged(k) ==
    /\ pc = "idle"
    /\ k # mem.id
    /\ \/ ChainResult(mem.chain, Content[k].chain) = "changed"
       \/ /\ ChainResult(mem.chain, Content[k].chain) = "equal"
          /\ Content[k].list # NoList
    /\ mem' = [mem EXCEPT !.chain = ChainAfter(@, Content[k].chain)]
    /\ StopTasks
    /\ req' = k
    /\ pc' = IF Content[k].list = NoList THEN "id" ELSE "replace"
    /\ UNCHANGED <<file, dflt, broker, acked, faults>>

\* gateway_devlist_delete removes the key from the file only if there was a
\* list; then the parsed list becomes the running one.
ReplaceList ==
    /\ pc = "replace"
    /\ file' = [file EXCEPT !.list = IF mem.list = {} THEN @ ELSE {}]
    /\ mem' = [mem EXCEPT !.list = Content[req].list]
    /\ pc' = "id"
    /\ UNCHANGED <<dflt, tasks, own, moved, live, req, broker, acked, faults>>

SaveId ==
    /\ pc = "id"
    /\ mem' = [mem EXCEPT !.id = req]
    /\ file' = [file EXCEPT !.id = req]
    /\ pc' = "chain"
    /\ UNCHANGED <<dflt, tasks, own, moved, live, req, broker, acked, faults>>

SaveChain ==
    /\ pc = "chain"
    /\ file' = [file EXCEPT !.chain = Saved(mem.chain)]
    /\ pc' = "dfltId"
    /\ UNCHANGED <<mem, dflt, tasks, own, moved, live, req, broker, acked, faults>>

SaveDefaultId ==
    /\ pc = "dfltId"
    /\ dflt' = [dflt EXCEPT !.id = mem.id]
    /\ pc' = "dfltChain"
    /\ UNCHANGED <<mem, file, tasks, own, moved, live, req, broker, acked, faults>>

\* Mutant: the chain section is not copied to DEV_DEFAULT_CFG.
SaveDefaultChainForgotten ==
    /\ pc = "dfltChain"
    /\ pc' = "list"
    /\ UNCHANGED <<mem, file, dflt, tasks, own, moved, live, req, broker, acked, faults>>

SaveDefaultChain ==
    /\ pc = "dfltChain"
    /\ dflt' = [dflt EXCEPT !.chain = Saved(mem.chain)]
    /\ pc' = "list"
    /\ UNCHANGED <<mem, file, tasks, own, moved, live, req, broker, acked, faults>>

\* Mutant: the new list is not written to the file.
SaveListForgotten ==
    /\ pc = "list"
    /\ pc' = "finish"
    /\ UNCHANGED <<mem, file, dflt, tasks, own, moved, live, req, broker, acked, faults>>

\* gateway_devlist_save returns at once when dev_list is NULL.
SaveList ==
    /\ pc = "list"
    /\ file' = [file EXCEPT !.list = IF mem.list = {} THEN @ ELSE mem.list]
    /\ pc' = "finish"
    /\ UNCHANGED <<mem, dflt, tasks, own, moved, live, req, broker, acked, faults>>

\* DevicePkgCfgRes with STATUS_SUCCESS, then GatewayDevlistStart.
CfgFinish ==
    /\ pc = "finish"
    /\ acked' = req
    /\ StartTasks
    /\ req' = NoId
    /\ pc' = "idle"
    /\ UNCHANGED <<mem, file, dflt, own, moved, live, broker, faults>>

-----------------------------------------------------------------------------
(* GatewayMqttCfgRecvCb: a change of MQTT server, tried out first, ends in  *)
(* DevicePowerOff (mqtt_rpc_process).                                       *)

MqttRecv(m) ==
    /\ pc = "idle"
    /\ m # mem.mqtt
    /\ broker' = m
    /\ pc' = "check"
    /\ UNCHANGED <<mem, file, dflt, tasks, own, moved, live, req, acked, faults>>

MqttCheckFail ==
    /\ pc = "check"
    /\ broker' = InitBroker
    /\ pc' = "idle"
    /\ UNCHANGED <<mem, file, dflt, tasks, own, moved, live, req, acked, faults>>

\* Mutant: the sub-devices stay on line while the MQTT section changes.
MqttCheckOkNoStop ==
    /\ pc = "check"
    /\ mem' = [mem EXCEPT !.mqtt = broker]
    /\ pc' = "mqttFile"
    /\ UNCHANGED <<file, dflt, tasks, own, moved, live, req, broker, acked, faults>>

MqttCheckOk ==
    /\ pc = "check"
    /\ mem' = [mem EXCEPT !.mqtt = broker]
    /\ StopTasks
    /\ pc' = "mqttFile"
    /\ UNCHANGED <<file, dflt, req, broker, acked, faults>>

\* Mutants: one of the two files is forgotten.
SaveMqttForgotten ==
    /\ pc = "mqttFile"
    /\ pc' = "mqttDflt"
    /\ UNCHANGED <<mem, file, dflt, tasks, own, moved, live, req, broker, acked, faults>>

SaveDefaultMqttForgotten ==
    /\ pc = "mqttDflt"
    /\ pc' = "powerOff"
    /\ UNCHANGED <<mem, file, dflt, tasks, own, moved, live, req, broker, acked, faults>>

SaveMqtt ==
    /\ pc = "mqttFile"
    /\ file' = [file EXCEPT !.mqtt = mem.mqtt]
    /\ pc' = "mqttDflt"
    /\ UNCHANGED <<mem, dflt, tasks, own, moved, live, req, broker, acked, faults>>

SaveDefaultMqtt ==
    /\ pc = "mqttDflt"
    /\ dflt' = [dflt EXCEPT !.mqtt = mem.mqtt]
    /\ pc' = "powerOff"
    /\ UNCHANGED <<mem, file, tasks, own, moved, live, req, broker, acked, faults>>

PowerOff ==
    /\ pc = "powerOff"
    /\ PowerDown
    /\ faults' = IF Intact THEN faults ELSE faults \union {"power"}

-----------------------------------------------------------------------------
(* Every save reads the file, adds its section and writes it back; if one   *)
(* of these fails it returns 1, and the callers ignore the result.          *)

NextStep ==
    [bootId |-> "bootChain", bootChain |-> "bootStart", replace |-> "id",
     id |-> "chain", chain |-> "dfltId", dfltId |-> "dfltChain",
     dfltChain |-> "list", list |-> "finish", mqttFile |-> "mqttDflt",
     mqttDflt |-> "powerOff"]

SaveFails ==
    /\ pc \in DOMAIN NextStep
    /\ pc \in {"replace", "list"} => mem.list # {}
    /\ pc' = NextStep[pc]
    /\ mem' = [mem EXCEPT !.id = IF pc = "id" THEN req ELSE @,
                         !.list = IF pc = "replace" THEN Content[req].list ELSE @]
    /\ faults' = faults \union {"write"}
    /\ UNCHANGED <<file, dflt, tasks, own, moved, live, req, broker, acked>>

-----------------------------------------------------------------------------
(* The sub-devices, each a process of its own.                              *)

\* DeviceHandleRegister: a sub-device without a file starts from the default
\* configuration; its CfgInit fails on an incomplete chain section.
SubOnline(d) ==
    /\ d \in tasks
    /\ live[d] = NoCfg
    /\ LET cfg == IF own[d] = NoCfg THEN dflt ELSE own[d]
       IN  /\ cfg.chain # Incomplete
           /\ own' = [own EXCEPT ![d] = cfg]
           /\ live' = [live EXCEPT ![d] = cfg]
    /\ UNCHANGED <<mem, file, dflt, tasks, moved, pc, req, broker, acked, faults>>

\* A push to the sub-device itself, as its CfgRecvCb applies it: the id, then
\* the chain section, each saved in its own file; the MQTT section has a request
\* of its own (SubMqttPush).  The process may die between the two writes.
SubPush(d) ==
    /\ live[d] # NoCfg
    /\ \E k \in SubIds \ {live[d].id}, c \in Chains :
          LET new == [live[d] EXCEPT !.id = k, !.chain = c]
          IN  \/ /\ live' = [live EXCEPT ![d] = new]
                 /\ own' = [own EXCEPT ![d] = new]
                 /\ tasks' = tasks
              \/ /\ live' = [live EXCEPT ![d] = NoCfg]
                 /\ own' = [own EXCEPT ![d].id = k]
                 /\ tasks' = tasks \ {d}
    /\ UNCHANGED <<mem, file, dflt, moved, pc, req, broker, acked, faults>>

\* A change of MQTT server for the sub-device itself, by its own changeMQTTBroker
\* request: tried out, saved in its own file, and then the process powers off
\* (mqtt_rpc_process).  A failed trial changes nothing, and so does a failed
\* save before the process ends (TaskExit).
SubMqttPush(d) ==
    /\ live[d] # NoCfg
    /\ \E m \in Brokers \ {live[d].mqtt} : own' = [own EXCEPT ![d].mqtt = m]
    /\ moved' = moved \union {d}
    /\ live' = [live EXCEPT ![d] = NoCfg]
    /\ tasks' \in {tasks, tasks \ {d}}
    /\ UNCHANGED <<mem, file, dflt, pc, req, broker, acked, faults>>

TaskExit(d) ==
    /\ d \in tasks
    /\ tasks' = tasks \ {d}
    /\ live' = [live EXCEPT ![d] = NoCfg]
    /\ UNCHANGED <<mem, file, dflt, own, moved, pc, req, broker, acked, faults>>

-----------------------------------------------------------------------------
BootSteps == Boot \/ BootSaveId \/ BootSaveChain \/ BootStart

CfgSteps ==
    \/ ReplaceList \/ SaveId \/ SaveChain \/ SaveDefaultId
    \/ SaveDefaultChain \/ SaveList \/ CfgFinish

MqttSteps == SaveMqtt \/ SaveDefaultMqtt \/ PowerOff

Platform ==
    \/ \E k \in Ids : CfgSame(k) \/ CfgRejected(k) \/ CfgUnchanged(k) \/ CfgChanged(k)
    \/ \E m \in Brokers : MqttRecv(m)

Works ==
    \/ BootSteps \/ CfgSteps \/ MqttSteps
    \/ MqttCheckFail \/ MqttCheckOk
    \/ Platform
    \/ \E d \in Devices : SubOnline(d) \/ SubPush(d) \/ SubMqttPush(d) \/ TaskExit(d)
    \/ Crash

Next == Works \/ SaveFails

\* The gateway's own steps are not delayed for ever: each is straight-line
\* code.  Nothing is assumed of the platform, the broker or the tasks.
Fairness == WF_vars(BootSteps \/ CfgSteps \/ MqttSteps \/ SaveFails)

Spec == Init /\ [][Next]_vars /\ Fairness

-----------------------------------------------------------------------------
(* Properties                                                              *)

\* Types of the configuration in memory, in the two files and in the tasks; the
\* chain section in memory is complete or all zero (device_chain_cfg_parse).
TypeOK ==
    /\ mem \in [id : Ids \union {NoId}, chain : Chains \union {NoChain},
                mqtt : Brokers, list : SUBSET Devices]
    /\ file \in [id : Ids \union {NoId}, chain : ChainSection,
                 mqtt : Brokers, list : SUBSET Devices]
    /\ dflt \in BaseCfg
    /\ tasks \in SUBSET Devices
    /\ own \in [Devices -> SubCfg \union {NoCfg}]
    /\ moved \in SUBSET Devices
    /\ live \in [Devices -> SubCfg \union {NoCfg}]
    /\ pc \in Steps
    /\ req \in Ids \union {NoId}
    /\ broker \in Brokers
    /\ acked \in Ids \union {NoId}
    /\ faults \in SUBSET Faults

\* No task runs for a device that is not in the gateway's device list, at any
\* moment of a push that replaces the list: a removed device does not go on
\* reporting (gateway.c, GatewayDevlistStop before the list is replaced).
TasksAreListed == tasks \subseteq mem.list

\* Whenever the gateway is at rest the default configuration names the id and
\* the chain section of the gateway's own file, also after a power failure
\* between any two of the writes (gateway.c:1485 and GatewayCfgInit).
DefaultFollowsGateway ==
    Intact /\ pc = "idle" => dflt.id = file.id /\ dflt.chain = Saved(file.chain)

\* A sub-device on line talks to the gateway's MQTT server unless it was moved to
\* another one by a request of its own, and has the id and the chain section the
\* default configuration names now unless it had a push of its own: no process
\* survives, and no file outlives, a change of the default (GatewayDevlistStop
\* before every write of DEV_DEFAULT_CFG).
SubDevicesInherit ==
    Intact => \A d \in Devices : live[d] # NoCfg =>
        /\ live[d].mqtt # dflt.mqtt => d \in moved
        /\ live[d].id \notin SubIds => live[d].id = dflt.id /\ live[d].chain = dflt.chain

\* The default configuration is rewritten only while no sub-device process is
\* running, so none can read it between the write of the id and of the chain;
\* and, unless a save failed, only when no file of a sub-device is left, so that
\* the change reaches every one of them.
DefaultChangesQuietly ==
    [][dflt' # dflt => tasks = {} /\ (Intact => own = NoneLive)]_vars

\* To its sub-devices the gateway is the ConfigSource of the default
\* configuration while it is at rest, or tries a broker out, and withdraws it
\* for all of the rest: they never see one of the intermediate states.
AtRest == pc \in {"idle", "check"}

Source == INSTANCE ConfigSource WITH
    Cfgs <- BaseCfg,
    base <- IF Intact /\ AtRest THEN dflt ELSE NoCfg,
    live <- IF Intact THEN live ELSE NoneLive,
    moved <- IF Intact THEN moved ELSE {}
InheritsOneSource == Source!Spec

\* What the push with id k asks for is what cfg says, and the gateway runs with.
AppliedTo(k, cfg) ==
    LET s == Content[k].chain
    IN  /\ s # <<>> => s[Len(s)] \in {BadItem, cfg.chain}
        /\ Content[k].list # NoList => cfg.list = Content[k].list

Applied(k) == AppliedTo(k, mem)

\* "The same id means the same configuration, nothing needs updating"
\* (gateway.c:1424): what a gateway at rest runs with is what its id stands for.
SameIdIsSameConfig == pc = "idle" /\ mem.id # NoId => Applied(mem.id)

\* A configuration answered with success is the one the gateway runs with
\* whenever it is at rest, across every restart, until it answers another one,
\* and until the next restart also if a save of it failed; unless the power
\* failed on the way, or another push left its traces.
AckedIsApplied ==
    faults \subseteq {"unprovisioned", "write"} /\ pc = "idle" /\ acked # NoId =>
        Applied(acked)

\* Both files name the MQTT server the gateway uses, unless a save or the power
\* failed: start-up does not repair the second file.
BrokerIsShared ==
    faults \intersect {"power", "write"} = {} /\ pc = "idle" =>
        file.mqtt = mem.mqtt /\ dflt.mqtt = mem.mqtt

\* A new MQTT server that passed the trial connection, and a push that was
\* accepted, take effect: the gateway comes to rest running with them, unless
\* the power fails or, for the server, the gateway was not provisioned.
AcceptedTakesEffect ==
    /\ \A m \in Brokers :
          (pc = "mqttFile" /\ broker = m) ~>
              \/ faults \intersect {"power", "unprovisioned"} # {}
              \/ pc = "idle" /\ mem.mqtt = m
    /\ \A k \in Ids :
          (pc = "id" /\ req = k) ~>
              \/ "power" \in faults
              \/ pc = "idle" /\ mem.id = k /\ acked = k
=============================================================================
