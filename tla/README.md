# A verification of prome_device

TLA+ models of the device software in `src/src/src_c` and of the proof library in `src/src/bplib`, checked with TLC and, for the parts where that pays, proved with TLAPS.

## 1. The system

`prome_device` is the software of an IoT gateway ("box") and of the devices behind it: temperature and humidity sensors, an IP camera, an RFID reader, a PLC. Gateway and devices are separate processes, each with a `DEV_DRIVER` (configuration, status, MQTT connection) and a set of callbacks (`CfgInit`, `CfgRecvCb`, `Online`, `Offline`, `PowerOff`). The processes talk to one platform over MQTT. A side program shows proxy re-encryption: receivers obtain a sender's data key through a proxy.

Every MQTT connection has one network thread (libmosquitto); all message handlers of a process run on it. Next to it a process has a connect thread, a sampling or log thread, and a timer thread for rules.

### Inventory

| Component | Source | State | Operations | What is hard | What makes it correct |
|---|---|---|---|---|---|
| Gateway configuration | `device/gateway/gateway.c` | id, chain section, MQTT section, device list in memory and in `cfg_file`; the default file; running tasks | start-up, configuration push, MQTT push, start and stop of tasks; a sub-device's own pushes | several file writes per push; loss of power between them; writes that fail unnoticed; other processes reading the default file | files agree after any crash; no task of a removed device; no process or file of a sub-device outliving a change of the default |
| Configuration sections | `device/comm/dev_cfg.c` | sections in memory and in a JSON file | parse, compare, save, delete per section | partly applied lists; saves that fail; read-modify-write of the file | what is answered is what runs |
| Sensor rule | `device/comm/dev_rule.c`, `tempsensor.c`, `humsensor.c` | rule name, algorithm list, timer | push, start, stop, timer callback | the timer thread works on structs that the push frees | one rule at a time; no use after free; the file follows the push |
| Sampling and tables | `tempsensor_db.c`, `humsensor_db.c`, `database/csqlite3.c` | rows of samples, global column table | insert, search by time, average, retry on a locked file | two threads build their statements from one column table that points into their stacks | a window's average is over its own samples |
| Device messages | `device/comm/dev_pkg.c`, `blockchain.c` | `dev_status` | report, rule result, time request, answer to a push, each perhaps put on chain first | a status shared by three threads without a lock, set by a failure and cleared by any package sent | nothing is reported as proved that is not; reports resume after a failure |
| MQTT session | `protocol/mqtt/mosquitto_api.c`, `device/comm/dev_mqtt.c` | client, user data, two semaphores, subscriptions | connect, reconnect, subscribe, publish, disconnect, dispatch by topic | callbacks racing with the connecting and the disconnecting thread; waits with no limit | a reported session is a session; subscribed again after every reconnect; objects freed last |
| Proxy re-encryption | `pre/pre_api.c` | none (keys are arguments) | key generation, two encryptions, decryption | algebra | the addressed receiver decrypts, others do not |
| Re-encryption programs | `pre/pre_sender.c`, `pre_proxy.c`, `pre_receiver.c` | key files, inboxes | request, forward, answer, re-encrypt, decrypt, replace the key | a key replaced while it is read; lost messages; restarts | receivers never go back to an older key |
| Bullet proof library | `src/src/bplib` (Go) | none (one call, one check) | clean and choose standards, prove, verify | two distances and their bits in one aggregated argument that prover and verifier compute in different ways | accepted only inside the standard; inside it always accepted |
| Upgrade, proof creation, HTTP, TLV, Modbus, algorithms | `upgrade.c`, `bulletproof.c`, `protocol/`, `algorithm/` | none or local | sequential | formats, numerics | not state machines |
| Third party | `protocol/cjson`, `protocol/nanopb`, `bplib/crypto`, `common`, `rlp`, `pkg`, `include`, `lib` | | | | outside this project |

Several libraries the code calls are not in the repository (timers, threads, `ConfigGet`/`ConfigPut`, file helpers, `main` of each process, libmosquitto, SQLite). They are modelled from how the code uses them, and a definition that stands only for them is marked `external` in the map.

Interactions: the platform's messages reach `mqtt_receiver_cb`, which dispatches by topic to the device's callback (direct call, same thread). The gateway starts and stops device processes and passes them configuration only through the default file. A sensor's push handler and its timer thread share the `DEV_DRIVER`; its sampling and its timer thread share the column table, the SQLite file and `dev_status`. The rule's proof is a call of the Go library or of a server. The re-encryption programs share nothing but the broker; inside the sender, handler and update thread share the file `./sym_key`.

## 2. Modules

| Module | Models | Composes |
|---|---|---|
| `GatewayConfig` | configuration life cycle of the gateway, two files, sub-device tasks | gateway and sub-devices |
| `ConfigSource` | abstract: what sub-devices may rely on | |
| `SensorRule` | rule of a sensor against its timer thread, its file, restarts | handler and timer thread |
| `SampleTable` | samples and averages over the shared column table and the locked file | sampling and timer thread |
| `DeviceReport` | what a device sends and puts on chain, and the status its threads share | sampling, timer, time and MQTT threads |
| `MqttSession` | one MQTT session or trial | connect, network and disconnecting thread |
| `MqttLink` | abstract: what a device may rely on from its session | |
| `PreCipher` | the re-encryption scheme over any field | sender, proxy, receivers |
| `PreExchange` | the three programs over a QoS 0 broker, key replacement, faults | three programs and a broker |
| `BulletProof` | standards, provers and verifiers of the proof library | prover and verifier |
| `…_proofs` | the theorems about the module of that name | |
| `MC…` | the content of pushes, the values and the arithmetic of TLC's instances | |

In every module a definition whose comment begins "Mutant" or "A slip of the next" is a plausible error in the code it stands before; it is not part of the specification, and each property is checked to fail when such a definition is put in place.

### GatewayConfig and ConfigSource

`mem` is the `DEV_DRIVER` (`cfg_id`, `chain_cfg`, `mqtt_cfg`, `dev_list`), `file` the gateway's `cfg_file`, `dflt` the file `DEV_DEFAULT_CFG`, `tasks` the device processes, `own[d]` a device's own file, `live[d]` what a device on line runs with. All handlers run on one thread, so `pc` names the next file write of the handler that is running; each `Device…Save` is one step, because a loss of power (`Crash`) can come between any two, and each may fail (`SaveFails`), which its caller does not notice. Parsing a push applies chain items in order into `mem` (`ChainUpTo`) exactly as `device_chain_cfg_parse` does, which is why a rejected item leaves the earlier ones behind. `CfgSame`, `CfgRejected`, `CfgUnchanged`, `CfgChanged` are the exits of `GatewayCfgRecvCb`. `MqttRecv`, `MqttCheckFail`, `MqttCheckOk`, `SaveMqtt`, `SaveDefaultMqtt`, `PowerOff` are `GatewayMqttCfgRecvCb`, whose trial connection either fails or succeeds. `BootSaveId` and `BootSaveChain` are the two copies to the default file at the end of `GatewayCfgInit`. `Saved` is the effect of the test `flag = 0` (dev_cfg.c:689), an assignment where a comparison is meant: an all-zero chain section is written as one that start-up rejects.

The sub-devices are processes of their own. `SubOnline` is `DeviceHandleRegister`: a device without a file starts from the default one. `SubPush` is a configuration push of its own, `SubMqttPush` its own `changeMQTTBroker` request (`mqtt_rpc_process`): the new server goes to its own file and the process powers off, so it comes back on that server. The body of the callback all of them pass it to, `DeviceMqttCfgRecvCb`, is not in the repository; it is modelled from its use in `dev_mqtt.c` and from the disabled older body (tempsensor.c:580) that it replaced. The history variable `moved` is the set of sub-devices that did this since they last inherited a configuration.

`faults` is a history variable: the properties say after which faults they still hold, and nothing in the model depends on it except the bound of the run.

`ConfigSource` is the abstract specification: a configuration that is offered as a whole or withdrawn, and sub-devices that run with it, up to a push of their own, which replaces the rest, and a move to another server (`Derived`, `Move`). A withdrawal ends all of them. `InheritsOneSource` states that the gateway implements it as long as no save failed, with the default file as the configuration on offer while the gateway is at rest, and nothing on offer during all of the writes.

### SensorRule

`algs` is the algorithm list, `timer` the handle in `rule_cfg`, `armed` the number of timers the library really runs, `exec` where the timer callback is, `ave` and `proof` what the algorithm pointers it holds point to (`freed` after `DeviceCfgRuleDelete`). `RuleStop`, `RuleStopped`, `RuleDelete`, `RuleInstall`, `RuleStart` are the steps of a push between which the callback may run. `RuleDelete` does nothing to the file when its `RuleName` is missing, as `DeviceCfgRuleDelete` does. Whether `TimerDelete` waits for a running callback is the constant `TimerDeleteWaits`: the timer library is not in the repository and the properties that need it say so.

### SampleTable

Each thread opens the SQLite file for itself, but both write a pointer to the text of their device id into the one global `tempsensor_column` before they build the statement from it. `column` says where that pointer leads: `own` is `dev->device_id`, stored by the search; `stack` is the buffer of a running `tempsensor_table_add`; `dangling` is that buffer after the return, whose text may be anything. `Sample`, `CreateTable`, `SetColumns`, `BuildInsert`, `Insert`, `AddReturns` are `TempsensorDataToDb`; `AverageStart`, `SearchSetsColumn`, `BuildSearch`, `SearchBegins`, `SearchReads`, `AverageEnds` are `temp_ave_rule_exec`. A search can fail in three ways, none of which its caller looks at: the file does not open (`SearchOpenFails`), the statement is an error or SQLite has one of its own (`SearchError`), or it breaks off after some of the rows were handed over (`SearchBreaks`); `failed` records the errors that are SQLite's own. `reading` is the shared lock a search holds; writes are repeated while it is held (`sql_exec`), and any other SQL error is only logged; an insert may also end at the creation of the table, whose presence `sql_create_table` takes for granted when it cannot look. `Rounded` is the cut `(int)((result+0.005)*100)` towards zero, with exact fractions; the rounding of `double` is left out. The file has one device per process; the humidity sensor is the same code over another table.

### DeviceReport

`status` is `dev->dev_status`. `smp`, `tmr`, `clk` and `mq` are the positions of the threads in `DevicePkgReport`, `dev_rul_exec`, `gateway_time_request` and the MQTT callbacks; publishing a package and clearing `dev_status` at the end of `device_pkg_send` are two steps, because the threads share no lock. `ReportFails` are the exits at which a package, or the hash in it, cannot be built; only the reports have them, because only they set `dev_status` there. `DataOnchain` is the set of what the call may return, write as hash and leave in `dev_status`, for each chain type and state of the service. `poe` is the hash a report carries; `ave` and `pid` say whether the hash in `ALG_AVE` and the id in `ALG_PROOF` belong to the present average, which is what the values themselves are needed for. Device kind, rule and chain type are chosen at the start and stay: `SensorRule` is the module in which rules change. `DevicePkgReport` and `DataOnchain` are reached through pointers that a library outside the repository fills in (`data_report`, `data_onchain`); that `data_report` is `DevicePkgReport`, and not `DevicePkgReportError` of the same type, is read off its name and its use in `tempsensor.c:285`, where a failure keeps the sample out of the database.

### MqttSession and MqttLink

Three threads share one `MQTT_CONNECT_PARAM`: `cpc` is the connect thread in `MqttServerConnect` and `_mqtt_connect_`, repeated by `device_mqtt_connect` every three seconds; `net` is the library's thread, on which `on_connect`, `sub_on_connect` and `on_message` run; `dpc` is the thread in `DeviceMqttDisConnect` and `MqttServerDisConnect`. `para` is `para->mosq # NULL`, `client` and `ud` the two heap objects, `csem` and `dsem` the semaphores. `sub` tells a device's session, which stands until `disconnect_sem` is posted, from the trial of `device_mqtt_check`, which is taken down by the thread that made it. A use of a freed object is recorded in `stale`, after which every thread may die (`Die`). `mosquitto_destroy` cancels and joins the library's thread; `mosquitto_loop_stop(…, false)` joins it, so it waits for the callback that is running (libmosquitto, external).

`MqttLink` is the abstract specification: messages are handled one at a time, a handler starts only while the subscriptions stand, and a session taken down stays down. `LinkPromise` states that the three threads implement it if the disconnect found the session standing; a disconnect during the first attempts can leave a thread that connects once more, which is why `early` is excepted throughout.

The other modules use the session in the two ways it offers: one handler at a time (`GatewayConfig`, `SensorRule`, `DeviceReport`, `PreExchange`), and publications that are lost without a trace (`PreExchange`, `DeviceReport`).

### PreCipher

Elements of the three groups are their exponents, so a product adds, a power multiplies and the pairing multiplies two exponents. The field is a parameter known by its axioms, which TLC evaluates for the integers modulo 5. That the stored constant `e` is the pairing of `g1` and `g2`, as `PreInit` computes it in its other branch, is assumed. Random exponents are any field element; secrets are any but zero, because `PreUserKeyGenerate` repeats until the strings have full length.

### PreExchange

Keys are numbers in order of generation. `keyFile` has the two fields of `./sym_key`, which are read and written in separate steps; `provisioned` says whether the file was there before the sender's first start, for without it both threads write the file; `upd` and `snd` are the positions of `Key_Update` and of the sender's handler. `inbox[c]` is what the broker has on the way to client `c`: in order, and lossy (`Lose`). A result decrypts to the key at the receiver it was made for and to `Garbage` elsewhere, which is what the theorems of `PreCipher` state. All receivers get all results and none checks for whom one is; a receiver therefore also prints the garbage of the others' results. `got` is what a receiver printed last, possibly `Garbage`; the history variable `held` is the last key it decrypted, which `KeysAdvance` and `GivenIsSaved` are about. A restart of the sender keeps the file only. Proxy and receivers keep no state of the exchange, so their restart is a loss of messages.

### BulletProof

One call of the library and the check of its proof. `Render` is `initMap`, `checkType` and `rawToMaterial`: the standards are cleaned (`StandardCleaning`), the last entry of the type is scaled to its precision, and the reading becomes the two distances to its ends. `Commit`, `CommitPoly`, `Evaluate`, `Fold`, `Finish` are the steps of the prover between two challenges, for the aggregated proof (`kind = "aggregate"`) as for the single one, which only the library's tests call; `Check` is both verifiers. A group element is the vector of its coefficients over the generators whose discrete logarithms are unknown, so two elements are equal only if the formulas are. A challenge is a hash of the transcript in the code, and here any member of the set of its role; the blinding values come from `Tapes`. 

Readings and the ends of standards are whole numbers of a unit finer than any step; `Step(p)` is the number of units in 10^-p, so entries of one file may have different precisions. The product with 10^p is exact here, where the code rounds a `float64` before it cuts: a reading within a rounding error of a step's end may fall on its other side in the program. `omitID` runs the character of the type, the owner and the user of an entry together, and so does `OmitID`, over sequences of characters: entries of different owners and users may have one name (`Rune` is the conversion `string(rune(type))`, which maps every number that is no character to one and the same).

What the model shows of the code besides the properties: the prover never refuses a witness, `Decompose` drops what does not fit, and only the verifier notices; a reading less than one step of precision outside the standard passes, because both are cut towards zero, and less than two steps if zero lies in between, because what is on either side of zero comes out as zero (`Lost`); an entry of negative precision admits every reading (`math.Pow10` is left out); a later entry of the same name displaces an earlier one even when it is malformed and removed itself, or when it is another owner's and user's entry whose name only reads the same (`Displaced`); a standard of more than 2^16 steps rejects some of the readings inside it. With challenges as small as those of the runs, `z` may be a root of what the digits miss (`ZHidesMiss`); in the program that has the probability of a hash hitting one of few values.

Its assumptions are what the library fixes or its callers keep to. `OrderIsPrime`: every number but zero has an inverse modulo `ORDER`. `Parameters`: a number of bits that is a power of two (the library uses 16), and challenges that are not zero, since a zero challenge has no inverse and the code, which does not look, would go on with it. `Inputs`: enough random numbers, types that fit a rune, readings and ends that are whole numbers of units, and a single value that is not reduced modulo `ORDER`.

## 3. Runs

| Run | Expect | Shows |
|---|---|---|
| `gateway` | pass | two devices, pushes with several chain items, a rejected item, a missing list, two MQTT servers, a sub-device that changes its server, power lost anywhere, a save that fails: lists, files and sub-devices stay consistent; what was answered with success is applied; accepted changes take effect; the gateway implements `ConfigSource` |
| `gateway_same_id` | violation | a loss of power after the id was saved leaves an id that names a configuration the gateway does not run (comment at gateway.c:1424) |
| `rule_push` | pass | pushes that replace, empty and repeat the rule, and restarts: at most one timer, no freed algorithm in use, every push answered; without a restart the file holds the pushed rule |
| `rule_restart` | violation | a restarted sensor has the id and not the rule |
| `samples` | pass | a rule averages all the rows of its window, or none in one order of the two threads, unless SQLite failed the search; no row is misfiled; the average is close to that of the rows; neither thread holds the other off |
| `report_status` | pass | chain types BCOP and none, gateway and sensor, with and without rule, the connection and the chain failing and coming back at any moment: nothing is reported as on chain that is not; after a failure reports resume |
| `report_samurai` | violation | chain type Samurai: a rejected request that returns 0 lets a package out with an empty hash |
| `session` | pass | failed attempts, refusals, lost connections and a disconnect at any moment: success is the broker's; freed objects are used in four named windows only; subscriptions come back; a disconnect and a trial end; the threads implement `MqttLink` |
| `pre_cipher` | pass | two receivers, exponents modulo 5: addressed decrypts, other does not |
| `exchange_faults` | pass | two receivers, lost messages, restarts, failing writes: no key leaves before it is saved, no receiver goes back, and a request made after the last fault brings a key at least as new as the file's; where the sender starts without a key file (`provisioned = FALSE`), a request made once the file has a key is answered with one |
| `exchange_torn` | violation | the handler reads `m` of one key and `mGT` of the next |
| `bullet_proof` | pass | fifteen standard files, of different precisions and with colliding names, ten readings, seven single values: every round keeps the relation, the verifier's scalars follow the prover's rounds, accepted only inside the standard up to what is cut off, never rejected inside it, and refused only when the standard was displaced |

The four windows of `StaleUseWindows` are where this code can use freed memory: a callback between the post of `disconnect_sem` and the end of the library's thread, or in a trial that succeeded; a publication between `mosquitto_destroy` and `para->mosq = NULL`; `pthread_cancel` of a detached thread that has ended. The property says that failed attempts, refusals and reconnects are not among them.

`WindowIsAveraged` names the one bad order of `SampleTable`: an insert stores its pointer between the search's store and its use, and returns before that use. The search then finds nothing and the rule fails. If SQLite fails the search, `temp_ave_rule_exec` does not notice and averages what rows it was handed, perhaps a part of the window; no promise is made then except that they are rows of the window. `AverageIsClose` has the error of the rounding as the code makes it: half a hundredth for a positive average, up to one and a half too high for a negative one; an average that is cut to zero counts as a failed search.

**Bounds.** *Gateway*: four push contents and one sub-device push, two devices, chains and servers are enough for a push to change, to keep, to partly apply and to reject every section, and for the default to change under a running device. Crashes are not bounded. At most one save fails in the run (`OneFailure`), and only one of the two sub-devices changes its server, while no save has failed (`FewMoves`): the other one keeps inheriting the gateway's, and after a failed save the properties about sub-devices promise nothing. The theorems have neither bound. *Rule*: the algorithm kinds of the code (average, on-chain, proof), pushes with, without and with another rule, of another section and of nothing new, and any number of restarts; `armed` is a count the invariant keeps at one. *Samples*: `MaxTime` 2 and `Interval` 1 let samples be inside and outside the window and two fall into one second; the values are a negative temperature, the smallest positive one, and one whose average with either lies between two hundredths; any number of samples, inserts and searches, failing ones included, within these times. *Cipher*: modulo 5 there are receivers with equal and with different secrets, and cancelling randomness; the theorems cover every field. *Exchange*: `MaxKeys` 3 lets the file be replaced twice while a request travels; two receivers and `MaxRequests` 2 put several requests, and results for others, in one inbox; `MaxFaults` 1 puts one loss, restart or failed write at any moment; the safety theorems have none of these bounds. *Session*: no bound. *Reports*: no bound; samples, averages and hashes are abstracted to whether they are there and belong together. *Bullet proof*: exponents modulo 7, values of two bits, hence vectors of four elements and two rounds for an aggregated proof; every challenge `z` and two each for `y`, `x` and the rounds; one tape of blinding values, since blinding enters linearly; the standards fit, are too wide, are another user's or owner's, malformed, repeated, of negative precision, one has an end that is cut to zero, entries of precisions 1, 0 and -1 share a file, and two entries of different owners and users have one name; the readings lie inside, at both ends, less than a step and more than a step outside. The exchange, the gateway, the session, the cipher and the proof runs switch the deadlock check off because they stop when the bounded requests are used up, when nobody pushes, when a session was taken down or when the proof is checked.

**Fairness.** Only straight-line code of a thread is fair: the file writes of a handler that has begun, the steps of the push handler and of the timer callback, the network threads of the re-encryption programs, and the threads of `DeviceReport`: the application samples again and again, the timers fire again and again, each HTTP request ends (`CURLOPT_TIMEOUT`, http_client.c:60), an answer that is due is sent, and a package that is tried again and again gets built (strong fairness of `ReportPkg` and `ReportPublish`: only a lack of memory stands against it). A start after `DevicePowerOff` is fair because the box is restarted by its supervisor. In `SampleTable` both threads are weakly fair and the insert strongly: it is tried every second while a search holds the file for milliseconds once in an interval. In `MqttSession` an attempt that is repeated for ever finds memory, the server and an answer at last (strong fairness of `CEnter`, `CCreate`, `CLoopStart`, `CConnect`, of the library's reconnection and of the broker's answer), because a network that never comes back allows no promise; the broker accepts a device at last, but may refuse a trial for ever. Nothing is assumed of the platform, of the chain service, of the thread that replaces the data key, of anybody ending a session, or, in the gateway, of the trial connection.

## 4. Proofs

TLAPS proves, for every value of the constants that meets the assumptions of the module:

- `GatewayConfig_proofs`: `TypeCorrect`, `TasksListed`, `DefaultFollows`, `SubDevicesFollow`, `DefaultQuiet`, `BrokerShared`, `AckedApplied`, `SourceImplemented`, with any number of losses of power and failing saves. The properties are not inductive by themselves, since in the middle of a push memory and files differ: the invariant says, for each value of `pc`, which of the writes are done, that no task runs between the stop and the start of the tasks, and that no device file outlives a change of the default. `BrokerShared` and `AckedApplied` have invariants of their own on top of it, which follow the push that is being handled through memory and file. `SourceImplemented` shows that every step is one of `ConfigSource` or a stutter: writes of the default file happen while nothing is on offer, and the rest follows from `SubDevicesInherit`.
- `SensorRule_proofs`: `TypeCorrect`, `OneRule`, `NoUseAfterDelete`, `FileFollows`. The invariant ties the library's timer to the handle in `rule_cfg`, says where a callback may be while the push handler is at each of its steps, and how far the file has followed the push.
- `SampleTable_proofs`: `TypeCorrect`, `Filed`, `AllOrNothing`, `AverageIsRight`. `InsertInv` says that what an insert finds in the column table is alive, whichever thread stored it, because the search's pointer is to memory that is never freed; `SearchInv` says that what a search finds is alive or `crossed` is set. `AverageIsRight` is an action property: it needs that `found` is a finite set of rows with integer values, hence that `SumOf`, a recursion over its subsets, is an integer (`SumIsInt`), and the bounds of the integer division on either side of zero (`RoundedClose`).
- `DeviceReport_proofs`: `TypeCorrect`, `ReportsOnChain`, `ResultsProved`, for every set of chain types without Samurai. The invariant says what hash is in hand at each position of the sampling and of the timer thread; the lemma `DataOnchainReturns` is the fact about the return value that the Samurai branch breaks.
- `MqttSession_proofs`: `SuccessGranted`, `StaleUses`, `LinkImplemented`. The invariant says when the library's thread exists, who holds the two heap objects at each step of the connect thread, and how far a disconnect that found the session standing has come; most of it says nothing of disconnects that came early, as the properties do.
- `PreCipher_proofs`: `TypeCorrect`, `ReEncryptionIsCorrect`, `ReEncryptionIsForOne`, from the field axioms alone. The invariant gives each cipher text in closed form; the lemmas `DecryptionIsRight` and `DecryptionIsFor` are the two algebraic facts.
- `PreExchange_proofs`: `TypeCorrect`, `Saved`, `NeverOlder`, for any number of receivers, keys, requests and faults. The argument is one chain of inequalities: the key a receiver has (`held`), the keys in its inbox in order, those in the proxy's inbox, the one in the sender's hand, the one in the file. Each handler moves a key one place up this chain, and losses only shorten it. The lemmas `TailOrder` and `AppendOrder` say that inboxes keep their order.
- `BulletProof_proofs`: `Invariant`, `RoundsKeepTheRelation`, `ScalarsFollowTheRounds`, `InStandardReadingsAreAccepted`, `AcceptedReadingsAreInStandard`, for every prime order, 2, 4, 8, 16 or 32 bits, and every file, reading, tape and nonzero challenge. The argument goes in five stages.
  1. Congruence modulo `Order` (`Cg`), on which sums, powers, inner products and points (`SumLinear`, `SumSplit`, `PowNext`, `MulSumIs`, ...) are built.
  2. One round: if the point commits to two vectors and their inner product plus some excess, the folded point commits to the folded vectors with the same excess (`FoldedKeeps`, over sums that are cut in half: `FoldSum`).
  3. The invariant `Inv` of the call has a part for each phase: the witness is that of the rendered standard (`Call`), the proof commits to it (`Committed`), `T1` and `T2` commit to the coefficients (`Posed`), `taux`, `mu` and `tHat` are what they should be at `x` (`Answered`), the rounds keep the relation, the scalars and the transcript (`Halved`), and the verdict is that of the two checks (`Closed`). The four properties speak of one phase each and none of them is inductive: each needs the facts of all phases before its own.
  4. Each check of the verifier is turned into one congruence (`InnerProductVerifierIs`, `VerifyTHatIs`): the generators are independent, so a product of powers is one only if each exponent is zero. `ConstantIs` opens the constant term of the polynomial, the one place where the prover's weights and the verifier's `Delta` meet. Together, a proof is accepted exactly if the weighted sum of what the digits miss is zero modulo `Order` (`VerdictIs`).
  5. From there one theorem in each direction: digits miss nothing of a value of `N` bits (`DigitsAre`) and a reading inside the standard has two such distances, because truncation is monotone (`TruncMonotone`, `RenderedIs`), and where the entries of the type leave no standard, each candidate has lost to a later entry of its name that is thrown away itself (`SameNameSameType`, `RefusedIsDisplaced`); and if the sum is zero although digits miss something, then `z` is the root that `ZHidesMiss` names, otherwise both distances have `N` bits and the reading is outside by no more than truncation loses (`TruncLoses`).

  The attempt to prove `AcceptedIsInStandard` found its first form false: it allowed a single step, as for numbers of one sign, and a standard from 1 unit upwards in steps of 2 accepts the reading -1, two units below. The statement now says `Lost`, and the run has a file (`AboveZero`) that violates the first form.

Induction over data, for the recursive definitions of `SampleTable` and `BulletProof` (`SumOf`, `Sum`, `Pow`, `Digits`): the library's induction theorems take an operator, which no prover here can instantiate, so the two modules derive induction over a *set* of numbers (`Induction`) from the first-order facts that `<` is well founded (`NatLessThanWellFounded`, `WFMin`). A recursive function is a `CHOOSE`: its defining equation is proved by showing that such a function exists (`RecursionExists`, `SumExists`) and, where two of different domains are compared, that it is unique (`RecursionUnique`). What each of them returns for every argument is then an ordinary induction.

Every theorem's property is also checked by a run, except the types of `DeviceReport` and `PreExchange` and the `Invariant` of `BulletProof`, whose theorems cover what a run would.

Checked by TLC only: the liveness properties (`PushIsAnswered`, `AcceptedTakesEffect`, `RequestRefreshes`, `RequestGetsKey`, `StatusIsCleared`, `SamplesGetThrough`, `StatementsEnd`, `StaysSubscribed`, `DisconnectEnds`, `TrialEnds`), which need fairness and so are beyond the prover. Every invariant and every action property that a passing run checks is proved.

## 5. Not modelled

- The formats (JSON, hexadecimal, TLV, Modbus), cryptographic primitives, HTTP and the drivers that deliver samples, tags and pictures: sequential code without state of its own, or third-party. This, with the copied packages of `bplib` and the third-party headers in `include/`, is by far the largest part of the repository's lines.
- `upgrade.c`: one sequential download and checksum test; no state outlives the call, and what installs the package is not in the repository.
- The camera, the reader and the controller: their configuration handlers are the one of the temperature sensor without rules, which `SensorRule` and the sub-devices of `GatewayConfig` show.
- Memory management is modelled only where two threads share what is freed (`SensorRule`, `MqttSession`, `SampleTable`). The device list after `GatewayOffline`, and an algorithm item of a push that lacks a key, are not modelled.
- Failing file writes are modelled in `GatewayConfig`, `PreExchange` and `SampleTable`; in `SensorRule` every write succeeds, although `TempsensorCfgRecvCb` ignores the results of its saves just as the gateway does (tempsensor.c:551).
- Deadlocks inside libmosquitto, as of a timer callback that publishes while the push handler waits for it: the library is not in the repository, and in `SensorRule` and `DeviceReport` a callback ends by fairness. A broker that accepts a connection and then stays silent is excluded by the fairness of `MqttSession`: the wait for its answer has no limit in the code (mosquitto_api.c:188), and would not end.
- Nothing says that every listed device has a process: a task that fails to start is started again by nobody (`StartTasks`).
- `DeviceReport` lets the building of a report fail, not that of a rule result, a time request or an answer, whose failures have the effect of a lost connection and leave `dev_status` alone. The callbacks `data_pkg` and `data_onchain` are taken to be set.
- The creation of the user key files (`pre_api.c:249`), which happens once and before the exchange; the models start with complete ones.
- The text `AggBpProve_s` makes of every proof and `AggBpVerify_s` reads back (marshalling), the coordinates of a group element below its operations (`curve.go`), the rounding of a `float64` before the cut, the Schnorr signature and the keys of `bplib`, which no proof calls, and the verifier's case of vectors of one element, which two values of sixteen bits never reach.
- `DevicePkgReportError`, `DevicePkgOnline`, `PreLocalCipherGenerate`, the unused statements of `csqlite3.c` and everything else nothing in the repository calls.
