# WOLNUT: specification and proofs

WOLNUT watches a UPS through NUT. When the power fails it asks the devices of
its clients to shut down, and when the power is back it wakes them. This
directory holds TLA+ modules of its controller and its agent, the TLC configurations that
check them on small instances, and proofs, checked by TLAPS, of the properties
that matter most. Source paths below are relative to `src/`.

## 1. The system

### 1.1 Parts, their state and their operations

| Part | Source | State | Operations |
|---|---|---|---|
| Main loop | `wolnut/cli.py` `main` | `on_battery`, `restoration_event`, `restoration_event_start`, `recorded_down_clients`, `recorded_up_clients`, `reported_wol_failures`, `last_mtime` | start and resume, hot reload, poll the UPS and ping the clients, outage branch, restoration branch with the wake loop, idle branch, save and sleep |
| State tracker | `wolnut/state.py` | outage flag, battery, outage identifier, per client: online flags, wake time, skip, delivery record, agent-update record; `_dirty`, `_status_hash`; the state file | `update`, `mark_*`, `should_attempt_*`, `record_shutdown_attempt`, `acknowledge_shutdown`, `begin_outage`, `set_ups_on_battery`, `reset`, `sync_clients`, `observe_agent_update`, `save_state`, load |
| Shutdown coordinator | `wolnut/shutdown.py` | none of its own | `parse_ups_snapshot`, `process_on_battery` |
| Adapters | `wolnut/monitor.py`, `wol.py`, `utils.py` | none | read the UPS, ping, send a wake packet, resolve a MAC address |
| Configuration | `wolnut/config.py`, `config_store.py` | the configuration file | load and validate, atomic replacement |
| Agent | `agent/main.go` | `state.json`: controller's CA, server certificate, pending request and completion token, pairing code with its attempts, the 100 newest commands, update policy; in memory: scheduled power-offs, the TLS configuration it serves | health, bootstrap pair and complete, unpair, shutdown, update and its policy; commands on the device: enroll, pairing-code, reset-pairing |
| Agent update | `agent/update.go`, `agent/main.go`, `wolnut/agent_updates.py`, `wolnut/web.py` | the update fields of `state.json`, the running version and the binary in place; per client the last installation the controller saw | check by policy, by hand or by the controller's poller; install, restart, confirm; observe and notify |
| Enrollment | `wolnut/enrollment.py` | one record per code | create, claim, complete, fail, get, expiry |
| Web API | `wolnut/web.py` | sessions, a lock around the state file | configuration, pairing, unpairing, enrollment, manual shutdown and wake, update and its policy, status; pollers that record what agents answer |
| Agent client | `wolnut/agent_client.py` | the controller's identity: four files | load or create the identity, TLS requests with a pinned certificate |
| Notifications | `wolnut/notifications.py`, `providers/` | none | send a message |
| Web interface | `webui/` | presentation | calls the web API |

### 1.2 How they interact

* The main loop owns the tracker in memory and saves it to the state file once
  per iteration. After a restart the file is all that is left.
* The web process reads the configuration and writes it; the main loop notices
  by the file's mtime. The web process also writes delivery results into the
  *same* state file, under a lock the main loop does not know.
* A delivery is one HTTP request to the agent. The agent persists the command
  identifier, answers, and powers the device off two seconds later. A lost
  answer leaves the two sides with different knowledge; the retry carries the
  same identifier and the agent recognises it.
* Devices go off and on for their own reasons; pings are lost.
* An administrator makes an enrollment code; an agent claims it with a
  certificate request, the web process signs it, writes the agent to the
  configuration, completes the record and answers with the certificate. Any of
  these can be the last thing that happens; the agent repeats its request.
* Pairing, unpairing and the update policy ask the agent first and change the
  configuration after it; an editor saves the whole configuration from a copy.
* The agent updates itself from a release directory when the controller says so,
  and the controller learns from its status that it did.
* Main loop and web server each make the controller's identity when they first
  need it, in one directory.
* The agent's handlers and the commands on the device load `state.json`, change
  their copy and save it whole; only accepting a command and changing the policy
  do it under one lock.

### 1.3 Which behaviours are hard

* One iteration has several phases and the process can die between any two;
  the tracker reaches the file only at the end.
* "Are we in an outage" exists three times: in the loop (`on_battery`,
  `restoration_event`), in the tracker (`ups_on_battery`, `outage_id`) and in
  the file, changed at different places.
* A command identifier is made once, remembered, reused by retries, replaced
  after a re-arm, and compared by the agent with what it has seen.
* Power that flaps during a restoration; timers that start again after a
  restart; clients that go up, down and up.
* Failed writes, failed renames, and a hash that suppresses writes.
* Hot reload changes the set of clients under a running outage.
* On the agent, copies of the state are saved over each other by handlers that
  run in parallel and by commands in processes of their own, one of which waits
  for an HTTP answer in between.
* Two writers of the state file share a temporary name and no lock: one renames
  what the other is writing, or saves over what the other has read.
* Agent and configuration are changed in two steps, with lost answers, failed
  writes and crashes in between, while the configuration is edited as a whole.
* An update is fetched in pieces from a release that can change, is recorded
  before the restart and confirmed after it, and observed at any moment.
* A code of an enrollment expires, is replaced, is claimed twice and is retried,
  while pairing and unpairing change the same client.

`PROJECT.json` lists every hazard at its line with the properties that cover it.

### 1.4 What makes each part correct

* **Main loop / tracker / coordinator.** Loop, tracker and file agree on the
  outage; a remembered command is one of the current outage and delivery; an
  acknowledgement is real; a first send is not mistaken for a duplicate; the
  file follows memory; no wake packet comes early; a restoration is completed
  only when everybody is up, and it does end; delivery is retried.
* **Agent.** A command is executed once as long as it is remembered; whatever is
  saved over what, the state file is one the TLS configuration can use; the
  ledger stays within its limit.
* **Self-update.** The version never falls by itself; what is said to be pending
  is what is in place; while the policy is on, the agent catches up with the
  release; an installation is reported once.
* **State file between two writers.** The file is replaced whole; it is never put
  back to an older state of the tracker, nor a record to a part of it; what the web
  server has to say appears again and again. The two writers break the first two of
  these for each other, in two ways that section 3 names.
* **Enrollment.** A code serves one agent with one request, and that agent may
  retry until it expires; a client has one usable code; certificates, records
  that say `paired` and the configuration name the same agent. (`paired` is not
  final: a late retry makes it `expired`, a late failure `failed`.)
* **Web API.** As long as requests about a client come one after the other and none
  is interrupted, the configuration and the agent agree on who is paired and on the
  update policy, however old the copies are from which the configuration is edited.
  The exceptions (lost answers, failed writes, overlaps, resets at the device and
  more) are those of `excused` in section 3. No edit undoes a pairing.
* **Identity.** The files that are there belong to one identity.

## 2. Plan

| # | Module | Contents | State |
|---|---|---|---|
| 1 | `Tracker` | the pure operations of the state tracker | done |
| 2 | `Monitor` | main loop, coordinator, state file, reload, crash, devices | done |
| 3 | `MCMonitor` | instances for TLC | done |
| 4 | `TrackerProofs`, `MonitorProofs`, `InvariantProofs` | proofs about 1 and 2 | done |
| 5 | `Agent`, `MCAgent`, `AgentProofs` | pairing and commands of the agent, every handler and command as load, change and save; ledger; delayed power-off; crash | done |
| 6 | `OneTimeCode`, `Enrollment`, `MCEnrollment`, `EnrollmentProofs` | what codes promise; store, handlers and agent; proof that the second implements the first | done |
| 7 | `StateFile`, `Identity`, `ControllerFiles`, `ControllerFilesProofs` | `save_state` against `_record_agent_result`; creation of the four identity files; both in one process; proofs | done |
| 8 | `Pairing`, `MCPairing`, `PairingProofs` | configuration edits, pair, unpair and update policy as several steps over file and agents; proofs | done |
| 9 | `AgentUpdate`, `AgentUpdateProofs` | self-update, restart, confirmation, notification; proofs | done |
| 10 | `Outage` | abstract specification of an outage (begin, ask, restore, end), implemented by `Monitor` under a refinement mapping; the proof is in `InvariantProofs` | done |

Every safety property that a passing run checks has a theorem in section 5. Of the
plan only the liveness properties are left to TLC.

## 3. The modules and the code

### `Tracker`

A tracker is a record with the fields of the state file's `meta` part and one
record per client. Operations are operators from tracker to tracker with the
source's names. Two abstractions:

* *Time.* A timestamp is its age, up to `Horizon`. The code only ever asks
  whether `time.time() - t >= delay`, so an age above every delay behaves like
  the 0 of a timestamp that was never set.
* *Absent clients.* A tracker is total: a name that is not tracked holds the
  record `sync_clients` would create for it. The code ignores results for names
  it does not track; so do the operators (`Replace` is restricted to
  `tracked`).

`uuid4()` is a counter: fresh by construction. A command identifier is the pair
of outage and delivery sequence; the client's name in it is that of the record
that holds it. A command always is one of an outage; what the tracker holds before
one is made is `NoCommand`.

### `Monitor`

`pc` is the phase of one iteration:

```
down --LoadConfig--> starting --InitTracker--> poll
poll --ReloadConfig--> poll            (file changed)
poll --PollIncomplete--> save          (no snapshot)
poll --PollOnBattery--> deliver|save   (OB)
deliver --DeliverAccepted|DeliverReplyLost|DeliverFailed--> deliver|save
poll --PollRestoring--> wake|save      (OL after OB)
wake --WakeClients--> save
poll --PollIdle--> save                (OL)
save --SaveAndSleep--> poll
any  --Crash--> down
```

`WakeClients(sent)` is the whole loop over the clients with its epilogue
(completed or timed out); `sent` are the clients whose packet could be sent.
`SaveAndSleep` is `save_state()` with its three outcomes, then the sleep, in
which time passes. Deliveries are separate steps because each is a request of
its own and the process can die between two of them. The order in which the
code serves clients is that of the file; the model allows every order.

The environment switches devices on and off, powers a device off after its
agent accepted (`PowerOff`), restarts an agent before it did (`AgentRestart`),
edits the configuration (`EditConfig`, valid or not) and crashes the process.
`Loaded(cfg)` is what `load_config()` makes of the file: a client that is to be
woken at the MAC address `auto` (`auto_mac`) is left out whenever the look-up fails.
A ping answers only if the device is on, and may be lost even then.

History variables (`outages`, `since_battery`, `forgotten`, `stale_file`,
`online_before`, the counters of faults and edits) are read by no guard except
the bounds. `forgotten` are the clients whose delivery record was lost by a
crash before the save or by removing them from the configuration. What happens to
a client that is left out by a reload and brought back is the subject of the run
`reloaded`.

*What the loop promises.* `Outage` knows of the loop only what it is busy with, the
outage under way, the one a restart would go on with, how many were drawn, and for
which outages each device accepted a shutdown. `OutagesKept` says that `Monitor`
implements it: `LoopPhase` reads the phase off the loop's flags, `OutageNow` the outage
off the tracker (off the file while the process is down), and `AcceptedFor` forgets
all of an agent's commands but their outage. So the three copies of "we are in an
outage" act as one: an identifier is drawn only at a beginning, a device is asked only
for the outage under way, a restart goes on with what the file remembers, and an
outage is over only after a restoration. Two details of the code show in it. A restoration that
times out leaves the tracker as it is, so its outage is over only at the next idle poll
(`Over`), and power that fails before that goes on with the old one (`GoOn`); and an outage that
was never saved dies with the process (`Die`), so that power that is still out
begins another.

What is left out of the loop: notifications and logging, the reported lists'
wording, the first reading of the UPS before the loop (logged only), agent
update observation (represented by `other` in `SaveResult`: it can make a save
necessary; `AgentUpdate` has it), the web server's writing into the state file
(`StateFile`), and the agent's pruning of its commands to the newest 100, which
`Agent` has.

### `Agent`

`file` is `state.json`, one record with the fields that decide what is accepted;
keys and certificate requests are numbers, so that a request and the certificate
made from it are recognised. `work[j]` is a handler or a command in progress,
with the copy it loaded:

```
idle --Begin--> <operation>                 (load; checks)
idle --Handshake--> connected --requireController--> <controller's operation>
<operation> --Finish--> idle                (change the copy, save it whole)
enroll --EnrollRequest--> enrolled          (key saved, request sent)
connected|<operation>|enrolled --GiveUp--> idle
shutdown --Accept--> idle                   (acceptCommand, under the lock)
policy --SetPolicy--> idle                  (under the lock)
```

`Finish` covers bootstrap pair (right and wrong code), complete, unpair,
pairing-code, reset-pairing and the end of enroll; `Changed` says what each makes
of its copy. What expires (a code, a token) is refused like something wrong, so
`GiveUp` stands for it. `Accept` is what `handleShutdown` does with
`acceptCommand`: the ledger is read, extended and pruned in one step, and the
power-off is scheduled. `PowerOff` ends all processes; `PowerOffFails` is a failed
`systemctl`; `Crash` ends the service, not the commands on the device.
`lost` is history: the commands that left the ledger, by pruning or because a copy
without them was saved. `GetConfigForClient` reads the file for each connection,
so `Handshake` looks at it, and `requireController` again for each request.

Left out: the validity times of requests (a refused request changes nothing), the
health handler, and the fields of the self-update, which `AgentUpdate` has.
A save is atomic here: the temporary file that two processes share is a hazard of
its own.

### `OneTimeCode` and `Enrollment`

`OneTimeCode` is the promise: `Issue` a code for a client, which closes the
client's open one; `Bind` it to the first applicant; `Grant` certificates only to
whoever it is bound to; `Close` it at any time.

In `Enrollment` each operation of the store is one step, because it holds the
store's lock. The handler of an agent's request is `handler[h]`:

```
idle --Ask--> claim --ClaimFirst|ClaimAgain--> persist --Persist--> complete
      --complete--> respond --Respond--> idle
claim --ClaimExpired|ClaimRefused--> idle
persist|complete|respond --fail--> idle     (record becomes failed)
any --Dies--> idle                          (record stays)
```

`CheckUnpaired` and `create` are two steps because `create_agent_enrollment` reads
the configuration without a lock. A code is live until `Expire`, which is a step
that can come at any moment. An applicant is an agent with a certificate request;
the agent saves its request before it asks (`Ask`), keeps it for retries and drops
it with the answer, which can be lost (`Respond`). `PairManually`, `Unpair` and
`ResetAgent` stand for the whole handlers by their results; a client they change is
`touched`, which is history. The refinement maps an issued code to its client, an
open code to a live pending record, and a bound one to the record's claim.

### `Pairing`

`config` has for each client whether it is in the configuration, the agent that
lives at its host, and the pairing; `agent` what each agent knows. A request is

```
idle --BeginPair|BeginPolicy|BeginUnpair--> remote     (reads the configuration)
idle --ForgetLocally--> persist                        (force_local)
remote --Ask--> persist        remote --AgentError--> idle
persist --Persist--> idle      persist --PersistFails--> idle|rollback
rollback --RollBack--> idle                            (update policy only)
```

Only `Persist` is done under the lock of `ConfigStore`, with the configuration as
it is by then. `AgentError` is every way in which a request ends without an
answer, also after the agent did what was asked. `draft` is an editor's copy:
`GetConfig` takes it, `EditDraft` changes it, `PutConfig` saves it whole if
`persist_config` finds pairing and policy unchanged, however old it is. What the
agent does inside is the subject of `Agent`; enrollment, of `Enrollment`.

`excused` is history: the agents of which nothing is claimed any more, because an
answer was lost, a write failed, the process died, the device was reset, a pairing
was forgotten locally or replaced, or because two requests or a request and an
edit about one client overlapped. A failed save of a policy is *not* a reason: that
is what the rollback is for; a rollback that fails as well is. `EditsKeepPairings`
does not use `excused`, but lets a client change in any way while a request about it
is in progress. Section 6 says what happens in the exceptions.

### `AgentUpdate`

Versions are numbers in their order. A release is one number, `release`, that
`Publish` can change between two fetches; a file matches its checksum when both
were fetched from the same release, and a binary says to be the version it is.
`binary` is the file in place, `version` what runs; they differ between the rename
of `Install` and the restart. The goroutine of `startUpdate` is

```
idle --Check|AutoCheck|SetPolicy--> manifest --FetchManifest--> checksum
checksum --CheckManifest--> binary|record    binary --FetchBinary--> verify
verify --Replace--> record --Record|RecordLost--> restart|idle
restart --Restart|RestartFails--> idle       any fetch or check --InstallFails--> record
```

`Serve` is `runServe`: it confirms a pending update whose version is the one that
starts. `Crash` and `Reinstall` go through it too. `AutoCheck` is the controller's
poller: what it sends is the same as `Check`, so the agent records `manual` for it.
On the controller, `Observe` is `AgentUpdateMonitor.poll()` with
`observe_agent_update()`, and `record` reaches the state file (`saved`) in a
separate step. `installed` is the number of the installation instead of a time in
seconds: two installations within a second are not modelled.

Left out: the agent's other commands (`pairing-code`, `reset-pairing`, `enroll`) save
a copy of the whole state and with it the update fields of the time they loaded it
(`main.go` 858, 884 and 943), so status and `installed_at` can go back. `Agent` has these copies
for the fields that decide what is accepted; what they do to the update fields is a
hazard of `PROJECT.json` without a property. A binary that was put in place by hand
(`by_hand`) is excused from then on.

### `StateFile`, `Identity` and `ControllerFiles`

In `StateFile` both writers go through `idle --open--> write --> rename --> idle`
(the web server reads first). A file that is open is followed when its name is
moved (`handle`), so a writer can go on writing into what is the state file by
now, and a rename can find that the temporary file is gone. A file whose writers
overlapped is `Torn` or whole, whichever came out. What is in the file is a
revision of the tracker, of each client no record, a partial one (made by the web
server) or a full one, and the last result. `update()` needs full records:
`Stumble` is the `KeyError` that ends the process. `_status_hash`, which `Monitor`
has, is left out: here a change always changes what is saved.

Opening, writing and renaming can fail (`Fails`), the rename with the temporary file
there as well as without it. The main loop then keeps `dirty`, except after a failed
rename, which it logs and counts as saved (`SaveFails`). The poller of the web server
takes a failure for one of the agent: it reads the file again and records that agent
(`polled`) as unreachable; if that fails too, it goes on (`RecordFails`,
`RecordUnreachable`).

`contended` and `outdated` are history: the two writers have had the temporary file at
the same time; the state file has changed since the web server read what it is going to
write. `NeverFallsBehind` is about every step in which the contents of the state file
change: the new are `Behind` the old only in a rename of an outdated update, or when
the writers had met. It says nothing of what is still in memory after a failed rename
(section 6).

In `Identity` each of the four files holds the number of the identity it belongs
to. `Create` looks at the directory and makes the keys; `WritePrivate` replaces one
file; a store can stop in between. `raced` says that both stores made one at the
same time. `ControllerFiles` puts the two parts into one process; they share no
variable, so each is seen while the other rests.

## 4. Model checking

| Run | Question | Instance |
|---|---|---|
| `restart` | with a crash, a failed write or rename, or an agent restart anywhere: do commands, the outage identifier and the file stay consistent; does the loop implement `Outage`; is a wake packet sent before the delay is over; is a restoration completed while a client is down? | 1 client, 1 outage, 1 fault, 1 re-arm, delay of 2 polls |
| `liveness` | in a second outage, and when a load leaves the client out because its MAC address cannot be looked up: is a command one of this outage, does the file follow memory, does the outage end, is delivery retried? | 1 client, 2 outages, 1 edit, fairness |
| `agent` | does the state file stay usable, is a command scheduled again only after it left the ledger? | 2 commands, 2 jobs, a ledger of 1, 2 keys, 1 fault |
| `enrollment` | are codes one-time; do codes, certificates and configuration agree? | 1 client, 2 agents, 2 codes, 2 handlers, 2 requests, 1 fault, 1 edit |
| `pairing` | do configuration and agents agree on pairing and policy; does an edit undo them? | 1 client, 2 agents, 2 requests, 1 fault, 1 reset, 1 saved edit |
| `update` | does the version never fall; is what is pending in place; does the agent catch up; is an installation reported once? | 2 versions, 1 fault, 1 installation by hand, fairness |
| `controller_files` | does what was written stay, with two writers of the state file and two makers of the identity; what breaks the files? | 2 clients, 1 change, 1 fault, 1 edit; 4 identities; fairness |
| `flapping`, `slow_shutdown`, `reloaded`, `agent_retry`, `update_notice` | statements of documents and messages the code does not keep | see section 6 |

*Bounds.* `MaxOutages`, `MaxRearms`, `MaxFaults` and `MaxEdits` cap counters.
Two outages are needed for a stale identifier to meet a new outage (`liveness`), one re-arm
for two sequences and one fault for each kind of fault at each place (`restart`), one edit
for a reload at each place, which leaves the client out or brings back one the start had
left out. With both two outages and a fault `restart` would outgrow its time; the
proofs of section 5 have no such bounds. `Horizon` is one more than the longest delay
in the instance, or as long. In `restart` and `liveness` the UPS reports one charge, which is low
enough to shut down and high enough to wake; in `restart` there is a second
configuration for which it is neither (`Patient`). `flapping` and `slow_shutdown` have one
charge below and one above every threshold.
Clients do not influence each other's records, so one client is enough for what
is said of each client. `CompletedMeansUp` is about all of them: the instance has
one that goes down after it was found up, the proof of section 5 is for any number.
The proofs are for every value of all of these.

The agent runs with a ledger of one, so that pruning happens with two commands,
and with one attempt for a pairing code; two jobs are enough for every pair of
operations that overlap, and two keys for a session that is replaced. `agent`
takes every operation, `agent_retry` the two ways to pair (`RetryOps`). In `enrollment` one client is enough because codes of different
clients share nothing but the configuration's lock; two agents, codes and handlers
make every race, one fault and one edit each race with a failure or a change of the
pairing. In `pairing` one client with
two agents makes every mismatch of host and pairing, two requests every overlap. In
`update` two versions make every upgrade and downgrade, and one fault hits each
step; releases change any number of times. In `controller_files` the writers repeat
without bound; one change of the tracker distinguishes the old from the new. Symmetry
is used in `agent`, `enrollment` and `pairing`, where the members of each set are
interchangeable and no liveness is checked.

No other run stops in a deadlock: time can pass, devices and services can start,
requests and polls begin again. `enrollment` may stop (`CHECK_DEADLOCK FALSE`): when every code
is used, no requests are left and the administrator has nothing to do.

*Fairness.* `WF_vars(Process)`: the process keeps going. It has no unbounded
wait (pings, NUT and agent requests have timeouts) and the service manager
starts it again. `SF_vars(DeliverAccepted(c))`: a device that is asked again
and again is reached at last; without that no retry policy helps. Nothing is
assumed of devices, of pings or of who edits the file. In `AgentUpdate`,
`WF_vars(Updating)`: every fetch has a timeout and `systemctl` returns or ends the
process; `WF_vars(AutoCheck)`: the controller's poller loops and the agent answers.
In `ControllerFiles`, weak fairness of the start (the service manager) and of the web
server's steps (its pollers loop for ever); none of the main loop.

`OutageEnds`: if the UPS stays on line with enough battery, the outage ends for
the controller whether or not the devices come back (the timeout does it).
`DeliveryRetried`: while the battery stays below the threshold, either the
client is acknowledged or its device is not on, again and again. `CatchesUp`: while
the policy is on and the release stays, the agent comes to run it. `ResultsComeBack`:
while there are clients and the process does not keep dying, what the web server
finds out about agents is in the file again and again.

## 5. Proofs

All constants are arbitrary, within `TrackerAssumption` and
`MonitorAssumption`: delays fit below the horizon, configurations have their
type, charges are percentages. `AgentAssumption`, `EnrollmentAssumption`,
`PairingAssumption`, `UpdateAssumption` and `StateFileAssumption` say
that bounds are numbers and that stand-ins for "nobody" are nobody. The assumption that the client timeout is below
the horizon is what makes a saturated age compare like a real one.

| Theorem | Statement |
|---|---|
| `TypeCorrect` | `Spec => []TypeOK` |
| `InductiveInvariant` | `Spec => []IInv` |
| `RemembersOutage` | `Spec => []OutageRemembered` |
| `CommandsAreCurrent` | `Spec => []CommandOfThisOutage` |
| `AcksAreReal` | `Spec => []AcceptedBeforeAcknowledged` |
| `CommandsAreFresh` | `Spec => []FreshCommand` |
| `WakesAfterDelay` | `Spec => WakeAfterRestoreDelay` |
| `CompletesWhenUp` | `Spec => CompletedMeansUp` |
| `FileIsCurrent` | `Spec => []FileFollowsMemory` |
| `ImplementsOutage` | `Spec => OutagesKept`, the abstract specification |
| `AgentInvariant`, `AgentTypeCorrect` | `Spec => []IInv`, `Spec => []TypeOK` of `Agent` |
| `FileIsUsable` | `Spec => []Usable` |
| `CommandsExecuteOnce` | `Spec => []ExecutedOnce` |
| `LedgerIsBounded` | `Spec => []Bounded` |
| `EnrollmentInvariant`, `EnrollmentTypeCorrect` | `Spec => []IInv`, `Spec => []TypeOK` of `Enrollment` |
| `OneCodeAtATime`, `RetriesStayPossible` | `Spec => []OneLiveCode`, `Spec => []RetryPossible` |
| `CertificatesAgree`, `RecordsAgree` | `Spec => []EnrolledIsConfigured`, `Spec => []PairedIsConfigured` of `Enrollment` |
| `ImplementsOneTimeCode` | `Spec => OneTimeCodes`, the abstract specification |
| `PairingInvariant`, `PairingTypeCorrect` | `Spec => []IInv`, `Spec => []TypeOK` of `Pairing` |
| `ConfiguredArePaired`, `PairedAreConfigured` | `Spec => []ConfiguredIsPaired`, `Spec => []PairedIsConfigured` of `Pairing` |
| `PoliciesStayEqual` | `Spec => []PoliciesAgree` |
| `NoEditUnpairs` | `Spec => EditsKeepPairings` |
| `UpdateInvariant`, `UpdateTypeCorrect` | `Spec => []IInv`, `Spec => []TypeOK` of `AgentUpdate` |
| `PendingInPlace` | `Spec => []PendingIsInstalled` |
| `ReportedOnce` | `Spec => []NotifiedOnce` |
| `NeverDowngrades` | `Spec => VersionNeverFalls` |
| `FilesInvariant`, `FilesTyped` | `FilesSpec => []IInv`, `FilesSpec => []TypeOK` of `StateFile` |
| `SavesStay` | `FilesSpec => NeverFallsBehind` |
| `ReplacesWhole` | `FilesSpec => ReplacedWhole` |
| `OneIdentity` | `FilesSpec => []IdentityIsOne` |

*The inductive invariant.* `FreshCommand` alone is not inductive: it needs that
identifiers the agents hold were drawn before (`ProcessedInv`), that a
remembered command is current (`TrackerInv`), that the file, from which a
restart continues, satisfies the same (`TrackerInv(disk)`, and `FreshInv` while
the process is down), and that a client that is due is tracked, so that its
result is recorded (`TrackedInv`). `OutageRemembered` needs the phases
(`PhaseInv`): only in `poll` do `on_battery` and `restoration_event` change.

*The argument.* `InvariantProofs` first reduces each operation of the tracker
to its effect on delivery records. Most are *quiet*: the outage and the tracked
names stay, a record is kept or re-armed (`PingedEffect`, `MarkEffect`,
`AgedEffect`, `AfterWakeEffect`), and `QuietKeeps` shows once that a quiet step
keeps the invariant. The rest begin an outage (`BeginEffect`: a fresh
identifier and no commands, or nothing changes), end it (`ResetEffect`) or
change the names (`SyncEffect`). Then there is one lemma per action of the
loop; a delivery is one lemma for its three outcomes. Waking (in `MonitorProofs`) needs only
that the restoration timer is never older than the last on-battery snapshot
(`DelayInv`).

*The state file and memory.* `FileFollowsMemory` is about the end of an iteration only;
`FileInv` says what is true in between: the hash, if there is one, is that of the file, and
while the dirty flag is not set memory holds what the file holds. Each action then
either sets the flag or changes nothing that is hashed: ages may differ
(`SameAged`), the names come from the configuration and a change of them sets the
flag (`SyncSame`), every mark sets it (`MarksChanges`). `NextFile` goes through the
actions; the excuse `stale_file` is set by a failed rename, after which the tracker counts
as saved, and cleared by the next good save.

*The refinement of `Outage`.* Most actions change nothing `Outage` sees
(`UnseenOutage`, by `PromisedSame`), the others are one abstract step each: a start is
`Start`, an on-battery poll `Begin` or `GoOn` (`BatteryOutage`), an accepted delivery
`Ask`, a save `Remember`, a crash `Die`. The mapping needs the invariant for three
facts: while `on_battery` or `restoration_event` is set the tracker has an identifier and
only one of the two is set (`OutageRemembered`, `PhaseInv`), so that `GoOn` has an outage
to go on with and a device is asked for a real one; a remembered command is of the current
outage (`TrackerInv`, in `CommandOutage`), so that what an agent accepts is `current`; and the
file has an identifier when it says on battery, so that a restart that resumes resumes
something.

*The agent.* `Usable` is inductive only together with what the copies in progress
satisfy: a job's copy is well-formed and passed the checks of its operation
(`Working`), so that what it saves is well-formed too (`ChangedSafe`), whenever it
saves it. `ExecutedOnce` needs that every command that was ever scheduled is in the
ledger or in `lost` (`Accounted`): saving a copy and pruning are the only ways out.
`Bounded` needs that every copy is as short as the file (`SmallInv`); accepting adds
one and pruning removes one (`AcceptedSmall`, by cardinality of finite sets).

*Enrollment.* A record in a status has a claim or none (`Shape`); a request past its
claim holds the code (`Held`); past the write of the configuration the client has
the agent (`Persisted`), which is what makes `complete` truthful and survives every
other handler because a client that has an agent is never given another without
being `touched`. `Lawful` is what an operation may make of a record, shown once to
keep the invariant (`RecordStep`); `ConfigurationStep` does the same for writes of
the configuration. For the refinement, every change that leaves a record not open
is a `Close`, `create` is an `Issue`, the first claim a `Bind`, and `Respond` a
`Grant`, which is where `Held` is needed.

*Pairing.* Agents that are excused leave every claim, so the argument is about
requests nothing disturbed: each still sees its client as it read it, and is the only
one at work on it (`Alone`, `Matching`). `OneHolder` makes agreement inductive: an agent
that is paired has exactly one client that *holds* it, which names it and has not told
it to unpair, or has told it to pair and will name it. Without it two clients at the same
host could be paired with one agent, and a policy set for one would disagree with the
other. `Told` relates what a request has told the agent to what it will write, and
`Agreed` the policies before it told anything; a rollback needs both. Then there is
one lemma per action; those that end a request whose agent was told nothing or is
excused share one (`QuietKeeps`), the four beginnings another (`BeginKeeps`).

*Self-update.* The version cannot fall because what is fetched to replace the binary is
newer than what runs (`Newer`, kept by every step since what runs changes only with the
end of the update). A pending update is in place because nothing is said to be pending
while an update runs (`Staged`). `NotifiedOnce` needs that the agent's stamp is that of
the last installation or gone (`Stamped`), so that a stamp that was reported is past,
remembered, or was forgotten in a crash (`Reported`).

*Two writers of the state file.* The writers go down together and hold a file exactly
while they write (`PhaseInv`). As long as they never had the temporary file at the same
time, whoever has it finds in it nothing or what it wrote (`TemporaryInv`), so a
rename moves a whole file: that is `ReplacedWhole`. What the main loop holds in memory
is never behind what is in the state file, in the temporary file or in the copy of the
web server (`MemoryInv`): it was loaded from the file and only grows. That copy is
behind the file only when the file has changed since it was read (`UpdateInv`). So a
rename that puts back something older is that of an outdated copy, or of a file two
writers wrote, which is `NeverFallsBehind`; a rename or a write that fails moves
nothing. `PartSpecs` shows first that the composition
`ControllerFiles` implements each of its parts, so the invariants are about one part
at a time.

*The identity.* `IdentityIsOne` is inductive with what a store in the middle of its
work has done (`PartlyMade`): the files before the next one hold its number, the
others do not exist, and no other store is at work unless they raced (`MakingInv`). A
store that stops half way leaves a part of one identity, which nobody continues.

*Only model-checked:* the liveness properties `OutageEnds`, `DeliveryRetried`,
`CatchesUp` and `ResultsComeBack`, which are out of the prover's reach. The
properties of section 6 are false.

## 6. What the code does not keep

The runs that expect a violation each check one property, which states what a
document or a message says.

* `SkippedWereOffline` (`README.md`, `cli.py`): a second power loss during a
  restoration overwrites who was online before the outage.
* `CompletedMeansBack` (`cli.py`, `README.md`): a device that is still shutting
  down answers pings, counts as back, and is not woken later.
* `NewCommandSchedules` (`README.md`): a client that a reload left out in the middle of an
  outage and the next brought back is sent the command its agent accepted before. The agent
  answers that it has it and does nothing: the device stays on and counts as acknowledged
  (`forgotten` in `FreshCommand`).
* `RetriesAreHarmless` (`docs/agent.md`): a command that was accepted while a
  handler or a command on the device worked on an older copy of the state is
  forgotten when that copy is saved, and its retry schedules a second power-off.
* `AutomaticNotified` (`webui/src/App.tsx`): an automatic update that the controller
  observes between its installation and its confirmation is never reported. The
  run's trace is the polling; the other way to the same end is that the updates the
  controller's poller asks for every six hours are recorded as `manual` by the agent
  (`main.go` 555), so that only those that begin with the policy are reported at all.

Seen while modelling, without a run. Where a property of a passing run excepts a case that
a history variable names, this is what the code does in it:

* a crash between an accepted shutdown and the save has the same effect as the reload of
  `NewCommandSchedules`: the restarted loop makes the known command once more (`cli.py` 60;
  `forgotten`);
* a lost ping makes an acknowledged client look rebooted, and it gets a second command in the
  same outage (`state.py` 171 to 180), while `docs/agent.md` 206 promises one;
* after a failed rename the change is in memory only, until something else changes
  (`state.py` 155; `stale_file` in `FileFollowsMemory`);
* a save of the main loop during `_record_agent_result` is overwritten by the older tracker,
  and the main loop takes its own for saved (`web.py` 725 to 761; `outdated` in
  `NeverFallsBehind`);
* two writers that have the temporary file at the same time can leave an empty or torn state
  file (`state.py` 136; `contended` in `ReplacedWhole`);
* a client that the web server records before the main loop ever saved it has a partial
  record in the file; a start that meets it ends with `KeyError` (`web.py` 730, `state.py`
  163), and so does every start after it (`Stumble`);
* two stores that make an identity at the same time leave files of both (`raced` in
  `IdentityIsOne`); `test_concurrent_controller_identity_creation_is_consistent` has its
  threads share one store, while the main loop and the web server have one each;
* a pairing between the two halves of an unpairing is cleared from the configuration, and the
  agent stays paired (`web.py` 1534; `excused` in `PairedIsConfigured`);
* a pairing or unpairing whose answer is lost, or whose configuration cannot be written,
  leaves agent and configuration different until an administrator repairs it (`web.py` 1353;
  `excused`), and so does a policy whose rollback fails (`web.py` 1452);
* a device that is reset and paired again by hand finds the old policy still in the
  configuration (`web.py` 1347), while the agent has none (`excused` in `PoliciesAgree`);
* a client with `mac: auto` whose device is off when the configuration is loaded, as
  after a restart of the controller during an outage, is left out and not woken until the
  next load (`config.py` 237 and 253);
* a client that went down and came back during a restoration stays in
  `recorded_down_clients` and is reported at the timeout as failed (`cli.py` 240);
* an edit of the configuration between loading it and first reading its mtime
  (`cli.py` 31 and 48) is not noticed;
* an update policy that is set while the agent is being unpaired survives the pairing
  (`main.go` 533);
* after a failed restart the version that runs is compared with the manifest
  (`main.go` 581), not the one in place: a release that was withdrawn for an older one
  that is still newer than what runs replaces the newer binary.

## 7. Not modelled

Planned parts are listed in section 2. Not planned: notifications (no state
depends on them), the web interface, authentication and TLS, parsing of YAML
and NUT output and the validation of fields (pure functions of their input),
certificates and signing, installers. The network protocol between controller and agent is
modelled by its outcomes in `Monitor`, and by its handlers in `Agent`; the two are
not composed: what `Monitor` assumes of an agent (it remembers a command it
accepted, then powers off, or restarts before) is what `Agent` shows as long as no
stale copy is saved.
