------------------------------ MODULE Monitor ------------------------------
(***************************************************************************)
(* The controller's main loop (wolnut/cli.py, main) with the state tracker *)
(* (Tracker), the shutdown coordinator (wolnut/shutdown.py), the state     *)
(* file, hot reload of the configuration, and the devices with the agent   *)
(* each runs, as far as the loop can tell them apart.                      *)
(*                                                                         *)
(* One iteration of the loop is Poll... ; Deliver...* or WakeClients ;     *)
(* SaveAndSleep.  The process can die between any two of these steps and   *)
(* is started again; devices switch on and off at any time; a ping or a    *)
(* request can be lost.  Time passes in SaveAndSleep and while the process *)
(* is down.                                                                *)
(***************************************************************************)
EXTENDS Tracker, FiniteSets

CONSTANTS Configs,        \* configurations the file can hold
          InvalidConfig,  \* a file load_config() refuses
          RetryFloor,     \* the least delay between two deliveries (5 s)
          MaxOutages,     \* bound on the outage identifiers drawn
          MaxRearms,      \* bound on delivery_sequence
          MaxFaults,      \* bound on crashes, failed saves, agent restarts
          MaxEdits        \* bound on changes of the configuration file

(* What the configuration says of a client.  A client whose shutdown is    *)
(* enabled has an agent_id: validate_config() refuses it otherwise.        *)
Settings == [enabled : BOOLEAN, wake_enabled : BOOLEAN, auto_mac : BOOLEAN,
             always_wake : BOOLEAN, shutdown_enabled : BOOLEAN, threshold : 1..FullBattery]

ConfigType ==
    [names : SUBSET Clients, client : [Clients -> Settings],
     poll_interval : Ages \ {0}, min_battery : 0..FullBattery,
     restore_delay : Ages, client_timeout : 0..(Horizon - 1),
     reattempt_delay : Ages]

ASSUME MonitorAssumption ==
    /\ Configs \subseteq ConfigType
    /\ InvalidConfig \notin Configs
    /\ RetryFloor \in Ages
    /\ {MaxOutages, MaxRearms, MaxFaults, MaxEdits} \subseteq Nat

VARIABLES
    pc,                     \* phase of the loop
    config,                 \* the configuration in use
    on_battery,
    restoration_event,
    restoration_start,      \* age of restoration_event_start, or NoTimer
    recorded_down,          \* recorded_down_clients
    recorded_up,            \* recorded_up_clients
    reported_wol_failures,
    tracker,                \* state_tracker
    dirty,                  \* state_tracker._dirty
    saved,                  \* the contents whose hash is _status_hash
    todo,                   \* clients process_on_battery() has yet to serve
    reading                 \* the last UPS snapshot

VARIABLES
    config_file,            \* contents of the configuration file
    file_changed,           \* its mtime is not last_mtime
    disk,                   \* contents of the state file

    power,                  \* each device: on or off
    pending,                \* devices whose agent will power them off
    processed               \* commands each agent has accepted, persisted

(* History: uuids drawn, faults and edits that happened, the age of the    *)
(* last OB snapshot, the clients whose delivery record was lost, whether a *)
(* failed rename left an old state file behind, and the clients that were  *)
(* online when the current outage identifier was drawn.                    *)
VARIABLES outages, faults, edits, since_battery, forgotten, stale_file,
          online_before

loop == <<on_battery, restoration_event, restoration_start, recorded_down,
          recorded_up, reported_wol_failures>>
memory == <<tracker, dirty, saved>>
files == <<config_file, file_changed, disk>>
devices == <<power, pending, processed>>
history == <<outages, faults, edits, since_battery, forgotten, stale_file,
             online_before>>
vars == <<pc, config, loop, memory, todo, reading, files, devices, history>>

NoTimer == -1
Phases == {"down", "starting", "poll", "deliver", "wake", "save"}
Incomplete == [mode |-> "incomplete", battery |-> FullBattery]
Readings == [mode : {"OL", "OB"}, battery : Batteries] \cup {Incomplete}

Enabled == {c \in config.names : config.client[c].enabled}
Reachable == {c \in Clients : power[c] = "on"}

(* A timer that is not set does not age. *)
AgedTimer(start, d) == IF start = NoTimer THEN NoTimer ELSE Older(start, d)

---------------------------------------------------------------------------
(* The process: start, crash, hot reload *)

Init ==
    /\ pc = "down"
    /\ config \in Configs
    /\ config_file = config
    /\ file_changed = FALSE
    /\ on_battery = FALSE
    /\ restoration_event = FALSE
    /\ restoration_start = NoTimer
    /\ recorded_down = {}
    /\ recorded_up = {}
    /\ reported_wol_failures = {}
    /\ tracker = new_tracker
    /\ dirty = FALSE
    /\ saved = {}
    /\ todo = {}
    /\ reading = Incomplete
    /\ disk = new_tracker
    /\ power \in [Clients -> {"on", "off"}]
    /\ pending = {}
    /\ processed = [c \in Clients |-> {}]
    /\ outages = 0
    /\ faults = 0
    /\ edits = 0
    /\ since_battery = Never
    /\ forgotten = {}
    /\ stale_file = FALSE
    /\ online_before = {}

(* load_config(): a client is left out when it is to be woken at a MAC      *)
(* address that has to be looked up and cannot be.                         *)
LookedUp(cfg) == {c \in cfg.names : cfg.client[c].wake_enabled /\ cfg.client[c].auto_mac}
Loaded(cfg) ==
    {[cfg EXCEPT !.names = @ \ unresolved] : unresolved \in SUBSET LookedUp(cfg)}

(* main() loads the configuration; it gives up when the file is invalid.   *)
LoadConfig ==
    /\ pc = "down"
    /\ config_file \in Configs
    /\ config' \in Loaded(config_file)
    /\ pc' = "starting"
    /\ UNCHANGED <<loop, memory, todo, reading, files, devices, history>>

(* It takes last_mtime only after that, creates the tracker from the state *)
(* file, and resumes the battery event the file remembers.                 *)
InitTracker ==
    /\ pc = "starting"
    /\ file_changed' = FALSE
    /\ tracker' = load(disk, config.names)
    /\ saved' = {disk}
    /\ on_battery' = disk.ups_on_battery
    /\ stale_file' = FALSE
    /\ pc' = "poll"
    /\ UNCHANGED <<config, restoration_event, restoration_start, recorded_down,
                   recorded_up, reported_wol_failures, dirty, todo, reading,
                   config_file, disk, devices, outages, faults, edits,
                   since_battery, forgotten, online_before>>

(* A configuration file that changed is loaded at the top of the loop.     *)
ReloadConfig ==
    /\ pc = "poll"
    /\ file_changed
    /\ file_changed' = FALSE
    /\ IF config_file \in Configs
       THEN /\ config' \in Loaded(config_file)
            /\ tracker' = sync_clients(tracker, config'.names)
            /\ dirty' = (dirty \/ sync_dirties(tracker, config'.names))
            /\ recorded_down' = recorded_down \cap Enabled'
            /\ recorded_up' = recorded_up \cap Enabled'
            /\ forgotten' = forgotten \cup (tracker.tracked \ config'.names)
       ELSE UNCHANGED <<config, tracker, dirty, recorded_down, recorded_up,
                        forgotten>>
    /\ UNCHANGED <<pc, on_battery, restoration_event, restoration_start,
                   reported_wol_failures, saved, todo, reading, config_file,
                   disk, devices, outages, faults, edits, since_battery,
                   stale_file, online_before>>

(* The delivery record of a client is lost when the state file differs.    *)
LostByCrash ==
    IF tracker.outage_id # disk.outage_id THEN Clients
    ELSE {c \in Clients :
            tracker.clients[c].shutdown # disk.clients[c].shutdown}

(* The process dies in any phase; only the files are left. *)
Crash ==
    /\ pc # "down"
    /\ faults < MaxFaults
    /\ faults' = faults + 1
    /\ forgotten' = forgotten \cup (IF pc = "starting" THEN {} ELSE LostByCrash)
    /\ pc' = "down"
    /\ on_battery' = FALSE
    /\ restoration_event' = FALSE
    /\ restoration_start' = NoTimer
    /\ recorded_down' = {}
    /\ recorded_up' = {}
    /\ reported_wol_failures' = {}
    /\ tracker' = new_tracker
    /\ dirty' = FALSE
    /\ saved' = {}
    /\ todo' = {}
    /\ UNCHANGED <<config, reading, files, devices, outages, edits,
                   since_battery, stale_file, online_before>>

TimePassesWhileDown ==
    /\ pc = "down"
    /\ disk' = Aged(disk, 1)
    /\ since_battery' = Older(since_battery, 1)
    /\ UNCHANGED <<pc, config, loop, memory, todo, reading, config_file,
                   file_changed, devices, outages, faults, edits, forgotten,
                   stale_file, online_before>>

---------------------------------------------------------------------------
(* One iteration: read the UPS, ping the enabled clients, branch *)

(* The tracker after the pings; a client that answers is switched on.      *)
AfterPing(online) == Pinged(tracker, Enabled, online)

Ping(online) ==
    /\ pc = "poll"
    /\ ~file_changed
    /\ online \subseteq Enabled \cap Reachable
    /\ \A c \in Clients :
         AfterPing(online).clients[c].shutdown.delivery_sequence <= MaxRearms

(* No snapshot: nothing is decided in this iteration. *)
PollIncomplete ==
    /\ pc = "poll"
    /\ ~file_changed
    /\ reading' = Incomplete
    /\ pc' = "save"
    /\ UNCHANGED <<config, loop, memory, todo, files, devices, history>>

(* Clients whose shutdown process_on_battery() asks for in this iteration. *)
Due(t, battery) ==
    LET retry_delay == IF config.poll_interval > RetryFloor
                       THEN config.poll_interval ELSE RetryFloor
    IN {c \in Enabled : /\ config.client[c].shutdown_enabled
                        /\ battery <= config.client[c].threshold
                        /\ should_attempt_shutdown(t.clients[c], retry_delay)}

(* OB: remember who was online when the battery took over, begin (or       *)
(* continue) the outage, and stop a restoration that was under way.        *)
PowerLost(t, battery) ==
    begin_outage(IF on_battery THEN t ELSE mark_all_online_clients(t),
                 battery, outages + 1)

PollOnBattery(battery, online) ==
    /\ Ping(online)
    /\ tracker' = PowerLost(AfterPing(online), battery)
    /\ tracker'.outage_id <= MaxOutages
    /\ IF tracker'.outage_id > outages
       THEN /\ outages' = outages + 1
            /\ online_before' = {c \in Clients : tracker'.clients[c].is_online}
       ELSE UNCHANGED <<outages, online_before>>
    /\ dirty' = (dirty \/ tracker' # tracker
                       \/ (~on_battery /\ tracker.tracked # {}))
    /\ on_battery' = TRUE
    /\ restoration_event' = FALSE
    /\ restoration_start' = NoTimer
    /\ reading' = [mode |-> "OB", battery |-> battery]
    /\ since_battery' = 0
    /\ todo' = Due(tracker', battery)
    /\ pc' = IF todo' = {} THEN "save" ELSE "deliver"
    /\ UNCHANGED <<config, recorded_down, recorded_up, reported_wol_failures,
                   saved, files, devices, faults, edits, forgotten, stale_file>>

(* OL after OB: the restoration timer starts with the first such snapshot; *)
(* clients are woken once the battery and the delay allow it.              *)
MayWake_at_once(battery, start) == battery >= config.min_battery

MayWake(battery, start) ==
    battery >= config.min_battery /\ start >= config.restore_delay

PollRestoring(battery, online) ==
    /\ Ping(online)
    /\ on_battery \/ restoration_event
    /\ tracker' = AfterPing(online)
    /\ dirty' = (dirty \/ tracker' # tracker)
    /\ on_battery' = FALSE
    /\ restoration_event' = TRUE
    /\ restoration_start' = IF restoration_start = NoTimer THEN 0
                            ELSE restoration_start
    /\ reading' = [mode |-> "OL", battery |-> battery]
    /\ pc' = IF MayWake(battery, restoration_start') THEN "wake" ELSE "save"
    /\ UNCHANGED <<config, recorded_down, recorded_up, reported_wol_failures,
                   saved, todo, files, devices, history>>

(* OL and nothing to restore: forget the outage. *)
PollIdle(battery, online) ==
    /\ Ping(online)
    /\ ~on_battery /\ ~restoration_event
    /\ tracker' = reset(AfterPing(online))
    /\ dirty' = TRUE
    /\ recorded_down' = {}
    /\ recorded_up' = {}
    /\ reported_wol_failures' = {}
    /\ reading' = [mode |-> "OL", battery |-> battery]
    /\ pc' = "save"
    /\ UNCHANGED <<config, on_battery, restoration_event, restoration_start,
                   saved, todo, files, devices, history>>

---------------------------------------------------------------------------
(* process_on_battery(): one delivery per client that is due *)

command_for(c) ==
    LET sd == tracker.clients[c].shutdown
    IN IF sd.command_id # NoCommand THEN sd.command_id
       ELSE [outage |-> tracker.outage_id, sequence |-> sd.delivery_sequence]

Served(c, record) ==
    /\ tracker' = [tracker EXCEPT !.clients[c] = record]
    /\ dirty' = TRUE
    /\ todo' = todo \ {c}
    /\ pc' = IF todo' = {} THEN "save" ELSE "deliver"
    /\ UNCHANGED <<config, loop, saved, reading, files, power, history>>

(* The agent persists a command it has not seen and will power the device  *)
(* off; one it has seen it only accepts again (acceptCommand).             *)
AgentAccepts(c, command) ==
    /\ power[c] = "on"
    /\ processed' = [processed EXCEPT ![c] = @ \cup {command}]
    /\ pending' = IF command \in processed[c] THEN pending
                  ELSE pending \cup {c}

DeliverAccepted(c) ==
    /\ pc = "deliver"
    /\ c \in todo
    /\ AgentAccepts(c, command_for(c))
    /\ Served(c, shutdown_accepted(tracker.clients[c], command_for(c)))

(* The agent accepts, but its answer does not arrive. *)
DeliverReplyLost(c) ==
    /\ pc = "deliver"
    /\ c \in todo
    /\ AgentAccepts(c, command_for(c))
    /\ Served(c, shutdown_failed(tracker.clients[c], command_for(c)))

(* Nothing arrives: no connection, another identity, a refused request. *)
DeliverFailed(c) ==
    /\ pc = "deliver"
    /\ c \in todo
    /\ Served(c, shutdown_failed(tracker.clients[c], command_for(c)))
    /\ UNCHANGED <<pending, processed>>

---------------------------------------------------------------------------
(* The wake loop, and how a restoration ends *)

(* Clients the loop marks to be skipped for the rest of the outage. *)
NotWoken ==
    {c \in Enabled :
        \/ ~config.client[c].wake_enabled
        \/ /\ ~config.client[c].always_wake
           /\ ~tracker.clients[c].was_online}

Candidates == {c \in Enabled \ NotWoken : ~tracker.clients[c].skip}
Up == {c \in Candidates : tracker.clients[c].is_online}
Down == Candidates \ Up

(* A client is taken off the list of those that are down when it is first  *)
(* seen up, and not when it is seen up again later.                        *)
StillDown_only_known == recorded_down \ (Up \ recorded_up)

StillDown == (recorded_down \ (Up \ recorded_up)) \cup Down

ToWake == {c \in Down : should_attempt_wol(tracker.clients[c],
                                           config.reattempt_delay)}

(* The tracker after the loop, when packets were sent to the names in sent. *)
AfterWake(sent) ==
    LET skipped == Replace(tracker, NotWoken,
                           [c \in Clients |-> mark_skip(tracker.clients[c])])
    IN Replace(skipped, sent,
               [c \in Clients |-> mark_wol_sent(tracker.clients[c])])

TimedOut_never == FALSE

TimedOut == restoration_start > config.client_timeout

WakeClients(sent) ==
    /\ pc = "wake"
    /\ sent \subseteq ToWake
    /\ recorded_down' = StillDown
    /\ recorded_up' = recorded_up \cup Up
    /\ tracker' = IF StillDown = {} THEN reset(AfterWake(sent))
                  ELSE AfterWake(sent)
    /\ dirty' = (dirty \/ tracker' # tracker \/ StillDown = {} \/ sent # {})
    /\ IF StillDown = {} \/ TimedOut
       THEN /\ restoration_event' = FALSE
            /\ restoration_start' = NoTimer
            /\ reported_wol_failures' = {}
       ELSE /\ reported_wol_failures' =
                   reported_wol_failures \cup (ToWake \ sent)
            /\ UNCHANGED <<restoration_event, restoration_start>>
    /\ pc' = "save"
    /\ UNCHANGED <<config, on_battery, saved, todo, reading, files, devices,
                   history>>

---------------------------------------------------------------------------
(* The end of an iteration *)

(* save_state().  It writes when the state is dirty and its hash is new;   *)
(* other is TRUE when the agent updates observed just before, which are no *)
(* part of this model, changed the state too.  Writing the temporary file  *)
(* can fail (the state stays dirty), and so can moving it into place (the  *)
(* state counts as saved all the same).                                    *)
MustSave(other) == other \/ (dirty /\ tracker \notin saved)

(* Faulty: the dirty flag is cleared whatever happens. *)
SaveResult_forgets(other, result) ==
    [disk |-> IF result = "ok" /\ MustSave(other) THEN tracker ELSE disk,
     saved |-> saved, dirty |-> FALSE, stale |-> stale_file]

SaveResult(other, result) ==
    IF ~MustSave(other)
    THEN [disk |-> disk, saved |-> saved, dirty |-> dirty, stale |-> stale_file]
    ELSE CASE result = "ok" ->
                [disk |-> tracker, saved |-> {tracker}, dirty |-> FALSE,
                 stale |-> FALSE]
           [] result = "write_failed" ->
                [disk |-> disk, saved |-> IF other THEN {} ELSE saved,
                 dirty |-> TRUE, stale |-> stale_file]
           [] result = "rename_failed" ->
                [disk |-> disk, saved |-> {tracker}, dirty |-> FALSE,
                 stale |-> TRUE]

SaveAndSleep(other, result) ==
    LET r == SaveResult(other, result)
        d == config.poll_interval
    IN /\ pc = "save"
       /\ MustSave(other) \/ result = "ok"
       /\ faults' = IF result = "ok" THEN faults ELSE faults + 1
       /\ faults' <= MaxFaults
       /\ disk' = Aged(r.disk, d)
       /\ saved' = {Aged(t, d) : t \in r.saved}
       /\ dirty' = r.dirty
       /\ stale_file' = r.stale
       /\ tracker' = Aged(tracker, d)
       /\ restoration_start' = AgedTimer(restoration_start, d)
       /\ since_battery' = Older(since_battery, d)
       /\ pc' = "poll"
       /\ UNCHANGED <<config, on_battery, restoration_event, recorded_down,
                      recorded_up, reported_wol_failures, todo, reading,
                      config_file, file_changed, devices, outages, edits,
                      forgotten, online_before>>

---------------------------------------------------------------------------
(* The environment: devices, their agents, whoever edits the configuration *)

Environment == <<pc, config, loop, memory, todo, reading, disk, outages,
                 since_battery, forgotten, stale_file, online_before>>

(* The agent powers its device off two seconds after it accepted. *)
PowerOff(c) ==
    /\ c \in pending
    /\ pending' = pending \ {c}
    /\ power' = [power EXCEPT ![c] = "off"]
    /\ UNCHANGED <<Environment, processed, config_file, file_changed, faults,
                   edits>>

(* The agent stops before it got to do so: nothing resumes the power-off.  *)
AgentRestart(c) ==
    /\ c \in pending
    /\ faults < MaxFaults
    /\ faults' = faults + 1
    /\ pending' = pending \ {c}
    /\ UNCHANGED <<Environment, power, processed, config_file, file_changed,
                   edits>>

(* A device is switched on: by a wake packet, by hand, by its firmware.    *)
Boot(c) ==
    /\ power[c] # "on"
    /\ power' = [power EXCEPT ![c] = "on"]
    /\ UNCHANGED <<Environment, pending, processed, config_file, file_changed,
                   faults, edits>>

(* A device is switched off for a reason of its own. *)
SwitchOff(c) ==
    /\ power[c] = "on"
    /\ power' = [power EXCEPT ![c] = "off"]
    /\ pending' = pending \ {c}
    /\ UNCHANGED <<Environment, processed, config_file, file_changed, faults,
                   edits>>

EditConfig(new) ==
    /\ edits < MaxEdits
    /\ edits' = edits + 1
    /\ config_file' = new
    /\ file_changed' = TRUE
    /\ UNCHANGED <<Environment, devices, faults>>

---------------------------------------------------------------------------
(* Specification *)

Poll ==
    \/ PollIncomplete
    \/ \E battery \in Batteries, online \in SUBSET Clients :
          \/ PollOnBattery(battery, online)
          \/ PollRestoring(battery, online)
          \/ PollIdle(battery, online)

Deliver ==
    \E c \in Clients :
        DeliverAccepted(c) \/ DeliverReplyLost(c) \/ DeliverFailed(c)

Wake == \E sent \in SUBSET Clients : WakeClients(sent)

Save == \E other \in BOOLEAN, result \in {"ok", "write_failed", "rename_failed"} :
            SaveAndSleep(other, result)

Process == LoadConfig \/ InitTracker \/ ReloadConfig \/ Poll \/ Deliver \/ Wake
             \/ Save

Device(c) == PowerOff(c) \/ AgentRestart(c) \/ Boot(c) \/ SwitchOff(c)

Next ==
    \/ Process
    \/ Crash
    \/ TimePassesWhileDown
    \/ \E c \in Clients : Device(c)
    \/ \E new \in Configs \cup {InvalidConfig} : EditConfig(new)

Spec == Init /\ [][Next]_vars


(* The service manager starts the process again and the loop keeps going   *)
(* (it has no unbounded wait); a device that is asked again and again is   *)
(* reached at last.                                                        *)
Fairness ==
    /\ WF_vars(Process)
    /\ \A c \in Clients : SF_vars(DeliverAccepted(c))

FairSpec == Spec /\ Fairness

---------------------------------------------------------------------------
(* Invariants *)

Running == pc \notin {"down", "starting"}

(* In particular no agent is ever sent the identifier of no outage, which  *)
(* would be the same in every outage: deliveries are made under one.       *)
TypeOK ==
    /\ pc \in Phases
    /\ config \in ConfigType
    /\ on_battery \in BOOLEAN /\ restoration_event \in BOOLEAN
    /\ restoration_start \in Ages \cup {NoTimer}
    /\ recorded_down \subseteq Clients /\ recorded_up \subseteq Clients
    /\ reported_wol_failures \subseteq Clients
    /\ tracker \in Trackers /\ disk \in Trackers /\ saved \subseteq Trackers
    /\ dirty \in BOOLEAN
    /\ todo \subseteq Clients
    /\ reading \in Readings
    /\ config_file \in Configs \cup {InvalidConfig}
    /\ file_changed \in BOOLEAN
    /\ power \in [Clients -> {"on", "off"}]
    /\ pending \subseteq Clients
    /\ processed \in [Clients -> SUBSET Commands]
    /\ outages \in Nat /\ faults \in Nat /\ edits \in Nat
    /\ since_battery \in Ages
    /\ forgotten \subseteq Clients /\ online_before \subseteq Clients
    /\ stale_file \in BOOLEAN
    /\ pc = "deliver" => tracker.outage_id # NoOutage

(* While the loop is on battery or restoring, the tracker (what a restart  *)
(* resumes from) knows of the outage and has an identifier for it; loop    *)
(* and timer agree on whether a restoration is under way.  The loop keeps  *)
(* on_battery and restoration_event beside the tracker's ups_on_battery    *)
(* and changes them at different places.                                   *)
HasId(t) == t.ups_on_battery => t.outage_id # NoOutage

OutageRemembered ==
    /\ on_battery \/ restoration_event => tracker.ups_on_battery
    /\ HasId(tracker) /\ HasId(disk)
    /\ ~(on_battery /\ restoration_event)
    /\ restoration_event <=> restoration_start # NoTimer

(* A command remembered during an outage was made for that outage and that *)
(* delivery, in memory and in the state file: process_on_battery() reuses  *)
(* a remembered identifier without looking at it, and would otherwise send *)
(* one the agent takes for an old request.                                 *)
CommandsCurrent(t) ==
    \A c \in Clients :
        LET sd == t.clients[c].shutdown
        IN t.ups_on_battery /\ sd.command_id # NoCommand =>
              sd.command_id = [outage |-> t.outage_id,
                               sequence |-> sd.delivery_sequence]

CommandOfThisOutage == CommandsCurrent(tracker) /\ CommandsCurrent(disk)

(* A shutdown counted as acknowledged was accepted, and persisted, by the  *)
(* agent, whatever was lost or retried on the way.                         *)
AcksReal(t) ==
    \A c \in Clients :
        LET sd == t.clients[c].shutdown
        IN sd.acknowledged => sd.command_id \in processed[c]

AcceptedBeforeAcknowledged == AcksReal(tracker) /\ AcksReal(disk)

(* A command that is sent for the first time is new to the agent, so that  *)
(* it powers the device off instead of accepting a duplicate - unless the  *)
(* record of an earlier delivery was lost by a crash before save_state()   *)
(* or by removing the client from the configuration.                       *)
FreshFor(t, c) ==
    \A p \in processed[c] :
        LET sd == t.clients[c].shutdown
        IN p.outage = t.outage_id =>
              \/ p.sequence < sd.delivery_sequence
              \/ p.sequence = sd.delivery_sequence /\ sd.command_id = p

FreshCommand ==
    Running => \A c \in Clients \ forgotten : FreshFor(tracker, c)

(* What the state file holds is what memory holds, unless the next         *)
(* save_state() is going to write it: no operation of the tracker forgets  *)
(* to set _dirty, and the hash never skips a write that is needed.  Only a *)
(* failed rename breaks this.                                              *)
SameContents(s, t) == [s EXCEPT !.tracked = {}] = [t EXCEPT !.tracked = {}]

FileFollowsMemory ==
    Running /\ ~stale_file =>
        (dirty /\ tracker \notin saved) \/ SameContents(disk, tracker)

---------------------------------------------------------------------------
(* The inductive invariants behind what MonitorProofs and InvariantProofs   *)
(* show                                                                    *)

(* What the phases of the loop imply. *)
PhaseInv ==
    /\ pc \in {"down", "starting"} => ~on_battery /\ ~restoration_event
    /\ pc = "wake" => restoration_event
    /\ pc = "deliver" => on_battery
    /\ pc # "deliver" => todo = {}

(* Every configured client is tracked, so that no result is dropped.       *)
TrackedInv ==
    /\ Running => config.names \subseteq tracker.tracked
    /\ todo \subseteq tracker.tracked
    /\ \A c \in todo : ~tracker.clients[c].shutdown.acknowledged

(* A name that is not tracked has no command, and identifiers were drawn.  *)
TrackerInv(t) ==
    /\ HasId(t)
    /\ CommandsCurrent(t)
    /\ t.outage_id <= outages
    /\ \A c \in Clients \ t.tracked :
           t.clients[c].shutdown.command_id = NoCommand

ProcessedInv ==
    \A c \in Clients : \A p \in processed[c] : p.outage \in 1..outages

FreshInv ==
    \A c \in Clients \ forgotten :
        IF Running THEN FreshFor(tracker, c) ELSE FreshFor(disk, c)

IInv ==
    /\ TypeOK
    /\ OutageRemembered
    /\ PhaseInv
    /\ TrackedInv
    /\ TrackerInv(tracker) /\ TrackerInv(disk)
    /\ AcceptedBeforeAcknowledged
    /\ ProcessedInv
    /\ FreshInv

(* The restoration timer is never older than the last OB snapshot, and the *)
(* wake loop is entered with the timer past the delay.                     *)
DelayInv ==
    /\ restoration_start <= since_battery
    /\ pc = "wake" => restoration_start >= config.restore_delay

(* The hash is that of the file, and without _dirty nothing has changed    *)
(* since the file was read or written.                                     *)
FileInv ==
    Running /\ ~stale_file =>
        saved \subseteq {disk} /\ (~dirty => SameContents(disk, tracker))

---------------------------------------------------------------------------
(* Action properties *)

Woken == {c \in Clients : /\ pc = "wake" /\ pc' = "save"
                          /\ c \in ToWake
                          /\ tracker'.clients[c].wol_sent = 0}

(* No wake packet is sent before restore_delay_sec have passed since the   *)
(* last OB snapshot, however often the power came and went and the process *)
(* was restarted in between.                                               *)
WakeAfterRestoreDelay ==
    [][Woken # {} => since_battery >= config.restore_delay]_vars

(* A restoration is completed (the tracker is reset) only when every       *)
(* client that is to be woken answered the last ping.                      *)
Completed == pc = "wake" /\ pc' = "save"
               /\ tracker.ups_on_battery /\ ~tracker'.ups_on_battery

CompletedMeansUp ==
    [][Completed => \A c \in Candidates : tracker.clients[c].is_online]_vars

---------------------------------------------------------------------------
(* Refinement *)

(* What Outage sees of the loop, of a tracker, of the tracker that counts,  *)
(* and of the agents.                                                      *)
LoopPhase == IF ~Running THEN "down"
             ELSE IF on_battery THEN "battery"
             ELSE IF restoration_event THEN "restoring" ELSE "idle"

OutageOf(t) == IF t.ups_on_battery THEN t.outage_id ELSE NoOutage

OutageNow == OutageOf(IF Running THEN tracker ELSE disk)

AcceptedFor == [c \in Clients |-> {p.outage : p \in processed[c]}]

promise == INSTANCE Outage WITH
    phase <- LoopPhase, current <- OutageNow, remembered <- OutageOf(disk),
    drawn <- outages, accepted <- AcceptedFor

(* Tracker, state file and the loop's flags together keep what Outage      *)
(* promises: an identifier is drawn when an outage begins and at no other  *)
(* time, agents are asked for the outage under way, and an outage that     *)
(* was saved ends only in main()'s restoration or the look after it, with  *)
(* any number of crashes, failed saves and reloads in between.             *)
OutagesKept == promise!Spec

---------------------------------------------------------------------------
(* Liveness *)

(* When the UPS stays on line with enough battery, the outage comes to an  *)
(* end for the controller, whether or not the devices come back.           *)
PowerIsBack == reading.mode = "OL" /\ reading.battery >= config.min_battery

OutageEnds == <>[]PowerIsBack => <>[](~tracker.ups_on_battery)

(* While the UPS stays on battery below a client's threshold, delivery is  *)
(* retried until the client's agent has accepted or the device is off.     *)
BelowThreshold(c) ==
    /\ reading.mode = "OB"
    /\ c \in Enabled
    /\ config.client[c].shutdown_enabled
    /\ reading.battery <= config.client[c].threshold
    /\ Running

DeliveryRetried ==
    \A c \in Clients :
        <>[]BelowThreshold(c) =>
            []<>(tracker.clients[c].shutdown.acknowledged \/ power[c] # "on")

---------------------------------------------------------------------------
(* What the documents and messages of the program say, and the code does   *)
(* not keep                                                                *)

(* README.md: "Tracks which clients were online before the outage"; cli.py *)
(* skips a client that "was not online before power loss".                 *)
SkippedWereOffline ==
    [][\A c \in Clients \ forgotten :
          /\ pc = "wake" /\ c \in Enabled /\ config.client[c].wake_enabled
          /\ ~tracker.clients[c].skip /\ tracker'.clients[c].skip
          => c \notin online_before]_vars

(* cli.py ends a restoration with "all clients are back online!".          *)
CompletedMeansBack ==
    [][Completed => \A c \in Candidates : c \notin pending]_vars

(* README.md: "A shutdown acknowledgement means the agent accepted and     *)
(* scheduled" the power-off.  Here for a command that the tracker has just *)
(* made: its agent must not take it for one it has seen.                   *)
NewCommandSchedules ==
    [][\A c \in Clients :
          DeliverAccepted(c) /\ tracker.clients[c].shutdown.command_id = NoCommand
          => c \in pending']_vars

=============================================================================
