--------------------------- MODULE MonitorProofs ---------------------------
(***************************************************************************)
(* Theorems about Monitor for every set of clients, every set of           *)
(* configurations and every bound: type correctness, when clients are      *)
(* woken, and what the state file holds.  The safety invariants of an      *)
(* outage are in InvariantProofs.                                          *)
(***************************************************************************)
EXTENDS Monitor, TrackerProofs

---------------------------------------------------------------------------
(* Type correctness *)

(* A configuration in use has its type. *)
LEMMA ConfigTyped ==
    ASSUME TypeOK
    PROVE  /\ config \in ConfigType
           /\ config.names \subseteq Clients
           /\ config.poll_interval \in Nat
           /\ config.poll_interval \in Ages
BY TrackerAssumption DEF TypeOK, ConfigType, Ages

(* What load_config() makes of a file, with or without the clients that    *)
(* have to be looked up.                                                   *)
LEMMA LoadedType ==
    ASSUME NEW cfg \in Configs, NEW new \in Loaded(cfg)
    PROVE  new \in ConfigType /\ new.names \subseteq Clients
<1>1. cfg \in ConfigType
  BY MonitorAssumption
<1>2. PICK unresolved \in SUBSET LookedUp(cfg) :
          new = [cfg EXCEPT !.names = @ \ unresolved]
  BY DEF Loaded
<1> QED BY <1>1, <1>2 DEF ConfigType

(* What one step does to the timer and to the records it writes. *)
LEMMA AgedTimerType ==
    ASSUME NEW start \in Ages \cup {NoTimer}, NEW d \in Nat
    PROVE  AgedTimer(start, d) \in Ages \cup {NoTimer}
BY OlderType DEF AgedTimer

LEMMA CommandType ==
    ASSUME TypeOK, NEW c \in Clients, pc = "deliver"
    PROVE  /\ tracker.clients[c] \in ClientStates
           /\ command_for(c) \in Commands
           /\ shutdown_accepted(tracker.clients[c], command_for(c)) \in ClientStates
           /\ shutdown_failed(tracker.clients[c], command_for(c)) \in ClientStates
<1>1. tracker.clients[c] \in ClientStates
  BY DEF TypeOK, Trackers
<1>2. command_for(c) \in Commands
  <2>1. tracker.clients[c].shutdown \in ShutdownStates
    BY <1>1 DEF ClientStates
  <2>2. tracker.outage_id \in Nat \ {NoOutage}
    BY DEF TypeOK, Trackers
  <2> QED BY <2>1, <2>2 DEF command_for, ShutdownStates, Commands
<1> QED BY <1>1, <1>2, ClientOperationTypes

LEMMA ServedType ==
    ASSUME TypeOK, pc = "deliver", NEW c \in Clients, NEW record \in ClientStates,
           Served(c, record), pending' \subseteq Clients,
           processed' \in [Clients -> SUBSET Commands]
    PROVE  TypeOK'
<1>1. tracker' \in Trackers
  BY DEF Served, TypeOK, Trackers
<1>2. pc' \in Phases /\ todo' \subseteq Clients
  BY DEF Served, TypeOK, Phases
<1>3. tracker'.outage_id # NoOutage
  BY DEF Served, TypeOK, Trackers
<1> QED BY <1>1, <1>2, <1>3
        DEF Served, TypeOK, loop, files, history

LEMMA AgentAcceptsType ==
    ASSUME TypeOK, NEW c \in Clients, NEW command \in Commands,
           AgentAccepts(c, command)
    PROVE  /\ pending' \subseteq Clients
           /\ processed' \in [Clients -> SUBSET Commands]
BY DEF AgentAccepts, TypeOK

LEMMA InitType == Init => TypeOK
<1> SUFFICES ASSUME Init PROVE TypeOK
  OBVIOUS
<1>1. new_tracker \in Trackers /\ Never \in Ages
  BY NewTypes, TrackerAssumption DEF Never, Ages
<1>2. Incomplete \in Readings
  BY DEF Readings
<1>3. power \in [Clients -> {"on", "off"}]
  BY DEF Init
<1>4. config \in ConfigType
  BY MonitorAssumption DEF Init
<1> QED BY <1>1, <1>2, <1>3, <1>4 DEF Init, TypeOK, Phases, Commands

LEMMA NextType == TypeOK /\ [Next]_vars => TypeOK'
<1> SUFFICES ASSUME TypeOK, [Next]_vars
             PROVE  TypeOK'
  OBVIOUS
<1> USE DEF TypeOK
<1>0. tracker \in Trackers /\ disk \in Trackers
  OBVIOUS
<1>1. CASE LoadConfig
  BY <1>1, LoadedType DEF LoadConfig, Phases, loop, memory, files, devices, history
<1>2. CASE InitTracker
  <2>1. tracker' \in Trackers
    BY <1>2, ConfigTyped, TrackerOperationTypes DEF InitTracker
  <2>2. on_battery' \in BOOLEAN
    BY <1>2 DEF InitTracker, Trackers
  <2> QED BY <1>2, <2>1, <2>2 DEF InitTracker, Phases, devices
<1>3. CASE ReloadConfig
  <2>1. CASE config_file \in Configs
    <3>1. config' \in ConfigType /\ config'.names \subseteq Clients
      BY <1>3, <2>1, LoadedType DEF ReloadConfig
    <3>2. sync_clients(tracker, config'.names) \in Trackers
      BY <3>1, TrackerOperationTypes
    <3>3. tracker.tracked \subseteq Clients
      BY DEF Trackers
    <3>4. dirty' \in BOOLEAN
      BY <1>3, <2>1 DEF ReloadConfig, sync_dirties
    <3> QED BY <1>3, <2>1, <3>1, <3>2, <3>3, <3>4 DEF ReloadConfig, devices
  <2>2. CASE config_file \notin Configs
    BY <1>3, <2>2 DEF ReloadConfig, devices
  <2> QED BY <2>1, <2>2
<1>4. CASE PollIncomplete
  BY <1>4 DEF PollIncomplete, Readings, Phases, loop, memory, files, devices, history
<1>5. ASSUME NEW battery \in Batteries, NEW online \in SUBSET Clients,
             PollOnBattery(battery, online)
      PROVE  TypeOK'
  <2>1. battery \in 0..FullBattery /\ outages + 1 \in Nat
    BY TrackerAssumption
  <2>2. AfterPing(online) \in Trackers
    BY TrackerOperationTypes DEF AfterPing
  <2>3. tracker' \in Trackers
    <3>1. mark_all_online_clients(AfterPing(online)) \in Trackers
      BY <2>2, TrackerOperationTypes
    <3> QED BY <1>5, <2>1, <2>2, <3>1, TrackerOperationTypes
            DEF PollOnBattery, PowerLost
  <2>4. reading' \in Readings
    BY <1>5 DEF PollOnBattery, Readings
  <2>5. todo' \subseteq Clients
    BY <1>5, ConfigTyped DEF PollOnBattery, Due, Enabled
  <2>6. dirty' \in BOOLEAN /\ pc' \in Phases
    BY <1>5 DEF PollOnBattery, Phases
  <2>7. outages' \in Nat /\ online_before' \subseteq Clients
    BY <1>5 DEF PollOnBattery
  <2>8. 0 \in Ages
    BY TrackerAssumption DEF Ages
  <2>9. tracker'.outage_id # NoOutage
    <3>1. mark_all_online_clients(AfterPing(online)) \in Trackers
      BY <2>2, TrackerOperationTypes
    <3>2. outages + 1 \in Nat \ {NoOutage}
      BY DEF NoOutage
    <3> QED BY <1>5, <2>1, <2>2, <3>1, <3>2, BeginDraws DEF PollOnBattery, PowerLost
  <2> QED BY <1>5, <2>3, <2>4, <2>5, <2>6, <2>7, <2>8, <2>9
          DEF PollOnBattery, files, devices
<1>6. ASSUME NEW battery \in Batteries, NEW online \in SUBSET Clients,
             PollRestoring(battery, online)
      PROVE  TypeOK'
  <2>1. tracker' \in Trackers
    BY <1>6, TrackerOperationTypes DEF PollRestoring, AfterPing
  <2>2. restoration_start' \in Ages \cup {NoTimer}
    BY <1>6, TrackerAssumption DEF PollRestoring, Ages
  <2>3. reading' \in Readings /\ pc' \in Phases /\ dirty' \in BOOLEAN
    BY <1>6 DEF PollRestoring, Readings, Phases
  <2> QED BY <1>6, <2>1, <2>2, <2>3
          DEF PollRestoring, files, devices, history
<1>7. ASSUME NEW battery \in Batteries, NEW online \in SUBSET Clients,
             PollIdle(battery, online)
      PROVE  TypeOK'
  <2>1. tracker' \in Trackers
    BY <1>7, TrackerOperationTypes DEF PollIdle, AfterPing
  <2>2. reading' \in Readings /\ pc' \in Phases
    BY <1>7 DEF PollIdle, Readings, Phases
  <2> QED BY <1>7, <2>1, <2>2 DEF PollIdle, files, devices, history
<1>8. ASSUME NEW c \in Clients, DeliverAccepted(c) PROVE TypeOK'
  BY <1>8, CommandType, AgentAcceptsType, ServedType DEF DeliverAccepted
<1>9. ASSUME NEW c \in Clients, DeliverReplyLost(c) PROVE TypeOK'
  BY <1>9, CommandType, AgentAcceptsType, ServedType DEF DeliverReplyLost
<1>10. ASSUME NEW c \in Clients, DeliverFailed(c) PROVE TypeOK'
  BY <1>10, CommandType, ServedType DEF DeliverFailed
<1>11. ASSUME NEW sent \in SUBSET Clients, WakeClients(sent) PROVE TypeOK'
  <2>1. AfterWake(sent) \in Trackers
    <3>1. \A c \in Clients : /\ mark_skip(tracker.clients[c]) \in ClientStates
                             /\ mark_wol_sent(tracker.clients[c]) \in ClientStates
      BY ClientOperationTypes DEF Trackers
    <3> QED BY <3>1, ReplaceType DEF AfterWake
  <2>2. tracker' \in Trackers
    BY <1>11, <2>1, TrackerOperationTypes DEF WakeClients
  <2>3. Candidates \subseteq Clients
    BY ConfigTyped DEF Candidates, Enabled
  <2>4. recorded_down' \subseteq Clients /\ recorded_up' \subseteq Clients
    BY <1>11, <2>3 DEF WakeClients, StillDown, Up, Down
  <2>5. reported_wol_failures' \subseteq Clients
    BY <1>11, <2>3 DEF WakeClients, ToWake, Down
  <2>6. dirty' \in BOOLEAN /\ pc' \in Phases
    BY <1>11 DEF WakeClients, Phases
  <2> QED BY <1>11, <2>2, <2>4, <2>5, <2>6
          DEF WakeClients, files, devices, history
<1>12. ASSUME NEW other \in BOOLEAN,
              NEW result \in {"ok", "write_failed", "rename_failed"},
              SaveAndSleep(other, result)
       PROVE  TypeOK'
  <2> DEFINE r == SaveResult(other, result)
             d == config.poll_interval
  <2>1. /\ r.disk \in Trackers /\ r.saved \subseteq Trackers
        /\ r.dirty \in BOOLEAN /\ r.stale \in BOOLEAN
    BY DEF SaveResult
  <2>2. d \in Nat
    BY ConfigTyped
  <2>3. disk' \in Trackers /\ tracker' \in Trackers /\ saved' \subseteq Trackers
    <3>1. \A t \in Trackers : Aged(t, d) \in Trackers
      BY <2>2, TrackerOperationTypes
    <3>2. /\ disk' = Aged(r.disk, d) /\ tracker' = Aged(tracker, d)
          /\ saved' = {Aged(t, d) : t \in r.saved}
      BY <1>12 DEF SaveAndSleep
    <3> HIDE DEF r, d
    <3> QED BY <2>1, <3>1, <3>2
  <2>4. since_battery' \in Ages
    BY <1>12, <2>2, OlderType DEF SaveAndSleep
  <2>5. restoration_start' \in Ages \cup {NoTimer}
    BY <1>12, <2>2, AgedTimerType DEF SaveAndSleep
  <2>6. faults' \in Nat /\ pc' \in Phases
    BY <1>12 DEF SaveAndSleep, Phases
  <2>7. dirty' \in BOOLEAN /\ stale_file' \in BOOLEAN
    BY <1>12, <2>1 DEF SaveAndSleep
  <2> QED BY <1>12, <2>3, <2>4, <2>5, <2>6, <2>7 DEF SaveAndSleep, devices
<1>13. CASE Crash
  <2>1. new_tracker \in Trackers
    BY NewTypes
  <2>2. forgotten' \subseteq Clients
    BY <1>13 DEF Crash, LostByCrash
  <2>3. faults' \in Nat
    BY <1>13 DEF Crash
  <2> QED BY <1>13, <2>1, <2>2, <2>3 DEF Crash, Phases, files, devices
<1>14. CASE TimePassesWhileDown
  BY <1>14, TrackerOperationTypes, OlderType
  DEF TimePassesWhileDown, loop, memory, devices
<1>15. ASSUME NEW c \in Clients, Device(c) PROVE TypeOK'
  <2> USE DEF Environment, loop, memory
  <2>1. CASE PowerOff(c)
    BY <2>1 DEF PowerOff
  <2>2. CASE AgentRestart(c)
    BY <2>2 DEF AgentRestart
  <2>3. CASE Boot(c)
    BY <2>3 DEF Boot
  <2>4. CASE SwitchOff(c)
    BY <2>4 DEF SwitchOff
  <2> QED BY <1>15, <2>1, <2>2, <2>3, <2>4 DEF Device
<1>16. ASSUME NEW new \in Configs \cup {InvalidConfig}, EditConfig(new)
       PROVE  TypeOK'
  BY <1>16 DEF EditConfig, Environment, loop, memory, devices
<1>17. CASE UNCHANGED vars
  BY <1>17 DEF vars, loop, memory, files, devices, history
<1> QED
  BY <1>1, <1>2, <1>3, <1>4, <1>5, <1>6, <1>7, <1>8, <1>9, <1>10, <1>11,
     <1>12, <1>13, <1>14, <1>15, <1>16, <1>17
  DEF Next, Process, Poll, Deliver, Wake, Save

(* Every variable keeps its type, and deliveries are made under an outage   *)
(* identifier.                                                             *)
THEOREM TypeCorrect == Spec => []TypeOK
BY InitType, NextType, PTL DEF Spec

---------------------------------------------------------------------------
(* When the main loop wakes clients, and when it completes a restoration *)

(* The wake loop is the only step from "wake" to "save". *)
LEMMA WakeStep ==
    ASSUME [Next]_vars, pc = "wake", pc' = "save"
    PROVE  Wake
BY DEF vars, Next, Process, LoadConfig, InitTracker, ReloadConfig, Poll,
       PollIncomplete, PollOnBattery, PollRestoring, PollIdle, Ping, Deliver,
       DeliverAccepted, DeliverReplyLost, DeliverFailed, Save, SaveAndSleep,
       Crash, TimePassesWhileDown, Device, PowerOff, AgentRestart, Boot,
       SwitchOff, EditConfig, Environment

LEMMA InitDelay == Init => DelayInv
<1> SUFFICES ASSUME Init PROVE DelayInv
  OBVIOUS
<1>1. since_battery \in Nat
  BY TrackerAssumption DEF Init, Never
<1> QED BY <1>1 DEF Init, DelayInv, NoTimer

(* Ageing keeps the order of the two timers. *)
LEMMA AgedTogether ==
    ASSUME NEW start \in Ages \cup {NoTimer}, NEW since \in Ages,
           NEW d \in Nat, start <= since
    PROVE  AgedTimer(start, d) <= Older(since, d)
BY TrackerAssumption DEF AgedTimer, Older, Ages, NoTimer

LEMMA NextDelay == TypeOK /\ DelayInv /\ [Next]_vars => DelayInv'
<1> SUFFICES ASSUME TypeOK, DelayInv, [Next]_vars PROVE DelayInv'
  OBVIOUS
<1>0. /\ restoration_start \in Ages \cup {NoTimer} /\ since_battery \in Ages
      /\ Ages \subseteq Nat /\ NoTimer = -1 /\ config.restore_delay \in Ages
  BY ConfigTyped, MonitorAssumption DEF TypeOK, Ages, NoTimer, ConfigType
<1>1. CASE LoadConfig \/ PollIncomplete \/ UNCHANGED vars
  BY <1>1 DEF LoadConfig, PollIncomplete, vars, loop, history, DelayInv
<1>2. CASE InitTracker
  BY <1>2 DEF InitTracker, DelayInv
<1>3. CASE ReloadConfig
  BY <1>3 DEF ReloadConfig, DelayInv
<1>4. ASSUME NEW battery \in Batteries, NEW online \in SUBSET Clients,
             PollOnBattery(battery, online)
      PROVE  DelayInv'
  BY <1>0, <1>4 DEF PollOnBattery, DelayInv
<1>5. ASSUME NEW battery \in Batteries, NEW online \in SUBSET Clients,
             PollRestoring(battery, online)
      PROVE  DelayInv'
  BY <1>0, <1>5 DEF PollRestoring, MayWake, history, DelayInv
<1>6. ASSUME NEW battery \in Batteries, NEW online \in SUBSET Clients,
             PollIdle(battery, online)
      PROVE  DelayInv'
  BY <1>6 DEF PollIdle, history, DelayInv
<1>7. CASE Deliver
  <2>1. UNCHANGED <<config, restoration_start, since_battery>> /\ pc' # "wake"
    BY <1>7 DEF Deliver, DeliverAccepted, DeliverReplyLost, DeliverFailed,
                Served, loop, history
  <2> QED BY <2>1 DEF DelayInv
<1>8. CASE Wake
  BY <1>0, <1>8 DEF Wake, WakeClients, history, DelayInv
<1>9. CASE Save
  <2>1. /\ restoration_start' = AgedTimer(restoration_start, config.poll_interval)
        /\ since_battery' = Older(since_battery, config.poll_interval)
        /\ pc' = "poll"
    BY <1>9 DEF Save, SaveAndSleep
  <2> QED BY <1>0, <2>1, ConfigTyped, AgedTogether DEF DelayInv
<1>10. CASE Crash
  BY <1>0, <1>10 DEF Crash, DelayInv
<1>11. CASE TimePassesWhileDown
  <2>1. Older(since_battery, 1) >= since_battery
    BY <1>0, TrackerAssumption DEF Older, Ages
  <2>2. Older(since_battery, 1) \in Nat
    BY <1>0, OlderType
  <2> QED BY <1>0, <1>11, <2>1, <2>2 DEF TimePassesWhileDown, loop, DelayInv
<1>12. ASSUME NEW c \in Clients, Device(c) PROVE DelayInv'
  BY <1>12 DEF Device, PowerOff, AgentRestart, Boot, SwitchOff, Environment,
               loop, DelayInv
<1>13. ASSUME NEW new \in Configs \cup {InvalidConfig}, EditConfig(new)
       PROVE  DelayInv'
  BY <1>13 DEF EditConfig, Environment, loop, DelayInv
<1> QED
  BY <1>1, <1>2, <1>3, <1>4, <1>5, <1>6, <1>7, <1>8, <1>9, <1>10, <1>11, <1>12,
     <1>13
  DEF Next, Process, Poll

(* No wake packet is sent before restore_delay_sec have passed since the   *)
(* last OB snapshot: the timer that main() compares with the delay starts  *)
(* after that snapshot, and starts again after every restart.              *)
THEOREM WakesAfterDelay == Spec => WakeAfterRestoreDelay
<1>1. TypeOK /\ DelayInv /\ [Next]_vars =>
         [Woken # {} => since_battery >= config.restore_delay]_vars
  <2> SUFFICES ASSUME TypeOK, DelayInv, pc = "wake"
               PROVE  since_battery >= config.restore_delay
    BY DEF Woken
  <2>1. /\ restoration_start \in Int /\ since_battery \in Int
        /\ config.restore_delay \in Int
    BY ConfigTyped DEF TypeOK, Ages, NoTimer, ConfigType
  <2> QED BY <2>1 DEF DelayInv
<1>2. Spec => []DelayInv
  BY InitDelay, InitType, NextDelay, NextType, PTL DEF Spec
<1> QED BY <1>1, <1>2, TypeCorrect, PTL DEF Spec, WakeAfterRestoreDelay

(* A restoration is completed only when every client that is to be woken   *)
(* answered the last ping: recorded_down_clients may hold clients that are *)
(* up, never the other way round.                                          *)
THEOREM CompletesWhenUp == Spec => CompletedMeansUp
<1>1. TypeOK /\ [Next]_vars =>
         [Completed => \A c \in Candidates : tracker.clients[c].is_online]_vars
  <2> SUFFICES ASSUME TypeOK, [Next]_vars, Completed,
                      NEW c \in Candidates
               PROVE  tracker.clients[c].is_online
    OBVIOUS
  <2>1. PICK sent \in SUBSET Clients : WakeClients(sent)
    BY WakeStep DEF Completed, Wake
  <2>2. AfterWake(sent).ups_on_battery = tracker.ups_on_battery
    BY DEF AfterWake, Replace, TypeOK, Trackers
  <2>3. StillDown = {}
    BY <2>1, <2>2 DEF WakeClients, Completed
  <2> QED BY <2>3 DEF StillDown, Down, Up
<1> QED BY <1>1, TypeCorrect, PTL DEF Spec, CompletedMeansUp

---------------------------------------------------------------------------
(* What the state file holds *)

(* Contents are the same when all fields but the tracked names are.        *)
LEMMA SameFields ==
    ASSUME NEW s \in Trackers, NEW t \in Trackers
    PROVE  SameContents(s, t) <=>
              /\ s.ups_on_battery = t.ups_on_battery
              /\ s.battery = t.battery
              /\ s.outage_id = t.outage_id
              /\ s.clients = t.clients
BY DEF SameContents, Trackers

(* Loading adds names only, and time changes equal contents equally.       *)
LEMMA SameLoaded ==
    ASSUME NEW t \in Trackers, NEW names \in SUBSET Clients
    PROVE  SameContents(t, load(t, names))
<1>1. load(t, names) \in Trackers
  BY TrackerOperationTypes
<1> QED BY <1>1, SameFields DEF load, Trackers

LEMMA SameAged ==
    ASSUME NEW s \in Trackers, NEW t \in Trackers, NEW d \in Nat,
           SameContents(s, t)
    PROVE  SameContents(Aged(s, d), Aged(t, d))
<1>1. Aged(s, d) \in Trackers /\ Aged(t, d) \in Trackers
  BY TrackerOperationTypes
<1>2. s.clients = t.clients
  BY SameFields
<1>3. Aged(s, d).clients = Aged(t, d).clients
  BY <1>2 DEF Aged, Trackers
<1> QED BY <1>1, <1>3, SameFields DEF Aged, Trackers

(* sync_clients() changes nothing when it does not set _dirty.             *)
LEMMA SyncSame ==
    ASSUME NEW t \in Trackers, NEW names \in SUBSET Clients,
           ~sync_dirties(t, names)
    PROVE  sync_clients(t, names) = t
<1> DEFINE fresh == [c \in Clients |-> new_client_state]
<1>1. t.tracked = names
  BY DEF sync_dirties
<1>2. Replace(t, t.tracked \ names, fresh) = t
  BY <1>1 DEF Replace, Trackers
<1> QED BY <1>1, <1>2 DEF sync_clients, Trackers

(* A step that leaves the file alone and sets _dirty with every change.    *)
LEMMA MarksChanges ==
    ASSUME FileInv, Running' => Running, UNCHANGED <<disk, saved, stale_file>>,
           ~dirty' => ~dirty /\ tracker' = tracker
    PROVE  FileInv'
BY DEF FileInv

LEMMA NextFile == TypeOK /\ FileInv /\ [Next]_vars => FileInv'
<1> SUFFICES ASSUME TypeOK, FileInv, [Next]_vars PROVE FileInv'
  OBVIOUS
<1>0. tracker \in Trackers /\ disk \in Trackers /\ dirty \in BOOLEAN
  BY DEF TypeOK
<1>1. CASE LoadConfig
  BY <1>1 DEF LoadConfig, FileInv, Running
<1>2. CASE InitTracker
  BY <1>0, <1>2, ConfigTyped, SameLoaded DEF InitTracker, FileInv
<1>3. CASE ReloadConfig
  <2>1. UNCHANGED <<pc, disk, saved, stale_file>>
    BY <1>3 DEF ReloadConfig
  <2>2. ASSUME ~dirty' PROVE ~dirty /\ tracker' = tracker
    <3>1. CASE config_file \in Configs
      <4>1. config'.names \in SUBSET Clients
        BY <1>3, <3>1, LoadedType DEF ReloadConfig
      <4>2. ~dirty /\ ~sync_dirties(tracker, config'.names)
        BY <1>3, <2>2, <3>1 DEF ReloadConfig
      <4> QED BY <1>0, <1>3, <3>1, <4>1, <4>2, SyncSame DEF ReloadConfig
    <3>2. CASE config_file \notin Configs
      BY <1>3, <2>2, <3>2 DEF ReloadConfig
    <3> QED BY <3>1, <3>2
  <2> QED BY <2>1, <2>2, MarksChanges DEF Running
<1>4. CASE PollIncomplete \/ UNCHANGED vars
  <2>1. UNCHANGED <<disk, saved, stale_file, dirty, tracker>> /\ (Running' => Running)
    BY <1>4 DEF PollIncomplete, vars, memory, files, history, Running
  <2> QED BY <2>1, MarksChanges
<1>5. ASSUME NEW battery \in Batteries, NEW online \in SUBSET Clients,
             PollOnBattery(battery, online)
      PROVE  FileInv'
  <2>1. UNCHANGED <<disk, saved, stale_file>> /\ Running
    BY <1>5 DEF PollOnBattery, Ping, files, Running
  <2>2. ~dirty' => ~dirty /\ tracker' = tracker
    BY <1>5 DEF PollOnBattery
  <2> QED BY <2>1, <2>2, MarksChanges
<1>6. ASSUME NEW battery \in Batteries, NEW online \in SUBSET Clients,
             PollRestoring(battery, online)
      PROVE  FileInv'
  <2>1. UNCHANGED <<disk, saved, stale_file>> /\ Running
    BY <1>6 DEF PollRestoring, Ping, files, history, Running
  <2>2. ~dirty' => ~dirty /\ tracker' = tracker
    BY <1>6 DEF PollRestoring
  <2> QED BY <2>1, <2>2, MarksChanges
<1>7. ASSUME NEW battery \in Batteries, NEW online \in SUBSET Clients,
             PollIdle(battery, online)
      PROVE  FileInv'
  <2>1. UNCHANGED <<disk, saved, stale_file>> /\ Running /\ dirty'
    BY <1>7 DEF PollIdle, Ping, files, history, Running
  <2> QED BY <2>1, MarksChanges
<1>8. CASE Deliver
  <2>1. UNCHANGED <<disk, saved, stale_file>> /\ Running /\ dirty'
    BY <1>8 DEF Deliver, DeliverAccepted, DeliverReplyLost, DeliverFailed,
                Served, files, history, Running
  <2> QED BY <2>1, MarksChanges
<1>9. CASE Wake
  <2>1. UNCHANGED <<disk, saved, stale_file>> /\ Running
    BY <1>9 DEF Wake, WakeClients, files, history, Running
  <2>2. ~dirty' => ~dirty /\ tracker' = tracker
    BY <1>9 DEF Wake, WakeClients
  <2> QED BY <2>1, <2>2, MarksChanges
<1>10. ASSUME NEW other \in BOOLEAN,
              NEW result \in {"ok", "write_failed", "rename_failed"},
              SaveAndSleep(other, result)
       PROVE  FileInv'
  <2> DEFINE r == SaveResult(other, result)
             d == config.poll_interval
  <2>1. /\ disk' = Aged(r.disk, d) /\ tracker' = Aged(tracker, d)
        /\ saved' = {Aged(t, d) : t \in r.saved}
        /\ dirty' = r.dirty /\ stale_file' = r.stale
        /\ Running /\ (~MustSave(other) => result = "ok")
    BY <1>10 DEF SaveAndSleep, Running
  <2>2. d \in Nat
    BY ConfigTyped
  <2>3. ~r.stale => /\ r.disk \in Trackers
                    /\ r.saved \subseteq {r.disk}
                    /\ ~r.dirty => SameContents(r.disk, tracker)
    <3>1. CASE ~MustSave(other)
      BY <1>0, <2>1, <3>1 DEF SaveResult, FileInv
    <3>2. CASE MustSave(other) /\ result = "ok"
      BY <1>0, <3>2 DEF SaveResult, SameContents
    <3>3. CASE MustSave(other) /\ result = "write_failed"
      BY <1>0, <2>1, <3>3 DEF SaveResult, FileInv
    <3>4. CASE MustSave(other) /\ result = "rename_failed"
      BY <3>4 DEF SaveResult
    <3> QED BY <3>1, <3>2, <3>3, <3>4
  <2> HIDE DEF r, d
  <2> QED BY <1>0, <2>1, <2>2, <2>3, SameAged DEF FileInv
<1>11. CASE Crash
  BY <1>11 DEF Crash, FileInv, Running
<1>12. CASE TimePassesWhileDown
  BY <1>12 DEF TimePassesWhileDown, FileInv, Running
<1>13. ASSUME NEW c \in Clients, Device(c) PROVE FileInv'
  <2>1. UNCHANGED <<pc, disk, saved, stale_file, dirty, tracker>>
    BY <1>13 DEF Device, PowerOff, AgentRestart, Boot, SwitchOff, Environment,
                 memory
  <2> QED BY <2>1, MarksChanges DEF Running
<1>14. ASSUME NEW new \in Configs \cup {InvalidConfig}, EditConfig(new)
       PROVE  FileInv'
  <2>1. UNCHANGED <<pc, disk, saved, stale_file, dirty, tracker>>
    BY <1>14 DEF EditConfig, Environment, memory
  <2> QED BY <2>1, MarksChanges DEF Running
<1> QED
  BY <1>1, <1>2, <1>3, <1>4, <1>5, <1>6, <1>7, <1>8, <1>9, <1>10, <1>11, <1>12,
     <1>13, <1>14
  DEF Next, Process, Poll, Save

(* What the state file holds is what memory holds, unless the next         *)
(* save_state() is going to write it: every operation of the tracker sets  *)
(* _dirty with what it changes, and the hash of the last save, compared    *)
(* to skip a write, is that of the file.                                   *)
THEOREM FileIsCurrent == Spec => []FileFollowsMemory
<1>1. Init => FileInv
  BY DEF Init, FileInv, Running
<1>2. FileInv => FileFollowsMemory
  BY DEF FileInv, FileFollowsMemory, SameContents
<1>3. Spec => []FileInv
  BY <1>1, InitType, NextFile, NextType, PTL DEF Spec
<1> QED BY <1>2, <1>3, PTL
=============================================================================
