-------------------------- MODULE InvariantProofs --------------------------
(***************************************************************************)
(* The inductive invariant of Monitor.  The operations of the tracker are  *)
(* first reduced to what they do to the delivery records; each action of   *)
(* the loop then preserves the invariant by one of a few lemmas.           *)
(***************************************************************************)
EXTENDS MonitorProofs

USE DEF NoOutage, NoCommand

(* A quiet step keeps the outage and who is tracked; a delivery record is  *)
(* kept, or re-armed when its client is tracked.                           *)
SameMeta(s, t) ==
    /\ s.ups_on_battery = t.ups_on_battery
    /\ s.outage_id = t.outage_id
    /\ s.tracked = t.tracked

Keeps(a, b) ==
    /\ a.command_id = b.command_id
    /\ a.acknowledged = b.acknowledged
    /\ a.delivery_sequence = b.delivery_sequence

Rearms(a, b) ==
    /\ a.command_id = NoCommand
    /\ a.acknowledged = FALSE
    /\ a.delivery_sequence = b.delivery_sequence + 1

Quiet(s, t) ==
    /\ SameMeta(s, t)
    /\ \A c \in Clients :
          \/ Keeps(s.clients[c].shutdown, t.clients[c].shutdown)
          \/ /\ c \in t.tracked
             /\ Rearms(s.clients[c].shutdown, t.clients[c].shutdown)

---------------------------------------------------------------------------
(* The operations of the tracker, as far as deliveries are concerned *)

LEMMA ShutdownTyped ==
    ASSUME NEW t \in Trackers, NEW c \in Clients
    PROVE  /\ t.clients[c] \in ClientStates
           /\ t.clients[c].shutdown \in ShutdownStates
           /\ t.clients[c].shutdown.command_id \in Commands \cup {NoCommand}
           /\ t.clients[c].shutdown.delivery_sequence \in Nat
           /\ t.clients[c].shutdown.acknowledged \in BOOLEAN
           /\ t.outage_id \in Nat
BY DEF Trackers, ClientStates, ShutdownStates

LEMMA UpdateEffect ==
    ASSUME NEW st \in ClientStates, NEW online \in BOOLEAN
    PROVE  \/ Keeps(update(st, online).shutdown, st.shutdown)
           \/ Rearms(update(st, online).shutdown, st.shutdown)
<1>1. st.shutdown \in ShutdownStates
  BY DEF ClientStates
<1>2. Rearms(rearmed(st.shutdown), st.shutdown)
  BY <1>1 DEF Rearms, rearmed, new_shutdown_state, ShutdownStates
<1>3. ASSUME NEW b
      PROVE  Keeps([st.shutdown EXCEPT !.offline_after_ack = b], st.shutdown)
  BY <1>1 DEF Keeps, ShutdownStates
<1>4. Keeps(st.shutdown, st.shutdown)
  BY DEF Keeps
<1> QED BY <1>2, <1>3, <1>4 DEF update, ClientStates

LEMMA PingedEffect ==
    ASSUME NEW t \in Trackers, NEW names, NEW online
    PROVE  Quiet(Pinged(t, names, online), t)
<1> DEFINE s == Pinged(t, names, online)
<1>1. SameMeta(s, t)
  BY DEF Pinged, Replace, SameMeta, Trackers
<1>2. ASSUME NEW c \in Clients
      PROVE  \/ Keeps(s.clients[c].shutdown, t.clients[c].shutdown)
             \/ /\ c \in t.tracked
                /\ Rearms(s.clients[c].shutdown, t.clients[c].shutdown)
  <2>1. t.clients[c] \in ClientStates
    BY ShutdownTyped
  <2>2. CASE c \in names \cap t.tracked
    <3>1. s.clients[c] = update(t.clients[c], c \in online)
      BY <2>2 DEF Pinged, Replace, Trackers
    <3>2. CASE c \in online
      <4>1. (c \in online) = TRUE
        BY <3>2
      <4>2. s.clients[c] = update(t.clients[c], TRUE)
        BY <3>1, <4>1
      <4> QED BY <2>1, <2>2, <4>2, UpdateEffect
    <3>3. CASE c \notin online
      <4>1. (c \in online) = FALSE
        BY <3>3
      <4>2. s.clients[c] = update(t.clients[c], FALSE)
        BY <3>1, <4>1
      <4> QED BY <2>1, <2>2, <4>2, UpdateEffect
    <3> QED BY <3>2, <3>3
  <2>3. CASE c \notin names \cap t.tracked
    BY <2>3 DEF Pinged, Replace, Trackers, Keeps
  <2> QED BY <2>2, <2>3
<1> QED BY <1>1, <1>2 DEF Quiet

LEMMA MarkEffect ==
    ASSUME NEW t \in Trackers
    PROVE  Quiet(mark_all_online_clients(t), t)
BY ShutdownTyped
DEF mark_all_online_clients, Replace, Quiet, SameMeta, Keeps, Trackers, ClientStates

LEMMA AgedEffect ==
    ASSUME NEW t \in Trackers, NEW d \in Nat
    PROVE  Quiet(Aged(t, d), t)
<1>1. SameMeta(Aged(t, d), t)
  BY DEF Aged, SameMeta, Trackers
<1>2. ASSUME NEW c \in Clients
      PROVE  Keeps(Aged(t, d).clients[c].shutdown, t.clients[c].shutdown)
  <2>1. Aged(t, d).clients[c] = aged_client(t.clients[c], d)
    BY DEF Aged, Trackers
  <2> QED BY <2>1, ShutdownTyped
          DEF aged_client, Keeps, ClientStates, ShutdownStates
<1> QED BY <1>1, <1>2 DEF Quiet

LEMMA AfterWakeEffect ==
    ASSUME tracker \in Trackers, NEW sent
    PROVE  Quiet(AfterWake(sent), tracker)
<1>1. SameMeta(AfterWake(sent), tracker)
  BY DEF AfterWake, Replace, SameMeta, Trackers
<1>2. ASSUME NEW c \in Clients
      PROVE  Keeps(AfterWake(sent).clients[c].shutdown,
                   tracker.clients[c].shutdown)
  BY ShutdownTyped
  DEF AfterWake, Replace, Keeps, mark_skip, mark_wol_sent, Trackers, ClientStates
<1> QED BY <1>1, <1>2 DEF Quiet

(* What a begun outage looks like: nothing changes in one that is going    *)
(* on; a new one has a new identifier and no commands.                     *)
Begun(s, t, uuid) ==
    /\ s.ups_on_battery = TRUE
    /\ s.tracked = t.tracked
    /\ t.ups_on_battery /\ t.outage_id # NoOutage =>
          s.outage_id = t.outage_id /\ s.clients = t.clients
    /\ ~t.ups_on_battery =>
          /\ s.outage_id = uuid
          /\ \A c \in Clients :
                s.clients[c].shutdown =
                    IF c \in t.tracked THEN new_shutdown_state
                    ELSE t.clients[c].shutdown

LEMMA BeginEffect ==
    ASSUME NEW t \in Trackers, NEW battery, NEW uuid \in Nat \ {0}
    PROVE  Begun(begin_outage(t, battery, uuid), t, uuid)
<1> USE DEF Begun
<1>1. CASE t.ups_on_battery
  BY <1>1 DEF begin_outage, set_ups_on_battery, Trackers
<1>2. CASE ~t.ups_on_battery
  <2> DEFINE f == forget_shutdowns(t)
  <2>1. /\ f.tracked = t.tracked
        /\ \A c \in Clients :
              f.clients[c].shutdown = IF c \in t.tracked THEN new_shutdown_state
                                      ELSE t.clients[c].shutdown
    BY ShutdownTyped DEF forget_shutdowns, Replace, Trackers, ClientStates
  <2>2. f \in Trackers
    <3>1. \A c \in Clients : [t.clients[c] EXCEPT
                    !.shutdown = new_shutdown_state] \in ClientStates
      BY ShutdownTyped, NewTypes DEF ClientStates
    <3> QED BY <3>1, ReplaceType DEF forget_shutdowns
  <2> HIDE DEF f
  <2>3. begin_outage(t, battery, uuid) =
           set_ups_on_battery([f EXCEPT !.outage_id = uuid], TRUE, battery, uuid)
    BY <1>2 DEF begin_outage, f
  <2> QED BY <1>2, <2>1, <2>2, <2>3 DEF set_ups_on_battery, Trackers
<1> QED BY <1>1, <1>2

LEMMA ResetEffect ==
    ASSUME NEW t \in Trackers
    PROVE  /\ reset(t).ups_on_battery = FALSE
           /\ reset(t).outage_id = NoOutage
           /\ reset(t).tracked = t.tracked
           /\ \A c \in Clients :
                 reset(t).clients[c].shutdown = t.clients[c].shutdown
BY ShutdownTyped DEF reset, Replace, Trackers, ClientStates

LEMMA SyncEffect ==
    ASSUME NEW t \in Trackers, NEW names
    PROVE  LET s == sync_clients(t, names) IN
           /\ s.ups_on_battery = t.ups_on_battery
           /\ s.outage_id = t.outage_id
           /\ s.tracked = names
           /\ \A c \in Clients :
                 s.clients[c] = IF c \in t.tracked \ names THEN new_client_state
                                ELSE t.clients[c]
BY DEF sync_clients, Replace, Trackers

---------------------------------------------------------------------------
(* The parts of the invariant under these operations *)

(* A quiet step of a tracker keeps what the invariant says of it. *)
LEMMA QuietKeeps ==
    ASSUME TypeOK, NEW t \in Trackers, NEW s \in Trackers, Quiet(s, t)
    PROVE  /\ TrackerInv(t) => TrackerInv(s)
           /\ AcksReal(t) => AcksReal(s)
           /\ \A c \in Clients : FreshFor(t, c) => FreshFor(s, c)
<1>1. SameMeta(s, t)
  BY DEF Quiet
<1>2. ASSUME TrackerInv(t) PROVE TrackerInv(s)
  <2>1. HasId(s) /\ s.outage_id <= outages
    BY <1>1, <1>2 DEF SameMeta, TrackerInv, HasId
  <2>2. CommandsCurrent(s)
    <3> SUFFICES ASSUME NEW c \in Clients, s.ups_on_battery,
                        s.clients[c].shutdown.command_id # NoCommand
                 PROVE  s.clients[c].shutdown.command_id =
                          [outage |-> s.outage_id,
                           sequence |-> s.clients[c].shutdown.delivery_sequence]
      BY DEF CommandsCurrent
    <3>1. Keeps(s.clients[c].shutdown, t.clients[c].shutdown)
      BY DEF Quiet, Rearms
    <3> QED BY <1>1, <1>2, <3>1 DEF Keeps, SameMeta, TrackerInv, CommandsCurrent
  <2>3. ASSUME NEW c \in Clients \ s.tracked
        PROVE  s.clients[c].shutdown.command_id = NoCommand
    <3>1. Keeps(s.clients[c].shutdown, t.clients[c].shutdown)
      BY <1>1 DEF Quiet, SameMeta
    <3> QED BY <1>1, <1>2, <3>1 DEF Keeps, SameMeta, TrackerInv
  <2> QED BY <2>1, <2>2, <2>3 DEF TrackerInv
<1>3. ASSUME AcksReal(t) PROVE AcksReal(s)
  BY <1>3 DEF AcksReal, Quiet, Keeps, Rearms
<1>4. ASSUME NEW c \in Clients, FreshFor(t, c) PROVE FreshFor(s, c)
  <2> DEFINE a == s.clients[c].shutdown
             b == t.clients[c].shutdown
  <2> SUFFICES ASSUME NEW p \in processed[c], p.outage = s.outage_id
               PROVE  \/ p.sequence < a.delivery_sequence
                      \/ p.sequence = a.delivery_sequence /\ a.command_id = p
    BY DEF FreshFor
  <2>1. \/ p.sequence < b.delivery_sequence
        \/ p.sequence = b.delivery_sequence /\ b.command_id = p
    BY <1>1, <1>4 DEF FreshFor, SameMeta
  <2>2. p.sequence \in Nat
    BY DEF TypeOK, Commands
  <2>3. b.delivery_sequence \in Nat
    BY ShutdownTyped
  <2>4. Keeps(a, b) \/ Rearms(a, b)
    BY DEF Quiet
  <2> QED BY <2>1, <2>2, <2>3, <2>4 DEF Keeps, Rearms
<1> QED BY <1>2, <1>3, <1>4

(* A step that leaves alone everything the invariant speaks of. *)
LEMMA CoreUnchanged ==
    ASSUME IInv, TypeOK',
           UNCHANGED <<tracker, disk, processed, outages, forgotten, on_battery,
                       restoration_event, restoration_start, todo>>,
           \/ pc' = pc /\ config' = config
           \/ LoadConfig
           \/ PollIncomplete
    PROVE  IInv'
<1>1. OutageRemembered'
  BY DEF IInv, OutageRemembered, HasId
<1>2. PhaseInv'
  BY DEF IInv, PhaseInv, LoadConfig, PollIncomplete
<1>3. TrackedInv'
  BY DEF IInv, TrackedInv, Running, LoadConfig, PollIncomplete
<1>4. TrackerInv(tracker)' /\ TrackerInv(disk)'
  BY DEF IInv, TrackerInv, HasId, CommandsCurrent
<1>5. AcceptedBeforeAcknowledged'
  BY DEF IInv, AcceptedBeforeAcknowledged, AcksReal
<1>6. ProcessedInv'
  BY DEF IInv, ProcessedInv
<1>7. Running' = Running
  BY DEF Running, LoadConfig, PollIncomplete
<1>8. FreshInv'
  BY <1>7 DEF IInv, FreshInv, FreshFor
<1> QED BY <1>1, <1>2, <1>3, <1>4, <1>5, <1>6, <1>8 DEF IInv

---------------------------------------------------------------------------
(* Each action preserves the invariant *)

LEMMA StepInitTracker ==
    ASSUME IInv, TypeOK', InitTracker
    PROVE  IInv'
<1> USE DEF InitTracker, devices
<1>1. /\ disk \in Trackers /\ tracker' \in Trackers
      /\ tracker'.ups_on_battery = disk.ups_on_battery
      /\ tracker'.outage_id = disk.outage_id
      /\ tracker'.tracked = disk.tracked \cup config.names
      /\ tracker'.clients = disk.clients
  BY DEF IInv, TypeOK, load, Trackers
<1>2. OutageRemembered'
  BY <1>1 DEF IInv, OutageRemembered, HasId, PhaseInv
<1>3. PhaseInv'
  BY DEF IInv, PhaseInv
<1>4. TrackedInv'
  BY <1>1 DEF IInv, TrackedInv, PhaseInv
<1>5. TrackerInv(tracker)' /\ TrackerInv(disk)'
  BY <1>1 DEF IInv, TrackerInv, HasId, CommandsCurrent
<1>6. AcceptedBeforeAcknowledged'
  BY <1>1 DEF IInv, AcceptedBeforeAcknowledged, AcksReal
<1>7. ProcessedInv'
  BY DEF IInv, ProcessedInv
<1>8. FreshInv'
  <2>1. ~Running /\ Running'
    BY DEF Running
  <2> QED BY <1>1, <2>1 DEF IInv, FreshInv, FreshFor
<1> QED BY <1>2, <1>3, <1>4, <1>5, <1>6, <1>7, <1>8 DEF IInv

LEMMA StepReloadConfig ==
    ASSUME IInv, TypeOK', ReloadConfig
    PROVE  IInv'
<1> USE DEF ReloadConfig, devices
<1>1. CASE config_file \notin Configs
  BY <1>1, CoreUnchanged
<1>2. CASE config_file \in Configs
  <2>0. /\ tracker \in Trackers /\ tracker' \in Trackers
        /\ tracker'.ups_on_battery = tracker.ups_on_battery
        /\ tracker'.outage_id = tracker.outage_id
        /\ tracker'.tracked = config'.names
        /\ \A c \in Clients :
              tracker'.clients[c] =
                 IF c \in tracker.tracked \ config'.names
                 THEN new_client_state ELSE tracker.clients[c]
    BY <1>2, SyncEffect DEF IInv, TypeOK
  <2>1. /\ new_client_state.shutdown.command_id = NoCommand
        /\ new_client_state.shutdown.acknowledged = FALSE
    BY DEF new_client_state, new_shutdown_state
  <2>2. todo = {} /\ Running /\ Running'
    BY DEF IInv, PhaseInv, Running
  <2>3. OutageRemembered'
    BY <2>0 DEF IInv, OutageRemembered, HasId
  <2>4. PhaseInv'
    BY DEF IInv, PhaseInv
  <2>5. TrackedInv'
    BY <1>2, <2>0, <2>2 DEF TrackedInv
  <2>6. TrackerInv(tracker)'
    BY <2>0, <2>1 DEF IInv, TrackerInv, HasId, CommandsCurrent
  <2>7. TrackerInv(disk)'
    BY DEF IInv, TrackerInv, HasId, CommandsCurrent
  <2>8. AcceptedBeforeAcknowledged'
    BY <2>0, <2>1 DEF IInv, AcceptedBeforeAcknowledged, AcksReal
  <2>9. ProcessedInv'
    BY DEF IInv, ProcessedInv
  <2>10. FreshInv'
    <3>1. ASSUME NEW c \in Clients \ forgotten' PROVE FreshFor(tracker, c)'
      <4>1. c \notin forgotten /\ c \notin tracker.tracked \ config'.names
        BY <1>2, <3>1
      <4>2. FreshFor(tracker, c)
        BY <2>2, <4>1 DEF IInv, FreshInv
      <4> QED BY <2>0, <4>1, <4>2 DEF FreshFor
    <3> QED BY <2>2, <3>1 DEF FreshInv
  <2> QED BY <2>3, <2>4, <2>5, <2>6, <2>7, <2>8, <2>9, <2>10 DEF IInv
<1> QED BY <1>1, <1>2

LEMMA StepPollRestoring ==
    ASSUME IInv, TypeOK', NEW battery \in Batteries, NEW online \in SUBSET Clients,
           PollRestoring(battery, online)
    PROVE  IInv'
<1> USE DEF PollRestoring, files, devices, history
<1>1. /\ tracker \in Trackers /\ tracker' \in Trackers
      /\ Quiet(tracker', tracker) /\ SameMeta(tracker', tracker)
  BY PingedEffect DEF IInv, TypeOK, AfterPing, Quiet
<1>2. pc = "poll" /\ todo = {} /\ Running /\ Running'
  BY DEF Ping, IInv, PhaseInv, Running
<1>3. OutageRemembered'
  <2>1. tracker'.ups_on_battery /\ HasId(tracker')
    BY <1>1 DEF IInv, OutageRemembered, HasId, SameMeta
  <2>2. restoration_start' # NoTimer
    BY DEF NoTimer
  <2> QED BY <2>1, <2>2 DEF IInv, OutageRemembered, HasId
<1>4. PhaseInv'
  BY <1>2 DEF PhaseInv
<1>5. TrackedInv'
  BY <1>1, <1>2 DEF IInv, TrackedInv, SameMeta
<1>6. TrackerInv(tracker') /\ AcksReal(tracker')
  BY <1>1, QuietKeeps DEF IInv, AcceptedBeforeAcknowledged
<1>7. TrackerInv(tracker)' /\ TrackerInv(disk)'
  BY <1>6 DEF IInv, TrackerInv, HasId, CommandsCurrent
<1>8. AcceptedBeforeAcknowledged'
  BY <1>6 DEF IInv, AcceptedBeforeAcknowledged, AcksReal
<1>9. ProcessedInv'
  BY DEF IInv, ProcessedInv
<1>10. FreshInv'
  <2>1. \A c \in Clients \ forgotten : FreshFor(tracker', c)
    BY <1>1, <1>2, QuietKeeps DEF IInv, FreshInv
  <2> QED BY <1>2, <2>1 DEF FreshInv, FreshFor
<1> QED BY <1>3, <1>4, <1>5, <1>7, <1>8, <1>9, <1>10 DEF IInv

LEMMA StepPollIdle ==
    ASSUME IInv, TypeOK', NEW battery \in Batteries, NEW online \in SUBSET Clients,
           PollIdle(battery, online)
    PROVE  IInv'
<1> USE DEF PollIdle, files, devices, history
<1> DEFINE t == AfterPing(online)
<1>1. /\ tracker \in Trackers /\ t \in Trackers
      /\ Quiet(t, tracker) /\ SameMeta(t, tracker)
  BY PingedEffect, TrackerOperationTypes DEF IInv, TypeOK, AfterPing, Quiet
<1>2. pc = "poll" /\ todo = {} /\ Running /\ Running'
  BY DEF Ping, IInv, PhaseInv, Running
<1>3. TrackerInv(t) /\ AcksReal(t)
  BY <1>1, QuietKeeps DEF IInv, AcceptedBeforeAcknowledged
<1>4. /\ tracker'.ups_on_battery = FALSE
      /\ tracker'.outage_id = NoOutage
      /\ tracker'.tracked = t.tracked
      /\ \A c \in Clients :
            tracker'.clients[c].shutdown = t.clients[c].shutdown
  <2> HIDE DEF t
  <2>1. tracker' = reset(t)
    BY DEF t
  <2> QED BY <1>1, <2>1, ResetEffect
<1> HIDE DEF t
<1>5. OutageRemembered'
  BY <1>4 DEF IInv, OutageRemembered, HasId
<1>6. PhaseInv'
  BY <1>2 DEF PhaseInv
<1>7. TrackedInv'
  BY <1>1, <1>2, <1>4 DEF IInv, TrackedInv, SameMeta
<1>8. TrackerInv(tracker)'
  BY <1>3, <1>4 DEF IInv, TypeOK, TrackerInv, HasId, CommandsCurrent
<1>9. TrackerInv(disk)'
  BY DEF IInv, TrackerInv, HasId, CommandsCurrent
<1>10. AcceptedBeforeAcknowledged'
  BY <1>3, <1>4 DEF IInv, AcceptedBeforeAcknowledged, AcksReal
<1>11. ProcessedInv'
  BY DEF IInv, ProcessedInv
<1>12. FreshInv'
  <2>1. \A c \in Clients : \A p \in processed[c] : p.outage # NoOutage
    BY DEF IInv, ProcessedInv
  <2> QED BY <1>2, <1>4, <2>1 DEF FreshInv, FreshFor
<1> QED BY <1>5, <1>6, <1>7, <1>8, <1>9, <1>10, <1>11, <1>12 DEF IInv

LEMMA StepPollOnBattery ==
    ASSUME IInv, TypeOK', NEW battery \in Batteries, NEW online \in SUBSET Clients,
           PollOnBattery(battery, online)
    PROVE  IInv'
<1> DEFINE t == AfterPing(online)
           m == IF on_battery THEN t ELSE mark_all_online_clients(t)
<1>1. /\ tracker \in Trackers /\ t \in Trackers /\ m \in Trackers
      /\ Quiet(t, tracker) /\ (m = t \/ Quiet(m, t))
  BY PingedEffect, MarkEffect, TrackerOperationTypes DEF IInv, TypeOK, AfterPing
<1>2. /\ pc = "poll" /\ todo = {} /\ Running /\ Running'
      /\ outages \in Nat /\ tracker' \in Trackers
  BY DEF PollOnBattery, Ping, IInv, PhaseInv, Running, TypeOK
<1>3. /\ SameMeta(m, tracker) /\ TrackerInv(m) /\ AcksReal(m)
      /\ \A c \in Clients \ forgotten : FreshFor(m, c)
  <2>1. /\ SameMeta(t, tracker) /\ TrackerInv(t) /\ AcksReal(t)
        /\ \A c \in Clients \ forgotten : FreshFor(t, c)
    BY <1>1, <1>2, QuietKeeps
    DEF Quiet, IInv, AcceptedBeforeAcknowledged, FreshInv
  <2> HIDE DEF t, m
  <2>2. CASE m = t
    BY <2>1, <2>2
  <2>3. CASE Quiet(m, t)
    BY <1>1, <2>1, <2>3, QuietKeeps DEF Quiet, SameMeta, IInv
  <2> QED BY <1>1, <2>2, <2>3
<1>4. tracker' = begin_outage(m, battery, outages + 1)
  BY DEF PollOnBattery, PowerLost
<1> HIDE DEF t, m
<1>5. /\ tracker'.ups_on_battery = TRUE
      /\ tracker'.tracked = tracker.tracked
      /\ m.ups_on_battery =>
            tracker'.outage_id = m.outage_id /\ tracker'.clients = m.clients
      /\ ~m.ups_on_battery =>
            /\ tracker'.outage_id = outages + 1
            /\ \A c \in Clients :
                  tracker'.clients[c].shutdown =
                      IF c \in m.tracked THEN new_shutdown_state
                      ELSE m.clients[c].shutdown
  <2>1. outages + 1 \in Nat \ {0}
    BY <1>2
  <2>2. m.ups_on_battery => m.outage_id # NoOutage
    BY <1>3 DEF TrackerInv, HasId
  <2>3. m.tracked = tracker.tracked
    BY <1>3 DEF SameMeta
  <2>4. Begun(tracker', m, outages + 1)
    BY <1>1, <1>4, <2>1, BeginEffect
  <2> QED BY <2>2, <2>3, <2>4 DEF Begun
<1>6. /\ tracker'.outage_id \in 1..outages'
      /\ outages' \in {outages, outages + 1}
  BY <1>1, <1>2, <1>3, <1>5, ShutdownTyped
  DEF PollOnBattery, TrackerInv, HasId, Trackers
<1>7. /\ new_shutdown_state.command_id = NoCommand
      /\ new_shutdown_state.acknowledged = FALSE
  BY DEF new_shutdown_state
<1>8. UNCHANGED <<config, disk, processed, forgotten>>
      /\ on_battery' = TRUE /\ restoration_event' = FALSE
      /\ restoration_start' = NoTimer
  BY DEF PollOnBattery, files, devices
<1>9. OutageRemembered'
  BY <1>5, <1>6, <1>8 DEF IInv, OutageRemembered, HasId
<1>10. PhaseInv'
  BY <1>8 DEF PollOnBattery, PhaseInv
<1>11. TrackedInv'
  <2>1. todo' = Due(tracker', battery)
    BY DEF PollOnBattery
  <2>2. todo' \subseteq config.names
    BY <2>1 DEF Due, Enabled
  <2>3. \A c \in todo' : ~tracker'.clients[c].shutdown.acknowledged
    BY <2>1 DEF Due, should_attempt_shutdown
  <2> QED BY <1>2, <1>5, <1>8, <2>2, <2>3 DEF IInv, TrackedInv
<1>12. TrackerInv(tracker)'
  <2>1. CASE m.ups_on_battery
    BY <1>3, <1>5, <1>6, <2>1 DEF TrackerInv, HasId, CommandsCurrent, SameMeta
  <2>2. CASE ~m.ups_on_battery
    <3>1. \A c \in Clients : tracker'.clients[c].shutdown.command_id = NoCommand
      BY <1>3, <1>5, <1>7, <2>2 DEF TrackerInv
    <3> QED BY <1>5, <1>6, <3>1 DEF TrackerInv, HasId, CommandsCurrent
  <2> QED BY <2>1, <2>2
<1>13. TrackerInv(disk)'
  <2>1. disk.outage_id \in Nat
    BY DEF IInv, TypeOK, Trackers
  <2> QED BY <1>2, <1>6, <1>8, <2>1 DEF IInv, TrackerInv, HasId, CommandsCurrent
<1>14. AcceptedBeforeAcknowledged'
  <2>1. AcksReal(tracker)'
    BY <1>3, <1>5, <1>7, <1>8 DEF AcksReal
  <2> QED BY <1>8, <2>1 DEF IInv, AcceptedBeforeAcknowledged, AcksReal
<1>15. ProcessedInv'
  BY <1>2, <1>6, <1>8 DEF IInv, ProcessedInv
<1>16. FreshInv'
  <2>1. CASE m.ups_on_battery
    BY <1>2, <1>3, <1>5, <1>8, <2>1 DEF FreshInv, FreshFor
  <2>2. CASE ~m.ups_on_battery
    <3>1. \A c \in Clients : \A p \in processed[c] : p.outage # tracker'.outage_id
      BY <1>2, <1>5, <2>2 DEF IInv, ProcessedInv
    <3> QED BY <1>2, <1>8, <3>1 DEF FreshInv, FreshFor
  <2> QED BY <2>1, <2>2
<1> QED BY <1>9, <1>10, <1>11, <1>12, <1>13, <1>14, <1>15, <1>16 DEF IInv

(* A delivery, whatever its outcome: the client's record holds the command *)
(* that was sent, and only an accepted command is acknowledged.            *)
LEMMA StepDelivery ==
    ASSUME IInv, TypeOK', NEW c \in todo, NEW record \in ClientStates,
           pc = "deliver", Served(c, record),
           record.shutdown.command_id = command_for(c),
           record.shutdown.delivery_sequence =
              tracker.clients[c].shutdown.delivery_sequence,
           \/ processed' = processed /\ ~record.shutdown.acknowledged
           \/ processed' = [processed EXCEPT ![c] = @ \cup {command_for(c)}]
    PROVE  IInv'
<1> USE DEF Served, loop, files, history
<1> DEFINE command == command_for(c)
           sd == tracker.clients[c].shutdown
<1>1. /\ c \in Clients /\ c \in tracker.tracked /\ tracker \in Trackers
      /\ Running /\ Running'
      /\ outages \in Nat /\ tracker.outage_id \in 1..outages
      /\ tracker.ups_on_battery
  BY ShutdownTyped DEF IInv, TypeOK, TrackedInv, PhaseInv, Running,
     OutageRemembered, TrackerInv, HasId, Trackers
<1>2. /\ command = [outage |-> tracker.outage_id,
                    sequence |-> sd.delivery_sequence]
      /\ sd.command_id # NoCommand => command = sd.command_id
      /\ command # NoCommand
  <2>1. /\ sd.command_id # NoCommand =>
              sd.command_id = [outage |-> tracker.outage_id,
                               sequence |-> sd.delivery_sequence]
    BY <1>1 DEF IInv, TrackerInv, CommandsCurrent
  <2> QED BY <1>1, <2>1 DEF command_for
<1>3. /\ tracker'.ups_on_battery = tracker.ups_on_battery
      /\ tracker'.outage_id = tracker.outage_id
      /\ tracker'.tracked = tracker.tracked
      /\ tracker'.clients[c] = record
      /\ \A d \in Clients \ {c} : tracker'.clients[d] = tracker.clients[d]
  BY <1>1 DEF Trackers
<1>4. \A d \in Clients \ {c} : processed'[d] = processed[d]
  BY <1>1 DEF IInv, TypeOK
<1>5. \/ processed'[c] = processed[c] /\ ~record.shutdown.acknowledged
      \/ processed'[c] = processed[c] \cup {command}
  BY <1>1 DEF IInv, TypeOK
<1> HIDE DEF command
<1>6. OutageRemembered'
  BY <1>3 DEF IInv, OutageRemembered, HasId
<1>7. PhaseInv'
  BY DEF IInv, PhaseInv
<1>8. TrackedInv'
  BY <1>1, <1>3 DEF IInv, TrackedInv
<1>9. TrackerInv(tracker)'
  BY <1>1, <1>2, <1>3 DEF IInv, TrackerInv, HasId, CommandsCurrent, command
<1>10. TrackerInv(disk)'
  BY DEF IInv, TrackerInv, HasId, CommandsCurrent
<1>11. \A d \in Clients : processed[d] \subseteq processed'[d]
  BY <1>4, <1>5
<1>12. AcceptedBeforeAcknowledged'
  <2>1. record.shutdown.acknowledged => command \in processed'[c]
    BY <1>5
  <2>2. AcksReal(tracker)'
    BY <1>3, <1>4, <2>1 DEF IInv, AcceptedBeforeAcknowledged, AcksReal, command
  <2> QED BY <1>11, <2>2 DEF IInv, AcceptedBeforeAcknowledged, AcksReal
<1>13. ProcessedInv'
  <2>1. command.outage \in 1..outages
    BY <1>1, <1>2
  <2> QED BY <1>4, <1>5, <2>1 DEF IInv, ProcessedInv
<1>14. FreshInv'
  <2>1. ASSUME NEW d \in Clients \ forgotten, d # c PROVE FreshFor(tracker, d)'
    BY <1>1, <1>3, <1>4, <2>1 DEF IInv, FreshInv, FreshFor
  <2>2. ASSUME c \notin forgotten PROVE FreshFor(tracker, c)'
    <3> SUFFICES ASSUME NEW p \in processed'[c], p.outage = tracker.outage_id
                 PROVE  \/ p.sequence < sd.delivery_sequence
                        \/ p.sequence = sd.delivery_sequence /\ command = p
      BY <1>3 DEF FreshFor, command
    <3>1. CASE p = command
      BY <1>2, <3>1
    <3>2. CASE p \in processed[c]
      <4>1. \/ p.sequence < sd.delivery_sequence
            \/ p.sequence = sd.delivery_sequence /\ sd.command_id = p
        BY <1>1, <2>2, <3>2 DEF IInv, FreshInv, FreshFor
      <4>2. p # NoCommand
        BY <1>1
      <4> QED BY <1>2, <4>1, <4>2
    <3> QED BY <1>5, <3>1, <3>2
  <2> QED BY <1>1, <2>1, <2>2 DEF FreshInv
<1> QED BY <1>6, <1>7, <1>8, <1>9, <1>10, <1>12, <1>13, <1>14 DEF IInv
(* The three outcomes of a delivery are such steps. *)
LEMMA StepDeliver ==
    ASSUME IInv, TypeOK', NEW c \in Clients,
           DeliverAccepted(c) \/ DeliverReplyLost(c) \/ DeliverFailed(c)
    PROVE  IInv'
<1> DEFINE st == tracker.clients[c]
           command == command_for(c)
<1>1. /\ c \in todo /\ pc = "deliver"
      /\ st \in ClientStates /\ st.shutdown \in ShutdownStates
      /\ ~st.shutdown.acknowledged
      /\ shutdown_accepted(st, command) \in ClientStates
      /\ shutdown_failed(st, command) \in ClientStates
  BY CommandType, ShutdownTyped
  DEF IInv, TypeOK, TrackedInv, DeliverAccepted, DeliverReplyLost, DeliverFailed
<1>2. LET a == shutdown_accepted(st, command).shutdown
          f == shutdown_failed(st, command).shutdown
      IN /\ a.command_id = command
         /\ a.delivery_sequence = st.shutdown.delivery_sequence
         /\ f.command_id = command
         /\ f.delivery_sequence = st.shutdown.delivery_sequence
         /\ f.acknowledged = st.shutdown.acknowledged
  <2> HIDE DEF command
  <2> QED BY <1>1 DEF shutdown_accepted, shutdown_failed, ClientStates,
                      ShutdownStates
<1>3. CASE DeliverAccepted(c)
  BY <1>1, <1>2, <1>3, StepDelivery DEF DeliverAccepted, AgentAccepts
<1>4. CASE DeliverReplyLost(c)
  BY <1>1, <1>2, <1>4, StepDelivery DEF DeliverReplyLost, AgentAccepts
<1>5. CASE DeliverFailed(c)
  BY <1>1, <1>2, <1>5, StepDelivery DEF DeliverFailed
<1> QED BY <1>3, <1>4, <1>5

LEMMA StepWakeClients ==
    ASSUME IInv, TypeOK', NEW sent \in SUBSET Clients, WakeClients(sent)
    PROVE  IInv'
<1> USE DEF WakeClients, files, devices, history
<1> DEFINE w == AfterWake(sent)
<1>1. /\ tracker \in Trackers /\ w \in Trackers
      /\ Quiet(w, tracker) /\ SameMeta(w, tracker)
  <2>1. \A c \in Clients : /\ mark_skip(tracker.clients[c]) \in ClientStates
                           /\ mark_wol_sent(tracker.clients[c]) \in ClientStates
    BY ClientOperationTypes DEF IInv, TypeOK, Trackers
  <2>2. w \in Trackers
    BY <2>1, ReplaceType DEF AfterWake, IInv, TypeOK
  <2> QED BY <2>2, AfterWakeEffect DEF IInv, TypeOK, Quiet
<1>2. TrackerInv(w) /\ AcksReal(w)
  BY <1>1, QuietKeeps DEF IInv, AcceptedBeforeAcknowledged
<1>3. /\ todo = {} /\ Running /\ Running'
      /\ ~on_battery /\ restoration_event
  BY DEF IInv, PhaseInv, OutageRemembered, Running
<1>4. \A c \in Clients \ forgotten : FreshFor(w, c)
  BY <1>1, <1>3, QuietKeeps DEF IInv, FreshInv
<1>5. \/ tracker' = w /\ UNCHANGED <<restoration_event, restoration_start>>
      \/ tracker' = w /\ restoration_event' = FALSE /\ restoration_start' = NoTimer
      \/ /\ tracker' = reset(w)
         /\ restoration_event' = FALSE /\ restoration_start' = NoTimer
  OBVIOUS
<1> HIDE DEF w
<1>6. /\ tracker'.tracked = tracker.tracked
      /\ \A c \in Clients : tracker'.clients[c].shutdown = w.clients[c].shutdown
      /\ \/ /\ tracker' = w
            /\ w.ups_on_battery = tracker.ups_on_battery
            /\ w.outage_id = tracker.outage_id
         \/ tracker'.ups_on_battery = FALSE /\ tracker'.outage_id = NoOutage
  BY <1>1, <1>5, ResetEffect DEF SameMeta
<1>7. OutageRemembered'
  <2>1. HasId(tracker') /\ HasId(disk')
    BY <1>2, <1>6 DEF IInv, TrackerInv, HasId
  <2>2. CASE UNCHANGED <<restoration_event, restoration_start>> /\ tracker' = w
    <3>1. w.ups_on_battery
      BY <1>1, <1>3 DEF IInv, OutageRemembered, SameMeta
    <3> QED BY <1>3, <2>1, <2>2, <3>1 DEF IInv, OutageRemembered, HasId
  <2>3. CASE restoration_event' = FALSE /\ restoration_start' = NoTimer
    BY <1>3, <2>1, <2>3 DEF OutageRemembered, HasId
  <2> QED BY <1>5, <2>2, <2>3
<1>8. PhaseInv'
  BY <1>3 DEF PhaseInv
<1>9. TrackedInv'
  BY <1>3, <1>6 DEF IInv, TrackedInv
<1>10. TrackerInv(tracker)'
  <2>1. CASE tracker' = w
    BY <1>2, <2>1 DEF TrackerInv, HasId, CommandsCurrent
  <2>2. CASE tracker'.ups_on_battery = FALSE /\ tracker'.outage_id = NoOutage
    BY <1>1, <1>2, <1>6, <2>2
    DEF IInv, TypeOK, TrackerInv, HasId, CommandsCurrent, SameMeta
  <2> QED BY <1>6, <2>1, <2>2
<1>11. TrackerInv(disk)'
  BY DEF IInv, TrackerInv, HasId, CommandsCurrent
<1>12. AcceptedBeforeAcknowledged'
  BY <1>2, <1>6 DEF IInv, AcceptedBeforeAcknowledged, AcksReal
<1>13. ProcessedInv'
  BY DEF IInv, ProcessedInv
<1>14. FreshInv'
  <2>1. \A c \in Clients : \A p \in processed[c] : p.outage # NoOutage
    BY DEF IInv, ProcessedInv
  <2>2. \A c \in Clients \ forgotten : FreshFor(tracker', c)
    BY <1>4, <1>6, <2>1 DEF FreshFor
  <2> QED BY <1>3, <2>2 DEF FreshInv, FreshFor
<1> QED BY <1>7, <1>8, <1>9, <1>10, <1>11, <1>12, <1>13, <1>14 DEF IInv

LEMMA StepSaveAndSleep ==
    ASSUME IInv, TypeOK', NEW other \in BOOLEAN,
           NEW result \in {"ok", "write_failed", "rename_failed"},
           SaveAndSleep(other, result)
    PROVE  IInv'
<1> USE DEF SaveAndSleep, devices
<1> DEFINE d == config.poll_interval
           f == SaveResult(other, result).disk
<1>1. /\ d \in Nat /\ tracker \in Trackers /\ disk \in Trackers
      /\ tracker' \in Trackers /\ disk' \in Trackers
  BY ConfigTyped DEF IInv, TypeOK
<1>2. f \in {disk, tracker}
  BY DEF SaveResult
<1>3. tracker' = Aged(tracker, d) /\ disk' = Aged(f, d)
  OBVIOUS
<1> HIDE DEF d, f
<1>4. /\ Quiet(tracker', tracker) /\ SameMeta(tracker', tracker)
      /\ Quiet(disk', f)
  BY <1>1, <1>2, <1>3, AgedEffect DEF Quiet
<1>5. TrackerInv(f) /\ AcksReal(f)
  BY <1>2 DEF IInv, AcceptedBeforeAcknowledged
<1>6. TrackerInv(tracker') /\ AcksReal(tracker')
  BY <1>1, <1>4, QuietKeeps DEF IInv, AcceptedBeforeAcknowledged
<1>7. TrackerInv(disk') /\ AcksReal(disk')
  BY <1>1, <1>2, <1>4, <1>5, QuietKeeps DEF IInv
<1>8. restoration_start' # NoTimer <=> restoration_start # NoTimer
  <2>1. restoration_start \in Ages => Older(restoration_start, d) \in Ages
    BY <1>1, OlderType
  <2> QED BY <2>1 DEF IInv, TypeOK, AgedTimer, Ages, NoTimer, d
<1>9. todo = {} /\ Running /\ Running'
  BY DEF IInv, PhaseInv, Running
<1>10. OutageRemembered'
  BY <1>4, <1>6, <1>7, <1>8
  DEF IInv, OutageRemembered, SameMeta, TrackerInv, HasId
<1>11. PhaseInv'
  BY <1>9 DEF PhaseInv
<1>12. TrackedInv'
  BY <1>4, <1>9 DEF IInv, TrackedInv, SameMeta
<1>13. TrackerInv(tracker)' /\ TrackerInv(disk)'
  BY <1>6, <1>7 DEF TrackerInv, HasId, CommandsCurrent
<1>14. AcceptedBeforeAcknowledged'
  BY <1>6, <1>7 DEF AcceptedBeforeAcknowledged, AcksReal
<1>15. ProcessedInv'
  BY DEF IInv, ProcessedInv
<1>16. FreshInv'
  <2>1. \A c \in Clients \ forgotten : FreshFor(tracker', c)
    BY <1>1, <1>4, <1>9, QuietKeeps DEF IInv, FreshInv
  <2> QED BY <1>9, <2>1 DEF FreshInv, FreshFor
<1> QED BY <1>10, <1>11, <1>12, <1>13, <1>14, <1>15, <1>16 DEF IInv

(* What a crash leaves is what the state file says, and the names whose    *)
(* record differs there are forgotten.                                     *)
LEMMA StepCrash ==
    ASSUME IInv, TypeOK', Crash
    PROVE  IInv'
<1> USE DEF Crash, files, devices
<1>1. /\ new_tracker.ups_on_battery = FALSE
      /\ new_tracker.outage_id = NoOutage
      /\ new_tracker.tracked = {}
      /\ \A c \in Clients :
            /\ new_tracker.clients[c].shutdown.command_id = NoCommand
            /\ new_tracker.clients[c].shutdown.acknowledged = FALSE
  BY DEF new_tracker, new_client_state, new_shutdown_state
<1> HIDE DEF new_tracker
<1>2. ~Running'
  BY DEF Running
<1>3. OutageRemembered'
  BY <1>1 DEF IInv, OutageRemembered, HasId
<1>4. PhaseInv'
  BY DEF PhaseInv
<1>5. TrackedInv'
  BY <1>2 DEF TrackedInv
<1>6. TrackerInv(tracker)'
  BY <1>1 DEF IInv, TypeOK, TrackerInv, HasId, CommandsCurrent
<1>7. TrackerInv(disk)'
  BY DEF IInv, TrackerInv, HasId, CommandsCurrent
<1>8. AcceptedBeforeAcknowledged'
  BY <1>1 DEF IInv, AcceptedBeforeAcknowledged, AcksReal
<1>9. ProcessedInv'
  BY DEF IInv, ProcessedInv
<1>10. FreshInv'
  <2> SUFFICES ASSUME NEW c \in Clients \ forgotten' PROVE FreshFor(disk, c)
    BY <1>2 DEF FreshInv, FreshFor
  <2>1. CASE pc = "starting"
    BY <2>1 DEF IInv, FreshInv, Running
  <2>2. CASE pc # "starting"
    <3>1. /\ tracker.outage_id = disk.outage_id
          /\ tracker.clients[c].shutdown = disk.clients[c].shutdown
      BY <2>2 DEF LostByCrash
    <3>2. FreshFor(tracker, c)
      BY <2>2 DEF IInv, FreshInv, Running
    <3> QED BY <3>1, <3>2 DEF FreshFor
  <2> QED BY <2>1, <2>2
<1> QED BY <1>3, <1>4, <1>5, <1>6, <1>7, <1>8, <1>9, <1>10 DEF IInv

LEMMA StepTimePassesWhileDown ==
    ASSUME IInv, TypeOK', TimePassesWhileDown
    PROVE  IInv'
<1> USE DEF TimePassesWhileDown, loop, memory, devices
<1>1. /\ disk \in Trackers /\ disk' \in Trackers
      /\ Quiet(disk', disk)
  BY AgedEffect DEF IInv, TypeOK
<1>2. TrackerInv(disk') /\ AcksReal(disk')
  BY <1>1, QuietKeeps DEF IInv, AcceptedBeforeAcknowledged
<1>3. OutageRemembered'
  BY <1>2 DEF IInv, OutageRemembered, TrackerInv, HasId
<1>4. PhaseInv'
  BY DEF IInv, PhaseInv
<1>5. TrackedInv'
  BY DEF IInv, TrackedInv, Running
<1>6. TrackerInv(tracker)' /\ TrackerInv(disk)'
  BY <1>2 DEF IInv, TrackerInv, HasId, CommandsCurrent
<1>7. AcceptedBeforeAcknowledged'
  BY <1>2 DEF IInv, AcceptedBeforeAcknowledged, AcksReal
<1>8. ProcessedInv'
  BY DEF IInv, ProcessedInv
<1>9. FreshInv'
  <2>1. ~Running /\ ~Running'
    BY DEF Running
  <2>2. \A c \in Clients \ forgotten : FreshFor(disk', c)
    BY <1>1, <2>1, QuietKeeps DEF IInv, FreshInv
  <2> QED BY <2>1, <2>2 DEF FreshInv, FreshFor
<1> QED BY <1>3, <1>4, <1>5, <1>6, <1>7, <1>8, <1>9 DEF IInv

---------------------------------------------------------------------------
(* The invariant, and what follows from it *)

LEMMA InitInv == Init => IInv
<1> SUFFICES ASSUME Init PROVE IInv
  OBVIOUS
<1>1. /\ new_tracker.ups_on_battery = FALSE
      /\ new_tracker.outage_id = NoOutage
      /\ \A c \in Clients :
            /\ new_tracker.clients[c].shutdown.command_id = NoCommand
            /\ new_tracker.clients[c].shutdown.acknowledged = FALSE
  BY DEF new_tracker, new_client_state, new_shutdown_state
<1>2. /\ TypeOK
      /\ tracker = new_tracker /\ disk = new_tracker
      /\ processed = [c \in Clients |-> {}] /\ outages = 0
      /\ pc = "down" /\ todo = {}
      /\ ~on_battery /\ ~restoration_event /\ restoration_start = NoTimer
  BY InitType DEF Init
<1>3. OutageRemembered
  BY <1>1, <1>2 DEF OutageRemembered, HasId
<1>4. PhaseInv /\ TrackedInv
  BY <1>2 DEF PhaseInv, TrackedInv, Running
<1>5. TrackerInv(tracker) /\ TrackerInv(disk)
  BY <1>1, <1>2 DEF TrackerInv, HasId, CommandsCurrent
<1>6. AcceptedBeforeAcknowledged
  BY <1>1, <1>2 DEF AcceptedBeforeAcknowledged, AcksReal
<1>7. ProcessedInv /\ FreshInv
  BY <1>2 DEF ProcessedInv, FreshInv, FreshFor
<1> QED BY <1>2, <1>3, <1>4, <1>5, <1>6, <1>7 DEF IInv

LEMMA NextInv == IInv /\ [Next]_vars => IInv'
<1> SUFFICES ASSUME IInv, [Next]_vars PROVE IInv'
  OBVIOUS
<1>1. TypeOK'
  BY NextType DEF IInv
<1>2. CASE LoadConfig \/ PollIncomplete
  BY <1>1, <1>2, CoreUnchanged
  DEF LoadConfig, PollIncomplete, loop, memory, files, devices, history
<1>3. CASE InitTracker
  BY <1>1, <1>3, StepInitTracker
<1>4. CASE ReloadConfig
  BY <1>1, <1>4, StepReloadConfig
<1>5. CASE \E battery \in Batteries, online \in SUBSET Clients :
              \/ PollOnBattery(battery, online)
              \/ PollRestoring(battery, online)
              \/ PollIdle(battery, online)
  BY <1>1, <1>5, StepPollOnBattery, StepPollRestoring, StepPollIdle
<1>6. CASE Deliver
  BY <1>1, <1>6, StepDeliver DEF Deliver
<1>7. CASE Wake
  BY <1>1, <1>7, StepWakeClients DEF Wake
<1>8. CASE Save
  BY <1>1, <1>8, StepSaveAndSleep DEF Save
<1>9. CASE Crash
  BY <1>1, <1>9, StepCrash
<1>10. CASE TimePassesWhileDown
  BY <1>1, <1>10, StepTimePassesWhileDown
<1>11. ASSUME NEW c \in Clients, Device(c) PROVE IInv'
  <2> USE DEF Environment, loop, memory
  <2>1. UNCHANGED <<tracker, disk, processed, outages, forgotten, on_battery,
                    restoration_event, restoration_start, todo, pc, config>>
    BY <1>11 DEF Device, PowerOff, AgentRestart, Boot, SwitchOff
  <2> QED BY <1>1, <2>1, CoreUnchanged
<1>12. ASSUME NEW new \in Configs \cup {InvalidConfig}, EditConfig(new)
       PROVE  IInv'
  BY <1>1, <1>12, CoreUnchanged
  DEF EditConfig, Environment, loop, memory, devices
<1>13. CASE UNCHANGED vars
  BY <1>1, <1>13, CoreUnchanged
  DEF vars, loop, memory, files, devices, history
<1> QED
  BY <1>2, <1>3, <1>4, <1>5, <1>6, <1>7, <1>8, <1>9, <1>10, <1>11, <1>12, <1>13
  DEF Next, Process, Poll

(* Every reachable state satisfies the inductive invariant. *)
THEOREM InductiveInvariant == Spec => []IInv
BY InitInv, NextInv, PTL DEF Spec

(* On battery or restoring, the tracker knows of the outage and has an     *)
(* identifier for it, in memory and in the state file; at no time do the   *)
(* loop's own flags say otherwise.                                         *)
THEOREM RemembersOutage == Spec => []OutageRemembered
<1>1. IInv => OutageRemembered
  BY DEF IInv
<1> QED BY <1>1, InductiveInvariant, PTL

(* A command that process_on_battery() reuses is one of this outage.       *)
THEOREM CommandsAreCurrent == Spec => []CommandOfThisOutage
<1>1. IInv => CommandOfThisOutage
  BY DEF IInv, TrackerInv, CommandOfThisOutage
<1> QED BY <1>1, InductiveInvariant, PTL

(* No shutdown counts as acknowledged that the agent did not accept.       *)
THEOREM AcksAreReal == Spec => []AcceptedBeforeAcknowledged
<1>1. IInv => AcceptedBeforeAcknowledged
  BY DEF IInv
<1> QED BY <1>1, InductiveInvariant, PTL

(* A command sent for the first time is new to the agent, unless a crash   *)
(* or a removal from the configuration lost the record of an earlier one.  *)
THEOREM CommandsAreFresh == Spec => []FreshCommand
<1>1. IInv => FreshCommand
  BY DEF IInv, FreshInv, FreshCommand
<1> QED BY <1>1, InductiveInvariant, PTL

---------------------------------------------------------------------------
(* The refinement of Outage *)

Promised == <<LoopPhase, OutageNow, OutageOf(disk), outages, AcceptedFor>>

LEMMA PromisedSame ==
    ASSUME UNCHANGED Promised
    PROVE  [promise!Next]_(promise!vars)
BY DEF Promised, promise!vars

(* What IInv says of the outage under way.                                 *)
LEMMA OutageFacts ==
    ASSUME IInv
    PROVE  /\ tracker \in Trackers /\ disk \in Trackers /\ outages \in Nat
           /\ OutageOf(tracker) # NoOutage <=> tracker.ups_on_battery
           /\ OutageOf(disk) # NoOutage <=> disk.ups_on_battery
           /\ on_battery \/ restoration_event => tracker.ups_on_battery
           /\ ~(on_battery /\ restoration_event)
           /\ on_battery \in BOOLEAN /\ restoration_event \in BOOLEAN
           /\ tracker.outage_id <= outages
BY DEF IInv, TypeOK, OutageRemembered, TrackerInv, HasId, OutageOf

(* Quiet operations and changes of the names keep the outage.              *)
LEMMA QuietOutage ==
    ASSUME NEW s, NEW t, SameMeta(s, t)
    PROVE  OutageOf(s) = OutageOf(t)
BY DEF SameMeta, OutageOf

LEMMA StartsOutage ==
    ASSUME IInv, InitTracker
    PROVE  promise!Start
<1>1. /\ LoopPhase = "down" /\ OutageNow = OutageOf(disk)
      /\ LoopPhase' = IF disk.ups_on_battery THEN "battery" ELSE "idle"
  BY DEF InitTracker, LoopPhase, OutageNow, Running, IInv, PhaseInv
<1>2. OutageNow' = OutageOf(disk)
  BY DEF InitTracker, OutageNow, Running, OutageOf, load, IInv, TypeOK, Trackers
<1>3. UNCHANGED <<OutageOf(disk), outages, AcceptedFor>>
  BY DEF InitTracker, devices, AcceptedFor, OutageOf
<1> QED BY <1>1, <1>2, <1>3, OutageFacts DEF promise!Start

LEMMA BatteryOutage ==
    ASSUME IInv, NEW battery \in Batteries, NEW online \in SUBSET Clients,
           PollOnBattery(battery, online)
    PROVE  promise!Begin \/ promise!GoOn
<1>0. /\ UNCHANGED <<disk, processed>> /\ Running /\ on_battery'
      /\ Running'
  BY DEF PollOnBattery, Ping, Running, files, devices
<1>1. /\ LoopPhase' = "battery" /\ LoopPhase # "down"
      /\ UNCHANGED <<OutageOf(disk), AcceptedFor>>
      /\ OutageNow = OutageOf(tracker) /\ OutageNow' = OutageOf(tracker')
  BY <1>0 DEF LoopPhase, OutageOf, AcceptedFor, OutageNow
<1> DEFINE t == IF on_battery THEN AfterPing(online)
                ELSE mark_all_online_clients(AfterPing(online))
<1>2. t \in Trackers /\ SameMeta(t, tracker)
  <2>1. AfterPing(online) \in Trackers /\ SameMeta(AfterPing(online), tracker)
    BY OutageFacts, PingedEffect, TrackerOperationTypes DEF AfterPing, Quiet
  <2>2. /\ mark_all_online_clients(AfterPing(online)) \in Trackers
        /\ SameMeta(mark_all_online_clients(AfterPing(online)), AfterPing(online))
    BY <2>1, MarkEffect, TrackerOperationTypes DEF Quiet
  <2> QED BY <2>1, <2>2 DEF SameMeta
<1>3. tracker' = begin_outage(t, battery, outages + 1)
  BY DEF PollOnBattery, PowerLost
<1> HIDE DEF t
<1>4. Begun(tracker', t, outages + 1)
  BY <1>2, <1>3, BeginEffect, OutageFacts
<1>5. CASE tracker.ups_on_battery
  <2>1. tracker.outage_id # NoOutage
    BY <1>5 DEF IInv, TrackerInv, HasId
  <2>2. tracker'.outage_id = tracker.outage_id /\ tracker'.ups_on_battery
    BY <1>2, <1>4, <1>5, <2>1 DEF Begun, SameMeta
  <2>3. outages' = outages
    BY <2>2, OutageFacts DEF PollOnBattery, Trackers
  <2>4. OutageNow' = OutageNow /\ OutageNow # NoOutage
    BY <1>1, <1>5, <2>1, <2>2 DEF OutageOf
  <2> QED BY <1>1, <2>3, <2>4 DEF promise!GoOn
<1>6. CASE ~tracker.ups_on_battery
  <2>1. tracker'.outage_id = outages + 1 /\ tracker'.ups_on_battery
    BY <1>2, <1>4, <1>6 DEF Begun, SameMeta
  <2>2. outages' = outages + 1
    BY <2>1, OutageFacts DEF PollOnBattery
  <2>3. OutageNow = NoOutage /\ OutageNow' = outages'
    BY <1>1, <1>6, <2>1, <2>2 DEF OutageOf
  <2>4. LoopPhase = "idle"
    BY <1>0, <1>6, OutageFacts DEF LoopPhase
  <2> QED BY <1>1, <2>2, <2>3, <2>4 DEF promise!Begin
<1> QED BY <1>5, <1>6

LEMMA RestoringOutage ==
    ASSUME IInv, NEW battery \in Batteries, NEW online \in SUBSET Clients,
           PollRestoring(battery, online)
    PROVE  promise!PowerBack \/ UNCHANGED Promised
<1>1. /\ UNCHANGED <<disk, processed, outages>> /\ Running /\ Running'
      /\ ~on_battery' /\ restoration_event'
      /\ on_battery \/ restoration_event
  BY DEF PollRestoring, Ping, Running, files, devices, history
<1>2. SameMeta(tracker', tracker)
  BY OutageFacts, PingedEffect DEF PollRestoring, AfterPing, Quiet
<1>3. UNCHANGED <<OutageNow, OutageOf(disk), outages, AcceptedFor>>
  BY <1>1, <1>2, QuietOutage DEF OutageNow, OutageOf, AcceptedFor
<1>4. LoopPhase' = "restoring" /\ LoopPhase \in {"battery", "restoring"}
  BY <1>1 DEF LoopPhase
<1> QED BY <1>3, <1>4 DEF promise!PowerBack, Promised

LEMMA IdleOutage ==
    ASSUME IInv, NEW battery \in Batteries, NEW online \in SUBSET Clients,
           PollIdle(battery, online)
    PROVE  promise!Over
<1>1. /\ UNCHANGED <<disk, processed, outages, on_battery, restoration_event>>
      /\ Running /\ Running' /\ ~on_battery /\ ~restoration_event
  BY DEF PollIdle, Ping, Running, files, devices, history
<1>2. tracker'.ups_on_battery = FALSE
  <2>1. AfterPing(online) \in Trackers
    BY OutageFacts, TrackerOperationTypes DEF AfterPing
  <2> QED BY <2>1, ResetEffect DEF PollIdle
<1>3. LoopPhase = "idle" /\ LoopPhase' = "idle" /\ OutageNow' = 0
  BY <1>1, <1>2 DEF LoopPhase, OutageNow, OutageOf
<1>4. UNCHANGED <<OutageOf(disk), outages, AcceptedFor>>
  BY <1>1 DEF OutageOf, AcceptedFor
<1> QED BY <1>3, <1>4 DEF promise!Over

(* What is sent is a command of the outage under way.                      *)
LEMMA CommandOutage ==
    ASSUME IInv, NEW c \in Clients, pc = "deliver"
    PROVE  command_for(c).outage = OutageNow
<1>1. tracker.ups_on_battery /\ Running
  BY OutageFacts DEF IInv, PhaseInv, Running
<1>2. command_for(c).outage = tracker.outage_id
  <2>1. CommandsCurrent(tracker)
    BY DEF IInv, TrackerInv
  <2>2. CASE tracker.clients[c].shutdown.command_id = NoCommand
    BY <2>2 DEF command_for
  <2>3. CASE tracker.clients[c].shutdown.command_id # NoCommand
    <3>1. tracker.clients[c].shutdown.command_id =
             [outage |-> tracker.outage_id,
              sequence |-> tracker.clients[c].shutdown.delivery_sequence]
      BY <1>1, <2>1, <2>3 DEF CommandsCurrent
    <3>2. command_for(c) = tracker.clients[c].shutdown.command_id
      BY <2>3 DEF command_for
    <3> QED BY <3>1, <3>2
  <2> QED BY <2>2, <2>3
<1> QED BY <1>1, <1>2 DEF OutageNow, OutageOf

LEMMA DeliveryOutage ==
    ASSUME IInv, NEW c \in Clients,
           DeliverAccepted(c) \/ DeliverReplyLost(c) \/ DeliverFailed(c)
    PROVE  promise!Ask(c) \/ UNCHANGED Promised
<1>1. PICK record : Served(c, record)
  BY DEF DeliverAccepted, DeliverReplyLost, DeliverFailed
<1>2. /\ pc = "deliver" /\ Running /\ on_battery
      /\ Running' /\ UNCHANGED <<disk, outages, on_battery, restoration_event>>
  BY <1>1 DEF Served, DeliverAccepted, DeliverReplyLost, DeliverFailed, files,
              history, loop, Running, IInv, PhaseInv
<1>3. SameMeta(tracker', tracker)
  BY <1>1, OutageFacts DEF Served, SameMeta, Trackers
<1>4. /\ UNCHANGED <<LoopPhase, OutageNow, OutageOf(disk), outages>>
      /\ LoopPhase = "battery"
  BY <1>2, <1>3, QuietOutage DEF LoopPhase, OutageNow, OutageOf
<1>5. CASE AgentAccepts(c, command_for(c))
  <2>1. /\ processed' = [processed EXCEPT ![c] = @ \cup {command_for(c)}]
        /\ processed \in [Clients -> SUBSET Commands]
    BY <1>5 DEF AgentAccepts, IInv, TypeOK
  <2>2. command_for(c).outage = OutageNow
    BY <1>2, CommandOutage
  <2>3. \A d \in Clients : {p.outage : p \in processed'[d]} =
           IF d = c THEN {p.outage : p \in processed[d]} \cup {OutageNow}
           ELSE {p.outage : p \in processed[d]}
    BY <2>1, <2>2
  <2>4. AcceptedFor' = [AcceptedFor EXCEPT ![c] = @ \cup {OutageNow}]
    BY <2>3 DEF AcceptedFor
  <2> QED BY <1>4, <2>4 DEF promise!Ask
<1>6. CASE processed' = processed
  BY <1>4, <1>6 DEF Promised, AcceptedFor
<1> QED BY <1>5, <1>6 DEF DeliverAccepted, DeliverReplyLost, DeliverFailed

LEMMA WakeOutage ==
    ASSUME IInv, NEW sent \in SUBSET Clients, WakeClients(sent)
    PROVE  promise!Restored \/ UNCHANGED Promised
<1>1. /\ UNCHANGED <<disk, processed, outages, on_battery>>
      /\ Running /\ Running' /\ ~on_battery /\ restoration_event
  BY OutageFacts
  DEF WakeClients, files, devices, history, Running, IInv, PhaseInv
<1>2. UNCHANGED <<OutageOf(disk), outages, AcceptedFor>>
      /\ LoopPhase = "restoring"
      /\ LoopPhase' = IF restoration_event' THEN "restoring" ELSE "idle"
  BY <1>1 DEF OutageOf, AcceptedFor, LoopPhase
<1>3. AfterWake(sent) \in Trackers /\ SameMeta(AfterWake(sent), tracker)
  <2>1. \A c \in Clients : /\ mark_skip(tracker.clients[c]) \in ClientStates
                           /\ mark_wol_sent(tracker.clients[c]) \in ClientStates
    BY ClientOperationTypes DEF IInv, TypeOK, Trackers
  <2>2. AfterWake(sent) \in Trackers
    BY <2>1, OutageFacts, ReplaceType DEF AfterWake
  <2> QED BY <2>2, OutageFacts, AfterWakeEffect DEF Quiet
<1>4. CASE StillDown = {}
  <2>1. tracker'.ups_on_battery = FALSE /\ ~restoration_event'
    BY <1>3, <1>4, ResetEffect DEF WakeClients
  <2>2. OutageNow' = 0
    BY <1>1, <2>1 DEF OutageNow, OutageOf
  <2> QED BY <1>2, <2>1, <2>2 DEF promise!Restored
<1>5. CASE StillDown # {}
  <2>1. OutageNow' = OutageNow
    BY <1>1, <1>3, <1>5, QuietOutage DEF WakeClients, OutageNow
  <2> QED BY <1>2, <2>1 DEF promise!Restored, Promised
<1> QED BY <1>4, <1>5

LEMMA SaveOutage ==
    ASSUME IInv, NEW other \in BOOLEAN,
           NEW result \in {"ok", "write_failed", "rename_failed"},
           SaveAndSleep(other, result)
    PROVE  promise!Remember \/ UNCHANGED Promised
<1> DEFINE r == SaveResult(other, result)
           d == config.poll_interval
<1>1. /\ UNCHANGED <<processed, outages, on_battery, restoration_event>>
      /\ Running /\ Running' /\ d \in Nat
      /\ disk' = Aged(r.disk, d) /\ tracker' = Aged(tracker, d)
  BY ConfigTyped DEF SaveAndSleep, devices, Running, IInv
<1>2. r.disk \in {disk, tracker}
  BY <1>1 DEF SaveResult
<1> HIDE DEF r, d
<1>3. OutageOf(disk') = OutageOf(r.disk) /\ OutageOf(tracker') = OutageOf(tracker)
  BY <1>1, <1>2, OutageFacts, AgedEffect, QuietOutage DEF Quiet
<1>4. /\ UNCHANGED <<LoopPhase, OutageNow, outages, AcceptedFor>>
      /\ LoopPhase # "down" /\ OutageNow = OutageOf(tracker)
  BY <1>1, <1>3 DEF LoopPhase, OutageNow, AcceptedFor
<1>5. OutageOf(disk)' = OutageOf(disk')
  BY DEF OutageOf
<1> QED BY <1>2, <1>3, <1>4, <1>5 DEF promise!Remember, Promised

LEMMA DiesOutage == ASSUME IInv, Crash PROVE promise!Die
BY DEF Crash, files, devices, promise!Die, LoopPhase, Running, OutageNow,
       OutageOf, AcceptedFor

(* Steps that Outage does not see.                                         *)
LEMMA UnseenOutage ==
    ASSUME IInv,
           \/ LoadConfig \/ ReloadConfig \/ PollIncomplete
           \/ TimePassesWhileDown \/ UNCHANGED vars
           \/ \E c \in Clients : Device(c)
           \/ \E new \in Configs \cup {InvalidConfig} : EditConfig(new)
    PROVE  UNCHANGED Promised
<1> USE DEF Promised, LoopPhase, OutageNow, AcceptedFor, Running
<1>1. CASE LoadConfig
  BY <1>1 DEF LoadConfig, loop, files, devices, history, OutageOf
<1>2. CASE PollIncomplete
  BY <1>2 DEF PollIncomplete, loop, memory, files, devices, history, OutageOf
<1>3. CASE ReloadConfig
  <2>1. UNCHANGED <<pc, on_battery, restoration_event, disk, outages, processed>>
    BY <1>3 DEF ReloadConfig, devices
  <2>2. OutageOf(tracker') = OutageOf(tracker)
    BY <1>3, OutageFacts, SyncEffect DEF ReloadConfig, OutageOf
  <2> QED BY <2>1, <2>2 DEF OutageOf
<1>4. CASE TimePassesWhileDown
  <2>1. pc = "down" /\ pc' = "down" /\ disk' = Aged(disk, 1)
        /\ UNCHANGED <<outages, processed>>
    BY <1>4 DEF TimePassesWhileDown, devices
  <2>2. OutageOf(disk') = OutageOf(disk)
    BY <2>1, OutageFacts, AgedEffect, QuietOutage DEF Quiet
  <2> QED BY <2>1, <2>2 DEF OutageOf
<1>5. ASSUME NEW c \in Clients, Device(c) PROVE UNCHANGED Promised
  BY <1>5 DEF Device, PowerOff, AgentRestart, Boot, SwitchOff, Environment,
              loop, memory, OutageOf
<1>6. ASSUME NEW new \in Configs \cup {InvalidConfig}, EditConfig(new)
      PROVE  UNCHANGED Promised
  BY <1>6 DEF EditConfig, Environment, loop, memory, devices, OutageOf
<1>7. CASE UNCHANGED vars
  BY <1>7 DEF vars, loop, memory, files, devices, history, OutageOf
<1> QED BY <1>1, <1>2, <1>3, <1>4, <1>5, <1>6, <1>7

LEMMA StepOutage == IInv /\ [Next]_vars => [promise!Next]_(promise!vars)
<1> SUFFICES ASSUME IInv, [Next]_vars PROVE [promise!Next]_(promise!vars)
  OBVIOUS
<1>1. CASE InitTracker
  BY <1>1, StartsOutage DEF promise!Next
<1>2. ASSUME NEW battery \in Batteries, NEW online \in SUBSET Clients,
             \/ PollOnBattery(battery, online)
             \/ PollRestoring(battery, online)
             \/ PollIdle(battery, online)
      PROVE  [promise!Next]_(promise!vars)
  BY <1>2, BatteryOutage, RestoringOutage, IdleOutage, PromisedSame
  DEF promise!Next
<1>3. CASE Deliver
  BY <1>3, DeliveryOutage, PromisedSame DEF Deliver, promise!Next
<1>4. CASE Wake
  BY <1>4, WakeOutage, PromisedSame DEF Wake, promise!Next
<1>5. CASE Save
  BY <1>5, SaveOutage, PromisedSame DEF Save, promise!Next
<1>6. CASE Crash
  BY <1>6, DiesOutage DEF promise!Next
<1>7. CASE \/ LoadConfig \/ ReloadConfig \/ PollIncomplete
           \/ TimePassesWhileDown \/ UNCHANGED vars
           \/ \E c \in Clients : Device(c)
           \/ \E new \in Configs \cup {InvalidConfig} : EditConfig(new)
  BY <1>7, UnseenOutage, PromisedSame
<1> QED BY <1>1, <1>2, <1>3, <1>4, <1>5, <1>6, <1>7 DEF Next, Process, Poll

(* The loop with its tracker and state file implements Outage: every step  *)
(* of the loop, of a device, of an administrator and of a crash is a step  *)
(* of Outage or none.                                                      *)
THEOREM ImplementsOutage == Spec => OutagesKept
<1>1. Init => promise!Init
  BY DEF Init, promise!Init, LoopPhase, Running, OutageNow, OutageOf,
         AcceptedFor, new_tracker
<1> QED BY <1>1, StepOutage, InductiveInvariant, PTL
        DEF Spec, OutagesKept, promise!Spec
=============================================================================
