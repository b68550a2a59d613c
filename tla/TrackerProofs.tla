--------------------------- MODULE TrackerProofs ---------------------------
(***************************************************************************)
(* Lemmas about the operations of the tracker: every one of them maps      *)
(* trackers to trackers.                                                   *)
(***************************************************************************)
EXTENDS Tracker, TLAPS

USE DEF FullBattery, Never, NoOutage, NoCommand, Ages

(* The records the operations start from have their types. *)
LEMMA NewTypes ==
    /\ new_shutdown_state \in ShutdownStates
    /\ new_client_state \in ClientStates
    /\ new_tracker \in Trackers
<1>1. new_shutdown_state \in ShutdownStates
  BY TrackerAssumption
  DEF new_shutdown_state, ShutdownStates, Commands
<1>2. new_client_state \in ClientStates
  BY <1>1, TrackerAssumption DEF new_client_state, ClientStates
<1>3. new_tracker \in Trackers
  BY <1>2 DEF new_tracker, Trackers
<1> QED BY <1>1, <1>2, <1>3

(* An age stays an age. *)
LEMMA OlderType ==
    ASSUME NEW age \in Ages, NEW d \in Nat
    PROVE  Older(age, d) \in Ages
BY TrackerAssumption DEF Older

(* The operations on one client's record. *)
LEMMA ClientOperationTypes ==
    ASSUME NEW st \in ClientStates
    PROVE  /\ \A online \in BOOLEAN : update(st, online) \in ClientStates
           /\ mark_wol_sent(st) \in ClientStates
           /\ mark_skip(st) \in ClientStates
           /\ \A command \in Commands :
                 /\ shutdown_failed(st, command) \in ClientStates
                 /\ shutdown_accepted(st, command) \in ClientStates
           /\ \A d \in Nat : aged_client(st, d) \in ClientStates
<1> USE DEF ClientStates
<1>1. ASSUME NEW online \in BOOLEAN PROVE update(st, online) \in ClientStates
  <2>1. rearmed(st.shutdown) \in ShutdownStates
    BY NewTypes DEF rearmed, ShutdownStates
  <2>2. ASSUME NEW b \in BOOLEAN
        PROVE  [st.shutdown EXCEPT !.offline_after_ack = b] \in ShutdownStates
    BY DEF ShutdownStates
  <2>3. (st.shutdown.offline_after_ack
            \/ (st.shutdown.acknowledged /\ ~online)) \in BOOLEAN
    BY DEF ShutdownStates
  <2> QED BY <2>1, <2>2, <2>3 DEF update
<1>2. mark_wol_sent(st) \in ClientStates
  BY TrackerAssumption DEF mark_wol_sent
<1>3. mark_skip(st) \in ClientStates
  BY DEF mark_skip
<1>4. ASSUME NEW command \in Commands
      PROVE  /\ shutdown_failed(st, command) \in ClientStates
             /\ shutdown_accepted(st, command) \in ClientStates
  <2>0. st.shutdown \in ShutdownStates /\ 0 \in Ages
    BY TrackerAssumption
  <2>1. /\ [st.shutdown EXCEPT !.command_id = command, !.last_attempt = 0,
               !.failure_notified = TRUE] \in ShutdownStates
        /\ [st.shutdown EXCEPT !.command_id = command, !.last_attempt = 0,
               !.acknowledged = TRUE] \in ShutdownStates
    BY <2>0 DEF ShutdownStates
  <2> QED BY <2>1 DEF shutdown_failed, shutdown_accepted
<1>5. ASSUME NEW d \in Nat PROVE aged_client(st, d) \in ClientStates
  <2>1. [st.shutdown EXCEPT !.last_attempt =
                       Older(st.shutdown.last_attempt, d)] \in ShutdownStates
    BY OlderType DEF ShutdownStates
  <2>2. Older(st.wol_sent, d) \in Ages
    BY OlderType
  <2> QED BY <2>1, <2>2 DEF aged_client
<1> QED BY <1>1, <1>2, <1>3, <1>4, <1>5

(* Replacing records of some clients. *)
LEMMA ReplaceType ==
    ASSUME NEW t \in Trackers, NEW S, NEW new,
           \A c \in Clients : new[c] \in ClientStates
    PROVE  Replace(t, S, new) \in Trackers
BY DEF Replace, Trackers

(* The operations on the whole tracker. *)
LEMMA TrackerOperationTypes ==
    ASSUME NEW t \in Trackers
    PROVE  /\ \A names \in SUBSET Clients : load(t, names) \in Trackers
           /\ \A d \in Nat : Aged(t, d) \in Trackers
           /\ \A names, online : Pinged(t, names, online) \in Trackers
           /\ mark_all_online_clients(t) \in Trackers
           /\ \A battery \in 0..FullBattery, uuid \in Nat :
                 begin_outage(t, battery, uuid) \in Trackers
           /\ reset(t) \in Trackers
           /\ \A names \in SUBSET Clients : sync_clients(t, names) \in Trackers
<1>0. \A c \in Clients : t.clients[c] \in ClientStates
  BY DEF Trackers
<1>1. ASSUME NEW names \in SUBSET Clients PROVE load(t, names) \in Trackers
  BY DEF load, Trackers
<1>2. ASSUME NEW d \in Nat PROVE Aged(t, d) \in Trackers
  <2>1. \A c \in Clients : aged_client(t.clients[c], d) \in ClientStates
    BY <1>0, ClientOperationTypes
  <2> QED BY <2>1 DEF Aged, Trackers
<1>3. ASSUME NEW names, NEW online PROVE Pinged(t, names, online) \in Trackers
  <2>1. ASSUME NEW c \in Clients
        PROVE  update(t.clients[c], c \in online) \in ClientStates
    <3>1. CASE c \in online
      <4>1. update(t.clients[c], TRUE) \in ClientStates
        BY <1>0, ClientOperationTypes
      <4>2. (c \in online) = TRUE
        BY <3>1
      <4> QED BY <4>1, <4>2
    <3>2. CASE c \notin online
      <4>1. update(t.clients[c], FALSE) \in ClientStates
        BY <1>0, ClientOperationTypes
      <4>2. (c \in online) = FALSE
        BY <3>2
      <4> QED BY <4>1, <4>2
    <3> QED BY <3>1, <3>2
  <2> QED BY <2>1, ReplaceType DEF Pinged
<1>4. mark_all_online_clients(t) \in Trackers
  <2>1. \A c \in Clients : [t.clients[c] EXCEPT
                  !.was_online = t.clients[c].is_online] \in ClientStates
    BY <1>0 DEF ClientStates
  <2> QED BY <2>1, ReplaceType DEF mark_all_online_clients
<1>5. ASSUME NEW battery \in 0..FullBattery, NEW uuid \in Nat
      PROVE  begin_outage(t, battery, uuid) \in Trackers
  <2>1. forget_shutdowns(t) \in Trackers
    <3>1. \A c \in Clients : [t.clients[c] EXCEPT
                    !.shutdown = new_shutdown_state] \in ClientStates
      BY <1>0, NewTypes DEF ClientStates
    <3> QED BY <3>1, ReplaceType DEF forget_shutdowns
  <2>2. ASSUME NEW s \in Trackers
        PROVE  set_ups_on_battery(s, TRUE, battery, uuid) \in Trackers
    BY DEF set_ups_on_battery, Trackers
  <2>3. [forget_shutdowns(t) EXCEPT !.outage_id = uuid] \in Trackers
    BY <2>1 DEF Trackers
  <2> QED BY <2>2, <2>3 DEF begin_outage
<1>6. reset(t) \in Trackers
  <2>1. \A c \in Clients : [t.clients[c] EXCEPT !.was_online = FALSE,
              !.wol_sent = Never, !.skip = FALSE] \in ClientStates
    <3>1. Never \in Ages
      BY TrackerAssumption
    <3> QED BY <1>0, <3>1 DEF ClientStates
  <2>2. ASSUME NEW s \in Trackers
        PROVE  [s EXCEPT !.ups_on_battery = FALSE, !.battery = FullBattery,
                         !.outage_id = NoOutage] \in Trackers
    <3>1. FullBattery \in 0..FullBattery /\ NoOutage \in Nat
      OBVIOUS
    <3> QED BY <3>1 DEF Trackers
  <2>3. Replace(t, t.tracked, [c \in Clients |->
              [t.clients[c] EXCEPT !.was_online = FALSE,
                                   !.wol_sent = Never,
                                   !.skip = FALSE]]) \in Trackers
    BY <2>1, ReplaceType
  <2> QED BY <2>2, <2>3 DEF reset
<1>7. ASSUME NEW names \in SUBSET Clients
      PROVE  sync_clients(t, names) \in Trackers
  <2> DEFINE fresh == [c \in Clients |-> new_client_state]
  <2>1. Replace(t, t.tracked \ names, fresh) \in Trackers
    BY NewTypes, ReplaceType
  <2> QED BY <2>1 DEF sync_clients, Trackers
<1> QED BY <1>1, <1>2, <1>3, <1>4, <1>5, <1>6, <1>7

(* Whatever the tracker says, it has an identifier once an outage has      *)
(* begun.                                                                  *)
LEMMA BeginDraws ==
    ASSUME NEW t \in Trackers, NEW battery \in 0..FullBattery,
           NEW uuid \in Nat \ {NoOutage}
    PROVE  begin_outage(t, battery, uuid).outage_id # NoOutage
<1>1. CASE t.ups_on_battery
  BY <1>1 DEF begin_outage, set_ups_on_battery, Trackers
<1>2. CASE ~t.ups_on_battery
  <2>1. forget_shutdowns(t) \in Trackers
    <3>1. \A c \in Clients : [t.clients[c] EXCEPT
                    !.shutdown = new_shutdown_state] \in ClientStates
      BY NewTypes DEF Trackers, ClientStates
    <3> QED BY <3>1, ReplaceType DEF forget_shutdowns
  <2> QED BY <1>2, <2>1 DEF begin_outage, set_ups_on_battery, Trackers
<1> QED BY <1>1, <1>2

=============================================================================
