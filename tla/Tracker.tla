------------------------------ MODULE Tracker ------------------------------
(***************************************************************************)
(* ClientStateTracker (wolnut/state.py): what the controller remembers of  *)
(* an outage and of every client, as a record that the main loop changes   *)
(* in memory and saves to the state file.                                  *)
(*                                                                         *)
(* Time.  A timestamp is represented by its age, the time elapsed since    *)
(* it, saturating at Horizon; the value 0 that the code gives a timestamp  *)
(* that was never set is the age Horizon, older than every delay.          *)
(*                                                                         *)
(* A tracker is total on Clients: a name that is not tracked holds the     *)
(* record sync_clients would create for it.                                *)
(***************************************************************************)
EXTENDS Integers

CONSTANTS Clients,      \* names of the client devices
          Batteries,    \* battery charges the UPS can report, in percent
          Horizon       \* age at which a timestamp stops getting older

FullBattery == 100      \* the charge the tracker records while on line power

ASSUME TrackerAssumption ==
    /\ Horizon \in Nat \ {0}
    /\ Batteries \subseteq 0..FullBattery

---------------------------------------------------------------------------
(* Types *)

Ages == 0..Horizon
Never == Horizon

(* The identifier of an outage is a fresh uuid: the n-th one drawn is n.    *)
NoOutage == 0

(* f"{outage_id}:{name}:{sequence}"; the name is that of the client record  *)
(* which holds the command.                                                *)
Commands == [outage : Nat \ {NoOutage}, sequence : Nat]
NoCommand == [outage |-> NoOutage, sequence |-> 0]

ShutdownStates ==
    [command_id : Commands \cup {NoCommand}, last_attempt : Ages, acknowledged : BOOLEAN,
     failure_notified : BOOLEAN, offline_after_ack : BOOLEAN,
     delivery_sequence : Nat]

ClientStates ==
    [was_online : BOOLEAN, is_online : BOOLEAN, wol_sent : Ages,
     skip : BOOLEAN, shutdown : ShutdownStates]

Trackers ==
    [ups_on_battery : BOOLEAN, battery : 0..FullBattery, outage_id : Nat,
     tracked : SUBSET Clients, clients : [Clients -> ClientStates]]

---------------------------------------------------------------------------
(* Construction, loading and the passage of time *)

new_shutdown_state ==
    [command_id |-> NoCommand, last_attempt |-> Never, acknowledged |-> FALSE,
     failure_notified |-> FALSE, offline_after_ack |-> FALSE,
     delivery_sequence |-> 0]

(* ASSUME_UNINITIALIZED_ONLINE is False. *)
new_client_state ==
    [was_online |-> FALSE, is_online |-> FALSE, wol_sent |-> Never,
     skip |-> FALSE, shutdown |-> new_shutdown_state]

(* A tracker before anything is loaded; also what an absent file loads as. *)
new_tracker ==
    [ups_on_battery |-> FALSE, battery |-> FullBattery, outage_id |-> NoOutage,
     tracked |-> {}, clients |-> [c \in Clients |-> new_client_state]]

(* Faulty load: forgets what was delivered; forgets the outage. *)
load_drops_shutdown(file, names) ==
    [file EXCEPT !.tracked = @ \cup names,
                 !.clients = [c \in Clients |-> [@[c] EXCEPT !.shutdown =
                                                     new_shutdown_state]]]

load_drops_outage(file, names) ==
    [file EXCEPT !.tracked = @ \cup names, !.outage_id = NoOutage]

(* __init__: the file's contents, then a record for every configured name  *)
(* the file does not know.  Names the configuration dropped stay tracked.  *)
load(file, names) == [file EXCEPT !.tracked = @ \cup names]

Older(age, d) == IF age + d < Horizon THEN age + d ELSE Horizon

aged_client(st, d) ==
    [st EXCEPT !.wol_sent = Older(st.wol_sent, d),
               !.shutdown = [st.shutdown EXCEPT !.last_attempt =
                                Older(st.shutdown.last_attempt, d)]]

Aged(t, d) ==
    [t EXCEPT !.clients = [c \in Clients |-> aged_client(t.clients[c], d)]]

---------------------------------------------------------------------------
(* Operations on one client's record *)

(* Faulty re-arming: the command stays.                                    *)
rearmed_same_command(sd) ==
    [new_shutdown_state EXCEPT !.delivery_sequence = sd.delivery_sequence + 1,
                               !.command_id = sd.command_id]

(* update(): the result of a ping.  A client seen to go offline after it   *)
(* acknowledged a shutdown and then online again is armed for another one. *)
rearmed(sd) ==
    [new_shutdown_state EXCEPT !.delivery_sequence = sd.delivery_sequence + 1]

update(st, online) ==
    LET sd == st.shutdown
        rearm == sd.acknowledged /\ online /\ sd.offline_after_ack
        went_offline == sd.acknowledged /\ ~online
    IN IF st.is_online = online
       THEN st
       ELSE [st EXCEPT !.is_online = online,
                       !.shutdown = IF rearm THEN rearmed(sd)
                                    ELSE [sd EXCEPT !.offline_after_ack =
                                                        @ \/ went_offline]]

mark_wol_sent(st) == [st EXCEPT !.wol_sent = 0]

mark_skip(st) == [st EXCEPT !.skip = TRUE]

should_attempt_wol(st, reattempt_delay) == st.wol_sent >= reattempt_delay

(* Faulty: gives up after a failure. *)
should_attempt_shutdown_once(st, retry_delay) ==
    /\ ~st.shutdown.acknowledged /\ ~st.shutdown.failure_notified
    /\ st.shutdown.last_attempt >= retry_delay

should_attempt_shutdown(st, retry_delay) ==
    ~st.shutdown.acknowledged /\ st.shutdown.last_attempt >= retry_delay

(* record_shutdown_attempt(), and mark_shutdown_failure_notified() or      *)
(* acknowledge_shutdown(), which always follow it.                         *)
shutdown_failed_acknowledged(st, command) ==
    [st EXCEPT !.shutdown = [@ EXCEPT !.command_id = command,
                                      !.last_attempt = 0,
                                      !.acknowledged = TRUE]]

shutdown_failed(st, command) ==
    [st EXCEPT !.shutdown = [@ EXCEPT !.command_id = command,
                                      !.last_attempt = 0,
                                      !.failure_notified = TRUE]]

shutdown_accepted(st, command) ==
    [st EXCEPT !.shutdown = [@ EXCEPT !.command_id = command,
                                      !.last_attempt = 0,
                                      !.acknowledged = TRUE]]

---------------------------------------------------------------------------
(* Operations on the whole tracker *)

(* The records of the names in S replaced by those of the function new. *)
Replace(t, S, new) ==
    [t EXCEPT !.clients = [c \in Clients |-> IF c \in S THEN new[c] ELSE @[c]]]

Pinged(t, names, online) ==
    Replace(t, names \cap t.tracked,
            [c \in Clients |-> update(t.clients[c], c \in online)])

mark_all_online_clients(t) ==
    Replace(t, t.tracked,
            [c \in Clients |->
                [t.clients[c] EXCEPT !.was_online = t.clients[c].is_online]])

(* set_ups_on_battery(is_on_battery, battery); uuid is the next fresh one. *)
set_ups_on_battery(t, is_on_battery, battery, uuid) ==
    [t EXCEPT !.ups_on_battery = is_on_battery,
              !.battery = battery,
              !.outage_id = IF is_on_battery /\ @ = NoOutage THEN uuid ELSE @]

forget_shutdowns(t) ==
    Replace(t, t.tracked,
            [c \in Clients |->
                [t.clients[c] EXCEPT !.shutdown = new_shutdown_state]])

(* Faulty: no identifier is drawn; the flag is set only from the second    *)
(* time on; the commands of the outage before are kept.                    *)
begin_outage_undrawn(t, battery, uuid) ==
    [IF t.ups_on_battery THEN t ELSE forget_shutdowns(t)
        EXCEPT !.ups_on_battery = TRUE, !.battery = battery]

begin_outage_late_flag(t, battery, uuid) ==
    IF t.ups_on_battery THEN set_ups_on_battery(t, TRUE, battery, uuid)
    ELSE [forget_shutdowns(t) EXCEPT !.outage_id = uuid]

begin_outage_keeps_commands(t, battery, uuid) ==
    set_ups_on_battery(
        IF t.ups_on_battery THEN t ELSE [t EXCEPT !.outage_id = uuid],
        TRUE, battery, uuid)

begin_outage(t, battery, uuid) ==
    set_ups_on_battery(
        IF t.ups_on_battery THEN t
        ELSE [forget_shutdowns(t) EXCEPT !.outage_id = uuid],
        TRUE, battery, uuid)

(* reset(): the shutdown records are kept until the next outage begins. *)
reset(t) ==
    [Replace(t, t.tracked,
             [c \in Clients |->
                 [t.clients[c] EXCEPT !.was_online = FALSE,
                                      !.wol_sent = Never,
                                      !.skip = FALSE]])
        EXCEPT !.ups_on_battery = FALSE,
               !.battery = FullBattery,
               !.outage_id = NoOutage]

sync_clients(t, names) ==
    [Replace(t, t.tracked \ names, [c \in Clients |-> new_client_state])
        EXCEPT !.tracked = names]

(* Whether sync_clients sets _dirty; the faulty one, only for new names.   *)
sync_dirties_additions(t, names) == ~(names \subseteq t.tracked)

sync_dirties(t, names) == names # t.tracked
=============================================================================
