----------------------------- MODULE MCMonitor -----------------------------
(***************************************************************************)
(* Instances of Monitor for TLC.                                           *)
(***************************************************************************)
EXTENDS Monitor, TLC

(* One charge below every threshold, one above. *)
MCBatteries == {20, 90}

(* Every client is woken if it was online, after one poll. *)
Plain ==
    [names |-> Clients,
     client |-> [c \in Clients |->
        [enabled |-> TRUE, wake_enabled |-> TRUE, auto_mac |-> FALSE,
         always_wake |-> FALSE, shutdown_enabled |-> TRUE, threshold |-> 50]],
     poll_interval |-> 1, min_battery |-> 50, restore_delay |-> 1,
     client_timeout |-> 1, reattempt_delay |-> 2]

PlainConfigs == {Plain}

(* One charge, and settings for which it is low enough to ask a client to  *)
(* shut down and high enough to wake it; or neither.                       *)
LowOnly == {20}
AnyCharge == [Plain EXCEPT !.min_battery = 20]

Patient(cfg) ==
    [cfg EXCEPT !.min_battery = 50,
                !.client = [c \in Clients |-> [@[c] EXCEPT !.threshold = 10]]]

(* Waking takes two polls on line power. *)
TwoPolls == [AnyCharge EXCEPT !.restore_delay = 2, !.client_timeout = 2]
RestartConfigs == {TwoPolls, Patient(TwoPolls)}

(* A client whose MAC address is looked up whenever the file is loaded: a  *)
(* hot reload can take it out of a running outage, and bring it back.      *)
LookupConfigs ==
    {[AnyCharge EXCEPT !.client =
        [c \in Clients |-> [Plain.client[c] EXCEPT !.auto_mac = TRUE]]]}
=============================================================================
