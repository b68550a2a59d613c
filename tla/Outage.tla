------------------------------- MODULE Outage -------------------------------
(***************************************************************************)
(* What the controller promises of outages: each has an identifier of its  *)
(* own, no device is asked to shut down for another one, and none is over  *)
(* before power came back and the clients were woken or given up, however  *)
(* often the controller dies.                                              *)
(***************************************************************************)
EXTENDS Naturals

CONSTANTS Clients

VARIABLES phase,        \* what the controller is busy with
          current,      \* the outage under way, 0 without one
          remembered,   \* the outage a restart goes on with
          drawn,        \* outages so far
          accepted      \* for which outages each device accepted a shutdown

vars == <<phase, current, remembered, drawn, accepted>>

Init ==
    /\ phase = "down"
    /\ current = 0 /\ remembered = 0 /\ drawn = 0
    /\ accepted = [c \in Clients |-> {}]

(* An outage that is remembered is one on battery, whatever was done of it.*)
Start ==
    /\ phase = "down"
    /\ phase' = IF remembered = 0 THEN "idle" ELSE "battery"
    /\ current' = remembered
    /\ UNCHANGED <<remembered, drawn, accepted>>

Begin ==
    /\ phase = "idle" /\ current = 0
    /\ phase' = "battery"
    /\ drawn' = drawn + 1
    /\ current' = drawn'
    /\ UNCHANGED <<remembered, accepted>>

(* Power fails again before the outage is over: it is the same one.        *)
GoOn ==
    /\ phase # "down" /\ current # 0
    /\ phase' = "battery"
    /\ UNCHANGED <<current, remembered, drawn, accepted>>

PowerBack ==
    /\ phase = "battery"
    /\ phase' = "restoring"
    /\ UNCHANGED <<current, remembered, drawn, accepted>>

Ask(c) ==
    /\ phase = "battery"
    /\ accepted' = [accepted EXCEPT ![c] = @ \cup {current}]
    /\ UNCHANGED <<phase, current, remembered, drawn>>

(* All clients are back, or the time for it is up ... *)
Restored ==
    /\ phase = "restoring"
    /\ phase' = "idle"
    /\ current' \in {current, 0}
    /\ UNCHANGED <<remembered, drawn, accepted>>

(* ... and then the outage is over at the next look at the UPS.            *)
Over ==
    /\ phase = "idle"
    /\ current' = 0
    /\ UNCHANGED <<phase, remembered, drawn, accepted>>

Remember ==
    /\ phase # "down"
    /\ remembered' = current
    /\ UNCHANGED <<phase, current, drawn, accepted>>

Die ==
    /\ phase' = "down"
    /\ current' = remembered
    /\ UNCHANGED <<remembered, drawn, accepted>>

Next ==
    \/ Start \/ Begin \/ GoOn \/ PowerBack \/ Restored \/ Over
    \/ Remember \/ Die
    \/ \E c \in Clients : Ask(c)

Spec == Init /\ [][Next]_vars
=============================================================================
