-------------------------- MODULE ControllerFiles --------------------------
(***************************************************************************)
(* The state file (StateFile) and the identity (Identity) of one           *)
(* controller process.  They share the process and no variable, and each   *)
(* allows the process to die at any moment: what holds of each is          *)
(* seen in the behaviours in which the other one rests, so a behaviour is  *)
(* about one part.                                                         *)
(***************************************************************************)
EXTENDS StateFile

CONSTANT MaxMade

VARIABLES part, made, next, key, identities, raced

Store == INSTANCE Identity WITH Stores <- Writers

storeVars == <<made, next, key, identities, raced>>

InitFiles == part \in {"state", "identity"} /\ Init /\ Store!Init

StateStep == part = "state" /\ Next /\ UNCHANGED <<part, storeVars>>
IdentityStep == part = "identity" /\ Store!Next /\ UNCHANGED <<part, vars>>

(* The service manager starts the process again, and the pollers of the    *)
(* web server loop.                                                        *)
FilesSpec ==
    /\ InitFiles /\ [][StateStep \/ IdentityStep]_<<part, vars, storeVars>>
    /\ WF_vars(part = "state" /\ Start)
    /\ WF_vars(part = "state" /\ Web)

IdentityIsOne == Store!IdentityIsOne
============================================================================
