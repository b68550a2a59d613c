---------------------------- MODULE AgentUpdate ----------------------------
(***************************************************************************)
(* The self-update of an agent (agent/update.go and agent/main.go), who    *)
(* asks for it (wolnut/web.py) and who reports it (wolnut/agent_updates.py *)
(* with observe_agent_update of wolnut/state.py).                          *)
(*                                                                         *)
(* Versions are numbers in their order.  A release is a directory whose    *)
(* files are fetched one by one, so that it can change in between; a file  *)
(* and its checksum match when both are of the same release.               *)
(***************************************************************************)
EXTENDS Naturals

CONSTANTS MaxVersion,   \* bound on versions
          MaxFaults,    \* bound on crashes, failed saves, fetches and restarts
          MaxReinstalls \* bound on installations by hand

ASSUME UpdateAssumption ==
    MaxVersion \in Nat \ {0} /\ MaxFaults \in Nat /\ MaxReinstalls \in Nat

VARIABLES release,   \* the version offered at the download base
          binary,    \* the version of the file that is started
          version,   \* the version that runs
          file,      \* the update fields of the agent's state.json
          updater,   \* the goroutine of startUpdate
          auto,      \* the controller's configuration: auto_update
          record,    \* the tracker's agent_update of the client
          saved      \* the same in the controller's state file

(* History: the last update was asked for by the policy; installations     *)
(* stamped, how often each was reported, those whose observation a crash   *)
(* lost, the stamp there was when the client was first observed,           *)
(* installations by hand, faults.                                          *)
VARIABLES by_policy, installs, notices, forgotten, baseline, by_hand, faults

controller == <<record, saved, notices, forgotten, baseline>>
history == <<by_policy, installs>>
vars == <<release, binary, version, file, updater, auto, controller, history,
          by_hand, faults>>

Versions == 1..MaxVersion
NoVersion == 0

(* "none" is the empty string of a file that says nothing of an update.    *)
Statuses == {"none", "checking", "failed", "up_to_date", "restart_pending", "updated"}
Sources == {"none", "manual", "automatic"}
Files == [status : Statuses, source : Sources, latest : 0..MaxVersion,
          installed : Nat]
NoUpdate ==
    [status |-> "none", source |-> "none", latest |-> NoVersion, installed |-> 0]

(* What a running update has fetched, and its result. *)
Updaters == [pc : {"idle", "manifest", "checksum", "binary", "verify", "record",
                   "restart"},
             manifest : 0..MaxVersion, binary : 0..MaxVersion, result : Statuses]
Idle ==
    [pc |-> "idle", manifest |-> NoVersion, binary |-> NoVersion, result |-> "none"]

Records == [initialized : BOOLEAN, installed : Nat]

Init ==
    /\ release = 1 /\ binary = 1 /\ version = 1
    /\ file = NoUpdate
    /\ updater = Idle
    /\ auto = FALSE
    /\ record = [initialized |-> FALSE, installed |-> 0]
    /\ saved = record
    /\ by_policy = FALSE
    /\ installs = 0
    /\ notices = [stamp \in {} |-> 0]
    /\ forgotten = {}
    /\ baseline = 0
    /\ by_hand = 0
    /\ faults = 0

Fault == faults < MaxFaults /\ faults' = faults + 1

---------------------------------------------------------------------------
(* The agent: who starts an update *)

(* Faulty: what the state file says counts, not what is running. *)
MayStart_by_status == updater.pc = "idle" /\ file.status # "checking"

MayStart == updater.pc = "idle"

(* startUpdate: refused while one is running. *)
startUpdate(source) ==
    /\ MayStart
    /\ file' = [file EXCEPT !.status = "checking", !.source = source]
    /\ updater' = [Idle EXCEPT !.pc = "manifest"]

(* handleUpdate, asked by an administrator or, every six hours while the   *)
(* policy is on, by _agent_auto_update_poller; the request is the same.    *)
Requested(policy) ==
    /\ startUpdate("manual")
    /\ by_policy' = policy
    /\ UNCHANGED <<release, binary, version, auto, controller, installs, by_hand,
                   faults>>

Check == Requested(FALSE)
AutoCheck == auto /\ Requested(TRUE)

(* handleUpdatePolicy; Pairing has the two sides of the policy.            *)
SetPolicy(enabled) ==
    /\ auto' = enabled
    /\ IF enabled /\ MayStart
       THEN startUpdate("automatic") /\ by_policy' = TRUE
       ELSE UNCHANGED <<file, updater, by_policy>>
    /\ UNCHANGED <<release, binary, version, controller, installs, by_hand,
                   faults>>

(* handleUnpair *)
Unpair ==
    /\ auto' = FALSE
    /\ file' = NoUpdate
    /\ UNCHANGED <<release, binary, version, updater, controller, history, by_hand,
                   faults>>

---------------------------------------------------------------------------
(* The agent: Install, step by step *)

unchangedByInstall == <<release, version, auto, controller, by_hand>>

Step(pc, next) ==
    /\ updater.pc = pc
    /\ updater' = next
    /\ UNCHANGED unchangedByInstall

FetchManifest ==
    /\ Step("manifest", [updater EXCEPT !.pc = "checksum", !.manifest = release])
    /\ UNCHANGED <<binary, file, history, faults>>

(* Faulty: any other version will do. *)
newerVersion_any(available) == available # version

(* newerVersion: compared with the version that runs. *)
newerVersion(available) == available > version

(* The checksum of the manifest matches; is its version newer? *)
CheckManifest ==
    /\ release = updater.manifest
    /\ Step("checksum",
            IF newerVersion(updater.manifest)
            THEN [updater EXCEPT !.pc = "binary"]
            ELSE [updater EXCEPT !.pc = "record", !.result = "up_to_date"])
    /\ UNCHANGED <<binary, file, history, faults>>

FetchBinary ==
    /\ Step("binary", [updater EXCEPT !.pc = "verify", !.binary = release])
    /\ UNCHANGED <<binary, file, history, faults>>

(* Faulty: the checksum is enough. *)
Verified_checksum == release = updater.binary

(* The checksum of the binary matches and it says to be the version of the *)
(* manifest.                                                               *)
Verified == release = updater.binary /\ updater.binary = updater.manifest

(* Faulty: put in place before it was fetched. *)
Replace_early ==
    /\ Step("binary", [updater EXCEPT !.pc = "record", !.result = "restart_pending"])
    /\ binary' = updater.binary
    /\ UNCHANGED <<file, history, faults>>

Replace ==
    /\ Verified
    /\ Step("verify", [updater EXCEPT !.pc = "record", !.result = "restart_pending"])
    /\ binary' = updater.binary
    /\ UNCHANGED <<file, history, faults>>

(* Any step of Install fails: by itself, or because the release changed.   *)
InstallFails ==
    /\ updater.pc \in {"manifest", "checksum", "binary", "verify"}
    /\ Step(updater.pc, [updater EXCEPT !.pc = "record", !.result = "failed"])
    /\ \/ Fault
       \/ /\ \/ updater.pc = "checksum" /\ release # updater.manifest
             \/ updater.pc = "verify" /\ ~Verified
          /\ UNCHANGED faults
    /\ UNCHANGED <<binary, file, history>>

AfterRecord ==
    IF updater.result = "restart_pending" THEN [updater EXCEPT !.pc = "restart"]
                                          ELSE Idle

(* The result is saved, with the time of an installation ... *)
Record ==
    /\ Step("record", AfterRecord)
    /\ IF updater.result = "restart_pending"
       THEN installs' = installs + 1
       ELSE UNCHANGED installs
    /\ file' = [file EXCEPT
            !.status = updater.result,
            !.latest = IF updater.result = "failed" THEN @ ELSE updater.manifest,
            !.installed = IF updater.result = "restart_pending" THEN installs' ELSE @]
    /\ UNCHANGED <<binary, by_policy, faults>>

(* ... or not: the error is ignored. *)
RecordLost ==
    /\ Step("record", AfterRecord)
    /\ Fault
    /\ UNCHANGED <<binary, file, history>>

(* runServe: an update that is pending is confirmed by its version.        *)
Confirmed(state, running) ==
    IF state.status = "restart_pending" /\ state.latest = running
    THEN [state EXCEPT !.status = "updated"]
    ELSE state

Serve(installed) ==
    /\ version' = installed
    /\ updater' = Idle
    /\ file' = Confirmed(file, installed)
    /\ UNCHANGED <<release, auto, controller, history>>

Restart == updater.pc = "restart" /\ Serve(binary) /\ UNCHANGED <<binary, by_hand, faults>>

(* systemctl fails; the status may not be saved either. *)
RestartFails ==
    /\ Step("restart", Idle)
    /\ Fault
    /\ file' \in {file, [file EXCEPT !.status = "failed"]}
    /\ UNCHANGED <<binary, history>>

(* The service dies, or the device restarts. *)
Crash == Fault /\ Serve(binary) /\ UNCHANGED <<binary, by_hand>>

(* install.sh: the service is stopped, another binary put in its place.    *)
Reinstall(v) ==
    /\ by_hand < MaxReinstalls
    /\ by_hand' = by_hand + 1
    /\ binary' = v
    /\ Serve(v)
    /\ UNCHANGED faults

(* A release is published, or withdrawn for an older one. *)
Publish(v) ==
    /\ release' = v
    /\ UNCHANGED <<binary, version, file, updater, auto, controller, history, by_hand,
                   faults>>

---------------------------------------------------------------------------
(* The controller *)

unchangedByController ==
    <<release, binary, version, file, updater, auto, history, by_hand>>

(* Faulty: the same installation is news again. *)
IsNews_again == file.installed >= record.installed

IsNews == file.installed > record.installed

Notices(stamp) == IF stamp \in DOMAIN notices THEN notices[stamp] ELSE 0

(* AgentUpdateMonitor.poll with handleStatus of the agent and              *)
(* observe_agent_update.                                                   *)
Observe ==
    /\ auto
    /\ record' = IF ~record.initialized \/ IsNews
                 THEN [initialized |-> TRUE, installed |-> file.installed]
                 ELSE record
    /\ baseline' = IF record.initialized THEN baseline ELSE file.installed
    /\ notices' =
        IF /\ record.initialized /\ IsNews /\ file.installed > 0
           /\ file.source = "automatic" /\ file.status = "updated"
        THEN [stamp \in DOMAIN notices \cup {file.installed} |->
                Notices(stamp) + (IF stamp = file.installed THEN 1 ELSE 0)]
        ELSE notices
    /\ UNCHANGED <<unchangedByController, saved, forgotten, faults>>

SaveState ==
    /\ saved' = record
    /\ UNCHANGED <<unchangedByController, record, notices, forgotten, baseline, faults>>

ControllerCrash ==
    /\ Fault
    /\ record' = saved
    /\ forgotten' = IF record = saved THEN forgotten
                                      ELSE forgotten \cup {record.installed}
    /\ UNCHANGED <<unchangedByController, saved, notices, baseline>>

---------------------------------------------------------------------------
Updating ==
    \/ FetchManifest \/ CheckManifest \/ FetchBinary \/ Replace \/ InstallFails
    \/ Record \/ RecordLost \/ Restart \/ RestartFails

Next ==
    \/ Check \/ AutoCheck \/ Unpair
    \/ \E enabled \in BOOLEAN : SetPolicy(enabled)
    \/ Updating
    \/ Crash
    \/ \E v \in Versions : Reinstall(v) \/ Publish(v)
    \/ Observe \/ SaveState \/ ControllerCrash

Spec == Init /\ [][Next]_vars

(* An update comes to its end: every fetch has a timeout and systemctl     *)
(* returns or stops the process.  The poller of the controller loops.      *)
FairSpec == Spec /\ WF_vars(Updating) /\ WF_vars(AutoCheck)
---------------------------------------------------------------------------
TypeOK ==
    /\ {release, binary, version} \subseteq Versions
    /\ file \in Files
    /\ updater \in Updaters
    /\ {auto, by_policy} \subseteq BOOLEAN
    /\ {record, saved} \subseteq Records
    /\ {installs, baseline, by_hand, faults} \subseteq Nat
    /\ forgotten \cup DOMAIN notices \subseteq 0..installs
    /\ \A stamp \in DOMAIN notices : notices[stamp] \in Nat

(* An update that is said to wait for the restart is what the restart will *)
(* start: checked against the manifest, in place before it is recorded.    *)
(* Another binary put there by hand is not its doing.                      *)
PendingIsInstalled ==
    file.status = "restart_pending" => binary = file.latest \/ by_hand > 0

(* An installation is reported once, whatever is polled, saved and         *)
(* restarted, except when the controller died before it saved what it saw. *)
NotifiedOnce ==
    \A stamp \in DOMAIN notices : notices[stamp] <= 1 \/ stamp \in forgotten

(* docs/agent.md: updates refuse downgrades.  Whatever is published and    *)
(* withdrawn while an update runs, and whenever the service dies, only an  *)
(* administrator at the device makes an older version run.                 *)
VersionNeverFalls == [][version' >= version \/ by_hand' > by_hand]_vars

(* While the policy is on and the release stays, the agent comes to run it *)
(* (or a newer one), whatever crashed, failed or was not saved before.     *)
CatchesUp ==
    \A v \in Versions :
        (auto /\ release = v) ~> (version >= v \/ ~auto \/ release # v)

(* The web interface of the notification (webui/src/App.tsx): an automatic *)
(* agent update completes successfully.  An update that the policy asked   *)
(* for and that was confirmed is reported, once the controller has seen    *)
(* its installation and is not looking at the device for the first time.   *)
AutomaticNotified ==
    (/\ file.status = "updated" /\ by_policy
     /\ record.initialized /\ record.installed = file.installed
     /\ baseline < file.installed)
    => file.installed \in DOMAIN notices
===========================================================================
