------------------------- MODULE AgentUpdateProofs -------------------------
(***************************************************************************)
(* What the self-update of an agent keeps, for any number of versions,     *)
(* faults and installations.                                               *)
(***************************************************************************)
EXTENDS AgentUpdate, TLAPS

(* The stamp in the agent's file is that of the last installation, or      *)
(* unpairing took it away; the controller has seen none that was not.      *)
Stamped ==
    /\ file.installed \in {0, installs}
    /\ \A seen \in {record, saved} :
        seen.installed <= installs /\ (~seen.initialized => seen.installed = 0)

(* An update in progress is not yet said to wait for the restart; one that *)
(* will be is in place.                                                    *)
Staged ==
    /\ updater.pc \notin {"idle", "restart"} => file.status # "restart_pending"
    /\ updater.pc = "record" /\ updater.result = "restart_pending" =>
        binary = updater.manifest \/ by_hand > 0

(* What is in place is not older than what runs, and what is fetched to    *)
(* replace it is newer.                                                    *)
Newer ==
    /\ binary >= version
    /\ updater.pc \in {"binary", "verify"} => updater.manifest > version

(* A stamp that was reported is seen, or past, or its observation lost.    *)
Reported ==
    \A stamp \in DOMAIN notices :
        stamp <= record.installed \/ stamp < installs \/ stamp \in forgotten

IInv ==
    /\ TypeOK /\ Stamped /\ Staged /\ Newer /\ Reported
    /\ PendingIsInstalled /\ NotifiedOnce

(* What the parts about the controller need not be shown for: a step that  *)
(* leaves it and the installations alone.                                  *)
Unnoticed == UNCHANGED <<controller, installs>>

LEMMA InitInv == Init => IInv
<1> SUFFICES ASSUME Init PROVE IInv
  OBVIOUS
<1>1. TypeOK
  <2>1. {release, binary, version} \subseteq Versions
    BY UpdateAssumption DEF Init, Versions
  <2>2. file \in Files /\ updater \in Updaters
    BY UpdateAssumption
    DEF Init, Files, NoUpdate, Statuses, Sources, Idle, Updaters, NoVersion
  <2>3. {record, saved} \subseteq Records
    <3>1. record \in Records
      BY DEF Init, Records
    <3> QED BY <3>1 DEF Init
  <2>4. {auto, by_policy} \subseteq BOOLEAN
    BY DEF Init
  <2>5. {installs, baseline, by_hand, faults} \subseteq Nat
    BY DEF Init
  <2>6. forgotten = {} /\ DOMAIN notices = {}
    BY DEF Init
  <2> QED BY <2>1, <2>2, <2>3, <2>4, <2>5, <2>6 DEF TypeOK
<1>2. Stamped
  BY DEF Init, Stamped, NoUpdate
<1>3. Staged /\ PendingIsInstalled
  BY DEF Init, Staged, Idle, PendingIsInstalled, NoUpdate
<1>4. Newer
  BY DEF Init, Newer, Idle
<1>5. Reported /\ NotifiedOnce
  BY DEF Init, Reported, NotifiedOnce
<1> QED BY <1>1, <1>2, <1>3, <1>4, <1>5 DEF IInv

(* The controller's parts survive a step that is none of its business. *)
LEMMA UnnoticedKeeps ==
    ASSUME IInv, Unnoticed, file'.installed \in {0, file.installed}
    PROVE  Stamped' /\ Reported' /\ NotifiedOnce'
BY DEF IInv, Unnoticed, controller, Stamped, Reported, NotifiedOnce

(* The types of what such a step changes are all that is left to show. *)
LEMMA UnnoticedType ==
    ASSUME TypeOK, Unnoticed,
           {release', binary', version'} \subseteq Versions,
           file' \in Files, updater' \in Updaters,
           {auto', by_policy'} \subseteq BOOLEAN,
           {by_hand', faults'} \subseteq Nat
    PROVE  TypeOK'
BY DEF TypeOK, Unnoticed, controller

LEMMA FaultType == ASSUME TypeOK, Fault PROVE faults' \in Nat
BY DEF TypeOK, Fault

(* Starting an update: nothing is fetched, the old result is gone. *)
LEMMA StartKeeps ==
    ASSUME IInv, NEW source \in Sources, startUpdate(source), Unnoticed,
           UNCHANGED <<release, binary, version, by_hand, faults>>,
           auto' \in BOOLEAN, by_policy' \in BOOLEAN
    PROVE  IInv'
<1>1. /\ file \in Files /\ file' = [file EXCEPT !.status = "checking", !.source = source]
      /\ updater' = [Idle EXCEPT !.pc = "manifest"]
  BY DEF startUpdate, IInv, TypeOK
<1>2. file' \in Files /\ file'.status = "checking" /\ file'.installed = file.installed
  BY <1>1 DEF Files, Statuses
<1>3. updater' \in Updaters /\ updater'.pc = "manifest"
  BY <1>1, UpdateAssumption DEF Idle, Updaters, Statuses, NoVersion
<1>4. TypeOK'
  BY <1>2, <1>3, UnnoticedType DEF IInv, TypeOK
<1>5. Stamped' /\ Reported' /\ NotifiedOnce'
  BY <1>2, UnnoticedKeeps
<1>6. Staged' /\ PendingIsInstalled' /\ Newer'
  BY <1>2, <1>3 DEF IInv, Staged, PendingIsInstalled, Newer
<1> QED BY <1>4, <1>5, <1>6 DEF IInv

(* Stopping one: the service has started again, or its restart failed.     *)
LEMMA IdleKeeps ==
    ASSUME IInv, Unnoticed, updater' = Idle, file' \in Files,
           file'.installed \in {0, file.installed},
           file'.status = "restart_pending" =>
                file.status = "restart_pending" /\ file'.latest = file.latest
                /\ (binary' = binary \/ by_hand' > 0),
           {binary', version'} \subseteq Versions, binary' >= version',
           {auto', by_policy'} \subseteq BOOLEAN,
           {by_hand', faults'} \subseteq Nat, by_hand' >= by_hand,
           UNCHANGED release
    PROVE  IInv'
<1>1. updater' \in Updaters /\ updater'.pc = "idle"
  BY UpdateAssumption DEF Idle, Updaters, Statuses, NoVersion
<1>2. TypeOK'
  BY <1>1, UnnoticedType DEF IInv, TypeOK
<1>3. Stamped' /\ Reported' /\ NotifiedOnce'
  BY UnnoticedKeeps
<1>4. PendingIsInstalled'
  BY <1>2 DEF IInv, TypeOK, PendingIsInstalled
<1>5. Staged' /\ Newer'
  BY <1>1 DEF Staged, Newer
<1> QED BY <1>2, <1>3, <1>4, <1>5 DEF IInv

(* runServe: a pending update is confirmed, nothing else of it changes. *)
LEMMA ConfirmedState ==
    ASSUME NEW state \in Files, NEW running
    PROVE  LET new == Confirmed(state, running) IN
           /\ new \in Files /\ new.installed = state.installed
           /\ new.latest = state.latest
           /\ new.status = "restart_pending" => state.status = "restart_pending"
BY DEF Confirmed, Files, Statuses

LEMMA ServeKeeps ==
    ASSUME IInv, NEW installed \in Versions, Serve(installed),
           binary' = installed, binary' = binary \/ by_hand' > 0,
           by_hand' \in Nat, by_hand' >= by_hand, faults' \in Nat
    PROVE  IInv'
<1>1. /\ updater' = Idle /\ version' = installed
      /\ file' = Confirmed(file, installed)
      /\ UNCHANGED <<release, auto, by_policy>> /\ Unnoticed
  BY DEF Serve, Unnoticed, history, controller
<1>2. /\ file' \in Files /\ file'.installed = file.installed
      /\ file'.latest = file.latest
      /\ file'.status = "restart_pending" => file.status = "restart_pending"
  BY <1>1, ConfirmedState DEF IInv, TypeOK
<1>3. {binary', version'} \subseteq Versions /\ binary' >= version'
  BY <1>1 DEF Versions
<1>4. {auto', by_policy'} \subseteq BOOLEAN
  BY <1>1 DEF IInv, TypeOK
<1> QED BY <1>1, <1>2, <1>3, <1>4, IdleKeeps

---------------------------------------------------------------------------
(* A step of Install before its result is recorded. *)
LEMMA InstallKeeps ==
    ASSUME IInv, Unnoticed, UNCHANGED <<release, version, auto, file, by_policy, by_hand>>,
           updater.pc \notin {"idle", "restart"},
           updater' \in Updaters, binary' \in Versions, binary' >= version,
           faults' \in Nat,
           updater'.pc = "record" /\ updater'.result = "restart_pending" =>
                binary' = updater'.manifest \/ by_hand > 0,
           updater'.pc \in {"binary", "verify"} => updater'.manifest > version
    PROVE  IInv'
<1>1. TypeOK'
  BY UnnoticedType DEF IInv, TypeOK
<1>2. Stamped' /\ Reported' /\ NotifiedOnce'
  BY UnnoticedKeeps
<1>3. file'.status # "restart_pending"
  BY DEF IInv, Staged
<1>4. Staged' /\ PendingIsInstalled' /\ Newer'
  BY <1>3 DEF Staged, PendingIsInstalled, Newer
<1> QED BY <1>1, <1>2, <1>4 DEF IInv

LEMMA StepInstall ==
    ASSUME IInv, FetchManifest \/ CheckManifest \/ FetchBinary \/ Replace \/ InstallFails
    PROVE  IInv'
<1>0. updater \in Updaters /\ release \in 0..MaxVersion
  BY UpdateAssumption DEF IInv, TypeOK, Versions
<1> USE DEF IInv, TypeOK, Step, unchangedByInstall, Unnoticed, controller, history
<1>1. CASE FetchManifest
  <2>1. updater' \in Updaters /\ updater'.pc = "checksum"
    <3>1. updater' = [updater EXCEPT !.pc = "checksum", !.manifest = release]
      BY <1>1 DEF FetchManifest
    <3> HIDE DEF IInv, TypeOK
    <3> QED BY <1>0, <3>1 DEF Updaters
  <2> QED BY <1>1, <2>1, InstallKeeps DEF FetchManifest, Newer
<1>2. CASE CheckManifest
  <2>1. /\ updater' \in Updaters
        /\ \/ updater'.pc = "binary" /\ updater'.manifest > version
           \/ updater'.pc = "record" /\ updater'.result = "up_to_date"
    BY <1>2 DEF CheckManifest, Updaters, Statuses, newerVersion
  <2> QED BY <1>2, <2>1, InstallKeeps DEF CheckManifest, Newer
<1>3. CASE FetchBinary
  <2>1. /\ updater' \in Updaters /\ updater'.pc = "verify"
        /\ updater'.manifest = updater.manifest /\ updater.pc = "binary"
    <3>1. updater' = [updater EXCEPT !.pc = "verify", !.binary = release]
          /\ updater.pc = "binary"
      BY <1>3 DEF FetchBinary
    <3> HIDE DEF IInv, TypeOK
    <3> QED BY <1>0, <3>1 DEF Updaters
  <2> QED BY <1>3, <2>1, InstallKeeps DEF FetchBinary, Newer
<1>4. CASE Replace
  <2>1. /\ updater' \in Updaters /\ updater'.pc = "record"
        /\ updater'.manifest = updater.manifest /\ updater.pc = "verify"
    BY <1>4 DEF Replace, Updaters, Statuses
  <2>2. binary' = updater.manifest /\ binary' \in Versions /\ binary' > version
    BY <1>4, <2>1 DEF Replace, Verified, Newer
  <2> QED BY <1>4, <2>1, <2>2, InstallKeeps DEF Replace, Versions
<1>5. CASE InstallFails
  <2>1. /\ updater' \in Updaters /\ updater'.pc = "record"
        /\ updater'.result = "failed"
        /\ updater.pc \notin {"idle", "restart"}
    BY <1>5 DEF InstallFails, Updaters, Statuses
  <2>2. faults' \in Nat
    BY <1>5, FaultType DEF InstallFails
  <2> QED BY <1>5, <2>1, <2>2, InstallKeeps DEF InstallFails, Newer
<1> QED BY <1>1, <1>2, <1>3, <1>4, <1>5

(* After the result the updater restarts the service or is done. *)
LEMMA AfterRecordType ==
    ASSUME TypeOK, updater' = AfterRecord
    PROVE  /\ updater' \in Updaters /\ updater'.pc \in {"idle", "restart"}
BY UpdateAssumption DEF TypeOK, AfterRecord, Updaters, Idle, Statuses, NoVersion

LEMMA StepRecord == ASSUME IInv, Record PROVE IInv'
<1>1. /\ updater.pc = "record" /\ updater' = AfterRecord
      /\ UNCHANGED <<release, version, auto, record, saved, notices, forgotten,
                     baseline, by_hand, binary, by_policy, faults>>
      /\ installs' = IF updater.result = "restart_pending" THEN installs + 1 ELSE installs
      /\ file' = [file EXCEPT
            !.status = updater.result,
            !.latest = IF updater.result = "failed" THEN @ ELSE updater.manifest,
            !.installed = IF updater.result = "restart_pending" THEN installs' ELSE @]
  BY DEF Record, Step, unchangedByInstall, controller, history
<1>2. updater' \in Updaters /\ updater'.pc \in {"idle", "restart"}
  BY <1>1, AfterRecordType DEF IInv
<1>3. /\ file \in Files /\ updater \in Updaters /\ installs \in Nat /\ installs' \in Nat
      /\ installs' >= installs
  BY <1>1 DEF IInv, TypeOK
<1>4. /\ file' \in Files
      /\ file'.status = updater.result
      /\ file'.installed = IF updater.result = "restart_pending" THEN installs'
                                                                 ELSE file.installed
      /\ updater.result = "restart_pending" => file'.latest = updater.manifest
  BY <1>1, <1>3 DEF Files, Updaters
<1>5. TypeOK'
  <2>1. (forgotten \cup DOMAIN notices)' \subseteq 0..installs'
    BY <1>1, <1>3 DEF IInv, TypeOK
  <2> QED BY <1>1, <1>2, <1>3, <1>4, <2>1 DEF IInv, TypeOK
<1>6. Stamped'
  BY <1>1, <1>3, <1>4 DEF IInv, TypeOK, Records, Stamped
<1>7. Staged' /\ Newer'
  BY <1>1, <1>2 DEF IInv, Staged, Newer
<1>8. PendingIsInstalled'
  BY <1>1, <1>4 DEF IInv, Staged, PendingIsInstalled
<1>9. Reported' /\ NotifiedOnce'
  BY <1>1, <1>3 DEF IInv, TypeOK, Reported, NotifiedOnce
<1> QED BY <1>5, <1>6, <1>7, <1>8, <1>9 DEF IInv

LEMMA StepRecordLost == ASSUME IInv, RecordLost PROVE IInv'
<1>1. /\ updater.pc = "record" /\ updater' = AfterRecord /\ Unnoticed
      /\ UNCHANGED <<release, version, auto, by_hand, binary, file, by_policy>>
  BY DEF RecordLost, Step, unchangedByInstall, history, Unnoticed
<1>2. updater' \in Updaters /\ updater'.pc \in {"idle", "restart"}
  BY <1>1, AfterRecordType DEF IInv
<1>3. TypeOK'
  BY <1>1, <1>2, FaultType, UnnoticedType DEF IInv, TypeOK, RecordLost
<1>4. Stamped' /\ Reported' /\ NotifiedOnce'
  BY <1>1, UnnoticedKeeps
<1>5. Staged' /\ Newer' /\ PendingIsInstalled'
  BY <1>1, <1>2 DEF IInv, Staged, Newer, PendingIsInstalled
<1> QED BY <1>3, <1>4, <1>5 DEF IInv

LEMMA StepRestart ==
    ASSUME IInv, Restart \/ RestartFails \/ Crash \/ \E v \in Versions : Reinstall(v)
    PROVE  IInv'
<1>1. CASE Restart
  BY <1>1, ServeKeeps DEF Restart, IInv, TypeOK
<1>2. CASE RestartFails
  <2>1. /\ updater' = Idle /\ Unnoticed
        /\ UNCHANGED <<release, version, auto, by_hand, binary, by_policy>>
        /\ file' \in {file, [file EXCEPT !.status = "failed"]}
    BY <1>2 DEF RestartFails, Step, unchangedByInstall, history, Unnoticed
  <2>2. file' \in Files /\ file'.installed = file.installed
    BY <2>1 DEF IInv, TypeOK, Files, Statuses
  <2>3. file'.status = "restart_pending" => file' = file
    BY <2>1 DEF IInv, TypeOK, Files
  <2>4. faults' \in Nat
    BY <1>2, FaultType DEF RestartFails, IInv
  <2> QED BY <2>1, <2>2, <2>3, <2>4, IdleKeeps DEF IInv, TypeOK, Newer
<1>3. CASE Crash
  BY <1>3, ServeKeeps, FaultType DEF Crash, IInv, TypeOK
<1>4. CASE \E v \in Versions : Reinstall(v)
  <2> PICK v \in Versions : Reinstall(v)
    BY <1>4
  <2> QED BY ServeKeeps DEF Reinstall, IInv, TypeOK
<1> QED BY <1>1, <1>2, <1>3, <1>4

---------------------------------------------------------------------------
LEMMA StepPolicy ==
    ASSUME IInv, Check \/ AutoCheck \/ Unpair
                 \/ (\E enabled \in BOOLEAN : SetPolicy(enabled))
                 \/ \E v \in Versions : Publish(v)
    PROVE  IInv'
<1>1. ASSUME NEW policy \in BOOLEAN, Requested(policy)
      PROVE  IInv'
  BY <1>1, StartKeeps DEF Requested, Unnoticed, Sources, IInv, TypeOK
<1>2. CASE Check \/ AutoCheck
  BY <1>1, <1>2 DEF Check, AutoCheck
<1>3. CASE \E enabled \in BOOLEAN : SetPolicy(enabled)
  <2> PICK enabled \in BOOLEAN : SetPolicy(enabled)
    BY <1>3
  <2>1. CASE startUpdate("automatic") /\ by_policy' = TRUE
    BY <2>1, StartKeeps DEF SetPolicy, Unnoticed, Sources
  <2>2. CASE UNCHANGED <<file, updater, by_policy>>
    <3>1. TypeOK' /\ Stamped' /\ Reported' /\ NotifiedOnce'
      BY <2>2, UnnoticedType, UnnoticedKeeps DEF SetPolicy, Unnoticed, IInv, TypeOK
    <3>2. Staged' /\ PendingIsInstalled' /\ Newer'
      BY <2>2 DEF SetPolicy, IInv, Staged, PendingIsInstalled, Newer
    <3> QED BY <3>1, <3>2 DEF IInv
  <2> QED BY <2>1, <2>2 DEF SetPolicy
<1>4. CASE Unpair
  <2>1. file' \in Files /\ file'.installed = 0 /\ file'.status = "none"
    BY <1>4, UpdateAssumption DEF Unpair, NoUpdate, Files, Statuses, Sources, NoVersion
  <2>2. Unnoticed
    BY <1>4 DEF Unpair, Unnoticed, history
  <2>3. TypeOK' /\ Stamped' /\ Reported' /\ NotifiedOnce'
    BY <1>4, <2>1, <2>2, UnnoticedType, UnnoticedKeeps
    DEF Unpair, IInv, TypeOK, history
  <2>4. Staged' /\ PendingIsInstalled' /\ Newer'
    BY <1>4, <2>1 DEF Unpair, IInv, Staged, PendingIsInstalled, Newer
  <2> QED BY <2>3, <2>4 DEF IInv
<1>5. CASE \E v \in Versions : Publish(v)
  <2>1. TypeOK' /\ Stamped' /\ Reported' /\ NotifiedOnce'
    BY <1>5, UnnoticedType, UnnoticedKeeps
    DEF Publish, Unnoticed, IInv, TypeOK, history
  <2>2. Staged' /\ PendingIsInstalled' /\ Newer'
    BY <1>5 DEF Publish, IInv, Staged, PendingIsInstalled, Newer
  <2> QED BY <2>1, <2>2 DEF IInv
<1> QED BY <1>2, <1>3, <1>4, <1>5

---------------------------------------------------------------------------
(* The controller sees only what was installed, and remembers it. *)
LEMMA ObservedRecord ==
    ASSUME IInv, Observe
    PROVE  /\ record' \in Records /\ record'.installed <= installs
           /\ record'.installed >= record.installed
           /\ ~record'.initialized => record'.installed = 0
           /\ IsNews => record'.installed = file.installed
BY DEF IInv, TypeOK, Stamped, Observe, Records, Files, IsNews

LEMMA StepObserve == ASSUME IInv, Observe PROVE IInv'
<1>1. UNCHANGED <<release, binary, version, file, updater, auto, by_policy, installs,
                  by_hand, saved, forgotten, faults>>
  BY DEF Observe, unchangedByController, history
<1>2. /\ record' \in Records /\ record'.installed <= installs
      /\ record'.installed >= record.installed
      /\ ~record'.initialized => record'.installed = 0
  BY ObservedRecord
<1>3. file.installed \in 0..installs /\ installs \in Nat /\ record.installed \in Nat
  BY DEF IInv, TypeOK, Stamped, Records
<1>4. baseline' \in Nat
  BY <1>3 DEF Observe, IInv, TypeOK
<1>5. Stamped' /\ Staged' /\ PendingIsInstalled' /\ Newer'
  <2>1. Stamped'
    BY <1>1, <1>2 DEF IInv, Stamped
  <2>2. Staged' /\ PendingIsInstalled' /\ Newer'
    BY <1>1 DEF IInv, Staged, PendingIsInstalled, Newer
  <2> QED BY <2>1, <2>2
<1>6. CASE UNCHANGED notices
  <2>1. TypeOK'
    BY <1>1, <1>2, <1>4, <1>6 DEF IInv, TypeOK
  <2>2. Reported' /\ NotifiedOnce'
    BY <1>1, <1>2, <1>3, <1>6 DEF IInv, TypeOK, Records, Reported, NotifiedOnce
  <2> QED BY <1>5, <2>1, <2>2 DEF IInv
<1>7. CASE /\ IsNews /\ file.installed > 0
           /\ notices' = [stamp \in DOMAIN notices \cup {file.installed} |->
                Notices(stamp) + (IF stamp = file.installed THEN 1 ELSE 0)]
  <2>1. /\ DOMAIN notices' = DOMAIN notices \cup {file.installed}
        /\ \A stamp \in DOMAIN notices' : notices'[stamp] =
                Notices(stamp) + (IF stamp = file.installed THEN 1 ELSE 0)
    BY <1>7
  <2>2. \A stamp \in DOMAIN notices' : Notices(stamp) \in Nat
    BY DEF IInv, TypeOK, Notices
  <2>3. TypeOK'
    BY <1>1, <1>2, <1>3, <1>4, <2>1, <2>2 DEF IInv, TypeOK
  <2>4. file.installed = installs /\ record'.installed = file.installed
        /\ record.installed < installs
    BY <1>7, ObservedRecord DEF IInv, Stamped, IsNews
  <2>5. Reported'
    BY <1>1, <1>3, <2>1, <2>4 DEF IInv, TypeOK, Reported
  <2>6. ASSUME NEW stamp \in DOMAIN notices', stamp \notin forgotten
        PROVE  notices'[stamp] <= 1
    <3>1. CASE stamp = file.installed
      <4>1. stamp \notin DOMAIN notices
        BY <1>3, <2>4, <2>6, <3>1 DEF IInv, Reported
      <4> QED BY <2>1, <3>1, <4>1 DEF Notices
    <3>2. CASE stamp # file.installed
      <4>1. stamp \in DOMAIN notices /\ notices[stamp] <= 1
        BY <2>1, <2>6, <3>2 DEF IInv, NotifiedOnce
      <4>2. notices'[stamp] = notices[stamp]
        BY <2>1, <2>2, <3>2, <4>1 DEF Notices
      <4> QED BY <4>1, <4>2
    <3> QED BY <3>1, <3>2
  <2>7. NotifiedOnce'
    BY <1>1, <2>6 DEF NotifiedOnce
  <2> QED BY <1>5, <2>3, <2>5, <2>7 DEF IInv
<1> QED BY <1>6, <1>7 DEF Observe

LEMMA StepSave == ASSUME IInv, SaveState PROVE IInv'
<1>1. /\ UNCHANGED <<release, binary, version, file, updater, auto, by_policy, installs,
                     by_hand, record, notices, forgotten, baseline, faults>>
      /\ saved' = record
  BY DEF SaveState, unchangedByController, history
<1>2. TypeOK' /\ Stamped'
  BY <1>1 DEF IInv, TypeOK, Stamped
<1>3. Staged' /\ PendingIsInstalled' /\ Newer' /\ Reported' /\ NotifiedOnce'
  BY <1>1 DEF IInv, Staged, PendingIsInstalled, Newer, Reported, NotifiedOnce
<1> QED BY <1>2, <1>3 DEF IInv

(* What a crash takes is noted: a report whose stamp is still the agent's. *)
LEMMA StepControllerCrash == ASSUME IInv, ControllerCrash PROVE IInv'
<1>1. /\ UNCHANGED <<release, binary, version, file, updater, auto, by_policy, installs,
                     by_hand, saved, notices, baseline>>
      /\ record' = saved /\ faults' \in Nat
      /\ forgotten' = IF record = saved THEN forgotten
                                        ELSE forgotten \cup {record.installed}
  BY FaultType DEF ControllerCrash, unchangedByController, history, IInv
<1>2. /\ record \in Records /\ saved \in Records /\ installs \in Nat
      /\ record.installed \in Nat /\ record.installed <= installs
  BY DEF IInv, TypeOK, Stamped, Records
<1>3. TypeOK'
  <2>1. (forgotten \cup DOMAIN notices)' \subseteq 0..installs
    BY <1>1, <1>2 DEF IInv, TypeOK
  <2> QED BY <1>1, <1>2, <2>1 DEF IInv, TypeOK
<1>4. Stamped'
  BY <1>1 DEF IInv, Stamped
<1>5. Staged' /\ PendingIsInstalled' /\ Newer'
  BY <1>1 DEF IInv, Staged, PendingIsInstalled, Newer
<1>6. ASSUME NEW stamp \in DOMAIN notices
      PROVE  stamp <= saved.installed \/ stamp < installs \/ stamp \in forgotten'
  <2>1. stamp \in Nat /\ stamp <= installs
    BY DEF IInv, TypeOK
  <2>2. CASE stamp < installs \/ stamp \in forgotten
    BY <1>1, <2>2
  <2>3. CASE stamp <= record.installed /\ stamp = installs
    BY <1>1, <1>2, <2>1, <2>3
  <2> QED BY <1>2, <2>1, <2>2, <2>3 DEF IInv, Reported
<1>7. Reported' /\ NotifiedOnce'
  BY <1>1, <1>6 DEF IInv, Reported, NotifiedOnce
<1> QED BY <1>3, <1>4, <1>5, <1>7 DEF IInv

---------------------------------------------------------------------------
LEMMA NextInv == IInv /\ [Next]_vars => IInv'
<1> SUFFICES ASSUME IInv, [Next]_vars PROVE IInv'
  OBVIOUS
<1>1. CASE UNCHANGED vars
  <2>1. TypeOK' /\ Stamped' /\ Reported' /\ NotifiedOnce'
    BY <1>1 DEF vars, controller, history, IInv, TypeOK, Stamped, Reported, NotifiedOnce
  <2>2. Staged' /\ PendingIsInstalled' /\ Newer'
    BY <1>1 DEF vars, IInv, Staged, PendingIsInstalled, Newer
  <2> QED BY <2>1, <2>2 DEF IInv
<1>2. CASE Updating
  BY <1>2, StepInstall, StepRecord, StepRecordLost, StepRestart DEF Updating
<1>3. CASE Next /\ ~Updating
  BY <1>3, StepPolicy, StepRestart, StepObserve, StepSave, StepControllerCrash DEF Next
<1> QED BY <1>1, <1>2, <1>3

(* The invariant of an update, its confirmation and its report: what is in *)
(* place, what is said to be, and which installations were reported.       *)
THEOREM UpdateInvariant == Spec => []IInv
BY InitInv, NextInv, PTL DEF Spec

(* Every variable of the self-update keeps its type. *)
THEOREM UpdateTypeCorrect == Spec => []TypeOK
<1>1. IInv => TypeOK
  BY DEF IInv
<1> QED BY <1>1, UpdateInvariant, PTL

(* handleStatus says restart_pending only when the restart will start that *)
(* version, whatever failed or was not saved.                              *)
THEOREM PendingInPlace == Spec => []PendingIsInstalled
<1>1. IInv => PendingIsInstalled
  BY DEF IInv
<1> QED BY <1>1, UpdateInvariant, PTL

(* observe_agent_update reports an installation once, unless the           *)
(* controller died before it saved that it had.                            *)
THEOREM ReportedOnce == Spec => []NotifiedOnce
<1>1. IInv => NotifiedOnce
  BY DEF IInv
<1> QED BY <1>1, UpdateInvariant, PTL

(* Updates refuse downgrades: no release, crash or failure makes an older  *)
(* version run, only an installation by hand.                              *)
THEOREM NeverDowngrades == Spec => VersionNeverFalls
<1>1. ASSUME IInv, Next
      PROVE  version' >= version \/ by_hand' > by_hand
  <2>1. version \in Nat /\ by_hand \in Nat /\ binary >= version
    BY <1>1 DEF IInv, TypeOK, Versions, Newer
  <2>2. CASE \E v \in Versions : Reinstall(v)
    BY <2>1, <2>2 DEF Reinstall
  <2>3. CASE Restart \/ Crash
    BY <2>1, <2>3 DEF Restart, Crash, Serve
  <2>4. CASE UNCHANGED version
    BY <2>1, <2>4
  <2> QED
    BY <1>1, <2>2, <2>3, <2>4
    DEF Next, Updating, Check, AutoCheck, Requested, Unpair, SetPolicy, FetchManifest,
        CheckManifest, FetchBinary, Replace, InstallFails, Record, RecordLost,
        RestartFails, Step, unchangedByInstall, Publish, Observe, SaveState,
        ControllerCrash, unchangedByController
<1>2. IInv /\ [Next]_vars => [version' >= version \/ by_hand' > by_hand]_vars
  BY <1>1
<1> QED BY <1>2, UpdateInvariant, PTL DEF Spec, VersionNeverFalls
===========================================================================
