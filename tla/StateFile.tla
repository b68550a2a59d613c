----------------------------- MODULE StateFile -----------------------------
(***************************************************************************)
(* The state file of the controller between its two writers: the main loop *)
(* (save_state of wolnut/state.py) and the web server of the same process  *)
(* (_record_agent_result of wolnut/web.py), which share no lock but the    *)
(* name of the temporary file.                                             *)
(*                                                                         *)
(* A file descriptor stays on its file when the name moves on: handle[w]   *)
(* says which name, if any, the file that w has open bears now.            *)
(***************************************************************************)
EXTENDS Naturals

CONSTANTS Clients,
          MaxRevision,  \* bound on the changes of the tracker
          MaxFaults,    \* bound on crashes and failed operations on files
          MaxEdits      \* bound on edits of the configuration

ASSUME StateFileAssumption ==
    MaxRevision \in Nat /\ MaxFaults \in Nat /\ MaxEdits \in Nat

Writers == {"main", "web"}
Other(w) == IF w = "main" THEN "web" ELSE "main"

(* What the web server has to say of agents. *)
Results == {"online", "unreachable"}

(* Contents: the revision of what the main loop tracks; of each client no  *)
(* record, one with all fields of a tracker, or one with the shutdown part *)
(* only; the last result of the web server.                                *)
Contents == [revision : 0..MaxRevision,
             record : [Clients -> {"none", "partial", "full"}],
             result : Results \cup {"none"}]
Default == [revision |-> 0, record |-> [c \in Clients |-> "none"], result |-> "none"]

(* A file that does not parse is empty or was written by two. *)
Whole(contents) == [status |-> "whole", contents |-> contents]
Missing == [status |-> "missing", contents |-> Default]
Empty == [status |-> "empty", contents |-> Default]
Torn == [status |-> "torn", contents |-> Default]
Files == {Missing, Empty, Torn} \cup {Whole(contents) : contents \in Contents}

VARIABLES names,      \* the clients of the configuration
          agent,      \* what the web server finds out about agents
          file,       \* the contents of the names "state" and "tmp"
          pc,         \* what each writer does
          handle,     \* where the file is that it has open
          data,       \* what it is going to write
          polled,     \* the client whose agent the web server asked last
          memory,     \* the tracker of the main loop
          dirty,
          faults, edits

(* History: the writers have had the temporary file at the same time since *)
(* they were both at rest; the state file has changed since the web server *)
(* read what it is about to write.                                         *)
VARIABLES contended, outdated

history == <<contended, outdated>>
vars == <<names, agent, file, pc, handle, data, polled, memory, dirty, faults, edits,
          history>>

Readable(f) == f.status = "whole"
Writing(w) == pc[w] \in {"write", "rename"}

Load(f) == f.contents

(* ClientStateTracker.__init__, sync_clients: a client without a record    *)
(* gets one, those that are gone lose theirs.                              *)
Complete(contents) ==
    [contents EXCEPT !.record = [c \in Clients |->
        IF contents.record[c] = "none" /\ c \in names THEN "full" ELSE @[c]]]

sync_clients(contents) ==
    [Complete(contents) EXCEPT !.record = [c \in Clients |->
        IF c \in names THEN @[c] ELSE "none"]]

Init ==
    /\ names \in SUBSET Clients
    /\ agent \in Results
    /\ file = [state |-> Missing, tmp |-> Missing]
    /\ pc = [main |-> "down", web |-> "down"]
    /\ handle = [w \in Writers |-> "none"]
    /\ data = [w \in Writers |-> Default]
    /\ memory = Default
    /\ dirty = FALSE
    /\ faults = 0 /\ edits = 0
    /\ polled = {}
    /\ contended = FALSE /\ outdated = FALSE

---------------------------------------------------------------------------
(* Both writers *)

at(w, phase) == [pc EXCEPT ![w] = phase]

(* Faulty: the file is written in place. *)
Target_in_place == "state"

Target == "tmp"

(* open(..., "w"): the temporary file is made, or emptied for whoever has  *)
(* it open.                                                                *)
Open(w, contents) ==
    /\ pc' = at(w, "write")
    /\ handle' = [handle EXCEPT ![w] = Target]
    /\ file' = [file EXCEPT ![Target] = Empty]
    /\ data' = [data EXCEPT ![w] = contents]
    /\ contended' = (contended \/ Writing(Other(w)))
    /\ outdated' = (outdated \/ file'.state # file.state)

(* Written from the start of the file, whatever the other wrote there.     *)
Write(w) ==
    /\ pc[w] = "write"
    /\ pc' = at(w, "rename")
    /\ file' \in IF handle[w] = "gone" THEN {file}
                 ELSE {[file EXCEPT ![handle[w]] = f] :
                        f \in {Whole(data[w])} \cup
                            IF file[handle[w]] = Empty THEN {} ELSE {Torn}}
    /\ handle' = [handle EXCEPT ![w] = "none"]
    /\ outdated' = (outdated \/ file'.state # file.state)
    /\ UNCHANGED <<names, agent, data, polled, memory, dirty, faults, edits, contended>>

(* A file that the other has open goes with its name. *)
Moved(h) == CASE h = "tmp" -> "state" [] h = "state" -> "gone" [] OTHER -> h

(* replace() *)
Rename(w) ==
    /\ pc[w] = "rename" /\ file.tmp # Missing
    /\ pc' = at(w, "idle")
    /\ file' = [state |-> file.tmp, tmp |-> Missing]
    /\ handle' = [v \in Writers |-> Moved(handle[v])]
    /\ contended' = (contended /\ Writing(Other(w)))
    /\ outdated' = (outdated \/ file'.state # file.state)
    /\ UNCHANGED <<names, agent, data, polled, memory, faults, edits>>

(* An OSError: what is open is closed and the files stay as they are.      *)
(* replace() also fails when the other writer has moved the file.          *)
Fails(w) ==
    /\ \/ pc[w] \in {"open", "write", "rename"}
          /\ faults < MaxFaults /\ faults' = faults + 1
       \/ pc[w] = "rename" /\ file.tmp = Missing /\ UNCHANGED faults
    /\ handle' = [handle EXCEPT ![w] = "none"]
    /\ contended' = (contended /\ Writing(Other(w)))
    /\ UNCHANGED <<names, agent, file, data, polled, memory, edits, outdated>>

---------------------------------------------------------------------------
(* The main loop *)

(* The web server is started first, then the tracker loads the file.       *)
Start ==
    /\ pc.main = "down"
    /\ pc' = [main |-> "idle", web |-> "idle"]
    /\ memory' = Complete(Load(file.state))
    /\ dirty' = FALSE
    /\ UNCHANGED <<names, agent, file, handle, data, polled, faults, edits, history>>

(* update() reads is_online of every client that has a record. *)
Broken == \E c \in names : memory.record[c] = "partial"

(* Something the tracker remembers changes. *)
Change ==
    /\ pc.main = "idle" /\ ~Broken
    /\ memory.revision < MaxRevision
    /\ memory' = [memory EXCEPT !.revision = @ + 1]
    /\ dirty' = TRUE
    /\ UNCHANGED <<names, agent, file, pc, handle, data, polled, faults, edits, history>>

(* Hot reload. *)
Reload ==
    /\ pc.main = "idle" /\ ~Broken
    /\ memory' = sync_clients(memory)
    /\ memory' # memory
    /\ dirty' = TRUE
    /\ UNCHANGED <<names, agent, file, pc, handle, data, polled, faults, edits, history>>

(* save_state: skipped without changes. *)
SaveState ==
    /\ pc.main = "idle" /\ ~Broken /\ dirty
    /\ Open("main", memory)
    /\ UNCHANGED <<names, agent, polled, memory, dirty, faults, edits>>

Saved == Rename("main") /\ dirty' = FALSE

(* The exception is logged.  After a failed replace() the state counts as  *)
(* saved all the same.                                                     *)
SaveFails ==
    /\ Fails("main")
    /\ pc' = at("main", "idle")
    /\ dirty' = (pc.main # "rename")

---------------------------------------------------------------------------
(* The web server: the poller of the agents, under state_lock              *)

(* Faulty: it begins with nothing. *)
Base_empty == Default

(* Faulty: a file that is missing or unreadable gives no meta part. *)
Base_bare ==
    IF Readable(file.state) THEN Load(file.state)
    ELSE [record |-> Default.record, result |-> Default.result]

Base == Load(file.state)

(* Faulty: it gives up on a file it cannot read. *)
MayRecord_readable == file.state \notin {Empty, Torn}

MayRecord == TRUE

(* _record_agent_result: the file is read and one client changed ...       *)
Read(c, result) ==
    /\ MayRecord
    /\ data' = [data EXCEPT !.web = [Base EXCEPT
            !.record[c] = IF @ = "none" THEN "partial" ELSE @,
            !.result = result]]
    /\ pc' = at("web", "open")
    /\ outdated' = FALSE
    /\ UNCHANGED <<names, agent, file, handle, memory, dirty, faults, edits, contended>>

Poll ==
    /\ pc.web = "idle"
    /\ \E c \in names : Read(c, agent) /\ polled' = {c}

(* ... and written. *)
OpenTemporary ==
    /\ pc.web = "open"
    /\ Open("web", data.web)
    /\ UNCHANGED <<names, agent, polled, memory, dirty, faults, edits>>

Recorded == Rename("web") /\ UNCHANGED dirty

(* The poller takes the exception for one of the agent, which it now       *)
(* records as unreachable; if that fails too it goes on.                   *)
RecordFails ==
    /\ Fails("web")
    /\ pc' = at("web", IF data.web.result = "online" THEN "failed" ELSE "idle")
    /\ UNCHANGED dirty

RecordUnreachable ==
    /\ pc.web = "failed"
    /\ \E c \in polled : Read(c, "unreachable")
    /\ UNCHANGED polled

---------------------------------------------------------------------------
(* The process dies with both; what was being written stays as it is.      *)
Dies ==
    /\ pc' = [main |-> "down", web |-> "down"]
    /\ handle' = [w \in Writers |-> "none"]
    /\ contended' = FALSE
    /\ UNCHANGED <<names, agent, file, data, polled, memory, dirty, edits, outdated>>

Crash == pc.main # "down" /\ faults < MaxFaults /\ faults' = faults + 1 /\ Dies

(* KeyError in update(): the exception ends main() and the process. *)
Stumble == pc.main = "idle" /\ Broken /\ Dies /\ UNCHANGED faults

EditConfig ==
    /\ edits < MaxEdits /\ edits' = edits + 1
    /\ names' \in SUBSET Clients \ {names}
    /\ UNCHANGED <<agent, file, pc, handle, data, polled, memory, dirty, faults, history>>

AgentChanges ==
    /\ agent' \in Results \ {agent}
    /\ UNCHANGED <<names, file, pc, handle, data, polled, memory, dirty, faults, edits,
                   history>>

Main == Start \/ Change \/ Reload \/ SaveState \/ Write("main") \/ Saved \/ SaveFails
Web == Poll \/ OpenTemporary \/ Write("web") \/ Recorded \/ RecordFails \/ RecordUnreachable
Environment == AgentChanges \/ EditConfig

Next == Main \/ Web \/ Environment \/ Crash \/ Stumble

Spec == Init /\ [][Next]_vars

---------------------------------------------------------------------------
TypeOK ==
    /\ names \subseteq Clients
    /\ agent \in Results
    /\ file \in [state : Files, tmp : Files]
    /\ pc \in [main : {"down", "idle", "write", "rename"},
               web : {"down", "idle", "open", "write", "rename", "failed"}]
    /\ handle \in [Writers -> {"none", "tmp", "state", "gone"}]
    /\ data \in [Writers -> Contents]
    /\ polled \subseteq Clients
    /\ memory \in Contents
    /\ {dirty, contended, outdated} \subseteq BOOLEAN
    /\ {faults, edits} \subseteq Nat

(* Writing through a temporary file: whenever the process dies, the state  *)
(* file is one that was written whole.  It becomes unreadable only when    *)
(* the two writers had the temporary file at the same time.                *)
ReplacedWhole == [][Readable(file.state) /\ ~Readable(file'.state) => contended]_vars

(* Of the tracker an older revision, or only a part of a complete record.  *)
Behind(new, old) ==
    \/ new.revision < old.revision
    \/ \E c \in Clients : old.record[c] = "full" /\ new.record[c] = "partial"

(* What a save brought into the state file stays there or is replaced by   *)
(* something newer, through crashes, restarts, failed writes and renames   *)
(* and any number of updates by the web server.  Only an update of a copy  *)
(* that was read before the save undoes it, or two writers that had the    *)
(* temporary file at the same time.                                        *)
NeverFallsBehind ==
    [][Behind(Load(file'.state), Load(file.state)) =>
           contended \/ (Rename("web") /\ outdated)]_vars

(* The result of the web server is shown again and again, whatever the     *)
(* main loop writes over it and whatever state the file was left in, as    *)
(* long as there are clients and the process does not keep dying.          *)
ResultsComeBack ==
    \A r \in Results :
        <>[](agent = r /\ names # {}) =>
            []<>(Load(file.state).result = r) \/ []<>(pc.main = "down")

---------------------------------------------------------------------------
(* The inductive invariant behind what ControllerFilesProofs shows *)

(* Writers start and stop together; one that writes has a file open.       *)
PhaseInv ==
    /\ pc.main = "down" <=> pc.web = "down"
    /\ \A w \in Writers : pc[w] = "write" <=> handle[w] # "none"

(* A writer that never met the other has the temporary file for itself: it *)
(* is empty until it is written, and then holds what it wrote.             *)
TemporaryInv ==
    /\ Writing("main") /\ Writing("web") => contended
    /\ contended => Writing("main") \/ Writing("web")
    /\ \A w \in Writers :
        /\ ~contended /\ pc[w] = "write" => handle[w] = "tmp" /\ file.tmp = Empty
        /\ ~contended /\ pc[w] = "rename" => file.tmp = Whole(data[w])

Updating == pc.web \in {"open", "write", "rename"}

(* A save writes what memory holds, and memory is never behind what is in  *)
(* the files or on the way there.                                          *)
MemoryInv ==
    pc.main # "down" =>
        /\ Writing("main") => data.main = memory
        /\ ~Behind(memory, Load(file.state))
        /\ Updating => ~Behind(memory, data.web)
        /\ Writing("main") \/ Writing("web") => ~Behind(memory, Load(file.tmp))

(* Nor is an update behind the file it was read from.                      *)
UpdateInv == Updating /\ ~outdated => ~Behind(data.web, Load(file.state))

IInv == TypeOK /\ PhaseInv /\ TemporaryInv /\ MemoryInv /\ UpdateInv
===========================================================================
