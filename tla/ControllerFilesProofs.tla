----------------------- MODULE ControllerFilesProofs -----------------------
(***************************************************************************)
(* Theorems about the state file and the identity of the controller, for   *)
(* every set of clients and every bound.                                   *)
(***************************************************************************)
EXTENDS ControllerFiles, TLAPS

---------------------------------------------------------------------------
(* Each part is a behaviour of its own specification *)

(* While one part is under way the other one rests.                        *)
LEMMA PartSteps ==
    ASSUME [StateStep \/ IdentityStep]_<<part, vars, storeVars>>
    PROVE  [Next]_vars /\ [Store!Next]_(Store!vars)
BY DEF StateStep, IdentityStep, storeVars, Store!vars

LEMMA PartSpecs == FilesSpec => Spec /\ Store!Spec
<1>1. InitFiles => Init /\ Store!Init
  BY DEF InitFiles
<1> QED BY <1>1, PartSteps, PTL DEF FilesSpec, Spec, Store!Spec

---------------------------------------------------------------------------
(* The identity *)

(* Writing the next file leaves the part that is made one longer, and what *)
(* is made then belongs to one identity.                                   *)
LEMMA WritesNext ==
    ASSUME Store!TypeOK, Store!MakingInv, NEW s \in Writers,
           Store!WritePrivate(s)
    PROVE  Store!MakingInv' /\ Store!IdentityIsOne'
<1> USE DEF Store!Last
<1>1. /\ next[s] \in 1..4 /\ next \in [Writers -> 0..4]
      /\ made \in [1..4 -> Nat] /\ key' = key
      /\ made' = [made EXCEPT ![next[s]] = key[s]]
      /\ next' = [next EXCEPT ![s] = IF next[s] = 4 THEN 0 ELSE next[s] + 1]
  BY DEF Store!WritePrivate, Store!Following, Store!TypeOK
<1>2. \A t \in Writers \ {s} : next[t] = 0 /\ next'[t] = 0
  BY <1>1 DEF Store!MakingInv
<1>3. /\ \A i \in 1..4 : i <= next[s] => made'[i] = key[s]
      /\ \A i \in 1..4 : i > next[s] => made'[i] = 0
  BY <1>1 DEF Store!MakingInv, Store!PartlyMade, Store!Exists
<1>4. Store!MakingInv'
  BY <1>1, <1>2, <1>3 DEF Store!MakingInv, Store!PartlyMade, Store!Exists
<1>5. Store!IdentityIsOne'
  BY <1>1, <1>3 DEF Store!IdentityIsOne, Store!Exists
<1> QED BY <1>4, <1>5

LEMMA NextIdentity == Store!IInv /\ [Store!Next]_(Store!vars) => Store!IInv'
<1> SUFFICES ASSUME Store!IInv, [Store!Next]_(Store!vars) PROVE Store!IInv'
  OBVIOUS
<1> USE DEF Store!Last
<1>1. ASSUME NEW s \in Writers, Store!Create(s) PROVE Store!IInv'
  <2>1. Store!TypeOK'
    BY <1>1 DEF Store!Create, Store!IInv, Store!TypeOK
  <2>2. ASSUME ~raced' PROVE Store!MakingInv'
    <3>1. \A t \in Writers \ {s} : next[t] = 0
      BY <1>1, <2>2 DEF Store!Create
    <3>2. /\ next'[s] = 1 /\ \A t \in Writers \ {s} : next'[t] = 0
          /\ \A i \in 1..4 : made'[i] = 0
      BY <1>1, <3>1 DEF Store!Create, Store!MayCreate, Store!Exists,
                        Store!IInv, Store!TypeOK
    <3> QED BY <3>2 DEF Store!MakingInv, Store!PartlyMade, Store!Exists
  <2>3. Store!IdentityIsOne'
    BY <1>1 DEF Store!Create, Store!MayCreate, Store!IdentityIsOne, Store!Exists
  <2> QED BY <2>1, <2>2, <2>3 DEF Store!IInv
<1>2. ASSUME NEW s \in Writers, Store!WritePrivate(s) PROVE Store!IInv'
  <2>1. Store!TypeOK' /\ raced' = raced
    BY <1>2 DEF Store!WritePrivate, Store!Following, Store!IInv, Store!TypeOK
  <2> QED BY <1>2, <2>1, WritesNext DEF Store!IInv, Store!IdentityIsOne
<1>3. ASSUME NEW S \in SUBSET Writers, Store!Stops(S) PROVE Store!IInv'
  <2>1. Store!TypeOK' /\ UNCHANGED <<made, key, raced>>
    BY <1>3 DEF Store!Stops, Store!IInv, Store!TypeOK
  <2>2. \A s \in Writers : next'[s] # 0 => next'[s] = next[s]
    BY <1>3 DEF Store!Stops
  <2>3. Store!MakingInv => Store!MakingInv'
    BY <2>1, <2>2 DEF Store!MakingInv, Store!PartlyMade, Store!Exists
  <2>4. Store!IdentityIsOne'
    BY <2>1 DEF Store!IInv, Store!IdentityIsOne, Store!Exists
  <2> QED BY <2>1, <2>3, <2>4 DEF Store!IInv
<1>4. CASE Store!RemoveAll
  <2>1. Store!TypeOK'
    BY <1>4 DEF Store!RemoveAll, Store!IInv, Store!TypeOK
  <2>2. ~raced' => Store!MakingInv'
    BY <1>4 DEF Store!RemoveAll, Store!MakingInv
  <2>3. Store!IdentityIsOne'
    BY <1>4 DEF Store!RemoveAll, Store!IdentityIsOne, Store!Exists
  <2> QED BY <2>1, <2>2, <2>3 DEF Store!IInv
<1>5. CASE UNCHANGED Store!vars
  BY <1>5 DEF Store!vars, Store!IInv, Store!TypeOK, Store!MakingInv,
              Store!PartlyMade, Store!IdentityIsOne, Store!Exists
<1> QED BY <1>1, <1>2, <1>3, <1>4, <1>5 DEF Store!Next, Store!Work

(* The files of an identity that are there belong to one identity, unless  *)
(* two stores made one at the same time: a store that crashed or failed    *)
(* half way leaves a part that nobody continues or replaces.               *)
THEOREM OneIdentity == FilesSpec => []IdentityIsOne
<1>1. Store!Init => Store!IInv
  <2> SUFFICES ASSUME Store!Init PROVE Store!IInv
    OBVIOUS
  <2>0. /\ next = [s \in Writers |-> 0] /\ key = [s \in Writers |-> 0]
        /\ made = [i \in 1..4 |-> 0] /\ identities = 0 /\ raced = FALSE
    BY DEF Store!Init, Store!Last
  <2>1. Store!TypeOK /\ \A s \in Writers : next[s] = 0
    <3>1. next \in [Writers -> 0..4]
      BY <2>0
    <3>2. key \in [Writers -> Nat] /\ made \in [1..4 -> Nat]
      BY <2>0
    <3> QED BY <2>0, <3>1, <3>2 DEF Store!TypeOK, Store!Last
  <2>2. Store!IdentityIsOne
    BY DEF Store!Init, Store!IdentityIsOne, Store!Exists
  <2> QED BY <2>1, <2>2 DEF Store!IInv, Store!MakingInv
<1>2. Store!IInv => IdentityIsOne
  BY DEF Store!IInv, IdentityIsOne
<1> QED BY <1>1, <1>2, NextIdentity, PartSpecs, PTL DEF Store!Spec

---------------------------------------------------------------------------
(* The state file: type correctness *)

(* What a file can hold, and what is read from it.                         *)
LEMMA FileTypes ==
    /\ Default \in Contents
    /\ Missing \in Files /\ Empty \in Files /\ Torn \in Files
    /\ \A contents \in Contents : Whole(contents) \in Files
    /\ \A f \in Files : Load(f) \in Contents
<1>1. Default \in Contents
  BY StateFileAssumption DEF Default, Contents
<1>2. /\ Missing \in Files /\ Empty \in Files /\ Torn \in Files
      /\ \A contents \in Contents : Whole(contents) \in Files
  BY DEF Files
<1>3. ASSUME NEW f \in Files PROVE Load(f) \in Contents
  <2>1. CASE f \in {Missing, Empty, Torn}
    BY <1>1, <2>1 DEF Missing, Empty, Torn, Load
  <2>2. CASE \E contents \in Contents : f = Whole(contents)
    BY <2>2 DEF Whole, Load
  <2> QED BY <2>1, <2>2 DEF Files
<1> QED BY <1>1, <1>2, <1>3

(* The tracker's operations on contents.                                   *)
LEMMA ContentsTypes ==
    ASSUME NEW contents \in Contents
    PROVE  /\ Complete(contents) \in Contents
           /\ sync_clients(contents) \in Contents
<1>1. Complete(contents) \in Contents
  BY DEF Complete, Contents
<1> QED BY <1>1 DEF sync_clients, Contents

(* The steps that both writers take.                                       *)
LEMMA OpenType ==
    ASSUME TypeOK, NEW w \in Writers, NEW contents \in Contents,
           Open(w, contents)
    PROVE  /\ pc' = at(w, "write")
           /\ handle' \in [Writers -> {"none", "tmp", "state", "gone"}]
           /\ file' \in [state : Files, tmp : Files]
           /\ data' \in [Writers -> Contents]
           /\ contended' \in BOOLEAN /\ outdated' \in BOOLEAN
<1>1. outdated' \in BOOLEAN
  BY DEF Open, TypeOK
<1> QED BY <1>1, FileTypes DEF Open, Target, TypeOK, Writers

LEMMA RenameType ==
    ASSUME TypeOK, NEW w \in Writers, Rename(w)
    PROVE  /\ handle' \in [Writers -> {"none", "tmp", "state", "gone"}]
           /\ file' \in [state : Files, tmp : Files]
           /\ contended' \in BOOLEAN /\ outdated' \in BOOLEAN
           /\ pc' = at(w, "idle")
           /\ UNCHANGED <<names, agent, data, polled, memory, faults, edits>>
BY FileTypes DEF Rename, Moved, TypeOK, Writers

LEMMA FailsType ==
    ASSUME TypeOK, NEW w \in Writers, Fails(w)
    PROVE  /\ handle' \in [Writers -> {"none", "tmp", "state", "gone"}]
           /\ contended' \in BOOLEAN /\ faults' \in Nat
           /\ UNCHANGED <<names, agent, file, data, polled, memory, edits, outdated>>
BY DEF Fails, TypeOK, Writers

LEMMA PhaseTypes ==
    ASSUME TypeOK, NEW w \in Writers, NEW phase,
           pc' = at(w, phase),
           \/ phase \in {"idle", "write", "rename"}
           \/ w = "web" /\ phase \in {"open", "failed"}
    PROVE  pc' \in [main : {"down", "idle", "write", "rename"},
                    web : {"down", "idle", "open", "write", "rename", "failed"}]
BY DEF TypeOK, at, Writers

LEMMA WriteType ==
    ASSUME TypeOK, NEW w \in Writers, Write(w)
    PROVE  TypeOK'
<1>1. file' \in [state : Files, tmp : Files]
  <2>1. CASE handle[w] \notin {"tmp", "state"}
    BY <2>1 DEF Write, TypeOK
  <2>2. CASE handle[w] = "tmp"
    BY <2>2, FileTypes DEF Write, TypeOK
  <2>3. CASE handle[w] = "state"
    BY <2>3, FileTypes DEF Write, TypeOK
  <2> QED BY <2>1, <2>2, <2>3
<1>2. pc' \in [main : {"down", "idle", "write", "rename"},
               web : {"down", "idle", "open", "write", "rename", "failed"}]
  BY PhaseTypes DEF Write
<1>3. /\ handle' \in [Writers -> {"none", "tmp", "state", "gone"}]
      /\ outdated' \in BOOLEAN
  BY DEF Write, TypeOK
<1> QED BY <1>1, <1>2, <1>3 DEF Write, TypeOK

LEMMA InitTypes == Init => TypeOK
<1> SUFFICES ASSUME Init PROVE TypeOK
  OBVIOUS
<1>1. /\ file \in [state : Files, tmp : Files]
      /\ data \in [Writers -> Contents] /\ memory \in Contents
  BY FileTypes DEF Init
<1>2. handle \in [Writers -> {"none", "tmp", "state", "gone"}]
  BY DEF Init
<1>3. pc \in [main : {"down", "idle", "write", "rename"},
              web : {"down", "idle", "open", "write", "rename", "failed"}]
  BY DEF Init
<1>4. names \subseteq Clients /\ agent \in Results /\ polled \subseteq Clients
  BY DEF Init
<1>5. {dirty, contended, outdated} \subseteq BOOLEAN
  <2>1. dirty = FALSE /\ contended = FALSE /\ outdated = FALSE
    BY DEF Init
  <2> QED BY <2>1, Zenon
<1>6. {faults, edits} \subseteq Nat
  BY DEF Init
<1> QED BY <1>1, <1>2, <1>3, <1>4, <1>5, <1>6 DEF TypeOK

(* An update that is read holds contents of the right form.                *)
LEMMA ReadType ==
    ASSUME TypeOK, NEW c \in Clients, NEW result \in Results, Read(c, result)
    PROVE  data' \in [Writers -> Contents]
<1>1. Base \in Contents
  BY FileTypes DEF Base, TypeOK
<1>2. [Base EXCEPT !.record[c] = IF @ = "none" THEN "partial" ELSE @,
                   !.result = result] \in Contents
  BY <1>1 DEF Contents
<1> QED BY <1>2 DEF Read, Writers, TypeOK

LEMMA NextTypes == TypeOK /\ [Next]_vars => TypeOK'
<1> SUFFICES ASSUME TypeOK, [Next]_vars PROVE TypeOK'
  OBVIOUS
<1>0. "main" \in Writers /\ "web" \in Writers
  BY DEF Writers
<1>1. CASE Start
  <2>1. memory' \in Contents
    BY <1>1, FileTypes, ContentsTypes DEF Start, TypeOK
  <2> QED BY <1>1, <2>1 DEF Start, history, TypeOK
<1>2. CASE Change
  <2>1. memory.revision + 1 \in 0..MaxRevision
    BY <1>2, StateFileAssumption DEF Change, Contents, TypeOK
  <2>2. memory' \in Contents
    BY <1>2, <2>1 DEF Change, Contents, TypeOK
  <2> QED BY <1>2, <2>2 DEF Change, history, TypeOK
<1>3. CASE Reload
  BY <1>3, ContentsTypes DEF Reload, history, TypeOK
<1>4. CASE SaveState
  <2>1. /\ Open("main", memory) /\ memory \in Contents
        /\ UNCHANGED <<names, agent, polled, memory, dirty, faults, edits>>
    BY <1>4 DEF SaveState, TypeOK
  <2> QED BY <1>0, <2>1, OpenType, PhaseTypes DEF TypeOK
<1>5. CASE Saved
  <2>1. Rename("main") /\ dirty' = FALSE
    BY <1>5 DEF Saved
  <2> QED BY <1>0, <2>1, RenameType, PhaseTypes DEF TypeOK
<1>6. CASE SaveFails
  <2>1. Fails("main") /\ pc' = at("main", "idle") /\ dirty' \in BOOLEAN
    BY <1>6 DEF SaveFails
  <2> QED BY <1>0, <2>1, FailsType, PhaseTypes DEF TypeOK
<1>7. CASE Poll
  <2>1. PICK c \in names : Read(c, agent) /\ polled' = {c}
    BY <1>7 DEF Poll
  <2>2. data' \in [Writers -> Contents]
    BY <2>1, ReadType DEF TypeOK
  <2>3. pc' = at("web", "open")
    BY <2>1 DEF Read
  <2> QED BY <1>0, <2>1, <2>2, <2>3, PhaseTypes DEF Read, TypeOK
<1>8. CASE RecordUnreachable
  <2>1. PICK c \in polled : Read(c, "unreachable")
    BY <1>8 DEF RecordUnreachable
  <2>2. data' \in [Writers -> Contents]
    BY <2>1, ReadType DEF TypeOK, Results
  <2>3. pc' = at("web", "open") /\ UNCHANGED polled
    BY <1>8, <2>1 DEF RecordUnreachable, Read
  <2> QED BY <1>0, <2>1, <2>2, <2>3, PhaseTypes DEF Read, TypeOK
<1>9. CASE OpenTemporary
  <2>1. /\ Open("web", data.web) /\ data.web \in Contents
        /\ UNCHANGED <<names, agent, polled, memory, dirty, faults, edits>>
    BY <1>0, <1>9 DEF OpenTemporary, TypeOK
  <2> QED BY <1>0, <2>1, OpenType, PhaseTypes DEF TypeOK
<1>10. CASE Recorded
  <2>1. Rename("web") /\ UNCHANGED dirty
    BY <1>10 DEF Recorded
  <2> QED BY <1>0, <2>1, RenameType, PhaseTypes DEF TypeOK
<1>11. CASE RecordFails
  <2>1. PICK phase \in {"failed", "idle"} : pc' = at("web", phase)
    BY <1>11 DEF RecordFails
  <2>2. Fails("web") /\ UNCHANGED dirty
    BY <1>11 DEF RecordFails
  <2> QED BY <1>0, <2>1, <2>2, FailsType, PhaseTypes DEF TypeOK
<1>12. CASE Crash \/ Stumble
  <2>1. Dies /\ faults' \in Nat
    BY <1>12 DEF Crash, Stumble, TypeOK
  <2> QED BY <2>1 DEF Dies, TypeOK
<1>13. CASE EditConfig \/ AgentChanges
  BY <1>13 DEF EditConfig, AgentChanges, history, TypeOK
<1>14. CASE UNCHANGED vars
  BY <1>14 DEF vars, history, TypeOK
<1>15. \A w \in Writers : Write(w) => TypeOK'
  BY WriteType
<1> QED
  BY <1>0, <1>1, <1>2, <1>3, <1>4, <1>5, <1>6, <1>7, <1>8, <1>9, <1>10, <1>11,
     <1>12, <1>13, <1>14, <1>15
  DEF Next, Main, Web, Environment

(* What is in the files, in memory and in the hands of the writers is      *)
(* always contents of the right form.                                      *)
THEOREM FilesTyped == FilesSpec => []TypeOK
BY InitTypes, NextTypes, PartSpecs, PTL DEF Spec

---------------------------------------------------------------------------
(* The state file: the inductive invariant *)

(* The temporary file is never written in place of the state file.         *)
LEMMA OpensTemporary ==
    ASSUME TypeOK, NEW w \in Writers, NEW contents, Open(w, contents)
    PROVE  /\ pc' = at(w, "write")
           /\ handle' = [handle EXCEPT ![w] = "tmp"]
           /\ file'.tmp = Empty /\ file'.state = file.state
           /\ data' = [data EXCEPT ![w] = contents]
           /\ contended' = (contended \/ Writing(Other(w)))
           /\ outdated' = outdated
<1>1. file'.tmp = Empty /\ file'.state = file.state
  BY DEF Open, Target, TypeOK
<1> QED BY <1>1 DEF Open, Target, TypeOK

LEMMA NextPhase == TypeOK /\ PhaseInv /\ [Next]_vars => PhaseInv'
<1> SUFFICES ASSUME TypeOK, PhaseInv, [Next]_vars PROVE PhaseInv'
  OBVIOUS
<1> USE DEF PhaseInv, TypeOK, Writers, at
<1>1. CASE Start
  BY <1>1 DEF Start
<1>2. CASE Change \/ Reload \/ EditConfig \/ AgentChanges \/ UNCHANGED vars
  BY <1>2 DEF Change, Reload, EditConfig, AgentChanges, vars
<1>3. CASE SaveState
  BY <1>3, OpensTemporary DEF SaveState
<1>4. CASE OpenTemporary
  BY <1>4, OpensTemporary DEF OpenTemporary
<1>5. ASSUME NEW w \in Writers, Rename(w) PROVE PhaseInv'
  BY <1>5 DEF Rename, Moved
<1>6. CASE SaveFails
  BY <1>6 DEF SaveFails, Fails
<1>7. CASE RecordFails
  <2>1. PICK phase \in {"failed", "idle"} : pc' = at("web", phase)
    BY <1>7 DEF RecordFails
  <2> QED BY <1>7, <2>1 DEF RecordFails, Fails
<1>8. CASE Poll \/ RecordUnreachable
  <2>1. /\ pc' = at("web", "open") /\ pc.web \in {"idle", "failed"}
        /\ handle' = handle
    BY <1>8 DEF Poll, RecordUnreachable, Read
  <2> QED BY <2>1
<1>9. ASSUME NEW w \in Writers, Write(w) PROVE PhaseInv'
  BY <1>9 DEF Write
<1>10. CASE Crash \/ Stumble
  BY <1>10 DEF Crash, Stumble, Dies
<1> QED
  BY <1>1, <1>2, <1>3, <1>4, <1>5, <1>6, <1>7, <1>8, <1>9, <1>10
  DEF Next, Main, Web, Environment, Saved, Recorded

LEMMA OpenTemporaryInv ==
    ASSUME TypeOK, TemporaryInv, NEW w \in Writers, NEW contents,
           Open(w, contents), ~Writing(w)
    PROVE  TemporaryInv'
<1> USE DEF TypeOK, Writers, at, Other, Writing, TemporaryInv
<1>1. CASE w = "main"
  BY <1>1, OpensTemporary
<1>2. CASE w = "web"
  BY <1>2, OpensTemporary
<1> QED BY <1>1, <1>2

(* A writer that met nobody moves what it wrote; when it stops, the other  *)
(* one has the temporary file for itself only if it had it so before.      *)
LEMMA RenameTemporaryInv ==
    ASSUME TypeOK, TemporaryInv, NEW w \in Writers, Rename(w)
    PROVE  TemporaryInv'
<1> USE DEF TypeOK, Writers, at, Other, Writing, TemporaryInv
<1>1. CASE w = "main"
  BY <1>1 DEF Rename
<1>2. CASE w = "web"
  BY <1>2 DEF Rename
<1> QED BY <1>1, <1>2

LEMMA FailsTemporaryInv ==
    ASSUME TypeOK, TemporaryInv, NEW w \in Writers, Fails(w),
           NEW phase \in {"idle", "failed"}, pc' = at(w, phase)
    PROVE  TemporaryInv'
<1> USE DEF TypeOK, Writers, at, Other, Writing, TemporaryInv
<1>1. CASE w = "main"
  BY <1>1 DEF Fails
<1>2. CASE w = "web"
  BY <1>2 DEF Fails
<1> QED BY <1>1, <1>2

LEMMA WriteTemporaryInv ==
    ASSUME TypeOK, TemporaryInv, NEW w \in Writers, Write(w)
    PROVE  TemporaryInv'
<1> USE DEF TypeOK, Writers, at, Other, Writing, TemporaryInv
<1>1. /\ pc[w] = "write" /\ pc' = at(w, "rename")
      /\ UNCHANGED <<data, contended>>
      /\ handle' = [handle EXCEPT ![w] = "none"]
  BY DEF Write
<1>2. ~contended => file'.tmp = Whole(data[w])
  BY DEF Write
<1>3. CASE w = "main"
  BY <1>1, <1>2, <1>3
<1>4. CASE w = "web"
  BY <1>1, <1>2, <1>4
<1> QED BY <1>3, <1>4

LEMMA NextTemporary ==
    TypeOK /\ PhaseInv /\ TemporaryInv /\ [Next]_vars => TemporaryInv'
<1> SUFFICES ASSUME TypeOK, PhaseInv, TemporaryInv, [Next]_vars
             PROVE  TemporaryInv'
  OBVIOUS
<1>0. "main" \in Writers /\ "web" \in Writers
  BY DEF Writers
<1>1. CASE Start
  <2>1. ~Writing("main") /\ ~Writing("web") /\ ~contended
    BY <1>1 DEF Start, PhaseInv, TemporaryInv, Writing
  <2> QED BY <1>1, <2>1 DEF Start, history, TemporaryInv, Writing, Writers
<1>2. CASE Change \/ Reload \/ EditConfig \/ AgentChanges \/ UNCHANGED vars
  <2>1. UNCHANGED <<file, pc, handle, data, contended>>
    BY <1>2 DEF Change, Reload, EditConfig, AgentChanges, vars, history
  <2> QED BY <2>1 DEF TemporaryInv, Writing
<1>3. CASE SaveState
  BY <1>0, <1>3, OpenTemporaryInv DEF SaveState, Writing
<1>4. CASE OpenTemporary
  BY <1>0, <1>4, OpenTemporaryInv DEF OpenTemporary, Writing
<1>5. ASSUME NEW w \in Writers, Rename(w) PROVE TemporaryInv'
  BY <1>5, RenameTemporaryInv
<1>6. CASE SaveFails
  BY <1>0, <1>6, FailsTemporaryInv DEF SaveFails
<1>7. CASE RecordFails
  <2>1. PICK phase \in {"failed", "idle"} : pc' = at("web", phase)
    BY <1>7 DEF RecordFails
  <2> QED BY <1>0, <1>7, <2>1, FailsTemporaryInv DEF RecordFails
<1>8. CASE Poll \/ RecordUnreachable
  <2>1. /\ pc' = at("web", "open") /\ pc.web \in {"idle", "failed"}
        /\ \E contents : data' = [data EXCEPT !.web = contents]
        /\ UNCHANGED <<file, handle, contended>>
    BY <1>8 DEF Poll, RecordUnreachable, Read
  <2> QED BY <2>1 DEF at, TypeOK, TemporaryInv, Writing, Writers
<1>9. ASSUME NEW w \in Writers, Write(w) PROVE TemporaryInv'
  BY <1>9, WriteTemporaryInv
<1>10. CASE Crash \/ Stumble
  BY <1>10 DEF Crash, Stumble, Dies, TemporaryInv, Writing, Writers
<1> QED
  BY <1>0, <1>1, <1>2, <1>3, <1>4, <1>5, <1>6, <1>7, <1>8, <1>9, <1>10
  DEF Next, Main, Web, Environment, Saved, Recorded

---------------------------------------------------------------------------
(* The state file: what is behind what *)

(* Nothing is behind itself, nor behind contents that hold nothing.        *)
LEMMA NotBehind ==
    ASSUME NEW contents \in Contents
    PROVE  ~Behind(contents, contents) /\ ~Behind(contents, Default)
BY DEF Behind, Contents, Default

(* An update is not behind what it was read from, and whatever is not      *)
(* behind that is not behind the update.                                   *)
LEMMA UpdateBehind ==
    ASSUME NEW base \in Contents, NEW c \in Clients, NEW result,
           NEW update,
           update = [base EXCEPT !.record[c] = IF @ = "none" THEN "partial" ELSE @,
                                 !.result = result]
    PROVE  /\ ~Behind(update, base)
           /\ \A contents \in Contents : ~Behind(contents, base) => ~Behind(contents, update)
<1>1. /\ update.revision = base.revision
      /\ \A d \in Clients : update.record[d] = "full" <=> base.record[d] = "full"
  BY DEF Contents
<1> QED BY <1>1 DEF Behind, Contents

(* Loading, reloading and changing a tracker leave it ahead.               *)
LEMMA TrackerAhead ==
    ASSUME NEW contents \in Contents
    PROVE  /\ ~Behind(Complete(contents), contents)
           /\ \A old \in Contents :
                ~Behind(contents, old) => ~Behind(sync_clients(contents), old)
<1>1. /\ Complete(contents).revision = contents.revision
      /\ \A c \in Clients : Complete(contents).record[c] = "partial"
             => contents.record[c] = "partial"
  BY DEF Complete, Contents
<1>2. /\ sync_clients(contents).revision = contents.revision
      /\ \A c \in Clients : sync_clients(contents).record[c] = "partial"
             => contents.record[c] = "partial"
  BY <1>1 DEF sync_clients
<1> QED BY <1>1, <1>2 DEF Behind, Contents

(* Writing puts the writer's data into a file or leaves it unreadable.     *)
LEMMA WriteContents ==
    ASSUME TypeOK, NEW w \in Writers, Write(w), NEW f \in {"state", "tmp"}
    PROVE  Load(file'[f]) \in {Load(file[f]), data[w], Default}
<1>1. CASE handle[w] \notin {"tmp", "state"}
  BY <1>1 DEF Write, TypeOK
<1>2. CASE handle[w] \in {"tmp", "state"}
  <2>1. PICK g \in {Whole(data[w]), Torn} : file' = [file EXCEPT ![handle[w]] = g]
    BY <1>2 DEF Write
  <2> QED BY <1>2, <2>1 DEF Load, Whole, Torn, TypeOK
<1> QED BY <1>1, <1>2

(* Memory stays ahead of the files and of what is on its way there.        *)
LEMMA NextMemory ==
    TypeOK /\ PhaseInv /\ TemporaryInv /\ MemoryInv /\ [Next]_vars => MemoryInv'
<1> SUFFICES ASSUME TypeOK, PhaseInv, TemporaryInv, MemoryInv, [Next]_vars
             PROVE  MemoryInv'
  OBVIOUS
<1>0. /\ "main" \in Writers /\ "web" \in Writers /\ memory \in Contents
      /\ ~Behind(memory, Default) /\ ~Behind(memory, memory)
      /\ \A f \in Files : Load(f) \in Contents
  BY NotBehind, FileTypes DEF Writers, TypeOK
<1>1. CASE Start
  <2>1. ~Behind(memory', Load(file.state))
    BY <1>0, <1>1, TrackerAhead DEF Start, TypeOK
  <2> QED BY <1>1, <2>1 DEF Start, MemoryInv, Writing, Updating
<1>2. CASE Change \/ Reload
  <2>1. /\ pc.main = "idle" /\ UNCHANGED <<file, pc, data>>
        /\ memory' = sync_clients(memory)
           \/ memory' = [memory EXCEPT !.revision = @ + 1]
    BY <1>2 DEF Change, Reload
  <2>2. ASSUME NEW old \in Contents, ~Behind(memory, old)
        PROVE  ~Behind(memory', old)
    <3>1. CASE memory' = sync_clients(memory)
      BY <1>0, <2>2, <3>1, TrackerAhead
    <3>2. CASE memory' = [memory EXCEPT !.revision = @ + 1]
      BY <1>0, <2>2, <3>2, StateFileAssumption DEF Behind, Contents
    <3> QED BY <2>1, <3>1, <3>2
  <2>3. Load(file.state) \in Contents /\ Load(file.tmp) \in Contents
        /\ data.web \in Contents
    BY <1>0 DEF TypeOK
  <2> QED BY <2>1, <2>2, <2>3 DEF MemoryInv, Writing, Updating
<1>3. CASE SaveState
  <2>1. /\ pc'.main = "write" /\ pc'.web = pc.web /\ pc.main = "idle"
        /\ data'.main = memory /\ data'.web = data.web /\ UNCHANGED memory
        /\ file'.tmp = Empty /\ file'.state = file.state
    BY <1>0, <1>3, OpensTemporary DEF SaveState, at, TypeOK
  <2> QED BY <1>0, <2>1 DEF MemoryInv, Writing, Updating, Load, Empty
<1>4. CASE OpenTemporary
  <2>1. /\ pc'.main = pc.main /\ pc'.web = "write" /\ pc.web = "open"
        /\ data'.main = data.main /\ data'.web = data.web /\ UNCHANGED memory
        /\ file'.tmp = Empty /\ file'.state = file.state
    BY <1>0, <1>4, OpensTemporary DEF OpenTemporary, at, TypeOK
  <2> QED BY <1>0, <2>1 DEF MemoryInv, Writing, Updating, Load, Empty
<1>5. ASSUME NEW w \in Writers, Rename(w) PROVE MemoryInv'
  <2>1. /\ pc' = at(w, "idle") /\ pc[w] = "rename" /\ UNCHANGED <<data, memory>>
        /\ file'.state = file.tmp /\ file'.tmp = Missing
    BY <1>5 DEF Rename
  <2>2. /\ pc.main # "down" /\ \A v \in Writers : Writing(v)' => Writing(v)
        /\ Updating' => Updating
    BY <2>1 DEF PhaseInv, Writing, Updating, at, TypeOK, Writers
  <2>3. ~Behind(memory, Load(file.tmp))
    BY <2>1, <2>2 DEF MemoryInv, Writing, Writers
  <2> QED BY <1>0, <2>1, <2>2, <2>3 DEF MemoryInv, Load, Missing
<1>6. CASE SaveFails \/ RecordFails
  <2>1. /\ pc' \in {at("main", "idle"), at("web", "idle"), at("web", "failed")}
        /\ UNCHANGED <<file, data, memory>>
    BY <1>6 DEF SaveFails, RecordFails, Fails
  <2>2. pc.main # "down"
    BY <1>6 DEF SaveFails, RecordFails, Fails, PhaseInv
  <2>3. /\ Writing("main")' => Writing("main")
        /\ Writing("web")' => Writing("web")
        /\ Updating' => Updating
    BY <2>1 DEF Writing, Updating, at, TypeOK
  <2> QED BY <2>1, <2>2, <2>3 DEF MemoryInv
<1>7. CASE Poll \/ RecordUnreachable
  <2>1. PICK c \in Clients, result \in Results : Read(c, result)
    BY <1>7 DEF Poll, RecordUnreachable, TypeOK, Results
  <2>2. /\ pc' = at("web", "open") /\ UNCHANGED <<file, memory>>
        /\ data'.main = data.main
        /\ data'.web = [Base EXCEPT
                !.record[c] = IF @ = "none" THEN "partial" ELSE @, !.result = result]
    BY <2>1 DEF Read, TypeOK, Writers
  <2>3. /\ pc.main # "down" /\ pc'.main = pc.main /\ ~Writing("web")'
    BY <1>7, <2>2 DEF Poll, RecordUnreachable, PhaseInv, Writing, at, TypeOK
  <2>4. ~Behind(memory, data'.web)
    <3>1. Base \in Contents /\ ~Behind(memory, Base)
      BY <1>0, <2>3 DEF Base, MemoryInv, TypeOK
    <3> QED BY <1>0, <2>2, <3>1, UpdateBehind
  <2> QED BY <2>2, <2>3, <2>4 DEF MemoryInv, Writing, Updating
<1>8. ASSUME NEW w \in Writers, Write(w) PROVE MemoryInv'
  <2>1. /\ pc[w] = "write" /\ pc' = at(w, "rename") /\ UNCHANGED <<data, memory>>
    BY <1>8 DEF Write
  <2>2. /\ pc.main # "down" /\ Writing(w) /\ \A v \in Writers : Writing(v)' => Writing(v)
        /\ Updating' => Updating
    BY <2>1 DEF PhaseInv, Writing, Updating, at, TypeOK, Writers
  <2>3. ~Behind(memory, data[w])
    BY <1>0, <2>1, <2>2 DEF MemoryInv, Writing, Updating, Writers
  <2>4. /\ ~Behind(memory, Load(file.state)) /\ ~Behind(memory, Load(file.tmp))
    BY <2>2 DEF MemoryInv, Writers
  <2>5. /\ ~Behind(memory, Load(file'["state"])) /\ ~Behind(memory, Load(file'["tmp"]))
    BY <1>0, <1>8, <2>3, <2>4, WriteContents
  <2> QED BY <1>0, <2>1, <2>2, <2>5 DEF MemoryInv
<1>9. CASE Crash \/ Stumble
  BY <1>9 DEF Crash, Stumble, Dies, MemoryInv
<1>10. CASE EditConfig \/ AgentChanges \/ UNCHANGED vars
  <2>1. UNCHANGED <<file, pc, data, memory>>
    BY <1>10 DEF EditConfig, AgentChanges, vars
  <2> QED BY <2>1 DEF MemoryInv, Writing, Updating
<1> QED
  BY <1>0, <1>1, <1>2, <1>3, <1>4, <1>5, <1>6, <1>7, <1>8, <1>9, <1>10
  DEF Next, Main, Web, Environment, Saved, Recorded

(* An update that is not outdated still finds the file it was read from.   *)
LEMMA NextUpdate == TypeOK /\ PhaseInv /\ UpdateInv /\ [Next]_vars => UpdateInv'
<1> SUFFICES ASSUME TypeOK, PhaseInv, UpdateInv, [Next]_vars, Updating', ~outdated'
             PROVE  ~Behind(data'.web, Load(file'.state))
  BY DEF UpdateInv
<1>0. "main" \in Writers /\ "web" \in Writers
  BY DEF Writers
<1>1. CASE Poll \/ RecordUnreachable
  <2>1. PICK c \in Clients, result \in Results : Read(c, result)
    BY <1>1 DEF Poll, RecordUnreachable, TypeOK, Results
  <2>2. /\ file' = file /\ Base \in Contents
        /\ data'.web = [Base EXCEPT
                !.record[c] = IF @ = "none" THEN "partial" ELSE @, !.result = result]
    BY <2>1, FileTypes DEF Read, Base, TypeOK, Writers
  <2> QED BY <2>2, UpdateBehind DEF Base
<1>2. ASSUME ~(Poll \/ RecordUnreachable)
      PROVE  Updating /\ ~outdated /\ data'.web = data.web /\ file'.state = file.state
  <2>1. CASE Start \/ Crash \/ Stumble
    BY <2>1 DEF Start, Crash, Stumble, Dies, Updating
  <2>2. CASE Change \/ Reload \/ EditConfig \/ AgentChanges \/ UNCHANGED vars
    <3>1. UNCHANGED <<file, pc, data, outdated>>
      BY <2>2 DEF Change, Reload, EditConfig, AgentChanges, vars, history
    <3> QED BY <3>1 DEF Updating
  <2>3. CASE SaveState
    <3>1. Open("main", memory)
      BY <2>3 DEF SaveState
    <3> QED BY <1>0, <3>1, OpensTemporary DEF Updating, at, TypeOK
  <2>4. CASE OpenTemporary
    <3>1. Open("web", data.web) /\ pc.web = "open"
      BY <2>4 DEF OpenTemporary
    <3> QED BY <1>0, <3>1, OpensTemporary DEF Updating, at, TypeOK
  <2>5. ASSUME NEW w \in Writers, Rename(w) \/ Write(w)
        PROVE  Updating /\ ~outdated /\ data'.web = data.web
               /\ file'.state = file.state
    <3>1. /\ pc' \in {at(w, "idle"), at(w, "rename")} /\ data' = data
          /\ pc[w] \in {"write", "rename"}
          /\ outdated' = (outdated \/ file'.state # file.state)
          /\ pc[w] = "write" \/ pc' = at(w, "idle")
      BY <2>5 DEF Rename, Write
    <3>2. ~outdated /\ file'.state = file.state
      BY <3>1
    <3>3. Updating
      BY <3>1 DEF Updating, at, TypeOK, Writers
    <3> QED BY <3>1, <3>2, <3>3
  <2>6. CASE SaveFails \/ RecordFails
    <3>1. /\ pc' \in {at("main", "idle"), at("web", "idle"), at("web", "failed")}
          /\ UNCHANGED <<file, data, outdated>>
      BY <2>6 DEF SaveFails, RecordFails, Fails
    <3> QED BY <3>1 DEF Updating, at, TypeOK
  <2> QED
    BY <1>0, <1>2, <2>1, <2>2, <2>3, <2>4, <2>5, <2>6
    DEF Next, Main, Web, Environment, Saved, Recorded
<1> QED BY <1>1, <1>2 DEF UpdateInv

---------------------------------------------------------------------------
(* The state file: what follows *)

(* The five-part invariant, for every interleaving of the two writers,     *)
(* crashes, failed operations on files and edits of the configuration.     *)
THEOREM FilesInvariant == FilesSpec => []IInv
<1>1. Init => IInv
  BY InitTypes
  DEF Init, IInv, PhaseInv, TemporaryInv, MemoryInv, UpdateInv, Updating,
      Writing, Writers
<1>2. IInv /\ [Next]_vars => IInv'
  BY NextTypes, NextPhase, NextTemporary, NextMemory, NextUpdate DEF IInv
<1> QED BY <1>1, <1>2, PartSpecs, PTL DEF Spec

(* A step that changes the state file is a rename or a write by a writer   *)
(* that follows it there.                                                  *)
LEMMA StateFileChanges ==
    ASSUME TypeOK, [Next]_vars, file'.state # file.state
    PROVE  \E w \in Writers : Rename(w) \/ Write(w)
<1>0. "main" \in Writers /\ "web" \in Writers
  BY DEF Writers
<1>1. CASE Start \/ Change \/ Reload \/ EditConfig \/ AgentChanges \/ UNCHANGED vars
  BY <1>1 DEF Start, Change, Reload, EditConfig, AgentChanges, vars
<1>2. CASE Poll \/ RecordUnreachable \/ SaveFails \/ RecordFails
  BY <1>2 DEF Poll, RecordUnreachable, Read, SaveFails, RecordFails, Fails
<1>3. CASE SaveState \/ OpenTemporary
  BY <1>0, <1>3, OpensTemporary DEF SaveState, OpenTemporary
<1>4. CASE Crash \/ Stumble
  BY <1>4 DEF Crash, Stumble, Dies
<1> QED
  BY <1>0, <1>1, <1>2, <1>3, <1>4 DEF Next, Main, Web, Environment, Saved, Recorded

(* A writer that met nobody changes the state file only by moving there    *)
(* what it wrote.                                                          *)
LEMMA MovesItsOwn ==
    ASSUME IInv, NEW w \in Writers, Rename(w) \/ Write(w), ~contended,
           file'.state # file.state
    PROVE  Rename(w) /\ file'.state = Whole(data[w])
<1>1. ~Write(w)
  <2> SUFFICES ASSUME Write(w) PROVE FALSE
    OBVIOUS
  <2>1. handle[w] = "tmp"
    BY DEF IInv, TemporaryInv, Write
  <2> QED BY <2>1 DEF Write, IInv, TypeOK
<1>2. file.tmp = Whole(data[w])
  BY <1>1 DEF IInv, TemporaryInv, Rename
<1> QED BY <1>1, <1>2 DEF Rename

(* The state file becomes unreadable only when the two writers had the     *)
(* temporary file at the same time: whoever has it alone moves it when it  *)
(* is written whole, and nobody writes to the state file itself.           *)
THEOREM ReplacesWhole == FilesSpec => ReplacedWhole
<1>1. ASSUME IInv, [Next]_vars, Readable(file.state), ~Readable(file'.state)
      PROVE  contended
  <2> SUFFICES ASSUME ~contended PROVE FALSE
    OBVIOUS
  <2>1. file'.state # file.state
    BY <1>1
  <2>2. PICK w \in Writers : Rename(w) \/ Write(w)
    BY <1>1, <2>1, StateFileChanges DEF IInv
  <2>3. file'.state = Whole(data[w])
    BY <1>1, <2>1, <2>2, MovesItsOwn
  <2> QED BY <1>1, <2>3 DEF Readable, Whole
<1>2. IInv /\ [Next]_vars =>
         [Readable(file.state) /\ ~Readable(file'.state) => contended]_vars
  BY <1>1
<1> QED BY <1>2, FilesInvariant, PartSpecs, PTL DEF Spec, ReplacedWhole

(* What a save brought into the state file is undone only by an update     *)
(* that had read the file before, or when both writers had the temporary   *)
(* file: otherwise a save moves memory, which is behind nothing, and an    *)
(* update what it read there.                                              *)
THEOREM SavesStay == FilesSpec => NeverFallsBehind
<1>1. ASSUME IInv, [Next]_vars, Behind(Load(file'.state), Load(file.state)),
             ~contended, ~(Rename("web") /\ outdated)
      PROVE  FALSE
  <2>1. file'.state # file.state
    BY <1>1, NotBehind, FileTypes DEF IInv, TypeOK
  <2>2. PICK w \in Writers : Rename(w) \/ Write(w)
    BY <1>1, <2>1, StateFileChanges DEF IInv
  <2>3. Rename(w) /\ Load(file'.state) = data[w]
    <3>1. Rename(w) /\ file'.state = Whole(data[w])
      BY <1>1, <2>1, <2>2, MovesItsOwn
    <3> QED BY <3>1 DEF Load, Whole
  <2>4. CASE w = "main"
    <3>1. Writing("main") /\ pc.main # "down"
      BY <2>3, <2>4 DEF Rename, Writing
    <3> QED BY <1>1, <2>3, <2>4, <3>1 DEF IInv, MemoryInv
  <2>5. CASE w = "web"
    <3>1. Updating /\ ~outdated
      BY <1>1, <2>3, <2>5 DEF Rename, Updating
    <3> QED BY <1>1, <2>3, <2>5, <3>1 DEF IInv, UpdateInv
  <2> QED BY <2>4, <2>5 DEF Writers
<1>2. IInv /\ [Next]_vars =>
         [Behind(Load(file'.state), Load(file.state)) =>
              contended \/ (Rename("web") /\ outdated)]_vars
  BY <1>1
<1> QED BY <1>2, FilesInvariant, PartSpecs, PTL DEF Spec, NeverFallsBehind
=============================================================================
