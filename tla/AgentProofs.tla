---------------------------- MODULE AgentProofs ----------------------------
(***************************************************************************)
(* Proofs about Agent for every set of commands and jobs and every bound:  *)
(* the state file stays usable, and a command is scheduled again only      *)
(* after it left the ledger.                                               *)
(***************************************************************************)
EXTENDS Agent, FiniteSetTheorems, TLAPS

USE AgentAssumption DEF AllOps, ControllerOps, BootstrapOps, CommandLine

Safe(state) == state \in States /\ WellPaired(state)

(* What a job works on is well-formed and passed the checks of its         *)
(* operation.                                                              *)
Working ==
    /\ work \in [Jobs -> Works]
    /\ \A j \in Jobs :
          Safe(work[j].copy) /\ Admitted(work[j].op, work[j].copy)

Counting ==
    /\ serving \in BOOLEAN
    /\ scheduled \subseteq Commands
    /\ clock \in 0..MaxClock
    /\ keys \in Nat
    /\ times \in [Commands -> Nat]
    /\ lost \subseteq Commands
    /\ faults \in Nat

(* A command that was scheduled is in the ledger or known to have left it. *)
Accounted == \A c \in Commands : times[c] > 0 => c \in Seen(file) \cup lost

IInv == Safe(file) /\ Working /\ Counting /\ Accounted /\ ExecutedOnce

---------------------------------------------------------------------------
(* Lemmas about the operators *)

(* The state of a new agent is well-formed. *)
LEMMA BlankSafe == Safe(Blank)
<1>1. NoCommands \in [{} -> 0..MaxClock]
  BY DEF NoCommands
<1>2. NoCommands \in Ledgers
  BY <1>1 DEF Ledgers
<1> QED
  BY <1>2 DEF Safe, Blank, States, WellPaired, Paired, NoKey

(* A job that works on nothing passed every check. *)
LEMMA IdleChecked ==
    /\ Idle \in Works
    /\ Safe(Idle.copy)
    /\ Admitted(Idle.op, Idle.copy)
  BY BlankSafe DEF Idle, Works, Admitted, Safe

(* Nor does a job of the controller work on anything it loaded before.     *)
LEMMA ReadyChecked ==
    ASSUME NEW op \in {"connected"} \cup ControllerOps
    PROVE  /\ Ready(op) \in Works
           /\ Safe(Ready(op).copy)
           /\ Admitted(Ready(op).op, Ready(op).copy)
  BY BlankSafe DEF Ready, Works, Admitted, Safe

(* Whatever an operation saves is well-formed when its checks passed on    *)
(* the state it loaded.                                                    *)
LEMMA ChangedSafe ==
    ASSUME NEW op, NEW state, Safe(state), Admitted(op, state), NEW key \in Nat
    PROVE  Safe(Changed(op, state, key))
<1> state \in States /\ WellPaired(state)
  BY DEF Safe
<1>1. CASE op = "pair"
  <2>1. Changed(op, state, key) = Begun(state, key)
    BY <1>1 DEF Changed
  <2>2. Begun(state, key) \in States
    BY DEF Begun, States
  <2>3. WellPaired(Begun(state, key))
    BY DEF Begun, States, WellPaired, Paired
  <2> QED  BY <2>1, <2>2, <2>3 DEF Safe
<1>2. CASE op = "wrong_code"
  <2>1. state.code - 1 \in Nat
    BY <1>2 DEF Admitted, CodeUsable, States
  <2>2. Changed(op, state, key) = [state EXCEPT !.code = state.code - 1]
    BY <1>2 DEF Changed
  <2> QED  BY <2>1, <2>2 DEF Safe, States, WellPaired, Paired
<1>3. CASE op = "complete"
  <2>1. state.ca
    BY <1>3 DEF Admitted, WellPaired, Paired, NoKey
  <2>2. Changed(op, state, key) = Completed(state)
    BY <1>3 DEF Changed
  <2>3. Completed(state) \in States
    BY DEF Completed, States, NoKey
  <2>4. WellPaired(Completed(state))
    BY <2>1 DEF Completed, States, WellPaired, Paired, NoKey
  <2> QED  BY <2>2, <2>3, <2>4 DEF Safe
<1>4. CASE op = "enrolled"
  <2>1. Changed(op, state, key) = Enrolled(state)
    BY <1>4 DEF Changed
  <2>2. Enrolled(state) \in States
    BY DEF Enrolled, States, NoKey
  <2>3. state.csr # NoKey
    BY <1>4 DEF Admitted
  <2>4. WellPaired(Enrolled(state))
    BY <2>3 DEF Enrolled, States, WellPaired, Paired, NoKey
  <2> QED  BY <2>1, <2>2, <2>4 DEF Safe
<1>5. CASE op = "pairing_code"
  <2>1. state.server = NoKey
    BY <1>5 DEF Admitted, Paired
  <2>2. Changed(op, state, key) = Recoded(state)
    BY <1>5 DEF Changed
  <2> QED  BY <2>1, <2>2 DEF Recoded, Safe, States, WellPaired, Paired, NoKey
<1>6. CASE op \notin {"pair", "wrong_code", "complete", "enrolled", "pairing_code"}
  <2>1. Changed(op, state, key) = Blank
    BY <1>6 DEF Changed
  <2> QED  BY <2>1, BlankSafe
<1> QED
  BY <1>1, <1>2, <1>3, <1>4, <1>5, <1>6

(* Recording a command adds it to the ledger. *)
LEMMA RecordedLedger ==
    ASSUME Safe(file), clock \in 0..MaxClock, NEW c \in Commands
    PROVE  Recorded(c) \in Ledgers /\ DOMAIN Recorded(c) = Seen(file) \cup {c}
<1>1. file.processed \in Ledgers
  BY DEF Safe, States
<1>2. PICK S \in SUBSET Commands : file.processed \in [S -> 0..MaxClock]
  BY <1>1 DEF Ledgers
<1>3. Recorded(c) \in [S \cup {c} -> 0..MaxClock]
  BY <1>2 DEF Recorded, Seen
<1>4. DOMAIN Recorded(c) = Seen(file) \cup {c}
  BY DEF Recorded
<1> QED
  BY <1>3, <1>4 DEF Ledgers

(* Pruning removes only a command that is among the oldest, and nothing    *)
(* from a ledger that is not full.                                         *)
LEMMA PrunedLedger ==
    ASSUME NEW ledger \in Ledgers, NEW pruned \in Pruned(ledger)
    PROVE  /\ pruned \in Ledgers
           /\ Full(ledger) => DOMAIN ledger \ DOMAIN pruned \subseteq Oldest(ledger)
           /\ ~Full(ledger) => pruned = ledger
           /\ Oldest(ledger) \subseteq Commands
<1>1. PICK S \in SUBSET Commands : ledger \in [S -> 0..MaxClock]
  BY DEF Ledgers
<1>2. Oldest(ledger) \subseteq Commands
  BY <1>1 DEF Oldest
<1>3. CASE ~Full(ledger)
  BY <1>2, <1>3 DEF Pruned
<1>4. CASE Full(ledger)
  <2>1. PICK c \in Oldest(ledger) : pruned = Without(ledger, c)
    BY <1>4 DEF Pruned
  <2>2. pruned \in [S \ {c} -> 0..MaxClock]
    BY <1>1, <2>1 DEF Without
  <2>3. pruned \in Ledgers
    BY <2>2 DEF Ledgers
  <2>4. DOMAIN ledger \ DOMAIN pruned \subseteq {c}
    BY <1>1, <2>2
  <2> QED
    BY <1>2, <1>4, <2>1, <2>3, <2>4
<1> QED
  BY <1>3, <1>4
---------------------------------------------------------------------------
(* What the actions have in common *)

(* A job takes up well-formed work. *)
LEMMA WorkStep ==
    ASSUME Working, NEW j \in Jobs, NEW w \in Works, Safe(w.copy),
           Admitted(w.op, w.copy), work' = [work EXCEPT ![j] = w]
    PROVE  Working'
<1>1. work' \in [Jobs -> Works]
  BY DEF Working
<1>2. ASSUME NEW i \in Jobs
      PROVE  Safe(work'[i].copy) /\ Admitted(work'[i].op, work'[i].copy)
  BY DEF Working
<1> QED
  BY <1>1, <1>2 DEF Working, Safe, WellPaired, Paired, Admitted, CodeUsable

(* Saving a copy accounts for what the copy does not know. *)
LEMMA SaveStep ==
    ASSUME IInv, NEW state, Safe(state), Save(state), times' = times
    PROVE  Safe(file)' /\ Accounted' /\ ExecutedOnce' /\ lost' \subseteq Commands
<1>1. file' = state /\ lost' = lost \cup (Seen(file) \ Seen(state))
  BY DEF Save
<1>2. Safe(file)'
  BY <1>1 DEF Safe, WellPaired, Paired
<1>3. Accounted'
  BY <1>1 DEF IInv, Accounted, Seen
<1>4. ExecutedOnce'
  BY <1>1 DEF IInv, ExecutedOnce
<1>5. Seen(file) \subseteq Commands
  BY DEF IInv, Safe, States, Ledgers, Seen
<1> QED
  BY <1>1, <1>2, <1>3, <1>4, <1>5 DEF IInv, Counting

---------------------------------------------------------------------------
(* The inductive invariant *)

(* Scheduling a command that is not in the ledger records it; what pruning *)
(* then removes is accounted for.                                          *)
LEMMA ScheduleStep ==
    ASSUME IInv, NEW c \in Commands, ~(c \in Seen(file)),
           NEW ledger \in Pruned(Recorded(c)),
           file' = [file EXCEPT !.processed = ledger],
           times' = [times EXCEPT ![c] = times[c] + 1],
           lost' = IF Full(Recorded(c)) THEN lost \cup Oldest(Recorded(c)) ELSE lost
    PROVE  /\ Safe(file)' /\ Accounted' /\ ExecutedOnce'
           /\ times' \in [Commands -> Nat] /\ lost' \subseteq Commands
<1>1. Recorded(c) \in Ledgers /\ DOMAIN Recorded(c) = Seen(file) \cup {c}
  BY RecordedLedger DEF IInv, Counting
<1>2. /\ ledger \in Ledgers
      /\ Full(Recorded(c)) =>
            DOMAIN Recorded(c) \ DOMAIN ledger \subseteq Oldest(Recorded(c))
      /\ ~Full(Recorded(c)) => ledger = Recorded(c)
      /\ Oldest(Recorded(c)) \subseteq Commands
  BY <1>1, PrunedLedger
<1>3. file \in States /\ WellPaired(file)
  BY DEF IInv, Safe
<1>4. file' \in States
  BY <1>2, <1>3 DEF States
<1>5. WellPaired(file)'
  BY <1>3 DEF States, WellPaired, Paired
<1>6. Seen(file)' = DOMAIN ledger
  BY <1>3 DEF Seen, States
<1>7. Seen(file) \cup {c} \subseteq Seen(file)' \cup lost'
  BY <1>1, <1>2, <1>6
<1>8. times \in [Commands -> Nat] /\ lost \subseteq Commands
  BY DEF IInv, Counting
<1>9. lost \subseteq lost' /\ lost' \subseteq Commands
  BY <1>2, <1>8
<1>10. Accounted'
  <2> SUFFICES ASSUME NEW d \in Commands, times'[d] > 0
               PROVE  d \in Seen(file)' \cup lost'
    BY DEF Accounted
  <2>1. CASE d = c
    BY <2>1, <1>7
  <2>2. CASE d # c
    <3>1. times[d] > 0
      BY <2>2, <1>8
    <3>2. d \in Seen(file) \cup lost
      BY <3>1 DEF IInv, Accounted
    <3> QED  BY <3>2, <1>7, <1>9
  <2> QED  BY <2>1, <2>2
<1>11. ExecutedOnce'
  <2> SUFFICES ASSUME NEW d \in Commands, times'[d] > 1
               PROVE  d \in lost'
    BY DEF ExecutedOnce
  <2>1. CASE d = c
    <3>1. times[c] > 0
      BY <2>1, <1>8
    <3>2. c \in lost
      BY <3>1 DEF IInv, Accounted
    <3> QED  BY <2>1, <3>2, <1>9
  <2>2. CASE d # c
    <3>1. times[d] > 1
      BY <2>2, <1>8
    <3>2. d \in lost
      BY <3>1 DEF IInv, ExecutedOnce
    <3> QED  BY <3>2, <1>9
  <2> QED  BY <2>1, <2>2
<1>12. times' \in [Commands -> Nat]
  BY <1>8
<1> QED
  BY <1>4, <1>5, <1>9, <1>10, <1>11, <1>12 DEF Safe

(* Every step of a job preserves the inductive invariant. *)
LEMMA JobStep ==
    ASSUME IInv, NEW j \in Jobs, Job(j)
    PROVE  IInv'
<1> /\ Safe(file) /\ Working /\ Counting /\ Accounted /\ ExecutedOnce
    /\ Idle \in Works /\ Safe(Idle.copy) /\ Admitted(Idle.op, Idle.copy)
    /\ work[j] \in Works /\ Safe(work[j].copy)
    /\ Admitted(work[j].op, work[j].copy)
  BY IdleChecked DEF IInv, Working
<1>1. ASSUME NEW op \in AllOps, Begin(j, op)
      PROVE  IInv'
  <2>1. Loaded(op) \in Works /\ Loaded(op).copy = file /\ Loaded(op).op = op
    BY DEF Loaded, Works, Safe
  <2>2. Working'
    BY <1>1, <2>1, WorkStep DEF Begin
  <2> QED
    BY <1>1, <2>2 DEF Begin, history, IInv, Safe, WellPaired, Paired, Counting, Accounted,
       Seen, ExecutedOnce
<1>2. ASSUME NEW op \in AllOps, requireController(j, op)
      PROVE  IInv'
  <2>1. op \in ControllerOps /\ work' = [work EXCEPT ![j] = Ready(op)]
    BY <1>2 DEF requireController
  <2>2. Working'
    BY <2>1, ReadyChecked, WorkStep
  <2> QED
    BY <1>2, <2>2 DEF requireController, history, IInv, Safe, WellPaired, Paired, Counting,
       Accounted, Seen, ExecutedOnce
<1>3. CASE Finish(j)
  <2>1. keys' \in Nat
    BY <1>3 DEF Finish, Counting
  <2>2. Safe(Changed(work[j].op, work[j].copy, keys'))
    BY <2>1, ChangedSafe
  <2>3. Safe(file)' /\ Accounted' /\ ExecutedOnce' /\ lost' \subseteq Commands
    BY <1>3, <2>2, SaveStep DEF Finish
  <2>4. Working'
    BY <1>3, WorkStep DEF Finish
  <2> QED
    BY <1>3, <2>1, <2>3, <2>4 DEF Finish, IInv, Counting
<1>4. CASE EnrollRequest(j)
  <2> DEFINE new == work[j].copy.csr = NoKey
             sent == IF new THEN [work[j].copy EXCEPT !.csr = keys + 1]
                     ELSE work[j].copy
  <2>1. work[j].op = "enroll" /\ work[j].copy.server = NoKey
    BY <1>4 DEF EnrollRequest, Admitted, Paired
  <2>2. keys' \in Nat
    BY <1>4 DEF EnrollRequest, Counting
  <2>3. keys + 1 \in Nat \ {NoKey}
    BY DEF Counting, NoKey
  <2>4. sent \in States /\ sent.csr # NoKey
    BY <2>3 DEF Safe, States
  <2>5. WellPaired(sent)
    BY <2>1, <2>3 DEF Safe, States, WellPaired, Paired, NoKey
  <2>6. Safe(sent)
    BY <2>4, <2>5 DEF Safe
  <2>7. /\ work' = [work EXCEPT ![j] = [op |-> "enrolled", copy |-> sent]]
        /\ IF new THEN Save(sent) ELSE UNCHANGED <<file, lost>>
        /\ UNCHANGED <<serving, scheduled, clock, times, faults>>
    BY <1>4 DEF EnrollRequest
  <2> HIDE DEF sent
  <2>8. Working'
    <3> DEFINE w == [op |-> "enrolled", copy |-> sent]
    <3>1. w \in Works /\ Safe(w.copy) /\ Admitted(w.op, w.copy)
      BY <2>4, <2>6 DEF Works, Admitted
    <3>2. work' = [work EXCEPT ![j] = w]
      BY <2>7
    <3> HIDE DEF w
    <3> QED  BY <3>1, <3>2, WorkStep
  <2>9. Safe(file)' /\ Accounted' /\ ExecutedOnce' /\ lost' \subseteq Commands
    <3>1. CASE new
      BY <3>1, <2>6, <2>7, SaveStep
    <3>2. CASE ~new
      BY <3>2, <2>7 DEF Safe, WellPaired, Paired, Accounted, Seen, ExecutedOnce, Counting
    <3> QED  BY <3>1, <3>2
  <2> QED
    BY <2>2, <2>7, <2>8, <2>9 DEF IInv, Counting
<1>5. CASE GiveUp(j)
  <2>1. Working'
    BY <1>5, WorkStep DEF GiveUp
  <2> QED
    BY <1>5, <2>1 DEF GiveUp, history, IInv, Safe, WellPaired, Paired, Counting, Accounted,
       Seen, ExecutedOnce
<1>6. CASE Handshake(j)
  <2>1. work' = [work EXCEPT ![j] = Ready("connected")]
    BY <1>6 DEF Handshake
  <2>2. Working'
    BY <2>1, ReadyChecked, WorkStep
  <2> QED
    BY <1>6, <2>2 DEF Handshake, history, IInv, Safe, WellPaired, Paired, Counting, Accounted,
       Seen, ExecutedOnce
<1>7. ASSUME NEW enabled \in BOOLEAN, SetPolicy(j, enabled)
      PROVE  IInv'
  <2>1. Working'
    BY <1>7, WorkStep DEF SetPolicy
  <2>2. file' = [file EXCEPT !.auto_update = enabled] /\ file \in States
    BY <1>7 DEF SetPolicy, Safe
  <2>3. file' \in States
    BY <2>2, enabled \in BOOLEAN DEF States
  <2>4. WellPaired(file)' /\ Seen(file)' = Seen(file)
    BY <2>2 DEF States, WellPaired, Paired, Seen, Safe
  <2> QED
    BY <1>7, <2>1, <2>3, <2>4 DEF SetPolicy, history, IInv, Safe, Counting, Accounted,
       ExecutedOnce
<1>8. ASSUME NEW c \in Commands, Accept(j, c)
      PROVE  IInv'
  <2>1. Working'
    BY <1>8, WorkStep DEF Accept
  <2>2. CASE Duplicate(c)
    BY <1>8, <2>1, <2>2 DEF Accept, IInv, Safe, WellPaired, Paired, Counting, Accounted, Seen,
       ExecutedOnce
  <2>3. CASE ~Duplicate(c)
    <3>1. PICK ledger \in Pruned(Recorded(c)) :
            file' = [file EXCEPT !.processed = ledger]
      BY <1>8, <2>3 DEF Accept
    <3>2. /\ scheduled' = scheduled \cup {c}
          /\ times' = [times EXCEPT ![c] = times[c] + 1]
          /\ lost' = IF Full(Recorded(c)) THEN lost \cup Oldest(Recorded(c)) ELSE lost
      BY <1>8, <2>3 DEF Accept
    <3>3. ~(c \in Seen(file))
      BY <2>3 DEF Duplicate
    <3>4. /\ Safe(file)' /\ Accounted' /\ ExecutedOnce'
          /\ times' \in [Commands -> Nat] /\ lost' \subseteq Commands
      BY <3>1, <3>2, <3>3, ScheduleStep
    <3> QED
      BY <1>8, <2>1, <3>2, <3>4 DEF Accept, IInv, Counting
  <2> QED  BY <2>2, <2>3
<1> QED
  BY <1>1, <1>2, <1>3, <1>4, <1>5, <1>6, <1>7, <1>8 DEF Job

(* The inductive invariant is preserved by every step. *)
LEMMA Preserved == IInv /\ [Next]_vars => IInv'
<1> SUFFICES ASSUME IInv, [Next]_vars
             PROVE  IInv'
  OBVIOUS
<1> /\ Safe(file) /\ Working /\ Counting /\ Accounted /\ ExecutedOnce
    /\ Idle \in Works /\ Safe(Idle.copy) /\ Admitted(Idle.op, Idle.copy)
  BY IdleChecked DEF IInv
<1> DEFINE Kept == file' = file /\ times' = times /\ lost' = lost
<1>1. ASSUME Kept
      PROVE  Safe(file)' /\ Accounted' /\ ExecutedOnce'
  BY <1>1 DEF Safe, WellPaired, Paired, Accounted, Seen, ExecutedOnce
<1>2. CASE \E j \in Jobs : Job(j)
  BY <1>2, JobStep
<1>3. ASSUME NEW c \in Commands, PowerOff(c)
      PROVE  IInv'
  <2>1. Working'
    BY <1>3 DEF PowerOff, Working, Safe, WellPaired, Paired, Admitted, CodeUsable
  <2> QED
    BY <1>1, <1>3, <2>1 DEF PowerOff, history, IInv, Counting
<1>4. ASSUME NEW c \in Commands, PowerOffFails(c)
      PROVE  IInv'
  <2>1. Working'
    BY <1>4 DEF PowerOffFails, Working, Safe, WellPaired, Paired, Admitted, CodeUsable
  <2> QED
    BY <1>1, <1>4, <2>1 DEF PowerOffFails, IInv, Counting
<1>5. CASE Crash
  <2>1. Working'
    BY <1>5 DEF Crash, Working, Safe, WellPaired, Paired, Admitted, CodeUsable
  <2>2. /\ serving' = FALSE /\ scheduled' = {} /\ faults' = faults + 1
        /\ UNCHANGED <<file, clock, keys, times, lost>>
    BY <1>5 DEF Crash
  <2>3. serving' \in BOOLEAN
    BY <2>2
  <2>4. faults' \in Nat
    BY <2>2 DEF Counting
  <2>5. Counting'
    BY <2>2, <2>3, <2>4 DEF Counting
  <2> QED
    BY <1>1, <2>1, <2>2, <2>5 DEF IInv
<1>6. CASE Start
  <2>1. Working'
    BY <1>6 DEF Start, Working, Safe, WellPaired, Paired, Admitted, CodeUsable
  <2> QED
    BY <1>1, <1>6, <2>1 DEF Start, history, IInv, Counting
<1>7. CASE Tick
  <2>1. Working'
    BY <1>7 DEF Tick, Working, Safe, WellPaired, Paired, Admitted, CodeUsable
  <2>2. clock' \in 0..MaxClock
    BY <1>7 DEF Tick, Counting
  <2> QED
    BY <1>1, <1>7, <2>1, <2>2 DEF Tick, history, IInv, Counting
<1>8. CASE UNCHANGED vars
  <2>1. Working'
    BY <1>8 DEF vars, Working, Safe, WellPaired, Paired, Admitted, CodeUsable
  <2> QED
    BY <1>1, <1>8, <2>1 DEF vars, history, IInv, Counting
<1> QED
  BY <1>2, <1>3, <1>4, <1>5, <1>6, <1>7, <1>8 DEF Next

(* The agent starts in the inductive invariant. *)
LEMMA Initially == Init => IInv
<1> SUFFICES ASSUME Init
             PROVE  IInv
  OBVIOUS
<1>1. Safe(file)
  BY BlankSafe DEF Init
<1>2. Working
  BY IdleChecked DEF Init, Working
<1>3. Counting
  BY DEF Init, Counting
<1>4. Accounted /\ ExecutedOnce
  BY DEF Init, Accounted, ExecutedOnce
<1> QED
  BY <1>1, <1>2, <1>3, <1>4 DEF IInv

(* Every behaviour of the agent stays in the inductive invariant. *)
THEOREM AgentInvariant == Spec => []IInv
  BY Initially, Preserved, PTL DEF Spec

(* The state file and everything a handler or command loaded from it have  *)
(* their types (load, save).                                               *)
THEOREM AgentTypeCorrect == Spec => []TypeOK
<1>1. IInv => TypeOK
  BY DEF IInv, Safe, Working, Counting, TypeOK
<1> QED
  BY <1>1, AgentInvariant, PTL

(* Handlers and commands that save over each other never leave a state     *)
(* file that the TLS configuration refuses (tlsConfig).                    *)
THEOREM FileIsUsable == Spec => []Usable
<1>1. IInv => Usable
  BY DEF IInv, Safe, Working, Usable
<1> QED
  BY <1>1, AgentInvariant, PTL

(* A command is scheduled again only after it left the ledger              *)
(* (acceptCommand, pruneProcessed).                                        *)
THEOREM CommandsExecuteOnce == Spec => []ExecutedOnce
<1>1. IInv => ExecutedOnce
  BY DEF IInv
<1> QED
  BY <1>1, AgentInvariant, PTL

---------------------------------------------------------------------------
(* The length of the ledger *)

Small(state) == IsFiniteSet(Seen(state)) /\ Cardinality(Seen(state)) <= Limit

(* Saved again, a loaded ledger is as short as it was. *)
SmallInv == Small(file) /\ \A j \in Jobs : Small(work[j].copy)

(* A new agent remembers nothing. *)
LEMMA BlankSmall == Small(Blank)
<1>1. Seen(Blank) = {}
  BY DEF Seen, Blank, NoCommands
<1> QED
  BY <1>1, FS_EmptySet DEF Small

(* No handler but acceptCommand adds to the ledger. *)
LEMMA ChangedSmall ==
    ASSUME NEW op, NEW state \in States, Small(state), NEW key \in Nat
    PROVE  Small(Changed(op, state, key))
<1>1. \/ Changed(op, state, key) = Blank
      \/ Seen(Changed(op, state, key)) = Seen(state)
  BY DEF Changed, Begun, Completed, Enrolled, Recoded, Seen, States
<1> QED
  BY <1>1, BlankSmall DEF Small

(* One more command than the limit is one too many, and is pruned. *)
LEMMA AcceptedSmall ==
    ASSUME Safe(file), clock \in 0..MaxClock, Small(file), NEW c \in Commands,
           NEW ledger \in Pruned(Recorded(c))
    PROVE  IsFiniteSet(DOMAIN ledger) /\ Cardinality(DOMAIN ledger) <= Limit
<1> DEFINE D == DOMAIN Recorded(c)
<1>1. D = Seen(file) \cup {c}
  BY RecordedLedger
<1>2. IsFiniteSet(Seen(file)) /\ Cardinality(Seen(file)) <= Limit
  BY DEF Small
<1>3. Cardinality(Seen(file)) \in Nat
  BY <1>2, FS_CardinalityType
<1>4. IsFiniteSet(D) /\ Cardinality(D) \in Nat /\ Cardinality(D) <= Limit + 1
  <2>1. /\ IsFiniteSet(Seen(file) \cup {c})
        /\ Cardinality(Seen(file) \cup {c}) \in
              {Cardinality(Seen(file)), Cardinality(Seen(file)) + 1}
    BY <1>2, FS_AddElement
  <2>2. IsFiniteSet(D)
    BY <1>1, <2>1
  <2>3. Cardinality(D) \in {Cardinality(Seen(file)), Cardinality(Seen(file)) + 1}
    BY <1>1, <2>1
  <2> HIDE DEF D
  <2> QED  BY <1>2, <1>3, <2>2, <2>3
<1>5. CASE ~Full(Recorded(c))
  <2>1. ledger = Recorded(c)
    BY <1>5 DEF Pruned
  <2>2. Cardinality(D) <= Limit
    BY <1>4, <1>5 DEF Full
  <2> QED  BY <1>4, <2>1, <2>2
<1>6. CASE Full(Recorded(c))
  <2>1. PICK d \in Oldest(Recorded(c)) : ledger = Without(Recorded(c), d)
    BY <1>6 DEF Pruned
  <2>2. DOMAIN ledger = D \ {d} /\ d \in D
    BY <2>1 DEF Without, Oldest
  <2>3. IsFiniteSet(D \ {d}) /\ Cardinality(D \ {d}) = Cardinality(D) - 1
    BY <1>4, <2>2, FS_RemoveElement
  <2>4. Cardinality(D) - 1 <= Limit
    BY <1>4
  <2> QED  BY <2>2, <2>3, <2>4
<1> QED
  BY <1>5, <1>6

(* A job that takes up or drops work, while the file stays. *)
LEMMA SmallWork ==
    ASSUME IInv, SmallInv, NEW j \in Jobs, NEW w \in Works, Small(w.copy),
           work' = [work EXCEPT ![j] = w], Small(file)'
    PROVE  SmallInv'
<1>1. work \in [Jobs -> Works]
  BY DEF IInv, Working
<1>2. ASSUME NEW i \in Jobs
      PROVE  Small(work[i].copy)'
  <2>1. work'[i] = work[i] \/ work'[i] = w
    BY <1>1
  <2> QED  BY <2>1 DEF SmallInv, Small, Seen
<1> QED
  BY <1>2 DEF SmallInv

(* Every step of a job keeps the ledgers short. *)
LEMMA SmallJobStep ==
    ASSUME IInv, SmallInv, NEW j \in Jobs, Job(j)
    PROVE  SmallInv'
<1> /\ Safe(file) /\ Working /\ Counting /\ work[j] \in Works /\ Small(file)
    /\ work[j].copy \in States /\ Small(work[j].copy)
  BY DEF IInv, Working, Safe, SmallInv
<1>1. ASSUME file' = file
      PROVE  Small(file)'
  BY <1>1 DEF Small, Seen
<1>2. Idle \in Works /\ Small(Idle.copy)
  BY IdleChecked, BlankSmall DEF Idle
<1>3. ASSUME NEW op \in AllOps, Begin(j, op)
      PROVE  SmallInv'
  <2>1. Loaded(op) \in Works /\ Loaded(op).copy = file
    BY DEF Loaded, Works, Safe
  <2> QED
    BY <1>1, <1>3, <2>1, SmallWork DEF Begin
<1>4. ASSUME NEW op \in AllOps, requireController(j, op)
      PROVE  SmallInv'
  <2>1. op \in ControllerOps
    BY <1>4 DEF requireController
  <2>2. Ready(op) \in Works /\ Small(Ready(op).copy)
    BY <2>1, ReadyChecked, BlankSmall DEF Ready
  <2> QED
    BY <1>1, <1>4, <2>2, SmallWork DEF requireController
<1>5. CASE Finish(j)
  <2>1. keys' \in Nat
    BY <1>5 DEF Finish, Counting
  <2>2. file' = Changed(work[j].op, work[j].copy, keys')
    BY <1>5 DEF Finish, Save
  <2>3. Small(Changed(work[j].op, work[j].copy, keys'))
    BY <2>1, ChangedSmall
  <2>4. Small(file)'
    BY <2>2, <2>3 DEF Small, Seen
  <2> QED
    BY <1>2, <1>5, <2>4, SmallWork DEF Finish
<1>6. CASE EnrollRequest(j)
  <2> DEFINE new == work[j].copy.csr = NoKey
             sent == IF new THEN [work[j].copy EXCEPT !.csr = keys + 1]
                     ELSE work[j].copy
             w == [op |-> "enrolled", copy |-> sent]
  <2>1. keys + 1 \in Nat
    BY DEF Counting
  <2>2. sent \in States /\ Seen(sent) = Seen(work[j].copy)
    BY <2>1 DEF States, Seen
  <2>3. w \in Works /\ Small(w.copy)
    BY <2>2 DEF Works, Small
  <2>4. file' = sent \/ file' = file
    BY <1>6 DEF EnrollRequest, Save
  <2>5. work' = [work EXCEPT ![j] = w]
    BY <1>6 DEF EnrollRequest
  <2> HIDE DEF new, sent, w
  <2>6. Small(file)'
    <3>1. Small(sent)
      BY <2>2 DEF Small
    <3> QED  BY <1>1, <2>4, <3>1 DEF Small, Seen
  <2> QED
    BY <2>3, <2>5, <2>6, SmallWork
<1>7. CASE GiveUp(j)
  BY <1>1, <1>2, <1>7, SmallWork DEF GiveUp
<1>8. CASE Handshake(j)
  <2>1. Ready("connected") \in Works /\ Small(Ready("connected").copy)
    BY ReadyChecked, BlankSmall DEF Ready
  <2> QED
    BY <1>1, <1>8, <2>1, SmallWork DEF Handshake
<1>9. ASSUME NEW enabled \in BOOLEAN, SetPolicy(j, enabled)
      PROVE  SmallInv'
  <2>1. Seen(file)' = Seen(file)
    BY <1>9 DEF SetPolicy, Seen, Safe, States
  <2>2. Small(file)'
    BY <2>1 DEF Small
  <2> QED
    BY <1>2, <1>9, <2>2, SmallWork DEF SetPolicy
<1>10. ASSUME NEW c \in Commands, Accept(j, c)
       PROVE  SmallInv'
  <2>1. CASE Duplicate(c)
    BY <1>1, <1>2, <1>10, <2>1, SmallWork DEF Accept
  <2>2. CASE ~Duplicate(c)
    <3>1. PICK ledger \in Pruned(Recorded(c)) :
            file' = [file EXCEPT !.processed = ledger]
      BY <1>10, <2>2 DEF Accept
    <3>2. Seen(file)' = DOMAIN ledger
      BY <3>1 DEF Seen, Safe, States
    <3>3. Small(file)'
      BY <3>1, <3>2, AcceptedSmall DEF Small, Counting
    <3> QED
      BY <1>2, <1>10, <3>3, SmallWork DEF Accept
  <2> QED  BY <2>1, <2>2
<1> QED
  BY <1>3, <1>4, <1>5, <1>6, <1>7, <1>8, <1>9, <1>10 DEF Job

(* So does every other step: it drops work or changes none. *)
LEMMA SmallStep == IInv /\ SmallInv /\ [Next]_vars => SmallInv'
<1> SUFFICES ASSUME IInv, SmallInv, [Next]_vars
             PROVE  SmallInv'
  OBVIOUS
<1>1. ASSUME file' = file,
             \A j \in Jobs : work'[j] = work[j] \/ work'[j] = Idle
      PROVE  SmallInv'
  <2>1. ASSUME NEW j \in Jobs
        PROVE  Small(work[j].copy)'
    <3>1. Small(work[j].copy) /\ Small(Idle.copy)
      BY BlankSmall DEF SmallInv, Idle
    <3> QED  BY <1>1, <3>1 DEF Small, Seen
  <2>2. Small(file)'
    BY <1>1 DEF SmallInv, Small, Seen
  <2> QED  BY <2>1, <2>2 DEF SmallInv
<1>2. CASE \E j \in Jobs : Job(j)
  BY <1>2, SmallJobStep
<1>3. CASE \/ \E c \in Commands : PowerOff(c) \/ PowerOffFails(c)
           \/ Crash \/ Start \/ Tick \/ UNCHANGED vars
  BY <1>1, <1>3 DEF PowerOff, PowerOffFails, Crash, Start, Tick, vars
<1> QED
  BY <1>2, <1>3 DEF Next

(* pruneProcessed() keeps the ledger within its limit, whatever copies of  *)
(* it are saved.                                                           *)
THEOREM LedgerIsBounded == Spec => []Bounded
<1>1. Init => SmallInv
  BY BlankSmall DEF Init, SmallInv, Idle
<1>2. SmallInv => Bounded
  BY DEF SmallInv, Small, Bounded
<1> QED
  BY <1>1, <1>2, SmallStep, AgentInvariant, PTL DEF Spec
=============================================================================
