------------------------------- MODULE Agent -------------------------------
(***************************************************************************)
(* The agent on a device (agent/main.go): its state file, the handlers and *)
(* commands that change it, the ledger of shutdown commands and the        *)
(* delayed power-off.                                                      *)
(*                                                                         *)
(* Handlers run concurrently and the commands (pairing-code,               *)
(* reset-pairing, enroll) are processes of their own.  The store's mutex   *)
(* covers one load, one save, or one of update() and acceptCommand(); a    *)
(* handler that loads, changes and saves works on a copy in between.       *)
(***************************************************************************)
EXTENDS Naturals, FiniteSets

CONSTANTS Commands,     \* identifiers of shutdown commands
          Jobs,         \* connections and commands that can be in progress
          Ops,          \* the operations an instance considers
          Limit,        \* length of the ledger (100)
          Attempts,     \* wrong codes that lock a pairing code (5)
          MaxKeys,      \* bound on the keys made
          MaxClock,     \* bound on the clock
          MaxTimes,     \* bound on how often one command is scheduled
          MaxFaults     \* bound on crashes and failed power-offs

(* Requests of a paired controller; requests before pairing; processes of  *)
(* their own.                                                              *)
ControllerOps == {"unpair", "shutdown", "policy"}
BootstrapOps == {"pair", "wrong_code", "complete"}
CommandLine == {"pairing_code", "reset_pairing", "enroll"}
AllOps == ControllerOps \cup BootstrapOps \cup CommandLine

ASSUME AgentAssumption ==
    /\ Ops \subseteq AllOps
    /\ Limit \in Nat \ {0}
    /\ {Attempts, MaxKeys, MaxClock, MaxTimes, MaxFaults} \subseteq Nat

VARIABLES file,         \* contents of state.json
          serving,      \* the service is running
          work,         \* what each job does, with the state it loaded
          scheduled,    \* commands whose power-off is two seconds away
          clock         \* time.Now().Unix()

(* History: keys made, how often each command was scheduled, commands that *)
(* left the ledger, crashes and failed power-offs.                         *)
VARIABLES keys, times, lost, faults

history == <<keys, times, lost, faults>>
vars == <<file, serving, work, scheduled, clock, history>>

NoKey == 0

(* processed: the commands in the ledger and when they were accepted. *)
Ledgers == UNION {[S -> 0..MaxClock] : S \in SUBSET Commands}
NoCommands == [c \in {} |-> 0]

(* A pairing session is the pending key and the completion token made with *)
(* it, under one number.  code is the number of attempts left, 0 without a *)
(* code that can still be used.                                            *)
States ==
    [ca : BOOLEAN, server : Nat, csr : Nat, token : Nat, code : Nat,
     processed : Ledgers, auto_update : BOOLEAN]

(* initialize(), and what unpair and reset-pairing leave. *)
Blank ==
    [ca |-> FALSE, server |-> NoKey, csr |-> NoKey, token |-> NoKey, code |-> 0,
     processed |-> NoCommands, auto_update |-> FALSE]

Paired(state) == state.server # NoKey

Seen(state) == DOMAIN state.processed

(* Phases of a job: idle, connected (a controller has passed the TLS       *)
(* handshake), an operation on a loaded copy, enrolled (waiting for the    *)
(* answer of the controller).                                              *)
Works == [op : {"idle", "connected", "enrolled"} \cup AllOps, copy : States]
Idle == [op |-> "idle", copy |-> Blank]
Loaded(op) == [op |-> op, copy |-> file]

Init ==
    /\ file = Blank
    /\ serving = TRUE
    /\ work = [j \in Jobs |-> Idle]
    /\ scheduled = {}
    /\ clock = 0
    /\ keys = 0
    /\ times = [c \in Commands |-> 0]
    /\ lost = {}
    /\ faults = 0

---------------------------------------------------------------------------
(* Handlers and commands that load, change and save *)

(* Faulty: a locked code is accepted for one more try. *)
CodeUsable_unlocked(state) == ~Paired(state)

(* validatePairingCode: not paired, not expired, not locked. *)
CodeUsable(state) == ~Paired(state) /\ state.code > 0

(* The checks on the state loaded.  A code or a token that expired is      *)
(* refused like a wrong one, which can happen at any time.                 *)
Admitted(op, state) ==
    CASE op \in {"pair", "wrong_code"} -> CodeUsable(state)
      [] op = "complete" -> state.csr # NoKey /\ state.token = state.csr
      [] op \in {"pairing_code", "enroll"} -> ~Paired(state)
      [] op = "enrolled" -> state.csr # NoKey
      [] OTHER -> TRUE

(* handleBootstrapPair: a new key and a token for it; the code is used up. *)
Begun(state, key) ==
    [state EXCEPT !.ca = TRUE, !.csr = key, !.token = key, !.code = 0]

(* handleBootstrapComplete *)
Completed(state) ==
    [state EXCEPT !.server = state.csr, !.csr = NoKey, !.token = NoKey, !.code = 0]

(* enrollAgent, when the controller has answered *)
Enrolled(state) ==
    [state EXCEPT !.ca = TRUE, !.server = state.csr, !.csr = NoKey]

(* Faulty: a pending session survives. *)
Recoded_keeps_session(state) == [state EXCEPT !.ca = FALSE, !.code = Attempts]

(* pairingCode: a new code ends a pending session. *)
Recoded(state) ==
    [state EXCEPT !.ca = FALSE, !.csr = NoKey, !.token = NoKey, !.code = Attempts]

(* What the operation saves; key is a new one. *)
Changed(op, state, key) ==
    CASE op = "pair" -> Begun(state, key)
      [] op = "wrong_code" -> [state EXCEPT !.code = state.code - 1]
      [] op = "complete" -> Completed(state)
      [] op = "enrolled" -> Enrolled(state)
      [] op = "pairing_code" -> Recoded(state)
      [] OTHER -> Blank

(* Saving a copy; commands accepted since it was loaded are lost. *)
Save(state) ==
    /\ file' = state
    /\ lost' = lost \cup (Seen(file) \ Seen(state))

(* A controller presents the token of a session once (AgentClient.pair). *)
Begin(j, op) ==
    /\ work[j] = Idle
    /\ op \in Ops \cap (BootstrapOps \cup CommandLine)
    /\ serving \/ op \in CommandLine
    /\ Admitted(op, file)
    /\ op = "complete" =>
          \A i \in Jobs : work[i].op = op => work[i].copy.token # file.token
    /\ work' = [work EXCEPT ![j] = Loaded(op)]
    /\ UNCHANGED <<file, serving, scheduled, clock, history>>

Finish(j) ==
    /\ work[j].op \in BootstrapOps \cup
                      {"unpair", "pairing_code", "reset_pairing", "enrolled"}
    /\ keys' = IF work[j].op = "pair" THEN keys + 1 ELSE keys
    /\ keys' <= MaxKeys
    /\ Save(Changed(work[j].op, work[j].copy, keys'))
    /\ work' = [work EXCEPT ![j] = Idle]
    /\ UNCHANGED <<serving, scheduled, clock, times, faults>>

(* enrollAgent saves a new key, unless there is one, before its request,   *)
(* and keeps working on the state it loaded until the answer arrives.      *)
EnrollRequest(j) ==
    LET state == work[j].copy
        new == state.csr = NoKey
        sent == IF new THEN [state EXCEPT !.csr = keys + 1] ELSE state
    IN /\ work[j].op = "enroll"
       /\ keys' = IF new THEN keys + 1 ELSE keys
       /\ keys' <= MaxKeys
       /\ IF new THEN Save(sent) ELSE UNCHANGED <<file, lost>>
       /\ work' = [work EXCEPT ![j] = [op |-> "enrolled", copy |-> sent]]
       /\ UNCHANGED <<serving, scheduled, clock, times, faults>>

(* A request that is refused, a save that fails, an answer that does not   *)
(* come, a command that is stopped.                                        *)
GiveUp(j) ==
    /\ work[j] # Idle
    /\ work' = [work EXCEPT ![j] = Idle]
    /\ UNCHANGED <<file, serving, scheduled, clock, history>>

---------------------------------------------------------------------------
(* Requests of the controller *)

(* A job of the controller works on nothing that was loaded before the     *)
(* lock; unpairing clears every field.                                     *)
Ready(op) == [op |-> op, copy |-> Blank]

(* GetConfigForClient knows the controller's CA once a server certificate  *)
(* is there; requireController looks at the file again.                    *)
Handshake(j) ==
    /\ work[j] = Idle
    /\ Ops \cap ControllerOps # {}
    /\ serving
    /\ Paired(file)
    /\ work' = [work EXCEPT ![j] = Ready("connected")]
    /\ UNCHANGED <<file, serving, scheduled, clock, history>>

requireController(j, op) ==
    /\ work[j].op = "connected"
    /\ op \in Ops \cap ControllerOps
    /\ file.ca
    /\ work' = [work EXCEPT ![j] = Ready(op)]
    /\ UNCHANGED <<file, serving, scheduled, clock, history>>

SetPolicy(j, enabled) ==
    /\ work[j].op = "policy"
    /\ file' = [file EXCEPT !.auto_update = enabled]
    /\ work' = [work EXCEPT ![j] = Idle]
    /\ UNCHANGED <<serving, scheduled, clock, history>>

(* Several commands of one second are equally old. *)
Oldest(ledger) ==
    {c \in DOMAIN ledger : \A d \in DOMAIN ledger : ledger[c] <= ledger[d]}

(* Faulty: one more than the limit. *)
Full_late(ledger) == Cardinality(DOMAIN ledger) > Limit + 1

Full(ledger) == Cardinality(DOMAIN ledger) > Limit

Without(ledger, c) == [d \in DOMAIN ledger \ {c} |-> ledger[d]]

(* Faulty: forgets the newest. *)
Pruned_newest(ledger) ==
    IF Full(ledger)
    THEN {Without(ledger, c) : c \in {d \in DOMAIN ledger :
                                         \A e \in DOMAIN ledger : ledger[e] <= ledger[d]}}
    ELSE {ledger}

(* The ledgers pruneProcessed can leave of one that holds at most one      *)
(* command too many.                                                       *)
Pruned(ledger) ==
    IF Full(ledger) THEN {Without(ledger, c) : c \in Oldest(ledger)} ELSE {ledger}

Duplicate(c) == c \in Seen(file)

Recorded(c) ==
    [d \in Seen(file) \cup {c} |-> IF d = c THEN clock ELSE file.processed[d]]

(* acceptCommand and what handleShutdown does with its answer: a command   *)
(* it has not seen enters the ledger and is scheduled.                     *)
Accept(j, c) ==
    /\ work[j].op = "shutdown"
    /\ IF Duplicate(c)
       THEN UNCHANGED <<file, scheduled, times, lost>>
       ELSE /\ times[c] < MaxTimes
            /\ \E ledger \in Pruned(Recorded(c)) :
                  file' = [file EXCEPT !.processed = ledger]
            /\ scheduled' = scheduled \cup {c}
            /\ times' = [times EXCEPT ![c] = times[c] + 1]
            /\ lost' = IF Full(Recorded(c)) THEN lost \cup Oldest(Recorded(c))
                       ELSE lost
    /\ work' = [work EXCEPT ![j] = Idle]
    /\ UNCHANGED <<serving, clock, keys, faults>>

---------------------------------------------------------------------------
(* The device *)

(* The power-off ends every process on the device. *)
PowerOff(c) ==
    /\ c \in scheduled
    /\ scheduled' = {}
    /\ serving' = FALSE
    /\ work' = [j \in Jobs |-> Idle]
    /\ UNCHANGED <<file, clock, history>>

(* systemctl fails, which is logged. *)
PowerOffFails(c) ==
    /\ c \in scheduled
    /\ faults < MaxFaults
    /\ faults' = faults + 1
    /\ scheduled' = scheduled \ {c}
    /\ UNCHANGED <<file, serving, work, clock, keys, times, lost>>

(* The service dies; commands that were started by hand go on. *)
Crash ==
    /\ serving
    /\ faults < MaxFaults
    /\ faults' = faults + 1
    /\ serving' = FALSE
    /\ scheduled' = {}
    /\ work' = [j \in Jobs |->
                   IF work[j].op \in CommandLine \cup {"enrolled"} THEN work[j]
                   ELSE Idle]
    /\ UNCHANGED <<file, clock, keys, times, lost>>

Start ==
    /\ ~serving
    /\ serving' = TRUE
    /\ UNCHANGED <<file, work, scheduled, clock, history>>

Tick ==
    /\ clock < MaxClock
    /\ clock' = clock + 1
    /\ UNCHANGED <<file, serving, work, scheduled, history>>

Job(j) ==
    \/ \E op \in AllOps : Begin(j, op) \/ requireController(j, op)
    \/ Finish(j)
    \/ EnrollRequest(j)
    \/ GiveUp(j)
    \/ Handshake(j)
    \/ \E enabled \in BOOLEAN : SetPolicy(j, enabled)
    \/ \E c \in Commands : Accept(j, c)

Next ==
    \/ \E j \in Jobs : Job(j)
    \/ \E c \in Commands : PowerOff(c) \/ PowerOffFails(c)
    \/ Crash
    \/ Start
    \/ Tick

Spec == Init /\ [][Next]_vars

---------------------------------------------------------------------------
(* Properties *)

(* The file and every loaded copy are well-formed, and the ledger of the   *)
(* file never grows beyond its limit.                                      *)
TypeOK ==
    /\ file \in States
    /\ serving \in BOOLEAN
    /\ work \in [Jobs -> Works]
    /\ scheduled \subseteq Commands
    /\ clock \in 0..MaxClock
    /\ keys \in Nat
    /\ times \in [Commands -> Nat]
    /\ lost \subseteq Commands
    /\ faults \in Nat

(* The ledger keeps at most the newest Limit commands, whatever copies of  *)
(* it were saved.                                                          *)
Bounded == Cardinality(Seen(file)) <= Limit

(* A server certificate comes with the controller's CA, without which      *)
(* GetConfigForClient refuses every connection; a completion token comes   *)
(* with the CA and the key it is to complete, and does nothing on an agent *)
(* that was enrolled meanwhile.                                            *)
WellPaired(state) ==
    /\ Paired(state) => state.ca
    /\ state.token # NoKey =>
          /\ state.ca
          /\ state.csr = state.token \/ (Paired(state) /\ state.csr = NoKey)

(* Whatever handlers and commands save over each other, the state file is  *)
(* one the TLS configuration can use: copies are saved whole.              *)
Usable ==
    /\ WellPaired(file)
    /\ \A j \in Jobs : WellPaired(work[j].copy)

(* A command is scheduled a second time only if it had left the ledger: it *)
(* was among the oldest when the ledger overflowed, or somebody saved a    *)
(* state without it (handleShutdown, acceptCommand, pruneProcessed).       *)
ExecutedOnce == \A c \in Commands : times[c] > 1 => c \in lost

(* "Retries cannot schedule duplicate shutdowns." (docs/agent.md) *)
RetriesAreHarmless == \A c \in Commands : times[c] <= 1
=============================================================================
