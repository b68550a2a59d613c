------------------------------ MODULE Pairing ------------------------------
(***************************************************************************)
(* Pairing, unpairing and the update policy between the configuration of   *)
(* the controller and the agents (wolnut/web.py, config_store.py,          *)
(* agent_client.py), with edits of the whole configuration.                *)
(*                                                                         *)
(* A handler reads the configuration, asks the agent, and changes the      *)
(* configuration there is by then.  Handlers run in parallel; only the     *)
(* last step is done under the lock of ConfigStore.  Enrollment is the     *)
(* other way to pair and has a module of its own.                          *)
(***************************************************************************)
EXTENDS Naturals

CONSTANTS Clients, Agents,
          Handlers,   \* requests that can be in progress
          NoAgent, NoClient,
          MaxFaults,  \* bound on lost answers, failed writes and crashes
          MaxResets,  \* bound on resets at the device
          MaxEdits    \* bound on saved edits

ASSUME PairingAssumption ==
    /\ NoAgent \notin Agents /\ NoClient \notin Clients
    /\ {MaxFaults, MaxResets, MaxEdits} \subseteq Nat

VARIABLES config,   \* per client: listed, the agent at its host, its pairing
          agent,    \* per agent: paired, and the policy it was told
          handler,  \* what each request does, with what it has read
          draft,    \* the configuration as an editor has it
          faults, resets, edits

(* History: agents of which nothing is claimed, because of a fault, a      *)
(* reset, a pairing forgotten or replaced, or because two requests or a    *)
(* request and an edit about one client overlapped.                        *)
VARIABLE excused

bounds == <<faults, resets, edits>>
vars == <<config, agent, handler, draft, bounds, excused>>

MaybeAgent == Agents \cup {NoAgent}
Entries == [listed : BOOLEAN, host : Agents, agent : MaybeAgent, auto_update : BOOLEAN]
Configs == [Clients -> Entries]

(* remote: the agent is asked next; persist: the configuration is changed  *)
(* next; rollback: it could not be.                                        *)
Requests == [op : {"idle", "pair", "policy", "unpair"},
             pc : {"remote", "persist", "rollback"},
             client : Clients \cup {NoClient}, host : MaybeAgent, agent : MaybeAgent,
             enabled : BOOLEAN, previous : BOOLEAN]

Idle(request) == request.op = "idle"
Working(c) == {h \in Handlers : ~Idle(handler[h]) /\ handler[h].client = c}

NoRequest == [op |-> "idle", pc |-> "remote", client |-> NoClient, host |-> NoAgent,
              agent |-> NoAgent, enabled |-> FALSE, previous |-> FALSE]

Init ==
    /\ config \in [Clients -> [listed : {TRUE}, host : Agents, agent : {NoAgent},
                               auto_update : {FALSE}]]
    /\ agent = [a \in Agents |-> [paired |-> FALSE, auto_update |-> FALSE]]
    /\ handler = [h \in Handlers |-> NoRequest]
    /\ draft = config
    /\ faults = 0 /\ resets = 0 /\ edits = 0
    /\ excused = {}

Fault == faults < MaxFaults /\ faults' = faults + 1

---------------------------------------------------------------------------
(* A request begins: what it is about is read without a lock.  With        *)
(* force_local the agent is not asked.                                     *)
Begin(h, op, c, force_local, agentRead, enabled) ==
    /\ Idle(handler[h])
    /\ config[c].listed
    /\ handler' = [handler EXCEPT ![h] =
            [op |-> op, pc |-> IF force_local THEN "persist" ELSE "remote",
             client |-> c, host |-> config[c].host, agent |-> agentRead,
             enabled |-> enabled, previous |-> config[c].auto_update]]
    /\ UNCHANGED <<config, agent, draft, bounds>>

(* Whom an overlap on c concerns. *)
Overlapping(c) ==
    IF Working(c) = {} THEN {}
    ELSE {config[c].host, config[c].agent} \cup {handler[h].agent : h \in Working(c)}

(* pair_agent: nobody looks whether the client is paired already.          *)
BeginPair(h, c) ==
    /\ Begin(h, "pair", c, FALSE, config[c].host, FALSE)
    /\ excused' = excused \cup Overlapping(c)
                  \cup (IF config[c].agent = NoAgent THEN {}
                        ELSE {config[c].agent, config[c].host})

(* set_agent_auto_update *)
BeginPolicy(h, c, enabled) ==
    /\ config[c].agent # NoAgent
    /\ Begin(h, "policy", c, FALSE, config[c].agent, enabled)
    /\ excused' = excused \cup Overlapping(c)

(* unpair_agent *)
BeginUnpair(h, c) ==
    /\ config[c].agent # NoAgent
    /\ Begin(h, "unpair", c, FALSE, config[c].agent, FALSE)
    /\ excused' = excused \cup Overlapping(c)

(* unpair_agent with force_local *)
ForgetLocally(h, c) ==
    /\ config[c].agent # NoAgent
    /\ Begin(h, "unpair", c, TRUE, config[c].agent, FALSE)
    /\ excused' = excused \cup Overlapping(c) \cup {config[c].agent}

---------------------------------------------------------------------------
(* The agent answers *)

(* AgentClient._request: the device at the host has a certificate of the   *)
(* agent that was asked for, and knows the controller.                     *)
Answers(request) == request.host = request.agent /\ agent[request.agent].paired

(* AgentClient.pair: only an agent that is not paired has a code.          *)
Agrees(request) ==
    IF request.op = "pair" THEN ~agent[request.agent].paired ELSE Answers(request)

(* What the agent makes of it (Agent has the handlers).                    *)
Asked(request) ==
    CASE request.op = "pair" -> [agent[request.agent] EXCEPT !.paired = TRUE]
      [] request.op = "policy" ->
            [agent[request.agent] EXCEPT !.auto_update = request.enabled]
      [] OTHER -> [paired |-> FALSE, auto_update |-> FALSE]

(* Faulty: the agent is not asked to unpair. *)
Remote_skips_unpair(request) ==
    IF request.op = "unpair" THEN agent
    ELSE [agent EXCEPT ![request.agent] = Asked(request)]

Remote(request) == [agent EXCEPT ![request.agent] = Asked(request)]

Ask(h) ==
    LET request == handler[h] IN
    /\ ~Idle(request) /\ request.pc = "remote"
    /\ Agrees(request)
    /\ agent' = Remote(request)
    /\ handler' = [handler EXCEPT ![h].pc = "persist"]
    /\ UNCHANGED <<config, draft, bounds, excused>>

(* AgentError ends the request: the agent refuses or cannot be reached,    *)
(* or it did what was asked and the answer is lost.                        *)
AgentError(h) ==
    LET request == handler[h] IN
    /\ ~Idle(request) /\ request.pc = "remote"
    /\ \/ UNCHANGED <<agent, bounds, excused>>
       \/ /\ Agrees(request) /\ Fault
          /\ agent' = Remote(request)
          /\ excused' = excused \cup {request.agent}
          /\ UNCHANGED <<resets, edits>>
    /\ handler' = [handler EXCEPT ![h] = NoRequest]
    /\ UNCHANGED <<config, draft>>

---------------------------------------------------------------------------
(* The configuration is changed, under the lock *)

(* Faulty: an unpaired client keeps the agent's name. *)
Persisted_keeps_agent(request) ==
    CASE request.op = "pair" ->
            [config EXCEPT ![request.client].agent = request.agent]
      [] request.op = "policy" ->
            [config EXCEPT ![request.client].auto_update = request.enabled]
      [] OTHER -> [config EXCEPT ![request.client].auto_update = FALSE]

(* What persist_pairing, persist_policy and clear_pairing make of it.      *)
Persisted(request) ==
    CASE request.op = "pair" ->
            [config EXCEPT ![request.client].agent = request.agent]
      [] request.op = "policy" ->
            [config EXCEPT ![request.client].auto_update = request.enabled]
      [] OTHER ->
            [config EXCEPT ![request.client].agent = NoAgent,
                           ![request.client].auto_update = FALSE]

(* Faulty: nobody looks whether the client is still there. *)
MayPersist_unlisted(request) ==
    request.op = "policy" => config[request.client].agent = request.agent

(* The client is still there, and paired with the agent that was told the  *)
(* policy.                                                                 *)
MayPersist(request) ==
    /\ config[request.client].listed
    /\ request.op = "policy" => config[request.client].agent = request.agent

(* Faulty: a policy that could not be saved stays with the agent. *)
AfterFailure_keeps(request) == NoRequest

(* Only the policy is rolled back. *)
AfterFailure(request) ==
    IF request.op = "policy" THEN [request EXCEPT !.pc = "rollback"] ELSE NoRequest

Persist(h) ==
    LET request == handler[h] IN
    /\ ~Idle(request) /\ request.pc = "persist"
    /\ MayPersist(request)
    /\ config' = Persisted(request)
    /\ handler' = [handler EXCEPT ![h] = NoRequest]
    /\ UNCHANGED <<agent, draft, bounds, excused>>

(* Refused, or the file cannot be written. *)
PersistFails(h) ==
    LET request == handler[h] IN
    /\ ~Idle(request) /\ request.pc = "persist"
    /\ \/ ~MayPersist(request) /\ UNCHANGED <<bounds, excused>>
       \/ /\ Fault /\ UNCHANGED <<resets, edits>>
          /\ excused' = IF request.op = "policy" THEN excused
                        ELSE excused \cup {request.agent}
    /\ handler' = [handler EXCEPT ![h] = AfterFailure(request)]
    /\ UNCHANGED <<config, agent, draft>>

(* set_auto_update with the policy read at the beginning; when that fails  *)
(* too, it is logged.                                                      *)
RollBack(h) ==
    LET request == handler[h] IN
    /\ ~Idle(request) /\ request.pc = "rollback"
    /\ \/ /\ Answers(request)
          /\ agent' = [agent EXCEPT ![request.agent].auto_update = request.previous]
          /\ UNCHANGED excused
       \/ UNCHANGED agent /\ excused' = excused \cup {request.agent}
    /\ handler' = [handler EXCEPT ![h] = NoRequest]
    /\ UNCHANGED <<config, draft, bounds>>

---------------------------------------------------------------------------
(* Edits of the whole configuration *)

GetConfig == draft' = config /\ UNCHANGED <<config, agent, handler, bounds, excused>>

(* A new client is added without a pairing; any can be taken off the list. *)
EditDraft ==
    /\ \E c \in Clients :
        \/ \E a \in Agents : draft' = [draft EXCEPT ![c].host = a]
        \/ draft' = [draft EXCEPT ![c].listed = ~@, ![c].agent = NoAgent,
                                  ![c].auto_update = FALSE]
    /\ draft' # draft
    /\ UNCHANGED <<config, agent, handler, bounds, excused>>

(* Faulty: only what leaves the list is looked at. *)
Unchanged_removed(submitted) ==
    \A c \in Clients : ~submitted[c].listed => config[c].agent = NoAgent

(* persist_config: pairing and policy are those of the file as it is now.  *)
Unchanged(submitted) ==
    \A c \in Clients :
        /\ submitted[c].agent = config[c].agent
        /\ submitted[c].listed => submitted[c].auto_update = config[c].auto_update

PutConfig ==
    /\ edits < MaxEdits /\ edits' = edits + 1
    /\ Unchanged(draft)
    /\ config' = draft
    /\ excused' = excused \cup UNION {Overlapping(c) : c \in
            {c \in Clients : draft[c] # config[c]}}
    /\ UNCHANGED <<agent, handler, draft, faults, resets>>

---------------------------------------------------------------------------
(* reset-pairing on the device *)
ResetPairing(a) ==
    /\ resets < MaxResets /\ resets' = resets + 1
    /\ agent' = [agent EXCEPT ![a] = [paired |-> FALSE, auto_update |-> FALSE]]
    /\ excused' = excused \cup {a}
    /\ UNCHANGED <<config, handler, draft, faults, edits>>

(* The process dies with its requests. *)
Crash ==
    /\ Fault
    /\ handler' = [h \in Handlers |-> NoRequest]
    /\ excused' = excused \cup {handler[h].agent : h \in Handlers}
    /\ UNCHANGED <<config, agent, draft, resets, edits>>

Next ==
    \/ \E h \in Handlers :
        \/ \E c \in Clients :
            \/ BeginPair(h, c) \/ BeginUnpair(h, c) \/ ForgetLocally(h, c)
            \/ \E enabled \in BOOLEAN : BeginPolicy(h, c, enabled)
        \/ Ask(h) \/ AgentError(h) \/ Persist(h) \/ PersistFails(h) \/ RollBack(h)
    \/ GetConfig \/ EditDraft \/ PutConfig
    \/ \E a \in Agents : ResetPairing(a)
    \/ Crash

Spec == Init /\ [][Next]_vars
---------------------------------------------------------------------------
Types ==
    /\ {config, draft} \subseteq Configs
    /\ agent \in [Agents -> [paired : BOOLEAN, auto_update : BOOLEAN]]
    /\ handler \in [Handlers -> Requests]
    /\ {faults, resets, edits} \subseteq Nat
    /\ excused \subseteq MaybeAgent

(* In particular a client that was taken off the list while a request was  *)
(* made of its agent does not get a pairing, and only a policy is ever     *)
(* rolled back.                                                            *)
TypeOK ==
    /\ Types
    /\ \A c \in Clients : ~config[c].listed => config[c].agent = NoAgent
    /\ \A h \in Handlers :
          handler[h].op \in {"pair", "unpair"} => handler[h].pc # "rollback"

(* No edit undoes a pairing: whatever an editor saves, from however old a  *)
(* copy, pairings and policies change only while a request about the       *)
(* client is in progress.  In the meantime any change is let through: what *)
(* a request makes of the client is for the properties below.              *)
EditsKeepPairings ==
    [][\A c \in Clients :
        \/ config'[c].agent = config[c].agent
           /\ config'[c].auto_update = config[c].auto_update
        \/ Working(c) # {}]_vars

(* A request between its answer and its change of the configuration. *)
Persisting(op, a) ==
    \E h \in Handlers : LET request == handler[h] IN
        request.op = op /\ request.pc = "persist" /\ request.agent = a

(* docs/agent.md: pairing and unpairing change both sides.  An agent that  *)
(* the configuration names is paired, and one that is paired is named,     *)
(* except while a request is between the two.                              *)
ConfiguredIsPaired ==
    \A c \in Clients : LET a == config[c].agent IN
        a = NoAgent \/ a \in excused \/ agent[a].paired \/ Persisting("unpair", a)

PairedIsConfigured ==
    \A a \in Agents \ excused :
        agent[a].paired =>
            Persisting("pair", a) \/ \E c \in Clients : config[c].agent = a

(* Configuration and agent hold the same policy when no request about the  *)
(* client is in progress.                                                  *)
PoliciesAgree ==
    \A c \in Clients : LET a == config[c].agent IN
        a = NoAgent \/ a \in excused \/ Working(c) # {}
        \/ config[c].auto_update = agent[a].auto_update

===========================================================================
