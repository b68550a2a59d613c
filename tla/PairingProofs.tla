--------------------------- MODULE PairingProofs ---------------------------
(***************************************************************************)
(* Configuration and agents agree on pairing and policy, for any number of *)
(* clients, agents, requests, faults and edits.                            *)
(***************************************************************************)
EXTENDS Pairing, TLAPS

(* A client without an agent has no policy, nor has an agent without a     *)
(* controller; a request names a client and an agent.                      *)
Shape ==
    /\ \A c \in Clients :
        /\ config[c].agent = NoAgent => ~config[c].auto_update
        /\ ~config[c].listed => config[c].agent = NoAgent
        /\ ~draft[c].listed => draft[c].agent = NoAgent /\ ~draft[c].auto_update
    /\ \A a \in Agents : ~agent[a].paired => ~agent[a].auto_update
    /\ \A h \in Handlers : ~Idle(handler[h]) =>
        /\ handler[h].client \in Clients /\ handler[h].agent \in Agents
        /\ handler[h].pc = "rollback" => handler[h].op = "policy"

(* The client is still as a request read it, and nobody else works on it,  *)
(* unless its agent is excused.                                            *)
AsRead(h) ==
    LET request == handler[h]
        entry == config[request.client] IN
    /\ Working(request.client) = {h}
    /\ entry.listed
    /\ entry.agent = IF request.op = "pair" THEN NoAgent ELSE request.agent
    /\ entry.auto_update = request.previous

Alone ==
    \A h \in Handlers :
        ~Idle(handler[h]) /\ handler[h].agent \notin excused => AsRead(h)

(* Requests about a client are about its agent. *)
Matching ==
    \A c \in Clients : config[c].agent \in Agents \ excused =>
        \A h \in Working(c) : handler[h].agent = config[c].agent

At(h, op, pc, c, a) ==
    /\ handler[h].op = op /\ handler[h].pc = pc
    /\ handler[h].client = c /\ handler[h].agent = a

(* The client whose the agent is: it is named, unless the agent was told   *)
(* already that it is not any more, or it will be, as the agent was told.  *)
Holds(c, a) ==
    \/ /\ config[c].agent = a
       /\ \A h \in Handlers : ~At(h, "unpair", "persist", c, a)
    \/ \E h \in Handlers : At(h, "pair", "persist", c, a)

OneHolder ==
    \A a \in Agents \ excused :
        /\ agent[a].paired <=> \E c \in Clients : Holds(c, a)
        /\ \A c, d \in Clients : Holds(c, a) /\ Holds(d, a) => c = d

(* What a request told its agent is what the agent holds. *)
Told ==
    \A h \in Handlers : LET request == handler[h] IN
        /\ ~Idle(request) /\ request.agent \notin excused
        /\ request.pc # "remote"
        => /\ request.op = "policy" =>
                agent[request.agent].auto_update = request.enabled
           /\ request.op = "pair" => ~agent[request.agent].auto_update

(* Policies agree as long as no request about the client told the agent.   *)
Agreed ==
    \A c \in Clients :
        /\ config[c].agent \in Agents \ excused
        /\ \A h \in Working(c) : handler[h].pc = "remote"
        => config[c].auto_update = agent[config[c].agent].auto_update

IInv == Types /\ Shape /\ Alone /\ Matching /\ OneHolder /\ Told /\ Agreed

---------------------------------------------------------------------------
(* Types *)

LEMMA InitType == Init => Types
<1> SUFFICES ASSUME Init PROVE Types
  OBVIOUS
<1>1. config \in Configs /\ draft \in Configs
  BY DEF Init, Configs, Entries, MaybeAgent
<1>2. agent \in [Agents -> [paired : BOOLEAN, auto_update : BOOLEAN]]
  BY DEF Init
<1>3. NoRequest \in Requests
  BY DEF NoRequest, Requests, MaybeAgent
<1> QED BY <1>1, <1>2, <1>3 DEF Init, Types

LEMMA NoRequestType == NoRequest \in Requests /\ Idle(NoRequest)
BY DEF NoRequest, Requests, MaybeAgent, Idle

(* What a client, an agent and a request consist of. *)
LEMMA Parts ==
    ASSUME Types
    PROVE  /\ \A c \in Clients :
                /\ config[c].agent \in MaybeAgent /\ config[c].host \in Agents
                /\ {config[c].listed, config[c].auto_update} \subseteq BOOLEAN
                /\ draft[c].agent \in MaybeAgent
                /\ {draft[c].listed, draft[c].auto_update} \subseteq BOOLEAN
           /\ \A a \in Agents :
                {agent[a].paired, agent[a].auto_update} \subseteq BOOLEAN
           /\ \A h \in Handlers :
                /\ handler[h].op \in {"idle", "pair", "policy", "unpair"}
                /\ handler[h].pc \in {"remote", "persist", "rollback"}
                /\ {handler[h].enabled, handler[h].previous} \subseteq BOOLEAN
BY DEF Types, Configs, Entries, Requests

(* Ending or advancing a request. *)
LEMMA OneRequest ==
    ASSUME Types, NEW h \in Handlers, NEW new \in Requests,
           handler' = [handler EXCEPT ![h] = new]
    PROVE  /\ handler' \in [Handlers -> Requests]
           /\ \A g \in Handlers : handler'[g] = IF g = h THEN new ELSE handler[g]
BY DEF Types

LEMMA Advanced ==
    ASSUME NEW request \in Requests, NEW pc \in {"remote", "persist", "rollback"}
    PROVE  LET new == [request EXCEPT !.pc = pc] IN
           /\ new \in Requests /\ new.pc = pc /\ new.op = request.op
           /\ new.client = request.client /\ new.agent = request.agent
           /\ new.enabled = request.enabled /\ new.previous = request.previous
           /\ new.host = request.host
BY DEF Requests

(* What an agent makes of a request. *)
LEMMA AskedEffect ==
    ASSUME Types, NEW h \in Handlers, handler[h].agent \in Agents, ~Idle(handler[h])
    PROVE  LET a == handler[h].agent
               new == Remote(handler[h]) IN
           /\ new \in [Agents -> [paired : BOOLEAN, auto_update : BOOLEAN]]
           /\ \A b \in Agents \ {a} : new[b] = agent[b]
           /\ handler[h].op = "pair" =>
                new[a].paired /\ new[a].auto_update = agent[a].auto_update
           /\ handler[h].op = "policy" =>
                /\ new[a].paired = agent[a].paired
                /\ new[a].auto_update = handler[h].enabled
           /\ handler[h].op = "unpair" => ~new[a].paired /\ ~new[a].auto_update
<1> DEFINE a == handler[h].agent
<1>1. handler[h].op \in {"pair", "policy", "unpair"} /\ handler[h].enabled \in BOOLEAN
  BY DEF Types, Requests, Idle
<1>2. agent[a] \in [paired : BOOLEAN, auto_update : BOOLEAN]
  BY DEF Types
<1>3. /\ Asked(handler[h]) \in [paired : BOOLEAN, auto_update : BOOLEAN]
      /\ handler[h].op = "pair" =>
            /\ Asked(handler[h]).paired
            /\ Asked(handler[h]).auto_update = agent[a].auto_update
      /\ handler[h].op = "policy" =>
            /\ Asked(handler[h]).paired = agent[a].paired
            /\ Asked(handler[h]).auto_update = handler[h].enabled
      /\ handler[h].op = "unpair" =>
            ~Asked(handler[h]).paired /\ ~Asked(handler[h]).auto_update
  BY <1>1, <1>2 DEF Asked
<1>4. /\ Remote(handler[h]) = [agent EXCEPT ![a] = Asked(handler[h])]
      /\ agent \in [Agents -> [paired : BOOLEAN, auto_update : BOOLEAN]]
  BY DEF Remote, Types
<1>5. Remote(handler[h])[a] = Asked(handler[h])
  BY <1>4
<1> QED BY <1>3, <1>4, <1>5

(* What becomes of the configuration. *)
LEMMA PersistedEffect ==
    ASSUME Types, NEW h \in Handlers, ~Idle(handler[h]),
           handler[h].client \in Clients, handler[h].agent \in Agents
    PROVE  LET c == handler[h].client
               new == Persisted(handler[h]) IN
           /\ new \in Configs
           /\ \A d \in Clients \ {c} : new[d] = config[d]
           /\ new[c].listed = config[c].listed
           /\ handler[h].op = "pair" =>
                /\ new[c].agent = handler[h].agent
                /\ new[c].auto_update = config[c].auto_update
           /\ handler[h].op = "policy" =>
                /\ new[c].agent = config[c].agent
                /\ new[c].auto_update = handler[h].enabled
           /\ handler[h].op = "unpair" =>
                new[c].agent = NoAgent /\ ~new[c].auto_update
<1> DEFINE c == handler[h].client
<1>1. /\ handler[h].op \in {"pair", "policy", "unpair"} /\ handler[h].enabled \in BOOLEAN
      /\ config \in [Clients -> Entries] /\ config[c] \in Entries
  BY DEF Types, Requests, Configs, Idle
<1>2. CASE handler[h].op = "pair"
  <2>1. Persisted(handler[h]) = [config EXCEPT ![c].agent = handler[h].agent]
    BY <1>2 DEF Persisted
  <2> QED BY <1>1, <1>2, <2>1 DEF Configs, Entries, MaybeAgent
<1>3. CASE handler[h].op = "policy"
  <2>1. Persisted(handler[h]) = [config EXCEPT ![c].auto_update = handler[h].enabled]
    BY <1>3 DEF Persisted
  <2> QED BY <1>1, <1>3, <2>1 DEF Configs, Entries, MaybeAgent
<1>4. CASE handler[h].op = "unpair"
  <2>1. Persisted(handler[h]) =
            [config EXCEPT ![c].agent = NoAgent, ![c].auto_update = FALSE]
    BY <1>4 DEF Persisted
  <2> QED BY <1>1, <1>4, <2>1 DEF Configs, Entries, MaybeAgent
<1> QED BY <1>1, <1>2, <1>3, <1>4

---------------------------------------------------------------------------
(* Whose the agent is *)

LEMMA NamedHolds ==
    ASSUME NEW d \in Clients, \A g \in Working(d) : handler[g].pc = "remote"
    PROVE  Holds(d, config[d].agent)
BY DEF Holds, At, Working, Idle

LEMMA RequestHolds ==
    ASSUME IInv, NEW h \in Handlers, ~Idle(handler[h]),
           handler[h].agent \notin excused,
           \/ handler[h].op = "policy"
           \/ handler[h].op = "unpair" /\ handler[h].pc = "remote"
           \/ handler[h].op = "pair" /\ handler[h].pc = "persist"
    PROVE  /\ handler[h].client \in Clients /\ handler[h].agent \in Agents
           /\ Holds(handler[h].client, handler[h].agent)
<1>1. AsRead(h) /\ handler[h].client \in Clients /\ handler[h].agent \in Agents
  BY DEF IInv, Alone, Shape
<1>2. CASE handler[h].op = "pair"
  BY <1>1, <1>2 DEF Holds, At
<1>3. CASE handler[h].op # "pair"
  <2>1. config[handler[h].client].agent = handler[h].agent
    BY <1>1, <1>3 DEF AsRead
  <2>2. \A g \in Handlers : ~At(g, "unpair", "persist", handler[h].client, handler[h].agent)
    <3> SUFFICES ASSUME NEW g \in Handlers,
                        At(g, "unpair", "persist", handler[h].client, handler[h].agent)
                 PROVE  FALSE
      OBVIOUS
    <3>1. g \in Working(handler[h].client)
      BY DEF At, Working, Idle
    <3>2. g = h
      BY <1>1, <3>1 DEF AsRead
    <3> QED BY <3>2 DEF At
  <2> QED BY <1>1, <2>1, <2>2 DEF Holds
<1> QED BY <1>2, <1>3

(* Of two requests about the same client or agent neither has told it.     *)
LEMMA Exclusive ==
    ASSUME IInv, NEW h \in Handlers, NEW g \in Handlers, g # h,
           ~Idle(handler[h]), ~Idle(handler[g]),
           handler[g].agent = handler[h].agent, handler[h].agent \notin excused,
           \/ handler[g].op = "policy"
           \/ handler[g].op = "pair" /\ handler[g].pc = "persist",
           \/ handler[h].op = "policy"
           \/ handler[h].op = "unpair" /\ handler[h].pc = "remote"
           \/ handler[h].op = "pair" /\ ~agent[handler[h].agent].paired
    PROVE  FALSE
<1>1. /\ Holds(handler[g].client, handler[h].agent)
      /\ handler[g].client \in Clients /\ handler[h].agent \in Agents
  BY RequestHolds
<1>2. CASE handler[h].op = "pair" /\ ~agent[handler[h].agent].paired
  BY <1>1, <1>2 DEF IInv, OneHolder
<1>3. CASE handler[h].op # "pair"
  <2>1. Holds(handler[h].client, handler[h].agent) /\ handler[h].client \in Clients
    BY <1>3, RequestHolds
  <2>2. handler[h].client = handler[g].client
    BY <1>1, <2>1 DEF IInv, OneHolder
  <2>3. Working(handler[h].client) = {h}
    BY DEF IInv, Alone, AsRead
  <2>4. g \in Working(handler[h].client)
    BY <2>2 DEF Working
  <2> QED BY <2>3, <2>4
<1> QED BY <1>2, <1>3

---------------------------------------------------------------------------
(* Steps that end requests which told their agent nothing, or whose agent  *)
(* is excused.  A crash ends them all; a reset or a new draft ends none.   *)
LEMMA QuietKeeps ==
    ASSUME IInv, Types', NEW D \in SUBSET Handlers,
           config' = config, excused \subseteq excused',
           \A h \in Handlers :
                handler'[h] = IF h \in D THEN NoRequest ELSE handler[h],
           \A h \in D : ~Idle(handler[h]) /\ handler[h].pc # "remote" =>
                handler[h].agent \in excused',
           \A a \in Agents : a \in excused' \/ agent'[a] = agent[a],
           \A a \in Agents : ~agent'[a].paired => ~agent'[a].auto_update,
           \A c \in Clients : ~draft'[c].listed =>
                draft'[c].agent = NoAgent /\ ~draft'[c].auto_update
    PROVE  IInv'
<1>1. \A h \in Handlers : ~Idle(handler'[h]) =>
        h \notin D /\ handler'[h] = handler[h] /\ ~Idle(handler[h])
  BY NoRequestType
<1>2. \A c \in Clients : Working(c)' \subseteq Working(c)
  BY <1>1 DEF Working
<1>3. Shape'
  BY <1>1 DEF IInv, Shape
<1>4. Alone'
  <2> SUFFICES ASSUME NEW h \in Handlers, ~Idle(handler'[h]), handler'[h].agent \notin excused'
               PROVE  AsRead(h)'
    BY DEF Alone
  <2>1. AsRead(h) /\ handler'[h] = handler[h] /\ handler[h].client \in Clients
    BY <1>1 DEF IInv, Alone, Shape
  <2>2. Working(handler[h].client)' = {h}
    BY <1>1, <1>2, <2>1 DEF AsRead, Working
  <2> QED BY <2>1, <2>2 DEF AsRead
<1>5. Matching'
  BY <1>1, <1>2 DEF IInv, Matching, Working
<1>6. OneHolder'
  <2>1. ASSUME NEW a \in Agents \ excused', NEW c \in Clients
        PROVE  Holds(c, a)' <=> Holds(c, a)
    <3>1. ASSUME NEW h \in Handlers, NEW op \in {"pair", "unpair"}
          PROVE  At(h, op, "persist", c, a)' <=> At(h, op, "persist", c, a)
      BY <2>1, NoRequestType DEF At, Idle
    <3> QED BY <3>1 DEF Holds
  <2>2. \A a \in Agents \ excused' : agent'[a] = agent[a]
    OBVIOUS
  <2> QED BY <2>1, <2>2 DEF IInv, OneHolder
<1>7. Told'
  BY <1>1 DEF IInv, Told, Shape
<1>8. Agreed'
  <2> SUFFICES ASSUME NEW c \in Clients, config[c].agent \in Agents \ excused',
                      \A h \in Working(c)' : handler'[h].pc = "remote"
               PROVE  config[c].auto_update = agent'[config[c].agent].auto_update
    BY DEF Agreed
  <2>1. \A h \in Working(c) : handler[h].pc = "remote"
    BY <1>1 DEF IInv, Matching, Working
  <2> QED BY <2>1 DEF IInv, Agreed
<1> QED BY <1>3, <1>4, <1>5, <1>6, <1>7, <1>8 DEF IInv

LEMMA StillKeeps ==
    ASSUME IInv, Types', UNCHANGED <<config, handler>>, excused \subseteq excused',
           \A a \in Agents : a \in excused' \/ agent'[a] = agent[a],
           \A a \in Agents : ~agent'[a].paired => ~agent'[a].auto_update,
           \A c \in Clients : ~draft'[c].listed =>
                draft'[c].agent = NoAgent /\ ~draft'[c].auto_update
    PROVE  IInv'
<1> DEFINE ended == {}
<1>1. /\ ended \in SUBSET Handlers
      /\ \A h \in Handlers : handler'[h] = IF h \in ended THEN NoRequest ELSE handler[h]
      /\ \A h \in ended : ~Idle(handler[h]) /\ handler[h].pc # "remote" =>
            handler[h].agent \in excused'
  OBVIOUS
<1> HIDE DEF ended
<1> QED BY <1>1, QuietKeeps

(* A request begins. *)
LEMMA BeginKeeps ==
    ASSUME IInv, Types', NEW h \in Handlers, NEW c \in Clients, NEW a \in Agents,
           Idle(handler[h]), config[c].listed,
           UNCHANGED <<config, agent, draft>>,
           excused \cup Overlapping(c) \subseteq excused',
           \A g \in Handlers \ {h} : handler'[g] = handler[g],
           ~Idle(handler'[h]), handler'[h].client = c, handler'[h].agent = a,
           handler'[h].previous = config[c].auto_update,
           handler'[h].pc # "rollback",
           handler'[h].pc = "remote" \/ a \in excused',
           \/ /\ handler'[h].op = "pair" /\ a = config[c].host
              /\ config[c].agent = NoAgent \/ {config[c].agent, a} \subseteq excused'
           \/ handler'[h].op # "pair" /\ a = config[c].agent
    PROVE  IInv'
<1>1. \A d \in Clients : Working(d)' = IF d = c THEN Working(d) \cup {h} ELSE Working(d)
  BY DEF Working
<1>2. ASSUME NEW b \in {config[c].host, config[c].agent} \cup {handler[g].agent : g \in Working(c)},
             b \notin excused'
      PROVE  Working(c) = {}
  BY <1>2 DEF Overlapping
<1>3. Shape'
  BY DEF IInv, Shape
<1>4. Alone'
  <2> SUFFICES ASSUME NEW g \in Handlers, ~Idle(handler'[g]), handler'[g].agent \notin excused'
               PROVE  AsRead(g)'
    BY DEF Alone
  <2>1. CASE g = h
    <3>1. Working(c) = {}
      BY <1>2, <2>1
    <3>2. Working(c)' = {h}
      BY <1>1, <3>1
    <3> QED BY <2>1, <3>2 DEF AsRead
  <2>2. CASE g # h
    <3>1. AsRead(g) /\ handler'[g] = handler[g] /\ handler[g].client \in Clients
      BY <2>2 DEF IInv, Alone, Shape
    <3>2. handler[g].client # c
      BY <1>2, <3>1 DEF Working
    <3> QED BY <1>1, <3>1, <3>2 DEF AsRead
  <2> QED BY <2>1, <2>2
<1>5. Matching'
  <2> SUFFICES ASSUME NEW d \in Clients, config[d].agent \in Agents \ excused',
                      NEW g \in Working(d)'
               PROVE  handler'[g].agent = config[d].agent
    BY DEF Matching
  <2>1. CASE d = c
    BY <1>1, <1>2, <2>1, PairingAssumption DEF IInv
  <2>2. CASE d # c
    <3>1. g \in Working(d) /\ g # h /\ g \in Handlers
      BY <1>1, <2>2 DEF Working
    <3> QED BY <3>1 DEF IInv, Matching
  <2> QED BY <2>1, <2>2
<1>6. OneHolder'
  <2>1. ASSUME NEW b \in Agents \ excused', NEW d \in Clients
        PROVE  Holds(d, b)' <=> Holds(d, b)
    <3>1. ASSUME NEW g \in Handlers, NEW op \in {"pair", "unpair"}
          PROVE  At(g, op, "persist", d, b)' <=> At(g, op, "persist", d, b)
      BY <2>1 DEF At, Idle
    <3> QED BY <3>1 DEF Holds
  <2> QED BY <2>1 DEF IInv, OneHolder
<1>7. Told'
  BY DEF IInv, Told
<1>8. Agreed'
  <2>1. \A d \in Clients : \A g \in Working(d) :
            g \in Working(d)' /\ handler'[g] = handler[g]
    BY <1>1 DEF Working
  <2> QED BY <2>1 DEF IInv, Agreed
<1> QED BY <1>3, <1>4, <1>5, <1>6, <1>7, <1>8 DEF IInv

---------------------------------------------------------------------------
(* The agent did what it was asked. *)
LEMMA AskKeeps == ASSUME IInv, Types', NEW h \in Handlers, Ask(h) PROVE IInv'
<1>1. ~Idle(handler[h])
  BY DEF Ask
<1> PICK a \in Agents, c \in Clients : a = handler[h].agent /\ c = handler[h].client
  BY <1>1 DEF IInv, Shape
<1>2. /\ ~Idle(handler[h]) /\ handler[h].pc = "remote" /\ Agrees(handler[h])
      /\ agent' = Remote(handler[h])
      /\ handler' = [handler EXCEPT ![h].pc = "persist"]
      /\ UNCHANGED <<config, draft, bounds, excused>>
  BY DEF Ask
<1>3. /\ \A b \in Agents \ {a} : agent'[b] = agent[b]
      /\ handler[h].op = "pair" =>
            /\ ~agent[a].paired /\ agent'[a].paired
            /\ agent'[a].auto_update = agent[a].auto_update
      /\ handler[h].op = "policy" =>
            /\ agent[a].paired /\ agent'[a].paired
            /\ agent'[a].auto_update = handler[h].enabled
      /\ handler[h].op = "unpair" =>
            agent[a].paired /\ ~agent'[a].paired /\ ~agent'[a].auto_update
  BY <1>2, AskedEffect DEF IInv, Agrees, Answers
<1>4. handler[h].op \in {"pair", "policy", "unpair"}
  BY <1>2, Parts DEF IInv, Idle
<1>5. \A g \in Handlers :
        /\ handler'[g].op = handler[g].op /\ handler'[g].client = handler[g].client
        /\ handler'[g].agent = handler[g].agent
        /\ handler'[g].enabled = handler[g].enabled
        /\ handler'[g].previous = handler[g].previous
        /\ handler'[g].pc = IF g = h THEN "persist" ELSE handler[g].pc
  <2>1. handler \in [Handlers -> Requests] /\ handler[h] \in Requests
    BY DEF IInv, Types
  <2>2. handler' = [handler EXCEPT ![h] = [handler[h] EXCEPT !.pc = "persist"]]
    BY <1>2
  <2> QED BY <2>1, <2>2, Advanced
<1>6. \A d \in Clients : Working(d)' = Working(d)
  BY <1>5 DEF Working, Idle
<1>7. Shape'
  <2>1. \A b \in Agents : ~agent'[b].paired => ~agent'[b].auto_update
    BY <1>3, <1>4 DEF IInv, Shape
  <2> QED BY <1>2, <1>5, <2>1 DEF IInv, Shape, Idle
<1>8. Alone' /\ Matching'
  <2>1. Alone'
    <3> SUFFICES ASSUME NEW g \in Handlers, ~Idle(handler'[g]), handler'[g].agent \notin excused'
                 PROVE  AsRead(g)'
      BY DEF Alone
    <3>1. AsRead(g) /\ handler[g].client \in Clients
      BY <1>2, <1>5 DEF IInv, Alone, Shape, Idle
    <3> PICK d \in Clients : d = handler[g].client
      BY <3>1
    <3>2. Working(d)' = {g} /\ handler'[g].client = d
      BY <1>5, <1>6, <3>1 DEF AsRead
    <3> QED BY <1>2, <1>5, <3>1, <3>2 DEF AsRead
  <2>2. Matching'
    BY <1>2, <1>5, <1>6 DEF IInv, Matching, Working
  <2> QED BY <2>1, <2>2
<1>9. OneHolder'
  <2>1. ASSUME NEW b \in Agents, NEW d \in Clients, NEW g \in Handlers,
               NEW op \in {"pair", "unpair"}
        PROVE  At(g, op, "persist", d, b)' <=>
                \/ At(g, op, "persist", d, b)
                \/ g = h /\ op = handler[h].op /\ d = c /\ b = a
    BY <1>2, <1>5 DEF At
  <2>2. ASSUME NEW b \in Agents, NEW d \in Clients, b # a \/ handler[h].op = "policy"
        PROVE  Holds(d, b)' <=> Holds(d, b)
    BY <1>2, <2>1, <2>2 DEF Holds
  <2>3. ASSUME a \notin excused, handler[h].op = "pair", NEW d \in Clients
        PROVE  Holds(d, a)' <=> d = c
    <3>1. ~Holds(d, a)
      BY <1>3, <2>3 DEF IInv, OneHolder
    <3>2. Holds(c, a)'
      BY <2>1, <2>3 DEF Holds
    <3>3. Holds(d, a)' => d = c
      BY <1>2, <2>1, <2>3, <3>1 DEF Holds
    <3> QED BY <3>2, <3>3
  <2>4. ASSUME a \notin excused, handler[h].op = "unpair", NEW d \in Clients
        PROVE  ~Holds(d, a)'
    <3>1. Holds(c, a) /\ Working(c) = {h}
      BY <1>2, <2>4, RequestHolds DEF IInv, Alone, AsRead
    <3>2. CASE d = c
      <4>1. At(h, "unpair", "persist", c, a)'
        BY <2>1, <2>4
      <4>2. \A g \in Handlers : ~At(g, "pair", "persist", c, a)'
        <5> SUFFICES ASSUME NEW g \in Handlers, At(g, "pair", "persist", c, a)'
                     PROVE  FALSE
          BY <1>5
        <5>1. At(g, "pair", "persist", c, a)
          BY <2>1, <2>4
        <5>2. g \in Working(c)
          BY <5>1 DEF At, Working, Idle
        <5> QED BY <2>4, <3>1, <5>1, <5>2 DEF At
      <4> QED BY <3>2, <4>1, <4>2, <1>5 DEF Holds
    <3>3. CASE d # c
      <4>1. ~Holds(d, a)
        BY <2>4, <3>1, <3>3 DEF IInv, OneHolder
      <4> QED BY <1>2, <2>1, <2>4, <3>3, <4>1 DEF Holds
    <3> QED BY <3>2, <3>3
  <2> SUFFICES ASSUME NEW b \in Agents \ excused
               PROVE  /\ agent'[b].paired <=> \E d \in Clients : Holds(d, b)'
                      /\ \A d, e \in Clients : Holds(d, b)' /\ Holds(e, b)' => d = e
    BY <1>2 DEF OneHolder
  <2>5. CASE b # a
    BY <1>3, <2>2, <2>5 DEF IInv, OneHolder
  <2>6. CASE b = a /\ handler[h].op = "policy"
    BY <1>3, <2>2, <2>6 DEF IInv, OneHolder
  <2>7. CASE b = a /\ handler[h].op = "pair"
    BY <1>3, <2>3, <2>7
  <2>8. CASE b = a /\ handler[h].op = "unpair"
    BY <1>3, <2>4, <2>8
  <2> QED BY <1>4, <2>5, <2>6, <2>7, <2>8
<1>10. Told'
  <2> SUFFICES ASSUME NEW g \in Handlers, ~Idle(handler[g]), handler[g].agent \notin excused,
                      handler'[g].pc # "remote"
               PROVE  LET b == handler[g].agent IN
                      /\ handler[g].op = "policy" => agent'[b].auto_update = handler[g].enabled
                      /\ handler[g].op = "pair" => ~agent'[b].auto_update
    BY <1>2, <1>5 DEF Told, Idle
  <2>1. CASE g = h
    BY <1>3, <2>1 DEF IInv, Shape
  <2>2. CASE g # h /\ handler[g].agent # a
    BY <1>3, <1>5, <2>2 DEF IInv, Told, Shape
  <2>3. CASE g # h /\ handler[g].agent = a /\ handler[g].op # "unpair"
    <3>1. handler[g].op = "pair" => handler[g].pc = "persist"
      BY <1>5, <2>3, Parts DEF IInv, Shape
    <3>2. handler[g].op \in {"pair", "policy"}
      BY <2>3, Parts DEF IInv, Idle
    <3> QED BY <1>2, <1>3, <1>4, <2>3, <3>1, <3>2, Exclusive
  <2>4. CASE handler[g].op = "unpair"
    BY <2>4
  <2> QED BY <2>1, <2>2, <2>3, <2>4
<1>11. Agreed'
  <2> SUFFICES ASSUME NEW d \in Clients, config[d].agent \in Agents \ excused,
                      \A g \in Working(d) : handler'[g].pc = "remote"
               PROVE  config[d].auto_update = agent'[config[d].agent].auto_update
    BY <1>2, <1>6 DEF Agreed
  <2>1. h \notin Working(d) /\ \A g \in Working(d) : handler[g].pc = "remote"
    BY <1>5 DEF Working
  <2>2. Holds(d, config[d].agent)
    BY <2>1, NamedHolds
  <2>3. CASE config[d].agent # a
    BY <1>3, <2>1, <2>3 DEF IInv, Agreed
  <2>4. CASE config[d].agent = a
    <3>1. agent[a].paired
      BY <2>2, <2>4 DEF IInv, OneHolder
    <3>2. Holds(c, a)
      BY <1>2, <1>3, <1>4, <2>4, <3>1, RequestHolds
    <3>3. d = c
      BY <2>2, <2>4, <3>2 DEF IInv, OneHolder
    <3>4. h \in Working(d)
      BY <1>2, <3>3 DEF Working
    <3> QED BY <2>1, <3>4
  <2> QED BY <2>3, <2>4
<1> QED BY <1>7, <1>8, <1>9, <1>10, <1>11 DEF IInv

---------------------------------------------------------------------------
(* The configuration is changed, and the request is done. *)
LEMMA PersistKeeps == ASSUME IInv, Types', NEW h \in Handlers, Persist(h) PROVE IInv'
<1>1. ~Idle(handler[h])
  BY DEF Persist
<1> PICK a \in Agents, c \in Clients : a = handler[h].agent /\ c = handler[h].client
  BY <1>1 DEF IInv, Shape
<1>2. /\ handler[h].pc = "persist" /\ MayPersist(handler[h])
      /\ config' = Persisted(handler[h])
      /\ handler' = [handler EXCEPT ![h] = NoRequest]
      /\ UNCHANGED <<agent, draft, excused>>
  BY DEF Persist
<1>3. /\ \A d \in Clients \ {c} : config'[d] = config[d]
      /\ config'[c].listed = config[c].listed
      /\ handler[h].op = "pair" =>
            config'[c].agent = a /\ config'[c].auto_update = config[c].auto_update
      /\ handler[h].op = "policy" =>
            /\ config[c].agent = a /\ config'[c].agent = a
            /\ config'[c].auto_update = handler[h].enabled
      /\ handler[h].op = "unpair" =>
            config'[c].agent = NoAgent /\ ~config'[c].auto_update
      /\ config[c].listed
  BY <1>1, <1>2, PersistedEffect DEF IInv, MayPersist
<1>4. handler[h].op \in {"pair", "policy", "unpair"}
  BY <1>1, Parts DEF IInv, Idle
<1>5. /\ \A g \in Handlers \ {h} : handler'[g] = handler[g]
      /\ handler'[h] = NoRequest /\ Idle(handler'[h])
  BY <1>2, OneRequest, NoRequestType DEF IInv
<1>6. /\ h \in Working(c)
      /\ \A d \in Clients : Working(d)' = Working(d) \ {h}
      /\ \A d \in Clients \ {c} : Working(d)' = Working(d)
  BY <1>1, <1>5 DEF Working
<1>7. a \notin excused => AsRead(h)
  BY <1>1 DEF IInv, Alone
<1>8. Shape'
  <2>1. \A d \in Clients :
            /\ config'[d].agent = NoAgent => ~config'[d].auto_update
            /\ ~config'[d].listed => config'[d].agent = NoAgent
    <3> SUFFICES ASSUME NEW d \in Clients
                 PROVE  /\ config'[d].agent = NoAgent => ~config'[d].auto_update
                        /\ ~config'[d].listed => config'[d].agent = NoAgent
      OBVIOUS
    <3>1. CASE d # c
      BY <1>3, <3>1 DEF IInv, Shape
    <3>2. CASE d = c /\ handler[h].op = "unpair"
      BY <1>3, <3>2
    <3>3. CASE d = c /\ handler[h].op # "unpair"
      <4>1. config'[c].agent = a /\ a # NoAgent
        BY <1>3, <1>4, <3>3, PairingAssumption
      <4>2. config'[c].listed
        BY <1>3
      <4> QED BY <3>3, <4>1, <4>2
    <3> QED BY <3>1, <3>2, <3>3
  <2> QED BY <1>2, <1>5, <2>1 DEF IInv, Shape
<1>9. Alone'
  <2> SUFFICES ASSUME NEW g \in Handlers, ~Idle(handler'[g]), handler'[g].agent \notin excused'
               PROVE  AsRead(g)'
    BY DEF Alone
  <2>1. g # h /\ handler'[g] = handler[g]
    BY <1>5
  <2>2. AsRead(g) /\ handler[g].client \in Clients
    BY <1>2, <2>1 DEF IInv, Alone, Shape
  <2>3. handler[g].client # c
    BY <1>6, <2>1, <2>2 DEF AsRead
  <2> QED BY <1>3, <1>6, <2>1, <2>2, <2>3 DEF AsRead
<1>10. Matching'
  <2> SUFFICES ASSUME NEW d \in Clients, config'[d].agent \in Agents \ excused,
                      NEW g \in Working(d)'
               PROVE  handler'[g].agent = config'[d].agent
    BY <1>2 DEF Matching
  <2>1. g \in Working(d) /\ g # h /\ handler'[g] = handler[g]
    BY <1>5, <1>6 DEF Working
  <2>2. CASE d # c
    BY <1>3, <2>1, <2>2 DEF IInv, Matching
  <2>3. CASE d = c /\ handler[h].op = "pair"
    BY <1>3, <1>7, <2>1, <2>3 DEF AsRead
  <2>4. CASE d = c /\ handler[h].op = "policy"
    BY <1>3, <2>1, <2>4 DEF IInv, Matching
  <2> QED BY <1>3, <1>4, <2>2, <2>3, <2>4, PairingAssumption
<1>11. OneHolder'
  <2>1. ASSUME NEW b \in Agents, NEW d \in Clients, NEW g \in Handlers,
               NEW op \in {"pair", "unpair"}
        PROVE  At(g, op, "persist", d, b)' <=> At(g, op, "persist", d, b) /\ g # h
    BY <1>5 DEF At, Idle
  <2>2. At(h, handler[h].op, "persist", c, a)
    BY <1>2 DEF At
  <2>3. ASSUME NEW b \in Agents \ excused, NEW d \in Clients, d # c
        PROVE  Holds(d, b)' <=> Holds(d, b)
    <3>1. ASSUME NEW g \in Handlers, NEW op \in {"pair", "unpair"}
          PROVE  At(g, op, "persist", d, b)' <=> At(g, op, "persist", d, b)
      BY <2>1, <2>3 DEF At
    <3> QED BY <1>3, <2>3, <3>1 DEF Holds
  <2>4. ASSUME NEW b \in Agents \ excused, b # a
        PROVE  Holds(c, b)' <=> Holds(c, b)
    <3>1. config[c].agent # b
      BY <1>6, <2>4 DEF IInv, Matching
    <3>2. config'[c].agent # b
      BY <1>3, <1>4, <2>4, <3>1, PairingAssumption
    <3>3. ASSUME NEW g \in Handlers
          PROVE  At(g, "pair", "persist", c, b)' <=> At(g, "pair", "persist", c, b)
      BY <2>1, <2>4 DEF At
    <3> QED BY <3>1, <3>2, <3>3 DEF Holds
  <2>5. ASSUME a \notin excused
        PROVE  Holds(c, a)' <=> Holds(c, a)
    <3>1. Working(c) = {h}
      BY <1>7, <2>5 DEF AsRead
    <3>2. \A g \in Handlers, op \in {"pair", "unpair"} :
            At(g, op, "persist", c, a) => g = h /\ op = handler[h].op
      BY <3>1 DEF At, Working, Idle
    <3>3. \A g \in Handlers, op \in {"pair", "unpair"} : ~At(g, op, "persist", c, a)'
      BY <2>1, <3>2
    <3>4. CASE handler[h].op = "pair"
      BY <1>3, <2>2, <3>3, <3>4 DEF Holds
    <3>5. CASE handler[h].op = "policy"
      BY <1>3, <3>2, <3>3, <3>5 DEF Holds
    <3>6. CASE handler[h].op = "unpair"
      BY <1>3, <2>2, <3>2, <3>3, <3>6, PairingAssumption DEF Holds
    <3> QED BY <1>4, <3>4, <3>5, <3>6
  <2>6. \A b \in Agents \ excused, d \in Clients : Holds(d, b)' <=> Holds(d, b)
    BY <2>3, <2>4, <2>5
  <2> QED BY <1>2, <2>6 DEF IInv, OneHolder
<1>12. Told'
  BY <1>2, <1>5 DEF IInv, Told
<1>13. Agreed'
  <2> SUFFICES ASSUME NEW d \in Clients, config'[d].agent \in Agents \ excused,
                      \A g \in Working(d)' : handler'[g].pc = "remote"
               PROVE  config'[d].auto_update = agent[config'[d].agent].auto_update
    BY <1>2 DEF Agreed
  <2>1. CASE d # c
    <3>1. \A g \in Working(d) : g # h /\ g \in Handlers /\ g \in Working(d)'
      BY <1>6, <2>1 DEF Working
    <3> QED BY <1>3, <1>5, <2>1, <3>1 DEF IInv, Agreed
  <2>2. CASE d = c /\ handler[h].op = "pair"
    <3>1. ~agent[a].auto_update
      BY <1>1, <1>2, <1>3, <2>2 DEF IInv, Told
    <3>2. ~config'[c].auto_update
      BY <1>3, <1>7, <2>2 DEF IInv, Shape, AsRead
    <3>3. agent[a].auto_update \in BOOLEAN /\ config'[c].auto_update \in BOOLEAN
      BY Parts DEF IInv, Types, Configs, Entries
    <3> QED BY <1>3, <2>2, <3>1, <3>2, <3>3
  <2>3. CASE d = c /\ handler[h].op = "policy"
    BY <1>1, <1>2, <1>3, <2>3 DEF IInv, Told
  <2> QED BY <1>3, <1>4, <2>1, <2>2, <2>3, PairingAssumption
<1> QED BY <1>8, <1>9, <1>10, <1>11, <1>12, <1>13 DEF IInv

(* The policy could not be saved: it is to be taken back. *)
LEMMA FailedPolicyKeeps ==
    ASSUME IInv, Types', NEW h \in Handlers, PersistFails(h), handler[h].op = "policy"
    PROVE  IInv'
<1>1. /\ ~Idle(handler[h]) /\ handler[h].pc = "persist"
      /\ handler' = [handler EXCEPT ![h] = [handler[h] EXCEPT !.pc = "rollback"]]
      /\ UNCHANGED <<config, agent, draft, excused>>
  BY DEF PersistFails, AfterFailure
<1>2. \A g \in Handlers :
        /\ handler'[g].op = handler[g].op /\ handler'[g].client = handler[g].client
        /\ handler'[g].agent = handler[g].agent
        /\ handler'[g].enabled = handler[g].enabled
        /\ handler'[g].previous = handler[g].previous
        /\ handler'[g].pc = IF g = h THEN "rollback" ELSE handler[g].pc
  <2>1. handler \in [Handlers -> Requests] /\ handler[h] \in Requests
    BY DEF IInv, Types
  <2> QED BY <1>1, <2>1, Advanced
<1>3. \A d \in Clients : Working(d)' = Working(d)
  BY <1>2 DEF Working, Idle
<1>4. Shape'
  BY <1>1, <1>2 DEF IInv, Shape, Idle
<1>5. Alone'
  <2> SUFFICES ASSUME NEW g \in Handlers, ~Idle(handler'[g]), handler'[g].agent \notin excused'
               PROVE  AsRead(g)'
    BY DEF Alone
  <2>1. AsRead(g) /\ handler[g].client \in Clients
    BY <1>1, <1>2 DEF IInv, Alone, Shape, Idle
  <2> PICK d \in Clients : d = handler[g].client
    BY <2>1
  <2>2. Working(d)' = {g} /\ handler'[g].client = d
    BY <1>2, <1>3, <2>1 DEF AsRead
  <2> QED BY <1>1, <1>2, <2>1, <2>2 DEF AsRead
<1>6. Matching'
  BY <1>1, <1>2, <1>3 DEF IInv, Matching, Working
<1>7. OneHolder'
  <2>1. ASSUME NEW b \in Agents, NEW d \in Clients
        PROVE  Holds(d, b)' <=> Holds(d, b)
    <3>1. ASSUME NEW g \in Handlers, NEW op \in {"pair", "unpair"}
          PROVE  At(g, op, "persist", d, b)' <=> At(g, op, "persist", d, b)
      BY <1>2 DEF At
    <3> QED BY <1>1, <3>1 DEF Holds
  <2> QED BY <1>1, <2>1 DEF IInv, OneHolder
<1>8. Told'
  BY <1>1, <1>2 DEF IInv, Told, Idle
<1>9. Agreed'
  <2>1. \A d \in Clients : \A g \in Working(d) :
            handler'[g].pc = "remote" => handler[g].pc = "remote"
    BY <1>2 DEF Working
  <2> QED BY <1>1, <1>3, <2>1 DEF IInv, Agreed
<1> QED BY <1>4, <1>5, <1>6, <1>7, <1>8, <1>9 DEF IInv

(* The agent took the policy back. *)
LEMMA RolledBackKeeps ==
    ASSUME IInv, Types', NEW h \in Handlers, ~Idle(handler[h]),
           handler[h].pc = "rollback", Answers(handler[h]),
           agent' = [agent EXCEPT ![handler[h].agent].auto_update = handler[h].previous],
           handler' = [handler EXCEPT ![h] = NoRequest],
           UNCHANGED <<config, draft, excused>>
    PROVE  IInv'
<1> PICK a \in Agents, c \in Clients : a = handler[h].agent /\ c = handler[h].client
  BY DEF IInv, Shape
<1>1. handler[h].op = "policy"
  BY DEF IInv, Shape
<1>2. /\ \A b \in Agents \ {a} : agent'[b] = agent[b]
      /\ agent[a].paired /\ agent'[a].paired
      /\ agent'[a].auto_update = handler[h].previous
  BY DEF IInv, Types, Answers
<1>3. /\ \A g \in Handlers \ {h} : handler'[g] = handler[g]
      /\ handler'[h] = NoRequest /\ Idle(handler'[h])
  BY OneRequest, NoRequestType DEF IInv
<1>4. \A b \in Agents : ~agent'[b].paired => ~agent'[b].auto_update
  BY <1>2 DEF IInv, Shape
<1>5. CASE a \in excused
  <2>1. \A g \in Handlers : handler'[g] = IF g \in {h} THEN NoRequest ELSE handler[g]
    BY <1>3
  <2>2. \A b \in Agents : b \in excused' \/ agent'[b] = agent[b]
    BY <1>2, <1>5
  <2>3. \A d \in Clients : ~draft'[d].listed =>
            draft'[d].agent = NoAgent /\ ~draft'[d].auto_update
    BY DEF IInv, Shape
  <2> QED BY <1>4, <1>5, <2>1, <2>2, <2>3, QuietKeeps
<1>6. CASE a \notin excused
  <2>1. /\ AsRead(h) /\ Holds(c, a)
    BY <1>1, <1>6, RequestHolds DEF IInv, Alone
  <2>2. \A d \in Clients : Working(d)' = IF d = c THEN {} ELSE Working(d)
    BY <1>3, <2>1 DEF Working, AsRead
  <2>3. Shape'
    BY <1>3, <1>4 DEF IInv, Shape
  <2>4. Alone'
    <3> SUFFICES ASSUME NEW g \in Handlers, ~Idle(handler'[g]), handler'[g].agent \notin excused'
                 PROVE  AsRead(g)'
      BY DEF Alone
    <3>1. g # h /\ handler'[g] = handler[g]
      BY <1>3
    <3>2. AsRead(g) /\ handler[g].client \in Clients
      BY <3>1 DEF IInv, Alone, Shape
    <3>3. handler[g].client # c
      BY <2>1, <3>1, <3>2 DEF AsRead
    <3> QED BY <2>2, <3>1, <3>2, <3>3 DEF AsRead
  <2>5. Matching'
    <3>1. \A d \in Clients : \A g \in Working(d)' :
            g \in Working(d) /\ handler'[g] = handler[g]
      BY <1>3, <2>2 DEF Working
    <3> QED BY <3>1 DEF IInv, Matching
  <2>6. ASSUME NEW b \in Agents, NEW d \in Clients
        PROVE  Holds(d, b)' <=> Holds(d, b)
    <3>1. ASSUME NEW g \in Handlers, NEW op \in {"pair", "unpair"}
          PROVE  At(g, op, "persist", d, b)' <=> At(g, op, "persist", d, b)
      BY <1>1, <1>3 DEF At, Idle
    <3> QED BY <3>1 DEF Holds
  <2>7. OneHolder'
    BY <1>2, <2>6 DEF IInv, OneHolder
  <2>8. Told'
    <3> SUFFICES ASSUME NEW g \in Handlers, ~Idle(handler'[g]),
                        handler'[g].agent \notin excused, handler'[g].pc # "remote"
                 PROVE  LET b == handler'[g].agent IN
                        /\ handler'[g].op = "policy" =>
                            agent'[b].auto_update = handler'[g].enabled
                        /\ handler'[g].op = "pair" => ~agent'[b].auto_update
      BY DEF Told
    <3>1. g # h /\ handler'[g] = handler[g]
      BY <1>3
    <3>2. CASE handler[g].agent = a /\ handler[g].op # "unpair"
      <4>1. /\ handler[g].op \in {"pair", "policy"}
            /\ handler[g].op = "pair" => handler[g].pc = "persist"
        BY <3>1, <3>2, Parts DEF IInv, Shape, Idle
      <4> QED BY <1>1, <1>6, <3>1, <3>2, <4>1, Exclusive
    <3>3. CASE handler[g].agent # a
      BY <1>2, <3>1, <3>3 DEF IInv, Told, Shape
    <3> QED BY <3>1, <3>2, <3>3
  <2>9. Agreed'
    <3> SUFFICES ASSUME NEW d \in Clients, config[d].agent \in Agents \ excused,
                        \A g \in Working(d)' : handler'[g].pc = "remote"
                 PROVE  config[d].auto_update = agent'[config[d].agent].auto_update
      BY DEF Agreed
    <3>1. CASE d = c
      BY <1>1, <1>2, <2>1, <3>1 DEF AsRead
    <3>2. CASE d # c
      <4>1. \A g \in Working(d) : handler[g].pc = "remote"
        BY <1>3, <2>2, <3>2 DEF Working
      <4>2. config[d].agent # a
        BY <2>1, <3>2, <4>1, NamedHolds DEF IInv, OneHolder
      <4> QED BY <1>2, <4>1, <4>2 DEF IInv, Agreed
    <3> QED BY <3>1, <3>2
  <2> QED BY <2>3, <2>4, <2>5, <2>7, <2>8, <2>9 DEF IInv
<1> QED BY <1>5, <1>6

(* An edit saves what it does not change of pairings and policies. *)
LEMMA EditIsHarmless ==
    ASSUME Types, Shape, PutConfig, NEW c \in Clients
    PROVE  /\ config'[c].agent = config[c].agent
           /\ config'[c].auto_update = config[c].auto_update
<1>1. /\ config' = draft /\ draft[c].agent = config[c].agent
      /\ draft[c].listed => draft[c].auto_update = config[c].auto_update
  BY DEF PutConfig, Unchanged
<1>2. CASE ~draft[c].listed
  BY <1>1, <1>2, Parts DEF Shape
<1> QED BY <1>1, <1>2

LEMMA PutKeeps == ASSUME IInv, Types', PutConfig PROVE IInv'
<1>1. /\ UNCHANGED <<agent, handler, draft>> /\ config' = draft
      /\ excused' = excused \cup UNION {Overlapping(c) : c \in
            {c \in Clients : draft[c] # config[c]}}
  BY DEF PutConfig
<1>2. \A c \in Clients : /\ config'[c].agent = config[c].agent
                        /\ config'[c].auto_update = config[c].auto_update
  BY EditIsHarmless DEF IInv
<1>3. \A c \in Clients : Working(c)' = Working(c)
  BY <1>1 DEF Working
<1>4. Shape'
  BY <1>1, <1>2 DEF IInv, Shape
<1>5. Alone'
  <2> SUFFICES ASSUME NEW g \in Handlers, ~Idle(handler[g]), handler[g].agent \notin excused'
               PROVE  AsRead(g)'
    BY <1>1 DEF Alone
  <2>1. AsRead(g) /\ handler[g].client \in Clients
    BY <1>1 DEF IInv, Alone, Shape
  <2>2. draft[handler[g].client] = config[handler[g].client]
    <3>1. handler[g].agent \in Overlapping(handler[g].client)
      BY <2>1 DEF Overlapping, Working
    <3> QED BY <1>1, <2>1, <3>1
  <2> QED BY <1>1, <1>3, <2>1, <2>2 DEF AsRead
<1>6. Matching' /\ Told' /\ Agreed'
  <2>1. Matching'
    BY <1>1, <1>2, <1>3 DEF IInv, Matching
  <2>2. Told'
    BY <1>1 DEF IInv, Told
  <2>3. Agreed'
    BY <1>1, <1>2, <1>3 DEF IInv, Agreed
  <2> QED BY <2>1, <2>2, <2>3
<1>7. OneHolder'
  <2>1. ASSUME NEW b \in Agents, NEW d \in Clients
        PROVE  Holds(d, b)' <=> Holds(d, b)
    BY <1>1, <1>2 DEF Holds, At
  <2> QED BY <1>1, <2>1 DEF IInv, OneHolder
<1> QED BY <1>4, <1>5, <1>6, <1>7 DEF IInv

---------------------------------------------------------------------------
(* Every step keeps the types *)

LEMMA FaultType == ASSUME Types, Fault PROVE faults' \in Nat
BY DEF Types, Fault

LEMMA OverlapType ==
    ASSUME Types, NEW c \in Clients
    PROVE  Overlapping(c) \subseteq MaybeAgent
BY DEF Types, Configs, Entries, Requests, MaybeAgent, Overlapping, Working

(* What Begin makes of a request that was idle. *)
LEMMA Begun ==
    ASSUME Types, NEW h \in Handlers, NEW op \in {"pair", "policy", "unpair"},
           NEW c \in Clients, NEW force_local \in BOOLEAN, NEW a \in Agents,
           NEW enabled \in BOOLEAN, Begin(h, op, c, force_local, a, enabled)
    PROVE  /\ handler' \in [Handlers -> Requests]
           /\ \A g \in Handlers \ {h} : handler'[g] = handler[g]
           /\ ~Idle(handler'[h]) /\ handler'[h].op = op
           /\ handler'[h].pc = IF force_local THEN "persist" ELSE "remote"
           /\ handler'[h].client = c /\ handler'[h].agent = a
           /\ handler'[h].previous = config[c].auto_update
           /\ Idle(handler[h]) /\ config[c].listed
           /\ UNCHANGED <<config, agent, draft, bounds>>
<1> DEFINE new == [op |-> op, pc |-> IF force_local THEN "persist" ELSE "remote",
                   client |-> c, host |-> config[c].host, agent |-> a,
                   enabled |-> enabled, previous |-> config[c].auto_update]
<1>1. /\ handler' = [handler EXCEPT ![h] = new]
      /\ Idle(handler[h]) /\ config[c].listed
      /\ UNCHANGED <<config, agent, draft, bounds>>
  BY DEF Begin
<1>2. new \in Requests
  BY DEF Types, Configs, Entries, Requests, MaybeAgent
<1>3. ~Idle(new)
  BY DEF Idle
<1> HIDE DEF new
<1>4. handler' \in [Handlers -> Requests] /\ handler'[h] = new
      /\ \A g \in Handlers \ {h} : handler'[g] = handler[g]
  BY <1>1, <1>2, OneRequest
<1> QED BY <1>1, <1>3, <1>4 DEF new

LEMMA BeginStep ==
    ASSUME IInv, NEW h \in Handlers, NEW c \in Clients,
           \/ BeginPair(h, c) \/ BeginUnpair(h, c) \/ ForgetLocally(h, c)
           \/ \E enabled \in BOOLEAN : BeginPolicy(h, c, enabled)
    PROVE  IInv'
<1>1. /\ config[c].host \in Agents /\ config[c].agent \in MaybeAgent
      /\ Overlapping(c) \subseteq MaybeAgent /\ excused \subseteq MaybeAgent
      /\ Agents \subseteq MaybeAgent
  BY Parts, OverlapType DEF IInv, Types, MaybeAgent
<1>2. ASSUME handler' \in [Handlers -> Requests], excused' \subseteq MaybeAgent,
             UNCHANGED <<config, agent, draft, bounds>>
      PROVE  Types'
  BY <1>2 DEF IInv, Types, bounds
<1>3. CASE BeginPair(h, c)
  <2> DEFINE also == IF config[c].agent = NoAgent THEN {}
                     ELSE {config[c].agent, config[c].host}
  <2>1. /\ Begin(h, "pair", c, FALSE, config[c].host, FALSE)
        /\ excused' = excused \cup Overlapping(c) \cup also
    BY <1>3 DEF BeginPair
  <2>2. also \subseteq MaybeAgent
        /\ (config[c].agent = NoAgent \/ {config[c].agent, config[c].host} \subseteq also)
    BY <1>1
  <2> HIDE DEF also
  <2>3. Types'
    BY <1>1, <1>2, <2>1, <2>2, Begun DEF IInv
  <2>4. /\ \A g \in Handlers \ {h} : handler'[g] = handler[g]
        /\ ~Idle(handler'[h]) /\ handler'[h].op = "pair" /\ handler'[h].pc = "remote"
        /\ handler'[h].client = c /\ handler'[h].agent = config[c].host
        /\ handler'[h].previous = config[c].auto_update
        /\ Idle(handler[h]) /\ config[c].listed
        /\ UNCHANGED <<config, agent, draft>>
    BY <1>1, <2>1, Begun DEF IInv
  <2> QED BY <1>1, <2>1, <2>2, <2>3, <2>4, BeginKeeps
<1>4. CASE BeginUnpair(h, c)
  <2>1. /\ Begin(h, "unpair", c, FALSE, config[c].agent, FALSE)
        /\ config[c].agent \in Agents
        /\ excused' = excused \cup Overlapping(c)
    BY <1>1, <1>4 DEF BeginUnpair, MaybeAgent
  <2>2. Types'
    BY <1>1, <1>2, <2>1, Begun DEF IInv
  <2>3. /\ \A g \in Handlers \ {h} : handler'[g] = handler[g]
        /\ ~Idle(handler'[h]) /\ handler'[h].op = "unpair" /\ handler'[h].pc = "remote"
        /\ handler'[h].client = c /\ handler'[h].agent = config[c].agent
        /\ handler'[h].previous = config[c].auto_update
        /\ Idle(handler[h]) /\ config[c].listed
        /\ UNCHANGED <<config, agent, draft>>
    BY <1>1, <2>1, Begun DEF IInv
  <2> QED BY <2>1, <2>2, <2>3, BeginKeeps
<1>5. CASE ForgetLocally(h, c)
  <2>1. /\ Begin(h, "unpair", c, TRUE, config[c].agent, FALSE)
        /\ config[c].agent \in Agents
        /\ excused' = excused \cup Overlapping(c) \cup {config[c].agent}
    BY <1>1, <1>5 DEF ForgetLocally, MaybeAgent
  <2>2. Types'
    BY <1>1, <1>2, <2>1, Begun DEF IInv
  <2>3. /\ \A g \in Handlers \ {h} : handler'[g] = handler[g]
        /\ ~Idle(handler'[h]) /\ handler'[h].op = "unpair" /\ handler'[h].pc = "persist"
        /\ handler'[h].client = c /\ handler'[h].agent = config[c].agent
        /\ handler'[h].previous = config[c].auto_update
        /\ Idle(handler[h]) /\ config[c].listed
        /\ UNCHANGED <<config, agent, draft>>
    BY <1>1, <2>1, Begun DEF IInv
  <2> QED BY <2>1, <2>2, <2>3, BeginKeeps
<1>6. ASSUME NEW enabled \in BOOLEAN, BeginPolicy(h, c, enabled)
      PROVE  IInv'
  <2>1. /\ Begin(h, "policy", c, FALSE, config[c].agent, enabled)
        /\ config[c].agent \in Agents
        /\ excused' = excused \cup Overlapping(c)
    BY <1>1, <1>6 DEF BeginPolicy, MaybeAgent
  <2>2. Types'
    BY <1>1, <1>2, <2>1, Begun DEF IInv
  <2>3. /\ \A g \in Handlers \ {h} : handler'[g] = handler[g]
        /\ ~Idle(handler'[h]) /\ handler'[h].op = "policy" /\ handler'[h].pc = "remote"
        /\ handler'[h].client = c /\ handler'[h].agent = config[c].agent
        /\ handler'[h].previous = config[c].auto_update
        /\ Idle(handler[h]) /\ config[c].listed
        /\ UNCHANGED <<config, agent, draft>>
    <3> DEFINE force_local == FALSE
    <3>1. force_local \in BOOLEAN /\ Begin(h, "policy", c, force_local, config[c].agent, enabled)
      BY <2>1
    <3>2. ~force_local
      OBVIOUS
    <3> HIDE DEF force_local
    <3> QED BY <1>1, <2>1, <3>1, <3>2, Begun DEF IInv
  <2> QED BY <2>1, <2>2, <2>3, BeginKeeps
<1> QED BY <1>3, <1>4, <1>5, <1>6

(* One request goes on or ends; the rest of the type is kept.              *)
LEMMA RequestType ==
    ASSUME Types, handler' \in [Handlers -> Requests], config' \in Configs,
           agent' \in [Agents -> [paired : BOOLEAN, auto_update : BOOLEAN]],
           excused' \subseteq MaybeAgent, faults' \in Nat,
           UNCHANGED <<draft, resets, edits>>
    PROVE  Types'
BY DEF Types

LEMMA AskStep == ASSUME IInv, NEW h \in Handlers, Ask(h) PROVE IInv'
<1>1. [handler[h] EXCEPT !.pc = "persist"] \in Requests /\ handler[h].agent \in Agents
  BY Advanced DEF IInv, Types, Ask, Shape
<1>2. handler' \in [Handlers -> Requests]
  BY <1>1, OneRequest DEF IInv, Ask
<1>3. agent' \in [Agents -> [paired : BOOLEAN, auto_update : BOOLEAN]]
  BY <1>1, AskedEffect DEF IInv, Ask
<1>4. Types'
  BY <1>2, <1>3, RequestType DEF IInv, Types, Ask, bounds
<1> QED BY <1>4, AskKeeps

(* Requests that end without more. *)
LEMMA EndStep ==
    ASSUME IInv, NEW h \in Handlers, ~Idle(handler[h]),
           handler' = [handler EXCEPT ![h] = NoRequest],
           UNCHANGED <<config, draft, resets, edits>>,
           \/ agent' = agent
           \/ /\ Agrees(handler[h]) /\ agent' = Remote(handler[h])
              /\ handler[h].agent \in excused',
           excused \subseteq excused', excused' \subseteq excused \cup {handler[h].agent},
           handler[h].pc = "remote" \/ handler[h].agent \in excused',
           faults' \in Nat
    PROVE  IInv'
<1>1. handler[h].agent \in Agents
  BY DEF IInv, Shape
<1>2. /\ agent' \in [Agents -> [paired : BOOLEAN, auto_update : BOOLEAN]]
      /\ \A a \in Agents : a \in excused' \/ agent'[a] = agent[a]
  BY <1>1, AskedEffect DEF IInv, Types
<1>3. \A a \in Agents : ~agent'[a].paired => ~agent'[a].auto_update
  <2>1. CASE agent' = agent
    BY <2>1 DEF IInv, Shape
  <2>2. CASE Agrees(handler[h]) /\ agent' = Remote(handler[h])
    <3>1. handler[h].op \in {"pair", "policy", "unpair"}
      BY Parts DEF IInv, Idle
    <3>2. handler[h].op = "policy" => agent[handler[h].agent].paired
      BY <2>2 DEF Agrees, Answers
    <3> QED BY <1>1, <2>2, <3>1, <3>2, AskedEffect DEF IInv, Shape
  <2> QED BY <2>1, <2>2
<1>4. Types'
  BY <1>1, <1>2, OneRequest, NoRequestType, RequestType DEF IInv, Types, MaybeAgent
<1>5. \A g \in Handlers : handler'[g] = IF g \in {h} THEN NoRequest ELSE handler[g]
  BY OneRequest, NoRequestType DEF IInv
<1>6. \A d \in Clients : ~draft'[d].listed =>
        draft'[d].agent = NoAgent /\ ~draft'[d].auto_update
  BY DEF IInv, Shape
<1> QED BY <1>2, <1>3, <1>4, <1>5, <1>6, QuietKeeps

LEMMA ErrorStep == ASSUME IInv, NEW h \in Handlers, AgentError(h) PROVE IInv'
<1>1. CASE UNCHANGED <<agent, bounds, excused>>
  BY <1>1, EndStep DEF AgentError, bounds, IInv, Types
<1>2. CASE /\ Agrees(handler[h]) /\ Fault
           /\ agent' = Remote(handler[h])
           /\ excused' = excused \cup {handler[h].agent}
           /\ UNCHANGED <<resets, edits>>
  BY <1>2, FaultType, EndStep DEF AgentError, IInv
<1> QED BY <1>1, <1>2 DEF AgentError

LEMMA PersistStep == ASSUME IInv, NEW h \in Handlers, Persist(h) PROVE IInv'
<1>1. config' \in Configs
  BY PersistedEffect DEF Persist, IInv, Shape
<1>2. Types'
  BY <1>1, OneRequest, NoRequestType, RequestType DEF IInv, Types, Persist, bounds
<1> QED BY <1>2, PersistKeeps

(* Nothing but a write that fails keeps a pairing from being persisted.    *)
LEMMA FailStep == ASSUME IInv, NEW h \in Handlers, PersistFails(h) PROVE IInv'
<1>1. /\ ~Idle(handler[h]) /\ handler[h].pc = "persist"
      /\ handler' = [handler EXCEPT ![h] = AfterFailure(handler[h])]
      /\ UNCHANGED <<config, agent, draft, resets, edits>>
  BY DEF PersistFails, bounds
<1>2. faults' \in Nat
  BY FaultType DEF PersistFails, bounds, IInv, Types
<1>3. CASE handler[h].op = "policy"
  <2>1. AfterFailure(handler[h]) \in Requests
    BY <1>3, Advanced DEF AfterFailure, IInv, Types
  <2>2. excused' = excused
    BY <1>3 DEF PersistFails
  <2>3. Types'
    BY <1>1, <1>2, <2>1, <2>2, OneRequest, RequestType DEF IInv, Types
  <2> QED BY <1>3, <2>3, FailedPolicyKeeps
<1>4. CASE handler[h].op # "policy"
  <2>1. handler' = [handler EXCEPT ![h] = NoRequest]
    BY <1>1, <1>4 DEF AfterFailure
  <2>2. /\ handler[h].agent \in excused' /\ excused \subseteq excused'
        /\ excused' \subseteq excused \cup {handler[h].agent}
    <3>1. CASE ~MayPersist(handler[h]) /\ UNCHANGED <<bounds, excused>>
      BY <1>1, <1>4, <3>1 DEF IInv, Alone, AsRead, MayPersist
    <3>2. CASE Fault
      BY <1>1, <1>4 DEF PersistFails, IInv, Alone, AsRead, MayPersist
    <3> QED BY <3>1, <3>2 DEF PersistFails
  <2> QED BY <1>1, <1>2, <2>1, <2>2, EndStep
<1> QED BY <1>3, <1>4

LEMMA RollBackStep == ASSUME IInv, NEW h \in Handlers, RollBack(h) PROVE IInv'
<1>1. /\ ~Idle(handler[h]) /\ handler[h].pc = "rollback"
      /\ handler' = [handler EXCEPT ![h] = NoRequest]
      /\ UNCHANGED <<config, draft, faults, resets, edits>>
  BY DEF RollBack, bounds
<1>2. CASE /\ Answers(handler[h]) /\ UNCHANGED excused
           /\ agent' = [agent EXCEPT ![handler[h].agent].auto_update = handler[h].previous]
  <2>1. handler[h].agent \in Agents /\ handler[h].previous \in BOOLEAN
    BY <1>1, Parts DEF IInv, Shape
  <2>2. agent' \in [Agents -> [paired : BOOLEAN, auto_update : BOOLEAN]]
    BY <1>2, <2>1 DEF IInv, Types
  <2>3. Types'
    BY <1>1, <1>2, <2>2, OneRequest, NoRequestType, RequestType DEF IInv, Types
  <2> QED BY <1>1, <1>2, <2>3, RolledBackKeeps
<1>3. CASE UNCHANGED agent /\ excused' = excused \cup {handler[h].agent}
  BY <1>1, <1>3, EndStep DEF IInv, Types
<1> QED BY <1>2, <1>3 DEF RollBack

---------------------------------------------------------------------------
LEMMA EditStep == ASSUME IInv, GetConfig \/ EditDraft \/ PutConfig PROVE IInv'
<1>1. CASE GetConfig \/ EditDraft
  <2>1. UNCHANGED <<config, agent, handler, bounds, excused>>
    BY <1>1 DEF GetConfig, EditDraft
  <2>2. draft' \in Configs /\ \A c \in Clients : ~draft'[c].listed =>
            draft'[c].agent = NoAgent /\ ~draft'[c].auto_update
    <3>1. CASE GetConfig
      BY <3>1 DEF GetConfig, IInv, Types, Shape
    <3>2. CASE EditDraft
      <4> PICK c \in Clients :
            \/ \E a \in Agents : draft' = [draft EXCEPT ![c].host = a]
            \/ draft' = [draft EXCEPT ![c].listed = ~@, ![c].agent = NoAgent,
                                      ![c].auto_update = FALSE]
        BY <3>2 DEF EditDraft
      <4>1. CASE \E a \in Agents : draft' = [draft EXCEPT ![c].host = a]
        BY <4>1 DEF IInv, Types, Shape, Configs, Entries
      <4>2. CASE draft' = [draft EXCEPT ![c].listed = ~@, ![c].agent = NoAgent,
                                        ![c].auto_update = FALSE]
        <5> DEFINE new == [draft[c] EXCEPT !.listed = ~@, !.agent = NoAgent,
                                           !.auto_update = FALSE]
        <5>1. draft \in [Clients -> Entries] /\ draft[c] \in Entries
          BY DEF IInv, Types, Configs
        <5>2. new \in Entries /\ new.agent = NoAgent /\ ~new.auto_update
          BY <5>1 DEF Entries, MaybeAgent
        <5>3. draft' = [draft EXCEPT ![c] = new]
          BY <4>2, <5>1
        <5> HIDE DEF new
        <5> QED BY <5>1, <5>2, <5>3 DEF IInv, Shape, Configs
      <4> QED BY <4>1, <4>2
    <3> QED BY <1>1, <3>1, <3>2
  <2>3. Types'
    BY <2>1, <2>2 DEF IInv, Types, bounds
  <2>4. \A a \in Agents : ~agent'[a].paired => ~agent'[a].auto_update
    BY <2>1 DEF IInv, Shape
  <2> QED BY <2>1, <2>2, <2>3, <2>4, StillKeeps
<1>2. CASE PutConfig
  <2>1. excused' \subseteq MaybeAgent
    BY <1>2, OverlapType DEF PutConfig, IInv, Types
  <2>2. Types'
    BY <1>2, <2>1 DEF PutConfig, IInv, Types
  <2> QED BY <1>2, <2>2, PutKeeps
<1> QED BY <1>1, <1>2

(* A reset at the device, a crash of the controller: agents are excused.   *)
LEMMA LossStep == ASSUME IInv, Crash \/ \E a \in Agents : ResetPairing(a) PROVE IInv'
<1>1. \A d \in Clients : ~draft[d].listed =>
        draft[d].agent = NoAgent /\ ~draft[d].auto_update
  BY DEF IInv, Shape
<1>2. CASE Crash
  <2>1. /\ \A h \in Handlers : handler'[h] = NoRequest
        /\ handler' \in [Handlers -> Requests]
        /\ excused' = excused \cup {handler[h].agent : h \in Handlers}
        /\ UNCHANGED <<config, agent, draft, resets, edits>>
    BY <1>2, NoRequestType DEF Crash
  <2>2. excused' \subseteq MaybeAgent
    BY <2>1 DEF IInv, Types, Requests
  <2>3. Types'
    BY <1>2, <2>1, <2>2, FaultType, RequestType DEF Crash, IInv, Types
  <2>4. \A a \in Agents : ~agent'[a].paired => ~agent'[a].auto_update
    BY <2>1 DEF IInv, Shape
  <2> QED BY <1>1, <2>1, <2>3, <2>4, QuietKeeps
<1>3. CASE \E a \in Agents : ResetPairing(a)
  <2> PICK a \in Agents : ResetPairing(a)
    BY <1>3
  <2>1. /\ agent' = [agent EXCEPT ![a] = [paired |-> FALSE, auto_update |-> FALSE]]
        /\ excused' = excused \cup {a} /\ resets' = resets + 1
        /\ UNCHANGED <<config, handler, draft, faults, edits>>
    BY DEF ResetPairing
  <2>2. Types'
    BY <2>1 DEF IInv, Types, MaybeAgent
  <2>3. /\ \A b \in Agents : b \in excused' \/ agent'[b] = agent[b]
        /\ \A b \in Agents : ~agent'[b].paired => ~agent'[b].auto_update
    BY <2>1 DEF IInv, Types, Shape
  <2> QED BY <1>1, <2>1, <2>2, <2>3, StillKeeps
<1> QED BY <1>2, <1>3

---------------------------------------------------------------------------
LEMMA InitInv == Init => IInv
<1> SUFFICES ASSUME Init PROVE IInv
  OBVIOUS
<1>1. Types
  BY InitType
<1>2. /\ \A h \in Handlers : handler[h] = NoRequest /\ Idle(handler[h])
      /\ draft = config
  BY NoRequestType DEF Init
<1>3. \A c \in Clients :
        config[c].listed /\ config[c].agent = NoAgent /\ ~config[c].auto_update
  BY DEF Init
<1>4. \A a \in Agents : ~agent[a].paired /\ ~agent[a].auto_update
  BY DEF Init
<1>5. Shape
  BY <1>2, <1>3, <1>4 DEF Shape
<1>6. Alone /\ Told
  BY <1>2 DEF Alone, Told
<1>7. Matching /\ Agreed
  BY <1>3, PairingAssumption DEF Matching, Agreed
<1>8. \A a \in Agents, c \in Clients : ~Holds(c, a)
  BY <1>2, <1>3, PairingAssumption DEF Holds, At, Idle
<1>9. OneHolder
  BY <1>4, <1>8 DEF OneHolder
<1> QED BY <1>1, <1>5, <1>6, <1>7, <1>9 DEF IInv

LEMMA NextInv == IInv /\ [Next]_vars => IInv'
<1> SUFFICES ASSUME IInv, [Next]_vars PROVE IInv'
  OBVIOUS
<1>1. CASE UNCHANGED vars
  <2>1. Types' /\ Shape'
    BY <1>1 DEF vars, bounds, IInv, Types, Shape
  <2>2. \A c \in Clients : Working(c)' = Working(c)
    BY <1>1 DEF vars, Working
  <2>3. Alone' /\ Matching'
    BY <1>1, <2>2 DEF vars, IInv, Alone, AsRead, Matching, Shape
  <2>4. OneHolder'
    BY <1>1 DEF vars, IInv, OneHolder, Holds, At
  <2>5. Told' /\ Agreed'
    BY <1>1, <2>2 DEF vars, IInv, Told, Agreed
  <2> QED BY <2>1, <2>3, <2>4, <2>5 DEF IInv
<1>2. CASE \E h \in Handlers, c \in Clients :
                \/ BeginPair(h, c) \/ BeginUnpair(h, c) \/ ForgetLocally(h, c)
                \/ \E enabled \in BOOLEAN : BeginPolicy(h, c, enabled)
  BY <1>2, BeginStep
<1>3. CASE \E h \in Handlers :
                Ask(h) \/ AgentError(h) \/ Persist(h) \/ PersistFails(h) \/ RollBack(h)
  BY <1>3, AskStep, ErrorStep, PersistStep, FailStep, RollBackStep
<1>4. CASE GetConfig \/ EditDraft \/ PutConfig
  BY <1>4, EditStep
<1>5. CASE Crash \/ \E a \in Agents : ResetPairing(a)
  BY <1>5, LossStep
<1> QED BY <1>1, <1>2, <1>3, <1>4, <1>5 DEF Next

(* The invariant of pairing: requests that nothing disturbed see the       *)
(* configuration as they read it, and a paired agent has one client.       *)
THEOREM PairingInvariant == Spec => []IInv
BY InitInv, NextInv, PTL DEF Spec

(* Every variable of pairing keeps its type, a client off the list has no  *)
(* pairing, and only a policy is rolled back.                              *)
THEOREM PairingTypeCorrect == Spec => []TypeOK
<1>1. ASSUME IInv PROVE TypeOK
  BY <1>1 DEF IInv, TypeOK, Shape, Idle
<1> QED BY <1>1, PairingInvariant, PTL

(* pair_agent and unpair_agent change both sides: an agent that the        *)
(* configuration names is paired, unless it was just told to unpair.       *)
THEOREM ConfiguredArePaired == Spec => []ConfiguredIsPaired
<1>1. ASSUME IInv PROVE ConfiguredIsPaired
  <2> SUFFICES ASSUME NEW c \in Clients, config[c].agent # NoAgent,
                      config[c].agent \notin excused, ~agent[config[c].agent].paired
               PROVE  Persisting("unpair", config[c].agent)
    BY DEF ConfiguredIsPaired
  <2>1. config[c].agent \in Agents \ excused
    BY <1>1, Parts DEF IInv, MaybeAgent
  <2>2. ~Holds(c, config[c].agent)
    BY <1>1, <2>1 DEF IInv, OneHolder
  <2> QED BY <2>2 DEF Holds, At, Persisting
<1> QED BY <1>1, PairingInvariant, PTL

(* The other way round: a paired agent is in the configuration, unless     *)
(* that is about to be changed.                                            *)
THEOREM PairedAreConfigured == Spec => []PairedIsConfigured
<1>1. ASSUME IInv PROVE PairedIsConfigured
  <2> SUFFICES ASSUME NEW a \in Agents \ excused, agent[a].paired
               PROVE  Persisting("pair", a) \/ \E c \in Clients : config[c].agent = a
    BY DEF PairedIsConfigured
  <2>1. PICK c \in Clients : Holds(c, a)
    BY <1>1 DEF IInv, OneHolder
  <2> QED BY <2>1 DEF Holds, At, Persisting
<1> QED BY <1>1, PairingInvariant, PTL

(* set_agent_auto_update: when no request about the client is in progress, *)
(* the agent holds the policy of the configuration.                        *)
THEOREM PoliciesStayEqual == Spec => []PoliciesAgree
<1>1. ASSUME IInv PROVE PoliciesAgree
  BY <1>1, Parts DEF IInv, Agreed, PoliciesAgree, MaybeAgent
<1> QED BY <1>1, PairingInvariant, PTL

(* persist_config: no edit undoes a pairing or a policy. *)
THEOREM NoEditUnpairs == Spec => EditsKeepPairings
<1> DEFINE Kept == \A c \in Clients :
                    \/ config'[c].agent = config[c].agent
                       /\ config'[c].auto_update = config[c].auto_update
                    \/ Working(c) # {}
<1>1. ASSUME IInv, Next PROVE Kept
  <2>1. CASE PutConfig
    BY <1>1, <2>1, EditIsHarmless DEF IInv
  <2>2. CASE \E h \in Handlers : Persist(h)
    <3> PICK h \in Handlers : Persist(h)
      BY <2>2
    <3>1. /\ ~Idle(handler[h]) /\ config' = Persisted(handler[h])
          /\ handler[h].client \in Clients /\ handler[h].agent \in Agents
      BY <1>1 DEF Persist, IInv, Shape
    <3>2. h \in Working(handler[h].client)
      BY <3>1 DEF Working
    <3>3. \A d \in Clients \ {handler[h].client} : config'[d] = config[d]
      BY <1>1, <3>1, PersistedEffect DEF IInv
    <3> QED BY <3>2, <3>3
  <2>3. CASE UNCHANGED config
    BY <2>3
  <2> QED
    BY <1>1, <2>1, <2>2, <2>3
    DEF Next, BeginPair, BeginUnpair, ForgetLocally, BeginPolicy, Begin, Ask, AgentError,
        PersistFails, RollBack, GetConfig, EditDraft, ResetPairing, Crash
<1>2. IInv /\ [Next]_vars => [Kept]_vars
  BY <1>1
<1> QED BY <1>2, PairingInvariant, PTL DEF Spec, EditsKeepPairings
===========================================================================
