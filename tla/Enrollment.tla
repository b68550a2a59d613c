----------------------------- MODULE Enrollment -----------------------------
(***************************************************************************)
(* One-time enrollment of agents: the store of codes                       *)
(* (wolnut/enrollment.py), the two web handlers that use it                *)
(* (wolnut/web.py), and the enroll command of the agent that asks.         *)
(*                                                                         *)
(* An operation of the store is one step under its lock.  The handler of   *)
(* an agent's request takes several: claim the code, write the pairing to  *)
(* the configuration, complete the record, answer.  It can fail or die     *)
(* between any two, and the agent asks again.                              *)
(***************************************************************************)
EXTENDS Naturals

CONSTANTS Clients, Agents, Codes, Handlers,
          NoClient, NoAgent, NoCode,
          Manual,       \* stands for a pairing that was made without a code
          MaxKeys,      \* bound on certificate requests made by agents
          MaxFaults,    \* bound on handlers that fail or die
          MaxEdits      \* bound on what the administrator does

ASSUME EnrollmentAssumption ==
    /\ NoClient \notin Clients
    /\ NoAgent \notin Agents
    /\ NoCode \notin Codes /\ Manual \notin Codes /\ Manual # NoCode
    /\ {MaxKeys, MaxFaults, MaxEdits} \subseteq Nat

VARIABLES records,      \* the store's records
          paired_with,  \* agent_id of each client in the configuration
          handler,      \* requests of agents that are being served
          asked,        \* clients an administrator is making a code for
          csr,          \* the request an agent saved, 0 without one
          certificate   \* how an agent was paired, NoCode when it is not

(* History: requests made, certificates handed out, clients whose pairing  *)
(* the administrator changed, faults, edits.                               *)
VARIABLES keys, granted, touched, faults, edits

agents == <<csr, certificate>>
history == <<keys, granted, touched, faults, edits>>
vars == <<records, paired_with, handler, asked, agents, history>>

Applicants == [agent : Agents, csr : 1..MaxKeys]
Nobody == [agent |-> NoAgent, csr |-> 0]

(* live: the code has not expired. *)
Records ==
    [client : Clients \cup {NoClient}, live : BOOLEAN,
     status : {"none", "pending", "processing", "paired", "failed", "expired",
               "superseded"},
     claimed : Applicants \cup {Nobody}]

NoRecord ==
    [client |-> NoClient, live |-> FALSE, status |-> "none", claimed |-> Nobody]

Requests ==
    [pc : {"idle", "claim", "persist", "complete", "respond"},
     code : Codes \cup {NoCode}, who : Applicants \cup {Nobody}]

NoRequest == [pc |-> "idle", code |-> NoCode, who |-> Nobody]

client(h) == records[handler[h].code].client

Init ==
    /\ records = [k \in Codes |-> NoRecord]
    /\ paired_with = [c \in Clients |-> NoAgent]
    /\ handler = [h \in Handlers |-> NoRequest]
    /\ asked = {}
    /\ csr = [a \in Agents |-> 0]
    /\ certificate = [a \in Agents |-> NoCode]
    /\ keys = 0
    /\ granted = {}
    /\ touched = {}
    /\ faults = 0
    /\ edits = 0

---------------------------------------------------------------------------
(* Making a code *)

(* create_agent_enrollment looks at the configuration first. *)
CheckUnpaired(c) ==
    /\ paired_with[c] = NoAgent
    /\ asked' = asked \cup {c}
    /\ UNCHANGED <<records, paired_with, handler, agents, history>>

(* Faulty: a code that is being used can be replaced. *)
InProgress_never(c) == FALSE

InProgress(c) ==
    \E k \in Codes : /\ records[k].client = c
                     /\ records[k].status = "processing" /\ records[k].live

(* Faulty: older codes stay. *)
Replaced_stays(record, c) ==
    IF record.client = c /\ ~record.live /\ record.status \in {"pending", "processing"}
    THEN [record EXCEPT !.status = "expired"]
    ELSE record

(* What create() does to the records of the client. *)
Replaced(record, c) ==
    IF record.client = c /\ record.status \in {"pending", "processing"}
    THEN [record EXCEPT !.status = IF record.live THEN "superseded" ELSE "expired"]
    ELSE record

(* The code is failed at once when no install command can be made for it. *)
create(c, k, status) ==
    /\ c \in asked
    /\ records[k] = NoRecord
    /\ ~InProgress(c)
    /\ records' = [l \in Codes |->
          IF l = k
          THEN [client |-> c, live |-> TRUE, status |-> status, claimed |-> Nobody]
          ELSE Replaced(records[l], c)]
    /\ asked' = asked \ {c}
    /\ UNCHANGED <<paired_with, handler, agents, history>>

(* The administrator's request ends without a code. *)
CreateRefused(c) ==
    /\ c \in asked
    /\ asked' = asked \ {c}
    /\ UNCHANGED <<records, paired_with, handler, agents, history>>

(* Ten minutes after it was made. *)
Expire(k) ==
    /\ records[k].live
    /\ records' = [records EXCEPT ![k].live = FALSE]
    /\ UNCHANGED <<paired_with, handler, asked, agents, history>>

(* bootstrap(), which the store offers and no handler calls, only notices  *)
(* that a code has expired.                                                *)
bootstrap(k) ==
    /\ records[k] # NoRecord /\ ~records[k].live
    /\ records' = [records EXCEPT ![k].status = "expired"]
    /\ UNCHANGED <<paired_with, handler, asked, agents, history>>

---------------------------------------------------------------------------
(* Using a code *)

(* Faulty: sends a request it has not made. *)
pending_csr_unmade(a) == csr[a]

pending_csr(a) == IF csr[a] = 0 THEN keys + 1 ELSE csr[a]

(* enrollAgent: an agent without certificate saves its request and sends   *)
(* it; a retry sends the one that was saved.                               *)
Ask(a, k, h) ==
    /\ certificate[a] = NoCode
    /\ records[k] # NoRecord
    /\ handler[h] = NoRequest
    /\ keys' = IF csr[a] = 0 THEN keys + 1 ELSE keys
    /\ keys' <= MaxKeys
    /\ csr' = [csr EXCEPT ![a] = pending_csr(a)]
    /\ handler' = [handler EXCEPT ![h] =
                      [pc |-> "claim", code |-> k,
                       who |-> [agent |-> a, csr |-> pending_csr(a)]]]
    /\ UNCHANGED <<records, paired_with, asked, certificate, granted, touched,
                   faults, edits>>

(* Faulty: any agent may retry; the agent may retry with another request.  *)
SameApplicant_any(record, who) == TRUE

SameApplicant(record, who) == record.claimed = who

(* claim(): an expired code; the first use; a retry; anything else. *)
ClaimExpired(h) ==
    LET k == handler[h].code
    IN /\ handler[h].pc = "claim" /\ ~records[k].live
       /\ records' = [records EXCEPT ![k].status = "expired"]
       /\ handler' = [handler EXCEPT ![h] = NoRequest]
       /\ UNCHANGED <<paired_with, asked, agents, history>>

ClaimFirst(h) ==
    LET k == handler[h].code
    IN /\ handler[h].pc = "claim" /\ records[k].live
       /\ records[k].status = "pending"
       /\ records' = [records EXCEPT ![k] =
             [records[k] EXCEPT !.status = "processing", !.claimed = handler[h].who]]
       /\ handler' = [handler EXCEPT ![h].pc = "persist"]
       /\ UNCHANGED <<paired_with, asked, agents, history>>

ClaimAgain(h) ==
    LET k == handler[h].code
    IN /\ handler[h].pc = "claim" /\ records[k].live
       /\ records[k].status \in {"processing", "paired"}
       /\ SameApplicant(records[k], handler[h].who)
       /\ handler' = [handler EXCEPT ![h].pc = "persist"]
       /\ UNCHANGED <<records, paired_with, asked, agents, history>>

ClaimRefused(h) ==
    LET k == handler[h].code
    IN /\ handler[h].pc = "claim" /\ records[k].live
       /\ records[k].status # "pending"
       /\ \/ records[k].status \notin {"processing", "paired"}
          \/ ~SameApplicant(records[k], handler[h].who)
       /\ handler' = [handler EXCEPT ![h] = NoRequest]
       /\ UNCHANGED <<records, paired_with, asked, agents, history>>

(* Faulty: an enrollment replaces the agent of the client. *)
Free_always(c, a) == TRUE

Free(c, a) == paired_with[c] \in {NoAgent, a}

(* persist_enrollment *)
Persist(h) ==
    /\ handler[h].pc = "persist"
    /\ Free(client(h), handler[h].who.agent)
    /\ paired_with' = [paired_with EXCEPT ![client(h)] = handler[h].who.agent]
    /\ handler' = [handler EXCEPT ![h].pc = "complete"]
    /\ UNCHANGED <<records, asked, agents, history>>

complete(h) ==
    /\ handler[h].pc = "complete"
    /\ records' = [records EXCEPT ![handler[h].code].status = "paired"]
    /\ handler' = [handler EXCEPT ![h].pc = "respond"]
    /\ UNCHANGED <<paired_with, asked, agents, history>>

(* fail(): the client is paired with another agent or, counted as a fault, *)
(* signing, the configuration, the record or the result could not be       *)
(* written or read.                                                        *)
fail(h) ==
    LET conflict == /\ handler[h].pc = "persist"
                    /\ ~Free(client(h), handler[h].who.agent)
    IN /\ handler[h].pc \in {"persist", "complete", "respond"}
       /\ faults' = IF conflict THEN faults ELSE faults + 1
       /\ faults' <= MaxFaults
       /\ records' = [records EXCEPT ![handler[h].code].status = "failed"]
       /\ handler' = [handler EXCEPT ![h] = NoRequest]
       /\ UNCHANGED <<paired_with, asked, agents, keys, granted, touched, edits>>

(* The web process dies, or not even the failure could be written. *)
Dies(h) ==
    /\ handler[h] # NoRequest
    /\ faults < MaxFaults
    /\ faults' = faults + 1
    /\ handler' = [handler EXCEPT ![h] = NoRequest]
    /\ UNCHANGED <<records, paired_with, asked, agents, keys, granted, touched, edits>>

(* The answer carries the certificate; it may be lost. *)
Respond(h, received) ==
    LET who == handler[h].who
        k == handler[h].code
    IN /\ handler[h].pc = "respond"
       /\ granted' = granted \cup {<<k, who>>}
       /\ IF received
          THEN /\ certificate' = [certificate EXCEPT ![who.agent] = k]
               /\ csr' = [csr EXCEPT ![who.agent] = 0]
          ELSE UNCHANGED agents
       /\ handler' = [handler EXCEPT ![h] = NoRequest]
       /\ UNCHANGED <<records, paired_with, asked, keys, touched, faults, edits>>

---------------------------------------------------------------------------
(* The administrator *)

(* Unpairing, with the agent or locally only. *)
Unpair(c, remote) ==
    LET a == paired_with[c]
    IN /\ edits < MaxEdits
       /\ a # NoAgent
       /\ remote => certificate[a] # NoCode
       /\ edits' = edits + 1
       /\ paired_with' = [paired_with EXCEPT ![c] = NoAgent]
       /\ IF remote
          THEN /\ certificate' = [certificate EXCEPT ![a] = NoCode]
               /\ csr' = [csr EXCEPT ![a] = 0]
          ELSE UNCHANGED agents
       /\ touched' = touched \cup {c}
       /\ UNCHANGED <<records, handler, asked, keys, granted, faults>>

(* Pairing with a pairing code of the agent. *)
PairManually(c, a) ==
    /\ edits < MaxEdits
    /\ certificate[a] = NoCode
    /\ edits' = edits + 1
    /\ paired_with' = [paired_with EXCEPT ![c] = a]
    /\ certificate' = [certificate EXCEPT ![a] = Manual]
    /\ csr' = [csr EXCEPT ![a] = 0]
    /\ touched' = touched \cup {c}
    /\ UNCHANGED <<records, handler, asked, keys, granted, faults>>

(* reset-pairing on the device. *)
ResetAgent(a) ==
    /\ edits < MaxEdits
    /\ edits' = edits + 1
    /\ certificate' = [certificate EXCEPT ![a] = NoCode]
    /\ csr' = [csr EXCEPT ![a] = 0]
    /\ UNCHANGED <<records, paired_with, handler, asked, keys, granted, touched,
                   faults>>

Handle(h) ==
    \/ ClaimExpired(h) \/ ClaimFirst(h) \/ ClaimAgain(h) \/ ClaimRefused(h)
    \/ Persist(h) \/ complete(h) \/ fail(h) \/ Dies(h)
    \/ \E received \in BOOLEAN : Respond(h, received)

Administrate ==
    \/ \E c \in Clients :
          \/ CheckUnpaired(c) \/ CreateRefused(c)
          \/ \E k \in Codes, status \in {"pending", "failed"} : create(c, k, status)
          \/ \E remote \in BOOLEAN : Unpair(c, remote)
          \/ \E a \in Agents : PairManually(c, a)
    \/ \E k \in Codes : bootstrap(k)

Next ==
    \/ Administrate
    \/ \E k \in Codes : Expire(k)
    \/ \E a \in Agents :
          ResetAgent(a) \/ \E k \in Codes, h \in Handlers : Ask(a, k, h)
    \/ \E h \in Handlers : Handle(h)

Spec == Init /\ [][Next]_vars

---------------------------------------------------------------------------
(* Properties *)

(* Every agent that asks has a request to show for it, and every claim is  *)
(* by an agent with its request (enrollAgent, claim).                      *)
TypeOK ==
    /\ records \in [Codes -> Records]
    /\ paired_with \in [Clients -> Agents \cup {NoAgent}]
    /\ handler \in [Handlers -> Requests]
    /\ asked \subseteq Clients
    /\ csr \in [Agents -> 0..MaxKeys]
    /\ certificate \in [Agents -> Codes \cup {NoCode, Manual}]
    /\ keys \in 0..MaxKeys
    /\ granted \subseteq Codes \X Applicants
    /\ touched \subseteq Clients
    /\ faults \in Nat
    /\ edits \in Nat

(* A client never has two codes that can be used or are being used: making *)
(* one replaces or refuses (create).                                       *)
OneLiveCode ==
    \A k, l \in Codes :
        /\ records[k].live /\ records[k].status \in {"pending", "processing"}
        /\ records[l].live /\ records[l].status \in {"pending", "processing"}
        /\ records[k].client = records[l].client
        => k = l

(* An agent that used a code can use it again until it expires, unless its *)
(* enrollment failed: no new code and no other agent takes it away         *)
(* (create, claim).                                                        *)
RetryPossible ==
    \A k \in Codes :
        records[k].claimed # Nobody /\ records[k].live =>
            records[k].status \in {"processing", "paired", "failed"}

(* An agent that holds a certificate from a code is the agent of the       *)
(* client in the configuration, whatever else was enrolled for that        *)
(* client, unless the administrator changed the pairing                    *)
(* (complete_agent_enrollment).                                            *)
EnrolledIsConfigured ==
    \A a \in Agents :
        certificate[a] \in Codes =>
            LET c == records[certificate[a]].client
            IN  paired_with[c] = a \/ c \in touched

(* A record that says paired names the agent of the client in the          *)
(* configuration, unless the administrator changed the pairing.            *)
PairedIsConfigured ==
    \A k \in Codes :
        records[k].status = "paired" =>
            LET c == records[k].client
            IN  paired_with[c] = records[k].claimed.agent \/ c \in touched

(* The promise of one-time codes: the store and its handlers implement     *)
(* OneTimeCode.                                                            *)
codes == INSTANCE OneTimeCode WITH
    owner <- [k \in Codes |-> records[k].client],
    open <- {k \in Codes : records[k].live /\ records[k].status = "pending"},
    bound <- [k \in Codes |-> records[k].claimed]

OneTimeCodes == codes!Spec
=============================================================================
