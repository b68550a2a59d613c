-------------------------- MODULE EnrollmentProofs --------------------------
(***************************************************************************)
(* Proofs about Enrollment for every set of clients, agents, codes and     *)
(* handlers: its invariants, and that it implements OneTimeCode.           *)
(***************************************************************************)
EXTENDS Enrollment, TLAPS

USE EnrollmentAssumption

(* What a record looks like in each status. *)
ShapeOf(r) ==
    /\ r.client = NoClient <=> r.status = "none"
    /\ r.client = NoClient => r = NoRecord
    /\ r.status \in {"none", "pending", "superseded"} => r.claimed = Nobody
    /\ r.status \in {"processing", "paired"} => r.claimed # Nobody

Shape == \A k \in Codes : ShapeOf(records[k])

(* A request that passed its claim is one of the agent the code is bound   *)
(* to.                                                                     *)
HeldBy(q) ==
    /\ q.pc # "idle" =>
          q.code \in Codes /\ q.who \in Applicants /\ records[q.code] # NoRecord
    /\ q.pc \in {"persist", "complete", "respond"} =>
          records[q.code].claimed = q.who

Held == \A h \in Handlers : HeldBy(handler[h])

Configured(c, a) == paired_with[c] = a \/ c \in touched

(* Past the write of the configuration, the client has the agent. *)
PersistedBy(q) ==
    q.pc \in {"complete", "respond"} =>
        Configured(records[q.code].client, q.who.agent)

Persisted == \A h \in Handlers : PersistedBy(handler[h])

(* A certificate from a code names the agent of the code's client. *)
Certified ==
    \A a \in Agents :
        certificate[a] \in Codes =>
            /\ records[certificate[a]] # NoRecord
            /\ Configured(records[certificate[a]].client, a)

IInv ==
    /\ TypeOK
    /\ Shape
    /\ Held
    /\ Persisted
    /\ OneLiveCode
    /\ RetryPossible
    /\ Certified
    /\ PairedIsConfigured

---------------------------------------------------------------------------
(* Initial states *)

(* The record of a code that was never made. *)
LEMMA NoRecordType == NoRecord \in Records /\ ShapeOf(NoRecord)
  BY DEF NoRecord, Records, ShapeOf

(* The handler without a request. *)
LEMMA NoRequestType == NoRequest \in Requests
  BY DEF NoRequest, Requests

(* The empty store satisfies the invariant. *)
LEMMA Initially == Init => IInv
<1> SUFFICES ASSUME Init
             PROVE  IInv
  OBVIOUS
<1>1. TypeOK
  BY NoRecordType, NoRequestType DEF Init, TypeOK
<1>2. Shape
  BY NoRecordType DEF Init, Shape
<1>3. Held /\ Persisted
  BY DEF Init, Held, HeldBy, Persisted, PersistedBy, NoRequest
<1>4. OneLiveCode /\ RetryPossible /\ PairedIsConfigured
  BY DEF Init, OneLiveCode, RetryPossible, PairedIsConfigured, NoRecord
<1>5. Certified
  BY DEF Init, Certified
<1> QED
  BY <1>1, <1>2, <1>3, <1>4, <1>5 DEF IInv

---------------------------------------------------------------------------
(* Steps that change one record *)

(* What an operation of the store may make of a record: it stays with its  *)
(* client and with whoever took it up, does not come back to life, and is  *)
(* paired only when the configuration says so.                             *)
Lawful(old, r) ==
    /\ r.client = old.client
    /\ r.live => old.live
    /\ r.status \in {"pending", "processing"} =>
          old.status \in {"pending", "processing"}
    /\ old.claimed # Nobody => r.claimed = old.claimed
    /\ r.claimed # Nobody /\ r.live => r.status \in {"processing", "paired", "failed"}
    /\ r.status = "paired" => Configured(r.client, r.claimed.agent)
    /\ old # NoRecord /\ r # NoRecord

(* Such a step keeps what is said about records. *)
LEMMA RecordStep ==
    ASSUME IInv, NEW k \in Codes, NEW r \in Records, ShapeOf(r),
           Lawful(records[k], r),
           records' = [records EXCEPT ![k] = r],
           UNCHANGED <<paired_with, certificate, touched>>
    PROVE  /\ records' \in [Codes -> Records] /\ Shape' /\ OneLiveCode'
           /\ RetryPossible' /\ Certified' /\ PairedIsConfigured'
<1>1. records \in [Codes -> Records] /\ records' \in [Codes -> Records]
  BY DEF IInv, TypeOK
<1>2. \A l \in Codes : records'[l] = IF l = k THEN r ELSE records[l]
  BY <1>1
<1>3. \A l \in Codes : records'[l].client = records[l].client
  BY <1>2 DEF Lawful
<1>4. Shape'
  BY <1>2 DEF IInv, Shape, ShapeOf, NoRecord
<1>5. OneLiveCode'
  BY <1>2, <1>3 DEF IInv, OneLiveCode, Lawful
<1>6. RetryPossible'
  BY <1>2 DEF IInv, RetryPossible, Lawful
<1>7. Certified'
  BY <1>2, <1>3 DEF IInv, Certified, Configured, Lawful
<1>8. PairedIsConfigured'
  BY <1>2 DEF IInv, PairedIsConfigured, Lawful, Configured
<1> QED
  BY <1>1, <1>4, <1>5, <1>6, <1>7, <1>8

(* An agent is somebody. *)
LEMMA SomebodyApplies == \A who \in Applicants : who # Nobody
  BY DEF Applicants, Nobody

(* The requests that are being served are not disturbed by it, and one of  *)
(* them may move on.                                                       *)
LEMMA ServedStep ==
    ASSUME IInv, NEW k \in Codes, NEW r \in Records, Lawful(records[k], r),
           records' = [records EXCEPT ![k] = r],
           UNCHANGED <<paired_with, touched>>,
           NEW h \in Handlers, NEW q \in Requests,
           handler' = [handler EXCEPT ![h] = q], HeldBy(q)', PersistedBy(q)'
    PROVE  handler' \in [Handlers -> Requests] /\ Held' /\ Persisted'
<1>1. /\ records \in [Codes -> Records] /\ handler \in [Handlers -> Requests]
      /\ handler' \in [Handlers -> Requests]
  BY DEF IInv, TypeOK
<1>2. \A l \in Codes : records'[l] = IF l = k THEN r ELSE records[l]
  BY <1>1
<1>3. ASSUME NEW i \in Handlers, i # h
      PROVE  HeldBy(handler[i])' /\ PersistedBy(handler[i])'
  <2>1. HeldBy(handler[i]) /\ PersistedBy(handler[i])
    BY DEF IInv, Held, Persisted
  <2>2. handler'[i] = handler[i]
    BY <1>1, <1>3
  <2>3. HeldBy(handler[i])'
    BY <1>2, <2>1, <2>2, SomebodyApplies DEF HeldBy, Lawful
  <2>4. handler[i].pc \in {"complete", "respond"} => handler[i].code \in Codes
    BY <2>1 DEF HeldBy
  <2>5. PersistedBy(handler[i])'
    BY <1>2, <2>1, <2>2, <2>4 DEF PersistedBy, Configured, Lawful
  <2> QED  BY <2>3, <2>5
<1>4. handler'[h] = q
  BY <1>1
<1>5. HeldBy(handler[h])' /\ PersistedBy(handler[h])'
  BY <1>4 DEF HeldBy, PersistedBy, Configured
<1> QED
  BY <1>1, <1>3, <1>5 DEF Held, Persisted

(* The same when no record changes. *)
LEMMA QuietServedStep ==
    ASSUME IInv, UNCHANGED <<records, paired_with, touched>>,
           NEW h \in Handlers, NEW q \in Requests,
           handler' = [handler EXCEPT ![h] = q], HeldBy(q), PersistedBy(q)
    PROVE  handler' \in [Handlers -> Requests] /\ Held' /\ Persisted'
<1>1. /\ handler \in [Handlers -> Requests]
      /\ handler' \in [Handlers -> Requests]
  BY DEF IInv, TypeOK
<1>2. ASSUME NEW i \in Handlers
      PROVE  HeldBy(handler[i])' /\ PersistedBy(handler[i])'
  <2>1. HeldBy(handler[i]) /\ PersistedBy(handler[i])
    BY DEF IInv, Held, Persisted
  <2>2. handler'[i] = handler[i] \/ handler'[i] = q
    BY <1>1
  <2> QED  BY <2>1, <2>2 DEF HeldBy, PersistedBy, Configured
<1> QED
  BY <1>1, <1>2 DEF Held, Persisted

(* No request is being served without its code; an idle one says nothing.  *)
LEMMA IdleServed ==
    HeldBy(NoRequest) /\ PersistedBy(NoRequest) /\ HeldBy(NoRequest)'
        /\ PersistedBy(NoRequest)'
  BY DEF HeldBy, PersistedBy, NoRequest

(* What is said about records and pairings, when they do not change. *)
RecordsOK ==
    Shape /\ OneLiveCode /\ RetryPossible /\ PairedIsConfigured

LEMMA QuietRecords ==
    ASSUME IInv, UNCHANGED <<records, paired_with, touched>>
    PROVE  RecordsOK'
<1>1. Shape'
  BY DEF IInv, Shape, ShapeOf
<1>2. OneLiveCode' /\ RetryPossible' /\ PairedIsConfigured'
  BY DEF IInv, OneLiveCode, RetryPossible, PairedIsConfigured
<1> QED
  BY <1>1, <1>2 DEF RecordsOK

---------------------------------------------------------------------------
(* The requests of agents *)

(* What a request that passed its claim works on. *)
LEMMA Serving ==
    ASSUME IInv, NEW h \in Handlers, handler[h].pc # "idle"
    PROVE  /\ handler[h] \in Requests
           /\ handler[h].code \in Codes
           /\ handler[h].who \in Applicants
           /\ records[handler[h].code] \in Records
           /\ records[handler[h].code] # NoRecord
           /\ ShapeOf(records[handler[h].code])
           /\ HeldBy(handler[h])
           /\ PersistedBy(handler[h])
  BY DEF IInv, TypeOK, Held, HeldBy, Persisted, Shape

(* Asking sends the request the agent saved. *)
LEMMA AskStep ==
    ASSUME IInv, NEW a \in Agents, NEW k \in Codes, NEW h \in Handlers, Ask(a, k, h)
    PROVE  IInv'
<1> DEFINE q == [pc |-> "claim", code |-> k,
                 who |-> [agent |-> a, csr |-> pending_csr(a)]]
<1>1. csr[a] \in 0..MaxKeys /\ keys \in 0..MaxKeys
  BY DEF IInv, TypeOK
<1>2. keys' \in 0..MaxKeys
  BY <1>1 DEF Ask
<1>3. pending_csr(a) \in 1..MaxKeys
  BY <1>1 DEF Ask, pending_csr
<1>4. q \in Requests
  BY <1>3 DEF Requests, Applicants
<1>5. HeldBy(q) /\ PersistedBy(q)
  BY <1>3 DEF HeldBy, PersistedBy, Ask, Applicants
<1>6. handler' = [handler EXCEPT ![h] = q]
  BY DEF Ask
<1> HIDE DEF q
<1>7. UNCHANGED <<records, paired_with, asked, certificate, granted, touched,
                  faults, edits>>
  BY DEF Ask
<1>8. handler' \in [Handlers -> Requests] /\ Held' /\ Persisted'
  BY <1>4, <1>5, <1>6, <1>7, QuietServedStep
<1>9. csr' \in [Agents -> 0..MaxKeys]
  BY <1>3 DEF Ask, IInv, TypeOK
<1>10. TypeOK'
  BY <1>2, <1>7, <1>8, <1>9 DEF IInv, TypeOK
<1>11. RecordsOK'
  BY <1>7, QuietRecords
<1>12. Certified'
  BY <1>7 DEF IInv, Certified, Configured
<1> QED
  BY <1>8, <1>10, <1>11, <1>12 DEF IInv, RecordsOK

(* A request that ends, or passes its claim, without a change of records.  *)
LEMMA QuietStep ==
    ASSUME IInv, NEW h \in Handlers, NEW q \in Requests,
           handler' = [handler EXCEPT ![h] = q], HeldBy(q), PersistedBy(q),
           UNCHANGED <<records, paired_with, asked, agents, keys, granted, touched,
                       edits>>,
           faults' \in Nat
    PROVE  IInv'
<1>1. handler' \in [Handlers -> Requests] /\ Held' /\ Persisted'
  BY QuietServedStep
<1>2. RecordsOK'
  BY QuietRecords
<1>3. Certified'
  BY DEF IInv, Certified, Configured, agents
<1>4. TypeOK'
  BY <1>1 DEF IInv, TypeOK, agents
<1> QED
  BY <1>1, <1>2, <1>3, <1>4 DEF IInv, RecordsOK

(* A request that changes its record. *)
LEMMA StoreStep ==
    ASSUME IInv, NEW k \in Codes, NEW r \in Records, ShapeOf(r),
           Lawful(records[k], r), records' = [records EXCEPT ![k] = r],
           NEW h \in Handlers, NEW q \in Requests,
           handler' = [handler EXCEPT ![h] = q], HeldBy(q)', PersistedBy(q)',
           UNCHANGED <<paired_with, asked, agents, keys, granted, touched, edits>>,
           faults' \in Nat
    PROVE  IInv'
<1>1. /\ records' \in [Codes -> Records] /\ Shape' /\ OneLiveCode'
      /\ RetryPossible' /\ Certified' /\ PairedIsConfigured'
  BY RecordStep DEF agents
<1>2. handler' \in [Handlers -> Requests] /\ Held' /\ Persisted'
  BY ServedStep
<1>3. TypeOK'
  BY <1>1, <1>2 DEF IInv, TypeOK, agents
<1> QED
  BY <1>1, <1>2, <1>3 DEF IInv

(* An expired code is noted as such. *)
LEMMA ExpiredRecord ==
    ASSUME NEW old \in Records, old # NoRecord, ShapeOf(old), ~old.live
    PROVE  LET r == [old EXCEPT !.status = "expired"]
           IN  r \in Records /\ ShapeOf(r) /\ Lawful(old, r)
  BY DEF Records, ShapeOf, Lawful, NoRecord

(* claim() of an expired code. *)
LEMMA ClaimExpiredStep ==
    ASSUME IInv, NEW h \in Handlers, ClaimExpired(h)
    PROVE  IInv'
<1> DEFINE k == handler[h].code
           r == [records[k] EXCEPT !.status = "expired"]
<1>1. handler[h].pc # "idle" /\ ~records[k].live
  BY DEF ClaimExpired
<1>2. /\ k \in Codes /\ records[k] \in Records
      /\ records[k] # NoRecord /\ ShapeOf(records[k])
  BY <1>1, Serving
<1>3. r \in Records /\ ShapeOf(r) /\ Lawful(records[k], r)
  BY <1>1, <1>2, ExpiredRecord
<1>4. records' = [records EXCEPT ![k] = r]
  BY DEF ClaimExpired
<1>5. /\ handler' = [handler EXCEPT ![h] = NoRequest]
      /\ UNCHANGED <<paired_with, asked, agents, keys, granted, touched, edits>>
      /\ faults' \in Nat
  BY DEF ClaimExpired, history, IInv, TypeOK
<1> HIDE DEF k, r
<1> QED
  BY <1>2, <1>3, <1>4, <1>5, IdleServed, NoRequestType, StoreStep

(* The first claim binds the code to the agent and its request. *)
LEMMA ClaimFirstStep ==
    ASSUME IInv, NEW h \in Handlers, ClaimFirst(h)
    PROVE  IInv'
<1> DEFINE k == handler[h].code
           r == [records[k] EXCEPT !.status = "processing", !.claimed = handler[h].who]
<1>1. /\ handler[h].pc = "claim" /\ records[k].live
      /\ records[k].status = "pending"
  BY DEF ClaimFirst
<1>2. /\ k \in Codes /\ records[k] \in Records /\ handler[h] \in Requests
      /\ handler[h].who \in Applicants
      /\ records[k] # NoRecord /\ ShapeOf(records[k])
  BY <1>1, Serving
<1>3. /\ r \in Records /\ r.client = records[k].client /\ r.live = records[k].live
      /\ r.status = "processing" /\ r.claimed = handler[h].who
  BY <1>2 DEF Records
<1>4. handler[h].who # Nobody
  BY <1>2, SomebodyApplies
<1>5. r # NoRecord
  BY <1>3 DEF NoRecord
<1>6. ShapeOf(r)
  BY <1>1, <1>2, <1>3, <1>4, <1>5 DEF ShapeOf
<1>7. Lawful(records[k], r)
  BY <1>1, <1>2, <1>3, <1>4, <1>5 DEF ShapeOf, Lawful
<1>8. records' = [records EXCEPT ![k] = r]
  BY DEF ClaimFirst
<1>9. records'[k] = r
  BY <1>2, <1>8 DEF IInv, TypeOK
<1>10. PICK q \in Requests : q = [handler[h] EXCEPT !.pc = "persist"]
  <2>1. [handler[h] EXCEPT !.pc = "persist"] \in Requests
    BY <1>2 DEF Requests
  <2> QED  BY <2>1
<1>11. q.pc = "persist" /\ q.code = k /\ q.who = handler[h].who
  BY <1>2, <1>10 DEF Requests
<1>12. UNCHANGED <<paired_with, asked, agents, keys, granted, touched, edits>>
       /\ faults' \in Nat
  BY DEF ClaimFirst, history, IInv, TypeOK
<1>13. handler' = [handler EXCEPT ![h] = q]
  BY <1>2, <1>10 DEF ClaimFirst, Requests
<1> HIDE DEF k, r
<1>14. HeldBy(q)' /\ PersistedBy(q)'
  BY <1>2, <1>3, <1>5, <1>9, <1>11 DEF HeldBy, PersistedBy
<1> QED
  BY <1>2, <1>3, <1>6, <1>7, <1>8, <1>12, <1>13,
     <1>14, StoreStep

(* A retry goes on with the code it is bound to. *)
LEMMA ClaimAgainStep ==
    ASSUME IInv, NEW h \in Handlers, ClaimAgain(h)
    PROVE  IInv'
<1> DEFINE q == [handler[h] EXCEPT !.pc = "persist"]
<1>1. handler[h].pc = "claim" /\ records[handler[h].code].claimed = handler[h].who
  BY DEF ClaimAgain, SameApplicant
<1>2. handler[h] \in Requests /\ HeldBy(handler[h])
  BY <1>1, Serving
<1>3. /\ q \in Requests /\ q.pc = "persist" /\ q.code = handler[h].code
      /\ q.who = handler[h].who
  BY <1>2 DEF Requests
<1>4. handler' = [handler EXCEPT ![h] = q]
  BY DEF ClaimAgain
<1>5. UNCHANGED <<records, paired_with, asked, agents, keys, granted, touched, edits>>
      /\ faults' \in Nat
  BY DEF ClaimAgain, history, IInv, TypeOK
<1> HIDE DEF q
<1>6. HeldBy(q) /\ PersistedBy(q)
  BY <1>1, <1>2, <1>3 DEF HeldBy, PersistedBy
<1> QED
  BY <1>3, <1>4, <1>5, <1>6, QuietStep

(* A request that just ends. *)
LEMMA EndStep ==
    ASSUME IInv, NEW h \in Handlers, handler' = [handler EXCEPT ![h] = NoRequest],
           UNCHANGED <<records, paired_with, asked, agents, keys, granted, touched,
                       edits>>,
           faults' \in Nat
    PROVE  IInv'
  BY IdleServed, NoRequestType, QuietStep

(* Whatever writes the configuration keeps what is said about pairings, as *)
(* long as it takes no client from its agent without leaving a mark.       *)
LEMMA ConfigurationStep ==
    ASSUME IInv, UNCHANGED records,
           \A c \in Clients, b \in Agents : Configured(c, b) => Configured(c, b)'
    PROVE  /\ RecordsOK'
           /\ \A q \in Requests :
                 HeldBy(q) /\ PersistedBy(q) => HeldBy(q)' /\ PersistedBy(q)'
           /\ \A a \in Agents, k \in Codes :
                 certificate[a] = k =>
                    records'[k] # NoRecord /\ Configured(records[k].client, a)'
<1>1. /\ records \in [Codes -> Records] /\ records' = records
      /\ certificate \in [Agents -> Codes \cup {NoCode, Manual}]
  BY DEF IInv, TypeOK
<1>2. \A l \in Codes : records[l] # NoRecord => records[l].client \in Clients
  BY <1>1 DEF IInv, Shape, ShapeOf, Records
<1>3. ASSUME NEW l \in Codes, records[l].status = "paired"
      PROVE  Configured(records[l].client, records[l].claimed.agent)'
  <2>1. records[l].claimed # Nobody /\ records[l] \in Records
    BY <1>1, <1>3 DEF IInv, Shape, ShapeOf
  <2>2. records[l].claimed.agent \in Agents
    BY <2>1 DEF Records, Applicants
  <2>3. records[l].client \in Clients
    BY <1>2, <1>3 DEF NoRecord
  <2>4. Configured(records[l].client, records[l].claimed.agent)
    BY <1>3 DEF IInv, PairedIsConfigured, Configured
  <2> QED  BY <1>1, <2>2, <2>3, <2>4 DEF Configured
<1>4. PairedIsConfigured'
  BY <1>1, <1>3 DEF PairedIsConfigured, Configured
<1>5. Shape' /\ OneLiveCode' /\ RetryPossible'
  BY <1>1 DEF IInv, Shape, ShapeOf, OneLiveCode, RetryPossible
<1>6. ASSUME NEW q \in Requests, HeldBy(q), PersistedBy(q)
      PROVE  HeldBy(q)' /\ PersistedBy(q)'
  <2>1. HeldBy(q)'
    BY <1>1, <1>6 DEF HeldBy
  <2>2. ASSUME q.pc \in {"complete", "respond"}
        PROVE  Configured(records[q.code].client, q.who.agent)'
    <3>1. /\ q.code \in Codes /\ q.who \in Applicants
          /\ records[q.code] # NoRecord
      BY <1>6, <2>2 DEF HeldBy
    <3>2. records[q.code].client \in Clients /\ q.who.agent \in Agents
      BY <1>2, <3>1 DEF Applicants
    <3>3. Configured(records[q.code].client, q.who.agent)
      BY <1>6, <2>2 DEF PersistedBy
    <3> QED  BY <1>1, <3>2, <3>3 DEF Configured
  <2> QED  BY <2>1, <2>2 DEF PersistedBy, Configured
<1>7. ASSUME NEW a \in Agents, NEW k \in Codes, certificate[a] = k
      PROVE  records'[k] # NoRecord /\ Configured(records[k].client, a)'
  <2>1. records[k] # NoRecord /\ Configured(records[k].client, a)
    BY <1>7 DEF IInv, Certified
  <2>2. records[k].client \in Clients
    BY <1>2, <2>1
  <2> QED  BY <1>1, <2>1, <2>2 DEF Configured
<1> QED
  BY <1>4, <1>5, <1>6, <1>7 DEF RecordsOK

(* Writing the configuration takes no client from its agent, because the   *)
(* client was free or the agent's already.                                 *)
LEMMA PersistStep ==
    ASSUME IInv, NEW h \in Handlers, Persist(h)
    PROVE  IInv'
<1>1. handler[h].pc = "persist"
  BY DEF Persist
<1>2. /\ handler[h] \in Requests /\ HeldBy(handler[h])
      /\ handler[h].code \in Codes /\ handler[h].who \in Applicants
      /\ records[handler[h].code] \in Records
      /\ records[handler[h].code] # NoRecord
      /\ ShapeOf(records[handler[h].code])
  BY <1>1, Serving
<1>3. client(h) \in Clients /\ handler[h].who.agent \in Agents
  BY <1>2 DEF client, ShapeOf, Records, Applicants
<1>4. paired_with \in [Clients -> Agents \cup {NoAgent}]
  BY DEF IInv, TypeOK
<1>5. /\ paired_with[client(h)] \in {NoAgent, handler[h].who.agent}
      /\ paired_with' = [paired_with EXCEPT ![client(h)] = handler[h].who.agent]
  BY DEF Persist, Free
<1>6. /\ UNCHANGED <<records, asked, agents>>
      /\ UNCHANGED <<keys, granted, touched, faults, edits>>
  BY DEF Persist, history
<1>7. \A c \in Clients, b \in Agents : Configured(c, b) => Configured(c, b)'
  BY <1>3, <1>4, <1>5, <1>6 DEF Configured
<1>8. PICK q \in Requests : q = [handler[h] EXCEPT !.pc = "complete"]
  <2>1. [handler[h] EXCEPT !.pc = "complete"] \in Requests
    BY <1>2 DEF Requests
  <2> QED  BY <2>1
<1>9. q.pc = "complete" /\ q.code = handler[h].code /\ q.who = handler[h].who
  BY <1>2, <1>8 DEF Requests
<1>10. handler' = [handler EXCEPT ![h] = q]
  BY <1>2, <1>8 DEF Persist, Requests
<1>11. HeldBy(q)' /\ PersistedBy(q)'
  <2>1. HeldBy(q)'
    BY <1>1, <1>2, <1>6, <1>9 DEF HeldBy
  <2>2. paired_with'[client(h)] = handler[h].who.agent
    BY <1>3, <1>4, <1>5
  <2>3. PersistedBy(q)'
    BY <1>6, <1>9, <2>2 DEF PersistedBy, Configured, client
  <2> QED  BY <2>1, <2>3
<1>12. handler \in [Handlers -> Requests] /\ handler' \in [Handlers -> Requests]
  BY <1>10 DEF IInv, TypeOK
<1>13. /\ RecordsOK'
       /\ \A i \in Requests :
             HeldBy(i) /\ PersistedBy(i) => HeldBy(i)' /\ PersistedBy(i)'
       /\ \A a \in Agents, k \in Codes :
             certificate[a] = k =>
                records'[k] # NoRecord /\ Configured(records[k].client, a)'
  BY <1>6, <1>7, ConfigurationStep
<1>14. ASSUME NEW i \in Handlers
       PROVE  HeldBy(handler[i])' /\ PersistedBy(handler[i])'
  <2>1. PICK t \in Requests : t = handler'[i]
    BY <1>12
  <2>2. t = q \/ t = handler[i]
    BY <1>10, <1>12, <2>1
  <2>3. HeldBy(t)' /\ PersistedBy(t)'
    BY <1>11, <1>13, <2>2 DEF IInv, Held, Persisted
  <2> QED  BY <2>1, <2>3 DEF HeldBy, PersistedBy, Configured
<1>15. Held' /\ Persisted'
  BY <1>14 DEF Held, Persisted
<1>16. Certified'
  BY <1>6, <1>13 DEF Certified, Configured, agents
<1>17. TypeOK'
  BY <1>3, <1>4, <1>5, <1>6, <1>12 DEF IInv, TypeOK, agents
<1> QED
  BY <1>13, <1>15, <1>16, <1>17 DEF IInv, RecordsOK

(* complete() says paired when the configuration says so. *)
LEMMA CompleteStep ==
    ASSUME IInv, NEW h \in Handlers, complete(h)
    PROVE  IInv'
<1> DEFINE k == handler[h].code
           r == [records[k] EXCEPT !.status = "paired"]
<1>1. handler[h].pc = "complete"
  BY DEF complete
<1>2. /\ k \in Codes /\ records[k] \in Records /\ handler[h] \in Requests
      /\ handler[h].who \in Applicants /\ HeldBy(handler[h])
      /\ PersistedBy(handler[h])
      /\ records[k] # NoRecord /\ ShapeOf(records[k])
  BY <1>1, Serving
<1>3. /\ records[k].claimed = handler[h].who /\ records[k].claimed # Nobody
      /\ Configured(records[k].client, handler[h].who.agent)
  BY <1>1, <1>2, SomebodyApplies DEF HeldBy, PersistedBy
<1>4. /\ r \in Records /\ r.client = records[k].client /\ r.live = records[k].live
      /\ r.status = "paired" /\ r.claimed = records[k].claimed
  BY <1>2 DEF Records
<1>5. r # NoRecord
  BY <1>4 DEF NoRecord
<1>6. ShapeOf(r)
  BY <1>2, <1>3, <1>4, <1>5 DEF ShapeOf, NoRecord
<1>7. Lawful(records[k], r)
  BY <1>2, <1>3, <1>4, <1>5 DEF Lawful
<1>8. records' = [records EXCEPT ![k] = r]
  BY DEF complete
<1>9. records'[k] = r
  BY <1>2, <1>8 DEF IInv, TypeOK
<1>10. PICK q \in Requests : q = [handler[h] EXCEPT !.pc = "respond"]
  <2>1. [handler[h] EXCEPT !.pc = "respond"] \in Requests
    BY <1>2 DEF Requests
  <2> QED  BY <2>1
<1>11. q.pc = "respond" /\ q.code = k /\ q.who = handler[h].who
  BY <1>2, <1>10 DEF Requests
<1>12. UNCHANGED <<paired_with, asked, agents, keys, granted, touched, edits>>
       /\ faults' \in Nat
  BY DEF complete, history, IInv, TypeOK
<1>13. handler' = [handler EXCEPT ![h] = q]
  BY <1>2, <1>10 DEF complete, Requests
<1> HIDE DEF k, r
<1>14. HeldBy(q)'
  BY <1>2, <1>3, <1>4, <1>5, <1>9, <1>11 DEF HeldBy
<1>15. PersistedBy(q)'
  BY <1>3, <1>4, <1>9, <1>11, <1>12 DEF PersistedBy, Configured
<1> QED
  BY <1>2, <1>4, <1>6, <1>7, <1>8, <1>12, <1>13, <1>14, <1>15, StoreStep

(* fail() changes nothing but the record. *)
LEMMA FailStep ==
    ASSUME IInv, NEW h \in Handlers, fail(h)
    PROVE  IInv'
<1> DEFINE k == handler[h].code
           r == [records[k] EXCEPT !.status = "failed"]
<1>1. handler[h].pc # "idle"
  BY DEF fail
<1>2. /\ k \in Codes /\ records[k] \in Records
      /\ records[k] # NoRecord /\ ShapeOf(records[k])
  BY <1>1, Serving
<1>3. /\ r \in Records /\ r.client = records[k].client /\ r.live = records[k].live
      /\ r.status = "failed" /\ r.claimed = records[k].claimed
  BY <1>2 DEF Records
<1>4. r # NoRecord
  BY <1>3 DEF NoRecord
<1>5. ShapeOf(r)
  BY <1>2, <1>3, <1>4 DEF ShapeOf, NoRecord
<1>6. Lawful(records[k], r)
  BY <1>2, <1>3, <1>4 DEF Lawful
<1>7. /\ records' = [records EXCEPT ![k] = r]
      /\ handler' = [handler EXCEPT ![h] = NoRequest]
      /\ UNCHANGED <<paired_with, asked, agents, keys, granted, touched, edits>>
  BY DEF fail
<1>8. faults' \in Nat
  BY DEF fail, IInv, TypeOK
<1> HIDE DEF k, r
<1> QED
  BY <1>2, <1>3, <1>5, <1>6, <1>7, <1>8, IdleServed, NoRequestType, StoreStep

(* The answer gives the certificate to the agent of the client. *)
LEMMA RespondStep ==
    ASSUME IInv, NEW h \in Handlers, NEW received \in BOOLEAN, Respond(h, received)
    PROVE  IInv'
<1>1. handler[h].pc = "respond"
  BY DEF Respond
<1>2. /\ handler[h].code \in Codes /\ handler[h].who \in Applicants
      /\ records[handler[h].code] # NoRecord /\ PersistedBy(handler[h])
  BY <1>1, Serving
<1>3. /\ UNCHANGED <<records, paired_with, asked, keys, touched, faults, edits>>
      /\ handler' = [handler EXCEPT ![h] = NoRequest]
      /\ granted' = granted \cup {<<handler[h].code, handler[h].who>>}
  BY DEF Respond
<1>4. handler' \in [Handlers -> Requests] /\ Held' /\ Persisted'
  BY <1>3, IdleServed, NoRequestType, QuietServedStep
<1>5. RecordsOK'
  BY <1>3, QuietRecords
<1>6. \/ UNCHANGED agents
      \/ /\ certificate' = [certificate EXCEPT ![handler[h].who.agent] =
                               handler[h].code]
         /\ csr' = [csr EXCEPT ![handler[h].who.agent] = 0]
  BY DEF Respond
<1>7. /\ certificate \in [Agents -> Codes \cup {NoCode, Manual}]
      /\ csr \in [Agents -> 0..MaxKeys] /\ handler[h].who.agent \in Agents
  BY <1>2 DEF IInv, TypeOK, Applicants
<1>8. /\ certificate' \in [Agents -> Codes \cup {NoCode, Manual}]
      /\ csr' \in [Agents -> 0..MaxKeys]
  BY <1>2, <1>6, <1>7 DEF agents
<1>9. granted' \subseteq Codes \X Applicants
  BY <1>2, <1>3 DEF IInv, TypeOK
<1>10. TypeOK'
  BY <1>3, <1>4, <1>8, <1>9 DEF IInv, TypeOK
<1>11. Configured(records[handler[h].code].client, handler[h].who.agent)
  BY <1>1, <1>2 DEF PersistedBy
<1>12. ASSUME NEW a \in Agents, certificate'[a] \in Codes
       PROVE  /\ records[certificate'[a]] # NoRecord
              /\ Configured(records[certificate'[a]].client, a)
  <2>1. \/ certificate'[a] = certificate[a]
        \/ a = handler[h].who.agent /\ certificate'[a] = handler[h].code
    BY <1>6, <1>7 DEF agents
  <2> QED  BY <1>2, <1>11, <1>12, <2>1 DEF IInv, Certified
<1>13. Certified'
  BY <1>3, <1>12 DEF Certified, Configured
<1> QED
  BY <1>4, <1>5, <1>10, <1>13 DEF IInv, RecordsOK

---------------------------------------------------------------------------
(* Making and aging codes *)

(* create() leaves the other codes of the client useless and everything    *)
(* that is being served alone.                                             *)
LEMMA CreateStep ==
    ASSUME IInv, NEW c \in Clients, NEW k \in Codes,
           NEW status \in {"pending", "failed"}, create(c, k, status)
    PROVE  IInv'
<1> DEFINE r == [client |-> c, live |-> TRUE, status |-> status, claimed |-> Nobody]
<1>1. /\ records \in [Codes -> Records] /\ records[k] = NoRecord /\ ~InProgress(c)
      /\ records' = [l \in Codes |-> IF l = k THEN r ELSE Replaced(records[l], c)]
      /\ asked' = asked \ {c}
      /\ UNCHANGED <<paired_with, handler, agents, history>>
  BY DEF create, IInv, TypeOK
<1>2. /\ r \in Records /\ ShapeOf(r) /\ r # NoRecord /\ r.status # "paired"
      /\ r.status # "processing" /\ r.claimed = Nobody /\ r.client = c
  BY DEF Records, ShapeOf, NoRecord
<1>3. records'[k] = r
  BY <1>1
<1> HIDE DEF r
<1>4. ASSUME NEW l \in Codes, l # k
      PROVE  /\ records'[l] \in Records /\ ShapeOf(records'[l])
             /\ records'[l].client = records[l].client
             /\ records'[l].claimed = records[l].claimed
             /\ records'[l].live = records[l].live
             /\ records'[l].status \in {"pending", "processing"} =>
                   records'[l] = records[l] /\ records[l].client # c
             /\ records'[l].status = "paired" => records'[l] = records[l]
             /\ records[l].claimed # Nobody /\ records[l].live =>
                   records'[l] = records[l]
             /\ records[l] # NoRecord => records'[l] # NoRecord
  <2>1. records'[l] = Replaced(records[l], c)
    BY <1>1, <1>4
  <2>2. records[l] \in Records /\ ShapeOf(records[l])
    BY <1>1 DEF IInv, Shape
  <2>3. CASE /\ records[l].client = c
             /\ records[l].status \in {"pending", "processing"}
    <3>1. records[l].live => records[l].status = "pending"
      BY <1>1, <2>3 DEF InProgress
    <3>2. /\ records'[l] = [records[l] EXCEPT !.status =
                                IF records[l].live THEN "superseded" ELSE "expired"]
      BY <2>1, <2>3 DEF Replaced
    <3>3. /\ records'[l] \in Records
          /\ records'[l].client = records[l].client
          /\ records'[l].claimed = records[l].claimed
          /\ records'[l].live = records[l].live
          /\ records'[l].status =
                IF records[l].live THEN "superseded" ELSE "expired"
      BY <2>2, <3>2 DEF Records
    <3>4. records'[l] # NoRecord /\ records[l].client # NoClient
      BY <2>2, <2>3, <3>3 DEF NoRecord, ShapeOf
    <3>5. records[l].live => records[l].claimed = Nobody
      BY <2>2, <3>1 DEF ShapeOf
    <3>6. ShapeOf(records'[l])
      BY <3>3, <3>4, <3>5 DEF ShapeOf
    <3> QED  BY <3>3, <3>4, <3>5, <3>6
  <2>4. CASE ~(/\ records[l].client = c
               /\ records[l].status \in {"pending", "processing"})
    <3>1. records'[l] = records[l]
      BY <2>1, <2>4 DEF Replaced
    <3> QED  BY <2>2, <2>4, <3>1
  <2> QED  BY <2>3, <2>4
<1>5. /\ records' \in [Codes -> Records]
  <2>1. \A l \in Codes : records'[l] \in Records
    BY <1>2, <1>3, <1>4
  <2> QED  BY <1>1, <2>1
<1>6. Shape'
  <2>1. \A l \in Codes : ShapeOf(records'[l])
    BY <1>2, <1>3, <1>4
  <2> QED  BY <2>1 DEF Shape, ShapeOf
<1>7. OneLiveCode'
  BY <1>2, <1>3, <1>4 DEF IInv, OneLiveCode
<1>8. RetryPossible'
  BY <1>2, <1>3, <1>4 DEF IInv, RetryPossible
<1>9. PairedIsConfigured'
  BY <1>1, <1>2, <1>3, <1>4 DEF IInv, PairedIsConfigured, history
<1>10. Certified'
  BY <1>1, <1>4 DEF IInv, Certified, Configured, agents, history
<1>11. ASSUME NEW h \in Handlers
       PROVE  HeldBy(handler[h])' /\ PersistedBy(handler[h])'
  <2>1. HeldBy(handler[h]) /\ PersistedBy(handler[h]) /\ handler'[h] = handler[h]
    BY <1>1 DEF IInv, Held, Persisted
  <2>2. handler[h].pc # "idle" =>
           handler[h].code \in Codes /\ handler[h].code # k
    BY <1>1, <2>1 DEF HeldBy
  <2>3. HeldBy(handler[h])'
    BY <1>4, <2>1, <2>2 DEF HeldBy
  <2>4. PersistedBy(handler[h])'
    BY <1>1, <1>4, <2>1, <2>2 DEF PersistedBy, Configured, history
  <2> QED  BY <2>3, <2>4
<1>12. Held' /\ Persisted'
  BY <1>11 DEF Held, Persisted
<1>13. TypeOK'
  BY <1>1, <1>5 DEF IInv, TypeOK, agents, history
<1> QED
  BY <1>6, <1>7, <1>8, <1>9, <1>10, <1>12, <1>13 DEF IInv

(* A record that ages, while no request moves. *)
LEMMA AgeStep ==
    ASSUME IInv, NEW k \in Codes, NEW r \in Records, ShapeOf(r),
           Lawful(records[k], r), records' = [records EXCEPT ![k] = r],
           UNCHANGED <<paired_with, handler, asked, agents, history>>
    PROVE  IInv'
<1>1. /\ records' \in [Codes -> Records] /\ Shape' /\ OneLiveCode'
      /\ RetryPossible' /\ Certified' /\ PairedIsConfigured'
  BY RecordStep DEF agents, history
<1>2. \A l \in Codes : records'[l] = IF l = k THEN r ELSE records[l]
  BY DEF IInv, TypeOK
<1>3. ASSUME NEW i \in Handlers
      PROVE  HeldBy(handler[i])' /\ PersistedBy(handler[i])'
  <2>1. HeldBy(handler[i]) /\ PersistedBy(handler[i]) /\ handler'[i] = handler[i]
    BY DEF IInv, Held, Persisted
  <2>2. HeldBy(handler[i])'
    BY <1>2, <2>1, SomebodyApplies DEF HeldBy, Lawful
  <2>3. handler[i].pc \in {"complete", "respond"} => handler[i].code \in Codes
    BY <2>1 DEF HeldBy
  <2>4. PersistedBy(handler[i])'
    BY <1>2, <2>1, <2>3 DEF PersistedBy, Configured, Lawful, history
  <2> QED  BY <2>2, <2>4
<1>4. Held' /\ Persisted'
  BY <1>3 DEF Held, Persisted
<1>5. TypeOK'
  BY <1>1 DEF IInv, TypeOK, agents, history
<1> QED
  BY <1>1, <1>4, <1>5 DEF IInv

(* A code expires. *)
LEMMA ExpireStep ==
    ASSUME IInv, NEW k \in Codes, Expire(k)
    PROVE  IInv'
<1> DEFINE r == [records[k] EXCEPT !.live = FALSE]
<1>1. records[k] \in Records /\ ShapeOf(records[k]) /\ records[k].live
  BY DEF IInv, TypeOK, Shape, Expire
<1>2. /\ r \in Records /\ r.client = records[k].client /\ r.live = FALSE
      /\ r.status = records[k].status /\ r.claimed = records[k].claimed
  BY <1>1 DEF Records
<1>3. records[k] # NoRecord
  BY <1>1 DEF NoRecord
<1>4. r.client # NoClient
  BY <1>1, <1>2, <1>3 DEF ShapeOf
<1>5. r # NoRecord
  BY <1>4 DEF NoRecord
<1>6. ShapeOf(r)
  BY <1>1, <1>2, <1>4 DEF ShapeOf
<1>7. r.status = "paired" => Configured(r.client, r.claimed.agent)
  BY <1>2 DEF IInv, PairedIsConfigured, Configured
<1>8. Lawful(records[k], r)
  BY <1>2, <1>3, <1>5, <1>7 DEF Lawful
<1>9. /\ records' = [records EXCEPT ![k] = r]
      /\ UNCHANGED <<paired_with, handler, asked, agents, history>>
  BY DEF Expire
<1> HIDE DEF r
<1> QED
  BY <1>2, <1>6, <1>8, <1>9, AgeStep

(* bootstrap() notes that a code has expired. *)
LEMMA BootstrapStep ==
    ASSUME IInv, NEW k \in Codes, bootstrap(k)
    PROVE  IInv'
<1> DEFINE r == [records[k] EXCEPT !.status = "expired"]
<1>1. /\ records[k] \in Records /\ ShapeOf(records[k]) /\ ~records[k].live
      /\ records[k] # NoRecord
  BY DEF IInv, TypeOK, Shape, bootstrap
<1>2. r \in Records /\ ShapeOf(r) /\ Lawful(records[k], r)
  BY <1>1, ExpiredRecord
<1>3. /\ records' = [records EXCEPT ![k] = r]
      /\ UNCHANGED <<paired_with, handler, asked, agents, history>>
  BY DEF bootstrap
<1> HIDE DEF r
<1> QED
  BY <1>2, <1>3, AgeStep

---------------------------------------------------------------------------
(* The administrator *)

(* Neither a change of pairings that leaves a mark nor the loss of a       *)
(* certificate disturbs what is being served.                              *)
LEMMA AdministratorStep ==
    ASSUME IInv, TypeOK', UNCHANGED <<records, handler>>,
           \A c \in Clients, b \in Agents : Configured(c, b) => Configured(c, b)',
           \A a \in Agents :
              certificate'[a] = certificate[a] \/ certificate'[a] \notin Codes
    PROVE  IInv'
<1>1. /\ RecordsOK'
      /\ \A i \in Requests :
            HeldBy(i) /\ PersistedBy(i) => HeldBy(i)' /\ PersistedBy(i)'
      /\ \A a \in Agents, k \in Codes :
            certificate[a] = k =>
               records'[k] # NoRecord /\ Configured(records[k].client, a)'
  BY ConfigurationStep
<1>2. ASSUME NEW h \in Handlers
      PROVE  HeldBy(handler[h])' /\ PersistedBy(handler[h])'
  <2>1. handler[h] \in Requests /\ HeldBy(handler[h]) /\ PersistedBy(handler[h])
    BY DEF IInv, TypeOK, Held, Persisted
  <2>2. PICK t \in Requests : t = handler[h]
    BY <2>1
  <2>3. HeldBy(t)' /\ PersistedBy(t)' /\ handler'[h] = t
    BY <1>1, <2>1, <2>2
  <2> QED  BY <2>3 DEF HeldBy, PersistedBy, Configured
<1>3. Held' /\ Persisted'
  BY <1>2 DEF Held, Persisted
<1>4. ASSUME NEW a \in Agents, certificate'[a] \in Codes
      PROVE  /\ records'[certificate'[a]] # NoRecord
             /\ \/ paired_with'[records'[certificate'[a]].client] = a
                \/ records'[certificate'[a]].client \in touched'
  BY <1>1, <1>4 DEF Configured
<1>5. Certified'
  BY <1>4 DEF Certified, Configured
<1> QED
  BY <1>1, <1>3, <1>5 DEF IInv, RecordsOK

(* Unpairing marks the client. *)
LEMMA UnpairStep ==
    ASSUME IInv, NEW c \in Clients, NEW remote \in BOOLEAN, Unpair(c, remote)
    PROVE  IInv'
<1>1. /\ paired_with[c] # NoAgent
      /\ paired_with' = [paired_with EXCEPT ![c] = NoAgent]
      /\ touched' = touched \cup {c} /\ edits' = edits + 1
      /\ UNCHANGED <<records, handler, asked, keys, granted, faults>>
      /\ \/ UNCHANGED agents
         \/ /\ certificate' = [certificate EXCEPT ![paired_with[c]] = NoCode]
            /\ csr' = [csr EXCEPT ![paired_with[c]] = 0]
  BY DEF Unpair
<1>2. /\ paired_with \in [Clients -> Agents \cup {NoAgent}]
      /\ certificate \in [Agents -> Codes \cup {NoCode, Manual}]
      /\ csr \in [Agents -> 0..MaxKeys]
  BY DEF IInv, TypeOK
<1>3. /\ certificate' \in [Agents -> Codes \cup {NoCode, Manual}]
      /\ csr' \in [Agents -> 0..MaxKeys]
      /\ \A a \in Agents :
            certificate'[a] = certificate[a] \/ certificate'[a] \notin Codes
  BY <1>1, <1>2 DEF agents
<1>4. TypeOK'
  BY <1>1, <1>3 DEF IInv, TypeOK
<1>5. \A d \in Clients, b \in Agents : Configured(d, b) => Configured(d, b)'
  BY <1>1, <1>2 DEF Configured
<1> QED
  BY <1>1, <1>3, <1>4, <1>5, AdministratorStep

(* So does pairing by hand. *)
LEMMA PairManuallyStep ==
    ASSUME IInv, NEW c \in Clients, NEW a \in Agents, PairManually(c, a)
    PROVE  IInv'
<1>1. /\ paired_with' = [paired_with EXCEPT ![c] = a]
      /\ touched' = touched \cup {c} /\ edits' = edits + 1
      /\ UNCHANGED <<records, handler, asked, keys, granted, faults>>
      /\ certificate' = [certificate EXCEPT ![a] = Manual]
      /\ csr' = [csr EXCEPT ![a] = 0]
  BY DEF PairManually
<1>2. /\ paired_with \in [Clients -> Agents \cup {NoAgent}]
      /\ certificate \in [Agents -> Codes \cup {NoCode, Manual}]
      /\ csr \in [Agents -> 0..MaxKeys]
  BY DEF IInv, TypeOK
<1>3. /\ certificate' \in [Agents -> Codes \cup {NoCode, Manual}]
      /\ csr' \in [Agents -> 0..MaxKeys]
      /\ \A b \in Agents :
            certificate'[b] = certificate[b] \/ certificate'[b] \notin Codes
  BY <1>1, <1>2
<1>4. TypeOK'
  BY <1>1, <1>2, <1>3 DEF IInv, TypeOK
<1>5. \A d \in Clients, b \in Agents : Configured(d, b) => Configured(d, b)'
  BY <1>1, <1>2 DEF Configured
<1> QED
  BY <1>1, <1>3, <1>4, <1>5, AdministratorStep

(* An agent that is reset loses its certificate. *)
LEMMA ResetAgentStep ==
    ASSUME IInv, NEW a \in Agents, ResetAgent(a)
    PROVE  IInv'
<1>1. /\ edits' = edits + 1
      /\ UNCHANGED <<records, paired_with, handler, asked, keys, granted, touched,
                     faults>>
      /\ certificate' = [certificate EXCEPT ![a] = NoCode]
      /\ csr' = [csr EXCEPT ![a] = 0]
  BY DEF ResetAgent
<1>2. /\ certificate \in [Agents -> Codes \cup {NoCode, Manual}]
      /\ csr \in [Agents -> 0..MaxKeys]
  BY DEF IInv, TypeOK
<1>3. /\ certificate' \in [Agents -> Codes \cup {NoCode, Manual}]
      /\ csr' \in [Agents -> 0..MaxKeys]
      /\ \A b \in Agents :
            certificate'[b] = certificate[b] \/ certificate'[b] \notin Codes
  BY <1>1, <1>2
<1>4. TypeOK'
  BY <1>1, <1>3 DEF IInv, TypeOK
<1>5. \A d \in Clients, b \in Agents : Configured(d, b) => Configured(d, b)'
  BY <1>1 DEF Configured
<1> QED
  BY <1>1, <1>3, <1>4, <1>5, AdministratorStep

(* Looking at the configuration, and giving up, touch nothing else. *)
LEMMA AskedStep ==
    ASSUME IInv, asked' \subseteq Clients,
           UNCHANGED <<records, paired_with, handler, agents, history>>
    PROVE  IInv'
<1>1. TypeOK'
  BY DEF IInv, TypeOK, agents, history
<1>2. \A d \in Clients, b \in Agents : Configured(d, b) => Configured(d, b)'
  BY DEF Configured, history
<1> QED
  BY <1>1, <1>2, AdministratorStep DEF agents

---------------------------------------------------------------------------
(* The invariant *)

(* Every step of the specification keeps it. *)
LEMMA Preserved == IInv /\ [Next]_vars => IInv'
<1> SUFFICES ASSUME IInv, [Next]_vars
             PROVE  IInv'
  OBVIOUS
<1>1. CASE UNCHANGED vars
  BY <1>1, AskedStep DEF vars, IInv, TypeOK
<1>2. ASSUME NEW h \in Handlers, Handle(h)
      PROVE  IInv'
  <2>1. CASE ClaimExpired(h)
    BY <2>1, ClaimExpiredStep
  <2>2. CASE ClaimFirst(h)
    BY <2>2, ClaimFirstStep
  <2>3. CASE ClaimAgain(h)
    BY <2>3, ClaimAgainStep
  <2>4. CASE ClaimRefused(h)
    BY <2>4, EndStep DEF ClaimRefused, history, IInv, TypeOK
  <2>5. CASE Persist(h)
    BY <2>5, PersistStep
  <2>6. CASE complete(h)
    BY <2>6, CompleteStep
  <2>7. CASE fail(h)
    BY <2>7, FailStep
  <2>8. CASE Dies(h)
    <3>1. faults' \in Nat
      BY <2>8 DEF Dies, IInv, TypeOK
    <3> QED
      BY <2>8, <3>1, EndStep DEF Dies
  <2>9. ASSUME NEW received \in BOOLEAN, Respond(h, received)
        PROVE  IInv'
    BY <2>9, RespondStep
  <2> QED
    BY <1>2, <2>1, <2>2, <2>3, <2>4, <2>5, <2>6, <2>7, <2>8, <2>9 DEF Handle
<1>3. CASE Administrate
  <2>1. ASSUME NEW c \in Clients, CheckUnpaired(c)
        PROVE  IInv'
    BY <2>1, AskedStep DEF CheckUnpaired, IInv, TypeOK
  <2>2. ASSUME NEW c \in Clients, CreateRefused(c)
        PROVE  IInv'
    BY <2>2, AskedStep DEF CreateRefused, IInv, TypeOK
  <2>3. ASSUME NEW c \in Clients, NEW k \in Codes,
               NEW status \in {"pending", "failed"}, create(c, k, status)
        PROVE  IInv'
    BY <2>3, CreateStep
  <2>4. ASSUME NEW c \in Clients, NEW remote \in BOOLEAN, Unpair(c, remote)
        PROVE  IInv'
    BY <2>4, UnpairStep
  <2>5. ASSUME NEW c \in Clients, NEW a \in Agents, PairManually(c, a)
        PROVE  IInv'
    BY <2>5, PairManuallyStep
  <2>6. ASSUME NEW k \in Codes, bootstrap(k)
        PROVE  IInv'
    BY <2>6, BootstrapStep
  <2> QED
    BY <1>3, <2>1, <2>2, <2>3, <2>4, <2>5, <2>6 DEF Administrate
<1>4. ASSUME NEW k \in Codes, Expire(k)
      PROVE  IInv'
  BY <1>4, ExpireStep
<1>5. ASSUME NEW a \in Agents, ResetAgent(a)
      PROVE  IInv'
  BY <1>5, ResetAgentStep
<1>6. ASSUME NEW a \in Agents, NEW k \in Codes, NEW h \in Handlers, Ask(a, k, h)
      PROVE  IInv'
  BY <1>6, AskStep
<1> QED
  BY <1>1, <1>2, <1>3, <1>4, <1>5, <1>6 DEF Next

(* The inductive invariant of the enrollment (enrollment.py, the handlers  *)
(* of web.py).                                                             *)
THEOREM EnrollmentInvariant == Spec => []IInv
  BY Initially, Preserved, PTL DEF Spec

(* Every claim and every certificate is of an agent with its request.      *)
THEOREM EnrollmentTypeCorrect == Spec => []TypeOK
<1>1. IInv => TypeOK
  BY DEF IInv
<1> QED
  BY <1>1, EnrollmentInvariant, PTL

(* create() never leaves a client with two codes in use.                   *)
THEOREM OneCodeAtATime == Spec => []OneLiveCode
<1>1. IInv => OneLiveCode
  BY DEF IInv
<1> QED
  BY <1>1, EnrollmentInvariant, PTL

(* A code that was taken up stays with its agent: claim() lets it retry.   *)
THEOREM RetriesStayPossible == Spec => []RetryPossible
<1>1. IInv => RetryPossible
  BY DEF IInv
<1> QED
  BY <1>1, EnrollmentInvariant, PTL

(* A certificate handed out by complete_agent_enrollment() is one of the   *)
(* agent in the configuration.                                             *)
THEOREM CertificatesAgree == Spec => []EnrolledIsConfigured
<1>1. IInv => EnrolledIsConfigured
  BY DEF IInv, Certified, EnrolledIsConfigured, Configured
<1> QED
  BY <1>1, EnrollmentInvariant, PTL

(* A record that complete() leaves as paired names the agent in the        *)
(* configuration.                                                          *)
THEOREM RecordsAgree == Spec => []PairedIsConfigured
<1>1. IInv => PairedIsConfigured
  BY DEF IInv, Certified, PairedIsConfigured, Configured
<1> QED
  BY <1>1, EnrollmentInvariant, PTL

---------------------------------------------------------------------------
(* One-time codes *)

(* The values of OneTimeCode's variables. *)
owner == [k \in Codes |-> records[k].client]
open == {k \in Codes : records[k].live /\ records[k].status = "pending"}
bound == [k \in Codes |-> records[k].claimed]

(* A record that is no longer open is a code that closes. *)
LEMMA Closing ==
    ASSUME IInv, NEW k \in Codes, NEW r \in Records,
           records' = [records EXCEPT ![k] = r],
           r.client = records[k].client, r.claimed = records[k].claimed,
           ~(r.live /\ r.status = "pending"),
           UNCHANGED granted
    PROVE  codes!Next
<1>1. \A l \in Codes : records'[l] = IF l = k THEN r ELSE records[l]
  BY DEF IInv, TypeOK
<1>2. owner' = owner /\ bound' = bound
  BY <1>1 DEF owner, bound
<1>3. open' = open \ {k}
  BY <1>1 DEF open
<1>4. codes!Close(k)
  BY <1>2, <1>3 DEF codes!Close, owner, open, bound
<1> QED
  BY <1>4 DEF codes!Next

(* A step that leaves the records alone, and hands out no certificate, is  *)
(* none of OneTimeCode.                                                    *)
LEMMA Stuttering == UNCHANGED <<records, granted>> => UNCHANGED codes!vars
  BY DEF codes!vars

(* Making a code issues it. *)
LEMMA Issuing ==
    ASSUME IInv, NEW c \in Clients, NEW k \in Codes,
           NEW status \in {"pending", "failed"}, create(c, k, status)
    PROVE  codes!Next
<1>1. /\ records \in [Codes -> Records] /\ records[k] = NoRecord
      /\ \A l \in Codes :
            records'[l] = IF l = k
                          THEN [client |-> c, live |-> TRUE, status |-> status,
                                claimed |-> Nobody]
                          ELSE Replaced(records[l], c)
      /\ UNCHANGED granted
  BY DEF create, IInv, TypeOK, history
<1>2. \A l \in Codes : l # k =>
         /\ records'[l].client = records[l].client
         /\ records'[l].claimed = records[l].claimed
         /\ l \in open' <=> l \in open /\ records[l].client # c
  BY <1>1 DEF Replaced, Records, open
<1>3. /\ records'[k].client = c /\ records'[k].claimed = Nobody
      /\ k \in open' <=> status = "pending"
  BY <1>1 DEF open
<1>4. records[k].client = NoClient /\ records[k].claimed = Nobody /\ k \notin open
  BY <1>1 DEF NoRecord, open
<1>5. owner[k] = NoClient /\ owner' = [owner EXCEPT ![k] = c]
  BY <1>2, <1>3, <1>4 DEF owner
<1>6. bound' = bound
  BY <1>2, <1>3, <1>4 DEF bound
<1>7. \/ open' = {l \in open : owner[l] # c}
      \/ open' = {l \in open : owner[l] # c} \cup {k}
  <2>1. \A l \in open : l \in Codes /\ owner[l] = records[l].client
    BY DEF open, owner
  <2>2. \A l \in open' : l \in Codes
    BY DEF open
  <2>3. CASE status = "pending"
    BY <1>2, <1>3, <1>4, <2>1, <2>2, <2>3
  <2>4. CASE status # "pending"
    BY <1>2, <1>3, <1>4, <2>1, <2>2, <2>4
  <2> QED  BY <2>3, <2>4
<1>8. codes!Issue(c, k)
  BY <1>1, <1>5, <1>6, <1>7 DEF codes!Issue, owner, open, bound
<1> QED
  BY <1>8 DEF codes!Next

(* The first claim binds the code. *)
LEMMA Binding ==
    ASSUME IInv, NEW h \in Handlers, ClaimFirst(h)
    PROVE  codes!Next
<1>0. PICK k \in Codes, who \in Applicants : k = handler[h].code /\ who = handler[h].who
  <2>1. handler[h].pc # "idle"
    BY DEF ClaimFirst
  <2> QED  BY <2>1, Serving
<1>1. /\ handler[h].pc = "claim" /\ records[k].live
      /\ records[k].status = "pending"
      /\ records' = [records EXCEPT ![k] =
            [records[k] EXCEPT !.status = "processing", !.claimed = who]]
      /\ UNCHANGED granted
  BY <1>0 DEF ClaimFirst, history
<1>2. records[k] \in Records /\ ShapeOf(records[k])
  BY DEF IInv, TypeOK, Shape
<1>3. records[k].claimed = Nobody
  BY <1>1, <1>2 DEF ShapeOf
<1>4. \A l \in Codes :
         /\ records'[l].client = records[l].client
         /\ records'[l].claimed = IF l = k THEN who ELSE records[l].claimed
         /\ l # k => records'[l] = records[l]
  BY <1>1, <1>2 DEF IInv, TypeOK, Records
<1>5. records'[k].status = "processing"
  BY <1>1, <1>2 DEF IInv, TypeOK, Records
<1>6. owner' = owner /\ bound' = [bound EXCEPT ![k] = who]
  BY <1>2, <1>4 DEF owner, bound
<1>7. k \in open /\ open' = open \ {k}
  BY <1>1, <1>2, <1>4, <1>5 DEF open
<1>8. bound[k] = Nobody
  BY <1>2, <1>3 DEF bound
<1>9. codes!Bind(k, who)
  BY <1>1, <1>6, <1>7, <1>8 DEF codes!Bind, owner, open, bound
<1> QED
  BY <1>9 DEF codes!Next

(* The answer is a grant to whoever the code is bound to. *)
LEMMA Granting ==
    ASSUME IInv, NEW h \in Handlers, NEW received \in BOOLEAN, Respond(h, received)
    PROVE  codes!Next
<1> DEFINE k == handler[h].code
           who == handler[h].who
<1>1. /\ handler[h].pc = "respond"
      /\ UNCHANGED records
      /\ granted' = granted \cup {<<k, who>>}
  BY DEF Respond
<1>2. k \in Codes /\ who \in Applicants /\ HeldBy(handler[h])
  BY <1>1, Serving
<1>3. records[k].claimed = who
  BY <1>1, <1>2 DEF HeldBy
<1> HIDE DEF k, who
<1>4. bound[k] = who
  BY <1>2, <1>3 DEF bound
<1>5. UNCHANGED <<owner, open, bound>>
  BY <1>1 DEF owner, open, bound
<1>6. codes!Grant(k, who)
  BY <1>1, <1>4, <1>5 DEF codes!Grant, owner, open, bound
<1> QED
  BY <1>2, <1>6 DEF codes!Next

(* Every step is one of OneTimeCode or a stutter. *)
LEMMA Simulated == IInv /\ [Next]_vars => [codes!Next]_(codes!vars)
<1> SUFFICES ASSUME IInv, [Next]_vars
             PROVE  codes!Next \/ UNCHANGED codes!vars
  OBVIOUS
<1>1. CASE UNCHANGED vars
  BY <1>1, Stuttering DEF vars, history
<1>2. ASSUME NEW h \in Handlers, Handle(h)
      PROVE  codes!Next \/ UNCHANGED codes!vars
  <2> DEFINE k == handler[h].code
             old == records[k]
  <2>1. ASSUME handler[h].pc # "idle"
        PROVE  k \in Codes /\ old \in Records
    BY <2>1, Serving
  <2>2. ASSUME NEW status \in {"expired", "paired", "failed"},
               handler[h].pc # "idle", UNCHANGED granted,
               records' = [records EXCEPT ![k].status = status]
        PROVE  codes!Next
    <3>1. PICK r \in Records : r = [old EXCEPT !.status = status]
      <4>1. [old EXCEPT !.status = status] \in Records
        BY <2>1, <2>2 DEF Records
      <4> QED  BY <4>1
    <3>2. r.client = old.client /\ r.claimed = old.claimed /\ r.status = status
      BY <2>1, <2>2, <3>1 DEF Records
    <3>3. records' = [records EXCEPT ![k] = r]
      BY <2>2, <3>1
    <3> QED  BY <2>1, <2>2, <3>2, <3>3, Closing
  <2>3. CASE ClaimExpired(h)
    BY <2>2, <2>3 DEF ClaimExpired, history
  <2>4. CASE ClaimFirst(h)
    BY <2>4, Binding
  <2>5. CASE ClaimAgain(h)
    BY <2>5, Stuttering DEF ClaimAgain, history
  <2>6. CASE ClaimRefused(h)
    BY <2>6, Stuttering DEF ClaimRefused, history
  <2>7. CASE Persist(h)
    BY <2>7, Stuttering DEF Persist, history
  <2>8. CASE complete(h)
    BY <2>2, <2>8 DEF complete, history
  <2>9. CASE fail(h)
    BY <2>2, <2>9 DEF fail
  <2>10. CASE Dies(h)
    BY <2>10, Stuttering DEF Dies
  <2>11. ASSUME NEW received \in BOOLEAN, Respond(h, received)
         PROVE  codes!Next
    BY <2>11, Granting
  <2> HIDE DEF k, old
  <2> QED
    BY <1>2, <2>3, <2>4, <2>5, <2>6, <2>7, <2>8, <2>9, <2>10, <2>11 DEF Handle
<1>3. CASE Administrate
  <2>1. ASSUME NEW c \in Clients, NEW k \in Codes,
               NEW status \in {"pending", "failed"}, create(c, k, status)
        PROVE  codes!Next
    BY <2>1, Issuing
  <2>2. ASSUME NEW k \in Codes, bootstrap(k)
        PROVE  codes!Next
    <3>1. records[k] \in Records
      BY DEF IInv, TypeOK
    <3>2. PICK r \in Records : r = [records[k] EXCEPT !.status = "expired"]
      <4>1. [records[k] EXCEPT !.status = "expired"] \in Records
        BY <3>1 DEF Records
      <4> QED  BY <4>1
    <3>3. /\ r.client = records[k].client /\ r.claimed = records[k].claimed
          /\ r.status = "expired"
      BY <3>1, <3>2 DEF Records
    <3>4. records' = [records EXCEPT ![k] = r] /\ UNCHANGED granted
      BY <2>2, <3>2 DEF bootstrap, history
    <3> QED  BY <3>3, <3>4, Closing
  <2>3. ASSUME NEW c \in Clients,
               \/ CheckUnpaired(c) \/ CreateRefused(c)
               \/ \E remote \in BOOLEAN : Unpair(c, remote)
               \/ \E a \in Agents : PairManually(c, a)
        PROVE  UNCHANGED codes!vars
    BY <2>3, Stuttering
    DEF CheckUnpaired, CreateRefused, Unpair, PairManually, history
  <2> QED
    BY <1>3, <2>1, <2>2, <2>3 DEF Administrate
<1>4. ASSUME NEW k \in Codes, Expire(k)
      PROVE  codes!Next
  <2>1. records[k] \in Records
    BY DEF IInv, TypeOK
  <2>2. PICK r \in Records : r = [records[k] EXCEPT !.live = FALSE]
    <3>1. [records[k] EXCEPT !.live = FALSE] \in Records
      BY <2>1 DEF Records
    <3> QED  BY <3>1
  <2>3. /\ r.client = records[k].client /\ r.claimed = records[k].claimed
        /\ r.live = FALSE
    BY <2>1, <2>2 DEF Records
  <2>4. records' = [records EXCEPT ![k] = r] /\ UNCHANGED granted
    BY <1>4, <2>2 DEF Expire, history
  <2> QED  BY <2>3, <2>4, Closing
<1>5. ASSUME NEW a \in Agents,
             ResetAgent(a) \/ \E k \in Codes, h \in Handlers : Ask(a, k, h)
      PROVE  UNCHANGED codes!vars
  BY <1>5, Stuttering DEF ResetAgent, Ask
<1> QED
  BY <1>1, <1>2, <1>3, <1>4, <1>5 DEF Next

(* The store and its handlers implement one-time codes: whoever uses a     *)
(* code first, and nobody else, is granted a certificate with it.          *)
THEOREM ImplementsOneTimeCode == Spec => OneTimeCodes
<1>1. Init => codes!Init
  BY DEF Init, codes!Init, NoRecord
<1> QED
  BY <1>1, Simulated, EnrollmentInvariant, PTL DEF Spec, OneTimeCodes, codes!Spec
=============================================================================
