------------------------------ MODULE Identity ------------------------------
(***************************************************************************)
(* The identity of the controller: four files that are made when they are  *)
(* first needed (ensure_controller_identity of wolnut/agent_client.py).    *)
(* Main loop and web server have a SecurityStore each, with a lock of its  *)
(* own, over the same directory.                                           *)
(***************************************************************************)
EXTENDS Naturals

CONSTANTS Stores,
          MaxMade      \* bound on the identities made

(* In the order in which they are written. *)
Paths == <<"ca_key", "ca_cert", "client_key", "client_cert">>
Last == 4

VARIABLES made,      \* the identity each file belongs to, 0 without the file
          next,      \* the file a store writes next, 0 when it makes none
          key        \* the identity it is making

(* History: identities made; two stores made one at the same time since    *)
(* the directory was empty.                                                *)
VARIABLES identities, raced

vars == <<made, next, key, identities, raced>>

Init ==
    /\ made = [i \in 1..Last |-> 0]
    /\ next = [s \in Stores |-> 0]
    /\ key = [s \in Stores |-> 0]
    /\ identities = 0
    /\ raced = FALSE

Exists(i) == made[i] # 0
Whole == \A i \in 1..Last : Exists(i)

(* Faulty: anything but a whole identity is replaced. *)
MayCreate_partial == ~Whole

(* Nothing is there: a part is refused, a whole is used. *)
MayCreate == \A i \in 1..Last : ~Exists(i)

(* The keys are made before the first is written. *)
Create(s) ==
    /\ next[s] = 0 /\ MayCreate
    /\ identities < MaxMade /\ identities' = identities + 1
    /\ next' = [next EXCEPT ![s] = 1]
    /\ key' = [key EXCEPT ![s] = identities']
    /\ raced' = (raced \/ \E t \in Stores \ {s} : next[t] # 0)
    /\ UNCHANGED made

Following(i) == IF i = Last THEN 0 ELSE i + 1

(* _write_private: each file is replaced at once. *)
WritePrivate(s) ==
    /\ next[s] # 0
    /\ made' = [made EXCEPT ![next[s]] = key[s]]
    /\ next' = [next EXCEPT ![s] = Following(@)]
    /\ UNCHANGED <<key, identities, raced>>

(* The process dies, or a write fails. *)
Stops(S) ==
    /\ next' = [s \in Stores |-> IF s \in S THEN 0 ELSE next[s]]
    /\ UNCHANGED <<made, key, identities, raced>>

(* An administrator removes the files, as the error message says. *)
RemoveAll ==
    /\ made' = [i \in 1..Last |-> 0]
    /\ raced' = \E s \in Stores : next[s] # 0
    /\ UNCHANGED <<next, key, identities>>

---------------------------------------------------------------------------
Work(s) == Create(s) \/ WritePrivate(s) \/ Stops({s})

Next == (\E s \in Stores : Work(s)) \/ Stops(Stores) \/ RemoveAll

Spec == Init /\ [][Next]_vars
---------------------------------------------------------------------------
TypeOK ==
    /\ made \in [1..Last -> Nat]
    /\ next \in [Stores -> 0..Last]
    /\ key \in [Stores -> Nat]
    /\ identities \in Nat
    /\ raced \in BOOLEAN

(* The files that are there belong to one identity, whatever crashed while *)
(* one was made and whoever tried to make another, unless both stores made *)
(* one at the same time.                                                   *)
IdentityIsOne ==
    ~raced => \A i, j \in 1..Last : Exists(i) /\ Exists(j) => made[i] = made[j]

(* The inductive invariant behind IdentityIsOne: the one store that makes  *)
(* an identity has written the files before the next one, and the others   *)
(* are not there.                                                          *)
PartlyMade(s) ==
    /\ \A i \in 1..Last : i < next[s] => made[i] = key[s]
    /\ \A i \in 1..Last : i >= next[s] => ~Exists(i)

MakingInv ==
    /\ \A s, t \in Stores : next[s] # 0 /\ next[t] # 0 => s = t
    /\ \A s \in Stores : next[s] # 0 => PartlyMade(s)

IInv == TypeOK /\ (~raced => MakingInv) /\ IdentityIsOne
=============================================================================
