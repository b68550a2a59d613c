---------------------------- MODULE OneTimeCode ----------------------------
(***************************************************************************)
(* What one-time enrollment codes promise: a code is issued for a client   *)
(* and replaces the open one; whoever uses it first, and nobody else, is   *)
(* granted a certificate with it.                                          *)
(***************************************************************************)
EXTENDS Naturals

CONSTANTS Clients, Codes, Applicants,
          NoClient, Nobody

VARIABLES owner,        \* the client a code was issued for
          open,         \* codes that can still be taken up
          bound,        \* who took up a code
          granted       \* certificates: code and holder

vars == <<owner, open, bound, granted>>

Init ==
    /\ owner = [k \in Codes |-> NoClient]
    /\ open = {}
    /\ bound = [k \in Codes |-> Nobody]
    /\ granted = {}

(* A code is made, and is open unless something failed. *)
Issue(c, k) ==
    /\ owner[k] = NoClient
    /\ owner' = [owner EXCEPT ![k] = c]
    /\ \/ open' = {l \in open : owner[l] # c}
       \/ open' = {l \in open : owner[l] # c} \cup {k}
    /\ UNCHANGED <<bound, granted>>

Close(k) ==
    /\ open' = open \ {k}
    /\ UNCHANGED <<owner, bound, granted>>

Bind(k, who) ==
    /\ k \in open
    /\ bound[k] = Nobody
    /\ bound' = [bound EXCEPT ![k] = who]
    /\ open' = open \ {k}
    /\ UNCHANGED <<owner, granted>>

Grant(k, who) ==
    /\ bound[k] = who
    /\ granted' = granted \cup {<<k, who>>}
    /\ UNCHANGED <<owner, open, bound>>

Next ==
    \E k \in Codes :
        \/ \E c \in Clients : Issue(c, k)
        \/ Close(k)
        \/ \E who \in Applicants : Bind(k, who) \/ Grant(k, who)

Spec == Init /\ [][Next]_vars
=============================================================================
