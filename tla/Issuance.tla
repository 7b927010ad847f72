------------------------------ MODULE Issuance ------------------------------
(***************************************************************************)
(* What issuance through CMP promises to cert-manager, without workers,    *)
(* records, retries or messages: a transaction speaks for one request, it  *)
(* ends in at most one confirmed certificate, and a request is issued only *)
(* with a certificate that was confirmed in a transaction of its own.      *)
(***************************************************************************)
EXTENDS Naturals

CONSTANTS
    Transaction,    \* transaction identifiers
    Certificate     \* certificates that can be issued under one of them

VARIABLES
    request,    \* the CertificateRequest under a name
    opened,     \* pairs of a transaction and the request it was opened for
    confirmed   \* pairs of a transaction and the certificate confirmed in it

vars == <<request, opened, confirmed>>

Init ==
    /\ request = [uid |-> 1, state |-> "pending", txn |-> 0, cert |-> 0]
    /\ opened = {}
    /\ confirmed = {}

\* A message is sent in transaction t for request u, now or earlier under the
\* name.
Open(t, u) ==
    /\ \A p \in opened : p[1] = t => p[2] = u
    /\ opened' = opened \cup {<<t, u>>}
    /\ UNCHANGED <<request, confirmed>>

\* The certificate c of transaction t becomes final at the server.
Confirm(t, c) ==
    /\ \E p \in opened : p[1] = t
    /\ \A p \in confirmed : p[1] # t
    /\ confirmed' = confirmed \cup {<<t, c>>}
    /\ UNCHANGED <<request, opened>>

Issue(t, c) ==
    /\ request.state # "absent"
    /\ <<t, request.uid>> \in opened
    /\ <<t, c>> \in confirmed
    /\ request' = [request EXCEPT !.state = "issued", !.txn = t, !.cert = c]
    /\ UNCHANGED <<opened, confirmed>>

Fail ==
    /\ request.state # "absent"
    /\ request' = [request EXCEPT !.state = "failed"]
    /\ UNCHANGED <<opened, confirmed>>

Delete ==
    /\ request.state # "absent"
    /\ request' = [request EXCEPT !.state = "absent", !.txn = 0, !.cert = 0]
    /\ UNCHANGED <<opened, confirmed>>

Create ==
    /\ request.state = "absent"
    /\ request' = [request EXCEPT !.uid = @ + 1, !.state = "pending"]
    /\ UNCHANGED <<opened, confirmed>>

Next ==
    \/ \E t \in Transaction :
          \/ \E u \in 1..request.uid : Open(t, u)
          \/ \E c \in Certificate : Confirm(t, c) \/ Issue(t, c)
    \/ Fail \/ Delete \/ Create

Spec == Init /\ [][Next]_vars
=============================================================================
