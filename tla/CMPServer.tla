------------------------------ MODULE CMPServer -----------------------------
(***************************************************************************)
(* The CMP server and the HTTP connection to it, for every transaction.    *)
(* Neither is part of the repository: they are modelled from what          *)
(* internal/protocol/client.go sends and from every answer it              *)
(* distinguishes.  Requests and answers may be lost or arrive late.        *)
(***************************************************************************)
EXTENDS CMPTransaction, CMPAnswers, FiniteSets

VARIABLES
    srv,    \* srv[t]: what the server knows of transaction t
    late    \* requests whose sender gave up, still on their way to the server

serverVars == <<srv, late>>

\* "confirming": certConf received and its answer delayed.  "confirmed":
\* pkiConf sent, or confirmation granted implicitly.
ServerState ==
    [state : {"unknown", "waiting", "issued", "confirming", "confirmed", "refused"},
     cert  : 0..MaxCert]

\* "confPoll" is the pollReq with certReqId -1 that asks for a delayed answer
\* to certConf, "reject" the certConf that refuses a certificate.
Message ==
    [id   : Txn,
     kind : {"enroll", "pollReq", "certConf", "confPoll", "reject"},
     cert : 0..MaxCert]

\* The answers the client tells apart.  "waiting" is a CP, IP or KUP with that
\* status or a pollRep; "nonce" says whether the answer carries a senderNonce.
Reply ==
    [kind  : {"waiting", "granted", "implicit", "pkiConf", "confWaiting",
              "permanent", "retryable"},
     cert  : 0..MaxCert,
     nonce : BOOLEAN]

ServerTypeOK ==
    /\ srv \in [Txn -> ServerState]
    /\ late \subseteq Message

ServerInit ==
    /\ srv = [t \in Txn |-> [state |-> "unknown", cert |-> 0]]
    /\ late = {}

Confirmed(t, c) == srv[t] = [state |-> "confirmed", cert |-> c]

\* MaxCert bounds the certificates of a transaction.
Answers(m) == {a \in AnswersTo(srv[m.id], m.kind, m.cert) : a.srv.cert <= MaxCert}

\* The server takes request m and answers with a.
Serve(m, a) ==
    /\ a \in Answers(m)
    /\ srv' = [srv EXCEPT ![m.id] = a.srv]

\* The late requests once m is one of them.
WithLate(m) == IF Cardinality(late) < MaxLate THEN {late \cup {m}} ELSE {}

\* What becomes of a request nobody waits for any more: it is lost, or it
\* reaches the server later.  Identical late requests count as one.
Abandon(m) ==
    /\ late' \in {late} \cup WithLate(m)
    /\ UNCHANGED srv

\* A late request reaches the server, whose answer goes nowhere.
LateRequest ==
    \E m \in late :
        /\ \E a \in Answers(m) : Serve(m, a)
        /\ late' = late \ {m}
=============================================================================
