----------------------------- MODULE CMPAnswers -----------------------------
(***************************************************************************)
(* How a CMP server may answer in one transaction, given what it knows of  *)
(* it.  The server is not part of the repository: it is modelled from what *)
(* internal/protocol/client.go sends and from every answer it              *)
(* distinguishes.  A server may answer a repeated request from its state,  *)
(* refuse it, or issue another certificate.                                *)
(***************************************************************************)
EXTENDS Naturals

Answer(s, k, c, n) == [srv |-> s, reply |-> [kind |-> k, cert |-> c, nonce |-> n]]

\* Answers that leave the server's state alone: a failure the client retries
\* and one it does not.
Errors(s) ==
    {Answer(s, k, 0, TRUE) : k \in {"retryable", "permanent"}}

Waiting(s) ==
    {Answer([s EXCEPT !.state = "waiting"], "waiting", 0, n) : n \in BOOLEAN}

\* A new certificate, with or without implicit confirmation.
Grant(s) ==
    {Answer([state |-> "issued", cert |-> s.cert + 1], "granted", s.cert + 1, TRUE),
     Answer([state |-> "confirmed", cert |-> s.cert + 1], "implicit", s.cert + 1, TRUE)}

\* A repeated request for a certificate that is already issued.
Repeat(s) == {Answer(s, "granted", s.cert, TRUE)} \cup Grant(s)

\* The answer to an enrollment request or to a poll for its delayed answer.  A
\* certificate that is final is handed out again.
CertificateAnswers(s) ==
    CASE s.state \in {"unknown", "waiting"} -> Waiting(s) \cup Grant(s)
      [] s.state = "issued" -> Repeat(s)
      [] s.state = "confirmed" -> {Answer(s, "implicit", s.cert, TRUE)}
      [] OTHER -> {}

PkiConf(s) == {Answer([s EXCEPT !.state = "confirmed"], "pkiConf", 0, TRUE)}

Delay(s) == {Answer([s EXCEPT !.state = "confirming"], "confWaiting", 0, TRUE)}

\* The answer to certConf for certificate c, or to a poll for that answer.
ConfirmationAnswers(s, c) ==
    CASE s.state \in {"issued", "confirming"} /\ s.cert = c -> PkiConf(s) \cup Delay(s)
      [] s.state = "confirmed" /\ s.cert = c -> PkiConf(s)
      [] OTHER -> {}

\* The answer to a certConf that refuses certificate c.
RejectionAnswers(s, c) ==
    IF s = [state |-> "issued", cert |-> c]
    THEN {Answer([s EXCEPT !.state = "refused"], "pkiConf", 0, TRUE)}
    ELSE {}

\* The answers to a message of this kind for certificate c.
AnswersTo(s, kind, c) ==
    Errors(s) \cup
    CASE kind \in {"enroll", "pollReq"}    -> CertificateAnswers(s)
      [] kind \in {"certConf", "confPoll"} -> ConfirmationAnswers(s, c)
      [] kind = "reject"                   -> RejectionAnswers(s, c)
=============================================================================
