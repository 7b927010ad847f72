--------------------------- MODULE ProtocolProofs ---------------------------
(***************************************************************************)
(* Proofs about ProtocolClient, for every set of scenarios: any requests,  *)
(* any certificates, any deviations, old answers that come again and any   *)
(* number of messages that are late, in any combination, and any number of *)
(* messages and certificates.                                              *)
(*                                                                         *)
(* The inductive invariant has four parts.  Agreement relates what the     *)
(* client holds to what the server has done, whatever the server deviates  *)
(* in.  MessageInv and LateInv say what the messages that are on their way *)
(* can still do, AnswersInv what the answers can.  Orderly says more of all*)
(* as long as nothing has deviated.                                        *)
(***************************************************************************)
EXTENDS ProtocolClient, TLAPS

\* The steps are first-order, up to those that name another prover.
USE Zenon

Body == {"cp", "ip", "kup"}

ForCertificate == Enrollment \cup {"pollReq"}
ForConfirmation == {"certConf", "confPoll"}

\* An answer with a certificate in it.
Grants(r) == r.type \in Body /\ r.cert # 0

\* The certificate in r is the one the server, in state s, has issued last.
Matches(r, s) ==
    r.cert = s.cert /\ r.kind = s.kind /\ r.status = s.status /\ r.implicit = s.implicit

\* The server's own state: it has a certificate as soon as it answered with one,
\* an implicit confirmation is final, and a refused certificate was bad.
ServerInv(s, q) ==
    /\ s.state \in {"unknown", "waiting"} <=> s.cert = 0
    /\ s.cert # 0 /\ s.implicit /\ q.implicitConfirm => s.state = "confirmed"
    /\ s.state = "refused" => Refused(s, q)
    /\ s.state = "confirmed" /\ ~(s.implicit /\ q.implicitConfirm) => ~Refused(s, q)
    /\ s.state = "waiting" => s.delayed # 0
    /\ s.version \in {2, confirmationVersion(q)}

\* What a message m is about is right for a server in state s: a certificate to
\* confirm was issued and is not to be refused, one to reject is, and either may
\* be older than the last.
Sane(m, s, q) ==
    /\ m.kind # "none"
    /\ m.kind \in ForConfirmation =>
          /\ m.version = confirmationVersion(q) /\ m.cert # 0 /\ m.cert <= s.cert
          /\ m.cert = s.cert => ~Refused(s, q)
    /\ m.kind = "reject" =>
          /\ m.cert # 0 /\ m.cert <= s.cert
          /\ m.cert = s.cert => Refused(s, q)

\* A message that a call waits on or has given up.
InFlight(m) ==
    /\ Sane(m, srv, request)
    /\ m.nonce # 0 /\ m.nonce <= sends
    /\ m.kind \in ForConfirmation =>
          call \in {"confirm", "done"} /\ (result # "fail" => m.cert = pending.cert)

LateInv == \A m \in late : InFlight(m) /\ (msg # NoMessage => m.nonce < sends)

\* The message a call waits on fits the call, and is the last one sent.
MessageInv ==
    /\ msg.kind = "none" <=> msg = NoMessage
    /\ msg # NoMessage => msg.nonce = sends /\ InFlight(msg)
    /\ call = "enroll" => msg.kind \in Enrollment \cup {"none", "reject"}
    /\ call = "poll" => msg.kind \in {"none", "pollReq", "reject"}
    /\ call = "confirm" => msg.kind \in {"none", "certConf", "confPoll"}
    /\ call = "done" => msg.kind = "none"
    /\ msg.kind = "certConf" <=> call = "confirm" /\ msg # NoMessage /\ pending.requestNonce = 0
    /\ srv.delayed <= sends

\* What the caller holds is what the server has done, and as long as no late
\* enrollment got another certificate, the last it has done.
Agreement ==
    /\ call \in {"enroll", "poll"} => srv.state # "confirming" /\ srv.version = 2
    /\ call = "poll" => srv.state # "unknown"
    /\ call = "confirm" =>
          /\ pending.cert # 0 /\ pending.cert <= srv.cert
          /\ pending.cert = srv.cert => ~Refused(srv, request)
          /\ ~overtaken => pending.cert = srv.cert
    /\ msg.kind = "reject" /\ ~overtaken => msg.cert = srv.cert
    /\ result \in {"issued", "confirmed", "fail"} => call = "done"
    /\ ConfirmedAtServer

\* The nonces that ConfirmP10CR accepts in an answer, now or in its next call.
ConfirmationNonce(n) ==
    \/ msg # NoMessage /\ n = sends
    \/ pending.requestNonce # 0 /\ n = pending.requestNonce

\* What the answers that may still arrive can do.
AnswersInv ==
    \A r \in answers :
       /\ r.recipNonce <= r.to /\ r.to <= sends
       /\ msg # NoMessage /\ ~msg.served => r.to < sends
       /\ r.cert <= srv.cert
       /\ Grants(r) /\ r.cert = srv.cert => Matches(r, srv)
       /\ Grants(r) /\ ImplicitlyConfirmed(r, request) => srv.state = "confirmed" /\ srv.cert = r.cert
       /\ call = "confirm" /\ r.type = "pkiConf" /\ ConfirmationNonce(r.recipNonce)
            => srv.state = "confirmed" /\ srv.cert = pending.cert
       /\ call = "enroll" /\ r.recipNonce = sends /\ r.type \in Body /\ r.status = "waiting"
            => srv.state # "unknown" /\ \A x \in answers : x.cert = 0
       /\ call = "enroll" /\ r.recipNonce = sends /\ Grants(r) /\ ~overtaken => r.cert = srv.cert
       /\ call = "poll" /\ Grants(r) /\ ~overtaken => r.cert = srv.cert

\* An answer to m of the form that a server in state s gives to every answer.
Formal(r, m, s, q) ==
    /\ r.author = "addressed" /\ r.sender = "addressed" /\ r.transaction = "this"
    /\ r.protection \in {"mac", "signature"} /\ r.signerUsage = TRUE
    /\ r.protection = "mac" => q.protection = "mac"
    /\ r.protection = "signature"
         => /\ signatureAccepted(q)
            /\ r.signerCarried \/ q.signerConfigured \/ m.signer = "addressed"
    /\ r.recipNonce = m.nonce \/ (m.kind \in {"pollReq", "confPoll"} /\ r.recipNonce = s.delayed)
    /\ r.to = m.nonce /\ r.senderNonce = m.nonce
    /\ r.parses = TRUE /\ r.entries = 1 /\ r.checkAfter = 0 /\ r.caPubs = FALSE

\* The server has no time, or refuses.
Unwilling(r) ==
    /\ r.type = "error" /\ r.status = "rejection" /\ r.cert = 0
    /\ r.failInfo \in {{"system"}, {"permanent"}}

\* What an orderly server answers, for its state s from then on.
Contents(r, m, s, q) ==
    /\ m.kind \in ForCertificate =>
          \/ Unwilling(r)
          \/ /\ r.type = ResponseBody[q.operation] /\ r.certReqID = ResponseID
             /\ r.status = "waiting" \/ (r.status \in {"accepted", "grantedWithMods"} /\ r.cert # 0)
          \/ m.kind = "pollReq" /\ r.type = "pollRep" /\ r.certReqID = ResponseID
    /\ m.kind \in Enrollment /\ r.type \in Body /\ r.status = "waiting"
         => s.state # "unknown" /\ s.delayed = m.nonce
    /\ m.kind \in ForConfirmation =>
          \/ Unwilling(r)
          \/ r.type = "pkiConf"
          \/ /\ m.kind = "certConf" /\ r.type = "error" /\ r.status = "waiting"
             /\ s.state \in {"confirming", "confirmed"} /\ s.delayed = m.nonce
          \/ m.kind = "confPoll" /\ r.type = "pollRep" /\ r.certReqID = -1

OrderlyAnswer(r, m, s, q) ==
    /\ Formal(r, m, s, q) /\ r.version \in {2, m.version}
    /\ Contents(r, m, s, q)
    /\ "permanent" \notin r.failInfo /\ ~Refused(r, q)

\* As long as nothing deviates.
Orderly ==
    ~disorder =>
       /\ result # "fail"
       /\ msg.kind # "reject"
       /\ call = "poll" =>
             /\ pending.recipNonce # 0 /\ pending.certReqID = ResponseID
             /\ pending.requestNonce = srv.delayed /\ srv.delayed # 0
       /\ call = "confirm" /\ pending.requestNonce # 0
            => srv.delayed = pending.requestNonce /\ srv.state \in {"confirming", "confirmed"}
       /\ msg # NoMessage =>
             \A r \in answers : r.to = sends => OrderlyAnswer(r, msg, srv, request)

ClientInv ==
    /\ TypeOK
    /\ ServerInv(srv, request)
    /\ MessageInv
    /\ LateInv
    /\ Agreement
    /\ AnswersInv
    /\ Orderly
    /\ AcceptedFromAuthority
-----------------------------------------------------------------------------
(* The server's answers. *)

\* An answer is addressed, protected and numbered as Formal says, and otherwise
\* empty.
LEMMA AnsweredFields ==
    ASSUME TypeOK, NEW m \in Message, NEW b, b \in Answered(m)
    PROVE  /\ b \in Response
           /\ Formal(b, m, srv, request)
           /\ b.version = srv.version /\ b.failInfo = {} /\ b.cert = 0
<1>1. PICK n \in EchoedNonce(m), p \in AnswerProtection, c \in SignerCarried(m) :
         b = AnswerTo(m, n, p, c)
  BY SMT DEF Answered
<1>2. m.nonce \in Nonce /\ srv.delayed \in Nonce /\ srv.version \in {2, 3}
  BY DEF TypeOK, Message, ServerState
<1>3. request \in Request
  BY ProtocolAssumption DEF TypeOK, Given
<1>4. p \in {"mac", "signature"} /\ n \in Nonce /\ c \in BOOLEAN
  BY <1>2, <1>3 DEF AnswerProtection, EchoedNonce, SignerCarried, Request
<1>5. NoResponse \in Response
  BY ProtocolAssumption, SMT DEF Response, NoResponse, Nonce, Cert, BodyType, Authority,
       CertificateKind
<1>6. b \in Response
  BY <1>1, <1>2, <1>4, <1>5 DEF Response, AnswerTo
<1>7. /\ b.author = "addressed" /\ b.sender = "addressed" /\ b.transaction = "this"
      /\ b.protection = p /\ b.signerUsage = TRUE /\ b.signerCarried = c
      /\ b.recipNonce = n /\ b.to = m.nonce /\ b.senderNonce = m.nonce
      /\ b.parses = TRUE /\ b.entries = 1 /\ b.checkAfter = 0 /\ b.caPubs = FALSE
      /\ b.version = srv.version /\ b.failInfo = {} /\ b.cert = 0
  BY <1>1 DEF AnswerTo, NoResponse
<1>8. n = m.nonce \/ (m.kind \in {"pollReq", "confPoll"} /\ n = srv.delayed)
  BY DEF EchoedNonce
<1>9. /\ p = "mac" => request.protection = "mac"
      /\ p = "signature" => signatureAccepted(request)
  BY <1>3 DEF AnswerProtection, signatureAccepted, Request
<1>10. c = TRUE \/ request.signerConfigured \/ m.signer = "addressed"
  BY DEF SignerCarried
<1>11. Formal(b, m, srv, request)
  BY <1>4, <1>7, <1>8, <1>9, <1>10 DEF Formal
<1> QED BY <1>6, <1>7, <1>11

\* What an orderly server may do on the message m, from an answer b of the form
\* above.
LEMMA ServerCases ==
    ASSUME NEW m, NEW a, a \in OrderlyAnswers(m),
           m.kind \in Enrollment \cup {"pollReq", "certConf", "confPoll", "reject"}
    PROVE  \E b \in Answered(m) :
              \/ a = Busy(b)
              \/ a = Rejects(b)
              \/ m.kind \in Enrollment \cup {"pollReq"} /\ a \in CertificateAnswers(m, b)
              \/ m.kind \in {"certConf", "confPoll"} /\ a \in ConfirmationAnswers(m, b)
              \/ m.kind = "reject" /\ a \in RejectionAnswers(m, b)
<1>1. PICK b \in Answered(m) : a \in AnswersFrom(m, b)
  BY DEF OrderlyAnswers
<1>2. CASE m.kind \in Enrollment \cup {"pollReq"}
  BY <1>1, <1>2 DEF AnswersFrom
<1>3. CASE m.kind \in {"certConf", "confPoll"}
  BY <1>1, <1>3 DEF AnswersFrom, Enrollment
<1>4. CASE m.kind = "reject"
  BY <1>1, <1>4 DEF AnswersFrom, Enrollment
<1> QED BY <1>2, <1>3, <1>4

\* The status of an answer.
Status == {"accepted", "grantedWithMods", "waiting", "rejection"}

\* An answer keeps its type when the server refuses with it,
LEMMA RefusalTyped ==
    ASSUME NEW b \in Response, NEW type \in BodyType, NEW status \in Status,
           NEW info \in SUBSET {"permanent", "system"}
    PROVE  [b EXCEPT !.type = type, !.status = status, !.failInfo = info] \in Response
BY DEF Response, Status

\* when its status is replaced,
LEMMA StatusTyped ==
    ASSUME NEW b \in Response, NEW type \in BodyType, NEW status \in Status
    PROVE  [b EXCEPT !.type = type, !.status = status] \in Response
BY DEF Response, Status

\* its certReqID,
LEMMA IDTyped ==
    ASSUME NEW b \in Response, NEW type \in BodyType, NEW id \in {-1, 0, 1}
    PROVE  [b EXCEPT !.type = type, !.certReqID = id] \in Response
BY DEF Response, Status

\* both of them,
LEMMA WaitingTyped ==
    ASSUME NEW b \in Response, NEW type \in BodyType, NEW id \in {-1, 0, 1},
           NEW status \in Status
    PROVE  [b EXCEPT !.type = type, !.certReqID = id, !.status = status] \in Response
BY DEF Response, Status

\* when a certificate is put into it,
LEMMA GrantedTyped ==
    ASSUME NEW b \in Response, NEW type \in BodyType, NEW id \in {-1, 0, 1},
           NEW s \in ServerState
    PROVE  [b EXCEPT !.type = type, !.certReqID = id, !.status = s.status, !.cert = s.cert,
                     !.kind = s.kind, !.implicit = s.implicit] \in Response
BY DEF Response, Status, ServerState

\* when it is signed,
LEMMA SignedTyped ==
    ASSUME NEW b \in Response
    PROVE  [b EXCEPT !.protection = "signature", !.signerCarried = TRUE] \in Response
BY DEF Response

\* and when another authority signs it.
LEMMA ForgedTyped ==
    ASSUME NEW b \in Response, NEW a \in Authority
    PROVE  [b EXCEPT !.protection = "signature", !.signerCarried = TRUE,
                     !.author = a, !.sender = a] \in Response
BY DEF Response

\* The certificate of the server's state is the same in s and t.
SameCertificate(s, t) ==
    t.cert = s.cert /\ t.kind = s.kind /\ t.status = s.status /\ t.implicit = s.implicit

\* What the server does on message m in state s, by the state t it reaches and
\* its answer r.  It is unwilling, has the client wait for the certificate, ...
Refuses(m, s, t, r) == t = s /\ Unwilling(r) /\ r.version = s.version

Delays(m, s, t, r) ==
    /\ m.kind \in Enrollment /\ s.state \in {"unknown", "waiting"}
    /\ t.state = "waiting" /\ t.delayed = m.nonce /\ t.version = s.version /\ SameCertificate(s, t)
    /\ r.type = ResponseBody[request.operation] /\ r.certReqID = ResponseID
    /\ r.status = "waiting" /\ r.cert = 0 /\ r.version = s.version

DelaysAgain(m, s, t, r) ==
    /\ m.kind = "pollReq" /\ s.state \in {"unknown", "waiting"} /\ t = s
    /\ r.type = "pollRep" /\ r.certReqID = ResponseID /\ r.cert = 0 /\ r.version = s.version

\* ... answers with the certificate it has or with a new one, ...
Repeats(m, s, t, r) ==
    /\ m.kind \in Enrollment \cup {"pollReq"} /\ t = s
    /\ s.state = "issued" \/ (s.state = "confirmed" /\ s.implicit)
    /\ r.type = ResponseBody[request.operation] /\ r.certReqID = ResponseID
    /\ Matches(r, t) /\ r.version = s.version

Issues(m, s, t, r) ==
    /\ \/ m.kind \in Enrollment \cup {"pollReq"} /\ s.state \in {"unknown", "waiting"}
       \/ m.kind \in Enrollment /\ s.state = "issued"
    /\ t.cert = s.cert + 1 /\ t.delayed = s.delayed /\ t.version = s.version
    /\ t.state = IF t.implicit /\ request.implicitConfirm THEN "confirmed" ELSE "issued"
    /\ r.type = ResponseBody[request.operation] /\ r.certReqID = ResponseID
    /\ Matches(r, t) /\ r.version = s.version

\* ... confirms, has the client wait for the confirmation, or takes a refusal.
Version(m, s) == IF m.version > s.version THEN m.version ELSE s.version

Confirms(m, s, t, r) ==
    /\ m.kind \in {"certConf", "confPoll"} /\ s.cert = m.cert
    /\ s.state \in {"issued", "confirming", "confirmed"}
    /\ t.state = "confirmed" /\ t.delayed = s.delayed /\ SameCertificate(s, t)
    /\ t.version = Version(m, s)
    /\ r.type = "pkiConf" /\ r.cert = 0 /\ r.version = t.version

DelaysConfirmation(m, s, t, r) ==
    /\ m.kind \in {"certConf", "confPoll"} /\ s.cert = m.cert
    /\ s.state \in {"issued", "confirming"}
    /\ SameCertificate(s, t) /\ t.version = Version(m, s)
    /\ \/ /\ m.kind = "certConf" /\ t.state = "confirming" /\ t.delayed = m.nonce
          /\ r.type = "error" /\ r.status = "waiting"
       \/ /\ m.kind = "confPoll" /\ t.state = s.state /\ t.delayed = s.delayed
          /\ r.type = "pollRep" /\ r.certReqID = -1
    /\ r.cert = 0 /\ r.version = t.version

TakesRefusal(m, s, t, r) ==
    /\ m.kind = "reject" /\ s.cert = m.cert /\ s.state = "issued"
    /\ t.state = "refused" /\ t.delayed = s.delayed /\ t.version = s.version
    /\ SameCertificate(s, t)
    /\ r.type = "pkiConf" /\ r.cert = 0 /\ r.version = s.version

Effect(m, s, t, r) ==
    \/ Refuses(m, s, t, r)
    \/ Delays(m, s, t, r)
    \/ DelaysAgain(m, s, t, r)
    \/ Repeats(m, s, t, r)
    \/ Issues(m, s, t, r)
    \/ Confirms(m, s, t, r)
    \/ DelaysConfirmation(m, s, t, r)
    \/ TakesRefusal(m, s, t, r)

\* The effects keep the types and the form of an answer.
Sound(m, t, r) == t \in ServerState /\ r \in Response /\ Formal(r, m, srv, request)

\* r differs from b only in what it says.
SameForm(r, b) ==
    /\ r.author = b.author /\ r.sender = b.sender /\ r.transaction = b.transaction
    /\ r.protection = b.protection /\ r.signerUsage = b.signerUsage
    /\ r.signerCarried = b.signerCarried /\ r.recipNonce = b.recipNonce /\ r.to = b.to
    /\ r.senderNonce = b.senderNonce /\ r.parses = b.parses /\ r.entries = b.entries
    /\ r.checkAfter = b.checkAfter /\ r.caPubs = b.caPubs

\* Changing what an answer says leaves its form alone.
LEMMA FormalKept ==
    ASSUME NEW b, NEW r, NEW m, NEW s, NEW q, Formal(b, m, s, q), SameForm(r, b)
    PROVE  Formal(r, m, s, q)
BY ZenonT(40) DEF Formal, SameForm

\* Every answer an orderly server may give has one of the effects above.
LEMMA ServerEffects ==
    ASSUME TypeOK, NEW m \in Message, m.kind # "none", NEW a, a \in OrderlyAnswers(m)
    PROVE  Sound(m, a.srv, a.base) /\ Effect(m, srv, a.srv, a.base)
<1>1. /\ m.kind \in Enrollment \cup {"pollReq", "certConf", "confPoll", "reject"}
      /\ m.nonce \in Nonce /\ m.version \in {2, 3}
  BY DEF Message
<1>2. request \in Request /\ srv \in ServerState /\ MaxCert \in Nat
  BY ProtocolAssumption DEF TypeOK, Given
<1>3. PICK b \in Answered(m) :
         \/ a = Busy(b)
         \/ a = Rejects(b)
         \/ m.kind \in Enrollment \cup {"pollReq"} /\ a \in CertificateAnswers(m, b)
         \/ m.kind \in {"certConf", "confPoll"} /\ a \in ConfirmationAnswers(m, b)
         \/ m.kind = "reject" /\ a \in RejectionAnswers(m, b)
  BY <1>1, ServerCases
<1>4. /\ b \in Response /\ Formal(b, m, srv, request)
      /\ b.version = srv.version /\ b.failInfo = {} /\ b.cert = 0
  BY AnsweredFields
<1>5. ResponseBody[request.operation] \in BodyType /\ ResponseID \in {-1, 0, 1}
  BY <1>2, SMT DEF ResponseBody, ResponseID, BodyType, Request
<1>6. ASSUME a = Busy(b) \/ a = Rejects(b)
      PROVE  Sound(m, a.srv, a.base) /\ Refuses(m, srv, a.srv, a.base)
  <2>1. a.srv = srv
    BY <1>6, SMT DEF Busy, Rejects, Answer
  <2>2. PICK f \in {"system", "permanent"} :
           a.base = [b EXCEPT !.type = "error", !.status = "rejection", !.failInfo = {f}]
    BY <1>6, SMT DEF Busy, Rejects, Answer
  <2>3. [b EXCEPT !.type = "error", !.status = "rejection", !.failInfo = {f}] \in Response
    <3>1. "error" \in BodyType /\ {f} \in SUBSET {"permanent", "system"}
      BY DEF BodyType
    <3> QED BY <1>2, <1>4, <3>1, RefusalTyped DEF Status
  <2>4. Unwilling(a.base) /\ a.base.version = srv.version
    BY <2>2, <1>4, SMT DEF Response, Unwilling
  <2>5. SameForm(a.base, b)
    BY <2>2, <1>4, SMT DEF Response, SameForm
  <2>6. Formal(a.base, m, srv, request)
    BY <1>4, <2>5, FormalKept
  <2> QED BY <1>2, <2>1, <2>2, <2>3, <2>4, <2>6 DEF Sound, Refuses
<1>7. ASSUME a = Waiting(m, b), m.kind \in Enrollment, srv.state \in {"unknown", "waiting"}
      PROVE  Sound(m, a.srv, a.base) /\ Delays(m, srv, a.srv, a.base)
  <2>1. /\ a.srv = [srv EXCEPT !.state = "waiting", !.delayed = m.nonce]
        /\ a.base = [b EXCEPT !.type = ResponseBody[request.operation], !.certReqID = ResponseID,
                              !.status = "waiting"]
    BY <1>7 DEF Waiting, Answer
  <2>2. a.base \in Response
    <3>1. [b EXCEPT !.type = ResponseBody[request.operation], !.certReqID = ResponseID,
                    !.status = "waiting"] \in Response
      BY <1>2, <1>4, <1>5, WaitingTyped DEF Status
    <3> QED BY <2>1, <3>1
  <2>3. a.srv \in ServerState
    BY <2>1, <1>1, <1>2 DEF ServerState
  <2>4. Formal(a.base, m, srv, request)
    <3>1. SameForm(a.base, b)
      BY <2>1, <1>4, SMT DEF Response, SameForm
    <3> QED BY <1>4, <3>1, FormalKept
  <2>5. Delays(m, srv, a.srv, a.base)
    BY <2>1, <1>2, <1>4, <1>7, SMT DEF Delays, SameCertificate, Response, ServerState
  <2> QED BY <2>2, <2>3, <2>4, <2>5 DEF Sound
<1>8. ASSUME a = Waiting(m, b), m.kind = "pollReq", srv.state \in {"unknown", "waiting"}
      PROVE  Sound(m, a.srv, a.base) /\ DelaysAgain(m, srv, a.srv, a.base)
  <2>1. /\ a.srv = srv
        /\ a.base = [b EXCEPT !.type = "pollRep", !.certReqID = ResponseID]
    BY <1>8 DEF Waiting, Answer, Enrollment
  <2>2. a.base \in Response
    <3>1. [b EXCEPT !.type = "pollRep", !.certReqID = ResponseID] \in Response
      BY <1>2, <1>4, <1>5, "pollRep" \in BodyType, IDTyped DEF BodyType
    <3> QED BY <2>1, <3>1
  <2>4. Formal(a.base, m, srv, request)
    <3>1. SameForm(a.base, b)
      BY <2>1, <1>4, SMT DEF Response, SameForm
    <3> QED BY <1>4, <3>1, FormalKept
  <2>5. DelaysAgain(m, srv, a.srv, a.base)
    BY <2>1, <1>4, <1>8, ZenonT(40) DEF DelaysAgain, Response
  <2> QED BY <1>2, <2>1, <2>2, <2>4, <2>5 DEF Sound
<1>9. ASSUME NEW s \in ServerState, a = Granted(s, b)
      PROVE  /\ a.srv = s /\ a.base \in Response /\ Formal(a.base, m, srv, request)
             /\ a.base.type = ResponseBody[request.operation] /\ a.base.certReqID = ResponseID
             /\ Matches(a.base, s) /\ a.base.version = srv.version
  <2>1. /\ a.srv = s
        /\ a.base = [b EXCEPT !.type = ResponseBody[request.operation], !.certReqID = ResponseID,
                              !.status = s.status, !.cert = s.cert, !.kind = s.kind,
                              !.implicit = s.implicit]
    BY <1>9 DEF Granted, Answer
  <2>2. a.base \in Response
    <3>1. [b EXCEPT !.type = ResponseBody[request.operation], !.certReqID = ResponseID,
                    !.status = s.status, !.cert = s.cert, !.kind = s.kind,
                    !.implicit = s.implicit] \in Response
      BY <1>4, <1>5, GrantedTyped
    <3> QED BY <2>1, <3>1
  <2>3. Formal(a.base, m, srv, request)
    <3>1. SameForm(a.base, b)
      BY <2>1, <1>4, SMT DEF Response, SameForm
    <3> QED BY <1>4, <3>1, FormalKept
  <2>4. /\ a.base.type = ResponseBody[request.operation] /\ a.base.certReqID = ResponseID
        /\ Matches(a.base, s) /\ a.base.version = srv.version
    BY <2>1, <1>4, SMT DEF Response, Matches
  <2> QED BY <2>1, <2>2, <2>3, <2>4
<1>10. ASSUME a = Granted(srv, b), m.kind \in Enrollment \cup {"pollReq"},
              srv.state = "issued" \/ (srv.state = "confirmed" /\ srv.implicit)
       PROVE  Sound(m, a.srv, a.base) /\ Repeats(m, srv, a.srv, a.base)
  BY <1>2, <1>9, <1>10 DEF Sound, Repeats
<1>11. ASSUME NEW s \in NewCertificate, a = Granted(s, b),
              \/ m.kind \in Enrollment \cup {"pollReq"} /\ srv.state \in {"unknown", "waiting"}
              \/ m.kind \in Enrollment /\ srv.state = "issued"
       PROVE  Sound(m, a.srv, a.base) /\ Issues(m, srv, a.srv, a.base)
  <2>1. PICK k \in Given.kinds, g \in {"accepted", "grantedWithMods"}, i \in BOOLEAN :
           s = Issue(k, g, i)
    BY <1>11, SMT DEF NewCertificate
  <2>2. srv.cert # MaxCert
    BY <1>11, SMT DEF NewCertificate
  <2>3. k \in CertificateKind
    BY ProtocolAssumption DEF TypeOK, Given
  <2>4. srv.cert \in Cert /\ srv.cert + 1 \in Cert
    BY <1>2, <2>2, SMT DEF ServerState, Cert
  <2>5. s \in ServerState
    BY <1>2, <2>1, <2>3, <2>4 DEF ServerState, Issue
  <2>6. /\ s.cert = srv.cert + 1 /\ s.delayed = srv.delayed /\ s.version = srv.version
        /\ s.implicit = i
        /\ s.state = IF i /\ request.implicitConfirm THEN "confirmed" ELSE "issued"
    BY <1>2, <2>1 DEF ServerState, Issue
  <2> QED BY <1>9, <1>11, <2>5, <2>6 DEF Sound, Issues
<1>12. ASSUME a \in CertificateAnswers(m, b), m.kind \in Enrollment \cup {"pollReq"}
       PROVE  Sound(m, a.srv, a.base) /\ Effect(m, srv, a.srv, a.base)
  <2>1. CASE srv.state \in {"unknown", "waiting"}
    <3>1. a = Waiting(m, b) \/ a = Rejects(b) \/ \E s \in NewCertificate : a = Granted(s, b)
      BY <1>12, <2>1 DEF CertificateAnswers
    <3> QED BY <1>6, <1>7, <1>8, <1>11, <1>12, <2>1, <3>1 DEF Effect
  <2>2. CASE srv.state = "issued"
    <3>1. \/ a = Granted(srv, b)
          \/ m.kind \in Enrollment /\ \E s \in NewCertificate : a = Granted(s, b)
      BY <1>12, <2>2 DEF CertificateAnswers
    <3> QED BY <1>10, <1>11, <1>12, <2>2, <3>1 DEF Effect
  <2>3. CASE srv.state = "confirmed" /\ srv.implicit
    <3>1. a = Granted(srv, b)
      BY <1>12, <2>3 DEF CertificateAnswers
    <3> QED BY <1>10, <1>12, <2>3, <3>1 DEF Effect
  <2>4. CASE srv.state \notin {"unknown", "waiting", "issued"} /\ ~(srv.state = "confirmed" /\ srv.implicit)
    <3>1. a = Rejects(b)
      BY <1>12, <2>4 DEF CertificateAnswers
    <3> QED BY <1>6, <3>1 DEF Effect
  <2> QED BY <2>1, <2>2, <2>3, <2>4
<1>13. ASSUME a \in ConfirmationAnswers(m, b), m.kind \in {"certConf", "confPoll"}
       PROVE  Sound(m, a.srv, a.base) /\ Effect(m, srv, a.srv, a.base)
  <2> DEFINE v == Version(m, srv)
             s == [srv EXCEPT !.version = v]
             c == [b EXCEPT !.version = v]
             done == Answer([s EXCEPT !.state = "confirmed"], [c EXCEPT !.type = "pkiConf"])
             delay == IF m.kind = "certConf"
                      THEN Answer([s EXCEPT !.state = "confirming", !.delayed = m.nonce],
                                  [c EXCEPT !.type = "error", !.status = "waiting"])
                      ELSE Answer(s, [c EXCEPT !.type = "pollRep", !.certReqID = -1])
  <2>1. \/ srv.state \in {"issued", "confirming", "confirmed"} /\ srv.cert = m.cert /\ a = done
        \/ srv.state \in {"issued", "confirming"} /\ srv.cert = m.cert /\ a = delay
        \/ a = Rejects(b)
    BY <1>13 DEF ConfirmationAnswers, Version
  <2>2. v \in {2, 3}
    BY <1>1, <1>2 DEF Version, ServerState
  <2>3. /\ c \in Response /\ Formal(c, m, srv, request)
        /\ c.version = v /\ c.failInfo = {} /\ c.cert = 0
    <3>1. c \in Response /\ c.version = v /\ c.failInfo = {} /\ c.cert = 0
      BY <1>4, <2>2, SMT DEF Response
    <3>2. Formal(c, m, srv, request)
      <4>1. SameForm(c, b)
        BY <1>4, <2>2, ZenonT(40) DEF Response, SameForm
      <4> QED BY <1>4, <4>1, FormalKept
    <3> QED BY <3>1, <3>2
  <2>4. /\ s \in ServerState /\ s.version = v /\ s.state = srv.state /\ s.delayed = srv.delayed
        /\ SameCertificate(srv, s)
    BY <1>2, <2>2 DEF ServerState, SameCertificate
  <2>5. ASSUME a = done, srv.state \in {"issued", "confirming", "confirmed"}, srv.cert = m.cert
        PROVE  Sound(m, a.srv, a.base) /\ Confirms(m, srv, a.srv, a.base)
    <3> HIDE DEF v, s, c
    <3>1. a.srv = [s EXCEPT !.state = "confirmed"] /\ a.base = [c EXCEPT !.type = "pkiConf"]
      BY <2>5 DEF Answer
    <3>2. a.srv \in ServerState /\ a.base \in Response
      BY <2>3, <2>4, <3>1, SMT DEF ServerState, Response, BodyType
    <3>3. Formal(a.base, m, srv, request)
      <4>1. SameForm(a.base, c)
        BY <2>3, <3>1, ZenonT(40) DEF Response, SameForm
      <4> QED BY <2>3, <4>1, FormalKept
    <3>4. Confirms(m, srv, a.srv, a.base)
      <4>1. /\ a.srv.state = "confirmed" /\ a.srv.delayed = srv.delayed /\ a.srv.version = v
            /\ SameCertificate(srv, a.srv)
        BY <2>4, <3>1 DEF ServerState, SameCertificate
      <4>2. a.base.type = "pkiConf" /\ a.base.cert = 0 /\ a.base.version = v
        BY <2>3, <3>1 DEF Response
      <4> QED BY <1>13, <2>5, <4>1, <4>2 DEF Confirms, v
    <3> QED BY <3>2, <3>3, <3>4 DEF Sound
  <2>6. ASSUME a = delay, m.kind = "certConf", srv.state \in {"issued", "confirming"},
               srv.cert = m.cert
        PROVE  Sound(m, a.srv, a.base) /\ DelaysConfirmation(m, srv, a.srv, a.base)
    <3> HIDE DEF v, s, c
    <3>1. /\ a.srv = [s EXCEPT !.state = "confirming", !.delayed = m.nonce]
          /\ a.base = [c EXCEPT !.type = "error", !.status = "waiting"]
      BY <2>6 DEF Answer
    <3>2. a.srv \in ServerState /\ a.base \in Response
      <4>1. [s EXCEPT !.state = "confirming", !.delayed = m.nonce] \in ServerState
        BY <1>1, <2>4 DEF ServerState
      <4>2. [c EXCEPT !.type = "error", !.status = "waiting"] \in Response
        BY <1>2, <2>3, StatusTyped DEF BodyType, Status
      <4> QED BY <3>1, <4>1, <4>2
    <3>3. Formal(a.base, m, srv, request)
      <4>1. SameForm(a.base, c)
        BY <2>3, <3>1, SMT DEF Response, SameForm
      <4> QED BY <2>3, <4>1, FormalKept
    <3>4. DelaysConfirmation(m, srv, a.srv, a.base)
      <4>1. /\ a.srv.state = "confirming" /\ a.srv.delayed = m.nonce /\ a.srv.version = v
            /\ SameCertificate(srv, a.srv)
        BY <2>4, <3>1 DEF ServerState, SameCertificate
      <4>2. /\ a.base.type = "error" /\ a.base.status = "waiting"
            /\ a.base.cert = 0 /\ a.base.version = v
        BY <2>3, <3>1 DEF Response
      <4> QED BY <2>6, <4>1, <4>2 DEF DelaysConfirmation, v
    <3> QED BY <3>2, <3>3, <3>4 DEF Sound
  <2>7. ASSUME a = delay, m.kind = "confPoll", srv.state \in {"issued", "confirming"},
               srv.cert = m.cert
        PROVE  Sound(m, a.srv, a.base) /\ DelaysConfirmation(m, srv, a.srv, a.base)
    <3> HIDE DEF v, s, c
    <3>1. a.srv = s /\ a.base = [c EXCEPT !.type = "pollRep", !.certReqID = -1]
      BY <2>7 DEF Answer
    <3>2. a.srv \in ServerState /\ a.base \in Response
      <4>1. [c EXCEPT !.type = "pollRep", !.certReqID = -1] \in Response
        BY <1>2, <2>3, IDTyped DEF BodyType
      <4> QED BY <2>4, <3>1, <4>1
    <3>3. Formal(a.base, m, srv, request)
      <4>1. SameForm(a.base, c)
        BY <2>3, <3>1, SMT DEF Response, SameForm
      <4> QED BY <2>3, <4>1, FormalKept
    <3>4. /\ a.base.type = "pollRep" /\ a.base.certReqID = -1
          /\ a.base.cert = 0 /\ a.base.version = v
      BY <2>3, <3>1 DEF Response
    <3>5. DelaysConfirmation(m, srv, a.srv, a.base)
      BY <2>4, <2>7, <3>1, <3>4 DEF DelaysConfirmation, v
    <3> QED BY <3>2, <3>3, <3>5 DEF Sound
  <2> HIDE DEF done, delay
  <2> QED BY <1>6, <1>13, <2>1, <2>5, <2>6, <2>7 DEF Effect
<1>14. ASSUME a \in RejectionAnswers(m, b), m.kind = "reject"
       PROVE  Sound(m, a.srv, a.base) /\ Effect(m, srv, a.srv, a.base)
  <2>1. CASE srv.state = "issued" /\ srv.cert = m.cert
    <3>1. a.srv = [srv EXCEPT !.state = "refused"] /\ a.base = [b EXCEPT !.type = "pkiConf"]
      BY <1>14, <2>1, SMT DEF RejectionAnswers, Answer
    <3>2. a.srv \in ServerState /\ a.base \in Response
      BY <1>2, <1>4, <3>1, SMT DEF ServerState, Response, BodyType
    <3>3. Formal(a.base, m, srv, request)
      <4>1. SameForm(a.base, b)
        BY <1>4, <3>1, ZenonT(40) DEF Response, SameForm
      <4> QED BY <1>4, <4>1, FormalKept
    <3>4. TakesRefusal(m, srv, a.srv, a.base)
      BY <1>2, <1>4, <1>14, <2>1, <3>1, SMT DEF TakesRefusal, SameCertificate, ServerState, Response
    <3> QED BY <3>2, <3>3, <3>4 DEF Sound, Effect
  <2>2. CASE ~(srv.state = "issued" /\ srv.cert = m.cert)
    <3>1. a = Rejects(b)
      BY <1>14, <2>2 DEF RejectionAnswers
    <3> QED BY <1>6, <3>1 DEF Effect
  <2> QED BY <2>1, <2>2
<1> QED BY <1>3, <1>6, <1>12, <1>13, <1>14 DEF Effect

-----------------------------------------------------------------------------
(* Deviations. *)

\* What a deviation leaves of answer r: it still answers the same message, shows
\* no certificate, nonce or type that r did not show, and an error if any.
Derived(x, r) ==
    /\ x.to = r.to /\ x.recipNonce \in {r.recipNonce, 0} /\ x.cert \in {r.cert, 0}
    /\ x.kind = r.kind /\ x.implicit = r.implicit
    /\ x.type = r.type \/ x.type \in {"other", "unparsable", "error"}
    /\ x.type \in Body => x.status = r.status

\* Every deviation of the model is of that kind.
LEMMA DeviationDerived ==
    ASSUME NEW r \in Response, NEW d \in Defect
    PROVE  Deviate(r, d) \in Response /\ Derived(Deviate(r, d), r)
<1>1. CASE d = "unprotected"
  BY <1>1, ProtocolAssumption, SMT DEF Deviate, Derived, Response, Body, Authority, BodyType,
       Nonce, Cert
<1>2. CASE d = "weakMac"
  BY <1>2, ProtocolAssumption, SMT DEF Deviate, Derived, Response, Body, Authority, BodyType,
       Nonce, Cert
<1>3. CASE d = "signed"
  <2>1. Deviate(r, d) = [r EXCEPT !.protection = "signature", !.signerCarried = TRUE]
    BY <1>3 DEF Deviate
  <2>2. Deviate(r, d) \in Response
    BY <2>1, SignedTyped DEF Authority
  <2>3. Derived(Deviate(r, d), r)
    BY <2>1 DEF Derived, Response, Body
  <2> QED BY <2>2, <2>3
<1>4. CASE d = "sibling"
  <2>1. Deviate(r, d) = [r EXCEPT !.protection = "signature", !.signerCarried = TRUE,
                               !.author = "sibling", !.sender = "sibling"]
    BY <1>4 DEF Deviate
  <2>2. Deviate(r, d) \in Response
    BY <2>1, ForgedTyped DEF Authority
  <2>3. Derived(Deviate(r, d), r)
    BY <2>1 DEF Derived, Response, Body
  <2> QED BY <2>2, <2>3
<1>5. CASE d = "stranger"
  <2>1. Deviate(r, d) = [r EXCEPT !.protection = "signature", !.signerCarried = TRUE,
                               !.author = "stranger", !.sender = "stranger"]
    BY <1>5 DEF Deviate
  <2>2. Deviate(r, d) \in Response
    BY <2>1, ForgedTyped DEF Authority
  <2>3. Derived(Deviate(r, d), r)
    BY <2>1 DEF Derived, Response, Body
  <2> QED BY <2>2, <2>3
<1>6. CASE d = "unnamed"
  BY <1>6, ProtocolAssumption, SMT DEF Deviate, Derived, Response, Body, Authority, BodyType,
       Nonce, Cert
<1>7. CASE d = "signerUsage"
  BY <1>7, ProtocolAssumption DEF Deviate, Derived, Response, Body, Authority, BodyType, Nonce, Cert
<1>8. CASE d = "transaction"
  BY <1>8, ProtocolAssumption, SMT DEF Deviate, Derived, Response, Body, Authority, BodyType,
       Nonce, Cert
<1>9. CASE d = "noRecipNonce"
  BY <1>9, ProtocolAssumption, SMT DEF Deviate, Derived, Response, Body, Authority, BodyType,
       Nonce, Cert
<1>10. CASE d = "noSenderNonce"
  BY <1>10, ProtocolAssumption, SMT DEF Deviate, Derived, Response, Body, Authority, BodyType,
       Nonce, Cert
<1>11. CASE d = "version"
  BY <1>11, ProtocolAssumption DEF Deviate, Derived, Response, Body, Authority, BodyType, Nonce,
       Cert
<1>12. CASE d = "unparsable"
  BY <1>12, ProtocolAssumption, SMT DEF Deviate, Derived, Response, Body, Authority, BodyType,
       Nonce, Cert
<1>13. CASE d = "body"
  BY <1>13, ProtocolAssumption, SMT DEF Deviate, Derived, Response, Body, Authority, BodyType,
       Nonce, Cert
<1>14. CASE d = "content"
  BY <1>14, ProtocolAssumption DEF Deviate, Derived, Response, Body, Authority, BodyType, Nonce,
       Cert
<1>15. CASE d = "entries"
  BY <1>15, ProtocolAssumption DEF Deviate, Derived, Response, Body, Authority, BodyType, Nonce,
       Cert
<1>16. CASE d = "certReqID"
  BY <1>16, ProtocolAssumption DEF Deviate, Derived, Response, Body, Authority, BodyType, Nonce,
       Cert
<1>17. CASE d = "legacyZero"
  BY <1>17, ProtocolAssumption DEF Deviate, Derived, Response, Body, Authority, BodyType, Nonce,
       Cert
<1>18. CASE d = "checkAfter"
  BY <1>18, ProtocolAssumption DEF Deviate, Derived, Response, Body, Authority, BodyType, Nonce,
       Cert
<1>19. CASE d = "noCertificate"
  BY <1>19, ProtocolAssumption, SMT DEF Deviate, Derived, Response, Body, Authority, BodyType,
       Nonce, Cert
<1>20. CASE d = "caPubs"
  BY <1>20, ProtocolAssumption DEF Deviate, Derived, Response, Body, Authority, BodyType, Nonce,
       Cert
<1>21. CASE d = "waitingError"
  <2>1. Deviate(r, d) = [r EXCEPT !.type = "error", !.status = "waiting"]
    BY <1>21 DEF Deviate
  <2>2. Deviate(r, d) \in Response
    BY <2>1, StatusTyped, ZenonT(40) DEF BodyType, Status
  <2>3. Derived(Deviate(r, d), r)
    BY <2>1 DEF Derived, Response, Body
  <2> QED BY <2>2, <2>3
<1>22. CASE d = "acceptedError"
  <2>1. Deviate(r, d) = [r EXCEPT !.type = "error", !.status = "accepted"]
    BY <1>22 DEF Deviate
  <2>2. Deviate(r, d) \in Response
    BY <2>1, StatusTyped, ZenonT(40) DEF BodyType, Status
  <2>3. Derived(Deviate(r, d), r)
    BY <2>1 DEF Derived, Response, Body
  <2> QED BY <2>2, <2>3
<1>23. CASE d = "allFailures"
  <2>1. Deviate(r, d) = [r EXCEPT !.type = "error", !.status = "rejection",
                               !.failInfo = {"permanent", "system"}]
    BY <1>23 DEF Deviate
  <2>2. Deviate(r, d) \in Response
    <3>1. {"permanent", "system"} \in SUBSET {"permanent", "system"} /\ "error" \in BodyType
      BY DEF BodyType
    <3>2. [r EXCEPT !.type = "error", !.status = "rejection",
                    !.failInfo = {"permanent", "system"}] \in Response
      BY <3>1, RefusalTyped DEF Status
    <3> QED BY <2>1, <3>2
  <2>3. Derived(Deviate(r, d), r)
    BY <2>1, ZenonT(40) DEF Derived, Response, Body
  <2> QED BY <2>2, <2>3
<1> QED BY <1>1, <1>2, <1>3, <1>4, <1>5, <1>6, <1>7, <1>8, <1>9, <1>10, <1>11, <1>12,
           <1>13, <1>14, <1>15, <1>16, <1>17, <1>18, <1>19, <1>20, <1>21, <1>22, <1>23 DEF Defect

-----------------------------------------------------------------------------
(* What the client makes of an answer. *)

\* The verdicts of finishTransaction, and what an answer must show for the ones
\* that go on.
LEMMA Verdicts ==
    ASSUME NEW r \in Response, NEW q \in Request, NEW v, v = finishTransaction(r, q)
    PROVE  /\ v \in {"panic", "polling", "retry", "fail", "refuse", "issued", "confirming"}
           /\ v \in {"polling", "refuse", "issued", "confirming"}
                => r.type \in Body /\ r.certReqID \in {-1, 0}
           /\ v = "polling" => r.status = "waiting"
           /\ v \in {"refuse", "issued", "confirming"} => Grants(r)
           /\ v = "refuse" => Refused(r, q)
           /\ v = "issued" => ImplicitlyConfirmed(r, q) /\ ~Refused(r, q)
           /\ v = "confirming" => ~ImplicitlyConfirmed(r, q) /\ ~Refused(r, q)
<1> DEFINE e == extractEnrollmentResponse(r, q)
<1>1. classifyStatus(r) \in {"none", "retry", "fail"}
  BY DEF classifyStatus, Response
<1>2. /\ e \in {"fail", "nothing", "retry", "waiting", "certificate"}
      /\ e \in {"waiting", "certificate"}
           => r.type = expectedBody(q) /\ acceptResponseCertReqID(q, r.certReqID)
      /\ e = "waiting" => r.status = "waiting"
      /\ e = "certificate" => r.cert # 0
  BY <1>1 DEF extractEnrollmentResponse
<1>3. expectedBody(q) \in Body
  BY DEF expectedBody, Body
<1>4. acceptResponseCertReqID(q, r.certReqID) => r.certReqID \in {-1, 0}
  BY DEF acceptResponseCertReqID, Request
<1> HIDE DEF e
<1>5. /\ e = "nothing" => v = "panic"
      /\ e = "waiting" => v = "polling"
      /\ e \in {"fail", "retry"} => v = e
      /\ e = "certificate" =>
            v = IF Refused(r, q) THEN (IF ImplicitlyConfirmed(r, q) THEN "fail" ELSE "refuse")
                ELSE (IF ImplicitlyConfirmed(r, q) THEN "issued" ELSE "confirming")
  BY <1>2 DEF finishTransaction, e
<1> QED BY <1>2, <1>3, <1>4, <1>5, SMT DEF Grants

\* A confirmation is confirmed, delayed, tried again or failed, and only an
\* error that says waiting or a pollRep delays it.
LEMMA ConfirmationVerdicts ==
    ASSUME NEW r \in Response
    PROVE  /\ confirmationDelay(r) \in {"fail", "confirming", "retry"}
           /\ confirmationDelay(r) = "confirming"
                => (r.type = "error" /\ r.status = "waiting") \/ r.type = "pollRep"
<1>1. r.status = "rejection" => classifyStatus(r) \in {"retry", "fail"}
  BY DEF classifyStatus
<1> QED BY <1>1 DEF confirmationDelay, Response

\* Only the authority the issuer addresses is believed, and a signature only
\* where one is accepted.
LEMMA VerifiedAuthor ==
    ASSUME NEW r, NEW m, NEW q, NEW p, NEW n, verifyResponse(m, r, q, p, n)
    PROVE  /\ r.author = "addressed"
           /\ r.protection = "signature" => q.protection = "signature" \/ q.allowSignedMAC
           /\ r.recipNonce = m.nonce \/ (n # 0 /\ r.recipNonce = n)
BY DEF verifyResponse, Authentic, MACVerifies, verifyTrustedSignature, PreviousSigner,
       senderMatchesRecipient, signatureAccepted, acceptableRecipNonce

-----------------------------------------------------------------------------
(* Types. *)

CallName == {"enroll", "poll", "confirm", "done"}

\* The scenario and the constants in the form the proofs use them.
LEMMA Constants ==
    ASSUME TypeOK
    PROVE  /\ request \in Request
           /\ Given.messages \in Nat /\ Given.messages <= MaxMessages /\ MaxMessages \in Nat
           /\ Given.defects \subseteq Defect
BY ProtocolAssumption, SMT DEF TypeOK, Given

\* A message that is sent has the next number.
LEMMA SendTyped ==
    ASSUME TypeOK, NEW kind, NEW cert, NEW signer, NEW version, Send(kind, cert, signer, version),
           kind \in Enrollment \cup {"pollReq", "certConf", "confPoll", "reject"},
           cert \in Cert, signer \in Authority \cup {"none"}, version \in {2, 3}
    PROVE  msg' \in Message /\ sends' \in Nonce /\ sends' = sends + 1
<1>1. sends \in Nat /\ sends + 1 \in Nonce
  BY Constants, SMT DEF TypeOK, Send, Nonce
<1> QED BY <1>1 DEF Send, Message

\* A message that no call waits on any more is late at most.
LEMMA AbandonedLate ==
    ASSUME NEW l \in Abandoned
    PROVE  /\ \A m \in l : m \in late \/ (m = msg /\ msg # NoMessage)
           /\ msg = NoMessage => l = late
BY DEF Abandoned

\* The state of a transaction before its first call is typed.
LEMMA NoPendingTyped == NoPending \in Pending
BY ProtocolAssumption, SMT DEF NoPending, Pending, Nonce, Cert

\* The states that an answer hands to the next call are typed.
LEMMA StatesTyped ==
    ASSUME TypeOK, NEW r \in Response
    PROVE  /\ r.certReqID \in {-1, 0} => PollState(r) \in Pending /\ CertificateState(r) \in Pending
           /\ ConfirmationState(r) \in Pending
           /\ responseSigner(r) \in Authority \cup {"none"}
<1>1. responseSigner(r) \in Authority \cup {"none"}
  BY DEF responseSigner, Response
<1>2. msg.nonce \in Nonce /\ pending \in Pending /\ pending.requestNonce \in Nonce
  BY DEF TypeOK, Message, Pending
<1>3. 0 \in Nonce /\ 0 \in Cert /\ r.senderNonce \in Nonce /\ r.cert \in Cert
  BY ProtocolAssumption, SMT DEF Nonce, Cert, Response
<1>4. r.certReqID \in {-1, 0} => PollState(r) \in Pending
  BY <1>1, <1>2, <1>3 DEF PollState, Pending
<1>5. r.certReqID \in {-1, 0} => CertificateState(r) \in Pending
  BY <1>1, <1>2, <1>3 DEF CertificateState, Pending
<1>6. ConfirmationState(r) \in Pending
  <2>1. [pending EXCEPT !.recipNonce = r.senderNonce] \in Pending
    BY <1>2, <1>3 DEF Pending
  <2>2. PICK n \in Nonce : n = IF pending.requestNonce = 0 THEN msg.nonce ELSE pending.requestNonce
    BY <1>2
  <2>3. ConfirmationState(r) = [pending EXCEPT !.recipNonce = r.senderNonce, !.requestNonce = n]
    BY <1>2, <2>2 DEF ConfirmationState, Pending
  <2> QED BY <1>2, <1>3, <2>2, <2>3 DEF Pending
<1> QED BY <1>1, <1>4, <1>5, <1>6

-----------------------------------------------------------------------------
(* What the arrival of an answer does. *)

\* What the call makes of an answer that it has verified.
Verdict(r) ==
    IF msg.kind \in ForConfirmation
    THEN IF r.type = "pkiConf" THEN "confirmed" ELSE confirmationDelay(r)
    ELSE IF msg.kind = "reject" THEN "fail"
    ELSE IF msg.kind = "pollReq" /\ r.type = "pollRep" THEN extractPollRep(r, pending.certReqID)
    ELSE finishTransaction(r, request)

\* The outcomes of a call.  It fails, is to be made again, ...
Ended == msg' = NoMessage /\ sends' = sends

Fails(r) ==
    /\ Ended /\ result' = "fail" /\ call' = "done" /\ pending' = NoPending
    /\ ~(r.type # "unparsable" /\ Verified(r) /\ Verdict(r) # "fail")

TriesAgain(r) == Ended /\ result' \in {"retry", "panic"} /\ call' = call /\ pending' = pending

\* ... has to wait for the certificate, takes it, ...
Polls(r) ==
    /\ Ended /\ result' = "polling" /\ call' = "poll" /\ pending' = PollState(r)
    /\ Verified(r)
    /\ \/ msg.kind \in ForCertificate /\ finishTransaction(r, request) = "polling"
       \/ msg.kind = "pollReq" /\ goodPollRep(r, pending.certReqID)

Takes(r) ==
    /\ Ended /\ result' = "confirming" /\ call' = "confirm" /\ pending' = CertificateState(r)
    /\ Verified(r) /\ msg.kind \in ForCertificate /\ finishTransaction(r, request) = "confirming"

Completes(r) ==
    /\ Ended /\ result' = "issued" /\ call' = "done" /\ pending' = CertificateState(r)
    /\ Verified(r) /\ msg.kind \in ForCertificate /\ finishTransaction(r, request) = "issued"

\* ... says no to it, ...
SendsRefusal(r) ==
    /\ sends < Given.messages /\ sends' = sends + 1
    /\ msg' = [kind |-> "reject", nonce |-> sends + 1, cert |-> r.cert, signer |-> responseSigner(r),
               version |-> confirmationVersion(request), served |-> FALSE]
    /\ result' = result /\ call' = call /\ pending' = pending
    /\ Verified(r) /\ msg.kind \in ForCertificate /\ finishTransaction(r, request) = "refuse"

\* ... has its confirmation, or has to wait for that.
Confirmed(r) ==
    /\ Ended /\ result' = "confirmed" /\ call' = "done" /\ pending' = pending
    /\ Verified(r) /\ msg.kind \in ForConfirmation /\ r.type = "pkiConf"

WaitsForConfirmation(r) ==
    /\ Ended /\ result' = "confirming" /\ call' = call /\ pending' = ConfirmationState(r)
    /\ Verified(r) /\ msg.kind \in ForConfirmation
    /\ confirmationDelay(r) = "confirming"

Outcome(r) ==
    \/ Fails(r)
    \/ TriesAgain(r)
    \/ Polls(r)
    \/ Takes(r)
    \/ Completes(r)
    \/ SendsRefusal(r)
    \/ Confirmed(r)
    \/ WaitsForConfirmation(r)

Arrives(r) ==
    /\ r \in answers /\ msg # NoMessage
    /\ disorder' = (disorder \/ r.to # msg.nonce)
    /\ scenario' = scenario /\ request' = request /\ srv' = srv /\ answers' = Retained
    /\ late' \in Abandoned /\ overtaken' = overtaken
    /\ \/ accepted' = accepted
       \/ Verified(r) /\ accepted' = [author |-> r.author, protection |-> r.protection]
    /\ Outcome(r)

\* The outcome of finishTransaction, carried out.
LEMMA CertificateOutcome ==
    ASSUME TypeOK, NEW r \in Response, msg.kind \in ForCertificate, Verified(r),
           msg.kind = "pollReq" => r.type # "pollRep", CompleteOrRefuse(r)
    PROVE  Outcome(r) /\ answers' = Retained /\ late' \in Abandoned
<1>1. PICK v : v = finishTransaction(r, request)
  OBVIOUS
<1>2. v \in {"panic", "polling", "retry", "fail", "refuse", "issued", "confirming"}
  BY <1>1, Constants, Verdicts
<1>3. v = "fail" => Verdict(r) = "fail"
  BY <1>1 DEF Verdict, ForCertificate, ForConfirmation, Enrollment
<1>4. CASE v = "refuse"
  BY <1>1, <1>4 DEF CompleteOrRefuse, Send, SendsRefusal, Outcome
<1>5. CASE v # "refuse"
  <2>1. Finish(v, r)
    BY <1>1, <1>5 DEF CompleteOrRefuse
  <2>2. CASE v \in {"panic", "retry"}
    BY <2>1, <2>2 DEF Finish, Return, TriesAgain, Ended, Outcome
  <2>3. CASE v = "fail"
    BY <2>1, <2>3, <1>3 DEF Finish, Return, Fails, Ended, Outcome
  <2>4. CASE v = "polling"
    BY <1>1, <2>1, <2>4 DEF Finish, Return, Polls, Ended, Outcome
  <2>5. CASE v = "issued"
    BY <1>1, <2>1, <2>5 DEF Finish, Return, Completes, Ended, Outcome
  <2>6. CASE v = "confirming"
    BY <1>1, <2>1, <2>6 DEF Finish, Return, Takes, Ended, Outcome
  <2> QED BY <1>2, <1>5, <2>2, <2>3, <2>4, <2>5, <2>6
<1> QED BY <1>4, <1>5

\* The outcome of a confirmation, carried out.
LEMMA ConfirmationOutcome ==
    ASSUME TypeOK, NEW r \in Response, msg.kind \in ForConfirmation, Verified(r), ConfirmAnswer(r)
    PROVE  Outcome(r) /\ answers' = Retained /\ late' \in Abandoned
<1>1. PICK v : v = IF r.type = "pkiConf" THEN "confirmed" ELSE confirmationDelay(r)
  OBVIOUS
<1>2. v \in {"confirmed", "confirming", "retry", "fail"}
  BY <1>1, ConfirmationVerdicts
<1>3. Verdict(r) = v
  BY <1>1 DEF Verdict
<1>4. CASE v = "confirmed"
  <2>1. r.type = "pkiConf"
    BY <1>1, <1>4, ConfirmationVerdicts
  <2> QED BY <1>1, <1>4, <2>1 DEF ConfirmAnswer, Return, Confirmed, Ended, Outcome
<1>5. CASE v = "confirming"
  BY <1>1, <1>5 DEF ConfirmAnswer, Return, WaitsForConfirmation, Ended, Outcome
<1>6. CASE v = "retry"
  BY <1>1, <1>6 DEF ConfirmAnswer, Return, TriesAgain, Ended, Outcome
<1>7. CASE v = "fail"
  BY <1>1, <1>3, <1>7 DEF ConfirmAnswer, Return, Fails, Ended, Outcome
<1> QED BY <1>2, <1>4, <1>5, <1>6, <1>7

\* An arriving answer has one of the outcomes.
LEMMA Arrival ==
    ASSUME TypeOK, MessageInv, Deliver
    PROVE  \E r : Arrives(r)
<1>1. PICK r \in answers :
         /\ IF r.type # "unparsable" /\ Verified(r)
            THEN /\ CASE msg.kind \in Enrollment                -> CompleteOrRefuse(r)
                       [] msg.kind = "pollReq"               -> PollAnswer(r)
                       [] msg.kind \in {"certConf", "confPoll"} -> ConfirmAnswer(r)
                       [] msg.kind = "reject"                -> RejectAnswer(r)
                 /\ accepted' = [author |-> r.author, protection |-> r.protection]
            ELSE /\ Return("fail", "done", NoPending)
                 /\ UNCHANGED <<sends, accepted>>
         /\ disorder' = (disorder \/ r.to # msg.nonce)
  BY DEF Deliver
<1>2. r \in Response
  BY DEF TypeOK
<1>3. msg.kind \in Enrollment \cup {"pollReq", "certConf", "confPoll", "reject"}
  BY DEF Deliver, MessageInv, TypeOK, Message
<1>4. CASE ~(r.type # "unparsable" /\ Verified(r))
  <2>1. Outcome(r) /\ answers' = Retained /\ late' \in Abandoned /\ accepted' = accepted
    BY <1>1, <1>4 DEF Return, Fails, Ended, Outcome
  <2> QED BY <1>1, <2>1 DEF Arrives, Deliver
<1>5. CASE r.type # "unparsable" /\ Verified(r)
  <2>1. Outcome(r) /\ answers' = Retained /\ late' \in Abandoned
    <3>1. CASE msg.kind \in Enrollment
      <4>1. CompleteOrRefuse(r)
        BY <1>1, <1>5, <3>1 DEF Enrollment
      <4> QED BY <1>2, <1>5, <3>1, <4>1, CertificateOutcome DEF ForCertificate, Enrollment
    <3>2. CASE msg.kind = "pollReq"
      <4>1. PollAnswer(r)
        BY <1>1, <1>5, <3>2 DEF Enrollment
      <4>2. CASE r.type # "pollRep"
        BY <1>2, <1>5, <3>2, <4>1, <4>2, CertificateOutcome DEF ForCertificate, PollAnswer
      <4>3. CASE r.type = "pollRep"
        <5>1. PICK v : v = extractPollRep(r, pending.certReqID)
          OBVIOUS
        <5>2. Finish(v, r) /\ Verdict(r) = v
          BY <3>2, <4>1, <4>3, <5>1 DEF PollAnswer, Verdict, ForConfirmation
        <5>3. CASE goodPollRep(r, pending.certReqID)
          BY <1>5, <3>2, <5>1, <5>2, <5>3 DEF extractPollRep, Finish, Return, Polls, Ended, Outcome
        <5>4. CASE ~goodPollRep(r, pending.certReqID)
          BY <5>1, <5>2, <5>4 DEF extractPollRep, Finish, Return, Fails, Ended, Outcome
        <5> QED BY <5>3, <5>4
      <4> QED BY <4>2, <4>3
    <3>3. CASE msg.kind \in {"certConf", "confPoll"}
      <4>1. ConfirmAnswer(r)
        BY <1>1, <1>5, <3>3 DEF Enrollment
      <4> QED BY <1>2, <1>5, <3>3, <4>1, ConfirmationOutcome DEF ForConfirmation
    <3>4. CASE msg.kind = "reject"
      <4>1. RejectAnswer(r)
        BY <1>1, <1>5, <3>4 DEF Enrollment
      <4>2. Verdict(r) = "fail"
        BY <3>4 DEF Verdict, ForConfirmation
      <4> QED BY <4>1, <4>2 DEF RejectAnswer, Return, Fails, Ended, Outcome
    <3> QED BY <1>3, <3>1, <3>2, <3>3, <3>4
  <2> QED BY <1>1, <1>5, <2>1 DEF Arrives, Deliver
<1> QED BY <1>4, <1>5

-----------------------------------------------------------------------------
(* The steps of the client keep the invariant. *)

\* A call that ends leaves the rest alone; the connection may have deviated.
Kept ==
    /\ scenario' = scenario /\ request' = request /\ srv' = srv /\ answers' = Retained
    /\ late' \in Abandoned /\ overtaken' = overtaken
    /\ disorder' \in BOOLEAN /\ (disorder => disorder')
    /\ accepted' \in [author : Authority, protection : {"none", "mac", "weakMac", "signature"}]
    /\ AcceptedFromAuthority'

\* A message that a call has given up can do no more than before.
LEMMA LateKeeps ==
    ASSUME ClientInv, late' \in Abandoned, srv' = srv, request' = request,
           (msg' = NoMessage /\ sends' = sends) \/ sends' = sends + 1,
           call \in {"confirm", "done"} =>
              /\ call' \in {"confirm", "done"}
              /\ result' # "fail" => result # "fail" /\ pending'.cert = pending.cert
    PROVE  LateInv' /\ late' \subseteq Message
<1>1. TypeOK /\ MessageInv /\ LateInv /\ sends \in Nat
  BY SMT DEF ClientInv, TypeOK, Nonce
<1>2. ASSUME NEW m \in late'
      PROVE  m \in Message /\ InFlight(m)
  <2>1. m \in late \/ (m = msg /\ msg # NoMessage)
    BY AbandonedLate
  <2> QED BY <1>1, <2>1 DEF TypeOK, MessageInv, LateInv
<1>3. ASSUME NEW m \in late'
      PROVE  InFlight(m)' /\ (msg' # NoMessage => m.nonce < sends')
  <2>1. m \in Message /\ InFlight(m)
    BY <1>2
  <2>2. m.nonce \in Nat /\ m.nonce <= sends
    BY <2>1, SMT DEF Message, Nonce, InFlight
  <2>3. m.nonce <= sends' /\ (msg' # NoMessage => m.nonce < sends')
    BY <1>1, <2>2, SMT
  <2>4. Sane(m, srv, request)'
    BY <2>1 DEF InFlight
  <2> QED BY <2>1, <2>3, <2>4 DEF InFlight
<1> QED BY <1>2, <1>3 DEF LateInv

\* A call whose outcome is a failure for a cause.
LEMMA FailKeeps ==
    ASSUME ClientInv, Ended, Kept, disorder', result' = "fail", call' = "done", pending' = NoPending
    PROVE  ClientInv'
<1>1. /\ TypeOK /\ ServerInv(srv, request) /\ MessageInv /\ AnswersInv
      /\ scenario' = scenario /\ request' = request /\ srv' = srv /\ answers' = Retained
      /\ sends' = sends /\ msg' = NoMessage
  BY DEF ClientInv, Kept, Ended
<1>2. NoMessage \in Message /\ NoMessage.kind = "none"
  BY ProtocolAssumption, SMT DEF NoMessage, Message, Nonce, Cert
<1>3. answers' \subseteq answers
  BY <1>1 DEF Retained
<1>4. LateInv' /\ late' \subseteq Message
  BY <1>1, LateKeeps DEF Kept
<1>5. TypeOK'
  BY <1>1, <1>2, <1>3, <1>4, NoPendingTyped DEF TypeOK, Results, Given, Kept
<1>6. ServerInv(srv, request)'
  BY <1>1
<1>7. MessageInv'
  BY <1>1, <1>2 DEF MessageInv, Enrollment
<1>8. Agreement'
  BY <1>1, <1>2 DEF Agreement, ConfirmedAtServer
<1>9. AnswersInv'
  BY <1>1, <1>3 DEF AnswersInv
<1>10. Orderly'
  BY DEF Orderly
<1>11. AcceptedFromAuthority'
  BY DEF Kept
<1> QED BY <1>4, <1>5, <1>6, <1>7, <1>8, <1>9, <1>10, <1>11 DEF ClientInv

\* A call that the caller makes again.
LEMMA AgainKeeps ==
    ASSUME ClientInv, msg # NoMessage, Ended, Kept, result' \in {"retry", "panic", "lost"},
           call' = call, pending' = pending
    PROVE  ClientInv'
<1>1. /\ TypeOK /\ ServerInv(srv, request) /\ MessageInv /\ AnswersInv /\ Agreement /\ Orderly
      /\ scenario' = scenario /\ request' = request /\ srv' = srv /\ answers' = Retained
      /\ sends' = sends /\ msg' = NoMessage /\ overtaken' = overtaken
  BY DEF ClientInv, Kept, Ended
<1>2. NoMessage \in Message /\ NoMessage.kind = "none"
  BY ProtocolAssumption, SMT DEF NoMessage, Message, Nonce, Cert
<1>3. answers' \subseteq answers
  BY <1>1 DEF Retained
<1>4. LateInv' /\ late' \subseteq Message
  <2>1. result # "fail"
    BY <1>1 DEF MessageInv, Agreement
  <2> QED BY <1>1, <2>1, LateKeeps DEF Kept
<1>5. TypeOK'
  BY <1>1, <1>2, <1>3, <1>4 DEF TypeOK, Results, Given, Kept
<1>6. ServerInv(srv, request)'
  BY <1>1
<1>7. MessageInv'
  BY <1>1, <1>2 DEF MessageInv, Enrollment
<1>8. Agreement'
  BY <1>1, <1>2 DEF Agreement, ConfirmedAtServer
<1>9. AnswersInv'
  BY <1>1, <1>3 DEF AnswersInv, ConfirmationNonce
<1>10. Orderly'
  BY <1>1, <1>2 DEF Orderly, ResponseID, Kept
<1>11. AcceptedFromAuthority'
  BY DEF Kept
<1> QED BY <1>4, <1>5, <1>6, <1>7, <1>8, <1>9, <1>10, <1>11 DEF ClientInv

\* A message that is sent is about nothing that was answered.
LEMMA SendKeeps ==
    ASSUME ClientInv, msg = NoMessage, Sent,
           NEW k, NEW c, NEW s, NEW v, Send(k, c, s, v),
           c \in Cert, s \in Authority \cup {"none"}, v \in {2, 3},
           \/ call = "enroll" /\ k \in Enrollment
           \/ call = "poll" /\ k = "pollReq"
           \/ /\ call = "confirm" /\ k \in ForConfirmation
              /\ c = pending.cert /\ v = confirmationVersion(request)
              /\ k = "certConf" <=> pending.requestNonce = 0
    PROVE  ClientInv'
<1>1. /\ TypeOK /\ ServerInv(srv, request) /\ MessageInv /\ AnswersInv /\ Agreement /\ Orderly
      /\ AcceptedFromAuthority
  BY DEF ClientInv
<1>2. /\ scenario' = scenario /\ request' = request /\ call' = call /\ pending' = pending
      /\ result' = result /\ srv' = srv /\ answers' = answers /\ accepted' = accepted
      /\ disorder' = disorder /\ overtaken' = overtaken /\ late' = late
  BY DEF Sent
<1>3. k \in Enrollment \cup {"pollReq", "certConf", "confPoll"}
  BY DEF ForConfirmation
<1>4. msg' \in Message /\ sends' \in Nonce /\ sends' = sends + 1 /\ sends \in Nat
  BY <1>1, <1>3, SendTyped, SMT DEF TypeOK, Nonce
<1>5. /\ msg'.kind = k /\ msg'.nonce = sends + 1 /\ msg'.cert = c /\ msg'.version = v
      /\ msg'.kind # "none" /\ msg' # NoMessage
  <2>1. msg'.kind = k /\ msg'.nonce = sends + 1 /\ msg'.cert = c /\ msg'.version = v
    BY DEF Send
  <2>2. k # "none"
    BY <1>3 DEF Enrollment
  <2> QED BY <2>1, <2>2, SMT DEF NoMessage
<1>6. TypeOK' /\ LateInv'
  <2>1. late' \in Abandoned
    BY <1>2 DEF Abandoned
  <2>2. LateInv'
    BY <1>2, <1>4, <2>1, LateKeeps
  <2> QED BY <1>1, <1>2, <1>4, <2>2 DEF TypeOK, Given
<1>7. ServerInv(srv, request)'
  BY <1>1, <1>2
<1>8. srv.delayed \in Nat /\ srv.delayed <= sends
  BY <1>1, SMT DEF TypeOK, ServerState, Nonce, MessageInv
<1>9. MessageInv'
  <2>1. sends' # 0 /\ msg'.nonce = sends' /\ msg'.nonce <= sends' /\ srv.delayed <= sends'
    BY <1>4, <1>5, <1>8, SMT
  <2>2. InFlight(msg)'
    BY <1>1, <1>2, <1>5, <2>1 DEF InFlight, Sane, Agreement, ForConfirmation, Enrollment
  <2> QED BY <1>1, <1>2, <1>5, <2>1, <2>2 DEF MessageInv, Enrollment, ForConfirmation
<1>10. Agreement'
  BY <1>1, <1>2, <1>5 DEF Agreement, ConfirmedAtServer, Enrollment, ForConfirmation
<1>11. \A r \in answers : r.to \in Nat /\ r.recipNonce \in Nat /\ r.recipNonce <= r.to /\ r.to <= sends
  BY <1>1, SMT DEF TypeOK, Response, Nonce, AnswersInv
<1>12. AnswersInv'
  <2> SUFFICES ASSUME NEW r \in answers'
               PROVE  /\ r.recipNonce <= r.to /\ r.to <= sends' /\ r.to < sends'
                      /\ r.recipNonce # sends'
    BY <1>1, <1>2 DEF AnswersInv, ConfirmationNonce
  <2> QED BY <1>2, <1>4, <1>11, SMT
<1>13. Orderly'
  <2>1. \A r \in answers : r.to # sends'
    BY <1>4, <1>11, SMT
  <2>2. k # "reject" /\ ResponseID' = ResponseID
    BY <1>2, <1>3 DEF Enrollment, ResponseID
  <2> QED BY <1>1, <1>2, <1>5, <2>1, <2>2 DEF Orderly
<1>14. AcceptedFromAuthority'
  BY <1>1, <1>2 DEF AcceptedFromAuthority
<1> QED BY <1>6, <1>7, <1>9, <1>10, <1>12, <1>13, <1>14 DEF ClientInv

\* A request that is fit passes every validation.
LEMMA FitIsValid ==
    ASSUME TypeOK, Fit
    PROVE  /\ validateEnrollmentRequest(request) /\ ValidP10CRRequest(request)
           /\ ValidateIRRequest(request)
           /\ request.operation = "KUR" => ValidateKURRequest(request)
BY DEF Fit, Fact, validateEnrollmentRequest, ValidP10CRRequest, ValidateIRRequest,
       ValidateKURRequest, validateKURProofs

\* A call that fails before it sends anything keeps the invariant, if a fit
\* request would not have failed.
LEMMA UnsentKeeps ==
    ASSUME ClientInv, FailUnsent, msg = NoMessage, disorder \/ ~Fit
    PROVE  ClientInv'
<1>1. Ended /\ result' = "fail" /\ call' = "done" /\ pending' = NoPending
  BY DEF FailUnsent, Return, Ended
<1>2. disorder' = TRUE
  BY DEF FailUnsent
<1>3. Kept
  <2>1. /\ scenario' = scenario /\ request' = request /\ srv' = srv /\ answers' = Retained
        /\ accepted' = accepted /\ late' \in Abandoned /\ overtaken' = overtaken
    BY DEF FailUnsent, Return
  <2>2. TypeOK /\ AcceptedFromAuthority
    BY DEF ClientInv
  <2> QED BY <1>2, <2>1, <2>2 DEF Kept, TypeOK, AcceptedFromAuthority
<1> QED BY <1>1, <1>2, <1>3, FailKeeps

\* A first call validates its request and sends, or sends nothing.
LEMMA EnrollKeeps ==
    ASSUME ClientInv, EnrollP10CR \/ EnrollIR \/ EnrollKUR
    PROVE  ClientInv'
<1>1. TypeOK
  BY DEF ClientInv
<1>2. PICK valid \in BOOLEAN, k \in Enrollment :
         /\ call = "enroll" /\ msg = NoMessage
         /\ ~valid => ~Fit
         /\ \/ valid /\ Send(k, 0, "none", 2) /\ Sent
            \/ ~valid /\ FailUnsent
  <2>1. CASE EnrollP10CR
    <3>1. /\ call = "enroll" /\ msg = NoMessage
          /\ \/ ValidP10CRRequest(request) /\ Send("p10cr", 0, "none", 2) /\ Sent
             \/ ~ValidP10CRRequest(request) /\ FailUnsent
      BY <2>1 DEF EnrollP10CR, EnrollWith
    <3> QED BY <1>1, <3>1, FitIsValid DEF Enrollment
  <2>2. CASE EnrollIR
    <3>1. /\ call = "enroll" /\ msg = NoMessage
          /\ \/ ValidateIRRequest(request) /\ Send("ir", 0, "none", 2) /\ Sent
             \/ ~ValidateIRRequest(request) /\ FailUnsent
      BY <2>2 DEF EnrollIR, EnrollWith
    <3> QED BY <1>1, <3>1, FitIsValid DEF Enrollment
  <2>3. CASE EnrollKUR
    <3>1. /\ call = "enroll" /\ msg = NoMessage /\ request.operation = "KUR"
          /\ \/ ValidateKURRequest(request) /\ Send("kur", 0, "none", 2) /\ Sent
             \/ ~ValidateKURRequest(request) /\ FailUnsent
      BY <2>3 DEF EnrollKUR, EnrollWith
    <3> QED BY <1>1, <3>1, FitIsValid DEF Enrollment
  <2> QED BY <2>1, <2>2, <2>3
<1>3. CASE valid
  BY <1>2, <1>3, SendKeeps, ProtocolAssumption, SMT DEF Cert
<1>4. CASE ~valid
  BY <1>2, <1>4, UnsentKeeps
<1> QED BY <1>3, <1>4

\* PollP10CR sends a pollReq for the state it is given, or nothing.
LEMMA PollKeeps ==
    ASSUME ClientInv, PollP10CR
    PROVE  ClientInv'
<1>1. TypeOK /\ Orderly /\ call = "poll" /\ msg = NoMessage
  BY DEF ClientInv, PollP10CR
<1>2. CASE validateEnrollmentRequest(request) /\ pending.recipNonce # 0
  <2>1. Send("pollReq", 0, pending.signer, 2) /\ Sent
    BY <1>2 DEF PollP10CR
  <2>2. PICK s \in Authority \cup {"none"} : s = pending.signer
    BY <1>1 DEF TypeOK, Pending
  <2>3. Send("pollReq", 0, s, 2)
    BY <2>1, <2>2 DEF Send
  <2> QED BY <1>1, <2>1, <2>2, <2>3, SendKeeps, ProtocolAssumption, SMT DEF Cert
<1>3. CASE ~(validateEnrollmentRequest(request) /\ pending.recipNonce # 0)
  <2>1. FailUnsent
    BY <1>3 DEF PollP10CR
  <2>2. disorder \/ ~Fit
    BY <1>1, <1>3, FitIsValid DEF Orderly
  <2> QED BY <1>1, <2>1, <2>2, UnsentKeeps
<1> QED BY <1>2, <1>3

\* ConfirmP10CR sends certConf, or polls for the one that was delayed.
LEMMA ConfirmKeeps ==
    ASSUME ClientInv, ConfirmP10CR
    PROVE  ClientInv'
<1>1. TypeOK /\ call = "confirm" /\ msg = NoMessage /\ Sent
  BY DEF ClientInv, ConfirmP10CR
<1>2. PICK k, c, s, v :
         /\ k = IF pending.requestNonce # 0 THEN "confPoll" ELSE "certConf"
         /\ c = pending.cert /\ s = pending.signer /\ v = confirmationVersion(request)
  OBVIOUS
<1>3. Send(k, c, s, v)
  BY <1>2 DEF ConfirmP10CR, Send
<1>4. c \in Cert /\ s \in Authority \cup {"none"} /\ v \in {2, 3}
  BY <1>1, <1>2 DEF TypeOK, Pending, confirmationVersion
<1> QED BY <1>1, <1>2, <1>3, <1>4, SendKeeps DEF ForConfirmation

\* The exchange may break only for a cause if that ends the call.
LEMMA BrokenKeeps ==
    ASSUME ClientInv, NoCMPAnswer
    PROVE  ClientInv'
<1>1. PICK b \in BrokenExchange :
         /\ IF b.verdict = "retry" /\ msg.kind # "reject"
            THEN Return("retry", call, pending)
            ELSE Return("fail", "done", NoPending)
         /\ disorder' = (disorder \/ b.cause)
  BY DEF NoCMPAnswer
<1>2. PICK h \in HTTPAnswer :
         /\ b.verdict = sendCMP(h) /\ sendCMP(h) # "body"
         /\ b.cause = (h.status # 0 /\ (h.cmp \/ h.status \notin {408, 425, 429, 503}))
  BY SMT DEF BrokenExchange
<1>3. /\ scenario' = scenario /\ request' = request /\ srv' = srv /\ sends' = sends
      /\ accepted' = accepted /\ overtaken' = overtaken /\ msg # NoMessage
  BY DEF NoCMPAnswer
<1>4. TypeOK /\ AcceptedFromAuthority /\ Orderly
  BY DEF ClientInv
<1>5. Ended /\ answers' = Retained /\ late' \in Abandoned
  BY <1>1, <1>3 DEF Return, Ended
<1>6. disorder' \in BOOLEAN /\ (disorder => disorder')
  BY <1>1
<1>7. Kept
  BY <1>3, <1>4, <1>5, <1>6 DEF Kept, TypeOK, AcceptedFromAuthority
<1>8. CASE b.verdict = "retry" /\ msg.kind # "reject"
  BY <1>1, <1>3, <1>5, <1>7, <1>8, AgainKeeps DEF Return
<1>9. CASE ~(b.verdict = "retry" /\ msg.kind # "reject")
  <2>1. sendCMP(h) # "retry" => h.status # 0 /\ (h.cmp \/ h.status \notin {408, 425, 429, 503})
    BY SMT DEF sendCMP, HTTPAnswer
  <2>2. sendCMP(h) # "retry" => b.cause
    BY <1>2, <2>1, ZenonT(40)
  <2>3. disorder'
    BY <1>1, <1>2, <1>4, <1>9, <2>2, ZenonT(40) DEF Orderly
  <2> QED BY <1>1, <1>5, <1>7, <1>9, <2>3, FailKeeps DEF Return
<1> QED BY <1>8, <1>9

\* A call that is cut short leaves its caller with what it had.
LEMMA CrashKeeps ==
    ASSUME ClientInv, Crash
    PROVE  ClientInv'
<1>1. /\ scenario' = scenario /\ request' = request /\ srv' = srv /\ accepted' = accepted
      /\ disorder' = disorder /\ answers' = Retained /\ Ended /\ msg # NoMessage
      /\ late' \in Abandoned /\ overtaken' = overtaken
      /\ result' = "lost" /\ call' = call /\ pending' = pending
  BY DEF Crash, Return, Ended
<1>2. TypeOK /\ AcceptedFromAuthority
  BY DEF ClientInv
<1>3. Kept
  BY <1>1, <1>2 DEF Kept, TypeOK, AcceptedFromAuthority
<1> QED BY <1>1, <1>3, AgainKeeps

-----------------------------------------------------------------------------
(* An answer that arrives keeps the invariant. *)

\* While nothing deviates, the answer to the message is verified and does not
\* make the call fail.
LEMMA OrderlyPasses ==
    ASSUME ClientInv, disorder = FALSE, msg # NoMessage, NEW r \in answers, r.to = sends
    PROVE  r.type # "unparsable" /\ Verified(r) /\ Verdict(r) # "fail"
<1>1. TypeOK /\ MessageInv /\ Agreement /\ ServerInv(srv, request)
  BY DEF ClientInv
<1>2. /\ msg.kind # "reject"
      /\ call = "poll" => /\ pending.certReqID = ResponseID
                          /\ pending.requestNonce = srv.delayed /\ srv.delayed # 0
      /\ call = "confirm" /\ pending.requestNonce # 0 => srv.delayed = pending.requestNonce
      /\ OrderlyAnswer(r, msg, srv, request)
  BY DEF ClientInv, Orderly
<1>3. /\ Formal(r, msg, srv, request) /\ r.version \in {2, msg.version}
      /\ Contents(r, msg, srv, request) /\ "permanent" \notin r.failInfo /\ ~Refused(r, request)
  BY <1>2 DEF OrderlyAnswer
<1>4. request \in Request /\ r \in Response
  BY <1>1, Constants DEF TypeOK
<1>5. /\ msg.kind \in ForCertificate \cup ForConfirmation
      /\ msg.kind \in ForCertificate => call \in {"enroll", "poll"}
      /\ msg.kind = "pollReq" => call = "poll"
      /\ msg.kind \in ForConfirmation => call = "confirm"
      /\ msg.kind = "confPoll" => pending.requestNonce # 0
  BY <1>1, <1>2 DEF MessageInv, TypeOK, Message, ForCertificate, ForConfirmation, Enrollment
<1>6. Verified(r)
  <2>1. Authentic(r, request, msg.signer)
    BY <1>3, <1>4 DEF Formal, Authentic, MACVerifies, verifyTrustedSignature, PreviousSigner,
                      Anchored, Response
  <2>2. acceptableRecipNonce(r.recipNonce, msg.nonce, DelayedNonce)
    <3>1. CASE r.recipNonce = msg.nonce
      BY <3>1 DEF acceptableRecipNonce
    <3>2. CASE msg.kind \in {"pollReq", "confPoll"} /\ r.recipNonce = srv.delayed
      <4>1. DelayedNonce = pending.requestNonce
        BY <3>2 DEF DelayedNonce, Enrollment
      <4>2. pending.requestNonce = srv.delayed /\ srv.delayed # 0
        BY <1>2, <1>5, <3>2 DEF ForConfirmation
      <4> QED BY <3>2, <4>1, <4>2 DEF acceptableRecipNonce
    <3> QED BY <1>3, <3>1, <3>2 DEF Formal
  <2>3. /\ r.protection # "none" /\ (r.protection = "signature" => r.signerUsage = TRUE)
        /\ r.transaction = "this" /\ r.sender = "addressed"
    BY <1>3 DEF Formal
  <2> QED BY <1>3, <2>1, <2>2, <2>3 DEF Verified, verifyResponse, senderMatchesRecipient
<1>7. ASSUME Unwilling(r)
      PROVE  /\ r.type = "error" /\ r.status = "rejection" /\ classifyStatus(r) = "retry"
  BY <1>3, <1>7 DEF Unwilling, classifyStatus
<1>8. CASE msg.kind \in ForCertificate
  <2>1. ResponseBody[request.operation] = expectedBody(request)
    BY <1>4, SMT DEF ResponseBody, expectedBody, Request
  <2>2. acceptResponseCertReqID(request, ResponseID)
    BY <1>4 DEF acceptResponseCertReqID, ResponseID, Request
  <2>3. expectedBody(request) \in Body
    BY DEF expectedBody, Body
  <2>4. CASE Unwilling(r)
    <3>1. extractEnrollmentResponse(r, request) = "retry"
      BY <1>3, <1>7, <2>4 DEF extractEnrollmentResponse, Formal
    <3>2. finishTransaction(r, request) = "retry"
      BY <3>1 DEF finishTransaction
    <3> QED BY <1>6, <1>7, <1>8, <2>4, <3>2 DEF Verdict, ForCertificate, ForConfirmation, Enrollment
  <2>5. CASE /\ r.type = ResponseBody[request.operation] /\ r.certReqID = ResponseID
             /\ r.status = "waiting" \/ (r.status \in {"accepted", "grantedWithMods"} /\ r.cert # 0)
    <3>1. r.type = expectedBody(request) /\ r.type \in Body /\ r.type # "error"
      BY <2>1, <2>3, <2>5 DEF Body
    <3>2. r.parses = TRUE /\ r.entries = 1 /\ r.caPubs = FALSE
      BY <1>3 DEF Formal
    <3>3. r.status \in {"accepted", "grantedWithMods"} => classifyStatus(r) = "none"
      BY DEF classifyStatus
    <3>4. extractEnrollmentResponse(r, request) \in {"waiting", "certificate"}
      BY <2>2, <2>5, <3>1, <3>2, <3>3 DEF extractEnrollmentResponse
    <3>5. finishTransaction(r, request) # "fail"
      BY <1>3, <3>4 DEF finishTransaction
    <3> QED BY <1>6, <1>8, <3>1, <3>5 DEF Verdict, ForCertificate, ForConfirmation, Enrollment, Body
  <2>6. CASE msg.kind = "pollReq" /\ r.type = "pollRep" /\ r.certReqID = ResponseID
    <3>1. goodPollRep(r, pending.certReqID)
      BY <1>2, <1>3, <1>5, <2>6, SMT DEF goodPollRep, Formal
    <3> QED BY <1>6, <2>6, <3>1 DEF Verdict, extractPollRep, ForConfirmation
  <2> QED BY <1>3, <1>8, <2>4, <2>5, <2>6 DEF Contents, ForCertificate
<1>9. CASE msg.kind \in ForConfirmation
  <2>1. r.parses = TRUE /\ r.entries = 1 /\ r.checkAfter = 0
    BY <1>3 DEF Formal
  <2>2. CASE Unwilling(r)
    BY <1>6, <1>7, <1>9, <2>1, <2>2 DEF Verdict, confirmationDelay
  <2>3. CASE r.type = "pkiConf"
    BY <1>6, <1>9, <2>3 DEF Verdict
  <2>4. CASE r.type = "error" /\ r.status = "waiting"
    BY <1>6, <1>9, <2>1, <2>4 DEF Verdict, confirmationDelay
  <2>5. CASE r.type = "pollRep" /\ r.certReqID = -1
    BY <1>6, <1>9, <2>1, <2>5, SMT DEF Verdict, confirmationDelay, goodPollRep
  <2> QED BY <1>3, <1>9, <2>2, <2>3, <2>4, <2>5 DEF Contents, ForConfirmation
<1> QED BY <1>5, <1>8, <1>9

\* What a call for a certificate knows of an answer it has verified: it shows a
\* certificate as the server issued it, and the last one issued unless a late
\* enrollment got another.
LEMMA CertificateCurrent ==
    ASSUME ClientInv, NEW r \in answers, Verified(r), msg.kind \in ForCertificate
    PROVE  /\ call \in {"enroll", "poll"}
           /\ msg.kind \in Enrollment <=> call = "enroll"
           /\ call = "enroll" => r.recipNonce = sends
           /\ Grants(r) =>
                 /\ r.cert # 0 /\ r.cert <= srv.cert
                 /\ r.cert = srv.cert => Matches(r, srv)
                 /\ ~overtaken => r.cert = srv.cert
<1>1. MessageInv /\ AnswersInv /\ TypeOK
  BY DEF ClientInv
<1>2. call \in {"enroll", "poll"} /\ (msg.kind \in Enrollment <=> call = "enroll")
  BY <1>1 DEF MessageInv, TypeOK, ForCertificate, Enrollment
<1>3. msg.kind \in Enrollment => r.recipNonce = sends
  <2> SUFFICES ASSUME msg.kind \in Enrollment
               PROVE  r.recipNonce = sends
    OBVIOUS
  <2>1. DelayedNonce = 0
    BY DEF DelayedNonce
  <2>2. r.recipNonce = msg.nonce
    BY <2>1, VerifiedAuthor DEF Verified
  <2> QED BY <1>1, <2>2 DEF MessageInv, Enrollment
<1>4. Grants(r) =>
         /\ r.cert # 0 /\ r.cert <= srv.cert
         /\ r.cert = srv.cert => Matches(r, srv)
         /\ ~overtaken => r.cert = srv.cert
  BY <1>1, <1>2, <1>3 DEF AnswersInv, Grants
<1> QED BY <1>2, <1>3, <1>4

\* The checks of finishTransaction on an answer are checks on what the server
\* has issued.
LEMMA SameRefusal ==
    ASSUME NEW r, NEW s, NEW q, Matches(r, s)
    PROVE  /\ Refused(r, q) <=> Refused(s, q)
           /\ ImplicitlyConfirmed(r, q) <=> ImplicitlyConfirmed(s, q)
BY DEF Matches, Refused, ImplicitlyConfirmed

\* What an arrival leaves alone.
LEMMA ArrivalLeaves ==
    ASSUME ClientInv, NEW r, Arrives(r)
    PROVE  /\ Kept
           /\ r \in answers /\ r \in Response /\ r.to \in Nonce /\ msg # NoMessage
           /\ ~disorder' => disorder = FALSE /\ r.to = sends
<1>1. TypeOK /\ MessageInv /\ AcceptedFromAuthority
  BY DEF ClientInv
<1>2. r \in answers /\ r \in Response /\ r.to \in Nonce /\ msg # NoMessage
  BY <1>1 DEF Arrives, TypeOK, Response
<1>3. disorder' \in BOOLEAN /\ (disorder => disorder')
  BY DEF Arrives
<1>4. ~disorder' => disorder = FALSE /\ r.to = msg.nonce
  BY <1>1 DEF Arrives, TypeOK
<1>5. msg.nonce = sends
  BY <1>1, <1>2 DEF MessageInv
<1>6. /\ accepted' \in [author : Authority, protection : {"none", "mac", "weakMac", "signature"}]
      /\ AcceptedFromAuthority'
  <2>1. request' = request
    BY DEF Arrives
  <2>2. CASE accepted' = accepted
    BY <1>1, <2>1, <2>2 DEF TypeOK, AcceptedFromAuthority
  <2>3. CASE Verified(r) /\ accepted' = [author |-> r.author, protection |-> r.protection]
    <3>1. /\ r.author = "addressed"
          /\ r.protection = "signature" => request.protection = "signature" \/ request.allowSignedMAC
      BY <2>3, VerifiedAuthor DEF Verified
    <3>2. accepted'.author = r.author /\ accepted'.protection = r.protection
      BY <2>3
    <3>3. AcceptedFromAuthority'
      BY <2>1, <3>1, <3>2 DEF AcceptedFromAuthority
    <3>4. r.author \in Authority /\ r.protection \in {"none", "mac", "weakMac", "signature"}
      BY <1>2 DEF Response
    <3> QED BY <2>3, <3>3, <3>4
  <2> QED BY <2>2, <2>3 DEF Arrives
<1>7. /\ scenario' = scenario /\ request' = request /\ srv' = srv /\ answers' = Retained
      /\ late' \in Abandoned /\ overtaken' = overtaken
  BY DEF Arrives
<1> QED BY <1>2, <1>3, <1>4, <1>5, <1>6, <1>7 DEF Kept

\* What holds after any call that ended without failing: the parts that do not
\* depend on the outcome.
LEMMA EndedKeeps ==
    ASSUME ClientInv, Ended, Kept, call' \in CallName, pending' \in Pending, result' \in Results,
           call \in {"confirm", "done"} =>
              /\ call' \in {"confirm", "done"}
              /\ result' # "fail" => result # "fail" /\ pending'.cert = pending.cert
    PROVE  /\ TypeOK' /\ ServerInv(srv, request)' /\ MessageInv' /\ LateInv' /\ AcceptedFromAuthority'
           /\ answers' \subseteq answers /\ msg'.kind = "none" /\ msg' = NoMessage
           /\ sends' = sends /\ srv' = srv /\ request' = request /\ overtaken' = overtaken
<1>1. /\ TypeOK /\ ServerInv(srv, request) /\ MessageInv
      /\ scenario' = scenario /\ request' = request /\ srv' = srv /\ answers' = Retained
      /\ sends' = sends /\ msg' = NoMessage
  BY DEF ClientInv, Kept, Ended
<1>2. NoMessage \in Message /\ NoMessage.kind = "none"
  BY ProtocolAssumption, SMT DEF NoMessage, Message, Nonce, Cert
<1>3. answers' \subseteq answers
  BY <1>1 DEF Retained
<1>4. TypeOK' /\ LateInv'
  <2>1. LateInv' /\ late' \subseteq Message
    BY <1>1, LateKeeps DEF Kept
  <2> QED BY <1>1, <1>2, <1>3, <2>1 DEF TypeOK, Given, Kept, CallName
<1>5. ServerInv(srv, request)'
  BY <1>1
<1>6. MessageInv'
  BY <1>1, <1>2 DEF MessageInv, Enrollment
<1> QED BY <1>1, <1>2, <1>3, <1>4, <1>5, <1>6 DEF Kept

\* An answer that asks to wait hands its nonces to the next call.
LEMMA PollsKeeps ==
    ASSUME ClientInv, NEW r, Arrives(r), Polls(r)
    PROVE  ClientInv'
<1>1. /\ TypeOK /\ ServerInv(srv, request) /\ MessageInv /\ AnswersInv /\ Agreement /\ Orderly
  BY DEF ClientInv
<1>2. /\ Kept /\ r \in answers /\ r \in Response /\ msg # NoMessage
      /\ ~disorder' => disorder = FALSE /\ r.to = sends
  BY ArrivalLeaves
<1>3. /\ Ended /\ result' = "polling" /\ call' = "poll" /\ pending' = PollState(r)
      /\ Verified(r) /\ msg.kind \in ForCertificate
      /\ \/ finishTransaction(r, request) = "polling"
         \/ msg.kind = "pollReq" /\ goodPollRep(r, pending.certReqID)
  BY DEF Polls, ForCertificate
<1>4. /\ call \in {"enroll", "poll"} /\ (msg.kind \in Enrollment <=> call = "enroll")
      /\ call = "enroll" => r.recipNonce = sends
  BY <1>2, <1>3, CertificateCurrent
<1>5. finishTransaction(r, request) = "polling"
        => r.type \in Body /\ r.status = "waiting" /\ r.certReqID \in {-1, 0}
  BY <1>1, <1>2, Constants, Verdicts
<1>6. r.certReqID \in {-1, 0}
  <2>1. pending.certReqID \in {-1, 0}
    BY <1>1 DEF TypeOK, Pending
  <2> QED BY <1>3, <1>5, <2>1 DEF goodPollRep
<1>7. pending' \in Pending
  BY <1>1, <1>2, <1>3, <1>6, StatesTyped
<1>8. /\ TypeOK' /\ ServerInv(srv, request)' /\ MessageInv' /\ LateInv' /\ AcceptedFromAuthority'
      /\ answers' \subseteq answers /\ msg'.kind = "none" /\ msg' = NoMessage
      /\ sends' = sends /\ srv' = srv /\ request' = request /\ overtaken' = overtaken
  BY <1>2, <1>3, <1>4, <1>7, EndedKeeps DEF CallName, Results
<1>9. /\ pending'.certReqID = r.certReqID /\ pending'.recipNonce = r.senderNonce
      /\ pending'.requestNonce = IF msg.kind \in Enrollment THEN msg.nonce ELSE pending.requestNonce
  BY <1>3 DEF PollState
<1>10. srv.state # "unknown" /\ (call = "enroll" => \A x \in answers : x.cert = 0)
  <2>1. CASE msg.kind \in Enrollment
    <3>1. call = "enroll" /\ r.recipNonce = sends
      BY <1>4, <2>1
    <3>2. r.type \in Body /\ r.status = "waiting"
      BY <1>3, <1>5, <2>1 DEF Enrollment
    <3> QED BY <1>1, <1>2, <3>1, <3>2 DEF AnswersInv
  <2>2. CASE msg.kind \notin Enrollment
    BY <1>1, <1>4, <2>2 DEF Agreement
  <2> QED BY <2>1, <2>2
<1>11. Agreement'
  BY <1>1, <1>3, <1>4, <1>8, <1>10 DEF Agreement, ConfirmedAtServer
<1>12. AnswersInv'
  <2> SUFFICES ASSUME NEW x \in answers'
               PROVE  Grants(x) /\ ~overtaken => x.cert = srv.cert
    BY <1>1, <1>3, <1>8 DEF AnswersInv
  <2>1. x \in answers
    BY <1>8
  <2> QED BY <1>1, <1>4, <1>10, <2>1 DEF AnswersInv, Grants
<1>13. Orderly'
  <2> SUFFICES ASSUME ~disorder'
               PROVE  /\ r.senderNonce # 0 /\ r.certReqID = ResponseID
                      /\ pending'.requestNonce = srv.delayed /\ srv.delayed # 0
    BY <1>3, <1>8, <1>9 DEF Orderly, ResponseID
  <2>1. /\ OrderlyAnswer(r, msg, srv, request)
        /\ call = "poll" => /\ pending.certReqID = ResponseID
                            /\ pending.requestNonce = srv.delayed /\ srv.delayed # 0
    BY <1>1, <1>2 DEF Orderly
  <2>2. msg.nonce # 0 /\ r.senderNonce # 0
    BY <1>1, <1>2, <2>1 DEF OrderlyAnswer, Formal, MessageInv, InFlight
  <2>3. CASE finishTransaction(r, request) = "polling"
    <3>1. r.type \in Body
      BY <1>5, <2>3
    <3>2. Contents(r, msg, srv, request)
      BY <2>1 DEF OrderlyAnswer
    <3>3. r.type # "error"
      BY <3>1 DEF Body
    <3>4. pending'.requestNonce = srv.delayed /\ srv.delayed # 0
      BY <1>4, <1>5, <1>9, <2>1, <2>2, <2>3, <3>1, <3>2 DEF Contents
    <3> QED BY <1>3, <2>2, <3>2, <3>3, <3>4 DEF Contents, Unwilling, ForCertificate
  <2>4. CASE msg.kind = "pollReq" /\ goodPollRep(r, pending.certReqID)
    BY <1>4, <1>9, <2>1, <2>2, <2>4 DEF goodPollRep, Enrollment
  <2> QED BY <1>3, <2>3, <2>4
<1> QED BY <1>8, <1>11, <1>12, <1>13 DEF ClientInv

\* A certificate that is taken was issued, and is final if that is what the call
\* reports.
LEMMA TakesKeeps ==
    ASSUME ClientInv, NEW r, Arrives(r), Takes(r) \/ Completes(r)
    PROVE  ClientInv'
<1>1. /\ TypeOK /\ ServerInv(srv, request) /\ MessageInv /\ AnswersInv /\ Agreement /\ Orderly
  BY DEF ClientInv
<1>2. /\ Kept /\ r \in answers /\ r \in Response /\ msg # NoMessage
  BY ArrivalLeaves
<1>3. /\ Ended /\ pending' = CertificateState(r) /\ Verified(r) /\ msg.kind \in ForCertificate
      /\ \/ /\ result' = "confirming" /\ call' = "confirm"
            /\ finishTransaction(r, request) = "confirming"
         \/ /\ result' = "issued" /\ call' = "done"
            /\ finishTransaction(r, request) = "issued"
  BY DEF Takes, Completes
<1>4. /\ Grants(r) /\ ~Refused(r, request) /\ r.certReqID \in {-1, 0}
      /\ finishTransaction(r, request) = "issued" => ImplicitlyConfirmed(r, request)
  BY <1>1, <1>2, <1>3, Constants, Verdicts
<1>5. /\ call \in {"enroll", "poll"} /\ r.cert # 0 /\ r.cert <= srv.cert
      /\ r.cert = srv.cert => Matches(r, srv)
      /\ ~overtaken => r.cert = srv.cert
  BY <1>2, <1>3, <1>4, CertificateCurrent
<1>6. r.cert = srv.cert => ~Refused(srv, request)
  BY <1>4, <1>5, SameRefusal
<1>7. pending' \in Pending
  BY <1>1, <1>2, <1>3, <1>4, StatesTyped
<1>8. /\ TypeOK' /\ ServerInv(srv, request)' /\ MessageInv' /\ LateInv' /\ AcceptedFromAuthority'
      /\ answers' \subseteq answers /\ msg'.kind = "none" /\ msg' = NoMessage
      /\ sends' = sends /\ srv' = srv /\ request' = request /\ overtaken' = overtaken
  BY <1>2, <1>3, <1>5, <1>7, EndedKeeps DEF CallName, Results
<1>9. pending'.cert = r.cert /\ pending'.requestNonce = 0
  BY <1>3 DEF CertificateState
<1>10. finishTransaction(r, request) = "issued" => srv.state = "confirmed" /\ srv.cert = r.cert
  BY <1>1, <1>2, <1>4 DEF AnswersInv
<1>11. Agreement'
  BY <1>3, <1>5, <1>6, <1>8, <1>9, <1>10 DEF Agreement, ConfirmedAtServer
<1>12. AnswersInv'
  BY <1>1, <1>3, <1>8, <1>9 DEF AnswersInv, ConfirmationNonce
<1>13. Orderly'
  BY <1>3, <1>8, <1>9 DEF Orderly
<1> QED BY <1>8, <1>11, <1>12, <1>13 DEF ClientInv

\* A certificate that is refused is rejected in the same call.
LEMMA RefusalKeeps ==
    ASSUME ClientInv, NEW r, Arrives(r), SendsRefusal(r)
    PROVE  ClientInv'
<1>1. /\ TypeOK /\ ServerInv(srv, request) /\ MessageInv /\ AnswersInv /\ Agreement /\ Orderly
  BY DEF ClientInv
<1>2. /\ Kept /\ r \in answers /\ r \in Response /\ msg # NoMessage
      /\ ~disorder' => disorder = FALSE /\ r.to = sends
  BY ArrivalLeaves
<1>3. /\ scenario' = scenario /\ request' = request /\ srv' = srv /\ answers' = Retained
      /\ result' = result /\ call' = call /\ pending' = pending
      /\ Verified(r) /\ msg.kind \in ForCertificate /\ finishTransaction(r, request) = "refuse"
  BY DEF SendsRefusal, Arrives
<1>4. Grants(r) /\ Refused(r, request)
  BY <1>1, <1>2, <1>3, Constants, Verdicts
<1>5. /\ call \in {"enroll", "poll"} /\ r.cert # 0 /\ r.cert <= srv.cert
      /\ r.cert = srv.cert => Matches(r, srv)
      /\ ~overtaken => r.cert = srv.cert
  BY <1>2, <1>3, <1>4, CertificateCurrent
<1>6. r.cert = srv.cert => Refused(srv, request)
  BY <1>4, <1>5, SameRefusal
<1>7. sends \in Nat /\ sends + 1 \in Nonce /\ sends' = sends + 1
  BY <1>1, Constants, SMT DEF TypeOK, SendsRefusal, Nonce
<1>8. /\ msg'.kind = "reject" /\ msg'.nonce = sends + 1 /\ msg'.cert = r.cert /\ msg' # NoMessage
      /\ msg' \in Message
  <2>1. responseSigner(r) \in Authority \cup {"none"} /\ r.cert \in Cert
    BY <1>1, <1>2, StatesTyped DEF Response
  <2>2. msg' \in Message
    BY <1>7, <2>1 DEF SendsRefusal, Message, confirmationVersion
  <2>3. msg'.kind = "reject" /\ msg'.nonce = sends + 1 /\ msg'.cert = r.cert
    BY DEF SendsRefusal
  <2> QED BY <2>2, <2>3, SMT DEF NoMessage
<1>9. answers' \subseteq answers
  BY <1>3 DEF Retained
<1>10. TypeOK' /\ LateInv'
  <2>1. LateInv' /\ late' \subseteq Message
    BY <1>2, <1>3, <1>5, <1>7, LateKeeps DEF Kept
  <2> QED BY <1>1, <1>2, <1>3, <1>7, <1>8, <1>9, <2>1 DEF TypeOK, Given, Kept
<1>11. ServerInv(srv, request)'
  BY <1>1, <1>3
<1>12. srv.delayed \in Nat /\ srv.delayed <= sends
  BY <1>1, SMT DEF TypeOK, ServerState, Nonce, MessageInv
<1>13. MessageInv'
  <2>1. msg'.nonce # 0 /\ msg'.nonce = sends' /\ msg'.nonce <= sends' /\ srv.delayed <= sends'
    BY <1>7, <1>8, <1>12, SMT
  <2>2. InFlight(msg)'
    BY <1>3, <1>5, <1>6, <1>8, <2>1 DEF InFlight, Sane, ForConfirmation
  <2> QED BY <1>3, <1>5, <1>8, <2>1, <2>2 DEF MessageInv
<1>14. Agreement'
  BY <1>1, <1>2, <1>3, <1>5, <1>8 DEF Agreement, ConfirmedAtServer, Kept
<1>15. \A x \in answers : x.to \in Nat /\ x.recipNonce \in Nat /\ x.recipNonce <= x.to /\ x.to <= sends
  BY <1>1, SMT DEF TypeOK, Response, Nonce, AnswersInv
<1>16. AnswersInv'
  <2> SUFFICES ASSUME NEW x \in answers'
               PROVE  /\ x.recipNonce <= x.to /\ x.to <= sends' /\ x.to < sends'
                      /\ x.recipNonce # sends'
    BY <1>1, <1>2, <1>3, <1>5, <1>9 DEF AnswersInv, Kept
  <2> QED BY <1>7, <1>9, <1>15, SMT
<1>17. disorder'
  <2> SUFFICES ASSUME ~disorder'
               PROVE  FALSE
    OBVIOUS
  <2>1. OrderlyAnswer(r, msg, srv, request)
    BY <1>1, <1>2 DEF Orderly
  <2> QED BY <1>4, <2>1 DEF OrderlyAnswer
<1>18. Orderly'
  BY <1>17 DEF Orderly
<1>19. AcceptedFromAuthority'
  BY <1>2 DEF Kept
<1> QED BY <1>10, <1>11, <1>13, <1>14, <1>16, <1>18, <1>19 DEF ClientInv

\* A pkiConf that ConfirmP10CR accepts comes from a server that has confirmed.
LEMMA ConfirmedKeeps ==
    ASSUME ClientInv, NEW r, Arrives(r), Confirmed(r)
    PROVE  ClientInv'
<1>1. /\ TypeOK /\ ServerInv(srv, request) /\ MessageInv /\ AnswersInv /\ Agreement
  BY DEF ClientInv
<1>2. /\ Kept /\ r \in answers /\ r \in Response /\ msg # NoMessage
  BY ArrivalLeaves
<1>3. /\ Ended /\ result' = "confirmed" /\ call' = "done" /\ pending' = pending
      /\ Verified(r) /\ msg.kind \in ForConfirmation /\ r.type = "pkiConf"
  BY DEF Confirmed
<1>4. call = "confirm" /\ result # "fail"
  BY <1>1, <1>3 DEF MessageInv, Agreement, TypeOK, ForConfirmation, Enrollment
<1>5. srv.state = "confirmed" /\ srv.cert = pending.cert
  <2>1. DelayedNonce = pending.requestNonce
    BY <1>3 DEF DelayedNonce, ForConfirmation, Enrollment
  <2>2. ConfirmationNonce(r.recipNonce)
    BY <1>1, <1>2, <1>3, <2>1, VerifiedAuthor DEF Verified, ConfirmationNonce, MessageInv
  <2> QED BY <1>1, <1>2, <1>3, <1>4, <2>2 DEF AnswersInv
<1>6. /\ TypeOK' /\ ServerInv(srv, request)' /\ MessageInv' /\ LateInv' /\ AcceptedFromAuthority'
      /\ answers' \subseteq answers /\ msg'.kind = "none" /\ msg' = NoMessage
      /\ sends' = sends /\ srv' = srv /\ request' = request /\ overtaken' = overtaken
  BY <1>1, <1>2, <1>3, <1>4, EndedKeeps DEF CallName, Results, TypeOK
<1>7. Agreement'
  BY <1>3, <1>5, <1>6 DEF Agreement, ConfirmedAtServer
<1>8. AnswersInv'
  BY <1>1, <1>3, <1>6 DEF AnswersInv
<1>9. Orderly'
  BY <1>3, <1>6 DEF Orderly
<1> QED BY <1>6, <1>7, <1>8, <1>9 DEF ClientInv

\* A confirmation that is delayed hands its nonce to the next call.
LEMMA WaitsKeeps ==
    ASSUME ClientInv, NEW r, Arrives(r), WaitsForConfirmation(r)
    PROVE  ClientInv'
<1>1. /\ TypeOK /\ ServerInv(srv, request) /\ MessageInv /\ AnswersInv /\ Agreement /\ Orderly
  BY DEF ClientInv
<1>2. /\ Kept /\ r \in answers /\ r \in Response /\ msg # NoMessage
      /\ ~disorder' => disorder = FALSE /\ r.to = sends
  BY ArrivalLeaves
<1>3. /\ Ended /\ result' = "confirming" /\ call' = call /\ pending' = ConfirmationState(r)
      /\ msg.kind \in ForConfirmation /\ confirmationDelay(r) = "confirming"
  BY DEF WaitsForConfirmation
<1>4. call = "confirm" /\ result # "fail"
  BY <1>1, <1>3 DEF MessageInv, Agreement, TypeOK, ForConfirmation, Enrollment
<1>5. (r.type = "error" /\ r.status = "waiting") \/ r.type = "pollRep"
  BY <1>2, <1>3, ConfirmationVerdicts
<1>6. pending' \in Pending
  BY <1>1, <1>2, <1>3, StatesTyped
<1>7. /\ pending'.cert = pending.cert
      /\ pending'.requestNonce = IF pending.requestNonce = 0 THEN msg.nonce ELSE pending.requestNonce
  BY <1>1, <1>3 DEF ConfirmationState, TypeOK, Pending
<1>8. /\ TypeOK' /\ ServerInv(srv, request)' /\ MessageInv' /\ LateInv' /\ AcceptedFromAuthority'
      /\ answers' \subseteq answers /\ msg'.kind = "none" /\ msg' = NoMessage
      /\ sends' = sends /\ srv' = srv /\ request' = request /\ overtaken' = overtaken
  BY <1>1, <1>2, <1>3, <1>4, <1>6, <1>7, EndedKeeps DEF CallName, Results, TypeOK
<1>9. Agreement'
  BY <1>1, <1>3, <1>4, <1>8, <1>7 DEF Agreement, ConfirmedAtServer
<1>10. AnswersInv'
  BY <1>1, <1>2, <1>3, <1>4, <1>7, <1>8 DEF AnswersInv, ConfirmationNonce, MessageInv
<1>11. Orderly'
  <2> SUFFICES ASSUME ~disorder', pending'.requestNonce # 0
               PROVE  /\ srv.delayed = pending'.requestNonce
                      /\ srv.state \in {"confirming", "confirmed"}
    BY <1>3, <1>4, <1>8 DEF Orderly
  <2>1. CASE pending.requestNonce # 0
    BY <1>1, <1>2, <1>4, <1>7, <2>1 DEF Orderly
  <2>2. CASE pending.requestNonce = 0
    <3>1. msg.kind = "certConf"
      BY <1>1, <1>2, <1>4, <2>2 DEF MessageInv
    <3>2. OrderlyAnswer(r, msg, srv, request)
      BY <1>1, <1>2 DEF Orderly
    <3>3. srv.state \in {"confirming", "confirmed"} /\ srv.delayed = msg.nonce
      BY <1>5, <3>1, <3>2 DEF OrderlyAnswer, Contents, Unwilling, ForConfirmation
    <3> QED BY <1>7, <2>2, <3>3
  <2> QED BY <2>1, <2>2
<1> QED BY <1>8, <1>9, <1>10, <1>11 DEF ClientInv

\* Every outcome of an arrival keeps the invariant.
LEMMA DeliverKeeps ==
    ASSUME ClientInv, Deliver
    PROVE  ClientInv'
<1>1. PICK r : Arrives(r)
  BY Arrival DEF ClientInv
<1>2. /\ Kept /\ r \in answers /\ msg # NoMessage
      /\ ~disorder' => disorder = FALSE /\ r.to = sends
  BY <1>1, ArrivalLeaves
<1>3. CASE Fails(r)
  <2>1. disorder'
    BY <1>2, <1>3, OrderlyPasses DEF Fails
  <2> QED BY <1>2, <1>3, <2>1, FailKeeps DEF Fails
<1>4. CASE TriesAgain(r)
  BY <1>2, <1>4, AgainKeeps DEF TriesAgain
<1>5. CASE Polls(r)
  BY <1>1, <1>5, PollsKeeps
<1>6. CASE Takes(r) \/ Completes(r)
  BY <1>1, <1>6, TakesKeeps
<1>7. CASE SendsRefusal(r)
  BY <1>1, <1>7, RefusalKeeps
<1>8. CASE Confirmed(r)
  BY <1>1, <1>8, ConfirmedKeeps
<1>9. CASE WaitsForConfirmation(r)
  BY <1>1, <1>9, WaitsKeeps
<1> QED BY <1>1, <1>3, <1>4, <1>5, <1>6, <1>7, <1>8, <1>9 DEF Arrives, Outcome

-----------------------------------------------------------------------------
(* An answer that is given keeps the invariant. *)

\* What the invariant says about the message that the server takes.
LEMMA MessageTaken ==
    ASSUME ClientInv, msg # NoMessage
    PROVE  /\ msg \in Message /\ InFlight(msg)
           /\ msg.nonce = sends /\ sends # 0 /\ sends \in Nat /\ srv.delayed \in Nat
           /\ srv.delayed <= sends
           /\ msg.kind \in ForCertificate \cup ForConfirmation \cup {"reject"}
           /\ msg.kind \in Enrollment => call = "enroll"
           /\ msg.kind = "pollReq" => call = "poll"
           /\ msg.kind \in ForConfirmation <=> call = "confirm"
           /\ msg.kind \in ForConfirmation
                => msg.cert = pending.cert /\ (msg.kind = "certConf" <=> pending.requestNonce = 0)
           /\ msg.kind = "reject" => call \in {"enroll", "poll"}
           /\ call \in {"enroll", "poll", "confirm"} /\ result \notin {"issued", "confirmed", "fail"}
<1>1. TypeOK /\ MessageInv /\ Agreement
  BY DEF ClientInv
<1>2. msg \in Message /\ InFlight(msg) /\ msg.nonce = sends /\ srv.delayed <= sends
  BY <1>1 DEF TypeOK, MessageInv
<1>3. sends # 0 /\ sends \in Nat /\ srv.delayed \in Nat
  BY <1>1, <1>2, SMT DEF TypeOK, InFlight, ServerState, Nonce
<1>4. /\ msg.kind \in ForCertificate \cup ForConfirmation \cup {"reject"}
      /\ msg.kind \in Enrollment => call = "enroll"
      /\ msg.kind = "pollReq" => call = "poll"
      /\ msg.kind \in ForConfirmation <=> call = "confirm"
      /\ msg.kind \in ForConfirmation => (msg.kind = "certConf" <=> pending.requestNonce = 0)
      /\ msg.kind = "reject" => call \in {"enroll", "poll"}
  BY <1>1, SMT DEF TypeOK, MessageInv, Message, ForCertificate, ForConfirmation, Enrollment
<1>5. call \in {"enroll", "poll", "confirm"} /\ result \notin {"issued", "confirmed", "fail"}
  BY <1>1 DEF TypeOK, MessageInv, Agreement
<1> QED BY <1>2, <1>3, <1>4, <1>5 DEF InFlight

\* The effects of the server's answers keep its own invariant.
LEMMA EffectKeepsServer ==
    ASSUME TypeOK, ServerInv(srv, request), NEW m, Sane(m, srv, request), m.nonce # 0,
           NEW t \in ServerState, NEW b, Effect(m, srv, t, b)
    PROVE  ServerInv(t, request)
<1>1. srv \in ServerState
  BY DEF TypeOK
<1>2. /\ m.kind \in ForConfirmation
           => /\ m.version = confirmationVersion(request)
              /\ m.cert = srv.cert => ~Refused(srv, request)
      /\ m.kind = "reject" /\ m.cert = srv.cert => Refused(srv, request)
  BY DEF Sane
<1>3. SameCertificate(srv, t) => (Refused(srv, request) <=> Refused(t, request))
  BY DEF SameCertificate, Refused
<1>4. CASE Refuses(m, srv, t, b) \/ DelaysAgain(m, srv, t, b) \/ Repeats(m, srv, t, b)
  BY <1>1, <1>4 DEF Refuses, DelaysAgain, Repeats
<1>5. CASE Delays(m, srv, t, b)
  BY <1>1, <1>2, <1>5 DEF Delays, SameCertificate, ServerInv
<1>6. CASE Issues(m, srv, t, b)
  <2>1. t.cert # 0 /\ t.state \in {"issued", "confirmed"}
    BY <1>1, <1>6, SMT DEF Issues, ServerState, Cert
  <2> QED BY <1>1, <1>6, <2>1 DEF Issues, ServerInv
<1>7. CASE Confirms(m, srv, t, b)
  <2>1. t.version \in {2, confirmationVersion(request)}
    BY <1>1, <1>2, <1>7 DEF Confirms, Version, ServerInv, ForConfirmation
  <2> QED BY <1>1, <1>2, <1>3, <1>7, <2>1 DEF Confirms, SameCertificate, ServerInv, ForConfirmation
<1>8. CASE DelaysConfirmation(m, srv, t, b)
  <2>1. t.version \in {2, confirmationVersion(request)}
    BY <1>1, <1>2, <1>8 DEF DelaysConfirmation, Version, ServerInv, ForConfirmation
  <2>2. t.state \in {"issued", "confirming"}
    BY <1>8 DEF DelaysConfirmation
  <2> QED BY <1>1, <1>8, <2>1, <2>2 DEF DelaysConfirmation, SameCertificate, ServerInv
<1>9. CASE TakesRefusal(m, srv, t, b)
  BY <1>1, <1>2, <1>3, <1>9 DEF TakesRefusal, SameCertificate, ServerInv
<1> QED BY <1>4, <1>5, <1>6, <1>7, <1>8, <1>9 DEF Effect

\* The effects in terms of the state: what the server delays, what it has issued
\* and how far it has come.
LEMMA EffectMoves ==
    ASSUME TypeOK, ServerInv(srv, request), NEW m, Sane(m, srv, request),
           NEW t \in ServerState, NEW b, Effect(m, srv, t, b)
    PROVE  /\ \/ t.delayed = srv.delayed
              \/ /\ t.delayed = m.nonce
                 /\ \/ m.kind \in Enrollment /\ srv.state \in {"unknown", "waiting"}
                    \/ m.kind = "certConf" /\ srv.state \in {"issued", "confirming"}
           /\ \/ SameCertificate(srv, t)
              \/ /\ t.cert = srv.cert + 1 /\ srv.state \in {"unknown", "waiting", "issued"}
                 /\ m.kind \in Enrollment \/ (m.kind = "pollReq" /\ srv.cert = 0)
           /\ srv.state # "unknown" => t.state # "unknown"
           /\ srv.state \in {"confirmed", "refused"} => t.state = srv.state
           /\ srv.state = "confirming" => t.state \in {"confirming", "confirmed"}
           /\ m.kind \notin ForConfirmation =>
                 t.version = srv.version /\ (t.state = "confirming" => srv.state = "confirming")
<1>1. CASE Refuses(m, srv, t, b) \/ DelaysAgain(m, srv, t, b) \/ Repeats(m, srv, t, b)
  BY <1>1 DEF Refuses, DelaysAgain, Repeats, SameCertificate
<1>2. CASE Delays(m, srv, t, b)
  BY <1>2 DEF Delays, ServerInv
<1>3. CASE Issues(m, srv, t, b)
  <2>1. t.state \in {"issued", "confirmed"}
    BY <1>3 DEF Issues
  <2>2. m.kind \in Enrollment \/ (m.kind = "pollReq" /\ srv.cert = 0)
    BY <1>3 DEF Issues, ServerInv
  <2> QED BY <1>3, <2>1, <2>2 DEF Issues
<1>4. CASE Confirms(m, srv, t, b)
  BY <1>4 DEF Confirms, Sane, ServerInv, ForConfirmation
<1>5. CASE DelaysConfirmation(m, srv, t, b)
  BY <1>5 DEF DelaysConfirmation, ForConfirmation
<1>6. CASE TakesRefusal(m, srv, t, b)
  BY <1>6 DEF TakesRefusal
<1> QED BY <1>1, <1>2, <1>3, <1>4, <1>5, <1>6 DEF Effect

\* A certificate that was issued stays below the last one, or is still the last.
LEMMA CertificateKept ==
    ASSUME TypeOK, NEW t \in ServerState, SameCertificate(srv, t) \/ t.cert = srv.cert + 1,
           NEW n \in Cert, n <= srv.cert
    PROVE  n <= t.cert /\ (n = t.cert => SameCertificate(srv, t) /\ n = srv.cert)
BY ProtocolAssumption, SMT DEF TypeOK, ServerState, Cert, SameCertificate

\* Whether a certificate is refused does not depend on what happens to it.
LEMMA RefusalKept ==
    ASSUME NEW s, NEW t, NEW q, SameCertificate(s, t)
    PROVE  t.cert = s.cert /\ (Refused(s, q) <=> Refused(t, q))
BY DEF SameCertificate, Refused

\* A message stays as right as it was when the server takes another.
LEMMA SaneKept ==
    ASSUME TypeOK, NEW t \in ServerState, SameCertificate(srv, t) \/ t.cert = srv.cert + 1,
           NEW m \in Message, Sane(m, srv, request)
    PROVE  Sane(m, t, request)
<1>1. m.cert \in Cert
  BY DEF Message
<1>2. m.kind \in ForConfirmation \cup {"reject"}
        => m.cert <= t.cert /\ (m.cert = t.cert => SameCertificate(srv, t) /\ m.cert = srv.cert)
  BY <1>1, CertificateKept DEF Sane
<1> QED BY <1>2, RefusalKept DEF Sane

\* What an answer, or a deviation of it, shows of the server that gave it.
LEMMA AnswerShows ==
    ASSUME ClientInv, msg # NoMessage, NEW t \in ServerState, NEW b, Effect(msg, srv, t, b),
           Formal(b, msg, srv, request), NEW x, Derived(x, b)
    PROVE  /\ x.to = sends /\ (x.recipNonce \in Nat => x.recipNonce <= sends)
           /\ x.type = "pkiConf" /\ msg.kind # "reject" => t.state = "confirmed" /\ t.cert = msg.cert
           /\ x.cert \in {0, t.cert}
           /\ x.type \in Body /\ x.status = "waiting"
                => t.state = "waiting" /\ srv.cert = 0 /\ x.cert = 0
           /\ Grants(x) => Matches(x, t)
<1>1. request \in Request /\ srv \in ServerState /\ ServerInv(srv, request)
  BY Constants DEF ClientInv, TypeOK
<1>2. msg.nonce = sends /\ sends \in Nat /\ srv.delayed <= sends
  BY MessageTaken
<1>3. x.to = sends /\ (x.recipNonce \in Nat => x.recipNonce <= sends)
  BY <1>2, SMT DEF Formal, Derived
<1>4. ResponseBody[request.operation] \in Body
  BY <1>1, SMT DEF ResponseBody, Body, Request
<1>5. /\ b.type = "pkiConf" /\ msg.kind # "reject" => t.state = "confirmed" /\ t.cert = msg.cert
      /\ b.cert # 0 => Matches(b, t)
      /\ b.type \in Body /\ b.status = "waiting"
           => t.state = "waiting" /\ srv.cert = 0 /\ b.cert = 0
  <2>1. CASE Repeats(msg, srv, t, b) \/ Issues(msg, srv, t, b)
    <3>1. Matches(b, t) /\ b.type \in Body
      BY <1>4, <2>1 DEF Repeats, Issues
    <3>2. b.status # "waiting" /\ b.type # "pkiConf"
      BY <3>1 DEF Matches, ServerState, Body
    <3> QED BY <3>1, <3>2
  <2>2. CASE Refuses(msg, srv, t, b)
    BY <2>2 DEF Refuses, Unwilling, Body
  <2>3. CASE Delays(msg, srv, t, b)
    BY <1>1, <1>4, <2>3 DEF Delays, Body, ServerInv
  <2>4. CASE DelaysAgain(msg, srv, t, b)
    BY <2>4 DEF DelaysAgain, Body
  <2>5. CASE Confirms(msg, srv, t, b)
    BY <2>5 DEF Confirms, SameCertificate, Body
  <2>6. CASE DelaysConfirmation(msg, srv, t, b)
    BY <2>6 DEF DelaysConfirmation, Body
  <2>7. CASE TakesRefusal(msg, srv, t, b)
    BY <2>7 DEF TakesRefusal, Body
  <2> QED BY <2>1, <2>2, <2>3, <2>4, <2>5, <2>6, <2>7 DEF Effect
<1>6. x.type = b.type \/ x.type \notin Body \cup {"pkiConf"}
  BY DEF Derived, Body
<1>7. Grants(x) => Matches(x, t)
  BY <1>5 DEF Grants, Derived, Matches
<1>8. (x.type \in Body => x.status = b.status) /\ x.cert \in {b.cert, 0}
  BY DEF Derived
<1>9. x.cert \in {0, t.cert}
  BY <1>5, <1>8 DEF Matches
<1> QED BY <1>3, <1>5, <1>6, <1>7, <1>8, <1>9

\* An answer in which the server does not refuse and does not deviate is an
\* orderly one.
LEMMA AnswerOrderly ==
    ASSUME ClientInv, msg # NoMessage, NEW t \in ServerState, NEW b, Effect(msg, srv, t, b),
           Formal(b, msg, srv, request), "permanent" \notin b.failInfo, ~Refused(b, request),
           msg.kind # "reject", NEW m \in Message,
           m.kind = msg.kind, m.nonce = msg.nonce, m.signer = msg.signer, m.version = msg.version
    PROVE  OrderlyAnswer(b, m, t, request)
<1>1. /\ TypeOK /\ srv \in ServerState /\ ServerInv(srv, request) /\ Agreement
      /\ Sane(msg, srv, request) /\ msg.nonce # 0
  BY MessageTaken DEF ClientInv, TypeOK, InFlight
<1>2. b.version \in {2, msg.version}
  <2>1. b.version = t.version
    BY DEF Effect, Refuses, Delays, DelaysAgain, Repeats, Issues, Confirms, DelaysConfirmation,
           TakesRefusal
  <2>2. CASE msg.kind \in ForConfirmation
    <3>1. ServerInv(t, request)
      BY <1>1, EffectKeepsServer
    <3> QED BY <1>1, <2>1, <2>2, <3>1 DEF ServerInv, Sane
  <2>3. CASE msg.kind \notin ForConfirmation
    <3>1. call \in {"enroll", "poll"} /\ t.version = srv.version
      BY <1>1, <2>3, MessageTaken, EffectMoves
    <3> QED BY <1>1, <2>1, <3>1 DEF Agreement
  <2> QED BY <2>2, <2>3
<1>3. msg.kind \in {"pollReq", "confPoll"} => t.delayed = srv.delayed
  BY <1>1, EffectMoves DEF Enrollment
<1>4. Formal(b, m, t, request)
  BY <1>3 DEF Formal
<1>5. Contents(b, m, t, request)
  <2>1. CASE Repeats(msg, srv, t, b) \/ Issues(msg, srv, t, b)
    <3>1. Matches(b, t) /\ t.cert # 0 /\ t.status \in {"accepted", "grantedWithMods"}
      BY <1>1, <2>1, SMT DEF Repeats, Issues, ServerState, Cert, ServerInv
    <3> QED BY <2>1, <3>1 DEF Repeats, Issues, Matches, Contents, Enrollment, ForCertificate,
                              ForConfirmation
  <2>2. CASE Refuses(msg, srv, t, b)
    BY <2>2 DEF Refuses, Contents, Unwilling, Body
  <2>3. CASE Delays(msg, srv, t, b)
    BY <2>3 DEF Delays, Contents, Enrollment, ForCertificate, ForConfirmation, Body
  <2>4. CASE DelaysAgain(msg, srv, t, b)
    BY <2>4 DEF DelaysAgain, Contents, Enrollment, ForCertificate, ForConfirmation, Body
  <2>5. CASE Confirms(msg, srv, t, b)
    BY <2>5 DEF Confirms, Contents, Enrollment, ForCertificate, ForConfirmation, Body
  <2>6. CASE DelaysConfirmation(msg, srv, t, b)
    BY <2>6 DEF DelaysConfirmation, Contents, Enrollment, ForCertificate, ForConfirmation, Body
  <2>7. CASE TakesRefusal(msg, srv, t, b)
    BY <2>7 DEF TakesRefusal
  <2> QED BY <2>1, <2>2, <2>3, <2>4, <2>5, <2>6, <2>7 DEF Effect
<1> QED BY <1>2, <1>4, <1>5 DEF OrderlyAnswer

\* A deviation leaves of an answer what the answer itself shows.
LEMMA DerivedItself ==
    ASSUME NEW r \in Response
    PROVE  Derived(r, r)
BY DEF Derived

\* What the server does on one message leaves the answers to earlier ones what
\* they were.
LEMMA OldAnswers ==
    ASSUME ClientInv, NEW m, Sane(m, srv, request), NEW t \in ServerState, NEW b,
           Effect(m, srv, t, b), NEW r \in answers
    PROVE  /\ r.cert <= t.cert
           /\ Grants(r) /\ r.cert = t.cert => Matches(r, t)
           /\ Grants(r) /\ ImplicitlyConfirmed(r, request) => t.state = "confirmed" /\ t.cert = r.cert
           /\ call = "confirm" /\ r.type = "pkiConf" /\ ConfirmationNonce(r.recipNonce)
                => t.state = "confirmed" /\ t.cert = pending.cert
<1>1. /\ TypeOK /\ ServerInv(srv, request) /\ r.cert <= srv.cert
      /\ Grants(r) /\ r.cert = srv.cert => Matches(r, srv)
      /\ Grants(r) /\ ImplicitlyConfirmed(r, request) => srv.state = "confirmed" /\ srv.cert = r.cert
      /\ call = "confirm" /\ r.type = "pkiConf" /\ ConfirmationNonce(r.recipNonce)
           => srv.state = "confirmed" /\ srv.cert = pending.cert
  BY DEF ClientInv, AnswersInv
<1>2. r.cert \in Cert
  BY <1>1 DEF TypeOK, Response
<1>3. SameCertificate(srv, t) \/ t.cert = srv.cert + 1
  BY <1>1, EffectMoves
<1>4. r.cert <= t.cert /\ (r.cert = t.cert => SameCertificate(srv, t) /\ r.cert = srv.cert)
  BY <1>1, <1>2, <1>3, CertificateKept
<1>5. srv.state = "confirmed" => t.state = "confirmed" /\ t.cert = srv.cert
  BY <1>1, EffectMoves DEF SameCertificate
<1>6. Grants(r) /\ r.cert = t.cert => Matches(r, t)
  BY <1>1, <1>4 DEF SameCertificate, Matches
<1> QED BY <1>1, <1>4, <1>5, <1>6

\* It also leaves what the client holds what it was.
LEMMA OldAgreement ==
    ASSUME ClientInv, NEW m, Sane(m, srv, request), NEW t \in ServerState, NEW b,
           Effect(m, srv, t, b), m.kind \in ForConfirmation => call \in {"confirm", "done"}
    PROVE  /\ call \in {"enroll", "poll"} => t.state # "confirming" /\ t.version = 2
           /\ call = "poll" => t.state # "unknown"
           /\ call = "confirm" =>
                 /\ pending.cert # 0 /\ pending.cert <= t.cert
                 /\ pending.cert = t.cert => ~Refused(t, request)
           /\ result \in {"issued", "confirmed"} => t.state = "confirmed" /\ t.cert = pending.cert
<1>1. TypeOK /\ ServerInv(srv, request) /\ Agreement
  BY DEF ClientInv
<1>2. pending.cert \in Cert
  BY <1>1 DEF TypeOK, Pending
<1>3. SameCertificate(srv, t) \/ t.cert = srv.cert + 1
  BY <1>1, EffectMoves
<1>4. call \in {"enroll", "poll"} => t.state # "confirming" /\ t.version = 2
  BY <1>1, EffectMoves DEF Agreement
<1>5. call = "poll" => t.state # "unknown"
  BY <1>1, EffectMoves DEF Agreement
<1>6. ASSUME call = "confirm"
      PROVE  /\ pending.cert # 0 /\ pending.cert <= t.cert
             /\ pending.cert = t.cert => ~Refused(t, request)
  <2>1. pending.cert # 0 /\ pending.cert <= srv.cert /\ (pending.cert = srv.cert => ~Refused(srv, request))
    BY <1>1, <1>6 DEF Agreement
  <2>2. /\ pending.cert <= t.cert
        /\ pending.cert = t.cert => SameCertificate(srv, t) /\ pending.cert = srv.cert
    BY <1>1, <1>2, <1>3, <2>1, CertificateKept
  <2> QED BY <2>1, <2>2, RefusalKept
<1>7. result \in {"issued", "confirmed"} => t.state = "confirmed" /\ t.cert = pending.cert
  BY <1>1, EffectMoves DEF Agreement, ConfirmedAtServer, SameCertificate
<1> QED BY <1>4, <1>5, <1>6, <1>7

\* The server answers in order, or deviates in one of the modelled ways.
LEMMA ServerKeeps ==
    ASSUME ClientInv, ServerAnswers
    PROVE  ClientInv'
<1>1. /\ TypeOK /\ ServerInv(srv, request) /\ MessageInv /\ AnswersInv /\ LateInv /\ Agreement
      /\ Orderly /\ AcceptedFromAuthority
  BY DEF ClientInv
<1>2. /\ msg # NoMessage /\ ~msg.served /\ msg' = [msg EXCEPT !.served = TRUE]
      /\ scenario' = scenario /\ request' = request /\ call' = call /\ pending' = pending
      /\ result' = result /\ sends' = sends /\ accepted' = accepted
      /\ late' = late /\ overtaken' = overtaken
  BY DEF ServerAnswers
<1>3. PICK a \in OrderlyAnswers(msg) :
         /\ srv' = a.srv
         /\ \/ /\ answers' = Retained \cup {a.base}
               /\ disorder' = (disorder \/ "permanent" \in a.base.failInfo \/ Refused(a.base, request))
            \/ \E d \in Given.defects :
                  /\ answers' = Retained \cup {Deviate(a.base, d)}
                  /\ disorder' = TRUE
  BY DEF ServerAnswers
<1>4. PICK t, b : t = a.srv /\ b = a.base
  OBVIOUS
<1>5. /\ t \in ServerState /\ b \in Response /\ Formal(b, msg, srv, request)
      /\ Effect(msg, srv, t, b)
  <2>1. msg.kind # "none" /\ msg \in Message
    BY <1>1, <1>2 DEF MessageInv, TypeOK
  <2> QED BY <1>1, <1>4, <2>1, ServerEffects DEF Sound
<1>6. PICK x \in Response :
         /\ Derived(x, b) /\ answers' = Retained \cup {x}
         /\ disorder' \in BOOLEAN
         /\ ~disorder' => /\ disorder = FALSE /\ x = b
                          /\ "permanent" \notin b.failInfo /\ ~Refused(b, request)
  <2>1. CASE /\ answers' = Retained \cup {b}
             /\ disorder' = (disorder \/ "permanent" \in b.failInfo \/ Refused(b, request))
    <3>1. disorder' \in BOOLEAN
      BY <2>1
    <3>2. ~disorder' => disorder = FALSE /\ "permanent" \notin b.failInfo /\ ~Refused(b, request)
      BY <1>1, <2>1 DEF TypeOK
    <3> QED BY <1>5, <2>1, <3>1, <3>2, DerivedItself
  <2>2. CASE \E d \in Given.defects : answers' = Retained \cup {Deviate(b, d)} /\ disorder' = TRUE
    <3>1. PICK d \in Given.defects : answers' = Retained \cup {Deviate(b, d)} /\ disorder' = TRUE
      BY <2>2
    <3>2. d \in Defect
      BY <1>1, Constants
    <3> QED BY <1>5, <3>1, <3>2, DeviationDerived
  <2> QED BY <1>3, <1>4, <2>1, <2>2
<1>7. srv' = t
  BY <1>3, <1>4
<1>8. /\ msg' \in Message /\ msg'.kind = msg.kind /\ msg'.nonce = msg.nonce /\ msg'.cert = msg.cert
      /\ msg'.signer = msg.signer /\ msg'.version = msg.version /\ msg'.served = TRUE
      /\ msg' # NoMessage
  <2>1. /\ msg' \in Message /\ msg'.kind = msg.kind /\ msg'.nonce = msg.nonce /\ msg'.cert = msg.cert
        /\ msg'.signer = msg.signer /\ msg'.version = msg.version /\ msg'.served = TRUE
    BY <1>1, <1>2 DEF TypeOK, Message
  <2> QED BY <2>1, SMT DEF NoMessage
<1>9. Retained \subseteq answers
  BY DEF Retained
<1>10. TypeOK'
  BY <1>1, <1>2, <1>5, <1>6, <1>7, <1>8, <1>9 DEF TypeOK, Given
<1>11. /\ msg \in Message /\ InFlight(msg)
       /\ msg.nonce = sends /\ sends # 0 /\ sends \in Nat /\ srv.delayed <= sends
       /\ msg.kind \in ForCertificate \cup ForConfirmation \cup {"reject"}
       /\ msg.kind \in Enrollment => call = "enroll"
       /\ msg.kind = "pollReq" => call = "poll"
       /\ msg.kind \in ForConfirmation <=> call = "confirm"
       /\ msg.kind \in ForConfirmation
            => msg.cert = pending.cert /\ (msg.kind = "certConf" <=> pending.requestNonce = 0)
       /\ msg.kind = "reject" => call \in {"enroll", "poll"}
       /\ call \in {"enroll", "poll", "confirm"} /\ result \notin {"issued", "confirmed", "fail"}
  BY <1>2, MessageTaken
<1>12. Sane(msg, srv, request) /\ msg.nonce # 0
  BY <1>11 DEF InFlight
<1>13. ServerInv(srv, request)'
  BY <1>1, <1>2, <1>5, <1>7, <1>12, EffectKeepsServer
<1>14. /\ \/ t.delayed = srv.delayed
          \/ t.delayed = sends /\ msg.kind \in Enrollment \cup {"certConf"}
       /\ \/ SameCertificate(srv, t)
          \/ /\ t.cert = srv.cert + 1
             /\ msg.kind \in Enrollment \/ (msg.kind = "pollReq" /\ srv.cert = 0)
       /\ srv.state \in {"confirming", "confirmed"} => t.state \in {"confirming", "confirmed"}
  BY <1>1, <1>5, <1>11, <1>12, EffectMoves
<1>15. MessageInv'
  <2>1. t.delayed <= sends
    BY <1>11, <1>14, SMT
  <2>2. Sane(msg, t, request)
    BY <1>1, <1>5, <1>11, <1>12, <1>14, SaneKept
  <2>3. InFlight(msg)'
    BY <1>2, <1>7, <1>8, <1>11, <2>2 DEF InFlight, Sane
  <2> QED BY <1>1, <1>2, <1>7, <1>8, <2>1, <2>3 DEF MessageInv
<1>16. LateInv'
  <2> SUFFICES ASSUME NEW m \in late
               PROVE  InFlight(m)' /\ (msg' # NoMessage => m.nonce < sends')
    BY <1>2 DEF LateInv
  <2>1. m \in Message /\ InFlight(m) /\ m.nonce < sends
    BY <1>1, <1>2 DEF TypeOK, LateInv
  <2>2. Sane(m, t, request)
    BY <1>1, <1>5, <1>14, <2>1, SaneKept DEF InFlight
  <2> QED BY <1>2, <1>7, <2>1, <2>2 DEF InFlight
<1>17. Agreement'
  <2>1. /\ call \in {"enroll", "poll"} => t.state # "confirming" /\ t.version = 2
        /\ call = "poll" => t.state # "unknown"
        /\ call = "confirm" =>
              /\ pending.cert # 0 /\ pending.cert <= t.cert
              /\ pending.cert = t.cert => ~Refused(t, request)
    BY <1>5, <1>11, <1>12, OldAgreement
  <2>2. msg.kind \in {"certConf", "confPoll", "reject"} => t.cert = srv.cert
    BY <1>14 DEF Enrollment, SameCertificate
  <2>3. /\ call = "confirm" /\ ~overtaken => pending.cert = t.cert
        /\ msg.kind = "reject" /\ ~overtaken => msg.cert = t.cert
    BY <1>1, <1>11, <2>2 DEF Agreement, ForConfirmation
  <2> QED BY <1>2, <1>7, <1>8, <1>11, <2>1, <2>3 DEF Agreement, ConfirmedAtServer
<1>18. /\ x.to = sends /\ x.recipNonce \in Nat /\ x.recipNonce <= sends
       /\ x.type = "pkiConf" /\ msg.kind # "reject" => t.state = "confirmed" /\ t.cert = msg.cert
       /\ x.cert \in {0, t.cert}
       /\ x.type \in Body /\ x.status = "waiting"
            => t.state = "waiting" /\ srv.cert = 0 /\ x.cert = 0
       /\ Grants(x) => Matches(x, t)
  <2>1. x.recipNonce \in Nat
    BY <1>6, SMT DEF Response, Nonce
  <2> QED BY <1>2, <1>5, <1>6, <2>1, AnswerShows
<1>19. \A r \in Retained : /\ r \in answers /\ r.to \in Nat /\ r.recipNonce \in Nat
                           /\ r.recipNonce <= r.to /\ r.to < sends
                           /\ r.cert \in Nat /\ r.cert <= srv.cert
  BY <1>1, <1>2, <1>9, ProtocolAssumption, SMT DEF TypeOK, Response, Nonce, Cert, AnswersInv
<1>20. AnswersInv'
  <2> SUFFICES ASSUME NEW r \in answers'
               PROVE  /\ r.recipNonce <= r.to /\ r.to <= sends
                      /\ r.cert <= t.cert
                      /\ Grants(r) /\ r.cert = t.cert => Matches(r, t)
                      /\ Grants(r) /\ ImplicitlyConfirmed(r, request)
                           => t.state = "confirmed" /\ t.cert = r.cert
                      /\ call = "confirm" /\ r.type = "pkiConf" /\ ConfirmationNonce(r.recipNonce)
                           => t.state = "confirmed" /\ t.cert = pending.cert
                      /\ call = "enroll" /\ r.recipNonce = sends /\ r.type \in Body
                           /\ r.status = "waiting"
                           => t.state # "unknown" /\ \A y \in answers' : y.cert = 0
                      /\ call = "enroll" /\ r.recipNonce = sends /\ Grants(r) /\ ~overtaken
                           => r.cert = t.cert
                      /\ call = "poll" /\ Grants(r) /\ ~overtaken => r.cert = t.cert
    BY <1>2, <1>7, <1>8, ZenonT(40) DEF AnswersInv, ConfirmationNonce
  <2>1. CASE r = x
    <3>1. r.recipNonce <= r.to /\ r.to <= sends /\ r.cert <= t.cert
      <4>1. t.cert \in Nat
        BY <1>5, ProtocolAssumption, SMT DEF ServerState, Cert
      <4> QED BY <1>11, <1>18, <2>1, <4>1, SMT
    <3>2. Grants(r) => Matches(r, t) /\ r.cert = t.cert
      BY <1>18, <2>1 DEF Matches
    <3>3. Grants(r) /\ ImplicitlyConfirmed(r, request) => t.state = "confirmed"
      BY <1>2, <1>7, <1>13, <3>2 DEF Grants, Matches, ImplicitlyConfirmed, ServerInv
    <3>4. call = "confirm" /\ r.type = "pkiConf" => t.state = "confirmed" /\ t.cert = pending.cert
      BY <1>11, <1>18, <2>1 DEF ForConfirmation
    <3>5. r.type \in Body /\ r.status = "waiting"
            => t.state # "unknown" /\ \A y \in answers' : y.cert = 0
      <4> SUFFICES ASSUME r.type \in Body, r.status = "waiting", NEW y \in answers'
                   PROVE  t.state # "unknown" /\ y.cert = 0
        BY DEF Body
      <4>1. t.state = "waiting" /\ srv.cert = 0 /\ x.cert = 0
        BY <1>18, <2>1
      <4>2. CASE y = x
        BY <4>1, <4>2
      <4>3. CASE y \in Retained
        BY <1>19, <4>1, <4>3, SMT
      <4> QED BY <1>6, <4>2, <4>3
    <3> QED BY <3>1, <3>2, <3>3, <3>4, <3>5
  <2>2. CASE r \in Retained
    <3>1. r \in answers /\ r.recipNonce # sends /\ r.recipNonce <= r.to /\ r.to <= sends
      BY <1>11, <1>19, <2>2, SMT
    <3>2. /\ r.cert <= t.cert
          /\ Grants(r) /\ r.cert = t.cert => Matches(r, t)
          /\ Grants(r) /\ ImplicitlyConfirmed(r, request) => t.state = "confirmed" /\ t.cert = r.cert
          /\ call = "confirm" /\ r.type = "pkiConf" /\ ConfirmationNonce(r.recipNonce)
               => t.state = "confirmed" /\ t.cert = pending.cert
      BY <1>5, <1>12, <3>1, OldAnswers
    <3>3. call = "poll" /\ Grants(r) /\ ~overtaken => r.cert = t.cert
      <4> SUFFICES ASSUME call = "poll", Grants(r), ~overtaken
                   PROVE  r.cert = t.cert
        OBVIOUS
      <4>1. r.cert = srv.cert
        BY <1>1, <3>1 DEF AnswersInv
      <4>2. srv.cert # 0 /\ msg.kind \notin Enrollment
        BY <1>11, <4>1 DEF Grants
      <4> QED BY <1>14, <4>1, <4>2 DEF SameCertificate
    <3> QED BY <3>1, <3>2, <3>3
  <2> QED BY <1>6, <2>1, <2>2
<1>21. Orderly'
  <2> SUFFICES ASSUME ~disorder'
               PROVE  /\ result # "fail"
                      /\ msg.kind # "reject"
                      /\ call = "poll" =>
                            /\ pending.recipNonce # 0 /\ pending.certReqID = ResponseID
                            /\ pending.requestNonce = t.delayed /\ t.delayed # 0
                      /\ call = "confirm" /\ pending.requestNonce # 0
                           => t.delayed = pending.requestNonce /\ t.state \in {"confirming", "confirmed"}
                      /\ \A r \in answers' : r.to = sends => OrderlyAnswer(r, msg', t, request)
    BY <1>2, <1>7, <1>8, ZenonT(40) DEF Orderly, ResponseID, OrderlyAnswer, Contents
  <2>1. /\ disorder = FALSE /\ x = b /\ "permanent" \notin b.failInfo /\ ~Refused(b, request)
    BY <1>6
  <2>2. /\ msg.kind # "reject"
        /\ call = "poll" =>
              /\ pending.recipNonce # 0 /\ pending.certReqID = ResponseID
              /\ pending.requestNonce = srv.delayed /\ srv.delayed # 0
        /\ call = "confirm" /\ pending.requestNonce # 0
             => srv.delayed = pending.requestNonce /\ srv.state \in {"confirming", "confirmed"}
    BY <1>1, <2>1 DEF Orderly
  <2>3. call = "confirm" /\ pending.requestNonce # 0
          => t.delayed = pending.requestNonce /\ t.state \in {"confirming", "confirmed"}
    BY <1>11, <1>14, <2>2 DEF ForConfirmation, Enrollment
  <2>7. call = "poll" => t.delayed = srv.delayed
    BY <1>11, <1>14 DEF ForConfirmation
  <2>4. PICK m : m = msg'
    OBVIOUS
  <2>5. OrderlyAnswer(b, m, t, request)
    BY <1>2, <1>5, <1>8, <2>1, <2>2, <2>4, AnswerOrderly
  <2>6. ASSUME NEW r \in answers', r.to = sends
        PROVE  OrderlyAnswer(r, msg', t, request)
    <3>1. r = b
      BY <1>6, <1>11, <1>19, <2>1, <2>6, SMT
    <3> QED BY <2>4, <2>5, <3>1
  <2> QED BY <1>11, <2>2, <2>3, <2>6, <2>7
<1>22. AcceptedFromAuthority'
  BY <1>1, <1>2 DEF AcceptedFromAuthority
<1> QED BY <1>10, <1>13, <1>15, <1>16, <1>17, <1>20, <1>21, <1>22 DEF ClientInv

\* A message arrives that its call has given up.
LEMMA LateArrivalKeeps ==
    ASSUME ClientInv, ArrivesLate
    PROVE  ClientInv'
<1>1. /\ TypeOK /\ ServerInv(srv, request) /\ MessageInv /\ AnswersInv /\ LateInv /\ Agreement
      /\ Orderly /\ AcceptedFromAuthority
  BY DEF ClientInv
<1>2. PICK m \in late :
         \E a \in OrderlyAnswers(m) :
           /\ srv' = a.srv
           /\ late' = late \ {m}
           /\ overtaken' = (overtaken \/ (srv.cert # 0 /\ a.srv.cert # srv.cert))
           /\ disorder' = (disorder \/ (srv.state \in {"waiting", "confirming"}
                                         /\ a.srv.delayed # srv.delayed))
           /\ UNCHANGED <<scenario, callVars, answers>>
  BY DEF ArrivesLate
<1>3. PICK a \in OrderlyAnswers(m) :
         /\ srv' = a.srv
         /\ late' = late \ {m}
         /\ overtaken' = (overtaken \/ (srv.cert # 0 /\ a.srv.cert # srv.cert))
         /\ disorder' = (disorder \/ (srv.state \in {"waiting", "confirming"}
                                       /\ a.srv.delayed # srv.delayed))
         /\ UNCHANGED <<scenario, callVars, answers>>
  BY <1>2
<1>4. /\ scenario' = scenario /\ request' = request /\ call' = call /\ pending' = pending
      /\ msg' = msg /\ result' = result /\ sends' = sends /\ accepted' = accepted
      /\ answers' = answers
  BY <1>3 DEF callVars
<1>5. m \in Message /\ InFlight(m)
  BY <1>1 DEF TypeOK, LateInv
<1>6. /\ Sane(m, srv, request) /\ m.kind # "none" /\ m.nonce # 0 /\ m.nonce <= sends
      /\ m.kind \in ForConfirmation => call \in {"confirm", "done"}
  BY <1>5 DEF InFlight, Sane
<1>7. PICK t, b : t = a.srv /\ b = a.base
  OBVIOUS
<1>8. t \in ServerState /\ Effect(m, srv, t, b) /\ srv' = t
  BY <1>1, <1>3, <1>5, <1>6, <1>7, ServerEffects DEF Sound
<1>9. /\ overtaken' \in BOOLEAN /\ (~overtaken' => ~overtaken /\ (srv.cert # 0 => t.cert = srv.cert))
      /\ disorder' \in BOOLEAN
      /\ ~disorder' => ~disorder /\ (srv.state \in {"waiting", "confirming"} => t.delayed = srv.delayed)
  BY <1>1, <1>3, <1>7 DEF TypeOK
<1>10. TypeOK'
  BY <1>1, <1>3, <1>4, <1>8, <1>9 DEF TypeOK, Given
<1>11. ServerInv(srv, request)'
  BY <1>1, <1>4, <1>6, <1>8, EffectKeepsServer
<1>12. /\ \/ t.delayed = srv.delayed
          \/ /\ t.delayed = m.nonce
             /\ \/ m.kind \in Enrollment /\ srv.state \in {"unknown", "waiting"}
                \/ m.kind = "certConf" /\ srv.state \in {"issued", "confirming"}
       /\ SameCertificate(srv, t) \/ t.cert = srv.cert + 1
       /\ srv.state # "unknown" => t.state # "unknown"
       /\ srv.state \in {"confirming", "confirmed"} => t.state \in {"confirming", "confirmed"}
  BY <1>1, <1>6, <1>8, EffectMoves
<1>13. ASSUME NEW x \in Message, InFlight(x)
       PROVE  InFlight(x)'
  <2>1. Sane(x, t, request)
    BY <1>1, <1>8, <1>12, <1>13, SaneKept DEF InFlight
  <2> QED BY <1>4, <1>8, <1>13, <2>1 DEF InFlight
<1>14. MessageInv'
  <2>1. t.delayed <= sends
    BY <1>1, <1>6, <1>12 DEF MessageInv
  <2>2. msg # NoMessage => Sane(msg, t, request)
    BY <1>1, <1>8, <1>12, SaneKept DEF MessageInv, InFlight, TypeOK
  <2>3. msg # NoMessage => InFlight(msg)'
    BY <1>1, <1>4, <1>8, <2>2 DEF MessageInv, InFlight
  <2> QED BY <1>1, <1>4, <1>8, <2>1, <2>3 DEF MessageInv
<1>15. LateInv'
  <2> SUFFICES ASSUME NEW x \in late, x \in late'
               PROVE  InFlight(x)' /\ (msg' # NoMessage => x.nonce < sends')
    BY <1>3 DEF LateInv
  <2>1. x \in Message /\ InFlight(x) /\ (msg # NoMessage => x.nonce < sends)
    BY <1>1 DEF TypeOK, LateInv
  <2> QED BY <1>4, <1>13, <2>1
<1>16. Agreement'
  <2>1. /\ call \in {"enroll", "poll"} => t.state # "confirming" /\ t.version = 2
        /\ call = "poll" => t.state # "unknown"
        /\ call = "confirm" =>
              /\ pending.cert # 0 /\ pending.cert <= t.cert
              /\ pending.cert = t.cert => ~Refused(t, request)
        /\ result \in {"issued", "confirmed"} => t.state = "confirmed" /\ t.cert = pending.cert
    BY <1>6, <1>8, OldAgreement
  <2>2. call = "confirm" /\ ~overtaken' => pending.cert = t.cert
    BY <1>1, <1>9 DEF Agreement
  <2>3. msg.kind = "reject" /\ ~overtaken' => msg.cert = t.cert
    BY <1>1, <1>9 DEF Agreement, MessageInv, InFlight, Sane
  <2> QED BY <1>1, <1>4, <1>8, <2>1, <2>2, <2>3 DEF Agreement, ConfirmedAtServer
<1>17. AnswersInv'
  <2> SUFFICES ASSUME NEW r \in answers
               PROVE  /\ r.recipNonce <= r.to /\ r.to <= sends
                      /\ msg # NoMessage /\ ~msg.served => r.to < sends
                      /\ r.cert <= t.cert
                      /\ Grants(r) /\ r.cert = t.cert => Matches(r, t)
                      /\ Grants(r) /\ ImplicitlyConfirmed(r, request)
                           => t.state = "confirmed" /\ t.cert = r.cert
                      /\ call = "confirm" /\ r.type = "pkiConf" /\ ConfirmationNonce(r.recipNonce)
                           => t.state = "confirmed" /\ t.cert = pending.cert
                      /\ call = "enroll" /\ r.recipNonce = sends /\ r.type \in Body
                           /\ r.status = "waiting"
                           => t.state # "unknown" /\ \A y \in answers : y.cert = 0
                      /\ call = "enroll" /\ r.recipNonce = sends /\ Grants(r) /\ ~overtaken'
                           => r.cert = t.cert
                      /\ call = "poll" /\ Grants(r) /\ ~overtaken' => r.cert = t.cert
    BY <1>4, <1>8, ZenonT(40) DEF AnswersInv, ConfirmationNonce
  <2>1. /\ r.cert <= t.cert
        /\ Grants(r) /\ r.cert = t.cert => Matches(r, t)
        /\ Grants(r) /\ ImplicitlyConfirmed(r, request) => t.state = "confirmed" /\ t.cert = r.cert
        /\ call = "confirm" /\ r.type = "pkiConf" /\ ConfirmationNonce(r.recipNonce)
             => t.state = "confirmed" /\ t.cert = pending.cert
    BY <1>6, <1>8, OldAnswers
  <2>2. /\ r.recipNonce <= r.to /\ r.to <= sends
        /\ msg # NoMessage /\ ~msg.served => r.to < sends
        /\ call = "enroll" /\ r.recipNonce = sends /\ r.type \in Body /\ r.status = "waiting"
             => srv.state # "unknown" /\ \A y \in answers : y.cert = 0
        /\ call = "enroll" /\ r.recipNonce = sends /\ Grants(r) /\ ~overtaken => r.cert = srv.cert
        /\ call = "poll" /\ Grants(r) /\ ~overtaken => r.cert = srv.cert
    BY <1>1 DEF AnswersInv
  <2>3. Grants(r) /\ r.cert = srv.cert /\ ~overtaken' => r.cert = t.cert
    BY <1>9 DEF Grants
  <2> QED BY <1>9, <1>12, <2>1, <2>2, <2>3
<1>18. Orderly'
  <2> SUFFICES ASSUME ~disorder'
               PROVE  /\ result # "fail"
                      /\ msg.kind # "reject"
                      /\ call = "poll" =>
                            /\ pending.recipNonce # 0 /\ pending.certReqID = ResponseID
                            /\ pending.requestNonce = t.delayed /\ t.delayed # 0
                      /\ call = "confirm" /\ pending.requestNonce # 0
                           => t.delayed = pending.requestNonce /\ t.state \in {"confirming", "confirmed"}
                      /\ msg # NoMessage =>
                            \A r \in answers : r.to = sends => OrderlyAnswer(r, msg, t, request)
    BY <1>4, <1>8, ZenonT(40) DEF Orderly, ResponseID, OrderlyAnswer, Contents
  <2>1. /\ result # "fail" /\ msg.kind # "reject"
        /\ call = "poll" =>
              /\ pending.recipNonce # 0 /\ pending.certReqID = ResponseID
              /\ pending.requestNonce = srv.delayed /\ srv.delayed # 0
        /\ call = "confirm" /\ pending.requestNonce # 0
             => srv.delayed = pending.requestNonce /\ srv.state \in {"confirming", "confirmed"}
        /\ msg # NoMessage => \A r \in answers : r.to = sends => OrderlyAnswer(r, msg, srv, request)
    BY <1>1, <1>9 DEF Orderly
  <2>2. /\ call \in {"enroll", "poll"} /\ srv.state # "unknown" => t.delayed = srv.delayed
        /\ srv.state \in {"confirming", "confirmed"} => t.delayed = srv.delayed
    BY <1>6, <1>9, <1>12 DEF ForConfirmation
  <2>3. call = "poll" => srv.state # "unknown"
    BY <1>1 DEF Agreement
  <2>4. ASSUME NEW r \in answers, msg # NoMessage, r.to = sends
        PROVE  OrderlyAnswer(r, msg, t, request)
    <3>1. OrderlyAnswer(r, msg, srv, request)
      BY <2>1, <2>4
    <3>2. /\ msg.kind \in Enrollment => call = "enroll"
          /\ msg.kind = "pollReq" => call = "poll"
          /\ msg.kind = "confPoll" => call = "confirm" /\ pending.requestNonce # 0
      BY <2>4, MessageTaken DEF ForConfirmation
    <3>3. msg.kind \in {"pollReq", "confPoll"} => t.delayed = srv.delayed
      BY <2>1, <2>2, <2>3, <3>2
    <3>4. Formal(r, msg, t, request)
      BY <3>1, <3>3 DEF OrderlyAnswer, Formal
    <3>5. Contents(r, msg, t, request)
      <4>1. Contents(r, msg, srv, request)
        BY <3>1 DEF OrderlyAnswer
      <4>2. msg.kind \in Enrollment /\ r.type \in Body /\ r.status = "waiting"
              => t.state # "unknown" /\ t.delayed = msg.nonce
        BY <1>12, <2>2, <3>2, <4>1 DEF Contents
      <4>3. srv.state \in {"confirming", "confirmed"} /\ srv.delayed = msg.nonce
              => t.state \in {"confirming", "confirmed"} /\ t.delayed = msg.nonce
        BY <1>12, <2>2
      <4> QED BY <4>1, <4>2, <4>3 DEF Contents
    <3> QED BY <3>1, <3>4, <3>5 DEF OrderlyAnswer
  <2> QED BY <1>12, <2>1, <2>2, <2>3, <2>4
<1>19. AcceptedFromAuthority'
  BY <1>1, <1>4 DEF AcceptedFromAuthority
<1> QED BY <1>10, <1>11, <1>14, <1>15, <1>16, <1>17, <1>18, <1>19 DEF ClientInv

-----------------------------------------------------------------------------
(* Results. *)

\* The invariant holds initially.
LEMMA ClientInvInit ==
    ASSUME Init
    PROVE  ClientInv
<1>1. /\ call = "enroll" /\ pending = NoPending /\ msg = NoMessage /\ result = "none" /\ sends = 0
      /\ answers = {} /\ disorder = FALSE /\ late = {} /\ overtaken = FALSE
      /\ srv.state = "unknown" /\ srv.cert = 0 /\ srv.implicit = FALSE /\ srv.delayed = 0 /\ srv.version = 2
      /\ accepted.author = "addressed" /\ accepted.protection = "none"
  BY DEF Init
<1>2. NoMessage \in Message /\ NoMessage.kind = "none"
  BY ProtocolAssumption, SMT DEF NoMessage, Message, Nonce, Cert
<1>3. TypeOK
  <2>1. srv \in ServerState
    BY ProtocolAssumption, SMT DEF Init, ServerState, Nonce, Cert, CertificateKind
  <2>2. accepted \in [author : Authority, protection : {"none", "mac", "weakMac", "signature"}]
    BY DEF Init, Authority
  <2>3. 0 \in Nonce
    BY ProtocolAssumption, SMT DEF Nonce
  <2> QED BY <1>1, <1>2, <2>1, <2>2, <2>3, NoPendingTyped DEF Init, TypeOK, Results
<1>4. ServerInv(srv, request)
  BY <1>1 DEF ServerInv
<1>5. MessageInv
  BY <1>1, <1>2, SMT DEF MessageInv, Enrollment
<1>6. Agreement
  BY <1>1, <1>2 DEF Agreement, ConfirmedAtServer
<1>7. AnswersInv
  BY <1>1 DEF AnswersInv
<1>8. Orderly
  BY <1>1, <1>2 DEF Orderly
<1>9. AcceptedFromAuthority
  BY <1>1 DEF AcceptedFromAuthority
<1>10. LateInv
  BY <1>1 DEF LateInv
<1> QED BY <1>3, <1>4, <1>5, <1>6, <1>7, <1>8, <1>9, <1>10 DEF ClientInv

\* Every action keeps the invariant, and so does a step that changes nothing.
LEMMA ClientInvStep ==
    ASSUME ClientInv, [Next]_vars
    PROVE  ClientInv'
<1>1. CASE EnrollP10CR \/ EnrollIR \/ EnrollKUR
  BY <1>1, EnrollKeeps
<1>2. CASE PollP10CR
  BY <1>2, PollKeeps
<1>3. CASE ConfirmP10CR
  BY <1>3, ConfirmKeeps
<1>4. CASE ServerAnswers
  BY <1>4, ServerKeeps
<1>5. CASE Deliver
  BY <1>5, DeliverKeeps
<1>6. CASE NoCMPAnswer
  BY <1>6, BrokenKeeps
<1>7. CASE Crash
  BY <1>7, CrashKeeps
<1>8. CASE ArrivesLate
  BY <1>8, LateArrivalKeeps
<1>9. CASE UNCHANGED vars
  <2>1. /\ scenario' = scenario /\ request' = request /\ call' = call /\ pending' = pending
        /\ msg' = msg /\ srv' = srv /\ answers' = answers /\ result' = result
        /\ sends' = sends /\ disorder' = disorder /\ accepted' = accepted
        /\ late' = late /\ overtaken' = overtaken
    BY <1>9 DEF vars, callVars
  <2>2. TypeOK'
    BY <2>1 DEF ClientInv, TypeOK, Given
  <2>3. ServerInv(srv, request)'
    BY <2>1 DEF ClientInv, ServerInv
  <2>4. MessageInv'
    BY <2>1 DEF ClientInv, MessageInv, InFlight
  <2>5. Agreement'
    BY <2>1 DEF ClientInv, Agreement, ConfirmedAtServer
  <2>6. AnswersInv'
    BY <2>1 DEF ClientInv, AnswersInv, ConfirmationNonce
  <2>7. Orderly'
    BY <2>1, ZenonT(40) DEF ClientInv, Orderly, ResponseID, OrderlyAnswer, Contents
  <2>8. AcceptedFromAuthority'
    BY <2>1 DEF ClientInv, AcceptedFromAuthority
  <2>9. LateInv'
    BY <2>1 DEF ClientInv, LateInv, InFlight
  <2> QED BY <2>2, <2>3, <2>4, <2>5, <2>6, <2>7, <2>8, <2>9 DEF ClientInv
<1> QED BY <1>1, <1>2, <1>3, <1>4, <1>5, <1>6, <1>7, <1>8, <1>9 DEF Next

\* What client and server know of each other holds throughout.
THEOREM ClientInvariant == Spec => []ClientInv
BY ClientInvInit, ClientInvStep, PTL DEF Spec

\* A transaction fails only for a cause, for every set of deviations and every
\* number of messages (acceptableRecipNonce, confirmationDelay).
THEOREM FailsOnlyForCauseHolds == Spec => []FailsOnlyForCause
<1>1. ClientInv => FailsOnlyForCause
  BY DEF ClientInv, Orderly, FailsOnlyForCause
<1> QED BY <1>1, ClientInvariant, PTL

\* What a call reports as issued or confirmed is confirmed at the server, also
\* after crashes and repeated answers (finishTransaction, ConfirmP10CR).
THEOREM ConfirmedAtServerHolds == Spec => []ConfirmedAtServer
<1>1. ClientInv => ConfirmedAtServer
  BY DEF ClientInv, Agreement
<1> QED BY <1>1, ClientInvariant, PTL

\* The server never confirms explicitly what the client must refuse
\* (finishTransaction, rejectCertificate).
THEOREM RefusedNeverConfirmedHolds == Spec => []RefusedNeverConfirmed
<1>1. ClientInv => RefusedNeverConfirmed
  BY DEF ClientInv, ServerInv, Refused, RefusedNeverConfirmed
<1> QED BY <1>1, ClientInvariant, PTL

\* A certConf, or a rejection, names the certificate issued last, even when
\* answers come again and messages come late, unless a late enrollment has got
\* another certificate meanwhile (ConfirmP10CR, rejectCertificate,
\* acceptableRecipNonce).
THEOREM ConfirmsLastIssuedHolds == Spec => []ConfirmsLastIssued
<1>1. ClientInv => ConfirmsLastIssued
  <2> SUFFICES ASSUME ClientInv, msg.kind \in {"certConf", "reject"}, ~overtaken
               PROVE  msg.cert = srv.cert
    BY DEF ConfirmsLastIssued
  <2>1. msg # NoMessage
    BY SMT DEF NoMessage
  <2>2. msg.kind = "certConf" => call = "confirm" /\ msg.cert = pending.cert
    BY <2>1, MessageTaken DEF ForConfirmation
  <2> QED BY <2>2 DEF ClientInv, Agreement
<1> QED BY <1>1, ClientInvariant, PTL

\* Only a certConf the server has taken is polled for (ConfirmP10CR,
\* confirmationDelay).
THEOREM PollsDelayedConfirmationHolds == Spec => []PollsDelayedConfirmation
<1>1. ClientInv => PollsDelayedConfirmation
  <2> SUFFICES ASSUME ClientInv, msg.kind = "confPoll", ~disorder
               PROVE  srv.state \in {"confirming", "confirmed"}
    BY DEF PollsDelayedConfirmation
  <2>1. msg # NoMessage
    BY SMT DEF NoMessage
  <2>2. call = "confirm" /\ pending.requestNonce # 0
    BY <2>1, MessageTaken DEF ForConfirmation
  <2> QED BY <2>2 DEF ClientInv, Orderly
<1> QED BY <1>1, ClientInvariant, PTL

\* No answer of another authority, and no signature where none is accepted,
\* takes effect (verifyTrustedSignature, senderMatchesRecipient).
THEOREM AcceptedFromAuthorityHolds == Spec => []AcceptedFromAuthority
<1>1. ClientInv => AcceptedFromAuthority
  BY DEF ClientInv
<1> QED BY <1>1, ClientInvariant, PTL

\* The client's calls and the server stay within their types (PendingTransaction).
THEOREM ClientTypeCorrect == Spec => []TypeOK
<1>1. ClientInv => TypeOK
  BY DEF ClientInv
<1> QED BY <1>1, ClientInvariant, PTL

-----------------------------------------------------------------------------
(* The calls implement Enrollment. *)

\* What Enrollment sees of the server.
View(s) == [state |-> s.state, cert |-> s.cert]

\* A step that Enrollment does not see.
LEMMA Unseen ==
    ASSUME request' = request, View(srv') = View(srv), Phase' = Phase, pending'.cert = pending.cert
    PROVE  UNCHANGED Transaction!vars
BY DEF Transaction!vars, View

\* A step of the caller that Enrollment sees.
LEMMA Moves ==
    ASSUME request' = request, srv' = srv, NEW p, NEW c, Phase' = p, pending'.cert = c
    PROVE  Transaction!Move(p, c)
BY DEF Transaction!Move

\* A step of the server that Enrollment sees: the answers of CMPAnswers include
\* the one that was given, or another with the same effect.
LEMMA Serves ==
    ASSUME request' = request, Phase' = Phase, pending'.cert = pending.cert, NEW kind, NEW c,
           NEW a \in Transaction!AnswersTo(View(srv), kind, c), View(srv') = a.srv,
           a.reply.kind = "implicit" => request.implicitConfirm
    PROVE  Transaction!Serve(kind, c)
BY DEF Transaction!Serve, View

\* What CMPAnswers offers a server that knows s.
LEMMA Offers ==
    ASSUME NEW s, s.cert \in Nat
    PROVE  LET v == View(s)
               answer(x, c, k, d) == Transaction!Answer([state |-> x, cert |-> c], k, d, TRUE)
           IN  /\ s.state \in {"unknown", "waiting"}
                    => answer("waiting", s.cert, "waiting", 0) \in Transaction!AnswersTo(v, "enroll", 0)
               /\ s.state \in {"unknown", "waiting", "issued"}
                    => /\ answer("issued", s.cert + 1, "granted", s.cert + 1)
                             \in Transaction!AnswersTo(v, "enroll", 0)
                       /\ answer("confirmed", s.cert + 1, "implicit", s.cert + 1)
                             \in Transaction!AnswersTo(v, "enroll", 0)
               /\ s.state \in {"issued", "confirming"}
                    => /\ answer("confirmed", s.cert, "pkiConf", 0)
                             \in Transaction!AnswersTo(v, "certConf", s.cert)
                       /\ answer("confirming", s.cert, "confWaiting", 0)
                             \in Transaction!AnswersTo(v, "certConf", s.cert)
               /\ s.state = "issued"
                    => answer("refused", s.cert, "pkiConf", 0) \in Transaction!AnswersTo(v, "reject", s.cert)
<1> DEFINE v == View(s)
<1>1. v.state = s.state /\ v.cert = s.cert
  BY DEF View
<1>2. \A x : [v EXCEPT !.state = x] = [state |-> x, cert |-> s.cert]
  BY SMT DEF View
<1>3. s.state = "issued" => v = [state |-> "issued", cert |-> s.cert]
  BY DEF View
<1> HIDE DEF v
<1>4. CASE s.state \in {"unknown", "waiting"}
  BY <1>1, <1>2, <1>4 DEF Transaction!AnswersTo, Transaction!CertificateAnswers, Transaction!Waiting,
     Transaction!Grant, v
<1>5. CASE s.state = "issued"
  BY <1>1, <1>2, <1>3, <1>5 DEF Transaction!AnswersTo, Transaction!CertificateAnswers,
     Transaction!Repeat, Transaction!Grant, Transaction!ConfirmationAnswers, Transaction!PkiConf,
     Transaction!Delay, Transaction!RejectionAnswers, v
<1>6. CASE s.state = "confirming"
  BY <1>1, <1>2, <1>6 DEF Transaction!AnswersTo, Transaction!ConfirmationAnswers,
     Transaction!PkiConf, Transaction!Delay, v
<1> QED BY <1>4, <1>5, <1>6 DEF v

\* What the server does on a message is a step of Enrollment's server: the
\* certificate it is asked to confirm is the one that the caller has kept, or the
\* caller has given up.
LEMMA EffectStep ==
    ASSUME ClientInv, NEW m, InFlight(m), NEW t \in ServerState, NEW b, Effect(m, srv, t, b),
           srv' = t, request' = request, Phase' = Phase, pending'.cert = pending.cert
    PROVE  Transaction!Next \/ UNCHANGED Transaction!vars
<1>1. TypeOK /\ Agreement
  BY DEF ClientInv
<1>4. srv.cert \in Nat /\ srv.cert \in Cert /\ t.cert \in Cert
  BY <1>1, ProtocolAssumption, SMT DEF TypeOK, ServerState, Cert
<1>5. CASE View(t) = View(srv)
  BY <1>5, Unseen
<1>6. CASE Delays(m, srv, t, b)
  <2>1. PICK a : a = Transaction!Answer([state |-> "waiting", cert |-> srv.cert], "waiting", 0, TRUE)
    OBVIOUS
  <2>2. a \in Transaction!AnswersTo(View(srv), "enroll", 0)
    BY <1>4, <1>6, <2>1, Offers DEF Delays
  <2>3. View(srv') = a.srv /\ a.reply.kind # "implicit"
    BY <1>6, <2>1 DEF Delays, SameCertificate, View, Transaction!Answer
  <2>4. Transaction!Enroll
    BY <2>2, <2>3, Serves DEF Transaction!Enroll
  <2> QED BY <2>4 DEF Transaction!Next
<1>7. CASE Issues(m, srv, t, b)
  <2>1. PICK a : a = IF t.state = "confirmed"
                     THEN Transaction!Answer([state |-> "confirmed", cert |-> srv.cert + 1],
                                             "implicit", srv.cert + 1, TRUE)
                     ELSE Transaction!Answer([state |-> "issued", cert |-> srv.cert + 1],
                                             "granted", srv.cert + 1, TRUE)
    OBVIOUS
  <2>2. a \in Transaction!AnswersTo(View(srv), "enroll", 0)
    BY <1>4, <1>7, <2>1, Offers DEF Issues
  <2>3. /\ View(srv') = a.srv
        /\ a.reply.kind = "implicit" => request.implicitConfirm
    BY <1>7, <2>1 DEF Issues, View, Transaction!Answer
  <2>4. Transaction!Enroll
    BY <2>2, <2>3, Serves DEF Transaction!Enroll
  <2> QED BY <2>4 DEF Transaction!Next
<1>8. CASE /\ \/ Confirms(m, srv, t, b)
              \/ DelaysConfirmation(m, srv, t, b)
           /\ View(t) # View(srv)
  <2>1. /\ srv.state \in {"issued", "confirming"} /\ t.cert = srv.cert
        /\ m.kind \in ForConfirmation /\ t.state \in {"confirmed", "confirming"}
    BY <1>8 DEF Confirms, DelaysConfirmation, SameCertificate, View, ForConfirmation
  <2>2. Transaction!MayConfirm(srv.cert)
    <3>1. m.cert = srv.cert
      BY <1>8 DEF Confirms, DelaysConfirmation
    <3>2. call \in {"confirm", "done"} /\ (result # "fail" => m.cert = pending.cert)
      BY <2>1 DEF InFlight
    <3>3. call = "confirm" => result # "fail"
      BY <1>1 DEF Agreement
    <3> QED BY <3>1, <3>2, <3>3 DEF Phase, Transaction!MayConfirm
  <2>3. PICK a : a = IF t.state = "confirmed"
                     THEN Transaction!Answer([state |-> "confirmed", cert |-> srv.cert], "pkiConf", 0, TRUE)
                     ELSE Transaction!Answer([state |-> "confirming", cert |-> srv.cert],
                                             "confWaiting", 0, TRUE)
    OBVIOUS
  <2>4. a \in Transaction!AnswersTo(View(srv), "certConf", srv.cert)
    BY <1>4, <2>1, <2>3, Offers
  <2>5. View(srv') = a.srv /\ a.reply.kind # "implicit"
    BY <2>1, <2>3 DEF View, Transaction!Answer
  <2>6. Transaction!Confirm(srv.cert)
    BY <2>2, <2>4, <2>5, Serves DEF Transaction!Confirm
  <2> QED BY <1>4, <2>6 DEF Transaction!Next
<1>9. CASE TakesRefusal(m, srv, t, b)
  <2>1. PICK a : a = Transaction!Answer([state |-> "refused", cert |-> srv.cert], "pkiConf", 0, TRUE)
    OBVIOUS
  <2>2. a \in Transaction!AnswersTo(View(srv), "reject", srv.cert)
    BY <1>4, <1>9, <2>1, Offers DEF TakesRefusal
  <2>3. View(srv') = a.srv /\ a.reply.kind # "implicit"
    BY <1>9, <2>1 DEF TakesRefusal, SameCertificate, View, Transaction!Answer
  <2>4. Transaction!Reject(srv.cert)
    BY <2>2, <2>3, Serves DEF Transaction!Reject
  <2> QED BY <1>4, <2>4 DEF Transaction!Next
<1>10. Refuses(m, srv, t, b) \/ DelaysAgain(m, srv, t, b) \/ Repeats(m, srv, t, b) => t = srv
  BY DEF Refuses, DelaysAgain, Repeats
<1> QED BY <1>5, <1>6, <1>7, <1>8, <1>9, <1>10 DEF Effect

\* The message may be the one a call waits on, or one given up.
LEMMA ServerStep ==
    ASSUME ClientInv, ServerAnswers \/ ArrivesLate
    PROVE  Transaction!Next \/ UNCHANGED Transaction!vars
<1>1. TypeOK /\ LateInv
  BY DEF ClientInv
<1>2. request' = request /\ Phase' = Phase /\ pending'.cert = pending.cert
  BY DEF ServerAnswers, ArrivesLate, callVars, Phase
<1>3. PICK m \in Message : InFlight(m) /\ \E a \in OrderlyAnswers(m) : srv' = a.srv
  <2>1. CASE ServerAnswers
    <3>1. msg \in Message /\ InFlight(msg)
      BY <2>1, MessageTaken DEF ServerAnswers
    <3> QED BY <2>1, <3>1 DEF ServerAnswers
  <2>2. CASE ArrivesLate
    <3>1. PICK m \in late : \E a \in OrderlyAnswers(m) : srv' = a.srv
      BY <2>2 DEF ArrivesLate
    <3>2. m \in Message /\ InFlight(m)
      BY <1>1 DEF TypeOK, LateInv
    <3> QED BY <3>1, <3>2
  <2> QED BY <2>1, <2>2
<1>4. PICK a \in OrderlyAnswers(m) : srv' = a.srv
  BY <1>3
<1>5. PICK t, b : t = a.srv /\ b = a.base
  OBVIOUS
<1>6. t \in ServerState /\ Effect(m, srv, t, b)
  BY <1>1, <1>3, <1>5, ServerEffects DEF Sound, InFlight, Sane
<1> QED BY <1>2, <1>3, <1>4, <1>5, <1>6, EffectStep

\* A call that fails closes the transaction.
LEMMA FailCloses ==
    ASSUME Phase # "closed", result' = "fail", call' = "done", pending' = NoPending, srv' = srv,
           request' = request
    PROVE  Transaction!Next
<1>1. Phase' = "closed" /\ pending'.cert = 0
  BY DEF Phase, NoPending
<1>2. Transaction!Move("closed", 0)
  BY <1>1, Moves
<1> QED BY <1>2 DEF Transaction!Close, Transaction!Next

\* A call that sends, or ends with nothing new, is not seen.
LEMMA SameUnseen ==
    ASSUME call # "done", call' = call, pending'.cert = pending.cert, srv' = srv, request' = request
    PROVE  UNCHANGED Transaction!vars
<1>1. Phase' = Phase
  BY DEF Phase
<1> QED BY <1>1, Unseen

\* An answer that arrives moves the caller forward, or changes nothing that
\* Enrollment sees.
LEMMA DeliverStep ==
    ASSUME ClientInv, Deliver
    PROVE  Transaction!Next \/ UNCHANGED Transaction!vars
<1>1. PICK r : Arrives(r)
  BY Arrival DEF ClientInv
<1>2. /\ ClientInv' /\ msg # NoMessage /\ r \in answers /\ r \in Response /\ srv' = srv
      /\ request' = request
  BY <1>1, DeliverKeeps, ArrivalLeaves DEF Kept
<1>3. Phase = call /\ call \in {"enroll", "poll", "confirm"}
  BY <1>2, MessageTaken DEF Phase
<1>4. msg.kind \in ForCertificate /\ Verified(r) => call \in {"enroll", "poll"}
  BY <1>2, CertificateCurrent
<1>5. CASE Fails(r)
  BY <1>2, <1>3, <1>5, FailCloses DEF Fails
<1>6. CASE TriesAgain(r) \/ SendsRefusal(r) \/ WaitsForConfirmation(r)
  <2>1. pending \in Pending
    BY DEF ClientInv, TypeOK
  <2>2. ConfirmationState(r).cert = pending.cert
    BY <2>1, SMT DEF ConfirmationState, Pending
  <2>3. call' = call /\ pending'.cert = pending.cert
    BY <1>6, <2>2 DEF TriesAgain, SendsRefusal, WaitsForConfirmation
  <2> QED BY <1>2, <1>3, <2>3, SameUnseen
<1>7. CASE Polls(r)
  <2>1. call \in {"enroll", "poll"}
    BY <1>2, <1>4, <1>7, MessageTaken DEF Polls
  <2>2. Phase' = "poll" /\ pending'.cert = 0
    BY <1>7 DEF Polls, PollState, Phase
  <2>3. srv.state # "unknown"
    BY <1>2, <1>7 DEF ClientInv, Agreement, Polls
  <2>4. Transaction!Move("poll", 0)
    BY <1>2, <2>2, Moves
  <2>5. Transaction!Wait
    BY <1>3, <2>1, <2>3, <2>4 DEF Transaction!Wait
  <2> QED BY <2>5 DEF Transaction!Next
<1>8. CASE Takes(r)
  <2>1. call \in {"enroll", "poll"}
    BY <1>4, <1>8 DEF Takes
  <2>2. Phase' = "confirm" /\ pending'.cert = r.cert
    BY <1>8 DEF Takes, Phase, CertificateState
  <2>3. r.cert \in Cert /\ r.cert \in 1..srv.cert
    <3>1. Grants(r)
      BY <1>2, <1>8, Constants, Verdicts DEF Takes, ClientInv
    <3>2. r.cert # 0 /\ r.cert <= srv.cert
      BY <1>2, <1>8, <3>1, CertificateCurrent DEF Takes
    <3>3. r.cert \in Cert /\ srv.cert \in Cert
      BY <1>2 DEF ClientInv, TypeOK, ServerState, Response
    <3> QED BY <3>2, <3>3, ProtocolAssumption, SMT DEF Cert
  <2>4. Transaction!Move("confirm", r.cert)
    BY <1>2, <2>2, Moves
  <2>5. Transaction!Hold(r.cert)
    BY <1>3, <2>1, <2>3, <2>4 DEF Transaction!Hold
  <2> QED BY <2>3, <2>5 DEF Transaction!Next
<1>9. CASE Completes(r) \/ Confirmed(r)
  <2>1. Phase' = "issued" /\ pending'.cert = srv.cert /\ srv.state = "confirmed"
    BY <1>2, <1>9 DEF Completes, Confirmed, Phase, ClientInv, Agreement, ConfirmedAtServer
  <2>2. \/ call \in {"enroll", "poll"} /\ request.implicitConfirm
        \/ call = "confirm" /\ srv.cert = pending.cert
    <3>1. CASE Completes(r)
      BY <1>2, <1>4, <3>1, Constants, Verdicts DEF Completes, ClientInv, ImplicitlyConfirmed
    <3>2. CASE Confirmed(r)
      BY <1>2, <2>1, <3>2, MessageTaken DEF Confirmed
    <3> QED BY <1>9, <3>1, <3>2
  <2>3. Transaction!Move("issued", srv.cert)
    BY <1>2, <2>1, Moves
  <2>4. Transaction!Obtain(srv.cert)
    BY <1>3, <2>1, <2>2, <2>3 DEF Transaction!Obtain
  <2>5. srv.cert \in Cert
    BY DEF ClientInv, TypeOK, ServerState
  <2> QED BY <2>4, <2>5 DEF Transaction!Next
<1> QED BY <1>1, <1>5, <1>6, <1>7, <1>8, <1>9 DEF Arrives, Outcome

\* The other steps of the client.
LEMMA CallStep ==
    ASSUME ClientInv,
           \/ EnrollP10CR \/ EnrollIR \/ EnrollKUR \/ PollP10CR \/ ConfirmP10CR
           \/ NoCMPAnswer \/ Crash
    PROVE  Transaction!Next \/ UNCHANGED Transaction!vars
<1>1. call # "done" /\ Phase # "closed"
  <2>1. call # "done"
    BY MessageTaken DEF EnrollP10CR, EnrollIR, EnrollKUR, EnrollWith, PollP10CR, ConfirmP10CR,
       NoCMPAnswer, Crash
  <2>2. call \in {"enroll", "poll", "confirm", "done"}
    BY DEF ClientInv, TypeOK
  <2> QED BY <2>1, <2>2 DEF Phase
<1>2. \/ FailUnsent
      \/ Sent
      \/ (Return("fail", "done", NoPending) \/ \E v : Return(v, call, pending)) /\ UNCHANGED <<srv, request>>
  BY DEF EnrollP10CR, EnrollIR, EnrollKUR, EnrollWith, PollP10CR, ConfirmP10CR, NoCMPAnswer, Crash
<1>3. CASE FailUnsent
  BY <1>1, <1>3, FailCloses DEF FailUnsent, Return
<1>4. CASE Sent
  BY <1>1, <1>4, SameUnseen DEF Sent
<1>5. CASE Return("fail", "done", NoPending) /\ UNCHANGED <<srv, request>>
  BY <1>1, <1>5, FailCloses DEF Return
<1>6. CASE (\E v : Return(v, call, pending)) /\ UNCHANGED <<srv, request>>
  BY <1>1, <1>6, SameUnseen DEF Return
<1> QED BY <1>2, <1>3, <1>4, <1>5, <1>6

\* The calls implement a transaction as Enrollment states it, for every number
\* of messages, certificates and scenarios (PendingTransaction, ConfirmP10CR,
\* completeOrRefuse).
THEOREM ClientImplementsEnrollment == Spec => ImplementsEnrollment
<1>1. Init => Transaction!Init
  <2> SUFFICES ASSUME Init
               PROVE  Transaction!Init
    OBVIOUS
  <2>1. Phase = "enroll" /\ pending.cert = 0 /\ srv.state = "unknown" /\ srv.cert = 0
    BY DEF Init, Phase, NoPending
  <2>2. request.implicitConfirm \in BOOLEAN
    BY ProtocolAssumption DEF Init, Given, Request
  <2> QED BY <2>1, <2>2 DEF Transaction!Init
<1>2. ClientInv /\ [Next]_vars => [Transaction!Next]_(Transaction!vars)
  <2> SUFFICES ASSUME ClientInv, [Next]_vars
               PROVE  Transaction!Next \/ UNCHANGED Transaction!vars
    OBVIOUS
  <2>1. CASE UNCHANGED vars
    <3>1. Phase' = Phase /\ request' = request /\ srv' = srv /\ pending' = pending
      BY <2>1 DEF vars, callVars, Phase
    <3> QED BY <3>1, Unseen
  <2> QED BY <2>1, ServerStep, DeliverStep, CallStep DEF Next
<1> QED BY <1>1, <1>2, ClientInvariant, PTL DEF Spec, ImplementsEnrollment, Transaction!Spec
=============================================================================
