--------------------------- MODULE ProtocolClient ---------------------------
(***************************************************************************)
(* One CMP transaction of internal/protocol/client.go, message by message: *)
(* EnrollP10CR, EnrollIR, EnrollKUR, PollP10CR and ConfirmP10CR, called in *)
(* turn by a caller that keeps the state one call hands to the next.  The  *)
(* caller repeats a call that failed retryably, and one whose outcome it   *)
(* could not save.                                                         *)
(*                                                                         *)
(* The server, and what a connection may deliver, are not part of the      *)
(* repository.  An orderly server delays, repeats and issues; a disorderly *)
(* one also deviates in one of the ways the client looks for.  A message   *)
(* that a call no longer waits on may still reach the server.              *)
(***************************************************************************)
EXTENDS CMPMessages, FiniteSets

CONSTANTS
    Scenarios,      \* by name, requests to choose from and what they may meet
    MaxMessages,    \* messages the client sends
    MaxCert         \* certificates the server issues under the transaction ID

\* The ways in which an answer may deviate from an orderly one.
Defect ==
    {"unprotected", "weakMac", "signed", "sibling", "stranger", "unnamed", "signerUsage",
     "transaction", "noRecipNonce", "noSenderNonce", "version", "unparsable", "body",
     "content", "entries", "certReqID", "legacyZero", "checkAfter", "noCertificate",
     "caPubs", "waitingError", "acceptedError", "allFailures"}

ASSUME ProtocolAssumption ==
    /\ MaxMessages \in Nat \ {0}
    /\ MaxCert \in Nat \ {0}
    /\ \A n \in DOMAIN Scenarios :
          LET s == Scenarios[n]
          IN  /\ s.requests \subseteq Request /\ s.messages \in 1..MaxMessages
              /\ s.kinds \subseteq CertificateKind /\ s.stale \in BOOLEAN
              /\ s.defects \subseteq Defect /\ s.late \in Nat

VARIABLES
    scenario,   \* the name of the scenario
    request,    \* the EnrollmentRequest, the same for every call
    call,       \* the call the caller makes next
    pending,    \* PendingTransaction: what one call hands to the next
    msg,        \* the message a call waits on, or NoMessage
    result,     \* what the last call returned
    sends,      \* messages sent so far, which number the client's nonces
    srv,        \* what the server knows of the transaction
    answers,    \* answers the server has given
    late,       \* messages no call waits on any more, on their way to the server
    accepted,   \* history: author and protection of the last answer accepted
    disorder,   \* history: did the server or the connection deviate?
    overtaken   \* history: has a late enrollment got another certificate?

callVars == <<request, call, pending, msg, result, sends, accepted>>
vars == <<scenario, callVars, srv, answers, late, disorder, overtaken>>

\* The bound on messages, the kinds of certificates that are issued, the ways in
\* which an answer may deviate, whether an old one may come again, and how many
\* messages may be late at a time.
Given == Scenarios[scenario]

Nonce == 0..MaxMessages
Cert == 0..MaxCert

Pending ==
    [certReqID : {-1, 0}, recipNonce : Nonce, requestNonce : Nonce,
     signer : Authority \cup {"none"}, cert : Cert]

NoPending == [certReqID |-> 0, recipNonce |-> 0, requestNonce |-> 0, signer |-> "none", cert |-> 0]

Enrollment == {"p10cr", "ir", "kur"}

\* "confPoll" is the pollReq with certReqId -1, "reject" the certConf that
\* refuses a certificate.  "signer" is the one known from earlier answers.
Message ==
    [kind : Enrollment \cup {"none", "pollReq", "certConf", "confPoll", "reject"},
     nonce : Nonce, cert : Cert, signer : Authority \cup {"none"}, version : {2, 3},
     served : BOOLEAN]

NoMessage ==
    [kind |-> "none", nonce |-> 0, cert |-> 0, signer |-> "none", version |-> 2, served |-> FALSE]

\* "to" is the nonce of the message that was answered.  It is not in the answer.
Response ==
    [type : BodyType, to : Nonce, recipNonce : Nonce, senderNonce : Nonce,
     transaction : {"this", "other"}, author : Authority, sender : Authority \cup {"none"},
     protection : {"none", "mac", "weakMac", "signature"},
     signerCarried : BOOLEAN, signerUsage : BOOLEAN, version : {2, 3}, parses : BOOLEAN,
     entries : {1, 2}, certReqID : {-1, 0, 1}, checkAfter : {-1, 0},
     status : {"accepted", "grantedWithMods", "waiting", "rejection"},
     failInfo : SUBSET {"permanent", "system"},
     cert : Cert, kind : CertificateKind, implicit : BOOLEAN, caPubs : BOOLEAN]

ServerState ==
    [state : {"unknown", "waiting", "issued", "confirming", "confirmed", "refused"},
     cert : Cert, kind : CertificateKind, status : {"accepted", "grantedWithMods"},
     implicit : BOOLEAN, delayed : Nonce, version : {2, 3}]

NoResponse ==
    [type |-> "other", to |-> 0, recipNonce |-> 0, senderNonce |-> 0, transaction |-> "this",
     author |-> "addressed", sender |-> "addressed", protection |-> "mac",
     signerCarried |-> FALSE, signerUsage |-> TRUE, version |-> 2, parses |-> TRUE,
     entries |-> 1, certReqID |-> 0, checkAfter |-> 0, status |-> "accepted", failInfo |-> {},
     cert |-> 0, kind |-> "good", implicit |-> FALSE, caPubs |-> FALSE]

Results == {"none", "polling", "confirming", "retry", "panic", "lost", "fail", "issued", "confirmed"}

TypeOK ==
    /\ scenario \in DOMAIN Scenarios /\ request \in Given.requests
    /\ call \in {"enroll", "poll", "confirm", "done"}
    /\ pending \in Pending
    /\ msg \in Message
    /\ result \in Results
    /\ sends \in Nonce
    /\ srv \in ServerState
    /\ answers \subseteq Response
    /\ late \subseteq Message
    /\ accepted \in [author : Authority, protection : {"none", "mac", "weakMac", "signature"}]
    /\ disorder \in BOOLEAN /\ overtaken \in BOOLEAN

Init ==
    /\ scenario \in DOMAIN Scenarios /\ request \in Given.requests
    /\ call = "enroll"
    /\ pending = NoPending
    /\ msg = NoMessage
    /\ result = "none"
    /\ sends = 0
    /\ srv = [state |-> "unknown", cert |-> 0, kind |-> "good", status |-> "accepted",
              implicit |-> FALSE, delayed |-> 0, version |-> 2]
    /\ answers = {} /\ late = {}
    /\ accepted = [author |-> "addressed", protection |-> "none"]
    /\ disorder = FALSE /\ overtaken = FALSE

-----------------------------------------------------------------------------
(* The calls, up to the wait for the answer. *)

\* Old answers count only where they may come again.
Retained == IF Given.stale THEN answers ELSE {}

\* What becomes of a message that no call waits on any more: the server has it,
\* it is lost, or it arrives late.
Abandoned ==
    {late} \cup (IF msg # NoMessage /\ ~msg.served /\ Cardinality(late) < Given.late
                 THEN {late \cup {msg}} ELSE {})

\* Post a message of this kind.
Send(kind, cert, signer, version) ==
    /\ sends < Given.messages
    /\ sends' = sends + 1
    /\ msg' = [kind |-> kind, nonce |-> sends + 1, cert |-> cert, signer |-> signer,
               version |-> version, served |-> FALSE]

\* The call ends with result r and the caller goes on with c and p.
Return(r, c, p) ==
    /\ result' = r
    /\ call' = c
    /\ pending' = p
    /\ msg' = NoMessage
    /\ answers' = Retained
    /\ late' \in Abandoned

\* Everything is in order with the request.
Fit == request.facts = Fact /\ (request.operation = "KUR" => request.protection = "signature")

\* The call fails before it sends anything.
FailUnsent ==
    /\ Return("fail", "done", NoPending)
    /\ disorder' = (disorder \/ ~Fit)
    /\ UNCHANGED <<scenario, request, sends, srv, accepted, overtaken>>

Sent ==
    UNCHANGED <<scenario, request, call, pending, result, srv, answers, late, accepted, disorder,
                overtaken>>

EnrollWith(operation, valid, kind) ==
    /\ call = "enroll" /\ msg = NoMessage /\ request.operation = operation
    /\ \/ valid /\ Send(kind, 0, "none", 2) /\ Sent
       \/ ~valid /\ FailUnsent

EnrollP10CR == EnrollWith("P10CR", ValidP10CRRequest(request), "p10cr")

EnrollIR == EnrollWith("IR", ValidateIRRequest(request), "ir")

EnrollKUR == EnrollWith("KUR", ValidateKURRequest(request), "kur")

\* PollP10CR needs the nonce of the last answer.
PollP10CR ==
    /\ call = "poll" /\ msg = NoMessage
    /\ LET valid == validateEnrollmentRequest(request) /\ pending.recipNonce # 0
       IN  \/ valid /\ Send("pollReq", 0, pending.signer, 2) /\ Sent
           \/ ~valid /\ FailUnsent

\* The version of a certConf, kept by the poll for its delayed answer.
confirmationVersion(q) == IF q.hashAlg THEN 3 ELSE 2

\* ConfirmP10CR sends certConf, or polls once certConf has been sent.  It needs
\* no nonce of the server.
ConfirmP10CR ==
    LET polls == pending.requestNonce # 0
    IN  /\ call = "confirm" /\ msg = NoMessage
        /\ validateEnrollmentRequest(request)
        /\ Send(IF polls THEN "confPoll" ELSE "certConf", pending.cert,
                pending.signer, confirmationVersion(request))
        /\ Sent

-----------------------------------------------------------------------------
(* The server. *)

\* The nonces an orderly server may echo, how it may protect an answer, and
\* whether the answer carries its certificate.
EchoedNonce(m) == {m.nonce} \cup (IF m.kind \in {"pollReq", "confPoll"} THEN {srv.delayed} ELSE {})
AnswerProtection == {request.protection} \cup (IF request.allowSignedMAC THEN {"signature"} ELSE {})
SignerCarried(m) == IF request.signerConfigured \/ m.signer = "addressed" THEN BOOLEAN ELSE {TRUE}

\* What every answer of an orderly server to m looks like.  It protects as the
\* client does, or signs where the client allows it, may leave its certificate
\* out where the client has it, and echoes the nonce of m or, while it delays,
\* that of the delayed request.
AnswerTo(m, n, p, c) ==
    [NoResponse EXCEPT !.to = m.nonce, !.recipNonce = n, !.senderNonce = m.nonce,
                       !.version = srv.version, !.protection = p, !.signerCarried = c]

Answered(m) ==
    {AnswerTo(m, n, p, c) :
       n \in EchoedNonce(m), p \in AnswerProtection, c \in SignerCarried(m)}

ResponseBody == [P10CR |-> "cp", IR |-> "ip", KUR |-> "kup"]

\* The identifier in answers of the server that the issuer is configured for.
ResponseID == IF request.operation = "P10CR" /\ -1 \in request.certReqIDs THEN -1 ELSE 0

\* The server's state s and the body it answers with.
Answer(s, base) == [srv |-> s, base |-> base]

Waiting(m, a) ==
    IF m.kind \in Enrollment
    THEN Answer([srv EXCEPT !.state = "waiting", !.delayed = m.nonce],
                [a EXCEPT !.type = ResponseBody[request.operation],
                          !.certReqID = ResponseID,
                          !.status = "waiting"])
    ELSE Answer(srv, [a EXCEPT !.type = "pollRep", !.certReqID = ResponseID])

Granted(s, a) ==
    Answer(s, [a EXCEPT !.type = ResponseBody[request.operation],
                        !.certReqID = ResponseID,
                        !.status = s.status, !.cert = s.cert, !.kind = s.kind,
                        !.implicit = s.implicit])

\* A new certificate, confirmed at once where both sides agree to that.
Issue(k, g, i) ==
    [srv EXCEPT !.state = IF i /\ request.implicitConfirm THEN "confirmed" ELSE "issued",
                !.cert = @ + 1, !.kind = k, !.status = g, !.implicit = i]

NewCertificate ==
    IF srv.cert = MaxCert THEN {}
    ELSE {Issue(k, g, i) :
            k \in Given.kinds, g \in {"accepted", "grantedWithMods"}, i \in BOOLEAN}

Busy(a) == Answer(srv, [a EXCEPT !.type = "error", !.status = "rejection", !.failInfo = {"system"}])

Rejects(a) == Answer(srv, [a EXCEPT !.type = "error", !.status = "rejection", !.failInfo = {"permanent"}])

\* Answers to an enrollment or a poll for its answer.  A repeated enrollment
\* may get another certificate, a poll gets the one that was delayed.
CertificateAnswers(m, a) ==
    CASE srv.state \in {"unknown", "waiting"}
           -> {Waiting(m, a), Rejects(a)} \cup {Granted(s, a) : s \in NewCertificate}
      [] srv.state = "issued" /\ m.kind \in Enrollment
           -> {Granted(srv, a)} \cup {Granted(s, a) : s \in NewCertificate}
      [] \/ srv.state = "issued" /\ m.kind \notin Enrollment
         \/ srv.state = "confirmed" /\ srv.implicit
           -> {Granted(srv, a)}
      [] OTHER -> {Rejects(a)}

\* Answers to a certConf or a poll for its answer.
ConfirmationAnswers(m, a) ==
    LET v == IF m.version > srv.version THEN m.version ELSE srv.version
        s == [srv EXCEPT !.version = v]
        b == [a EXCEPT !.version = v]
        done == Answer([s EXCEPT !.state = "confirmed"], [b EXCEPT !.type = "pkiConf"])
        delay == IF m.kind = "certConf"
                 THEN Answer([s EXCEPT !.state = "confirming", !.delayed = m.nonce],
                             [b EXCEPT !.type = "error", !.status = "waiting"])
                 ELSE Answer(s, [b EXCEPT !.type = "pollRep", !.certReqID = -1])
    IN  CASE srv.state \in {"issued", "confirming"} /\ srv.cert = m.cert -> {done, delay}
          [] srv.state = "confirmed" /\ srv.cert = m.cert -> {done}
          [] OTHER -> {Rejects(a)}

RejectionAnswers(m, a) ==
    IF srv.state = "issued" /\ srv.cert = m.cert
    THEN {Answer([srv EXCEPT !.state = "refused"], [a EXCEPT !.type = "pkiConf"])}
    ELSE {Rejects(a)}

\* A server is busy, or does what the message asks for.
AnswersFrom(m, a) ==
    {Busy(a)} \cup
    CASE m.kind \in Enrollment \cup {"pollReq"} -> CertificateAnswers(m, a)
      [] m.kind \in {"certConf", "confPoll"}    -> ConfirmationAnswers(m, a)
      [] m.kind = "reject"                      -> RejectionAnswers(m, a)
      [] m.kind = "none"                        -> {}

OrderlyAnswers(m) == UNION {AnswersFrom(m, a) : a \in Answered(m)}

\* One deviation d of answer r.
Deviate(r, d) ==
    CASE d = "unprotected"   -> [r EXCEPT !.protection = "none"]
      [] d = "weakMac"       -> [r EXCEPT !.protection = IF @ = "mac" THEN "weakMac" ELSE @]
      [] d = "signed"        -> [r EXCEPT !.protection = "signature", !.signerCarried = TRUE]
      [] d = "sibling"       -> [r EXCEPT !.protection = "signature", !.signerCarried = TRUE,
                                          !.author = "sibling", !.sender = "sibling"]
      [] d = "stranger"      -> [r EXCEPT !.protection = "signature", !.signerCarried = TRUE,
                                          !.author = "stranger", !.sender = "stranger"]
      [] d = "unnamed"       -> [r EXCEPT !.sender = "none"]
      [] d = "signerUsage"   -> [r EXCEPT !.signerUsage = FALSE]
      [] d = "transaction"   -> [r EXCEPT !.transaction = "other"]
      [] d = "noRecipNonce"  -> [r EXCEPT !.recipNonce = 0]
      [] d = "noSenderNonce" -> [r EXCEPT !.senderNonce = 0]
      [] d = "version"       -> [r EXCEPT !.version = 3]
      [] d = "unparsable"    -> [r EXCEPT !.type = "unparsable"]
      [] d = "body"          -> [r EXCEPT !.type = "other"]
      [] d = "content"       -> [r EXCEPT !.parses = FALSE]
      [] d = "entries"       -> [r EXCEPT !.entries = 2]
      [] d = "certReqID"     -> [r EXCEPT !.certReqID = 1]
      [] d = "legacyZero"    -> [r EXCEPT !.certReqID = 0]
      [] d = "checkAfter"    -> [r EXCEPT !.checkAfter = -1]
      [] d = "noCertificate" -> [r EXCEPT !.cert = 0]
      [] d = "caPubs"        -> [r EXCEPT !.caPubs = TRUE]
      [] d = "waitingError"  -> [r EXCEPT !.type = "error", !.status = "waiting"]
      [] d = "acceptedError" -> [r EXCEPT !.type = "error", !.status = "accepted"]
      [] d = "allFailures"   -> [r EXCEPT !.type = "error", !.status = "rejection",
                                          !.failInfo = {"permanent", "system"}]

\* The server takes the message and answers it.  A refusal of its own or a
\* certificate the client must refuse is a cause for the transaction to fail.
ServerAnswers ==
    /\ msg # NoMessage /\ ~msg.served
    /\ \E a \in OrderlyAnswers(msg) :
          /\ srv' = a.srv
          /\ \/ /\ answers' = Retained \cup {a.base}
                /\ disorder' = (disorder \/ "permanent" \in a.base.failInfo \/ Refused(a.base, request))
             \/ \E d \in Given.defects :
                   /\ answers' = Retained \cup {Deviate(a.base, d)}
                   /\ disorder' = TRUE
    /\ msg' = [msg EXCEPT !.served = TRUE]
    /\ UNCHANGED <<scenario, request, call, pending, result, sends, late, accepted, overtaken>>

\* A late message reaches the server, whose answer goes nowhere.  An enrollment
\* may get another certificate, and a message that takes the place of the one the
\* server delays leaves the client polling for an answer that never comes.
ArrivesLate ==
    \E m \in late : \E a \in OrderlyAnswers(m) :
        /\ srv' = a.srv
        /\ late' = late \ {m}
        /\ overtaken' = (overtaken \/ (srv.cert # 0 /\ a.srv.cert # srv.cert))
        /\ disorder' = (disorder \/ (srv.state \in {"waiting", "confirming"}
                                      /\ a.srv.delayed # srv.delayed))
        /\ UNCHANGED <<scenario, callVars, answers>>

-----------------------------------------------------------------------------
(* The answer reaches the client. *)

\* The state that the answer r to m hands to the next call.
PollState(r) ==
    [certReqID |-> r.certReqID, recipNonce |-> r.senderNonce,
     requestNonce |-> IF msg.kind \in Enrollment THEN msg.nonce ELSE pending.requestNonce,
     signer |-> responseSigner(r), cert |-> 0]

\* Mutant of CertificateState: the nonce of the delayed enrollment is kept.
CertificateStateKeepNonce(r) ==
    [certReqID |-> r.certReqID, recipNonce |-> r.senderNonce,
     requestNonce |-> pending.requestNonce, signer |-> responseSigner(r), cert |-> r.cert]

CertificateState(r) ==
    [certReqID |-> r.certReqID, recipNonce |-> r.senderNonce,
     requestNonce |-> 0, signer |-> responseSigner(r), cert |-> r.cert]

ConfirmationState(r) ==
    [pending EXCEPT !.recipNonce = r.senderNonce,
                    !.requestNonce = IF @ = 0 THEN msg.nonce ELSE @]

\* The outcome v of an enrollment call or poll.
Finish(v, r) ==
    /\ CASE v = "polling"    -> Return(v, "poll", PollState(r))
         [] v = "confirming" -> Return(v, "confirm", CertificateState(r))
         [] v = "issued"     -> Return(v, "done", CertificateState(r))
         [] v \in {"retry", "panic"} -> Return(v, call, pending)
         [] v = "fail"       -> Return(v, "done", NoPending)
    /\ UNCHANGED sends

\* A refused certificate is reported to the server before the call fails.
CompleteOrRefuse(r) ==
    LET v == finishTransaction(r, request)
    IN  IF v = "refuse"
        THEN /\ Send("reject", r.cert, responseSigner(r), confirmationVersion(request))
             /\ answers' = Retained
             /\ late' \in Abandoned
             /\ UNCHANGED <<call, pending, result>>
        ELSE Finish(v, r)

PollAnswer(r) ==
    IF r.type = "pollRep"
    THEN Finish(extractPollRep(r, pending.certReqID), r)
    ELSE CompleteOrRefuse(r)

ConfirmAnswer(r) ==
    LET v == IF r.type = "pkiConf" THEN "confirmed" ELSE confirmationDelay(r)
    IN  /\ CASE v = "confirmed"  -> Return(v, "done", pending)
             [] v = "confirming" -> Return(v, call, ConfirmationState(r))
             [] v = "retry"      -> Return(v, call, pending)
             [] v = "fail"       -> Return(v, "done", NoPending)
        /\ UNCHANGED sends

\* rejectCertificate ends in the refusal whatever the server makes of it.
RejectAnswer(r) == Return("fail", "done", NoPending) /\ UNCHANGED sends

\* The nonce of a delayed request that verifyResponse accepts besides the own.
DelayedNonce ==
    IF msg.kind \in Enrollment \cup {"reject"} THEN 0 ELSE pending.requestNonce

Verified(r) == verifyResponse(msg, r, request, msg.signer, DelayedNonce)

\* The answer to the message arrives, or an older one if the connection repeats
\* answers.
Deliver ==
    /\ msg # NoMessage
    /\ \E r \in answers :
          /\ r.to = msg.nonce \/ Given.stale
          /\ IF r.type # "unparsable" /\ Verified(r)
             THEN /\ CASE msg.kind \in Enrollment                -> CompleteOrRefuse(r)
                       [] msg.kind = "pollReq"               -> PollAnswer(r)
                       [] msg.kind \in {"certConf", "confPoll"} -> ConfirmAnswer(r)
                       [] msg.kind = "reject"                -> RejectAnswer(r)
                  /\ accepted' = [author |-> r.author, protection |-> r.protection]
             ELSE /\ Return("fail", "done", NoPending)
                  /\ UNCHANGED <<sends, accepted>>
          /\ disorder' = (disorder \/ r.to # msg.nonce)
    /\ UNCHANGED <<scenario, request, srv, overtaken>>

\* What becomes of an HTTP answer without a CMP message, and whether it was more
\* than a connection that broke or a server too busy to speak CMP.
BrokenExchange ==
    {[verdict |-> sendCMP(h),
      cause |-> h.status # 0 /\ (h.cmp \/ h.status \notin {408, 425, 429, 503})] :
       h \in {h \in HTTPAnswer : sendCMP(h) # "body"}}

\* The exchange ends without a CMP message: no answer, or one that is not CMP.
NoCMPAnswer ==
    /\ msg # NoMessage
    /\ \E b \in BrokenExchange :
          /\ IF b.verdict = "retry" /\ msg.kind # "reject"
             THEN Return("retry", call, pending)
             ELSE Return("fail", "done", NoPending)
          /\ disorder' = (disorder \/ b.cause)
    /\ UNCHANGED <<scenario, request, sends, srv, accepted, overtaken>>

\* Mutant of Crash: the caller has forgotten what it had, and enrolls again.
CrashForgets ==
    /\ msg # NoMessage
    /\ Return("lost", "enroll", NoPending)
    /\ UNCHANGED <<scenario, request, sends, srv, accepted, disorder, overtaken>>

\* The process stops, or cannot save what the call returned.  The caller has
\* what it had before, and makes the call again.
Crash ==
    /\ msg # NoMessage
    /\ Return("lost", call, pending)
    /\ UNCHANGED <<scenario, request, sends, srv, accepted, disorder, overtaken>>

Next ==
    \/ EnrollP10CR \/ EnrollIR \/ EnrollKUR \/ PollP10CR \/ ConfirmP10CR
    \/ ServerAnswers \/ ArrivesLate \/ Deliver \/ NoCMPAnswer \/ Crash

Spec == Init /\ [][Next]_vars

-----------------------------------------------------------------------------
(* Properties. *)

\* A transaction fails only for a cause: the server refuses, issues something
\* the client must refuse or deviates from the protocol, the connection does, a
\* message that its call gave up takes the place of the one the server delays, or
\* the request was not fit to be sent.  Delays, busy answers, lost answers,
\* repeated calls, an answer that echoes the nonce of the delayed request, one
\* that leaves a known certificate out and one in CMPv3 are no causes.  This is
\* what acceptableRecipNonce, confirmationDelay and the retained PendingTransaction
\* are for.
FailsOnlyForCause == result = "fail" => disorder

\* When EnrollP10CR reports an implicitly confirmed chain, or ConfirmP10CR a
\* confirmation, the server has confirmed that certificate and no other.
ConfirmedAtServer ==
    result \in {"issued", "confirmed"} => srv.state = "confirmed" /\ srv.cert = pending.cert

\* No answer takes effect that another authority under the trust anchor wrote,
\* and none that is signed where only the shared secret authenticates the server
\* (verifyResponse, senderMatchesRecipient).
AcceptedFromAuthority ==
    /\ accepted.author = "addressed"
    /\ accepted.protection = "signature"
         => request.protection = "signature" \/ request.allowSignedMAC

\* The server never considers a certificate explicitly confirmed that
\* finishTransaction must refuse, however often enrollment was repeated.
RefusedNeverConfirmed ==
    srv.state = "confirmed" /\ ~(srv.implicit /\ request.implicitConfirm)
      => /\ srv.kind \notin {"otherKey", "untrusted"}
         /\ srv.kind = "notRenewed" => request.operation # "KUR"
         /\ srv.status = "grantedWithMods" => ~request.rejectMods

\* A certConf, accepting or rejecting, names the certificate the server issued
\* last, even when old answers come again, unless an enrollment that its call gave
\* up reaches the server late and gets another certificate.
ConfirmsLastIssued ==
    msg.kind \in {"certConf", "reject"} /\ ~overtaken => msg.cert = srv.cert

\* ConfirmP10CR asks an orderly server for a delayed confirmation only after the
\* server has taken the certConf: a nonce left over from a delayed enrollment is
\* never taken for that of a certConf.
PollsDelayedConfirmation ==
    msg.kind = "confPoll" /\ ~disorder => srv.state \in {"confirming", "confirmed"}

\* How far the caller has come.
Phase ==
    IF call # "done" THEN call ELSE IF result = "fail" THEN "closed" ELSE "issued"

Transaction ==
    INSTANCE Enrollment WITH
        Certificate <- Cert,
        asked       <- request.implicitConfirm,
        server      <- [state |-> srv.state, cert |-> srv.cert],
        caller      <- [phase |-> Phase, cert |-> pending.cert]

\* The calls with their messages, nonces, signers and repetitions implement a
\* transaction as Enrollment states it, whatever deviates: the caller never goes
\* back, the server is asked to confirm only what the caller has kept, and the
\* caller ends with a certificate only when that one is final at the server
\* (PendingTransaction, ConfirmP10CR, completeOrRefuse).
ImplementsEnrollment == Transaction!Spec
=============================================================================
