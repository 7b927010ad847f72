---------------------------- MODULE CMPMessages -----------------------------
(***************************************************************************)
(* What internal/protocol makes of one message: which requests it agrees   *)
(* to send and what it reads out of an answer.  All operators are pure.    *)
(*                                                                         *)
(* Cryptography is symbolic.  An answer has an author; a MAC can only come *)
(* from the authority that shares the secret, a signature only from the    *)
(* author itself, and an author signs under its own name.                  *)
(***************************************************************************)
EXTENDS Integers

\* The authority the issuer addresses, another one under the same trust anchor,
\* and one that does not chain to the anchor.
Authority == {"addressed", "sibling", "stranger"}
Anchored == {"addressed", "sibling"}

\* What validation looks at before a message is built, as the set of facts that
\* hold for the request at hand.
Fact == {"endpoint", "digest", "limits", "csrAndTrust", "oneProtection", "credentials",
         "csrSignature", "possession", "oldCertificateCurrent", "digitalSignature",
         "sameIdentity"}

\* EnrollmentRequest.  "certReqIDs" are the response identifiers accepted for
\* P10CR, "signerConfigured" says that the signer of the addressed authority is
\* among the configured anchors and response certificates, and "hashAlg" that
\* the certificates issued need a hashAlg in certConf, which takes CMPv3.
Request ==
    [operation        : {"P10CR", "IR", "KUR"},
     protection       : {"mac", "signature"},
     implicitConfirm  : BOOLEAN,
     rejectMods       : BOOLEAN,
     allowSignedMAC   : BOOLEAN,
     iterationFloor   : BOOLEAN,
     certReqIDs       : {{-1}, {0}, {-1, 0}},
     caPubsAbsent     : BOOLEAN,
     signerConfigured : BOOLEAN,
     hashAlg          : BOOLEAN,
     facts            : SUBSET Fact]

\* Certificates differ in what finishTransaction checks.
CertificateKind == {"good", "otherKey", "untrusted", "notRenewed"}

BodyType == {"cp", "ip", "kup", "pollRep", "pkiConf", "error", "other", "unparsable"}

-----------------------------------------------------------------------------
(* Validation before sending. *)

validateEnrollmentRequest(q) ==
    {"endpoint", "digest", "limits", "csrAndTrust", "oneProtection", "credentials"} \subseteq q.facts

ValidateIRRequest(q) ==
    validateEnrollmentRequest(q) /\ {"csrSignature", "possession"} \subseteq q.facts

validateKURProofs(q) ==
    /\ q.protection = "signature"
    /\ {"possession", "oldCertificateCurrent", "digitalSignature", "sameIdentity"} \subseteq q.facts

ValidateKURRequest(q) ==
    validateEnrollmentRequest(q) /\ "csrSignature" \in q.facts /\ validateKURProofs(q)

\* EnrollP10CR checks its request in line.
ValidP10CRRequest(q) ==
    validateEnrollmentRequest(q) /\ "csrSignature" \in q.facts

-----------------------------------------------------------------------------
(* The HTTP answer. *)

\* A connection that fails or times out has status 0.  MaxResponseSize is 1.
HTTPAnswer == [status : {0, 200, 302, 404, 408, 425, 429, 503}, cmp : BOOLEAN, length : 0..2]

sendCMP(h) ==
    IF h.status = 0 THEN "retry"
    ELSE IF h.status \in 300..399 THEN "fail"
    ELSE IF ~h.cmp
         THEN IF h.status \in {408, 425, 429} \cup (500..599) THEN "retry" ELSE "fail"
    ELSE IF h.length = 1 THEN "body"
    ELSE "fail"

-----------------------------------------------------------------------------
(* Authentication of an answer r to message m. *)

\* The library refuses a MAC below the iteration floor ("weakMac") if told to.
MACVerifies(r, q) ==
    /\ q.protection = "mac"
    /\ r.author = "addressed"
    /\ r.protection = "mac" \/ (r.protection = "weakMac" /\ ~q.iterationFloor)

\* An anchored signer found among extraCerts, anchors and response certificates.
verifyTrustedSignature(r, q) ==
    /\ r.protection = "signature"
    /\ r.author \in Anchored
    /\ r.sender = r.author
    /\ r.signerCarried \/ (q.signerConfigured /\ r.author = "addressed")

\* The signer already accepted in this transaction.
PreviousSigner(r, previous) ==
    r.protection = "signature" /\ r.author = previous /\ r.sender = r.author

signatureAccepted(q) == q.protection = "signature" \/ q.allowSignedMAC

Authentic(r, q, previous) ==
    \/ MACVerifies(r, q)
    \/ signatureAccepted(q) /\ (PreviousSigner(r, previous) \/ verifyTrustedSignature(r, q))

\* Mutant of acceptableRecipNonce: only the preceding request counts.
acceptableOwnNonce(recipNonce, requestNonce, delayedNonce) == recipNonce = requestNonce

\* Mutant of acceptableRecipNonce: an answer to any earlier request will do.
acceptableAnyNonce(recipNonce, requestNonce, delayedNonce) == recipNonce \in 1..requestNonce

\* 0 is the empty nonce.
acceptableRecipNonce(recipNonce, requestNonce, delayedNonce) ==
    \/ recipNonce = requestNonce
    \/ delayedNonce # 0 /\ recipNonce = delayedNonce

\* Mutant of senderMatchesRecipient: any authority under the anchor will do.
senderPresent(sender) == sender # "none"

senderMatchesRecipient(sender) == sender = "addressed"

\* verifyResponse accepts r.  All its failures end the transaction alike.
verifyResponse(m, r, q, previous, delayedNonce) ==
    /\ r.protection # "none"
    /\ Authentic(r, q, previous)
    /\ r.protection = "signature" => r.signerUsage
    /\ r.transaction = "this"
    /\ acceptableRecipNonce(r.recipNonce, m.nonce, delayedNonce)
    /\ r.version \in {2, m.version}
    /\ senderMatchesRecipient(r.sender)

\* The signer the client retains for later messages.
responseSigner(r) == IF r.protection = "signature" THEN r.author ELSE "none"

-----------------------------------------------------------------------------
(* The contents of an authenticated answer. *)

\* classifyStatus: permanent bits win over those of an unavailable system, and
\* a waiting status in an error message is retried.
classifyStatus(r) ==
    CASE r.status \in {"accepted", "grantedWithMods"} -> "none"
      [] r.status = "waiting"                         -> "retry"
      [] r.status = "rejection" ->
           (IF "permanent" \notin r.failInfo /\ "system" \in r.failInfo THEN "retry" ELSE "fail")

expectedBody(q) ==
    CASE q.operation = "IR" -> "ip" [] q.operation = "KUR" -> "kup" [] OTHER -> "cp"

\* Mutant of acceptResponseCertReqID: any identifier will do.
acceptAnyCertReqID(q, id) == TRUE

acceptResponseCertReqID(q, id) ==
    IF q.operation = "P10CR" THEN id \in q.certReqIDs ELSE id = 0

\* extractEnrollmentResponse.  "nothing" is its result without a certificate
\* and without an error, for an error message whose status is not an error.
extractEnrollmentResponse(r, q) ==
    IF ~r.parses THEN "fail"
    ELSE IF r.type = "error"
         THEN IF classifyStatus(r) = "none" THEN "nothing" ELSE classifyStatus(r)
    ELSE IF r.type # expectedBody(q) \/ r.entries # 1 THEN "fail"
    ELSE IF ~acceptResponseCertReqID(q, r.certReqID) THEN "fail"
    ELSE IF r.status = "waiting" THEN "waiting"
    ELSE IF classifyStatus(r) # "none" THEN classifyStatus(r)
    ELSE IF r.cert = 0 THEN "fail"
    ELSE IF q.operation = "KUR" /\ q.caPubsAbsent /\ r.caPubs THEN "fail"
    ELSE "certificate"

\* Mutant of Refused: the public key of the certificate is not compared.
RefusedIgnoringKey(r, q) ==
    \/ r.status = "grantedWithMods" /\ q.rejectMods
    \/ r.kind = "untrusted"
    \/ r.kind = "notRenewed" /\ q.operation = "KUR"

\* Does finishTransaction refuse the certificate in r?
Refused(r, q) ==
    \/ r.status = "grantedWithMods" /\ q.rejectMods
    \/ r.kind = "otherKey"
    \/ r.kind = "untrusted"
    \/ r.kind = "notRenewed" /\ q.operation = "KUR"

\* Mutant of ImplicitlyConfirmed: the server need not have been asked.
ImplicitUnasked(r, q) == r.implicit

\* Is the certificate in r final at the server without a certConf?
ImplicitlyConfirmed(r, q) == q.implicitConfirm /\ r.implicit

\* finishTransaction.  "refuse" fails after a certConf that says so, and
\* "panic" is the nil certificate that "nothing" leads to.
finishTransaction(r, q) ==
    LET extracted == extractEnrollmentResponse(r, q)
    IN  CASE extracted = "nothing"                           -> "panic"
          [] extracted = "waiting"                           -> "polling"
          [] extracted \in {"retry", "fail"}                 -> extracted
          [] extracted = "certificate" /\ Refused(r, q)      ->
               (IF ImplicitlyConfirmed(r, q) THEN "fail" ELSE "refuse")
          [] extracted = "certificate" /\ ~Refused(r, q)     ->
               (IF ImplicitlyConfirmed(r, q) THEN "issued" ELSE "confirming")

\* A pollRep for certReqID id: one entry, that identifier, no negative wait.
goodPollRep(r, id) == r.parses /\ r.entries = 1 /\ r.certReqID = id /\ r.checkAfter >= 0

extractPollRep(r, id) == IF goodPollRep(r, id) THEN "polling" ELSE "fail"

\* What a confirmation makes of an answer other than pkiConf.
confirmationDelay(r) ==
    IF r.parses /\ r.type = "error"
    THEN CASE r.status = "waiting"                         -> "confirming"
           [] r.status = "rejection"                       -> classifyStatus(r)
           [] r.status \in {"accepted", "grantedWithMods"} -> "fail"
    ELSE IF r.type = "pollRep" /\ goodPollRep(r, -1) THEN "confirming" ELSE "fail"
=============================================================================
