---------------------------- MODULE WorkloadKeys ----------------------------
(***************************************************************************)
(* Which operation a request is enrolled with, and which private keys and  *)
(* certificate of the workload it may use: internal/controller/kur.go,     *)
(* renewal_fallback.go and prepareWorkloadKeyEnrollment of signer.go.      *)
(*                                                                         *)
(* Sign reads the owning Certificate, the current and the staged Secret    *)
(* one after another from the API server, while cert-manager and users     *)
(* write them.  The transaction record is reduced to what binds these      *)
(* reads; Signer models the rest of it.  A certificate has the number of   *)
(* the key it certifies.                                                   *)
(***************************************************************************)
EXTENDS Integers

CONSTANTS
    Issuers,        \* issuers to choose from
    MaxKey,         \* keys: those that are ever staged, and one of somebody else
    MaxRequests,    \* requests that are ever created
    MaxEdits,       \* edits by users
    Foreign         \* what requests that users create themselves may claim

ASSUME WorkloadAssumption ==
    /\ MaxKey \in Nat \ {0, 1} /\ MaxRequests \in Nat \ {0} /\ MaxEdits \in Nat
    /\ Issuers \subseteq [initial : {"P10CR", "IR"}, renewal : {"", "P10CR", "KUR"},
                          fallback : BOOLEAN]
    /\ Foreign \subseteq [revision : -2..2, owner : 0..2,
                          keyName : {"staged", "current", "other", "none"}, csrKey : 1..MaxKey]

VARIABLES
    issuer,         \* the issuer's protocol settings
    certificate,    \* the cert-manager Certificate
    secret,         \* Secrets by name
    expired,        \* certificates whose notAfter has passed
    request,        \* the CertificateRequest
    txn,            \* the recorded transaction, or NoTransaction
    pc, w,          \* the Sign call: its next step and what it holds
    keys, requests, edits,  \* counters of staged keys, requests and edits
    sent,           \* history: messages sent for the request
    seen,           \* history: states of the current Secret since the request
    changed         \* history: key material changed since the request?

world == <<issuer, certificate, secret, expired>>
call == <<pc, w>>
counters == <<keys, requests, edits>>
vars == <<world, request, txn, call, counters, sent, seen, changed>>

Key == 0..MaxKey            \* 0 is no key, or none that parses
Name == {"staged", "current", "other"}
NoRevision == -2            \* the annotation is absent
BadRevision == -1           \* it is not a number
Unparsable == -1            \* tls.crt is not a certificate

\* The private key of somebody else, which no Secret of the Certificate holds.
OtherKey == MaxKey

\* "owner" is the UID of the controlling Certificate: 1 for the one modelled,
\* 2 for any other, of the same name or not, 0 for none.
Secret ==
    [version : 0..1, annotated : {"none", "this", "other"}, owner : 0..2,
     next : BOOLEAN, cert : Key \cup {Unparsable}, key : Key]
NoSecret == [version |-> 0, annotated |-> "none", owner |-> 0, next |-> FALSE, cert |-> 0, key |-> 0]
Absent == [exists |-> FALSE, data |-> NoSecret]
Stored(s) == [exists |-> TRUE, data |-> s]

NoTransaction == [open |-> FALSE, op |-> "P10CR", fallback |-> "none", digest |-> {}]
NoProof == [key |-> 0, cert |-> 0]
NoCall == [op |-> "P10CR", fallback |-> "none", resumed |-> FALSE, secretName |-> "current",
           current |-> Absent, proof |-> NoProof]

-----------------------------------------------------------------------------
(* The operation. *)

initialOperation(i) == i.initial

\* Mutant of renewalOperation: an omitted field does not follow the initial one.
renewalOperationAsGiven(i) == i.renewal

renewalOperation(i) ==
    IF i.renewal # "" THEN i.renewal
    ELSE IF i.initial = "IR" THEN "KUR" ELSE "P10CR"

selectedTransactionOperation(i, r) ==
    IF initialOperation(i) = "P10CR" /\ renewalOperation(i) = "P10CR" THEN "P10CR"
    ELSE IF r.revision = NoRevision
         THEN IF initialOperation(i) = "IR" THEN "error" ELSE "P10CR"
    ELSE IF r.revision < 1 THEN "error"
    ELSE IF r.revision > 1 THEN renewalOperation(i)
    ELSE initialOperation(i)

\* "none" where the issuer does not fall back.
renewalFallbackOperation(i) ==
    IF i.fallback /\ renewalOperation(i) = "KUR" THEN initialOperation(i) ELSE "none"

-----------------------------------------------------------------------------
(* Authorization. *)

\* The checks of authorizeOwningCertificate before it reads the Certificate.
revisionAndOwner(r, renewal) ==
    /\ IF renewal THEN r.revision >= 2 ELSE r.revision = 1
    /\ r.owner # 0

\* The checks on the Certificate c that it read, all of them permanent.
authorizeOwningCertificate(r, c) ==
    /\ c.exists /\ c.uid = r.owner /\ ~c.deleting
    /\ c.revision = r.revision - 1
    /\ c.issuer

authorizedStagedKeyName(r, c) == r.keyName # "none" /\ r.keyName = c.nextKey

secretControlledByCertificate(s, uid) == s.owner = uid

\* Mutant of currentSecretIssuedForCertificate: only an owner is checked.
currentSecretNotOwned(s, uid) == s.owner \in {0, uid}

currentSecretIssuedForCertificate(s, uid) == s.annotated = "this" /\ s.owner \in {0, uid}

\* What classifyRenewalFallback makes of the current Secret: a reason to fall
\* back, or "none".
CurrentState(s, uid, exp) ==
    IF ~s.exists THEN "missing"
    ELSE IF ~currentSecretIssuedForCertificate(s.data, uid) THEN "foreign"
    ELSE IF s.data.cert = 0 THEN "missing"
    ELSE IF s.data.cert = Unparsable THEN "unparsable"
    ELSE IF s.data.cert \in exp THEN "expired"
    ELSE "usable"

\* Mutant of workloadSecretFingerprint: any write to the Secret counts.
fingerprintOfVersion(name, s, withCert) ==
    [name |-> name, version |-> s.version, cert |-> IF withCert THEN s.cert ELSE 0, key |-> s.key]

\* Mutant of workloadSecretFingerprint: only the Secret's identity counts.
fingerprintOfIdentity(name, s, withCert) ==
    [name |-> name, version |-> 0, cert |-> 0, key |-> 0]

\* The Secret is one of two, by its name; a Secret that is deleted and written
\* again has another UID, which is left out: only its data is used.
workloadSecretFingerprint(name, s, withCert) ==
    [name |-> name, version |-> 0, cert |-> IF withCert THEN s.cert ELSE 0, key |-> s.key]

-----------------------------------------------------------------------------
(* The Sign call. *)

Outcome(state, why) ==
    /\ request' = [request EXCEPT !.state = state, !.why = why]
    /\ pc' = "idle"
    /\ w' = NoCall

\* A permanent workload failure leaves a record behind; any other is retried.
Permanent(why) == Outcome("failed", why) /\ UNCHANGED txn
Retry == Outcome("pending", "none") /\ UNCHANGED txn

Goto(label, held) == pc' = label /\ w' = held /\ UNCHANGED <<request, txn>>

ReadsOnly == UNCHANGED <<world, counters, sent, seen, changed>>

\* Where the call goes once operation and fallback are known.
PrepareAt(op) ==
    IF op \in {"IR", "KUR"} THEN "owner" ELSE "bind"

Sign ==
    LET selected == selectedTransactionOperation(issuer, request)
        op == IF txn.open THEN txn.op ELSE selected
        held == [NoCall EXCEPT !.op = op, !.fallback = txn.fallback, !.resumed = txn.open]
    IN  /\ pc = "idle" /\ request.state = "pending"
        /\ IF selected = "error" THEN Permanent("operation")
           ELSE IF ~txn.open /\ op = "KUR" /\ renewalFallbackOperation(issuer) # "none"
           THEN Goto("classifyOwner", held)
           ELSE Goto(PrepareAt(op), held)
        /\ ReadsOnly

\* classifyRenewalFallback reads the owner as KUR does.
ClassifyOwner ==
    /\ pc = "classifyOwner"
    /\ \/ ~revisionAndOwner(request, TRUE) /\ Permanent("owner")
       \/ revisionAndOwner(request, TRUE) /\ Retry
       \/ /\ revisionAndOwner(request, TRUE)
          /\ IF ~authorizeOwningCertificate(request, certificate) THEN Permanent("owner")
             ELSE IF certificate.secretName = request.keyName THEN Goto("owner", w)
             ELSE Goto("classifySecret", [w EXCEPT !.secretName = certificate.secretName])
    /\ ReadsOnly

\* Mutant of ClassifySecret: a read that fails counts as absence.
ClassifyFailedRead ==
    /\ pc = "classifySecret"
    /\ \/ Goto(PrepareAt(initialOperation(issuer)),
               [w EXCEPT !.op = initialOperation(issuer), !.fallback = "missing"])
       \/ Goto("owner", w)
    /\ ReadsOnly

\* Mutant of ClassifySecret: an absent Secret is left for KUR to report.
ClassifyAbsentAsKUR ==
    /\ pc = "classifySecret"
    /\ Goto("owner", w)
    /\ ReadsOnly

ClassifySecret ==
    LET state == CurrentState(secret[w.secretName], request.owner, expired)
        op == renewalFallbackOperation(issuer)
    IN  /\ pc = "classifySecret"
        /\ \/ Retry
           \/ IF state \in {"missing", "expired"}
              THEN Goto(PrepareAt(op), [w EXCEPT !.op = op, !.fallback = state])
              ELSE Goto("owner", w)
        /\ ReadsOnly

\* loadIRMaterial and loadKURMaterial, up to their first Secret.
AuthorizeOwner ==
    LET renewal == w.op = "KUR" \/ w.fallback # "none"
        mayFallBack == w.op = "IR" /\ w.fallback # "none" => renewalFallbackOperation(issuer) = "IR"
    IN  /\ pc = "owner"
        /\ \/ ~(mayFallBack /\ revisionAndOwner(request, renewal)) /\ Permanent("owner")
           \/ mayFallBack /\ revisionAndOwner(request, renewal) /\ Retry
           \/ /\ mayFallBack /\ revisionAndOwner(request, renewal)
              /\ IF \/ ~authorizeOwningCertificate(request, certificate)
                    \/ ~authorizedStagedKeyName(request, certificate)
                    \/ w.op = "KUR" /\ certificate.secretName = request.keyName
                 THEN Permanent("owner")
                 ELSE Goto(IF w.op = "KUR" THEN "current" ELSE "staged",
                           [w EXCEPT !.secretName = certificate.secretName])
        /\ ReadsOnly

\* loadKURMaterial reads the current Secret.
ReadCurrent ==
    LET s == secret[w.secretName]
    IN  /\ pc = "current"
        /\ \/ Retry
           \/ IF ~s.exists THEN Permanent("missing")
              ELSE IF ~currentSecretIssuedForCertificate(s.data, request.owner)
              THEN Permanent("foreign")
              ELSE Goto("staged", [w EXCEPT !.current = s])
        /\ ReadsOnly

Recorded(digest) ==
    [open |-> TRUE, op |-> w.op, fallback |-> w.fallback, digest |-> digest]

\* The record is created, or its configuration digest compared.  Where it
\* differs, failTransaction removes the record.
Bind(digest, proof) ==
    \/ /\ w.resumed => txn.digest = digest
       /\ txn' = IF w.resumed THEN txn ELSE Recorded(digest)
       /\ pc' = "send"
       /\ w' = [w EXCEPT !.proof = proof]
       /\ UNCHANGED request
    \/ /\ w.resumed /\ txn.digest # digest
       /\ txn' = NoTransaction
       /\ Outcome("failed", "credentials")

\* A P10CR needs no key of the workload.
BindP10CR ==
    /\ pc = "bind"
    /\ Bind({}, NoProof)
    /\ ReadsOnly

\* Why the keys that were read cannot be used.  "retry" is a key or certificate
\* that does not parse.  What else ValidateKURRequest asks of the current
\* certificate (begun validity, usage, same names) is in CMPMessages.
RefusalOfKeys(r, op, staged, old, exp) ==
    IF ~secretControlledByCertificate(staged, r.owner) \/ ~staged.next THEN "staged"
    ELSE IF staged.key = 0 THEN "retry"
    ELSE IF staged.key # r.csrKey THEN "staged"
    ELSE IF op = "IR" THEN "none"
    ELSE IF old.cert = 0 THEN "missing"
    ELSE IF old.cert = Unparsable \/ old.key = 0 THEN "retry"
    ELSE IF old.key # old.cert THEN "pair"
    ELSE IF old.cert \in exp THEN "expired"
    ELSE "none"

Fingerprints(op, staged, old) ==
    {workloadSecretFingerprint("staged", staged, FALSE)}
      \cup (IF op = "KUR" THEN {workloadSecretFingerprint("current", old, TRUE)} ELSE {})

\* loadStagedKey, the rest of loadKURMaterial, and the checks of
\* ValidateIRRequest and ValidateKURRequest.  An absent Secret is waited for.
LoadStaged ==
    LET s == secret[request.keyName]
        old == w.current.data
        refusal == RefusalOfKeys(request, w.op, s.data, old, expired)
    IN  /\ pc = "staged"
        /\ \/ Retry
           \/ /\ s.exists /\ refusal = "none"
              /\ Bind(Fingerprints(w.op, s.data, old),
                      [key |-> s.data.key, cert |-> IF w.op = "KUR" THEN old.cert ELSE 0])
           \/ /\ s.exists /\ refusal \notin {"none", "retry"}
              /\ Permanent(refusal)
        /\ ReadsOnly

\* One message and its answer.  exchange polls on where the server waits.
Exchange ==
    /\ pc = "send"
    /\ sent' = sent \cup {[op |-> w.op, fallback |-> w.fallback,
                           key |-> w.proof.key, cert |-> w.proof.cert]}
    /\ \/ Outcome("pending", "none") /\ UNCHANGED txn
       \/ Outcome("ready", "none") /\ UNCHANGED txn
       \/ Outcome("failed", "server") /\ txn' = NoTransaction
    /\ UNCHANGED <<world, counters, seen, changed>>

Crash ==
    /\ pc # "idle"
    /\ pc' = "idle" /\ w' = NoCall
    /\ UNCHANGED <<world, request, txn, counters, sent, seen, changed>>

-----------------------------------------------------------------------------
(* cert-manager, time and users. *)

\* The history of the current Secret goes on.  A call may hold the name of one
\* that has been renamed since.
CurrentNames == {"current", certificate.secretName, w.secretName}
Observed ==
    {CurrentState(secret'[n], 1, expired') : n \in CurrentNames'}
      \cup (IF certificate'.secretName = "current" THEN {} ELSE {"renamed"})

\* A new key is staged for the next revision.
Stage ==
    /\ certificate.exists /\ certificate.nextKey = "none" /\ request.state # "pending"
    /\ keys < OtherKey - 1
    /\ keys' = keys + 1
    /\ secret' = [secret EXCEPT !["staged"] =
                     Stored([NoSecret EXCEPT !.owner = 1, !.next = TRUE, !.key = keys + 1])]
    /\ certificate' = [certificate EXCEPT !.nextKey = "staged"]
    /\ UNCHANGED <<issuer, expired, request, txn, call, requests, edits, sent, seen, changed>>

\* Another request takes the place of one that has ended.
NewRequest(r) ==
    /\ request.state # "pending" /\ pc = "idle"
    /\ requests < MaxRequests
    /\ requests' = requests + 1
    /\ request' = r
    /\ txn' = NoTransaction
    /\ sent' = {} /\ changed' = FALSE
    /\ UNCHANGED <<world, call, keys, edits>>
    /\ seen' = Observed

CreateRequest ==
    /\ certificate.exists /\ certificate.nextKey = "staged" /\ secret["staged"].exists
    /\ NewRequest([revision |-> certificate.revision + 1, owner |-> 1, keyName |-> "staged",
                   csrKey |-> secret["staged"].data.key, state |-> "pending", why |-> "none"])

\* A user's request may claim anything.
CreateForeignRequest ==
    \E c \in Foreign :
       NewRequest([revision |-> c.revision, owner |-> c.owner, keyName |-> c.keyName,
                   csrKey |-> c.csrKey, state |-> "pending", why |-> "none"])

\* The certificate becomes the current one.
Complete ==
    /\ request.state = "ready" /\ certificate.exists
    /\ request.owner = 1 /\ request.revision = certificate.revision + 1
    /\ certificate.nextKey = "staged" /\ secret["staged"].exists
    /\ LET s == secret["staged"].data IN s.owner = 1 /\ s.next /\ s.key = request.csrKey
    /\ secret' = [secret EXCEPT
                     ![certificate.secretName] =
                        Stored([NoSecret EXCEPT !.annotated = "this", !.cert = request.csrKey,
                                                !.key = request.csrKey]),
                     !["staged"] = Absent]
    /\ certificate' = [certificate EXCEPT !.revision = @ + 1, !.nextKey = "none"]
    /\ request' = [request EXCEPT !.state = "done"]
    /\ UNCHANGED <<issuer, expired, txn, call, counters, sent, changed>>
    /\ seen' = seen \cup Observed

Expire ==
    /\ \E c \in 1..keys : c \notin expired /\ expired' = expired \cup {c}
    /\ UNCHANGED <<issuer, certificate, secret, request, txn, call, counters, sent, changed>>
    /\ seen' = seen \cup Observed

\* What a user or another tool may make of an existing Secret s.  The last one
\* restores the first certificate.
Edited(s) ==
    {Absent,
     Stored([NoSecret EXCEPT !.annotated = "other", !.cert = OtherKey, !.key = OtherKey]),
     Stored([s EXCEPT !.owner = 2, !.cert = OtherKey, !.key = OtherKey]),
     Stored([s EXCEPT !.cert = 0]), Stored([s EXCEPT !.cert = Unparsable]),
     Stored([s EXCEPT !.key = 0]), Stored([s EXCEPT !.next = FALSE]),
     Stored([s EXCEPT !.cert = 1, !.key = 1])}

Edit(isChange) ==
    /\ edits < MaxEdits
    /\ edits' = edits + 1
    /\ changed' = (changed \/ isChange)
    /\ UNCHANGED <<issuer, expired, request, txn, call, keys, requests, sent>>
    /\ seen' = seen \cup Observed

EditSecret ==
    \E n \in {"staged", "current"} :
       /\ secret[n].exists
       /\ \E s \in Edited(secret[n].data) : s # secret[n] /\ secret' = [secret EXCEPT ![n] = s]
       /\ certificate' = certificate
       /\ Edit(TRUE)

\* A write that leaves the data alone.
TouchSecret ==
    \E n \in {"staged", "current"} :
       /\ secret[n].exists
       /\ secret' = [secret EXCEPT ![n].data.version = 1 - @]
       /\ certificate' = certificate
       /\ Edit(FALSE)

EditCertificate ==
    /\ certificate.exists
    /\ \/ certificate' = [certificate EXCEPT !.exists = FALSE]
       \/ certificate' = [certificate EXCEPT !.deleting = TRUE]
       \/ certificate' = [certificate EXCEPT !.issuer = ~@]
       \/ \E n \in {"staged", "current"} : certificate' = [certificate EXCEPT !.secretName = n]
    /\ secret' = secret
    /\ Edit(TRUE)

-----------------------------------------------------------------------------

Init ==
    /\ issuer \in Issuers
    /\ certificate = [exists |-> TRUE, uid |-> 1, deleting |-> FALSE, revision |-> 0,
                      nextKey |-> "none", secretName |-> "current", issuer |-> TRUE]
    /\ secret = [n \in Name |->
                   IF n = "other"
                   THEN Stored([NoSecret EXCEPT !.owner = 2, !.next = TRUE, !.key = OtherKey])
                   ELSE Absent]
    /\ expired = {}
    /\ request = [revision |-> NoRevision, owner |-> 0, keyName |-> "none", csrKey |-> 0,
                  state |-> "done", why |-> "none"]
    /\ txn = NoTransaction
    /\ pc = "idle" /\ w = NoCall
    /\ keys = 0 /\ requests = 0 /\ edits = 0
    /\ sent = {} /\ seen = {} /\ changed = FALSE

Next ==
    \/ Sign \/ ClassifyOwner \/ ClassifySecret \/ AuthorizeOwner \/ ReadCurrent
    \/ LoadStaged \/ BindP10CR \/ Exchange \/ Crash
    \/ Stage \/ CreateRequest \/ CreateForeignRequest \/ Complete \/ Expire
    \/ EditSecret \/ TouchSecret \/ EditCertificate

Spec == Init /\ [][Next]_vars

-----------------------------------------------------------------------------
(* Properties. *)

TypeOK ==
    /\ issuer \in Issuers
    /\ certificate \in [exists : BOOLEAN, uid : {1}, deleting : BOOLEAN, revision : 0..MaxRequests,
                         nextKey : {"none", "staged"}, secretName : {"staged", "current"},
                         issuer : BOOLEAN]
    /\ secret \in [Name -> [exists : BOOLEAN, data : Secret]]
    /\ expired \subseteq Key
    /\ request \in [revision : Int, owner : 0..2, keyName : Name \cup {"none"}, csrKey : Key,
                     state : {"pending", "ready", "failed", "done"},
                     why : {"none", "operation", "owner", "missing", "foreign", "staged", "pair",
                            "expired", "credentials", "server"}]
    /\ pc \in {"idle", "classifyOwner", "classifySecret", "owner", "current", "staged", "bind", "send"}
    /\ w \in [op : {"P10CR", "IR", "KUR"}, fallback : {"none", "missing", "expired"},
               resumed : BOOLEAN, secretName : {"staged", "current"},
               current : [exists : BOOLEAN, data : Secret],
               proof : [key : Key, cert : Key \cup {Unparsable}]]
    /\ txn.open \in BOOLEAN
    /\ txn.op \in {"P10CR", "IR", "KUR"} /\ txn.fallback \in {"none", "missing", "expired"}
    /\ keys \in 0..MaxKey /\ requests \in 0..MaxRequests /\ edits \in 0..MaxEdits
    /\ changed \in BOOLEAN

\* All messages of a transaction name one operation, prove possession of one key
\* and are protected with one certificate, however the Secrets change between
\* calls of Sign: the recorded operation is authoritative and the fingerprints of
\* the Secrets are part of the configuration digest.
OneProofPerTransaction == \A a, b \in sent : a = b

\* No message proves possession of, or is protected with, a key that is not the
\* Certificate's own, whatever a request claims about its owner and whatever
\* other tools write into the Secrets.
KeysBelongToCertificate == \A m \in sent : OtherKey \notin {m.key, m.cert}

\* A renewal falls back only for a reason that held while the request was
\* pending: never because a Secret could not be read, or belongs to another.
FallbackJustified == \A m \in sent : m.fallback # "none" => m.fallback \in seen

\* Where the issuer falls back, a renewal does not fail for want of a current
\* certificate that was missing or expired all along (selectRenewalFallback).
NoDeadEnd ==
    request.why \in {"missing", "expired"} /\ renewalFallbackOperation(issuer) # "none"
      => ~(seen \subseteq {"missing", "expired"})

\* A transaction is given up for changed credentials only when they changed
\* since its request, not when cert-manager wrote the metadata of a Secret
\* (workloadSecretFingerprint).
CredentialsChanged == request.why = "credentials" => changed
=============================================================================
