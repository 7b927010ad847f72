------------------------------- MODULE Signer -------------------------------
(***************************************************************************)
(* Signer.Sign of internal/controller/signer.go, composed with the         *)
(* transaction store, the CMP server, issuer-lib (which calls Sign and     *)
(* writes its outcome to the CertificateRequest) and the users who edit    *)
(* the issuer, its Secrets and the request.                                *)
(*                                                                         *)
(* A worker is one controller process reconciling the modelled request.    *)
(* Every call to the API server and every CMP exchange is a step of its    *)
(* own, so other workers, users and crashes come between any two of them;  *)
(* the computation between two calls belongs to the step before it.        *)
(***************************************************************************)
EXTENDS TransactionStore, CMPServer

CONSTANT Worker     \* controller processes

VARIABLES
    pc,         \* where each worker is in Sign
    req,        \* the UID of the request it signs
    iss,        \* the issuer version it was called with
    cfg,        \* the Secret versions its runtime configuration was loaded from
    rec,        \* its copy of the transaction record
    out,        \* the outcome it will return, or where it goes on after a save
    cr,         \* the CertificateRequest under the modelled name
    seen,       \* each worker's cached copy of it
    issuer,     \* the current issuer version
    rotation,   \* the current version of the configuration Secrets
    expired,    \* transactions whose deadline has passed
    sent,       \* history: what each message sent was sent for
    confSent    \* history: transactions whose certConf was sent

workerVars == <<pc, req, iss, cfg, rec, out>>
requestVars == <<cr, seen>>
environmentVars == <<issuer, rotation, expired>>
historyVars == <<sent, confSent>>
vars == <<storeVars, serverVars, workerVars, requestVars, environmentVars, historyVars>>

RequestState == {"absent", "pending", "issued", "failed"}

CertificateRequest ==
    [uid : Uid, state : RequestState, txn : 0..MaxTxn, cert : 0..MaxCert]

PC == {"idle", "load", "dropStale", "recover", "configure", "create", "save",
       "exchange", "confirm", "await", "remove", "report"}

\* What issuer-lib tells apart: a chain, PermanentError, PendingError,
\* IssuerError and any other error.
Result == {"signed", "permanent", "pending", "issuer", "error"}

\* Who a message spoke for: its transaction, request, issuer and Secrets.
Origin == [id : Txn, uid : Uid, issuer : Version, config : 0..MaxRotation]

\* The state stays well formed; in particular no record counts more polls than
\* the limit that exchange and confirm enforce, whoever wrote it last.
TypeOK ==
    /\ StoreTypeOK
    /\ ServerTypeOK
    /\ pc \in [Worker -> PC]
    /\ req \in [Worker -> 0..MaxUid]
    /\ iss \in [Worker -> Version]
    /\ cfg \in [Worker -> 0..MaxRotation]
    /\ rec \in [Worker -> Record]
    /\ out \in [Worker -> Result \cup {"none", "exchange", "confirm"}]
    /\ cr \in CertificateRequest
    /\ seen \in [Worker -> [uid : Uid, state : RequestState]]
    /\ issuer \in Version
    /\ rotation \in 0..MaxRotation
    /\ expired \subseteq Txn
    /\ sent \subseteq Origin
    /\ confSent \subseteq Txn

Cached == [uid |-> cr.uid, state |-> cr.state]

Init ==
    /\ StoreInit
    /\ ServerInit
    /\ pc = [w \in Worker |-> "idle"]
    /\ req = [w \in Worker |-> 0]
    /\ iss = [w \in Worker |-> 1]
    /\ cfg = [w \in Worker |-> 0]
    /\ rec = [w \in Worker |-> NoRecord]
    /\ out = [w \in Worker |-> "none"]
    /\ cr = [uid |-> 1, state |-> "pending", txn |-> 0, cert |-> 0]
    /\ seen = [w \in Worker |-> [uid |-> 1, state |-> "pending"]]
    /\ issuer = 1
    /\ rotation = 0
    /\ expired = {}
    /\ sent = {}
    /\ confSent = {}

-----------------------------------------------------------------------------
(* Moves of a worker. *)

\* Go on at p with o decided and record copy r.
Decide(w, p, o, r) ==
    /\ pc' = [pc EXCEPT ![w] = p]
    /\ out' = [out EXCEPT ![w] = o]
    /\ rec' = [rec EXCEPT ![w] = r]
    /\ UNCHANGED <<req, iss>>

Continue(w, p, r) == Decide(w, p, "none", r)

\* Leave Sign with outcome o; only a chain takes the record along.
Return(w, o) == Decide(w, "report", o, IF o = "signed" THEN rec[w] ELSE NoRecord)

\* failTransaction with a permanent error: remove record r, then return it.
FailTransaction(w, r) == Decide(w, "remove", "permanent", r)

\* Write record copy r, then go on or return as o says.
SaveRecord(w, o, r) == Decide(w, "save", o, r)

\* Forget the locals of Sign.
Reset(w) ==
    /\ pc' = [pc EXCEPT ![w] = "idle"]
    /\ req' = [req EXCEPT ![w] = 0]
    /\ iss' = [iss EXCEPT ![w] = 1]
    /\ cfg' = [cfg EXCEPT ![w] = 0]
    /\ rec' = [rec EXCEPT ![w] = NoRecord]
    /\ out' = [out EXCEPT ![w] = "none"]

-----------------------------------------------------------------------------
(* Sign: from the call to the runtime configuration. *)

\* issuer-lib calls Sign for a request its cache shows as pending.  Without an
\* operation to select, Sign fails before it looks at the record.
Sign(w) ==
    /\ pc[w] = "idle"
    /\ seen[w].state = "pending"
    /\ req' = [req EXCEPT ![w] = seen[w].uid]
    /\ iss' = [iss EXCEPT ![w] = issuer]
    /\ IF Issuer[issuer].operation = "none"
       THEN /\ pc' = [pc EXCEPT ![w] = "report"]
            /\ out' = [out EXCEPT ![w] = "permanent"]
       ELSE /\ pc' = [pc EXCEPT ![w] = "load"]
            /\ UNCHANGED out
    /\ UNCHANGED <<storeVars, serverVars, cfg, rec, requestVars, environmentVars, historyVars>>

\* validateResumedTransaction: the record belongs to the issuer v and to the
\* operation v selects, or to the one it falls back to from KUR.
validateResumedTransaction(r, v) ==
    /\ Issuer[r.issuer].uid = Issuer[v].uid
    /\ IF r.fallback
       THEN /\ Issuer[v].operation = "KUR"
            /\ Issuer[v].fallback # "none"
            /\ r.operation = Issuer[v].fallback
       ELSE r.operation = Issuer[v].operation

\* What Sign does with the record of its own request.
Resume(w, r) ==
    IF ~validateResumedTransaction(r, iss[w]) THEN FailTransaction(w, r)
    ELSE IF r.phase = "Issued" THEN Continue(w, "recover", r)
    ELSE IF Issuer[r.issuer].generation # Issuer[iss[w]].generation THEN FailTransaction(w, r)
    ELSE Continue(w, "configure", r)

\* transactionStore.load: an uncached read.  The record of another incarnation
\* of the request is deleted first, in a step of its own.
Load(w) ==
    /\ pc[w] = "load"
    /\ \/ Return(w, "error")
       \/ store = NoRecord /\ Continue(w, "configure", NoRecord)
       \/ store # NoRecord /\ store.uid # req[w] /\ Continue(w, "dropStale", store)
       \/ store # NoRecord /\ store.uid = req[w] /\ Resume(w, store)
    /\ UNCHANGED <<storeVars, serverVars, cfg, requestVars, environmentVars, historyVars>>

\* The delete inside load.  A failed call may have been executed; a replaced
\* object answers with a conflict, which is an error here.
DropStale(w) ==
    /\ pc[w] = "dropStale"
    /\ \/ store.id \in {0, rec[w].id} /\ DeleteObject(rec[w]) /\ Continue(w, "configure", NoRecord)
       \/ DeleteObject(rec[w]) /\ Return(w, "error")
       \/ UNCHANGED storeVars /\ Return(w, "error")
    /\ UNCHANGED <<serverVars, cfg, requestVars, environmentVars, historyVars>>

\* recoverIssuedChain: a completed transaction returns its recorded chain,
\* whatever happened to the issuer.  Whether the chain still verifies against
\* the trust read now is a choice: Secrets change and certificates expire.
Recover(w) ==
    /\ pc[w] = "recover"
    /\ \/ Return(w, "issuer")
       \/ rec[w].chain # 0 /\ Return(w, "signed")
       \/ FailTransaction(w, rec[w])
    /\ UNCHANGED <<storeVars, serverVars, cfg, requestVars, environmentVars, historyVars>>

\* selectRenewalFallback: a KUR may turn into the operation it falls back to.
Selection(v) ==
    {[operation |-> Issuer[v].operation, fallback |-> FALSE]} \cup
    (IF Issuer[v].operation = "KUR" /\ Issuer[v].fallback # "none"
     THEN {[operation |-> Issuer[v].fallback, fallback |-> TRUE]}
     ELSE {})

\* Operations that read workload keys, here or to classify a fallback.
ReadsWorkload(op) == op \in {"IR", "KUR"}

\* loadRuntimeConfiguration, selectRenewalFallback and
\* prepareWorkloadKeyEnrollment for a request without a record.
ConfigureNew(w) ==
    /\ pc[w] = "configure"
    /\ rec[w] = NoRecord
    /\ \/ Return(w, "issuer")
       \/ ReadsWorkload(Issuer[iss[w]].operation) /\ \E o \in {"permanent", "pending"} : Return(w, o)
       \/ \E s \in Selection(iss[w]) :
             Continue(w, "create",
                      [NoRecord EXCEPT !.uid = req[w], !.issuer = iss[w], !.digest = rotation,
                                       !.operation = s.operation, !.fallback = s.fallback])
    /\ cfg' = [cfg EXCEPT ![w] = rotation]
    /\ UNCHANGED <<storeVars, serverVars, requestVars, environmentVars, historyVars>>

\* Mutant of SameConfiguration: a rotated Secret does not change the digest.
SameIssuerOnly(r, v) == r.issuer = v

\* Does r carry the configuration digest of issuer version v and the current
\* Secrets?
SameConfiguration(r, v) == r.issuer = v /\ r.digest = rotation

\* The same for a resumed transaction.  A workload key failure returns without
\* failTransaction.  A recorded chain has to verify against the trust before its
\* confirmation goes on, which is a choice as in Recover.
ConfigureResumed(w) ==
    /\ pc[w] = "configure"
    /\ rec[w] # NoRecord
    /\ \/ Return(w, "issuer")
       \/ ReadsWorkload(rec[w].operation) /\ \E o \in {"permanent", "pending"} : Return(w, o)
       \/ ~SameConfiguration(rec[w], iss[w]) /\ FailTransaction(w, rec[w])
       \/ /\ SameConfiguration(rec[w], iss[w])
          /\ \/ rec[w].phase # "Confirming" /\ Continue(w, "exchange", rec[w])
             \/ rec[w].phase = "Confirming" /\ rec[w].chain # 0 /\ Continue(w, "confirm", rec[w])
             \/ rec[w].phase = "Confirming" /\ FailTransaction(w, rec[w])
    /\ cfg' = [cfg EXCEPT ![w] = rotation]
    /\ UNCHANGED <<storeVars, serverVars, requestVars, environmentVars, historyVars>>

-----------------------------------------------------------------------------
(* Sign: from the record to its outcome. *)

\* transactionStore.create.  Its first status update is the save that follows.
\* A name already taken, or any other failure, is an error; a failed call may
\* have been executed.
Create(w) ==
    /\ pc[w] = "create"
    /\ \/ CreateObject(rec[w]) /\ SaveRecord(w, "exchange", recordEnrolling(NewRecord(rec[w])))
       \/ CreateObject(rec[w]) /\ Return(w, "error")
       \/ UNCHANGED storeVars /\ Return(w, "error")
    /\ UNCHANGED <<serverVars, cfg, requestVars, environmentVars, historyVars>>

\* Mutant of Save: a failed update is not noticed.
SaveUnchecked(w) ==
    /\ pc[w] = "save"
    /\ UpdateStatus(rec[w]) \/ UNCHANGED storeVars
    /\ IF out[w] \in {"exchange", "confirm"}
       THEN Continue(w, out[w], Updated(rec[w]))
       ELSE Return(w, out[w])
    /\ UNCHANGED <<serverVars, cfg, requestVars, environmentVars, historyVars>>

\* The status update at the end of create, recordPending, recordConfirming and
\* recordIssued.  A conflict or any other failure is an error, which leaves the
\* certificate to the next call of Sign.
Save(w) ==
    /\ pc[w] = "save"
    /\ \/ /\ UpdateStatus(rec[w])
          /\ IF out[w] \in {"exchange", "confirm"}
             THEN Continue(w, out[w], Updated(rec[w]))
             ELSE Return(w, out[w])
       \/ UpdateStatus(rec[w]) /\ Return(w, "error")
       \/ UNCHANGED storeVars /\ Return(w, "error")
    /\ UNCHANGED <<serverVars, cfg, requestVars, environmentVars, historyVars>>

\* Is the message sent for r a pollReq?  A confirmation that has a request nonce
\* is polled for.
Polls(r) == r.phase = "Polling" \/ (r.phase = "Confirming" /\ r.requestNonce # "none")

\* The message the client sends for record r.
Outgoing(r) ==
    [id   |-> r.id,
     kind |-> CASE r.phase = "Confirming" -> IF Polls(r) THEN "confPoll" ELSE "certConf"
                [] r.phase = "Polling"    -> "pollReq"
                [] OTHER                  -> "enroll",
     cert |-> IF r.phase = "Confirming" THEN r.chain ELSE 0]

Send(w) ==
    /\ Continue(w, "await", rec[w])
    /\ sent' = sent \cup {[id |-> rec[w].id, uid |-> req[w], issuer |-> iss[w], config |-> cfg[w]]}
    /\ confSent' = IF Outgoing(rec[w]).kind = "certConf" THEN confSent \cup {rec[w].id} ELSE confSent
    /\ UNCHANGED <<storeVars, serverVars, cfg, requestVars, environmentVars>>

\* A failure of the checks before the message is built or sent.
FailBeforeSending(w) ==
    /\ FailTransaction(w, rec[w])
    /\ UNCHANGED <<storeVars, serverVars, cfg, requestVars, environmentVars, historyVars>>

\* Mutant of MayExchange: only a poll has a deadline.
MayExchangeUntilPolling(w) ==
    rec[w].phase = "Polling" =>
        rec[w].id \notin expired /\ rec[w].recipNonce /\ rec[w].polls < MaximumPolls

\* The limits exchange enforces: the deadline and, for a poll, its state and
\* the poll budget.
MayExchange(w) ==
    /\ rec[w].id \notin expired
    /\ rec[w].phase = "Polling" => rec[w].recipNonce /\ rec[w].polls < MaximumPolls

\* Mutant of MayConfirm: off by one at the poll limit.
MayConfirmOnceMore(w) ==
    /\ rec[w].id \notin expired
    /\ rec[w].polls <= MaximumPolls

\* The limits confirm enforces, for the first certConf as for a poll.
MayConfirm(w) ==
    /\ rec[w].id \notin expired
    /\ rec[w].polls < MaximumPolls

\* exchange, up to the wait for the answer.  The client may refuse to build the
\* message whatever the limits say (validateEnrollmentRequest, credentialsFor).
Exchange(w) ==
    /\ pc[w] = "exchange"
    /\ \/ MayExchange(w) /\ Send(w)
       \/ FailBeforeSending(w)

\* confirm, up to the wait for the answer.
Confirm(w) ==
    /\ pc[w] = "confirm"
    /\ \/ MayConfirm(w) /\ Send(w)
       \/ FailBeforeSending(w)

\* continuePolling and continueConfirming count an answered pollReq.
Counted(r) == [r EXCEPT !.polls = IF Polls(r) THEN @ + 1 ELSE @]

\* What exchange, confirm and the rest of Sign make of an accepted answer.
Accept(w, reply) ==
    LET r == rec[w]
    IN  CASE reply.kind = "waiting" ->
               SaveRecord(w, "pending", recordPending(Counted(r), reply.nonce))
          [] reply.kind = "granted" ->
               SaveRecord(w, "confirm", recordConfirming(r, reply.cert, reply.nonce, "none"))
          [] reply.kind = "implicit" ->
               SaveRecord(w, "signed", recordIssued(r, reply.cert))
          [] reply.kind = "confWaiting" ->
               SaveRecord(w, "pending", recordConfirming(Counted(r), r.chain, reply.nonce, "certConf"))
          [] reply.kind = "pkiConf" ->
               SaveRecord(w, "signed", recordIssued(r, r.chain))
          [] reply.kind = "permanent" ->
               FailTransaction(w, r)
          [] reply.kind = "retryable" ->
               Return(w, "pending")

\* The server answers the outstanding request and the answer is accepted.
Answered(w) ==
    /\ pc[w] = "await"
    /\ \E a \in Answers(Outgoing(rec[w])) :
          /\ Serve(Outgoing(rec[w]), a)
          /\ Accept(w, a.reply)
    /\ UNCHANGED <<late, storeVars, cfg, requestVars, environmentVars, historyVars>>

\* The server answers, and the client refuses the answer (verifyResponse) or
\* the certificate in it (finishTransaction).  completeOrRefuse then reports a
\* certificate that is not confirmed yet to the server; the failure stands
\* whatever becomes of that message.
Refuse(w) ==
    /\ pc[w] = "await"
    /\ \E a \in Answers(Outgoing(rec[w])) :
          /\ Serve(Outgoing(rec[w]), a)
          /\ \/ UNCHANGED late
             \/ /\ a.reply.kind = "granted"
                /\ late' \in WithLate([id |-> rec[w].id, kind |-> "reject", cert |-> a.reply.cert])
    /\ FailTransaction(w, rec[w])
    /\ UNCHANGED <<storeVars, cfg, requestVars, environmentVars, historyVars>>

\* sendCMP fails in a way that is retried: no connection, a timeout, a 5xx.
NoAnswer(w) ==
    /\ pc[w] = "await"
    /\ Abandon(Outgoing(rec[w]))
    /\ Return(w, "pending")
    /\ UNCHANGED <<storeVars, cfg, requestVars, environmentVars, historyVars>>

\* The removal inside failTransaction.  A replaced object answers with a
\* conflict, which remove ignores.
Remove(w) ==
    /\ pc[w] = "remove"
    /\ \/ DeleteObject(rec[w]) /\ Return(w, out[w])
       \/ DeleteObject(rec[w]) /\ Return(w, "error")
       \/ UNCHANGED storeVars /\ Return(w, "error")
    /\ UNCHANGED <<serverVars, cfg, requestVars, environmentVars, historyVars>>

\* issuer-lib writes the outcome to the request Sign was called for.  Any other
\* error fails the request once MaxRetryDuration has passed.  The write may fail.
Report(w) ==
    /\ pc[w] = "report"
    /\ \/ UNCHANGED cr
       \/ /\ cr.uid = req[w]
          /\ cr.state # "absent"
          /\ \/ /\ out[w] = "signed"
                /\ cr' = [cr EXCEPT !.state = "issued", !.txn = rec[w].id, !.cert = rec[w].chain]
             \/ /\ out[w] \in {"permanent", "error"}
                /\ cr' = [cr EXCEPT !.state = "failed"]
    /\ Reset(w)
    /\ UNCHANGED <<storeVars, serverVars, seen, environmentVars, historyVars>>

\* The controller process stops anywhere in Sign, and its successor starts with
\* a fresh cache.  A standby that takes over with the cache it already has, which
\* may lag behind, is another worker.
Crash(w) ==
    /\ pc[w] # "idle"
    /\ IF pc[w] = "await" THEN Abandon(Outgoing(rec[w])) ELSE UNCHANGED serverVars
    /\ Reset(w)
    /\ seen' = [seen EXCEPT ![w] = Cached]
    /\ UNCHANGED <<storeVars, cr, environmentVars, historyVars>>

-----------------------------------------------------------------------------
(* The environment: caches, time, users and the garbage collector. *)

Informer(w) ==
    /\ seen[w] # Cached
    /\ seen' = [seen EXCEPT ![w] = Cached]
    /\ UNCHANGED <<storeVars, serverVars, workerVars, cr, environmentVars, historyVars>>

ServeLate ==
    /\ LateRequest
    /\ UNCHANGED <<storeVars, workerVars, requestVars, environmentVars, historyVars>>

\* The deadline of the recorded transaction passes.
Expire ==
    /\ store # NoRecord
    /\ store.id \notin expired
    /\ expired' = expired \cup {store.id}
    /\ UNCHANGED <<storeVars, serverVars, workerVars, requestVars, issuer, rotation, historyVars>>

\* An edit or a recreation of the issuer.
ChangeIssuer ==
    /\ issuer < MaxVersion
    /\ issuer' = issuer + 1
    /\ UNCHANGED <<storeVars, serverVars, workerVars, requestVars, rotation, expired, historyVars>>

\* A write to a Secret of the configuration digest: credentials, trust or
\* workload keys.
RotateSecrets ==
    /\ rotation < MaxRotation
    /\ rotation' = rotation + 1
    /\ UNCHANGED <<storeVars, serverVars, workerVars, requestVars, issuer, expired, historyVars>>

DeleteRequest ==
    /\ cr.state # "absent"
    /\ cr' = [cr EXCEPT !.state = "absent", !.txn = 0, !.cert = 0]
    /\ UNCHANGED <<storeVars, serverVars, workerVars, seen, environmentVars, historyVars>>

\* cert-manager creates a request again under the same name.
CreateRequest ==
    /\ cr.state = "absent"
    /\ cr.uid < MaxUid
    /\ cr' = [cr EXCEPT !.uid = @ + 1, !.state = "pending"]
    /\ UNCHANGED <<storeVars, serverVars, workerVars, seen, environmentVars, historyVars>>

\* Is there no request with the UID that the record names as its owner?
Ownerless == store # NoRecord /\ (store.uid # cr.uid \/ cr.state = "absent")

CollectGarbage ==
    /\ Ownerless
    /\ DeleteObject(store)
    /\ UNCHANGED <<serverVars, workerVars, requestVars, environmentVars, historyVars>>

-----------------------------------------------------------------------------
WorkerStep(w) ==
    \/ Sign(w) \/ Load(w) \/ DropStale(w) \/ Recover(w)
    \/ ConfigureNew(w) \/ ConfigureResumed(w)
    \/ Create(w) \/ Save(w) \/ Exchange(w) \/ Confirm(w)
    \/ Answered(w) \/ Refuse(w) \/ NoAnswer(w) \/ Remove(w) \/ Report(w)

Environment ==
    \/ \E w \in Worker : Crash(w) \/ Informer(w)
    \/ Expire \/ ServeLate \/ ChangeIssuer \/ RotateSecrets
    \/ DeleteRequest \/ CreateRequest \/ CollectGarbage

Next == (\E w \in Worker : WorkerStep(w)) \/ Environment

Spec == Init /\ [][Next]_vars

\* A process stops, or the configuration or trust cannot be loaded.  A stop
\* before an outcome is written looks like a write that failed.
Interrupted ==
    \E w \in Worker :
        \/ Crash(w) /\ pc[w] # "report"
        \/ pc[w] \in {"configure", "recover"} /\ out'[w] = "issuer"

\* issuer-lib's write of an outcome succeeds, or MaxRetryDuration has passed.
ReportWritten(w) == Report(w) /\ cr' # cr

\* Workers and caches go on, a deadline passes in the end, and interruptions and
\* failed writes of an outcome do not go on for ever.  Nothing is assumed of the
\* server, and any other call may always fail.
FairSpec ==
    /\ Spec
    /\ \A w \in Worker : WF_vars(WorkerStep(w)) /\ WF_vars(Informer(w)) /\ SF_vars(ReportWritten(w))
    /\ WF_vars(Expire)
    /\ <>[][~Interrupted]_vars

-----------------------------------------------------------------------------
(* Properties. *)

\* "The controller creates it before the first message is sent": a transaction
\* a message was sent for is the recorded one, or its record was deleted under
\* its own identity.  No interleaving hides an open transaction, so no second
\* one is ever opened beside it.
OneOpenTransaction == {o.id : o \in sent} \subseteq closed \cup {store.id}

\* A transaction that was given up is not taken up again: a process that still
\* has a copy of the deleted record never writes it back, also when it was
\* another process that deleted it, from a cache that was behind.
ClosedForGood == store.id \notin closed

\* A transaction speaks for one request, one issuer version and one set of
\* Secrets: a resumed one never sends a message on behalf of another request or
\* under another configuration, whatever was edited, rotated or recreated.
OneOriginPerTransaction == \A o, p \in sent : o.id = p.id => o = p

\* A request that cert-manager sees as issued holds a certificate that the
\* server considers confirmed, obtained in a transaction sent for that request.
IssuedIsConfirmed ==
    cr.state = "issued" =>
        /\ Confirmed(cr.txn, cr.cert)
        /\ \E o \in sent : o.id = cr.txn /\ o.uid = cr.uid

\* "The chain is recorded before certConf is sent": while the record of a
\* transaction whose certConf was sent exists, it holds the chain.
DurableBeforeCertConf ==
    \A t \in confSent \ closed :
        /\ store.id = t
        /\ store.phase \in {"Confirming", "Issued"}
        /\ store.chain # 0

\* A confirmation is polled for only once its certConf was sent.  The record
\* keeps one nonce for two purposes, and a left-over enrollment nonce would make
\* a resumed confirmation poll for an answer to nothing.
PollsOnlyASentCertConf ==
    store.phase = "Confirming" /\ store.requestNonce # "none" => store.id \in confSent

\* A certificate that arrives with the last poll of the budget can still be
\* confirmed: the record never enters Confirming with the budget used up.
FreshCertConfWithinBudget ==
    store.phase = "Confirming" /\ store.requestNonce = "none" => store.polls < MaximumPolls

\* load deletes a record only when no live request depends on it.
LiveTransactionNotDropped ==
    \A w \in Worker : pc[w] = "dropStale" =>
        \A o \in sent : o.id = rec[w].id => o.uid # cr.uid \/ cr.state = "absent"

\* Every request settles, even if the server never answers or always delays:
\* exchange and confirm give up at the deadline, whatever state of the record a
\* process resumes from.
Settles == cr.state = "pending" ~> cr.state # "pending"

Issuance ==
    INSTANCE Issuance WITH
        Transaction <- Txn,
        Certificate <- 0..MaxCert,
        request     <- cr,
        opened      <- {<<o.id, o.uid>> : o \in sent},
        confirmed   <- {<<t, srv[t].cert>> : t \in {x \in Txn : srv[x].state = "confirmed"}}

\* Sign with its records, retries and crashes implements issuance as Issuance
\* states it: a transaction speaks for one request, one certificate of it is
\* confirmed, and only such a certificate is ever reported, to its own request.
ImplementsIssuance == Issuance!Spec

\* How far the record of transaction t has come.  A transaction without a
\* record is closed, unless its record is still to be created.
Recorded(t) ==
    IF store.id = t
    THEN [phase |-> CASE store.phase \in {"New", "Enrolling"} -> "enroll"
                      [] store.phase = "Polling"              -> "poll"
                      [] store.phase = "Confirming"           -> "confirm"
                      [] store.phase = "Issued"               -> "issued",
          cert  |-> store.chain]
    ELSE [phase |-> IF t < nextTxn THEN "closed" ELSE "enroll", cert |-> 0]

Transaction(t) ==
    INSTANCE Enrollment WITH
        Certificate <- 0..MaxCert,
        asked       <- TRUE,
        server      <- srv[t],
        caller      <- Recorded(t)

\* The record of every transaction moves as Enrollment states it, whichever
\* process writes it, from whichever copy, and whatever messages are late: a
\* certificate is in the record before the server is asked to confirm it, and
\* it is recorded as issued only when that one is final at the server.
ImplementsEnrollment ==
    /\ \A t \in Txn : Transaction(t)!Init
    /\ [][\A t \in Txn : UNCHANGED <<srv[t], Recorded(t)>> \/ Transaction(t)!Next]_vars

Rank(p) ==
    CASE p = "New" -> 0 [] p = "Enrolling" -> 1 [] p = "Polling" -> 2
      [] p = "Confirming" -> 3 [] p = "Issued" -> 4

\* What one write may do to a recorded transaction: its identity and bindings
\* are fixed, its phase and poll count never go back, a recorded chain is never
\* replaced, and the poll count moves by one.
Advances(r, s) ==
    /\ s.uid = r.uid /\ s.issuer = r.issuer /\ s.digest = r.digest
    /\ s.operation = r.operation /\ s.fallback = r.fallback
    /\ Rank(s.phase) >= Rank(r.phase)
    /\ s.polls \in {r.polls, r.polls + 1}
    /\ r.chain # 0 => s.chain = r.chain

\* Whatever copy a process still holds, the record itself only advances.
RecordAdvances ==
    [][store # NoRecord /\ store'.id = store.id => Advances(store, store')]_store
=============================================================================
