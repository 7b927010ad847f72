---------------------------- MODULE SignerProofs ----------------------------
(***************************************************************************)
(* Proofs about Signer that hold for every number of workers, requests,    *)
(* transactions, certificates, polls, Secret rotations and issuer          *)
(* versions: the types, and that no open transaction is hidden.            *)
(***************************************************************************)
EXTENDS Signer, TLAPS

\* The steps are first-order, up to those that name another prover.
USE Zenon

-----------------------------------------------------------------------------
(* Type correctness. *)

\* Where a worker holds the record of a created transaction.
Holding == {"dropStale", "recover", "save", "exchange", "confirm", "await", "remove"}

\* What the steps of a worker rely on beyond the types.
WorkerOK(w) ==
    /\ pc[w] # "idle" => req[w] \in Uid
    /\ pc[w] \notin {"idle", "report"} => Issuer[iss[w]].operation \in Operation
    /\ pc[w] \in Holding => rec[w].id \in Txn
    /\ pc[w] = "configure" => rec[w] = NoRecord \/ rec[w].id \in Txn
    /\ pc[w] = "exchange" \/ (pc[w] = "save" /\ out[w] = "exchange") => rec[w].phase # "Confirming"
    /\ pc[w] = "await" /\ Polls(rec[w]) => rec[w].polls < MaximumPolls

\* The types, by the part of the state that they are about.
WorkersOK ==
    /\ pc \in [Worker -> PC]
    /\ req \in [Worker -> 0..MaxUid]
    /\ iss \in [Worker -> Version]
    /\ cfg \in [Worker -> 0..MaxRotation]
    /\ rec \in [Worker -> Record]
    /\ out \in [Worker -> Result \cup {"none", "exchange", "confirm"}]
    /\ \A w \in Worker : WorkerOK(w)

StoreOK == StoreTypeOK /\ (store.id = 0 => store = NoRecord)

RequestsOK ==
    /\ cr \in CertificateRequest
    /\ seen \in [Worker -> [uid : Uid, state : RequestState]]

EnvironmentOK == issuer \in Version /\ rotation \in 0..MaxRotation /\ expired \subseteq Txn

HistoryOK == sent \subseteq Origin /\ confSent \subseteq Txn

\* The inductive strengthening of TypeOK.
Typed == WorkersOK /\ StoreOK /\ ServerTypeOK /\ RequestsOK /\ EnvironmentOK /\ HistoryOK

\* The empty record is a record.
LEMMA NoRecordType == NoRecord \in Record
  BY BoundsAssumption, SMT DEF NoRecord, Record, Version, Operation, Phase

\* Each status that the store writes is the status of a record.
LEMMA StatusTypes ==
  ASSUME NEW r \in Record, NEW c \in 0..MaxCert, NEW n \in BOOLEAN,
         NEW q \in {"none", "enrollment", "certConf"}
  PROVE  /\ recordEnrolling(r) \in Record
         /\ recordPending(r, n) \in Record
         /\ recordConfirming(r, c, n, q) \in Record
         /\ recordIssued(r, c) \in Record
         /\ Updated(r) \in Record
  <1>1. recordEnrolling(r) \in Record
    BY DEF Record, Phase, recordEnrolling
  <1>2. recordPending(r, n) \in Record
    BY DEF Record, Phase, recordPending
  <1>3. recordConfirming(r, c, n, q) \in Record
    BY DEF Record, Phase, recordConfirming
  <1>4. recordIssued(r, c) \in Record
    BY DEF Record, Phase, recordIssued
  <1>5. Updated(r) \in Record
    BY SMT DEF Record, Updated
  <1> QED BY <1>1, <1>2, <1>3, <1>4, <1>5

\* No status update changes the identity of a record.
LEMMA StatusKeepsIdentity ==
  ASSUME NEW r \in Record, NEW c, NEW n, NEW q
  PROVE  /\ recordEnrolling(r).id = r.id
         /\ recordPending(r, n).id = r.id
         /\ recordConfirming(r, c, n, q).id = r.id
         /\ recordIssued(r, c).id = r.id
         /\ Updated(r).id = r.id
         /\ Counted(r).id = r.id
  BY DEF Record, recordEnrolling, recordPending, recordConfirming, recordIssued, Updated, Counted

AnswerType == [srv : ServerState, reply : Reply]

ReplyKind == {"waiting", "granted", "implicit", "pkiConf", "confWaiting", "permanent", "retryable"}

\* An answer put together from typed parts is typed.
LEMMA AnswerIsTyped ==
  ASSUME NEW s \in ServerState, NEW k \in ReplyKind, NEW c \in 0..MaxCert, NEW n \in BOOLEAN
  PROVE  Answer(s, k, c, n) \in AnswerType
  <1>1. [kind |-> k, cert |-> c, nonce |-> n] \in Reply
    BY DEF Reply, ReplyKind
  <1> QED BY <1>1 DEF Answer, AnswerType

\* Whatever the server answers has the types that the client expects.
LEMMA AnswersAreTyped ==
  ASSUME ServerTypeOK, NEW m \in Message, NEW a \in Answers(m)
  PROVE  a \in AnswerType
  <1> DEFINE s == srv[m.id]
  <1>1. s \in ServerState /\ s.cert \in 0..MaxCert /\ 0 \in 0..MaxCert
    BY BoundsAssumption, SMT DEF ServerTypeOK, Message, ServerState
  <1>2. \A x \in {"unknown", "waiting", "issued", "confirming", "confirmed", "refused"} :
           [s EXCEPT !.state = x] \in ServerState
    BY <1>1 DEF ServerState
  <1>3. Errors(s) \subseteq AnswerType
    BY <1>1, AnswerIsTyped DEF Errors, ReplyKind
  <1>4. Waiting(s) \subseteq AnswerType
    BY <1>1, <1>2, AnswerIsTyped DEF Waiting, ReplyKind
  <1>5. \A x \in Grant(s) : x.srv.cert <= MaxCert => x \in AnswerType
    <2>0. \A x \in Grant(s) : x.srv.cert = s.cert + 1
      BY SMT DEF Grant, Answer
    <2> SUFFICES ASSUME s.cert + 1 <= MaxCert PROVE Grant(s) \subseteq AnswerType
      BY <2>0
    <2>1. s.cert + 1 \in 0..MaxCert
      BY <1>1, BoundsAssumption, SMT
    <2>2. \A x \in {"issued", "confirmed"} : [state |-> x, cert |-> s.cert + 1] \in ServerState
      BY <2>1 DEF ServerState
    <2> QED BY <2>1, <2>2, AnswerIsTyped DEF Grant, ReplyKind
  <1>6. \A x \in CertificateAnswers(s) : x.srv.cert <= MaxCert => x \in AnswerType
    <2>1. \A k \in {"granted", "implicit"} : Answer(s, k, s.cert, TRUE) \in AnswerType
      BY <1>1, AnswerIsTyped DEF ReplyKind
    <2> QED BY <1>4, <1>5, <2>1 DEF CertificateAnswers, Repeat
  <1>7. PkiConf(s) \subseteq AnswerType
    BY <1>1, <1>2, AnswerIsTyped DEF PkiConf, ReplyKind
  <1>8. Delay(s) \subseteq AnswerType
    BY <1>1, <1>2, AnswerIsTyped DEF Delay, ReplyKind
  <1>9. ConfirmationAnswers(s, m.cert) \subseteq AnswerType
    BY <1>7, <1>8 DEF ConfirmationAnswers
  <1>10. RejectionAnswers(s, m.cert) \subseteq AnswerType
    BY <1>1, <1>2, AnswerIsTyped DEF RejectionAnswers, ReplyKind
  <1>11. a \in AnswersTo(s, m.kind, m.cert) /\ a.srv.cert <= MaxCert
    BY DEF Answers
  <1> QED BY <1>3, <1>6, <1>9, <1>10, <1>11 DEF AnswersTo, Message

\* A move of a worker inside Sign keeps the workers well formed.
LEMMA DecideTyped ==
  ASSUME WorkersOK, NEW w \in Worker, pc[w] \notin {"idle", "report"},
         NEW p \in PC, NEW o \in Result \cup {"none", "exchange", "confirm"}, NEW r \in Record,
         p \in Holding => r.id \in Txn,
         p = "configure" => r = NoRecord \/ r.id \in Txn,
         p = "exchange" \/ (p = "save" /\ o = "exchange") => r.phase # "Confirming",
         p = "await" /\ Polls(r) => r.polls < MaximumPolls,
         Decide(w, p, o, r), cfg' \in [Worker -> 0..MaxRotation]
  PROVE  WorkersOK'
  <1>1. /\ pc' \in [Worker -> PC] /\ req' = req /\ iss' = iss
        /\ rec' \in [Worker -> Record]
        /\ out' \in [Worker -> Result \cup {"none", "exchange", "confirm"}]
    BY DEF WorkersOK, Decide
  <1>2. ASSUME NEW v \in Worker PROVE WorkerOK(v)'
    <2>1. CASE v = w
      BY <2>1 DEF WorkersOK, WorkerOK, Decide, Polls
    <2>2. CASE v # w
      <3>1. pc'[v] = pc[v] /\ req'[v] = req[v] /\ iss'[v] = iss[v] /\ rec'[v] = rec[v] /\ out'[v] = out[v]
        BY <2>2 DEF WorkersOK, Decide
      <3> QED BY <3>1 DEF WorkersOK, WorkerOK, Polls
    <2> QED BY <2>1, <2>2
  <1> QED BY <1>1, <1>2 DEF WorkersOK

\* So does the end of Sign, at which its locals are forgotten.
LEMMA ResetTyped ==
  ASSUME WorkersOK, NEW w \in Worker, Reset(w)
  PROVE  WorkersOK'
  <1>1. /\ pc' \in [Worker -> PC] /\ req' \in [Worker -> 0..MaxUid] /\ iss' \in [Worker -> Version]
        /\ cfg' \in [Worker -> 0..MaxRotation] /\ rec' \in [Worker -> Record]
        /\ out' \in [Worker -> Result \cup {"none", "exchange", "confirm"}]
    BY BoundsAssumption, NoRecordType, SMT DEF WorkersOK, Reset, PC, Version
  <1>2. ASSUME NEW v \in Worker PROVE WorkerOK(v)'
    <2>1. CASE v = w
      BY <2>1 DEF WorkersOK, WorkerOK, Reset, Holding
    <2>2. CASE v # w
      <3>1. pc'[v] = pc[v] /\ req'[v] = req[v] /\ iss'[v] = iss[v] /\ rec'[v] = rec[v] /\ out'[v] = out[v]
        BY <2>2 DEF WorkersOK, Reset
      <3> QED BY <3>1 DEF WorkersOK, WorkerOK, Polls
    <2> QED BY <2>1, <2>2
  <1> QED BY <1>1, <1>2 DEF WorkersOK

\* A worker may leave Sign with any outcome.
LEMMA ReturnTyped ==
  ASSUME WorkersOK, NEW w \in Worker, pc[w] \notin {"idle", "report"},
         NEW o \in Result \cup {"none", "exchange", "confirm"},
         Return(w, o), cfg' \in [Worker -> 0..MaxRotation]
  PROVE  WorkersOK'
  <1>1. rec[w] \in Record /\ NoRecord \in Record
    BY NoRecordType DEF WorkersOK
  <1> QED BY <1>1, DecideTyped DEF Return, PC, Holding

\* A worker that holds a created transaction may fail it.
LEMMA FailTyped ==
  ASSUME WorkersOK, NEW w \in Worker, pc[w] \notin {"idle", "report"}, NEW r \in Record, r.id \in Txn,
         FailTransaction(w, r), cfg' \in [Worker -> 0..MaxRotation]
  PROVE  WorkersOK'
  BY DecideTyped DEF FailTransaction, PC, Result, Holding

\* create writes a record with a fresh, valid identity.
LEMMA CreateTyped ==
  ASSUME StoreOK, NEW r \in Record, CreateObject(r)
  PROVE  StoreOK' /\ NewRecord(r) \in Record /\ NewRecord(r).id \in Txn
  <1>1. nextTxn \in Txn /\ nextTxn \in 0..MaxTxn
    BY BoundsAssumption, SMT DEF StoreOK, StoreTypeOK, CreateObject, Txn
  <1>2. NewRecord(r) \in Record /\ NewRecord(r).id = nextTxn
    BY <1>1 DEF NewRecord, Record, Phase
  <1>3. nextTxn # 0 /\ nextTxn + 1 \in 1..(MaxTxn + 1)
    BY <1>1, BoundsAssumption, SMT DEF Txn
  <1> QED BY <1>1, <1>2, <1>3 DEF StoreOK, StoreTypeOK, CreateObject

\* A status update replaces the recorded transaction by another record.
LEMMA UpdateTyped ==
  ASSUME StoreOK, NEW r \in Record, r.id \in Txn, UpdateStatus(r)
  PROVE  StoreOK'
  <1>1. Updated(r) \in Record /\ Updated(r).id = r.id /\ r.id # 0
    BY BoundsAssumption, StatusKeepsIdentity, SMT DEF Updated, Record, Txn
  <1> QED BY <1>1 DEF StoreOK, StoreTypeOK, UpdateStatus

\* A delete leaves the record or the empty one.
LEMMA DeleteTyped ==
  ASSUME StoreOK, NEW r \in Record, r.id \in Txn, DeleteObject(r)
  PROVE  StoreOK'
  BY NoRecordType DEF StoreOK, StoreTypeOK, DeleteObject

\* The message sent for a created transaction has the type of a message.
LEMMA OutgoingTyped ==
  ASSUME NEW r \in Record, r.id \in Txn
  PROVE  Outgoing(r) \in Message
  BY BoundsAssumption, SMT DEF Outgoing, Message, Record, Polls

\* A worker's move on an accepted answer.
LEMMA AcceptTyped ==
  ASSUME WorkersOK, NEW w \in Worker, pc[w] = "await", NEW reply \in Reply,
         Accept(w, reply), UNCHANGED cfg
  PROVE  WorkersOK'
  <1> DEFINE r == rec[w]
  <1>1. r \in Record /\ r.id \in Txn /\ cfg' \in [Worker -> 0..MaxRotation] /\ r.chain \in 0..MaxCert
    BY DEF WorkersOK, WorkerOK, Holding, Record
  <1>2. Polls(r) => r.polls < MaximumPolls
    BY DEF WorkersOK, WorkerOK
  <1>3. Counted(r) \in Record /\ Counted(r).id \in Txn
    <2>1. (IF Polls(r) THEN r.polls + 1 ELSE r.polls) \in 0..MaximumPolls
      BY <1>1, <1>2, BoundsAssumption, SMT DEF Record
    <2> QED BY <1>1, <2>1 DEF Counted, Record
  <1>4. reply.cert \in 0..MaxCert /\ reply.nonce \in BOOLEAN
    BY DEF Reply
  <1>5. ASSUME NEW x \in Record, x.id \in Txn, NEW o \in Result \cup {"confirm"},
               SaveRecord(w, o, x)
        PROVE  WorkersOK'
    BY <1>1, <1>5, DecideTyped DEF SaveRecord, PC, Result
  <1>6. CASE reply.kind = "waiting"
    <2>1. /\ recordPending(Counted(r), reply.nonce) \in Record
          /\ recordPending(Counted(r), reply.nonce).id \in Txn
      BY <1>3, <1>4, StatusTypes, StatusKeepsIdentity, <1>1
    <2> QED BY <1>5, <1>6, <2>1 DEF Accept, Result
  <1>7. CASE reply.kind = "granted"
    <2>1. /\ recordConfirming(r, reply.cert, reply.nonce, "none") \in Record
          /\ recordConfirming(r, reply.cert, reply.nonce, "none").id \in Txn
      BY <1>1, <1>4, StatusTypes, StatusKeepsIdentity, SMT
    <2> QED BY <1>5, <1>7, <2>1 DEF Accept
  <1>8. CASE reply.kind = "implicit"
    <2>1. recordIssued(r, reply.cert) \in Record /\ recordIssued(r, reply.cert).id \in Txn
      BY <1>1, <1>4, StatusTypes, StatusKeepsIdentity
    <2> QED BY <1>5, <1>8, <2>1 DEF Accept, Result
  <1>9. CASE reply.kind = "confWaiting"
    <2>1. /\ recordConfirming(Counted(r), r.chain, reply.nonce, "certConf") \in Record
          /\ recordConfirming(Counted(r), r.chain, reply.nonce, "certConf").id \in Txn
      BY <1>1, <1>3, <1>4, StatusTypes, StatusKeepsIdentity, SMT
    <2> QED BY <1>5, <1>9, <2>1 DEF Accept, Result
  <1>10. CASE reply.kind = "pkiConf"
    <2>1. recordIssued(r, r.chain) \in Record /\ recordIssued(r, r.chain).id \in Txn
      BY <1>1, <1>4, StatusTypes, StatusKeepsIdentity
    <2> QED BY <1>5, <1>10, <2>1 DEF Accept, Result
  <1>11. CASE reply.kind = "permanent"
    BY <1>1, <1>11, FailTyped DEF Accept
  <1>12. CASE reply.kind = "retryable"
    BY <1>1, <1>12, ReturnTyped DEF Accept, Result
  <1> QED BY <1>6, <1>7, <1>8, <1>9, <1>10, <1>11, <1>12 DEF Reply

\* A message nobody waits for leaves the server and its queue well formed.
LEMMA AbandonTyped ==
  ASSUME ServerTypeOK, NEW m \in Message, Abandon(m)
  PROVE  ServerTypeOK'
  BY DEF ServerTypeOK, Abandon, WithLate

\* So does an answer.
LEMMA ServeTyped ==
  ASSUME ServerTypeOK, NEW m \in Message, NEW a, Serve(m, a)
  PROVE  srv' \in [Txn -> ServerState] /\ a.reply \in Reply
  <1>1. a \in AnswerType
    BY AnswersAreTyped DEF Serve
  <1> QED BY <1>1 DEF ServerTypeOK, Serve, AnswerType

-----------------------------------------------------------------------------
\* Every step of a worker keeps the state well formed.
LEMMA WorkerStepTyped ==
  ASSUME Typed, NEW w \in Worker, WorkerStep(w)
  PROVE  Typed'
  <1> USE DEF Typed
  <1>0. /\ cfg \in [Worker -> 0..MaxRotation] /\ rec[w] \in Record /\ store \in Record
        /\ rotation \in 0..MaxRotation /\ req[w] \in 0..MaxUid /\ iss[w] \in Version
    BY DEF WorkersOK, StoreOK, StoreTypeOK, EnvironmentOK
  <1>1. CASE Sign(w)
    <2>1. StoreOK' /\ ServerTypeOK' /\ RequestsOK' /\ EnvironmentOK' /\ HistoryOK'
      BY <1>1 DEF Sign, storeVars, serverVars, requestVars, environmentVars, historyVars, StoreOK,
                  StoreTypeOK, ServerTypeOK, RequestsOK, EnvironmentOK, HistoryOK
    <2>2. seen[w].uid \in Uid /\ Uid \subseteq 0..MaxUid /\ issuer \in Version
      BY BoundsAssumption, SMT DEF RequestsOK, Uid, EnvironmentOK
    <2>3. /\ pc' \in [Worker -> PC] /\ req' \in [Worker -> 0..MaxUid] /\ iss' \in [Worker -> Version]
          /\ cfg' = cfg /\ rec' = rec
          /\ out' \in [Worker -> Result \cup {"none", "exchange", "confirm"}]
      BY <1>1, <2>2 DEF Sign, WorkersOK, PC, Result
    <2>4. ASSUME NEW v \in Worker PROVE WorkerOK(v)'
      <3>1. CASE v = w
        <4>1. Issuer[issuer].operation \in Operation \cup {"none"}
          BY <2>2, IssuerAssumption DEF IssuerVersion, Version
        <4> QED BY <1>1, <2>2, <3>1, <4>1, ZenonT(40) DEF Sign, WorkersOK, WorkerOK, Holding
      <3>2. CASE v # w
        <4>1. pc'[v] = pc[v] /\ req'[v] = req[v] /\ iss'[v] = iss[v] /\ rec'[v] = rec[v] /\ out'[v] = out[v]
          BY <1>1, <3>2 DEF Sign, WorkersOK
        <4> QED BY <4>1 DEF WorkersOK, WorkerOK, Polls
      <3> QED BY <3>1, <3>2
    <2> QED BY <2>1, <2>3, <2>4 DEF WorkersOK
  <1>2. CASE Load(w)
    <2>1. StoreOK' /\ ServerTypeOK' /\ RequestsOK' /\ EnvironmentOK' /\ HistoryOK' /\ UNCHANGED cfg
      BY <1>2 DEF Load, storeVars, serverVars, requestVars, environmentVars, historyVars, StoreOK,
                  StoreTypeOK, ServerTypeOK, RequestsOK, EnvironmentOK, HistoryOK
    <2>2. pc[w] \notin {"idle", "report"}
      BY <1>2 DEF Load
    <2>3. store # NoRecord => store.id \in Txn
      BY <1>0, BoundsAssumption, SMT DEF StoreOK, Record, Txn
    <2>4. CASE Return(w, "error")
      BY <1>0, <2>1, <2>2, <2>4, ReturnTyped DEF Result
    <2>5. CASE Continue(w, "configure", NoRecord)
      BY <1>0, <2>1, <2>2, <2>5, DecideTyped, NoRecordType DEF Continue, PC, Holding
    <2>6. CASE store # NoRecord /\ Continue(w, "dropStale", store)
      BY <1>0, <2>1, <2>2, <2>3, <2>6, DecideTyped DEF Continue, PC, Holding
    <2>7. CASE store # NoRecord /\ Resume(w, store)
      <3>1. CASE FailTransaction(w, store)
        BY <1>0, <2>1, <2>2, <2>3, <2>7, <3>1, FailTyped
      <3>2. CASE Continue(w, "recover", store)
        BY <1>0, <2>1, <2>2, <2>3, <2>7, <3>2, DecideTyped DEF Continue, PC, Holding
      <3>3. CASE Continue(w, "configure", store)
        BY <1>0, <2>1, <2>2, <2>3, <2>7, <3>3, DecideTyped DEF Continue, PC, Holding
      <3> QED BY <2>7, <3>1, <3>2, <3>3 DEF Resume
    <2> QED BY <1>2, <2>4, <2>5, <2>6, <2>7 DEF Load
  <1>3. CASE DropStale(w)
    <2>1. ServerTypeOK' /\ RequestsOK' /\ EnvironmentOK' /\ HistoryOK' /\ UNCHANGED cfg
      BY <1>3 DEF DropStale, serverVars, requestVars, environmentVars, historyVars,
                  ServerTypeOK, RequestsOK, EnvironmentOK, HistoryOK
    <2>2. pc[w] \notin {"idle", "report"} /\ rec[w].id \in Txn
      BY <1>3 DEF DropStale, WorkersOK, WorkerOK, Holding
    <2>3. StoreOK'
      <3>1. CASE DeleteObject(rec[w])
        BY <1>0, <2>2, <3>1, DeleteTyped
      <3>2. CASE UNCHANGED storeVars
        BY <3>2 DEF storeVars, StoreOK, StoreTypeOK
      <3> QED BY <1>3, <3>1, <3>2 DEF DropStale
    <2>4. CASE Return(w, "error")
      BY <1>0, <2>1, <2>2, <2>3, <2>4, ReturnTyped DEF Result
    <2>5. CASE Continue(w, "configure", NoRecord)
      BY <1>0, <2>1, <2>2, <2>3, <2>5, DecideTyped, NoRecordType DEF Continue, PC, Holding
    <2> QED BY <1>3, <2>4, <2>5 DEF DropStale
  <1>4. CASE Recover(w)
    <2>1. StoreOK' /\ ServerTypeOK' /\ RequestsOK' /\ EnvironmentOK' /\ HistoryOK' /\ UNCHANGED cfg
      BY <1>4 DEF Recover, storeVars, serverVars, requestVars, environmentVars, historyVars,
           StoreOK, StoreTypeOK, ServerTypeOK, RequestsOK, EnvironmentOK, HistoryOK
    <2>2. pc[w] \notin {"idle", "report"} /\ rec[w].id \in Txn
      BY <1>4 DEF Recover, WorkersOK, WorkerOK, Holding
    <2>3. ASSUME NEW o \in Result, Return(w, o) PROVE Typed'
      BY <1>0, <2>1, <2>2, <2>3, ReturnTyped
    <2>4. CASE FailTransaction(w, rec[w])
      BY <1>0, <2>1, <2>2, <2>4, FailTyped
    <2> QED BY <1>4, <2>3, <2>4 DEF Recover, Result
  <1>5. CASE ConfigureNew(w)
    <2>1. StoreOK' /\ ServerTypeOK' /\ RequestsOK' /\ EnvironmentOK' /\ HistoryOK'
      BY <1>5 DEF ConfigureNew, storeVars, serverVars, requestVars, environmentVars, historyVars,
           StoreOK, StoreTypeOK, ServerTypeOK, RequestsOK, EnvironmentOK, HistoryOK
    <2>2. pc[w] \notin {"idle", "report"} /\ req[w] \in Uid /\ cfg' \in [Worker -> 0..MaxRotation]
      BY <1>0, <1>5 DEF ConfigureNew, WorkersOK, WorkerOK
    <2>3. ASSUME NEW o \in Result, Return(w, o) PROVE Typed'
      BY <2>1, <2>2, <2>3, ReturnTyped
    <2>4. ASSUME NEW s \in Selection(iss[w]),
                 Continue(w, "create",
                      [NoRecord EXCEPT !.uid = req[w], !.issuer = iss[w], !.digest = rotation,
                                       !.operation = s.operation, !.fallback = s.fallback])
          PROVE  Typed'
      <3> DEFINE d == [NoRecord EXCEPT !.uid = req[w], !.issuer = iss[w], !.digest = rotation,
                                       !.operation = s.operation, !.fallback = s.fallback]
      <3>1. s.operation \in Operation /\ s.fallback \in BOOLEAN
        <4>1. Issuer[iss[w]] \in IssuerVersion /\ Issuer[iss[w]].operation \in Operation
          BY <1>0, <1>5, IssuerAssumption DEF Version, ConfigureNew, WorkersOK, WorkerOK
        <4>2. Issuer[iss[w]].fallback # "none" => Issuer[iss[w]].fallback \in Operation
          BY <4>1 DEF IssuerVersion, Operation
        <4>3. \/ s = [operation |-> Issuer[iss[w]].operation, fallback |-> FALSE]
              \/ /\ Issuer[iss[w]].fallback # "none"
                 /\ s = [operation |-> Issuer[iss[w]].fallback, fallback |-> TRUE]
          BY <2>4 DEF Selection
        <4>4. CASE s = [operation |-> Issuer[iss[w]].operation, fallback |-> FALSE]
          BY <4>1, <4>4
        <4>5. CASE /\ Issuer[iss[w]].fallback # "none"
                   /\ s = [operation |-> Issuer[iss[w]].fallback, fallback |-> TRUE]
          BY <4>2, <4>5
        <4> QED BY <4>3, <4>4, <4>5
      <3>2. d \in Record
        BY <1>0, <3>1, NoRecordType DEF Record
      <3> QED BY <2>1, <2>2, <2>4, <3>2, DecideTyped DEF Continue, PC, Holding
    <2> QED BY <1>5, <2>3, <2>4 DEF ConfigureNew, Result
  <1>6. CASE ConfigureResumed(w)
    <2>1. StoreOK' /\ ServerTypeOK' /\ RequestsOK' /\ EnvironmentOK' /\ HistoryOK'
      BY <1>6 DEF ConfigureResumed, storeVars, serverVars, requestVars, environmentVars,
           historyVars, StoreOK, StoreTypeOK, ServerTypeOK, RequestsOK, EnvironmentOK, HistoryOK
    <2>2. pc[w] \notin {"idle", "report"} /\ rec[w].id \in Txn /\ cfg' \in [Worker -> 0..MaxRotation]
      BY <1>0, <1>6 DEF ConfigureResumed, WorkersOK, WorkerOK
    <2>3. ASSUME NEW o \in Result, Return(w, o) PROVE Typed'
      BY <2>1, <2>2, <2>3, ReturnTyped
    <2>4. CASE FailTransaction(w, rec[w])
      BY <1>0, <2>1, <2>2, <2>4, FailTyped
    <2>5. ASSUME NEW p \in {"exchange", "confirm"}, Continue(w, p, rec[w]),
                 p = "exchange" => rec[w].phase # "Confirming"
          PROVE  Typed'
      BY <1>0, <2>1, <2>2, <2>5, DecideTyped DEF Continue, PC, Holding
    <2> QED BY <1>6, <2>3, <2>4, <2>5 DEF ConfigureResumed, Result
  <1>7. CASE Create(w)
    <2>1. ServerTypeOK' /\ RequestsOK' /\ EnvironmentOK' /\ HistoryOK' /\ UNCHANGED cfg /\ pc[w] \notin {"idle", "report"}
      BY <1>7 DEF Create, serverVars, requestVars, environmentVars, historyVars,
                  ServerTypeOK, RequestsOK, EnvironmentOK, HistoryOK
    <2>2. CASE CreateObject(rec[w]) /\ SaveRecord(w, "exchange", recordEnrolling(NewRecord(rec[w])))
      <3>1. StoreOK' /\ NewRecord(rec[w]) \in Record /\ NewRecord(rec[w]).id \in Txn
        BY <1>0, <2>2, CreateTyped
      <3>2. recordEnrolling(NewRecord(rec[w])) \in Record /\ recordEnrolling(NewRecord(rec[w])).id \in Txn
        BY <3>1, StatusKeepsIdentity DEF recordEnrolling, Record, Phase
      <3>3. recordEnrolling(NewRecord(rec[w])).phase # "Confirming"
        BY <3>1 DEF recordEnrolling, Record
      <3> QED BY <1>0, <2>1, <2>2, <3>1, <3>2, <3>3, DecideTyped DEF SaveRecord, PC
    <2>3. CASE CreateObject(rec[w]) /\ Return(w, "error")
      BY <1>0, <2>1, <2>3, CreateTyped, ReturnTyped DEF Result
    <2>4. CASE UNCHANGED storeVars /\ Return(w, "error")
      <3>1. StoreOK'
        BY <2>4 DEF storeVars, StoreOK, StoreTypeOK
      <3> QED BY <1>0, <2>1, <2>4, <3>1, ReturnTyped DEF Result
    <2> QED BY <1>7, <2>2, <2>3, <2>4 DEF Create
  <1>8. CASE Save(w)
    <2>1. ServerTypeOK' /\ RequestsOK' /\ EnvironmentOK' /\ HistoryOK' /\ UNCHANGED cfg
      BY <1>8 DEF Save, serverVars, requestVars, environmentVars, historyVars,
                  ServerTypeOK, RequestsOK, EnvironmentOK, HistoryOK
    <2>2. pc[w] \notin {"idle", "report"} /\ rec[w].id \in Txn /\ out[w] \in Result \cup {"none", "exchange", "confirm"}
      BY <1>8 DEF Save, WorkersOK, WorkerOK, Holding
    <2>3. StoreOK'
      <3>1. CASE UpdateStatus(rec[w])
        BY <1>0, <2>2, <3>1, UpdateTyped
      <3>2. CASE UNCHANGED storeVars
        BY <3>2 DEF storeVars, StoreOK, StoreTypeOK
      <3> QED BY <1>8, <3>1, <3>2 DEF Save
    <2>4. CASE out[w] \in {"exchange", "confirm"} /\ Continue(w, out[w], Updated(rec[w]))
      <3>1. Updated(rec[w]) \in Record /\ Updated(rec[w]).id \in Txn
        BY <1>0, <2>2, StatusKeepsIdentity, SMT DEF Updated, Record
      <3>2. out[w] = "exchange" => Updated(rec[w]).phase # "Confirming"
        BY <1>0, <1>8 DEF Save, WorkersOK, WorkerOK, Updated, Record
      <3> QED BY <1>0, <2>1, <2>2, <2>3, <2>4, <3>1, <3>2, DecideTyped DEF Continue, PC
    <2>5. ASSUME NEW o \in Result \cup {"none", "exchange", "confirm"}, Return(w, o) PROVE Typed'
      BY <1>0, <2>1, <2>2, <2>3, <2>5, ReturnTyped
    <2> QED BY <1>8, <2>2, <2>4, <2>5 DEF Save, Result
  <1>9. ASSUME pc[w] \in {"exchange", "confirm"}, MayExchange(w) \/ MayConfirm(w), Send(w),
               Polls(rec[w]) => rec[w].polls < MaximumPolls
        PROVE  Typed'
    <2>1. StoreOK' /\ ServerTypeOK' /\ RequestsOK' /\ EnvironmentOK' /\ UNCHANGED cfg
      BY <1>9 DEF Send, storeVars, serverVars, requestVars, environmentVars, historyVars, StoreOK,
                  StoreTypeOK, ServerTypeOK, RequestsOK, EnvironmentOK, HistoryOK
    <2>2. pc[w] \notin {"idle", "report"} /\ rec[w].id \in Txn /\ req[w] \in Uid
      BY <1>9 DEF WorkersOK, WorkerOK, Holding
    <2>3. HistoryOK'
      <3>1. [id |-> rec[w].id, uid |-> req[w], issuer |-> iss[w], config |-> cfg[w]] \in Origin
        BY <1>0, <2>2 DEF Origin
      <3> QED BY <1>9, <2>2, <3>1 DEF HistoryOK, Send
    <2>4. WorkersOK'
      BY <1>0, <1>9, <2>1, <2>2, DecideTyped DEF Send, Continue, PC
    <2> QED BY <2>1, <2>3, <2>4
  <1>10. ASSUME pc[w] \in {"exchange", "confirm"}, FailBeforeSending(w) PROVE Typed'
    <2>1. /\ StoreOK' /\ ServerTypeOK' /\ RequestsOK' /\ EnvironmentOK' /\ HistoryOK' /\ UNCHANGED cfg
          /\ FailTransaction(w, rec[w])
      BY <1>10 DEF FailBeforeSending, storeVars, serverVars, requestVars, environmentVars,
           historyVars, StoreOK, StoreTypeOK, ServerTypeOK, RequestsOK, EnvironmentOK, HistoryOK
    <2>2. pc[w] \notin {"idle", "report"} /\ rec[w].id \in Txn
      BY <1>10 DEF WorkersOK, WorkerOK, Holding
    <2> QED BY <1>0, <2>1, <2>2, FailTyped
  <1>11. CASE Exchange(w)
    <2>1. MayExchange(w) /\ pc[w] = "exchange" => (Polls(rec[w]) => rec[w].polls < MaximumPolls)
      BY DEF MayExchange, Polls, WorkersOK, WorkerOK
    <2> QED BY <1>9, <1>10, <1>11, <2>1 DEF Exchange
  <1>12. CASE Confirm(w)
    BY <1>9, <1>10, <1>12 DEF Confirm, MayConfirm
  <1>13. ASSUME pc[w] = "await"
         PROVE  /\ Outgoing(rec[w]) \in Message /\ rec[w].id \in Txn
                /\ pc[w] \notin {"idle", "report"}
    BY <1>0, <1>13, OutgoingTyped DEF WorkersOK, WorkerOK, Holding
  <1>14. CASE Answered(w)
    <2>1. StoreOK' /\ RequestsOK' /\ EnvironmentOK' /\ HistoryOK' /\ UNCHANGED <<cfg, late>> /\ pc[w] = "await"
      BY <1>14 DEF Answered, storeVars, serverVars, requestVars, environmentVars, historyVars,
           StoreOK, StoreTypeOK, ServerTypeOK, RequestsOK, EnvironmentOK, HistoryOK
    <2>2. PICK a \in Answers(Outgoing(rec[w])) : Serve(Outgoing(rec[w]), a) /\ Accept(w, a.reply)
      BY <1>14 DEF Answered
    <2>3. srv' \in [Txn -> ServerState] /\ a.reply \in Reply
      BY <1>13, <2>1, <2>2, ServeTyped
    <2>4. WorkersOK'
      BY <2>1, <2>2, <2>3, AcceptTyped
    <2> QED BY <2>1, <2>3, <2>4 DEF ServerTypeOK
  <1>15. CASE Refuse(w)
    <2>1. /\ StoreOK' /\ RequestsOK' /\ EnvironmentOK' /\ HistoryOK' /\ UNCHANGED cfg
          /\ pc[w] = "await" /\ FailTransaction(w, rec[w])
      BY <1>15 DEF Refuse, storeVars, serverVars, requestVars, environmentVars, historyVars,
           StoreOK, StoreTypeOK, ServerTypeOK, RequestsOK, EnvironmentOK, HistoryOK
    <2>2. PICK a \in Answers(Outgoing(rec[w])) :
             /\ Serve(Outgoing(rec[w]), a)
             /\ \/ UNCHANGED late
                \/ /\ a.reply.kind = "granted"
                   /\ late' \in WithLate([id |-> rec[w].id, kind |-> "reject", cert |-> a.reply.cert])
      BY <1>15 DEF Refuse
    <2>3. srv' \in [Txn -> ServerState] /\ a.reply \in Reply
      BY <1>13, <2>1, <2>2, ServeTyped
    <2>4. late' \subseteq Message
      <3>1. [id |-> rec[w].id, kind |-> "reject", cert |-> a.reply.cert] \in Message
        BY <1>13, <2>1, <2>3 DEF Message, Reply
      <3> QED BY <2>2, <3>1 DEF WithLate, ServerTypeOK
    <2>5. WorkersOK'
      BY <1>0, <1>13, <2>1, FailTyped
    <2> QED BY <2>1, <2>3, <2>4, <2>5 DEF ServerTypeOK
  <1>16. CASE NoAnswer(w)
    <2>1. /\ StoreOK' /\ RequestsOK' /\ EnvironmentOK' /\ HistoryOK' /\ UNCHANGED cfg
          /\ pc[w] = "await" /\ Return(w, "pending") /\ Abandon(Outgoing(rec[w]))
      BY <1>16 DEF NoAnswer, storeVars, serverVars, requestVars, environmentVars, historyVars,
           StoreOK, StoreTypeOK, ServerTypeOK, RequestsOK, EnvironmentOK, HistoryOK
    <2>2. ServerTypeOK'
      BY <1>13, <2>1, AbandonTyped
    <2>3. WorkersOK'
      BY <1>0, <1>13, <2>1, ReturnTyped DEF Result
    <2> QED BY <2>1, <2>2, <2>3
  <1>17. CASE Remove(w)
    <2>1. ServerTypeOK' /\ RequestsOK' /\ EnvironmentOK' /\ HistoryOK' /\ UNCHANGED cfg
      BY <1>17 DEF Remove, serverVars, requestVars, environmentVars, historyVars,
                   ServerTypeOK, RequestsOK, EnvironmentOK, HistoryOK
    <2>2. /\ pc[w] \notin {"idle", "report"} /\ rec[w].id \in Txn
          /\ out[w] \in Result \cup {"none", "exchange", "confirm"}
      BY <1>17 DEF Remove, WorkersOK, WorkerOK, Holding
    <2>3. StoreOK'
      <3>1. CASE DeleteObject(rec[w])
        BY <1>0, <2>2, <3>1, DeleteTyped
      <3>2. CASE UNCHANGED storeVars
        BY <3>2 DEF storeVars, StoreOK, StoreTypeOK
      <3> QED BY <1>17, <3>1, <3>2 DEF Remove
    <2>4. ASSUME NEW o \in Result \cup {"none", "exchange", "confirm"}, Return(w, o) PROVE Typed'
      BY <1>0, <2>1, <2>2, <2>3, <2>4, ReturnTyped
    <2> QED BY <1>17, <2>2, <2>4 DEF Remove, Result
  <1>18. CASE Report(w)
    <2>1. StoreOK' /\ ServerTypeOK' /\ EnvironmentOK' /\ HistoryOK' /\ UNCHANGED seen /\ Reset(w)
      BY <1>18 DEF Report, storeVars, serverVars, requestVars, environmentVars, historyVars,
           StoreOK, StoreTypeOK, ServerTypeOK, RequestsOK, EnvironmentOK, HistoryOK
    <2>2. WorkersOK'
      BY <2>1, ResetTyped
    <2>3. cr' \in CertificateRequest
      <3>1. rec[w].id \in 0..MaxTxn /\ rec[w].chain \in 0..MaxCert
        BY <1>0 DEF Record
      <3> QED BY <1>18, <3>1 DEF Report, RequestsOK, CertificateRequest, RequestState
    <2> QED BY <2>1, <2>2, <2>3 DEF RequestsOK
  <1> QED BY <1>1, <1>2, <1>3, <1>4, <1>5, <1>6, <1>7, <1>8, <1>11, <1>12, <1>14, <1>15, <1>16,
             <1>17, <1>18 DEF WorkerStep

\* Crashes, late requests, users and time keep the state well formed.
LEMMA EnvironmentTyped ==
  ASSUME Typed, Environment
  PROVE  Typed'
  <1> USE DEF Typed
  <1>1. ASSUME NEW w \in Worker, Crash(w) PROVE Typed'
    <2>1. StoreOK' /\ EnvironmentOK' /\ HistoryOK' /\ UNCHANGED cr /\ Reset(w)
      BY <1>1 DEF Crash, storeVars, serverVars, requestVars, environmentVars, historyVars, StoreOK,
                  StoreTypeOK, ServerTypeOK, RequestsOK, EnvironmentOK, HistoryOK
    <2>2. WorkersOK'
      BY <2>1, ResetTyped
    <2>3. RequestsOK'
      BY <1>1 DEF Crash, RequestsOK, Cached, CertificateRequest
    <2>4. ServerTypeOK'
      <3>1. CASE pc[w] = "await"
        <4>1. Outgoing(rec[w]) \in Message
          BY <3>1, OutgoingTyped DEF WorkersOK, WorkerOK, Holding
        <4> QED BY <1>1, <3>1, <4>1, AbandonTyped DEF Crash
      <3>2. CASE pc[w] # "await"
        BY <1>1, <3>2 DEF Crash, serverVars, ServerTypeOK
      <3> QED BY <3>1, <3>2
    <2> QED BY <2>1, <2>2, <2>3, <2>4
  <1>2. ASSUME UNCHANGED workerVars PROVE WorkersOK'
    BY <1>2 DEF workerVars, WorkersOK, WorkerOK, Polls
  <1>3. ASSUME NEW w \in Worker, Informer(w) PROVE Typed'
    <2>1. WorkersOK' /\ StoreOK' /\ ServerTypeOK' /\ EnvironmentOK' /\ HistoryOK'
      BY <1>2, <1>3 DEF Informer, storeVars, serverVars, requestVars, environmentVars,
           historyVars, StoreOK, StoreTypeOK, ServerTypeOK, RequestsOK, EnvironmentOK, HistoryOK
    <2>2. RequestsOK'
      BY <1>3 DEF Informer, RequestsOK, Cached, CertificateRequest
    <2> QED BY <2>1, <2>2
  <1>4. CASE ServeLate
    <2>1. WorkersOK' /\ StoreOK' /\ RequestsOK' /\ EnvironmentOK' /\ HistoryOK'
      BY <1>2, <1>4 DEF ServeLate, storeVars, serverVars, requestVars, environmentVars,
           historyVars, StoreOK, StoreTypeOK, ServerTypeOK, RequestsOK, EnvironmentOK, HistoryOK
    <2>2. PICK m \in late : (\E a \in Answers(m) : Serve(m, a)) /\ late' = late \ {m}
      BY <1>4 DEF ServeLate, LateRequest
    <2>3. m \in Message
      BY DEF ServerTypeOK
    <2>4. ServerTypeOK'
      BY <2>2, <2>3, ServeTyped DEF ServerTypeOK
    <2> QED BY <2>1, <2>4
  <1>5. CASE Expire
    <2>1. WorkersOK' /\ StoreOK' /\ ServerTypeOK' /\ RequestsOK' /\ HistoryOK'
      BY <1>2, <1>5 DEF Expire, storeVars, serverVars, requestVars, environmentVars, historyVars,
           StoreOK, StoreTypeOK, ServerTypeOK, RequestsOK, EnvironmentOK, HistoryOK
    <2>2. EnvironmentOK'
      <3>1. store.id \in Txn
        BY <1>5, BoundsAssumption, SMT DEF Expire, StoreOK, StoreTypeOK, Record, Txn
      <3>2. expired' = expired \cup {store.id} /\ UNCHANGED <<issuer, rotation>>
        BY <1>5 DEF Expire
      <3> QED BY <3>1, <3>2 DEF EnvironmentOK
    <2> QED BY <2>1, <2>2
  <1>6. CASE ChangeIssuer \/ RotateSecrets
    <2>1. WorkersOK' /\ StoreOK' /\ ServerTypeOK' /\ RequestsOK' /\ HistoryOK'
      BY <1>2, <1>6 DEF ChangeIssuer, RotateSecrets, storeVars, serverVars, requestVars,
           environmentVars, historyVars, StoreOK, StoreTypeOK, ServerTypeOK, RequestsOK,
           EnvironmentOK, HistoryOK
    <2>2. EnvironmentOK'
      BY <1>6, BoundsAssumption, SMT DEF ChangeIssuer, RotateSecrets, EnvironmentOK, Version
    <2> QED BY <2>1, <2>2
  <1>7. CASE DeleteRequest \/ CreateRequest
    <2>1. WorkersOK' /\ StoreOK' /\ ServerTypeOK' /\ EnvironmentOK' /\ HistoryOK'
      BY <1>2, <1>7 DEF DeleteRequest, CreateRequest, storeVars, serverVars, requestVars,
           environmentVars, historyVars, StoreOK, StoreTypeOK, ServerTypeOK, RequestsOK,
           EnvironmentOK, HistoryOK
    <2>2. RequestsOK'
      <3>1. CASE DeleteRequest
        <4>1. 0 \in 0..MaxTxn /\ 0 \in 0..MaxCert
          BY BoundsAssumption, SMT
        <4> QED BY <3>1, <4>1 DEF DeleteRequest, RequestsOK, CertificateRequest, RequestState
      <3>2. CASE CreateRequest
        <4>1. cr.uid + 1 \in Uid
          BY <3>2, BoundsAssumption, SMT DEF CreateRequest, RequestsOK, CertificateRequest, Uid
        <4> QED BY <3>2, <4>1 DEF CreateRequest, RequestsOK, CertificateRequest, RequestState
      <3> QED BY <1>7, <3>1, <3>2
    <2> QED BY <2>1, <2>2
  <1>8. CASE CollectGarbage
    <2>1. WorkersOK' /\ ServerTypeOK' /\ RequestsOK' /\ EnvironmentOK' /\ HistoryOK'
      BY <1>2, <1>8 DEF CollectGarbage, storeVars, serverVars, requestVars, environmentVars,
           historyVars, StoreOK, StoreTypeOK, ServerTypeOK, RequestsOK, EnvironmentOK, HistoryOK
    <2>2. store \in Record /\ store.id \in Txn /\ DeleteObject(store)
      BY <1>8, BoundsAssumption, SMT DEF CollectGarbage, Ownerless, StoreOK, StoreTypeOK, Record,
           Txn
    <2> QED BY <2>1, <2>2, DeleteTyped
  <1> QED BY <1>1, <1>3, <1>4, <1>5, <1>6, <1>7, <1>8 DEF Environment

\* The strengthened type invariant holds initially, and every step keeps it.
THEOREM TypedInvariant == Spec => []Typed
  <1>1. Init => Typed
    <2> SUFFICES ASSUME Init PROVE Typed
      OBVIOUS
    <2>1. WorkersOK
      BY BoundsAssumption, NoRecordType, SMT DEF Init, WorkersOK, WorkerOK, PC, Version, Holding
    <2>2. StoreOK
      BY BoundsAssumption, NoRecordType, SMT DEF Init, StoreInit, StoreOK, StoreTypeOK
    <2>3. ServerTypeOK
      BY BoundsAssumption, SMT DEF Init, ServerInit, ServerTypeOK, ServerState
    <2>4. RequestsOK
      BY BoundsAssumption, SMT DEF Init, RequestsOK, CertificateRequest, RequestState, Uid
    <2>5. EnvironmentOK /\ HistoryOK
      BY BoundsAssumption, SMT DEF Init, EnvironmentOK, HistoryOK, Version
    <2> QED BY <2>1, <2>2, <2>3, <2>4, <2>5 DEF Typed
  <1>2. Typed /\ [Next]_vars => Typed'
    <2> SUFFICES ASSUME Typed, [Next]_vars PROVE Typed'
      OBVIOUS
    <2>1. CASE Next
      BY <2>1, WorkerStepTyped, EnvironmentTyped DEF Next
    <2>2. CASE UNCHANGED vars
      BY <2>2 DEF vars, workerVars, storeVars, serverVars, requestVars, environmentVars,
           historyVars, StoreOK, StoreTypeOK, ServerTypeOK, RequestsOK, EnvironmentOK, HistoryOK,
           Typed, WorkersOK, WorkerOK, Polls
    <2> QED BY <2>1, <2>2
  <1> QED BY <1>1, <1>2, PTL DEF Spec

\* Every reachable state has the types that the code's structures give it; in
\* particular the recorded poll count never exceeds maximumPolls.
THEOREM TypeCorrect == Spec => []TypeOK
  <1>1. Typed => TypeOK
    BY DEF Typed, TypeOK, WorkersOK, StoreOK, RequestsOK, EnvironmentOK, HistoryOK
  <1> QED BY <1>1, TypedInvariant, PTL

-----------------------------------------------------------------------------
(* One open transaction. *)

\* The transactions that are recorded, or were and are closed.
Known == closed \cup {store.id, 0}

\* The inductive strengthening of OneOpenTransaction: what a worker holds is
\* known as well, so that whatever it sends is.
OpenInv ==
    /\ OneOpenTransaction
    /\ \A w \in Worker : rec[w].id \in Known

\* A write to the store forgets no transaction.
LEMMA StoreRemembers ==
  ASSUME StoreOK, NEW r \in Record,
         \/ CreateObject(r) \/ UpdateStatus(r) \/ DeleteObject(r) \/ UNCHANGED storeVars
  PROVE  Known \subseteq Known'
  <1>1. CASE CreateObject(r)
    BY <1>1 DEF CreateObject, Known, NoRecord
  <1>2. CASE UpdateStatus(r)
    <2>1. store'.id = store.id
      BY <1>2, StatusKeepsIdentity DEF UpdateStatus, Current
    <2> QED BY <1>2, <2>1 DEF UpdateStatus, Known
  <1>3. CASE DeleteObject(r)
    BY <1>3 DEF DeleteObject, Known
  <1>4. CASE UNCHANGED storeVars
    BY <1>4 DEF storeVars, Known
  <1> QED BY <1>1, <1>2, <1>3, <1>4

\* A worker that moves inside Sign holds the record it held, the recorded one
\* or none; the others hold what they held.
LEMMA DecideHolds ==
  ASSUME WorkersOK, NEW w \in Worker, NEW p, NEW o, NEW r, Decide(w, p, o, r),
         NEW S, r.id \in S, \A v \in Worker : rec[v].id \in S
  PROVE  \A v \in Worker : rec'[v].id \in S
  BY DEF WorkersOK, Decide

\* The steps of a worker keep OpenInv.
LEMMA WorkerStepOpen ==
  ASSUME Typed, Typed', OpenInv, NEW w \in Worker, WorkerStep(w)
  PROVE  OpenInv'
  <1>0. WorkersOK /\ StoreOK /\ rec[w] \in Record /\ store \in Record /\ NoRecord.id = 0
    BY DEF Typed, WorkersOK, StoreOK, StoreTypeOK, NoRecord
  <1>1. ASSUME Known \subseteq Known', \A v \in Worker : rec'[v].id \in Known',
               \A x \in sent' : x \in sent \/ x.id = rec[w].id
        PROVE  OpenInv'
    <2>1. \A x \in sent' : x.id \in Known'
      BY <1>1 DEF OpenInv, OneOpenTransaction, Known
    <2>2. \A x \in sent' : x.id # 0
      BY BoundsAssumption, SMT DEF Typed, HistoryOK, Origin, Txn
    <2> QED BY <1>1, <2>1, <2>2 DEF OpenInv, OneOpenTransaction, Known
  <1>2. ASSUME Known \subseteq Known', UNCHANGED sent, NEW p, NEW o, NEW r, Decide(w, p, o, r), r.id \in Known'
        PROVE  OpenInv'
    <2>1. \A v \in Worker : rec[v].id \in Known'
      BY <1>2 DEF OpenInv
    <2>2. \A v \in Worker : rec'[v].id \in Known'
      BY <1>0, <1>2, <2>1, DecideHolds
    <2> QED BY <1>1, <1>2, <2>2
  <1>3. rec[w].id \in Known /\ store.id \in Known /\ 0 \in Known
    BY DEF OpenInv, Known
  <1>4. ASSUME Known \subseteq Known', UNCHANGED sent, NEW o, Return(w, o) PROVE OpenInv'
    BY <1>0, <1>2, <1>3, <1>4 DEF Return
  <1>5. ASSUME UNCHANGED storeVars PROVE Known \subseteq Known'
    BY <1>5 DEF storeVars, Known
  <1>6. CASE Sign(w)
    <2>1. UNCHANGED <<rec, sent>> /\ Known \subseteq Known'
      BY <1>5, <1>6 DEF Sign, historyVars
    <2> QED BY <1>1, <2>1 DEF OpenInv
  <1>7. CASE Load(w)
    <2>1. UNCHANGED sent /\ Known \subseteq Known'
      BY <1>5, <1>7 DEF Load, historyVars
    <2> QED BY <1>0, <1>2, <1>3, <1>4, <1>7, <2>1 DEF Load, Resume, Continue, FailTransaction
  <1>8. CASE DropStale(w)
    <2>1. UNCHANGED sent /\ Known \subseteq Known'
      BY <1>0, <1>8, StoreRemembers DEF DropStale, historyVars
    <2> QED BY <1>0, <1>2, <1>3, <1>4, <1>8, <2>1 DEF DropStale, Continue
  <1>9. CASE Recover(w)
    <2>1. UNCHANGED sent /\ Known \subseteq Known'
      BY <1>5, <1>9 DEF Recover, historyVars
    <2> QED BY <1>0, <1>2, <1>3, <1>4, <1>9, <2>1 DEF Recover, FailTransaction
  <1>10. CASE ConfigureNew(w)
    <2>1. UNCHANGED sent /\ Known \subseteq Known'
      BY <1>5, <1>10 DEF ConfigureNew, historyVars
    <2>2. ASSUME NEW s, Continue(w, "create",
                      [NoRecord EXCEPT !.uid = req[w], !.issuer = iss[w], !.digest = rotation,
                                       !.operation = s.operation, !.fallback = s.fallback])
          PROVE  OpenInv'
      <3> DEFINE d == [NoRecord EXCEPT !.uid = req[w], !.issuer = iss[w], !.digest = rotation,
                                       !.operation = s.operation, !.fallback = s.fallback]
      <3>1. d.id = 0
        BY DEF NoRecord
      <3> QED BY <1>2, <1>3, <2>1, <2>2, <3>1 DEF Continue
    <2> QED BY <1>4, <1>10, <2>1, <2>2 DEF ConfigureNew
  <1>11. CASE ConfigureResumed(w)
    <2>1. UNCHANGED sent /\ Known \subseteq Known'
      BY <1>5, <1>11 DEF ConfigureResumed, historyVars
    <2> QED BY <1>0, <1>2, <1>3, <1>4, <1>11, <2>1 DEF ConfigureResumed, FailTransaction, Continue
  <1>12. CASE Create(w)
    <2>1. UNCHANGED sent /\ Known \subseteq Known'
      BY <1>0, <1>12, StoreRemembers DEF Create, historyVars
    <2>2. CASE CreateObject(rec[w]) /\ SaveRecord(w, "exchange", recordEnrolling(NewRecord(rec[w])))
      <3>1. NewRecord(rec[w]) \in Record /\ store' = NewRecord(rec[w])
        BY <1>0, <2>2, CreateTyped DEF CreateObject
      <3>2. recordEnrolling(NewRecord(rec[w])).id \in Known'
        BY <3>1, StatusKeepsIdentity DEF Known
      <3> QED BY <1>2, <2>1, <2>2, <3>2 DEF SaveRecord
    <2> QED BY <1>4, <1>12, <2>1, <2>2 DEF Create
  <1>13. CASE Save(w)
    <2>1. UNCHANGED sent /\ Known \subseteq Known'
      BY <1>0, <1>13, StoreRemembers DEF Save, historyVars
    <2>2. Updated(rec[w]).id = rec[w].id
      BY <1>0, StatusKeepsIdentity
    <2> QED BY <1>2, <1>3, <1>4, <1>13, <2>1, <2>2 DEF Save, Continue
  <1>14. CASE Exchange(w) \/ Confirm(w)
    <2>1. CASE Send(w)
      <3>1. Known \subseteq Known' /\ Decide(w, "await", "none", rec[w])
        BY <1>5, <2>1 DEF Send, Continue
      <3>2. \A v \in Worker : rec[v].id \in Known'
        BY <3>1 DEF OpenInv
      <3>3. \A v \in Worker : rec'[v].id \in Known'
        BY <1>0, <3>1, <3>2, DecideHolds
      <3>4. \A x \in sent' : x \in sent \/ x.id = rec[w].id
        BY <2>1, SMT DEF Send
      <3> QED BY <1>1, <3>1, <3>3, <3>4
    <2>2. CASE FailBeforeSending(w)
      <3>1. UNCHANGED sent /\ Known \subseteq Known'
        BY <1>5, <2>2 DEF FailBeforeSending, historyVars
      <3> QED BY <1>2, <1>3, <2>2, <3>1 DEF FailBeforeSending, FailTransaction
    <2> QED BY <1>14, <2>1, <2>2 DEF Exchange, Confirm
  <1>15. CASE Answered(w)
    <2>1. UNCHANGED sent /\ Known \subseteq Known'
      BY <1>5, <1>15 DEF Answered, historyVars
    <2>2. PICK a : Accept(w, a.reply) /\ a.reply \in Reply
      <3>1. PICK a \in Answers(Outgoing(rec[w])) : Serve(Outgoing(rec[w]), a) /\ Accept(w, a.reply)
        BY <1>15 DEF Answered
      <3>2. Outgoing(rec[w]) \in Message
        BY <1>0, <1>15, OutgoingTyped DEF Answered, WorkersOK, WorkerOK, Holding
      <3> QED BY <3>1, <3>2, ServeTyped DEF Typed
    <2>3. \A c, n, q :
             /\ recordPending(Counted(rec[w]), n).id = rec[w].id
             /\ recordConfirming(rec[w], c, n, q).id = rec[w].id
             /\ recordConfirming(Counted(rec[w]), c, n, q).id = rec[w].id
             /\ recordIssued(rec[w], c).id = rec[w].id
      BY <1>0 DEF recordPending, recordConfirming, recordIssued, Counted, Record
    <2>4. ASSUME NEW o, NEW r, SaveRecord(w, o, r), r.id = rec[w].id PROVE OpenInv'
      BY <1>2, <1>3, <2>1, <2>4 DEF SaveRecord
    <2>5. CASE FailTransaction(w, rec[w])
      BY <1>2, <1>3, <2>1, <2>5 DEF FailTransaction
    <2>6. CASE a.reply.kind = "waiting"
      BY <2>2, <2>3, <2>4, <2>6 DEF Accept
    <2>7. CASE a.reply.kind = "granted"
      BY <2>2, <2>3, <2>4, <2>7 DEF Accept
    <2>8. CASE a.reply.kind \in {"implicit", "pkiConf"}
      BY <2>2, <2>3, <2>4, <2>8 DEF Accept
    <2>9. CASE a.reply.kind = "confWaiting"
      BY <2>2, <2>3, <2>4, <2>9 DEF Accept
    <2>10. CASE a.reply.kind = "permanent"
      BY <2>2, <2>5, <2>10 DEF Accept
    <2>11. CASE a.reply.kind = "retryable"
      BY <1>4, <2>1, <2>2, <2>11 DEF Accept
    <2> QED BY <2>2, <2>6, <2>7, <2>8, <2>9, <2>10, <2>11 DEF Reply
  <1>16. CASE Refuse(w)
    <2>1. UNCHANGED sent /\ Known \subseteq Known' /\ FailTransaction(w, rec[w])
      BY <1>5, <1>16 DEF Refuse, historyVars
    <2> QED BY <1>2, <1>3, <2>1 DEF FailTransaction
  <1>17. CASE NoAnswer(w)
    <2>1. UNCHANGED sent /\ Known \subseteq Known' /\ Return(w, "pending")
      BY <1>5, <1>17 DEF NoAnswer, historyVars
    <2> QED BY <1>4, <2>1
  <1>18. CASE Remove(w)
    <2>1. UNCHANGED sent /\ Known \subseteq Known'
      BY <1>0, <1>18, StoreRemembers DEF Remove, historyVars
    <2> QED BY <1>4, <1>18, <2>1 DEF Remove
  <1>19. CASE Report(w)
    <2>1. UNCHANGED sent /\ Known \subseteq Known' /\ Reset(w)
      BY <1>5, <1>19 DEF Report, historyVars
    <2>2. \A v \in Worker : rec'[v].id \in Known'
      BY <1>0, <2>1, <1>3 DEF Reset, OpenInv, WorkersOK
    <2> QED BY <1>1, <2>1, <2>2
  <1> QED BY <1>6, <1>7, <1>8, <1>9, <1>10, <1>11, <1>12, <1>13, <1>14, <1>15, <1>16, <1>17,
             <1>18, <1>19 DEF WorkerStep

\* So do crashes, late requests, users, time and the garbage collector.
LEMMA EnvironmentOpen ==
  ASSUME Typed, Typed', OpenInv, Environment
  PROVE  OpenInv'
  <1>1. UNCHANGED sent
    BY DEF Environment, Crash, Informer, ServeLate, Expire, ChangeIssuer, RotateSecrets,
           DeleteRequest, CreateRequest, CollectGarbage, historyVars
  <1>2. Known \subseteq Known'
    <2>1. CASE CollectGarbage
      BY <2>1, StoreRemembers DEF CollectGarbage, Typed, StoreOK, StoreTypeOK
    <2>2. CASE UNCHANGED storeVars
      BY <2>2 DEF storeVars, Known
    <2> QED BY <2>1, <2>2 DEF Environment, Crash, Informer, ServeLate, Expire, ChangeIssuer,
                              RotateSecrets, DeleteRequest, CreateRequest
  <1>3. \A v \in Worker : rec'[v].id \in Known'
    <2>1. CASE \E w \in Worker : Reset(w)
      <3>1. NoRecord.id = 0 /\ 0 \in Known'
        BY DEF NoRecord, Known
      <3> QED BY <1>2, <2>1, <3>1, SMT DEF Reset, OpenInv, Typed, WorkersOK
    <2>2. CASE UNCHANGED rec
      BY <1>2, <2>2 DEF OpenInv
    <2> QED BY <2>1, <2>2 DEF Environment, Crash, Informer, ServeLate, Expire, ChangeIssuer,
                              RotateSecrets, DeleteRequest, CreateRequest, CollectGarbage,
                              workerVars
  <1>4. \A x \in sent' : x.id \in Known' /\ x.id # 0
    BY <1>1, <1>2, BoundsAssumption, SMT
       DEF OpenInv, OneOpenTransaction, Known, Typed, HistoryOK, Origin, Txn
  <1> QED BY <1>3, <1>4 DEF OpenInv, OneOpenTransaction, Known

\* What is sent for, and what is held, stays known.
THEOREM OpenInvariant == Spec => []OpenInv
  <1>1. Init => OpenInv
    BY DEF Init, StoreInit, OpenInv, OneOpenTransaction, Known, NoRecord
  <1>2. Typed /\ Typed' /\ OpenInv /\ [Next]_vars => OpenInv'
    <2> SUFFICES ASSUME Typed, Typed', OpenInv, [Next]_vars PROVE OpenInv'
      OBVIOUS
    <2>1. CASE Next
      BY <2>1, WorkerStepOpen, EnvironmentOpen DEF Next
    <2>2. CASE UNCHANGED vars
      BY <2>2 DEF vars, storeVars, workerVars, historyVars, OpenInv, OneOpenTransaction, Known
    <2> QED BY <2>1, <2>2
  <1> QED BY <1>1, <1>2, TypedInvariant, PTL DEF Spec

\* For any number of controller processes, requests and transactions: a message
\* is only ever sent for a transaction that is recorded or was closed under its
\* own identity, so that no crash or interleaving hides an open transaction.
THEOREM OneOpenTransactionHolds == Spec => []OneOpenTransaction
  <1>1. OpenInv => OneOpenTransaction
    BY DEF OpenInv
  <1> QED BY <1>1, OpenInvariant, PTL
=============================================================================
