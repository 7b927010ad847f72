---------------------------- MODULE SafetyProofs ----------------------------
(***************************************************************************)
(* What Signer promises: an issued request holds a confirmed certificate,  *)
(* a transaction is bound to one request, issuer version and set of        *)
(* Secrets, and both together make Signer implement Issuance.              *)
(***************************************************************************)
EXTENDS SignerProofs

\* The steps are first-order, up to those that name another prover.
USE Zenon

-----------------------------------------------------------------------------
(* An issued request holds a confirmed certificate. *)

\* Server state s holds certificate c of transaction t as confirmed.
ConfirmedIn(s, t, c) == t \in Txn /\ s[t] = [state |-> "confirmed", cert |-> c]

\* The messages of history h include one of transaction t for request u.
SentIn(h, t, u) == \E o \in h : o.id = t /\ o.uid = u

\* A record in phase Issued tells the truth.
Truthful(s, h, r) ==
    r.phase = "Issued" => ConfirmedIn(s, r.id, r.chain) /\ SentIn(h, r.id, r.uid)

\* Where the record a worker holds is that of the request it signs.
Own == {"recover", "create", "save", "exchange", "confirm", "await"}

\* What TruthInv says of a worker at p with outcome o, record copy r and request u.
Consistent(s, h, p, o, r, u) ==
    /\ Truthful(s, h, r)
    /\ p \in Own => r.uid = u
    /\ p = "configure" /\ r # NoRecord => r.uid = u
    /\ p = "recover" => r.phase = "Issued"
    /\ p = "await" => SentIn(h, r.id, r.uid)
    /\ p = "remove" => o = "permanent"
    /\ p \in {"save", "report"} /\ o = "signed" => r.phase = "Issued" /\ r.uid = u

RequestTruthful ==
    cr.state = "issued" => ConfirmedIn(srv, cr.txn, cr.cert) /\ SentIn(sent, cr.txn, cr.uid)

\* The inductive strengthening of IssuedIsConfirmed.
TruthInv ==
    /\ Truthful(srv, sent, store)
    /\ \A w \in Worker : Consistent(srv, sent, pc[w], out[w], rec[w], req[w])
    /\ RequestTruthful

\* No answer takes back a confirmation.
LEMMA ConfirmedStable ==
  ASSUME ServerTypeOK, NEW m \in Message, NEW a, Serve(m, a), NEW t, NEW c, ConfirmedIn(srv, t, c)
  PROVE  ConfirmedIn(srv', t, c)
  <1> DEFINE s == srv[m.id]
  <1>1. CASE m.id # t
    BY <1>1 DEF Serve, ConfirmedIn, ServerTypeOK, Message
  <1>2. CASE m.id = t
    <2>1. s = [state |-> "confirmed", cert |-> c] /\ s.state = "confirmed" /\ s.cert = c
      BY <1>2, SMT DEF ConfirmedIn
    <2>2. \A x \in Errors(s) : x.srv = s
      BY SMT DEF Errors, Answer
    <2> HIDE DEF s
    <2>3. RejectionAnswers(s, m.cert) = {}
      <3>1. s # [state |-> "issued", cert |-> m.cert]
        BY <2>1, SMT
      <3> QED BY <3>1 DEF RejectionAnswers
    <2>4. \A x \in CertificateAnswers(s) : x.srv = s
      <3>1. s.state \notin {"unknown", "waiting", "issued"}
        BY <2>1
      <3>2. Answer(s, "implicit", s.cert, TRUE).srv = s
        BY DEF Answer
      <3> QED BY <2>1, <3>1, <3>2 DEF CertificateAnswers
    <2>5. \A x \in ConfirmationAnswers(s, m.cert) : x.srv = s
      <3>1. \A x \in PkiConf(s) : x.srv = s
        BY <2>1, SMT DEF PkiConf, Answer
      <3> QED BY <2>1, <3>1 DEF ConfirmationAnswers
    <2>6. \/ a \in Errors(s) \/ a \in CertificateAnswers(s)
          \/ a \in ConfirmationAnswers(s, m.cert)
      BY <2>3 DEF Serve, Answers, AnswersTo, Message, s
    <2>7. a.srv = s
      BY <2>2, <2>4, <2>5, <2>6
    <2> QED BY <1>2, <2>7 DEF Serve, ConfirmedIn, ServerTypeOK, s
  <1> QED BY <1>1, <1>2

\* An answer that grants implicit confirmation, and a pkiConf to a message that
\* does not refuse the certificate, come with the server's confirmation.
LEMMA AnswerConfirms ==
  ASSUME ServerTypeOK, NEW m \in Message, NEW a, Serve(m, a), m.kind # "reject"
  PROVE  /\ a.reply.kind = "implicit" => ConfirmedIn(srv', m.id, a.reply.cert)
         /\ a.reply.kind = "pkiConf" =>
               ConfirmedIn(srv', m.id, m.cert) /\ m.kind \in {"certConf", "confPoll"}
  <1> DEFINE s == srv[m.id]
  <1>1. s \in ServerState /\ m.id \in Txn /\ srv' = [srv EXCEPT ![m.id] = a.srv] /\ srv'[m.id] = a.srv
    BY DEF ServerTypeOK, Message, Serve
  <1>2. \A x \in Errors(s) : x.reply.kind \notin {"implicit", "pkiConf"}
    BY SMT DEF Errors, Answer
  <1>3. \A x \in CertificateAnswers(s) :
           /\ x.reply.kind # "pkiConf"
           /\ x.reply.kind = "implicit" => x.srv = [state |-> "confirmed", cert |-> x.reply.cert]
    <2>1. \A x \in Waiting(s) : x.reply.kind = "waiting"
      BY SMT DEF Waiting, Answer
    <2>2. \A x \in Grant(s) :
             /\ x.reply.kind # "pkiConf"
             /\ x.reply.kind = "implicit" => x.srv = [state |-> "confirmed", cert |-> x.reply.cert]
      BY SMT DEF Grant, Answer
    <2>3. Answer(s, "granted", s.cert, TRUE).reply.kind = "granted"
      BY DEF Answer
    <2>4. s.state = "confirmed" =>
             /\ Answer(s, "implicit", s.cert, TRUE).reply.kind = "implicit"
             /\ Answer(s, "implicit", s.cert, TRUE).srv =
                   [state |-> "confirmed", cert |-> Answer(s, "implicit", s.cert, TRUE).reply.cert]
      BY <1>1, SMT DEF Answer, ServerState
    <2> QED BY <2>1, <2>2, <2>3, <2>4 DEF CertificateAnswers, Repeat
  <1>4. \A x \in ConfirmationAnswers(s, m.cert) :
           /\ x.reply.kind # "implicit"
           /\ x.reply.kind = "pkiConf" => x.srv = [state |-> "confirmed", cert |-> m.cert]
    <2>1. \A x \in PkiConf(s) : x.reply.kind = "pkiConf" /\ x.srv = [state |-> "confirmed", cert |-> s.cert]
      BY <1>1, SMT DEF PkiConf, Answer, ServerState
    <2>2. \A x \in Delay(s) : x.reply.kind = "confWaiting"
      BY SMT DEF Delay, Answer
    <2> QED BY <2>1, <2>2 DEF ConfirmationAnswers
  <1>5. \/ a \in Errors(s)
        \/ a \in CertificateAnswers(s)
        \/ a \in ConfirmationAnswers(s, m.cert) /\ m.kind \in {"certConf", "confPoll"}
    BY DEF Serve, Answers, AnswersTo, Message
  <1> QED BY <1>1, <1>2, <1>3, <1>4, <1>5 DEF ConfirmedIn

\* Confirmations and messages only accumulate.
Grows ==
    /\ \A t, c : ConfirmedIn(srv, t, c) => ConfirmedIn(srv', t, c)
    /\ sent \subseteq sent'

\* What is consistent stays so when confirmations and messages are added.
LEMMA ConsistentGrows ==
  ASSUME Grows, NEW p, NEW o, NEW r, NEW u, Consistent(srv, sent, p, o, r, u)
  PROVE  Consistent(srv', sent', p, o, r, u)
  <1>1. \A t, x : SentIn(sent, t, x) => SentIn(sent', t, x)
    BY DEF Grows, SentIn
  <1> QED BY <1>1 DEF Grows, Consistent, Truthful

\* A worker that moves to a consistent place leaves the others consistent.
LEMMA DecideConsistent ==
  ASSUME WorkersOK, TruthInv, Grows, NEW w \in Worker, NEW p, NEW o, NEW r, Decide(w, p, o, r),
         Consistent(srv', sent', p, o, r, req[w])
  PROVE  \A v \in Worker : Consistent(srv', sent', pc'[v], out'[v], rec'[v], req'[v])
  <1> SUFFICES ASSUME NEW v \in Worker
               PROVE  Consistent(srv', sent', pc'[v], out'[v], rec'[v], req'[v])
    OBVIOUS
  <1>1. CASE v = w
    <2>1. pc'[v] = p /\ out'[v] = o /\ rec'[v] = r /\ req'[v] = req[w]
      BY <1>1 DEF Decide, WorkersOK
    <2> QED BY <2>1
  <1>2. CASE v # w
    <2>1. pc'[v] = pc[v] /\ out'[v] = out[v] /\ rec'[v] = rec[v] /\ req'[v] = req[v]
      BY <1>2 DEF Decide, WorkersOK
    <2>2. Consistent(srv', sent', pc[v], out[v], rec[v], req[v])
      BY ConsistentGrows DEF TruthInv
    <2> QED BY <2>1, <2>2
  <1> QED BY <1>1, <1>2

\* So does one that forgets its locals.
LEMMA ResetConsistent ==
  ASSUME WorkersOK, TruthInv, Grows, NEW w \in Worker, Reset(w)
  PROVE  \A v \in Worker : Consistent(srv', sent', pc'[v], out'[v], rec'[v], req'[v])
  <1> SUFFICES ASSUME NEW v \in Worker
               PROVE  Consistent(srv', sent', pc'[v], out'[v], rec'[v], req'[v])
    OBVIOUS
  <1>1. CASE v = w
    <2>1. pc'[v] = "idle" /\ rec'[v] = NoRecord
      BY <1>1 DEF Reset, WorkersOK
    <2> QED BY <2>1, SMT DEF Consistent, Truthful, NoRecord, Own
  <1>2. CASE v # w
    <2>1. pc'[v] = pc[v] /\ out'[v] = out[v] /\ rec'[v] = rec[v] /\ req'[v] = req[v]
      BY <1>2 DEF Reset, WorkersOK
    <2>2. Consistent(srv', sent', pc[v], out[v], rec[v], req[v])
      BY ConsistentGrows DEF TruthInv
    <2> QED BY <2>1, <2>2
  <1> QED BY <1>1, <1>2

\* What the record operations keep of a record.
LEMMA StatusKeepsRequest ==
  ASSUME NEW r \in Record, NEW c, NEW n, NEW q
  PROVE  /\ recordPending(Counted(r), n).uid = r.uid
         /\ recordPending(Counted(r), n).phase = "Polling"
         /\ recordConfirming(r, c, n, q).uid = r.uid
         /\ recordConfirming(r, c, n, q).phase = "Confirming"
         /\ recordConfirming(Counted(r), c, n, q).uid = r.uid
         /\ recordConfirming(Counted(r), c, n, q).phase = "Confirming"
         /\ recordIssued(r, c).uid = r.uid
         /\ recordIssued(r, c).id = r.id
         /\ recordIssued(r, c).chain = c
         /\ Updated(r).uid = r.uid
         /\ Updated(r).id = r.id
         /\ Updated(r).chain = r.chain
         /\ Updated(r).phase = r.phase
  BY DEF Record, recordPending, recordConfirming, recordIssued, Updated, Counted

\* What a write to the store makes of a truthful record.
LEMMA StoreTruthful ==
  ASSUME StoreOK, NEW s, NEW h, Truthful(s, h, store), NEW r \in Record, Truthful(s, h, r),
         \/ UpdateStatus(r) \/ DeleteObject(r) \/ UNCHANGED storeVars
  PROVE  Truthful(s, h, store')
  <1>1. CASE UpdateStatus(r)
    <2>1. store' = Updated(r)
      BY <1>1 DEF UpdateStatus
    <2> QED BY <2>1, StatusKeepsRequest DEF Truthful
  <1>2. CASE DeleteObject(r)
    BY <1>2 DEF DeleteObject, Truthful, NoRecord
  <1>3. CASE UNCHANGED storeVars
    BY <1>3 DEF storeVars
  <1> QED BY <1>1, <1>2, <1>3

\* The steps of a worker that stay inside Sign and send nothing keep TruthInv.
LEMMA LocalStepTruth ==
  ASSUME Typed, TruthInv, NEW w \in Worker, UNCHANGED <<srv, sent, cr>>,
         Load(w) \/ DropStale(w) \/ Recover(w) \/ ConfigureNew(w) \/ ConfigureResumed(w)
         \/ Create(w) \/ Save(w) \/ Remove(w) \/ (pc[w] \in {"exchange", "confirm"} /\ FailBeforeSending(w))
         \/ NoAnswer(w)
  PROVE  TruthInv'
  <1>0. WorkersOK /\ StoreOK /\ rec[w] \in Record /\ store \in Record /\ NoRecord.phase # "Issued"
    BY DEF Typed, WorkersOK, StoreOK, StoreTypeOK, NoRecord
  <1>1. Grows /\ RequestTruthful'
    BY DEF Grows, TruthInv, RequestTruthful
  <1>2. /\ Truthful(srv', sent', store)
        /\ Consistent(srv', sent', pc[w], out[w], rec[w], req[w])
        /\ Truthful(srv', sent', rec[w])
        /\ Truthful(srv', sent', NoRecord)
    BY <1>0 DEF TruthInv, Consistent, Truthful
  <1>3. ASSUME Truthful(srv', sent', store'), NEW p, NEW o, NEW r, Decide(w, p, o, r),
               Consistent(srv', sent', p, o, r, req[w])
        PROVE  TruthInv'
    <2>1. \A v \in Worker : Consistent(srv', sent', pc'[v], out'[v], rec'[v], req'[v])
      BY <1>0, <1>1, <1>3, DecideConsistent
    <2> QED BY <1>1, <1>3, <2>1 DEF TruthInv
  <1>4. ASSUME Truthful(srv', sent', store'), NEW o, o # "signed", Return(w, o) PROVE TruthInv'
    <2>1. Consistent(srv', sent', "report", o, NoRecord, req[w])
      BY <1>2, <1>4 DEF Consistent, Own
    <2> QED BY <1>3, <1>4, <2>1 DEF Return
  <1>5. ASSUME Truthful(srv', sent', store'), NEW r, Truthful(srv', sent', r), FailTransaction(w, r)
        PROVE  TruthInv'
    <2>1. Consistent(srv', sent', "remove", "permanent", r, req[w])
      BY <1>5 DEF Consistent, Own
    <2> QED BY <1>3, <1>5, <2>1 DEF FailTransaction
  <1>6. ASSUME UNCHANGED storeVars PROVE Truthful(srv', sent', store')
    BY <1>2, <1>6 DEF storeVars
  <1>7. CASE Load(w)
    <2>1. Truthful(srv', sent', store')
      BY <1>6, <1>7 DEF Load
    <2>2. CASE Continue(w, "configure", NoRecord)
      <3>1. Consistent(srv', sent', "configure", "none", NoRecord, req[w])
        BY <1>2 DEF Consistent, Own
      <3> QED BY <1>3, <2>1, <2>2, <3>1 DEF Continue
    <2>3. CASE Continue(w, "dropStale", store)
      <3>1. Consistent(srv', sent', "dropStale", "none", store, req[w])
        BY <1>2 DEF Consistent, Own
      <3> QED BY <1>3, <2>1, <2>3, <3>1 DEF Continue
    <2>4. CASE store.uid = req[w] /\ Continue(w, "configure", store)
      <3>1. Consistent(srv', sent', "configure", "none", store, req[w])
        BY <1>2, <2>4 DEF Consistent, Own
      <3> QED BY <1>3, <2>1, <2>4, <3>1 DEF Continue
    <2>5. CASE store.uid = req[w] /\ store.phase = "Issued" /\ Continue(w, "recover", store)
      <3>1. Consistent(srv', sent', "recover", "none", store, req[w])
        BY <1>2, <2>5 DEF Consistent, Own
      <3> QED BY <1>3, <2>1, <2>5, <3>1 DEF Continue
    <2> QED BY <1>2, <1>4, <1>5, <1>7, <2>1, <2>2, <2>3, <2>4, <2>5 DEF Load, Resume
  <1>8. CASE DropStale(w)
    <2>1. Truthful(srv', sent', store')
      BY <1>0, <1>2, <1>8, StoreTruthful DEF DropStale
    <2>2. Consistent(srv', sent', "configure", "none", NoRecord, req[w])
      BY <1>2 DEF Consistent, Own
    <2> QED BY <1>3, <1>4, <1>8, <2>1, <2>2 DEF DropStale, Continue
  <1>9. CASE Recover(w)
    <2>1. Truthful(srv', sent', store')
      BY <1>6, <1>9 DEF Recover
    <2>2. CASE Return(w, "signed")
      <3>1. Consistent(srv', sent', "report", "signed", rec[w], req[w])
        BY <1>2, <1>9 DEF Consistent, Own, Recover
      <3> QED BY <1>3, <2>1, <2>2, <3>1 DEF Return
    <2> QED BY <1>2, <1>4, <1>5, <1>9, <2>1, <2>2 DEF Recover
  <1>10. CASE ConfigureNew(w)
    <2>1. Truthful(srv', sent', store')
      BY <1>6, <1>10 DEF ConfigureNew
    <2>2. ASSUME NEW s, Continue(w, "create",
                      [NoRecord EXCEPT !.uid = req[w], !.issuer = iss[w], !.digest = rotation,
                                       !.operation = s.operation, !.fallback = s.fallback])
          PROVE  TruthInv'
      <3> DEFINE d == [NoRecord EXCEPT !.uid = req[w], !.issuer = iss[w], !.digest = rotation,
                                       !.operation = s.operation, !.fallback = s.fallback]
      <3>1. d.uid = req[w] /\ d.phase # "Issued"
        BY DEF NoRecord
      <3> HIDE DEF d
      <3>2. Consistent(srv', sent', "create", "none", d, req[w])
        BY <3>1 DEF Consistent, Truthful, Own
      <3> QED BY <1>3, <2>1, <2>2, <3>2 DEF Continue, d
    <2> QED BY <1>4, <1>10, <2>1, <2>2 DEF ConfigureNew
  <1>11. CASE ConfigureResumed(w)
    <2>1. Truthful(srv', sent', store')
      BY <1>6, <1>11 DEF ConfigureResumed
    <2>2. rec[w].uid = req[w]
      BY <1>2, <1>11 DEF ConfigureResumed, Consistent
    <2>3. /\ Consistent(srv', sent', "exchange", "none", rec[w], req[w])
          /\ Consistent(srv', sent', "confirm", "none", rec[w], req[w])
      BY <1>2, <2>2 DEF Consistent, Own
    <2> QED BY <1>2, <1>3, <1>4, <1>5, <1>11, <2>1, <2>3 DEF ConfigureResumed, Continue
  <1>12. CASE Create(w)
    <2> DEFINE n == NewRecord(rec[w])
    <2>1. n.uid = rec[w].uid /\ n.phase = "New" /\ recordEnrolling(n).uid = rec[w].uid
          /\ recordEnrolling(n).phase = "Enrolling" /\ rec[w].uid = req[w]
      <3>1. rec[w].uid = req[w]
        BY <1>2, <1>12 DEF Create, Consistent, Own
      <3> QED BY <1>0, <3>1 DEF NewRecord, Record, recordEnrolling
    <2> HIDE DEF n
    <2>2. Truthful(srv', sent', store')
      <3>1. CASE CreateObject(rec[w])
        BY <2>1, <3>1 DEF CreateObject, Truthful, n
      <3> QED BY <1>6, <1>12, <3>1 DEF Create
    <2>3. Consistent(srv', sent', "save", "exchange", recordEnrolling(n), req[w])
      BY <2>1 DEF Consistent, Truthful, Own
    <2> QED BY <1>3, <1>4, <1>12, <2>2, <2>3 DEF Create, SaveRecord, n
  <1>13. CASE Save(w)
    <2>1. Truthful(srv', sent', store')
      BY <1>0, <1>2, <1>13, StoreTruthful DEF Save
    <2>2. rec[w].uid = req[w] /\ (out[w] = "signed" => rec[w].phase = "Issued")
      BY <1>2, <1>13 DEF Save, Consistent, Own
    <2>3. Truthful(srv', sent', Updated(rec[w])) /\ Updated(rec[w]).uid = req[w]
      BY <1>0, <1>2, <2>2, StatusKeepsRequest DEF Truthful
    <2>4. CASE out[w] \in {"exchange", "confirm"} /\ Continue(w, out[w], Updated(rec[w]))
      <3>1. Consistent(srv', sent', out[w], "none", Updated(rec[w]), req[w])
        BY <2>3, <2>4 DEF Consistent, Own
      <3> QED BY <1>3, <2>1, <2>4, <3>1 DEF Continue
    <2>5. CASE Return(w, "signed") /\ out[w] = "signed"
      <3>1. Consistent(srv', sent', "report", "signed", rec[w], req[w])
        BY <1>2, <2>2, <2>5 DEF Consistent, Own
      <3> QED BY <1>3, <2>1, <2>5, <3>1 DEF Return
    <2> QED BY <1>4, <1>13, <2>1, <2>4, <2>5 DEF Save
  <1>14. CASE Remove(w)
    <2>1. Truthful(srv', sent', store')
      BY <1>0, <1>2, <1>14, StoreTruthful DEF Remove
    <2>2. out[w] # "signed"
      BY <1>2, <1>14 DEF Remove, Consistent
    <2> QED BY <1>4, <1>14, <2>1, <2>2 DEF Remove
  <1>15. CASE FailBeforeSending(w)
    BY <1>2, <1>5, <1>6, <1>15 DEF FailBeforeSending
  <1>16. CASE NoAnswer(w)
    BY <1>4, <1>6, <1>16 DEF NoAnswer
  <1> QED BY <1>7, <1>8, <1>9, <1>10, <1>11, <1>12, <1>13, <1>14, <1>15, <1>16

\* The step that sends keeps TruthInv: the message names the worker's own request.
LEMMA SendTruth ==
  ASSUME Typed, TruthInv, NEW w \in Worker, pc[w] \in {"exchange", "confirm"}, Send(w)
  PROVE  TruthInv'
  <1>1. Grows /\ UNCHANGED <<store, srv, cr>> /\ Decide(w, "await", "none", rec[w])
    BY DEF Grows, Send, Continue, storeVars, serverVars, requestVars
  <1>2. \A p, o, r, u : Consistent(srv, sent, p, o, r, u) => Consistent(srv', sent', p, o, r, u)
    BY <1>1, ConsistentGrows
  <1>3. rec[w].uid = req[w] /\ Truthful(srv', sent', rec[w])
    <2>1. Consistent(srv', sent', pc[w], out[w], rec[w], req[w])
      BY <1>2 DEF TruthInv
    <2> QED BY <2>1 DEF Consistent, Own
  <1>4. SentIn(sent', rec[w].id, rec[w].uid)
    <2> DEFINE x == [id |-> rec[w].id, uid |-> req[w], issuer |-> iss[w], config |-> cfg[w]]
    <2>1. x \in sent' /\ x.id = rec[w].id /\ x.uid = rec[w].uid
      BY <1>3 DEF Send
    <2> QED BY <2>1 DEF SentIn
  <1>5. Consistent(srv', sent', "await", "none", rec[w], req[w])
    BY <1>3, <1>4 DEF Consistent, Own
  <1>6. \A v \in Worker : Consistent(srv', sent', pc'[v], out'[v], rec'[v], req'[v])
    BY <1>1, <1>5, DecideConsistent DEF Typed
  <1>7. \A t, x : SentIn(sent, t, x) => SentIn(sent', t, x)
    BY <1>1 DEF Grows, SentIn
  <1>8. Truthful(srv', sent', store') /\ RequestTruthful'
    BY <1>1, <1>7 DEF TruthInv, Truthful, RequestTruthful
  <1> QED BY <1>6, <1>8 DEF TruthInv

\* The steps that take an answer keep TruthInv: a record becomes Issued only on
\* an answer that comes with the server's confirmation.
LEMMA AnswerTruth ==
  ASSUME Typed, TruthInv, NEW w \in Worker, Answered(w) \/ Refuse(w)
  PROVE  TruthInv'
  <1> DEFINE r == rec[w]
             m == Outgoing(r)
  <1>0. WorkersOK /\ ServerTypeOK /\ r \in Record /\ pc[w] = "await"
    BY DEF Typed, WorkersOK, Answered, Refuse
  <1>1. PICK a : /\ Serve(m, a)
                 /\ (Accept(w, a.reply) \/ FailTransaction(w, r))
    BY DEF Answered, Refuse
  <1>2. m \in Message /\ m.kind # "reject" /\ m.id = r.id
        /\ (m.kind \in {"certConf", "confPoll"} => m.cert = r.chain)
    <2>1. m \in Message
      BY <1>0, OutgoingTyped DEF WorkersOK, WorkerOK, Holding
    <2> QED BY <1>0, <2>1 DEF Outgoing, Record
  <1>3. UNCHANGED <<store, sent, cr>>
    BY DEF Answered, Refuse, storeVars, historyVars, requestVars
  <1>4. Grows
    BY <1>0, <1>1, <1>2, <1>3, ConfirmedStable DEF Grows
  <1>5. Truthful(srv', sent', store') /\ RequestTruthful'
    BY <1>3, <1>4 DEF Grows, TruthInv, Truthful, RequestTruthful
  <1>6. Consistent(srv', sent', "await", out[w], r, req[w])
    BY <1>0, <1>4, ConsistentGrows DEF TruthInv
  <1>7. r.uid = req[w] /\ Truthful(srv', sent', r) /\ SentIn(sent', r.id, r.uid)
    BY <1>6 DEF Consistent, Own
  <1>8. ASSUME NEW p, NEW o, NEW q, Decide(w, p, o, q), Consistent(srv', sent', p, o, q, req[w])
        PROVE  TruthInv'
    <2>1. \A v \in Worker : Consistent(srv', sent', pc'[v], out'[v], rec'[v], req'[v])
      BY <1>0, <1>4, <1>8, DecideConsistent
    <2> QED BY <1>5, <2>1 DEF TruthInv
  <1> HIDE DEF m
  <1>9. CASE FailTransaction(w, r)
    <2>1. Consistent(srv', sent', "remove", "permanent", r, req[w])
      BY <1>7 DEF Consistent, Own
    <2> QED BY <1>8, <1>9, <2>1 DEF FailTransaction
  <1>10. ASSUME NEW o, o # "signed", NEW q, SaveRecord(w, o, q), q.phase # "Issued", q.uid = r.uid
         PROVE  TruthInv'
    <2>1. Consistent(srv', sent', "save", o, q, req[w])
      BY <1>7, <1>10 DEF Consistent, Truthful, Own
    <2> QED BY <1>8, <1>10, <2>1 DEF SaveRecord
  <1>11. ASSUME NEW c, ConfirmedIn(srv', r.id, c), SaveRecord(w, "signed", recordIssued(r, c))
         PROVE  TruthInv'
    <2>1. recordIssued(r, c).phase = "Issued" /\ recordIssued(r, c).id = r.id
          /\ recordIssued(r, c).uid = r.uid /\ recordIssued(r, c).chain = c
      BY <1>0 DEF recordIssued, Record
    <2>2. Consistent(srv', sent', "save", "signed", recordIssued(r, c), req[w])
      BY <1>7, <1>11, <2>1 DEF Consistent, Truthful, Own
    <2> QED BY <1>8, <1>11, <2>2 DEF SaveRecord
  <1>12. CASE Accept(w, a.reply)
    <2>1. a.reply \in Reply
      BY <1>0, <1>1, <1>2, ServeTyped
    <2>2. CASE a.reply.kind = "waiting"
      BY <1>0, <1>10, <1>12, <2>2, StatusKeepsRequest, SMT DEF Accept
    <2>3. CASE a.reply.kind = "granted"
      BY <1>0, <1>10, <1>12, <2>3, StatusKeepsRequest, SMT DEF Accept
    <2>4. CASE a.reply.kind = "confWaiting"
      BY <1>0, <1>10, <1>12, <2>4, StatusKeepsRequest, SMT DEF Accept
    <2>5. CASE a.reply.kind = "implicit"
      <3>1. ConfirmedIn(srv', r.id, a.reply.cert)
        BY <1>0, <1>1, <1>2, <2>5, AnswerConfirms
      <3> QED BY <1>11, <1>12, <2>5, <3>1 DEF Accept
    <2>6. CASE a.reply.kind = "pkiConf"
      <3>1. ConfirmedIn(srv', r.id, r.chain)
        BY <1>0, <1>1, <1>2, <2>6, AnswerConfirms
      <3> QED BY <1>11, <1>12, <2>6, <3>1 DEF Accept
    <2>7. CASE a.reply.kind = "permanent"
      BY <1>9, <1>12, <2>7 DEF Accept
    <2>8. CASE a.reply.kind = "retryable"
      <3>1. Consistent(srv', sent', "report", "pending", NoRecord, req[w])
        BY DEF Consistent, Truthful, NoRecord, Own
      <3> QED BY <1>8, <1>12, <2>8, <3>1 DEF Accept, Return
    <2> QED BY <2>1, <2>2, <2>3, <2>4, <2>5, <2>6, <2>7, <2>8 DEF Reply
  <1> QED BY <1>1, <1>9, <1>12

\* Every step of a worker keeps TruthInv.
LEMMA WorkerStepTruth ==
  ASSUME Typed, TruthInv, NEW w \in Worker, WorkerStep(w)
  PROVE  TruthInv'
  <1>1. CASE Sign(w)
    <2>1. UNCHANGED <<store, srv, sent, cr, rec>>
      BY <1>1 DEF Sign, storeVars, serverVars, historyVars, requestVars
    <2>2. ASSUME NEW v \in Worker PROVE Consistent(srv', sent', pc'[v], out'[v], rec'[v], req'[v])
      <3>1. CASE v = w
        <4>1. /\ pc'[v] = "load" \/ (pc'[v] = "report" /\ out'[v] = "permanent")
              /\ Truthful(srv', sent', rec'[v])
          BY <1>1, <2>1, <3>1 DEF Sign, Typed, WorkersOK, TruthInv, Consistent
        <4> QED BY <4>1 DEF Consistent, Own
      <3>2. CASE v # w
        <4>1. pc'[v] = pc[v] /\ out'[v] = out[v] /\ req'[v] = req[v]
          BY <1>1, <3>2 DEF Sign, Typed, WorkersOK
        <4> QED BY <2>1, <4>1 DEF TruthInv
      <3> QED BY <3>1, <3>2
    <2> QED BY <2>1, <2>2 DEF TruthInv, RequestTruthful
  <1>2. CASE Load(w) \/ DropStale(w) \/ Recover(w) \/ ConfigureNew(w) \/ ConfigureResumed(w)
             \/ Create(w) \/ Save(w) \/ Remove(w) \/ NoAnswer(w)
    <2>1. UNCHANGED <<srv, sent, cr>>
      BY <1>2 DEF Load, DropStale, Recover, ConfigureNew, ConfigureResumed, Create, Save, Remove,
                  NoAnswer, Abandon, serverVars, historyVars, requestVars
    <2> QED BY <1>2, <2>1, LocalStepTruth
  <1>3. CASE Exchange(w) \/ Confirm(w)
    <2>1. pc[w] \in {"exchange", "confirm"} /\ (Send(w) \/ FailBeforeSending(w))
      BY <1>3 DEF Exchange, Confirm
    <2>2. CASE FailBeforeSending(w)
      <3>1. UNCHANGED <<srv, sent, cr>>
        BY <2>2 DEF FailBeforeSending, serverVars, historyVars, requestVars
      <3> QED BY <2>1, <2>2, <3>1, LocalStepTruth
    <2> QED BY <2>1, <2>2, SendTruth
  <1>4. CASE Answered(w) \/ Refuse(w)
    BY <1>4, AnswerTruth
  <1>5. CASE Report(w)
    <2>1. UNCHANGED <<store, srv, sent>> /\ Reset(w) /\ pc[w] = "report"
      BY <1>5 DEF Report, storeVars, serverVars, historyVars
    <2>2. Grows
      BY <2>1 DEF Grows
    <2>3. \A v \in Worker : Consistent(srv', sent', pc'[v], out'[v], rec'[v], req'[v])
      BY <2>1, <2>2, ResetConsistent DEF Typed
    <2>4. RequestTruthful'
      <3>1. CASE UNCHANGED cr
        BY <2>1, <3>1 DEF TruthInv, RequestTruthful
      <3>2. CASE cr' = [cr EXCEPT !.state = "failed"]
        BY <3>2 DEF RequestTruthful, Typed, RequestsOK, CertificateRequest
      <3>3. CASE /\ cr.uid = req[w] /\ out[w] = "signed"
                 /\ cr' = [cr EXCEPT !.state = "issued", !.txn = rec[w].id, !.cert = rec[w].chain]
        <4>1. Truthful(srv, sent, rec[w]) /\ rec[w].phase = "Issued" /\ rec[w].uid = req[w]
          BY <2>1, <3>3 DEF TruthInv, Consistent
        <4>2. cr'.txn = rec[w].id /\ cr'.cert = rec[w].chain /\ cr'.uid = rec[w].uid
          BY <3>3, <4>1 DEF Typed, RequestsOK, CertificateRequest
        <4> QED BY <2>1, <4>1, <4>2 DEF RequestTruthful, Truthful
      <3> QED BY <1>5, <3>1, <3>2, <3>3 DEF Report
    <2> QED BY <2>1, <2>3, <2>4 DEF TruthInv
  <1> QED BY <1>1, <1>2, <1>3, <1>4, <1>5 DEF WorkerStep

\* So does every step of the environment.
LEMMA EnvironmentTruth ==
  ASSUME Typed, TruthInv, Environment
  PROVE  TruthInv'
  <1>1. UNCHANGED sent
    BY DEF Environment, Crash, Informer, ServeLate, Expire, ChangeIssuer, RotateSecrets,
           DeleteRequest, CreateRequest, CollectGarbage, historyVars
  <1>2. Grows
    <2>1. CASE ServeLate
      <3>1. PICK m \in late : \E a \in Answers(m) : Serve(m, a)
        BY <2>1 DEF ServeLate, LateRequest
      <3>2. m \in Message
        BY DEF Typed, ServerTypeOK
      <3> QED BY <1>1, <3>1, <3>2, ConfirmedStable DEF Grows, Typed
    <2>2. CASE UNCHANGED srv
      BY <1>1, <2>2 DEF Grows
    <2> QED BY <2>1, <2>2 DEF Environment, Crash, Informer, Expire, ChangeIssuer, RotateSecrets,
               DeleteRequest, CreateRequest, CollectGarbage, Abandon, serverVars
  <1>3. Truthful(srv', sent', store) /\ RequestTruthful'
    <2>1. Truthful(srv', sent', store)
      BY <1>1, <1>2 DEF Grows, TruthInv, Truthful
    <2>2. CASE UNCHANGED cr
      BY <1>1, <1>2, <2>1, <2>2 DEF Grows, TruthInv, RequestTruthful
    <2>3. CASE cr'.state # "issued"
      BY <2>1, <2>3 DEF RequestTruthful
    <2>4. CASE DeleteRequest \/ CreateRequest
      BY <2>3, <2>4 DEF DeleteRequest, CreateRequest, Typed, RequestsOK, CertificateRequest
    <2> QED BY <2>1, <2>2, <2>4 DEF Environment, Crash, Informer, ServeLate, Expire, ChangeIssuer,
               RotateSecrets, CollectGarbage, requestVars
  <1>4. Truthful(srv', sent', store')
    <2>1. CASE CollectGarbage
      BY <1>3, <2>1, StoreTruthful DEF CollectGarbage, Typed, StoreOK, StoreTypeOK
    <2>2. CASE UNCHANGED storeVars
      BY <1>3, <2>2 DEF storeVars
    <2> QED BY <2>1, <2>2 DEF Environment, Crash, Informer, ServeLate, Expire, ChangeIssuer,
                              RotateSecrets, DeleteRequest, CreateRequest
  <1>5. \A v \in Worker : Consistent(srv', sent', pc'[v], out'[v], rec'[v], req'[v])
    <2>1. CASE \E w \in Worker : Reset(w)
      BY <1>2, <2>1, ResetConsistent DEF Typed
    <2>2. CASE UNCHANGED workerVars
      <3>1. \A v \in Worker : Consistent(srv', sent', pc[v], out[v], rec[v], req[v])
        BY <1>2, ConsistentGrows DEF TruthInv
      <3> QED BY <2>2, <3>1 DEF workerVars
    <2> QED BY <2>1, <2>2 DEF Environment, Crash, Informer, ServeLate, Expire, ChangeIssuer,
                              RotateSecrets, DeleteRequest, CreateRequest, CollectGarbage
  <1> QED BY <1>3, <1>4, <1>5 DEF TruthInv

\* In every reachable state records and reports tell the truth.
THEOREM TruthInvariant == Spec => []TruthInv
  <1>1. Init => TruthInv
    BY SMT DEF Init, StoreInit, TruthInv, RequestTruthful, Consistent, Truthful, NoRecord, Own
  <1>2. Typed /\ TruthInv /\ [Next]_vars => TruthInv'
    <2> SUFFICES ASSUME Typed, TruthInv, [Next]_vars PROVE TruthInv'
      OBVIOUS
    <2>1. CASE Next
      BY <2>1, WorkerStepTruth, EnvironmentTruth DEF Next
    <2>2. CASE UNCHANGED vars
      BY <2>2 DEF vars, storeVars, serverVars, workerVars, requestVars, historyVars,
                  TruthInv, RequestTruthful
    <2> QED BY <2>1, <2>2
  <1> QED BY <1>1, <1>2, TypedInvariant, PTL DEF Spec

\* For every number of processes and requests, and whatever is crashed, lost,
\* delayed, edited or recreated: a request that is reported as issued holds a
\* certificate the server considers confirmed, obtained in a transaction whose
\* messages were sent for that request.
THEOREM IssuedIsConfirmedHolds == Spec => []IssuedIsConfirmed
  <1>1. TruthInv => IssuedIsConfirmed
    BY DEF TruthInv, RequestTruthful, IssuedIsConfirmed, Confirmed, ConfirmedIn, SentIn
  <1> QED BY <1>1, TruthInvariant, PTL

-----------------------------------------------------------------------------
(* Binding: all copies of the record of a transaction, and all messages sent *)
(* for it, agree on one request, one issuer version and one set of Secrets.  *)

\* What a transaction can be bound to.
Binding == (0..MaxUid) \X Version \X (0..MaxRotation)

\* Record r, with identifiers below n handed out, has the binding that b gives
\* its transaction.
Agrees(b, n, r) == r.id # 0 => r.id < n /\ b[r.id] = <<r.uid, r.issuer, r.digest>>

\* Where a worker acts on behalf of its request, issuer and configuration.
Acting == {"create", "save", "exchange", "confirm", "await"}

\* A worker at p with record copy r was called for request u and issuer v and
\* has loaded the Secrets c.
Placed(p, r, u, v, c) ==
    /\ p \in Acting => r.uid = u /\ r.issuer = v /\ r.digest = c
    /\ p = "configure" /\ r # NoRecord => r.uid = u

Bound(b) ==
    /\ Agrees(b, nextTxn, store)
    /\ \A w \in Worker : Agrees(b, nextTxn, rec[w])
    /\ \A w \in Worker : Placed(pc[w], rec[w], req[w], iss[w], cfg[w])
    /\ \A o \in sent : o.id < nextTxn /\ b[o.id] = <<o.uid, o.issuer, o.config>>

\* The inductive strengthening of OneOriginPerTransaction: there is one binding
\* per transaction, and every copy and message has it.
BindInv == \E b \in [Txn -> Binding] : Bound(b)

\* No status update changes what a record is bound to.
LEMMA StatusKeepsBinding ==
  ASSUME NEW r \in Record, NEW c, NEW n, NEW q
  PROVE  \A x \in {recordEnrolling(r), recordPending(Counted(r), n), recordConfirming(r, c, n, q),
                  recordConfirming(Counted(r), c, n, q), recordIssued(r, c), Updated(r)} :
            x.id = r.id /\ x.uid = r.uid /\ x.issuer = r.issuer /\ x.digest = r.digest
  <1> DEFINE Same(x) == x.id = r.id /\ x.uid = r.uid /\ x.issuer = r.issuer /\ x.digest = r.digest
  <1>1. Same(recordEnrolling(r)) /\ Same(recordIssued(r, c)) /\ Same(Updated(r))
    BY DEF Record, recordEnrolling, recordIssued, Updated
  <1>2. Same(recordPending(Counted(r), n))
    BY DEF Record, recordPending, Counted
  <1>3. Same(recordConfirming(r, c, n, q)) /\ Same(recordConfirming(Counted(r), c, n, q))
    BY DEF Record, recordConfirming, Counted
  <1> HIDE DEF Same
  <1>4. \A x \in {recordEnrolling(r), recordPending(Counted(r), n), recordConfirming(r, c, n, q),
                  recordConfirming(Counted(r), c, n, q), recordIssued(r, c), Updated(r)} : Same(x)
    BY <1>1, <1>2, <1>3
  <1> QED BY <1>4 DEF Same

\* A worker that moves with an agreeing record to a place where that record is
\* its own leaves the workers bound.
LEMMA DecideBound ==
  ASSUME WorkersOK, NEW b, Bound(b), nextTxn' = nextTxn, NEW w \in Worker, NEW p, NEW o, NEW r,
         Decide(w, p, o, r), NEW c, c \in 0..MaxRotation, cfg' = [cfg EXCEPT ![w] = c],
         Agrees(b, nextTxn, r), Placed(p, r, req[w], iss[w], c)
  PROVE  \A v \in Worker : /\ Agrees(b, nextTxn, rec[v])'
                           /\ Placed(pc[v], rec[v], req[v], iss[v], cfg[v])'
  <1> SUFFICES ASSUME NEW v \in Worker
               PROVE  /\ Agrees(b, nextTxn', rec'[v])
                      /\ Placed(pc'[v], rec'[v], req'[v], iss'[v], cfg'[v])
    BY DEF Agrees, Placed
  <1>1. CASE v = w
    <2>1. pc'[v] = p /\ rec'[v] = r /\ req'[v] = req[w] /\ iss'[v] = iss[w] /\ cfg'[v] = c
      BY <1>1 DEF Decide, WorkersOK
    <2> QED BY <2>1
  <1>2. CASE v # w
    <2>1. pc'[v] = pc[v] /\ rec'[v] = rec[v] /\ req'[v] = req[v] /\ iss'[v] = iss[v] /\ cfg'[v] = cfg[v]
      BY <1>2 DEF Decide, WorkersOK
    <2> QED BY <2>1 DEF Bound
  <1> QED BY <1>1, <1>2

\* So does one that forgets its locals.
LEMMA ResetBound ==
  ASSUME WorkersOK, NEW b, Bound(b), nextTxn' = nextTxn, NEW w \in Worker, Reset(w)
  PROVE  \A v \in Worker : /\ Agrees(b, nextTxn, rec[v])'
                           /\ Placed(pc[v], rec[v], req[v], iss[v], cfg[v])'
  <1> SUFFICES ASSUME NEW v \in Worker
               PROVE  /\ Agrees(b, nextTxn', rec'[v])
                      /\ Placed(pc'[v], rec'[v], req'[v], iss'[v], cfg'[v])
    BY DEF Agrees, Placed
  <1>1. CASE v = w
    <2>1. pc'[v] = "idle" /\ rec'[v] = NoRecord /\ NoRecord.id = 0
      BY <1>1 DEF Reset, WorkersOK, NoRecord
    <2> QED BY <2>1 DEF Agrees, Placed, Acting
  <1>2. CASE v # w
    <2>1. pc'[v] = pc[v] /\ rec'[v] = rec[v] /\ req'[v] = req[v] /\ iss'[v] = iss[v] /\ cfg'[v] = cfg[v]
      BY <1>2 DEF Reset, WorkersOK
    <2> QED BY <2>1 DEF Bound
  <1> QED BY <1>1, <1>2

\* A status update or a delete leaves an agreeing record.
LEMMA StoreBound ==
  ASSUME StoreOK, NEW b, Agrees(b, nextTxn, store), NEW r \in Record, Agrees(b, nextTxn, r),
         \/ UpdateStatus(r) \/ DeleteObject(r) \/ UNCHANGED storeVars
  PROVE  nextTxn' = nextTxn /\ Agrees(b, nextTxn', store')
  <1>1. nextTxn' = nextTxn
    BY DEF UpdateStatus, DeleteObject, storeVars
  <1>2. CASE UpdateStatus(r)
    <2>1. store' = Updated(r)
      BY <1>2 DEF UpdateStatus
    <2>2. /\ Updated(r).id = r.id /\ Updated(r).uid = r.uid
          /\ Updated(r).issuer = r.issuer /\ Updated(r).digest = r.digest
      BY DEF Updated, Record
    <2> QED BY <1>1, <2>1, <2>2 DEF Agrees
  <1>3. CASE DeleteObject(r)
    BY <1>1, <1>3 DEF DeleteObject, Agrees, NoRecord
  <1>4. CASE UNCHANGED storeVars
    BY <1>4 DEF storeVars
  <1> QED BY <1>1, <1>2, <1>3, <1>4

\* The steps of a worker inside Sign that create no record and send no message.
LEMMA LocalStepBound ==
  ASSUME Typed, NEW b \in [Txn -> Binding], Bound(b), NEW w \in Worker, UNCHANGED sent,
         \/ Load(w) \/ DropStale(w) \/ Recover(w) \/ ConfigureNew(w) \/ ConfigureResumed(w)
         \/ Save(w) \/ Remove(w) \/ (pc[w] \in {"exchange", "confirm"} /\ FailBeforeSending(w))
         \/ NoAnswer(w) \/ Answered(w) \/ Refuse(w)
  PROVE  Bound(b)'
  <1>0. /\ WorkersOK /\ StoreOK /\ rec[w] \in Record /\ store \in Record /\ NoRecord.id = 0
        /\ cfg \in [Worker -> 0..MaxRotation] /\ rotation \in 0..MaxRotation
    BY DEF Typed, WorkersOK, StoreOK, StoreTypeOK, EnvironmentOK, NoRecord
  <1>1. /\ Agrees(b, nextTxn, store) /\ Agrees(b, nextTxn, rec[w]) /\ Agrees(b, nextTxn, NoRecord)
        /\ Placed(pc[w], rec[w], req[w], iss[w], cfg[w])
    BY <1>0 DEF Bound, Agrees
  <1>2. nextTxn' = nextTxn /\ Agrees(b, nextTxn', store')
    <2>1. CASE UNCHANGED storeVars
      BY <1>0, <1>1, <2>1, StoreBound
    <2>2. CASE UpdateStatus(rec[w]) \/ DeleteObject(rec[w])
      BY <1>0, <1>1, <2>2, StoreBound
    <2> QED BY <2>1, <2>2 DEF Load, DropStale, Recover, ConfigureNew, ConfigureResumed, Save,
                 Remove, FailBeforeSending, NoAnswer, Answered, Refuse
  <1>3. ASSUME NEW p, NEW o, NEW r, Decide(w, p, o, r), NEW c \in 0..MaxRotation,
               cfg' = [cfg EXCEPT ![w] = c], Agrees(b, nextTxn, r), Placed(p, r, req[w], iss[w], c)
        PROVE  Bound(b)'
    <2>1. \A v \in Worker : /\ Agrees(b, nextTxn, rec[v])'
                            /\ Placed(pc[v], rec[v], req[v], iss[v], cfg[v])'
      BY <1>0, <1>2, <1>3, DecideBound
    <2>2. \A x \in sent' : x.id < nextTxn' /\ b[x.id] = <<x.uid, x.issuer, x.config>>
      BY <1>2 DEF Bound
    <2> QED BY <1>2, <2>1, <2>2 DEF Bound
  <1>4. UNCHANGED cfg => cfg' = [cfg EXCEPT ![w] = cfg[w]] /\ cfg[w] \in 0..MaxRotation
    BY <1>0
  <1>5. ASSUME NEW p, NEW o, NEW r, Decide(w, p, o, r),
               UNCHANGED cfg \/ cfg' = [cfg EXCEPT ![w] = rotation],
               Agrees(b, nextTxn, r), p \notin Acting \cup {"configure"}
        PROVE  Bound(b)'
    BY <1>0, <1>3, <1>4, <1>5 DEF Placed
  <1>6. ASSUME UNCHANGED cfg \/ cfg' = [cfg EXCEPT ![w] = rotation], NEW o, Return(w, o) PROVE Bound(b)'
    BY <1>1, <1>5, <1>6 DEF Return, Acting
  <1>7. ASSUME UNCHANGED cfg \/ cfg' = [cfg EXCEPT ![w] = rotation], NEW r, FailTransaction(w, r),
               Agrees(b, nextTxn, r)
        PROVE  Bound(b)'
    BY <1>5, <1>7 DEF FailTransaction, Acting
  <1>8. CASE Load(w)
    <2>1. UNCHANGED cfg
      BY <1>8 DEF Load
    <2>2. CASE Continue(w, "configure", NoRecord)
      <3>1. Placed("configure", NoRecord, req[w], iss[w], cfg[w])
        BY DEF Placed, Acting
      <3> QED BY <1>1, <1>3, <1>4, <2>1, <2>2, <3>1 DEF Continue
    <2>3. CASE Continue(w, "dropStale", store)
      BY <1>1, <1>5, <2>1, <2>3 DEF Continue, Acting
    <2>4. CASE store.uid = req[w] /\ Continue(w, "configure", store)
      <3>1. Placed("configure", store, req[w], iss[w], cfg[w])
        BY <2>4 DEF Placed, Acting
      <3> QED BY <1>1, <1>3, <1>4, <2>1, <2>4, <3>1 DEF Continue
    <2>5. CASE Continue(w, "recover", store)
      BY <1>1, <1>5, <2>1, <2>5 DEF Continue, Acting
    <2> QED BY <1>1, <1>6, <1>7, <1>8, <2>1, <2>2, <2>3, <2>4, <2>5 DEF Load, Resume
  <1>9. CASE DropStale(w)
    <2>1. Placed("configure", NoRecord, req[w], iss[w], cfg[w]) /\ UNCHANGED cfg
      BY <1>9 DEF Placed, Acting, DropStale
    <2> QED BY <1>1, <1>3, <1>4, <1>6, <1>9, <2>1 DEF DropStale, Continue
  <1>10. CASE Recover(w)
    BY <1>1, <1>6, <1>7, <1>10 DEF Recover
  <1>11. CASE ConfigureNew(w)
    <2>1. cfg' = [cfg EXCEPT ![w] = rotation]
      BY <1>11 DEF ConfigureNew
    <2>2. ASSUME NEW s, Continue(w, "create",
                      [NoRecord EXCEPT !.uid = req[w], !.issuer = iss[w], !.digest = rotation,
                                       !.operation = s.operation, !.fallback = s.fallback])
          PROVE  Bound(b)'
      <3> DEFINE d == [NoRecord EXCEPT !.uid = req[w], !.issuer = iss[w], !.digest = rotation,
                                       !.operation = s.operation, !.fallback = s.fallback]
      <3>1. d.id = 0 /\ d.uid = req[w] /\ d.issuer = iss[w] /\ d.digest = rotation
        BY DEF NoRecord
      <3> HIDE DEF d
      <3>2. Agrees(b, nextTxn, d) /\ Placed("create", d, req[w], iss[w], rotation)
        BY <3>1 DEF Agrees, Placed
      <3> QED BY <1>0, <1>3, <2>1, <2>2, <3>2 DEF Continue, d
    <2> QED BY <1>6, <1>11, <2>1, <2>2 DEF ConfigureNew
  <1>12. CASE ConfigureResumed(w)
    <2>1. cfg' = [cfg EXCEPT ![w] = rotation] /\ rec[w].uid = req[w]
      BY <1>1, <1>12 DEF ConfigureResumed, Placed
    <2>2. ASSUME NEW p \in {"exchange", "confirm"}, Continue(w, p, rec[w]), SameConfiguration(rec[w], iss[w])
          PROVE  Bound(b)'
      <3>1. Placed(p, rec[w], req[w], iss[w], rotation)
        BY <2>1, <2>2 DEF SameConfiguration, Placed
      <3> QED BY <1>0, <1>1, <1>3, <2>1, <2>2, <3>1 DEF Continue
    <2> QED BY <1>1, <1>6, <1>7, <1>12, <2>1, <2>2 DEF ConfigureResumed
  <1>13. CASE Save(w)
    <2>1. UNCHANGED cfg /\ pc[w] = "save"
      BY <1>13 DEF Save
    <2> DEFINE u == Updated(rec[w])
    <2>2. u.id = rec[w].id /\ u.uid = rec[w].uid /\ u.issuer = rec[w].issuer /\ u.digest = rec[w].digest
      BY <1>0 DEF Updated, Record
    <2>3. CASE out[w] \in {"exchange", "confirm"} /\ Continue(w, out[w], u)
      <3> HIDE DEF u
      <3>1. Placed(out[w], u, req[w], iss[w], cfg[w]) /\ Agrees(b, nextTxn, u)
        BY <1>1, <2>1, <2>2, <2>3 DEF Placed, Acting, Agrees
      <3> QED BY <1>3, <1>4, <2>1, <2>3, <3>1 DEF Continue
    <2> QED BY <1>6, <1>13, <2>1, <2>3 DEF Save
  <1>14. CASE Remove(w)
    BY <1>6, <1>14 DEF Remove
  <1>15. CASE FailBeforeSending(w)
    BY <1>1, <1>7, <1>15 DEF FailBeforeSending
  <1>16. CASE NoAnswer(w)
    BY <1>6, <1>16 DEF NoAnswer
  <1>17. CASE Refuse(w)
    BY <1>1, <1>7, <1>17 DEF Refuse
  <1>18. CASE Answered(w)
    <2>1. UNCHANGED cfg /\ pc[w] = "await"
      BY <1>18 DEF Answered
    <2>2. PICK a : Accept(w, a.reply) /\ a.reply \in Reply
      <3>1. PICK a \in Answers(Outgoing(rec[w])) : Serve(Outgoing(rec[w]), a) /\ Accept(w, a.reply)
        BY <1>18 DEF Answered
      <3>2. Outgoing(rec[w]) \in Message
        BY <1>0, <2>1, OutgoingTyped DEF WorkersOK, WorkerOK, Holding
      <3> QED BY <3>1, <3>2, ServeTyped DEF Typed
    <2>3. ASSUME NEW o, NEW x, SaveRecord(w, o, x), x.id = rec[w].id, x.uid = rec[w].uid,
                 x.issuer = rec[w].issuer, x.digest = rec[w].digest
          PROVE  Bound(b)'
      <3>1. Placed("save", x, req[w], iss[w], cfg[w]) /\ Agrees(b, nextTxn, x)
        BY <1>1, <2>1, <2>3 DEF Placed, Acting, Agrees
      <3> QED BY <1>3, <1>4, <2>1, <2>3, <3>1 DEF SaveRecord
    <2>4. CASE a.reply.kind = "waiting"
      BY <1>0, <2>2, <2>3, <2>4, StatusKeepsBinding DEF Accept
    <2>5. CASE a.reply.kind = "granted"
      BY <1>0, <2>2, <2>3, <2>5, StatusKeepsBinding, SMT DEF Accept
    <2>6. CASE a.reply.kind \in {"implicit", "pkiConf"}
      BY <1>0, <2>2, <2>3, <2>6, StatusKeepsBinding, ZenonT(40) DEF Accept
    <2>7. CASE a.reply.kind = "confWaiting"
      BY <1>0, <2>2, <2>3, <2>7, StatusKeepsBinding, SMT DEF Accept
    <2>8. CASE a.reply.kind = "permanent"
      BY <1>1, <1>7, <2>1, <2>2, <2>8 DEF Accept
    <2>9. CASE a.reply.kind = "retryable"
      BY <1>6, <2>1, <2>2, <2>9 DEF Accept
    <2> QED BY <2>2, <2>4, <2>5, <2>6, <2>7, <2>8, <2>9 DEF Reply
  <1> QED BY <1>8, <1>9, <1>10, <1>11, <1>12, <1>13, <1>14, <1>15, <1>16, <1>17, <1>18

\* A message is sent with the binding of the record it is sent for.
LEMMA SendBound ==
  ASSUME Typed, NEW b, Bound(b), NEW w \in Worker, pc[w] \in {"exchange", "confirm"}, Send(w)
  PROVE  Bound(b)'
  <1>1. /\ WorkersOK /\ UNCHANGED <<store, nextTxn, cfg>> /\ Decide(w, "await", "none", rec[w])
        /\ cfg' = [cfg EXCEPT ![w] = cfg[w]] /\ cfg[w] \in 0..MaxRotation
    BY DEF Send, Continue, storeVars, Typed, WorkersOK
  <1>2. /\ Agrees(b, nextTxn, rec[w])
        /\ rec[w].uid = req[w] /\ rec[w].issuer = iss[w] /\ rec[w].digest = cfg[w]
    BY DEF Bound, Placed, Acting
  <1>3. Placed("await", rec[w], req[w], iss[w], cfg[w])
    BY <1>2 DEF Placed
  <1>4. \A v \in Worker : /\ Agrees(b, nextTxn, rec[v])'
                          /\ Placed(pc[v], rec[v], req[v], iss[v], cfg[v])'
    BY <1>1, <1>2, <1>3, DecideBound
  <1>5. rec[w].id # 0
    BY BoundsAssumption, SMT DEF Typed, WorkersOK, WorkerOK, Holding, Txn
  <1>6. \A x \in sent' : x.id < nextTxn' /\ b[x.id] = <<x.uid, x.issuer, x.config>>
    <2> DEFINE m == [id |-> rec[w].id, uid |-> req[w], issuer |-> iss[w], config |-> cfg[w]]
    <2>1. sent' = sent \cup {m}
      BY DEF Send
    <2>2. m.id < nextTxn /\ b[m.id] = <<m.uid, m.issuer, m.config>>
      BY <1>2, <1>5 DEF Agrees
    <2> HIDE DEF m
    <2> QED BY <1>1, <2>1, <2>2 DEF Bound
  <1> QED BY <1>1, <1>4, <1>6 DEF Bound

\* A new record extends the bindings by that of its own transaction.
LEMMA CreateBound ==
  ASSUME Typed, NEW b \in [Txn -> Binding], Bound(b), NEW w \in Worker, Create(w)
  PROVE  BindInv'
  <1>0. /\ WorkersOK /\ StoreOK /\ rec[w] \in Record /\ NoRecord.id = 0 /\ nextTxn \in Nat
        /\ cfg' = [cfg EXCEPT ![w] = cfg[w]] /\ cfg[w] \in 0..MaxRotation /\ UNCHANGED sent
    BY BoundsAssumption, SMT DEF Typed, WorkersOK, StoreOK, StoreTypeOK, NoRecord, Create,
         historyVars
  <1>1. rec[w].uid = req[w] /\ rec[w].issuer = iss[w] /\ rec[w].digest = cfg[w]
    BY DEF Create, Bound, Placed, Acting
  <1>2. Placed("report", NoRecord, req[w], iss[w], cfg[w])
    BY DEF Placed, Acting
  <1>3. CASE UNCHANGED storeVars /\ Return(w, "error")
    <2>1. nextTxn' = nextTxn /\ store' = store
      BY <1>3 DEF storeVars
    <2>2. Agrees(b, nextTxn, NoRecord)
      BY <1>0 DEF Agrees
    <2>3. \A v \in Worker : /\ Agrees(b, nextTxn, rec[v])'
                            /\ Placed(pc[v], rec[v], req[v], iss[v], cfg[v])'
      BY <1>0, <1>2, <1>3, <2>1, <2>2, DecideBound DEF Return
    <2>4. Bound(b)'
      BY <1>0, <2>1, <2>3 DEF Bound
    <2> QED BY <2>4 DEF BindInv
  <1>4. CASE CreateObject(rec[w])
    <2> DEFINE t == nextTxn
               k == <<rec[w].uid, rec[w].issuer, rec[w].digest>>
               n == NewRecord(rec[w])
               e == recordEnrolling(n)
    <2>1. t \in Txn /\ t # 0 /\ nextTxn' = t + 1 /\ store' = n
      BY <1>4, BoundsAssumption, SMT DEF CreateObject, Typed, StoreOK, StoreTypeOK, Txn
    <2>2. PICK d \in [Txn -> Binding] : d = [b EXCEPT ![t] = k]
      <3>1. [b EXCEPT ![t] = k] \in [Txn -> Binding]
        BY <1>0 DEF Binding, Record
      <3> QED BY <3>1
    <2>3. d[t] = k /\ \A i \in Txn : i < t => d[i] = b[i]
      BY <1>0, <2>1, <2>2, SMT DEF Txn
    <2>4. /\ n.id = t /\ n.uid = rec[w].uid /\ n.issuer = rec[w].issuer /\ n.digest = rec[w].digest
          /\ e.id = t /\ e.uid = rec[w].uid /\ e.issuer = rec[w].issuer /\ e.digest = rec[w].digest
      BY <1>0 DEF NewRecord, recordEnrolling, Record
    <2> HIDE DEF n, e
    <2>5. Agrees(d, t + 1, n) /\ Agrees(d, t + 1, e) /\ Agrees(d, t + 1, NoRecord)
      BY <1>0, <2>3, <2>4, SMT DEF Agrees
    <2>6. ASSUME NEW r \in Record, Agrees(b, t, r) PROVE Agrees(d, t + 1, r)
      <3>1. r.id \in 0..MaxTxn /\ (r.id # 0 => r.id \in Txn)
        BY BoundsAssumption, SMT DEF Record, Txn
      <3>2. r.id < t => r.id < t + 1
        BY <1>0, <3>1, SMT
      <3> QED BY <2>3, <2>6, <3>1, <3>2 DEF Agrees
    <2>7. \A x \in sent' : x.id < nextTxn' /\ d[x.id] = <<x.uid, x.issuer, x.config>>
      BY <1>0, <2>1, <2>3, SMT DEF Bound, Typed, HistoryOK, Origin, Txn
    <2>8. ASSUME NEW p, NEW o, NEW r, Decide(w, p, o, r), Agrees(d, t + 1, r),
                 Placed(p, r, req[w], iss[w], cfg[w])
          PROVE  Bound(d)'
      <3>1. ASSUME NEW v \in Worker PROVE Agrees(d, nextTxn', rec'[v])
        <4>1. CASE v = w
          BY <1>0, <2>1, <2>8, <4>1 DEF Decide, WorkersOK
        <4>2. CASE v # w
          <5>1. rec'[v] = rec[v] /\ rec[v] \in Record /\ Agrees(b, t, rec[v])
            BY <1>0, <2>8, <4>2 DEF Decide, WorkersOK, Bound
          <5> QED BY <2>1, <2>6, <5>1
        <4> QED BY <4>1, <4>2
      <3>2. ASSUME NEW v \in Worker PROVE Placed(pc'[v], rec'[v], req'[v], iss'[v], cfg'[v])
        <4>1. CASE v = w
          <5>1. pc'[v] = p /\ rec'[v] = r /\ req'[v] = req[w] /\ iss'[v] = iss[w] /\ cfg'[v] = cfg[w]
            BY <1>0, <2>8, <4>1 DEF Decide, WorkersOK
          <5> QED BY <2>8, <5>1
        <4>2. CASE v # w
          <5>1. pc'[v] = pc[v] /\ rec'[v] = rec[v] /\ req'[v] = req[v] /\ iss'[v] = iss[v] /\ cfg'[v] = cfg[v]
            BY <1>0, <2>8, <4>2 DEF Decide, WorkersOK
          <5> QED BY <5>1 DEF Bound
        <4> QED BY <4>1, <4>2
      <3> QED BY <2>1, <2>5, <2>7, <3>1, <3>2 DEF Bound
    <2>9. Placed("save", e, req[w], iss[w], cfg[w])
      BY <1>1, <2>4 DEF Placed, Acting
    <2>10. Bound(d)'
      <3>1. CASE SaveRecord(w, "exchange", e)
        BY <2>5, <2>8, <2>9, <3>1 DEF SaveRecord
      <3>2. CASE Return(w, "error")
        BY <1>2, <2>5, <2>8, <3>2 DEF Return
      <3>3. SaveRecord(w, "exchange", e) \/ Return(w, "error")
        BY DEF Create, e, n
      <3> QED BY <3>1, <3>2, <3>3
    <2> QED BY <2>2, <2>10 DEF BindInv
  <1> QED BY <1>3, <1>4 DEF Create

\* Every step of a worker keeps BindInv.
LEMMA WorkerStepBound ==
  ASSUME Typed, BindInv, NEW w \in Worker, WorkerStep(w)
  PROVE  BindInv'
  <1>1. PICK b \in [Txn -> Binding] : Bound(b)
    BY DEF BindInv
  <1>2. CASE Sign(w)
    <2>1. UNCHANGED <<store, nextTxn, sent, rec, cfg>>
      BY <1>2 DEF Sign, storeVars, historyVars
    <2>2. ASSUME NEW v \in Worker PROVE Placed(pc'[v], rec'[v], req'[v], iss'[v], cfg'[v])
      <3>1. CASE v = w
        <4>1. pc'[v] \in {"load", "report"}
          BY <1>2, <3>1 DEF Sign, Typed, WorkersOK
        <4> QED BY <4>1 DEF Placed, Acting
      <3>2. CASE v # w
        <4>1. pc'[v] = pc[v] /\ req'[v] = req[v] /\ iss'[v] = iss[v]
          BY <1>2, <3>2 DEF Sign, Typed, WorkersOK
        <4> QED BY <1>1, <2>1, <4>1 DEF Bound
      <3> QED BY <3>1, <3>2
    <2>3. Bound(b)'
      BY <1>1, <2>1, <2>2 DEF Bound
    <2> QED BY <2>3 DEF BindInv
  <1>3. CASE Create(w)
    BY <1>1, <1>3, CreateBound
  <1>4. CASE Exchange(w) \/ Confirm(w)
    <2>1. pc[w] \in {"exchange", "confirm"} /\ (Send(w) \/ FailBeforeSending(w))
      BY <1>4 DEF Exchange, Confirm
    <2>2. CASE Send(w)
      <3>1. Bound(b)'
        BY <1>1, <2>1, <2>2, SendBound
      <3> QED BY <3>1 DEF BindInv
    <2>3. CASE FailBeforeSending(w)
      <3>1. UNCHANGED sent
        BY <2>3 DEF FailBeforeSending, historyVars
      <3>2. Bound(b)'
        BY <1>1, <2>1, <2>3, <3>1, LocalStepBound
      <3> QED BY <3>2 DEF BindInv
    <2> QED BY <2>1, <2>2, <2>3
  <1>5. CASE Report(w)
    <2>1. UNCHANGED <<store, nextTxn, sent>> /\ Reset(w)
      BY <1>5 DEF Report, storeVars, historyVars
    <2>2. \A v \in Worker : /\ Agrees(b, nextTxn, rec[v])'
                            /\ Placed(pc[v], rec[v], req[v], iss[v], cfg[v])'
      BY <1>1, <2>1, ResetBound DEF Typed
    <2>3. Bound(b)'
      BY <1>1, <2>1, <2>2 DEF Bound
    <2> QED BY <2>3 DEF BindInv
  <1>6. CASE Load(w) \/ DropStale(w) \/ Recover(w) \/ ConfigureNew(w) \/ ConfigureResumed(w)
             \/ Save(w) \/ Remove(w) \/ NoAnswer(w) \/ Answered(w) \/ Refuse(w)
    <2>1. UNCHANGED sent
      BY <1>6 DEF Load, DropStale, Recover, ConfigureNew, ConfigureResumed, Save, Remove,
                  NoAnswer, Answered, Refuse, historyVars
    <2>2. Bound(b)'
      BY <1>1, <1>6, <2>1, LocalStepBound
    <2> QED BY <2>2 DEF BindInv
  <1> QED BY <1>2, <1>3, <1>4, <1>5, <1>6 DEF WorkerStep

\* So does every step of the environment.
LEMMA EnvironmentBound ==
  ASSUME Typed, BindInv, Environment
  PROVE  BindInv'
  <1>1. PICK b \in [Txn -> Binding] : Bound(b)
    BY DEF BindInv
  <1>2. UNCHANGED sent
    BY DEF Environment, Crash, Informer, ServeLate, Expire, ChangeIssuer, RotateSecrets,
           DeleteRequest, CreateRequest, CollectGarbage, historyVars
  <1>3. nextTxn' = nextTxn /\ Agrees(b, nextTxn', store')
    <2>1. StoreOK /\ store \in Record /\ Agrees(b, nextTxn, store)
      BY <1>1 DEF Typed, StoreOK, StoreTypeOK, Bound
    <2>2. CASE DeleteObject(store) \/ UNCHANGED storeVars
      BY <2>1, <2>2, StoreBound
    <2> QED BY <2>2 DEF Environment, Crash, Informer, ServeLate, Expire, ChangeIssuer,
                        RotateSecrets, DeleteRequest, CreateRequest, CollectGarbage
  <1>4. \A v \in Worker : /\ Agrees(b, nextTxn, rec[v])'
                          /\ Placed(pc[v], rec[v], req[v], iss[v], cfg[v])'
    <2>1. CASE \E w \in Worker : Reset(w)
      BY <1>1, <1>3, <2>1, ResetBound DEF Typed
    <2>2. CASE UNCHANGED workerVars
      BY <1>1, <1>3, <2>2 DEF workerVars, Bound, Agrees, Placed
    <2> QED BY <2>1, <2>2 DEF Environment, Crash, Informer, ServeLate, Expire, ChangeIssuer,
                              RotateSecrets, DeleteRequest, CreateRequest, CollectGarbage
  <1>5. Bound(b)'
    BY <1>1, <1>2, <1>3, <1>4 DEF Bound
  <1> QED BY <1>5 DEF BindInv

\* In every reachable state all copies of a record and all messages agree on
\* what each transaction is bound to.
THEOREM BindingInvariant == Spec => []BindInv
  <1>1. Init => BindInv
    <2> SUFFICES ASSUME Init PROVE BindInv
      OBVIOUS
    <2> DEFINE b == [t \in Txn |-> <<0, 1, 0>>]
    <2>1. b \in [Txn -> Binding]
      BY BoundsAssumption, SMT DEF Binding, Version
    <2>2. Bound(b)
      BY DEF Init, StoreInit, Bound, Agrees, Placed, Acting, NoRecord
    <2> QED BY <2>1, <2>2 DEF BindInv
  <1>2. Typed /\ BindInv /\ [Next]_vars => BindInv'
    <2> SUFFICES ASSUME Typed, BindInv, [Next]_vars PROVE BindInv'
      OBVIOUS
    <2>1. CASE Next
      BY <2>1, WorkerStepBound, EnvironmentBound DEF Next
    <2>2. CASE UNCHANGED vars
      BY <2>2 DEF vars, storeVars, workerVars, historyVars, BindInv, Bound, Agrees, Placed
    <2> QED BY <2>1, <2>2
  <1> QED BY <1>1, <1>2, TypedInvariant, PTL DEF Spec

\* For every number of processes, requests, edits and rotations: all messages of
\* a transaction are sent for the same request, under the same issuer version
\* and with the same Secrets.
THEOREM OneOriginHolds == Spec => []OneOriginPerTransaction
  <1>1. Typed /\ BindInv => OneOriginPerTransaction
    <2> SUFFICES ASSUME Typed, BindInv, NEW o \in sent, NEW p \in sent, o.id = p.id PROVE o = p
      BY DEF OneOriginPerTransaction
    <2>1. o \in Origin /\ p \in Origin
      BY DEF Typed, HistoryOK
    <2>2. <<o.uid, o.issuer, o.config>> = <<p.uid, p.issuer, p.config>>
      BY DEF BindInv, Bound
    <2> QED BY <2>1, <2>2, SMT DEF Origin
  <1> QED BY <1>1, TypedInvariant, BindingInvariant, PTL

-----------------------------------------------------------------------------
(* Refinement: every step of Sign, of the server and of the environment is a *)
(* step of Issuance or leaves its state alone.                               *)

\* Nobody is ahead of the request under the name, and a late message belongs to
\* a transaction that a message was sent for.
CurrentInv ==
    /\ \A w \in Worker : seen[w].uid <= cr.uid /\ req[w] <= cr.uid
    /\ \A m \in late : \E o \in sent : o.id = m.id

\* Every step keeps CurrentInv.
LEMMA CurrentStep ==
  ASSUME Typed, TruthInv, CurrentInv, Next
  PROVE  CurrentInv'
  <1>0. /\ WorkersOK /\ RequestsOK /\ cr.uid \in Nat
        /\ \A w \in Worker : seen[w].uid \in Nat /\ req[w] \in Nat
    BY BoundsAssumption, SMT DEF Typed, WorkersOK, RequestsOK, CertificateRequest, Uid
  <1>1. cr' = cr \/ (cr'.uid >= cr.uid /\ cr'.uid \in Nat /\ seen' = seen /\ (req' = req \/ \E w \in Worker : Reset(w)))
    <2>1. ASSUME NEW w \in Worker, Report(w)
          PROVE  cr'.uid = cr.uid /\ seen' = seen /\ Reset(w)
      BY <1>0, <2>1 DEF Report, RequestsOK, CertificateRequest
    <2>2. CASE DeleteRequest \/ CreateRequest
      <3>0. cr \in CertificateRequest
        BY <1>0 DEF RequestsOK
      <3>1. cr'.uid >= cr.uid /\ cr'.uid \in Nat
        <4>1. CASE DeleteRequest
          <5>1. cr'.uid = cr.uid
            BY <3>0, <4>1 DEF DeleteRequest, CertificateRequest
          <5> QED BY <1>0, <5>1, SMT
        <4>2. CASE CreateRequest
          <5>1. cr'.uid = cr.uid + 1
            BY <3>0, <4>2 DEF CreateRequest, CertificateRequest
          <5> QED BY <1>0, <5>1, SMT
        <4> QED BY <2>2, <4>1, <4>2
      <3>2. seen' = seen /\ req' = req
        BY <2>2 DEF DeleteRequest, CreateRequest, workerVars
      <3> QED BY <3>1, <3>2
    <2>3. CASE cr' = cr
      BY <2>3
    <2>4. ASSUME NEW w \in Worker, WorkerStep(w), ~Report(w) PROVE cr' = cr
      BY <2>4 DEF WorkerStep, Sign, Load, DropStale, Recover, ConfigureNew, ConfigureResumed,
           Create, Save, Exchange, Confirm, Send, FailBeforeSending, Answered, Refuse, NoAnswer,
           Remove, requestVars
    <2>5. CASE Environment
      BY <2>2, <2>3, <2>5 DEF Environment, Crash, Informer, ServeLate, Expire, ChangeIssuer,
                              RotateSecrets, CollectGarbage, requestVars
    <2> QED BY <1>0, <2>1, <2>3, <2>4, <2>5, SMT DEF Next
  <1>2. /\ seen' = seen \/ \E w \in Worker : seen' = [seen EXCEPT ![w] = Cached]
        /\ \/ req' = req \/ \E w \in Worker : Reset(w)
           \/ \E w \in Worker : req' = [req EXCEPT ![w] = seen[w].uid]
    <2>1. ASSUME NEW w \in Worker, WorkerStep(w)
          PROVE  seen' = seen /\ (req' = req \/ Reset(w) \/ req' = [req EXCEPT ![w] = seen[w].uid])
      <3>1. CASE Sign(w) \/ Report(w)
        BY <3>1 DEF Sign, Report, requestVars
      <3>2. CASE \E p, o, r : Decide(w, p, o, r) /\ UNCHANGED seen
        BY <3>2 DEF Decide
      <3>3. CASE Answered(w)
        <4>1. PICK a : Accept(w, a.reply) /\ a.reply \in Reply
          <5>1. PICK a \in Answers(Outgoing(rec[w])) : Serve(Outgoing(rec[w]), a) /\ Accept(w, a.reply)
            BY <3>3 DEF Answered
          <5>2. Outgoing(rec[w]) \in Message
            BY <3>3, OutgoingTyped DEF Answered, Typed, WorkersOK, WorkerOK, Holding
          <5> QED BY <5>1, <5>2, ServeTyped DEF Typed
        <4>2. req' = req
          BY <4>1 DEF Accept, Reply, SaveRecord, FailTransaction, Return, Decide
        <4> QED BY <3>3, <4>2 DEF Answered, requestVars
      <3>4. CASE Exchange(w) \/ Confirm(w)
        BY <3>4 DEF Exchange, Confirm, Send, FailBeforeSending, Continue, FailTransaction, Decide,
             requestVars
      <3>5. CASE Load(w) \/ DropStale(w) \/ Recover(w)
        BY <3>5 DEF Load, Resume, DropStale, Recover, Continue, FailTransaction, Return, Decide,
             requestVars
      <3>6. CASE ConfigureNew(w) \/ ConfigureResumed(w)
        BY <3>6 DEF ConfigureNew, ConfigureResumed, Continue, FailTransaction, Return, Decide,
             requestVars
      <3>7. CASE Create(w) \/ Save(w) \/ Remove(w)
        BY <3>7 DEF Create, Save, Remove, SaveRecord, Continue, Return, Decide, requestVars
      <3>8. CASE Refuse(w) \/ NoAnswer(w)
        BY <3>8 DEF Refuse, NoAnswer, FailTransaction, Return, Decide, requestVars
      <3> QED BY <2>1, <3>1, <3>3, <3>4, <3>5, <3>6, <3>7, <3>8 DEF WorkerStep
    <2>2. CASE Environment
      BY <2>2 DEF Environment, Crash, Informer, ServeLate, Expire, ChangeIssuer, RotateSecrets,
                  DeleteRequest, CreateRequest, CollectGarbage, requestVars, workerVars
    <2> QED BY <2>1, <2>2 DEF Next
  <1>3. cr'.uid \in Nat /\ cr.uid <= cr'.uid
    BY <1>0, <1>1, SMT
  <1>4. ASSUME NEW v \in Worker PROVE seen'[v].uid <= cr'.uid
    <2>1. CASE seen' = seen
      BY <1>0, <1>3, <2>1, SMT DEF CurrentInv
    <2>2. CASE seen' # seen
      <3>1. cr' = cr
        BY <1>1, <2>2
      <3>2. seen'[v] = seen[v] \/ seen'[v].uid = cr.uid
        BY <1>0, <1>2, <2>2, SMT DEF RequestsOK, Cached
      <3> QED BY <1>0, <3>1, <3>2, SMT DEF CurrentInv
    <2> QED BY <2>1, <2>2
  <1>5. ASSUME NEW v \in Worker PROVE req'[v] <= cr'.uid
    <2>1. req'[v] = req[v] \/ req'[v] = 0 \/ req'[v] = seen[v].uid
      BY <1>0, <1>2 DEF Reset, WorkersOK
    <2> QED BY <1>0, <1>3, <2>1, SMT DEF CurrentInv
  <1>6. sent \subseteq sent'
    <2>1. ASSUME NEW w \in Worker, WorkerStep(w) PROVE sent \subseteq sent'
      BY <2>1 DEF WorkerStep, Sign, Load, DropStale, Recover, ConfigureNew, ConfigureResumed,
           Create, Save, Exchange, Confirm, Send, FailBeforeSending, Answered, Refuse, NoAnswer,
           Remove, Report, historyVars
    <2>2. CASE Environment
      BY <2>2 DEF Environment, Crash, Informer, ServeLate, Expire, ChangeIssuer, RotateSecrets,
                  DeleteRequest, CreateRequest, CollectGarbage, historyVars
    <2> QED BY <2>1, <2>2 DEF Next
  <1>7. \/ late' \subseteq late
        \/ \E w \in Worker : pc[w] = "await" /\ \A m \in late' : m \in late \/ m.id = rec[w].id
    <2>1. \A w \in Worker : Outgoing(rec[w]).id = rec[w].id
      BY DEF Outgoing
    <2>2. ASSUME NEW w \in Worker, pc[w] = "await", NEW x, x.id = rec[w].id,
                 late' = late \/ late' \in WithLate(x)
          PROVE  \A m \in late' : m \in late \/ m.id = rec[w].id
      BY <2>2 DEF WithLate
    <2>3. ASSUME NEW w \in Worker, pc[w] = "await", Abandon(Outgoing(rec[w]))
          PROVE  \A m \in late' : m \in late \/ m.id = rec[w].id
      BY <2>1, <2>2, <2>3 DEF Abandon
    <2>4. ASSUME NEW w \in Worker, Refuse(w)
          PROVE  pc[w] = "await" /\ \A m \in late' : m \in late \/ m.id = rec[w].id
      BY <2>2, <2>4 DEF Refuse
    <2>5. ASSUME NEW w \in Worker, WorkerStep(w), ~Refuse(w), ~NoAnswer(w) PROVE late' = late
      BY <2>5 DEF WorkerStep, Sign, Load, DropStale, Recover, ConfigureNew, ConfigureResumed,
           Create, Save, Exchange, Confirm, Send, FailBeforeSending, Answered, Remove, Report,
           serverVars
    <2>6. CASE \E w \in Worker : WorkerStep(w)
      BY <2>3, <2>4, <2>5, <2>6 DEF NoAnswer
    <2>7. CASE \E w \in Worker : Crash(w)
      BY <2>3, <2>7 DEF Crash, serverVars
    <2>8. CASE Environment /\ ~\E w \in Worker : Crash(w)
      BY <2>8 DEF Environment, Informer, ServeLate, LateRequest, Expire, ChangeIssuer,
           RotateSecrets, DeleteRequest, CreateRequest, CollectGarbage, serverVars
    <2> QED BY <2>6, <2>7, <2>8 DEF Next
  <1>8. \A w \in Worker : pc[w] = "await" => \E o \in sent : o.id = rec[w].id
    BY DEF TruthInv, Consistent, SentIn
  <1>9. \A m \in late' : \E o \in sent' : o.id = m.id
    BY <1>6, <1>7, <1>8 DEF CurrentInv
  <1> QED BY <1>4, <1>5, <1>9 DEF CurrentInv

\* In every reachable state CurrentInv holds.
THEOREM CurrentInvariant == Spec => []CurrentInv
  <1>1. Init => CurrentInv
    BY SMT DEF Init, ServerInit, CurrentInv
  <1>2. Typed /\ TruthInv /\ CurrentInv /\ [Next]_vars => CurrentInv'
    <2>1. ASSUME CurrentInv, UNCHANGED vars PROVE CurrentInv'
      BY <2>1 DEF vars, serverVars, workerVars, requestVars, historyVars, CurrentInv
    <2> QED BY <2>1, CurrentStep
  <1> QED BY <1>1, <1>2, TypedInvariant, TruthInvariant, PTL DEF Spec

-----------------------------------------------------------------------------
(* The simulation. *)

\* The abstract confirmations of server state s.
ConfirmedPairs(s) == {<<t, s[t].cert>> : t \in {x \in Txn : s[x].state = "confirmed"}}

\* A step that changes neither the request nor what was sent nor the server.
LEMMA StutterSimulated ==
  ASSUME UNCHANGED <<cr, sent, srv>>
  PROVE  UNCHANGED Issuance!vars
  BY DEF Issuance!vars

\* The message that is sent opens its transaction for the worker's own request.
LEMMA SendSimulated ==
  ASSUME Typed, CurrentInv, BindInv', NEW w \in Worker, pc[w] \in {"exchange", "confirm"}, Send(w)
  PROVE  Issuance!Next
  <1> DEFINE m == [id |-> rec[w].id, uid |-> req[w], issuer |-> iss[w], config |-> cfg[w]]
  <1>1. sent' = sent \cup {m} /\ UNCHANGED <<cr, srv>>
    BY DEF Send, requestVars, serverVars
  <1>2. m.id \in Txn /\ m.uid \in 1..cr.uid
    BY BoundsAssumption, SMT
       DEF Typed, WorkersOK, WorkerOK, Holding, RequestsOK, CertificateRequest, Uid, CurrentInv
  <1> HIDE DEF m
  <1>3. \A o \in sent : o.id = m.id => o.uid = m.uid
    BY <1>1, SMT DEF BindInv, Bound
  <1>4. PICK t \in Txn, u \in 1..cr.uid : t = m.id /\ u = m.uid
    BY <1>2
  <1>5. Issuance!Open(t, u)
    <2>1. \A p \in {<<o.id, o.uid>> : o \in sent} : p[1] = t => p[2] = u
      BY <1>3, <1>4, SMT
    <2>2. {<<o.id, o.uid>> : o \in sent'} = {<<o.id, o.uid>> : o \in sent} \cup {<<t, u>>}
      BY <1>1, <1>4
    <2> QED BY <1>1, <2>1, <2>2 DEF Issuance!Open
  <1> QED BY <1>5 DEF Issuance!Next

\* What the server makes of a message of an opened transaction confirms one
\* certificate of it, once, or confirms nothing.
LEMMA ServeSimulated ==
  ASSUME Typed, Typed', UNCHANGED <<cr, sent>>, NEW m \in Message, NEW a, Serve(m, a),
         \E o \in sent : o.id = m.id
  PROVE  Issuance!Next \/ UNCHANGED Issuance!vars
  <1>1. /\ srv \in [Txn -> ServerState] /\ srv' \in [Txn -> ServerState] /\ m.id \in Txn
        /\ \A t \in Txn \ {m.id} : srv'[t] = srv[t]
    BY DEF Typed, ServerTypeOK, Serve, Message
  <1>2. CASE srv[m.id].state = "confirmed"
    <2>1. ConfirmedIn(srv, m.id, srv[m.id].cert)
      BY <1>1, <1>2 DEF ConfirmedIn, ServerState
    <2>2. ConfirmedIn(srv', m.id, srv[m.id].cert)
      BY <2>1, ConfirmedStable DEF Typed
    <2>3. srv' = srv
      BY <1>1, <2>1, <2>2, SMT DEF ConfirmedIn
    <2> QED BY <2>3, StutterSimulated
  <1>3. CASE srv[m.id].state # "confirmed" /\ srv'[m.id].state # "confirmed"
    <2>1. ConfirmedPairs(srv') = ConfirmedPairs(srv)
      BY <1>1, <1>3 DEF ConfirmedPairs
    <2> QED BY <2>1 DEF Issuance!vars, ConfirmedPairs
  <1>4. CASE srv[m.id].state # "confirmed" /\ srv'[m.id].state = "confirmed"
    <2>0. PICK c \in 0..MaxCert : c = srv'[m.id].cert
      BY <1>1 DEF ServerState
    <2>1. ConfirmedPairs(srv') = ConfirmedPairs(srv) \cup {<<m.id, c>>}
      BY <1>1, <1>4, <2>0, SMT DEF ConfirmedPairs
    <2>2. \A p \in ConfirmedPairs(srv) : p[1] # m.id
      BY <1>4, SMT DEF ConfirmedPairs
    <2>3. PICK o \in sent : o.id = m.id
      OBVIOUS
    <2>4. \E p \in {<<x.id, x.uid>> : x \in sent} : p[1] = m.id
      <3>1. <<o.id, o.uid>> \in {<<x.id, x.uid>> : x \in sent}
        OBVIOUS
      <3> QED BY <2>3, <3>1
    <2>5. Issuance!Confirm(m.id, c)
      BY <2>1, <2>2, <2>4 DEF Issuance!Confirm, ConfirmedPairs
    <2> QED BY <1>1, <2>5 DEF Issuance!Next
  <1> QED BY <1>2, <1>3, <1>4

\* issuer-lib writes an outcome: a chain only if it is confirmed.
LEMMA ReportSimulated ==
  ASSUME Typed, TruthInv, NEW w \in Worker, Report(w)
  PROVE  Issuance!Next \/ UNCHANGED Issuance!vars
  <1>1. UNCHANGED <<sent, srv>> /\ pc[w] = "report"
    BY DEF Report, serverVars, historyVars
  <1>2. CASE UNCHANGED cr
    BY <1>1, <1>2, StutterSimulated
  <1>3. CASE cr.state # "absent" /\ cr' = [cr EXCEPT !.state = "failed"]
    BY <1>1, <1>3 DEF Issuance!Next, Issuance!Fail
  <1>4. CASE /\ cr.uid = req[w] /\ cr.state # "absent" /\ out[w] = "signed"
             /\ cr' = [cr EXCEPT !.state = "issued", !.txn = rec[w].id, !.cert = rec[w].chain]
    <2>1. Truthful(srv, sent, rec[w]) /\ rec[w].phase = "Issued" /\ rec[w].uid = req[w]
      BY <1>1, <1>4 DEF TruthInv, Consistent
    <2>2. ConfirmedIn(srv, rec[w].id, rec[w].chain) /\ SentIn(sent, rec[w].id, cr.uid)
      BY <1>4, <2>1 DEF Truthful
    <2>3. rec[w].id \in Txn /\ <<rec[w].id, rec[w].chain>> \in ConfirmedPairs(srv)
      BY <2>2, SMT DEF ConfirmedIn, ConfirmedPairs
    <2>4. <<rec[w].id, cr.uid>> \in {<<o.id, o.uid>> : o \in sent}
      BY <2>2 DEF SentIn
    <2>5. rec[w].chain \in 0..MaxCert
      BY DEF Typed, WorkersOK, Record
    <2>6. Issuance!Issue(rec[w].id, rec[w].chain)
      BY <1>1, <1>4, <2>3, <2>4 DEF Issuance!Issue, ConfirmedPairs
    <2> QED BY <2>3, <2>5, <2>6 DEF Issuance!Next
  <1> QED BY <1>2, <1>3, <1>4 DEF Report

\* Every step of Signer is a step of Issuance or leaves its state alone.
LEMMA StepSimulated ==
  ASSUME Typed, Typed', TruthInv, CurrentInv, BindInv', Next
  PROVE  Issuance!Next \/ UNCHANGED Issuance!vars
  <1>1. ASSUME NEW w \in Worker, WorkerStep(w) PROVE Issuance!Next \/ UNCHANGED Issuance!vars
    <2>1. CASE Exchange(w) \/ Confirm(w)
      <3>1. pc[w] \in {"exchange", "confirm"} /\ (Send(w) \/ FailBeforeSending(w))
        BY <2>1 DEF Exchange, Confirm
      <3>2. CASE FailBeforeSending(w)
        BY <3>2, StutterSimulated DEF FailBeforeSending, requestVars, historyVars, serverVars
      <3> QED BY <3>1, <3>2, SendSimulated
    <2>2. CASE Answered(w) \/ Refuse(w)
      <3>1. PICK a : Serve(Outgoing(rec[w]), a)
        BY <2>2 DEF Answered, Refuse
      <3>2. UNCHANGED <<cr, sent>> /\ pc[w] = "await"
        BY <2>2 DEF Answered, Refuse, requestVars, historyVars
      <3>3. Outgoing(rec[w]) \in Message /\ Outgoing(rec[w]).id = rec[w].id
        <4>1. Outgoing(rec[w]) \in Message
          BY <3>2, OutgoingTyped DEF Typed, WorkersOK, WorkerOK, Holding
        <4> QED BY <4>1 DEF Outgoing
      <3>4. \E o \in sent : o.id = rec[w].id
        BY <3>2 DEF TruthInv, Consistent, SentIn
      <3> QED BY <3>1, <3>2, <3>3, <3>4, ServeSimulated
    <2>3. CASE Report(w)
      BY <2>3, ReportSimulated
    <2>4. CASE Sign(w) \/ Load(w) \/ DropStale(w) \/ Recover(w) \/ ConfigureNew(w)
               \/ ConfigureResumed(w) \/ Create(w) \/ Save(w) \/ NoAnswer(w) \/ Remove(w)
      <3>1. UNCHANGED <<cr, sent, srv>>
        BY <2>4 DEF Sign, Load, DropStale, Recover, ConfigureNew, ConfigureResumed, Create, Save,
                    NoAnswer, Abandon, Remove, requestVars, historyVars, serverVars
      <3> QED BY <3>1, StutterSimulated
    <2> QED BY <1>1, <2>1, <2>2, <2>3, <2>4 DEF WorkerStep
  <1>2. CASE ServeLate
    <2>1. PICK m \in late : \E a \in Answers(m) : Serve(m, a)
      BY <1>2 DEF ServeLate, LateRequest
    <2>2. m \in Message /\ \E o \in sent : o.id = m.id
      BY DEF Typed, ServerTypeOK, CurrentInv
    <2>3. UNCHANGED <<cr, sent>>
      BY <1>2 DEF ServeLate, requestVars, historyVars
    <2> QED BY <2>1, <2>2, <2>3, ServeSimulated
  <1>3. CASE DeleteRequest
    BY <1>3 DEF DeleteRequest, historyVars, serverVars, Issuance!Next, Issuance!Delete
  <1>4. CASE CreateRequest
    BY <1>4 DEF CreateRequest, historyVars, serverVars, Issuance!Next, Issuance!Create
  <1>5. CASE (\E w \in Worker : Crash(w) \/ Informer(w)) \/ Expire \/ ChangeIssuer \/ RotateSecrets
             \/ CollectGarbage
    <2>1. UNCHANGED <<cr, sent, srv>>
      BY <1>5 DEF Crash, Abandon, Informer, Expire, ChangeIssuer, RotateSecrets, CollectGarbage,
                  requestVars, historyVars, serverVars
    <2> QED BY <2>1, StutterSimulated
  <1> QED BY <1>1, <1>2, <1>3, <1>4, <1>5 DEF Next, Environment

\* Sign, with its records, retries, late messages, crashes and concurrent edits,
\* implements issuance: a transaction is opened for one request, ends in at most
\* one confirmed certificate, and a request is issued only with a certificate
\* confirmed in a transaction of its own.
THEOREM Refinement == Spec => ImplementsIssuance
  <1>1. Init => Issuance!Init
    <2> SUFFICES ASSUME Init PROVE Issuance!Init
      OBVIOUS
    <2>1. {<<o.id, o.uid>> : o \in sent} = {}
      BY DEF Init
    <2>2. {x \in Txn : srv[x].state = "confirmed"} = {}
      BY DEF Init, ServerInit
    <2>3. ConfirmedPairs(srv) = {}
      BY <2>2 DEF ConfirmedPairs
    <2> QED BY <2>1, <2>3 DEF Init, Issuance!Init, ConfirmedPairs
  <1>2. Typed /\ Typed' /\ TruthInv /\ CurrentInv /\ BindInv' /\ [Next]_vars
          => [Issuance!Next]_(Issuance!vars)
    <2>1. ASSUME UNCHANGED vars PROVE UNCHANGED Issuance!vars
      BY <2>1, StutterSimulated DEF vars, requestVars, historyVars, serverVars
    <2> QED BY <2>1, StepSimulated
  <1> QED BY <1>1, <1>2, TypedInvariant, TruthInvariant, CurrentInvariant, BindingInvariant, PTL
         DEF Spec, ImplementsIssuance, Issuance!Spec
=============================================================================
