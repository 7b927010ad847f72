---------------------------- MODULE RecordProofs ----------------------------
(***************************************************************************)
(* The record of a transaction: it only advances and holds the chain       *)
(* before certConf is sent, it is not written again once it was deleted,   *)
(* what it says the server knows, so that the records implement            *)
(* Enrollment, what it says of the confirmation, and that it outlives a    *)
(* live transaction.                                                       *)
(***************************************************************************)
EXTENDS SafetyProofs

\* The steps are first-order, up to those that name another prover.
USE Zenon

-----------------------------------------------------------------------------
(* Advance: the record only advances, whatever copies the processes hold.    *)

\* Where a worker acts on the copy it read.
Reading == {"configure", "exchange", "confirm", "await"}

\* s is at least as far as r and has its chain.
Progress(r, s) ==
    /\ Rank(s.phase) >= Rank(r.phase)
    /\ r.chain # 0 => s.chain = r.chain

\* How the copy r of a worker at p relates to the record s.
Fresh(p, r, s) ==
    r.id # 0 /\ r.id = s.id =>
      /\ r.version <= s.version
      /\ p # "save" => Progress(r, s)
      /\ p \in Reading /\ r.version = s.version => r = s
      /\ p = "save" /\ r.version = s.version => Advances(s, r)

\* A chain is recorded with phase Confirming or Issued only.
Chainless(r) == r.phase \in {"New", "Enrolling", "Polling"} => r.chain = 0

\* What a worker at p that has decided o knows of its copy r.
Steady(p, o, r) ==
    /\ Chainless(r)
    /\ p = "create" => r.phase = "New"
    /\ p \in Reading \/ (p = "save" /\ o \in {"exchange", "confirm"}) => r.phase # "Issued"
    /\ p = "confirm" \/ (p = "save" /\ o = "confirm") => r.phase = "Confirming" /\ r.chain # 0

\* A server that has issued has a certificate.
Granting(s) == \A t \in Txn : s[t].state = "issued" => s[t].cert # 0

\* The inductive invariant: a copy with the version of the record is the record,
\* or the record with one more step.
CopyInv ==
    /\ Chainless(store) /\ Granting(srv)
    /\ \A w \in Worker : Fresh(pc[w], rec[w], store) /\ Steady(pc[w], out[w], rec[w])

-----------------------------------------------------------------------------
(* Records. *)

\* Phases are ordered.
LEMMA RankNat ==
  ASSUME NEW p \in Phase
  PROVE  Rank(p) \in 0..4
  BY SMT DEF Phase, Rank

\* A record is as far as itself.
LEMMA ProgressReflexive ==
  ASSUME NEW r \in Record
  PROVE  Progress(r, r)
  <1>1. Rank(r.phase) \in 0..4
    BY RankNat DEF Record
  <1> QED BY <1>1, SMT DEF Progress

\* An advance is progress, and progress adds up.
LEMMA ProgressTransitive ==
  ASSUME NEW r \in Record, NEW s \in Record, NEW t \in Record, Progress(r, s), Advances(s, t)
  PROVE  Progress(r, t)
  <1>1. Rank(r.phase) \in 0..4 /\ Rank(s.phase) \in 0..4 /\ Rank(t.phase) \in 0..4
    BY RankNat DEF Record
  <1>2. Rank(t.phase) >= Rank(s.phase) /\ (s.chain # 0 => t.chain = s.chain)
    BY DEF Advances
  <1> QED BY <1>1, <1>2, SMT DEF Progress

\* A new resourceVersion is all that the API server adds to a status.
LEMMA UpdatedFields ==
  ASSUME NEW r \in Record
  PROVE  LET u == Updated(r)
         IN  /\ u \in Record /\ u.version = r.version + 1 /\ u.id = r.id /\ u.uid = r.uid
             /\ u.issuer = r.issuer /\ u.digest = r.digest /\ u.operation = r.operation
             /\ u.fallback = r.fallback /\ u.phase = r.phase /\ u.polls = r.polls /\ u.chain = r.chain
  BY SMT DEF Updated, Record

\* So it advances what the status advances.
LEMMA AdvancesUpdated ==
  ASSUME NEW r \in Record, NEW s, Advances(s, r)
  PROVE  Advances(s, Updated(r))
  BY UpdatedFields DEF Advances

\* The empty record is related to every record.
LEMMA FreshNone ==
  ASSUME NEW p, NEW s, NEW r, r.id = 0 \/ s.id = 0
  PROVE  Fresh(p, r, s)
  BY DEF Fresh

\* A record that was just read is fresh.
LEMMA FreshRead ==
  ASSUME NEW r \in Record, NEW p, p # "save"
  PROVE  Fresh(p, r, r)
  <1>1. r.version <= r.version
    BY SMT DEF Record
  <1> QED BY <1>1, ProgressReflexive DEF Fresh

\* Going on with a copy keeps it fresh, unless it is changed.
LEMMA FreshMove ==
  ASSUME NEW p, NEW q, NEW r, NEW s, Fresh(p, r, s), p # "save", q # "save",
         q \in Reading => p \in Reading
  PROVE  Fresh(q, r, s)
  BY DEF Fresh

\* An update makes all older copies outdated.
LEMMA FreshAfterUpdate ==
  ASSUME NEW p, NEW x \in Record, NEW s \in Record, NEW r \in Record,
         Fresh(p, x, s), Advances(s, r), r.id = s.id, r.version = s.version
  PROVE  Fresh(p, x, Updated(r))
  <1> DEFINE u == Updated(r)
  <1>1. u \in Record /\ u.id = s.id /\ u.version = s.version + 1 /\ Advances(s, u)
    BY UpdatedFields, AdvancesUpdated, ZenonT(40)
  <1>2. x.version \in Nat /\ s.version \in Nat
    BY DEF Record
  <1> HIDE DEF u
  <1>3. ASSUME x.id # 0, x.id = s.id PROVE x.version <= u.version /\ x.version # u.version
    BY <1>1, <1>2, <1>3, SMT DEF Fresh
  <1>4. ASSUME x.id # 0, x.id = s.id, p # "save" PROVE Progress(x, u)
    BY <1>1, <1>4, ProgressTransitive DEF Fresh
  <1>5. Fresh(p, x, u)
    BY <1>1, <1>3, <1>4 DEF Fresh
  <1> QED BY <1>5 DEF u

\* The copy of a worker that is about to save what it made of the record.
LEMMA FreshSave ==
  ASSUME NEW r, NEW s, NEW x, Fresh("await", r, s), x.id = r.id, x.version = r.version, Advances(r, x)
  PROVE  Fresh("save", x, s)
  BY DEF Fresh, Reading

\* x differs from r in phase, chain and nonces, and by at most one poll.
Kept(r, x) ==
    /\ x.id = r.id /\ x.version = r.version /\ x.uid = r.uid /\ x.issuer = r.issuer
    /\ x.digest = r.digest /\ x.operation = r.operation /\ x.fallback = r.fallback
    /\ x.polls \in {r.polls, r.polls + 1}

\* What the record functions leave alone and what they set.
LEMMA StatusFields ==
  ASSUME NEW r \in Record, NEW c, NEW n, NEW q
  PROVE  /\ LET x == recordPending(Counted(r), n)
            IN  Kept(r, x) /\ x.phase = "Polling" /\ x.chain = r.chain
         /\ \A y \in {r, Counted(r)} :
              LET x == recordConfirming(y, c, n, q)
              IN  Kept(r, x) /\ x.phase = "Confirming" /\ x.chain = c
         /\ LET x == recordIssued(r, c)
            IN  Kept(r, x) /\ x.phase = "Issued" /\ x.chain = c
  <1>1. Kept(r, Counted(r)) /\ Counted(r).chain = r.chain /\ DOMAIN Counted(r) = DOMAIN r
    BY DEF Record, Counted, Kept
  <1>2. DOMAIN r = {"id", "uid", "issuer", "digest", "operation", "fallback", "version", "phase",
                    "polls", "requestNonce", "recipNonce", "chain"}
    BY DEF Record
  <1>3. LET x == recordPending(Counted(r), n)
        IN  Kept(r, x) /\ x.phase = "Polling" /\ x.chain = r.chain
    BY <1>1, <1>2 DEF recordPending, Kept
  <1>4. ASSUME NEW y \in {r, Counted(r)}
        PROVE  LET x == recordConfirming(y, c, n, q)
               IN  Kept(r, x) /\ x.phase = "Confirming" /\ x.chain = c
    <2>1. CASE y = r
      BY <1>2, <2>1 DEF recordConfirming, Kept
    <2>2. CASE y = Counted(r)
      BY <1>1, <1>2, <2>2 DEF recordConfirming, Kept
    <2> QED BY <2>1, <2>2
  <1>5. LET x == recordIssued(r, c)
        IN  Kept(r, x) /\ x.phase = "Issued" /\ x.chain = c
    BY <1>2 DEF recordIssued, Kept
  <1> QED BY <1>3, <1>4, <1>5

-----------------------------------------------------------------------------
(* The server. *)

\* Which messages the answers belong to, and that a certificate is granted.
LEMMA AnswerKinds ==
  ASSUME ServerTypeOK, Granting(srv), NEW m \in Message, NEW a, Serve(m, a)
  PROVE  /\ m.kind # "reject" =>
            /\ a.reply.kind \in {"waiting", "granted", "implicit"} => m.kind \in {"enroll", "pollReq"}
            /\ a.reply.kind \in {"confWaiting", "pkiConf"} => m.kind \in {"certConf", "confPoll"}
         /\ a.reply.kind = "granted" => a.reply.cert # 0
         /\ Granting(srv')
  <1> DEFINE s == srv[m.id]
             Good(x) == /\ x.reply.kind = "granted" => x.reply.cert # 0
                        /\ x.srv.state = "issued" => x.srv.cert # 0
             Kind(x) == x.reply.kind
  <1>0. /\ s \in ServerState /\ s.cert \in Nat /\ (s.state = "issued" => s.cert # 0)
        /\ srv' = [srv EXCEPT ![m.id] = a.srv] /\ a \in Answers(m) /\ srv \in [Txn -> ServerState]
        /\ m.id \in Txn
    BY BoundsAssumption, SMT DEF ServerTypeOK, Message, ServerState, Granting, Serve
  <1> HIDE DEF s
  <1>1. \A x \in Errors(s) : Good(x) /\ Kind(x) \in {"retryable", "permanent"}
    BY <1>0, SMT DEF Errors, Answer
  <1>2. \A x \in Waiting(s) : Good(x) /\ Kind(x) = "waiting"
    BY <1>0, SMT DEF Waiting, Answer, ServerState
  <1>3. \A x \in Grant(s) : Good(x) /\ Kind(x) \in {"granted", "implicit"}
    BY <1>0, SMT DEF Grant, Answer
  <1>4. \A x \in CertificateAnswers(s) : Good(x) /\ Kind(x) \in {"waiting", "granted", "implicit"}
    <2>1. s.state = "issued" => Good(Answer(s, "granted", s.cert, TRUE))
                                /\ Kind(Answer(s, "granted", s.cert, TRUE)) = "granted"
      BY <1>0 DEF Answer
    <2>2. s.state = "confirmed" => Good(Answer(s, "implicit", s.cert, TRUE))
                                   /\ Kind(Answer(s, "implicit", s.cert, TRUE)) = "implicit"
      BY <1>0 DEF Answer
    <2> HIDE DEF Good, Kind
    <2> QED BY <1>2, <1>3, <2>1, <2>2 DEF CertificateAnswers, Repeat
  <1>5. \A x \in PkiConf(s) : Good(x) /\ Kind(x) = "pkiConf"
    BY <1>0, SMT DEF PkiConf, Answer, ServerState
  <1>6. \A x \in Delay(s) : Good(x) /\ Kind(x) = "confWaiting"
    BY <1>0, SMT DEF Delay, Answer, ServerState
  <1>7. \A x \in RejectionAnswers(s, m.cert) : Good(x)
    BY <1>0, SMT DEF RejectionAnswers, Answer, ServerState
  <1> HIDE DEF Good, Kind
  <1>8. \A x \in ConfirmationAnswers(s, m.cert) : Good(x) /\ Kind(x) \in {"pkiConf", "confWaiting"}
    BY <1>5, <1>6 DEF ConfirmationAnswers
  <1>9. /\ Good(a)
        /\ m.kind # "reject" =>
             \/ Kind(a) \in {"retryable", "permanent"}
             \/ m.kind \in {"enroll", "pollReq"} /\ Kind(a) \in {"waiting", "granted", "implicit"}
             \/ m.kind \in {"certConf", "confPoll"} /\ Kind(a) \in {"pkiConf", "confWaiting"}
    <2>1. CASE a \in Errors(s)
      BY <1>1, <2>1
    <2>2. CASE m.kind \in {"enroll", "pollReq"} /\ a \in CertificateAnswers(s)
      BY <1>4, <2>2
    <2>3. CASE m.kind \in {"certConf", "confPoll"} /\ a \in ConfirmationAnswers(s, m.cert)
      BY <1>8, <2>3
    <2>4. CASE m.kind = "reject" /\ a \in RejectionAnswers(s, m.cert)
      BY <1>7, <2>4
    <2> QED BY <1>0, <2>1, <2>2, <2>3, <2>4 DEF Answers, AnswersTo, Message, s
  <1>10. Granting(srv')
    <2> SUFFICES ASSUME NEW t \in Txn, srv'[t].state = "issued" PROVE srv'[t].cert # 0
      BY DEF Granting
    <2>1. CASE t = m.id
      BY <1>0, <1>9, <2>1 DEF Good
    <2>2. CASE t # m.id
      BY <1>0, <2>2 DEF Granting
    <2> QED BY <2>1, <2>2
  <1> QED BY <1>9, <1>10 DEF Good, Kind

-----------------------------------------------------------------------------
(* Writes to the store. *)

\* A step leaves the record alone or makes one of the writes of the store, a
\* status update only from the copy of a worker that saves.
StoreMoves ==
    \/ UNCHANGED <<store, closed, nextTxn>>
    \/ \E r \in Record : DeleteObject(r) /\ (r = store \/ \E w \in Worker : r = rec[w])
    \/ \E w \in Worker : pc[w] = "save" /\ UpdateStatus(rec[w])
    \/ \E w \in Worker : pc[w] = "create" /\ CreateObject(rec[w])

\* That is so for every step.
LEMMA EveryStepMoves ==
  ASSUME Typed, Next
  PROVE  StoreMoves
  <1>0. store \in Record /\ \A w \in Worker : rec[w] \in Record
    BY DEF Typed, StoreOK, StoreTypeOK, WorkersOK
  <1>1. ASSUME NEW w \in Worker, WorkerStep(w) PROVE StoreMoves
    <2>1. CASE DropStale(w) \/ Remove(w)
      BY <1>0, <2>1 DEF DropStale, Remove, StoreMoves, storeVars
    <2>2. CASE Create(w)
      BY <2>2 DEF Create, StoreMoves, storeVars
    <2>3. CASE Save(w)
      BY <2>3 DEF Save, StoreMoves, storeVars
    <2>4. CASE UNCHANGED storeVars
      BY <2>4 DEF storeVars, StoreMoves
    <2> QED BY <1>1, <2>1, <2>2, <2>3, <2>4 DEF WorkerStep, Sign, Load, Recover, ConfigureNew,
                 ConfigureResumed, Exchange, Confirm, Send, FailBeforeSending, Answered, Refuse,
                 NoAnswer, Report
  <1>2. CASE Environment
    <2>1. CASE UNCHANGED storeVars
      BY <2>1 DEF storeVars, StoreMoves
    <2>2. CASE DeleteObject(store)
      BY <1>0, <2>2 DEF StoreMoves
    <2> QED BY <1>2, <2>1, <2>2 DEF Environment, Crash, Informer, ServeLate, Expire, ChangeIssuer,
                    RotateSecrets, DeleteRequest, CreateRequest, CollectGarbage
  <1> QED BY <1>1, <1>2 DEF Next

\* Copies hold no identifier that is still to be handed out.
LEMMA CopiesAreOld ==
  ASSUME BindInv
  PROVE  \A w \in Worker : rec[w].id # 0 => rec[w].id < nextTxn
  BY DEF BindInv, Bound, Agrees

\* The copies stay fresh when the record changes.
LEMMA CopiesStayFresh ==
  ASSUME Typed, BindInv, CopyInv, StoreMoves
  PROVE  Chainless(store') /\ \A v \in Worker : Fresh(pc[v], rec[v], store')
  <1>0. /\ store \in Record /\ nextTxn \in Nat /\ NoRecord.id = 0 /\ Chainless(NoRecord)
        /\ Chainless(store) /\ \A v \in Worker : rec[v] \in Record /\ Fresh(pc[v], rec[v], store)
    BY BoundsAssumption, SMT DEF Typed, StoreOK, StoreTypeOK, WorkersOK, NoRecord, Chainless,
         CopyInv
  <1>1. CASE UNCHANGED store
    BY <1>0, <1>1
  <1>2. ASSUME NEW r \in Record, DeleteObject(r)
        PROVE  Chainless(store') /\ \A v \in Worker : Fresh(pc[v], rec[v], store')
    <2>1. CASE store' = store
      BY <1>0, <2>1
    <2>2. CASE store' = NoRecord
      BY <1>0, <2>2, FreshNone
    <2> QED BY <1>2, <2>1, <2>2 DEF DeleteObject
  <1>3. ASSUME NEW w \in Worker, pc[w] = "save", UpdateStatus(rec[w])
        PROVE  Chainless(store') /\ \A v \in Worker : Fresh(pc[v], rec[v], store')
    <2>1. /\ store' = Updated(rec[w]) /\ rec[w].id = store.id /\ rec[w].version = store.version
          /\ rec[w].id # 0
      BY <1>3, BoundsAssumption, SMT DEF UpdateStatus, Current, Typed, WorkersOK, WorkerOK,
           Holding, Txn
    <2>2. Advances(store, rec[w]) /\ Chainless(rec[w])
      BY <1>0, <1>3, <2>1 DEF CopyInv, Fresh, Steady
    <2>3. Chainless(store')
      BY <1>0, <2>1, <2>2, UpdatedFields DEF Chainless
    <2>4. \A v \in Worker : Fresh(pc[v], rec[v], Updated(rec[w]))
      BY <1>0, <2>1, <2>2, FreshAfterUpdate
    <2> QED BY <2>1, <2>3, <2>4
  <1>4. ASSUME NEW w \in Worker, pc[w] = "create", CreateObject(rec[w])
        PROVE  Chainless(store') /\ \A v \in Worker : Fresh(pc[v], rec[v], store')
    <2>1. store'.id = nextTxn /\ store'.phase = "New" /\ store'.chain = rec[w].chain
      BY <1>0, <1>4 DEF CreateObject, NewRecord, Record
    <2>2. rec[w].chain = 0
      BY <1>4 DEF CopyInv, Steady, Chainless
    <2>3. \A v \in Worker : rec[v].id # 0 => rec[v].id # store'.id
      <3> SUFFICES ASSUME NEW v \in Worker, rec[v].id # 0 PROVE rec[v].id # store'.id
        OBVIOUS
      <3>1. rec[v].id \in Nat /\ rec[v].id < nextTxn
        BY <1>0, CopiesAreOld, SMT DEF Record
      <3> QED BY <1>0, <2>1, <3>1, SMT
    <2> QED BY <2>1, <2>2, <2>3 DEF Fresh, Chainless
  <1> QED BY <1>1, <1>2, <1>3, <1>4 DEF StoreMoves

-----------------------------------------------------------------------------
(* Every step keeps CopyInv. *)

\* A worker that moves with a copy that fits its place.
LEMMA DecideCopies ==
  ASSUME WorkersOK, CopyInv, NEW w \in Worker, NEW p, NEW o, NEW r, Decide(w, p, o, r),
         Fresh(p, r, store'), Steady(p, o, r), \A v \in Worker : Fresh(pc[v], rec[v], store')
  PROVE  \A v \in Worker : Fresh(pc'[v], rec'[v], store') /\ Steady(pc'[v], out'[v], rec'[v])
  <1> SUFFICES ASSUME NEW v \in Worker
               PROVE  Fresh(pc'[v], rec'[v], store') /\ Steady(pc'[v], out'[v], rec'[v])
    OBVIOUS
  <1>1. CASE v = w
    <2>1. pc'[v] = p /\ out'[v] = o /\ rec'[v] = r
      BY <1>1 DEF Decide, WorkersOK
    <2> QED BY <2>1
  <1>2. CASE v # w
    <2>1. pc'[v] = pc[v] /\ out'[v] = out[v] /\ rec'[v] = rec[v]
      BY <1>2 DEF Decide, WorkersOK
    <2> QED BY <2>1 DEF CopyInv
  <1> QED BY <1>1, <1>2

\* One that forgets its copy.
LEMMA ResetCopies ==
  ASSUME WorkersOK, CopyInv, NEW w \in Worker, Reset(w), \A v \in Worker : Fresh(pc[v], rec[v], store')
  PROVE  \A v \in Worker : Fresh(pc'[v], rec'[v], store') /\ Steady(pc'[v], out'[v], rec'[v])
  <1> SUFFICES ASSUME NEW v \in Worker
               PROVE  Fresh(pc'[v], rec'[v], store') /\ Steady(pc'[v], out'[v], rec'[v])
    OBVIOUS
  <1>1. CASE v = w
    <2>1. pc'[v] = "idle" /\ rec'[v] = NoRecord /\ NoRecord.id = 0 /\ Chainless(NoRecord)
      BY <1>1 DEF Reset, WorkersOK, NoRecord, Chainless
    <2> QED BY <2>1, FreshNone DEF Steady, Reading
  <1>2. CASE v # w
    <2>1. pc'[v] = pc[v] /\ out'[v] = out[v] /\ rec'[v] = rec[v]
      BY <1>2 DEF Reset, WorkersOK
    <2> QED BY <2>1 DEF CopyInv
  <1> QED BY <1>1, <1>2

\* What a worker makes of an answer advances its copy.
LEMMA AcceptCopies ==
  ASSUME Typed, BindInv, CopyInv, NEW w \in Worker, Answered(w)
  PROVE  CopyInv'
  <1> DEFINE r == rec[w]
             m == Outgoing(r)
  <1>0. /\ WorkersOK /\ r \in Record /\ pc[w] = "await" /\ m \in Message /\ store' = store
        /\ Chainless(store) /\ Fresh("await", r, store) /\ Steady("await", out[w], r)
        /\ \A v \in Worker : Fresh(pc[v], rec[v], store')
    BY OutgoingTyped DEF Answered, Typed, WorkersOK, WorkerOK, Holding, storeVars, CopyInv
  <1>1. /\ Chainless(r) /\ r.phase \in {"New", "Enrolling", "Polling", "Confirming"}
        /\ m.kind # "reject" /\ m.kind \in {"enroll", "pollReq", "certConf", "confPoll"}
        /\ m.kind \in {"enroll", "pollReq"} => r.phase \in {"New", "Enrolling", "Polling"}
        /\ m.kind \in {"certConf", "confPoll"} => r.phase = "Confirming"
    BY <1>0 DEF Steady, Reading, Outgoing, Record, Phase
  <1> HIDE DEF m
  <1>2. PICK a : Serve(m, a) /\ Accept(w, a.reply)
    BY DEF Answered, m
  <1>3. /\ a.reply \in Reply /\ Granting(srv')
        /\ a.reply.kind \in {"waiting", "granted", "implicit"} =>
              r.phase \in {"New", "Enrolling", "Polling"} /\ r.chain = 0
        /\ a.reply.kind \in {"confWaiting", "pkiConf"} => r.phase = "Confirming"
        /\ a.reply.kind = "granted" => a.reply.cert # 0
    <2>1. ServerTypeOK /\ Granting(srv)
      BY DEF Typed, CopyInv
    <2>2. a.reply \in Reply
      BY <1>0, <1>2, <2>1, ServeTyped
    <2> QED BY <1>0, <1>1, <1>2, <2>1, <2>2, AnswerKinds DEF Chainless
  <1>4. ASSUME NEW p, NEW o, NEW x, Decide(w, p, o, x), Fresh(p, x, store), Steady(p, o, x)
        PROVE  CopyInv'
    <2>1. \A v \in Worker : Fresh(pc'[v], rec'[v], store') /\ Steady(pc'[v], out'[v], rec'[v])
      BY <1>0, <1>4, DecideCopies
    <2> QED BY <1>0, <1>3, <2>1 DEF CopyInv
  <1>5. ASSUME NEW o, NEW x, SaveRecord(w, o, x), Kept(r, x), Rank(x.phase) >= Rank(r.phase),
               r.chain # 0 => x.chain = r.chain, Chainless(x), o # "exchange",
               o = "confirm" => x.phase = "Confirming" /\ x.chain # 0
        PROVE  CopyInv'
    <2>1. Advances(r, x)
      BY <1>5 DEF Kept, Advances
    <2>2. Fresh("save", x, store)
      BY <1>0, <1>5, <2>1, FreshSave DEF Kept
    <2>3. Steady("save", o, x)
      BY <1>5 DEF Steady, Reading
    <2> QED BY <1>4, <1>5, <2>2, <2>3 DEF SaveRecord
  <1>6. /\ Rank("New") = 0 /\ Rank("Enrolling") = 1 /\ Rank("Polling") = 2
        /\ Rank("Confirming") = 3 /\ Rank("Issued") = 4
    BY DEF Rank
  <1> DEFINE reply == a.reply
  <1>7. CASE reply.kind = "waiting"
    <2> DEFINE x == recordPending(Counted(r), reply.nonce)
    <2>1. SaveRecord(w, "pending", x)
      BY <1>2, <1>7 DEF Accept
    <2>2. Kept(r, x) /\ x.phase = "Polling" /\ x.chain = r.chain
      BY <1>0, StatusFields, SMT
    <2> HIDE DEF x
    <2>3. Rank(x.phase) >= Rank(r.phase) /\ Chainless(x)
      BY <1>3, <1>6, <1>7, <2>2, SMT DEF Chainless
    <2> QED BY <1>5, <2>1, <2>2, <2>3
  <1>8. CASE reply.kind = "granted"
    <2> DEFINE x == recordConfirming(r, reply.cert, reply.nonce, "none")
    <2>1. SaveRecord(w, "confirm", x)
      BY <1>2, <1>8 DEF Accept
    <2>2. Kept(r, x) /\ x.phase = "Confirming" /\ x.chain = reply.cert
      BY <1>0, StatusFields, SMT
    <2> HIDE DEF x
    <2>3. Rank(x.phase) >= Rank(r.phase) /\ Chainless(x) /\ r.chain = 0 /\ x.chain # 0
      BY <1>3, <1>6, <1>8, <2>2, SMT DEF Chainless
    <2> QED BY <1>5, <2>1, <2>2, <2>3
  <1>9. CASE reply.kind = "implicit"
    <2> DEFINE x == recordIssued(r, reply.cert)
    <2>1. SaveRecord(w, "signed", x)
      BY <1>2, <1>9 DEF Accept
    <2>2. Kept(r, x) /\ x.phase = "Issued" /\ x.chain = reply.cert
      BY <1>0, StatusFields, SMT
    <2> HIDE DEF x
    <2>3. Rank(x.phase) >= Rank(r.phase) /\ Chainless(x) /\ r.chain = 0
      BY <1>3, <1>6, <1>9, <2>2, SMT DEF Chainless
    <2> QED BY <1>5, <2>1, <2>2, <2>3
  <1>10. CASE reply.kind = "confWaiting"
    <2> DEFINE x == recordConfirming(Counted(r), r.chain, reply.nonce, "certConf")
    <2>1. SaveRecord(w, "pending", x)
      BY <1>2, <1>10 DEF Accept
    <2>2. Kept(r, x) /\ x.phase = "Confirming" /\ x.chain = r.chain
      BY <1>0, StatusFields, SMT
    <2> HIDE DEF x
    <2>3. Rank(x.phase) >= Rank(r.phase) /\ Chainless(x)
      BY <1>3, <1>6, <1>10, <2>2, SMT DEF Chainless
    <2> QED BY <1>5, <2>1, <2>2, <2>3
  <1>11. CASE reply.kind = "pkiConf"
    <2> DEFINE x == recordIssued(r, r.chain)
    <2>1. SaveRecord(w, "signed", x)
      BY <1>2, <1>11 DEF Accept
    <2>2. Kept(r, x) /\ x.phase = "Issued" /\ x.chain = r.chain
      BY <1>0, StatusFields, SMT
    <2> HIDE DEF x
    <2>3. Rank(x.phase) >= Rank(r.phase) /\ Chainless(x)
      BY <1>3, <1>6, <1>11, <2>2, SMT DEF Chainless
    <2> QED BY <1>5, <2>1, <2>2, <2>3
  <1>12. CASE reply.kind = "permanent"
    <2>1. Decide(w, "remove", "permanent", r)
      BY <1>2, <1>12 DEF Accept, FailTransaction
    <2>2. Fresh("remove", r, store) /\ Steady("remove", "permanent", r)
      BY <1>0, <1>1, FreshMove DEF Reading, Steady
    <2> QED BY <1>4, <2>1, <2>2
  <1>13. CASE reply.kind = "retryable"
    <2>1. Decide(w, "report", "pending", NoRecord)
      BY <1>2, <1>13 DEF Accept, Return
    <2>2. Fresh("report", NoRecord, store) /\ Steady("report", "pending", NoRecord)
      BY DEF Fresh, Steady, Reading, Chainless, NoRecord
    <2> QED BY <1>4, <2>1, <2>2
  <1> QED BY <1>3, <1>7, <1>8, <1>9, <1>10, <1>11, <1>12, <1>13 DEF Reply

\* The other steps of a worker.
LEMMA WorkerStepCopies ==
  ASSUME Typed, BindInv, CopyInv, NEW w \in Worker, WorkerStep(w), StoreMoves
  PROVE  CopyInv'
  <1>0. /\ WorkersOK /\ WorkerOK(w) /\ rec[w] \in Record /\ store \in Record /\ NoRecord.id = 0
        /\ Chainless(NoRecord) /\ Chainless(store) /\ Chainless(rec[w])
        /\ Granting(srv) /\ Steady(pc[w], out[w], rec[w])
    BY DEF Typed, WorkersOK, StoreOK, StoreTypeOK, CopyInv, Steady, NoRecord, Chainless
  <1>1. Chainless(store') /\ \A v \in Worker : Fresh(pc[v], rec[v], store')
    BY CopiesStayFresh
  <1>2. Granting(srv')
    <2>1. CASE UNCHANGED srv
      BY <1>0, <2>1
    <2>2. CASE Answered(w) \/ Refuse(w)
      <3>1. Outgoing(rec[w]) \in Message
        BY <1>0, <2>2, OutgoingTyped DEF Answered, Refuse, WorkerOK, Holding
      <3>2. PICK a : Serve(Outgoing(rec[w]), a)
        BY <2>2 DEF Answered, Refuse
      <3> QED BY <1>0, <3>1, <3>2, AnswerKinds DEF Typed
    <2> QED BY <2>1, <2>2 DEF WorkerStep, Sign, Load, DropStale, Recover, ConfigureNew,
                 ConfigureResumed, Create, Save, Exchange, Confirm, Send, FailBeforeSending,
                 NoAnswer, Remove, Report, Abandon, serverVars
  <1>3. ASSUME NEW p, NEW o, NEW r, Decide(w, p, o, r), Fresh(p, r, store'), Steady(p, o, r)
        PROVE  CopyInv'
    <2>1. \A v \in Worker : Fresh(pc'[v], rec'[v], store') /\ Steady(pc'[v], out'[v], rec'[v])
      BY <1>0, <1>1, <1>3, DecideCopies
    <2> QED BY <1>1, <1>2, <2>1 DEF CopyInv
  <1>4. ASSUME NEW o, Return(w, o), pc[w] # "save" \/ o # "signed" PROVE CopyInv'
    <2>1. CASE o = "signed"
      <3>1. Fresh("report", rec[w], store') /\ Steady("report", o, rec[w])
        BY <1>0, <1>1, <1>4, <2>1, FreshMove DEF Reading, Steady
      <3> QED BY <1>3, <1>4, <2>1, <3>1 DEF Return
    <2>2. CASE o # "signed"
      <3>1. Fresh("report", NoRecord, store') /\ Steady("report", o, NoRecord)
        BY <1>0, FreshNone DEF Reading, Steady
      <3> QED BY <1>3, <1>4, <2>2, <3>1 DEF Return
    <2> QED BY <2>1, <2>2
  <1>5. ASSUME FailTransaction(w, rec[w]), pc[w] # "save" PROVE CopyInv'
    <2>1. Fresh("remove", rec[w], store') /\ Steady("remove", "permanent", rec[w])
      BY <1>0, <1>1, <1>5, FreshMove DEF Reading, Steady
    <2> QED BY <1>3, <1>5, <2>1 DEF FailTransaction
  <1>6. CASE Sign(w)
    <2> SUFFICES ASSUME NEW v \in Worker
                 PROVE  Fresh(pc'[v], rec'[v], store') /\ Steady(pc'[v], out'[v], rec'[v])
      BY <1>1, <1>2 DEF CopyInv
    <2>1. CASE v = w
      <3>1. rec'[v] = rec[w] /\ pc'[v] \in {"load", "report"} /\ pc[w] = "idle"
        BY <1>0, <1>6, <2>1 DEF Sign, WorkersOK
      <3>2. Fresh(pc'[v], rec[w], store')
        BY <1>1, <3>1, FreshMove DEF Reading
      <3> QED BY <1>0, <3>1, <3>2 DEF Steady, Reading
    <2>2. CASE v # w
      <3>1. rec'[v] = rec[v] /\ pc'[v] = pc[v] /\ out'[v] = out[v]
        BY <1>0, <1>6, <2>2 DEF Sign, WorkersOK
      <3> QED BY <1>1, <3>1 DEF CopyInv
    <2> QED BY <2>1, <2>2
  <1>7. CASE Load(w)
    <2>0. pc[w] = "load" /\ store' = store
      BY <1>7 DEF Load, storeVars
    <2>1. CASE Continue(w, "configure", NoRecord)
      <3>1. Fresh("configure", NoRecord, store') /\ Steady("configure", "none", NoRecord)
        BY <1>0, FreshNone DEF Steady, NoRecord
      <3> QED BY <1>3, <2>1, <3>1 DEF Continue
    <2>2. ASSUME NEW p \in {"dropStale", "recover", "configure", "remove"}, NEW o, Decide(w, p, o, store),
                 p = "configure" => store.phase # "Issued"
          PROVE  CopyInv'
      <3>1. Fresh(p, store, store') /\ Steady(p, o, store)
        BY <1>0, <2>0, <2>2, FreshRead DEF Steady, Reading
      <3> QED BY <1>3, <2>2, <3>1
    <2>3. CASE Resume(w, store)
      BY <2>2, <2>3 DEF Resume, FailTransaction, Continue
    <2> QED BY <1>4, <1>7, <2>0, <2>1, <2>2, <2>3 DEF Load, Continue
  <1>8. CASE DropStale(w)
    <2>1. Fresh("configure", NoRecord, store') /\ Steady("configure", "none", NoRecord)
      BY <1>0, FreshNone DEF Steady, NoRecord
    <2> QED BY <1>3, <1>4, <1>8, <2>1 DEF DropStale, Continue
  <1>9. CASE Recover(w)
    BY <1>4, <1>5, <1>9 DEF Recover
  <1>10. CASE ConfigureNew(w)
    <2>1. ASSUME NEW s, Continue(w, "create",
                      [NoRecord EXCEPT !.uid = req[w], !.issuer = iss[w], !.digest = rotation,
                                       !.operation = s.operation, !.fallback = s.fallback])
          PROVE  CopyInv'
      <3> DEFINE d == [NoRecord EXCEPT !.uid = req[w], !.issuer = iss[w], !.digest = rotation,
                                       !.operation = s.operation, !.fallback = s.fallback]
      <3>1. d.id = 0 /\ d.phase = "New" /\ d.chain = 0
        BY DEF NoRecord
      <3> HIDE DEF d
      <3>2. Fresh("create", d, store') /\ Steady("create", "none", d)
        BY <3>1, FreshNone DEF Steady, Chainless, Reading
      <3> QED BY <1>3, <2>1, <3>2 DEF Continue, d
    <2> QED BY <1>4, <1>10, <2>1 DEF ConfigureNew
  <1>11. CASE ConfigureResumed(w)
    <2>0. pc[w] = "configure" /\ rec[w].phase # "Issued"
      BY <1>0, <1>11 DEF ConfigureResumed, Steady, Reading
    <2>1. CASE Continue(w, "exchange", rec[w])
      <3>1. Fresh("exchange", rec[w], store') /\ Steady("exchange", "none", rec[w])
        BY <1>0, <1>1, <2>0, FreshMove DEF Reading, Steady
      <3> QED BY <1>3, <2>1, <3>1 DEF Continue
    <2>2. CASE rec[w].phase = "Confirming" /\ rec[w].chain # 0 /\ Continue(w, "confirm", rec[w])
      <3>1. Fresh("confirm", rec[w], store') /\ Steady("confirm", "none", rec[w])
        BY <1>0, <1>1, <2>0, <2>2, FreshMove DEF Reading, Steady
      <3> QED BY <1>3, <2>2, <3>1 DEF Continue
    <2> QED BY <1>4, <1>5, <1>11, <2>0, <2>1, <2>2 DEF ConfigureResumed
  <1>12. CASE Create(w)
    <2> DEFINE n == NewRecord(rec[w])
               e == recordEnrolling(n)
    <2>0. pc[w] = "create" /\ rec[w].chain = 0
      BY <1>0, <1>12 DEF Create, Steady, Chainless
    <2>1. CASE CreateObject(rec[w]) /\ SaveRecord(w, "exchange", e)
      <3>1. /\ n.phase = "New" /\ n.chain = 0 /\ n.polls \in Nat /\ n.version \in Nat
            /\ e.id = n.id /\ e.version = n.version /\ e.uid = n.uid /\ e.issuer = n.issuer
            /\ e.digest = n.digest /\ e.operation = n.operation /\ e.fallback = n.fallback
            /\ e.polls = n.polls /\ e.phase = "Enrolling" /\ e.chain = 0
        BY <1>0, <2>0, SMT DEF Record, NewRecord, recordEnrolling
      <3>2. store' = n
        BY <2>1 DEF CreateObject
      <3> HIDE DEF n, e
      <3>3. Advances(n, e)
        BY <3>1, SMT DEF Advances, Rank
      <3>4. Fresh("save", e, store') /\ Steady("save", "exchange", e)
        BY <3>1, <3>2, <3>3, SMT DEF Fresh, Steady, Chainless, Reading
      <3> QED BY <1>3, <2>1, <3>4 DEF SaveRecord
    <2> QED BY <1>4, <1>12, <2>0, <2>1 DEF Create
  <1>13. CASE Save(w)
    <2> DEFINE u == Updated(rec[w])
    <2>0. /\ pc[w] = "save" /\ u \in Record /\ u.version = rec[w].version + 1 /\ u.id = rec[w].id
          /\ u.phase = rec[w].phase /\ u.chain = rec[w].chain /\ rec[w].version \in Nat
      BY <1>0, <1>13, UpdatedFields DEF Save, Record
    <2>1. CASE UpdateStatus(rec[w]) /\ out[w] \in {"exchange", "confirm"} /\ Continue(w, out[w], u)
      <3>1. store' = u
        BY <2>1 DEF UpdateStatus
      <3> HIDE DEF u
      <3>2. Fresh(out[w], u, store') /\ Steady(out[w], "none", u)
        BY <1>0, <2>0, <2>1, <3>1, FreshRead DEF Steady, Chainless
      <3> QED BY <1>3, <2>1, <3>2 DEF Continue
    <2>2. CASE UpdateStatus(rec[w]) /\ Return(w, out[w]) /\ out[w] = "signed"
      <3>1. store' = u
        BY <2>2 DEF UpdateStatus
      <3> HIDE DEF u
      <3>2. Rank(rec[w].phase) \in 0..4
        BY <1>0, RankNat DEF Record
      <3>3. Fresh("report", rec[w], store') /\ Steady("report", "signed", rec[w])
        BY <1>0, <2>0, <3>1, <3>2, SMT DEF Fresh, Progress, Steady, Reading
      <3> QED BY <1>3, <2>2, <3>3 DEF Return
    <2> QED BY <1>4, <1>13, <2>1, <2>2 DEF Save
  <1>14. CASE Exchange(w) \/ Confirm(w)
    <2>1. pc[w] \in {"exchange", "confirm"}
      BY <1>14 DEF Exchange, Confirm
    <2>2. CASE Send(w)
      <3>1. Fresh("await", rec[w], store') /\ Steady("await", "none", rec[w])
        BY <1>0, <1>1, <2>1, FreshMove DEF Reading, Steady
      <3> QED BY <1>3, <2>2, <3>1 DEF Send, Continue
    <2>3. CASE FailBeforeSending(w)
      BY <1>5, <2>1, <2>3 DEF FailBeforeSending
    <2> QED BY <1>14, <2>2, <2>3 DEF Exchange, Confirm
  <1>15. CASE Answered(w)
    BY <1>15, AcceptCopies
  <1>16. CASE Refuse(w)
    BY <1>5, <1>16 DEF Refuse
  <1>17. CASE NoAnswer(w)
    BY <1>4, <1>17 DEF NoAnswer
  <1>18. CASE Remove(w)
    BY <1>4, <1>18 DEF Remove
  <1>19. CASE Report(w)
    <2>1. Reset(w)
      BY <1>19 DEF Report
    <2> QED BY <1>0, <1>1, <1>2, <2>1, ResetCopies DEF CopyInv
  <1> QED BY <1>6, <1>7, <1>8, <1>9, <1>10, <1>11, <1>12, <1>13, <1>14, <1>15, <1>16, <1>17, <1>18,
             <1>19 DEF WorkerStep

\* And those of the environment.
LEMMA EnvironmentCopies ==
  ASSUME Typed, BindInv, CopyInv, Environment, StoreMoves
  PROVE  CopyInv'
  <1>1. Chainless(store') /\ \A v \in Worker : Fresh(pc[v], rec[v], store')
    BY CopiesStayFresh
  <1>2. Granting(srv')
    <2>1. CASE UNCHANGED srv
      BY <2>1 DEF CopyInv
    <2>2. CASE LateRequest
      <3>1. PICK m \in late : \E a \in Answers(m) : Serve(m, a)
        BY <2>2 DEF LateRequest
      <3>2. m \in Message
        BY DEF Typed, ServerTypeOK
      <3> QED BY <3>1, <3>2, AnswerKinds DEF Typed, CopyInv
    <2> QED BY <2>1, <2>2 DEF Environment, Crash, Informer, ServeLate, Expire, ChangeIssuer,
              RotateSecrets, DeleteRequest, CreateRequest, CollectGarbage, Abandon, serverVars
  <1>3. CASE \E w \in Worker : Reset(w)
    <2>1. PICK w \in Worker : Reset(w)
      BY <1>3
    <2>2. \A v \in Worker : Fresh(pc'[v], rec'[v], store') /\ Steady(pc'[v], out'[v], rec'[v])
      BY <1>1, <2>1, ResetCopies DEF Typed
    <2> QED BY <1>1, <1>2, <2>2 DEF CopyInv
  <1>4. CASE UNCHANGED workerVars
    BY <1>1, <1>2, <1>4 DEF workerVars, CopyInv
  <1> QED BY <1>3, <1>4 DEF Environment, Crash, Informer, ServeLate, Expire, ChangeIssuer,
                            RotateSecrets, DeleteRequest, CreateRequest, CollectGarbage

-----------------------------------------------------------------------------
(* The theorems. *)

\* In every reachable state each copy is the record, older than the record, or
\* one step ahead of it.
THEOREM CopyInvariant == Spec => []CopyInv
  <1>1. Init => CopyInv
    <2> SUFFICES ASSUME Init PROVE CopyInv
      OBVIOUS
    <2>1. NoRecord.id = 0 /\ Chainless(NoRecord)
      BY DEF NoRecord, Chainless
    <2>2. Granting(srv)
      BY DEF Init, ServerInit, Granting
    <2>3. store = NoRecord /\ \A w \in Worker : pc[w] = "idle" /\ rec[w] = NoRecord
      BY DEF Init, StoreInit
    <2> QED BY <2>1, <2>2, <2>3, FreshNone DEF CopyInv, Steady, Reading
  <1>2. Typed /\ BindInv /\ CopyInv /\ [Next]_vars => CopyInv'
    <2> SUFFICES ASSUME Typed, BindInv, CopyInv, [Next]_vars PROVE CopyInv'
      OBVIOUS
    <2>1. CASE Next
      BY <2>1, EveryStepMoves, WorkerStepCopies, EnvironmentCopies DEF Next
    <2>2. CASE UNCHANGED vars
      BY <2>2 DEF vars, storeVars, serverVars, workerVars, CopyInv
    <2> QED BY <2>1, <2>2
  <1> QED BY <1>1, <1>2, TypedInvariant, BindingInvariant, PTL DEF Spec

\* What a status update leaves in the store.
LEMMA UpdateAdvances ==
  ASSUME Typed, CopyInv, NEW w \in Worker, pc[w] = "save", UpdateStatus(rec[w])
  PROVE  store' \in Record /\ store'.id = store.id /\ Advances(store, store')
  <1>1. rec[w] \in Record /\ rec[w].id # 0 /\ rec[w].id = store.id /\ rec[w].version = store.version
    BY BoundsAssumption, SMT DEF UpdateStatus, Current, Typed, WorkersOK, WorkerOK, Holding, Txn
  <1>2. Advances(store, rec[w])
    BY <1>1 DEF CopyInv, Fresh
  <1> QED BY <1>1, <1>2, UpdatedFields, AdvancesUpdated DEF UpdateStatus

\* Whatever copies any number of processes hold, and however their writes fail
\* or overlap: a write never changes what a transaction is bound to, never takes
\* its phase or poll count back and never replaces its chain.
THEOREM RecordAdvancesHolds == Spec => RecordAdvances
  <1> DEFINE A == store # NoRecord /\ store'.id = store.id => Advances(store, store')
  <1>1. Typed /\ CopyInv /\ [Next]_vars => [A]_store
    <2> SUFFICES ASSUME Typed, CopyInv, Next, store # NoRecord, store'.id = store.id, store' # store
                 PROVE  Advances(store, store')
      BY DEF vars, storeVars
    <2>1. StoreMoves /\ store.id # 0 /\ NoRecord.id = 0
      BY EveryStepMoves DEF Typed, StoreOK, NoRecord
    <2>2. ~\E r \in Record : DeleteObject(r)
      BY <2>1 DEF DeleteObject
    <2>3. ~\E w \in Worker : CreateObject(rec[w])
      BY DEF CreateObject
    <2> QED BY <2>1, <2>2, <2>3, UpdateAdvances DEF StoreMoves
  <1> QED BY <1>1, TypedInvariant, CopyInvariant, PTL DEF Spec, RecordAdvances

\* For any number of processes: while a transaction whose certConf was sent is
\* not deleted, its record holds the chain, so that a restart can resume the
\* confirmation.
THEOREM DurableHolds == Spec => []DurableBeforeCertConf
  <1>1. Init => DurableBeforeCertConf
    BY DEF Init, DurableBeforeCertConf
  <1>2. Typed /\ OpenInv /\ CopyInv /\ DurableBeforeCertConf /\ [Next]_vars => DurableBeforeCertConf'
    <2> SUFFICES ASSUME Typed, OpenInv, CopyInv, DurableBeforeCertConf, Next PROVE DurableBeforeCertConf'
      BY DEF vars, storeVars, historyVars, DurableBeforeCertConf
    <2>0. /\ StoreMoves /\ store \in Record /\ confSent \subseteq Txn /\ 0 \notin Txn
          /\ \A p \in Phase : Rank(p) >= 3 => p \in {"Confirming", "Issued"}
      BY EveryStepMoves, SMT DEF Typed, StoreOK, StoreTypeOK, HistoryOK, Txn, Phase, Rank
    <2>1. ASSUME NEW t \in confSent \ closed'
          PROVE  store'.id = t /\ store'.phase \in {"Confirming", "Issued"} /\ store'.chain # 0
      <3>0. /\ t # 0 /\ store.id = t /\ store.phase \in {"Confirming", "Issued"} /\ store.chain # 0
        <4>1. closed \subseteq closed'
          BY <2>0 DEF StoreMoves, DeleteObject, UpdateStatus, CreateObject
        <4> QED BY <2>0, <2>1, <4>1 DEF DurableBeforeCertConf
      <3>1. CASE UNCHANGED store
        BY <3>0, <3>1
      <3>2. ASSUME NEW r \in Record, DeleteObject(r) PROVE store' = store
        BY <2>1, <3>0, <3>2 DEF DeleteObject
      <3>3. ASSUME NEW w \in Worker, pc[w] = "save", UpdateStatus(rec[w])
            PROVE  store'.id = t /\ store'.phase \in {"Confirming", "Issued"} /\ store'.chain # 0
        <4>1. store' \in Record /\ store'.id = store.id /\ Advances(store, store')
          BY <3>3, UpdateAdvances
        <4>2. Rank(store'.phase) \in 0..4 /\ Rank(store.phase) >= 3 /\ Rank(store.phase) \in 0..4
          <5>1. store'.phase \in Phase /\ store.phase \in Phase
            BY <2>0, <4>1 DEF Record
          <5>2. Rank(store.phase) >= 3
            BY <3>0, SMT DEF Rank
          <5> QED BY <5>1, <5>2, RankNat
        <4>3. Rank(store'.phase) >= Rank(store.phase) /\ store'.chain = store.chain
          BY <3>0, <4>1 DEF Advances
        <4>4. Rank(store'.phase) >= 3
          BY <4>2, <4>3, SMT
        <4> QED BY <2>0, <3>0, <4>1, <4>3, <4>4 DEF Record
      <3>4. ~\E w \in Worker : CreateObject(rec[w])
        BY <3>0, SMT DEF CreateObject, NoRecord
      <3> QED BY <2>0, <3>1, <3>2, <3>3, <3>4 DEF StoreMoves
    <2>2. ASSUME NEW w \in Worker, pc[w] \in {"exchange", "confirm"}, Send(w), rec[w].id \notin closed',
                 Outgoing(rec[w]).kind = "certConf"
          PROVE  store'.id = rec[w].id /\ store'.phase \in {"Confirming", "Issued"} /\ store'.chain # 0
      <3>1. store' = store /\ closed' = closed /\ rec[w] \in Record
        BY <2>2 DEF Send, storeVars, Typed, WorkersOK
      <3>2. rec[w].phase = "Confirming" /\ pc[w] = "confirm" /\ rec[w].id \in Txn
        BY <2>2 DEF Outgoing, Typed, WorkersOK, WorkerOK, Holding
      <3>3. rec[w].chain # 0 /\ Fresh("confirm", rec[w], store)
        BY <3>2 DEF CopyInv, Steady
      <3>4. store.id = rec[w].id
        BY <2>0, <2>2, <3>1, <3>2 DEF OpenInv, Known
      <3>5. Progress(rec[w], store)
        BY <2>0, <3>2, <3>3, <3>4 DEF Fresh
      <3>6. Rank(store.phase) >= 3 /\ store.chain = rec[w].chain
        BY <3>2, <3>3, <3>5 DEF Progress, Rank
      <3> QED BY <2>0, <3>1, <3>3, <3>4, <3>6 DEF Record
    <2>3. \/ UNCHANGED confSent
          \/ \E w \in Worker : /\ pc[w] \in {"exchange", "confirm"} /\ Send(w)
                              /\ Outgoing(rec[w]).kind = "certConf"
                              /\ confSent' = confSent \cup {rec[w].id}
      <3>1. ASSUME NEW w \in Worker, Exchange(w) \/ Confirm(w)
            PROVE  \/ UNCHANGED confSent
                   \/ /\ pc[w] \in {"exchange", "confirm"} /\ Send(w)
                      /\ Outgoing(rec[w]).kind = "certConf"
                      /\ confSent' = confSent \cup {rec[w].id}
        BY <3>1 DEF Exchange, Confirm, Send, FailBeforeSending, historyVars
      <3>2. ASSUME NEW w \in Worker, WorkerStep(w), ~Exchange(w), ~Confirm(w) PROVE UNCHANGED confSent
        BY <3>2 DEF WorkerStep, Sign, Load, DropStale, Recover, ConfigureNew, ConfigureResumed,
             Create, Save, Answered, Refuse, NoAnswer, Remove, Report, historyVars
      <3>3. CASE Environment
        BY <3>3 DEF Environment, Crash, Informer, ServeLate, Expire, ChangeIssuer, RotateSecrets,
                    DeleteRequest, CreateRequest, CollectGarbage, historyVars
      <3> QED BY <3>1, <3>2, <3>3 DEF Next
    <2> QED BY <2>1, <2>2, <2>3 DEF DurableBeforeCertConf
  <1> QED BY <1>1, <1>2, TypedInvariant, OpenInvariant, CopyInvariant, PTL DEF Spec

-----------------------------------------------------------------------------
(* A transaction that is closed stays closed. *)

\* The inductive strengthening of ClosedForGood: identifiers are not handed out
\* twice.
ClosedInv == ClosedForGood /\ \A t \in closed : t < nextTxn

\* Whatever copies any number of processes still hold of a record that was
\* deleted, and whoever deleted it: its transaction is not recorded again
\* (save, deletePreconditions).
THEOREM ClosedForGoodHolds == Spec => []ClosedForGood
  <1>1. Init => ClosedInv
    BY DEF Init, StoreInit, ClosedInv, ClosedForGood
  <1>2. Typed /\ Typed' /\ BindInv /\ ClosedInv /\ [Next]_vars => ClosedInv'
    <2> SUFFICES ASSUME Typed, Typed', BindInv, ClosedInv, Next PROVE ClosedInv'
      BY DEF vars, storeVars, ClosedInv, ClosedForGood
    <2>0. /\ StoreMoves /\ store \in Record /\ \A w \in Worker : rec[w] \in Record
          /\ closed' \subseteq Txn /\ 0 \notin Txn /\ NoRecord.id = 0 /\ nextTxn \in Nat
          /\ closed \subseteq Nat
      BY EveryStepMoves, SMT DEF Typed, StoreOK, StoreTypeOK, WorkersOK, Txn, NoRecord
    <2>1. CASE UNCHANGED <<store, closed, nextTxn>>
      BY <2>1 DEF ClosedInv, ClosedForGood
    <2>2. ASSUME NEW r \in Record, DeleteObject(r), r = store \/ \E w \in Worker : r = rec[w]
          PROVE  ClosedInv'
      <3>1. r.id # 0
        BY <2>0, <2>2 DEF DeleteObject
      <3>2. r.id < nextTxn
        BY <2>2, <3>1, CopiesAreOld DEF BindInv, Bound, Agrees
      <3>3. ClosedForGood'
        BY <2>0, <2>2 DEF DeleteObject, ClosedInv, ClosedForGood
      <3> QED BY <2>2, <3>2, <3>3 DEF DeleteObject, ClosedInv
    <2>3. ASSUME NEW w \in Worker, UpdateStatus(rec[w]) PROVE ClosedInv'
      <3>1. store'.id = store.id
        BY <2>0, <2>3, UpdatedFields DEF UpdateStatus, Current
      <3> QED BY <2>3, <3>1 DEF UpdateStatus, ClosedInv, ClosedForGood
    <2>4. ASSUME NEW w \in Worker, CreateObject(rec[w]) PROVE ClosedInv'
      <3>1. store'.id = nextTxn /\ nextTxn' = nextTxn + 1 /\ closed' = closed
        BY <2>0, <2>4 DEF CreateObject, NewRecord, Record
      <3> QED BY <2>0, <3>1, SMT DEF ClosedInv, ClosedForGood
    <2> QED BY <2>0, <2>1, <2>2, <2>3, <2>4 DEF StoreMoves
  <1>3. ClosedInv => ClosedForGood
    BY DEF ClosedInv
  <1> QED BY <1>1, <1>2, <1>3, TypedInvariant, BindingInvariant, PTL DEF Spec

-----------------------------------------------------------------------------
(* Enrollment: what the record says, the server knows. *)

\* Server s has done what record r says.
Served(s, r) ==
    r.id # 0 =>
      /\ r.phase = "Polling" => s[r.id].state # "unknown"
      /\ r.phase = "Confirming" => r.chain \in 1..s[r.id].cert

\* A confirmation m on its way is for the chain in the record r, if its
\* transaction is still recorded; identifiers below n were handed out.
OnItsWay(n, r, m) ==
    m.kind \in {"certConf", "confPoll"} =>
      /\ m.cert # 0 /\ m.id < n
      /\ m.id = r.id => r.phase \in {"Confirming", "Issued"} /\ r.chain = m.cert

\* The invariant that the refinement of Enrollment rests on.
ServedInv ==
    /\ Served(srv, store) /\ \A w \in Worker : Served(srv, rec[w])
    /\ \A m \in late : OnItsWay(nextTxn, store, m)

\* The server answers in Enrollment as it does here.
LEMMA SameAnswers ==
  ASSUME NEW t \in Txn, NEW s, NEW k, NEW c
  PROVE  Transaction(t)!AnswersTo(s, k, c) = AnswersTo(s, k, c)
  BY DEF Transaction!AnswersTo, Transaction!Errors, Transaction!Waiting, Transaction!Grant,
         Transaction!Repeat, Transaction!CertificateAnswers, Transaction!PkiConf, Transaction!Delay,
         Transaction!ConfirmationAnswers, Transaction!RejectionAnswers, Transaction!Answer,
         AnswersTo, Errors, Waiting, Grant, Repeat, CertificateAnswers, PkiConf, Delay,
         ConfirmationAnswers, RejectionAnswers, Answer

\* The server never forgets a transaction or a certificate.
LEMMA ServerGrows ==
  ASSUME ServerTypeOK, NEW m \in Message, NEW a, Serve(m, a)
  PROVE  /\ srv' \in [Txn -> ServerState]
         /\ \A t \in Txn : /\ srv[t].state # "unknown" => srv'[t].state # "unknown"
                           /\ srv'[t].cert >= srv[t].cert
         /\ a.reply.kind = "waiting" => srv'[m.id].state # "unknown"
         /\ a.reply.kind = "granted" => srv'[m.id].cert = a.reply.cert
  <1> DEFINE s == srv[m.id]
             Good(x) == /\ s.state # "unknown" => x.srv.state # "unknown"
                        /\ x.srv.cert >= s.cert
                        /\ x.reply.kind = "waiting" => x.srv.state # "unknown"
                        /\ x.reply.kind = "granted" => x.srv.cert = x.reply.cert
  <1>0. /\ s \in ServerState /\ s.cert \in Nat /\ srv \in [Txn -> ServerState]
        /\ srv' = [srv EXCEPT ![m.id] = a.srv] /\ a \in Answers(m) /\ m.id \in Txn
        /\ srv' \in [Txn -> ServerState]
    <2>1. srv' \in [Txn -> ServerState]
      BY ServeTyped
    <2>2. s \in ServerState /\ m.id \in Txn
      BY DEF ServerTypeOK, Message
    <2> HIDE DEF s
    <2>3. s.cert \in Nat
      BY <2>2, BoundsAssumption, SMT DEF ServerState
    <2> QED BY <2>1, <2>2, <2>3 DEF ServerTypeOK, Serve
  <1> HIDE DEF s
  <1>1. \A x \in Errors(s) : Good(x)
    BY <1>0, SMT DEF Errors, Answer
  <1>2. \A x \in Waiting(s) : Good(x)
    BY <1>0, SMT DEF Waiting, Answer, ServerState
  <1>3. \A x \in Grant(s) : Good(x)
    BY <1>0, SMT DEF Grant, Answer
  <1>4. Good(Answer(s, "granted", s.cert, TRUE)) /\ Good(Answer(s, "implicit", s.cert, TRUE))
    BY <1>0, SMT DEF Answer
  <1>5. \A x \in PkiConf(s) : Good(x)
    BY <1>0, SMT DEF PkiConf, Answer, ServerState
  <1>6. \A x \in Delay(s) : Good(x)
    BY <1>0, SMT DEF Delay, Answer, ServerState
  <1>7. \A x \in RejectionAnswers(s, m.cert) : Good(x)
    BY <1>0, SMT DEF RejectionAnswers, Answer, ServerState
  <1> HIDE DEF Good
  <1>8. \A x \in CertificateAnswers(s) : Good(x)
    BY <1>2, <1>3, <1>4 DEF CertificateAnswers, Repeat
  <1>9. \A x \in ConfirmationAnswers(s, m.cert) : Good(x)
    BY <1>5, <1>6 DEF ConfirmationAnswers
  <1>10. Good(a)
    BY <1>0, <1>1, <1>7, <1>8, <1>9 DEF Answers, AnswersTo, Message, s
  <1>11. srv'[m.id] = a.srv
    BY <1>0
  <1>12. ASSUME NEW t \in Txn
         PROVE  (srv[t].state # "unknown" => srv'[t].state # "unknown") /\ srv'[t].cert >= srv[t].cert
    <2>1. CASE t = m.id
      <3>1. srv'[t] = a.srv /\ srv[t] = s
        BY <1>11, <2>1 DEF s
      <3> QED BY <1>10, <3>1, SMT DEF Good
    <2>2. CASE t # m.id
      <3>1. srv'[t] = srv[t] /\ srv[t].cert \in 0..MaxCert
        BY <1>0, <2>2 DEF ServerState
      <3> QED BY <3>1, BoundsAssumption, SMT
    <2> QED BY <2>1, <2>2
  <1> QED BY <1>0, <1>10, <1>11, <1>12 DEF Good

\* Where the copies come from: a worker keeps its copy or drops it, reads the
\* record, starts a transaction, saves its copy, or makes something of an answer.
Origins(w) ==
    \/ rec'[w] \in {rec[w], NoRecord, store, Updated(rec[w])}
    \/ rec'[w].phase \in {"New", "Enrolling"}
    \/ Answered(w)

\* That is so for every step.
LEMMA EveryCopy ==
  ASSUME Typed, Next
  PROVE  \A v \in Worker : Origins(v)
  <1>0. /\ WorkersOK /\ rec \in [Worker -> Record]
    BY DEF Typed, WorkersOK
  <1>1. ASSUME NEW w \in Worker, WorkerStep(w) PROVE \A v \in Worker : Origins(v)
    <2>1. ASSUME NEW p, NEW o, NEW r, Decide(w, p, o, r),
                 r \in {rec[w], NoRecord, store, Updated(rec[w])} \/ r.phase \in {"New", "Enrolling"}
          PROVE  \A v \in Worker : Origins(v)
      BY <1>0, <2>1 DEF Decide, Origins
    <2>2. ASSUME NEW o, Return(w, o) PROVE \A v \in Worker : Origins(v)
      BY <2>1, <2>2 DEF Return
    <2>3. CASE Sign(w)
      BY <2>3 DEF Sign, Origins
    <2>4. CASE Load(w)
      BY <2>1, <2>2, <2>4 DEF Load, Resume, Continue, FailTransaction
    <2>5. CASE DropStale(w)
      BY <2>1, <2>2, <2>5 DEF DropStale, Continue
    <2>6. CASE Recover(w)
      BY <2>1, <2>2, <2>6 DEF Recover, FailTransaction
    <2>7. CASE ConfigureNew(w)
      <3>1. ASSUME NEW s, Continue(w, "create",
                      [NoRecord EXCEPT !.uid = req[w], !.issuer = iss[w], !.digest = rotation,
                                       !.operation = s.operation, !.fallback = s.fallback])
            PROVE  \A v \in Worker : Origins(v)
        <4> DEFINE d == [NoRecord EXCEPT !.uid = req[w], !.issuer = iss[w], !.digest = rotation,
                                         !.operation = s.operation, !.fallback = s.fallback]
        <4>1. d.phase = "New"
          BY DEF NoRecord
        <4> QED BY <2>1, <3>1, <4>1 DEF Continue
      <3> QED BY <2>2, <2>7, <3>1 DEF ConfigureNew
    <2>8. CASE ConfigureResumed(w)
      BY <2>1, <2>2, <2>8 DEF ConfigureResumed, Continue, FailTransaction
    <2>9. CASE Create(w)
      <3>1. recordEnrolling(NewRecord(rec[w])).phase = "Enrolling"
        BY <1>0, SMT DEF recordEnrolling, NewRecord, Record
      <3> QED BY <2>1, <2>2, <2>9, <3>1 DEF Create, SaveRecord
    <2>10. CASE Save(w)
      BY <2>1, <2>2, <2>10 DEF Save, Continue
    <2>11. CASE Exchange(w) \/ Confirm(w)
      BY <2>1, <2>11 DEF Exchange, Confirm, Send, FailBeforeSending, Continue, FailTransaction
    <2>12. CASE Answered(w)
      <3> SUFFICES ASSUME NEW v \in Worker, v # w PROVE rec'[v] = rec[v]
        BY <2>12 DEF Origins
      <3>1. PICK p, o, r : Decide(w, p, o, r)
        <4>1. PICK a : Accept(w, a.reply) /\ a.reply \in Reply
          <5>1. PICK a \in Answers(Outgoing(rec[w])) : Serve(Outgoing(rec[w]), a) /\ Accept(w, a.reply)
            BY <2>12 DEF Answered
          <5>2. Outgoing(rec[w]) \in Message
            BY <1>0, <2>12, OutgoingTyped DEF Answered, WorkersOK, WorkerOK, Holding
          <5> QED BY <5>1, <5>2, ServeTyped DEF Typed
        <4> QED BY <4>1 DEF Accept, SaveRecord, FailTransaction, Return, Reply
      <3> QED BY <1>0, <3>1 DEF Decide
    <2>13. CASE Refuse(w)
      BY <2>1, <2>13 DEF Refuse, FailTransaction
    <2>14. CASE NoAnswer(w)
      BY <2>2, <2>14 DEF NoAnswer
    <2>15. CASE Remove(w)
      BY <2>2, <2>15 DEF Remove
    <2>16. CASE Report(w)
      BY <1>0, <2>16 DEF Report, Reset, Origins
    <2> QED BY <1>1, <2>3, <2>4, <2>5, <2>6, <2>7, <2>8, <2>9, <2>10, <2>11, <2>12, <2>13, <2>14,
               <2>15, <2>16 DEF WorkerStep
  <1>2. CASE Environment
    <2>1. ASSUME NEW w \in Worker, Reset(w) PROVE \A v \in Worker : Origins(v)
      BY <1>0, <2>1 DEF Reset, Origins
    <2>2. CASE UNCHANGED workerVars
      BY <2>2 DEF workerVars, Origins
    <2> QED BY <1>2, <2>1, <2>2 DEF Environment, Crash, Informer, ServeLate, Expire, ChangeIssuer,
                    RotateSecrets, DeleteRequest, CreateRequest, CollectGarbage
  <1> QED BY <1>1, <1>2 DEF Next

\* The messages that may reach the server.
InTransit == late \cup {Outgoing(rec[w]) : w \in {v \in Worker : pc[v] = "await"}}

\* The server takes one of them at a time, in steps that leave the store alone,
\* and besides refusals none is left behind that was not on its way.
MessageMoves ==
    /\ \/ UNCHANGED srv
       \/ UNCHANGED storeVars /\ \E m \in InTransit : \E a : Serve(m, a)
    /\ \A m \in late' : m \in InTransit \/ m.kind = "reject"

\* That is so for every step.
LEMMA EveryMessage ==
  ASSUME Next
  PROVE  MessageMoves
  <1>1. CASE UNCHANGED serverVars
    BY <1>1 DEF serverVars, MessageMoves, InTransit
  <1>2. ASSUME NEW w \in Worker, pc[w] = "await" PROVE Outgoing(rec[w]) \in InTransit
    BY <1>2 DEF InTransit
  <1>3. ASSUME NEW w \in Worker, pc[w] = "await", Abandon(Outgoing(rec[w])) PROVE MessageMoves
    <2>1. late' \subseteq late \cup {Outgoing(rec[w])} /\ UNCHANGED srv
      BY <1>3 DEF Abandon, WithLate
    <2> QED BY <1>2, <1>3, <2>1 DEF MessageMoves, InTransit
  <1>4. ASSUME NEW w \in Worker, WorkerStep(w) PROVE MessageMoves
    <2>1. CASE Answered(w)
      <3>1. late' = late /\ UNCHANGED storeVars /\ pc[w] = "await"
        BY <2>1 DEF Answered
      <3>2. PICK a : Serve(Outgoing(rec[w]), a)
        BY <2>1 DEF Answered
      <3> QED BY <1>2, <3>1, <3>2 DEF MessageMoves, InTransit
    <2>2. CASE Refuse(w)
      <3>1. UNCHANGED storeVars /\ pc[w] = "await"
        BY <2>2 DEF Refuse
      <3>2. PICK a : /\ Serve(Outgoing(rec[w]), a)
                     /\ \/ UNCHANGED late
                        \/ late' \in WithLate([id |-> rec[w].id, kind |-> "reject", cert |-> a.reply.cert])
        BY <2>2 DEF Refuse
      <3>3. \A m \in late' : m \in late \/ m.kind = "reject"
        BY <3>2, SMT DEF WithLate
      <3> QED BY <1>2, <3>1, <3>2, <3>3 DEF MessageMoves, InTransit
    <2>3. CASE NoAnswer(w)
      BY <1>3, <2>3 DEF NoAnswer
    <2> QED BY <1>1, <1>4, <2>1, <2>2, <2>3 DEF WorkerStep, Sign, Load, DropStale, Recover,
                 ConfigureNew, ConfigureResumed, Create, Save, Exchange, Confirm, Send,
                 FailBeforeSending, Remove, Report
  <1>5. CASE Environment
    <2>1. CASE ServeLate
      <3>1. PICK m \in late : (\E a \in Answers(m) : Serve(m, a)) /\ late' = late \ {m}
        BY <2>1 DEF ServeLate, LateRequest
      <3> QED BY <2>1, <3>1 DEF ServeLate, MessageMoves, InTransit
    <2>2. ASSUME NEW w \in Worker, Crash(w) PROVE MessageMoves
      BY <1>1, <1>3, <2>2 DEF Crash
    <2> QED BY <1>1, <1>5, <2>1, <2>2 DEF Environment, Informer, Expire, ChangeIssuer, RotateSecrets,
                 DeleteRequest, CreateRequest, CollectGarbage
  <1> QED BY <1>4, <1>5 DEF Next

\* A confirmation that any process has under way is for the recorded chain.
LEMMA TransitServed ==
  ASSUME Typed, BindInv, CopyInv, ServedInv, NEW m \in InTransit
  PROVE  m \in Message /\ OnItsWay(nextTxn, store, m)
  <1>1. CASE m \in late
    BY <1>1 DEF ServedInv, Typed, ServerTypeOK
  <1>2. ASSUME NEW w \in Worker, pc[w] = "await", m = Outgoing(rec[w])
        PROVE  m \in Message /\ OnItsWay(nextTxn, store, m)
    <2> DEFINE r == rec[w]
    <2>1. /\ r \in Record /\ r.id \in Txn /\ r.id # 0 /\ store \in Record
      BY <1>2, BoundsAssumption, SMT DEF Typed, WorkersOK, WorkerOK, Holding, Txn, StoreOK, StoreTypeOK
    <2>2. m \in Message
      BY <1>2, <2>1, OutgoingTyped
    <2> SUFFICES ASSUME m.kind \in {"certConf", "confPoll"}
                 PROVE  /\ m.cert # 0 /\ m.id < nextTxn
                        /\ m.id = store.id => store.phase \in {"Confirming", "Issued"}
                                              /\ store.chain = m.cert
      BY <2>2 DEF OnItsWay
    <2>3. r.phase = "Confirming" /\ m.cert = r.chain /\ m.id = r.id
      BY <1>2, SMT DEF Outgoing
    <2>4. r.chain # 0
      BY <2>1, <2>3, SMT DEF ServedInv, Served
    <2>5. r.id < nextTxn
      BY <2>1, CopiesAreOld
    <2>6. ASSUME r.id = store.id PROVE store.phase \in {"Confirming", "Issued"} /\ store.chain = r.chain
      <3>1. Progress(r, store)
        BY <1>2, <2>1, <2>6 DEF CopyInv, Fresh
      <3>2. store.phase \in Phase /\ Rank(store.phase) >= Rank("Confirming")
        BY <2>1, <2>3, <3>1 DEF Progress, Record
      <3>3. store.phase \in {"Confirming", "Issued"}
        BY <3>2, SMT DEF Rank, Phase
      <3> QED BY <2>4, <3>1, <3>3 DEF Progress
    <2> QED BY <2>3, <2>4, <2>5, <2>6
  <1> QED BY <1>1, <1>2 DEF InTransit

\* What was served stays served, and what the server has done for a copy it has
\* done for an update of it.
LEMMA ServedGrows ==
  ASSUME Typed, Typed', NEW r \in Record, Served(srv, r),
         UNCHANGED srv \/ \E m \in Message : \E a : Serve(m, a)
  PROVE  Served(srv', r) /\ Served(srv', Updated(r))
  <1>1. Served(srv', r)
    <2>1. CASE UNCHANGED srv
      BY <2>1
    <2>2. ASSUME NEW m \in Message, NEW a, Serve(m, a), r.id # 0 PROVE Served(srv', r)
      <3>1. r.id \in Txn
        BY <2>2, BoundsAssumption, SMT DEF Record, Txn
      <3>2. /\ srv[r.id].state # "unknown" => srv'[r.id].state # "unknown"
            /\ srv'[r.id].cert >= srv[r.id].cert
            /\ srv'[r.id] \in ServerState /\ srv[r.id] \in ServerState
        BY <2>2, <3>1, ServerGrows DEF Typed, ServerTypeOK
      <3>3. srv'[r.id].cert \in Nat /\ srv[r.id].cert \in Nat
        BY <3>2, BoundsAssumption, SMT DEF ServerState
      <3>4. r.phase = "Confirming" => r.chain \in 1..srv[r.id].cert
        BY <2>2 DEF Served
      <3>5. r.phase = "Confirming" => r.chain \in 1..srv'[r.id].cert
        BY <3>2, <3>3, <3>4, SMT
      <3>6. r.phase = "Polling" => srv'[r.id].state # "unknown"
        BY <2>2, <3>2 DEF Served
      <3> QED BY <3>5, <3>6 DEF Served
    <2> QED BY <2>1, <2>2 DEF Served
  <1>2. Updated(r).id = r.id /\ Updated(r).phase = r.phase /\ Updated(r).chain = r.chain
    BY UpdatedFields
  <1> QED BY <1>1, <1>2 DEF Served

\* What a worker makes of an answer, the server has done.
LEMMA AcceptServed ==
  ASSUME Typed, Typed', CopyInv, ServedInv, NEW w \in Worker, Answered(w)
  PROVE  Served(srv', rec'[w])
  <1> DEFINE r == rec[w]
             m == Outgoing(r)
  <1>0. /\ WorkersOK /\ r \in Record /\ pc[w] = "await" /\ m \in Message /\ m.id = r.id /\ r.id \in Txn
        /\ Granting(srv) /\ ServerTypeOK /\ Served(srv, r) /\ NoRecord.id = 0
    BY OutgoingTyped DEF Answered, Typed, WorkersOK, WorkerOK, Holding, CopyInv, ServedInv, Outgoing,
         NoRecord
  <1>1. m.kind # "reject" /\ (m.kind \in {"certConf", "confPoll"} => r.phase = "Confirming")
    BY <1>0, SMT DEF Outgoing
  <1> HIDE DEF m
  <1>2. PICK a : Serve(m, a) /\ Accept(w, a.reply)
    BY DEF Answered, m
  <1> DEFINE reply == a.reply
  <1>3. /\ reply \in Reply /\ Served(srv', r)
        /\ reply.kind = "waiting" => srv'[r.id].state # "unknown"
        /\ reply.kind = "granted" => srv'[r.id].cert = reply.cert /\ reply.cert # 0
        /\ reply.kind = "confWaiting" => r.phase = "Confirming"
    BY <1>0, <1>1, <1>2, ServeTyped, ServerGrows, ServedGrows, AnswerKinds
  <1>4. ASSUME NEW p, NEW o, NEW x, Decide(w, p, o, x), Served(srv', x) PROVE Served(srv', rec'[w])
    BY <1>0, <1>4 DEF Decide, WorkersOK
  <1>5. CASE reply.kind = "waiting"
    <2> DEFINE x == recordPending(Counted(r), reply.nonce)
    <2>1. Decide(w, "save", "pending", x)
      BY <1>2, <1>5 DEF Accept, SaveRecord
    <2>2. x.id = r.id /\ x.phase = "Polling"
      BY <1>0, StatusFields, SMTT(30) DEF Kept
    <2> QED BY <1>3, <1>4, <1>5, <2>1, <2>2 DEF Served
  <1>6. CASE reply.kind = "granted"
    <2> DEFINE x == recordConfirming(r, reply.cert, reply.nonce, "none")
    <2>1. Decide(w, "save", "confirm", x)
      BY <1>2, <1>6 DEF Accept, SaveRecord
    <2>2. x.id = r.id /\ x.phase = "Confirming" /\ x.chain = reply.cert
      BY <1>0, StatusFields, SMTT(30) DEF Kept
    <2> HIDE DEF x
    <2>3. reply.cert \in 1..srv'[r.id].cert
      BY <1>3, <1>6, BoundsAssumption, SMT DEF Reply
    <2> QED BY <1>4, <2>1, <2>2, <2>3 DEF Served
  <1>7. CASE reply.kind = "confWaiting"
    <2> DEFINE x == recordConfirming(Counted(r), r.chain, reply.nonce, "certConf")
    <2>1. Decide(w, "save", "pending", x)
      BY <1>2, <1>7 DEF Accept, SaveRecord
    <2>2. x.id = r.id /\ x.phase = "Confirming" /\ x.chain = r.chain
      BY <1>0, StatusFields, SMTT(30) DEF Kept
    <2> QED BY <1>3, <1>4, <1>7, <2>1, <2>2 DEF Served
  <1>8. CASE reply.kind \in {"implicit", "pkiConf"}
    <2>1. PICK c : Decide(w, "save", "signed", recordIssued(r, c))
      BY <1>2, <1>8 DEF Accept, SaveRecord
    <2>2. recordIssued(r, c).phase = "Issued"
      BY <1>0, SMT DEF recordIssued, Record
    <2> QED BY <1>4, <2>1, <2>2 DEF Served
  <1>9. CASE reply.kind = "permanent"
    BY <1>2, <1>3, <1>4, <1>9 DEF Accept, FailTransaction
  <1>10. CASE reply.kind = "retryable"
    <2>1. Served(srv', NoRecord)
      BY <1>0 DEF Served
    <2> QED BY <1>2, <1>4, <1>10, <2>1 DEF Accept, Return
  <1> QED BY <1>3, <1>5, <1>6, <1>7, <1>8, <1>9, <1>10 DEF Reply

\* A write to the store keeps the recorded chain that messages are for.
LEMMA StoreKeepsTransit ==
  ASSUME Typed, CopyInv, StoreMoves, NEW m \in Message, OnItsWay(nextTxn, store, m)
  PROVE  OnItsWay(nextTxn', store', m)
  <1> SUFFICES ASSUME m.kind \in {"certConf", "confPoll"}
               PROVE  /\ m.cert # 0 /\ m.id < nextTxn'
                      /\ m.id = store'.id => store'.phase \in {"Confirming", "Issued"}
                                             /\ store'.chain = m.cert
    BY DEF OnItsWay
  <1>0. /\ m.cert # 0 /\ m.id < nextTxn /\ m.id # 0 /\ m.id \in Nat /\ nextTxn \in Nat
        /\ m.id = store.id => store.phase \in {"Confirming", "Issued"} /\ store.chain = m.cert
        /\ NoRecord.id = 0 /\ store \in Record /\ \A w \in Worker : rec[w] \in Record
    BY BoundsAssumption, SMT DEF OnItsWay, Message, Txn, Typed, StoreOK, StoreTypeOK, NoRecord, WorkersOK
  <1>1. CASE UNCHANGED <<store, closed, nextTxn>>
    BY <1>0, <1>1
  <1>2. ASSUME NEW r \in Record, DeleteObject(r)
        PROVE  nextTxn' = nextTxn /\ store' \in {store, NoRecord}
    BY <1>2 DEF DeleteObject
  <1>3. ASSUME NEW w \in Worker, pc[w] = "save", UpdateStatus(rec[w])
        PROVE  /\ nextTxn' = nextTxn
               /\ m.id = store'.id => store'.phase \in {"Confirming", "Issued"}
                                      /\ store'.chain = m.cert
    <2>1. nextTxn' = nextTxn /\ store' \in Record /\ store'.id = store.id /\ Advances(store, store')
      BY <1>3, UpdateAdvances DEF UpdateStatus
    <2>2. store.phase \in {"Confirming", "Issued"} => store'.phase \in {"Confirming", "Issued"}
      BY <2>1, SMT DEF Advances, Rank, Record, Phase
    <2>3. store.chain = m.cert => store'.chain = m.cert
      BY <1>0, <2>1 DEF Advances
    <2> QED BY <1>0, <2>1, <2>2, <2>3
  <1>4. ASSUME NEW w \in Worker, CreateObject(rec[w])
        PROVE  m.id < nextTxn' /\ m.id # store'.id
    <2>1. store'.id = nextTxn /\ nextTxn' = nextTxn + 1
      BY <1>0, <1>4 DEF CreateObject, NewRecord, Record
    <2> QED BY <1>0, <2>1, SMT
  <1> QED BY <1>0, <1>1, <1>2, <1>3, <1>4 DEF StoreMoves

\* In every reachable state the server has done what the records say, and the
\* confirmations under way are for recorded chains.
THEOREM ServedInvariant == Spec => []ServedInv
  <1>1. Init => ServedInv
    <2> SUFFICES ASSUME Init PROVE ServedInv
      OBVIOUS
    <2>1. /\ store = NoRecord /\ late = {} /\ NoRecord.id = 0
          /\ \A w \in Worker : rec[w] = NoRecord
      BY DEF Init, StoreInit, ServerInit, NoRecord
    <2> QED BY <2>1 DEF ServedInv, Served
  <1>2. Typed /\ Typed' /\ BindInv /\ CopyInv /\ ServedInv /\ [Next]_vars => ServedInv'
    <2> SUFFICES ASSUME Typed, Typed', BindInv, CopyInv, ServedInv, Next PROVE ServedInv'
      BY DEF vars, storeVars, serverVars, workerVars, ServedInv
    <2>0. /\ StoreMoves /\ MessageMoves /\ \A v \in Worker : Origins(v)
          /\ store \in Record /\ \A w \in Worker : rec[w] \in Record
          /\ Served(srv', NoRecord)
      BY EveryStepMoves, EveryMessage, EveryCopy DEF Typed, StoreOK, StoreTypeOK, WorkersOK, Served,
           NoRecord
    <2>1. UNCHANGED srv \/ \E m \in Message : \E a : Serve(m, a)
      BY <2>0, TransitServed DEF MessageMoves
    <2>2. /\ Served(srv', store)
          /\ \A v \in Worker : Served(srv', rec[v]) /\ Served(srv', Updated(rec[v]))
      BY <2>0, <2>1, ServedGrows DEF ServedInv
    <2>3. Served(srv', store')
      <3>1. ASSUME NEW w \in Worker, CreateObject(rec[w]) PROVE store'.phase = "New"
        BY <2>0, <3>1 DEF CreateObject, NewRecord, Record
      <3>2. \/ store' \in {store, NoRecord} \/ store'.phase = "New"
            \/ \E w \in Worker : store' = Updated(rec[w])
        BY <2>0, <3>1 DEF StoreMoves, DeleteObject, UpdateStatus
      <3>3. store'.phase = "New" => Served(srv', store')
        BY DEF Served
      <3> QED BY <2>0, <2>2, <3>2, <3>3
    <2>4. ASSUME NEW v \in Worker PROVE Served(srv', rec'[v])
      <3>1. CASE rec'[v] \in {rec[v], NoRecord, store, Updated(rec[v])}
        BY <2>0, <2>2, <3>1
      <3>2. CASE rec'[v].phase \in {"New", "Enrolling"}
        BY <3>2 DEF Served
      <3>3. CASE Answered(v)
        BY <3>3, AcceptServed
      <3> QED BY <2>0, <3>1, <3>2, <3>3 DEF Origins
    <2>5. ASSUME NEW m \in late' PROVE OnItsWay(nextTxn', store', m)
      <3>1. CASE m.kind = "reject"
        BY <3>1 DEF OnItsWay
      <3>2. CASE m \in InTransit
        BY <2>0, <3>2, TransitServed, StoreKeepsTransit
      <3> QED BY <2>0, <3>1, <3>2 DEF MessageMoves
    <2> QED BY <2>3, <2>4, <2>5 DEF ServedInv
  <1> QED BY <1>1, <1>2, TypedInvariant, BindingInvariant, CopyInvariant, PTL DEF Spec

\* A step of Signer is one of transaction t, or t does not see it.
Simulated(t) == UNCHANGED <<srv[t], Recorded(t)>> \/ Transaction(t)!Next

\* The server takes a message for t.
LEMMA ServeEnrolls ==
  ASSUME Typed, NEW m \in Message, NEW a, Serve(m, a), OnItsWay(nextTxn, store, m), UNCHANGED storeVars,
         NEW t \in Txn
  PROVE  Simulated(t)
  <1>0. /\ srv \in [Txn -> ServerState] /\ srv' = [srv EXCEPT ![m.id] = a.srv]
        /\ a \in AnswersTo(srv[m.id], m.kind, m.cert)
    BY DEF Typed, ServerTypeOK, Serve, Answers
  <1>1. UNCHANGED Recorded(t)
    BY DEF Recorded, storeVars
  <1>2. CASE t # m.id
    BY <1>0, <1>1, <1>2 DEF Simulated
  <1>3. CASE t = m.id
    <2>0. srv'[t] = a.srv /\ m.cert \in 0..MaxCert
      BY <1>0, <1>3 DEF Message
    <2>1. ASSUME NEW k, NEW c, AnswersTo(srv[t], m.kind, m.cert) = AnswersTo(srv[t], k, c)
          PROVE  Transaction(t)!Serve(k, c)
      <3>1. a \in Transaction(t)!AnswersTo(srv[t], k, c)
        <4>1. a \in AnswersTo(srv[t], k, c)
          BY <1>0, <1>3, <2>1
        <4>2. Transaction(t)!AnswersTo(srv[t], k, c) = AnswersTo(srv[t], k, c)
          BY SameAnswers
        <4> QED BY <4>1, <4>2
      <3> QED BY <1>1, <2>0, <3>1 DEF Transaction!Serve
    <2>2. CASE m.kind \in {"enroll", "pollReq"}
      <3>1. Transaction(t)!Serve("enroll", 0)
        BY <2>1, <2>2 DEF AnswersTo
      <3> QED BY <3>1 DEF Simulated, Transaction!Next, Transaction!Enroll
    <2>3. CASE m.kind \in {"certConf", "confPoll"}
      <3>1. Transaction(t)!Serve("certConf", m.cert)
        BY <2>1, <2>3 DEF AnswersTo
      <3>2. Transaction(t)!MayConfirm(m.cert)
        <4>1. CASE store.id = t
          <5>1. Recorded(t).phase \in {"confirm", "issued"} /\ Recorded(t).cert = m.cert
            BY <1>3, <2>3, <4>1 DEF OnItsWay, Recorded
          <5> QED BY <5>1 DEF Transaction!MayConfirm
        <4>2. CASE store.id # t
          <5>1. Recorded(t).phase = "closed"
            BY <1>3, <2>3, <4>2 DEF OnItsWay, Recorded
          <5> QED BY <5>1 DEF Transaction!MayConfirm
        <4> QED BY <4>1, <4>2
      <3> QED BY <2>0, <3>1, <3>2 DEF Simulated, Transaction!Next, Transaction!Confirm
    <2>4. CASE m.kind = "reject"
      <3>1. Transaction(t)!Serve("reject", m.cert)
        BY <2>1, <2>4
      <3> QED BY <2>0, <3>1 DEF Simulated, Transaction!Next, Transaction!Reject
    <2> QED BY <2>2, <2>3, <2>4 DEF Message
  <1> QED BY <1>2, <1>3

\* What Enrollment sees of a record.
LEMMA RecordedFields ==
  ASSUME NEW t \in Txn, store.id = t, store \in Record
  PROVE  /\ Recorded(t).cert = store.chain /\ Recorded(t).phase # "closed"
         /\ store.phase \in {"New", "Enrolling"} <=> Recorded(t).phase = "enroll"
         /\ store.phase = "Polling" <=> Recorded(t).phase = "poll"
         /\ store.phase = "Confirming" <=> Recorded(t).phase = "confirm"
         /\ store.phase = "Issued" <=> Recorded(t).phase = "issued"
         /\ Recorded(t) = [phase |-> Recorded(t).phase, cert |-> store.chain]
  <1>1. store.phase \in {"New", "Enrolling", "Polling", "Confirming", "Issued"}
    BY DEF Record, Phase
  <1> QED BY <1>1 DEF Recorded

\* A process saves its copy in the record of t.
LEMMA SaveEnrolls ==
  ASSUME Typed, Typed', CopyInv, TruthInv, TruthInv', ServedInv, ServedInv', UNCHANGED srv,
         NEW w \in Worker, pc[w] = "save", UpdateStatus(rec[w]), NEW t \in Txn, store.id = t
  PROVE  Simulated(t)
  <1>0. /\ store \in Record /\ store' \in Record /\ store'.id = t /\ Advances(store, store')
        /\ t # 0 /\ Chainless(store) /\ srv[t] \in ServerState
    BY UpdateAdvances, BoundsAssumption, SMT DEF Typed, StoreOK, StoreTypeOK, CopyInv, Txn, ServerTypeOK
  <1>1. Chainless(store')
    <2>1. rec[w] \in Record /\ Chainless(rec[w])
      BY DEF CopyInv, Steady, Typed, WorkersOK
    <2> QED BY <2>1, UpdatedFields DEF UpdateStatus, Chainless
  <1> DEFINE q == Recorded(t)'.phase
             p == Recorded(t).phase
  <1>2. /\ Recorded(t).cert = store.chain /\ p # "closed"
        /\ store.phase \in {"New", "Enrolling"} <=> p = "enroll"
        /\ store.phase = "Polling" <=> p = "poll"
        /\ store.phase = "Confirming" <=> p = "confirm"
        /\ store.phase = "Issued" <=> p = "issued"
        /\ Recorded(t) = [phase |-> p, cert |-> store.chain]
    BY <1>0, RecordedFields
  <1>3. /\ store'.phase \in {"New", "Enrolling"} <=> q = "enroll"
        /\ store'.phase = "Polling" <=> q = "poll"
        /\ store'.phase = "Confirming" <=> q = "confirm"
        /\ store'.phase = "Issued" <=> q = "issued"
        /\ Recorded(t)' = [phase |-> q, cert |-> store'.chain]
    <2>1. store'.phase \in {"New", "Enrolling", "Polling", "Confirming", "Issued"}
      BY <1>0 DEF Record, Phase
    <2> QED BY <1>0, <2>1 DEF Recorded
  <1> HIDE DEF p, q
  <1>4. /\ store'.phase \in {"New", "Enrolling"} => store.phase \in {"New", "Enrolling"}
        /\ store'.phase = "Polling" => store.phase \in {"New", "Enrolling", "Polling"}
        /\ store'.phase = "Confirming" => store.phase \in {"New", "Enrolling", "Polling", "Confirming"}
        /\ store.phase \in Phase /\ store'.phase \in Phase
    BY <1>0, SMT DEF Advances, Rank, Record, Phase
  <1>5. /\ store'.chain \in 0..MaxCert
        /\ store.chain # 0 => store'.chain = store.chain
    BY <1>0 DEF Advances, Record
  <1>6. ASSUME NEW ph, NEW c, Recorded(t)' = [phase |-> ph, cert |-> c] PROVE Transaction(t)!Move(ph, c)
    BY <1>6 DEF Transaction!Move
  <1>7. CASE store'.phase \in {"New", "Enrolling"}
    <2>1. p = q /\ store'.chain = store.chain
      BY <1>0, <1>1, <1>2, <1>3, <1>4, <1>7 DEF Chainless
    <2> QED BY <1>2, <1>3, <2>1 DEF Simulated
  <1>8. CASE store'.phase = "Polling"
    <2>1. /\ p \in {"enroll", "poll"} /\ q = "poll" /\ store'.chain = 0 /\ srv[t].state # "unknown"
      BY <1>0, <1>1, <1>2, <1>3, <1>4, <1>8 DEF Chainless, ServedInv, Served
    <2>2. Transaction(t)!Move("poll", 0)
      BY <1>3, <1>6, <2>1
    <2>3. Transaction(t)!Wait
      BY <2>1, <2>2 DEF Transaction!Wait, p
    <2> QED BY <2>3 DEF Transaction!Next, Simulated
  <1>9. CASE store'.phase = "Confirming"
    <2>0. q = "confirm" /\ store'.chain \in 1..srv[t].cert
      BY <1>0, <1>3, <1>9 DEF ServedInv, Served
    <2>1. CASE store.phase = "Confirming"
      <3>1. store.chain \in 1..srv[t].cert
        BY <1>0, <2>1 DEF ServedInv, Served
      <3>2. store'.chain = store.chain
        BY <1>5, <3>1, SMT
      <3> QED BY <1>2, <1>3, <2>0, <2>1, <3>2 DEF Simulated
    <2>2. CASE store.phase \in {"New", "Enrolling", "Polling"}
      <3>1. p \in {"enroll", "poll"}
        BY <1>2, <2>2
      <3>2. Transaction(t)!Move("confirm", store'.chain)
        BY <1>3, <1>6, <2>0
      <3>3. Transaction(t)!Hold(store'.chain)
        BY <2>0, <3>1, <3>2 DEF Transaction!Hold, p
      <3> QED BY <1>5, <3>3 DEF Transaction!Next, Simulated
    <2> QED BY <1>4, <1>9, <2>1, <2>2
  <1>10. CASE store'.phase = "Issued"
    <2>0. q = "issued" /\ srv[t] = [state |-> "confirmed", cert |-> store'.chain]
      BY <1>0, <1>3, <1>10 DEF TruthInv, Truthful, ConfirmedIn
    <2>1. CASE store.phase = "Issued"
      <3>1. srv[t] = [state |-> "confirmed", cert |-> store.chain]
        BY <1>0, <2>1 DEF TruthInv, Truthful, ConfirmedIn
      <3>2. store'.chain = store.chain
        BY <2>0, <3>1, SMT
      <3> QED BY <1>2, <1>3, <2>0, <2>1, <3>2 DEF Simulated
    <2>2. CASE store.phase # "Issued"
      <3>1. p \in {"enroll", "poll"} \/ (p = "confirm" /\ Recorded(t).cert = store'.chain)
        <4>1. CASE store.phase = "Confirming"
          <5>1. store.chain # 0
            BY <1>0, <4>1, SMT DEF ServedInv, Served
          <5> QED BY <1>2, <1>5, <4>1, <5>1
        <4> QED BY <1>2, <1>4, <2>2, <4>1 DEF Phase
      <3>2. Transaction(t)!Move("issued", store'.chain)
        BY <1>3, <1>6, <2>0
      <3>3. Transaction(t)!Obtain(store'.chain)
        BY <2>0, <3>1, <3>2 DEF Transaction!Obtain, p
      <3> QED BY <1>5, <3>3 DEF Transaction!Next, Simulated
    <2> QED BY <2>1, <2>2
  <1> QED BY <1>4, <1>7, <1>8, <1>9, <1>10 DEF Phase

\* The other writes to the store.
LEMMA StoreEnrolls ==
  ASSUME Typed, Typed', BindInv, CopyInv, TruthInv, TruthInv', ServedInv, ServedInv', UNCHANGED srv,
         StoreMoves, NEW t \in Txn
  PROVE  Simulated(t)
  <1>0. /\ store \in Record /\ t # 0 /\ t \in Nat /\ nextTxn \in Nat /\ NoRecord.id = 0
        /\ \A w \in Worker : rec[w] \in Record
    BY BoundsAssumption, SMT DEF Typed, StoreOK, StoreTypeOK, Txn, NoRecord, WorkersOK
  <1>1. ASSUME store.id # t, store'.id # t, t < nextTxn <=> t < nextTxn' PROVE Simulated(t)
    BY <1>1 DEF Simulated, Recorded
  <1>2. CASE UNCHANGED <<store, closed, nextTxn>>
    BY <1>2 DEF Simulated, Recorded
  <1>3. ASSUME NEW r \in Record, DeleteObject(r) PROVE Simulated(t)
    <2>0. nextTxn' = nextTxn /\ store' = IF store.id = r.id THEN NoRecord ELSE store
      BY <1>3 DEF DeleteObject
    <2>1. CASE store' = store
      BY <2>0, <2>1 DEF Simulated, Recorded
    <2>2. CASE store' = NoRecord /\ store.id # t
      BY <1>0, <1>1, <2>0, <2>2
    <2>3. CASE store' = NoRecord /\ store.id = t
      <3>1. Recorded(t).phase # "closed"
        BY <1>0, <2>3, RecordedFields
      <3>2. t < nextTxn
        BY <1>0, <2>3 DEF BindInv, Bound, Agrees
      <3>3. Recorded(t)' = [phase |-> "closed", cert |-> 0]
        BY <1>0, <2>0, <2>3, <3>2 DEF Recorded
      <3>4. Transaction(t)!Close
        BY <3>1, <3>3 DEF Transaction!Close, Transaction!Move
      <3> QED BY <3>4 DEF Transaction!Next, Simulated
    <2> QED BY <2>0, <2>1, <2>2, <2>3
  <1>4. ASSUME NEW w \in Worker, pc[w] = "save", UpdateStatus(rec[w]) PROVE Simulated(t)
    <2>1. CASE store.id = t
      BY <1>4, <2>1, SaveEnrolls
    <2>2. CASE store.id # t
      <3>1. store'.id = store.id /\ nextTxn' = nextTxn
        BY <1>4, UpdateAdvances DEF UpdateStatus
      <3> QED BY <1>1, <2>2, <3>1
    <2> QED BY <2>1, <2>2
  <1>5. ASSUME NEW w \in Worker, pc[w] = "create", CreateObject(rec[w]) PROVE Simulated(t)
    <2>1. /\ store = NoRecord /\ store'.id = nextTxn /\ store'.phase = "New"
          /\ store'.chain = rec[w].chain /\ nextTxn' = nextTxn + 1
      BY <1>0, <1>5 DEF CreateObject, NewRecord, Record
    <2>2. rec[w].chain = 0
      BY <1>5 DEF CopyInv, Steady, Chainless
    <2>3. CASE t = nextTxn
      <3>1. ~(t < nextTxn) /\ store.id # t
        BY <1>0, <2>1, <2>3, SMT
      <3> QED BY <2>1, <2>2, <2>3, <3>1 DEF Simulated, Recorded
    <2>4. CASE t # nextTxn
      <3>1. t < nextTxn <=> t < nextTxn'
        BY <1>0, <2>1, <2>4, SMT
      <3> QED BY <1>0, <1>1, <2>1, <2>4, <3>1
    <2> QED BY <2>3, <2>4
  <1> QED BY <1>2, <1>3, <1>4, <1>5 DEF StoreMoves

\* The records that any number of processes write, from copies that may be old
\* and with messages that may be late, implement a transaction as Enrollment
\* states it, each for itself (transactionStore, exchange, confirm).
THEOREM RecordsImplementEnrollment == Spec => ImplementsEnrollment
  <1> DEFINE A == \A t \in Txn : Simulated(t)
             I == \A t \in Txn : Transaction(t)!Init
  <1>1. Init => I
    <2> SUFFICES ASSUME Init, NEW t \in Txn PROVE Transaction(t)!Init
      OBVIOUS
    <2>1. /\ srv[t] = [state |-> "unknown", cert |-> 0]
          /\ store = NoRecord /\ nextTxn = 1 /\ t # 0 /\ ~(t < nextTxn) /\ NoRecord.id = 0
      BY BoundsAssumption, SMT DEF Init, ServerInit, StoreInit, Txn, NoRecord
    <2>2. Recorded(t) = [phase |-> "enroll", cert |-> 0]
      BY <2>1 DEF Recorded
    <2> QED BY <2>1, <2>2 DEF Transaction!Init
  <1>2. /\ Typed /\ Typed' /\ BindInv /\ CopyInv /\ TruthInv /\ TruthInv' /\ ServedInv /\ ServedInv'
        /\ [Next]_vars
        => [A]_vars
    <2> SUFFICES ASSUME Typed, Typed', BindInv, CopyInv, TruthInv, TruthInv', ServedInv, ServedInv', Next,
                        NEW t \in Txn
                 PROVE  Simulated(t)
      OBVIOUS
    <2>1. StoreMoves /\ MessageMoves
      BY EveryStepMoves, EveryMessage
    <2>2. CASE UNCHANGED srv
      BY <2>1, <2>2, StoreEnrolls
    <2>3. ASSUME NEW m \in InTransit, NEW a, Serve(m, a), UNCHANGED storeVars PROVE Simulated(t)
      BY <2>3, TransitServed, ServeEnrolls
    <2> QED BY <2>1, <2>2, <2>3 DEF MessageMoves
  <1>3. I /\ [][A]_vars => ImplementsEnrollment
    BY PTL DEF ImplementsEnrollment, Simulated
  <1> HIDE DEF A, I
  <1> QED BY <1>1, <1>2, <1>3, TypedInvariant, BindingInvariant, CopyInvariant, TruthInvariant,
             ServedInvariant, PTL DEF Spec

-----------------------------------------------------------------------------
(* Confirmation: the nonce and the budget. *)

\* Record r, where certConf was sent for the transactions c: only a certConf
\* that was sent has a nonce, one that was not has a poll left, and nothing is
\* polled for before the first answer.
Tally(c, r) ==
    /\ r.phase = "Confirming" /\ r.requestNonce # "none" => r.id \in c
    /\ r.phase = "Confirming" /\ r.requestNonce = "none" => r.polls < MaximumPolls
    /\ r.phase \in {"New", "Enrolling"} => r.polls = 0

\* A worker at p with copy r waits for the answer to a certConf that was sent.
Announced(c, p, r) == p = "await" /\ r.phase = "Confirming" => r.id \in c

\* The inductive strengthening of PollsOnlyASentCertConf and of
\* FreshCertConfWithinBudget: it holds of every copy.
TallyInv ==
    /\ Tally(confSent, store)
    /\ \A w \in Worker : Tally(confSent, rec[w]) /\ Announced(confSent, pc[w], rec[w])

\* The empty record is in order.
LEMMA TallyNone == \A c : Tally(c, NoRecord)
  BY DEF Tally, NoRecord

\* So is a record when more was sent.
LEMMA TallyGrows ==
  ASSUME NEW c, NEW d, c \subseteq d, NEW r, Tally(c, r)
  PROVE  Tally(d, r)
  BY DEF Tally

\* What the status updates do to the nonce and the poll count.
LEMMA StatusTally ==
  ASSUME NEW r \in Record, NEW c, NEW n, NEW q, NEW k
  PROVE  /\ Tally(k, recordPending(Counted(r), n)) /\ Tally(k, recordIssued(r, c))
         /\ r.polls < MaximumPolls => Tally(k, recordConfirming(r, c, n, "none"))
         /\ r.id \in k => Tally(k, recordConfirming(Counted(r), c, n, "certConf"))
         /\ Tally(k, r) => Tally(k, Updated(r))
         /\ r.polls = 0 => Tally(k, NewRecord(r)) /\ Tally(k, recordEnrolling(NewRecord(r)))
  <1>1. DOMAIN r = {"id", "uid", "issuer", "digest", "operation", "fallback", "version", "phase",
                    "polls", "requestNonce", "recipNonce", "chain"}
    BY DEF Record
  <1>2. DOMAIN Counted(r) = DOMAIN r /\ Counted(r).id = r.id
    BY DEF Record, Counted
  <1>3. recordPending(Counted(r), n).phase = "Polling"
    BY <1>1, <1>2 DEF recordPending
  <1>4. recordIssued(r, c).phase = "Issued"
    BY <1>1 DEF recordIssued
  <1>5. LET x == recordConfirming(r, c, n, "none")
        IN  x.phase = "Confirming" /\ x.requestNonce = "none" /\ x.polls = r.polls
    BY <1>1 DEF recordConfirming
  <1>6. LET x == recordConfirming(Counted(r), c, n, "certConf")
        IN  x.phase = "Confirming" /\ x.requestNonce = "certConf" /\ x.id = r.id
    BY <1>1, <1>2 DEF recordConfirming
  <1>7. LET x == Updated(r)
        IN  x.phase = r.phase /\ x.requestNonce = r.requestNonce /\ x.id = r.id /\ x.polls = r.polls
    BY <1>1 DEF Updated
  <1>8. NewRecord(r).phase = "New" /\ NewRecord(r).polls = r.polls /\ DOMAIN NewRecord(r) = DOMAIN r
    BY <1>1 DEF NewRecord
  <1>9. recordEnrolling(NewRecord(r)).phase = "Enrolling" /\ recordEnrolling(NewRecord(r)).polls = r.polls
    BY <1>1, <1>8 DEF recordEnrolling
  <1> QED BY <1>3, <1>4, <1>5, <1>6, <1>7, <1>8, <1>9 DEF Tally

\* The record is in order after every write to it.
LEMMA StoreTally ==
  ASSUME Typed, CopyInv, TallyInv, StoreMoves, confSent \subseteq confSent'
  PROVE  Tally(confSent', store') /\ \A v \in Worker : Tally(confSent', rec[v])
  <1>0. /\ Tally(confSent', store) /\ Tally(confSent', NoRecord)
        /\ \A v \in Worker : rec[v] \in Record /\ Tally(confSent', rec[v])
    BY TallyGrows, TallyNone DEF TallyInv, Typed, WorkersOK
  <1>1. ASSUME NEW r \in Record, DeleteObject(r) PROVE Tally(confSent', store')
    BY <1>0, <1>1 DEF DeleteObject
  <1>2. ASSUME NEW w \in Worker, UpdateStatus(rec[w]) PROVE Tally(confSent', store')
    BY <1>0, <1>2, StatusTally DEF UpdateStatus
  <1>3. ASSUME NEW w \in Worker, pc[w] = "create", CreateObject(rec[w]) PROVE Tally(confSent', store')
    <2>1. rec[w].phase = "New" /\ rec[w].polls = 0
      BY <1>0, <1>3 DEF CopyInv, Steady, Tally
    <2> QED BY <1>0, <1>3, <2>1, StatusTally DEF CreateObject
  <1> QED BY <1>0, <1>1, <1>2, <1>3 DEF StoreMoves

\* A worker that moves with a copy in order.
LEMMA DecideTally ==
  ASSUME WorkersOK, TallyInv, NEW w \in Worker, NEW p, NEW o, NEW r, Decide(w, p, o, r),
         confSent \subseteq confSent', Tally(confSent', store'),
         \A v \in Worker : Tally(confSent', rec[v]),
         Tally(confSent', r), Announced(confSent', p, r)
  PROVE  TallyInv'
  <1> SUFFICES ASSUME NEW v \in Worker
               PROVE  Tally(confSent', rec'[v]) /\ Announced(confSent', pc'[v], rec'[v])
    BY DEF TallyInv
  <1>1. CASE v = w
    <2>1. pc'[v] = p /\ rec'[v] = r
      BY <1>1 DEF Decide, WorkersOK
    <2> QED BY <2>1
  <1>2. CASE v # w
    <2>1. pc'[v] = pc[v] /\ rec'[v] = rec[v]
      BY <1>2 DEF Decide, WorkersOK
    <2> QED BY <2>1 DEF TallyInv, Announced
  <1> QED BY <1>1, <1>2

\* One that forgets its copy.
LEMMA ResetTally ==
  ASSUME WorkersOK, TallyInv, NEW w \in Worker, Reset(w), confSent' = confSent, Tally(confSent', store')
  PROVE  TallyInv'
  <1> SUFFICES ASSUME NEW v \in Worker
               PROVE  Tally(confSent', rec'[v]) /\ Announced(confSent', pc'[v], rec'[v])
    BY DEF TallyInv
  <1>1. CASE v = w
    <2>1. pc'[v] = "idle" /\ rec'[v] = NoRecord
      BY <1>1 DEF Reset, WorkersOK
    <2> QED BY <2>1, TallyNone DEF Announced
  <1>2. CASE v # w
    <2>1. pc'[v] = pc[v] /\ rec'[v] = rec[v]
      BY <1>2 DEF Reset, WorkersOK
    <2> QED BY <2>1 DEF TallyInv
  <1> QED BY <1>1, <1>2

\* What a worker makes of an answer: a granted certificate comes with a poll to
\* spare, and only the answer to a certConf leaves a nonce of one.
LEMMA AcceptTally ==
  ASSUME Typed, CopyInv, TallyInv, NEW w \in Worker, Answered(w)
  PROVE  TallyInv'
  <1> DEFINE r == rec[w]
             m == Outgoing(r)
  <1>0. /\ WorkersOK /\ r \in Record /\ pc[w] = "await" /\ m \in Message /\ store' = store
        /\ confSent' = confSent /\ Steady("await", out[w], r)
        /\ Polls(r) => r.polls < MaximumPolls
        /\ Tally(confSent, r) /\ Announced(confSent, "await", r)
    BY OutgoingTyped DEF Answered, Typed, WorkersOK, WorkerOK, Holding, storeVars, historyVars,
         CopyInv, TallyInv
  <1>1. /\ m.kind # "reject"
        /\ m.kind \in {"enroll", "pollReq"} => r.phase \in {"New", "Enrolling", "Polling"}
        /\ m.kind \in {"certConf", "confPoll"} => r.phase = "Confirming"
    BY <1>0 DEF Steady, Reading, Outgoing, Record, Phase
  <1> HIDE DEF m
  <1>2. PICK a : Serve(m, a) /\ Accept(w, a.reply)
    BY DEF Answered, m
  <1> DEFINE reply == a.reply
  <1>3. /\ reply \in Reply
        /\ reply.kind = "granted" => r.polls < MaximumPolls
        /\ reply.kind = "confWaiting" => r.id \in confSent
    <2>1. ServerTypeOK /\ Granting(srv)
      BY DEF Typed, CopyInv
    <2>2. reply \in Reply
      BY <1>0, <1>2, <2>1, ServeTyped
    <2>3. /\ reply.kind = "granted" => r.phase \in {"New", "Enrolling", "Polling"}
          /\ reply.kind = "confWaiting" => r.phase = "Confirming"
      BY <1>0, <1>1, <1>2, <2>1, AnswerKinds
    <2>4. r.phase \in {"New", "Enrolling", "Polling"} => r.polls < MaximumPolls
      BY <1>0, BoundsAssumption, SMT DEF Tally, Polls
    <2> QED BY <1>0, <2>2, <2>3, <2>4 DEF Announced
  <1>4. ASSUME NEW p, NEW o, NEW x, Decide(w, p, o, x), Tally(confSent, x), p # "await"
        PROVE  TallyInv'
    <2>1. /\ Tally(confSent', store') /\ Announced(confSent', p, x)
          /\ \A v \in Worker : Tally(confSent', rec[v])
      BY <1>0, <1>4 DEF TallyInv, Announced
    <2> QED BY <1>0, <1>4, <2>1, DecideTally
  <1>5. \E p, o, x : Decide(w, p, o, x) /\ Tally(confSent, x) /\ p # "await"
    <2>1. CASE reply.kind = "waiting"
      BY <1>0, <1>2, <2>1, StatusTally DEF Accept, SaveRecord
    <2>2. CASE reply.kind = "granted"
      BY <1>0, <1>2, <1>3, <2>2, StatusTally DEF Accept, SaveRecord
    <2>3. CASE reply.kind = "implicit"
      BY <1>0, <1>2, <2>3, StatusTally DEF Accept, SaveRecord
    <2>4. CASE reply.kind = "confWaiting"
      BY <1>0, <1>2, <1>3, <2>4, StatusTally DEF Accept, SaveRecord
    <2>5. CASE reply.kind = "pkiConf"
      BY <1>0, <1>2, <2>5, StatusTally DEF Accept, SaveRecord
    <2>6. CASE reply.kind = "permanent"
      BY <1>0, <1>2, <2>6 DEF Accept, FailTransaction
    <2>7. CASE reply.kind = "retryable"
      BY <1>0, <1>2, <2>7, TallyNone DEF Accept, Return
    <2> QED BY <1>3, <2>1, <2>2, <2>3, <2>4, <2>5, <2>6, <2>7 DEF Reply
  <1> QED BY <1>4, <1>5

\* No step forgets a certConf that was sent.
LEMMA ConfirmationsKept ==
  ASSUME Next
  PROVE  confSent \subseteq confSent'
  BY DEF Next, WorkerStep, Environment, Sign, Load, DropStale, Recover, ConfigureNew,
       ConfigureResumed, Create, Save, Exchange, Confirm, Send, FailBeforeSending, Answered,
       Refuse, NoAnswer, Remove, Report, Crash, Informer, ServeLate, Expire, ChangeIssuer,
       RotateSecrets, DeleteRequest, CreateRequest, CollectGarbage, historyVars

\* The steps of a worker.
LEMMA WorkerStepTally ==
  ASSUME Typed, CopyInv, TallyInv, NEW w \in Worker, WorkerStep(w), StoreMoves,
         confSent \subseteq confSent'
  PROVE  TallyInv'
  <1>0. /\ WorkersOK /\ WorkerOK(w) /\ rec[w] \in Record /\ store \in Record
        /\ Tally(confSent', store) /\ Tally(confSent', store') /\ Tally(confSent', NoRecord)
        /\ \A v \in Worker : Tally(confSent', rec[v])
    BY StoreTally, TallyGrows, TallyNone DEF Typed, WorkersOK, StoreOK, StoreTypeOK, TallyInv
  <1>1. ASSUME NEW p, NEW o, NEW r, Decide(w, p, o, r), Tally(confSent', r), Announced(confSent', p, r)
        PROVE  TallyInv'
    BY <1>0, <1>1, DecideTally
  <1>2. ASSUME NEW p, NEW o, NEW r, Decide(w, p, o, r), p # "await", r \in {rec[w], store, NoRecord}
        PROVE  TallyInv'
    BY <1>0, <1>1, <1>2 DEF Announced
  <1>3. ASSUME NEW o, Return(w, o) PROVE TallyInv'
    BY <1>2, <1>3 DEF Return
  <1>4. CASE Sign(w)
    <2>1. rec' = rec /\ confSent' = confSent
      BY <1>4 DEF Sign, historyVars
    <2>2. \A v \in Worker : pc'[v] = "await" => pc[v] = "await"
      BY <1>0, <1>4 DEF Sign, WorkersOK
    <2> QED BY <1>0, <2>1, <2>2 DEF TallyInv, Announced
  <1>5. CASE Load(w)
    BY <1>2, <1>3, <1>5 DEF Load, Resume, FailTransaction, Continue
  <1>6. CASE DropStale(w)
    BY <1>2, <1>3, <1>6 DEF DropStale, Continue
  <1>7. CASE Recover(w)
    BY <1>2, <1>3, <1>7 DEF Recover, FailTransaction
  <1>8. CASE ConfigureNew(w)
    <2>1. ASSUME NEW s, Continue(w, "create",
                      [NoRecord EXCEPT !.uid = req[w], !.issuer = iss[w], !.digest = rotation,
                                       !.operation = s.operation, !.fallback = s.fallback])
          PROVE  TallyInv'
      <3>1. PICK d : d = [NoRecord EXCEPT !.uid = req[w], !.issuer = iss[w], !.digest = rotation,
                                          !.operation = s.operation, !.fallback = s.fallback]
        OBVIOUS
      <3>2. d.phase = "New" /\ d.polls = 0
        BY <3>1 DEF NoRecord
      <3>3. Tally(confSent', d) /\ Announced(confSent', "create", d)
        BY <3>2 DEF Tally, Announced
      <3> QED BY <1>1, <2>1, <3>1, <3>3 DEF Continue
    <2> QED BY <1>3, <1>8, <2>1 DEF ConfigureNew
  <1>9. CASE ConfigureResumed(w)
    BY <1>2, <1>3, <1>9 DEF ConfigureResumed, FailTransaction, Continue
  <1>10. CASE Create(w)
    <2>1. rec[w].phase = "New" /\ rec[w].polls = 0
      BY <1>0, <1>10 DEF Create, CopyInv, Steady, Tally
    <2>2. PICK e : e = recordEnrolling(NewRecord(rec[w]))
      OBVIOUS
    <2>3. Tally(confSent', e) /\ Announced(confSent', "save", e)
      BY <1>0, <2>1, <2>2, StatusTally DEF Announced
    <2> QED BY <1>1, <1>3, <1>10, <2>2, <2>3 DEF Create, SaveRecord
  <1>11. CASE Save(w)
    <2>1. PICK u : u = Updated(rec[w])
      OBVIOUS
    <2>2. Tally(confSent', u)
      BY <1>0, <2>1, StatusTally
    <2>3. CASE out[w] \in {"exchange", "confirm"} /\ Continue(w, out[w], u)
      <3>1. Announced(confSent', out[w], u)
        BY <2>3 DEF Announced
      <3> QED BY <1>1, <2>2, <2>3, <3>1 DEF Continue
    <2> QED BY <1>3, <1>11, <2>1, <2>3 DEF Save
  <1>12. CASE Exchange(w) \/ Confirm(w)
    <2>1. CASE Send(w)
      <3>1. rec[w].phase = "Confirming" => rec[w].id \in confSent'
        <4>1. CASE Outgoing(rec[w]).kind = "certConf"
          BY <2>1, <4>1 DEF Send
        <4>2. CASE rec[w].phase = "Confirming" /\ Outgoing(rec[w]).kind # "certConf"
          BY <1>0, <4>2 DEF Outgoing, Polls, Tally
        <4> QED BY <4>1, <4>2
      <3>2. Announced(confSent', "await", rec[w])
        BY <3>1 DEF Announced
      <3> QED BY <1>0, <1>1, <2>1, <3>2 DEF Send, Continue
    <2>2. CASE FailBeforeSending(w)
      BY <1>2, <2>2 DEF FailBeforeSending, FailTransaction
    <2> QED BY <1>12, <2>1, <2>2 DEF Exchange, Confirm
  <1>13. CASE Answered(w)
    BY <1>13, AcceptTally
  <1>14. CASE Refuse(w)
    BY <1>2, <1>14 DEF Refuse, FailTransaction
  <1>15. CASE NoAnswer(w)
    BY <1>3, <1>15 DEF NoAnswer
  <1>16. CASE Remove(w)
    BY <1>3, <1>16 DEF Remove
  <1>17. CASE Report(w)
    BY <1>0, <1>17, ResetTally DEF Report, historyVars
  <1> QED BY <1>4, <1>5, <1>6, <1>7, <1>8, <1>9, <1>10, <1>11, <1>12, <1>13, <1>14, <1>15, <1>16,
             <1>17 DEF WorkerStep

\* In every reachable state the nonce and the poll count of every copy are in
\* order.
THEOREM TallyInvariant == Spec => []TallyInv
  <1>1. Init => TallyInv
    BY TallyNone, SMT DEF Init, StoreInit, TallyInv, Announced
  <1>2. Typed /\ CopyInv /\ TallyInv /\ [Next]_vars => TallyInv'
    <2> SUFFICES ASSUME Typed, CopyInv, TallyInv, [Next]_vars PROVE TallyInv'
      OBVIOUS
    <2>1. ASSUME NEW w \in Worker, WorkerStep(w) PROVE TallyInv'
      <3>1. Next
        BY <2>1 DEF Next
      <3> QED BY <2>1, <3>1, EveryStepMoves, ConfirmationsKept, WorkerStepTally
    <2>2. CASE Environment
      <3>1. Next
        BY <2>2 DEF Next
      <3>2. Tally(confSent', store') /\ confSent' = confSent
        <4>1. confSent' = confSent
          BY <2>2 DEF Environment, Crash, Informer, ServeLate, Expire, ChangeIssuer, RotateSecrets,
                      DeleteRequest, CreateRequest, CollectGarbage, historyVars
        <4> QED BY <3>1, <4>1, EveryStepMoves, StoreTally
      <3>3. CASE \E w \in Worker : Reset(w)
        BY <3>2, <3>3, ResetTally DEF Typed
      <3>4. CASE UNCHANGED workerVars
        BY <3>2, <3>4 DEF workerVars, TallyInv
      <3> QED BY <2>2, <3>3, <3>4 DEF Environment, Crash, Informer, ServeLate, Expire, ChangeIssuer,
                                      RotateSecrets, DeleteRequest, CreateRequest, CollectGarbage
    <2>3. CASE UNCHANGED vars
      BY <2>3 DEF vars, storeVars, workerVars, historyVars, TallyInv
    <2> QED BY <2>1, <2>2, <2>3 DEF Next
  <1> QED BY <1>1, <1>2, TypedInvariant, CopyInvariant, PTL DEF Spec

\* For any number of processes: a confirmation is polled for only once its
\* certConf was sent, although the record keeps one nonce for two purposes.
THEOREM PollsOnlyASentCertConfHolds == Spec => []PollsOnlyASentCertConf
  <1>1. TallyInv => PollsOnlyASentCertConf
    BY DEF TallyInv, Tally, PollsOnlyASentCertConf
  <1> QED BY <1>1, TallyInvariant, PTL

\* For any poll budget: a certificate that arrives with the last poll can still
\* be confirmed.
THEOREM FreshCertConfWithinBudgetHolds == Spec => []FreshCertConfWithinBudget
  <1>1. TallyInv => FreshCertConfWithinBudget
    BY DEF TallyInv, Tally, FreshCertConfWithinBudget
  <1> QED BY <1>1, TallyInvariant, PTL

-----------------------------------------------------------------------------
(* One process: no record of a live request is taken for a stale one. *)

\* A worker at p that was called for request u and holds copy r, when the record
\* names s, the cache g and the API server c: requests only get newer.
Dated(p, u, r, s, g, c) ==
    /\ s <= g /\ g <= c
    /\ p # "idle" => s <= u /\ u <= g /\ r <= u
    /\ p = "idle" => r = 0
    /\ p = "dropStale" => r < u

\* The inductive strengthening of LiveTransactionNotDropped.
DatedInv ==
    \A w \in Worker : Dated(pc[w], req[w], rec[w].uid, store.uid, seen[w].uid, cr.uid)

\* What a worker and the record are dated with.
LEMMA DatesTyped ==
  ASSUME Typed, NEW w \in Worker
  PROVE  /\ req[w] \in Nat /\ rec[w].uid \in Nat /\ store.uid \in Nat /\ seen[w].uid \in Nat
         /\ cr.uid \in Nat /\ NoRecord.uid = 0 /\ rec[w] \in Record
  BY BoundsAssumption, SMTT(30) DEF Typed, WorkersOK, StoreOK, StoreTypeOK, RequestsOK, Record, Uid,
                          CertificateRequest, NoRecord

\* A write never makes the record newer than what the process was called for.
LEMMA StoreDated ==
  ASSUME Typed, DatedInv, StoreMoves, NEW w \in Worker, \A v \in Worker : v = w
  PROVE  /\ store'.uid \in Nat /\ store'.uid <= seen[w].uid
         /\ pc[w] # "idle" => store'.uid <= req[w]
  <1>0. /\ Dated(pc[w], req[w], rec[w].uid, store.uid, seen[w].uid, cr.uid)
        /\ req[w] \in Nat /\ rec[w].uid \in Nat /\ store.uid \in Nat /\ seen[w].uid \in Nat
        /\ NoRecord.uid = 0 /\ rec[w] \in Record
    BY DatesTyped DEF DatedInv
  <1>1. \/ store'.uid = store.uid \/ store'.uid = 0
        \/ pc[w] # "idle" /\ store'.uid = rec[w].uid
    <2>1. ASSUME NEW r \in Record, DeleteObject(r) PROVE store'.uid = store.uid \/ store'.uid = 0
      BY <1>0, <2>1 DEF DeleteObject
    <2>2. CASE pc[w] = "save" /\ UpdateStatus(rec[w])
      BY <1>0, <2>2, UpdatedFields DEF UpdateStatus
    <2>3. CASE pc[w] = "create" /\ CreateObject(rec[w])
      BY <1>0, <2>3 DEF CreateObject, NewRecord, Record
    <2> QED BY <2>1, <2>2, <2>3 DEF StoreMoves
  <1> QED BY <1>0, <1>1, SMTT(30) DEF Dated

\* The steps of the process.
LEMMA WorkerStepDated ==
  ASSUME Typed, BindInv, DatedInv, StoreMoves, NEW w \in Worker, \A v \in Worker : v = w, WorkerStep(w)
  PROVE  DatedInv'
  <1>0. /\ WorkersOK /\ Dated(pc[w], req[w], rec[w].uid, store.uid, seen[w].uid, cr.uid)
        /\ req[w] \in Nat /\ rec[w].uid \in Nat /\ store.uid \in Nat /\ seen[w].uid \in Nat
        /\ cr.uid \in Nat /\ NoRecord.uid = 0 /\ rec[w] \in Record
        /\ store'.uid \in Nat /\ store'.uid <= seen[w].uid
        /\ pc[w] # "idle" => store'.uid <= req[w]
    BY DatesTyped, StoreDated DEF DatedInv, Typed
  <1>1. seen' = seen /\ cr'.uid = cr.uid
    BY DEF WorkerStep, Sign, Load, DropStale, Recover, ConfigureNew, ConfigureResumed, Create, Save,
           Exchange, Confirm, Send, FailBeforeSending, Answered, Refuse, NoAnswer, Remove, Report,
           requestVars, Typed, RequestsOK, CertificateRequest
  <1>2. ASSUME NEW p, NEW o, NEW r, Decide(w, p, o, r), pc[w] # "idle", p # "idle",
               r.uid \in Nat, r.uid <= req[w], p = "dropStale" => r.uid # req[w]
        PROVE  DatedInv'
    <2>1. pc'[w] = p /\ rec'[w] = r /\ req'[w] = req[w]
      BY <1>0, <1>2 DEF Decide, WorkersOK
    <2>2. Dated(p, req[w], r.uid, store'.uid, seen[w].uid, cr.uid)
      BY <1>0, <1>2, SMT DEF Dated
    <2> QED BY <1>1, <2>1, <2>2 DEF DatedInv
  <1>3. ASSUME NEW p, NEW o, NEW r, Decide(w, p, o, r), pc[w] # "idle",
               p \notin {"idle", "dropStale"}, r \in {rec[w], store, NoRecord}
        PROVE  DatedInv'
    <2>1. r.uid \in Nat /\ r.uid <= req[w]
      BY <1>0, <1>3, SMTT(30) DEF Dated
    <2> QED BY <1>2, <1>3, <2>1
  <1>4. ASSUME NEW o, Return(w, o), pc[w] # "idle" PROVE DatedInv'
    BY <1>3, <1>4, SMT DEF Return
  <1>5. ASSUME NEW p, NEW o, NEW r, Decide(w, p, o, r), pc[w] # "idle",
               p \notin {"idle", "dropStale"}, r.uid = rec[w].uid
        PROVE  DatedInv'
    BY <1>0, <1>2, <1>5 DEF Dated
  <1>6. CASE Sign(w)
    <2>1. pc[w] = "idle" /\ pc'[w] \in {"report", "load"} /\ rec'[w] = rec[w] /\ req'[w] = seen[w].uid
      BY <1>0, <1>6 DEF Sign, WorkersOK
    <2>2. Dated(pc'[w], req'[w], rec'[w].uid, store'.uid, seen[w].uid, cr.uid)
      BY <1>0, <2>1, SMT DEF Dated
    <2> QED BY <1>1, <2>2 DEF DatedInv
  <1>7. CASE Load(w)
    <2>0. pc[w] # "idle" /\ store.uid <= req[w]
      BY <1>0, <1>7 DEF Load, Dated
    <2>1. CASE store.uid # req[w] /\ Continue(w, "dropStale", store)
      BY <1>0, <1>2, <2>0, <2>1 DEF Continue
    <2>2. CASE Resume(w, store)
      BY <1>3, <2>0, <2>2 DEF Resume, FailTransaction, Continue
    <2> QED BY <1>3, <1>4, <1>7, <2>0, <2>1, <2>2 DEF Load, Continue
  <1>8. CASE DropStale(w)
    BY <1>3, <1>4, <1>8 DEF DropStale, Continue
  <1>9. CASE Recover(w)
    BY <1>3, <1>4, <1>9, SMT DEF Recover, FailTransaction
  <1>10. CASE ConfigureNew(w)
    <2>1. ASSUME NEW s, Continue(w, "create",
                      [NoRecord EXCEPT !.uid = req[w], !.issuer = iss[w], !.digest = rotation,
                                       !.operation = s.operation, !.fallback = s.fallback])
          PROVE  DatedInv'
      <3>1. PICK d : d = [NoRecord EXCEPT !.uid = req[w], !.issuer = iss[w], !.digest = rotation,
                                          !.operation = s.operation, !.fallback = s.fallback]
        OBVIOUS
      <3>2. d.uid = req[w]
        BY <3>1 DEF NoRecord
      <3>3. pc[w] # "idle"
        BY <1>10 DEF ConfigureNew
      <3>4. d.uid \in Nat /\ d.uid <= req[w]
        BY <1>0, <3>2, SMT
      <3> QED BY <1>2, <2>1, <3>1, <3>3, <3>4 DEF Continue
    <2> QED BY <1>4, <1>10, <2>1 DEF ConfigureNew
  <1>11. CASE ConfigureResumed(w)
    BY <1>3, <1>4, <1>11, SMT DEF ConfigureResumed, FailTransaction, Continue
  <1>12. CASE Create(w)
    <2>1. PICK e : e = recordEnrolling(NewRecord(rec[w]))
      OBVIOUS
    <2>2. e.uid = rec[w].uid
      BY <1>0, <2>1 DEF recordEnrolling, NewRecord, Record
    <2> QED BY <1>4, <1>5, <1>12, <2>1, <2>2, SMT DEF Create, SaveRecord
  <1>13. CASE Save(w)
    <2>1. PICK u : u = Updated(rec[w])
      OBVIOUS
    <2>2. u.uid = rec[w].uid
      BY <1>0, <2>1, UpdatedFields
    <2> QED BY <1>4, <1>5, <1>13, <2>1, <2>2 DEF Save, Continue
  <1>14. CASE Exchange(w) \/ Confirm(w)
    <2>1. /\ pc[w] \in {"exchange", "confirm"}
          /\ \/ Decide(w, "await", "none", rec[w])
             \/ Decide(w, "remove", "permanent", rec[w])
      BY <1>14 DEF Exchange, Confirm, Send, FailBeforeSending, FailTransaction, Continue
    <2>2. pc[w] # "idle" /\ {"await", "remove"} \cap {"idle", "dropStale"} = {}
      BY <2>1
    <2>3. CASE Decide(w, "await", "none", rec[w])
      BY <1>5, <2>2, <2>3
    <2>4. CASE Decide(w, "remove", "permanent", rec[w])
      BY <1>5, <2>2, <2>4
    <2> QED BY <2>1, <2>3, <2>4
  <1>15. CASE Answered(w)
    <2>1. PICK a : Accept(w, a.reply) /\ a.reply.kind \in ReplyKind
      <3>1. Outgoing(rec[w]) \in Message /\ ServerTypeOK
        BY <1>0, <1>15, OutgoingTyped DEF Answered, Typed, WorkersOK, WorkerOK, Holding
      <3>2. PICK a : Serve(Outgoing(rec[w]), a) /\ Accept(w, a.reply)
        BY <1>15 DEF Answered
      <3>3. a.reply \in Reply
        BY <3>1, <3>2, ServeTyped
      <3> QED BY <3>2, <3>3 DEF Reply, ReplyKind
    <2>2. \E p, o, r : /\ Decide(w, p, o, r) /\ p \in {"save", "remove", "report"}
                       /\ r.uid = rec[w].uid \/ r = NoRecord
      <3>1. \A c, n, q : /\ recordPending(Counted(rec[w]), n).uid = rec[w].uid
                         /\ recordConfirming(rec[w], c, n, q).uid = rec[w].uid
                         /\ recordConfirming(Counted(rec[w]), c, n, q).uid = rec[w].uid
                         /\ recordIssued(rec[w], c).uid = rec[w].uid
        BY <1>0, StatusKeepsBinding, SMTT(30)
      <3>2. CASE a.reply.kind = "waiting"
        BY <2>1, <3>1, <3>2 DEF Accept, SaveRecord
      <3>3. CASE a.reply.kind = "granted"
        BY <2>1, <3>1, <3>3, SMT DEF Accept, SaveRecord
      <3>4. CASE a.reply.kind = "implicit"
        BY <2>1, <3>1, <3>4 DEF Accept, SaveRecord
      <3>5. CASE a.reply.kind = "confWaiting"
        BY <2>1, <3>1, <3>5, SMT DEF Accept, SaveRecord
      <3>6. CASE a.reply.kind = "pkiConf"
        BY <2>1, <3>1, <3>6 DEF Accept, SaveRecord
      <3>7. CASE a.reply.kind = "permanent"
        BY <2>1, <3>7 DEF Accept, FailTransaction
      <3>8. CASE a.reply.kind = "retryable"
        BY <2>1, <3>8 DEF Accept, Return
      <3> QED BY <2>1, <3>2, <3>3, <3>4, <3>5, <3>6, <3>7, <3>8 DEF ReplyKind
    <2>3. pc[w] # "idle"
      BY <1>15 DEF Answered
    <2> QED BY <1>3, <1>5, <2>2, <2>3
  <1>16. CASE Refuse(w)
    <2>1. pc[w] = "await" /\ Decide(w, "remove", "permanent", rec[w])
      BY <1>16 DEF Refuse, FailTransaction
    <2>2. pc[w] # "idle" /\ "remove" \notin {"idle", "dropStale"}
      BY <2>1
    <2> QED BY <1>5, <2>1, <2>2
  <1>17. CASE NoAnswer(w)
    BY <1>4, <1>17 DEF NoAnswer
  <1>18. CASE Remove(w)
    BY <1>4, <1>18 DEF Remove
  <1>19. CASE Report(w)
    <2>1. pc'[w] = "idle" /\ rec'[w] = NoRecord
      BY <1>0, <1>19 DEF Report, Reset, WorkersOK
    <2>2. Dated("idle", req'[w], 0, store'.uid, seen[w].uid, cr.uid)
      BY <1>0 DEF Dated
    <2> QED BY <1>0, <1>1, <2>1, <2>2 DEF DatedInv
  <1> QED BY <1>6, <1>7, <1>8, <1>9, <1>10, <1>11, <1>12, <1>13, <1>14, <1>15, <1>16, <1>17, <1>18,
             <1>19 DEF WorkerStep

\* The steps of the environment.
LEMMA EnvironmentDated ==
  ASSUME Typed, DatedInv, StoreMoves, NEW w \in Worker, \A v \in Worker : v = w, Environment
  PROVE  DatedInv'
  <1>0. /\ WorkersOK /\ Dated(pc[w], req[w], rec[w].uid, store.uid, seen[w].uid, cr.uid)
        /\ req[w] \in Nat /\ rec[w].uid \in Nat /\ store.uid \in Nat /\ seen[w].uid \in Nat
        /\ cr.uid \in Nat /\ NoRecord.uid = 0
        /\ store'.uid \in Nat /\ store'.uid <= seen[w].uid
        /\ pc[w] # "idle" => store'.uid <= req[w]
        /\ cr \in CertificateRequest /\ seen \in [Worker -> [uid : Uid, state : RequestState]]
    BY DatesTyped, StoreDated DEF DatedInv, Typed, RequestsOK
  <1>1. CASE Crash(w)
    <2>1. pc'[w] = "idle" /\ rec'[w] = NoRecord /\ cr' = cr /\ seen'[w].uid = cr.uid
      BY <1>0, <1>1 DEF Crash, Reset, WorkersOK, Cached
    <2>2. Dated("idle", req'[w], 0, store'.uid, cr.uid, cr.uid)
      BY <1>0, SMTT(30) DEF Dated
    <2> QED BY <1>0, <2>1, <2>2 DEF DatedInv
  <1>2. CASE Informer(w)
    <2>1. pc' = pc /\ req' = req /\ rec' = rec /\ store' = store /\ cr' = cr /\ seen'[w].uid = cr.uid
      BY <1>0, <1>2 DEF Informer, workerVars, storeVars, Cached
    <2>2. Dated(pc[w], req[w], rec[w].uid, store.uid, cr.uid, cr.uid)
      BY <1>0, SMTT(30) DEF Dated
    <2> QED BY <2>1, <2>2 DEF DatedInv
  <1>3. CASE /\ UNCHANGED workerVars /\ seen' = seen /\ cr'.uid \in Nat /\ cr'.uid >= cr.uid
    <2>1. pc' = pc /\ req' = req /\ rec' = rec
      BY <1>3 DEF workerVars
    <2>2. Dated(pc[w], req[w], rec[w].uid, store'.uid, seen[w].uid, cr'.uid)
      BY <1>0, <1>3, SMTT(30) DEF Dated
    <2> QED BY <1>3, <2>1, <2>2 DEF DatedInv
  <1>4. CASE Expire \/ ServeLate \/ ChangeIssuer \/ RotateSecrets \/ CollectGarbage
    <2>1. UNCHANGED <<workerVars, seen, cr>>
      BY <1>4 DEF Expire, ServeLate, ChangeIssuer, RotateSecrets, CollectGarbage, requestVars
    <2>2. cr.uid >= cr.uid
      BY <1>0, SMTT(30)
    <2> QED BY <1>0, <1>3, <2>1, <2>2
  <1>5. CASE DeleteRequest \/ CreateRequest
    <2>1. cr'.uid \in {cr.uid, cr.uid + 1}
      BY <1>0, <1>5 DEF DeleteRequest, CreateRequest, CertificateRequest
    <2> QED BY <1>0, <1>3, <1>5, <2>1, SMT DEF DeleteRequest, CreateRequest
  <1> QED BY <1>1, <1>2, <1>4, <1>5 DEF Environment

\* With one process, however late its cache and wherever it is restarted: load
\* never deletes the record of a transaction that the live request depends on.
THEOREM LiveTransactionNotDroppedHolds ==
  (\A v, w \in Worker : v = w) => (Spec => []LiveTransactionNotDropped)
  <1> SUFFICES ASSUME \A v, w \in Worker : v = w PROVE Spec => []LiveTransactionNotDropped
    OBVIOUS
  <1>1. Init => DatedInv
    <2> SUFFICES ASSUME Init, NEW w \in Worker
                 PROVE  Dated(pc[w], req[w], rec[w].uid, store.uid, seen[w].uid, cr.uid)
      BY DEF DatedInv
    <2>1. pc[w] = "idle" /\ rec[w] = NoRecord /\ store = NoRecord /\ seen[w].uid = 1 /\ cr.uid = 1
      BY DEF Init, StoreInit
    <2> QED BY <2>1, SMTT(30) DEF Dated, NoRecord
  <1>2. Typed /\ BindInv /\ DatedInv /\ [Next]_vars => DatedInv'
    <2> SUFFICES ASSUME Typed, BindInv, DatedInv, [Next]_vars PROVE DatedInv'
      OBVIOUS
    <2>1. ASSUME NEW w \in Worker, Next PROVE DatedInv'
      <3>1. StoreMoves /\ \A v \in Worker : v = w
        BY <2>1, EveryStepMoves
      <3>2. WorkerStep(w) \/ Environment
        BY <2>1, <3>1 DEF Next
      <3> QED BY <3>1, <3>2, WorkerStepDated, EnvironmentDated
    <2>2. CASE UNCHANGED vars
      BY <2>2 DEF vars, storeVars, workerVars, requestVars, DatedInv
    <2>3. CASE Worker = {}
      BY <2>3 DEF DatedInv
    <2> QED BY <2>1, <2>2, <2>3
  <1>3. Typed /\ BindInv /\ DatedInv => LiveTransactionNotDropped
    <2> SUFFICES ASSUME Typed, BindInv, DatedInv, NEW w \in Worker, pc[w] = "dropStale",
                        NEW o \in sent, o.id = rec[w].id
                 PROVE  o.uid # cr.uid
      BY DEF LiveTransactionNotDropped
    <2>1. o.uid = rec[w].uid
      <3>1. PICK b \in [Txn -> Binding] : Bound(b)
        BY DEF BindInv
      <3>2. rec[w].id # 0
        BY BoundsAssumption, SMT DEF Typed, WorkersOK, WorkerOK, Holding, Txn
      <3>3. b[o.id] = <<o.uid, o.issuer, o.config>> /\ b[o.id] = <<rec[w].uid, rec[w].issuer, rec[w].digest>>
        BY <3>1, <3>2 DEF Bound, Agrees
      <3> QED BY <3>3, SMT
    <2>2. Dated("dropStale", req[w], rec[w].uid, store.uid, seen[w].uid, cr.uid)
      BY DEF DatedInv
    <2> QED BY <2>1, <2>2, DatesTyped, SMT DEF Dated
  <1> QED BY <1>1, <1>2, <1>3, TypedInvariant, BindingInvariant, PTL DEF Spec
=============================================================================
