--------------------------- MODULE WorkloadProofs ---------------------------
(***************************************************************************)
(* Proofs about WorkloadKeys, for any number of keys, requests and edits   *)
(* and for every set of issuers and of requests that users may make up.    *)
(*                                                                         *)
(* The inductive invariant says what a call of Sign knows at each of its   *)
(* steps, what the recorded transaction binds, which keys the Secrets of   *)
(* the Certificate can hold, and what the histories have recorded.         *)
(***************************************************************************)
EXTENDS WorkloadKeys, TLAPS

\* The steps are first-order, up to those that name another prover.
USE Zenon

Pending == request.state = "pending"

\* A call works on a pending request, and on the transaction it found.
CallInv ==
    /\ pc = "idle" => w = NoCall
    /\ pc # "idle" => Pending
    /\ pc \notin {"idle", "send"} => (w.resumed <=> txn.open)
    /\ pc \in {"classifyOwner", "classifySecret"}
         => ~txn.open /\ w.op = "KUR" /\ renewalFallbackOperation(issuer) # "none"
    /\ pc # "idle" /\ w.resumed => w.op = txn.op /\ w.fallback = txn.fallback
    /\ pc = "bind" => w.op = "P10CR"
    /\ pc \in {"owner", "staged"} => w.op \in {"IR", "KUR"}
    /\ pc = "current" => w.op = "KUR"
    /\ pc \in {"classifySecret", "current", "staged"} => request.owner = 1
    /\ pc \in {"current", "staged"} => request.keyName = "staged"
    /\ certificate.revision + (IF request.state = "done" THEN 0 ELSE 1) <= requests

\* The digest binds the proofs p that op takes from the Secrets.
Proves(op, p, digest) ==
    /\ op = "P10CR" => p.key = 0 /\ p.cert = 0
    /\ op = "IR" =>
          p.cert = 0 /\ digest = {[name |-> "staged", version |-> 0, cert |-> 0, key |-> p.key]}
    /\ op = "KUR" =>
          \E k \in Key :
             digest = {[name |-> "staged", version |-> 0, cert |-> 0, key |-> p.key],
                       [name |-> "current", version |-> 0, cert |-> p.cert, key |-> k]}

\* What is sent is what the transaction was recorded with.
SentInv ==
    /\ sent \subseteq [op : {"P10CR", "IR", "KUR"}, fallback : {"none", "missing", "expired"},
                       key : Key, cert : Key \cup {Unparsable}]
    /\ pc = "send" => /\ txn.open /\ w.op = txn.op /\ w.fallback = txn.fallback
                      /\ Proves(w.op, w.proof, txn.digest)
    /\ Pending => \A m \in sent : /\ txn.open /\ m.op = txn.op /\ m.fallback = txn.fallback
                                  /\ Proves(m.op, m, txn.digest)
    /\ OneProofPerTransaction

\* A Secret that the Certificate owns, or that was issued for it, does not hold
\* the key of somebody else.
Own(s) ==
    s.owner = 1 \/ (s.annotated = "this" /\ s.owner = 0) => s.key # OtherKey /\ s.cert # OtherKey

KeysInv ==
    /\ \A n \in {"staged", "current"} : Own(secret[n].data)
    /\ w.current.data.cert # OtherKey
    /\ w.proof.key # OtherKey /\ w.proof.cert # OtherKey
    /\ KeysBelongToCertificate

\* While the request is pending, the history has the present state of every
\* Secret that counts as the current one.
SeenInv ==
    /\ Pending => \A n \in CurrentNames : CurrentState(secret[n], 1, expired) \in seen
    /\ Pending /\ certificate.secretName # "current" => "renamed" \in seen
    /\ w.fallback # "none" => w.fallback \in seen
    /\ txn.fallback # "none" => txn.fallback \in seen
    /\ FallbackJustified

\* Something else than a missing or an expired certificate was seen.
Hopeful == ~(seen \subseteq {"missing", "expired"})

\* Where the issuer falls back, KUR goes on only if there was hope for it.
HopeInv ==
    renewalFallbackOperation(issuer) # "none" =>
       /\ pc \in {"current", "staged"} /\ w.op = "KUR" => Hopeful
       /\ pc = "owner" /\ w.op = "KUR" => Hopeful \/ request.keyName # "staged"
       /\ txn.open /\ txn.op = "KUR" => Hopeful
       /\ request.why \in {"missing", "expired"} => Hopeful

\* The digest of the Secrets as they are.
PresentDigest(op) ==
    IF op = "P10CR" THEN {}
    ELSE Fingerprints(op, secret["staged"].data, secret[certificate.secretName].data)

\* As long as nothing changes, what was read and recorded is still true.
SameInv ==
    /\ Pending /\ ~changed =>
          /\ pc \in {"current", "staged"} => w.secretName = certificate.secretName
          /\ pc = "staged" /\ w.op = "KUR" =>
                /\ w.current.data.cert = secret[certificate.secretName].data.cert
                /\ w.current.data.key = secret[certificate.secretName].data.key
          /\ txn.open => txn.digest = PresentDigest(txn.op)
    /\ CredentialsChanged

WorkloadInv ==
    TypeOK /\ CallInv /\ SentInv /\ KeysInv /\ SeenInv /\ HopeInv /\ SameInv

-----------------------------------------------------------------------------
(* Operators. *)

SecretType == [exists : BOOLEAN, data : Secret]
Operation == {"P10CR", "IR", "KUR"}
Reason == {"none", "missing", "expired"}

\* The assumption on the bounds, as arithmetic needs it.
LEMMA Bounds ==
    /\ MaxKey \in Nat /\ MaxKey # 0 /\ MaxKey # 1
    /\ MaxRequests \in Nat /\ MaxEdits \in Nat
<1>1. MaxKey \in Nat \ {0, 1} /\ MaxRequests \in Nat \ {0} /\ MaxEdits \in Nat
  BY WorkloadAssumption
<1> QED BY <1>1

\* The operation is determined by what the issuer may be configured with.
LEMMA Operations ==
    ASSUME TypeOK
    PROVE  /\ initialOperation(issuer) \in {"P10CR", "IR"} /\ renewalOperation(issuer) \in {"P10CR", "KUR"}
           /\ selectedTransactionOperation(issuer, request) \in Operation \cup {"error"}
           /\ renewalFallbackOperation(issuer) \in {"P10CR", "IR", "none"}
<1>1. issuer.initial \in {"P10CR", "IR"} /\ issuer.renewal \in {"", "P10CR", "KUR"}
  BY WorkloadAssumption DEF TypeOK
<1>2. initialOperation(issuer) \in {"P10CR", "IR"}
  BY <1>1 DEF initialOperation
<1>3. renewalOperation(issuer) \in {"P10CR", "KUR"}
  BY <1>1 DEF renewalOperation
<1> QED BY <1>2, <1>3 DEF selectedTransactionOperation, renewalFallbackOperation, Operation

\* The digest of an operation determines the proofs it binds.
LEMMA ProofsDetermined ==
    ASSUME NEW op \in Operation, NEW p, NEW q, NEW d, Proves(op, p, d), Proves(op, q, d)
    PROVE  p.key = q.key /\ p.cert = q.cert
<1>1. CASE op = "P10CR"
  BY <1>1 DEF Proves
<1>2. CASE op = "IR"
  <2>1. [name |-> "staged", version |-> 0, cert |-> 0, key |-> p.key]
          \in {[name |-> "staged", version |-> 0, cert |-> 0, key |-> q.key]}
    BY <1>2 DEF Proves
  <2> QED BY <1>2, <2>1 DEF Proves
<1>3. CASE op = "KUR"
  <2>1. PICK j \in Key :
           d = {[name |-> "staged", version |-> 0, cert |-> 0, key |-> p.key],
                [name |-> "current", version |-> 0, cert |-> p.cert, key |-> j]}
    BY <1>3 DEF Proves
  <2>2. PICK k \in Key :
           d = {[name |-> "staged", version |-> 0, cert |-> 0, key |-> q.key],
                [name |-> "current", version |-> 0, cert |-> q.cert, key |-> k]}
    BY <1>3 DEF Proves
  <2> DEFINE a == [name |-> "staged", version |-> 0, cert |-> 0, key |-> p.key]
             b == [name |-> "current", version |-> 0, cert |-> p.cert, key |-> j]
             x == [name |-> "staged", version |-> 0, cert |-> 0, key |-> q.key]
             y == [name |-> "current", version |-> 0, cert |-> q.cert, key |-> k]
  <2>3. a \in {x, y} /\ b \in {x, y}
    BY <2>1, <2>2
  <2>4. a.name = "staged" /\ b.name = "current" /\ x.name = "staged" /\ y.name = "current"
    OBVIOUS
  <2>5. a = x /\ b = y
    <3> HIDE DEF a, b, x, y
    <3> QED BY <2>3, <2>4
  <2>6. a.key = p.key /\ x.key = q.key /\ b.cert = p.cert /\ y.cert = q.cert
    OBVIOUS
  <2> HIDE DEF a, b, x, y
  <2> QED BY <2>5, <2>6
<1> QED BY <1>1, <1>2, <1>3 DEF Operation

\* The fingerprints of the Secrets bind the proofs taken from them.
LEMMA FingerprintsProve ==
    ASSUME NEW op \in {"IR", "KUR"}, NEW s \in Secret, NEW old \in Secret
    PROVE  Proves(op, [key |-> s.key, cert |-> IF op = "KUR" THEN old.cert ELSE 0],
                  Fingerprints(op, s, old))
<1>1. old.key \in Key
  BY DEF Secret
<1>2. CASE op = "IR"
  BY <1>2 DEF Proves, Fingerprints, workloadSecretFingerprint
<1>3. CASE op = "KUR"
  <2>1. Fingerprints(op, s, old) =
          {[name |-> "staged", version |-> 0, cert |-> 0, key |-> s.key],
           [name |-> "current", version |-> 0, cert |-> old.cert, key |-> old.key]}
    BY <1>3 DEF Fingerprints, workloadSecretFingerprint
  <2> QED BY <1>1, <1>3, <2>1 DEF Proves
<1> QED BY <1>2, <1>3

\* Nothing else of the Secrets is in them.
LEMMA FingerprintsSame ==
    ASSUME NEW op, NEW s, NEW t, NEW old, NEW new, s.key = t.key,
           old.key = new.key, old.cert = new.cert
    PROVE  Fingerprints(op, s, old) = Fingerprints(op, t, new)
BY DEF Fingerprints, workloadSecretFingerprint

\* What loading the keys finds, and what it has established when it finds nothing.
LEMMA Refusals ==
    ASSUME TypeOK, NEW s \in Secret, NEW old \in Secret, w.op \in {"IR", "KUR"},
           NEW why, why = RefusalOfKeys(request, w.op, s, old, expired)
    PROVE  /\ why \in {"none", "staged", "retry", "missing", "pair", "expired"}
           /\ why \in {"missing", "expired"} => w.op = "KUR"
           /\ why = "none" => s.owner = request.owner /\ s.key = request.csrKey
           /\ why = "none" /\ w.op = "KUR" => old.cert \in Key
BY DEF RefusalOfKeys, secretControlledByCertificate, Secret

-----------------------------------------------------------------------------
(* Steps of a call. *)

CallType ==
    [op : Operation, fallback : Reason, resumed : BOOLEAN, secretName : {"staged", "current"},
     current : SecretType, proof : [key : Key, cert : Key \cup {Unparsable}]]

\* A call may go on to this step, holding this.
MayGo(label, held) ==
    /\ label \in {"classifyOwner", "classifySecret", "owner", "current", "staged", "bind"}
    /\ held \in CallType
    /\ held.resumed <=> txn.open
    /\ label \in {"classifyOwner", "classifySecret"}
         => ~txn.open /\ held.op = "KUR" /\ renewalFallbackOperation(issuer) # "none"
    /\ held.resumed => held.op = txn.op /\ held.fallback = txn.fallback
    /\ label = "bind" => held.op = "P10CR"
    /\ label \in {"owner", "staged"} => held.op \in {"IR", "KUR"}
    /\ label = "current" => held.op = "KUR"
    /\ label \in {"classifySecret", "current", "staged"} => request.owner = 1
    /\ label \in {"current", "staged"} => request.keyName = "staged"
    /\ held.current.data.cert # OtherKey
    /\ held.proof.key # OtherKey /\ held.proof.cert # OtherKey
    /\ held.secretName \in CurrentNames
    /\ held.fallback # "none" => held.fallback \in seen
    /\ renewalFallbackOperation(issuer) # "none" /\ held.op = "KUR" =>
          /\ label \in {"current", "staged"} => Hopeful
          /\ label = "owner" => Hopeful \/ request.keyName # "staged"
    /\ ~changed =>
          /\ label \in {"current", "staged"} => held.secretName = certificate.secretName
          /\ label = "staged" /\ held.op = "KUR" =>
                /\ held.current.data.cert = secret[certificate.secretName].data.cert
                /\ held.current.data.key = secret[certificate.secretName].data.key

\* The type of what a call holds.
LEMMA CallTyped == TypeOK => w \in CallType
BY DEF TypeOK, CallType, Operation, Reason, SecretType

\* A call that has not begun holds nothing.
LEMMA NoCallTyped ==
    /\ NoCall.fallback = "none" /\ NoCall.secretName = "current" /\ NoCall.resumed = FALSE
    /\ NoCall.current.data.cert = 0 /\ NoCall.proof.key = 0 /\ NoCall.proof.cert = 0
    /\ NoCall \in CallType /\ NoSecret \in Secret
<1>1. 0 \in Key /\ 0 \in 0..1 /\ 0 \in 0..2
  BY Bounds, SMT DEF Key
<1>2. NoSecret \in Secret
  BY <1>1 DEF NoSecret, Secret
<1>3. Absent \in SecretType
  BY <1>2 DEF Absent, SecretType
<1>4. NoProof \in [key : Key, cert : Key \cup {Unparsable}]
  BY <1>1 DEF NoProof
<1>5. NoCall \in CallType
  BY <1>3, <1>4 DEF NoCall, CallType, Operation, Reason
<1> QED BY <1>2, <1>5 DEF NoCall, Absent, NoSecret, NoProof

\* A step of Sign that only reads and goes on with what MayGo allows.
LEMMA GoKeeps ==
    ASSUME WorkloadInv, Pending, ReadsOnly, NEW label, NEW held, MayGo(label, held), Goto(label, held)
    PROVE  WorkloadInv'
<1>1. TypeOK /\ CallInv /\ SentInv /\ KeysInv /\ SeenInv /\ HopeInv /\ SameInv
  BY DEF WorkloadInv
<1>2. /\ issuer' = issuer /\ certificate' = certificate /\ secret' = secret /\ expired' = expired
      /\ keys' = keys /\ requests' = requests /\ edits' = edits
      /\ sent' = sent /\ seen' = seen /\ changed' = changed /\ request' = request /\ txn' = txn
      /\ pc' = label /\ w' = held
  BY DEF ReadsOnly, world, counters, Goto
<1>3. label \notin {"idle", "send"}
  BY DEF MayGo
<1>4. TypeOK'
  BY <1>1, <1>2, SMT DEF TypeOK, MayGo, CallType, Operation, Reason, SecretType
<1>5. CallInv'
  BY <1>1, <1>2, <1>3 DEF CallInv, MayGo, Pending
<1>6. SentInv'
  BY <1>1, <1>2, <1>3 DEF SentInv, Pending, OneProofPerTransaction
<1>7. KeysInv'
  BY <1>1, <1>2 DEF KeysInv, MayGo, KeysBelongToCertificate
<1>8. SeenInv'
  <2>1. \A n \in CurrentNames' : CurrentState(secret[n], 1, expired) \in seen
    BY <1>1, <1>2 DEF SeenInv, MayGo, CurrentNames
  <2> QED BY <1>1, <1>2, <2>1 DEF SeenInv, MayGo, Pending, FallbackJustified
<1>9. HopeInv'
  BY <1>1, <1>2 DEF HopeInv, MayGo, Hopeful
<1>10. SameInv'
  BY <1>1, <1>2 DEF SameInv, MayGo, Pending, PresentDigest, CredentialsChanged
<1> QED BY <1>4, <1>5, <1>6, <1>7, <1>8, <1>9, <1>10 DEF WorkloadInv

\* The call ends and the request goes on, or ends with it.
LEMMA EndKeeps ==
    ASSUME WorkloadInv, Pending, NEW state, NEW why, Outcome(state, why),
           UNCHANGED <<world, counters, seen, changed>>,
           sent' \subseteq [op : Operation, fallback : Reason, key : Key, cert : Key \cup {Unparsable}],
           OneProofPerTransaction', KeysBelongToCertificate', FallbackJustified',
           state \in {"pending", "ready", "failed"},
           why \in {"none", "operation", "owner", "missing", "foreign", "staged", "pair",
                    "expired", "credentials", "server"},
           txn' = txn \/ (txn' = NoTransaction /\ state = "failed"),
           state = "pending" => /\ txn.open \/ sent' = {}
                                /\ \A m \in sent' : /\ m.op = txn.op /\ m.fallback = txn.fallback
                                                    /\ Proves(m.op, m, txn.digest),
           why = "credentials" => changed,
           why \in {"missing", "expired"} /\ renewalFallbackOperation(issuer) # "none" => Hopeful
    PROVE  WorkloadInv'
<1>1. TypeOK /\ CallInv /\ SentInv /\ KeysInv /\ SeenInv /\ HopeInv /\ SameInv
  BY DEF WorkloadInv
<1>2. /\ issuer' = issuer /\ certificate' = certificate /\ secret' = secret /\ expired' = expired
      /\ keys' = keys /\ requests' = requests /\ edits' = edits
      /\ seen' = seen /\ changed' = changed
      /\ request' = [request EXCEPT !.state = state, !.why = why] /\ pc' = "idle" /\ w' = NoCall
  BY DEF world, counters, Outcome
<1>3. /\ request' \in [revision : Int, owner : 0..2, keyName : Name \cup {"none"}, csrKey : Key,
                       state : {"pending", "ready", "failed", "done"},
                       why : {"none", "operation", "owner", "missing", "foreign", "staged", "pair",
                              "expired", "credentials", "server"}]
      /\ request'.state = state /\ request'.why = why
  BY <1>1, <1>2 DEF TypeOK
<1>4. /\ NoCall.fallback = "none" /\ NoCall.secretName = "current" /\ NoCall.resumed = FALSE
      /\ NoCall.current.data.cert = 0 /\ NoCall.proof.key = 0 /\ NoCall.proof.cert = 0
      /\ NoCall \in CallType
  BY NoCallTyped
<1>5. /\ txn'.open \in BOOLEAN /\ txn'.op \in Operation /\ txn'.fallback \in Reason
      /\ txn'.open => txn' = txn
      /\ txn'.fallback # "none" => txn' = txn
  <2>1. CASE txn' = txn
    BY <1>1, <2>1 DEF TypeOK, Operation, Reason
  <2>2. CASE txn' = NoTransaction
    BY <2>2 DEF NoTransaction, Operation, Reason
  <2> QED BY <2>1, <2>2
<1>6. TypeOK'
  BY <1>1, <1>2, <1>3, <1>4, <1>5, SMT DEF TypeOK, CallType, Operation, Reason, SecretType
<1>7. CallInv'
  BY <1>1, <1>2, <1>3 DEF CallInv, Pending
<1>8. SentInv'
  BY <1>1, <1>2, <1>3, <1>5, SMT DEF SentInv, Pending, Operation, Reason
<1>9. KeysInv'
  <2>1. OtherKey # 0
    BY Bounds DEF OtherKey
  <2> QED BY <1>1, <1>2, <1>4, <2>1 DEF KeysInv
<1>10. SeenInv'
  <2>1. CurrentNames' \subseteq CurrentNames
    BY <1>2, <1>4 DEF CurrentNames
  <2> QED BY <1>1, <1>2, <1>4, <1>5, <2>1 DEF SeenInv, Pending
<1>11. HopeInv'
  BY <1>1, <1>2, <1>3, <1>5 DEF HopeInv, Hopeful
<1>12. SameInv'
  BY <1>1, <1>2, <1>3, <1>5, SMT DEF SameInv, Pending, PresentDigest, CredentialsChanged
<1> QED BY <1>6, <1>7, <1>8, <1>9, <1>10, <1>11, <1>12 DEF WorkloadInv

\* A call that ends without having sent anything.
LEMMA EndUnsent ==
    ASSUME WorkloadInv, Pending, ReadsOnly, NEW state, NEW why, Outcome(state, why),
           state \in {"pending", "failed"},
           why \in {"none", "operation", "owner", "missing", "foreign", "staged", "pair",
                    "expired", "credentials"},
           txn' = txn \/ (txn' = NoTransaction /\ state = "failed"),
           why = "credentials" => changed,
           why \in {"missing", "expired"} /\ renewalFallbackOperation(issuer) # "none" => Hopeful
    PROVE  WorkloadInv'
<1>1. SentInv /\ KeysInv /\ SeenInv
  BY DEF WorkloadInv
<1>2. sent' = sent /\ seen' = seen /\ UNCHANGED <<world, counters, seen, changed>>
  BY DEF ReadsOnly
<1>3. OneProofPerTransaction' /\ KeysBelongToCertificate' /\ FallbackJustified'
  BY <1>1, <1>2 DEF SentInv, KeysInv, SeenInv, OneProofPerTransaction, KeysBelongToCertificate,
                    FallbackJustified
<1>4. sent' \subseteq [op : Operation, fallback : Reason, key : Key, cert : Key \cup {Unparsable}]
  BY <1>1, <1>2 DEF SentInv, Operation, Reason
<1>5. /\ txn.open \/ sent' = {}
      /\ \A m \in sent' : /\ m.op = txn.op /\ m.fallback = txn.fallback
                          /\ Proves(m.op, m, txn.digest)
  BY <1>1, <1>2 DEF SentInv
<1> QED BY <1>2, <1>3, <1>4, <1>5, EndKeeps

\* A retry and a permanent failure that has nothing to do with the current
\* certificate or with changed credentials.
LEMMA PlainEnd ==
    ASSUME WorkloadInv, Pending, ReadsOnly,
           \/ Retry
           \/ \E why \in {"operation", "owner", "foreign", "staged", "pair"} : Permanent(why)
    PROVE  WorkloadInv'
<1>1. CASE Retry
  BY <1>1, EndUnsent DEF Retry
<1>2. CASE \E why \in {"operation", "owner", "foreign", "staged", "pair"} : Permanent(why)
  <2>1. PICK why \in {"operation", "owner", "foreign", "staged", "pair"} : Permanent(why)
    BY <1>2
  <2> QED BY <2>1, EndUnsent DEF Permanent
<1> QED BY <1>1, <1>2

\* Sign resumes the recorded transaction or selects an operation.
LEMMA SignKeeps ==
    ASSUME WorkloadInv, Sign
    PROVE  WorkloadInv'
<1>1. TypeOK /\ CallInv /\ SeenInv /\ HopeInv /\ pc = "idle" /\ Pending /\ ReadsOnly
  BY DEF WorkloadInv, Sign, Pending
<1>2. PICK op, held :
         /\ op = IF txn.open THEN txn.op ELSE selectedTransactionOperation(issuer, request)
         /\ held = [NoCall EXCEPT !.op = op, !.fallback = txn.fallback, !.resumed = txn.open]
  OBVIOUS
<1>3. \/ selectedTransactionOperation(issuer, request) = "error" /\ Permanent("operation")
      \/ /\ selectedTransactionOperation(issuer, request) # "error"
         /\ ~txn.open /\ op = "KUR" /\ renewalFallbackOperation(issuer) # "none"
         /\ Goto("classifyOwner", held)
      \/ /\ selectedTransactionOperation(issuer, request) # "error"
         /\ ~(~txn.open /\ op = "KUR" /\ renewalFallbackOperation(issuer) # "none")
         /\ Goto(PrepareAt(op), held)
  BY <1>2 DEF Sign
<1>4. CASE selectedTransactionOperation(issuer, request) = "error" /\ Permanent("operation")
  BY <1>1, <1>4, PlainEnd
<1>5. ASSUME selectedTransactionOperation(issuer, request) # "error"
      PROVE  /\ held \in CallType /\ op \in Operation
             /\ held.op = op /\ held.fallback = txn.fallback /\ (held.resumed <=> txn.open)
             /\ held.current.data.cert # OtherKey
             /\ held.proof.key # OtherKey /\ held.proof.cert # OtherKey
             /\ held.secretName \in CurrentNames
             /\ held.fallback # "none" => held.fallback \in seen
  <2>1. op \in Operation
    BY <1>1, <1>2, <1>5, Operations DEF TypeOK, Operation
  <2>2. txn.fallback \in Reason /\ txn.open \in BOOLEAN
    BY <1>1 DEF TypeOK, Reason
  <2>3. /\ held \in CallType /\ held.op = op /\ held.fallback = txn.fallback /\ held.resumed = txn.open
        /\ held.current = NoCall.current /\ held.proof = NoCall.proof
        /\ held.secretName = NoCall.secretName
    BY <1>2, <2>1, <2>2, NoCallTyped DEF CallType
  <2>4. OtherKey # 0
    BY Bounds DEF OtherKey
  <2> QED BY <1>1, <2>1, <2>3, <2>4, NoCallTyped DEF CurrentNames, SeenInv
<1>6. CASE /\ selectedTransactionOperation(issuer, request) # "error"
           /\ ~txn.open /\ op = "KUR" /\ renewalFallbackOperation(issuer) # "none"
           /\ Goto("classifyOwner", held)
  <2>1. MayGo("classifyOwner", held)
    BY <1>5, <1>6 DEF MayGo
  <2> QED BY <1>1, <1>6, <2>1, GoKeeps
<1>7. CASE /\ selectedTransactionOperation(issuer, request) # "error"
           /\ ~(~txn.open /\ op = "KUR" /\ renewalFallbackOperation(issuer) # "none")
           /\ Goto(PrepareAt(op), held)
  <2>1. PICK label : label = PrepareAt(op)
    OBVIOUS
  <2>2. /\ label \in {"owner", "bind"} /\ (label = "bind" => op = "P10CR")
        /\ label = "owner" => op \in {"IR", "KUR"}
    BY <1>5, <1>7, <2>1 DEF PrepareAt, Operation
  <2>3. txn.open => op = txn.op
    BY <1>2
  <2>4. renewalFallbackOperation(issuer) # "none" /\ op = "KUR" => Hopeful
    BY <1>1, <1>7, <2>3 DEF HopeInv
  <2>5. MayGo(label, held)
    BY <1>5, <1>7, <2>2, <2>3, <2>4 DEF MayGo
  <2>6. Goto(label, held)
    BY <1>7, <2>1
  <2> QED BY <1>1, <2>5, <2>6, GoKeeps
<1> QED BY <1>3, <1>4, <1>6, <1>7

\* The owner of an authorized request is the Certificate that is modelled.
LEMMA OwnerAuthorized ==
    ASSUME TypeOK, authorizeOwningCertificate(request, certificate)
    PROVE  request.owner = 1
BY DEF TypeOK, authorizeOwningCertificate

\* classifyRenewalFallback looks at the owning Certificate,
LEMMA ClassifyOwnerKeeps ==
    ASSUME WorkloadInv, ClassifyOwner
    PROVE  WorkloadInv'
<1>1. TypeOK /\ CallInv /\ KeysInv /\ SeenInv /\ HopeInv /\ pc = "classifyOwner" /\ ReadsOnly
  BY DEF WorkloadInv, ClassifyOwner
<1>2. /\ Pending /\ ~txn.open /\ w.op = "KUR" /\ w \in CallType /\ (w.resumed <=> txn.open)
      /\ renewalFallbackOperation(issuer) # "none"
  BY <1>1, CallTyped DEF CallInv
<1>3. \/ Permanent("owner") \/ Retry
      \/ /\ authorizeOwningCertificate(request, certificate)
         /\ \/ certificate.secretName = request.keyName /\ Goto("owner", w)
            \/ Goto("classifySecret", [w EXCEPT !.secretName = certificate.secretName])
  BY DEF ClassifyOwner
<1>4. CASE Permanent("owner") \/ Retry
  BY <1>1, <1>2, <1>4, PlainEnd
<1>5. CASE certificate.secretName = request.keyName /\ Goto("owner", w)
  <2>1. PICK held : held = w
    OBVIOUS
  <2>2. Hopeful \/ request.keyName # "staged"
    BY <1>1, <1>2, <1>5 DEF SeenInv, Hopeful
  <2>3. MayGo("owner", held)
    BY <1>1, <1>2, <2>1, <2>2 DEF MayGo, KeysInv, SeenInv, CurrentNames
  <2> QED BY <1>1, <1>2, <1>5, <2>1, <2>3, GoKeeps
<1>6. CASE /\ authorizeOwningCertificate(request, certificate)
           /\ Goto("classifySecret", [w EXCEPT !.secretName = certificate.secretName])
  <2>1. PICK held : held = [w EXCEPT !.secretName = certificate.secretName]
    OBVIOUS
  <2>2. certificate.secretName \in {"staged", "current"}
    BY <1>1 DEF TypeOK
  <2>3. /\ held \in CallType /\ held.op = w.op /\ held.fallback = w.fallback /\ held.resumed = w.resumed
        /\ held.current = w.current /\ held.proof = w.proof
        /\ held.secretName = certificate.secretName
    BY <1>2, <2>1, <2>2 DEF CallType
  <2>4. request.owner = 1
    BY <1>1, <1>6, OwnerAuthorized
  <2>5. MayGo("classifySecret", held)
    BY <1>1, <1>2, <2>3, <2>4 DEF MayGo, KeysInv, SeenInv, CurrentNames
  <2> QED BY <1>1, <1>2, <1>6, <2>1, <2>5, GoKeeps
<1> QED BY <1>3, <1>4, <1>5, <1>6

\* and then at its current Secret.
LEMMA ClassifySecretKeeps ==
    ASSUME WorkloadInv, ClassifySecret
    PROVE  WorkloadInv'
<1>1. TypeOK /\ CallInv /\ KeysInv /\ SeenInv /\ HopeInv /\ pc = "classifySecret" /\ ReadsOnly
  BY DEF WorkloadInv, ClassifySecret
<1>2. /\ Pending /\ ~txn.open /\ w.op = "KUR" /\ w \in CallType /\ (w.resumed <=> txn.open)
      /\ request.owner = 1 /\ renewalFallbackOperation(issuer) # "none"
  BY <1>1, CallTyped DEF CallInv
<1>3. PICK state, op : /\ state = CurrentState(secret[w.secretName], request.owner, expired)
                       /\ op = renewalFallbackOperation(issuer)
  OBVIOUS
<1>4. \/ Retry
      \/ state \in {"missing", "expired"} /\ Goto(PrepareAt(op), [w EXCEPT !.op = op, !.fallback = state])
      \/ state \notin {"missing", "expired"} /\ Goto("owner", w)
  BY <1>3 DEF ClassifySecret
<1>5. state \in seen
  BY <1>1, <1>2, <1>3 DEF SeenInv, CurrentNames
<1>6. CASE Retry
  BY <1>1, <1>2, <1>6, PlainEnd
<1>7. CASE state \in {"missing", "expired"} /\ Goto(PrepareAt(op), [w EXCEPT !.op = op, !.fallback = state])
  <2>1. PICK label, held : label = PrepareAt(op) /\ held = [w EXCEPT !.op = op, !.fallback = state]
    OBVIOUS
  <2>2. op \in {"P10CR", "IR"}
    BY <1>1, <1>2, <1>3, Operations
  <2>3. label \in {"owner", "bind"} /\ (label = "bind" <=> op = "P10CR")
    BY <2>1, <2>2 DEF PrepareAt
  <2>4. /\ held \in CallType /\ held.op = op /\ held.fallback = state /\ held.resumed = w.resumed
        /\ held.current = w.current /\ held.proof = w.proof
        /\ held.secretName = w.secretName
    BY <1>2, <1>7, <2>1, <2>2 DEF CallType, Operation, Reason
  <2>5. MayGo(label, held)
    BY <1>1, <1>2, <1>5, <2>2, <2>3, <2>4 DEF MayGo, KeysInv, CurrentNames
  <2>6. Goto(label, held)
    BY <1>7, <2>1
  <2> QED BY <1>1, <1>2, <2>5, <2>6, GoKeeps
<1>8. CASE state \notin {"missing", "expired"} /\ Goto("owner", w)
  <2>1. PICK held : held = w
    OBVIOUS
  <2>2. Hopeful
    BY <1>5, <1>8 DEF Hopeful
  <2>3. MayGo("owner", held)
    BY <1>1, <1>2, <2>1, <2>2 DEF MayGo, KeysInv, SeenInv, CurrentNames
  <2> QED BY <1>1, <1>2, <1>8, <2>1, <2>3, GoKeeps
<1> QED BY <1>4, <1>6, <1>7, <1>8

\* authorizeOwningCertificate fails the request or goes on to the keys.
LEMMA AuthorizeOwnerKeeps ==
    ASSUME WorkloadInv, AuthorizeOwner
    PROVE  WorkloadInv'
<1>1. TypeOK /\ CallInv /\ KeysInv /\ SeenInv /\ HopeInv /\ pc = "owner" /\ ReadsOnly
  BY DEF WorkloadInv, AuthorizeOwner
<1>2. Pending /\ w.op \in {"IR", "KUR"} /\ w \in CallType /\ (w.resumed <=> txn.open)
  BY <1>1, CallTyped DEF CallInv
<1>3. \/ Permanent("owner") \/ Retry
      \/ /\ authorizeOwningCertificate(request, certificate)
         /\ authorizedStagedKeyName(request, certificate)
         /\ Goto(IF w.op = "KUR" THEN "current" ELSE "staged",
                 [w EXCEPT !.secretName = certificate.secretName])
  BY DEF AuthorizeOwner
<1>4. CASE Permanent("owner") \/ Retry
  BY <1>1, <1>2, <1>4, PlainEnd
<1>5. CASE /\ authorizeOwningCertificate(request, certificate)
           /\ authorizedStagedKeyName(request, certificate)
           /\ Goto(IF w.op = "KUR" THEN "current" ELSE "staged",
                   [w EXCEPT !.secretName = certificate.secretName])
  <2>1. PICK label, held : /\ label = IF w.op = "KUR" THEN "current" ELSE "staged"
                           /\ held = [w EXCEPT !.secretName = certificate.secretName]
    OBVIOUS
  <2>2. certificate.secretName \in {"staged", "current"} /\ certificate.nextKey \in {"none", "staged"}
    BY <1>1 DEF TypeOK
  <2>3. /\ held \in CallType /\ held.op = w.op /\ held.fallback = w.fallback /\ held.resumed = w.resumed
        /\ held.current = w.current /\ held.proof = w.proof
        /\ held.secretName = certificate.secretName
    BY <1>2, <2>1, <2>2 DEF CallType
  <2>4. request.owner = 1 /\ request.keyName = "staged"
    BY <1>1, <1>5, <2>2, OwnerAuthorized DEF authorizedStagedKeyName
  <2>5. renewalFallbackOperation(issuer) # "none" /\ w.op = "KUR" => Hopeful
    BY <1>1, <2>4 DEF HopeInv
  <2>6. MayGo(label, held)
    <3>1. label = "current" => w.op = "KUR"
      BY <2>1
    <3>2. label = "staged" => w.op = "IR"
      BY <1>2, <2>1
    <3>3. label \in {"current", "staged"}
      BY <2>1
    <3>4. w.resumed => w.op = txn.op /\ w.fallback = txn.fallback
      BY <1>1 DEF CallInv
    <3> QED BY <1>1, <1>2, <2>3, <2>4, <2>5, <3>1, <3>2, <3>3, <3>4
           DEF MayGo, KeysInv, SeenInv, CurrentNames
  <2>7. Goto(label, held)
    BY <1>5, <2>1
  <2> QED BY <1>1, <1>2, <2>6, <2>7, GoKeeps
<1> QED BY <1>3, <1>4, <1>5

\* The current Secret is read under the name that was authorized.
LEMMA ReadCurrentKeeps ==
    ASSUME WorkloadInv, ReadCurrent
    PROVE  WorkloadInv'
<1>1. /\ TypeOK /\ CallInv /\ KeysInv /\ SeenInv /\ HopeInv /\ SameInv
      /\ pc = "current" /\ ReadsOnly
  BY DEF WorkloadInv, ReadCurrent
<1>2. /\ Pending /\ w.op = "KUR" /\ w \in CallType /\ (w.resumed <=> txn.open)
      /\ request.owner = 1 /\ request.keyName = "staged"
      /\ w.resumed => w.op = txn.op /\ w.fallback = txn.fallback
  BY <1>1, CallTyped DEF CallInv
<1>3. PICK s : s = secret[w.secretName]
  OBVIOUS
<1>4. s \in SecretType /\ w.secretName \in {"staged", "current"}
  BY <1>1, <1>2, <1>3 DEF TypeOK, SecretType, CallType, Name
<1>5. \/ Retry
      \/ Permanent("missing")
      \/ Permanent("foreign")
      \/ /\ currentSecretIssuedForCertificate(s.data, request.owner)
         /\ Goto("staged", [w EXCEPT !.current = s])
  BY <1>3 DEF ReadCurrent
<1>6. renewalFallbackOperation(issuer) # "none" => Hopeful
  BY <1>1, <1>2 DEF HopeInv
<1>7. CASE Retry \/ Permanent("foreign")
  BY <1>1, <1>2, <1>7, PlainEnd
<1>8. CASE Permanent("missing")
  BY <1>1, <1>2, <1>6, <1>8, EndUnsent DEF Permanent
<1>9. CASE /\ currentSecretIssuedForCertificate(s.data, request.owner)
           /\ Goto("staged", [w EXCEPT !.current = s])
  <2>1. PICK held : held = [w EXCEPT !.current = s]
    OBVIOUS
  <2>2. /\ held \in CallType /\ held.op = w.op /\ held.fallback = w.fallback /\ held.resumed = w.resumed
        /\ held.current = s /\ held.proof = w.proof /\ held.secretName = w.secretName
    BY <1>2, <1>4, <2>1 DEF CallType
  <2>3. s.data.cert # OtherKey
    BY <1>1, <1>2, <1>3, <1>4, <1>9 DEF KeysInv, Own, currentSecretIssuedForCertificate
  <2>4. ~changed => w.secretName = certificate.secretName
    BY <1>1, <1>2 DEF SameInv
  <2>5. MayGo("staged", held)
    BY <1>1, <1>2, <1>3, <1>6, <2>2, <2>3, <2>4 DEF MayGo, KeysInv, SeenInv, CurrentNames
  <2> QED BY <1>1, <1>2, <1>9, <2>1, <2>5, GoKeeps
<1> QED BY <1>5, <1>7, <1>8, <1>9

\* The proofs of a call are bound to the record, a new one or the one it found.
LEMMA BindKeeps ==
    ASSUME WorkloadInv, pc \in {"bind", "staged"}, ReadsOnly, NEW digest, NEW proof, Bind(digest, proof),
           proof \in [key : Key, cert : Key \cup {Unparsable}],
           proof.key # OtherKey, proof.cert # OtherKey,
           Proves(w.op, proof, digest), ~changed => digest = PresentDigest(w.op)
    PROVE  WorkloadInv'
<1>1. TypeOK /\ CallInv /\ SentInv /\ KeysInv /\ SeenInv /\ HopeInv /\ SameInv
  BY DEF WorkloadInv
<1>2. /\ Pending /\ w \in CallType /\ (w.resumed <=> txn.open)
      /\ w.resumed => w.op = txn.op /\ w.fallback = txn.fallback
  BY <1>1, CallTyped DEF CallInv
<1>3. CASE w.resumed /\ txn.digest # digest /\ txn' = NoTransaction /\ Outcome("failed", "credentials")
  <2>1. changed
    BY <1>1, <1>2, <1>3 DEF SameInv
  <2> QED BY <1>1, <1>2, <1>3, <2>1, EndUnsent
<1>4. CASE /\ w.resumed => txn.digest = digest
           /\ txn' = IF w.resumed THEN txn ELSE Recorded(digest)
           /\ pc' = "send"
           /\ w' = [w EXCEPT !.proof = proof]
           /\ UNCHANGED request
  <2>1. /\ issuer' = issuer /\ certificate' = certificate /\ secret' = secret /\ expired' = expired
        /\ keys' = keys /\ requests' = requests /\ edits' = edits
        /\ sent' = sent /\ seen' = seen /\ changed' = changed /\ request' = request /\ pc' = "send"
    BY <1>4 DEF ReadsOnly, world, counters
  <2>2. /\ w' \in CallType /\ w'.op = w.op /\ w'.fallback = w.fallback /\ w'.resumed = w.resumed
        /\ w'.current = w.current /\ w'.proof = proof /\ w'.secretName = w.secretName
    BY <1>2, <1>4 DEF CallType
  <2>3. /\ txn'.open = TRUE /\ txn'.op = w.op /\ txn'.fallback = w.fallback /\ txn'.digest = digest
        /\ w.resumed => txn' = txn
    <3>1. CASE w.resumed
      BY <1>1, <1>2, <1>4, <3>1 DEF TypeOK
    <3>2. CASE ~w.resumed
      BY <1>4, <3>2 DEF Recorded
    <3> QED BY <3>1, <3>2
  <2>4. TypeOK'
    <3>1. /\ w' \in [op : {"P10CR", "IR", "KUR"}, fallback : {"none", "missing", "expired"},
                      resumed : BOOLEAN, secretName : {"staged", "current"},
                      current : [exists : BOOLEAN, data : Secret],
                      proof : [key : Key, cert : Key \cup {Unparsable}]]
          /\ txn'.open \in BOOLEAN
          /\ txn'.op \in {"P10CR", "IR", "KUR"} /\ txn'.fallback \in {"none", "missing", "expired"}
      BY <1>2, <2>2, <2>3 DEF CallType, Operation, Reason, SecretType
    <3> QED BY <1>1, <2>1, <3>1, SMT DEF TypeOK
  <2>5. CallInv'
    BY <1>1, <1>2, <2>1, <2>2, <2>3 DEF CallInv, Pending
  <2>6. SentInv'
    <3>1. ~w.resumed => sent = {}
      BY <1>1, <1>2 DEF SentInv
    <3>2. w.resumed => txn' = txn
      BY <2>3
    <3>3. \A m \in sent : /\ txn'.open /\ m.op = txn'.op /\ m.fallback = txn'.fallback
                          /\ Proves(m.op, m, txn'.digest)
      BY <1>1, <1>2, <2>3, <3>1, <3>2 DEF SentInv
    <3> QED BY <1>1, <1>2, <2>1, <2>2, <2>3, <3>3 DEF SentInv, OneProofPerTransaction, Pending
  <2>7. KeysInv'
    BY <1>1, <2>1, <2>2 DEF KeysInv, KeysBelongToCertificate
  <2>8. SeenInv'
    BY <1>1, <2>1, <2>2, <2>3 DEF SeenInv, CurrentNames, Pending, FallbackJustified
  <2>9. HopeInv'
    <3>1. renewalFallbackOperation(issuer) # "none" /\ w.op = "KUR" => Hopeful
      BY <1>1 DEF HopeInv, CallInv
    <3> QED BY <1>1, <2>1, <2>3, <3>1 DEF HopeInv, Hopeful
  <2>10. SameInv'
    BY <1>1, <2>1, <2>3 DEF SameInv, Pending, PresentDigest, CredentialsChanged
  <2> QED BY <2>4, <2>5, <2>6, <2>7, <2>8, <2>9, <2>10 DEF WorkloadInv
<1> QED BY <1>3, <1>4 DEF Bind

\* P10CR binds no keys.
LEMMA BindP10CRKeeps ==
    ASSUME WorkloadInv, BindP10CR
    PROVE  WorkloadInv'
<1>1. pc = "bind" /\ Bind({}, NoProof) /\ ReadsOnly /\ w.op = "P10CR"
  BY DEF WorkloadInv, BindP10CR, CallInv
<1>2. 0 \in Key /\ 0 # OtherKey
  BY Bounds, SMT DEF Key, OtherKey
<1>3. /\ NoProof \in [key : Key, cert : Key \cup {Unparsable}]
      /\ NoProof.key # OtherKey /\ NoProof.cert # OtherKey
      /\ Proves(w.op, NoProof, {}) /\ PresentDigest(w.op) = {}
  BY <1>1, <1>2 DEF NoProof, Proves, PresentDigest
<1> QED BY <1>1, <1>3, BindKeeps

\* The staged Secret is read, and its keys are bound or refused.
LEMMA LoadStagedKeeps ==
    ASSUME WorkloadInv, LoadStaged
    PROVE  WorkloadInv'
<1>1. /\ TypeOK /\ CallInv /\ KeysInv /\ SeenInv /\ HopeInv /\ SameInv
      /\ pc = "staged" /\ ReadsOnly
  BY DEF WorkloadInv, LoadStaged
<1>2. /\ Pending /\ w.op \in {"IR", "KUR"} /\ w \in CallType
      /\ request.owner = 1 /\ request.keyName = "staged"
  BY <1>1, CallTyped DEF CallInv
<1>3. PICK s, old, refusal :
         /\ s = secret["staged"] /\ old = w.current.data
         /\ refusal = RefusalOfKeys(request, w.op, s.data, old, expired)
  OBVIOUS
<1>4. s.data \in Secret /\ old \in Secret
  BY <1>1, <1>2, <1>3 DEF TypeOK, CallType, SecretType, Name
<1>5. /\ refusal \in {"none", "staged", "retry", "missing", "pair", "expired"}
      /\ refusal \in {"missing", "expired"} => w.op = "KUR"
      /\ refusal = "none" => s.data.owner = request.owner
  BY <1>1, <1>2, <1>3, <1>4, Refusals
<1>6. \/ Retry
      \/ /\ refusal = "none"
         /\ Bind(Fingerprints(w.op, s.data, old),
                 [key |-> s.data.key, cert |-> IF w.op = "KUR" THEN old.cert ELSE 0])
      \/ refusal \notin {"none", "retry"} /\ Permanent(refusal)
  BY <1>2, <1>3 DEF LoadStaged
<1>7. CASE Retry
  BY <1>1, <1>2, <1>7, PlainEnd
<1>8. CASE refusal \notin {"none", "retry"} /\ Permanent(refusal)
  <2>1. refusal \in {"missing", "expired"} /\ renewalFallbackOperation(issuer) # "none" => Hopeful
    BY <1>1, <1>5 DEF HopeInv
  <2> QED BY <1>1, <1>2, <1>5, <1>8, <2>1, EndUnsent DEF Permanent
<1>9. CASE /\ refusal = "none"
           /\ Bind(Fingerprints(w.op, s.data, old),
                   [key |-> s.data.key, cert |-> IF w.op = "KUR" THEN old.cert ELSE 0])
  <2>1. PICK digest, proof :
           /\ digest = Fingerprints(w.op, s.data, old)
           /\ proof = [key |-> s.data.key, cert |-> IF w.op = "KUR" THEN old.cert ELSE 0]
    OBVIOUS
  <2>2. proof \in [key : Key, cert : Key \cup {Unparsable}]
    <3>1. s.data.key \in Key /\ old.cert \in Key \cup {Unparsable} /\ 0 \in Key
      BY <1>4, Bounds, SMT DEF Secret, Key
    <3> QED BY <2>1, <3>1
  <2>3. proof.key # OtherKey /\ proof.cert # OtherKey
    <3>1. s.data.key # OtherKey
      BY <1>1, <1>2, <1>3, <1>5, <1>9 DEF KeysInv, Own
    <3>2. old.cert # OtherKey /\ OtherKey # 0
      BY <1>1, <1>3, Bounds DEF KeysInv, OtherKey
    <3> QED BY <2>1, <3>1, <3>2
  <2>4. Proves(w.op, proof, digest)
    BY <1>2, <1>4, <2>1, FingerprintsProve
  <2>5. ~changed => digest = PresentDigest(w.op)
    <3> SUFFICES ASSUME ~changed
                 PROVE  digest = Fingerprints(w.op, secret["staged"].data,
                                              secret[certificate.secretName].data)
      BY <1>2 DEF PresentDigest
    <3>1. CASE w.op = "KUR"
      <4>1. /\ old.cert = secret[certificate.secretName].data.cert
            /\ old.key = secret[certificate.secretName].data.key
        BY <1>1, <1>2, <1>3, <3>1 DEF SameInv
      <4> QED BY <1>3, <2>1, <4>1, FingerprintsSame, SMT
    <3>2. CASE w.op = "IR"
      BY <1>3, <2>1, <3>2 DEF Fingerprints
    <3> QED BY <1>2, <3>1, <3>2
  <2>6. Bind(digest, proof)
    BY <1>9, <2>1
  <2> QED BY <1>1, <2>2, <2>3, <2>4, <2>5, <2>6, BindKeeps
<1> QED BY <1>6, <1>7, <1>8, <1>9

\* What is sent is what was sent before.
LEMMA ExchangeKeeps ==
    ASSUME WorkloadInv, Exchange
    PROVE  WorkloadInv'
<1>1. /\ TypeOK /\ CallInv /\ SentInv /\ KeysInv /\ SeenInv /\ pc = "send"
      /\ UNCHANGED <<world, counters, seen, changed>>
  BY DEF WorkloadInv, Exchange
<1>2. PICK m : m = [op |-> w.op, fallback |-> w.fallback, key |-> w.proof.key, cert |-> w.proof.cert]
  OBVIOUS
<1>3. sent' = sent \cup {m}
  BY <1>2 DEF Exchange
<1>4. Pending /\ w \in CallType
  BY <1>1, CallTyped DEF CallInv
<1>5. /\ m \in [op : Operation, fallback : Reason, key : Key, cert : Key \cup {Unparsable}]
      /\ m.op = w.op /\ m.fallback = w.fallback /\ m.key = w.proof.key /\ m.cert = w.proof.cert
  BY <1>2, <1>4 DEF CallType
<1>6. /\ txn.open /\ m.op = txn.op /\ m.fallback = txn.fallback /\ Proves(m.op, m, txn.digest)
  BY <1>1, <1>5, ZenonT(40) DEF SentInv, Proves
<1>7. \A n \in sent : n = m
  <2> SUFFICES ASSUME NEW n \in sent PROVE n = m
    OBVIOUS
  <2>1. /\ n \in [op : Operation, fallback : Reason, key : Key, cert : Key \cup {Unparsable}]
        /\ n.op = m.op /\ n.fallback = m.fallback /\ Proves(m.op, n, txn.digest)
    BY <1>1, <1>4, <1>6 DEF SentInv, Operation, Reason
  <2>2. n.key = m.key /\ n.cert = m.cert
    BY <1>5, <1>6, <2>1, ProofsDetermined
  <2> QED BY <1>5, <2>1, <2>2, SMT
<1>8. sent' = {m}
  BY <1>3, <1>7
<1>9. OneProofPerTransaction' /\ KeysBelongToCertificate' /\ FallbackJustified'
  <2>1. m.key # OtherKey /\ m.cert # OtherKey
    BY <1>1, <1>5 DEF KeysInv
  <2>2. m.fallback # "none" => m.fallback \in seen'
    BY <1>1, <1>5 DEF SeenInv
  <2> QED BY <1>8, <2>1, <2>2 DEF OneProofPerTransaction, KeysBelongToCertificate, FallbackJustified
<1>10. PICK state, why : /\ Outcome(state, why)
                         /\ state \in {"pending", "ready", "failed"} /\ why \in {"none", "server"}
                         /\ txn' = txn \/ (txn' = NoTransaction /\ state = "failed")
  BY DEF Exchange
<1> QED BY <1>1, <1>4, <1>5, <1>6, <1>8, <1>9, <1>10, EndKeeps

\* A crash loses the call and leaves the record.
LEMMA CrashKeeps ==
    ASSUME WorkloadInv, Crash
    PROVE  WorkloadInv'
<1>1. TypeOK /\ CallInv /\ SentInv /\ KeysInv /\ SeenInv /\ HopeInv /\ SameInv
  BY DEF WorkloadInv
<1>2. /\ issuer' = issuer /\ certificate' = certificate /\ secret' = secret /\ expired' = expired
      /\ keys' = keys /\ requests' = requests /\ edits' = edits
      /\ sent' = sent /\ seen' = seen /\ changed' = changed /\ request' = request /\ txn' = txn
      /\ pc' = "idle" /\ w' = NoCall
  BY DEF Crash, world, counters
<1>3. TypeOK'
  BY <1>1, <1>2, NoCallTyped, SMT DEF TypeOK, CallType, Operation, Reason, SecretType
<1>4. CallInv'
  BY <1>1, <1>2 DEF CallInv, Pending
<1>5. SentInv'
  BY <1>1, <1>2 DEF SentInv, Pending, OneProofPerTransaction
<1>6. KeysInv'
  <2>1. OtherKey # 0
    BY Bounds DEF OtherKey
  <2> QED BY <1>1, <1>2, <2>1, NoCallTyped DEF KeysInv, KeysBelongToCertificate
<1>7. SeenInv'
  <2>1. CurrentNames' \subseteq CurrentNames
    BY <1>2, NoCallTyped DEF CurrentNames
  <2> QED BY <1>1, <1>2, <2>1, NoCallTyped DEF SeenInv, Pending, FallbackJustified
<1>8. HopeInv'
  BY <1>1, <1>2 DEF HopeInv, Hopeful
<1>9. SameInv'
  BY <1>1, <1>2 DEF SameInv, Pending, PresentDigest, CredentialsChanged
<1> QED BY <1>3, <1>4, <1>5, <1>6, <1>7, <1>8, <1>9 DEF WorkloadInv

-----------------------------------------------------------------------------
(* cert-manager, time and users. *)

\* A step of theirs keeps the invariant where it types, where it gives no Secret
\* of the Certificate the key of somebody else, and where, as long as a request
\* is pending, it is observed and owns up to a change.
LEMMA WorldKeeps ==
    ASSUME WorkloadInv, TypeOK',
           issuer' = issuer, pc' = pc, w' = w, txn' = txn, sent' = sent,
           request'.owner = request.owner, request'.keyName = request.keyName,
           request'.why = request.why, Pending' <=> Pending,
           (certificate.revision + (IF request.state = "done" THEN 0 ELSE 1) <= requests)',
           \A n \in {"staged", "current"} : Own(secret'[n].data),
           seen \subseteq seen', Pending => Observed \subseteq seen',
           changed => changed',
           Pending /\ ~changed' =>
              /\ certificate'.secretName = certificate.secretName
              /\ \A n \in {"staged", "current"} : /\ secret'[n].data.cert = secret[n].data.cert
                                                  /\ secret'[n].data.key = secret[n].data.key
    PROVE  WorkloadInv'
<1>1. TypeOK /\ CallInv /\ SentInv /\ KeysInv /\ SeenInv /\ HopeInv /\ SameInv
  BY DEF WorkloadInv
<1>2. CallInv'
  BY <1>1 DEF CallInv
<1>3. SentInv'
  BY <1>1 DEF SentInv, OneProofPerTransaction
<1>4. KeysInv'
  BY <1>1 DEF KeysInv, KeysBelongToCertificate
<1>5. SeenInv'
  <2>1. FallbackJustified'
    BY <1>1 DEF SeenInv, FallbackJustified
  <2>2. /\ w'.fallback # "none" => w'.fallback \in seen'
        /\ txn'.fallback # "none" => txn'.fallback \in seen'
    BY <1>1 DEF SeenInv
  <2>3. ASSUME Pending
        PROVE  /\ \A n \in CurrentNames' : CurrentState(secret'[n], 1, expired') \in seen'
               /\ certificate'.secretName # "current" => "renamed" \in seen'
    BY <2>3 DEF Observed
  <2> QED BY <2>1, <2>2, <2>3 DEF SeenInv
<1>6. HopeInv'
  <2>1. Hopeful => Hopeful'
    BY DEF Hopeful
  <2> QED BY <1>1, <2>1 DEF HopeInv
<1>7. SameInv'
  <2>1. CredentialsChanged'
    BY <1>1 DEF SameInv, CredentialsChanged
  <2>2. ASSUME Pending, ~changed'
        PROVE  /\ \A op : PresentDigest(op)' = PresentDigest(op)
               /\ certificate'.secretName = certificate.secretName
               /\ secret'[certificate.secretName].data.cert = secret[certificate.secretName].data.cert
               /\ secret'[certificate.secretName].data.key = secret[certificate.secretName].data.key
    <3>1. certificate.secretName \in {"staged", "current"}
      BY <1>1 DEF TypeOK
    <3>2. certificate'.secretName = certificate.secretName
      BY <2>2
    <3> QED BY <2>2, <3>1, <3>2, FingerprintsSame, SMT DEF PresentDigest
  <2> QED BY <1>1, <2>1, <2>2 DEF SameInv
<1> QED BY <1>2, <1>3, <1>4, <1>5, <1>6, <1>7 DEF WorkloadInv

\* A Secret from its fields.
LEMMA SecretOf ==
    ASSUME NEW v \in 0..1, NEW a \in {"none", "this", "other"}, NEW o \in 0..2, NEW x \in BOOLEAN,
           NEW c \in Key \cup {Unparsable}, NEW k \in Key
    PROVE  [version |-> v, annotated |-> a, owner |-> o, next |-> x, cert |-> c, key |-> k] \in Secret
BY DEF Secret

\* The Secrets that cert-manager writes.
LEMMA NewSecrets ==
    ASSUME NEW k \in Key, NEW staged, NEW current,
           staged = [NoSecret EXCEPT !.owner = 1, !.next = TRUE, !.key = k],
           current = [NoSecret EXCEPT !.annotated = "this", !.cert = k, !.key = k]
    PROVE  /\ staged \in Secret /\ staged.key = k /\ staged.cert = 0
           /\ current \in Secret /\ current.key = k /\ current.cert = k
<1>1. 0 \in Key /\ 0 \in 0..1 /\ 0 \in 0..2 /\ 1 \in 0..2
  BY Bounds, SMT DEF Key
<1>2. staged = [version |-> 0, annotated |-> "none", owner |-> 1, next |-> TRUE, cert |-> 0, key |-> k]
  BY DEF NoSecret
<1>3. current = [version |-> 0, annotated |-> "this", owner |-> 0, next |-> FALSE, cert |-> k, key |-> k]
  BY DEF NoSecret
<1>4. /\ "none" \in {"none", "this", "other"} /\ "this" \in {"none", "this", "other"}
      /\ 0 \in Key \cup {Unparsable} /\ k \in Key \cup {Unparsable}
  BY <1>1
<1>5. TRUE \in BOOLEAN /\ FALSE \in BOOLEAN
  OBVIOUS
<1>6. /\ [version |-> 0, annotated |-> "none", owner |-> 1, next |-> TRUE, cert |-> 0, key |-> k]
            \in Secret
      /\ [version |-> 0, annotated |-> "this", owner |-> 0, next |-> FALSE, cert |-> k, key |-> k]
            \in Secret
  BY <1>1, <1>4, <1>5, SecretOf
<1>7. staged \in Secret /\ current \in Secret
  BY <1>2, <1>3, <1>6
<1>8. staged.key = k /\ staged.cert = 0
  BY ONLY <1>2
<1>9. current.key = k /\ current.cert = k
  BY ONLY <1>3
<1> QED BY <1>7, <1>8, <1>9

\* A staged key is the Certificate's own.
LEMMA StageKeeps ==
    ASSUME WorkloadInv, Stage
    PROVE  WorkloadInv'
<1>1. TypeOK /\ CallInv /\ KeysInv
  BY DEF WorkloadInv
<1>2. PICK s : s = [NoSecret EXCEPT !.owner = 1, !.next = TRUE, !.key = keys + 1]
  OBVIOUS
<1>3. /\ secret' = [secret EXCEPT !["staged"] = Stored(s)]
      /\ certificate' = [certificate EXCEPT !.nextKey = "staged"]
      /\ keys < OtherKey - 1 /\ keys' = keys + 1 /\ ~Pending
      /\ issuer' = issuer /\ expired' = expired /\ request' = request /\ txn' = txn
      /\ pc' = pc /\ w' = w /\ requests' = requests /\ edits' = edits
      /\ sent' = sent /\ seen' = seen /\ changed' = changed
  BY <1>2 DEF Stage, Pending, call
<1>4. keys + 1 \in Key /\ keys + 1 # OtherKey /\ keys + 1 \in 0..MaxKey /\ OtherKey # 0
  BY <1>1, <1>3, Bounds, SMT DEF TypeOK, Key, OtherKey
<1>5. s \in Secret /\ s.key = keys + 1 /\ s.cert = 0
  BY <1>2, <1>4, NewSecrets
<1>6. Stored(s) \in [exists : BOOLEAN, data : Secret] /\ Stored(s).data = s
  BY <1>5 DEF Stored
<1>7. secret' \in [Name -> [exists : BOOLEAN, data : Secret]]
  BY <1>1, <1>3, <1>6 DEF TypeOK
<1>8. certificate' \in [exists : BOOLEAN, uid : {1}, deleting : BOOLEAN, revision : 0..MaxRequests,
                        nextKey : {"none", "staged"}, secretName : {"staged", "current"},
                        issuer : BOOLEAN] /\ certificate'.revision = certificate.revision
  BY <1>1, <1>3 DEF TypeOK
<1>9. TypeOK'
  BY <1>1, <1>3, <1>4, <1>7, <1>8, SMT DEF TypeOK
<1>10. \A n \in {"staged", "current"} : Own(secret'[n].data)
  <2>1. secret'["staged"] = Stored(s) /\ secret'["current"] = secret["current"]
    BY <1>1, <1>3 DEF TypeOK, Name
  <2> QED BY <1>1, <1>4, <1>5, <1>6, <2>1 DEF KeysInv, Own
<1>11. (certificate.revision + (IF request.state = "done" THEN 0 ELSE 1) <= requests)'
  BY <1>1, <1>3, <1>8 DEF CallInv
<1> QED BY <1>3, <1>9, <1>10, <1>11, WorldKeeps DEF Pending

\* A new request begins without a record, a message or a change.
LEMMA NewRequestKeeps ==
    ASSUME WorkloadInv, NEW r, NewRequest(r),
           r.state = "pending", r.why = "none",
           r \in [revision : Int, owner : 0..2, keyName : Name \cup {"none"}, csrKey : Key,
                  state : {"pending", "ready", "failed", "done"},
                  why : {"none", "operation", "owner", "missing", "foreign", "staged", "pair",
                         "expired", "credentials", "server"}]
    PROVE  WorkloadInv'
<1>1. TypeOK /\ CallInv /\ SentInv /\ KeysInv /\ SeenInv /\ HopeInv /\ SameInv
  BY DEF WorkloadInv
<1>2. /\ issuer' = issuer /\ certificate' = certificate /\ secret' = secret /\ expired' = expired
      /\ keys' = keys /\ edits' = edits /\ requests < MaxRequests /\ requests' = requests + 1
      /\ sent' = {} /\ changed' = FALSE /\ request' = r /\ txn' = NoTransaction
      /\ pc = "idle" /\ pc' = pc /\ w' = w /\ seen' = Observed
  BY DEF NewRequest, world, call
<1>3. w = NoCall
  BY <1>1, <1>2 DEF CallInv
<1>4. /\ txn'.open = FALSE /\ txn'.op = "P10CR" /\ txn'.fallback = "none"
  BY <1>2 DEF NoTransaction
<1>5. requests' \in 0..MaxRequests /\ changed' \in BOOLEAN /\ txn'.open \in BOOLEAN
  <2>1. requests \in 0..MaxRequests
    BY <1>1 DEF TypeOK
  <2>2. requests' \in 0..MaxRequests
    BY <1>2, <2>1, Bounds, SMT
  <2>3. changed' \in BOOLEAN /\ txn'.open \in BOOLEAN
    BY <1>2, <1>4
  <2> QED BY <2>2, <2>3
<1>6. TypeOK'
  <2>1. /\ issuer' \in Issuers /\ expired' \subseteq Key /\ keys' \in 0..MaxKey /\ edits' \in 0..MaxEdits
        /\ secret' \in [Name -> [exists : BOOLEAN, data : Secret]]
    BY <1>1, <1>2 DEF TypeOK
  <2> QED BY <1>1, <1>2, <1>4, <1>5, <2>1, SMT DEF TypeOK
<1>7. CallInv'
  <2>1. /\ certificate.revision \in Int /\ requests \in Int
        /\ certificate.revision + (IF request.state = "done" THEN 0 ELSE 1) <= requests
    BY <1>1, SMT DEF TypeOK, CallInv
  <2>2. certificate.revision + 1 <= requests'
    BY <1>2, <2>1, SMT
  <2> QED BY <1>2, <1>3, <2>2 DEF CallInv, Pending
<1>8. SentInv'
  BY <1>2 DEF SentInv, OneProofPerTransaction
<1>9. KeysInv'
  BY <1>1, <1>2 DEF KeysInv, KeysBelongToCertificate
<1>10. SeenInv'
  <2>1. /\ \A n \in CurrentNames' : CurrentState(secret'[n], 1, expired') \in seen'
        /\ certificate'.secretName # "current" => "renamed" \in seen'
    BY <1>2 DEF Observed
  <2>2. w'.fallback = "none"
    BY <1>2, <1>3, NoCallTyped
  <2> QED BY <1>2, <1>4, <2>1, <2>2 DEF SeenInv, FallbackJustified
<1>11. HopeInv'
  BY <1>2, <1>4 DEF HopeInv
<1>12. SameInv'
  BY <1>2, <1>4 DEF SameInv, CredentialsChanged
<1> QED BY <1>6, <1>7, <1>8, <1>9, <1>10, <1>11, <1>12 DEF WorkloadInv

\* cert-manager requests a certificate for the staged key.
LEMMA CreateRequestKeeps ==
    ASSUME WorkloadInv, CreateRequest
    PROVE  WorkloadInv'
<1>1. PICK r : r = [revision |-> certificate.revision + 1, owner |-> 1, keyName |-> "staged",
                    csrKey |-> secret["staged"].data.key, state |-> "pending", why |-> "none"]
  OBVIOUS
<1>2. certificate.revision + 1 \in Int /\ secret["staged"].data.key \in Key
  BY SMT DEF WorkloadInv, TypeOK, Name, Secret
<1>3. NewRequest(r)
  BY <1>1 DEF CreateRequest
<1>4. /\ r.state = "pending" /\ r.why = "none"
      /\ r \in [revision : Int, owner : 0..2, keyName : Name \cup {"none"}, csrKey : Key,
                state : {"pending", "ready", "failed", "done"},
                why : {"none", "operation", "owner", "missing", "foreign", "staged", "pair",
                       "expired", "credentials", "server"}]
  BY <1>1, <1>2, SMT DEF Name
<1> QED BY <1>3, <1>4, NewRequestKeeps

\* Another user requests a certificate and names owner and key at will.
LEMMA CreateForeignRequestKeeps ==
    ASSUME WorkloadInv, CreateForeignRequest
    PROVE  WorkloadInv'
<1>1. PICK c \in Foreign :
         NewRequest([revision |-> c.revision, owner |-> c.owner, keyName |-> c.keyName,
                     csrKey |-> c.csrKey, state |-> "pending", why |-> "none"])
  BY DEF CreateForeignRequest
<1>2. PICK r : r = [revision |-> c.revision, owner |-> c.owner, keyName |-> c.keyName,
                    csrKey |-> c.csrKey, state |-> "pending", why |-> "none"]
  OBVIOUS
<1>3. c \in [revision : -2..2, owner : 0..2,
             keyName : {"staged", "current", "other", "none"}, csrKey : 1..MaxKey]
  BY WorkloadAssumption
<1>4. c.revision \in Int /\ c.owner \in 0..2 /\ c.keyName \in Name \cup {"none"} /\ c.csrKey \in Key
  BY <1>3, Bounds, SMT DEF Name, Key
<1>5. NewRequest(r)
  BY <1>1, <1>2
<1>6. /\ r.state = "pending" /\ r.why = "none"
      /\ r \in [revision : Int, owner : 0..2, keyName : Name \cup {"none"}, csrKey : Key,
                state : {"pending", "ready", "failed", "done"},
                why : {"none", "operation", "owner", "missing", "foreign", "staged", "pair",
                       "expired", "credentials", "server"}]
  BY <1>2, <1>4
<1> QED BY <1>5, <1>6, NewRequestKeeps

\* The certificate that becomes the current one is the one of the staged key.
LEMMA CompleteKeeps ==
    ASSUME WorkloadInv, Complete
    PROVE  WorkloadInv'
<1>1. TypeOK /\ CallInv /\ KeysInv
  BY DEF WorkloadInv
<1>2. PICK s : s = [NoSecret EXCEPT !.annotated = "this", !.cert = request.csrKey, !.key = request.csrKey]
  OBVIOUS
<1>3. /\ secret' = [secret EXCEPT ![certificate.secretName] = Stored(s), !["staged"] = Absent]
      /\ certificate' = [certificate EXCEPT !.revision = @ + 1, !.nextKey = "none"]
      /\ request' = [request EXCEPT !.state = "done"] /\ request.state = "ready"
      /\ issuer' = issuer /\ expired' = expired /\ txn' = txn
      /\ keys' = keys /\ requests' = requests /\ edits' = edits
      /\ pc' = pc /\ w' = w /\ sent' = sent /\ changed' = changed /\ seen \subseteq seen'
  BY <1>2 DEF Complete, call, counters
<1>4. request.csrKey \in Key /\ request.csrKey # OtherKey /\ OtherKey # 0
  <2>1. secret["staged"].data.owner = 1 /\ secret["staged"].data.key = request.csrKey
    BY DEF Complete
  <2> QED BY <1>1, <2>1, Bounds DEF TypeOK, KeysInv, Own, OtherKey
<1>5. s \in Secret /\ s.key = request.csrKey /\ s.cert = request.csrKey
  BY <1>2, <1>4, NewSecrets, ZenonT(40)
<1>6. /\ Stored(s) \in [exists : BOOLEAN, data : Secret] /\ Stored(s).data = s
      /\ Absent \in [exists : BOOLEAN, data : Secret] /\ Absent.data.cert = 0 /\ Absent.data.key = 0
  BY <1>5, NoCallTyped DEF Stored, Absent, NoSecret
<1>7. secret' \in [Name -> [exists : BOOLEAN, data : Secret]]
  BY <1>1, <1>3, <1>6 DEF TypeOK
<1>8. /\ certificate.revision \in Int /\ requests \in Int /\ certificate.revision + 1 <= requests
      /\ certificate.revision + 1 \in 0..MaxRequests
  BY <1>1, <1>3, Bounds, SMT DEF TypeOK, CallInv
<1>9. /\ certificate' \in [exists : BOOLEAN, uid : {1}, deleting : BOOLEAN, revision : 0..MaxRequests,
                           nextKey : {"none", "staged"}, secretName : {"staged", "current"},
                           issuer : BOOLEAN]
      /\ certificate'.revision = certificate.revision + 1
  BY <1>1, <1>3, <1>8 DEF TypeOK
<1>10. /\ request' \in [revision : Int, owner : 0..2, keyName : Name \cup {"none"}, csrKey : Key,
                        state : {"pending", "ready", "failed", "done"},
                        why : {"none", "operation", "owner", "missing", "foreign", "staged", "pair",
                               "expired", "credentials", "server"}]
       /\ request'.state = "done" /\ request'.owner = request.owner
       /\ request'.keyName = request.keyName /\ request'.why = request.why
  BY <1>1, <1>3 DEF TypeOK
<1>11. TypeOK'
  BY <1>1, <1>3, <1>7, <1>9, <1>10, SMT DEF TypeOK
<1>12. \A n \in {"staged", "current"} : Own(secret'[n].data)
  <2>1. /\ secret'["staged"] = Absent
        /\ secret'["current"] \in {Stored(s), secret["current"]}
    BY <1>1, <1>3 DEF TypeOK, Name
  <2>2. Own(Absent.data) /\ Own(s) /\ Own(secret["current"].data)
    BY <1>1, <1>4, <1>5, <1>6 DEF KeysInv, Own
  <2> QED BY <1>6, <2>1, <2>2
<1>13. (certificate.revision + (IF request.state = "done" THEN 0 ELSE 1) <= requests)'
  BY <1>3, <1>8, <1>9, <1>10, SMT
<1>14. ~Pending /\ ~Pending'
  BY <1>3, <1>10 DEF Pending
<1> QED BY <1>3, <1>10, <1>11, <1>12, <1>13, <1>14, WorldKeeps

\* A certificate expires.
LEMMA ExpireKeeps ==
    ASSUME WorkloadInv, Expire
    PROVE  WorkloadInv'
<1>1. TypeOK /\ CallInv /\ KeysInv
  BY DEF WorkloadInv
<1>2. PICK c \in 1..keys : expired' = expired \cup {c}
  BY DEF Expire
<1>3. /\ issuer' = issuer /\ certificate' = certificate /\ secret' = secret /\ request' = request
      /\ txn' = txn /\ pc' = pc /\ w' = w /\ keys' = keys /\ requests' = requests /\ edits' = edits
      /\ sent' = sent /\ changed' = changed /\ seen' = seen \cup Observed
  BY DEF Expire, call, counters
<1>4. c \in Key
  BY <1>1, Bounds, SMT DEF TypeOK, Key
<1>5. TypeOK'
  BY <1>1, <1>2, <1>3, <1>4, SMT DEF TypeOK
<1>6. (certificate.revision + (IF request.state = "done" THEN 0 ELSE 1) <= requests)'
  BY <1>1, <1>3 DEF CallInv
<1>7. \A n \in {"staged", "current"} : Own(secret'[n].data)
  BY <1>1, <1>3 DEF KeysInv
<1> QED BY <1>3, <1>5, <1>6, <1>7, WorldKeeps DEF Pending

\* What an edit leaves alone.
LEMMA EditFrame ==
    ASSUME WorkloadInv, NEW isChange \in BOOLEAN, Edit(isChange)
    PROVE  /\ issuer' = issuer /\ expired' = expired /\ request' = request /\ txn' = txn
           /\ pc' = pc /\ w' = w /\ keys' = keys /\ requests' = requests /\ sent' = sent
           /\ edits' \in 0..MaxEdits /\ changed' \in BOOLEAN
           /\ (changed' <=> changed \/ isChange) /\ seen' = seen \cup Observed
<1>1. edits \in 0..MaxEdits /\ changed \in BOOLEAN
  BY DEF WorkloadInv, TypeOK
<1>2. /\ edits < MaxEdits /\ edits' = edits + 1 /\ changed' = (changed \/ isChange)
      /\ issuer' = issuer /\ expired' = expired /\ request' = request /\ txn' = txn
      /\ pc' = pc /\ w' = w /\ keys' = keys /\ requests' = requests /\ sent' = sent
      /\ seen' = seen \cup Observed
  BY DEF Edit, call
<1>3. edits' \in 0..MaxEdits
  BY <1>1, <1>2, Bounds, SMT
<1>4. changed' \in BOOLEAN /\ (changed' <=> changed \/ isChange)
  BY <1>2
<1> QED BY <1>2, <1>3, <1>4

\* An edited Secret is one, and is not given the key of somebody else in the
\* name of the Certificate.
LEMMA EditedOwn ==
    ASSUME NEW s \in Secret, Own(s), NEW t \in Edited(s)
    PROVE  t \in [exists : BOOLEAN, data : Secret] /\ Own(t.data)
<1>1. 0 \in Key /\ 1 \in Key /\ OtherKey \in Key /\ OtherKey # 0 /\ OtherKey # 1
  BY Bounds, SMT DEF Key, OtherKey
<1>2. NoSecret \in Secret /\ NoSecret.owner = 0 /\ NoSecret.cert = 0 /\ NoSecret.key = 0
  BY NoCallTyped DEF NoSecret
<1>3. CASE t = Absent
  BY <1>1, <1>2, <1>3 DEF Absent, Own
<1>4. CASE t = Stored([NoSecret EXCEPT !.annotated = "other", !.cert = OtherKey, !.key = OtherKey])
  <2>1. PICK d : d = [NoSecret EXCEPT !.annotated = "other", !.cert = OtherKey, !.key = OtherKey]
    OBVIOUS
  <2>2. d = [version |-> 0, annotated |-> "other", owner |-> 0, next |-> FALSE, cert |-> OtherKey,
             key |-> OtherKey]
    BY <2>1 DEF NoSecret
  <2>3. /\ 0 \in 0..1 /\ 0 \in 0..2 /\ OtherKey \in Key \cup {Unparsable}
        /\ "other" \in {"none", "this", "other"} /\ FALSE \in BOOLEAN
    BY <1>1, SMT
  <2>4. d \in Secret /\ d.owner = 0 /\ d.annotated = "other"
    <3>1. [version |-> 0, annotated |-> "other", owner |-> 0, next |-> FALSE, cert |-> OtherKey,
                  key |-> OtherKey] \in Secret
      BY <1>1, <2>3, SecretOf
    <3>2. d \in Secret
      BY <2>2, <3>1
    <3> QED BY <2>2, <3>2
  <2>5. Own(d)
    BY <2>4, SMT DEF Own
  <2> QED BY <1>4, <2>1, <2>4, <2>5 DEF Stored
<1>5. CASE t = Stored([s EXCEPT !.owner = 2, !.cert = OtherKey, !.key = OtherKey])
  <2>1. PICK d : d = [s EXCEPT !.owner = 2, !.cert = OtherKey, !.key = OtherKey]
    OBVIOUS
  <2>2. d = [version |-> s.version, annotated |-> s.annotated, owner |-> 2, next |-> s.next,
             cert |-> OtherKey, key |-> OtherKey]
    BY <2>1 DEF Secret
  <2>3. /\ s.version \in 0..1 /\ s.annotated \in {"none", "this", "other"} /\ s.next \in BOOLEAN
        /\ 2 \in 0..2 /\ OtherKey \in Key \cup {Unparsable}
    BY <1>1, SMT DEF Secret
  <2>4. d \in Secret /\ d.owner = 2
    <3>1. [version |-> s.version, annotated |-> s.annotated, owner |-> 2, next |-> s.next,
                  cert |-> OtherKey, key |-> OtherKey] \in Secret
      BY <1>1, <2>3, SecretOf
    <3>2. d \in Secret
      BY <2>2, <3>1
    <3> QED BY <2>2, <3>2
  <2>5. Own(d)
    BY <2>4, SMT DEF Own
  <2> QED BY <1>5, <2>1, <2>4, <2>5 DEF Stored
<1>6. CASE t = Stored([s EXCEPT !.cert = 0]) \/ t = Stored([s EXCEPT !.cert = Unparsable])
  <2>1. PICK c, d : c \in {0, Unparsable} /\ d = [s EXCEPT !.cert = c] /\ t = Stored(d)
    BY <1>6
  <2>2. c # OtherKey /\ c \in Key \cup {Unparsable}
    BY <1>1, <2>1, Bounds, SMT DEF Unparsable, OtherKey
  <2>3. d \in Secret /\ d.owner = s.owner /\ d.annotated = s.annotated /\ d.cert = c /\ d.key = s.key
    BY <2>1, <2>2 DEF Secret
  <2> QED BY <2>1, <2>2, <2>3 DEF Stored, Own
<1>7. CASE t = Stored([s EXCEPT !.key = 0]) \/ t = Stored([s EXCEPT !.next = FALSE])
  <2>1. PICK d : d \in {[s EXCEPT !.key = 0], [s EXCEPT !.next = FALSE]} /\ t = Stored(d)
    BY <1>7
  <2>2. /\ d \in Secret /\ d.owner = s.owner /\ d.annotated = s.annotated /\ d.cert = s.cert
        /\ d.key \in {0, s.key}
    BY <1>1, <2>1 DEF Secret
  <2> QED BY <1>1, <2>1, <2>2 DEF Stored, Own
<1>8. CASE t = Stored([s EXCEPT !.cert = 1, !.key = 1])
  <2>1. PICK d : d = [s EXCEPT !.cert = 1, !.key = 1]
    OBVIOUS
  <2>2. d \in Secret /\ d.cert = 1 /\ d.key = 1
    BY <1>1, <2>1 DEF Secret
  <2> QED BY <1>1, <1>8, <2>1, <2>2 DEF Stored, Own
<1> QED BY <1>3, <1>4, <1>5, <1>6, <1>7, <1>8 DEF Edited

\* A user or another tool writes a Secret.
LEMMA EditSecretKeeps ==
    ASSUME WorkloadInv, EditSecret
    PROVE  WorkloadInv'
<1>1. TypeOK /\ CallInv /\ KeysInv
  BY DEF WorkloadInv
<1>2. PICK n : /\ n \in {"staged", "current"} /\ certificate' = certificate /\ Edit(TRUE)
               /\ \E s \in Edited(secret[n].data) : secret' = [secret EXCEPT ![n] = s]
  BY DEF EditSecret
<1>3. PICK s : s \in Edited(secret[n].data) /\ secret' = [secret EXCEPT ![n] = s]
  BY <1>2
<1>4. secret[n].data \in Secret /\ Own(secret[n].data)
  BY <1>1, <1>2 DEF TypeOK, Name, KeysInv
<1>5. s \in [exists : BOOLEAN, data : Secret] /\ Own(s.data)
  BY <1>3, <1>4, EditedOwn
<1>6. /\ issuer' = issuer /\ expired' = expired /\ request' = request /\ txn' = txn
      /\ pc' = pc /\ w' = w /\ keys' = keys /\ requests' = requests /\ sent' = sent
      /\ edits' \in 0..MaxEdits /\ changed' \in BOOLEAN
      /\ changed' /\ seen' = seen \cup Observed
  BY <1>2, EditFrame
<1>7. secret' \in [Name -> [exists : BOOLEAN, data : Secret]]
  BY <1>1, <1>3, <1>5 DEF TypeOK
<1>8. TypeOK'
  BY <1>1, <1>2, <1>6, <1>7, SMT DEF TypeOK
<1>9. \A m \in {"staged", "current"} : Own(secret'[m].data)
  <2> SUFFICES ASSUME NEW m \in {"staged", "current"} PROVE Own(secret'[m].data)
    OBVIOUS
  <2>1. secret'[m] = s \/ secret'[m] = secret[m]
    BY <1>1, <1>3 DEF TypeOK, Name
  <2> QED BY <1>1, <1>5, <2>1 DEF KeysInv
<1>10. (certificate.revision + (IF request.state = "done" THEN 0 ELSE 1) <= requests)'
  BY <1>1, <1>2, <1>6 DEF CallInv
<1> QED BY <1>6, <1>8, <1>9, <1>10, WorldKeeps DEF Pending

\* A write that leaves the data alone changes no key, certificate or owner.
LEMMA TouchSecretKeeps ==
    ASSUME WorkloadInv, TouchSecret
    PROVE  WorkloadInv'
<1>1. TypeOK /\ CallInv /\ KeysInv
  BY DEF WorkloadInv
<1>2. PICK n : /\ n \in {"staged", "current"} /\ certificate' = certificate /\ Edit(FALSE)
               /\ secret' = [secret EXCEPT ![n].data.version = 1 - @]
  BY DEF TouchSecret
<1>3. PICK old, d : old = secret[n] /\ d = [old.data EXCEPT !.version = 1 - @]
  OBVIOUS
<1>4. PICK new : new = [old EXCEPT !.data = d]
  OBVIOUS
<1>5. old \in [exists : BOOLEAN, data : Secret] /\ old.data \in Secret
  BY <1>1, <1>2, <1>3 DEF TypeOK, Name
<1>6. secret' = [secret EXCEPT ![n] = new]
  BY <1>2, <1>3, <1>4
<1>7. /\ d \in Secret /\ d.cert = old.data.cert /\ d.key = old.data.key /\ d.owner = old.data.owner
      /\ d.annotated = old.data.annotated
  <2>1. old.data.version \in 0..1
    BY <1>5 DEF Secret
  <2>2. 1 - old.data.version \in 0..1
    BY <2>1, SMT
  <2> QED BY <1>3, <1>5, <2>2 DEF Secret
<1>8. new \in [exists : BOOLEAN, data : Secret] /\ new.data = d
  BY <1>4, <1>5, <1>7
<1>9. /\ issuer' = issuer /\ expired' = expired /\ request' = request /\ txn' = txn
      /\ pc' = pc /\ w' = w /\ keys' = keys /\ requests' = requests /\ sent' = sent
      /\ edits' \in 0..MaxEdits /\ changed' \in BOOLEAN
      /\ (changed' <=> changed) /\ seen' = seen \cup Observed
  BY <1>2, EditFrame
<1>10. secret' \in [Name -> [exists : BOOLEAN, data : Secret]]
  BY <1>1, <1>6, <1>8 DEF TypeOK
<1>11. TypeOK'
  BY <1>1, <1>2, <1>9, <1>10, SMT DEF TypeOK
<1>12. \A m \in {"staged", "current"} : /\ secret'[m].data.cert = secret[m].data.cert
                                        /\ secret'[m].data.key = secret[m].data.key
                                        /\ Own(secret'[m].data)
  <2> SUFFICES ASSUME NEW m \in {"staged", "current"}
               PROVE  /\ secret'[m].data.cert = secret[m].data.cert
                      /\ secret'[m].data.key = secret[m].data.key
                      /\ Own(secret'[m].data)
    OBVIOUS
  <2>1. CASE m = n
    <3>1. secret'[m] = new
      BY <1>1, <1>6, <2>1 DEF TypeOK, Name
    <3>2. Own(secret[m].data) /\ old = secret[m]
      BY <1>1, <1>3, <2>1 DEF KeysInv
    <3>3. Own(d)
      BY <1>7, <3>2 DEF Own
    <3> QED BY <1>7, <1>8, <3>1, <3>2, <3>3
  <2>2. CASE m # n
    <3>1. secret'[m] = secret[m]
      BY <1>1, <1>6, <2>2 DEF TypeOK, Name
    <3> QED BY <1>1, <3>1 DEF KeysInv
  <2> QED BY <2>1, <2>2
<1>13. (certificate.revision + (IF request.state = "done" THEN 0 ELSE 1) <= requests)'
  BY <1>1, <1>2, <1>9 DEF CallInv
<1> QED BY <1>2, <1>9, <1>11, <1>12, <1>13, WorldKeeps DEF Pending

\* A user edits, renames or deletes the Certificate.
LEMMA EditCertificateKeeps ==
    ASSUME WorkloadInv, EditCertificate
    PROVE  WorkloadInv'
<1>1. TypeOK /\ CallInv /\ KeysInv
  BY DEF WorkloadInv
<1>2. secret' = secret /\ Edit(TRUE)
  BY DEF EditCertificate
<1>3. /\ certificate' \in [exists : BOOLEAN, uid : {1}, deleting : BOOLEAN, revision : 0..MaxRequests,
                           nextKey : {"none", "staged"}, secretName : {"staged", "current"},
                           issuer : BOOLEAN]
      /\ certificate'.revision = certificate.revision
  <2>1. CASE certificate' = [certificate EXCEPT !.exists = FALSE]
    BY <1>1, <2>1 DEF TypeOK
  <2>2. CASE certificate' = [certificate EXCEPT !.deleting = TRUE]
    BY <1>1, <2>2 DEF TypeOK
  <2>3. CASE certificate' = [certificate EXCEPT !.issuer = ~@]
    BY <1>1, <2>3 DEF TypeOK
  <2>4. CASE \E n \in {"staged", "current"} : certificate' = [certificate EXCEPT !.secretName = n]
    BY <1>1, <2>4, ZenonT(40) DEF TypeOK
  <2> QED BY <2>1, <2>2, <2>3, <2>4 DEF EditCertificate
<1>4. /\ issuer' = issuer /\ expired' = expired /\ request' = request /\ txn' = txn
      /\ pc' = pc /\ w' = w /\ keys' = keys /\ requests' = requests /\ sent' = sent
      /\ edits' \in 0..MaxEdits /\ changed' \in BOOLEAN
      /\ changed' /\ seen' = seen \cup Observed
  BY <1>2, EditFrame
<1>5. TypeOK'
  BY <1>1, <1>2, <1>3, <1>4, SMT DEF TypeOK
<1>6. \A m \in {"staged", "current"} : Own(secret'[m].data)
  BY <1>1, <1>2 DEF KeysInv
<1>7. (certificate.revision + (IF request.state = "done" THEN 0 ELSE 1) <= requests)'
  BY <1>1, <1>3, <1>4 DEF CallInv
<1> QED BY <1>4, <1>5, <1>6, <1>7, WorldKeeps DEF Pending

-----------------------------------------------------------------------------

\* Initially there is no request, and the Secrets hold no foreign key.
LEMMA InitHolds == Init => WorkloadInv
<1> SUFFICES ASSUME Init PROVE WorkloadInv
  OBVIOUS
<1>1. /\ 0 \in Key /\ OtherKey \in Key /\ OtherKey # 0
  BY Bounds, SMT DEF Key, OtherKey
<1>2. PICK d : d = [NoSecret EXCEPT !.owner = 2, !.next = TRUE, !.key = OtherKey]
  OBVIOUS
<1>3. d \in Secret
  <2>1. d = [version |-> 0, annotated |-> "none", owner |-> 2, next |-> TRUE, cert |-> 0,
             key |-> OtherKey]
    BY <1>2 DEF NoSecret
  <2>2. /\ 0 \in 0..1 /\ 2 \in 0..2 /\ 0 \in Key \cup {Unparsable}
        /\ "none" \in {"none", "this", "other"} /\ TRUE \in BOOLEAN
    BY <1>1, SMT
  <2>3. [version |-> 0, annotated |-> "none", owner |-> 2, next |-> TRUE, cert |-> 0,
         key |-> OtherKey] \in Secret
    BY <1>1, <2>2, SecretOf
  <2> QED BY <2>1, <2>3
<1>4. /\ Stored(d) \in [exists : BOOLEAN, data : Secret]
      /\ Absent \in [exists : BOOLEAN, data : Secret] /\ Absent.data.cert = 0 /\ Absent.data.key = 0
  BY <1>3, NoCallTyped DEF Stored, Absent, NoSecret
<1>5. /\ secret \in [Name -> [exists : BOOLEAN, data : Secret]]
      /\ secret["staged"] = Absent /\ secret["current"] = Absent
  BY <1>2, <1>4 DEF Init, Name
<1>6. /\ certificate = [exists |-> TRUE, uid |-> 1, deleting |-> FALSE, revision |-> 0,
                        nextKey |-> "none", secretName |-> "current", issuer |-> TRUE]
      /\ request = [revision |-> NoRevision, owner |-> 0, keyName |-> "none", csrKey |-> 0,
                    state |-> "done", why |-> "none"]
      /\ txn = NoTransaction /\ pc = "idle" /\ w = NoCall
      /\ keys = 0 /\ requests = 0 /\ edits = 0 /\ expired = {} /\ sent = {} /\ seen = {}
      /\ changed = FALSE /\ issuer \in Issuers
  BY DEF Init
<1>7. /\ txn.open = FALSE /\ txn.op = "P10CR" /\ txn.fallback = "none"
  BY <1>6 DEF NoTransaction
<1>8. TypeOK
  <2>1. /\ certificate \in [exists : BOOLEAN, uid : {1}, deleting : BOOLEAN, revision : 0..MaxRequests,
                            nextKey : {"none", "staged"}, secretName : {"staged", "current"},
                            issuer : BOOLEAN]
    BY <1>6, Bounds, SMT
  <2>2. request \in [revision : Int, owner : 0..2, keyName : Name \cup {"none"}, csrKey : Key,
                     state : {"pending", "ready", "failed", "done"},
                     why : {"none", "operation", "owner", "missing", "foreign", "staged", "pair",
                            "expired", "credentials", "server"}]
    BY <1>1, <1>6, SMT DEF NoRevision
  <2>3. w \in CallType
    BY <1>6, NoCallTyped
  <2>4. changed \in BOOLEAN /\ txn.open \in BOOLEAN
    BY <1>6, <1>7
  <2>5. keys \in 0..MaxKey /\ requests \in 0..MaxRequests /\ edits \in 0..MaxEdits /\ expired \subseteq Key
    BY <1>6, Bounds, SMT
  <2> QED BY <1>5, <1>6, <1>7, <2>1, <2>2, <2>3, <2>4, <2>5
         DEF TypeOK, CallType, Operation, Reason, SecretType
<1>9. CallInv
  BY <1>6, SMT DEF CallInv
<1>10. SentInv
  BY <1>6 DEF SentInv, Pending, OneProofPerTransaction
<1>11. KeysInv
  BY <1>1, <1>4, <1>5, <1>6, NoCallTyped DEF KeysInv, Own, KeysBelongToCertificate
<1>12. SeenInv
  BY <1>6, <1>7, NoCallTyped DEF SeenInv, Pending, FallbackJustified
<1>13. HopeInv
  BY <1>6, <1>7 DEF HopeInv
<1>14. SameInv
  BY <1>6 DEF SameInv, Pending, CredentialsChanged
<1> QED BY <1>8, <1>9, <1>10, <1>11, <1>12, <1>13, <1>14 DEF WorkloadInv

\* Nothing changes.
LEMMA StutterKeeps ==
    ASSUME WorkloadInv, UNCHANGED vars
    PROVE  WorkloadInv'
<1>1. TypeOK /\ CallInv /\ SentInv /\ KeysInv /\ SeenInv /\ HopeInv /\ SameInv
  BY DEF WorkloadInv
<1>2. /\ issuer' = issuer /\ certificate' = certificate /\ secret' = secret /\ expired' = expired
      /\ keys' = keys /\ requests' = requests /\ edits' = edits
      /\ sent' = sent /\ seen' = seen /\ changed' = changed /\ request' = request /\ txn' = txn
      /\ pc' = pc /\ w' = w
  BY DEF vars, world, call, counters
<1>3. TypeOK' /\ CallInv' /\ SentInv'
  BY <1>1, <1>2, SMT DEF TypeOK, CallInv, SentInv, Pending, OneProofPerTransaction
<1>4. KeysInv' /\ SeenInv'
  BY <1>1, <1>2 DEF KeysInv, KeysBelongToCertificate, SeenInv, CurrentNames, Pending,
       FallbackJustified
<1>5. HopeInv' /\ SameInv'
  BY <1>1, <1>2 DEF HopeInv, Hopeful, SameInv, Pending, PresentDigest, CredentialsChanged
<1> QED BY <1>3, <1>4, <1>5 DEF WorkloadInv

\* What a call knows, what is bound and what was seen hold throughout.
THEOREM WorkloadInvariant == Spec => []WorkloadInv
<1>1. Init => WorkloadInv
  BY InitHolds
<1>2. WorkloadInv /\ [Next]_vars => WorkloadInv'
  <2> SUFFICES ASSUME WorkloadInv, [Next]_vars PROVE WorkloadInv'
    OBVIOUS
  <2>1. CASE Sign
    BY <2>1, SignKeeps
  <2>2. CASE ClassifyOwner
    BY <2>2, ClassifyOwnerKeeps
  <2>3. CASE ClassifySecret
    BY <2>3, ClassifySecretKeeps
  <2>4. CASE AuthorizeOwner
    BY <2>4, AuthorizeOwnerKeeps
  <2>5. CASE ReadCurrent
    BY <2>5, ReadCurrentKeeps
  <2>6. CASE LoadStaged
    BY <2>6, LoadStagedKeeps
  <2>7. CASE BindP10CR
    BY <2>7, BindP10CRKeeps
  <2>8. CASE Exchange
    BY <2>8, ExchangeKeeps
  <2>9. CASE Crash
    BY <2>9, CrashKeeps
  <2>10. CASE Stage
    BY <2>10, StageKeeps
  <2>11. CASE CreateRequest
    BY <2>11, CreateRequestKeeps
  <2>12. CASE CreateForeignRequest
    BY <2>12, CreateForeignRequestKeeps
  <2>13. CASE Complete
    BY <2>13, CompleteKeeps
  <2>14. CASE Expire
    BY <2>14, ExpireKeeps
  <2>15. CASE EditSecret
    BY <2>15, EditSecretKeeps
  <2>16. CASE TouchSecret
    BY <2>16, TouchSecretKeeps
  <2>17. CASE EditCertificate
    BY <2>17, EditCertificateKeeps
  <2>18. CASE UNCHANGED vars
    BY <2>18, StutterKeeps
  <2> QED BY <2>1, <2>2, <2>3, <2>4, <2>5, <2>6, <2>7, <2>8, <2>9, <2>10, <2>11, <2>12, <2>13,
               <2>14,
             <2>15, <2>16, <2>17, <2>18 DEF Next
<1> QED BY <1>1, <1>2, PTL DEF Spec

\* Every state is well typed (the record, the Secrets and the call of Sign).
THEOREM WorkloadTypeCorrect == Spec => []TypeOK
<1>1. WorkloadInv => TypeOK
  BY DEF WorkloadInv
<1> QED BY <1>1, WorkloadInvariant, PTL

\* All messages of a transaction name one operation and prove one key, however
\* the Secrets change between the calls of Sign (workloadSecretFingerprint,
\* runtimeConfigurationDigest).
THEOREM OneProofPerTransactionHolds == Spec => []OneProofPerTransaction
<1>1. WorkloadInv => OneProofPerTransaction
  BY DEF WorkloadInv, SentInv
<1> QED BY <1>1, WorkloadInvariant, PTL

\* No message is protected with a key that is not the Certificate's own,
\* whatever requests claim and whatever other tools write into the Secrets
\* (authorizeOwningCertificate, loadStagedKey).
THEOREM KeysBelongToCertificateHolds == Spec => []KeysBelongToCertificate
<1>1. WorkloadInv => KeysBelongToCertificate
  BY DEF WorkloadInv, KeysInv
<1> QED BY <1>1, WorkloadInvariant, PTL

\* A renewal falls back only for a reason that held while its request was
\* pending (classifyRenewalFallback).
THEOREM FallbackJustifiedHolds == Spec => []FallbackJustified
<1>1. WorkloadInv => FallbackJustified
  BY DEF WorkloadInv, SeenInv
<1> QED BY <1>1, WorkloadInvariant, PTL

\* Where the issuer falls back, a renewal does not fail for want of a current
\* certificate that was missing or expired all along (selectRenewalFallback).
THEOREM NoDeadEndHolds == Spec => []NoDeadEnd
<1>1. WorkloadInv => NoDeadEnd
  BY DEF WorkloadInv, HopeInv, Hopeful, NoDeadEnd
<1> QED BY <1>1, WorkloadInvariant, PTL

\* A transaction is given up for changed credentials only when they changed
\* (workloadSecretFingerprint).
THEOREM CredentialsChangedHolds == Spec => []CredentialsChanged
<1>1. WorkloadInv => CredentialsChanged
  BY DEF WorkloadInv, SameInv
<1> QED BY <1>1, WorkloadInvariant, PTL
=============================================================================
