-------------------------- MODULE TransactionStore --------------------------
(***************************************************************************)
(* The transactionStore of internal/controller/transaction_store.go: every *)
(* write it makes to the one CMPTransaction object of a name.  Reads are   *)
(* uncached, so a reader sees the current value of "store".                *)
(***************************************************************************)
EXTENDS CMPTransaction

VARIABLES
    store,      \* the CMPTransaction object the API server holds, or NoRecord
    nextTxn,    \* the identifier the next created object receives
    closed      \* history: transactions whose object was removed for cause

storeVars == <<store, nextTxn, closed>>

StoreTypeOK ==
    /\ store \in Record
    /\ nextTxn \in 1..(MaxTxn + 1)
    /\ closed \subseteq Txn

StoreInit ==
    /\ store = NoRecord
    /\ nextTxn = 1
    /\ closed = {}

\* Mutant of NewRecord: the request UID is not recorded.
NewRecordWithoutUID(draft) ==
    [draft EXCEPT !.id = nextTxn, !.version = 1, !.phase = "New", !.uid = 0]

\* The object create submits: a fresh identity and an empty status.
NewRecord(draft) ==
    [draft EXCEPT !.id = nextTxn, !.version = 1, !.phase = "New"]

\* Create, accepted only when no object has the name.
CreateObject(draft) ==
    /\ store = NoRecord
    /\ nextTxn <= MaxTxn
    /\ store' = NewRecord(draft)
    /\ nextTxn' = nextTxn + 1
    /\ UNCHANGED closed

\* Mutant of Current: the update is not bound to the version that was read.
CurrentAnyVersion(r) == store.id = r.id

\* Mutant of Current: an update brings a deleted object back.
CurrentOrAbsent(r) == store.id \in {0, r.id} /\ store.version \in {0, r.version}

\* Status().Update is refused with a conflict unless the object still has the
\* resourceVersion that the caller read.
Current(r) == store.id = r.id /\ store.version = r.version

\* The status a caller has changed in its own copy, as the API server stores it.
Updated(r) == [r EXCEPT !.version = @ + 1]

UpdateStatus(r) ==
    /\ Current(r)
    /\ store' = Updated(r)
    /\ UNCHANGED <<nextTxn, closed>>

\* Mutant of DeleteObject: no UID precondition.
DeleteObjectByName(r) ==
    /\ store' = NoRecord
    /\ closed' = closed \cup {r.id}
    /\ UNCHANGED nextTxn

\* Delete with deletePreconditions: the object goes only when its UID is the
\* one that was read.  An absent or replaced object is left alone.
DeleteObject(r) ==
    /\ store' = IF store.id = r.id THEN NoRecord ELSE store
    /\ closed' = closed \cup {r.id}
    /\ UNCHANGED nextTxn

\* The status each record operation writes, in the caller's copy.
recordEnrolling(r) == [r EXCEPT !.phase = "Enrolling"]

recordPending(r, nonce) ==
    [r EXCEPT !.phase = "Polling",
              !.recipNonce = nonce,
              !.requestNonce = "enrollment"]

\* Mutant of recordConfirming: the chain counts as issued before it is confirmed.
recordConfirmingAsIssued(r, cert, nonce, requestNonce) ==
    [r EXCEPT !.phase = "Issued",
              !.chain = cert,
              !.recipNonce = nonce,
              !.requestNonce = requestNonce]

\* Mutant of recordConfirming: the answer that granted the certificate counts as
\* a poll.
recordConfirmingCounted(r, cert, nonce, requestNonce) ==
    [r EXCEPT !.phase = "Confirming",
              !.polls = @ + 1,
              !.chain = cert,
              !.recipNonce = nonce,
              !.requestNonce = requestNonce]

\* Mutant of recordConfirming: an empty nonce leaves the recorded one alone.
recordConfirmingKeepNonce(r, cert, nonce, requestNonce) ==
    [r EXCEPT !.phase = "Confirming",
              !.chain = cert,
              !.recipNonce = nonce,
              !.requestNonce = IF requestNonce = "none" THEN @ ELSE requestNonce]

recordConfirming(r, cert, nonce, requestNonce) ==
    [r EXCEPT !.phase = "Confirming",
              !.chain = cert,
              !.recipNonce = nonce,
              !.requestNonce = requestNonce]

recordIssued(r, cert) == [r EXCEPT !.phase = "Issued", !.chain = cert]
=============================================================================
