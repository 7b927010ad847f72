--------------------------- MODULE CMPTransaction ---------------------------
(***************************************************************************)
(* The CMPTransaction resource (api/v1alpha1/cmptransaction_types.go) and  *)
(* the bounds of the model.                                                *)
(*                                                                         *)
(* One namespace/name pair is modelled: a CertificateRequest and the       *)
(* CMPTransaction that shares its name.  Requests with different names     *)
(* never touch each other's record.                                        *)
(***************************************************************************)
EXTENDS Naturals

CONSTANTS
    MaxUid,         \* CertificateRequests created, one after another, under the name
    MaxTxn,         \* CMPTransaction objects created under the name
    MaxCert,        \* certificates the server issues under one transaction ID
    MaxRotation,    \* writes to the Secrets that enter the configuration digest
    MaximumPolls,   \* spec.transaction.maximumPolls
    MaxLate,        \* requests that are late at the same time
    MaxVersion,     \* versions of the issuer resource, edits and recreations alike
    Issuer          \* Issuer[v] is the v-th version of the issuer resource

\* What selectedTransactionOperation can return; "none" stands for its error.
Operation == {"P10CR", "IR", "KUR"}

\* The parts of an issuer that a transaction is bound to.  "fallback" is the
\* result of renewalFallbackOperation, with "none" for the empty string.
IssuerVersion ==
    [uid        : Nat,
     generation : Nat,
     operation  : Operation \cup {"none"},
     fallback   : {"P10CR", "IR", "none"}]

ASSUME BoundsAssumption ==
    /\ MaxUid \in Nat \ {0}
    /\ MaxTxn \in Nat \ {0}
    /\ MaxCert \in Nat
    /\ MaxRotation \in Nat
    /\ MaxLate \in Nat
    /\ MaxVersion \in Nat \ {0}
    /\ MaximumPolls \in Nat \ {0}

\* An edit changes the generation and a recreation the UID.
ASSUME IssuerAssumption ==
    /\ Issuer \in [1..MaxVersion -> IssuerVersion]
    /\ \A v, w \in 1..MaxVersion :
          (Issuer[v].uid = Issuer[w].uid /\ Issuer[v].generation = Issuer[w].generation) => v = w

Uid == 1..MaxUid
Txn == 1..MaxTxn
Version == 1..MaxVersion

\* TransactionPhase.  "New" is the empty phase of an object whose first status
\* update has not been written yet.
Phase == {"New", "Enrolling", "Polling", "Confirming", "Issued"}

\* The random transactionID and the object UID are fresh for every object the
\* API server accepts, so the single field "id" stands for both.  "version" is
\* metadata.resourceVersion, "requestNonce" says which request the recorded
\* nonce belongs to, and "chain" is the number of the recorded certificate
\* among those issued under this transaction ID, 0 when none is recorded.
\* The CSR digest is left out: a CertificateRequest spec is immutable, so equal
\* request UIDs have equal CSRs.
Record ==
    [id           : 0..MaxTxn,
     uid          : 0..MaxUid,
     issuer       : Version,
     digest       : 0..MaxRotation,
     operation    : Operation,
     fallback     : BOOLEAN,
     version      : Nat,
     phase        : Phase,
     polls        : 0..MaximumPolls,
     requestNonce : {"none", "enrollment", "certConf"},
     recipNonce   : BOOLEAN,
     chain        : 0..MaxCert]

NoRecord ==
    [id |-> 0, uid |-> 0, issuer |-> 1, digest |-> 0, operation |-> "P10CR",
     fallback |-> FALSE, version |-> 0, phase |-> "New", polls |-> 0,
     requestNonce |-> "none", recipNonce |-> FALSE, chain |-> 0]
=============================================================================
