------------------------------ MODULE MCSigner ------------------------------
(* Instances of Signer for TLC. *)
EXTENDS Signer, Sequences, TLC

IssuerSpec(u, g, o, f) == [uid |-> u, generation |-> g, operation |-> o, fallback |-> f]

\* One issuer that is never changed and needs no workload keys.
OneIssuer == << IssuerSpec(1, 1, "P10CR", "none") >>

\* A KUR renewal that may fall back to IR, edited to select P10CR.
EditedIssuer == << IssuerSpec(1, 1, "KUR", "IR"), IssuerSpec(1, 2, "P10CR", "none") >>

\* A P10CR issuer edited to renew with KUR, recreated at the first generation, and
\* edited so that it selects no operation at all.
ReconfiguredIssuer ==
    << IssuerSpec(1, 1, "P10CR", "none"), IssuerSpec(1, 2, "KUR", "IR"),
       IssuerSpec(2, 1, "KUR", "IR"), IssuerSpec(2, 2, "none", "none") >>

\* Either requests and transactions follow one another, or configurations do.
OneSuccession == (cr.uid = 1 /\ nextTxn <= 2) \/ (issuer = 1 /\ rotation = 0)

\* Either two transactions follow one another before the server has taken up
\* either, or one goes on to its confirmation.
TwoOrConfirmed == nextTxn <= 2 \/ \A t \in Txn : srv[t].state = "unknown"

Interchangeable == Permutations(Worker)

\* internal/controller/signer.go:474, "an issuer spec change after issuance does
\* not block the recovery": the record of a completed transaction is not given
\* up before the chain in it was looked at, while the issuer is the same object.
IssuerEditKeepsRecovery ==
    [][\A w \in Worker :
         pc[w] = "load" /\ pc'[w] = "remove" =>
            ~(store.phase = "Issued" /\ Issuer[store.issuer].uid = Issuer[iss[w]].uid)]_vars
=============================================================================
