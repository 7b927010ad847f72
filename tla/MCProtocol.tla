----------------------------- MODULE MCProtocol -----------------------------
(***************************************************************************)
(* Instances of ProtocolClient.                                            *)
(***************************************************************************)
EXTENDS ProtocolClient

\* A P10CR with a shared secret, fit to be sent.
Password ==
    [operation |-> "P10CR", protection |-> "mac", implicitConfirm |-> FALSE,
     rejectMods |-> FALSE, allowSignedMAC |-> FALSE, iterationFloor |-> TRUE,
     certReqIDs |-> {-1}, caPubsAbsent |-> FALSE, signerConfigured |-> FALSE,
     hashAlg |-> FALSE, facts |-> Fact]

SignedAnswers == [Password EXCEPT !.operation = "IR", !.allowSignedMAC = TRUE]

Update == [Password EXCEPT !.operation = "KUR", !.protection = "signature",
                           !.hashAlg = TRUE, !.caPubsAbsent = TRUE]

\* One request per way of authenticating an answer.
OrderlyRequests ==
    {Password, SignedAnswers, Update, [Update EXCEPT !.implicitConfirm = TRUE]}

\* Requests that differ in policy, and some that must not be sent.
VariedRequests ==
    OrderlyRequests
      \cup {[Password EXCEPT !.rejectMods = b, !.iterationFloor = ~b, !.signerConfigured = b,
                             !.certReqIDs = IF b THEN {0} ELSE {-1, 0}] : b \in BOOLEAN}
      \cup {[Update EXCEPT !.facts = Fact \ {f}] : f \in Fact}
      \cup {[Update EXCEPT !.protection = "mac"]}
      \cup {[SignedAnswers EXCEPT !.facts = Fact \ {"possession"}]}
      \cup {[Update EXCEPT !.operation = "P10CR", !.implicitConfirm = TRUE, !.rejectMods = TRUE]}

\* A server that follows the protocol, for long, with messages in time and late.
\* A server that issues anew on a repeated request while old answers come again.
\* One that deviates in every way.
AllScenarios ==
    [orderly |-> [requests |-> OrderlyRequests, messages |-> 5, kinds |-> {"good"},
                  defects |-> {}, stale |-> FALSE, late |-> 0],
     delayed |-> [requests |-> {Password, [Update EXCEPT !.implicitConfirm = TRUE]}, messages |-> 5,
                  kinds |-> {"good"}, defects |-> {}, stale |-> FALSE, late |-> 1],
     repeats |-> [requests |-> {Password}, messages |-> 4, kinds |-> {"good", "otherKey"},
                  defects |-> {}, stale |-> TRUE, late |-> 1],
     defects |-> [requests |-> VariedRequests, messages |-> 3, kinds |-> CertificateKind,
                  defects |-> Defect, stale |-> FALSE, late |-> 0]]

StatusScenario ==
    [status |-> [requests |-> OrderlyRequests, messages |-> 2, kinds |-> {"good"},
                 defects |-> {"acceptedError"}, stale |-> FALSE, late |-> 0]]

\* extractEnrollmentResponse "validates a CP, IP or KUP and returns the issued
\* certificate with its candidates": what it returns without an error is a wait
\* or a certificate.  finishTransaction relies on that.
ReturnsCertificate == result # "panic"
=============================================================================
