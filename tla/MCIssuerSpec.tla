---------------------------- MODULE MCIssuerSpec ----------------------------
(***************************************************************************)
(* Two issuers to begin with, the values of their fields to try, and up to *)
(* three changes at a time.                                                *)
(***************************************************************************)
EXTENDS IssuerSpec

\* A URL in order, and one that url.Parse takes although it has not the pattern,
\* as HTTPS://host or with a space in its path.
URL(scheme) == {"pattern", scheme, "host", "plain"}
LooseURL(scheme) == {scheme, "host", "plain"}

MACIssuer ==
    [url |-> URL("https"), renewalUrl |-> {}, timeout |-> 30, maxResponseSize |-> 1048576,
     version |-> 2, initialEnrollment |-> "P10CR", renewal |-> "absent",
     requestedValidity |-> "Omit", renewalFallback |-> "None",
     validationProfile |-> "Interoperable", kurResponseCaPubs |-> "absent",
     p10crResponseCertReqId |-> {}, macResponseProtection |-> "absent",
     signatureDigest |-> "absent", certProfile |-> "absent", sender |-> "absent",
     recipient |-> "dn", confirmation |-> "Explicit",
     type |-> "PasswordBasedMac", pbm |-> TRUE, signature |-> FALSE, separateKeys |-> TRUE,
     owf |-> 256, mac |-> 256, iterationCount |-> 1024,
     tlsCA |-> TRUE, tlsClient |-> FALSE, signerCertificates |-> "none",
     transaction |-> OmittedLimits, grantedModifications |-> "Reject",
     references |-> TRUE]

SignatureIssuer ==
    [MACIssuer EXCEPT !.initialEnrollment = "IR", !.renewalUrl = URL("http"), !.url = URL("http"),
                      !.tlsCA = FALSE, !.renewalFallback = "InitialEnrollment",
                      !.validationProfile = "RFC9483",
                      !.type = "Signature", !.pbm = FALSE, !.signature = TRUE]

MCBases == {MACIssuer, SignatureIssuer}

Limit(duration, minimum, maximum, polls) ==
    [maximumDuration |-> duration, minimumPollInterval |-> minimum,
     maximumPollInterval |-> maximum, maximumPolls |-> polls]

MCChoices ==
    [url |-> {URL("http"), LooseURL("https"), URL("http") \ {"host"}, URL("https") \ {"plain"},
              {"pattern"}, {}},
     renewalUrl |-> {{}, URL("https"), LooseURL("http"), URL("https") \ {"host"}},
     timeout |-> {0, 30}, maxResponseSize |-> {1023, 1024, 10485760, 10485761},
     version |-> {3}, initialEnrollment |-> {"IR", "P10CR", "KUR"},
     renewal |-> {"P10CR", "KUR", "IR"}, requestedValidity |-> {"absent", "Duration", "x"},
     renewalFallback |-> {"absent", "InitialEnrollment", "x"},
     validationProfile |-> {"absent", "Interoperable", "RFC9483", "x"},
     kurResponseCaPubs |-> {"Accept", "RequireAbsent", "x"},
     p10crResponseCertReqId |-> {{-1}, {0}, {1}},
     macResponseProtection |-> {"Strict", "AllowSignature", "x"},
     signatureDigest |-> {"SHA384", "SHA1"}, certProfile |-> {"x", "long"},
     sender |-> {"dn", "bad", "longDN"}, recipient |-> {"absent", "bad", "longDN", "long"}, confirmation |-> {"Implicit", "x"},
     type |-> {"PasswordBasedMac", "Signature", "x"}, pbm |-> BOOLEAN, signature |-> BOOLEAN,
     separateKeys |-> {FALSE}, owf |-> {160, 384, 512}, mac |-> {160, 384, 512},
     iterationCount |-> {99, 100, 1048575, 1048576}, tlsCA |-> BOOLEAN, tlsClient |-> {TRUE},
     signerCertificates |-> {"full", "partial"},
     transaction |-> {Limit(10, 1, 5, 60), Limit(10, 5, 1, 60), Limit(10, 0, 5, 60), Limit(0, 1, 5, 60),
                      Limit(10, 1, 5, 0), Limit(10, 1, 5, 1000), Limit(10, 1, 5, 1001)},
     grantedModifications |-> {"absent", "Accept", "x"}, references |-> {FALSE}]
=============================================================================
