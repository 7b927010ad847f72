----------------------------- MODULE IssuerSpec -----------------------------
(***************************************************************************)
(* The spec of an issuer: what the schema of the custom resource admits,   *)
(* what the controller accepts, and the request that a valid spec becomes. *)
(*                                                                         *)
(* The spec is flat here, and its Secrets are taken to be in order.  A URL *)
(* is the set of what holds of it: it has the schema's "pattern"; url.Parse*)
(* finds "http" or "https", in any case, and a "host"; and it is "plain",  *)
(* without user information and fragment.  A name parses as a "dn" or not, *)
(* and may be longer than the schema admits.  A string that is missing is  *)
(* "absent", and a URL {}; an empty string reads as a missing one.         *)
(***************************************************************************)
EXTENDS Limits, CMPMessages

CONSTANTS
    Bases,      \* specs that users begin with
    Choices,    \* the values tried for each field
    MaxEdits    \* number of fields changed

\* The fields with what Go lets them hold.  A pointer to an integer is a set.
FieldType ==
    [url |-> SUBSET STRING, renewalUrl |-> SUBSET STRING, timeout |-> Int, maxResponseSize |-> Int,
     version |-> Int, initialEnrollment |-> STRING, renewal |-> STRING,
     requestedValidity |-> STRING, renewalFallback |-> STRING, validationProfile |-> STRING,
     kurResponseCaPubs |-> STRING, p10crResponseCertReqId |-> SUBSET Int,
     macResponseProtection |-> STRING, signatureDigest |-> STRING, certProfile |-> STRING,
     sender |-> STRING, recipient |-> STRING, confirmation |-> STRING, type |-> STRING,
     pbm |-> BOOLEAN, signature |-> BOOLEAN, separateKeys |-> BOOLEAN, owf |-> Int, mac |-> Int,
     iterationCount |-> Int, tlsCA |-> BOOLEAN, tlsClient |-> BOOLEAN,
     signerCertificates |-> {"none", "partial", "full"}, transaction |-> TransactionSpec(Int),
     grantedModifications |-> STRING, references |-> BOOLEAN]

\* Names that parse, and text that is too long for the schema.
DN == {"dn", "longDN"}
Long == {"longDN", "long"}

Typed(s) == DOMAIN s = DOMAIN FieldType /\ \A f \in DOMAIN FieldType : s[f] \in FieldType[f]

ASSUME SpecAssumption ==
    /\ \A s \in Bases : Typed(s)
    /\ \A f \in DOMAIN Choices : f \in DOMAIN FieldType /\ Choices[f] \subseteq FieldType[f]
    /\ MaxEdits \in Nat

VARIABLES spec, edits

vars == <<spec, edits>>

Init == spec \in Bases /\ edits = 0

\* A user changes one field.
Edit ==
    /\ edits < MaxEdits
    /\ edits' = edits + 1
    /\ \E f \in DOMAIN Choices : \E v \in Choices[f] : spec' = [spec EXCEPT ![f] = v]

Next == Edit

Spec == Init /\ [][Next]_vars

-----------------------------------------------------------------------------
(* The schema: the markers of common_types.go. *)

\* Enumerated fields.
Enum ==
    [version |-> {2}, initialEnrollment |-> {"P10CR", "IR"}, renewal |-> {"P10CR", "KUR"},
     requestedValidity |-> {"Omit", "Duration"}, renewalFallback |-> {"None", "InitialEnrollment"},
     validationProfile |-> {"Interoperable", "RFC9483"},
     kurResponseCaPubs |-> {"Accept", "RequireAbsent"}, p10crResponseCertReqId |-> {{-1}, {0}},
     macResponseProtection |-> {"Strict", "AllowSignature"},
     signatureDigest |-> {"SHA256", "SHA384", "SHA512"}, confirmation |-> {"Explicit", "Implicit"},
     grantedModifications |-> {"Reject", "Accept"}]

\* Those that may be absent: optional ones, and the one of an optional block.
Absent ==
    [renewal |-> "absent", requestedValidity |-> "absent", renewalFallback |-> "absent",
     validationProfile |-> "absent", kurResponseCaPubs |-> "absent", p10crResponseCertReqId |-> {},
     macResponseProtection |-> "absent", signatureDigest |-> "absent",
     grantedModifications |-> "absent"]

EnumSchema(s) ==
    \A f \in DOMAIN Enum : s[f] \in Enum[f] \/ (f \in DOMAIN Absent /\ s[f] = Absent[f])

\* Pattern, Minimum, Maximum, MinLength and MaxLength.  The references are those
\* of trust anchors and credentials.
ValueSchema(s) ==
    /\ "pattern" \in s.url /\ (s.renewalUrl # {} => "pattern" \in s.renewalUrl)
    /\ 1024 <= s.maxResponseSize /\ s.maxResponseSize <= 10485760
    /\ \/ s.transaction = OmittedLimits
       \/ 1 <= s.transaction.maximumPolls /\ s.transaction.maximumPolls <= 1000
    /\ {s.certProfile, s.sender, s.recipient} \cap Long = {}
    /\ s.references /\ s.signerCertificates # "partial"
    /\ s.pbm => 100 <= s.iterationCount /\ s.iterationCount <= 1048575

\* The rules of ProtocolSpec.
ProtocolRules(s) ==
    /\ s.validationProfile = "RFC9483" =>
         /\ s.p10crResponseCertReqId \in {{}, {-1}}
         /\ s.macResponseProtection \in {"absent", "Strict"}
         /\ s.kurResponseCaPubs \in {"absent", "RequireAbsent"}
    /\ s.requestedValidity = "Duration" => s.initialEnrollment = "IR" \/ s.renewal = "KUR"
    /\ s.renewalFallback \in {"absent", "None"}
         \/ IF s.renewal # "absent" THEN s.renewal = "KUR" ELSE s.initialEnrollment = "IR"

\* The rules of ProtectionSpec and PasswordBasedMacAlgorithmSpec.
ProtectionRules(s) ==
    /\ s.type \in {"PasswordBasedMac", "Signature"}
    /\ s.pbm = (s.type = "PasswordBasedMac") /\ s.signature = (s.type = "Signature")
    /\ s.pbm => /\ s.owf \in {256, 384, 512} /\ s.mac \in {256, 384, 512}
                /\ s.mac = 256 \/ s.owf = 512 \/ (s.owf = 384 /\ s.mac = 384)

Schema(s) == EnumSchema(s) /\ ValueSchema(s) /\ ProtocolRules(s) /\ ProtectionRules(s)

-----------------------------------------------------------------------------
(* The controller: configuration.go. *)

renewalOperation(s) ==
    IF s.renewal \in {"KUR", "P10CR"} THEN s.renewal
    ELSE IF s.initialEnrollment = "IR" THEN "KUR" ELSE "P10CR"

validateEndpointURL(u) == {"host", "plain"} \subseteq u /\ {"http", "https"} \cap u # {}

validateEndpoint(s) ==
    /\ validateEndpointURL(s.url)
    /\ s.timeout > 0 /\ 1024 <= s.maxResponseSize /\ s.maxResponseSize <= 10485760

validateRequestedValidity(s) ==
    \/ s.requestedValidity \in {"absent", "Omit"}
    \/ s.requestedValidity = "Duration" /\ (s.initialEnrollment = "IR" \/ renewalOperation(s) = "KUR")

\* Mutant of validateRenewalFallback: an omitted renewal is not derived.
fallbackNeedsRenewal(s) ==
    \/ s.renewalFallback \in {"absent", "None"}
    \/ s.renewalFallback = "InitialEnrollment" /\ s.renewal = "KUR"

validateRenewalFallback(s) ==
    \/ s.renewalFallback \in {"absent", "None"}
    \/ s.renewalFallback = "InitialEnrollment" /\ renewalOperation(s) = "KUR"

\* The digest as a hash, and 0 for the one of the key.
signatureDigest(value) ==
    CASE value = "absent" -> 0 [] value = "SHA256" -> 256 [] value = "SHA384" -> 384
      [] value = "SHA512" -> 512 [] OTHER -> -1

validateSignatureDigest(s) == signatureDigest(s.signatureDigest) # -1

validateProtocol(s) ==
    /\ s.version = 2
    /\ s.initialEnrollment \in {"P10CR", "IR"}
    /\ s.certProfile = "absent"
    /\ s.renewal \in {"absent", "P10CR", "KUR"}
    /\ validateRequestedValidity(s) /\ validateRenewalFallback(s) /\ validateSignatureDigest(s)
    /\ s.validationProfile \in {"absent", "Interoperable", "RFC9483"}
    /\ s.kurResponseCaPubs \in {"absent", "Accept", "RequireAbsent"}
    /\ s.recipient # "absent" /\ s.confirmation \in {"Explicit", "Implicit"}
    /\ s.p10crResponseCertReqId \in {{}, {-1}, {0}}
    /\ s.macResponseProtection \in {"absent", "Strict", "AllowSignature"}
    /\ s.validationProfile = "RFC9483" =>
         /\ s.p10crResponseCertReqId \in {{}, {-1}}
         /\ s.macResponseProtection \in {"absent", "Strict"}
         /\ s.kurResponseCaPubs # "Accept"

\* Mutant of passwordBasedMacAlgorithms: the lengths are not compared.
macAlgorithmsKnown(owf, mac) == owf \in {256, 384, 512} /\ mac \in {256, 384, 512}

passwordBasedMacAlgorithms(owf, mac) ==
    owf \in {256, 384, 512} /\ mac \in {256, 384, 512} /\ mac <= owf

validateProtection(s) ==
    \/ /\ s.type = "PasswordBasedMac" /\ s.pbm /\ ~s.signature
       /\ s.separateKeys
       /\ passwordBasedMacAlgorithms(s.owf, s.mac)
       /\ 100 <= s.iterationCount /\ s.iterationCount <= 1048575
    \/ /\ s.type = "Signature" /\ s.signature /\ ~s.pbm
       /\ s.separateKeys

UsesHTTPS(s) == "https" \in s.url \cup s.renewalUrl

validateTransport(s) == ~s.tlsClient /\ (s.tlsCA => UsesHTTPS(s))

validateTransactionAndPolicy(s) ==
    /\ validateTransaction(s.transaction)
    /\ s.grantedModifications \in {"absent", "Reject", "Accept"}

validateSpec(s) ==
    /\ validateEndpoint(s) /\ validateProtocol(s) /\ validateProtection(s)
    /\ s.renewalUrl # {} => validateEndpointURL(s.renewalUrl)
    /\ validateTransport(s) /\ validateTransactionAndPolicy(s)

\* loadRuntimeConfiguration succeeds when the Secrets are in order: what is not
\* checked before the Secrets are read.
Loads(s) ==
    /\ validateSpec(s)
    /\ s.references /\ s.signerCertificates # "partial"
    /\ s.recipient \in DN /\ s.sender \in DN \cup {"absent"}

-----------------------------------------------------------------------------
(* The request that loadRuntimeConfiguration and Sign make of a spec. *)

EndpointURL(s, operation) ==
    IF operation = "KUR" /\ s.renewalUrl # {} THEN s.renewalUrl ELSE s.url

\* The response identifiers accepted: the pinned one, the one of the profile, or
\* both.
responseCertReqID(s) ==
    IF s.p10crResponseCertReqId # {} THEN s.p10crResponseCertReqId
    ELSE IF s.validationProfile = "RFC9483" THEN {-1} ELSE {-1, 0}

\* Mutant of requireKUPCAPubsAbsent: the profile does not count.
caPubsAbsentIfAsked(s) == s.kurResponseCaPubs = "RequireAbsent"

requireKUPCAPubsAbsent(s) ==
    s.validationProfile = "RFC9483" \/ s.kurResponseCaPubs = "RequireAbsent"

strictMACResponses(s) == s.validationProfile = "RFC9483" \/ s.macResponseProtection = "Strict"

\* pbmAlgorithms in client.go.
pbmAlgorithms(owf, mac) == {owf, mac} \subseteq {256, 384, 512} /\ mac <= owf

\* What validateEnrollmentRequest of the client finds.  A KUR is protected with
\* the workload's key instead of the issuer's credentials.
ClientFacts(s, operation) ==
    {f \in {"endpoint", "digest", "limits", "csrAndTrust", "oneProtection", "credentials"} :
        /\ f = "endpoint" => LET u == EndpointURL(s, operation)
                             IN  "host" \in u /\ {"http", "https"} \cap u # {}
        /\ f = "digest" => signatureDigest(s.signatureDigest) \in {0, 256, 384, 512}
        /\ f = "limits" => s.timeout > 0 /\ s.maxResponseSize > 0
        /\ f = "oneProtection" => operation = "KUR" \/ s.pbm # s.signature
        /\ f = "credentials" =>
             \/ operation = "KUR" \/ ~s.pbm
             \/ /\ 100 <= s.iterationCount /\ s.iterationCount <= 1048575
                /\ pbmAlgorithms(s.owf, s.mac)}

RequestFor(s, operation) ==
    [operation        |-> operation,
     protection       |-> IF operation = "KUR" \/ ~s.pbm THEN "signature" ELSE "mac",
     implicitConfirm  |-> s.confirmation = "Implicit",
     rejectMods       |-> s.grantedModifications # "Accept",
     allowSignedMAC   |-> ~strictMACResponses(s),
     iterationFloor   |-> strictMACResponses(s),
     certReqIDs       |-> responseCertReqID(s),
     caPubsAbsent     |-> requireKUPCAPubsAbsent(s),
     signerConfigured |-> s.signerCertificates = "full",
     hashAlg          |-> FALSE,
     facts            |-> ClientFacts(s, operation)]

\* Operations that selectedTransactionOperation may choose.
Operations(s) == {"P10CR", s.initialEnrollment, renewalOperation(s)}

-----------------------------------------------------------------------------
(* Properties. *)

\* The client never refuses what the controller loads: an issuer reported as
\* ready cannot fail every request before the first message, although client and
\* controller check the same things with code of their own
\* (loadRuntimeConfiguration, protocol.validateEnrollmentRequest).
LoadedIsSendable ==
    Loads(spec) =>
      \A operation \in Operations(spec) :
        LET q == RequestFor(spec, operation)
        IN  q \in Request /\ validateEnrollmentRequest(q)

\* The profile RFC9483 is as strict as its field says, whatever else is set
\* (validateProtocol, loadRuntimeConfiguration).
StrictProfile ==
    Loads(spec) /\ spec.validationProfile = "RFC9483" =>
      \A operation \in Operations(spec) :
        LET q == RequestFor(spec, operation)
        IN  /\ q.certReqIDs = {-1} /\ q.caPubsAbsent
            /\ ~q.allowSignedMAC /\ q.iterationFloor

\* What a schema cannot say or does not.
BeyondSchema(s) ==
    /\ validateEndpointURL(s.url) /\ (s.renewalUrl # {} => validateEndpointURL(s.renewalUrl))
    /\ s.timeout > 0 /\ validateTransaction(s.transaction)
    /\ s.separateKeys /\ s.certProfile = "absent" /\ s.recipient # "absent"
    /\ validateTransport(s)

\* What only the schema checks: the pattern of a URL, the length of a name, the
\* upper bound of polls, and references without a name or key.
SchemaOnly(s) ==
    \/ "pattern" \notin s.url \/ (s.renewalUrl # {} /\ "pattern" \notin s.renewalUrl)
    \/ {s.sender, s.recipient} \cap Long # {}
    \/ s.transaction.maximumPolls > 1000
    \/ ~s.references \/ s.signerCertificates = "partial"

\* Schema and controller agree but for what only one of them checks: apart from
\* what the schema leaves to the controller, an admitted issuer is accepted; and
\* the controller accepts nothing else that the schema rejects, as it might in an
\* object written without the schema (validateSpec, the markers of
\* common_types.go).
SchemaAgrees ==
    ~SchemaOnly(spec) => (validateSpec(spec) <=> Schema(spec) /\ BeyondSchema(spec))
=============================================================================
