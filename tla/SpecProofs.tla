----------------------------- MODULE SpecProofs -----------------------------
(***************************************************************************)
(* Controller, client and schema agree on every spec an issuer can have,   *)
(* whatever its fields hold.                                               *)
(***************************************************************************)
EXTENDS IssuerSpec, TLAPS

\* The fields that the proofs speak of, by name.
LEMMA FieldsTyped ==
  ASSUME NEW s, Typed(s)
  PROVE  /\ s.pbm \in BOOLEAN /\ s.signature \in BOOLEAN /\ s.separateKeys \in BOOLEAN
         /\ s.tlsCA \in BOOLEAN /\ s.tlsClient \in BOOLEAN /\ s.references \in BOOLEAN
         /\ s.timeout \in Int /\ s.maxResponseSize \in Int /\ s.iterationCount \in Int
         /\ s.owf \in Int /\ s.mac \in Int /\ s.transaction \in TransactionSpec(Int)
         /\ s.signerCertificates \in {"none", "partial", "full"}
  <1>1. s["pbm"] \in BOOLEAN /\ s["signature"] \in BOOLEAN /\ s["separateKeys"] \in BOOLEAN
        /\ s["tlsCA"] \in BOOLEAN /\ s["tlsClient"] \in BOOLEAN /\ s["references"] \in BOOLEAN
    BY DEF Typed, FieldType
  <1>2. s["timeout"] \in Int /\ s["maxResponseSize"] \in Int /\ s["iterationCount"] \in Int
        /\ s["owf"] \in Int /\ s["mac"] \in Int /\ s["transaction"] \in TransactionSpec(Int)
    BY DEF Typed, FieldType
  <1>3. s["signerCertificates"] \in {"none", "partial", "full"}
    BY DEF Typed, FieldType
  <1> QED BY <1>1, <1>2, <1>3

\* An edit keeps the types.
THEOREM SpecTyped == Spec => []Typed(spec)
  <1>1. Init => Typed(spec)
    BY SpecAssumption DEF Init
  <1>2. Typed(spec) /\ [Next]_vars => Typed(spec)'
    <2> SUFFICES ASSUME Typed(spec), Edit PROVE Typed(spec)'
      BY DEF Next, vars, Typed, FieldType
    <2>1. PICK f \in DOMAIN Choices : \E v \in Choices[f] : spec' = [spec EXCEPT ![f] = v]
      BY DEF Edit
    <2>2. PICK v \in Choices[f] : spec' = [spec EXCEPT ![f] = v]
      BY <2>1
    <2>3. f \in DOMAIN FieldType /\ v \in FieldType[f]
      BY SpecAssumption
    <2>4. DOMAIN spec' = DOMAIN FieldType
      BY <2>2 DEF Typed
    <2>5. \A g \in DOMAIN FieldType : spec'[g] \in FieldType[g]
      BY <2>2, <2>3 DEF Typed
    <2> QED BY <2>4, <2>5 DEF Typed, FieldType
  <1> QED BY <1>1, <1>2, PTL DEF Spec

\* The client sends whatever the controller loads.
LEMMA LoadsSendable ==
  ASSUME NEW s, Typed(s), Loads(s), NEW operation \in Operations(s)
  PROVE  /\ RequestFor(s, operation) \in Request
         /\ validateEnrollmentRequest(RequestFor(s, operation))
  <1>1. /\ validateEndpoint(s) /\ validateProtocol(s) /\ validateProtection(s)
        /\ s.renewalUrl # {} => validateEndpointURL(s.renewalUrl)
    BY DEF Loads, validateSpec
  <1>2. s.pbm \in BOOLEAN /\ s.signature \in BOOLEAN /\ s.owf \in Int /\ s.mac \in Int
        /\ s.timeout \in Int /\ s.maxResponseSize \in Int
    BY FieldsTyped
  <1>3. operation \in {"P10CR", "IR", "KUR"}
    BY <1>1 DEF Operations, validateProtocol, renewalOperation
  <1>4. responseCertReqID(s) \in {{-1}, {0}, {-1, 0}}
    BY <1>1 DEF validateProtocol, responseCertReqID
  <1>5. LET u == EndpointURL(s, operation)
        IN  "host" \in u /\ {"http", "https"} \cap u # {}
    BY <1>1, SMT DEF EndpointURL, validateEndpoint, validateEndpointURL
  <1>6. signatureDigest(s.signatureDigest) \in {0, 256, 384, 512}
    BY <1>1 DEF validateProtocol, validateSignatureDigest, signatureDigest
  <1>7. s.timeout > 0 /\ s.maxResponseSize > 0
    BY <1>1, <1>2, SMT DEF validateEndpoint
  <1>8. s.pbm # s.signature
    BY <1>1, <1>2, SMT DEF validateProtection
  <1>9. \/ ~s.pbm
        \/ /\ 100 <= s.iterationCount /\ s.iterationCount <= 1048575
           /\ pbmAlgorithms(s.owf, s.mac)
    BY <1>1, SMT DEF validateProtection, passwordBasedMacAlgorithms, pbmAlgorithms
  <1>10. ClientFacts(s, operation) =
           {"endpoint", "digest", "limits", "csrAndTrust", "oneProtection", "credentials"}
    BY <1>5, <1>6, <1>7, <1>8, <1>9, SMT DEF ClientFacts
  <1>11. validateEnrollmentRequest(RequestFor(s, operation))
    BY <1>10 DEF validateEnrollmentRequest, RequestFor
  <1>12. ClientFacts(s, operation) \in SUBSET Fact
    BY <1>10 DEF Fact
  <1>13. RequestFor(s, operation) \in Request
    BY <1>3, <1>4, <1>12, Zenon DEF RequestFor, Request, strictMACResponses, requireKUPCAPubsAbsent
  <1> QED BY <1>11, <1>13

\* An issuer that loads never fails a request before its first message, whatever
\* its spec holds (loadRuntimeConfiguration, protocol.validateEnrollmentRequest).
THEOREM LoadedIsSendableHolds == Spec => []LoadedIsSendable
  <1>1. Typed(spec) => LoadedIsSendable
    BY LoadsSendable DEF LoadedIsSendable
  <1> QED BY <1>1, SpecTyped, PTL

\* The profile RFC9483 is strict whatever else the spec holds (validateProtocol,
\* loadRuntimeConfiguration).
THEOREM StrictProfileHolds == Spec => []StrictProfile
  <1>1. StrictProfile
    <2> SUFFICES ASSUME Loads(spec), spec.validationProfile = "RFC9483",
                        NEW operation \in Operations(spec)
                 PROVE  LET q == RequestFor(spec, operation)
                        IN  /\ q.certReqIDs = {-1} /\ q.caPubsAbsent
                            /\ ~q.allowSignedMAC /\ q.iterationFloor
      BY DEF StrictProfile
    <2>1. validateProtocol(spec)
      BY DEF Loads, validateSpec
    <2>2. responseCertReqID(spec) = {-1}
      BY <2>1 DEF validateProtocol, responseCertReqID
    <2>3. requireKUPCAPubsAbsent(spec) /\ strictMACResponses(spec)
      BY DEF requireKUPCAPubsAbsent, strictMACResponses
    <2> QED BY <2>2, <2>3 DEF RequestFor
  <1> QED BY <1>1, PTL

-----------------------------------------------------------------------------
(* The schema. *)

\* The enumerations, field by field.
LEMMA EnumByField ==
  ASSUME NEW s
  PROVE  EnumSchema(s) <=>
           /\ s.version \in {2} /\ s.initialEnrollment \in {"P10CR", "IR"}
           /\ s.renewal \in {"absent", "P10CR", "KUR"}
           /\ s.requestedValidity \in {"absent", "Omit", "Duration"}
           /\ s.renewalFallback \in {"absent", "None", "InitialEnrollment"}
           /\ s.validationProfile \in {"absent", "Interoperable", "RFC9483"}
           /\ s.kurResponseCaPubs \in {"absent", "Accept", "RequireAbsent"}
           /\ s.p10crResponseCertReqId \in {{}, {-1}, {0}}
           /\ s.macResponseProtection \in {"absent", "Strict", "AllowSignature"}
           /\ s.signatureDigest \in {"absent", "SHA256", "SHA384", "SHA512"}
           /\ s.confirmation \in {"Explicit", "Implicit"}
           /\ s.grantedModifications \in {"absent", "Reject", "Accept"}
  <1> DEFINE Allowed(f) == s[f] \in Enum[f] \/ (f \in DOMAIN Absent /\ s[f] = Absent[f])
  <1>1. DOMAIN Enum = {"version", "initialEnrollment", "renewal", "requestedValidity",
          "renewalFallback", "validationProfile", "kurResponseCaPubs", "p10crResponseCertReqId",
          "macResponseProtection", "signatureDigest", "confirmation", "grantedModifications"}
    BY DEF Enum
  <1>2. EnumSchema(s) <=>
          /\ Allowed("version") /\ Allowed("initialEnrollment") /\ Allowed("renewal")
          /\ Allowed("requestedValidity") /\ Allowed("renewalFallback")
          /\ Allowed("validationProfile") /\ Allowed("kurResponseCaPubs")
          /\ Allowed("p10crResponseCertReqId") /\ Allowed("macResponseProtection")
          /\ Allowed("signatureDigest") /\ Allowed("confirmation")
          /\ Allowed("grantedModifications")
    <2>1. EnumSchema(s) <=> \A f \in DOMAIN Enum : Allowed(f)
      BY DEF EnumSchema
    <2> HIDE DEF Allowed
    <2> QED BY <1>1, <2>1, Zenon
  <1>3. /\ Allowed("version") <=> s.version \in {2}
        /\ Allowed("initialEnrollment") <=> s.initialEnrollment \in {"P10CR", "IR"}
        /\ Allowed("confirmation") <=> s.confirmation \in {"Explicit", "Implicit"}
    BY DEF Enum, Absent
  <1>4. /\ Allowed("renewal") <=> s.renewal \in {"absent", "P10CR", "KUR"}
        /\ Allowed("requestedValidity") <=> s.requestedValidity \in {"absent", "Omit", "Duration"}
        /\ Allowed("renewalFallback") <=>
             s.renewalFallback \in {"absent", "None", "InitialEnrollment"}
        /\ Allowed("validationProfile") <=>
             s.validationProfile \in {"absent", "Interoperable", "RFC9483"}
    BY DEF Enum, Absent
  <1>5. /\ Allowed("kurResponseCaPubs") <=>
             s.kurResponseCaPubs \in {"absent", "Accept", "RequireAbsent"}
        /\ Allowed("macResponseProtection") <=>
             s.macResponseProtection \in {"absent", "Strict", "AllowSignature"}
        /\ Allowed("signatureDigest") <=>
             s.signatureDigest \in {"absent", "SHA256", "SHA384", "SHA512"}
        /\ Allowed("grantedModifications") <=>
             s.grantedModifications \in {"absent", "Reject", "Accept"}
    BY DEF Enum, Absent
  <1>6. Allowed("p10crResponseCertReqId") <=> s.p10crResponseCertReqId \in {{}, {-1}, {0}}
    BY DEF Enum, Absent
  <1> HIDE DEF Allowed
  <1> QED BY <1>2, <1>3, <1>4, <1>5, <1>6

\* The controller accepts what the schema and the rest admit, and nothing else.
LEMMA SchemaIsValidation ==
  ASSUME NEW s, Typed(s), ~SchemaOnly(s)
  PROVE  validateSpec(s) <=> Schema(s) /\ BeyondSchema(s)
  <1>1. /\ s.pbm \in BOOLEAN /\ s.signature \in BOOLEAN /\ s.owf \in Int /\ s.mac \in Int
        /\ s.timeout \in Int /\ s.maxResponseSize \in Int /\ s.transaction \in TransactionSpec(Int)
    BY FieldsTyped
  <1>2. s.transaction.maximumPolls \in Int
    BY <1>1 DEF TransactionSpec
  <1>21. /\ "pattern" \in s.url /\ (s.renewalUrl # {} => "pattern" \in s.renewalUrl)
         /\ {s.sender, s.recipient} \cap Long = {}
         /\ s.references /\ s.signerCertificates # "partial" /\ s.transaction.maximumPolls <= 1000
    <2>1. ~(s.transaction.maximumPolls > 1000)
      BY DEF SchemaOnly
    <2>2. s.transaction.maximumPolls <= 1000
      BY <1>2, <2>1, SMT
    <2>3. "pattern" \in s.url /\ (s.renewalUrl # {} => "pattern" \in s.renewalUrl)
      BY Zenon DEF SchemaOnly
    <2>4. {s.sender, s.recipient} \cap Long = {}
      BY Zenon DEF SchemaOnly
    <2>5. s.references /\ s.signerCertificates # "partial"
      BY Zenon DEF SchemaOnly
    <2> QED BY <2>2, <2>3, <2>4, <2>5, Zenon
  <1>3. ASSUME validateSpec(s) PROVE Schema(s) /\ BeyondSchema(s)
    <2>1. EnumSchema(s)
      BY <1>3, EnumByField, SMT DEF validateSpec, validateProtocol, validateRequestedValidity,
           validateRenewalFallback, validateSignatureDigest, signatureDigest,
           validateTransactionAndPolicy
    <2>2. ValueSchema(s)
      <3>1. 1024 <= s.maxResponseSize /\ s.maxResponseSize <= 10485760
        BY <1>3, SMT DEF validateSpec, validateEndpoint
      <3>2. \/ s.transaction = OmittedLimits
            \/ 1 <= s.transaction.maximumPolls /\ s.transaction.maximumPolls <= 1000
        BY <1>2, <1>21, <1>3, SMT DEF validateSpec, validateTransactionAndPolicy, validateTransaction
      <3>3. s.pbm => 100 <= s.iterationCount /\ s.iterationCount <= 1048575
        BY <1>3, SMT DEF validateSpec, validateProtection
      <3>4. {s.certProfile, s.sender, s.recipient} \cap Long = {}
        <4>1. s.certProfile = "absent"
          BY <1>3 DEF validateSpec, validateProtocol
        <4> QED BY <1>21, <4>1 DEF Long
      <3> QED BY <1>21, <3>1, <3>2, <3>3, <3>4, SMT DEF ValueSchema
    <2>3. ProtocolRules(s)
      BY <1>3, SMT DEF validateSpec, validateProtocol, validateRequestedValidity,
           validateRenewalFallback, renewalOperation, ProtocolRules
    <2>4. ProtectionRules(s)
      BY <1>1, <1>3, SMT DEF validateSpec, validateProtection, passwordBasedMacAlgorithms,
           ProtectionRules
    <2>5. BeyondSchema(s)
      BY <1>3, SMT DEF validateSpec, validateEndpoint, validateProtocol, validateProtection,
           validateTransactionAndPolicy, BeyondSchema
    <2> QED BY <2>1, <2>2, <2>3, <2>4, <2>5 DEF Schema
  <1>4. ASSUME Schema(s), BeyondSchema(s) PROVE validateSpec(s)
    <2>1. validateEndpoint(s)
      BY <1>4, SMT DEF Schema, ValueSchema, BeyondSchema, validateEndpoint
    <2>2. validateProtocol(s)
      <3>1. validateSignatureDigest(s)
        BY <1>4, EnumByField, SMT DEF Schema, validateSignatureDigest, signatureDigest
      <3>2. validateRequestedValidity(s) /\ validateRenewalFallback(s)
        BY <1>4, EnumByField, SMT DEF Schema, ProtocolRules, validateRequestedValidity,
             validateRenewalFallback, renewalOperation
      <3> QED BY <1>4, <3>1, <3>2, EnumByField, SMT DEF Schema, ProtocolRules, BeyondSchema,
                 validateProtocol
    <2>3. validateProtection(s)
      <3>1. /\ s.type \in {"PasswordBasedMac", "Signature"}
            /\ s.pbm = (s.type = "PasswordBasedMac") /\ s.signature = (s.type = "Signature")
            /\ s.separateKeys
        BY <1>4, ZenonT(40) DEF Schema, ProtectionRules, BeyondSchema
      <3>2. s.pbm => /\ 100 <= s.iterationCount /\ s.iterationCount <= 1048575
                     /\ passwordBasedMacAlgorithms(s.owf, s.mac)
        <4> SUFFICES ASSUME s.pbm PROVE /\ 100 <= s.iterationCount /\ s.iterationCount <= 1048575
                                        /\ passwordBasedMacAlgorithms(s.owf, s.mac)
          OBVIOUS
        <4>1. 100 <= s.iterationCount /\ s.iterationCount <= 1048575
          BY <1>4, SMT DEF Schema, ValueSchema
        <4>2. /\ s.owf \in {256, 384, 512} /\ s.mac \in {256, 384, 512}
              /\ s.mac = 256 \/ s.owf = 512 \/ (s.owf = 384 /\ s.mac = 384)
          BY <1>4, SMT DEF Schema, ProtectionRules
        <4>3. passwordBasedMacAlgorithms(s.owf, s.mac)
          BY <4>2, SMT DEF passwordBasedMacAlgorithms
        <4> QED BY <4>1, <4>3, SMT
      <3>3. CASE s.type = "PasswordBasedMac"
        <4>1. s.pbm /\ ~s.signature
          BY <3>1, <3>3
        <4> QED BY <3>1, <3>2, <3>3, <4>1, SMT DEF validateProtection
      <3>4. CASE s.type = "Signature"
        <4>1. ~s.pbm /\ s.signature
          BY <3>1, <3>4
        <4> QED BY <3>1, <3>4, <4>1, SMT DEF validateProtection
      <3> QED BY <3>1, <3>3, <3>4
    <2>4. validateTransport(s) /\ (s.renewalUrl # {} => validateEndpointURL(s.renewalUrl))
      BY <1>4 DEF BeyondSchema
    <2>5. validateTransactionAndPolicy(s)
      BY <1>4, EnumByField, SMT DEF Schema, BeyondSchema, validateTransactionAndPolicy
    <2> QED BY <2>1, <2>2, <2>3, <2>4, <2>5 DEF validateSpec
  <1> QED BY <1>3, <1>4

\* Schema and controller agree on every spec, but for what only one of them checks
\* (validateSpec, the markers of common_types.go).
THEOREM SchemaAgreesHolds == Spec => []SchemaAgrees
  <1>1. Typed(spec) => SchemaAgrees
    BY SchemaIsValidation DEF SchemaAgrees
  <1> QED BY <1>1, SpecTyped, PTL
=============================================================================
