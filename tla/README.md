# A formal model of cmp-issuer

cmp-issuer is a cert-manager external issuer: it turns an approved
`CertificateRequest` into a CMP enrollment (P10CR, IR or KUR), polls a server
that answers later, confirms the certificate and returns the chain. One
enrollment outlives many calls of `Sign`, controller restarts and edits of its
own configuration, while a `CMPTransaction` record in the Kubernetes API server
is the only memory. This directory holds TLA+ modules for the system, TLC runs
that check them on small instances, and proofs checked by TLAPS for every
instance.

Paths below are relative to `src/`.

## The system and its parts

| Part | Source | Modules |
| --- | --- | --- |
| `CMPTransaction` resource | `api/v1alpha1/cmptransaction_types.go` | `CMPTransaction` |
| transaction store | `internal/controller/transaction_store.go` | `TransactionStore`, `Signer` |
| signer: record, exchanges, outcomes | `internal/controller/signer.go` | `Signer`, abstractly `Issuance` and `Enrollment` |
| signer: deadline, poll limit, delays, validity | `internal/controller/signer.go` | `Timing`, `Limits` |
| signer: `Check`, readiness | `internal/controller/signer.go` | `Configuration` |
| runtime configuration | `internal/controller/configuration.go` | `Configuration`, `IssuerSpec`, `Limits` |
| issuer resources | `api/v1alpha1/common_types.go` | `IssuerSpec` |
| workload keys, renewal fallback | `internal/controller/kur.go`, `renewal_fallback.go` | `WorkloadKeys` |
| protocol client | `internal/protocol/client.go`, `types.go`, `ir.go`, `kur.go` | `CMPMessages`, `ProtocolClient`, abstractly `Enrollment` |
| distinguished names | `internal/protocol/parse.go` | `DistinguishedNames` |
| CMP server and network | outside the repository | `CMPAnswers`, `CMPServer`, actions of `ProtocolClient` |
| issuer-lib, caches, users, cert-manager, garbage collector | outside the repository | actions of `Signer`, `Configuration`, `WorkloadKeys`, `Timing` |

The request controller of issuer-lib calls `Sign` for a request that its cache
shows as pending. `Sign` loads the record, resumes or creates a transaction,
reads the configuration and the workload keys, exchanges one or two messages
with the server, writes the record and returns a chain, a permanent error, a
pending error, an issuer error or any other error. issuer-lib writes that
outcome to the request, and calls `Check` to decide whether an issuer is ready.

`Signer` composes the record, the store, the server and the workers. The other
modules each open up one thing that `Signer` treats as a choice: what an answer
may be and when it is accepted (`ProtocolClient`), which configuration and keys
are loaded (`Configuration`, `WorkloadKeys`), when things happen (`Timing`), and
which issuers exist at all (`IssuerSpec`).

## Modules

**`CMPTransaction`** declares the bounds and the record. One namespace and name
is modelled: requests with different names never share a record. The random
transaction ID and the object's UID are both fresh per object, so the field `id`
stands for both. The CSR digest is left out because the spec of a
`CertificateRequest` cannot change: equal UIDs have equal CSRs. `Issuer[v]` is
the v-th version of the issuer, with the UID, generation, selected operation and
renewal fallback that a transaction is bound to.

**`TransactionStore`** is the API server's view of the record (`store`), the next
fresh identity (`nextTxn`) and the identities that were deleted (`closed`).
`CreateObject` succeeds only when the name is free, `UpdateStatus` only when the
caller's copy has the current resourceVersion, and `DeleteObject` removes the
object only when its UID is the one that was read (`deletePreconditions`).
`recordEnrolling`, `recordPending`, `recordConfirming` and `recordIssued` are the
statuses that the store functions of the same names write.

**`CMPAnswers`** says how a server may answer in one transaction: wait, issue with
or without implicit confirmation, repeat or issue again on a repeated request,
hand a final certificate out again, delay or give `pkiConf`, accept a refusal, or
fail. **`CMPServer`** keeps the server's state per transaction ID and the set
`late` of requests whose client gave up and that are still under way.

**`Signer`** composes both with the workers and the environment. A worker is one
controller process. Each API call and each CMP exchange of `Sign` is a step of
its own, and the computation between two calls belongs to the step before it:

| Action | Code |
| --- | --- |
| `Sign` | the call, up to `selectedTransactionOperation` |
| `Load`, `Resume`, `DropStale` | `transactionStore.load`, `validateResumedTransaction`, the phase and generation checks |
| `Recover` | `recoverIssuedChain` |
| `ConfigureNew`, `ConfigureResumed` | `loadRuntimeConfiguration`, `selectRenewalFallback`, `prepareWorkloadKeyEnrollment`, the digest check, `resumeConfirmation` |
| `Create`, `Save` | `transactionStore.create`, and the status update of every record function |
| `Exchange`, `Confirm` | the limits of `exchange` and `confirm`, and the send |
| `Answered`, `Refuse`, `NoAnswer` | the answer is accepted, refused by the client, or never comes |
| `Remove` | the delete inside `failTransaction` |
| `Report` | issuer-lib writes the outcome, or fails to |
| `Crash` | the process stops anywhere and restarts with a fresh cache; a standby that takes over with the cache it has is another worker |
| `Informer`, `ServeLate`, `Expire`, `ChangeIssuer`, `RotateSecrets`, `DeleteRequest`, `CreateRequest`, `CollectGarbage` | caches, network, time, users, Kubernetes |

Every API call may succeed, fail without effect, or fail after it took effect.
Whether a recorded chain still verifies against the current trust is a free
choice each time it is checked, because Secrets change and certificates expire.
`sent`, `confSent` and `closed` are history variables that no action reads.

**`Issuance`** is what `Signer` promises: a transaction speaks for one request,
at most one certificate of it is confirmed, and a request is issued only with a
certificate confirmed in a transaction of its own. The refinement mapping takes
the pairs of transaction and request from `sent` and the confirmed certificates
from the server.

**`Enrollment`** is what one CMP transaction promises to whoever runs it, with the
server of `CMPAnswers` and without messages, nonces, records or processes: the
caller only moves forward from enrolling over polling and confirming to issued,
it holds a certificate before the server is asked to confirm it, and it ends with
that certificate once it is final. It is implemented twice. In `ProtocolClient`
the caller is the one that keeps a `PendingTransaction` between calls; in
`Signer` it is the record in the API server, once for every transaction, where a
deleted record is a closed transaction. The two modules describe one protocol at
different grains, and that both implement `Enrollment` is what ties them.

**`CMPMessages`** holds the pure decisions of the client: which requests it
agrees to send, `sendCMP`'s classification of an HTTP answer, `verifyResponse`
with `acceptableRecipNonce` and `senderMatchesRecipient`, `classifyStatus`,
`extractEnrollmentResponse`, `finishTransaction`, `extractPollRep` and
`confirmationDelay`. Cryptography is symbolic: an answer has an author, a MAC can
only come from the authority that shares the secret, a signature only from its
author.

**`ProtocolClient`** is one transaction message by message. `EnrollP10CR`,
`EnrollIR`, `EnrollKUR`, `PollP10CR` and `ConfirmP10CR` are called in turn by a
caller that keeps the `PendingTransaction` one call hands to the next, repeats
what failed retryably, and may lose an outcome. A scenario says which requests
are sent, which certificates are issued, in which ways answers may deviate,
whether old answers come again and how many messages may be late. A message whose
call gave it up, at a timeout, at a crash or because an older answer was taken, was
served, is lost, or stays under way (`late`) and reaches the server whenever it
likes, also in the middle of a later exchange (`ArrivesLate`). The history variable
`overtaken` notes that one of them got another certificate issued.

**`WorkloadKeys`** models what IR and KUR take from the workload: the operation,
the owning Certificate, the current and the staged Secret, read one after
another while cert-manager stages, rotates and reissues and users edit; the
fallback of a renewal; and the fingerprints that bind a transaction to the keys. A
fingerprint is the name of the Secret and the data used; the UID of a Secret that
is deleted and written again, which only makes the code give up more often, is left
out. What `ValidateKURRequest` asks of the current certificate besides its key and
expiry is in `CMPMessages`.

**`Configuration`** models the reads of a configuration from Secrets with the
cache of one load, the digest, permanent and retryable failures, and the Ready
condition. A load of `Check` and one of `Sign` run at the same time, and every
read is a step.

**`Limits`** has the pure arithmetic of limits, defaults and poll delays, and
**`Timing`** puts one transaction on a clock: deadline, poll limit, requeue
delays, slow queues, whole-second times in the API server, durations that wrap
around, and the validity an enrollment asks for. A refused certificate costs a
second exchange while the record is still there (`Refuse`). `Outage` is every
interruption in which `Sign` does not get as far as the deadline check: the
controller is down, or the configuration, the workload's objects or the record
cannot be read or written.

**`IssuerSpec`** states the schema of the custom resource (its markers and
rules), the controller's validation and the request that a valid spec becomes,
for a spec of thirty fields. `FieldType` has what Go's types let each field hold.
An omitted string is the word `absent`, and so is an explicitly empty one, which the
controller does not tell apart. A URL is the set of facts that the pattern of the
schema and `url.Parse` look at; a name parses or not and is too long for the schema
or not.

**`DistinguishedNames`** splits, unescapes and compares names, character by
character, because its property is about exactly that.

The `MC` modules give the instances of the runs their values. The theorems about
`Signer` are in `SignerProofs` (types), `SafetyProofs` and `RecordProofs`, each
of which extends the one before; those about the other components are in
`ProtocolProofs`, `WorkloadProofs`, `ConfigurationProofs`, `TimingProofs` and
`SpecProofs`. An operator whose comment begins with "Mutant of" is a plausible
bug of the definition that follows it; it is used by no specification and shows
that a property can fail.

## Runs

| Run | Question | Properties |
| --- | --- | --- |
| `Recovery` | one process: crashes anywhere, failed calls, lost and late requests, delayed answers, the poll limit, two certificates under one ID | `TypeOK`, `IssuedIsConfirmed`, `PollsOnlyASentCertConf`, `FreshCertConfWithinBudget`, `Settles`, `ImplementsEnrollment` |
| `Succession` | the request is deleted and created again with stale caches, or the issuer is edited, recreated and made unusable and a Secret rotated | `LiveTransactionNotDropped`, `OneOriginPerTransaction`, `ImplementsIssuance` |
| `Replicas` | two processes, as around a change of leader | `OneOpenTransaction`, `ClosedForGood`, `DurableBeforeCertConf`, `RecordAdvances`, `ImplementsEnrollment` |
| `Protocol` | the client against an orderly server while messages arrive late, one that issues anew while old answers come again, and one that deviates in every way the client looks for | `TypeOK`, `FailsOnlyForCause`, `ConfirmedAtServer`, `PollsDelayedConfirmation`, `ConfirmsLastIssued`, `AcceptedFromAuthority`, `RefusedNeverConfirmed`, `ImplementsEnrollment` |
| `Workload` | keys and certificates change between any two reads, and requests only claim to belong to the Certificate | `TypeOK`, `OneProofPerTransaction`, `FallbackJustified`, `NoDeadEnd`, `CredentialsChanged`, `KeysBelongToCertificate` |
| `Timing` | limits, waits of every size, refusals, an outage or restart, slow queues | `TypeOK`, `EndsInTime`, `PollInterval`, `NotAfterKept`, `TransactionEnds` |
| `Specs` | up to three fields of two issuers changed | `LoadedIsSendable`, `StrictProfile`, `SchemaAgrees` |
| `Configuration` | Secrets and issuer change between any two reads of two loads | `SameDigestSameData`, `VerdictFitsSpec`, `ReadinessFollows` |
| `Names` | names printed in either direction, with or without spaces | `Recognized` |

All of these pass. The properties, in words:

- `IssuedIsConfirmed`: a request reported as issued holds a certificate that the
  server considers confirmed, from a transaction of that request.
- `PollsOnlyASentCertConf`: a recorded confirmation is polled for only when its
  certConf was sent, although one field keeps two kinds of nonce.
- `FreshCertConfWithinBudget`: a certificate that arrives with the last poll can
  still be confirmed.
- `Settles`: a pending request does not stay pending, even if the server never
  answers (liveness).
- `LiveTransactionNotDropped`: the delete inside `load` never hits the
  transaction of the live request.
- `OneOriginPerTransaction`: all messages of a transaction speak for one request,
  one issuer version and one set of Secrets.
- `ImplementsIssuance`: `Signer` implements `Issuance`.
- `OneOpenTransaction`: a transaction a message was sent for is the recorded one,
  or was deleted under its own identity; nothing hides an open transaction.
- `ClosedForGood`: a transaction whose record was deleted is never recorded again,
  whoever deleted it and whatever copies are left.
- `ImplementsEnrollment`: the calls of `ProtocolClient`, and every record of
  `Signer`, implement `Enrollment`.
- `DurableBeforeCertConf`: while a transaction whose certConf was sent is not
  deleted, its record holds the chain.
- `RecordAdvances`: a write never changes the bindings of a record, moves its
  phase or poll count back, or replaces its chain.
- `FailsOnlyForCause`: delays, busy answers, lost answers and repeated calls never
  fail a transaction, nor do late messages, unless one takes the place of the
  message that the server delays.
- `ConfirmedAtServer`: what the client reports as confirmed is confirmed at the
  server, and no other certificate is.
- `PollsDelayedConfirmation`: a confirmation is asked for only after the server
  took the certConf.
- `ConfirmsLastIssued`: a certConf or a rejection names the certificate the server
  issued last, unless a late enrollment got another one in the meantime. Then the
  client cannot know, and what it reports as confirmed is still right
  (`ConfirmedAtServer` has no such exception).
- `AcceptedFromAuthority`: an accepted answer was written by the addressed
  authority, with a protection the issuer allows.
- `RefusedNeverConfirmed`: a certificate that must be refused is never explicitly
  confirmed.
- `OneProofPerTransaction`: all messages of a transaction prove possession of one
  key and are protected with one certificate.
- `FallbackJustified`, `NoDeadEnd`: a renewal falls back only for a reason that
  held, and does not fail for want of a certificate that was missing or expired all
  along where it may fall back. A certificate that was usable when the fallback was
  decided and gone when the keys were loaded, or that goes while the transaction is
  open, does fail the renewal (`internal/controller/kur.go:165`).
- `CredentialsChanged`: a metadata write does not give a transaction up.
- `KeysBelongToCertificate`: no message uses a key that is not the Certificate's.
- `EndsInTime`, `PollInterval`, `NotAfterKept`, `TransactionEnds`: a transaction
  ends; its record outlives the deadline, or an outage that goes on beyond it, by no
  more than one exchange, one delay or refusal, and the latency of the queue; polls
  keep their distance; a repeated enrollment asks for the validity asked for first.
  `PollInterval` relies on the work queue calling `Sign` when it was asked to: what
  calls it earlier counts as an outage.
- `LoadedIsSendable`: the client never refuses what the controller loads.
- `StrictProfile`: no field weakens the profile RFC9483.
- `SchemaAgrees`: schema and controller accept the same specs, but for what only
  one of them checks. `BeyondSchema` lists what only the controller checks,
  `SchemaOnly` what only the schema does: the pattern of a URL, the length of a
  name, the upper bound of polls, and references without a name or key.
- `SameDigestSameData`: one configuration digest means one set of values.
- `VerdictFitsSpec`: the Ready condition is about the spec of the generation it
  names: a ready one is in order, and one that `Check` gave up for good is not,
  whatever the Secrets held.
- `ReadinessFollows`: an issuer becomes ready once it is in order, whatever was
  repaired in whichever order, and does not stay ready while it is broken and
  needed (liveness).
- `Recognized`: a name that a tool prints matches the sender it stands for.

`LiveTransactionNotDropped` is a property of one active process. With two, a
process that began `Sign` for a deleted request can load the record the other
one wrote for the successor and delete it, since the delete is bound to the
object and not to the request; TLC finds this when `Succession` gets a second
worker. Leader election, on by default in `cmd/main.go`, rules it out for processes
that overlap. It does not rule out a standby that takes over with a cache behind the
one of its predecessor, so the property also relies on the cache of a new leader
being no older than the record; a restarted process, which reads its cache anew, has
that.
Even then the deleted transaction stays closed (`ClosedForGood`): the process
that wrote it cannot write its copy back.

TLC cannot check a conjunction of specifications over a parameter, so
`ImplementsEnrollment` of `Signer` is written out: every transaction begins as
`Enrollment` begins, and every step of the system is for each transaction a step
of `Enrollment` or changes nothing of it.

### Bounds

Every bound is a constant. For `Signer` they are requests (`MaxUid`), records
(`MaxTxn`), certificates per ID (`MaxCert`), rotations (`MaxRotation`), the poll
limit (`MaximumPolls`), late requests (`MaxLate`), issuer versions (`MaxVersion`)
and `Worker`. Two requests and two records are enough for one to be taken for the
other, two processes for one to hold an old copy, a poll limit of two for a count
below, at and beyond the first poll, two certificates for one to replace another,
and four issuer versions for an edit, a recreation at a generation already used
and an edit that selects no operation.

Three safety runs have a `CONSTRAINT` that keeps two dimensions from growing at
once. `OneSuccession` lets either requests and transactions follow one another or
configurations, `TwoOrConfirmed` lets either two transactions follow one another
or one go on to its confirmation, and `ThreeRequestsOrTwoEdits` does the same for
requests and edits of workload objects. All properties of these runs are also
proved below, without such a limit. No run with a liveness property has a
constraint.

`Protocol` bounds messages by scenario: five for the orderly server, enough for a
delayed certificate and a delayed confirmation with a repeated call, or for a late
enrollment to overtake a confirmation; four where old answers come again; three
where answers deviate in one of 23 ways. One message may be late at a time where the
server is orderly or old answers come again.
`Workload` has three requests in a row (initial, renewal, renewal of a renewal).
`Timing` tries all limits from 0 to 2 and a longer one, in ticks of half a second,
with waits of nothing, one second, one beyond the maximum interval and one that
wraps around, and one outage that is short or outlasts the deadline. `Specs` changes up to three fields because a rule of the schema
relates at most three. `Names` has two attributes with values of up to three of
the characters that matter: a letter, comma, backslash, space and equals sign.

Runs set `CHECK_DEADLOCK FALSE` because the systems stop once the request has
settled or the bounds are used up. In `Replicas` the workers are interchangeable
and TLC uses that symmetry.

### Fairness

- `Signer`: weak fairness of each worker's steps and of the informers, because
  controller and caches keep running; strong fairness of a successful write of an
  outcome, because issuer-lib retries it; weak fairness of the deadline passing.
  Crashes and configuration failures do not go on for ever: while they last, a
  request is meant to stay pending. `Recovery` has a P10CR; an IR or KUR whose
  workload keys cannot be read stays pending in the same way, since `Sign` returns
  before it looks at the deadline. Nothing is assumed of the server, and any
  other API call may always fail.
- `Timing`: the work queue starts `Sign` when it is due, `Sign` goes on, the HTTP
  client gives up at its timeout, and time passes. The server may delay or be
  busy for ever. The number of outages is bounded.
- `Configuration`: the queues of issuer-lib go on and reads of Secrets do not fail
  for ever. Users may do anything; the property is conditional on what they leave
  behind.

### Where documentation and code differ

Three runs end in a counterexample.

| Run | Sentence | What the code does |
| --- | --- | --- |
| `ProtocolClaim` | "extractEnrollmentResponse validates a CP, IP or KUP and returns the issued certificate with its candidates" (`internal/protocol/client.go:667`) | an error message whose status is accepted yields neither a certificate nor an error, and `finishTransaction` (line 251) goes on with a nil certificate |
| `ClaimRecovery` | "an issuer spec change after issuance does not block the recovery" (`internal/controller/signer.go:474`) | an edit that changes the operation removes the completed record (line 165) |
| `ClaimLongWait` | "Poll intervals honor the server `pollRep` hint clamped to the minimum and maximum" (`docs/guide/transaction-recovery.md:75`) | the wait of a pollRep is multiplied into a duration without a check (`client.go:300`), so a very long one overflows and is polled for at the minimum interval |

Smaller differences met while modelling, which the models follow the code in:

- "Polls counts the pollReq messages already sent" (`cmptransaction_types.go:158`):
  an unanswered pollReq is not counted.
- "A transaction that fails permanently is deleted"
  (`docs/guide/transaction-recovery.md:60`): a permanent workload key failure of
  a resumed transaction leaves the record.
- "an issued certificate is never enrolled twice" (`cmptransaction_types.go:180`):
  the record is removed before the failure is reported, so that a crash in
  between enrolls again.
- A restarted controller polls at once, since the time of the next poll is only
  in its work queue. `PollInterval` therefore speaks of messages with no restart
  between them.
- A repeated enrollment may ask for a notAfter that differs from the first by the
  time it took to create the record, which `NotAfterKept` allows for.
- A value that ends in an escaped space and a name with two common names are read
  differently from how they were printed; `Recognized` excludes both.

## Proofs

Every safety property that a passing run checks, with the one exception named at
the end, is also a theorem, for every value of the constants that satisfies the
assumptions of its module:

- `Signer`: `BoundsAssumption` and `IssuerAssumption` (the bounds are naturals,
  and issuer versions differ in UID or generation), for any set of workers.
- `ProtocolClient`: `ProtocolAssumption` (a scenario takes its requests, kinds of
  certificates and defects from the sets that define them). The number of
  scenarios, messages, late messages and certificates is arbitrary.
- `WorkloadKeys`: `WorkloadAssumption` (an issuer has the operations the schema
  allows, a request that is not cert-manager's may claim anything, and there is a
  key besides the one of somebody else).
- `Configuration`, `Timing`: `ConfigurationAssumption`, `NameAssumption` (no Secret
  has the empty name) and `TimingAssumption` (types, default limits that are positive and ordered, as the code's are, and
  a clock that runs for at least a second).
- `IssuerSpec`: `SpecAssumption`, which only gives each field its Go type. The
  specs that users begin with, the values they try and the number of edits are
  arbitrary, so the theorems speak of every spec, and not of three edits of two.

| Theorem | States | Inductive invariant |
| --- | --- | --- |
| `SignerProofs!TypeCorrect` | `Spec => []TypeOK` | `Typed` |
| `SignerProofs!OneOpenTransactionHolds` | `Spec => []OneOpenTransaction` | `OpenInv` |
| `SafetyProofs!IssuedIsConfirmedHolds` | `Spec => []IssuedIsConfirmed` | `TruthInv` |
| `SafetyProofs!OneOriginHolds` | `Spec => []OneOriginPerTransaction` | `BindInv` |
| `SafetyProofs!Refinement` | `Spec => ImplementsIssuance` | `TruthInv`, `BindInv`, `CurrentInv` |
| `RecordProofs!RecordAdvancesHolds` | `Spec => RecordAdvances` | `CopyInv` |
| `RecordProofs!DurableHolds` | `Spec => []DurableBeforeCertConf` | `CopyInv`, `OpenInv`, itself |
| `RecordProofs!ClosedForGoodHolds` | `Spec => []ClosedForGood` | `ClosedInv` |
| `RecordProofs!RecordsImplementEnrollment` | `Spec => ImplementsEnrollment` | `ServedInv`, `CopyInv`, `TruthInv`, `BindInv` |
| `RecordProofs!PollsOnlyASentCertConfHolds` | `Spec => []PollsOnlyASentCertConf` | `TallyInv` |
| `RecordProofs!FreshCertConfWithinBudgetHolds` | `Spec => []FreshCertConfWithinBudget` | `TallyInv` |
| `RecordProofs!LiveTransactionNotDroppedHolds` | `Spec => []LiveTransactionNotDropped`, for one worker | `DatedInv` |
| `ProtocolProofs!ClientTypeCorrect`, `...!FailsOnlyForCauseHolds`, `...!ConfirmedAtServerHolds`, `...!PollsDelayedConfirmationHolds`, `...!ConfirmsLastIssuedHolds`, `...!AcceptedFromAuthorityHolds`, `...!RefusedNeverConfirmedHolds` | `Spec => []P` for every invariant `P` of `Protocol` | `ClientInv` |
| `ProtocolProofs!ClientImplementsEnrollment` | `Spec => ImplementsEnrollment` | `ClientInv` |
| `WorkloadProofs!WorkloadTypeCorrect`, `...!OneProofPerTransactionHolds`, `...!KeysBelongToCertificateHolds`, `...!FallbackJustifiedHolds`, `...!NoDeadEndHolds`, `...!CredentialsChangedHolds` | `Spec => []P` for every invariant `P` of `Workload` | `WorkloadInv` |
| `ConfigurationProofs!DigestDetermines` | `Spec => []SameDigestSameData` | `DigestInv` |
| `ConfigurationProofs!VerdictHolds` | `Spec => []VerdictFitsSpec` | `DigestInv`, itself |
| `TimingProofs!EndsInTimeHolds` | `Spec => []EndsInTime` | `ClockInv` |
| `TimingProofs!PollIntervalHolds` | `Spec => []PollInterval` | `ClockInv`, `WaitInv` |
| `TimingProofs!TimingTypeCorrect`, `...!NotAfterKeptHolds` | `Spec => []TypeOK`, `Spec => []NotAfterKept` | `BoundsInv`, `AskedInv` |
| `SpecProofs!LoadedIsSendableHolds`, `...!StrictProfileHolds`, `...!SchemaAgreesHolds` | `Spec => []P` for every invariant `P` of `Specs` | `Typed(spec)` |

- `TypeOK` alone is not inductive: `Counted` adds one to a poll count, which stays
  within the limit only because a worker that waits for the answer to a poll
  passed the check before. `Typed` adds this, where a worker holds a created
  record, that its operation was selected, and that `exchange` is never reached
  in phase Confirming.
- `OpenInv` adds that what any worker holds is recorded or closed, so that
  whatever it sends is. No write to the store forgets an identity: create needs a
  free name, update keeps the identity, and a delete closes the one it names.
- `TruthInv` adds that every record in phase Issued, in the store or in a worker's
  hands, tells the truth, that a worker's record belongs to its own request, and
  that it returns a chain only with an Issued record. The server takes no
  confirmation back (`ConfirmedStable`), and the two answers that lead to
  `recordIssued` come with one (`AnswerConfirms`).
- `BindInv` says that there is one assignment of request, issuer version and
  Secrets to transactions with which every copy of a record and every message
  agrees. A fresh identity extends the assignment, and no status update disturbs
  it (`StatusKeepsBinding`).
- The refinement is proved step by step: a send is `Open` or a stutter, an answer
  `Confirm` or a stutter, a report `Issue`, `Fail` or a stutter. `BindInv` gives
  the guard of `Open`, `TruthInv` that of `Issue`; `CurrentInv` adds that no
  worker is ahead of the request and that a late message belongs to an opened
  transaction.
- `CopyInv` relates each worker's copy to the record: it is never newer, what it
  holds the record has reached, and a copy with the record's resourceVersion is
  the record itself or, where the worker is about to save, the record with one
  more step. Optimistic concurrency then makes every accepted update an advance
  (`UpdateAdvances`). A certConf is sent only from a copy in phase Confirming with
  a chain, so the record has both.
- `ClosedInv` adds that closed identities were handed out before, so that a create
  never takes one; an update keeps the identity of the record it finds.
- `ServedInv` says that a copy of a record, in the store or with a worker, knows no
  more than the server: a polled-for transaction has reached it, and a chain to be
  confirmed is one it issued. It also says that a confirmation still on its way is
  for the chain in the record, as long as that record exists. With it each step of
  `Signer` is a step of `Enrollment` for every transaction: a message that the
  server takes, early or late, is `Enroll`, `Confirm` or `Reject` (`ServeEnrolls`),
  an accepted update is `Wait`, `Hold`, `Obtain` or a stutter (`SaveEnrolls`), a
  delete is `Close`, and a create is a stutter (`StoreEnrolls`). `CopyInv` gives
  that an update never goes back and `TruthInv` that an issued record is final.
- `TallyInv` says of every copy of a record what the two properties of nonce and
  budget say of the stored one, that nothing is counted before the first answer,
  and that a worker in phase Confirming that waits for an answer has sent its
  certConf. A status update keeps it because `recordConfirming` clears the nonce
  and only the answer to a certConf sets it again.
- `DatedInv` orders the UIDs: the record is never of a later request than the
  process's cache, the cache never ahead of the API server, and a call is for a
  request between record and cache. So a record that differs from the request of
  the call is of an older one. The theorem has the hypothesis that there is one
  worker, for the reason given above.
- `ClientInv` relates the two ends of a transaction. `ServerInv` is about the
  server alone; `MessageInv` says which messages fit which call; `LateInv` that a
  late message is no newer than the one waited for and that a late confirmation is
  of the certificate the caller holds; `Agreement` that what the caller holds is
  what the server has done, and the last it has done unless it was overtaken;
  `AnswersInv` what each answer that may still arrive, old ones included, could make
  the client believe; and `Orderly` that as long as nothing deviated the client
  accepts every answer. The nonces carry the proof: an answer is taken only for the
  message just sent or for the one the server delays. That late messages do no harm
  rests on the server: it confirms only the certificate a certConf names and takes
  no confirmation back (`EffectMoves`). From the same invariant the calls implement
  `Enrollment` step by step: a message that reaches the server, in time or late, is
  a step of its server (`EffectStep`), what a call returns is `Wait`, `Hold`, `Obtain` or `Close`
  (`DeliverStep`, `CallStep`), and a lost outcome leaves the caller where it was.
- `WorkloadInv` holds between any two reads. `SentInv` says that the digest of the
  record determines the keys that may be sent, so that a later call with other
  keys gives the transaction up; `KeysInv` that a Secret that passes the ownership
  checks does not hold a key of somebody else; `SeenInv` and `HopeInv` tie the
  reason for a fallback, and for going on without one, to what was true while the
  request was pending; `SameInv` that recorded fingerprints still fit as long as
  no data changed.
- `DigestInv` says that what a load has read it has in its cache under the name it
  read, so that the fingerprints name the version of every value used. A complete
  load has therefore had a name for every reference (`CompleteNames`), which is
  what the verdict of `Check` needs.
- `ClockInv` bounds how far the clock is behind what is due and how far that is
  behind the deadline or the end of the last outage; `WaitInv` keeps the distance of the last wait through the
  queue, the start of `Sign` and the send.
- `BoundsInv` keeps the poll count within the limit in force. `AskedInv` says that
  all validities asked for are near the one that the stored, truncated creation
  time gives; `NotAfterNear` and `StoredApart` bound the rounding.
- For `IssuerSpec` the work is in three lemmas about every well-typed spec:
  `LoadsSendable` follows the controller's validation into the client's,
  `EnumByField` spells the enumerations out, and `SchemaIsValidation` compares
  schema and validation rule by rule.

TLC also finds `TallyInv`, `DatedInv`, `ServedInv`, `ClientInv`, `WorkloadInv`,
`BoundsInv` and `AskedInv` to hold on the instances of the runs.

Only model-checked: the liveness properties `Settles`, `TransactionEnds` and
`ReadinessFollows`, because temporal reasoning with fairness is beyond the prover,
and `Recognized`. `DistinguishedNames` folds over sequences of characters, and
what a fold computes for every input takes an induction over data that the prover
cannot do. The three disagreements with documentation are counterexamples and
need no proof.

## Not modelled

- Cryptography and encodings: signatures, MACs, chain building, TLS, PEM, X.509
  and ASN.1. What they decide is a property of a message or certificate.
- Leader election: `Signer` allows any number of active processes instead.
- Approval of requests, and the scope difference between `CMPIssuer` and
  `CMPClusterIssuer`, which only chooses the namespace of Secrets.
- Metrics, logging, Events and version information: no decision reads them.
- Start-up: flags, probes and registration with the controller manager.
- Generated code and the support code of the end-to-end tests.
