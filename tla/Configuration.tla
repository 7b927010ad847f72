--------------------------- MODULE Configuration ---------------------------
(***************************************************************************)
(* How the Secrets of an issuer become a runtime configuration, its digest *)
(* and the Ready condition, while users edit the issuer and its Secrets.   *)
(*                                                                         *)
(* Two loads may be under way: one of Check for the issuer controller and  *)
(* one of Sign for a request that is always there.  Every read of a Secret *)
(* is a step.  issuer-lib is modelled from how signer.go uses it: it calls *)
(* Check for an issuer that is neither ready nor failed at its generation, *)
(* calls Sign for a ready one, and takes the readiness back after an       *)
(* IssuerError of Sign.                                                    *)
(***************************************************************************)
EXTENDS Naturals, Sequences

CONSTANTS
    Secret,     \* names of Secrets
    Versions,   \* the specs that the issuer has in turn
    Contents,   \* sets of values that a Secret may hold in usable form
    MaxWrites   \* number of writes to Secrets

\* An issuer spec, reduced to what its loading depends on: is it valid, do its
\* names parse, the scheme, the kind of protection, and the Secrets it refers to.
IssuerVersion ==
    [valid : BOOLEAN, names : BOOLEAN, http : BOOLEAN, pbm : BOOLEAN,
     trust : Secret \cup {""}, credentials : Secret \cup {""},
     signers : Secret \cup {"", "none"}, tls : Secret \cup {"", "none"}]

ASSUME ConfigurationAssumption ==
    /\ Versions \in Seq(IssuerVersion) /\ Versions # << >>
    /\ MaxWrites \in Nat

\* A Secret has a name.
ASSUME NameAssumption == "" \notin Secret

Load == {"check", "sign"}

VARIABLES
    generation, \* of the issuer
    secrets,    \* the Secrets: resourceVersion, 0 if absent, and usable values
    writes,     \* number of writes, the last resourceVersion
    loads,      \* the loads under way
    condition,  \* the Ready condition
    reported,   \* has a request reported an IssuerError?
    bound       \* history: digest and data of the configurations used by Sign

vars == <<generation, secrets, writes, loads, condition, reported, bound>>

NoSecret == [version |-> 0, values |-> {}]
Idle == [running |-> FALSE, generation |-> 1, position |-> 1,
         cache |-> [n \in {} |-> NoSecret], data |-> << >>]

-----------------------------------------------------------------------------
(* What loadRuntimeConfiguration reads, in its order.  An incomplete         *)
(* reference has the name "".                                                *)

loadTrustPool(v) == <<[secret |-> v.trust, values |-> {"ca"}]>>

loadResponseCertificates(v) ==
    IF v.signers = "none" THEN << >> ELSE <<[secret |-> v.signers, values |-> {"signers"}]>>

loadTLSRoots(v) ==
    IF v.http \/ v.tls = "none" THEN << >> ELSE <<[secret |-> v.tls, values |-> {"tlsCA"}]>>

\* A key pair is usable only if it matches.
loadProtection(v) ==
    <<[secret |-> v.credentials,
       values |-> IF v.pbm THEN {"reference", "secret"} ELSE {"certificate", "privateKey"}]>>

Steps(v) == loadTrustPool(v) \o loadResponseCertificates(v) \o loadTLSRoots(v) \o loadProtection(v)

\* Mutant of secretGetter: every reference is read anew.
getterWithoutCache(l, name) == secrets[name]

\* The Secret that a load gets for a name: the one it read before, or the current.
secretGetter(l, name) == IF name \in DOMAIN l.cache THEN l.cache[name] ELSE secrets[name]

\* The identity of what a load has read.
credentialFingerprints(l) == {<<name, l.cache[name].version>> : name \in DOMAIN l.cache}

runtimeConfigurationDigest(l) ==
    [generation |-> l.generation, secrets |-> credentialFingerprints(l)]

-----------------------------------------------------------------------------

Init ==
    /\ generation = 1
    /\ secrets = [n \in Secret |-> NoSecret] /\ writes = 0
    /\ loads = [p \in Load |-> Idle]
    /\ condition = [status |-> "Unknown", generation |-> 0]
    /\ reported = FALSE
    /\ bound = {}

Ready == condition.status = "True" /\ condition.generation = generation

\* Does a configurationError say that it is permanent?
permanentConfiguration == TRUE

\* Mutant of retryableConfiguration: the flag is copied.
retryableAsPermanent == TRUE

retryableConfiguration == FALSE

SetCondition(status, g) == condition' = [status |-> status, generation |-> g]

\* Sign returns an IssuerError for any configuration error.
SignFails == reported' = TRUE /\ UNCHANGED condition

\* Check returns a PermanentError or another error.
CheckFails(permanent, g) ==
    /\ SetCondition(IF permanent THEN "Failed" ELSE "Pending", g)
    /\ UNCHANGED reported

\* A load ends with a configurationError.
Fail(p, permanent) ==
    /\ loads' = [loads EXCEPT ![p] = Idle]
    /\ IF p = "check" THEN CheckFails(permanent, loads[p].generation) ELSE SignFails
    /\ UNCHANGED <<generation, secrets, writes, bound>>

\* issuer-lib calls Check or Sign, and the spec is validated.
Start(p) ==
    /\ ~loads[p].running
    /\ IF p = "check"
       THEN ~(condition.status \in {"True", "Failed"} /\ condition.generation = generation)
       ELSE Ready
    /\ loads' = [loads EXCEPT ![p] = [Idle EXCEPT !.running = TRUE, !.generation = generation]]
    /\ UNCHANGED <<generation, secrets, writes, condition, reported, bound>>

\* validateSpec, before anything is read.
Invalid(p) ==
    /\ loads[p].running /\ loads[p].position = 1
    /\ ~Versions[loads[p].generation].valid
    /\ Fail(p, permanentConfiguration)

Step(l) == Steps(Versions[l.generation])[l.position]

Reading(l) ==
    /\ l.running
    /\ Versions[l.generation].valid
    /\ l.position <= Len(Steps(Versions[l.generation]))

\* The next Secret is there and holds what is needed.
Read(p) ==
    LET l == loads[p]
        name == Step(l).secret
        secret == secretGetter(l, name)
    IN  /\ Reading(l) /\ name # ""
        /\ secret.version # 0 /\ Step(l).values \subseteq secret.values
        /\ loads' = [loads EXCEPT ![p].position = @ + 1,
                                  ![p].cache = [n \in DOMAIN @ \cup {name} |->
                                                  IF n = name THEN secret ELSE @[n]],
                                  ![p].data = Append(@, secret.version)]
        /\ UNCHANGED <<generation, secrets, writes, condition, reported, bound>>

\* A reference without a name or key.  Only that of the response signers is
\* looked at; the others are reads that fail.
Incomplete(p) ==
    /\ Reading(loads[p]) /\ Step(loads[p]).secret = ""
    /\ Fail(p, IF Step(loads[p]).values = {"signers"} THEN permanentConfiguration
               ELSE retryableConfiguration)

\* Mutant of Unusable: a half-written Secret is taken for a defect of the spec.
UnusableForGood(p) ==
    LET l == loads[p]
        secret == secretGetter(l, Step(l).secret)
    IN  /\ Reading(l) /\ Step(l).secret # ""
        /\ ~(secret.version # 0 /\ Step(l).values \subseteq secret.values)
        /\ Fail(p, IF secret.version = 0 THEN retryableConfiguration ELSE permanentConfiguration)

\* The next Secret is absent, or a value is absent or cannot be used.
Unusable(p) ==
    LET l == loads[p]
        secret == secretGetter(l, Step(l).secret)
    IN  /\ Reading(l) /\ Step(l).secret # ""
        /\ ~(secret.version # 0 /\ Step(l).values \subseteq secret.values)
        /\ Fail(p, retryableConfiguration)

\* The API server does not answer.
ReadFails(p) ==
    /\ Reading(loads[p]) /\ Step(loads[p]).secret \notin DOMAIN loads[p].cache \cup {""}
    /\ Fail(p, retryableConfiguration)

Complete(l) == l.running /\ Versions[l.generation].valid /\ l.position > Len(Steps(Versions[l.generation]))

\* A configured name does not parse.
BadName(p) ==
    /\ Complete(loads[p]) /\ ~Versions[loads[p].generation].names
    /\ Fail(p, permanentConfiguration)

\* Check: the issuer is ready.
CheckSucceeds ==
    LET l == loads["check"]
    IN  /\ Complete(l) /\ Versions[l.generation].names
        /\ SetCondition("True", l.generation)
        /\ loads' = [loads EXCEPT !["check"] = Idle]
        /\ UNCHANGED <<generation, secrets, writes, reported, bound>>

\* Sign: the configuration is used under its digest.
SignSucceeds ==
    LET l == loads["sign"]
    IN  /\ Complete(l) /\ Versions[l.generation].names
        /\ bound' = bound \cup {[digest |-> runtimeConfigurationDigest(l), data |-> l.data]}
        /\ loads' = [loads EXCEPT !["sign"] = Idle]
        /\ UNCHANGED <<generation, secrets, writes, condition, reported>>

\* issuer-lib takes the readiness back that a request found wrong.
TakeReport ==
    /\ Ready /\ reported /\ ~loads["check"].running
    /\ SetCondition("Pending", generation)
    /\ reported' = FALSE
    /\ UNCHANGED <<generation, secrets, writes, loads, bound>>

\* Users write and delete Secrets and edit the issuer.
WriteSecret ==
    /\ writes < MaxWrites
    /\ writes' = writes + 1
    /\ \E n \in Secret, values \in Contents :
          secrets' = [secrets EXCEPT ![n] = [version |-> writes + 1, values |-> values]]
    /\ UNCHANGED <<generation, loads, condition, reported, bound>>

DeleteSecret ==
    /\ \E n \in Secret : secrets[n] # NoSecret /\ secrets' = [secrets EXCEPT ![n] = NoSecret]
    /\ UNCHANGED <<generation, writes, loads, condition, reported, bound>>

EditIssuer ==
    /\ generation < Len(Versions)
    /\ generation' = generation + 1
    /\ UNCHANGED <<secrets, writes, loads, condition, reported, bound>>

LoadStep(p) ==
    Start(p) \/ Invalid(p) \/ Read(p) \/ Incomplete(p) \/ Unusable(p) \/ ReadFails(p) \/ BadName(p)

Next ==
    \/ \E p \in Load : LoadStep(p)
    \/ CheckSucceeds \/ SignSucceeds \/ TakeReport
    \/ WriteSecret \/ DeleteSecret \/ EditIssuer

Spec == Init /\ [][Next]_vars

\* The queues of issuer-lib go on, and reads do not fail for ever.
Fairness ==
    /\ \A p \in Load :
         /\ WF_vars(Start(p))
         /\ WF_vars(Invalid(p) \/ Read(p) \/ Incomplete(p) \/ Unusable(p) \/ BadName(p))
    /\ WF_vars(CheckSucceeds) /\ WF_vars(SignSucceeds) /\ WF_vars(TakeReport)
    /\ <>[][\A p \in Load : ~ReadFails(p)]_vars

FairSpec == Spec /\ Fairness

-----------------------------------------------------------------------------
(* Properties. *)

\* A digest tells what was loaded: two transactions with one digest are protected
\* and verified with the same values, also when a Secret that is referenced twice
\* changes between two steps of a load (secretGetter,
\* runtimeConfigurationDigest).
SameDigestSameData ==
    \A a, b \in bound : a.digest = b.digest => a.data = b.data

\* Is the spec in order, whatever the Secrets hold?
Sound(v) == v.valid /\ v.names /\ \A i \in 1..Len(Steps(v)) : Steps(v)[i].secret # ""

\* The verdict in the Ready condition is about the spec of the generation that it
\* names, also when the issuer is edited while it is loaded: a ready spec is in
\* order, and one that Check gave up for good is not.  No Secret that is absent,
\* unreadable or half written makes issuer-lib give up an issuer, which only an
\* edit of the spec would revive (configurationError, Check).
VerdictFitsSpec ==
    /\ condition.status = "True" => Sound(Versions[condition.generation])
    /\ condition.status = "Failed" => ~Sound(Versions[condition.generation])

\* Can the spec be loaded with these Secrets?
Loadable ==
    LET v == Versions[generation]
    IN  /\ Sound(v)
        /\ \A i \in 1..Len(Steps(v)) :
             Steps(v)[i].values \subseteq secrets[Steps(v)[i].secret].values

\* An issuer becomes ready again once its spec and its Secrets are in order,
\* whatever was wrong before and in whichever order it was repaired
\* (configurationError, Check).  One whose spec or Secrets stay broken does not
\* stay ready while a request needs it (the IssuerError of Sign).
ReadinessFollows ==
    /\ <>[]Loadable => []<>Ready
    /\ <>[]~Loadable => <>[]~Ready
=============================================================================
