------------------------ MODULE ConfigurationProofs -------------------------
(***************************************************************************)
(* The configuration digest determines what was loaded, and the Ready      *)
(* condition fits the spec it is about, for any Secrets, any history of    *)
(* the issuer and any number of writes.                                    *)
(***************************************************************************)
EXTENDS Configuration, SequenceTheorems, TLAPS

SecretObject == [version : Nat, values : Contents \cup {{}}]
Cache == UNION {[D -> SecretObject] : D \in SUBSET Secret}
Generation == 1..Len(Versions)
LoadState ==
    [running : BOOLEAN, generation : Generation, position : Nat \ {0}, cache : Cache, data : Seq(Nat)]

Value == {"ca", "signers", "tlsCA", "reference", "secret", "certificate", "privateKey"}
Reference == [secret : Secret \cup {""}, values : SUBSET Value]

StepsOf(g) == Steps(Versions[g])

\* What a load has read so far, it has in its cache under the name it read.
Faithful(l) ==
    /\ Len(l.data) + 1 = l.position
    /\ l.position <= Len(StepsOf(l.generation)) + 1
    /\ \A i \in 1..Len(l.data) :
          /\ StepsOf(l.generation)[i].secret \in DOMAIN l.cache
          /\ l.data[i] = l.cache[StepsOf(l.generation)[i].secret].version

\* The digest of a configuration in use tells each value of its data.
Determined(e) ==
    /\ e.digest.generation \in Generation
    /\ e.data \in Seq(Nat) /\ Len(e.data) = Len(StepsOf(e.digest.generation))
    /\ \A x, y \in e.digest.secrets : x[1] = y[1] => x[2] = y[2]
    /\ \A i \in 1..Len(e.data) :
          <<StepsOf(e.digest.generation)[i].secret, e.data[i]>> \in e.digest.secrets

\* The inductive strengthening of SameDigestSameData.
DigestInv ==
    /\ generation \in Generation
    /\ secrets \in [Secret -> SecretObject] /\ writes \in Nat
    /\ loads \in [Load -> LoadState] /\ \A p \in Load : Faithful(loads[p])
    /\ \A e \in bound : Determined(e)

\* One element makes a sequence.
LEMMA OneElement ==
  ASSUME NEW S, NEW r \in S
  PROVE  <<r>> \in Seq(S)
  <1>1. << >> \in Seq(S) /\ Append(<< >>, r) \in Seq(S)
    BY EmptySeq, AppendProperties
  <1>2. <<r>> = Append(<< >>, r)
    OBVIOUS
  <1> QED BY <1>1, <1>2

\* A spec refers to Secrets in a fixed, finite order.
LEMMA StepsTyped ==
  ASSUME NEW g \in Generation
  PROVE  StepsOf(g) \in Seq(Reference)
  <1>0. PICK v \in IssuerVersion : v = Versions[g]
    BY ConfigurationAssumption DEF Generation
  <1>1. \A n \in Secret \cup {""}, x \in SUBSET Value : <<[secret |-> n, values |-> x]>> \in Seq(Reference)
    <2> TAKE n \in Secret \cup {""}, x \in SUBSET Value
    <2>1. PICK r \in Reference : r = [secret |-> n, values |-> x]
      BY DEF Reference
    <2>2. <<r>> \in Seq(Reference)
      BY OneElement
    <2> QED BY <2>1, <2>2
  <1>2. /\ {"ca"} \in SUBSET Value /\ {"signers"} \in SUBSET Value /\ {"tlsCA"} \in SUBSET Value
        /\ {"reference", "secret"} \in SUBSET Value /\ {"certificate", "privateKey"} \in SUBSET Value
    BY DEF Value
  <1>3. << >> \in Seq(Reference)
    OBVIOUS
  <1>4. /\ v.trust \in Secret \cup {""} /\ v.credentials \in Secret \cup {""}
        /\ v.signers # "none" => v.signers \in Secret \cup {""}
        /\ v.tls # "none" => v.tls \in Secret \cup {""}
    BY DEF IssuerVersion
  <1>5. loadTrustPool(v) \in Seq(Reference)
    BY <1>1, <1>2, <1>4, Zenon DEF loadTrustPool
  <1>6. loadResponseCertificates(v) \in Seq(Reference)
    BY <1>1, <1>2, <1>3, <1>4, Zenon DEF loadResponseCertificates
  <1>7. loadTLSRoots(v) \in Seq(Reference)
    BY <1>1, <1>2, <1>3, <1>4, Zenon DEF loadTLSRoots
  <1>8. loadProtection(v) \in Seq(Reference)
    BY <1>1, <1>2, <1>4, Zenon DEF loadProtection
  <1> QED BY <1>0, <1>5, <1>6, <1>7, <1>8 DEF Steps, StepsOf

\* A load that has not begun has read nothing.
LEMMA IdleFaithful ==
  ASSUME NEW g \in Generation, NEW l \in LoadState, l.generation = g, l.position = 1, l.data = << >>
  PROVE  Faithful(l)
  <1>1. Len(StepsOf(g)) \in Nat
    BY StepsTyped
  <1>2. Len(<< >>) = 0
    OBVIOUS
  <1> QED BY <1>1, <1>2 DEF Faithful

\* So has one that has ended.
LEMMA IdleIsFaithful == Idle \in LoadState /\ Faithful(Idle)
  <1>1. 1 \in Generation
    BY ConfigurationAssumption DEF Generation
  <1>2. PICK c \in Cache : c = [n \in {} |-> NoSecret]
    <2>1. [n \in {} |-> NoSecret] \in [{} -> SecretObject]
      OBVIOUS
    <2> QED BY <2>1 DEF Cache
  <1>3. PICK d \in Seq(Nat) : d = << >>
    BY EmptySeq
  <1>4. Idle = [running |-> FALSE, generation |-> 1, position |-> 1, cache |-> c, data |-> d]
    BY <1>2, <1>3 DEF Idle
  <1>5. Idle \in LoadState /\ Idle.generation = 1 /\ Idle.position = 1 /\ Idle.data = << >>
    BY <1>1, <1>3, <1>4 DEF LoadState
  <1> QED BY <1>1, <1>5, IdleFaithful

\* A load that ends leaves the other one alone.
LEMMA EndKeepsLoads ==
  ASSUME DigestInv, NEW p \in Load, loads' = [loads EXCEPT ![p] = Idle]
  PROVE  loads' \in [Load -> LoadState] /\ \A q \in Load : Faithful(loads'[q])
  <1>1. loads' \in [Load -> LoadState]
    BY IdleIsFaithful DEF DigestInv
  <1>2. \A q \in Load : loads'[q] = IF q = p THEN Idle ELSE loads[q]
    BY DEF DigestInv
  <1> QED BY <1>1, <1>2, IdleIsFaithful DEF DigestInv

\* A failed load keeps DigestInv.
LEMMA FailDigest ==
  ASSUME DigestInv, NEW p \in Load, NEW f, Fail(p, f)
  PROVE  DigestInv'
  <1>1. loads' \in [Load -> LoadState] /\ \A q \in Load : Faithful(loads'[q])
    BY EndKeepsLoads DEF Fail
  <1> QED BY <1>1 DEF Fail, DigestInv, Faithful, Determined

\* Reading the next Secret keeps DigestInv: a Secret read before comes from the
\* cache, so that its version is the recorded one.
LEMMA ReadDigest ==
  ASSUME DigestInv, NEW p \in Load, Read(p)
  PROVE  DigestInv'
  <1> DEFINE l == loads[p]
             name == Step(l).secret
             secret == secretGetter(l, name)
             c == [n \in DOMAIN l.cache \cup {name} |-> IF n = name THEN secret ELSE l.cache[n]]
             k == [l EXCEPT !.position = l.position + 1, !.cache = c, !.data = Append(l.data, secret.version)]
             g == l.generation
  <1>1. /\ l \in LoadState /\ Faithful(l) /\ g \in Generation /\ l.position \in Nat \ {0}
        /\ l.data \in Seq(Nat) /\ l.cache \in Cache
    BY DEF DigestInv, LoadState
  <1>2. StepsOf(g) \in Seq(Reference) /\ Len(StepsOf(g)) \in Nat /\ l.position \in 1..Len(StepsOf(g))
    <2>1. StepsOf(g) \in Seq(Reference)
      BY <1>1, StepsTyped
    <2>2. l.position <= Len(StepsOf(g))
      BY DEF Read, Reading, StepsOf
    <2> HIDE DEF l, g
    <2> QED BY <1>1, <2>1, <2>2
  <1>3. name = StepsOf(g)[l.position].secret /\ name \in Secret
    <2>1. StepsOf(g)[l.position] \in Reference
      BY <1>2
    <2>2. name = StepsOf(g)[l.position].secret
      BY DEF Step, StepsOf
    <2>3. name # ""
      BY DEF Read
    <2> QED BY <2>1, <2>2, <2>3 DEF Reference
  <1>4. PICK D \in SUBSET Secret : l.cache \in [D -> SecretObject]
    BY <1>1 DEF Cache
  <1>5. secret \in SecretObject /\ (name \in DOMAIN l.cache => secret = l.cache[name])
    BY <1>3, <1>4 DEF secretGetter, DigestInv
  <1>6. loads' = [loads EXCEPT ![p] = k]
    BY <1>1 DEF Read, LoadState, DigestInv
  <1>7. UNCHANGED <<generation, secrets, writes, bound>>
    BY DEF Read
  <1> HIDE DEF name, secret, l
  <1>8. c \in Cache /\ DOMAIN c = D \cup {name} /\ c[name] = secret
        /\ \A n \in D : n # name => c[n] = l.cache[n]
    <2>1. c \in [D \cup {name} -> SecretObject] /\ D \cup {name} \in SUBSET Secret
      BY <1>3, <1>4, <1>5
    <2> QED BY <1>4, <2>1 DEF Cache
  <1>9. \A n \in D : c[n] = l.cache[n]
    BY <1>4, <1>5, <1>8
  <1>10. secret.version \in Nat
    BY <1>5 DEF SecretObject
  <1> HIDE DEF c
  <1>11. k \in LoadState /\ k.generation = g /\ k.position = l.position + 1 /\ k.cache = c
         /\ k.data = Append(l.data, secret.version)
    <2>1. PICK x \in LoadState, y \in Cache : x = l /\ y = c
      BY <1>1, <1>8
    <2>2. PICK i \in Nat \ {0} : i = l.position + 1
      BY <1>1
    <2>3. PICK d \in Seq(Nat) : d = Append(l.data, secret.version)
      BY <1>1, <1>10, AppendProperties
    <2> DEFINE e == [x EXCEPT !.position = i, !.cache = y, !.data = d]
    <2>4. e \in LoadState /\ e.generation = x.generation /\ e.position = i /\ e.cache = y /\ e.data = d
      BY DEF LoadState
    <2>5. k = e
      BY <2>1, <2>2, <2>3, Zenon
    <2> HIDE DEF k, e
    <2> QED BY <2>1, <2>2, <2>3, <2>4, <2>5
  <1>12. Len(Append(l.data, secret.version)) = Len(l.data) + 1
         /\ Append(l.data, secret.version)[Len(l.data) + 1] = secret.version
         /\ \A i \in 1..Len(l.data) : Append(l.data, secret.version)[i] = l.data[i]
    BY <1>1, <1>10
  <1>13. l.position = Len(l.data) + 1 /\ Len(l.data) \in Nat
    BY <1>1 DEF Faithful
  <1> HIDE DEF k
  <1>14. Faithful(k)
    <2>1. Len(k.data) + 1 = k.position /\ k.position <= Len(StepsOf(k.generation)) + 1
      BY <1>2, <1>11, <1>12, <1>13
    <2>2. ASSUME NEW i \in 1..Len(k.data)
          PROVE  /\ StepsOf(g)[i].secret \in DOMAIN c
                 /\ k.data[i] = c[StepsOf(g)[i].secret].version
      <3>1. CASE i = Len(l.data) + 1
        BY <1>3, <1>8, <1>11, <1>12, <1>13, <3>1
      <3>2. CASE i \in 1..Len(l.data)
        <4>1. StepsOf(g)[i].secret \in D /\ l.data[i] = l.cache[StepsOf(g)[i].secret].version
          BY <1>1, <1>4, <3>2 DEF Faithful
        <4> QED BY <1>8, <1>9, <1>11, <1>12, <3>2, <4>1
      <3> QED BY <1>11, <1>12, <1>13, <3>1, <3>2
    <2> QED BY <1>11, <2>1, <2>2 DEF Faithful
  <1>15. loads' \in [Load -> LoadState] /\ \A q \in Load : Faithful(loads'[q])
    <2>1. loads' \in [Load -> LoadState] /\ \A q \in Load : loads'[q] = IF q = p THEN k ELSE loads[q]
      BY <1>6, <1>11 DEF DigestInv
    <2> QED BY <1>14, <2>1 DEF DigestInv
  <1> QED BY <1>7, <1>15 DEF DigestInv, Determined, Faithful

\* A configuration that Sign takes into use is determined by its digest.
LEMMA SignDigest ==
  ASSUME DigestInv, SignSucceeds
  PROVE  DigestInv'
  <1> DEFINE l == loads["sign"]
             e == [digest |-> runtimeConfigurationDigest(l), data |-> l.data]
             g == l.generation
  <1>1. /\ l \in LoadState /\ Faithful(l) /\ g \in Generation /\ l.position \in Nat \ {0}
        /\ l.data \in Seq(Nat) /\ l.cache \in Cache
    BY DEF DigestInv, LoadState, Load
  <1>2. Len(StepsOf(g)) \in Nat /\ l.position > Len(StepsOf(g))
    BY <1>1, StepsTyped DEF SignSucceeds, Complete, StepsOf
  <1>3. Len(l.data) = Len(StepsOf(g))
    BY <1>1, <1>2 DEF Faithful
  <1>4. bound' = bound \cup {e} /\ UNCHANGED <<generation, secrets, writes>>
        /\ loads' = [loads EXCEPT !["sign"] = Idle]
    BY DEF SignSucceeds
  <1>5. e.data = l.data /\ e.digest.generation = g /\ e.digest.secrets = credentialFingerprints(l)
    BY DEF runtimeConfigurationDigest
  <1> HIDE DEF e, l
  <1>6. \A x, y \in credentialFingerprints(l) : x[1] = y[1] => x[2] = y[2]
    BY DEF credentialFingerprints
  <1>7. \A i \in 1..Len(l.data) : <<StepsOf(g)[i].secret, l.data[i]>> \in credentialFingerprints(l)
    BY <1>1 DEF Faithful, credentialFingerprints
  <1>8. Determined(e)
    BY <1>1, <1>3, <1>5, <1>6, <1>7 DEF Determined
  <1>9. loads' \in [Load -> LoadState] /\ \A q \in Load : Faithful(loads'[q])
    BY <1>4, EndKeepsLoads DEF Load
  <1>10. \A x \in bound' : Determined(x)
    BY <1>4, <1>8 DEF DigestInv
  <1> QED BY <1>4, <1>9, <1>10 DEF DigestInv, Determined, Faithful

\* What the loads under way have read, and the configurations in use, are told
\* by the names and versions of Secrets (loadRuntimeConfiguration).
THEOREM LoadsInvariant == Spec => []DigestInv
  <1>1. Init => DigestInv
    <2> SUFFICES ASSUME Init PROVE DigestInv
      OBVIOUS
    <2>1. generation \in Generation /\ writes \in Nat /\ bound = {}
      BY ConfigurationAssumption DEF Init, Generation
    <2>2. secrets \in [Secret -> SecretObject]
      BY DEF Init, NoSecret, SecretObject
    <2>3. loads \in [Load -> LoadState] /\ \A p \in Load : Faithful(loads[p])
      BY IdleIsFaithful DEF Init
    <2> QED BY <2>1, <2>2, <2>3 DEF DigestInv
  <1>2. DigestInv /\ [Next]_vars => DigestInv'
    <2> SUFFICES ASSUME DigestInv, [Next]_vars PROVE DigestInv'
      OBVIOUS
    <2>1. ASSUME NEW p \in Load, LoadStep(p) PROVE DigestInv'
      <3>1. CASE Start(p)
        <4> DEFINE k == [Idle EXCEPT !.running = TRUE, !.generation = generation]
        <4>0. Idle.data = << >> /\ Idle.position = 1
          BY DEF Idle
        <4>1. k \in LoadState /\ Faithful(k)
          <5>1. generation \in Generation
            BY DEF DigestInv
          <5>2. /\ k \in LoadState /\ k.generation = generation
                /\ k.position = Idle.position /\ k.data = Idle.data
            BY <5>1, IdleIsFaithful DEF LoadState
          <5> HIDE DEF k
          <5> QED BY <4>0, <5>1, <5>2, IdleFaithful
        <4>2. loads' = [loads EXCEPT ![p] = k] /\ UNCHANGED <<generation, secrets, writes, bound>>
          BY <3>1 DEF Start
        <4> HIDE DEF k
        <4>3. loads' \in [Load -> LoadState] /\ \A q \in Load : loads'[q] = IF q = p THEN k ELSE loads[q]
          BY <4>1, <4>2 DEF DigestInv
        <4>4. \A q \in Load : Faithful(loads'[q])
          BY <4>1, <4>3 DEF DigestInv
        <4> QED BY <4>2, <4>3, <4>4 DEF DigestInv, Determined, Faithful
      <3>2. CASE Read(p)
        BY <3>2, ReadDigest
      <3>3. CASE \E f : Fail(p, f)
        BY <3>3, FailDigest
      <3> QED BY <2>1, <3>1, <3>2, <3>3 DEF LoadStep, Invalid, Incomplete, Unusable, ReadFails,
                   BadName
    <2>2. CASE CheckSucceeds
      <3>1. loads' \in [Load -> LoadState] /\ \A q \in Load : Faithful(loads'[q])
        BY <2>2, EndKeepsLoads DEF CheckSucceeds, Load
      <3> QED BY <2>2, <3>1 DEF CheckSucceeds, DigestInv, Faithful, Determined
    <2>3. CASE SignSucceeds
      BY <2>3, SignDigest
    <2>4. CASE WriteSecret
      <3>1. PICK n \in Secret, x \in Contents :
               secrets' = [secrets EXCEPT ![n] = [version |-> writes + 1, values |-> x]]
        BY <2>4 DEF WriteSecret
      <3>2. secrets' \in [Secret -> SecretObject] /\ writes' \in Nat
        BY <2>4, <3>1 DEF WriteSecret, DigestInv, SecretObject
      <3> QED BY <2>4, <3>2 DEF WriteSecret, DigestInv, Faithful, Determined
    <2>5. CASE DeleteSecret
      <3>1. secrets' \in [Secret -> SecretObject]
        BY <2>5 DEF DeleteSecret, DigestInv, SecretObject, NoSecret
      <3> QED BY <2>5, <3>1 DEF DeleteSecret, DigestInv, Faithful, Determined
    <2>6. CASE EditIssuer
      <3>1. generation' \in Generation
        BY <2>6, ConfigurationAssumption DEF EditIssuer, DigestInv, Generation
      <3> QED BY <2>6, <3>1 DEF EditIssuer, DigestInv, Faithful, Determined
    <2>7. CASE TakeReport \/ UNCHANGED vars
      BY <2>7 DEF TakeReport, vars, DigestInv, Faithful, Determined
    <2> QED BY <2>1, <2>2, <2>3, <2>4, <2>5, <2>6, <2>7 DEF Next
  <1> QED BY <1>1, <1>2, PTL DEF Spec

\* A configuration digest stands for one set of loaded values, whichever Secrets
\* are shared between references and whenever they are written or deleted: two
\* transactions with equal digests are protected and verified alike.
THEOREM DigestDetermines == Spec => []SameDigestSameData
  <1>1. DigestInv => SameDigestSameData
    <2> SUFFICES ASSUME DigestInv, NEW a \in bound, NEW b \in bound, a.digest = b.digest
                 PROVE  a.data = b.data
      BY DEF SameDigestSameData
    <2>1. Determined(a) /\ Determined(b)
      BY DEF DigestInv
    <2>2. Len(a.data) = Len(b.data) /\ a.data \in Seq(Nat) /\ b.data \in Seq(Nat)
      BY <2>1 DEF Determined
    <2>3. ASSUME NEW i \in 1..Len(a.data) PROVE a.data[i] = b.data[i]
      <3> DEFINE n == StepsOf(a.digest.generation)[i].secret
      <3>1. <<n, a.data[i]>> \in a.digest.secrets /\ <<n, b.data[i]>> \in a.digest.secrets
        BY <2>1, <2>2 DEF Determined
      <3>2. \A x, y \in a.digest.secrets : x[1] = y[1] => x[2] = y[2]
        BY <2>1 DEF Determined
      <3> HIDE DEF n
      <3> QED BY <3>1, <3>2
    <2> QED BY <2>2, <2>3, SeqEqual
  <1> QED BY <1>1, LoadsInvariant, PTL

\* A load that has read everything had a name for everything.
LEMMA CompleteNames ==
  ASSUME NEW l \in LoadState, Faithful(l), Complete(l), Versions[l.generation].names
  PROVE  Sound(Versions[l.generation])
  <1> DEFINE g == l.generation
  <1>1. g \in Generation /\ l.cache \in Cache /\ l.position \in Nat \ {0} /\ l.data \in Seq(Nat)
    BY DEF LoadState
  <1>2. Len(StepsOf(g)) \in Nat /\ Len(l.data) \in Nat
    BY <1>1, StepsTyped
  <1>3. Len(l.data) = Len(StepsOf(g))
    BY <1>1, <1>2 DEF Complete, Faithful, StepsOf
  <1>4. DOMAIN l.cache \subseteq Secret
    BY <1>1 DEF Cache
  <1>5. ASSUME NEW i \in 1..Len(StepsOf(g)) PROVE StepsOf(g)[i].secret # ""
    <2>1. StepsOf(g)[i].secret \in Secret
      BY <1>3, <1>4 DEF Faithful
    <2> QED BY <2>1, NameAssumption
  <1> QED BY <1>5 DEF Sound, Complete, StepsOf

\* A load that reads is at a reference of its spec.
LEMMA ReadingAt ==
  ASSUME NEW l \in LoadState, Reading(l)
  PROVE  l.position \in 1..Len(StepsOf(l.generation))
  <1>1. l.generation \in Generation /\ l.position \in Nat \ {0}
    BY DEF LoadState
  <1>2. Len(StepsOf(l.generation)) \in Nat
    BY <1>1, StepsTyped
  <1> QED BY <1>1, <1>2 DEF Reading, StepsOf

\* One at a reference without a name has a spec that is not in order.
LEMMA IncompleteUnsound ==
  ASSUME NEW l \in LoadState, Reading(l), Step(l).secret = ""
  PROVE  ~Sound(Versions[l.generation])
  BY ReadingAt, Zenon DEF Sound, Step, StepsOf

\* A verdict of Check outlives edits of the issuer and of its Secrets: it is the
\* verdict on the spec that was loaded, and no state of the Secrets, however they
\* change during the load, makes Check give a sound spec up.
THEOREM VerdictHolds == Spec => []VerdictFitsSpec
  <1>1. Init => VerdictFitsSpec
    BY DEF Init, VerdictFitsSpec
  <1>2. DigestInv /\ VerdictFitsSpec /\ [Next]_vars => VerdictFitsSpec'
    <2> SUFFICES ASSUME DigestInv, VerdictFitsSpec, [Next]_vars PROVE VerdictFitsSpec'
      OBVIOUS
    <2>0. \A p \in Load : loads[p] \in LoadState /\ Faithful(loads[p])
      BY DEF DigestInv
    <2>1. CASE UNCHANGED condition
      BY <2>1 DEF VerdictFitsSpec
    <2>2. ASSUME NEW p \in Load, NEW f \in BOOLEAN, Fail(p, f), f => ~Sound(Versions[loads[p].generation])
          PROVE  VerdictFitsSpec'
      <3>1. CASE p = "check"
        <4>1. condition' = [status |-> IF f THEN "Failed" ELSE "Pending", generation |-> loads[p].generation]
          BY <2>2, <3>1 DEF Fail, CheckFails, SetCondition
        <4>2. CASE f
          BY <2>2, <4>1, <4>2 DEF VerdictFitsSpec
        <4>3. CASE ~f
          BY <4>1, <4>3 DEF VerdictFitsSpec
        <4> QED BY <4>2, <4>3
      <3>2. CASE p # "check"
        BY <2>1, <2>2, <3>2 DEF Fail, SignFails
      <3> QED BY <3>1, <3>2
    <2>3. ASSUME NEW p \in Load, LoadStep(p) PROVE VerdictFitsSpec'
      <3>1. CASE Start(p) \/ Read(p)
        BY <2>1, <3>1 DEF Start, Read
      <3>2. CASE Invalid(p)
        BY <2>2, <3>2 DEF Invalid, Sound, permanentConfiguration
      <3>3. CASE Incomplete(p)
        <4> DEFINE f == IF Step(loads[p]).values = {"signers"} THEN permanentConfiguration
                        ELSE retryableConfiguration
        <4>1. Fail(p, f) /\ Reading(loads[p]) /\ Step(loads[p]).secret = ""
          BY <3>3 DEF Incomplete
        <4>2. f \in BOOLEAN
          BY DEF permanentConfiguration, retryableConfiguration
        <4>3. ~Sound(Versions[loads[p].generation])
          BY <2>0, <4>1, IncompleteUnsound
        <4> HIDE DEF f
        <4> QED BY <2>2, <4>1, <4>2, <4>3
      <3>4. CASE Unusable(p) \/ ReadFails(p)
        BY <2>2, <3>4 DEF Unusable, ReadFails, retryableConfiguration
      <3>5. CASE BadName(p)
        BY <2>2, <3>5 DEF BadName, Sound, permanentConfiguration
      <3> QED BY <2>3, <3>1, <3>2, <3>3, <3>4, <3>5 DEF LoadStep
    <2>4. CASE CheckSucceeds
      <3>1. Sound(Versions[loads["check"].generation])
        BY <2>0, <2>4, CompleteNames DEF CheckSucceeds, Load
      <3>2. condition' = [status |-> "True", generation |-> loads["check"].generation]
        BY <2>4 DEF CheckSucceeds, SetCondition
      <3> QED BY <3>1, <3>2 DEF VerdictFitsSpec
    <2>5. CASE TakeReport
      <3>1. condition'.status = "Pending"
        BY <2>5 DEF TakeReport, SetCondition
      <3> QED BY <3>1 DEF VerdictFitsSpec
    <2> QED BY <2>1, <2>3, <2>4, <2>5 DEF Next, vars, SignSucceeds, WriteSecret, DeleteSecret, EditIssuer
  <1> QED BY <1>1, <1>2, LoadsInvariant, PTL DEF Spec
=============================================================================
