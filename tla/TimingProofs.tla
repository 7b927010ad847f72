---------------------------- MODULE TimingProofs ----------------------------
(***************************************************************************)
(* A transaction ends in time, leaves the server the interval between two  *)
(* polls and asks for one validity, for any limits that validation admits, *)
(* any wait a server may ask for and any latency of the controller.        *)
(***************************************************************************)
EXTENDS Timing, TLAPS

Phase == {"Enrolling", "Polling", "Confirming"}
RecordType == [open : BOOLEAN, created : Nat, deadline : Nat, phase : Phase, certConf : BOOLEAN, polls : Nat]
LimitsType == {t \in TransactionSpec(Nat \ {0}) : t.minimumPollInterval <= t.maximumPollInterval}

LongestDelay ==
    IF limits.maximumPollInterval > Second /\ limits.maximumPollInterval > Timeout
    THEN limits.maximumPollInterval
    ELSE IF Second > Timeout THEN Second ELSE Timeout

\* The types, and how the clock lags behind what is due.
ClockInv ==
    /\ limits \in LimitsType /\ rec \in RecordType
    /\ now \in Nat /\ due \in Nat /\ started \in Nat /\ sentAt \in Nat
    /\ outageEnd \in Nat /\ outages \in Nat
    /\ lastWait \in [at : Int, seconds : Nat]
    /\ pc \in {"idle", "begun", "waiting", "refusing", "settled"}
    /\ pc = "waiting" => /\ rec.open /\ sentAt <= rec.deadline
                         /\ sentAt <= now /\ now <= sentAt + Timeout
    /\ pc = "refusing" => /\ rec.open /\ sentAt <= rec.deadline + Timeout
                          /\ sentAt <= now /\ now <= sentAt + Timeout
    /\ pc \in {"idle", "begun"} =>
         /\ now <= due + 2 * Lag
         /\ rec.open => due <= rec.deadline + Timeout + LongestDelay \/ due <= outageEnd
    /\ pc = "settled" => ~rec.open

\* What a wait leaves between two messages.
WaitInv ==
    lastWait # NoWait /\ pc # "settled" =>
      /\ rec.open
      /\ pc \in {"idle", "begun"} =>
           /\ due - lastWait.at >= limits.minimumPollInterval \/ due >= rec.deadline
           /\ due - lastWait.at <= limits.maximumPollInterval
      /\ pc = "idle" => now <= due + Lag
      /\ pc = "begun" => due <= started /\ started <= due + Lag /\ started <= now
      /\ pc = "waiting" =>
           /\ sentAt - lastWait.at >= limits.minimumPollInterval \/ sentAt >= rec.deadline
           /\ started - lastWait.at <= limits.maximumPollInterval + Lag

\* The limits in force are positive and ordered, whichever of them are set.
LEMMA LimitsOrdered ==
  ASSUME NEW t \in Specs, validateTransaction(t)
  PROVE  transactionLimitsWithDefaults(t, Defaults) \in LimitsType
  <1>1. t \in TransactionSpec(Int)
    BY TimingAssumption
  <1>2. /\ t.maximumDuration \in Int /\ t.minimumPollInterval \in Int
        /\ t.maximumPollInterval \in Int /\ t.maximumPolls \in Int
    BY <1>1 DEF TransactionSpec
  <1>3. /\ Defaults.maximumDuration \in Nat \ {0} /\ Defaults.minimumPollInterval \in Nat \ {0}
        /\ Defaults.maximumPollInterval \in Nat \ {0} /\ Defaults.maximumPolls \in Nat \ {0}
        /\ Defaults.minimumPollInterval <= Defaults.maximumPollInterval
    BY TimingAssumption DEF TransactionSpec
  <1>4. CASE t = OmittedLimits
    BY <1>3, <1>4 DEF OmittedLimits, transactionLimitsWithDefaults, LimitsType, TransactionSpec
  <1>5. CASE /\ t.maximumDuration > 0 /\ t.minimumPollInterval > 0
             /\ t.maximumPollInterval >= t.minimumPollInterval /\ t.maximumPolls >= 1
    BY <1>2, <1>3, <1>5 DEF transactionLimitsWithDefaults, LimitsType, TransactionSpec
  <1> QED BY <1>4, <1>5 DEF validateTransaction

\* A product of seconds that wraps around is still an integer.
LEMMA CheckAfterInt ==
  ASSUME NEW n \in Hints \cup {0}
  PROVE  CheckAfter(n, Second, Half) \in Int
  <1>1. n * Second \in Int /\ Half \in Int /\ 2 * Half \in Nat \ {0}
    BY TimingAssumption
  <1> DEFINE k == n * Second + Half
             h == 2 * Half
  <1>2. k \in Int /\ h \in Nat \ {0}
    BY <1>1
  <1> HIDE DEF k, h
  <1>3. k % h \in Int
    BY <1>2
  <1> QED BY <1>1, <1>3 DEF CheckAfter, Wrapped, k, h

\* Whatever wait a server asks for, the delay is within the configured interval,
\* or it ends at the deadline.
LEMMA DelayBounded ==
  ASSUME NEW n \in Hints \cup {0}, NEW d \in Nat, limits \in LimitsType, now \in Nat
  PROVE  LET delay == RequeueAfter(n, d)
         IN  /\ delay \in Nat /\ delay <= limits.maximumPollInterval
             /\ delay >= limits.minimumPollInterval \/ now + delay >= d
  <1> DEFINE w == CheckAfter(n, Second, Half)
             delay == pollDelay(w, limits)
  <1>1. w \in Int
    BY CheckAfterInt
  <1>2. /\ limits.minimumPollInterval \in Nat /\ limits.maximumPollInterval \in Nat
        /\ limits.minimumPollInterval <= limits.maximumPollInterval
    BY DEF LimitsType, TransactionSpec
  <1> HIDE DEF w
  <1>3. /\ delay \in Nat /\ delay <= limits.maximumPollInterval
        /\ delay >= limits.minimumPollInterval
    BY <1>1, <1>2 DEF pollDelay
  <1> HIDE DEF delay
  <1>4. RequeueAfter(n, d) = IF d - now > 0 /\ d - now < delay THEN d - now ELSE delay
    BY DEF RequeueAfter, w, delay
  <1> QED BY <1>2, <1>3, <1>4

\* A time the API server stores is a natural number.
LEMMA StoredNat ==
  ASSUME NEW t \in Nat
  PROVE  Stored(t) \in Nat
  <1>1. t \div Second \in Nat
    BY TimingAssumption
  <1> DEFINE q == t \div Second
  <1> HIDE DEF q
  <1>2. q \in Nat /\ Second \in Nat => q * Second \in Nat
    OBVIOUS
  <1> QED BY <1>1, <1>2, TimingAssumption DEF Stored, q

\* The record that a transaction resumes or creates.
LEMMA RecordInHand ==
  ASSUME ClockInv
  PROVE  (IF rec.open THEN rec ELSE NewRecord) \in RecordType
         /\ (IF rec.open THEN rec ELSE NewRecord).open
  <1>1. Stored(now) \in Nat
    BY StoredNat DEF ClockInv
  <1>2. Stored(now + limits.maximumDuration) \in Nat
    <2>1. now + limits.maximumDuration \in Nat
      BY DEF ClockInv, LimitsType, TransactionSpec
    <2> QED BY <2>1, StoredNat
  <1>3. NewRecord \in RecordType /\ NewRecord.open
    BY <1>1, <1>2 DEF NewRecord, NoRecord, RecordType, Phase
  <1> QED BY <1>3 DEF ClockInv

\* A transaction that settles keeps both invariants.
LEMMA SettleKeeps ==
  ASSUME ClockInv, Settle
  PROVE  ClockInv' /\ WaitInv'
  <1>1. NoRecord \in RecordType /\ ~NoRecord.open
    BY DEF NoRecord, RecordType, Phase
  <1> QED BY <1>1 DEF Settle, Return, outageVars, ClockInv, WaitInv, LongestDelay

\* So does one that goes on after a delay that is not too long.
LEMMA RequeueKeepsClock ==
  ASSUME ClockInv, pc = "waiting", NEW delay \in Nat, delay <= LongestDelay,
         NEW r \in RecordType, r.deadline = rec.deadline,
         NEW w \in [at : Int, seconds : Nat], Requeue(delay, r, w), UNCHANGED outageVars
  PROVE  ClockInv'
  <1>1. now <= rec.deadline + Timeout /\ rec.deadline \in Nat
    BY TimingAssumption DEF ClockInv, RecordType
  <1>2. LongestDelay \in Nat /\ LongestDelay' = LongestDelay
    BY TimingAssumption DEF ClockInv, LongestDelay, LimitsType, TransactionSpec, Requeue
  <1>3. due' \in Nat /\ due' <= r.deadline + Timeout + LongestDelay /\ now <= due' + 2 * Lag
    BY <1>1, <1>2, TimingAssumption DEF Requeue, ClockInv
  <1> QED BY <1>2, <1>3 DEF Requeue, Return, outageVars, ClockInv

\* A message is sent for a record within its deadline.
LEMMA SendKeepsClock ==
  ASSUME ClockInv, NEW r \in RecordType, r.open, WithinLimits(r), SendFor(r)
  PROVE  ClockInv'
  BY TimingAssumption DEF SendFor, WithinLimits, outageVars, ClockInv, RecordType, LongestDelay

\* Every step keeps the clock and the wait.
LEMMA TimingStep ==
  ASSUME ClockInv, WaitInv, [Next]_vars
  PROVE  ClockInv' /\ WaitInv'
  <1> DEFINE r0 == IF rec.open THEN rec ELSE NewRecord
             r1 == [rec EXCEPT !.phase = "Confirming", !.certConf = FALSE]
  <1>0. /\ limits.minimumPollInterval \in Nat /\ limits.maximumPollInterval \in Nat
        /\ lastWait.at \in Int /\ rec.deadline \in Nat
    BY DEF ClockInv, LimitsType, TransactionSpec, RecordType
  <1>1. CASE Sign
    <2>1. ClockInv'
      BY <1>1 DEF Sign, outageVars, ClockInv, LongestDelay
    <2>2. WaitInv'
      BY <1>0, <1>1, TimingAssumption DEF Sign, ClockInv, WaitInv
    <2> QED BY <2>1, <2>2
  <1>2. CASE Proceed
    <2>1. CASE Settle
      BY <2>1, SettleKeeps
    <2>2. CASE WithinLimits(r0) /\ SendFor(r0)
      <3>1. r0 \in RecordType /\ r0.open
        BY RecordInHand
      <3>2. rec.open => r0 = rec
        OBVIOUS
      <3> HIDE DEF r0
      <3>3. ClockInv'
        BY <2>2, <3>1, SendKeepsClock
      <3>4. WaitInv'
        BY <1>0, <1>2, <2>2, <3>1, <3>2, TimingAssumption DEF Proceed, SendFor, ClockInv, WaitInv
      <3> QED BY <3>3, <3>4
    <2> QED BY <1>2, <2>1, <2>2 DEF Proceed
  <1>3. CASE Waiting
    <2>1. PICK n \in Hints \cup {0} :
            LET polled == rec.phase = "Polling" \/ rec.certConf
                r == [rec EXCEPT !.phase = IF @ = "Enrolling" THEN "Polling" ELSE @,
                                 !.certConf = (rec.phase = "Confirming"),
                                 !.polls = IF polled THEN @ + 1 ELSE @]
            IN  Requeue(RequeueAfter(n, rec.deadline), r, [at |-> now, seconds |-> n])
      BY <1>3 DEF Waiting, Asked
    <2> DEFINE polled == rec.phase = "Polling" \/ rec.certConf
               r == [rec EXCEPT !.phase = IF @ = "Enrolling" THEN "Polling" ELSE @,
                                !.certConf = (rec.phase = "Confirming"),
                                !.polls = IF polled THEN @ + 1 ELSE @]
               delay == RequeueAfter(n, rec.deadline)
               w == [at |-> now, seconds |-> n]
    <2>2. Requeue(delay, r, w)
      BY <2>1
    <2>21. UNCHANGED outageVars
      BY <1>3 DEF Waiting
    <2>3. r \in RecordType /\ r.deadline = rec.deadline /\ r.open = rec.open
      <3> DEFINE phase == IF rec.phase = "Enrolling" THEN "Polling" ELSE rec.phase
                 certConf == (rec.phase = "Confirming")
                 polls == IF polled THEN rec.polls + 1 ELSE rec.polls
      <3>1. rec \in RecordType /\ phase \in Phase /\ polls \in Nat
        BY DEF ClockInv, RecordType, Phase
      <3>2. certConf \in BOOLEAN
        OBVIOUS
      <3>3. r = [rec EXCEPT !.phase = phase, !.certConf = certConf, !.polls = polls]
        BY <3>1 DEF RecordType
      <3> HIDE DEF phase, certConf, polls, r
      <3> QED BY <3>1, <3>2, <3>3 DEF RecordType
    <2>4. /\ delay \in Nat /\ delay <= limits.maximumPollInterval
          /\ delay >= limits.minimumPollInterval \/ now + delay >= rec.deadline
      BY <1>0, DelayBounded DEF ClockInv
    <2>5. w \in [at : Int, seconds : Nat] /\ w.at = now
      BY TimingAssumption DEF ClockInv
    <2> HIDE DEF r, delay, w
    <2>6. delay <= LongestDelay
      BY <1>0, <2>4, TimingAssumption DEF LongestDelay
    <2>7. pc = "waiting" /\ rec.open
      BY <1>3 DEF Waiting, ClockInv
    <2>8. ClockInv'
      BY <2>2, <2>21, <2>3, <2>4, <2>5, <2>6, <2>7, RequeueKeepsClock
    <2>9. WaitInv'
      BY <1>0, <2>2, <2>3, <2>4, <2>5, <2>7, TimingAssumption DEF Requeue, ClockInv, WaitInv
    <2> QED BY <2>8, <2>9
  <1>4. CASE Granted
    <2>1. CASE Settle
      BY <2>1, SettleKeeps
    <2>2. CASE WithinLimits(r1) /\ SendFor(r1)
      <3>1. pc = "waiting" /\ rec.open /\ r1 \in RecordType /\ r1.open /\ r1.deadline = rec.deadline
        BY <1>4 DEF Granted, ClockInv, RecordType, Phase
      <3> HIDE DEF r1
      <3>2. ClockInv'
        BY <2>2, <3>1, SendKeepsClock
      <3>3. WaitInv'
        BY <1>0, <2>2, <3>1, TimingAssumption DEF SendFor, ClockInv, WaitInv
      <3> QED BY <3>2, <3>3
    <2> QED BY <1>4, <2>1, <2>2 DEF Granted
  <1>5. CASE Final
    BY <1>5, SettleKeeps DEF Final
  <1>6. CASE Unavailable
    <2>1. pc = "waiting" /\ Requeue(Second, rec, NoWait) /\ UNCHANGED outageVars /\ rec \in RecordType
      BY <1>6 DEF Unavailable, ClockInv
    <2>2. NoWait \in [at : Int, seconds : Nat] /\ Second \in Nat /\ Second <= LongestDelay
      BY <1>0, TimingAssumption DEF NoWait, LongestDelay
    <2>3. ClockInv'
      BY <2>1, <2>2, RequeueKeepsClock
    <2>4. WaitInv'
      BY <2>1 DEF Requeue, WaitInv, NoWait
    <2> QED BY <2>3, <2>4
  <1>7. CASE Outage
    <2>1. PICK outage \in Outages \cup {0, Second} :
            Requeue(outage, rec, NoWait) /\ outageEnd' = now + outage
      BY <1>7 DEF Outage
    <2>2. outage \in Nat /\ outages' \in Nat
      BY <1>7, TimingAssumption DEF Outage, ClockInv
    <2>3. NoWait \in [at : Int, seconds : Nat]
      BY DEF NoWait
    <2>4. due' \in Nat /\ outageEnd' \in Nat /\ due' = outageEnd' /\ now <= due' + 2 * Lag
      BY <2>1, <2>2, TimingAssumption DEF Requeue, ClockInv
    <2>5. ClockInv'
      BY <2>1, <2>2, <2>3, <2>4 DEF Requeue, Return, ClockInv
    <2>6. WaitInv'
      BY <2>1 DEF Requeue, WaitInv, NoWait
    <2> QED BY <2>5, <2>6
  <1>8. CASE Tick
    <2>1. now' = now + 1 /\ now' \in Nat /\ now' <= Horizon
          /\ UNCHANGED <<limits, pc, due, started, sentAt, rec, asked, lastWait, outageEnd, outages>>
      BY <1>8, TimingAssumption DEF Tick, outageVars, ClockInv, Horizon
    <2>2. LongestDelay' = LongestDelay
      BY <2>1 DEF LongestDelay
    <2>3. ClockInv'
      BY <2>1, <2>2, TimingAssumption DEF Horizon, ClockInv
    <2>4. WaitInv'
      BY <1>0, <2>1, TimingAssumption DEF Horizon, ClockInv, WaitInv
    <2> QED BY <2>3, <2>4
  <1>9. CASE UNCHANGED vars
    BY <1>9 DEF vars, outageVars, ClockInv, WaitInv, LongestDelay
  <1>10. CASE Refuse
    <2>1. /\ pc = "waiting" /\ pc' = "refusing" /\ sentAt' = now /\ UNCHANGED <<outageEnd, outages>>
          /\ UNCHANGED <<limits, now, due, started, rec, asked, lastWait>>
      BY <1>10 DEF Refuse, outageVars
    <2>2. LongestDelay' = LongestDelay
      BY <2>1 DEF LongestDelay
    <2>3. ClockInv'
      BY <1>0, <2>1, <2>2, TimingAssumption DEF ClockInv
    <2>4. WaitInv'
      BY <1>0, <2>1 DEF WaitInv
    <2> QED BY <2>3, <2>4
  <1> QED BY <1>1, <1>2, <1>3, <1>4, <1>5, <1>6, <1>7, <1>8, <1>9, <1>10 DEF Next

\* The clock and the wait hold throughout.
THEOREM TimingInvariant == Spec => [](ClockInv /\ WaitInv)
  <1>1. Init => ClockInv /\ WaitInv
    <2> SUFFICES ASSUME Init PROVE ClockInv /\ WaitInv
      OBVIOUS
    <2>1. limits \in LimitsType
      BY LimitsOrdered DEF Init
    <2>2. NoRecord \in RecordType /\ ~NoRecord.open
      BY DEF NoRecord, RecordType, Phase
    <2>3. NoWait \in [at : Int, seconds : Nat]
      BY DEF NoWait
    <2>4. now \in Nat
      BY TimingAssumption DEF Init
    <2> QED BY <2>1, <2>2, <2>3, <2>4, TimingAssumption DEF Init, ClockInv, WaitInv
  <1>2. ClockInv /\ WaitInv /\ [Next]_vars => (ClockInv /\ WaitInv)'
    BY TimingStep
  <1> QED BY <1>1, <1>2, PTL DEF Spec

\* No record outlives its deadline, or an outage that goes on beyond it, by more
\* than the last exchange and one delay or refusal, for any limits, waits, outages
\* and latencies (exchange, confirm, rejectCertificate).
THEOREM EndsInTimeHolds == Spec => []EndsInTime
  <1>1. ClockInv => EndsInTime
    <2> SUFFICES ASSUME ClockInv, rec.open
                 PROVE  \E start \in {rec.deadline, outageEnd} :
                          now <= start + Timeout + 2 * Lag + LongestDelay
      BY DEF EndsInTime, LongestDelay, Longest
    <2>1. rec.deadline \in Nat /\ outageEnd \in Nat /\ LongestDelay \in Nat /\ Timeout <= LongestDelay
      BY TimingAssumption DEF ClockInv, RecordType, LongestDelay, LimitsType, TransactionSpec
    <2>2. CASE pc \in {"idle", "begun"}
      BY <2>1, <2>2, TimingAssumption DEF ClockInv
    <2>3. CASE pc \in {"waiting", "refusing"}
      BY <2>1, <2>3, TimingAssumption DEF ClockInv
    <2> QED BY <2>2, <2>3 DEF ClockInv
  <1> QED BY <1>1, TimingInvariant, PTL

\* Whatever wait a server asks for, even one that overflows, polls keep their
\* minimum and maximum interval (pollDelay, continuePolling, continueConfirming).
THEOREM PollIntervalHolds == Spec => []PollInterval
  <1>1. WaitInv => PollInterval
    BY DEF WaitInv, PollInterval
  <1> QED BY <1>1, TimingInvariant, PTL

-----------------------------------------------------------------------------
(* The types, the poll limit and the validity asked for. *)

\* The bounds of the counters.  A message of a record that polls or confirms is
\* sent while a poll is left.
BoundsInv ==
    /\ now <= MaxTime /\ started <= now /\ sentAt <= now /\ outages <= MaxOutages
    /\ rec.polls <= limits.maximumPolls
    /\ rec.phase = "Enrolling" => rec.polls = 0 /\ ~rec.certConf
    /\ pc = "waiting" /\ rec.phase # "Enrolling" => rec.polls < limits.maximumPolls

Tolerance == 2 * Lag + Second

\* All that was asked for is near what the record makes a repeated enrollment ask
\* for.
AskedInv ==
    /\ asked \subseteq Nat
    /\ pc = "begun" => due <= started
    /\ pc # "settled" /\ ~rec.open => asked = {}
    /\ rec.open => \A a \in asked : LET b == requestedNotAfter(rec.created)
                                    IN  a - b <= Tolerance /\ b - a <= Tolerance
    /\ NotAfterKept

\* A product with the length of a second is monotonic.
LEMMA SecondsMonotonic ==
  ASSUME NEW p \in Int, NEW q \in Int, NEW s \in Nat, p <= q
  PROVE  p * s <= q * s
  OBVIOUS

\* A stored time is at most a second behind.
LEMMA StoredNear ==
  ASSUME NEW t \in Nat
  PROVE  /\ Stored(t) \in Nat /\ Stored(t) <= t /\ t < Stored(t) + Second
  <1> DEFINE q == t \div Second
             m == t % Second
  <1>1. Second \in Nat \ {0}
    BY TimingAssumption
  <1>2. q \in Int /\ m \in 0..(Second - 1) /\ t = Second * q + m
    BY <1>1
  <1>3. Stored(t) = q * Second
    BY DEF Stored
  <1> HIDE DEF q, m
  <1>4. q * Second = Second * q /\ q * Second \in Int
    BY <1>1, <1>2
  <1>5. Stored(t) \in Nat
    BY StoredNat
  <1> DEFINE k == q * Second
  <1> HIDE DEF k
  <1>6. k \in Int /\ t = k + m /\ Stored(t) = k
    BY <1>2, <1>3, <1>4 DEF k
  <1> QED BY <1>1, <1>2, <1>5, <1>6

\* Two stored times of less than two seconds apart differ by at most one.
LEMMA StoredApart ==
  ASSUME NEW t \in Nat, NEW u \in Nat, Stored(t) - Stored(u) < Second + Second
  PROVE  Stored(t) - Stored(u) <= Second
  <1> DEFINE p == t \div Second
             q == u \div Second
  <1>1. Second \in Nat \ {0}
    BY TimingAssumption
  <1>2. p \in Int /\ q \in Int /\ Stored(t) = p * Second /\ Stored(u) = q * Second
    BY <1>1 DEF Stored
  <1> HIDE DEF p, q
  <1>3. (q + 2) * Second = q * Second + Second + Second /\ (q + 1) * Second = q * Second + Second
    BY <1>1, <1>2
  <1>4. CASE p >= q + 2
    <2>1. (q + 2) * Second <= p * Second
      BY <1>1, <1>2, <1>4, SecondsMonotonic
    <2>2. p * Second \in Int /\ q * Second \in Int
      BY <1>1, <1>2
    <2> DEFINE a == p * Second
               b == q * Second
               c == (q + 2) * Second
    <2>3. c <= a /\ c = b + Second + Second /\ a - b < Second + Second /\ a \in Int /\ b \in Int
      BY <1>2, <1>3, <2>1, <2>2
    <2> HIDE DEF a, b, c
    <2> QED BY <1>1, <2>3
  <1>5. CASE p <= q + 1
    <2>1. p * Second <= (q + 1) * Second
      BY <1>1, <1>2, <1>5, SecondsMonotonic
    <2>2. p * Second \in Int /\ q * Second \in Int
      BY <1>1, <1>2
    <2> DEFINE a == p * Second
               b == q * Second
               c == (q + 1) * Second
    <2>3. a <= c /\ c = b + Second /\ a \in Int /\ b \in Int /\ Stored(t) = a /\ Stored(u) = b
      BY <1>2, <1>3, <2>1, <2>2
    <2> HIDE DEF a, b, c
    <2> QED BY <1>1, <2>3
  <1> QED BY <1>2, <1>4, <1>5

\* The first enrollment asks from the start of Sign, a repeated one from the
\* creation of the record: the two are no further apart than the tolerance.
LEMMA NotAfterNear ==
  ASSUME NEW s \in Nat, NEW n \in Nat, s <= n, n <= s + 2 * Lag
  PROVE  LET a == requestedNotAfter(s)
             b == requestedNotAfter(Stored(n))
         IN  a \in Nat /\ b \in Nat /\ a - b <= Tolerance /\ b - a <= Tolerance
  <1> DEFINE c == Stored(n)
             a == Stored(s + Duration)
             b == Stored(c + Duration)
  <1>1. Second \in Nat \ {0} /\ Lag \in Nat /\ Duration \in Nat
    BY TimingAssumption
  <1>2. c \in Nat /\ c <= n /\ n < c + Second
    BY StoredNear
  <1>3. s + Duration \in Nat /\ c + Duration \in Nat
    BY <1>1, <1>2
  <1>4. a \in Nat /\ a <= s + Duration /\ s + Duration < a + Second
    BY <1>3, StoredNear
  <1>5. b \in Nat /\ b <= c + Duration /\ c + Duration < b + Second
    <2> HIDE DEF c
    <2> QED BY <1>3, StoredNear
  <1>6. a - b < Second + Second => a - b <= Second
    <2> HIDE DEF c
    <2> QED BY <1>3, StoredApart
  <1>7. requestedNotAfter(s) = a /\ requestedNotAfter(Stored(n)) = b
    BY DEF requestedNotAfter
  <1> HIDE DEF a, b, c
  <1>8. a - b <= Second /\ b - a <= 2 * Lag + Second
    BY <1>1, <1>2, <1>4, <1>5, <1>6
  <1> QED BY <1>1, <1>4, <1>5, <1>7, <1>8 DEF Tolerance

\* A transaction that settles keeps the bounds and what was asked for.
LEMMA SettleKeepsAsked ==
  ASSUME ClockInv, BoundsInv, AskedInv, Settle
  PROVE  BoundsInv' /\ AskedInv'
  <1>1. NoRecord.polls = 0 /\ NoRecord.phase = "Enrolling" /\ ~NoRecord.certConf /\ ~NoRecord.open
    BY DEF NoRecord
  <1>2. limits.maximumPolls \in Nat
    BY DEF ClockInv, LimitsType, TransactionSpec
  <1>3. BoundsInv'
    BY <1>1, <1>2 DEF Settle, Return, outageVars, BoundsInv, ClockInv
  <1>4. AskedInv'
    BY <1>1 DEF Settle, Return, AskedInv, NotAfterKept
  <1> QED BY <1>3, <1>4

\* A message for a record within its limits keeps the bounds.
LEMMA SendKeepsBounds ==
  ASSUME ClockInv, BoundsInv, NEW r \in RecordType, WithinLimits(r), SendFor(r),
         r.polls <= limits.maximumPolls, r.phase = "Enrolling" => r.polls = 0 /\ ~r.certConf
  PROVE  BoundsInv'
  BY DEF SendFor, WithinLimits, outageVars, BoundsInv, ClockInv, RecordType

\* A record that was created as long ago asks for the same.
LEMMA SameRecordKeepsAsked ==
  ASSUME AskedInv, rec.open, rec'.open, rec'.created = rec.created, asked' = asked,
         pc' = "begun" => due' <= started'
  PROVE  AskedInv'
  BY DEF AskedInv, NotAfterKept, requestedNotAfter, Stored

\* The first enrollment of a transaction, and any later one.
LEMMA EnrollKeepsAsked ==
  ASSUME ClockInv, BoundsInv, AskedInv, Proceed,
         NEW r \in RecordType, r = (IF rec.open THEN rec ELSE NewRecord), SendFor(r), r.open,
         asked' = IF r.phase = "Enrolling"
                  THEN asked \cup {requestedNotAfter(transactionStartTime(r, rec.open, started))}
                  ELSE asked
  PROVE  AskedInv'
  <1> DEFINE x == requestedNotAfter(transactionStartTime(r, rec.open, started))
             b == requestedNotAfter(r.created)
  <1>1. rec' = r /\ pc' = "waiting" /\ pc = "begun"
    BY DEF SendFor, Proceed
  <1>2. r.created \in Nat /\ Tolerance \in Nat
    BY TimingAssumption DEF RecordType, Tolerance
  <1>3. CASE rec.open
    <2>1. r = rec /\ x = b
      BY <1>3 DEF transactionStartTime
    <2>2. r.created + Duration \in Nat
      BY <1>2, TimingAssumption
    <2>3. b \in Nat
      BY <2>2, StoredNat DEF requestedNotAfter
    <2>4. \A a \in asked : a \in Nat /\ a - b <= Tolerance /\ b - a <= Tolerance
      BY <1>3, <2>1 DEF AskedInv
    <2>5. \A a, c \in asked : a - c <= Tolerance
      BY DEF AskedInv, NotAfterKept, Tolerance
    <2> HIDE DEF b, x
    <2>6. asked' \subseteq asked \cup {b}
      BY <2>1 DEF x
    <2>7. \A a \in asked' : a \in Nat /\ a - b <= Tolerance /\ b - a <= Tolerance
      BY <1>2, <2>3, <2>4, <2>6
    <2>8. \A a, c \in asked' : a - c <= Tolerance
      BY <1>2, <2>3, <2>4, <2>5, <2>6
    <2>9. requestedNotAfter(rec.created)' = b
      BY <1>1 DEF b, requestedNotAfter, Stored
    <2> QED BY <1>1, <2>7, <2>8, <2>9 DEF AskedInv, NotAfterKept, Tolerance
  <1>4. CASE ~rec.open
    <2>1. r.created = Stored(now) /\ r.phase = "Enrolling" /\ asked = {}
      BY <1>1, <1>4 DEF NewRecord, NoRecord, AskedInv
    <2>2. x = requestedNotAfter(started)
      BY <1>4 DEF transactionStartTime
    <2>3. started \in Nat /\ now \in Nat /\ started <= now /\ now <= started + 2 * Lag
      BY <1>1, TimingAssumption DEF ClockInv, BoundsInv, AskedInv
    <2>4. x \in Nat /\ b \in Nat /\ x - b <= Tolerance /\ b - x <= Tolerance
      BY <2>1, <2>2, <2>3, NotAfterNear
    <2>5. requestedNotAfter(rec.created)' = b
      BY <1>1 DEF requestedNotAfter, Stored
    <2> HIDE DEF b, x
    <2>6. asked' = {x}
      BY <2>1 DEF x
    <2> QED BY <1>1, <1>2, <2>4, <2>5, <2>6 DEF AskedInv, NotAfterKept, Tolerance
  <1> QED BY <1>3, <1>4

\* Every step keeps the bounds and what was asked for.
LEMMA AskedStep ==
  ASSUME ClockInv, BoundsInv, AskedInv, [Next]_vars
  PROVE  BoundsInv' /\ AskedInv'
  <1> DEFINE r0 == IF rec.open THEN rec ELSE NewRecord
             r1 == [rec EXCEPT !.phase = "Confirming", !.certConf = FALSE]
  <1>0. /\ limits.maximumPolls \in Nat \ {0} /\ rec.polls \in Nat /\ rec.phase \in Phase
        /\ now \in Nat /\ started \in Nat /\ sentAt \in Nat /\ outages \in Nat /\ due \in Nat
    BY DEF ClockInv, LimitsType, TransactionSpec, RecordType
  <1>1. CASE Sign
    <2>1. BoundsInv'
      BY <1>0, <1>1 DEF Sign, outageVars, BoundsInv
    <2>2. AskedInv'
      BY <1>0, <1>1 DEF Sign, AskedInv, NotAfterKept, requestedNotAfter, Stored
    <2> QED BY <2>1, <2>2
  <1>2. CASE Proceed
    <2>1. CASE Settle
      BY <2>1, SettleKeepsAsked
    <2>2. CASE /\ WithinLimits(r0) /\ SendFor(r0)
               /\ asked' = IF r0.phase = "Enrolling"
                           THEN asked \cup {requestedNotAfter(transactionStartTime(r0, rec.open, started))}
                           ELSE asked
      <3>1. r0 \in RecordType /\ r0.open
        BY RecordInHand
      <3>2. /\ r0.polls <= limits.maximumPolls
            /\ r0.phase = "Enrolling" => r0.polls = 0 /\ ~r0.certConf
        BY <1>0 DEF BoundsInv, NewRecord, NoRecord
      <3>3. r0 = IF rec.open THEN rec ELSE NewRecord
        OBVIOUS
      <3> HIDE DEF r0
      <3>4. BoundsInv'
        BY <2>2, <3>1, <3>2, SendKeepsBounds
      <3>5. AskedInv'
        BY <1>2, <2>2, <3>1, <3>3, EnrollKeepsAsked
      <3> QED BY <3>4, <3>5
    <2> QED BY <1>2, <2>1, <2>2 DEF Proceed
  <1>3. CASE Waiting
    <2> DEFINE polled == rec.phase = "Polling" \/ rec.certConf
               r == [rec EXCEPT !.phase = IF @ = "Enrolling" THEN "Polling" ELSE @,
                                !.certConf = (rec.phase = "Confirming"),
                                !.polls = IF polled THEN @ + 1 ELSE @]
    <2>1. PICK n \in Hints \cup {0} :
            Requeue(RequeueAfter(n, rec.deadline), r, [at |-> now, seconds |-> n])
      BY <1>3 DEF Waiting, Asked
    <2>2. pc = "waiting" /\ rec.open
      BY <1>3 DEF Waiting, ClockInv
    <2>3. /\ r.open = rec.open /\ r.created = rec.created /\ r.phase # "Enrolling"
          /\ r.polls = IF polled THEN rec.polls + 1 ELSE rec.polls
      BY DEF ClockInv, RecordType
    <2> HIDE DEF r
    <2>4. /\ pc' = "idle" /\ rec' = r /\ started' = 0 /\ sentAt' = 0
          /\ UNCHANGED <<limits, now, asked, outages>>
      BY <1>3, <2>1 DEF Waiting, Requeue, Return, outageVars
    <2>5. polled => rec.polls < limits.maximumPolls
      BY <2>2 DEF BoundsInv
    <2> HIDE DEF polled
    <2>6. r.polls <= limits.maximumPolls
      BY <1>0, <2>3, <2>5 DEF BoundsInv
    <2>7. BoundsInv'
      BY <1>0, <2>3, <2>4, <2>6 DEF BoundsInv
    <2>8. AskedInv'
      BY <2>2, <2>3, <2>4, SameRecordKeepsAsked
    <2> QED BY <2>7, <2>8
  <1>4. CASE Granted
    <2>1. CASE Settle
      BY <2>1, SettleKeepsAsked
    <2>2. CASE WithinLimits(r1) /\ SendFor(r1) /\ UNCHANGED asked
      <3>1. pc = "waiting" /\ rec.open
        BY <1>4 DEF Granted, ClockInv
      <3>2. /\ r1 \in RecordType /\ r1.open /\ r1.created = rec.created /\ r1.polls = rec.polls
            /\ r1.phase = "Confirming"
        BY <3>1 DEF ClockInv, RecordType, Phase
      <3> HIDE DEF r1
      <3>3. BoundsInv'
        BY <2>2, <3>2, SendKeepsBounds DEF BoundsInv
      <3>4. rec' = r1 /\ pc' = "waiting"
        BY <2>2 DEF SendFor
      <3>5. AskedInv'
        BY <2>2, <3>1, <3>2, <3>4, SameRecordKeepsAsked
      <3> QED BY <3>3, <3>5
    <2> QED BY <1>4, <2>1, <2>2 DEF Granted
  <1>5. CASE Final
    BY <1>5, SettleKeepsAsked DEF Final
  <1>6. CASE Unavailable
    <2>1. /\ pc' = "idle" /\ rec' = rec /\ rec.open /\ started' = 0 /\ sentAt' = 0
          /\ UNCHANGED <<limits, now, asked, outages>>
      BY <1>6 DEF Unavailable, Requeue, Return, outageVars, ClockInv
    <2>2. BoundsInv'
      BY <1>0, <2>1 DEF BoundsInv
    <2>3. AskedInv'
      BY <2>1, SameRecordKeepsAsked
    <2> QED BY <2>2, <2>3
  <1>7. CASE Outage
    <2>1. /\ pc' = "idle" /\ pc # "settled" /\ outages' <= MaxOutages
          /\ started' = 0 /\ sentAt' = 0 /\ UNCHANGED <<limits, now, rec, asked>>
      BY <1>0, <1>7, TimingAssumption DEF Outage, Requeue, Return
    <2>2. BoundsInv'
      BY <1>0, <2>1 DEF BoundsInv
    <2>3. AskedInv'
      BY <2>1 DEF AskedInv, NotAfterKept, requestedNotAfter, Stored
    <2> QED BY <2>2, <2>3
  <1>8. CASE Tick
    <2>1. /\ now' = now + 1 /\ now' <= MaxTime
          /\ UNCHANGED <<limits, pc, due, started, sentAt, rec, asked, lastWait, outageEnd, outages>>
      BY <1>0, <1>8, TimingAssumption DEF Tick, outageVars
    <2>2. BoundsInv'
      BY <1>0, <2>1 DEF BoundsInv
    <2>3. AskedInv'
      BY <2>1 DEF AskedInv, NotAfterKept, requestedNotAfter, Stored
    <2> QED BY <2>2, <2>3
  <1>9. CASE UNCHANGED vars
    BY <1>9 DEF vars, outageVars, BoundsInv, AskedInv, NotAfterKept, requestedNotAfter, Stored
  <1>10. CASE Refuse
    <2>1. /\ pc = "waiting" /\ rec.open /\ pc' = "refusing" /\ sentAt' = now
          /\ UNCHANGED <<limits, now, started, rec, asked, outages>>
      BY <1>10 DEF Refuse, outageVars, ClockInv
    <2>2. BoundsInv'
      BY <1>0, <2>1 DEF BoundsInv
    <2>3. AskedInv'
      BY <2>1, SameRecordKeepsAsked
    <2> QED BY <2>2, <2>3
  <1> QED BY <1>1, <1>2, <1>3, <1>4, <1>5, <1>6, <1>7, <1>8, <1>9, <1>10 DEF Next

\* The bounds and what was asked for hold throughout.
THEOREM AskedInvariant == Spec => [](ClockInv /\ BoundsInv /\ AskedInv)
  <1>1. Init => BoundsInv /\ AskedInv
    <2> SUFFICES ASSUME Init PROVE BoundsInv /\ AskedInv
      OBVIOUS
    <2>1. limits \in LimitsType
      BY LimitsOrdered DEF Init
    <2>2. limits.maximumPolls \in Nat
      BY <2>1 DEF LimitsType, TransactionSpec
    <2>3. NoRecord.polls = 0 /\ NoRecord.phase = "Enrolling" /\ ~NoRecord.certConf /\ ~NoRecord.open
      BY DEF NoRecord
    <2>4. now \in Nat /\ now <= MaxTime
      BY TimingAssumption DEF Init
    <2>5. BoundsInv
      BY <2>2, <2>3, <2>4, TimingAssumption DEF Init, BoundsInv
    <2>6. AskedInv
      BY <2>3 DEF Init, AskedInv, NotAfterKept
    <2> QED BY <2>5, <2>6
  <1>2. ClockInv /\ (BoundsInv /\ AskedInv) /\ [Next]_vars => (BoundsInv /\ AskedInv)'
    BY AskedStep
  <1> QED BY <1>1, <1>2, TimingInvariant, PTL DEF Spec

\* The limits in force are ordered, and clock, counters and record keep their
\* ranges, the poll limit of the issuer included (transactionLimitsWithDefaults,
\* exchange, confirm).
THEOREM TimingTypeCorrect == Spec => []TypeOK
  <1>1. ClockInv /\ BoundsInv /\ AskedInv => TypeOK
    <2> SUFFICES ASSUME ClockInv, BoundsInv, AskedInv PROVE TypeOK
      OBVIOUS
    <2>1. limits \in LimitsType
      BY DEF ClockInv
    <2>2. validateTransaction(limits) /\ limits # OmittedLimits /\ limits.maximumPolls \in Nat
      BY <2>1 DEF validateTransaction, OmittedLimits, LimitsType, TransactionSpec
    <2>3. rec.open \in BOOLEAN /\ rec.phase \in {"Enrolling", "Polling", "Confirming"}
      BY DEF ClockInv, RecordType, Phase
    <2>4. rec.polls \in 0..limits.maximumPolls
      BY <2>2 DEF ClockInv, RecordType, BoundsInv
    <2>5. now \in 0..MaxTime /\ started \in 0..now /\ sentAt \in 0..now /\ outages \in 0..MaxOutages
      BY TimingAssumption DEF ClockInv, BoundsInv
    <2>6. /\ due \in Nat /\ asked \subseteq Nat /\ outageEnd \in Nat
          /\ pc \in {"idle", "begun", "waiting", "refusing", "settled"}
      BY DEF ClockInv, AskedInv
    <2> QED BY <2>2, <2>3, <2>4, <2>5, <2>6 DEF TypeOK
  <1> QED BY <1>1, AskedInvariant, PTL

\* A repeated enrollment asks for the validity that was asked for first, for any
\* latency, any length of a second and any number of outages
\* (transactionStartTime, requestedNotAfter).
THEOREM NotAfterKeptHolds == Spec => []NotAfterKept
  <1>1. AskedInv => NotAfterKept
    BY DEF AskedInv
  <1> QED BY <1>1, AskedInvariant, PTL
=============================================================================
