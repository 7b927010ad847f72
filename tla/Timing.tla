------------------------------- MODULE Timing -------------------------------
(***************************************************************************)
(* One transaction in time: when Sign runs, what the deadline, the poll    *)
(* limit and the requeue delays of signer.go make of the answers, and the  *)
(* validity an enrollment asks for.  The record is reduced to what these   *)
(* depend on; Signer models the rest.                                      *)
(*                                                                         *)
(* Time is counted in ticks, of which Second make a second.  The API       *)
(* server stores times in whole seconds.  The work queue starts Sign at    *)
(* most Lag ticks after it is due, and reading Secrets and creating the    *)
(* record takes at most as long again.  An HTTP exchange ends by Timeout.  *)
(* During an outage the controller is down, or Sign cannot read the        *)
(* configuration, the workload's objects or the record, or write it.       *)
(***************************************************************************)
EXTENDS Limits, FiniteSets

CONSTANTS
    Second,         \* ticks per second
    Half,           \* durations wrap around at this number of ticks, 2^63 ns in Go
    Specs,          \* TransactionSpecs of the issuer
    Defaults,       \* the limits that replace an omitted block
    Timeout, Lag,   \* see above
    Hints,          \* waits in seconds that a server asks for
    Duration,       \* the duration of the request
    Outages,        \* how long after it fails Sign may be due again
    MaxOutages,     \* outages and restarts of the controller
    MaxTime         \* the end of time, later than any transaction lasts

ASSUME TimingAssumption ==
    /\ Second \in Nat \ {0} /\ Half \in Nat \ {0} /\ Timeout \in Nat \ {0} /\ Lag \in Nat
    /\ Specs \subseteq TransactionSpec(Int)
    /\ Defaults \in TransactionSpec(Nat \ {0})
    /\ Defaults.minimumPollInterval <= Defaults.maximumPollInterval
    /\ Hints \subseteq Nat /\ Duration \in Nat
    /\ Outages \subseteq Nat /\ MaxOutages \in Nat
    /\ MaxTime \in Nat /\ Second <= MaxTime

VARIABLES
    limits,     \* the limits in force
    now,        \* the clock
    pc,         \* "idle", "begun", "waiting" for an answer, "refusing" a
                \* certificate, or "settled"
    due,        \* when Sign runs next
    started,    \* when this Sign was called
    sentAt,     \* when the message that waits was sent
    rec,        \* the record
    asked,      \* history: the notAfters that enrollment messages asked for
    lastWait,   \* history: the last wait the server asked for, with its time,
                \* until an error or an outage
    outageEnd,  \* history: when the last outage ended
    outages     \* number of outages and restarts

outageVars == <<outageEnd, outages>>
vars == <<limits, now, pc, due, started, sentAt, rec, asked, lastWait, outageVars>>

NoRecord == [open |-> FALSE, created |-> 0, deadline |-> 0, phase |-> "Enrolling",
             certConf |-> FALSE, polls |-> 0]
NoWait == [at |-> -1, seconds |-> 0]

\* A time as the API server stores it.
Stored(t) == (t \div Second) * Second

\* Mutant of transactionStartTime: the record is not looked at.
startOfCall(r, resumed, fallback) == fallback

\* transactionStartTime, where a new transaction keeps the start of Sign.
transactionStartTime(r, resumed, fallback) == IF resumed THEN r.created ELSE fallback

\* For IR and KUR under requestedValidity Duration.
requestedNotAfter(start) == Stored(start + Duration)

\* The delay of continuePolling and continueConfirming.
RequeueAfter(seconds, deadline) ==
    LET delay == pollDelay(CheckAfter(seconds, Second, Half), limits)
        left == deadline - now
    IN  IF left > 0 /\ left < delay THEN left ELSE delay

-----------------------------------------------------------------------------

Init ==
    /\ \E t \in {t \in Specs : validateTransaction(t)} :
          limits = transactionLimitsWithDefaults(t, Defaults)
    /\ now \in 0..(Second - 1)
    /\ pc = "idle" /\ due = now
    /\ started = 0 /\ sentAt = 0
    /\ rec = NoRecord
    /\ asked = {} /\ lastWait = NoWait
    /\ outageEnd = 0 /\ outages = 0

Sign ==
    /\ pc = "idle" /\ now >= due
    /\ pc' = "begun"
    /\ started' = now
    /\ UNCHANGED <<limits, now, due, sentAt, rec, asked, lastWait, outageVars>>

\* Sign returns, and its times are gone.
Return == started' = 0 /\ sentAt' = 0

\* The transaction ends and Sign is not called again.
Settle ==
    /\ pc' = "settled"
    /\ rec' = NoRecord
    /\ Return
    /\ UNCHANGED <<limits, now, due, asked, lastWait, outageVars>>

\* Send the next message of the recorded transaction r.
SendFor(r) ==
    /\ pc' = "waiting"
    /\ sentAt' = now
    /\ rec' = r
    /\ UNCHANGED <<limits, now, due, started, lastWait, outageVars>>

\* Mutant of WithinLimits: only confirmations have a deadline.
WithinPollLimit(r) ==
    /\ r.phase = "Confirming" => now <= r.deadline
    /\ r.phase # "Enrolling" => r.polls < limits.maximumPolls

\* The checks of exchange and confirm.
WithinLimits(r) ==
    /\ now <= r.deadline
    /\ r.phase # "Enrolling" => r.polls < limits.maximumPolls

NewRecord ==
    [NoRecord EXCEPT !.open = TRUE, !.created = Stored(now),
                     !.deadline = Stored(now + limits.maximumDuration)]

\* Mutant of Proceed: a transaction beyond its limits is left as it is.
ProceedWithinLimits ==
    LET r == IF rec.open THEN rec ELSE NewRecord
    IN  /\ pc = "begun"
        /\ WithinLimits(r)
        /\ SendFor(r)
        /\ UNCHANGED asked

\* The record is created or resumed, and exchange or confirm sends.
Proceed ==
    LET r == IF rec.open THEN rec ELSE NewRecord
    IN  /\ pc = "begun"
        /\ \/ ~WithinLimits(r) /\ Settle
           \/ /\ WithinLimits(r)
              /\ SendFor(r)
              /\ asked' = IF r.phase = "Enrolling"
                          THEN asked \cup {requestedNotAfter(transactionStartTime(r, rec.open, started))}
                          ELSE asked

\* Sign ends and runs again after this delay.
Requeue(delay, r, wait) ==
    /\ pc' = "idle"
    /\ due' = now + delay
    /\ rec' = r
    /\ lastWait' = wait
    /\ Return
    /\ UNCHANGED <<limits, now, asked>>

\* The waits that an answer may ask for: a pollRep names one, a waiting answer to
\* an enrollment does not.
Asked == IF rec.phase = "Enrolling" THEN {0} ELSE Hints \cup {0}

\* The server delays its answer.  Only a poll counts.
Waiting ==
    /\ pc = "waiting"
    /\ UNCHANGED outageVars
    /\ \E seconds \in Asked :
          LET polled == rec.phase = "Polling" \/ rec.certConf
              r == [rec EXCEPT !.phase = IF @ = "Enrolling" THEN "Polling" ELSE @,
                               !.certConf = (rec.phase = "Confirming"),
                               !.polls = IF polled THEN @ + 1 ELSE @]
          IN  Requeue(RequeueAfter(seconds, rec.deadline), r, [at |-> now, seconds |-> seconds])

\* A certificate arrives, and confirm goes on at once.
Granted ==
    LET r == [rec EXCEPT !.phase = "Confirming", !.certConf = FALSE]
    IN  /\ pc = "waiting" /\ rec.phase # "Confirming"
        /\ \/ ~WithinLimits(r) /\ Settle
           \/ WithinLimits(r) /\ SendFor(r) /\ UNCHANGED asked

\* pkiConf, an implicit confirmation or a permanent failure, and the end of a
\* refusal, whether or not the server has answered it.
Final ==
    /\ pc \in {"waiting", "refusing"}
    /\ Settle

\* completeOrRefuse tells the server that its certificate is refused, in an
\* exchange of its own.
Refuse ==
    /\ pc = "waiting" /\ rec.phase # "Confirming"
    /\ pc' = "refusing"
    /\ sentAt' = now
    /\ UNCHANGED <<limits, now, due, started, rec, asked, lastWait, outageVars>>

\* A retryable error: mapProtocolError asks for another try in a second.
Unavailable ==
    /\ pc = "waiting"
    /\ Requeue(Second, rec, NoWait)
    /\ UNCHANGED outageVars

\* Sign fails on the configuration, the workload's objects or the record, and
\* runs again after a second, with a backoff, or once the issuer is ready again;
\* the issuer is found not ready while Sign is due later; or the controller
\* restarts, and the new process calls Sign at once or when it leads.
Outage ==
    /\ pc # "settled" /\ outages < MaxOutages
    /\ outages' = outages + 1
    /\ \E outage \in Outages \cup {0, Second} :
          /\ Requeue(outage, rec, NoWait)
          /\ outageEnd' = now + outage

\* How far the clock may go before something must happen.
Horizon ==
    CASE pc = "idle"    -> due + Lag
      [] pc = "begun"   -> due + 2 * Lag
      [] pc \in {"waiting", "refusing"} -> sentAt + Timeout
      [] pc = "settled" -> now

Tick ==
    /\ now < Horizon /\ now < MaxTime
    /\ now' = now + 1
    /\ UNCHANGED <<limits, pc, due, started, sentAt, rec, asked, lastWait, outageVars>>

Next ==
    \/ Sign \/ Proceed \/ Waiting \/ Granted \/ Final \/ Refuse \/ Unavailable
    \/ Outage \/ Tick

Spec == Init /\ [][Next]_vars

\* The end of an exchange that the HTTP client gives up.
GivesUp == Unavailable \/ (pc = "refusing" /\ Final)

\* The work queue starts Sign when it is due, Sign goes on, the HTTP client gives
\* up at its timeout, and time passes.
FairSpec ==
    Spec /\ WF_vars(Sign) /\ WF_vars(Proceed) /\ WF_vars(GivesUp) /\ WF_vars(Tick)

-----------------------------------------------------------------------------
(* Properties. *)

\* The limits in force are ordered whichever of them the issuer sets, so that a
\* poll can be sent and a delay exists (transactionLimitsWithDefaults).
TypeOK ==
    /\ validateTransaction(limits) /\ limits # OmittedLimits
    /\ pc \in {"idle", "begun", "waiting", "refusing", "settled"}
    /\ now \in 0..MaxTime /\ due \in Nat /\ started \in 0..now /\ sentAt \in 0..now
    /\ rec.open \in BOOLEAN /\ rec.phase \in {"Enrolling", "Polling", "Confirming"}
    /\ rec.polls \in 0..limits.maximumPolls
    /\ asked \subseteq Nat
    /\ outageEnd \in Nat /\ outages \in 0..MaxOutages

\* After the last exchange Sign waits for its longest delay, or for the server to
\* take a refusal.
Longest == {limits.maximumPollInterval, Second, Timeout}

\* A record outlives its deadline, or an outage that goes on beyond it, by no more
\* than the last exchange and one delay or refusal, whatever wait the last answer
\* asks for (exchange, confirm, pollDelay, rejectCertificate).
EndsInTime ==
    rec.open =>
      \E start \in {rec.deadline, outageEnd}, d \in Longest : now <= start + Timeout + 2 * Lag + d

\* Unless an outage or a restart comes between, a message that follows a wait
\* leaves the server the minimum interval, or what is left to the deadline, and
\* comes within the maximum interval (continuePolling, continueConfirming).
PollInterval ==
    pc = "waiting" /\ lastWait # NoWait =>
      /\ \/ sentAt - lastWait.at >= limits.minimumPollInterval
         \/ sentAt >= rec.deadline
      /\ started - lastWait.at <= limits.maximumPollInterval + Lag

\* However late an enrollment is repeated in a transaction, it asks for the
\* validity that was asked for first, up to the time that creating the record
\* takes and the whole seconds of its times (transactionStartTime,
\* requestedNotAfter).
NotAfterKept == \A a, b \in asked : a - b <= 2 * Lag + Second

\* Every transaction ends, even when the server answers nothing but busy or
\* delays for ever.
TransactionEnds == <>(pc = "settled")
=============================================================================
