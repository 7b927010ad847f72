------------------------------- MODULE Limits -------------------------------
(***************************************************************************)
(* The limits of a transaction: their validation, the defaults of an       *)
(* omitted block, and the delay between polls.  All operators are pure.    *)
(* Durations are numbers of ticks.                                         *)
(***************************************************************************)
EXTENDS Integers

\* TransactionSpec.
TransactionSpec(D) ==
    [maximumDuration : D, minimumPollInterval : D, maximumPollInterval : D, maximumPolls : D]

OmittedLimits ==
    [maximumDuration |-> 0, minimumPollInterval |-> 0, maximumPollInterval |-> 0, maximumPolls |-> 0]

\* The limits of validateTransactionAndPolicy.
validateTransaction(t) ==
    \/ t = OmittedLimits
    \/ /\ t.maximumDuration > 0 /\ t.minimumPollInterval > 0
       /\ t.maximumPollInterval >= t.minimumPollInterval
       /\ t.maximumPolls >= 1

\* Mutant of transactionLimitsWithDefaults: the poll limit has no default.
limitsWithoutPollDefault(t, defaults) ==
    [maximumDuration     |-> IF t.maximumDuration <= 0 THEN defaults.maximumDuration ELSE t.maximumDuration,
     minimumPollInterval |-> IF t.minimumPollInterval <= 0 THEN defaults.minimumPollInterval
                             ELSE t.minimumPollInterval,
     maximumPollInterval |-> IF t.maximumPollInterval <= 0 THEN defaults.maximumPollInterval
                             ELSE t.maximumPollInterval,
     maximumPolls        |-> t.maximumPolls]

\* Every limit gets its own default.  The maximum interval is compared with the
\* minimum in force.
transactionLimitsWithDefaults(t, defaults) ==
    LET minimum == IF t.minimumPollInterval <= 0 THEN defaults.minimumPollInterval
                   ELSE t.minimumPollInterval
    IN  [maximumDuration     |-> IF t.maximumDuration <= 0 THEN defaults.maximumDuration
                                 ELSE t.maximumDuration,
         minimumPollInterval |-> minimum,
         maximumPollInterval |-> IF t.maximumPollInterval < minimum
                                 THEN defaults.maximumPollInterval ELSE t.maximumPollInterval,
         maximumPolls        |-> IF t.maximumPolls < 1 THEN defaults.maximumPolls ELSE t.maximumPolls]

\* A product in a signed integer whose least value is -half.
Wrapped(n, half) == ((n + half) % (2 * half)) - half

\* The wait for n seconds that extractPollRep and confirmationDelay compute.
CheckAfter(n, second, half) == Wrapped(n * second, half)

\* Mutant of pollDelay: the server's wait has no upper bound.
pollDelayUnbounded(checkAfter, t) ==
    IF checkAfter < t.minimumPollInterval THEN t.minimumPollInterval ELSE checkAfter

\* The wait clamped to the configured bounds.
pollDelay(checkAfter, t) ==
    IF checkAfter < t.minimumPollInterval THEN t.minimumPollInterval
    ELSE IF checkAfter > t.maximumPollInterval THEN t.maximumPollInterval
    ELSE checkAfter
=============================================================================
