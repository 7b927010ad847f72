------------------------------ MODULE MCTiming ------------------------------
(***************************************************************************)
(* Instances of Timing, and what the documentation says of its poll        *)
(* intervals.                                                              *)
(***************************************************************************)
EXTENDS Timing

ShortDefaults ==
    [maximumDuration |-> 5, minimumPollInterval |-> 1, maximumPollInterval |-> 3, maximumPolls |-> 2]

\* The omitted block, blocks that are invalid because a limit is missing, a short
\* and a long one.
SmallSpecs ==
    TransactionSpec({0, 2})
      \cup {[maximumDuration |-> 7, minimumPollInterval |-> 2, maximumPollInterval |-> 4,
             maximumPolls |-> 2]}

OneSpec == {[maximumDuration |-> 9, minimumPollInterval |-> 2, maximumPollInterval |-> 6,
             maximumPolls |-> 2]}

\* "Poll intervals honor the server pollRep hint clamped to the minimum and
\* maximum": a poll that follows a wait comes no sooner than that, or than the
\* deadline.
HintHonoured ==
    pc = "waiting" /\ rec.phase = "Polling" /\ lastWait # NoWait =>
      \/ sentAt - lastWait.at >= pollDelay(lastWait.seconds * Second, limits)
      \/ sentAt >= rec.deadline
=============================================================================
