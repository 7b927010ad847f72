----------------------------- MODULE MCWorkload -----------------------------
(***************************************************************************)
(* Instances of WorkloadKeys.                                              *)
(***************************************************************************)
EXTENDS WorkloadKeys

\* Issuers that renew with KUR, with and without a fallback, and one that never
\* uses a workload key.
AllIssuers ==
    {[initial |-> "IR", renewal |-> "", fallback |-> TRUE],
     [initial |-> "IR", renewal |-> "KUR", fallback |-> FALSE],
     [initial |-> "IR", renewal |-> "P10CR", fallback |-> TRUE],
     [initial |-> "P10CR", renewal |-> "KUR", fallback |-> TRUE],
     [initial |-> "P10CR", renewal |-> "", fallback |-> FALSE]}

\* Requests that claim to be a first renewal with a key of somebody else, and
\* requests that lack what makes one a renewal of the Certificate.
Plausible == [revision |-> 2, owner |-> 1, keyName |-> "staged", csrKey |-> 1]
Claims ==
    {[Plausible EXCEPT !.keyName = n, !.csrKey = OtherKey] : n \in {"current", "other"}}
      \cup {[Plausible EXCEPT !.revision = r] : r \in {NoRevision, BadRevision}}
      \cup {[Plausible EXCEPT !.owner = 2]}

\* Either three requests follow one another, or two edits do.
ThreeRequestsOrTwoEdits == requests <= 2 \/ edits <= 1
=============================================================================
