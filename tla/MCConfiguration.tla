-------------------------- MODULE MCConfiguration --------------------------
(***************************************************************************)
(* Instances of Configuration.                                             *)
(***************************************************************************)
EXTENDS Configuration

\* A Secret for everything, and one for two of three references.
Shared == [valid |-> TRUE, names |-> TRUE, http |-> TRUE, pbm |-> TRUE,
           trust |-> "a", signers |-> "none", tls |-> "none", credentials |-> "a"]
Split == [Shared EXCEPT !.signers = "b", !.http = FALSE, !.tls = "a", !.pbm = FALSE]

\* A spec with a defect of each kind, then two good ones.
Repaired ==
    <<[Shared EXCEPT !.valid = FALSE], [Shared EXCEPT !.signers = ""],
      [Shared EXCEPT !.trust = ""], [Shared EXCEPT !.names = FALSE], Shared, Split>>

Everything == {"ca", "signers", "tlsCA", "reference", "secret", "certificate", "privateKey"}

\* Usable in full, or all but the second of two values.
FullOrTorn == {Everything, Everything \ {"secret", "privateKey"}}
=============================================================================
