----------------------------- MODULE Enrollment -----------------------------
(***************************************************************************)
(* What a CMP transaction promises to whoever runs it, without messages,   *)
(* nonces, signatures, retries or records.  The server answers as in       *)
(* CMPAnswers, to messages that may be repeated or late.  The caller moves *)
(* only forward, holds a certificate before the server is asked to confirm *)
(* it, and ends with that certificate once the server has confirmed it.    *)
(***************************************************************************)
EXTENDS CMPAnswers

CONSTANT Certificate    \* numbers of the certificates issued in the transaction

VARIABLES
    asked,      \* does the caller accept a certificate without confirming it?
    server,     \* what the server knows of the transaction
    caller      \* how far the caller has come, and the certificate it holds

vars == <<asked, server, caller>>

Init ==
    /\ asked \in BOOLEAN
    /\ server = [state |-> "unknown", cert |-> 0]
    /\ caller = [phase |-> "enroll", cert |-> 0]

\* Can a confirmation of certificate c be on its way?  Once the caller has given
\* up, nothing more is known of what it held.
MayConfirm(c) ==
    \/ caller.phase \in {"confirm", "issued"} /\ c = caller.cert
    \/ caller.phase = "closed"

\* The server takes a message, of this kind or one that polls for its answer.
Serve(kind, c) ==
    /\ UNCHANGED <<asked, caller>>
    /\ \E a \in AnswersTo(server, kind, c) :
          /\ a.reply.kind = "implicit" => asked
          /\ server' = a.srv

Enroll == Serve("enroll", 0)

Confirm(c) == MayConfirm(c) /\ Serve("certConf", c)

Reject(c) == Serve("reject", c)

Move(phase, c) ==
    /\ caller' = [phase |-> phase, cert |-> c]
    /\ UNCHANGED <<asked, server>>

\* The certificate is delayed.
Wait ==
    /\ caller.phase \in {"enroll", "poll"}
    /\ server.state # "unknown"
    /\ Move("poll", 0)

\* The caller takes a certificate of the server that it has to confirm.
Hold(c) ==
    /\ caller.phase \in {"enroll", "poll"}
    /\ c \in 1..server.cert
    /\ Move("confirm", c)

\* The caller learns that its certificate is final.
Obtain(c) ==
    /\ server = [state |-> "confirmed", cert |-> c]
    /\ \/ caller.phase \in {"enroll", "poll"} /\ asked
       \/ caller.phase = "confirm" /\ c = caller.cert
    /\ Move("issued", c)

\* The caller gives the transaction up, or needs it no longer.
Close ==
    /\ caller.phase # "closed"
    /\ Move("closed", 0)

Next ==
    \/ Enroll \/ Wait \/ Close
    \/ \E c \in Certificate : Confirm(c) \/ Reject(c) \/ Hold(c) \/ Obtain(c)

Spec == Init /\ [][Next]_vars
=============================================================================
