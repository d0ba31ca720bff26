---------------------------- MODULE MCLifecycle ----------------------------
(* One established relationship and one invite on the same repository. *)
EXTENDS Lifecycle

MCEstablished == {0}

\* Bound: with the last command, a teardown meets two commit runs only if the first
\* is over and the invite has not expired.
Bounded ==
    \/ commands < MaxCommands
    \/ td = Idle
    \/ \E r \in Attempts : run[r] = NoRun
    \/ late = {} /\ run[1].pc = "done"

MCSpec == Init /\ [][Next /\ Bounded']_vars
=============================================================================
