----------------------------- MODULE MCIdentity -----------------------------
(* Constants of the run of Identity. *)
EXTENDS Identity

\* Every step of the pair publish but the fsync that makes the journal durable.
MCFailPoints == ({"backUp"} \cup Staging \cup Publishing) \ {"syncJournal"}

\* One rotation among other commands, with kills; rotations one after the other,
\* with kills; rotations one after the other, with power losses.
MCScenarios ==
    {[commands |-> Commands, identities |-> 2, faults |-> 1, kills |-> 2, losses |-> 0],
     [commands |-> Rotators, identities |-> 4, faults |-> 1, kills |-> 3, losses |-> 0],
     [commands |-> Rotators, identities |-> 4, faults |-> 2, kills |-> 0, losses |-> 2]}
=============================================================================
