----------------------------- MODULE MCWatcher -----------------------------
(***************************************************************************)
(* Watcher for TLC: every object may be pushed, consumed and pushed again, *)
(* one poll streams fewer objects than there are, and a push has two       *)
(* attempts against a peer that moves the branch.                          *)
(***************************************************************************)
EXTENDS Watcher

=============================================================================
