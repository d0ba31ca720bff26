----------------------------- MODULE MCReceive -----------------------------
(***************************************************************************)
(* Small instances of Receive for TLC: two families of envelopes, each     *)
(* chosen so that its members interfere.                                   *)
(***************************************************************************)
EXTENDS Receive, TLC

H(id, sender, seq, nonce, ep, kind, new, to) ==
    [id |-> id, sender |-> sender, seq |-> seq, nonce |-> nonce, epoch |-> ep,
     created |-> 0, kind |-> kind, valid |-> TRUE, new |-> new, to |-> to]

\* An honest event; the announcement of a new identity; a rival announcement
\* that reuses the event's sequence number; an event of the new identity that
\* reuses its id; and one that reuses its nonce, created when the replay guard
\* may have forgotten it, with a number that jumps too far from nothing.
LogEnvelopes == {"first", "announce", "rival", "byNew", "late"}
LogHeader ==
    "first"    :> H(1, "old", 1, 1, 1, "message", 0, "old") @@
    "announce" :> H(2, "old", 2, 2, 1, "rotated", 0, "new") @@
    "rival"    :> H(3, "old", 1, 3, 1, "rotated", 0, "other") @@
    "byNew"    :> H(1, "new", 1, 4, 1, "receipt", 0, "old") @@
    "late"     :> [H(5, "old", 3, 1, 1, "message", 0, "old") EXCEPT !.created = 1]

\* A key rotation: the prepare of epoch 2, a message already sealed under epoch
\* 2, which is held until the prepare is processed and may be rejected, and one
\* over the size cap, which is not received at all.
HookEnvelopes == {"prepare", "early", "huge"}
HookHeader ==
    "prepare" :> H(1, "old", 1, 1, 1, "prepare", 2, "old") @@
    "early"   :> H(2, "old", 2, 2, 2, "message", 0, "old") @@
    "huge"    :> H(3, "old", 3, 3, 1, "message", 0, "old")
=============================================================================
