------------------------------- MODULE Inbox -------------------------------
(***************************************************************************)
(* What receiving promises, without saying how: an append-only log of the  *)
(* peer's events in which no two entries share an event id, a sender       *)
(* sequence number or a replay nonce; every entry is acknowledged with the *)
(* commit that logs it, at most once; and every entry is shown to the user *)
(* or buried as inapplicable, never both and never twice.                  *)
(***************************************************************************)
EXTENDS Integers

CONSTANTS
    Envelopes,         \* the distinct sealed byte strings
    Header,            \* the protected header of each
    ReceiptsPermitted  \* the policy's accepted_receipts_enabled

VARIABLES
    log,     \* the accepted envelopes
    shown,   \* those projected into the conversation
    dead,    \* those whose projection was refused for good
    told     \* those acknowledged to the peer

vars == <<log, shown, dead, told>>

\* e may not stand beside f in one log.
Clash(e, f) ==
    \/ Header[e].id = Header[f].id
    \/ Header[e].sender = Header[f].sender /\ Header[e].seq = Header[f].seq
    \/ Header[e].nonce = Header[f].nonce

Acknowledged(e) == ReceiptsPermitted /\ Header[e].kind # "receipt"

Init == log = {} /\ shown = {} /\ dead = {} /\ told = {}

Accept(e) ==
    /\ e \notin log
    /\ \A f \in log : ~Clash(e, f)
    /\ log' = log \cup {e}
    /\ told' = IF Acknowledged(e) THEN told \cup {e} ELSE told
    /\ UNCHANGED <<shown, dead>>

Show(e) ==
    /\ e \in log \ (shown \cup dead)
    /\ shown' = shown \cup {e}
    /\ UNCHANGED <<log, dead, told>>

Bury(e) ==
    /\ e \in log \ (shown \cup dead)
    /\ dead' = dead \cup {e}
    /\ UNCHANGED <<log, shown, told>>

Next == \E e \in Envelopes : Accept(e) \/ Show(e) \/ Bury(e)

Spec == Init /\ [][Next]_vars
=============================================================================
