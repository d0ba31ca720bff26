------------------------------ MODULE Rotation ------------------------------
(***************************************************************************)
(* Key rotation between the two sides of a relationship (crypto/rotation.py *)
(* and the `mas rotate` command).                                          *)
(*                                                                         *)
(* Each side has its own database.  They exchange sealed events over a     *)
(* relay that delivers in any order and at any time; duplicates and lost   *)
(* hooks are the business of module Receive, whose receive transaction and *)
(* hooks are Accept and the Hook actions here.  Operators run `mas rotate`  *)
(* at any moment, and die between a send and the mark that should follow.  *)
(***************************************************************************)
EXTENDS Integers, FiniteSets, FiniteSetsExt

CONSTANTS
    Sides,       \* the two sides of the relationship
    Window,      \* ROTATION_WINDOW
    MaxEpoch,    \* bound: epochs a rotation may reach
    MaxKeys,     \* bound: key pairs the two sides generate after their first
    MaxSends,    \* bound: events a side sends
    MaxTime      \* bound: the clock

ASSUME ConstantsAssumption ==
    /\ \E x, y \in Sides : x # y /\ Sides = {x, y}
    /\ "none" \notin Sides
    /\ Window \in Nat \ {0} /\ MaxEpoch \in Nat \ {0}
    /\ MaxKeys \in Nat /\ MaxSends \in Nat /\ MaxTime \in Nat

Peer(s) == CHOOSE p \in Sides : p # s
Epochs == 1..MaxEpoch
Roles == {"rotating", "acking"}

\* A key pair, named after the side that generated it.
Keys == Sides \X (0..MaxKeys)
NoKey == <<"none", 0>>

\* A key_rotations row: phase (candidate, acknowledged, confirmed, committed, discarded),
\* prior epoch, key, deadline, and whether a wrap of the new key was seen.
NoRow == [phase |-> "none"]

\* An event: its header (a number for its id, key_epoch), the keys its CEK is
\* wrapped to, its type (prepare, ack, confirm, commit, data) and the payload: an
\* epoch, or a prepare's keys and deadline.
NoEvent == [id |-> 0]

VARIABLES
    keyEpoch,  \* relationships.key_epoch
    peerKey,   \* relationships.peer_agreement_key
    epochs,    \* key_epochs: the key of each epoch's row, this side's or the peer's
    rot,       \* key_rotations, by role and epoch
    pending,   \* rotation_wrap_seen_pending: seen_at by epoch, -1 without a row
    used,      \* the key_epoch values of the rows of `events`
    latest,    \* the newest accepted security.key.prepare
    acked,     \* ids of the prepares that an ack in `events` answers
    due,       \* accepted security.key.* events without a processed marker
    net,       \* events on the relay, by receiver
    job,       \* the `mas rotate` process of a side: what it has yet to do
    sent,      \* number of events a side has sent
    made,      \* number of key pairs a side has generated
    now

dbVars  == <<keyEpoch, peerKey, epochs, rot, pending>>
logVars == <<used, latest, acked, due>>
vars    == <<dbVars, logVars, net, job, sent, made, now>>

Init ==
    /\ keyEpoch = [s \in Sides |-> 1]
    /\ peerKey = [s \in Sides |-> <<Peer(s), 0>>]
    /\ epochs = [s \in Sides |-> [e \in Epochs |-> IF e = 1 THEN <<s, 0>> ELSE NoKey]]
    /\ rot = [s \in Sides |-> [r \in Roles |-> [e \in Epochs |-> NoRow]]]
    /\ pending = [s \in Sides |-> [e \in Epochs |-> -1]]
    /\ used = [s \in Sides |-> {1}] /\ latest = [s \in Sides |-> NoEvent]
    /\ acked = [s \in Sides |-> {}] /\ due = [s \in Sides |-> {}]
    /\ net = [s \in Sides |-> {}]
    /\ job = [s \in Sides |-> "idle"]
    /\ sent = [s \in Sides |-> 0] /\ made = [s \in Sides |-> 0]
    /\ now = 0

(***************************************************************************)
(* The key inventory                                                       *)
(***************************************************************************)

OwnEpochs(s) == {e \in Epochs : epochs[s][e][1] = s}
PeerRows(s)  == {e \in Epochs : epochs[s][e][1] = Peer(s)}

\* _peer_key_epochs: the rows of the peer's keys, and peer_agreement_key under
\* the current key_epoch when that epoch has no such row.
PeerEpochs(s) == PeerRows(s) \cup {keyEpoch[s]}
PeerKeyAt(s, e) == IF e \in PeerRows(s) THEN epochs[s][e] ELSE peerKey[s]

CurrentEpoch(s) == Max(OwnEpochs(s) \cup PeerEpochs(s))

InFlight(s, r) ==
    {e \in Epochs : rot[s][r][e].phase \notin {"none", "committed", "discarded"}}

(***************************************************************************)
(* Sending                                                                 *)
(***************************************************************************)

\* may_send
MaySend(s) ==
    \A e \in Epochs : rot[s]["acking"][e].phase = "acknowledged"
                        => now <= rot[s]["acking"][e].deadline

\* dual_wrap_keys and _recipients_for: the header's key_epoch and the wraps.
SealEpoch(s) ==
    IF InFlight(s, "acking") # {} THEN Max(InFlight(s, "acking")) ELSE keyEpoch[s]
SealWraps(s) ==
    IF InFlight(s, "acking") # {}
    THEN LET e == Max(InFlight(s, "acking"))
         IN  {PeerKeyAt(s, rot[s]["acking"][e].prior), PeerKeyAt(s, e)}
    ELSE {peerKey[s]}

Blank == [e |-> 0, prior |-> NoKey, key |-> NoKey, deadline |-> 0]

\* _send_event: one transaction logs the event, the release puts it on the relay.
\* Equal ordinary events on the relay count as one.
Send(s, type, body) ==
    /\ MaySend(s)
    /\ sent[s] < MaxSends
    /\ LET m == [id |-> IF type = "data" THEN 0 ELSE sent[s] + 1, epoch |-> SealEpoch(s),
                 wraps |-> SealWraps(s), type |-> type, e |-> body.e,
                 prior |-> body.prior, key |-> body.key, deadline |-> body.deadline]
       IN  /\ used' = [used EXCEPT ![s] = @ \cup {m.epoch}]
           /\ net' = [net EXCEPT ![Peer(s)] = @ \cup {m}]
    /\ sent' = [sent EXCEPT ![s] = @ + 1]

\* An ordinary event, or the receipt of one.
SendData(s) ==
    /\ Send(s, "data", Blank)
    /\ UNCHANGED <<dbVars, latest, acked, due, job, made, now>>

(***************************************************************************)
(* The rotating side's commands                                            *)
(***************************************************************************)

\* begin_rotation: the key file, then one transaction.  The discarded row of an
\* earlier attempt makes way.  The row's prepare_event_id stays empty, because
\* cmd_rotate does not know the event's id yet.
MayBegin(s) == InFlight(s, "rotating") \cup InFlight(s, "acking") = {}

BeginRotation(s) ==
    /\ job[s] = "idle"
    /\ made[s] + made[Peer(s)] < MaxKeys
    /\ MayBegin(s)
    /\ OwnEpochs(s) # {}
    /\ CurrentEpoch(s) < MaxEpoch
    /\ LET e == CurrentEpoch(s) + 1
           k == <<s, made[s] + 1>>
       IN  /\ epochs' = [epochs EXCEPT ![s][e] = k]
           /\ rot' = [rot EXCEPT ![s]["rotating"][e] =
                        [phase |-> "candidate", prior |-> Max(OwnEpochs(s)), key |-> k,
                         deadline |-> now + Window, seen |-> FALSE]]
    /\ made' = [made EXCEPT ![s] = @ + 1]
    /\ job' = [job EXCEPT ![s] = "prepare"]
    /\ UNCHANGED <<keyEpoch, peerKey, pending, logVars, net, sent, now>>

SendPrepare(s) ==
    /\ job[s] = "prepare"
    /\ \E e \in InFlight(s, "rotating") :
          LET row == rot[s]["rotating"][e]
          IN  Send(s, "prepare", [e |-> e, prior |-> epochs[s][row.prior], key |-> row.key,
                                  deadline |-> row.deadline])
    /\ job' = [job EXCEPT ![s] = "idle"]
    /\ UNCHANGED <<dbVars, latest, acked, due, made, now>>

\* build_confirm_payload, then the send.
SendConfirm(s) ==
    /\ job[s] = "idle"
    /\ \E e \in InFlight(s, "rotating") :
          /\ rot[s]["rotating"][e].phase \in {"acknowledged", "confirmed"}
          /\ rot[s]["rotating"][e].seen
          /\ Send(s, "confirm", [Blank EXCEPT !.e = e])
    /\ job' = [job EXCEPT ![s] = "confirm"]
    /\ UNCHANGED <<dbVars, latest, acked, due, made, now>>

\* mark_confirmed; a mark that finds nothing to do, or raises, changes nothing.
MarkConfirmed(s) ==
    /\ job[s] = "confirm"
    /\ rot' = [rot EXCEPT ![s]["rotating"] =
                 [e \in Epochs |-> IF @[e].phase = "acknowledged"
                                   THEN [@[e] EXCEPT !.phase = "confirmed"] ELSE @[e]]]
    /\ job' = [job EXCEPT ![s] = "idle"]
    /\ UNCHANGED <<keyEpoch, peerKey, epochs, pending, logVars, net, sent, made, now>>

(***************************************************************************)
(* The acking side's commands                                              *)
(***************************************************************************)

Confirmed_WhenAcked(s) ==
    {e \in Epochs : rot[s]["acking"][e].phase \in {"acknowledged", "confirmed"}}
Confirmed(s) == {e \in Epochs : rot[s]["acking"][e].phase = "confirmed"}
Committed(s) == {e \in Epochs : rot[s]["acking"][e].phase = "committed"}

\* build_commit_payload, which repeats the last commit when none is due, and the send.
SendCommit(s) ==
    /\ job[s] = "idle"
    /\ Confirmed(s) \cup Committed(s) # {}
    /\ LET e == IF Confirmed(s) # {} THEN Max(Confirmed(s)) ELSE Max(Committed(s))
       IN  Send(s, "commit", [Blank EXCEPT !.e = e])
    /\ job' = [job EXCEPT ![s] = "commit"]
    /\ UNCHANGED <<dbVars, latest, acked, due, made, now>>

\* mark_committed: from here on only the new key is wrapped to.
MarkCommitted(s) ==
    /\ job[s] = "commit"
    /\ IF Confirmed(s) = {}
       THEN UNCHANGED <<rot, keyEpoch, peerKey>>
       ELSE LET e == Max(Confirmed(s))
            IN  /\ rot' = [rot EXCEPT ![s]["acking"][e].phase = "committed"]
                /\ keyEpoch' = [keyEpoch EXCEPT ![s] = e]
                /\ peerKey' = [peerKey EXCEPT ![s] = rot[s]["acking"][e].key]
    /\ job' = [job EXCEPT ![s] = "idle"]
    /\ UNCHANGED <<epochs, pending, logVars, net, sent, made, now>>

\* The command's process dies, or its send fails.
CommandDies(s) ==
    /\ job[s] # "idle"
    /\ job' = [job EXCEPT ![s] = "idle"]
    /\ UNCHANGED <<dbVars, logVars, net, sent, made, now>>

(***************************************************************************)
(* Receiving                                                               *)
(***************************************************************************)

\* _try_unseal: the current epoch's key if it is this side's, and the newest older
\* one; otherwise the two newest.
TriedEpochs(s) ==
    LET own   == OwnEpochs(s)
        top   == IF keyEpoch[s] \in own THEN {keyEpoch[s]} ELSE {Max(own)}
        below == {e \in own : \A t \in top : e < t}
    IN  top \cup (IF below = {} THEN {} ELSE {Max(below)})
Unsealable(s, m) == \E e \in TriedEpochs(s) : epochs[s][e] \in m.wraps

\* note_decrypted_new_wrap: by the header's epoch, whichever wrap was opened.
NoteWrap(s, m) ==
    IF m.epoch \in InFlight(s, "rotating")
    THEN /\ rot' = [rot EXCEPT ![s]["rotating"][m.epoch].seen = TRUE]
         /\ UNCHANGED pending
    ELSE /\ pending' = [pending EXCEPT ![s][m.epoch] = now]
         /\ UNCHANGED rot

\* The receive transaction; an event of an epoch still unknown stays on the relay.
\* An ordinary event's hook follows at once, or is lost in a crash.
Accept(s, m) ==
    /\ Unsealable(s, m)
    /\ m.epoch <= CurrentEpoch(s)
    /\ epochs[s][m.epoch] # NoKey
    /\ net' = [net EXCEPT ![s] = @ \ {m}]
    /\ used' = [used EXCEPT ![s] = @ \cup {m.epoch}]
    /\ IF m.type = "data"
       THEN /\ NoteWrap(s, m) \/ UNCHANGED <<rot, pending>>
            /\ UNCHANGED <<due, latest>>
       ELSE /\ due' = [due EXCEPT ![s] = @ \cup {m}]
            /\ latest' = IF m.type = "prepare" /\ m.id > latest[s].id
                         THEN [latest EXCEPT ![s] = m] ELSE latest
            /\ UNCHANGED <<rot, pending>>
    /\ UNCHANGED <<keyEpoch, peerKey, epochs, acked, job, sent, made, now>>

\* No key opens it, its epoch's row is gone, or its epoch stayed unknown for too
\* long (on_data_event_epoch): quarantined and consumed.
Refuse(s, m) ==
    /\ \/ ~Unsealable(s, m)
       \/ m.epoch > CurrentEpoch(s) /\ now > Window
       \/ m.epoch <= CurrentEpoch(s) /\ epochs[s][m.epoch] = NoKey
    /\ net' = [net EXCEPT ![s] = @ \ {m}]
    /\ UNCHANGED <<dbVars, logVars, job, sent, made, now>>

\* The hook of m runs to its end: the marker of rotation_processed_events.
MarkDone(s, m) == due' = [due EXCEPT ![s] = @ \ {m}]

(***************************************************************************)
(* The acking side's hooks                                                 *)
(***************************************************************************)

\* The epoch of the peer key a prepare continues from, 0 if it is not held.
PriorEpoch(s, m) ==
    LET held == {e \in PeerEpochs(s) : PeerKeyAt(s, e) = m.prior}
    IN  CASE held = {} -> 0
          [] keyEpoch[s] \in held -> keyEpoch[s]
          [] OTHER -> Min(held)

\* on_prepare has stored this prepare's key before.
Repeated(s, m) ==
    LET e == PriorEpoch(s, m) + 1
    IN  e > 1 /\ e \in PeerRows(s) /\ epochs[s][e] = m.key

\* on_prepare, every other condition: continuity, the newest prior key, an epoch
\* nobody has used, no rotation in flight, and the deadline.
Acceptable_OwnEpochUnchecked(s, m) ==
    LET e == PriorEpoch(s, m) + 1
    IN  e > 1 /\ e <= MaxEpoch /\ e - 1 = Max(PeerEpochs(s)) /\ now <= m.deadline

Acceptable(s, m) ==
    LET e == PriorEpoch(s, m) + 1
    IN  /\ e > 1 /\ e <= MaxEpoch /\ e - 1 = Max(PeerEpochs(s))
        /\ epochs[s][e] = NoKey
        /\ e > CurrentEpoch(s)
        /\ MayBegin(s)
        /\ now <= m.deadline

\* Prepares that are looked at: by the hook, and by `mas rotate --ack`, which takes
\* the newest, rejected before or not.
Considered(s, m) == m.type = "prepare" /\ m \in due[s] \cup {latest[s]}

StoreCandidate(s, m) ==
    /\ Considered(s, m)
    /\ ~Repeated(s, m) /\ Acceptable(s, m)
    /\ LET e == PriorEpoch(s, m) + 1
       IN  /\ epochs' = [epochs EXCEPT ![s][e] = m.key]
           /\ rot' = [rot EXCEPT ![s]["acking"][e] =
                        [phase |-> "acknowledged", prior |-> e - 1, key |-> m.key,
                         deadline |-> m.deadline, seen |-> FALSE]]
    /\ UNCHANGED <<keyEpoch, peerKey, pending, logVars, net, job, sent, made, now>>

\* The rest of it: the ack, unless one was sent, and the marker.  After a crash in
\* between, or a paused send, the next poll comes here again.
SendAck(s, m) ==
    /\ Considered(s, m)
    /\ Repeated(s, m) /\ m.id \notin acked[s]
    /\ Send(s, "ack", [Blank EXCEPT !.e = PriorEpoch(s, m) + 1])
    /\ acked' = [acked EXCEPT ![s] = @ \cup {m.id}]
    /\ MarkDone(s, m)
    /\ UNCHANGED <<dbVars, latest, job, made, now>>

\* A rejected or conflicting prepare is marked: no later poll looks at it.
RejectPrepare(s, m) ==
    /\ m \in due[s] /\ m.type = "prepare"
    /\ ~Repeated(s, m) /\ ~Acceptable(s, m)
    /\ MarkDone(s, m)
    /\ UNCHANGED <<dbVars, used, latest, acked, net, job, sent, made, now>>

OnConfirm(s, m) ==
    /\ m \in due[s] /\ m.type = "confirm"
    /\ rot' = IF rot[s]["acking"][m.e].phase = "acknowledged"
              THEN [rot EXCEPT ![s]["acking"][m.e].phase = "confirmed"] ELSE rot
    /\ MarkDone(s, m)
    /\ UNCHANGED <<keyEpoch, peerKey, epochs, pending, used, latest, acked, net, job,
                   sent, made, now>>

(***************************************************************************)
(* The rotating side's hooks                                               *)
(***************************************************************************)

\* on_ack: the candidate of that epoch, whichever prepare the ack answers, is
\* acknowledged within its deadline, and a parked decrypt signal is consumed.
Acknowledges(s, m) ==
    LET row == rot[s]["rotating"][m.e]
    IN  \/ row.phase = "acknowledged"
        \/ row.phase = "candidate" /\ now <= row.deadline

OnAck(s, m) ==
    /\ m \in due[s] /\ m.type = "ack"
    /\ IF Acknowledges(s, m)
       THEN /\ LET row == rot[s]["rotating"][m.e]
               IN  rot' = [rot EXCEPT ![s]["rotating"][m.e] =
                             [row EXCEPT !.phase = "acknowledged",
                                         !.seen = row.seen \/ pending[s][m.e] >= 0]]
            /\ pending' = [pending EXCEPT ![s][m.e] = -1]
       ELSE UNCHANGED <<rot, pending>>
    /\ MarkDone(s, m)
    /\ UNCHANGED <<keyEpoch, peerKey, epochs, used, latest, acked, net, job, sent,
                   made, now>>

\* on_commit: only a confirmed rotation commits; anything else is a redelivery or
\* rejected, and marked either way.
OnCommit(s, m) ==
    /\ m \in due[s] /\ m.type = "commit"
    /\ IF rot[s]["rotating"][m.e].phase = "confirmed"
       THEN /\ rot' = [rot EXCEPT ![s]["rotating"][m.e].phase = "committed"]
            /\ keyEpoch' = [keyEpoch EXCEPT ![s] = m.e]
       ELSE UNCHANGED <<rot, keyEpoch>>
    /\ MarkDone(s, m)
    /\ UNCHANGED <<peerKey, epochs, pending, used, latest, acked, net, job, sent,
                   made, now>>

(***************************************************************************)
(* Maintenance                                                             *)
(***************************************************************************)

\* Candidates past their deadline, and committed rotations: their old key is due
\* after a time or a number of events that this clock does not tell apart.
TimedOut(s) ==
    {e \in InFlight(s, "rotating") : /\ rot[s]["rotating"][e].phase = "candidate"
                                     /\ rot[s]["rotating"][e].deadline <= now}
Retirable(s) ==
    {e \in Epochs : /\ rot[s]["rotating"][e].phase = "committed"
                    /\ epochs[s][e][1] = s}
\* _compact_peer_key_epochs: all peer rows but the two newest.
Compacted(s) == {e \in PeerRows(s) : Cardinality({f \in PeerRows(s) : f > e}) >= 2}

\* A DELETE on key_epochs that the foreign key of `events` refuses raises, and
\* nothing of its transaction remains.  sweep: expire parked signals and compact;
\* then discard one candidate, which ends it; else delete the old keys that are due.
DeleteKeys(s, old) ==
    epochs' = [epochs EXCEPT ![s] = [e \in Epochs |-> IF e \in old THEN NoKey ELSE @[e]]]

Discard(s, e) ==
    IF e \in used[s]
    THEN DeleteKeys(s, Compacted(s)) /\ UNCHANGED rot
    ELSE /\ DeleteKeys(s, Compacted(s) \cup {e})
         /\ rot' = [rot EXCEPT ![s]["rotating"][e].phase = "discarded"]

RetireOldKeys(s) ==
    LET old == {e \in Retirable(s) : rot[s]["rotating"][e].prior \notin used[s]}
    IN  /\ DeleteKeys(s, Compacted(s) \cup {rot[s]["rotating"][e].prior : e \in old})
        /\ rot' = [rot EXCEPT ![s]["rotating"] =
                     [e \in Epochs |-> IF e \in old THEN NoRow ELSE @[e]]]

Sweep(s) ==
    /\ Compacted(s) \cap used[s] = {}
    /\ pending' = [pending EXCEPT ![s] =
                     [e \in Epochs |-> IF @[e] + Window <= now THEN -1 ELSE @[e]]]
    /\ IF TimedOut(s) # {} THEN Discard(s, Min(TimedOut(s))) ELSE RetireOldKeys(s)
    /\ UNCHANGED <<keyEpoch, peerKey, logVars, net, job, sent, made, now>>

Tick ==
    /\ now < MaxTime
    /\ now' = now + 1
    /\ UNCHANGED <<dbVars, logVars, net, job, sent, made>>

-----------------------------------------------------------------------------
Hook(s, m) ==
    \/ StoreCandidate(s, m) \/ SendAck(s, m) \/ RejectPrepare(s, m)
    \/ OnAck(s, m) \/ OnConfirm(s, m) \/ OnCommit(s, m)

Next ==
    \/ \E s \in Sides :
          \/ BeginRotation(s) \/ SendPrepare(s)
          \/ SendConfirm(s) \/ MarkConfirmed(s)
          \/ SendCommit(s) \/ MarkCommitted(s)
          \/ CommandDies(s) \/ SendData(s) \/ Sweep(s)
          \/ \E m \in net[s] : Accept(s, m) \/ Refuse(s, m)
          \/ \E m \in due[s] \cup ({latest[s]} \ {NoEvent}) : Hook(s, m)
    \/ Tick

Spec == Init /\ [][Next]_vars

(***************************************************************************)
(* Properties                                                              *)
(***************************************************************************)

\* A side whose key_epoch is ahead is ahead by one rotation, and the other side
\* still has that rotation open and can finish it: crossed ceremonies, late acks,
\* lost marks and timeouts never leave the two key_epochs apart for good.
EpochsStayClose ==
    \A s \in Sides : LET p == Peer(s) IN
        keyEpoch[s] > keyEpoch[p] =>
            /\ keyEpoch[s] = keyEpoch[p] + 1
            /\ keyEpoch[s] \in InFlight(p, "rotating") \cup Confirmed(p)

\* When both sides prepare the same epoch at once, at most one of the two rotations
\* gets past its candidate: the epoch's number never stands for a key of each side.
\* (It may stand for two keys of one side, if that side starts over: OnlyRestartSplits.)
OneSideRotates ==
    \A e \in Epochs : \E s \in Sides :
        rot[s]["rotating"][e].phase \notin {"acknowledged", "confirmed", "committed"}

\* The peer holds the private key that this side's events are wrapped to, unless it
\* restarted the rotation: it discarded that key at its deadline and prepared the
\* same epoch again with another, and the ack of the first prepare, which names only
\* the epoch, arrived after that.  No crossing, timeout, sweep or lost mark else
\* takes away a key that the other side seals to.
OnlyRestartSplits ==
    \A s \in Sides :
        LET p    == Peer(s)
            held == epochs[p][keyEpoch[s]]
        IN  \/ \E e \in Epochs : epochs[p][e] = peerKey[s]
            \/ held[1] = p /\ held[2] > peerKey[s][2]
=============================================================================
