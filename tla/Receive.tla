------------------------------ MODULE Receive ------------------------------
(***************************************************************************)
(* Receiving for one relationship: the relay's objects, the poll that      *)
(* visits them one by one, the receive pipeline of _receive_object, the    *)
(* retry accounting, the quarantine, and the rotation-hook reconciler.     *)
(*                                                                         *)
(* mirror_lock lets one poll run at a time, so there is one receiver; what *)
(* interleaves with it is the peer and the relay (uploads, redeliveries,   *)
(* reordering), the clock, a revocation or an operator in another process, *)
(* and its own death between any two of its transactions.  Each SQLite     *)
(* transaction (or autocommitted statement that matters) is one action;    *)
(* storage failures, transient or not, strike between them.                *)
(*                                                                         *)
(* An envelope stands for its exact bytes.  Parsing, schema and signature  *)
(* checks are the header's `valid`.  The v0.1 adapter (_receive_v01) is    *)
(* not part of this module.                                                *)
(*                                                                         *)
(* An operator X_Y in front of an operator X is X with a mistake that is   *)
(* easy to make in this code; PROJECT.json says which property catches it. *)
(***************************************************************************)
EXTENDS Integers, FiniteSets

CONSTANTS
    Envelopes,         \* the sealed byte strings that may reach the relay
    Header,            \* envelope -> its protected header, see HeaderType
    Oversize,          \* the envelopes longer than OBJECT_MAX_BYTES
    Names,             \* relay object names
    Empty,             \* no object has this name now
    Identities,        \* peer identity ids
    FirstPeer,         \* the peer identity pinned at pairing
    NoIdentity,        \* prior_peer_identity_id IS NULL
    NoTime,            \* no timestamp recorded
    ReceiptsPermitted, \* accepted_receipts_enabled
    MaxSeqGap,         \* MAX_SEQ_GAP
    MaxSightings,      \* MAX_UNKNOWN_EPOCH_SIGHTINGS
    MaxFailures,       \* MAX_CONSECUTIVE_RECEIVE_FAILURES
    DailyQuota,        \* INGRESS_MAX_EVENTS_PER_DAY
    QuotaWindow,       \* its rolling 24 hours, in clock units
    AcceptWindow,      \* ACCEPT_WINDOW_DAYS, in clock units
    EpochWindow,       \* ROTATION_WINDOW, in clock units
    GraceWindow,       \* PRIOR_IDENTITY_GRACE_SECONDS, in clock units
    QuarantineCap,     \* RECEIVE_QUARANTINE_MAX_PER_RELATIONSHIP
    QuarantineTTL,     \* RECEIVE_QUARANTINE_TTL_DAYS, in clock units
    MaxTime,           \* bound: the clock stops here
    MaxUploads,        \* bound: objects put on the relay, redeliveries included
    MaxFaults          \* bound: deaths and failures in one behaviour

HeaderType ==
    [id: Nat, sender: Identities, seq: Nat, nonce: Nat, epoch: Nat, created: Nat,
     kind: {"message", "receipt", "prepare", "rotated"}, valid: BOOLEAN,
     new: Nat, to: Identities]

ASSUME ReceiveAssumption ==
    /\ Header \in [Envelopes -> HeaderType]
    /\ Oversize \subseteq Envelopes
    /\ Empty \notin Envelopes
    /\ FirstPeer \in Identities
    /\ NoIdentity \notin Identities
    /\ NoTime \notin Nat
    /\ ReceiptsPermitted \in BOOLEAN
    /\ {MaxSeqGap, MaxSightings, DailyQuota, QuotaWindow, AcceptWindow,
        EpochWindow, GraceWindow, MaxTime, MaxUploads, MaxFaults} \subseteq Nat
    /\ {MaxFailures, QuarantineCap, QuarantineTTL} \subseteq Nat \ {0}

VARIABLES
    clock,       \* utcnow()
    relay,       \* object name -> the envelope stored under it, or Empty
    uploads,     \* uploads so far
    consent,     \* relationships.consent_state
    peer,        \* relationships.peer_identity_id
    prior,       \* relationships.prior_peer_identity_id
    graceTill,   \* relationships.prior_identity_grace_until
    epoch,       \* RotationManager._current_epoch
    firstSeen,   \* unknown_epoch_first_seen.first_seen_at per epoch
    sweep,       \* "refused": some relationship's key retirement is due and the
                 \*   foreign key from events to key_epochs refuses it
    events,      \* the peer's rows of events
    acceptedAt,  \* event_payloads.received_at
    lastSeq,     \* sender_sequence.last_seq
    guard,       \* replay_guard: the envelopes whose nonce it holds
    guardTill,   \* replay_guard.expires_at
    projQueue,   \* projection_queue: <<"event", e>>, or <<"receipt", e>> for
                 \*   the accepted receipt this side generated for e
    projected,   \* envelopes applied to the projection tables
    buried,      \* envelopes in the event-level quarantine table
    surface,     \* surface_queue: none, queued, or acknowledged by the operator
    receipts,    \* accepted receipts persisted per envelope
    prepared,    \* prepares whose candidate epoch was stored
    acks,        \* security.key.ack events persisted per prepare: how many, when
    hooked,      \* rotation_processed_events
    sightings,   \* receive_retry_state.sightings per name and reason
    quarantine,  \* receive_quarantine: reason and quarantined_at per name, or NoRow
    pc,          \* where the receiver is
    cur,         \* the object it is receiving
    rxNow,       \* the `now` of that receive
    outcome,     \* what _receive_object returned
    todo,        \* names the stream has still to visit
    held,        \* the poll left something retry_pending
    pass,        \* envelopes the reconciler has still to re-drive
    faults       \* deaths and failures so far

relayVars    == <<relay, uploads>>
identityVars == <<peer, prior, graceTill>>
epochVars    == <<epoch, firstSeen, sweep>>
logVars      == <<events, acceptedAt, lastSeq, guard, guardTill, receipts>>
viewVars     == <<projQueue, projected, buried, surface>>
hookVars     == <<prepared, acks, hooked>>
retryVars    == <<sightings, quarantine>>
pollVars     == <<pc, cur, rxNow, outcome, todo, held, pass>>
vars == <<clock, relayVars, consent, identityVars, epochVars, logVars, viewVars,
          hookVars, retryVars, pollVars, faults>>

Env     == relay[cur]
Epochs  == {Header[e].epoch : e \in Envelopes}
Stages  == {"check", "commit", "project", "redrain", "buried", "apply", "hooks",
            "mark"}
Reasons == {"refused", "epoch_rejected", "storage_error",
            "retry_ceiling_exceeded", "projection", "identity_rotation_rejected"}
NoRow   == [why |-> "none", at |-> 0]
Unmarked == {e \in events : Header[e].kind = "prepare" /\ e \notin hooked}

Init ==
    /\ clock = 0
    /\ relay = [n \in Names |-> Empty]
    /\ uploads = 0
    /\ consent = "active"
    /\ peer = FirstPeer /\ prior = NoIdentity /\ graceTill = NoTime
    /\ epoch = 1
    /\ firstSeen = [k \in Epochs |-> NoTime]
    /\ sweep = "clear"
    /\ events = {}
    /\ acceptedAt = [e \in Envelopes |-> NoTime]
    /\ lastSeq = [i \in Identities |-> 0]
    /\ guard = {}
    /\ guardTill = [e \in Envelopes |-> NoTime]
    /\ projQueue = {} /\ projected = {} /\ buried = {}
    /\ surface = [e \in Envelopes |-> "none"]
    /\ receipts = [e \in Envelopes |-> 0]
    /\ prepared = {} /\ hooked = {}
    /\ acks = [e \in Envelopes |-> [n |-> 0, at |-> NoTime]]
    /\ sightings = [n \in Names |-> [epoch |-> 0, storage |-> 0]]
    /\ quarantine = [n \in Names |-> NoRow]
    /\ pc = "idle" /\ cur = Empty /\ rxNow = 0 /\ outcome = "none"
    /\ todo = {} /\ held = FALSE /\ pass = {}
    /\ faults = 0

-----------------------------------------------------------------------------
(* The environment.                                                        *)

Tick ==
    /\ clock < MaxTime
    /\ clock' = clock + 1
    /\ UNCHANGED <<relayVars, consent, identityVars, epochVars, logVars,
                   viewVars, hookVars, retryVars, pollVars, faults>>

\* The peer uploads, or the untrusted relay shows again, any bytes under any
\* free name: duplicates, reorderings, reused ids, numbers and nonces.
Upload(n, e) ==
    /\ uploads < MaxUploads
    /\ relay[n] = Empty
    /\ relay' = [relay EXCEPT ![n] = e]
    /\ uploads' = uploads + 1
    /\ UNCHANGED <<clock, consent, identityVars, epochVars, logVars, viewVars,
                   hookVars, retryVars, pollVars, faults>>

\* Teardown step 1 in another process.
Revoke ==
    /\ consent = "active"
    /\ consent' = "revoked"
    /\ UNCHANGED <<clock, relayVars, identityVars, epochVars, logVars, viewVars,
                   hookVars, retryVars, pollVars, faults>>

\* A committed rotation of any relationship is 24 hours or 100 events old:
\* from now on sweep() tries to delete its prior key_epochs row, which the
\* events sealed under it keep, and raises IntegrityError every time.
RetirementRefused ==
    /\ sweep = "clear"
    /\ sweep' = "refused"
    /\ UNCHANGED <<clock, relayVars, consent, identityVars, epoch, firstSeen,
                   logVars, viewVars, hookVars, retryVars, pollVars, faults>>

\* The operator acknowledges a notification: its surface_queue row is deleted.
AckSurface(e) ==
    /\ surface[e] = "queued"
    /\ surface' = [surface EXCEPT ![e] = "acked"]
    /\ UNCHANGED <<clock, relayVars, consent, identityVars, epochVars, logVars,
                   projQueue, projected, buried, hookVars, retryVars, pollVars,
                   faults>>

\* The poll is over: finished, out of time, aborted by a failing transport,
\* or its process died.
StopPoll ==
    /\ pc' = "idle" /\ cur' = Empty /\ rxNow' = 0 /\ outcome' = "none"
    /\ todo' = {} /\ held' = FALSE /\ pass' = {}

Crash ==
    /\ pc # "idle"
    /\ faults < MaxFaults
    /\ faults' = faults + 1
    /\ StopPoll
    /\ UNCHANGED <<clock, relayVars, consent, identityVars, epochVars, logVars,
                   viewVars, hookVars, retryVars>>

-----------------------------------------------------------------------------
(* The poll: run_once and _receive_stream.                                 *)

BeginPoll ==
    /\ pc = "idle"
    /\ pc' = "polling"
    /\ todo' = {n \in Names : relay[n] # Empty}
    /\ UNCHANGED <<clock, relayVars, consent, identityVars, epochVars, logVars,
                   viewVars, hookVars, retryVars, cur, rxNow, outcome, held,
                   pass, faults>>

Visit(n) ==
    /\ pc = "polling"
    /\ n \in todo
    /\ relay[n] \notin Oversize
    /\ pc' = "check"
    /\ cur' = n
    /\ rxNow' = clock
    /\ todo' = todo \ {n}
    /\ UNCHANGED <<clock, relayVars, consent, identityVars, epochVars, logVars,
                   viewVars, hookVars, retryVars, outcome, held, pass, faults>>

\* visit() consumes an object over the cap itself: it is never received, and
\* nothing but a count in this poll's result says that it was there.
ConsumeOversize(n) ==
    /\ pc = "polling"
    /\ n \in todo
    /\ relay[n] \in Oversize
    /\ relay' = [relay EXCEPT ![n] = Empty]
    /\ todo' = todo \ {n}
    /\ UNCHANGED <<clock, uploads, consent, identityVars, epochVars, logVars,
                   viewVars, hookVars, retryVars, pc, cur, rxNow, outcome, held,
                   pass, faults>>

\* _receive_object has returned `out` for the current object.
Return(out) ==
    /\ pc' = "done"
    /\ outcome' = out
    /\ UNCHANGED <<cur, rxNow, todo, held, pass>>

\* visit(): an accepted or quarantined object is consumed, a retry_pending
\* one stays on the relay.
Settle ==
    /\ pc = "done"
    /\ pc' = "polling" /\ cur' = Empty /\ rxNow' = 0 /\ outcome' = "none"
    /\ IF outcome = "retry_pending"
       THEN held' = TRUE /\ UNCHANGED relay
       ELSE relay' = [relay EXCEPT ![cur] = Empty] /\ UNCHANGED held
    /\ UNCHANGED <<clock, uploads, consent, identityVars, epochVars, logVars,
                   viewVars, hookVars, retryVars, todo, pass, faults>>

\* A clean poll runs the maintenance callback and then prunes the replay
\* guard; a poll that left something retry_pending does neither.  The callback
\* sweeps first: an IntegrityError of the sweep skips the reconciler (and a
\* candidate that timed out raises NoAckTimeout before it, which is caught).
EndPoll_NoReconcile ==
    /\ pc = "polling"
    /\ todo = {}
    /\ StopPoll
    /\ UNCHANGED <<clock, relayVars, consent, identityVars, epochVars, logVars,
                   viewVars, hookVars, retryVars, faults>>
EndPoll ==
    /\ pc = "polling"
    /\ todo = {}
    /\ IF held
       THEN StopPoll
       ELSE /\ pc' = "reconcile"
            /\ \/ pass' = Unmarked
               \/ sweep = "refused" /\ pass' = {}
            /\ UNCHANGED <<cur, rxNow, outcome, todo, held>>
    /\ UNCHANGED <<clock, relayVars, consent, identityVars, epochVars, logVars,
                   viewVars, hookVars, retryVars, faults>>

Prune ==
    /\ pc = "reconcile"
    /\ pass = {}
    /\ guard' = {e \in guard : guardTill[e] >= clock}
    /\ StopPoll
    /\ UNCHANGED <<clock, relayVars, consent, identityVars, epochVars, events,
                   acceptedAt, lastSeq, guardTill, receipts, viewVars, hookVars,
                   retryVars, faults>>

-----------------------------------------------------------------------------
(* _receive_object_inner before its transaction: the checks in their order. *)

\* _record_quarantine: this name's row is written, rows past their TTL are
\* deleted, and beyond the cap the oldest go.  Among rows of one second the
\* object name decides, and names are arbitrary: any of them may go, the row
\* just written included.
Quarantine_KeepsOldest(why) ==
    LET table == [quarantine EXCEPT ![cur] = [why |-> why, at |-> clock]]
        rows  == {n \in Names : table[n].why # "none" /\ table[n].at + QuarantineTTL > clock}
    IN
    \E kept \in SUBSET rows :
        /\ \/ kept = rows /\ Cardinality(rows) <= QuarantineCap
           \/ Cardinality(rows) > QuarantineCap /\ Cardinality(kept) = QuarantineCap
        /\ \A n \in kept, m \in rows \ kept : table[n].at <= table[m].at
        /\ quarantine' = [n \in Names |-> IF n \in kept THEN table[n] ELSE NoRow]
Quarantine(why) ==
    LET table == [quarantine EXCEPT ![cur] = [why |-> why, at |-> clock]]
        rows  == {n \in Names : table[n].why # "none" /\ table[n].at + QuarantineTTL > clock}
    IN
    \E kept \in SUBSET rows :
        /\ \/ kept = rows /\ Cardinality(rows) <= QuarantineCap
           \/ Cardinality(rows) > QuarantineCap /\ Cardinality(kept) = QuarantineCap
        /\ \A n \in kept, m \in rows \ kept : table[m].at <= table[n].at
        /\ quarantine' = [n \in Names |-> IF n \in kept THEN table[n] ELSE NoRow]

ClearSightings == sightings' = [sightings EXCEPT ![cur] = [epoch |-> 0, storage |-> 0]]

TrustedSender(e) ==
    \/ Header[e].sender = peer
    \/ /\ Header[e].sender = prior
       /\ graceTill # NoTime
       /\ rxNow <= graceTill

Admissible(e) == consent = "active" /\ Header[e].valid /\ TrustedSender(e)

SameId(e) == {f \in events : Header[f].id = Header[e].id}

UnknownEpoch(e) == Header[e].epoch > epoch

NonceSeen(e) == \E f \in guard : Header[f].nonce = Header[e].nonce

\* FUTURE_TOLERANCE_SECONDS is less than one clock unit.
InWindow(e) == Header[e].created <= rxNow /\ rxNow <= Header[e].created + AcceptWindow

\* _check_ingress_quota counts every event_payloads row of the relationship,
\* the accepted receipts and the acks this side generated included.
OverQuota ==
    LET recent == {e \in events : rxNow <= acceptedAt[e] + QuotaWindow}
        acked  == {e \in Envelopes : acks[e].n > 0 /\ rxNow <= acks[e].at + QuotaWindow}
    IN  Cardinality(recent) + Cardinality({e \in recent : receipts[e] > 0})
            + Cardinality(acked) >= DailyQuota

GapTooLarge(e) == Header[e].seq - lastSeq[Header[e].sender] > MaxSeqGap

Fresh(e) == Admissible(e) /\ SameId(e) = {}

\* A CliError before the transaction: a terminal quarantine.
Refuse ==
    /\ pc = "check"
    /\ \/ ~Admissible(Env)
       \/ SameId(Env) # {} /\ Env \notin events
       \/ /\ Fresh(Env) /\ ~UnknownEpoch(Env)
          /\ \/ NonceSeen(Env)
             \/ ~InWindow(Env)
             \/ ~OverQuota /\ GapTooLarge(Env)
    /\ ClearSightings
    /\ Quarantine("refused")
    /\ Return("quarantined")
    /\ UNCHANGED <<clock, relayVars, consent, identityVars, epochVars, logVars,
                   viewVars, hookVars, faults>>

\* on_data_event_epoch does not know the epoch: retryable until it was first
\* seen a rotation window ago, or this object was sighted too often.
EpochTimedOut(k) == firstSeen[k] # NoTime /\ rxNow > firstSeen[k] + EpochWindow

NoteEpoch(k) ==
    firstSeen' = IF firstSeen[k] = NoTime THEN [firstSeen EXCEPT ![k] = rxNow]
                 ELSE firstSeen

HoldEpoch_Uncounted ==
    /\ pc = "check"
    /\ Fresh(Env) /\ UnknownEpoch(Env)
    /\ NoteEpoch(Header[Env].epoch)
    /\ Return("retry_pending")
    /\ UNCHANGED <<clock, relayVars, consent, identityVars, epoch, sweep,
                   logVars, viewVars, hookVars, retryVars, faults>>
HoldEpoch ==
    /\ pc = "check"
    /\ Fresh(Env) /\ UnknownEpoch(Env)
    /\ NoteEpoch(Header[Env].epoch)
    /\ ~EpochTimedOut(Header[Env].epoch)
    /\ sightings[cur].epoch + 1 <= MaxSightings
    /\ sightings' = [sightings EXCEPT ![cur].epoch = @ + 1]
    /\ Return("retry_pending")
    /\ UNCHANGED <<clock, relayVars, consent, identityVars, epoch, sweep,
                   logVars, viewVars, hookVars, quarantine, faults>>

RejectEpoch ==
    /\ pc = "check"
    /\ Fresh(Env) /\ UnknownEpoch(Env)
    /\ NoteEpoch(Header[Env].epoch)
    /\ EpochTimedOut(Header[Env].epoch) \/ sightings[cur].epoch + 1 > MaxSightings
    /\ ClearSightings
    /\ Quarantine("epoch_rejected")
    /\ Return("quarantined")
    /\ UNCHANGED <<clock, relayVars, consent, identityVars, epoch, sweep,
                   logVars, viewVars, hookVars, faults>>

Checked(e) == Fresh(e) /\ ~UnknownEpoch(e) /\ ~NonceSeen(e) /\ InWindow(e)

HoldQuota ==
    /\ pc = "check"
    /\ Checked(Env)
    /\ OverQuota
    /\ Return("retry_pending")
    /\ UNCHANGED <<clock, relayVars, consent, identityVars, epochVars, logVars,
                   viewVars, hookVars, retryVars, faults>>

Goto(stage) ==
    /\ pc' = stage
    /\ UNCHANGED <<cur, rxNow, outcome, todo, held, pass>>

Pass ==
    /\ pc = "check"
    /\ Checked(Env)
    /\ ~OverQuota
    /\ ~GapTooLarge(Env)
    /\ Goto("commit")
    /\ UNCHANGED <<clock, relayVars, consent, identityVars, epochVars, logVars,
                   viewVars, hookVars, retryVars, faults>>

\* These exact bytes were accepted before: the resume path.
Resume ==
    /\ pc = "check"
    /\ Admissible(Env)
    /\ Env \in events
    /\ Goto("redrain")
    /\ UNCHANGED <<clock, relayVars, consent, identityVars, epochVars, logVars,
                   viewVars, hookVars, retryVars, faults>>

-----------------------------------------------------------------------------
(* The receive transaction, and what follows it.                           *)

\* The fork check and the UNIQUE constraints of events and replay_guard.
Storable_NoForkCheck(e) ==
    /\ \A f \in events : Header[e].id # Header[f].id
    /\ \A f \in events \cup guard : Header[e].nonce # Header[f].nonce
Storable(e) ==
    /\ \A f \in events :
          /\ Header[e].id # Header[f].id
          /\ Header[e].sender # Header[f].sender \/ Header[e].seq # Header[f].seq
    /\ \A f \in events \cup guard : Header[e].nonce # Header[f].nonce

Acknowledge_Any(e) == ReceiptsPermitted
Acknowledge(e) == ReceiptsPermitted /\ Header[e].kind # "receipt"

\* The event, the high-water mark, the replay guard, the projection and
\* surface rows and the accepted receipt (itself an event of this side with
\* its own projection row), all in one transaction.
Later(s, t) == IF s > t THEN s ELSE t

Commit ==
    LET e == Env IN
    /\ pc = "commit"
    /\ Storable(e)
    /\ events' = events \cup {e}
    /\ acceptedAt' = [acceptedAt EXCEPT ![e] = rxNow]
    /\ lastSeq' = [lastSeq EXCEPT ![Header[e].sender] = Later(@, Header[e].seq)]
    /\ guard' = guard \cup {e}
    /\ guardTill' = [guardTill EXCEPT
                       ![e] = Later(Header[e].created, rxNow) + AcceptWindow]
    /\ projQueue' = projQueue \cup {<<"event", e>>}
                       \cup (IF Acknowledge(e) THEN {<<"receipt", e>>} ELSE {})
    /\ surface' = [surface EXCEPT ![e] = IF @ = "none" THEN "queued" ELSE @]
    /\ receipts' = [receipts EXCEPT ![e] = IF Acknowledge(e) THEN @ + 1 ELSE @]
    /\ Goto("project")
    /\ UNCHANGED <<clock, relayVars, consent, identityVars, epochVars, projected,
                   buried, hookVars, retryVars, faults>>

\* sequence_fork, or an IntegrityError: rolled back and quarantined.
CommitRefused ==
    /\ pc = "commit"
    /\ ~Storable(Env)
    /\ ClearSightings
    /\ Quarantine("refused")
    /\ Return("quarantined")
    /\ UNCHANGED <<clock, relayVars, consent, identityVars, epochVars, logVars,
                   viewVars, hookVars, faults>>

\* apply_event is due: after the commit, and on the resume path if the row
\* is still queued.
Projecting_Unqueued == pc \in {"project", "redrain"}
Projecting ==
    \/ pc = "project"
    \/ pc = "redrain" /\ <<"event", Env>> \in projQueue

\* apply_event and the acknowledgement of its queue row, in one transaction.
Project ==
    /\ Projecting
    /\ projected' = projected \cup {Env}
    /\ projQueue' = projQueue \ {<<"event", Env>>}
    /\ Goto("apply")
    /\ UNCHANGED <<clock, relayVars, consent, identityVars, epochVars, logVars,
                   buried, surface, hookVars, retryVars, faults>>

\* apply_event raises ProjectionError (whether it does depends on the
\* projection tables): quarantine_event and the queue row in one transaction.
\* A fresh receive then also quarantines the object; a resumed one goes on.
ProjectionRefused ==
    /\ Projecting
    /\ buried' = buried \cup {Env}
    /\ projQueue' = projQueue \ {<<"event", Env>>}
    /\ Goto(IF pc = "project" THEN "buried" ELSE "apply")
    /\ UNCHANGED <<clock, relayVars, consent, identityVars, epochVars, logVars,
                   projected, surface, hookVars, retryVars, faults>>

Buried ==
    /\ pc = "buried"
    /\ Quarantine("projection")
    /\ ClearSightings
    /\ Return("quarantined")
    /\ UNCHANGED <<clock, relayVars, consent, identityVars, epochVars, logVars,
                   viewVars, hookVars, faults>>

\* _redrain_projection finds the row already acknowledged.
Drained_Always == pc = "redrain"
Drained == pc = "redrain" /\ <<"event", Env>> \notin projQueue

SkipRedrain ==
    /\ Drained
    /\ Goto("apply")
    /\ UNCHANGED <<clock, relayVars, consent, identityVars, epochVars, logVars,
                   viewVars, hookVars, retryVars, faults>>

\* _apply_identity_rotation, and _maybe_apply_pending_identity_rotation on
\* the resume path.
ApplyIdentity_Unpinned ==
    LET h == Header[Env] IN
    /\ pc = "apply"
    /\ h.kind = "rotated"
    /\ peer' = h.to /\ prior' = h.sender /\ graceTill' = clock + GraceWindow
    /\ Goto("hooks")
    /\ UNCHANGED <<clock, relayVars, consent, epochVars, logVars, viewVars,
                   hookVars, retryVars, faults>>
ApplyIdentity ==
    LET h == Header[Env] IN
    /\ pc = "apply"
    /\ h.kind = "rotated"
    /\ h.sender = peer \/ h.to = peer
    /\ IF h.to = peer
       THEN UNCHANGED identityVars
       ELSE peer' = h.to /\ prior' = h.sender /\ graceTill' = clock + GraceWindow
    /\ Goto("hooks")
    /\ UNCHANGED <<clock, relayVars, consent, epochVars, logVars, viewVars,
                   hookVars, retryVars, faults>>

\* stale_announcement: the object is quarantined although its event is logged.
StaleIdentity ==
    LET h == Header[Env] IN
    /\ pc = "apply"
    /\ h.kind = "rotated"
    /\ h.sender # peer /\ h.to # peer
    /\ ClearSightings
    /\ Quarantine("identity_rotation_rejected")
    /\ Return("quarantined")
    /\ UNCHANGED <<clock, relayVars, consent, identityVars, epochVars, logVars,
                   viewVars, hookVars, faults>>

SkipIdentity ==
    /\ pc = "apply"
    /\ Header[Env].kind # "rotated"
    /\ Goto("hooks")
    /\ UNCHANGED <<clock, relayVars, consent, identityVars, epochVars, logVars,
                   viewVars, hookVars, retryVars, faults>>

\* The hook of a security.key.prepare e, as far as it got: nothing, the
\* candidate epoch stored (on_prepare), or also the ack persisted, which
\* _ack_already_sent keeps from happening twice.  A prepare that does not
\* name the next epoch, comes while another rotation is in flight (none is
\* committed here) or after its own deadline is rejected for good: no effect,
\* but it is marked.
AckAlreadySent_Unchecked(e) == FALSE
AckAlreadySent(e) == acks[e].n > 0

Applies(e) ==
    \/ e \in prepared
    \/ /\ prepared = {}
       /\ Header[e].new = epoch + 1
       /\ clock <= Header[e].created + EpochWindow

\* may_send: a candidate epoch that was stored and never confirmed pauses
\* every send once its deadline is over, its own late ack included.
Paused(e) ==
    /\ e \in prepared /\ ~AckAlreadySent(e)
    /\ clock > Header[e].created + EpochWindow

Acking(e) == Applies(e) /\ ~AckAlreadySent(e) /\ ~Paused(e)

HookEffects(e, got) ==
    LET stores == Applies(e) /\ got \in {"stored", "acked"} IN
    /\ prepared' = IF stores THEN prepared \cup {e} ELSE prepared
    /\ epoch' = IF stores /\ e \notin prepared THEN epoch + 1 ELSE epoch
    /\ firstSeen' = [k \in Epochs |-> IF stores /\ e \notin prepared /\ k <= epoch + 1
                                      THEN NoTime ELSE firstSeen[k]]
    /\ acks' = IF Acking(e) /\ got = "acked"
               THEN [acks EXCEPT ![e] = [n |-> @.n + 1, at |-> clock]] ELSE acks
    /\ UNCHANGED sweep

\* The hook ends without an exception: its ack is not refused by may_send, and
\* the sweep at the end of the ack's _send_event is not refused either.
HookCompletes(e) == ~Paused(e) /\ ~(Acking(e) /\ sweep = "refused")

\* The hook raises, from outside or by itself, and the event stays unmarked.
HookRaises(e, got) ==
    /\ HookEffects(e, got)
    /\ \/ faults < MaxFaults /\ faults' = faults + 1
       \/ ~HookCompletes(e) /\ got = "acked" /\ UNCHANGED faults

NeedsHook == Header[Env].kind = "prepare" /\ Env \notin hooked

RunHooks ==
    /\ pc = "hooks"
    /\ NeedsHook
    /\ HookCompletes(Env)
    /\ HookEffects(Env, "acked")
    /\ Goto("mark")
    /\ UNCHANGED <<clock, relayVars, consent, identityVars, logVars,
                   viewVars, hooked, retryVars, faults>>

\* An exception of the hook is swallowed: the object is accepted and the event
\* stays unmarked for the reconciler.
HookFails(got) ==
    /\ pc = "hooks"
    /\ NeedsHook
    /\ HookRaises(Env, got)
    /\ ClearSightings
    /\ Return("accepted")
    /\ UNCHANGED <<clock, relayVars, consent, identityVars, logVars,
                   viewVars, hooked, quarantine>>

\* Every other event's hook keeps no state this module tells apart.
Accept ==
    /\ \/ pc = "hooks" /\ ~NeedsHook /\ UNCHANGED hooked
       \/ pc = "mark" /\ hooked' = hooked \cup {Env}
    /\ ClearSightings
    /\ Return("accepted")
    /\ UNCHANGED <<clock, relayVars, consent, identityVars, epochVars, logVars,
                   viewVars, prepared, acks, quarantine, faults>>

\* _reconcile_rotation_events re-drives one unmarked event.
Reconcile(e) ==
    /\ pc = "reconcile"
    /\ e \in pass
    /\ pass' = pass \ {e}
    /\ HookCompletes(e)
    /\ HookEffects(e, "acked")
    /\ hooked' = hooked \cup {e}
    /\ UNCHANGED <<clock, relayVars, consent, identityVars, logVars,
                   viewVars, retryVars, pc, cur, rxNow, outcome, todo, held,
                   faults>>

ReconcileFails(e, got) ==
    /\ pc = "reconcile"
    /\ e \in pass
    /\ pass' = pass \ {e}
    /\ HookRaises(e, got)
    /\ UNCHANGED <<clock, relayVars, consent, identityVars, logVars,
                   viewVars, hooked, retryVars, pc, cur, rxNow, outcome, todo,
                   held>>

-----------------------------------------------------------------------------
(* A statement of the pipeline fails: _receive_object's except clauses.    *)

Fault ==
    /\ pc \in Stages
    /\ faults < MaxFaults
    /\ faults' = faults + 1

\* A lock timeout or a full disk: counted, and retried up to the ceiling.
TransientFailure ==
    /\ Fault
    /\ sightings' = [sightings EXCEPT ![cur].storage = @ + 1]
    /\ IF sightings[cur].storage + 1 >= MaxFailures
       THEN Quarantine("retry_ceiling_exceeded") /\ Return("quarantined")
       ELSE Return("retry_pending") /\ UNCHANGED quarantine
    /\ UNCHANGED <<clock, relayVars, consent, identityVars, epochVars, logVars,
                   viewVars, hookVars>>

\* A deterministic storage error or an unexpected exception: quarantined at
\* once, whatever was committed before it.
PermanentFailure ==
    /\ Fault
    /\ Quarantine("storage_error")
    /\ Return("quarantined")
    /\ sightings' \in {sightings,
          [sightings EXCEPT ![cur] = [epoch |-> 0, storage |-> 0]]}
    /\ UNCHANGED <<clock, relayVars, consent, identityVars, epochVars, logVars,
                   viewVars, hookVars>>

\* Not even the failure could be recorded.  The process-local count of
\* these stays at one per object: a poll visits an object once.
BookkeepingFails ==
    /\ Fault
    /\ Return("retry_pending")
    /\ UNCHANGED <<clock, relayVars, consent, identityVars, epochVars, logVars,
                   viewVars, hookVars, retryVars>>

-----------------------------------------------------------------------------
ReceiveStep ==
    \/ Refuse \/ HoldEpoch \/ RejectEpoch \/ HoldQuota \/ Pass \/ Resume
    \/ Commit \/ CommitRefused
    \/ Project \/ ProjectionRefused \/ Buried \/ SkipRedrain
    \/ ApplyIdentity \/ StaleIdentity \/ SkipIdentity
    \/ RunHooks \/ Accept
    \/ \E got \in {"nothing", "stored", "acked"} : HookFails(got)

FailureStep == TransientFailure \/ PermanentFailure \/ BookkeepingFails

PollStep ==
    \/ BeginPoll \/ Settle \/ EndPoll \/ Prune
    \/ \E n \in Names : Visit(n) \/ ConsumeOversize(n)
    \/ \E e \in Envelopes :
          \/ Reconcile(e)
          \/ \E got \in {"nothing", "stored", "acked"} : ReconcileFails(e, got)

Next ==
    \/ Tick \/ Revoke \/ RetirementRefused \/ Crash
    \/ \E n \in Names, e \in Envelopes : Upload(n, e)
    \/ \E e \in Envelopes : AckSurface(e)
    \/ ReceiveStep \/ FailureStep \/ PollStep

Spec == Init /\ [][Next]_vars

\* cron fires `mas receive` again and again, which begins a poll of every
\* relationship that is not revoked, and a poll that runs goes on.
Fairness ==
    WF_vars(\/ ReceiveStep \/ FailureStep
            \/ PollStep /\ (pc = "idle" => consent = "active"))

FairSpec == Spec /\ Fairness

-----------------------------------------------------------------------------
(* Properties                                                              *)

\* The types of the variables; a counter of sightings is never lost to a null.
TypeOK ==
    /\ clock \in Nat
    /\ relay \in [Names -> Envelopes \cup {Empty}]
    /\ uploads \in Nat
    /\ consent \in {"active", "revoked"}
    /\ peer \in Identities
    /\ prior \in Identities \cup {NoIdentity}
    /\ graceTill \in Nat \cup {NoTime}
    /\ epoch \in Nat
    /\ firstSeen \in [Epochs -> Nat \cup {NoTime}]
    /\ sweep \in {"clear", "refused"}
    /\ events \in SUBSET Envelopes
    /\ acceptedAt \in [Envelopes -> Nat \cup {NoTime}]
    /\ lastSeq \in [Identities -> Nat]
    /\ guard \in SUBSET Envelopes
    /\ guardTill \in [Envelopes -> Nat \cup {NoTime}]
    /\ projQueue \in SUBSET ({"event", "receipt"} \X Envelopes)
    /\ projected \in SUBSET Envelopes
    /\ buried \in SUBSET Envelopes
    /\ surface \in [Envelopes -> {"none", "queued", "acked"}]
    /\ receipts \in [Envelopes -> Nat]
    /\ prepared \in SUBSET Envelopes
    /\ acks \in [Envelopes -> [n: Nat, at: Nat \cup {NoTime}]]
    /\ hooked \in SUBSET Envelopes
    /\ sightings \in [Names -> [epoch: Nat, storage: Nat]]
    /\ quarantine \in [Names -> [why: Reasons \cup {"none"}, at: Nat]]
    /\ pc \in Stages \cup {"idle", "polling", "done", "reconcile"}
    /\ cur \in Names \cup {Empty}
    /\ rxNow \in Nat
    /\ outcome \in {"none", "accepted", "quarantined", "retry_pending"}
    /\ todo \in SUBSET Names
    /\ held \in BOOLEAN
    /\ pass \in SUBSET Envelopes
    /\ faults \in Nat

\* Replays, reorderings and hostile duplicates never put two events with one
\* event id, one sender sequence number or one replay nonce into the log, not
\* even after the replay guard forgot the nonce.
LogIsUnforked ==
    \A e, f \in events :
        e # f => /\ Header[e].id # Header[f].id
                 /\ Header[e].nonce # Header[f].nonce
                 /\ Header[e].sender # Header[f].sender \/ Header[e].seq # Header[f].seq

\* Wherever the receiver dies, a logged event is in exactly one of three
\* places: waiting in projection_queue, projected, or buried.
StoredIsTracked ==
    \A e \in Envelopes :
        IF e \in events
        THEN \/ <<"event", e>> \in projQueue /\ e \notin projected \cup buried
             \/ <<"event", e>> \notin projQueue /\ e \in projected \ buried
             \/ <<"event", e>> \notin projQueue /\ e \in buried \ projected
        ELSE <<"event", e>> \notin projQueue /\ e \notin projected \cup buried

\* One accepted receipt per logged event, however often it is redelivered,
\* and none for an event that was rolled back or refused.
OneReceiptPerEvent ==
    \A e \in Envelopes :
        receipts[e] =
            IF e \in events /\ ReceiptsPermitted /\ Header[e].kind # "receipt"
            THEN 1 ELSE 0

\* An object reported accepted is logged and no longer awaits projection: no
\* crash or retry makes the resume path answer "accepted" too early.
AcceptedIsDrained ==
    pc = "done" /\ outcome = "accepted" =>
        Env \in events /\ <<"event", Env>> \notin projQueue

\* One ack per prepare, although hooks are re-driven after every crash and by
\* the reconciler, and an ack only for a candidate epoch that is stored.
OneAckPerPrepare ==
    \A e \in Envelopes : acks[e].n <= 1 /\ (acks[e].n = 1 => e \in prepared)

\* An object small enough to be received leaves the relay only when its event
\* is logged or the rejection that this very receive answered is on record: its
\* row was written since the receive began, or it went to the cap because the
\* table is full of rows as recent.  (An object over the cap leaves no trace:
\* visit() consumes it without a row.)
RecordedSince(t) == {m \in Names : quarantine[m].why # "none" /\ quarantine[m].at >= t}
ConsumedIsSettled ==
    [][\A n \in Names :
          relay[n] # Empty /\ relay'[n] = Empty =>
              \/ relay[n] \in events
              \/ relay[n] \in Oversize
              \/ n \in RecordedSince(rxNow)
              \/ Cardinality(RecordedSince(rxNow)) >= QuarantineCap]_vars

\* The pinned peer identity changes only to one that the pinned identity
\* itself announced in a logged event.
IdentityFollowsPeer ==
    [][peer' # peer =>
          \E e \in events : /\ Header[e].kind = "rotated"
                            /\ Header[e].sender = peer
                            /\ Header[e].to = peer']_vars

\* Every object put on the relay is consumed in the end: no failure, hold or
\* crash leaves it there for ever, unless the relationship is revoked, which
\* stops the polls.
EveryObjectSettles ==
    \A n \in Names : relay[n] # Empty ~> relay[n] = Empty \/ consent = "revoked"

\* The hooks of a logged prepare complete in the end, whatever crash or
\* failure separated them from the commit.  Three things end the retries for
\* good: a revocation, a sweep that the foreign key refuses (it skips the
\* reconciler at every poll), and the pause of sends when the candidate was
\* stored and the deadline passed before its ack.
EveryPrepareIsHooked ==
    \A e \in Envelopes :
        e \in Unmarked ~> \/ e \in hooked \/ Paused(e)
                         \/ consent = "revoked" \/ sweep = "refused"

\* Receiving implements the abstract inbox.
Abstract ==
    INSTANCE Inbox WITH log <- events, shown <- projected, dead <- buried,
                        told <- {e \in Envelopes : receipts[e] > 0}
ImplementsInbox == Abstract!Spec

-----------------------------------------------------------------------------
(* What a comment claims and the code does not do: its run expects a       *)
(* violation.                                                              *)

\* _receive_object_inner: re-draining makes sure "the projection converges
\* exactly once instead of being silently lost": an event still queued has a
\* copy on the relay that will drain it.
QueuedIsRedelivered ==
    \A e \in Envelopes :
        <<"event", e>> \in projQueue => \E n \in Names : relay[n] = e
=============================================================================
