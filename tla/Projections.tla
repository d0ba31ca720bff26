---------------------------- MODULE Projections ----------------------------
(***************************************************************************)
(* Projections of the event log (store/projections.py): each logged event   *)
(* is applied once, in whatever order events arrive and crashes leave, to   *)
(* tables that a rebuild derives again in the order of creation.  The       *)
(* tables are one function from keys to rows.  Threads and attachments,     *)
(* which follow the message row, are left out.                              *)
(***************************************************************************)
EXTENDS Integers, FiniteSets, Sequences, SequencesExt

CONSTANTS
    Scripts,       \* sets of events that one run of the system may receive
    Peer,          \* the sender that is not this side
    TTL,           \* PENDING_TARGET_TTL_SECONDS
    MaxReactions,  \* MAX_ACTIVE_REACTIONS_PER_SENDER_TARGET
    MaxSeqGap,     \* MAX_SEQ_GAP
    MaxTime        \* bound: clock

\* The keys of the table events: event_id, and sender with sender_seq, which starts at 1.
\* 1 and 2 are the two agents; an event that is about no other has target 0.
ASSUME ScriptsAssumption ==
    \A s \in Scripts :
        /\ IsFiniteSet(s)
        /\ \A e \in s : e.id # 0 /\ e.at \in Int /\ e.sender \in {1, 2} /\ e.seq \in Nat \ {0}
        /\ \A e, f \in s : e.id = f.id \/ (e.sender = f.sender /\ e.seq = f.seq) => e = f

ASSUME BoundsAssumption == TTL \in Nat /\ MaxSeqGap \in Nat /\ MaxTime \in Nat

VARIABLES
    script,    \* the events of this run
    log,       \* events and event_payloads
    received,  \* received_at, by event id
    queue,     \* projection_queue
    db,        \* the projection tables
    clock,
    applied,   \* history: ids in the order they were applied
    torn       \* history: an event was applied while its target was logged and not
               \* applied, or a rebuild ran ahead of the queue

vars == <<script, log, received, queue, db, clock, applied, torn>>

Empty == [rows |-> [k \in {} |-> 0], pending |-> <<>>, quarantine |-> {},
          cursor |-> [s \in {1, 2} |-> 0], gaps |-> {}]

(***************************************************************************)
(* Tables                                                                  *)
(***************************************************************************)

Done(d) == [ok |-> TRUE, db |-> d]
Refuse(d) == [ok |-> FALSE, db |-> d]     \* ProjectionError

Has(d, key) == key \in DOMAIN d.rows
Put(d, key, row) ==
    [d EXCEPT !.rows = [k \in DOMAIN d.rows \cup {key} |-> IF k = key THEN row ELSE d.rows[k]]]

Find(events, id) == {x \in events : x.id = id}
RefIds(d, states) == {d.pending[i].ref : i \in {j \in DOMAIN d.pending : d.pending[j].state \in states}}

AddPending_OnePerTarget(d, e) ==
    IF \E i \in DOMAIN d.pending : d.pending[i].target = e.target THEN d
    ELSE [d EXCEPT !.pending = Append(@, [ref |-> e.id, target |-> e.target, at |-> e.at,
                                          state |-> "pending"])]
\* _add_pending: one row per event, whatever its state.
AddPending(d, e) ==
    IF e.id \in RefIds(d, {"pending", "resolved", "expired"}) THEN d
    ELSE [d EXCEPT !.pending = Append(@, [ref |-> e.id, target |-> e.target, at |-> e.at,
                                          state |-> "pending"])]

\* _target_status: an accepted target of another type is refused, any other waited for.
WaitFor(d, events, e, type) ==
    IF \E x \in Find(events, e.target) : x.type # type THEN Refuse(d) ELSE Done(AddPending(d, e))

(***************************************************************************)
(* Handlers                                                                *)
(***************************************************************************)

Create(d, key, row) == Done(IF Has(d, key) THEN d ELSE Put(d, key, row))

MessageCreated_Replace(d, events, e, now) ==
    Done(Put(d, <<"message", e.id>>,
             [sender |-> e.sender, edits |-> <<>>, retracted |-> 0, reply |-> "ok"]))
\* A reply needs its target in the log and in its conversation.
MessageCreated(d, events, e, now) ==
    LET key    == <<"message", e.id>>
        target == Find(events, e.target)
        row(s) == [sender |-> e.sender, edits |-> <<>>, retracted |-> 0, reply |-> s]
    IN  IF Has(d, key) \/ e.target = 0 THEN Create(d, key, row("ok"))
        ELSE IF target = {}
        THEN Create(AddPending(d, e), key,
                    row(IF now - e.at >= TTL THEN "unavailable" ELSE "pending"))
        ELSE IF \E x \in target : x.conv # e.conv THEN Refuse(d)
        ELSE Create(d, key, row("ok"))

MessageEdited(d, events, e) ==
    LET key == <<"message", e.target>>
        m   == d.rows[key]
    IN  IF ~Has(d, key) THEN WaitFor(d, events, e, "message.created")
        ELSE IF \E i \in DOMAIN m.edits : m.edits[i] = e.id THEN Done(d)
        ELSE IF m.sender # e.sender \/ m.retracted # 0 THEN Refuse(d)
        ELSE Done(Put(d, key, [m EXCEPT !.edits = Append(@, e.id)]))

MessageRetracted_NoWait(d, events, e) ==
    LET key == <<"message", e.target>>
        m   == d.rows[key]
    IN  IF ~Has(d, key) THEN Done(d)
        ELSE IF m.sender # e.sender THEN Refuse(d)
        ELSE IF m.retracted # 0 THEN Done(d)
        ELSE Done(Put(d, key, [m EXCEPT !.retracted = e.id]))
MessageRetracted(d, events, e) ==
    LET key == <<"message", e.target>>
        m   == d.rows[key]
    IN  IF ~Has(d, key) THEN WaitFor(d, events, e, "message.created")
        ELSE IF m.sender # e.sender THEN Refuse(d)
        ELSE IF m.retracted # 0 THEN Done(d)
        ELSE Done(Put(d, key, [m EXCEPT !.retracted = e.id]))

\* Reactions and receipts wait for the target's log entry, not for its projection.
ReactionAdded(d, events, e) ==
    LET key    == <<"reaction", e.target, e.sender, e.val>>
        active == {k \in DOMAIN d.rows : /\ k[1] = "reaction" /\ k[2] = e.target /\ k[3] = e.sender
                                         /\ d.rows[k].active}
    IN  IF Find(events, e.target) = {} THEN Done(AddPending(d, e))
        ELSE IF key \notin active /\ Cardinality(active) >= MaxReactions THEN Refuse(d)
        ELSE Done(Put(d, key, [active |-> TRUE, by |-> e.id]))

ReactionRemoved(d, events, e) ==
    LET key == <<"reaction", e.target, e.sender, e.val>>
    IN  IF Find(events, e.target) = {} THEN Done(AddPending(d, e))
        ELSE IF ~Has(d, key) THEN Done(d)
        ELSE IF ~d.rows[key].active THEN Done(d)
        ELSE Done(Put(d, key, [active |-> FALSE, by |-> e.id]))

Receipt(d, events, e) ==
    IF Find(events, e.target) = {} THEN Done(AddPending(d, e))
    ELSE Done(Put(d, <<"receipt", e.target, e.sender, e.val>>, [by |-> e.id]))

PollCreated(d, e) ==
    IF ~Has(d, <<"poll", e.id>>) /\ e.closes <= e.at THEN Refuse(d)
    ELSE Create(d, <<"poll", e.id>>, [closes |-> e.closes])

\* "bad" stands for choices that are missing, repeated, undeclared or too many.
PollResponded(d, events, e, now) ==
    LET key == <<"poll", e.target>>
    IN  IF ~Has(d, key) THEN WaitFor(d, events, e, "poll.created")
        ELSE IF e.val = "bad" \/ now >= d.rows[key].closes THEN Refuse(d)
        ELSE Done(Put(d, <<"response", e.target, e.sender>>, [by |-> e.id, at |-> now]))

TaskCreated(d, e) ==
    Create(d, <<"task", e.id>>, [owner |-> e.owner, sender |-> e.sender, status |-> "open", by |-> 0])

TaskUpdated(d, events, e) ==
    LET key == <<"task", e.target>>
        t   == d.rows[key]
    IN  IF ~Has(d, key) THEN WaitFor(d, events, e, "task.created")
        ELSE IF e.sender \notin {t.owner, t.sender} \/ t.status \in {"done", "canceled"} THEN Refuse(d)
        ELSE Done(Put(d, key, [t EXCEPT !.status = e.val, !.by = e.id]))

HumanRequested(d, e) == Create(d, <<"request", e.id>>, [by |-> 0, attestation |-> "peer"])

\* "recorded": the approval it names is in human_approvals.
Attestation(e) == IF e.sender # Peer /\ e.val = "recorded" THEN "local" ELSE "peer"

HumanResponded(d, events, e) ==
    IF ~Has(d, <<"request", e.target>>) THEN WaitFor(d, events, e, "human.requested")
    ELSE Done(Put(d, <<"request", e.target>>, [by |-> e.id, attestation |-> Attestation(e)]))

\* One delivery per sender and inner event (val).
DeliveryScheduled(d, e) ==
    IF \E k \in DOMAIN d.rows : /\ k[1] = "delivery" /\ d.rows[k].sender = e.sender
                                /\ d.rows[k].inner = e.val
    THEN Done(d)
    ELSE Create(d, <<"delivery", e.id>>, [sender |-> e.sender, inner |-> e.val, canceled |-> 0])

DeliveryCanceled(d, events, e) ==
    LET key == <<"delivery", e.target>>
        r   == d.rows[key]
    IN  IF ~Has(d, key) THEN WaitFor(d, events, e, "delivery.scheduled")
        ELSE IF r.sender # e.sender THEN Refuse(d)
        ELSE IF r.canceled # 0 THEN Done(d)
        ELSE Done(Put(d, key, [r EXCEPT !.canceled = e.id]))

SecurityKey(d, e) == Create(d, <<"key event", e.id>>, [sender |-> e.sender])

Dispatch(d, events, e, now) ==
    CASE e.type = "message.created"    -> MessageCreated(d, events, e, now)
      [] e.type = "message.edited"     -> MessageEdited(d, events, e)
      [] e.type = "message.retracted"  -> MessageRetracted(d, events, e)
      [] e.type = "reaction.added"     -> ReactionAdded(d, events, e)
      [] e.type = "reaction.removed"   -> ReactionRemoved(d, events, e)
      [] e.type = "receipt"            -> Receipt(d, events, e)
      [] e.type = "poll.created"       -> PollCreated(d, e)
      [] e.type = "poll.responded"     -> PollResponded(d, events, e, now)
      [] e.type = "task.created"       -> TaskCreated(d, e)
      [] e.type = "task.updated"       -> TaskUpdated(d, events, e)
      [] e.type = "human.requested"    -> HumanRequested(d, e)
      [] e.type = "human.responded"    -> HumanResponded(d, events, e)
      [] e.type = "delivery.scheduled" -> DeliveryScheduled(d, e)
      [] e.type = "delivery.canceled"  -> DeliveryCanceled(d, events, e)
      [] e.type = "security.key"       -> SecurityKey(d, e)
      [] OTHER                         -> Done(d)

(***************************************************************************)
(* Applying an event                                                       *)
(***************************************************************************)

QuarantineIf(r, id) == IF r.ok THEN r.db ELSE [r.db EXCEPT !.quarantine = @ \cup {id}]

\* A pending reference takes effect when its target is applied, at that event's time.
ResolveOne(d, events, e, now, i) ==
    LET p == d.pending[i]
        x == CHOOSE y \in events : y.id = p.ref
        resolved == [d EXCEPT !.pending[i].state = "resolved"]
        msg == <<"message", x.id>>
    IN  IF p.state # "pending" \/ p.target # e.id THEN d
        ELSE IF x.type = "message.created"
        THEN Put(resolved, msg,
                 [d.rows[msg] EXCEPT !.reply = IF x.conv = e.conv THEN "ok" ELSE "unavailable"])
        ELSE QuarantineIf(Dispatch(resolved, events, x, now), x.id)

ResolvePending_None(d, events, e, now) == d
ResolvePending(d, events, e, now) ==
    FoldLeft(LAMBDA acc, i : ResolveOne(acc, events, e, now, i), d, [i \in DOMAIN d.pending |-> i])

\* The gap rows one event may record are capped; the cursor moves on all the same.
UpdateSeqState(d, e) ==
    LET high == d.cursor[e.sender]
        last == IF e.seq - 1 <= high + MaxSeqGap THEN e.seq - 1 ELSE high + MaxSeqGap
    IN  IF e.seq > high
        THEN [d EXCEPT !.cursor[e.sender] = e.seq,
                       !.gaps = @ \cup {<<e.sender, n>> : n \in (high + 1)..last}]
        ELSE [d EXCEPT !.gaps = @ \ {<<e.sender, e.seq>>}]

\* _apply_inner.  A fork cannot be met: the log holds one event per sender and seq.
Apply(d, events, e, now) ==
    LET r == Dispatch(d, events, e, now)
    IN  IF ~r.ok THEN r
        ELSE Done(UpdateSeqState(ResolvePending(r.db, events, e, now), e))

(***************************************************************************)
(* Rebuild                                                                 *)
(***************************************************************************)

Before(e, f) ==
    \/ e.at < f.at
    \/ e.at = f.at /\ e.sender < f.sender
    \/ e.at = f.at /\ e.sender = f.sender /\ e.seq < f.seq

\* ORDER BY: in each place the event with that many events before it.
InOrder(events) ==
    [i \in 1..Cardinality(events) |->
        CHOOSE e \in events : Cardinality({x \in events : Before(x, e)}) = i - 1]

Rebuilt(events, times) ==
    FoldLeft(LAMBDA acc, e : QuarantineIf(Apply(acc, events, e, times[e.id]), e.id),
             Empty, InOrder(events))

(***************************************************************************)
(* Steps                                                                   *)
(***************************************************************************)

Init ==
    /\ script \in Scripts
    /\ log = {} /\ queue = {} /\ received = [e \in {x.id : x \in script} |-> 0]
    /\ db = Empty /\ clock = 0 /\ applied = <<>> /\ torn = FALSE

\* The receive transaction (record_projection_input and the queue row).
Record(e) ==
    /\ e \in script \ log
    /\ log' = log \cup {e} /\ queue' = queue \cup {e}
    /\ received' = [received EXCEPT ![e.id] = clock]
    /\ UNCHANGED <<script, db, clock, applied, torn>>

\* Applying it and acknowledging the row: at once, or after a crash when the event is
\* delivered again.  A refusal rolls back and is quarantined with the row.
Project(e) ==
    /\ e \in queue
    /\ db' = QuarantineIf(Apply(db, log, e, received[e.id]), e.id)
    /\ queue' = queue \ {e}
    /\ applied' = Append(applied, e)
    /\ torn' = (torn \/ \E x \in queue : x.id = e.target)
    /\ UNCHANGED <<script, log, received, clock>>

\* expire_pending_refs
Expire ==
    LET due == {i \in DOMAIN db.pending : db.pending[i].state = "pending"
                                          /\ db.pending[i].at + TTL < clock}
        ids == {db.pending[i].ref : i \in due}
    IN  /\ due # {}
        /\ db' = [db EXCEPT
                    !.pending = [i \in DOMAIN @ |-> IF i \in due THEN [@[i] EXCEPT !.state = "expired"]
                                                    ELSE @[i]],
                    !.rows = [k \in DOMAIN @ |-> IF k[1] = "message" /\ k[2] \in ids
                                                 THEN [@[k] EXCEPT !.reply = "unavailable"] ELSE @[k]]]
        /\ UNCHANGED <<script, log, received, queue, clock, applied, torn>>

Rebuild ==
    /\ db' = Rebuilt(log, received)
    /\ torn' = (torn \/ queue # {})
    /\ applied' = SelectSeq(InOrder(log), LAMBDA e : e \notin queue)
    /\ UNCHANGED <<script, log, received, queue, clock>>

Tick ==
    /\ clock < MaxTime /\ clock' = clock + 1
    /\ UNCHANGED <<script, log, received, queue, db, applied, torn>>

Next ==
    \/ \E e \in script : Record(e) \/ Project(e)
    \/ Expire \/ Rebuild \/ Tick

Spec == Init /\ [][Next]_vars

(***************************************************************************)
(* Properties                                                              *)
(***************************************************************************)

Group(e) ==
    CASE e.type \in {"message.edited", "message.retracted"} -> "content"
      [] e.type \in {"reaction.added", "reaction.removed"}  -> "reaction"
      [] OTHER                                              -> e.type

\* Two events whose order matters: two of a kind about one target, an answer and its
\* poll, two announcements of one event.
Conflict(e, f) ==
    \/ e.target # 0 /\ e.target = f.target /\ Group(e) = Group(f)
    \/ e.type = "poll.responded" /\ e.target = f.id
    \/ f.type = "poll.responded" /\ f.target = e.id
    \/ e.type = "delivery.scheduled" /\ f.type = e.type /\ e.val = f.val

IsSubject(key) == key[1] \in {"message", "poll", "task", "request", "delivery"}

\* Events whose order matters were applied in that order, a reply to a message of another
\* conversation after that message, and nothing waits for an event that was refused.
Orderly ==
    /\ ~torn
    /\ \A i, j \in DOMAIN applied : i < j =>
          /\ Conflict(applied[i], applied[j]) => Before(applied[i], applied[j])
          /\ applied[i].target = applied[j].id /\ applied[i].type = "message.created" =>
                applied[i].conv = applied[j].conv
    /\ \A i \in DOMAIN db.pending :
          db.pending[i].state = "pending" => db.pending[i].target \notin db.quarantine

\* A reference never waits for an event that is there (_resolve_pending against the handlers
\* that add references): not for one with a row, and not for one that was applied, unless
\* that one was refused or is a second announcement of a delivery, which has no row.
NothingWaitsForApplied ==
    \A i \in DOMAIN db.pending :
        db.pending[i].state = "pending" =>
            /\ \A k \in DOMAIN db.rows : IsSubject(k) => k[2] # db.pending[i].target
            /\ \A e \in log \ queue :
                  e.id = db.pending[i].target =>
                      e.id \in db.quarantine \/ e.type = "delivery.scheduled"

\* The events that mean nothing without another.
IsAbout(e) ==
    \/ e.type \in {"message.edited", "message.retracted", "reaction.added", "reaction.removed",
                   "receipt", "poll.responded", "task.updated", "human.responded",
                   "delivery.canceled"}
    \/ e.type = "message.created" /\ e.target # 0

\* An event about one that is not in the log is not dropped: once applied, unless refused, it
\* waits for that one until it expires, also when it was applied again after a rebuild that
\* ran ahead of the queue (_add_pending, _target_status).
MissingTargetIsAwaited ==
    \A e \in log \ queue :
        IsAbout(e) /\ Find(log, e.target) = {} =>
            e.id \in db.quarantine \/ e.id \in RefIds(db, {"pending", "expired"})

Hidden(d) == {k \in DOMAIN d.rows : k[1] = "message" /\ d.rows[k].retracted # 0}

\* Whenever the queue is drained and nothing has expired, a rebuild from the log hides
\* the same messages as the live tables, those it refuses apart, in whatever order messages
\* and retractions came and whichever rebuilds ran before (_handle_message_retracted,
\* rebuild_projections).
RebuildHidesTheSame ==
    queue = {} /\ RefIds(db, {"expired"}) = {} =>
        LET again == Rebuilt(log, received)
        IN  /\ \A k \in Hidden(db) : k \in Hidden(again) \/ k[2] \in again.quarantine
            /\ \A k \in Hidden(again) : k \in Hidden(db) \/ k[2] \in db.quarantine

\* A message that is hidden is never shown again: not by an event applied a second time
\* after a rebuild that ran ahead of the queue, and not by a rebuild, unless that refuses it.
HiddenStaysHidden ==
    [][\A k \in Hidden(db) : k \in Hidden(db)' \/ k[2] \in db'.quarantine]_vars

\* No event is so far ahead that the cap on gap rows can cut its gaps short.
Uncapped(events) == \A e \in events : e.seq <= MaxSeqGap + 1

\* An event that was applied and not refused is behind its sender's cursor and is not
\* recorded as missing, whatever came before it; and short of the cap, a number behind the
\* cursor that no event of the log has is recorded (_update_seq_state).
GapsAreMissing ==
    /\ \A e \in log \ queue :
          e.id \in db.quarantine \/ (/\ e.seq <= db.cursor[e.sender]
                                    /\ <<e.sender, e.seq>> \notin db.gaps)
    /\ Uncapped(log) =>
          \A s \in {1, 2} : \A n \in 1..db.cursor[s] :
              <<s, n>> \in db.gaps \/ \E e \in log : e.sender = s /\ e.seq = n

\* Whenever the queue is drained and nothing is refused, a rebuild finds the cursors and,
\* short of the cap, the gaps that the live tables have, in whatever order events came and
\* were created (_update_seq_state, rebuild_projections).
RebuildMissesTheSame ==
    LET again == Rebuilt(log, received)
    IN  queue = {} /\ db.quarantine = {} /\ again.quarantine = {} =>
            /\ db.cursor = again.cursor
            /\ Uncapped(log) => db.gaps = again.gaps

\* The live tables owe the log what is missing: references to it, and only those, wait, and
\* its numbers, and only those, are gaps, in whatever order events came and whichever
\* rebuilds ran before (_apply_inner, rebuild_projections).
MissingIsTracked == NothingWaitsForApplied /\ MissingTargetIsAwaited /\ GapsAreMissing

\* Whatever the order, a rebuild of a drained queue hides the messages and misses the
\* numbers that the live tables hide and miss (rebuild_projections).
RebuildKeepsHiddenAndMissing == RebuildHidesTheSame /\ RebuildMissesTheSame

\* Whenever the queue is drained and nothing has expired, a rebuild from the log gives the
\* same rows, waiting references and quarantine as the live tables, if events whose order
\* matters were applied in that order, even when they came before the event they are about.
RebuildAgrees ==
    queue = {} /\ RefIds(db, {"expired"}) = {} /\ Orderly =>
        LET again == Rebuilt(log, received)
        IN  /\ db.rows = again.rows /\ db.quarantine = again.quarantine
            /\ RefIds(db, {"pending"}) = RefIds(again, {"pending"})
=============================================================================
