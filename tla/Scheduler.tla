------------------------------ MODULE Scheduler ------------------------------
(***************************************************************************)
(* The transactional outbox of one relationship: the rows of               *)
(* scheduler_queue, the run_due() loops that release them to the relay,    *)
(* cancellation, dead-lettering, the human approvals a gated row spends,   *)
(* and the revocation that must stop it all.  Several CLI processes (a     *)
(* cron'd `mas receive`, a `mas send`, a `mas revoke`) share the database. *)
(*                                                                         *)
(* Every SQLite transaction is one action: BEGIN IMMEDIATE serialises the  *)
(* writers.  The release transaction of scheduler._release_one_row is the  *)
(* exception.  Its release_fn constructs a RotationManager, whose          *)
(* _ensure_tables() calls conn.executescript(), and executescript commits  *)
(* the pending transaction.  So the claim scheduled -> released is durable *)
(* before may_send() is even asked, everything after it runs in autocommit *)
(* mode, and the closing COMMIT (or ROLLBACK) raises "no transaction is    *)
(* active", which run_due counts as a release failure.  The pc values      *)
(* "claimed" and "sent" are that unprotected stretch.                      *)
(***************************************************************************)
EXTENDS Integers

CONSTANTS
    Rows,         \* scheduled_id = event_id of the outgoing events
    Procs,        \* the CLI processes that send or run run_due()
    Approvals,    \* human_approvals.approval_id
    NoApproval,   \* the row spent no approval
    NoExpiry,     \* expires_at IS NULL
    NoRow,        \* the process is working on no row
    MaxAttempts,  \* MAX_RELEASE_ATTEMPTS
    LateWindow,   \* DEFAULT_LATE_WINDOW_SECONDS, in clock units
    ApprovalTTL,  \* APPROVAL_TTL_SECONDS, in clock units
    Horizon,      \* OLD_KEY_RETENTION, the furthest a delivery may be scheduled
    Deliveries,   \* bound: the deliver_at values senders ask for
    Expiries,     \* bound: the expires_at values, NoExpiry among them
    MaxTime,      \* bound: the clock stops here
    MaxCrashes    \* bound: process deaths in one behaviour

ASSUME SchedulerAssumption ==
    /\ NoApproval \notin Approvals
    /\ NoRow \notin Rows
    /\ NoExpiry \notin Nat
    /\ MaxAttempts \in Nat \ {0}
    /\ LateWindow \in Nat \ {0}
    /\ ApprovalTTL \in Nat
    /\ Horizon \in Nat
    /\ Deliveries \subseteq Nat
    /\ Expiries \subseteq Nat \cup {NoExpiry}
    /\ MaxTime \in Nat
    /\ MaxCrashes \in Nat

VARIABLES
    clock,        \* utcnow()
    consent,      \* relationships.consent_state; "gone" when the row is deleted
    state,        \* scheduler_queue.state per row
    deliverAt,    \* scheduler_queue.deliver_at
    expiresAt,    \* scheduler_queue.expires_at
    failures,     \* scheduler_queue.release_failures
    approvalOf,   \* scheduler_queue.approval_id
    approval,     \* human_approvals: is the record absent, live or consumed
    approvalTill, \* human_approvals.expires_at
    notices,      \* scheduled_ids whose scheduler_undelivered notice was queued
    relay,        \* objects handed to the relay (or its push queue) per row
    sentObjects,  \* sent_objects
    pc,           \* where each process is
    runNow,       \* the `now` its send check or its run_due() was called with
    todo,         \* the rows its due-row scan returned and it has still to do
    current,      \* the row it is releasing
    crashes       \* process deaths so far

rowVars      == <<state, deliverAt, expiresAt, failures, approvalOf>>
approvalVars == <<approval, approvalTill>>
relayVars    == <<relay, sentObjects>>
procVars     == <<pc, runNow, todo, current>>
envVars      == <<clock, consent>>
vars == <<envVars, rowVars, approvalVars, notices, relayVars, procVars, crashes>>

RowStates == {"absent", "scheduled", "released", "canceled", "expired", "dead",
              "deleted"}
PcStates  == {"idle", "checked", "ready", "loop", "claimed", "sent", "failed"}
Terminal  == {"released", "canceled", "expired", "dead"}

Init ==
    /\ clock = 0
    /\ consent = "active"
    /\ state = [r \in Rows |-> "absent"]
    /\ deliverAt = [r \in Rows |-> 0]
    /\ expiresAt = [r \in Rows |-> NoExpiry]
    /\ failures = [r \in Rows |-> 0]
    /\ approvalOf = [r \in Rows |-> NoApproval]
    /\ approval = [a \in Approvals |-> "absent"]
    /\ approvalTill = [a \in Approvals |-> 0]
    /\ notices = {}
    /\ relay = [r \in Rows |-> 0]
    /\ sentObjects = {}
    /\ pc = [p \in Procs |-> "idle"]
    /\ runNow = [p \in Procs |-> 0]
    /\ todo = [p \in Procs |-> {}]
    /\ current = [p \in Procs |-> NoRow]
    /\ crashes = 0

-----------------------------------------------------------------------------
(* The environment: time and process deaths.                               *)

Tick ==
    /\ clock < MaxTime
    /\ clock' = clock + 1
    /\ UNCHANGED <<consent, rowVars, approvalVars, notices, relayVars,
                   procVars, crashes>>

\* The command of process p is over; what it held in memory is gone.
Exit(p) ==
    /\ pc' = [pc EXCEPT ![p] = "idle"]
    /\ runNow' = [runNow EXCEPT ![p] = 0]
    /\ todo' = [todo EXCEPT ![p] = {}]
    /\ current' = [current EXCEPT ![p] = NoRow]

\* A process dies anywhere, or its run_due is abandoned because the database
\* is busy even for the failure record: memory is lost, committed rows stay.
Crash(p) ==
    /\ pc[p] # "idle"
    /\ crashes < MaxCrashes
    /\ crashes' = crashes + 1
    /\ Exit(p)
    /\ UNCHANGED <<envVars, rowVars, approvalVars, notices, relayVars>>

-----------------------------------------------------------------------------
(* Sending: _send_event checks consent and the pause, then persists the    *)
(* event, its outbox row and the approval claim in one transaction.        *)

CreateApproval(a) ==
    /\ consent = "active"
    /\ approval[a] = "absent"
    /\ approval' = [approval EXCEPT ![a] = "live"]
    /\ approvalTill' = [approvalTill EXCEPT ![a] = clock + ApprovalTTL]
    /\ UNCHANGED <<envVars, rowVars, notices, relayVars, procVars, crashes>>

\* cmd_send's consent gate and _send_event's may_send(): read once, before
\* the persist transaction, and possibly stale by then.  What may_send()
\* answers depends on the key rotation and is the environment's choice.
SendCheck(p) ==
    /\ pc[p] = "idle"
    /\ consent = "active"
    /\ pc' = [pc EXCEPT ![p] = "checked"]
    /\ runNow' = [runNow EXCEPT ![p] = clock]
    /\ UNCHANGED <<envVars, rowVars, approvalVars, notices, relayVars, todo,
                   current, crashes>>

\* _validate_delivery_window with the time of the check.  An immediate send
\* (no deliver_at) is stamped with the clock of the persist transaction.
DeliveryWindow(p, d, e) ==
    \/ d <= runNow[p] + Horizon /\ (e # NoExpiry => e > d)
    \/ d = clock /\ (e # NoExpiry => e > runNow[p])

\* consume_approval: the UPDATE fires only on an unconsumed, unexpired record.
ConsumeApproval_Reused(a) == a # NoApproval => approval[a] # "absent"
ConsumeApproval(a) ==
    a # NoApproval => approval[a] = "live" /\ approvalTill[a] > clock

\* persist_outgoing_in_txn: the approval claim, the event and its outbox row.
\* Rows of a relationship that is gone fail their foreign key.
Persist(p, r, d, e, a) ==
    /\ pc[p] = "checked"
    /\ consent # "gone"
    /\ state[r] = "absent"
    /\ DeliveryWindow(p, d, e)
    /\ ConsumeApproval(a)
    /\ state' = [state EXCEPT ![r] = "scheduled"]
    /\ deliverAt' = [deliverAt EXCEPT ![r] = d]
    /\ expiresAt' = [expiresAt EXCEPT ![r] = e]
    /\ approvalOf' = [approvalOf EXCEPT ![r] = a]
    /\ approval' = [b \in Approvals |-> IF b = a THEN "consumed" ELSE approval[b]]
    /\ pc' = [pc EXCEPT ![p] = "ready"]
    /\ UNCHANGED <<envVars, failures, approvalTill, notices, relayVars, runNow,
                   todo, current, crashes>>

\* The persist transaction rolled back: nothing was written.
PersistFails(p) ==
    /\ pc[p] = "checked"
    /\ Exit(p)
    /\ UNCHANGED <<envVars, rowVars, approvalVars, notices, relayVars, crashes>>

\* scheduler.cancel: the UPDATE re-checks state = 'scheduled' in its
\* transaction, so the earlier read of the row decides nothing.
Cancel_AnyState(r) ==
    /\ state[r] \in {"scheduled", "released"}
    /\ state' = [state EXCEPT ![r] = "canceled"]
    /\ UNCHANGED <<envVars, deliverAt, expiresAt, failures, approvalOf,
                   approvalVars, notices, relayVars, procVars, crashes>>
Cancel(r) ==
    /\ state[r] = "scheduled"
    /\ state' = [state EXCEPT ![r] = "canceled"]
    /\ UNCHANGED <<envVars, deliverAt, expiresAt, failures, approvalOf,
                   approvalVars, notices, relayVars, procVars, crashes>>

-----------------------------------------------------------------------------
(* Teardown, as far as the outbox can see it: step 1 marks the             *)
(* relationship revoked, step 4 deletes every row of it in one             *)
(* transaction.                                                            *)

Revoke ==
    /\ consent = "active"
    /\ consent' = "revoked"
    /\ UNCHANGED <<clock, rowVars, approvalVars, notices, relayVars,
                   procVars, crashes>>

TeardownDelete ==
    /\ consent = "revoked"
    /\ consent' = "gone"
    /\ state' = [r \in Rows |-> IF state[r] = "absent" THEN "absent" ELSE "deleted"]
    /\ approval' = [a \in Approvals |-> "absent"]
    /\ notices' = {}
    /\ sentObjects' = {}
    /\ UNCHANGED <<clock, deliverAt, expiresAt, failures, approvalOf,
                   approvalTill, relay, procVars, crashes>>

-----------------------------------------------------------------------------
(* run_due                                                                 *)

EffectiveExpiry(r) ==
    IF expiresAt[r] # NoExpiry THEN expiresAt[r] ELSE deliverAt[r] + LateWindow

DueScan == {r \in Rows : state[r] = "scheduled" /\ failures[r] < MaxAttempts}

\* The scan reads the rows once; later changes are seen row by row.
StartRun(p) ==
    /\ pc[p] \in {"idle", "ready"}
    /\ pc' = [pc EXCEPT ![p] = "loop"]
    /\ runNow' = [runNow EXCEPT ![p] = clock]
    /\ todo' = [todo EXCEPT ![p] = DueScan]
    /\ UNCHANGED <<envVars, rowVars, approvalVars, notices, relayVars, current,
                   crashes>>

EndRun(p) ==
    /\ pc[p] = "loop"
    /\ todo[p] = {}
    /\ Exit(p)
    /\ UNCHANGED <<envVars, rowVars, approvalVars, notices, relayVars, crashes>>

\* r is the next row of p's scan: ORDER BY deliver_at, ties by random uuid.
AtRow(p, r) ==
    /\ pc[p] = "loop"
    /\ r \in todo[p]
    /\ \A q \in todo[p] : deliverAt[r] <= deliverAt[q]

RowDone(p, r) ==
    /\ todo' = [todo EXCEPT ![p] = @ \ {r}]
    /\ pc' = [pc EXCEPT ![p] = "loop"]
    /\ current' = [current EXCEPT ![p] = NoRow]

\* The row is no longer 'scheduled', is not due yet (the scan does not
\* filter on deliver_at), or release_fn refuses because consent is revoked:
\* the transaction changes nothing.
SkipRow(p, r) ==
    /\ AtRow(p, r)
    /\ \/ state[r] # "scheduled"
       \/ runNow[p] < deliverAt[r]
       \/ consent # "active" /\ runNow[p] < EffectiveExpiry(r)
    /\ RowDone(p, r)
    /\ UNCHANGED <<envVars, rowVars, approvalVars, notices, relayVars, runNow,
                   crashes>>

\* _restore_approval_for_undelivered at time t: the approval row r spent is
\* live again iff within its TTL, and the operator is told either way.
RestoreApproval_Silent(r, t) ==
    /\ approval' = [a \in Approvals |->
                     IF a = approvalOf[r] /\ approval[a] = "consumed"
                                          /\ approvalTill[a] > t
                     THEN "live" ELSE approval[a]]
    /\ UNCHANGED notices
RestoreApproval(r, t) ==
    /\ approval' = [a \in Approvals |->
                     IF a = approvalOf[r] /\ approval[a] = "consumed"
                                          /\ approvalTill[a] > t
                     THEN "live" ELSE approval[a]]
    /\ notices' = IF approvalOf[r] = NoApproval THEN notices ELSE notices \cup {r}

ExpireRow(p, r) ==
    /\ AtRow(p, r)
    /\ state[r] = "scheduled"
    /\ runNow[p] >= EffectiveExpiry(r)
    /\ state' = [state EXCEPT ![r] = "expired"]
    /\ RestoreApproval(r, runNow[p])
    /\ RowDone(p, r)
    /\ UNCHANGED <<envVars, deliverAt, expiresAt, failures, approvalOf,
                   approvalTill, relayVars, runNow, crashes>>

\* The claim up to the implicit COMMIT of executescript: the row is
\* 'released' for every other connection from here on.
Claimable_Canceled(p, r) ==
    /\ state[r] # "released"
    /\ runNow[p] >= deliverAt[r]
    /\ runNow[p] < EffectiveExpiry(r)
Claimable_Twice(p, r) ==
    /\ state[r] \in {"scheduled", "released"}
    /\ runNow[p] >= deliverAt[r]
    /\ runNow[p] < EffectiveExpiry(r)
Claimable_Early(p, r) ==
    /\ state[r] = "scheduled"
    /\ runNow[p] < EffectiveExpiry(r)
Claimable(p, r) ==
    /\ state[r] = "scheduled"
    /\ runNow[p] >= deliverAt[r]
    /\ runNow[p] < EffectiveExpiry(r)

ClaimRow(p, r) ==
    /\ AtRow(p, r)
    /\ Claimable(p, r)
    /\ consent = "active"
    /\ state' = [state EXCEPT ![r] = "released"]
    /\ pc' = [pc EXCEPT ![p] = "claimed"]
    /\ current' = [current EXCEPT ![p] = r]
    /\ UNCHANGED <<envVars, deliverAt, expiresAt, failures, approvalOf,
                   approvalVars, notices, relayVars, runNow, todo, crashes>>

\* Anything the release transaction raises before the claim is durable: the
\* write lock stays busy past the timeout, a statement fails.  Rolled back.
ReleaseRaises(p, r) ==
    /\ AtRow(p, r)
    /\ pc' = [pc EXCEPT ![p] = "failed"]
    /\ current' = [current EXCEPT ![p] = r]
    /\ UNCHANGED <<envVars, rowVars, approvalVars, notices, relayVars, runNow,
                   todo, crashes>>

\* release_fn after the implicit COMMIT: may_send() allows it, and the sealed
\* bytes go to the relay (local upload, or queue_mutation for the git relay)
\* unless sent_objects knows the row ...
Upload(p) ==
    /\ pc[p] = "claimed"
    /\ LET r == current[p] IN
       relay' = IF r \in sentObjects THEN relay ELSE [relay EXCEPT ![r] = @ + 1]
    /\ pc' = [pc EXCEPT ![p] = "sent"]
    /\ UNCHANGED <<envVars, rowVars, approvalVars, notices, sentObjects, runNow,
                   todo, current, crashes>>

\* ... or it raises: may_send() refuses (SendPausedError), no transport is
\* configured, the disk is full, the relay folder is missing.  The ROLLBACK
\* finds no transaction and raises as well, so even the pause is a "failure".
UploadRaises(p) ==
    /\ pc[p] = "claimed"
    /\ pc' = [pc EXCEPT ![p] = "failed"]
    /\ UNCHANGED <<envVars, rowVars, approvalVars, notices, relayVars, runNow,
                   todo, current, crashes>>

\* INSERT INTO sent_objects (autocommitted), then the COMMIT of the release
\* transaction, which raises because none is active.
RecordSent(p) ==
    /\ pc[p] = "sent"
    /\ sentObjects' = sentObjects \cup {current[p]}
    /\ pc' = [pc EXCEPT ![p] = "failed"]
    /\ UNCHANGED <<envVars, rowVars, approvalVars, notices, relay, runNow, todo,
                   current, crashes>>

\* _record_release_failure: one transaction.  At the limit the row is
\* dead-lettered if it is still scheduled; the approval is restored whatever
\* state the row is in.
RecordFailure_NoDead(p) ==
    LET r == current[p] IN
    /\ pc[p] = "failed"
    /\ state[r] # "deleted"
    /\ failures' = [failures EXCEPT ![r] = @ + 1]
    /\ UNCHANGED <<state, approval, notices>>
    /\ RowDone(p, r)
    /\ UNCHANGED <<envVars, deliverAt, expiresAt, approvalOf, approvalTill,
                   relayVars, runNow, crashes>>
RecordFailure(p) ==
    LET r == current[p] IN
    /\ pc[p] = "failed"
    /\ state[r] # "deleted"
    /\ failures' = [failures EXCEPT ![r] = @ + 1]
    /\ IF failures[r] + 1 >= MaxAttempts
       THEN /\ state' = [state EXCEPT ![r] = IF @ = "scheduled" THEN "dead" ELSE @]
            /\ RestoreApproval(r, clock)
       ELSE UNCHANGED <<state, approval, notices>>
    /\ RowDone(p, r)
    /\ UNCHANGED <<envVars, deliverAt, expiresAt, approvalOf, approvalTill,
                   relayVars, runNow, crashes>>

\* Teardown deleted the row under the run: _record_release_failure finds no
\* counter to read, raises, and run_due is abandoned.
RunAborts(p) ==
    /\ pc[p] = "failed"
    /\ state[current[p]] = "deleted"
    /\ Exit(p)
    /\ UNCHANGED <<envVars, rowVars, approvalVars, notices, relayVars, crashes>>

-----------------------------------------------------------------------------
RunStep(p) ==
    \/ EndRun(p)
    \/ \E r \in Rows :
          SkipRow(p, r) \/ ExpireRow(p, r) \/ ClaimRow(p, r) \/ ReleaseRaises(p, r)
    \/ Upload(p) \/ UploadRaises(p)
    \/ RecordSent(p) \/ RecordFailure(p) \/ RunAborts(p)

PersistStep(p) ==
    \/ \E r \in Rows, d \in Deliveries, e \in Expiries,
          a \in Approvals \cup {NoApproval} : Persist(p, r, d, e, a)
    \/ PersistFails(p)

Next ==
    \/ Tick \/ Revoke \/ TeardownDelete
    \/ \E a \in Approvals : CreateApproval(a)
    \/ \E r \in Rows : Cancel(r)
    \/ \E p \in Procs :
          SendCheck(p) \/ PersistStep(p) \/ StartRun(p) \/ RunStep(p) \/ Crash(p)

Spec == Init /\ [][Next]_vars

\* `mas receive` keeps firing from cron whatever sends fail in between (hence
\* strong fairness); a command that has begun goes on; time passes; a
\* revocation that has begun is driven to its end.
Fairness ==
    /\ WF_vars(Tick)
    /\ WF_vars(TeardownDelete)
    /\ \A p \in Procs :
          WF_vars(PersistStep(p)) /\ WF_vars(RunStep(p)) /\ SF_vars(StartRun(p))

FairSpec == Spec /\ Fairness

-----------------------------------------------------------------------------
(* Properties                                                              *)

\* The types of the variables; release_failures only counts up from zero.
TypeOK ==
    /\ clock \in 0..MaxTime
    /\ consent \in {"active", "revoked", "gone"}
    /\ state \in [Rows -> RowStates]
    /\ deliverAt \in [Rows -> Nat]
    /\ expiresAt \in [Rows -> Nat \cup {NoExpiry}]
    /\ failures \in [Rows -> Nat]
    /\ approvalOf \in [Rows -> Approvals \cup {NoApproval}]
    /\ approval \in [Approvals -> {"absent", "live", "consumed"}]
    /\ approvalTill \in [Approvals -> Nat]
    /\ notices \in SUBSET Rows
    /\ relay \in [Rows -> Nat]
    /\ sentObjects \in SUBSET Rows
    /\ pc \in [Procs -> PcStates]
    /\ runNow \in [Procs -> 0..MaxTime]
    /\ todo \in [Procs -> SUBSET Rows]
    /\ current \in [Procs -> Rows \cup {NoRow}]
    /\ crashes \in Nat

\* However many run_due() loops race over one scan and wherever they die,
\* no row's envelope is handed to the relay twice (_release_one_row re-reads
\* the state inside the claim transaction).
NeverSentTwice == \A r \in Rows : relay[r] <= 1

\* Cancel wins: a row that ended canceled, expired or dead was never handed
\* to the relay, not even by a run that scanned it while it was due.
OnlyReleasedIsSent ==
    \A r \in Rows : relay[r] > 0 => state[r] \in {"released", "deleted"}

\* A time capsule never leaves before its deliver_at.
NeverEarly == \A r \in Rows : relay[r] > 0 => deliverAt[r] <= clock

\* A row the scan still offers has attempts left: the dead-letter move is in
\* the transaction that counts the last failure, so no poison row is retried
\* for ever and none is stuck in 'scheduled' where run_due ignores it.
NoStuckRow ==
    \A r \in Rows : state[r] = "scheduled" => failures[r] < MaxAttempts

\* A gated response that expired or was dead-lettered is never dropped
\* silently: its scheduler_undelivered notice is in the surface queue.
UndeliveredIsReported ==
    \A r \in Rows :
        state[r] \in {"expired", "dead"} /\ approvalOf[r] # NoApproval => r \in notices

\* Two sends racing for one human approval: a second row can carry the same
\* approval only after the operator was told that one is undelivered.
ApprovalSharedOnlyIfReported ==
    \A r1, r2 \in Rows :
        /\ r1 # r2
        /\ approvalOf[r1] = approvalOf[r2]
        /\ approvalOf[r1] # NoApproval
        /\ consent # "gone"
        => \E r \in Rows : approvalOf[r] = approvalOf[r1] /\ r \in notices

\* The states released, canceled, expired and dead are final until teardown
\* deletes the row.
TerminalIsFinal ==
    [][\A r \in Rows : state[r] \in Terminal =>
                          state'[r] = state[r] \/ state'[r] = "deleted"]_vars

\* Every row leaves 'scheduled': it is released, canceled, expired, dead or
\* torn down, whatever fails on the way.
EveryRowResolves == \A r \in Rows : state[r] = "scheduled" ~> state[r] # "scheduled"

-----------------------------------------------------------------------------
(* What a docstring claims and the code does not do: its run expects a     *)
(* violation.                                                              *)

\* run_due: "the claim (scheduled -> released) and the enqueue commit
\* atomically": a released row nobody is working on was handed to the relay.
ReleasedIsEnqueued ==
    \A r \in Rows :
        state[r] = "released" /\ (\A p \in Procs : current[p] # r) => relay[r] = 1
=============================================================================
