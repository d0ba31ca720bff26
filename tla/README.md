# TLA+ models of muse-agent-social

A verification project for the Python package `src/src/muse_agent_social`: a
peer-to-peer message protocol between two agents who share an untrusted relay
(a directory or a git repository). File names below are relative to the package.

* `PROJECT.json`: components, runs, mutants, the map from definitions to source
  lines, findings, hazards, theorems.
* `X.tla` models a component, `MCX.tla` and `MCX*.cfg` instantiate it for TLC,
  `XProofs.tla` holds theorems checked by TLAPS.

## 1. Inventory

| component | state | operations | talks to |
|---|---|---|---|
| outbox and scheduler (`scheduler.py`, `model/approvals.py`) | `scheduler_queue`, `human_approvals`, `sent_objects` | `run_due`, `cancel`, `_record_release_failure`, approvals | sending fills it, the transport empties it, teardown deletes it |
| sending (`cli.py: cmd_send, _send_event`, `model/events.py`) | `events`, `sender_sequence`, `event_payloads` | consent check, delivery window, persist, release | outbox, projections, rotation |
| receive pipeline (`cli.py: _receive_object`) | `events`, `replay_guard`, `projection_queue`, `surface_queue`, `receive_retry_state`, `receive_quarantine`, `rotation_processed_events` | checks, receive transaction, projection, re-drain, identity update, rotation hooks, reconciler | watcher (calls it), rotation, outbox (receipts, acks) |
| watcher and git relay (`watcher.py`, `transports/github.py`) | the state file with the checkpoint, `transport_mutations`, the relay branch | one poll: fetch, stream, consume, push, checkpoint | receive pipeline, the peer's pushes |
| local relay (`transports/local.py`) | a directory | upload, list, consume | watcher, outbox |
| key rotation (`crypto/rotation.py`) | `key_epochs`, `key_rotations`, first-seen and quarantine tables | begin, prepare, ack, confirm, commit, sweep, `may_send` | both sides, through events |
| pairing (`model/invites.py`, `cli.py: cmd_pair_*`) | invites, verifications, acceptances, relationships, key files, deploy keys at GitHub | invite, accept, display, commit, ingest, activate | out-of-band channel, teardown (same files and repository) |
| teardown (`teardown.py`) | tombstone, journal, hook log, consent state | mark, hooks, destroy keys, delete, wipe, resume | every table, pairing, rotation |
| v0.1 migration (`migrate.py`) | `migration_state`, vault, rollback bundle | stage, verify, cutover, observe, rollback | the peer's migration, the adapter |
| v0.1 adapter (`compatibility/v01.py`, `cli.py: _receive_v01`) | `replay_guard`, sequence assigner | verify, adapt, store | migration state, receive pipeline |
| projections (`store/projections.py`) | conversation tables, pending references, cursors and gaps | `apply_event`, `expire_pending_refs`, rebuild | receive, send |
| storage (`store/db.py`, `store/migrations.py`) | schema version | `transaction`, `migrate` | all |
| key files and identity (`_keyfiles.py`, `cli.py: cmd_init, Ctx, _rotate_identity`) | seed and card, backups, staged files, journal | init, load, recover, rotate, publish | every command loads it, the peers are told of a rotation |
| delivery policy, retention (`policy/`) | policy rows, limits | surface decision, sweeps | receive |
| cryptography, canonical JSON, schemas, configuration, provisioning, CLI parsing | none of the protocol's | pure computation or I/O | all |

What is hard here:

* several CLI processes (cron'd `mas receive`, `mas send`, `mas revoke`) share one
  SQLite database, so what was read before a transaction is stale in it;
* a process may die between any two transactions, and the next poll must finish
  exactly what is missing;
* the relay may redeliver, reorder, drop and repeat; the peer pushes to the same
  branch this side deletes from;
* counters and windows (retry ceilings, daily quota, epoch window, quarantine
  cap, stream cap, delivery windows) interact with a moving clock.

`PROJECT.json` lists these as hazards, each at its line with the properties
that address it.

What makes each part correct: the outbox sends nothing twice, early, or after a
cancel, loses no row and no approval, and resolves every row. Receiving keeps one
unforked log, acknowledges each event once, projects or buries each once, consumes
an object only when it is settled (one over the size cap excepted), moves the pinned identity only on that
identity's own word, and settles every object. The watcher removes only what
was judged and hides nothing unjudged behind its checkpoint. A rotation never
leaves a side sealing to a key its peer no longer has. Pairing pairs the agent whose
phrase was compared, and no one else; keys on disk live and die with their rows; a
teardown that died is let in again and takes nothing that another relationship uses.
A migration can be rolled back until the key is destroyed, and is destroyed on both
sides' word only. The projections are a function of the log. Seed and card are one identity's after every
crash, and no seed is lost.

## 2. Modules

### `Scheduler` (outbox)

Rows are `scheduler_queue` rows; processes are CLI processes, each with a program
counter through `_send_event` (`checked`, `ready`) or `run_due` (`loop`, `claimed`,
`sent`, `failed`). A SQLite transaction is one action, because `BEGIN IMMEDIATE`
serialises writers. One transaction in the code is not what it looks like: the
`release_fn` called inside the release transaction constructs a `RotationManager`,
whose `_ensure_tables` calls `executescript`, which commits the open transaction.
From there to the end of the row the code runs unprotected, and the closing
`COMMIT` raises, so that each release is also counted as a failure. The model
follows the code: `ClaimRow`, `Upload`/`UploadRaises`, `RecordSent`, `RecordFailure`
are separate steps. `may_send` (rotation) and transport errors are free choices
of the environment. Teardown appears as `Revoke` and `TeardownDelete`.

### `Inbox` and `Receive`

`Inbox` is the abstract promise: a log without clashes, told, shown or buried once.
`Receive` is the pipeline: one receiver (the mirror lock admits one poll), whose
program counter runs through the stages of `_receive_object_inner`; `check` is the
sequence of checks before the transaction, in the code's order, `commit` the
receive transaction, then `project`/`redrain`, `apply` (identity), `hooks`, `mark`.
Between any two of them it may die (`Crash`) or a statement may fail
(`TransientFailure`, `PermanentFailure`, `BookkeepingFails`, the `except` clauses of
`_receive_object`). The relay puts any envelope under any free name at any time. An
object over the size cap never reaches the pipeline: `visit()` consumes it
(`ConsumeOversize`), and only the poll's own count mentions it. A clean poll sweeps and then
reconciles; `sweep = "refused"` is a key retirement, of any relationship, that has come due and
that the foreign key refuses, which skips the reconciler at every poll from then on and makes an ack's
`_send_event` raise after it has sent. `Paused` is `may_send`: a candidate stored and not
acknowledged before its deadline stops its own late ack.

Abstractions. An envelope stands for its exact bytes; parsing, schema, signature
and unsealing are the header's `valid`. Whether `apply_event` raises
`ProjectionError` is a free choice. The clock unit is coarse: the future tolerance
is less than one. Rows of one clock unit are rows of one second for the
quarantine's cap, and the order of object names is arbitrary. Of key rotation, only
the epoch gate (`on_data_event_epoch` without its cap of 1000 first-seen rows), the
effect of `on_prepare`, the ack and the two ways to be refused are here; there is no
commit, so at most one rotation is in flight, and of the sweep only whether it raises. This side's own messages, which also count against
the quota, are left out; its receipts and acks are in, a receipt counted at the time of the
event it answers.

### `Watcher`

One poll over the git relay: commits are numbered, `tree` is `incoming/` at the
tip, `base` is `incoming/` at the checkpoint commit, and the listing is their
difference, as `git diff --diff-filter=AM` gives it. Objects are judged (terminal,
their consume queued) or held. The push resets to the tip, replays the queue,
pushes, is rejected if the tip moved, and is marked done afterwards. `Abort` is any
`TransportError`, an exception of the receiver or a crash; `LoseState` is a missing
or corrupt state file. `judged` and `raced` are history variables. The byte cap
acts like the object cap; the soft and hard push rate limits are `SkipFlush`,
allowed at any flush; polls that are throttled or backing off are stuttering.

### `Rotation`

Both sides of the relationship-key ceremony, each with its `key_epochs` rows
(`epochs`: whose key, and which), its `relationships` row (`keyEpoch`, `peerKey`), its
`key_rotations` rows by role, parked decrypt signals (`pending`), the event log as far as
rotation reads it, and a command under way (`job`). Events travel in a set: they
are reordered and delayed at will. `mas rotate --prepare/--confirm/--commit` are two
steps each, with `CommandDies` between them, because the code sends and then marks;
a hook is a step of its own after the receive transaction, and `MarkDone` is its
marker. An event carries the epoch of its header and the set of keys it is wrapped to;
`TriedEpochs` is the reader's choice of keys. The foreign key from `events` to
`key_epochs` is in `Discard` and `Sweep`: a deletion it refuses changes nothing of its
transaction, while the compaction in the transaction before it remains. The
clock is coarse, so "24 hours or 100 events" is "at any sweep". Equal ordinary
messages count as one. `SealWraps`, `Acceptable` and the rest carry the names of the
code's predicates where it has one.

### `StateDir`, `Pairing`, `Teardown`, `Lifecycle`

`StateDir` is what pairing writes and teardown erases on the inviter's side:
relationship rows, key rows, key files, `relay.json`, `relay_config`, and the deploy keys
GitHub holds. `Pairing` is `mas pair ...`: a commit run goes through preview,
confirmation, the two registrations, the key file, the transaction, the two relay
records and the hand-over, and may die between any two; two runs may overlap. The
acceptor's row and key files are separate writes. A human compares the words on the
screen; they match only for the acceptor's own card, while a second acceptance by
another agent lies about. The acceptor's writes are the row, the key and the acceptance
handed out; an `OSError` takes the row and the directory away again. `Teardown` runs the
steps of `teardown_relationship` in their order, again with a death anywhere, and a resume.
The file phase is not one step: the walk removes one file after the other (`WalkFile`), in any
order, the journals that list a key of the relationship among them, then comes the key
subtree (`WipeKeys`), then `relay.json`. Beside it runs a `begin_rotation` (checks, file, row) and a discard of a
candidate by another process (row, file), either of which may die in between. `Lifecycle`
composes the two over one state directory. History variables: `orphans` (files that a death
left without a row), `clobbered` (files that a discard deleted under a new rotation), `walked`
(journals that a walk took), `erased` (a clean postcheck), `raced`. A local relay needs
none of the GitHub steps and is not a separate case.

Limits: one teardown, one `begin_rotation` and one discard at a time; a second concurrent
`begin_rotation` would meet the same file in the same way. A candidate may be discarded
whatever its phase. Key destruction before the delete transaction is one step. The file
deletion at the end of a retirement is left out: the foreign key refuses every
retirement (`Rotation`, `OwnKeysUsed`), so it is not reached. The pairing directories are left out of the wipe:
`_relationship_invite_ids` reads `migration_state` entries that nothing in the package writes.

### `Migration`

Both sides' `migration_state`, vault and bundles, one action per durable write of
`stage`, `verify`, `cutover`, `observe` and `rollback`; `Stops` ends a command after any
of them (a hook that is missing or fails, a process that dies). Signed messages stay
valid for ever (`posted`), since nothing in them names an attempt. One command runs per
side at a time. Beside it, pollers of one reading side verify a v0.1 letter, read the
sequence table, and store it in a later transaction, while the replay guard is pruned.

### `Identity`

The seed in `keys/` and the card in the state directory, as numbers in the order of
their creation; a staged file and a journal carry the number of their identity. `disk`
holds, for each directory, its contents since its last fsync, the visible one last: a
rename or an unlink appends, an fsync keeps only the last, `PowerLoss` leaves any one of
them, for each directory by itself. `Put` and `PutSynced` are the writes without and with
the fsync of their directory. Every command is `Load`, the recovery, `ReadSeed`, `ReadCard`
and either `Finish` or a rotation: `Notify` per peer, `BackUp`, the ten steps of
`atomic_write_pair`, `SaveAnnouncement`. `Missing` is a file that another command has taken
(`FileNotFoundError`), `Refused` an error of the system at a step in `FailPoints`; both end in
the handler (`Abort`), which removes staged files unless `journal_written`. A scenario says
which commands run and how much may go wrong; `left` counts it down. A file that vanishes between the recovery's
`exists` and its `replace` ends the command, as `Kill` does.

### `Projections`

The handlers are operators from tables to tables that may refuse (`ProjectionError`);
`Apply` is `_apply_inner`, `Rebuilt` is `rebuild_projections` as a fold over the log in
the order `Before` (`InOrder`). `Record` and `Project` are the receive transaction and the apply after
it, with any number of events logged and not applied in between, as crashes leave them.
`torn` is a history variable: an event was applied while its target was logged and not
applied, or a rebuild ran ahead of the queue. `MCProjections` gives nine small sets of
events, one for each family of handlers and one about a refused event; each is received in
every order.

Six statements say what the tables owe to the log. They hold in whatever order
events came and whenever a rebuild ran, with the exceptions for refused and expired events that
each one names: nothing waits for what is
there (`NothingWaitsForApplied`), nothing about a missing event is dropped
(`MissingTargetIsAwaited`), the gaps are the missing numbers (`GapsAreMissing`), a rebuild
finds the same ones (`RebuildMissesTheSame`) and hides the same messages
(`RebuildHidesTheSame`), a hidden message stays hidden (`HiddenStaysHidden`). The first three
make up `MissingIsTracked`, the two about a rebuild `RebuildKeepsHiddenAndMissing`. A last one,
`RebuildAgrees`, says that a rebuild finds everything the same, under `Orderly`.

Operators named `X_Y` in the modules are variants of `X` with a typical mistake,
used only to show that a property notices it.

## 3. What TLC checks

Passing runs:

| run | shows | bounds |
|---|---|---|
| `outbox` | nothing is handed over twice, early or after a cancel; no row is stuck; undelivered approvals are reported and shared only after that; terminal states are final | 2 rows, 2 processes, 1 approval, 1 crash, 2 attempts, clock 0..1: enough for two runs over one scan, a cancel and a crash inside both of them, and an approval spent, restored and spent again |
| `outbox_liveness` | every row resolves | 1 row, every delivery window, 2 processes |
| `receive_log` | unforked log, tracking, receipts, draining, pinned identity, refinement of `Inbox` | a message, an identity announcement, a rival one reusing the message's number, an event of the new identity reusing its id, a later one reusing its nonce; 3 uploads, 1 fault, clock 0..1 (the guard's expiry and the end of the grace window included) |
| `receive_hooks` | one ack per prepare; an object that is not over the size cap is consumed only when settled; every object settles unless the relationship is revoked; every prepare is hooked unless a revocation, a refused sweep or the pause of sends ends the retries | a prepare, a message of the next epoch, an object over the cap; 2 names, 2 uploads, quarantine cap 1 (so that a second rejection evicts), 1 fault, clock 0..1 with a rotation window of 0 (so that the deadline passes between the candidate and its ack); the quota is out of reach here (a quota hold ends only as the clock moves, and the clock is bounded) |
| `watcher` | only raced objects are hidden by the checkpoint; only judged ones are removed; every object not hidden by a race is judged; every consume is carried out | 3 names, stream cap 1 (so that two objects truncate), 2 push attempts (three names exhaust them), 3 pushes by the peer, 1 fault |
| `rotation` | the two key epochs stay within one open rotation; one rotation of an epoch gets past its candidate; a side seals to a key the peer has, except after a restart answered by an old ack | 3 epochs, 2 fresh keys (two rotations, crossed or one after the other, or one started twice), 3 sends a side, deadline after 1 tick, clock 0..2; the sides are symmetric |
| `lifecycle` | one relationship per invite, and with the compared agent; keys follow rows, but for a late discard and a death; a dead teardown is let in again; nobody else's relay goes | an established relationship and an invite on one repository, 2 commit runs, 4 commands in all (accept, commit, teardown, second teardown or resume, rotation, discard), but for a teardown beside two commit runs of which the first is not over or the invite has expired (`Bounded` of `MCLifecycle`, which keeps the run below 3 million states) |
| `migration` | a bundle that opens exists while it is needed; the key is destroyed on the peer's commit only, and nothing of v0.1 is left after; each letter is stored once | 4 commands for one side (stage, fail or roll back, stage, verify, ...), 3 for the other (stage, verify, cutover); 2 letters, 2 pollers |
| `identity` | seed and card converge, no seed in use is lost and the peers know of it, a durable journal is carried out | three scenarios, chosen at the start: 1 rotation beside 2 other commands with 2 kills and 1 refusal; 3 rotations one after the other with 3 kills and 1 refusal; 3 with 2 power losses (a loss during the recovery from a loss) and 2 refusals. 2 peers; refusals at any step but the journal's fsync |
| `projections` | references do not wait for what is there and are not dropped; gaps are exact; retractions hide the same live and rebuilt, and for good; live tables equal rebuilt ones when order was kept where it matters | 9 sets of 3 or 4 events, pending time 1, clock 0..2, gap cap 2 (so that the fourth number of a sender meets it), every order of logging and applying, rebuilds and expiry at any moment |

`CHECK_DEADLOCK FALSE` is used where the system may come to rest: the watcher when
everything is consumed, and `rotation`, `lifecycle`, `migration` and `projections` when
their bounded commands, keys or events are used up, and `identity` when an init died
halfway and every command refuses.

Runs that are expected to be violated; each shows a place where the code does not
do what its own documentation says (`PROJECT.json`, findings):

| run | what happens |
|---|---|
| `outbox_claim` | a crash after the implicit commit leaves a released row that was never enqueued |
| `receive_lost` | a failure after the receive commit consumes an object whose projection is still queued |

The models follow the code in other places where its comments promise more. These
have no run of their own; where a property names an exception, dropping it from the
property makes TLC show the case:

* a failure counted against a row that was released restores the approval of an
  event that was delivered (`RecordFailure`, `RestoreApproval`); the properties
  `UndeliveredIsReported` and `ApprovalSharedOnlyIfReported` bound what follows;
* an object pushed between the fetch and the second `head()` lies behind the checkpoint,
  unseen (`OnlyRacedIsSkipped` allows exactly this), although a checkpoint is said to
  mean that every object reached a terminal state;
* consent is checked before the implicit commit of a release and before the receive
  transaction, so a row is sent (`Upload`) and an event accepted (`Commit`) after a
  `Revoke` that lands in between;
* the `projection_queue` rows of the receipts this side writes are never drained;
* this side's receipts and acks count against the peer's ingress quota (`OverQuota`);
* a poll that leaves an object held skips the reconciler (`EndPoll`); it runs at
  the next clean poll, which `EveryPrepareIsHooked` relies on;
* at the quarantine cap, within one second, the row being written may be the one
  dropped (`Quarantine`), which `ConsumedIsSettled` has to allow for;
* an object over the size cap is consumed without a quarantine row (`ConsumeOversize`,
  `watcher.py:232`; the transports hand over a placeholder longer than the cap, so the
  recorded refusal of `cli.py:3447` is not reached), which `ConsumedIsSettled` allows for;
* a prepare whose candidate was stored and whose ack is late is paused by that very
  candidate (`Paused`): it is retried at every poll and never acknowledged or marked;
* a poll without `--relationship` leaves revoked relationships out (`cli.py:4165`), so objects
  that were there at the revocation stay (`Fairness`, `EveryObjectSettles`).

Rotation:

* an ack is matched by its epoch, not by its prepare: the ack of a discarded attempt acknowledges the
  next one, and the peer seals to a key that is gone (`OnAck`; `OnlyRestartSplits` allows
  exactly this; the ack carries the prepare's id, but the command starts a rotation without
  one, `cli.py:4421`, so that the comparison of `crypto/rotation.py:613` is skipped);
* `events` refers to `key_epochs` (`store/migrations.py:176`), so deleting an epoch that any
  event used is refused: the old private key is not deleted as `sweep` says, the
  exception escapes `_sweep_rotations` and the reconciler after it does not run
  (`cli.py:3966`; `sweep = "refused"` in `EveryPrepareIsHooked`), although `cli.py:3887` says
  that it retries what stayed unmarked and `cli.py:3963` that neither "ever fails the
  poll"; and a used candidate is never discarded, which leaves
  `rotation_in_flight` for good; the compaction of peer keys fails the same way;
* a message sealed after a commit that overtakes it cannot be opened yet and is
  quarantined, not held (`Refuse`);
* the candidate's key file is deleted after the transaction, so a new `begin_rotation`
  of the same epoch, which takes the file for an orphan, can lose its own (`DiscardFile` of
  `Teardown`, `clobbered` in `KeysFollowRows`), although `crypto/rotation.py:1387` says "never a live row
  pointing at a deleted key".

Pairing and teardown:

* a second `mas pair accept` of an invite removes the first one's keys (`StoreAcceptance`,
  `cli.py:868`; `rewritten` in `SealedKeyIsHeld`);
* a commit run that dies after its transaction leaves an invite that cannot be retried
  and a relationship without relay records (`RunDies` after `CommitTxn`); one that dies after
  registering a key makes every retry fail, since GitHub refuses the key
  (`cli.py:1162` says a retry reuses the pair);
* an invite that expires after it was committed is set to `expired` by a late run
  (`CommitFails`, `model/invites.py:1072`);
* a run that loses to another one deletes the deploy key file both share (`Undo`);
* the phrase of a swapped card, displayed while a run is under way, is confirmed by it
  (`overlapped` in `PairedIsCompared`);
* both deploy keys have one title, which is the hook log's key: the second is never
  revoked (`RevokeKeys`; `docs/protocol-v0.2.md:422`); a hook that answers "manual" is
  recorded as done;
* `relay.json` holds only the newest relationship (`WriteRelayJson`), the walk over stray
  files removes `relay.json` and every journal that lists a key of the relationship, its own
  or that of another unfinished teardown (`WalkFile`), and what was kept at discovery is
  written back over a newer file (`PruneRelayJson`);
* a teardown that dies after its walk, or cannot destroy a key after it, is left with its
  tombstone alone (`walked` in `DeadTeardownCanResume`), although `teardown.py:698` says that the
  journal is there for such a crash and "deleted on successful completion"; what the second
  run then does not know is what to keep of `relay.json`;
* a resumed run does not delete the journal, and a postcheck that finds a trace leaves it
  (`Postcheck`);
* a rotation that stores its file after the walk, and dies before its row, leaves a key file of
  a relationship that is gone, which no `begin_rotation` will replace (`orphans` in `KeysFollowRows`);
* a repository claimed after the discovery is deleted (`raced` in `OthersKeepTheirRelay`);
* `mas revoke` refuses a relationship without a row, so the resume path is not reached
  from the command line; `Resume` is the function called by other code.

Migration:

* a crash in the destructive section of `cutover` leaves phase `verified` without the key;
  its docstring (`migrate.py:1447`) says key and bundle are intact;
* `rollback` turns v0.1 sends on before it looks for the key (`Rollback`,
  `RollbackKeyCheck`): sends may be on with no key, in phase `verified` only
  (`CommitIsMutualAndFinal`);
* one side may roll back after the other has committed, and a commit signature is
  good for every later attempt (`Has`);
* once `cutover` has deleted the key the 24-hour drain cannot read anything
  (`LegacyAccepted`; `docs/migration-v01.md:90`), and a drain clock left by an earlier
  attempt closes a later dual read (`DrainOpen`);
* nothing in the package writes `migration.pair_id`, `peer_legacy_id` or `my_legacy_id`, and
  the command line passes no hooks: the ceremony runs only with hooks wired by other
  code, as the tests do; the model assumes them wired;
* `projection_queue` rows of v0.1 letters are never applied, so `observe` may never pass its
  gate; two pollers that read one sequence table quarantine a genuine letter
  (`StoreLegacy`).

Identity (`_keyfiles.py:275` promises the old pair or the new pair after a crash at any
point; the scenarios keep clear of these, and TLC shows each of the first four with wider
ones):

* a recovery unlinks the journal it finds, not the one it read (`RedoUnlink`): a slow one
  removes the journal of a later rotation between its renames, and a kill there leaves
  seed and card torn for good (two rotations beside other commands);
* a kill between the rename of the journal and its fsync, or a second command in that
  window, followed by a power loss during the recovery: the recovery renames from a
  journal that is not durable, and the seed may survive without the card and the journal;
* an error in that fsync (or an interrupt before `journal_written` is set) removes the
  staged files while the journal is visible: a concurrent recovery, or a power loss, tears
  the pair (`FailPoints` with `syncJournal`);
* two rotations at once tear the pair or lose a seed (`Rotators` with two commands);
* a rotation whose journal was re-driven by another command misses its files and answers
  that the old identity is in place (`FileTaken`; `cli.py:4345` calls this a lie);
* a rotation that fails at a later peer, or dies before its journal, has told peers of an
  identity whose seed is gone (`NotifyFails`; it answers "no state was changed");
* one completed by a recovery has no announcement file;
* an init that dies after the seed can neither be used nor repeated (`InstallSeed`):
  commands answer "run 'mas init' first", and `mas init` refuses.

Projections (`store/projections.py:7` promises a rebuild identical to the live tables):

* edits, updates and reactions of one target that arrive out of their order give other
  live rows than a rebuild; so do an answer that waited for its poll, which is judged by
  the poll's arrival time (`ResolveOne`), and a reply applied before its target of another
  conversation, which is kept as "unavailable" live and refused by a rebuild;
* an event that waits for one that is then refused waits for ever, since only an applied
  event resolves references; a rebuild, which finds the target in the log, refuses it when
  the target's type does not fit. `Orderly` in `RebuildAgrees` names these cases;
* which gaps the cap cuts off depends on the order of arrival (`Uncapped`);
* a retraction whose waiting reference expired is lost when its message comes, and
  a cancel of an announcement that came second waits for ever;
* references applied again after a rebuild that ran ahead of the queue are not
  idempotent (`torn`; `cli.py:3206` says they are);
* `expire_pending_refs` and `rebuild_projections` have no caller in the package.

### Fairness

* `Scheduler`: `mas receive` fires from cron again and again, interrupted or not
  (strong fairness of `StartRun`), a command that has begun goes on (weak
  fairness), time passes, a revocation is driven to its end.
* `Receive`: weak fairness of the receiver's steps taken together: polls recur while the
  relationship is not revoked, and a running poll proceeds. No fairness of uploads, ticks
  or operators.
* `Watcher`: polls recur and proceed. Strong fairness of `Replay`: the soft push
  interval defers some flushes, not all of them. Strong fairness of `Judge(n)`:
  an object that is visited again and again is not held for ever, which is
  `EveryObjectSettles` of `Receive`. Faults are finite.

* `Identity`: weak fairness of each command's own steps: cron starts `mas receive` again
  and again, and a command that has begun goes on. None of kills, refusals, power losses.

## 4. What TLAPS proves

For every value of the constants that satisfies the modules' `ASSUME`s. The type
invariants are theorems only (`TypeCorrect`, `ReceiveTypeCorrect`, `WatcherTypeCorrect`); the runs
do not repeat them.

* `SchedulerProofs`: `TypeCorrect`, `SentAtMostOnce`, `CancelWins`, `CapsulesWait`,
  `PoisonRowsLeaveTheQueue`, `ApprovalsAccounted`, `ApprovalsAreNotReused`,
  `TerminalStatesAreFinal`. The
  invariant adds to the properties where a process is: one that is `claimed` owns
  its row exclusively, the row is `released` and was not yet handed over; one in the
  failing stretch has a current row. Without it "handed over at most once" is not
  inductive: a second process could stand in front of the same upload.
* `ReceiveProofs`: `ReceiveTypeCorrect`, `LogNeverForks`, `LoggedIsTracked`,
  `ReceiptsMatchLog`, `AcceptedMeansDrained`, `IdentityIsPinned`,
  `ReceiveImplementsInbox`, `PreparesAckedOnce`, `NothingIsDropped`. The invariant says what each stage has established:
  the object in hand is still on the relay (`PollInv`); from `project` on its
  event is logged, in `project` it is queued, from `apply` on it is not
  (`StageInv`); the tables agree with each other (`TablesInv`). The refinement maps
  the receive transaction to `Accept`, a projection to `Show`, an event-level
  quarantine to `Bury`, and everything else to a stutter. `NothingIsDropped` is the action
  property `ConsumedIsSettled`; it needs to know where an answer came from
  (`AnswerInv`: one that is not `retry_pending` is backed by the log, or by a quarantine row
  written since this receive began, unless the table is full of rows as recent).
* `WatcherProofs`: `WatcherTypeCorrect`, `CheckpointHidesOnlyRaced`,
  `PushRemovesOnlyJudged`. The invariant accounts for every object of the fetched
  tree (still to be visited, judged, raced, held or truncated) and says that a
  queued consume is a judged one.
* `RotationProofs`: `OneRotationPerEpoch`, `KeyEpochsStayClose`, `SplitsComeFromRestarts`,
  for any number of epochs, keys, sends and ticks. Nothing about the two databases alone
  is inductive: the invariant says what every event under way or waiting for its hook implies of
  its sender (`EventsHeld`), how far the two sides' rotations of one epoch can be apart
  (`InStep`), that a side has one rotation open (`OneOpen`), and that the foreign key of
  `events` keeps every own key but the candidate's (`OwnKeysUsed`). From these a side seals to
  a key the peer keeps, or is `Split`: an old ack answered a restarted rotation, and
  nothing it seals afterwards is opened. `RowsAgree` ties `key_rotations` to `key_epochs`.
* `LifecycleProofs`: `OneComparedPairPerInvite`, `SealedKeyMatches`, `KeysLiveAndDieWithRows`,
  `DeadTeardownsAreFound`, `RelaysAreKept`, for any number of invites, commit runs,
  relationships, repositories and commands. `PairingInv` follows a commit run: its
  acceptance was handed to it, the phrase compared is still the one shown unless another run
  interfered, what it commits is what it checked. `TeardownInv` says what each step of a
  teardown has behind it (row, consent, tombstone, journal, the key from pairing: `TdHeld`),
  and that a run or a rotation about to insert a key row has its file, or lost it to a
  discard, and is the only one to insert it (`RowsHeld`). `RelayInv` says which
  deploy keys a run has registered at each step, which is what a teardown's "is anyone else
  on this repository" looks at.
* `MigrationProofs`: `RollbackIsPossible`, `CommitIsSafe`, `LettersStoredOnce`. The
  invariant of the ceremony is per side over the program counter: the phase a command
  runs in (`PhaseHeld`), freeze, bundle, bundle key and recorded path coming to agree in
  this order (`BundleHeld`), and what precedes each destruction of the cutover
  (`CutoverOrder`, `KeyHeld`). `LegacyInv` says that a poller holds the next number of an older
  state of the table that has only grown since.
* `IdentityProofs`: `PairConverges` and `UsedIsAccounted`, twice. `SerialPairConverges` and
  `SerialUsedIsAccounted` are for any number of rotations, kills, refusals and peers when
  commands run one after the other, with power losses instead of kills if so wished
  (`Serial`); the invariant ranges over everything a power loss may leave of each directory
  (`Rests`): each pair of remains is one that a recovery completes, a journal that may come back is
  carried out, what was used is backed up before it is replaced. `RacingPairConverges` and
  `RacingUsedIsAccounted` are for any number of commands and recoveries at once beside one
  rotation, with kills and refusals (`OneRotation`); there the argument is that every step
  only goes forward (`Forward`) and that nothing but the rotation itself touches what
  it has prepared (`Aside`), so that two commands carrying out one journal do not
  disturb each other. These theorems have hypotheses because the statement is false
  without them: section 3 lists what a kill followed by a power loss, a refused fsync of the
  journal, or a second rotation beside a slow recovery does. The hypotheses hold of
  the scenarios of the run `identity`, so both speak of the states TLC visits.

* `ProjectionsProofs`: `TablesConsistent`, `MissingTracked` (from `NeverWaitsInVain`,
  `WaitsForTheMissing`, `GapsAreExact`), `RebuildKeeps` (from `RebuildMisses`,
  `RebuildHides`), `HiddenForGood`, for any finite sets of
  events with the keys that the schema gives them, any pending time and any gap cap. The invariant
  is one predicate, `Consistent(d, events, done)`: the tables `d` account for the events
  `done` that were applied out of the log `events`. Its parts: references and
  messages are those of logged events (`Tables`), an applied event that creates a subject has its row or
  was refused (`Settled`), a reference waits only for what is not there (`WaitHeld`), an applied
  retraction has hidden its sender's message, waits for it or has expired (`HideHeld`), a resolved
  reference has its target (`ResolvedHeld`), an event whose target is missing has its
  reference (`RefHeld`), and cursors and gaps are exact (`GapsHeld`, `SeqHeld`). In the middle of `_resolve_pending` some
  of these fail for the references still to be visited, so `Held` has them as a
  parameter (`open`), and the loop shrinks it. There is one lemma per handler (`Effect`), one for
  `Apply`, and then two uses of the same statement: for the live tables over the steps of
  the specification (`ProjectionsInv`), and for the rebuild over the steps of its fold
  (`RebuiltConsistent`). Two tables that are both `Consistent` with the whole log hide the
  same messages and miss the same numbers: the theorems about a rebuild never compare
  two runs step by step. The induction over the folds is stated for
  sets of natural numbers (`NatSetInduction`), since the theorem with an
  operator parameter cannot be used; `HiddenForGood` comes from `Later`, what an application never
  takes back.

Only model-checked: liveness (`EveryRowResolves`, `EveryObjectSettles`, `EveryPrepareIsHooked`,
`EveryListedObjectIsJudged`, `EveryConsumeIsDone`, `CommittedRotates`), since fairness and
ENABLED are outside the prover; `RebuildAgrees`, since equal rows depend on the order in which events
were applied, which `Consistent` does not record: its proof would have to follow, for each
kind of row, the history of both folds; and the expected violations. Every other
property of a passing run is stated by a theorem.

## 5. Not modelled

* Cryptography, canonical JSON, schema validation, word lists and cards: pure
  computation, assumed correct. Configuration, HTTP calls, inspection commands and
  output: I/O.
* Key rotation: `resolve_quarantine` (no caller), caps and retention of the quarantine and
  history tables, key files (they are in `StateDir`).
* Pairing: `validate_invite` and `record_verification`, which the commands no longer use; the
  acceptor's own relay records; local relays.
* Migration: dry run and rehearsal; two commands of one side at once, which the code does
  not exclude.
* Projections: threads, attachments and the read views. A message refused because its thread
  belongs to another conversation (`store/projections.py:641`) is not among the refusals; the
  properties exempt refused events.
* Sending: sequence allocation and the sender's own projection. Schema
  migration, retention sweeps: see the plan.
* Identity: file modes, the backup of the card, the contents of the announcement.

## 6. Plan

1. `RebuildAgrees` one kind of row at a time: each row is a function of the
   events about it in the order they took effect, which `Orderly` makes the order of creation.
2. Schema migration and retention: crash recovery of the table copies.
3. `EndToEnd`: outbox, relay and receiver of two agents composed: a released event is
   logged by the peer once, a receipt comes back, under revocation and rotation.
