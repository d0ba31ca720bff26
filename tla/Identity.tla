------------------------------ MODULE Identity ------------------------------
(***************************************************************************)
(* The installation's identity on disk: master seed in keys/, agent card in *)
(* the state directory.  `mas init` creates them, `mas rotate --identity`   *)
(* replaces both through atomic_write_pair and its journal, and every       *)
(* command starts by re-driving a pending journal (recover_pending_pair).   *)
(* Commands run concurrently without a lock, are killed, and lose what was  *)
(* not fsynced when the power fails.                                        *)
(*                                                                         *)
(* An identity is a number, in the order of creation; its seed, its card,   *)
(* its staged temp files and the journal that names them all carry it.      *)
(***************************************************************************)
EXTENDS Naturals, SequencesExt

CONSTANTS
    Commands,      \* processes: each runs one `mas` command after another
    Rotators,      \* the ones that may run `mas rotate --identity`
    Peers,         \* active relationships
    MaxIdentities, \* bound: seeds generated, the one of `mas init` included
    FailPoints,    \* steps of the pair publish at which the OS may refuse
    Scenarios      \* which commands run, and the bounds on what goes wrong

\* Refusals and failed notifications, commands killed, power losses.
ScenarioType == [commands : SUBSET Commands, identities : 0..MaxIdentities,
                 faults : Nat, kills : Nat, losses : Nat]

ASSUME IdentityAssumption ==
    Rotators \subseteq Commands /\ MaxIdentities \in Nat /\ Scenarios \subseteq ScenarioType

Absent == 0
Ids == 1..MaxIdentities
Dirs == {"keys", "state"}

VARIABLES
    disk,      \* per directory: its contents since its last fsync, visible one last
    pc,        \* the step each command is at
    seen,      \* the identity of the seed a command has read
    new,       \* the identity a rotation creates
    journal,   \* the journal a recovery has read
    told,      \* <<peer, identity>>: identity.rotated queued for the peer
    issued,    \* identities generated so far
    used,      \* history: identities some command has loaded
    left       \* the scenario, and how much may still go wrong

vars == <<disk, pc, seen, new, journal, told, issued, used, left>>

\* The steps of atomic_write_pair before and after journal_written is set.
Staging == {"stageSeed", "stageCard", "syncStaged", "writeJournal", "syncJournal"}
Publishing == {"publishSeed", "publishCard", "syncPair", "dropJournal", "syncDropped"}

\* keys/: the seed, staged seeds, backups.  The state directory: the card, staged cards,
\* the journal, config.yaml and the database.
Init ==
    /\ disk = [keys  |-> <<[seed |-> Absent, staged |-> {}, backups |-> {}]>>,
               state |-> <<[card |-> Absent, staged |-> {}, journal |-> Absent,
                            config |-> FALSE, db |-> FALSE]>>]
    /\ pc = [p \in Commands |-> "idle"]
    /\ seen = [p \in Commands |-> Absent] /\ new = [p \in Commands |-> Absent]
    /\ journal = [p \in Commands |-> Absent]
    /\ told = {} /\ issued = 0 /\ used = {} /\ left \in Scenarios

(***************************************************************************)
(* The file system.  A rename or unlink is visible at once and durable      *)
(* after an fsync of its directory; before that a power loss may undo the   *)
(* latest changes of the directory.                                         *)
(***************************************************************************)

Now(d) == Last(disk[d])
Keys == Now("keys")
State == Now("state")

Put(d, contents) == disk' = [disk EXCEPT ![d] = Append(@, contents)]
PutSynced(d, contents) == disk' = [disk EXCEPT ![d] = <<contents>>]
Sync(dirs) == disk' = [d \in Dirs |-> IF d \in dirs THEN <<Now(d)>> ELSE disk[d]]

\* os.replace(tmp, target) of identity i's seed and card.
RenameSeed(i) == Put("keys", [Keys EXCEPT !.seed = i, !.staged = @ \ {i}])
RenameCard(i) == Put("state", [State EXCEPT !.card = i, !.staged = @ \ {i}])
Unlink == Put("state", [State EXCEPT !.journal = Absent])

Spend(what) == left[what] > 0 /\ left' = [left EXCEPT ![what] = @ - 1]
Goto(p, from, to) == pc[p] = from /\ pc' = [pc EXCEPT ![p] = to]

(***************************************************************************)
(* mas init                                                                *)
(***************************************************************************)

\* cmd_init refuses when a seed exists; store_master_seed never overwrites one.
InstallSeed(p) ==
    /\ Goto(p, "idle", "installCard")
    /\ Keys.seed = Absent /\ issued < left.identities
    /\ issued' = issued + 1
    /\ new' = [new EXCEPT ![p] = issued']
    /\ PutSynced("keys", [Keys EXCEPT !.seed = issued'])
    /\ UNCHANGED <<seen, journal, told, used, left>>

InstallCard(p) ==
    /\ Goto(p, "installCard", "installConfig")
    /\ PutSynced("state", [State EXCEPT !.card = new[p]])
    /\ UNCHANGED <<seen, new, journal, told, issued, used, left>>

InstallConfig(p) ==
    /\ Goto(p, "installConfig", "installDb")
    /\ PutSynced("state", [State EXCEPT !.config = TRUE])
    /\ UNCHANGED <<seen, new, journal, told, issued, used, left>>

InstallDb(p) ==
    /\ Goto(p, "installDb", "idle")
    /\ PutSynced("state", [State EXCEPT !.db = TRUE])
    /\ UNCHANGED <<seen, new, journal, told, issued, used, left>>

(***************************************************************************)
(* Ctx.__init__: every other command                                       *)
(***************************************************************************)

\* Refused without a config (not_initialized).
Load(p) ==
    /\ Goto(p, "idle", "readJournal")
    /\ State.config
    /\ seen' = [seen EXCEPT ![p] = Absent] /\ new' = [new EXCEPT ![p] = Absent]
    /\ journal' = [journal EXCEPT ![p] = Absent]
    /\ UNCHANGED <<disk, told, issued, used, left>>

\* recover_pending_pair: read the journal, rename what is still staged, fsync, remove.
ReadJournal_Refuses(p) ==
    /\ Goto(p, "readJournal", IF State.journal = Absent THEN "readSeed" ELSE "idle")
    /\ UNCHANGED <<disk, seen, new, journal, told, issued, used, left>>

ReadJournal(p) ==
    /\ Goto(p, "readJournal", IF State.journal = Absent THEN "readSeed" ELSE "redoSeed")
    /\ journal' = [journal EXCEPT ![p] = State.journal]
    /\ UNCHANGED <<disk, seen, new, told, issued, used, left>>

RedoSeed(p) ==
    /\ Goto(p, "redoSeed", "redoCard")
    /\ IF journal[p] \in Keys.staged THEN RenameSeed(journal[p]) ELSE UNCHANGED disk
    /\ UNCHANGED <<seen, new, journal, told, issued, used, left>>

RedoCard(p) ==
    /\ Goto(p, "redoCard", "redoSync")
    /\ IF journal[p] \in State.staged THEN RenameCard(journal[p]) ELSE UNCHANGED disk
    /\ UNCHANGED <<seen, new, journal, told, issued, used, left>>

RedoSync(p) ==
    /\ Goto(p, "redoSync", "redoUnlink")
    /\ Sync(Dirs)
    /\ UNCHANGED <<seen, new, journal, told, issued, used, left>>

\* The unlink raises when another command has removed the journal: the command ends.
RedoUnlink(p) ==
    /\ \/ State.journal # Absent /\ Goto(p, "redoUnlink", "redoDone") /\ Unlink
       \/ State.journal = Absent /\ Goto(p, "redoUnlink", "idle") /\ UNCHANGED disk
    /\ UNCHANGED <<seen, new, journal, told, issued, used, left>>

RedoDone(p) ==
    /\ Goto(p, "redoDone", "readSeed")
    /\ Sync({"state"})
    /\ UNCHANGED <<seen, new, journal, told, issued, used, left>>

ReadSeed(p) ==
    /\ Goto(p, "readSeed", "readCard")
    /\ seen' = [seen EXCEPT ![p] = Keys.seed]
    /\ UNCHANGED <<disk, new, journal, told, issued, used, left>>

\* The card must be the seed's (identity_mismatch) and the database there (state_error).
Loadable(p) == State.card = seen[p] /\ State.db

ReadCard(p) ==
    /\ \/ /\ Loadable(p) /\ Goto(p, "readCard", "ready")
          /\ used' = used \cup {seen[p]}
       \/ /\ ~Loadable(p) /\ Goto(p, "readCard", "idle")
          /\ UNCHANGED used
    /\ UNCHANGED <<disk, seen, new, journal, told, issued, left>>

\* Any command that does not touch the identity.
Finish(p) ==
    /\ Goto(p, "ready", "idle")
    /\ UNCHANGED <<disk, seen, new, journal, told, issued, used, left>>

(***************************************************************************)
(* _rotate_identity                                                        *)
(***************************************************************************)

Rotate(p) ==
    /\ p \in Rotators /\ issued < left.identities
    /\ Goto(p, "ready", "notify")
    /\ issued' = issued + 1
    /\ new' = [new EXCEPT ![p] = issued']
    /\ UNCHANGED <<disk, seen, journal, told, used, left>>

\* identity.rotated goes to each peer in turn, before anything is on disk.
Notify(p, r) ==
    /\ pc[p] = "notify" /\ <<r, new[p]>> \notin told
    /\ told' = told \cup {<<r, new[p]>>}
    /\ UNCHANGED <<disk, pc, seen, new, journal, issued, used, left>>

NotifyFails(p) ==
    /\ \E r \in Peers : <<r, new[p]>> \notin told
    /\ Goto(p, "notify", "idle")
    /\ Spend("faults")
    /\ UNCHANGED <<disk, seen, new, journal, told, issued, used>>

AllNotified(p) ==
    /\ \A r \in Peers : <<r, new[p]>> \in told
    /\ Goto(p, "notify", "backUp")
    /\ UNCHANGED <<disk, seen, new, journal, told, issued, used, left>>

\* Backups of the seed in place and of its card; no property is about the card's.
BackUp_Skipped(p) ==
    /\ Goto(p, "backUp", "stageSeed")
    /\ UNCHANGED <<disk, seen, new, journal, told, issued, used, left>>

BackUp(p) ==
    /\ Goto(p, "backUp", "stageSeed")
    /\ PutSynced("keys", [Keys EXCEPT !.backups = @ \cup {Keys.seed}])
    /\ UNCHANGED <<seen, new, journal, told, issued, used, left>>

(***************************************************************************)
(* atomic_write_pair                                                       *)
(***************************************************************************)

\* _stage_temp: the temp file's data is fsynced, its directory entry is not.
StageSeed(p) ==
    /\ Goto(p, "stageSeed", "stageCard")
    /\ Put("keys", [Keys EXCEPT !.staged = @ \cup {new[p]}])
    /\ UNCHANGED <<seen, new, journal, told, issued, used, left>>

StageCard(p) ==
    /\ Goto(p, "stageCard", "syncStaged")
    /\ Put("state", [State EXCEPT !.staged = @ \cup {new[p]}])
    /\ UNCHANGED <<seen, new, journal, told, issued, used, left>>

SyncStaged_Skipped(p) ==
    /\ Goto(p, "syncStaged", "writeJournal")
    /\ UNCHANGED <<disk, seen, new, journal, told, issued, used, left>>

SyncStaged(p) ==
    /\ Goto(p, "syncStaged", "writeJournal")
    /\ Sync(Dirs)
    /\ UNCHANGED <<seen, new, journal, told, issued, used, left>>

\* Replaces whatever journal there is.
WriteJournal(p) ==
    /\ Goto(p, "writeJournal", "syncJournal")
    /\ Put("state", [State EXCEPT !.journal = new[p]])
    /\ UNCHANGED <<seen, new, journal, told, issued, used, left>>

SyncJournal(p) ==
    /\ Goto(p, "syncJournal", "publishSeed")
    /\ Sync({"state"})
    /\ UNCHANGED <<seen, new, journal, told, issued, used, left>>

PublishSeed(p) ==
    /\ Goto(p, "publishSeed", "publishCard")
    /\ new[p] \in Keys.staged /\ RenameSeed(new[p])
    /\ UNCHANGED <<seen, new, journal, told, issued, used, left>>

PublishCard(p) ==
    /\ Goto(p, "publishCard", "syncPair")
    /\ new[p] \in State.staged /\ RenameCard(new[p])
    /\ UNCHANGED <<seen, new, journal, told, issued, used, left>>

SyncPair(p) ==
    /\ Goto(p, "syncPair", "dropJournal")
    /\ Sync(Dirs)
    /\ UNCHANGED <<seen, new, journal, told, issued, used, left>>

DropJournal(p) ==
    /\ Goto(p, "dropJournal", "syncDropped")
    /\ State.journal # Absent /\ Unlink
    /\ UNCHANGED <<seen, new, journal, told, issued, used, left>>

SyncDropped(p) ==
    /\ Goto(p, "syncDropped", "announce")
    /\ Sync({"state"})
    /\ UNCHANGED <<seen, new, journal, told, issued, used, left>>

\* The announcement file, for delivery by hand; no property is about it.
SaveAnnouncement(p) ==
    /\ Goto(p, "announce", "idle")
    /\ UNCHANGED <<disk, seen, new, journal, told, issued, used, left>>

\* A rename or unlink whose file another command has taken.
Missing(p) ==
    \/ pc[p] = "publishSeed" /\ new[p] \notin Keys.staged
    \/ pc[p] = "publishCard" /\ new[p] \notin State.staged
    \/ pc[p] = "dropJournal" /\ State.journal = Absent

\* The handler: staged files go unless journal_written.
Cleared(p, d) ==
    IF pc[p] \in Staging /\ new[p] \in Now(d).staged
    THEN Append(disk[d], [Now(d) EXCEPT !.staged = @ \ {new[p]}])
    ELSE disk[d]

Abort(p) ==
    /\ disk' = [d \in Dirs |-> Cleared(p, d)]
    /\ pc' = [pc EXCEPT ![p] = "idle"]
    /\ UNCHANGED <<seen, new, journal, told, issued, used>>

FileTaken(p) == Missing(p) /\ Abort(p) /\ UNCHANGED left

Refused(p) ==
    /\ pc[p] \in FailPoints \cap ({"backUp"} \cup Staging \cup Publishing)
    /\ Spend("faults")
    /\ Abort(p)

(***************************************************************************)
(* Crashes                                                                 *)
(***************************************************************************)

\* The process dies, or an error outside the handlers ends it.
Kill(p) ==
    /\ pc[p] # "idle" /\ Spend("kills")
    /\ pc' = [pc EXCEPT ![p] = "idle"]
    /\ UNCHANGED <<disk, seen, new, journal, told, issued, used>>

\* What a power loss may leave of each directory, independently.
AfterLoss == {[keys |-> k, state |-> s] : k \in ToSet(disk["keys"]), s \in ToSet(disk["state"])}

PowerLoss ==
    /\ Spend("losses")
    /\ \E rest \in AfterLoss : disk' = [d \in Dirs |-> <<rest[d]>>]
    /\ pc' = [p \in Commands |-> "idle"]
    /\ UNCHANGED <<seen, new, journal, told, issued, used>>

Recover(p) ==
    \/ ReadJournal(p) \/ RedoSeed(p) \/ RedoCard(p) \/ RedoSync(p) \/ RedoUnlink(p) \/ RedoDone(p)

Publish(p) ==
    \/ StageSeed(p) \/ StageCard(p) \/ SyncStaged(p) \/ WriteJournal(p) \/ SyncJournal(p)
    \/ PublishSeed(p) \/ PublishCard(p) \/ SyncPair(p) \/ DropJournal(p) \/ SyncDropped(p)

\* What a command does by itself.
Proceed(p) ==
    \/ InstallSeed(p) \/ InstallCard(p) \/ InstallConfig(p) \/ InstallDb(p)
    \/ Load(p) \/ Recover(p) \/ ReadSeed(p) \/ ReadCard(p) \/ Finish(p)
    \/ Rotate(p) \/ (\E r \in Peers : Notify(p, r)) \/ AllNotified(p) \/ BackUp(p)
    \/ Publish(p) \/ FileTaken(p) \/ SaveAnnouncement(p)

Next ==
    \/ \E p \in left.commands : Proceed(p) \/ NotifyFails(p) \/ Refused(p) \/ Kill(p)
    \/ PowerLoss

Spec == Init /\ [][Next]_vars

\* Commands are run again and again (cron runs `mas receive`), and go on once begun.
FairSpec == Spec /\ \A p \in Commands : WF_vars(p \in left.commands /\ Proceed(p))

(***************************************************************************)
(* Properties                                                              *)
(***************************************************************************)

\* What recover_pending_pair, run alone, makes of the contents of the two directories.
Redriven(keys, state) ==
    [seed |-> IF state.journal # Absent /\ state.journal \in keys.staged
              THEN state.journal ELSE keys.seed,
     card |-> IF state.journal # Absent /\ state.journal \in state.staged
              THEN state.journal ELSE state.card]

\* What is left if every command stops now: as the directories are, or after a power loss.
Leftovers ==
    IF left.losses > 0 THEN AfterLoss ELSE {[keys |-> Keys, state |-> State]}

\* Stop every command at any moment of a scenario: once installed, the next start makes
\* the seed and the card one identity's again.  It holds for commands that run one after
\* the other and for one rotation beside other commands; _keyfiles.py:275-277 promises it
\* without these conditions, and it fails outside them.
PairConverges ==
    State.config => \A rest \in Leftovers :
        LET pair == Redriven(rest.keys, rest.state) IN pair.seed = pair.card

\* An identity that a command ever ran under is accounted for: its seed is the one in
\* place after the next start or was backed up, and, unless `mas init` made it, every
\* peer was sent its announcement before.
UsedIsAccounted ==
    \A i \in used :
        /\ \A rest \in Leftovers :
              i = Redriven(rest.keys, rest.state).seed \/ i \in rest.keys.backups
        /\ i # 1 => \A r \in Peers : <<r, i>> \in told

\* The journal is the commit point: once durable, commands come to run under the
\* identity it names, whatever stops the rotation.
CommittedRotates ==
    \A i \in Ids : (disk["state"] = <<State>> /\ State.journal = i) ~> (i \in used)
=============================================================================
