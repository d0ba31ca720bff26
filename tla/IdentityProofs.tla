--------------------------- MODULE IdentityProofs ---------------------------
(***************************************************************************)
(* TLAPS proofs about Identity, for any number of peers and accidents: any  *)
(* number of rotations when commands run one after the other (Serial), any  *)
(* number of commands beside one rotation (OneRotation).                    *)
(***************************************************************************)
EXTENDS Identity, TLAPS

\* Commands run one after the other: one process runs them all.  A power loss does not
\* follow a kill: the kill may leave a journal that is visible and not durable, the next
\* start renames the seed by it, and the loss takes the journal and keeps the seed.  And the
\* fsync of the journal is not refused: the handler would remove the staged files that
\* the journal names.
Serial(c) ==
    /\ left.commands \subseteq {c}
    /\ left.kills = 0 \/ left.losses = 0
    /\ "syncJournal" \notin FailPoints

KeyDirs == [seed : Nat, staged : SUBSET Nat, backups : SUBSET Nat]
StateDirs == [card : Nat, staged : SUBSET Nat, journal : Nat, config : BOOLEAN, db : BOOLEAN]

IdentityTypeOK ==
    /\ DOMAIN disk = Dirs
    /\ disk["keys"] \in Seq(KeyDirs) \ {<<>>}
    /\ disk["state"] \in Seq(StateDirs) \ {<<>>}
    /\ DOMAIN pc = Commands
    /\ seen \in [Commands -> Nat] /\ new \in [Commands -> Nat] /\ journal \in [Commands -> Nat]
    /\ issued \in Nat
    /\ left \in ScenarioType

\* What may be left of a directory if every command stops now.
Rests(d) == IF left.losses > 0 THEN ToSet(disk[d]) ELSE {Now(d)}

Announced(i) == i = 1 \/ \A r \in Peers : <<r, i>> \in told

\* The next start makes the seed k holds and the card s holds one identity's.
Paired(k, s) ==
    IF s.journal = Absent
    THEN k.seed = s.card
    ELSE /\ s.journal \in k.staged \/ k.seed = s.journal
         /\ s.journal \in s.staged \/ s.card = s.journal

PairsHeld(c) ==
    State.config \/ pc[c] = "installConfig" =>
        \A k \in Rests("keys"), s \in Rests("state") : Paired(k, s)

\* Before the config is written nothing was used and no journal is there; no seed is
\* missing after that.
InstallHeld ==
    /\ \A s \in Rests("state") : s.config = State.config
    /\ ~State.config => used = {} /\ \A s \in Rests("state") : s.journal = Absent
    /\ State.config => issued > 0
    /\ \A k \in Rests("keys") : k.seed = Absent => issued = 0

\* Whatever a start may take over was announced to every peer.
AnnouncedHeld ==
    /\ \A k \in Rests("keys") : k.seed # Absent => Announced(k.seed)
    /\ \A s \in Rests("state") :
          s.journal # Absent => Announced(s.journal) /\ s.journal <= issued
    /\ \A i \in used : Announced(i)

\* A journal that is gone may come back only when it is done; one that is there and past its
\* fsync is durable.
JournalHeld(c) ==
    /\ State.journal = Absent =>
          \A s \in Rests("state") : s.journal = Absent \/ s.journal = Keys.seed
    /\ State.journal # Absent /\ pc[c] # "syncJournal" =>
          \A s \in Rests("state") : s.journal = State.journal

UsedHeld ==
    \A i \in used : \A k \in Rests("keys"), s \in Rests("state") :
        i = Redriven(k, s).seed \/ i \in k.backups

\* The steps of a command after it found or left no journal, up to the next one.
Unjournaled == {"redoDone", "readSeed", "readCard", "ready", "notify", "backUp",
                "stageSeed", "stageCard", "syncStaged", "writeJournal"}
Journaled == {"syncJournal", "publishSeed", "publishCard", "syncPair", "dropJournal"}
Redoing == {"redoSeed", "redoCard", "redoSync", "redoUnlink"}
Fresh == {"notify", "backUp", "stageSeed", "stageCard", "syncStaged", "writeJournal"}

\* What the command has done so far.
StepHeld(c) ==
    /\ \A p \in Commands : p # c => pc[p] = "idle"
    /\ pc[c] \in {"installCard", "installConfig"} => ~State.config /\ issued > 0
    /\ pc[c] = "installCard" => \A k \in Rests("keys") : k.seed = new[c]
    /\ pc[c] \notin {"idle", "installCard", "installConfig"} => State.config
    /\ pc[c] \in Unjournaled => State.journal = Absent
    /\ pc[c] \in Redoing => State.journal = journal[c] /\ journal[c] # Absent
    /\ pc[c] \in Journaled => State.journal = new[c]
    /\ pc[c] = "readCard" => seen[c] = Keys.seed

\* What a rotation has done so far.
RotationHeld(c) ==
    /\ new[c] <= issued
    /\ pc[c] \in Fresh \cup {"syncJournal"} \cup Publishing => new[c] # Absent
    /\ pc[c] \in Fresh => \A s \in Rests("state") : s.journal # new[c]
    /\ pc[c] \in {"backUp"} \cup Staging => Announced(new[c])
    /\ pc[c] \in Staging \cup Publishing => \A k \in Rests("keys") : used \subseteq k.backups
    /\ pc[c] \in {"stageCard", "syncStaged"} => new[c] \in Keys.staged
    /\ pc[c] = "syncStaged" => new[c] \in State.staged
    /\ pc[c] \in {"writeJournal", "syncJournal"} =>
          \A k \in Rests("keys") : new[c] \in k.staged
    /\ pc[c] \in {"writeJournal", "syncJournal"} => new[c] \in State.staged

\* How far the journal is carried out, by a recovery or by the rotation itself.
RedoHeld(c) ==
    /\ pc[c] \in {"redoCard", "redoSync", "publishCard", "syncPair"} =>
          Keys.seed = State.journal
    /\ pc[c] \in {"redoSync", "syncPair"} => State.card = State.journal
    /\ pc[c] \in {"redoUnlink", "dropJournal"} =>
          /\ \A k \in Rests("keys") : k.seed = State.journal
          /\ \A s \in Rests("state") : s.card = State.journal

SerialInv(c) ==
    /\ IdentityTypeOK /\ Serial(c)
    /\ PairsHeld(c) /\ InstallHeld /\ AnnouncedHeld /\ JournalHeld(c) /\ UsedHeld
    /\ StepHeld(c) /\ RotationHeld(c) /\ RedoHeld(c)

-----------------------------------------------------------------------------
\* What an append adds to what may be left.
LEMMA Appended ==
    ASSUME NEW T, NEW q \in Seq(T), NEW x \in T
    PROVE  ToSet(Append(q, x)) = ToSet(q) \cup {x}
<1>1. ToSet(Append(q, x)) \subseteq ToSet(q) \cup {x}
  BY DEF ToSet
<1>2. ToSet(q) \subseteq ToSet(Append(q, x))
  <2>1. SUFFICES ASSUME NEW i \in DOMAIN q PROVE q[i] \in ToSet(Append(q, x))
    BY DEF ToSet
  <2>2. i \in DOMAIN Append(q, x) /\ Append(q, x)[i] = q[i]
    OBVIOUS
  <2>3. QED
    BY <2>2 DEF ToSet
<1>3. x \in ToSet(Append(q, x))
  <2>1. Len(q) + 1 \in DOMAIN Append(q, x) /\ Append(q, x)[Len(q) + 1] = x
    OBVIOUS
  <2>2. QED
    BY <2>1 DEF ToSet
<1>4. QED
  BY <1>1, <1>2, <1>3

\* What is visible is among what may be left.
LEMMA Visible ==
    ASSUME NEW T, NEW q \in Seq(T) \ {<<>>}
    PROVE  Last(q) \in ToSet(q) /\ ToSet(q) \subseteq T /\ Last(q) \in T
<1>1. Len(q) \in DOMAIN q
  OBVIOUS
<1>2. QED
  BY <1>1 DEF Last, ToSet

\* The contents of the directories, visible and possible.
DiskHeld ==
    /\ Keys \in Rests("keys") /\ Rests("keys") \subseteq KeyDirs
    /\ State \in Rests("state") /\ Rests("state") \subseteq StateDirs

\* What is visible is possible, and all of it is well-formed.
LEMMA DiskTypes ==
    ASSUME IdentityTypeOK
    PROVE  DiskHeld
<1>1. Last(disk["keys"]) \in ToSet(disk["keys"]) /\ ToSet(disk["keys"]) \subseteq KeyDirs
  BY Visible DEF IdentityTypeOK
<1>2. Last(disk["state"]) \in ToSet(disk["state"]) /\ ToSet(disk["state"]) \subseteq StateDirs
  BY Visible DEF IdentityTypeOK
<1>3. QED
  BY <1>1, <1>2 DEF DiskHeld, Rests, Keys, State, Now

DiskOK ==
    /\ DOMAIN disk = Dirs
    /\ disk["keys"] \in Seq(KeyDirs) \ {<<>>}
    /\ disk["state"] \in Seq(StateDirs) \ {<<>>}

SameKeys == Keys' = Keys /\ Rests("keys")' = Rests("keys")
SameState == State' = State /\ Rests("state")' = Rests("state")
LossesKept == left'.losses = left.losses

\* A step that leaves the directories alone.
LEMMA Untouched ==
    ASSUME IdentityTypeOK, disk' = disk, LossesKept
    PROVE  DiskOK' /\ SameKeys /\ SameState
BY DEF IdentityTypeOK, DiskOK, SameKeys, SameState, Keys, State, Now, Rests, LossesKept

\* Writes to keys/, before and after the fsync.
LEMMA PutKeys ==
    ASSUME IdentityTypeOK, LossesKept, NEW x \in KeyDirs, Put("keys", x)
    PROVE  DiskOK' /\ SameState /\ Keys' = x /\ Rests("keys")' \subseteq Rests("keys") \cup {x}
<1> DEFINE q == disk["keys"]
<1>1. q \in Seq(KeyDirs) \ {<<>>}
  BY DEF IdentityTypeOK
<1>2. disk'["keys"] = Append(q, x) /\ disk'["state"] = disk["state"] /\ DOMAIN disk' = Dirs
  BY DEF Put, IdentityTypeOK, Dirs
<1>3. /\ Append(q, x) \in Seq(KeyDirs) \ {<<>>} /\ Last(Append(q, x)) = x
      /\ ToSet(Append(q, x)) = ToSet(q) \cup {x}
  <2> HIDE DEF q
  <2>1. Append(q, x) \in Seq(KeyDirs) \ {<<>>}
    BY <1>1
  <2>2. Last(Append(q, x)) = x
    BY <1>1 DEF Last
  <2>3. ToSet(Append(q, x)) = ToSet(q) \cup {x}
    BY <1>1, Appended
  <2>4. QED
    BY <2>1, <2>2, <2>3
<1>4. DiskOK'
  BY <1>2, <1>3 DEF DiskOK, IdentityTypeOK
<1>5. SameState
  BY <1>2 DEF SameState, State, Now, Rests, LossesKept
<1>6. Keys' = x
  BY <1>2, <1>3 DEF Keys, Now
<1>7. Rests("keys")' \subseteq Rests("keys") \cup {x}
  BY <1>2, <1>3 DEF Rests, Now, LossesKept
<1>8. QED
  BY <1>4, <1>5, <1>6, <1>7

\* A write to keys/ with its fsync leaves nothing else.
LEMMA PutSyncedKeys ==
    ASSUME IdentityTypeOK, LossesKept, NEW x \in KeyDirs, PutSynced("keys", x)
    PROVE  DiskOK' /\ SameState /\ Keys' = x /\ Rests("keys")' = {x}
<1>1. disk'["keys"] = <<x>> /\ disk'["state"] = disk["state"] /\ DOMAIN disk' = Dirs
  BY DEF PutSynced, IdentityTypeOK, Dirs
<1>2. <<x>> \in Seq(KeyDirs) \ {<<>>} /\ Last(<<x>>) = x /\ ToSet(<<x>>) = {x}
  BY DEF Last, ToSet
<1>3. DiskOK'
  BY <1>1, <1>2 DEF DiskOK, IdentityTypeOK
<1>4. SameState
  BY <1>1 DEF SameState, State, Now, Rests, LossesKept
<1>5. Keys' = x
  BY <1>1, <1>2 DEF Keys, Now
<1>6. Rests("keys")' = {x}
  BY <1>1, <1>2 DEF Rests, Now, LossesKept
<1>7. QED
  BY <1>3, <1>4, <1>5, <1>6

\* Writes to the state directory, before and after the fsync.
LEMMA PutState ==
    ASSUME IdentityTypeOK, LossesKept, NEW x \in StateDirs, Put("state", x)
    PROVE  DiskOK' /\ SameKeys /\ State' = x /\ Rests("state")' \subseteq Rests("state") \cup {x}
<1> DEFINE q == disk["state"]
<1>1. q \in Seq(StateDirs) \ {<<>>}
  BY DEF IdentityTypeOK
<1>2. disk'["state"] = Append(q, x) /\ disk'["keys"] = disk["keys"] /\ DOMAIN disk' = Dirs
  BY DEF Put, IdentityTypeOK, Dirs
<1>3. /\ Append(q, x) \in Seq(StateDirs) \ {<<>>} /\ Last(Append(q, x)) = x
      /\ ToSet(Append(q, x)) = ToSet(q) \cup {x}
  <2> HIDE DEF q
  <2>1. Append(q, x) \in Seq(StateDirs) \ {<<>>}
    BY <1>1
  <2>2. Last(Append(q, x)) = x
    BY <1>1 DEF Last
  <2>3. ToSet(Append(q, x)) = ToSet(q) \cup {x}
    BY <1>1, Appended
  <2>4. QED
    BY <2>1, <2>2, <2>3
<1>4. DiskOK'
  BY <1>2, <1>3 DEF DiskOK, IdentityTypeOK
<1>5. SameKeys
  BY <1>2 DEF SameKeys, Keys, Now, Rests, LossesKept
<1>6. State' = x
  BY <1>2, <1>3 DEF State, Now
<1>7. Rests("state")' \subseteq Rests("state") \cup {x}
  BY <1>2, <1>3 DEF Rests, Now, LossesKept
<1>8. QED
  BY <1>4, <1>5, <1>6, <1>7

\* A write to the state directory with its fsync leaves nothing else.
LEMMA PutSyncedState ==
    ASSUME IdentityTypeOK, LossesKept, NEW x \in StateDirs, PutSynced("state", x)
    PROVE  DiskOK' /\ SameKeys /\ State' = x /\ Rests("state")' = {x}
<1>1. disk'["state"] = <<x>> /\ disk'["keys"] = disk["keys"] /\ DOMAIN disk' = Dirs
  BY DEF PutSynced, IdentityTypeOK, Dirs
<1>2. <<x>> \in Seq(StateDirs) \ {<<>>} /\ Last(<<x>>) = x /\ ToSet(<<x>>) = {x}
  BY DEF Last, ToSet
<1>3. DiskOK'
  BY <1>1, <1>2 DEF DiskOK, IdentityTypeOK
<1>4. SameKeys
  BY <1>1 DEF SameKeys, Keys, Now, Rests, LossesKept
<1>5. State' = x
  BY <1>1, <1>2 DEF State, Now
<1>6. Rests("state")' = {x}
  BY <1>1, <1>2 DEF Rests, Now, LossesKept
<1>7. QED
  BY <1>3, <1>4, <1>5, <1>6

\* An fsync leaves of a directory only what is visible.
LEMMA SyncBoth ==
    ASSUME IdentityTypeOK, LossesKept, Sync(Dirs)
    PROVE  /\ DiskOK' /\ Keys' = Keys /\ State' = State
           /\ Rests("keys")' = {Keys} /\ Rests("state")' = {State}
<1>1. Last(disk["keys"]) \in KeyDirs /\ Last(disk["state"]) \in StateDirs
  BY Visible DEF IdentityTypeOK
<1>2. /\ DOMAIN disk' = Dirs
      /\ disk'["keys"] = <<Last(disk["keys"])>> /\ disk'["state"] = <<Last(disk["state"])>>
  BY DEF Sync, Dirs, Now
<1>3. DiskOK'
  BY <1>1, <1>2 DEF DiskOK
<1>4. \A x : Last(<<x>>) = x /\ ToSet(<<x>>) = {x}
  BY DEF Last, ToSet
<1>5. QED
  BY <1>2, <1>3, <1>4 DEF Keys, State, Now, Rests

\* The same for an fsync of the state directory alone.
LEMMA SyncState ==
    ASSUME IdentityTypeOK, LossesKept, Sync({"state"})
    PROVE  DiskOK' /\ SameKeys /\ State' = State /\ Rests("state")' = {State}
<1>1. Last(disk["state"]) \in StateDirs
  BY Visible DEF IdentityTypeOK
<1>2. /\ DOMAIN disk' = Dirs
      /\ disk'["keys"] = disk["keys"] /\ disk'["state"] = <<Last(disk["state"])>>
  BY DEF Sync, Dirs, Now
<1>3. DiskOK'
  BY <1>1, <1>2 DEF DiskOK, IdentityTypeOK
<1>4. \A x : Last(<<x>>) = x /\ ToSet(<<x>>) = {x}
  BY DEF Last, ToSet
<1>5. SameKeys
  BY <1>2 DEF SameKeys, Keys, Now, Rests, LossesKept
<1>6. QED
  BY <1>2, <1>3, <1>4, <1>5 DEF State, Now, Rests

-----------------------------------------------------------------------------
Held(c) ==
    /\ PairsHeld(c) /\ InstallHeld /\ AnnouncedHeld /\ JournalHeld(c) /\ UsedHeld
    /\ StepHeld(c) /\ RotationHeld(c) /\ RedoHeld(c)

Moves(c, to) == pc'[c] = to /\ \A p \in Commands : p # c => pc'[p] = pc[p]

Shrinks(d) == Rests(d)' \subseteq Rests(d)

\* What a step does not disturb that leaves what is visible alone and adds nothing to what
\* may be left.
LEMMA Steady ==
    ASSUME NEW c \in Commands, SerialInv(c), Keys' = Keys, State' = State,
           Shrinks("keys"), Shrinks("state"), told \subseteq told',
           issued' \in Nat, issued <= issued', used' = used, issued' = issued \/ State.config
    PROVE  /\ InstallHeld' /\ AnnouncedHeld' /\ UsedHeld'
           /\ pc'[c] # "installConfig" => PairsHeld(c)'
           /\ pc[c] # "syncJournal" => JournalHeld(c)'
<1>1. DiskHeld
  BY DiskTypes DEF SerialInv
<1>2. InstallHeld'
  BY <1>1 DEF SerialInv, IdentityTypeOK, InstallHeld, Shrinks
<1>3. AnnouncedHeld'
  <2>1. \A i : Announced(i) => Announced(i)'
    BY DEF Announced
  <2>2. \A s \in Rests("state") : s.journal \in Nat
    BY <1>1 DEF DiskHeld, StateDirs
  <2>3. QED
    BY <2>1, <2>2 DEF SerialInv, IdentityTypeOK, AnnouncedHeld, Shrinks
<1>4. UsedHeld'
  BY DEF SerialInv, UsedHeld, Shrinks
<1>5. pc'[c] # "installConfig" => PairsHeld(c)'
  BY DEF SerialInv, PairsHeld, Shrinks
<1>6. pc[c] # "syncJournal" => JournalHeld(c)'
  BY DEF SerialInv, JournalHeld, Shrinks
<1>7. QED
  BY <1>2, <1>3, <1>4, <1>5, <1>6

\* Ctx.__init__ begins.
LEMMA LoadHeld ==
    ASSUME NEW c \in Commands, SerialInv(c), Load(c)
    PROVE  Held(c)'
<1>1. DiskHeld /\ SameKeys /\ SameState
  BY DiskTypes, Untouched DEF SerialInv, Load, LossesKept
<1>2. pc[c] = "idle" /\ Moves(c, "readJournal") /\ State.config
  BY DEF SerialInv, IdentityTypeOK, Load, Goto, Moves
<1>3. new'[c] = Absent
  BY DEF SerialInv, IdentityTypeOK, Load
<1>4. told' = told /\ issued' = issued /\ used' = used /\ issued \in Nat
  BY DEF SerialInv, IdentityTypeOK, Load
<1>5. pc'[c] # "installConfig" /\ pc[c] # "syncJournal" /\ issued <= issued'
  BY <1>2, <1>4 DEF Moves
<1>6. PairsHeld(c)' /\ InstallHeld' /\ AnnouncedHeld' /\ JournalHeld(c)' /\ UsedHeld'
  BY <1>1, <1>4, <1>5, Steady DEF SameKeys, SameState, Shrinks
<1>7. StepHeld(c)' /\ RotationHeld(c)' /\ RedoHeld(c)'
  BY <1>1, <1>2, <1>3, <1>4 DEF SerialInv, IdentityTypeOK, SameKeys, SameState, Moves, StepHeld,
     RotationHeld, RedoHeld, Unjournaled, Redoing, Journaled, Fresh, Staging, Publishing, Absent
<1>8. QED
  BY <1>6, <1>7 DEF Held

\* recover_pending_pair begins, or finds nothing to do.
LEMMA ReadJournalHeld ==
    ASSUME NEW c \in Commands, SerialInv(c), ReadJournal(c)
    PROVE  Held(c)'
<1>1. DiskHeld /\ SameKeys /\ SameState
  BY DiskTypes, Untouched DEF SerialInv, ReadJournal, LossesKept
<1>2. /\ pc[c] = "readJournal" /\ State.config
      /\ Moves(c, IF State.journal = Absent THEN "readSeed" ELSE "redoSeed")
  BY DEF SerialInv, IdentityTypeOK, StepHeld, ReadJournal, Goto, Moves
<1>3. new' = new /\ journal'[c] = State.journal
  BY DEF SerialInv, IdentityTypeOK, ReadJournal
<1>4. told' = told /\ used' = used /\ issued \in Nat /\ issued' \in Nat /\ issued <= issued'
  BY DEF SerialInv, IdentityTypeOK, ReadJournal
<1>5. pc'[c] # "installConfig" /\ pc[c] # "syncJournal"
  BY <1>2 DEF Moves
<1>6. PairsHeld(c)' /\ InstallHeld' /\ AnnouncedHeld' /\ JournalHeld(c)' /\ UsedHeld'
  BY <1>1, <1>2, <1>4, <1>5, Steady DEF SameKeys, SameState, Shrinks
<1>7. StepHeld(c)'
  BY <1>1, <1>2, <1>3, <1>4 DEF SerialInv, IdentityTypeOK, SameKeys, SameState, Moves, StepHeld,
     RotationHeld, RedoHeld, Unjournaled, Redoing, Journaled, Fresh, Staging, Publishing, Absent
<1>8. RotationHeld(c)'
  BY <1>1, <1>2, <1>3, <1>4 DEF SerialInv, IdentityTypeOK, SameKeys, SameState, Moves, StepHeld,
     RotationHeld, RedoHeld, Unjournaled, Redoing, Journaled, Fresh, Staging, Publishing, Absent
<1>9. RedoHeld(c)'
  BY <1>1, <1>2, <1>3, <1>4 DEF SerialInv, IdentityTypeOK, SameKeys, SameState, Moves, StepHeld,
     RotationHeld, RedoHeld, Unjournaled, Redoing, Journaled, Fresh, Staging, Publishing, Absent
<1>10. QED
  BY <1>6, <1>7, <1>8, <1>9 DEF Held

\* The seed is read.
LEMMA ReadSeedHeld ==
    ASSUME NEW c \in Commands, SerialInv(c), ReadSeed(c)
    PROVE  Held(c)'
<1>1. DiskHeld /\ SameKeys /\ SameState
  BY DiskTypes, Untouched DEF SerialInv, ReadSeed, LossesKept
<1>2. pc[c] = "readSeed" /\ Moves(c, "readCard") /\ State.config
  BY DEF SerialInv, IdentityTypeOK, StepHeld, ReadSeed, Goto, Moves
<1>3. new' = new /\ journal' = journal /\ seen'[c] = Keys.seed
  BY DEF SerialInv, IdentityTypeOK, ReadSeed
<1>4. told' = told /\ used' = used /\ issued \in Nat /\ issued' \in Nat /\ issued <= issued'
  BY DEF SerialInv, IdentityTypeOK, ReadSeed
<1>5. pc'[c] # "installConfig" /\ pc[c] # "syncJournal"
  BY <1>2 DEF Moves
<1>6. PairsHeld(c)' /\ InstallHeld' /\ AnnouncedHeld' /\ JournalHeld(c)' /\ UsedHeld'
  BY <1>1, <1>2, <1>4, <1>5, Steady DEF SameKeys, SameState, Shrinks
<1>7. StepHeld(c)'
  BY <1>1, <1>2, <1>3, <1>4 DEF SerialInv, IdentityTypeOK, SameKeys, SameState, Moves, StepHeld,
     RotationHeld, RedoHeld, Unjournaled, Redoing, Journaled, Fresh, Staging, Publishing, Absent
<1>8. RotationHeld(c)'
  BY <1>1, <1>2, <1>3, <1>4 DEF SerialInv, IdentityTypeOK, SameKeys, SameState, Moves, StepHeld,
     RotationHeld, RedoHeld, Unjournaled, Redoing, Journaled, Fresh, Staging, Publishing, Absent
<1>9. RedoHeld(c)'
  BY <1>1, <1>2, <1>3, <1>4 DEF SerialInv, IdentityTypeOK, SameKeys, SameState, Moves, StepHeld,
     RotationHeld, RedoHeld, Unjournaled, Redoing, Journaled, Fresh, Staging, Publishing, Absent
<1>10. QED
  BY <1>6, <1>7, <1>8, <1>9 DEF Held

\* A rotation draws an identity that no journal names.
LEMMA RotateHeld ==
    ASSUME NEW c \in Commands, SerialInv(c), Rotate(c)
    PROVE  Held(c)'
<1>1. DiskHeld /\ SameKeys /\ SameState
  BY DiskTypes, Untouched DEF SerialInv, Rotate, LossesKept
<1>2. pc[c] = "ready" /\ Moves(c, "notify") /\ State.config
  BY DEF SerialInv, IdentityTypeOK, StepHeld, Rotate, Goto, Moves
<1>3. issued' = issued + 1 /\ new'[c] = issued' /\ journal' = journal
  BY DEF SerialInv, IdentityTypeOK, Rotate
<1>4. told' = told /\ used' = used /\ issued \in Nat /\ issued' \in Nat /\ issued <= issued'
  BY DEF SerialInv, IdentityTypeOK, Rotate
<1>5. pc'[c] # "installConfig" /\ pc[c] # "syncJournal"
  BY <1>2 DEF Moves
<1>6. PairsHeld(c)' /\ InstallHeld' /\ AnnouncedHeld' /\ JournalHeld(c)' /\ UsedHeld'
  BY <1>1, <1>2, <1>4, <1>5, Steady DEF SameKeys, SameState, Shrinks
<1>7. StepHeld(c)'
  BY <1>1, <1>2, <1>3, <1>4 DEF SerialInv, IdentityTypeOK, SameKeys, SameState, Moves, StepHeld,
     RotationHeld, RedoHeld, Unjournaled, Redoing, Journaled, Fresh, Staging, Publishing, Absent
<1>8. RotationHeld(c)'
  <2>1. \A s \in Rests("state") : s.journal # issued + 1
    BY <1>1, <1>4 DEF SerialInv, AnnouncedHeld, DiskHeld, StateDirs, Absent
  <2>2. QED
    BY <1>1, <1>2, <1>3, <1>4, <2>1
       DEF SerialInv, IdentityTypeOK, SameKeys, SameState, Moves, StepHeld,
       RotationHeld, RedoHeld, Unjournaled, Redoing, Journaled, Fresh, Staging, Publishing, Absent
<1>9. RedoHeld(c)'
  BY <1>1, <1>2, <1>3, <1>4 DEF SerialInv, IdentityTypeOK, SameKeys, SameState, Moves, StepHeld,
     RotationHeld, RedoHeld, Unjournaled, Redoing, Journaled, Fresh, Staging, Publishing, Absent
<1>10. QED
  BY <1>6, <1>7, <1>8, <1>9 DEF Held

\* Every peer was sent the announcement.
LEMMA AllNotifiedHeld ==
    ASSUME NEW c \in Commands, SerialInv(c), AllNotified(c)
    PROVE  Held(c)'
<1>1. DiskHeld /\ SameKeys /\ SameState
  BY DiskTypes, Untouched DEF SerialInv, AllNotified, LossesKept
<1>2. pc[c] = "notify" /\ Moves(c, "backUp") /\ State.config
  BY DEF SerialInv, IdentityTypeOK, StepHeld, AllNotified, Goto, Moves
<1>3. new' = new /\ journal' = journal /\ Announced(new[c])'
  BY DEF SerialInv, IdentityTypeOK, AllNotified, Announced
<1>4. told' = told /\ used' = used /\ issued \in Nat /\ issued' \in Nat /\ issued <= issued'
  BY DEF SerialInv, IdentityTypeOK, AllNotified
<1>5. pc'[c] # "installConfig" /\ pc[c] # "syncJournal"
  BY <1>2 DEF Moves
<1>6. PairsHeld(c)' /\ InstallHeld' /\ AnnouncedHeld' /\ JournalHeld(c)' /\ UsedHeld'
  BY <1>1, <1>2, <1>4, <1>5, Steady DEF SameKeys, SameState, Shrinks
<1>7. StepHeld(c)'
  BY <1>1, <1>2, <1>3, <1>4 DEF SerialInv, IdentityTypeOK, SameKeys, SameState, Moves, StepHeld,
     RotationHeld, RedoHeld, Unjournaled, Redoing, Journaled, Fresh, Staging, Publishing, Absent
<1>8. RotationHeld(c)'
  BY <1>1, <1>2, <1>3, <1>4 DEF SerialInv, IdentityTypeOK, SameKeys, SameState, Moves, StepHeld,
     RotationHeld, RedoHeld, Unjournaled, Redoing, Journaled, Fresh, Staging, Publishing, Absent
<1>9. RedoHeld(c)'
  BY <1>1, <1>2, <1>3, <1>4 DEF SerialInv, IdentityTypeOK, SameKeys, SameState, Moves, StepHeld,
     RotationHeld, RedoHeld, Unjournaled, Redoing, Journaled, Fresh, Staging, Publishing, Absent
<1>10. QED
  BY <1>6, <1>7, <1>8, <1>9 DEF Held

\* One more peer was sent the announcement.
LEMMA NotifyHeld ==
    ASSUME NEW c \in Commands, SerialInv(c), NEW r \in Peers, Notify(c, r)
    PROVE  Held(c)'
<1>1. DiskHeld /\ SameKeys /\ SameState
  BY DiskTypes, Untouched DEF SerialInv, Notify, LossesKept
<1>2. pc[c] = "notify" /\ pc' = pc /\ State.config
  BY DEF SerialInv, StepHeld, Notify
<1>3. new' = new /\ journal' = journal /\ seen' = seen
  BY DEF Notify
<1>4. told \subseteq told' /\ used' = used /\ issued \in Nat /\ issued' = issued
  BY DEF SerialInv, IdentityTypeOK, Notify
<1>5. pc'[c] # "installConfig" /\ pc[c] # "syncJournal" /\ issued <= issued'
  BY <1>2, <1>4
<1>6. PairsHeld(c)' /\ InstallHeld' /\ AnnouncedHeld' /\ JournalHeld(c)' /\ UsedHeld'
  BY <1>1, <1>2, <1>4, <1>5, Steady DEF SameKeys, SameState, Shrinks
<1>7. StepHeld(c)'
  BY <1>1, <1>2, <1>3, <1>4 DEF SerialInv, SameKeys, SameState, StepHeld
<1>8. RotationHeld(c)'
  BY <1>1, <1>2, <1>3, <1>4 DEF SerialInv, SameKeys, SameState, RotationHeld, Fresh, Staging,
     Publishing
<1>9. RedoHeld(c)'
  BY <1>1, <1>2, <1>3, <1>4 DEF SerialInv, SameKeys, SameState, RedoHeld
<1>10. QED
  BY <1>6, <1>7, <1>8, <1>9 DEF Held

\* The command ends, by itself, by an error or by a kill, with the directories as they
\* are.  The journal is visible and not durable only where no power loss follows.
LEMMA EndHeld ==
    ASSUME NEW c \in Commands, SerialInv(c), SameKeys, SameState,
           pc[c] = "syncJournal" => left.losses = 0,
           Moves(c, "idle"), UNCHANGED <<seen, new, journal, told, issued, used>>
    PROVE  Held(c)'
<1>1. DiskHeld /\ SameKeys /\ SameState
  BY DiskTypes DEF SerialInv
<1>2. issued \in Nat /\ told \subseteq told' /\ issued' = issued /\ used' = used /\ new' = new
  BY DEF SerialInv, IdentityTypeOK
<1>3. issued <= issued' /\ issued' \in Nat /\ pc'[c] = "idle" /\ pc'[c] # "installConfig"
  BY <1>2 DEF Moves
<1>4. PairsHeld(c)' /\ InstallHeld' /\ AnnouncedHeld' /\ UsedHeld'
  BY <1>1, <1>2, <1>3, Steady DEF SameKeys, SameState, Shrinks
<1>5. JournalHeld(c)'
  <2>1. CASE pc[c] # "syncJournal"
    BY <1>1, <1>2, <1>3, <2>1, Steady DEF SameKeys, SameState, Shrinks
  <2>2. CASE pc[c] = "syncJournal"
    <3>1. Rests("state") = {State}
      BY <2>2 DEF Rests, State
    <3>2. QED
      BY <1>1, <3>1 DEF SameKeys, SameState, JournalHeld
  <2>3. QED
    BY <2>1, <2>2
<1>6. StepHeld(c)'
  BY <1>1, <1>3 DEF SerialInv, Moves, StepHeld, Unjournaled, Redoing, Journaled
<1>7. RotationHeld(c)' /\ RedoHeld(c)'
  BY <1>1, <1>2, <1>3 DEF SerialInv, RotationHeld, RedoHeld, Fresh, Staging, Publishing
<1>8. QED
  BY <1>4, <1>5, <1>6, <1>7 DEF Held

\* The command loads an identity: the one in place whatever happens next, and announced.
LEMMA ReadCardHeld ==
    ASSUME NEW c \in Commands, SerialInv(c), ReadCard(c)
    PROVE  Held(c)'
<1>1. DiskHeld /\ SameKeys /\ SameState
  BY DiskTypes, Untouched DEF SerialInv, ReadCard, LossesKept
<1>2. pc[c] = "readCard" /\ State.config /\ State.journal = Absent /\ seen[c] = Keys.seed
  BY DEF SerialInv, StepHeld, ReadCard, Goto, Unjournaled
<1>3. UNCHANGED <<disk, seen, new, journal, told, issued, left>> /\ issued \in Nat
  BY DEF SerialInv, IdentityTypeOK, ReadCard
<1>4. CASE ~Loadable(c)
  <2>1. Moves(c, "idle") /\ used' = used
    BY <1>4 DEF SerialInv, IdentityTypeOK, ReadCard, Goto, Moves
  <2>2. pc[c] # "syncJournal"
    BY <1>2
  <2>3. QED
    BY <1>1, <1>3, <2>1, <2>2, EndHeld
<1>5. CASE Loadable(c)
  <2>1. Moves(c, "ready") /\ used' = used \cup {seen[c]} /\ State.card = Keys.seed
    BY <1>2, <1>5 DEF SerialInv, IdentityTypeOK, ReadCard, Goto, Moves, Loadable
  <2>2. InstallHeld'
    BY <1>1, <1>2, <1>3 DEF SerialInv, InstallHeld, SameKeys, SameState
  <2>3. AnnouncedHeld'
    <3>1. Announced(seen[c])
      BY <1>1, <1>2, <1>3 DEF SerialInv, InstallHeld, AnnouncedHeld, DiskHeld
    <3>2. \A i : Announced(i)' = Announced(i)
      BY <1>3 DEF Announced
    <3>3. QED
      BY <1>1, <1>3, <2>1, <3>1, <3>2 DEF SerialInv, AnnouncedHeld, SameKeys, SameState
  <2>4. UsedHeld'
    <3>1. SUFFICES ASSUME NEW k \in Rests("keys"), NEW s \in Rests("state")
                   PROVE  Redriven(k, s).seed = seen[c]
      BY <1>1, <2>1, <3>1 DEF SerialInv, UsedHeld, SameKeys, SameState
    <3>2. k.seed = seen[c]
      BY <1>1, <1>2, <2>1 DEF SerialInv, PairsHeld, Paired, DiskHeld
    <3>3. s.journal = Absent \/ s.journal = seen[c]
      BY <1>2 DEF SerialInv, JournalHeld
    <3>4. QED
      BY <3>2, <3>3 DEF Redriven
  <2>5. PairsHeld(c)' /\ JournalHeld(c)'
    BY <1>1, <1>2, <2>1 DEF SerialInv, PairsHeld, JournalHeld, SameKeys, SameState, Moves
  <2>6. StepHeld(c)'
    BY <1>1, <1>2, <2>1 DEF SerialInv, SameKeys, SameState, Moves, StepHeld, Unjournaled,
       Redoing, Journaled
  <2>7. RotationHeld(c)' /\ RedoHeld(c)'
    BY <1>1, <1>3, <2>1 DEF SerialInv, SameKeys, SameState, Moves, RotationHeld, RedoHeld,
       Fresh, Staging, Publishing
  <2>8. QED
    BY <2>2, <2>3, <2>4, <2>5, <2>6, <2>7 DEF Held
<1>6. QED
  BY <1>4, <1>5

-----------------------------------------------------------------------------
\* The seed the journal names is renamed into place, by a recovery or by the rotation.
LEMMA SeedRenamed ==
    ASSUME NEW c \in Commands, SerialInv(c), LossesKept, State.config,
           State.journal # Absent, pc[c] # "syncJournal", pc'[c] # "installConfig",
           State.journal \in Keys.staged, RenameSeed(State.journal),
           UNCHANGED <<told, issued, used>>
    PROVE  /\ DiskOK' /\ SameState /\ Keys'.seed = State.journal
           /\ PairsHeld(c)' /\ InstallHeld' /\ AnnouncedHeld' /\ JournalHeld(c)' /\ UsedHeld'
           /\ \A k \in Rests("keys")' : \E l \in Rests("keys") : k.backups = l.backups
<1> DEFINE j == State.journal
           next == [Keys EXCEPT !.seed = j, !.staged = @ \ {j}]
<1>1. DiskHeld /\ j \in Nat
  BY DiskTypes DEF SerialInv, DiskHeld, StateDirs
<1>2. next \in KeyDirs /\ next.seed = j /\ next.backups = Keys.backups
  BY <1>1 DEF DiskHeld, KeyDirs
<1>3. Put("keys", next)
  BY DEF RenameSeed
<1>4. DiskOK' /\ SameState /\ Keys' = next /\ Rests("keys")' \subseteq Rests("keys") \cup {next}
  <2> HIDE DEF next
  <2>1. QED
    BY <1>2, <1>3, PutKeys DEF SerialInv
<1> HIDE DEF next
<1>5. \A s \in Rests("state") : s.journal = j
  BY DEF SerialInv, JournalHeld
<1>6. \A i : Announced(i)' = Announced(i)
  BY DEF Announced
<1>7. PairsHeld(c)'
  BY <1>1, <1>2, <1>4, <1>5 DEF SerialInv, PairsHeld, Paired, SameState, DiskHeld
<1>8. InstallHeld'
  BY <1>2, <1>4 DEF SerialInv, InstallHeld, SameState
<1>9. AnnouncedHeld'
  BY <1>1, <1>2, <1>4, <1>5, <1>6 DEF SerialInv, AnnouncedHeld, SameState, DiskHeld
<1>10. JournalHeld(c)'
  BY <1>4, <1>5 DEF JournalHeld, SameState
<1>11. UsedHeld'
  <2>1. SUFFICES ASSUME NEW i \in used, NEW s \in Rests("state")
                 PROVE  i = Redriven(next, s).seed \/ i \in next.backups
    BY <1>4 DEF SerialInv, UsedHeld, SameState
  <2>2. Redriven(next, s).seed = j /\ Redriven(Keys, s).seed = j
    BY <1>2, <1>5 DEF Redriven
  <2>3. i = Redriven(Keys, s).seed \/ i \in Keys.backups
    BY <1>1 DEF SerialInv, UsedHeld, DiskHeld
  <2>4. QED
    BY <1>2, <2>2, <2>3
<1>12. \A k \in Rests("keys")' : \E l \in Rests("keys") : k.backups = l.backups
  BY <1>1, <1>2, <1>4 DEF DiskHeld
<1>13. QED
  BY <1>2, <1>4, <1>7, <1>8, <1>9, <1>10, <1>11, <1>12

\* The card the journal names is renamed into place.
LEMMA CardRenamed ==
    ASSUME NEW c \in Commands, SerialInv(c), LossesKept, State.config,
           State.journal # Absent, pc[c] # "syncJournal", pc'[c] # "installConfig",
           State.journal \in State.staged, RenameCard(State.journal),
           UNCHANGED <<told, issued, used>>
    PROVE  /\ DiskOK' /\ SameKeys /\ State'.card = State.journal
           /\ State'.journal = State.journal /\ State'.config
           /\ PairsHeld(c)' /\ InstallHeld' /\ AnnouncedHeld' /\ JournalHeld(c)' /\ UsedHeld'
<1> DEFINE j == State.journal
           next == [State EXCEPT !.card = j, !.staged = @ \ {j}]
<1>1. DiskHeld /\ j \in Nat
  BY DiskTypes DEF SerialInv, DiskHeld, StateDirs
<1>2. next \in StateDirs /\ next.card = j /\ next.journal = j /\ next.config
  BY <1>1 DEF DiskHeld, StateDirs
<1>3. Put("state", next)
  BY DEF RenameCard
<1>4. DiskOK' /\ SameKeys /\ State' = next /\ Rests("state")' \subseteq Rests("state") \cup {next}
  <2> HIDE DEF next
  <2>1. QED
    BY <1>2, <1>3, PutState DEF SerialInv
<1> HIDE DEF next
<1>5. \A s \in Rests("state") : s.journal = j
  BY DEF SerialInv, JournalHeld
<1>6. \A i : Announced(i)' = Announced(i)
  BY DEF Announced
<1>7. PairsHeld(c)'
  BY <1>1, <1>2, <1>4, <1>5 DEF SerialInv, PairsHeld, Paired, SameKeys, DiskHeld
<1>8. InstallHeld'
  BY <1>2, <1>4 DEF SerialInv, InstallHeld, SameKeys
<1>9. AnnouncedHeld'
  BY <1>1, <1>2, <1>4, <1>5, <1>6 DEF SerialInv, AnnouncedHeld, SameKeys, DiskHeld
<1>10. JournalHeld(c)'
  BY <1>2, <1>4, <1>5 DEF JournalHeld, SameKeys
<1>11. UsedHeld'
  <2>1. SUFFICES ASSUME NEW i \in used, NEW k \in Rests("keys")
                 PROVE  i = Redriven(k, next).seed \/ i \in k.backups
    BY <1>4 DEF SerialInv, UsedHeld, SameKeys
  <2>2. Redriven(k, next).seed = Redriven(k, State).seed
    BY <1>2, <1>5 DEF Redriven
  <2>3. i = Redriven(k, State).seed \/ i \in k.backups
    BY <1>1 DEF SerialInv, UsedHeld, DiskHeld
  <2>4. QED
    BY <1>2, <2>2, <2>3
<1>12. QED
  BY <1>2, <1>4, <1>7, <1>8, <1>9, <1>10, <1>11

\* The journal is removed once the pair it names is in place and durable.
LEMMA JournalUnlinked ==
    ASSUME NEW c \in Commands, SerialInv(c), LossesKept, State.config,
           State.journal # Absent, pc[c] # "syncJournal", pc'[c] # "installConfig",
           \A k \in Rests("keys") : k.seed = State.journal,
           \A s \in Rests("state") : s.card = State.journal,
           Unlink, UNCHANGED <<told, issued, used>>
    PROVE  /\ DiskOK' /\ SameKeys /\ State'.journal = Absent /\ State'.config
           /\ PairsHeld(c)' /\ InstallHeld' /\ AnnouncedHeld' /\ JournalHeld(c)' /\ UsedHeld'
<1> DEFINE j == State.journal
           next == [State EXCEPT !.journal = Absent]
<1>1. DiskHeld /\ j \in Nat
  BY DiskTypes DEF SerialInv, DiskHeld, StateDirs
<1>2. next \in StateDirs /\ next.card = j /\ next.journal = Absent /\ next.config
  BY <1>1 DEF DiskHeld, StateDirs, Absent
<1>3. Put("state", next)
  BY DEF Unlink
<1>4. DiskOK' /\ SameKeys /\ State' = next /\ Rests("state")' \subseteq Rests("state") \cup {next}
  <2> HIDE DEF next
  <2>1. QED
    BY <1>2, <1>3, PutState DEF SerialInv
<1> HIDE DEF next
<1>5. \A s \in Rests("state") : s.journal = j
  BY DEF SerialInv, JournalHeld
<1>6. \A i : Announced(i)' = Announced(i)
  BY DEF Announced
<1>7. PairsHeld(c)'
  BY <1>1, <1>2, <1>4, <1>5 DEF SerialInv, PairsHeld, Paired, SameKeys, DiskHeld
<1>8. InstallHeld'
  BY <1>2, <1>4 DEF SerialInv, InstallHeld, SameKeys
<1>9. AnnouncedHeld'
  BY <1>1, <1>2, <1>4, <1>5, <1>6 DEF SerialInv, AnnouncedHeld, SameKeys, DiskHeld
<1>10. JournalHeld(c)'
  BY <1>1, <1>2, <1>4, <1>5 DEF JournalHeld, SameKeys, DiskHeld
<1>11. UsedHeld'
  <2>1. SUFFICES ASSUME NEW i \in used, NEW k \in Rests("keys")
                 PROVE  i = Redriven(k, next).seed \/ i \in k.backups
    BY <1>4 DEF SerialInv, UsedHeld, SameKeys
  <2>2. Redriven(k, next).seed = j /\ Redriven(k, State).seed = j
    BY <1>2, <1>5 DEF Redriven
  <2>3. i = Redriven(k, State).seed \/ i \in k.backups
    BY <1>1 DEF SerialInv, UsedHeld, DiskHeld
  <2>4. QED
    BY <1>2, <2>2, <2>3
<1>12. QED
  BY <1>2, <1>4, <1>7, <1>8, <1>9, <1>10, <1>11

-----------------------------------------------------------------------------
\* The recovery makes the pair durable.
LEMMA RedoSyncHeld ==
    ASSUME NEW c \in Commands, SerialInv(c), RedoSync(c)
    PROVE  Held(c)' /\ DiskOK'
<1>1. /\ DiskHeld /\ DiskOK' /\ Keys' = Keys /\ State' = State
      /\ Rests("keys")' = {Keys} /\ Rests("state")' = {State}
  BY DiskTypes, SyncBoth DEF SerialInv, RedoSync, LossesKept, SameKeys
<1>2. pc[c] = "redoSync" /\ Moves(c, "redoUnlink")
  BY DEF SerialInv, IdentityTypeOK, RedoSync, Goto, Moves
<1>3. /\ UNCHANGED <<seen, new, journal, told, issued, used, left>>
      /\ issued \in Nat /\ issued' \in Nat /\ issued <= issued'
  BY DEF SerialInv, IdentityTypeOK, RedoSync
<1>4. PairsHeld(c)' /\ InstallHeld' /\ AnnouncedHeld' /\ JournalHeld(c)' /\ UsedHeld'
  BY <1>1, <1>2, <1>3, Steady DEF Shrinks, DiskHeld, Moves
<1>5. StepHeld(c)'
  BY <1>1, <1>2, <1>3, <1>4 DEF SerialInv, DiskHeld, Moves, StepHeld, Unjournaled, Redoing,
     Journaled
<1>6. RotationHeld(c)'
  BY <1>1, <1>2, <1>3, <1>4 DEF SerialInv, DiskHeld, Moves, RotationHeld,
     StepHeld, Journaled, Fresh, Staging, Publishing
<1>7. RedoHeld(c)'
  BY <1>1, <1>2, <1>3, <1>4 DEF SerialInv, DiskHeld, Moves, RedoHeld,
     StepHeld, Journaled, Redoing
<1>8. QED
  BY <1>1, <1>4, <1>5, <1>6, <1>7 DEF Held

\* The recovery is over.
LEMMA RedoDoneHeld ==
    ASSUME NEW c \in Commands, SerialInv(c), RedoDone(c)
    PROVE  Held(c)' /\ DiskOK'
<1>1. /\ DiskHeld /\ DiskOK' /\ Keys' = Keys /\ Rests("keys")' = Rests("keys")
      /\ State' = State /\ Rests("state")' = {State}
  BY DiskTypes, SyncState DEF SerialInv, RedoDone, LossesKept, SameKeys
<1>2. pc[c] = "redoDone" /\ Moves(c, "readSeed")
  BY DEF SerialInv, IdentityTypeOK, RedoDone, Goto, Moves
<1>3. /\ UNCHANGED <<seen, new, journal, told, issued, used, left>>
      /\ issued \in Nat /\ issued' \in Nat /\ issued <= issued'
  BY DEF SerialInv, IdentityTypeOK, RedoDone
<1>4. PairsHeld(c)' /\ InstallHeld' /\ AnnouncedHeld' /\ JournalHeld(c)' /\ UsedHeld'
  BY <1>1, <1>2, <1>3, Steady DEF Shrinks, DiskHeld, Moves
<1>5. StepHeld(c)'
  BY <1>1, <1>2, <1>3, <1>4 DEF SerialInv, DiskHeld, Moves, StepHeld, Unjournaled, Redoing,
     Journaled
<1>6. RotationHeld(c)'
  BY <1>1, <1>2, <1>3, <1>4 DEF SerialInv, DiskHeld, Moves, RotationHeld,
     StepHeld, Journaled, Fresh, Staging, Publishing
<1>7. RedoHeld(c)'
  BY <1>1, <1>2, <1>3, <1>4 DEF SerialInv, DiskHeld, Moves, RedoHeld,
     StepHeld, Journaled, Redoing
<1>8. QED
  BY <1>1, <1>4, <1>5, <1>6, <1>7 DEF Held

\* The staged files are durable.
LEMMA SyncStagedHeld ==
    ASSUME NEW c \in Commands, SerialInv(c), SyncStaged(c)
    PROVE  Held(c)' /\ DiskOK'
<1>1. /\ DiskHeld /\ DiskOK' /\ Keys' = Keys /\ State' = State
      /\ Rests("keys")' = {Keys} /\ Rests("state")' = {State}
  BY DiskTypes, SyncBoth DEF SerialInv, SyncStaged, LossesKept, SameKeys
<1>2. pc[c] = "syncStaged" /\ Moves(c, "writeJournal")
  BY DEF SerialInv, IdentityTypeOK, SyncStaged, Goto, Moves
<1>3. /\ UNCHANGED <<seen, new, journal, told, issued, used, left>>
      /\ issued \in Nat /\ issued' \in Nat /\ issued <= issued'
  BY DEF SerialInv, IdentityTypeOK, SyncStaged
<1>4. PairsHeld(c)' /\ InstallHeld' /\ AnnouncedHeld' /\ JournalHeld(c)' /\ UsedHeld'
  BY <1>1, <1>2, <1>3, Steady DEF Shrinks, DiskHeld, Moves
<1>5. StepHeld(c)'
  BY <1>1, <1>2, <1>3, <1>4 DEF SerialInv, DiskHeld, Moves, StepHeld, Unjournaled, Redoing,
     Journaled
<1>6. RotationHeld(c)'
  BY <1>1, <1>2, <1>3, <1>4 DEF SerialInv, DiskHeld, Moves, RotationHeld,
     StepHeld, Journaled, Fresh, Staging, Publishing, Announced
<1>7. RedoHeld(c)'
  BY <1>1, <1>2, <1>3, <1>4 DEF SerialInv, DiskHeld, Moves, RedoHeld,
     StepHeld, Journaled, Redoing
<1>8. QED
  BY <1>1, <1>4, <1>5, <1>6, <1>7 DEF Held

\* The journal is durable: the rotation will be carried out.
LEMMA SyncJournalHeld ==
    ASSUME NEW c \in Commands, SerialInv(c), SyncJournal(c)
    PROVE  Held(c)' /\ DiskOK'
<1>1. /\ DiskHeld /\ DiskOK' /\ Keys' = Keys /\ Rests("keys")' = Rests("keys")
      /\ State' = State /\ Rests("state")' = {State}
  BY DiskTypes, SyncState DEF SerialInv, SyncJournal, LossesKept, SameKeys
<1>2. pc[c] = "syncJournal" /\ Moves(c, "publishSeed")
  BY DEF SerialInv, IdentityTypeOK, SyncJournal, Goto, Moves
<1>3. /\ UNCHANGED <<seen, new, journal, told, issued, used, left>>
      /\ issued \in Nat /\ issued' \in Nat /\ issued <= issued'
  BY DEF SerialInv, IdentityTypeOK, SyncJournal
<1>4. PairsHeld(c)' /\ InstallHeld' /\ AnnouncedHeld' /\ JournalHeld(c)' /\ UsedHeld'
  <2>1. PairsHeld(c)' /\ InstallHeld' /\ AnnouncedHeld' /\ UsedHeld'
    BY <1>1, <1>2, <1>3, Steady DEF Shrinks, DiskHeld, Moves
  <2>2. JournalHeld(c)'
    BY <1>1, <1>2 DEF JournalHeld
  <2>3. QED
    BY <2>1, <2>2
<1>5. StepHeld(c)'
  BY <1>1, <1>2, <1>3, <1>4 DEF SerialInv, DiskHeld, Moves, StepHeld, Unjournaled, Redoing,
     Journaled
<1>6. RotationHeld(c)'
  BY <1>1, <1>2, <1>3, <1>4 DEF SerialInv, DiskHeld, Moves, RotationHeld,
     StepHeld, Journaled, Fresh, Staging, Publishing
<1>7. RedoHeld(c)'
  BY <1>1, <1>2, <1>3, <1>4 DEF SerialInv, DiskHeld, Moves, RedoHeld,
     StepHeld, Journaled, Redoing
<1>8. QED
  BY <1>1, <1>4, <1>5, <1>6, <1>7 DEF Held

\* The pair is durable.
LEMMA SyncPairHeld ==
    ASSUME NEW c \in Commands, SerialInv(c), SyncPair(c)
    PROVE  Held(c)' /\ DiskOK'
<1>1. /\ DiskHeld /\ DiskOK' /\ Keys' = Keys /\ State' = State
      /\ Rests("keys")' = {Keys} /\ Rests("state")' = {State}
  BY DiskTypes, SyncBoth DEF SerialInv, SyncPair, LossesKept, SameKeys
<1>2. pc[c] = "syncPair" /\ Moves(c, "dropJournal")
  BY DEF SerialInv, IdentityTypeOK, SyncPair, Goto, Moves
<1>3. /\ UNCHANGED <<seen, new, journal, told, issued, used, left>>
      /\ issued \in Nat /\ issued' \in Nat /\ issued <= issued'
  BY DEF SerialInv, IdentityTypeOK, SyncPair
<1>4. PairsHeld(c)' /\ InstallHeld' /\ AnnouncedHeld' /\ JournalHeld(c)' /\ UsedHeld'
  BY <1>1, <1>2, <1>3, Steady DEF Shrinks, DiskHeld, Moves
<1>5. StepHeld(c)'
  BY <1>1, <1>2, <1>3, <1>4 DEF SerialInv, DiskHeld, Moves, StepHeld, Unjournaled, Redoing,
     Journaled
<1>6. RotationHeld(c)'
  BY <1>1, <1>2, <1>3, <1>4 DEF SerialInv, DiskHeld, Moves, RotationHeld,
     StepHeld, Journaled, Fresh, Staging, Publishing
<1>7. RedoHeld(c)'
  BY <1>1, <1>2, <1>3, <1>4 DEF SerialInv, DiskHeld, Moves, RedoHeld,
     StepHeld, Journaled, Redoing
<1>8. QED
  BY <1>1, <1>4, <1>5, <1>6, <1>7 DEF Held

\* The rotation is over.
LEMMA SyncDroppedHeld ==
    ASSUME NEW c \in Commands, SerialInv(c), SyncDropped(c)
    PROVE  Held(c)' /\ DiskOK'
<1>1. /\ DiskHeld /\ DiskOK' /\ Keys' = Keys /\ Rests("keys")' = Rests("keys")
      /\ State' = State /\ Rests("state")' = {State}
  BY DiskTypes, SyncState DEF SerialInv, SyncDropped, LossesKept, SameKeys
<1>2. pc[c] = "syncDropped" /\ Moves(c, "announce")
  BY DEF SerialInv, IdentityTypeOK, SyncDropped, Goto, Moves
<1>3. /\ UNCHANGED <<seen, new, journal, told, issued, used, left>>
      /\ issued \in Nat /\ issued' \in Nat /\ issued <= issued'
  BY DEF SerialInv, IdentityTypeOK, SyncDropped
<1>4. PairsHeld(c)' /\ InstallHeld' /\ AnnouncedHeld' /\ JournalHeld(c)' /\ UsedHeld'
  BY <1>1, <1>2, <1>3, Steady DEF Shrinks, DiskHeld, Moves
<1>5. StepHeld(c)'
  BY <1>1, <1>2, <1>3, <1>4 DEF SerialInv, DiskHeld, Moves, StepHeld, Unjournaled, Redoing,
     Journaled
<1>6. RotationHeld(c)'
  BY <1>1, <1>2, <1>3, <1>4 DEF SerialInv, DiskHeld, Moves, RotationHeld,
     StepHeld, Journaled, Fresh, Staging, Publishing
<1>7. RedoHeld(c)'
  BY <1>1, <1>2, <1>3, <1>4 DEF SerialInv, DiskHeld, Moves, RedoHeld,
     StepHeld, Journaled, Redoing
<1>8. QED
  BY <1>1, <1>4, <1>5, <1>6, <1>7 DEF Held

\* The recovery's first rename, or the seed is in place already.
LEMMA RedoSeedHeld ==
    ASSUME NEW c \in Commands, SerialInv(c), RedoSeed(c)
    PROVE  Held(c)' /\ DiskOK'
<1>1. DiskHeld /\ LossesKept /\ UNCHANGED <<seen, new, journal, told, issued, used, left>>
  BY DiskTypes DEF SerialInv, RedoSeed, LossesKept
<1>2. pc[c] = "redoSeed" /\ Moves(c, "redoCard")
  BY DEF SerialInv, IdentityTypeOK, RedoSeed, Goto, Moves
<1>3. State.config /\ journal[c] = State.journal /\ State.journal # Absent
  BY <1>2 DEF SerialInv, StepHeld, Redoing
<1>4. pc[c] # "syncJournal" /\ pc'[c] # "installConfig"
  BY <1>2 DEF Moves
<1>5. /\ PairsHeld(c)' /\ InstallHeld' /\ AnnouncedHeld' /\ JournalHeld(c)' /\ UsedHeld'
      /\ DiskOK' /\ SameState /\ Keys'.seed = State.journal
  <2>1. CASE State.journal \in Keys.staged
    <3>1. RenameSeed(State.journal)
      BY <1>3, <2>1 DEF RedoSeed
    <3>2. QED
      BY <1>1, <1>3, <1>4, <2>1, <3>1, SeedRenamed
  <2>2. CASE State.journal \notin Keys.staged
    <3>1. disk' = disk
      BY <1>3, <2>2 DEF RedoSeed
    <3>2. DiskOK' /\ SameKeys /\ SameState
      BY <1>1, <3>1, Untouched DEF SerialInv
    <3>3. Keys.seed = State.journal
      BY <1>1, <1>3, <2>2 DEF SerialInv, PairsHeld, Paired, DiskHeld
    <3>4. issued \in Nat /\ issued <= issued' /\ issued' \in Nat
      BY <1>1 DEF SerialInv, IdentityTypeOK
    <3>5. QED
      BY <1>1, <1>4, <3>2, <3>3, <3>4, Steady DEF SameKeys, SameState, Shrinks
  <2>3. QED
    BY <2>1, <2>2
<1>6. StepHeld(c)'
  BY <1>1, <1>2, <1>3, <1>5 DEF SerialInv, SameState, Moves, StepHeld, Unjournaled, Redoing,
     Journaled
<1>7. RotationHeld(c)'
  BY <1>1, <1>2 DEF SerialInv, Moves, RotationHeld, Fresh, Staging, Publishing
<1>8. RedoHeld(c)'
  BY <1>2, <1>5 DEF Moves, RedoHeld, SameState
<1>9. QED
  BY <1>5, <1>6, <1>7, <1>8 DEF Held

\* The recovery's second rename, or the card is in place already.
LEMMA RedoCardHeld ==
    ASSUME NEW c \in Commands, SerialInv(c), RedoCard(c)
    PROVE  Held(c)' /\ DiskOK'
<1>1. DiskHeld /\ LossesKept /\ UNCHANGED <<seen, new, journal, told, issued, used, left>>
  BY DiskTypes DEF SerialInv, RedoCard, LossesKept
<1>2. pc[c] = "redoCard" /\ Moves(c, "redoSync")
  BY DEF SerialInv, IdentityTypeOK, RedoCard, Goto, Moves
<1>3. State.config /\ journal[c] = State.journal /\ State.journal # Absent
  BY <1>2 DEF SerialInv, StepHeld, Redoing
<1>4. pc[c] # "syncJournal" /\ pc'[c] # "installConfig" /\ Keys.seed = State.journal
  BY <1>2 DEF SerialInv, RedoHeld, Moves
<1>5. /\ PairsHeld(c)' /\ InstallHeld' /\ AnnouncedHeld' /\ JournalHeld(c)' /\ UsedHeld'
      /\ DiskOK' /\ Keys' = Keys /\ State'.card = State.journal
      /\ State'.journal = State.journal /\ State'.config
  <2>1. CASE State.journal \in State.staged
    <3>1. RenameCard(State.journal)
      BY <1>3, <2>1 DEF RedoCard
    <3>2. QED
      BY <1>1, <1>3, <1>4, <2>1, <3>1, CardRenamed DEF SameKeys
  <2>2. CASE State.journal \notin State.staged
    <3>1. disk' = disk
      BY <1>3, <2>2 DEF RedoCard
    <3>2. DiskOK' /\ SameKeys /\ SameState
      BY <1>1, <3>1, Untouched DEF SerialInv
    <3>3. State.card = State.journal
      BY <1>1, <1>3, <2>2 DEF SerialInv, PairsHeld, Paired, DiskHeld
    <3>4. issued \in Nat /\ issued <= issued' /\ issued' \in Nat
      BY <1>1 DEF SerialInv, IdentityTypeOK
    <3>5. QED
      BY <1>1, <1>3, <1>4, <3>2, <3>3, <3>4, Steady DEF SameKeys, SameState, Shrinks
  <2>3. QED
    BY <2>1, <2>2
<1>6. StepHeld(c)'
  BY <1>1, <1>2, <1>3, <1>5 DEF SerialInv, Moves, StepHeld, Unjournaled, Redoing, Journaled
<1>7. RotationHeld(c)'
  BY <1>1, <1>2 DEF SerialInv, Moves, RotationHeld, Fresh, Staging, Publishing
<1>8. RedoHeld(c)'
  BY <1>2, <1>4, <1>5 DEF Moves, RedoHeld
<1>9. QED
  BY <1>5, <1>6, <1>7, <1>8 DEF Held

\* The recovery removes the journal.
LEMMA RedoUnlinkHeld ==
    ASSUME NEW c \in Commands, SerialInv(c), RedoUnlink(c)
    PROVE  Held(c)' /\ DiskOK'
<1>1. DiskHeld /\ LossesKept /\ UNCHANGED <<seen, new, journal, told, issued, used, left>>
  BY DiskTypes DEF SerialInv, RedoUnlink, LossesKept
<1>2. pc[c] = "redoUnlink" /\ State.config /\ State.journal # Absent
  BY DEF SerialInv, StepHeld, Redoing, RedoUnlink, Goto
<1>3. Moves(c, "redoDone") /\ Unlink
  BY <1>2 DEF SerialInv, IdentityTypeOK, RedoUnlink, Goto, Moves
<1>4. pc[c] # "syncJournal" /\ pc'[c] # "installConfig"
  BY <1>2, <1>3 DEF Moves
<1>5. /\ \A k \in Rests("keys") : k.seed = State.journal
      /\ \A s \in Rests("state") : s.card = State.journal
  BY <1>2 DEF SerialInv, RedoHeld
<1>6. /\ PairsHeld(c)' /\ InstallHeld' /\ AnnouncedHeld' /\ JournalHeld(c)' /\ UsedHeld'
      /\ DiskOK' /\ SameKeys /\ State'.journal = Absent /\ State'.config
  BY <1>1, <1>2, <1>3, <1>4, <1>5, JournalUnlinked
<1>7. StepHeld(c)'
  BY <1>1, <1>3, <1>6 DEF SerialInv, SameKeys, Moves, StepHeld, Unjournaled, Redoing, Journaled
<1>8. RotationHeld(c)'
  BY <1>1, <1>3 DEF SerialInv, Moves, RotationHeld, Fresh, Staging, Publishing
<1>9. RedoHeld(c)'
  BY <1>3 DEF Moves, RedoHeld
<1>10. QED
  BY <1>6, <1>7, <1>8, <1>9 DEF Held

\* The rotation's own renames and unlink.
LEMMA PublishSeedHeld ==
    ASSUME NEW c \in Commands, SerialInv(c), PublishSeed(c)
    PROVE  Held(c)' /\ DiskOK'
<1>1. DiskHeld /\ LossesKept /\ UNCHANGED <<seen, new, journal, told, issued, used, left>>
  BY DiskTypes DEF SerialInv, PublishSeed, LossesKept
<1>2. pc[c] = "publishSeed" /\ Moves(c, "publishCard")
  BY DEF SerialInv, IdentityTypeOK, PublishSeed, Goto, Moves
<1>3. State.config /\ new[c] = State.journal /\ State.journal # Absent
  BY <1>2 DEF SerialInv, StepHeld, RotationHeld, Journaled, Publishing
<1>4. pc[c] # "syncJournal" /\ pc'[c] # "installConfig"
  BY <1>2 DEF Moves
<1>5. State.journal \in Keys.staged /\ RenameSeed(State.journal)
  BY <1>3 DEF PublishSeed
<1>6. /\ PairsHeld(c)' /\ InstallHeld' /\ AnnouncedHeld' /\ JournalHeld(c)' /\ UsedHeld'
      /\ DiskOK' /\ SameState /\ Keys'.seed = State.journal
      /\ \A k \in Rests("keys")' : \E l \in Rests("keys") : k.backups = l.backups
  BY <1>1, <1>3, <1>4, <1>5, SeedRenamed
<1>7. StepHeld(c)'
  BY <1>1, <1>2, <1>3, <1>6 DEF SerialInv, SameState, Moves, StepHeld, Unjournaled, Redoing,
     Journaled
<1>8. RotationHeld(c)'
  BY <1>1, <1>2, <1>6 DEF SerialInv, Moves, RotationHeld, Fresh, Staging, Publishing
<1>9. RedoHeld(c)'
  BY <1>2, <1>6 DEF Moves, RedoHeld, SameState
<1>10. QED
  BY <1>6, <1>7, <1>8, <1>9 DEF Held

\* The rotation renames its staged card.
LEMMA PublishCardHeld ==
    ASSUME NEW c \in Commands, SerialInv(c), PublishCard(c)
    PROVE  Held(c)' /\ DiskOK'
<1>1. DiskHeld /\ LossesKept /\ UNCHANGED <<seen, new, journal, told, issued, used, left>>
  BY DiskTypes DEF SerialInv, PublishCard, LossesKept
<1>2. pc[c] = "publishCard" /\ Moves(c, "syncPair")
  BY DEF SerialInv, IdentityTypeOK, PublishCard, Goto, Moves
<1>3. State.config /\ new[c] = State.journal /\ State.journal # Absent
  BY <1>2 DEF SerialInv, StepHeld, RotationHeld, Journaled, Publishing
<1>4. pc[c] # "syncJournal" /\ pc'[c] # "installConfig" /\ Keys.seed = State.journal
  BY <1>2 DEF SerialInv, RedoHeld, Moves
<1>5. State.journal \in State.staged /\ RenameCard(State.journal)
  BY <1>3 DEF PublishCard
<1>6. /\ PairsHeld(c)' /\ InstallHeld' /\ AnnouncedHeld' /\ JournalHeld(c)' /\ UsedHeld'
      /\ DiskOK' /\ SameKeys /\ State'.card = State.journal
      /\ State'.journal = State.journal /\ State'.config
  BY <1>1, <1>3, <1>4, <1>5, CardRenamed
<1>7. StepHeld(c)'
  BY <1>1, <1>2, <1>3, <1>6 DEF SerialInv, Moves, StepHeld, Unjournaled, Redoing, Journaled
<1>8. RotationHeld(c)'
  BY <1>1, <1>2, <1>6 DEF SerialInv, SameKeys, Moves, RotationHeld, Fresh, Staging, Publishing
<1>9. RedoHeld(c)'
  BY <1>2, <1>4, <1>6 DEF Moves, RedoHeld, SameKeys
<1>10. QED
  BY <1>6, <1>7, <1>8, <1>9 DEF Held

\* The rotation removes its journal, both files being durable.
LEMMA DropJournalHeld ==
    ASSUME NEW c \in Commands, SerialInv(c), DropJournal(c)
    PROVE  Held(c)' /\ DiskOK'
<1>1. DiskHeld /\ LossesKept /\ UNCHANGED <<seen, new, journal, told, issued, used, left>>
  BY DiskTypes DEF SerialInv, DropJournal, LossesKept
<1>2. pc[c] = "dropJournal" /\ State.config /\ State.journal # Absent
  BY DEF SerialInv, StepHeld, DropJournal, Goto
<1>3. Moves(c, "syncDropped") /\ Unlink
  BY DEF SerialInv, IdentityTypeOK, DropJournal, Goto, Moves
<1>4. pc[c] # "syncJournal" /\ pc'[c] # "installConfig"
  BY <1>2, <1>3 DEF Moves
<1>5. /\ \A k \in Rests("keys") : k.seed = State.journal
      /\ \A s \in Rests("state") : s.card = State.journal
  BY <1>2 DEF SerialInv, RedoHeld
<1>6. /\ PairsHeld(c)' /\ InstallHeld' /\ AnnouncedHeld' /\ JournalHeld(c)' /\ UsedHeld'
      /\ DiskOK' /\ SameKeys /\ State'.journal = Absent /\ State'.config
  BY <1>1, <1>2, <1>3, <1>4, <1>5, JournalUnlinked
<1>7. StepHeld(c)'
  BY <1>1, <1>3, <1>6 DEF SerialInv, SameKeys, Moves, StepHeld, Unjournaled, Redoing, Journaled
<1>8. RotationHeld(c)'
  BY <1>1, <1>2, <1>3, <1>6 DEF SerialInv, SameKeys, Moves, RotationHeld, Fresh, Staging,
     Publishing
<1>9. RedoHeld(c)'
  BY <1>3 DEF Moves, RedoHeld
<1>10. QED
  BY <1>6, <1>7, <1>8, <1>9 DEF Held

-----------------------------------------------------------------------------
\* keys/ is written without touching the seed or a staged file that a journal names.
LEMMA KeysEdited ==
    ASSUME NEW c \in Commands, SerialInv(c), SameState, NEW x \in KeyDirs, Keys' = x,
           Rests("keys")' \subseteq Rests("keys") \cup {x}, x.seed = Keys.seed,
           Keys.backups \subseteq x.backups,
           \A s \in Rests("state") : s.journal # Absent =>
               (s.journal \in x.staged <=> s.journal \in Keys.staged),
           pc[c] # "syncJournal", pc'[c] # "installConfig", UNCHANGED <<told, issued, used>>
    PROVE  PairsHeld(c)' /\ InstallHeld' /\ AnnouncedHeld' /\ JournalHeld(c)' /\ UsedHeld'
<1>1. DiskHeld
  BY DiskTypes DEF SerialInv
<1>2. \A i : Announced(i)' = Announced(i)
  BY DEF Announced
<1>3. PairsHeld(c)'
  BY <1>1 DEF SerialInv, PairsHeld, Paired, SameState, DiskHeld
<1>4. InstallHeld'
  BY <1>1 DEF SerialInv, InstallHeld, SameState, DiskHeld
<1>5. AnnouncedHeld'
  BY <1>1, <1>2 DEF SerialInv, AnnouncedHeld, SameState, DiskHeld
<1>6. JournalHeld(c)'
  BY DEF SerialInv, JournalHeld, SameState
<1>7. UsedHeld'
  <2>1. SUFFICES ASSUME NEW i \in used, NEW s \in Rests("state")
                 PROVE  i = Redriven(x, s).seed \/ i \in x.backups
    BY DEF SerialInv, UsedHeld, SameState
  <2>2. Redriven(x, s).seed = Redriven(Keys, s).seed
    BY DEF Redriven
  <2>3. i = Redriven(Keys, s).seed \/ i \in Keys.backups
    BY <1>1 DEF SerialInv, UsedHeld, DiskHeld
  <2>4. QED
    BY <2>2, <2>3
<1>8. QED
  BY <1>3, <1>4, <1>5, <1>6, <1>7

\* Staged cards come and go in the state directory while it holds no journal.
LEMMA StateEdited ==
    ASSUME NEW c \in Commands, SerialInv(c), SameKeys, NEW x \in StateDirs, State' = x,
           Rests("state")' \subseteq Rests("state") \cup {x}, State.journal = Absent,
           x.card = State.card, x.journal = Absent, x.config = State.config,
           pc'[c] # "installConfig", UNCHANGED <<told, issued, used>>
    PROVE  PairsHeld(c)' /\ InstallHeld' /\ AnnouncedHeld' /\ JournalHeld(c)' /\ UsedHeld'
<1>1. DiskHeld
  BY DiskTypes DEF SerialInv
<1>2. \A i : Announced(i)' = Announced(i)
  BY DEF Announced
<1>3. PairsHeld(c)'
  BY <1>1 DEF SerialInv, PairsHeld, Paired, SameKeys, DiskHeld
<1>4. InstallHeld'
  BY <1>1 DEF SerialInv, InstallHeld, SameKeys, DiskHeld
<1>5. AnnouncedHeld'
  BY <1>1, <1>2 DEF SerialInv, AnnouncedHeld, SameKeys, DiskHeld
<1>6. JournalHeld(c)'
  BY DEF SerialInv, JournalHeld, SameKeys
<1>7. UsedHeld'
  <2>1. SUFFICES ASSUME NEW i \in used, NEW k \in Rests("keys")
                 PROVE  i = Redriven(k, x).seed \/ i \in k.backups
    BY DEF SerialInv, UsedHeld, SameKeys
  <2>2. Redriven(k, x).seed = Redriven(k, State).seed
    BY DEF Redriven
  <2>3. i = Redriven(k, State).seed \/ i \in k.backups
    BY <1>1 DEF SerialInv, UsedHeld, DiskHeld
  <2>4. QED
    BY <2>2, <2>3
<1>8. QED
  BY <1>3, <1>4, <1>5, <1>6, <1>7

\* The seed in place joins the backups: whatever was used is now among them.
LEMMA BackUpHeld ==
    ASSUME NEW c \in Commands, SerialInv(c), BackUp(c)
    PROVE  Held(c)' /\ DiskOK'
<1> DEFINE x == [Keys EXCEPT !.backups = @ \cup {Keys.seed}]
<1>1. DiskHeld /\ LossesKept /\ UNCHANGED <<seen, new, journal, told, issued, used, left>>
  BY DiskTypes DEF SerialInv, BackUp, LossesKept
<1>2. pc[c] = "backUp" /\ Moves(c, "stageSeed")
  BY DEF SerialInv, IdentityTypeOK, BackUp, Goto, Moves
<1>3. State.config /\ State.journal = Absent
  BY <1>2 DEF SerialInv, StepHeld, Unjournaled
<1>4. pc[c] # "syncJournal" /\ pc'[c] # "installConfig"
  BY <1>2 DEF Moves
<1>5. /\ x \in KeyDirs /\ x.seed = Keys.seed /\ x.staged = Keys.staged
      /\ x.backups = Keys.backups \cup {Keys.seed}
  BY <1>1 DEF DiskHeld, KeyDirs
<1>6. PutSynced("keys", x)
  BY DEF BackUp
<1> HIDE DEF x
<1>7. DiskOK' /\ SameState /\ Keys' = x /\ Rests("keys")' = {x}
  BY <1>1, <1>5, <1>6, PutSyncedKeys DEF SerialInv
<1>8. PairsHeld(c)' /\ InstallHeld' /\ AnnouncedHeld' /\ JournalHeld(c)' /\ UsedHeld'
  BY <1>1, <1>4, <1>5, <1>7, KeysEdited
<1>9. used \subseteq x.backups
  <2>1. \A i \in used : i = Redriven(Keys, State).seed \/ i \in Keys.backups
    BY <1>1 DEF SerialInv, UsedHeld, DiskHeld
  <2>2. Redriven(Keys, State).seed = Keys.seed
    BY <1>3 DEF Redriven
  <2>3. QED
    BY <1>5, <2>1, <2>2
<1>10. StepHeld(c)'
  BY <1>1, <1>2, <1>3, <1>7 DEF SerialInv, SameState, Moves, StepHeld, Unjournaled, Redoing,
     Journaled
<1>11. RotationHeld(c)'
  BY <1>1, <1>2, <1>7, <1>9 DEF SerialInv, SameState, Moves, RotationHeld, Announced, Fresh,
     Staging, Publishing
<1>12. RedoHeld(c)'
  BY <1>2 DEF Moves, RedoHeld
<1>13. QED
  BY <1>7, <1>8, <1>10, <1>11, <1>12 DEF Held

\* The new seed and card are staged, under a name no journal mentions.
LEMMA StageSeedHeld ==
    ASSUME NEW c \in Commands, SerialInv(c), StageSeed(c)
    PROVE  Held(c)' /\ DiskOK'
<1> DEFINE x == [Keys EXCEPT !.staged = @ \cup {new[c]}]
<1>1. DiskHeld /\ LossesKept /\ UNCHANGED <<seen, new, journal, told, issued, used, left>>
  BY DiskTypes DEF SerialInv, StageSeed, LossesKept
<1>2. pc[c] = "stageSeed" /\ Moves(c, "stageCard")
  BY DEF SerialInv, IdentityTypeOK, StageSeed, Goto, Moves
<1>3. State.config /\ State.journal = Absent
  BY <1>2 DEF SerialInv, StepHeld, Unjournaled
<1>4. pc[c] # "syncJournal" /\ pc'[c] # "installConfig"
  BY <1>2 DEF Moves
<1>5. new[c] \in Nat /\ \A s \in Rests("state") : s.journal # new[c]
  BY <1>2 DEF SerialInv, IdentityTypeOK, RotationHeld, Fresh
<1>6. /\ x \in KeyDirs /\ x.seed = Keys.seed /\ x.staged = Keys.staged \cup {new[c]}
      /\ x.backups = Keys.backups
  BY <1>1, <1>5 DEF DiskHeld, KeyDirs
<1>7. Put("keys", x)
  BY DEF StageSeed
<1> HIDE DEF x
<1>8. DiskOK' /\ SameState /\ Keys' = x /\ Rests("keys")' \subseteq Rests("keys") \cup {x}
  BY <1>1, <1>6, <1>7, PutKeys DEF SerialInv
<1>9. PairsHeld(c)' /\ InstallHeld' /\ AnnouncedHeld' /\ JournalHeld(c)' /\ UsedHeld'
  BY <1>1, <1>4, <1>5, <1>6, <1>8, KeysEdited
<1>10. StepHeld(c)'
  BY <1>1, <1>2, <1>3, <1>8 DEF SerialInv, SameState, Moves, StepHeld, Unjournaled, Redoing,
     Journaled
<1>11. RotationHeld(c)'
  BY <1>1, <1>2, <1>6, <1>8 DEF SerialInv, SameState, DiskHeld, Moves, RotationHeld,
     Announced, Fresh, Staging, Publishing
<1>12. RedoHeld(c)'
  BY <1>2 DEF Moves, RedoHeld
<1>13. QED
  BY <1>8, <1>9, <1>10, <1>11, <1>12 DEF Held

\* The new card is staged beside the one in place.
LEMMA StageCardHeld ==
    ASSUME NEW c \in Commands, SerialInv(c), StageCard(c)
    PROVE  Held(c)' /\ DiskOK'
<1> DEFINE x == [State EXCEPT !.staged = @ \cup {new[c]}]
<1>1. DiskHeld /\ LossesKept /\ UNCHANGED <<seen, new, journal, told, issued, used, left>>
  BY DiskTypes DEF SerialInv, StageCard, LossesKept
<1>2. pc[c] = "stageCard" /\ Moves(c, "syncStaged")
  BY DEF SerialInv, IdentityTypeOK, StageCard, Goto, Moves
<1>3. State.config /\ State.journal = Absent
  BY <1>2 DEF SerialInv, StepHeld, Unjournaled
<1>4. pc'[c] # "installConfig"
  BY <1>2 DEF Moves
<1>5. new[c] \in Nat /\ new[c] # Absent
  BY <1>2 DEF SerialInv, IdentityTypeOK, RotationHeld, Fresh
<1>6. /\ x \in StateDirs /\ x.card = State.card /\ x.staged = State.staged \cup {new[c]}
      /\ x.journal = State.journal /\ x.config = State.config
  BY <1>1, <1>5 DEF DiskHeld, StateDirs
<1>7. Put("state", x)
  BY DEF StageCard
<1> HIDE DEF x
<1>8. DiskOK' /\ SameKeys /\ State' = x /\ Rests("state")' \subseteq Rests("state") \cup {x}
  BY <1>1, <1>6, <1>7, PutState DEF SerialInv
<1>9. PairsHeld(c)' /\ InstallHeld' /\ AnnouncedHeld' /\ JournalHeld(c)' /\ UsedHeld'
  BY <1>1, <1>3, <1>4, <1>6, <1>8, StateEdited
<1>10. StepHeld(c)'
  BY <1>1, <1>2, <1>3, <1>6, <1>8 DEF SerialInv, SameKeys, Moves, StepHeld, Unjournaled,
     Redoing, Journaled
<1>11. RotationHeld(c)'
  BY <1>1, <1>2, <1>3, <1>5, <1>6, <1>8 DEF SerialInv, SameKeys, Moves, RotationHeld,
     Announced, Fresh, Staging, Publishing
<1>12. RedoHeld(c)'
  BY <1>2 DEF Moves, RedoHeld
<1>13. QED
  BY <1>8, <1>9, <1>10, <1>11, <1>12 DEF Held

\* The journal appears, with everything it names durable and everything used backed up.
LEMMA WriteJournalHeld ==
    ASSUME NEW c \in Commands, SerialInv(c), WriteJournal(c)
    PROVE  Held(c)' /\ DiskOK'
<1> DEFINE x == [State EXCEPT !.journal = new[c]]
<1>1. DiskHeld /\ LossesKept /\ UNCHANGED <<seen, new, journal, told, issued, used, left>>
  BY DiskTypes DEF SerialInv, WriteJournal, LossesKept
<1>2. pc[c] = "writeJournal" /\ Moves(c, "syncJournal")
  BY DEF SerialInv, IdentityTypeOK, WriteJournal, Goto, Moves
<1>3. State.config /\ State.journal = Absent
  BY <1>2 DEF SerialInv, StepHeld, Unjournaled
<1>4. /\ new[c] \in Nat /\ new[c] # Absent /\ new[c] <= issued /\ Announced(new[c])
      /\ new[c] \in State.staged
      /\ \A k \in Rests("keys") : new[c] \in k.staged /\ used \subseteq k.backups
  BY <1>2 DEF SerialInv, IdentityTypeOK, RotationHeld, Fresh, Staging
<1>5. /\ x \in StateDirs /\ x.card = State.card /\ x.staged = State.staged
      /\ x.journal = new[c] /\ x.config = State.config
  BY <1>1, <1>4 DEF DiskHeld, StateDirs
<1>6. Put("state", x)
  BY DEF WriteJournal
<1> HIDE DEF x
<1>7. DiskOK' /\ SameKeys /\ State' = x /\ Rests("state")' \subseteq Rests("state") \cup {x}
  BY <1>1, <1>5, <1>6, PutState DEF SerialInv
<1>8. \A i : Announced(i)' = Announced(i)
  BY <1>1 DEF Announced
<1>9. PairsHeld(c)'
  BY <1>3, <1>4, <1>5, <1>7 DEF SerialInv, PairsHeld, Paired, SameKeys
<1>10. InstallHeld'
  BY <1>1, <1>3, <1>5, <1>7 DEF SerialInv, InstallHeld, SameKeys
<1>11. AnnouncedHeld'
  BY <1>1, <1>4, <1>5, <1>7, <1>8 DEF SerialInv, AnnouncedHeld, SameKeys
<1>12. JournalHeld(c)'
  BY <1>2, <1>4, <1>5, <1>7 DEF JournalHeld, Moves
<1>13. UsedHeld'
  BY <1>1, <1>4, <1>7 DEF UsedHeld, SameKeys
<1>14. StepHeld(c)'
  BY <1>1, <1>2, <1>3, <1>5, <1>7 DEF SerialInv, SameKeys, Moves, StepHeld, Unjournaled,
     Redoing, Journaled
<1>15. RotationHeld(c)'
  BY <1>1, <1>2, <1>4, <1>5, <1>7, <1>8 DEF SerialInv, SameKeys, Moves, RotationHeld, Fresh,
     Staging, Publishing
<1>16. RedoHeld(c)'
  BY <1>2 DEF Moves, RedoHeld
<1>17. QED
  BY <1>7, <1>9, <1>10, <1>11, <1>12, <1>13, <1>14, <1>15, <1>16 DEF Held

-----------------------------------------------------------------------------
\* `mas init`, write by write.
LEMMA InstallSeedHeld ==
    ASSUME NEW c \in Commands, SerialInv(c), InstallSeed(c)
    PROVE  Held(c)' /\ DiskOK'
<1> DEFINE x == [Keys EXCEPT !.seed = issued']
<1>1. DiskHeld /\ LossesKept /\ UNCHANGED <<seen, journal, told, used, left>>
  BY DiskTypes DEF SerialInv, InstallSeed, LossesKept
<1>2. pc[c] = "idle" /\ Moves(c, "installCard")
  BY DEF SerialInv, IdentityTypeOK, InstallSeed, Goto, Moves
<1>3. issued = 0 /\ issued' = 1 /\ new'[c] = 1 /\ ~State.config
  BY <1>1 DEF SerialInv, IdentityTypeOK, InstallHeld, DiskHeld, InstallSeed
<1>4. used = {} /\ \A s \in Rests("state") : s.journal = Absent
  BY <1>3 DEF SerialInv, InstallHeld
<1>5. x \in KeyDirs /\ x.seed = 1
  BY <1>1, <1>3 DEF DiskHeld, KeyDirs
<1>6. PutSynced("keys", x)
  BY DEF InstallSeed
<1> HIDE DEF x
<1>7. DiskOK' /\ SameState /\ Rests("keys")' = {x}
  BY <1>1, <1>5, <1>6, PutSyncedKeys DEF SerialInv
<1>8. PairsHeld(c)' /\ JournalHeld(c)' /\ UsedHeld'
  BY <1>1, <1>2, <1>3, <1>4, <1>7 DEF PairsHeld, JournalHeld, UsedHeld, SameState, Moves,
     DiskHeld
<1>9. InstallHeld'
  BY <1>1, <1>3, <1>4, <1>5, <1>7 DEF SerialInv, InstallHeld, SameState, Absent
<1>10. AnnouncedHeld'
  BY <1>1, <1>4, <1>5, <1>7 DEF AnnouncedHeld, Announced, SameState
<1>11. StepHeld(c)'
  BY <1>2, <1>3, <1>5, <1>7 DEF SerialInv, SameState, Moves, StepHeld, Unjournaled, Redoing,
     Journaled
<1>12. RotationHeld(c)' /\ RedoHeld(c)'
  BY <1>2, <1>3 DEF Moves, RotationHeld, RedoHeld, Fresh, Staging, Publishing
<1>13. QED
  BY <1>7, <1>8, <1>9, <1>10, <1>11, <1>12 DEF Held

\* `mas init` writes the card of its seed.
LEMMA InstallCardHeld ==
    ASSUME NEW c \in Commands, SerialInv(c), InstallCard(c)
    PROVE  Held(c)' /\ DiskOK'
<1> DEFINE x == [State EXCEPT !.card = new[c]]
<1>1. DiskHeld /\ LossesKept /\ UNCHANGED <<seen, new, journal, told, issued, used, left>>
  BY DiskTypes DEF SerialInv, InstallCard, LossesKept
<1>2. pc[c] = "installCard" /\ Moves(c, "installConfig")
  BY DEF SerialInv, IdentityTypeOK, InstallCard, Goto, Moves
<1>3. /\ ~State.config /\ issued > 0 /\ new[c] \in Nat
      /\ \A k \in Rests("keys") : k.seed = new[c]
  BY <1>2 DEF SerialInv, IdentityTypeOK, StepHeld
<1>4. used = {} /\ State.journal = Absent
  BY <1>1, <1>3 DEF SerialInv, InstallHeld, DiskHeld
<1>5. x \in StateDirs /\ x.card = new[c] /\ x.journal = Absent /\ ~x.config
  BY <1>1, <1>3, <1>4 DEF DiskHeld, StateDirs
<1>6. PutSynced("state", x)
  BY DEF InstallCard
<1> HIDE DEF x
<1>7. DiskOK' /\ SameKeys /\ State' = x /\ Rests("state")' = {x}
  BY <1>1, <1>5, <1>6, PutSyncedState DEF SerialInv
<1>8. PairsHeld(c)' /\ JournalHeld(c)' /\ UsedHeld'
  BY <1>1, <1>3, <1>4, <1>5, <1>7 DEF PairsHeld, Paired, JournalHeld, UsedHeld, SameKeys
<1>9. InstallHeld'
  BY <1>1, <1>4, <1>5, <1>7 DEF SerialInv, InstallHeld, SameKeys
<1>10. AnnouncedHeld'
  BY <1>1, <1>4, <1>5, <1>7 DEF SerialInv, AnnouncedHeld, Announced, SameKeys
<1>11. StepHeld(c)'
  BY <1>1, <1>2, <1>3, <1>5, <1>7 DEF SerialInv, Moves, StepHeld, Unjournaled, Redoing,
     Journaled
<1>12. RotationHeld(c)' /\ RedoHeld(c)'
  BY <1>1, <1>2 DEF SerialInv, Moves, RotationHeld, RedoHeld, Fresh, Staging, Publishing
<1>13. QED
  BY <1>7, <1>8, <1>9, <1>10, <1>11, <1>12 DEF Held

\* The config is written after the pair is there.
LEMMA InstallConfigHeld ==
    ASSUME NEW c \in Commands, SerialInv(c), InstallConfig(c)
    PROVE  Held(c)' /\ DiskOK'
<1> DEFINE x == [State EXCEPT !.config = TRUE]
<1>1. DiskHeld /\ LossesKept /\ UNCHANGED <<seen, new, journal, told, issued, used, left>>
  BY DiskTypes DEF SerialInv, InstallConfig, LossesKept
<1>2. pc[c] = "installConfig" /\ Moves(c, "installDb")
  BY DEF SerialInv, IdentityTypeOK, InstallConfig, Goto, Moves
<1>3. ~State.config /\ issued > 0
  BY <1>2 DEF SerialInv, StepHeld
<1>4. used = {} /\ State.journal = Absent
  BY <1>1, <1>3 DEF SerialInv, InstallHeld, DiskHeld
<1>5. \A k \in Rests("keys") : k.seed = State.card
  BY <1>1, <1>2, <1>4 DEF SerialInv, PairsHeld, Paired, DiskHeld
<1>6. x \in StateDirs /\ x.card = State.card /\ x.journal = Absent /\ x.config
  BY <1>1, <1>4 DEF DiskHeld, StateDirs
<1>7. PutSynced("state", x)
  BY DEF InstallConfig
<1> HIDE DEF x
<1>8. DiskOK' /\ SameKeys /\ State' = x /\ Rests("state")' = {x}
  BY <1>1, <1>6, <1>7, PutSyncedState DEF SerialInv
<1>9. PairsHeld(c)' /\ JournalHeld(c)' /\ UsedHeld'
  BY <1>1, <1>4, <1>5, <1>6, <1>8 DEF PairsHeld, Paired, JournalHeld, UsedHeld, SameKeys
<1>10. InstallHeld'
  BY <1>1, <1>3, <1>6, <1>8 DEF SerialInv, InstallHeld, SameKeys
<1>11. AnnouncedHeld'
  BY <1>1, <1>4, <1>6, <1>8 DEF SerialInv, AnnouncedHeld, Announced, SameKeys
<1>12. StepHeld(c)'
  BY <1>1, <1>2, <1>6, <1>8 DEF SerialInv, Moves, StepHeld, Unjournaled, Redoing, Journaled
<1>13. RotationHeld(c)' /\ RedoHeld(c)'
  BY <1>1, <1>2 DEF SerialInv, Moves, RotationHeld, RedoHeld, Fresh, Staging, Publishing
<1>14. QED
  BY <1>8, <1>9, <1>10, <1>11, <1>12, <1>13 DEF Held

\* The database comes last.
LEMMA InstallDbHeld ==
    ASSUME NEW c \in Commands, SerialInv(c), InstallDb(c)
    PROVE  Held(c)' /\ DiskOK'
<1> DEFINE x == [State EXCEPT !.db = TRUE]
<1>1. DiskHeld /\ LossesKept /\ UNCHANGED <<seen, new, journal, told, issued, used, left>>
  BY DiskTypes DEF SerialInv, InstallDb, LossesKept
<1>2. pc[c] = "installDb" /\ Moves(c, "idle") /\ State.config
  BY DEF SerialInv, IdentityTypeOK, StepHeld, InstallDb, Goto, Moves
<1>3. /\ x \in StateDirs /\ x.card = State.card /\ x.staged = State.staged
      /\ x.journal = State.journal /\ x.config = State.config
  BY <1>1 DEF DiskHeld, StateDirs
<1>4. PutSynced("state", x)
  BY DEF InstallDb
<1> HIDE DEF x
<1>5. DiskOK' /\ SameKeys /\ State' = x /\ Rests("state")' = {x}
  BY <1>1, <1>3, <1>4, PutSyncedState DEF SerialInv
<1>6. PairsHeld(c)'
  BY <1>1, <1>2, <1>3, <1>5 DEF SerialInv, PairsHeld, Paired, SameKeys, DiskHeld
<1>7. JournalHeld(c)'
  BY <1>5 DEF JournalHeld
<1>8. UsedHeld'
  <2>1. \A k : Redriven(k, x).seed = Redriven(k, State).seed
    BY <1>3 DEF Redriven
  <2>2. QED
    BY <1>1, <1>5, <2>1 DEF SerialInv, UsedHeld, SameKeys, DiskHeld
<1>9. InstallHeld'
  BY <1>1, <1>2, <1>3, <1>5 DEF SerialInv, InstallHeld, SameKeys
<1>10. AnnouncedHeld'
  BY <1>1, <1>3, <1>5 DEF SerialInv, AnnouncedHeld, Announced, SameKeys, DiskHeld
<1>11. StepHeld(c)'
  BY <1>2 DEF SerialInv, Moves, StepHeld, Unjournaled, Redoing, Journaled
<1>12. RotationHeld(c)' /\ RedoHeld(c)'
  BY <1>1, <1>2 DEF SerialInv, Moves, RotationHeld, RedoHeld, Fresh, Staging, Publishing
<1>13. QED
  BY <1>5, <1>6, <1>7, <1>8, <1>9, <1>10, <1>11, <1>12 DEF Held

-----------------------------------------------------------------------------
\* A power loss leaves one of the possible contents of each directory, durable.
LEMMA PowerLossHeld ==
    ASSUME NEW c \in Commands, SerialInv(c), PowerLoss
    PROVE  Held(c)' /\ DiskOK'
<1>1. DiskHeld /\ left.losses > 0 /\ UNCHANGED <<seen, new, journal, told, issued, used>>
  BY DiskTypes DEF SerialInv, PowerLoss, Spend
<1>2. \A p \in Commands : pc'[p] = "idle"
  BY DEF PowerLoss
<1>3. PICK rest \in AfterLoss : disk' = [d \in Dirs |-> <<rest[d]>>]
  BY DEF PowerLoss
<1>4. PICK k \in ToSet(disk["keys"]), s \in ToSet(disk["state"]) :
          rest = [keys |-> k, state |-> s]
  BY DEF AfterLoss
<1>5. k \in Rests("keys") /\ s \in Rests("state") /\ k \in KeyDirs /\ s \in StateDirs
  BY <1>1 DEF Rests, DiskHeld
<1>6. DOMAIN disk' = Dirs /\ disk'["keys"] = <<k>> /\ disk'["state"] = <<s>>
  BY <1>3, <1>4 DEF Dirs
<1>7. DiskOK'
  BY <1>5, <1>6 DEF DiskOK
<1>8. \A x : Last(<<x>>) = x /\ ToSet(<<x>>) = {x}
  BY DEF Last, ToSet
<1>9. Keys' = k /\ State' = s /\ Rests("keys")' = {k} /\ Rests("state")' = {s}
  BY <1>6, <1>8 DEF Keys, State, Now, Rests
<1>10. s.config = State.config
  BY <1>5 DEF SerialInv, InstallHeld
<1>11. PairsHeld(c)' /\ JournalHeld(c)' /\ UsedHeld'
  BY <1>1, <1>2, <1>5, <1>9, <1>10 DEF SerialInv, PairsHeld, JournalHeld, UsedHeld
<1>12. InstallHeld'
  BY <1>1, <1>5, <1>9, <1>10 DEF SerialInv, InstallHeld
<1>13. AnnouncedHeld'
  BY <1>1, <1>5, <1>9 DEF SerialInv, AnnouncedHeld, Announced
<1>14. StepHeld(c)'
  BY <1>2 DEF StepHeld, Unjournaled, Redoing, Journaled
<1>15. RotationHeld(c)' /\ RedoHeld(c)'
  BY <1>1, <1>2 DEF SerialInv, RotationHeld, RedoHeld, Fresh, Staging, Publishing
<1>16. QED
  BY <1>7, <1>11, <1>12, <1>13, <1>14, <1>15 DEF Held

\* The handler removes what the rotation staged, before any journal names it.
LEMMA ClearedHeld ==
    ASSUME NEW c \in Commands, SerialInv(c), LossesKept, Abort(c),
           pc[c] \in Staging \ {"syncJournal"}
    PROVE  Held(c)' /\ DiskOK'
<1> DEFINE n == new[c]
           x == IF n \in Keys.staged THEN [Keys EXCEPT !.staged = @ \ {n}] ELSE Keys
           y == IF n \in State.staged THEN [State EXCEPT !.staged = @ \ {n}] ELSE State
<1>1. DiskHeld /\ UNCHANGED <<seen, new, journal, told, issued, used>>
  BY DiskTypes DEF SerialInv, Abort
<1>2. Moves(c, "idle")
  BY DEF SerialInv, IdentityTypeOK, Abort, Moves
<1>3. State.config /\ State.journal = Absent /\ \A s \in Rests("state") : s.journal # n
  BY DEF SerialInv, StepHeld, RotationHeld, Staging, Unjournaled, Fresh
<1>4. /\ x \in KeyDirs /\ x.seed = Keys.seed /\ x.backups = Keys.backups
      /\ \A j : j # n => (j \in x.staged <=> j \in Keys.staged)
  BY <1>1 DEF DiskHeld, KeyDirs
<1>5. /\ y \in StateDirs /\ y.card = State.card /\ y.journal = Absent /\ y.config = State.config
  BY <1>1, <1>3 DEF DiskHeld, StateDirs
<1>6. /\ DOMAIN disk' = Dirs
      /\ disk'["keys"] = IF n \in Keys.staged THEN Append(disk["keys"], x) ELSE disk["keys"]
      /\ disk'["state"] = IF n \in State.staged THEN Append(disk["state"], y) ELSE disk["state"]
  BY DEF Abort, Cleared, Dirs, Staging, Keys, State
<1>7. Keys = Last(disk["keys"]) /\ State = Last(disk["state"])
  BY DEF Keys, State, Now
<1>8. disk["keys"] \in Seq(KeyDirs) \ {<<>>} /\ disk["state"] \in Seq(StateDirs) \ {<<>>}
  BY DEF SerialInv, IdentityTypeOK
<1>9. x = Keys \/ n \in Keys.staged
  OBVIOUS
<1>10. y = State \/ n \in State.staged
  OBVIOUS
<1> HIDE DEF x, y, n
<1>11. /\ disk'["keys"] \in Seq(KeyDirs) \ {<<>>} /\ Last(disk'["keys"]) = x
       /\ ToSet(disk'["keys"]) \subseteq ToSet(disk["keys"]) \cup {x}
  <2>1. CASE n \in Keys.staged
    <3>1. disk'["keys"] = Append(disk["keys"], x)
      BY <1>6, <2>1
    <3>2. ToSet(disk'["keys"]) = ToSet(disk["keys"]) \cup {x}
      BY <1>4, <1>8, <3>1, Appended
    <3>3. QED
      BY <1>4, <1>8, <3>1, <3>2 DEF Last
  <2>2. CASE n \notin Keys.staged
    BY <1>6, <1>7, <1>8, <1>9, <2>2
  <2>3. QED
    BY <2>1, <2>2
<1>12. /\ disk'["state"] \in Seq(StateDirs) \ {<<>>} /\ Last(disk'["state"]) = y
       /\ ToSet(disk'["state"]) \subseteq ToSet(disk["state"]) \cup {y}
  <2>1. CASE n \in State.staged
    <3>1. disk'["state"] = Append(disk["state"], y)
      BY <1>6, <2>1
    <3>2. ToSet(disk'["state"]) = ToSet(disk["state"]) \cup {y}
      BY <1>5, <1>8, <3>1, Appended
    <3>3. QED
      BY <1>5, <1>8, <3>1, <3>2 DEF Last
  <2>2. CASE n \notin State.staged
    BY <1>6, <1>7, <1>8, <1>10, <2>2
  <2>3. QED
    BY <2>1, <2>2
<1>13. /\ DiskOK' /\ Keys' = x /\ State' = y
       /\ Rests("keys")' \subseteq Rests("keys") \cup {x}
       /\ Rests("state")' \subseteq Rests("state") \cup {y}
  BY <1>6, <1>11, <1>12 DEF DiskOK, Keys, State, Now, Rests, LossesKept
<1>14. \A i : Announced(i)' = Announced(i)
  BY <1>1 DEF Announced
<1>15. PairsHeld(c)'
  BY <1>1, <1>3, <1>4, <1>5, <1>13 DEF SerialInv, PairsHeld, Paired, DiskHeld
<1>16. InstallHeld'
  BY <1>1, <1>3, <1>4, <1>5, <1>13 DEF SerialInv, InstallHeld, DiskHeld
<1>17. AnnouncedHeld'
  BY <1>1, <1>4, <1>5, <1>13, <1>14 DEF SerialInv, AnnouncedHeld, DiskHeld
<1>18. JournalHeld(c)'
  BY <1>3, <1>4, <1>5, <1>13 DEF SerialInv, JournalHeld
<1>19. UsedHeld'
  <2>1. \A k \in Rests("keys") : used \subseteq k.backups
    BY DEF SerialInv, RotationHeld, Staging, Publishing
  <2>2. QED
    BY <1>1, <1>4, <1>13, <2>1 DEF UsedHeld, DiskHeld
<1>20. StepHeld(c)'
  BY <1>2 DEF SerialInv, Moves, StepHeld, Unjournaled, Redoing, Journaled
<1>21. RotationHeld(c)' /\ RedoHeld(c)'
  BY <1>1, <1>2 DEF SerialInv, Moves, RotationHeld, RedoHeld, Fresh, Staging, Publishing
<1>22. QED
  BY <1>13, <1>15, <1>16, <1>17, <1>18, <1>19, <1>20, <1>21 DEF Held

\* The handler, wherever the publish failed.
LEMMA AbortHeld ==
    ASSUME NEW c \in Commands, SerialInv(c), LossesKept, Abort(c),
           pc[c] \in {"backUp"} \cup Staging \cup Publishing, pc[c] # "syncJournal"
    PROVE  Held(c)' /\ DiskOK'
<1>1. CASE pc[c] \in Staging
  BY <1>1, ClearedHeld
<1>2. CASE pc[c] \notin Staging
  <2>1. /\ DOMAIN disk' = Dirs /\ disk'["keys"] = disk["keys"]
        /\ disk'["state"] = disk["state"]
    BY <1>2 DEF Abort, Cleared, Dirs
  <2>2. Moves(c, "idle") /\ UNCHANGED <<seen, new, journal, told, issued, used>>
    BY DEF SerialInv, IdentityTypeOK, Abort, Moves
  <2>3. DiskOK' /\ SameKeys /\ SameState
    BY <2>1 DEF SerialInv, IdentityTypeOK, DiskOK, SameKeys, SameState, Keys, State, Now,
       Rests, LossesKept
  <2>4. QED
    BY <2>2, <2>3, EndHeld
<1>3. QED
  BY <1>1, <1>2

-----------------------------------------------------------------------------
TypesHeld ==
    /\ DOMAIN pc = Commands
    /\ seen \in [Commands -> Nat] /\ new \in [Commands -> Nat] /\ journal \in [Commands -> Nat]
    /\ issued \in Nat
    /\ left \in ScenarioType

Stays(c) == Held(c)' /\ DiskOK' /\ TypesHeld' /\ Serial(c)'

\* What goes wrong is counted down and the scenario stays.
LEMMA Spent ==
    ASSUME NEW c, Serial(c), left \in ScenarioType, NEW what \in {"faults", "kills", "losses"},
           Spend(what)
    PROVE  /\ left' \in ScenarioType /\ Serial(c)' /\ left[what] > 0
           /\ what # "losses" => LossesKept
<1>1. left[what] \in Nat /\ left[what] > 0
  BY DEF ScenarioType, Spend
<1>2. left' = [left EXCEPT ![what] = left[what] - 1]
  BY DEF Spend
<1>3. CASE what = "faults"
  <2>1. left' = [left EXCEPT !["faults"] = left["faults"] - 1] /\ left["faults"] - 1 \in Nat
    BY <1>1, <1>2, <1>3
  <2>2. left' \in ScenarioType
    BY <2>1 DEF ScenarioType
  <2>3. left'.commands = left.commands /\ left'.kills = left.kills /\ left'.losses = left.losses
    BY <2>1 DEF ScenarioType
  <2>4. left.faults > 0
    BY <1>1, <1>3
  <2>5. Serial(c)'
    BY <2>3, <2>4 DEF Serial
  <2>6. QED
    BY <1>1, <1>3, <2>2, <2>3, <2>5 DEF LossesKept
<1>4. CASE what = "kills"
  <2>1. left' = [left EXCEPT !["kills"] = left["kills"] - 1] /\ left["kills"] - 1 \in Nat
    BY <1>1, <1>2, <1>4
  <2>2. left' \in ScenarioType
    BY <2>1 DEF ScenarioType
  <2>3. left'.commands = left.commands /\ left'.faults = left.faults /\ left'.losses = left.losses
    BY <2>1 DEF ScenarioType
  <2>4. left.kills > 0
    BY <1>1, <1>4
  <2>5. Serial(c)'
    BY <2>3, <2>4 DEF Serial
  <2>6. QED
    BY <1>1, <1>4, <2>2, <2>3, <2>5 DEF LossesKept
<1>5. CASE what = "losses"
  <2>1. left' = [left EXCEPT !["losses"] = left["losses"] - 1] /\ left["losses"] - 1 \in Nat
    BY <1>1, <1>2, <1>5
  <2>2. left' \in ScenarioType
    BY <2>1 DEF ScenarioType
  <2>3. left'.commands = left.commands /\ left'.faults = left.faults /\ left'.kills = left.kills
    BY <2>1 DEF ScenarioType
  <2>4. left.losses > 0
    BY <1>1, <1>5
  <2>5. Serial(c)'
    BY <2>3, <2>4 DEF Serial
  <2>6. QED
    BY <1>1, <1>5, <2>2, <2>3, <2>5 DEF LossesKept
<1>6. QED
  BY <1>3, <1>4, <1>5

\* What a command does that touches no file.
LEMMA QuietStays ==
    ASSUME NEW c \in Commands, SerialInv(c),
           \/ Load(c) \/ ReadJournal(c) \/ ReadSeed(c) \/ ReadCard(c) \/ Finish(c) \/ Rotate(c)
           \/ (\E r \in Peers : Notify(c, r)) \/ AllNotified(c) \/ SaveAnnouncement(c)
    PROVE  Stays(c)
<1>1. disk' = disk /\ left' = left
  BY DEF Load, ReadJournal, ReadSeed, ReadCard, Finish, Rotate, Notify, AllNotified,
     SaveAnnouncement
<1>2. DiskOK' /\ SameKeys /\ SameState /\ DiskHeld
  BY <1>1, DiskTypes, Untouched DEF SerialInv, LossesKept
<1>3. Serial(c)'
  BY <1>1 DEF SerialInv, Serial
<1>4. Keys.seed \in Nat /\ State.journal \in Nat /\ Absent \in Nat
  BY <1>2 DEF DiskHeld, KeyDirs, StateDirs, Absent
<1>5. CASE Load(c)
  <2>1. TypesHeld'
    BY <1>4, <1>5 DEF SerialInv, IdentityTypeOK, TypesHeld, Load, Goto
  <2>2. QED
    BY <1>2, <1>3, <1>5, <2>1, LoadHeld DEF Stays
<1>6. CASE ReadJournal(c)
  <2>1. TypesHeld'
    BY <1>4, <1>6 DEF SerialInv, IdentityTypeOK, TypesHeld, ReadJournal, Goto
  <2>2. QED
    BY <1>2, <1>3, <1>6, <2>1, ReadJournalHeld DEF Stays
<1>7. CASE ReadSeed(c)
  <2>1. TypesHeld'
    BY <1>4, <1>7 DEF SerialInv, IdentityTypeOK, TypesHeld, ReadSeed, Goto
  <2>2. QED
    BY <1>2, <1>3, <1>7, <2>1, ReadSeedHeld DEF Stays
<1>8. CASE ReadCard(c)
  <2>1. TypesHeld'
    BY <1>4, <1>8 DEF SerialInv, IdentityTypeOK, TypesHeld, ReadCard, Goto
  <2>2. QED
    BY <1>2, <1>3, <1>8, <2>1, ReadCardHeld DEF Stays
<1>9. CASE Rotate(c)
  <2>1. TypesHeld'
    BY <1>4, <1>9 DEF SerialInv, IdentityTypeOK, TypesHeld, Rotate, Goto
  <2>2. QED
    BY <1>2, <1>3, <1>9, <2>1, RotateHeld DEF Stays
<1>10. CASE AllNotified(c)
  <2>1. TypesHeld'
    BY <1>4, <1>10 DEF SerialInv, IdentityTypeOK, TypesHeld, AllNotified, Goto
  <2>2. QED
    BY <1>2, <1>3, <1>10, <2>1, AllNotifiedHeld DEF Stays
<1>11. CASE \E r \in Peers : Notify(c, r)
  <2>1. PICK r \in Peers : Notify(c, r)
    BY <1>11
  <2>2. TypesHeld'
    BY <2>1 DEF SerialInv, IdentityTypeOK, TypesHeld, Notify
  <2>3. QED
    BY <1>2, <1>3, <2>1, <2>2, NotifyHeld DEF Stays
<1>12. CASE Finish(c) \/ SaveAnnouncement(c)
  <2>1. /\ pc[c] \in {"ready", "announce"} /\ pc' = [pc EXCEPT ![c] = "idle"]
        /\ UNCHANGED <<seen, new, journal, told, issued, used, left>>
    BY <1>12 DEF Finish, SaveAnnouncement, Goto
  <2>2. Moves(c, "idle") /\ pc[c] # "syncJournal"
    BY <2>1 DEF SerialInv, IdentityTypeOK, Moves
  <2>3. TypesHeld'
    BY <2>1 DEF SerialInv, IdentityTypeOK, TypesHeld
  <2>4. QED
    BY <1>2, <1>3, <2>1, <2>2, <2>3, EndHeld DEF Stays
<1>13. QED
  BY <1>5, <1>6, <1>7, <1>8, <1>9, <1>10, <1>11, <1>12

\* The installation, the recovery and the backup.
LEMMA WritesStay ==
    ASSUME NEW c \in Commands, SerialInv(c),
           \/ InstallSeed(c) \/ InstallCard(c) \/ InstallConfig(c) \/ InstallDb(c)
           \/ RedoSeed(c) \/ RedoCard(c) \/ RedoSync(c) \/ RedoUnlink(c) \/ RedoDone(c)
           \/ BackUp(c)
    PROVE  Stays(c)
<1>1. CASE InstallSeed(c)
  <2>1. TypesHeld' /\ left' = left
    BY <1>1 DEF SerialInv, IdentityTypeOK, TypesHeld, InstallSeed, Goto
  <2>2. Serial(c)'
    BY <2>1 DEF SerialInv, Serial
  <2>3. QED
    BY <1>1, <2>1, <2>2, InstallSeedHeld DEF Stays
<1>2. CASE InstallCard(c)
  <2>1. TypesHeld' /\ left' = left
    BY <1>2 DEF SerialInv, IdentityTypeOK, TypesHeld, InstallCard, Goto
  <2>2. Serial(c)'
    BY <2>1 DEF SerialInv, Serial
  <2>3. QED
    BY <1>2, <2>1, <2>2, InstallCardHeld DEF Stays
<1>3. CASE InstallConfig(c)
  <2>1. TypesHeld' /\ left' = left
    BY <1>3 DEF SerialInv, IdentityTypeOK, TypesHeld, InstallConfig, Goto
  <2>2. Serial(c)'
    BY <2>1 DEF SerialInv, Serial
  <2>3. QED
    BY <1>3, <2>1, <2>2, InstallConfigHeld DEF Stays
<1>4. CASE InstallDb(c)
  <2>1. TypesHeld' /\ left' = left
    BY <1>4 DEF SerialInv, IdentityTypeOK, TypesHeld, InstallDb, Goto
  <2>2. Serial(c)'
    BY <2>1 DEF SerialInv, Serial
  <2>3. QED
    BY <1>4, <2>1, <2>2, InstallDbHeld DEF Stays
<1>5. CASE RedoSeed(c)
  <2>1. TypesHeld' /\ left' = left
    BY <1>5 DEF SerialInv, IdentityTypeOK, TypesHeld, RedoSeed, Goto
  <2>2. Serial(c)'
    BY <2>1 DEF SerialInv, Serial
  <2>3. QED
    BY <1>5, <2>1, <2>2, RedoSeedHeld DEF Stays
<1>6. CASE RedoCard(c)
  <2>1. TypesHeld' /\ left' = left
    BY <1>6 DEF SerialInv, IdentityTypeOK, TypesHeld, RedoCard, Goto
  <2>2. Serial(c)'
    BY <2>1 DEF SerialInv, Serial
  <2>3. QED
    BY <1>6, <2>1, <2>2, RedoCardHeld DEF Stays
<1>7. CASE RedoSync(c)
  <2>1. TypesHeld' /\ left' = left
    BY <1>7 DEF SerialInv, IdentityTypeOK, TypesHeld, RedoSync, Goto
  <2>2. Serial(c)'
    BY <2>1 DEF SerialInv, Serial
  <2>3. QED
    BY <1>7, <2>1, <2>2, RedoSyncHeld DEF Stays
<1>8. CASE RedoUnlink(c)
  <2>1. TypesHeld' /\ left' = left
    BY <1>8 DEF SerialInv, IdentityTypeOK, TypesHeld, RedoUnlink, Goto
  <2>2. Serial(c)'
    BY <2>1 DEF SerialInv, Serial
  <2>3. QED
    BY <1>8, <2>1, <2>2, RedoUnlinkHeld DEF Stays
<1>9. CASE RedoDone(c)
  <2>1. TypesHeld' /\ left' = left
    BY <1>9 DEF SerialInv, IdentityTypeOK, TypesHeld, RedoDone, Goto
  <2>2. Serial(c)'
    BY <2>1 DEF SerialInv, Serial
  <2>3. QED
    BY <1>9, <2>1, <2>2, RedoDoneHeld DEF Stays
<1>10. CASE BackUp(c)
  <2>1. TypesHeld' /\ left' = left
    BY <1>10 DEF SerialInv, IdentityTypeOK, TypesHeld, BackUp, Goto
  <2>2. Serial(c)'
    BY <2>1 DEF SerialInv, Serial
  <2>3. QED
    BY <1>10, <2>1, <2>2, BackUpHeld DEF Stays
<1>11. QED
  BY <1>1, <1>2, <1>3, <1>4, <1>5, <1>6, <1>7, <1>8, <1>9, <1>10

\* atomic_write_pair.
LEMMA PublishStays ==
    ASSUME NEW c \in Commands, SerialInv(c), Publish(c)
    PROVE  Stays(c)
<1>1. CASE StageSeed(c)
  <2>1. TypesHeld' /\ left' = left
    BY <1>1 DEF SerialInv, IdentityTypeOK, TypesHeld, StageSeed, Goto
  <2>2. Serial(c)'
    BY <2>1 DEF SerialInv, Serial
  <2>3. QED
    BY <1>1, <2>1, <2>2, StageSeedHeld DEF Stays
<1>2. CASE StageCard(c)
  <2>1. TypesHeld' /\ left' = left
    BY <1>2 DEF SerialInv, IdentityTypeOK, TypesHeld, StageCard, Goto
  <2>2. Serial(c)'
    BY <2>1 DEF SerialInv, Serial
  <2>3. QED
    BY <1>2, <2>1, <2>2, StageCardHeld DEF Stays
<1>3. CASE SyncStaged(c)
  <2>1. TypesHeld' /\ left' = left
    BY <1>3 DEF SerialInv, IdentityTypeOK, TypesHeld, SyncStaged, Goto
  <2>2. Serial(c)'
    BY <2>1 DEF SerialInv, Serial
  <2>3. QED
    BY <1>3, <2>1, <2>2, SyncStagedHeld DEF Stays
<1>4. CASE WriteJournal(c)
  <2>1. TypesHeld' /\ left' = left
    BY <1>4 DEF SerialInv, IdentityTypeOK, TypesHeld, WriteJournal, Goto
  <2>2. Serial(c)'
    BY <2>1 DEF SerialInv, Serial
  <2>3. QED
    BY <1>4, <2>1, <2>2, WriteJournalHeld DEF Stays
<1>5. CASE SyncJournal(c)
  <2>1. TypesHeld' /\ left' = left
    BY <1>5 DEF SerialInv, IdentityTypeOK, TypesHeld, SyncJournal, Goto
  <2>2. Serial(c)'
    BY <2>1 DEF SerialInv, Serial
  <2>3. QED
    BY <1>5, <2>1, <2>2, SyncJournalHeld DEF Stays
<1>6. CASE PublishSeed(c)
  <2>1. TypesHeld' /\ left' = left
    BY <1>6 DEF SerialInv, IdentityTypeOK, TypesHeld, PublishSeed, Goto
  <2>2. Serial(c)'
    BY <2>1 DEF SerialInv, Serial
  <2>3. QED
    BY <1>6, <2>1, <2>2, PublishSeedHeld DEF Stays
<1>7. CASE PublishCard(c)
  <2>1. TypesHeld' /\ left' = left
    BY <1>7 DEF SerialInv, IdentityTypeOK, TypesHeld, PublishCard, Goto
  <2>2. Serial(c)'
    BY <2>1 DEF SerialInv, Serial
  <2>3. QED
    BY <1>7, <2>1, <2>2, PublishCardHeld DEF Stays
<1>8. CASE SyncPair(c)
  <2>1. TypesHeld' /\ left' = left
    BY <1>8 DEF SerialInv, IdentityTypeOK, TypesHeld, SyncPair, Goto
  <2>2. Serial(c)'
    BY <2>1 DEF SerialInv, Serial
  <2>3. QED
    BY <1>8, <2>1, <2>2, SyncPairHeld DEF Stays
<1>9. CASE DropJournal(c)
  <2>1. TypesHeld' /\ left' = left
    BY <1>9 DEF SerialInv, IdentityTypeOK, TypesHeld, DropJournal, Goto
  <2>2. Serial(c)'
    BY <2>1 DEF SerialInv, Serial
  <2>3. QED
    BY <1>9, <2>1, <2>2, DropJournalHeld DEF Stays
<1>10. CASE SyncDropped(c)
  <2>1. TypesHeld' /\ left' = left
    BY <1>10 DEF SerialInv, IdentityTypeOK, TypesHeld, SyncDropped, Goto
  <2>2. Serial(c)'
    BY <2>1 DEF SerialInv, Serial
  <2>3. QED
    BY <1>10, <2>1, <2>2, SyncDroppedHeld DEF Stays
<1>11. QED
  BY <1>1, <1>2, <1>3, <1>4, <1>5, <1>6, <1>7, <1>8, <1>9, <1>10 DEF Publish

\* What ends a command early.
LEMMA FailuresStay ==
    ASSUME NEW c \in Commands, SerialInv(c),
           FileTaken(c) \/ NotifyFails(c) \/ Refused(c) \/ Kill(c)
    PROVE  Stays(c)
<1>1. Serial(c) /\ left \in ScenarioType /\ IdentityTypeOK
  BY DEF SerialInv, IdentityTypeOK
<1>2. CASE FileTaken(c)
  <2>1. Abort(c) /\ left' = left /\ pc[c] \in Publishing /\ pc[c] # "syncJournal"
    BY <1>2 DEF FileTaken, Missing, Publishing
  <2>2. LossesKept /\ Serial(c)' /\ left' \in ScenarioType
    BY <1>1, <2>1 DEF LossesKept, Serial
  <2>3. Held(c)' /\ DiskOK'
    BY <2>1, <2>2, AbortHeld
  <2>4. QED
    BY <1>1, <2>1, <2>2, <2>3 DEF Stays, TypesHeld, Abort, IdentityTypeOK
<1>3. CASE Refused(c)
  <2>1. Spend("faults") /\ Abort(c) /\ pc[c] \in FailPoints
    BY <1>3 DEF Refused
  <2>2. pc[c] \in {"backUp"} \cup Staging \cup Publishing /\ pc[c] # "syncJournal"
    BY <1>1, <1>3 DEF Refused, Serial
  <2>3. LossesKept /\ Serial(c)' /\ left' \in ScenarioType
    BY <1>1, <2>1, Spent
  <2>4. Held(c)' /\ DiskOK'
    BY <2>1, <2>2, <2>3, AbortHeld
  <2>5. QED
    BY <1>1, <2>1, <2>3, <2>4 DEF Stays, TypesHeld, Abort, IdentityTypeOK
<1>4. CASE NotifyFails(c) \/ Kill(c)
  <2>1. /\ disk' = disk /\ Moves(c, "idle") /\ DOMAIN pc' = Commands
        /\ UNCHANGED <<seen, new, journal, told, issued, used>>
    BY <1>1, <1>4 DEF NotifyFails, Kill, Goto, Moves, IdentityTypeOK
  <2>2. (Spend("faults") /\ pc[c] # "syncJournal") \/ Spend("kills")
    BY <1>4 DEF NotifyFails, Kill, Goto
  <2>3. LossesKept /\ Serial(c)' /\ left' \in ScenarioType
    BY <1>1, <2>2, Spent
  <2>4. pc[c] = "syncJournal" => left.losses = 0
    <3>1. Spend("kills") => left.kills > 0
      BY DEF Spend
    <3>2. QED
      BY <1>1, <2>2, <3>1 DEF Serial
  <2>5. DiskOK' /\ SameKeys /\ SameState
    BY <1>1, <2>1, <2>3, Untouched
  <2>6. Held(c)'
    BY <2>1, <2>4, <2>5, EndHeld
  <2>7. QED
    BY <1>1, <2>1, <2>3, <2>5, <2>6 DEF Stays, TypesHeld, IdentityTypeOK
<1>5. QED
  BY <1>2, <1>3, <1>4

\* Every step keeps the invariant.
LEMMA SerialStep ==
    ASSUME NEW c \in Commands, SerialInv(c), [Next]_vars
    PROVE  SerialInv(c)'
<1>1. SUFFICES Stays(c)
  BY DEF Stays, Held, DiskOK, TypesHeld, SerialInv, IdentityTypeOK
<1>2. CASE PowerLoss
  <2>1. Serial(c)' /\ left' \in ScenarioType
    BY <1>2, Spent DEF SerialInv, IdentityTypeOK, PowerLoss
  <2>2. TypesHeld'
    BY <1>2, <2>1 DEF SerialInv, IdentityTypeOK, TypesHeld, PowerLoss
  <2>3. QED
    BY <1>2, <2>1, <2>2, PowerLossHeld DEF Stays
<1>3. CASE \E p \in left.commands : Proceed(p) \/ NotifyFails(p) \/ Refused(p) \/ Kill(p)
  <2>1. Proceed(c) \/ NotifyFails(c) \/ Refused(c) \/ Kill(c)
    BY <1>3 DEF SerialInv, Serial
  <2>2. QED
    BY <2>1, QuietStays, WritesStay, PublishStays, FailuresStay DEF Proceed, Recover
<1>4. CASE UNCHANGED vars
  <2>1. DiskOK' /\ SameKeys /\ SameState
    BY <1>4, Untouched DEF SerialInv, LossesKept, vars
  <2>2. TypesHeld' /\ Serial(c)'
    BY <1>4 DEF SerialInv, IdentityTypeOK, TypesHeld, Serial, vars
  <2>3. UNCHANGED <<pc, seen, new, journal, told, issued, used>>
    BY <1>4 DEF vars
  <2>4. PairsHeld(c)' /\ InstallHeld' /\ JournalHeld(c)' /\ UsedHeld'
    BY <2>1, <2>3 DEF SerialInv, PairsHeld, InstallHeld, JournalHeld, UsedHeld, SameKeys,
       SameState
  <2>5. AnnouncedHeld'
    BY <2>1, <2>3 DEF SerialInv, AnnouncedHeld, Announced, SameKeys, SameState
  <2>6. StepHeld(c)'
    BY <2>1, <2>3 DEF SerialInv, StepHeld, SameKeys, SameState
  <2>7. RotationHeld(c)'
    BY <2>1, <2>3 DEF SerialInv, RotationHeld, Announced, SameKeys, SameState
  <2>8. RedoHeld(c)'
    BY <2>1, <2>3 DEF SerialInv, RedoHeld, SameKeys, SameState
  <2>9. QED
    BY <2>1, <2>2, <2>4, <2>5, <2>6, <2>7, <2>8 DEF Stays, Held
<1>5. QED
  BY <1>2, <1>3, <1>4 DEF Next

\* It holds of the empty directories.
LEMMA SerialInit ==
    ASSUME NEW c \in Commands, Init, Serial(c)
    PROVE  SerialInv(c)
<1>1. IdentityTypeOK
  <2>1. left \in ScenarioType
    BY IdentityAssumption DEF Init
  <2>2. /\ DOMAIN disk = Dirs /\ disk["keys"] = <<[seed |-> 0, staged |-> {}, backups |-> {}]>>
        /\ disk["state"] = <<[card |-> 0, staged |-> {}, journal |-> 0,
                              config |-> FALSE, db |-> FALSE]>>
    BY DEF Init, Dirs, Absent
  <2>3. /\ [seed |-> 0, staged |-> {}, backups |-> {}] \in KeyDirs
        /\ [card |-> 0, staged |-> {}, journal |-> 0, config |-> FALSE, db |-> FALSE] \in StateDirs
    BY DEF KeyDirs, StateDirs
  <2>4. QED
    BY <2>1, <2>2, <2>3 DEF Init, IdentityTypeOK, Absent
<1>2. \A x : Last(<<x>>) = x /\ ToSet(<<x>>) = {x}
  BY DEF Last, ToSet
<1>3. /\ Keys = [seed |-> 0, staged |-> {}, backups |-> {}]
      /\ State = [card |-> 0, staged |-> {}, journal |-> 0, config |-> FALSE, db |-> FALSE]
      /\ Rests("keys") = {Keys} /\ Rests("state") = {State}
  BY <1>2 DEF Init, Keys, State, Now, Rests, Absent
<1>4. pc[c] = "idle" /\ used = {} /\ issued = 0 /\ Keys.seed = 0 /\ State.journal = 0
      /\ ~State.config
  BY <1>3 DEF Init
<1>5. PairsHeld(c) /\ InstallHeld
  BY <1>3, <1>4 DEF PairsHeld, InstallHeld, Absent
<1>6. AnnouncedHeld /\ JournalHeld(c) /\ UsedHeld
  BY <1>3, <1>4 DEF AnnouncedHeld, JournalHeld, UsedHeld, Absent
<1>7. StepHeld(c) /\ RotationHeld(c) /\ RedoHeld(c)
  BY <1>3 DEF Init, StepHeld, RotationHeld, RedoHeld, Unjournaled, Redoing, Journaled, Fresh,
     Staging, Publishing, Absent
<1>8. QED
  BY <1>1, <1>5, <1>6, <1>7 DEF SerialInv

\* What may be left if every command stops now.
LEMMA LeftoversAreRests ==
    ASSUME NEW rest \in Leftovers
    PROVE  rest.keys \in Rests("keys") /\ rest.state \in Rests("state")
BY DEF Leftovers, AfterLoss, Rests, Keys, State

\* Wherever commands that run one after the other are stopped, by a kill or a power loss
\* anywhere in `mas init`, atomic_write_pair or recover_pending_pair, the next start makes
\* the seed and the card one identity's again.
THEOREM SerialPairConverges ==
    ASSUME NEW c \in Commands
    PROVE  Spec /\ Serial(c) => []PairConverges
<1>1. Init /\ Serial(c) => SerialInv(c)
  BY SerialInit
<1>2. SerialInv(c) /\ [Next]_vars => SerialInv(c)'
  BY SerialStep
<1>3. SerialInv(c) => PairConverges
  <2>1. SUFFICES ASSUME SerialInv(c), State.config, NEW rest \in Leftovers
                 PROVE  Redriven(rest.keys, rest.state).seed = Redriven(rest.keys, rest.state).card
    BY DEF PairConverges
  <2>2. rest.keys \in Rests("keys") /\ rest.state \in Rests("state")
    BY LeftoversAreRests
  <2>3. \A k \in Rests("keys"), s \in Rests("state") : Paired(k, s)
    BY <2>1 DEF SerialInv, PairsHeld
  <2>4. Paired(rest.keys, rest.state)
    BY <2>2, <2>3
  <2>5. QED
    BY <2>4 DEF Paired, Redriven
<1>4. QED
  BY <1>1, <1>2, <1>3, PTL DEF Spec

\* And an identity some command ran under is in place after the next start or backed up,
\* with every peer told of it before.
THEOREM SerialUsedIsAccounted ==
    ASSUME NEW c \in Commands
    PROVE  Spec /\ Serial(c) => []UsedIsAccounted
<1>1. Init /\ Serial(c) => SerialInv(c)
  BY SerialInit
<1>2. SerialInv(c) /\ [Next]_vars => SerialInv(c)'
  BY SerialStep
<1>3. SerialInv(c) => UsedIsAccounted
  <2>1. SUFFICES ASSUME SerialInv(c), NEW i \in used
                 PROVE  /\ \A rest \in Leftovers : \/ i = Redriven(rest.keys, rest.state).seed
                                                   \/ i \in rest.keys.backups
                        /\ i # 1 => \A r \in Peers : <<r, i>> \in told
    BY DEF UsedIsAccounted
  <2>2. \A rest \in Leftovers : \/ i = Redriven(rest.keys, rest.state).seed
                                \/ i \in rest.keys.backups
    <3>1. \A k \in Rests("keys"), s \in Rests("state") :
              i = Redriven(k, s).seed \/ i \in k.backups
      BY <2>1 DEF SerialInv, UsedHeld
    <3>2. SUFFICES ASSUME NEW rest \in Leftovers
                   PROVE  i = Redriven(rest.keys, rest.state).seed \/ i \in rest.keys.backups
      OBVIOUS
    <3>3. rest.keys \in Rests("keys") /\ rest.state \in Rests("state")
      BY LeftoversAreRests
    <3>4. QED
      BY <3>1, <3>3
  <2>3. i # 1 => \A r \in Peers : <<r, i>> \in told
    <3>1. Announced(i)
      BY <2>1 DEF SerialInv, AnnouncedHeld
    <3>2. QED
      BY <3>1 DEF Announced
  <2>4. QED
    BY <2>2, <2>3
<1>4. QED
  BY <1>1, <1>2, <1>3, PTL DEF Spec

-----------------------------------------------------------------------------
(***************************************************************************)
(* Commands beside one another                                             *)
(***************************************************************************)

\* Any number of commands at once, with kills, and at most one rotation: a recovery that
\* lags behind would unlink the journal of the next one.  No power loss: a second command
\* may carry out a journal that is not durable.
OneRotation ==
    /\ left.identities <= 2 /\ left.losses = 0
    /\ "syncJournal" \notin FailPoints

\* The rotation is past its journal, or all carried out.
Done == Keys.seed = 2 /\ State.card = 2
Begun == State.journal = 2 \/ Done

Installing == {"installCard", "installConfig"}
Past == {"syncJournal", "publishSeed", "publishCard", "syncPair", "dropJournal", "syncDropped",
         "announce"}

\* Identities 1 and 2 are the only ones, and the second is there once it was drawn.
NumbersHeld ==
    /\ issued <= 2 /\ State.journal \in {Absent, 2}
    /\ Keys.seed <= issued /\ State.card <= issued /\ State.journal <= issued
    /\ Keys.seed = Absent => issued = 0
    /\ State.config => issued > 0
    /\ ~State.config => used = {} /\ issued < 2
    /\ State.config => Paired(Keys, State)

\* One command installs, before any other runs.
InstallerHeld(p) ==
    /\ pc[p] \in Installing =>
          /\ ~State.config /\ State.journal = Absent /\ Keys.seed = 1 /\ new[p] = 1
          /\ \A q \in Commands : q # p => pc[q] \notin Installing
    /\ pc[p] = "installConfig" => State.card = 1
    /\ pc[p] \notin {"idle"} \cup Installing => State.config

\* One command rotates, and nothing of its identity is visible before its journal.
RotatorHeld(p) ==
    /\ pc[p] \in Fresh \cup Past =>
          /\ issued = 2 /\ new[p] = 2
          /\ \A q \in Commands : q # p => pc[q] \notin Fresh \cup Past
    /\ pc[p] \in Fresh => ~Begun /\ Keys.seed = 1 /\ State.card = 1
    /\ pc[p] \in {"stageCard", "syncStaged", "writeJournal"} => 2 \in Keys.staged
    /\ pc[p] \in {"syncStaged", "writeJournal"} => 2 \in State.staged

\* The steps that carry the journal out, of a recovery or of the rotation: none undoes
\* what another did.
CarrierHeld(p) ==
    /\ pc[p] \in Redoing => journal[p] = 2
    /\ pc[p] \in Redoing \cup Past => Begun
    /\ pc[p] \in {"redoCard", "publishCard"} => Keys.seed = 2
    /\ pc[p] \in {"redoSync", "redoUnlink", "redoDone", "syncPair", "dropJournal"} => Done

\* What a command has read is in place, or was and is backed up.
ReaderHeld(p) ==
    pc[p] = "readCard" => seen[p] \in {1, 2} /\ (seen[p] = 2 => Keys.seed = 2)

\* Whatever was used is in place or backed up, and announced.
AccountHeld ==
    /\ used \subseteq {1, 2} /\ (2 \in used => Keys.seed = 2)
    /\ Begun \/ Keys.seed = 2 \/ (\E p \in Commands : pc[p] \in Staging) => 1 \in Keys.backups
    /\ \/ Begun \/ Keys.seed = 2
       \/ \E p \in Commands : pc[p] \in {"backUp"} \cup Staging
       => Announced(2)

RaceInv ==
    /\ IdentityTypeOK /\ OneRotation
    /\ NumbersHeld /\ AccountHeld
    /\ \A p \in Commands : InstallerHeld(p) /\ RotatorHeld(p) /\ CarrierHeld(p) /\ ReaderHeld(p)

LocalHeld(p) == InstallerHeld(p) /\ RotatorHeld(p) /\ CarrierHeld(p) /\ ReaderHeld(p)
RaceHeld == NumbersHeld /\ AccountHeld /\ \A p \in Commands : LocalHeld(p)

\* A step of p leaves the other commands where they are.
Others(p) ==
    \A q \in Commands : q # p =>
        /\ pc'[q] = pc[q] /\ seen'[q] = seen[q]
        /\ new'[q] = new[q] /\ journal'[q] = journal[q]

\* A step undoes nothing of a rotation that has begun.
Forward ==
    /\ Begun => Begun'
    /\ Done => Done'
    /\ Keys.seed = 2 => Keys'.seed = 2
    /\ Keys.backups \subseteq Keys'.backups

\* A step does not touch what a rotation of another command has prepared.
Aside(p) ==
    (\E q \in Commands : q # p /\ pc[q] \in Fresh) =>
        /\ ~Begun' /\ Keys'.seed = Keys.seed /\ State'.card = State.card
        /\ Keys.staged \subseteq Keys'.staged /\ State.staged \subseteq State'.staged

\* What p itself has to see to at a step after the installation.
Own(p) ==
    /\ pc'[p] \notin Installing
    /\ pc'[p] \in Fresh \cup Past => pc[p] \in Fresh \cup Past /\ new'[p] = new[p]
    /\ pc'[p] \in Fresh => pc[p] \in Fresh /\ ~Begun' /\ Keys'.seed = 1 /\ State'.card = 1
    /\ pc'[p] \in {"stageCard", "syncStaged", "writeJournal"} => 2 \in Keys'.staged
    /\ pc'[p] \in {"syncStaged", "writeJournal"} => 2 \in State'.staged
    /\ CarrierHeld(p)' /\ ReaderHeld(p)'

Accounts(p) ==
    /\ Begun' \/ Keys'.seed = 2 \/ pc'[p] \in Staging =>
          1 \in Keys'.backups /\ Announced(2)'
    /\ pc'[p] = "backUp" => Announced(2)'

\* A step of one command that goes forward keeps what every other command relies on.
LEMMA RaceFrame ==
    ASSUME NEW p \in Commands, RaceInv, State.config, State'.config, Others(p), Forward,
           Aside(p), Own(p), Accounts(p), NumbersHeld', told \subseteq told',
           issued' = issued, used' = used
    PROVE  RaceHeld'
<1>1. Announced(2) => Announced(2)'
  BY DEF Announced
<1>2. AccountHeld'
  <2>1. used' \subseteq {1, 2} /\ (2 \in used' => Keys'.seed = 2)
    BY DEF RaceInv, AccountHeld, Forward
  <2>2. ASSUME NEW q \in Commands, pc'[q] \in {"backUp"} \cup Staging
        PROVE  Announced(2)' /\ (pc'[q] \in Staging => 1 \in Keys'.backups)
    <3>1. CASE q = p
      BY <2>2, <3>1 DEF Accounts
    <3>2. CASE q # p
      BY <1>1, <2>2, <3>2 DEF RaceInv, AccountHeld, Others, Forward
    <3>3. QED
      BY <3>1, <3>2
  <2>3. QED
    BY <2>1, <2>2 DEF AccountHeld, Accounts
<1>3. ASSUME NEW q \in Commands
      PROVE  InstallerHeld(q)'
  <2>1. pc'[q] \notin Installing
    BY DEF RaceInv, InstallerHeld, Others, Own
  <2>2. QED
    BY <2>1 DEF InstallerHeld, Installing
<1>4. ASSUME NEW q \in Commands
      PROVE  RotatorHeld(q)'
  <2>1. ASSUME NEW r \in Commands, pc'[r] \in Fresh \cup Past
        PROVE  pc[r] \in Fresh \cup Past /\ new'[r] = new[r]
    BY <2>1 DEF Others, Own
  <2>2. pc'[q] \in Fresh \cup Past =>
            /\ issued' = 2 /\ new'[q] = 2
            /\ \A r \in Commands : r # q => pc'[r] \notin Fresh \cup Past
    BY <2>1 DEF RaceInv, RotatorHeld
  <2>3. CASE q = p
    BY <2>2, <2>3 DEF RotatorHeld, Own
  <2>4. CASE q # p
    <3>1. pc'[q] = pc[q]
      BY <2>4 DEF Others
    <3>2. CASE pc[q] \in Fresh
      BY <2>2, <2>4, <3>1, <3>2 DEF RaceInv, RotatorHeld, Aside
    <3>3. CASE pc[q] \notin Fresh
      BY <2>2, <3>1, <3>3 DEF RotatorHeld, Fresh
    <3>4. QED
      BY <3>2, <3>3
  <2>5. QED
    BY <2>3, <2>4
<1>5. ASSUME NEW q \in Commands
      PROVE  CarrierHeld(q)' /\ ReaderHeld(q)'
  <2>1. CASE q = p
    BY <2>1 DEF Own
  <2>2. CASE q # p
    BY <2>2 DEF RaceInv, CarrierHeld, ReaderHeld, Others, Forward
  <2>3. QED
    BY <2>1, <2>2
<1>6. QED
  BY <1>2, <1>3, <1>4, <1>5 DEF RaceHeld, LocalHeld

\* A step that changes no file that matters here.
SameFiles ==
    /\ Keys' = Keys /\ State'.card = State.card /\ State'.staged = State.staged
    /\ State'.journal = State.journal /\ State'.config = State.config

\* So does a step that changes no file, if p itself is where it may be.
LEMMA SameFilesFrame ==
    ASSUME NEW p \in Commands, RaceInv, State.config, SameFiles, Others(p), Own(p),
           pc'[p] \in Staging => 1 \in Keys.backups,
           pc'[p] \in {"backUp"} \cup Staging => Announced(2)',
           told \subseteq told', issued' = issued, used' = used
    PROVE  RaceHeld'
<1>1. Forward
  BY DEF SameFiles, Forward, Begun, Done
<1>2. Aside(p)
  BY DEF RaceInv, RotatorHeld, SameFiles, Aside, Begun, Done
<1>3. NumbersHeld'
  BY DEF RaceInv, NumbersHeld, Paired, SameFiles
<1>4. Announced(2) => Announced(2)'
  BY DEF Announced
<1>5. (Begun' <=> Begun) /\ Keys' = Keys
  BY DEF SameFiles, Begun, Done
<1>6. Accounts(p)
  BY <1>4, <1>5 DEF RaceInv, AccountHeld, Accounts
<1>7. State'.config
  BY DEF SameFiles
<1>8. QED
  BY <1>1, <1>2, <1>3, <1>6, <1>7, RaceFrame

\* Ctx.__init__ begins.
LEMMA LoadRaces ==
    ASSUME NEW p \in Commands, RaceInv, Load(p)
    PROVE  RaceHeld'
<1>1. DiskHeld /\ SameFiles
  BY DiskTypes, Untouched DEF RaceInv, Load, LossesKept, SameFiles, SameKeys, SameState
<1>2. pc[p] = "idle" /\ Moves(p, "readJournal") /\ State.config
  BY DEF RaceInv, IdentityTypeOK, InstallerHeld, Installing, Load, Goto, Moves
<1>3. /\ Others(p) /\ told' = told /\ issued' = issued /\ used' = used
      /\ new'[p] = Absent
  BY DEF RaceInv, IdentityTypeOK, Load, Goto, Others
<1>4. Own(p)
  BY <1>1, <1>2, <1>3 DEF RaceInv, Own, SameFiles, Moves, NumbersHeld, RotatorHeld,
     CarrierHeld, ReaderHeld, Begun, Done, Fresh, Past, Installing, Redoing, Absent
<1>5. /\ pc'[p] \in Staging => 1 \in Keys.backups
      /\ pc'[p] \in {"backUp"} \cup Staging => Announced(2)'
  BY <1>1, <1>2, <1>3 DEF RaceInv, AccountHeld, Announced, Moves, Staging
<1>6. QED
  BY <1>1, <1>2, <1>3, <1>4, <1>5, SameFilesFrame

\* A recovery takes over a journal that is there, whoever else does.
LEMMA ReadJournalRaces ==
    ASSUME NEW p \in Commands, RaceInv, ReadJournal(p)
    PROVE  RaceHeld'
<1>1. DiskHeld /\ SameFiles
  BY DiskTypes, Untouched DEF RaceInv, ReadJournal, LossesKept, SameFiles, SameKeys, SameState
<1>2. /\ pc[p] = "readJournal" /\ State.config
      /\ Moves(p, IF State.journal = Absent THEN "readSeed" ELSE "redoSeed")
  BY DEF RaceInv, IdentityTypeOK, InstallerHeld, Installing, ReadJournal, Goto, Moves
<1>3. /\ Others(p) /\ told' = told /\ issued' = issued /\ used' = used
      /\ new' = new /\ journal'[p] = State.journal
  BY DEF RaceInv, IdentityTypeOK, ReadJournal, Goto, Others
<1>4. Own(p)
  BY <1>1, <1>2, <1>3 DEF RaceInv, Own, SameFiles, Moves, NumbersHeld, RotatorHeld,
     CarrierHeld, ReaderHeld, Begun, Done, Fresh, Past, Installing, Redoing, Absent
<1>5. /\ pc'[p] \in Staging => 1 \in Keys.backups
      /\ pc'[p] \in {"backUp"} \cup Staging => Announced(2)'
  BY <1>1, <1>2, <1>3 DEF RaceInv, AccountHeld, Announced, Moves, Staging
<1>6. QED
  BY <1>1, <1>2, <1>3, <1>4, <1>5, SameFilesFrame

\* The seed is read; another command may replace it at once.
LEMMA ReadSeedRaces ==
    ASSUME NEW p \in Commands, RaceInv, ReadSeed(p)
    PROVE  RaceHeld'
<1>1. DiskHeld /\ SameFiles
  BY DiskTypes, Untouched DEF RaceInv, ReadSeed, LossesKept, SameFiles, SameKeys, SameState
<1>2. pc[p] = "readSeed" /\ Moves(p, "readCard") /\ State.config
  BY DEF RaceInv, IdentityTypeOK, InstallerHeld, Installing, ReadSeed, Goto, Moves
<1>3. /\ Others(p) /\ told' = told /\ issued' = issued /\ used' = used
      /\ new' = new /\ seen'[p] = Keys.seed
  BY DEF RaceInv, IdentityTypeOK, ReadSeed, Goto, Others
<1>4. Own(p)
  <2>1. Keys.seed \in {1, 2}
    BY <1>1, <1>2 DEF RaceInv, IdentityTypeOK, NumbersHeld, DiskHeld, KeyDirs, Absent
  <2>2. QED
    BY <1>1, <1>2, <1>3, <2>1 DEF Own, SameFiles, Moves, CarrierHeld, ReaderHeld, Fresh, Past,
       Installing, Redoing
<1>5. /\ pc'[p] \in Staging => 1 \in Keys.backups
      /\ pc'[p] \in {"backUp"} \cup Staging => Announced(2)'
  BY <1>1, <1>2, <1>3 DEF RaceInv, AccountHeld, Announced, Moves, Staging
<1>6. QED
  BY <1>1, <1>2, <1>3, <1>4, <1>5, SameFilesFrame

\* Every peer was sent the announcement.
LEMMA AllNotifiedRaces ==
    ASSUME NEW p \in Commands, RaceInv, AllNotified(p)
    PROVE  RaceHeld'
<1>1. DiskHeld /\ SameFiles
  BY DiskTypes, Untouched DEF RaceInv, AllNotified, LossesKept, SameFiles, SameKeys, SameState
<1>2. pc[p] = "notify" /\ Moves(p, "backUp") /\ State.config
  BY DEF RaceInv, IdentityTypeOK, InstallerHeld, Installing, AllNotified, Goto, Moves
<1>3. /\ Others(p) /\ told' = told /\ issued' = issued /\ used' = used
      /\ seen' = seen /\ new' = new /\ journal' = journal /\ \A r \in Peers : <<r, new[p]>> \in told
  BY DEF RaceInv, IdentityTypeOK, AllNotified, Goto, Others
<1>4. Own(p)
  BY <1>1, <1>2, <1>3 DEF RaceInv, Own, SameFiles, Moves, NumbersHeld, RotatorHeld,
     CarrierHeld, ReaderHeld, Begun, Done, Fresh, Past, Installing, Redoing, Absent
<1>5. /\ pc'[p] \in Staging => 1 \in Keys.backups
      /\ pc'[p] \in {"backUp"} \cup Staging => Announced(2)'
  BY <1>1, <1>2, <1>3 DEF RaceInv, AccountHeld, Announced, Moves, Staging, RotatorHeld, Fresh
<1>6. QED
  BY <1>1, <1>2, <1>3, <1>4, <1>5, SameFilesFrame

\* The fsyncs change nothing that is visible.
LEMMA RedoSyncRaces ==
    ASSUME NEW p \in Commands, RaceInv, RedoSync(p)
    PROVE  RaceHeld'
<1>1. DiskHeld /\ SameFiles
  BY DiskTypes, SyncBoth DEF RaceInv, RedoSync, LossesKept, SameFiles
<1>2. pc[p] = "redoSync" /\ Moves(p, "redoUnlink") /\ State.config
  BY DEF RaceInv, IdentityTypeOK, InstallerHeld, Installing, RedoSync, Goto, Moves
<1>3. /\ Others(p) /\ told' = told /\ issued' = issued /\ used' = used
      /\ seen' = seen /\ new' = new /\ journal' = journal
  BY DEF RaceInv, IdentityTypeOK, RedoSync, Goto, Others
<1>4. Own(p)
  BY <1>1, <1>2, <1>3 DEF RaceInv, Own, SameFiles, Moves, NumbersHeld, RotatorHeld,
     CarrierHeld, ReaderHeld, Begun, Done, Fresh, Past, Installing, Redoing, Absent
<1>5. /\ pc'[p] \in Staging => 1 \in Keys.backups
      /\ pc'[p] \in {"backUp"} \cup Staging => Announced(2)'
  BY <1>1, <1>2, <1>3 DEF RaceInv, AccountHeld, Announced, Moves, Staging
<1>6. QED
  BY <1>1, <1>2, <1>3, <1>4, <1>5, SameFilesFrame

\* The fsync after a recovery.
LEMMA RedoDoneRaces ==
    ASSUME NEW p \in Commands, RaceInv, RedoDone(p)
    PROVE  RaceHeld'
<1>1. DiskHeld /\ SameFiles
  BY DiskTypes, SyncState DEF RaceInv, RedoDone, LossesKept, SameFiles, SameKeys
<1>2. pc[p] = "redoDone" /\ Moves(p, "readSeed") /\ State.config
  BY DEF RaceInv, IdentityTypeOK, InstallerHeld, Installing, RedoDone, Goto, Moves
<1>3. /\ Others(p) /\ told' = told /\ issued' = issued /\ used' = used
      /\ seen' = seen /\ new' = new /\ journal' = journal
  BY DEF RaceInv, IdentityTypeOK, RedoDone, Goto, Others
<1>4. Own(p)
  BY <1>1, <1>2, <1>3 DEF RaceInv, Own, SameFiles, Moves, NumbersHeld, RotatorHeld,
     CarrierHeld, ReaderHeld, Begun, Done, Fresh, Past, Installing, Redoing, Absent
<1>5. /\ pc'[p] \in Staging => 1 \in Keys.backups
      /\ pc'[p] \in {"backUp"} \cup Staging => Announced(2)'
  BY <1>1, <1>2, <1>3 DEF RaceInv, AccountHeld, Announced, Moves, Staging
<1>6. QED
  BY <1>1, <1>2, <1>3, <1>4, <1>5, SameFilesFrame

\* The fsync of the staged files.
LEMMA SyncStagedRaces ==
    ASSUME NEW p \in Commands, RaceInv, SyncStaged(p)
    PROVE  RaceHeld'
<1>1. DiskHeld /\ SameFiles
  BY DiskTypes, SyncBoth DEF RaceInv, SyncStaged, LossesKept, SameFiles
<1>2. pc[p] = "syncStaged" /\ Moves(p, "writeJournal") /\ State.config
  BY DEF RaceInv, IdentityTypeOK, InstallerHeld, Installing, SyncStaged, Goto, Moves
<1>3. /\ Others(p) /\ told' = told /\ issued' = issued /\ used' = used
      /\ seen' = seen /\ new' = new /\ journal' = journal
  BY DEF RaceInv, IdentityTypeOK, SyncStaged, Goto, Others
<1>4. Own(p)
  BY <1>1, <1>2, <1>3 DEF RaceInv, Own, SameFiles, Moves, NumbersHeld, RotatorHeld,
     CarrierHeld, ReaderHeld, Begun, Done, Fresh, Past, Installing, Redoing, Absent
<1>5. /\ pc'[p] \in Staging => 1 \in Keys.backups
      /\ pc'[p] \in {"backUp"} \cup Staging => Announced(2)'
  BY <1>1, <1>2, <1>3 DEF RaceInv, AccountHeld, Announced, Moves, Staging
<1>6. QED
  BY <1>1, <1>2, <1>3, <1>4, <1>5, SameFilesFrame

\* The fsync of the journal.
LEMMA SyncJournalRaces ==
    ASSUME NEW p \in Commands, RaceInv, SyncJournal(p)
    PROVE  RaceHeld'
<1>1. DiskHeld /\ SameFiles
  BY DiskTypes, SyncState DEF RaceInv, SyncJournal, LossesKept, SameFiles, SameKeys
<1>2. pc[p] = "syncJournal" /\ Moves(p, "publishSeed") /\ State.config
  BY DEF RaceInv, IdentityTypeOK, InstallerHeld, Installing, SyncJournal, Goto, Moves
<1>3. /\ Others(p) /\ told' = told /\ issued' = issued /\ used' = used
      /\ seen' = seen /\ new' = new /\ journal' = journal
  BY DEF RaceInv, IdentityTypeOK, SyncJournal, Goto, Others
<1>4. Own(p)
  BY <1>1, <1>2, <1>3 DEF RaceInv, Own, SameFiles, Moves, NumbersHeld, RotatorHeld,
     CarrierHeld, ReaderHeld, Begun, Done, Fresh, Past, Installing, Redoing, Absent
<1>5. /\ pc'[p] \in Staging => 1 \in Keys.backups
      /\ pc'[p] \in {"backUp"} \cup Staging => Announced(2)'
  BY <1>1, <1>2, <1>3 DEF RaceInv, AccountHeld, Announced, Moves, Staging
<1>6. QED
  BY <1>1, <1>2, <1>3, <1>4, <1>5, SameFilesFrame

\* The fsync of the pair.
LEMMA SyncPairRaces ==
    ASSUME NEW p \in Commands, RaceInv, SyncPair(p)
    PROVE  RaceHeld'
<1>1. DiskHeld /\ SameFiles
  BY DiskTypes, SyncBoth DEF RaceInv, SyncPair, LossesKept, SameFiles
<1>2. pc[p] = "syncPair" /\ Moves(p, "dropJournal") /\ State.config
  BY DEF RaceInv, IdentityTypeOK, InstallerHeld, Installing, SyncPair, Goto, Moves
<1>3. /\ Others(p) /\ told' = told /\ issued' = issued /\ used' = used
      /\ seen' = seen /\ new' = new /\ journal' = journal
  BY DEF RaceInv, IdentityTypeOK, SyncPair, Goto, Others
<1>4. Own(p)
  BY <1>1, <1>2, <1>3 DEF RaceInv, Own, SameFiles, Moves, NumbersHeld, RotatorHeld,
     CarrierHeld, ReaderHeld, Begun, Done, Fresh, Past, Installing, Redoing, Absent
<1>5. /\ pc'[p] \in Staging => 1 \in Keys.backups
      /\ pc'[p] \in {"backUp"} \cup Staging => Announced(2)'
  BY <1>1, <1>2, <1>3 DEF RaceInv, AccountHeld, Announced, Moves, Staging
<1>6. QED
  BY <1>1, <1>2, <1>3, <1>4, <1>5, SameFilesFrame

\* The fsync after a rotation.
LEMMA SyncDroppedRaces ==
    ASSUME NEW p \in Commands, RaceInv, SyncDropped(p)
    PROVE  RaceHeld'
<1>1. DiskHeld /\ SameFiles
  BY DiskTypes, SyncState DEF RaceInv, SyncDropped, LossesKept, SameFiles, SameKeys
<1>2. pc[p] = "syncDropped" /\ Moves(p, "announce") /\ State.config
  BY DEF RaceInv, IdentityTypeOK, InstallerHeld, Installing, SyncDropped, Goto, Moves
<1>3. /\ Others(p) /\ told' = told /\ issued' = issued /\ used' = used
      /\ seen' = seen /\ new' = new /\ journal' = journal
  BY DEF RaceInv, IdentityTypeOK, SyncDropped, Goto, Others
<1>4. Own(p)
  BY <1>1, <1>2, <1>3 DEF RaceInv, Own, SameFiles, Moves, NumbersHeld, RotatorHeld,
     CarrierHeld, ReaderHeld, Begun, Done, Fresh, Past, Installing, Redoing, Absent
<1>5. /\ pc'[p] \in Staging => 1 \in Keys.backups
      /\ pc'[p] \in {"backUp"} \cup Staging => Announced(2)'
  BY <1>1, <1>2, <1>3 DEF RaceInv, AccountHeld, Announced, Moves, Staging
<1>6. QED
  BY <1>1, <1>2, <1>3, <1>4, <1>5, SameFilesFrame

\* One more peer was sent the announcement.
LEMMA NotifyRaces ==
    ASSUME NEW p \in Commands, RaceInv, NEW r \in Peers, Notify(p, r)
    PROVE  RaceHeld'
<1>1. DiskHeld /\ SameFiles
  BY DiskTypes, Untouched DEF RaceInv, Notify, LossesKept, SameFiles, SameKeys, SameState
<1>2. pc[p] = "notify" /\ pc' = pc /\ State.config
  BY DEF RaceInv, InstallerHeld, Installing, Notify
<1>3. /\ Others(p) /\ told \subseteq told' /\ issued' = issued /\ used' = used
      /\ seen' = seen /\ new' = new /\ journal' = journal
  BY DEF Notify, Others
<1>4. Own(p)
  BY <1>1, <1>2, <1>3 DEF RaceInv, Own, SameFiles, RotatorHeld, CarrierHeld, ReaderHeld, Begun,
     Done, Fresh, Past, Installing, Redoing
<1>5. pc'[p] \notin {"backUp"} \cup Staging
  BY <1>2 DEF Staging
<1>6. QED
  BY <1>1, <1>2, <1>3, <1>4, <1>5, SameFilesFrame

\* A command ends, by itself, by an error or by a kill.
LEMMA EndRaces ==
    ASSUME NEW p \in Commands, RaceInv, SameFiles, Moves(p, "idle"),
           UNCHANGED <<seen, new, journal, told, issued, used>>
    PROVE  RaceHeld'
<1>1. Others(p)
  BY DEF Moves, Others
<1>2. CASE State.config
  <2>1. Own(p)
    BY DEF Own, Moves, CarrierHeld, ReaderHeld, Fresh, Past, Installing, Redoing
  <2>2. pc'[p] \notin {"backUp"} \cup Staging
    BY DEF Moves, Staging
  <2>3. QED
    BY <1>1, <1>2, <2>1, <2>2, SameFilesFrame
<1>3. CASE ~State.config
  <2>1. \A q \in Commands : pc'[q] \in {"idle"} \cup Installing
    BY <1>1, <1>3 DEF RaceInv, InstallerHeld, Others, Moves
  <2>2. NumbersHeld'
    BY <1>3 DEF RaceInv, NumbersHeld, SameFiles
  <2>3. used' = {} /\ State'.journal # 2 /\ Keys'.seed # 2
    BY <1>3, DiskTypes DEF RaceInv, IdentityTypeOK, NumbersHeld, SameFiles, DiskHeld, KeyDirs
  <2>4. AccountHeld'
    BY <2>1, <2>3 DEF AccountHeld, Begun, Done, Installing, Staging
  <2>5. ASSUME NEW q \in Commands PROVE LocalHeld(q)'
    <3>1. RotatorHeld(q)' /\ CarrierHeld(q)' /\ ReaderHeld(q)'
      BY <2>1 DEF RotatorHeld, CarrierHeld, ReaderHeld, Installing, Fresh, Past, Redoing
    <3>2. InstallerHeld(q)'
      BY <1>1, <2>1 DEF RaceInv, InstallerHeld, Others, Moves, SameFiles, Installing
    <3>3. QED
      BY <3>1, <3>2 DEF LocalHeld
  <2>6. QED
    BY <2>2, <2>4, <2>5 DEF RaceHeld
<1>4. QED
  BY <1>2, <1>3

\* A command loads the identity it has read, be it replaced meanwhile.
LEMMA ReadCardRaces ==
    ASSUME NEW p \in Commands, RaceInv, ReadCard(p)
    PROVE  RaceHeld'
<1>1. DiskHeld /\ SameFiles /\ UNCHANGED <<seen, new, journal, told, issued>>
  BY DiskTypes, Untouched DEF RaceInv, ReadCard, LossesKept, SameFiles, SameKeys, SameState
<1>2. pc[p] = "readCard" /\ State.config
  BY DEF RaceInv, InstallerHeld, Installing, ReadCard, Goto
<1>3. CASE ~Loadable(p)
  <2>1. Moves(p, "idle") /\ used' = used
    BY <1>3 DEF RaceInv, IdentityTypeOK, ReadCard, Goto, Moves
  <2>2. QED
    BY <1>1, <2>1, EndRaces
<1>4. CASE Loadable(p)
  <2>1. Moves(p, "ready") /\ used' = used \cup {seen[p]}
    BY <1>4 DEF RaceInv, IdentityTypeOK, ReadCard, Goto, Moves
  <2>2. seen[p] \in {1, 2} /\ (seen[p] = 2 => Keys.seed = 2)
    BY <1>2 DEF RaceInv, ReaderHeld
  <2>3. NumbersHeld'
    BY <1>1, <1>2 DEF RaceInv, NumbersHeld, Paired, SameFiles
  <2>4. Others(p)
    BY <1>1, <2>1 DEF Moves, Others
  <2>5. AccountHeld'
    <3>1. Announced(2)' <=> Announced(2)
      BY <1>1 DEF Announced
    <3>2. \A q \in Commands : pc'[q] \in {"backUp"} \cup Staging => pc[q] = pc'[q]
      BY <2>1, <2>4 DEF Others, Moves, Staging
    <3>3. QED
      BY <1>1, <2>1, <2>2, <3>1, <3>2 DEF RaceInv, AccountHeld, SameFiles, Begun, Done
  <2>6. ASSUME NEW q \in Commands PROVE LocalHeld(q)'
    <3>1. InstallerHeld(q)'
      BY <1>1, <1>2, <2>1, <2>4 DEF RaceInv, InstallerHeld, Others, Moves, SameFiles, Installing
    <3>2. RotatorHeld(q)'
      BY <1>1, <2>1, <2>4 DEF RaceInv, RotatorHeld, Others, Moves, SameFiles, Begun, Done,
         Fresh, Past
    <3>3. CarrierHeld(q)' /\ ReaderHeld(q)'
      BY <1>1, <2>1, <2>4 DEF RaceInv, CarrierHeld, ReaderHeld, Others, Moves, SameFiles, Begun,
         Done, Redoing, Past
    <3>4. QED
      BY <3>1, <3>2, <3>3 DEF LocalHeld
  <2>7. QED
    BY <2>3, <2>5, <2>6 DEF RaceHeld
<1>5. QED
  BY <1>3, <1>4

\* The one rotation begins: no identity but the first is anywhere.
LEMMA RotateRaces ==
    ASSUME NEW p \in Commands, RaceInv, Rotate(p)
    PROVE  RaceHeld'
<1>1. DiskHeld /\ SameFiles /\ UNCHANGED <<seen, journal, told, used>>
  BY DiskTypes, Untouched DEF RaceInv, Rotate, LossesKept, SameFiles, SameKeys, SameState
<1>2. pc[p] = "ready" /\ Moves(p, "notify") /\ State.config
  BY DEF RaceInv, IdentityTypeOK, InstallerHeld, Installing, Rotate, Goto, Moves
<1>3. issued = 1 /\ issued' = 2 /\ new'[p] = 2 /\ Others(p)
  <2>1. left.identities \in Nat /\ issued \in Nat /\ left.identities <= 2 /\ issued > 0
    BY <1>2 DEF RaceInv, IdentityTypeOK, ScenarioType, OneRotation, NumbersHeld
  <2>2. issued < left.identities /\ issued' = issued + 1 /\ new' = [new EXCEPT ![p] = issued']
    BY DEF Rotate
  <2>3. issued = 1 /\ issued' = 2
    BY <2>1, <2>2
  <2>4. QED
    BY <1>1, <1>2, <2>2, <2>3 DEF RaceInv, IdentityTypeOK, Others, Moves
<1>4. Keys.seed = 1 /\ State.card = 1 /\ State.journal = Absent
  BY <1>1, <1>2, <1>3 DEF RaceInv, NumbersHeld, Paired, DiskHeld, KeyDirs, StateDirs, Absent
<1>5. NumbersHeld'
  BY <1>1, <1>2, <1>3, <1>4 DEF NumbersHeld, Paired, SameFiles, Absent
<1>6. AccountHeld'
  <2>1. \A q \in Commands : pc'[q] \in {"backUp"} \cup Staging => pc[q] = pc'[q]
    BY <1>2, <1>3 DEF Others, Moves, Staging
  <2>2. Announced(2)' <=> Announced(2)
    BY <1>1 DEF Announced
  <2>3. QED
    BY <1>1, <1>4, <2>1, <2>2 DEF RaceInv, AccountHeld, SameFiles, Begun, Done, Absent
<1>7. ASSUME NEW q \in Commands PROVE LocalHeld(q)'
  <2>1. InstallerHeld(q)'
    BY <1>1, <1>2, <1>3 DEF RaceInv, InstallerHeld, Others, Moves, SameFiles, Installing
  <2>2. \A r \in Commands : pc[r] \notin Fresh \cup Past
    BY <1>3 DEF RaceInv, RotatorHeld
  <2>3. RotatorHeld(q)'
    BY <1>1, <1>2, <1>3, <1>4, <2>2 DEF RotatorHeld, Others, Moves, SameFiles, Begun, Done,
       Fresh, Absent
  <2>4. CarrierHeld(q)' /\ ReaderHeld(q)'
    BY <1>1, <1>2, <1>3 DEF RaceInv, CarrierHeld, ReaderHeld, Others, Moves, SameFiles, Begun,
       Done, Redoing, Past
  <2>5. QED
    BY <2>1, <2>3, <2>4 DEF LocalHeld
<1>8. QED
  BY <1>5, <1>6, <1>7 DEF RaceHeld

\* No other command prepares a rotation once one has begun, nor while p prepares one.
LEMMA Alone ==
    ASSUME NEW p \in Commands, RaceInv, Begun \/ pc[p] \in Fresh \cup Past
    PROVE  \A q \in Commands : q # p => pc[q] \notin Fresh
BY DEF RaceInv, RotatorHeld

\* The seed that the journal names is put in place, or was already.
LEMMA SeedTaken ==
    ASSUME NEW p \in Commands, RaceInv, State.config, Begun, UNCHANGED State,
           Keys'.seed = 2, Keys'.backups = Keys.backups,
           UNCHANGED <<seen, new, journal, told, issued, used>>,
           \/ Moves(p, "redoCard") /\ journal[p] = 2
           \/ Moves(p, "publishCard") /\ pc[p] \in Past
    PROVE  RaceHeld'
<1>1. Others(p) /\ Aside(p)
  BY Alone DEF Moves, Others, Aside
<1>2. Forward /\ Begun'
  BY DEF Forward, Begun, Done
<1>3. NumbersHeld'
  BY DEF RaceInv, IdentityTypeOK, NumbersHeld, Paired, Begun, Done, Absent
<1>4. Own(p)
  BY <1>2 DEF Own, Moves, CarrierHeld, ReaderHeld, Fresh, Past, Installing, Redoing
<1>5. Accounts(p)
  BY DEF RaceInv, AccountHeld, Accounts, Announced, Moves
<1>6. QED
  BY <1>1, <1>2, <1>3, <1>4, <1>5, RaceFrame

\* The card that the journal names is put in place, or was already.
LEMMA CardTaken ==
    ASSUME NEW p \in Commands, RaceInv, State.config, Begun, Keys.seed = 2, UNCHANGED Keys,
           State'.card = 2, State'.journal = State.journal, State'.config = State.config,
           UNCHANGED <<seen, new, journal, told, issued, used>>,
           \/ Moves(p, "redoSync") /\ journal[p] = 2
           \/ Moves(p, "syncPair") /\ pc[p] \in Past
    PROVE  RaceHeld'
<1>1. Others(p) /\ Aside(p)
  BY Alone DEF Moves, Others, Aside
<1>2. Forward /\ Begun' /\ Done'
  BY DEF Forward, Begun, Done
<1>3. NumbersHeld'
  BY DEF RaceInv, IdentityTypeOK, NumbersHeld, Paired, Begun, Done, Absent
<1>4. Own(p)
  BY <1>2 DEF Own, Moves, CarrierHeld, ReaderHeld, Fresh, Past, Installing, Redoing
<1>5. Accounts(p)
  BY DEF RaceInv, AccountHeld, Accounts, Announced, Moves
<1>6. QED
  BY <1>1, <1>2, <1>3, <1>4, <1>5, RaceFrame

\* The journal of a rotation that is carried out is removed.
LEMMA JournalTaken ==
    ASSUME NEW p \in Commands, RaceInv, State.config, Done, UNCHANGED Keys,
           State'.card = State.card, State'.journal = Absent, State'.config = State.config,
           UNCHANGED <<seen, new, journal, told, issued, used>>,
           \/ Moves(p, "redoDone")
           \/ Moves(p, "syncDropped") /\ pc[p] \in Past
    PROVE  RaceHeld'
<1>1. Others(p) /\ Aside(p)
  BY Alone DEF Moves, Others, Aside, Begun
<1>2. Forward /\ Begun' /\ Done'
  BY DEF Forward, Begun, Done
<1>3. NumbersHeld'
  BY DEF RaceInv, IdentityTypeOK, NumbersHeld, Paired, Done, Absent
<1>4. Own(p)
  BY <1>2 DEF Own, Moves, CarrierHeld, ReaderHeld, Fresh, Past, Installing, Redoing
<1>5. Accounts(p)
  BY DEF RaceInv, AccountHeld, Accounts, Announced, Moves, Done
<1>6. QED
  BY <1>1, <1>2, <1>3, <1>4, <1>5, RaceFrame

\* The rotation prepares, beside what is in place.
LEMMA Prepared ==
    ASSUME NEW p \in Commands, RaceInv, State.config, pc[p] \in {"backUp"} \cup Staging,
           pc[p] \in Fresh, Keys'.seed = Keys.seed, Keys.backups \subseteq Keys'.backups,
           State'.card = State.card, State'.journal = State.journal,
           State'.config = State.config,
           UNCHANGED <<seen, new, journal, told, issued, used>>,
           NEW to \in {"idle", "stageSeed", "stageCard", "syncStaged"}, Moves(p, to),
           to \in {"stageCard", "syncStaged"} => 2 \in Keys'.staged,
           to = "syncStaged" => 2 \in State'.staged,
           1 \in Keys'.backups
    PROVE  RaceHeld'
<1>1. Others(p) /\ Aside(p)
  BY Alone DEF Moves, Others, Aside
<1>2. ~Begun /\ Keys.seed = 1 /\ State.card = 1 /\ issued = 2
  BY DEF RaceInv, RotatorHeld
<1>3. Forward /\ ~Begun'
  BY <1>2 DEF Forward, Begun, Done
<1>4. NumbersHeld'
  BY <1>2 DEF RaceInv, NumbersHeld, Paired, Begun, Absent
<1>5. Own(p)
  BY <1>2, <1>3 DEF Own, Moves, CarrierHeld, ReaderHeld, Fresh, Past, Installing, Redoing
<1>6. Accounts(p)
  <2>1. Announced(2)'
    BY DEF RaceInv, AccountHeld, Announced
  <2>2. QED
    BY <2>1 DEF Accounts
<1>7. State'.config
  OBVIOUS
<1>8. QED
  BY <1>1, <1>3, <1>4, <1>5, <1>6, <1>7, RaceFrame

\* The journal: the rotation has begun, and both staged files are there.
LEMMA JournalPlaced ==
    ASSUME NEW p \in Commands, RaceInv, State.config, pc[p] = "writeJournal", UNCHANGED Keys,
           State'.card = State.card, State'.staged = State.staged, State'.journal = 2,
           State'.config = State.config,
           UNCHANGED <<seen, new, journal, told, issued, used>>, Moves(p, "syncJournal")
    PROVE  RaceHeld'
<1>1. Others(p) /\ Aside(p)
  BY Alone DEF Moves, Others, Aside, Fresh
<1>2. ~Begun /\ issued = 2 /\ 2 \in Keys.staged /\ 2 \in State.staged
  BY DEF RaceInv, RotatorHeld, Fresh
<1>3. Forward /\ Begun'
  BY <1>2 DEF Forward, Begun, Done
<1>4. NumbersHeld'
  BY <1>2 DEF RaceInv, NumbersHeld, Paired, Begun, Absent
<1>5. Own(p)
  BY <1>2, <1>3 DEF Own, Moves, CarrierHeld, ReaderHeld, Fresh, Past, Installing, Redoing
<1>6. Accounts(p)
  BY DEF RaceInv, AccountHeld, Accounts, Announced, Staging
<1>7. State'.config
  OBVIOUS
<1>8. QED
  BY <1>1, <1>3, <1>4, <1>5, <1>6, <1>7, RaceFrame

\* A recovery renames the staged seed, unless another command was there first.
LEMMA RedoSeedRaces ==
    ASSUME NEW p \in Commands, RaceInv, RedoSeed(p)
    PROVE  RaceHeld' /\ DiskOK'
<1> DEFINE x == [Keys EXCEPT !.seed = 2, !.staged = @ \ {2}]
<1>1. DiskHeld /\ LossesKept /\ UNCHANGED <<seen, new, journal, told, issued, used>>
  BY DiskTypes DEF RaceInv, RedoSeed, LossesKept
<1>2. pc[p] = "redoSeed" /\ Moves(p, "redoCard") /\ State.config
  BY DEF RaceInv, IdentityTypeOK, InstallerHeld, Installing, RedoSeed, Goto, Moves
<1>3. journal[p] = 2 /\ Begun
  BY <1>2 DEF RaceInv, CarrierHeld, Redoing
<1>4. CASE 2 \in Keys.staged
  <2>1. x \in KeyDirs /\ x.seed = 2 /\ x.backups = Keys.backups
    BY <1>1 DEF DiskHeld, KeyDirs
  <2>2. Put("keys", x)
    BY <1>3, <1>4 DEF RedoSeed, RenameSeed
  <2> HIDE DEF x
  <2>3. DiskOK' /\ SameState /\ Keys' = x
    BY <1>1, <2>1, <2>2, PutKeys DEF RaceInv
  <2>4. QED
    BY <1>1, <1>2, <1>3, <2>1, <2>3, SeedTaken DEF SameState
<1>5. CASE 2 \notin Keys.staged
  <2>1. disk' = disk
    BY <1>3, <1>5 DEF RedoSeed
  <2>2. DiskOK' /\ SameState /\ SameKeys
    BY <1>1, <2>1, Untouched DEF RaceInv
  <2>3. Keys.seed = 2
    BY <1>2, <1>3, <1>5 DEF RaceInv, NumbersHeld, Paired, Begun, Done, Absent
  <2>4. QED
    BY <1>1, <1>2, <1>3, <2>2, <2>3, SeedTaken DEF SameState, SameKeys
<1>6. QED
  BY <1>4, <1>5

\* And the staged card.
LEMMA RedoCardRaces ==
    ASSUME NEW p \in Commands, RaceInv, RedoCard(p)
    PROVE  RaceHeld' /\ DiskOK'
<1> DEFINE x == [State EXCEPT !.card = 2, !.staged = @ \ {2}]
<1>1. DiskHeld /\ LossesKept /\ UNCHANGED <<seen, new, journal, told, issued, used>>
  BY DiskTypes DEF RaceInv, RedoCard, LossesKept
<1>2. pc[p] = "redoCard" /\ Moves(p, "redoSync") /\ State.config
  BY DEF RaceInv, IdentityTypeOK, InstallerHeld, Installing, RedoCard, Goto, Moves
<1>3. journal[p] = 2 /\ Begun /\ Keys.seed = 2
  BY <1>2 DEF RaceInv, CarrierHeld, Redoing
<1>4. CASE 2 \in State.staged
  <2>1. /\ x \in StateDirs /\ x.card = 2 /\ x.journal = State.journal
        /\ x.config = State.config
    BY <1>1 DEF DiskHeld, StateDirs
  <2>2. Put("state", x)
    BY <1>3, <1>4 DEF RedoCard, RenameCard
  <2> HIDE DEF x
  <2>3. DiskOK' /\ SameKeys /\ State' = x
    BY <1>1, <2>1, <2>2, PutState DEF RaceInv
  <2>4. QED
    BY <1>1, <1>2, <1>3, <2>1, <2>3, CardTaken DEF SameKeys
<1>5. CASE 2 \notin State.staged
  <2>1. disk' = disk
    BY <1>3, <1>5 DEF RedoCard
  <2>2. DiskOK' /\ SameState /\ SameKeys
    BY <1>1, <2>1, Untouched DEF RaceInv
  <2>3. State.card = 2
    BY <1>2, <1>3, <1>5 DEF RaceInv, NumbersHeld, Paired, Begun, Done, Absent
  <2>4. QED
    BY <1>1, <1>2, <1>3, <2>2, <2>3, CardTaken DEF SameState, SameKeys
<1>6. QED
  BY <1>4, <1>5

\* A recovery removes the journal, or ends when another command has removed it.
LEMMA RedoUnlinkRaces ==
    ASSUME NEW p \in Commands, RaceInv, RedoUnlink(p)
    PROVE  RaceHeld' /\ DiskOK'
<1> DEFINE x == [State EXCEPT !.journal = Absent]
<1>1. DiskHeld /\ LossesKept /\ UNCHANGED <<seen, new, journal, told, issued, used>>
  BY DiskTypes DEF RaceInv, RedoUnlink, LossesKept
<1>2. pc[p] = "redoUnlink" /\ State.config /\ Done
  BY DEF RaceInv, InstallerHeld, CarrierHeld, Installing, RedoUnlink, Goto
<1>3. CASE State.journal # Absent
  <2>1. /\ x \in StateDirs /\ x.card = State.card /\ x.journal = Absent
        /\ x.config = State.config
    BY <1>1 DEF DiskHeld, StateDirs, Absent
  <2>2. Put("state", x) /\ Moves(p, "redoDone")
    BY <1>3 DEF RaceInv, IdentityTypeOK, RedoUnlink, Unlink, Goto, Moves
  <2> HIDE DEF x
  <2>3. DiskOK' /\ SameKeys /\ State' = x
    BY <1>1, <2>1, <2>2, PutState DEF RaceInv
  <2>4. QED
    BY <1>1, <1>2, <2>1, <2>2, <2>3, JournalTaken DEF SameKeys
<1>4. CASE State.journal = Absent
  <2>1. disk' = disk /\ Moves(p, "idle")
    BY <1>4 DEF RaceInv, IdentityTypeOK, RedoUnlink, Goto, Moves
  <2>2. DiskOK' /\ SameState /\ SameKeys
    BY <1>1, <2>1, Untouched DEF RaceInv
  <2>3. QED
    BY <1>1, <2>1, <2>2, EndRaces DEF SameState, SameKeys, SameFiles
<1>5. QED
  BY <1>3, <1>4

\* The rotation publishes the seed; a recovery may have renamed it, then this step fails.
LEMMA PublishSeedRaces ==
    ASSUME NEW p \in Commands, RaceInv, PublishSeed(p)
    PROVE  RaceHeld' /\ DiskOK'
<1> DEFINE x == [Keys EXCEPT !.seed = 2, !.staged = @ \ {2}]
<1>1. DiskHeld /\ LossesKept /\ UNCHANGED <<seen, new, journal, told, issued, used>>
  BY DiskTypes DEF RaceInv, PublishSeed, LossesKept
<1>2. pc[p] = "publishSeed" /\ Moves(p, "publishCard") /\ State.config
  BY DEF RaceInv, IdentityTypeOK, InstallerHeld, Installing, PublishSeed, Goto, Moves
<1>3. new[p] = 2 /\ Begun /\ pc[p] \in Past
  BY <1>2 DEF RaceInv, RotatorHeld, CarrierHeld, Past
<1>4. x \in KeyDirs /\ x.seed = 2 /\ x.backups = Keys.backups
  BY <1>1 DEF DiskHeld, KeyDirs
<1>5. Put("keys", x)
  BY <1>3 DEF PublishSeed, RenameSeed
<1> HIDE DEF x
<1>6. DiskOK' /\ SameState /\ Keys' = x
  BY <1>1, <1>4, <1>5, PutKeys DEF RaceInv
<1>7. QED
  BY <1>1, <1>2, <1>3, <1>4, <1>6, SeedTaken DEF SameState

\* The card follows.
LEMMA PublishCardRaces ==
    ASSUME NEW p \in Commands, RaceInv, PublishCard(p)
    PROVE  RaceHeld' /\ DiskOK'
<1> DEFINE x == [State EXCEPT !.card = 2, !.staged = @ \ {2}]
<1>1. DiskHeld /\ LossesKept /\ UNCHANGED <<seen, new, journal, told, issued, used>>
  BY DiskTypes DEF RaceInv, PublishCard, LossesKept
<1>2. pc[p] = "publishCard" /\ Moves(p, "syncPair") /\ State.config
  BY DEF RaceInv, IdentityTypeOK, InstallerHeld, Installing, PublishCard, Goto, Moves
<1>3. new[p] = 2 /\ Begun /\ pc[p] \in Past /\ Keys.seed = 2
  BY <1>2 DEF RaceInv, RotatorHeld, CarrierHeld, Past
<1>4. x \in StateDirs /\ x.card = 2 /\ x.journal = State.journal /\ x.config = State.config
  BY <1>1 DEF DiskHeld, StateDirs
<1>5. Put("state", x)
  BY <1>3 DEF PublishCard, RenameCard
<1> HIDE DEF x
<1>6. DiskOK' /\ SameKeys /\ State' = x
  BY <1>1, <1>4, <1>5, PutState DEF RaceInv
<1>7. QED
  BY <1>1, <1>2, <1>3, <1>4, <1>6, CardTaken DEF SameKeys

\* The rotation removes its journal.
LEMMA DropJournalRaces ==
    ASSUME NEW p \in Commands, RaceInv, DropJournal(p)
    PROVE  RaceHeld' /\ DiskOK'
<1> DEFINE x == [State EXCEPT !.journal = Absent]
<1>1. DiskHeld /\ LossesKept /\ UNCHANGED <<seen, new, journal, told, issued, used>>
  BY DiskTypes DEF RaceInv, DropJournal, LossesKept
<1>2. pc[p] = "dropJournal" /\ Moves(p, "syncDropped") /\ State.config
  BY DEF RaceInv, IdentityTypeOK, InstallerHeld, Installing, DropJournal, Goto, Moves
<1>3. Done /\ pc[p] \in Past
  BY <1>2 DEF RaceInv, CarrierHeld, Past
<1>4. /\ x \in StateDirs /\ x.card = State.card /\ x.journal = Absent
      /\ x.config = State.config
  BY <1>1 DEF DiskHeld, StateDirs, Absent
<1>5. Put("state", x)
  BY DEF DropJournal, Unlink
<1> HIDE DEF x
<1>6. DiskOK' /\ SameKeys /\ State' = x
  BY <1>1, <1>4, <1>5, PutState DEF RaceInv
<1>7. QED
  BY <1>1, <1>2, <1>3, <1>4, <1>6, JournalTaken DEF SameKeys

\* The seed in place is backed up.
LEMMA BackUpRaces ==
    ASSUME NEW p \in Commands, RaceInv, BackUp(p)
    PROVE  RaceHeld' /\ DiskOK'
<1> DEFINE x == [Keys EXCEPT !.backups = @ \cup {Keys.seed}]
<1>1. DiskHeld /\ LossesKept /\ UNCHANGED <<seen, new, journal, told, issued, used>>
  BY DiskTypes DEF RaceInv, BackUp, LossesKept
<1>2. pc[p] = "backUp" /\ Moves(p, "stageSeed") /\ State.config
  BY DEF RaceInv, IdentityTypeOK, InstallerHeld, Installing, BackUp, Goto, Moves
<1>3. pc[p] \in Fresh /\ Keys.seed = 1
  BY <1>2 DEF RaceInv, RotatorHeld, Fresh
<1>4. /\ x \in KeyDirs /\ x.seed = Keys.seed /\ 1 \in x.backups
      /\ Keys.backups \subseteq x.backups
  BY <1>1, <1>3 DEF DiskHeld, KeyDirs
<1>5. PutSynced("keys", x)
  BY DEF BackUp
<1> HIDE DEF x
<1>6. DiskOK' /\ SameState /\ Keys' = x
  BY <1>1, <1>4, <1>5, PutSyncedKeys DEF RaceInv
<1>7. QED
  BY <1>1, <1>2, <1>3, <1>4, <1>6, Prepared DEF SameState

\* The new seed is staged.
LEMMA StageSeedRaces ==
    ASSUME NEW p \in Commands, RaceInv, StageSeed(p)
    PROVE  RaceHeld' /\ DiskOK'
<1> DEFINE x == [Keys EXCEPT !.staged = @ \cup {2}]
<1>1. DiskHeld /\ LossesKept /\ UNCHANGED <<seen, new, journal, told, issued, used>>
  BY DiskTypes DEF RaceInv, StageSeed, LossesKept
<1>2. pc[p] = "stageSeed" /\ Moves(p, "stageCard") /\ State.config
  BY DEF RaceInv, IdentityTypeOK, InstallerHeld, Installing, StageSeed, Goto, Moves
<1>3. pc[p] \in Fresh /\ pc[p] \in Staging /\ new[p] = 2 /\ 1 \in Keys.backups
  BY <1>2 DEF RaceInv, RotatorHeld, AccountHeld, Fresh, Staging
<1>4. x \in KeyDirs /\ x.seed = Keys.seed /\ x.backups = Keys.backups /\ 2 \in x.staged
  BY <1>1 DEF DiskHeld, KeyDirs
<1>5. Put("keys", x)
  BY <1>3 DEF StageSeed
<1> HIDE DEF x
<1>6. DiskOK' /\ SameState /\ Keys' = x
  BY <1>1, <1>4, <1>5, PutKeys DEF RaceInv
<1>7. QED
  BY <1>1, <1>2, <1>3, <1>4, <1>6, Prepared DEF SameState

\* The new card is staged.
LEMMA StageCardRaces ==
    ASSUME NEW p \in Commands, RaceInv, StageCard(p)
    PROVE  RaceHeld' /\ DiskOK'
<1> DEFINE x == [State EXCEPT !.staged = @ \cup {2}]
<1>1. DiskHeld /\ LossesKept /\ UNCHANGED <<seen, new, journal, told, issued, used>>
  BY DiskTypes DEF RaceInv, StageCard, LossesKept
<1>2. pc[p] = "stageCard" /\ Moves(p, "syncStaged") /\ State.config
  BY DEF RaceInv, IdentityTypeOK, InstallerHeld, Installing, StageCard, Goto, Moves
<1>3. /\ pc[p] \in Fresh /\ pc[p] \in Staging /\ new[p] = 2 /\ 1 \in Keys.backups
      /\ 2 \in Keys.staged
  BY <1>2 DEF RaceInv, RotatorHeld, AccountHeld, Fresh, Staging
<1>4. /\ x \in StateDirs /\ x.card = State.card /\ x.journal = State.journal
      /\ x.config = State.config /\ 2 \in x.staged
  BY <1>1 DEF DiskHeld, StateDirs
<1>5. Put("state", x)
  BY <1>3 DEF StageCard
<1> HIDE DEF x
<1>6. DiskOK' /\ SameKeys /\ State' = x
  BY <1>1, <1>4, <1>5, PutState DEF RaceInv
<1>7. QED
  BY <1>1, <1>2, <1>3, <1>4, <1>6, Prepared DEF SameKeys

\* The journal names both staged files.
LEMMA WriteJournalRaces ==
    ASSUME NEW p \in Commands, RaceInv, WriteJournal(p)
    PROVE  RaceHeld' /\ DiskOK'
<1> DEFINE x == [State EXCEPT !.journal = 2]
<1>1. DiskHeld /\ LossesKept /\ UNCHANGED <<seen, new, journal, told, issued, used>>
  BY DiskTypes DEF RaceInv, WriteJournal, LossesKept
<1>2. pc[p] = "writeJournal" /\ Moves(p, "syncJournal") /\ State.config
  BY DEF RaceInv, IdentityTypeOK, InstallerHeld, Installing, WriteJournal, Goto, Moves
<1>3. new[p] = 2
  BY <1>2 DEF RaceInv, RotatorHeld, Fresh
<1>4. /\ x \in StateDirs /\ x.card = State.card /\ x.staged = State.staged
      /\ x.journal = 2 /\ x.config = State.config
  BY <1>1 DEF DiskHeld, StateDirs
<1>5. Put("state", x)
  BY <1>3 DEF WriteJournal
<1> HIDE DEF x
<1>6. DiskOK' /\ SameKeys /\ State' = x
  BY <1>1, <1>4, <1>5, PutState DEF RaceInv
<1>7. QED
  BY <1>1, <1>2, <1>4, <1>6, JournalPlaced DEF SameKeys

\* What the handler's clean-up makes of the directories.
LEMMA ClearedDisk ==
    ASSUME NEW p \in Commands, IdentityTypeOK, LossesKept, Abort(p)
    PROVE  /\ DiskOK'
           /\ Keys'.seed = Keys.seed /\ Keys'.backups = Keys.backups
           /\ State'.card = State.card /\ State'.journal = State.journal
           /\ State'.config = State.config
           /\ pc[p] \notin Staging => SameKeys /\ SameState
<1> DEFINE n == new[p]
           x == [Keys EXCEPT !.staged = @ \ {n}]
           y == [State EXCEPT !.staged = @ \ {n}]
<1>1. DiskHeld /\ Keys = Last(disk["keys"]) /\ State = Last(disk["state"])
  BY DiskTypes DEF Keys, State, Now
<1>2. x \in KeyDirs /\ x.seed = Keys.seed /\ x.backups = Keys.backups
  BY <1>1 DEF DiskHeld, KeyDirs
<1>3. /\ y \in StateDirs /\ y.card = State.card /\ y.journal = State.journal
      /\ y.config = State.config
  BY <1>1 DEF DiskHeld, StateDirs
<1>4. /\ DOMAIN disk' = Dirs
      /\ disk'["keys"] \in {Append(disk["keys"], x), disk["keys"]}
      /\ disk'["state"] \in {Append(disk["state"], y), disk["state"]}
      /\ pc[p] \notin Staging => disk'["keys"] = disk["keys"] /\ disk'["state"] = disk["state"]
  BY DEF Abort, Cleared, Dirs, Keys, State
<1> HIDE DEF x, y, n
<1>5. disk["keys"] \in Seq(KeyDirs) \ {<<>>} /\ disk["state"] \in Seq(StateDirs) \ {<<>>}
  BY DEF IdentityTypeOK
<1>6. disk'["keys"] \in Seq(KeyDirs) \ {<<>>} /\ Last(disk'["keys"]) \in {x, Keys}
  <2>1. CASE disk'["keys"] = Append(disk["keys"], x)
    BY <1>2, <1>5, <2>1 DEF Last
  <2>2. CASE disk'["keys"] = disk["keys"]
    BY <1>1, <1>5, <2>2
  <2>3. QED
    BY <1>4, <2>1, <2>2
<1>7. disk'["state"] \in Seq(StateDirs) \ {<<>>} /\ Last(disk'["state"]) \in {y, State}
  <2>1. CASE disk'["state"] = Append(disk["state"], y)
    BY <1>3, <1>5, <2>1 DEF Last
  <2>2. CASE disk'["state"] = disk["state"]
    BY <1>1, <1>5, <2>2
  <2>3. QED
    BY <1>4, <2>1, <2>2
<1>8. DiskOK' /\ Keys' \in {x, Keys} /\ State' \in {y, State}
  BY <1>4, <1>6, <1>7 DEF DiskOK, Keys, State, Now
<1>9. pc[p] \notin Staging => SameKeys /\ SameState
  BY <1>4 DEF SameKeys, SameState, Keys, State, Now, Rests, LossesKept
<1>10. QED
  BY <1>2, <1>3, <1>8, <1>9

\* The handler: it takes back what the one rotation has staged before its journal.
LEMMA AbortRaces ==
    ASSUME NEW p \in Commands, RaceInv, LossesKept, Abort(p), pc[p] # "syncJournal"
    PROVE  RaceHeld' /\ DiskOK'
<1>1. Moves(p, "idle") /\ UNCHANGED <<seen, new, journal, told, issued, used>>
  BY DEF RaceInv, IdentityTypeOK, Abort, Moves
<1>2. /\ DiskOK' /\ Keys'.seed = Keys.seed /\ Keys'.backups = Keys.backups
      /\ State'.card = State.card /\ State'.journal = State.journal
      /\ State'.config = State.config
      /\ pc[p] \notin Staging => SameKeys /\ SameState
  BY ClearedDisk DEF RaceInv
<1>3. CASE pc[p] \in Staging
  <2>1. pc[p] \in Fresh /\ State.config /\ 1 \in Keys.backups
    BY <1>3 DEF RaceInv, InstallerHeld, AccountHeld, Installing, Fresh, Staging
  <2>2. QED
    BY <1>1, <1>2, <1>3, <2>1, Prepared
<1>4. CASE pc[p] \notin Staging
  BY <1>1, <1>2, <1>4, EndRaces DEF SameState, SameKeys, SameFiles
<1>5. QED
  BY <1>3, <1>4

\* While nothing is configured, `mas init` is alone.
LEMMA Unconfigured ==
    ASSUME RaceInv, ~State.config
    PROVE  \A q \in Commands : pc[q] \in {"idle"} \cup Installing
BY DEF RaceInv, InstallerHeld

\* What a step of `mas init` keeps before the config: nothing rotates.
LEMMA InstallFrame ==
    ASSUME NEW p \in Commands, \A q \in Commands : q # p => pc'[q] = "idle",
           pc'[p] \in Installing \cup {"installDb"}, used' = {}, issued' = 1, NumbersHeld',
           State'.journal = Absent, Keys'.seed = 1, InstallerHeld(p)'
    PROVE  RaceHeld'
<1>1. AccountHeld'
  <2>1. \A q \in Commands : pc'[q] \notin {"backUp"} \cup Staging
    BY DEF Installing, Staging
  <2>2. QED
    BY <2>1 DEF AccountHeld, Begun, Done, Absent
<1>2. ASSUME NEW q \in Commands PROVE LocalHeld(q)'
  <2>1. pc'[q] \in {"idle"} \cup Installing \cup {"installDb"}
    OBVIOUS
  <2>2. RotatorHeld(q)' /\ CarrierHeld(q)' /\ ReaderHeld(q)'
    BY <2>1 DEF RotatorHeld, CarrierHeld, ReaderHeld, Installing, Fresh, Past, Redoing
  <2>3. InstallerHeld(q)'
    BY DEF InstallerHeld, Installing
  <2>4. QED
    BY <2>2, <2>3 DEF LocalHeld
<1>3. QED
  BY <1>1, <1>2 DEF RaceHeld

\* `mas init` stores the first seed.
LEMMA InstallSeedRaces ==
    ASSUME NEW p \in Commands, RaceInv, InstallSeed(p)
    PROVE  RaceHeld' /\ DiskOK'
<1> DEFINE x == [Keys EXCEPT !.seed = 1]
<1>1. DiskHeld /\ LossesKept /\ UNCHANGED <<seen, journal, told, used>>
  BY DiskTypes DEF RaceInv, InstallSeed, LossesKept
<1>2. Keys.seed = Absent /\ issued = 0 /\ ~State.config /\ issued' = 1 /\ new'[p] = 1
  <2>1. Keys.seed = Absent /\ issued' = issued + 1 /\ new' = [new EXCEPT ![p] = issued']
    BY DEF InstallSeed
  <2>2. issued = 0 /\ ~State.config
    BY <2>1 DEF RaceInv, NumbersHeld
  <2>3. QED
    BY <2>1, <2>2 DEF RaceInv, IdentityTypeOK
<1>3. Moves(p, "installCard") /\ \A q \in Commands : pc[q] = "idle"
  <2>1. \A q \in Commands : pc[q] = "idle"
    BY <1>2, Unconfigured DEF RaceInv, InstallerHeld, Absent
  <2>2. QED
    BY <2>1 DEF RaceInv, IdentityTypeOK, InstallSeed, Goto, Moves
<1>4. x \in KeyDirs /\ x.seed = 1
  BY <1>1 DEF DiskHeld, KeyDirs
<1>5. PutSynced("keys", x)
  BY <1>2 DEF InstallSeed
<1> HIDE DEF x
<1>6. DiskOK' /\ SameState /\ Keys' = x
  BY <1>1, <1>4, <1>5, PutSyncedKeys DEF RaceInv
<1>7. used' = {} /\ State'.journal = Absent /\ State.card <= 0
  BY <1>1, <1>2, <1>6 DEF RaceInv, NumbersHeld, SameState, Absent
<1>8. NumbersHeld'
  <2>1. State.card \in Nat
    BY <1>1 DEF DiskHeld, StateDirs
  <2>2. QED
    BY <1>1, <1>2, <1>4, <1>6, <1>7, <2>1 DEF NumbersHeld, SameState, Absent
<1>9. InstallerHeld(p)'
  BY <1>2, <1>3, <1>4, <1>6, <1>7 DEF InstallerHeld, Installing, Moves, SameState
<1>10. RaceHeld'
  BY <1>2, <1>3, <1>4, <1>6, <1>7, <1>8, <1>9, InstallFrame DEF Moves, Installing
<1>11. QED
  BY <1>6, <1>10

\* Its card.
LEMMA InstallCardRaces ==
    ASSUME NEW p \in Commands, RaceInv, InstallCard(p)
    PROVE  RaceHeld' /\ DiskOK'
<1> DEFINE x == [State EXCEPT !.card = 1]
<1>1. DiskHeld /\ LossesKept /\ UNCHANGED <<seen, new, journal, told, issued, used>>
  BY DiskTypes DEF RaceInv, InstallCard, LossesKept
<1>2. pc[p] = "installCard" /\ Moves(p, "installConfig")
  BY DEF RaceInv, IdentityTypeOK, InstallCard, Goto, Moves
<1>3. /\ ~State.config /\ State.journal = Absent /\ Keys.seed = 1 /\ new[p] = 1
      /\ \A q \in Commands : q # p => pc[q] \notin Installing
  BY <1>2 DEF RaceInv, InstallerHeld, Installing
<1>4. \A q \in Commands : q # p => pc'[q] = "idle"
  BY <1>2, <1>3, Unconfigured DEF Moves
<1>5. used = {} /\ issued = 1
  BY <1>3 DEF RaceInv, IdentityTypeOK, NumbersHeld
<1>6. /\ x \in StateDirs /\ x.card = 1 /\ x.journal = State.journal
      /\ x.config = State.config
  BY <1>1 DEF DiskHeld, StateDirs
<1>7. PutSynced("state", x)
  BY <1>3 DEF InstallCard
<1> HIDE DEF x
<1>8. DiskOK' /\ SameKeys /\ State' = x
  BY <1>1, <1>6, <1>7, PutSyncedState DEF RaceInv
<1>9. NumbersHeld'
  BY <1>1, <1>3, <1>5, <1>6, <1>8 DEF NumbersHeld, SameKeys, Absent
<1>10. InstallerHeld(p)'
  BY <1>1, <1>2, <1>3, <1>4, <1>6, <1>8 DEF InstallerHeld, Installing, Moves, SameKeys
<1>11. RaceHeld'
  BY <1>1, <1>2, <1>3, <1>4, <1>5, <1>6, <1>8, <1>9, <1>10, InstallFrame
     DEF Moves, Installing, SameKeys
<1>12. QED
  BY <1>8, <1>11

\* Its config: from here on other commands run.
LEMMA InstallConfigRaces ==
    ASSUME NEW p \in Commands, RaceInv, InstallConfig(p)
    PROVE  RaceHeld' /\ DiskOK'
<1> DEFINE x == [State EXCEPT !.config = TRUE]
<1>1. DiskHeld /\ LossesKept /\ UNCHANGED <<seen, new, journal, told, issued, used>>
  BY DiskTypes DEF RaceInv, InstallConfig, LossesKept
<1>2. pc[p] = "installConfig" /\ Moves(p, "installDb")
  BY DEF RaceInv, IdentityTypeOK, InstallConfig, Goto, Moves
<1>3. /\ ~State.config /\ State.journal = Absent /\ Keys.seed = 1 /\ State.card = 1
      /\ \A q \in Commands : q # p => pc[q] \notin Installing
  BY <1>2 DEF RaceInv, InstallerHeld, Installing
<1>4. \A q \in Commands : q # p => pc'[q] = "idle"
  BY <1>2, <1>3, Unconfigured DEF Moves
<1>5. used = {} /\ issued = 1
  BY <1>3 DEF RaceInv, IdentityTypeOK, NumbersHeld
<1>6. x \in StateDirs /\ x.card = 1 /\ x.journal = State.journal /\ x.config
  BY <1>1, <1>3 DEF DiskHeld, StateDirs
<1>7. PutSynced("state", x)
  BY DEF InstallConfig
<1> HIDE DEF x
<1>8. DiskOK' /\ SameKeys /\ State' = x
  BY <1>1, <1>6, <1>7, PutSyncedState DEF RaceInv
<1>9. NumbersHeld'
  BY <1>1, <1>3, <1>5, <1>6, <1>8 DEF NumbersHeld, Paired, SameKeys, Absent
<1>10. InstallerHeld(p)'
  BY <1>2, <1>6, <1>8 DEF InstallerHeld, Installing, Moves
<1>11. RaceHeld'
  BY <1>1, <1>2, <1>3, <1>4, <1>5, <1>6, <1>8, <1>9, <1>10, InstallFrame
     DEF Moves, Installing, SameKeys
<1>12. QED
  BY <1>8, <1>11

\* Its database.
LEMMA InstallDbRaces ==
    ASSUME NEW p \in Commands, RaceInv, InstallDb(p)
    PROVE  RaceHeld' /\ DiskOK'
<1> DEFINE x == [State EXCEPT !.db = TRUE]
<1>1. DiskHeld /\ LossesKept /\ UNCHANGED <<seen, new, journal, told, issued, used>>
  BY DiskTypes DEF RaceInv, InstallDb, LossesKept
<1>2. Moves(p, "idle")
  BY DEF RaceInv, IdentityTypeOK, InstallDb, Goto, Moves
<1>3. /\ x \in StateDirs /\ x.card = State.card /\ x.staged = State.staged
      /\ x.journal = State.journal /\ x.config = State.config
  BY <1>1 DEF DiskHeld, StateDirs
<1>4. PutSynced("state", x)
  BY DEF InstallDb
<1> HIDE DEF x
<1>5. DiskOK' /\ SameKeys /\ State' = x
  BY <1>1, <1>3, <1>4, PutSyncedState DEF RaceInv
<1>6. SameFiles
  BY <1>3, <1>5 DEF SameFiles, SameKeys
<1>7. RaceHeld'
  BY <1>1, <1>2, <1>6, EndRaces
<1>8. QED
  BY <1>5, <1>7

RaceStays == RaceHeld' /\ DiskOK' /\ TypesHeld' /\ OneRotation'

\* A refusal or a kill is counted down, and no power loss is left.
LEMMA RaceSpent ==
    ASSUME OneRotation, left \in ScenarioType, Spend("faults") \/ Spend("kills")
    PROVE  left' \in ScenarioType /\ OneRotation' /\ LossesKept
<1>1. CASE Spend("faults")
  <2>1. left["faults"] \in Nat /\ left["faults"] > 0
    BY <1>1 DEF ScenarioType, Spend
  <2>2. left' = [left EXCEPT !["faults"] = left["faults"] - 1] /\ left["faults"] - 1 \in Nat
    BY <1>1, <2>1 DEF Spend
  <2>3. left' \in ScenarioType
    BY <2>2 DEF ScenarioType
  <2>4. left'.identities = left.identities /\ left'.losses = left.losses
    BY <2>2 DEF ScenarioType
  <2>5. QED
    BY <2>3, <2>4 DEF OneRotation, LossesKept
<1>2. CASE Spend("kills")
  <2>1. left["kills"] \in Nat /\ left["kills"] > 0
    BY <1>2 DEF ScenarioType, Spend
  <2>2. left' = [left EXCEPT !["kills"] = left["kills"] - 1] /\ left["kills"] - 1 \in Nat
    BY <1>2, <2>1 DEF Spend
  <2>3. left' \in ScenarioType
    BY <2>2 DEF ScenarioType
  <2>4. left'.identities = left.identities /\ left'.losses = left.losses
    BY <2>2 DEF ScenarioType
  <2>5. QED
    BY <2>3, <2>4 DEF OneRotation, LossesKept
<1>3. QED
  BY <1>1, <1>2

\* What a command does that touches no file.
LEMMA QuietRaces ==
    ASSUME NEW p \in Commands, RaceInv,
           \/ Load(p) \/ ReadJournal(p) \/ ReadSeed(p) \/ ReadCard(p) \/ Finish(p) \/ Rotate(p)
           \/ (\E r \in Peers : Notify(p, r)) \/ AllNotified(p) \/ SaveAnnouncement(p)
    PROVE  RaceStays
<1>1. disk' = disk /\ left' = left
  BY DEF Load, ReadJournal, ReadSeed, ReadCard, Finish, Rotate, Notify, AllNotified,
     SaveAnnouncement
<1>2. DiskOK' /\ SameKeys /\ SameState /\ DiskHeld
  BY <1>1, DiskTypes, Untouched DEF RaceInv, LossesKept
<1>3. OneRotation'
  BY <1>1 DEF RaceInv, OneRotation
<1>4. Keys.seed \in Nat /\ State.journal \in Nat /\ Absent \in Nat
  BY <1>2 DEF DiskHeld, KeyDirs, StateDirs, Absent
<1>5. CASE Load(p)
  <2>1. TypesHeld'
    BY <1>4, <1>5 DEF RaceInv, IdentityTypeOK, TypesHeld, Load, Goto
  <2>2. QED
    BY <1>2, <1>3, <1>5, <2>1, LoadRaces DEF RaceStays
<1>6. CASE ReadJournal(p)
  <2>1. TypesHeld'
    BY <1>4, <1>6 DEF RaceInv, IdentityTypeOK, TypesHeld, ReadJournal, Goto
  <2>2. QED
    BY <1>2, <1>3, <1>6, <2>1, ReadJournalRaces DEF RaceStays
<1>7. CASE ReadSeed(p)
  <2>1. TypesHeld'
    BY <1>4, <1>7 DEF RaceInv, IdentityTypeOK, TypesHeld, ReadSeed, Goto
  <2>2. QED
    BY <1>2, <1>3, <1>7, <2>1, ReadSeedRaces DEF RaceStays
<1>8. CASE ReadCard(p)
  <2>1. TypesHeld'
    BY <1>4, <1>8 DEF RaceInv, IdentityTypeOK, TypesHeld, ReadCard, Goto
  <2>2. QED
    BY <1>2, <1>3, <1>8, <2>1, ReadCardRaces DEF RaceStays
<1>9. CASE Rotate(p)
  <2>1. TypesHeld'
    BY <1>4, <1>9 DEF RaceInv, IdentityTypeOK, TypesHeld, Rotate, Goto
  <2>2. QED
    BY <1>2, <1>3, <1>9, <2>1, RotateRaces DEF RaceStays
<1>10. CASE AllNotified(p)
  <2>1. TypesHeld'
    BY <1>4, <1>10 DEF RaceInv, IdentityTypeOK, TypesHeld, AllNotified, Goto
  <2>2. QED
    BY <1>2, <1>3, <1>10, <2>1, AllNotifiedRaces DEF RaceStays
<1>11. CASE \E r \in Peers : Notify(p, r)
  <2>1. PICK r \in Peers : Notify(p, r)
    BY <1>11
  <2>2. TypesHeld'
    BY <2>1 DEF RaceInv, IdentityTypeOK, TypesHeld, Notify
  <2>3. QED
    BY <1>2, <1>3, <2>1, <2>2, NotifyRaces DEF RaceStays
<1>12. CASE Finish(p) \/ SaveAnnouncement(p)
  <2>1. /\ pc' = [pc EXCEPT ![p] = "idle"]
        /\ UNCHANGED <<seen, new, journal, told, issued, used, left>>
    BY <1>12 DEF Finish, SaveAnnouncement, Goto
  <2>2. Moves(p, "idle")
    BY <2>1 DEF RaceInv, IdentityTypeOK, Moves
  <2>3. TypesHeld'
    BY <2>1 DEF RaceInv, IdentityTypeOK, TypesHeld
  <2>4. RaceHeld'
    BY <1>2, <2>1, <2>2, EndRaces DEF SameKeys, SameState, SameFiles
  <2>5. QED
    BY <1>2, <1>3, <2>3, <2>4 DEF RaceStays
<1>13. QED
  BY <1>5, <1>6, <1>7, <1>8, <1>9, <1>10, <1>11, <1>12

\* The fsyncs.
LEMMA SyncsRace ==
    ASSUME NEW p \in Commands, RaceInv,
           \/ RedoSync(p) \/ RedoDone(p) \/ SyncStaged(p) \/ SyncJournal(p) \/ SyncPair(p)
           \/ SyncDropped(p)
    PROVE  RaceStays
<1>1. UNCHANGED <<seen, new, journal, issued, left>> /\ DOMAIN pc' = Commands
  BY DEF RaceInv, IdentityTypeOK, RedoSync, RedoDone, SyncStaged, SyncJournal, SyncPair,
     SyncDropped, Goto
<1>2. TypesHeld' /\ OneRotation' /\ LossesKept
  BY <1>1 DEF RaceInv, IdentityTypeOK, TypesHeld, OneRotation, LossesKept
<1>3. DiskOK'
  BY <1>2, SyncBoth, SyncState DEF RaceInv, RedoSync, RedoDone, SyncStaged, SyncJournal,
     SyncPair, SyncDropped
<1>4. RaceHeld'
  BY RedoSyncRaces, RedoDoneRaces, SyncStagedRaces, SyncJournalRaces, SyncPairRaces,
     SyncDroppedRaces
<1>5. QED
  BY <1>2, <1>3, <1>4 DEF RaceStays

\* The writes, of `mas init`, of a recovery and of a rotation.
LEMMA WritesRace ==
    ASSUME NEW p \in Commands, RaceInv,
           \/ InstallSeed(p) \/ InstallCard(p) \/ InstallConfig(p) \/ InstallDb(p)
           \/ RedoSeed(p) \/ RedoCard(p) \/ RedoUnlink(p) \/ BackUp(p)
           \/ StageSeed(p) \/ StageCard(p) \/ WriteJournal(p)
           \/ PublishSeed(p) \/ PublishCard(p) \/ DropJournal(p)
    PROVE  RaceStays
<1>1. left' = left /\ DOMAIN pc' = Commands /\ UNCHANGED <<seen, journal>>
  BY DEF RaceInv, IdentityTypeOK, InstallSeed, InstallCard, InstallConfig, InstallDb, RedoSeed,
     RedoCard, RedoUnlink, BackUp, StageSeed, StageCard, WriteJournal, PublishSeed, PublishCard,
     DropJournal, Goto
<1>2. issued' \in Nat /\ new' \in [Commands -> Nat]
  <2>1. CASE InstallSeed(p)
    BY <2>1 DEF RaceInv, IdentityTypeOK, InstallSeed
  <2>2. CASE ~InstallSeed(p)
    <3>1. UNCHANGED <<new, issued>>
      BY <2>2 DEF InstallCard, InstallConfig, InstallDb, RedoSeed, RedoCard, RedoUnlink,
         BackUp, StageSeed, StageCard, WriteJournal, PublishSeed, PublishCard, DropJournal
    <3>2. QED
      BY <3>1 DEF RaceInv, IdentityTypeOK
  <2>3. QED
    BY <2>1, <2>2
<1>3. TypesHeld' /\ OneRotation'
  BY <1>1, <1>2 DEF RaceInv, IdentityTypeOK, TypesHeld, OneRotation
<1>4. RaceHeld' /\ DiskOK'
  BY InstallSeedRaces, InstallCardRaces, InstallConfigRaces, InstallDbRaces, RedoSeedRaces,
     RedoCardRaces, RedoUnlinkRaces, BackUpRaces, StageSeedRaces, StageCardRaces,
     WriteJournalRaces, PublishSeedRaces, PublishCardRaces, DropJournalRaces
<1>5. QED
  BY <1>3, <1>4 DEF RaceStays

\* What ends a command early.
LEMMA FailuresRace ==
    ASSUME NEW p \in Commands, RaceInv,
           FileTaken(p) \/ NotifyFails(p) \/ Refused(p) \/ Kill(p)
    PROVE  RaceStays
<1>1. OneRotation /\ left \in ScenarioType /\ IdentityTypeOK
  BY DEF RaceInv, IdentityTypeOK
<1>2. CASE FileTaken(p) \/ Refused(p)
  <2>1. Abort(p) /\ pc[p] # "syncJournal"
    BY <1>1, <1>2 DEF FileTaken, Missing, Refused, OneRotation
  <2>2. left' = left \/ Spend("faults")
    BY <1>2 DEF FileTaken, Refused
  <2>3. left' \in ScenarioType /\ OneRotation' /\ LossesKept
    BY <1>1, <2>2, RaceSpent DEF OneRotation, LossesKept
  <2>4. RaceHeld' /\ DiskOK'
    BY <2>1, <2>3, AbortRaces
  <2>5. QED
    BY <1>1, <2>1, <2>3, <2>4 DEF RaceStays, TypesHeld, Abort, IdentityTypeOK
<1>3. CASE NotifyFails(p) \/ Kill(p)
  <2>1. /\ disk' = disk /\ Moves(p, "idle") /\ DOMAIN pc' = Commands
        /\ UNCHANGED <<seen, new, journal, told, issued, used>>
    BY <1>1, <1>3 DEF NotifyFails, Kill, Goto, Moves, IdentityTypeOK
  <2>2. Spend("faults") \/ Spend("kills")
    BY <1>3 DEF NotifyFails, Kill
  <2>3. left' \in ScenarioType /\ OneRotation' /\ LossesKept
    BY <1>1, <2>2, RaceSpent
  <2>4. DiskOK' /\ SameKeys /\ SameState
    BY <1>1, <2>1, <2>3, Untouched
  <2>5. RaceHeld'
    BY <2>1, <2>4, EndRaces DEF SameKeys, SameState, SameFiles
  <2>6. QED
    BY <1>1, <2>1, <2>3, <2>4, <2>5 DEF RaceStays, TypesHeld, IdentityTypeOK
<1>4. QED
  BY <1>2, <1>3

\* Every step of every command keeps the invariant.
LEMMA RaceStep ==
    ASSUME RaceInv, [Next]_vars
    PROVE  RaceInv'
<1>1. SUFFICES RaceStays
  BY DEF RaceStays, RaceHeld, LocalHeld, DiskOK, TypesHeld, RaceInv, IdentityTypeOK
<1>2. CASE PowerLoss
  BY <1>2 DEF RaceInv, OneRotation, PowerLoss, Spend
<1>3. CASE \E p \in left.commands : Proceed(p) \/ NotifyFails(p) \/ Refused(p) \/ Kill(p)
  <2>1. PICK p \in left.commands : Proceed(p) \/ NotifyFails(p) \/ Refused(p) \/ Kill(p)
    BY <1>3
  <2>2. p \in Commands
    BY DEF RaceInv, IdentityTypeOK, ScenarioType
  <2>3. QED
    BY <2>1, <2>2, QuietRaces, SyncsRace, WritesRace, FailuresRace DEF Proceed, Recover, Publish
<1>4. CASE UNCHANGED vars
  <2>1. DiskOK' /\ SameKeys /\ SameState
    BY <1>4, Untouched DEF RaceInv, LossesKept, vars
  <2>2. TypesHeld' /\ OneRotation'
    BY <1>4 DEF RaceInv, IdentityTypeOK, TypesHeld, OneRotation, vars
  <2>3. UNCHANGED <<pc, seen, new, journal, told, issued, used>>
    BY <1>4 DEF vars
  <2>4. NumbersHeld' /\ (Begun' <=> Begun) /\ (Done' <=> Done)
    BY <2>1, <2>3 DEF RaceInv, NumbersHeld, SameKeys, SameState, Begun, Done
  <2>5. AccountHeld'
    BY <2>1, <2>3, <2>4 DEF RaceInv, AccountHeld, Announced, SameKeys, SameState
  <2>6. ASSUME NEW q \in Commands PROVE LocalHeld(q)'
    BY <2>1, <2>3, <2>4 DEF RaceInv, LocalHeld, InstallerHeld, RotatorHeld, CarrierHeld,
       ReaderHeld, SameKeys, SameState
  <2>7. QED
    BY <2>1, <2>2, <2>4, <2>5, <2>6 DEF RaceStays, RaceHeld
<1>5. QED
  BY <1>2, <1>3, <1>4 DEF Next

\* It holds of the empty directories.
LEMMA RaceInit ==
    ASSUME Init, OneRotation
    PROVE  RaceInv
<1>1. IdentityTypeOK
  <2>1. left \in ScenarioType
    BY IdentityAssumption DEF Init
  <2>2. /\ DOMAIN disk = Dirs /\ disk["keys"] = <<[seed |-> 0, staged |-> {}, backups |-> {}]>>
        /\ disk["state"] = <<[card |-> 0, staged |-> {}, journal |-> 0,
                              config |-> FALSE, db |-> FALSE]>>
    BY DEF Init, Dirs, Absent
  <2>3. /\ [seed |-> 0, staged |-> {}, backups |-> {}] \in KeyDirs
        /\ [card |-> 0, staged |-> {}, journal |-> 0, config |-> FALSE, db |-> FALSE] \in StateDirs
    BY DEF KeyDirs, StateDirs
  <2>4. QED
    BY <2>1, <2>2, <2>3 DEF Init, IdentityTypeOK, Absent
<1>2. \A x : Last(<<x>>) = x
  BY DEF Last
<1>3. /\ Keys = [seed |-> 0, staged |-> {}, backups |-> {}]
      /\ State = [card |-> 0, staged |-> {}, journal |-> 0, config |-> FALSE, db |-> FALSE]
  BY <1>2 DEF Init, Keys, State, Now, Absent
<1>4. /\ used = {} /\ issued = 0 /\ Keys.seed = 0 /\ State.card = 0 /\ State.journal = 0
      /\ ~State.config /\ \A q \in Commands : pc[q] = "idle"
  BY <1>3 DEF Init
<1>5. NumbersHeld
  BY <1>4 DEF NumbersHeld, Absent
<1>6. AccountHeld
  BY <1>4 DEF AccountHeld, Begun, Done, Staging
<1>7. ASSUME NEW q \in Commands
      PROVE  InstallerHeld(q) /\ RotatorHeld(q) /\ CarrierHeld(q) /\ ReaderHeld(q)
  BY <1>4 DEF InstallerHeld, RotatorHeld, CarrierHeld, ReaderHeld, Installing, Fresh, Past,
     Redoing
<1>8. QED
  BY <1>1, <1>5, <1>6, <1>7 DEF RaceInv

\* Whatever the interleaving of a rotation with the recoveries and the other commands, and
\* wherever any of them is killed or refused, the next start makes the seed and the card
\* one identity's again.
THEOREM RacingPairConverges ==
    Spec /\ OneRotation => []PairConverges
<1>1. Init /\ OneRotation => RaceInv
  BY RaceInit
<1>2. RaceInv /\ [Next]_vars => RaceInv'
  BY RaceStep
<1>3. RaceInv => PairConverges
  <2>1. SUFFICES ASSUME RaceInv, State.config
                 PROVE  Redriven(Keys, State).seed = Redriven(Keys, State).card
    BY DEF RaceInv, OneRotation, PairConverges, Leftovers
  <2>2. Paired(Keys, State)
    BY <2>1 DEF RaceInv, NumbersHeld
  <2>3. QED
    BY <2>2 DEF Paired, Redriven
<1>4. QED
  BY <1>1, <1>2, <1>3, PTL DEF Spec

\* And an identity that some command ran under, its seed read at any moment of the rotation,
\* is in place after the next start or backed up, with every peer told of it before.
THEOREM RacingUsedIsAccounted ==
    Spec /\ OneRotation => []UsedIsAccounted
<1>1. Init /\ OneRotation => RaceInv
  BY RaceInit
<1>2. RaceInv /\ [Next]_vars => RaceInv'
  BY RaceStep
<1>3. RaceInv => UsedIsAccounted
  <2>1. SUFFICES ASSUME RaceInv, NEW i \in used
                 PROVE  /\ i = Redriven(Keys, State).seed \/ i \in Keys.backups
                        /\ i # 1 => \A r \in Peers : <<r, i>> \in told
    BY DEF RaceInv, OneRotation, UsedIsAccounted, Leftovers
  <2>2. DiskHeld /\ State.config /\ i \in {1, 2} /\ (i = 2 => Keys.seed = 2)
    BY <2>1, DiskTypes DEF RaceInv, NumbersHeld, AccountHeld
  <2>3. Begun \/ Keys.seed = 2 => 1 \in Keys.backups /\ Announced(2)
    BY <2>1 DEF RaceInv, AccountHeld
  <2>4. i # 1 => \A r \in Peers : <<r, i>> \in told
    BY <2>2, <2>3 DEF Announced
  <2>5. i = Redriven(Keys, State).seed \/ i \in Keys.backups
    <3>1. State.journal \in {0, 2} /\ Keys.seed \in {1, 2}
      BY <2>1, <2>2 DEF RaceInv, IdentityTypeOK, NumbersHeld, DiskHeld, KeyDirs, Absent
    <3>2. QED
      BY <2>2, <2>3, <3>1 DEF Redriven, Begun, Absent
  <2>6. QED
    BY <2>4, <2>5
<1>4. QED
  BY <1>1, <1>2, <1>3, PTL DEF Spec
=============================================================================
