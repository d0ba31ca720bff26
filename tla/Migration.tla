------------------------------ MODULE Migration ------------------------------
(***************************************************************************)
(* The move of a pair from v0.1 to v0.2 (migrate.py): each side stages,     *)
(* verifies, cuts over, observes and may roll back, one command at a time,  *)
(* and a command may stop after any of its writes, because a hook is not    *)
(* wired, raises, or the process dies.  Every write is durable by itself.   *)
(* The v0.1 read adapter (cli.py, compatibility/v01.py) runs beside it.     *)
(***************************************************************************)
EXTENDS Naturals, FiniteSets

CONSTANTS
    Sides,        \* the two ends of the legacy pair
    Readers,      \* sides whose relay still receives v0.1 objects
    Letters,      \* v0.1 objects the relay delivers to a reader, any number of times
    Pollers,      \* processes that poll the reader's relay
    MaxCommands   \* bound: commands a side begins, by side

ASSUME SidesAssumption ==
    /\ IsFiniteSet(Sides) /\ Cardinality(Sides) = 2 /\ Readers \subseteq Sides
    /\ IsFiniteSet(Letters) /\ MaxCommands \in [Sides -> Nat]

Peer(s) == CHOOSE t \in Sides : t # s
None == "none"
Phases == {"idle", "freezing", "staged", "verified", "committed", "complete", "rolled_back"}

VARIABLES
    mig,       \* by side: migration_state, the vault and the rollback bundles; freeze,
               \* path, dek and bundles name the command they come from, 0 is none
    pc,        \* by side: the next write of the command under way, or None
    posted,    \* by side: the ceremony messages it has ever signed
    commands,  \* by side: number of commands begun
    events,    \* by reader: the sender_seq of each letter stored, 0 if not stored
    assigner,  \* by reader: migration.seq_assigner
    guard,     \* by reader: letters in replay_guard
    rx         \* by poller: the letter verified and not yet stored

ceremonyVars == <<mig, pc, posted, commands>>
legacyVars == <<events, assigner, guard, rx>>
vars == <<mig, pc, posted, commands, events, assigner, guard, rx>>

NoRx == [letter |-> None]
Unassigned == [l \in Letters |-> 0]

Init ==
    /\ mig = [s \in Sides |->
                [phase |-> "idle", sends |-> TRUE, freeze |-> 0, key |-> "plain",
                 bundles |-> {}, dek |-> 0, path |-> 0, card |-> FALSE, oldKeys |-> "kept",
                 readOpen |-> FALSE, commit |-> FALSE, drain |-> "none"]]
    /\ pc = [s \in Sides |-> None] /\ posted = [s \in Sides |-> {}] /\ commands = [s \in Sides |-> 0]
    /\ events = [s \in Readers |-> Unassigned]
    /\ assigner = events /\ guard = [s \in Readers |-> {}] /\ rx = [p \in Pollers |-> NoRx]

(***************************************************************************)
(* Running a command                                                       *)
(***************************************************************************)

\* A command checks the phase once, at its start.
Begin(s, phases, first) ==
    /\ pc[s] = None /\ mig[s].phase \in phases
    /\ commands[s] < MaxCommands[s] /\ commands' = [commands EXCEPT ![s] = @ + 1]
    /\ pc' = [pc EXCEPT ![s] = first]

At(s, here, next) ==
    /\ pc[s] = here /\ pc' = [pc EXCEPT ![s] = next]
    /\ UNCHANGED <<commands, legacyVars>>

Stops(s) ==
    /\ pc[s] # None /\ pc' = [pc EXCEPT ![s] = None]
    /\ UNCHANGED <<mig, posted, commands, legacyVars>>

Post(s, kind) == posted' = [posted EXCEPT ![s] = @ \cup {kind}] /\ UNCHANGED mig

\* A message is verified against its sender and the pair; nothing binds it to an attempt.
Has(s, kind) == kind \in posted[Peer(s)] /\ UNCHANGED posted

KeyLoads(m) == m.key # "gone"
Resealed(m) == [m EXCEPT !.key = "sealed"]
WithSends(m, allowed) == [m EXCEPT !.sends = allowed]

(***************************************************************************)
(* stage: steps 1-6                                                        *)
(***************************************************************************)

Stage(s) ==
    /\ Begin(s, {"idle", "rolled_back", "freezing"}, "drain")
    /\ mig' = [mig EXCEPT ![s].phase = "freezing"]
    /\ UNCHANGED <<posted, legacyVars>>

Drain(s) ==
    /\ At(s, "drain", "sends off")
    /\ mig' = [mig EXCEPT ![s].freeze = commands[s]]
    /\ UNCHANGED posted

FreezeSends(s) ==
    /\ At(s, "sends off", "reseal")
    /\ mig' = [mig EXCEPT ![s] = WithSends(@, FALSE)]
    /\ UNCHANGED posted

\* No key in the vault: vault-missing.
Reseal(s) ==
    /\ At(s, "reseal", IF KeyLoads(mig[s]) THEN "drop bundle" ELSE None)
    /\ mig' = IF KeyLoads(mig[s]) THEN [mig EXCEPT ![s] = Resealed(@)] ELSE mig
    /\ UNCHANGED posted

DropOldBundle(s) ==
    /\ At(s, "drop bundle", "bundle")
    /\ mig' = [mig EXCEPT ![s].bundles = @ \ {mig[s].path}]
    /\ UNCHANGED posted

\* create_rollback_bundle writes the bundle, then its key, one entry for all bundles.
WriteBundle(s) ==
    /\ At(s, "bundle", "dek")
    /\ mig' = [mig EXCEPT ![s].bundles = @ \cup {mig[s].freeze}]
    /\ UNCHANGED posted

WriteDek(s) ==
    /\ At(s, "dek", "path")
    /\ mig' = [mig EXCEPT ![s].dek = mig[s].freeze]
    /\ UNCHANGED posted

RecordBundle_Once(s) ==
    /\ At(s, "path", "card")
    /\ mig' = IF mig[s].path = 0 THEN [mig EXCEPT ![s].path = mig[s].freeze] ELSE mig
    /\ UNCHANGED posted

RecordBundle(s) ==
    /\ At(s, "path", "card")
    /\ mig' = [mig EXCEPT ![s].path = mig[s].freeze]
    /\ UNCHANGED posted

SendCard(s) == At(s, "card", "peer card") /\ Post(s, "card")

\* The exchange envelope and the card in it verify, and name the pair and the peer.
CardVerified(s) == "card" \in posted[Peer(s)] /\ UNCHANGED posted

ReceiveCard(s) ==
    /\ At(s, "peer card", "provision") /\ CardVerified(s)
    /\ mig' = [mig EXCEPT ![s].card = TRUE]

\* The humans have compared the phrase; the new deploy key is registered.
Provision(s) ==
    /\ At(s, "provision", "staged")
    /\ mig' = [mig EXCEPT ![s].oldKeys = "kept"]
    /\ UNCHANGED posted

Staged(s) ==
    /\ At(s, "staged", None)
    /\ mig' = [mig EXCEPT ![s].phase = "staged"]
    /\ UNCHANGED posted

(***************************************************************************)
(* verify: steps 7-8                                                       *)
(***************************************************************************)

Verify(s) ==
    /\ Begin(s, {"staged"}, "ready") /\ mig[s].card
    /\ UNCHANGED <<mig, posted, legacyVars>>

SignReady(s) == At(s, "ready", "peer ready") /\ Post(s, "ready")

DualRead(s) ==
    /\ At(s, "peer ready", "prove") /\ Has(s, "ready")
    /\ mig' = [mig EXCEPT ![s].readOpen = TRUE]

\* The proof is the peer's, signed with the identity of its card; counts that differ
\* from the frozen backlog end the command.
Prove(s) ==
    /\ \E match \in BOOLEAN : At(s, "prove", IF match THEN "verified" ELSE None)
    /\ CardVerified(s)
    /\ UNCHANGED mig

Verified(s) ==
    /\ At(s, "verified", None)
    /\ mig' = [mig EXCEPT ![s].phase = "verified"]
    /\ UNCHANGED posted

(***************************************************************************)
(* cutover: step 9                                                         *)
(***************************************************************************)

\* The command line asks for the peer's migration.ready as well.
Cutover(s) ==
    /\ Begin(s, {"verified"}, "commit") /\ mig[s].card /\ Has(s, "ready")
    /\ UNCHANGED <<mig, legacyVars>>

SignCommit_NoWait(s) == At(s, "commit", "revoke") /\ Post(s, "commit")
SignCommit(s) == At(s, "commit", "peer commit") /\ Post(s, "commit")

ReceiveCommit(s) ==
    /\ At(s, "peer commit", "revoke") /\ Has(s, "commit")
    /\ mig' = [mig EXCEPT ![s].commit = TRUE]

\* The old deploy keys go; then the peer's key copy, which has no state here.
RevokeOldKeys(s) ==
    /\ At(s, "revoke", "quiet")
    /\ mig' = [mig EXCEPT ![s].oldKeys = "revoked"]
    /\ UNCHANGED posted

RejectSends(s) ==
    /\ At(s, "quiet", "clock")
    /\ mig' = [mig EXCEPT ![s] = WithSends(@, FALSE)]
    /\ UNCHANGED posted

StartDrain(s) ==
    /\ At(s, "clock", "delete key")
    /\ mig' = [mig EXCEPT ![s].drain = "running", ![s].readOpen = TRUE]
    /\ UNCHANGED posted

DeleteKey(s) ==
    /\ At(s, "delete key", "destroy bundle")
    /\ mig' = [mig EXCEPT ![s].key = "gone"]
    /\ UNCHANGED posted

DestroyBundle(s) ==
    /\ At(s, "destroy bundle", "delete dek")
    /\ mig' = [mig EXCEPT ![s].bundles = @ \ {mig[s].path}]
    /\ UNCHANGED posted

DeleteDek(s) ==
    /\ At(s, "delete dek", "committed")
    /\ mig' = [mig EXCEPT ![s].dek = 0]
    /\ UNCHANGED posted

Committed(s) ==
    /\ At(s, "committed", None)
    /\ mig' = [mig EXCEPT ![s].phase = "committed"]
    /\ UNCHANGED posted

(***************************************************************************)
(* observe: step 10, and rollback                                          *)
(***************************************************************************)

\* Until the window is over the command only reports.  It also refuses to complete
\* while queues hold work or counts differ, which changes nothing here.
Observe(s) ==
    /\ Begin(s, {"committed"}, IF mig[s].drain = "over" THEN "close" ELSE None)
    /\ mig' = IF mig[s].drain = "over" THEN mig ELSE [mig EXCEPT ![s].readOpen = TRUE]
    /\ UNCHANGED <<posted, legacyVars>>

CloseReads(s) ==
    /\ At(s, "close", "complete")
    /\ mig' = [mig EXCEPT ![s].readOpen = FALSE]
    /\ UNCHANGED posted

Complete(s) ==
    /\ At(s, "complete", None)
    /\ mig' = [mig EXCEPT ![s].phase = "complete"]
    /\ UNCHANGED posted

DrainWindowEnds(s) ==
    /\ mig[s].drain = "running"
    /\ mig' = [mig EXCEPT ![s].drain = "over"]
    /\ UNCHANGED <<pc, posted, commands, legacyVars>>

\* v0.1 sends come back before the key is looked for.
Rollback(s) ==
    /\ Begin(s, Phases \ {"committed", "complete", "idle"}, "key check")
    /\ mig' = [mig EXCEPT ![s] = WithSends(@, TRUE)]
    /\ UNCHANGED <<posted, legacyVars>>

RollbackKeyCheck(s) ==
    /\ At(s, "key check", IF KeyLoads(mig[s]) THEN "rolled back" ELSE None)
    /\ UNCHANGED <<mig, posted>>

RolledBack(s) ==
    /\ At(s, "rolled back", None)
    /\ mig' = [mig EXCEPT ![s].phase = "rolled_back"]
    /\ UNCHANGED posted

(***************************************************************************)
(* v0.1 traffic                                                            *)
(***************************************************************************)

\* drain_open: the flag and, once there is one, the clock, whatever attempt set it.
DrainOpen(s) == mig[s].readOpen /\ mig[s].drain # "over"

LegacyAccepted(s) ==
    /\ mig[s].phase \in {"staged", "verified", "committed"}
    /\ KeyLoads(mig[s]) /\ DrainOpen(s)

\* SeqAssigner.assign on the table read before the transaction.
Assign(table, l) ==
    IF table[l] # 0 THEN table
    ELSE [table EXCEPT ![l] = 1 + Cardinality({k \in Letters : table[k] # 0})]

\* verify_v01: a letter that fails any other check is quarantined at every delivery.
LegacyVerified(s, l) == l \notin guard[s]

ReadLegacy_StoresSeq(p, s, l) ==
    /\ rx[p] = NoRx /\ LegacyAccepted(s) /\ LegacyVerified(s, l)
    /\ assigner' = [assigner EXCEPT ![s] = Assign(assigner[s], l)]
    /\ rx' = [rx EXCEPT ![p] = [letter |-> l, side |-> s, table |-> Assign(assigner[s], l)]]
    /\ UNCHANGED <<ceremonyVars, events, guard>>

ReadLegacy(p, s, l) ==
    /\ rx[p] = NoRx /\ LegacyAccepted(s) /\ LegacyVerified(s, l)
    /\ rx' = [rx EXCEPT ![p] = [letter |-> l, side |-> s, table |-> Assign(assigner[s], l)]]
    /\ UNCHANGED <<ceremonyVars, events, assigner, guard>>

\* One transaction; events are unique by id and by (sender, sender_seq).  A conflict
\* rolls it back and quarantines the object.
StoreLegacy(p) ==
    LET s == rx[p].side  l == rx[p].letter  seq == rx[p].table[l]
    IN  /\ rx[p] # NoRx
        /\ IF events[s][l] # 0 \/ \E k \in Letters : events[s][k] = seq
           THEN UNCHANGED <<events, assigner, guard>>
           ELSE /\ events' = [events EXCEPT ![s][l] = seq]
                /\ assigner' = [assigner EXCEPT ![s] = rx[p].table]
                /\ guard' = [guard EXCEPT ![s] = @ \cup {l}]
        /\ rx' = [rx EXCEPT ![p] = NoRx]
        /\ UNCHANGED ceremonyVars

PollerDies(p) ==
    /\ rx[p] # NoRx /\ rx' = [rx EXCEPT ![p] = NoRx]
    /\ UNCHANGED <<ceremonyVars, events, assigner, guard>>

\* replay_guard rows expire with the acceptance window; a letter dated ahead by the
\* tolerance is still young enough then.
PruneGuard(s) ==
    /\ guard[s] # {} /\ guard' = [guard EXCEPT ![s] = {}]
    /\ UNCHANGED <<ceremonyVars, events, assigner, rx>>

(***************************************************************************)
(* Specification                                                           *)
(***************************************************************************)

StageSteps(s) ==
    \/ Stage(s) \/ Drain(s) \/ FreezeSends(s) \/ Reseal(s) \/ DropOldBundle(s)
    \/ WriteBundle(s) \/ WriteDek(s) \/ RecordBundle(s)
    \/ SendCard(s) \/ ReceiveCard(s) \/ Provision(s) \/ Staged(s)

VerifySteps(s) == Verify(s) \/ SignReady(s) \/ DualRead(s) \/ Prove(s) \/ Verified(s)

CutoverSteps(s) ==
    \/ Cutover(s) \/ SignCommit(s) \/ ReceiveCommit(s) \/ RevokeOldKeys(s)
    \/ RejectSends(s) \/ StartDrain(s) \/ DeleteKey(s) \/ DestroyBundle(s)
    \/ DeleteDek(s) \/ Committed(s)

ObserveSteps(s) == Observe(s) \/ CloseReads(s) \/ Complete(s) \/ DrainWindowEnds(s)
RollbackSteps(s) == Rollback(s) \/ RollbackKeyCheck(s) \/ RolledBack(s)

LegacySteps ==
    \/ \E p \in Pollers, s \in Readers, l \in Letters : ReadLegacy(p, s, l)
    \/ \E p \in Pollers : StoreLegacy(p) \/ PollerDies(p)
    \/ \E s \in Readers : PruneGuard(s)

Next ==
    \/ \E s \in Sides :
          \/ StageSteps(s) \/ VerifySteps(s) \/ CutoverSteps(s)
          \/ ObserveSteps(s) \/ RollbackSteps(s) \/ Stops(s)
    \/ LegacySteps

Spec == Init /\ [][Next]_vars

(***************************************************************************)
(* Properties                                                              *)
(***************************************************************************)

\* A side that is staged or verified and still has its legacy key has a bundle that
\* its recorded path names, its stored key opens and its last freeze filled, whatever
\* earlier stage attempts left behind; a side that rolled back has its key.
RollbackStillWorks ==
    \A s \in Sides :
        LET m == mig[s]
        IN  /\ m.phase \in {"staged", "verified"} /\ m.key # "gone" =>
                   m.path \in m.bundles /\ m.dek = m.path /\ m.path = m.freeze
            /\ m.phase = "rolled_back" => m.key # "gone"

\* A side destroys its legacy key only with the peer's commit in hand and the old
\* deploy keys gone, and a committed side keeps nothing that brings v0.1 back: no
\* sends, no key, no bundle that opens.
CommitIsMutualAndFinal ==
    \A s \in Sides :
        LET m == mig[s]
        IN  /\ m.key = "gone" =>
                   m.commit /\ "commit" \in posted[Peer(s)] /\ m.oldKeys = "revoked"
            /\ m.phase \in {"committed", "complete"} =>
                   ~m.sends /\ m.key = "gone" /\ m.dek = 0 /\ m.path \notin m.bundles
            /\ m.sends /\ m.key = "gone" => m.phase = "verified"

\* Every legacy letter is stored at most once, under a sender_seq of its own, with no
\* number skipped and the assigner in step with the rows, be it redelivered, polled
\* twice at once, interrupted, or sent again after its replay row expired.
LegacyStoredOnce ==
    \A s \in Readers :
        LET stored == {l \in Letters : events[s][l] # 0}
        IN  /\ assigner[s] = events[s]
            /\ {events[s][l] : l \in stored} = 1..Cardinality(stored)
=============================================================================
