--------------------------- MODULE MigrationProofs ---------------------------
(***************************************************************************)
(* TLAPS proofs about Migration, for any number of commands, letters and   *)
(* pollers.                                                                 *)
(***************************************************************************)
EXTENDS Migration, FiniteSetTheorems, TLAPS

StagePcs == {"drain", "sends off", "reseal", "drop bundle", "bundle", "dek", "path",
             "card", "peer card", "provision", "staged"}
VerifyPcs == {"ready", "peer ready", "prove", "verified"}
CutoverPcs == {"commit", "peer commit", "revoke", "quiet", "clock", "delete key",
               "destroy bundle", "delete dek", "committed"}
ObservePcs == {"close", "complete"}
RollbackPcs == {"key check", "rolled back"}
Pcs == {None} \cup StagePcs \cup VerifyPcs \cup CutoverPcs \cup ObservePcs \cup RollbackPcs

MigStates ==
    [phase : Phases, sends : BOOLEAN, freeze : Nat, key : {"plain", "sealed", "gone"},
     bundles : SUBSET Nat, dek : Nat, path : Nat, card : BOOLEAN,
     oldKeys : {"kept", "revoked"}, readOpen : BOOLEAN, commit : BOOLEAN,
     drain : {"none", "running", "over"}]

Messages == {"card", "ready", "commit"}

CeremonyTypeOK ==
    /\ mig \in [Sides -> MigStates]
    /\ pc \in [Sides -> Pcs]
    /\ posted \in [Sides -> SUBSET Messages]
    /\ commands \in [Sides -> Nat]

\* A command runs in the phase its start asked for: no other command of the side
\* can change it meanwhile.
PhaseHeld(s) ==
    LET m == mig[s]
    IN  /\ pc[s] \in StagePcs => m.phase = "freezing"
        /\ pc[s] \in VerifyPcs => m.phase = "staged"
        /\ pc[s] \in CutoverPcs => m.phase = "verified"
        /\ pc[s] \in ObservePcs => m.phase = "committed"
        /\ pc[s] \in RollbackPcs => m.phase \in {"freezing", "staged", "verified", "rolled_back"}

\* The key is lost by a cutover only, and a rollback past its check still has it.
KeyHeld(s) ==
    LET m == mig[s]
    IN  /\ m.key = "gone" => m.phase \in {"verified", "committed", "complete"}
        /\ pc[s] = "rolled back" => m.key # "gone"

\* The bundle, its key and its recorded path come to name one freeze, in that order.
BundleHeld(s) ==
    LET m == mig[s]
    IN  /\ pc[s] = "dek" => m.freeze \in m.bundles
        /\ pc[s] = "path" => m.freeze \in m.bundles /\ m.dek = m.freeze
        /\ \/ pc[s] \in {"card", "peer card", "provision", "staged"}
           \/ m.phase \in {"staged", "verified"} /\ m.key # "gone"
           => m.path \in m.bundles /\ m.dek = m.path /\ m.path = m.freeze

\* Nothing is destroyed before the peer's commit, the revoked keys and the closed
\* sends, and the phase is written when all of it is.
CutoverOrder(s) ==
    LET m == mig[s]
    IN  /\ m.commit => "commit" \in posted[Peer(s)]
        /\ pc[s] \in {"revoke", "quiet", "clock", "delete key", "destroy bundle",
                      "delete dek", "committed"} => m.commit
        /\ pc[s] \in {"quiet", "clock", "delete key", "destroy bundle", "delete dek",
                      "committed"} => m.oldKeys = "revoked"
        /\ pc[s] \in {"clock", "delete key", "destroy bundle", "delete dek", "committed"} =>
               ~m.sends
        /\ pc[s] \in {"destroy bundle", "delete dek", "committed"} => m.key = "gone"
        /\ pc[s] \in {"delete dek", "committed"} => m.path \notin m.bundles
        /\ pc[s] = "committed" => m.dek = 0
        /\ m.key = "gone" => m.commit /\ m.oldKeys = "revoked"
        /\ m.phase \in {"committed", "complete"} =>
               ~m.sends /\ m.key = "gone" /\ m.dek = 0 /\ m.path \notin m.bundles

SideInv(s) == PhaseHeld(s) /\ KeyHeld(s) /\ BundleHeld(s) /\ CutoverOrder(s)

CeremonyInv == \A s \in Sides : SideInv(s)

Stored(f) == {l \in Letters : f[l] # 0}

\* A table that numbers the letters it holds from 1, without a gap.
Numbered(f) ==
    /\ f \in [Letters -> Nat]
    /\ {f[l] : l \in Stored(f)} = 1..Cardinality(Stored(f))

Extends(g, f) == \A l \in Letters : f[l] # 0 => g[l] = f[l]

Reading(l, s, table) == [letter |-> l, side |-> s, table |-> table]

\* A poller holds the next number of a table that was the reader's when it read it, and
\* that the reader's table has only grown from since.
RxHeld(p) ==
    \/ rx[p] = NoRx
    \/ \E s \in Readers, l \in Letters, old \in [Letters -> Nat] :
          rx[p] = Reading(l, s, Assign(old, l)) /\ Numbered(old) /\ Extends(events[s], old)

LegacyInv ==
    /\ events \in [Readers -> [Letters -> Nat]]
    /\ assigner = events
    /\ \A s \in Readers : Numbered(events[s])
    /\ DOMAIN rx = Pollers /\ rx = [p \in Pollers |-> rx[p]]
    /\ \A p \in Pollers : RxHeld(p)

-----------------------------------------------------------------------------
\* The pair has two ends, so each one has the other.
LEMMA PeerIsASide == \A s \in Sides : Peer(s) \in Sides /\ Peer(s) # s
<1>1. SUFFICES ASSUME NEW s \in Sides PROVE \E t \in Sides : t # s
  BY DEF Peer
<1>2. SUFFICES ASSUME \A t \in Sides : t = s PROVE FALSE
  OBVIOUS
<1>3. Sides = {s}
  BY <1>2
<1>4. Cardinality(Sides) = 1
  BY <1>3, FS_Singleton
<1>5. QED
  BY <1>4, SidesAssumption

\* What the commands write into migration_state and the vault keeps its type.
LEMMA FieldWrites ==
    ASSUME NEW f \in [Sides -> MigStates], NEW s \in Sides
    PROVE  /\ \A v \in Phases : [f EXCEPT ![s].phase = v] \in [Sides -> MigStates]
           /\ \A v \in BOOLEAN : [f EXCEPT ![s] = WithSends(@, v)] \in [Sides -> MigStates]
           /\ \A v \in Nat : [f EXCEPT ![s].freeze = v] \in [Sides -> MigStates]
           /\ [f EXCEPT ![s] = Resealed(@)] \in [Sides -> MigStates]
           /\ [f EXCEPT ![s].key = "gone"] \in [Sides -> MigStates]
           /\ [f EXCEPT ![s].bundles = @ \ {f[s].path}] \in [Sides -> MigStates]
           /\ [f EXCEPT ![s].bundles = @ \cup {f[s].freeze}] \in [Sides -> MigStates]
           /\ [f EXCEPT ![s].dek = f[s].freeze] \in [Sides -> MigStates]
           /\ [f EXCEPT ![s].dek = 0] \in [Sides -> MigStates]
           /\ [f EXCEPT ![s].path = f[s].freeze] \in [Sides -> MigStates]
           /\ [f EXCEPT ![s].card = TRUE] \in [Sides -> MigStates]
           /\ [f EXCEPT ![s].commit = TRUE] \in [Sides -> MigStates]
           /\ \A v \in {"kept", "revoked"} : [f EXCEPT ![s].oldKeys = v] \in [Sides -> MigStates]
           /\ \A v \in BOOLEAN : [f EXCEPT ![s].readOpen = v] \in [Sides -> MigStates]
           /\ [f EXCEPT ![s].drain = "over"] \in [Sides -> MigStates]
           /\ [f EXCEPT ![s].drain = "running", ![s].readOpen = TRUE] \in [Sides -> MigStates]
<1> USE DEF MigStates, WithSends, Resealed
<1>1. /\ \A v \in Phases : [f EXCEPT ![s].phase = v] \in [Sides -> MigStates]
      /\ \A v \in BOOLEAN : [f EXCEPT ![s] = WithSends(@, v)] \in [Sides -> MigStates]
      /\ \A v \in Nat : [f EXCEPT ![s].freeze = v] \in [Sides -> MigStates]
  OBVIOUS
<1>2. /\ [f EXCEPT ![s] = Resealed(@)] \in [Sides -> MigStates]
      /\ [f EXCEPT ![s].key = "gone"] \in [Sides -> MigStates]
  OBVIOUS
<1>3. /\ [f EXCEPT ![s].bundles = @ \ {f[s].path}] \in [Sides -> MigStates]
      /\ [f EXCEPT ![s].bundles = @ \cup {f[s].freeze}] \in [Sides -> MigStates]
  OBVIOUS
<1>4. /\ [f EXCEPT ![s].dek = f[s].freeze] \in [Sides -> MigStates]
      /\ [f EXCEPT ![s].dek = 0] \in [Sides -> MigStates]
      /\ [f EXCEPT ![s].path = f[s].freeze] \in [Sides -> MigStates]
  OBVIOUS
<1>5. [f EXCEPT ![s].card = TRUE] \in [Sides -> MigStates]
  BY ZenonT(30)
<1>6. [f EXCEPT ![s].commit = TRUE] \in [Sides -> MigStates]
  BY ZenonT(30)
<1>7. \A v \in {"kept", "revoked"} : [f EXCEPT ![s].oldKeys = v] \in [Sides -> MigStates]
  OBVIOUS
<1>8. \A v \in BOOLEAN : [f EXCEPT ![s].readOpen = v] \in [Sides -> MigStates]
  OBVIOUS
<1>9. [f EXCEPT ![s].drain = "over"] \in [Sides -> MigStates]
  OBVIOUS
<1>10. [f EXCEPT ![s].drain = "running", ![s].readOpen = TRUE] \in [Sides -> MigStates]
  <2>1. [f EXCEPT ![s] = [f[s] EXCEPT !.drain = "running", !.readOpen = TRUE]]
            \in [Sides -> MigStates]
    BY ZenonT(30)
  <2> HIDE DEF MigStates
  <2>2. QED
    BY <2>1
<1> HIDE DEF MigStates, WithSends, Resealed
<1>11. QED
  BY <1>1, <1>2, <1>3, <1>4, <1>5, <1>6, <1>7, <1>8, <1>9, <1>10

\* A command that begins counts itself and takes its first step.
LEMMA BeginTypes ==
    ASSUME NEW s \in Sides, NEW phases, NEW first \in Pcs, CeremonyTypeOK,
           Begin(s, phases, first)
    PROVE  commands' \in [Sides -> Nat] /\ pc' \in [Sides -> Pcs]
<1>1. commands' = [commands EXCEPT ![s] = commands[s] + 1] /\ commands[s] + 1 \in Nat
  BY DEF Begin, CeremonyTypeOK
<1>2. QED
  BY <1>1 DEF Begin, CeremonyTypeOK

\* Every action of the ceremony keeps the types.
LEMMA CeremonyTypes == Spec => []CeremonyTypeOK
<1> USE DEF CeremonyTypeOK, Pcs, StagePcs, VerifyPcs, CutoverPcs, ObservePcs,
            RollbackPcs, Messages, Phases, None
<1>1. Init => CeremonyTypeOK
  BY DEF Init, MigStates
<1>2. CeremonyTypeOK /\ [Next]_vars => CeremonyTypeOK'
  <2> SUFFICES ASSUME CeremonyTypeOK, [Next]_vars PROVE CeremonyTypeOK'
    OBVIOUS
  <2> USE DEF At
  <2>1. ASSUME NEW s \in Sides, Stage(s) PROVE CeremonyTypeOK'
    BY <2>1, FieldWrites, BeginTypes DEF Stage
  <2>2. ASSUME NEW s \in Sides, Drain(s) PROVE CeremonyTypeOK'
    BY <2>2, FieldWrites DEF Drain
  <2>3. ASSUME NEW s \in Sides, FreezeSends(s) PROVE CeremonyTypeOK'
    BY <2>3, FieldWrites DEF FreezeSends
  <2>4. ASSUME NEW s \in Sides, Reseal(s) PROVE CeremonyTypeOK'
    BY <2>4, FieldWrites DEF Reseal
  <2>5. ASSUME NEW s \in Sides, DropOldBundle(s) PROVE CeremonyTypeOK'
    BY <2>5, FieldWrites DEF DropOldBundle
  <2>6. ASSUME NEW s \in Sides, WriteBundle(s) PROVE CeremonyTypeOK'
    BY <2>6, FieldWrites DEF WriteBundle
  <2>7. ASSUME NEW s \in Sides, WriteDek(s) PROVE CeremonyTypeOK'
    BY <2>7, FieldWrites DEF WriteDek
  <2>8. ASSUME NEW s \in Sides, RecordBundle(s) PROVE CeremonyTypeOK'
    BY <2>8, FieldWrites DEF RecordBundle
  <2>9. ASSUME NEW s \in Sides, SendCard(s) PROVE CeremonyTypeOK'
    BY <2>9 DEF SendCard, Post
  <2>10. ASSUME NEW s \in Sides, ReceiveCard(s) PROVE CeremonyTypeOK'
    BY <2>10, FieldWrites DEF ReceiveCard, CardVerified
  <2>11. ASSUME NEW s \in Sides, Provision(s) PROVE CeremonyTypeOK'
    BY <2>11, FieldWrites DEF Provision
  <2>12. ASSUME NEW s \in Sides, Staged(s) PROVE CeremonyTypeOK'
    BY <2>12, FieldWrites DEF Staged
  <2>13. ASSUME NEW s \in Sides, Verify(s) PROVE CeremonyTypeOK'
    BY <2>13, BeginTypes DEF Verify
  <2>14. ASSUME NEW s \in Sides, SignReady(s) PROVE CeremonyTypeOK'
    BY <2>14 DEF SignReady, Post
  <2>15. ASSUME NEW s \in Sides, DualRead(s) PROVE CeremonyTypeOK'
    BY <2>15, FieldWrites DEF DualRead, Has
  <2>16. ASSUME NEW s \in Sides, Prove(s) PROVE CeremonyTypeOK'
    BY <2>16 DEF Prove, CardVerified
  <2>17. ASSUME NEW s \in Sides, Verified(s) PROVE CeremonyTypeOK'
    BY <2>17, FieldWrites DEF Verified
  <2>18. ASSUME NEW s \in Sides, Cutover(s) PROVE CeremonyTypeOK'
    BY <2>18, BeginTypes DEF Cutover, Has
  <2>19. ASSUME NEW s \in Sides, SignCommit(s) PROVE CeremonyTypeOK'
    BY <2>19 DEF SignCommit, Post
  <2>20. ASSUME NEW s \in Sides, ReceiveCommit(s) PROVE CeremonyTypeOK'
    BY <2>20, FieldWrites DEF ReceiveCommit, Has
  <2>21. ASSUME NEW s \in Sides, RevokeOldKeys(s) PROVE CeremonyTypeOK'
    BY <2>21, FieldWrites DEF RevokeOldKeys
  <2>22. ASSUME NEW s \in Sides, RejectSends(s) PROVE CeremonyTypeOK'
    BY <2>22, FieldWrites DEF RejectSends
  <2>23. ASSUME NEW s \in Sides, StartDrain(s) PROVE CeremonyTypeOK'
    BY <2>23, FieldWrites DEF StartDrain
  <2>24. ASSUME NEW s \in Sides, DeleteKey(s) PROVE CeremonyTypeOK'
    BY <2>24, FieldWrites DEF DeleteKey
  <2>25. ASSUME NEW s \in Sides, DestroyBundle(s) PROVE CeremonyTypeOK'
    BY <2>25, FieldWrites DEF DestroyBundle
  <2>26. ASSUME NEW s \in Sides, DeleteDek(s) PROVE CeremonyTypeOK'
    BY <2>26, FieldWrites DEF DeleteDek
  <2>27. ASSUME NEW s \in Sides, Committed(s) PROVE CeremonyTypeOK'
    BY <2>27, FieldWrites DEF Committed
  <2>28. ASSUME NEW s \in Sides, Observe(s) PROVE CeremonyTypeOK'
    BY <2>28, FieldWrites, BeginTypes DEF Observe
  <2>29. ASSUME NEW s \in Sides, CloseReads(s) PROVE CeremonyTypeOK'
    BY <2>29, FieldWrites DEF CloseReads
  <2>30. ASSUME NEW s \in Sides, Complete(s) PROVE CeremonyTypeOK'
    BY <2>30, FieldWrites DEF Complete
  <2>31. ASSUME NEW s \in Sides, DrainWindowEnds(s) PROVE CeremonyTypeOK'
    BY <2>31, FieldWrites DEF DrainWindowEnds
  <2>32. ASSUME NEW s \in Sides, Rollback(s) PROVE CeremonyTypeOK'
    BY <2>32, FieldWrites, BeginTypes DEF Rollback
  <2>33. ASSUME NEW s \in Sides, RollbackKeyCheck(s) PROVE CeremonyTypeOK'
    BY <2>33 DEF RollbackKeyCheck, KeyLoads
  <2>34. ASSUME NEW s \in Sides, RolledBack(s) PROVE CeremonyTypeOK'
    BY <2>34, FieldWrites DEF RolledBack
  <2>35. ASSUME NEW s \in Sides, Stops(s) PROVE CeremonyTypeOK'
    BY <2>35 DEF Stops
  <2>36. CASE LegacySteps \/ UNCHANGED vars
    BY <2>36 DEF LegacySteps, ReadLegacy, StoreLegacy, PollerDies, PruneGuard, ceremonyVars, vars
  <2>37. QED
    BY <2>1, <2>2, <2>3, <2>4, <2>5, <2>6, <2>7, <2>8, <2>9, <2>10, <2>11, <2>12, <2>13,
       <2>14, <2>15, <2>16, <2>17, <2>18, <2>19, <2>20, <2>21, <2>22, <2>23, <2>24, <2>25,
       <2>26, <2>27, <2>28, <2>29, <2>30, <2>31, <2>32, <2>33, <2>34, <2>35, <2>36
    DEF Next, StageSteps, VerifySteps, CutoverSteps, ObserveSteps, RollbackSteps
<1>3. QED
  BY <1>1, <1>2, PTL DEF Spec

-----------------------------------------------------------------------------
\* A side that does not move keeps its invariant whatever the other one posts.
LEMMA OtherSideKeeps ==
    ASSUME NEW t \in Sides, SideInv(t), mig'[t] = mig[t], pc'[t] = pc[t],
           posted[Peer(t)] \subseteq posted'[Peer(t)]
    PROVE  SideInv(t)'
  BY DEF SideInv, PhaseHeld, KeyHeld, BundleHeld, CutoverOrder

\* An action of one side keeps that side's invariant: below each action, what it does to
\* the side's row and its next write.
LEMMA SideStep ==
    ASSUME CeremonyTypeOK, NEW s \in Sides, SideInv(s),
           posted'[Peer(s)] = posted[Peer(s)],
           \/ StageSteps(s) \/ VerifySteps(s) \/ CutoverSteps(s)
           \/ ObserveSteps(s) \/ RollbackSteps(s) \/ Stops(s)
    PROVE  SideInv(s)'
<1>1. mig[s] \in MigStates /\ pc[s] \in Pcs
  BY DEF CeremonyTypeOK
<1> USE DEF SideInv, PhaseHeld, KeyHeld, BundleHeld, CutoverOrder, StagePcs, VerifyPcs,
            CutoverPcs, ObservePcs, RollbackPcs, Phases, None
<1>2. CASE Stage(s)
  <2>1. /\ mig'[s] = [mig[s] EXCEPT !.phase = "freezing"]
        /\ pc[s] = None /\ pc'[s] = "drain"
        /\ mig[s].phase \in {"idle", "rolled_back", "freezing"}
    BY <1>2 DEF Stage, Begin, CeremonyTypeOK
  <2>2. QED
    BY <1>1, <2>1 DEF MigStates
<1>3. CASE Drain(s)
  <2>1. /\ mig'[s] = [mig[s] EXCEPT !.freeze = commands[s]]
        /\ pc[s] = "drain" /\ pc'[s] = "sends off"
    BY <1>3 DEF Drain, At, CeremonyTypeOK
  <2>2. QED
    BY <1>1, <2>1 DEF MigStates
<1>4. CASE FreezeSends(s)
  <2>1. /\ mig'[s] = WithSends(mig[s], FALSE)
        /\ pc[s] = "sends off" /\ pc'[s] = "reseal"
    BY <1>4 DEF FreezeSends, At, CeremonyTypeOK
  <2>2. QED
    BY <1>1, <2>1 DEF MigStates, WithSends
<1>5. CASE Reseal(s)
  <2>1. /\ pc[s] = "reseal"
        /\ IF KeyLoads(mig[s]) THEN mig'[s] = Resealed(mig[s]) /\ pc'[s] = "drop bundle"
           ELSE mig'[s] = mig[s] /\ pc'[s] = None
    BY <1>5 DEF Reseal, At, CeremonyTypeOK
  <2>2. QED
    BY <1>1, <2>1 DEF MigStates, KeyLoads, Resealed
<1>6. CASE DropOldBundle(s)
  <2>1. /\ mig'[s] = [mig[s] EXCEPT !.bundles = @ \ {mig[s].path}]
        /\ pc[s] = "drop bundle" /\ pc'[s] = "bundle"
    BY <1>6 DEF DropOldBundle, At, CeremonyTypeOK
  <2>2. QED
    BY <1>1, <2>1 DEF MigStates
<1>7. CASE WriteBundle(s)
  <2>1. /\ mig'[s] = [mig[s] EXCEPT !.bundles = @ \cup {mig[s].freeze}]
        /\ pc[s] = "bundle" /\ pc'[s] = "dek"
    BY <1>7 DEF WriteBundle, At, CeremonyTypeOK
  <2>2. QED
    BY <1>1, <2>1 DEF MigStates
<1>8. CASE WriteDek(s)
  <2>1. /\ mig'[s] = [mig[s] EXCEPT !.dek = mig[s].freeze]
        /\ pc[s] = "dek" /\ pc'[s] = "path"
    BY <1>8 DEF WriteDek, At, CeremonyTypeOK
  <2>2. QED
    BY <1>1, <2>1 DEF MigStates
<1>9. CASE RecordBundle(s)
  <2>1. /\ mig'[s] = [mig[s] EXCEPT !.path = mig[s].freeze]
        /\ pc[s] = "path" /\ pc'[s] = "card"
    BY <1>9 DEF RecordBundle, At, CeremonyTypeOK
  <2>2. QED
    BY <1>1, <2>1 DEF MigStates
<1>10. CASE SendCard(s)
  <2>1. /\ mig'[s] = mig[s]
        /\ pc[s] = "card" /\ pc'[s] = "peer card"
    BY <1>10 DEF SendCard, At, Post, CeremonyTypeOK
  <2>2. QED
    BY <1>1, <2>1 DEF MigStates
<1>11. CASE ReceiveCard(s)
  <2>1. /\ mig'[s] = [mig[s] EXCEPT !.card = TRUE]
        /\ pc[s] = "peer card" /\ pc'[s] = "provision"
    BY <1>11 DEF ReceiveCard, At, CeremonyTypeOK
  <2>2. QED
    BY <1>1, <2>1 DEF MigStates
<1>12. CASE Provision(s)
  <2>1. /\ mig'[s] = [mig[s] EXCEPT !.oldKeys = "kept"]
        /\ pc[s] = "provision" /\ pc'[s] = "staged"
    BY <1>12 DEF Provision, At, CeremonyTypeOK
  <2>2. QED
    BY <1>1, <2>1 DEF MigStates
<1>13. CASE Staged(s)
  <2>1. /\ mig'[s] = [mig[s] EXCEPT !.phase = "staged"]
        /\ pc[s] = "staged" /\ pc'[s] = None
    BY <1>13 DEF Staged, At, CeremonyTypeOK
  <2>2. QED
    BY <1>1, <2>1 DEF MigStates
<1>14. CASE Verify(s)
  <2>1. /\ mig'[s] = mig[s]
        /\ pc[s] = None /\ pc'[s] = "ready"
        /\ mig[s].phase \in {"staged"}
    BY <1>14 DEF Verify, Begin, CeremonyTypeOK
  <2>2. QED
    BY <1>1, <2>1 DEF MigStates
<1>15. CASE SignReady(s)
  <2>1. /\ mig'[s] = mig[s]
        /\ pc[s] = "ready" /\ pc'[s] = "peer ready"
    BY <1>15 DEF SignReady, At, Post, CeremonyTypeOK
  <2>2. QED
    BY <1>1, <2>1 DEF MigStates
<1>16. CASE DualRead(s)
  <2>1. /\ mig'[s] = [mig[s] EXCEPT !.readOpen = TRUE]
        /\ pc[s] = "peer ready" /\ pc'[s] = "prove"
    BY <1>16 DEF DualRead, At, CeremonyTypeOK
  <2>2. QED
    BY <1>1, <2>1 DEF MigStates
<1>17. CASE Prove(s)
  <2>1. /\ mig'[s] = mig[s]
        /\ pc[s] = "prove" /\ pc'[s] \in {"verified", None}
    BY <1>17 DEF Prove, At, CeremonyTypeOK
  <2>2. QED
    BY <1>1, <2>1 DEF MigStates
<1>18. CASE Verified(s)
  <2>1. /\ mig'[s] = [mig[s] EXCEPT !.phase = "verified"]
        /\ pc[s] = "verified" /\ pc'[s] = None
    BY <1>18 DEF Verified, At, CeremonyTypeOK
  <2>2. QED
    BY <1>1, <2>1 DEF MigStates
<1>19. CASE Cutover(s)
  <2>1. /\ mig'[s] = mig[s]
        /\ pc[s] = None /\ pc'[s] = "commit"
        /\ mig[s].phase \in {"verified"}
    BY <1>19 DEF Cutover, Begin, CeremonyTypeOK
  <2>2. QED
    BY <1>1, <2>1 DEF MigStates
<1>20. CASE SignCommit(s)
  <2>1. /\ mig'[s] = mig[s]
        /\ pc[s] = "commit" /\ pc'[s] = "peer commit"
    BY <1>20 DEF SignCommit, At, Post, CeremonyTypeOK
  <2>2. QED
    BY <1>1, <2>1 DEF MigStates
<1>21. CASE ReceiveCommit(s)
  <2>1. /\ mig'[s] = [mig[s] EXCEPT !.commit = TRUE]
        /\ pc[s] = "peer commit" /\ pc'[s] = "revoke"
        /\ "commit" \in posted[Peer(s)]
    BY <1>21 DEF ReceiveCommit, At, Has, CeremonyTypeOK
  <2>2. QED
    BY <1>1, <2>1 DEF MigStates
<1>22. CASE RevokeOldKeys(s)
  <2>1. /\ mig'[s] = [mig[s] EXCEPT !.oldKeys = "revoked"]
        /\ pc[s] = "revoke" /\ pc'[s] = "quiet"
    BY <1>22 DEF RevokeOldKeys, At, CeremonyTypeOK
  <2>2. QED
    BY <1>1, <2>1 DEF MigStates
<1>23. CASE RejectSends(s)
  <2>1. /\ mig'[s] = WithSends(mig[s], FALSE)
        /\ pc[s] = "quiet" /\ pc'[s] = "clock"
    BY <1>23 DEF RejectSends, At, CeremonyTypeOK
  <2>2. QED
    BY <1>1, <2>1 DEF MigStates, WithSends
<1>24. CASE StartDrain(s)
  <2>1. /\ mig'[s] = [mig[s] EXCEPT !.drain = "running", !.readOpen = TRUE]
        /\ pc[s] = "clock" /\ pc'[s] = "delete key"
    BY <1>24 DEF StartDrain, At, CeremonyTypeOK
  <2>2. QED
    BY ZenonT(30), <1>1, <2>1 DEF MigStates
<1>25. CASE DeleteKey(s)
  <2>1. /\ mig'[s] = [mig[s] EXCEPT !.key = "gone"]
        /\ pc[s] = "delete key" /\ pc'[s] = "destroy bundle"
    BY <1>25 DEF DeleteKey, At, CeremonyTypeOK
  <2>2. QED
    BY <1>1, <2>1 DEF MigStates
<1>26. CASE DestroyBundle(s)
  <2>1. /\ mig'[s] = [mig[s] EXCEPT !.bundles = @ \ {mig[s].path}]
        /\ pc[s] = "destroy bundle" /\ pc'[s] = "delete dek"
    BY <1>26 DEF DestroyBundle, At, CeremonyTypeOK
  <2>2. QED
    BY ZenonT(30), <1>1, <2>1 DEF MigStates
<1>27. CASE DeleteDek(s)
  <2>1. /\ mig'[s] = [mig[s] EXCEPT !.dek = 0]
        /\ pc[s] = "delete dek" /\ pc'[s] = "committed"
    BY <1>27 DEF DeleteDek, At, CeremonyTypeOK
  <2>2. QED
    BY <1>1, <2>1 DEF MigStates
<1>28. CASE Committed(s)
  <2>1. /\ mig'[s] = [mig[s] EXCEPT !.phase = "committed"]
        /\ pc[s] = "committed" /\ pc'[s] = None
    BY <1>28 DEF Committed, At, CeremonyTypeOK
  <2>2. QED
    BY <1>1, <2>1 DEF MigStates
<1>29. CASE Observe(s)
  <2>1. /\ mig'[s] = mig[s] \/ mig'[s] = [mig[s] EXCEPT !.readOpen = TRUE]
        /\ pc[s] = None /\ pc'[s] \in {"close", None}
        /\ mig[s].phase \in {"committed"}
    BY <1>29 DEF Observe, Begin, CeremonyTypeOK
  <2>2. QED
    BY ZenonT(30), <1>1, <2>1 DEF MigStates
<1>30. CASE CloseReads(s)
  <2>1. /\ mig'[s] = [mig[s] EXCEPT !.readOpen = FALSE]
        /\ pc[s] = "close" /\ pc'[s] = "complete"
    BY <1>30 DEF CloseReads, At, CeremonyTypeOK
  <2>2. QED
    BY <1>1, <2>1 DEF MigStates
<1>31. CASE Complete(s)
  <2>1. /\ mig'[s] = [mig[s] EXCEPT !.phase = "complete"]
        /\ pc[s] = "complete" /\ pc'[s] = None
    BY <1>31 DEF Complete, At, CeremonyTypeOK
  <2>2. QED
    BY <1>1, <2>1 DEF MigStates
<1>32. CASE DrainWindowEnds(s)
  <2>1. /\ mig'[s] = [mig[s] EXCEPT !.drain = "over"]
        /\ pc'[s] = pc[s]
    BY <1>32 DEF DrainWindowEnds, CeremonyTypeOK
  <2>2. /\ mig'[s].phase = mig[s].phase /\ mig'[s].key = mig[s].key
        /\ mig'[s].freeze = mig[s].freeze /\ mig'[s].bundles = mig[s].bundles
        /\ mig'[s].dek = mig[s].dek /\ mig'[s].path = mig[s].path
        /\ mig'[s].oldKeys = mig[s].oldKeys
    BY <1>1, <2>1 DEF MigStates
  <2>3. (mig'[s].sends <=> mig[s].sends) /\ (mig'[s].commit <=> mig[s].commit)
    BY <1>1, <2>1 DEF MigStates
  <2>4. PhaseHeld(s)' /\ KeyHeld(s)'
    BY ZenonT(30), <2>1, <2>2
  <2>5. BundleHeld(s)'
    BY ZenonT(30), <2>1, <2>2
  <2>6. CutoverOrder(s)'
    BY ZenonT(30), <2>1, <2>2, <2>3
  <2>7. QED
    BY <2>4, <2>5, <2>6
<1>33. CASE Rollback(s)
  <2>1. /\ mig'[s] = WithSends(mig[s], TRUE)
        /\ pc[s] = None /\ pc'[s] = "key check"
        /\ mig[s].phase \in Phases \ {"committed", "complete", "idle"}
    BY <1>33 DEF Rollback, Begin, CeremonyTypeOK
  <2>2. QED
    BY ZenonT(30), <1>1, <2>1 DEF MigStates, WithSends
<1>34. CASE RollbackKeyCheck(s)
  <2>1. /\ mig'[s] = mig[s]
        /\ pc[s] = "key check"
        /\ pc'[s] = IF KeyLoads(mig[s]) THEN "rolled back" ELSE None
    BY <1>34 DEF RollbackKeyCheck, At, CeremonyTypeOK
  <2>2. QED
    BY <1>1, <2>1 DEF MigStates, KeyLoads
<1>35. CASE RolledBack(s)
  <2>1. /\ mig'[s] = [mig[s] EXCEPT !.phase = "rolled_back"]
        /\ pc[s] = "rolled back" /\ pc'[s] = None
    BY <1>35 DEF RolledBack, At, CeremonyTypeOK
  <2>2. QED
    BY <1>1, <2>1 DEF MigStates
<1>36. CASE Stops(s)
  <2>1. /\ mig'[s] = mig[s]
        /\ pc'[s] = None
    BY <1>36 DEF Stops, CeremonyTypeOK
  <2>2. PhaseHeld(s)' /\ KeyHeld(s)'
    BY <2>1
  <2>3. BundleHeld(s)'
    BY <2>1
  <2>4. CutoverOrder(s)'
    BY <2>1
  <2>5. QED
    BY <2>2, <2>3, <2>4
<1>37. QED
  BY <1>2, <1>3, <1>4, <1>5, <1>6, <1>7, <1>8, <1>9, <1>10, <1>11, <1>12, <1>13, <1>14,
     <1>15, <1>16, <1>17, <1>18, <1>19, <1>20, <1>21, <1>22, <1>23, <1>24, <1>25, <1>26,
     <1>27, <1>28, <1>29, <1>30, <1>31, <1>32, <1>33, <1>34, <1>35, <1>36
  DEF StageSteps, VerifySteps, CutoverSteps, ObserveSteps, RollbackSteps

\* One step of either side, or of the v0.1 adapter, keeps the ceremony invariant.
LEMMA CeremonyStep == CeremonyTypeOK /\ CeremonyInv /\ [Next]_vars => CeremonyInv'
<1> SUFFICES ASSUME CeremonyTypeOK, CeremonyInv, [Next]_vars, NEW t \in Sides
             PROVE  SideInv(t)'
  BY DEF CeremonyInv
<1>1. SideInv(t) /\ Peer(t) \in Sides /\ Peer(t) # t
  BY PeerIsASide DEF CeremonyInv
<1>2. ASSUME NEW s \in Sides,
             \/ StageSteps(s) \/ VerifySteps(s) \/ CutoverSteps(s)
             \/ ObserveSteps(s) \/ RollbackSteps(s) \/ Stops(s)
      PROVE  SideInv(t)'
  <2>1. \/ UNCHANGED posted
        \/ \E kind \in Messages : posted' = [posted EXCEPT ![s] = @ \cup {kind}]
    BY <1>2 DEF StageSteps, Stage, Drain, FreezeSends, Reseal, DropOldBundle, WriteBundle,
         WriteDek, RecordBundle, SendCard, ReceiveCard, CardVerified, Provision, Staged,
         VerifySteps, Verify, SignReady, DualRead, Prove, Verified, Has, Post, Messages,
         CutoverSteps, Cutover, SignCommit, ReceiveCommit, RevokeOldKeys, RejectSends,
         StartDrain, DeleteKey, DestroyBundle, DeleteDek, Committed, ObserveSteps, Observe,
         CloseReads, Complete, DrainWindowEnds, RollbackSteps, Rollback, RollbackKeyCheck,
         RolledBack, Stops
  <2>2. CASE s = t
    <3>1. posted'[Peer(t)] = posted[Peer(t)]
      BY <1>1, <2>1, <2>2 DEF CeremonyTypeOK
    <3>2. QED
      BY <1>1, <1>2, <2>2, <3>1, SideStep
  <2>3. CASE s # t
    <3>1. posted[Peer(t)] \subseteq posted'[Peer(t)]
      BY <1>1, <2>1 DEF CeremonyTypeOK
    <3>2. pc'[t] = pc[t]
      BY <1>2, <2>3 DEF StageSteps, Stage, Drain, FreezeSends, Reseal, DropOldBundle,
         WriteBundle, WriteDek, RecordBundle, SendCard, ReceiveCard, Provision, Staged,
         VerifySteps, Verify, SignReady, DualRead, Prove, Verified,
         CutoverSteps, Cutover, SignCommit, ReceiveCommit, RevokeOldKeys, RejectSends,
         StartDrain, DeleteKey, DestroyBundle, DeleteDek, Committed, ObserveSteps, Observe,
         CloseReads, Complete, DrainWindowEnds, RollbackSteps, Rollback, RollbackKeyCheck,
         RolledBack, Stops, Begin, At, CeremonyTypeOK
    <3>3. mig'[t] = mig[t]
      BY <1>2, <2>3 DEF StageSteps, Stage, Drain, FreezeSends, Reseal, DropOldBundle,
         WriteBundle, WriteDek, RecordBundle, SendCard, ReceiveCard, Provision, Staged,
         VerifySteps, Verify, SignReady, DualRead, Prove, Verified, Post,
         CutoverSteps, Cutover, SignCommit, ReceiveCommit, RevokeOldKeys, RejectSends,
         StartDrain, DeleteKey, DestroyBundle, DeleteDek, Committed, ObserveSteps, Observe,
         CloseReads, Complete, DrainWindowEnds, RollbackSteps, Rollback, RollbackKeyCheck,
         RolledBack, Stops, CeremonyTypeOK
    <3>4. QED
      BY <1>1, <3>1, <3>2, <3>3, OtherSideKeeps
  <2>4. QED
    BY <2>2, <2>3
<1>3. CASE LegacySteps \/ UNCHANGED vars
  <2>1. UNCHANGED ceremonyVars
    BY <1>3 DEF LegacySteps, ReadLegacy, StoreLegacy, PollerDies, PruneGuard, ceremonyVars, vars
  <2>2. QED
    BY <1>1, <2>1, OtherSideKeeps DEF ceremonyVars
<1>4. QED
  BY <1>2, <1>3 DEF Next

\* CeremonyInv is an invariant of the migration.
LEMMA CeremonyInvariant == Spec => []CeremonyInv
<1>1. Init => CeremonyInv
  BY DEF Init, CeremonyInv, SideInv, PhaseHeld, KeyHeld, BundleHeld, CutoverOrder, StagePcs,
         VerifyPcs, CutoverPcs, ObservePcs, RollbackPcs, None
<1>2. QED
  BY <1>1, CeremonyTypes, CeremonyStep, PTL DEF Spec

\* Whatever attempts were interrupted, a staged or verified side that holds its legacy key
\* has a bundle its recorded path names, its key opens and its last freeze filled, and a
\* side that rolled back has its key.
THEOREM RollbackIsPossible == Spec => []RollbackStillWorks
<1>1. CeremonyInv => RollbackStillWorks
  BY DEF CeremonyInv, SideInv, KeyHeld, BundleHeld, RollbackStillWorks
<1>2. QED
  BY <1>1, CeremonyInvariant, PTL

\* The legacy key goes only after the peer's commit and the revocation of the old deploy
\* keys, and a committed side keeps no sends, no key and no bundle that opens.
THEOREM CommitIsSafe == Spec => []CommitIsMutualAndFinal
<1>1. CeremonyTypeOK /\ CeremonyInv => CommitIsMutualAndFinal
  BY DEF CeremonyTypeOK, CeremonyInv, SideInv, KeyHeld, CutoverOrder, CommitIsMutualAndFinal
<1>2. QED
  BY <1>1, CeremonyTypes, CeremonyInvariant, PTL

-----------------------------------------------------------------------------
\* There are finitely many imported letters.
LEMMA StoredFinite ==
    ASSUME NEW f
    PROVE  IsFiniteSet(Stored(f)) /\ Cardinality(Stored(f)) \in Nat
  BY SidesAssumption, FS_Subset, FS_CardinalityType DEF Stored

\* The number after the last keeps a table without a gap.
LEMMA NextNumberFits ==
    ASSUME NEW f, Numbered(f), NEW l \in Letters, f[l] = 0
    PROVE  Numbered([f EXCEPT ![l] = 1 + Cardinality(Stored(f))])
<1> DEFINE n == Cardinality(Stored(f))
           g == [f EXCEPT ![l] = 1 + n]
<1>1. n \in Nat /\ IsFiniteSet(Stored(f))
  BY StoredFinite
<1>2. g \in [Letters -> Nat] /\ g[l] = 1 + n /\ \A k \in Letters \ {l} : g[k] = f[k]
  BY <1>1 DEF Numbered
<1>3. Stored(g) = Stored(f) \cup {l} /\ l \notin Stored(f)
  BY <1>1, <1>2 DEF Stored
<1>4. Cardinality(Stored(g)) = n + 1
  BY <1>1, <1>3, FS_AddElement
<1>5. {g[k] : k \in Stored(g)} = {f[k] : k \in Stored(f)} \cup {n + 1}
  BY <1>1, <1>2, <1>3 DEF Stored
<1>6. (1..n) \cup {n + 1} = 1..(n + 1)
  BY <1>1
<1>7. QED
  BY <1>2, <1>4, <1>5, <1>6 DEF Numbered

\* A poller's number is free only if nothing was stored since it read the table.
LEMMA FreeNumberMeansCurrent ==
    ASSUME NEW old, NEW cur, Numbered(old), Numbered(cur), Extends(cur, old),
           \A k \in Letters : cur[k] # 1 + Cardinality(Stored(old))
    PROVE  cur = old
<1> DEFINE n == Cardinality(Stored(old))
           m == Cardinality(Stored(cur))
<1>1. n \in Nat /\ m \in Nat /\ IsFiniteSet(Stored(old)) /\ IsFiniteSet(Stored(cur))
  BY StoredFinite
<1>2. Stored(old) \subseteq Stored(cur)
  BY DEF Stored, Extends
<1>3. m <= n
  <2>1. SUFFICES ASSUME m > n PROVE FALSE
    BY <1>1
  <2>2. 1 + n \in 1..m
    BY <1>1, <2>1
  <2>3. PICK k \in Stored(cur) : cur[k] = 1 + n
    BY <2>2 DEF Numbered
  <2>4. QED
    BY <2>3 DEF Stored
<1>4. Stored(cur) = Stored(old)
  BY <1>1, <1>2, <1>3, FS_Subset
<1>5. \A k \in Letters : cur[k] = old[k]
  BY <1>4 DEF Stored, Extends, Numbered
<1>6. QED
  BY <1>5 DEF Numbered

\* A reader's table only grows, so what the pollers hold stays a part of it.
LEMMA ReadingsStay ==
    ASSUME NEW p, RxHeld(p), rx'[p] = rx[p],
           \A s \in Readers : Extends(events'[s], events[s])
    PROVE  RxHeld(p)'
  BY DEF RxHeld, Extends

\* The adapter's two transactions, a poller's death and the expiry of replay rows keep
\* the tables in step.  Storing is the delicate case: the poller's table is stale unless
\* its number is still free.
LEMMA LegacyStep == LegacyInv /\ [Next]_vars => LegacyInv'
<1> SUFFICES ASSUME LegacyInv, [Next]_vars PROVE LegacyInv'
  OBVIOUS
<1>1. ASSUME NEW p \in Pollers, NEW s \in Readers, NEW l \in Letters, ReadLegacy(p, s, l)
      PROVE  LegacyInv'
  <2>1. UNCHANGED <<events, assigner>> /\ rx' = [rx EXCEPT ![p] = Reading(l, s, Assign(events[s], l))]
    BY <1>1 DEF ReadLegacy, Reading, LegacyInv
  <2>2. RxHeld(p)'
    BY <2>1 DEF LegacyInv, RxHeld, Numbered, Extends
  <2>3. \A q \in Pollers \ {p} : RxHeld(q)'
    BY <2>1, ReadingsStay DEF LegacyInv, Extends
  <2>4. QED
    BY <2>1, <2>2, <2>3 DEF LegacyInv
<1>2. ASSUME NEW p \in Pollers, PollerDies(p) PROVE LegacyInv'
  <2>1. UNCHANGED <<events, assigner>> /\ rx' = [rx EXCEPT ![p] = NoRx]
    BY <1>2 DEF PollerDies
  <2>2. \A q \in Pollers \ {p} : RxHeld(q)'
    BY <2>1, ReadingsStay DEF LegacyInv, Extends
  <2>3. RxHeld(p)'
    BY <2>1 DEF LegacyInv, RxHeld
  <2>4. QED
    BY <2>1, <2>2, <2>3 DEF LegacyInv
<1>3. ASSUME NEW p \in Pollers, StoreLegacy(p) PROVE LegacyInv'
  <2>1. PICK s \in Readers, l \in Letters, old \in [Letters -> Nat] :
           /\ rx[p] = Reading(l, s, Assign(old, l))
           /\ Numbered(old) /\ Extends(events[s], old)
    BY <1>3 DEF StoreLegacy, LegacyInv, RxHeld
  <2> DEFINE seq == Assign(old, l)[l]
  <2>2. rx[p].side = s /\ rx[p].letter = l /\ rx[p].table = Assign(old, l)
    BY <2>1 DEF Reading
  <2>3. rx' = [rx EXCEPT ![p] = NoRx]
    BY <1>3 DEF StoreLegacy
  <2>4. CASE events[s][l] # 0 \/ \E k \in Letters : events[s][k] = seq
    <3>1. UNCHANGED <<events, assigner>>
      BY <1>3, <2>2, <2>4 DEF StoreLegacy
    <3>2. \A q \in Pollers \ {p} : RxHeld(q)'
      BY <2>3, <3>1, ReadingsStay DEF LegacyInv, Extends
    <3>3. RxHeld(p)'
      BY <2>3 DEF LegacyInv, RxHeld
    <3>4. QED
      BY <2>3, <3>1, <3>2, <3>3 DEF LegacyInv
  <2>5. CASE events[s][l] = 0 /\ \A k \in Letters : events[s][k] # seq
    <3>1. /\ events' = [events EXCEPT ![s][l] = seq]
          /\ assigner' = [assigner EXCEPT ![s] = Assign(old, l)]
      BY <1>3, <2>2, <2>5 DEF StoreLegacy
    <3>2. old[l] = 0
      BY <2>1, <2>5 DEF Extends
    <3>3. Assign(old, l) = [old EXCEPT ![l] = 1 + Cardinality(Stored(old))]
      BY <3>2 DEF Assign, Stored
    <3>4. seq = 1 + Cardinality(Stored(old))
      BY <3>3
    <3>5. events[s] = old
      BY <2>1, <2>5, <3>4, FreeNumberMeansCurrent DEF LegacyInv
    <3>6. events' = [events EXCEPT ![s] = Assign(old, l)]
      BY <3>1, <3>3, <3>4, <3>5 DEF LegacyInv
    <3>7. Numbered(Assign(old, l))
      BY <2>1, <3>2, <3>3, NextNumberFits
    <3>8. /\ events' \in [Readers -> [Letters -> Nat]] /\ assigner' = events'
          /\ \A t \in Readers : Numbered(events'[t])
      <4>1. Assign(old, l) \in [Letters -> Nat]
        BY <3>7 DEF Numbered
      <4>2. \A t \in Readers : events'[t] = IF t = s THEN Assign(old, l) ELSE events[t]
        BY <3>6 DEF LegacyInv
      <4>3. \A t \in Readers : Numbered(events'[t])
        BY <3>7, <4>2 DEF LegacyInv
      <4>4. QED
        BY <3>1, <3>6, <4>1, <4>3 DEF LegacyInv
    <3>9. \A t \in Readers : Extends(events'[t], events[t])
      BY <3>2, <3>3, <3>5, <3>6 DEF Extends, LegacyInv
    <3>10. \A q \in Pollers \ {p} : RxHeld(q)'
      BY <2>3, <3>9, ReadingsStay DEF LegacyInv
    <3>11. RxHeld(p)'
      BY <2>3 DEF LegacyInv, RxHeld
    <3>12. QED
      BY <2>3, <3>8, <3>10, <3>11 DEF LegacyInv
  <2>6. QED
    BY <2>4, <2>5
<1>4. CASE UNCHANGED <<events, assigner, rx>>
  <2>1. \A q \in Pollers : RxHeld(q)'
    BY <1>4, ReadingsStay DEF LegacyInv, Extends
  <2>2. QED
    BY <1>4, <2>1 DEF LegacyInv
<1>5. ASSUME NEW s \in Sides,
             \/ StageSteps(s) \/ VerifySteps(s) \/ CutoverSteps(s)
             \/ ObserveSteps(s) \/ RollbackSteps(s) \/ Stops(s)
      PROVE  UNCHANGED <<events, assigner, rx>>
  BY <1>5 DEF StageSteps, Stage, Drain, FreezeSends, Reseal, DropOldBundle, WriteBundle,
         WriteDek, RecordBundle, SendCard, ReceiveCard, Provision, Staged,
         VerifySteps, Verify, SignReady, DualRead, Prove, Verified,
         CutoverSteps, Cutover, SignCommit, ReceiveCommit, RevokeOldKeys, RejectSends,
         StartDrain, DeleteKey, DestroyBundle, DeleteDek, Committed, ObserveSteps, Observe,
         CloseReads, Complete, DrainWindowEnds, RollbackSteps, Rollback, RollbackKeyCheck,
         RolledBack, Stops, At, legacyVars
<1>6. QED
  BY <1>1, <1>2, <1>3, <1>4, <1>5 DEF Next, LegacySteps, PruneGuard, vars

\* LegacyInv is an invariant of the migration.
LEMMA LegacyInvariant == Spec => []LegacyInv
<1>1. Init => LegacyInv
  <2> SUFFICES ASSUME Init PROVE LegacyInv
    OBVIOUS
  <2>1. Stored(Unassigned) = {}
    BY DEF Stored, Unassigned
  <2>2. Numbered(Unassigned)
    BY <2>1, FS_EmptySet DEF Numbered, Unassigned
  <2>3. QED
    BY <2>2 DEF Init, LegacyInv, RxHeld, Unassigned
<1>2. QED
  BY <1>1, LegacyStep, PTL DEF Spec

\* However often a v0.1 letter is delivered, polled and interrupted, it is stored once,
\* under the next number, with seq_assigner in step with the rows.
THEOREM LettersStoredOnce == Spec => []LegacyStoredOnce
<1>1. LegacyInv => LegacyStoredOnce
  BY DEF LegacyInv, Numbered, Stored, LegacyStoredOnce
<1>2. QED
  BY <1>1, LegacyInvariant, PTL
=============================================================================
