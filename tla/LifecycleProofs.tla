--------------------------- MODULE LifecycleProofs ---------------------------
(***************************************************************************)
(* TLAPS proofs about Lifecycle (with Pairing and Teardown), for any number *)
(* of relationships, invites, runs, repositories and commands.             *)
(***************************************************************************)
EXTENDS Lifecycle, FiniteSetTheorems, TLAPS

AcceptanceFiles == [invite : Invites, card : Cards, n : Nat]
RunStates == [pc : Pcs \ {"unused"}, a : AcceptanceFiles, repo : Repos, self : Nat]
Verifications == [card : Cards \cup {"none"}, approved : BOOLEAN]

PairingTypeOK ==
    /\ invite \in [Invites -> InviteStates]
    /\ shown \in [Invites -> Verifications]
    /\ compared \subseteq Invites
    /\ run \in [Attempts -> RunStates \cup {NoRun}]
    /\ peer \in [Attempts -> AcceptanceFiles \cup {NoAcceptance}]
    /\ committed \subseteq Attempts /\ out \subseteq Attempts /\ overlapped \subseteq Attempts
    /\ deployFile \in [Invites -> Nat]
    /\ handed \subseteq AcceptanceFiles
    /\ accFile \in [Invites -> Nat] /\ accRun \in [Invites -> Nat]
    /\ accRel \in [Attempts -> Nat] /\ accMade \in Nat
    /\ ready \in Attempts \cup {NoRid}

Committing == {"relay", "config", "output"}

\* A run works on an acceptance file it was given, and what it committed is that one.
RunHeld(r) ==
    /\ run[r].pc # "unused" => run[r].a \in handed
    /\ run[r].pc \in Committing => r \in committed
    /\ r \in committed =>
          /\ run[r].pc \in Committing \cup {"done"} /\ peer[r] = run[r].a
          /\ invite[run[r].a.invite] \in {"committed", "expired"}

\* A run that is not disturbed confirms the card whose phrase was compared.
ComparedHeld(r) ==
    r \notin overlapped =>
        /\ run[r].pc = "confirm" => shown[run[r].a.invite].card = "acceptor"
        /\ run[r].pc \in {"peer", "self", "store", "txn"} \/ r \in committed =>
              run[r].a.card = "acceptor"

\* The acceptor ingests a commit it was handed, with the key file of the invite.
IngestHeld(r) ==
    /\ r \in out => r \in committed
    /\ accRel[r] # 0 =>
          /\ r \in out /\ run[r].a.card = "acceptor"
          /\ run[r].a.invite \notin rewritten => accRel[r] = accFile[run[r].a.invite]

\* The acceptance files of an invite that was not accepted anew name the stored key.
AcceptanceHeld ==
    \A a \in handed : a.card = "acceptor" =>
        a.n # 0 /\ (a.invite \notin rewritten => a.n = accFile[a.invite])

PairingInv ==
    /\ \A r \in Attempts : RunHeld(r) /\ ComparedHeld(r) /\ IngestHeld(r)
    /\ \A i \in compared : shown[i].card = "acceptor"
    /\ \A r, s \in committed : run[r].a.invite = run[s].a.invite => r = s
    /\ AcceptanceHeld

-----------------------------------------------------------------------------
ConsentStates == {"none", "pending", "active", "revoked"}
Docs == [rid : Rids \cup {NoRid}, repo : Repos \cup {NoRepo}]
TdPcs == {"mark", "keys", "repo", "destroy", "tombstone", "journal", "delete", "wipe",
          "subtree", "prune", "check"}
TdStates == [pc : TdPcs, rid : Rids, refs : Refs, keys : SUBSET KeyNames, again : BOOLEAN]

DirTypeOK ==
    /\ consent \in [Rids -> ConsentStates]
    /\ keyRows \subseteq KeyNames /\ keyFiles \subseteq KeyNames
    /\ relayCfg \in [Rids -> Repos \cup {NoRepo}]
    /\ relayJson \in Docs
    /\ td = Idle \/ td \in TdStates
    /\ tombs \subseteq Rids /\ raced \subseteq Rids
    /\ journal \in [Rids -> Refs \cup {NoRefs}]
    /\ gone \subseteq Repos
    /\ rotating \in [pc : {"begun", "stored"}, rid : Rids] \cup {NotRotating}
    /\ discarding \in Rids \cup {NoRid}
    /\ orphans \subseteq KeyNames /\ clobbered \subseteq KeyNames
    /\ erased \subseteq Rids /\ walked \subseteq Rids

Known == committed \cup Established

\* Where a teardown stands, the consent state, the tombstone, the journal and the key
\* from pairing agree.
TdHeld ==
    /\ td.pc = "mark" => HasRow(td.rid)
    /\ td.pc \in {"keys", "repo", "destroy", "tombstone", "journal", "delete"} =>
           consent[td.rid] = "revoked"
    /\ td.pc \in {"wipe", "subtree", "prune", "check"} => ~HasRow(td.rid)
    /\ td # Idle => td.rid \in Known
    /\ td.pc \in {"journal", "delete", "wipe", "subtree", "prune", "check"} => td.rid \in tombs
    /\ td.pc = "delete" => journal[td.rid] # NoRefs
    /\ td.pc \in {"tombstone", "journal", "delete"} => <<td.rid, 1>> \notin keyFiles

\* Rows exist for committed relationships only, each with the key from pairing; a run or
\* a rotation about to insert its row has its file, and is the only one to insert it.
RowsHeld ==
    /\ tombs \subseteq Known
    /\ \A r \in Attempts \ committed : consent[r] = "none"
    /\ \A k \in keyRows : HasRow(k[1])
    /\ \A r \in Known : HasRow(r) => <<r, 1>> \in keyRows
    /\ \A k \in keyFiles : k[2] = 2 => k[1] \in Known
    /\ \A r \in Attempts : run[r].pc = "txn" => <<r, 1>> \in keyFiles
    /\ rotating.pc # "idle" => rotating.rid \in Known /\ <<rotating.rid, 2>> \notin keyRows
    /\ rotating.pc = "stored" /\ consent[rotating.rid] \in {"pending", "active"} =>
           <<rotating.rid, 2>> \in keyFiles \cup clobbered

TeardownInv == TdHeld /\ RowsHeld /\ KeysFollowRows /\ DeadTeardownCanResume

-----------------------------------------------------------------------------
Open == {"pending", "active"}

RunKeys(r) == {Hosted(r, PeerKey(r)), Hosted(r, SelfKey(r))}
EstablishedKeys(r) ==
    {[key |-> <<role, r>>, rid |-> r, repo |-> relayCfg[r]] : role \in {"peer", "self"}}

\* As long as its repository is there, a run has registered the deploy keys its step says,
\* and a relationship it committed has them both until it is revoked.
RunKeysHeld(r) ==
    /\ r \notin committed => relayCfg[r] = NoRepo
    /\ relayCfg[r] # NoRepo => relayCfg[r] = run[r].repo
    /\ run[r].pc \in {"unused", "confirm", "peer"} => Registered(r) = {}
    /\ run[r].pc = "self" /\ run[r].repo \notin gone => Registered(r) = {Hosted(r, PeerKey(r))}
    /\ /\ run[r].pc \in {"store", "txn"} \/ (r \in committed /\ consent[r] \in Open)
       /\ run[r].repo \notin gone
       => Registered(r) = RunKeys(r)

EstablishedHeld(r) ==
    consent[r] \in Open /\ relayCfg[r] \notin gone => Registered(r) = EstablishedKeys(r)

\* Nobody else is on a repository a teardown decided to delete, but for those that
\* came after it looked.
DoomHeld ==
    td.pc \in {"mark", "keys", "repo"} /\ td.refs.repo # NoRepo =>
        \A r \in Rids \ {td.rid} : relayCfg[r] = td.refs.repo => r \in raced

GoneHeld == \A r \in Rids \ raced : consent[r] \in Open => relayCfg[r] \notin gone

RelayInv ==
    /\ \A r \in Attempts : RunKeysHeld(r)
    /\ \A r \in Established : EstablishedHeld(r)
    /\ DoomHeld /\ GoneHeld

-----------------------------------------------------------------------------
\* A run has a record of its own exactly from its preview on.
LEMMA RunRecord ==
    ASSUME PairingTypeOK, NEW r \in Attempts, run[r].pc # "unused"
    PROVE  run[r] \in RunStates
<1>1. NoRun.pc = "unused"
  BY DEF NoRun
<1>2. QED
  BY <1>1 DEF PairingTypeOK

\* A run that moves on keeps its acceptance, its repository and its deploy key.
LEMMA GotoKeeps ==
    ASSUME PairingTypeOK, NEW r \in Attempts, NEW pc \in Pcs \ {"unused"}, NEW from,
           run[r].pc = from, from # "unused", Goto(r, pc)
    PROVE  /\ run' \in [Attempts -> RunStates \cup {NoRun}]
           /\ run'[r].pc = pc /\ run'[r].a = run[r].a
           /\ run'[r].repo = run[r].repo /\ run'[r].self = run[r].self
           /\ \A s \in Attempts \ {r} : run'[s] = run[s]
<1>1. run[r] \in RunStates
  BY RunRecord
<1>2. /\ run'[r] = [run[r] EXCEPT !.pc = pc]
      /\ \A s \in Attempts \ {r} : run'[s] = run[s]
  BY DEF Goto, PairingTypeOK
<1>3. run'[r] \in RunStates
  BY <1>1, <1>2 DEF RunStates
<1>4. run' = [run EXCEPT ![r] = run'[r]]
  BY <1>2 DEF Goto, PairingTypeOK
<1>5. run' \in [Attempts -> RunStates \cup {NoRun}]
  BY <1>3, <1>4 DEF PairingTypeOK
<1>6. QED
  BY <1>1, <1>2, <1>5 DEF RunStates

\* A confirmed run also has its deploy key.
LEMMA ConfirmKeeps ==
    ASSUME PairingTypeOK, NEW r \in Attempts, NEW k \in Nat, run[r].pc = "confirm",
           run' = [run EXCEPT ![r].pc = "peer", ![r].self = k]
    PROVE  /\ run' \in [Attempts -> RunStates \cup {NoRun}]
           /\ run'[r].pc = "peer" /\ run'[r].a = run[r].a /\ run'[r].repo = run[r].repo
           /\ \A s \in Attempts \ {r} : run'[s] = run[s]
<1>1. run[r] \in RunStates
  BY RunRecord
<1>2. /\ run'[r] = [run[r] EXCEPT !.pc = "peer", !.self = k]
      /\ \A s \in Attempts \ {r} : run'[s] = run[s]
  BY DEF PairingTypeOK
<1>3. run'[r] \in RunStates
  <2>1. "peer" \in Pcs \ {"unused"}
    BY DEF Pcs
  <2>2. [run[r] EXCEPT !.pc = "peer"] \in RunStates
    BY <1>1, <2>1 DEF RunStates
  <2>3. [[run[r] EXCEPT !.pc = "peer"] EXCEPT !.self = k] \in RunStates
    BY <2>2 DEF RunStates
  <2>4. QED
    BY <1>2, <2>3
<1>4. run' = [run EXCEPT ![r] = run'[r]]
  BY <1>2 DEF PairingTypeOK
<1>5. run' \in [Attempts -> RunStates \cup {NoRun}]
  BY <1>3, <1>4 DEF PairingTypeOK
<1>6. QED
  BY <1>1, <1>2, <1>5 DEF RunStates

\* Every action of the pairing keeps the types.
LEMMA PairingTypes == Spec => []PairingTypeOK
<1>1. Init => PairingTypeOK
  BY StateDirAssumption DEF Init, PairingInit, PairingTypeOK, NotShown, Verifications, InviteStates, NoRid
<1>2. PairingTypeOK /\ [Next]_vars => PairingTypeOK'
  <2> SUFFICES ASSUME PairingTypeOK, [Next]_vars PROVE PairingTypeOK'
    OBVIOUS
  <2> USE DEF acceptorVars, inviterVars
  <2>1. ASSUME NEW i \in Invites, CreateInvite(i) PROVE PairingTypeOK'
    <3>1. [invite |-> i, card |-> "other", n |-> 0] \in AcceptanceFiles
      BY DEF AcceptanceFiles, Cards
    <3>2. QED
      BY <2>1, <3>1 DEF CreateInvite, PairingTypeOK, InviteStates
  <2>2. ASSUME NEW i \in Invites, Expire(i) \/ AcceptDies(i) \/ Compare(i) PROVE PairingTypeOK'
    BY <2>2 DEF Expire, AcceptDies, Compare, PairingTypeOK
  <2>3. ASSUME NEW i \in Invites, Accept(i) PROVE PairingTypeOK'
    <3>1. accMade + 1 \in Nat
      BY DEF PairingTypeOK
    <3>2. QED
      BY <2>3, <3>1 DEF Accept, PairingTypeOK
  <2>4. ASSUME NEW i \in Invites, StoreAcceptance(i) PROVE PairingTypeOK'
    <3>1. [invite |-> i, card |-> "acceptor", n |-> accRun[i]] \in AcceptanceFiles
      BY DEF AcceptanceFiles, Cards, PairingTypeOK
    <3>2. QED
      BY <2>4, <3>1 DEF StoreAcceptance, PairingTypeOK
  <2>5. ASSUME NEW a \in handed, Display(a) PROVE PairingTypeOK'
    <3>1. a.invite \in Invites /\ [card |-> a.card, approved |-> FALSE] \in Verifications
      BY DEF PairingTypeOK, AcceptanceFiles, Verifications
    <3>2. QED
      BY <2>5, <3>1 DEF Display, PairingTypeOK
  <2>6. ASSUME NEW a \in handed, NEW r \in Attempts, NEW repo \in Repos, Preview(r, a, repo)
        PROVE  PairingTypeOK'
    <3>1. a.invite \in Invites /\ a \in AcceptanceFiles
      BY DEF PairingTypeOK, AcceptanceFiles
    <3>2. [pc |-> "confirm", a |-> a, repo |-> repo, self |-> 0] \in RunStates
      BY <3>1 DEF RunStates, Pcs
    <3>3. QED
      BY <2>6, <3>1, <3>2 DEF Preview, PairingTypeOK, InviteStates
  <2>7. ASSUME NEW r \in Attempts, Confirm(r) PROVE PairingTypeOK'
    <3> DEFINE i == run[r].a.invite
               k == DeployKeyOf(i, r)
    <3>1. run[r] \in RunStates
      BY <2>7, RunRecord DEF Confirm
    <3>2. i \in Invites
      BY <3>1 DEF RunStates, AcceptanceFiles
    <3>3. k \in Nat
      BY <3>2, StateDirAssumption DEF DeployKeyOf, PairingTypeOK, Attempts
    <3>4. CASE shown[i].card = run[r].a.card
      <4>1. [shown EXCEPT ![i].approved = TRUE] \in [Invites -> Verifications]
        BY <3>2 DEF PairingTypeOK, Verifications
      <4>2. run' \in [Attempts -> RunStates \cup {NoRun}]
        BY <2>7, <3>3, <3>4, ConfirmKeeps DEF Confirm
      <4>3. QED
        BY <2>7, <3>2, <3>3, <3>4, <4>1, <4>2 DEF Confirm, PairingTypeOK
    <3>5. CASE shown[i].card # run[r].a.card
      <4>1. run' \in [Attempts -> RunStates \cup {NoRun}]
        BY <2>7, <3>5, GotoKeeps DEF Confirm, Pcs
      <4>2. QED
        BY <2>7, <3>5, <4>1 DEF Confirm, PairingTypeOK
    <3>6. QED
      BY <3>4, <3>5
  <2>8. ASSUME NEW r \in Attempts, RegisterPeer(r) \/ RegisterSelf(r) PROVE PairingTypeOK'
    <3>1. run[r] \in RunStates
      BY <2>8, RunRecord DEF RegisterPeer, RegisterSelf, Register
    <3>2. run[r].a.invite \in Invites
      BY <3>1 DEF RunStates, AcceptanceFiles
    <3>3. run' \in [Attempts -> RunStates \cup {NoRun}]
      BY <2>8, GotoKeeps DEF RegisterPeer, RegisterSelf, Register, Undo, Pcs
    <3>4. QED
      BY <2>8, <3>2, <3>3 DEF RegisterPeer, RegisterSelf, Register, Undo, PairingTypeOK
  <2>9. ASSUME NEW r \in Attempts, StoreKey(r) \/ WriteRelayJson(r) \/ SaveRelayConfig(r)
        PROVE  PairingTypeOK'
    <3>1. run' \in [Attempts -> RunStates \cup {NoRun}]
      BY <2>9, GotoKeeps DEF StoreKey, WriteRelayJson, SaveRelayConfig, Pcs
    <3>2. QED
      BY <2>9, <3>1 DEF StoreKey, WriteRelayJson, SaveRelayConfig, PairingTypeOK
  <2>10. ASSUME NEW r \in Attempts, HandOver(r) \/ RunDies(r) PROVE PairingTypeOK'
    <3>1. run' \in [Attempts -> RunStates \cup {NoRun}]
      BY <2>10, GotoKeeps DEF HandOver, RunDies, Pcs
    <3>2. QED
      BY <2>10, <3>1 DEF HandOver, RunDies, PairingTypeOK
  <2>11. ASSUME NEW r \in Attempts, CommitTxn(r) PROVE PairingTypeOK'
    <3>1. run[r] \in RunStates
      BY <2>11, RunRecord DEF CommitTxn
    <3>2. run[r].a \in AcceptanceFiles /\ run[r].a.invite \in Invites
      BY <3>1 DEF RunStates, AcceptanceFiles
    <3>3. run' \in [Attempts -> RunStates \cup {NoRun}]
      BY <2>11, GotoKeeps DEF CommitTxn, Pcs
    <3>4. QED
      BY <2>11, <3>2, <3>3 DEF CommitTxn, PairingTypeOK, InviteStates
  <2>12. ASSUME NEW r \in Attempts, CommitFails(r) PROVE PairingTypeOK'
    <3> DEFINE i == run[r].a.invite
    <3>1. run[r] \in RunStates
      BY <2>12, RunRecord DEF CommitFails
    <3>2. i \in Invites
      BY <3>1 DEF RunStates, AcceptanceFiles
    <3>3. run' \in [Attempts -> RunStates \cup {NoRun}]
      BY <2>12, GotoKeeps DEF CommitFails, Undo, Pcs
    <3>4. invite' \in [Invites -> InviteStates]
      BY <2>12, <3>2 DEF CommitFails, PairingTypeOK, InviteStates
    <3>5. QED
      BY <2>12, <3>2, <3>3, <3>4 DEF CommitFails, Undo, PairingTypeOK
  <2>13. ASSUME NEW r \in Attempts, Ingest(r) PROVE PairingTypeOK'
    <3>1. peer[r] \in AcceptanceFiles
      BY <2>13 DEF Ingest, Ingestable, PairingTypeOK, NoAcceptance
    <3>2. peer[r].invite \in Invites
      BY <3>1 DEF AcceptanceFiles
    <3>3. QED
      BY <2>13, <3>2 DEF Ingest, PairingTypeOK
  <2>14. ASSUME NEW r \in Attempts, ReadReady(r) PROVE PairingTypeOK'
    BY <2>14 DEF ReadReady, PairingTypeOK
  <2>15. CASE MarkActive
    BY <2>15 DEF MarkActive, PairingTypeOK
  <2>16. CASE UNCHANGED pairingVars
    BY <2>16 DEF pairingVars, PairingTypeOK
  <2>17. QED
    BY <2>1, <2>2, <2>3, <2>4, <2>5, <2>6, <2>7, <2>8, <2>9, <2>10, <2>11, <2>12, <2>13,
       <2>14, <2>15, <2>16 DEF Next, PairingNext, vars
<1>3. QED
  BY <1>1, <1>2, PTL DEF Spec

-----------------------------------------------------------------------------
\* The acceptance a run works on names an invite.
LEMMA RunInvite ==
    ASSUME PairingTypeOK, NEW r \in Attempts, run[r].pc # "unused"
    PROVE  run[r].a \in AcceptanceFiles /\ run[r].a.invite \in Invites
  BY RunRecord DEF RunStates, AcceptanceFiles

\* A run that only moves on, or dies, keeps the pairing invariant.
LEMMA MovingOnKeeps ==
    ASSUME PairingTypeOK, PairingInv, NEW r \in Attempts, NEW pc \in Pcs \ {"unused", "confirm"},
           run[r].pc # "unused", Goto(r, pc),
           pc \in Committing => r \in committed,
           r \in committed => pc \in Committing \cup {"done"},
           pc \in {"peer", "self", "store", "txn"} =>
               run[r].pc \in {"peer", "self", "store", "txn"},
           UNCHANGED <<invite, shown, compared, peer, committed, overlapped, handed, accFile,
                       accRel, rewritten>>,
           out \subseteq out', out' \subseteq out \cup committed
    PROVE  PairingInv'
<1>1. /\ run'[r].pc = pc /\ run'[r].a = run[r].a
      /\ \A s \in Attempts \ {r} : run'[s] = run[s]
  BY GotoKeeps
<1>2. \A s \in Attempts : RunHeld(s)'
  BY <1>1 DEF PairingInv, RunHeld
<1>3. \A s \in Attempts : ComparedHeld(s)'
  BY <1>1 DEF PairingInv, ComparedHeld
<1>4. \A s \in Attempts : IngestHeld(s)'
  BY <1>1 DEF PairingInv, IngestHeld, PairingTypeOK
<1>5. \A s, q \in committed' : run'[s].a.invite = run'[q].a.invite => s = q
  BY <1>1 DEF PairingInv, PairingTypeOK
<1>6. QED
  BY <1>2, <1>3, <1>4, <1>5 DEF PairingInv, AcceptanceHeld

\* One step of either agent, of a run of `pair commit` or of a teardown keeps the pairing
\* invariant.  The claim of the invite inside the commit transaction is what makes a
\* second commit impossible; the displayed card it re-reads is what ties it to the phrase.
LEMMA PairingStep == PairingTypeOK /\ PairingInv /\ [Next]_vars => PairingInv'
<1> SUFFICES ASSUME PairingTypeOK, PairingInv, [Next]_vars PROVE PairingInv'
  OBVIOUS
<1> USE DEF inviterVars, acceptorVars
<1>1. ASSUME NEW i \in Invites, CreateInvite(i) PROVE PairingInv'
  <2>1. /\ invite[i] = "none" /\ invite' = [invite EXCEPT ![i] = "issued"]
        /\ handed' = handed \cup {[invite |-> i, card |-> "other", n |-> 0]}
        /\ UNCHANGED <<shown, compared, run, peer, committed, out, overlapped, accFile, accRel,
                       rewritten>>
    BY <1>1 DEF CreateInvite
  <2>2. \A r \in Attempts : RunHeld(r)'
    <3> SUFFICES ASSUME NEW r \in Attempts PROVE RunHeld(r)'
      OBVIOUS
    <3>1. CASE run[r].pc = "unused"
      BY <2>1, <3>1 DEF PairingInv, RunHeld, Committing
    <3>2. CASE run[r].pc # "unused"
      <4>1. run[r].a.invite \in Invites
        BY <3>2, RunInvite
      <4>2. QED
        BY <2>1, <3>2, <4>1 DEF PairingInv, RunHeld, PairingTypeOK
    <3>3. QED
      BY <3>1, <3>2
  <2>3. QED
    BY <2>1, <2>2 DEF PairingInv, ComparedHeld, IngestHeld, AcceptanceHeld
<1>2. ASSUME NEW i \in Invites, Compare(i) PROVE PairingInv'
  BY <1>2 DEF Compare, PairingInv, RunHeld, ComparedHeld, IngestHeld, AcceptanceHeld
<1>3. ASSUME NEW i \in Invites, Expire(i) \/ AcceptDies(i) \/ Accept(i) PROVE PairingInv'
  BY <1>3 DEF Expire, AcceptDies, Accept, PairingInv, RunHeld, ComparedHeld, IngestHeld,
              AcceptanceHeld
<1>4. ASSUME NEW i \in Invites, StoreAcceptance(i) PROVE PairingInv'
  <2>1. UNCHANGED <<invite, shown, compared, run, peer, committed, out, overlapped, accRel>>
    BY <1>4 DEF StoreAcceptance
  <2>2. accRun[i] # 0
    BY <1>4 DEF StoreAcceptance
  <2> DEFINE new == [invite |-> i, card |-> "acceptor", n |-> accRun[i]]
             again == {h \in handed : h.invite = i /\ h.card = "acceptor"}
  <2>3. CASE /\ accFile[i] = 0 /\ accFile' = [accFile EXCEPT ![i] = accRun[i]]
             /\ handed' \in {handed, handed \cup {new}} /\ UNCHANGED rewritten
    <3>1. /\ accFile[i] = 0 /\ accFile' = [accFile EXCEPT ![i] = accRun[i]]
          /\ handed \subseteq handed' /\ handed' \subseteq handed \cup {new}
          /\ UNCHANGED rewritten
      BY <2>3
    <3>2. \A r \in Attempts : RunHeld(r)' /\ ComparedHeld(r)'
      BY <2>1, <3>1 DEF PairingInv, RunHeld, ComparedHeld
    <3>3. AcceptanceHeld'
      <4> SUFFICES ASSUME NEW a \in handed', a.card = "acceptor"
                   PROVE  a.n # 0 /\ (a.invite \notin rewritten' => a.n = accFile'[a.invite])
        BY DEF AcceptanceHeld
      <4>1. CASE a = new
        BY <2>2, <3>1, <4>1 DEF PairingTypeOK
      <4>2. CASE a \in handed
        <5>1. a.invite \in Invites
          BY <4>2 DEF PairingTypeOK, AcceptanceFiles
        <5>2. QED
          BY <2>3, <3>1, <4>2, <5>1 DEF PairingInv, AcceptanceHeld, PairingTypeOK
      <4>3. QED
        BY <3>1, <4>1, <4>2
    <3>4. \A r \in Attempts : IngestHeld(r)'
      <4> SUFFICES ASSUME NEW r \in Attempts PROVE IngestHeld(r)'
        OBVIOUS
      <4>1. CASE accRel[r] = 0
        BY <2>1, <4>1 DEF PairingInv, IngestHeld
      <4>2. CASE accRel[r] # 0
        <5>1. r \in committed /\ run[r].pc # "unused"
          BY <4>2 DEF PairingInv, IngestHeld, RunHeld, Committing
        <5>2. run[r].a.invite \in Invites
          BY <5>1, RunInvite
        <5>3. QED
          BY <2>1, <2>3, <3>1, <4>2, <5>2 DEF PairingInv, IngestHeld, PairingTypeOK
      <4>3. QED
        BY <4>1, <4>2
    <3>5. QED
      BY <2>1, <3>2, <3>3, <3>4 DEF PairingInv
  <2>4. CASE /\ accFile' = [accFile EXCEPT ![i] = 0] /\ UNCHANGED handed
             /\ rewritten' = rewritten \cup {h.invite : h \in again}
    <3>1. /\ accFile' = [accFile EXCEPT ![i] = 0] /\ UNCHANGED handed
          /\ rewritten \subseteq rewritten'
          /\ \A h \in handed : h.invite = i /\ h.card = "acceptor" => i \in rewritten'
      BY <2>4
    <3>2. \A r \in Attempts : RunHeld(r)' /\ ComparedHeld(r)'
      BY <2>1, <3>1 DEF PairingInv, RunHeld, ComparedHeld
    <3>3. AcceptanceHeld'
      BY <3>1 DEF PairingInv, AcceptanceHeld, PairingTypeOK
    <3>4. \A r \in Attempts : IngestHeld(r)'
      <4> SUFFICES ASSUME NEW r \in Attempts PROVE IngestHeld(r)'
        OBVIOUS
      <4>1. accRel[r] # 0 => run[r].a \in handed /\ run[r].a.card = "acceptor"
        BY DEF PairingInv, IngestHeld, RunHeld, Committing
      <4>2. QED
        BY <2>1, <3>1, <4>1 DEF PairingInv, IngestHeld, PairingTypeOK
    <3>5. QED
      BY <2>1, <3>2, <3>3, <3>4 DEF PairingInv
  <2>5. QED
    BY <1>4, <2>3, <2>4 DEF StoreAcceptance
<1>5. ASSUME NEW a \in handed, Display(a) PROVE PairingInv'
  <2> DEFINE i == a.invite
  <2>1. /\ shown' = [shown EXCEPT ![i] = [card |-> a.card, approved |-> FALSE]]
        /\ compared' = compared \ {i}
        /\ overlapped' = overlapped \cup
              {r \in Attempts : run[r].pc = "confirm" /\ run[r].a.invite = i}
        /\ UNCHANGED <<invite, run, peer, committed, out, handed, accFile, accRel, rewritten>>
    BY <1>5 DEF Display
  <2>2. \A j \in Invites : j # i => shown'[j] = shown[j]
    BY <2>1 DEF PairingTypeOK
  <2>3. \A r \in Attempts : RunHeld(r)' /\ IngestHeld(r)'
    BY <2>1 DEF PairingInv, RunHeld, IngestHeld
  <2>4. \A r \in Attempts : ComparedHeld(r)'
    <3> SUFFICES ASSUME NEW r \in Attempts, r \notin overlapped' PROVE ComparedHeld(r)'
      BY DEF ComparedHeld
    <3>1. CASE run[r].pc = "confirm"
      <4>1. run[r].a.invite \in Invites /\ run[r].a.invite # i
        BY <2>1, <3>1, RunInvite
      <4>2. QED
        BY <2>1, <2>2, <4>1 DEF PairingInv, ComparedHeld
    <3>2. CASE run[r].pc # "confirm"
      BY <2>1, <3>2 DEF PairingInv, ComparedHeld
    <3>3. QED
      BY <3>1, <3>2
  <2>5. QED
    BY <2>1, <2>2, <2>3, <2>4 DEF PairingInv, AcceptanceHeld, PairingTypeOK
<1>6. ASSUME NEW a \in handed, NEW r \in Attempts, NEW repo \in Repos, Preview(r, a, repo)
      PROVE  PairingInv'
  <2> DEFINE i == a.invite
  <2>1. /\ run[r] = NoRun /\ i \in compared /\ invite[i] = "issued"
        /\ UNCHANGED <<shown, compared, peer, committed, out, overlapped, handed, accFile,
                       accRel, rewritten>>
    BY <1>6 DEF Preview
  <2>2. run[r].pc = "unused"
    BY <2>1 DEF NoRun
  <2>3. CASE i \in late
    <3>1. invite' = [invite EXCEPT ![i] = "expired"] /\ UNCHANGED run
      BY <1>6, <2>3 DEF Preview
    <3>2. \A s \in Attempts : RunHeld(s)'
      <4> SUFFICES ASSUME NEW s \in Attempts PROVE RunHeld(s)'
        OBVIOUS
      <4>1. s \in committed => invite'[run[s].a.invite] \in {"committed", "expired"}
        <5> SUFFICES ASSUME s \in committed
                     PROVE  invite'[run[s].a.invite] \in {"committed", "expired"}
          OBVIOUS
        <5>1. run[s].pc # "unused" /\ invite[run[s].a.invite] \in {"committed", "expired"}
          BY DEF PairingInv, RunHeld, Committing
        <5>2. run[s].a.invite \in Invites
          BY <5>1, RunInvite
        <5>3. QED
          BY <2>1, <3>1, <5>1, <5>2 DEF PairingTypeOK
      <4>2. QED
        BY <2>1, <3>1, <4>1 DEF PairingInv, RunHeld
    <3>3. QED
      BY <2>1, <3>1, <3>2 DEF PairingInv, ComparedHeld, IngestHeld, AcceptanceHeld
  <2>4. CASE i \notin late
    <3>1. /\ run' = [run EXCEPT ![r] = [pc |-> "confirm", a |-> a, repo |-> repo, self |-> 0]]
          /\ UNCHANGED invite
      BY <1>6, <2>4 DEF Preview
    <3>2. /\ run'[r].pc = "confirm" /\ run'[r].a = a
          /\ \A s \in Attempts \ {r} : run'[s] = run[s]
      BY <3>1 DEF PairingTypeOK
    <3>3. r \notin committed /\ r \notin out /\ accRel[r] = 0
      BY <2>2 DEF PairingInv, RunHeld, IngestHeld, Committing
    <3>4. \A s \in Attempts : RunHeld(s)' /\ IngestHeld(s)'
      BY <2>1, <3>1, <3>2, <3>3 DEF PairingInv, RunHeld, IngestHeld, Committing
    <3>5. \A s \in Attempts : ComparedHeld(s)'
      BY <2>1, <3>2, <3>3 DEF PairingInv, ComparedHeld
    <3>6. QED
      BY <2>1, <3>1, <3>2, <3>3, <3>4, <3>5 DEF PairingInv, AcceptanceHeld, PairingTypeOK
  <2>5. QED
    BY <2>3, <2>4
<1>7. ASSUME NEW r \in Attempts, Confirm(r) PROVE PairingInv'
  <2> DEFINE i == run[r].a.invite
  <2>1. /\ run[r].pc = "confirm"
        /\ UNCHANGED <<invite, compared, peer, committed, out, overlapped, handed, accFile,
                       accRel, rewritten>>
    BY <1>7 DEF Confirm
  <2>2. r \notin committed /\ i \in Invites
    BY <2>1, RunInvite DEF PairingInv, RunHeld, Committing
  <2>3. CASE shown[i].card = run[r].a.card
    <3>1. /\ shown' = [shown EXCEPT ![i].approved = TRUE]
          /\ run' = [run EXCEPT ![r].pc = "peer", ![r].self = DeployKeyOf(i, r)]
      BY <1>7, <2>3 DEF Confirm
    <3>2. DeployKeyOf(i, r) \in Nat
      BY <2>2, StateDirAssumption DEF DeployKeyOf, PairingTypeOK, Attempts
    <3>3. /\ run'[r].pc = "peer" /\ run'[r].a = run[r].a
          /\ \A s \in Attempts \ {r} : run'[s] = run[s]
      BY <2>1, <3>1, <3>2, ConfirmKeeps
    <3>4. \A j \in Invites : shown'[j].card = shown[j].card
      BY <2>2, <3>1 DEF PairingTypeOK, Verifications
    <3>5. \A s \in Attempts : RunHeld(s)' /\ IngestHeld(s)'
      BY <2>1, <2>2, <3>3 DEF PairingInv, RunHeld, IngestHeld, Committing
    <3>6. \A s \in Attempts : ComparedHeld(s)'
      <4> SUFFICES ASSUME NEW s \in Attempts, s \notin overlapped' PROVE ComparedHeld(s)'
        BY DEF ComparedHeld
      <4>1. CASE s = r
        BY <2>1, <2>2, <2>3, <3>3, <4>1 DEF PairingInv, ComparedHeld
      <4>2. CASE s # r
        <5>1. run[s].pc = "confirm" => run[s].a.invite \in Invites
          BY RunInvite
        <5>2. QED
          BY <2>1, <3>3, <3>4, <4>2, <5>1 DEF PairingInv, ComparedHeld
      <4>3. QED
        BY <4>1, <4>2
    <3>7. QED
      BY <2>1, <3>3, <3>4, <3>5, <3>6 DEF PairingInv, AcceptanceHeld, PairingTypeOK
  <2>4. CASE shown[i].card # run[r].a.card
    <3>1. Goto(r, "done") /\ UNCHANGED shown
      BY <1>7, <2>4 DEF Confirm
    <3>2. QED
      BY <2>1, <3>1, MovingOnKeeps DEF Committing, Pcs
  <2>5. QED
    BY <2>3, <2>4
<1>8. ASSUME NEW r \in Attempts, RegisterPeer(r) \/ RegisterSelf(r) PROVE PairingInv'
  <2>1. /\ run[r].pc \in {"peer", "self"}
        /\ Goto(r, "self") \/ Goto(r, "store") \/ Goto(r, "done")
        /\ UNCHANGED <<invite, shown, compared, peer, committed, out, overlapped, handed,
                       accFile, accRel, rewritten>>
    BY <1>8 DEF RegisterPeer, RegisterSelf, Register, Undo
  <2>2. r \notin committed
    BY <2>1 DEF PairingInv, RunHeld, Committing
  <2>3. QED
    BY <2>1, <2>2, MovingOnKeeps DEF Committing, Pcs
<1>9. ASSUME NEW r \in Attempts, StoreKey(r) PROVE PairingInv'
  <2>1. r \notin committed
    BY <1>9 DEF StoreKey, PairingInv, RunHeld, Committing
  <2>2. QED
    BY <1>9, <2>1, MovingOnKeeps DEF StoreKey, Committing, Pcs
<1>10. ASSUME NEW r \in Attempts, WriteRelayJson(r) \/ SaveRelayConfig(r) PROVE PairingInv'
  <2>1. r \in committed
    BY <1>10 DEF WriteRelayJson, SaveRelayConfig, PairingInv, RunHeld, Committing
  <2>2. QED
    BY <1>10, <2>1, MovingOnKeeps DEF WriteRelayJson, SaveRelayConfig, Committing, Pcs
<1>11. ASSUME NEW r \in Attempts, HandOver(r) PROVE PairingInv'
  <2>1. r \in committed
    BY <1>11 DEF HandOver, PairingInv, RunHeld, Committing
  <2>2. QED
    BY <1>11, <2>1, MovingOnKeeps DEF HandOver, Committing, Pcs
<1>12. ASSUME NEW r \in Attempts, RunDies(r) PROVE PairingInv'
  BY <1>12, MovingOnKeeps DEF RunDies, Committing, Pcs
<1>13. ASSUME NEW r \in Attempts, CommitTxn(r) PROVE PairingInv'
  <2> DEFINE i == run[r].a.invite
  <2>1. /\ run[r].pc = "txn" /\ invite[i] = "issued" /\ Goto(r, "relay")
        /\ invite' = [invite EXCEPT ![i] = "committed"]
        /\ committed' = committed \cup {r} /\ peer' = [peer EXCEPT ![r] = run[r].a]
        /\ UNCHANGED <<shown, compared, out, overlapped, handed, accFile, accRel, rewritten>>
    BY <1>13 DEF CommitTxn, Claimable
  <2>2. /\ run'[r].pc = "relay" /\ run'[r].a = run[r].a
        /\ \A s \in Attempts \ {r} : run'[s] = run[s]
    BY <2>1, GotoKeeps DEF Pcs
  <2>3. r \notin committed /\ r \notin out /\ accRel[r] = 0 /\ i \in Invites
    BY <2>1, RunInvite DEF PairingInv, RunHeld, IngestHeld, Committing
  <2>4. \A s \in committed : run[s].a.invite # i /\ run[s].a.invite \in Invites
    BY <2>1, RunInvite DEF PairingInv, RunHeld, Committing, PairingTypeOK
  <2>5. \A s \in Attempts : RunHeld(s)'
    BY <2>1, <2>2, <2>3, <2>4 DEF PairingInv, RunHeld, Committing, PairingTypeOK
  <2>6. \A s \in Attempts : IngestHeld(s)'
    BY <2>1, <2>2, <2>3 DEF PairingInv, IngestHeld
  <2>7. \A s \in Attempts : ComparedHeld(s)'
    BY <2>1, <2>2 DEF PairingInv, ComparedHeld
  <2>8. \A s, q \in committed' : run'[s].a.invite = run'[q].a.invite => s = q
    BY <2>1, <2>2, <2>3, <2>4 DEF PairingInv, PairingTypeOK
  <2>9. QED
    BY <2>1, <2>5, <2>6, <2>7, <2>8 DEF PairingInv, AcceptanceHeld
<1>14. ASSUME NEW r \in Attempts, CommitFails(r) PROVE PairingInv'
  <2> DEFINE i == run[r].a.invite
  <2>1. /\ run[r].pc = "txn" /\ Goto(r, "done")
        /\ UNCHANGED <<shown, compared, peer, committed, out, overlapped, handed, accFile,
                       accRel, rewritten>>
    BY <1>14 DEF CommitFails, Undo
  <2>2. i \in Invites
    BY <2>1, RunInvite
  <2>3. \A j \in Invites : invite[j] \in {"committed", "expired"} =>
                               invite'[j] \in {"committed", "expired"}
    BY <1>14, <2>2 DEF CommitFails, PairingTypeOK
  <2>4. /\ run'[r].pc = "done" /\ run'[r].a = run[r].a
        /\ \A s \in Attempts \ {r} : run'[s] = run[s]
    BY <2>1, GotoKeeps DEF Pcs
  <2>5. \A s \in committed : run[s].a.invite \in Invites
    BY RunInvite DEF PairingInv, RunHeld, Committing, PairingTypeOK
  <2>6. \A s \in Attempts : RunHeld(s)'
    BY <2>1, <2>3, <2>4, <2>5 DEF PairingInv, RunHeld, Committing
  <2>7. \A s \in Attempts : IngestHeld(s)'
    BY <2>1, <2>4 DEF PairingInv, IngestHeld
  <2>8. \A s \in Attempts : ComparedHeld(s)'
    BY <2>1, <2>4 DEF PairingInv, ComparedHeld
  <2>9. QED
    BY <2>1, <2>4, <2>6, <2>7, <2>8 DEF PairingInv, AcceptanceHeld, PairingTypeOK
<1>15. ASSUME NEW r \in Attempts, Ingest(r) PROVE PairingInv'
  <2>1. /\ r \in out /\ peer[r].card = "acceptor"
        /\ accRel' = [accRel EXCEPT ![r] = accFile[peer[r].invite]]
        /\ UNCHANGED <<invite, shown, compared, run, peer, committed, out, overlapped, handed,
                       accFile, rewritten>>
    BY <1>15 DEF Ingest, Ingestable
  <2>2. peer[r] = run[r].a
    BY <2>1 DEF PairingInv, RunHeld, IngestHeld
  <2>3. \A s \in Attempts : IngestHeld(s)'
    BY <2>1, <2>2 DEF PairingInv, IngestHeld, PairingTypeOK
  <2>4. QED
    BY <2>1, <2>3 DEF PairingInv, RunHeld, ComparedHeld, AcceptanceHeld
<1>16. CASE UNCHANGED <<invite, shown, compared, run, peer, committed, out, overlapped, handed,
                        accFile, accRel, rewritten>>
  BY <1>16 DEF PairingInv, RunHeld, ComparedHeld, IngestHeld, AcceptanceHeld
<1>17. ASSUME \/ \E r \in Attempts : ReadReady(r)
              \/ MarkActive \/ UNCHANGED pairingVars
       PROVE  PairingInv'
  BY <1>16, <1>17 DEF ReadReady, MarkActive, pairingVars
<1>18. QED
  BY <1>1, <1>2, <1>3, <1>4, <1>5, <1>6, <1>7, <1>8, <1>9, <1>10, <1>11, <1>12, <1>13,
     <1>14, <1>15, <1>17 DEF Next, PairingNext, vars

\* PairingInv is an invariant of the composed system.
LEMMA PairingInvariant == Spec => []PairingInv
<1>1. Init => PairingInv
  BY DEF Init, PairingInit, PairingInv, RunHeld, ComparedHeld, IngestHeld, AcceptanceHeld,
         NoRun, Committing
<1>2. QED
  BY <1>1, PairingTypes, PairingStep, PTL DEF Spec

\* An invite pairs at most one relationship, and with the agent whose phrase was compared
\* unless another phrase was displayed while the commit was under way.
THEOREM OneComparedPairPerInvite == Spec => []PairedIsCompared
<1>1. PairingTypeOK /\ PairingInv => PairedIsCompared
  BY DEF PairingTypeOK, PairingInv, RunHeld, ComparedHeld, PairedIsCompared
<1>2. QED
  BY <1>1, PairingTypes, PairingInvariant, PTL

\* Unless the invite was accepted anew over stored keys, the key the inviter seals to is
\* the one the acceptor stored and ingested with.
THEOREM SealedKeyMatches == Spec => []SealedKeyIsHeld
<1>1. PairingTypeOK /\ PairingInv => SealedKeyIsHeld
  <2> SUFFICES ASSUME PairingTypeOK, PairingInv, NEW r \in committed, accRel[r] # 0,
                      peer[r].invite \notin rewritten
               PROVE  accRel[r] = peer[r].n /\ accFile[peer[r].invite] = accRel[r]
    BY DEF SealedKeyIsHeld
  <2>1. /\ peer[r] = run[r].a /\ run[r].a \in handed /\ run[r].a.card = "acceptor"
        /\ accRel[r] = accFile[run[r].a.invite]
    BY DEF PairingTypeOK, PairingInv, RunHeld, IngestHeld, Committing
  <2>2. run[r].a.n = accFile[run[r].a.invite]
    BY <2>1 DEF PairingInv, AcceptanceHeld
  <2>3. QED
    BY <2>1, <2>2
<1>2. QED
  BY <1>1, PairingTypes, PairingInvariant, PTL

-----------------------------------------------------------------------------
\* Ids of runs, of established relationships and the null id are told apart.
LEMMA RidsApart ==
    /\ NoRid \notin Rids /\ Attempts \subseteq Rids /\ Established \subseteq Rids
    /\ \A r \in Attempts : r \notin Established
  BY StateDirAssumption DEF NoRid, Rids, Attempts

\* A teardown that is under way is a record with all its fields.
LEMMA TdRecord ==
    ASSUME DirTypeOK, td.pc \in TdPcs
    PROVE  td \in TdStates /\ td # Idle
<1>1. Idle.pc \notin TdPcs
  BY DEF Idle, TdPcs
<1>2. QED
  BY <1>1 DEF DirTypeOK

\* A teardown that moves on keeps its relationship, references and captured keys.
LEMMA StepKeeps ==
    ASSUME DirTypeOK, td.pc \in TdPcs, NEW pc \in TdPcs, Step(pc)
    PROVE  /\ td' \in TdStates /\ td' # Idle
           /\ td'.pc = pc /\ td'.rid = td.rid /\ td'.refs = td.refs /\ td'.keys = td.keys
<1>1. td \in TdStates
  BY TdRecord
<1>2. td' \in TdStates
  BY <1>1 DEF Step, TdStates
<1>3. td'.pc = pc /\ td'.rid = td.rid /\ td'.refs = td.refs /\ td'.keys = td.keys
  BY <1>1 DEF Step, TdStates
<1>4. Idle.pc \notin TdPcs
  BY DEF Idle, TdPcs
<1>5. QED
  BY <1>2, <1>3, <1>4

\* discover_refs returns references, or their absence, of the right types.
LEMMA DiscoverType ==
    ASSUME DirTypeOK, NEW r \in Rids
    PROVE  Discover(r) \in Refs
<1>1. relayJson.rid \in Rids \cup {NoRid} /\ relayJson.repo \in Repos \cup {NoRepo}
  BY DEF DirTypeOK, Docs
<1>2. QED
  BY <1>1 DEF Discover, Refs, RelayDoc

\* The absent value of td.refs is no record of references.
LEMMA RefsAreNotNone == NoRefs \notin Refs
<1>1. SUFFICES ASSUME NoRefs \in Refs PROVE FALSE
  OBVIOUS
<1>2. "repo" \in DOMAIN NoRefs
  BY <1>1 DEF Refs
<1>3. QED
  BY <1>2 DEF NoRefs

\* Which steps of the pairing write which part of the state directory.
LEMMA PairingWrites ==
    ASSUME PairingNext
    PROVE  /\ UNCHANGED consent \/ MarkActive \/ \E r \in Attempts : CommitTxn(r)
           /\ UNCHANGED keyRows \/ \E r \in Attempts : CommitTxn(r)
           /\ UNCHANGED keyFiles \/ \E r \in Attempts : StoreKey(r) \/ CommitFails(r)
           /\ UNCHANGED relayJson \/ \E r \in Attempts : WriteRelayJson(r)
           /\ UNCHANGED relayCfg \/ \E r \in Attempts : SaveRelayConfig(r)
           /\ \/ UNCHANGED hosted
              \/ \E r \in Attempts : RegisterPeer(r) \/ RegisterSelf(r) \/ CommitFails(r)
  BY ZenonT(30) DEF PairingNext, CreateInvite, Expire, Compare, Accept, StoreAcceptance,
         AcceptDies, Display, Preview, Confirm, RegisterPeer, RegisterSelf, Register, StoreKey,
         CommitTxn, CommitFails, WriteRelayJson, SaveRelayConfig, HandOver, RunDies, Ingest,
         ReadReady, MarkActive, dirVars

\* Every action of the lifecycle keeps the types of the state directory.
LEMMA DirTypes == Spec => []DirTypeOK
<1>1. Init => DirTypeOK
  <2> SUFFICES ASSUME Init PROVE DirTypeOK
    OBVIOUS
  <2>1. PICK repo \in Repos :
          /\ relayCfg = [r \in Rids |-> IF r \in Established THEN repo ELSE NoRepo]
          /\ relayJson \in {RelayDoc(r, repo) : r \in Established} \cup
                           (IF Established = {} THEN {NoDoc} ELSE {})
    BY DEF Init, DirInit
  <2>2. relayJson \in Docs
    BY <2>1, RidsApart DEF Docs, RelayDoc, NoDoc
  <2>3. relayCfg \in [Rids -> Repos \cup {NoRepo}]
    BY <2>1
  <2>4. consent \in [Rids -> ConsentStates]
    BY DEF Init, DirInit, ConsentStates
  <2>5. keyRows \subseteq KeyNames /\ keyFiles \subseteq KeyNames
    BY RidsApart DEF Init, DirInit, KeyNames
  <2>6. QED
    BY <2>2, <2>3, <2>4, <2>5 DEF Init, TeardownInit, DirTypeOK, NotRotating
<1>2. PairingTypeOK /\ DirTypeOK /\ [Next]_vars => DirTypeOK'
  <2> SUFFICES ASSUME PairingTypeOK, DirTypeOK, [Next]_vars PROVE DirTypeOK'
    OBVIOUS
  <2> USE DEF dirVars, teardownVars, rotationVars, doneVars
  <2>1. CASE UNCHANGED vars
    BY <2>1 DEF vars, DirTypeOK
  <2>2. ASSUME Next PROVE raced' \subseteq Rids
    BY <2>2 DEF Next, DirTypeOK
  <2>3. ASSUME Next, PairingNext, UNCHANGED teardownVars PROVE DirTypeOK'
    <3>1. consent' \in [Rids -> ConsentStates]
      BY <2>3, RidsApart, PairingWrites DEF CommitTxn, MarkActive, DirTypeOK, ConsentStates,
         PairingTypeOK
    <3>2. keyRows' \subseteq KeyNames
      BY <2>3, RidsApart, PairingWrites DEF CommitTxn, DirTypeOK, KeyNames
    <3>3. keyFiles' \subseteq KeyNames
      <4>1. ASSUME NEW r \in Attempts, StoreKey(r) \/ CommitFails(r)
            PROVE  keyFiles' \subseteq keyFiles \cup {<<r, 1>>}
        BY <4>1 DEF StoreKey, CommitFails
      <4>2. \A r \in Attempts : <<r, 1>> \in KeyNames
        BY RidsApart DEF KeyNames
      <4>3. keyFiles \subseteq KeyNames
        BY DEF DirTypeOK
      <4>4. UNCHANGED keyFiles \/ \E r \in Attempts : StoreKey(r) \/ CommitFails(r)
        BY <2>3, PairingWrites
      <4>5. QED
        BY <4>1, <4>2, <4>3, <4>4
    <3>4. relayCfg' \in [Rids -> Repos \cup {NoRepo}]
      <4>1. ASSUME NEW r \in Attempts, SaveRelayConfig(r)
            PROVE  relayCfg' \in [Rids -> Repos \cup {NoRepo}]
        <5>1. run[r].repo \in Repos
          BY <4>1, RunRecord DEF SaveRelayConfig, RunStates
        <5>2. QED
          BY <4>1, <5>1 DEF SaveRelayConfig, DirTypeOK
      <4>2. CASE UNCHANGED relayCfg
        BY <4>2 DEF DirTypeOK
      <4>3. QED
        BY <2>3, <4>1, <4>2, PairingWrites
    <3>5. relayJson' \in Docs
      <4>1. ASSUME NEW r \in Attempts, WriteRelayJson(r)
            PROVE  relayJson' \in Docs
        <5>1. run[r].repo \in Repos
          BY <4>1, RunRecord DEF WriteRelayJson, RunStates
        <5>2. QED
          BY <4>1, <5>1, RidsApart DEF WriteRelayJson, RelayDoc, Docs
      <4>2. CASE UNCHANGED relayJson
        BY <4>2 DEF DirTypeOK
      <4>3. QED
        BY <2>3, <4>1, <4>2, PairingWrites
    <3>6. QED
      BY <2>2, <2>3, <3>1, <3>2, <3>3, <3>4, <3>5 DEF DirTypeOK
  <2>4. ASSUME Next, TeardownNext PROVE DirTypeOK'
    <3> USE <2>2, <2>4
    <3>1. ASSUME NEW r \in Rids, Start(r) PROVE DirTypeOK'
      <4>1. [pc |-> "mark", rid |-> r, refs |-> Discover(r), keys |-> {}, again |-> FALSE]
               \in TdStates
        BY DiscoverType DEF TdStates, TdPcs
      <4>2. QED
        BY <3>1, <4>1 DEF Start, DirTypeOK
    <3>2. ASSUME NEW r \in Rids, Resume(r) PROVE DirTypeOK'
      <4> DEFINE refs == IF journal[r] # NoRefs THEN journal[r] ELSE Discover(r)
      <4>1. refs \in Refs
        BY DiscoverType DEF DirTypeOK
      <4>2. [pc |-> "wipe", rid |-> r, refs |-> refs, keys |-> {}, again |-> TRUE] \in TdStates
        BY <4>1 DEF TdStates, TdPcs
      <4>3. QED
        BY <3>2, <4>2 DEF Resume, DirTypeOK
    <3>3. ASSUME NEW r \in Rids, BeginRotation(r) \/ DiscardRow(r) PROVE DirTypeOK'
      BY <3>3 DEF BeginRotation, DiscardRow, DirTypeOK
    <3>4. CASE MarkRevoked
      <4>1. td \in TdStates /\ td' \in TdStates
        BY <3>4, TdRecord, StepKeeps DEF MarkRevoked, TdPcs
      <4>2. QED
        BY <3>4, <4>1 DEF MarkRevoked, DirTypeOK, ConsentStates
    <3>5. CASE RevokeKeys
      <4>1. td' = Idle \/ td' \in TdStates
        BY <3>5, TdRecord, StepKeeps DEF RevokeKeys, TdPcs
      <4>2. QED
        BY <3>5, <4>1 DEF RevokeKeys, DirTypeOK
    <3>6. CASE DeleteRepo
      <4>1. td \in TdStates /\ (td' = Idle \/ td' \in TdStates)
        BY <3>6, TdRecord, StepKeeps DEF DeleteRepo, TdPcs
      <4>2. td.refs.repo \in Repos \cup {NoRepo}
        BY <4>1 DEF TdStates, Refs
      <4>3. gone' \subseteq Repos
        BY <3>6, <4>2 DEF DeleteRepo, DirTypeOK
      <4>4. QED
        BY <3>6, <4>1, <4>3 DEF DeleteRepo, DirTypeOK
    <3>7. CASE DestroyKeys
      <4>1. td \in TdStates
        BY <3>7, TdRecord DEF DestroyKeys, TdPcs
      <4>2. RowsOf(td.rid) \in SUBSET KeyNames /\ "tombstone" \in TdPcs
        BY DEF RowsOf, DirTypeOK, TdPcs
      <4>3. [td EXCEPT !.pc = "tombstone"] \in TdStates
        BY <4>1, <4>2 DEF TdStates
      <4>4. [[td EXCEPT !.pc = "tombstone"] EXCEPT !.keys = RowsOf(td.rid)] \in TdStates
        BY <4>2, <4>3 DEF TdStates
      <4>5. td' \in TdStates
        BY <3>7, <4>4 DEF DestroyKeys
      <4>6. QED
        BY <3>7, <4>5 DEF DestroyKeys, DirTypeOK
    <3>8. CASE WriteTombstone
      <4>1. td \in TdStates /\ td' \in TdStates
        BY <3>8, TdRecord, StepKeeps DEF WriteTombstone, TdPcs
      <4>2. td.rid \in Rids
        BY <4>1 DEF TdStates
      <4>3. QED
        BY <3>8, <4>1, <4>2 DEF WriteTombstone, DirTypeOK
    <3>9. CASE WriteJournal
      <4>1. td \in TdStates /\ td' \in TdStates
        BY <3>9, TdRecord, StepKeeps DEF WriteJournal, TdPcs
      <4>2. td.rid \in Rids /\ td.refs \in Refs
        BY <4>1 DEF TdStates
      <4>3. QED
        BY <3>9, <4>1, <4>2 DEF WriteJournal, DirTypeOK
    <3>10. CASE DeleteRows
      <4>1. td' = Idle \/ td' \in TdStates
        BY <3>10, TdRecord, StepKeeps DEF DeleteRows, TdPcs
      <4>2. QED
        BY <3>10, <4>1 DEF DeleteRows, DirTypeOK, ConsentStates
    <3>11. CASE WalkFile \/ EndWalk \/ WipeKeys
      <4>1. td \in TdStates /\ td' \in TdStates
        BY <3>11, TdRecord, StepKeeps DEF WalkFile, EndWalk, WipeKeys, TdPcs
      <4>2. NoDoc \in Docs
        BY DEF NoDoc, RelayDoc, Docs
      <4>3. QED
        BY <3>11, <4>1, <4>2 DEF WalkFile, EndWalk, WipeKeys, DirTypeOK
    <3>12. CASE PruneRelayJson
      <4>1. td \in TdStates /\ td' \in TdStates
        BY <3>12, TdRecord, StepKeeps DEF PruneRelayJson, TdPcs
      <4>2. td.refs.keep \in Docs
        BY <4>1 DEF TdStates, Refs, Docs
      <4>3. QED
        BY <3>12, <4>1, <4>2 DEF PruneRelayJson, DirTypeOK
    <3>13. CASE Postcheck \/ Dies
      <4>1. CASE Postcheck
        <5>1. td.rid \in Rids
          BY <4>1, TdRecord DEF Postcheck, TdPcs, TdStates
        <5>2. QED
          BY <4>1, <5>1 DEF Postcheck, DirTypeOK
      <4>2. CASE Dies
        BY <4>2 DEF Dies, DirTypeOK
      <4>3. QED
        BY <3>13, <4>1, <4>2
    <3>14. CASE \/ StoreRotationKey \/ InsertRotationKey \/ RotationDies
                \/ DiscardFile \/ DiscardDies
      <4>1. rotating.pc \in {"begun", "stored"} => <<rotating.rid, 2>> \in KeyNames
        BY DEF DirTypeOK, NotRotating, KeyNames
      <4>2. discarding # NoRid => <<discarding, 2>> \in KeyNames
        BY DEF DirTypeOK, KeyNames
      <4>3. CASE StoreRotationKey
        <5>1. rotating' \in [pc : {"begun", "stored"}, rid : Rids]
          BY <4>3 DEF StoreRotationKey, DirTypeOK, NotRotating
        <5>2. QED
          BY <4>1, <4>3, <5>1 DEF StoreRotationKey, DirTypeOK
      <4>4. CASE InsertRotationKey \/ RotationDies
        BY <4>1, <4>4 DEF InsertRotationKey, RotationDies, DirTypeOK
      <4>5. CASE DiscardFile \/ DiscardDies
        BY <4>2, <4>5 DEF DiscardFile, DiscardDies, DirTypeOK
      <4>6. QED
        BY <3>14, <4>3, <4>4, <4>5
    <3>15. QED
      BY <2>4, <3>1, <3>2, <3>3, <3>4, <3>5, <3>6, <3>7, <3>8, <3>9, <3>10, <3>11, <3>12,
         <3>13, <3>14 DEF TeardownNext
  <2>5. QED
    BY <2>1, <2>3, <2>4 DEF Next
<1>3. QED
  BY <1>1, <1>2, PairingTypes, PTL DEF Spec

-----------------------------------------------------------------------------
\* A run is about to commit only once its key file is there, and only a commit makes
\* relationships.
LEMMA TxnAfterStore ==
    ASSUME PairingTypeOK, PairingNext
    PROVE  /\ \/ \A s \in Attempts : run'[s].pc = "txn" => run[s].pc = "txn"
              \/ \E r \in Attempts : StoreKey(r)
           /\ UNCHANGED committed \/ \E r \in Attempts : CommitTxn(r)
<1>1. UNCHANGED committed \/ \E r \in Attempts : CommitTxn(r)
  BY ZenonT(30) DEF PairingNext, CreateInvite, Expire, Compare, Accept, StoreAcceptance,
         AcceptDies, Display, Preview, Confirm, RegisterPeer, RegisterSelf, Register, StoreKey,
         CommitTxn, CommitFails, WriteRelayJson, SaveRelayConfig, HandOver, RunDies, Ingest,
         ReadReady, MarkActive, inviterVars, acceptorVars
<1>2. ASSUME NEW r \in Attempts,
             \/ RegisterPeer(r) \/ RegisterSelf(r) \/ CommitTxn(r) \/ CommitFails(r)
             \/ WriteRelayJson(r) \/ SaveRelayConfig(r) \/ HandOver(r) \/ RunDies(r)
      PROVE  \A s \in Attempts : run'[s].pc = "txn" => run[s].pc = "txn"
  <2>1. /\ run[r].pc # "unused"
        /\ \E pc \in Pcs \ {"unused", "txn"} : Goto(r, pc)
    BY <1>2 DEF RegisterPeer, RegisterSelf, Register, Undo, CommitTxn, CommitFails,
           WriteRelayJson, SaveRelayConfig, HandOver, RunDies, Pcs
  <2>2. QED
    BY <2>1, GotoKeeps
<1>3. ASSUME NEW r \in Attempts, Confirm(r)
      PROVE  \A s \in Attempts : run'[s].pc = "txn" => run[s].pc = "txn"
  <2> DEFINE k == DeployKeyOf(run[r].a.invite, r)
  <2>1. /\ run[r].pc = "confirm"
        /\ Goto(r, "done") \/ run' = [run EXCEPT ![r].pc = "peer", ![r].self = k]
    BY <1>3 DEF Confirm
  <2>2. k \in Nat
    BY <2>1, RunInvite, StateDirAssumption DEF DeployKeyOf, PairingTypeOK, Attempts
  <2>3. QED
    BY <2>1, <2>2, GotoKeeps, ConfirmKeeps DEF Pcs
<1>4. ASSUME NEW a \in handed, NEW r \in Attempts, NEW repo \in Repos, Preview(r, a, repo)
      PROVE  \A s \in Attempts : run'[s].pc = "txn" => run[s].pc = "txn"
  BY <1>4 DEF Preview, PairingTypeOK
<1>5. QED
  BY <1>1, <1>2, <1>3, <1>4
  DEF PairingNext, CreateInvite, Expire, Compare, Accept, StoreAcceptance, AcceptDies, Display,
      Ingest, ReadReady, MarkActive, inviterVars

\* A step that adds no relationship and no key, and moves no run to its commit, keeps the
\* teardown invariant.
LEMMA TeardownIdle ==
    ASSUME TeardownInv,
           UNCHANGED <<consent, keyRows, keyFiles, committed, td, tombs, journal, rotating,
                       discarding, orphans, clobbered, erased, walked>>,
           \A s \in Attempts : run'[s].pc = "txn" => run[s].pc = "txn"
    PROVE  TeardownInv'
  BY DEF TeardownInv, TdHeld, RowsHeld, KeysFollowRows, IsPending, OwnedByRotation,
         DeadTeardownCanResume, HasRow, Known

\* A step of the pairing keeps the teardown invariant: the keys a run stores and commits
\* are those of a relationship no teardown knows yet.
LEMMA TeardownInvUnderPairing ==
    ASSUME PairingTypeOK, PairingInv, DirTypeOK, TeardownInv, PairingNext, UNCHANGED teardownVars
    PROVE  TeardownInv'
<1> USE DEF teardownVars, rotationVars, doneVars
<1>1. ASSUME NEW r \in Attempts, CommitTxn(r) PROVE TeardownInv'
  <2>1. /\ run[r].pc = "txn" /\ Goto(r, "relay")
        /\ consent' = [consent EXCEPT ![r] = "pending"]
        /\ keyRows' = keyRows \cup {<<r, 1>>} /\ committed' = committed \cup {r}
        /\ UNCHANGED keyFiles
    BY <1>1 DEF CommitTxn
  <2>2. r \notin Known /\ r \in Rids
    BY <2>1, RidsApart DEF PairingInv, RunHeld, Committing, Known
  <2>3. /\ consent'[r] = "pending" /\ \A s \in Rids \ {r} : consent'[s] = consent[s]
        /\ \A s \in Known : s \in Rids
    BY <2>1, <2>2, RidsApart DEF DirTypeOK, Known, PairingTypeOK
  <2>4. \A s \in Attempts : run'[s].pc = "txn" => run[s].pc = "txn"
    BY <2>1, GotoKeeps DEF Pcs
  <2>5. TdHeld'
    BY <2>1, <2>2, <2>3 DEF TeardownInv, TdHeld, HasRow, Known, Idle
  <2>6. /\ HasRow(r)' /\ Known' = Known \cup {r}
        /\ \A s \in Known : HasRow(s)' <=> HasRow(s)
    BY <2>1, <2>2, <2>3 DEF HasRow, Known
  <2>7. RowsHeld'
    <3>1. \A k \in keyRows : HasRow(k[1])'
      <4>1. \A k \in keyRows : k[1] \in Rids /\ consent[k[1]] # "none"
        BY DEF TeardownInv, RowsHeld, HasRow, DirTypeOK, KeyNames
      <4>2. QED
        BY <2>3, <4>1 DEF HasRow
    <3>2. /\ tombs' \subseteq Known'
          /\ \A s \in Attempts \ committed' : consent'[s] = "none"
          /\ \A k \in keyRows' : HasRow(k[1])'
      BY <2>1, <2>3, <2>6, <3>1, RidsApart DEF TeardownInv, RowsHeld
    <3>3. /\ \A s \in Known' : HasRow(s)' => <<s, 1>> \in keyRows'
          /\ \A k \in keyFiles' : k[2] = 2 => k[1] \in Known'
      BY <2>1, <2>6 DEF TeardownInv, RowsHeld
    <3>4. /\ \A s \in Attempts : run'[s].pc = "txn" => <<s, 1>> \in keyFiles'
          /\ rotating.pc # "idle" => rotating.rid \in Known' /\ <<rotating.rid, 2>> \notin keyRows'
          /\ rotating.pc = "stored" /\ consent'[rotating.rid] \in {"pending", "active"} =>
                 <<rotating.rid, 2>> \in keyFiles' \cup clobbered'
      BY <2>1, <2>2, <2>3, <2>4, <2>6 DEF TeardownInv, RowsHeld
    <3>5. QED
      BY <3>2, <3>3, <3>4 DEF RowsHeld
  <2>8. KeysFollowRows'
    <3>1. <<r, 1>> \in keyFiles
      BY <2>1 DEF TeardownInv, RowsHeld
    <3>2. \A k \in keyRows : k[1] \in Rids \ {r}
      <4>1. \A k \in keyRows : k[1] \in Rids /\ HasRow(k[1])
        BY DEF TeardownInv, RowsHeld, DirTypeOK, KeyNames
      <4>2. ~HasRow(r)
        BY <2>2, RidsApart DEF TeardownInv, RowsHeld, HasRow, Known
      <4>3. QED
        BY <4>1, <4>2
    <3>3. \A k \in keyRows' : consent'[k[1]] # "revoked" => k \in keyFiles' \cup clobbered'
      BY <2>1, <2>3, <3>1, <3>2 DEF TeardownInv, KeysFollowRows
    <3>4. \A k \in keyFiles \ keyRows' : k[1] # r
      <4> SUFFICES ASSUME NEW k \in keyFiles, k \notin keyRows', k[1] = r PROVE FALSE
        OBVIOUS
      <4>1. k = <<r, 1>> \/ k[2] = 2
        BY DEF DirTypeOK, KeyNames
      <4>2. k[2] # 2
        BY <2>2 DEF TeardownInv, RowsHeld
      <4>3. QED
        BY <2>1, <4>1, <4>2
    <3>5. \A k \in keyFiles' \ keyRows' : k[1] \in Known' => IsPending(k)' \/ k \in orphans'
      BY <2>1, <2>6, <3>4 DEF TeardownInv, KeysFollowRows, IsPending, OwnedByRotation, Known
    <3>6. QED
      BY <3>3, <3>5 DEF KeysFollowRows, Known
  <2>9. DeadTeardownCanResume'
    BY <2>1, <2>2, <2>3 DEF TeardownInv, DeadTeardownCanResume, HasRow, Known
  <2>10. QED
    BY <2>5, <2>7, <2>8, <2>9 DEF TeardownInv
<1>2. ASSUME NEW r \in Attempts, StoreKey(r) \/ CommitFails(r) PROVE TeardownInv'
  <2>1. /\ run[r].pc \in {"store", "txn"}
        /\ UNCHANGED <<consent, keyRows, committed>>
        /\ \/ Goto(r, "txn") /\ keyFiles' = keyFiles \cup {<<r, 1>>}
           \/ Goto(r, "done") /\ keyFiles' = keyFiles \ {<<r, 1>>}
    BY <1>2 DEF StoreKey, CommitFails, Undo
  <2>2. consent[r] = "none" /\ r \notin Known
    BY <2>1, RidsApart DEF PairingInv, RunHeld, Committing, TeardownInv, RowsHeld, Known
  <2>3. /\ \A k \in keyRows : k # <<r, 1>>
        /\ \A k \in keyFiles' : k \in keyFiles \/ k = <<r, 1>>
        /\ \A k \in keyFiles : k \in keyFiles' \/ k = <<r, 1>>
    BY <2>1, <2>2 DEF TeardownInv, RowsHeld, HasRow
  <2>4. \A s \in Attempts : run'[s].pc = "txn" => <<s, 1>> \in keyFiles'
    <3>1. CASE Goto(r, "txn") /\ keyFiles' = keyFiles \cup {<<r, 1>>}
      BY <2>1, <3>1, GotoKeeps DEF Pcs, TeardownInv, RowsHeld
    <3>2. CASE Goto(r, "done") /\ keyFiles' = keyFiles \ {<<r, 1>>}
      BY <2>1, <3>2, GotoKeeps DEF Pcs, TeardownInv, RowsHeld
    <3>3. QED
      BY <2>1, <3>1, <3>2
  <2>5. TdHeld'
    <3>1. <<td.rid, 1>> \in keyFiles' /\ td # Idle => <<td.rid, 1>> \in keyFiles
      BY <2>2, <2>3 DEF TeardownInv, TdHeld
    <3>2. QED
      BY <2>1, <3>1 DEF TeardownInv, TdHeld, HasRow, Known, Idle
  <2>6. RowsHeld'
    BY <2>1, <2>3, <2>4 DEF TeardownInv, RowsHeld, HasRow, Known
  <2>7. KeysFollowRows'
    BY <2>1, <2>2, <2>3 DEF TeardownInv, KeysFollowRows, IsPending, OwnedByRotation, Known
  <2>8. DeadTeardownCanResume'
    BY <2>1, <2>2, <2>3 DEF TeardownInv, DeadTeardownCanResume, HasRow, Known
  <2>9. QED
    BY <2>5, <2>6, <2>7, <2>8 DEF TeardownInv
<1>3. CASE MarkActive
  <2>1. /\ UNCHANGED <<keyRows, keyFiles, run, committed>>
        /\ \A s \in Rids : \/ consent'[s] = consent[s]
                           \/ consent[s] = "pending" /\ consent'[s] = "active"
    <3>1. ready \in Rids /\ UNCHANGED <<keyRows, keyFiles, run, committed>>
      BY <1>3, RidsApart DEF MarkActive, PairingTypeOK
    <3>2. CASE consent[ready] = "pending"
      BY <1>3, <3>1, <3>2 DEF MarkActive, Activates, DirTypeOK
    <3>3. CASE consent[ready] # "pending"
      BY <1>3, <3>1, <3>3 DEF MarkActive, Activates
    <3>4. QED
      BY <3>2, <3>3
  <2>2. /\ \A s \in Known : s \in Rids
        /\ \A k \in keyRows : k[1] \in Rids
    BY RidsApart DEF Known, PairingTypeOK, DirTypeOK, KeyNames
  <2>3. \A s \in Rids : /\ HasRow(s)' <=> HasRow(s)
                        /\ consent'[s] = "revoked" <=> consent[s] = "revoked"
                        /\ consent'[s] \in {"pending", "active"} <=>
                              consent[s] \in {"pending", "active"}
    BY <2>1 DEF HasRow
  <2>4. TdHeld'
    BY <2>1, <2>2, <2>3 DEF TeardownInv, TdHeld, Known, Idle
  <2>5. RowsHeld'
    BY <2>1, <2>2, <2>3, RidsApart DEF TeardownInv, RowsHeld, Known, HasRow
  <2>6. KeysFollowRows' /\ DeadTeardownCanResume'
    BY <2>1, <2>2, <2>3
    DEF TeardownInv, KeysFollowRows, IsPending, OwnedByRotation, DeadTeardownCanResume, Known
  <2>7. QED
    BY <2>4, <2>5, <2>6 DEF TeardownInv
<1>4. CASE ~MarkActive /\ \A r \in Attempts : ~CommitTxn(r) /\ ~StoreKey(r) /\ ~CommitFails(r)
  BY <1>4, PairingWrites, TxnAfterStore, TeardownIdle
<1>5. QED
  BY <1>1, <1>2, <1>3, <1>4

\* A teardown that only moves on keeps the invariant if what it relies on next holds.
LEMMA TeardownMoves ==
    ASSUME TeardownInv, TdHeld',
           UNCHANGED <<consent, keyRows, keyFiles, run, committed, tombs, journal, rotating,
                       discarding, orphans, clobbered, erased, walked>>
    PROVE  TeardownInv'
  BY DEF TeardownInv, RowsHeld, KeysFollowRows, IsPending, OwnedByRotation,
         DeadTeardownCanResume, HasRow, Known

\* A teardown removes only key files of its own relationship, and only when that is
\* revoked or gone.
LEMMA OwnFilesOnly ==
    ASSUME PairingInv, PairingTypeOK, DirTypeOK, TeardownInv, td \in TdStates, td # Idle,
           consent[td.rid] \in {"revoked", "none"},
           NEW F, \A k \in F : k[1] = td.rid, keyFiles' = keyFiles \ F,
           UNCHANGED <<consent, keyRows, run, committed, tombs, rotating, discarding, orphans,
                       clobbered>>
    PROVE  RowsHeld' /\ KeysFollowRows'
<1>1. td.rid \in Known
  BY DEF TeardownInv, TdHeld
<1>2. \A r \in Attempts : run[r].pc = "txn" => r # td.rid
  BY <1>1, RidsApart DEF PairingInv, RunHeld, Committing, Known
<1>3. \A r \in Attempts : run'[r].pc = "txn" => <<r, 1>> \in keyFiles'
  BY <1>2 DEF TeardownInv, RowsHeld
<1>4. rotating.pc = "stored" /\ consent[rotating.rid] \in {"pending", "active"} =>
          <<rotating.rid, 2>> \in keyFiles' \cup clobbered
  BY DEF TeardownInv, RowsHeld
<1>5. RowsHeld'
  BY <1>3, <1>4 DEF TeardownInv, RowsHeld, HasRow, Known
<1>6. \A k \in keyRows : consent[k[1]] # "revoked" => k[1] # td.rid
  BY DEF TeardownInv, RowsHeld, HasRow
<1>7. KeysFollowRows'
  BY <1>6 DEF TeardownInv, KeysFollowRows, IsPending, OwnedByRotation
<1>8. QED
  BY <1>5, <1>7

\* What a step of a rotation or of a discard leaves alone keeps where a teardown stands.
LEMMA RotationsKeepTeardowns ==
    ASSUME TeardownInv, <<td.rid, 1>> \in keyFiles' => <<td.rid, 1>> \in keyFiles,
           \A r \in Known : <<r, 1>> \in keyFiles' => <<r, 1>> \in keyFiles,
           UNCHANGED <<consent, run, committed, td, tombs, journal, erased, walked>>
    PROVE  TdHeld' /\ DeadTeardownCanResume'
  BY DEF TeardownInv, TdHeld, DeadTeardownCanResume, HasRow, Known

\* A step of a teardown, of a rotation or of a discard keeps the teardown invariant.
LEMMA TeardownInvUnderTeardown ==
    ASSUME PairingTypeOK, PairingInv, DirTypeOK, DirTypeOK', TeardownInv, TeardownNext,
           UNCHANGED pairingVars
    PROVE  TeardownInv'
<1>1. UNCHANGED <<run, committed>> /\ Known' = Known
  BY DEF pairingVars, inviterVars, Known
<1>2. \A s \in Known : s \in Rids
  BY RidsApart DEF Known, PairingTypeOK
<1>3. ASSUME td' = Idle PROVE TdHeld'
  BY <1>3 DEF TdHeld, Idle
<1>4. \A r \in Rids : HasRow(r) => r \in Known
  BY DEF TeardownInv, RowsHeld, HasRow, Known, Rids
<1> USE DEF dirVars, rotationVars, doneVars
<1>5. ASSUME NEW r \in Rids, Start(r) PROVE TeardownInv'
  <2>1. td'.pc = "mark" /\ td'.rid = r /\ HasRow(r) /\ HasRow(r)'
    BY <1>5 DEF Start, HasRow
  <2>2. TdHeld'
    BY <1>1, <1>4, <2>1 DEF TdHeld
  <2>3. QED
    BY <1>1, <1>5, <2>2, TeardownMoves DEF Start
<1>6. ASSUME NEW r \in Rids, Resume(r) PROVE TeardownInv'
  <2>1. td'.pc = "wipe" /\ td'.rid = r /\ ~HasRow(r)' /\ r \in tombs /\ r \in tombs'
    BY <1>6 DEF Resume, HasRow
  <2>2. TdHeld'
    BY <1>1, <2>1 DEF TeardownInv, TdHeld, RowsHeld
  <2>3. QED
    BY <1>1, <1>6, <2>2, TeardownMoves DEF Resume
<1>7. CASE MarkRevoked
  <2>1. /\ td.pc = "mark" /\ Step("keys") /\ HasRow(td.rid) /\ td \in TdStates
        /\ td'.pc = "keys" /\ td'.rid = td.rid
        /\ UNCHANGED <<keyRows, keyFiles, tombs, journal, rotationVars, doneVars>>
    BY <1>7, TdRecord, StepKeeps DEF MarkRevoked, TeardownInv, TdHeld, TdPcs
  <2>2. td.rid \in Rids
    BY <2>1 DEF TdStates
  <2>3. consent' = [consent EXCEPT ![td.rid] = "revoked"]
    BY <1>7, <2>1 DEF MarkRevoked
  <2>4. /\ consent'[td.rid] = "revoked" /\ \A s \in Rids \ {td.rid} : consent'[s] = consent[s]
        /\ \A s \in Rids : HasRow(s)' <=> HasRow(s)
    BY <2>1, <2>2, <2>3 DEF DirTypeOK, HasRow
  <2>5. td.rid \in Known
    BY <1>4, <2>1, <2>2
  <2>6. \A k \in keyRows : k[1] \in Rids
    BY DEF DirTypeOK, KeyNames
  <2>7. TdHeld'
    BY <1>1, <2>1, <2>4, <2>5 DEF TdHeld
  <2>8. RowsHeld'
    BY <1>1, <1>2, <2>1, <2>4, <2>5, <2>6, RidsApart DEF TeardownInv, RowsHeld, HasRow, Known
  <2>9. KeysFollowRows' /\ DeadTeardownCanResume'
    BY <1>1, <1>2, <2>1, <2>4, <2>6
    DEF TeardownInv, KeysFollowRows, IsPending, OwnedByRotation, DeadTeardownCanResume, Known
  <2>10. QED
    BY <2>7, <2>8, <2>9 DEF TeardownInv
<1>8. CASE RevokeKeys \/ DeleteRepo
  <2>1. /\ td.pc \in {"keys", "repo"} /\ (td' = Idle \/ Step("repo") \/ Step("destroy"))
        /\ UNCHANGED <<consent, keyRows, keyFiles, tombs, journal, rotationVars, doneVars>>
    BY <1>8 DEF RevokeKeys, DeleteRepo
  <2>2. \/ td' = Idle
        \/ td'.pc \in {"repo", "destroy"} /\ td'.rid = td.rid /\ td # Idle
    BY <2>1, TdRecord, StepKeeps DEF TdPcs
  <2>3. TdHeld'
    BY <1>1, <1>3, <2>1, <2>2 DEF TeardownInv, TdHeld
  <2>4. QED
    BY <1>1, <2>1, <2>3, TeardownMoves
<1>9. CASE DestroyKeys
  <2>1. /\ td.pc = "destroy" /\ td \in TdStates /\ td # Idle
        /\ keyFiles' = keyFiles \ RowsOf(td.rid)
        /\ td' = [td EXCEPT !.pc = "tombstone", !.keys = RowsOf(td.rid)]
        /\ UNCHANGED <<consent, keyRows, tombs, journal, rotationVars, doneVars>>
    BY <1>9, TdRecord DEF DestroyKeys, TdPcs
  <2>2. td'.pc = "tombstone" /\ td'.rid = td.rid
    BY <2>1 DEF TdStates
  <2>3. consent[td.rid] = "revoked" /\ td.rid \in Known /\ <<td.rid, 1>> \in keyRows
    BY <2>1 DEF TeardownInv, TdHeld, RowsHeld, HasRow
  <2>4. TdHeld'
    BY <1>1, <2>1, <2>2, <2>3 DEF TdHeld, RowsOf
  <2>5. RowsHeld' /\ KeysFollowRows'
    <3>1. \A k \in RowsOf(td.rid) : k[1] = td.rid
      BY DEF RowsOf
    <3>2. QED
      BY <1>1, <2>1, <2>3, <3>1, OwnFilesOnly
  <2>6. DeadTeardownCanResume'
    BY <1>1, <2>1 DEF TeardownInv, DeadTeardownCanResume, HasRow
  <2>7. QED
    BY <2>4, <2>5, <2>6 DEF TeardownInv
<1>10. CASE WriteTombstone
  <2>1. /\ td.pc = "tombstone" /\ td # Idle
        /\ td'.pc = "journal" /\ td'.rid = td.rid
        /\ tombs' = tombs \cup {td.rid}
        /\ UNCHANGED <<consent, keyRows, keyFiles, journal, rotationVars, doneVars>>
    BY <1>10, TdRecord, StepKeeps DEF WriteTombstone, TdPcs
  <2>2. td.rid \in Known
    BY <2>1 DEF TeardownInv, TdHeld
  <2>3. TdHeld'
    BY <1>1, <2>1, <2>2 DEF TeardownInv, TdHeld
  <2>4. RowsHeld' /\ KeysFollowRows' /\ DeadTeardownCanResume'
    BY <1>1, <2>1, <2>2 DEF TeardownInv, RowsHeld, KeysFollowRows, IsPending, OwnedByRotation,
       DeadTeardownCanResume, HasRow
  <2>5. QED
    BY <2>3, <2>4 DEF TeardownInv
<1>11. CASE WriteJournal
  <2>1. /\ td.pc = "journal" /\ td # Idle /\ td \in TdStates
        /\ td'.pc = "delete" /\ td'.rid = td.rid
        /\ journal' = [journal EXCEPT ![td.rid] = td.refs] /\ walked' = walked \ {td.rid}
        /\ UNCHANGED <<consent, keyRows, keyFiles, tombs, rotationVars, erased>>
    BY <1>11, TdRecord, StepKeeps DEF WriteJournal, TdPcs
  <2>2. td.rid \in Rids /\ td.refs \in Refs
    BY <2>1 DEF TdStates
  <2>3. /\ journal'[td.rid] # NoRefs
        /\ \A s \in Rids \ {td.rid} : journal'[s] = journal[s]
    BY <2>1, <2>2, RefsAreNotNone DEF DirTypeOK
  <2>4. TdHeld'
    BY <1>1, <2>1, <2>3 DEF TeardownInv, TdHeld
  <2>5. RowsHeld' /\ KeysFollowRows'
    BY <1>1, <2>1 DEF TeardownInv, RowsHeld, KeysFollowRows, IsPending, OwnedByRotation, HasRow
  <2>6. DeadTeardownCanResume'
    BY <1>1, <1>2, <2>1, <2>3 DEF TeardownInv, DeadTeardownCanResume, HasRow, Known
  <2>7. QED
    BY <2>4, <2>5, <2>6 DEF TeardownInv
<1>12. CASE DeleteRows
  <2> DEFINE r == td.rid
  <2>1. /\ td.pc = "delete" /\ td # Idle /\ td \in TdStates
        /\ keyFiles' = keyFiles \ Recaptured(r)
        /\ UNCHANGED <<tombs, journal, rotating, discarding, clobbered, doneVars>>
    BY <1>12, TdRecord DEF DeleteRows, TdPcs
  <2>2. /\ consent[r] = "revoked" /\ r \in Known /\ r \in tombs /\ journal[r] # NoRefs
        /\ <<r, 1>> \notin keyFiles /\ r \in Rids
    BY <2>1 DEF TeardownInv, TdHeld, TdStates
  <2>3. \A k \in Recaptured(r) : k[1] = td.rid
    BY DEF Recaptured, RowsOf
  <2>4. CASE td' = Idle /\ UNCHANGED <<keyRows, consent, orphans>>
    <3>1. RowsHeld' /\ KeysFollowRows'
      BY <1>1, <2>1, <2>2, <2>3, <2>4, OwnFilesOnly
    <3>2. DeadTeardownCanResume'
      BY <1>1, <2>1, <2>4 DEF TeardownInv, DeadTeardownCanResume, HasRow
    <3>3. QED
      BY <1>3, <2>4, <3>1, <3>2 DEF TeardownInv
  <2>5. CASE /\ keyRows' = keyRows \ RowsOf(r)
             /\ consent' = [consent EXCEPT ![r] = "none"] /\ Step("wipe")
             /\ orphans' = orphans \cup (RowsOf(r) \cap td.keys \cap keyFiles)
    <3>1. td'.pc = "wipe" /\ td'.rid = r
      BY <2>1, <2>5, StepKeeps DEF TdPcs
    <3>2. consent'[r] = "none" /\ \A s \in Rids \ {r} : consent'[s] = consent[s]
      BY <2>2, <2>5 DEF DirTypeOK
    <3>3. TdHeld'
      BY <1>1, <2>1, <2>2, <3>1, <3>2 DEF TdHeld, HasRow
    <3>4. /\ \A k \in keyRows' : k \in keyRows /\ k[1] # r /\ k[1] \in Rids
          /\ \A k \in keyRows : k[1] # r => k \in keyRows'
      BY <2>5 DEF RowsOf, DirTypeOK, KeyNames
    <3>5. \A s \in Attempts : run[s].pc = "txn" => <<s, 1>> \in keyFiles'
      BY <2>1, <2>2, <2>3, RidsApart
      DEF PairingInv, RunHeld, Committing, Known, TeardownInv, RowsHeld
    <3>6. /\ rotating.pc # "idle" => rotating.rid \in Known /\ <<rotating.rid, 2>> \notin keyRows'
          /\ rotating.pc = "stored" /\ consent'[rotating.rid] \in {"pending", "active"} =>
                 <<rotating.rid, 2>> \in keyFiles' \cup clobbered
      BY <1>2, <2>1, <2>3, <3>2, <3>4 DEF TeardownInv, RowsHeld
    <3>7. RowsHeld'
      <4>1. \A k \in keyRows' : HasRow(k[1])'
        BY <3>2, <3>4 DEF TeardownInv, RowsHeld, HasRow
      <4>2. \A s \in Attempts \ committed : consent'[s] = "none"
        BY <3>2, RidsApart DEF TeardownInv, RowsHeld
      <4>3. \A s \in Known : HasRow(s)' => <<s, 1>> \in keyRows'
        BY <1>2, <3>2, <3>4 DEF TeardownInv, RowsHeld, HasRow
      <4>4. \A k \in keyFiles' : k[2] = 2 => k[1] \in Known
        BY <2>1 DEF TeardownInv, RowsHeld
      <4>5. QED
        BY <1>1, <2>1, <3>5, <3>6, <4>1, <4>2, <4>3, <4>4 DEF TeardownInv, RowsHeld
    <3>8. \A k \in keyRows' : consent'[k[1]] # "revoked" => k \in keyFiles' \cup clobbered
      BY <2>1, <2>3, <3>2, <3>4 DEF TeardownInv, KeysFollowRows
    <3>9. \A k \in keyFiles' \ keyRows' : k[1] \in Known => IsPending(k)' \/ k \in orphans'
      <4> SUFFICES ASSUME NEW k \in keyFiles', k \notin keyRows', k[1] \in Known
                   PROVE  IsPending(k)' \/ k \in orphans'
        OBVIOUS
      <4>1. CASE k \notin keyRows
        BY <2>1, <2>5, <4>1 DEF TeardownInv, KeysFollowRows, IsPending, OwnedByRotation, Known
      <4>2. CASE k \in keyRows
        BY <2>1, <2>5, <4>2 DEF RowsOf, Recaptured
      <4>3. QED
        BY <4>1, <4>2
    <3>10. KeysFollowRows'
      BY <1>1, <2>1, <3>8, <3>9 DEF KeysFollowRows, Known
    <3>11. DeadTeardownCanResume'
      BY <1>1, <1>2, <2>1, <2>2, <3>2 DEF TeardownInv, DeadTeardownCanResume, HasRow, Known
    <3>12. QED
      BY <3>3, <3>7, <3>10, <3>11 DEF TeardownInv
  <2>6. QED
    BY <1>12, <2>4, <2>5 DEF DeleteRows
<1>13. CASE WalkFile
  <2>1. /\ td.pc = "wipe" /\ td # Idle /\ td \in TdStates
        /\ keyFiles' = keyFiles \/ keyFiles' = keyFiles \ {<<td.rid, 2>>}
        /\ UNCHANGED <<consent, keyRows, td, tombs, rotationVars, erased>>
        /\ \A s \in Rids : journal'[s] = journal[s] \/ s \in walked'
        /\ walked \subseteq walked'
    BY <1>13, TdRecord DEF WalkFile, TdPcs, DirTypeOK
  <2>2. consent[td.rid] = "none"
    BY <2>1 DEF TeardownInv, TdHeld, HasRow
  <2>3. TdHeld'
    BY <1>1, <2>1 DEF TeardownInv, TdHeld, HasRow
  <2>4. RowsHeld' /\ KeysFollowRows'
    <3>1. PICK F \in {{}, {<<td.rid, 2>>}} : keyFiles' = keyFiles \ F
      BY <2>1
    <3>2. \A k \in F : k[1] = td.rid
      OBVIOUS
    <3>3. QED
      BY <1>1, <2>1, <2>2, <3>1, <3>2, OwnFilesOnly
  <2>5. DeadTeardownCanResume'
    BY <1>1, <1>2, <2>1 DEF TeardownInv, DeadTeardownCanResume, HasRow, Known
  <2>6. QED
    BY <2>3, <2>4, <2>5 DEF TeardownInv
<1>14. CASE WipeKeys
  <2>1. /\ td.pc = "subtree" /\ td # Idle /\ td \in TdStates
        /\ td'.pc = "prune" /\ td'.rid = td.rid
        /\ keyFiles' = keyFiles \ {<<td.rid, 1>>}
        /\ UNCHANGED <<consent, keyRows, tombs, journal, rotationVars, doneVars>>
    BY <1>14, TdRecord, StepKeeps DEF WipeKeys, TdPcs
  <2>2. consent[td.rid] = "none"
    BY <2>1 DEF TeardownInv, TdHeld, HasRow
  <2>3. TdHeld'
    BY <1>1, <2>1 DEF TeardownInv, TdHeld, HasRow
  <2>4. RowsHeld' /\ KeysFollowRows'
    <3>1. PICK F \in {{<<td.rid, 1>>}} : keyFiles' = keyFiles \ F
      BY <2>1
    <3>2. \A k \in F : k[1] = td.rid
      OBVIOUS
    <3>3. QED
      BY <1>1, <2>1, <2>2, <3>1, <3>2, OwnFilesOnly
  <2>5. DeadTeardownCanResume'
    BY <1>1, <2>1 DEF TeardownInv, DeadTeardownCanResume, HasRow
  <2>6. QED
    BY <2>3, <2>4, <2>5 DEF TeardownInv
<1>15. CASE EndWalk \/ PruneRelayJson
  <2>1. /\ td.pc \in {"wipe", "prune"} /\ td # Idle
        /\ td'.pc \in {"subtree", "check"} /\ td'.rid = td.rid
        /\ UNCHANGED <<consent, keyRows, keyFiles, tombs, journal, rotationVars, doneVars>>
    BY <1>15, TdRecord, StepKeeps DEF EndWalk, PruneRelayJson, TdPcs
  <2>2. TdHeld'
    BY <1>1, <2>1 DEF TeardownInv, TdHeld, HasRow
  <2>3. QED
    BY <1>1, <2>1, <2>2, TeardownMoves
<1>16. CASE Postcheck
  <2>1. /\ td' = Idle
        /\ UNCHANGED <<consent, keyRows, keyFiles, tombs, rotationVars, walked>>
        /\ \A s \in Rids : journal'[s] = journal[s] \/ s \in erased'
        /\ erased \subseteq erased'
    BY <1>16 DEF Postcheck, DirTypeOK
  <2>2. RowsHeld' /\ KeysFollowRows'
    BY <1>1, <2>1 DEF TeardownInv, RowsHeld, KeysFollowRows, IsPending, OwnedByRotation, HasRow
  <2>3. DeadTeardownCanResume'
    BY <1>1, <1>2, <2>1 DEF TeardownInv, DeadTeardownCanResume, HasRow, Known
  <2>4. QED
    BY <1>3, <2>1, <2>2, <2>3 DEF TeardownInv
<1>17. CASE Dies
  BY <1>1, <1>3, <1>17, TeardownMoves DEF Dies
<1>18. ASSUME NEW r \in Rids, BeginRotation(r) PROVE TeardownInv'
  <2>1. /\ HasRow(r) /\ <<r, 2>> \notin keyRows /\ rotating = NotRotating
        /\ rotating' = [pc |-> "begun", rid |-> r]
        /\ UNCHANGED <<consent, keyRows, keyFiles, td, tombs, journal, discarding, orphans,
                       clobbered, erased, walked>>
    BY <1>18 DEF BeginRotation
  <2>2. TdHeld' /\ DeadTeardownCanResume'
    BY <1>1, <2>1, RotationsKeepTeardowns
  <2>3. RowsHeld'
    BY <1>1, <1>4, <2>1 DEF TeardownInv, RowsHeld, HasRow
  <2>4. KeysFollowRows'
    BY <1>1, <2>1 DEF TeardownInv, KeysFollowRows, IsPending, OwnedByRotation, NotRotating
  <2>5. QED
    BY <2>2, <2>3, <2>4 DEF TeardownInv
<1>19. CASE StoreRotationKey
  <2> DEFINE r == rotating.rid
  <2>1. /\ rotating.pc = "begun" /\ keyFiles' = keyFiles \cup {<<r, 2>>}
        /\ orphans' = orphans \ {<<r, 2>>} /\ clobbered' = clobbered \ {<<r, 2>>}
        /\ rotating' = [rotating EXCEPT !.pc = "stored"]
        /\ UNCHANGED <<consent, keyRows, td, tombs, journal, discarding, erased, walked>>
    BY <1>19 DEF StoreRotationKey
  <2>2. rotating' = [pc |-> "stored", rid |-> r]
    BY <2>1 DEF DirTypeOK, NotRotating
  <2>3. r \in Known /\ <<r, 2>> \notin keyRows
    BY <2>1 DEF TeardownInv, RowsHeld
  <2>4. TdHeld' /\ DeadTeardownCanResume'
    BY <1>1, <2>1, RotationsKeepTeardowns
  <2>5. RowsHeld'
    BY <1>1, <2>1, <2>2, <2>3 DEF TeardownInv, RowsHeld, HasRow
  <2>6. KeysFollowRows'
    <3>1. \A k \in keyRows' : consent'[k[1]] # "revoked" => k \in keyFiles' \cup clobbered'
      BY <2>1, <2>3 DEF TeardownInv, KeysFollowRows
    <3>2. \A k \in keyFiles' \ keyRows' : k[1] \in Known => IsPending(k)' \/ k \in orphans'
      <4> SUFFICES ASSUME NEW k \in keyFiles', k \notin keyRows', k[1] \in Known, k # <<r, 2>>
                   PROVE  IsPending(k)' \/ k \in orphans'
        BY <2>2 DEF IsPending, OwnedByRotation
      <4>1. ~OwnedByRotation(k[1])
        BY <2>1 DEF OwnedByRotation
      <4>2. QED
        BY <2>1, <4>1 DEF TeardownInv, KeysFollowRows, IsPending, Known
    <3>3. QED
      BY <1>1, <3>1, <3>2 DEF KeysFollowRows, Known
  <2>7. QED
    BY <2>4, <2>5, <2>6 DEF TeardownInv
<1>20. CASE InsertRotationKey
  <2> DEFINE r == rotating.rid
  <2>1. /\ rotating.pc = "stored" /\ rotating' = NotRotating
        /\ UNCHANGED <<consent, td, tombs, journal, discarding, orphans, clobbered, erased, walked>>
    BY <1>20 DEF InsertRotationKey
  <2>2. /\ r \in Known /\ r \in Rids /\ <<r, 2>> \notin keyRows
        /\ rotating' # [pc |-> "stored", rid |-> r] /\ rotating'.pc = "idle"
        /\ \A s : OwnedByRotation(s) => s = r
        /\ \A s : ~OwnedByRotation(s)'
    BY <1>2, <2>1 DEF TeardownInv, RowsHeld, NotRotating, OwnedByRotation
  <2>3. CASE HasRow(r) /\ keyRows' = keyRows \cup {<<r, 2>>} /\ UNCHANGED keyFiles
    <3>1. consent[r] # "revoked" => <<r, 2>> \in keyFiles \cup clobbered
      BY <2>1, <2>2, <2>3 DEF TeardownInv, RowsHeld, HasRow, DirTypeOK, ConsentStates
    <3>2. TdHeld' /\ DeadTeardownCanResume'
      BY <1>1, <2>1, <2>3, RotationsKeepTeardowns
    <3>3. RowsHeld'
      BY <1>1, <2>1, <2>2, <2>3 DEF TeardownInv, RowsHeld, HasRow
    <3>4. \A k \in keyRows' : consent'[k[1]] # "revoked" => k \in keyFiles' \cup clobbered'
      BY <2>1, <2>3, <3>1 DEF TeardownInv, KeysFollowRows
    <3>5. \A k \in keyFiles' \ keyRows' : k[1] \in Known => IsPending(k)' \/ k \in orphans'
      <4> SUFFICES ASSUME NEW k \in keyFiles, k \notin keyRows, k # <<r, 2>>, k[1] \in Known
                   PROVE  IsPending(k)' \/ k \in orphans'
        BY <2>3
      <4>1. IsPending(k) \/ k \in orphans
        BY DEF TeardownInv, KeysFollowRows, Known
      <4>2. IsPending(k) => k[1] = discarding /\ k[2] = 2
        <5>1. k = <<k[1], k[2]>>
          BY DEF DirTypeOK, KeyNames
        <5>2. QED
          BY <2>2, <5>1 DEF IsPending
      <4>3. QED
        BY <2>1, <4>1, <4>2 DEF IsPending
    <3>6. KeysFollowRows'
      BY <1>1, <3>4, <3>5 DEF KeysFollowRows, Known
    <3>7. QED
      BY <3>2, <3>3, <3>6 DEF TeardownInv
  <2>4. CASE keyFiles' = keyFiles \ {<<r, 2>>} /\ UNCHANGED keyRows
    <3>1. TdHeld' /\ DeadTeardownCanResume'
      BY <1>1, <2>1, <2>4, RotationsKeepTeardowns
    <3>2. RowsHeld'
      BY <1>1, <2>1, <2>2, <2>4 DEF TeardownInv, RowsHeld, HasRow
    <3>3. \A k \in keyFiles' \ keyRows' : k[1] \in Known => IsPending(k)' \/ k \in orphans'
      <4> SUFFICES ASSUME NEW k \in keyFiles, k \notin keyRows, k # <<r, 2>>, k[1] \in Known
                   PROVE  IsPending(k)' \/ k \in orphans'
        BY <2>4
      <4>1. IsPending(k) \/ k \in orphans
        BY DEF TeardownInv, KeysFollowRows, Known
      <4>2. IsPending(k) => k[1] = discarding /\ k[2] = 2
        <5>1. k = <<k[1], k[2]>>
          BY DEF DirTypeOK, KeyNames
        <5>2. QED
          BY <2>2, <5>1 DEF IsPending
      <4>3. QED
        BY <2>1, <4>1, <4>2 DEF IsPending
    <3>4. KeysFollowRows'
      BY <1>1, <2>1, <2>2, <2>4, <3>3 DEF TeardownInv, KeysFollowRows, Known
    <3>5. QED
      BY <3>1, <3>2, <3>4 DEF TeardownInv
  <2>5. QED
    BY <1>20, <2>3, <2>4 DEF InsertRotationKey
<1>21. CASE RotationDies
  <2>1. /\ rotating' = NotRotating
        /\ \A s : OwnedByRotation(s) => <<s, 2>> \in orphans'
        /\ orphans \subseteq orphans'
        /\ UNCHANGED <<consent, keyRows, keyFiles, td, tombs, journal, discarding, clobbered,
                       erased, walked>>
    BY <1>21 DEF RotationDies, OwnedByRotation
  <2>2. rotating'.pc = "idle"
    BY <2>1 DEF NotRotating
  <2>3. TdHeld' /\ DeadTeardownCanResume'
    BY <1>1, <2>1, RotationsKeepTeardowns
  <2>4. RowsHeld'
    BY <1>1, <2>1, <2>2 DEF TeardownInv, RowsHeld, HasRow
  <2>5. \A k \in keyFiles : k = <<k[1], k[2]>>
    BY DEF DirTypeOK, KeyNames
  <2>6. KeysFollowRows'
    BY <1>1, <2>1, <2>5 DEF TeardownInv, KeysFollowRows, IsPending
  <2>7. QED
    BY <2>3, <2>4, <2>6 DEF TeardownInv
<1>22. ASSUME NEW r \in Rids, DiscardRow(r) PROVE TeardownInv'
  <2>1. /\ discarding = NoRid /\ discarding' = r
        /\ <<r, 2>> \in keyRows /\ keyRows' = keyRows \ {<<r, 2>>}
        /\ UNCHANGED <<consent, keyFiles, td, tombs, journal, rotating, orphans, clobbered,
                       erased, walked>>
    BY <1>22 DEF DiscardRow
  <2>2. TdHeld' /\ DeadTeardownCanResume'
    BY <1>1, <2>1, RotationsKeepTeardowns
  <2>3. RowsHeld'
    BY <1>1, <2>1 DEF TeardownInv, RowsHeld, HasRow
  <2>4. \A k \in keyFiles : k[1] # NoRid
    BY RidsApart DEF DirTypeOK, KeyNames
  <2>5. KeysFollowRows'
    BY <1>1, <2>1, <2>4 DEF TeardownInv, KeysFollowRows, IsPending, OwnedByRotation
  <2>6. QED
    BY <2>2, <2>3, <2>5 DEF TeardownInv
<1>23. CASE DiscardFile
  <2> DEFINE k == <<discarding, 2>>
  <2>1. /\ discarding # NoRid /\ discarding' = NoRid /\ keyFiles' = keyFiles \ {k}
        /\ clobbered \subseteq clobbered'
        /\ k \in keyRows \/ OwnedByRotation(discarding) => k \in clobbered'
        /\ UNCHANGED <<consent, keyRows, td, tombs, journal, rotating, orphans, erased, walked>>
    BY <1>23 DEF DiscardFile
  <2>2. TdHeld' /\ DeadTeardownCanResume'
    BY <1>1, <2>1, RotationsKeepTeardowns
  <2>3. rotating.pc = "stored" => rotating = [pc |-> "stored", rid |-> rotating.rid]
    BY DEF DirTypeOK, NotRotating
  <2>4. RowsHeld'
    BY <1>1, <2>1, <2>3 DEF TeardownInv, RowsHeld, HasRow, OwnedByRotation
  <2>5. \A f \in keyFiles : f = <<f[1], f[2]>>
    BY DEF DirTypeOK, KeyNames
  <2>6. KeysFollowRows'
    BY <1>1, <2>1, <2>5 DEF TeardownInv, KeysFollowRows, IsPending, OwnedByRotation
  <2>7. QED
    BY <2>2, <2>4, <2>6 DEF TeardownInv
<1>24. CASE DiscardDies
  <2>1. /\ discarding' = NoRid /\ orphans' = orphans \cup {<<discarding, 2>>}
        /\ UNCHANGED <<consent, keyRows, keyFiles, td, tombs, journal, rotating, clobbered,
                       erased, walked>>
    BY <1>24 DEF DiscardDies
  <2>2. TdHeld' /\ DeadTeardownCanResume'
    BY <1>1, <2>1, RotationsKeepTeardowns
  <2>3. RowsHeld'
    BY <1>1, <2>1 DEF TeardownInv, RowsHeld, HasRow
  <2>4. \A f \in keyFiles : f = <<f[1], f[2]>>
    BY DEF DirTypeOK, KeyNames
  <2>5. KeysFollowRows'
    BY <1>1, <2>1, <2>4 DEF TeardownInv, KeysFollowRows, IsPending, OwnedByRotation
  <2>6. QED
    BY <2>2, <2>3, <2>5 DEF TeardownInv
<1>25. QED
  BY <1>5, <1>6, <1>7, <1>8, <1>9, <1>10, <1>11, <1>12, <1>13, <1>14, <1>15, <1>16, <1>17,
     <1>18, <1>19, <1>20, <1>21, <1>22, <1>23, <1>24 DEF TeardownNext

\* TeardownInv is an invariant of the composed system.
LEMMA TeardownInvariant == Spec => []TeardownInv
<1>1. Init => TeardownInv
  <2> SUFFICES ASSUME Init PROVE TeardownInv
    OBVIOUS
  <2>1. td.pc = "idle" /\ td = Idle
    BY DEF Init, TeardownInit, Idle
  <2>2. \A k \in keyRows : k[1] \in Established
    BY DEF Init, DirInit
  <2>3. \A r \in Established : consent[r] = "active"
    BY RidsApart DEF Init, DirInit
  <2>4. \A r \in Attempts : consent[r] = "none" /\ run[r].pc = "unused"
    BY RidsApart DEF Init, DirInit, PairingInit, NoRun
  <2>5. TdHeld
    BY <2>1 DEF TdHeld
  <2>6. RowsHeld
    BY <2>2, <2>3, <2>4
    DEF Init, DirInit, PairingInit, TeardownInit, RowsHeld, HasRow, Known, NotRotating
  <2>7. KeysFollowRows /\ DeadTeardownCanResume
    BY <2>3 DEF Init, DirInit, PairingInit, KeysFollowRows, DeadTeardownCanResume, HasRow
  <2>8. QED
    BY <2>5, <2>6, <2>7 DEF TeardownInv
<1>2. /\ PairingTypeOK /\ PairingInv /\ DirTypeOK /\ DirTypeOK' /\ TeardownInv /\ [Next]_vars
      => TeardownInv'
  <2> SUFFICES ASSUME PairingTypeOK, PairingInv, DirTypeOK, DirTypeOK', TeardownInv, [Next]_vars
               PROVE  TeardownInv'
    OBVIOUS
  <2>1. CASE UNCHANGED vars
    BY <2>1, TeardownIdle DEF vars, dirVars, teardownVars, rotationVars, doneVars, pairingVars,
       inviterVars
  <2>2. CASE Next
    BY <2>2, TeardownInvUnderPairing, TeardownInvUnderTeardown DEF Next
  <2>3. QED
    BY <2>1, <2>2
<1>3. QED
  BY <1>1, <1>2, PairingTypes, PairingInvariant, DirTypes, PTL DEF Spec

\* No teardown destroys a key of a relationship still in use, but for the late discard that
\* `clobbered` records, and none leaves a key file without a row, but for the deaths that
\* `orphans` records.
THEOREM KeysLiveAndDieWithRows == Spec => []KeysFollowRows
  BY TeardownInvariant, PTL DEF TeardownInv

\* Wherever a teardown dies, a relationship whose row is gone has its tombstone, no key from
\* pairing, and its journal until a walk takes it or the postcheck is clean.
THEOREM DeadTeardownsAreFound == Spec => []DeadTeardownCanResume
  BY TeardownInvariant, PTL DEF TeardownInv

-----------------------------------------------------------------------------
\* The null repository is not one of the relay repositories.
LEMMA NoRepoApart == NoRepo \notin Repos
  BY StateDirAssumption DEF NoRepo

\* What a run has registered, and should have, does not depend on its step.
LEMMA KeysStay ==
    ASSUME NEW s, run'[s].a = run[s].a, run'[s].repo = run[s].repo, run'[s].self = run[s].self
    PROVE  /\ RunKeys(s)' = RunKeys(s)
           /\ (Hosted(s, PeerKey(s)))' = Hosted(s, PeerKey(s))
  BY DEF RunKeys, Hosted, PeerKey, SelfKey

\* A run that moves on, or dies, without touching GitHub or the relay configuration
\* keeps the relay invariant.
LEMMA MovingOnKeepsRelay ==
    ASSUME PairingTypeOK, RelayInv, NEW r \in Attempts, run[r].pc # "unused",
           NEW pc \in Pcs \ {"unused", "confirm", "peer", "self"}, Goto(r, pc),
           pc \in {"store", "txn"} => run[r].pc \in {"store", "txn"},
           UNCHANGED <<consent, relayCfg, hosted, committed, td, gone, raced>>
    PROVE  RelayInv'
<1>1. /\ run'[r].pc = pc /\ run'[r].a = run[r].a
      /\ run'[r].repo = run[r].repo /\ run'[r].self = run[r].self
      /\ \A s \in Attempts \ {r} : run'[s] = run[s]
  BY GotoKeeps
<1>2. \A s \in Attempts : RunKeysHeld(s)'
  <2> SUFFICES ASSUME NEW s \in Attempts PROVE RunKeysHeld(s)'
    OBVIOUS
  <2>1. run'[s].a = run[s].a /\ run'[s].repo = run[s].repo /\ run'[s].self = run[s].self
    BY <1>1
  <2>2. /\ RunKeys(s)' = RunKeys(s) /\ (Hosted(s, PeerKey(s)))' = Hosted(s, PeerKey(s))
        /\ Registered(s)' = Registered(s)
    BY <2>1, KeysStay DEF Registered
  <2>3. CASE s = r
    BY <1>1, <2>1, <2>2, <2>3 DEF RelayInv, RunKeysHeld
  <2>4. CASE s # r
    BY <1>1, <2>2, <2>4 DEF RelayInv, RunKeysHeld
  <2>5. QED
    BY <2>3, <2>4
<1>3. QED
  BY <1>2 DEF RelayInv, EstablishedHeld, EstablishedKeys, Registered, DoomHeld, GoneHeld

\* The relay invariant survives a step that leaves the runs, GitHub and the relay
\* configuration alone and opens no relationship.
LEMMA RelayIdle ==
    ASSUME RelayInv, UNCHANGED <<relayCfg, hosted, run, committed, gone>>, raced \subseteq raced',
           \A r \in Attempts \cup Established :
               consent'[r] \in Open => r \in Rids /\ consent[r] \in Open,
           \A r \in Rids : consent'[r] \in Open => consent[r] \in Open,
           DoomHeld'
    PROVE  RelayInv'
<1>1. \A r \in Attempts : RunKeysHeld(r)'
  BY DEF RelayInv, RunKeysHeld, Registered, RunKeys, Hosted, PeerKey, SelfKey
<1>2. \A r \in Established : EstablishedHeld(r)'
  BY DEF RelayInv, EstablishedHeld, EstablishedKeys, Registered
<1>3. GoneHeld'
  BY DEF RelayInv, GoneHeld
<1>4. QED
  BY <1>1, <1>2, <1>3 DEF RelayInv

\* A step of the pairing keeps the relay invariant.  Saving the relay configuration is the
\* delicate case: a repository that is gone or doomed by then is what `raced` records.
LEMMA RelayInvUnderPairing ==
    ASSUME PairingTypeOK, PairingInv, DirTypeOK, TeardownInv, RelayInv,
           PairingNext, UNCHANGED teardownVars,
           raced' = raced \cup {r \in Rids : relayCfg'[r] # relayCfg[r] /\ relayCfg'[r] \in Doomed}
    PROVE  RelayInv'
<1> USE DEF teardownVars, dirVars, inviterVars, acceptorVars
<1>1. ASSUME UNCHANGED relayCfg PROVE UNCHANGED raced
  BY <1>1
<1>2. ASSUME UNCHANGED <<relayCfg, td>> PROVE DoomHeld'
  BY <1>1, <1>2 DEF RelayInv, DoomHeld
<1>3. CASE UNCHANGED <<consent, relayCfg, hosted, run, committed>>
  BY <1>1, <1>2, <1>3, RelayIdle, RidsApart
<1>4. CASE MarkActive
  <2>1. \A r \in Rids : consent'[r] \in Open => consent[r] \in Open
    <3>1. ready \in Rids
      BY <1>4, RidsApart DEF MarkActive, PairingTypeOK
    <3>2. CASE consent[ready] = "pending"
      BY <1>4, <3>1, <3>2 DEF MarkActive, Activates, DirTypeOK, Open
    <3>3. CASE consent[ready] # "pending"
      BY <1>4, <3>3 DEF MarkActive, Activates
    <3>4. QED
      BY <3>2, <3>3
  <2>2. UNCHANGED <<relayCfg, hosted, run, committed>>
    BY <1>4 DEF MarkActive
  <2>3. QED
    BY <1>1, <1>2, <2>1, <2>2, RelayIdle, RidsApart
<1>5. ASSUME NEW r \in Attempts,
             StoreKey(r) \/ WriteRelayJson(r) \/ HandOver(r) \/ RunDies(r)
      PROVE  RelayInv'
  <2>1. /\ UNCHANGED <<consent, relayCfg, hosted, committed>> /\ run[r].pc # "unused"
        /\ \/ run[r].pc = "store" /\ Goto(r, "txn")
           \/ Goto(r, "config") \/ Goto(r, "done")
    BY <1>5 DEF StoreKey, WriteRelayJson, HandOver, RunDies
  <2>2. QED
    BY <1>1, <2>1, MovingOnKeepsRelay DEF Pcs
<1>6. ASSUME NEW r \in Attempts, NEW a \in handed, NEW repo \in Repos, Preview(r, a, repo)
      PROVE  RelayInv'
  <2>1. UNCHANGED <<consent, relayCfg, hosted, committed>> /\ run[r].pc = "unused"
    BY <1>6 DEF Preview, NoRun
  <2>2. CASE UNCHANGED run
    BY <1>3, <2>1, <2>2
  <2>3. CASE run' = [run EXCEPT ![r] = [pc |-> "confirm", a |-> a, repo |-> repo, self |-> 0]]
    <3>1. run'[r].pc = "confirm" /\ \A s \in Attempts \ {r} : run'[s] = run[s]
      BY <2>3 DEF PairingTypeOK
    <3>2. Registered(r) = {} /\ r \notin committed /\ relayCfg[r] = NoRepo
      BY <2>1 DEF RelayInv, RunKeysHeld, PairingInv, RunHeld, Committing
    <3>3. RunKeysHeld(r)'
      BY <2>1, <3>1, <3>2 DEF RunKeysHeld, Registered
    <3>4. \A s \in Attempts \ {r} : RunKeysHeld(s)'
      BY <2>1, <3>1 DEF RelayInv, RunKeysHeld, Registered, RunKeys, Hosted, PeerKey, SelfKey
    <3>5. QED
      BY <1>1, <1>2, <2>1, <3>3, <3>4
      DEF RelayInv, EstablishedHeld, EstablishedKeys, Registered, GoneHeld
  <2>4. QED
    BY <1>6, <2>2, <2>3 DEF Preview
<1>7. ASSUME NEW r \in Attempts, Confirm(r) PROVE RelayInv'
  <2> DEFINE k == DeployKeyOf(run[r].a.invite, r)
  <2>1. UNCHANGED <<consent, relayCfg, hosted, committed>> /\ run[r].pc = "confirm"
    BY <1>7 DEF Confirm
  <2>2. CASE Goto(r, "done")
    BY <1>1, <2>1, <2>2, MovingOnKeepsRelay DEF Pcs
  <2>3. CASE run' = [run EXCEPT ![r].pc = "peer", ![r].self = k]
    <3>1. k \in Nat
      BY SMTT(30), <2>1, RunInvite, StateDirAssumption DEF DeployKeyOf, PairingTypeOK, Attempts
    <3>2. /\ run'[r].pc = "peer" /\ run'[r].repo = run[r].repo
          /\ \A s \in Attempts \ {r} : run'[s] = run[s]
      BY <2>1, <2>3, <3>1, ConfirmKeeps
    <3>3. Registered(r) = {} /\ r \notin committed /\ relayCfg[r] = NoRepo
      BY <2>1 DEF RelayInv, RunKeysHeld, PairingInv, RunHeld, Committing
    <3>4. RunKeysHeld(r)'
      BY <2>1, <3>2, <3>3 DEF RunKeysHeld, Registered
    <3>5. \A s \in Attempts \ {r} : RunKeysHeld(s)'
      BY <2>1, <3>2 DEF RelayInv, RunKeysHeld, Registered, RunKeys, Hosted, PeerKey, SelfKey
    <3>6. QED
      BY <1>1, <1>2, <2>1, <3>4, <3>5
      DEF RelayInv, EstablishedHeld, EstablishedKeys, Registered, GoneHeld
  <2>4. QED
    BY <1>7, <2>2, <2>3 DEF Confirm
<1>8. ASSUME NEW r \in Attempts, NEW pc \in {"peer", "self", "txn"}, run[r].pc = pc, Undo(r),
             UNCHANGED <<consent, relayCfg, committed>>
      PROVE  RelayInv'
  <2>1. hosted' = hosted \ Registered(r) /\ Goto(r, "done")
    BY <1>8 DEF Undo
  <2>2. run'[r].pc = "done" /\ \A s \in Attempts \ {r} : run'[s] = run[s]
    BY <1>8, <2>1, GotoKeeps DEF Pcs
  <2>3. r \notin committed /\ relayCfg[r] = NoRepo
    BY <1>8 DEF RelayInv, RunKeysHeld, PairingInv, RunHeld, Committing
  <2>4. \A s \in Rids \ {r} : Registered(s)' = Registered(s)
    BY <2>1 DEF Registered
  <2>5. RunKeysHeld(r)'
    BY <1>8, <2>2, <2>3 DEF RunKeysHeld
  <2>6. \A s \in Attempts \ {r} : RunKeysHeld(s)'
    BY <1>8, <2>2, <2>4, RidsApart DEF RelayInv, RunKeysHeld, RunKeys, Hosted, PeerKey, SelfKey
  <2>7. \A s \in Established : EstablishedHeld(s)'
    BY <1>8, <2>4, RidsApart DEF RelayInv, EstablishedHeld, EstablishedKeys
  <2>8. QED
    BY <1>1, <1>2, <1>8, <2>5, <2>6, <2>7 DEF RelayInv, GoneHeld
<1>9. ASSUME NEW r \in Attempts, RegisterPeer(r) \/ RegisterSelf(r) PROVE RelayInv'
  <2>1. UNCHANGED <<consent, relayCfg, committed>>
    BY <1>9 DEF RegisterPeer, RegisterSelf, Register
  <2>2. CASE Undo(r)
    BY <1>8, <1>9, <2>1, <2>2 DEF RegisterPeer, RegisterSelf, Register
  <2>3. CASE \/ /\ run[r].pc = "peer" /\ hosted' = hosted \cup {Hosted(r, PeerKey(r))}
                /\ Goto(r, "self")
             \/ /\ run[r].pc = "self" /\ hosted' = hosted \cup {Hosted(r, SelfKey(r))}
                /\ Goto(r, "store")
    <3>1. /\ run'[r].a = run[r].a /\ run'[r].repo = run[r].repo /\ run'[r].self = run[r].self
          /\ \A s \in Attempts \ {r} : run'[s] = run[s]
          /\ run[r].pc = "peer" => run'[r].pc = "self"
          /\ run[r].pc = "self" => run'[r].pc = "store"
      BY <2>3, GotoKeeps DEF Pcs
    <3>2. /\ RunKeys(r)' = RunKeys(r)
          /\ (Hosted(r, PeerKey(r)))' = Hosted(r, PeerKey(r))
      BY <3>1, KeysStay
    <3>3. r \notin committed /\ relayCfg[r] = NoRepo
      BY <2>3 DEF RelayInv, RunKeysHeld, PairingInv, RunHeld, Committing
    <3>4. Hosted(r, PeerKey(r)).rid = r /\ Hosted(r, SelfKey(r)).rid = r
      BY DEF Hosted
    <3>5. \A s \in Rids \ {r} : Registered(s)' = Registered(s)
      BY <2>3, <3>4 DEF Registered
    <3>6. RunKeysHeld(r)'
      <4>1. CASE run[r].pc = "peer"
        <5>1. Registered(r) = {} /\ hosted' = hosted \cup {Hosted(r, PeerKey(r))}
          BY <2>3, <4>1 DEF RelayInv, RunKeysHeld
        <5>2. Registered(r)' = {Hosted(r, PeerKey(r))}
          BY <3>4, <5>1 DEF Registered
        <5>3. QED
          BY <2>1, <3>1, <3>2, <3>3, <4>1, <5>2 DEF RunKeysHeld
      <4>2. CASE run[r].pc = "self"
        <5>1. hosted' = hosted \cup {Hosted(r, SelfKey(r))}
          BY <2>3, <4>2
        <5>2. Registered(r)' = Registered(r) \cup {Hosted(r, SelfKey(r))}
          BY <3>4, <5>1 DEF Registered
        <5>3. run[r].repo \notin gone => Registered(r)' = RunKeys(r)
          BY <4>2, <5>2 DEF RelayInv, RunKeysHeld, RunKeys
        <5>4. QED
          BY <2>1, <3>1, <3>2, <3>3, <4>2, <5>3 DEF RunKeysHeld
      <4>3. QED
        BY <2>3, <4>1, <4>2
    <3>7. \A s \in Attempts \ {r} : RunKeysHeld(s)'
      BY <2>1, <3>1, <3>5, RidsApart DEF RelayInv, RunKeysHeld, RunKeys, Hosted, PeerKey, SelfKey
    <3>8. \A s \in Established : EstablishedHeld(s)'
      BY <2>1, <3>5, RidsApart DEF RelayInv, EstablishedHeld, EstablishedKeys
    <3>9. QED
      BY <1>1, <1>2, <2>1, <3>6, <3>7, <3>8 DEF RelayInv, GoneHeld
  <2>4. QED
    BY <1>9, <2>2, <2>3 DEF RegisterPeer, RegisterSelf, Register
<1>10. ASSUME NEW r \in Attempts, CommitFails(r) PROVE RelayInv'
  BY <1>8, <1>10 DEF CommitFails
<1>11. ASSUME NEW r \in Attempts, CommitTxn(r) PROVE RelayInv'
  <2>1. /\ run[r].pc = "txn" /\ Goto(r, "relay")
        /\ consent' = [consent EXCEPT ![r] = "pending"] /\ committed' = committed \cup {r}
        /\ UNCHANGED <<relayCfg, hosted>>
    BY <1>11 DEF CommitTxn
  <2>2. /\ run'[r].pc = "relay" /\ run'[r].a = run[r].a
        /\ run'[r].repo = run[r].repo /\ run'[r].self = run[r].self
        /\ \A s \in Attempts \ {r} : run'[s] = run[s]
    BY <2>1, GotoKeeps DEF Pcs
  <2>3. /\ r \in Rids /\ relayCfg[r] = NoRepo
        /\ \A s \in Rids \ {r} : consent'[s] = consent[s]
    BY <2>1, RidsApart DEF DirTypeOK, RelayInv, RunKeysHeld, PairingInv, RunHeld, Committing
  <2>4. RunKeysHeld(r)'
    <3>1. RunKeys(r)' = RunKeys(r) /\ Registered(r)' = Registered(r)
      BY <2>1, <2>2, KeysStay DEF Registered
    <3>2. QED
      BY <2>1, <2>2, <2>3, <3>1 DEF RelayInv, RunKeysHeld
  <2>5. \A s \in Attempts \ {r} : RunKeysHeld(s)'
    BY <2>1, <2>2, <2>3, RidsApart
    DEF RelayInv, RunKeysHeld, Registered, RunKeys, Hosted, PeerKey, SelfKey
  <2>6. \A s \in Established : EstablishedHeld(s)'
    BY <2>1, <2>3, RidsApart DEF RelayInv, EstablishedHeld, EstablishedKeys, Registered
  <2>7. GoneHeld'
    BY <1>1, <2>1, <2>3, NoRepoApart DEF RelayInv, GoneHeld, DirTypeOK
  <2>8. QED
    BY <1>2, <2>1, <2>4, <2>5, <2>6, <2>7 DEF RelayInv
<1>12. ASSUME NEW r \in Attempts, SaveRelayConfig(r) PROVE RelayInv'
  <2>1. /\ run[r].pc = "config" /\ Goto(r, "output")
        /\ relayCfg' = [relayCfg EXCEPT ![r] = run[r].repo]
        /\ UNCHANGED <<consent, hosted, committed>>
    BY <1>12 DEF SaveRelayConfig
  <2>2. /\ run'[r].pc = "output" /\ run'[r].a = run[r].a
        /\ run'[r].repo = run[r].repo /\ run'[r].self = run[r].self
        /\ \A s \in Attempts \ {r} : run'[s] = run[s]
    BY <2>1, GotoKeeps DEF Pcs
  <2>3. /\ r \in Rids /\ relayCfg'[r] = run[r].repo /\ r \in committed
        /\ \A s \in Rids \ {r} : relayCfg'[s] = relayCfg[s]
    BY <2>1, RidsApart DEF DirTypeOK, PairingInv, RunHeld, Committing
  <2>4. RunKeysHeld(r)'
    <3>1. RunKeys(r)' = RunKeys(r) /\ Registered(r)' = Registered(r)
      BY <2>1, <2>2, KeysStay DEF Registered
    <3>2. QED
      BY <2>1, <2>2, <2>3, <3>1 DEF RelayInv, RunKeysHeld
  <2>5. \A s \in Attempts \ {r} : RunKeysHeld(s)'
    BY <2>1, <2>2, <2>3, RidsApart
    DEF RelayInv, RunKeysHeld, Registered, RunKeys, Hosted, PeerKey, SelfKey
  <2>6. \A s \in Established : EstablishedHeld(s)'
    BY <2>1, <2>3, RidsApart DEF RelayInv, EstablishedHeld, EstablishedKeys, Registered
  <2>7. raced \subseteq raced' /\ (relayCfg'[r] # relayCfg[r] /\ relayCfg'[r] \in Doomed => r \in raced')
    BY <2>3
  <2>8. GoneHeld'
    BY <2>1, <2>3, <2>7 DEF RelayInv, GoneHeld, Doomed
  <2>9. DoomHeld'
    <3> SUFFICES ASSUME td.pc \in {"mark", "keys", "repo"}, td.refs.repo # NoRepo,
                        NEW s \in Rids \ {td.rid}, relayCfg'[s] = td.refs.repo
                 PROVE  s \in raced'
      BY DEF DoomHeld
    <3>1. td # Idle
      BY DEF Idle
    <3>2. CASE relayCfg[s] = relayCfg'[s]
      BY <2>7, <3>2 DEF RelayInv, DoomHeld
    <3>3. CASE relayCfg[s] # relayCfg'[s]
      BY <2>3, <2>7, <3>1, <3>3 DEF Doomed
    <3>4. QED
      BY <3>2, <3>3
  <2>10. QED
    BY <2>4, <2>5, <2>6, <2>8, <2>9 DEF RelayInv
<1>13. QED
  BY <1>3, <1>4, <1>5, <1>6, <1>7, <1>9, <1>10, <1>11, <1>12
  DEF PairingNext, CreateInvite, Expire, Compare, Accept, StoreAcceptance, AcceptDies, Display,
      Ingest, ReadReady

\* A step of a teardown or of a rotation keeps the relay invariant: the keys it revokes
\* are those of a revoked relationship, and the repository it deletes is nobody else's.
LEMMA RelayInvUnderTeardown ==
    ASSUME PairingTypeOK, PairingInv, DirTypeOK, TeardownInv, RelayInv,
           TeardownNext, UNCHANGED pairingVars,
           raced' = raced \cup {r \in Rids : relayCfg'[r] # relayCfg[r] /\ relayCfg'[r] \in Doomed}
    PROVE  RelayInv'
<1> USE DEF dirVars
<1>1. UNCHANGED <<run, committed>> /\ raced \subseteq raced'
  BY DEF pairingVars, inviterVars
<1>2. ASSUME UNCHANGED relayCfg, td' = Idle \/ td'.pc \notin {"mark", "keys", "repo"} PROVE DoomHeld'
  BY <1>2 DEF DoomHeld, Idle
<1>3. ASSUME UNCHANGED relayCfg, td.pc \in {"mark", "keys", "repo"},
             td'.rid = td.rid, td'.refs = td.refs
      PROVE  DoomHeld'
  BY <1>1, <1>3 DEF RelayInv, DoomHeld
<1>4. ASSUME UNCHANGED <<relayCfg, hosted, gone>>, DoomHeld',
             \A r \in Rids : consent'[r] \in Open => consent[r] \in Open
      PROVE  RelayInv'
  BY <1>1, <1>4, RelayIdle, RidsApart
<1>5. ASSUME NEW r \in Rids, Start(r) PROVE RelayInv'
  <2>1. /\ td'.rid = r /\ td'.refs = Discover(r)
        /\ UNCHANGED <<relayCfg, hosted, gone, consent>>
    BY <1>5 DEF Start
  <2>2. Discover(r).repo # NoRepo => Claimants(Discover(r).repo) \subseteq {r}
    BY DEF Discover, Deletable
  <2>3. DoomHeld'
    BY <2>1, <2>2 DEF DoomHeld, Claimants
  <2>4. QED
    BY <1>4, <2>1, <2>3
<1>6. ASSUME NEW r \in Rids, Resume(r) PROVE RelayInv'
  <2>1. td'.pc = "wipe" /\ UNCHANGED <<relayCfg, hosted, gone, consent>>
    BY <1>6 DEF Resume
  <2>2. QED
    BY <1>2, <1>4, <2>1
<1>7. CASE MarkRevoked
  <2>1. /\ td.pc = "mark" /\ td'.rid = td.rid /\ td'.refs = td.refs /\ td \in TdStates
        /\ UNCHANGED <<relayCfg, hosted, gone>>
        /\ (consent' = [consent EXCEPT ![td.rid] = "revoked"] \/ UNCHANGED consent)
    BY <1>7, TdRecord, StepKeeps DEF MarkRevoked, TdPcs
  <2>2. \A r \in Rids : consent'[r] \in Open => consent[r] \in Open
    BY <2>1 DEF DirTypeOK, Open
  <2>3. QED
    BY <1>3, <1>4, <2>1, <2>2
<1>8. CASE RevokeKeys
  <2>1. /\ td.pc = "keys" /\ td # Idle /\ td \in TdStates
        /\ UNCHANGED <<relayCfg, gone, consent>>
        /\ (hosted' = hosted \/ hosted' = {h \in hosted : ~(h.rid = td.rid /\ h.key[1] = "peer")})
        /\ (td' = Idle \/ (td'.rid = td.rid /\ td'.refs = td.refs))
    BY <1>8, TdRecord, StepKeeps DEF RevokeKeys, TdPcs
  <2>2. DoomHeld'
    BY <1>2, <1>3, <2>1
  <2>3. consent[td.rid] = "revoked" /\ td.rid \in Known
    BY <2>1 DEF TeardownInv, TdHeld
  <2>4. \A r \in Rids \ {td.rid} : Registered(r)' = Registered(r)
    BY <2>1 DEF Registered
  <2>5. \A r \in Attempts : RunKeysHeld(r)'
    <3> SUFFICES ASSUME NEW r \in Attempts PROVE RunKeysHeld(r)'
      OBVIOUS
    <3>1. CASE r = td.rid
      <4>1. r \in committed /\ run[r].pc \in Committing \cup {"done"}
        BY <2>3, <3>1, RidsApart DEF Known, PairingInv, RunHeld
      <4>2. QED
        BY <1>1, <2>1, <2>3, <3>1, <4>1 DEF RelayInv, RunKeysHeld, Committing, Open
    <3>2. CASE r # td.rid
      BY <1>1, <2>1, <2>4, <3>2, RidsApart
      DEF RelayInv, RunKeysHeld, RunKeys, Hosted, PeerKey, SelfKey
    <3>3. QED
      BY <3>1, <3>2
  <2>6. \A r \in Established : EstablishedHeld(r)'
    BY <2>1, <2>3, <2>4, RidsApart DEF RelayInv, EstablishedHeld, EstablishedKeys, Open
  <2>7. QED
    BY <1>1, <2>1, <2>2, <2>5, <2>6 DEF RelayInv, GoneHeld
<1>9. CASE DeleteRepo
  <2>1. /\ td.pc = "repo" /\ td # Idle /\ td \in TdStates
        /\ UNCHANGED <<relayCfg, consent>>
        /\ (td' = Idle \/ (td'.rid = td.rid /\ td'.refs = td.refs))
        /\ \/ UNCHANGED <<gone, hosted>>
           \/ /\ hosted' = {h \in hosted : h.repo \notin gone'}
              /\ gone' = gone \/ (gone' = gone \cup {td.refs.repo} /\ td.refs.repo # NoRepo)
    BY <1>9, TdRecord, StepKeeps DEF DeleteRepo, TdPcs
  <2>2. DoomHeld'
    BY <1>2, <1>3, <2>1
  <2>3. CASE UNCHANGED <<gone, hosted>>
    BY <1>4, <2>1, <2>2, <2>3
  <2>4. CASE /\ hosted' = {h \in hosted : h.repo \notin gone'}
             /\ gone' = gone \/ (gone' = gone \cup {td.refs.repo} /\ td.refs.repo # NoRepo)
    <3>1. gone \subseteq gone' /\ consent[td.rid] = "revoked"
      BY <2>1, <2>4 DEF TeardownInv, TdHeld
    <3>2. GoneHeld'
      BY <1>1, <2>1, <2>4, <3>1 DEF RelayInv, GoneHeld, DoomHeld, Open
    <3>3. ASSUME NEW r, NEW F, Registered(r) = F, \A h \in F : h.repo \notin gone'
          PROVE  Registered(r)' = F
      BY <2>4, <3>3 DEF Registered
    <3>4. \A r \in Attempts : RunKeysHeld(r)'
      <4> SUFFICES ASSUME NEW r \in Attempts PROVE RunKeysHeld(r)'
        OBVIOUS
      <4>1. Registered(r) = {} => Registered(r)' = {}
        BY <3>3
      <4>2. ASSUME run[r].repo \notin gone'
            PROVE  /\ Registered(r) = {Hosted(r, PeerKey(r))} =>
                          Registered(r)' = {Hosted(r, PeerKey(r))}
                   /\ Registered(r) = RunKeys(r) => Registered(r)' = RunKeys(r)
        <5>1. \A h \in RunKeys(r) : h.repo \notin gone'
          BY <4>2 DEF RunKeys, Hosted
        <5>2. Hosted(r, PeerKey(r)) \in RunKeys(r)
          BY DEF RunKeys
        <5>3. \A h \in {Hosted(r, PeerKey(r))} : h.repo \notin gone'
          BY <5>1, <5>2
        <5>4. QED
          BY <3>3, <5>1, <5>3
      <4>3. RunKeys(r)' = RunKeys(r) /\ (Hosted(r, PeerKey(r)))' = Hosted(r, PeerKey(r))
        BY <1>1, KeysStay
      <4>4. RunKeysHeld(r)
        BY DEF RelayInv
      <4>5. QED
        BY <1>1, <2>1, <3>1, <4>1, <4>2, <4>3, <4>4 DEF RunKeysHeld
    <3>5. \A r \in Established : EstablishedHeld(r)'
      <4> SUFFICES ASSUME NEW r \in Established, consent[r] \in Open, relayCfg[r] \notin gone'
                   PROVE  Registered(r)' = EstablishedKeys(r)
        BY <2>1 DEF EstablishedHeld, EstablishedKeys
      <4>1. Registered(r) = EstablishedKeys(r)
        BY <3>1 DEF RelayInv, EstablishedHeld
      <4>2. \A h \in EstablishedKeys(r) : h.repo \notin gone'
        BY DEF EstablishedKeys
      <4>3. QED
        BY <3>3, <4>1, <4>2
    <3>6. QED
      BY <2>2, <3>2, <3>4, <3>5 DEF RelayInv
  <2>5. QED
    BY <2>1, <2>3, <2>4
<1>10. CASE DeleteRows
  <2>1. td.pc = "delete" /\ td \in TdStates /\ UNCHANGED <<hosted, gone>>
    BY <1>10, TdRecord DEF DeleteRows, TdPcs
  <2>2. CASE td' = Idle /\ UNCHANGED <<consent, relayCfg>>
    BY <1>2, <1>4, <2>1, <2>2
  <2>3. CASE /\ consent' = [consent EXCEPT ![td.rid] = "none"]
             /\ relayCfg' = [relayCfg EXCEPT ![td.rid] = NoRepo]
             /\ Step("wipe")
    <3>1. /\ td'.pc = "wipe" /\ td.rid \in Rids
          /\ consent'[td.rid] = "none" /\ relayCfg'[td.rid] = NoRepo
          /\ \A r \in Rids \ {td.rid} : consent'[r] = consent[r] /\ relayCfg'[r] = relayCfg[r]
      <4>1. td.rid \in Rids
        BY <2>1 DEF TdStates
      <4>2. td'.pc = "wipe"
        BY <2>1, <2>3, StepKeeps DEF TdPcs
      <4>3. QED
        BY <2>3, <4>1, <4>2 DEF DirTypeOK
    <3>2. \A r \in Attempts : RunKeysHeld(r)'
      <4> SUFFICES ASSUME NEW r \in Attempts PROVE RunKeysHeld(r)'
        OBVIOUS
      <4>1. Registered(r)' = Registered(r) /\ r \in Rids
        BY <2>1, RidsApart DEF Registered
      <4>2. RunKeys(r)' = RunKeys(r) /\ (Hosted(r, PeerKey(r)))' = Hosted(r, PeerKey(r))
        BY <1>1, KeysStay
      <4>3. RunKeysHeld(r)
        BY DEF RelayInv
      <4>4. QED
        BY <1>1, <2>1, <3>1, <4>1, <4>2, <4>3 DEF RunKeysHeld, Open
    <3>3. \A r \in Established : EstablishedHeld(r)'
      BY <2>1, <3>1, RidsApart DEF RelayInv, EstablishedHeld, EstablishedKeys, Registered, Open
    <3>4. GoneHeld' /\ DoomHeld'
      BY <1>1, <2>1, <3>1 DEF RelayInv, GoneHeld, DoomHeld, Open
    <3>5. QED
      BY <3>2, <3>3, <3>4 DEF RelayInv
  <2>4. QED
    BY <1>10, <2>2, <2>3 DEF DeleteRows
<1>11. CASE DestroyKeys
  <2>1. /\ td.pc = "destroy" /\ td \in TdStates /\ UNCHANGED <<relayCfg, hosted, gone, consent>>
        /\ td' = [td EXCEPT !.pc = "tombstone", !.keys = RowsOf(td.rid)]
    BY <1>11, TdRecord DEF DestroyKeys, TdPcs
  <2>2. td'.pc = "tombstone"
    BY <2>1 DEF TdStates
  <2>3. QED
    BY <1>2, <1>4, <2>1, <2>2
<1>12. CASE WriteTombstone \/ WriteJournal \/ EndWalk \/ WipeKeys \/ PruneRelayJson
  <2>1. /\ td.pc \in {"tombstone", "journal", "wipe", "subtree", "prune"}
        /\ \E pc \in {"journal", "delete", "subtree", "prune", "check"} : Step(pc)
        /\ UNCHANGED <<relayCfg, hosted, gone, consent>>
    BY <1>12 DEF WriteTombstone, WriteJournal, EndWalk, WipeKeys, PruneRelayJson
  <2>2. td'.pc \notin {"mark", "keys", "repo"}
    BY <2>1, StepKeeps DEF TdPcs
  <2>3. QED
    BY <1>2, <1>4, <2>1, <2>2
<1>13. CASE Postcheck \/ Dies
  BY <1>2, <1>4, <1>13 DEF Postcheck, Dies
<1>14. CASE \/ WalkFile \/ StoreRotationKey \/ InsertRotationKey \/ RotationDies
            \/ DiscardFile \/ DiscardDies
            \/ \E r \in Rids : BeginRotation(r) \/ DiscardRow(r)
  <2>1. UNCHANGED <<relayCfg, hosted, gone, consent, td>>
    BY <1>14 DEF WalkFile, StoreRotationKey, InsertRotationKey, RotationDies, DiscardFile,
       DiscardDies, BeginRotation, DiscardRow
  <2>2. DoomHeld'
    BY <1>1, <2>1 DEF RelayInv, DoomHeld
  <2>3. QED
    BY <1>4, <2>1, <2>2
<1>15. QED
  BY <1>5, <1>6, <1>7, <1>8, <1>9, <1>10, <1>11, <1>12, <1>13, <1>14 DEF TeardownNext

\* RelayInv is an invariant of the composed system.
LEMMA RelayInvariant == Spec => []RelayInv
<1>1. Init => RelayInv
  <2> SUFFICES ASSUME Init PROVE RelayInv
    OBVIOUS
  <2>1. PICK repo \in Repos :
          /\ relayCfg = [r \in Rids |-> IF r \in Established THEN repo ELSE NoRepo]
          /\ hosted = {[key |-> <<role, r>>, rid |-> r, repo |-> repo] :
                         role \in {"peer", "self"}, r \in Established}
    BY DEF Init, DirInit
  <2>2. \A h \in hosted : h.rid \in Established
    BY <2>1
  <2>3. \A r \in Attempts : RunKeysHeld(r)
    BY <2>1, <2>2, RidsApart DEF RunKeysHeld, Registered, Init, PairingInit, NoRun
  <2>4. \A r \in Established : EstablishedHeld(r)
    <3> SUFFICES ASSUME NEW r \in Established PROVE Registered(r) = EstablishedKeys(r)
      BY DEF EstablishedHeld
    <3>1. relayCfg[r] = repo
      BY <2>1, RidsApart
    <3>2. QED
      BY <2>1, <3>1 DEF Registered, EstablishedKeys
  <2>5. DoomHeld /\ GoneHeld
    BY DEF DoomHeld, GoneHeld, Init, TeardownInit, Idle
  <2>6. QED
    BY <2>3, <2>4, <2>5 DEF RelayInv
<1>2. PairingTypeOK /\ PairingInv /\ DirTypeOK /\ TeardownInv /\ RelayInv /\ [Next]_vars => RelayInv'
  <2> SUFFICES ASSUME PairingTypeOK, PairingInv, DirTypeOK, TeardownInv, RelayInv, [Next]_vars
               PROVE  RelayInv'
    OBVIOUS
  <2>1. CASE UNCHANGED vars
    <3>1. UNCHANGED <<relayCfg, hosted, run, committed, gone, raced, consent, td>>
      BY <2>1 DEF vars, dirVars, teardownVars, pairingVars, inviterVars
    <3>2. DoomHeld'
      BY <3>1 DEF RelayInv, DoomHeld
    <3>3. QED
      BY <3>1, <3>2, RelayIdle, RidsApart
  <2>2. CASE Next
    BY <2>2, RelayInvUnderPairing, RelayInvUnderTeardown DEF Next
  <2>3. QED
    BY <2>1, <2>2
<1>3. QED
  BY <1>1, <1>2, PairingTypes, PairingInvariant, DirTypes, TeardownInvariant, PTL DEF Spec

\* A key of the peer's and one of this side's make two.
LEMMA TwoKeys ==
    ASSUME NEW a, NEW b, a.key[1] = "peer", b.key[1] = "self"
    PROVE  Cardinality({a, b}) = 2
<1>1. a # b /\ {a, b} = {a} \cup {b}
  OBVIOUS
<1>2. IsFiniteSet({a}) /\ Cardinality({a}) = 1
  BY FS_Singleton
<1>3. Cardinality({a} \cup {b}) = IF b \in {a} THEN Cardinality({a}) ELSE Cardinality({a}) + 1
  BY <1>2, FS_AddElement, Zenon
<1>4. Cardinality({a} \cup {b}) = 2
  BY <1>1, <1>2, <1>3
<1>5. QED
  BY <1>1, <1>4

\* No cleanup of another attempt and no other relationship's teardown takes the deploy
\* keys or the repository of a relationship in use, but for the race that `raced` records.
THEOREM RelaysAreKept == Spec => []OthersKeepTheirRelay
<1>1. PairingTypeOK /\ DirTypeOK /\ TeardownInv /\ RelayInv => OthersKeepTheirRelay
  <2> SUFFICES ASSUME TeardownInv, RelayInv, NEW r \in Rids \ raced,
                      consent[r] \in Open, relayCfg[r] # NoRepo
               PROVE  relayCfg[r] \notin gone /\ Cardinality({h \in hosted : h.rid = r}) = 2
    BY DEF OthersKeepTheirRelay, Open
  <2>1. relayCfg[r] \notin gone
    BY DEF RelayInv, GoneHeld
  <2>2. CASE r \in Established
    <3> DEFINE key(role) == [key |-> <<role, r>>, rid |-> r, repo |-> relayCfg[r]]
    <3>1. Registered(r) = {key("peer"), key("self")}
      BY <2>1, <2>2 DEF RelayInv, EstablishedHeld, EstablishedKeys
    <3>2. key("peer").key[1] = "peer" /\ key("self").key[1] = "self"
      OBVIOUS
    <3> HIDE DEF key
    <3>3. Cardinality(Registered(r)) = 2
      BY <3>1, <3>2, TwoKeys
    <3>4. QED
      BY <2>1, <3>3 DEF Registered
  <2>3. CASE r \in Attempts
    <3>1. r \in committed
      BY <2>3 DEF TeardownInv, RowsHeld, Open
    <3>2. relayCfg[r] = run[r].repo
      BY <2>3 DEF RelayInv, RunKeysHeld
    <3>3. Registered(r) = {Hosted(r, PeerKey(r)), Hosted(r, SelfKey(r))}
      BY <2>1, <2>3, <3>1, <3>2 DEF RelayInv, RunKeysHeld, RunKeys
    <3>4. Hosted(r, PeerKey(r)).key[1] = "peer" /\ Hosted(r, SelfKey(r)).key[1] = "self"
      BY DEF Hosted, PeerKey, SelfKey
    <3>5. Cardinality(Registered(r)) = 2
      BY <3>3, <3>4, TwoKeys
    <3>6. QED
      BY <2>1, <3>5 DEF Registered
  <2>4. QED
    BY <2>2, <2>3 DEF Rids
<1>2. QED
  BY <1>1, PairingTypes, DirTypes, TeardownInvariant, RelayInvariant, PTL
=============================================================================
