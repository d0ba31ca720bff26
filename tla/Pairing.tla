------------------------------- MODULE Pairing -------------------------------
(***************************************************************************)
(* Pairing: invite, accept, the comparison of the phrase, commit, ingest    *)
(* (model/invites.py and the `mas pair` commands).                         *)
(*                                                                         *)
(* The inviter's human runs `mas pair commit` once to see the phrase and    *)
(* again with --i-compared-phrase; such runs overlap and die anywhere.      *)
(* Acceptance files come from the acceptor and from an agent that answers   *)
(* the same invite under a card of its own.                                *)
(***************************************************************************)
EXTENDS StateDir

CONSTANT Invites   \* invite ids

\* An acceptance: the card it is signed with, and a number for the agreement key
\* and the deploy key made for it.
Cards == {"acceptor", "other"}
Acceptances ==
    [invite : Invites, card : {"acceptor"}, n : 1..MaxCommands] \cup
    [invite : Invites, card : {"other"}, n : {0}]
NoAcceptance == [card |-> "none", n |-> 0]

InviteStates == {"none", "issued", "committed", "canceled", "expired"}
\* pairing_verifications: the card displayed last, and human_approved.
NotShown == [card |-> "none", approved |-> FALSE]

\* Where a run of `pair commit --i-compared-phrase` stands.
Pcs == {"unused", "confirm", "peer", "self", "store", "txn", "relay", "config",
        "output", "done"}

VARIABLES
    invite,     \* invites.state
    late,       \* invites past expires_at
    shown,      \* pairing_verifications
    compared,   \* invites whose displayed phrase the human found to match
    run,        \* the runs of `pair commit --i-compared-phrase`, by rid
    peer,       \* the acceptance a relationships row was made from
    committed,  \* relationships that have had a row
    deployFile, \* keys/pairing/<invite>/deploy-inviter: the run that made the key
    out,        \* relationships whose commit file was handed over
    ready,      \* the receive that has read both ready events, not yet marked active
    handed,     \* acceptance files the inviter may use
    accRow,     \* the acceptor's pairing_acceptances: number of the acceptance
    accFile,    \* the acceptor's keys/pairing/<invite>: number of the key
    accRun,     \* the acceptor's run of `pair accept`: the key not yet stored
    accRel,     \* the acceptor's relationships: number of its own key
    accMade,    \* acceptances made
    overlapped, \* history: runs during whose check another phrase was displayed
    rewritten   \* history: invites whose accepted key was removed for a new one

inviterVars  == <<invite, late, shown, compared, run, peer, committed, deployFile, out,
                  ready, overlapped>>
acceptorVars == <<handed, accRow, accFile, accRun, accRel, accMade, rewritten>>
pairingVars  == <<inviterVars, acceptorVars>>

NoRun == [pc |-> "unused"]

PairingInit ==
    /\ invite = [i \in Invites |-> "none"] /\ late = {}
    /\ shown = [i \in Invites |-> NotShown] /\ compared = {}
    /\ run = [r \in Attempts |-> NoRun]
    /\ peer = [r \in Attempts |-> NoAcceptance] /\ committed = {}
    /\ deployFile = [i \in Invites |-> 0] /\ out = {} /\ ready = NoRid /\ overlapped = {}
    /\ handed = {} /\ accRow = [i \in Invites |-> 0] /\ accFile = [i \in Invites |-> 0]
    /\ accRun = [i \in Invites |-> 0] /\ accRel = [r \in Attempts |-> 0]
    /\ accMade = 0 /\ rewritten = {}

(***************************************************************************)
(* Inviting, and looking at the phrase                                     *)
(***************************************************************************)

\* create_invite; the other agent's acceptance is there from then on.
CreateInvite(i) ==
    /\ invite[i] = "none"
    /\ invite' = [invite EXCEPT ![i] = "issued"]
    /\ handed' = handed \cup {[invite |-> i, card |-> "other", n |-> 0]}
    /\ UNCHANGED <<commands, dirVars, late, shown, compared, run, peer, committed, deployFile, out,
                   ready, overlapped, accRow, accFile, accRun, accRel, accMade, rewritten>>

Expire(i) ==
    /\ invite[i] # "none" /\ i \notin late
    /\ late' = late \cup {i}
    /\ UNCHANGED <<commands, dirVars, invite, shown, compared, run, peer, committed, deployFile, out,
                   ready, overlapped, acceptorVars>>

\* record_displayed_phrase: the run without the flag.
Display(a) ==
    LET i == a.invite
    IN  /\ invite[i] # "committed"
        /\ shown' = [shown EXCEPT ![i] = [card |-> a.card, approved |-> FALSE]]
        /\ compared' = compared \ {i}
        /\ overlapped' = overlapped \cup
              {r \in Attempts : run[r].pc = "confirm" /\ run[r].a.invite = i}
        /\ UNCHANGED <<commands, dirVars, invite, late, run, peer, committed, deployFile, out, ready,
                       acceptorVars>>

\* Both humans read the words: they match for the acceptor's own card only.
Compare(i) ==
    /\ shown[i].card = "acceptor"
    /\ compared' = compared \cup {i}
    /\ UNCHANGED <<commands, dirVars, invite, late, shown, run, peer, committed, deployFile, out,
                   ready, overlapped, acceptorVars>>

(***************************************************************************)
(* mas pair commit --i-compared-phrase                                     *)
(***************************************************************************)

Goto(r, pc) == run' = [run EXCEPT ![r].pc = pc]

\* preview_invite, on whatever acceptance file is there by now.
Preview(r, a, repo) ==
    LET i == a.invite
    IN  /\ run[r] = NoRun /\ \A s \in Attempts : s < r => run[s] # NoRun
        /\ i \in compared /\ Command
        /\ invite[i] = "issued"
        /\ IF i \in late
           THEN /\ invite' = [invite EXCEPT ![i] = "expired"]
                /\ UNCHANGED run
           ELSE /\ run' = [run EXCEPT ![r] = [pc |-> "confirm", a |-> a, repo |-> repo, self |-> 0]]
                /\ UNCHANGED invite
        /\ UNCHANGED <<dirVars, late, shown, compared, peer, committed, deployFile, out,
                       ready, overlapped, acceptorVars>>

\* The deploy key pair of an invite is made once and reused by every retry.
DeployKeyOf(i, r) == IF deployFile[i] = 0 THEN r ELSE deployFile[i]

\* confirm_verification, then the deploy key pair.
Confirm_Rewrites(r) ==
    LET i == run[r].a.invite
    IN  /\ run[r].pc = "confirm"
        /\ shown' = [shown EXCEPT ![i] = [card |-> run[r].a.card, approved |-> TRUE]]
        /\ deployFile' = [deployFile EXCEPT ![i] = r]
        /\ run' = [run EXCEPT ![r].pc = "peer", ![r].self = r]
        /\ UNCHANGED <<commands, dirVars, invite, late, compared, peer, committed, out, ready,
                       overlapped, acceptorVars>>

Confirm(r) ==
    LET i == run[r].a.invite
        k == DeployKeyOf(i, r)
    IN  /\ run[r].pc = "confirm"
        /\ IF shown[i].card = run[r].a.card
           THEN /\ shown' = [shown EXCEPT ![i].approved = TRUE]
                /\ deployFile' = [deployFile EXCEPT ![i] = k]
                /\ run' = [run EXCEPT ![r].pc = "peer", ![r].self = k]
           ELSE Goto(r, "done") /\ UNCHANGED <<shown, deployFile>>
        /\ UNCHANGED <<commands, dirVars, invite, late, compared, peer, committed, out, ready,
                       overlapped, acceptorVars>>

\* The deploy keys of a run, and what it has registered of them.
PeerKey(r) == <<"peer", run[r].a.card, run[r].a.n>>
SelfKey(r) == <<"self", run[r].self>>
Hosted(r, key) == [key |-> key, rid |-> r, repo |-> run[r].repo]
InUse(key) == \E h \in hosted : h.key = key
Registered(r) == {h \in hosted : h.rid = r}

\* register_peer_deploy_key, first the acceptor's key, then this side's.  GitHub
\* refuses a key in use anywhere; any refusal undoes what the run did so far
\* (_delete_registered_keys and the key file; a deletion that fails is reported and
\* leaves at GitHub what a death before it leaves).
Undo(r) ==
    /\ hosted' = hosted \ Registered(r)
    /\ deployFile' = [deployFile EXCEPT ![run[r].a.invite] = 0]
    /\ Goto(r, "done")

Register(r, pc, key, next) ==
    /\ run[r].pc = pc
    /\ \/ /\ ~InUse(key)
          /\ hosted' = hosted \cup {Hosted(r, key)}
          /\ Goto(r, next) /\ UNCHANGED deployFile
       \/ Undo(r)
    /\ UNCHANGED <<commands, consent, keyRows, keyFiles, relayJson, relayCfg, invite, late, shown,
                   compared, peer, committed, out, ready, overlapped, acceptorVars>>
RegisterPeer(r) == Register(r, "peer", PeerKey(r), "self")
RegisterSelf(r) == Register(r, "self", SelfKey(r), "store")

\* commit_pairing: the epoch-1 key file first.
StoreKey(r) ==
    /\ run[r].pc = "store"
    /\ keyFiles' = keyFiles \cup {<<r, 1>>}
    /\ Goto(r, "txn")
    /\ UNCHANGED <<commands, consent, keyRows, relayJson, relayCfg, hosted, invite, late, shown,
                   compared, peer, committed, deployFile, out, ready, overlapped, acceptorVars>>

\* _commit_txn: the claim, the approved card, a deploy key never registered before.
Claimable(i) == i \notin late /\ invite[i] = "issued"
Approved(r) == shown[run[r].a.invite] = [card |-> run[r].a.card, approved |-> TRUE]
Reused(r) == \E s \in Attempts : HasRow(s) /\ s # r /\ peer[s] = run[r].a

CommitTxn(r) ==
    LET i == run[r].a.invite
    IN  /\ run[r].pc = "txn"
        /\ Claimable(i) /\ Approved(r) /\ ~Reused(r)
        /\ consent' = [consent EXCEPT ![r] = "pending"]
        /\ keyRows' = keyRows \cup {<<r, 1>>}
        /\ peer' = [peer EXCEPT ![r] = run[r].a]
        /\ committed' = committed \cup {r}
        /\ invite' = [invite EXCEPT ![i] = "committed"]
        /\ Goto(r, "relay")
        /\ UNCHANGED <<commands, keyFiles, relayJson, relayCfg, hosted, late, shown, compared,
                       deployFile, out, ready, overlapped, acceptorVars>>

\* Every other outcome: rolled back, burned when the card or the deploy key is not
\* what it should be, expired when late (whatever the invite's state), and cleaned up.
CommitFails(r) ==
    LET i == run[r].a.invite
    IN  /\ run[r].pc = "txn"
        /\ ~(Claimable(i) /\ Approved(r) /\ ~Reused(r))
        /\ invite' = [invite EXCEPT ![i] =
                        IF i \in late THEN "expired"
                        ELSE IF @ = "issued" /\ shown[i].approved THEN "canceled" ELSE @]
        /\ keyFiles' = keyFiles \ {<<r, 1>>}
        /\ Undo(r)
        /\ UNCHANGED <<commands, consent, keyRows, relayJson, relayCfg, late, shown, compared, peer,
                       committed, out, ready, overlapped, acceptorVars>>

\* _write_relay_json replaces the whole file.
WriteRelayJson(r) ==
    /\ run[r].pc = "relay"
    /\ relayJson' = RelayDoc(r, run[r].repo)
    /\ Goto(r, "config")
    /\ UNCHANGED <<commands, consent, keyRows, keyFiles, relayCfg, hosted, invite, late, shown,
                   compared, peer, committed, deployFile, out, ready, overlapped, acceptorVars>>

SaveRelayConfig(r) ==
    /\ run[r].pc = "config"
    /\ relayCfg' = [relayCfg EXCEPT ![r] = run[r].repo]
    /\ Goto(r, "output")
    /\ UNCHANGED <<commands, consent, keyRows, keyFiles, relayJson, hosted, invite, late, shown,
                   compared, peer, committed, deployFile, out, ready, overlapped, acceptorVars>>

HandOver(r) ==
    /\ run[r].pc = "output"
    /\ out' = out \cup {r}
    /\ Goto(r, "done")
    /\ UNCHANGED <<commands, dirVars, invite, late, shown, compared, peer, committed, deployFile,
                   ready, overlapped, acceptorVars>>

RunDies(r) ==
    /\ run[r].pc \notin {"unused", "done"}
    /\ Goto(r, "done")
    /\ UNCHANGED <<commands, dirVars, invite, late, shown, compared, peer, committed, deployFile, out,
                   ready, overlapped, acceptorVars>>

(***************************************************************************)
(* The acceptor                                                            *)
(***************************************************************************)

\* create_acceptance replaces the row of an earlier one.
Accept(i) ==
    /\ invite[i] # "none" /\ i \notin late
    /\ accRun[i] = 0 /\ Command
    /\ accMade' = accMade + 1
    /\ accRow' = [accRow EXCEPT ![i] = accMade + 1]
    /\ accRun' = [accRun EXCEPT ![i] = accMade + 1]
    /\ UNCHANGED <<dirVars, inviterVars, handed, accFile, accRel, rewritten>>

\* Then the key files and, unless the process dies first, the acceptance file.  A key
\* file that is there already is an OSError like any other: directory and row are removed.
StoreAcceptance_Overwrites(i) ==
    /\ accRun[i] # 0
    /\ accFile' = [accFile EXCEPT ![i] = accRun[i]]
    /\ handed' = handed \cup {[invite |-> i, card |-> "acceptor", n |-> accRun[i]]}
    /\ accRun' = [accRun EXCEPT ![i] = 0]
    /\ UNCHANGED <<commands, dirVars, inviterVars, accRow, accRel, accMade, rewritten>>

StoreAcceptance(i) ==
    /\ accRun[i] # 0
    /\ \/ /\ accFile[i] = 0
          /\ accFile' = [accFile EXCEPT ![i] = accRun[i]]
          /\ handed' \in
                {handed, handed \cup {[invite |-> i, card |-> "acceptor", n |-> accRun[i]]}}
          /\ UNCHANGED <<accRow, rewritten>>
       \/ /\ accFile' = [accFile EXCEPT ![i] = 0]
          /\ accRow' = [accRow EXCEPT ![i] = 0]
          /\ rewritten' =
                rewritten \cup {a.invite : a \in {h \in handed : h.invite = i /\ h.card = "acceptor"}}
          /\ UNCHANGED handed
    /\ accRun' = [accRun EXCEPT ![i] = 0]
    /\ UNCHANGED <<commands, dirVars, inviterVars, accRel, accMade>>

AcceptDies(i) ==
    /\ accRun[i] # 0
    /\ accRun' = [accRun EXCEPT ![i] = 0]
    /\ UNCHANGED <<commands, dirVars, inviterVars, handed, accRow, accFile, accRel, accMade, rewritten>>

\* cmd_pair_ingest: the acceptance row and the stored key of the invite, whichever
\* acceptance the commit answers.
Ingestable(r) ==
    LET i == peer[r].invite
    IN  r \in out /\ peer[r].card = "acceptor" /\ accRow[i] # 0 /\ accFile[i] # 0

\* ingest_commit
Ingest(r) ==
    /\ Ingestable(r) /\ accRel[r] = 0
    /\ accRel' = [accRel EXCEPT ![r] = accFile[peer[r].invite]]
    /\ UNCHANGED <<commands, dirVars, inviterVars, handed, accRow, accFile, accRun, accMade, rewritten>>

\* _maybe_mark_active_after_ready reads the row and both ready events, then
\* mark_active moves it from pending only.
ReadReady(r) ==
    /\ ready = NoRid
    /\ consent[r] \in {"pending", "revoked"}
    /\ r \in Attempts /\ relayCfg[r] # NoRepo /\ accRel[r] # 0
    /\ ready' = r
    /\ UNCHANGED <<commands, dirVars, invite, late, shown, compared, run, peer, committed, deployFile,
                   out, overlapped, acceptorVars>>

Activates(r) == consent[r] = "pending"

MarkActive ==
    /\ ready # NoRid
    /\ consent' = IF Activates(ready) THEN [consent EXCEPT ![ready] = "active"] ELSE consent
    /\ ready' = NoRid
    /\ UNCHANGED <<commands, keyRows, keyFiles, relayJson, relayCfg, hosted, invite, late, shown,
                   compared, run, peer, committed, deployFile, out, overlapped, acceptorVars>>

PairingNext ==
    \/ \E i \in Invites :
          \/ CreateInvite(i) \/ Expire(i) \/ Compare(i)
          \/ Accept(i) \/ StoreAcceptance(i) \/ AcceptDies(i)
    \/ \E a \in handed : Display(a) \/ \E r \in Attempts, repo \in Repos : Preview(r, a, repo)
    \/ \E r \in Attempts :
          \/ Confirm(r) \/ RegisterPeer(r) \/ RegisterSelf(r) \/ StoreKey(r)
          \/ CommitTxn(r) \/ CommitFails(r) \/ WriteRelayJson(r) \/ SaveRelayConfig(r)
          \/ HandOver(r) \/ RunDies(r) \/ Ingest(r) \/ ReadReady(r)
    \/ MarkActive

(***************************************************************************)
(* Properties                                                              *)
(***************************************************************************)

\* An invite pairs at most one relationship, and with the agent whose phrase the
\* human compared: a second commit, a retry after a crash or an acceptance swapped
\* after the comparison never gets through.  The one gap: the phrase of the swapped
\* card was displayed while the run that confirms it was already under way.
PairedIsCompared ==
    /\ \A r, s \in committed : peer[r].invite = peer[s].invite => r = s
    /\ \A r \in committed \ overlapped : peer[r].card = "acceptor"

\* The key the inviter seals to is the acceptor's key of the relationship and still on
\* the acceptor's disk, unless the invite was accepted again over stored keys: deaths
\* between the row, the files and the hand-over never mix two acceptances up.
SealedKeyIsHeld ==
    \A r \in committed :
        accRel[r] # 0 /\ peer[r].invite \notin rewritten =>
            accRel[r] = peer[r].n /\ accFile[peer[r].invite] = accRel[r]
=============================================================================
