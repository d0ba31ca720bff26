------------------------------ MODULE StateDir ------------------------------
(***************************************************************************)
(* The state directory of the inviting installation and the relay          *)
(* repositories it uses: what pairing writes and teardown erases.  Modules  *)
(* Pairing and Teardown change it, module Lifecycle composes them.         *)
(***************************************************************************)
EXTENDS Integers, FiniteSets

CONSTANTS
    Established,  \* relationships from before: numbers below 1
    MaxAttempts,  \* bound: runs of `mas pair commit`, each with its own id
    MaxCommands,  \* bound: commands that change state, of all kinds together
    Repos         \* relay repositories

ASSUME StateDirAssumption ==
    /\ MaxAttempts \in Nat /\ MaxCommands \in Nat
    /\ Established \subseteq Int /\ \A r \in Established : r < 1
    /\ \A repo \in Repos : repo # "none"

Attempts == 1..MaxAttempts
\* A relationship id; a commit attempt mints its own.
Rids == Established \cup Attempts
NoRid == MaxAttempts + 1
NoRepo == "none"

\* Own key files: epoch 1 from pairing, epoch 2 from a rotation.
KeyNames == Rids \X {1, 2}

VARIABLES
    consent,    \* relationships.consent_state, "none" without a row
    keyRows,    \* rows of key_epochs with a private key of this side
    keyFiles,   \* private key files on disk
    relayJson,  \* relay.json: whose deploy keys it lists, and the repository
    relayCfg,   \* relay_config.repo_url
    hosted,     \* deploy keys that GitHub holds: [key, rid of the title, repo]
    commands    \* number of commands started

dirVars == <<consent, keyRows, keyFiles, relayJson, relayCfg, hosted>>

Command ==
    /\ commands < MaxCommands
    /\ commands' = commands + 1

HasRow(r) == consent[r] # "none"
RelayDoc(rid, repo) == [rid |-> rid, repo |-> repo]
NoDoc == RelayDoc(NoRid, NoRepo)

\* The relationships whose relay_config names a repository.
Claimants(repo) == {r \in Rids : relayCfg[r] = repo}

\* The established ones are active, with their keys and a shared repository.
DirInit ==
    /\ consent = [r \in Rids |-> IF r \in Established THEN "active" ELSE "none"]
    /\ commands = 0
    /\ keyRows = Established \X {1} /\ keyFiles = Established \X {1}
    /\ \E repo \in Repos :
          /\ relayCfg = [r \in Rids |-> IF r \in Established THEN repo ELSE NoRepo]
          /\ hosted = {[key |-> <<role, r>>, rid |-> r, repo |-> repo] :
                         role \in {"peer", "self"}, r \in Established}
          /\ relayJson \in {RelayDoc(r, repo) : r \in Established} \cup
                           (IF Established = {} THEN {NoDoc} ELSE {})
=============================================================================
