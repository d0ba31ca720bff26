------------------------------ MODULE Teardown ------------------------------
(***************************************************************************)
(* `mas revoke`: the teardown of one relationship in its order (teardown.py) *)
(* with a crash after any step and a second run, while a rotation of the    *)
(* same relationship stores a new key file and then its row, and another   *)
(* process discards a candidate: its row, and then its file.               *)
(***************************************************************************)
EXTENDS StateDir

\* _RelayRefs: are there own deploy keys to revoke, the repository to delete, and
\* what to keep of relay.json.
Refs == [own : BOOLEAN, repo : Repos \cup {NoRepo},
         keep : [rid : Rids \cup {NoRid}, repo : Repos \cup {NoRepo}], present : BOOLEAN]
NoRefs == [own |-> FALSE]
Idle == [pc |-> "idle"]

VARIABLES
    td,        \* the teardown under way: its step, relationship, refs, captured keys
    tombs,     \* relationships with a tombstone
    journal,   \* teardown-journal, by relationship
    hookLog,   \* teardown_hook_log
    gone,      \* repositories deleted
    rotating,  \* begin_rotation under way: its step and relationship
    discarding,  \* the relationship whose discarded candidate still has its file
    orphans,     \* history: key files that a death left without a row
    clobbered,   \* history: key files deleted after a rotation had stored them anew
    erased,      \* history: relationships whose postcheck was clean
    walked       \* history: relationships whose journal a walk removed

rotationVars == <<rotating, discarding, orphans, clobbered>>
doneVars == <<erased, walked>>
teardownVars == <<td, tombs, journal, hookLog, gone, rotationVars, doneVars>>

NotRotating == [pc |-> "idle", rid |-> NoRid]

TeardownInit ==
    /\ td = Idle /\ tombs = {} /\ journal = [r \in Rids |-> NoRefs] /\ hookLog = {}
    /\ gone = {} /\ rotating = NotRotating /\ discarding = NoRid
    /\ orphans = {} /\ clobbered = {} /\ erased = {} /\ walked = {}

Step(pc) == td' = [td EXCEPT !.pc = pc]
FilesOf(r) == {k \in keyFiles : k[1] = r}
RowsOf(r) == {k \in keyRows : k[1] = r}

(***************************************************************************)
(* The steps                                                               *)
(***************************************************************************)

\* _discover_relay_refs: own keys by their title; a repository that nobody else's
\* relay_config names, or that nobody's names when there is only one relationship.
Deletable_Shared(r, repo) == r \in Claimants(repo)
Deletable(r, repo) ==
    \/ Claimants(repo) = {r}
    \/ Claimants(repo) = {} /\ Cardinality({s \in Rids : HasRow(s)}) = 1

Discover(r) ==
    LET own  == relayJson.rid = r
        repo == IF relayJson.repo # NoRepo /\ Deletable(r, relayJson.repo)
                THEN relayJson.repo ELSE NoRepo
    IN  [own |-> own, repo |-> repo, present |-> relayJson # NoDoc,
         keep |-> RelayDoc(IF own THEN NoRid ELSE relayJson.rid,
                           IF repo # NoRepo THEN NoRepo ELSE relayJson.repo)]

Start(r) ==
    /\ td = Idle /\ HasRow(r) /\ Command
    /\ td' = [pc |-> "mark", rid |-> r, refs |-> Discover(r), keys |-> {}, again |-> FALSE]
    /\ UNCHANGED <<dirVars, tombs, journal, hookLog, gone, rotationVars, doneVars>>

MarkRevoked ==
    /\ td.pc = "mark"
    /\ consent' = IF HasRow(td.rid) THEN [consent EXCEPT ![td.rid] = "revoked"] ELSE consent
    /\ Step("keys")
    /\ UNCHANGED <<commands, keyRows, keyFiles, relayJson, relayCfg, hosted, tombs, journal, hookLog,
                   gone, rotationVars, doneVars>>

\* A hook that is recorded is skipped.  It is recorded once it returns, whether it
\* reached GitHub or says "manual"; the process may die in between.
Recorded(hook) ==
    \/ hookLog' = hookLog \cup {<<td.rid, hook>>}
    \/ UNCHANGED hookLog

\* Both deploy keys carry the same title, which is the hook's target: the second is
\* taken for done.
RevokeKeys ==
    LET due == td.refs.own /\ <<td.rid, "keys">> \notin hookLog
    IN  /\ td.pc = "keys"
        /\ IF due
           THEN /\ hosted' \in {hosted, {h \in hosted : ~(h.rid = td.rid /\ h.key[1] = "peer")}}
                /\ Recorded("keys")
           ELSE UNCHANGED <<hosted, hookLog>>
        /\ IF due /\ hookLog' = hookLog THEN td' = Idle ELSE Step("repo")
        /\ UNCHANGED <<commands, consent, keyRows, keyFiles, relayJson, relayCfg, tombs, journal, gone,
                       rotationVars, doneVars>>

DeleteRepo ==
    LET due == td.refs.repo # NoRepo /\ <<td.rid, "repo">> \notin hookLog
    IN  /\ td.pc = "repo"
        /\ IF due
           THEN /\ gone' \in {gone, gone \cup {td.refs.repo}}
                /\ hosted' = {h \in hosted : h.repo \notin gone'}
                /\ Recorded("repo")
           ELSE UNCHANGED <<gone, hosted, hookLog>>
        /\ IF due /\ hookLog' = hookLog THEN td' = Idle ELSE Step("destroy")
        /\ UNCHANGED <<commands, consent, keyRows, keyFiles, relayJson, relayCfg, tombs, journal,
                       rotationVars, doneVars>>

\* The private keys go before anything else is deleted.
DestroyKeys ==
    /\ td.pc = "destroy"
    /\ keyFiles' = keyFiles \ RowsOf(td.rid)
    /\ td' = [td EXCEPT !.pc = "tombstone", !.keys = RowsOf(td.rid)]
    /\ UNCHANGED <<commands, consent, keyRows, relayJson, relayCfg, hosted, tombs, journal, hookLog,
                   gone, rotationVars, doneVars>>

WriteTombstone_NoJournal ==
    /\ td.pc = "tombstone"
    /\ tombs' = tombs \cup {td.rid}
    /\ Step("delete")
    /\ UNCHANGED <<commands, dirVars, journal, hookLog, gone, rotationVars, doneVars>>

WriteTombstone ==
    /\ td.pc = "tombstone"
    /\ tombs' = tombs \cup {td.rid}
    /\ Step("journal")
    /\ UNCHANGED <<commands, dirVars, journal, hookLog, gone, rotationVars, doneVars>>

WriteJournal ==
    /\ td.pc = "journal"
    /\ journal' = [journal EXCEPT ![td.rid] = td.refs]
    /\ walked' = walked \ {td.rid}
    /\ Step("delete")
    /\ UNCHANGED <<commands, dirVars, tombs, hookLog, gone, rotationVars, erased>>

\* The delete transaction, which first destroys the files of key rows that were not
\* there in step 3; a name it captured there may have a new file by now, which stays.
\* A crash inside it keeps the rows.
Recaptured_None(r) == {}
Recaptured(r) == RowsOf(r) \ td.keys

DeleteRows ==
    LET r == td.rid
    IN  /\ td.pc = "delete"
        /\ keyFiles' = keyFiles \ Recaptured(r)
        /\ \/ /\ keyRows' = keyRows \ RowsOf(r)
              /\ consent' = [consent EXCEPT ![r] = "none"]
              /\ relayCfg' = [relayCfg EXCEPT ![r] = NoRepo]
              /\ hookLog' = {h \in hookLog : h[1] # r}
              /\ orphans' = orphans \cup (RowsOf(r) \cap td.keys \cap keyFiles)
              /\ Step("wipe")
           \/ td' = Idle /\ UNCHANGED <<keyRows, consent, relayCfg, hookLog, orphans>>
        /\ UNCHANGED <<commands, relayJson, hosted, tombs, journal, gone, rotating, discarding,
                       clobbered, doneVars>>

\* A journal mentions a relationship when it lists a deploy key with its title.
Mentions(refs, s, r) ==
    refs # NoRefs /\ IF refs.own THEN s = r ELSE refs.keep.rid = r

\* _wipe_relationship_files: the walk removes every file that mentions the id, one
\* after the other: journals, its own among them, relay.json, and the key files of
\* rotations, which are named after it.  A file that cannot be removed is passed over.
WalkFile ==
    LET r == td.rid
    IN  /\ td.pc = "wipe"
        /\ \/ \E s \in Rids :
                 /\ Mentions(journal[s], s, r)
                 /\ journal' = [journal EXCEPT ![s] = NoRefs]
                 /\ walked' = walked \cup {s}
                 /\ UNCHANGED <<relayJson, keyFiles>>
           \/ /\ relayJson.rid = r
              /\ relayJson' = NoDoc
              /\ UNCHANGED <<journal, walked, keyFiles>>
           \/ /\ <<r, 2>> \in keyFiles
              /\ keyFiles' = keyFiles \ {<<r, 2>>}
              /\ UNCHANGED <<journal, walked, relayJson>>
        /\ UNCHANGED <<commands, consent, keyRows, relayCfg, hosted, td, tombs, hookLog, gone,
                       rotationVars, erased>>

EndWalk ==
    /\ td.pc = "wipe"
    /\ Step("subtree")
    /\ UNCHANGED <<commands, dirVars, tombs, journal, hookLog, gone, rotationVars, doneVars>>

\* _secure_wipe_subtree: keys/<rid>, the directory of the key from pairing.  A key that
\* cannot be destroyed is an error, and ends the run as a death does.
WipeKeys ==
    /\ td.pc = "subtree"
    /\ keyFiles' = keyFiles \ {<<td.rid, 1>>}
    /\ Step("prune")
    /\ UNCHANGED <<commands, consent, keyRows, relayJson, relayCfg, hosted, tombs, journal, hookLog,
                   gone, rotationVars, doneVars>>

\* _prune_relay_json: what was to be kept at discovery is written back.
PruneRelayJson ==
    /\ td.pc = "prune"
    /\ relayJson' = IF td.refs.present THEN td.refs.keep ELSE relayJson
    /\ Step("check")
    /\ UNCHANGED <<commands, consent, keyRows, keyFiles, relayCfg, hosted, tombs, journal, hookLog,
                   gone, rotationVars, doneVars>>

\* postcheck_scan; a clean first run drops the journal.
Postcheck ==
    LET r     == td.rid
        clean == /\ FilesOf(r) = {} /\ relayJson.rid # r
                 /\ \A s \in Rids : ~Mentions(journal[s], s, r)
    IN  /\ td.pc = "check"
        /\ journal' = IF clean /\ ~td.again THEN [journal EXCEPT ![r] = NoRefs] ELSE journal
        /\ erased' = IF clean THEN erased \cup {r} ELSE erased
        /\ td' = Idle
        /\ UNCHANGED <<commands, dirVars, tombs, hookLog, gone, rotationVars, walked>>

Dies ==
    /\ td # Idle
    /\ td' = Idle
    /\ UNCHANGED <<commands, dirVars, tombs, journal, hookLog, gone, rotationVars, doneVars>>

\* teardown_relationship called again: without a row, the tombstone and the journal
\* tell what is left to do.
Resume(r) ==
    /\ td = Idle /\ ~HasRow(r) /\ r \in tombs /\ Command
    /\ LET refs == IF journal[r] # NoRefs THEN journal[r] ELSE Discover(r)
       IN  td' = [pc |-> "wipe", rid |-> r, refs |-> refs, keys |-> {}, again |-> TRUE]
    /\ UNCHANGED <<dirVars, tombs, journal, hookLog, gone, rotationVars, doneVars>>

(***************************************************************************)
(* A rotation of the relationship under way                                *)
(***************************************************************************)

OwnedByRotation(r) == rotating = [pc |-> "stored", rid |-> r]

\* begin_rotation: its checks, without a lock; the key file, in the place of an orphan
\* if there is one; the rows.  When the insert fails, as it does without the
\* relationship, the file is deleted.
BeginRotation(r) ==
    /\ rotating = NotRotating /\ Command
    /\ HasRow(r) /\ <<r, 2>> \notin keyRows
    /\ rotating' = [pc |-> "begun", rid |-> r]
    /\ UNCHANGED <<dirVars, td, tombs, journal, hookLog, gone, discarding, orphans, clobbered,
                   doneVars>>

StoreRotationKey ==
    LET k == <<rotating.rid, 2>>
    IN  /\ rotating.pc = "begun"
        /\ keyFiles' = keyFiles \cup {k}
        /\ orphans' = orphans \ {k} /\ clobbered' = clobbered \ {k}
        /\ rotating' = [rotating EXCEPT !.pc = "stored"]
        /\ UNCHANGED <<commands, consent, keyRows, relayJson, relayCfg, hosted, td, tombs, journal,
                       hookLog, gone, discarding, doneVars>>

InsertRotationKey ==
    LET k == <<rotating.rid, 2>>
    IN  /\ rotating.pc = "stored"
        /\ \/ HasRow(k[1]) /\ keyRows' = keyRows \cup {k} /\ UNCHANGED keyFiles
           \/ keyFiles' = keyFiles \ {k} /\ UNCHANGED keyRows
        /\ rotating' = NotRotating
        /\ UNCHANGED <<commands, consent, relayJson, relayCfg, hosted, td, tombs, journal, hookLog,
                       gone, discarding, orphans, clobbered, doneVars>>

RotationDies ==
    /\ rotating # NotRotating
    /\ orphans' = IF rotating.pc = "stored" THEN orphans \cup {<<rotating.rid, 2>>} ELSE orphans
    /\ rotating' = NotRotating
    /\ UNCHANGED <<commands, dirVars, td, tombs, journal, hookLog, gone, discarding, clobbered,
                   doneVars>>

\* sweep and resolve_conflict discard a candidate: the row in a transaction, and after
\* it the file, which a new begin_rotation of the epoch may have stored meanwhile.
DiscardRow_FileFirst(r) ==
    /\ discarding = NoRid /\ <<r, 2>> \in keyRows /\ Command
    /\ keyFiles' = keyFiles \ {<<r, 2>>}
    /\ discarding' = r
    /\ UNCHANGED <<consent, keyRows, relayJson, relayCfg, hosted, td, tombs, journal,
                   hookLog, gone, rotating, orphans, clobbered, doneVars>>

DiscardRow(r) ==
    /\ discarding = NoRid /\ <<r, 2>> \in keyRows /\ Command
    /\ keyRows' = keyRows \ {<<r, 2>>}
    /\ discarding' = r
    /\ UNCHANGED <<consent, keyFiles, relayJson, relayCfg, hosted, td, tombs, journal,
                   hookLog, gone, rotating, orphans, clobbered, doneVars>>

DiscardFile ==
    LET k == <<discarding, 2>>
    IN  /\ discarding # NoRid
        /\ keyFiles' = keyFiles \ {k}
        /\ clobbered' = IF k \in keyRows \/ OwnedByRotation(discarding)
                        THEN clobbered \cup {k} ELSE clobbered
        /\ discarding' = NoRid
        /\ UNCHANGED <<commands, consent, keyRows, relayJson, relayCfg, hosted, td, tombs, journal,
                       hookLog, gone, rotating, orphans, doneVars>>

\* So does a file that cannot be deleted: nobody looks at the result.
DiscardDies ==
    /\ discarding # NoRid
    /\ orphans' = orphans \cup {<<discarding, 2>>}
    /\ discarding' = NoRid
    /\ UNCHANGED <<commands, dirVars, td, tombs, journal, hookLog, gone, rotating, clobbered,
                   doneVars>>

TeardownNext ==
    \/ \E r \in Rids : Start(r) \/ Resume(r) \/ BeginRotation(r) \/ DiscardRow(r)
    \/ MarkRevoked \/ RevokeKeys \/ DeleteRepo \/ DestroyKeys
    \/ WriteTombstone \/ WriteJournal \/ DeleteRows
    \/ WalkFile \/ EndWalk \/ WipeKeys \/ PruneRelayJson \/ Postcheck \/ Dies
    \/ StoreRotationKey \/ InsertRotationKey \/ RotationDies
    \/ DiscardFile \/ DiscardDies
=============================================================================
