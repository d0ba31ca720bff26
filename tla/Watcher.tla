------------------------------ MODULE Watcher ------------------------------
(***************************************************************************)
(* The poll loop of one relationship over the git relay.  The receive slot *)
(* is a branch of the relay repository: the peer adds objects under        *)
(* incoming/, this agent removes the ones it has consumed.  The watcher    *)
(* remembers one commit, the last head at which it believes everything was *)
(* processed, and lists what the branch added since that commit            *)
(* (watcher.py; transports/github.py).                                     *)
(*                                                                         *)
(* What becomes of one object is module Receive; here an object is judged  *)
(* (accepted or quarantined: terminal, consumed) or held (retry_pending:   *)
(* left on the relay).  Consumes are queued in SQLite, replayed on the tip *)
(* of the branch by a push that fails when the branch has moved, and       *)
(* marked done only afterwards.                                            *)
(***************************************************************************)
EXTENDS Integers

CONSTANTS
    Names,            \* relay object names; their order is the listing's order
    FetchMax,         \* FETCH_MAX_OBJECTS: objects streamed by one poll
    PushMaxAttempts,  \* PUSH_MAX_ATTEMPTS
    MaxPushes,        \* bound: commits the peer makes
    MaxFaults         \* bound: failed calls, crashes, spent time budgets, lost state files

ASSUME WatcherAssumption ==
    /\ Names \subseteq Nat
    /\ FetchMax \in Nat \ {0}
    /\ PushMaxAttempts \in Nat \ {0}
    /\ MaxPushes \in Nat
    /\ MaxFaults \in Nat

VARIABLES
    tree,        \* incoming/ at the tip of the relay branch
    head,        \* the tip commit, numbered; 0 is the branch that does not exist yet
    checkpoint,  \* last_successful_head
    base,        \* incoming/ at the checkpoint commit
    saved,       \* whether the saved retry_pending is positive
    queued,      \* names with a consume in transport_mutations, state 'queued'
    pc,          \* where the poll is
    listed,      \* incoming/ at the commit this poll fetched
    todo,        \* listed names the stream has not reached
    streamed,    \* objects_streamed
    held,        \* whether this poll left an object as retry_pending
    stopped,     \* whether the stream was truncated
    tip,         \* the commit and tree the push attempt was built on
    attempt,     \* push attempts made by this flush
    judged,      \* history: objects that reached a terminal outcome
    raced,       \* history: objects that arrived after a poll's fetch and before its end
    pushes, faults

relayVars == <<tree, head>>
savedVars == <<checkpoint, base, saved>>
pollVars  == <<listed, todo, streamed, held, stopped>>
pushVars  == <<tip, attempt>>
bounds    == <<pushes, faults>>
vars == <<relayVars, savedVars, queued, pc, pollVars, pushVars, judged, raced, bounds>>

AfterFetch == {"stream", "flush", "push", "mark", "head"}

Init ==
    /\ tree = {} /\ head = 0
    /\ checkpoint = 0 /\ base = {} /\ saved = FALSE
    /\ queued = {}
    /\ pc = "idle"
    /\ listed = {} /\ todo = {} /\ streamed = 0 /\ held = FALSE /\ stopped = FALSE
    /\ tip = [head |-> 0, tree |-> {}] /\ attempt = 0
    /\ judged = {} /\ raced = {}
    /\ pushes = 0 /\ faults = 0

Fault == faults < MaxFaults /\ faults' = faults + 1

(***************************************************************************)
(* The peer                                                                *)
(***************************************************************************)

\* The peer's own push adds an object.  The same name may come back after it
\* was consumed: a peer that crashed between its push and its "done" replays
\* the upload.
PeerPush(n) ==
    /\ pushes < MaxPushes
    /\ n \notin tree
    /\ tree' = tree \cup {n}
    /\ head' = head + 1
    /\ raced' = IF pc \in AfterFetch THEN raced \cup {n} ELSE raced
    /\ pushes' = pushes + 1
    /\ UNCHANGED <<savedVars, queued, pc, pollVars, pushVars, judged, faults>>

(***************************************************************************)
(* The receive phase                                                       *)
(***************************************************************************)

\* needs_work
NeedsWork ==
    \/ head # checkpoint
    \/ saved
    \/ queued # {}

\* A poll that is throttled, backing off or without work changes nothing here.
StartPoll ==
    /\ pc = "idle"
    /\ NeedsWork
    /\ pc' = "fetch"
    /\ UNCHANGED <<relayVars, savedVars, queued, pollVars, pushVars, judged, raced, bounds>>

\* git fetch, then the names the fetched commit adds to the checkpoint's tree.
Listing == tree \ base

Fetch ==
    /\ pc = "fetch"
    /\ listed' = tree
    /\ todo' = Listing
    /\ streamed' = 0 /\ held' = FALSE /\ stopped' = FALSE
    /\ raced' = raced \cap base
    /\ pc' = "stream"
    /\ UNCHANGED <<relayVars, savedVars, queued, pushVars, judged, bounds>>

\* The next object the stream delivers: in name order, while the cap allows.
Visitable(n) ==
    /\ pc = "stream"
    /\ streamed < FetchMax
    /\ n \in todo
    /\ \A m \in todo : n <= m

Advance(n) ==
    /\ todo' = todo \ {n}
    /\ streamed' = streamed + 1

\* receive_fn answers accepted or quarantined (or the object is over the size
\* cap): the consume is queued.
Judge(n) ==
    /\ Visitable(n)
    /\ Advance(n)
    /\ judged' = judged \cup {n}
    /\ queued' = queued \cup {n}
    /\ UNCHANGED <<relayVars, savedVars, pc, listed, held, stopped, pushVars, raced, bounds>>

\* receive_fn answers retry_pending: not consumed.
Hold(n) ==
    /\ Visitable(n)
    /\ Advance(n)
    /\ held' = TRUE
    /\ UNCHANGED <<relayVars, savedVars, queued, pc, listed, stopped, pushVars, judged, raced, bounds>>

\* The object is settled locally and queueing its consume fails, or the
\* process dies in between.
JudgeThenFail(n) ==
    /\ Visitable(n)
    /\ Fault
    /\ judged' = judged \cup {n}
    /\ pc' = "idle"
    /\ UNCHANGED <<relayVars, savedVars, queued, pollVars, pushVars, raced, pushes>>

\* The aggregate caps: more objects are listed than one poll may stream.
CapReached == todo # {} /\ streamed >= FetchMax

Truncate ==
    /\ pc = "stream"
    /\ CapReached
    /\ stopped' = TRUE
    /\ pc' = "flush"
    /\ attempt' = 0
    /\ UNCHANGED <<relayVars, savedVars, queued, listed, todo, streamed, held, tip, judged, raced, bounds>>

\* The time budget is spent: visit() refuses the next object.
BudgetHit ==
    /\ pc = "stream"
    /\ todo # {}
    /\ Fault
    /\ stopped' = TRUE
    /\ pc' = "flush"
    /\ attempt' = 0
    /\ UNCHANGED <<relayVars, savedVars, queued, listed, todo, streamed, held, tip, judged, raced, pushes>>

EndStream ==
    /\ pc = "stream"
    /\ todo = {}
    /\ pc' = "flush"
    /\ attempt' = 0
    /\ UNCHANGED <<relayVars, savedVars, queued, pollVars, tip, judged, raced, bounds>>

(***************************************************************************)
(* The push phase                                                          *)
(***************************************************************************)

\* flush() finds nothing queued, or the soft push interval has not passed; a
\* retry after a rejected push asks neither again.
SkipFlush ==
    /\ pc = "flush"
    /\ attempt = 0
    /\ pc' = "head"
    /\ UNCHANGED <<relayVars, savedVars, queued, pollVars, pushVars, judged, raced, bounds>>

\* Mutant: a replay that changes nothing returns before it is marked done.
Replay_NoopUnmarked ==
    /\ pc = "flush"
    /\ queued # {}
    /\ tip' = [head |-> head, tree |-> tree]
    /\ attempt' = attempt + 1
    /\ pc' = IF queued \cap tree = {} THEN "head" ELSE "push"
    /\ UNCHANGED <<relayVars, savedVars, queued, pollVars, judged, raced, bounds>>

\* Reset the mirror to the tip and replay the queue on it.  A replay that
\* changes nothing is marked done without a push.
Replay ==
    /\ pc = "flush"
    /\ queued # {}
    /\ tip' = [head |-> head, tree |-> tree]
    /\ attempt' = attempt + 1
    /\ pc' = IF queued \cap tree = {} THEN "mark" ELSE "push"
    /\ UNCHANGED <<relayVars, savedVars, queued, pollVars, judged, raced, bounds>>

\* Mutant: git push --force.
PushLands_Forced ==
    /\ pc = "push"
    /\ tree' = tip.tree \ queued
    /\ head' = head + 1
    /\ pc' = "mark"
    /\ UNCHANGED <<savedVars, queued, pollVars, pushVars, judged, raced, bounds>>

\* The branch still is where the commit was built: the push lands.
PushLands ==
    /\ pc = "push"
    /\ tip.head = head
    /\ tree' = tip.tree \ queued
    /\ head' = head + 1
    /\ pc' = "mark"
    /\ UNCHANGED <<savedVars, queued, pollVars, pushVars, judged, raced, bounds>>

\* Non-fast-forward: refetch and replay again, up to PUSH_MAX_ATTEMPTS; the last
\* rejection ends the poll with the queue as it was.
PushRejected ==
    /\ pc = "push"
    /\ tip.head # head
    /\ pc' = IF attempt < PushMaxAttempts THEN "flush" ELSE "idle"
    /\ UNCHANGED <<relayVars, savedVars, queued, pollVars, pushVars, judged, raced, bounds>>

\* mark_mutations_done, after the push.
Mark ==
    /\ pc = "mark"
    /\ queued' = {}
    /\ pc' = "head"
    /\ UNCHANGED <<relayVars, savedVars, pollVars, pushVars, judged, raced, bounds>>

(***************************************************************************)
(* The checkpoint decision                                                 *)
(***************************************************************************)

\* Mutants: a truncated scan, or one that left an object behind, is checkpointed.
MayCheckpoint_Truncated == ~held /\ queued = {}
MayCheckpoint_Held == ~stopped /\ queued = {}

\* A truncated scan, a held object or a queued consume keep the checkpoint.
MayCheckpoint ==
    /\ ~stopped
    /\ ~held
    /\ queued = {}

\* The head is read again and becomes the checkpoint.
Checkpoint ==
    /\ pc = "head"
    /\ MayCheckpoint
    /\ checkpoint' = head
    /\ base' = tree
    /\ saved' = FALSE
    /\ pc' = "idle"
    /\ UNCHANGED <<relayVars, queued, pollVars, pushVars, judged, raced, bounds>>

KeepCheckpoint ==
    /\ pc = "head"
    /\ ~MayCheckpoint
    /\ saved' = held
    /\ pc' = "idle"
    /\ UNCHANGED <<relayVars, checkpoint, base, queued, pollVars, pushVars, judged, raced, bounds>>

(***************************************************************************)
(* Failures                                                                *)
(***************************************************************************)

\* A transport call raises, receive_fn raises, or the process dies: the poll is
\* over; what was saved and what was queued stay.
Abort ==
    /\ pc # "idle"
    /\ Fault
    /\ pc' = "idle"
    /\ UNCHANGED <<relayVars, savedVars, queued, pollVars, pushVars, judged, raced, pushes>>

\* load_watcher_state: a missing or corrupt state file reads as the default
\* state.
LoseState ==
    /\ pc = "idle"
    /\ Fault
    /\ checkpoint' = 0 /\ base' = {} /\ saved' = FALSE
    /\ UNCHANGED <<relayVars, queued, pc, pollVars, pushVars, judged, raced, pushes>>

Next ==
    \/ \E n \in Names : PeerPush(n) \/ Judge(n) \/ Hold(n) \/ JudgeThenFail(n)
    \/ StartPoll \/ Fetch \/ Truncate \/ BudgetHit \/ EndStream
    \/ SkipFlush \/ Replay \/ PushLands \/ PushRejected \/ Mark
    \/ Checkpoint \/ KeepCheckpoint
    \/ Abort \/ LoseState

Spec == Init /\ [][Next]_vars

\* The scheduler of the host keeps polling, and a poll runs on.  A held object
\* is settled in the end by the receiver (EveryObjectSettles of Receive), and the
\* soft push interval has passed at some later poll, so it does not defer every
\* flush.  Failures and spent budgets are bounded by MaxFaults.
Fairness ==
    /\ WF_vars(StartPoll) /\ WF_vars(Fetch) /\ WF_vars(Truncate) /\ WF_vars(EndStream)
    /\ WF_vars(PushLands) /\ WF_vars(PushRejected) /\ WF_vars(Mark)
    /\ WF_vars(Checkpoint) /\ WF_vars(KeepCheckpoint)
    /\ SF_vars(Replay)
    /\ WF_vars(\E n \in Names : Judge(n) \/ Hold(n))
    /\ \A n \in Names : SF_vars(Judge(n))
    /\ WF_vars(SkipFlush)

FairSpec == Spec /\ Fairness

(***************************************************************************)
(* Properties                                                              *)
(***************************************************************************)

\* The types of the variables; a push is retried at most PUSH_MAX_ATTEMPTS times
\* and a poll streams at most FETCH_MAX_OBJECTS objects.
TypeOK ==
    /\ tree \subseteq Names /\ base \subseteq Names /\ listed \subseteq Names
    /\ queued \subseteq Names /\ todo \subseteq Names
    /\ judged \subseteq Names /\ raced \subseteq Names
    /\ head \in Nat /\ checkpoint \in Nat
    /\ saved \in BOOLEAN /\ held \in BOOLEAN /\ stopped \in BOOLEAN
    /\ pc \in {"idle", "fetch"} \cup AfterFetch
    /\ streamed \in 0..FetchMax
    /\ attempt \in 0..PushMaxAttempts
    /\ tip \in [head : Nat, tree : SUBSET Names]
    /\ pushes \in 0..MaxPushes /\ faults \in 0..MaxFaults

\* An object the listing can no longer show (it is in the checkpoint's tree) was
\* judged, or came while the poll that wrote the checkpoint was past its fetch.
\* Truncated scans, held objects, failed pushes and crashes never hide one
\* (watcher.py, checkpoint decision).
OnlyRacedIsSkipped == base \cap tree \subseteq judged \cup raced

\* No object leaves the relay before it reached a terminal outcome here, whatever
\* the peer pushes between the replay of the queue and the push (_push_once).
OnlyJudgedIsRemoved == [][tree \ tree' \subseteq judged]_vars

\* Every object on the relay is judged unless a raced checkpoint has hidden it:
\* head-of-line objects under the stream cap, held objects and rejected pushes
\* delay it only.
EveryListedObjectIsJudged ==
    \A n \in Names : n \in tree ~> (n \in judged \/ n \in raced \cap base)

\* Every queued consume is carried out in the end, across crashes between the push
\* and its mark, rejected and deferred pushes.
EveryConsumeIsDone == \A n \in Names : n \in queued ~> n \notin queued
=============================================================================
