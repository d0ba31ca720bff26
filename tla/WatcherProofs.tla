--------------------------- MODULE WatcherProofs ---------------------------
(***************************************************************************)
(* Theorems of Watcher for every set of object names, every stream cap and *)
(* every number of peer commits and failures.                              *)
(*                                                                         *)
(* OnlyRacedIsSkipped is not inductive: that a checkpoint hides nothing    *)
(* depends on what the poll has done with its listing.  WInv carries the   *)
(* poll's bookkeeping: what was listed is still to be visited, judged, or  *)
(* recorded as held or cut off; what is on the relay was listed or arrived *)
(* since; what the queue will remove was judged; and a push that would     *)
(* land was built on the tree it replaces.                                 *)
(***************************************************************************)
EXTENDS Watcher, TLAPS

\* A flush has an attempt left whenever it is about to replay.
AttemptsLeft == pc = "flush" => attempt < PushMaxAttempts

\* Only judged objects have a consume queued.
QueuedIsJudged == queued \subseteq judged

\* The stream's loss ledger: an object of the listing that was passed over
\* without being judged was held, or the stream was cut off.
ListingAccounted ==
    pc \in AfterFetch /\ ~held /\ ~stopped =>
        listed \ base \subseteq judged \cup (IF pc = "stream" THEN todo ELSE {})

\* What the poll cannot have listed came after its fetch.
UnlistedRaced == pc \in AfterFetch => tree \subseteq listed \cup raced

\* A push that will be accepted was built on the present tip.
TipIsCurrent ==
    /\ tip.head <= head
    /\ tip.head = head => tree \subseteq tip.tree /\ tip.tree \subseteq tree

\* The checkpoint's tree, also where a consumed name has left the branch and may
\* come back: a replayed upload of it must not count as skipped.
BaseAccounted == base \subseteq judged \cup raced

WInv ==
    /\ TypeOK
    /\ AttemptsLeft
    /\ QueuedIsJudged
    /\ ListingAccounted
    /\ UnlistedRaced
    /\ TipIsCurrent
    /\ BaseAccounted

\* WInv holds in the initial states.
LEMMA InitEstablishes == Init => WInv
<1> SUFFICES ASSUME Init PROVE WInv
  OBVIOUS
<1>1. TypeOK
  <2>1. /\ streamed \in 0..FetchMax /\ attempt \in 0..PushMaxAttempts
        /\ pushes \in 0..MaxPushes /\ faults \in 0..MaxFaults
    BY WatcherAssumption DEF Init
  <2>2. QED
    BY <2>1 DEF Init, TypeOK
<1>2. AttemptsLeft /\ ListingAccounted /\ UnlistedRaced
  BY DEF Init, AttemptsLeft, ListingAccounted, UnlistedRaced, AfterFetch
<1>3. QueuedIsJudged /\ TipIsCurrent /\ BaseAccounted
  BY DEF Init, QueuedIsJudged, TipIsCurrent, BaseAccounted
<1>4. QED
  BY <1>1, <1>2, <1>3 DEF WInv

\* Every step keeps WInv.
LEMMA StepPreserves == WInv /\ [Next]_vars => WInv'
<1> SUFFICES ASSUME WInv, [Next]_vars PROVE WInv'
  OBVIOUS
<1> USE WatcherAssumption
    DEF WInv, TypeOK, AttemptsLeft, QueuedIsJudged, ListingAccounted, UnlistedRaced,
        TipIsCurrent, BaseAccounted, AfterFetch,
        relayVars, savedVars, pollVars, pushVars, bounds
<1>1. ASSUME NEW n \in Names, PeerPush(n) PROVE WInv'
  <2>1. TypeOK'
    BY <1>1 DEF PeerPush
  <2>2. (AttemptsLeft /\ QueuedIsJudged /\ UnlistedRaced)'
    BY <1>1 DEF PeerPush
  <2>3. ListingAccounted'
    BY <1>1 DEF PeerPush
  <2>4. TipIsCurrent'
    BY <1>1 DEF PeerPush
  <2>5. BaseAccounted'
    BY <1>1 DEF PeerPush
  <2>6. QED
    BY <2>1, <2>2, <2>3, <2>4, <2>5
<1>2. ASSUME NEW n \in Names, Judge(n) PROVE WInv'
  BY <1>2 DEF Judge, Visitable, Advance
<1>3. ASSUME NEW n \in Names, Hold(n) PROVE WInv'
  BY <1>3 DEF Hold, Visitable, Advance
<1>4. ASSUME NEW n \in Names, JudgeThenFail(n) PROVE WInv'
  BY <1>4 DEF JudgeThenFail, Visitable, Fault
<1>5. CASE StartPoll
  BY <1>5 DEF StartPoll
<1>6. CASE Fetch
  <2>1. TypeOK'
    <3>1. streamed' \in 0..FetchMax
      BY <1>6 DEF Fetch
    <3>2. /\ listed' \subseteq Names /\ todo' \subseteq Names /\ raced' \subseteq Names
          /\ held' \in BOOLEAN /\ stopped' \in BOOLEAN
      BY <1>6 DEF Fetch, Listing
    <3>3. QED
      BY <1>6, <3>1, <3>2 DEF Fetch
  <2>2. (AttemptsLeft /\ QueuedIsJudged /\ UnlistedRaced)'
    BY <1>6 DEF Fetch, Listing
  <2>3. ListingAccounted'
    BY <1>6 DEF Fetch, Listing
  <2>4. TipIsCurrent'
    BY <1>6 DEF Fetch, Listing
  <2>5. BaseAccounted'
    BY <1>6 DEF Fetch, Listing
  <2>6. QED
    BY <2>1, <2>2, <2>3, <2>4, <2>5
<1>7. CASE Truncate
  BY <1>7 DEF Truncate, CapReached
<1>8. CASE BudgetHit
  BY <1>8 DEF BudgetHit, Fault
<1>9. CASE EndStream
  BY <1>9 DEF EndStream
<1>10. CASE SkipFlush
  BY <1>10 DEF SkipFlush
<1>11. CASE Replay
  BY <1>11 DEF Replay
<1>12. CASE PushLands
  <2>1. TypeOK'
    BY <1>12 DEF PushLands
  <2>2. (AttemptsLeft /\ QueuedIsJudged /\ UnlistedRaced)'
    BY <1>12 DEF PushLands
  <2>3. ListingAccounted'
    BY <1>12 DEF PushLands
  <2>4. TipIsCurrent'
    BY <1>12 DEF PushLands
  <2>5. BaseAccounted'
    BY <1>12 DEF PushLands
  <2>6. QED
    BY <2>1, <2>2, <2>3, <2>4, <2>5
<1>13. CASE PushRejected
  BY <1>13 DEF PushRejected
<1>14. CASE Mark
  BY <1>14 DEF Mark
<1>15. CASE Checkpoint
  BY <1>15 DEF Checkpoint, MayCheckpoint
<1>16. CASE KeepCheckpoint
  BY <1>16 DEF KeepCheckpoint
<1>17. CASE Abort
  BY <1>17 DEF Abort, Fault
<1>18. CASE LoseState
  <2>1. TypeOK'
    <3>1. faults' \in 0..MaxFaults /\ checkpoint' \in Nat
      BY <1>18 DEF LoseState, Fault
    <3>2. base' \subseteq Names /\ saved' \in BOOLEAN
      BY <1>18 DEF LoseState
    <3>3. QED
      BY <1>18, <3>1, <3>2 DEF LoseState
  <2>2. (AttemptsLeft /\ QueuedIsJudged /\ UnlistedRaced)'
    BY <1>18 DEF LoseState, Fault
  <2>3. ListingAccounted'
    BY <1>18 DEF LoseState, Fault
  <2>4. TipIsCurrent'
    BY <1>18 DEF LoseState, Fault
  <2>5. BaseAccounted'
    BY <1>18 DEF LoseState, Fault
  <2>6. QED
    BY <2>1, <2>2, <2>3, <2>4, <2>5
<1>19. CASE UNCHANGED vars
  BY <1>19 DEF vars
<1>20. QED
  BY <1>1, <1>2, <1>3, <1>4, <1>5, <1>6, <1>7, <1>8, <1>9, <1>10, <1>11, <1>12,
     <1>13, <1>14, <1>15, <1>16, <1>17, <1>18, <1>19 DEF Next

\* WInv is an invariant of the watcher.
LEMMA Invariance == Spec => []WInv
<1>1. QED
  BY InitEstablishes, StepPreserves, PTL DEF Spec

\* The variables keep their types; push attempts and streamed objects keep their
\* ceilings (flush and fetch_new_stream).
THEOREM WatcherTypeCorrect == Spec => []TypeOK
<1>1. WInv => TypeOK
  BY DEF WInv
<1>2. QED
  BY <1>1, Invariance, PTL

\* The checkpoint hides an unjudged object only when the object arrived between
\* the fetch of the poll that wrote it and that poll's second head().
THEOREM CheckpointHidesOnlyRaced == Spec => []OnlyRacedIsSkipped
<1>1. WInv => OnlyRacedIsSkipped
  BY DEF WInv, BaseAccounted, OnlyRacedIsSkipped
<1>2. QED
  BY <1>1, Invariance, PTL

\* A push never removes an object this agent has not settled, whatever the peer
\* pushed in the meantime.
THEOREM PushRemovesOnlyJudged == Spec => OnlyJudgedIsRemoved
<1>1. WInv /\ [Next]_vars => [tree \ tree' \subseteq judged]_vars
  <2> SUFFICES ASSUME WInv, Next PROVE tree \ tree' \subseteq judged
    OBVIOUS
  <2>1. CASE tree' = tree
    BY <2>1
  <2>2. CASE \E n \in Names : PeerPush(n)
    BY <2>2 DEF PeerPush
  <2>3. CASE PushLands
    BY <2>3 DEF PushLands, WInv, TipIsCurrent, QueuedIsJudged
  <2>4. QED
    BY <2>1, <2>2, <2>3
    DEF Next, Judge, Hold, JudgeThenFail, StartPoll, Fetch, Truncate, BudgetHit,
        EndStream, SkipFlush, Replay, PushRejected, Mark, Checkpoint, KeepCheckpoint,
        Abort, LoseState, relayVars
<1>2. QED
  BY <1>1, Invariance, PTL DEF Spec, OnlyJudgedIsRemoved
=============================================================================
