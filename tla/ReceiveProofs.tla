--------------------------- MODULE ReceiveProofs ---------------------------
(***************************************************************************)
(* TLAPS proofs about Receive, for any envelopes, names, identities and    *)
(* limits, any number of uploads and of failures, and any clock.           *)
(***************************************************************************)
EXTENDS Receive, TLAPS

Busy == Stages \cup {"done"}

\* The receiver always has an object in hand when it works on one, and what it
\* has still to visit is on the relay and is not that object; a receive began in the past.
PollInv ==
    /\ pc \in Busy => cur \in Names /\ Env \in Envelopes /\ cur \notin todo
    /\ \A n \in todo : n \in Names /\ relay[n] \in Envelopes
    /\ pass \subseteq events
    /\ rxNow <= clock

\* How far the object in hand has come, read off the pipeline's stage.
StageInv ==
    /\ pc \in {"project", "redrain", "buried", "apply", "hooks", "mark"} => Env \in events
    /\ pc = "project" => <<"event", Env>> \in projQueue
    /\ pc \in {"apply", "hooks", "mark"} => <<"event", Env>> \notin projQueue

TypeInv == TypeOK /\ PollInv

-----------------------------------------------------------------------------
\* The header fields have their types.
LEMMA HeaderFields ==
    ASSUME NEW e \in Envelopes
    PROVE  /\ Header[e].id \in Nat /\ Header[e].sender \in Identities
           /\ Header[e].seq \in Nat /\ Header[e].nonce \in Nat
           /\ Header[e].epoch \in Nat /\ Header[e].created \in Nat
           /\ Header[e].to \in Identities
           /\ Header[e].epoch \in Epochs
  BY ReceiveAssumption DEF HeaderType, Epochs

\* _record_quarantine keeps the table well-formed.
LEMMA QuarantineType ==
    ASSUME TypeOK, cur \in Names, NEW why \in Reasons, Quarantine(why)
    PROVE  quarantine' \in [Names -> [why: Reasons \cup {"none"}, at: Nat]]
<1> DEFINE Row   == [why: Reasons \cup {"none"}, at: Nat]
           table == [quarantine EXCEPT ![cur] = [why |-> why, at |-> clock]]
<1>1. table \in [Names -> Row]
  BY DEF TypeOK
<1>2. NoRow \in Row
  BY DEF NoRow
<1>3. \E kept \in SUBSET Names :
         quarantine' = [n \in Names |-> IF n \in kept THEN table[n] ELSE NoRow]
  BY DEF Quarantine
<1>4. QED
  <2> HIDE DEF Row, table
  <2> SUFFICES quarantine' \in [Names -> Row]
    BY DEF Row
  <2> QED
    BY <1>1, <1>2, <1>3

\* The counters of sightings stay numbers: counted up in receive_retry_state or deleted.
LEMMA SightingsType ==
    ASSUME sightings \in [Names -> [epoch: Nat, storage: Nat]], cur \in Names
    PROVE  /\ [sightings EXCEPT ![cur].epoch = @ + 1] \in [Names -> [epoch: Nat, storage: Nat]]
           /\ [sightings EXCEPT ![cur].storage = @ + 1] \in [Names -> [epoch: Nat, storage: Nat]]
           /\ [sightings EXCEPT ![cur] = [epoch |-> 0, storage |-> 0]]
                 \in [Names -> [epoch: Nat, storage: Nat]]
  OBVIOUS

\* The end of a poll leaves its variables well-formed, with nothing in hand.
LEMMA StopPollType ==
    ASSUME StopPoll
    PROVE  /\ pc' = "idle" /\ cur' \in Names \cup {Empty} /\ rxNow' = 0
           /\ outcome' = "none" /\ todo' = {} /\ pass' = {} /\ held' \in BOOLEAN
  BY DEF StopPoll

\* TypeInv is an invariant of the receive pipeline.
LEMMA TypeInvariant == Spec => []TypeInv
<1> USE ReceiveAssumption
<1>1. Init => TypeInv
  <2> SUFFICES ASSUME Init PROVE TypeInv
    OBVIOUS
  <2>1. PollInv
    BY DEF Init, PollInv, Busy, Stages
  <2>2. TypeOK
    <3>1. quarantine \in [Names -> [why: Reasons \cup {"none"}, at: Nat]]
      BY DEF Init, NoRow
    <3>2. QED
      BY <3>1 DEF Init, TypeOK
  <2>3. QED
    BY <2>1, <2>2 DEF TypeInv
<1>2. TypeInv /\ [Next]_vars => TypeInv'
  <2> SUFFICES ASSUME TypeInv, [Next]_vars PROVE TypeInv'
    OBVIOUS
  <2> USE DEF TypeInv, TypeOK, PollInv, Busy, Env, Stages, relayVars, identityVars, epochVars,
              logVars, viewVars, hookVars, retryVars, pollVars
  <2>1. CASE Tick
    BY <2>1 DEF Tick
  <2>2. CASE Revoke \/ RetirementRefused
    BY <2>2 DEF Revoke, RetirementRefused
  <2>3. CASE Crash
    BY <2>3, StopPollType DEF Crash
  <2>4. ASSUME NEW n \in Names, NEW e \in Envelopes, Upload(n, e) PROVE TypeInv'
    <3>1. TypeOK'
      BY <2>4 DEF Upload
    <3>2. \A m \in Names : relay[m] \in Envelopes => relay'[m] = relay[m]
      BY <2>4 DEF Upload
    <3>3. PollInv'
      BY <2>4, <3>2 DEF Upload
    <3>4. QED
      BY <3>1, <3>3
  <2>5. ASSUME NEW e \in Envelopes, AckSurface(e) PROVE TypeInv'
    BY <2>5 DEF AckSurface
  <2>6. CASE BeginPoll
    BY <2>6 DEF BeginPoll
  <2>7. ASSUME NEW n \in Names, Visit(n) \/ ConsumeOversize(n) PROVE TypeInv'
    <3>1. CASE Visit(n)
      BY <3>1 DEF Visit
    <3>2. CASE ConsumeOversize(n)
      <4>1. TypeOK'
        BY <3>2 DEF ConsumeOversize
      <4>2. \A m \in Names : m # n => relay'[m] = relay[m]
        BY <3>2 DEF ConsumeOversize
      <4>3. PollInv'
        BY <3>2, <4>2 DEF ConsumeOversize
      <4>4. QED
        BY <4>1, <4>3
    <3>3. QED
      BY <2>7, <3>1, <3>2
  <2>8. CASE Settle
    <3>1. TypeOK'
      BY <2>8 DEF Settle
    <3>2. \A m \in Names : m # cur => relay'[m] = relay[m]
      BY <2>8 DEF Settle
    <3>3. PollInv'
      BY <2>8, <3>2 DEF Settle
    <3>4. QED
      BY <3>1, <3>3
  <2>9. CASE EndPoll
    <3>1. CASE held
      BY <2>9, <3>1, StopPollType DEF EndPoll
    <3>2. CASE ~held
      BY <2>9, <3>2 DEF EndPoll, Unmarked
    <3>3. QED
      BY <3>1, <3>2
  <2>10. CASE Prune
    BY <2>10, StopPollType DEF Prune
  <2>11. CASE UNCHANGED vars
    BY <2>11 DEF vars
  <2>12. CASE Refuse
    <3>1. /\ cur \in Names
          /\ Quarantine("refused")
      BY <2>12 DEF Refuse
    <3>2. quarantine' \in [Names -> [why: Reasons \cup {"none"}, at: Nat]]
      BY <3>1, QuarantineType DEF Reasons
    <3>3. QED
      BY <2>12, <3>1, <3>2, HeaderFields DEF Refuse, ClearSightings, Return
  <2>13. CASE RejectEpoch
    <3>1. /\ cur \in Names
          /\ Quarantine("epoch_rejected")
      BY <2>13 DEF RejectEpoch
    <3>2. quarantine' \in [Names -> [why: Reasons \cup {"none"}, at: Nat]]
      BY <3>1, QuarantineType DEF Reasons
    <3>3. QED
      BY <2>13, <3>1, <3>2, HeaderFields DEF RejectEpoch, ClearSightings, Return, NoteEpoch
  <2>14. CASE CommitRefused
    <3>1. /\ cur \in Names
          /\ Quarantine("refused")
      BY <2>14 DEF CommitRefused
    <3>2. quarantine' \in [Names -> [why: Reasons \cup {"none"}, at: Nat]]
      BY <3>1, QuarantineType DEF Reasons
    <3>3. QED
      BY <2>14, <3>1, <3>2, HeaderFields DEF CommitRefused, ClearSightings, Return
  <2>15. CASE Buried
    <3>1. /\ cur \in Names
          /\ Quarantine("projection")
      BY <2>15 DEF Buried
    <3>2. quarantine' \in [Names -> [why: Reasons \cup {"none"}, at: Nat]]
      BY <3>1, QuarantineType DEF Reasons
    <3>3. QED
      BY <2>15, <3>1, <3>2, HeaderFields DEF Buried, ClearSightings, Return
  <2>16. CASE StaleIdentity
    <3>1. /\ cur \in Names
          /\ Quarantine("identity_rotation_rejected")
      BY <2>16 DEF StaleIdentity
    <3>2. quarantine' \in [Names -> [why: Reasons \cup {"none"}, at: Nat]]
      BY <3>1, QuarantineType DEF Reasons
    <3>3. QED
      BY <2>16, <3>1, <3>2, HeaderFields DEF StaleIdentity, ClearSightings, Return
  <2>17. CASE HoldEpoch
    <3>1. cur \in Names /\ Env \in Envelopes
      BY <2>17 DEF HoldEpoch
    <3>2. firstSeen' \in [Epochs -> Nat \cup {NoTime}]
      BY <2>17, <3>1, HeaderFields DEF HoldEpoch, NoteEpoch
    <3>3. sightings' \in [Names -> [epoch: Nat, storage: Nat]]
      BY <2>17, <3>1, SightingsType DEF HoldEpoch
    <3>4. QED
      BY <2>17, <3>1, <3>2, <3>3 DEF HoldEpoch, Return
  <2>18. CASE HoldQuota
    BY <2>18, HeaderFields DEF HoldQuota, Return
  <2>19. CASE Pass
    BY <2>19, HeaderFields DEF Pass, Goto
  <2>20. CASE Resume
    BY <2>20, HeaderFields DEF Resume, Goto
  <2>21. CASE Commit
    BY <2>21, HeaderFields DEF Commit, Goto, Later, Acknowledge
  <2>22. CASE Project
    BY <2>22, HeaderFields DEF Project, Projecting, Goto
  <2>23. CASE ProjectionRefused
    BY <2>23, HeaderFields DEF ProjectionRefused, Projecting, Goto
  <2>24. CASE SkipRedrain
    BY <2>24, HeaderFields DEF SkipRedrain, Drained, Goto
  <2>25. CASE ApplyIdentity
    BY <2>25, HeaderFields DEF ApplyIdentity, Goto
  <2>26. CASE SkipIdentity
    BY <2>26, HeaderFields DEF SkipIdentity, Goto
  <2>27. CASE RunHooks
    BY <2>27, HeaderFields DEF RunHooks, HookEffects, Goto
  <2>28. CASE Accept
    BY <2>28, HeaderFields DEF Accept, ClearSightings, Return
  <2>29. ASSUME NEW got \in {"nothing", "stored", "acked"}, HookFails(got) PROVE TypeInv'
    BY <2>29, HeaderFields DEF HookFails, HookRaises, HookEffects, ClearSightings, Return
  <2>30. CASE TransientFailure
    <3>1. cur \in Names
      BY <2>30 DEF TransientFailure, Fault
    <3>2. quarantine' \in [Names -> [why: Reasons \cup {"none"}, at: Nat]]
      <4>1. CASE sightings[cur].storage + 1 >= MaxFailures
        BY <2>30, <3>1, <4>1, QuarantineType DEF TransientFailure, Reasons
      <4>2. CASE ~(sightings[cur].storage + 1 >= MaxFailures)
        BY <2>30, <4>2 DEF TransientFailure
      <4>3. QED
        BY <4>1, <4>2
    <3>3. Return("quarantined") \/ Return("retry_pending")
      BY <2>30 DEF TransientFailure
    <3>4. sightings' \in [Names -> [epoch: Nat, storage: Nat]]
      BY <2>30, <3>1, SightingsType DEF TransientFailure
    <3>5. QED
      <4>1. TypeOK'
        BY <2>30, <3>1, <3>2, <3>3, <3>4 DEF TransientFailure, Fault, Return
      <4>2. PollInv'
        BY <2>30, <3>1, <3>3 DEF TransientFailure, Fault, Return
      <4>3. QED
        BY <4>1, <4>2
  <2>31. CASE PermanentFailure
    <3>1. cur \in Names
      BY <2>31 DEF PermanentFailure, Fault
    <3>2. quarantine' \in [Names -> [why: Reasons \cup {"none"}, at: Nat]]
      BY <2>31, <3>1, QuarantineType DEF PermanentFailure, Reasons
    <3>3. sightings' \in [Names -> [epoch: Nat, storage: Nat]]
      BY <2>31, <3>1, SightingsType DEF PermanentFailure
    <3>4. QED
      <4>1. TypeOK'
        BY <2>31, <3>1, <3>2, <3>3 DEF PermanentFailure, Fault, Return
      <4>2. PollInv'
        BY <2>31, <3>1 DEF PermanentFailure, Fault, Return
      <4>3. QED
        BY <4>1, <4>2
  <2>32. CASE BookkeepingFails
    BY <2>32 DEF BookkeepingFails, Fault, Return
  <2>33. ASSUME NEW e \in Envelopes, Reconcile(e) PROVE TypeInv'
    BY <2>33 DEF Reconcile, HookEffects
  <2>34. ASSUME NEW e \in Envelopes, NEW got \in {"nothing", "stored", "acked"},
                ReconcileFails(e, got)
         PROVE  TypeInv'
    BY <2>34 DEF ReconcileFails, HookRaises, HookEffects
  <2> HIDE DEF TypeInv, TypeOK, PollInv
  <2>35. CASE ReceiveStep
    BY <2>12, <2>13, <2>14, <2>15, <2>16, <2>17, <2>18, <2>19, <2>20, <2>21, <2>22, <2>23,
       <2>24, <2>25, <2>26, <2>27, <2>28, <2>29, <2>35 DEF ReceiveStep
  <2>36. CASE FailureStep
    BY <2>30, <2>31, <2>32, <2>36 DEF FailureStep
  <2>37. CASE PollStep
    BY <2>6, <2>7, <2>8, <2>9, <2>10, <2>33, <2>34, <2>37 DEF PollStep
  <2>38. QED
    BY <2>1, <2>2, <2>3, <2>4, <2>5, <2>11, <2>35, <2>36, <2>37 DEF Next
<1>3. QED
  BY <1>1, <1>2, PTL DEF Spec

-----------------------------------------------------------------------------
\* The five variables the log's invariants speak of.
LogUnchanged == UNCHANGED <<events, receipts, projQueue, projected, buried>>

TablesInv == LogIsUnforked /\ StoredIsTracked /\ OneReceiptPerEvent
PipelineInv == StageInv /\ AcceptedIsDrained

\* A step that leaves the log alone leaves the facts about its tables alone.
LEMMA QuietTables == TablesInv /\ LogUnchanged => TablesInv'
  BY DEF TablesInv, LogUnchanged, LogIsUnforked, StoredIsTracked, OneReceiptPerEvent

\* What is about to be projected is logged, queued, and neither projected nor buried.
LEMMA ProjectingIsQueued ==
    ASSUME TypeInv, TablesInv, PipelineInv, Projecting
    PROVE  /\ Env \in Envelopes /\ Env \in events
           /\ <<"event", Env>> \in projQueue
           /\ Env \notin projected /\ Env \notin buried
<1>1. Env \in Envelopes /\ Env \in events /\ <<"event", Env>> \in projQueue
  BY DEF TypeInv, PollInv, Busy, Stages, PipelineInv, StageInv, Projecting
<1>2. QED
  BY <1>1 DEF TablesInv, StoredIsTracked

\* Every step keeps what the tables and the poll in progress say of each other.
LEMMA LogStep ==
    ASSUME TypeInv, TypeInv', TablesInv, PipelineInv, [Next]_vars
    PROVE  TablesInv' /\ PipelineInv'
<1> USE DEF Env, PipelineInv, StageInv, AcceptedIsDrained,
            relayVars, identityVars, epochVars, logVars, viewVars, hookVars, retryVars, pollVars
<1>1. CASE Tick
  <2>1. LogUnchanged
    BY <1>1 DEF LogUnchanged, Tick
  <2>2. PipelineInv'
    BY <1>1 DEF Tick
  <2>3. QED
    BY <2>1, <2>2, QuietTables
<1>2. CASE Revoke \/ RetirementRefused
  <2>1. LogUnchanged
    BY <1>2 DEF LogUnchanged, Revoke, RetirementRefused
  <2>2. PipelineInv'
    BY <1>2 DEF Revoke, RetirementRefused
  <2>3. QED
    BY <2>1, <2>2, QuietTables
<1>3. CASE Crash
  <2>1. LogUnchanged
    BY <1>3 DEF LogUnchanged, Crash, StopPoll
  <2>2. PipelineInv'
    BY <1>3 DEF Crash, StopPoll
  <2>3. QED
    BY <2>1, <2>2, QuietTables
<1>4. ASSUME NEW n \in Names, NEW e \in Envelopes, Upload(n, e) PROVE TablesInv' /\ PipelineInv'
  <2>1. LogUnchanged
    BY <1>4 DEF LogUnchanged, Upload
  <2>2. pc \in Busy => relay'[cur] = relay[cur]
    BY <1>4, ReceiveAssumption DEF Upload, TypeInv, TypeOK, PollInv
  <2>3. PipelineInv'
    BY <1>4, <2>2 DEF Upload, Busy, Stages
  <2>4. QED
    BY <2>1, <2>3, QuietTables
<1>5. ASSUME NEW e \in Envelopes, AckSurface(e) PROVE TablesInv' /\ PipelineInv'
  <2>1. LogUnchanged
    BY <1>5 DEF LogUnchanged, AckSurface
  <2>2. PipelineInv'
    BY <1>5 DEF AckSurface
  <2>3. QED
    BY <2>1, <2>2, QuietTables
<1>6. CASE BeginPoll
  <2>1. LogUnchanged
    BY <1>6 DEF LogUnchanged, BeginPoll
  <2>2. PipelineInv'
    BY <1>6 DEF BeginPoll
  <2>3. QED
    BY <2>1, <2>2, QuietTables
<1>7. ASSUME NEW n \in Names, Visit(n) \/ ConsumeOversize(n) PROVE TablesInv' /\ PipelineInv'
  <2>1. LogUnchanged
    BY <1>7 DEF LogUnchanged, Visit, ConsumeOversize
  <2>2. PipelineInv'
    BY <1>7 DEF Visit, ConsumeOversize
  <2>3. QED
    BY <2>1, <2>2, QuietTables
<1>8. CASE Settle
  <2>1. LogUnchanged
    BY <1>8 DEF LogUnchanged, Settle
  <2>2. PipelineInv'
    BY <1>8 DEF Settle
  <2>3. QED
    BY <2>1, <2>2, QuietTables
<1>9. CASE EndPoll
  <2>1. LogUnchanged
    BY <1>9 DEF LogUnchanged, EndPoll, StopPoll
  <2>2. PipelineInv'
    BY <1>9 DEF EndPoll, StopPoll
  <2>3. QED
    BY <2>1, <2>2, QuietTables
<1>10. CASE Prune
  <2>1. LogUnchanged
    BY <1>10 DEF LogUnchanged, Prune, StopPoll
  <2>2. PipelineInv'
    BY <1>10 DEF Prune, StopPoll
  <2>3. QED
    BY <2>1, <2>2, QuietTables
<1>11. CASE Refuse
  <2>1. LogUnchanged
    BY <1>11 DEF LogUnchanged, Refuse, Return
  <2>2. PipelineInv'
    BY <1>11 DEF Refuse, Return
  <2>3. QED
    BY <2>1, <2>2, QuietTables
<1>12. CASE RejectEpoch
  <2>1. LogUnchanged
    BY <1>12 DEF LogUnchanged, RejectEpoch, Return
  <2>2. PipelineInv'
    BY <1>12 DEF RejectEpoch, Return
  <2>3. QED
    BY <2>1, <2>2, QuietTables
<1>13. CASE HoldEpoch
  <2>1. LogUnchanged
    BY <1>13 DEF LogUnchanged, HoldEpoch, Return
  <2>2. PipelineInv'
    BY <1>13 DEF HoldEpoch, Return
  <2>3. QED
    BY <2>1, <2>2, QuietTables
<1>14. CASE HoldQuota
  <2>1. LogUnchanged
    BY <1>14 DEF LogUnchanged, HoldQuota, Return
  <2>2. PipelineInv'
    BY <1>14 DEF HoldQuota, Return
  <2>3. QED
    BY <2>1, <2>2, QuietTables
<1>15. CASE CommitRefused
  <2>1. LogUnchanged
    BY <1>15 DEF LogUnchanged, CommitRefused, Return
  <2>2. PipelineInv'
    BY <1>15 DEF CommitRefused, Return
  <2>3. QED
    BY <2>1, <2>2, QuietTables
<1>16. CASE Buried
  <2>1. LogUnchanged
    BY <1>16 DEF LogUnchanged, Buried, Return
  <2>2. PipelineInv'
    BY <1>16 DEF Buried, Return
  <2>3. QED
    BY <2>1, <2>2, QuietTables
<1>17. CASE StaleIdentity
  <2>1. LogUnchanged
    BY <1>17 DEF LogUnchanged, StaleIdentity, Return
  <2>2. PipelineInv'
    BY <1>17 DEF StaleIdentity, Return
  <2>3. QED
    BY <2>1, <2>2, QuietTables
<1>18. CASE Pass
  <2>1. LogUnchanged
    BY <1>18 DEF LogUnchanged, Pass, Goto
  <2>2. PipelineInv'
    BY <1>18 DEF Pass, Goto
  <2>3. QED
    BY <2>1, <2>2, QuietTables
<1>19. CASE Resume
  <2>1. LogUnchanged
    BY <1>19 DEF LogUnchanged, Resume, Goto
  <2>2. PipelineInv'
    BY <1>19 DEF Resume, Goto
  <2>3. QED
    BY <2>1, <2>2, QuietTables
<1>20. CASE SkipRedrain
  <2>1. LogUnchanged
    BY <1>20 DEF LogUnchanged, SkipRedrain, Goto, Drained
  <2>2. PipelineInv'
    BY <1>20 DEF SkipRedrain, Goto, Drained
  <2>3. QED
    BY <2>1, <2>2, QuietTables
<1>21. CASE ApplyIdentity
  <2>1. LogUnchanged
    BY <1>21 DEF LogUnchanged, ApplyIdentity, Goto
  <2>2. PipelineInv'
    BY <1>21 DEF ApplyIdentity, Goto
  <2>3. QED
    BY <2>1, <2>2, QuietTables
<1>22. CASE SkipIdentity
  <2>1. LogUnchanged
    BY <1>22 DEF LogUnchanged, SkipIdentity, Goto
  <2>2. PipelineInv'
    BY <1>22 DEF SkipIdentity, Goto
  <2>3. QED
    BY <2>1, <2>2, QuietTables
<1>23. CASE RunHooks
  <2>1. LogUnchanged
    BY <1>23 DEF LogUnchanged, RunHooks, Goto
  <2>2. PipelineInv'
    BY <1>23 DEF RunHooks, Goto
  <2>3. QED
    BY <2>1, <2>2, QuietTables
<1>24. CASE Accept
  <2>1. LogUnchanged
    BY <1>24 DEF LogUnchanged, Accept, Return
  <2>2. PipelineInv'
    BY <1>24 DEF Accept, Return
  <2>3. QED
    BY <2>1, <2>2, QuietTables
<1>25. ASSUME NEW got \in {"nothing", "stored", "acked"}, HookFails(got) PROVE TablesInv' /\ PipelineInv'
  <2>1. LogUnchanged
    BY <1>25 DEF LogUnchanged, HookFails, Return
  <2>2. PipelineInv'
    BY <1>25 DEF HookFails, Return
  <2>3. QED
    BY <2>1, <2>2, QuietTables
<1>26. CASE TransientFailure
  <2>1. LogUnchanged
    BY <1>26 DEF LogUnchanged, TransientFailure, Return
  <2>2. PipelineInv'
    BY <1>26 DEF TransientFailure, Return
  <2>3. QED
    BY <2>1, <2>2, QuietTables
<1>27. CASE PermanentFailure
  <2>1. LogUnchanged
    BY <1>27 DEF LogUnchanged, PermanentFailure, Return
  <2>2. PipelineInv'
    BY <1>27 DEF PermanentFailure, Return
  <2>3. QED
    BY <2>1, <2>2, QuietTables
<1>28. CASE BookkeepingFails
  <2>1. LogUnchanged
    BY <1>28 DEF LogUnchanged, BookkeepingFails, Return
  <2>2. PipelineInv'
    BY <1>28 DEF BookkeepingFails, Return
  <2>3. QED
    BY <2>1, <2>2, QuietTables
<1>29. ASSUME NEW e \in Envelopes, Reconcile(e) PROVE TablesInv' /\ PipelineInv'
  <2>1. LogUnchanged
    BY <1>29 DEF LogUnchanged, Reconcile
  <2>2. PipelineInv'
    BY <1>29 DEF Reconcile
  <2>3. QED
    BY <2>1, <2>2, QuietTables
<1>30. ASSUME NEW e \in Envelopes, NEW got \in {"nothing", "stored", "acked"},
             ReconcileFails(e, got)
      PROVE  TablesInv' /\ PipelineInv'
  <2>1. LogUnchanged
    BY <1>30 DEF LogUnchanged, ReconcileFails
  <2>2. PipelineInv'
    BY <1>30 DEF ReconcileFails
  <2>3. QED
    BY <2>1, <2>2, QuietTables
<1>31. CASE Project
  <2>1. /\ Env \in Envelopes /\ Env \in events /\ <<"event", Env>> \in projQueue
        /\ Env \notin projected /\ Env \notin buried
    BY <1>31, ProjectingIsQueued DEF Project
  <2>2. LogIsUnforked' /\ OneReceiptPerEvent'
    BY <1>31 DEF Project, TablesInv, LogIsUnforked, OneReceiptPerEvent
  <2>3. StoredIsTracked'
    BY <1>31, <2>1 DEF Project, TablesInv, StoredIsTracked
  <2>4. PipelineInv'
    BY <1>31, <2>1 DEF Project, Goto
  <2>5. QED
    BY <2>2, <2>3, <2>4 DEF TablesInv
<1>32. CASE ProjectionRefused
  <2>1. /\ Env \in Envelopes /\ Env \in events /\ <<"event", Env>> \in projQueue
        /\ Env \notin projected /\ Env \notin buried
    BY <1>32, ProjectingIsQueued DEF ProjectionRefused
  <2>2. LogIsUnforked' /\ OneReceiptPerEvent'
    BY <1>32 DEF ProjectionRefused, TablesInv, LogIsUnforked, OneReceiptPerEvent
  <2>3. StoredIsTracked'
    BY <1>32, <2>1 DEF ProjectionRefused, TablesInv, StoredIsTracked
  <2>4. PipelineInv'
    BY <1>32, <2>1 DEF ProjectionRefused, Goto
  <2>5. QED
    BY <2>2, <2>3, <2>4 DEF TablesInv
<1>33. CASE Commit
  <2>1. Env \in Envelopes /\ Env \notin events
    BY <1>33 DEF Commit, Storable, TypeInv, PollInv, Busy, Stages
  <2>2. LogIsUnforked'
    BY <1>33, <2>1 DEF Commit, Storable, TablesInv, LogIsUnforked
  <2>3. StoredIsTracked'
    <3>1. \A f \in Envelopes :
             <<"event", f>> \in projQueue' <=> <<"event", f>> \in projQueue \/ f = Env
      BY <1>33, <2>1 DEF Commit
    <3>2. QED
      BY <1>33, <2>1, <3>1 DEF Commit, TablesInv, StoredIsTracked
  <2>4. OneReceiptPerEvent'
    BY <1>33, <2>1, ReceiveAssumption
    DEF Commit, Acknowledge, TablesInv, OneReceiptPerEvent, TypeInv, TypeOK
  <2>5. PipelineInv'
    BY <1>33, <2>1 DEF Commit, Goto
  <2>6. QED
    BY <2>2, <2>3, <2>4, <2>5 DEF TablesInv
<1>34. CASE UNCHANGED vars
  <2>1. LogUnchanged
    BY <1>34 DEF LogUnchanged, vars
  <2>2. PipelineInv'
    BY <1>34 DEF vars
  <2>3. QED
    BY <2>1, <2>2, QuietTables
<1>35. QED
  BY <1>1, <1>2, <1>3, <1>4, <1>5, <1>6, <1>7, <1>8, <1>9, <1>10, <1>11, <1>12,
     <1>13, <1>14, <1>15, <1>16, <1>17, <1>18, <1>19, <1>20, <1>21, <1>22,
     <1>23, <1>24, <1>25, <1>26, <1>27, <1>28, <1>29, <1>30, <1>31, <1>32,
     <1>33, <1>34
  DEF Next, ReceiveStep, FailureStep, PollStep

\* The facts about types, tables and pipeline are invariant together.
LEMMA LogInvariant == Spec => [](TypeInv /\ TablesInv /\ PipelineInv)
<1>1. Init => TablesInv /\ PipelineInv
  <2> SUFFICES ASSUME Init PROVE TablesInv /\ PipelineInv
    OBVIOUS
  <2>1. LogIsUnforked /\ StoredIsTracked /\ OneReceiptPerEvent
    BY DEF Init, LogIsUnforked, StoredIsTracked, OneReceiptPerEvent
  <2>2. StageInv /\ AcceptedIsDrained
    BY DEF Init, StageInv, AcceptedIsDrained
  <2>3. QED
    BY <2>1, <2>2 DEF TablesInv, PipelineInv
<1>2. (TypeInv /\ TypeInv' /\ TablesInv /\ PipelineInv) /\ [Next]_vars => (TablesInv /\ PipelineInv)'
  BY LogStep
<1>3. QED
  BY <1>1, <1>2, TypeInvariant, PTL DEF Spec

\* The variables of the receive pipeline keep their types.
THEOREM ReceiveTypeCorrect == Spec => []TypeOK
<1>1. TypeInv => TypeOK
  BY DEF TypeInv
<1>2. QED
  BY <1>1, TypeInvariant, PTL

\* Whatever the relay replays, reorders or duplicates and wherever the receiver
\* dies: no two logged events share an id, a (sender, sequence) or a nonce (the
\* receive transaction of _receive_object_inner).
THEOREM LogNeverForks == Spec => []LogIsUnforked
<1>1. TablesInv => LogIsUnforked
  BY DEF TablesInv
<1>2. QED
  BY <1>1, LogInvariant, PTL

\* A logged event waits for projection, is projected, or is buried: exactly one of
\* them (the receive, projection and re-drain transactions).
THEOREM LoggedIsTracked == Spec => []StoredIsTracked
<1>1. TablesInv => StoredIsTracked
  BY DEF TablesInv
<1>2. QED
  BY <1>1, LogInvariant, PTL

\* One accepted receipt per logged event and none for anything else
\* (_queue_accepted_receipt inside the receive transaction).
THEOREM ReceiptsMatchLog == Spec => []OneReceiptPerEvent
<1>1. TablesInv => OneReceiptPerEvent
  BY DEF TablesInv
<1>2. QED
  BY <1>1, LogInvariant, PTL

\* "accepted" is answered only for an event that is logged and drained
\* (_receive_object, fresh and resumed).
THEOREM AcceptedMeansDrained == Spec => []AcceptedIsDrained
<1>1. PipelineInv => AcceptedIsDrained
  BY DEF PipelineInv
<1>2. QED
  BY <1>1, LogInvariant, PTL

\* The pinned peer identity moves only along announcements the pinned identity
\* made (_apply_identity_rotation).
THEOREM IdentityIsPinned == Spec => IdentityFollowsPeer
<1> DEFINE Follows ==
      peer' # peer => \E e \in events : /\ Header[e].kind = "rotated"
                                        /\ Header[e].sender = peer
                                        /\ Header[e].to = peer'
<1>1. PipelineInv /\ [Next]_vars => [Follows]_vars
  <2> SUFFICES ASSUME PipelineInv, Next, peer' # peer PROVE Follows
    OBVIOUS
  <2>1. ApplyIdentity
    BY DEF Next, ReceiveStep, FailureStep, PollStep, Tick, Revoke, RetirementRefused, Crash, Upload, AckSurface,
           BeginPoll, Visit, ConsumeOversize, Settle, EndPoll, Prune, Refuse, RejectEpoch, HoldEpoch, HoldQuota,
           CommitRefused, Buried, StaleIdentity, Pass, Resume, SkipRedrain, SkipIdentity,
           RunHooks, Accept, HookFails, TransientFailure, PermanentFailure, BookkeepingFails,
           Reconcile, ReconcileFails, Project, ProjectionRefused, Commit, identityVars
  <2>2. Env \in events
    BY <2>1 DEF ApplyIdentity, PipelineInv, StageInv
  <2>3. QED
    BY <2>1, <2>2 DEF ApplyIdentity, identityVars
<1>2. QED
  BY <1>1, LogInvariant, PTL DEF Spec, IdentityFollowsPeer

-----------------------------------------------------------------------------
\* A hook of a prepare acknowledges it once, and after its candidate epoch was stored.
LEMMA HookAcksOnce ==
    ASSUME TypeOK, OneAckPerPrepare, NEW e \in Envelopes, NEW got, HookEffects(e, got)
    PROVE  OneAckPerPrepare'
<1>1. prepared \subseteq prepared'
  BY DEF HookEffects
<1>2. CASE acks' = acks
  BY <1>1, <1>2 DEF OneAckPerPrepare
<1>3. CASE acks' # acks
  <2>1. /\ e \in prepared' /\ acks[e].n = 0
        /\ acks' = [acks EXCEPT ![e] = [n |-> @.n + 1, at |-> clock]]
    BY <1>3 DEF HookEffects, Acking, AckAlreadySent, TypeOK
  <2>2. acks'[e].n = 1 /\ \A f \in Envelopes \ {e} : acks'[f] = acks[f]
    BY <2>1 DEF TypeOK
  <2>3. QED
    BY <1>1, <2>1, <2>2 DEF OneAckPerPrepare
<1>4. QED
  BY <1>2, <1>3

\* However often the hook of a prepare is driven again, by a redelivery or by the
\* reconciler and after a failure at any of its steps, its ack is persisted at most once,
\* and only when the candidate epoch is stored (_post_receive_hooks, _ack_already_sent).
THEOREM PreparesAckedOnce == Spec => []OneAckPerPrepare
<1>1. Init => OneAckPerPrepare
  BY DEF Init, OneAckPerPrepare
<1>2. TypeInv /\ OneAckPerPrepare /\ [Next]_vars => OneAckPerPrepare'
  <2> SUFFICES ASSUME TypeInv, OneAckPerPrepare, [Next]_vars PROVE OneAckPerPrepare'
    OBVIOUS
  <2>1. CASE UNCHANGED <<prepared, acks>>
    BY <2>1 DEF OneAckPerPrepare
  <2>2. CASE RunHooks \/ \E got \in {"nothing", "stored", "acked"} : HookFails(got)
    <3>1. Env \in Envelopes
      BY <2>2 DEF RunHooks, HookFails, TypeInv, PollInv, Busy, Stages
    <3>2. PICK got : HookEffects(Env, got)
      BY <2>2 DEF RunHooks, HookFails, HookRaises
    <3>3. QED
      BY <3>1, <3>2, HookAcksOnce DEF TypeInv
  <2>3. ASSUME NEW e \in Envelopes,
               Reconcile(e) \/ \E got \in {"nothing", "stored", "acked"} : ReconcileFails(e, got)
        PROVE  OneAckPerPrepare'
    <3>1. PICK got : HookEffects(e, got)
      BY <2>3 DEF Reconcile, ReconcileFails, HookRaises
    <3>2. QED
      BY <3>1, HookAcksOnce DEF TypeInv
  <2>4. \/ UNCHANGED <<prepared, acks>>
        \/ RunHooks \/ \E got \in {"nothing", "stored", "acked"} : HookFails(got)
        \/ \E e \in Envelopes :
              Reconcile(e) \/ \E got \in {"nothing", "stored", "acked"} : ReconcileFails(e, got)
    BY DEF Next, ReceiveStep, FailureStep, PollStep, Tick, Revoke, RetirementRefused, Crash, Upload, AckSurface,
           BeginPoll, Visit, ConsumeOversize, Settle, EndPoll, Prune, Refuse, RejectEpoch, HoldEpoch, HoldQuota,
           CommitRefused, Buried, StaleIdentity, Pass, Resume, SkipRedrain, ApplyIdentity,
           SkipIdentity, Accept, TransientFailure, PermanentFailure, BookkeepingFails,
           Project, ProjectionRefused, Commit, hookVars, vars
  <2>5. QED
    BY <2>1, <2>2, <2>3, <2>4
<1>3. QED
  BY <1>1, <1>2, TypeInvariant, PTL DEF Spec

-----------------------------------------------------------------------------
\* The rejection of the object n is on record since the receive in progress began, or the
\* table is full of rows as recent.
OnRecord(n) ==
    \/ n \in RecordedSince(rxNow)
    \/ Cardinality(RecordedSince(rxNow)) >= QuarantineCap

\* An answer other than retry_pending is backed by the log or by the quarantine table.
AnswerInv ==
    pc = "done" =>
        \/ outcome \in {"accepted", "retry_pending"}
        \/ outcome = "quarantined" /\ OnRecord(cur)

\* _record_quarantine leaves the object it was called for on record, or drops its row
\* because the table is at its cap with rows that are not older.
LEMMA QuarantineRecords ==
    ASSUME TypeInv, cur \in Names, NEW why \in Reasons, Quarantine(why),
           cur' = cur, rxNow' = rxNow
    PROVE  OnRecord(cur)'
<1> DEFINE table == [quarantine EXCEPT ![cur] = [why |-> why, at |-> clock]]
           rows  == {n \in Names : table[n].why # "none" /\ table[n].at + QuarantineTTL > clock}
<1>1. PICK kept \in SUBSET rows :
        /\ \/ kept = rows /\ Cardinality(rows) <= QuarantineCap
           \/ Cardinality(rows) > QuarantineCap /\ Cardinality(kept) = QuarantineCap
        /\ \A n \in kept, m \in rows \ kept : table[m].at <= table[n].at
        /\ quarantine' = [n \in Names |-> IF n \in kept THEN table[n] ELSE NoRow]
  BY DEF Quarantine
<1>2. table[cur].why = why /\ table[cur].at = clock /\ why # "none"
  BY DEF TypeInv, TypeOK, Reasons
<1>3. cur \in rows
  BY <1>2, ReceiveAssumption DEF TypeInv, TypeOK
<1>4. rxNow \in Nat /\ clock \in Nat /\ rxNow <= clock
  BY DEF TypeInv, TypeOK, PollInv
<1>5. \A n \in kept : n \in Names /\ table[n].at \in Nat /\ table[n].why # "none"
  BY <1>4 DEF TypeInv, TypeOK
<1>6. \A n \in Names : quarantine'[n] = IF n \in kept THEN table[n] ELSE NoRow
  BY <1>1
<1>7. CASE cur \in kept
  <2>1. quarantine'[cur].why # "none" /\ quarantine'[cur].at = clock
    BY <1>2, <1>6, <1>7
  <2>2. QED
    BY <1>4, <2>1 DEF OnRecord, RecordedSince
<1>8. CASE cur \notin kept
  <2>1. Cardinality(kept) = QuarantineCap
    BY <1>1, <1>3, <1>8
  <2>2. \A n \in kept : clock <= table[n].at
    BY <1>1, <1>2, <1>3, <1>8
  <2> DEFINE full == {m \in Names : quarantine'[m].why # "none" /\ quarantine'[m].at >= rxNow}
  <2>3. \A m \in Names : m \in full <=> m \in kept
    <3> HIDE DEF table
    <3> QED
      BY <1>4, <1>5, <1>6, <2>2 DEF NoRow
  <2>4. full = kept
    BY <1>5, <2>3
  <2>5. full = RecordedSince(rxNow)'
    BY DEF RecordedSince
  <2>6. QuarantineCap \in Nat
    BY ReceiveAssumption
  <2>7. Cardinality(full) >= QuarantineCap
    <3> HIDE DEF full
    <3> QED
      BY <2>1, <2>4, <2>6
  <2>8. QED
    <3> HIDE DEF full
    <3> QED
      BY <2>5, <2>7, Zenon DEF OnRecord
<1>9. QED
  BY <1>7, <1>8

\* AnswerInv is an invariant of the receive pipeline.
LEMMA AnswersAreBacked == Spec => []AnswerInv
<1>1. Init => AnswerInv
  BY DEF Init, AnswerInv
<1>2. TypeInv /\ AnswerInv /\ [Next]_vars => AnswerInv'
  <2> SUFFICES ASSUME TypeInv, AnswerInv, [Next]_vars PROVE AnswerInv'
    OBVIOUS
  <2>1. CASE UNCHANGED <<pc, outcome, cur, rxNow, quarantine>>
    BY <2>1 DEF AnswerInv, OnRecord, RecordedSince
  <2>2. CASE pc' # "done"
    BY <2>2 DEF AnswerInv
  <2>3. CASE pc' = "done" /\ outcome' \in {"accepted", "retry_pending"}
    BY <2>3 DEF AnswerInv
  <2>4. ASSUME NEW why \in Reasons, pc \in Stages, Quarantine(why), Return("quarantined")
        PROVE  AnswerInv'
    <3>1. cur \in Names /\ cur' = cur /\ rxNow' = rxNow
      BY <2>4 DEF TypeInv, PollInv, Busy, Return
    <3>2. OnRecord(cur)'
      BY <2>4, <3>1, QuarantineRecords
    <3>3. QED
      BY <2>4, <3>2 DEF AnswerInv, Return
  <2>5. CASE UNCHANGED vars \/ Tick \/ Revoke \/ RetirementRefused
             \/ (\E n \in Names, e \in Envelopes : Upload(n, e))
             \/ (\E e \in Envelopes : AckSurface(e))
    BY <2>1, <2>5 DEF vars, Tick, Revoke, RetirementRefused, Upload, AckSurface, pollVars,
                      retryVars
  <2>6. CASE Crash \/ BeginPoll \/ Settle \/ EndPoll \/ Prune
             \/ (\E n \in Names : Visit(n) \/ ConsumeOversize(n))
    BY <2>2, <2>6 DEF Crash, BeginPoll, Settle, EndPoll, Prune, Visit, ConsumeOversize, StopPoll
  <2>7. ASSUME NEW e \in Envelopes,
               Reconcile(e) \/ \E got \in {"nothing", "stored", "acked"} : ReconcileFails(e, got)
        PROVE  AnswerInv'
    BY <2>2, <2>7 DEF Reconcile, ReconcileFails
  <2>8. CASE Pass \/ Resume \/ Commit \/ Project \/ ProjectionRefused \/ SkipRedrain
             \/ ApplyIdentity \/ SkipIdentity \/ RunHooks
    BY <2>2, <2>8 DEF Pass, Resume, Commit, Project, ProjectionRefused, SkipRedrain,
                      ApplyIdentity, SkipIdentity, RunHooks, Goto
  <2>9. CASE HoldEpoch \/ HoldQuota \/ Accept \/ BookkeepingFails
             \/ \E got \in {"nothing", "stored", "acked"} : HookFails(got)
    BY <2>3, <2>9 DEF HoldEpoch, HoldQuota, Accept, BookkeepingFails, HookFails, Return
  <2>10. CASE Refuse \/ RejectEpoch \/ CommitRefused \/ Buried \/ StaleIdentity \/ PermanentFailure
    <3>1. PICK why \in Reasons : pc \in Stages /\ Quarantine(why) /\ Return("quarantined")
      BY <2>10 DEF Refuse, RejectEpoch, CommitRefused, Buried, StaleIdentity, PermanentFailure,
                   Fault, Stages, Reasons
    <3>2. QED
      BY <2>4, <3>1
  <2>11. CASE TransientFailure
    <3>1. CASE Quarantine("retry_ceiling_exceeded") /\ Return("quarantined")
      BY <2>4, <2>11, <3>1 DEF TransientFailure, Fault, Reasons
    <3>2. CASE Return("retry_pending")
      BY <2>3, <3>2 DEF Return
    <3>3. QED
      BY <2>11, <3>1, <3>2 DEF TransientFailure
  <2>12. QED
    BY <2>5, <2>6, <2>7, <2>8, <2>9, <2>10, <2>11 DEF Next, ReceiveStep, FailureStep, PollStep
<1>3. QED
  BY <1>1, <1>2, TypeInvariant, PTL DEF Spec

\* An object that is not over the size cap leaves the relay only when its event is in the
\* log or the rejection just answered is in the quarantine table, where nothing older is
\* kept in its place (visit() in _receive_stream, _record_quarantine).  An object over the
\* size cap leaves no trace.
THEOREM NothingIsDropped == Spec => ConsumedIsSettled
<1> DEFINE Settled ==
      \A n \in Names :
          relay[n] # Empty /\ relay'[n] = Empty =>
              \/ relay[n] \in events
              \/ relay[n] \in Oversize
              \/ n \in RecordedSince(rxNow)
              \/ Cardinality(RecordedSince(rxNow)) >= QuarantineCap
<1>1. TypeInv /\ PipelineInv /\ AnswerInv /\ [Next]_vars => [Settled]_vars
  <2> SUFFICES ASSUME TypeInv, PipelineInv, AnswerInv, Next PROVE Settled
    OBVIOUS
  <2>1. CASE UNCHANGED relay
    BY <2>1
  <2>2. ASSUME NEW n \in Names, NEW e \in Envelopes, Upload(n, e) PROVE Settled
    BY <2>2, ReceiveAssumption DEF Upload, TypeInv, TypeOK
  <2>3. CASE Settle
    <3> SUFFICES ASSUME NEW n \in Names, relay[n] # Empty, relay'[n] = Empty
                 PROVE  relay[n] \in events \/ OnRecord(n)
      BY DEF OnRecord
    <3>1. pc = "done" /\ n = cur /\ outcome # "retry_pending"
      BY <2>3 DEF Settle, TypeInv, TypeOK
    <3>2. CASE outcome = "accepted"
      BY <3>1, <3>2 DEF PipelineInv, AcceptedIsDrained, Env
    <3>3. CASE outcome = "quarantined"
      BY <3>1, <3>3 DEF AnswerInv
    <3>4. QED
      BY <3>1, <3>2, <3>3 DEF AnswerInv
  <2>4. ASSUME NEW n \in Names, ConsumeOversize(n) PROVE Settled
    BY <2>4 DEF ConsumeOversize, TypeInv, TypeOK
  <2>5. \/ UNCHANGED relay \/ Settle
        \/ \E n \in Names, e \in Envelopes : Upload(n, e)
        \/ \E n \in Names : ConsumeOversize(n)
    BY DEF Next, ReceiveStep, FailureStep, PollStep, Tick, Revoke, RetirementRefused, Crash, AckSurface,
           BeginPoll, Visit, EndPoll, Prune, Refuse, RejectEpoch, HoldEpoch, HoldQuota,
           CommitRefused, Buried, StaleIdentity, Pass, Resume, SkipRedrain, ApplyIdentity,
           SkipIdentity, RunHooks, Accept, HookFails, TransientFailure, PermanentFailure,
           BookkeepingFails, Reconcile, ReconcileFails, Project, ProjectionRefused, Commit,
           relayVars
  <2>6. QED
    BY <2>1, <2>2, <2>3, <2>4, <2>5
<1>2. QED
  BY <1>1, LogInvariant, AnswersAreBacked, PTL DEF Spec, ConsumedIsSettled

-----------------------------------------------------------------------------
\* Receiving implements the inbox: the receive transaction is its Accept, the
\* projection its Show, the event-level quarantine its Bury, and every other step
\* (retries, holds, hooks, crashes, whole polls) is a stutter.
THEOREM ReceiveImplementsInbox == Spec => ImplementsInbox
<1> DEFINE told == {e \in Envelopes : receipts[e] > 0}
<1>1. Init => Abstract!Init
  BY DEF Init, Abstract!Init
<1>2. TypeInv /\ TablesInv /\ PipelineInv /\ [Next]_vars => [Abstract!Next]_(Abstract!vars)
  <2> SUFFICES ASSUME TypeInv, TablesInv, PipelineInv, [Next]_vars
               PROVE  Abstract!Next \/ UNCHANGED Abstract!vars
    OBVIOUS
  <2>1. CASE LogUnchanged
    BY <2>1 DEF LogUnchanged, Abstract!vars
  <2>2. CASE Project
    <3>1. Env \in Envelopes /\ Env \in events /\ Env \notin projected /\ Env \notin buried
      BY <2>2, ProjectingIsQueued DEF Project
    <3>2. /\ projected' = projected \cup {Env}
          /\ UNCHANGED <<events, buried, told>>
      BY <2>2 DEF Project, logVars
    <3>3. Abstract!Show(Env)
      BY <3>1, <3>2 DEF Abstract!Show
    <3>4. QED
      BY <3>1, <3>3 DEF Abstract!Next
  <2>3. CASE ProjectionRefused
    <3>1. Env \in Envelopes /\ Env \in events /\ Env \notin projected /\ Env \notin buried
      BY <2>3, ProjectingIsQueued DEF ProjectionRefused
    <3>2. /\ buried' = buried \cup {Env}
          /\ UNCHANGED <<events, projected, told>>
      BY <2>3 DEF ProjectionRefused, logVars
    <3>3. Abstract!Bury(Env)
      BY <3>1, <3>2 DEF Abstract!Bury
    <3>4. QED
      BY <3>1, <3>3 DEF Abstract!Next
  <2>4. CASE Commit
    <3>1. Env \in Envelopes /\ Env \notin events
      BY <2>4 DEF Commit, Storable, TypeInv, PollInv, Busy, Stages
    <3>2. \A f \in events : ~Abstract!Clash(Env, f)
      BY <2>4 DEF Commit, Storable, Abstract!Clash
    <3>3. told' = IF Abstract!Acknowledged(Env) THEN told \cup {Env} ELSE told
      <4>1. receipts \in [Envelopes -> Nat]
        BY DEF TypeInv, TypeOK
      <4>2. receipts' = [receipts EXCEPT ![Env] = IF Acknowledge(Env) THEN @ + 1 ELSE @]
        BY <2>4 DEF Commit
      <4>3. Acknowledge(Env) <=> Abstract!Acknowledged(Env)
        BY DEF Acknowledge, Abstract!Acknowledged
      <4>4. CASE Acknowledge(Env)
        <5>1. \A f \in Envelopes : receipts'[f] > 0 <=> receipts[f] > 0 \/ f = Env
          BY <3>1, <4>1, <4>2, <4>4
        <5>2. QED
          BY <3>1, <4>3, <4>4, <5>1
      <4>5. CASE ~Acknowledge(Env)
        <5>1. \A f \in Envelopes : receipts'[f] = receipts[f]
          BY <4>1, <4>2, <4>5
        <5>2. QED
          BY <4>3, <4>5, <5>1
      <4>6. QED
        BY <4>4, <4>5
    <3>4. PICK e \in Envelopes : e = Env
      BY <3>1
    <3>5. Abstract!Accept(e)
      BY <2>4, <3>1, <3>2, <3>3, <3>4 DEF Commit, Abstract!Accept
    <3>6. QED
      BY <3>5 DEF Abstract!Next
  <2>5. LogUnchanged \/ Project \/ ProjectionRefused \/ Commit
    BY DEF Next, ReceiveStep, FailureStep, PollStep, Tick, Revoke, RetirementRefused, Crash, Upload, AckSurface,
           BeginPoll, Visit, ConsumeOversize, Settle, EndPoll, Prune, Refuse, RejectEpoch, HoldEpoch, HoldQuota,
           CommitRefused, Buried, StaleIdentity, Pass, Resume, SkipRedrain, ApplyIdentity,
           SkipIdentity, RunHooks, Accept, HookFails, TransientFailure, PermanentFailure,
           BookkeepingFails, Reconcile, ReconcileFails, LogUnchanged, logVars, viewVars, vars
  <2>6. QED
    BY <2>1, <2>2, <2>3, <2>4, <2>5
<1>3. QED
  BY <1>1, <1>2, LogInvariant, PTL DEF Spec, ImplementsInbox, Abstract!Spec
=============================================================================
