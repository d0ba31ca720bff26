--------------------------- MODULE SchedulerProofs ---------------------------
(***************************************************************************)
(* TLAPS proofs about Scheduler, for any number of rows, processes,        *)
(* approvals and crashes and any clock.                                    *)
(***************************************************************************)
EXTENDS Scheduler, TLAPS

\* A process past the claim, or recording a failure, is working on a row.
HoldsRow ==
    \A p \in Procs : pc[p] \in {"claimed", "sent", "failed"} => current[p] \in Rows

TypeInv == TypeOK /\ HoldsRow

\* What a process remembers of the table: rows that were persisted, and a
\* time that has passed.
ProcInv ==
    \A p \in Procs :
        /\ current[p] \in Rows => state[current[p]] # "absent"
        /\ \A r \in todo[p] : state[r] # "absent"
        /\ runNow[p] <= clock

\* A claim is exclusive and still unsent: at most one process is between the
\* claim and the hand-over of a row, and that row is due and not yet sent.
ClaimInv ==
    /\ \A p \in Procs : pc[p] = "claimed" =>
          /\ state[current[p]] \in {"released", "deleted"}
          /\ relay[current[p]] = 0
          /\ deliverAt[current[p]] <= clock
    /\ \A p, q \in Procs :
          pc[p] = "claimed" /\ pc[q] = "claimed" /\ current[p] = current[q] => p = q

\* A row that was never persisted has a clean slate.
AbsentInv ==
    \A r \in Rows : state[r] = "absent" => failures[r] = 0 /\ approvalOf[r] = NoApproval

\* An approval that can be claimed is carried by no row, or by one whose
\* non-delivery was reported.
ApprovalInv ==
    consent # "gone" =>
        \A a \in Approvals : approval[a] # "consumed" =>
            \A r1 \in Rows : approvalOf[r1] = a =>
                \E r \in Rows : approvalOf[r] = a /\ r \in notices

SchedulerInv ==
    /\ ProcInv
    /\ ClaimInv
    /\ AbsentInv
    /\ ApprovalInv
    /\ NeverSentTwice
    /\ OnlyReleasedIsSent
    /\ NeverEarly
    /\ NoStuckRow
    /\ UndeliveredIsReported
    /\ ApprovalSharedOnlyIfReported

-----------------------------------------------------------------------------
\* The type invariant, with what it needs of the processes to be inductive.
LEMMA TypeInvariant == Spec => []TypeInv
<1> USE SchedulerAssumption
<1>1. Init => TypeInv
  BY DEF Init, TypeInv, HoldsRow, TypeOK, RowStates, PcStates
<1>2. TypeInv /\ [Next]_vars => TypeInv'
  <2> SUFFICES ASSUME TypeInv, [Next]_vars PROVE TypeInv'
    OBVIOUS
  <2> USE DEF TypeInv, HoldsRow, TypeOK, RowStates, PcStates, envVars, rowVars, approvalVars,
              relayVars, procVars
  <2>1. CASE Tick
    BY <2>1 DEF Tick
  <2>2. CASE Revoke
    BY <2>2 DEF Revoke
  <2>3. CASE TeardownDelete
    BY <2>3 DEF TeardownDelete
  <2>4. ASSUME NEW a \in Approvals, CreateApproval(a) PROVE TypeInv'
    BY <2>4 DEF CreateApproval
  <2>5. ASSUME NEW r \in Rows, Cancel(r) PROVE TypeInv'
    BY <2>5 DEF Cancel
  <2>6. ASSUME NEW p \in Procs, SendCheck(p) PROVE TypeInv'
    BY <2>6 DEF SendCheck
  <2>7. ASSUME NEW p \in Procs, NEW r \in Rows, NEW d \in Deliveries,
               NEW e \in Expiries, NEW a \in Approvals \cup {NoApproval},
               Persist(p, r, d, e, a)
        PROVE  TypeInv'
    BY <2>7 DEF Persist
  <2>8. ASSUME NEW p \in Procs, PersistFails(p) PROVE TypeInv'
    BY <2>8 DEF PersistFails, Exit
  <2>9. ASSUME NEW p \in Procs, StartRun(p) PROVE TypeInv'
    BY <2>9 DEF StartRun, DueScan
  <2>10. ASSUME NEW p \in Procs, EndRun(p) PROVE TypeInv'
    BY <2>10 DEF EndRun, Exit
  <2>11. ASSUME NEW p \in Procs, NEW r \in Rows, SkipRow(p, r) PROVE TypeInv'
    BY <2>11 DEF SkipRow, RowDone
  <2>12. ASSUME NEW p \in Procs, NEW r \in Rows, ExpireRow(p, r) PROVE TypeInv'
    BY <2>12 DEF ExpireRow, RowDone, RestoreApproval
  <2>13. ASSUME NEW p \in Procs, NEW r \in Rows, ClaimRow(p, r) PROVE TypeInv'
    BY <2>13 DEF ClaimRow
  <2>14. ASSUME NEW p \in Procs, NEW r \in Rows, ReleaseRaises(p, r) PROVE TypeInv'
    BY <2>14 DEF ReleaseRaises
  <2>15. ASSUME NEW p \in Procs, Upload(p) PROVE TypeInv'
    BY <2>15 DEF Upload
  <2>16. ASSUME NEW p \in Procs, UploadRaises(p) PROVE TypeInv'
    BY <2>16 DEF UploadRaises
  <2>17. ASSUME NEW p \in Procs, RecordSent(p) PROVE TypeInv'
    BY <2>17 DEF RecordSent
  <2>18. ASSUME NEW p \in Procs, RecordFailure(p) PROVE TypeInv'
    BY <2>18 DEF RecordFailure, RowDone, RestoreApproval
  <2>19. ASSUME NEW p \in Procs, RunAborts(p) PROVE TypeInv'
    BY <2>19 DEF RunAborts, Exit
  <2>20. ASSUME NEW p \in Procs, Crash(p) PROVE TypeInv'
    BY <2>20 DEF Crash, Exit
  <2>21. CASE UNCHANGED vars
    BY <2>21 DEF vars
  <2>22. QED
    BY <2>1, <2>2, <2>3, <2>4, <2>5, <2>6, <2>7, <2>8, <2>9, <2>10, <2>11, <2>12,
       <2>13, <2>14, <2>15, <2>16, <2>17, <2>18, <2>19, <2>20, <2>21
    DEF Next, PersistStep, RunStep
<1>3. QED
  BY <1>1, <1>2, PTL DEF Spec

\* Every variable of the outbox keeps its type.
THEOREM TypeCorrect == Spec => []TypeOK
  BY TypeInvariant, PTL DEF TypeInv

-----------------------------------------------------------------------------
\* One step of any process keeps the outbox invariant.  The claim is the
\* delicate case: it re-reads state = 'scheduled', so the row is unsent and no
\* other process holds it.
LEMMA SchedulerStep == TypeInv /\ SchedulerInv /\ [Next]_vars => SchedulerInv'
<1> SUFFICES ASSUME TypeInv, SchedulerInv, [Next]_vars PROVE SchedulerInv'
  OBVIOUS
<1> USE SchedulerAssumption
<1> USE DEF TypeInv, HoldsRow, TypeOK, RowStates, PcStates, envVars, rowVars,
            approvalVars, relayVars, procVars, SchedulerInv, ProcInv, ClaimInv,
            AbsentInv, ApprovalInv, NeverSentTwice, OnlyReleasedIsSent,
            NeverEarly, NoStuckRow, UndeliveredIsReported,
            ApprovalSharedOnlyIfReported
<1>1. CASE Tick
  BY <1>1 DEF Tick
<1>2. CASE Revoke
  BY <1>2 DEF Revoke
<1>3. CASE TeardownDelete
  BY <1>3 DEF TeardownDelete
<1>4. ASSUME NEW a \in Approvals, CreateApproval(a) PROVE SchedulerInv'
  BY <1>4 DEF CreateApproval
<1>5. ASSUME NEW r \in Rows, Cancel(r) PROVE SchedulerInv'
  BY <1>5 DEF Cancel
<1>6. ASSUME NEW p \in Procs, SendCheck(p) PROVE SchedulerInv'
  BY <1>6 DEF SendCheck
<1>7. ASSUME NEW p \in Procs, NEW r \in Rows, NEW d \in Deliveries,
             NEW e \in Expiries, NEW a \in Approvals \cup {NoApproval},
             Persist(p, r, d, e, a)
      PROVE  SchedulerInv'
  BY <1>7 DEF Persist, ConsumeApproval
<1>8. ASSUME NEW p \in Procs, PersistFails(p) PROVE SchedulerInv'
  BY <1>8 DEF PersistFails, Exit
<1>9. ASSUME NEW p \in Procs, StartRun(p) PROVE SchedulerInv'
  BY <1>9 DEF StartRun, DueScan
<1>10. ASSUME NEW p \in Procs, EndRun(p) PROVE SchedulerInv'
  BY <1>10 DEF EndRun, Exit
<1>11. ASSUME NEW p \in Procs, NEW r \in Rows, SkipRow(p, r) PROVE SchedulerInv'
  BY <1>11 DEF SkipRow, RowDone, AtRow
<1>12. ASSUME NEW p \in Procs, NEW r \in Rows, ExpireRow(p, r) PROVE SchedulerInv'
  BY <1>12 DEF ExpireRow, RowDone, RestoreApproval, AtRow
<1>13. ASSUME NEW p \in Procs, NEW r \in Rows, ClaimRow(p, r) PROVE SchedulerInv'
  BY <1>13 DEF ClaimRow, Claimable, AtRow
<1>14. ASSUME NEW p \in Procs, NEW r \in Rows, ReleaseRaises(p, r)
       PROVE  SchedulerInv'
  BY <1>14 DEF ReleaseRaises, AtRow
<1>15. ASSUME NEW p \in Procs, Upload(p) PROVE SchedulerInv'
  BY <1>15 DEF Upload
<1>16. ASSUME NEW p \in Procs, UploadRaises(p) PROVE SchedulerInv'
  BY <1>16 DEF UploadRaises
<1>17. ASSUME NEW p \in Procs, RecordSent(p) PROVE SchedulerInv'
  BY <1>17 DEF RecordSent
<1>18. ASSUME NEW p \in Procs, RecordFailure(p) PROVE SchedulerInv'
  <2> DEFINE r == current[p]
  <2>1. /\ r \in Rows
        /\ state[r] \notin {"absent", "deleted"}
        /\ failures' = [failures EXCEPT ![r] = @ + 1]
        /\ UNCHANGED <<clock, consent, deliverAt, approvalOf, relay, runNow>>
    BY <1>18 DEF RecordFailure
  <2>2. \A q \in Rows :
           \/ state'[q] = state[q]
           \/ q = r /\ state[q] = "scheduled" /\ state'[q] = "dead"
    BY <1>18, <2>1 DEF RecordFailure
  <2>3. \A a \in Approvals : approval[a] # "consumed" => approval'[a] # "consumed"
    BY <1>18, <2>1 DEF RecordFailure, RestoreApproval
  <2>4. /\ notices \subseteq notices'
        /\ state'[r] # state[r] /\ approvalOf[r] # NoApproval => r \in notices'
        /\ \A a \in Approvals : approval'[a] # approval[a] =>
               approvalOf[r] = a /\ r \in notices'
    BY <1>18, <2>1 DEF RecordFailure, RestoreApproval
  <2>5. ProcInv' /\ ClaimInv'
    BY <1>18, <2>1, <2>2 DEF RecordFailure, RowDone
  <2>6. AbsentInv' /\ NoStuckRow'
    BY <1>18, <2>1, <2>2 DEF RecordFailure
  <2>7. ApprovalInv' /\ ApprovalSharedOnlyIfReported'
    BY <2>1, <2>3, <2>4
  <2>8. UndeliveredIsReported'
    BY <2>1, <2>2, <2>4
  <2>9. NeverSentTwice' /\ OnlyReleasedIsSent' /\ NeverEarly'
    BY <2>1, <2>2
  <2>10. QED
    BY <2>5, <2>6, <2>7, <2>8, <2>9
<1>19. ASSUME NEW p \in Procs, RunAborts(p) PROVE SchedulerInv'
  BY <1>19 DEF RunAborts, Exit
<1>20. ASSUME NEW p \in Procs, Crash(p) PROVE SchedulerInv'
  BY <1>20 DEF Crash, Exit
<1>21. CASE UNCHANGED vars
  BY <1>21 DEF vars
<1>22. QED
  BY <1>1, <1>2, <1>3, <1>4, <1>5, <1>6, <1>7, <1>8, <1>9, <1>10, <1>11, <1>12,
     <1>13, <1>14, <1>15, <1>16, <1>17, <1>18, <1>19, <1>20, <1>21
  DEF Next, PersistStep, RunStep

\* SchedulerInv is an invariant of the scheduler.
LEMMA SchedulerInvariant == Spec => []SchedulerInv
<1>1. Init => SchedulerInv
  BY SchedulerAssumption
  DEF Init, SchedulerInv, ProcInv, ClaimInv, AbsentInv, ApprovalInv,
      NeverSentTwice, OnlyReleasedIsSent, NeverEarly, NoStuckRow,
      UndeliveredIsReported, ApprovalSharedOnlyIfReported
<1>2. QED
  BY <1>1, TypeInvariant, SchedulerStep, PTL DEF Spec

\* However run_due() loops race and wherever processes die, no envelope is
\* handed to the relay twice.
THEOREM SentAtMostOnce == Spec => []NeverSentTwice
  BY SchedulerInvariant, PTL DEF SchedulerInv

\* Cancel (and expiry, and dead-lettering) wins over release: what reached
\* the relay is a released row.
THEOREM CancelWins == Spec => []OnlyReleasedIsSent
  BY SchedulerInvariant, PTL DEF SchedulerInv

\* No time capsule leaves before its deliver_at, although each run works
\* with the time it started at.
THEOREM CapsulesWait == Spec => []NeverEarly
  BY SchedulerInvariant, PTL DEF SchedulerInv

\* The failure counter of a row still on offer is below the limit, although
\* stale runs keep counting failures against rows others finished.
THEOREM PoisonRowsLeaveTheQueue == Spec => []NoStuckRow
  BY SchedulerInvariant, PTL DEF SchedulerInv

\* Expired and dead-lettered rows that carry an approval are reported to the operator.
THEOREM ApprovalsAccounted == Spec => []UndeliveredIsReported
  BY SchedulerInvariant, PTL DEF SchedulerInv

\* Of any number of sends racing for one human approval a second one carries it only
\* after the operator was told that a row with it is undelivered.
THEOREM ApprovalsAreNotReused == Spec => []ApprovalSharedOnlyIfReported
  BY SchedulerInvariant, PTL DEF SchedulerInv

\* A row that reached a terminal state never leaves it except by teardown.
THEOREM TerminalStatesAreFinal == Spec => TerminalIsFinal
<1> DEFINE Final == \A r \in Rows : state[r] \in Terminal =>
                       state'[r] = state[r] \/ state'[r] = "deleted"
<1>1. TypeInv /\ [Next]_vars => [Final]_vars
  <2> SUFFICES ASSUME TypeInv, Next PROVE Final
    OBVIOUS
  <2> USE DEF TypeInv, HoldsRow, TypeOK, Terminal, RowStates, rowVars
  <2>1. CASE Tick \/ Revoke \/ (\E a \in Approvals : CreateApproval(a))
    BY <2>1 DEF Tick, Revoke, CreateApproval
  <2>2. CASE TeardownDelete
    BY <2>2 DEF TeardownDelete
  <2>3. ASSUME NEW r \in Rows, Cancel(r) PROVE Final
    BY <2>3 DEF Cancel
  <2>4. ASSUME NEW p \in Procs,
               SendCheck(p) \/ PersistFails(p) \/ StartRun(p) \/ EndRun(p)
                 \/ Upload(p) \/ UploadRaises(p) \/ RecordSent(p)
                 \/ RunAborts(p) \/ Crash(p)
        PROVE  Final
    BY <2>4 DEF SendCheck, PersistFails, StartRun, EndRun, Upload, UploadRaises,
                RecordSent, RunAborts, Crash
  <2>5. ASSUME NEW p \in Procs, NEW r \in Rows, NEW d, NEW e, NEW a,
               Persist(p, r, d, e, a)
        PROVE  Final
    BY <2>5 DEF Persist
  <2>6. ASSUME NEW p \in Procs, NEW r \in Rows,
               SkipRow(p, r) \/ ReleaseRaises(p, r)
        PROVE  Final
    BY <2>6 DEF SkipRow, ReleaseRaises
  <2>7. ASSUME NEW p \in Procs, NEW r \in Rows, ExpireRow(p, r) \/ ClaimRow(p, r)
        PROVE  Final
    BY <2>7 DEF ExpireRow, ClaimRow, Claimable
  <2>8. ASSUME NEW p \in Procs, RecordFailure(p) PROVE Final
    BY <2>8 DEF RecordFailure
  <2>9. QED
    BY <2>1, <2>2, <2>3, <2>4, <2>5, <2>6, <2>7, <2>8
    DEF Next, PersistStep, RunStep
<1>2. QED
  BY <1>1, TypeInvariant, PTL DEF Spec, TerminalIsFinal
=============================================================================
