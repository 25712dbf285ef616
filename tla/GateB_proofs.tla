----------------------------- MODULE GateB_proofs -----------------------------
(***************************************************************************)
(* Proofs about GateB for every set of transactions and every bound on     *)
(* crashes and faults.  The safety properties follow from one inductive    *)
(* invariant, IInv: what the program counter of the process that holds the *)
(* ledger lock says about the transaction it works on (Position), what the *)
(* files say about each other whoever holds the lock (Disk), and what a    *)
(* recovery scan knows about the transactions it has passed (Scan).        *)
(*                                                                         *)
(* Two more invariants are conditional on what has failed so far: Frozen   *)
(* (no failing write) for QuarantineFreezesAdmission, and Linear (no failing *)
(* write and no crash) for what is left of NoFork.                         *)
(***************************************************************************)
EXTENDS GateB, TLAPS

Decided == {"COMMITTED", "QUARANTINED"}
NoTrace(t) == snap[t] = "none" /\ staging[t] # "marker" /\ pointer # t

ScanPcs == {"rec", "recQuarantine", "recLock", "recHead", "recJournal"}
CasFailurePcs == {"casQuarantine", "casLock", "casRollback"}

(* Where the lock holder is in its protocol, and the transaction it is at.   *)
Position ==
  /\ pc \in {"jPrepared", "setCommitting"} => txState[cur] = "PREPARED"
  /\ pc \in {"jCommitting", "stage", "marker", "promote", "transition", "switch",
             "cas", "casQuarantine", "hAbort"} => txState[cur] = "COMMITTING"
  /\ pc \in {"transition", "switch", "cas"} \cup CasFailurePcs => snap[cur] # "none"
  /\ pc \in {"cas"} \cup CasFailurePcs => pointer = cur
  /\ pc \in {"setHead", "jCommitted", "recHead", "recJournal"}
       => txState[cur] = "COMMITTED"
  /\ pc \in {"casLock", "casRollback", "hLock", "hJournal", "readLock"}
       => txState[cur] = "QUARANTINED"
  /\ pc = "handler" => \/ txState[cur] \in {"COMMITTING", "COMMITTED"}
                       \/ txState[cur] = "QUARANTINED" /\ snap[cur] # "none"
  /\ pc = "hQuarantine" => txState[cur] \in {"COMMITTING", "COMMITTED", "QUARANTINED"}
  /\ pc \in {"hRecord", "hRollback", "hjAborted"}
       => txState[cur] \in {"COMMITTING", "ABORTED"}
  /\ pc \in {"hAbort", "hRecord", "hRollback", "hjAborted"} => NoTrace(cur)

(* The safety mode was NORMAL when the service took the lock, and nothing else *)
(* can lock the system before it has committed; the runner took a record that  *)
(* chains off genesis.                                                         *)
Unlocked ==
  /\ drv = "service" /\ pc \in ServicePcs \ {"setHead", "jCommitted"} => mode = "NORMAL"
  /\ drv = "runner" /\ pc \in ServicePcs => UseRunner /\ parent[cur] = Genesis

(* The files, whoever holds the lock.                                         *)
Disk ==
  /\ \A t \in Tx : staging[t] = "marker" \/ snap[t] # "none"
                     => txState[t] \in {"COMMITTING"} \cup Decided
  /\ \A t \in Tx : t \in {pointer, trans.prev, trans.new} => snap[t] # "none"
  /\ \A t \in Tx : head = t \/ t \in acked
                     => txState[t] \in Decided /\ snap[t] # "none"
  /\ \A t \in Tx : parent[t] \in Tx
                     => txState[parent[t]] \in Decided /\ snap[parent[t]] # "none"
  /\ \A t \in Tx : txState[t] = "COMMITTED" => snap[t] # "none"
  /\ \A t \in Tx : journal[t] = "COMMITTED" => txState[t] \in Decided

(* What a scan has left to do, and what it has made sure of.                   *)
Scan ==
  /\ rq # {} => pc \in ScanPcs \cup CasFailurePcs
  /\ pc \in ScanPcs \ {"rec"} => cur \in rq
  /\ pc \in CasFailurePcs /\ rq # {} => cur \in rq
  /\ pc = "casRollback" => mode = "QUARANTINE_LOCKED"
  /\ pc \in ScanPcs \/ rq # {} =>
       \A t \in Tx \ rq : txState[t] \in {"COMMITTING", "QUARANTINED"}
                             => mode = "QUARANTINE_LOCKED"

IInv == TypeOK /\ Position /\ Unlocked /\ Disk /\ Scan

\* A fresh storage root is well typed.
LEMMA TypeInit == Init => TypeOK
  BY TxAssumption, BoundAssumption
     DEF Init, TypeOK, NoTransition, Heads, Pointers, DurableTransactionState, Pcs

\* Every write keeps the types, action by action.
LEMMA TypeNext == TypeOK /\ [Next]_vars => TypeOK'
<1> SUFFICES ASSUME TypeOK, [Next]_vars PROVE TypeOK'
  OBVIOUS
<1> USE TxAssumption, BoundAssumption
    DEF TypeOK, Heads, Pointers, DurableTransactionState, Pcs, ServicePcs, HandlerPcs,
        RecoveryPcs, diskVars, procVars, histVars
<1>1. CASE JournalPrepared
  BY <1>1 DEF JournalPrepared, Count, Put, OrRaise, Outcomes
<1>2. CASE SetCommitting
  BY <1>2 DEF SetCommitting, Count, Put, OrRaise, Outcomes
<1>3. CASE JournalCommitting
  BY <1>3 DEF JournalCommitting, Count, Put, OrRaise, Outcomes
<1>4. CASE StageData
  BY <1>4 DEF StageData, Count, Put, Then, Outcomes
<1>5. CASE WriteMarker
  BY <1>5 DEF WriteMarker, Count, Put, Then, Outcomes
<1>6. CASE Promote
  BY <1>6 DEF Promote, Count, Put, Then, Outcomes
<1>7. CASE WriteTransition
  BY <1>7 DEF WriteTransition, Count, Then, Outcomes
<1>8. CASE SwitchPointer
  BY <1>8 DEF SwitchPointer, Count, Then, Outcomes
<1>9. CASE CasCommitted
  BY <1>9 DEF CasCommitted, Count, Put, Then, Outcomes
<1>10. CASE CasMismatch
  BY <1>10 DEF CasMismatch, Misread
<1>11. CASE CasFailureQuarantine
  BY <1>11 DEF CasFailureQuarantine, Count, Put, Then, ScanOrRaise, StillScanning,
         Outcomes
<1>12. CASE CasFailureLock
  BY <1>12 DEF CasFailureLock, Count, Then, ScanOrRaise, StillScanning, Outcomes
<1>13. CASE CasFailureRollback
  BY <1>13 DEF CasFailureRollback, Count, ScanOrRaise, Scanned, Outcomes
<1>14. CASE SetHead
  BY <1>14 DEF SetHead, Count, Then, Outcomes
<1>15. CASE JournalCommitted
  BY <1>15 DEF JournalCommitted, Count, Put, JournalBestEffort, Outcomes
<1>16. CASE HandlerCommitted
  BY <1>16 DEF HandlerCommitted
<1>17. CASE HandlerDecides
  BY <1>17 DEF HandlerDecides, Misread
<1>18. CASE HandlerQuarantine
  BY <1>18 DEF HandlerQuarantine, Count, Put, OrRaise, Outcomes
<1>19. CASE HandlerLock
  BY <1>19 DEF HandlerLock, Count, OrRaise, Outcomes
<1>20. CASE HandlerJournal
  BY <1>20 DEF HandlerJournal, Count, Put, JournalBestEffort, Outcomes
<1>21. CASE HandlerAbort
  BY <1>21 DEF HandlerAbort, Misread, Count, Put, OrRaise, Outcomes
<1>22. CASE HandlerAbortRecord
  BY <1>22 DEF HandlerAbortRecord, Count, Put, OrRaise, Outcomes
<1>23. CASE HandlerRollback
  BY <1>23 DEF HandlerRollback, Count, Put, Outcomes
<1>24. CASE HandlerJournalAborted
  BY <1>24 DEF HandlerJournalAborted, Count, Put, JournalBestEffort, Outcomes
<1>25. ASSUME NEW t \in Tx, RecoverQuarantine(t) PROVE TypeOK'
  BY <1>25 DEF RecoverQuarantine, Count, Put, ScanOrRaise, StillScanning, Outcomes,
         NextScanned
<1>25a. ASSUME NEW t \in Tx, RecoverMisread(t) PROVE TypeOK'
  BY <1>25a DEF RecoverMisread, Misread, NextScanned
<1>26. ASSUME NEW t \in Tx, RecoverQuarantined(t) PROVE TypeOK'
  BY <1>26 DEF RecoverQuarantined, NextScanned
<1>27. ASSUME NEW t \in Tx, RecoverCommit(t) PROVE TypeOK'
  <2>1. CASE \E o \in Outcomes : /\ txState' = Put(txState, t, "COMMITTED", o)
                                /\ Count(o)
                                /\ pc' = ScanOrRaise("recHead", o)
                                /\ rq' = StillScanning(o)
    BY <1>27, <2>1 DEF RecoverCommit, Count, Put, ScanOrRaise, StillScanning, Outcomes
  <2>2. CASE Misread(t) /\ pc' = "casQuarantine" /\ UNCHANGED <<txState, rq>>
    BY <1>27, <2>2 DEF RecoverCommit, Misread
  <2> QED
    BY <1>27, <2>1, <2>2 DEF RecoverCommit
<1>28. ASSUME NEW t \in Tx, RecoverConfirm(t) PROVE TypeOK'
  BY <1>28 DEF RecoverConfirm, NextScanned
<1>29. ASSUME NEW t \in Tx, RecoverDiscard(t) PROVE TypeOK'
  BY <1>29 DEF RecoverDiscard, Count, Put, Outcomes, NextScanned
<1>30. CASE RecoverLock
  BY <1>30 DEF RecoverLock, Count, ScanOrRaise, Scanned, Outcomes
<1>31. CASE RecoverHead
  BY <1>31 DEF RecoverHead, Count, ScanOrRaise, StillScanning, Outcomes
<1>32. CASE RecoverJournal
  BY <1>32 DEF RecoverJournal, Count, Put, JournalBestEffort, Outcomes
<1>33. CASE FinishRecovery
  BY <1>33 DEF FinishRecovery, ScanComplete
<1>34. CASE ReaderLock
  BY <1>34 DEF ReaderLock, Count, Outcomes
<1>35. CASE Restart
  BY <1>35 DEF Restart, Discovered
<1>36. CASE StartRecovery
  BY <1>36 DEF StartRecovery, Discovered
<1>37. ASSUME NEW t \in Tx, BeginActivation(t) PROVE TypeOK'
  BY <1>37 DEF BeginActivation, Count, Put, OrRaise, Outcomes, MayActivate
<1>38. ASSUME NEW t \in Tx, BeginRunnerActivation(t) PROVE TypeOK'
  BY <1>38 DEF BeginRunnerActivation, Count, Put, OrRaise, Outcomes
<1>39. ASSUME NEW t \in Tx, ReadDamaged(t) PROVE TypeOK'
  BY <1>39 DEF ReadDamaged, Count, Put, OrRaise, Outcomes
<1>40. ASSUME NEW t \in Tx, DamageSnapshot(t) PROVE TypeOK'
  BY <1>40 DEF DamageSnapshot
<1>41. CASE Crash
  BY <1>41 DEF Crash
<1>42. CASE UNCHANGED vars
  BY <1>42 DEF vars
<1>43. QED
  BY <1>1, <1>2, <1>3, <1>4, <1>5, <1>6, <1>7, <1>8, <1>9, <1>10, <1>11, <1>12,
     <1>13, <1>14, <1>15, <1>16, <1>17, <1>18, <1>19, <1>20, <1>21, <1>22, <1>23,
     <1>24, <1>25, <1>25a, <1>26, <1>27, <1>28, <1>29, <1>30, <1>31, <1>32, <1>33, <1>34,
     <1>35, <1>36, <1>37, <1>38, <1>39, <1>40, <1>41, <1>42
     DEF Next, ProcessStep, ActivationStep, HandlerStep, RecoveryStep

\* Recovery commits only what is COMMITTING, has a snapshot and is pointed at.
LEMMA CommitMeansRecoverable ==
  ASSUME TypeOK, NEW t \in Tx, Verdict(t) = "commit"
  PROVE  /\ txState[t] = "COMMITTING" /\ snap[t] = "ok" /\ pointer = t
         /\ RecoverableIntent(t)
<1>1. txState[t] \in DurableTransactionState \cup {"NONE"}
  BY DEF TypeOK
<1>2. txState[t] = "COMMITTING" /\ CommittingVerdict(t) = "commit"
  BY <1>1 DEF Verdict, DurableTransactionState, CommittedVerdict, AbortedVerdict,
              PreparedVerdict, QuarantinedVerdict
<1>3. QED
  BY <1>2 DEF CommittingVerdict, RecoverableIntent

\* Recovery confirms only what is already COMMITTED.
LEMMA ConfirmMeansCommitted ==
  ASSUME TypeOK, NEW t \in Tx, Verdict(t) = "confirm"
  PROVE  txState[t] = "COMMITTED"
<1>1. txState[t] \in DurableTransactionState \cup {"NONE"}
  BY DEF TypeOK
<1>2. QED
  BY <1>1 DEF Verdict, DurableTransactionState, CommittingVerdict, AbortedVerdict,
              PreparedVerdict, QuarantinedVerdict

\* Recovery passes over nothing that is committed or committing.
LEMMA DiscardMeansUncommitted ==
  ASSUME TypeOK, NEW t \in Tx, Verdict(t) = "discard"
  PROVE  txState[t] \in {"ABORTED", "PREPARED", "NONE"}
<1>1. txState[t] \in DurableTransactionState \cup {"NONE"}
  BY DEF TypeOK
<1>2. QED
  BY <1>1 DEF Verdict, DurableTransactionState, CommittedVerdict, CommittingVerdict,
              QuarantinedVerdict

\* Recovery takes the lock only for a transaction it found QUARANTINED.
LEMMA LockMeansQuarantined ==
  ASSUME TypeOK, NEW t \in Tx, Verdict(t) = "lock"
  PROVE  txState[t] = "QUARANTINED"
<1>1. txState[t] \in DurableTransactionState \cup {"NONE"}
  BY DEF TypeOK
<1>2. QED
  BY <1>1 DEF Verdict, DurableTransactionState, CommittedVerdict, CommittingVerdict,
              AbortedVerdict, PreparedVerdict

\* A fresh storage root satisfies the invariant.
LEMMA IInvInit == Init => IInv
  BY TypeInit, TxAssumption
     DEF Init, IInv, Position, Unlocked, Disk, Scan, NoTransition, ServicePcs, ScanPcs,
         CasFailurePcs, TypeOK, Heads, Pointers

\* Every step, of the service, of recovery and of a crash, keeps the invariant.
LEMMA IInvNext == IInv /\ [Next]_vars => IInv'
<1> SUFFICES ASSUME IInv, [Next]_vars, TypeOK' PROVE (Position /\ Unlocked /\ Disk /\ Scan)'
  BY TypeNext DEF IInv
<1> USE TxAssumption
    DEF IInv, TypeOK, Position, Unlocked, Disk, Scan, NoTrace, Decided, ServicePcs,
        ScanPcs, CasFailurePcs, Heads, Pointers, DurableTransactionState, diskVars,
        procVars, histVars
<1>1. CASE JournalPrepared
  BY <1>1 DEF JournalPrepared, Put, OrRaise, Outcomes
<1>2. CASE SetCommitting
  BY <1>2 DEF SetCommitting, Put, OrRaise, Outcomes
<1>3. CASE JournalCommitting
  BY <1>3 DEF JournalCommitting, Put, OrRaise, Outcomes
<1>4. CASE StageData
  BY <1>4 DEF StageData, Put, Then, Outcomes
<1>5. CASE WriteMarker
  BY <1>5 DEF WriteMarker, Put, Then, Outcomes
<1>6. CASE Promote
  BY <1>6 DEF Promote, Put, Then, Outcomes
<1>7. CASE WriteTransition
  BY <1>7 DEF WriteTransition, Then, Outcomes
<1>8. CASE SwitchPointer
  BY <1>8 DEF SwitchPointer, Then, Outcomes
<1>9. CASE CasCommitted
  BY <1>9 DEF CasCommitted, Put, Then, Outcomes
<1>10. CASE CasMismatch
  BY <1>10 DEF CasMismatch, Misread
<1>11. CASE CasFailureQuarantine
  BY <1>11 DEF CasFailureQuarantine, Put, Then, ScanOrRaise, StillScanning, Outcomes
<1>12. CASE CasFailureLock
  BY <1>12 DEF CasFailureLock, Then, ScanOrRaise, StillScanning, Outcomes
<1>13. CASE CasFailureRollback
  BY <1>13 DEF CasFailureRollback, ScanOrRaise, Scanned, Outcomes
<1>14. CASE SetHead
  BY <1>14 DEF SetHead, Then, Outcomes
<1>15. CASE JournalCommitted
  BY <1>15 DEF JournalCommitted, Put, JournalBestEffort, Outcomes
<1>16. CASE HandlerCommitted
  BY <1>16 DEF HandlerCommitted
<1>17. CASE HandlerDecides
  BY <1>17 DEF HandlerDecides, Misread, has_durable_commit_marker,
         has_any_durable_commit_evidence, PreHead
<1>18. CASE HandlerQuarantine
  BY <1>18 DEF HandlerQuarantine, Put, OrRaise, Outcomes
<1>19. CASE HandlerLock
  BY <1>19 DEF HandlerLock, OrRaise, Outcomes
<1>20. CASE HandlerJournal
  BY <1>20 DEF HandlerJournal, Put, JournalBestEffort, Outcomes
<1>21. CASE HandlerAbort
  <2>1. CASE \E o \in Outcomes :
               /\ txState' = IF txState[cur] = "COMMITTING"
                             THEN Put(txState, cur, "ABORTED", o) ELSE txState
               /\ Count(o)
               /\ pc' = OrRaise("hRecord", o)
    BY <1>21, <2>1 DEF HandlerAbort, Put, OrRaise, Outcomes
  <2>2. CASE Misread(cur) /\ pc' = "hRecord" /\ UNCHANGED txState
    BY <1>21, <2>2 DEF HandlerAbort
  <2> QED
    BY <1>21, <2>1, <2>2 DEF HandlerAbort
<1>22. CASE HandlerAbortRecord
  BY <1>22 DEF HandlerAbortRecord, Put, OrRaise, Outcomes
<1>23. CASE HandlerRollback
  BY <1>23 DEF HandlerRollback, Put, Outcomes
<1>24. CASE HandlerJournalAborted
  BY <1>24 DEF HandlerJournalAborted, Put, JournalBestEffort, Outcomes
<1>25. ASSUME NEW t \in Tx, RecoverQuarantine(t) PROVE (Position /\ Unlocked /\ Disk /\ Scan)'
  BY <1>25 DEF RecoverQuarantine, Put, ScanOrRaise, StillScanning, Outcomes, NextScanned
<1>25a. ASSUME NEW t \in Tx, RecoverMisread(t) PROVE (Position /\ Unlocked /\ Disk /\ Scan)'
  BY <1>25a DEF RecoverMisread, NextScanned
<1>26. ASSUME NEW t \in Tx, RecoverQuarantined(t) PROVE (Position /\ Unlocked /\ Disk /\ Scan)'
  BY <1>26, LockMeansQuarantined DEF RecoverQuarantined, NextScanned
<1>27. ASSUME NEW t \in Tx, RecoverCommit(t) PROVE (Position /\ Unlocked /\ Disk /\ Scan)'
  <2>1. txState[t] = "COMMITTING" /\ snap[t] = "ok" /\ pointer = t
    BY <1>27, CommitMeansRecoverable DEF RecoverCommit
  <2>2. CASE \E o \in Outcomes : /\ txState' = Put(txState, t, "COMMITTED", o)
                                /\ Count(o)
                                /\ pc' = ScanOrRaise("recHead", o)
                                /\ rq' = StillScanning(o)
    BY <1>27, <2>1, <2>2
       DEF RecoverCommit, Put, ScanOrRaise, StillScanning, Outcomes, NextScanned
  <2>3. CASE Misread(t) /\ pc' = "casQuarantine" /\ UNCHANGED <<txState, rq>>
    BY <1>27, <2>1, <2>3 DEF RecoverCommit, NextScanned
  <2> QED
    BY <1>27, <2>2, <2>3 DEF RecoverCommit
<1>28. ASSUME NEW t \in Tx, RecoverConfirm(t) PROVE (Position /\ Unlocked /\ Disk /\ Scan)'
  BY <1>28, ConfirmMeansCommitted DEF RecoverConfirm, NextScanned
<1>29. ASSUME NEW t \in Tx, RecoverDiscard(t) PROVE (Position /\ Unlocked /\ Disk /\ Scan)'
  BY <1>29, DiscardMeansUncommitted DEF RecoverDiscard, Put, Outcomes, NextScanned
<1>30. CASE RecoverLock
  BY <1>30 DEF RecoverLock, ScanOrRaise, Scanned, Outcomes
<1>31. CASE RecoverHead
  BY <1>31 DEF RecoverHead, ScanOrRaise, StillScanning, Outcomes
<1>32. CASE RecoverJournal
  BY <1>32 DEF RecoverJournal, Put, JournalBestEffort, Outcomes
<1>33. CASE FinishRecovery
  BY <1>33 DEF FinishRecovery, ScanComplete
<1>34. CASE ReaderLock
  BY <1>34 DEF ReaderLock, Outcomes
<1>35. CASE Restart
  BY <1>35 DEF Restart, Discovered
<1>36. CASE StartRecovery
  BY <1>36 DEF StartRecovery, Discovered
<1>37. ASSUME NEW t \in Tx, BeginActivation(t) PROVE (Position /\ Unlocked /\ Disk /\ Scan)'
  BY <1>37 DEF BeginActivation, Put, OrRaise, Outcomes, MayActivate
<1>38. ASSUME NEW t \in Tx, BeginRunnerActivation(t) PROVE (Position /\ Unlocked /\ Disk /\ Scan)'
  BY <1>38 DEF BeginRunnerActivation, Put, OrRaise, Outcomes
<1>39. ASSUME NEW t \in Tx, ReadDamaged(t) PROVE (Position /\ Unlocked /\ Disk /\ Scan)'
  BY <1>39 DEF ReadDamaged, Put, OrRaise, Outcomes
<1>40. ASSUME NEW t \in Tx, DamageSnapshot(t) PROVE (Position /\ Unlocked /\ Disk /\ Scan)'
  BY <1>40 DEF DamageSnapshot
<1>41. CASE Crash
  BY <1>41 DEF Crash
<1>42. CASE UNCHANGED vars
  BY <1>42 DEF vars
<1>43. QED
  BY <1>1, <1>2, <1>3, <1>4, <1>5, <1>6, <1>7, <1>8, <1>9, <1>10, <1>11, <1>12,
     <1>13, <1>14, <1>15, <1>16, <1>17, <1>18, <1>19, <1>20, <1>21, <1>22, <1>23,
     <1>24, <1>25, <1>25a, <1>26, <1>27, <1>28, <1>29, <1>30, <1>31, <1>32, <1>33, <1>34,
     <1>35, <1>36, <1>37, <1>38, <1>39, <1>40, <1>41, <1>42
     DEF Next, ProcessStep, ActivationStep, HandlerStep, RecoveryStep

(* The inductive invariant holds in every reachable state.                     *)
THEOREM Invariance == Spec => []IInv
  BY IInvInit, IInvNext, PTL DEF Spec

(* Every file of the storage root and every register of the lock holder keeps  *)
(* its type, whatever interrupts the writes.                                   *)
THEOREM TypeCorrect == Spec => []TypeOK
<1>1. IInv => TypeOK
  BY DEF IInv
<1>2. QED
  BY Invariance, <1>1, PTL

(* B94 for any number of activations, crashes and faults: the handler's choice *)
(* between abort and quarantine never aborts a transaction that left the       *)
(* staging namespace.                                                          *)
THEOREM AbortIsClean == Spec => []AbortedLeavesNoTrace
<1>1. IInv => AbortedLeavesNoTrace
  BY DEF IInv, TypeOK, Disk, Decided, AbortedLeavesNoTrace
<1>2. QED
  BY Invariance, <1>1, PTL

(* What execute_atomic_activation or the runner reported as activated stays    *)
(* committed with its snapshot, or is quarantined; nothing ever aborts it.     *)
THEOREM AcknowledgedIsDurable == Spec => []AcknowledgedSurvives
<1>1. IInv => AcknowledgedSurvives
  BY DEF IInv, TypeOK, Disk, Decided, AcknowledgedSurvives
<1>2. QED
  BY Invariance, <1>1, PTL

(* The head, and every head a GO record was signed against, belongs to a       *)
(* transaction that committed and whose snapshot is still there.               *)
THEOREM HeadIsGrounded == Spec => []ChainGrounded
<1>1. IInv => ChainGrounded
  BY DEF IInv, TypeOK, Disk, Decided, ChainGrounded
<1>2. QED
  BY Invariance, <1>1, PTL

(* The pointer and both ends of the transition record resolve to a promoted    *)
(* snapshot, after any rollback and any interrupted activation.                *)
THEOREM PointerIsGrounded == Spec => []PointerResolves
<1>1. IInv => PointerResolves
  BY DEF IInv, TypeOK, Disk, Decided, PointerResolves
<1>2. QED
  BY Invariance, <1>1, PTL


\* No step takes back the decision on an activation, action by action.
LEMMA DecidedNext == IInv /\ [Next]_vars => [DecidedStep]_vars
<1> SUFFICES ASSUME IInv, [Next]_vars PROVE DecidedStep
  OBVIOUS
<1> USE DEF IInv, TypeOK, Position, DecidedStep, DurableTransactionState, diskVars,
            procVars, histVars
<1>1. CASE JournalPrepared
  BY <1>1 DEF JournalPrepared, Put, OrRaise, Outcomes
<1>2. CASE SetCommitting
  BY <1>2 DEF SetCommitting, Put, OrRaise, Outcomes
<1>3. CASE JournalCommitting
  BY <1>3 DEF JournalCommitting, Put, OrRaise, Outcomes
<1>4. CASE StageData
  BY <1>4 DEF StageData, Put, Then, Outcomes
<1>5. CASE WriteMarker
  BY <1>5 DEF WriteMarker, Put, Then, Outcomes
<1>6. CASE Promote
  BY <1>6 DEF Promote, Put, Then, Outcomes
<1>7. CASE WriteTransition
  BY <1>7 DEF WriteTransition, Then, Outcomes
<1>8. CASE SwitchPointer
  BY <1>8 DEF SwitchPointer, Then, Outcomes
<1>9. CASE CasCommitted
  BY <1>9 DEF CasCommitted, Put, Then, Outcomes
<1>10. CASE CasMismatch
  BY <1>10 DEF CasMismatch, Misread
<1>11. CASE CasFailureQuarantine
  BY <1>11 DEF CasFailureQuarantine, Put, Then, ScanOrRaise, StillScanning, Outcomes
<1>12. CASE CasFailureLock
  BY <1>12 DEF CasFailureLock, Then, ScanOrRaise, StillScanning, Outcomes
<1>13. CASE CasFailureRollback
  BY <1>13 DEF CasFailureRollback, ScanOrRaise, Scanned, Outcomes
<1>14. CASE SetHead
  BY <1>14 DEF SetHead, Then, Outcomes
<1>15. CASE JournalCommitted
  BY <1>15 DEF JournalCommitted, Put, JournalBestEffort, Outcomes
<1>16. CASE HandlerCommitted
  BY <1>16 DEF HandlerCommitted
<1>17. CASE HandlerDecides
  BY <1>17 DEF HandlerDecides, Misread
<1>18. CASE HandlerQuarantine
  BY <1>18 DEF HandlerQuarantine, Put, OrRaise, Outcomes
<1>19. CASE HandlerLock
  BY <1>19 DEF HandlerLock, OrRaise, Outcomes
<1>20. CASE HandlerJournal
  BY <1>20 DEF HandlerJournal, Put, JournalBestEffort, Outcomes
<1>21. CASE HandlerAbort
  BY <1>21 DEF HandlerAbort, Put, OrRaise, Outcomes
<1>22. CASE HandlerAbortRecord
  BY <1>22 DEF HandlerAbortRecord, Put, OrRaise, Outcomes
<1>23. CASE HandlerRollback
  BY <1>23 DEF HandlerRollback, Put, Outcomes
<1>24. CASE HandlerJournalAborted
  BY <1>24 DEF HandlerJournalAborted, Put, JournalBestEffort, Outcomes
<1>25. ASSUME NEW t \in Tx, RecoverQuarantine(t) PROVE DecidedStep
  BY <1>25 DEF RecoverQuarantine, Put, ScanOrRaise, StillScanning, Outcomes,
         NextScanned
<1>25a. ASSUME NEW t \in Tx, RecoverMisread(t) PROVE DecidedStep
  BY <1>25a DEF RecoverMisread
<1>26. ASSUME NEW t \in Tx, RecoverQuarantined(t) PROVE DecidedStep
  BY <1>26, LockMeansQuarantined DEF RecoverQuarantined, NextScanned
<1>27. ASSUME NEW t \in Tx, RecoverCommit(t) PROVE DecidedStep
  BY <1>27, CommitMeansRecoverable DEF RecoverCommit, Put, ScanOrRaise,
         StillScanning, Outcomes, NextScanned
<1>28. ASSUME NEW t \in Tx, RecoverConfirm(t) PROVE DecidedStep
  BY <1>28, ConfirmMeansCommitted DEF RecoverConfirm, NextScanned
<1>29. ASSUME NEW t \in Tx, RecoverDiscard(t) PROVE DecidedStep
  BY <1>29, DiscardMeansUncommitted DEF RecoverDiscard, Put, Outcomes, NextScanned
<1>30. CASE RecoverLock
  BY <1>30 DEF RecoverLock, ScanOrRaise, Scanned, Outcomes
<1>31. CASE RecoverHead
  BY <1>31 DEF RecoverHead, ScanOrRaise, StillScanning, Outcomes
<1>32. CASE RecoverJournal
  BY <1>32 DEF RecoverJournal, Put, JournalBestEffort, Outcomes
<1>33. CASE FinishRecovery
  BY <1>33 DEF FinishRecovery, ScanComplete
<1>34. CASE ReaderLock
  BY <1>34 DEF ReaderLock, Outcomes
<1>35. CASE Restart
  BY <1>35 DEF Restart, Discovered
<1>36. CASE StartRecovery
  BY <1>36 DEF StartRecovery, Discovered
<1>37. ASSUME NEW t \in Tx, BeginActivation(t) PROVE DecidedStep
  BY <1>37 DEF BeginActivation, Put, OrRaise, Outcomes, MayActivate
<1>38. ASSUME NEW t \in Tx, BeginRunnerActivation(t) PROVE DecidedStep
  BY <1>38 DEF BeginRunnerActivation, Put, OrRaise, Outcomes
<1>39. ASSUME NEW t \in Tx, ReadDamaged(t) PROVE DecidedStep
  BY <1>39 DEF ReadDamaged, Put, OrRaise, Outcomes
<1>40. ASSUME NEW t \in Tx, DamageSnapshot(t) PROVE DecidedStep
  BY <1>40 DEF DamageSnapshot
<1>41. CASE Crash
  BY <1>41 DEF Crash
<1>42. CASE UNCHANGED vars
  BY <1>42 DEF vars
<1>43. QED
  BY <1>1, <1>2, <1>3, <1>4, <1>5, <1>6, <1>7, <1>8, <1>9, <1>10, <1>11, <1>12,
     <1>13, <1>14, <1>15, <1>16, <1>17, <1>18, <1>19, <1>20, <1>21, <1>22, <1>23,
     <1>24, <1>25, <1>25a, <1>26, <1>27, <1>28, <1>29, <1>30, <1>31, <1>32, <1>33, <1>34,
     <1>35, <1>36, <1>37, <1>38, <1>39, <1>40, <1>41, <1>42
     DEF Next, ProcessStep, ActivationStep, HandlerStep, RecoveryStep

(* Whoever writes the state file - service, runner, handler, recovery, reader - *)
(* a decided outcome is only ever replaced by QUARANTINED, and QUARANTINED by   *)
(* nothing.                                                                     *)
THEOREM OutcomeIsFinal == Spec => DecidedOnce
  BY Invariance, DecidedNext, PTL DEF Spec, DecidedOnce

\* No step of a locked root commits anything that recovery does not complete.
LEMMA LockedNext == IInv /\ [Next]_vars => [LockedStep]_vars
<1> SUFFICES ASSUME IInv, [Next]_vars PROVE LockedStep
  OBVIOUS
<1> USE DEF IInv, TypeOK, Position, Unlocked, LockedStep, ServicePcs, diskVars, procVars,
            histVars
<1>1. CASE JournalPrepared
  BY <1>1 DEF JournalPrepared, Put, OrRaise, Outcomes
<1>2. CASE SetCommitting
  BY <1>2 DEF SetCommitting, Put, OrRaise, Outcomes
<1>3. CASE JournalCommitting
  BY <1>3 DEF JournalCommitting, Put, OrRaise, Outcomes
<1>4. CASE StageData
  BY <1>4 DEF StageData, Put, Then, Outcomes
<1>5. CASE WriteMarker
  BY <1>5 DEF WriteMarker, Put, Then, Outcomes
<1>6. CASE Promote
  BY <1>6 DEF Promote, Put, Then, Outcomes
<1>7. CASE WriteTransition
  BY <1>7 DEF WriteTransition, Then, Outcomes
<1>8. CASE SwitchPointer
  BY <1>8 DEF SwitchPointer, Then, Outcomes
<1>9. CASE CasCommitted
  BY <1>9 DEF CasCommitted, Put, Then, Outcomes
<1>10. CASE CasMismatch
  BY <1>10 DEF CasMismatch, Misread
<1>11. CASE CasFailureQuarantine
  BY <1>11 DEF CasFailureQuarantine, Put, Then, ScanOrRaise, StillScanning, Outcomes
<1>12. CASE CasFailureLock
  BY <1>12 DEF CasFailureLock, Then, ScanOrRaise, StillScanning, Outcomes
<1>13. CASE CasFailureRollback
  BY <1>13 DEF CasFailureRollback, ScanOrRaise, Scanned, Outcomes
<1>14. CASE SetHead
  BY <1>14 DEF SetHead, Then, Outcomes
<1>15. CASE JournalCommitted
  BY <1>15 DEF JournalCommitted, Put, JournalBestEffort, Outcomes
<1>16. CASE HandlerCommitted
  BY <1>16 DEF HandlerCommitted
<1>17. CASE HandlerDecides
  BY <1>17 DEF HandlerDecides, Misread
<1>18. CASE HandlerQuarantine
  BY <1>18 DEF HandlerQuarantine, Put, OrRaise, Outcomes
<1>19. CASE HandlerLock
  BY <1>19 DEF HandlerLock, OrRaise, Outcomes
<1>20. CASE HandlerJournal
  BY <1>20 DEF HandlerJournal, Put, JournalBestEffort, Outcomes
<1>21. CASE HandlerAbort
  BY <1>21 DEF HandlerAbort, Put, OrRaise, Outcomes
<1>22. CASE HandlerAbortRecord
  BY <1>22 DEF HandlerAbortRecord, Put, OrRaise, Outcomes
<1>23. CASE HandlerRollback
  BY <1>23 DEF HandlerRollback, Put, Outcomes
<1>24. CASE HandlerJournalAborted
  BY <1>24 DEF HandlerJournalAborted, Put, JournalBestEffort, Outcomes
<1>25. ASSUME NEW t \in Tx, RecoverQuarantine(t) PROVE LockedStep
  BY <1>25 DEF RecoverQuarantine, Put, ScanOrRaise, StillScanning, Outcomes,
         NextScanned
<1>25a. ASSUME NEW t \in Tx, RecoverMisread(t) PROVE LockedStep
  BY <1>25a DEF RecoverMisread
<1>26. ASSUME NEW t \in Tx, RecoverQuarantined(t) PROVE LockedStep
  BY <1>26, LockMeansQuarantined DEF RecoverQuarantined, NextScanned
<1>27. ASSUME NEW t \in Tx, RecoverCommit(t) PROVE LockedStep
  BY <1>27, CommitMeansRecoverable DEF RecoverCommit, Put, ScanOrRaise,
         StillScanning, Outcomes, NextScanned
<1>28. ASSUME NEW t \in Tx, RecoverConfirm(t) PROVE LockedStep
  BY <1>28, ConfirmMeansCommitted DEF RecoverConfirm, NextScanned
<1>29. ASSUME NEW t \in Tx, RecoverDiscard(t) PROVE LockedStep
  BY <1>29, DiscardMeansUncommitted DEF RecoverDiscard, Put, Outcomes, NextScanned
<1>30. CASE RecoverLock
  BY <1>30 DEF RecoverLock, ScanOrRaise, Scanned, Outcomes
<1>31. CASE RecoverHead
  BY <1>31 DEF RecoverHead, ScanOrRaise, StillScanning, Outcomes
<1>32. CASE RecoverJournal
  BY <1>32 DEF RecoverJournal, Put, JournalBestEffort, Outcomes
<1>33. CASE FinishRecovery
  BY <1>33 DEF FinishRecovery, ScanComplete
<1>34. CASE ReaderLock
  BY <1>34 DEF ReaderLock, Outcomes
<1>35. CASE Restart
  BY <1>35 DEF Restart, Discovered
<1>36. CASE StartRecovery
  BY <1>36 DEF StartRecovery, Discovered
<1>37. ASSUME NEW t \in Tx, BeginActivation(t) PROVE LockedStep
  BY <1>37 DEF BeginActivation, Put, OrRaise, Outcomes, MayActivate
<1>38. ASSUME NEW t \in Tx, BeginRunnerActivation(t) PROVE LockedStep
  BY <1>38 DEF BeginRunnerActivation, Put, OrRaise, Outcomes
<1>39. ASSUME NEW t \in Tx, ReadDamaged(t) PROVE LockedStep
  BY <1>39 DEF ReadDamaged, Put, OrRaise, Outcomes
<1>40. ASSUME NEW t \in Tx, DamageSnapshot(t) PROVE LockedStep
  BY <1>40 DEF DamageSnapshot
<1>41. CASE Crash
  BY <1>41 DEF Crash
<1>42. CASE UNCHANGED vars
  BY <1>42 DEF vars
<1>43. QED
  BY <1>1, <1>2, <1>3, <1>4, <1>5, <1>6, <1>7, <1>8, <1>9, <1>10, <1>11, <1>12,
     <1>13, <1>14, <1>15, <1>16, <1>17, <1>18, <1>19, <1>20, <1>21, <1>22, <1>23,
     <1>24, <1>25, <1>25a, <1>26, <1>27, <1>28, <1>29, <1>30, <1>31, <1>32, <1>33, <1>34,
     <1>35, <1>36, <1>37, <1>38, <1>39, <1>40, <1>41, <1>42
     DEF Next, ProcessStep, ActivationStep, HandlerStep, RecoveryStep

(* After a quarantine has locked the system the activation service commits      *)
(* nothing: only the recovery scan and the runner, which do not look at the     *)
(* safety mode, still can.                                                      *)
THEOREM LockHolds == Spec => LockFreezesActivation
  BY Invariance, LockedNext, PTL DEF Spec, LockFreezesActivation

-----------------------------------------------------------------------------
(* What a quarantine means for admission while nothing has failed: the states  *)
(* that only a failure leads to are not reached, and wherever admission may be *)
(* asked again a quarantined activation has locked the system.                 *)
Frozen ==
  faults = 0 =>
    /\ pc \notin HandlerPcs \cup {"readLock"}
    /\ \A t \in Tx : snap[t] # "bad"
    /\ pc \notin RecoveryPcs \cup {"down"} /\ mode = "NORMAL"
         => \A t \in Tx : txState[t] # "QUARANTINED"

\* A write counts as a fault unless it succeeds.
LEMMA CleanWrite ==
  ASSUME TypeOK, NEW o \in Outcomes, Count(o), faults' = 0
  PROVE  o = "ok" /\ faults = 0
  BY BoundAssumption DEF TypeOK, Outcomes, Count

\* A step that uses up a fault leaves nothing to show.
LEMMA Faulty ==
  ASSUME TypeOK, faults' = faults + 1
  PROVE  Frozen'
  BY BoundAssumption DEF TypeOK, Frozen

\* The steps of an activation quarantine nothing and fail only on a fault.
LEMMA ActivationFreezes ==
  ASSUME IInv, Frozen, ActivationStep
  PROVE  Frozen'
<1> USE DEF Frozen, HandlerPcs, RecoveryPcs
<1> TypeOK /\ (pc \notin {"idle", "down", "rec"} => cur \in Tx)
  BY DEF IInv, TypeOK
<1>1. CASE JournalPrepared
  BY <1>1, CleanWrite DEF JournalPrepared, OrRaise
<1>2. CASE SetCommitting
  BY <1>2, CleanWrite DEF SetCommitting, Put, OrRaise, TypeOK
<1>3. CASE JournalCommitting
  BY <1>3, CleanWrite DEF JournalCommitting, OrRaise
<1>4. CASE StageData
  BY <1>4, CleanWrite DEF StageData, Then
<1>5. CASE WriteMarker
  BY <1>5, CleanWrite DEF WriteMarker, Then
<1>6. CASE Promote
  BY <1>6, CleanWrite DEF Promote, Put, Then, TypeOK
<1>7. CASE WriteTransition
  BY <1>7, CleanWrite DEF WriteTransition, Then
<1>8. CASE SwitchPointer
  BY <1>8, CleanWrite DEF SwitchPointer, Then
<1>9. CASE CasCommitted
  BY <1>9, CleanWrite DEF CasCommitted, Put, Then, TypeOK
<1>10. CASE CasMismatch
  BY <1>10, Faulty DEF CasMismatch, Misread
<1>11. CASE CasFailureQuarantine \/ CasFailureLock \/ CasFailureRollback
  BY <1>11, CleanWrite DEF CasFailureQuarantine, CasFailureLock, CasFailureRollback
<1>12. CASE SetHead
  BY <1>12, CleanWrite DEF SetHead, Then
<1>13. CASE JournalCommitted
  BY <1>13, CleanWrite DEF JournalCommitted, JournalBestEffort
<1>14. QED
  BY <1>1, <1>2, <1>3, <1>4, <1>5, <1>6, <1>7, <1>8, <1>9, <1>10, <1>11, <1>12, <1>13
     DEF ActivationStep

\* The exception handler and the escalation of a reader follow a failure.
LEMMA FailureFreezes ==
  ASSUME IInv, Frozen, HandlerStep \/ ReaderLock
  PROVE  Frozen'
<1> USE DEF Frozen, HandlerPcs, RecoveryPcs
<1> TypeOK
  BY DEF IInv
<1>1. pc \in HandlerPcs \cup {"readLock"}
  BY DEF HandlerStep, HandlerCommitted, HandlerDecides, HandlerQuarantine, HandlerLock,
         HandlerJournal, HandlerAbort, HandlerAbortRecord, HandlerRollback,
         HandlerJournalAborted, ReaderLock
<1>2. faults # 0
  BY <1>1
<1>3. faults' = faults \/ faults' = faults + 1
  BY DEF HandlerStep, HandlerCommitted, HandlerDecides, HandlerQuarantine, HandlerLock,
         HandlerJournal, HandlerAbort, HandlerAbortRecord, HandlerRollback,
         HandlerJournalAborted, ReaderLock, JournalBestEffort, Count, Misread
<1>4. QED
  BY <1>2, <1>3, BoundAssumption DEF TypeOK

\* A scan stays a scan until it has seen every transaction.
LEMMA RecoveryFreezes ==
  ASSUME StartupScan, IInv, Frozen, RecoveryStep
  PROVE  Frozen'
<1> USE DEF Frozen, HandlerPcs, RecoveryPcs
<1> TypeOK
  BY DEF IInv
<1>1. ASSUME NEW t \in Tx, RecoverQuarantine(t) PROVE Frozen'
  BY <1>1, CleanWrite DEF RecoverQuarantine, NextScanned, ScanOrRaise
<1>1a. ASSUME NEW t \in Tx, RecoverMisread(t) PROVE Frozen'
  BY <1>1a, Faulty DEF RecoverMisread, Misread
<1>2. ASSUME NEW t \in Tx, RecoverQuarantined(t) PROVE Frozen'
  BY <1>2 DEF RecoverQuarantined, diskVars, NextScanned
<1>3. ASSUME NEW t \in Tx, RecoverCommit(t) PROVE Frozen'
  BY <1>3, CleanWrite, Faulty DEF RecoverCommit, Misread, NextScanned, ScanOrRaise
<1>4. ASSUME NEW t \in Tx, RecoverConfirm(t) PROVE Frozen'
  BY <1>4 DEF RecoverConfirm, diskVars, NextScanned
<1>5. ASSUME NEW t \in Tx, RecoverDiscard(t) PROVE Frozen'
  BY <1>5, CleanWrite DEF RecoverDiscard, NextScanned
<1>6. CASE RecoverLock
  BY <1>6, CleanWrite DEF RecoverLock, ScanOrRaise
<1>7. CASE RecoverHead
  BY <1>7, CleanWrite DEF RecoverHead, ScanOrRaise
<1>8. CASE RecoverJournal
  BY <1>8, CleanWrite DEF RecoverJournal, JournalBestEffort
<1>9. CASE FinishRecovery
  <2>1. \A t \in Tx : txState[t] = "QUARANTINED" => mode = "QUARANTINE_LOCKED"
    BY <1>9 DEF FinishRecovery, ScanComplete, IInv, Scan, ScanPcs
  <2>2. QED
    BY <1>9, <2>1 DEF FinishRecovery, ScanComplete, diskVars
<1>10. QED
  BY <1>1, <1>1a, <1>2, <1>3, <1>4, <1>5, <1>6, <1>7, <1>8, <1>9 DEF RecoveryStep

\* What begins in the idle state begins with nothing quarantined or in a locked system.
LEMMA BeginFreezes ==
  ASSUME IInv, Frozen, NEW t \in Tx,
         \/ BeginActivation(t) \/ BeginRunnerActivation(t)
         \/ ReadDamaged(t) \/ DamageSnapshot(t)
  PROVE  Frozen'
<1> USE DEF Frozen, HandlerPcs, RecoveryPcs
<1> TypeOK
  BY DEF IInv
<1>1. CASE BeginActivation(t)
  BY <1>1, CleanWrite DEF BeginActivation, Put, OrRaise, TypeOK
<1>2. CASE BeginRunnerActivation(t)
  BY <1>2, CleanWrite DEF BeginRunnerActivation, Put, OrRaise, TypeOK
<1>3. CASE ReadDamaged(t)
  BY <1>3, CleanWrite DEF ReadDamaged
<1>4. CASE DamageSnapshot(t)
  BY <1>4, Faulty DEF DamageSnapshot
<1>5. QED
  BY <1>1, <1>2, <1>3, <1>4

(* What a scan has passed is not in flight, as long as nothing has failed.     *)
Settled ==
  faults = 0 =>
    /\ pc \notin HandlerPcs \cup {"recQuarantine"}
    /\ pc = "recLock" => txState[cur] = "QUARANTINED"
    /\ pc \in ScanPcs => \A t \in Tx \ rq : txState[t] # "COMMITTING"

\* A step that uses up a fault leaves nothing to show here either.
LEMMA FaultySettles ==
  ASSUME TypeOK, faults' = faults + 1
  PROVE  Settled'
  BY BoundAssumption DEF TypeOK, Settled

\* An activation is not a scan and ends in its handler only on a fault.
LEMMA ActivationSettles ==
  ASSUME IInv, Settled, ActivationStep
  PROVE  Settled'
<1> USE DEF Settled, HandlerPcs, ScanPcs
<1> TypeOK /\ (pc \notin {"idle", "down", "rec"} => cur \in Tx)
  BY DEF IInv, TypeOK
<1>1. CASE JournalPrepared \/ SetCommitting \/ JournalCommitting
  BY <1>1, CleanWrite DEF JournalPrepared, SetCommitting, JournalCommitting, OrRaise
<1>2. CASE StageData \/ WriteMarker \/ Promote \/ WriteTransition \/ SwitchPointer
           \/ CasCommitted \/ SetHead
  BY <1>2, CleanWrite DEF StageData, WriteMarker, Promote, WriteTransition, SwitchPointer,
       CasCommitted, SetHead, Then
<1>3. CASE CasMismatch
  BY <1>3, FaultySettles DEF CasMismatch, Misread
<1>4. CASE CasFailureQuarantine \/ CasFailureLock \/ CasFailureRollback
  BY <1>4, CleanWrite DEF CasFailureQuarantine, CasFailureLock, CasFailureRollback
<1>5. CASE JournalCommitted
  BY <1>5, CleanWrite DEF JournalCommitted, JournalBestEffort
<1>6. QED
  BY <1>1, <1>2, <1>3, <1>4, <1>5 DEF ActivationStep

\* A scan passes a transaction only when it is settled.
LEMMA RecoverySettled ==
  ASSUME IInv, Settled, RecoveryStep
  PROVE  Settled'
<1> USE DEF Settled, HandlerPcs, ScanPcs
<1> TypeOK
  BY DEF IInv
<1>1. ASSUME NEW t \in Tx, RecoverQuarantine(t) PROVE Settled'
  BY <1>1, CleanWrite DEF RecoverQuarantine, NextScanned, Put, StillScanning, ScanOrRaise, TypeOK
<1>2. ASSUME NEW t \in Tx, RecoverMisread(t) PROVE Settled'
  BY <1>2, FaultySettles DEF RecoverMisread, Misread
<1>3. ASSUME NEW t \in Tx, RecoverQuarantined(t) PROVE Settled'
  BY <1>3, LockMeansQuarantined DEF RecoverQuarantined, diskVars, NextScanned
<1>4. ASSUME NEW t \in Tx, RecoverCommit(t) PROVE Settled'
  BY <1>4, CleanWrite, FaultySettles
     DEF RecoverCommit, Misread, NextScanned, Put, StillScanning, ScanOrRaise, TypeOK
<1>5. ASSUME NEW t \in Tx, RecoverConfirm(t) PROVE Settled'
  BY <1>5 DEF RecoverConfirm, diskVars, NextScanned
<1>6. ASSUME NEW t \in Tx, RecoverDiscard(t) PROVE Settled'
  BY <1>6, CleanWrite, DiscardMeansUncommitted DEF RecoverDiscard, NextScanned
<1>7. CASE RecoverLock
  BY <1>7, CleanWrite DEF RecoverLock, ScanOrRaise, Scanned
<1>8. CASE RecoverHead
  BY <1>8, CleanWrite DEF RecoverHead, ScanOrRaise, StillScanning
<1>9. CASE RecoverJournal
  BY <1>9, CleanWrite DEF RecoverJournal, JournalBestEffort, IInv, Position
<1>10. CASE FinishRecovery
  BY <1>10 DEF FinishRecovery
<1>11. QED
  BY <1>1, <1>2, <1>3, <1>4, <1>5, <1>6, <1>7, <1>8, <1>9, <1>10 DEF RecoveryStep

\* Handlers and readers run after a fault; what begins in the idle state is no scan.
LEMMA OthersSettle ==
  ASSUME IInv, Settled,
         \/ HandlerStep \/ ReaderLock
         \/ \E t \in Tx : \/ BeginActivation(t) \/ BeginRunnerActivation(t)
                         \/ ReadDamaged(t) \/ DamageSnapshot(t)
  PROVE  Settled'
<1> USE DEF Settled, HandlerPcs, ScanPcs
<1> TypeOK
  BY DEF IInv
<1>1. CASE HandlerStep
  <2>1. pc \in HandlerPcs /\ (faults' = faults \/ faults' = faults + 1)
    BY <1>1 DEF HandlerStep, HandlerCommitted, HandlerDecides, HandlerQuarantine, HandlerLock,
         HandlerJournal, HandlerAbort, HandlerAbortRecord, HandlerRollback,
         HandlerJournalAborted, JournalBestEffort, Count, Misread
  <2> QED  BY <2>1, BoundAssumption DEF TypeOK
<1>2. CASE ReaderLock
  BY <1>2 DEF ReaderLock
<1>3. ASSUME NEW t \in Tx, BeginActivation(t) \/ BeginRunnerActivation(t) \/ ReadDamaged(t)
      PROVE  Settled'
  BY <1>3 DEF BeginActivation, BeginRunnerActivation, ReadDamaged, OrRaise
<1>4. ASSUME NEW t \in Tx, DamageSnapshot(t) PROVE Settled'
  BY <1>4, FaultySettles DEF DamageSnapshot
<1>5. QED
  BY <1>1, <1>2, <1>3, <1>4

(* A finished recovery scan leaves nothing in flight, unless something failed: *)
(* what it leaves unsettled, because a state file could not be read, is under  *)
(* lock, and so is the system when anything is quarantined, whatever the scan  *)
(* was interrupted by before.                                                  *)
THEOREM RecoverySettles == Spec => []ScanSettles
<1>1. Init => Settled
  BY DEF Init, Settled, HandlerPcs, ScanPcs
<1>2. IInv /\ Settled /\ [Next]_vars => Settled'
  <2> SUFFICES ASSUME IInv, Settled, [Next]_vars PROVE Settled'
    OBVIOUS
  <2>1. CASE UNCHANGED vars
    BY <2>1 DEF vars, diskVars, procVars, Settled
  <2>2. CASE StartRecovery \/ Crash \/ Restart
    BY <2>2 DEF StartRecovery, Crash, Restart, Discovered, diskVars, Settled, HandlerPcs, ScanPcs
  <2>3. QED
    BY <2>1, <2>2, ActivationSettles, RecoverySettled, OthersSettle DEF Next, ProcessStep
<1>3. IInv /\ Settled => ScanSettles
  BY DEF IInv, Scan, Settled, ScanPcs, ScanSettles, ScanComplete
<1>4. QED
  BY Invariance, <1>1, <1>2, <1>3, PTL DEF Spec

(* With a startup scan, and until the first write or read fails, a quarantined  *)
(* activation keeps admission closed: also when the process died between the    *)
(* write that quarantined it and the write that locks the safety mode.  One     *)
(* failed lock write is enough to lose this, hence the condition.               *)
THEOREM QuarantineFreezes ==
  ASSUME StartupScan
  PROVE  Spec => [](faults = 0 => QuarantineFreezesAdmission)
<1>1. Init => Frozen
  BY DEF Init, Frozen, HandlerPcs
<1>2. IInv /\ Frozen /\ [Next]_vars => Frozen'
  <2> SUFFICES ASSUME IInv, Frozen, [Next]_vars PROVE Frozen'
    OBVIOUS
  <2>1. CASE UNCHANGED vars
    BY <2>1 DEF vars, diskVars, Frozen
  <2>2. CASE StartRecovery \/ Crash \/ Restart
    BY <2>2 DEF StartRecovery, Crash, Restart, diskVars, Frozen, HandlerPcs, RecoveryPcs
  <2>3. QED
    BY <2>1, <2>2, ActivationFreezes, FailureFreezes, RecoveryFreezes, BeginFreezes
       DEF Next, ProcessStep
<1>3. Frozen => (faults = 0 => QuarantineFreezesAdmission)
  BY DEF Frozen, QuarantineFreezesAdmission, Admissible, RecoveryPcs
<1>4. QED
  BY Invariance, <1>1, <1>2, <1>3, PTL DEF Spec

(* Where the bound admits no failure the property holds as the run checks it.   *)
THEOREM QuarantineFreezesFaultless ==
  ASSUME StartupScan, MaxFaults = 0
  PROVE  Spec => []QuarantineFreezesAdmission
<1>1. TypeOK => faults = 0
  BY DEF TypeOK
<1>2. QED
  BY QuarantineFreezes, TypeCorrect, <1>1, PTL

-----------------------------------------------------------------------------
(* What is left of the claim NoFork.  While nothing has failed and no process *)
(* has died, at most one activation is in flight, its record extends the head, *)
(* nothing extends that activation yet, and only a committed activation that   *)
(* is about to become the head still extends it.                               *)
Starting == ServicePcs \ {"jCommitted"}

Linear ==
  /\ pc \in {"idle", "rec", "recLock", "recJournal"} \cup ServicePcs
  /\ pc \in Starting => parent[cur] = head /\ head # cur /\ \A t \in Tx : parent[t] # cur
  /\ \A t \in Tx : txState[t] = "COMMITTING" => pc \in ServicePcs /\ t = cur
  /\ \A t \in Tx : txState[t] = "COMMITTED" /\ parent[t] = head => pc = "setHead" /\ t = cur
  /\ \A t \in Tx : snap[t] # "bad"
  /\ NoFork

\* A step that no fault belongs to is taken after a life without faults.
LEMMA QuietBefore ==
  ASSUME TypeOK, [Next]_vars, faults' = 0, crashes' = 0
  PROVE  faults = 0 /\ crashes = 0
<1> USE BoundAssumption DEF TypeOK, diskVars, procVars, histVars
<1>1. faults' = faults \/ faults' = faults + 1
  BY DEF Next, ProcessStep, ActivationStep, HandlerStep, RecoveryStep, Count, vars,
         JournalPrepared, SetCommitting, JournalCommitting, StageData, WriteMarker, Promote,
         WriteTransition, SwitchPointer, CasCommitted, CasMismatch, CasFailureQuarantine,
         CasFailureLock, CasFailureRollback, SetHead, JournalCommitted, HandlerCommitted,
         HandlerDecides, HandlerQuarantine, HandlerLock, HandlerJournal, HandlerAbort,
         HandlerAbortRecord, HandlerRollback, HandlerJournalAborted, RecoverQuarantine,
         RecoverMisread, RecoverQuarantined, RecoverCommit, RecoverConfirm, RecoverDiscard, RecoverLock,
         RecoverHead, RecoverJournal, FinishRecovery, ReaderLock, Restart, StartRecovery,
         BeginActivation, BeginRunnerActivation, ReadDamaged, DamageSnapshot, Crash,
         JournalBestEffort, Misread
<1>2. crashes' = crashes \/ crashes' = crashes + 1
  BY DEF Next, ProcessStep, ActivationStep, HandlerStep, RecoveryStep, vars,
         JournalPrepared, SetCommitting, JournalCommitting, StageData, WriteMarker, Promote,
         WriteTransition, SwitchPointer, CasCommitted, CasMismatch, CasFailureQuarantine,
         CasFailureLock, CasFailureRollback, SetHead, JournalCommitted, HandlerCommitted,
         HandlerDecides, HandlerQuarantine, HandlerLock, HandlerJournal, HandlerAbort,
         HandlerAbortRecord, HandlerRollback, HandlerJournalAborted, RecoverQuarantine,
         RecoverMisread, RecoverQuarantined, RecoverCommit, RecoverConfirm, RecoverDiscard, RecoverLock,
         RecoverHead, RecoverJournal, FinishRecovery, ReaderLock, Restart, StartRecovery,
         BeginActivation, BeginRunnerActivation, ReadDamaged, DamageSnapshot, Crash
<1>3. QED
  BY <1>1, <1>2

\* A write that leaves states, records and head alone and keeps the activation going.
LEMMA LinearQuiet ==
  ASSUME TypeOK, Linear, UNCHANGED <<txState, head, parent, cur>>,
         pc \in Starting, pc' \in Starting \ {"setHead"}, pc # "setHead",
         \A t \in Tx : snap'[t] # "bad"
  PROVE  Linear'
  BY DEF Linear, Starting, ServicePcs, NoFork

\* The writes of an activation, one by one.
LEMMA ActivationLinear ==
  ASSUME IInv, Linear, faults' = 0, ActivationStep
  PROVE  Linear'
<1> USE DEF procVars, histVars
<1> TypeOK /\ (pc \notin {"idle", "down", "rec"} => cur \in Tx)
  BY DEF IInv, TypeOK
<1>1. CASE JournalPrepared \/ JournalCommitting \/ StageData \/ WriteMarker \/ WriteTransition
           \/ SwitchPointer
  <2>1. pc' \in Starting \ {"setHead"}
    BY <1>1, CleanWrite DEF JournalPrepared, JournalCommitting, StageData, WriteMarker,
          WriteTransition, SwitchPointer, OrRaise, Then, Starting, ServicePcs
  <2>2. pc \in Starting \ {"setHead"} /\ UNCHANGED <<txState, head, parent, cur, snap>>
    BY <1>1 DEF JournalPrepared, JournalCommitting, StageData, WriteMarker,
          WriteTransition, SwitchPointer, Starting, ServicePcs
  <2> QED BY <2>1, <2>2, LinearQuiet DEF Linear
<1>2. CASE Promote
  <2>1. pc' = "transition"
    BY <1>2, CleanWrite DEF Promote, Then
  <2>2. \A t \in Tx : snap'[t] # "bad"
    BY <1>2 DEF Promote, Put, Linear, TypeOK
  <2> QED BY <1>2, <2>1, <2>2, LinearQuiet DEF Promote, Starting, ServicePcs
<1>3. CASE SetCommitting
  <2>1. PICK o \in Outcomes :
              /\ txState' = Put(txState, cur, "COMMITTING", o)
              /\ Count(o)
              /\ pc' = OrRaise(IF drv = "service" THEN "jCommitting" ELSE "stage", o)
    BY <1>3 DEF SetCommitting
  <2>2. pc' \in {"jCommitting", "stage"} /\ txState' = [txState EXCEPT ![cur] = "COMMITTING"]
    BY <2>1, CleanWrite DEF OrRaise, Put
  <2>3. pc = "setCommitting" /\ UNCHANGED <<snap, head, parent, cur>>
    BY <1>3 DEF SetCommitting
  <2> QED BY <2>2, <2>3 DEF Linear, Starting, ServicePcs, NoFork, TypeOK
<1>4. CASE CasCommitted
  <2>1. PICK o \in Outcomes : /\ txState' = Put(txState, cur, "COMMITTED", o)
                              /\ Count(o)
                              /\ pc' = Then("setHead", o)
    BY <1>4 DEF CasCommitted
  <2>2. pc' = "setHead" /\ txState' = [txState EXCEPT ![cur] = "COMMITTED"]
    BY <2>1, CleanWrite DEF Then, Put
  <2>3. pc = "cas" /\ UNCHANGED <<snap, head, parent, cur>> /\ cur \in Tx
    BY <1>4 DEF CasCommitted
  <2>4. parent[cur] = head /\ \A t \in Tx : txState[t] = "COMMITTED" => parent[t] # head
    BY <2>3 DEF Linear, Starting, ServicePcs
  <2>5. NoFork'
    BY <2>2, <2>3, <2>4 DEF Linear, NoFork, TypeOK
  <2> QED BY <2>2, <2>3, <2>4, <2>5 DEF Linear, Starting, ServicePcs, TypeOK
<1>5. CASE CasMismatch
  BY <1>5, BoundAssumption DEF CasMismatch, Misread, TypeOK
<1>6. CASE CasFailureQuarantine \/ CasFailureLock \/ CasFailureRollback
  BY <1>6 DEF CasFailureQuarantine, CasFailureLock, CasFailureRollback, Linear, ServicePcs
<1>7. CASE SetHead
  <2>1. PICK o \in Outcomes :
            /\ head' = IF o = "lost" THEN head ELSE cur
            /\ Count(o)
            /\ pc' = Then(IF drv = "service" THEN "jCommitted" ELSE "idle", o)
    BY <1>7 DEF SetHead
  <2>2. pc' \in {"jCommitted", "idle"} /\ head' = cur
    BY <2>1, CleanWrite DEF Then
  <2>3. pc = "setHead" /\ UNCHANGED <<txState, snap, parent, cur>> /\ txState[cur] = "COMMITTED"
    BY <1>7 DEF SetHead, IInv, Position
  <2>4. \A t \in Tx : parent[t] # cur
    BY <2>3 DEF Linear, Starting, ServicePcs
  <2> QED BY <2>2, <2>3, <2>4 DEF Linear, Starting, ServicePcs, NoFork
<1>8. CASE JournalCommitted
  <2>1. pc = "jCommitted" /\ pc' = "idle" /\ UNCHANGED <<txState, snap, head, parent, cur>>
        /\ txState[cur] = "COMMITTED"
    BY <1>8 DEF JournalCommitted, JournalBestEffort, IInv, Position
  <2> QED BY <2>1 DEF Linear, Starting, ServicePcs, NoFork
<1> QED
  BY <1>1, <1>2, <1>3, <1>4, <1>5, <1>6, <1>7, <1>8 DEF ActivationStep

\* A scan that finds nothing in flight and reads every file commits nothing.
LEMMA RecoveryLinear ==
  ASSUME IInv, Linear, faults' = 0, RecoveryStep
  PROVE  Linear'
<1> USE DEF procVars, histVars, diskVars
<1> TypeOK
  BY DEF IInv
<1>1. pc \in RecoveryPcs
  BY DEF RecoveryStep, RecoverMisread, RecoverQuarantine, RecoverQuarantined, RecoverCommit,
         RecoverConfirm,
         RecoverDiscard, RecoverLock, RecoverHead, RecoverJournal, FinishRecovery,
         NextScanned, ScanComplete, RecoveryPcs
<1>2. /\ \A t \in Tx : txState[t] # "COMMITTING"
      /\ \A t \in Tx : txState[t] = "COMMITTED" => parent[t] # head
  BY <1>1 DEF Linear, RecoveryPcs, ServicePcs
<1>3. ASSUME NEW s \in [Tx -> DurableTransactionState \cup {"NONE"}],
             \A t \in Tx : s[t] = txState[t] \/ s[t] = "QUARANTINED",
             txState' = s, UNCHANGED <<snap, head, parent>>,
             pc' \in {"idle", "rec", "recLock", "recJournal"}
      PROVE  Linear'
  BY <1>2, <1>3 DEF Linear, Starting, ServicePcs, NoFork, TypeOK
<1>4. ASSUME UNCHANGED <<txState, snap, head, parent>>,
             pc' \in {"idle", "rec", "recLock", "recJournal"}
      PROVE  Linear'
  BY <1>3, <1>4 DEF TypeOK
<1>5. ASSUME NEW t \in Tx, RecoverQuarantine(t) PROVE Linear'
  <2>1. PICK o \in Outcomes : /\ txState' = Put(txState, t, "QUARANTINED", o)
                              /\ Count(o)
                              /\ pc' = ScanOrRaise("recLock", o)
    BY <1>5 DEF RecoverQuarantine
  <2>2. pc' = "recLock" /\ txState' = [txState EXCEPT ![t] = "QUARANTINED"]
    BY <2>1, CleanWrite DEF Put, ScanOrRaise
  <2>3. txState' \in [Tx -> DurableTransactionState \cup {"NONE"}]
    BY <2>2 DEF TypeOK, DurableTransactionState
  <2>4. \A u \in Tx : txState'[u] = txState[u] \/ txState'[u] = "QUARANTINED"
    BY <2>2 DEF TypeOK
  <2>5. UNCHANGED <<snap, head, parent>>
    BY <1>5 DEF RecoverQuarantine
  <2> QED BY <1>3, <2>2, <2>3, <2>4, <2>5
<1>5a. ASSUME NEW t \in Tx, RecoverMisread(t) PROVE Linear'
  BY <1>5a, BoundAssumption DEF RecoverMisread, Misread, TypeOK
<1>6. ASSUME NEW t \in Tx, RecoverCommit(t) PROVE Linear'
  BY <1>2, <1>6, CommitMeansRecoverable DEF RecoverCommit
<1>7. ASSUME NEW t \in Tx, RecoverQuarantined(t) \/ RecoverConfirm(t) \/ RecoverDiscard(t)
      PROVE  Linear'
  BY <1>4, <1>7 DEF RecoverQuarantined, RecoverConfirm, RecoverDiscard
<1>8. CASE RecoverLock
  BY <1>4, <1>8, CleanWrite DEF RecoverLock, ScanOrRaise
<1>9. CASE RecoverHead
  BY <1>9 DEF RecoverHead, Linear, ServicePcs
<1>10. CASE RecoverJournal
  BY <1>4, <1>10 DEF RecoverJournal, JournalBestEffort
<1>11. CASE FinishRecovery
  BY <1>4, <1>11 DEF FinishRecovery
<1> QED
  BY <1>5, <1>5a, <1>6, <1>7, <1>8, <1>9, <1>10, <1>11 DEF RecoveryStep

\* A record that is signed extends the head, and nothing extends it.
LEMMA BeginLinear ==
  ASSUME IInv, Linear, faults' = 0, NEW t \in Tx,
         BeginActivation(t) \/ BeginRunnerActivation(t)
  PROVE  Linear'
<1> TypeOK
  BY DEF IInv
<1>1. PICK o \in Outcomes :
            /\ txState' = Put(txState, t, "PREPARED", o)
            /\ Count(o)
            /\ pc' \in {OrRaise("jPrepared", o), OrRaise("setCommitting", o)}
  BY DEF BeginActivation, BeginRunnerActivation
<1>2. pc' \in {"jPrepared", "setCommitting"} /\ txState' = [txState EXCEPT ![t] = "PREPARED"]
  BY <1>1, CleanWrite DEF Put, OrRaise
<1>3. /\ pc = "idle" /\ txState[t] = "NONE" /\ cur' = t
      /\ parent' = [parent EXCEPT ![t] = head] /\ UNCHANGED <<snap, head>>
  BY DEF BeginActivation, BeginRunnerActivation, MayActivate
<1>4. head # t /\ \A u \in Tx : parent[u] # t
  BY <1>3 DEF IInv, Disk, Decided
<1>5. parent'[cur'] = head' /\ head' # cur' /\ \A u \in Tx : parent'[u] # cur'
  BY <1>3, <1>4 DEF TypeOK
<1>6. \A u \in Tx : /\ txState'[u] # "COMMITTING"
                    /\ txState'[u] = "COMMITTED"
                         => u # t /\ txState[u] = "COMMITTED" /\ parent'[u] = parent[u]
  BY <1>2, <1>3 DEF Linear, ServicePcs, TypeOK
<1>7. \A u \in Tx : txState[u] = "COMMITTED" => parent[u] # head
  BY <1>3 DEF Linear
<1>8. NoFork'
  BY <1>6 DEF Linear, NoFork
<1> QED
  BY <1>2, <1>3, <1>5, <1>6, <1>7, <1>8 DEF Linear, Starting, ServicePcs

(* The chain of activations is linear until a write fails or a process dies,   *)
(* whichever service or runner activates and however often recovery runs: the  *)
(* fork that refutes NoFork needs a crash between the state write and the head *)
(* write, or a failing write.                                                  *)
THEOREM ForksNeedAFailure == Spec => [](faults = 0 /\ crashes = 0 => NoFork)
<1>1. Init => Linear
  BY DEF Init, Linear, Starting, ServicePcs, NoFork
<1>2. IInv /\ (faults = 0 /\ crashes = 0 => Linear) /\ [Next]_vars
        => (faults = 0 /\ crashes = 0 => Linear)'
  <2> SUFFICES ASSUME IInv, faults = 0 /\ crashes = 0 => Linear, [Next]_vars,
                      faults' = 0, crashes' = 0
               PROVE  Linear'
    OBVIOUS
  <2> TypeOK
    BY DEF IInv
  <2>1. Linear
    BY QuietBefore
  <2>2. CASE UNCHANGED vars
    BY <2>1, <2>2 DEF vars, diskVars, procVars, histVars, Linear, NoFork
  <2>3. CASE StartRecovery
    BY <2>1, <2>3 DEF StartRecovery, diskVars, procVars, histVars, Linear, NoFork, Starting,
                      ServicePcs
  <2>4. CASE Crash
    BY <2>4, BoundAssumption DEF Crash, TypeOK
  <2>5. CASE HandlerStep \/ ReaderLock \/ Restart
    BY <2>1, <2>5 DEF Linear, ServicePcs, HandlerStep, HandlerCommitted, HandlerDecides,
         HandlerQuarantine, HandlerLock, HandlerJournal, HandlerAbort, HandlerAbortRecord,
         HandlerRollback, HandlerJournalAborted, ReaderLock, Restart
  <2>6. CASE \E t \in Tx : ReadDamaged(t) \/ DamageSnapshot(t)
    BY <2>1, <2>6, BoundAssumption DEF ReadDamaged, DamageSnapshot, Linear, TypeOK
  <2> QED
    BY <2>1, <2>2, <2>3, <2>4, <2>5, <2>6, ActivationLinear, RecoveryLinear, BeginLinear
       DEF Next, ProcessStep
<1> QED
  BY Invariance, <1>1, <1>2, PTL DEF Spec, Linear

(* ------------------------------------------------------------------------ *)
(* The refinement: every step of GateB is a step of ActivationLedger or      *)
(* leaves what the ledger promises unchanged.                                *)
LedgerStep == [Ledger!LNext]_(Ledger!lvars)

\* A write to neither the states, the pointer nor the acknowledgements is a stutter.
LEMMA LedgerQuiet ==
  ASSUME UNCHANGED <<txState, pointer, acked>>
  PROVE  LedgerStep
  BY DEF LedgerStep, Ledger!lvars, Outcome, Served

\* An activation that opens has no outcome yet.
LEMMA LedgerOpen ==
  ASSUME TypeOK, NEW t \in Tx, NEW s \in {"PREPARED", "COMMITTING"},
         txState[t] \in {"NONE", "PREPARED"}, txState' = [txState EXCEPT ![t] = s],
         UNCHANGED <<pointer, acked>>
  PROVE  LedgerStep
  BY DEF LedgerStep, Ledger!lvars, Outcome, Served, TypeOK

\* A quarantine withholds the activation, whatever it was before.
LEMMA LedgerWithhold ==
  ASSUME TypeOK, NEW t \in Tx, txState' = [txState EXCEPT ![t] = "QUARANTINED"],
         UNCHANGED <<pointer, acked>>
  PROVE  LedgerStep
<1>1. CASE txState[t] = "QUARANTINED"
  <2>1. UNCHANGED txState
    BY <1>1 DEF TypeOK
  <2>2. QED
    BY <2>1, LedgerQuiet
<1>2. CASE txState[t] # "QUARANTINED"
  <2>1. [u \in Tx |-> Outcome(u)]' = [[u \in Tx |-> Outcome(u)] EXCEPT ![t] = "withheld"]
    BY DEF Outcome, TypeOK
  <2>2. Served' = IF Served = t THEN NoTx ELSE Served
    BY TxAssumption DEF Served, TypeOK
  <2>3. Outcome(t) # "withheld"
    BY <1>2 DEF Outcome, TypeOK, DurableTransactionState
  <2>4. Ledger!Withhold(t)
    BY <2>1, <2>2, <2>3 DEF Ledger!Withhold, Ledger!Decide
  <2>5. QED
    BY <2>4 DEF LedgerStep, Ledger!LNext
<1>3. QED
  BY <1>1, <1>2

\* The step to COMMITTED commits the activation and serves it.
LEMMA LedgerCommit ==
  ASSUME TypeOK, NEW t \in Tx, txState[t] = "COMMITTING", pointer = t,
         txState' = [txState EXCEPT ![t] = "COMMITTED"], UNCHANGED <<pointer, acked>>
  PROVE  LedgerStep
<1>1. [u \in Tx |-> Outcome(u)]' = [[u \in Tx |-> Outcome(u)] EXCEPT ![t] = "committed"]
  BY DEF Outcome, TypeOK
<1>2. Served' = t /\ Served = NoTx /\ Outcome(t) = "open"
  BY DEF Served, Outcome, TypeOK
<1>3. Ledger!Commit(t)
  BY <1>1, <1>2 DEF Ledger!Commit, Ledger!Decide
<1>4. QED
  BY <1>3 DEF LedgerStep, Ledger!LNext

\* The step to ABORTED aborts an open activation.
LEMMA LedgerAbort ==
  ASSUME TypeOK, NEW t \in Tx, txState[t] = "COMMITTING",
         txState' = [txState EXCEPT ![t] = "ABORTED"], UNCHANGED <<pointer, acked>>
  PROVE  LedgerStep
<1>1. [u \in Tx |-> Outcome(u)]' = [[u \in Tx |-> Outcome(u)] EXCEPT ![t] = "aborted"]
  BY DEF Outcome, TypeOK
<1>2. Served' = Served /\ Outcome(t) = "open"
  BY DEF Served, Outcome, TypeOK
<1>3. Ledger!Abort(t)
  BY <1>1, <1>2 DEF Ledger!Abort, Ledger!Decide
<1>4. QED
  BY <1>3 DEF LedgerStep, Ledger!LNext

\* A success is reported of a committed activation.
LEMMA LedgerReport ==
  ASSUME NEW t \in Tx, txState[t] = "COMMITTED", acked' = acked \cup {t},
         UNCHANGED <<txState, pointer>>
  PROVE  LedgerStep
<1>1. Outcome(t) = "committed" /\ Served' = Served
      /\ [u \in Tx |-> Outcome(u)]' = [u \in Tx |-> Outcome(u)]
  BY DEF Outcome, Served
<1>2. Ledger!Report(t)
  BY <1>1 DEF Ledger!Report
<1>3. QED
  BY <1>2 DEF LedgerStep, Ledger!LNext

(* The pointer moves to an activation that has not committed yet.            *)
LEMMA LedgerSuspend ==
  ASSUME NEW t \in Tx, txState[t] = "COMMITTING", pointer' = t,
         UNCHANGED <<txState, acked>>
  PROVE  LedgerStep
<1>1. Served' = NoTx /\ Outcome(t) = "open"
      /\ [u \in Tx |-> Outcome(u)]' = [u \in Tx |-> Outcome(u)]
  BY DEF Outcome, Served
<1>2. CASE Served = NoTx
  BY <1>1, <1>2 DEF LedgerStep, Ledger!lvars
<1>3. CASE Served # NoTx
  <2>1. Ledger!Suspend
    BY <1>1, <1>3 DEF Ledger!Suspend
  <2>2. QED
    BY <2>1 DEF LedgerStep, Ledger!LNext
<1>4. QED
  BY <1>2, <1>3

(* The pointer moves back from a quarantined activation.                     *)
LEMMA LedgerReinstate ==
  ASSUME TypeOK, NEW t \in Tx, txState[t] = "QUARANTINED", pointer = t,
         UNCHANGED <<txState, acked>>
  PROVE  LedgerStep
<1>1. Served = NoTx /\ Outcome(t) = "withheld"
      /\ [u \in Tx |-> Outcome(u)]' = [u \in Tx |-> Outcome(u)]
  BY DEF Outcome, Served
<1>2. CASE Served' = NoTx
  BY <1>1, <1>2 DEF LedgerStep, Ledger!lvars
<1>3. CASE Served' # NoTx
  <2>1. Served' \in Tx /\ Outcome(Served') = "committed"
    BY <1>3 DEF Served, Outcome
  <2>2. Ledger!Reinstate(Served')
    BY <1>1, <2>1 DEF Ledger!Reinstate
  <2>3. QED
    BY <2>1, <2>2 DEF LedgerStep, Ledger!LNext
<1>4. QED
  BY <1>2, <1>3

\* A fresh storage root is an empty ledger.
LEMMA LedgerInit == Init => Ledger!LInit
  BY DEF Init, Ledger!LInit, Outcome, Served

\* Every step of the storage root is a step of the ledger or a stutter.
LEMMA LedgerNext == IInv /\ [Next]_vars => LedgerStep
<1> SUFFICES ASSUME IInv, [Next]_vars PROVE LedgerStep
  OBVIOUS
<1> USE DEF IInv, Position, diskVars, procVars, histVars, CasFailurePcs
<1> TypeOK /\ (pc \notin {"idle", "down", "rec"} => cur \in Tx)
  BY DEF TypeOK
<1>1. CASE JournalPrepared
  BY <1>1, LedgerQuiet DEF JournalPrepared
<1>2. CASE SetCommitting
  BY <1>2, LedgerOpen, LedgerQuiet DEF SetCommitting, Put
<1>3. CASE JournalCommitting
  BY <1>3, LedgerQuiet DEF JournalCommitting
<1>4. CASE StageData
  BY <1>4, LedgerQuiet DEF StageData
<1>5. CASE WriteMarker
  BY <1>5, LedgerQuiet DEF WriteMarker
<1>6. CASE Promote
  BY <1>6, LedgerQuiet DEF Promote
<1>7. CASE WriteTransition
  BY <1>7, LedgerQuiet DEF WriteTransition
<1>8. CASE SwitchPointer
  BY <1>8, LedgerSuspend, LedgerQuiet DEF SwitchPointer
<1>9. CASE CasCommitted
  BY <1>9, LedgerCommit, LedgerQuiet DEF CasCommitted, Put
<1>10. CASE CasMismatch
  BY <1>10, LedgerQuiet DEF CasMismatch
<1>11. CASE CasFailureQuarantine
  BY <1>11, LedgerWithhold, LedgerQuiet DEF CasFailureQuarantine, Put
<1>12. CASE CasFailureLock
  BY <1>12, LedgerQuiet DEF CasFailureLock
<1>13. CASE CasFailureRollback
  BY <1>13, LedgerReinstate, LedgerQuiet DEF CasFailureRollback
<1>14. CASE SetHead
  BY <1>14, LedgerReport, LedgerQuiet DEF SetHead
<1>15. CASE JournalCommitted
  BY <1>15, LedgerReport, LedgerQuiet DEF JournalCommitted, Put, JournalBestEffort
<1>16. CASE HandlerCommitted
  BY <1>16, LedgerReport, LedgerQuiet DEF HandlerCommitted
<1>17. CASE HandlerDecides
  BY <1>17, LedgerQuiet DEF HandlerDecides
<1>18. CASE HandlerQuarantine
  BY <1>18, LedgerWithhold, LedgerQuiet DEF HandlerQuarantine, Put
<1>19. CASE HandlerLock
  BY <1>19, LedgerQuiet DEF HandlerLock
<1>20. CASE HandlerJournal
  BY <1>20, LedgerQuiet DEF HandlerJournal, JournalBestEffort
<1>21. CASE HandlerAbort
  BY <1>21, LedgerAbort, LedgerQuiet DEF HandlerAbort, Put
<1>22. CASE HandlerAbortRecord
  BY <1>22, LedgerQuiet DEF HandlerAbortRecord
<1>23. CASE HandlerRollback
  BY <1>23, LedgerQuiet DEF HandlerRollback
<1>24. CASE HandlerJournalAborted
  BY <1>24, LedgerQuiet DEF HandlerJournalAborted, JournalBestEffort
<1>25. ASSUME NEW t \in Tx, RecoverQuarantine(t) PROVE LedgerStep
  BY <1>25, LedgerWithhold, LedgerQuiet DEF RecoverQuarantine, Put, NextScanned
<1>25a. ASSUME NEW t \in Tx, RecoverMisread(t) PROVE LedgerStep
  BY <1>25a, LedgerQuiet DEF RecoverMisread
<1>26. ASSUME NEW t \in Tx, RecoverQuarantined(t) PROVE LedgerStep
  BY <1>26, LedgerQuiet DEF RecoverQuarantined
<1>27. ASSUME NEW t \in Tx, RecoverCommit(t) PROVE LedgerStep
  BY <1>27, LedgerCommit, LedgerQuiet, CommitMeansRecoverable DEF RecoverCommit, Put
<1>28. ASSUME NEW t \in Tx, RecoverConfirm(t) PROVE LedgerStep
  BY <1>28, LedgerQuiet DEF RecoverConfirm
<1>29. ASSUME NEW t \in Tx, RecoverDiscard(t) PROVE LedgerStep
  BY <1>29, LedgerQuiet DEF RecoverDiscard
<1>30. CASE RecoverLock
  BY <1>30, LedgerQuiet DEF RecoverLock
<1>31. CASE RecoverHead
  BY <1>31, LedgerQuiet DEF RecoverHead
<1>32. CASE RecoverJournal
  BY <1>32, LedgerQuiet DEF RecoverJournal, JournalBestEffort
<1>33. CASE FinishRecovery
  BY <1>33, LedgerQuiet DEF FinishRecovery
<1>34. CASE ReaderLock
  BY <1>34, LedgerQuiet DEF ReaderLock
<1>35. CASE Restart
  BY <1>35, LedgerQuiet DEF Restart
<1>36. CASE StartRecovery
  BY <1>36, LedgerQuiet DEF StartRecovery
<1>37. ASSUME NEW t \in Tx, BeginActivation(t) PROVE LedgerStep
  BY <1>37, LedgerOpen, LedgerQuiet DEF BeginActivation, Put, MayActivate
<1>38. ASSUME NEW t \in Tx, BeginRunnerActivation(t) PROVE LedgerStep
  BY <1>38, LedgerOpen, LedgerQuiet DEF BeginRunnerActivation, Put
<1>39. ASSUME NEW t \in Tx, ReadDamaged(t) PROVE LedgerStep
  BY <1>39, LedgerWithhold, LedgerQuiet DEF ReadDamaged, Put
<1>40. ASSUME NEW t \in Tx, DamageSnapshot(t) PROVE LedgerStep
  BY <1>40, LedgerQuiet DEF DamageSnapshot
<1>41. CASE Crash
  BY <1>41, LedgerQuiet DEF Crash
<1>42. CASE UNCHANGED vars
  BY <1>42, LedgerQuiet DEF vars
<1>43. QED
  BY <1>1, <1>2, <1>3, <1>4, <1>5, <1>6, <1>7, <1>8, <1>9, <1>10, <1>11, <1>12,
     <1>13, <1>14, <1>15, <1>16, <1>17, <1>18, <1>19, <1>20, <1>21, <1>22, <1>23,
     <1>24, <1>25, <1>25a, <1>26, <1>27, <1>28, <1>29, <1>30, <1>31, <1>32, <1>33, <1>34,
     <1>35, <1>36, <1>37, <1>38, <1>39, <1>40, <1>41, <1>42
     DEF Next, ProcessStep, ActivationStep, HandlerStep, RecoveryStep

(* The activation ledger implements its contract: readers are served at most  *)
(* one activation, always a committed one; each activation is decided once    *)
(* and may only be withheld afterwards; success is reported only for a        *)
(* committed one.                                                             *)
THEOREM LedgerImplemented == Spec => ImplementsLedger
  BY Invariance, LedgerInit, LedgerNext, PTL
     DEF Spec, ImplementsLedger, Ledger!LSpec, LedgerStep

-----------------------------------------------------------------------------
(***************************************************************************)
(* What liveness rests on.  An operation that is under way cannot go on    *)
(* for ever: each of its steps uses up a crash or a fault, or scans one    *)
(* transaction more, or takes the process further through the code.  All   *)
(* of these are bounded (TypeCorrect), and Tx is finite.                   *)
(***************************************************************************)
Rank(p) ==
  CASE p = "rec" -> 0
    [] p \in {"jPrepared", "recQuarantine"} -> 1
    [] p = "setCommitting" -> 2
    [] p = "jCommitting" -> 3
    [] p = "stage" -> 4
    [] p = "marker" -> 5
    [] p = "promote" -> 6
    [] p = "transition" -> 7
    [] p = "switch" -> 8
    [] p = "cas" -> 9
    [] p \in {"setHead", "casQuarantine", "recHead"} -> 10
    [] p \in {"jCommitted", "casLock", "recLock", "recJournal"} -> 11
    [] p = "casRollback" -> 12
    [] p = "handler" -> 13
    [] p \in {"hQuarantine", "hAbort"} -> 14
    [] p \in {"hLock", "hRecord"} -> 15
    [] p \in {"hJournal", "hRollback"} -> 16
    [] p \in {"hjAborted", "readLock"} -> 17
    [] OTHER -> 18

Further == \/ rq' # rq /\ rq' \subseteq rq
           \/ rq' = rq /\ Rank(pc') > Rank(pc)

Onward == \/ crashes' > crashes
          \/ crashes' = crashes /\ faults' > faults
          \/ crashes' = crashes /\ faults' = faults /\ Further

LEMMA WriteOnward ==
  ASSUME TypeOK, NEW o \in Outcomes, Count(o), crashes' = crashes, o = "ok" => Further
  PROVE  Onward
  BY BoundAssumption DEF TypeOK, Count, Onward

LEMMA MoveOnward ==
  ASSUME faults' = faults, crashes' = crashes, Further
  PROVE  Onward
  BY DEF Onward

LEMMA FaultOnward ==
  ASSUME TypeOK, faults' = faults + 1, crashes' = crashes
  PROVE  Onward
  BY BoundAssumption DEF TypeOK, Onward

LEMMA OnwardNext ==
  ASSUME IInv, Next, pc \notin {"idle", "down"}
  PROVE  Onward
<1>0. TypeOK /\ drv \in {"service", "runner"} /\ pc \in Pcs /\ pc \notin {"idle", "down"}
  BY DEF IInv, TypeOK
<1>1. CASE ActivationStep \/ ReaderLock
  <2>1. CASE \/ JournalPrepared \/ SetCommitting \/ JournalCommitting
             \/ StageData \/ WriteMarker \/ Promote
    BY <1>0, <2>1, WriteOnward
       DEF JournalPrepared, SetCommitting, JournalCommitting, StageData, WriteMarker, Promote,
           OrRaise, Then, procVars, Further, Rank
  <2>2. CASE WriteTransition \/ SwitchPointer \/ CasCommitted \/ SetHead \/ ReaderLock
    BY <1>0, <2>2, WriteOnward
       DEF WriteTransition, SwitchPointer, CasCommitted, SetHead, ReaderLock,
           OrRaise, Then, procVars, Further, Rank
  <2>3. CASE JournalCommitted
    BY <1>0, <2>3, WriteOnward
       DEF JournalCommitted, JournalBestEffort, procVars, Further, Rank
  <2>4. CASE CasMismatch
    BY <1>0, <2>4, FaultOnward DEF CasMismatch, Misread
  <2>5. CASE CasFailureQuarantine \/ CasFailureLock
    BY <1>0, <2>5, WriteOnward
       DEF CasFailureQuarantine, CasFailureLock, StillScanning, ScanOrRaise, Then, Further, Rank
  <2>6. CASE CasFailureRollback
    <3>1. rq # {} => cur \in rq
      BY <2>6 DEF CasFailureRollback, IInv, Scan, CasFailurePcs
    <3> QED  BY <1>0, <2>6, <3>1, WriteOnward
             DEF CasFailureRollback, Scanned, ScanOrRaise, Further, Rank
  <2> QED  BY <1>1, <2>1, <2>2, <2>3, <2>4, <2>5, <2>6 DEF ActivationStep
<1>2. CASE HandlerStep
  <2>1. CASE HandlerCommitted \/ HandlerDecides
    BY <1>0, <2>1, MoveOnward, FaultOnward
       DEF HandlerCommitted, HandlerDecides, Misread, procVars, Further, Rank
  <2>2. CASE HandlerQuarantine \/ HandlerLock \/ HandlerAbortRecord \/ HandlerRollback
    BY <1>0, <2>2, WriteOnward
       DEF HandlerQuarantine, HandlerLock, HandlerAbortRecord, HandlerRollback,
           OrRaise, procVars, Further, Rank
  <2>3. CASE HandlerJournal \/ HandlerJournalAborted
    BY <1>0, <2>3, WriteOnward
       DEF HandlerJournal, HandlerJournalAborted, JournalBestEffort, procVars, Further, Rank
  <2>4. CASE HandlerAbort
    BY <1>0, <2>4, WriteOnward, FaultOnward
       DEF HandlerAbort, Misread, OrRaise, procVars, Further, Rank
  <2> QED  BY <1>2, <2>1, <2>2, <2>3, <2>4 DEF HandlerStep
<1>3. ASSUME NEW t \in Tx,
             \/ RecoverMisread(t) \/ RecoverQuarantine(t) \/ RecoverQuarantined(t)
             \/ RecoverCommit(t) \/ RecoverConfirm(t) \/ RecoverDiscard(t)
      PROVE  Onward
  <2>1. CASE RecoverQuarantine(t)
    BY <1>0, <2>1, WriteOnward
       DEF RecoverQuarantine, NextScanned, StillScanning, ScanOrRaise, Further, Rank
  <2>2. CASE RecoverQuarantined(t) \/ RecoverConfirm(t)
    BY <1>0, <2>2, MoveOnward DEF RecoverQuarantined, RecoverConfirm, NextScanned, Further, Rank
  <2>3. CASE RecoverCommit(t)
    BY <1>0, <2>3, WriteOnward, FaultOnward
       DEF RecoverCommit, Misread, NextScanned, StillScanning, ScanOrRaise, Further, Rank
  <2>4. CASE RecoverDiscard(t)
    BY <1>0, <2>4, WriteOnward DEF RecoverDiscard, NextScanned, Further
  <2>5. CASE RecoverMisread(t)
    BY <1>0, <2>5, FaultOnward DEF RecoverMisread, Misread
  <2> QED  BY <1>3, <2>1, <2>2, <2>3, <2>4, <2>5
<1>4. CASE RecoverLock \/ RecoverHead \/ RecoverJournal
  <2>1. cur \in rq
    BY <1>4 DEF RecoverLock, RecoverHead, RecoverJournal, IInv, Scan, ScanPcs
  <2> QED  BY <1>0, <1>4, <2>1, WriteOnward
           DEF RecoverLock, RecoverHead, RecoverJournal, JournalBestEffort, Scanned,
               StillScanning, ScanOrRaise, Further, Rank
<1>5. CASE FinishRecovery
  BY <1>0, <1>5, MoveOnward DEF FinishRecovery, ScanComplete, procVars, Further, Rank
<1>6. CASE Crash
  BY <1>0, <1>6, BoundAssumption DEF Crash, TypeOK, Onward
<1>7. ASSUME NEW t \in Tx, DamageSnapshot(t) PROVE Onward
  BY <1>0, <1>7, FaultOnward DEF DamageSnapshot
<1> QED
  BY <1>0, <1>1, <1>2, <1>3, <1>4, <1>5, <1>6, <1>7
     DEF Next, ProcessStep, RecoveryStep, Restart, StartRecovery, BeginActivation,
         BeginRunnerActivation, ReadDamaged

(* Neither an activation nor a recovery scan can run for ever: there is no    *)
(* cycle among its steps, whatever fails and wherever the process dies.       *)
THEOREM OperationsRunOut == Spec => [][pc \notin {"idle", "down"} => Onward]_vars
<1>1. IInv /\ [Next]_vars => [pc \notin {"idle", "down"} => Onward]_vars
  BY OnwardNext
<1> QED  BY <1>1, Invariance, PTL DEF Spec

=============================================================================
