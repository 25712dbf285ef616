-------------------------------- MODULE GateB --------------------------------
(***************************************************************************)
(* The Gate B activation ledger (src/src/acash/gate_b): the two-phase      *)
(* recoverable commit that makes a live authorization ACTIVE, the startup  *)
(* recovery scan, the snapshot readers and the admission boundary, all     *)
(* over one storage root.                                                  *)
(*                                                                         *)
(* Every durable write of the code is one action, so a crash can fall      *)
(* between any two of them.  A write has three outcomes: "ok", "late"      *)
(* (the bytes are in place, the barrier after them raised) and "lost" (it  *)
(* raised before the rename).  The exclusive ledger lock is held from the  *)
(* first action of an operation to its last: pc = "idle" is the only place *)
(* where another operation may begin.                                      *)
(*                                                                         *)
(* A transaction id stands for its GO record, whose digest is the ledger   *)
(* head once the transaction is committed.                                 *)
(***************************************************************************)
EXTENDS Naturals, FiniteSets

CONSTANTS Tx,           \* activation_transaction_ids; their order is the scan's
          NoTx,         \* absent: no pointer file, no abort record, no GO record
          Genesis,      \* GENESIS_HEAD_DIGEST
          MaxCrashes,   \* bound on process crashes
          MaxFaults,    \* bound on failing writes, failing reads and bit rot
          StartupScan,  \* TRUE: recovery runs before anything else after a crash
          UseRunner     \* TRUE: the verify-only runner may activate too

ASSUME TxAssumption ==
  Tx \subseteq Nat /\ NoTx \notin Tx /\ Genesis \notin Tx /\ Genesis # NoTx
ASSUME BoundAssumption == MaxCrashes \in Nat /\ MaxFaults \in Nat
ASSUME FlagAssumption == StartupScan \in BOOLEAN /\ UseRunner \in BOOLEAN

VARIABLES
  \* the storage root
  txState,      \* tx_state/<id>.state
  journal,      \* latest state in journal/<id>.wal
  staging,      \* staging/<id>/: absent, mutation data, data and commit marker
  snap,         \* snapshots/<id>/: absent, verifiable, damaged
  pointer,      \* pointer/committed_pointer
  trans,        \* pointer/transition.json
  head,         \* head.json
  abortRec,     \* aborts/<id>.json: its pre_transaction_head_digest
  mode,         \* system_safety_mode.state
  \* the process that holds the ledger lock
  pc, cur, drv, rq,
  \* the GO records signed so far, the activations reported successful, bounds
  parent, acked, faults, crashes

diskVars == <<txState, journal, staging, snap, pointer, trans, head, abortRec, mode>>
procVars == <<cur, drv, rq>>
histVars == <<parent, acked>>
vars == <<diskVars, pc, procVars, histVars, faults, crashes>>

Heads == Tx \cup {Genesis}
Pointers == Tx \cup {NoTx}

DurableTransactionState ==
  {"PREPARED", "COMMITTING", "COMMITTED", "ABORTED", "QUARANTINED"}

ServicePcs == {"jPrepared", "setCommitting", "jCommitting", "stage", "marker",
               "promote", "transition", "switch", "cas", "setHead", "jCommitted"}
HandlerPcs == {"casQuarantine", "casLock", "casRollback", "handler", "hQuarantine", "hLock",
               "hJournal", "hAbort", "hRecord", "hRollback", "hjAborted"}
RecoveryPcs == {"rec", "recQuarantine", "recLock", "recHead", "recJournal"}
Pcs == {"idle", "down", "readLock"} \cup ServicePcs \cup HandlerPcs \cup RecoveryPcs

NoTransition == [prev |-> NoTx, new |-> NoTx, signed |-> FALSE]

TypeOK ==
  /\ txState \in [Tx -> DurableTransactionState \cup {"NONE"}]
  /\ journal \in [Tx -> DurableTransactionState \cup {"NONE"}]
  /\ staging \in [Tx -> {"none", "data", "marker"}]
  /\ snap \in [Tx -> {"none", "ok", "bad"}]
  /\ pointer \in Pointers
  /\ trans \in [prev : Pointers, new : Pointers, signed : BOOLEAN]
  /\ head \in Heads
  /\ abortRec \in [Tx -> Heads \cup {NoTx}]
  /\ mode \in {"NORMAL", "QUARANTINE_LOCKED"}
  /\ pc \in Pcs
  /\ cur \in Pointers
  /\ pc \notin {"idle", "down", "rec"} => cur \in Tx
  /\ drv \in {"service", "runner"}
  /\ rq \subseteq Tx
  /\ parent \in [Tx -> Heads \cup {NoTx}]
  /\ acked \subseteq Tx
  /\ faults \in 0 .. MaxFaults
  /\ crashes \in 0 .. MaxCrashes

Init ==
  /\ txState = [t \in Tx |-> "NONE"]
  /\ journal = [t \in Tx |-> "NONE"]
  /\ staging = [t \in Tx |-> "none"]
  /\ snap = [t \in Tx |-> "none"]
  /\ pointer = NoTx
  /\ trans = NoTransition
  /\ head = Genesis
  /\ abortRec = [t \in Tx |-> NoTx]
  /\ mode = "NORMAL"
  /\ pc = "idle" /\ cur = NoTx /\ drv = "service" /\ rq = {}
  /\ parent = [t \in Tx |-> NoTx]
  /\ acked = {}
  /\ faults = 0 /\ crashes = 0

-----------------------------------------------------------------------------
(* Outcomes of a durable write (write_file_durable, storage.py).            *)

Outcomes == IF faults < MaxFaults THEN {"ok", "late", "lost"} ELSE {"ok"}
Count(o) == faults' = IF o = "ok" THEN faults ELSE faults + 1
Put(f, t, v, o) == IF o = "lost" THEN f ELSE [f EXCEPT ![t] = v]

(* Where a write leads.  A failure inside the try block of                   *)
(* execute_atomic_activation reaches its exception handler; the runner has    *)
(* no handler and just raises.                                                *)
Then(next, o) ==
  IF o = "ok" THEN next ELSE IF drv = "service" THEN "handler" ELSE "idle"

(* A failure outside any handler raises out of the operation.                *)
OrRaise(next, o) == IF o = "ok" THEN next ELSE "idle"

(* An exception leaves run_recovery; at startup that ends the process.       *)
ScanOrRaise(next, o) ==
  IF o = "ok" THEN next ELSE IF StartupScan THEN "down" ELSE "idle"
Scanned(o) == IF o = "ok" THEN rq \ {cur} ELSE {}
StillScanning(o) == IF o = "ok" THEN rq ELSE {}

(* get_durable_tx_state answers QUARANTINED for a state file that is there but *)
(* cannot be read; the next read of it may succeed.                           *)
Misread(t) ==
  /\ txState[t] # "NONE"
  /\ faults < MaxFaults
  /\ faults' = faults + 1

(* Best-effort journal writes: failures are swallowed.                       *)
JournalBestEffort(s, next) ==
  \E o \in Outcomes :
    /\ journal' = Put(journal, cur, s, o)
    /\ Count(o)
    /\ pc' = next

-----------------------------------------------------------------------------
(* What the code reads off the disk before it decides.                       *)

PreHead(t) == IF abortRec[t] = NoTx THEN head ELSE abortRec[t]

\* mutant: only the promoted marker counts
has_durable_commit_marker_promoted(t) == snap[t] # "none"
has_durable_commit_marker(t) == staging[t] = "marker" \/ snap[t] # "none"

has_any_durable_commit_evidence(t) ==
  \/ snap[t] # "none"
  \/ pointer = t
  \/ has_durable_commit_marker(t)
  \/ t \in {trans.new, trans.prev}
  \/ head # Genesis /\ head # PreHead(t)

is_provably_uncommitted(t) ==
  /\ abortRec[t] # NoTx
  /\ txState[t] = "ABORTED"
  /\ snap[t] = "none"
  /\ pointer # t
  /\ ~has_durable_commit_marker(t)
  /\ head = abortRec[t]
  /\ journal[t] # "COMMITTED"

(* The read-only outcome of read_active_committed_snapshot, and the part of   *)
(* evaluate_admission that depends on the ledger (its stages 1, 2 and 6).     *)
Readable(t) == txState[t] = "COMMITTED" /\ snap[t] = "ok"
Admissible ==
  /\ mode = "NORMAL"
  /\ pointer \in Tx
  /\ Readable(pointer)
  /\ head = pointer

-----------------------------------------------------------------------------
(* Activation through AtomicActivationTransactionManager.                    *)

(* The GO record chains off the current head, the id is fresh and the safety *)
(* mode is NORMAL; signatures and expiry are taken as valid.                 *)
MayActivate(t) == mode = "NORMAL" /\ txState[t] = "NONE" /\ parent[t] = NoTx

BeginActivation(t) ==
  /\ pc = "idle"
  /\ MayActivate(t)
  /\ \E o \in Outcomes :
       /\ txState' = Put(txState, t, "PREPARED", o)
       /\ Count(o)
       /\ pc' = OrRaise("jPrepared", o)
  /\ parent' = [parent EXCEPT ![t] = head]
  /\ cur' = t /\ drv' = "service"
  /\ UNCHANGED <<journal, staging, snap, pointer, trans, head, abortRec, mode,
                 rq, acked, crashes>>

(* The runner accepts only a GO record that chains off genesis and never     *)
(* looks at the safety mode.                                                 *)
BeginRunnerActivation(t) ==
  /\ UseRunner
  /\ pc = "idle"
  /\ head = Genesis
  /\ txState[t] = "NONE" /\ parent[t] = NoTx
  /\ \E o \in Outcomes :
       /\ txState' = Put(txState, t, "PREPARED", o)
       /\ Count(o)
       /\ pc' = OrRaise("setCommitting", o)
  /\ parent' = [parent EXCEPT ![t] = Genesis]
  /\ cur' = t /\ drv' = "runner"
  /\ UNCHANGED <<journal, staging, snap, pointer, trans, head, abortRec, mode,
                 rq, acked, crashes>>

JournalPrepared ==
  /\ pc = "jPrepared"
  /\ \E o \in Outcomes :
       /\ journal' = Put(journal, cur, "PREPARED", o)
       /\ Count(o)
       /\ pc' = OrRaise("setCommitting", o)
  /\ UNCHANGED <<txState, staging, snap, pointer, trans, head, abortRec, mode,
                 procVars, histVars, crashes>>

SetCommitting ==
  /\ pc = "setCommitting"
  /\ \E o \in Outcomes :
       /\ txState' = Put(txState, cur, "COMMITTING", o)
       /\ Count(o)
       /\ pc' = OrRaise(IF drv = "service" THEN "jCommitting" ELSE "stage", o)
  /\ UNCHANGED <<journal, staging, snap, pointer, trans, head, abortRec, mode,
                 procVars, histVars, crashes>>

JournalCommitting ==
  /\ pc = "jCommitting"
  /\ \E o \in Outcomes :
       /\ journal' = Put(journal, cur, "COMMITTING", o)
       /\ Count(o)
       /\ pc' = OrRaise("stage", o)
  /\ UNCHANGED <<txState, staging, snap, pointer, trans, head, abortRec, mode,
                 procVars, histVars, crashes>>

-----------------------------------------------------------------------------
(* The five phases of execute_durable_commit.                                *)

StageData ==
  /\ pc = "stage"
  /\ \E o \in Outcomes :
       /\ staging' = Put(staging, cur, "data", o)
       /\ Count(o)
       /\ pc' = Then("marker", o)
  /\ UNCHANGED <<txState, journal, snap, pointer, trans, head, abortRec, mode,
                 procVars, histVars, crashes>>

WriteMarker ==
  /\ pc = "marker"
  /\ \E o \in Outcomes :
       /\ staging' = Put(staging, cur, "marker", o)
       /\ Count(o)
       /\ pc' = Then("promote", o)
  /\ UNCHANGED <<txState, journal, snap, pointer, trans, head, abortRec, mode,
                 procVars, histVars, crashes>>

(* os.replace, read-only marking, fsync_3 and the pre-CAS deep verification. *)
Promote ==
  /\ pc = "promote"
  /\ \E o \in Outcomes :
       /\ staging' = Put(staging, cur, "none", o)
       /\ snap' = Put(snap, cur, "ok", o)
       /\ Count(o)
       /\ pc' = Then("transition", o)
  /\ UNCHANGED <<txState, journal, pointer, trans, head, abortRec, mode,
                 procVars, histVars, crashes>>

(* The runner's pre-signed signature never covers the record it writes.      *)
\* mutant: the record keeps the head where the pointer belongs
WriteTransition_head ==
  /\ pc = "transition"
  /\ \E o \in Outcomes :
       /\ trans' = IF o = "lost" THEN trans
                   ELSE [prev |-> head, new |-> cur, signed |-> drv = "service"]
       /\ Count(o)
       /\ pc' = Then("switch", o)
  /\ UNCHANGED <<txState, journal, staging, snap, pointer, head, abortRec, mode,
                 procVars, histVars, crashes>>
WriteTransition ==
  /\ pc = "transition"
  /\ \E o \in Outcomes :
       /\ trans' = IF o = "lost" THEN trans
                   ELSE [prev |-> pointer, new |-> cur, signed |-> drv = "service"]
       /\ Count(o)
       /\ pc' = Then("switch", o)
  /\ UNCHANGED <<txState, journal, staging, snap, pointer, head, abortRec, mode,
                 procVars, histVars, crashes>>

SwitchPointer ==
  /\ pc = "switch"
  /\ \E o \in Outcomes :
       /\ pointer' = IF o = "lost" THEN pointer ELSE cur
       /\ Count(o)
       /\ pc' = Then("cas", o)
  /\ UNCHANGED <<txState, journal, staging, snap, trans, head, abortRec, mode,
                 procVars, histVars, crashes>>

CasCommitted ==
  /\ pc = "cas"
  /\ txState[cur] = "COMMITTING"
  /\ \E o \in Outcomes :
       /\ txState' = Put(txState, cur, "COMMITTED", o)
       /\ Count(o)
       /\ pc' = Then("setHead", o)
  /\ UNCHANGED <<journal, staging, snap, pointer, trans, head, abortRec, mode,
                 procVars, histVars, crashes>>

(* A state file that reads as QUARANTINED does not match the CAS.             *)
(* The service goes on to handle_post_pointer_switch_cas_failure; the runner  *)
(* only raises.                                                               *)
\* mutant: the runner does not look at the result of the CAS
CasMismatch_ignored ==
  /\ pc = "cas"
  /\ Misread(cur)
  /\ pc' = IF drv = "service" THEN "casQuarantine" ELSE "setHead"
  /\ UNCHANGED <<diskVars, procVars, histVars, crashes>>
CasMismatch ==
  /\ pc = "cas"
  /\ Misread(cur)
  /\ pc' = IF drv = "service" THEN "casQuarantine" ELSE "idle"
  /\ UNCHANGED <<diskVars, procVars, histVars, crashes>>

(* handle_post_pointer_switch_cas_failure serves the activation, which raises *)
(* into its handler afterwards, and the recovery scan, which goes on (rq is   *)
(* empty in the former and holds cur in the latter).                          *)
CasFailureQuarantine ==
  /\ pc = "casQuarantine"
  /\ \E o \in Outcomes :
       /\ txState' = Put(txState, cur, "QUARANTINED", o)
       /\ Count(o)
       /\ pc' = IF rq = {} THEN Then("casLock", o) ELSE ScanOrRaise("casLock", o)
       /\ rq' = StillScanning(o)
  /\ UNCHANGED <<journal, staging, snap, pointer, trans, head, abortRec, mode,
                 cur, drv, histVars, crashes>>

CasFailureLock ==
  /\ pc = "casLock"
  /\ \E o \in Outcomes :
       /\ mode' = IF o = "lost" THEN mode ELSE "QUARANTINE_LOCKED"
       /\ Count(o)
       /\ pc' = IF rq = {} THEN Then("casRollback", o)
                ELSE ScanOrRaise("casRollback", o)
       /\ rq' = StillScanning(o)
  /\ UNCHANGED <<txState, journal, staging, snap, pointer, trans, head, abortRec,
                 cur, drv, histVars, crashes>>

(* The pointer goes back only under an authentic transition record.           *)
CasFailureRollback ==
  /\ pc = "casRollback"
  /\ \E o \in Outcomes :
       /\ pointer' = IF trans.signed /\ o # "lost" THEN trans.prev ELSE pointer
       /\ Count(o)
       /\ pc' = IF rq = {} THEN "handler" ELSE ScanOrRaise("rec", o)
       /\ rq' = Scanned(o)
  /\ UNCHANGED <<txState, journal, staging, snap, trans, head, abortRec, mode,
                 cur, drv, histVars, crashes>>

SetHead ==
  /\ pc = "setHead"
  /\ \E o \in Outcomes :
       /\ head' = IF o = "lost" THEN head ELSE cur
       /\ Count(o)
       /\ pc' = Then(IF drv = "service" THEN "jCommitted" ELSE "idle", o)
       /\ acked' = IF drv = "runner" /\ o = "ok" THEN acked \cup {cur} ELSE acked
  /\ UNCHANGED <<txState, journal, staging, snap, pointer, trans, abortRec, mode,
                 procVars, parent, crashes>>

JournalCommitted ==
  /\ pc = "jCommitted"
  /\ JournalBestEffort("COMMITTED", "idle")
  /\ acked' = acked \cup {cur}
  /\ UNCHANGED <<txState, staging, snap, pointer, trans, head, abortRec, mode,
                 procVars, parent, crashes>>

-----------------------------------------------------------------------------
(* The exception handler of execute_atomic_activation.                       *)

\* mutant: an activation still COMMITTING is reported as done
HandlerCommitted_committing ==
  /\ pc = "handler"
  /\ txState[cur] \in {"COMMITTED", "COMMITTING"}
  /\ pc' = "idle"
  /\ acked' = acked \cup {cur}
  /\ UNCHANGED <<diskVars, procVars, parent, faults, crashes>>
HandlerCommitted ==
  /\ pc = "handler"
  /\ txState[cur] = "COMMITTED"
  /\ pc' = "idle"
  /\ acked' = acked \cup {cur}
  /\ UNCHANGED <<diskVars, procVars, parent, faults, crashes>>

HandlerDecides ==
  /\ pc = "handler"
  /\ \/ txState[cur] # "COMMITTED" /\ UNCHANGED faults
     \/ Misread(cur)
  /\ pc' = IF has_any_durable_commit_evidence(cur) THEN "hQuarantine" ELSE "hAbort"
  /\ UNCHANGED <<diskVars, procVars, histVars, crashes>>

(* The violation log is written first and unguarded: "lost" covers its       *)
(* failure too.                                                              *)
HandlerQuarantine ==
  /\ pc = "hQuarantine"
  /\ \E o \in Outcomes :
       /\ txState' = Put(txState, cur, "QUARANTINED", o)
       /\ Count(o)
       /\ pc' = OrRaise("hLock", o)
  /\ UNCHANGED <<journal, staging, snap, pointer, trans, head, abortRec, mode,
                 procVars, histVars, crashes>>

HandlerLock ==
  /\ pc = "hLock"
  /\ \E o \in Outcomes :
       /\ mode' = IF o = "lost" THEN mode ELSE "QUARANTINE_LOCKED"
       /\ Count(o)
       /\ pc' = OrRaise("hJournal", o)
  /\ UNCHANGED <<txState, journal, staging, snap, pointer, trans, head, abortRec,
                 procVars, histVars, crashes>>

HandlerJournal ==
  /\ pc = "hJournal"
  /\ JournalBestEffort("QUARANTINED", "idle")
  /\ UNCHANGED <<txState, staging, snap, pointer, trans, head, abortRec, mode,
                 procVars, histVars, crashes>>

(* The result of this CAS is ignored: a misread state file leaves the        *)
(* transaction COMMITTING and the handler carries on.                        *)
HandlerAbort ==
  /\ pc = "hAbort"
  /\ \/ \E o \in Outcomes :
          /\ txState' = IF txState[cur] = "COMMITTING"
                        THEN Put(txState, cur, "ABORTED", o) ELSE txState
          /\ Count(o)
          /\ pc' = OrRaise("hRecord", o)
     \/ /\ Misread(cur)
        /\ pc' = "hRecord"
        /\ UNCHANGED txState
  /\ UNCHANGED <<journal, staging, snap, pointer, trans, head, abortRec, mode,
                 procVars, histVars, crashes>>

HandlerAbortRecord ==
  /\ pc = "hRecord"
  /\ \E o \in Outcomes :
       /\ abortRec' = Put(abortRec, cur, parent[cur], o)
       /\ Count(o)
       /\ pc' = OrRaise("hRollback", o)
  /\ UNCHANGED <<txState, journal, staging, snap, pointer, trans, head, mode,
                 procVars, histVars, crashes>>

(* rollback_staging ignores its errors. *)
HandlerRollback ==
  /\ pc = "hRollback"
  /\ \E o \in Outcomes :
       /\ staging' = Put(staging, cur, "none", o)
       /\ Count(o)
  /\ pc' = "hjAborted"
  /\ UNCHANGED <<txState, journal, snap, pointer, trans, head, abortRec, mode,
                 procVars, histVars, crashes>>

HandlerJournalAborted ==
  /\ pc = "hjAborted"
  /\ JournalBestEffort("ABORTED", "idle")
  /\ UNCHANGED <<txState, staging, snap, pointer, trans, head, abortRec, mode,
                 procVars, histVars, crashes>>

-----------------------------------------------------------------------------
(* GateBRecoveryCoordinator.run_recovery: the decision tree, one transaction *)
(* after another in the order of their ids.                                  *)

\* mutant: the tx_state directory is not scanned
Discovered_noStates == {t \in Tx : staging[t] # "none" \/ snap[t] # "none" \/ pointer = t}
Discovered ==
  {t \in Tx : txState[t] # "NONE" \/ staging[t] # "none" \/ snap[t] # "none"
              \/ pointer = t}

StartRecovery ==
  /\ pc = "idle"
  /\ pc' = "rec"
  /\ rq' = Discovered
  /\ UNCHANGED <<diskVars, cur, drv, histVars, faults, crashes>>

NextScanned(t) == pc = "rec" /\ t \in rq /\ \A u \in rq : t <= u

(* B92: a COMMITTED journal never elevates; it contradicts any other state.  *)
JournalContradicts(t) == journal[t] = "COMMITTED" /\ txState[t] # "COMMITTED"

is_active_or_prev(t) == pointer = t \/ trans.prev = t

\* mutant: a transition record is enough, the pointer need not have moved
RecoverableIntent_recordOnly(t) == trans.new = t /\ trans.signed /\ snap[t] = "ok"
RecoverableIntent(t) ==
  /\ pointer = t
  /\ trans.new = t /\ trans.signed
  /\ snap[t] = "ok"

CommittedVerdict(t) ==
  IF is_active_or_prev(t) /\ snap[t] = "ok" THEN "confirm" ELSE "quarantine"

CommittingVerdict(t) == IF RecoverableIntent(t) THEN "commit" ELSE "quarantine"

AbortedVerdict(t) == IF is_provably_uncommitted(t) THEN "discard" ELSE "quarantine"

PreparedVerdict(t) ==
  IF has_any_durable_commit_evidence(t) THEN "quarantine" ELSE "discard"

\* mutants: a settled quarantine is skipped; a live pointer elevates it again
QuarantinedVerdict_skipped(t) == "discard"
QuarantinedVerdict_elevated(t) == IF RecoverableIntent(t) THEN "commit" ELSE "lock"
QuarantinedVerdict(t) == "lock"

Verdict(t) ==
  CASE JournalContradicts(t) -> "quarantine"
    [] txState[t] = "COMMITTED" -> CommittedVerdict(t)
    [] txState[t] = "COMMITTING" -> CommittingVerdict(t)
    [] txState[t] = "ABORTED" -> AbortedVerdict(t)
    [] txState[t] \in {"PREPARED", "NONE"} -> PreparedVerdict(t)
    [] OTHER -> QuarantinedVerdict(t)

(* A misread at the start of the tree ends in Branch 5, which locks and does *)
(* not write the state file, or contradicts a COMMITTED journal; one in the  *)
(* proof of an abort refutes the proof.                                      *)
RecoverMisread(t) ==
  /\ NextScanned(t)
  /\ Misread(t)
  /\ cur' = t
  /\ \/ pc' = IF journal[t] = "COMMITTED" THEN "recQuarantine" ELSE "recLock"
     \/ txState[t] = "ABORTED" /\ pc' = "recQuarantine"
  /\ UNCHANGED <<diskVars, drv, rq, histVars, crashes>>

RecoverQuarantine(t) ==
  /\ \/ NextScanned(t) /\ Verdict(t) = "quarantine"
     \/ pc = "recQuarantine" /\ cur = t
  /\ cur' = t
  /\ \E o \in Outcomes :
       /\ txState' = Put(txState, t, "QUARANTINED", o)
       /\ Count(o)
       /\ pc' = ScanOrRaise("recLock", o)
       /\ rq' = StillScanning(o)
  /\ UNCHANGED <<journal, staging, snap, pointer, trans, head, abortRec, mode,
                 drv, histVars, crashes>>

RecoverQuarantined(t) ==
  /\ NextScanned(t)
  /\ Verdict(t) = "lock"
  /\ cur' = t
  /\ pc' = "recLock"
  /\ UNCHANGED <<diskVars, drv, rq, histVars, faults, crashes>>

RecoverLock ==
  /\ pc = "recLock"
  /\ \E o \in Outcomes :
       /\ mode' = IF o = "lost" THEN mode ELSE "QUARANTINE_LOCKED"
       /\ Count(o)
       /\ pc' = ScanOrRaise("rec", o)
       /\ rq' = Scanned(o)
  /\ UNCHANGED <<txState, journal, staging, snap, pointer, trans, head, abortRec,
                 cur, drv, histVars, crashes>>

RecoverCommit(t) ==
  /\ NextScanned(t)
  /\ Verdict(t) = "commit"
  /\ cur' = t
  /\ \/ \E o \in Outcomes :
          /\ txState' = Put(txState, t, "COMMITTED", o)
          /\ Count(o)
          /\ pc' = ScanOrRaise("recHead", o)
          /\ rq' = StillScanning(o)
     \/ /\ Misread(t)                  \* by the CAS
        /\ pc' = "casQuarantine"
        /\ UNCHANGED <<txState, rq>>
  /\ UNCHANGED <<journal, staging, snap, pointer, trans, head, abortRec, mode,
                 drv, histVars, crashes>>

RecoverHead ==
  /\ pc = "recHead"
  /\ \E o \in Outcomes :
       /\ head' = IF o = "lost" THEN head ELSE cur
       /\ Count(o)
       /\ pc' = ScanOrRaise("recJournal", o)
       /\ rq' = StillScanning(o)
  /\ UNCHANGED <<txState, journal, staging, snap, pointer, trans, abortRec, mode,
                 cur, drv, histVars, crashes>>

RecoverConfirm(t) ==
  /\ NextScanned(t)
  /\ Verdict(t) = "confirm"
  /\ cur' = t
  /\ pc' = "recJournal"
  /\ UNCHANGED <<diskVars, drv, rq, histVars, faults, crashes>>

RecoverJournal ==
  /\ pc = "recJournal"
  /\ JournalBestEffort("COMMITTED", "rec")
  /\ rq' = rq \ {cur}
  /\ UNCHANGED <<txState, staging, snap, pointer, trans, head, abortRec, mode,
                 cur, drv, histVars, crashes>>

(* rollback_staging ignores errors.  The result object says ABORTED; the     *)
(* state file is left as it was.                                             *)
RecoverDiscard(t) ==
  /\ NextScanned(t)
  /\ Verdict(t) = "discard"
  /\ \E o \in Outcomes :
       /\ staging' = Put(staging, t, "none", o)
       /\ Count(o)
  /\ cur' = t
  /\ pc' = "rec"
  /\ rq' = rq \ {t}
  /\ UNCHANGED <<txState, journal, snap, pointer, trans, head, abortRec, mode,
                 drv, histVars, crashes>>

ScanComplete == pc = "rec" /\ rq = {}

FinishRecovery ==
  /\ ScanComplete
  /\ pc' = "idle"
  /\ UNCHANGED <<diskVars, procVars, histVars, faults, crashes>>

-----------------------------------------------------------------------------
(* SnapshotReaderService: reading is pure until a snapshot fails to verify;   *)
(* the reader then escalates.                                                 *)

ReadDamaged(t) ==
  /\ pc = "idle"
  /\ txState[t] = "COMMITTED" /\ snap[t] = "bad"
  /\ cur' = t
  /\ \E o \in Outcomes :
       /\ txState' = Put(txState, t, "QUARANTINED", o)
       /\ Count(o)
       /\ pc' = OrRaise("readLock", o)
  /\ UNCHANGED <<journal, staging, snap, pointer, trans, head, abortRec, mode,
                 drv, rq, histVars, crashes>>

ReaderLock ==
  /\ pc = "readLock"
  /\ \E o \in Outcomes :
       /\ mode' = IF o = "lost" THEN mode ELSE "QUARANTINE_LOCKED"
       /\ Count(o)
       /\ pc' = "idle"
  /\ UNCHANGED <<txState, journal, staging, snap, pointer, trans, head, abortRec,
                 procVars, histVars, crashes>>

-----------------------------------------------------------------------------
(* The environment.                                                           *)

DamageSnapshot(t) ==
  /\ snap[t] = "ok"
  /\ faults < MaxFaults
  /\ snap' = [snap EXCEPT ![t] = "bad"]
  /\ faults' = faults + 1
  /\ UNCHANGED <<txState, journal, staging, pointer, trans, head, abortRec, mode,
                 pc, procVars, histVars, crashes>>

Crash ==
  /\ pc # "down"
  /\ crashes < MaxCrashes
  /\ crashes' = crashes + 1
  /\ pc' = "down"
  /\ cur' = NoTx /\ drv' = "service" /\ rq' = {}
  /\ UNCHANGED <<diskVars, histVars, faults>>

Restart ==
  /\ pc = "down"
  /\ pc' = IF StartupScan THEN "rec" ELSE "idle"
  /\ rq' = IF StartupScan THEN Discovered ELSE {}
  /\ UNCHANGED <<diskVars, cur, drv, histVars, faults, crashes>>

-----------------------------------------------------------------------------
ActivationStep ==
  \/ JournalPrepared \/ SetCommitting \/ JournalCommitting
  \/ StageData \/ WriteMarker \/ Promote \/ WriteTransition \/ SwitchPointer
  \/ CasCommitted \/ CasMismatch
  \/ CasFailureQuarantine \/ CasFailureLock \/ CasFailureRollback
  \/ SetHead \/ JournalCommitted

HandlerStep ==
  \/ HandlerCommitted \/ HandlerDecides
  \/ HandlerQuarantine \/ HandlerLock \/ HandlerJournal
  \/ HandlerAbort \/ HandlerAbortRecord \/ HandlerRollback \/ HandlerJournalAborted

RecoveryStep ==
  \/ \E t \in Tx : \/ RecoverMisread(t)
                   \/ RecoverQuarantine(t) \/ RecoverQuarantined(t)
                   \/ RecoverCommit(t) \/ RecoverConfirm(t) \/ RecoverDiscard(t)
  \/ RecoverLock \/ RecoverHead \/ RecoverJournal \/ FinishRecovery

ProcessStep == ActivationStep \/ HandlerStep \/ RecoveryStep \/ ReaderLock \/ Restart

Next ==
  \/ ProcessStep
  \/ StartRecovery
  \/ \E t \in Tx : \/ BeginActivation(t) \/ BeginRunnerActivation(t)
                   \/ ReadDamaged(t) \/ DamageSnapshot(t)
  \/ Crash

Spec == Init /\ [][Next]_vars

(* The process runs the operation it has begun to its end, and a process that *)
(* went down is started again.  Nobody is obliged to begin an activation.     *)
FairSpec == Spec /\ WF_vars(ProcessStep)

-----------------------------------------------------------------------------
(* B94: an aborted transaction never leaves the staging namespace.  It has no *)
(* snapshot, no pointer, no head, no COMMITTED journal and was never reported *)
(* as activated, although the abort is decided and recorded in four separate  *)
(* writes, any of which may fail or be the last before a crash.               *)
AbortedLeavesNoTrace ==
  \A t \in Tx : txState[t] = "ABORTED" =>
    /\ snap[t] = "none" /\ staging[t] # "marker"
    /\ pointer # t /\ head # t
    /\ journal[t] # "COMMITTED"
    /\ t \notin acked

(* An activation that was reported successful stays committed on disk, with   *)
(* its snapshot, through any later crash, fault, activation or recovery; the  *)
(* only thing that may happen to it is quarantine.                            *)
AcknowledgedSurvives ==
  \A t \in acked : txState[t] \in {"COMMITTED", "QUARANTINED"} /\ snap[t] # "none"

(* The head, and every head a GO record was signed against, is genesis or a   *)
(* record that reached COMMITTED and whose snapshot is still there: no chain  *)
(* is built on a transaction that did not commit.                             *)
ChainGrounded ==
  \A h \in {head} \cup {parent[t] : t \in Tx} : h \in Tx =>
    txState[h] \in {"COMMITTED", "QUARANTINED"} /\ snap[h] # "none"

(* The pointer, and the rollback target the transition record names, always   *)
(* resolve to a promoted snapshot directory.                                  *)
PointerResolves ==
  \A t \in {pointer, trans.prev, trans.new} : t \in Tx => snap[t] # "none"

(* A recovery scan that has seen every transaction leaves nothing in flight,  *)
(* unless it misread a state file, and then the system is locked.  Locked it  *)
(* is also when anything is quarantined, even if the escalation that did it   *)
(* was cut short between its two writes.                                      *)
ScanSettles ==
  ScanComplete =>
    /\ \A t \in Tx : txState[t] \in {"COMMITTING", "QUARANTINED"}
                      => mode = "QUARANTINE_LOCKED"
    /\ faults = 0 => \A t \in Tx : txState[t] # "COMMITTING"

(* A quarantined transaction stops admission, even when the crash that cut    *)
(* its escalation short left the safety mode NORMAL: the startup scan locks   *)
(* the system before admission can be asked again.                            *)
QuarantineFreezesAdmission ==
  pc = "idle" /\ Admissible => \A t \in Tx : txState[t] # "QUARANTINED"

(* An outcome is decided once: COMMITTED and ABORTED are left only for        *)
(* QUARANTINED, QUARANTINED is final, and COMMITTED is reached only from      *)
(* COMMITTING, whoever writes the state file.                                 *)
DecidedStep ==
  \A t \in Tx : txState'[t] # txState[t] =>
    CASE txState[t] = "NONE" -> txState'[t] \in {"PREPARED", "QUARANTINED"}
      [] txState[t] = "PREPARED" -> txState'[t] \in {"COMMITTING", "QUARANTINED"}
      [] txState[t] = "COMMITTING" ->
           txState'[t] \in {"COMMITTED", "ABORTED", "QUARANTINED"}
      [] OTHER -> txState[t] # "QUARANTINED" /\ txState'[t] = "QUARANTINED"
DecidedOnce == [][DecidedStep]_vars

(* Two things still become COMMITTED in a locked system, for neither looks at  *)
(* the safety mode: an activation whose pointer had moved under an authentic   *)
(* record, which the recovery scan completes, and where the verify-only runner *)
(* is used, its own activation of a record that chains off genesis.            *)
LockedStep ==
  \A t \in Tx :
    mode = "QUARANTINE_LOCKED" /\ txState[t] # "COMMITTED" /\ txState'[t] = "COMMITTED"
      => \/ pc = "rec" /\ RecoverableIntent(t)
         \/ UseRunner /\ drv = "runner" /\ cur = t /\ parent[t] = Genesis
LockFreezesActivation == [][LockedStep]_vars

(* Every activation in flight is eventually settled: by its own process, or   *)
(* by the startup scan after the crash that interrupted it.                   *)
InFlightSettles ==
  \A t \in Tx : txState[t] = "COMMITTING" ~> txState[t] # "COMMITTING"

(* GateB implements the ledger contract: an activation is served when the     *)
(* pointer names it and its state file says COMMITTED.                        *)
Outcome(t) ==
  CASE txState[t] = "COMMITTED" -> "committed"
    [] txState[t] = "ABORTED" -> "aborted"
    [] txState[t] = "QUARANTINED" -> "withheld"
    [] OTHER -> "open"
Served == IF pointer \in Tx /\ txState[pointer] = "COMMITTED" THEN pointer ELSE NoTx

Ledger == INSTANCE ActivationLedger
  WITH outcome <- [t \in Tx |-> Outcome(t)], served <- Served, reported <- acked
ImplementsLedger == Ledger!LSpec

-----------------------------------------------------------------------------
(* A claim of the documents that the code does not meet, and the subject of a *)
(* run that exhibits the disagreement.                                        *)

(* docs/phase13/slice2_gate_b_plan.md:520-523: an activation that does not     *)
(* extend the current head is rejected, so no two committed records extend the *)
(* same head.                                                                  *)
NoFork ==
  \A t, u \in Tx :
    txState[t] = "COMMITTED" /\ txState[u] = "COMMITTED" /\ parent[t] = parent[u] => t = u
=============================================================================
