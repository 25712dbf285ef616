------------------------------- MODULE Runtime -------------------------------
(***************************************************************************)
(* The rebalance cycle of the runtime: ContinuousPaperDaemon.step_pulse,   *)
(* RuntimeSupervisor.execute_rebalance_cycle, the cycle lock of            *)
(* OperationalScheduler and the append-only file of OperationalLedger      *)
(* (runtime/daemon.py, supervisor.py, scheduler.py, ledger.py).            *)
(*                                                                         *)
(* A cycle runs through its five stages in one thread.  Every way out of   *)
(* them appends an event to the ledger and then completes the cycle in the *)
(* scheduler; an append that raises is tried again with another outcome by *)
(* the handlers the way out is nested in, and when the last one raises too *)
(* the call returns with the cycle still active.  The health status and    *)
(* the kill switch are changed by others between any two stages.           *)
(*                                                                         *)
(* An event's digest is determined by its place in the chain and by the    *)
(* cycle, so `seq' and `cycle' stand for it.  The two clocks are left out: *)
(* a pulse that a clock rule refuses changes nothing.                      *)
(***************************************************************************)
EXTENDS Naturals, Sequences

CONSTANTS
    Cycles,         \* the cycle ids a pulse may carry
    None,           \* no active cycle
    MaxFaults,      \* bound on failing appends
    MaxCrashes      \* bound on crashes

ASSUME RuntimeAssumption ==
    None \notin Cycles /\ MaxFaults \in Nat /\ MaxCrashes \in Nat

Outcomes == {"SUCCESS", "RISK_REJECTED", "DATA_STALE", "DISPATCH_FAILED",
             "INTERRUPTED_CRASH"}
Stages   == {"census", "switch", "risk", "admission"}
Lines    == [seq : Nat, cycle : Cycles, outcome : Outcomes,
             text : {"whole", "bare", "torn"}]

VARIABLES
    pc,         \* where the cycle is: a stage, "record", "complete", "idle"; or "down"
    outcome,    \* the outcome the running cycle is about to record
    tries,      \* how many appends are left before the call gives up
    daemon,     \* _lifecycle_state of the daemon
    health,     \* _health_status of the supervisor
    blocked,    \* is_blocked of the kill switch
    active,     \* _active_cycle of the scheduler
    done,       \* _completed_cycle_ids of the scheduler
    sequence,   \* _sequence of the scheduler
    expected,   \* _last_sequence of the ledger, plus one
    recorded,   \* _recorded_cycle_ids of the ledger
    file,       \* the lines of the ledger file
    hooked,     \* history: how often the hook admitted a cycle in this process
    vetoed,     \* history: the switch was blocked throughout this cycle
    faults, crashes

pipeVars   == <<pc, outcome, tries>>
schedVars  == <<active, done, sequence>>
ledgerVars == <<expected, recorded, file>>
outsideVars == <<daemon, health, blocked>>
countVars  == <<faults, crashes>>
vars == <<pipeVars, outsideVars, schedVars, ledgerVars, hooked, vetoed, countVars>>

\* Bytes written behind an unfinished line extend that line.
Written(f, line) ==
    IF f = <<>> \/ f[Len(f)].text = "whole"
    THEN Append(f, line)
    ELSE [f EXCEPT ![Len(f)].text = "torn"]

\* _replay_and_verify_existing_ledger and verify_ledger_integrity.
Readable(f) ==
    /\ \A i \in 1..Len(f) : f[i].text # "torn" /\ f[i].seq + 1 = i
    /\ \A i, j \in 1..Len(f) : f[i].cycle = f[j].cycle => i = j

RecordedIn(f) == {f[i].cycle : i \in 1..Len(f)}

-----------------------------------------------------------------------------
Init ==
    /\ pc = "idle" /\ outcome = "SUCCESS" /\ tries = 0
    /\ daemon = "UNINITIALIZED" /\ health = "HEALTHY" /\ blocked \in BOOLEAN
    /\ active = None /\ done = {} /\ sequence = 0
    /\ expected = 0 /\ recorded = {} /\ file = <<>>
    /\ hooked = [c \in Cycles |-> 0] /\ vetoed = FALSE
    /\ faults = 0 /\ crashes = 0

\* daemon.start(): audits the file, then refuses a halted supervisor.
StartDaemon ==
    /\ pc = "idle" /\ daemon # "RUNNING"
    /\ daemon' = IF Readable(file) /\ health # "HALTED" THEN "RUNNING" ELSE "HALTED_FATAL"
    /\ UNCHANGED <<pipeVars, health, blocked, schedVars, ledgerVars, hooked, vetoed, countVars>>

\* daemon.stop(): takes effect between cycles, whoever calls it.
StopDaemon ==
    /\ pc # "down" /\ daemon \in {"RUNNING", "HALTED_FATAL"}
    /\ daemon' = "STOPPED"
    /\ UNCHANGED <<pipeVars, health, blocked, schedVars, ledgerVars, hooked, vetoed, countVars>>

\* Mutant: a cycle that has completed may be started again.
Pulse_again(c) ==
    /\ pc = "idle" /\ daemon = "RUNNING" /\ health \notin {"PAUSED", "HALTED"}
    /\ active = None
    /\ active' = c
    /\ pc' = "census"
    /\ vetoed' = blocked
    /\ UNCHANGED <<outcome, tries, outsideVars, done, sequence, ledgerVars, hooked, countVars>>

\* step_pulse() of a running daemon: the supervisor's health lockout, then
\* start_cycle() takes the cycle lock.
Pulse(c) ==
    /\ pc = "idle" /\ daemon = "RUNNING" /\ health \notin {"PAUSED", "HALTED"}
    /\ active = None /\ c \notin done
    /\ active' = c
    /\ pc' = "census"
    /\ vetoed' = blocked
    /\ UNCHANGED <<outcome, tries, outsideVars, done, sequence, ledgerVars, hooked, countVars>>

\* The cycle leaves the stages with an outcome to record; `n' appends are
\* nested around this way out.
Leave(o, n) == outcome' = o /\ tries' = n /\ pc' = "record"

\* Mutant: stale data returns early, without recording and completing.
Census_returns ==
    /\ pc = "census"
    /\ \/ pc' = "idle" /\ UNCHANGED <<outcome, tries>>
       \/ Leave("DISPATCH_FAILED", 2)
       \/ pc' = "switch" /\ UNCHANGED <<outcome, tries>>
    /\ UNCHANGED <<outsideVars, schedVars, ledgerVars, hooked, vetoed, countVars>>

\* Stages 1 to 3: the data may be stale, the tournament may raise.
Census ==
    /\ pc = "census"
    /\ \/ Leave("DATA_STALE", 2)
       \/ Leave("DISPATCH_FAILED", 2)
       \/ pc' = "switch" /\ UNCHANGED <<outcome, tries>>
    /\ UNCHANGED <<outsideVars, schedVars, ledgerVars, hooked, vetoed, countVars>>

\* Mutant: the switch is left to the risk engine, which does not know it.
CheckSwitch_none ==
    /\ pc = "switch"
    /\ pc' = "risk"
    /\ UNCHANGED <<outcome, tries, outsideVars, schedVars, ledgerVars, hooked, vetoed, countVars>>

\* Stage 4, its first half.
CheckSwitch ==
    /\ pc = "switch"
    /\ IF blocked THEN Leave("RISK_REJECTED", 2)
                  ELSE pc' = "risk" /\ UNCHANGED <<outcome, tries>>
    /\ UNCHANGED <<outsideVars, schedVars, ledgerVars, hooked, vetoed, countVars>>

\* Stage 4, the risk engine: a veto, an exception, or a report to admit.
Risk ==
    /\ pc = "risk"
    /\ \/ Leave("RISK_REJECTED", 2)
       \/ Leave("INTERRUPTED_CRASH", 1)
       \/ pc' = "admission" /\ UNCHANGED <<outcome, tries>>
    /\ UNCHANGED <<outsideVars, schedVars, ledgerVars, hooked, vetoed, countVars>>

\* Mutant: the hook's answer is not looked at.
Admit_anyway ==
    /\ pc = "admission"
    /\ \/ /\ hooked' \in {hooked, [hooked EXCEPT ![active] = @ + 1]}
          /\ Leave("SUCCESS", 2)
       \/ Leave("DISPATCH_FAILED", 2) /\ UNCHANGED hooked
    /\ UNCHANGED <<outsideVars, schedVars, ledgerVars, vetoed, countVars>>

\* Stage 5: the admission hook admits, refuses or raises.  Only the refusal is
\* recorded inside the hook's own try block.
Admit ==
    /\ pc = "admission"
    /\ \/ /\ hooked' = [hooked EXCEPT ![active] = @ + 1]
          /\ Leave("SUCCESS", 2)
       \/ Leave("DISPATCH_FAILED", 3) /\ UNCHANGED hooked
       \/ Leave("DISPATCH_FAILED", 2) /\ UNCHANGED hooked
    /\ UNCHANGED <<outsideVars, schedVars, ledgerVars, vetoed, countVars>>

Line(text) == [seq |-> sequence, cycle |-> active, outcome |-> outcome, text |-> text]
Accepted   == sequence = expected /\ active \notin recorded

\* append_event() returns.
Record ==
    /\ pc = "record" /\ Accepted
    /\ file' = Written(file, Line("whole"))
    /\ expected' = expected + 1
    /\ recorded' = recorded \cup {active}
    /\ pc' = "complete"
    /\ UNCHANGED <<outcome, tries, outsideVars, schedVars, hooked, vetoed, countVars>>

\* Mutant: one append too many.
NextHandler_oneMore ==
    /\ tries' = tries - 1
    /\ pc' = IF tries = 0 THEN "idle" ELSE "record"
    /\ outcome' = IF tries = 3 THEN "DISPATCH_FAILED" ELSE "INTERRUPTED_CRASH"

\* The exception reaches the next handler, or the caller's summary.
NextHandler ==
    /\ tries' = tries - 1
    /\ pc' = IF tries = 1 THEN "idle" ELSE "record"
    /\ outcome' = IF tries = 3 THEN "DISPATCH_FAILED" ELSE "INTERRUPTED_CRASH"

\* append_event() refuses an event out of sequence or a recorded cycle.
RecordRefused ==
    /\ pc = "record" /\ ~Accepted
    /\ NextHandler
    /\ UNCHANGED <<outsideVars, schedVars, ledgerVars, hooked, vetoed, countVars>>

\* The write raises, with nothing, a part or all of the line in the file.
RecordFails ==
    /\ pc = "record" /\ Accepted
    /\ faults < MaxFaults
    /\ faults' = faults + 1
    /\ file' \in {file} \cup {Written(file, Line(t)) : t \in {"torn", "bare", "whole"}}
    /\ NextHandler
    /\ UNCHANGED <<outsideVars, schedVars, expected, recorded, hooked, vetoed, crashes>>

\* complete_cycle() releases the cycle lock.
Complete ==
    /\ pc = "complete"
    /\ active' = None
    /\ done' = done \cup {active}
    /\ sequence' = sequence + 1
    /\ pc' = "idle"
    /\ UNCHANGED <<outcome, tries, outsideVars, ledgerVars, hooked, vetoed, countVars>>

-----------------------------------------------------------------------------
\* set_health_status(): anyone, any time, any status.
SetHealth ==
    /\ pc # "down"
    /\ health' \in {"HEALTHY", "PAUSED", "HALTED"} \ {health}
    /\ UNCHANGED <<pipeVars, daemon, blocked, schedVars, ledgerVars, hooked, vetoed, countVars>>

\* The kill switch trips or is reset.
Switch ==
    /\ blocked' = ~blocked
    /\ vetoed' = FALSE
    /\ UNCHANGED <<pipeVars, daemon, health, schedVars, ledgerVars, hooked, countVars>>

\* The process dies.
Crash ==
    /\ pc # "down" /\ crashes < MaxCrashes
    /\ crashes' = crashes + 1
    /\ pc' = "down" /\ outcome' = "SUCCESS" /\ tries' = 0
    /\ daemon' = "UNINITIALIZED" /\ health' = "HEALTHY"
    /\ active' = None /\ done' = {} /\ sequence' = 0
    /\ expected' = 0 /\ recorded' = {}
    /\ hooked' = [c \in Cycles |-> 0] /\ vetoed' = FALSE
    /\ UNCHANGED <<blocked, file, faults>>

\* Mutant: the replay counts the events but does not collect their cycle ids.
Replay_noIds ==
    /\ expected' = Len(file)
    /\ recorded' = {}

\* The ledger rebuilt from its file.
Replay ==
    /\ expected' = Len(file)
    /\ recorded' = RecordedIn(file)

\* A new process: the ledger's constructor raises unless the file is readable,
\* and the scheduler resumes at the number of events the ledger holds.
Restart ==
    /\ pc = "down" /\ Readable(file)
    /\ Replay
    /\ sequence' = Len(file)
    /\ pc' = "idle"
    /\ UNCHANGED <<outcome, tries, outsideVars, active, done, file, hooked, vetoed, countVars>>

\* The steps of the thread that runs a cycle.
CycleStep ==
    \/ Census \/ CheckSwitch \/ Risk \/ Admit
    \/ Record \/ RecordRefused \/ RecordFails \/ Complete

Next ==
    \/ StartDaemon \/ StopDaemon
    \/ \E c \in Cycles : Pulse(c)
    \/ CycleStep
    \/ SetHealth \/ Switch
    \/ Crash \/ Restart

Spec     == Init /\ [][Next]_vars
FairSpec == Spec /\ WF_vars(CycleStep)

-----------------------------------------------------------------------------
(***************************************************************************)
(* Properties                                                              *)
(***************************************************************************)

\* Every variable has its type.
TypeOK ==
    /\ pc \in Stages \cup {"record", "complete", "idle", "down"}
    /\ outcome \in Outcomes /\ tries \in 0..3
    /\ daemon \in {"UNINITIALIZED", "RUNNING", "STOPPED", "HALTED_FATAL"}
    /\ health \in {"HEALTHY", "PAUSED", "HALTED"} /\ blocked \in BOOLEAN
    /\ active \in Cycles \cup {None} /\ done \subseteq Cycles /\ sequence \in Nat
    /\ expected \in Nat /\ recorded \subseteq Cycles
    /\ file \in Seq(Lines)
    /\ hooked \in [Cycles -> Nat] /\ vetoed \in BOOLEAN
    /\ faults \in 0..MaxFaults /\ crashes \in 0..MaxCrashes

\* While no append has failed, the ledger stays readable: neither a crash
\* between the append and the release of the cycle, nor a pulse that an earlier
\* process has recorded, breaks the chain of the file.
CrashesKeepLedger == faults = 0 => Readable(file)

\* One process admits a cycle at most once, also when the ledger refused it or
\* its append failed and the pulse comes again.
AdmittedOncePerProcess == \A c \in Cycles : hooked[c] <= 1

\* While no append has failed, a cycle this process has completed is in the
\* ledger as a SUCCESS exactly when its orders were admitted.
LedgerTellsAdmission ==
    faults = 0 =>
        \A c \in done :
            (hooked[c] > 0) <=>
                \E i \in 1..Len(file) : file[i].cycle = c /\ file[i].outcome = "SUCCESS"

\* A cycle through all of which the kill switch was blocked admits nothing.
VetoHolds == [][vetoed => \A c \in Cycles : hooked'[c] <= hooked[c]]_vars

\* A pulse does not hold the cycle lock for ever: the cycle is completed, or an
\* append has failed, or an earlier process had recorded it already.
CycleReleased ==
    \A c \in Cycles :
        active = c /\ pc = "census" /\ c \notin recorded
            ~> (active # c \/ faults > 0)

\* docs/phase10/contract_spec.md, section 3.C: a pulse whose cycle_id has already
\* executed is skipped without triggering duplicate orders.
DuplicatePulseSkipped ==
    [][\A c \in RecordedIn(file) : hooked'[c] <= hooked[c]]_vars
=============================================================================
