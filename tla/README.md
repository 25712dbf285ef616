# ACASH in TLA+

ACASH is a research and paper-trading platform written in Python
(`src/src/acash`). This directory holds a model of its operational core: the
parts that keep state on disk, survive crashes, take orders' fate from a venue
they do not control, and must refuse rather than guess. Each is a TLA+ module
translated from the source, checked by TLC on small instances, and, where it
matters most, proved with TLAPS for every value of the constants.

Paths below are relative to `src/` of the repository; `acash/` stands for
`src/acash/`.

## 1. The system

### 1.1 Components

The repository's README counts fourteen layers. The packages that implement
them, the state each keeps and how it is touched:

| Component | Source | State | Operations | Talks to |
|---|---|---|---|---|
| Gate B activation ledger | `acash/gate_b/{service,storage,recovery,runner,readers}.py` | per transaction: state file, staging, promoted snapshot, abort record; global: pointer, transition record, head, safety mode, journal | activate (5 phases), verify-only runner, recovery scan, snapshot reads | admission reads its outcome |
| Gate B admission | `acash/gate_b/{admission,readiness,manifest,exceptions}.py` | none | eight ordered checks, readiness report | ledger, restriction authority |
| Kill switch | `acash/risk/kill_switch.py` | latch, latest event, JSON-lines file | trip, submit_reset, recover | supervisor, risk engine |
| Risk engine and bridges | `acash/risk/{risk_engine,bridge,emergency}.py` | none | evaluate an allocation, scale it down, reject it | supervisor |
| Execution coordinator | `acash/execution/{coordinator,state_machine,broker_events,broker_adapter}.py` | shadow order, fill ledger, seen identities, incidents, dispute flag | apply a venue event, reconcile with evidence | venue adapter, restriction authority |
| Restriction authority, order admission | `acash/execution/{operational_restriction,admission,signing,crypto}.py` | open restrictions | open, clear, gate an intent | coordinator, admission |
| Alpaca paper venue | `acash/execution/alpaca/{real_driver,adapter,transport}.py` | the call's last snapshot, local event numbers | submit and observe (stream, snapshots, timeout, parity check) | coordinator, venue |
| MT5 venue | `acash/execution/mt5/` | safety state, reconciliation confirmation | preflight, six-dimensional reconciliation | coordinator |
| Runtime | `acash/runtime/{daemon,supervisor,scheduler,ledger,schema}.py` | lifecycle, health, cycle lock, completed ids, ledger file | start, stop, pulse, append, replay | kill switch, risk engine, portfolio tournament, admission hook |
| Rehydration | `acash/runtime/rehydration.py` | snapshot file | classify a restart | runtime ledger |
| Paper bridge, feeder | `acash/runtime/{paper_bridge,feeder,strategy_adapter}.py` | positions, feed cursor | admit and fill on paper, project | runtime, order state machine |
| Paper runner | `acash/paper/{runner,journal,session,reconcile,killswitch}.py` | decision journal, position, kill switch, seen bars, manifest | decide on a bar, record, recover, stop and seal | strategy, feed |
| Session shutdown, backup | `acash/paper/{shutdown,snapshot,backup,restore,window}.py` | copies of a session | copy, verify, restore | paper runner |
| Paper tournament | `acash/paper/{tournament,tournament_cli,recovery,feed}.py` | slots with their sessions, staged candidates, feed cursor, health | poll, deliver, recover the feed, stage, halt | paper runner, market feed |
| Forward monitoring | `acash/monitoring/` | strategy state, evidence ledger, sequence cursor | ingest, transition, append | runtime ledger |
| Post-paper data surface | `acash/ppds/` | none | lots, reconciliation, attribution | venue exports |
| Portfolio, strategy | `acash/portfolio/`, `acash/strategy/` | none | optimise, rank | supervisor |
| Research, alpha qualification, validation | `acash/research/`, `acash/validation/` | single-use authorities | studies, estimators, seals | data |
| Backtest | `acash/backtest/` | simulated book | run | data |
| Data | `acash/data/` | Parquet store | acquire, aggregate | providers |
| Core, evidence, storage, telemetry, invest | `acash/{core,evidence,storage,telemetry,invest}/` | none or one file | value types, manifests, logging | all |
| Scripts, governance tools, dashboard | `scripts/`, `tools/`, `dashboard/` | none | one-shot studies, host validation, user interface | all |

How they meet in a trading day: the daemon pulses the supervisor, which asks the
portfolio tournament for an allocation, the kill switch and the risk engine for
a verdict, and an admission hook for orders, and seals the outcome in the
operational ledger. Admission requires that Gate B serves an authorized
activation and that no restriction is open. An admitted order lives at the
venue; the coordinator keeps a shadow of it from the venue's reports and from
reconciliations, and asks for a restriction when the two disagree. The Alpaca
driver is such a venue: it submits one order and feeds the coordinator from two
sources, an event stream and snapshots.

Paper trading is separate. The tournament is one process with one thread: it
polls a market feed and hands each closed candle to every slot's session, a
runner that journals every decision it makes. A session can be recovered from
its journal; a tournament cannot, a restart is a new one.

### 1.2 What is hard, and what must hold

| Component | Hard behaviour | What makes it correct |
|---|---|---|
| Gate B | seven or more durable writes per activation, each of which may fail before, after, or instead of taking effect; a crash between any two; recovery that must infer the outcome from the files | an outcome is decided once; an aborted activation leaves no trace; an acknowledged one is never lost; a scan leaves nothing in flight; quarantine freezes admission |
| Kill switch | memory moves before the file; a trip and a reset are two lines each; lines are not flushed to the medium; a reset names an event and arrives later, and its approvals are remembered as used in memory only | a reported trip holds; a crash never opens admission; a blocked switch can be reset, but by no reset composed before a later trip and by no approvals twice in a process |
| Coordinator | reports arrive late, twice, out of order or never; a cancel races a fill; reconciliation races both | a finished shadow agrees with the venue and never moves; a fill is counted at most once and never silently dropped |
| Runtime | an append that fails after orders were admitted; nested handlers that retry it; a crash between append and release; memory-only idempotency | the ledger tells the truth about admissions; one admission per cycle and process; the cycle lock is released |
| Alpaca driver | one fill arrives as a stream event and inside a snapshot; the stream loses and replays; the clock runs out while the order trades; a snapshot is old when it is used | the answer is the venue's; no source counts a fill twice; there is an answer, or the stream is still open |
| Paper session | the process may die, or the append may fail, between any two of the seven lines of one decision; recovery rebuilds memory from the lines | a bar is decided once; an active kill switch makes no order but the closing one; recovery restores what was in memory; nothing is decided behind a broken line |
| Tournament | connections drop at any point, the market's clock goes on during a poll and a recovery, candidates join while bars come, any runner may fail or halt on its own | slots see the same consecutive bars; a halted slot stays halted; each session is sealed with what ended it; recovery ends |
| Restriction, monitoring, bridge | two writers of one file, asymmetry between who opens and who honours a restriction | planned, section 7 |

## 2. Modules

| Module | Models | Kind |
|---|---|---|
| `GateB` | the storage root of Gate B and every process that writes to it, one write per step | component |
| `ActivationLedger` | what a ledger of activations promises: outcomes, the served activation, acknowledgements | abstract specification |
| `GateB_proofs` | theorems about `GateB`, and that it implements `ActivationLedger` | proofs |
| `KillSwitch`, `KillSwitch_proofs` | the controller and its file, one line per step | component, proofs |
| `Coordinator`, `Coordinator_proofs` | one order: the shadow, the venue, and the channel between them | component with its environment, proofs |
| `OrderContract` | what a coordinator promises of an order: counts, one claim, and when the claim is true | abstract specification |
| `AlpacaDriver`, `AlpacaDriver_proofs` | `submit_and_observe`, composed with `Coordinator` and its venue | composition, proofs |
| `Runtime`, `Runtime_proofs` | the cycle, its handlers, the cycle lock, the ledger, crash and restart | component, proofs |
| `PaperSession`, `PaperSession_proofs` | one paper session over its journal, line by line, with recovery and sealing | component, proofs |
| `Tournament`, `Tournament_proofs` | the tournament's main loop, slots, feed and recovery episodes | component with its environment, proofs |
| `Lockstep` | what a tournament promises its slots, as if the feed never failed | abstract specification |
| `Sums` | facts about sums of a function over a finite set, for the proofs about quantities | proofs |
| `MC*` | instances for TLC | |

Operators whose names end in `_suffix` and whose comment begins with "Mutant"
are plausible bugs of the definition they precede. They are not part of any
specification; each property is known to fail when one of them takes that
definition's place.

### 2.1 GateB

State is what is on disk, per transaction `t`: `txState[t]` (the atomic state
file, `storage.py` `set_transaction_state`, `cas_transaction_state`),
`journal[t]`, `staging[t]` (nothing, data, data with commit marker), `snap[t]`
(the promoted directory; `bad` once its bytes rot), `abortRec[t]`; and for the
root `pointer`, `trans` (the transition record), `head` and `mode`. The process
adds `pc`, `cur`, `drv` (the service or the verify-only runner) and the
recovery queue `rq`. `acked` and `parent` are history: what the service reported
and the head each GO record was signed against.

Actions follow `service.py:execute_activation` and
`storage.py:execute_durable_commit` write by write: `BeginActivation`,
`JournalPrepared`, `SetCommitting`, `JournalCommitting`, `StageData`,
`WriteMarker`, `Promote`, `WriteTransition`, `SwitchPointer`, `CasCommitted`,
`SetHead`, `JournalCommitted`. A write may take effect, be lost, or take effect
and still raise (`Outcomes`, `Put`); an exception enters the handler, which
decides from the files alone (`HandlerDecides`) whether to escalate to
quarantine or to abort. `Recover*` is `recovery.py:run_recovery`, whose branch for a
transaction is `Verdict`. `ReadDamaged` and `ReaderLock` are
`readers.py`. Crash loses the process; `Restart` starts a process that scans
first when `StartupScan` holds.

A state file that cannot be read makes `get_durable_tx_state` answer QUARANTINED
(`storage.py:478`). `RecoverMisread` is the scan meeting one, and is counted as a
fault: read first, it sends the scan to the branch that only locks, and the file
stays as it was, COMMITTING included; read in the proof of an abort, it refutes
the proof. Reads of other files are taken to succeed, except where a wrong answer
of theirs is modelled as such (`CasMismatch`, the damaged snapshot). The runner
looks at no safety mode (`runner.py:424`): what it may do in a locked system is
part of `LockedStep`, not an exception from the model.

Digests, signatures and JSON are abstracted to the facts that tell two files
apart. Permissions of directories and the drafts of authorizations are left out.

### 2.2 KillSwitch

`state` and `latest` are `_state` and `_latest_event`; `file` is the sequence of
lines, each with what became of its bytes; `todo` holds the lines the running
call has built and not appended. `Trip` and `SubmitReset` change memory first,
as the code does, and `AppendLine` or `AppendRaises` follow. `Crash` is the death
of the process, `PowerFailure` that of the machine, which keeps only a prefix no
shorter than what the operating system had written (`Writeback`); `Restart` is
`_recover_from_persistence`. `Propose` composes a reset event: `proposal` is the
event it names, `quorum` the set of approvals it carries. The approvals are signed
over their own fields and not over the event (`execution/schema.py:240`), so any
quorum, used before or not, may be put under any event. What `submit_reset` compares
(`Answers`) is the name and the set `consumed` of approvals, which is in memory,
filled after both appends, and empty again after a restart. `opened` is history: the
approvals that have opened the switch in this process.

### 2.3 Coordinator

One order of `Qty` units. The venue changes `venue` and `executed` and appends a
report; `Deliver(i)` hands report `i` to `to_coordinator_event` and `apply`, at
any time and any number of times, so that delay, reordering, loss and
duplication are all behaviours. `Accepts` is `transition_order` over the whole
transition table of `state_machine.py`. `Reconcile(token)` hands in evidence,
true or not; `misled` remembers that evidence contradicted the venue.
`RequestCancel` and `ConnectionLost` are the adapter's own events.

`OrderContract` knows the order's outcome at the venue, what was executed, what the
coordinator claims and what it has counted, and neither reports nor cancel requests.
It counts what was executed and not counted yet, claims an outcome once and counts
nothing afterwards, and claims another outcome than the venue's only in a step that
gives it false evidence. `Contract` maps the coordinator to it: `venue` and `shadow`
become an outcome and a claim once they are terminal (`Fate`, `Claim`), `filled` is
what is counted. Requests, refusals, duplicates and disputes are stutters.

### 2.4 Runtime

`pc` walks the stages of `execute_rebalance_cycle`; `Leave(o, n)` is a way out
with outcome `o` inside `n` nested handlers. `Record`, `RecordRefused` and
`RecordFails` are the three ways `append_event` ends; `NextHandler` is what the
next enclosing `except` makes of it. `active`, `done` and `sequence` are the
scheduler's, `expected` and `recorded` the ledger's memory, `file` its lines.
`SetHealth` and `Switch` may happen between any two stages, because the status
and the kill switch belong to others. `Restart` builds the ledger from its file
and starts the scheduler at the number of events found. No source file composes
the restart of a supervisor; the soak runner (`scripts/phase13_soak_runner.py:280`)
continues its own numbering in the same way, and a scheduler started at 0 would
have every event refused.

The clock rules of the scheduler (inversion, rollback, monotonic as-of) refuse
a pulse and change nothing; they are left out. So is an exception from the risk
snapshot after the hook has admitted: the risk engine has by then accepted the
same equity and margin, and only an equity below 10^-7 would tell them apart.

### 2.5 AlpacaDriver

The module extends `Coordinator`: the venue's actions are the ones there, and a
step of the driver is a line of `submit_and_observe` with the calls of `apply`
and `reconcile` it makes. `pc` is the place in the call, `pos` the last event
the open stream has given, `snap` the last `broker_order`, `polls` the rounds
used. `StreamEvent` is `Apply` of the next report, so that a stream event has
the venue's identity; `LocalEvent` is an event the adapter makes from a snapshot
under its own next number, never seen before. `counted` is history: how much
of `filled_qty` came from each source.

`OpenStream(n)` starts anywhere in the reports, because the driver passes no
`since_id`: what comes again was seen before, what is skipped is lost. The wall
clock is the bound `MaxPolls` on rounds: it is looked at between two rounds, and
never while a stream is read. `StreamIdle` is a line of the stream that is none of
this order's events, a keep-alive or an event of another order: it changes nothing
and may come for ever. The economics of the manifest are left out. The driver
never cancels; `Coordinator`'s cancel actions are not taken here.

### 2.6 PaperSession

`file` is the journal: each line has a sequence number, a kind, an id, a value
and whether its bytes are `whole` or `torn`. `pc` names the line that is about to
be appended, so a decision on a bar is seven steps (`JournalBar` to
`JournalPortfolio`, or to `JournalKill`), and `Die` and `AppendFails` are possible
before each. `AppendFails` leaves nothing, a part, or the whole line; what is
written behind a torn line becomes part of it (`Written`), as with the code's
append to a file without a final newline. `Start` and `Recover` are the two ways
to begin over an existing journal. `Stop`, `JournalStop` and `Seal` are `stop()`
with the reconciliation and the manifest. Losses are counted in losing trades,
positions in units. `feed` is the supervisor's view of the feed.

### 2.7 Tournament

`pc` is the place of the main thread in `run_tournament`: `connect`, `start`, the loop's
`loop` and `poll`, the recovery episode's `attempt`, `wait`, `giveup`, `resume` and
`deliver`, then `halt` and `finally`. Each slot has a `status` and a `session`, the
runner attached to it, with its phase, kill switch, last bar and the reason it was
sealed with. `ending` is history, written where the loop is left and by no `halt()`: the
feed, a failed recovery, an error a handler caught, a signal, or an exception that
escaped (`Exits`); `cause` is what `halt()` is told. Bars are numbered by their close;
`now` is the newest closed candle and `admitted` the feed's cursor. `NextBar` is
`poll_next_bar`: the newest candle first, then the oldest unseen of the `Window` the
provider returns. The freshness gate with its defaults, M1 candles and 65 s
(`--timeframe` and `--max-data-age-ms` may widen it), is stated in closes (`Freshness`):
a bar behind which two candles closed is stale, behind one it may be. `Tick` and
`Signal` happen between any two steps.

What a runner does with a bar is reduced to four outcomes (`Outcomes`); the rest is
`PaperSession`. `Halt` seals every started session of a slot, any of which may
fail. `replaced` counts sessions that were started and whose slot was given to
another candidate of the same batch: they are never sealed, but two candidates
for one empty slot need three slots, and the run has two.

`Lockstep` knows of each slot what became of its session, the last bar it took and the
reason it was sealed with; of the tournament the bar all slots are at and whether it is
before its start, running, stopping or over. A round gives the next bar to every slot
that trades or joins, and may be the last (the export of the status after it raises); at
the end all sessions are closed for one cause, or for their kill switch. `Ideal` maps
the tournament to it: a slot that waits for the feed trades (`Fate`), and every place of
the loop and of an episode is running (`Phase`). Polls, stale candles, episodes,
staging, ticks and signals are stutters, or the step that stops it. Which bar comes
next, that no slot is left behind by a recovery and that nothing is sealed twice or for
another cause is what the refinement has to show.

## 3. Runs

| Run | Instance | Question |
|---|---|---|
| `gateb_faults` | 2 activations, service or runner, recovery at any idle moment, 2 crashes, 2 faults | Do the files ever contradict each other, or the ledger contract? |
| `gateb_startup` | 3 activations, 2 crashes, scan first after a restart | Is everything in flight settled, and admission frozen by a quarantine? |
| `gateb_fork` | 2 activations, 1 crash | Exhibits a fork of the chain |
| `ks_failures` | 8 events, any append failing, process crashes, power failures | Does a trip hold, what can open a blocked switch? |
| `oc_life` | 2 units, 3 reports, any delivery, any evidence | Is a finished order right and final, is every fill accounted for? |
| `oc_order` | 2 units, 3 reports | Exhibits a fill lost to its early arrival |
| `alpaca_observe` | 3 units, 4 reports, 3 rounds, stream opened anywhere, any request failing | Is the driver's answer true, and does it come? |
| `paper_lives` | 3 bars, 3 decisions, 2 processes, 1 failing append or foreign line, orders of 1 or 2 units | What do crashes and failed appends leave of a session? |
| `paper_fills` | 2 bars, 2 decisions, 2 processes | Exhibits a fill that recovery loses and reconciliation passes |
| `runtime_cycles` | 2 cycle ids, 2 crashes, 2 faults | Does the ledger tell the truth, is the lock released? |
| `runtime_duplicate` | 1 cycle id, 1 crash | Exhibits the admission of a cycle that is already on file (recorded as DATA_STALE) |
| `tour_runs` | 2 slots, 3 strategies, 5 candles, window 3, 2 lost connections, 2 attempts, 2 failures | Do the slots stay together, is each sealed with what ended it, does recovery end? |

### 3.1 What each passing run shows

`gateb_faults`. `TypeOK`; `AbortedLeavesNoTrace` (no snapshot, pointer, head,
journal entry or acknowledgement of an aborted activation, although the abort
is four writes); `AcknowledgedSurvives`; `ChainGrounded` (head and parents are
genesis or were committed); `ScanSettles` (after a complete scan nothing is
COMMITTING unless something failed; then what is still COMMITTING, because its state
file was misread, is under lock, and so is the root wherever anything is quarantined);
`DecidedOnce`;
`ImplementsLedger`, the refinement.

`gateb_startup`. `QuarantineFreezesAdmission` holds only because the scan comes
before admission: an escalation is two writes, and a crash between them leaves a
quarantined transaction in a NORMAL root. `InFlightSettles` is liveness.
Faults are excluded from this run: a failing write during recovery raises out
of it and nothing tries again, so settlement cannot be promised with them.

`ks_failures`. `TypeOK`; `TripHolds` until a loss of power; `CrashesAreRecoverable`
while no append has raised; `OpenMeansReset` always, also after a loss of power;
`NoStaleReset` (the reset that opens was composed after the last reported trip unless
power was lost, and its approvals have not opened the switch before in this process
unless an append raised). That it is not stronger is the code's doing: approvals
that were used before a restart, or under an event they were not given for, open the
switch (section 5).

`oc_life`. `TypeOK`; `TerminalIsTrue` unless evidence lied; `FillsAccounted` (each
delivered fill is in the ledger or has its LATE_EVENT); `ImplementsContract`, the
refinement, of which `NeverOverfilled` is a part.

`alpaca_observe`. `DriverTypeOK`; `AnswerIsTrue`; `CountedOncePerSource`;
`Answers` (the call ends, or one opening of the stream is read for ever).
`NeverOverfilled`, a theorem of the coordinator alone, does not hold in
this composition: a fill counted from a snapshot is counted again when the stream
replays it, because the two sources give it different identities.
`CountedOncePerSource` is what remains true, and `AnswerIsTrue` shows that the
parity check does not let the excess pass for a filled or cancelled order.

`paper_lives`. `TypeOK`; `BarDecidedOnce`; `KillOnlyCloses` (with an active kill
switch the order that is made closes the position, and behind KILL_SWITCH_TRIGGERED
a session orders nothing else), whichever of the two orders of events that section 5
tells apart is journaled; `RestartLosesNothing` (at every point between two calls,
recovery would rebuild the position, the kill switch and the bars);
`TradingStopsAtBreak`. With three bars a process that recovers behind a kill switch has no
bar left to decide on; the theorem `KillSwitchEndsOrders` has no such bound.

`runtime_cycles`. `TypeOK`; `CrashesKeepLedger`; `AdmittedOncePerProcess`;
`LedgerTellsAdmission`; `VetoHolds`; `CycleReleased`. The last two are narrower than
what one might ask: a switch that trips between its one check and the hook does not
stop the hook, and a cycle whose appends both raise keeps its lock. The model has both
behaviours, and no document promises otherwise.

`tour_runs`. `TypeOK` with the budget of attempts; `Synchronized` (every slot that
trades or waits for the feed has had the same last bar); `RiskHaltIsFinal`;
`StoppedForItsCause` (a sealed session tells what ended the run, by `ending` and not by
what `halt()` was told, or its own kill switch; OPERATOR_STOP without a signal is sealed
in one case, the exception that escaped); `SealedAtEnd`; `ImplementsLockstep`, the
refinement; `EpisodeEnds`.

### 3.2 Bounds

Two activations already let one be the parent, the rollback target or the rival of the
other; the third is what pushes the first out of the transition record. Two crashes
allow one during the recovery from the first, two faults one in the operation and one in
its handler. Eight kill-switch events are a trip, a reset, a second trip and a second
reset, so a stale proposal has something to be stale against; two quorums let approvals
be used again or be new. Two units and three reports give a partial fill, a complete
fill and an acknowledgement or cancel, in all orders and with repetition. For the driver
three units and four reports give an acknowledgement and three partial fills, so a
snapshot can fall between two of them; three rounds give a stream that breaks, one that
replays, and a last one. In the runtime, two faults use up both appends of a way out, a
third handler is used by the refusal path, and two ids let a second cycle meet what the
first left in the file.

In a paper session three bars open, close and reopen a position of at most one unit,
and an order of two units is refused or crosses zero; one losing trade reaches the
limit of the day. Two processes are a session and its recovery; one disturbance is
a torn or unrecorded line, after which nothing more may be decided anyway. In the
tournament two slots with one of them empty let a candidate join during
delivery; a window of three is the smallest for which every gap is stale (the code
requests five candles and drops the open one), and five candles let a slow episode
fall out of it; two drops allow a second episode after the first, two attempts a failed one
before a good one, two failures one in a runner and one in the halt.

### 3.3 Fairness

`GateB!FairSpec` is weakly fair to `ProcessStep`: a process that has begun an
operation runs on, and a process that went down is started again and scans. It
assumes no fairness of new activations, faults or crashes, and crashes are
bounded, as an unbounded series of them would settle nothing.
`Runtime!FairSpec` is weakly fair to `CycleStep`: a cycle runs in one thread
without waiting for anyone. Nothing obliges a pulse, a restart or an operator.
`AlpacaDriver!FairDriver` is weakly fair to `Driver` except in the open stream: the call
is one thread, and each request has a time limit, but that of the stream is for one
read (`transport.py:416`) and every line that comes starts it again. So nothing
obliges the stream to end, and the venue owes nothing.
`Tournament!Spec` is weakly fair to `Program`, the main thread; nothing forces
a candle, a signal or a lost connection. `EpisodeEnds` therefore rests on the
counted attempts and on the time limit of each wait.
The other specifications have no fairness and state safety only. Runs of
components that end (a call that returned, a program that left, a switch or a
journal whose bounds are used up) do not check deadlock.

## 4. Proofs

All theorems hold for every value of the constants, under the assumptions the
modules name (`TxAssumption`, `BoundAssumption`, `CoordinatorAssumption` and the
like: bounds are naturals, model values are distinct from data). A theorem with a
further hypothesis is marked below.

**`GateB_proofs`.** The inductive invariant ties each program counter to what has
been written by then: in the phases before the commit the transaction is
COMMITTING and absent from pointer and head; from `Promote` on it has a snapshot;
in a handler the evidence the handler reads is what decides. `TypeCorrect`,
`AbortIsClean`, `AcknowledgedIsDurable`, `HeadIsGrounded`,
`PointerIsGrounded` and `RecoverySettles` are its consequences; `OutcomeIsFinal`
and `LockHolds` are step properties from it. `RecoverySettles` adds `Settled`: without
a fault what a scan has passed is not in flight. `LockHolds` says that in a locked system
the service commits nothing, and only two things become COMMITTED: what the
recovery scan completes because its pointer had moved under an authentic record, and a
record of the runner that chains off genesis. `LedgerImplemented` is the
refinement: initial states map to initial states, and each step to a step of
`ActivationLedger` or to a stutter.

`QuarantineFreezes` has the hypothesis `StartupScan` (recovery runs before anything else
after a crash) and says what holds as long as no write has failed and no snapshot has
rotted: a handler is then never entered, so only a scan quarantines, and the scan locks
the root before it ends or is started again (`Frozen`). `QuarantineFreezesFaultless` is
its instance for `MaxFaults = 0`, the property of `gateb_startup` for any number of
activations and crashes. Without the scan the two writes of an escalation can be torn
apart, so the hypothesis cannot be dropped.

**`KillSwitch_proofs`.** A trip in progress is in one of a few shapes (both lines
to append, one, none), and the file ends in what the state says unless an append
raised. The invariant names these shapes; `TripsHold` and `OpenNeedsReset`
follow. `WrittenLines` and `WrittenEnds` are the lemmas on appending to a file
whose last line may be unfinished. `CrashesRecover` and `ResetsAreFresh` need more,
`ChainInv`: each line names the one before it, also across the lines a call has built
and not appended, identities only grow, and a proposal that a reported trip has
overtaken is older than the last line of the file, so that the next process finds it
stale as well; and, while no append has raised, the approvals that opened the switch in
this process are consumed, but for those of an opening not yet written (`Spent`).

**`Coordinator_proofs`.** `OutcomesAreTrue` needs that every terminal report in
the log is the venue's final state, and that the venue never leaves one; then
whichever way the shadow became terminal, it agrees. `FinishedIsFinal` is a step
property. Quantities need a second invariant, `LedgerInv`: the quantities of all
reports sum to what the venue has executed, and those of the reports delivered and
not too late to what reports have put into the ledger. `LedgerWithinExecuted` and
`NoFillDisappears` follow. `ContractKept` is the refinement of `OrderContract`, one
action after the other: from `LedgerInv` comes that a delivered fill is still
uncounted, from `TerminalIsTrue` that a claim is the venue's outcome.

**`Sums`.** Quantities are summed with `SumFunctionOnSet`, a fold whose order of
elements CHOOSE fixes. That the order does not matter, and what one element more or less
does, are inductions over finite sets, and the library's induction theorem takes an
operator. The induction is made by hand: if some set refuted the claim, a refuting set
of least cardinality would exist (`LeastSet`), and removing an element of it gives a
smaller one. They are lemmas of arithmetic, no results about the program: `SumAdd`,
`SumRemove`, `SumParts`, `SumAgrees` and `SumMonotone` are what the other modules cite.

**`Runtime_proofs`.** What the ledger tells of a cycle is decided in `Admit` and written
in `Record`, several handlers later, so no single-state property is inductive. The
invariant has five parts beside the types. `Shape`: a cycle in the pipeline holds the
lock and has not completed. `Once`: an admitted cycle is completed or past the hook,
which gives `AdmissionIsOnce`. `Chain`: while no append has failed, the file is a chain
whose length and cycle ids the process knows, which gives `LedgerSurvivesCrashes`.
`Told`: while no append has failed, the outcome in hand, and later the line, is SUCCESS
exactly for an admitted cycle, which gives `LedgerIsTrue`. `Veto`: a vetoed cycle does
not get past the switch, which gives the step property `VetoIsFinal`.

**`AlpacaDriver_proofs`** extends `Coordinator_proofs` and keeps its invariant: most
steps of the driver are steps of the coordinator, and an event made from a
snapshot ends the order only as the venue has (`LocalEventStep`). The addition is
that a snapshot does not go out of date in what it is used for: what it has
executed is a lower bound, and a final state it names is final for good. A rejected
order, whose quantities the parity check does not compare, needs that nothing of it was
executed. `AnswersAreTrue` follows. For `SourcesCountOnce` the ledger is split by
source (`CountInv`): the stream has counted the reports that were delivered and not
too late, a part of all reports and so, by `SumMonotone`, at most what was executed;
a snapshot lifts the ledger to what it shows, so the snapshots together never add
more than was executed.

**`PaperSession_proofs`.** Every property relates two lines, and the second is
written by a process that knows the first only through its memory. The invariant
says what memory holds while no append has failed: `Chained` (the file verifies
and its length is known), `BarsSeen`, `Halted`, `Bounded`, and `Mirrored`, which says at
every point of a call how far memory and `RestoredPosition`, `RestoredKill` and
`RestoredSeen` are apart. `OneDecisionPerBar`, `KillSwitchEndsOrders`,
`RecoveryRestores` and `BreakEndsTrading` follow. `KillSwitchEndsOrders` needs that the
order in hand under an active switch is the closing one (`Closes`), and that from
KILL_SWITCH_TRIGGERED on a session's memory has the switch active (`Halted`).

**`Tournament_proofs`.** A slot is known by its status and by its session, which are
written by different steps. The invariant says how they agree at each place of the
thread: `Steady` (a slot waits only within an episode), `Staged` (a staged candidate's
slot is empty), `KillIsKnown`, `Fresh`, `Ended` (one halt counts), `Cursor` (where the
feed stands). `NextBarFacts` is the lemma on the feed: with a window of at least three
candles, the oldest unseen candle is either the next one or stale (at the default time
limit). `SealsCarryTheCause` adds `Known`: what `halt()` is told agrees with what ended
the run, and the finally is reached unhalted only by a signal or an exception that
escaped. From these follow `SlotsAreSynchronized`, `NothingIsLeftOpen`, and the step
properties `BarsAreConsecutive` and `RiskHaltsAreFinal`. `LockstepKept` is the
refinement of `Lockstep`. It needs three facts more (`MInv`): a session under way has
one of four statuses (`Told`), so that the mapping of a slot is decided by its session
and its status; a halt has a cause and a resumed episode a bar (`Aimed`); and only a
sealed session has a reason (`Unnamed`). What touches no session is a stutter or the
stop (`StayStep`); `BeginStep`, `JoinStep`, `RoundStep` and `CloseStep` are the others.

**What liveness rests on.** `InFlightSettles`, `CycleReleased`, `Answers` and
`EpisodeEnds` are liveness under fairness, whose proof needs ENABLED. The part of the
argument that needs none is proved: what is under way has no cycle among its steps.
`OperationsRunOut` (Gate B): each step of an activation or of a scan uses up a crash or
a fault, or scans one transaction more, or takes the process further through the code.
`CyclesRunOut` (runtime): a cycle gets further through its stages or has one append less
to try, nobody else's step sets it back but the death of the process, and the lock is
left held only after a failed append or for a cycle that was on file already.
`DriverRunsOut`: each step of the driver begins a round more or gets further, or reads
on in an open stream (`ReadsOn`), which goes round as long as lines come: that is the
one way `Answers` leaves open. `EpisodesRunOut`: each step of an episode leaves it,
counts an attempt or a poll, or gets further, and neither the clock nor a signal sets it
back. The counts are bounded by the type invariants, which are theorems, so no such run
of steps is infinite, reading on apart. That the thread always has a next step is what
TLC adds.

**What is left of a claim that fails.** Four statements of the documents are
violated by the code (section 5). For each there is a theorem that says under which
condition the statement does hold, and so what it takes to break it.

| Violated | Theorem | Holds |
|---|---|---|
| `NoFork` | `ForksNeedAFailure` | until a write has failed or a process has died, with service or runner and any recovery (`Linear`: whoever activates works on the head, and nothing else is in flight) |
| `OrderingTolerant` | `LossIsReported` | once all reports are delivered, unless one of them has a LATE_EVENT incident; a fill is never lost without a trace |
| `DuplicatePulseSkipped` | `DuplicatesNeedARestart` | for every step of a process that was not restarted, whatever appends fail (`Remembered`: the cycles on file are completed in memory) |
| `PassMeansFillsCounted` | `HiddenFillsLeaveAGap` | for every journal in which each fill but a last line is followed by its portfolio line (`Gapless`); an audit of the file finds the ones where it fails |

`HiddenFillsLeaveAGap` is the longest of them: its invariant `Books` says that the
last portfolio line, the position in memory and the manifest have what the fills up to
there add up to, except between a fill and the line that follows it.

Proved, and repeated by no run: `LockFreezesActivation`, `PointerResolves`
(`GateB_proofs`), `TerminalAbsorbs`, `NeverOverfilled` (`Coordinator_proofs`),
`ConsecutiveBars` (`Tournament_proofs`), the four theorems of the table and the four
that liveness rests on.

Only model-checked: `InFlightSettles`, `CycleReleased`, `Answers` and `EpisodeEnds`.
Every other property of a passing run is a theorem.

## 5. Disagreements between code and documents

Four have a run that exhibits them.

* `gateb_fork`: COMMITTED is written before the head
  (`storage.py:997-1007`); a crash in between is never repaired
  (`recovery.py:222-275` does not look at the head) and a second activation is
  accepted on the same parent.
* `oc_order`: an event refused for coming early is remembered as seen, and
  every redelivery of it is a duplicate.
* `paper_fills`: a process that dies between FILL_SIMULATED and
  PORTFOLIO_UPDATED loses the fill: `recover()` takes the position from the
  latter, and `stop()` reconciles without an expected position.
* `runtime_duplicate`: completed cycles are remembered in memory only, and the
  ledger refuses the duplicate after its orders were admitted.

Met while modelling, without a run of their own. Gate B, kill switch,
coordinator, runtime:

* `recovery.py:224` accepts a COMMITTED transaction only as the pointer or the previous
  one, so the scan after a third activation quarantines the first;
  `tests/unit/gate_b/test_gate_b_fault_injection.py:693` is the case of two.
* `kill_switch.py:382` adopts TRIPPED as it stands, where
  `docs/phase9/contract_spec.md:210` has the switch locked after a boot; `:345` flushes
  nothing to the medium (spec:209).
* `acash/runtime/supervisor.py:349`: a cycle that could not be recorded keeps its lock
  under a daemon that stays RUNNING (`acash/runtime/daemon.py:12`).
* `recovery.py:335` quarantines every COMMITTING transaction whose pointer has not
  moved; `docs/phase13/slice2_gate_b_plan.md:766` says one without a marker is aborted.
* `recovery.py:391` leaves a PREPARED transaction in PREPARED; plan:763 says abort CAS
  and abort record.
* `recovery.py:143` compares an abort record with the current head, so a clean abort is
  quarantined after the next activation; plan:777 says ABORTED.
* `storage.py:478` reads an unreadable state file as QUARANTINED, and the scan then
  locks and leaves the file COMMITTING (`recovery.py:198`); plan:974 has ambiguity end
  in QUARANTINED.
* `runner.py:424` (Gate B) reads no safety mode: the verify-only runner commits in a
  locked system as long as the head is genesis.
* `execution/schema.py:240` signs an approval over its authorization, approver, key,
  role and time; `docs/phase9/contract_spec.md:216` calls the event a reset names "Bound
  to the specific trip event being reset." Approvals given for one trip, put under a
  reset event for a later one, open the switch after a restart or after a reset whose
  append raised, because `kill_switch.py:337` keeps the used ones in memory and after
  both appends.
* `service.py:199` escalates in two writes; plan:403 says the system enters the lock
  immediately.
* `kill_switch.py:103` calls its table the permitted transitions; `trip` and
  `submit_reset` record others (TRIPPED to TRIPPED, TRIPPED to RESET_PENDING).
* `coordinator.py:403` marks a disputed UNKNOWN without an incident;
  `docs/phase7/execution_state_machine.md:68` says one shall be raised.
* `coordinator.py:210` calls a duplicate after a terminal state DUPLICATE_EVENT;
  `docs/phase7/broker_adapter_contract.md:182` says LATE_EVENT.
* `acash/runtime/supervisor.py:344` is introduced by "record interrupted crash and
  complete scheduler" and completes nothing when the append raises again.
* `docs/phase10/contract_spec.md:94` says a clock rollback enters RUNTIME_HALTED;
  `scheduler.py` only raises.

Alpaca driver (`acash/execution/alpaca/`):

* `real_driver.py:358` reports an expired order in parity without comparing its
  quantities; `acash/execution/schema.py:861` says all six checks passed.
* A stream that replays a fill which a snapshot has already counted adds it a second
  time; `transport.py:283` says "the engine deduplicates".
* A cancellation in the stream, or an event of an order in flight, raises out of
  `submit_and_observe`; `adapter.py:135` says "The engine pump catches this and routes to
  reconciliation/incident".
* `real_driver.py:192` reads an open stream without a look at `timeout_seconds`, and the
  10 s of `transport.py:416` are for one read; `r1_real_driver_contract.md:30` has a call
  without a terminal event "within the allocated timeout budget" end in UNKNOWN.
* A timeout of the submission raises as well, where the table of
  `r1_real_driver_contract.md` (section 4) says UNKNOWN and reconcile.
* A snapshot that shows EXPIRED while the shadow is SUBMITTED is refused, and
  the call ends with SUBMITTED.

Paper (`acash/paper/`):

* `runner.py:776` rebuilds neither the loss of the day nor the flag that an operator
  must resolve a preserved position, and does not look at SESSION_STOPPED.
* The forced flattening is journaled before KILL_SWITCH_TRIGGERED (`runner.py:1276`);
  the comment above it has "RISK_REJECTED -> KILL_SWITCH_TRIGGERED -> [flatten chain]".
* A process that dies between the verdict and KILL_SWITCH_TRIGGERED recovers without the
  kill switch.
* An append that raised but took effect, followed by `stop()`, repeats a sequence number
  under a manifest whose integrity says PASS; a torn line makes the journal unopenable
  for good.
* `cli.py:121` and `:146`: resuming recovers and then starts, and `start()` refuses a
  recovered session.
* `tournament_cli.py:907` halts with OPERATOR_STOP also when an exception escaped from
  an episode (`:854`) or from staging (`:780`), which nobody asked for; `health.py:59`
  wants the actual reason, "never a fabricated neutral value".
* `tournament_cli.py:697` starts the slots outside of the try: a runner that raises
  there, or the export of the status after it, leaves the ones that were started open.
* With three or more slots, two candidates of one batch may take the same slot, and the
  first is never sealed.

## 6. Not modelled

Every component is listed with its status in `PROJECT.json`. Numerical code (portfolio,
research, validation, risk scale-down, backtest), provider and broker I/O, reports,
argument parsing and the dashboard have no interleaving or failure for a model to find;
where such code computes something a reference definition can be stated for, a bounded
check is planned. Cryptography is taken as perfect. Of the components modelled in part:
prices, fees and the manifest of the Alpaca driver; the periodic snapshots, backups and
restores of a paper session, and loss of power under its journal (nothing there is
flushed, so a machine that fails may lose any suffix); the read-only API of the
tournament, the admission of strategies from files, and the death of its process, after
which nothing resumes. Two processes on one Gate B root are outside the model: the lock
in the code is a thread lock and nothing in it excludes a second process.

## 7. Plan

Built: Gate B, its abstract ledger, the kill switch, the coordinator, the
runtime, the Alpaca driver over the coordinator, the paper session and the
tournament. Next, in this order:

1. `Restriction`: open and clear, the gate an intent passes, and its composition
   with `Coordinator`, whose requests it receives. Property: an order in dispute
   blocks the next one.
2. `Monitoring` with the shared operational ledger and rehydration, composed with
   `Runtime`. Property: two writers keep one chain.
3. `PaperBridge` composed with `Runtime`: the hook, and positions after a restart.
4. `PaperSession` for a slot of `Tournament`: its four outcomes of a bar as what the
   session does with it, and with that `Lockstep` down to the journal's lines.
5. Shutdown, backup and restore of a session: copies with a crash between them.
6. `Mt5Reconcile`, `Lots`, `ScaleDown`: pure algorithms against reference
   definitions over bounded inputs.

Theorems to add: type correctness and the main invariant of each new module. Of the
modules that exist, `PaperSession` has no abstract specification yet.
