----------------------------- MODULE PaperSession -----------------------------
(***************************************************************************)
(* One paper trading session over its journal: PaperEventJournal, the      *)
(* decision chain and the recovery of PaperSessionRunner, the feed         *)
(* supervision of PaperFeedSessionSupervisor and the final reconciliation  *)
(* of PaperReconciliationEngine (paper/journal.py, runner.py, session.py,  *)
(* reconcile.py).                                                          *)
(*                                                                         *)
(* A call runs in one thread and every event it journals is a step of its  *)
(* own, so that the process may die, or the append may raise, between any  *)
(* two of them.  An append that raises ends the call: no caller gives the  *)
(* runner another bar afterwards, the tournament still stops it.           *)
(*                                                                         *)
(* Money is reduced to what the gates see: a trade against the position    *)
(* realises a loss or not, and the limits on notional and funding refuse   *)
(* an order or not.  FEATURE_SNAPSHOT and POSITION_UPDATED, which nothing  *)
(* reads again, are one line with the event after them.  The third policy  *)
(* of the kill switch is PRESERVE with a flag that only reports read.      *)
(***************************************************************************)
EXTENDS Integers, Sequences, FiniteSets, Functions

CONSTANTS
    Bars,           \* the source ids of the feed's bars
    None,           \* no bar, no order, no manifest
    Quantities,     \* the sizes of the strategy's orders
    MaxPosition,    \* max_position_units
    MaxLoss,        \* max_daily_loss, in losing trades
    MaxDecisions,   \* bound on decided bars
    MaxLives,       \* bound on processes
    MaxDisturbances \* bound on failing appends and on events that are no decision

ASSUME PaperAssumption ==
    /\ None \notin Bars
    /\ Quantities \subseteq Nat \ {0}
    /\ MaxPosition \in Nat /\ MaxLoss \in Nat
    /\ MaxDecisions \in Nat /\ MaxLives \in Nat /\ MaxDisturbances \in Nat

\* Where a call stands: the event it is about to append, ...
Appending == {"start", "recover", "feed", "refuse", "bar", "signal", "risk",
              "intent", "fill", "portfolio", "kill", "reconcile", "stop"}
\* ... or no event: between calls, about to write the manifest, or at an end.
Resting   == {"off", "made", "idle", "seal", "sealed", "failed", "unsealed"}

Policies == {"PRESERVE", "FORCE_FLATTEN"}
Idle     == [bar |-> None, dir |-> 0, refused |-> FALSE, order |-> None, passed |-> FALSE]

VARIABLES
    pc,
    policy,     \* kill_switch_position_policy of the configuration
    ctx,        \* locals of the call: bar, signed quantity, verdicts, order id
    position,   \* of the runner's portfolio
    loss,       \* _daily_realized_loss
    kill,       \* _kill_switch_active
    seen,       \* _seen_feed_source_ids
    sequence,   \* _sequence of the journal object
    feed,       \* of the supervisor: "new", "connected", "halted"
    file,       \* the lines of the journal file
    manifest,   \* the manifest file
    lives, disturbances

memory == <<position, loss, kill, seen>>
counts == <<lives, disturbances>>
vars   == <<pc, policy, ctx, memory, sequence, feed, file, manifest, counts>>

-----------------------------------------------------------------------------
(* The journal file *)

Lines(f)     == 1..Len(f)
Of(f, kind)  == {i \in Lines(f) : f[i].kind = kind}
Intact(f, i) == f[i].text = "whole" /\ f[i].seq = i

\* _replay_existing() and verify_integrity(): sequence and chain of every line.
Verified(f) == \A i \in Lines(f) : Intact(f, i)
\* _load_events(): raises on a line it cannot parse.
Readable(f) == \A i \in Lines(f) : f[i].text = "whole"

\* Bytes written behind an unfinished line extend that line.
Written(f, line) ==
    IF f = <<>> \/ f[Len(f)].text = "whole"
    THEN Append(f, line)
    ELSE f

Entry(kind, id, val) ==
    [seq |-> sequence + 1, kind |-> kind, id |-> id, val |-> val, text |-> "whole"]

\* What recover() rebuilds from the events.
Newest(S) == CHOOSE i \in S : \A j \in S : j <= i
RestoredPosition(f) ==
    LET updates == Of(f, "PORTFOLIO_UPDATED")
    IN  IF updates = {} THEN 0 ELSE f[Newest(updates)].val
RestoredSeen(f) == {f[i].id : i \in Of(f, "MARKET_BAR_RECEIVED")}
RestoredKill(f) == Of(f, "KILL_SWITCH_TRIGGERED") # {}

\* run_full_reconciliation() as the runner calls it: the chain, and an intent
\* for every fill and a fill for every intent.  No expected position is given.
Reconciled(f) ==
    /\ Verified(f)
    /\ {f[i].id : i \in Of(f, "ORDER_INTENT_CREATED")} = {f[i].id : i \in Of(f, "FILL_SIMULATED")}

-----------------------------------------------------------------------------
(* Appending one event *)

Abs(n) == IF n < 0 THEN -n ELSE n

\* Mutant: the limit on the position is not checked.
Violated_noPosition == ctx.refused \/ loss >= MaxLoss

LossReached == loss >= MaxLoss

\* Mutant: the loss of the day trips the kill switch and refuses no order.
Violated_noLoss == ctx.refused \/ Abs(position + ctx.dir) > MaxPosition

\* The gates of _evaluate_risk().
Violated    == ctx.refused \/ Abs(position + ctx.dir) > MaxPosition \/ LossReached

\* The line of each step; a NOTE is an event that nothing reads again.
Due ==
    CASE pc = "start"     -> Entry("SESSION_STARTED", None, 0)
      [] pc = "bar"       -> Entry("MARKET_BAR_RECEIVED", ctx.bar, 0)
      [] pc = "intent"    -> Entry("ORDER_INTENT_CREATED", ctx.order, ctx.dir)
      [] pc = "fill"      -> Entry("FILL_SIMULATED", ctx.order, ctx.dir)
      [] pc = "portfolio" -> Entry("PORTFOLIO_UPDATED", ctx.order, position)
      [] pc = "kill"      -> Entry("KILL_SWITCH_TRIGGERED", None, 0)
      [] OTHER            -> Entry("NOTE", None, 0)

\* append() that returns: the line is in the file, then memory follows.
Appends ==
    /\ file' = Written(file, Due)
    /\ sequence' = sequence + 1
    /\ UNCHANGED <<policy, manifest, counts>>

\* A failing append, or an event that is no part of a decision, is counted.
Disturbs ==
    /\ disturbances < MaxDisturbances
    /\ disturbances' = disturbances + 1
    /\ UNCHANGED lives

-----------------------------------------------------------------------------
Init ==
    /\ pc = "off" /\ policy \in Policies /\ ctx = Idle
    /\ position = 0 /\ loss = 0 /\ kill = FALSE /\ seen = {}
    /\ sequence = 0 /\ feed = "new"
    /\ file = <<>> /\ manifest = None
    /\ lives = 0 /\ disturbances = 0

\* A new runner: the journal's constructor replays the file, and raises unless
\* every line of it verifies.
Construct ==
    /\ pc = "off" /\ lives < MaxLives /\ Verified(file)
    /\ pc' = "made"
    /\ sequence' = Len(file)
    /\ lives' = lives + 1
    /\ UNCHANGED <<policy, ctx, memory, feed, file, manifest, disturbances>>

\* start(): asks nothing of the journal, which may hold an earlier session.
Start ==
    /\ pc = "made"
    /\ pc' = "start"
    /\ UNCHANGED <<policy, ctx, memory, sequence, feed, file, manifest, counts>>

\* Mutants: recovery forgets the bars, or the kill switch.
Recover_noSeen ==
    /\ pc = "made" /\ file # <<>> /\ pc' = "recover"
    /\ position' = RestoredPosition(file) /\ kill' = RestoredKill(file) /\ seen' = {}
    /\ UNCHANGED <<policy, ctx, loss, sequence, feed, file, manifest, counts>>
Recover_noKill ==
    /\ pc = "made" /\ file # <<>> /\ pc' = "recover"
    /\ position' = RestoredPosition(file) /\ kill' = FALSE /\ seen' = RestoredSeen(file)
    /\ UNCHANGED <<policy, ctx, loss, sequence, feed, file, manifest, counts>>

\* recover(): memory from the events, then RECOVERY_ATTEMPTED.  The losses of
\* the day and an earlier SESSION_STOPPED are not looked for.
Recover ==
    /\ pc = "made" /\ file # <<>>
    /\ position' = RestoredPosition(file)
    /\ kill' = RestoredKill(file)
    /\ seen' = RestoredSeen(file)
    /\ pc' = "recover"
    /\ UNCHANGED <<policy, ctx, loss, sequence, feed, file, manifest, counts>>

JournalOpening ==
    /\ pc \in {"start", "recover"} /\ Appends
    /\ pc' = "idle"
    /\ UNCHANGED <<ctx, memory, feed>>

-----------------------------------------------------------------------------
(* The feed supervisor *)

\* connect() and reconnect(), a poll that finds the connection gone, and
\* disconnect(): the flag first, then the event.
Connect ==
    /\ pc = "idle" /\ feed # "connected"
    /\ IF feed = "new" THEN UNCHANGED counts ELSE Disturbs
    /\ feed' \in {"connected", "halted"} /\ pc' = "feed"
    /\ UNCHANGED <<policy, ctx, memory, sequence, file, manifest>>

Disconnect ==
    /\ pc = "idle" /\ feed = "connected" /\ Disturbs
    /\ feed' = "halted" /\ pc' = "feed"
    /\ UNCHANGED <<policy, ctx, memory, sequence, file, manifest>>

JournalFeed ==
    /\ pc = "feed" /\ Appends
    /\ pc' = "idle"
    /\ UNCHANGED <<ctx, memory, feed>>

-----------------------------------------------------------------------------
(* step_once() and process_bar() *)

\* A polled bar is given to a runner whose kill switch is not active.
Polls == pc = "idle" /\ feed = "connected" /\ ~kill

\* A duplicate or stale bar, or a response that is no bar: one event, no decision.
RefuseBar ==
    /\ Polls /\ Disturbs
    /\ pc' = "refuse"
    /\ UNCHANGED <<policy, ctx, memory, sequence, feed, file, manifest>>

\* The bar's id is taken before anything is journaled.
AdmitBar(b) ==
    /\ Polls /\ b \notin seen /\ Cardinality(Of(file, "MARKET_BAR_RECEIVED")) < MaxDecisions
    /\ seen' = seen \cup {b}
    /\ ctx' = [Idle EXCEPT !.bar = b] /\ pc' = "bar"
    /\ UNCHANGED <<policy, position, loss, kill, sequence, feed, file, manifest, counts>>

JournalRefusal ==
    /\ pc = "refuse" /\ Appends
    /\ pc' = "idle" /\ ctx' = Idle
    /\ UNCHANGED <<memory, feed>>

\* The limits on notional and funding will refuse the order.
Refusable == [ctx EXCEPT !.refused = TRUE]

\* The strategy reads the journal's closes; 0 is FLAT or too little history.
\* Which order the limits on notional and funding refuse makes no difference.
JournalBar ==
    /\ pc = "bar" /\ Appends
    /\ \/ \E d \in {0} \cup Quantities \cup {-q : q \in Quantities} :
              ctx' = [ctx EXCEPT !.dir = d]
       \/ ctx' = [Refusable EXCEPT !.dir = 1]
    /\ pc' = "signal"
    /\ UNCHANGED <<memory, feed>>

JournalSignal ==
    /\ pc = "signal" /\ Appends
    /\ IF ctx.dir = 0 THEN pc' = "idle" /\ ctx' = Idle
                      ELSE pc' = "risk" /\ UNCHANGED ctx
    /\ UNCHANGED <<memory, feed>>

\* The closing order of HALT_AND_FORCE_SIMULATED_FLATTEN.
Flattens == policy = "FORCE_FLATTEN" /\ position # 0
Opening  == [ctx EXCEPT !.order = Len(file) + 2]
Closing  == [Opening EXCEPT !.dir = -position]

\* The verdict is journaled; then the kill switch is active, and its policy runs.
JournalRisk ==
    /\ pc = "risk" /\ Appends
    /\ kill' = LossReached
    /\ \/ ~Violated                 /\ pc' = "intent" /\ ctx' = Opening
       \/ LossReached /\ Flattens   /\ pc' = "intent" /\ ctx' = Closing
       \/ LossReached /\ ~Flattens  /\ pc' = "kill"   /\ ctx' = Idle
       \/ Violated /\ ~LossReached  /\ pc' = "idle"   /\ ctx' = Idle
    /\ UNCHANGED <<position, loss, seen, feed>>

JournalIntent ==
    /\ pc = "intent" /\ Appends
    /\ pc' = "fill"
    /\ UNCHANGED <<ctx, memory, feed>>

\* The simulated fill, and the portfolio in memory: a trade against the position
\* realises a profit or a loss.
JournalFill ==
    /\ pc = "fill" /\ Appends
    /\ position' = position + ctx.dir
    /\ \/ loss' = loss
       \/ position * ctx.dir < 0 /\ loss' = loss + 1
    /\ pc' = "portfolio"
    /\ UNCHANGED <<ctx, kill, seen, feed>>

JournalPortfolio ==
    /\ pc = "portfolio" /\ Appends
    /\ pc' = (IF kill THEN "kill" ELSE "idle")
    /\ ctx' = Idle
    /\ UNCHANGED <<memory, feed>>

JournalKill ==
    /\ pc = "kill" /\ Appends
    /\ pc' = "idle"
    /\ UNCHANGED <<ctx, memory, feed>>

\* journal_system_event() of the tournament writes into every started session,
\* also into one whose last call raised.
SystemEvent ==
    /\ pc \in {"idle", "failed"} /\ Disturbs
    /\ file' = Written(file, Entry("NOTE", None, 0))
    /\ sequence' = sequence + 1
    /\ UNCHANGED <<pc, policy, ctx, memory, feed, manifest>>

-----------------------------------------------------------------------------
(* stop() *)

\* Reconciliation and integrity check; an unreadable journal ends the call.
Stop ==
    /\ pc \in {"idle", "failed"}
    /\ pc' = (IF Readable(file) THEN "reconcile" ELSE "unsealed")
    /\ ctx' = [Idle EXCEPT !.passed = Reconciled(file)]
    /\ UNCHANGED <<policy, memory, sequence, feed, file, manifest, counts>>

JournalStop ==
    /\ pc \in {"reconcile", "stop"} /\ Appends
    /\ pc' = (IF pc = "reconcile" THEN "stop" ELSE "seal")
    /\ UNCHANGED <<ctx, memory, feed>>

\* The manifest refers to the journal's last hash; a later one replaces it.
Seal ==
    /\ pc = "seal"
    /\ manifest' = [passed |-> ctx.passed, lines |-> Len(file), position |-> position]
    /\ pc' = "sealed" /\ ctx' = Idle
    /\ UNCHANGED <<policy, memory, sequence, feed, file, counts>>

\* The write of the manifest raises, possibly after truncating the old one.
SealFails ==
    /\ pc = "seal" /\ Disturbs
    /\ manifest' \in {manifest, None}
    /\ pc' = "unsealed" /\ ctx' = Idle
    /\ UNCHANGED <<policy, memory, sequence, feed, file>>

-----------------------------------------------------------------------------
(* Failing appends and the end of a process *)

Torn(f) == Written(f, [Due EXCEPT !.text = "torn"])

\* Mutant: the caller of a failed call gives the runner the next bar.
AppendFails_goesOn ==
    /\ pc \in Appending /\ Disturbs
    /\ file' \in {file, Written(file, Due), Torn(file)}
    /\ pc' = "idle" /\ ctx' = Idle
    /\ UNCHANGED <<policy, memory, sequence, feed, manifest>>

\* append() raises: nothing, a part or all of the line is in the file, and the
\* journal's memory has not moved.
AppendFails ==
    /\ pc \in Appending /\ Disturbs
    /\ file' \in {file, Written(file, Due), Torn(file)}
    /\ pc' = (IF pc \in {"start", "recover", "reconcile", "stop"} THEN "unsealed" ELSE "failed")
    /\ ctx' = Idle
    /\ UNCHANGED <<policy, memory, sequence, feed, manifest>>

\* The process ends, or dies at any point; what was in memory is gone.
Die ==
    /\ pc # "off"
    /\ file' \in {file} \cup (IF pc \in Appending THEN {Torn(file)} ELSE {})
    /\ pc' = "off" /\ ctx' = Idle
    /\ position' = 0 /\ loss' = 0 /\ kill' = FALSE /\ seen' = {}
    /\ sequence' = 0 /\ feed' = "new"
    /\ UNCHANGED <<policy, manifest, counts>>

Next ==
    \/ Construct \/ Start \/ Recover \/ JournalOpening
    \/ Connect \/ Disconnect \/ JournalFeed
    \/ RefuseBar \/ \E b \in Bars : AdmitBar(b)
    \/ JournalRefusal \/ JournalBar \/ JournalSignal \/ JournalRisk
    \/ JournalIntent \/ JournalFill \/ JournalPortfolio \/ JournalKill
    \/ SystemEvent
    \/ Stop \/ JournalStop \/ Seal \/ SealFails
    \/ AppendFails \/ Die

Spec == Init /\ [][Next]_vars

-----------------------------------------------------------------------------
(***************************************************************************)
(* Properties                                                              *)
(***************************************************************************)

Kinds == {"SESSION_STARTED", "MARKET_BAR_RECEIVED", "ORDER_INTENT_CREATED", "FILL_SIMULATED",
          "PORTFOLIO_UPDATED", "KILL_SWITCH_TRIGGERED", "NOTE"}
Positions == -MaxPosition .. MaxPosition
Entries   == [seq : Nat, kind : Kinds, id : Bars \cup {None} \cup Nat, val : Int,
              text : {"whole", "torn"}]

\* Every variable has its type, and the position is within its limit.
TypeOK ==
    /\ pc \in Appending \cup Resting /\ policy \in Policies
    /\ ctx \in [bar : Bars \cup {None}, dir : Int, refused : BOOLEAN,
                order : Nat \cup {None}, passed : BOOLEAN]
    /\ position \in Positions /\ loss \in Nat /\ kill \in BOOLEAN /\ seen \subseteq Bars
    /\ sequence \in Nat /\ feed \in {"new", "connected", "halted"}
    /\ file \in Seq(Entries)
    /\ manifest \in {None} \cup [passed : BOOLEAN, lines : Nat, position : Positions]
    /\ lives \in 0..MaxLives /\ disturbances \in 0..MaxDisturbances

\* Session starts between two lines of the journal: a session started over the
\* journal of an earlier one is a session of its own.
NewSession(i, j) == \E k \in Of(file, "SESSION_STARTED") : i < k /\ k < j

\* A bar of the feed leads to at most one decision of a session, through any
\* number of crashes and recoveries.
BarDecidedOnce ==
    \A i, j \in Of(file, "MARKET_BAR_RECEIVED") :
        i < j /\ file[i].id = file[j].id => NewSession(i, j)

\* Once the kill switch is active, the only order that is made closes the position;
\* and behind its event in the journal a session orders nothing else either, in the
\* process that tripped it or in one that recovered, whichever of the event and of
\* the forced flattening is journaled first.
KillOnlyCloses ==
    /\ kill /\ pc = "intent" => ctx.dir = -position
    /\ \A i \in Of(file, "KILL_SWITCH_TRIGGERED"), j \in Of(file, "ORDER_INTENT_CREATED") :
          i < j => \/ NewSession(i, j)
                   \/ file[j].val = -RestoredPosition(SubSeq(file, 1, j - 1))

\* Between two calls of a running session, a process that died now and
\* recovered would have its position, kill switch and bars.
RestartLosesNothing ==
    pc = "idle" /\ (\A i \in Of(file, "SESSION_STARTED") : i = 1) =>
        /\ position = RestoredPosition(file)
        /\ kill = RestoredKill(file)
        /\ seen = RestoredSeen(file)

\* Trading stops at the first line that does not verify: no bar is decided and
\* no order made behind it, whatever else is still written.
TradingStopsAtBreak ==
    \A i, j \in Lines(file) :
        i < j /\ ~Intact(file, i)
            => file[j].kind \notin {"MARKET_BAR_RECEIVED", "ORDER_INTENT_CREATED", "FILL_SIMULATED"}

\* paper/reconcile.py:13: reconciliation detects a portfolio that is not what the
\* journal's fills add up to; E3.6-AUDIT.md:104: portfolio and position are
\* reconstructible from the journal.
PassMeansFillsCounted ==
    manifest # None /\ Cardinality(Of(file, "SESSION_STARTED")) = 1 /\ manifest.passed =>
        manifest.position = SumFunctionOnSet([i \in Lines(file) |-> file[i].val],
                                             {i \in Of(file, "FILL_SIMULATED") : i <= manifest.lines})
=============================================================================
