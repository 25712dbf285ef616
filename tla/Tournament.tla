------------------------------ MODULE Tournament ------------------------------
(***************************************************************************)
(* The shadow tournament: the main loop of run_tournament(), the slots of  *)
(* ShadowTournamentSupervisor, one episode of run_feed_recovery() and the  *)
(* bars BinancePublicKlinesFeed hands out (paper/tournament_cli.py,        *)
(* tournament.py, recovery.py, feed.py).                                   *)
(*                                                                         *)
(* One thread runs all of it; the status API only reads.  What may happen  *)
(* between two steps is a tick of the market's clock, one more closed      *)
(* candle, and a signal that asks for shutdown.  Bars are numbered by      *)
(* their close.  A bar is older than the 65 s of the freshness gate when   *)
(* two candles closed after it, and may be when one did.                   *)
(*                                                                         *)
(* A slot holds at most one session, the runner attached to it; what the   *)
(* runner does with a bar is PaperSession.  Here a bar is processed, trips *)
(* the kill switch, or raises, before or after the switch is active.       *)
(* Both feeds raise when they lose their connection, so the loop's branch  *)
(* for a loss that is only visible in the feed's status is never taken.    *)
(***************************************************************************)
EXTENDS Integers, Sequences, FiniteSetsExt

CONSTANTS
    Slots,        \* slot coordinates
    Catalog,      \* number of strategies candidate_resolver knows
    Window,       \* closed candles in one response: candidate_limit and not the open one
    MaxAttempts,  \* FeedRecoveryConfig.max_attempts
    MaxWaits,     \* polls that fit into bar_wait_timeout_seconds
    MaxBars,      \* bound on closed candles
    MaxDrops,     \* bound on lost connections outside of an episode
    MaxFaults     \* bound on calls that raise and on kill switches

ASSUME TournamentAssumption ==
    /\ Slots # {} /\ IsFiniteSet(Slots) /\ Catalog \in Nat
    /\ Window \in Nat /\ Window >= 3
    /\ MaxAttempts \in Nat \ {0} /\ MaxWaits \in Nat \ {0}
    /\ MaxBars \in Nat \ {0} /\ MaxDrops \in Nat /\ MaxFaults \in Nat

VARIABLES
    pc,         \* where the main thread stands
    shutdown,   \* shutdown_requested
    enabled,    \* --enable-feed-recovery
    overall,    \* _overall_status
    health,     \* _feed_health
    recovering, \* _feed_recovery_active
    cause,      \* the terminal reason halt() is given
    ending,     \* what ended the run, whatever halt() is told; "none" before
    status,     \* of each slot
    session,    \* of each slot: its runner
    replaced,   \* sessions that were started and lost their slot
    pending,    \* the slots of _pending_candidate_adds
    lastBar,    \* _last_data_timestamp_utc, 0 for None
    resumed,    \* the bar that ended the episode
    now,        \* the newest closed candle
    admitted,   \* _last_admitted_close_ms of the feed, 0 for None
    attempts,   \* attempts_used
    waits,      \* polls of this attempt that returned nothing
    drops, faults

sup     == <<overall, health, recovering, cause, status, session, replaced, pending, lastBar>>
episode == <<resumed, attempts, waits>>
env     == <<shutdown, enabled>>
market  == <<now, admitted>>
vars    == <<pc, sup, ending, episode, env, market, drops, faults>>

Reasons  == {"none", "OPERATOR_STOP", "FEED_DISCONNECTED", "RISK_KILL_SWITCH", "INTERNAL_ERROR",
             "FEED_RECOVERY_FAILED"}
Endings  == {"none", "feed", "recovery", "error", "shutdown", "escaped"}
Statuses == {"UNASSIGNED", "INITIALIZING", "RUNNING", "RISK_HALTED", "FEED_HALTED",
             "FEED_RECOVERING", "STOPPED", "ERROR"}

Built    == [phase |-> "built", kill |-> FALSE, last |-> 0, reason |-> "none"]
NoRunner == [Built EXCEPT !.phase = "none"]
Started  == [Built EXCEPT !.phase = "started"]

\* An exception is counted.
Faulty == faults < MaxFaults /\ faults' = faults + 1

-----------------------------------------------------------------------------
(* halt() *)

\* Mutant: a slot in recovery is not running and has nothing to seal.
ToSeal_running == {s \in Slots : session[s].phase = "started" /\ status[s] # "FEED_RECOVERING"}

ToSeal == {s \in Slots : session[s].phase = "started"}

\* Mutant: only the slot's status tells that the kill switch tripped.
RiskHalted_status(s) == status[s] = "RISK_HALTED"

RiskHalted(s) == status[s] = "RISK_HALTED" \/ session[s].kill

SlotReason(s) == IF RiskHalted(s) THEN "RISK_KILL_SWITCH" ELSE cause
SlotStatus(s) ==
    CASE RiskHalted(s) -> "RISK_HALTED"
      [] ~RiskHalted(s) /\ cause \in {"FEED_DISCONNECTED", "FEED_RECOVERY_FAILED"} -> "FEED_HALTED"
      [] OTHER -> "STOPPED"

\* A runner whose stop() raises is left unsealed, and the error logged.
SealedAs(s) == [session[s] EXCEPT !.phase = "sealed", !.reason = SlotReason(s)]
Unsealed(s) == [session[s] EXCEPT !.phase = "unsealed"]

\* halt(): every runner that was started and not finalized is stopped.
Halt ==
    /\ pc = "halt" /\ pc' = "finally"
    /\ overall' = "HALTED" /\ health' = "HALTED" /\ recovering' = FALSE
    /\ status' = [s \in Slots |-> IF s \in ToSeal THEN SlotStatus(s) ELSE status[s]]
    /\ \E broken \in SUBSET ToSeal :
          /\ IF broken = {} THEN UNCHANGED faults ELSE Faulty
          /\ session' = [s \in Slots |-> CASE s \in broken          -> Unsealed(s)
                                           [] s \in ToSeal \ broken -> SealedAs(s)
                                           [] OTHER                 -> session[s]]
    /\ UNCHANGED <<cause, ending, replaced, pending, lastBar, episode, env, market, drops>>

\* The main loop is left for halt(reason).
LeaveFor(end, reason) == pc' = "halt" /\ cause' = reason /\ ending' = end

\* It is left with nothing told to halt(): for a signal, or by an exception that no
\* handler of the loop is left for.
Exits(end) == pc' = "finally" /\ ending' = end

-----------------------------------------------------------------------------
(* process_bar() *)

\* The first k staged candidates have a runner, built, started and attached.
Joining(k)  == {pending[i] : i \in 1..k}
Sessions(k) == [s \in Slots |-> IF s \in Joining(k) THEN Started ELSE session[s]]
States(k)   == [s \in Slots |-> IF s \in Joining(k) THEN "RUNNING" ELSE status[s]]
Join(k)     == replaced' = replaced + k - Cardinality(Joining(k))

Outcomes == {"ok", "kill", "raise", "killraise"}

\* The slot after its runner was given bar b: _sync_slot_state(), or ERROR.
AfterBar(ses, b, o) ==
    [phase |-> ses.phase, kill |-> o \in {"kill", "killraise"},
     last |-> IF o = "raise" THEN ses.last ELSE b, reason |-> ses.reason]
\* Mutant: the slot is not told of its runner's kill switch.
StateAfter_noSync(o) == IF o \in {"ok", "kill"} THEN "RUNNING" ELSE "ERROR"

StateAfter(o) ==
    CASE o = "ok" -> "RUNNING" [] o = "kill" -> "RISK_HALTED" [] OTHER -> "ERROR"

\* All candidates join, then every RUNNING slot is given the bar.
Deliver(b) ==
    LET all     == Len(pending)
        running == {s \in Slots : States(all)[s] = "RUNNING"}
    IN  \E o \in [running -> Outcomes] :
          /\ faults' = faults + Cardinality({s \in running : o[s] # "ok"}) /\ faults' <= MaxFaults
          /\ session' = [s \in Slots |-> IF s \in running THEN AfterBar(Sessions(all)[s], b, o[s])
                                                          ELSE Sessions(all)[s]]
          /\ status' = [s \in Slots |-> IF s \in running THEN StateAfter(o[s]) ELSE States(all)[s]]
          /\ Join(all)
          /\ pending' = <<>> /\ lastBar' = b /\ health' = "HEALTHY"
          /\ UNCHANGED <<overall, recovering>>

\* A builder, start() or the event of an admission raises: k candidates have
\* joined, no slot is given the bar, and the whole batch stays staged.
JoinRaises ==
    /\ pending # <<>> /\ Faulty
    /\ \E k \in 0..Len(pending) :
          session' = Sessions(k) /\ status' = States(k) /\ Join(k)
    /\ UNCHANGED <<overall, health, recovering, pending, lastBar>>

-----------------------------------------------------------------------------
(* The feed *)

Closed == {b \in 1..now : b > now - Window}
Unseen == {b \in Closed : b > admitted}

\* Mutant: always the newest closed candle.
NextBar_newest == Max(Unseen)

\* poll_next_bar(): the newest closed candle first, afterwards the oldest unseen.
NextBar == IF admitted = 0 THEN Max(Unseen) ELSE Min(Unseen)

\* The verdicts the freshness gate may give with its defaults, M1 and 65 s.
Freshness(b) ==
    CASE b = now -> {TRUE} [] b = now - 1 -> BOOLEAN [] OTHER -> {FALSE}

\* validate_reconnect_bar(): the bar after the last accepted one, or any first bar.
Continuous(b) == lastBar = 0 \/ b = lastBar + 1

-----------------------------------------------------------------------------
(* Start *)

Init ==
    /\ pc = "connect" /\ shutdown = FALSE /\ enabled \in BOOLEAN
    /\ overall = "NOT_STARTED" /\ health = "UNKNOWN" /\ recovering = FALSE /\ cause = "none"
    /\ ending = "none"
    /\ \E mounted \in SUBSET Slots \ {{}} :
          /\ Cardinality(mounted) <= Catalog
          /\ status  = [s \in Slots |-> IF s \in mounted THEN "INITIALIZING" ELSE "UNASSIGNED"]
          /\ session = [s \in Slots |-> IF s \in mounted THEN Built ELSE NoRunner]
    /\ replaced = 0 /\ pending = <<>> /\ lastBar = 0
    /\ now = 1 /\ admitted = 0
    /\ resumed = 0 /\ attempts = 0 /\ waits = 0
    /\ drops = 0 /\ faults = 0

\* The feed is connected before any slot is started.
Connect ==
    /\ pc = "connect"
    /\ \/ pc' = "start" /\ UNCHANGED <<cause, ending, drops>>
       \/ LeaveFor("feed", "FEED_DISCONNECTED") /\ drops < MaxDrops /\ drops' = drops + 1
    /\ UNCHANGED <<overall, health, recovering, status, session, replaced, pending, lastBar,
                   episode, env, market, faults>>

Mounted == {s \in Slots : session[s].phase = "built"}

\* start(): every mounted runner, in the order of the slots.
Start ==
    /\ pc = "start" /\ pc' = "loop"
    /\ overall' = "RUNNING" /\ health' = "HEALTHY"
    /\ status'  = [s \in Slots |-> IF s \in Mounted THEN "RUNNING" ELSE status[s]]
    /\ session' = [s \in Slots |-> IF s \in Mounted THEN Started ELSE session[s]]
    /\ UNCHANGED <<recovering, cause, ending, replaced, pending, lastBar, episode, env, market,
                   drops, faults>>

\* A runner's start() raises, or the export of the status after the last one:
\* both stand before the loop's try, and the program ends with the slots that
\* were started.
StartRaises ==
    /\ pc = "start" /\ pc' = "aborted" /\ Faulty /\ ending' = "escaped"
    /\ \E done \in SUBSET Mounted :
          /\ status'  = [s \in Slots |-> IF s \in done THEN "RUNNING" ELSE status[s]]
          /\ session' = [s \in Slots |-> IF s \in done THEN Started ELSE session[s]]
          /\ IF done = Mounted THEN overall' = "RUNNING" /\ health' = "HEALTHY"
                               ELSE UNCHANGED <<overall, health>>
    /\ UNCHANGED <<recovering, cause, replaced, pending, lastBar, episode, env, market, drops>>

-----------------------------------------------------------------------------
(* The main loop *)

Loop ==
    /\ pc = "loop"
    /\ \/ shutdown /\ Exits("shutdown")
       \/ ~shutdown /\ pc' = "poll" /\ UNCHANGED ending
    /\ UNCHANGED <<sup, episode, env, market, drops, faults>>

Attached == {s \in Slots : session[s].phase # "none"}

\* stage_candidate_add() with a strategy that is neither active nor staged.  A
\* failing append of its event leaves the loop, outside of the inner try.
Stage(s) ==
    /\ pc = "poll" /\ overall = "RUNNING" /\ s \notin Attached
    /\ Cardinality(Attached) + Len(pending) < Catalog
    /\ Cardinality(Attached) + Cardinality(Joining(Len(pending))) < Cardinality(Slots)
    /\ pending' = Append(pending, s)
    /\ \/ UNCHANGED <<pc, ending, faults>>
       \/ Exits("escaped") /\ Faulty
    /\ UNCHANGED <<overall, health, recovering, cause, status, session, replaced, lastBar, episode,
                   env, market, drops>>

\* Everything but the thread's place, the cause, what ends the run, and the counts.
StaysPut == UNCHANGED <<overall, health, recovering, status, session, replaced, pending, lastBar,
                        episode, env>>

\* poll_next_bar() returned a bar that the freshness gate lets through; a failing
\* join, or export of the status, ends in the handler of unexpected exceptions.
TakeBar ==
    /\ pc = "poll" /\ Unseen # {} /\ TRUE \in Freshness(NextBar)
    /\ admitted' = NextBar
    /\ \/ Deliver(NextBar) /\ pc' = "loop" /\ UNCHANGED <<cause, ending>>
       \/ (Deliver(NextBar) \/ JoinRaises) /\ LeaveFor("error", "INTERNAL_ERROR")
    /\ UNCHANGED <<episode, env, now, drops>>

RefuseStale ==
    /\ pc = "poll" /\ Unseen # {} /\ FALSE \in Freshness(NextBar)
    /\ admitted' = NextBar
    /\ LeaveFor("feed", "FEED_DISCONNECTED")
    /\ StaysPut /\ UNCHANGED <<now, drops, faults>>

PollNothing ==
    /\ pc = "poll" /\ Unseen = {} /\ pc' = "loop"
    /\ StaysPut /\ UNCHANGED <<cause, ending, market, drops, faults>>

\* The request outlasts a close it does not contain, and status() is too old.
PollOutlasts ==
    /\ pc = "poll" /\ Unseen = {} /\ now < MaxBars
    /\ now' = now + 1
    /\ LeaveFor("feed", "FEED_DISCONNECTED")
    /\ StaysPut /\ UNCHANGED <<admitted, drops, faults>>

\* A response that breaks the feed's contract, or an exception nobody expects.
PollRaises ==
    /\ pc = "poll" /\ Faulty
    /\ LeaveFor("feed", "FEED_DISCONNECTED") \/ LeaveFor("error", "INTERNAL_ERROR")
    /\ StaysPut /\ UNCHANGED <<market, drops>>

Lost == pc = "poll" /\ drops < MaxDrops /\ drops' = drops + 1

\* The connection is lost and recovery is not enabled.
LostForGood ==
    /\ Lost /\ ~enabled
    /\ LeaveFor("feed", "FEED_DISCONNECTED")
    /\ StaysPut /\ UNCHANGED <<market, faults>>

-----------------------------------------------------------------------------
(* One recovery episode.  It runs inside an exception handler of the loop: what *)
(* raises here goes past the other handlers, straight to the finally.           *)

\* enter_feed_recovery(): the slots first, then the event.
Enter ==
    /\ Lost /\ enabled
    /\ recovering' = TRUE /\ health' = "RECOVERING" /\ attempts' = 0
    /\ status' = [s \in Slots |-> IF status[s] = "RUNNING" THEN "FEED_RECOVERING" ELSE status[s]]
    /\ \/ pc' = "attempt" /\ UNCHANGED <<ending, faults>>
       \/ Exits("escaped") /\ Faulty
    /\ UNCHANGED <<overall, cause, session, replaced, pending, lastBar, resumed, waits, env, market>>

\* Everything outside of the episode.
Recovers == UNCHANGED <<sup, env, now, drops>>

\* Mutants: a failed attempt is not counted, or one too many is made.
AttemptFails_uncounted == pc' = "attempt" /\ UNCHANGED <<attempts, waits, resumed>>
AttemptFails_oneMore ==
    /\ attempts' = attempts + 1
    /\ pc' = (IF attempts' > MaxAttempts THEN "giveup" ELSE "attempt")
    /\ UNCHANGED <<resumed, waits>>

AttemptFails ==
    /\ attempts' = attempts + 1
    /\ pc' = (IF attempts' < MaxAttempts THEN "attempt" ELSE "giveup")
    /\ UNCHANGED <<resumed, waits>>

\* should_stop(), asked before every attempt and every poll: the slots stay as
\* they are for the finally.
Abort ==
    /\ pc \in {"attempt", "wait"} /\ shutdown
    /\ Exits("shutdown")
    /\ Recovers /\ UNCHANGED <<episode, admitted, faults>>

Reconnect ==
    /\ pc = "attempt" /\ ~shutdown
    /\ \/ pc' = "wait" /\ waits' = 0 /\ UNCHANGED <<resumed, attempts>>
       \/ AttemptFails
    /\ Recovers /\ UNCHANGED <<ending, admitted, faults>>

\* The poll finds the connection lost, or no bar within bar_wait_timeout_seconds.
WaitFails ==
    /\ pc = "wait" /\ ~shutdown
    /\ AttemptFails
    /\ Recovers /\ UNCHANGED <<ending, admitted, faults>>

WaitOn ==
    /\ pc = "wait" /\ ~shutdown /\ Unseen = {} /\ waits < MaxWaits
    /\ waits' = waits + 1
    /\ Recovers /\ UNCHANGED <<pc, ending, resumed, attempts, admitted, faults>>

\* A bar ends the episode: it is the next one, or recovery has failed.
Reappears ==
    /\ pc = "wait" /\ ~shutdown /\ Unseen # {}
    /\ admitted' = NextBar
    /\ \E fresh \in Freshness(NextBar) :
          IF fresh /\ Continuous(NextBar) THEN pc' = "resume" /\ resumed' = NextBar
                                          ELSE pc' = "giveup" /\ resumed' = resumed
    /\ Recovers /\ UNCHANGED <<ending, attempts, waits, faults>>

\* An event cannot be journaled, or a response is malformed.
EpisodeRaises ==
    /\ pc \in {"attempt", "wait"} /\ Faulty
    /\ Exits("escaped")
    /\ Recovers /\ UNCHANGED <<episode, admitted>>

\* fail_feed_recovery(): an event, then halt().
GiveUp ==
    /\ pc = "giveup"
    /\ \/ recovering' = FALSE /\ LeaveFor("recovery", "FEED_RECOVERY_FAILED") /\ UNCHANGED faults
       \/ recovering' \in BOOLEAN /\ Exits("escaped") /\ Faulty /\ UNCHANGED cause
    /\ UNCHANGED <<overall, health, status, session, replaced, pending, lastBar, episode, env,
                   market, drops>>

\* Mutant: every halted slot trades again.
Restored_all(s) == session[s].phase = "started"

Restored(s) == status[s] = "FEED_RECOVERING"

\* exit_feed_recovery(): the slots first, then the event.
Exit ==
    /\ pc = "resume"
    /\ recovering' = FALSE /\ health' = "HEALTHY"
    /\ status' = [s \in Slots |-> IF Restored(s) THEN "RUNNING" ELSE status[s]]
    /\ \/ pc' = "deliver" /\ UNCHANGED <<ending, faults>>
       \/ Exits("escaped") /\ Faulty
    /\ UNCHANGED <<overall, cause, session, replaced, pending, lastBar, episode, env, market, drops>>

\* The bar that ended the episode is the first that the slots get; the export of
\* the status that follows may raise.
Redeliver ==
    /\ pc = "deliver"
    /\ \/ Deliver(resumed) /\ pc' = "loop" /\ UNCHANGED ending
       \/ (Deliver(resumed) \/ JoinRaises) /\ Exits("escaped")
    /\ UNCHANGED <<cause, episode, env, market, drops>>

-----------------------------------------------------------------------------
(* The end, and the environment *)

\* The finally of run_tournament(): a halt() that only counts if it is the first.
Finally ==
    /\ pc = "finally"
    /\ IF overall = "HALTED" THEN pc' = "done" /\ UNCHANGED cause
                             ELSE pc' = "halt" /\ cause' = "OPERATOR_STOP"
    /\ StaysPut /\ UNCHANGED <<ending, market, drops, faults>>

\* handle_signal().
Signal ==
    /\ ~shutdown /\ pc \notin {"done", "aborted"}
    /\ shutdown' = TRUE
    /\ UNCHANGED <<pc, sup, ending, episode, enabled, market, drops, faults>>

\* A candle closes.
Tick ==
    /\ now < MaxBars /\ pc \notin {"done", "aborted"}
    /\ now' = now + 1
    /\ UNCHANGED <<pc, sup, ending, episode, env, admitted, drops, faults>>

Program ==
    \/ Connect \/ Start \/ StartRaises \/ Halt \/ Loop
    \/ \E s \in Slots : Stage(s)
    \/ TakeBar \/ RefuseStale \/ PollNothing \/ PollOutlasts \/ PollRaises \/ LostForGood
    \/ Enter \/ Abort \/ Reconnect \/ WaitFails \/ WaitOn \/ Reappears \/ EpisodeRaises
    \/ GiveUp \/ Exit \/ Redeliver
    \/ Finally

Next == Program \/ Signal \/ Tick

\* The thread goes on; nothing forces a candle, a signal or a lost connection.
Spec == Init /\ [][Next]_vars /\ WF_vars(Program)

-----------------------------------------------------------------------------
(***************************************************************************)
(* Properties                                                              *)
(***************************************************************************)

Places == {"connect", "start", "loop", "poll", "attempt", "wait", "giveup", "resume", "deliver",
           "halt", "finally", "done", "aborted"}

\* Every variable has its type, and an episode keeps to its budget.
TypeOK ==
    /\ pc \in Places /\ shutdown \in BOOLEAN /\ enabled \in BOOLEAN
    /\ overall \in {"NOT_STARTED", "RUNNING", "HALTED"} /\ recovering \in BOOLEAN
    /\ health \in {"UNKNOWN", "HEALTHY", "RECOVERING", "HALTED"}
    /\ cause \in Reasons /\ ending \in Endings
    /\ status \in [Slots -> Statuses]
    /\ session \in [Slots -> [phase : {"none", "built", "started", "sealed", "unsealed"},
                              kill : BOOLEAN, last : Nat, reason : Reasons]]
    /\ replaced \in Nat /\ pending \in Seq(Slots)
    /\ lastBar \in Nat /\ resumed \in Nat /\ now \in Nat /\ admitted \in 0..now
    /\ attempts \in 0..MaxAttempts /\ waits \in 0..MaxWaits
    /\ drops \in 0..MaxDrops /\ faults \in 0..MaxFaults

\* Whenever the loop runs, every slot that trades, or that waits for the feed,
\* has been given the tournament's last bar: a late joiner's first bar is the
\* others' bar, and no recovery brings a slot back that missed one.
Synchronized ==
    pc \in {"loop", "poll", "attempt", "wait", "giveup", "resume", "deliver"} =>
        \A s \in Slots : status[s] \in {"RUNNING", "FEED_RECOVERING"} =>
            session[s].phase = "started" /\ session[s].last = lastBar

\* No session skips a bar or is given one twice, across lost connections, ticks
\* during a poll and recovery: gaps end in a halt.
ConsecutiveBars ==
    [][\A s \in Slots :
          session[s].last # 0 /\ session'[s].last # session[s].last
              => session'[s].last = session[s].last + 1]_vars

\* Once its kill switch is active a session gets no further bar, whatever the
\* feed, a recovery or the rest of the tournament does.
RiskHaltIsFinal ==
    [][\A s \in Slots :
          session[s].kill => session'[s].last = session[s].last /\ status'[s] # "RUNNING"]_vars

\* To the slots the tournament is one whose feed never fails: what they see of a
\* recovery is nothing, or the end.
Phase ==
    CASE overall = "HALTED" -> "over"
      [] overall # "HALTED" /\ pc \in {"connect", "start"} -> "before"
      [] overall # "HALTED" /\ pc \in {"halt", "finally", "done", "aborted"} -> "stopping"
      [] OTHER -> "running"
Fate(s) ==
    CASE session[s].phase = "none"  -> "empty"
      [] session[s].phase = "built" -> "mounted"
      [] session[s].phase \in {"sealed", "unsealed"} -> "closed"
      [] OTHER -> IF session[s].kill THEN "halted"
                  ELSE IF status[s] = "ERROR" THEN "broken" ELSE "trading"
Fates       == [s \in Slots |-> Fate(s)]
LastBars    == [s \in Slots |-> session[s].last]
SealReasons == [s \in Slots |-> session[s].reason]

Ideal == INSTANCE Lockstep
    WITH Causes <- Reasons \ {"none"}, phase <- Phase, bar <- lastBar,
         slot <- Fates, given <- LastBars, reason <- SealReasons
ImplementsLockstep == Ideal!LSpec

\* The terminal reason of each way the run can end.  An exception that passes by
\* the loop's handlers has none of its own: the finally seals the operator's.
ReasonFor(end) ==
    CASE end = "feed"     -> "FEED_DISCONNECTED"
      [] end = "recovery" -> "FEED_RECOVERY_FAILED"
      [] end = "error"    -> "INTERNAL_ERROR"
      [] OTHER            -> "OPERATOR_STOP"

\* A sealed session tells what ended the run, or its kill switch if that tripped:
\* also when the call that tripped it raised, when halt() is called a second time,
\* and when the signal comes after the end began.  The operator is named without a
\* signal in one case only, the exception that escaped.
StoppedForItsCause ==
    \A s \in Slots :
        session[s].phase = "sealed" =>
            /\ session[s].reason = (IF session[s].kill THEN "RISK_KILL_SWITCH"
                                                      ELSE ReasonFor(ending))
            /\ session[s].reason = "OPERATOR_STOP" => shutdown \/ ending = "escaped"

\* When the program ends by itself no session in a slot is left open: it is
\* sealed, unless its own stop() failed.
SealedAtEnd ==
    pc = "done" => \A s \in Slots : session[s].phase # "started"

\* A recovery episode ends: it resumes, fails, or the program stops.
EpisodeEnds == recovering ~> ~recovering
=============================================================================
