------------------------- MODULE Tournament_proofs -------------------------
(***************************************************************************)
(* Theorems about Tournament for any slots, budgets and number of candles, *)
(* signals, lost connections and failing calls.                            *)
(*                                                                         *)
(* A slot is known by its status and by its session, and the two are       *)
(* written by different steps.  The invariant says how they agree at each  *)
(* place of the main thread: which slots wait for the feed, that a staged  *)
(* candidate's slot is still empty, that a kill switch is never under a    *)
(* slot that trades, and where the feed's cursor stands relative to the    *)
(* tournament's last bar.                                                  *)
(*                                                                         *)
(* LockstepKept is the refinement of Lockstep, EpisodesRunOut the part of  *)
(* EpisodeEnds that needs no fairness.                                     *)
(***************************************************************************)
EXTENDS Tournament, FiniteSetTheorems, TLAPS

Session == [phase : {"none", "built", "started", "sealed", "unsealed"},
            kill : BOOLEAN, last : Nat, reason : Reasons]

\* The main loop runs, or an episode does.
Live == {"loop", "poll", "attempt", "wait", "giveup", "resume", "deliver"}

\* An attempt that is under way is within the budget.
Budget == pc \in {"attempt", "wait"} => attempts < MaxAttempts

\* Before the slots are started nothing was delivered.
BeforeStart ==
    pc \in {"connect", "start"} =>
        /\ lastBar = 0 /\ admitted = 0 /\ pending = <<>> /\ overall = "NOT_STARTED"
        /\ \A s \in Slots : /\ session[s].phase \in {"none", "built"}
                            /\ status[s] \in {"INITIALIZING", "UNASSIGNED"}

\* A session whose kill switch is active was started, and its slot tells so or
\* is in ERROR; a slot is RISK_HALTED for no other reason.
KillIsKnown ==
    \A s \in Slots :
        /\ session[s].kill => /\ session[s].phase \notin {"none", "built"}
                              /\ status[s] \notin {"RUNNING", "FEED_RECOVERING"}
        /\ status[s] = "RISK_HALTED" => session[s].kill

\* A session that was not started has had no bar.
Fresh == \A s \in Slots : session[s].phase \in {"none", "built"} => session[s].last = 0

\* A staged candidate's slot is empty until it joins.
Staged == pc \in Live => \A i \in 1..Len(pending) : session[pending[i]].phase = "none"

\* A slot waits for the feed only within an episode.
Steady ==
    pc \in {"loop", "poll", "deliver"} => \A s \in Slots : status[s] # "FEED_RECOVERING"

\* Sessions are sealed by the one halt() that counts, which leaves none open.
Ended ==
    /\ overall = "HALTED" => /\ pc \in {"finally", "done"}
                             /\ \A s \in Slots : session[s].phase # "started"
    /\ pc = "done" => overall = "HALTED"
    /\ \A s \in Slots : session[s].phase \in {"sealed", "unsealed"} => overall = "HALTED"

\* The feed's cursor is the tournament's last bar; the bar that ended an
\* episode is the next one.
Cursor ==
    /\ pc \in {"loop", "poll"} => admitted = lastBar
    /\ pc \in {"resume", "deliver"} => admitted = resumed /\ Continuous(resumed)

\* A sealed session has the reason halt() was given, or its kill switch's.
SealedForHalt ==
    \A s \in Slots :
        session[s].phase = "sealed" =>
            session[s].reason = (IF session[s].kill THEN "RISK_KILL_SWITCH" ELSE cause)

IInv ==
    /\ TypeOK /\ Budget /\ BeforeStart /\ KillIsKnown /\ Fresh /\ Staged /\ Steady /\ Ended
    /\ Cursor /\ Synchronized /\ SealedForHalt

-----------------------------------------------------------------------------
\* What an action does to a session, field by field.
LEMMA AfterBarFacts ==
    ASSUME NEW ses \in Session, NEW b \in Nat, NEW o \in Outcomes
    PROVE  /\ AfterBar(ses, b, o) \in Session
           /\ AfterBar(ses, b, o).phase = ses.phase
           /\ AfterBar(ses, b, o).last = (IF o = "raise" THEN ses.last ELSE b)
           /\ AfterBar(ses, b, o).kill = (o \in {"kill", "killraise"})
           /\ AfterBar(ses, b, o).reason = ses.reason
BY DEF AfterBar, Session

LEMMA SealedFacts ==
    ASSUME NEW s \in Slots, session \in [Slots -> Session], cause \in Reasons
    PROVE  /\ SealedAs(s) \in Session /\ Unsealed(s) \in Session
           /\ SealedAs(s).phase = "sealed" /\ SealedAs(s).reason = SlotReason(s)
           /\ SealedAs(s).kill = session[s].kill /\ SealedAs(s).last = session[s].last
           /\ Unsealed(s).phase = "unsealed"
           /\ Unsealed(s).kill = session[s].kill /\ Unsealed(s).last = session[s].last
BY DEF SealedAs, Unsealed, Session, SlotReason, Reasons

LEMMA NewSessions ==
    /\ Started \in Session /\ Started.phase = "started" /\ Started.last = 0 /\ Started.kill = FALSE
    /\ Built \in Session /\ Built.phase = "built" /\ Built.last = 0 /\ Built.kill = FALSE
    /\ NoRunner \in Session /\ NoRunner.phase = "none" /\ NoRunner.last = 0 /\ NoRunner.kill = FALSE
    /\ Started.reason = "none" /\ Built.reason = "none" /\ NoRunner.reason = "none"
BY DEF Started, Built, NoRunner, Session, Reasons

\* A batch of k candidates fills at most k slots.
LEMMA JoiningSize ==
    ASSUME pending \in Seq(Slots), NEW k \in 0..Len(pending)
    PROVE  Joining(k) \subseteq Slots /\ Cardinality(Joining(k)) \in 0..k
<1>1. IsFiniteSet(1..k) /\ Cardinality(1..k) = k
  BY FS_Interval
<1>2. IsFiniteSet(Joining(k)) /\ Cardinality(Joining(k)) <= Cardinality(1..k)
  <2> DEFINE f == [i \in 1..k |-> pending[i]]
  <2>1. f \in Surjection(1..k, Joining(k))
    BY DEF Joining, Surjection
  <2> QED  BY <1>1, <2>1, FS_Surjection
<1>3. Cardinality(Joining(k)) \in Nat
  BY <1>2, FS_CardinalityType
<1> QED  BY <1>1, <1>2, <1>3 DEF Joining

\* The bar that poll_next_bar() hands out is an unseen one, and the next one if
\* there was one before and it passes the freshness gate.
LEMMA NextBarFacts ==
    ASSUME TypeOK, Unseen # {}
    PROVE  /\ NextBar \in Nat /\ NextBar \in 1..now /\ NextBar > admitted
           /\ admitted # 0 /\ TRUE \in Freshness(NextBar) => NextBar = admitted + 1
<1>1. /\ now \in Nat /\ admitted \in Nat /\ Window \in Nat /\ Window >= 3
      /\ Unseen \subseteq 1..now /\ \A b \in Unseen : b > admitted
  BY TournamentAssumption DEF TypeOK, Unseen, Closed
<1>2. \A b \in 1..now : b > admitted /\ b > now - Window => b \in Unseen
  BY DEF Unseen, Closed
<1>3. now \in Unseen
  <2> PICK b \in Unseen : TRUE
    OBVIOUS
  <2>1. now \in 1..now /\ now > admitted /\ now > now - Window
    BY <1>1
  <2> QED  BY <1>2, <2>1
<1>4. Max(Unseen) \in Unseen
  <2>1. \A y \in Unseen : now >= y
    BY <1>1
  <2> QED  BY <1>3, <2>1 DEF Max
<1>5. \E low \in Unseen : \A y \in Unseen : low <= y
  <2>1. CASE admitted > now - Window
    <3>1. admitted + 1 \in Unseen /\ \A y \in Unseen : admitted + 1 <= y
      BY <1>1, <1>2, <1>3, <2>1
    <3> QED  BY <3>1
  <2>2. CASE ~(admitted > now - Window)
    <3>1. now - Window + 1 \in Unseen /\ \A y \in Unseen : now - Window + 1 <= y
      BY <1>1, <1>2, <2>2 DEF Unseen, Closed
    <3> QED  BY <3>1
  <2> QED  BY <2>1, <2>2
<1>6. Min(Unseen) \in Unseen /\ \A y \in Unseen : Min(Unseen) <= y
  BY <1>5 DEF Min
<1>7. NextBar \in Unseen
  BY <1>4, <1>6 DEF NextBar
<1>8. ASSUME TRUE \in Freshness(NextBar), admitted # 0 PROVE NextBar = admitted + 1
  <2>1. \A y \in Unseen : NextBar <= y
    BY <1>6, <1>8 DEF NextBar
  <2>2. NextBar \in {now, now - 1}
    BY <1>8 DEF Freshness
  <2>3. now - 2 \notin Unseen
    BY <1>1, <2>1, <2>2
  <2>4. admitted + 1 \in Unseen
    BY <1>1, <1>2, <1>3, <1>7, <2>2, <2>3
  <2>5. NextBar <= admitted + 1
    BY <2>1, <2>4
  <2>6. NextBar \in Nat /\ NextBar > admitted
    BY <1>1, <1>7
  <2> QED  BY <1>1, <2>5, <2>6
<1>9. NextBar \in Nat /\ NextBar \in 1..now /\ NextBar > admitted
  BY <1>1, <1>7
<1> QED  BY <1>8, <1>9, Zenon

\* Joining candidates find their slots empty and start there.
LEMMA Joins ==
    ASSUME IInv, pc \in Live, NEW k \in 0..Len(pending), Join(k)
    PROVE  /\ replaced' \in Nat
           /\ Sessions(k) \in [Slots -> Session] /\ States(k) \in [Slots -> Statuses]
           /\ \A s \in Slots :
                 \/ /\ Sessions(k)[s] = session[s] /\ States(k)[s] = status[s]
                 \/ /\ session[s].phase = "none" /\ session[s].last = 0 /\ ~session[s].kill
                    /\ Sessions(k)[s] = Started /\ States(k)[s] = "RUNNING"
<1>1. /\ pending \in Seq(Slots) /\ replaced \in Nat
      /\ session \in [Slots -> Session] /\ status \in [Slots -> Statuses]
  BY DEF IInv, TypeOK, Session
<1>2. replaced' \in Nat
  BY <1>1, JoiningSize DEF Join
<1>3. Sessions(k) \in [Slots -> Session] /\ States(k) \in [Slots -> Statuses]
  BY <1>1, NewSessions DEF Sessions, States, Statuses
<1>4. \A s \in Joining(k) : session[s].phase = "none"
  BY <1>1 DEF IInv, Staged, Joining
<1>5. \A s \in Slots : session[s].phase = "none" => session[s].last = 0 /\ ~session[s].kill
  BY DEF IInv, Fresh, KillIsKnown
<1> QED  BY <1>2, <1>3, <1>4, <1>5 DEF Sessions, States

LEMMA JoinRaisesFacts ==
    ASSUME IInv, pc \in Live, JoinRaises
    PROVE  /\ session' \in [Slots -> Session] /\ status' \in [Slots -> Statuses]
           /\ replaced' \in Nat /\ faults' \in 0..MaxFaults
           /\ \A s \in Slots :
                 \/ session'[s] = session[s] /\ status'[s] = status[s]
                 \/ /\ session[s].phase = "none" /\ session[s].last = 0 /\ ~session[s].kill
                    /\ session'[s] = Started /\ status'[s] = "RUNNING"
<1>1. PICK k \in 0..Len(pending) : session' = Sessions(k) /\ status' = States(k) /\ Join(k)
  BY DEF JoinRaises
<1>2. faults' \in 0..MaxFaults
  BY TournamentAssumption DEF JoinRaises, Faulty, IInv, TypeOK
<1> QED  BY <1>1, <1>2, Joins

\* A delivered bar reaches the slots that trade, and no other slot changes.
LEMMA Delivered ==
    ASSUME IInv, pc \in {"poll", "deliver"}, NEW b \in Nat, Deliver(b)
    PROVE  /\ session' \in [Slots -> Session] /\ status' \in [Slots -> Statuses]
           /\ replaced' \in Nat /\ faults' \in 0..MaxFaults
           /\ \A s \in Slots :
                 \/ session'[s] = session[s] /\ status'[s] = status[s] /\ status[s] # "RUNNING"
                 \/ /\ session'[s].phase = "started" /\ session[s].phase \in {"none", "started"}
                    /\ ~session[s].kill /\ session[s].last \in {0, lastBar}
                    /\ session'[s].last \in {session[s].last, b}
                    /\ status'[s] \in {"RUNNING", "RISK_HALTED", "ERROR"}
                    /\ status'[s] = "RUNNING" => session'[s].last = b /\ ~session'[s].kill
                    /\ status'[s] = "RISK_HALTED" => session'[s].kill
                    /\ session[s].phase = "started" => status[s] = "RUNNING"
                    /\ session'[s].kill => session'[s].last = b
                    /\ session'[s].reason = (IF session[s].phase = "none" THEN "none"
                                                                        ELSE session[s].reason)
<1> DEFINE all     == Len(pending)
           running == {s \in Slots : States(all)[s] = "RUNNING"}
<1>1. PICK o \in [running -> Outcomes] :
          /\ faults' = faults + Cardinality({s \in running : o[s] # "ok"}) /\ faults' <= MaxFaults
          /\ session' = [s \in Slots |-> IF s \in running THEN AfterBar(Sessions(all)[s], b, o[s])
                                                          ELSE Sessions(all)[s]]
          /\ status' = [s \in Slots |-> IF s \in running THEN StateAfter(o[s]) ELSE States(all)[s]]
          /\ Join(all)
  BY DEF Deliver
<1>2. all \in 0..Len(pending) /\ pc \in Live
  BY DEF IInv, TypeOK, Live
<1>3. /\ replaced' \in Nat
      /\ Sessions(all) \in [Slots -> Session] /\ States(all) \in [Slots -> Statuses]
      /\ \A s \in Slots :
            \/ Sessions(all)[s] = session[s] /\ States(all)[s] = status[s]
            \/ /\ session[s].phase = "none" /\ session[s].last = 0 /\ ~session[s].kill
               /\ Sessions(all)[s] = Started /\ States(all)[s] = "RUNNING"
  BY <1>1, <1>2, Joins
<1> HIDE DEF all
<1>4. faults' \in 0..MaxFaults
  <2>1. IsFiniteSet({s \in running : o[s] # "ok"})
    BY TournamentAssumption, FS_Subset
  <2>2. Cardinality({s \in running : o[s] # "ok"}) \in Nat
    BY <2>1, FS_CardinalityType
  <2> QED  BY <1>1, <2>2, TournamentAssumption DEF IInv, TypeOK
<1>5. ASSUME NEW s \in running
      PROVE  /\ AfterBar(Sessions(all)[s], b, o[s]) \in Session /\ StateAfter(o[s]) \in Statuses
             /\ session'[s].phase = "started" /\ session[s].phase \in {"none", "started"}
             /\ ~session[s].kill /\ session[s].last \in {0, lastBar}
             /\ session'[s].last \in {session[s].last, b}
             /\ status'[s] \in {"RUNNING", "RISK_HALTED", "ERROR"}
             /\ status'[s] = "RUNNING" => session'[s].last = b /\ ~session'[s].kill
             /\ status'[s] = "RISK_HALTED" => session'[s].kill
             /\ session[s].phase = "started" => status[s] = "RUNNING"
             /\ session'[s].kill => session'[s].last = b
             /\ session'[s].reason = (IF session[s].phase = "none" THEN "none"
                                                                 ELSE session[s].reason)
  <2> DEFINE before == Sessions(all)[s]
  <2>1. s \in Slots /\ before \in Session /\ o[s] \in Outcomes
    BY <1>3
  <2>2. session'[s] = AfterBar(before, b, o[s]) /\ status'[s] = StateAfter(o[s])
    BY <1>1, <2>1
  <2>3. /\ before.phase = "started" /\ before.last = session[s].last
        /\ session[s].phase \in {"none", "started"} /\ ~session[s].kill
        /\ session[s].last \in {0, lastBar}
        /\ session[s].phase = "started" => status[s] = "RUNNING"
        /\ before.reason = (IF session[s].phase = "none" THEN "none" ELSE session[s].reason)
    <3>1. CASE before = session[s] /\ States(all)[s] = status[s]
      <4>1. status[s] = "RUNNING"
        BY <3>1
      <4> QED  BY <2>1, <3>1, <4>1 DEF IInv, Synchronized, KillIsKnown
    <3>2. CASE /\ session[s].phase = "none" /\ session[s].last = 0 /\ ~session[s].kill
               /\ before = Started
      BY <3>2, NewSessions
    <3> QED  BY <1>3, <2>1, <3>1, <3>2
  <2> HIDE DEF before
  <2>4. /\ AfterBar(before, b, o[s]) \in Session
        /\ AfterBar(before, b, o[s]).phase = before.phase
        /\ AfterBar(before, b, o[s]).last = (IF o[s] = "raise" THEN before.last ELSE b)
        /\ AfterBar(before, b, o[s]).kill = (o[s] \in {"kill", "killraise"})
        /\ AfterBar(before, b, o[s]).reason = before.reason
    BY <2>1, AfterBarFacts
  <2>5. /\ StateAfter(o[s]) \in {"RUNNING", "RISK_HALTED", "ERROR"}
        /\ StateAfter(o[s]) = "RUNNING" => o[s] = "ok"
        /\ StateAfter(o[s]) = "RISK_HALTED" => o[s] = "kill"
    BY <2>1 DEF StateAfter, Outcomes
  <2> QED  BY <2>2, <2>3, <2>4, <2>5 DEF before, Statuses
<1>6. ASSUME NEW s \in Slots, s \notin running
      PROVE  session'[s] = session[s] /\ status'[s] = status[s] /\ status[s] # "RUNNING"
  BY <1>1, <1>3, <1>6
<1>7. session' \in [Slots -> Session] /\ status' \in [Slots -> Statuses]
  BY <1>1, <1>3, <1>5
<1> QED  BY <1>3, <1>4, <1>5, <1>6, <1>7

-----------------------------------------------------------------------------
\* The steps that leave the slots, their sessions and the staged candidates alone.
Quiet ==
    \/ Connect \/ Loop \/ RefuseStale \/ PollNothing \/ PollOutlasts \/ PollRaises \/ LostForGood
    \/ Abort \/ Reconnect \/ WaitFails \/ WaitOn \/ Reappears \/ EpisodeRaises \/ GiveUp
    \/ Finally \/ Signal \/ Tick

LEMMA QuietStep == IInv /\ Quiet => IInv'
<1> SUFFICES ASSUME IInv, Quiet PROVE IInv'
  OBVIOUS
<1>0. Unseen # {} => NextBar \in Nat /\ NextBar \in 1..now
  BY NextBarFacts DEF IInv
<1> USE TournamentAssumption
    DEF IInv, TypeOK, Budget, BeforeStart, KillIsKnown, Fresh, Staged, Live, Steady, Ended,
        Cursor, Continuous, Synchronized, SealedForHalt, Places, Reasons, Endings,
        env, market, sup, episode
<1>1. CASE Connect
  BY <1>1 DEF Connect, LeaveFor, Exits
<1>2. CASE Loop
  BY <1>2 DEF Loop, Exits
<1>3. CASE PollNothing
  BY <1>3 DEF PollNothing, StaysPut
<1>4. CASE PollOutlasts
  BY <1>4 DEF PollOutlasts, LeaveFor, Exits, StaysPut
<1>5. CASE PollRaises
  BY <1>5 DEF PollRaises, LeaveFor, Exits, StaysPut, Faulty
<1>6. CASE LostForGood
  BY <1>6 DEF LostForGood, Lost, LeaveFor, Exits, StaysPut
<1>7. CASE Abort
  BY <1>7 DEF Abort, Recovers, Exits
<1>8. CASE Reconnect
  BY <1>8 DEF Reconnect, Recovers, AttemptFails
<1>9. CASE WaitFails
  BY <1>9 DEF WaitFails, Recovers, AttemptFails
<1>10. CASE WaitOn
  BY <1>10 DEF WaitOn, Recovers
<1>11. CASE EpisodeRaises
  BY <1>11 DEF EpisodeRaises, Recovers, Faulty, Exits
<1>12. CASE Finally
  BY <1>12 DEF Finally, LeaveFor, Exits, StaysPut
<1>13. CASE Signal
  BY <1>13 DEF Signal
<1>14. CASE Tick
  BY <1>14 DEF Tick
<1>15. CASE RefuseStale
  <2>1. admitted' \in 0..now' /\ now' = now
    BY <1>0, <1>15 DEF RefuseStale
  <2> QED  BY <1>15, <2>1 DEF RefuseStale, LeaveFor, Exits, StaysPut
<1>16. CASE Reappears
  <2>1. admitted' \in 0..now' /\ now' = now /\ NextBar \in Nat
    BY <1>0, <1>16 DEF Reappears, Recovers
  <2>2. CASE pc' = "resume" /\ resumed' = NextBar /\ Continuous(NextBar)
    BY <1>16, <2>1, <2>2 DEF Reappears, Recovers
  <2>3. CASE pc' = "giveup" /\ resumed' = resumed
    BY <1>16, <2>1, <2>3 DEF Reappears, Recovers
  <2> QED  BY <1>16, <2>2, <2>3 DEF Reappears
<1>17. CASE GiveUp
  <2>1. CASE recovering' = FALSE /\ LeaveFor("recovery", "FEED_RECOVERY_FAILED") /\ UNCHANGED faults
    BY <1>17, <2>1 DEF GiveUp, LeaveFor, Exits
  <2>2. CASE recovering' \in BOOLEAN /\ Exits("escaped") /\ Faulty /\ UNCHANGED cause
    BY <1>17, <2>2 DEF GiveUp, Faulty, Exits
  <2> QED  BY <1>17, <2>1, <2>2 DEF GiveUp
<1> QED  BY <1>1, <1>2, <1>3, <1>4, <1>5, <1>6, <1>7, <1>8, <1>9, <1>10, <1>11,
             <1>12, <1>13, <1>14, <1>15, <1>16, <1>17 DEF Quiet

\* The slots are started, as far as the starts go.
LEMMA StartStep == IInv /\ (Start \/ StartRaises) => IInv'
<1> SUFFICES ASSUME IInv, Start \/ StartRaises PROVE IInv'
  OBVIOUS
<1>1. PICK done \in SUBSET Mounted :
          /\ status'  = [s \in Slots |-> IF s \in done THEN "RUNNING" ELSE status[s]]
          /\ session' = [s \in Slots |-> IF s \in done THEN Started ELSE session[s]]
          /\ Start => done = Mounted
  BY DEF Start, StartRaises
<1>2. /\ session \in [Slots -> Session] /\ status \in [Slots -> Statuses]
      /\ pc = "start"
  BY DEF IInv, TypeOK, Session, Start, StartRaises
<1>3. session' \in [Slots -> Session] /\ status' \in [Slots -> Statuses]
  BY <1>1, <1>2, NewSessions DEF Statuses
<1>4. \A s \in Slots :
         \/ /\ session'[s] = session[s] /\ status'[s] = status[s]
            /\ status[s] \in {"INITIALIZING", "UNASSIGNED"} /\ session[s].phase \in {"none", "built"}
         \/ /\ session'[s].phase = "started" /\ session'[s].last = 0 /\ ~session'[s].kill
            /\ status'[s] = "RUNNING"
  BY <1>1, <1>2, NewSessions DEF IInv, BeforeStart
<1> USE TournamentAssumption
    DEF TypeOK, Budget, BeforeStart, KillIsKnown, Fresh, Staged, Live, Steady, Ended,
        Cursor, Continuous, Synchronized, SealedForHalt, Places, Reasons, Endings, Session,
        env, market, sup, episode
<1>5. CASE Start
  BY <1>2, <1>3, <1>4, <1>5 DEF IInv, Start
<1>6. CASE StartRaises
  <2>1. TypeOK' /\ Budget' /\ BeforeStart' /\ Staged' /\ Steady' /\ Cursor'
    BY <1>2, <1>3, <1>6 DEF IInv, StartRaises, Faulty
  <2>2. KillIsKnown' /\ Fresh'
    BY <1>2, <1>4, <1>6 DEF IInv, StartRaises, Faulty
  <2>3. Ended' /\ Synchronized' /\ SealedForHalt'
    BY <1>2, <1>4, <1>6 DEF IInv, StartRaises, Faulty
  <2> QED BY <2>1, <2>2, <2>3 DEF IInv
<1> QED  BY <1>5, <1>6

\* halt() seals what is open.
LEMMA HaltStep == IInv /\ Halt => IInv'
<1> SUFFICES ASSUME IInv, Halt PROVE IInv'
  OBVIOUS
<1>1. PICK broken \in SUBSET ToSeal :
          /\ IF broken = {} THEN UNCHANGED faults ELSE Faulty
          /\ session' = [s \in Slots |-> CASE s \in broken          -> Unsealed(s)
                                           [] s \in ToSeal \ broken -> SealedAs(s)
                                           [] OTHER                 -> session[s]]
  BY DEF Halt
<1>2. /\ session \in [Slots -> Session] /\ status \in [Slots -> Statuses] /\ cause \in Reasons
  BY DEF IInv, TypeOK, Session
<1>3. \A s \in Slots :
         \/ s \notin ToSeal /\ session'[s] = session[s] /\ status'[s] = status[s]
         \/ /\ s \in ToSeal /\ session'[s] \in Session /\ session'[s].phase \in {"sealed", "unsealed"}
            /\ session'[s].kill = session[s].kill
            /\ session'[s].phase = "sealed" => session'[s].reason = SlotReason(s)
            /\ status'[s] = SlotStatus(s)
  BY <1>1, <1>2, SealedFacts DEF Halt, ToSeal
<1>4. session' \in [Slots -> Session] /\ status' \in [Slots -> Statuses]
  BY <1>1, <1>2, SealedFacts DEF Halt, SlotStatus, Statuses
<1>5. \A s \in Slots : /\ RiskHalted(s) <=> session[s].kill
                       /\ SlotStatus(s) \notin {"RUNNING", "FEED_RECOVERING"}
                       /\ SlotStatus(s) = "RISK_HALTED" => session[s].kill
                       /\ SlotReason(s) = (IF session[s].kill THEN "RISK_KILL_SWITCH" ELSE cause)
  BY DEF IInv, KillIsKnown, RiskHalted, SlotStatus, SlotReason
<1>6. faults' \in 0..MaxFaults
  <2>1. faults' = faults \/ Faulty
    BY <1>1
  <2> QED  BY <2>1, TournamentAssumption DEF Faulty, IInv, TypeOK
<1>7. TypeOK'
  BY <1>4, <1>6 DEF Halt, IInv, TypeOK, Session, Places, env, market, episode
<1>8. Budget' /\ BeforeStart' /\ Staged' /\ Steady' /\ Cursor' /\ Synchronized'
  BY DEF Halt, Budget, BeforeStart, Staged, Live, Steady, Cursor, Synchronized
<1>9. KillIsKnown' /\ Fresh'
  BY <1>3, <1>5 DEF IInv, KillIsKnown, Fresh, ToSeal
<1>10. Ended'
  BY <1>3 DEF Halt, Ended, ToSeal
<1>11. SealedForHalt'
  <2>1. cause' = cause
    BY DEF Halt
  <2> QED  BY <1>3, <1>5, <2>1 DEF IInv, SealedForHalt
<1> QED  BY <1>7, <1>8, <1>9, <1>10, <1>11 DEF IInv

\* A candidate is staged for an empty slot.
LEMMA StageStep == IInv /\ (\E s \in Slots : Stage(s)) => IInv'
<1> SUFFICES ASSUME IInv, NEW s \in Slots, Stage(s) PROVE IInv'
  OBVIOUS
<1>1. pending' \in Seq(Slots) /\ \A i \in 1..Len(pending') : session[pending'[i]].phase = "none"
  BY DEF IInv, TypeOK, Staged, Live, Stage, Attached
<1> USE TournamentAssumption
    DEF TypeOK, Budget, BeforeStart, KillIsKnown, Fresh, Staged, Live, Steady, Ended,
        Cursor, Continuous, Synchronized, SealedForHalt, Places, Reasons, Endings, Session,
        env, market, sup, episode
<1> QED  BY <1>1 DEF IInv, Stage, Faulty, Exits

\* The slots wait for the feed, and trade again.
LEMMA EpisodeStep == IInv /\ (Enter \/ Exit) => IInv'
<1> SUFFICES ASSUME IInv, Enter \/ Exit PROVE IInv'
  OBVIOUS
<1>1. status' \in [Slots -> Statuses]
  BY DEF Enter, Exit, IInv, TypeOK, Statuses
<1>2. TypeOK'
  <2>1. faults' \in 0..MaxFaults /\ drops' \in 0..MaxDrops /\ attempts' \in 0..MaxAttempts
    BY TournamentAssumption DEF Enter, Exit, Lost, Faulty, IInv, TypeOK, episode
  <2>2. /\ pc' \in Places /\ ending' \in Endings
        /\ recovering' \in BOOLEAN /\ health' \in {"HEALTHY", "RECOVERING"}
    BY DEF Enter, Exit, Exits, Places, Endings, IInv, TypeOK
  <2>3. UNCHANGED <<overall, cause, session, replaced, pending, lastBar, resumed, waits, env, market>>
    BY DEF Enter, Exit, episode
  <2> QED  BY <1>1, <2>1, <2>2, <2>3 DEF IInv, TypeOK, env, market
<1>3. Budget'
  BY TournamentAssumption DEF Enter, Exit, Exits, Budget
<1>4. BeforeStart' /\ Fresh' /\ Staged' /\ Steady' /\ Ended' /\ SealedForHalt'
  BY DEF Enter, Exit, Exits, Lost, Restored, IInv, BeforeStart, Fresh, Staged, Live, Steady, Ended,
         SealedForHalt
<1>5. \A s \in Slots : \/ status'[s] = status[s]
                       \/ {status[s], status'[s]} = {"RUNNING", "FEED_RECOVERING"}
  BY DEF Enter, Exit, Restored, IInv, TypeOK
<1>6. KillIsKnown'
  BY <1>5 DEF Enter, Exit, IInv, KillIsKnown
<1>7. Cursor'
  BY DEF Enter, Exit, Exits, Lost, IInv, Cursor, Continuous, market, episode
<1>8. Synchronized'
  BY <1>5 DEF Enter, Exit, Exits, Lost, IInv, Synchronized
<1> QED  BY <1>2, <1>3, <1>4, <1>6, <1>7, <1>8 DEF IInv

\* A bar is delivered that the feed's cursor stands on.
LEMMA DeliverStep ==
    ASSUME IInv, pc \in {"poll", "deliver"}, NEW b \in Nat, Deliver(b),
           pc' \in {"loop", "halt", "finally"}, cause' \in Reasons, ending' \in Endings,
           b \in 0..now, now' = now, admitted' = b, UNCHANGED <<episode, env, drops>>
    PROVE  IInv'
<1>1. /\ session' \in [Slots -> Session] /\ status' \in [Slots -> Statuses]
      /\ replaced' \in Nat /\ faults' \in 0..MaxFaults
      /\ \A s \in Slots :
            \/ session'[s] = session[s] /\ status'[s] = status[s] /\ status[s] # "RUNNING"
            \/ /\ session'[s].phase = "started" /\ session[s].phase \in {"none", "started"}
               /\ ~session[s].kill /\ session[s].last \in {0, lastBar}
               /\ session'[s].last \in {session[s].last, b}
               /\ status'[s] \in {"RUNNING", "RISK_HALTED", "ERROR"}
               /\ status'[s] = "RUNNING" => session'[s].last = b /\ ~session'[s].kill
               /\ status'[s] = "RISK_HALTED" => session'[s].kill
  BY Delivered
<1>2. /\ pending' = <<>> /\ lastBar' = b /\ health' = "HEALTHY"
      /\ UNCHANGED <<overall, recovering>>
  BY DEF Deliver
<1>3. TypeOK'
  BY <1>1, <1>2 DEF IInv, TypeOK, Session, Places, env, episode
<1>4. Budget' /\ BeforeStart' /\ Staged' /\ Cursor'
  BY <1>2 DEF Budget, BeforeStart, Staged, Cursor
<1>5. KillIsKnown'
  BY <1>1 DEF IInv, KillIsKnown
<1>6. Fresh'
  BY <1>1 DEF IInv, Fresh
<1>7. Steady'
  BY <1>1 DEF IInv, Steady
<1>8. Ended'
  BY <1>1, <1>2 DEF IInv, Ended
<1>9. Synchronized'
  BY <1>1, <1>2 DEF IInv, Synchronized, Steady
<1>10. SealedForHalt'
  BY <1>1, <1>2 DEF IInv, Ended, SealedForHalt
<1> QED  BY <1>3, <1>4, <1>5, <1>6, <1>7, <1>8, <1>9, <1>10 DEF IInv

LEMMA JoinRaisesStep ==
    ASSUME IInv, pc \in {"poll", "deliver"}, JoinRaises, pc' \in {"halt", "finally"},
           cause' \in Reasons, ending' \in Endings,
           admitted' \in 0..now, now' = now, UNCHANGED <<episode, env, drops>>
    PROVE  IInv'
<1>1. pc \in Live
  BY DEF Live
<1>2. /\ session' \in [Slots -> Session] /\ status' \in [Slots -> Statuses]
      /\ replaced' \in Nat /\ faults' \in 0..MaxFaults
      /\ \A s \in Slots :
            \/ session'[s] = session[s] /\ status'[s] = status[s]
            \/ /\ session[s].phase = "none" /\ session[s].last = 0 /\ ~session[s].kill
               /\ session'[s].phase = "started" /\ ~session'[s].kill
               /\ status'[s] = "RUNNING"
  BY <1>1, JoinRaisesFacts, NewSessions
<1>3. UNCHANGED <<overall, health, recovering, pending, lastBar>>
  BY DEF JoinRaises
<1>4. TypeOK'
  BY <1>2, <1>3 DEF IInv, TypeOK, Session, Places, env, episode
<1>5. Budget' /\ BeforeStart' /\ Staged' /\ Steady' /\ Cursor' /\ Synchronized'
  BY DEF Budget, BeforeStart, Staged, Live, Steady, Cursor, Synchronized
<1>6. KillIsKnown'
  BY <1>2 DEF IInv, KillIsKnown
<1>7. Fresh'
  BY <1>2 DEF IInv, Fresh
<1>8. Ended'
  BY <1>2, <1>3 DEF IInv, Ended
<1>9. SealedForHalt'
  BY <1>2, <1>3 DEF IInv, Ended, SealedForHalt
<1> QED  BY <1>4, <1>5, <1>6, <1>7, <1>8, <1>9 DEF IInv

LEMMA TakeBarStep == IInv /\ (TakeBar \/ Redeliver) => IInv'
<1> SUFFICES ASSUME IInv, TakeBar \/ Redeliver PROVE IInv'
  OBVIOUS
<1>1. CASE TakeBar
  <2>0. NextBar \in Nat /\ NextBar \in 1..now
    BY <1>1, NextBarFacts DEF TakeBar, IInv
  <2>1. /\ NextBar \in Nat /\ NextBar \in 0..now /\ pc = "poll" /\ admitted' = NextBar
        /\ now' = now /\ UNCHANGED <<episode, env, drops>>
    BY <1>1, <2>0 DEF TakeBar
  <2>2. /\ cause' \in Reasons /\ ending' \in Endings
        /\ \/ Deliver(NextBar) /\ pc' \in {"loop", "halt"}
           \/ JoinRaises /\ pc' = "halt"
    BY <1>1 DEF TakeBar, LeaveFor, IInv, TypeOK, Reasons, Endings
  <2>3. CASE Deliver(NextBar) /\ pc' \in {"loop", "halt"}
    BY <2>1, <2>2, <2>3, DeliverStep
  <2>4. CASE JoinRaises /\ pc' = "halt"
    BY <2>1, <2>2, <2>4, <2>0, JoinRaisesStep
  <2> QED  BY <2>2, <2>3, <2>4
<1>2. CASE Redeliver
  <2>1. /\ resumed \in Nat /\ resumed \in 0..now /\ pc = "deliver" /\ admitted' = resumed
        /\ now' = now /\ admitted' \in 0..now /\ UNCHANGED <<episode, env, drops>>
    BY <1>2 DEF Redeliver, IInv, TypeOK, Cursor, market
  <2>2. /\ cause' \in Reasons /\ ending' \in Endings
        /\ \/ Deliver(resumed) /\ pc' \in {"loop", "finally"}
           \/ JoinRaises /\ pc' = "finally"
    BY <1>2 DEF Redeliver, Exits, IInv, TypeOK, Endings
  <2>3. CASE Deliver(resumed) /\ pc' \in {"loop", "finally"}
    BY <2>1, <2>2, <2>3, DeliverStep
  <2>4. CASE JoinRaises /\ pc' = "finally"
    BY <2>1, <2>2, <2>4, JoinRaisesStep
  <2> QED  BY <2>2, <2>3, <2>4
<1> QED  BY <1>1, <1>2

-----------------------------------------------------------------------------
LEMMA InitIsInvariant == Init => IInv
<1> SUFFICES ASSUME Init PROVE IInv
  OBVIOUS
<1>1. \A s \in Slots : \/ session[s] = Built /\ status[s] = "INITIALIZING"
                       \/ session[s] = NoRunner /\ status[s] = "UNASSIGNED"
  BY DEF Init
<1>2. session \in [Slots -> Session] /\ status \in [Slots -> Statuses]
  BY NewSessions DEF Init, Statuses
<1>3. TypeOK
  <2>1. pending \in Seq(Slots)
    BY DEF Init
  <2>2. now \in Nat /\ admitted \in 0..now /\ enabled \in BOOLEAN
    BY DEF Init
  <2>3. attempts \in 0..MaxAttempts /\ waits \in 0..MaxWaits /\ drops \in 0..MaxDrops
        /\ faults \in 0..MaxFaults
    BY TournamentAssumption DEF Init
  <2>4. pc \in Places /\ cause \in Reasons /\ ending \in Endings
    BY DEF Init, Places, Reasons, Endings
  <2>5. /\ shutdown \in BOOLEAN /\ recovering \in BOOLEAN
        /\ overall = "NOT_STARTED" /\ health = "UNKNOWN"
        /\ replaced \in Nat /\ lastBar \in Nat /\ resumed \in Nat
    BY DEF Init
  <2> QED  BY <1>2, <2>1, <2>2, <2>3, <2>4, <2>5 DEF TypeOK, Session
<1>4. Budget /\ Staged /\ Steady /\ Cursor /\ Synchronized
  BY DEF Init, Budget, Staged, Live, Steady, Cursor, Synchronized
<1>5. BeforeStart /\ KillIsKnown /\ Fresh /\ Ended /\ SealedForHalt
  BY <1>1, NewSessions DEF Init, BeforeStart, KillIsKnown, Fresh, Ended, SealedForHalt
<1> QED  BY <1>3, <1>4, <1>5 DEF IInv

LEMMA StepKeepsInvariant == IInv /\ [Next]_vars => IInv'
<1> SUFFICES ASSUME IInv, [Next]_vars PROVE IInv'
  OBVIOUS
<1>1. CASE Quiet
  BY <1>1, QuietStep
<1>2. CASE Start \/ StartRaises
  BY <1>2, StartStep
<1>3. CASE Halt
  BY <1>3, HaltStep
<1>4. CASE \E s \in Slots : Stage(s)
  BY <1>4, StageStep
<1>5. CASE Enter \/ Exit
  BY <1>5, EpisodeStep
<1>6. CASE TakeBar \/ Redeliver
  BY <1>6, TakeBarStep
<1>7. CASE UNCHANGED vars
  BY <1>7 DEF vars, sup, episode, env, market, IInv, TypeOK, Budget, BeforeStart, KillIsKnown, Fresh,
              Staged, Steady, Ended, Cursor, Continuous, Synchronized, SealedForHalt
<1> QED  BY <1>1, <1>2, <1>3, <1>4, <1>5, <1>6, <1>7 DEF Next, Program, Quiet

\* The invariant holds in every behaviour of the tournament.
THEOREM TournamentInvariance == Spec => []IInv
<1>1. Init => IInv
  BY InitIsInvariant
<1>2. IInv /\ [Next]_vars => IInv'
  BY StepKeepsInvariant
<1> QED  BY <1>1, <1>2, PTL DEF Spec

\* Every variable keeps its type, and an episode its budget of attempts.
THEOREM TournamentTypes == Spec => []TypeOK
<1>1. IInv => TypeOK
  BY DEF IInv
<1> QED  BY <1>1, TournamentInvariance, PTL

\* Every slot that trades, or waits for the feed, has had the tournament's last
\* bar, however many joined late, were lost with the connection and came back.
THEOREM SlotsAreSynchronized == Spec => []Synchronized
<1>1. IInv => Synchronized
  BY DEF IInv
<1> QED  BY <1>1, TournamentInvariance, PTL

-----------------------------------------------------------------------------
(***************************************************************************)
(* Why a session was stopped.  What halt() is told agrees with what ended  *)
(* the run: where the loop's handlers call it because it is told there,    *)
(* where the finally does because the other ways to it are a signal and an *)
(* exception.                                                              *)
(***************************************************************************)
Known ==
    /\ pc = "halt" \/ overall = "HALTED" => cause = ReasonFor(ending)
    /\ pc = "finally" /\ overall # "HALTED" => ending \in {"shutdown", "escaped"}
    /\ ending = "shutdown" => shutdown
    /\ ending = "none" => pc \notin {"halt", "finally"} /\ overall # "HALTED"

LEMMA KnownNext == IInv /\ Known /\ [Next]_vars => Known'
<1> SUFFICES ASSUME IInv, Known, [Next]_vars PROVE Known'
  OBVIOUS
<1>0. overall = "HALTED" => pc \in {"finally", "done"}
  BY DEF IInv, Ended
<1>1. CASE Quiet
  <2> USE <1>0 DEF Known, LeaveFor, Exits, ReasonFor, StaysPut, Recovers, sup, env
  <2>1. CASE Connect \/ Loop \/ PollNothing \/ PollOutlasts \/ PollRaises \/ RefuseStale
    BY <2>1 DEF Connect, Loop, PollNothing, PollOutlasts, PollRaises, RefuseStale
  <2>2. CASE LostForGood \/ Abort \/ EpisodeRaises \/ GiveUp
    BY <2>2 DEF LostForGood, Lost, Abort, EpisodeRaises, GiveUp
  <2>3. CASE Reconnect \/ WaitFails \/ WaitOn \/ Reappears
    BY <2>3 DEF Reconnect, WaitFails, WaitOn, Reappears, AttemptFails
  <2>4. CASE Finally
    BY <2>4 DEF Finally
  <2>5. CASE Signal \/ Tick
    BY <2>5 DEF Signal, Tick
  <2> QED  BY <1>1, <2>1, <2>2, <2>3, <2>4, <2>5 DEF Quiet
<1>2. CASE Start \/ StartRaises
  <2>1. pc = "start" /\ pc' \in {"loop", "aborted"} /\ ending' \in {ending, "escaped"}
    BY <1>2 DEF Start, StartRaises
  <2>2. overall' # "HALTED" /\ shutdown' = shutdown
    BY <1>0, <1>2 DEF Start, StartRaises, env
  <2> QED  BY <2>1, <2>2 DEF Known
<1>3. CASE Halt
  BY <1>3 DEF Halt, Known, env
<1>4. CASE Enter \/ Exit \/ (\E s \in Slots : Stage(s))
  BY <1>0, <1>4 DEF Enter, Exit, Stage, Exits, Lost, Known, env
<1>5. CASE TakeBar \/ Redeliver
  <2>1. /\ pc \in {"poll", "deliver"} /\ overall' = overall /\ shutdown' = shutdown
        /\ \/ pc' = "loop" /\ ending' = ending
           \/ pc' = "halt" /\ ending' = "error" /\ cause' = "INTERNAL_ERROR"
           \/ pc' = "finally" /\ ending' = "escaped"
    BY <1>5 DEF TakeBar, Redeliver, Deliver, JoinRaises, LeaveFor, Exits, env
  <2> QED  BY <1>0, <2>1 DEF Known, ReasonFor
<1>6. CASE UNCHANGED vars
  BY <1>6 DEF vars, sup, env, Known
<1> QED  BY <1>1, <1>2, <1>3, <1>4, <1>5, <1>6 DEF Next, Program, Quiet

\* A sealed session tells what ended the run, or that its own kill switch tripped,
\* whatever halt() is called for afterwards; without a signal it names the operator
\* only for an exception that passed by the handlers of the loop.
THEOREM SealsCarryTheCause == Spec => []StoppedForItsCause
<1>1. Init => Known
  BY DEF Init, Known
<1>2. Spec => []Known
  BY <1>1, TournamentInvariance, KnownNext, PTL DEF Spec
<1>3. IInv /\ Known => StoppedForItsCause
  <2> SUFFICES ASSUME IInv, Known, NEW s \in Slots, session[s].phase = "sealed"
               PROVE  /\ session[s].reason = (IF session[s].kill THEN "RISK_KILL_SWITCH"
                                                                 ELSE ReasonFor(ending))
                      /\ session[s].reason = "OPERATOR_STOP" => shutdown \/ ending = "escaped"
    BY DEF StoppedForItsCause
  <2>1. overall = "HALTED" /\ cause = ReasonFor(ending) /\ ending # "none"
    BY DEF IInv, Ended, Known
  <2>2. session[s].reason = (IF session[s].kill THEN "RISK_KILL_SWITCH" ELSE ReasonFor(ending))
    BY <2>1 DEF IInv, SealedForHalt
  <2>3. ReasonFor(ending) = "OPERATOR_STOP" => ending \in {"shutdown", "escaped"}
    BY <2>1 DEF ReasonFor, IInv, TypeOK, Endings
  <2> QED  BY <2>2, <2>3 DEF Known
<1> QED  BY <1>2, <1>3, TournamentInvariance, PTL

\* The program does not end by itself with a session open in a slot.
THEOREM NothingIsLeftOpen == Spec => []SealedAtEnd
<1>1. IInv => SealedAtEnd
  BY DEF IInv, Ended, SealedAtEnd
<1> QED  BY <1>1, TournamentInvariance, PTL

-----------------------------------------------------------------------------
\* What a step may do to the last bar of a session, and to a halted one.
LEMMA SessionStep ==
    ASSUME IInv, [Next]_vars, NEW s \in Slots
    PROVE  /\ session[s].last # 0 /\ session'[s].last # session[s].last
                 => session'[s].last = session[s].last + 1
           /\ session[s].kill => session'[s].last = session[s].last /\ status'[s] # "RUNNING"
<1>1. /\ session \in [Slots -> Session] /\ cause \in Reasons
      /\ session[s].kill => /\ session[s].phase \notin {"none", "built"}
                            /\ status[s] \notin {"RUNNING", "FEED_RECOVERING"}
      /\ session[s].phase \in {"none", "built"} => session[s].last = 0
  BY DEF IInv, TypeOK, Session, KillIsKnown, Fresh
<1>2. CASE session'[s] = session[s] /\ status'[s] = status[s]
  BY <1>1, <1>2
<1>3. CASE Start \/ StartRaises
  <2>1. \/ session'[s] = session[s] /\ status'[s] = status[s]
        \/ session[s].phase = "built" /\ session'[s] = Started
    BY <1>3 DEF Start, StartRaises, Mounted
  <2> QED  BY <1>1, <1>2, <2>1, NewSessions
<1>4. CASE Halt
  <2>1. session'[s] \in {session[s], SealedAs(s), Unsealed(s)}
    BY <1>4 DEF Halt
  <2>2. status'[s] \in {status[s], SlotStatus(s)} /\ SlotStatus(s) # "RUNNING"
    BY <1>4 DEF Halt, SlotStatus, IInv, TypeOK
  <2> QED  BY <1>1, <2>1, <2>2, SealedFacts
<1>5. CASE Enter \/ Exit
  <2>1. session' = session /\ (status'[s] = "RUNNING" => status[s] \in {"RUNNING", "FEED_RECOVERING"})
    BY <1>5 DEF Enter, Exit, Restored, IInv, TypeOK
  <2> QED  BY <1>1, <2>1
<1>6. ASSUME pc \in {"poll", "deliver"}, JoinRaises
      PROVE  \/ session'[s] = session[s] /\ status'[s] = status[s]
             \/ session[s].phase = "none" /\ session[s].last = 0 /\ ~session[s].kill
  <2>1. pc \in Live
    BY <1>6 DEF Live
  <2> QED  BY <1>6, <2>1, JoinRaisesFacts
<1>7. ASSUME NEW b \in Nat, pc \in {"poll", "deliver"}, Deliver(b), lastBar # 0 => b = lastBar + 1
      PROVE  /\ session[s].last # 0 /\ session'[s].last # session[s].last
                   => session'[s].last = session[s].last + 1
             /\ session[s].kill => session'[s].last = session[s].last /\ status'[s] # "RUNNING"
  <2>1. \/ session'[s] = session[s] /\ status'[s] = status[s]
        \/ /\ ~session[s].kill /\ session[s].last \in {0, lastBar}
           /\ session'[s].last \in {session[s].last, b}
    BY <1>7, Delivered
  <2> QED  BY <1>1, <1>7, <2>1
<1>8. CASE TakeBar
  <2>1. NextBar \in Nat /\ (lastBar # 0 => NextBar = lastBar + 1) /\ pc = "poll"
    BY <1>8, NextBarFacts DEF TakeBar, IInv, Cursor
  <2> QED  BY <1>2, <1>6, <1>7, <1>8, <2>1 DEF TakeBar
<1>9. CASE Redeliver
  <2>1. resumed \in Nat /\ (lastBar # 0 => resumed = lastBar + 1) /\ pc = "deliver"
    BY <1>9 DEF Redeliver, IInv, TypeOK, Cursor, Continuous
  <2> QED  BY <1>2, <1>6, <1>7, <1>9, <2>1 DEF Redeliver
<1>10. CASE Quiet \/ (\E c \in Slots : Stage(c)) \/ UNCHANGED vars
  <2>1. session' = session /\ status' = status
    BY <1>10 DEF Quiet, Stage, vars, sup, Connect, Loop, RefuseStale, PollNothing, PollOutlasts,
                 PollRaises, LostForGood, Abort, Reconnect, WaitFails, WaitOn, Reappears,
                 EpisodeRaises, GiveUp, Finally, Signal, Tick, StaysPut, Recovers
  <2> QED  BY <1>2, <2>1
<1> QED  BY <1>3, <1>4, <1>5, <1>8, <1>9, <1>10 DEF Next, Program, Quiet

\* No session skips a bar or has one twice: what the feed cannot hand out in
\* sequence is stale by then, and ends the tournament.
THEOREM BarsAreConsecutive == Spec => ConsecutiveBars
<1>1. IInv /\ [Next]_vars =>
         [\A s \in Slots :
             session[s].last # 0 /\ session'[s].last # session[s].last
                 => session'[s].last = session[s].last + 1]_vars
  BY SessionStep
<1> QED  BY <1>1, TournamentInvariance, PTL DEF Spec, ConsecutiveBars

\* A session whose kill switch is active gets no further bar and never trades
\* again, through recovery and the halt.
THEOREM RiskHaltsAreFinal == Spec => RiskHaltIsFinal
<1>1. IInv /\ [Next]_vars =>
         [\A s \in Slots :
             session[s].kill => session'[s].last = session[s].last /\ status'[s] # "RUNNING"]_vars
  BY SessionStep
<1> QED  BY <1>1, TournamentInvariance, PTL DEF Spec, RiskHaltIsFinal

-----------------------------------------------------------------------------
(***************************************************************************)
(* Lockstep.  What the slots see of the tournament is decided by their     *)
(* sessions; the status of a slot tells whether its session trades, which  *)
(* needs that a session under way has no other status than these (Told).   *)
(***************************************************************************)

Told ==
    \A s \in Slots : session[s].phase = "started" =>
        status[s] \in {"RUNNING", "FEED_RECOVERING", "RISK_HALTED", "ERROR"}

\* halt() has a cause, and the bar that ends an episode is one.
Aimed ==
    /\ pc = "halt" => cause # "none"
    /\ pc \in {"resume", "deliver"} => resumed # 0

\* Only a sealed session has a reason.
Unnamed == \A s \in Slots : session[s].phase # "sealed" => session[s].reason = "none"

MInv == IInv /\ Told /\ Aimed /\ Unnamed

LEMMA MInvInit == Init => MInv
<1> SUFFICES ASSUME Init PROVE MInv
  OBVIOUS
<1>1. \A s \in Slots : session[s] \in {Built, NoRunner}
  BY DEF Init
<1>2. Told /\ Unnamed
  BY <1>1, NewSessions DEF Told, Unnamed
<1> QED  BY <1>2, InitIsInvariant DEF MInv, Init, Aimed

LEMMA MInvNext == MInv /\ [Next]_vars => MInv'
<1> SUFFICES ASSUME MInv, [Next]_vars PROVE MInv'
  OBVIOUS
<1>0. IInv /\ IInv' /\ session \in [Slots -> Session]
  BY StepKeepsInvariant DEF MInv, IInv, TypeOK, Session
<1> SUFFICES Told' /\ Aimed' /\ Unnamed'
  BY <1>0 DEF MInv
<1>1. CASE Quiet \/ (\E c \in Slots : Stage(c)) \/ UNCHANGED vars
  <2>1. session' = session /\ status' = status
    BY <1>1 DEF Quiet, Stage, vars, sup, Connect, Loop, RefuseStale, PollNothing, PollOutlasts,
                 PollRaises, LostForGood, Abort, Reconnect, WaitFails, WaitOn, Reappears,
                 EpisodeRaises, GiveUp, Finally, Signal, Tick, StaysPut, Recovers
  <2>2. Told' /\ Unnamed'
    BY <2>1 DEF MInv, Told, Unnamed
  <2>3. pc' = "halt" => cause' # "none"
    BY <1>1 DEF Quiet, Stage, vars, sup, Connect, Loop, RefuseStale, PollNothing, PollOutlasts,
                 PollRaises, LostForGood, Abort, Reconnect, WaitFails, WaitOn, Reappears,
                 EpisodeRaises, GiveUp, Finally, Signal, Tick, StaysPut, Recovers, LeaveFor, Exits,
                 AttemptFails, MInv, Aimed
  <2>4. Unseen # {} => NextBar \in 1..now
    BY <1>0, NextBarFacts DEF IInv
  <2>5. pc' \in {"resume", "deliver"} => resumed' # 0
    <3>1. CASE Reappears
      BY <1>0, <2>4, <3>1 DEF Reappears, IInv, TypeOK
    <3>2. CASE ~Reappears
      BY <1>1, <3>2 DEF Quiet, Stage, vars, episode, Connect, Loop, RefuseStale, PollNothing,
                 PollOutlasts, PollRaises, LostForGood, Abort, Reconnect, WaitFails, WaitOn,
                 EpisodeRaises, GiveUp, Finally, Signal, Tick, StaysPut, LeaveFor, Exits,
                 AttemptFails, MInv, Aimed
    <3> QED  BY <3>1, <3>2
  <2> QED  BY <2>2, <2>3, <2>5 DEF Aimed
<1>2. CASE Start \/ StartRaises
  <2>1. \A s \in Slots :
           \/ session'[s] = session[s] /\ status'[s] = status[s]
           \/ session'[s] = Started /\ status'[s] = "RUNNING"
    BY <1>0, <1>2 DEF Start, StartRaises, Mounted, IInv, TypeOK
  <2>2. Told' /\ Unnamed'
    BY <2>1, NewSessions DEF MInv, Told, Unnamed
  <2>3. Aimed'
    BY <1>2 DEF Start, StartRaises, Aimed
  <2> QED  BY <2>2, <2>3
<1>3. CASE Halt
  <2>0. PICK broken \in SUBSET ToSeal :
          session' = [s \in Slots |-> CASE s \in broken          -> Unsealed(s)
                                        [] s \in ToSeal \ broken -> SealedAs(s)
                                        [] OTHER                 -> session[s]]
    BY <1>3 DEF Halt
  <2>1. \A s \in Slots :
           \/ session[s].phase # "started" /\ session'[s] = session[s]
           \/ session'[s] = SealedAs(s)
           \/ session[s].phase = "started" /\ session'[s] = Unsealed(s)
    <3> SUFFICES ASSUME NEW s \in Slots
                 PROVE  \/ session[s].phase # "started" /\ session'[s] = session[s]
                        \/ session'[s] = SealedAs(s)
                        \/ session[s].phase = "started" /\ session'[s] = Unsealed(s)
      OBVIOUS
    <3>1. CASE s \in broken
      BY <2>0, <3>1 DEF ToSeal
    <3>2. CASE s \in ToSeal \ broken
      BY <2>0, <3>2
    <3>3. CASE s \notin ToSeal
      BY <2>0, <3>3 DEF ToSeal
    <3> QED  BY <3>1, <3>2, <3>3
  <2>2. \A s \in Slots : SealedAs(s).phase = "sealed" /\ Unsealed(s).phase = "unsealed"
                        /\ (session[s].phase = "started" => Unsealed(s).reason = session[s].reason)
    BY <1>0 DEF SealedAs, Unsealed, Session
  <2>3. Told' /\ Unnamed'
    <3>1. \A s \in Slots : session'[s].phase # "started"
      BY <2>1, <2>2
    <3>2. \A s \in Slots : session'[s].phase # "sealed" => session'[s].reason = "none"
      BY <2>1, <2>2 DEF MInv, Unnamed
    <3> QED  BY <3>1, <3>2 DEF Told, Unnamed
  <2> QED  BY <1>3, <2>3 DEF Halt, Aimed
<1>4. CASE Enter \/ Exit
  <2>1. /\ session' = session
        /\ \A s \in Slots : status'[s] \in {status[s], "RUNNING", "FEED_RECOVERING"}
    BY <1>0, <1>4 DEF Enter, Exit, IInv, TypeOK
  <2>2. Aimed'
    BY <1>4 DEF Enter, Exit, Exits, episode, MInv, Aimed
  <2> QED  BY <2>1, <2>2 DEF MInv, Told, Unnamed
<1>5. ASSUME pc \in {"poll", "deliver"}, JoinRaises PROVE Told' /\ Unnamed'
  <2>1. pc \in Live
    BY <1>5 DEF Live
  <2>2. \A s \in Slots :
           \/ session'[s] = session[s] /\ status'[s] = status[s]
           \/ session'[s] = Started /\ status'[s] = "RUNNING"
    BY <1>0, <1>5, <2>1, JoinRaisesFacts
  <2> QED  BY <2>2, NewSessions DEF MInv, Told, Unnamed
<1>6. ASSUME pc \in {"poll", "deliver"}, NEW b \in Nat, Deliver(b) PROVE Told' /\ Unnamed'
  <2>1. \A s \in Slots :
           \/ session'[s] = session[s] /\ status'[s] = status[s]
           \/ /\ session'[s].phase = "started" /\ session[s].phase \in {"none", "started"}
              /\ status'[s] \in {"RUNNING", "RISK_HALTED", "ERROR"}
              /\ session'[s].reason = (IF session[s].phase = "none" THEN "none"
                                                                  ELSE session[s].reason)
    BY <1>0, <1>6, Delivered
  <2> QED  BY <2>1 DEF MInv, Told, Unnamed
<1>7. CASE TakeBar
  <2>1. pc = "poll" /\ NextBar \in Nat
    BY <1>0, <1>7, NextBarFacts DEF TakeBar, IInv
  <2>2. Aimed'
    BY <1>7 DEF TakeBar, LeaveFor, Exits, Aimed
  <2> QED  BY <1>5, <1>6, <1>7, <2>1, <2>2 DEF TakeBar
<1>8. CASE Redeliver
  <2>1. pc = "deliver" /\ resumed \in Nat
    BY <1>0, <1>8 DEF Redeliver, IInv, TypeOK
  <2>2. Aimed'
    BY <1>8 DEF Redeliver, Exits, Aimed
  <2> QED  BY <1>5, <1>6, <1>8, <2>1, <2>2 DEF Redeliver
<1> QED  BY <1>1, <1>2, <1>3, <1>4, <1>7, <1>8 DEF Next, Program, Quiet
LEMMA MInvariance == Spec => []MInv
BY MInvInit, MInvNext, PTL DEF Spec

\* What becomes of a session, by itself and the status of its slot.
FateOf(ses, st) ==
    CASE ses.phase = "none"  -> "empty"
      [] ses.phase = "built" -> "mounted"
      [] ses.phase \in {"sealed", "unsealed"} -> "closed"
      [] OTHER -> IF ses.kill THEN "halted" ELSE IF st = "ERROR" THEN "broken" ELSE "trading"

LEMMA FateOfFacts ==
    ASSUME NEW ses \in Session, NEW st
    PROVE  /\ FateOf(ses, st) \in {"empty", "mounted", "trading", "halted", "broken", "closed"}
           /\ FateOf(ses, st) = "empty" <=> ses.phase = "none"
           /\ FateOf(ses, st) = "mounted" <=> ses.phase = "built"
           /\ FateOf(ses, st) \in {"trading", "halted", "broken"} <=> ses.phase = "started"
           /\ FateOf(ses, st) = "halted" <=> ses.phase = "started" /\ ses.kill
           /\ FateOf(ses, st) = "trading" <=> ses.phase = "started" /\ ~ses.kill /\ st # "ERROR"
           /\ ses.phase \in {"sealed", "unsealed"} => FateOf(ses, st) = "closed"
BY DEF FateOf, Session

\* The mapped state, before and after a step.
LEMMA Mapped ==
    /\ \A s \in Slots : /\ Fates[s] = FateOf(session[s], status[s])
                        /\ LastBars[s] = session[s].last
                        /\ SealReasons[s] = session[s].reason
    /\ \A s \in Slots : /\ Fates'[s] = FateOf(session'[s], status'[s])
                        /\ LastBars'[s] = session'[s].last
                        /\ SealReasons'[s] = session'[s].reason
BY DEF Fates, LastBars, SealReasons, Fate, FateOf

\* Where a tournament stands, to its slots.
PhaseIs ==
    /\ pc \in {"connect", "start"} => Phase = "before"
    /\ pc \in Live => Phase = "running"
    /\ pc \in {"halt", "aborted"} => Phase = "stopping"
    /\ pc = "finally" => Phase = (IF overall = "HALTED" THEN "over" ELSE "stopping")
    /\ pc = "done" => Phase = "over"

LEMMA PhaseFacts == MInv => PhaseIs
BY DEF MInv, IInv, Ended, Phase, PhaseIs, Live

LEMMA PhaseFactsNext == MInv /\ [Next]_vars => PhaseIs /\ PhaseIs'
BY MInvNext, PhaseFacts, PTL

LEMMA Stays ==
    ASSUME \A s \in Slots : /\ session'[s] = session[s]
                            /\ FateOf(session'[s], status'[s]) = FateOf(session[s], status[s])
    PROVE  Fates' = Fates /\ LastBars' = LastBars /\ SealReasons' = SealReasons
BY DEF Fates, LastBars, SealReasons, Fate, FateOf

\* What touches no session is seen by no slot, or ends the tournament.
LEMMA StayStep ==
    ASSUME MInv, [Next]_vars,
           Quiet \/ (\E c \in Slots : Stage(c)) \/ Enter \/ Exit \/ UNCHANGED vars
    PROVE  Ideal!Stop \/ UNCHANGED Ideal!lvars
<1>0. MInv' /\ PhaseIs /\ PhaseIs' /\ TypeOK
  BY MInvNext, PhaseFactsNext DEF MInv, IInv
<1>1. session' = session /\ lastBar' = lastBar
  BY DEF Quiet, Stage, Enter, Exit, vars, sup, Connect, Loop, RefuseStale, PollNothing,
         PollOutlasts, PollRaises, LostForGood, Abort, Reconnect, WaitFails, WaitOn, Reappears,
         EpisodeRaises, GiveUp, Finally, Signal, Tick, StaysPut, Recovers
<1>2. \A s \in Slots : (status'[s] = "ERROR") <=> (status[s] = "ERROR")
  <2>1. CASE Enter \/ Exit
    BY <1>0, <2>1 DEF Enter, Exit, Restored, TypeOK
  <2>2. CASE ~(Enter \/ Exit)
    BY <2>2 DEF Quiet, Stage, vars, sup, Connect, Loop, RefuseStale, PollNothing,
         PollOutlasts, PollRaises, LostForGood, Abort, Reconnect, WaitFails, WaitOn, Reappears,
         EpisodeRaises, GiveUp, Finally, Signal, Tick, StaysPut, Recovers
  <2> QED  BY <2>1, <2>2
<1>3. Fates' = Fates /\ LastBars' = LastBars /\ SealReasons' = SealReasons
  <2>1. \A s \in Slots : FateOf(session'[s], status'[s]) = FateOf(session[s], status[s])
    BY <1>1, <1>2 DEF FateOf
  <2> QED  BY <1>1, <2>1, Stays
<1>4. Phase' = Phase \/ (Phase \in {"before", "running"} /\ Phase' = "stopping")
  <2>1. overall' = overall
    BY DEF Quiet, Stage, Enter, Exit, vars, sup, Connect, Loop, RefuseStale, PollNothing,
         PollOutlasts, PollRaises, LostForGood, Abort, Reconnect, WaitFails, WaitOn, Reappears,
         EpisodeRaises, GiveUp, Finally, Signal, Tick, StaysPut, Recovers
  <2>2. \/ pc' = pc
        \/ pc = "connect" /\ pc' \in {"start", "halt"}
        \/ pc \in Live /\ pc' \in Live \cup {"halt", "finally"}
        \/ pc = "finally" /\ overall = "HALTED" /\ pc' = "done"
        \/ pc = "finally" /\ overall # "HALTED" /\ pc' = "halt"
    BY DEF Quiet, Stage, Enter, Exit, Exits, Lost, vars, Connect, Loop, RefuseStale, PollNothing,
         PollOutlasts, PollRaises, LostForGood, Abort, Reconnect, WaitFails, WaitOn, Reappears,
         EpisodeRaises, GiveUp, Finally, Signal, Tick, LeaveFor, Exits, AttemptFails, Live
  <2>3. pc \in Live => overall # "HALTED"
    BY DEF MInv, IInv, Ended, Live
  <2>4. CASE pc' = pc
    BY <2>1, <2>4 DEF Phase
  <2>5. CASE pc \in Live /\ pc' \in Live \cup {"halt", "finally"}
    BY <1>0, <2>1, <2>3, <2>5 DEF PhaseIs
  <2>6. CASE pc \notin Live /\ pc' # pc
    BY <1>0, <2>1, <2>2, <2>6 DEF PhaseIs
  <2> QED  BY <2>2, <2>4, <2>5, <2>6 DEF Live
<1>5. CASE Phase' = Phase
  BY <1>1, <1>3, <1>5 DEF Ideal!lvars
<1>6. CASE Phase \in {"before", "running"} /\ Phase' = "stopping"
  <2>1. Fates = [s \in Slots |-> IF s \in {} THEN "trading" ELSE Fates[s]]
    BY DEF Fates
  <2>2. \E joining \in SUBSET {s \in Slots : Fates[s] = "empty"} :
           /\ Phase = "before" => joining = {}
           /\ Fates' = [s \in Slots |-> IF s \in joining THEN "trading" ELSE Fates[s]]
    <3>1. {} \in SUBSET {s \in Slots : Fates[s] = "empty"}
      OBVIOUS
    <3> WITNESS {} \in SUBSET {s \in Slots : Fates[s] = "empty"}
    <3> QED  BY <1>3, <2>1
  <2> QED  BY <1>1, <1>3, <1>6, <2>2 DEF Ideal!Stop
<1> QED  BY <1>4, <1>5, <1>6

\* The mapped functions have the types they have in Lockstep.
LEMMA MappedTypes ==
    ASSUME session' \in [Slots -> Session]
    PROVE  /\ Fates' \in [Slots -> {"empty", "mounted", "trading", "halted", "broken", "closed"}]
           /\ LastBars' \in [Slots -> Nat]
           /\ SealReasons' \in [Slots -> (Reasons \ {"none"}) \cup {"none", "RISK_KILL_SWITCH"}]
<1>1. \A s \in Slots : session'[s] \in Session
  OBVIOUS
<1>2. \A s \in Slots : /\ Fates'[s] \in {"empty", "mounted", "trading", "halted", "broken", "closed"}
                       /\ LastBars'[s] \in Nat /\ SealReasons'[s] \in Reasons
  BY <1>1, Mapped, FateOfFacts DEF Session
<1> QED  BY <1>2 DEF Fates, LastBars, SealReasons

\* start(), also when a runner's own start() raises.
LEMMA BeginStep ==
    ASSUME MInv, [Next]_vars, Start \/ StartRaises
    PROVE  Ideal!Begin
<1>0. PhaseIs /\ PhaseIs' /\ session \in [Slots -> Session]
  BY PhaseFactsNext DEF MInv, IInv, TypeOK, Session
<1>1. \A s \in Slots : (Fates[s] = "mounted") <=> (session[s].phase = "built")
  BY <1>0, Mapped, FateOfFacts
<1>2. PICK begun \in SUBSET Mounted :
         /\ status'  = [s \in Slots |-> IF s \in begun THEN "RUNNING" ELSE status[s]]
         /\ session' = [s \in Slots |-> IF s \in begun THEN Started ELSE session[s]]
         /\ begun = Mounted \/ pc' = "aborted"
  <2>1. CASE Start
    BY <2>1 DEF Start
  <2>2. CASE StartRaises
    BY <2>2 DEF StartRaises
  <2> QED  BY <2>1, <2>2
<1>3. Mounted = {s \in Slots : Fates[s] = "mounted"}
  BY <1>1 DEF Mounted
<1>4. \A s \in Slots : FateOf(session'[s], status'[s]) =
                          (IF s \in begun THEN "trading" ELSE FateOf(session[s], status[s]))
  <2>1. FateOf(Started, "RUNNING") = "trading"
    BY NewSessions, FateOfFacts
  <2> QED  BY <1>2, <2>1
<1>5. Fates' = [s \in Slots |-> IF s \in begun THEN "trading" ELSE Fates[s]]
  BY <1>4, Mapped DEF Fates
<1>6. \A s \in Slots : session'[s].last = session[s].last /\ session'[s].reason = session[s].reason
  BY <1>2, NewSessions DEF Mounted, MInv, IInv, Fresh, Unnamed
<1>7. LastBars' = LastBars /\ SealReasons' = SealReasons /\ lastBar' = lastBar
  BY <1>6 DEF LastBars, SealReasons, Start, StartRaises
<1>8. Phase = "before" /\ Phase' = (IF pc' = "aborted" THEN "stopping" ELSE "running")
  BY <1>0 DEF PhaseIs, Start, StartRaises, Live
<1>9. Phase' = "running" => \A s \in Slots : Fates[s] = "mounted" => s \in begun
  BY <1>2, <1>3, <1>8
<1>10. \E started \in SUBSET {s \in Slots : Fates[s] = "mounted"} :
          /\ Fates' = [s \in Slots |-> IF s \in started THEN "trading" ELSE Fates[s]]
          /\ Phase' \in {"running", "stopping"}
          /\ Phase' = "running" => \A s \in Slots : Fates[s] = "mounted" => s \in started
  BY <1>3, <1>5, <1>8, <1>9
<1> QED  BY <1>7, <1>8, <1>10 DEF Ideal!Begin

\* halt(), that counts: it is the first.
LEMMA CloseStep ==
    ASSUME MInv, [Next]_vars, Halt
    PROVE  Ideal!Close
<1>0. /\ MInv' /\ PhaseIs /\ PhaseIs' /\ session \in [Slots -> Session] /\ cause \in Reasons
      /\ session' \in [Slots -> Session]
  BY MInvNext, PhaseFactsNext DEF MInv, IInv, TypeOK, Session
<1>1. Phase = "stopping" /\ Phase' = "over"
  BY <1>0 DEF PhaseIs, Halt
<1>2. cause \in Reasons \ {"none"}
  BY <1>0 DEF Halt, MInv, Aimed
<1>3. \A s \in Slots : RiskHalted(s) <=> session[s].kill
  BY DEF RiskHalted, MInv, IInv, KillIsKnown
<1>4. PICK broken \in SUBSET ToSeal :
          session' = [s \in Slots |-> CASE s \in broken          -> Unsealed(s)
                                        [] s \in ToSeal \ broken -> SealedAs(s)
                                        [] OTHER                 -> session[s]]
  BY DEF Halt
<1>5. ASSUME NEW s \in Slots
      PROVE  /\ session'[s].last = session[s].last
             /\ IF Fates[s] \in {"trading", "halted", "broken"}
                THEN /\ Fates'[s] = "closed"
                     /\ SealReasons'[s] \in {"none", IF Fates[s] = "halted" THEN "RISK_KILL_SWITCH"
                                                                            ELSE cause}
                ELSE Fates'[s] = Fates[s] /\ SealReasons'[s] = SealReasons[s]
  <2>1. /\ Fates[s] \in {"trading", "halted", "broken"} <=> session[s].phase = "started"
        /\ Fates[s] = "halted" <=> session[s].phase = "started" /\ session[s].kill
        /\ session'[s].phase \in {"sealed", "unsealed"} => Fates'[s] = "closed"
    BY <1>0, Mapped, FateOfFacts
  <2>2. CASE s \in broken
    <3>1. session'[s] = Unsealed(s) /\ session[s].phase = "started" /\ session[s].reason = "none"
      BY <1>4, <2>2 DEF ToSeal, MInv, Unnamed
    <3>2. session'[s].reason = "none"
      BY <1>0, <3>1 DEF Unsealed, Session
    <3> QED  BY <1>0, <2>1, <3>1, <3>2, SealedFacts, Mapped
  <2>3. CASE s \in ToSeal \ broken
    <3>1. session'[s] = SealedAs(s) /\ session[s].phase = "started"
      BY <1>4, <2>3 DEF ToSeal
    <3>2. session'[s].reason = (IF session[s].kill THEN "RISK_KILL_SWITCH" ELSE cause)
      BY <1>0, <1>3, <3>1, SealedFacts DEF SlotReason
    <3> QED  BY <1>0, <2>1, <3>1, <3>2, SealedFacts, Mapped
  <2>4. CASE s \notin ToSeal
    <3>1. session'[s] = session[s] /\ session[s].phase # "started" /\ status'[s] = status[s]
      BY <1>4, <2>4 DEF ToSeal, Halt, MInv, IInv, TypeOK
    <3> QED  BY <2>1, <3>1, Mapped
  <2> QED  BY <2>2, <2>3, <2>4
<1>6. LastBars' = LastBars /\ lastBar' = lastBar
  BY <1>5 DEF LastBars, Halt
<1>7. Ideal!Typed
  BY <1>0, MappedTypes DEF Ideal!Typed
<1> QED  BY <1>1, <1>2, <1>5, <1>6, <1>7 DEF Ideal!Close

\* A failing join ends the tournament with the candidates before it mounted.
LEMMA JoinStep ==
    ASSUME MInv, [Next]_vars, pc \in {"poll", "deliver"}, pc' \in {"halt", "finally"}, JoinRaises
    PROVE  Ideal!Stop
<1>0. PhaseIs /\ PhaseIs' /\ session \in [Slots -> Session] /\ pc \in Live
  BY PhaseFactsNext DEF MInv, IInv, TypeOK, Session, Live
<1>1. /\ lastBar' = lastBar /\ overall' = overall /\ overall # "HALTED"
      /\ \A s \in Slots : \/ session'[s] = session[s] /\ status'[s] = status[s]
                          \/ /\ session[s].phase = "none" /\ session[s].last = 0
                             /\ session'[s] = Started /\ status'[s] = "RUNNING"
  BY <1>0, JoinRaisesFacts DEF MInv, JoinRaises, IInv, Ended
<1>2. Phase = "running" /\ Phase' = "stopping"
  BY <1>0, <1>1 DEF PhaseIs
<1> DEFINE joined == {s \in Slots : session[s].phase = "none" /\ session'[s] # session[s]}
<1>3. \A s \in Slots : (Fates[s] = "empty") <=> (session[s].phase = "none")
  BY <1>0, Mapped, FateOfFacts
<1>4. \A s \in Slots : FateOf(session'[s], status'[s]) =
                          (IF s \in joined THEN "trading" ELSE FateOf(session[s], status[s]))
  <2>1. FateOf(Started, "RUNNING") = "trading" /\ Started.phase = "started"
    BY NewSessions, FateOfFacts
  <2> QED  BY <1>1, <2>1
<1>5. Fates' = [s \in Slots |-> IF s \in joined THEN "trading" ELSE Fates[s]]
  BY <1>4, Mapped DEF Fates
<1>6. \A s \in Slots : session'[s].last = session[s].last /\ session'[s].reason = session[s].reason
  BY <1>1, NewSessions DEF MInv, Unnamed
<1>7. LastBars' = LastBars /\ SealReasons' = SealReasons
  BY <1>6 DEF LastBars, SealReasons
<1>8. joined \in SUBSET {s \in Slots : Fates[s] = "empty"}
  BY <1>3
<1> HIDE DEF joined
<1> QED  BY <1>1, <1>2, <1>5, <1>7, <1>8 DEF Ideal!Stop

\* process_bar() gives the next bar to every slot that trades.
LEMMA RoundStep ==
    ASSUME MInv, [Next]_vars, pc \in {"poll", "deliver"}, pc' \in {"loop", "halt", "finally"},
           NEW b \in Nat \ {0}, lastBar # 0 => b = lastBar + 1, Deliver(b)
    PROVE  Ideal!Round
<1>0. /\ PhaseIs /\ PhaseIs' /\ session \in [Slots -> Session] /\ session' \in [Slots -> Session]
      /\ lastBar' = b /\ overall' = overall /\ overall # "HALTED"
  BY MInvNext, PhaseFactsNext DEF MInv, IInv, Ended, TypeOK, Session, Deliver
<1>1. Phase = "running" /\ Phase' \in {"running", "stopping"}
  BY <1>0 DEF PhaseIs, Live
<1> DEFINE joined == {s \in Slots : session[s].phase = "none" /\ session'[s].phase = "started"}
<1>2. ASSUME NEW s \in Slots
      PROVE  /\ SealReasons'[s] = SealReasons[s]
             /\ IF Fates[s] = "trading" \/ s \in joined
                THEN Ideal!Given(s)
                ELSE Fates'[s] = Fates[s] /\ LastBars'[s] = LastBars[s]
  <2>1. /\ Fates[s] = "trading" <=>
                session[s].phase = "started" /\ ~session[s].kill /\ status[s] # "ERROR"
        /\ LastBars[s] = session[s].last /\ LastBars'[s] = session'[s].last
        /\ SealReasons[s] = session[s].reason /\ SealReasons'[s] = session'[s].reason
    BY <1>0, Mapped, FateOfFacts
  <2>2. CASE session'[s] = session[s] /\ status'[s] = status[s] /\ status[s] # "RUNNING"
    <3>1. Fates[s] # "trading"
      BY <2>1, <2>2 DEF MInv, IInv, Told, Steady, KillIsKnown
    <3>2. s \notin joined
      BY <2>2
    <3> QED  BY <2>1, <2>2, <3>1, <3>2, Mapped
  <2>3. ASSUME session'[s].phase = "started", session[s].phase \in {"none", "started"},
               ~session[s].kill,
               session'[s].last \in {session[s].last, b},
               status'[s] \in {"RUNNING", "RISK_HALTED", "ERROR"},
               status'[s] = "RUNNING" => session'[s].last = b /\ ~session'[s].kill,
               status'[s] = "RISK_HALTED" => session'[s].kill,
               session[s].phase = "started" => status[s] = "RUNNING",
               session'[s].kill => session'[s].last = b,
               session'[s].reason = (IF session[s].phase = "none" THEN "none"
                                                                  ELSE session[s].reason)
        PROVE  /\ SealReasons'[s] = SealReasons[s]
               /\ Fates[s] = "trading" \/ s \in joined
               /\ Ideal!Given(s)
    <3>1. SealReasons'[s] = SealReasons[s]
      BY <2>1, <2>3 DEF MInv, Unnamed
    <3>2. Fates[s] = "trading" \/ s \in joined
      BY <2>1, <2>3
    <3>3. Fates'[s] = (IF session'[s].kill THEN "halted"
                       ELSE IF status'[s] = "ERROR" THEN "broken" ELSE "trading")
      BY <2>3, Mapped DEF FateOf
    <3>4. \/ Fates'[s] \in {"trading", "halted", "broken"} /\ LastBars'[s] = b
          \/ Fates'[s] = "broken" /\ LastBars'[s] = LastBars[s]
      BY <2>1, <2>3, <3>3
    <3> QED  BY <1>0, <3>1, <3>2, <3>4 DEF Ideal!Given
  <2>4. \/ session'[s] = session[s] /\ status'[s] = status[s] /\ status[s] # "RUNNING"
        \/ /\ session'[s].phase = "started" /\ session[s].phase \in {"none", "started"}
           /\ ~session[s].kill
           /\ session'[s].last \in {session[s].last, b}
           /\ status'[s] \in {"RUNNING", "RISK_HALTED", "ERROR"}
           /\ status'[s] = "RUNNING" => session'[s].last = b /\ ~session'[s].kill
           /\ status'[s] = "RISK_HALTED" => session'[s].kill
           /\ session[s].phase = "started" => status[s] = "RUNNING"
           /\ session'[s].kill => session'[s].last = b
           /\ session'[s].reason = (IF session[s].phase = "none" THEN "none"
                                                               ELSE session[s].reason)
    BY Delivered DEF MInv
  <2> HIDE DEF joined
  <2> QED  BY <2>2, <2>3, <2>4
<1>3. SealReasons' = SealReasons
  BY <1>2 DEF SealReasons
<1>4. joined \in SUBSET {s \in Slots : Fates[s] = "empty"}
  BY <1>0, Mapped, FateOfFacts
<1>5. Ideal!Typed
  BY <1>0, MappedTypes DEF Ideal!Typed
<1>6. lastBar' \in Nat \ {0} /\ (lastBar = 0 \/ lastBar' = lastBar + 1)
  BY <1>0
<1> HIDE DEF joined
<1> QED  BY <1>1, <1>2, <1>3, <1>4, <1>5, <1>6 DEF Ideal!Round

LEMMA LockstepInit == Init => Ideal!LInit
<1> SUFFICES ASSUME Init PROVE Ideal!LInit
  OBVIOUS
<1>1. \A s \in Slots : session[s] \in {Built, NoRunner}
  BY DEF Init
<1>2. \A s \in Slots : /\ FateOf(session[s], status[s]) \in {"empty", "mounted"}
                       /\ session[s].last = 0 /\ session[s].reason = "none"
  BY <1>1, NewSessions DEF FateOf
<1>3. /\ Fates \in [Slots -> {"empty", "mounted"}]
      /\ LastBars = [s \in Slots |-> 0] /\ SealReasons = [s \in Slots |-> "none"]
  BY <1>2, Mapped DEF Fates, LastBars, SealReasons
<1>4. Phase = "before" /\ lastBar = 0
  BY DEF Init, Phase
<1> QED  BY <1>3, <1>4 DEF Ideal!LInit

LEMMA LockstepNext == MInv /\ [Next]_vars => [Ideal!LNext]_(Ideal!lvars)
<1> SUFFICES ASSUME MInv, [Next]_vars PROVE Ideal!LNext \/ UNCHANGED Ideal!lvars
  OBVIOUS
<1>1. CASE Quiet \/ (\E c \in Slots : Stage(c)) \/ Enter \/ Exit \/ UNCHANGED vars
  BY <1>1, StayStep DEF Ideal!LNext
<1>2. CASE Start \/ StartRaises
  BY <1>2, BeginStep DEF Ideal!LNext
<1>3. CASE Halt
  BY <1>3, CloseStep DEF Ideal!LNext
<1>4. CASE TakeBar
  <2>0. pc = "poll" /\ Unseen # {} /\ TRUE \in Freshness(NextBar) /\ TypeOK /\ admitted = lastBar
    BY <1>4 DEF TakeBar, MInv, IInv, Cursor
  <2>1. pc = "poll" /\ NextBar \in Nat \ {0} /\ (lastBar # 0 => NextBar = lastBar + 1)
    <3>1. NextBar \in Nat /\ NextBar > admitted /\ (admitted # 0 => NextBar = admitted + 1)
      BY <2>0, NextBarFacts
    <3>2. admitted \in Nat
      BY <2>0 DEF TypeOK
    <3> HIDE DEF NextBar
    <3> QED  BY <2>0, <3>1, <3>2
  <2>2. CASE Deliver(NextBar) /\ pc' \in {"loop", "halt"}
    BY <2>1, <2>2, RoundStep DEF Ideal!LNext
  <2>3. CASE JoinRaises /\ pc' = "halt"
    BY <2>1, <2>3, JoinStep DEF Ideal!LNext
  <2> QED  BY <1>4, <2>2, <2>3 DEF TakeBar, LeaveFor
<1>5. CASE Redeliver
  <2>1. pc = "deliver" /\ resumed \in Nat \ {0} /\ (lastBar # 0 => resumed = lastBar + 1)
    BY <1>5 DEF Redeliver, MInv, IInv, TypeOK, Cursor, Continuous, Aimed
  <2>2. CASE Deliver(resumed) /\ pc' \in {"loop", "finally"}
    BY <2>1, <2>2, RoundStep DEF Ideal!LNext
  <2>3. CASE JoinRaises /\ pc' = "finally"
    BY <2>1, <2>3, JoinStep DEF Ideal!LNext
  <2> QED  BY <1>5, <2>2, <2>3 DEF Redeliver, Exits
<1> QED  BY <1>1, <1>2, <1>3, <1>4, <1>5 DEF Next, Program, Quiet

\* The tournament is, to its slots, one whose feed never fails: polls, stale
\* candles, recovery and signals show in nothing but the bars that come next and
\* an end that closes every session at once.
THEOREM LockstepKept == Spec => ImplementsLockstep
<1>1. Spec => []MInv
  BY MInvariance
<1> QED  BY <1>1, LockstepInit, LockstepNext, PTL DEF Spec, ImplementsLockstep, Ideal!LSpec

-----------------------------------------------------------------------------
(***************************************************************************)
(* What the end of an episode rests on: each of its steps makes one more   *)
(* attempt, or gets further through the code, or polls once more, and the  *)
(* counts are bounded (TournamentTypes).  The clock and a signal do not    *)
(* set it back.                                                            *)
(***************************************************************************)
Within ==
    recovering => /\ pc \in {"attempt", "wait", "giveup", "resume", "finally", "halt"}
                  /\ overall # "HALTED"

Rank(p) ==
    CASE p = "attempt" -> 0 [] p = "wait" -> 1 [] p \in {"giveup", "resume"} -> 2
      [] p = "finally" -> 3 [] OTHER -> 4

Onward ==
    \/ attempts' > attempts
    \/ attempts' = attempts /\ Rank(pc') > Rank(pc)
    \/ attempts' = attempts /\ pc = "wait" /\ pc' = "wait" /\ waits' > waits

LEMMA WithinNext == IInv /\ Within /\ [Next]_vars => Within'
<1> SUFFICES ASSUME IInv, Within, [Next]_vars PROVE Within'
  OBVIOUS
<1>1. CASE \/ Connect \/ Start \/ StartRaises \/ Loop \/ RefuseStale \/ PollNothing \/ PollOutlasts
           \/ PollRaises \/ LostForGood \/ TakeBar \/ Redeliver \/ (\E s \in Slots : Stage(s))
  <2>1. ~recovering /\ recovering' = recovering
    BY <1>1 DEF Connect, Start, StartRaises, Loop, RefuseStale, PollNothing, PollOutlasts, PollRaises,
                LostForGood, Lost, TakeBar, Redeliver, Stage, Deliver, JoinRaises, StaysPut, sup,
                Within
  <2> QED  BY <2>1 DEF Within
<1>2. CASE Halt
  BY <1>2 DEF Halt, Within
<1>3. CASE Enter
  <2>1. pc' \in {"attempt", "finally"} /\ overall' = overall /\ overall # "HALTED"
    BY <1>3 DEF Enter, Exits, Lost, IInv, Ended
  <2> QED  BY <2>1 DEF Within
<1>4. CASE Abort \/ Reconnect \/ WaitFails \/ WaitOn \/ Reappears \/ EpisodeRaises \/ GiveUp
  <2>1. /\ pc' \in {"attempt", "wait", "giveup", "resume", "finally", "halt"}
        /\ overall' = overall /\ overall # "HALTED"
    BY <1>4 DEF Abort, Reconnect, WaitFails, WaitOn, Reappears, EpisodeRaises, GiveUp, AttemptFails,
                LeaveFor, Exits, Recovers, sup, IInv, Ended
  <2> QED  BY <2>1 DEF Within
<1>5. CASE Exit
  BY <1>5 DEF Exit, Within
<1>6. CASE Finally
  <2>1. /\ overall' = overall /\ recovering' = recovering
        /\ overall # "HALTED" => pc' = "halt"
    BY <1>6 DEF Finally, LeaveFor, Exits, StaysPut
  <2> QED  BY <2>1 DEF Within
<1>7. CASE Signal \/ Tick \/ UNCHANGED vars
  BY <1>7 DEF Signal, Tick, vars, sup, Within
<1> QED  BY <1>1, <1>2, <1>3, <1>4, <1>5, <1>6, <1>7 DEF Next, Program

LEMMA EpisodeOnward ==
    ASSUME IInv, Within, Program, recovering, recovering'
    PROVE  Onward
<1>0. /\ attempts \in Nat /\ waits \in Nat
      /\ pc \in {"attempt", "wait", "giveup", "resume", "finally", "halt"} /\ overall # "HALTED"
  BY TournamentAssumption DEF IInv, TypeOK, Within
<1>1. \/ Abort \/ Reconnect \/ WaitFails \/ WaitOn \/ Reappears \/ EpisodeRaises \/ GiveUp
      \/ Finally
  BY <1>0 DEF Program, Connect, Start, StartRaises, Halt, Loop, Stage, TakeBar, RefuseStale,
              PollNothing, PollOutlasts, PollRaises, Lost, LostForGood, Enter, Exit, Redeliver
<1>2. CASE Reconnect \/ WaitFails
  BY <1>0, <1>2 DEF Reconnect, WaitFails, AttemptFails, Onward, Rank
<1>3. CASE WaitOn
  BY <1>0, <1>3 DEF WaitOn, Onward
<1>4. CASE Abort \/ Reappears \/ EpisodeRaises \/ GiveUp \/ Finally
  <2>1. attempts' = attempts
    BY <1>4 DEF Abort, Reappears, EpisodeRaises, GiveUp, Finally, StaysPut, episode
  <2>2. \/ pc \in {"attempt", "wait"} /\ pc' = "finally"
        \/ pc = "wait" /\ pc' \in {"resume", "giveup"}
        \/ pc = "giveup" /\ pc' \in {"halt", "finally"}
        \/ pc = "finally" /\ pc' = "halt"
    BY <1>0, <1>4 DEF Abort, Reappears, EpisodeRaises, GiveUp, Finally, LeaveFor, Exits
  <2> QED  BY <2>1, <2>2 DEF Onward, Rank
<1> QED  BY <1>1, <1>2, <1>3, <1>4

\* No recovery episode goes round for ever: the time limits and the number of
\* attempts hold whatever the feed does.
THEOREM EpisodesRunOut ==
    Spec => [][recovering => IF Signal \/ Tick THEN UNCHANGED <<pc, attempts, waits, recovering>>
                             ELSE ~recovering' \/ Onward]_vars
<1>1. Init => Within
  BY DEF Init, Within
<1>2. Spec => []Within
  BY <1>1, TournamentInvariance, WithinNext, PTL DEF Spec
<1>3. IInv /\ Within /\ [Next]_vars =>
         [recovering => IF Signal \/ Tick THEN UNCHANGED <<pc, attempts, waits, recovering>>
                        ELSE ~recovering' \/ Onward]_vars
  <2>1. Signal \/ Tick => UNCHANGED <<pc, attempts, waits, recovering>>
    BY DEF Signal, Tick, sup, episode
  <2> QED  BY <2>1, EpisodeOnward DEF Next
<1> QED  BY <1>2, <1>3, TournamentInvariance, PTL DEF Spec

=============================================================================
