------------------------ MODULE PaperSession_proofs ------------------------
(***************************************************************************)
(* Theorems about PaperSession for any set of bars, any limits and any     *)
(* number of processes and failing appends.                                *)
(*                                                                         *)
(* Every property relates two lines of the journal, and the second of them *)
(* is written by a process that remembers of the first what its memory     *)
(* holds.  The invariant says what that is: which bars, which position and *)
(* which kill switch the memory of a begun session has, as long as no      *)
(* append has failed, and that a file which verifies was not left behind   *)
(* by a failure.                                                           *)
(*                                                                         *)
(* Books ties portfolio lines, memory and manifest to the sum of the fills, *)
(* for a journal in which every fill is followed by its portfolio line; it *)
(* is what is left of PassMeansFillsCounted.                               *)
(***************************************************************************)
EXTENDS PaperSession, SequenceTheorems, Sums

Deciding == {"bar", "signal", "risk", "intent", "fill", "portfolio", "kill"}
\* The session is started or recovered and no append of the process has failed.
Live  == {"recover", "idle", "feed", "refuse"} \cup Deciding
Begun == Live \cup {"made", "start"}

\* A later session started over the journal.
Superseded(i) == \E k \in Of(file, "SESSION_STARTED") : i < k

\* Until an append fails, the file verifies and the journal knows its length.
Chained == pc \in Begun => Verified(file) /\ sequence = Len(file)

Blank == pc \in {"off", "made", "start"} => position = 0 /\ ~kill /\ seen = {}

\* Memory has every bar of the session; the one it is about to write is new.
BarsSeen ==
    /\ pc \in Live => \A i \in Of(file, "MARKET_BAR_RECEIVED") : Superseded(i) \/ file[i].id \in seen
    /\ pc = "bar" => /\ ctx.bar \in seen
                     /\ \A i \in Of(file, "MARKET_BAR_RECEIVED") : file[i].id = ctx.bar => Superseded(i)

\* A kill switch in the journal of the session is active, and nothing is decided.
Halted ==
    /\ pc \in Live => \A i \in Of(file, "KILL_SWITCH_TRIGGERED") :
                          Superseded(i) \/ (kill /\ pc \in {"recover", "idle", "feed"})
    /\ pc \in {"refuse", "bar", "signal", "risk"} => ~kill
    /\ pc = "kill" => kill

\* An approved order keeps the position within its limit, and so does every
\* position in the journal, which has a last one.
Bounded ==
    /\ pc \in {"intent", "fill"} => position + ctx.dir \in Positions
    /\ \A i \in Of(file, "PORTFOLIO_UPDATED") : file[i].val \in Positions
    /\ \A i \in Of(file, "MARKET_BAR_RECEIVED") : file[i].id \in Bars
    /\ \/ Of(file, "PORTFOLIO_UPDATED") = {}
       \/ \E i \in Of(file, "PORTFOLIO_UPDATED") : \A j \in Of(file, "PORTFOLIO_UPDATED") : j <= i

\* What recovery would rebuild, at every point of a call.
Mirrored ==
    pc \in Live /\ (\A i \in Of(file, "SESSION_STARTED") : i = 1) =>
        /\ pc # "portfolio" => position = RestoredPosition(file)
        /\ RestoredKill(file) <=> kill /\ pc \in {"recover", "idle", "feed"}
        /\ seen = RestoredSeen(file) \cup (IF pc = "bar" THEN {ctx.bar} ELSE {})

-----------------------------------------------------------------------------
\* The lines of a file that a line was appended to.
LEMMA AppendLines ==
    ASSUME NEW f \in Seq(Entries), NEW e \in Entries
    PROVE  /\ Append(f, e) \in Seq(Entries)
           /\ Len(Append(f, e)) = Len(f) + 1
           /\ Lines(Append(f, e)) = Lines(f) \cup {Len(f) + 1}
           /\ Len(f) + 1 \notin Lines(f)
           /\ Append(f, e)[Len(f) + 1] = e
BY DEF Lines

LEMMA AppendKeeps ==
    ASSUME NEW f \in Seq(Entries), NEW e \in Entries, NEW i \in Lines(f)
    PROVE  i \in Nat /\ i < Len(f) + 1 /\ Append(f, e)[i] = f[i]
BY DEF Lines

\* The lines of one kind in a file that a line was appended to.
LEMMA OfAppend ==
    ASSUME NEW f \in Seq(Entries), NEW e \in Entries, NEW k
    PROVE  Of(Append(f, e), k) = Of(f, k) \cup (IF e.kind = k THEN {Len(f) + 1} ELSE {})
<1>1. Lines(Append(f, e)) = Lines(f) \cup {Len(f) + 1} /\ Append(f, e)[Len(f) + 1] = e
  BY AppendLines
<1>2. ASSUME NEW i \in Lines(f) PROVE Append(f, e)[i] = f[i]
  BY AppendKeeps
<1> QED BY <1>1, <1>2 DEF Of

\* A write adds one line, or is lost in a broken one.
LEMMA WrittenCases ==
    ASSUME NEW f, NEW e
    PROVE  Written(f, e) = f \/ Written(f, e) = Append(f, e)
BY DEF Written

\* A write to a file that verifies adds its line.
LEMMA WrittenVerified ==
    ASSUME NEW f \in Seq(Entries), NEW e \in Entries, Verified(f)
    PROVE  Written(f, e) = Append(f, e)
<1>1. CASE f = <<>>
  BY <1>1 DEF Written
<1>2. CASE f # <<>>
  <2>1. Len(f) \in Lines(f)
    BY <1>2, EmptySeq DEF Lines
  <2> QED BY <2>1 DEF Written, Verified, Intact
<1> QED BY <1>1, <1>2

\* A file that verifies verifies with the next line.
LEMMA AppendVerified ==
    ASSUME NEW f \in Seq(Entries), NEW e \in Entries, Verified(f),
           e.text = "whole", e.seq = Len(f) + 1
    PROVE  Verified(Append(f, e))
<1> SUFFICES ASSUME NEW i \in Lines(Append(f, e)) PROVE Intact(Append(f, e), i)
  BY DEF Verified
<1>1. CASE i = Len(f) + 1
  BY <1>1, AppendLines DEF Intact
<1>2. CASE i \in Lines(f)
  <2>1. Append(f, e)[i] = f[i]
    BY <1>2, AppendKeeps
  <2> QED BY <1>2, <2>1 DEF Intact, Verified
<1> QED BY <1>1, <1>2, AppendLines

\* The line of each step.
LEMMA DueType ==
    ASSUME TypeOK, pc \in Appending
    PROVE  /\ Due \in Entries /\ Due.text = "whole" /\ Due.seq = sequence + 1
           /\ [Due EXCEPT !.text = "torn"] \in Entries
           /\ [Due EXCEPT !.text = "torn"].kind = Due.kind
           /\ [Due EXCEPT !.text = "torn"].id = Due.id
           /\ [Due EXCEPT !.text = "torn"].val = Due.val
           /\ Due.kind = "SESSION_STARTED" <=> pc = "start"
           /\ Due.kind = "MARKET_BAR_RECEIVED" <=> pc = "bar"
           /\ Due.kind = "ORDER_INTENT_CREATED" <=> pc = "intent"
           /\ Due.kind = "FILL_SIMULATED" <=> pc = "fill"
           /\ Due.kind = "PORTFOLIO_UPDATED" <=> pc = "portfolio"
           /\ Due.kind = "KILL_SWITCH_TRIGGERED" <=> pc = "kill"
           /\ pc = "bar" => Due.id = ctx.bar
           /\ pc = "portfolio" => Due.val = position
           /\ pc = "fill" => Due.val = ctx.dir
<1> USE PaperAssumption
<1>1. sequence + 1 \in Nat /\ position \in Int
  BY DEF TypeOK, Positions
<1>2. /\ ctx.bar \in Bars \cup {None} /\ ctx.dir \in Int /\ ctx.order \in Nat \cup {None}
  BY DEF TypeOK
<1>3. Due \in Entries
  BY <1>1, <1>2 DEF Due, Entry, Entries, Kinds
<1>4. Due.text = "whole" /\ Due.seq = sequence + 1
  BY DEF Due, Entry
<1>5. LET t == [Due EXCEPT !.text = "torn"]
      IN  t \in Entries /\ t.kind = Due.kind /\ t.id = Due.id /\ t.val = Due.val
  BY <1>3 DEF Entries
<1>6. /\ Due.kind = "SESSION_STARTED" <=> pc = "start"
      /\ Due.kind = "MARKET_BAR_RECEIVED" <=> pc = "bar"
      /\ Due.kind = "ORDER_INTENT_CREATED" <=> pc = "intent"
      /\ Due.kind = "FILL_SIMULATED" <=> pc = "fill"
      /\ Due.kind = "PORTFOLIO_UPDATED" <=> pc = "portfolio"
      /\ Due.kind = "KILL_SWITCH_TRIGGERED" <=> pc = "kill"
  BY DEF Due, Entry
<1>7. /\ pc = "bar" => Due.id = ctx.bar
      /\ pc = "portfolio" => Due.val = position
      /\ pc = "fill" => Due.val = ctx.dir
  BY DEF Due, Entry
<1> QED BY <1>3, <1>4, <1>5, <1>6, <1>7

-----------------------------------------------------------------------------
\* The step adds line e to the file.
Adds(e) ==
    /\ \A k : Of(file', k) = Of(file, k) \cup (IF e.kind = k THEN {Len(file) + 1} ELSE {})
    /\ \A i \in Lines(file) : i \in Nat /\ i < Len(file) + 1 /\ file'[i] = file[i]
    /\ Lines(file') = Lines(file) \cup {Len(file) + 1}
    /\ file'[Len(file) + 1] = e

LEMMA AppendAdds ==
    ASSUME TypeOK, NEW e \in Entries, file' = Append(file, e)
    PROVE  Adds(e)
<1>1. file \in Seq(Entries)
  BY DEF TypeOK
<1>2. \A k : Of(file', k) = Of(file, k) \cup (IF e.kind = k THEN {Len(file) + 1} ELSE {})
  BY <1>1, OfAppend
<1>3. ASSUME NEW i \in Lines(file)
      PROVE  i \in Nat /\ i < Len(file) + 1 /\ file'[i] = file[i]
  BY <1>1, AppendKeeps
<1>4. Lines(file') = Lines(file) \cup {Len(file) + 1} /\ file'[Len(file) + 1] = e
  BY <1>1, AppendLines
<1> QED BY <1>2, <1>3, <1>4 DEF Adds

\* The event of the tournament.
NoteLine == Entry("NOTE", None, 0)

LEMMA NoteType == TypeOK => NoteLine \in Entries /\ NoteLine.kind = "NOTE"
                            /\ NoteLine.text = "whole" /\ NoteLine.seq = sequence + 1
BY DEF TypeOK, NoteLine, Entry, Entries, Kinds

\* What a step may add to the file: the line of the call, whole or torn, or a note.
LEMMA FileSteps ==
    ASSUME TypeOK, [Next]_vars
    PROVE  \/ file' = file
           \/ \E e \in Entries :
                 /\ Adds(e)
                 /\ file' = Append(file, e)
                 /\ \/ e.kind = "NOTE" /\ pc \in {"idle", "failed"}
                    \/ /\ pc \in Appending
                       /\ e.kind = Due.kind /\ e.id = Due.id /\ e.val = Due.val
<1> DEFINE torn == [Due EXCEPT !.text = "torn"]
<1>1. CASE file' = file
  BY <1>1
<1>2. CASE pc \in Appending /\ file' = Written(file, Due)
  BY <1>2, DueType, WrittenCases, AppendAdds
<1>3. CASE pc \in Appending /\ file' = Written(file, torn)
  <2>1. torn \in Entries /\ torn.kind = Due.kind /\ torn.id = Due.id /\ torn.val = Due.val
    BY <1>3, DueType
  <2> HIDE DEF torn
  <2> QED BY <1>3, <2>1, WrittenCases, AppendAdds
<1>4. CASE file' = Written(file, NoteLine) /\ pc \in {"idle", "failed"}
  BY <1>4, NoteType, WrittenCases, AppendAdds
<1>5. \/ file' = file
      \/ pc \in Appending /\ file' \in {Written(file, Due), Written(file, torn)}
      \/ file' = Written(file, NoteLine) /\ pc \in {"idle", "failed"}
  <2>1. CASE AppendFails \/ Die
    BY <2>1 DEF AppendFails, Die, Torn
  <2>2. CASE SystemEvent
    BY <2>2 DEF SystemEvent, NoteLine
  <2>3. CASE JournalOpening \/ JournalFeed \/ JournalRefusal \/ JournalBar \/ JournalSignal
             \/ JournalRisk \/ JournalIntent \/ JournalFill \/ JournalPortfolio \/ JournalKill
             \/ JournalStop
    BY <2>3 DEF JournalOpening, JournalFeed, JournalRefusal, JournalBar, JournalSignal,
         JournalRisk, JournalIntent, JournalFill, JournalPortfolio, JournalKill, JournalStop,
         Appends, Appending
  <2>4. CASE Construct \/ Start \/ Recover \/ Connect \/ Disconnect \/ RefuseBar \/ Stop \/ Seal
             \/ SealFails \/ (\E b \in Bars : AdmitBar(b)) \/ UNCHANGED vars
    BY <2>4 DEF Construct, Start, Recover, Connect, Disconnect, RefuseBar, Stop, Seal, SealFails,
         AdmitBar, vars
  <2> QED BY <2>1, <2>2, <2>3, <2>4 DEF Next
<1> QED BY <1>1, <1>2, <1>3, <1>4, <1>5

\* The events of a begun session.
Journals ==
    \/ JournalOpening \/ JournalFeed \/ JournalRefusal \/ JournalBar \/ JournalSignal \/ JournalRisk
    \/ JournalIntent \/ JournalFill \/ JournalPortfolio \/ JournalKill

\* An event of a process that no append has failed extends a file that verifies.
LEMMA JournalAdds ==
    ASSUME TypeOK, Chained, Journals
    PROVE  /\ pc \in Appending /\ pc \in Live \cup {"start"} /\ pc' \in Live
           /\ file' = Append(file, Due) /\ Adds(Due)
           /\ Verified(file') /\ sequence' = Len(file')
<1>1. pc \in Appending /\ pc \in Live \cup {"start"} /\ pc' \in Live /\ Appends
  BY DEF Journals, JournalOpening, JournalFeed, JournalRefusal, JournalBar, JournalSignal,
     JournalRisk, JournalIntent, JournalFill, JournalPortfolio, JournalKill, Appending, Live, Deciding
<1>2. Verified(file) /\ sequence = Len(file) /\ file \in Seq(Entries)
  BY <1>1 DEF Chained, Begun, TypeOK
<1>3. Due \in Entries /\ Due.text = "whole" /\ Due.seq = Len(file) + 1
  BY <1>1, <1>2, DueType
<1>4. file' = Append(file, Due) /\ sequence' = Len(file) + 1
  BY <1>1, <1>2, <1>3, WrittenVerified DEF Appends
<1>5. Verified(Append(file, Due)) /\ Len(Append(file, Due)) = Len(file) + 1
  BY <1>2, <1>3, AppendVerified, AppendLines
<1>6. Adds(Due)
  BY <1>3, <1>4, AppendAdds
<1> QED BY <1>1, <1>4, <1>5, <1>6

\* So does an event of the tournament.
LEMMA EventAdds ==
    ASSUME TypeOK, Chained, SystemEvent, pc = "idle"
    PROVE  /\ Adds(NoteLine) /\ Verified(file') /\ sequence' = Len(file')
<1>1. Verified(file) /\ sequence = Len(file) /\ file \in Seq(Entries)
  BY DEF Chained, Begun, Live, TypeOK
<1>2. NoteLine \in Entries /\ NoteLine.text = "whole" /\ NoteLine.seq = Len(file) + 1
  BY <1>1, NoteType
<1>3. file' = Append(file, NoteLine) /\ sequence' = Len(file) + 1
  BY <1>1, <1>2, WrittenVerified DEF SystemEvent, NoteLine
<1>4. Verified(Append(file, NoteLine)) /\ Len(Append(file, NoteLine)) = Len(file) + 1
  BY <1>1, <1>2, AppendVerified, AppendLines
<1>5. Adds(NoteLine)
  BY <1>2, <1>3, AppendAdds
<1> QED BY <1>3, <1>4, <1>5

\* Steps inside a call or between calls that journal nothing.
Quiet ==
    \/ Connect \/ Disconnect \/ RefuseBar \/ (\E b \in Bars : AdmitBar(b)) \/ UNCHANGED vars

\* How a session goes on.
LEMMA LiveSteps ==
    ASSUME [Next]_vars, pc' \in Live
    PROVE  \/ Recover
           \/ Journals
           \/ pc = "idle" /\ SystemEvent
           \/ pc \in Live /\ Quiet /\ file' = file
<1>1. ~(Construct \/ Start \/ Stop \/ JournalStop \/ Seal \/ SealFails \/ AppendFails \/ Die)
  BY DEF Construct, Start, Stop, JournalStop, Seal, SealFails, AppendFails, Die, Live, Deciding
<1>2. CASE SystemEvent
  BY <1>2 DEF SystemEvent, Live, Deciding
<1>3. CASE Quiet
  BY <1>3 DEF Quiet, Connect, Disconnect, RefuseBar, AdmitBar, Polls, Live, Deciding, vars
<1> QED BY <1>1, <1>2, <1>3 DEF Next, Quiet, Journals

-----------------------------------------------------------------------------
\* A session that starts supersedes every line before it, and a superseded line
\* stays superseded.
LEMMA SupersededStays ==
    ASSUME NEW e, Adds(e), NEW i, Superseded(i)
    PROVE  Superseded(i)'
BY DEF Adds, Superseded

LEMMA StartSupersedes ==
    ASSUME NEW e, Adds(e), e.kind = "SESSION_STARTED", NEW i \in Lines(file)
    PROVE  Superseded(i)'
BY DEF Adds, Superseded

\* What is written behind a superseded line belongs to another session.
LEMMA SupersededApart ==
    ASSUME NEW e, Adds(e), NEW i, Superseded(i), NEW n, n = Len(file) + 1
    PROVE  NewSession(i, n)'
<1>1. PICK k \in Of(file, "SESSION_STARTED") : i < k
  BY DEF Superseded
<1>2. k \in Lines(file) /\ k \in Of(file', "SESSION_STARTED")
  BY <1>1 DEF Adds, Of
<1>3. k < n
  BY <1>2 DEF Adds
<1> QED BY <1>1, <1>2, <1>3 DEF NewSession

\* Two sessions stay two.
LEMMA ApartStays ==
    ASSUME NEW e, Adds(e), NEW i, NEW j, NewSession(i, j)
    PROVE  NewSession(i, j)'
BY DEF Adds, NewSession

\* The file verifies until an append fails.
LEMMA ChainedNext == TypeOK /\ Chained /\ [Next]_vars => Chained'
<1> SUFFICES ASSUME TypeOK, Chained, [Next]_vars, pc' \in Begun
             PROVE  Verified(file') /\ sequence' = Len(file')
  BY DEF Chained
<1>1. CASE pc' = "made"
  <2>1. Construct \/ UNCHANGED vars
    BY <1>1 DEF Next, Construct, Start, Recover, JournalOpening, Connect, Disconnect, JournalFeed,
       RefuseBar, AdmitBar, JournalRefusal, JournalBar, JournalSignal, JournalRisk, JournalIntent,
       JournalFill, JournalPortfolio, JournalKill, SystemEvent, Stop, JournalStop, Seal, SealFails,
       AppendFails, Die
  <2> QED BY <1>1, <2>1 DEF Construct, vars, Chained, Begun
<1>2. CASE pc' = "start"
  <2>1. Start \/ UNCHANGED vars
    BY <1>2 DEF Next, Construct, Start, Recover, JournalOpening, Connect, Disconnect, JournalFeed,
       RefuseBar, AdmitBar, JournalRefusal, JournalBar, JournalSignal, JournalRisk, JournalIntent,
       JournalFill, JournalPortfolio, JournalKill, SystemEvent, Stop, JournalStop, Seal, SealFails,
       AppendFails, Die
  <2> QED BY <1>2, <2>1 DEF Start, vars, Chained, Begun
<1>3. CASE pc' \in Live
  <2>1. CASE Recover
    BY <2>1 DEF Recover, Chained, Begun
  <2>2. CASE Journals
    BY <2>2, JournalAdds
  <2>3. CASE pc = "idle" /\ SystemEvent
    BY <2>3, EventAdds
  <2>4. CASE pc \in Live /\ Quiet /\ file' = file
    <3>1. sequence' = sequence
      BY <2>4 DEF Quiet, Connect, Disconnect, RefuseBar, AdmitBar, vars
    <3> QED BY <2>4, <3>1 DEF Chained, Begun
  <2> QED BY <1>3, <2>1, <2>2, <2>3, <2>4, LiveSteps
<1> QED BY <1>1, <1>2, <1>3 DEF Begun

\* The memory of a new runner is empty.
LEMMA BlankNext == Blank /\ [Next]_vars => Blank'
BY DEF Blank, Next, Construct, Start, Recover, JournalOpening, Connect, Disconnect, JournalFeed,
   RefuseBar, AdmitBar, JournalRefusal, JournalBar, JournalSignal, JournalRisk, JournalIntent,
   JournalFill, JournalPortfolio, JournalKill, SystemEvent, Stop, JournalStop, Seal, SealFails,
   AppendFails, Die, vars, memory

-----------------------------------------------------------------------------
Contexts == [bar : Bars \cup {None}, dir : Int, refused : BOOLEAN, order : Nat \cup {None},
             passed : BOOLEAN]

\* The fields a call sets.
LEMMA ContextType ==
    ASSUME NEW c \in Contexts
    PROVE  /\ \A b \in Bars : [c EXCEPT !.bar = b] \in Contexts
           /\ \A d \in Int : [c EXCEPT !.dir = d] \in Contexts
           /\ [c EXCEPT !.refused = TRUE] \in Contexts
           /\ \A o \in Nat : [c EXCEPT !.order = o] \in Contexts
           /\ \A p \in BOOLEAN : [c EXCEPT !.passed = p] \in Contexts
<1>1. \A b \in Bars : [c EXCEPT !.bar = b] \in Contexts
  BY DEF Contexts
<1>2. \A d \in Int : [c EXCEPT !.dir = d] \in Contexts
  BY DEF Contexts
<1>3. [c EXCEPT !.refused = TRUE] \in Contexts
  <2>1. \A r \in BOOLEAN : [c EXCEPT !.refused = r] \in Contexts
    BY DEF Contexts
  <2> QED BY <2>1
<1>4. \A o \in Nat : [c EXCEPT !.order = o] \in Contexts
  BY DEF Contexts
<1>5. \A p \in BOOLEAN : [c EXCEPT !.passed = p] \in Contexts
  BY DEF Contexts
<1> QED BY <1>1, <1>2, <1>3, <1>4, <1>5

\* Types, action by action.  The position recovery reads is one of the journal,
\* the bars are too, and an order that was approved keeps to the limit.
LEMMA TypeNext == TypeOK /\ Bounded /\ [Next]_vars => TypeOK'
<1> SUFFICES ASSUME TypeOK, Bounded, [Next]_vars PROVE TypeOK'
  OBVIOUS
<1> USE PaperAssumption
<1>1. file' \in Seq(Entries)
  <2>1. file \in Seq(Entries)
    BY DEF TypeOK
  <2>2. \A e \in Entries : Append(file, e) \in Seq(Entries)
    BY <2>1, AppendLines
  <2> QED BY <2>1, <2>2, FileSteps
<1>2. 0 \in Positions
  BY DEF Positions
<1>3. Len(file) \in Nat
  BY DEF TypeOK
<1> HIDE PaperAssumption
<1>4. Idle \in Contexts
  BY DEF Idle, Contexts
<1>0. ctx \in Contexts
  BY DEF TypeOK, Contexts
<1>5. ASSUME Disturbs PROVE lives' \in 0..MaxLives /\ disturbances' \in 0..MaxDisturbances
  BY <1>5, PaperAssumption DEF Disturbs, TypeOK
<1>6. CASE Construct
  BY <1>1, <1>3, <1>6, PaperAssumption DEF Construct, TypeOK, Resting, memory
<1>7. CASE Start \/ JournalOpening \/ JournalFeed \/ JournalIntent \/ JournalKill \/ JournalStop
  BY <1>1, <1>7 DEF Start, JournalOpening, JournalFeed, JournalIntent, JournalKill, JournalStop, Appends,
     TypeOK, Appending, Resting, memory, counts
<1>8. CASE Recover
  <2>1. RestoredPosition(file) \in Positions
    <3> DEFINE updates == Of(file, "PORTFOLIO_UPDATED")
    <3>1. CASE updates = {}
      BY <1>2, <3>1 DEF RestoredPosition
    <3>2. CASE updates # {}
      <4>1. \E i \in updates : \A j \in updates : j <= i
        BY <3>2 DEF Bounded
      <4>2. Newest(updates) \in updates
        BY <4>1 DEF Newest
      <4> QED BY <3>2, <4>2 DEF RestoredPosition, Bounded
    <3> QED BY <3>1, <3>2
  <2>2. RestoredSeen(file) \subseteq Bars /\ RestoredKill(file) \in BOOLEAN
    BY DEF Bounded, RestoredSeen, RestoredKill
  <2> QED BY <1>1, <1>8, <2>1, <2>2 DEF Recover, TypeOK, Appending, counts
<1>9. CASE Connect \/ Disconnect \/ RefuseBar
  BY <1>1, <1>5, <1>9 DEF Connect, Disconnect, RefuseBar, TypeOK, Appending, memory, counts
<1>10. CASE \E b \in Bars : AdmitBar(b)
  <2> PICK b \in Bars : AdmitBar(b)
    BY <1>10
  <2>1. ctx' \in Contexts
    BY <1>4, ContextType DEF AdmitBar
  <2> QED BY <1>1, <2>1 DEF Contexts, AdmitBar, TypeOK, Appending, counts
<1>11. CASE JournalRefusal \/ JournalSignal \/ JournalPortfolio
  BY <1>1, <1>4, <1>11 DEF Contexts, JournalRefusal, JournalSignal, JournalPortfolio, Appends, TypeOK, Appending,
     Resting, memory, counts
<1>12. CASE JournalBar
  <2>1. \A d \in {0} \cup Quantities \cup {-q : q \in Quantities} : d \in Int
    BY PaperAssumption
  <2>2. ctx' \in Contexts
    <3>1. Refusable \in Contexts
      BY <1>0, ContextType DEF Refusable
    <3>2. \A d \in Int : [Refusable EXCEPT !.dir = d] \in Contexts /\ [ctx EXCEPT !.dir = d] \in Contexts
      BY <1>0, <3>1, ContextType
    <3>3. \/ \E d \in {0} \cup Quantities \cup {-q : q \in Quantities} : ctx' = [ctx EXCEPT !.dir = d]
          \/ ctx' = [Refusable EXCEPT !.dir = 1]
      BY <1>12 DEF JournalBar
    <3>4. 1 \in Int
      OBVIOUS
    <3> QED BY <2>1, <3>2, <3>3, <3>4, Zenon
  <2> QED BY <1>1, <1>12, <2>2 DEF Contexts, JournalBar, Appends, TypeOK, Appending, memory, counts
<1>13. CASE JournalRisk
  <2>1. -position \in Int
    BY PaperAssumption DEF TypeOK, Positions
  <2>2. ctx' \in Contexts
    <3>0. Len(file) + 2 \in Nat
      BY <1>3
    <3>1. Opening \in Contexts
      BY <1>0, <3>0, ContextType DEF Opening
    <3>2. Closing \in Contexts
      BY <2>1, <3>1, ContextType DEF Closing
    <3> QED BY <1>4, <1>13, <3>1, <3>2 DEF JournalRisk
  <2>3. kill' \in BOOLEAN
    BY <1>13 DEF JournalRisk, LossReached
  <2>4. pc' \in Appending \cup Resting
    BY <1>13 DEF JournalRisk, Appending, Resting
  <2>5. UNCHANGED <<policy, position, loss, seen, feed, manifest, lives, disturbances>> /\ sequence' = sequence + 1
    BY <1>13 DEF JournalRisk, Appends, counts
  <2> QED BY <1>1, <2>2, <2>3, <2>4, <2>5 DEF Contexts, TypeOK
<1>14. CASE JournalFill
  <2>1. position' \in Positions
    BY <1>14 DEF JournalFill, Bounded
  <2>2. loss' \in Nat
    BY <1>14 DEF JournalFill, TypeOK
  <2> QED BY <1>1, <1>14, <2>1, <2>2 DEF JournalFill, Appends, TypeOK, Appending, counts
<1>15. CASE SystemEvent
  BY <1>1, <1>5, <1>15 DEF SystemEvent, TypeOK, memory
<1>16. CASE Stop
  <2>1. Reconciled(file) \in BOOLEAN
    BY DEF Reconciled
  <2>2. ctx' \in Contexts
    BY <1>4, <1>16, <2>1, ContextType DEF Stop
  <2> QED BY <1>1, <1>16, <2>2 DEF Contexts, Stop, TypeOK, Appending, Resting, memory, counts
<1>17. CASE Seal
  <2>1. manifest' \in [passed : BOOLEAN, lines : Nat, position : Positions]
    BY <1>3, <1>17 DEF Seal, TypeOK
  <2> QED BY <1>1, <1>4, <1>17, <2>1 DEF Contexts, Seal, TypeOK, Resting, memory, counts
<1>18. CASE SealFails
  BY <1>1, <1>4, <1>5, <1>18 DEF Contexts, SealFails, TypeOK, Resting, memory
<1>19. CASE AppendFails
  BY <1>1, <1>4, <1>5, <1>19 DEF Contexts, AppendFails, TypeOK, Resting, memory
<1>20. CASE Die
  BY <1>1, <1>2, <1>4, <1>20 DEF Contexts, Die, TypeOK, Resting, counts
<1>21. CASE UNCHANGED vars
  BY <1>21 DEF vars, memory, counts, TypeOK
<1> QED BY <1>6, <1>7, <1>8, <1>9, <1>10, <1>11, <1>12, <1>13, <1>14, <1>15, <1>16, <1>17, <1>18,
           <1>19, <1>20, <1>21 DEF Next

-----------------------------------------------------------------------------
\* Only the verdict and the intent lead to an order.
LEMMA OrderSteps ==
    ASSUME [Next]_vars, pc' \in {"intent", "fill"}
    PROVE  JournalRisk \/ JournalIntent \/ UNCHANGED vars
BY DEF Next, Construct, Start, Recover, JournalOpening, Connect, Disconnect, JournalFeed,
   RefuseBar, AdmitBar, JournalRefusal, JournalBar, JournalSignal, JournalFill, JournalPortfolio,
   JournalKill, SystemEvent, Stop, JournalStop, Seal, SealFails, AppendFails, Die

\* The verdict lets an order pass that keeps the position within its limit; the
\* flattening order ends at zero.
LEMMA BoundedNext == TypeOK /\ BarsSeen /\ Bounded /\ [Next]_vars => Bounded'
<1> SUFFICES ASSUME TypeOK, BarsSeen, Bounded, [Next]_vars PROVE Bounded'
  OBVIOUS
<1>0. position \in Int /\ MaxPosition \in Nat /\ position \in Positions /\ seen \subseteq Bars
  BY PaperAssumption DEF TypeOK, Positions
<1>1. ASSUME pc' \in {"intent", "fill"} PROVE (position + ctx.dir \in Positions)'
  <2>1. CASE JournalRisk
    <3>1. position' = position /\ ((ctx' = Opening /\ ~Violated) \/ ctx' = Closing)
      BY <1>1, <2>1 DEF JournalRisk
    <3>2. ctx \in Contexts
      BY DEF TypeOK, Contexts
    <3>3. Len(file) + 2 \in Nat /\ -position \in Int
      BY <1>0 DEF TypeOK
    <3>4. CASE ctx' = Opening /\ ~Violated
      <4>1. ctx'.dir = ctx.dir /\ ctx.dir \in Int
        BY <3>2, <3>4 DEF Opening, Contexts
      <4>2. Abs(position + ctx.dir) <= MaxPosition
        <5>1. Abs(position + ctx.dir) \in Int
          BY <1>0, <4>1 DEF Abs
        <5> QED BY <1>0, <3>4, <5>1 DEF Violated
      <4> QED BY <1>0, <3>1, <4>1, <4>2 DEF Abs, Positions
    <3>5. CASE ctx' = Closing
      <4>1. Opening \in Contexts
        BY <3>2, <3>3, ContextType DEF Opening
      <4>2. ctx'.dir = -position
        BY <3>5, <4>1 DEF Closing, Contexts
      <4> QED BY <1>0, <3>1, <4>2 DEF Positions
    <3> QED BY <3>1, <3>4, <3>5
  <2>2. CASE JournalIntent
    BY <2>2 DEF JournalIntent, Bounded, memory, Positions
  <2>3. CASE UNCHANGED vars
    BY <1>1, <2>3 DEF vars, memory, Bounded, Positions
  <2> QED BY <1>1, <2>1, <2>2, <2>3, OrderSteps
<1>2. CASE file' = file
  BY <1>1, <1>2 DEF Bounded, Positions
<1>3. CASE \E e \in Entries :
             /\ Adds(e)
             /\ e.kind = "NOTE" \/ (pc \in Appending /\ e.kind = Due.kind /\ e.id = Due.id /\ e.val = Due.val)
  <2> PICK e \in Entries :
             /\ Adds(e)
             /\ e.kind = "NOTE" \/ (pc \in Appending /\ e.kind = Due.kind /\ e.id = Due.id /\ e.val = Due.val)
    BY <1>3
  <2>1. e.kind = "PORTFOLIO_UPDATED" => e.val \in Positions
    BY <1>0, DueType
  <2>2. e.kind = "MARKET_BAR_RECEIVED" => e.id \in Bars
    BY <1>0, DueType DEF BarsSeen
  <2>3. ASSUME NEW i \in Of(file', "PORTFOLIO_UPDATED") PROVE file'[i].val \in Positions
    <3>1. CASE i \in Of(file, "PORTFOLIO_UPDATED")
      BY <3>1 DEF Adds, Of, Bounded
    <3>2. CASE e.kind = "PORTFOLIO_UPDATED" /\ i = Len(file) + 1
      BY <2>1, <3>2 DEF Adds
    <3> QED BY <2>3, <3>1, <3>2 DEF Adds
  <2>4. ASSUME NEW i \in Of(file', "MARKET_BAR_RECEIVED") PROVE file'[i].id \in Bars
    <3>1. CASE i \in Of(file, "MARKET_BAR_RECEIVED")
      BY <3>1 DEF Adds, Of, Bounded
    <3>2. CASE e.kind = "MARKET_BAR_RECEIVED" /\ i = Len(file) + 1
      BY <2>2, <3>2 DEF Adds
    <3> QED BY <2>4, <3>1, <3>2 DEF Adds
  <2>5. \/ Of(file', "PORTFOLIO_UPDATED") = {}
        \/ \E i \in Of(file', "PORTFOLIO_UPDATED") : \A j \in Of(file', "PORTFOLIO_UPDATED") : j <= i
    <3>1. CASE e.kind = "PORTFOLIO_UPDATED"
      <4>1. \A j \in Of(file', "PORTFOLIO_UPDATED") : j <= Len(file) + 1
        <5>1. Len(file) \in Nat
          BY DEF TypeOK
        <5> QED BY <5>1 DEF Adds, Of
      <4> QED BY <3>1, <4>1 DEF Adds
    <3>2. CASE e.kind # "PORTFOLIO_UPDATED"
      BY <3>2 DEF Adds, Bounded
    <3> QED BY <3>1, <3>2
  <2> QED BY <1>1, <2>3, <2>4, <2>5 DEF Bounded, Positions
<1> QED BY <1>2, <1>3, FileSteps

\* Memory keeps up with the bars of the journal, and the bar taken is ahead of it.
LEMMA BarsNext == TypeOK /\ Chained /\ Blank /\ BarsSeen /\ [Next]_vars => BarsSeen'
<1> SUFFICES ASSUME TypeOK, Chained, Blank, BarsSeen, [Next]_vars, pc' \in Live
             PROVE  BarsSeen'
  BY DEF BarsSeen, Live, Deciding
<1>1. CASE Recover
  BY <1>1 DEF Recover, RestoredSeen, BarsSeen
<1>2. CASE Journals
  <2>0. pc \in Appending /\ pc \in Live \cup {"start"} /\ Adds(Due)
    BY <1>2, JournalAdds
  <2>1. pc' # "bar" /\ seen' = seen
    BY <1>2 DEF Journals, JournalOpening, JournalFeed, JournalRefusal, JournalBar, JournalSignal,
       JournalRisk, JournalIntent, JournalFill, JournalPortfolio, JournalKill, memory
  <2>2. ASSUME NEW i \in Of(file', "MARKET_BAR_RECEIVED")
        PROVE  Superseded(i)' \/ file'[i].id \in seen
    <3>1. CASE i \in Of(file, "MARKET_BAR_RECEIVED")
      <4>1. i \in Lines(file) /\ file'[i].id = file[i].id
        BY <2>0, <3>1 DEF Adds, Of
      <4>2. CASE pc = "start"
        <5>1. Due.kind = "SESSION_STARTED"
          BY <2>0, <4>2, DueType
        <5> QED BY <2>0, <4>1, <5>1, StartSupersedes
      <4>3. CASE pc \in Live
        <5>1. Superseded(i) \/ file[i].id \in seen
          BY <3>1, <4>3 DEF BarsSeen
        <5> QED BY <2>0, <4>1, <5>1, SupersededStays
      <4> QED BY <2>0, <4>2, <4>3
    <3>2. CASE Due.kind = "MARKET_BAR_RECEIVED" /\ i = Len(file) + 1
      <4>1. pc = "bar" /\ file'[i] = Due /\ Due.id = ctx.bar
        BY <2>0, <3>2, DueType DEF Adds
      <4> QED BY <4>1 DEF BarsSeen
    <3> QED BY <2>0, <2>2, <3>1, <3>2 DEF Adds
  <2> QED BY <2>1, <2>2 DEF BarsSeen
<1>3. CASE pc = "idle" /\ SystemEvent
  <2>0. Adds(NoteLine) /\ NoteLine.kind = "NOTE"
    BY <1>3, EventAdds, NoteType
  <2>1. pc' = "idle" /\ seen' = seen
    BY <1>3 DEF SystemEvent, memory
  <2>2. ASSUME NEW i \in Of(file', "MARKET_BAR_RECEIVED")
        PROVE  Superseded(i)' \/ file'[i].id \in seen
    <3>1. i \in Of(file, "MARKET_BAR_RECEIVED") /\ file'[i].id = file[i].id
      BY <2>0, <2>2 DEF Adds, Of
    <3>2. Superseded(i) \/ file[i].id \in seen
      BY <1>3, <3>1 DEF BarsSeen, Live
    <3> QED BY <2>0, <3>1, <3>2, SupersededStays
  <2> QED BY <2>1, <2>2 DEF BarsSeen
<1>4. CASE pc \in Live /\ Quiet /\ file' = file
  <2>1. CASE \E b \in Bars : AdmitBar(b)
    BY <1>4, <2>1 DEF AdmitBar, BarsSeen, Superseded, Idle
  <2>2. CASE Connect \/ Disconnect \/ RefuseBar \/ UNCHANGED vars
    <3>1. seen' = seen /\ (pc' = "bar" => pc = "bar" /\ ctx' = ctx)
      BY <2>2 DEF Connect, Disconnect, RefuseBar, vars, memory
    <3> QED BY <1>4, <3>1 DEF BarsSeen, Superseded
  <2> QED BY <1>4, <2>1, <2>2 DEF Quiet
<1> QED BY <1>1, <1>2, <1>3, <1>4, LiveSteps

\* A kill switch in the journal stays active, and lets no bar be polled.
LEMMA HaltedNext == TypeOK /\ Chained /\ Halted /\ [Next]_vars => Halted'
<1> SUFFICES ASSUME TypeOK, Chained, Halted, [Next]_vars, pc' \in Live
             PROVE  Halted'
  BY DEF Halted, Live, Deciding
<1>1. CASE Recover
  BY <1>1 DEF Recover, RestoredKill, Halted
<1>2. CASE Journals
  <2>0. pc \in Appending /\ pc \in Live \cup {"start"} /\ Adds(Due)
    BY <1>2, JournalAdds
  <2>1. /\ pc' \in {"refuse", "bar", "signal", "risk"} => ~kill'
        /\ pc' = "kill" => kill'
        /\ pc \in {"recover", "feed", "kill"} => pc' = "idle" /\ kill' = kill
    BY <1>2 DEF Journals, JournalOpening, JournalFeed, JournalRefusal, JournalBar, JournalSignal,
       JournalRisk, JournalIntent, JournalFill, JournalPortfolio, JournalKill, memory, Halted
  <2>2. ASSUME NEW i \in Of(file', "KILL_SWITCH_TRIGGERED")
        PROVE  Superseded(i)' \/ (kill' /\ pc' \in {"recover", "idle", "feed"})
    <3>1. CASE i \in Of(file, "KILL_SWITCH_TRIGGERED")
      <4>1. i \in Lines(file)
        BY <3>1 DEF Of
      <4>2. CASE pc = "start"
        <5>1. Due.kind = "SESSION_STARTED"
          BY <2>0, <4>2, DueType
        <5> QED BY <2>0, <4>1, <5>1, StartSupersedes
      <4>3. CASE pc \in Live
        <5>1. Superseded(i) \/ (kill /\ pc \in {"recover", "feed"})
          BY <2>0, <3>1, <4>3 DEF Halted, Appending
        <5> QED BY <2>0, <2>1, <5>1, SupersededStays
      <4> QED BY <2>0, <4>2, <4>3
    <3>2. CASE Due.kind = "KILL_SWITCH_TRIGGERED"
      BY <2>0, <2>1, <3>2, DueType DEF Halted
    <3> QED BY <2>0, <2>2, <3>1, <3>2 DEF Adds
  <2> QED BY <2>1, <2>2 DEF Halted
<1>3. CASE pc = "idle" /\ SystemEvent
  <2>0. Adds(NoteLine) /\ NoteLine.kind = "NOTE"
    BY <1>3, EventAdds, NoteType
  <2>1. pc' = "idle" /\ kill' = kill
    BY <1>3 DEF SystemEvent, memory
  <2>2. ASSUME NEW i \in Of(file', "KILL_SWITCH_TRIGGERED")
        PROVE  Superseded(i)' \/ kill'
    <3>1. i \in Of(file, "KILL_SWITCH_TRIGGERED")
      BY <2>0, <2>2 DEF Adds
    <3>2. Superseded(i) \/ kill
      BY <1>3, <3>1 DEF Halted, Live
    <3> QED BY <2>0, <2>1, <3>2, SupersededStays
  <2> QED BY <2>1, <2>2 DEF Halted
<1>4. CASE pc \in Live /\ Quiet /\ file' = file
  <2>1. /\ kill' = kill
        /\ pc' \in {"refuse", "bar", "signal", "risk"} => ~kill
        /\ pc' = "kill" => kill
        /\ pc \in {"recover", "idle", "feed"} /\ kill => pc' \in {"recover", "idle", "feed"}
    BY <1>4 DEF Quiet, Connect, Disconnect, RefuseBar, AdmitBar, Polls, memory, vars, Halted
  <2> QED BY <1>4, <2>1 DEF Halted, Superseded
<1> QED BY <1>1, <1>2, <1>3, <1>4, LiveSteps

-----------------------------------------------------------------------------
\* What recovery reads of a file that a line was added to.
LEMMA PositionKeeps ==
    ASSUME Bounded, NEW e, Adds(e), e.kind # "PORTFOLIO_UPDATED"
    PROVE  RestoredPosition(file') = RestoredPosition(file)
<1> DEFINE updates == Of(file, "PORTFOLIO_UPDATED")
<1>1. Of(file', "PORTFOLIO_UPDATED") = updates
  BY DEF Adds
<1>2. CASE updates = {}
  BY <1>1, <1>2 DEF RestoredPosition
<1>3. CASE updates # {}
  <2>1. \E i \in updates : \A j \in updates : j <= i
    BY <1>3 DEF Bounded
  <2>2. Newest(updates) \in updates
    BY <2>1 DEF Newest
  <2>3. \A i \in updates : file'[i] = file[i]
    BY DEF Adds, Of
  <2> QED BY <1>1, <1>3, <2>2, <2>3 DEF RestoredPosition
<1> QED BY <1>2, <1>3

LEMMA PositionMoves ==
    ASSUME TypeOK, NEW e, Adds(e), e.kind = "PORTFOLIO_UPDATED"
    PROVE  RestoredPosition(file') = e.val
<1> DEFINE updates == Of(file', "PORTFOLIO_UPDATED")
           last    == Newest(updates)
<1>0. Len(file) \in Nat
  BY DEF TypeOK
<1>1. updates = Of(file, "PORTFOLIO_UPDATED") \cup {Len(file) + 1}
  BY DEF Adds
<1>2. \A j \in updates : j \in Nat /\ j <= Len(file) + 1
  BY <1>0, <1>1 DEF Adds, Of
<1>3. last \in updates /\ \A j \in updates : j <= last
  <2>1. \E i \in updates : \A j \in updates : j <= i
    BY <1>1, <1>2
  <2> QED BY <2>1 DEF Newest
<1>4. last = Len(file) + 1
  <2>1. last \in Nat /\ last <= Len(file) + 1 /\ Len(file) + 1 <= last
    BY <1>1, <1>2, <1>3
  <2> QED BY <1>0, <2>1
<1>5. updates # {}
  BY <1>1
<1> QED BY <1>4, <1>5 DEF Adds, RestoredPosition

LEMMA KillKeeps ==
    ASSUME NEW e, Adds(e)
    PROVE  RestoredKill(file') <=> RestoredKill(file) \/ e.kind = "KILL_SWITCH_TRIGGERED"
BY DEF Adds, RestoredKill

LEMMA SeenKeeps ==
    ASSUME NEW e, Adds(e)
    PROVE  RestoredSeen(file')
             = RestoredSeen(file) \cup (IF e.kind = "MARKET_BAR_RECEIVED" THEN {e.id} ELSE {})
<1> DEFINE old == Of(file, "MARKET_BAR_RECEIVED")
<1>1. \A i \in old : file'[i] = file[i]
  BY DEF Adds, Of
<1>2. file'[Len(file) + 1] = e
  BY DEF Adds
<1>3. CASE e.kind = "MARKET_BAR_RECEIVED"
  <2>1. Of(file', "MARKET_BAR_RECEIVED") = old \cup {Len(file) + 1}
    BY <1>3 DEF Adds
  <2> QED BY <1>1, <1>2, <1>3, <2>1 DEF RestoredSeen
<1>4. CASE e.kind # "MARKET_BAR_RECEIVED"
  <2>1. Of(file', "MARKET_BAR_RECEIVED") = old
    BY <1>4 DEF Adds
  <2> QED BY <1>1, <1>4, <2>1 DEF RestoredSeen
<1> QED BY <1>3, <1>4

\* The journal has no session but the first one.
OneSession == \A i \in Of(file, "SESSION_STARTED") : i = 1

LEMMA MirroredNext ==
    TypeOK /\ Chained /\ Blank /\ Halted /\ Bounded /\ Mirrored /\ [Next]_vars => Mirrored'
<1> SUFFICES ASSUME TypeOK, Chained, Blank, Halted, Bounded, Mirrored, [Next]_vars,
                    pc' \in Live, OneSession'
             PROVE  Mirrored'
  BY DEF Mirrored, OneSession
<1>1. CASE Recover
  BY <1>1 DEF Recover, Mirrored
<1>2. CASE Journals
  <2>0. pc \in Appending /\ pc \in Live \cup {"start"} /\ Adds(Due) /\ seen' = seen
    BY <1>2, JournalAdds DEF Journals, JournalOpening, JournalFeed, JournalRefusal, JournalBar,
       JournalSignal, JournalRisk, JournalIntent, JournalFill, JournalPortfolio, JournalKill, memory
  <2>1. CASE pc = "start"
    <3>1. Due.kind = "SESSION_STARTED"
      BY <2>0, <2>1, DueType
    <3>2. Len(file) + 1 = 1 /\ Len(file) \in Nat
      BY <2>0, <3>1 DEF Adds, OneSession, TypeOK
    <3>3. \A k : Of(file, k) = {}
      BY <3>2 DEF Of, Lines
    <3>4. \A k : k # "SESSION_STARTED" => Of(file', k) = {}
      BY <2>0, <3>1, <3>3 DEF Adds
    <3>5. RestoredPosition(file') = 0 /\ ~RestoredKill(file') /\ RestoredSeen(file') = {}
      BY <3>4 DEF RestoredPosition, RestoredKill, RestoredSeen
    <3>6. pc' = "idle" /\ position' = 0 /\ ~kill' /\ seen' = {}
      BY <1>2, <2>1 DEF Journals, JournalOpening, JournalFeed, JournalRefusal, JournalBar,
         JournalSignal, JournalRisk, JournalIntent, JournalFill, JournalPortfolio, JournalKill,
         memory, Blank
    <3> QED BY <3>5, <3>6 DEF Mirrored
  <2>2. CASE pc \in Live
    <3>0. OneSession
      BY <2>0 DEF OneSession, Adds
    <3>1. /\ pc # "portfolio" => position = RestoredPosition(file)
          /\ RestoredKill(file) <=> kill /\ pc \in {"recover", "idle", "feed"}
          /\ seen = RestoredSeen(file) \cup (IF pc = "bar" THEN {ctx.bar} ELSE {})
      BY <2>2, <3>0 DEF Mirrored, OneSession
    <3>2. pc' # "portfolio" => position' = RestoredPosition(file')
      <4>1. CASE pc = "portfolio"
        <5>1. Due.kind = "PORTFOLIO_UPDATED" /\ Due.val = position
          BY <2>0, <4>1, DueType
        <5>2. position' = position
          BY <1>2, <4>1 DEF Journals, JournalOpening, JournalFeed, JournalRefusal, JournalBar,
             JournalSignal, JournalRisk, JournalIntent, JournalFill, JournalPortfolio, JournalKill, memory
        <5> QED BY <2>0, <5>1, <5>2, PositionMoves
      <4>2. CASE pc = "fill"
        BY <1>2, <4>2 DEF Journals, JournalOpening, JournalFeed, JournalRefusal, JournalBar,
           JournalSignal, JournalRisk, JournalIntent, JournalFill, JournalPortfolio, JournalKill
      <4>3. CASE pc \notin {"portfolio", "fill"}
        <5>1. Due.kind # "PORTFOLIO_UPDATED"
          BY <2>0, <4>3, DueType
        <5>2. position' = position
          BY <1>2, <4>3 DEF Journals, JournalOpening, JournalFeed, JournalRefusal, JournalBar,
             JournalSignal, JournalRisk, JournalIntent, JournalFill, JournalPortfolio, JournalKill, memory
        <5> QED BY <2>0, <3>1, <4>3, <5>1, <5>2, PositionKeeps
      <4> QED BY <4>1, <4>2, <4>3
    <3>3. RestoredKill(file') <=> kill' /\ pc' \in {"recover", "idle", "feed"}
      <4>1. Due.kind = "KILL_SWITCH_TRIGGERED" <=> pc = "kill"
        BY <2>0, DueType
      <4>2. RestoredKill(file') <=> (kill /\ pc \in {"recover", "idle", "feed"}) \/ pc = "kill"
        BY <2>0, <3>1, <4>1, KillKeeps
      <4>3. CASE JournalOpening \/ JournalFeed \/ JournalKill
        <5>1. pc \in {"recover", "feed", "kill"} /\ pc' = "idle" /\ kill' = kill /\ (pc = "kill" => kill)
          BY <2>2, <4>3 DEF JournalOpening, JournalFeed, JournalKill, memory, Halted, Live, Deciding
        <5> QED BY <4>2, <5>1
      <4>4. CASE JournalRefusal \/ JournalBar \/ JournalSignal \/ JournalRisk
        <5>1. ~kill /\ pc # "kill" /\ (pc' \in {"recover", "idle", "feed"} => ~kill')
          BY <4>4 DEF JournalRefusal, JournalBar, JournalSignal, JournalRisk, memory, Halted
        <5> QED BY <4>2, <5>1
      <4>5. CASE JournalIntent \/ JournalFill \/ JournalPortfolio
        <5>1. pc \in {"intent", "fill", "portfolio"} /\ (pc' \in {"recover", "idle", "feed"} => ~kill')
          BY <4>5 DEF JournalIntent, JournalFill, JournalPortfolio, memory
        <5> QED BY <4>2, <5>1
      <4> QED BY <1>2, <4>3, <4>4, <4>5 DEF Journals
    <3>4. seen' = RestoredSeen(file') \cup (IF pc' = "bar" THEN {ctx'.bar} ELSE {})
      <4>1. (Due.kind = "MARKET_BAR_RECEIVED" <=> pc = "bar") /\ (pc = "bar" => Due.id = ctx.bar)
        BY <2>0, DueType
      <4>2. pc' # "bar"
        BY <1>2 DEF Journals, JournalOpening, JournalFeed, JournalRefusal, JournalBar,
             JournalSignal, JournalRisk, JournalIntent, JournalFill, JournalPortfolio, JournalKill
      <4> QED BY <2>0, <3>1, <4>1, <4>2, SeenKeeps
    <3> QED BY <3>2, <3>3, <3>4 DEF Mirrored
  <2> QED BY <2>0, <2>1, <2>2
<1>3. CASE pc = "idle" /\ SystemEvent
  <2>0. Adds(NoteLine) /\ NoteLine.kind = "NOTE" /\ pc' = "idle" /\ UNCHANGED <<position, kill, seen>>
    BY <1>3, EventAdds, NoteType DEF SystemEvent, memory
  <2>1. OneSession /\ pc \in Live
    BY <1>3, <2>0 DEF OneSession, Adds, Live
  <2>2. position = RestoredPosition(file) /\ (RestoredKill(file) <=> kill) /\ seen = RestoredSeen(file)
    BY <1>3, <2>1 DEF Mirrored, OneSession
  <2>3. RestoredPosition(file') = RestoredPosition(file)
    BY <2>0, PositionKeeps
  <2>4. RestoredKill(file') <=> RestoredKill(file)
    BY <2>0, KillKeeps
  <2>5. RestoredSeen(file') = RestoredSeen(file)
    BY <2>0, SeenKeeps
  <2> QED BY <2>0, <2>2, <2>3, <2>4, <2>5 DEF Mirrored
<1>4. CASE pc \in Live /\ Quiet /\ file' = file
  <2>0. OneSession
    BY <1>4 DEF OneSession
  <2>1. CASE \E b \in Bars : AdmitBar(b)
    <3>1. PICK b \in Bars : AdmitBar(b)
      BY <2>1
    <3>2. ctx'.bar = b
      BY <3>1 DEF AdmitBar, Idle
    <3> QED BY <1>4, <2>0, <3>1, <3>2 DEF AdmitBar, Polls, Mirrored, OneSession
  <2>2. CASE Connect \/ Disconnect \/ RefuseBar
    BY <1>4, <2>0, <2>2 DEF Connect, Disconnect, RefuseBar, Polls, memory, Mirrored, OneSession
  <2>3. CASE UNCHANGED vars
    BY <1>4, <2>0, <2>3 DEF vars, memory, Mirrored, OneSession
  <2> QED BY <1>4, <2>1, <2>2, <2>3 DEF Quiet
<1> QED BY <1>1, <1>2, <1>3, <1>4, LiveSteps

-----------------------------------------------------------------------------
(* The properties that relate two lines *)

\* A line the call adds was due at its step.
Added(e) ==
    /\ Adds(e)
    /\ e.kind = "NOTE" \/ (pc \in Appending /\ e.kind = Due.kind /\ e.id = Due.id)

LEMMA AddedSteps ==
    ASSUME TypeOK, [Next]_vars
    PROVE  file' = file \/ \E e \in Entries : Added(e)
BY FileSteps DEF Added

\* The bar about to be written is new to the session.
LEMMA OnceNext == TypeOK /\ BarsSeen /\ BarDecidedOnce /\ [Next]_vars => BarDecidedOnce'
<1> SUFFICES ASSUME TypeOK, BarsSeen, BarDecidedOnce, [Next]_vars PROVE BarDecidedOnce'
  OBVIOUS
<1>1. CASE file' = file
  BY <1>1 DEF BarDecidedOnce, NewSession
<1>2. ASSUME NEW e \in Entries, Added(e) PROVE BarDecidedOnce'
  <2> SUFFICES ASSUME NEW i \in Of(file', "MARKET_BAR_RECEIVED"),
                      NEW j \in Of(file', "MARKET_BAR_RECEIVED"),
                      i < j, file'[i].id = file'[j].id
               PROVE  NewSession(i, j)'
    BY DEF BarDecidedOnce
  <2>0. Adds(e) /\ Len(file) \in Nat
    BY <1>2 DEF Added, TypeOK
  <2>1. i \in Of(file, "MARKET_BAR_RECEIVED") /\ file'[i] = file[i]
    BY <2>0 DEF Adds, Of
  <2>2. CASE j \in Of(file, "MARKET_BAR_RECEIVED")
    <3>1. file'[j] = file[j]
      BY <2>0, <2>2 DEF Adds, Of
    <3> QED BY <2>0, <2>1, <2>2, <3>1, ApartStays DEF BarDecidedOnce
  <2>3. CASE e.kind = "MARKET_BAR_RECEIVED" /\ j = Len(file) + 1
    <3>1. pc = "bar" /\ file'[j].id = ctx.bar
      BY <1>2, <2>0, <2>3, DueType DEF Added, Adds
    <3>2. Superseded(i)
      BY <2>1, <3>1 DEF BarsSeen
    <3> QED BY <2>0, <2>3, <3>2, SupersededApart
  <2> QED BY <2>0, <2>2, <2>3 DEF Adds
<1> QED BY <1>1, <1>2, AddedSteps

\* In the order of the code the forced flattening comes first, so no order at all
\* is behind the event of the kill switch.
NoOrderAfterKill ==
    \A i \in Of(file, "KILL_SWITCH_TRIGGERED"), j \in Of(file, "ORDER_INTENT_CREATED") :
        i < j => NewSession(i, j)

\* At an intent no kill switch of the session is in the journal.
LEMMA KillNext == TypeOK /\ Halted /\ NoOrderAfterKill /\ [Next]_vars => NoOrderAfterKill'
<1> SUFFICES ASSUME TypeOK, Halted, NoOrderAfterKill, [Next]_vars PROVE NoOrderAfterKill'
  OBVIOUS
<1>1. CASE file' = file
  BY <1>1 DEF NoOrderAfterKill, NewSession
<1>2. ASSUME NEW e \in Entries, Added(e) PROVE NoOrderAfterKill'
  <2> SUFFICES ASSUME NEW i \in Of(file', "KILL_SWITCH_TRIGGERED"),
                      NEW j \in Of(file', "ORDER_INTENT_CREATED"), i < j
               PROVE  NewSession(i, j)'
    BY DEF NoOrderAfterKill
  <2>0. Adds(e) /\ Len(file) \in Nat
    BY <1>2 DEF Added, TypeOK
  <2>1. i \in Of(file, "KILL_SWITCH_TRIGGERED")
    BY <2>0 DEF Adds, Of
  <2>2. CASE j \in Of(file, "ORDER_INTENT_CREATED")
    BY <2>0, <2>1, <2>2, ApartStays DEF NoOrderAfterKill
  <2>3. CASE e.kind = "ORDER_INTENT_CREATED" /\ j = Len(file) + 1
    <3>1. pc = "intent"
      BY <1>2, <2>3, DueType DEF Added
    <3>2. Superseded(i)
      BY <2>1, <3>1 DEF Halted, Live, Deciding
    <3> QED BY <2>0, <2>3, <3>2, SupersededApart
  <2> QED BY <2>0, <2>2, <2>3 DEF Adds
<1> QED BY <1>1, <1>2, AddedSteps

\* The order that an active kill switch makes is the closing one.
Closes == kill /\ pc = "intent" => ctx.dir = -position

LEMMA ClosesNext == TypeOK /\ Closes /\ [Next]_vars => Closes'
<1> SUFFICES ASSUME TypeOK, Closes, [Next]_vars, kill', pc' = "intent"
             PROVE  ctx'.dir = -position'
  BY DEF Closes
<1>1. CASE JournalRisk
  <2>1. LossReached /\ position' = position
    BY <1>1 DEF JournalRisk
  <2>2. ctx' = Closing
    BY <1>1, <2>1 DEF JournalRisk, Violated
  <2> QED BY <2>1, <2>2 DEF TypeOK, Closing, Opening
<1>2. CASE UNCHANGED vars
  BY <1>2 DEF vars, memory, Closes
<1>3. ~(JournalRisk \/ UNCHANGED vars) => pc' # "intent"
  BY DEF Next, Construct, Start, Recover, JournalOpening, Connect, Disconnect, JournalFeed,
         RefuseBar, AdmitBar, JournalRefusal, JournalBar, JournalSignal, JournalIntent,
         JournalFill, JournalPortfolio, JournalKill, SystemEvent, Stop, JournalStop, Seal,
         SealFails, AppendFails, Die
<1> QED BY <1>1, <1>2, <1>3

\* A line of a decision is written behind lines that verify.
LEMMA BreakNext == TypeOK /\ Chained /\ TradingStopsAtBreak /\ [Next]_vars => TradingStopsAtBreak'
<1> SUFFICES ASSUME TypeOK, Chained, TradingStopsAtBreak, [Next]_vars PROVE TradingStopsAtBreak'
  OBVIOUS
<1>1. CASE file' = file
  BY <1>1 DEF TradingStopsAtBreak
<1>2. ASSUME NEW e \in Entries, Added(e) PROVE TradingStopsAtBreak'
  <2> SUFFICES ASSUME NEW i \in Lines(file'), NEW j \in Lines(file'),
                      i < j, ~Intact(file', i)
               PROVE  file'[j].kind \notin {"MARKET_BAR_RECEIVED", "ORDER_INTENT_CREATED", "FILL_SIMULATED"}
    BY DEF TradingStopsAtBreak
  <2>0. Adds(e) /\ Len(file) \in Nat
    BY <1>2 DEF Added, TypeOK
  <2>1. i \in Lines(file) /\ file'[i] = file[i]
    BY <2>0 DEF Adds, Lines
  <2>2. ~Intact(file, i)
    BY <2>1 DEF Intact
  <2>3. CASE j \in Lines(file)
    BY <2>0, <2>1, <2>2, <2>3 DEF Adds, TradingStopsAtBreak
  <2>4. CASE j = Len(file) + 1
    <3>1. file'[j] = e /\ pc \notin {"bar", "intent", "fill"}
      BY <2>0, <2>1, <2>2, <2>4 DEF Adds, Chained, Begun, Live, Deciding, Verified
    <3> QED BY <1>2, <3>1, DueType DEF Added
  <2> QED BY <2>0, <2>3, <2>4 DEF Adds
<1> QED BY <1>1, <1>2, AddedSteps

-----------------------------------------------------------------------------
IInv == /\ TypeOK /\ Chained /\ Blank /\ BarsSeen /\ Halted /\ Bounded /\ Mirrored
        /\ BarDecidedOnce /\ NoOrderAfterKill /\ Closes /\ TradingStopsAtBreak

LEMMA IInvInit == Init => IInv
<1> SUFFICES ASSUME Init PROVE IInv
  OBVIOUS
<1>0. Len(file) = 0 /\ file \in Seq(Entries)
  BY DEF Init
<1>1. Lines(file) = {} /\ \A k : Of(file, k) = {}
  BY <1>0 DEF Lines, Of
<1>2. TypeOK
  <2>1. 0 \in Positions /\ lives \in 0..MaxLives /\ disturbances \in 0..MaxDisturbances
    BY PaperAssumption DEF Init, Positions
  <2>2. ctx \in Contexts
    BY DEF Init, Idle, Contexts
  <2>3. position \in Positions /\ loss \in Nat /\ kill \in BOOLEAN /\ seen \subseteq Bars /\ sequence \in Nat
    BY <2>1 DEF Init
  <2> QED BY <1>0, <2>1, <2>2, <2>3 DEF Init, TypeOK, Contexts, Resting
<1>3. Chained /\ Blank /\ BarsSeen /\ Halted /\ Mirrored
  BY DEF Init, Chained, Blank, BarsSeen, Halted, Mirrored, Begun, Live, Deciding
<1>4. Bounded
  BY <1>1 DEF Init, Bounded
<1>5. BarDecidedOnce /\ NoOrderAfterKill /\ Closes /\ TradingStopsAtBreak
  BY <1>1 DEF Init, BarDecidedOnce, NoOrderAfterKill, Closes, TradingStopsAtBreak
<1> QED BY <1>2, <1>3, <1>4, <1>5 DEF IInv

LEMMA IInvNext == IInv /\ [Next]_vars => IInv'
BY TypeNext, ChainedNext, BlankNext, BarsNext, HaltedNext, BoundedNext, MirroredNext, OnceNext,
   KillNext, ClosesNext, BreakNext DEF IInv

LEMMA Invariant == Spec => []IInv
BY IInvInit, IInvNext, PTL DEF Spec

\* Every variable has its type, and no sequence of orders, fills, crashes and
\* recoveries takes the position past its limit.
THEOREM Types == Spec => []TypeOK
<1>1. IInv => TypeOK
  BY DEF IInv
<1> QED BY <1>1, Invariant, PTL

\* A bar leads to one decision of a session: process_bar() takes its id before
\* it journals, and recover() takes the ids from the journal.
THEOREM OneDecisionPerBar == Spec => []BarDecidedOnce
<1>1. IInv => BarDecidedOnce
  BY DEF IInv
<1> QED BY <1>1, Invariant, PTL

\* _trigger_kill_switch() and recover(): an active kill switch makes no order but
\* the one that closes the position, and its event in the journal ends the orders
\* of its session, also in a process that recovers it.
THEOREM KillSwitchEndsOrders == Spec => []KillOnlyCloses
<1>1. IInv => KillOnlyCloses
  BY DEF IInv, Closes, NoOrderAfterKill, KillOnlyCloses
<1> QED BY <1>1, Invariant, PTL

\* Between calls recover() would rebuild position, kill switch and bars.
THEOREM RecoveryRestores == Spec => []RestartLosesNothing
<1>1. IInv => RestartLosesNothing
  <2> SUFFICES ASSUME IInv, pc = "idle", OneSession
               PROVE  /\ position = RestoredPosition(file)
                      /\ kill = RestoredKill(file)
                      /\ seen = RestoredSeen(file)
    BY DEF RestartLosesNothing, OneSession
  <2>1. /\ position = RestoredPosition(file) /\ seen = RestoredSeen(file)
        /\ RestoredKill(file) <=> kill
    BY DEF IInv, Mirrored, Live, OneSession
  <2>2. kill \in BOOLEAN /\ RestoredKill(file) \in BOOLEAN
    BY DEF IInv, TypeOK, RestoredKill
  <2> QED BY <2>1, <2>2
<1> QED BY <1>1, Invariant, PTL

\* Nothing is decided, ordered or filled behind a line that does not verify: a
\* failed append ends the process's trading, and the constructor refuses the file.
THEOREM BreakEndsTrading == Spec => []TradingStopsAtBreak
<1>1. IInv => TradingStopsAtBreak
  BY DEF IInv
<1> QED BY <1>1, Invariant, PTL

-----------------------------------------------------------------------------
(***************************************************************************)
(* What is left of the claim PassMeansFillsCounted: the position of the    *)
(* manifest is what the fills add up to unless a FILL_SIMULATED was        *)
(* followed by something else than its PORTFOLIO_UPDATED, which is what a  *)
(* crash or a failed append between the two leaves behind.                 *)
(***************************************************************************)
Fills(f, n)    == {i \in Of(f, "FILL_SIMULATED") : i <= n}
FilledTo(f, n) == SumFunctionOnSet([i \in Lines(f) |-> f[i].val], Fills(f, n))

\* Every fill but a last line is followed by the portfolio it led to.
Gapless(f) == \A i \in Of(f, "FILL_SIMULATED") :
                  i < Len(f) => f[i + 1].kind = "PORTFOLIO_UPDATED"
OpenFill   == Len(file) \in Of(file, "FILL_SIMULATED")

\* A journal begins with the start of a session.
Opened ==
    /\ Len(file) = 0 => pc \in {"off", "made", "start", "unsealed"}
    /\ Len(file) # 0 => 1 \in Of(file, "SESSION_STARTED")

\* stop() goes on over a journal it could read, and a manifest covers lines
\* that are there.
Stopping ==
    /\ pc \in {"reconcile", "stop", "seal"} => Readable(file)
    /\ manifest # None => manifest.lines \in 0..Len(file)

\* A call whose append of the fill failed may leave a fill it has not counted.
Uncounted == pc \in {"failed", "reconcile"} /\ OpenFill

\* The books of a journal without gaps: every portfolio line, the memory of a
\* session that is under way, and the manifest have what the fills add up to.
Books ==
    Gapless(file) /\ OneSession =>
        /\ \A j \in Of(file, "PORTFOLIO_UPDATED") : file[j].val = FilledTo(file, j)
        /\ \/ pc \in {"off", "made", "start", "recover", "unsealed", "sealed"}
           \/ position = FilledTo(file, Len(file))
           \/ Uncounted
        /\ manifest # None => manifest.position = FilledTo(file, manifest.lines)

\* The fills of a file have numbers that add up.
LEMMA FillsAdd ==
    ASSUME TypeOK, NEW n
    PROVE  /\ IsFiniteSet(Fills(file, n)) /\ Fills(file, n) \subseteq Lines(file)
           /\ Numbers([i \in Lines(file) |-> file[i].val], Fills(file, n))
           /\ FilledTo(file, n) \in Int
<1> DEFINE q == [i \in Lines(file) |-> file[i].val]
<1>1. file \in Seq(Entries) /\ Len(file) \in Nat
  BY DEF TypeOK
<1>2. \A i \in Lines(file) : file[i] \in Entries
  BY <1>1 DEF Lines
<1>3. \A i \in Lines(file) : q[i] \in Int
  BY <1>2 DEF Entries
<1>4. Fills(file, n) \subseteq Lines(file)
  BY DEF Fills, Of
<1>5. IsFiniteSet(Lines(file))
  BY <1>1, FS_Interval DEF Lines
<1>6. IsFiniteSet(Fills(file, n))
  BY <1>4, <1>5, FS_Subset
<1>7. Numbers(q, Fills(file, n))
  BY <1>3, <1>4 DEF Numbers
<1> HIDE DEF q
<1>8. SumFunctionOnSet(q, Fills(file, n)) \in Int
  BY <1>6, <1>7, SumInt
<1> QED BY <1>4, <1>6, <1>7, <1>8 DEF FilledTo, q

\* A line more leaves the sums over the lines before it, and adds its own fill.
LEMMA FilledAdds ==
    ASSUME TypeOK, NEW e \in Entries, Adds(e)
    PROVE  /\ \A n \in 0..Len(file) : FilledTo(file', n) = FilledTo(file, n)
           /\ FilledTo(file', Len(file) + 1)
                = FilledTo(file, Len(file)) + (IF e.kind = "FILL_SIMULATED" THEN e.val ELSE 0)
<1> DEFINE q == [i \in Lines(file) |-> file[i].val]
           p == [i \in Lines(file') |-> file'[i].val]
           m == Len(file) + 1
<1>1. Len(file) \in Nat /\ e.val \in Int
  BY DEF TypeOK, Entries
<1>2. /\ \A i \in Lines(file) : i \in Nat /\ i < m /\ p[i] = q[i]
      /\ p[m] = e.val /\ m \notin Lines(file)
  BY <1>1 DEF Adds, Lines
<1>3. \A n : /\ IsFiniteSet(Fills(file, n)) /\ Fills(file, n) \subseteq Lines(file)
             /\ Numbers(q, Fills(file, n)) /\ FilledTo(file, n) \in Int
  BY FillsAdd
<1>4. \A n : FilledTo(file, n) = SumFunctionOnSet(q, Fills(file, n))
             /\ FilledTo(file', n) = SumFunctionOnSet(p, Fills(file', n))
  BY DEF FilledTo
<1> HIDE DEF q, p
<1>5. ASSUME NEW n \in 0..Len(file) PROVE FilledTo(file', n) = FilledTo(file, n)
  <2>1. Fills(file', n) = Fills(file, n)
    BY <1>1, <1>2 DEF Fills, Adds
  <2>2. SumFunctionOnSet(p, Fills(file, n)) = SumFunctionOnSet(q, Fills(file, n))
    BY <1>2, <1>3, SumAgrees
  <2> QED BY <1>4, <2>1, <2>2
<1>6. SumFunctionOnSet(p, Fills(file, Len(file))) = FilledTo(file, Len(file))
  <2>1. \A i \in Fills(file, Len(file)) : p[i] = q[i]
    BY <1>2, <1>3
  <2>2. SumFunctionOnSet(p, Fills(file, Len(file))) = SumFunctionOnSet(q, Fills(file, Len(file)))
    BY <1>3, <2>1, SumAgrees
  <2> QED BY <1>4, <2>2
<1>7. CASE e.kind = "FILL_SIMULATED"
  <2>1. Fills(file', m) = Fills(file, Len(file)) \cup {m}
    BY <1>1, <1>2, <1>7 DEF Fills, Adds, Of, Lines
  <2>2. m \notin Fills(file, Len(file))
    BY <1>2, <1>3
  <2>3. Numbers(p, Fills(file, Len(file)) \cup {m})
    BY <1>1, <1>2, <1>3 DEF Numbers
  <2>4. SumFunctionOnSet(p, Fills(file, Len(file)) \cup {m})
          = p[m] + SumFunctionOnSet(p, Fills(file, Len(file)))
    BY <1>3, <2>2, <2>3, SumAdd
  <2>5. FilledTo(file', m) = e.val + FilledTo(file, Len(file))
    BY <1>2, <1>4, <1>6, <2>1, <2>4
  <2>6. FilledTo(file, Len(file)) \in Int
    BY <1>3
  <2> QED BY <1>1, <1>5, <1>7, <2>5, <2>6
<1>8. CASE e.kind # "FILL_SIMULATED"
  <2>1. Fills(file', m) = Fills(file, Len(file))
    BY <1>1, <1>2, <1>8 DEF Fills, Adds, Of, Lines
  <2>2. FilledTo(file, Len(file)) \in Int
    BY <1>3
  <2> QED BY <1>4, <1>5, <1>6, <1>8, <2>1, <2>2
<1> QED BY <1>7, <1>8

\* A journal that has no gap had none before its last line, and what follows a
\* fill is its portfolio.
LEMMA GaplessBefore ==
    ASSUME TypeOK, NEW e, Adds(e), Len(file') = Len(file) + 1, Gapless(file'), OneSession'
    PROVE  /\ Gapless(file) /\ OneSession
           /\ OpenFill => e.kind = "PORTFOLIO_UPDATED"
<1>1. Len(file) \in Nat /\ Len(file') = Len(file) + 1
  BY DEF TypeOK
<1>2. OneSession
  BY DEF OneSession, Adds
<1>3. ASSUME NEW i \in Of(file, "FILL_SIMULATED") PROVE file'[i + 1].kind = "PORTFOLIO_UPDATED"
  <2>1. i \in Of(file', "FILL_SIMULATED") /\ i \in Lines(file)
    BY DEF Adds, Of
  <2>2. i < Len(file')
    BY <1>1, <2>1 DEF Adds
  <2> QED BY <2>1, <2>2 DEF Gapless
<1>4. Gapless(file)
  <2> SUFFICES ASSUME NEW i \in Of(file, "FILL_SIMULATED"), i < Len(file)
               PROVE  file[i + 1].kind = "PORTFOLIO_UPDATED"
    BY DEF Gapless
  <2>1. i + 1 \in Lines(file)
    BY <1>1 DEF Of, Lines
  <2> QED BY <1>3, <2>1 DEF Adds
<1>5. OpenFill => e.kind = "PORTFOLIO_UPDATED"
  BY <1>3 DEF OpenFill, Adds
<1> QED BY <1>2, <1>4, <1>5

\* What recovery restores from a journal without gaps is what its fills add up to.
LEMMA RestoresFills ==
    ASSUME TypeOK, Bounded, Gapless(file), ~OpenFill,
           \A j \in Of(file, "PORTFOLIO_UPDATED") : file[j].val = FilledTo(file, j)
    PROVE  RestoredPosition(file) = FilledTo(file, Len(file))
<1> DEFINE updates == Of(file, "PORTFOLIO_UPDATED")
           last == Newest(updates)
<1>1. Len(file) \in Nat /\ \A k : \A i \in Of(file, k) : i \in 1..Len(file)
  BY DEF TypeOK, Of, Lines
<1>2. ASSUME NEW i \in Of(file, "FILL_SIMULATED") PROVE i + 1 \in updates
  <2>1. i \in 1..Len(file) /\ i # Len(file)
    BY <1>1 DEF OpenFill
  <2>2. i < Len(file) /\ i + 1 \in Lines(file)
    BY <1>1, <2>1 DEF Lines
  <2> QED BY <2>2 DEF Gapless, Of
<1>3. CASE updates = {}
  <2>1. Fills(file, Len(file)) = {}
    BY <1>2, <1>3 DEF Fills
  <2> QED BY <1>3, <2>1, SumEmpty DEF FilledTo, RestoredPosition
<1>4. CASE updates # {}
  <2>1. last \in updates /\ \A j \in updates : j <= last
    <3>1. \E i \in updates : \A j \in updates : j <= i
      BY <1>4 DEF Bounded
    <3> QED BY <3>1 DEF Newest
  <2>2. ASSUME NEW i \in Of(file, "FILL_SIMULATED") PROVE i <= last /\ i <= Len(file)
    <3>1. i + 1 <= last /\ i \in 1..Len(file) /\ last \in 1..Len(file)
      BY <1>1, <1>2, <2>1
    <3> QED BY <1>1, <3>1
  <2>3. Fills(file, last) = Fills(file, Len(file))
    BY <2>2 DEF Fills
  <2>4. RestoredPosition(file) = file[last].val
    BY <1>4 DEF RestoredPosition
  <2> QED BY <2>1, <2>3, <2>4 DEF FilledTo
<1> QED BY <1>3, <1>4

\* What a step adds to the file, with the length it then has.
LEMMA FileGrows ==
    ASSUME TypeOK, [Next]_vars
    PROVE  \/ file' = file
           \/ \E e \in Entries :
                 /\ Adds(e) /\ Len(file') = Len(file) + 1
                 /\ \/ e.kind = "NOTE" /\ pc \in {"idle", "failed"}
                    \/ /\ pc \in Appending
                       /\ e.kind = Due.kind /\ e.val = Due.val
<1>1. file \in Seq(Entries)
  BY DEF TypeOK
<1>2. \A e \in Entries : Len(Append(file, e)) = Len(file) + 1
  BY <1>1, AppendLines
<1> QED BY <1>2, FileSteps

\* A session has lines once it has been started.
LEMMA OpenedNext == TypeOK /\ Chained /\ Opened /\ [Next]_vars => Opened'
<1> SUFFICES ASSUME TypeOK, Chained, Opened, [Next]_vars PROVE Opened'
  OBVIOUS
<1> DEFINE Early == {"off", "made", "start", "unsealed"}
<1>0. Len(file) \in Nat /\ (file # <<>> => Len(file) # 0)
  <2>1. file \in Seq(Entries)
    BY DEF TypeOK
  <2> QED BY <2>1, EmptySeq
<1>1. CASE file' = file
  <2>1. ASSUME Len(file) = 0 PROVE pc' \in Early
    <3>1. pc \in Early /\ file = <<>>
      BY <1>0, <2>1 DEF Opened
    <3>2. ASSUME Journals PROVE FALSE
      <4>1. Len(file) + 1 \in Lines(file')
        BY <3>2, JournalAdds DEF Adds
      <4> QED BY <1>1, <2>1, <4>1 DEF Lines
    <3>3. Construct \/ Start \/ AppendFails \/ Die \/ UNCHANGED vars
      BY <3>1, <3>2 DEF Next, Journals, Recover, Connect, Disconnect, RefuseBar, AdmitBar, Polls,
         SystemEvent, Stop, JournalStop, Seal, SealFails
    <3>4. CASE AppendFails
      BY <3>1, <3>4 DEF AppendFails, Appending
    <3> QED BY <3>1, <3>3, <3>4 DEF Construct, Start, Die, vars
  <2> QED BY <1>1, <2>1 DEF Opened
<1>2. ASSUME NEW e \in Entries, Adds(e), Len(file') = Len(file) + 1,
             \/ e.kind = "NOTE" /\ pc \in {"idle", "failed"}
             \/ pc \in Appending /\ e.kind = Due.kind
      PROVE  Opened'
  <2>1. Len(file') # 0
    BY <1>0, <1>2
  <2>2. CASE Len(file) # 0
    BY <1>2, <2>1, <2>2 DEF Opened, Adds
  <2>3. CASE Len(file) = 0
    <3>1. pc = "start" /\ pc \in Appending /\ e.kind = Due.kind
      BY <1>2, <2>3 DEF Opened, Appending
    <3>2. e.kind = "SESSION_STARTED"
      BY <3>1, DueType
    <3> QED BY <1>2, <2>1, <2>3, <3>2 DEF Opened, Adds
  <2> QED BY <2>2, <2>3
<1> QED BY <1>1, <1>2, FileGrows

\* The journal that stop() could read stays readable, and only grows.
LEMMA StoppingNext == TypeOK /\ Stopping /\ [Next]_vars => Stopping'
<1> SUFFICES ASSUME TypeOK, Stopping, [Next]_vars PROVE Stopping'
  OBVIOUS
<1>0. file \in Seq(Entries) /\ Len(file) \in Nat
  BY DEF TypeOK
<1>1. pc' \in {"reconcile", "stop", "seal"} => Readable(file')
  <2>1. CASE Stop
    BY <2>1 DEF Stop
  <2>2. CASE JournalStop
    <3>1. /\ Readable(file) /\ pc \in Appending
          /\ file' = Written(file, Due)
      BY <2>2 DEF JournalStop, Appends, Stopping, Appending
    <3>2. Due \in Entries /\ Due.text = "whole"
      BY <3>1, DueType
    <3>3. ASSUME file' = Append(file, Due) PROVE Readable(file')
      <4> SUFFICES ASSUME NEW i \in Lines(file') PROVE file'[i].text = "whole"
        BY DEF Readable
      <4>1. CASE i = Len(file) + 1
        BY <1>0, <3>2, <3>3, <4>1, AppendLines
      <4>2. CASE i \in Lines(file)
        <5>1. file'[i] = file[i]
          BY <1>0, <3>2, <3>3, <4>2, AppendKeeps
        <5> QED BY <3>1, <4>2, <5>1 DEF Readable
      <4>3. Lines(file') = Lines(file) \cup {Len(file) + 1}
        BY <1>0, <3>2, <3>3, AppendLines
      <4> QED BY <4>1, <4>2, <4>3
    <3>4. ASSUME file' = file PROVE Readable(file')
      BY <3>1, <3>4
    <3>5. file' = file \/ file' = Append(file, Due)
      BY <3>1, WrittenCases
    <3> QED BY <3>3, <3>4, <3>5
  <2>3. CASE UNCHANGED vars
    BY <2>3 DEF vars, Stopping
  <2>4. CASE ~(Stop \/ JournalStop \/ UNCHANGED vars)
    BY <2>4 DEF Next, Construct, Start, Recover, JournalOpening, Connect, Disconnect, JournalFeed,
       RefuseBar, AdmitBar, JournalRefusal, JournalBar, JournalSignal, JournalRisk, JournalIntent,
       JournalFill, JournalPortfolio, JournalKill, SystemEvent, Seal, SealFails, AppendFails, Die
  <2> QED BY <2>1, <2>2, <2>3, <2>4
<1>2. Len(file') \in Nat /\ Len(file) <= Len(file')
  BY <1>0, FileGrows
<1>3. manifest' \in {manifest, None} \/ manifest'.lines = Len(file)
  BY DEF Next, Construct, Start, Recover, JournalOpening, Connect, Disconnect, JournalFeed,
       RefuseBar, AdmitBar, JournalRefusal, JournalBar, JournalSignal, JournalRisk, JournalIntent,
       JournalFill, JournalPortfolio, JournalKill, SystemEvent, Stop, JournalStop, Seal, SealFails,
       AppendFails, Die, Appends, vars
<1>4. manifest' # None => manifest'.lines \in 0..Len(file')
  BY <1>0, <1>2, <1>3 DEF Stopping
<1> QED BY <1>1, <1>4 DEF Stopping

\* The position of a call that is under way, and the fill it may have left uncounted.
Exempt == {"off", "made", "start", "recover", "unsealed", "sealed"}
Balanced == pc \in Exempt \/ position = FilledTo(file, Len(file)) \/ Uncounted

\* The memory of the session follows the fills.
LEMMA BalancedNext ==
    ASSUME TypeOK, Chained, Blank, Bounded, Mirrored, Stopping, Books, [Next]_vars,
           Gapless(file'), OneSession'
    PROVE  Balanced'
<1> DEFINE n == Len(file)
<1>0. file \in Seq(Entries) /\ n \in Nat /\ n \in 0..n
  BY DEF TypeOK
\* What an added line does, if the journal had no gap before it.
<1>1. ASSUME NEW e \in Entries, Adds(e), Len(file') = n + 1
      PROVE  /\ Gapless(file) /\ OneSession /\ Balanced
             /\ OpenFill => e.kind = "PORTFOLIO_UPDATED"
             /\ e.kind = "FILL_SIMULATED" => FilledTo(file', Len(file')) = FilledTo(file, n) + e.val
             /\ e.kind # "FILL_SIMULATED" => FilledTo(file', Len(file')) = FilledTo(file, n)
  <2>1. FilledTo(file, n) \in Int
    BY FillsAdd
  <2>2. Gapless(file) /\ OneSession /\ (OpenFill => e.kind = "PORTFOLIO_UPDATED")
    BY <1>1, GaplessBefore
  <2>3. Balanced
    BY <2>2 DEF Books, Balanced, Exempt
  <2>4. FilledTo(file', n + 1) = FilledTo(file, n) + (IF e.kind = "FILL_SIMULATED" THEN e.val ELSE 0)
    BY <1>1, FilledAdds
  <2> QED BY <1>1, <2>1, <2>2, <2>3, <2>4
\* A step that leaves file and memory keeps what they say.
<1>2. ASSUME file' = file, position' = position, pc \notin Exempt,
             pc \in {"failed", "reconcile"} => pc' \in {"failed", "reconcile"} \cup Exempt
      PROVE  Balanced'
  <2>1. Gapless(file) /\ OneSession
    BY <1>2 DEF OneSession
  <2>2. position = FilledTo(file, n) \/ Uncounted
    BY <1>2, <2>1 DEF Books, Exempt
  <2>3. position' = FilledTo(file, n)' \/ (pc \in {"failed", "reconcile"} /\ OpenFill')
    BY <1>2, <2>2 DEF Uncounted, OpenFill
  <2> QED BY <1>2, <2>3 DEF Balanced, Uncounted, Exempt
<1>3. CASE Journals
  <2>1. /\ pc \in Appending /\ pc \in Live \cup {"start"} /\ Adds(Due) /\ Due \in Entries
        /\ Len(file') = n + 1
    BY <1>0, <1>3, JournalAdds, DueType, AppendLines
  <2>2. /\ Gapless(file) /\ OneSession /\ Balanced
        /\ OpenFill => Due.kind = "PORTFOLIO_UPDATED"
        /\ Due.kind = "FILL_SIMULATED" => FilledTo(file', Len(file')) = FilledTo(file, n) + Due.val
        /\ Due.kind # "FILL_SIMULATED" => FilledTo(file', Len(file')) = FilledTo(file, n)
    BY <1>1, <2>1
  <2>3. /\ Due.kind = "FILL_SIMULATED" <=> pc = "fill"
        /\ Due.kind = "PORTFOLIO_UPDATED" <=> pc = "portfolio"
        /\ Due.kind = "SESSION_STARTED" <=> pc = "start"
        /\ pc = "fill" => Due.val = ctx.dir
    BY <2>1, DueType
  <2>4. position = FilledTo(file, n)
    <3>1. CASE pc = "start"
      <4>1. n + 1 = 1
        BY <2>1, <2>3, <3>1 DEF Adds, OneSession
      <4>2. Fills(file, n) = {}
        BY <1>0, <4>1 DEF Fills, Of, Lines
      <4>3. position = 0
        BY <3>1 DEF Blank
      <4> QED BY <4>2, <4>3, SumEmpty DEF FilledTo
    <3>2. CASE pc = "recover"
      <4>1. ~OpenFill
        BY <2>2, <2>3, <3>2
      <4>2. position = RestoredPosition(file)
        BY <2>2, <3>2 DEF Mirrored, Live, OneSession
      <4>3. \A j \in Of(file, "PORTFOLIO_UPDATED") : file[j].val = FilledTo(file, j)
        BY <2>2 DEF Books
      <4> QED BY <2>2, <4>1, <4>2, <4>3, RestoresFills
    <3>3. CASE pc \notin {"start", "recover"}
      BY <2>1, <2>2, <3>3 DEF Balanced, Exempt, Uncounted, Live, Deciding
    <3> QED BY <3>1, <3>2, <3>3
  <2>5. position' = FilledTo(file', Len(file'))
    <3>1. CASE pc = "fill"
      <4>1. position' = position + ctx.dir
        BY <1>3, <3>1 DEF Journals, JournalOpening, JournalFeed, JournalRefusal, JournalBar,
           JournalSignal, JournalRisk, JournalIntent, JournalFill, JournalPortfolio, JournalKill
      <4> QED BY <2>2, <2>3, <2>4, <3>1, <4>1
    <3>2. CASE pc # "fill"
      <4>1. position' = position
        BY <1>3, <3>2 DEF Journals, JournalOpening, JournalFeed, JournalRefusal, JournalBar,
           JournalSignal, JournalRisk, JournalIntent, JournalFill, JournalPortfolio, JournalKill, memory
      <4> QED BY <2>2, <2>3, <2>4, <3>2, <4>1
    <3> QED BY <3>1, <3>2
  <2> QED BY <2>5 DEF Balanced
<1>4. CASE SystemEvent \/ JournalStop
  <2> DEFINE e == IF SystemEvent THEN NoteLine ELSE Due
  <2>1. /\ pc \in {"idle", "failed", "reconcile", "stop"} /\ position' = position
        /\ file' = Written(file, e)
        /\ pc' = pc \/ pc' \in {"stop", "seal"}
    BY <1>4 DEF SystemEvent, JournalStop, Appends, memory, NoteLine
  <2>2. e \in Entries /\ e.kind = "NOTE"
    <3>1. CASE SystemEvent
      BY <3>1, NoteType
    <3>2. CASE ~SystemEvent
      <4>1. pc \in {"reconcile", "stop"}
        BY <1>4, <3>2 DEF JournalStop
      <4> QED BY <3>2, <4>1, DueType DEF Appending, Due, Entry
    <3> QED BY <3>1, <3>2
  <2>3. CASE file' = Append(file, e)
    <3>1. Adds(e) /\ Len(file') = n + 1
      BY <1>0, <2>2, <2>3, AppendAdds, AppendLines
    <3>2. /\ Balanced /\ ~OpenFill
          /\ FilledTo(file', Len(file')) = FilledTo(file, n)
      BY <1>1, <2>2, <3>1
    <3> QED BY <2>1, <3>2 DEF Balanced, Exempt, Uncounted
  <2>4. CASE file' = file
    <3>1. pc' = pc
      <4>1. ASSUME JournalStop PROVE FALSE
        <5>1. Readable(file) /\ Len(file) \in Nat
          BY <1>0, <4>1 DEF JournalStop, Stopping
        <5>2. file = <<>> \/ file[n].text = "whole"
          <6>1. file # <<>> => n \in Lines(file)
            BY <1>0, EmptySeq DEF Lines
          <6> QED BY <5>1, <6>1 DEF Readable
        <5>3. Len(file') = n + 1
          BY <1>0, <2>1, <2>2, <5>2, AppendLines DEF Written
        <5> QED BY <1>0, <2>4, <5>3
      <4> QED BY <1>4, <4>1 DEF SystemEvent
    <3> QED BY <1>2, <2>1, <2>4, <3>1 DEF Exempt
  <2> QED BY <2>1, <2>3, <2>4, WrittenCases
<1>5. CASE AppendFails /\ pc' \notin Exempt
  <2>1. /\ pc' = "failed" /\ position' = position
        /\ pc \in Appending /\ pc \notin Exempt
        /\ pc \notin {"failed", "reconcile", "stop"}
    BY <1>5 DEF AppendFails, memory, Exempt, Appending
  <2>2. CASE file' = file
    BY <1>2, <2>1, <2>2
  <2>3. ASSUME NEW e \in Entries, Adds(e), Len(file') = n + 1,
               e.kind = "NOTE" \/ e.kind = Due.kind
        PROVE  Balanced'
    <3>1. Balanced /\ (e.kind # "FILL_SIMULATED" => FilledTo(file', Len(file')) = FilledTo(file, n))
      BY <1>1, <2>3
    <3>2. position = FilledTo(file, n)
      BY <2>1, <3>1 DEF Balanced, Uncounted
    <3>3. CASE e.kind = "FILL_SIMULATED"
      BY <2>1, <2>3, <3>3 DEF Adds, Balanced, Uncounted, OpenFill
    <3>4. CASE e.kind # "FILL_SIMULATED"
      BY <2>1, <3>1, <3>2, <3>4 DEF Balanced
    <3> QED BY <3>3, <3>4
  <2> QED BY <2>2, <2>3, FileGrows
<1>6. CASE Connect \/ Disconnect \/ RefuseBar \/ (\E b \in Bars : AdmitBar(b)) \/ Stop
           \/ UNCHANGED vars
  <2>1. CASE pc \in Exempt
    BY <1>6, <2>1 DEF Connect, Disconnect, RefuseBar, AdmitBar, Polls, Stop, vars, Exempt, Balanced
  <2>2. CASE pc \notin Exempt
    <3>1. file' = file /\ position' = position
      BY <1>6 DEF Connect, Disconnect, RefuseBar, AdmitBar, Polls, Stop, vars, memory
    <3>2. pc \in {"failed", "reconcile"} => pc' \in {"failed", "reconcile"} \cup Exempt
      BY <1>6 DEF Connect, Disconnect, RefuseBar, AdmitBar, Polls, Stop, vars, Exempt
    <3> QED BY <1>2, <2>2, <3>1, <3>2
  <2> QED BY <2>1, <2>2
<1>7. CASE pc' \in Exempt
  BY <1>7 DEF Balanced, Exempt
<1>8. CASE Construct \/ Start \/ Recover \/ Seal \/ SealFails \/ Die
  BY <1>7, <1>8 DEF Construct, Start, Recover, Seal, SealFails, Die, Exempt
<1> QED BY <1>3, <1>4, <1>5, <1>6, <1>7, <1>8 DEF Next, Journals

\* So do the portfolio lines and the manifest.
LEMMA BooksNext ==
    TypeOK /\ Chained /\ Blank /\ Bounded /\ Mirrored /\ Stopping /\ Books /\ [Next]_vars => Books'
<1> SUFFICES ASSUME TypeOK, Chained, Blank, Bounded, Mirrored, Stopping, Books, [Next]_vars,
                    Gapless(file'), OneSession'
             PROVE  /\ \A j \in Of(file', "PORTFOLIO_UPDATED") : file'[j].val = FilledTo(file', j)
                    /\ Balanced'
                    /\ manifest' # None => manifest'.position = FilledTo(file', manifest'.lines)
  BY DEF Books, Balanced, Exempt
<1> DEFINE n == Len(file)
<1>0. n \in Nat
  BY DEF TypeOK
<1>1. Balanced'
  BY BalancedNext
<1>2. /\ Gapless(file) /\ OneSession
      /\ \A i \in 0..n : FilledTo(file', i) = FilledTo(file, i)
  BY FileGrows, GaplessBefore, FilledAdds DEF OneSession
<1>3. /\ \A j \in Of(file, "PORTFOLIO_UPDATED") : file[j].val = FilledTo(file, j)
      /\ Balanced
      /\ manifest # None => manifest.position = FilledTo(file, manifest.lines)
  BY <1>2 DEF Books, Balanced, Exempt
<1>4. ASSUME NEW j \in Of(file', "PORTFOLIO_UPDATED") PROVE file'[j].val = FilledTo(file', j)
  <2>1. CASE file' = file
    BY <1>3, <1>4, <2>1
  <2>2. ASSUME NEW e \in Entries, Adds(e), Len(file') = n + 1,
               \/ e.kind = "NOTE"
               \/ pc \in Appending /\ e.kind = Due.kind /\ e.val = Due.val
        PROVE  file'[j].val = FilledTo(file', j)
    <3>1. CASE j \in Of(file, "PORTFOLIO_UPDATED")
      <4>1. file'[j] = file[j] /\ j \in 0..n
        BY <1>0, <2>2, <3>1 DEF Adds, Of, Lines
      <4> QED BY <1>2, <1>3, <3>1, <4>1
    <3>2. CASE j = n + 1 /\ e.kind = "PORTFOLIO_UPDATED"
      <4>1. pc = "portfolio" /\ e.val = position
        BY <2>2, <3>2, DueType
      <4>2. position = FilledTo(file, n) /\ FilledTo(file, n) \in Int
        BY <1>3, <4>1, FillsAdd DEF Balanced, Exempt, Uncounted
      <4>3. FilledTo(file', n + 1) = FilledTo(file, n) + 0
        BY <2>2, <3>2, FilledAdds
      <4>4. file'[j] = e
        BY <2>2, <3>2 DEF Adds
      <4> QED BY <3>2, <4>1, <4>2, <4>3, <4>4
    <3> QED BY <1>4, <2>2, <3>1, <3>2 DEF Adds
  <2> QED BY <2>1, <2>2, FileGrows
<1>5. ASSUME manifest' # None PROVE manifest'.position = FilledTo(file', manifest'.lines)
  <2>1. CASE Seal
    <3>1. pc = "seal" /\ file' = file /\ manifest'.lines = n /\ manifest'.position = position
      BY <2>1 DEF Seal
    <3>2. position = FilledTo(file, n)
      BY <1>3, <3>1 DEF Balanced, Exempt, Uncounted
    <3> QED BY <3>1, <3>2
  <2>2. CASE ~Seal
    <3>1. manifest' = manifest
      BY <1>5, <2>2 DEF Next, Construct, Start, Recover, JournalOpening, Connect, Disconnect,
         JournalFeed, RefuseBar, AdmitBar, JournalRefusal, JournalBar, JournalSignal, JournalRisk,
         JournalIntent, JournalFill, JournalPortfolio, JournalKill, SystemEvent, Stop, JournalStop,
         SealFails, AppendFails, Die, Appends, vars
    <3>2. manifest.lines \in 0..n
      BY <1>5, <3>1 DEF Stopping
    <3> QED BY <1>2, <1>3, <1>5, <3>1, <3>2
  <2> QED BY <2>1, <2>2
<1> QED BY <1>1, <1>4, <1>5

\* A passed manifest reports the position its fills add up to, unless the
\* journal has a FILL_SIMULATED whose PORTFOLIO_UPDATED is missing, through any
\* number of processes, recoveries and failing appends.
THEOREM HiddenFillsLeaveAGap == Spec => [](Gapless(file) => PassMeansFillsCounted)
<1>1. Init => Opened /\ Stopping /\ Books
  <2> SUFFICES ASSUME Init PROVE Opened /\ Stopping /\ Books
    OBVIOUS
  <2>1. Len(file) = 0 /\ manifest = None /\ pc = "off"
    BY DEF Init
  <2>2. \A k : Of(file, k) = {}
    BY <2>1 DEF Of, Lines
  <2> QED BY <2>1, <2>2 DEF Opened, Stopping, Books
<1>2. IInv /\ (Opened /\ Stopping /\ Books) /\ [Next]_vars => (Opened /\ Stopping /\ Books)'
  BY OpenedNext, StoppingNext, BooksNext DEF IInv
<1>3. ASSUME IInv, Opened, Stopping, Books, Gapless(file) PROVE PassMeansFillsCounted
  <2> SUFFICES ASSUME manifest # None, Cardinality(Of(file, "SESSION_STARTED")) = 1
               PROVE  manifest.position = FilledTo(file, manifest.lines)
    BY DEF PassMeansFillsCounted, FilledTo, Fills
  <2>1. Len(file) \in Nat /\ IsFiniteSet(Of(file, "SESSION_STARTED"))
    <3>1. Len(file) \in Nat
      BY <1>3 DEF IInv, TypeOK
    <3>2. IsFiniteSet(1..Len(file))
      BY <3>1, FS_Interval
    <3>3. Of(file, "SESSION_STARTED") \subseteq 1..Len(file)
      BY DEF Of, Lines
    <3> QED BY <3>1, <3>2, <3>3, FS_Subset
  <2>2. PICK k : Of(file, "SESSION_STARTED") = {k}
    BY <2>1, FS_Singleton
  <2>3. Len(file) # 0
    BY <2>1, <2>2 DEF Of, Lines
  <2>4. 1 \in Of(file, "SESSION_STARTED")
    BY <1>3, <2>3 DEF Opened
  <2>5. OneSession
    BY <2>2, <2>4 DEF OneSession
  <2> QED BY <1>3, <2>5 DEF Books
<1> QED BY <1>1, <1>2, <1>3, Invariant, PTL DEF Spec
=============================================================================
