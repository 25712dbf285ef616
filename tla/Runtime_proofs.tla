--------------------------- MODULE Runtime_proofs ---------------------------
(***************************************************************************)
(* Theorems about Runtime for any set of cycle ids and any number of       *)
(* failing appends and crashes.                                            *)
(*                                                                         *)
(* What the ledger tells of admissions is decided in Admit and written in  *)
(* Record, which may be several handlers later.  Once is what keeps a      *)
(* cycle from being admitted in between, Chain what a ledger without a     *)
(* failed append looks like to the process that appends to it, and Told    *)
(* carries the answer of the hook to the line.                             *)
(*                                                                         *)
(* Remembered says that a process which was never restarted knows every    *)
(* cycle on file; it is what is left of DuplicatePulseSkipped.             *)
(*                                                                         *)
(* CyclesRunOut is the part of CycleReleased that needs no fairness.       *)
(***************************************************************************)
EXTENDS Runtime, SequenceTheorems, TLAPS

\* A cycle in the pipeline holds the lock and has not completed.
Shape ==
    /\ pc \in Stages \cup {"record", "complete"} => active \in Cycles
    /\ pc = "record" => tries \in 1..3
    /\ pc = "down" => active = None /\ done = {}
    /\ active \notin done

\* A cycle that the hook has admitted is completed or past the hook.
Once ==
    \A c \in Cycles :
        /\ hooked[c] <= 1
        /\ hooked[c] > 0 => c \in done \/ (c = active /\ pc \notin Stages)

\* While no append has failed, the file is a chain, and the ledger knows it.
Chain ==
    faults = 0 =>
        /\ \A i \in 1..Len(file) : file[i].text = "whole" /\ file[i].seq + 1 = i
        /\ \A i, j \in 1..Len(file) : file[i].cycle = file[j].cycle => i = j
        /\ pc # "down" => expected = Len(file) /\ recorded = RecordedIn(file)

Success(c) == \E i \in 1..Len(file) : file[i].cycle = c /\ file[i].outcome = "SUCCESS"

\* While no append has failed, the outcome to be recorded is the hook's, and so
\* is the one that is in the ledger.
Told ==
    faults = 0 =>
        /\ pc = "record" /\ Accepted => (hooked[active] > 0 <=> outcome = "SUCCESS")
        /\ pc = "complete" => (hooked[active] > 0 <=> Success(active))
        /\ \A c \in done : hooked[c] > 0 <=> Success(c)

\* A vetoed cycle does not get past the switch.
Veto ==
    /\ vetoed => blocked
    /\ pc \in {"risk", "admission"} => ~vetoed

IInv == TypeOK /\ Shape /\ Once /\ Chain /\ Told /\ Veto

-----------------------------------------------------------------------------
\* A line is a line, and writing one leaves a file of lines.
LEMMA LineType ==
    ASSUME TypeOK, active \in Cycles, NEW t \in {"whole", "bare", "torn"}
    PROVE  Line(t) \in Lines
BY DEF TypeOK, Line, Lines

\* What is written to a file of lines leaves a file of lines.
LEMMA WrittenType ==
    ASSUME NEW f \in Seq(Lines), NEW x \in Lines
    PROVE  Written(f, x) \in Seq(Lines)
<1>0. Len(f) \in Nat
  OBVIOUS
<1>1. CASE f = <<>> \/ f[Len(f)].text = "whole"
  BY <1>1 DEF Written
<1>2. CASE ~(f = <<>> \/ f[Len(f)].text = "whole")
  <2> DEFINE y == [f[Len(f)] EXCEPT !.text = "torn"]
  <2>1. Written(f, x) = [f EXCEPT ![Len(f)] = y]
    BY <1>2 DEF Written
  <2>2. Len(f) \in 1..Len(f)
    BY <1>0, <1>2, EmptySeq
  <2>3. f[Len(f)] \in Lines
    BY <2>2
  <2>4. y \in Lines
    BY <2>3 DEF Lines
  <2> QED BY <2>1, <2>2, <2>4
<1> QED BY <1>1, <1>2

\* A process that starts on an empty ledger satisfies the invariant.
LEMMA IInvInit == Init => IInv
<1> SUFFICES ASSUME Init PROVE IInv
  OBVIOUS
<1> USE RuntimeAssumption
<1>1. Len(file) = 0 /\ file \in Seq(Lines)
  BY DEF Init
<1>2. TypeOK
  <2>1. hooked \in [Cycles -> Nat]
    BY DEF Init
  <2>2. faults \in 0..MaxFaults /\ crashes \in 0..MaxCrashes /\ tries \in 0..3
    BY DEF Init
  <2>3. expected \in Nat /\ sequence \in Nat
    BY DEF Init
  <2> QED BY <1>1, <2>1, <2>2, <2>3 DEF Init, TypeOK, Outcomes
<1>3. Shape
  BY DEF Init, Shape, Stages
<1>4. Once
  <2>1. \A c \in Cycles : hooked[c] = 0
    BY DEF Init
  <2>2. ASSUME NEW c \in Cycles PROVE hooked[c] <= 1 /\ ~(hooked[c] > 0)
    <3>1. hooked[c] = 0
      BY <2>1
    <3> QED BY <3>1
  <2> QED BY <2>2 DEF Once
<1>5. Chain
  BY <1>1 DEF Init, Chain, RecordedIn
<1>6. Told
  BY DEF Init, Told
<1>7. Veto
  BY DEF Init, Veto
<1> QED BY <1>2, <1>3, <1>4, <1>5, <1>6, <1>7 DEF IInv

-----------------------------------------------------------------------------
\* The types, action by action.
LEMMA TypeNext == TypeOK /\ Shape /\ [Next]_vars => TypeOK'
<1> SUFFICES ASSUME TypeOK, Shape, [Next]_vars PROVE TypeOK'
  OBVIOUS
<1> USE RuntimeAssumption
<1>1. ASSUME StartDaemon \/ StopDaemon PROVE TypeOK'
  BY <1>1 DEF TypeOK, StartDaemon, StopDaemon, pipeVars, schedVars, ledgerVars, countVars
<1>2. ASSUME NEW c \in Cycles, Pulse(c) PROVE TypeOK'
  BY <1>2 DEF TypeOK, Pulse, outsideVars, ledgerVars, countVars, Stages
<1>3. ASSUME Census \/ CheckSwitch \/ Risk PROVE TypeOK'
  BY <1>3 DEF TypeOK, Census, CheckSwitch, Risk, Leave, outsideVars, schedVars, ledgerVars,
              countVars, Stages, Outcomes
<1>4. ASSUME Admit PROVE TypeOK'
  <2>1. hooked' \in [Cycles -> Nat]
    BY <1>4 DEF TypeOK, Shape, Admit, Stages
  <2> QED BY <1>4, <2>1 DEF TypeOK, Admit, Leave, outsideVars, schedVars, ledgerVars,
              countVars, Outcomes
<1>5. ASSUME Record PROVE TypeOK'
  <2>1. active \in Cycles
    BY <1>5 DEF Record, Shape
  <2>2. file' \in Seq(Lines)
    BY <1>5, <2>1, LineType, WrittenType DEF Record, TypeOK
  <2>3. expected' \in Nat /\ recorded' \subseteq Cycles
    BY <1>5, <2>1 DEF Record, TypeOK
  <2> QED BY <1>5, <2>2, <2>3 DEF TypeOK, Record, outsideVars, schedVars, countVars
<1>6. ASSUME NextHandler, pc = "record"
      PROVE  /\ pc' \in {"idle", "record"} /\ outcome' \in Outcomes /\ tries' \in 0..3
  <2>1. tries' \in 0..3
    BY <1>6 DEF NextHandler, Shape
  <2> QED BY <1>6, <2>1 DEF NextHandler, Outcomes
<1>7. ASSUME RecordRefused PROVE TypeOK'
  BY <1>6, <1>7 DEF TypeOK, RecordRefused, outsideVars, schedVars, ledgerVars, countVars
<1>8. ASSUME RecordFails PROVE TypeOK'
  <2>1. active \in Cycles
    BY <1>8 DEF RecordFails, Shape
  <2>2. file' \in Seq(Lines)
    BY <1>8, <2>1, LineType, WrittenType DEF RecordFails, TypeOK
  <2>3. faults' \in 0..MaxFaults
    BY <1>8 DEF RecordFails, TypeOK
  <2> QED BY <1>6, <1>8, <2>2, <2>3 DEF TypeOK, RecordFails, outsideVars, schedVars
<1>9. ASSUME Complete PROVE TypeOK'
  BY <1>9 DEF TypeOK, Shape, Complete, outsideVars, ledgerVars, countVars
<1>10. ASSUME SetHealth \/ Switch PROVE TypeOK'
  BY <1>10 DEF TypeOK, SetHealth, Switch, pipeVars, schedVars, ledgerVars, countVars
<1>11. ASSUME Crash PROVE TypeOK'
  <2>1. hooked' \in [Cycles -> Nat]
    BY <1>11 DEF Crash
  <2>2. crashes' \in 0..MaxCrashes /\ expected' \in Nat /\ sequence' \in Nat /\ tries' \in 0..3
    BY <1>11 DEF Crash, TypeOK
  <2> QED BY <1>11, <2>1, <2>2 DEF TypeOK, Crash, Outcomes
<1>12. ASSUME Restart PROVE TypeOK'
  <2>0. file \in Seq(Lines)
    BY DEF TypeOK
  <2>1. Len(file) \in Nat
    BY <2>0
  <2>2. \A i \in 1..Len(file) : file[i] \in Lines
    BY <2>0
  <2>3. \A i \in 1..Len(file) : file[i].cycle \in Cycles
    BY <2>2 DEF Lines
  <2>4. RecordedIn(file) \subseteq Cycles
    BY <2>3 DEF RecordedIn
  <2> QED BY <1>12, <2>1, <2>4 DEF TypeOK, Restart, Replay, outsideVars, countVars
<1>13. ASSUME UNCHANGED vars PROVE TypeOK'
  BY <1>13 DEF TypeOK, vars, pipeVars, outsideVars, schedVars, ledgerVars, countVars
<1> QED BY <1>1, <1>2, <1>3, <1>4, <1>5, <1>7, <1>8, <1>9, <1>10, <1>11, <1>12, <1>13
        DEF Next, CycleStep

\* The cycle lock.
LEMMA ShapeNext == TypeOK /\ Shape /\ [Next]_vars => Shape'
<1> SUFFICES ASSUME TypeOK, Shape, [Next]_vars PROVE Shape'
  OBVIOUS
<1> USE RuntimeAssumption
<1>1. ASSUME StartDaemon \/ StopDaemon \/ SetHealth \/ Switch \/ UNCHANGED vars PROVE Shape'
  BY <1>1 DEF Shape, StartDaemon, StopDaemon, SetHealth, Switch, vars, pipeVars, schedVars
<1>2. ASSUME NEW c \in Cycles, Pulse(c) PROVE Shape'
  BY <1>2 DEF Shape, Pulse, Stages
<1>3. ASSUME Census \/ CheckSwitch \/ Risk \/ Admit PROVE Shape'
  BY <1>3 DEF Shape, Census, CheckSwitch, Risk, Admit, Leave, schedVars, Stages
<1>4. ASSUME Record PROVE Shape'
  BY <1>4 DEF Shape, Record, schedVars
<1>5. ASSUME RecordRefused \/ RecordFails PROVE Shape'
  BY <1>5 DEF Shape, RecordRefused, RecordFails, NextHandler, schedVars, Stages
<1>6. ASSUME Complete PROVE Shape'
  BY <1>6 DEF Shape, Complete, TypeOK, Stages
<1>7. ASSUME Crash \/ Restart PROVE Shape'
  BY <1>7 DEF Shape, Crash, Restart, Stages
<1> QED BY <1>1, <1>2, <1>3, <1>4, <1>5, <1>6, <1>7 DEF Next, CycleStep

\* One admission for each cycle and process.
LEMMA OnceNext == TypeOK /\ Shape /\ Once /\ [Next]_vars => Once'
<1> SUFFICES ASSUME TypeOK, Shape, Once, [Next]_vars PROVE Once'
  OBVIOUS
<1> USE RuntimeAssumption
<1>1. ASSUME StartDaemon \/ StopDaemon \/ SetHealth \/ Switch \/ UNCHANGED vars PROVE Once'
  BY <1>1 DEF Once, StartDaemon, StopDaemon, SetHealth, Switch, vars, pipeVars, schedVars
<1>2. ASSUME NEW c \in Cycles, Pulse(c) PROVE Once'
  BY <1>2 DEF Once, Pulse
<1>3. ASSUME Census \/ CheckSwitch \/ Risk PROVE Once'
  BY <1>3 DEF Once, Census, CheckSwitch, Risk, Leave, schedVars, Stages
<1>4. ASSUME Admit PROVE Once'
  <2>1. active \in Cycles /\ active \notin done /\ pc \in Stages
    BY <1>4 DEF Admit, Shape, Stages
  <2>2. hooked[active] = 0
    BY <2>1 DEF Once, TypeOK
  <2>3. pc' = "record" /\ UNCHANGED <<active, done>>
    BY <1>4 DEF Admit, Leave, schedVars
  <2>4. CASE hooked' = [hooked EXCEPT ![active] = @ + 1]
    <3> SUFFICES ASSUME NEW c \in Cycles
                 PROVE  /\ hooked'[c] <= 1
                        /\ hooked'[c] > 0 => c \in done' \/ (c = active' /\ pc' \notin Stages)
      BY DEF Once
    <3>1. CASE c = active
      BY <2>1, <2>2, <2>3, <2>4, <3>1 DEF TypeOK, Stages
    <3>2. CASE c # active
      BY <2>1, <2>3, <2>4, <3>2 DEF Once, TypeOK
    <3> QED BY <3>1, <3>2
  <2>5. CASE UNCHANGED hooked
    BY <2>3, <2>5 DEF Once, Stages
  <2> QED BY <1>4, <2>4, <2>5 DEF Admit
<1>5. ASSUME Record \/ RecordRefused \/ RecordFails PROVE Once'
  BY <1>5 DEF Once, Record, RecordRefused, RecordFails, NextHandler, schedVars, Stages
<1>6. ASSUME Complete PROVE Once'
  BY <1>6 DEF Once, Complete
<1>7. ASSUME Crash PROVE Once'
  BY <1>7 DEF Once, Crash
<1>8. ASSUME Restart PROVE Once'
  BY <1>8 DEF Once, Restart, Stages
<1> QED BY <1>1, <1>2, <1>3, <1>4, <1>5, <1>6, <1>7, <1>8 DEF Next, CycleStep

-----------------------------------------------------------------------------
\* Recording on a chain appends a line of its own.
LEMMA Appended ==
    ASSUME TypeOK, Shape, Chain, Record, faults = 0
    PROVE  /\ file' = Append(file, Line("whole")) /\ Line("whole") \in Lines
           /\ Len(file') = Len(file) + 1 /\ Len(file) \in Nat
           /\ \A i \in 1..Len(file) : file'[i] = file[i]
           /\ file'[Len(file) + 1] = Line("whole")
           /\ \A i \in 1..Len(file) : file[i].cycle # active
           /\ expected = Len(file) /\ recorded = RecordedIn(file) /\ sequence = Len(file)
<1>1. pc = "record" /\ active \in Cycles /\ file \in Seq(Lines) /\ Len(file) \in Nat
  BY DEF Record, Shape, TypeOK
<1>2. expected = Len(file) /\ recorded = RecordedIn(file)
  BY <1>1 DEF Chain
<1>3. file = <<>> \/ file[Len(file)].text = "whole"
  BY <1>1, EmptySeq DEF Chain
<1>4. file' = Append(file, Line("whole"))
  BY <1>3 DEF Record, Written
<1>5. Line("whole") \in Lines
  BY <1>1, LineType
<1>6. /\ Len(file') = Len(file) + 1 /\ file'[Len(file) + 1] = Line("whole")
      /\ \A i \in 1..Len(file) : file'[i] = file[i]
  BY <1>1, <1>4, <1>5
<1>7. sequence = Len(file) /\ \A i \in 1..Len(file) : file[i].cycle # active
  BY <1>2 DEF Record, Accepted, RecordedIn
<1> QED BY <1>1, <1>2, <1>4, <1>5, <1>6, <1>7

\* The chain of a ledger that no append has broken.
LEMMA ChainNext == TypeOK /\ Shape /\ Chain /\ [Next]_vars => Chain'
<1> SUFFICES ASSUME TypeOK, Shape, Chain, [Next]_vars, faults' = 0
             PROVE  /\ \A i \in 1..Len(file') : file'[i].text = "whole" /\ file'[i].seq + 1 = i
                    /\ \A i, j \in 1..Len(file') : file'[i].cycle = file'[j].cycle => i = j
                    /\ pc' # "down" => expected' = Len(file') /\ recorded' = RecordedIn(file')
  BY DEF Chain, RecordedIn
<1> DEFINE Goal == /\ \A i \in 1..Len(file') : file'[i].text = "whole" /\ file'[i].seq + 1 = i
                   /\ \A i, j \in 1..Len(file') : file'[i].cycle = file'[j].cycle => i = j
                   /\ pc' # "down" => expected' = Len(file') /\ recorded' = RecordedIn(file')
<1>1. ASSUME UNCHANGED ledgerVars, UNCHANGED faults, pc # "down" PROVE Goal
  BY <1>1 DEF Chain, ledgerVars, RecordedIn
<1>2. ASSUME StartDaemon \/ StopDaemon \/ SetHealth \/ Census \/ CheckSwitch \/ Risk \/ Admit
             \/ RecordRefused \/ Complete
      PROVE  UNCHANGED ledgerVars /\ UNCHANGED faults /\ pc # "down"
  BY <1>2 DEF StartDaemon, StopDaemon, SetHealth, Census, CheckSwitch, Risk, Admit, RecordRefused,
              Complete, countVars
<1>3. ASSUME NEW c \in Cycles, Pulse(c) PROVE Goal
  BY <1>1, <1>3 DEF Pulse, countVars
<1>4. ASSUME Switch \/ UNCHANGED vars PROVE Goal
  BY <1>4 DEF Chain, Switch, vars, pipeVars, ledgerVars, countVars, RecordedIn
<1>5. ASSUME Record PROVE Goal
  <2>1. faults = 0
    BY <1>5 DEF Record, countVars
  <2> USE <1>5, <2>1, Appended
  <2>2. \A i \in 1..Len(file') : file'[i].text = "whole" /\ file'[i].seq + 1 = i
    <3> SUFFICES ASSUME NEW i \in 1..Len(file')
                 PROVE  file'[i].text = "whole" /\ file'[i].seq + 1 = i
      OBVIOUS
    <3>1. CASE i \in 1..Len(file)
      BY <3>1 DEF Chain
    <3>2. CASE i = Len(file) + 1
      BY <3>2 DEF Line
    <3> QED BY <3>1, <3>2
  <2>3. \A i, j \in 1..Len(file') : file'[i].cycle = file'[j].cycle => i = j
    <3>1. file'[Len(file) + 1].cycle = active
      BY DEF Line
    <3>2. \A i, j \in 1..Len(file) : file[i].cycle = file[j].cycle => i = j
      BY DEF Chain
    <3> QED BY <3>1, <3>2
  <2>4. expected' = Len(file')
    BY DEF Record
  <2>5. recorded' = RecordedIn(file')
    <3>1. recorded' = RecordedIn(file) \cup {active}
      BY DEF Record
    <3>2. file'[Len(file) + 1].cycle = active
      BY DEF Line
    <3>3. \A c : c \in RecordedIn(file') <=> c \in RecordedIn(file) \cup {active}
      BY <3>2 DEF RecordedIn
    <3> QED BY <3>1, <3>3
  <2> QED BY <2>2, <2>3, <2>4, <2>5
<1>6. ASSUME RecordFails PROVE FALSE
  BY <1>6 DEF RecordFails, TypeOK
<1>7. ASSUME Crash PROVE Goal
  BY <1>7 DEF Chain, Crash
<1>8. ASSUME Restart PROVE Goal
  BY <1>8 DEF Chain, Restart, Replay, countVars, RecordedIn
<1> QED BY <1>1, <1>2, <1>3, <1>4, <1>5, <1>6, <1>7, <1>8 DEF Next, CycleStep

-----------------------------------------------------------------------------
\* The hook's answer on its way to the ledger.
LEMMA ToldNext == TypeOK /\ Shape /\ Once /\ Chain /\ Told /\ [Next]_vars => Told'
<1> SUFFICES ASSUME TypeOK, Shape, Once, Chain, Told, [Next]_vars, faults' = 0 PROVE Told'
  BY DEF Told
<1> USE RuntimeAssumption
<1>0. ASSUME UNCHANGED file PROVE \A c : Success(c)' <=> Success(c)
  BY <1>0 DEF Success
<1>1. ASSUME StartDaemon \/ StopDaemon \/ SetHealth \/ Switch \/ UNCHANGED vars PROVE Told'
  BY <1>0, <1>1 DEF Told, Accepted, StartDaemon, StopDaemon, SetHealth, Switch, vars, pipeVars,
                    schedVars, ledgerVars, countVars
<1>2. ASSUME NEW c \in Cycles, Pulse(c) PROVE Told'
  BY <1>0, <1>2 DEF Told, Pulse, ledgerVars, countVars
<1>3. ASSUME Census \/ CheckSwitch \/ Risk PROVE Told'
  <2>1. pc \in Stages /\ faults = 0 /\ UNCHANGED <<file, done, hooked, active>>
    BY <1>3 DEF Census, CheckSwitch, Risk, Stages, schedVars, ledgerVars, countVars
  <2>2. active \in Cycles /\ ~(hooked[active] > 0)
    BY <2>1 DEF Shape, Once
  <2>3. pc' = "record" => outcome' # "SUCCESS"
    BY <1>3 DEF Census, CheckSwitch, Risk, Leave
  <2>4. pc' # "complete"
    BY <1>3 DEF Census, CheckSwitch, Risk, Leave
  <2> QED BY <1>0, <2>1, <2>2, <2>3, <2>4 DEF Told
<1>4. ASSUME Admit PROVE Told'
  <2>1. /\ pc \in Stages /\ faults = 0 /\ UNCHANGED <<file, done, active>>
        /\ pc' = "record" /\ active \in Cycles /\ active \notin done
    BY <1>4 DEF Admit, Leave, Shape, Stages, schedVars, ledgerVars, countVars
  <2>2. hooked[active] = 0
    BY <2>1 DEF Once, TypeOK
  <2>3. hooked'[active] > 0 <=> outcome' = "SUCCESS"
    BY <1>4, <2>1, <2>2 DEF Admit, Leave, TypeOK
  <2>4. \A c \in done : hooked'[c] = hooked[c]
    BY <1>4, <2>1 DEF Admit, TypeOK
  <2> QED BY <1>0, <2>1, <2>3, <2>4 DEF Told
<1>5. ASSUME Record PROVE Told'
  <2>1. /\ faults = 0 /\ UNCHANGED <<hooked, done, active, outcome>> /\ pc' = "complete"
        /\ active \notin done /\ pc = "record" /\ Accepted
    BY <1>5 DEF Record, Shape, schedVars, countVars
  <2> USE <1>5, <2>1, Appended
  <2>2. Success(active)' <=> outcome = "SUCCESS"
    BY DEF Success, Line
  <2>3. \A c : c # active => (Success(c)' <=> Success(c))
    BY DEF Success, Line
  <2> QED BY <2>2, <2>3 DEF Told
<1>6. ASSUME RecordRefused PROVE Told'
  <2>1. /\ faults = 0 /\ UNCHANGED <<file, hooked, done, active>> /\ pc' # "complete"
        /\ ~Accepted'
    BY <1>6 DEF RecordRefused, NextHandler, Accepted, schedVars, ledgerVars, countVars
  <2> QED BY <1>0, <2>1 DEF Told
<1>7. ASSUME RecordFails PROVE FALSE
  BY <1>7 DEF RecordFails, TypeOK
<1>8. ASSUME Complete PROVE Told'
  BY <1>0, <1>8 DEF Told, Complete, ledgerVars, countVars
<1>9. ASSUME Crash PROVE Told'
  BY <1>9 DEF Told, Crash
<1>10. ASSUME Restart PROVE Told'
  BY <1>10 DEF Told, Restart, Shape
<1> QED BY <1>1, <1>2, <1>3, <1>4, <1>5, <1>6, <1>7, <1>8, <1>9, <1>10 DEF Next, CycleStep

\* The switch stays blocked while a vetoed cycle runs.
LEMMA VetoNext == TypeOK /\ Veto /\ [Next]_vars => Veto'
<1> SUFFICES ASSUME TypeOK, Veto, [Next]_vars PROVE Veto'
  OBVIOUS
<1>1. ASSUME StartDaemon \/ StopDaemon \/ SetHealth \/ UNCHANGED vars PROVE Veto'
  BY <1>1 DEF Veto, StartDaemon, StopDaemon, SetHealth, vars, pipeVars, outsideVars
<1>2. ASSUME NEW c \in Cycles, Pulse(c) PROVE Veto'
  BY <1>2 DEF Veto, Pulse, outsideVars
<1>3. ASSUME Census \/ CheckSwitch \/ Risk \/ Admit PROVE Veto'
  BY <1>3 DEF Veto, Census, CheckSwitch, Risk, Admit, Leave, outsideVars
<1>4. ASSUME Record \/ RecordRefused \/ RecordFails \/ Complete PROVE Veto'
  BY <1>4 DEF Veto, Record, RecordRefused, RecordFails, Complete, NextHandler, outsideVars
<1>5. ASSUME Switch \/ Crash PROVE Veto'
  BY <1>5 DEF Veto, Switch, Crash
<1>6. ASSUME Restart PROVE Veto'
  BY <1>6 DEF Veto, Restart, outsideVars
<1> QED BY <1>1, <1>2, <1>3, <1>4, <1>5, <1>6 DEF Next, CycleStep

-----------------------------------------------------------------------------
\* Every step of a cycle, of its daemon and of its crashes keeps the invariant.
THEOREM Invariance == Spec => []IInv
<1>1. IInv /\ [Next]_vars => IInv'
  BY TypeNext, ShapeNext, OnceNext, ChainNext, ToldNext, VetoNext DEF IInv
<1> QED BY <1>1, IInvInit, PTL DEF Spec

\* Every variable of the runtime keeps its type, whatever append fails.
THEOREM TypeCorrect == Spec => []TypeOK
<1>1. IInv => TypeOK
  BY DEF IInv
<1> QED BY <1>1, Invariance, PTL

\* Crashes leave a ledger that the next process can read.
THEOREM LedgerSurvivesCrashes == Spec => []CrashesKeepLedger
<1>1. IInv => CrashesKeepLedger
  BY DEF IInv, Chain, CrashesKeepLedger, Readable
<1> QED BY <1>1, Invariance, PTL

\* A process never admits the orders of one cycle twice.
THEOREM AdmissionIsOnce == Spec => []AdmittedOncePerProcess
<1>1. IInv => AdmittedOncePerProcess
  BY DEF IInv, Once, AdmittedOncePerProcess
<1> QED BY <1>1, Invariance, PTL

\* Without a failed append the ledger says SUCCESS of exactly the admitted cycles.
THEOREM LedgerIsTrue == Spec => []LedgerTellsAdmission
<1>1. IInv => LedgerTellsAdmission
  BY DEF IInv, Told, Success, LedgerTellsAdmission
<1> QED BY <1>1, Invariance, PTL

\* A kill switch that stays blocked through a cycle is never overruled.
THEOREM VetoIsFinal == Spec => VetoHolds
<1>1. IInv /\ [Next]_vars => [vetoed => \A c \in Cycles : hooked'[c] <= hooked[c]]_vars
  <2> SUFFICES ASSUME IInv, Next, vetoed, NEW c \in Cycles PROVE hooked'[c] <= hooked[c]
    OBVIOUS
  <2>1. hooked[c] \in Nat
    BY DEF IInv, TypeOK
  <2>2. ~Admit
    BY DEF IInv, Veto, Admit
  <2>3. ASSUME Crash PROVE hooked'[c] <= hooked[c]
    BY <2>1, <2>3 DEF Crash
  <2>4. ASSUME ~Crash PROVE UNCHANGED hooked
    BY <2>2, <2>4 DEF Next, CycleStep, StartDaemon, StopDaemon, Pulse, Census, CheckSwitch, Risk,
                      Record, RecordRefused, RecordFails, Complete, SetHealth, Switch, Restart
  <2> QED BY <2>1, <2>3, <2>4
<1> QED BY <1>1, Invariance, PTL DEF Spec, VetoHolds

-----------------------------------------------------------------------------
(***************************************************************************)
(* What is left of the claim DuplicatePulseSkipped: a process that has not *)
(* been replaced remembers the cycles whose lines it wrote, as completed   *)
(* or as the one it still holds.                                           *)
(***************************************************************************)
Remembered ==
    crashes = 0 =>
        \A c \in RecordedIn(file) : c \in done \/ (c = active /\ pc \notin Stages)

\* Writing a line adds no cycle but the line's.
LEMMA WrittenCycles ==
    ASSUME NEW f \in Seq(Lines), NEW x \in Lines
    PROVE  RecordedIn(Written(f, x)) \subseteq RecordedIn(f) \cup {x.cycle}
<1>1. CASE f = <<>> \/ f[Len(f)].text = "whole"
  <2>1. /\ Written(f, x) = Append(f, x) /\ Len(Append(f, x)) = Len(f) + 1
        /\ \A i \in 1..Len(f) : Append(f, x)[i] = f[i]
        /\ Append(f, x)[Len(f) + 1] = x /\ Len(f) \in Nat
    BY <1>1 DEF Written
  <2> QED BY <2>1 DEF RecordedIn
<1>2. CASE ~(f = <<>> \/ f[Len(f)].text = "whole")
  <2> DEFINE g == Written(f, x)
  <2>1. g = [f EXCEPT ![Len(f)].text = "torn"] /\ f \in [1..Len(f) -> Lines]
    BY <1>2 DEF Written
  <2>2. Len(g) = Len(f)
    BY <2>1
  <2>3. \A i \in 1..Len(f) : g[i].cycle = f[i].cycle
    BY <2>1 DEF Lines
  <2> QED BY <2>2, <2>3 DEF RecordedIn
<1> QED BY <1>1, <1>2

\* A recorded cycle is a cycle.
LEMMA RecordedType == TypeOK => RecordedIn(file) \subseteq Cycles
<1> SUFFICES ASSUME TypeOK, NEW i \in 1..Len(file) PROVE file[i].cycle \in Cycles
  BY DEF RecordedIn
<1>1. file \in Seq(Lines)
  BY DEF TypeOK
<1>2. file[i] \in Lines
  BY <1>1
<1> QED BY <1>2 DEF Lines

\* No step of the process that wrote a line forgets its cycle.
LEMMA RememberedNext == TypeOK /\ Shape /\ Remembered /\ [Next]_vars => Remembered'
<1> SUFFICES ASSUME TypeOK, Shape, Remembered, [Next]_vars, crashes' = 0,
                    NEW c \in RecordedIn(file')
             PROVE  c \in done' \/ (c = active' /\ pc' \notin Stages)
  BY DEF Remembered, RecordedIn
<1> DEFINE Goal == c \in done' \/ (c = active' /\ pc' \notin Stages)
<1>1. ASSUME StartDaemon \/ StopDaemon \/ SetHealth \/ Switch \/ UNCHANGED vars PROVE Goal
  BY <1>1 DEF Remembered, StartDaemon, StopDaemon, SetHealth, Switch, vars, pipeVars,
              schedVars, ledgerVars, countVars
<1>2. ASSUME NEW b \in Cycles, Pulse(b) PROVE Goal
  <2>1. c \in done \/ (c = active /\ pc \notin Stages)
    BY <1>2 DEF Pulse, Remembered, ledgerVars, countVars
  <2>2. c \in Cycles
    BY <1>2, RecordedType DEF Pulse, ledgerVars
  <2> QED BY <1>2, <2>1, <2>2, RuntimeAssumption DEF Pulse
<1>3. ASSUME Census \/ CheckSwitch \/ Risk \/ Admit \/ RecordRefused PROVE Goal
  BY <1>3 DEF Remembered, Census, CheckSwitch, Risk, Admit, RecordRefused, NextHandler, Leave,
              schedVars, ledgerVars, countVars, Stages
<1>4. ASSUME Record \/ RecordFails PROVE Goal
  <2>1. /\ active \in Cycles /\ active' = active /\ done' = done /\ crashes = 0
        /\ pc' \notin Stages /\ pc = "record"
    BY <1>4 DEF Record, RecordFails, NextHandler, Shape, schedVars, countVars, Stages
  <2>2. file' = file \/ \E t \in {"whole", "bare", "torn"} : file' = Written(file, Line(t))
    BY <1>4 DEF Record, RecordFails
  <2>3. \A t \in {"whole", "bare", "torn"} : Line(t) \in Lines /\ Line(t).cycle = active
    BY <2>1, LineType DEF Line
  <2>4. c \in RecordedIn(file) \cup {active}
    BY <2>2, <2>3, WrittenCycles DEF TypeOK
  <2> QED BY <2>1, <2>4 DEF Remembered
<1>5. ASSUME Complete PROVE Goal
  BY <1>5 DEF Remembered, Complete, ledgerVars, countVars
<1>6. ASSUME Crash PROVE Goal
  BY <1>6 DEF Crash, TypeOK
<1>7. ASSUME Restart PROVE Goal
  BY <1>7 DEF Restart, Remembered, Shape, countVars, Stages
<1> QED BY <1>1, <1>2, <1>3, <1>4, <1>5, <1>6, <1>7 DEF Next, CycleStep

\* Within one process a cycle that is in the ledger is not admitted again, also
\* when its append failed after the line was written; DuplicatePulseSkipped can
\* only fail after a restart.
THEOREM DuplicatesNeedARestart ==
    Spec => [][crashes' = 0 => \A c \in RecordedIn(file) : hooked'[c] <= hooked[c]]_vars
<1>1. Init => Remembered
  <2>1. Init => Len(file) = 0
    BY DEF Init
  <2> QED BY <2>1 DEF Remembered, RecordedIn
<1>2. IInv /\ Remembered /\ [Next]_vars
        => [crashes' = 0 => \A c \in RecordedIn(file) : hooked'[c] <= hooked[c]]_vars
  <2> SUFFICES ASSUME IInv, Remembered, Next, crashes' = 0, NEW c \in RecordedIn(file)
               PROVE  hooked'[c] <= hooked[c]
    OBVIOUS
  <2>1. c \in Cycles
    BY RecordedType DEF IInv
  <2>2. hooked[c] \in Nat
    BY <2>1 DEF IInv, TypeOK
  <2>3. ~Crash
    BY DEF Crash, IInv, TypeOK
  <2>4. CASE Admit
    <3>1. active # c /\ active \in Cycles
      BY <2>4 DEF Admit, Remembered, IInv, Shape, Stages, countVars
    <3>2. hooked' = hooked \/ hooked' = [hooked EXCEPT ![active] = @ + 1]
      BY <2>4 DEF Admit
    <3>3. hooked'[c] = hooked[c]
      BY <2>1, <3>1, <3>2 DEF IInv, TypeOK
    <3> QED BY <2>2, <3>3
  <2>5. CASE ~Admit
    <3>1. UNCHANGED hooked
      BY <2>3, <2>5 DEF Next, CycleStep, StartDaemon, StopDaemon, Pulse, Census, CheckSwitch,
                        Risk, Record, RecordRefused, RecordFails, Complete, SetHealth, Switch,
                        Restart
    <3> QED BY <2>2, <3>1
  <2> QED BY <2>4, <2>5
<1>3. IInv /\ Remembered /\ [Next]_vars => Remembered'
  BY RememberedNext DEF IInv
<1> QED BY <1>1, <1>2, <1>3, Invariance, PTL DEF Spec

-----------------------------------------------------------------------------
(***************************************************************************)
(* What CycleReleased rests on: a cycle gets further through its stages or *)
(* has one append less to try, and the cycle lock is left held for two     *)
(* reasons only.                                                           *)
(***************************************************************************)
Rank(p) ==
    CASE p = "census" -> 0 [] p = "switch" -> 1 [] p = "risk" -> 2 [] p = "admission" -> 3
      [] p = "record" -> 4 [] p = "complete" -> 5 [] OTHER -> 6

Onward == Rank(pc') > Rank(pc) \/ (pc = "record" /\ pc' = "record" /\ tries' < tries)

\* The scheduler and the ledger count alike, but for the cycle in between.
InSequence ==
    faults = 0 =>
        /\ pc \notin {"down", "complete"} => sequence = expected
        /\ pc = "complete" => expected = sequence + 1

HeldForAReason == pc = "idle" /\ active # None => faults > 0 \/ active \in recorded

LEMMA HeldNext == TypeOK /\ Shape /\ InSequence /\ HeldForAReason /\ [Next]_vars
                     => InSequence' /\ HeldForAReason'
<1> SUFFICES ASSUME TypeOK, Shape, InSequence, HeldForAReason, [Next]_vars
             PROVE  InSequence' /\ HeldForAReason'
  OBVIOUS
<1>0. faults \in Nat /\ expected \in Nat /\ sequence \in Nat
  BY RuntimeAssumption DEF TypeOK
<1>1. CASE StartDaemon \/ StopDaemon \/ SetHealth \/ Switch \/ UNCHANGED vars
  BY <1>1 DEF StartDaemon, StopDaemon, SetHealth, Switch, vars, pipeVars, schedVars, ledgerVars,
              countVars, InSequence, HeldForAReason
<1>2. ASSUME NEW c \in Cycles, Pulse(c) PROVE InSequence' /\ HeldForAReason'
  BY <1>2 DEF Pulse, ledgerVars, countVars, InSequence, HeldForAReason
<1>3. CASE Census \/ CheckSwitch \/ Risk \/ Admit
  BY <1>3 DEF Census, CheckSwitch, Risk, Admit, Leave, schedVars, ledgerVars, countVars,
              InSequence, HeldForAReason
<1>4. CASE Record
  BY <1>0, <1>4 DEF Record, Accepted, schedVars, countVars, InSequence, HeldForAReason
<1>5. CASE RecordRefused
  BY <1>0, <1>5 DEF RecordRefused, Accepted, NextHandler, schedVars, ledgerVars, countVars,
                    InSequence, HeldForAReason
<1>6. CASE RecordFails
  BY <1>0, <1>6 DEF RecordFails, InSequence, HeldForAReason
<1>7. CASE Complete
  BY <1>0, <1>7 DEF Complete, ledgerVars, countVars, InSequence, HeldForAReason
<1>8. CASE Crash
  BY <1>8 DEF Crash, InSequence, HeldForAReason
<1>9. CASE Restart
  BY <1>9 DEF Restart, Replay, countVars, Shape, InSequence, HeldForAReason
<1> QED BY <1>1, <1>2, <1>3, <1>4, <1>5, <1>6, <1>7, <1>8, <1>9 DEF Next, CycleStep

LEMMA CycleOnward ==
    ASSUME TypeOK, Shape, CycleStep
    PROVE  Onward
<1>1. CASE Census \/ CheckSwitch \/ Risk \/ Admit
  BY <1>1 DEF Census, CheckSwitch, Risk, Admit, Leave, Onward, Rank
<1>2. CASE Record \/ Complete
  BY <1>2 DEF Record, Complete, Onward, Rank
<1>3. CASE RecordRefused \/ RecordFails
  <2>1. pc = "record" /\ NextHandler /\ tries \in 1..3
    BY <1>3 DEF RecordRefused, RecordFails, Shape
  <2> QED BY <2>1 DEF NextHandler, Onward, Rank
<1> QED BY <1>1, <1>2, <1>3 DEF CycleStep

LEMMA OthersWait ==
    ASSUME Next, ~CycleStep
    PROVE  pc \in {"idle", "down"} \/ pc' = "down" \/ UNCHANGED pipeVars
BY DEF Next, StartDaemon, StopDaemon, Pulse, SetHealth, Switch, Crash, Restart

\* A cycle ends: its own steps get it further, and nobody else's set it back, but
\* for the death of the process.  What it may leave behind is known: the lock
\* stays held when an append has failed or when the cycle was on file already,
\* and never else.
THEOREM CyclesRunOut ==
    Spec => /\ [][IF CycleStep THEN Onward
                  ELSE pc \in {"idle", "down"} \/ pc' = "down" \/ UNCHANGED pipeVars]_vars
            /\ []HeldForAReason
<1>1. Init => InSequence /\ HeldForAReason
  BY DEF Init, InSequence, HeldForAReason
<1>2. Spec => []HeldForAReason
  <2>1. IInv /\ InSequence /\ HeldForAReason /\ [Next]_vars => InSequence' /\ HeldForAReason'
    BY HeldNext DEF IInv
  <2> QED BY <1>1, <2>1, Invariance, PTL DEF Spec
<1>3. IInv /\ [Next]_vars
        => [IF CycleStep THEN Onward
            ELSE pc \in {"idle", "down"} \/ pc' = "down" \/ UNCHANGED pipeVars]_vars
  BY CycleOnward, OthersWait DEF IInv
<1> QED BY <1>2, <1>3, Invariance, PTL DEF Spec
=============================================================================
