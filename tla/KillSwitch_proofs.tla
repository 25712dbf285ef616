------------------------- MODULE KillSwitch_proofs -------------------------
(***************************************************************************)
(* Theorems about KillSwitch for every number of events.                   *)
(*                                                                         *)
(* TripHolds is not inductive: it says nothing of the file that the next   *)
(* controller reads, nor of the lines a running call has yet to write.     *)
(* Shape ties those lines to the state the call has already assigned, and  *)
(* Shut says that the file of a reported trip does not end in an opening.  *)
(*                                                                         *)
(* CrashesAreRecoverable and NoStaleReset need to know how the lines chain: *)
(* ChainInv says that each line, on file or still to be written, names the *)
(* one before it, that identities grow, and that a proposal older than a   *)
(* reported trip is older than the end of the file.                        *)
(***************************************************************************)
EXTENDS KillSwitch, SequenceTheorems, TLAPS

\* A call has assigned the state of its lines before it writes them, and a reset
\* has an event left for its second stage.
Shape ==
    \A i \in 1..Len(todo) :
        /\ state = IF todo[i].to = "TRIPPED" THEN "PERSISTENTLY_BLOCKED" ELSE todo[i].to
        /\ todo[i].to = "RESET_PENDING" => serial + 1 <= MaxEvents

\* A file that no controller reads as ACTIVE.
Shut(f) == f # <<>> /\ (f[Len(f)].text = "torn" \/ f[Len(f)].event.to # "ACTIVE")

TripOnFile == ~lost /\ tripped => Shut(file)

IInv == TypeOK /\ Shape /\ TripHolds /\ TripOnFile /\ OpenMeansReset

-----------------------------------------------------------------------------
\* Writing a line leaves a file of lines that ends in it, or in a torn one.
LEMMA WrittenLines ==
    ASSUME NEW f \in Seq(Lines), NEW e \in Events, NEW t \in {"whole", "bare", "torn"}
    PROVE  /\ Written(f, e, t) \in Seq(Lines)
           /\ Len(Written(f, e, t)) \in Nat \ {0}
           /\ Len(f) <= Len(Written(f, e, t))
           /\ \/ Written(f, e, t)[Len(Written(f, e, t))] = [event |-> e, text |-> t]
              \/ Written(f, e, t)[Len(Written(f, e, t))].text = "torn"
<1> DEFINE w == Written(f, e, t)
           x == [event |-> e, text |-> t]
<1>0. Len(f) \in Nat /\ x \in Lines
  BY DEF Lines
<1>1. CASE f = <<>> \/ f[Len(f)].text = "whole"
  <2>1. w = Append(f, x)
    BY <1>1 DEF Written
  <2>2. w \in Seq(Lines) /\ Len(w) = Len(f) + 1 /\ w[Len(f) + 1] = x
    BY <1>0, <2>1
  <2> QED BY <1>0, <2>2
<1>2. CASE ~(f = <<>> \/ f[Len(f)].text = "whole")
  <2> DEFINE y == [f[Len(f)] EXCEPT !.text = "torn"]
  <2>1. w = [f EXCEPT ![Len(f)] = y]
    BY <1>2 DEF Written
  <2>2. Len(f) \in 1..Len(f)
    BY <1>0, <1>2, EmptySeq
  <2>3. f[Len(f)] \in Lines
    BY <2>2
  <2>4. y \in Lines /\ y.text = "torn"
    BY <2>3 DEF Lines
  <2>5. w \in Seq(Lines) /\ Len(w) = Len(f) /\ w[Len(f)] = y
    BY <2>1, <2>2, <2>4
  <2> QED BY <1>0, <2>2, <2>4, <2>5
<1> QED BY <1>1, <1>2

\* The last line is the one that was written, or is torn.
LEMMA WrittenLast ==
    ASSUME NEW f \in Seq(Lines), NEW e \in Events, NEW t \in {"whole", "bare", "torn"}
    PROVE  \/ Written(f, e, t)[Len(Written(f, e, t))] = [event |-> e, text |-> t]
           \/ Written(f, e, t)[Len(Written(f, e, t))].text = "torn"
<1> DEFINE x == [event |-> e, text |-> t]
           y == [f[Len(f)] EXCEPT !.text = "torn"]
<1>0. Len(f) \in Nat /\ x \in Lines
  BY DEF Lines
<1>1. CASE f = <<>> \/ f[Len(f)].text = "whole"
  <2>1. Written(f, e, t) = Append(f, x)
    BY <1>1 DEF Written
  <2>2. Len(Append(f, x)) = Len(f) + 1 /\ Append(f, x)[Len(f) + 1] = x
    BY <1>0
  <2> QED BY <2>1, <2>2
<1>2. CASE ~(f = <<>> \/ f[Len(f)].text = "whole")
  <2>1. Written(f, e, t) = [f EXCEPT ![Len(f)] = y]
    BY <1>2 DEF Written
  <2>2. Len(f) \in 1..Len(f) /\ f[Len(f)] \in Lines
    BY <1>0, <1>2, EmptySeq
  <2>3. Len([f EXCEPT ![Len(f)] = y]) = Len(f) /\ [f EXCEPT ![Len(f)] = y][Len(f)] = y
    BY <2>2
  <2>4. y.text = "torn"
    BY <2>2 DEF Lines
  <2> QED BY <2>1, <2>3, <2>4
<1> QED BY <1>1, <1>2

\* A line that is not an opening, or not written whole, shuts the file or leaves
\* it as an open controller's may be.
LEMMA WrittenEnds ==
    ASSUME NEW f \in Seq(Lines), NEW e \in Events, NEW t \in {"whole", "bare", "torn"}
    PROVE  /\ e.to # "ACTIVE" \/ t = "torn" => Shut(Written(f, e, t))
           /\ t # "whole" => Written(f, e, t)[Len(Written(f, e, t))].text # "whole"
           /\ e.to \in {"RESET_PENDING", "ACTIVE"} =>
                 \/ Written(f, e, t)[Len(Written(f, e, t))].text # "whole"
                 \/ Written(f, e, t)[Len(Written(f, e, t))].event.to
                        \in {"RESET_PENDING", "ACTIVE"}
<1> DEFINE w == Written(f, e, t)
           last == w[Len(w)]
<1>1. w # <<>>
  BY WrittenLines, EmptySeq
<1>2. last = [event |-> e, text |-> t] \/ last.text = "torn"
  BY WrittenLast
<1> HIDE DEF w
<1>3. /\ e.to # "ACTIVE" \/ t = "torn" => Shut(w)
      /\ t # "whole" => last.text # "whole"
      /\ e.to \in {"RESET_PENDING", "ACTIVE"} =>
            last.text # "whole" \/ last.event.to \in {"RESET_PENDING", "ACTIVE"}
  BY <1>1, <1>2 DEF Shut
<1> QED BY <1>3 DEF w

\* A new switch on an empty file satisfies the invariant.
LEMMA IInvInit == Init => IInv
<1> SUFFICES ASSUME Init PROVE IInv
  OBVIOUS
<1>1. Len(todo) = 0 /\ Len(file) = 0 /\ todo \in Seq(Events) /\ file \in Seq(Lines)
  BY DEF Init
<1>2. TypeOK
  <2>1. /\ state \in States /\ tripped \in BOOLEAN /\ renewed \in BOOLEAN
        /\ faulted \in BOOLEAN /\ lost \in BOOLEAN
    BY DEF Init, States
  <2>2. /\ latest \in 0..MaxEvents /\ serial \in 0..MaxEvents /\ proposal \in 0..MaxEvents
        /\ flushed \in 0..Len(file)
    BY <1>1, KillSwitchAssumption DEF Init, None
  <2>3. quorum \in Quorums /\ consumed \subseteq Quorums /\ opened \subseteq Quorums
    BY DEF Init
  <2> QED BY <1>1, <2>1, <2>2, <2>3 DEF TypeOK
<1>3. Shape
  BY <1>1 DEF Shape
<1>4. TripHolds /\ TripOnFile
  BY DEF Init, TripHolds, TripOnFile
<1>5. OpenMeansReset
  BY DEF Init, OpenMeansReset
<1> QED BY <1>2, <1>3, <1>4, <1>5 DEF IInv

-----------------------------------------------------------------------------
\* The types, action by action.
LEMMA TypeNext == TypeOK /\ Shape /\ [Next]_vars => TypeOK'
<1> SUFFICES ASSUME TypeOK, Shape, [Next]_vars PROVE TypeOK'
  OBVIOUS
<1> USE KillSwitchAssumption
<1>0. /\ MaxEvents \in Nat /\ serial \in 0..MaxEvents /\ latest \in 0..MaxEvents
      /\ todo \in Seq(Events) /\ file \in Seq(Lines) /\ Len(file) \in Nat
      /\ flushed \in 0..Len(file)
  BY DEF TypeOK
<1>1. CASE Trip
  <2>1. state \in States /\ serial + 2 \in 1..MaxEvents /\ serial + 1 \in 1..MaxEvents
    BY <1>0, <1>1 DEF Trip, Idle, TypeOK
  <2>2. /\ Event(serial + 1, latest, state, "TRIPPED") \in Events
        /\ Event(serial + 2, serial + 1, "TRIPPED", "PERSISTENTLY_BLOCKED") \in Events
    BY <1>0, <2>1 DEF Event, Events, States
  <2>3. todo' \in Seq(Events)
    BY <1>1, <2>2 DEF Trip
  <2>4. state' \in States /\ latest' \in 0..MaxEvents /\ serial' \in 0..MaxEvents
    BY <1>1, <2>1 DEF Trip, States
  <2> QED BY <1>1, <2>3, <2>4 DEF Trip, approval, TypeOK
<1>2. CASE Propose
  BY <1>2 DEF Propose, TypeOK
<1>3. CASE SubmitReset
  <2>1. state \in States /\ serial + 1 \in 1..MaxEvents
    BY <1>0, <1>3 DEF SubmitReset, Idle, TypeOK
  <2>2. Event(serial + 1, latest, state, "RESET_PENDING") \in Events
    BY <1>0, <2>1 DEF Event, Events, States
  <2>3. todo' \in Seq(Events)
    BY <1>3, <2>2 DEF SubmitReset
  <2>4. state' \in States /\ latest' \in 0..MaxEvents /\ serial' \in 0..MaxEvents
    BY <1>3, <2>1 DEF SubmitReset, States
  <2> QED BY <1>3, <2>3, <2>4 DEF SubmitReset, approval, TypeOK
<1>4. CASE AppendLine
  <2>1. /\ todo # <<>> /\ file' = Written(file, Head(todo), "whole")
        /\ flushed' = flushed /\ proposal' = proposal /\ faulted' = faulted /\ lost' = lost
    BY <1>4 DEF AppendLine
  <2>6. quorum' \in Quorums /\ consumed' \subseteq Quorums /\ opened' \subseteq Quorums
    <3>1. CASE Head(todo).to = "RESET_PENDING"
      BY <1>4, <3>1 DEF AppendLine, Reopen, TypeOK
    <3>2. CASE Head(todo).to # "RESET_PENDING"
      BY <1>4, <3>2 DEF AppendLine, TypeOK
    <3> QED BY <3>1, <3>2
  <2>2. Head(todo) \in Events /\ Tail(todo) \in Seq(Events) /\ 1 \in 1..Len(todo)
        /\ Head(todo) = todo[1]
    BY <1>0, <2>1
  <2>3. file' \in Seq(Lines) /\ flushed' \in 0..Len(file')
    <3> DEFINE w == Written(file, Head(todo), "whole")
    <3>1. w \in Seq(Lines) /\ Len(w) \in Nat \ {0} /\ Len(file) <= Len(w)
      BY <1>0, <2>2, WrittenLines
    <3> HIDE DEF w
    <3>2. file' = w
      BY <2>1 DEF w
    <3> QED BY <1>0, <2>1, <3>1, <3>2
  <2>4. CASE Head(todo).to = "RESET_PENDING"
    <3>1. Reopen
      BY <1>4, <2>4 DEF AppendLine
    <3>2. serial + 1 \in 1..MaxEvents
      BY <1>0, <2>2, <2>4 DEF Shape
    <3>3. Event(serial + 1, Head(todo).id, "RESET_PENDING", "ACTIVE") \in Events
      BY <1>0, <2>2, <3>2 DEF Event, Events, States
    <3>4. todo' \in Seq(Events)
      BY <3>1, <3>3 DEF Reopen
    <3>5. state' \in States /\ latest' \in 0..MaxEvents /\ serial' \in 0..MaxEvents
      BY <3>1, <3>2 DEF Reopen, States
    <3>6. tripped' \in BOOLEAN /\ renewed' \in BOOLEAN
      BY <3>1 DEF Reopen, TypeOK
    <3> QED BY <2>1, <2>3, <2>6, <3>4, <3>5, <3>6 DEF TypeOK
  <2>5. CASE Head(todo).to # "RESET_PENDING"
    <3>1. todo' = Tail(todo) /\ UNCHANGED <<state, latest, serial>>
      BY <1>4, <2>5 DEF AppendLine
    <3>2. tripped' \in BOOLEAN /\ renewed' \in BOOLEAN
      BY <1>4, <2>5 DEF AppendLine, TypeOK
    <3> QED BY <2>1, <2>2, <2>3, <2>6, <3>1, <3>2 DEF TypeOK
  <2> QED BY <2>4, <2>5
<1>5. CASE AppendRaises
  <2>1. Head(todo) \in Events
    BY <1>0, <1>5 DEF AppendRaises
  <2>2. file' = file \/ \E t \in {"torn", "bare"} : file' = Written(file, Head(todo), t)
    BY <1>5 DEF AppendRaises
  <2>3. file' \in Seq(Lines) /\ Len(file) <= Len(file') /\ Len(file') \in Nat
    <3>1. CASE file' = file
      BY <1>0, <3>1
    <3>2. CASE file' # file
      <4>1. PICK t \in {"torn", "bare"} : file' = Written(file, Head(todo), t)
        BY <2>2, <3>2
      <4> DEFINE w == Written(file, Head(todo), t)
      <4>2. w \in Seq(Lines) /\ Len(w) \in Nat \ {0} /\ Len(file) <= Len(w)
        BY <1>0, <2>1, WrittenLines
      <4> HIDE DEF w
      <4>3. file' = w
        BY <4>1 DEF w
      <4> QED BY <4>2, <4>3
    <3> QED BY <3>1, <3>2
  <2>4. flushed' \in 0..Len(file')
    BY <1>0, <1>5, <2>3 DEF AppendRaises
  <2>5. todo' \in Seq(Events) /\ faulted' \in BOOLEAN
    BY <1>5 DEF AppendRaises
  <2> QED BY <1>5, <2>3, <2>4, <2>5 DEF AppendRaises, approval, TypeOK
<1>6. CASE Writeback
  BY <1>0, <1>6 DEF Writeback, approval, TypeOK
<1>7. CASE Crash
  BY <1>7 DEF Crash, Dies, None, TypeOK
<1>10. CASE PowerFailure
  <2>1. PICK n \in flushed..Len(file) - 1 : file' = SubSeq(file, 1, n)
    BY <1>10 DEF PowerFailure
  <2>2. n \in 0..Len(file) /\ flushed <= n
    BY <1>0, <2>1
  <2>3. file' \in Seq(Lines) /\ Len(file') = n
    BY <1>0, <2>1, <2>2, SubSeqProperties
  <2>4. flushed' \in 0..Len(file')
    BY <1>0, <1>10, <2>2, <2>3 DEF PowerFailure
  <2>5. todo' \in Seq(Events) /\ latest' \in 0..MaxEvents /\ state' = Down
    BY <1>10 DEF PowerFailure, Dies, None
  <2> QED BY <1>10, <2>3, <2>4, <2>5 DEF PowerFailure, Dies, TypeOK
<1>8. CASE Restart
  <2>1. state' \in States \cup {Down} /\ latest' \in 0..MaxEvents
    <3>1. CASE Readable(file)
      <4>1. CASE file = <<>>
        BY <1>8, <3>1, <4>1 DEF Restart, Recovered, States, None
      <4>2. CASE file # <<>>
        <5>1. file[Len(file)] \in Lines
          BY <1>0, <4>2, EmptySeq
        <5>2. file[Len(file)].event.to \in States /\ file[Len(file)].event.id \in 0..MaxEvents
          BY <5>1 DEF Lines, Events
        <5> QED BY <1>8, <3>1, <4>2, <5>2 DEF Restart, Recovered
      <4> QED BY <4>1, <4>2
    <3>2. CASE ~Readable(file)
      BY <1>8, <3>2 DEF Restart, approval, TypeOK
    <3> QED BY <3>1, <3>2
  <2> QED BY <1>8, <2>1 DEF Restart, approval, TypeOK
<1>9. CASE UNCHANGED vars
  BY <1>9 DEF vars, approval, TypeOK
<1> QED BY <1>1, <1>2, <1>3, <1>4, <1>5, <1>6, <1>7, <1>8, <1>9, <1>10 DEF Next

-----------------------------------------------------------------------------
\* What a call still has to write agrees with the state it has assigned.
LEMMA ShapeNext == TypeOK /\ Shape /\ [Next]_vars => Shape'
<1> SUFFICES ASSUME TypeOK, Shape, [Next]_vars PROVE Shape'
  OBVIOUS
<1>0. MaxEvents \in Nat /\ serial \in 0..MaxEvents /\ todo \in Seq(Events)
  BY KillSwitchAssumption DEF TypeOK
<1>1. CASE Trip
  BY <1>1 DEF Trip, Event, Shape
<1>2. CASE Propose
  BY <1>2 DEF Propose, Shape
<1>3. CASE SubmitReset
  <2>1. todo' = <<Event(serial + 1, latest, state, "RESET_PENDING")>>
        /\ state' = "RESET_PENDING" /\ serial' + 1 <= MaxEvents
    BY <1>0, <1>3 DEF SubmitReset
  <2> QED BY <2>1 DEF Event, Shape
<1>4. CASE AppendLine
  <2>1. CASE Head(todo).to = "RESET_PENDING"
    <3>1. state' = "ACTIVE"
          /\ todo' = <<Event(serial + 1, Head(todo).id, "RESET_PENDING", "ACTIVE")>>
      BY <1>4, <2>1 DEF AppendLine, Reopen
    <3> QED BY <3>1 DEF Event, Shape
  <2>2. CASE Head(todo).to # "RESET_PENDING"
    <3>1. todo' = Tail(todo) /\ todo # <<>> /\ state' = state /\ serial' = serial
      BY <1>4, <2>2 DEF AppendLine
    <3>2. \A i \in 1..Len(todo') : i + 1 \in 1..Len(todo) /\ todo'[i] = todo[i + 1]
      BY <1>0, <3>1
    <3> QED BY <3>1, <3>2 DEF Shape
  <2> QED BY <2>1, <2>2
<1>5. CASE AppendRaises
  BY <1>5 DEF AppendRaises, Shape
<1>6. CASE Writeback
  BY <1>6 DEF Writeback, Shape
<1>7. CASE Crash
  BY <1>7 DEF Crash, Dies, Shape
<1>10. CASE PowerFailure
  BY <1>10 DEF PowerFailure, Dies, Shape
<1>8. CASE Restart
  <2>1. ASSUME todo # <<>> PROVE FALSE
    <3>1. 1 \in 1..Len(todo) /\ todo[1] \in Events
      BY <1>0, <2>1
    <3>2. todo[1].to \in States /\ state = Down
      BY <1>8, <3>1 DEF Events, Restart
    <3>3. state = IF todo[1].to = "TRIPPED" THEN "PERSISTENTLY_BLOCKED" ELSE todo[1].to
      BY <3>1 DEF Shape
    <3> QED BY <3>2, <3>3 DEF States, Down
  <2> QED BY <1>8, <2>1 DEF Restart, Shape
<1>9. CASE UNCHANGED vars
  BY <1>9 DEF vars, Shape
<1> QED BY <1>1, <1>2, <1>3, <1>4, <1>5, <1>6, <1>7, <1>8, <1>9, <1>10 DEF Next

\* The line that a running call writes next, and the state that goes with it.
LEMMA NextLine ==
    ASSUME TypeOK, Shape, todo # <<>>
    PROVE  /\ Head(todo) \in Events /\ file \in Seq(Lines)
           /\ Head(todo).to = "ACTIVE" <=> state = "ACTIVE"
           /\ Head(todo).to = "PERSISTENTLY_BLOCKED" => state = "PERSISTENTLY_BLOCKED"
<1>1. todo \in Seq(Events) /\ file \in Seq(Lines)
  BY DEF TypeOK
<1>2. 1 \in 1..Len(todo) /\ Head(todo) = todo[1] /\ Head(todo) \in Events
  BY <1>1
<1>3. state = IF todo[1].to = "TRIPPED" THEN "PERSISTENTLY_BLOCKED" ELSE todo[1].to
  BY <1>2 DEF Shape
<1> QED BY <1>1, <1>2, <1>3

\* A reported trip stays in the file, and the file an open controller stands on
\* does not end in a blocking event.
LEMMA FileNext ==
    ASSUME IInv, [Next]_vars
    PROVE  TripHolds' /\ TripOnFile' /\ OpenMeansReset'
<1> USE DEF IInv
<1>1. CASE Trip
  BY <1>1 DEF Trip, TripHolds, TripOnFile, OpenMeansReset, Shut
<1>2. CASE Propose
  BY <1>2 DEF Propose, TripHolds, TripOnFile, OpenMeansReset, Shut
<1>3. CASE SubmitReset
  BY <1>3 DEF SubmitReset, TripHolds, TripOnFile, OpenMeansReset, Shut
<1>4. CASE AppendLine
  <2> DEFINE e == Head(todo)
             w == Written(file, e, "whole")
  <2>1. todo # <<>> /\ file' = w
    BY <1>4 DEF AppendLine
  <2>2. /\ e \in Events /\ file \in Seq(Lines)
        /\ e.to = "ACTIVE" <=> state = "ACTIVE"
        /\ e.to = "PERSISTENTLY_BLOCKED" => state = "PERSISTENTLY_BLOCKED"
    BY <2>1, NextLine
  <2>3. /\ e.to # "ACTIVE" => Shut(w)
        /\ e.to \in {"RESET_PENDING", "ACTIVE"} =>
              w[Len(w)].text # "whole" \/ w[Len(w)].event.to \in {"RESET_PENDING", "ACTIVE"}
    BY <2>2, WrittenEnds
  <2>4. CASE e.to = "RESET_PENDING"
    <3>1. tripped' = FALSE
      BY <1>4, <2>4 DEF AppendLine, Reopen
    <3>2. OpenMeansReset'
      BY <2>1, <2>3, <2>4 DEF OpenMeansReset
    <3> QED BY <3>1, <3>2 DEF TripHolds, TripOnFile
  <2>5. CASE e.to # "RESET_PENDING"
    <3>1. /\ state' = state /\ lost' = lost
          /\ tripped' = (tripped \/ e.to = "PERSISTENTLY_BLOCKED")
      BY <1>4, <2>5 DEF AppendLine
    <3>2. TripHolds'
      BY <2>2, <3>1 DEF TripHolds
    <3>3. OpenMeansReset'
      BY <2>1, <2>2, <2>3, <3>1 DEF OpenMeansReset
    <3>4. ASSUME ~lost', tripped' PROVE Shut(w)
      BY <2>2, <2>3, <3>1, <3>2, <3>4 DEF TripHolds
    <3>5. TripOnFile'
      BY <2>1, <3>4 DEF TripOnFile, Shut
    <3> QED BY <3>2, <3>3, <3>5
  <2> QED BY <2>4, <2>5
<1>5. CASE AppendRaises
  <2>0. /\ todo # <<>> /\ UNCHANGED <<state, tripped, lost>>
        /\ file' = file \/ \E t \in {"torn", "bare"} : file' = Written(file, Head(todo), t)
    BY <1>5 DEF AppendRaises
  <2>1. TripHolds'
    BY <2>0 DEF TripHolds
  <2>2. CASE file' = file
    BY <2>0, <2>1, <2>2 DEF TripOnFile, OpenMeansReset, Shut
  <2>3. CASE file' # file
    <3> DEFINE e == Head(todo)
    <3>1. PICK t \in {"torn", "bare"} : file' = Written(file, e, t)
      BY <2>0, <2>3
    <3> DEFINE w == Written(file, e, t)
    <3>2. e \in Events /\ file \in Seq(Lines) /\ (e.to = "ACTIVE" <=> state = "ACTIVE")
      BY <2>0, NextLine
    <3>3. (e.to # "ACTIVE" => Shut(w)) /\ w[Len(w)].text # "whole"
      BY <3>2, WrittenEnds
    <3>4. OpenMeansReset'
      BY <3>1, <3>3 DEF OpenMeansReset
    <3>5. ASSUME ~lost', tripped' PROVE Shut(w)
      BY <2>0, <3>2, <3>3, <3>5 DEF TripHolds
    <3>6. TripOnFile'
      BY <3>1, <3>5 DEF TripOnFile, Shut
    <3> QED BY <2>1, <3>4, <3>6
  <2> QED BY <2>2, <2>3
<1>6. CASE Writeback
  BY <1>6 DEF Writeback, TripHolds, TripOnFile, OpenMeansReset, Shut
<1>7. CASE Crash
  BY <1>7 DEF Crash, Dies, Down, TripHolds, TripOnFile, OpenMeansReset, Shut
<1>10. CASE PowerFailure
  BY <1>10 DEF PowerFailure, Dies, Down, TripHolds, TripOnFile, OpenMeansReset
<1>8. CASE Restart
  <2>0. file' = file /\ tripped' = tripped /\ lost' = lost /\ state = Down
    BY <1>8 DEF Restart
  <2>1. TripOnFile'
    BY <2>0 DEF TripOnFile, Shut
  <2>2. CASE Readable(file)
    <3>1. state' = Recovered(file)
      BY <1>8, <2>2 DEF Restart
    <3>2. CASE file = <<>>
      BY <2>0, <2>1, <3>2 DEF TripHolds, TripOnFile, OpenMeansReset, Shut
    <3>3. CASE file # <<>>
      <4>1. file \in Seq(Lines) /\ Len(file) \in 1..Len(file)
        BY <3>3, EmptySeq DEF TypeOK
      <4>2. state' = file[Len(file)].event.to /\ file[Len(file)].text # "torn"
        BY <2>2, <3>1, <3>3, <4>1 DEF Recovered, Readable
      <4> QED BY <2>0, <4>2 DEF TripHolds, TripOnFile, OpenMeansReset, Shut
    <3> QED BY <3>2, <3>3
  <2>3. CASE ~Readable(file)
    <3>1. state' = Down
      BY <1>8, <2>0, <2>3 DEF Restart
    <3> QED BY <2>1, <3>1 DEF Down, TripHolds, OpenMeansReset
  <2> QED BY <2>2, <2>3
<1>9. CASE UNCHANGED vars
  BY <1>9 DEF vars, TripHolds, TripOnFile, OpenMeansReset, Shut
<1> QED BY <1>1, <1>2, <1>3, <1>4, <1>5, <1>6, <1>7, <1>8, <1>9, <1>10 DEF IInv, Next

\* Every step of the switch, of a crash and of a boot keeps the invariant.
LEMMA IInvNext == IInv /\ [Next]_vars => IInv'
<1> SUFFICES ASSUME IInv, [Next]_vars PROVE IInv'
  OBVIOUS
<1>1. TypeOK /\ Shape
  BY DEF IInv
<1>2. TypeOK' /\ Shape'
  BY <1>1, TypeNext, ShapeNext
<1>3. TripHolds' /\ TripOnFile' /\ OpenMeansReset'
  BY FileNext
<1> QED BY <1>2, <1>3 DEF IInv

-----------------------------------------------------------------------------
\* The inductive invariant: types, the running call, and the file behind a trip.
THEOREM Invariance == Spec => []IInv
<1>1. Init => IInv
  BY IInvInit
<1>2. IInv /\ [Next]_vars => IInv'
  BY IInvNext
<1> QED BY <1>1, <1>2, PTL DEF Spec

\* Every variable of the switch and of its ledger file keeps its type.
THEOREM TypeCorrect == Spec => []TypeOK
<1>1. IInv => TypeOK
  BY DEF IInv
<1> QED BY <1>1, Invariance, PTL

\* trip() and _recover_from_persistence: without a loss of power, a trip that
\* was reported holds through crashes, failed appends and restarts until a reset
\* opens the switch.
THEOREM TripsHold == Spec => []TripHolds
<1>1. IInv => TripHolds
  BY DEF IInv
<1> QED BY <1>1, Invariance, PTL

\* submit_reset: an open controller's file does not end in a blocking event, even
\* when a loss of power has cut it short.
THEOREM OpenNeedsReset == Spec => []OpenMeansReset
<1>1. IInv => OpenMeansReset
  BY DEF IInv
<1> QED BY <1>1, Invariance, PTL

-----------------------------------------------------------------------------
(***************************************************************************)
(* The chain.  What a running call has yet to write continues what it has  *)
(* written, and what the controller holds as its latest event is the end   *)
(* of the file whenever no call is running, so a crash between two lines   *)
(* leaves a file that reads.                                               *)
(***************************************************************************)

\* The line f ends in.
Last(f) == f[Len(f)]

\* The running call's events are chained, and the last of them is the latest.
CallChained ==
    /\ \A i \in 2..Len(todo) : todo[i].prev = todo[i-1].id
    /\ todo # <<>> => latest = todo[Len(todo)].id

\* As long as no append has raised, all lines are whole and continue each other,
\* and what is written next will continue them.
FileChained ==
    ~faulted =>
        /\ \A i \in 1..Len(file) : file[i].text = "whole"
        /\ \A i \in 2..Len(file) : file[i].event.prev = file[i-1].event.id
        /\ file # <<>> /\ todo # <<>> => todo[1].prev = Last(file).event.id
        /\ file # <<>> /\ todo = <<>> /\ state # Down => latest = Last(file).event.id

(***************************************************************************)
(* Identities.  They grow, so a trip that was reported after a proposal    *)
(* has a greater one than the proposal names, in memory and, unless a      *)
(* power failure takes the line, in the file a later controller reads.     *)
(***************************************************************************)
Growing ==
    /\ proposal <= serial /\ latest <= serial
    /\ \A i \in 1..Len(todo) : proposal < todo[i].id /\ todo[i].id <= serial
    /\ \A i \in 1..Len(file) : file[i].event.id <= serial

Outdated ==
    ~lost /\ renewed =>
        /\ file # <<>> /\ (Last(file).text = "torn" \/ proposal < Last(file).event.id)
        /\ state # Down => proposal < latest
        /\ \A i \in 1..Len(todo) : todo[i].to # "RESET_PENDING"

\* As long as no append has raised, the quorums that opened the switch in this
\* process are consumed but for the one whose opening is yet to be written.
Spent ==
    ~faulted =>
        /\ opened \ consumed \subseteq IF todo # <<>> /\ state = "ACTIVE" THEN {quorum} ELSE {}
        /\ todo # <<>> /\ state = "RESET_PENDING" => quorum \notin opened

ChainInv == IInv /\ CallChained /\ FileChained /\ Growing /\ Outdated /\ Spent

\* Without a controller no call is running.
LEMMA DownIsQuiet ==
    ASSUME TypeOK, Shape, state = Down
    PROVE  todo = <<>>
<1> SUFFICES ASSUME todo # <<>> PROVE FALSE
  OBVIOUS
<1>1. 1 \in 1..Len(todo) /\ todo[1] \in Events
  BY DEF TypeOK
<1>2. todo[1].to \in States
  BY <1>1 DEF Events
<1>3. state = IF todo[1].to = "TRIPPED" THEN "PERSISTENTLY_BLOCKED" ELSE todo[1].to
  BY <1>1 DEF Shape
<1> QED BY <1>2, <1>3 DEF States, Down

\* A running call's lines are events, and so are what is left of them.
LEMMA CallLines ==
    ASSUME TypeOK
    PROVE  /\ todo \in Seq(Events) /\ Len(todo) \in Nat
           /\ \A i \in 1..Len(todo) : todo[i] \in Events /\ todo[i].id \in Nat
           /\ todo # <<>> => /\ 1 \in 1..Len(todo) /\ Len(todo) \in 1..Len(todo)
                             /\ Head(todo) = todo[1]
                             /\ Len(Tail(todo)) = Len(todo) - 1
                             /\ \A i \in 1..Len(Tail(todo)) : Tail(todo)[i] = todo[i + 1]
<1>1. todo \in Seq(Events) /\ Len(todo) \in Nat
  BY DEF TypeOK
<1>2. \A e \in Events : e.id \in Nat
  BY KillSwitchAssumption DEF Events
<1>3. \A i \in 1..Len(todo) : todo[i] \in Events
  BY <1>1
<1>4. ASSUME todo # <<>>
      PROVE  /\ 1 \in 1..Len(todo) /\ Len(todo) \in 1..Len(todo) /\ Head(todo) = todo[1]
             /\ Len(Tail(todo)) = Len(todo) - 1
             /\ \A i \in 1..Len(Tail(todo)) : Tail(todo)[i] = todo[i + 1]
  BY <1>1, <1>4
<1> QED BY <1>1, <1>2, <1>3, <1>4

\* The file's lines have events with identities.
LEMMA FileLines ==
    ASSUME TypeOK
    PROVE  /\ file \in Seq(Lines) /\ Len(file) \in Nat
           /\ \A i \in 1..Len(file) : file[i].event \in Events /\ file[i].event.id \in Nat
           /\ file # <<>> => Len(file) \in 1..Len(file)
<1>1. file \in Seq(Lines) /\ Len(file) \in Nat
  BY DEF TypeOK
<1>2. \A x \in Lines : x.event \in Events
  BY DEF Lines
<1>3. \A e \in Events : e.id \in Nat
  BY KillSwitchAssumption DEF Events
<1>4. \A i \in 1..Len(file) : file[i] \in Lines
  BY <1>1
<1>5. file # <<>> => Len(file) \in 1..Len(file)
  BY <1>1, EmptySeq
<1> QED BY <1>1, <1>2, <1>3, <1>4, <1>5

\* The identities in the file are numbers.
LEMMA FileIds ==
    ASSUME TypeOK
    PROVE  \A i \in 1..Len(file) : file[i].event.id \in Nat
BY FileLines

\* Writing keeps a bound on the identities, and ends in the event or in a line
\* that is torn for good.
LEMMA WrittenIds ==
    ASSUME NEW f \in Seq(Lines), NEW e \in Events, NEW t \in {"whole", "bare", "torn"},
           NEW b \in Nat, e.id <= b, \A i \in 1..Len(f) : f[i].event.id <= b
    PROVE  /\ Written(f, e, t) # <<>>
           /\ \A i \in 1..Len(Written(f, e, t)) : Written(f, e, t)[i].event.id <= b
           /\ Last(Written(f, e, t)).text = "torn" \/ Last(Written(f, e, t)).event = e
<1> DEFINE w == Written(f, e, t)
           x == [event |-> e, text |-> t]
<1>0. Len(f) \in Nat /\ x \in Lines /\ x.event = e
  BY DEF Lines
<1>1. CASE f = <<>> \/ f[Len(f)].text = "whole"
  <2>1. w = Append(f, x)
    BY <1>1 DEF Written
  <2> HIDE DEF w, x
  <2>2. /\ Len(w) = Len(f) + 1 /\ w[Len(f) + 1] = x
        /\ \A i \in 1..Len(f) : w[i] = f[i]
    BY <1>0, <2>1
  <2>3. w # <<>>
    BY <1>0, <2>2
  <2>4. ASSUME NEW i \in 1..Len(w) PROVE w[i].event.id <= b
    BY <1>0, <2>2
  <2>5. Last(w).event = e
    BY <1>0, <2>2 DEF Last
  <2> QED BY <2>3, <2>4, <2>5 DEF w
<1>2. CASE ~(f = <<>> \/ f[Len(f)].text = "whole")
  <2> DEFINE y == [f[Len(f)] EXCEPT !.text = "torn"]
  <2>1. w = [f EXCEPT ![Len(f)] = y]
    BY <1>2 DEF Written
  <2>2. Len(f) \in 1..Len(f)
    BY <1>0, <1>2, EmptySeq
  <2>3. f[Len(f)] \in Lines
    BY <2>2
  <2>4. y \in Lines /\ y.text = "torn" /\ y.event = f[Len(f)].event
    BY <2>3 DEF Lines
  <2> HIDE DEF w, y
  <2>5. /\ Len(w) = Len(f) /\ w[Len(f)] = y
        /\ \A i \in 1..Len(f) : i # Len(f) => w[i] = f[i]
    BY <2>1, <2>2, <2>4
  <2>6. w # <<>>
    BY <2>2, <2>5
  <2>7. ASSUME NEW i \in 1..Len(w) PROVE w[i].event.id <= b
    BY <2>2, <2>4, <2>5
  <2>8. Last(w).text = "torn"
    BY <2>4, <2>5 DEF Last
  <2> QED BY <2>6, <2>7, <2>8 DEF w
<1> QED BY <1>1, <1>2

\* A running call is chained to its end.
LEMMA CallNext ==
    ASSUME TypeOK, Shape, CallChained, [Next]_vars
    PROVE  CallChained'
<1>1. CASE Trip
  BY <1>1 DEF Trip, Event, CallChained
<1>2. CASE SubmitReset
  BY <1>2 DEF SubmitReset, Event, CallChained
<1>3. CASE AppendLine
  <2>1. CASE Head(todo).to = "RESET_PENDING"
    <3>1. todo' = <<Event(serial + 1, Head(todo).id, "RESET_PENDING", "ACTIVE")>>
          /\ latest' = serial + 1
      BY <1>3, <2>1 DEF AppendLine, Reopen
    <3> QED BY <3>1 DEF Event, CallChained
  <2>2. CASE Head(todo).to # "RESET_PENDING"
    <3>1. todo' = Tail(todo) /\ todo # <<>> /\ latest' = latest
      BY <1>3, <2>2 DEF AppendLine
    <3>2. /\ Len(todo') = Len(todo) - 1 /\ Len(todo) \in Nat
          /\ \A i \in 1..Len(todo') : todo'[i] = todo[i + 1]
      BY <3>1, CallLines
    <3>3. \A i \in 2..Len(todo') : todo'[i].prev = todo'[i-1].id
      <4> SUFFICES ASSUME NEW i \in 2..Len(todo') PROVE todo'[i].prev = todo'[i-1].id
        OBVIOUS
      <4>1. /\ i \in 1..Len(todo') /\ i - 1 \in 1..Len(todo')
            /\ i + 1 \in 2..Len(todo) /\ (i + 1) - 1 = i /\ (i - 1) + 1 = i
        BY <3>2
      <4> QED BY <3>2, <4>1 DEF CallChained
    <3>4. ASSUME todo' # <<>> PROVE latest' = todo'[Len(todo')].id
      <4>1. Len(todo') \in 1..Len(todo') /\ Len(todo') + 1 = Len(todo)
        <5>1. todo' \in Seq(Events)
          BY <3>1, CallLines
        <5> QED BY <3>2, <3>4, <5>1
      <4> QED BY <3>1, <3>2, <4>1 DEF CallChained
    <3> QED BY <3>3, <3>4 DEF CallChained
  <2> QED BY <2>1, <2>2
<1>4. CASE AppendRaises \/ Crash \/ PowerFailure
  BY <1>4 DEF AppendRaises, Crash, PowerFailure, Dies, CallChained
<1>5. CASE Restart
  <2>1. todo' = todo /\ todo = <<>>
    BY <1>5, DownIsQuiet DEF Restart
  <2> QED BY <2>1 DEF CallChained
<1>6. CASE Propose \/ Writeback \/ UNCHANGED vars
  BY <1>6 DEF Propose, Writeback, vars, CallChained
<1> QED BY <1>1, <1>2, <1>3, <1>4, <1>5, <1>6 DEF Next

\* A file that was written without a fault reads to its end.
LEMMA FileChainNext ==
    ASSUME TypeOK, Shape, CallChained, FileChained, [Next]_vars
    PROVE  FileChained'
<1> SUFFICES ASSUME ~faulted'
             PROVE  /\ \A i \in 1..Len(file') : file'[i].text = "whole"
                    /\ \A i \in 2..Len(file') : file'[i].event.prev = file'[i-1].event.id
                    /\ file' # <<>> /\ todo' # <<>> => todo'[1].prev = Last(file').event.id
                    /\ file' # <<>> /\ todo' = <<>> /\ state' # Down
                           => latest' = Last(file').event.id
  BY DEF FileChained, Last
<1>0. ~faulted
  BY DEF Next, Trip, Propose, SubmitReset, AppendLine, AppendRaises, Writeback, Crash,
         PowerFailure, Dies, Restart, vars
<1>1. /\ \A i \in 1..Len(file) : file[i].text = "whole"
      /\ \A i \in 2..Len(file) : file[i].event.prev = file[i-1].event.id
      /\ file # <<>> /\ todo # <<>> => todo[1].prev = Last(file).event.id
      /\ file # <<>> /\ todo = <<>> /\ state # Down => latest = Last(file).event.id
  BY <1>0 DEF FileChained
<1>2. CASE Trip
  BY <1>1, <1>2 DEF Trip, Idle, Event
<1>3. CASE SubmitReset
  BY <1>1, <1>3 DEF SubmitReset, Idle, Event
<1>4. CASE AppendLine
  <2> DEFINE e == Head(todo)
             x == [event |-> e, text |-> "whole"]
  <2>1. todo # <<>> /\ file' = Written(file, e, "whole") /\ e = todo[1] /\ e \in Events
    BY <1>4, CallLines DEF AppendLine
  <2>2. file' = Append(file, x)
    BY <1>1, <2>1, FileLines DEF Written
  <2>3. x \in Lines /\ x.event = e /\ x.text = "whole"
    BY <2>1 DEF Lines
  <2> HIDE DEF x
  <2>4. /\ Len(file') = Len(file) + 1 /\ Len(file) \in Nat /\ file'[Len(file) + 1] = x
        /\ \A i \in 1..Len(file) : file'[i] = file[i]
    BY <2>2, <2>3, FileLines
  <2>5. Last(file') = x
    BY <2>4 DEF Last
  <2>6. \A i \in 1..Len(file') : file'[i].text = "whole"
    BY <1>1, <2>3, <2>4
  <2>7. ASSUME NEW i \in 2..Len(file') PROVE file'[i].event.prev = file'[i-1].event.id
    <3>1. CASE i \in 2..Len(file)
      <4>1. i \in 1..Len(file) /\ i - 1 \in 1..Len(file)
        BY <2>4, <3>1
      <4> QED BY <1>1, <2>4, <3>1, <4>1
    <3>2. CASE i = Len(file) + 1
      <4>1. Len(file) \in 1..Len(file) /\ i - 1 = Len(file) /\ file # <<>>
        BY <2>4, <2>7, <3>2
      <4>2. e.prev = file[Len(file)].event.id
        BY <1>1, <2>1, <4>1 DEF Last
      <4> QED BY <2>3, <2>4, <3>2, <4>1, <4>2
    <3> QED BY <2>4, <3>1, <3>2
  <2>8. CASE e.to = "RESET_PENDING"
    <3>1. todo' = <<Event(serial + 1, e.id, "RESET_PENDING", "ACTIVE")>>
      BY <1>4, <2>8 DEF AppendLine, Reopen
    <3>2. todo' # <<>> /\ todo'[1].prev = e.id
      BY <3>1 DEF Event
    <3> QED BY <2>3, <2>5, <2>6, <2>7, <3>2
  <2>9. CASE e.to # "RESET_PENDING"
    <3>1. todo' = Tail(todo) /\ latest' = latest
      BY <1>4, <2>9 DEF AppendLine
    <3>2. /\ Len(todo') = Len(todo) - 1 /\ Len(todo) \in Nat /\ todo' \in Seq(Events)
          /\ \A i \in 1..Len(todo') : todo'[i] = todo[i + 1]
      BY <2>1, <3>1, CallLines
    <3>3. ASSUME todo' # <<>> PROVE todo'[1].prev = e.id
      <4>1. 1 \in 1..Len(todo') /\ 2 \in 2..Len(todo) /\ 1 + 1 = 2 /\ 2 - 1 = 1
        BY <3>2, <3>3
      <4> QED BY <2>1, <3>2, <4>1 DEF CallChained
    <3>4. ASSUME todo' = <<>> PROVE latest' = e.id
      <4>1. Len(todo) = 1
        BY <3>2, <3>4
      <4> QED BY <2>1, <3>1, <4>1 DEF CallChained
    <3> QED BY <2>3, <2>5, <2>6, <2>7, <3>3, <3>4
  <2> QED BY <2>8, <2>9
<1>5. CASE AppendRaises
  BY <1>5 DEF AppendRaises
<1>6. CASE Crash
  BY <1>1, <1>6 DEF Crash, Dies, Last
<1>7. CASE PowerFailure
  <2>1. PICK n \in flushed..Len(file) - 1 : file' = SubSeq(file, 1, n)
    BY <1>7 DEF PowerFailure, Dies
  <2>2. n \in 0..Len(file) /\ n \in Nat
    BY <2>1, FileLines DEF TypeOK
  <2>3. Len(file') = n /\ \A i \in 1..n : file'[i] = file[i] /\ i \in 1..Len(file)
    BY <2>1, <2>2, FileLines, SubSeqProperties
  <2>4. state' = Down /\ todo' = <<>>
    BY <1>7 DEF PowerFailure, Dies
  <2>5. \A i \in 2..n : i \in 1..n /\ i - 1 \in 1..n /\ i \in 2..Len(file)
    BY <2>2
  <2> QED BY <1>1, <2>3, <2>4, <2>5
<1>8. CASE Restart
  <2>1. file' = file /\ todo' = <<>> /\ todo = <<>>
    BY <1>8, DownIsQuiet DEF Restart
  <2>2. Readable(file)
    <3>1. \A i \in 1..Len(file) : file[i].text # "torn"
      BY <1>1
    <3> QED BY <1>1, <3>1 DEF Readable
  <2>3. file # <<>> => latest' = file[Len(file)].event.id
    BY <1>8, <2>2 DEF Restart
  <2> QED BY <1>1, <2>1, <2>3 DEF Last
<1>9. CASE Propose \/ Writeback \/ UNCHANGED vars
  <2>1. file' = file /\ todo' = todo /\ latest' = latest /\ state' = state
    BY <1>9 DEF Propose, Writeback, vars
  <2> QED BY <1>1, <2>1 DEF Last
<1> QED BY <1>2, <1>3, <1>4, <1>5, <1>6, <1>7, <1>8, <1>9 DEF Next

\* What one append makes of the file.
LEMMA Appends ==
    ASSUME TypeOK, Growing, AppendLine \/ AppendRaises
    PROVE  /\ todo # <<>> /\ Head(todo) = todo[1] /\ todo[1] \in Events
           /\ \A i \in 1..Len(file') : file'[i].event.id <= serial
           /\ AppendLine \/ file' # file =>
                 /\ file' # <<>>
                 /\ Last(file').text = "torn" \/ Last(file').event = todo[1]
<1>1. /\ todo # <<>> /\ Head(todo) = todo[1] /\ 1 \in 1..Len(todo) /\ todo[1] \in Events
      /\ todo[1].id <= serial /\ serial \in Nat /\ file \in Seq(Lines)
      /\ \A i \in 1..Len(file) : file[i].event.id <= serial
  BY CallLines, KillSwitchAssumption DEF AppendLine, AppendRaises, Growing, TypeOK
<1>2. CASE ~AppendLine /\ file' = file
  BY <1>1, <1>2
<1>3. CASE AppendLine \/ file' # file
  <2>1. \E t \in {"whole", "bare", "torn"} : file' = Written(file, todo[1], t)
    BY <1>1, <1>3 DEF AppendLine, AppendRaises
  <2> QED BY <1>1, <2>1, WrittenIds
<1> QED BY <1>2, <1>3

\* Identities grow.
LEMMA GrowingNext ==
    ASSUME TypeOK, Shape, Growing, [Next]_vars
    PROVE  Growing'
<1>0. /\ serial \in Nat /\ latest \in Nat /\ proposal \in Nat
      /\ proposal <= serial /\ latest <= serial
      /\ \A i \in 1..Len(todo) : proposal < todo[i].id /\ todo[i].id <= serial
      /\ \A i \in 1..Len(file) : file[i].event.id <= serial /\ file[i].event.id \in Nat
  BY FileLines, KillSwitchAssumption DEF TypeOK, Growing
<1>1. CASE Trip
  <2>1. /\ serial' = serial + 2 /\ latest' = serial + 2 /\ proposal' = proposal /\ file' = file
        /\ todo' = << Event(serial + 1, latest, state, "TRIPPED"),
                      Event(serial + 2, serial + 1, "TRIPPED", "PERSISTENTLY_BLOCKED") >>
    BY <1>1 DEF Trip
  <2>2. \A i \in 1..Len(todo') : todo'[i].id \in {serial + 1, serial + 2}
    BY <2>1 DEF Event
  <2>3. \A i \in 1..Len(todo') : proposal < todo'[i].id /\ todo'[i].id <= serial + 2
    BY <1>0, <2>2
  <2>4. \A i \in 1..Len(file) : file[i].event.id <= serial + 2
    BY <1>0
  <2>5. proposal <= serial + 2 /\ serial + 2 <= serial + 2
    BY <1>0
  <2> QED BY <2>1, <2>3, <2>4, <2>5 DEF Growing
<1>2. CASE SubmitReset
  <2>1. /\ serial' = serial + 1 /\ latest' = serial + 1 /\ proposal' = proposal /\ file' = file
        /\ todo' = << Event(serial + 1, latest, state, "RESET_PENDING") >>
    BY <1>2 DEF SubmitReset
  <2>2. \A i \in 1..Len(todo') : todo'[i].id = serial + 1
    BY <2>1 DEF Event
  <2>3. \A i \in 1..Len(todo') : proposal < todo'[i].id /\ todo'[i].id <= serial + 1
    BY <1>0, <2>2
  <2>4. \A i \in 1..Len(file) : file[i].event.id <= serial + 1
    BY <1>0
  <2>5. proposal <= serial + 1 /\ serial + 1 <= serial + 1
    BY <1>0
  <2> QED BY <2>1, <2>3, <2>4, <2>5 DEF Growing
<1>3. CASE AppendLine
  <2>0. \A i \in 1..Len(file') : file'[i].event.id <= serial /\ file'[i].event.id \in Nat
    <3>1. (\A i \in 1..Len(file) : file[i].event.id \in Nat)'
      <4>1. TypeOK'
        BY TypeNext
      <4> QED BY <4>1, FileIds, PTL
    <3> QED BY <1>3, <3>1, Appends
  <2>1. CASE Head(todo).to = "RESET_PENDING"
    <3>1. /\ todo' = <<Event(serial + 1, Head(todo).id, "RESET_PENDING", "ACTIVE")>>
          /\ serial' = serial + 1 /\ latest' = serial + 1 /\ proposal' = proposal
      BY <1>3, <2>1 DEF AppendLine, Reopen
    <3>2. \A i \in 1..Len(todo') : todo'[i].id = serial + 1
      BY <3>1 DEF Event
    <3>3. \A i \in 1..Len(todo') : proposal < todo'[i].id /\ todo'[i].id <= serial + 1
      BY <1>0, <3>2
    <3>4. \A i \in 1..Len(file') : file'[i].event.id <= serial + 1
      BY <1>0, <2>0
    <3>5. proposal <= serial + 1 /\ serial + 1 <= serial + 1
      BY <1>0
    <3> QED BY <3>1, <3>3, <3>4, <3>5 DEF Growing
  <2>2. CASE Head(todo).to # "RESET_PENDING"
    <3>1. /\ todo' = Tail(todo) /\ todo # <<>> /\ latest' = latest
          /\ serial' = serial /\ proposal' = proposal
      BY <1>3, <2>2 DEF AppendLine
    <3>2. \A i \in 1..Len(todo') : i + 1 \in 1..Len(todo) /\ todo'[i] = todo[i + 1]
      BY <3>1, CallLines
    <3>3. \A i \in 1..Len(todo') : proposal < todo'[i].id /\ todo'[i].id <= serial
      BY <1>0, <3>2
    <3> QED BY <1>0, <2>0, <3>1, <3>3 DEF Growing
  <2> QED BY <2>1, <2>2
<1>4. CASE AppendRaises
  <2>1. \A i \in 1..Len(file') : file'[i].event.id <= serial
    BY <1>4, Appends
  <2> QED BY <1>0, <1>4, <2>1 DEF AppendRaises, Growing
<1>5. CASE Crash
  BY <1>0, <1>5 DEF Crash, Dies, None, Growing
<1>6. CASE PowerFailure
  <2>1. PICK n \in flushed..Len(file) - 1 : file' = SubSeq(file, 1, n)
    BY <1>6 DEF PowerFailure, Dies
  <2>2. n \in 0..Len(file) /\ n \in Nat
    BY <2>1, FileLines DEF TypeOK
  <2>3. \A i \in 1..Len(file') : file'[i] = file[i] /\ i \in 1..Len(file)
    BY <2>1, <2>2, FileLines, SubSeqProperties
  <2>4. /\ serial' = serial /\ latest' = None /\ proposal' = proposal /\ todo' = <<>>
    BY <1>6 DEF PowerFailure, Dies
  <2> QED BY <1>0, <2>3, <2>4 DEF None, Growing
<1>7. CASE Restart
  <2>1. /\ serial' = serial /\ proposal' = proposal /\ todo' = todo /\ file' = file
        /\ \/ latest' \in {None, latest}
           \/ file # <<>> /\ latest' = file[Len(file)].event.id
    BY <1>7 DEF Restart
  <2>2. latest' <= serial
    BY <1>0, <2>1, FileLines DEF None
  <2> QED BY <1>0, <2>1, <2>2 DEF Growing
<1>8. CASE Propose
  BY <1>0, <1>8 DEF Propose, Idle, Growing
<1>9. CASE Writeback \/ UNCHANGED vars
  BY <1>0, <1>9 DEF Writeback, vars, Growing
<1> QED BY <1>1, <1>2, <1>3, <1>4, <1>5, <1>6, <1>7, <1>8, <1>9 DEF Next

\* A proposal that a reported trip has overtaken stays overtaken.
LEMMA OutdatedNext ==
    ASSUME TypeOK, Shape, CallChained, Growing, Outdated, [Next]_vars
    PROVE  Outdated'
<1> SUFFICES ASSUME ~lost', renewed'
             PROVE  /\ file' # <<>>
                    /\ Last(file').text = "torn" \/ proposal' < Last(file').event.id
                    /\ state' # Down => proposal' < latest'
                    /\ \A i \in 1..Len(todo') : todo'[i].to # "RESET_PENDING"
  BY DEF Outdated, Last
<1>0. /\ serial \in Nat /\ latest \in Nat /\ proposal \in Nat
      /\ proposal <= serial /\ latest <= serial
      /\ \A i \in 1..Len(todo) : proposal < todo[i].id /\ todo[i].id <= serial
  BY KillSwitchAssumption DEF TypeOK, Growing
<1>1. ASSUME renewed
      PROVE  /\ file # <<>> /\ (Last(file).text = "torn" \/ proposal < Last(file).event.id)
             /\ state # Down => proposal < latest
             /\ \A i \in 1..Len(todo) : todo[i].to # "RESET_PENDING"
  <2>1. ~lost
    BY DEF Next, Trip, Propose, SubmitReset, AppendLine, AppendRaises, Writeback, Crash,
           PowerFailure, Dies, Restart, vars
  <2> QED BY <1>1, <2>1 DEF Outdated
<1>2. CASE Trip
  <2>1. /\ renewed /\ latest' = serial + 2 /\ proposal' = proposal /\ file' = file
        /\ todo' = << Event(serial + 1, latest, state, "TRIPPED"),
                      Event(serial + 2, serial + 1, "TRIPPED", "PERSISTENTLY_BLOCKED") >>
    BY <1>2 DEF Trip
  <2>2. \A i \in 1..Len(todo') : todo'[i].to # "RESET_PENDING"
    BY <2>1 DEF Event
  <2> QED BY <1>0, <1>1, <2>1, <2>2 DEF Last
<1>3. CASE SubmitReset
  <2>1. renewed /\ proposal = latest /\ state # Down
    BY <1>3 DEF SubmitReset, Answers, Idle
  <2> QED BY <1>0, <1>1, <2>1
<1>4. CASE AppendLine
  <2>1. /\ todo # <<>> /\ Head(todo) = todo[1] /\ todo[1] \in Events /\ file' # <<>>
        /\ Last(file').text = "torn" \/ Last(file').event = todo[1]
    BY <1>4, Appends
  <2>2. state # Down /\ proposal' = proposal
    BY <1>4 DEF AppendLine
  <2>3. 1 \in 1..Len(todo) /\ Len(todo) \in 1..Len(todo)
    BY <2>1, CallLines
  <2>4. todo[1].to # "RESET_PENDING"
    <3> SUFFICES ASSUME todo[1].to = "RESET_PENDING" PROVE FALSE
      OBVIOUS
    <3>1. renewed
      BY <1>4, <2>1 DEF AppendLine, Reopen
    <3> QED BY <1>1, <2>3, <3>1
  <2>5. /\ todo' = Tail(todo) /\ latest' = latest /\ state' = state
        /\ renewed' = (renewed \/ todo[1].to = "PERSISTENTLY_BLOCKED")
    BY <1>4, <2>1, <2>4 DEF AppendLine
  <2>6. proposal < latest
    BY <1>0, <2>1, <2>3 DEF CallChained
  <2>7. \A i \in 1..Len(todo) : todo[i].to # "RESET_PENDING"
    <3>1. CASE renewed
      BY <1>1, <3>1
    <3>2. CASE todo[1].to = "PERSISTENTLY_BLOCKED"
      <4>1. state = "PERSISTENTLY_BLOCKED"
        BY <2>3, <3>2 DEF Shape
      <4> QED BY <4>1 DEF Shape
    <3> QED BY <2>5, <3>1, <3>2
  <2>8. \A i \in 1..Len(todo') : todo'[i].to # "RESET_PENDING"
    <3>1. \A i \in 1..Len(todo') : i + 1 \in 1..Len(todo) /\ todo'[i] = todo[i + 1]
      BY <2>1, <2>5, CallLines
    <3> QED BY <2>7, <3>1
  <2>9. Last(file').text = "torn" \/ proposal < Last(file').event.id
    BY <1>0, <2>1, <2>3
  <2> QED BY <2>1, <2>2, <2>5, <2>6, <2>8, <2>9
<1>5. CASE AppendRaises
  <2>1. /\ renewed /\ proposal' = proposal /\ latest' = latest /\ state' = state /\ todo' = <<>>
    BY <1>5 DEF AppendRaises
  <2>2. CASE file' = file
    BY <1>1, <2>1, <2>2 DEF Last
  <2>3. CASE file' # file
    <3>1. /\ todo # <<>> /\ file' # <<>>
          /\ Last(file').text = "torn" \/ Last(file').event = todo[1]
      BY <1>5, <2>3, Appends
    <3>2. 1 \in 1..Len(todo)
      BY <3>1, CallLines
    <3> QED BY <1>0, <1>1, <2>1, <3>1, <3>2
  <2> QED BY <2>2, <2>3
<1>6. CASE Crash
  BY <1>1, <1>6 DEF Crash, Dies, Last
<1>7. CASE PowerFailure
  BY <1>7 DEF PowerFailure, Dies
<1>8. CASE Restart
  <2>1. /\ renewed /\ proposal' = proposal /\ file' = file /\ todo' = <<>> /\ state = Down
    BY <1>8, DownIsQuiet DEF Restart
  <2>2. CASE Readable(file)
    <3>1. file # <<>> /\ Len(file) \in 1..Len(file)
      BY <1>1, <2>1, FileLines
    <3>2. Last(file).text # "torn" /\ latest' = Last(file).event.id
      BY <1>8, <2>2, <3>1 DEF Restart, Readable, Last
    <3> QED BY <1>1, <2>1, <3>2 DEF Last
  <2>3. CASE ~Readable(file)
    <3>1. state' = Down
      BY <1>8, <2>1, <2>3 DEF Restart
    <3> QED BY <1>1, <2>1, <3>1 DEF Last
  <2> QED BY <2>2, <2>3
<1>9. CASE Propose
  BY <1>9 DEF Propose
<1>10. CASE Writeback \/ UNCHANGED vars
  <2>1. /\ renewed /\ proposal' = proposal /\ latest' = latest /\ state' = state
        /\ todo' = todo /\ file' = file
    BY <1>10 DEF Writeback, vars
  <2> QED BY <1>1, <2>1 DEF Last
<1> QED BY <1>2, <1>3, <1>4, <1>5, <1>6, <1>7, <1>8, <1>9, <1>10 DEF Next

\* A quorum that has opened the switch is consumed before anything else happens.
LEMMA SpentNext ==
    ASSUME TypeOK, Shape, Spent, [Next]_vars
    PROVE  Spent'
<1> SUFFICES ASSUME ~faulted'
             PROVE  /\ opened' \ consumed' \subseteq
                          IF todo' # <<>> /\ state' = "ACTIVE" THEN {quorum'} ELSE {}
                    /\ todo' # <<>> /\ state' = "RESET_PENDING" => quorum' \notin opened'
  BY DEF Spent
<1>0. ~faulted
  BY DEF Next, Trip, Propose, SubmitReset, AppendLine, AppendRaises, Writeback, Crash,
         PowerFailure, Dies, Restart, vars
<1>1. /\ opened \ consumed \subseteq IF todo # <<>> /\ state = "ACTIVE" THEN {quorum} ELSE {}
      /\ todo # <<>> /\ state = "RESET_PENDING" => quorum \notin opened
  BY <1>0 DEF Spent
<1>2. CASE Trip
  <2>1. todo = <<>> /\ state' = "PERSISTENTLY_BLOCKED" /\ UNCHANGED <<quorum, consumed, opened>>
    BY <1>2 DEF Trip, Idle, approval
  <2> QED BY <1>1, <2>1
<1>3. CASE Propose
  <2>1. todo = <<>> /\ todo' = todo /\ UNCHANGED <<consumed, opened>>
    BY <1>3 DEF Propose, Idle
  <2> QED BY <1>1, <2>1
<1>4. CASE SubmitReset
  <2>1. /\ todo = <<>> /\ state' = "RESET_PENDING" /\ quorum \notin consumed
        /\ UNCHANGED <<quorum, consumed, opened>>
    BY <1>4 DEF SubmitReset, Idle, Answers, approval
  <2> QED BY <1>1, <2>1
<1>5. CASE AppendLine
  <2>1. todo # <<>> /\ quorum' = quorum
    BY <1>5 DEF AppendLine
  <2>2. /\ Head(todo).to = "ACTIVE" <=> state = "ACTIVE"
        /\ Head(todo).to = "RESET_PENDING" <=> state = "RESET_PENDING"
    <3>1. 1 \in 1..Len(todo) /\ Head(todo) = todo[1]
      BY <2>1, CallLines
    <3> QED BY <3>1 DEF Shape
  <2>3. CASE state = "RESET_PENDING"
    <3>1. state' = "ACTIVE" /\ todo' # <<>> /\ consumed' = consumed /\ opened' = opened \cup {quorum}
      BY <1>5, <2>2, <2>3 DEF AppendLine, Reopen
    <3> QED BY <1>1, <2>1, <2>3, <3>1
  <2>4. CASE state = "ACTIVE"
    <3>1. state' = "ACTIVE" /\ consumed' = consumed \cup {quorum} /\ opened' = opened
      BY <1>5, <2>2, <2>4 DEF AppendLine
    <3> QED BY <1>1, <2>1, <2>4, <3>1
  <2>5. CASE state \notin {"RESET_PENDING", "ACTIVE"}
    <3>1. state' = state /\ consumed' = consumed /\ opened' = opened
      BY <1>5, <2>2, <2>5 DEF AppendLine
    <3> QED BY <1>1, <2>1, <2>5, <3>1
  <2> QED BY <2>3, <2>4, <2>5
<1>6. CASE AppendRaises
  BY <1>6 DEF AppendRaises
<1>7. CASE Crash \/ PowerFailure
  <2>1. todo' = <<>> /\ opened' = {}
    BY <1>7 DEF Crash, PowerFailure, Dies
  <2> QED BY <2>1
<1>8. CASE Restart
  <2>1. todo = <<>> /\ todo' = todo /\ UNCHANGED <<quorum, consumed, opened>>
    BY <1>8, DownIsQuiet DEF Restart, approval
  <2> QED BY <1>1, <2>1
<1>9. CASE Writeback \/ UNCHANGED vars
  <2>1. todo' = todo /\ state' = state /\ UNCHANGED <<quorum, consumed, opened>>
    BY <1>9 DEF Writeback, vars, approval
  <2> QED BY <1>1, <2>1
<1> QED BY <1>2, <1>3, <1>4, <1>5, <1>6, <1>7, <1>8, <1>9 DEF Next

\* A new switch has no chain to break and no proposal to overtake.
LEMMA ChainInit == Init => ChainInv
<1> SUFFICES ASSUME Init PROVE ChainInv
  OBVIOUS
<1>1. Len(todo) = 0 /\ Len(file) = 0 /\ todo = <<>> /\ file = <<>>
  BY DEF Init
<1>2. CallChained /\ FileChained
  BY <1>1 DEF CallChained, FileChained
<1>3. Growing /\ Outdated
  BY <1>1 DEF Init, None, Growing, Outdated
<1>4. Spent
  BY <1>1 DEF Init, Spent
<1> QED BY <1>2, <1>3, <1>4, IInvInit DEF ChainInv

\* The strengthened invariant of the file and the identities.
THEOREM ChainInvariance == Spec => []ChainInv
<1>1. ChainInv /\ [Next]_vars => ChainInv'
  <2> SUFFICES ASSUME ChainInv, [Next]_vars PROVE ChainInv'
    OBVIOUS
  <2>1. IInv' /\ TypeOK /\ Shape
    BY IInvNext DEF ChainInv, IInv
  <2> QED BY <2>1, CallNext, FileChainNext, GrowingNext, OutdatedNext, SpentNext DEF ChainInv
<1> QED BY <1>1, ChainInit, PTL DEF Spec

\* _recover_from_persistence: as long as no append has raised, every crash and
\* every loss of unflushed lines leaves a file that a new controller can read.
THEOREM CrashesRecover == Spec => []CrashesAreRecoverable
<1>1. ChainInv => CrashesAreRecoverable
  BY DEF ChainInv, FileChained, CrashesAreRecoverable, Readable
<1> QED BY <1>1, ChainInvariance, PTL

\* submit_reset: what opens a blocked switch is a reset event that no reported trip
\* has overtaken, unless power was lost, with approvals that have not opened it
\* before in this process, unless an append raised.
THEOREM ResetsAreFresh == Spec => NoStaleReset
<1>1. ChainInv /\ [Next]_vars
        => [(state \in Blocked /\ state' = "ACTIVE")
               => (~lost => ~renewed) /\ (~faulted => quorum \notin opened)]_vars
  <2> SUFFICES ASSUME ChainInv, [Next]_vars, state \in Blocked, state' = "ACTIVE"
               PROVE  (~lost => ~renewed) /\ (~faulted => quorum \notin opened)
    OBVIOUS
  <2>1. state # Down /\ state # "ACTIVE"
    BY DEF Blocked, States, Down
  <2>2. AppendLine /\ Head(todo).to = "RESET_PENDING"
    BY <2>1 DEF Next, Trip, Propose, SubmitReset, AppendLine, AppendRaises, Writeback,
                Crash, PowerFailure, Dies, Restart, Down, vars
  <2>3. todo # <<>> /\ TypeOK /\ Shape
    BY <2>2 DEF AppendLine, ChainInv, IInv
  <2>4. 1 \in 1..Len(todo) /\ Head(todo) = todo[1]
    BY <2>3, CallLines
  <2>5. ~lost => ~renewed
    BY <2>2, <2>4 DEF ChainInv, Outdated
  <2>6. state = "RESET_PENDING"
    BY <2>2, <2>3, <2>4 DEF Shape
  <2>7. ~faulted => quorum \notin opened
    BY <2>3, <2>6 DEF ChainInv, Spent
  <2> QED BY <2>5, <2>7
<1> QED BY <1>1, ChainInvariance, PTL DEF Spec, NoStaleReset
=============================================================================
