----------------------------- MODULE KillSwitch -----------------------------
(***************************************************************************)
(* SovereignKillSwitchController (risk/kill_switch.py): the latch that     *)
(* closes order admission, and the append-only JSON-lines file it is       *)
(* rebuilt from.                                                           *)
(*                                                                         *)
(* The controller changes its memory first and appends afterwards.  A      *)
(* trip sets both of its states and only then appends two lines; a reset   *)
(* sets RESET_PENDING, appends, sets ACTIVE, appends again.  Each append   *)
(* is an open, a write and a close, without an fsync, and an exception     *)
(* from it leaves the memory as it already is.  So one operation is        *)
(* several steps here: the call, then one step per line of `todo', any of  *)
(* which may fail, and between any two of which the process may die.       *)
(*                                                                         *)
(* Events are identified by a serial number, which stands for the digest   *)
(* that chains them and for the event_id that a reset names (a millisecond *)
(* time stamp in the code: two trips in one millisecond are not modelled). *)
(* The signatures of a quorum are taken as valid.  They cover the approval *)
(* and not the reset event that carries it, so any quorum may be carried   *)
(* by any reset event; what the controller remembers of the ones that have *)
(* opened it is kept in memory alone.                                      *)
(***************************************************************************)
EXTENDS Naturals, Sequences

CONSTANTS
    MaxEvents,  \* bound on the events constructed in a behaviour
    Quorums     \* sufficient sets of signed approvals, no two with one in common

ASSUME KillSwitchAssumption == MaxEvents \in Nat

States  == {"ACTIVE", "TRIPPED", "PERSISTENTLY_BLOCKED", "RESET_PENDING"}
Blocked == States \ {"ACTIVE"}
Down    == "DOWN"                  \* no controller: the process is not running
None    == 0                       \* no latest event; the digest of 64 zeros

Events == [id : 1..MaxEvents, prev : 0..MaxEvents, from : States, to : States]

VARIABLES
    state,      \* _state, or Down
    latest,     \* the identity of _latest_event, or None
    todo,       \* events built by the running call and not yet appended
    serial,     \* the last event identity used
    file,       \* the lines of the ledger file
    flushed,    \* how many of them are known to be on the medium
    proposal,   \* the event that the outstanding reset event names, or None
    quorum,     \* the approvals that it carries
    consumed,   \* _consumed_approval_digests
    tripped,    \* history: a trip() returned and no reset has opened since
    renewed,    \* history: a trip() returned since the reset event was composed
    opened,     \* history: the quorums that opened the switch in this process
    faulted,    \* history: some append raised
    lost        \* history: a loss of power took lines with it

approval == <<quorum, consumed, opened>>

vars == <<state, latest, todo, serial, file, flushed, proposal, approval,
          tripped, renewed, faulted, lost>>

\* A line is an event and what became of its bytes: all of them, all but the
\* newline, or not even a parsable record.
Lines == [event : Events, text : {"whole", "bare", "torn"}]

Event(id, prev, from, to) == [id |-> id, prev |-> prev, from |-> from, to |-> to]

\* Bytes written behind an unfinished line extend that line.
Written(f, e, text) ==
    IF f = <<>> \/ f[Len(f)].text = "whole"
    THEN Append(f, [event |-> e, text |-> text])
    ELSE [f EXCEPT ![Len(f)].text = "torn"]

\* _recover_from_persistence: every line parses and continues the digest of
\* the line before it; the first line may continue anything.
Readable(f) ==
    /\ \A i \in 1..Len(f) : f[i].text # "torn"
    /\ \A i \in 2..Len(f) : f[i].event.prev = f[i-1].event.id

-----------------------------------------------------------------------------
Init ==
    /\ state = "ACTIVE" /\ latest = None /\ todo = <<>>
    /\ serial = 0 /\ file = <<>> /\ flushed = 0
    /\ proposal = None /\ tripped = FALSE /\ renewed = FALSE /\ faulted = FALSE
    /\ lost = FALSE
    /\ quorum \in Quorums /\ consumed = {} /\ opened = {}

Idle == state # Down /\ todo = <<>>

\* Mutant: both events of a trip continue the digest that preceded it.
Trip_unchained ==
    /\ Idle
    /\ serial + 2 <= MaxEvents
    /\ state' = "PERSISTENTLY_BLOCKED"
    /\ latest' = serial + 2
    /\ serial' = serial + 2
    /\ todo' = << Event(serial + 1, latest, state, "TRIPPED"),
                  Event(serial + 2, latest, "TRIPPED", "PERSISTENTLY_BLOCKED") >>
    /\ UNCHANGED <<file, flushed, proposal, approval, tripped, renewed, faulted, lost>>

\* trip(): every state may trip, again if need be.  Both events are built and
\* both states assigned before anything is written.
Trip ==
    /\ Idle
    /\ serial + 2 <= MaxEvents
    /\ state' = "PERSISTENTLY_BLOCKED"
    /\ latest' = serial + 2
    /\ serial' = serial + 2
    /\ todo' = << Event(serial + 1, latest, state, "TRIPPED"),
                  Event(serial + 2, serial + 1, "TRIPPED", "PERSISTENTLY_BLOCKED") >>
    /\ UNCHANGED <<file, flushed, proposal, approval, tripped, renewed, faulted, lost>>

\* A reset event is composed: it names the latest event of a blocked controller
\* and carries a quorum of approvals, new ones or ones that were used before.
Propose ==
    /\ Idle /\ state \in Blocked /\ latest # None
    /\ proposal' = latest /\ renewed' = FALSE
    /\ quorum' \in Quorums
    /\ UNCHANGED <<state, latest, todo, serial, file, flushed, consumed, opened,
                   tripped, faulted, lost>>

\* Mutant: the event that a reset names is not compared with the latest one.
Answers_any == latest # None /\ proposal # None /\ quorum \notin consumed

\* What submit_reset() accepts: a reset event that names the latest event, with
\* approvals that this process has not consumed.
Answers == latest # None /\ proposal = latest /\ quorum \notin consumed

\* Mutant: the switch opens before its reset is written.
SubmitReset_openFirst ==
    /\ Idle /\ state \in Blocked
    /\ Answers
    /\ serial + 2 <= MaxEvents
    /\ state' = "ACTIVE"
    /\ latest' = serial + 1
    /\ serial' = serial + 1
    /\ todo' = << Event(serial + 1, latest, state, "RESET_PENDING") >>
    /\ UNCHANGED <<file, flushed, proposal, approval, tripped, renewed, faulted, lost>>

\* submit_reset() up to its first append.
SubmitReset ==
    /\ Idle /\ state \in Blocked
    /\ Answers
    /\ serial + 2 <= MaxEvents
    /\ state' = "RESET_PENDING"
    /\ latest' = serial + 1
    /\ serial' = serial + 1
    /\ todo' = << Event(serial + 1, latest, state, "RESET_PENDING") >>
    /\ UNCHANGED <<file, flushed, proposal, approval, tripped, renewed, faulted, lost>>

\* The second stage of submit_reset(), run when the first line is written.
Reopen ==
    /\ state' = "ACTIVE"
    /\ latest' = serial + 1
    /\ serial' = serial + 1
    /\ todo' = << Event(serial + 1, Head(todo).id, "RESET_PENDING", "ACTIVE") >>
    /\ opened' = opened \cup {quorum}
    /\ tripped' = FALSE /\ UNCHANGED <<renewed, consumed>>

\* _persist_event returns; the call goes on or returns to its caller.  A reset
\* consumes its approvals last.
AppendLine ==
    /\ state # Down /\ todo # <<>>
    /\ file' = Written(file, Head(todo), "whole")
    /\ IF Head(todo).to = "RESET_PENDING"
       THEN Reopen
       ELSE /\ todo' = Tail(todo)
            /\ LET returns == Head(todo).to = "PERSISTENTLY_BLOCKED"
               IN  /\ tripped' = (tripped \/ returns)
                   /\ renewed' = (renewed \/ returns)
            /\ consumed' = IF Head(todo).to = "ACTIVE" THEN consumed \cup {quorum} ELSE consumed
            /\ UNCHANGED <<state, latest, serial, opened>>
    /\ UNCHANGED <<flushed, proposal, quorum, faulted, lost>>

\* _persist_event raises, having written nothing, part of a line, or all of it
\* but the newline.  The exception leaves the call where it is.
AppendRaises ==
    /\ state # Down /\ todo # <<>>
    /\ file' \in {file} \cup {Written(file, Head(todo), t) : t \in {"torn", "bare"}}
    /\ todo' = <<>>
    /\ faulted' = TRUE
    /\ UNCHANGED <<state, latest, serial, flushed, proposal, approval, tripped, renewed, lost>>

\* The operating system writes its cached pages: nothing in the code asks it to.
Writeback ==
    /\ flushed' = Len(file)
    /\ UNCHANGED <<state, latest, todo, serial, file, proposal, approval,
                   tripped, renewed, faulted, lost>>

\* The memory of the process is gone.
Dies ==
    /\ state # Down
    /\ state' = Down /\ latest' = None /\ todo' = <<>>
    /\ consumed' = {} /\ opened' = {}

\* The process dies, and the file stays as it is.
Crash ==
    /\ Dies
    /\ UNCHANGED <<serial, file, flushed, proposal, quorum, tripped, renewed, faulted, lost>>

\* The machine dies, and takes some of the unflushed lines with it.
PowerFailure ==
    /\ Dies
    /\ \E n \in flushed..Len(file) - 1 : file' = SubSeq(file, 1, n)
    /\ lost' = TRUE
    /\ UNCHANGED <<serial, flushed, proposal, quorum, tripped, renewed, faulted>>

\* Mutant: a file without events leaves the state unset.
Recovered_unset(f) == IF f = <<>> THEN "UNSET" ELSE f[Len(f)].event.to

\* The state a readable file stands for: that of its last event, whatever it is.
Recovered(f) == IF f = <<>> THEN "ACTIVE" ELSE f[Len(f)].event.to

\* Mutant: an unreadable file counts as an empty one.
Restart_failOpen ==
    /\ state = Down
    /\ IF Readable(file)
       THEN /\ state' = Recovered(file)
            /\ latest' = IF file = <<>> THEN None ELSE file[Len(file)].event.id
       ELSE state' = "ACTIVE" /\ latest' = None
    /\ UNCHANGED <<todo, serial, file, flushed, proposal, approval, tripped, renewed, faulted, lost>>

\* A new controller reads the file.  One that cannot be read raises out of the
\* constructor, and there is still no controller.
Restart ==
    /\ state = Down
    /\ IF Readable(file)
       THEN /\ state' = Recovered(file)
            /\ latest' = IF file = <<>> THEN None ELSE file[Len(file)].event.id
       ELSE UNCHANGED <<state, latest>>
    /\ UNCHANGED <<todo, serial, file, flushed, proposal, approval, tripped, renewed, faulted, lost>>

Next ==
    \/ Trip \/ Propose \/ SubmitReset
    \/ AppendLine \/ AppendRaises
    \/ Writeback \/ Crash \/ PowerFailure \/ Restart

Spec == Init /\ [][Next]_vars

-----------------------------------------------------------------------------
(***************************************************************************)
(* Properties                                                              *)
(***************************************************************************)

\* Every variable has its type.
TypeOK ==
    /\ state \in States \cup {Down}
    /\ latest \in 0..MaxEvents /\ serial \in 0..MaxEvents /\ proposal \in 0..MaxEvents
    /\ todo \in Seq(Events)
    /\ file \in Seq(Lines)
    /\ flushed \in 0..Len(file)
    /\ tripped \in BOOLEAN /\ renewed \in BOOLEAN
    /\ faulted \in BOOLEAN /\ lost \in BOOLEAN
    /\ quorum \in Quorums /\ consumed \subseteq Quorums /\ opened \subseteq Quorums

\* A trip that was reported to its caller holds until a reset opens the switch:
\* not a process crash at any point, a failed append of a later trip or reset,
\* nor any number of restarts opens admission behind the operator's back.
TripHolds == ~lost /\ tripped => state # "ACTIVE"

\* Admission is open only while the file does not end in a blocking event: the
\* file cannot be left behind by an open controller, so that a crash of it
\* closes what the operators had opened, never the reverse.
OpenMeansReset ==
    state = "ACTIVE" =>
        \/ file = <<>>
        \/ file[Len(file)].text # "whole"
        \/ file[Len(file)].event.to \in {"RESET_PENDING", "ACTIVE"}

\* While no append has raised, a restart always gets a controller back: dying
\* between the two lines of a trip or of a reset breaks no chain.
CrashesAreRecoverable == ~faulted => Readable(file)

\* What opens a blocked switch.  Its reset event was composed after the last trip
\* that was reported, in this process or in one before it (unless power was
\* lost); and its approvals have not opened the switch before in this process
\* (unless an append raised, which leaves a reset's approvals unconsumed).
NoStaleReset ==
    [][(state \in Blocked /\ state' = "ACTIVE")
          => (~lost => ~renewed) /\ (~faulted => quorum \notin opened)]_vars
=============================================================================
