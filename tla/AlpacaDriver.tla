--------------------------- MODULE AlpacaDriver ---------------------------
(***************************************************************************)
(* R1RealOrderExerciseDriver.submit_and_observe()                          *)
(* (execution/alpaca/real_driver.py): it submits one order, and round by    *)
(* round the driver reads the stream of trade events and, when the stream  *)
(* breaks off, a snapshot of the order.  Both reach the coordinator        *)
(* through AlpacaPaperAdapter (execution/alpaca/adapter.py).  The clock is *)
(* looked at between two rounds, never while the stream is open.           *)
(*                                                                         *)
(* This module composes the call with Coordinator: the venue's actions     *)
(* are the ones there, and every step of the driver is one or more calls   *)
(* of apply() and reconcile().  The driver never asks for a cancel.        *)
(*                                                                         *)
(* The two sources name the same fill differently.  A stream event has the *)
(* venue's identity, which is its position in the reports.  A snapshot has *)
(* the adapter's next local number, so it is never a duplicate, and its    *)
(* quantity is what it adds to the coordinator's ledger.                   *)
(*                                                                         *)
(* Every opening of the stream names no position (since_id is None), so it *)
(* starts where the venue likes: it may replay, and it may have lost what  *)
(* happened in between.  Within one opening the events are in order.       *)
(***************************************************************************)
EXTENDS Coordinator

CONSTANT MaxPolls   \* rounds of the loop before timeout_seconds are over

ASSUME AlpacaAssumption == MaxPolls \in Nat \ {0}

VARIABLES
    pc,         \* where submit_and_observe() is
    pos,        \* the last event the open stream has given
    snap,       \* broker_order, the last snapshot
    polls,      \* rounds of the loop so far
    parity,     \* ReconciliationReport.is_in_parity
    counted     \* history: the quantity each source has added to filled_qty

driver     == <<pc, pos, snap, polls, parity, counted>>
driverVars == <<vars, driver>>

\* "lost" is between the lost connection that a cancelled order is turned into
\* and its reconciliation.
Places == {"submit", "loop", "stream", "query", "snapshot", "resolve", "lost",
           "final", "done", "raised"}

Ended == pc \in {"done", "raised"}

Order == [status |-> venue, filled |-> executed]

DriverInit ==
    /\ Init
    /\ pc = "submit" /\ pos = 0 /\ snap = Order /\ polls = 0 /\ parity = FALSE
    /\ counted = [stream |-> 0, snapshot |-> 0]

-----------------------------------------------------------------------------
(* Calls of the coordinator. *)

\* What a call leaves alone besides the shadow, the ledger and the incidents.
Others == <<disputed, requests, misled, broker>>

\* apply() of an event that is the driver's own: its identity is new.
LocalEvent(e, qty) ==
    /\ Applied(e, qty) \/ Rejected(e, Local)
    /\ UNCHANGED <<seen, Others>>

\* The quantity a call has added is of this source.
Count(source) == counted' = [counted EXCEPT ![source] = @ + (filled' - filled)]

-----------------------------------------------------------------------------
(* The loop. *)

\* The venue has the order, and the driver its identity.
Submitted ==
    /\ pc = "submit" /\ pc' = "loop"
    /\ UNCHANGED <<vars, pos, snap, polls, parity, counted>>

\* The request raises, and so does submit_and_observe(); the venue may have the
\* order all the same.
SubmitRaises ==
    /\ pc = "submit" /\ pc' = "raised"
    /\ UNCHANGED <<vars, pos, snap, polls, parity, counted>>

\* Mutant: the loop has no end.
OpenStream_forever(n) ==
    /\ pc = "loop" /\ n \in 0..Len(reports)
    /\ pc' = "stream" /\ pos' = n /\ polls' = 0
    /\ UNCHANGED <<vars, snap, parity, counted>>

\* There is time left, and the stream is opened at an event of the venue's
\* choice.  No round that goes on has left the order in a final state.
OpenStream(n) ==
    /\ pc = "loop" /\ polls < MaxPolls /\ n \in 0..Len(reports)
    /\ pc' = "stream" /\ pos' = n
    /\ UNCHANGED <<vars, snap, polls, parity, counted>>

\* What the adapter maps: it refuses every cancellation.
Maps(r) == r.kind # "ORDER_CANCELLED"

\* The next event of the stream is applied, and ends the loop if it ended the
\* order.
StreamEvent ==
    /\ pc = "stream" /\ pos < Len(reports) /\ Maps(reports[pos + 1])
    /\ Apply(pos + 1) /\ Count("stream")
    /\ pos' = pos + 1
    /\ pc' = IF shadow' \in Terminal THEN "final" ELSE "stream"
    /\ UNCHANGED <<Others, snap, polls, parity>>

\* The adapter raises AlpacaAdapterMappingError, for a cancellation and for
\* every event of an order in flight (suspended, pending_cancel, ...), which the
\* venue may send at any time.  It is no AlpacaTransportError, so it leaves
\* submit_and_observe().
StreamRaises ==
    /\ pc = "stream" /\ pc' = "raised"
    /\ UNCHANGED <<vars, pos, snap, polls, parity, counted>>

\* The open stream gives a line that is none of this order's events: a keep-alive,
\* or the event of another order.  The loop reads on, and httpx's time limit,
\* which is for one read, starts again.
StreamIdle ==
    /\ pc = "stream" /\ UNCHANGED driverVars

\* The stream ends, breaks, or gives no line at all within httpx's time limit.
StreamEnds ==
    /\ pc = "stream" /\ pc' = "query"
    /\ UNCHANGED <<vars, pos, snap, polls, parity, counted>>

\* The round is over: the driver sleeps and looks at the clock.
Continue == pc' = "loop" /\ polls' = polls + 1

QueryFails ==
    /\ pc = "query" /\ Continue
    /\ UNCHANGED <<vars, pos, snap, parity, counted>>

\* The snapshot is taken; an order the venue knows and has not refused is
\* acknowledged by it.
Query ==
    /\ pc = "query" /\ pc' = "snapshot" /\ snap' = Order
    /\ IF shadow = "SUBMITTED" /\ venue \in Working \cup {"FILLED"}
       THEN LocalEvent("ACK", 0)
       ELSE UNCHANGED vars
    /\ UNCHANGED <<pos, polls, parity, counted>>

\* Mutant: the whole quantity of the snapshot is added.
Increment_whole == snap.filled

\* What the snapshot adds to the ledger; apply() counts no negative quantity.
Increment == IF snap.filled > filled THEN snap.filled - filled ELSE 0

SnapshotWorking ==
    /\ pc = "snapshot" /\ snap.status \in {"NEW", "ACKNOWLEDGED"}
    /\ Continue
    /\ UNCHANGED <<vars, pos, snap, parity, counted>>

SnapshotPartial ==
    /\ pc = "snapshot" /\ snap.status = "PARTIALLY_FILLED"
    /\ IF Increment > 0
       THEN LocalEvent("PARTIAL_FILL", Increment)
       ELSE UNCHANGED vars
    /\ Count("snapshot") /\ Continue
    /\ UNCHANGED <<pos, snap, parity>>

\* The event of a final state other than a cancellation.
FinalEvent == [FILLED |-> "FILL", REJECTED |-> "REJECT", EXPIRED |-> "EXPIRY"]

\* Such a snapshot ends the loop, also when the coordinator refuses it.
SnapshotFinal ==
    /\ pc = "snapshot" /\ snap.status \in DOMAIN FinalEvent
    /\ LocalEvent(FinalEvent[snap.status], IF snap.status = "FILLED" THEN Increment ELSE 0)
    /\ Count("snapshot")
    /\ pc' = "final"
    /\ UNCHANGED <<pos, snap, polls, parity>>

\* A cancellation nobody asked for becomes a lost connection, and then evidence.
SnapshotCancelled ==
    /\ pc = "snapshot" /\ snap.status = "CANCELLED"
    /\ LocalEvent("CONNECTION_LOST", 0)
    /\ pc' = "lost"
    /\ UNCHANGED <<pos, snap, polls, parity, counted>>

-----------------------------------------------------------------------------
(* After the loop. *)

\* The time is up before the order has ended.
TimeOut ==
    /\ pc = "loop"
    /\ LocalEvent("CONNECTION_LOST", 0)
    /\ pc' = "resolve"
    /\ UNCHANGED <<pos, snap, polls, parity, counted>>

\* Mutant: every snapshot is evidence, also that of an order in the market.
Conclusive_any(status) == TRUE

\* What the last query of a timeout may resolve the order with.
Conclusive(status) == status \in {"FILLED", "CANCELLED"}

Resolve ==
    /\ pc = "resolve" /\ snap' = Order
    /\ pc' = IF Conclusive(venue) THEN "lost" ELSE "final"
    /\ UNCHANGED <<vars, pos, polls, parity, counted>>

ResolveFails ==
    /\ pc = "resolve" /\ pc' = "final"
    /\ UNCHANGED <<vars, pos, snap, polls, parity, counted>>

\* reconcile() with the snapshot as evidence.
Evidence ==
    /\ pc = "lost" /\ pc' = "final"
    /\ Reconcile(snap.status)
    /\ UNCHANGED <<pos, snap, polls, parity, counted>>

\* Mutant: a partly executed order passes for a filled one.
InParity_atMost ==
    /\ shadow \in Terminal /\ ~disputed /\ venue = shadow
    /\ shadow \in {"FILLED", "CANCELLED"} => filled <= executed

\* The shadow and the ledger agree with a last snapshot.  Of an order that was
\* rejected or expired only the state is compared.
InParity ==
    /\ shadow \in Terminal /\ ~disputed /\ venue = shadow
    /\ shadow = "FILLED" => executed = Qty /\ filled = Qty
    /\ shadow = "CANCELLED" => executed = filled

Verify ==
    /\ pc = "final" /\ pc' = "done"
    /\ parity' = InParity
    /\ UNCHANGED <<vars, pos, snap, polls, counted>>

VerifyFails ==
    /\ pc = "final" /\ pc' = "done"
    /\ UNCHANGED <<vars, pos, snap, polls, parity, counted>>

Venue ==
    /\ \/ VenueAck \/ VenueReject \/ VenueExpire \/ VenueCancel
       \/ \E q \in 1..Qty : VenueFill(q)
    /\ UNCHANGED driver

Driver ==
    \/ Submitted \/ SubmitRaises
    \/ \E n \in 0..MaxReports : OpenStream(n)
    \/ StreamEvent \/ StreamIdle \/ StreamRaises \/ StreamEnds
    \/ QueryFails \/ Query
    \/ SnapshotWorking \/ SnapshotPartial \/ SnapshotFinal \/ SnapshotCancelled
    \/ TimeOut \/ Resolve \/ ResolveFails \/ Evidence
    \/ Verify \/ VerifyFails

DriverNext == Venue \/ Driver

DriverSpec == DriverInit /\ [][DriverNext]_driverVars

\* The driver is one thread, and its requests have time limits.  The venue owes
\* nothing, so nothing makes an open stream give an event of this order or end.
FairDriver == DriverSpec /\ WF_driverVars(Driver /\ pc # "stream")

-----------------------------------------------------------------------------
(***************************************************************************)
(* Properties                                                              *)
(***************************************************************************)

\* Every variable has its type.
DriverTypeOK ==
    /\ TypeOK
    /\ pc \in Places /\ pos \in 0..Len(reports) /\ polls \in 0..MaxPolls
    /\ snap \in [status : Working \cup Terminal, filled : 0..Qty]
    /\ parity \in BOOLEAN /\ counted \in [stream : Nat, snapshot : Nat]

\* The answer of submit_and_observe() is true: a final state is the venue's own
\* whatever the stream lost or repeated, whenever the time was up, and however
\* old the snapshot was; and an order that is reported in parity and has not
\* expired has exactly the executed quantity in its ledger.
AnswerIsTrue ==
    pc = "done" =>
        /\ shadow \in Terminal => venue = shadow
        /\ parity => shadow \in Terminal /\ (filled = executed \/ shadow = "EXPIRED")

\* A fill may be counted by both sources, but neither counts it twice: stream
\* events are recognised by their identity, and a snapshot adds only what the
\* ledger lacks.
CountedOncePerSource ==
    /\ filled = counted.stream + counted.snapshot
    /\ counted.stream <= executed /\ counted.snapshot <= executed

\* A submitted order gets an answer or an exception, whatever the venue does, or
\* else one opening of the stream is read for ever: timeout_seconds ends the rounds
\* of the loop, not the reading of a stream that stays open.
Answers == <>Ended \/ <>[](pc = "stream")
=============================================================================
