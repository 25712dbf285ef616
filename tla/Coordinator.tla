---------------------------- MODULE Coordinator ----------------------------
(***************************************************************************)
(* ExecutionCoordinator (execution/coordinator.py): the shadow state of    *)
(* one order, driven only through transition_order()                       *)
(* (execution/state_machine.py) by normalised broker reports               *)
(* (execution/broker_events.py) and by reconciliation evidence.            *)
(*                                                                         *)
(* The venue is external: it works the order, and every change of it adds  *)
(* one report.  Reports reach the coordinator in any order, more than once *)
(* or never: "re-delivery and reordering are expected in live brokers"     *)
(* (docs/phase7/broker_adapter_contract.md).  Besides the reports there    *)
(* are two events of the process itself, a cancel request and a lost       *)
(* connection, and the evidence of the reconciliation engine.              *)
(*                                                                         *)
(* A report's identity (broker_event_id, broker_sequence) is its position  *)
(* in the venue's log.  Local events always have a fresh identity (the     *)
(* adapter's receipt counter), so theirs is not remembered.                *)
(***************************************************************************)
EXTENDS Naturals, Sequences, FiniteSetsExt

CONSTANTS
    Qty,            \* requested_qty
    MaxReports      \* bound on the venue's reports

ASSUME CoordinatorAssumption == Qty \in Nat \ {0} /\ MaxReports \in Nat

Terminal == {"FILLED", "CANCELLED", "REJECTED", "EXPIRED"}
States   == {"INTENT", "SUBMITTED", "CANCEL_REQUESTED", "ACKNOWLEDGED",
             "PARTIALLY_FILLED", "UNKNOWN"} \cup Terminal

\* What the venue may say of an order, and the event each report is
\* normalised to.
Canonical ==
    [ACK |-> "ACK", REJECT |-> "REJECT", PARTIAL_FILL |-> "PARTIAL_FILL",
     FILLED |-> "FILL", CANCEL_REJECTED |-> "CANCEL_REJECT",
     ORDER_CANCELLED |-> "CANCEL_ACK", EXPIRED |-> "EXPIRY"]

\* Mutant: a cancel that was refused counts as a cancel.
CancelRows_refusedIsCancelled ==
    {<<"CANCEL_REQUESTED", "CANCEL_ACK", "CANCELLED">>,
     <<"CANCEL_REQUESTED", "CANCEL_REJECT", "CANCELLED">>,
     <<"CANCEL_REQUESTED", "FILL", "FILLED">>,
     <<"CANCEL_REQUESTED", "CONNECTION_LOST", "UNKNOWN">>,
     <<"CANCEL_REQUESTED", "RECONCILE", "UNKNOWN">>}

\* What may become of an order whose cancel is in flight.
CancelRows ==
    {<<"CANCEL_REQUESTED", "CANCEL_ACK", "CANCELLED">>,
     <<"CANCEL_REQUESTED", "CANCEL_REJECT", "ACKNOWLEDGED">>,
     <<"CANCEL_REQUESTED", "FILL", "FILLED">>,
     <<"CANCEL_REQUESTED", "CONNECTION_LOST", "UNKNOWN">>,
     <<"CANCEL_REQUESTED", "RECONCILE", "UNKNOWN">>}

\* The canonical transition table.  A pair of a state and an event that is not
\* in it is an error, in particular every event of a terminal state and every
\* event of UNKNOWN but the two treated below.
Table ==
    {<<"INTENT", "SUBMIT", "SUBMITTED">>,
     <<"SUBMITTED", "ACK", "ACKNOWLEDGED">>,
     <<"SUBMITTED", "REJECT", "REJECTED">>,
     <<"SUBMITTED", "CONNECTION_LOST", "UNKNOWN">>,
     <<"ACKNOWLEDGED", "PARTIAL_FILL", "PARTIALLY_FILLED">>,
     <<"ACKNOWLEDGED", "FILL", "FILLED">>,
     <<"ACKNOWLEDGED", "CANCEL_REQUEST", "CANCEL_REQUESTED">>,
     <<"ACKNOWLEDGED", "REJECT", "REJECTED">>,
     <<"ACKNOWLEDGED", "EXPIRY", "EXPIRED">>,
     <<"ACKNOWLEDGED", "CONNECTION_LOST", "UNKNOWN">>,
     <<"PARTIALLY_FILLED", "PARTIAL_FILL", "PARTIALLY_FILLED">>,
     <<"PARTIALLY_FILLED", "FILL", "FILLED">>,
     <<"PARTIALLY_FILLED", "CANCEL_REQUEST", "CANCEL_REQUESTED">>,
     <<"PARTIALLY_FILLED", "EXPIRY", "EXPIRED">>,
     <<"PARTIALLY_FILLED", "CONNECTION_LOST", "UNKNOWN">>,
     <<"UNKNOWN", "CONNECTION_LOST", "UNKNOWN">>}
    \cup CancelRows

Accepts(s, e) == \E t \in States : <<s, e, t>> \in Table

\* Evidence names an outcome, a dispute, or nothing that can be resolved.
Tokens == Terminal \cup {"UNKNOWN", "malformed"}

VARIABLES
    shadow,     \* shadow_state
    filled,     \* filled_qty
    seen,       \* _seen: positions of reports, and Rec for a reconciliation
    disputed,   \* _disputed
    incidents,  \* _incidents, as <<kind, identity>>
    requests,   \* broker outcomes for which a restriction was requested
    misled,     \* history: some evidence named an outcome that is not the venue's
    venue,      \* the venue's own state of the order
    executed,   \* the quantity the venue has executed
    asked,      \* a cancel request is at the venue
    reports     \* everything the venue has reported

coordinator == <<shadow, filled, seen, disputed, incidents, requests, misled>>
broker      == <<venue, executed, asked, reports>>
vars        == <<coordinator, broker>>

\* Identities that are no report's: a reconciliation's, and a local event's.
Rec   == 0
Local == MaxReports + 1

Working == {"NEW", "ACKNOWLEDGED", "PARTIALLY_FILLED"}

Reports == [kind : DOMAIN Canonical, qty : 0..Qty, asked : BOOLEAN]

Init ==
    /\ shadow = "SUBMITTED" /\ filled = 0 /\ seen = {}
    /\ disputed = FALSE /\ incidents = {} /\ requests = {} /\ misled = FALSE
    /\ venue = "NEW" /\ executed = 0 /\ asked = FALSE /\ reports = <<>>

-----------------------------------------------------------------------------
(* The venue. *)

\* One change of the order at the venue, with its report.
Report(status, kind, qty) ==
    /\ Len(reports) < MaxReports
    /\ venue' = status
    /\ executed' = executed + qty
    /\ reports' = Append(reports, [kind |-> kind, qty |-> qty, asked |-> asked])
    /\ UNCHANGED coordinator

VenueAck == venue = "NEW" /\ Report("ACKNOWLEDGED", "ACK", 0) /\ UNCHANGED asked

VenueReject ==
    /\ venue \in {"NEW", "ACKNOWLEDGED"}
    /\ Report("REJECTED", "REJECT", 0) /\ UNCHANGED asked

VenueFill(q) ==
    /\ venue \in {"ACKNOWLEDGED", "PARTIALLY_FILLED"}
    /\ IF executed + q < Qty
       THEN Report("PARTIALLY_FILLED", "PARTIAL_FILL", q)
       ELSE executed + q = Qty /\ Report("FILLED", "FILLED", q)
    /\ UNCHANGED asked

VenueExpire ==
    /\ venue \in {"ACKNOWLEDGED", "PARTIALLY_FILLED"}
    /\ Report("EXPIRED", "EXPIRED", 0) /\ UNCHANGED asked

\* A venue may also cancel what nobody asked it to.
VenueCancel ==
    /\ venue \in {"ACKNOWLEDGED", "PARTIALLY_FILLED"}
    /\ Report("CANCELLED", "ORDER_CANCELLED", 0) /\ UNCHANGED asked

VenueCancelReject ==
    /\ venue \in Working /\ asked
    /\ Report(venue, "CANCEL_REJECTED", 0) /\ asked' = FALSE

-----------------------------------------------------------------------------
(* The coordinator. *)

\* normalize_broker_event: a cancellation without a cancel request is
\* ambiguous, and raises before the coordinator sees it.
Normalises(r) == r.kind # "ORDER_CANCELLED" \/ r.asked

Incident(kind, id) == incidents' = incidents \cup {<<kind, id>>}

\* transition_order accepts the event, and its result becomes the state; a fill
\* adds its quantity.
Applied(e, qty) ==
    /\ \E t \in States : <<shadow, e, t>> \in Table /\ shadow' = t
    /\ filled' = IF e \in {"PARTIAL_FILL", "FILL"} THEN filled + qty ELSE filled
    /\ UNCHANGED incidents

\* Mutant: a refused event leaves no incident.
Rejected_silent(e, id) ==
    /\ ~Accepts(shadow, e)
    /\ UNCHANGED <<shadow, filled, incidents>>

\* transition_order raises; the coordinator records it and stays as it is.
Rejected(e, id) ==
    /\ ~Accepts(shadow, e)
    /\ Incident("LATE_EVENT", id)
    /\ UNCHANGED <<shadow, filled>>

\* Mutant: no report is recognised as a duplicate.
Apply_noDedup(i) ==
    LET r == reports[i]
        e == Canonical[r.kind]
    IN  /\ seen' = seen \cup {i}
        /\ Applied(e, r.qty) \/ Rejected(e, i)

\* apply() of a report: its identity is remembered before the authority is
\* asked, whatever the answer.
Apply(i) ==
    LET r == reports[i]
        e == Canonical[r.kind]
    IN  IF i \in seen
        THEN Incident("DUPLICATE_EVENT", i) /\ UNCHANGED <<shadow, filled, seen>>
        ELSE /\ seen' = seen \cup {i}
             /\ Applied(e, r.qty) \/ Rejected(e, i)

Deliver(i) ==
    /\ i \in 1..Len(reports) /\ Normalises(reports[i])
    /\ Apply(i)
    /\ UNCHANGED <<disputed, requests, misled, broker>>

\* The operator asks the venue to cancel, and then tells the coordinator.
RequestCancel ==
    /\ venue \in Working /\ ~asked
    /\ asked' = TRUE
    /\ Applied("CANCEL_REQUEST", 0) \/ Rejected("CANCEL_REQUEST", Local)
    /\ UNCHANGED <<seen, disputed, requests, misled, venue, executed, reports>>

\* The adapter gives up waiting for the venue.
ConnectionLost ==
    /\ Applied("CONNECTION_LOST", 0) \/ Rejected("CONNECTION_LOST", Local)
    /\ UNCHANGED <<seen, disputed, requests, misled, broker>>

\* reconcile() of a terminal order: it never moves, and evidence of another
\* outcome makes it disputed and asks for a restriction.
ReconcileTerminal(token) ==
    /\ shadow \in Terminal
    /\ IF token = shadow
       THEN UNCHANGED <<disputed, incidents, requests>>
       ELSE /\ disputed' = TRUE
            /\ Incident("RECONCILIATION_CONFLICT", Rec)
            /\ requests' = requests \cup {token}
    /\ UNCHANGED shadow

\* Mutant: evidence is taken over without being resolved.
ReconcileUnknown_unresolved(token) ==
    /\ shadow = "UNKNOWN"
    /\ shadow' = token
    /\ disputed' = (disputed \/ token = "UNKNOWN")
    /\ UNCHANGED <<incidents, requests>>

\* reconcile() of an UNKNOWN order: a named outcome is taken over, a dispute
\* leaves it where it is.
ReconcileUnknown(token) ==
    /\ shadow = "UNKNOWN" /\ token # "malformed"
    /\ shadow' = token
    /\ disputed' = (disputed \/ token = "UNKNOWN")
    /\ UNCHANGED <<incidents, requests>>

\* reconcile() of a cancel in flight: never a blind assertion.
ReconcileCancel ==
    /\ shadow = "CANCEL_REQUESTED"
    /\ shadow' = "UNKNOWN"
    /\ UNCHANGED <<disputed, incidents, requests>>

\* reconcile() that transition_order refuses.
ReconcileRefused(token) ==
    /\ shadow \notin Terminal \cup {"CANCEL_REQUESTED"}
    /\ shadow = "UNKNOWN" => token = "malformed"
    /\ disputed' = TRUE
    /\ Incident("UNKNOWN_RECONCILIATION", Rec)
    /\ UNCHANGED <<shadow, requests>>

\* reconcile(), with evidence that need not be true.
Reconcile(token) ==
    /\ \/ ReconcileTerminal(token) \/ ReconcileUnknown(token)
       \/ ReconcileCancel \/ ReconcileRefused(token)
    /\ seen' = seen \cup {Rec}
    /\ misled' = (misled \/ (token \in Terminal /\ token # venue))
    /\ UNCHANGED <<filled, broker>>

\* The same reconciliation, delivered again.
ReconcileAgain ==
    /\ Rec \in seen
    /\ Incident("DUPLICATE_EVENT", Rec)
    /\ UNCHANGED <<shadow, filled, seen, disputed, requests, misled, broker>>

Next ==
    \/ VenueAck \/ VenueReject \/ VenueExpire \/ VenueCancel \/ VenueCancelReject
    \/ \E q \in 1..Qty : VenueFill(q)
    \/ \E i \in 1..MaxReports : Deliver(i)
    \/ RequestCancel \/ ConnectionLost
    \/ \E token \in Tokens : Reconcile(token)
    \/ ReconcileAgain

Spec == Init /\ [][Next]_vars

-----------------------------------------------------------------------------
(***************************************************************************)
(* Properties                                                              *)
(***************************************************************************)

IncidentKinds == {"LATE_EVENT", "DUPLICATE_EVENT", "RECONCILIATION_CONFLICT",
                  "UNKNOWN_RECONCILIATION"}
Identities    == 0..MaxReports + 1

\* Every variable has its type.
TypeOK ==
    /\ shadow \in States /\ filled \in Nat
    /\ seen \subseteq 1..Len(reports) \cup {Rec}
    /\ disputed \in BOOLEAN /\ misled \in BOOLEAN /\ requests \subseteq Tokens
    /\ incidents \subseteq IncidentKinds \X Identities
    /\ venue \in Working \cup Terminal /\ executed \in 0..Qty /\ asked \in BOOLEAN
    /\ reports \in Seq(Reports) /\ Len(reports) <= MaxReports

\* The coordinator never invents an outcome: however the reports, the lost
\* connections and the reconciliations interleave, a terminal shadow is the
\* venue's own final state, unless some evidence lied.
TerminalIsTrue == ~misled /\ shadow \in Terminal => venue = shadow

\* The coordinator keeps the contract of its order: see OrderContract.  An order
\* is open in it until the shadow is final, UNKNOWN included.
Fate == IF venue \in Terminal THEN venue ELSE "working"
Claim == IF shadow \in Terminal THEN shadow ELSE "open"

Contract == INSTANCE OrderContract
    WITH Final <- Terminal, outcome <- Fate, claim <- Claim, counted <- filled
ImplementsContract == Contract!CSpec

\* Redelivery never counts a fill twice: the ledger is at most what the venue
\* has executed, and so never more than was ordered.
NeverOverfilled == filled <= executed

Quantity(S) == SumFunctionOnSet([i \in 1..Len(reports) |-> reports[i].qty], S)

\* No fill that was delivered disappears: it is in the ledger, or there is a
\* LATE_EVENT incident for it.
FillsAccounted ==
    filled + Quantity({i \in seen \ {Rec} : <<"LATE_EVENT", i>> \in incidents})
        = Quantity(seen \ {Rec})

\* A finished order is finished: no report, no cancel request, no lost
\* connection and no evidence, true or false, moves its state or its ledger.
TerminalAbsorbs ==
    [][(shadow \in Terminal) => UNCHANGED <<shadow, filled>>]_vars

\* broker_adapter_contract.md, section 4: the coordinator is ordering-tolerant,
\* so once it has every report its ledger is the venue's.
OrderingTolerant == 1..Len(reports) \subseteq seen => filled = executed
=============================================================================
