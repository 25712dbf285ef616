------------------------ MODULE Coordinator_proofs ------------------------
(***************************************************************************)
(* Theorems about Coordinator for every order size and every number of     *)
(* reports.                                                                *)
(*                                                                         *)
(* TerminalIsTrue is not inductive: a report that is on its way must be    *)
(* true as well.  The strengthening says that a report of an outcome names *)
(* the venue's final state, which holds because that state is final.       *)
(*                                                                         *)
(* What is counted needs LedgerInv: the reports' quantities add up to what *)
(* the venue has executed, and the ledger to those of the reports that were *)
(* delivered in time.  The refinement of OrderContract is proved from it,  *)
(* one action of Next after the other.                                     *)
(***************************************************************************)
EXTENDS Coordinator, Sums

\* The final state that a report of an outcome speaks of.
Outcome == [REJECT |-> "REJECTED", FILLED |-> "FILLED",
            ORDER_CANCELLED |-> "CANCELLED", EXPIRED |-> "EXPIRED"]

\* Reports of an outcome are true, and so is the shadow's final state.
ReportsAreTrue ==
    \A i \in 1..Len(reports) :
        reports[i].kind \in DOMAIN Outcome => venue = Outcome[reports[i].kind]

IInv == TypeOK /\ ReportsAreTrue /\ TerminalIsTrue

\* A row of the table starts in a state that is not final, ends in a state,
\* and ends in a final one only for the report of that outcome.
LEMMA Rows ==
    ASSUME NEW s, NEW e, NEW t, <<s, e, t>> \in Table
    PROVE  /\ s \notin Terminal /\ t \in States
           /\ t \in Terminal => /\ e = "REJECT" => t = "REJECTED"
                                /\ e = "FILL" => t = "FILLED"
                                /\ e = "CANCEL_ACK" => t = "CANCELLED"
                                /\ e = "EXPIRY" => t = "EXPIRED"
                                /\ e \in {"REJECT", "FILL", "CANCEL_ACK", "EXPIRY"}
BY DEF Table, CancelRows, Terminal, States

\* A report whose event ends the order is a report of that outcome.
LEMMA Ends ==
    ASSUME NEW k \in DOMAIN Canonical, NEW s, NEW t,
           <<s, Canonical[k], t>> \in Table, t \in Terminal
    PROVE  k \in DOMAIN Outcome /\ Outcome[k] = t
<1>1. k \in {"ACK", "REJECT", "PARTIAL_FILL", "FILLED", "CANCEL_REJECTED",
             "ORDER_CANCELLED", "EXPIRED"}
  BY DEF Canonical
<1>2. Canonical[k] \in {"REJECT", "FILL", "CANCEL_ACK", "EXPIRY"}
  BY Rows
<1>3. k \in {"REJECT", "FILLED", "ORDER_CANCELLED", "EXPIRED"}
  BY <1>1, <1>2 DEF Canonical
<1>4. Outcome[k] = t
  BY <1>3, Rows DEF Canonical, Outcome
<1> QED BY <1>3, <1>4 DEF Outcome

\* The shadow state after an event is in the table is of its type.
LEMMA AppliedType ==
    ASSUME NEW e, NEW q \in Nat, shadow \in States, filled \in Nat, Applied(e, q)
    PROVE  shadow' \in States /\ filled' \in Nat
BY Rows DEF Applied

-----------------------------------------------------------------------------
\* A step of the venue keeps the invariant: it starts from a state that is not
\* final, so no earlier report speaks of an outcome.
LEMMA ReportStep ==
    ASSUME IInv, NEW status, NEW kind, NEW q \in 0..Qty,
           Report(status, kind, q), asked' \in BOOLEAN,
           venue \in Working, status \in Working \cup Terminal, executed + q <= Qty,
           kind \in DOMAIN Canonical,
           kind \in DOMAIN Outcome => status = Outcome[kind]
    PROVE  IInv'
<1> USE CoordinatorAssumption
<1> DEFINE r == [kind |-> kind, qty |-> q, asked |-> asked]
<1>1. /\ venue' = status /\ executed' = executed + q /\ reports' = Append(reports, r)
      /\ shadow' = shadow /\ filled' = filled /\ seen' = seen /\ disputed' = disputed
      /\ incidents' = incidents /\ requests' = requests /\ misled' = misled
      /\ Len(reports) < MaxReports
  BY DEF Report, coordinator
<1>2. /\ reports \in Seq(Reports) /\ r \in Reports /\ Len(reports) \in Nat
      /\ executed \in 0..Qty
  BY DEF IInv, TypeOK, Reports
<1>3. /\ reports' \in Seq(Reports) /\ Len(reports') = Len(reports) + 1
      /\ reports'[Len(reports) + 1] = r
      /\ \A i \in 1..Len(reports) : reports'[i] = reports[i]
  BY <1>1, <1>2
<1>4. TypeOK'
  <2>1. executed' \in 0..Qty /\ Len(reports') <= MaxReports
    BY <1>1, <1>2, <1>3
  <2>2. seen' \subseteq 1..Len(reports') \cup {Rec}
    BY <1>1, <1>2, <1>3 DEF IInv, TypeOK
  <2> QED BY <1>1, <1>3, <2>1, <2>2 DEF IInv, TypeOK
<1>5. venue \notin Terminal
  BY DEF Working, Terminal
<1>6. ReportsAreTrue'
  <2> SUFFICES ASSUME NEW i \in 1..Len(reports'), reports'[i].kind \in DOMAIN Outcome
               PROVE  venue' = Outcome[reports'[i].kind]
    BY DEF ReportsAreTrue
  <2>1. CASE i = Len(reports) + 1
    BY <1>1, <1>3, <2>1
  <2>2. CASE i \in 1..Len(reports)
    <3>1. venue = Outcome[reports[i].kind]
      BY <1>3, <2>2 DEF IInv, ReportsAreTrue
    <3>2. venue \in Terminal
      BY <1>3, <2>2, <3>1 DEF Outcome, Terminal
    <3> QED BY <3>2, <1>5
  <2> QED BY <1>2, <1>3, <2>1, <2>2
<1>7. TerminalIsTrue'
  BY <1>1, <1>5 DEF IInv, TerminalIsTrue
<1> QED BY <1>4, <1>6, <1>7 DEF IInv

\* An order that is not yet requested satisfies the invariant.
LEMMA IInvInit == Init => IInv
<1> SUFFICES ASSUME Init PROVE IInv
  OBVIOUS
<1>1. Len(reports) = 0 /\ reports \in Seq(Reports)
  BY DEF Init
<1>2. TypeOK
  <2>1. /\ shadow \in States /\ filled \in Nat
        /\ disputed \in BOOLEAN /\ asked \in BOOLEAN /\ misled \in BOOLEAN
    BY DEF Init, States
  <2>2. venue \in Working \cup Terminal /\ executed \in 0..Qty /\ Len(reports) <= MaxReports
    BY <1>1, CoordinatorAssumption DEF Init, Working
  <2>3. /\ seen \subseteq 1..Len(reports) \cup {Rec} /\ requests \subseteq Tokens
        /\ incidents \subseteq IncidentKinds \X Identities
    BY DEF Init
  <2> QED BY <1>1, <2>1, <2>2, <2>3 DEF TypeOK
<1>3. ReportsAreTrue
  BY <1>1 DEF ReportsAreTrue
<1>4. TerminalIsTrue
  BY DEF Init, TerminalIsTrue, Terminal
<1> QED BY <1>2, <1>3, <1>4 DEF IInv

\* A step of the coordinator leaves the venue and its reports alone, so it keeps
\* the invariant if it keeps the types and the truth of the shadow.
LEMMA CoordinatorStep ==
    ASSUME IInv, venue' = venue, executed' = executed, reports' = reports,
           asked' \in BOOLEAN, shadow' \in States, filled' \in Nat,
           seen' \subseteq 1..Len(reports) \cup {Rec},
           disputed' \in BOOLEAN, misled' \in BOOLEAN, requests' \subseteq Tokens,
           incidents' \subseteq IncidentKinds \X Identities,
           ~misled' /\ shadow' \in Terminal => venue = shadow'
    PROVE  IInv'
BY DEF IInv, TypeOK, ReportsAreTrue, TerminalIsTrue

\* Delivering a report: an outcome it leads to is the one it reports.
LEMMA DeliverStep ==
    ASSUME IInv, NEW i \in 1..MaxReports, Deliver(i)
    PROVE  IInv'
<1> USE CoordinatorAssumption
<1> DEFINE r == reports[i]
           e == Canonical[r.kind]
<1>1. /\ i \in 1..Len(reports) /\ Apply(i)
      /\ disputed' = disputed /\ requests' = requests /\ misled' = misled /\ venue' = venue
      /\ executed' = executed /\ asked' = asked /\ reports' = reports
  BY DEF Deliver, broker
<1>2. r \in Reports /\ r.kind \in DOMAIN Canonical /\ r.qty \in Nat
  <2>1. r \in Reports
    BY <1>1 DEF IInv, TypeOK
  <2> QED BY <2>1 DEF Reports
<1>3. \/ Incident("DUPLICATE_EVENT", i) /\ shadow' = shadow /\ filled' = filled /\ seen' = seen
      \/ /\ seen' = seen \cup {i}
         /\ Applied(e, r.qty) \/ Rejected(e, i)
  BY <1>1 DEF Apply
<1>4. i \in Identities
  BY DEF Identities
<1>5. incidents' \subseteq IncidentKinds \X Identities
  BY <1>3, <1>4 DEF Incident, Applied, Rejected, IInv, TypeOK, IncidentKinds
<1>6. shadow' \in States /\ filled' \in Nat
  BY <1>2, <1>3, AppliedType DEF Rejected, IInv, TypeOK
<1>7. ~misled' /\ shadow' \in Terminal => venue = shadow'
  <2>1. CASE shadow' = shadow
    BY <1>1, <2>1 DEF IInv, TerminalIsTrue
  <2>2. CASE Applied(e, r.qty)
    <3> SUFFICES ASSUME shadow' \in Terminal PROVE venue = shadow'
      OBVIOUS
    <3>1. <<shadow, e, shadow'>> \in Table
      BY <2>2 DEF Applied
    <3>2. r.kind \in DOMAIN Outcome /\ Outcome[r.kind] = shadow'
      BY <1>2, <3>1, Ends
    <3> QED BY <1>1, <3>2 DEF IInv, ReportsAreTrue
  <2> QED BY <1>3, <2>1, <2>2 DEF Rejected
<1>8. seen' \subseteq 1..Len(reports) \cup {Rec}
  BY <1>1, <1>3 DEF IInv, TypeOK
<1> QED BY <1>1, <1>5, <1>6, <1>7, <1>8, CoordinatorStep DEF IInv, TypeOK

\* An event of the process itself never ends the order.
LEMMA LocalStep ==
    ASSUME IInv, NEW e \in {"CANCEL_REQUEST", "CONNECTION_LOST"},
           Applied(e, 0) \/ Rejected(e, Local),
           seen' = seen, disputed' = disputed, requests' = requests, misled' = misled,
           venue' = venue, executed' = executed, reports' = reports, asked' \in BOOLEAN
    PROVE  IInv'
<1> USE CoordinatorAssumption
<1>1. shadow' \in States /\ filled' \in Nat
  BY AppliedType DEF Rejected, IInv, TypeOK
<1>2. incidents' \subseteq IncidentKinds \X Identities
  BY DEF Applied, Rejected, Incident, IInv, TypeOK, IncidentKinds, Identities, Local
<1>3. ~misled' /\ shadow' \in Terminal => venue = shadow'
  <2>1. CASE Applied(e, 0)
    BY <2>1, Rows DEF Applied
  <2>2. CASE Rejected(e, Local)
    BY <2>2 DEF Rejected, IInv, TerminalIsTrue
  <2> QED BY <2>1, <2>2
<1> QED BY <1>1, <1>2, <1>3, CoordinatorStep DEF IInv, TypeOK

\* Reconciling takes over an outcome only when the evidence may name it.
LEMMA ReconcileStep ==
    ASSUME IInv, NEW token \in Tokens, Reconcile(token)
    PROVE  IInv'
<1> USE CoordinatorAssumption
<1>1. /\ seen' = seen \cup {Rec} /\ filled' = filled /\ venue' = venue
      /\ executed' = executed /\ asked' = asked /\ reports' = reports
  BY DEF Reconcile, broker
<1>2. misled' = (misled \/ (token \in Terminal /\ token # venue)) /\ misled' \in BOOLEAN
  BY DEF Reconcile, IInv, TypeOK
<1>3. (~misled' => ~misled) /\ (~misled' /\ token \in Terminal => token = venue)
  BY <1>2
<1>4. Rec \in Identities
  BY DEF Rec, Identities
<1>5. CASE ReconcileTerminal(token)
  <2>1. incidents' \subseteq IncidentKinds \X Identities
    BY <1>4, <1>5 DEF ReconcileTerminal, Incident, IncidentKinds, IInv, TypeOK
  <2>2. disputed' \in BOOLEAN /\ requests' \subseteq Tokens /\ shadow' = shadow
    BY <1>5 DEF ReconcileTerminal, IInv, TypeOK
  <2> QED BY <1>1, <1>2, <1>3, <2>1, <2>2, CoordinatorStep DEF IInv, TypeOK, TerminalIsTrue
<1>6. CASE ReconcileUnknown(token)
  <2>1. shadow' \in States
    BY <1>6 DEF ReconcileUnknown, Tokens, States
  <2> QED BY <1>1, <1>2, <1>3, <1>6, <2>1, CoordinatorStep DEF ReconcileUnknown, IInv, TypeOK
<1>7. CASE ReconcileCancel
  BY <1>1, <1>2, <1>7, CoordinatorStep DEF ReconcileCancel, IInv, TypeOK, States, Terminal
<1>8. CASE ReconcileRefused(token)
  <2>1. incidents' \subseteq IncidentKinds \X Identities
    BY <1>4, <1>8 DEF ReconcileRefused, Incident, IncidentKinds, IInv, TypeOK
  <2>2. disputed' \in BOOLEAN /\ requests' = requests /\ shadow' = shadow
    BY <1>8 DEF ReconcileRefused
  <2> QED BY <1>1, <1>2, <1>3, <2>1, <2>2, CoordinatorStep DEF IInv, TypeOK, TerminalIsTrue
<1> QED BY <1>5, <1>6, <1>7, <1>8 DEF Reconcile

\* Every step of the coordinator, the venue and the channel keeps the invariant.
LEMMA IInvNext == IInv /\ [Next]_vars => IInv'
<1> SUFFICES ASSUME IInv, [Next]_vars PROVE IInv'
  OBVIOUS
<1> USE CoordinatorAssumption
<1>0. /\ executed \in 0..Qty /\ asked \in BOOLEAN /\ Qty \in Nat
      /\ venue \in Working \cup Terminal
  BY DEF IInv, TypeOK
<1>1. CASE VenueAck
  <2>1. Report("ACKNOWLEDGED", "ACK", 0) /\ asked' = asked /\ venue \in Working
    BY <1>1 DEF VenueAck, Working
  <2> QED BY <1>0, <2>1, ReportStep DEF Canonical, Outcome, Working
<1>2. CASE VenueReject
  <2>1. Report("REJECTED", "REJECT", 0) /\ asked' = asked /\ venue \in Working
    BY <1>2 DEF VenueReject, Working
  <2> QED BY <1>0, <2>1, ReportStep DEF Canonical, Outcome, Terminal
<1>3. CASE VenueExpire
  <2>1. Report("EXPIRED", "EXPIRED", 0) /\ asked' = asked /\ venue \in Working
    BY <1>3 DEF VenueExpire, Working
  <2> QED BY <1>0, <2>1, ReportStep DEF Canonical, Outcome, Terminal
<1>4. CASE VenueCancel
  <2>1. Report("CANCELLED", "ORDER_CANCELLED", 0) /\ asked' = asked /\ venue \in Working
    BY <1>4 DEF VenueCancel, Working
  <2> QED BY <1>0, <2>1, ReportStep DEF Canonical, Outcome, Terminal
<1>5. CASE VenueCancelReject
  <2>1. Report(venue, "CANCEL_REJECTED", 0) /\ asked' = FALSE /\ venue \in Working
    BY <1>5 DEF VenueCancelReject
  <2>2. asked' \in BOOLEAN
    BY <2>1
  <2>3. executed + 0 <= Qty /\ 0 \in 0..Qty
    BY <1>0
  <2>4. "CANCEL_REJECTED" \in DOMAIN Canonical /\ "CANCEL_REJECTED" \notin DOMAIN Outcome
    BY DEF Canonical, Outcome
  <2> QED BY <2>1, <2>2, <2>3, <2>4, ReportStep
<1>6. CASE \E q \in 1..Qty : VenueFill(q)
  <2>1. PICK q \in 1..Qty : VenueFill(q)
    BY <1>6
  <2>2. venue \in Working /\ asked' = asked /\ q \in 0..Qty
    BY <1>0, <2>1 DEF VenueFill, Working
  <2>3. CASE executed + q < Qty
    <3>1. Report("PARTIALLY_FILLED", "PARTIAL_FILL", q) /\ executed + q <= Qty
      BY <1>0, <2>1, <2>3 DEF VenueFill
    <3> QED BY <1>0, <2>2, <3>1, ReportStep DEF Canonical, Outcome, Working
  <2>4. CASE ~(executed + q < Qty)
    <3>1. Report("FILLED", "FILLED", q) /\ executed + q <= Qty
      BY <1>0, <2>1, <2>4 DEF VenueFill
    <3> QED BY <1>0, <2>2, <3>1, ReportStep DEF Canonical, Outcome, Terminal
  <2> QED BY <2>3, <2>4
<1>7. CASE \E i \in 1..MaxReports : Deliver(i)
  BY <1>7, DeliverStep
<1>8. CASE RequestCancel
  BY <1>8, LocalStep DEF RequestCancel
<1>9. CASE ConnectionLost
  BY <1>0, <1>9, LocalStep DEF ConnectionLost, broker
<1>10. CASE \E token \in Tokens : Reconcile(token)
  BY <1>10, ReconcileStep
<1>11. CASE ReconcileAgain
  <2>1. incidents' \subseteq IncidentKinds \X Identities
    BY <1>11 DEF ReconcileAgain, Incident, IncidentKinds, Identities, Rec, IInv, TypeOK
  <2> QED BY <1>11, <2>1, CoordinatorStep DEF ReconcileAgain, broker, IInv, TypeOK, TerminalIsTrue
<1>12. CASE UNCHANGED vars
  BY <1>12 DEF vars, coordinator, broker, IInv, TypeOK, ReportsAreTrue, TerminalIsTrue
<1> QED BY <1>1, <1>2, <1>3, <1>4, <1>5, <1>6, <1>7, <1>8, <1>9, <1>10, <1>11, <1>12 DEF Next

\* The strengthened invariant holds in every state of every behaviour.
THEOREM Invariance == Spec => []IInv
<1>1. Init => IInv
  BY IInvInit
<1>2. IInv /\ [Next]_vars => IInv'
  BY IInvNext
<1> QED BY <1>1, <1>2, PTL DEF Spec

\* The variables of ExecutionCoordinator keep their types.
THEOREM TypeCorrect == Spec => []TypeOK
<1>1. IInv => TypeOK
  BY DEF IInv
<1> QED BY <1>1, Invariance, PTL

\* ExecutionCoordinator never claims an outcome that the venue did not have, for
\* any order size, any number of reports and any interleaving of them.
THEOREM OutcomesAreTrue == Spec => []TerminalIsTrue
<1>1. IInv => TerminalIsTrue
  BY DEF IInv
<1> QED BY <1>1, Invariance, PTL

-----------------------------------------------------------------------------
\* No event is in the table for a final state, so none is applied to one.
LEMMA NotApplied ==
    ASSUME shadow \in Terminal, NEW e, NEW q
    PROVE  ~Applied(e, q)
BY Rows DEF Applied

\* No step moves the shadow of a finished order or what it counts as filled.
LEMMA AbsorbsNext ==
    ASSUME [Next]_vars, shadow \in Terminal
    PROVE  UNCHANGED <<shadow, filled>>
<1>1. CASE \E i \in 1..MaxReports : Deliver(i)
  BY <1>1, NotApplied DEF Deliver, Apply, Rejected
<1>2. CASE RequestCancel \/ ConnectionLost
  BY <1>2, NotApplied DEF RequestCancel, ConnectionLost, Rejected
<1>3. CASE \E token \in Tokens : Reconcile(token)
  BY <1>3 DEF Reconcile, ReconcileTerminal, ReconcileUnknown, ReconcileCancel,
              ReconcileRefused, Terminal
<1>4. CASE ReconcileAgain
  BY <1>4 DEF ReconcileAgain
<1>5. CASE \/ VenueAck \/ VenueReject \/ VenueExpire \/ VenueCancel \/ VenueCancelReject
           \/ \E q \in 1..Qty : VenueFill(q)
  BY <1>5 DEF VenueAck, VenueReject, VenueExpire, VenueCancel, VenueCancelReject, VenueFill,
              Report, coordinator
<1>6. CASE UNCHANGED vars
  BY <1>6 DEF vars, coordinator
<1> QED BY <1>1, <1>2, <1>3, <1>4, <1>5, <1>6 DEF Next

\* A finished order is finished, whatever arrives, in whatever order, true or not.
THEOREM FinishedIsFinal == Spec => TerminalAbsorbs
<1>1. [Next]_vars => [(shadow \in Terminal) => UNCHANGED <<shadow, filled>>]_vars
  BY AbsorbsNext
<1> QED BY <1>1, PTL DEF Spec, TerminalAbsorbs

-----------------------------------------------------------------------------
(***************************************************************************)
(* The ledger.  FillsAccounted is inductive once an incident of a late     *)
(* event is known to be about a report that was delivered, and once        *)
(* reports other than fills are known to carry no quantity.  That the      *)
(* executed quantity is the sum of all reports then bounds the ledger.     *)
(***************************************************************************)

Fills == {"PARTIAL_FILL", "FILLED"}

Late == {i \in seen \ {Rec} : <<"LATE_EVENT", i>> \in incidents}

\* What the reports say in sum is what the venue has executed, and only what
\* was delivered can have come too late.
ReportsAddUp ==
    /\ executed = Quantity(1..Len(reports))
    /\ \A i \in 1..Len(reports) : reports[i].kind \notin Fills => reports[i].qty = 0
    /\ \A i \in 1..MaxReports : <<"LATE_EVENT", i>> \in incidents => i \in seen

LedgerInv == IInv /\ ReportsAddUp /\ FillsAccounted /\ NeverOverfilled

\* A report has a kind and a quantity.
LEMMA ReportType ==
    ASSUME TypeOK
    PROVE  /\ Len(reports) \in Nat /\ Len(reports) <= MaxReports
           /\ \A i \in 1..Len(reports) :
                reports[i].kind \in DOMAIN Canonical /\ reports[i].qty \in Nat
           /\ \A r \in Reports : r.qty \in Nat
<1>1. \A r \in Reports : r.kind \in DOMAIN Canonical /\ r.qty \in Nat
  BY CoordinatorAssumption DEF Reports
<1>2. Len(reports) \in Nat /\ \A i \in 1..Len(reports) : reports[i] \in Reports
  BY DEF TypeOK
<1> QED BY <1>1, <1>2 DEF TypeOK

\* How a sum over reports behaves.
LEMMA QuantityFacts ==
    ASSUME TypeOK
    PROVE  /\ Quantity({}) = 0
           /\ \A S \in SUBSET (1..Len(reports)) :
                /\ Quantity(S) \in Nat
                /\ Quantity(S) <= Quantity(1..Len(reports))
                /\ \A T \in SUBSET S : Quantity(T) <= Quantity(S)
                /\ \A i \in 1..Len(reports) :
                     i \notin S => Quantity(S \cup {i}) = reports[i].qty + Quantity(S)
<1> DEFINE q == [i \in 1..Len(reports) |-> reports[i].qty]
           All == 1..Len(reports)
<1>1. Len(reports) \in Nat /\ \A i \in All : reports[i].qty \in Nat
  BY ReportType
<1>2. \A S : Quantity(S) = SumFunctionOnSet(q, S)
  BY DEF Quantity
<1>3. \A i \in All : q[i] = reports[i].qty
  OBVIOUS
<1>4. \A S \in SUBSET All : IsFiniteSet(S) /\ Amounts(q, S) /\ Numbers(q, S)
  <2>1. IsFiniteSet(All)
    BY <1>1, FS_Interval
  <2>2. \A i \in All : q[i] \in Nat /\ q[i] \in Int
    BY <1>1, <1>3
  <2> HIDE DEF q
  <2> QED BY <2>1, <2>2, FS_Subset DEF Amounts, Numbers
<1> HIDE DEF q
<1>5. Quantity({}) = 0
  BY <1>2, SumEmpty
<1>6. ASSUME NEW S \in SUBSET All
      PROVE  /\ Quantity(S) \in Nat
             /\ Quantity(S) <= Quantity(All)
             /\ \A T \in SUBSET S : Quantity(T) <= Quantity(S)
  BY <1>2, <1>4, SumNat, SumMonotone
<1>7. ASSUME NEW S \in SUBSET All, NEW i \in All, i \notin S
      PROVE  Quantity(S \cup {i}) = reports[i].qty + Quantity(S)
  <2>1. S \cup {i} \in SUBSET All
    BY <1>7
  <2>2. IsFiniteSet(S) /\ Numbers(q, S \cup {i})
    BY <1>4, <2>1
  <2>3. SumFunctionOnSet(q, S \cup {i}) = q[i] + SumFunctionOnSet(q, S)
    BY <1>7, <2>2, SumAdd
  <2> QED BY <1>2, <1>3, <2>3
<1> QED BY <1>5, <1>6, <1>7

\* A new report adds its quantity, and leaves the sums over the others.
LEMMA QuantityAppended ==
    ASSUME TypeOK, NEW r \in Reports, reports' = Append(reports, r)
    PROVE  /\ \A S \in SUBSET (1..Len(reports)) : Quantity(S)' = Quantity(S)
           /\ Quantity(1..Len(reports))' = Quantity(1..Len(reports)) + r.qty
<1> DEFINE q == [i \in 1..Len(reports) |-> reports[i].qty]
           p == [i \in 1..Len(reports') |-> reports'[i].qty]
           n == Len(reports)
<1>1. /\ n \in Nat /\ r.qty \in Nat /\ \A i \in 1..n : reports[i].qty \in Nat
      /\ Len(reports') = n + 1 /\ reports'[n + 1] = r
      /\ \A i \in 1..n : reports'[i] = reports[i]
  <2>1. reports \in Seq(Reports)
    BY DEF TypeOK
  <2> QED BY <2>1, ReportType
<1>2. \A S : Quantity(S) = SumFunctionOnSet(q, S) /\ Quantity(S)' = SumFunctionOnSet(p, S)
  BY DEF Quantity
<1>3. /\ \A i \in 1..n : q[i] = reports[i].qty /\ p[i] = q[i]
      /\ p[n + 1] = r.qty
  BY <1>1
<1>4. \A S \in SUBSET (1..n) : IsFiniteSet(S) /\ Amounts(q, S) /\ Numbers(q, S)
  <2>1. IsFiniteSet(1..n)
    BY <1>1, FS_Interval
  <2>2. \A i \in 1..n : q[i] \in Nat /\ q[i] \in Int
    BY <1>1, <1>3
  <2> HIDE DEF q
  <2> QED BY <2>1, <2>2, FS_Subset DEF Amounts, Numbers
<1> HIDE DEF p, q
<1>5. ASSUME NEW S \in SUBSET (1..n) PROVE Quantity(S)' = Quantity(S)
  BY <1>2, <1>3, <1>4, SumAgrees
<1>6. Quantity(1..Len(reports))' = Quantity(1..n) + r.qty
  <2>1. /\ 1..(n + 1) = (1..n) \cup {n + 1} /\ n + 1 \notin 1..n
        /\ 1..n \in SUBSET (1..n)
    BY <1>1
  <2>2. IsFiniteSet(1..n) /\ Numbers(p, (1..n) \cup {n + 1})
    BY <1>1, <1>3, <1>4, <2>1 DEF Numbers
  <2>3. SumFunctionOnSet(p, (1..n) \cup {n + 1}) = p[n + 1] + SumFunctionOnSet(p, 1..n)
    BY <2>1, <2>2, SumAdd
  <2>4. Quantity(1..Len(reports))' = SumFunctionOnSet(p, 1..(n + 1))
    BY <1>1, <1>2
  <2>5. SumFunctionOnSet(p, 1..n) = Quantity(1..n)
    <3>1. SumFunctionOnSet(p, 1..n) = SumFunctionOnSet(q, 1..n)
      BY <1>3, <1>4, <2>1, SumAgrees
    <3> QED BY <1>2, <3>1
  <2>6. Quantity(1..n) \in Nat
    BY <2>1, QuantityFacts
  <2>7. Quantity(1..Len(reports))' = r.qty + Quantity(1..n)
    BY <1>3, <2>1, <2>3, <2>4, <2>5
  <2> QED BY <1>1, <2>6, <2>7
<1> QED BY <1>5, <1>6

\* What was delivered and what came too late are quantities.
LEMMA LedgerNat ==
    ASSUME TypeOK
    PROVE  Quantity(Late) \in Nat /\ Quantity(seen \ {Rec}) \in Nat
<1>1. seen \ {Rec} \in SUBSET (1..Len(reports)) /\ Late \in SUBSET (1..Len(reports))
  BY DEF TypeOK, Late
<1> QED BY <1>1, QuantityFacts

\* An accounted ledger is within what was executed.
LEMMA LedgerBounded ==
    ASSUME TypeOK, ReportsAddUp, FillsAccounted
    PROVE  NeverOverfilled
<1>1. seen \ {Rec} \in SUBSET (1..Len(reports)) /\ Late \in SUBSET (1..Len(reports))
  BY DEF TypeOK, Late
<1>2. /\ Quantity(Late) \in Nat /\ Quantity(seen \ {Rec}) \in Nat
      /\ Quantity(seen \ {Rec}) <= executed /\ executed \in Nat
  BY <1>1, QuantityFacts DEF ReportsAddUp, TypeOK
<1>3. filled + Quantity(Late) = Quantity(seen \ {Rec}) /\ filled \in Nat
  BY DEF FillsAccounted, Late, TypeOK
<1> QED BY <1>2, <1>3 DEF NeverOverfilled

\* Applying a report counts its quantity, or adds it to what came too late, or
\* it was there before.
LEMMA ApplyCounts ==
    ASSUME TypeOK, ReportsAddUp, NEW i \in 1..Len(reports), Apply(i),
           reports' = reports, executed' = executed
    PROVE  /\ ReportsAddUp'
           /\ \E d \in Nat : /\ filled' = filled + d
                             /\ Quantity(Late)' + Quantity(seen \ {Rec}) + d
                                    = Quantity(Late) + Quantity(seen \ {Rec})'
<1> DEFINE r == reports[i]
           e == Canonical[r.kind]
<1>0. /\ i \in 1..MaxReports /\ i # Rec /\ i \in Nat /\ filled \in Nat
      /\ r.qty \in Nat /\ r.kind \in DOMAIN Canonical
  BY CoordinatorAssumption, ReportType DEF TypeOK, Rec
<1>1. \A S : Quantity(S)' = Quantity(S)
  BY DEF Quantity
<1>2. seen \ {Rec} \in SUBSET (1..Len(reports)) /\ Late \in SUBSET (1..Len(reports))
  BY DEF TypeOK, Late
<1>3. Quantity(seen \ {Rec}) \in Nat /\ Quantity(Late) \in Nat
  BY <1>2, QuantityFacts
<1>4. CASE i \in seen
  <2>1. filled' = filled /\ seen' = seen /\ Incident("DUPLICATE_EVENT", i)
    BY <1>4 DEF Apply
  <2>2. \A k : <<"LATE_EVENT", k>> \in incidents' <=> <<"LATE_EVENT", k>> \in incidents
    BY <2>1 DEF Incident
  <2>3. Late' = Late
    BY <2>1, <2>2 DEF Late
  <2>4. ReportsAddUp'
    BY <1>1, <2>1, <2>2 DEF ReportsAddUp
  <2>5. /\ Quantity(Late)' = Quantity(Late)
        /\ Quantity(seen \ {Rec})' = Quantity(seen \ {Rec})
    BY <2>1, <2>3 DEF Quantity
  <2>6. filled' = filled + 0 /\ 0 \in Nat
    BY <1>0, <2>1
  <2> QED BY <1>3, <2>4, <2>5, <2>6
<1>5. CASE i \notin seen
  <2>1. seen' = seen \cup {i} /\ (Applied(e, r.qty) \/ Rejected(e, i))
    BY <1>5 DEF Apply
  <2>2. seen' \ {Rec} = (seen \ {Rec}) \cup {i} /\ i \notin seen \ {Rec}
    BY <1>0, <1>5, <2>1
  <2>3. Quantity(seen \ {Rec})' = r.qty + Quantity(seen \ {Rec})
    <3>1. Quantity((seen \ {Rec}) \cup {i}) = r.qty + Quantity(seen \ {Rec})
      BY <1>2, <2>2, QuantityFacts
    <3> QED BY <2>2, <3>1 DEF Quantity
  <2>4. <<"LATE_EVENT", i>> \notin incidents /\ i \notin Late
    BY <1>0, <1>5 DEF ReportsAddUp, Late
  <2>5. CASE Applied(e, r.qty)
    <3>1. incidents' = incidents
      BY <2>5 DEF Applied
    <3>2. Late' = Late
      BY <2>1, <2>4, <3>1 DEF Late
    <3>3. Quantity(Late)' = Quantity(Late)
      BY <3>2 DEF Quantity
    <3>4. ReportsAddUp'
      BY <1>1, <2>1, <3>1 DEF ReportsAddUp
    <3>5. filled' = filled + r.qty
      <4>1. CASE r.kind \in Fills
        <5>1. e \in {"PARTIAL_FILL", "FILL"}
          BY <4>1 DEF Fills, Canonical
        <5> QED BY <2>5, <5>1 DEF Applied
      <4>2. CASE r.kind \notin Fills
        <5>1. e \notin {"PARTIAL_FILL", "FILL"}
          BY <1>0, <4>2 DEF Fills, Canonical
        <5>2. r.qty = 0
          BY <4>2 DEF ReportsAddUp
        <5> QED BY <1>0, <2>5, <5>1, <5>2 DEF Applied
      <4> QED BY <4>1, <4>2
    <3>6. Quantity(Late)' + Quantity(seen \ {Rec}) + r.qty
            = Quantity(Late) + Quantity(seen \ {Rec})'
      BY <1>0, <1>3, <2>3, <3>3
    <3> QED BY <1>0, <3>4, <3>5, <3>6
  <2>6. CASE Rejected(e, i)
    <3>1. incidents' = incidents \cup {<<"LATE_EVENT", i>>} /\ filled' = filled
      BY <2>6 DEF Rejected, Incident
    <3>2. Late' = Late \cup {i}
      BY <1>0, <2>1, <2>4, <3>1 DEF Late
    <3>3. Quantity(Late)' = r.qty + Quantity(Late)
      <4>1. Quantity(Late \cup {i}) = r.qty + Quantity(Late)
        BY <1>2, <2>4, QuantityFacts
      <4> QED BY <3>2, <4>1 DEF Quantity
    <3>4. ReportsAddUp'
      BY <1>1, <2>1, <3>1 DEF ReportsAddUp
    <3>5. filled' = filled + 0 /\ 0 \in Nat
      BY <1>0, <3>1
    <3>6. Quantity(Late)' + Quantity(seen \ {Rec}) + 0
            = Quantity(Late) + Quantity(seen \ {Rec})'
      BY <1>0, <1>3, <2>3, <3>3
    <3> QED BY <3>4, <3>5, <3>6
  <2> QED BY <2>1, <2>5, <2>6
<1> QED BY <1>4, <1>5

\* A call that neither applies a report nor finds one late changes no sum.
LEMMA QuietCall ==
    ASSUME TypeOK, ReportsAddUp, reports' = reports, executed' = executed,
           seen \subseteq seen', seen' \ {Rec} = seen \ {Rec},
           \A i \in 1..MaxReports :
               <<"LATE_EVENT", i>> \in incidents' <=> <<"LATE_EVENT", i>> \in incidents
    PROVE  /\ ReportsAddUp'
           /\ Quantity(Late)' = Quantity(Late)
           /\ Quantity(seen \ {Rec})' = Quantity(seen \ {Rec})
<1>1. Late' = Late
  <2>1. \A i \in seen \ {Rec} : i \in 1..MaxReports
    BY CoordinatorAssumption, ReportType DEF TypeOK
  <2> QED BY <2>1 DEF Late
<1>2. Quantity(1..Len(reports))' = Quantity(1..Len(reports))
  BY DEF Quantity
<1> QED BY <1>1, <1>2 DEF Quantity, ReportsAddUp

\* A change at the venue adds to what is executed what its report says.
LEMMA ReportCounts ==
    ASSUME TypeOK, ReportsAddUp, NEW status, NEW kind \in DOMAIN Canonical, NEW q \in 0..Qty,
           kind \notin Fills => q = 0, Report(status, kind, q)
    PROVE  /\ ReportsAddUp'
           /\ Quantity(Late)' = Quantity(Late)
           /\ Quantity(seen \ {Rec})' = Quantity(seen \ {Rec})
           /\ executed' = executed + q /\ UNCHANGED <<filled, seen, incidents>>
<1> DEFINE r == [kind |-> kind, qty |-> q, asked |-> asked]
<1>1. /\ executed' = executed + q /\ reports' = Append(reports, r)
      /\ filled' = filled /\ seen' = seen /\ incidents' = incidents
  BY DEF Report, coordinator
<1>2. r \in Reports /\ r.qty = q /\ r.kind = kind
  BY DEF TypeOK, Reports
<1> HIDE DEF r
<1>3. /\ seen \ {Rec} \in SUBSET (1..Len(reports)) /\ Late \in SUBSET (1..Len(reports))
      /\ Late' = Late
  BY <1>1 DEF TypeOK, Late
<1>4. /\ \A S \in SUBSET (1..Len(reports)) : Quantity(S)' = Quantity(S)
      /\ Quantity(1..Len(reports))' = Quantity(1..Len(reports)) + q
  BY <1>1, <1>2, QuantityAppended
<1>5. ReportsAddUp'
  <2>1. executed' = Quantity(1..Len(reports))'
    BY <1>1, <1>4 DEF ReportsAddUp
  <2>2. ASSUME NEW i \in 1..Len(reports'), reports'[i].kind \notin Fills
        PROVE  reports'[i].qty = 0
    <3>1. reports \in Seq(Reports)
      BY DEF TypeOK
    <3>2. CASE i = Len(reports) + 1
      <4>1. reports'[i] = r
        BY <1>1, <3>1, <3>2
      <4> QED BY <1>2, <2>2, <4>1
    <3>3. CASE i \in 1..Len(reports)
      <4>1. reports'[i] = reports[i]
        BY <1>1, <1>2, <3>1, <3>3
      <4> QED BY <2>2, <3>3, <4>1 DEF ReportsAddUp
    <3> QED BY <1>1, <1>2, <3>1, <3>2, <3>3
  <2>3. \A i \in 1..MaxReports : <<"LATE_EVENT", i>> \in incidents' => i \in seen'
    BY <1>1 DEF ReportsAddUp
  <2> QED BY <2>1, <2>2, <2>3 DEF ReportsAddUp
<1>6. Quantity(Late)' = Quantity(Late)
  <2>1. \A S \in SUBSET (1..Len(reports)) : Quantity(S)' = Quantity(S)
    BY <1>4
  <2> QED BY <1>3, <2>1 DEF Quantity
<1>7. Quantity(seen \ {Rec})' = Quantity(seen \ {Rec})
  BY <1>1, <1>3, <1>4 DEF Quantity
<1> QED BY <1>1, <1>5, <1>6, <1>7

\* The venue's changes as reports.
LEMMA VenueReports ==
    ASSUME TypeOK,
           \/ VenueAck \/ VenueReject \/ VenueExpire \/ VenueCancel \/ VenueCancelReject
           \/ \E q \in 1..Qty : VenueFill(q)
    PROVE  \E status : \E kind \in DOMAIN Canonical, q \in 0..Qty :
               Report(status, kind, q) /\ (kind \notin Fills => q = 0)
<1>1. 0 \in 0..Qty /\ 1..Qty \subseteq 0..Qty
  BY CoordinatorAssumption
<1>2. CASE \E q \in 1..Qty : VenueFill(q)
  <2>1. PICK q \in 1..Qty : VenueFill(q)
    BY <1>2
  <2>2. \/ Report("PARTIALLY_FILLED", "PARTIAL_FILL", q)
        \/ Report("FILLED", "FILLED", q)
    BY <2>1 DEF VenueFill
  <2>3. /\ "PARTIAL_FILL" \in DOMAIN Canonical /\ "FILLED" \in DOMAIN Canonical
        /\ "PARTIAL_FILL" \in Fills /\ "FILLED" \in Fills /\ q \in 0..Qty
    BY <1>1 DEF Canonical, Fills
  <2>4. \E status : \E kind \in DOMAIN Canonical : Report(status, kind, q) /\ kind \in Fills
    BY <2>2, <2>3
  <2> QED BY <2>3, <2>4
<1>3. CASE VenueAck \/ VenueReject \/ VenueExpire \/ VenueCancel \/ VenueCancelReject
  <2>1. \/ Report("ACKNOWLEDGED", "ACK", 0) \/ Report("REJECTED", "REJECT", 0)
        \/ Report("EXPIRED", "EXPIRED", 0) \/ Report("CANCELLED", "ORDER_CANCELLED", 0)
        \/ Report(venue, "CANCEL_REJECTED", 0)
    BY <1>3 DEF VenueAck, VenueReject, VenueExpire, VenueCancel, VenueCancelReject
  <2>2. {"ACK", "REJECT", "EXPIRED", "ORDER_CANCELLED", "CANCEL_REJECTED"} \subseteq DOMAIN Canonical
    BY DEF Canonical
  <2>3. \E status : \E kind \in DOMAIN Canonical : Report(status, kind, 0)
    BY <2>1, <2>2
  <2> QED BY <1>1, <2>3
<1> QED BY <1>2, <1>3

\* An event of the process itself is no fill and is about no report.
LEMMA LocalCounts ==
    ASSUME TypeOK, ReportsAddUp, NEW e \in {"CANCEL_REQUEST", "CONNECTION_LOST"},
           Applied(e, 0) \/ Rejected(e, Local), seen' = seen,
           reports' = reports, executed' = executed
    PROVE  /\ ReportsAddUp' /\ filled' = filled
           /\ Quantity(Late)' = Quantity(Late)
           /\ Quantity(seen \ {Rec})' = Quantity(seen \ {Rec})
<1>1. filled' = filled
  BY DEF Applied, Rejected
<1>2. \A i \in 1..MaxReports : i # Local
  BY CoordinatorAssumption DEF Local
<1>3. \A i \in 1..MaxReports :
        <<"LATE_EVENT", i>> \in incidents' <=> <<"LATE_EVENT", i>> \in incidents
  BY <1>2 DEF Applied, Rejected, Incident
<1> QED BY <1>1, <1>3, QuietCall

\* Reconciling counts nothing and is about no report.
LEMMA ReconcileCounts ==
    ASSUME TypeOK, ReportsAddUp, (\E token \in Tokens : Reconcile(token)) \/ ReconcileAgain
    PROVE  /\ ReportsAddUp' /\ filled' = filled
           /\ Quantity(Late)' = Quantity(Late)
           /\ Quantity(seen \ {Rec})' = Quantity(seen \ {Rec})
<1>1. CASE ReconcileAgain
  <2>1. /\ filled' = filled /\ seen' = seen /\ reports' = reports /\ executed' = executed
        /\ incidents' = incidents \cup {<<"DUPLICATE_EVENT", Rec>>}
    BY <1>1 DEF ReconcileAgain, Incident, broker
  <2>2. \A i : <<"LATE_EVENT", i>> \in incidents' <=> <<"LATE_EVENT", i>> \in incidents
    BY <2>1
  <2> QED BY <2>1, <2>2, QuietCall
<1>2. CASE \E token \in Tokens : Reconcile(token)
  <2>1. PICK token \in Tokens : Reconcile(token)
    BY <1>2
  <2>2. /\ filled' = filled /\ seen' = seen \cup {Rec}
        /\ reports' = reports /\ executed' = executed
    BY <2>1 DEF Reconcile, broker
  <2>3. \/ incidents' = incidents
        \/ incidents' = incidents \cup {<<"RECONCILIATION_CONFLICT", Rec>>}
        \/ incidents' = incidents \cup {<<"UNKNOWN_RECONCILIATION", Rec>>}
    BY <2>1 DEF Reconcile, ReconcileTerminal, ReconcileUnknown, ReconcileCancel,
                ReconcileRefused, Incident
  <2>4. \A i : <<"LATE_EVENT", i>> \in incidents' <=> <<"LATE_EVENT", i>> \in incidents
    BY <2>3
  <2> QED BY <2>2, <2>4, QuietCall
<1> QED BY <1>1, <1>2

\* Of a new order nothing is executed and nothing counted.
LEMMA LedgerInit == Init => LedgerInv
<1> SUFFICES ASSUME Init PROVE LedgerInv
  OBVIOUS
<1>1. IInv /\ TypeOK
  BY IInvInit DEF IInv
<1>2. /\ filled = 0 /\ executed = 0 /\ seen = {} /\ incidents = {}
      /\ Len(reports) = 0 /\ 1..Len(reports) = {}
  BY DEF Init
<1>3. Quantity({}) = 0
  BY <1>1, QuantityFacts
<1>4. ReportsAddUp
  BY <1>2, <1>3 DEF ReportsAddUp
<1>5. seen \ {Rec} = {} /\ Late = {}
  BY <1>2 DEF Late
<1>6. FillsAccounted
  <2>1. filled + Quantity(Late) = Quantity(seen \ {Rec})
    BY <1>2, <1>3, <1>5
  <2> QED BY <2>1 DEF FillsAccounted, Late
<1> QED BY <1>1, <1>4, <1>6, LedgerBounded DEF LedgerInv

\* A delivery that adds d to the ledger, or to what is known to be late, keeps the
\* two in balance with what was delivered.
LEMMA Balance ==
    ASSUME NEW counted \in Nat, NEW late \in Nat, NEW given \in Nat, NEW d \in Nat,
           NEW late1 \in Nat, NEW given1 \in Nat,
           counted + late = given, late1 + given + d = late + given1
    PROVE  (counted + d) + late1 = given1
OBVIOUS

\* Every step keeps the ledger and what is known to be late in balance.
LEMMA LedgerNext == LedgerInv /\ [Next]_vars => LedgerInv'
<1> SUFFICES ASSUME LedgerInv, [Next]_vars PROVE LedgerInv'
  OBVIOUS
<1>0. /\ TypeOK /\ ReportsAddUp /\ filled \in Nat
      /\ Quantity(Late) \in Nat /\ Quantity(seen \ {Rec}) \in Nat
      /\ filled + Quantity(Late) = Quantity(seen \ {Rec})
  <2>1. TypeOK /\ ReportsAddUp /\ filled \in Nat
    BY DEF LedgerInv, IInv, TypeOK
  <2>3. Quantity(Late) \in Nat /\ Quantity(seen \ {Rec}) \in Nat
    BY <2>1, LedgerNat
  <2>4. filled + Quantity(Late) = Quantity(seen \ {Rec})
    BY DEF LedgerInv, FillsAccounted, Late
  <2> QED BY <2>1, <2>3, <2>4
<1>1. IInv' /\ TypeOK'
  BY IInvNext DEF LedgerInv, IInv
<1> SUFFICES ReportsAddUp' /\ filled' + Quantity(Late)' = Quantity(seen \ {Rec})'
  <2>1. ASSUME filled' + Quantity(Late)' = Quantity(seen \ {Rec})' PROVE FillsAccounted'
    BY <2>1 DEF FillsAccounted, Late
  <2>2. ASSUME ReportsAddUp', FillsAccounted' PROVE NeverOverfilled'
    BY <1>1, <2>2, LedgerBounded, PTL
  <2> QED BY <1>1, <2>1, <2>2 DEF LedgerInv
<1>2. CASE \/ VenueAck \/ VenueReject \/ VenueExpire \/ VenueCancel \/ VenueCancelReject
           \/ \E q \in 1..Qty : VenueFill(q)
  <2>1. PICK status : \E kind \in DOMAIN Canonical, q \in 0..Qty :
             Report(status, kind, q) /\ (kind \notin Fills => q = 0)
    BY <1>0, <1>2, VenueReports
  <2> QED BY <1>0, <2>1, ReportCounts
<1>3. CASE \E i \in 1..MaxReports : Deliver(i)
  <2>1. PICK i \in 1..Len(reports) : Apply(i) /\ reports' = reports /\ executed' = executed
    BY <1>3 DEF Deliver, broker
  <2>2. /\ ReportsAddUp'
        /\ \E d \in Nat : /\ filled' = filled + d
                          /\ Quantity(Late)' + Quantity(seen \ {Rec}) + d
                                 = Quantity(Late) + Quantity(seen \ {Rec})'
    BY <1>0, <2>1, ApplyCounts
  <2>3. PICK d \in Nat : /\ filled' = filled + d
                         /\ Quantity(Late)' + Quantity(seen \ {Rec}) + d
                                = Quantity(Late) + Quantity(seen \ {Rec})'
    BY <2>2
  <2>4. (Quantity(Late) \in Nat /\ Quantity(seen \ {Rec}) \in Nat)'
    BY <1>1, LedgerNat, PTL
  <2>5. (filled + d) + Quantity(Late)' = Quantity(seen \ {Rec})'
    BY <1>0, <2>3, <2>4, Balance
  <2>6. filled' + Quantity(Late)' = Quantity(seen \ {Rec})'
    BY <2>3, <2>5
  <2> QED BY <2>2, <2>6
<1>4. CASE RequestCancel \/ ConnectionLost
  <2>1. \E e \in {"CANCEL_REQUEST", "CONNECTION_LOST"} : Applied(e, 0) \/ Rejected(e, Local)
    BY <1>4 DEF RequestCancel, ConnectionLost
  <2>2. seen' = seen /\ reports' = reports /\ executed' = executed
    BY <1>4 DEF RequestCancel, ConnectionLost, broker
  <2> QED BY <1>0, <2>1, <2>2, LocalCounts
<1>5. CASE (\E token \in Tokens : Reconcile(token)) \/ ReconcileAgain
  BY <1>0, <1>5, ReconcileCounts
<1>6. CASE UNCHANGED vars
  <2>1. /\ seen' = seen /\ incidents' = incidents /\ filled' = filled
        /\ reports' = reports /\ executed' = executed
    BY <1>6 DEF vars, coordinator, broker
  <2> QED BY <1>0, <2>1, QuietCall
<1> QED BY <1>2, <1>3, <1>4, <1>5, <1>6 DEF Next

\* The ledger's invariant holds in every state of every behaviour.
THEOREM LedgerInvariance == Spec => []LedgerInv
<1>1. Init => LedgerInv
  BY LedgerInit
<1>2. LedgerInv /\ [Next]_vars => LedgerInv'
  BY LedgerNext
<1> QED BY <1>1, <1>2, PTL DEF Spec

\* Redelivered, reordered and late reports never make the ledger more than what
\* the venue has executed, for any order size and any number of reports.
THEOREM LedgerWithinExecuted == Spec => []NeverOverfilled
<1>1. LedgerInv => NeverOverfilled
  BY DEF LedgerInv
<1> QED BY <1>1, LedgerInvariance, PTL

\* Every fill that was delivered is in the ledger or has an incident, for any
\* order size and any number of reports.
THEOREM NoFillDisappears == Spec => []FillsAccounted
<1>1. LedgerInv => FillsAccounted
  BY DEF LedgerInv
<1> QED BY <1>1, LedgerInvariance, PTL
-----------------------------------------------------------------------------
(***************************************************************************)
(* The refinement.  Every step of the venue, the channel and the           *)
(* coordinator is a step of OrderContract or changes nothing it speaks of. *)
(***************************************************************************)

ContractStep == [Contract!CNext]_(Contract!cvars)

\* A new order is a new contract.
LEMMA ContractInit == Init => Contract!CInit
BY DEF Init, Contract!CInit, Fate, Claim, Terminal

\* The venue executes a part of the order, ends it, or just says something.
LEMMA ContractVenue ==
    ASSUME TypeOK, NEW status, NEW kind, NEW q \in 0..Qty, Report(status, kind, q),
           venue \notin Terminal,
           \/ status \notin Terminal /\ executed + q < Qty
           \/ status \in Terminal \ {"FILLED"} /\ q = 0
           \/ status = "FILLED" /\ executed + q = Qty
    PROVE  ContractStep
<1> USE CoordinatorAssumption
<1>1. /\ venue' = status /\ executed' = executed + q /\ executed \in Nat /\ Qty \in Nat
      /\ shadow' = shadow /\ filled' = filled /\ misled' = misled
  BY DEF Report, coordinator, TypeOK
<1>2. Claim' = Claim /\ Fate = "working"
  BY <1>1 DEF Claim, Fate
<1>3. CASE status \notin Terminal /\ executed + q < Qty
  <2>1. Fate' = "working" /\ executed' # Qty /\ executed + q <= Qty
    BY <1>1, <1>3 DEF Fate
  <2>2. Contract!Execute(q)
    BY <1>1, <1>2, <2>1 DEF Contract!Execute
  <2> QED BY <2>2 DEF ContractStep, Contract!CNext
<1>4. CASE status \in Terminal \ {"FILLED"} /\ q = 0
  <2>1. Fate' = status /\ executed' = executed
    BY <1>1, <1>4 DEF Fate
  <2>2. Contract!End(status)
    BY <1>1, <1>2, <1>4, <2>1 DEF Contract!End
  <2> QED BY <1>4, <2>2 DEF ContractStep, Contract!CNext
<1>5. CASE status = "FILLED" /\ executed + q = Qty
  <2>1. Fate' = "FILLED" /\ executed' = Qty /\ executed + q <= Qty
    BY <1>1, <1>5 DEF Fate, Terminal
  <2>2. Contract!Execute(q)
    BY <1>1, <1>2, <2>1 DEF Contract!Execute
  <2> QED BY <2>2 DEF ContractStep, Contract!CNext
<1> QED BY <1>3, <1>4, <1>5

\* A call of the coordinator on an open order counts what was executed, and
\* concludes only what is so.
LEMMA ContractCall ==
    ASSUME TypeOK, TypeOK', NeverOverfilled', shadow \notin Terminal,
           venue' = venue, executed' = executed, misled' = misled,
           NEW d \in Nat, filled' = filled + d,
           shadow' \in Terminal => shadow' = venue
    PROVE  ContractStep
<1>1. /\ d \in 0..Qty /\ filled + d <= executed
  BY CoordinatorAssumption DEF TypeOK, NeverOverfilled
<1>2. Fate' = Fate /\ Claim = "open"
  BY DEF Fate, Claim
<1>3. CASE shadow' \notin Terminal
  <2>1. Contract!Count(d)
    BY <1>1, <1>2, <1>3 DEF Contract!Count, Claim
  <2> QED BY <1>1, <2>1 DEF ContractStep, Contract!CNext
<1>4. CASE shadow' \in Terminal
  <2>1. Fate \in Terminal /\ Claim' = Fate
    BY <1>4 DEF Fate, Claim
  <2>2. Contract!Conclude(d)
    BY <1>1, <1>2, <2>1 DEF Contract!Conclude
  <2> QED BY <1>1, <2>2 DEF ContractStep, Contract!CNext
<1> QED BY <1>3, <1>4

\* A step that moves neither the venue, nor what is claimed, nor what is counted.
LEMMA ContractQuiet ==
    ASSUME venue' = venue, executed' = executed, misled' = misled,
           shadow' = shadow, filled' = filled
    PROVE  ContractStep
BY DEF ContractStep, Contract!cvars, Fate, Claim

\* False evidence may move an open order, and marks a closed one at most.
LEMMA ContractReconcile ==
    ASSUME TypeOK, TypeOK', NeverOverfilled', NEW token \in Tokens, Reconcile(token)
    PROVE  ContractStep
<1>1. /\ filled' = filled /\ venue' = venue /\ executed' = executed
      /\ misled' = (misled \/ (token \in Terminal /\ token # venue))
      /\ misled \in BOOLEAN /\ filled \in Nat
  BY DEF Reconcile, broker, TypeOK
<1>2. \/ shadow' = shadow
      \/ shadow = "UNKNOWN" /\ shadow' = token
      \/ shadow = "CANCEL_REQUESTED" /\ shadow' = "UNKNOWN"
  BY DEF Reconcile, ReconcileTerminal, ReconcileUnknown, ReconcileCancel, ReconcileRefused
<1>3. Fate' = Fate
  BY <1>1 DEF Fate
<1>4. CASE token \in Terminal /\ token # venue
  <2>1. misled' = TRUE /\ token # Fate
    BY <1>1, <1>4 DEF Fate, Terminal
  <2>2. Claim' = Claim \/ (Claim = "open" /\ Claim' = token)
    BY <1>2, <1>4 DEF Claim, Terminal
  <2>3. Contract!Mislead(token)
    BY <1>1, <1>3, <2>1, <2>2 DEF Contract!Mislead
  <2> QED BY <1>4, <2>3 DEF ContractStep, Contract!CNext
<1>5. CASE ~(token \in Terminal /\ token # venue)
  <2>1. misled' = misled
    BY <1>1, <1>5
  <2>2. CASE shadow' = shadow
    BY <1>1, <2>1, <2>2, ContractQuiet
  <2>3. CASE shadow' # shadow
    <3>1. shadow \notin Terminal /\ (shadow' \in Terminal => shadow' = venue)
      BY <1>2, <1>5, <2>3 DEF Terminal
    <3>2. filled' = filled + 0 /\ 0 \in Nat
      BY <1>1
    <3> QED BY <1>1, <2>1, <3>1, <3>2, ContractCall
  <2> QED BY <2>2, <2>3
<1> QED BY <1>4, <1>5

\* An event of the process itself counts nothing and concludes nothing.
LEMMA ContractLocal ==
    ASSUME TypeOK, TypeOK', NeverOverfilled', shadow \notin Terminal,
           NEW e \in {"CANCEL_REQUEST", "CONNECTION_LOST"},
           Applied(e, 0) \/ Rejected(e, Local),
           venue' = venue, executed' = executed, misled' = misled
    PROVE  ContractStep
<1>1. filled' = filled + 0 /\ 0 \in Nat
  BY DEF Applied, Rejected, TypeOK
<1>2. shadow' \notin Terminal
  BY Rows DEF Applied, Rejected
<1> QED BY <1>1, <1>2, ContractCall

\* A report counts its quantity, and what it concludes is the venue's outcome.
LEMMA ContractDeliver ==
    ASSUME LedgerInv, TypeOK', NeverOverfilled', shadow \notin Terminal,
           NEW i \in 1..MaxReports, Deliver(i)
    PROVE  ContractStep
<1> DEFINE r == reports[i]
           e == Canonical[r.kind]
<1>1. /\ i \in 1..Len(reports) /\ Apply(i) /\ TypeOK /\ ReportsAreTrue
      /\ venue' = venue /\ executed' = executed /\ misled' = misled
  BY DEF Deliver, broker, LedgerInv, IInv
<1>2. r.kind \in DOMAIN Canonical /\ r.qty \in Nat /\ filled \in Nat
  BY <1>1, ReportType DEF TypeOK
<1>3. (shadow' = shadow /\ filled' = filled) \/ Applied(e, r.qty)
  BY <1>1 DEF Apply, Rejected
<1>4. CASE shadow' = shadow /\ filled' = filled
  BY <1>1, <1>4, ContractQuiet
<1>5. CASE Applied(e, r.qty)
  <2>1. \E d \in Nat : filled' = filled + d
    <3>1. filled' = filled + r.qty \/ filled' = filled + 0
      BY <1>2, <1>5 DEF Applied
    <3> QED BY <1>2, <3>1
  <2>2. ASSUME shadow' \in Terminal PROVE shadow' = venue
    <3>1. <<shadow, e, shadow'>> \in Table
      BY <1>5 DEF Applied
    <3>2. r.kind \in DOMAIN Outcome /\ Outcome[r.kind] = shadow'
      BY <1>2, <2>2, <3>1, Ends
    <3> QED BY <1>1, <3>2 DEF ReportsAreTrue
  <2> QED BY <1>1, <2>1, <2>2, ContractCall
<1> QED BY <1>3, <1>4, <1>5

\* Every step of the system is a step of the contract.
LEMMA ContractNext == LedgerInv /\ LedgerInv' /\ [Next]_vars => ContractStep
<1> SUFFICES ASSUME LedgerInv, LedgerInv', [Next]_vars PROVE ContractStep
  OBVIOUS
<1>0. /\ TypeOK /\ TypeOK' /\ NeverOverfilled'
      /\ executed \in 0..Qty /\ venue \in Working \cup Terminal /\ Qty \in Nat /\ 0 \in 0..Qty
  BY CoordinatorAssumption DEF LedgerInv, IInv, TypeOK
<1>1. CASE VenueAck \/ VenueCancelReject
  <2>1. PICK status \in Working : \E kind : Report(status, kind, 0)
    BY <1>1 DEF VenueAck, VenueCancelReject, Working
  <2>2. venue \notin Terminal
    BY <1>1 DEF VenueAck, VenueCancelReject, Working, Terminal
  <2>3. /\ status \notin Terminal /\ Fate' = Fate /\ Claim' = Claim
        /\ executed' = executed /\ filled' = filled /\ misled' = misled
    BY <1>0, <2>1, <2>2 DEF Report, coordinator, Fate, Claim, Working, Terminal
  <2> QED BY <2>3 DEF ContractStep, Contract!cvars
<1>2. CASE VenueReject \/ VenueExpire \/ VenueCancel
  <2>1. PICK status \in Terminal \ {"FILLED"} : \E kind : Report(status, kind, 0)
    BY <1>2 DEF VenueReject, VenueExpire, VenueCancel, Terminal
  <2>2. venue \notin Terminal
    BY <1>2 DEF VenueReject, VenueExpire, VenueCancel, Terminal
  <2> QED BY <1>0, <2>1, <2>2, ContractVenue
<1>3. CASE \E q \in 1..Qty : VenueFill(q)
  <2>1. PICK q \in 1..Qty : VenueFill(q)
    BY <1>3
  <2>2. q \in 0..Qty /\ venue \notin Terminal
    BY <1>0, <2>1 DEF VenueFill, Terminal
  <2>3. CASE executed + q < Qty
    BY <1>0, <2>1, <2>2, <2>3, ContractVenue DEF VenueFill, Terminal
  <2>4. CASE ~(executed + q < Qty)
    BY <1>0, <2>1, <2>2, <2>4, ContractVenue DEF VenueFill
  <2> QED BY <2>3, <2>4
<1>4. CASE \E token \in Tokens : Reconcile(token)
  BY <1>0, <1>4, ContractReconcile
<1>5. CASE \/ \E i \in 1..MaxReports : Deliver(i)
           \/ RequestCancel \/ ConnectionLost
  <2>1. venue' = venue /\ executed' = executed /\ misled' = misled
    BY <1>5 DEF Deliver, RequestCancel, ConnectionLost, broker
  <2>2. CASE shadow \in Terminal
    BY <2>1, <2>2, AbsorbsNext, ContractQuiet
  <2>3. CASE shadow \notin Terminal
    BY <1>0, <1>5, <2>1, <2>3, ContractDeliver, ContractLocal DEF RequestCancel, ConnectionLost
  <2> QED BY <2>2, <2>3
<1>6. CASE ReconcileAgain \/ UNCHANGED vars
  BY <1>6, ContractQuiet DEF ReconcileAgain, vars, coordinator, broker
<1> QED BY <1>1, <1>2, <1>3, <1>4, <1>5, <1>6 DEF Next

\* The coordinator keeps its contract: it counts within what is executed, claims
\* an outcome once, counts nothing after that, and claims the venue's outcome
\* unless it was given false evidence.
THEOREM ContractKept == Spec => ImplementsContract
  BY LedgerInvariance, ContractInit, ContractNext, PTL
     DEF Spec, ImplementsContract, Contract!CSpec, ContractStep

\* Every report was delivered and none of them came too late.
Undisturbed ==
    /\ 1..Len(reports) \subseteq seen
    /\ \A i \in 1..Len(reports) : <<"LATE_EVENT", i>> \notin incidents

\* OrderingTolerant fails, but never silently: a ledger that has every report and
\* differs from what the venue executed has a LATE_EVENT incident to show for it.
THEOREM LossIsReported == Spec => [](Undisturbed => filled = executed)
<1>1. ASSUME LedgerInv, Undisturbed PROVE filled = executed
  <2>1. TypeOK /\ ReportsAddUp /\ FillsAccounted /\ filled \in Nat
    BY <1>1 DEF LedgerInv, IInv, TypeOK
  <2>2. Rec \notin 1..Len(reports)
    BY <2>1, ReportType DEF Rec
  <2>3. seen \ {Rec} = 1..Len(reports) /\ Late = {}
    BY <1>1, <2>1, <2>2 DEF Undisturbed, Late, TypeOK
  <2>4. Quantity({}) = 0
    BY <2>1, QuantityFacts
  <2>5. filled + Quantity(Late) = Quantity(seen \ {Rec})
    BY <2>1 DEF FillsAccounted, Late
  <2>6. Quantity(1..Len(reports)) = executed
    BY <2>1 DEF ReportsAddUp
  <2>7. Quantity(Late) = 0 /\ Quantity(seen \ {Rec}) = executed
    BY <2>3, <2>4, <2>6
  <2> QED BY <2>1, <2>5, <2>7
<1> QED BY <1>1, LedgerInvariance, PTL
=============================================================================
