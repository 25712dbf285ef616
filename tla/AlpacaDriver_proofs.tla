------------------------ MODULE AlpacaDriver_proofs ------------------------
(***************************************************************************)
(* Theorems about AlpacaDriver for every order size, every number of       *)
(* changes at the venue and every number of rounds.                        *)
(*                                                                         *)
(* The driver's calls keep the coordinator's invariant (IInv of            *)
(* Coordinator_proofs): most of them are steps of Coordinator, and the     *)
(* events the driver makes from a snapshot end the order only as the venue *)
(* has.  What AnswerIsTrue needs besides is that a snapshot never goes out *)
(* of date in what it is used for: the final state it names is the venue's *)
(* for good, and what it has executed is a lower bound.  A rejected order  *)
(* is the one whose quantities InParity does not compare and which is in   *)
(* parity all the same, because nothing of it was executed.                *)
(*                                                                         *)
(* CountInv adds what each source has counted: the stream the reports that *)
(* were delivered in time, the snapshots no more than was executed.        *)
(***************************************************************************)
EXTENDS AlpacaDriver, Coordinator_proofs

\* The snapshot is true of the past, and of the present where it is final.
SnapIsTrue ==
    /\ snap.filled <= executed
    /\ snap.status \in Terminal => venue = snap.status
    /\ pc = "lost" => Conclusive(snap.status)

\* Nothing is executed of an order that is not yet in the market or never was,
\* and then nothing is reported or counted.
NothingFromNothing ==
    /\ venue \in {"NEW", "ACKNOWLEDGED", "REJECTED"} => executed = 0
    /\ executed = 0 => filled = 0
    /\ \A i \in 1..Len(reports) : reports[i].qty <= executed

\* The loop is entered only while there is time, and the answer comes last.
LoopState ==
    /\ pc \in {"stream", "query", "snapshot"} => polls < MaxPolls
    /\ pc # "done" => ~parity
    /\ ~misled

DInv ==
    /\ IInv /\ DriverTypeOK /\ SnapIsTrue /\ NothingFromNothing /\ LoopState
    /\ AnswerIsTrue

\* The events the driver makes of a snapshot, and their outcomes.
LocalKinds == {"ACK", "PARTIAL_FILL", "FILL", "REJECT", "EXPIRY", "CONNECTION_LOST"}

LocalOutcome == [FILL |-> "FILLED", REJECT |-> "REJECTED", EXPIRY |-> "EXPIRED"]

-----------------------------------------------------------------------------
\* An event of the driver keeps the coordinator's invariant if it ends the order
\* only as the venue has, and it never takes from the ledger.
LEMMA LocalEventStep ==
    ASSUME IInv, NEW e \in LocalKinds, NEW q \in Nat, LocalEvent(e, q),
           e \in DOMAIN LocalOutcome => venue = LocalOutcome[e]
    PROVE  /\ IInv' /\ filled' \in {filled, filled + q}
           /\ UNCHANGED <<venue, executed, reports, misled>>
<1> USE CoordinatorAssumption
<1>1. /\ seen' = seen /\ disputed' = disputed /\ requests' = requests /\ misled' = misled
      /\ venue' = venue /\ executed' = executed /\ asked' = asked /\ reports' = reports
      /\ Applied(e, q) \/ Rejected(e, Local)
  BY DEF LocalEvent, Others, broker
<1>2. shadow' \in States /\ filled' \in Nat /\ filled' \in {filled, filled + q}
  BY <1>1, AppliedType DEF Applied, Rejected, IInv, TypeOK
<1>3. incidents' \subseteq IncidentKinds \X Identities
  BY <1>1 DEF Applied, Rejected, Incident, IInv, TypeOK, IncidentKinds, Identities, Local
<1>4. ~misled' /\ shadow' \in Terminal => venue = shadow'
  <2>1. CASE Applied(e, q)
    <3> SUFFICES ASSUME shadow' \in Terminal PROVE venue = shadow'
      OBVIOUS
    <3>1. <<shadow, e, shadow'>> \in Table
      BY <2>1 DEF Applied
    <3>2. /\ e = "REJECT" => shadow' = "REJECTED"
          /\ e = "FILL" => shadow' = "FILLED"
          /\ e = "EXPIRY" => shadow' = "EXPIRED"
          /\ e \in {"REJECT", "FILL", "CANCEL_ACK", "EXPIRY"}
      BY <3>1, Rows
    <3>3. e \in DOMAIN LocalOutcome /\ LocalOutcome[e] = shadow'
      BY <3>2 DEF LocalKinds, LocalOutcome
    <3> QED BY <3>3
  <2>2. CASE Rejected(e, Local)
    BY <1>1, <2>2 DEF Rejected, IInv, TerminalIsTrue
  <2> QED BY <1>1, <2>1, <2>2
<1> QED BY <1>1, <1>2, <1>3, <1>4, CoordinatorStep DEF IInv, TypeOK

\* A step that leaves the coordinator and the venue alone keeps their invariant.
LEMMA QuietStep == ASSUME IInv, UNCHANGED vars PROVE IInv'
BY IInvNext

\* A finished order is not worked any more.
LEMMA VenueWorks ==
    ASSUME Venue
    PROVE  venue \in Working /\ UNCHANGED <<coordinator, driver>>
BY DEF Venue, VenueAck, VenueReject, VenueExpire, VenueCancel, VenueFill, Report, Working

\* The venue's steps are those of Coordinator, and execution only grows.
LEMMA VenueStep ==
    ASSUME DInv, Venue
    PROVE  DInv'
<1> USE CoordinatorAssumption
<1>1. [Next]_vars
  BY DEF Venue, Next
<1>2. IInv'
  BY <1>1, IInvNext DEF DInv
<1>3. /\ venue \in Working /\ shadow' = shadow /\ filled' = filled /\ misled' = misled
      /\ pc' = pc /\ pos' = pos /\ snap' = snap /\ polls' = polls /\ parity' = parity
      /\ counted' = counted
  BY VenueWorks DEF coordinator, driver
<1>4. venue \notin Terminal
  BY <1>3 DEF Working, Terminal
<1>5. \E q \in 0..Qty : \E status, kind :
        /\ Report(status, kind, q)
        /\ status \in {"NEW", "ACKNOWLEDGED", "REJECTED"} => executed = 0 /\ q = 0
  <2>0. executed \in Nat /\ 0 \in 0..Qty /\ Qty \in Nat
    BY DEF DInv, IInv, TypeOK
  <2>1. CASE VenueAck
    BY <2>0, <2>1 DEF VenueAck, DInv, NothingFromNothing
  <2>2. CASE VenueReject
    BY <2>0, <2>2 DEF VenueReject, DInv, NothingFromNothing
  <2>3. CASE VenueExpire
    BY <2>0, <2>3 DEF VenueExpire
  <2>4. CASE VenueCancel
    BY <2>0, <2>4 DEF VenueCancel
  <2>5. CASE \E q \in 1..Qty : VenueFill(q)
    <3>1. PICK q \in 1..Qty : VenueFill(q)
      BY <2>5
    <3>2. Report("PARTIALLY_FILLED", "PARTIAL_FILL", q) \/ Report("FILLED", "FILLED", q)
      BY <3>1 DEF VenueFill
    <3>3. q \in 0..Qty
      BY <2>0
    <3> QED BY <3>2, <3>3
  <2> QED BY <2>1, <2>2, <2>3, <2>4, <2>5 DEF Venue
<1>5a. PICK q \in 0..Qty : \E status, kind :
        /\ Report(status, kind, q)
        /\ status \in {"NEW", "ACKNOWLEDGED", "REJECTED"} => executed = 0 /\ q = 0
  BY <1>5
<1>5b. PICK status, kind :
        /\ Report(status, kind, q)
        /\ status \in {"NEW", "ACKNOWLEDGED", "REJECTED"} => executed = 0 /\ q = 0
  BY <1>5a
<1>6. /\ venue' = status /\ executed' = executed + q
      /\ reports' = Append(reports, [kind |-> kind, qty |-> q, asked |-> asked])
  BY <1>5b DEF Report
<1>7. /\ reports \in Seq(Reports) /\ executed \in Nat /\ q \in Nat /\ executed' \in Nat
      /\ executed' >= executed /\ executed' >= q /\ filled \in Nat
  BY <1>6 DEF DInv, IInv, TypeOK
<1>8. /\ Len(reports') = Len(reports) + 1 /\ Len(reports) \in Nat
      /\ reports'[Len(reports) + 1].qty = q
      /\ \A i \in 1..Len(reports) : reports'[i] = reports[i]
  BY <1>6, <1>7
<1>9. DriverTypeOK'
  BY <1>2, <1>3, <1>8 DEF DInv, DriverTypeOK, IInv
<1>10. SnapIsTrue'
  <2>1. snap.filled \in Nat /\ snap.filled <= executed
    BY <1>7 DEF DInv, DriverTypeOK, SnapIsTrue
  <2> QED BY <1>3, <1>4, <1>6, <1>7, <2>1 DEF DInv, SnapIsTrue, Conclusive
<1>11. NothingFromNothing'
  <2>1. venue' \in {"NEW", "ACKNOWLEDGED", "REJECTED"} => executed' = 0
    BY <1>5b, <1>6
  <2>2. executed' = 0 => filled' = 0
    BY <1>3, <1>6, <1>7 DEF DInv, NothingFromNothing
  <2>3. ASSUME NEW i \in 1..Len(reports') PROVE reports'[i].qty <= executed'
    <3>1. CASE i = Len(reports) + 1
      BY <1>7, <1>8, <3>1
    <3>2. CASE i \in 1..Len(reports)
      <4>1. reports[i] \in Reports
        BY <1>7, <3>2
      <4>2. reports[i].qty \in Nat /\ reports[i].qty <= executed
        BY <3>2, <4>1 DEF Reports, DInv, NothingFromNothing
      <4> QED BY <1>7, <1>8, <3>2, <4>2
    <3> QED BY <1>8, <3>1, <3>2
  <2> QED BY <2>1, <2>2, <2>3 DEF NothingFromNothing
<1>12. LoopState' /\ AnswerIsTrue'
  <2>1. LoopState'
    BY <1>3 DEF DInv, LoopState
  <2>2. pc = "done" => shadow \notin Terminal
    BY <1>4 DEF DInv, AnswerIsTrue
  <2> QED BY <1>3, <2>1, <2>2 DEF DInv, AnswerIsTrue
<1> QED BY <1>2, <1>9, <1>10, <1>11, <1>12 DEF DInv

\* A step of the driver that calls nothing keeps the invariant if it keeps the
\* driver's part of it.
LEMMA ThinkStep ==
    ASSUME DInv, UNCHANGED vars, pc' \in Places, pos' \in 0..Len(reports),
           polls' \in 0..MaxPolls, snap' \in {snap, Order}, parity' \in BOOLEAN,
           counted' = counted,
           pc' = "lost" => Conclusive(snap'.status),
           pc' \in {"stream", "query", "snapshot"} => polls' < MaxPolls,
           pc' # "done" => ~parity',
           pc' = "done" => pc \in {"final", "done"} /\ (parity' => parity \/ InParity)
    PROVE  DInv'
<1>0. /\ shadow' = shadow /\ filled' = filled /\ misled' = misled /\ venue' = venue
      /\ executed' = executed /\ reports' = reports
  BY DEF vars, coordinator, broker
<1>1. IInv'
  BY QuietStep DEF DInv
<1>2. /\ executed \in 0..Qty /\ venue \in Working \cup Terminal /\ filled \in Nat /\ Qty \in Nat
      /\ executed <= executed
  BY CoordinatorAssumption DEF DInv, IInv, TypeOK
<1>3. /\ snap'.filled <= executed /\ snap' \in [status : Working \cup Terminal, filled : 0..Qty]
      /\ snap'.status \in Terminal => venue = snap'.status
  BY <1>2 DEF DInv, SnapIsTrue, DriverTypeOK, Order
<1>4. DriverTypeOK' /\ SnapIsTrue' /\ NothingFromNothing' /\ LoopState'
  BY <1>0, <1>1, <1>3
  DEF DInv, IInv, DriverTypeOK, SnapIsTrue, NothingFromNothing, LoopState
<1>5. AnswerIsTrue'
  <2> SUFFICES ASSUME pc' = "done"
               PROVE  /\ shadow \in Terminal => venue = shadow
                      /\ parity' => /\ shadow \in Terminal
                                    /\ filled = executed \/ shadow = "EXPIRED"
    BY <1>0 DEF AnswerIsTrue
  <2>1. shadow \in Terminal => venue = shadow
    BY DEF DInv, LoopState, IInv, TerminalIsTrue
  <2>2. CASE parity' /\ parity
    BY <2>2 DEF DInv, LoopState, AnswerIsTrue
  <2>3. CASE parity' /\ InParity
    <3>1. shadow \in Terminal /\ venue = shadow
      BY <2>3 DEF InParity
    <3>2. CASE shadow \in {"FILLED", "CANCELLED"}
      BY <2>3, <3>1, <3>2 DEF InParity
    <3>3. CASE shadow = "REJECTED"
      BY <3>1, <3>3 DEF DInv, NothingFromNothing
    <3>4. CASE shadow = "EXPIRED"
      BY <3>1, <3>4
    <3> QED BY <3>1, <3>2, <3>3, <3>4 DEF Terminal
  <2> QED BY <2>1, <2>2, <2>3
<1> QED BY <1>1, <1>4, <1>5 DEF DInv

\* A call of the coordinator keeps the invariant if it keeps the coordinator's
\* part of it, only adds to the ledger, and counts what it adds.
LEMMA CallStep ==
    ASSUME DInv, IInv', NEW q \in Nat, filled' \in {filled, filled + q},
           executed = 0 => q = 0,
           UNCHANGED <<venue, executed, reports, misled, snap, parity>>,
           NEW source \in {"stream", "snapshot"},
           counted' = counted \/ Count(source),
           pc # "done", pc' \in Places \ {"done"},
           pos' \in 0..Len(reports), polls' \in 0..MaxPolls,
           pc' = "lost" => Conclusive(snap.status),
           pc' \in {"stream", "query", "snapshot"} => polls' < MaxPolls
    PROVE  DInv'
<1>1. filled \in Nat /\ filled' - filled \in Nat /\ (executed = 0 => filled' = 0)
  <2>1. filled \in Nat
    BY DEF DInv, IInv, TypeOK
  <2>2. executed = 0 => filled = 0
    BY DEF DInv, NothingFromNothing
  <2>3. CASE filled' = filled
    BY <2>1, <2>2, <2>3
  <2>4. CASE filled' = filled + q
    BY <2>1, <2>2, <2>4
  <2> QED BY <2>3, <2>4
<1>2. counted' \in [stream : Nat, snapshot : Nat]
  <2>1. CASE counted' = counted
    BY <2>1 DEF DInv, DriverTypeOK
  <2>2. CASE Count(source)
    <3>1. counted \in [stream : Nat, snapshot : Nat] /\ counted[source] \in Nat
      BY DEF DInv, DriverTypeOK
    <3>2. counted[source] + (filled' - filled) \in Nat
      BY <1>1, <3>1
    <3> QED BY <2>2, <3>1, <3>2 DEF Count
  <2> QED BY <2>1, <2>2
<1>3. DriverTypeOK'
  BY <1>2 DEF DInv, IInv, DriverTypeOK
<1>4. SnapIsTrue' /\ NothingFromNothing' /\ LoopState' /\ AnswerIsTrue'
  BY <1>1 DEF DInv, SnapIsTrue, NothingFromNothing, LoopState, AnswerIsTrue
<1> QED BY <1>3, <1>4 DEF DInv

\* Every step of the driver keeps the invariant.
LEMMA DriverStep ==
    ASSUME DInv, Driver
    PROVE  DInv'
<1> USE CoordinatorAssumption, AlpacaAssumption
<1>0. /\ reports \in Seq(Reports) /\ Len(reports) \in 0..MaxReports /\ Len(reports) \in Nat
      /\ executed \in 0..Qty /\ filled \in Nat /\ venue \in Working \cup Terminal
      /\ pc \in Places /\ pos \in 0..Len(reports) /\ polls \in 0..MaxPolls /\ parity \in BOOLEAN
      /\ snap.status \in Working \cup Terminal /\ snap.filled \in 0..Qty
      /\ MaxPolls \in Nat /\ Qty \in Nat
  BY DEF DInv, IInv, TypeOK, DriverTypeOK
<1>1. pc # "done" => parity = FALSE
  BY <1>0 DEF DInv, LoopState
<1>2. pc \in {"stream", "query", "snapshot"} => polls < MaxPolls /\ polls + 1 \in 0..MaxPolls
  BY <1>0 DEF DInv, LoopState
<1>3. ASSUME NEW n \in 0..MaxReports, OpenStream(n) PROVE DInv'
  BY <1>0, <1>1, <1>3, ThinkStep DEF OpenStream, Places
<1>4. CASE Submitted \/ SubmitRaises \/ StreamRaises \/ StreamEnds \/ ResolveFails
  BY <1>0, <1>1, <1>2, <1>4, ThinkStep
  DEF Submitted, SubmitRaises, StreamRaises, StreamEnds, ResolveFails, Places
<1>4a. CASE StreamIdle
  BY <1>0, <1>1, <1>2, <1>4a, ThinkStep DEF StreamIdle, driverVars, driver, Places
<1>5. CASE QueryFails \/ SnapshotWorking
  BY <1>0, <1>1, <1>2, <1>5, ThinkStep DEF QueryFails, SnapshotWorking, Continue, Places
<1>6. CASE Resolve
  BY <1>0, <1>1, <1>6, ThinkStep DEF Resolve, Order, Places
<1>7. CASE Verify \/ VerifyFails
  <2>1. InParity \in BOOLEAN
    BY Zenon DEF InParity
  <2>2. /\ UNCHANGED vars /\ pc' = "done" /\ pc = "final" /\ pos' = pos /\ polls' = polls
        /\ snap' = snap /\ counted' = counted /\ parity' \in {parity, InParity}
    BY <1>7 DEF Verify, VerifyFails
  <2>3. parity' \in BOOLEAN /\ (parity' => parity \/ InParity)
    BY <1>0, <2>1, <2>2
  <2> QED BY <1>0, <2>2, <2>3, ThinkStep DEF Places
<1>8. CASE StreamEvent
  <2>1. /\ pos + 1 \in 1..Len(reports) /\ pos + 1 \in 1..MaxReports /\ pc = "stream"
        /\ Apply(pos + 1) /\ Count("stream") /\ Maps(reports[pos + 1])
        /\ pos' = pos + 1 /\ pc' \in {"final", "stream"}
        /\ disputed' = disputed /\ requests' = requests /\ misled' = misled
        /\ broker' = broker /\ snap' = snap /\ polls' = polls /\ parity' = parity
    BY <1>0, <1>8 DEF StreamEvent, Others
  <2>2. Deliver(pos + 1)
    BY <2>1 DEF Deliver, Maps, Normalises
  <2>3. IInv'
    BY <2>1, <2>2, DeliverStep DEF DInv
  <2>4. /\ reports[pos + 1].qty \in Nat
        /\ executed = 0 => reports[pos + 1].qty = 0
    <3>1. reports[pos + 1] \in Reports
      BY <1>0, <2>1
    <3>2. reports[pos + 1].qty <= executed
      BY <2>1 DEF DInv, NothingFromNothing
    <3> QED BY <1>0, <3>1, <3>2 DEF Reports
  <2>5. filled' \in {filled, filled + reports[pos + 1].qty}
    BY <2>1 DEF Apply, Applied, Rejected
  <2>6. venue' = venue /\ executed' = executed /\ reports' = reports
    BY <2>1 DEF broker
  <2>7. pc # "done" /\ pc' \in Places \ {"done"} /\ pc' # "lost" /\ polls' < MaxPolls
    BY <1>2, <2>1 DEF Places
  <2>8. pos' \in 0..Len(reports) /\ polls' \in 0..MaxPolls
    BY <1>0, <2>1
  <2> QED BY <2>1, <2>3, <2>4, <2>5, <2>6, <2>7, <2>8, CallStep
<1>9. CASE Query
  <2>1. CASE UNCHANGED vars
    BY <1>0, <1>1, <1>2, <1>9, <2>1, ThinkStep DEF Query, Order, Places
  <2>2. CASE LocalEvent("ACK", 0)
    <3>1. IInv' /\ filled' = filled /\ UNCHANGED <<venue, executed, reports, misled>>
      BY <1>0, <2>2, LocalEventStep DEF DInv, LocalKinds, LocalOutcome
    <3>2. /\ pc = "query" /\ pc' = "snapshot" /\ snap' = Order /\ pos' = pos /\ polls' = polls
          /\ parity' = parity /\ counted' = counted
      BY <1>9 DEF Query
    <3>3. DInv'
      BY <1>0, <1>2, <3>1, <3>2
      DEF DInv, IInv, DriverTypeOK, SnapIsTrue, NothingFromNothing, LoopState, AnswerIsTrue,
          Order, Places
    <3> QED BY <3>3
  <2> QED BY <1>9, <2>1, <2>2 DEF Query
<1>10. CASE SnapshotPartial
  <2>1. /\ pc = "snapshot" /\ pc' = "loop" /\ polls' = polls + 1 /\ Count("snapshot")
        /\ pos' = pos /\ snap' = snap /\ parity' = parity
        /\ LocalEvent("PARTIAL_FILL", Increment) \/ UNCHANGED vars
    BY <1>10 DEF SnapshotPartial, Continue
  <2>2. Increment \in Nat /\ (executed = 0 => Increment = 0)
    BY <1>0 DEF Increment, DInv, SnapIsTrue
  <2>3. /\ IInv' /\ filled' \in {filled, filled + Increment}
        /\ UNCHANGED <<venue, executed, reports, misled>>
    <3>1. CASE UNCHANGED vars
      BY <3>1, QuietStep DEF DInv, vars, coordinator, broker
    <3>2. CASE LocalEvent("PARTIAL_FILL", Increment)
      BY <2>2, <3>2, LocalEventStep DEF DInv, LocalKinds, LocalOutcome
    <3> QED BY <2>1, <3>1, <3>2
  <2> QED BY <1>0, <1>2, <2>1, <2>2, <2>3, CallStep DEF Places
<1>11. CASE SnapshotFinal
  <2>1. /\ pc = "snapshot" /\ pc' = "final" /\ pos' = pos /\ snap' = snap /\ polls' = polls
        /\ parity' = parity /\ snap.status \in {"FILLED", "REJECTED", "EXPIRED"}
    BY <1>11 DEF SnapshotFinal, FinalEvent
  <2>2. PICK q \in {0, Increment} :
          LocalEvent(FinalEvent[snap.status], q) /\ Count("snapshot")
    BY <1>11 DEF SnapshotFinal
  <2>3. venue = snap.status
    BY <2>1 DEF DInv, SnapIsTrue, Terminal
  <2>4. q \in Nat /\ (executed = 0 => q = 0)
    BY <1>0, <2>2 DEF Increment, DInv, SnapIsTrue
  <2>5. FinalEvent[snap.status] \in LocalKinds
        /\ LocalOutcome[FinalEvent[snap.status]] = venue
    BY <2>1, <2>3 DEF FinalEvent, LocalKinds, LocalOutcome
  <2>6. /\ IInv' /\ filled' \in {filled, filled + q}
        /\ UNCHANGED <<venue, executed, reports, misled>>
    BY <2>2, <2>4, <2>5, LocalEventStep DEF DInv
  <2> QED BY <1>0, <2>1, <2>2, <2>4, <2>6, CallStep DEF Places
<1>12. CASE SnapshotCancelled \/ TimeOut
  <2>1. /\ LocalEvent("CONNECTION_LOST", 0) /\ pc \in {"snapshot", "loop"}
        /\ pc' \in {"lost", "resolve"} /\ (pc' = "lost" => snap.status = "CANCELLED")
        /\ pos' = pos /\ snap' = snap /\ polls' = polls /\ parity' = parity /\ counted' = counted
    BY <1>12 DEF SnapshotCancelled, TimeOut
  <2>2. IInv' /\ filled' \in {filled, filled + 0} /\ UNCHANGED <<venue, executed, reports, misled>>
    BY <2>1, LocalEventStep DEF DInv, LocalKinds, LocalOutcome
  <2> QED BY <1>0, <2>1, <2>2, CallStep DEF Places, Conclusive
<1>13. CASE Evidence
  <2>1. /\ pc = "lost" /\ pc' = "final" /\ Reconcile(snap.status) /\ pos' = pos /\ snap' = snap
        /\ polls' = polls /\ parity' = parity /\ counted' = counted
    BY <1>13 DEF Evidence
  <2>2. snap.status \in Terminal /\ snap.status \in Tokens /\ venue = snap.status
    BY <2>1 DEF DInv, SnapIsTrue, Conclusive, Terminal, Tokens
  <2>3. IInv'
    BY <2>1, <2>2, ReconcileStep DEF DInv
  <2>4. /\ filled' \in {filled, filled + 0} /\ misled' = misled
        /\ UNCHANGED <<venue, executed, reports>>
    BY <1>0, <2>1, <2>2 DEF Reconcile, broker, DInv, LoopState, IInv, TypeOK
  <2> QED BY <1>0, <2>1, <2>3, <2>4, CallStep DEF Places
<1> QED BY <1>3, <1>4, <1>4a, <1>5, <1>6, <1>7, <1>8, <1>9, <1>10, <1>11, <1>12, <1>13 DEF Driver

LEMMA DInvInit == DriverInit => DInv
<1> SUFFICES ASSUME DriverInit PROVE DInv
  OBVIOUS
<1> USE CoordinatorAssumption, AlpacaAssumption
<1>1. IInv
  BY IInvInit DEF DriverInit
<1>2. /\ venue = "NEW" /\ executed = 0 /\ filled = 0 /\ reports = <<>> /\ ~misled
      /\ shadow = "SUBMITTED" /\ pc = "submit" /\ pos = 0 /\ polls = 0 /\ parity = FALSE
      /\ snap = [status |-> "NEW", filled |-> 0]
      /\ counted = [stream |-> 0, snapshot |-> 0]
  BY DEF DriverInit, Init, Order
<1>3. DriverTypeOK
  <2>1. TypeOK /\ Len(reports) = 0 /\ Qty \in Nat /\ MaxPolls \in Nat
    BY <1>1, <1>2 DEF IInv
  <2>2. snap \in [status : Working \cup Terminal, filled : 0..Qty]
    BY <1>2, <2>1 DEF Working
  <2>3. counted \in [stream : Nat, snapshot : Nat]
    BY <1>2
  <2>4. pc \in Places /\ parity \in BOOLEAN
    BY <1>2 DEF Places
  <2>5. pos \in 0..Len(reports) /\ polls \in 0..MaxPolls
    BY <1>2, <2>1
  <2> QED BY <2>1, <2>2, <2>3, <2>4, <2>5 DEF DriverTypeOK
<1>4. SnapIsTrue /\ NothingFromNothing /\ LoopState /\ AnswerIsTrue
  BY <1>2 DEF SnapIsTrue, NothingFromNothing, LoopState, AnswerIsTrue, Terminal
<1> QED BY <1>1, <1>3, <1>4 DEF DInv

LEMMA DInvNext == DInv /\ [DriverNext]_driverVars => DInv'
<1> SUFFICES ASSUME DInv, [DriverNext]_driverVars PROVE DInv'
  OBVIOUS
<1>1. CASE Venue
  BY <1>1, VenueStep
<1>2. CASE Driver
  BY <1>2, DriverStep
<1>3. CASE UNCHANGED driverVars
  BY <1>3, QuietStep
  DEF driverVars, driver, vars, coordinator, broker, DInv, DriverTypeOK, SnapIsTrue,
      NothingFromNothing, LoopState, AnswerIsTrue, TypeOK, IInv
<1> QED BY <1>1, <1>2, <1>3 DEF DriverNext

\* The invariant of the driver, the coordinator and the venue together.
THEOREM DriverInvariance == DriverSpec => []DInv
  BY DInvInit, DInvNext, PTL DEF DriverSpec

\* Every variable of submit_and_observe() keeps its type, for any number of
\* rounds and of changes at the venue.
THEOREM DriverTypes == DriverSpec => []DriverTypeOK
<1>1. DInv => DriverTypeOK
  BY DEF DInv
<1> QED BY <1>1, DriverInvariance, PTL

\* The answer of submit_and_observe() is the venue's, and parity of an order that
\* has not expired means equal quantities, whatever the stream loses or repeats.
THEOREM AnswersAreTrue == DriverSpec => []AnswerIsTrue
<1>1. DInv => AnswerIsTrue
  BY DEF DInv
<1> QED BY <1>1, DriverInvariance, PTL

-----------------------------------------------------------------------------
(***************************************************************************)
(* What each source has counted.  The stream's part of the ledger is what  *)
(* the coordinator was given in reports and did not find late, which is at *)
(* most what was executed; a snapshot lifts the ledger to a quantity that  *)
(* was executed, and never by more than it lacks.                          *)
(***************************************************************************)

SourcesAddUp ==
    /\ filled = counted.stream + counted.snapshot
    /\ counted.stream + Quantity(Late) = Quantity(seen \ {Rec})
    /\ counted.snapshot <= executed

CountInv == DInv /\ ReportsAddUp /\ SourcesAddUp

\* The sources add up as long as the sums over reports stay as they are and the
\* ledger is not touched.
LEMMA UncountedStep ==
    ASSUME DInv, ReportsAddUp', SourcesAddUp, counted' = counted, filled' = filled,
           Quantity(Late)' = Quantity(Late), Quantity(seen \ {Rec})' = Quantity(seen \ {Rec}),
           executed' \in Nat, executed <= executed'
    PROVE  ReportsAddUp' /\ SourcesAddUp'
<1>1. executed \in Nat /\ counted.snapshot \in Nat
  BY CoordinatorAssumption DEF DInv, DriverTypeOK, IInv, TypeOK
<1> QED BY <1>1 DEF SourcesAddUp

\* An event of the driver's own is about no report.
LEMMA LocalEventCounts ==
    ASSUME TypeOK, ReportsAddUp, NEW e, NEW q, LocalEvent(e, q)
    PROVE  /\ ReportsAddUp' /\ executed' = executed
           /\ Quantity(Late)' = Quantity(Late)
           /\ Quantity(seen \ {Rec})' = Quantity(seen \ {Rec})
<1>1. /\ seen' = seen /\ reports' = reports /\ executed' = executed
      /\ Applied(e, q) \/ Rejected(e, Local)
  BY DEF LocalEvent, Others, broker
<1>2. \A i \in 1..MaxReports : i # Local
  BY CoordinatorAssumption DEF Local
<1>3. \A i \in 1..MaxReports :
        <<"LATE_EVENT", i>> \in incidents' <=> <<"LATE_EVENT", i>> \in incidents
  BY <1>1, <1>2 DEF Applied, Rejected, Incident
<1> QED BY <1>1, <1>3, QuietCall

\* A snapshot lifts the ledger to what it says was executed, or not at all.
LEMMA SnapshotCounts ==
    ASSUME DInv, ReportsAddUp, SourcesAddUp, Count("snapshot"), snap.filled <= executed,
           ReportsAddUp', executed' = executed, filled' \in {filled, filled + Increment},
           Quantity(Late)' = Quantity(Late), Quantity(seen \ {Rec})' = Quantity(seen \ {Rec})
    PROVE  SourcesAddUp'
<1>1. /\ filled \in Nat /\ snap.filled \in Nat /\ executed \in Nat
      /\ counted \in [stream : Nat, snapshot : Nat]
      /\ counted.stream \in Nat /\ counted.snapshot \in Nat
  BY CoordinatorAssumption DEF DInv, DriverTypeOK, IInv, TypeOK
<1>2. /\ counted'.stream = counted.stream
      /\ counted'.snapshot = counted.snapshot + (filled' - filled)
  BY <1>1 DEF Count
<1>3. filled' = filled \/ (filled' = snap.filled /\ snap.filled > filled)
  BY <1>1 DEF Increment
<1>4. filled = counted.stream + counted.snapshot /\ counted.snapshot <= executed
  BY DEF SourcesAddUp
<1>5. filled' \in Nat /\ (filled' = counted'.stream + counted'.snapshot)
  BY <1>1, <1>2, <1>3, <1>4
<1>6. counted'.snapshot <= executed'
  BY <1>1, <1>2, <1>3, <1>4
<1>7. counted'.stream + Quantity(Late)' = Quantity(seen \ {Rec})'
  BY <1>2 DEF SourcesAddUp
<1> QED BY <1>5, <1>6, <1>7 DEF SourcesAddUp

\* A report from the stream counts once, for the stream.
LEMMA StreamCounts ==
    ASSUME DInv, DInv', ReportsAddUp, SourcesAddUp, StreamEvent
    PROVE  ReportsAddUp' /\ SourcesAddUp'
<1>1. /\ pos + 1 \in 1..Len(reports) /\ Apply(pos + 1) /\ Count("stream")
      /\ reports' = reports /\ executed' = executed
  <2>1. pos \in Nat /\ Len(reports) \in Nat /\ pos < Len(reports)
    BY DEF StreamEvent, DInv, DriverTypeOK, TypeOK, IInv
  <2> QED BY <2>1 DEF StreamEvent, Others, broker
<1>2. TypeOK /\ TypeOK'
  BY DEF DInv, IInv
<1>3. /\ ReportsAddUp'
      /\ \E d \in Nat : /\ filled' = filled + d
                        /\ Quantity(Late)' + Quantity(seen \ {Rec}) + d
                               = Quantity(Late) + Quantity(seen \ {Rec})'
  BY <1>1, <1>2, ApplyCounts
<1>4. PICK d \in Nat : /\ filled' = filled + d
                       /\ Quantity(Late)' + Quantity(seen \ {Rec}) + d
                              = Quantity(Late) + Quantity(seen \ {Rec})'
  BY <1>3
<1>5. Quantity(Late) \in Nat /\ Quantity(seen \ {Rec}) \in Nat
  BY <1>2, LedgerNat
<1>6. (Quantity(Late) \in Nat /\ Quantity(seen \ {Rec}) \in Nat)'
  BY <1>2, LedgerNat, PTL
<1>7. /\ filled \in Nat /\ counted \in [stream : Nat, snapshot : Nat]
      /\ counted.stream \in Nat /\ counted.snapshot \in Nat
  BY DEF DInv, DriverTypeOK, IInv, TypeOK
<1>8. counted'.stream = counted.stream + d /\ counted'.snapshot = counted.snapshot
  <2>1. filled' - filled = d
    BY <1>4, <1>7
  <2> QED BY <1>1, <1>7, <2>1 DEF Count
<1>9. filled' = counted'.stream + counted'.snapshot
  BY <1>4, <1>7, <1>8 DEF SourcesAddUp
<1>10. counted'.stream + Quantity(Late)' = Quantity(seen \ {Rec})'
  <2>1. counted.stream + Quantity(Late) = Quantity(seen \ {Rec})
    BY DEF SourcesAddUp
  <2> QED BY <1>4, <1>5, <1>6, <1>7, <1>8, <2>1
<1>11. counted'.snapshot <= executed'
  BY <1>1, <1>8 DEF SourcesAddUp
<1> QED BY <1>3, <1>9, <1>10, <1>11 DEF SourcesAddUp

\* At first nothing is counted.
LEMMA CountInit == DriverInit => CountInv
<1> SUFFICES ASSUME DriverInit PROVE CountInv
  OBVIOUS
<1>1. DInv
  BY DInvInit
<1>2. LedgerInv
  BY LedgerInit DEF DriverInit
<1>3. ReportsAddUp /\ filled + Quantity(Late) = Quantity(seen \ {Rec})
  BY <1>2 DEF LedgerInv, FillsAccounted, Late
<1>4. filled = 0 /\ executed = 0 /\ counted = [stream |-> 0, snapshot |-> 0]
  BY DEF DriverInit, Init
<1>5. SourcesAddUp
  BY <1>3, <1>4 DEF SourcesAddUp
<1> QED BY <1>1, <1>3, <1>5 DEF CountInv

\* Every step counts for its own source.
LEMMA CountNext == CountInv /\ [DriverNext]_driverVars => CountInv'
<1> SUFFICES ASSUME CountInv, [DriverNext]_driverVars PROVE CountInv'
  OBVIOUS
<1>0. DInv /\ DInv' /\ TypeOK /\ ReportsAddUp /\ SourcesAddUp
  BY DInvNext DEF CountInv, DInv, IInv
<1> SUFFICES ReportsAddUp' /\ SourcesAddUp'
  BY <1>0 DEF CountInv
<1>1. executed \in Nat /\ executed' \in Nat
  BY <1>0, CoordinatorAssumption DEF DInv, IInv, TypeOK
<1>2. CASE UNCHANGED vars /\ counted' = counted
  <2>1. /\ seen' = seen /\ incidents' = incidents /\ filled' = filled
        /\ reports' = reports /\ executed' = executed
    BY <1>2 DEF vars, coordinator, broker
  <2>2. /\ ReportsAddUp'
        /\ Quantity(Late)' = Quantity(Late)
        /\ Quantity(seen \ {Rec})' = Quantity(seen \ {Rec})
    BY <1>0, <2>1, QuietCall
  <2> QED BY <1>0, <1>1, <1>2, <2>1, <2>2, UncountedStep
<1>3. CASE Venue
  <2>1. \/ VenueAck \/ VenueReject \/ VenueExpire \/ VenueCancel
        \/ \E q \in 1..Qty : VenueFill(q)
    BY <1>3 DEF Venue
  <2>2. counted' = counted
    BY <1>3 DEF Venue, driver
  <2>3. PICK status : \E kind \in DOMAIN Canonical, q \in 0..Qty :
             Report(status, kind, q) /\ (kind \notin Fills => q = 0)
    BY <1>0, <2>1, VenueReports
  <2>4. PICK q \in 0..Qty : \E kind \in DOMAIN Canonical :
             Report(status, kind, q) /\ (kind \notin Fills => q = 0)
    BY <2>3
  <2>5. /\ ReportsAddUp'
        /\ Quantity(Late)' = Quantity(Late)
        /\ Quantity(seen \ {Rec})' = Quantity(seen \ {Rec})
        /\ executed' = executed + q /\ filled' = filled
    BY <1>0, <2>4, ReportCounts
  <2>6. executed <= executed'
    BY <1>1, <2>5, CoordinatorAssumption
  <2> QED BY <1>0, <1>1, <2>2, <2>5, <2>6, UncountedStep
<1>4. CASE StreamEvent
  BY <1>0, <1>4, StreamCounts
<1>5. CASE \/ Submitted \/ SubmitRaises \/ StreamRaises \/ StreamEnds \/ QueryFails
           \/ SnapshotWorking \/ Resolve \/ ResolveFails \/ Verify \/ VerifyFails
           \/ \E n \in 0..MaxReports : OpenStream(n)
  <2>1. UNCHANGED vars /\ counted' = counted
    BY <1>5 DEF Submitted, SubmitRaises, StreamRaises, StreamEnds, QueryFails,
                SnapshotWorking, Resolve, ResolveFails, Verify, VerifyFails, OpenStream
  <2> QED BY <1>2, <2>1
<1>6. CASE Query \/ SnapshotCancelled \/ TimeOut
  <2>1. counted' = counted
    BY <1>6 DEF Query, SnapshotCancelled, TimeOut
  <2>2. \/ LocalEvent("ACK", 0) \/ LocalEvent("CONNECTION_LOST", 0) \/ UNCHANGED vars
    BY <1>6 DEF Query, SnapshotCancelled, TimeOut
  <2>3. CASE LocalEvent("ACK", 0) \/ LocalEvent("CONNECTION_LOST", 0)
    <3>1. filled' = filled
      BY <1>0, <2>3 DEF LocalEvent, Applied, Rejected, TypeOK
    <3>2. /\ ReportsAddUp' /\ executed' = executed
          /\ Quantity(Late)' = Quantity(Late)
          /\ Quantity(seen \ {Rec})' = Quantity(seen \ {Rec})
      BY <1>0, <2>3, LocalEventCounts
    <3> QED BY <1>0, <1>1, <2>1, <3>1, <3>2, UncountedStep
  <2> QED BY <1>2, <2>1, <2>2, <2>3
<1>7. CASE SnapshotPartial \/ SnapshotFinal
  <2>1. /\ Count("snapshot")
        /\ \/ UNCHANGED vars
           \/ \E e : \E q \in {0, Increment} : LocalEvent(e, q)
    BY <1>7 DEF SnapshotPartial, SnapshotFinal
  <2>2. filled \in Nat /\ snap.filled \in Nat /\ snap.filled <= executed
    BY <1>0, CoordinatorAssumption DEF DInv, DriverTypeOK, TypeOK, SnapIsTrue
  <2>3. CASE UNCHANGED vars
    <3>1. /\ seen' = seen /\ incidents' = incidents /\ filled' = filled
          /\ reports' = reports /\ executed' = executed
      BY <2>3 DEF vars, coordinator, broker
    <3>2. /\ ReportsAddUp'
          /\ Quantity(Late)' = Quantity(Late)
          /\ Quantity(seen \ {Rec})' = Quantity(seen \ {Rec})
      BY <1>0, <3>1, QuietCall
    <3> QED BY <1>0, <2>1, <2>2, <3>1, <3>2, SnapshotCounts
  <2>4. CASE \E e : \E q \in {0, Increment} : LocalEvent(e, q)
    <3>1. PICK e : \E q \in {0, Increment} : LocalEvent(e, q)
      BY <2>4
    <3>2. PICK q \in {0, Increment} : LocalEvent(e, q)
      BY <3>1
    <3>3. filled' \in {filled, filled + Increment}
      BY <2>2, <3>2 DEF LocalEvent, Applied, Rejected
    <3>4. /\ ReportsAddUp' /\ executed' = executed
          /\ Quantity(Late)' = Quantity(Late)
          /\ Quantity(seen \ {Rec})' = Quantity(seen \ {Rec})
      BY <1>0, <3>2, LocalEventCounts
    <3> QED BY <1>0, <2>1, <2>2, <3>3, <3>4, SnapshotCounts
  <2> QED BY <2>1, <2>3, <2>4
<1>8. CASE Evidence
  <2>1. Reconcile(snap.status) /\ counted' = counted /\ pc = "lost"
    BY <1>8 DEF Evidence
  <2>2. snap.status \in Tokens
    BY <1>0, <2>1 DEF DInv, SnapIsTrue, Conclusive, Tokens, Terminal
  <2>3. /\ ReportsAddUp' /\ filled' = filled
        /\ Quantity(Late)' = Quantity(Late)
        /\ Quantity(seen \ {Rec})' = Quantity(seen \ {Rec})
    BY <1>0, <2>1, <2>2, ReconcileCounts
  <2>4. executed' = executed
    BY <2>1 DEF Reconcile, broker
  <2> QED BY <1>0, <1>1, <2>1, <2>3, <2>4, UncountedStep
<1>9. CASE StreamIdle \/ UNCHANGED driverVars
  BY <1>2, <1>9 DEF StreamIdle, driverVars, driver
<1> QED BY <1>3, <1>4, <1>5, <1>6, <1>7, <1>8, <1>9 DEF DriverNext, Driver

\* The ledger of a driven order is the sum of what its two sources counted, and
\* neither of them counts more than was executed, for any order size, number of
\* changes at the venue and number of rounds.
THEOREM SourcesCountOnce == DriverSpec => []CountedOncePerSource
<1>1. CountInv => CountedOncePerSource
  <2> SUFFICES ASSUME CountInv PROVE CountedOncePerSource
    OBVIOUS
  <2>1. TypeOK /\ ReportsAddUp /\ SourcesAddUp /\ counted.stream \in Nat
    BY DEF CountInv, DInv, IInv, DriverTypeOK
  <2>2. seen \ {Rec} \in SUBSET (1..Len(reports))
    BY <2>1 DEF TypeOK
  <2>3. Quantity(Late) \in Nat /\ Quantity(seen \ {Rec}) <= executed
    BY <2>1, <2>2, LedgerNat, QuantityFacts DEF ReportsAddUp
  <2>4. Quantity(seen \ {Rec}) \in Nat /\ executed \in Nat
    BY <2>1, LedgerNat, CoordinatorAssumption DEF TypeOK
  <2> QED BY <2>1, <2>3, <2>4 DEF SourcesAddUp, CountedOncePerSource
<1> QED BY <1>1, CountInit, CountNext, PTL DEF DriverSpec

-----------------------------------------------------------------------------
(***************************************************************************)
(* What liveness rests on: each step of the driver begins one more round   *)
(* or gets further through the code, and rounds are bounded (DriverTypes); *)
(* only the reading of an open stream may go on without either, with the   *)
(* order's events or, for as long as the venue likes, without.  The venue  *)
(* does not set the driver back.                                           *)
(***************************************************************************)
Rank(p) ==
    CASE p = "submit" -> 0 [] p = "loop" -> 1 [] p = "stream" -> 2 [] p = "query" -> 3
      [] p = "snapshot" -> 4 [] p = "resolve" -> 5 [] p = "lost" -> 6 [] p = "final" -> 7
      [] OTHER -> 8

Onward ==
    \/ polls' > polls
    \/ polls' = polls /\ Rank(pc') > Rank(pc)

ReadsOn == polls' = polls /\ pc = "stream" /\ pc' = "stream"

\* Every step of the driver that does not read on in the open stream gets onward.
LEMMA DriverOnward ==
    ASSUME DInv, Driver
    PROVE  Onward \/ ReadsOn
<1>0. polls \in Nat /\ pos \in Nat
  BY AlpacaAssumption DEF DInv, DriverTypeOK, IInv, TypeOK
<1>1. CASE Submitted \/ SubmitRaises \/ StreamRaises \/ StreamEnds \/ ResolveFails
  BY <1>1 DEF Submitted, SubmitRaises, StreamRaises, StreamEnds, ResolveFails, Onward, Rank
<1>2. ASSUME NEW n \in 0..MaxReports, OpenStream(n) PROVE Onward
  BY <1>2 DEF OpenStream, Onward, Rank
<1>3. CASE StreamEvent
  <2>1. /\ polls' = polls /\ pc = "stream"
        /\ pc' = "final" \/ pc' = "stream"
    BY <1>3 DEF StreamEvent
  <2> QED  BY <2>1 DEF Onward, ReadsOn, Rank
<1>3a. CASE StreamIdle
  BY <1>3a DEF StreamIdle, driverVars, driver, ReadsOn
<1>4. CASE QueryFails \/ SnapshotWorking \/ SnapshotPartial
  BY <1>0, <1>4 DEF QueryFails, SnapshotWorking, SnapshotPartial, Continue, Onward
<1>5. CASE Query
  <2>1. polls' = polls /\ pc = "query" /\ pc' = "snapshot"
    BY <1>5 DEF Query
  <2> QED  BY <2>1 DEF Onward, Rank
<1>6. CASE SnapshotFinal \/ SnapshotCancelled
  <2>1. polls' = polls /\ pc = "snapshot" /\ pc' \in {"final", "lost"}
    BY <1>6 DEF SnapshotFinal, SnapshotCancelled
  <2> QED  BY <2>1 DEF Onward, Rank
<1>7. CASE TimeOut \/ Resolve \/ Evidence
  <2>1. /\ polls' = polls
        /\ \/ pc = "loop" /\ pc' = "resolve"
           \/ pc = "resolve" /\ pc' \in {"lost", "final"}
           \/ pc = "lost" /\ pc' = "final"
    BY <1>7 DEF TimeOut, Resolve, Evidence
  <2> QED  BY <2>1 DEF Onward, Rank
<1>8. CASE Verify \/ VerifyFails
  BY <1>8 DEF Verify, VerifyFails, Onward, Rank
<1> QED  BY <1>1, <1>2, <1>3, <1>3a, <1>4, <1>5, <1>6, <1>7, <1>8 DEF Driver

\* submit_and_observe(): every step of the driver begins a round more, of which
\* there are MaxPolls, or gets further through the code, but for the reading of an
\* open stream, which no count and no clock ends.
THEOREM DriverRunsOut ==
    DriverSpec => [][(Venue /\ UNCHANGED driver) \/ Onward \/ ReadsOn]_driverVars
<1>1. DInv /\ [DriverNext]_driverVars
        => [(Venue /\ UNCHANGED driver) \/ Onward \/ ReadsOn]_driverVars
  BY DriverOnward DEF DriverNext, Venue
<1> QED  BY <1>1, DriverInvariance, PTL DEF DriverSpec
=============================================================================
