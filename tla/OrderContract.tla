---------------------------- MODULE OrderContract ----------------------------
(***************************************************************************)
(* What the execution coordinator promises of one order, without reports,  *)
(* duplicates, cancel requests or lost connections: it counts no more than *)
(* the venue has executed; it claims an outcome once, counts nothing       *)
(* afterwards and never takes the claim back; and what it claims is the    *)
(* venue's outcome, unless the evidence it was given names another one.    *)
(* Coordinator implements it (ImplementsContract).                         *)
(***************************************************************************)
EXTENDS Naturals

CONSTANTS Qty,      \* requested_qty
          Final     \* the outcomes an order can have

VARIABLES
    outcome,    \* the order at the venue: "working", or how it ended
    executed,   \* what the venue has executed
    claim,      \* what the coordinator says: "open", or how the order ended
    counted,    \* what it has counted as filled
    misled      \* some evidence was false

cvars == <<outcome, executed, claim, counted, misled>>

CInit ==
    /\ outcome = "working" /\ executed = 0
    /\ claim = "open" /\ counted = 0 /\ misled = FALSE

\* The venue executes a part of the order; the last part fills it.
Execute(q) ==
    /\ outcome = "working" /\ executed + q <= Qty
    /\ executed' = executed + q
    /\ outcome' = IF executed' = Qty THEN "FILLED" ELSE outcome
    /\ UNCHANGED <<claim, counted, misled>>

\* The venue ends an order that is not filled.
End(s) ==
    /\ outcome = "working" /\ s # "FILLED"
    /\ outcome' = s
    /\ UNCHANGED <<executed, claim, counted, misled>>

\* The coordinator counts what was executed and not counted yet.
Count(q) ==
    /\ claim = "open" /\ counted + q <= executed
    /\ counted' = counted + q
    /\ UNCHANGED <<outcome, executed, claim, misled>>

\* It learns how the order ended, possibly together with its last fill.
Conclude(q) ==
    /\ claim = "open" /\ outcome \in Final /\ counted + q <= executed
    /\ claim' = outcome
    /\ counted' = counted + q
    /\ UNCHANGED <<outcome, executed, misled>>

\* It is given false evidence, and believes it or not.
Mislead(s) ==
    /\ s # outcome
    /\ misled' = TRUE
    /\ claim' = claim \/ (claim = "open" /\ claim' = s)
    /\ UNCHANGED <<outcome, executed, counted>>

CNext ==
    \/ \E q \in 0..Qty : Execute(q) \/ Count(q) \/ Conclude(q)
    \/ \E s \in Final : End(s) \/ Mislead(s)

CSpec == CInit /\ [][CNext]_cvars
=============================================================================
