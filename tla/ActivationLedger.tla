-------------------------- MODULE ActivationLedger --------------------------
(***************************************************************************)
(* What the Gate B ledger promises the rest of the system, without any of  *)
(* its files: every activation is decided once, a decided activation can   *)
(* only be withheld afterwards, readers are served at most one activation, *)
(* always a committed one, and success is reported only for a committed    *)
(* activation.  GateB implements it (ImplementsLedger).                    *)
(***************************************************************************)
CONSTANTS Tx, NoTx

VARIABLES
  outcome,    \* "open", "committed", "aborted" or "withheld"
  served,     \* the activation the readers return, or NoTx
  reported    \* the activations reported successful

lvars == <<outcome, served, reported>>

LInit ==
  /\ outcome = [t \in Tx |-> "open"]
  /\ served = NoTx
  /\ reported = {}

Decide(t, how) == outcome' = [outcome EXCEPT ![t] = how]

(* Readers are served nothing while the pointer is being moved.             *)
Suspend ==
  /\ served # NoTx /\ served' = NoTx
  /\ \E t \in Tx : outcome[t] = "open"
  /\ UNCHANGED <<outcome, reported>>

Commit(t) ==
  /\ outcome[t] = "open" /\ served = NoTx
  /\ Decide(t, "committed")
  /\ served' = t
  /\ UNCHANGED reported

Abort(t) ==
  /\ outcome[t] = "open"
  /\ Decide(t, "aborted")
  /\ UNCHANGED <<served, reported>>

Withhold(t) ==
  /\ outcome[t] # "withheld"
  /\ Decide(t, "withheld")
  /\ served' = IF served = t THEN NoTx ELSE served
  /\ UNCHANGED reported

(* An authenticated pointer rollback serves the previous activation again.  *)
Reinstate(t) ==
  /\ served = NoTx /\ outcome[t] = "committed"
  /\ \E u \in Tx : outcome[u] = "withheld"
  /\ served' = t
  /\ UNCHANGED <<outcome, reported>>

Report(t) ==
  /\ outcome[t] = "committed"
  /\ reported' = reported \cup {t}
  /\ UNCHANGED <<outcome, served>>

LNext ==
  \/ Suspend
  \/ \E t \in Tx : \/ Commit(t) \/ Abort(t) \/ Withhold(t)
                   \/ Reinstate(t) \/ Report(t)

LSpec == LInit /\ [][LNext]_lvars
=============================================================================
