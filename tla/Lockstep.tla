------------------------------ MODULE Lockstep ------------------------------
(***************************************************************************)
(* What a tournament promises its slots, as if the feed never failed:      *)
(* bars come one after the other, every slot that trades is given each of  *)
(* them, a slot that has halted or broken is given no more, and when it is *)
(* over every session is closed at once, with the kill switch as its       *)
(* reason where that was active and one common cause otherwise.  There are *)
(* no polls, no stale candles, no recovery episodes and no signals.        *)
(* Tournament implements it (ImplementsLockstep).                          *)
(***************************************************************************)
EXTENDS Naturals

CONSTANTS Slots,    \* slot coordinates
          Causes    \* why a tournament may end

VARIABLES
    phase,  \* "before", "running", "stopping" or "over"
    bar,    \* the bar all slots are at, 0 before the first
    slot,   \* of each slot: what became of its session
    given,  \* of each slot: the last bar its session took, 0 before the first
    reason  \* of each slot: what its session was sealed with

lvars == <<phase, bar, slot, given, reason>>

LInit ==
    /\ phase = "before" /\ bar = 0
    /\ slot \in [Slots -> {"empty", "mounted"}]
    /\ given = [s \in Slots |-> 0] /\ reason = [s \in Slots |-> "none"]

\* The sessions that are mounted begin to trade, or only some of them do and the
\* tournament ends there.
Begin ==
    /\ phase = "before"
    /\ \E begun \in SUBSET {s \in Slots : slot[s] = "mounted"} :
          /\ slot' = [s \in Slots |-> IF s \in begun THEN "trading" ELSE slot[s]]
          /\ phase' \in {"running", "stopping"}
          /\ phase' = "running" => \A s \in Slots : slot[s] = "mounted" => s \in begun
    /\ UNCHANGED <<bar, given, reason>>

\* The functions of slots keep their type.
Typed ==
    /\ slot' \in [Slots -> {"empty", "mounted", "trading", "halted", "broken", "closed"}]
    /\ given' \in [Slots -> Nat]
    /\ reason' \in [Slots -> Causes \cup {"none", "RISK_KILL_SWITCH"}]

\* A session is given the bar: it goes on, its kill switch halts it, or it breaks,
\* perhaps before it has taken the bar.
Given(s) ==
    \/ slot'[s] \in {"trading", "halted", "broken"} /\ given'[s] = bar'
    \/ slot'[s] = "broken" /\ given'[s] = given[s]

\* The next bar is given to every slot that trades, those that join included; it
\* may be the last.
Round ==
    /\ phase = "running" /\ phase' \in {"running", "stopping"} /\ Typed
    /\ bar' \in Nat \ {0} /\ (bar = 0 \/ bar' = bar + 1)
    /\ \E joining \in SUBSET {s \in Slots : slot[s] = "empty"} : \A s \in Slots :
          IF slot[s] = "trading" \/ s \in joining
          THEN Given(s)
          ELSE slot'[s] = slot[s] /\ given'[s] = given[s]
    /\ UNCHANGED reason

\* The tournament comes to its end, perhaps while sessions join.
Stop ==
    /\ phase \in {"before", "running"} /\ phase' = "stopping"
    /\ \E joining \in SUBSET {s \in Slots : slot[s] = "empty"} :
          /\ phase = "before" => joining = {}
          /\ slot' = [s \in Slots |-> IF s \in joining THEN "trading" ELSE slot[s]]
    /\ UNCHANGED <<bar, given, reason>>

\* Every session that was begun is closed; one that cannot be stopped has no reason.
Close ==
    /\ phase = "stopping" /\ phase' = "over" /\ Typed
    /\ \E cause \in Causes : \A s \in Slots :
          IF slot[s] \in {"trading", "halted", "broken"}
          THEN /\ slot'[s] = "closed"
               /\ reason'[s] \in {"none", IF slot[s] = "halted" THEN "RISK_KILL_SWITCH" ELSE cause}
          ELSE slot'[s] = slot[s] /\ reason'[s] = reason[s]
    /\ UNCHANGED <<bar, given>>

LNext == Begin \/ Round \/ Stop \/ Close

LSpec == LInit /\ [][LNext]_lvars
=============================================================================
