------------------------- MODULE OptimisticFinality -------------------------
(***************************************************************************)
(* What the optimistic oracle promises the consumers of a report, without   *)
(* stakes, bonds, clocks or call frames: a report is published open, may be *)
(* disputed and settled any number of times while it is open, and becomes   *)
(* final once.  A final report never moves again and keeps its verdict.     *)
(* CreditPulseASC implements this specification.                            *)
(***************************************************************************)
CONSTANT Slots      \* the report slots

VARIABLES
  status,           \* where each report is in its life
  overturned        \* whether the last settled challenge won

statusVars == <<status, overturned>>

Statuses == {"none", "open", "disputed", "final"}

LifeInit ==
  /\ status = [d \in Slots |-> "none"]
  /\ overturned = [d \in Slots |-> FALSE]

Publish(d) ==
  /\ status[d] = "none"
  /\ status' = [status EXCEPT ![d] = "open"]
  /\ UNCHANGED overturned

Challenge(d) ==
  /\ status[d] = "open"
  /\ status' = [status EXCEPT ![d] = "disputed"]
  /\ overturned' = [overturned EXCEPT ![d] = FALSE]

(* A dispute may be settled after the window, and then settles the report. *)
Settle(d) ==
  /\ status[d] = "disputed"
  /\ \E next \in {"open", "final"} : status' = [status EXCEPT ![d] = next]
  /\ \E verdict \in BOOLEAN : overturned' = [overturned EXCEPT ![d] = verdict]

(* Windows close with the clock, so several at once. *)
Expire ==
  \E closing \in SUBSET {d \in Slots : status[d] = "open"} :
    /\ closing # {}
    /\ status' = [d \in Slots |-> IF d \in closing THEN "final" ELSE status[d]]
    /\ UNCHANGED overturned

LifeNext == Expire \/ \E d \in Slots : Publish(d) \/ Challenge(d) \/ Settle(d)

LifeSpec == LifeInit /\ [][LifeNext]_statusVars
=============================================================================
