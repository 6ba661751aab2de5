------------------------------ MODULE MCKeeper ------------------------------
(***************************************************************************)
(* A small keeper for TLC: one asset and one score, for the code never     *)
(* compares a score with the one on chain.  The races of toggle calls and  *)
(* those of analyses meet only at the timers, so each behaviour runs one   *)
(* of the two parts:                                                       *)
(*   "toggles": both operators pause and resume, no visitor calls, and     *)
(*              cycles run without a connection and fail to analyse;       *)
(*   "cycles":  one operator, the visitors and the timers run cycles that  *)
(*              measure, decide, sign and send; nobody pauses the keeper,  *)
(*              which may be paused from the start.                        *)
(***************************************************************************)
EXTENDS Keeper

CONSTANT bob    \* the operator who is idle in "cycles"
VARIABLE part
keeperVars == <<vars, part>>

MCMonitored == <<"aave">>

Confined ==
  /\ UNCHANGED part
  /\ part = "toggles" =>
       /\ \A c \in Visitors : pc'[c] = "idle"
       /\ \A t \in Threads : ~work'[t].connected
       /\ measured' = measured
  /\ part = "cycles" =>
       /\ pc'[bob] = "idle"
       /\ isRunning => isRunning'

KeeperInit == Init /\ part \in {"toggles", "cycles"}
KeeperNext == Next /\ Confined
KeeperSpec == KeeperInit /\ [][KeeperNext]_keeperVars /\ Fairness
=============================================================================
