------------------------------- MODULE Keeper -------------------------------
(***************************************************************************)
(* The autonomous keeper of backend/app.py: the timer that re-arms itself,  *)
(* the toggle and trigger endpoints, and the evaluation cycle they share    *)
(* under KEEPER_CYCLE_LOCK.                                                 *)
(*                                                                         *)
(* Endpoints run in threads of the server's pool, timers in threads of      *)
(* their own.  A scheduler statement that reads or writes the global        *)
(* _keeper_timer is a step, because another thread may come between two.    *)
(* The day between cycles and the age of a report are abstracted: an armed  *)
(* timer may fire at any time, a report be stale at any reading.  The       *)
(* keeper takes its nonce from the mined transactions, so the pool holds    *)
(* one of its transactions at most: that of the account's next nonce.       *)
(* Cycle and update counters are left out.                                  *)
(***************************************************************************)
EXTENDS Naturals, Sequences, FiniteSets

CONSTANTS
  Operators,    \* API callers who toggle the keeper
  Visitors,     \* API callers who trigger a cycle
  MaxTimers,    \* bound: timer objects in use at a time
  MaxCalls,     \* bound: calls that start a cycle
  Monitored,    \* monitored_assets, a sequence
  Scores,       \* what an analysis may yield
  Threshold,    \* DRIFT_THRESHOLD_PTS
  MaxMeasured,  \* bound: analyses of an asset that are told apart
  Nobody        \* no thread, no timer, no transaction, no report

Timers == 1..MaxTimers
Callers == Operators \cup Visitors
Threads == Callers \cup Timers
Assets == {Monitored[k] : k \in DOMAIN Monitored}

VARIABLES
  isRunning,    \* AUTONOMOUS_STATE["is_running"]
  cycleLock,    \* who holds KEEPER_CYCLE_LOCK
  keeperTimer,  \* the global _keeper_timer
  pc,           \* where each thread is; for a timer that does not run: whether
                \* it is created, cancelled before its start, or armed
  work,         \* the local variables of the thread's cycle: whether a timer is
                \* to follow, the connection, the analysis at hand, cycle_logs
  measured,     \* how many analyses of each asset were made
  pending,      \* the keeper's transaction in the pool
  record,       \* the latest report of each asset on chain
  starts,       \* calls that started a cycle
  overtaken     \* history variable: the last call that resumed the keeper came
                \* while a call that pauses it was under way

schedulerVars == <<isRunning, keeperTimer, starts, overtaken>>
chainVars == <<pending, record>>
vars == <<schedulerVars, cycleLock, pc, work, measured, chainVars>>

(* Of an analysis: the score, and when it was made. *)
Finding == [asset : Assets, score : Scores, version : 1..MaxMeasured]

ASSUME CallersAssumption == Operators \cap Visitors = {} /\ Callers \cap Timers = {}
ASSUME TimersAssumption == MaxTimers \in Nat \ {0} /\ MaxCalls \in Nat
ASSUME ScoresAssumption == Scores \subseteq Nat /\ Threshold \in Nat /\ MaxMeasured \in Nat \ {0}
ASSUME MonitoredAssumption == Len(Monitored) \in Nat /\ DOMAIN Monitored = 1..Len(Monitored)
ASSUME NobodyAssumption == Nobody \notin Threads /\ Nobody \notin Finding

Idle == [reschedules |-> FALSE, connected |-> FALSE, finding |-> Nobody, log |-> <<>>]
Evaluating == {"measure", "decide", "send"}
Stopping == {"stop", "cancel", "clear"}
Places == {"idle", "created", "cancelled", "armed", "check", "lock", "assign", "start"}
            \cup Stopping \cup Evaluating
Entry == {"ERROR", "MONITORED_OK", "EVALUATED_READY", "ONCHAIN_UPDATED"}
Task == [reschedules : BOOLEAN, connected : BOOLEAN, finding : Finding \cup {Nobody},
         log : Seq(Entry)]

(* Types, and that the cycle runs under the lock. *)
KeeperTypeOK ==
  /\ isRunning \in BOOLEAN
  /\ cycleLock \in Threads \cup {Nobody}
  /\ keeperTimer \in Timers \cup {Nobody}
  /\ pc \in [Threads -> Places]
  /\ work \in [Threads -> Task]
  /\ measured \in [Assets -> 0..MaxMeasured]
  /\ pending \in Finding \cup {Nobody}
  /\ record \in [Assets -> Finding \cup {Nobody}]
  /\ starts \in 0..MaxCalls
  /\ overtaken \in BOOLEAN
  /\ \A t \in Threads : pc[t] \in Evaluating <=> cycleLock = t

(* lifespan: the first timer is armed, and kept in a local variable. *)
Init ==
  /\ isRunning \in BOOLEAN
  /\ cycleLock = Nobody
  /\ keeperTimer = Nobody
  /\ pc = [t \in Threads |-> IF isRunning /\ t = 1 THEN "armed" ELSE "idle"]
  /\ work = [t \in Threads |-> Idle]
  /\ measured = [a \in Assets |-> 0]
  /\ pending = Nobody
  /\ record = [a \in Assets |-> Nobody]
  /\ starts = 0
  /\ overtaken = FALSE

-----------------------------------------------------------------------------
At(t, place) == pc[t] = place
Goes(t, place) == pc' = [pc EXCEPT ![t] = place]

(* A timer object that was never started is gone with the last reference. *)
Forgotten(place) == IF place \in {"created", "cancelled"} THEN "idle" ELSE place
WithoutKeeperTimer ==
  [u \in Threads |-> IF u = keeperTimer THEN Forgotten(pc[u]) ELSE pc[u]]

PauseUnderWay == \E c \in Operators : pc[c] \in Stopping

(* POST /api/autonomous/toggle and /trigger: no lock, so calls may overlap. *)
ToggleOn(c) ==
  /\ At(c, "idle") /\ starts < MaxCalls
  /\ isRunning' = TRUE
  /\ starts' = starts + 1
  /\ overtaken' = PauseUnderWay
  /\ Goes(c, "check")
  /\ UNCHANGED <<cycleLock, keeperTimer, work, measured, chainVars>>

ToggleOff(c) ==
  /\ At(c, "idle")
  /\ isRunning' = FALSE
  /\ Goes(c, "stop")
  /\ UNCHANGED <<cycleLock, keeperTimer, work, measured, chainVars, starts, overtaken>>

Trigger(c) ==
  /\ At(c, "idle") /\ starts < MaxCalls
  /\ starts' = starts + 1
  /\ Goes(c, "lock")
  /\ UNCHANGED <<isRunning, cycleLock, keeperTimer, work, measured, chainVars, overtaken>>

(* threading.Timer: its interval is over and it was not cancelled. *)
Fire(t) ==
  /\ At(t, "armed")
  /\ Goes(t, "check")
  /\ UNCHANGED <<schedulerVars, cycleLock, work, measured, chainVars>>

-----------------------------------------------------------------------------
(* _start_keeper_scheduler: the check, the cycle, the next timer. *)
(* A plausible slip: the flag is not looked at again when the timer fires. *)
GoesOnRegardless == TRUE
(* A plausible slip: one timer that is remembered is taken to be enough. *)
GoesOnUnlessTimed == isRunning /\ keeperTimer = Nobody

GoesOn == isRunning

Check(t) ==
  /\ At(t, "check")
  /\ IF GoesOn
       THEN Goes(t, "lock") /\ work' = [work EXCEPT ![t].reschedules = TRUE]
       ELSE Goes(t, "idle") /\ UNCHANGED work
  /\ UNCHANGED <<schedulerVars, cycleLock, measured, chainVars>>

FreeTimer == CHOOSE u \in Timers : At(u, "idle")

Assign(t) ==
  /\ At(t, "assign")
  /\ \E u \in Timers : At(u, "idle")
  /\ keeperTimer' = FreeTimer
  /\ pc' = [WithoutKeeperTimer EXCEPT ![FreeTimer] = "created", ![t] = "start"]
  /\ UNCHANGED <<isRunning, cycleLock, work, measured, chainVars, starts, overtaken>>

(* start() on the timer the global names by now.  A timer that was cancelled
   runs out at once; starting none, or one twice, raises.  Any way the thread
   is done. *)
Start(t) ==
  /\ At(t, "start")
  /\ pc' = [u \in Threads |->
              IF u = t THEN "idle"
              ELSE IF u = keeperTimer /\ At(u, "created") THEN "armed"
              ELSE IF u = keeperTimer /\ At(u, "cancelled") THEN "idle"
              ELSE pc[u]]
  /\ UNCHANGED <<schedulerVars, cycleLock, work, measured, chainVars>>

(* A plausible slip: without a timer to cancel, the call waits for one. *)
WaitsForTimer == "stop"

WithoutTimer == "idle"

(* _stop_keeper_scheduler: the test, the cancellation, the assignment.
   Cancelling a timer whose function runs, or has run, does nothing; cancelling
   None raises. *)
Stop(t) ==
  /\ At(t, "stop")
  /\ Goes(t, IF keeperTimer = Nobody THEN WithoutTimer ELSE "cancel")
  /\ UNCHANGED <<schedulerVars, cycleLock, work, measured, chainVars>>

Cancelled(place) ==
  CASE place = "armed" -> "idle" [] place = "created" -> "cancelled" [] OTHER -> place

Cancel(t) ==
  /\ At(t, "cancel")
  /\ pc' = [u \in Threads |->
              IF u = t THEN IF keeperTimer = Nobody THEN "idle" ELSE "clear"
              ELSE IF u = keeperTimer THEN Cancelled(pc[u])
              ELSE pc[u]]
  /\ UNCHANGED <<schedulerVars, cycleLock, work, measured, chainVars>>

Clear(t) ==
  /\ At(t, "clear")
  /\ keeperTimer' = Nobody
  /\ pc' = [WithoutKeeperTimer EXCEPT ![t] = "idle"]
  /\ UNCHANGED <<isRunning, cycleLock, work, measured, chainVars, starts, overtaken>>
-----------------------------------------------------------------------------
(* execute_autonomous_cycle.  Without a key, a contract or a connection the
   cycle evaluates and sends nothing. *)
(* A plausible slip: the lock is not waited for. *)
LockIgnored == TRUE

LockFree == cycleLock = Nobody

BeginCycle(t) ==
  /\ At(t, "lock")
  /\ LockFree
  /\ cycleLock' = t
  /\ \E connected \in BOOLEAN : work' = [work EXCEPT ![t].connected = connected]
  /\ Goes(t, "measure")
  /\ UNCHANGED <<schedulerVars, measured, chainVars>>

(* The asset whose turn it is: every asset gets one entry of cycle_logs. *)
Turn(t) == Len(work[t].log) + 1
Remaining(t) == Turn(t) <= Len(Monitored)

(* The entry of the asset in cycle_logs. *)
Logs(t, status) ==
  work' = [work EXCEPT ![t].log = Append(@, status), ![t].finding = Nobody]

(* process_analysis: a score with the moment it was computed. *)
Measure(t) ==
  /\ At(t, "measure") /\ Remaining(t)
  /\ LET a == Monitored[Turn(t)] IN
     \E score \in Scores :
       /\ measured[a] < MaxMeasured
       /\ measured' = [measured EXCEPT ![a] = @ + 1]
       /\ work' = [work EXCEPT ![t].finding =
                     [asset |-> a, score |-> score, version |-> measured[a] + 1]]
  /\ Goes(t, "decide")
  /\ UNCHANGED <<schedulerVars, cycleLock, chainVars>>

(* The analysis raises, and the cycle goes on with the next asset. *)
MeasureFails(t) ==
  /\ At(t, "measure") /\ Remaining(t)
  /\ Logs(t, "ERROR")
  /\ UNCHANGED <<schedulerVars, cycleLock, pc, measured, chainVars>>

Drift(x, y) == IF x > y THEN x - y ELSE y - x

NeedsUpdate(score, onchain, isStale, breaker) ==
  \/ onchain = Nobody
  \/ Drift(score, onchain.score) >= Threshold
  \/ isStale
  \/ breaker

(* What getRiskReport().call() yields: CONTRACT_ABI has no such function, the
   call raises, and a report that cannot be read counts as none. *)
OnChainReport(a) == Nobody

Decide(t) ==
  /\ At(t, "decide")
  /\ LET f == work[t].finding IN
     \E isStale, breaker \in BOOLEAN :
       IF ~NeedsUpdate(f.score, OnChainReport(f.asset), isStale, breaker)
         THEN Goes(t, "measure") /\ Logs(t, "MONITORED_OK")
       ELSE IF work[t].connected
         THEN Goes(t, "send") /\ UNCHANGED work
       ELSE Goes(t, "measure") /\ Logs(t, "EVALUATED_READY")
  /\ UNCHANGED <<schedulerVars, cycleLock, measured, chainVars>>

(* The network takes the transaction, in the place of the keeper's pending one
   if it offers more gas. *)
Send(t) ==
  /\ At(t, "send")
  /\ pending' = work[t].finding
  /\ Goes(t, "measure") /\ Logs(t, "ONCHAIN_UPDATED")
  /\ UNCHANGED <<schedulerVars, cycleLock, measured, record>>

(* No quorum, no connection, a nonce too low or a pending transaction that is
   not outbid: tx_hash becomes a "SIMULATED_REVERT: ..." text, the log has the
   same status. *)
SendFails(t) ==
  /\ At(t, "send")
  /\ Goes(t, "measure") /\ Logs(t, "ONCHAIN_UPDATED")
  /\ UNCHANGED <<schedulerVars, cycleLock, measured, chainVars>>

(* A plausible slip: every cycle arms the next one. *)
AlwaysAssign(t) == "assign"

AfterCycle(t) == IF work[t].reschedules THEN "assign" ELSE "idle"

EndCycle(t) ==
  /\ At(t, "measure") /\ ~Remaining(t)
  /\ cycleLock' = Nobody
  /\ work' = [work EXCEPT ![t] = Idle]
  /\ Goes(t, AfterCycle(t))
  /\ UNCHANGED <<schedulerVars, measured, chainVars>>

(* A block takes the keeper's transaction.  The contract may revert it. *)
Mine ==
  /\ pending # Nobody
  /\ \/ record' = [record EXCEPT ![pending.asset] = pending]
     \/ UNCHANGED record
  /\ pending' = Nobody
  /\ UNCHANGED <<schedulerVars, cycleLock, pc, work, measured>>

-----------------------------------------------------------------------------
CycleStep(t) ==
  Measure(t) \/ MeasureFails(t) \/ Decide(t) \/ Send(t) \/ SendFails(t) \/ EndCycle(t)

SchedulerStep(t) ==
  Check(t) \/ Assign(t) \/ Start(t) \/ Stop(t) \/ Cancel(t) \/ Clear(t)

Next ==
  \/ \E c \in Operators : ToggleOn(c) \/ ToggleOff(c)
  \/ \E c \in Visitors : Trigger(c)
  \/ \E t \in Timers : Fire(t)
  \/ \E t \in Threads : SchedulerStep(t) \/ BeginCycle(t) \/ CycleStep(t)
  \/ Mine

(* A thread that runs goes on; an armed timer fires; and the lock, which the
   scheduler leaves alone for a day at a time, comes to whoever waits for it. *)
Fairness ==
  /\ \A t \in Threads : WF_vars(SchedulerStep(t) \/ CycleStep(t))
  /\ \A t \in Threads : SF_vars(BeginCycle(t))
  /\ \A t \in Timers : WF_vars(Fire(t))

Spec == Init /\ [][Next]_vars /\ Fairness
-----------------------------------------------------------------------------
NoReportIsOlder ==
  \A a \in Assets :
    record'[a] = record[a] \/ record[a] = Nobody \/ record'[a].version > record[a].version

(* Whatever cycles and blocks interleave, a report of the keeper never replaces
   one that was computed later: the lock covers the analysis and the sending, and
   the nonce keeps a second transaction out until the first is mined. *)
NewerIsNotReplaced == [][NoReportIsOlder]_vars

SchedulerAtWork(t) ==
  \/ At(t, "check") \/ At(t, "assign") \/ At(t, "start")
  \/ pc[t] \in Evaluating \cup {"lock"} /\ work[t].reschedules
Chains == {t \in Threads : SchedulerAtWork(t) \/ At(t, "armed")}

NoChainOfItsOwn ==
  Cardinality(Chains') > Cardinality(Chains) =>
    \E c \in Operators : At(c, "idle") /\ pc'[c] = "check"

(* No chain of timers starts but from a toggle: not from a trigger, nor from
   threads that start the timer another one assigned. *)
ChainsDoNotMultiply == [][NoChainOfItsOwn]_vars

(* A keeper that was resumed when no pause was under way has its next cycle
   ahead, whatever operators pause and resume after that, visitors trigger and
   timers fire: a timer is armed or a scheduler thread is on its way to arm one.
   The global may name a timer that another thread assigned, started, or is
   about to cancel. *)
ResumedKeeperIsScheduled == isRunning /\ ~overtaken => Chains # {}

(* The endpoint (app.py:1312) is to "Pause or resume the autonomous background
   keeper daemon": a keeper reported ACTIVE, on a "threading.Timer (daemon)"
   (app.py:1285), has its next cycle ahead - also when it was resumed while a
   call that pauses it was under way. *)
ActiveKeeperIsScheduled == isRunning => Chains # {}

(* Once it is paused for good, the keeper winds down: cycles that run end, the
   timers they leave behind fire and find the flag. *)
PausedKeeperWindsDown == <>[](~isRunning) => <>[](Chains = {})

(* Every call to the keeper returns, though some wait for the cycle of another
   thread: no failure in a cycle leaves the lock taken. *)
EveryCallReturns == \A c \in Callers : ~At(c, "idle") ~> At(c, "idle")
=============================================================================
