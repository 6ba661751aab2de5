--------------------------- MODULE Keeper_proofs ---------------------------
(***************************************************************************)
(* The keeper's reports reach the chain in the order of their analyses, for *)
(* any number of callers, timers and assets.  The lock leaves one analysis  *)
(* at hand at a time, so it is the latest of its asset; the transaction in  *)
(* the pool is older than it, and the report on chain older than both.      *)
(*                                                                         *)
(* And its chains of timers, for any number of timers and cycles: none      *)
(* starts but from a toggle, and a keeper that was resumed when no pause    *)
(* was under way has one, whatever calls overlap after that.                *)
(***************************************************************************)
EXTENDS Keeper, FiniteSetTheorems, TLAPS

Older(f, g) == f # Nobody /\ f.asset = g.asset => f.version < g.version

RecordsAreMeasured ==
  \A a \in Assets :
    record[a] # Nobody => record[a].asset = a /\ record[a].version <= measured[a]

PendingIsLater ==
  pending # Nobody =>
    /\ pending.version <= measured[pending.asset]
    /\ Older(record[pending.asset], pending)

FindingIsLatest ==
  \A t \in Threads : pc[t] \in {"decide", "send"} =>
    LET f == work[t].finding IN
      /\ f \in Finding
      /\ f.version = measured[f.asset]
      /\ Older(record[f.asset], f)
      /\ Older(pending, f)

InOrder == RecordsAreMeasured /\ PendingIsLater /\ FindingIsLatest
KeeperInv == KeeperTypeOK /\ InOrder

-----------------------------------------------------------------------------
LEMMA KeeperInitInv == Init => KeeperInv
<1> SUFFICES ASSUME Init PROVE KeeperInv
  OBVIOUS
<1> USE DEF Init
<1>1. KeeperTypeOK
  <2>1. Idle \in Task
    BY DEF Idle, Task
  <2>2. /\ isRunning \in BOOLEAN /\ cycleLock = Nobody /\ keeperTimer = Nobody
        /\ pc \in [Threads -> Places] /\ \A t \in Threads : pc[t] \notin Evaluating
    BY DEF Places, Evaluating
  <2>3. measured \in [Assets -> 0..MaxMeasured] /\ starts \in 0..MaxCalls
    BY TimersAssumption, ScoresAssumption
  <2>3a. overtaken \in BOOLEAN
    OBVIOUS
  <2>4. pending = Nobody /\ record = [a \in Assets |-> Nobody]
    OBVIOUS
  <2>5. work \in [Threads -> Task]
    BY <2>1
  <2>6. \A t \in Threads : pc[t] \in Evaluating <=> cycleLock = t
    BY <2>2, NobodyAssumption
  <2>7. QED
    BY ONLY <2>2, <2>3, <2>3a, <2>4, <2>5, <2>6 DEF KeeperTypeOK
<1>2. InOrder
  BY DEF InOrder, RecordsAreMeasured, PendingIsLater, FindingIsLatest
<1>3. QED
  BY <1>1, <1>2 DEF KeeperInv

(* Steps that leave the cycle, the pool and the chain alone. *)
Quiet ==
  /\ UNCHANGED <<cycleLock, measured, pending, record>>
  /\ isRunning' \in BOOLEAN /\ overtaken' \in BOOLEAN
  /\ keeperTimer' \in Timers \cup {Nobody}
  /\ starts' \in 0..MaxCalls
  /\ pc' \in [Threads -> Places]
  /\ \A t \in Threads : pc[t] \in Evaluating \/ pc'[t] \in Evaluating => pc'[t] = pc[t]
  /\ work' \in [Threads -> Task]
  /\ \A t \in Threads : work'[t].finding = work[t].finding

(* Steps after which the analyses at hand are some of those before. *)
Calm ==
  /\ UNCHANGED <<measured, pending, record>>
  /\ KeeperTypeOK'
  /\ \A t \in Threads : pc'[t] \in {"decide", "send"} =>
       pc[t] \in {"decide", "send"} /\ work'[t].finding = work[t].finding

LEMMA CalmKeepsInv ==
  ASSUME KeeperInv, Calm
  PROVE  KeeperInv' /\ NoReportIsOlder
<1>1. InOrder'
  BY DEF KeeperInv, InOrder, RecordsAreMeasured, PendingIsLater, FindingIsLatest, Calm, Older
<1>2. QED
  BY <1>1 DEF KeeperInv, NoReportIsOlder, Calm

LEMMA QuietIsCalm == ASSUME KeeperTypeOK, Quiet PROVE Calm
  BY DEF KeeperTypeOK, Quiet, Calm, Evaluating

(* The calls, the timers and the scheduler around the cycle are quiet. *)
LEMMA SchedulerIsQuiet ==
  ASSUME KeeperTypeOK, NEW t \in Threads,
         \/ ToggleOn(t) \/ ToggleOff(t) \/ Trigger(t) \/ Fire(t) \/ SchedulerStep(t)
  PROVE  Quiet
<1> USE DEF KeeperTypeOK, Quiet, schedulerVars, chainVars, At, Goes, Places, Evaluating, Stopping
<1>1. CASE ToggleOn(t)
  BY <1>1, TimersAssumption DEF ToggleOn, PauseUnderWay
<1>2. CASE ToggleOff(t)
  BY <1>2 DEF ToggleOff
<1>3. CASE Trigger(t)
  BY <1>3, TimersAssumption DEF Trigger
<1>4. CASE Fire(t)
  BY <1>4 DEF Fire
<1>5. CASE Check(t)
  <2>1. work[t] \in Task
    OBVIOUS
  <2> DEFINE w == [work[t] EXCEPT !.reschedules = TRUE]
  <2>2. work' \in [Threads -> Task] /\ \A u \in Threads : work'[u].finding = work[u].finding
    <3>1. w \in Task /\ w.finding = work[t].finding
      BY <2>1 DEF Task
    <3>2. work' = [work EXCEPT ![t] = w] \/ work' = work
      BY <1>5 DEF Check
    <3>3. QED
      BY <2>1, <3>1, <3>2
  <2>3. pc' = [pc EXCEPT ![t] = "lock"] \/ pc' = [pc EXCEPT ![t] = "idle"]
    BY <1>5 DEF Check
  <2>4. UNCHANGED <<isRunning, keeperTimer, starts, overtaken, cycleLock, measured, pending, record>>
        /\ pc[t] = "check"
    BY <1>5 DEF Check
  <2>5. QED
    BY <2>2, <2>3, <2>4
<1>6. CASE Assign(t)
  <2>1. FreeTimer \in Timers /\ At(FreeTimer, "idle")
    BY <1>6 DEF Assign, FreeTimer
  <2>2. QED
    BY <1>6, <2>1 DEF Assign, WithoutKeeperTimer, Forgotten, Threads
<1>7. CASE Start(t)
  BY <1>7 DEF Start
<1>8. CASE Stop(t)
  BY <1>8 DEF Stop, WithoutTimer
<1>9. CASE Cancel(t)
  BY <1>9 DEF Cancel, Cancelled
<1>10. CASE Clear(t)
  BY <1>10 DEF Clear, WithoutKeeperTimer, Forgotten
<1>11. QED
  BY <1>1, <1>2, <1>3, <1>4, <1>5, <1>6, <1>7, <1>8, <1>9, <1>10 DEF SchedulerStep

-----------------------------------------------------------------------------
(* One entry more, nothing at hand. *)
LEMMA LogsKeepTypes ==
  ASSUME KeeperTypeOK, NEW t \in Threads, NEW status \in Entry, Logs(t, status)
  PROVE  work' \in [Threads -> Task] /\ \A u \in Threads \ {t} : work'[u] = work[u]
<1> DEFINE w == [work[t] EXCEPT !.log = Append(@, status), !.finding = Nobody]
<1>1. work \in [Threads -> Task] /\ work[t] \in Task
  BY DEF KeeperTypeOK
<1>2. Append(work[t].log, status) \in Seq(Entry)
  BY <1>1 DEF Task
<1>3. w \in Task
  BY <1>1, <1>2 DEF Task
<1>4. work' = [work EXCEPT ![t] = w]
  BY <1>1 DEF Logs, Task
<1>5. QED
  BY <1>1, <1>3, <1>4

(* A thread leaves an analysis behind, the lock is as it was. *)
LEMMA MovingOnIsCalm ==
  ASSUME KeeperTypeOK, NEW t \in Threads, pc[t] \in Evaluating,
         pc' = [pc EXCEPT ![t] = "measure"],
         work' \in [Threads -> Task], \A u \in Threads \ {t} : work'[u] = work[u],
         UNCHANGED <<schedulerVars, cycleLock, measured, chainVars>>
  PROVE  Calm
  BY DEF KeeperTypeOK, Calm, schedulerVars, chainVars, Evaluating, Places

LEMMA BeginIsCalm ==
  ASSUME KeeperTypeOK, NEW t \in Threads, BeginCycle(t)
  PROVE  Calm
<1> USE DEF KeeperTypeOK
<1>1. PICK c \in BOOLEAN : work' = [work EXCEPT ![t].connected = c]
  BY DEF BeginCycle
<1> DEFINE w == [work[t] EXCEPT !.connected = c]
<1>2. w \in Task
  <2>1. work[t] \in Task
    OBVIOUS
  <2>2. QED
    BY <2>1 DEF Task
<1>3. work' = [work EXCEPT ![t] = w]
  BY <1>1
<1>4. work' \in [Threads -> Task] /\ \A u \in Threads \ {t} : work'[u] = work[u]
  BY <1>2, <1>3
<1>5. /\ cycleLock = Nobody /\ cycleLock' = t
      /\ pc' = [pc EXCEPT ![t] = "measure"]
      /\ UNCHANGED <<isRunning, keeperTimer, starts, overtaken, measured, pending, record>>
  BY DEF BeginCycle, LockFree, Goes, schedulerVars, chainVars
<1>6. \A u \in Threads : pc'[u] \in Evaluating <=> cycleLock' = u
  BY <1>5, NobodyAssumption DEF Evaluating
<1>7. QED
  BY <1>4, <1>5, <1>6 DEF Calm, Places, Evaluating

LEMMA EndIsCalm ==
  ASSUME KeeperTypeOK, NEW t \in Threads, EndCycle(t)
  PROVE  Calm
<1> USE DEF KeeperTypeOK
<1>1. work' \in [Threads -> Task] /\ \A u \in Threads \ {t} : work'[u] = work[u]
  <2>1. Idle \in Task
    BY DEF Idle, Task
  <2>2. QED
    BY <2>1 DEF EndCycle
<1>2. /\ pc[t] = "measure" /\ cycleLock' = Nobody
      /\ pc' = [pc EXCEPT ![t] = "assign"] \/ pc' = [pc EXCEPT ![t] = "idle"]
      /\ UNCHANGED <<isRunning, keeperTimer, starts, overtaken, measured, pending, record>>
  BY DEF EndCycle, At, Goes, AfterCycle, schedulerVars, chainVars
<1>3. cycleLock = t
  BY <1>2 DEF Evaluating
<1>4. \A u \in Threads : pc'[u] \in Evaluating <=> cycleLock' = u
  BY <1>2, <1>3, NobodyAssumption DEF Evaluating
<1>5. QED
  BY <1>1, <1>2, <1>4 DEF Calm, Places, Evaluating

(* An analysis that is not sent. *)
LEMMA LeavingIsCalm ==
  ASSUME KeeperTypeOK, NEW t \in Threads, MeasureFails(t) \/ Decide(t) \/ SendFails(t)
  PROVE  Calm
<1>1. CASE MeasureFails(t)
  <2>1. work' \in [Threads -> Task] /\ \A u \in Threads \ {t} : work'[u] = work[u]
    BY <1>1, LogsKeepTypes DEF MeasureFails, Entry
  <2>2. pc' = [pc EXCEPT ![t] = "measure"] /\ pc[t] \in Evaluating
    BY <1>1 DEF MeasureFails, At, Evaluating, KeeperTypeOK
  <2>3. QED
    BY <1>1, <2>1, <2>2, MovingOnIsCalm DEF MeasureFails
<1>2. CASE SendFails(t)
  <2>1. work' \in [Threads -> Task] /\ \A u \in Threads \ {t} : work'[u] = work[u]
    BY <1>2, LogsKeepTypes DEF SendFails, Entry
  <2>2. pc' = [pc EXCEPT ![t] = "measure"] /\ pc[t] \in Evaluating
    BY <1>2 DEF SendFails, At, Goes, Evaluating
  <2>3. QED
    BY <1>2, <2>1, <2>2, MovingOnIsCalm DEF SendFails
<1>3. CASE Decide(t)
  <2>1. pc[t] = "decide" /\ UNCHANGED <<schedulerVars, cycleLock, measured, chainVars>>
    BY <1>3 DEF Decide, At
  <2>2. CASE Goes(t, "send") /\ UNCHANGED work
    BY <2>1, <2>2 DEF Goes, KeeperTypeOK, Calm, Evaluating, Places, schedulerVars, chainVars
  <2>3. CASE Goes(t, "measure") /\ Logs(t, "MONITORED_OK")
    <3>1. work' \in [Threads -> Task] /\ \A u \in Threads \ {t} : work'[u] = work[u]
      BY <2>3, LogsKeepTypes DEF Entry
    <3>2. QED
      BY <2>1, <2>3, <3>1, MovingOnIsCalm DEF Goes, Evaluating
  <2>4. CASE Goes(t, "measure") /\ Logs(t, "EVALUATED_READY")
    <3>1. work' \in [Threads -> Task] /\ \A u \in Threads \ {t} : work'[u] = work[u]
      BY <2>4, LogsKeepTypes DEF Entry
    <3>2. QED
      BY <2>1, <2>4, <3>1, MovingOnIsCalm DEF Goes, Evaluating
  <2>5. QED
    BY <1>3, <2>2, <2>3, <2>4 DEF Decide
<1>4. QED
  BY <1>1, <1>2, <1>3

-----------------------------------------------------------------------------
(* The new analysis is later than all there were of its asset, and no other
   thread has one at hand. *)
LEMMA MeasureKeepsInv ==
  ASSUME KeeperInv, NEW t \in Threads, Measure(t)
  PROVE  KeeperInv' /\ NoReportIsOlder
<1> DEFINE a == Monitored[Turn(t)]
<1> USE DEF KeeperInv
<1>1. PICK score \in Scores :
        /\ measured[a] < MaxMeasured
        /\ measured' = [measured EXCEPT ![a] = @ + 1]
        /\ work' = [work EXCEPT ![t].finding =
                      [asset |-> a, score |-> score, version |-> measured[a] + 1]]
  BY DEF Measure
<1> DEFINE f == [asset |-> a, score |-> score, version |-> measured[a] + 1]
           w == [work[t] EXCEPT !.finding = f]
<1>2. /\ pc[t] = "measure" /\ pc' = [pc EXCEPT ![t] = "decide"]
      /\ UNCHANGED <<isRunning, keeperTimer, starts, overtaken, cycleLock, pending, record>>
  BY DEF Measure, At, Goes, schedulerVars, chainVars
<1>3. a \in Assets
  <2>1. Turn(t) \in 1..Len(Monitored)
    <3>1. Len(work[t].log) \in Nat
      BY DEF KeeperTypeOK, Task
    <3>2. QED
      BY <3>1, MonitoredAssumption DEF Measure, Remaining, Turn
  <2>2. QED
    BY <2>1, MonitoredAssumption DEF Assets
<1>4. measured[a] \in Nat /\ f \in Finding /\ measured' \in [Assets -> 0..MaxMeasured]
  BY <1>1, <1>3, ScoresAssumption DEF KeeperTypeOK, Finding
<1>5. w \in Task /\ w.finding = f
  <2>1. work[t] \in Task
    BY DEF KeeperTypeOK
  <2>2. QED
    BY <1>4, <2>1 DEF Task
<1>6. work' = [work EXCEPT ![t] = w]
  BY <1>1
<1>7. work' \in [Threads -> Task] /\ work'[t].finding = f
  BY <1>5, <1>6 DEF KeeperTypeOK
<1>8. KeeperTypeOK'
  BY <1>2, <1>4, <1>7 DEF KeeperTypeOK, Places, Evaluating
<1>9. RecordsAreMeasured'
  BY <1>1, <1>2, <1>3, <1>4 DEF KeeperTypeOK, InOrder, RecordsAreMeasured, Finding
<1>10. PendingIsLater'
  <2>1. pending # Nobody =>
          pending \in Finding /\ pending.version <= measured[pending.asset]
          /\ Older(record[pending.asset], pending)
    BY DEF KeeperTypeOK, InOrder, PendingIsLater
  <2>2. pending # Nobody => measured[pending.asset] <= measured'[pending.asset]
    BY <1>1, <1>3, <1>4, <2>1 DEF KeeperTypeOK, Finding
  <2>3. pending # Nobody => pending.version <= measured'[pending.asset]
    BY <1>4, <2>1, <2>2 DEF Finding, KeeperTypeOK
  <2>4. QED
    BY <1>2, <2>1, <2>3 DEF PendingIsLater, Older
<1>11. FindingIsLatest'
  <2>1. \A u \in Threads : pc'[u] \in {"decide", "send"} => u = t
    BY <1>2 DEF KeeperTypeOK, Evaluating
  <2>2. f.version = measured'[a] /\ f.asset = a
    BY <1>1, <1>3 DEF KeeperTypeOK
  <2>3. Older(record[a], f)
    BY <1>3, <1>4 DEF KeeperTypeOK, InOrder, RecordsAreMeasured, Older, Finding
  <2>4. Older(pending, f)
    BY <1>3, <1>4 DEF KeeperTypeOK, InOrder, PendingIsLater, Older, Finding
  <2>5. QED
    BY <1>2, <1>4, <1>7, <2>1, <2>2, <2>3, <2>4 DEF FindingIsLatest, Older
<1>12. QED
  BY <1>2, <1>8, <1>9, <1>10, <1>11 DEF InOrder, NoReportIsOlder

(* What is sent is the latest analysis of its asset. *)
LEMMA SendKeepsInv ==
  ASSUME KeeperInv, NEW t \in Threads, Send(t)
  PROVE  KeeperInv' /\ NoReportIsOlder
<1> USE DEF KeeperInv
<1>1. /\ pc[t] = "send" /\ pc' = [pc EXCEPT ![t] = "measure"]
      /\ pending' = work[t].finding
      /\ UNCHANGED <<isRunning, keeperTimer, starts, overtaken, cycleLock, measured, record>>
  BY DEF Send, At, Goes, schedulerVars
<1>2. work' \in [Threads -> Task]
  BY LogsKeepTypes DEF Send, Entry
<1>3. pending' \in Finding /\ pending'.version = measured[pending'.asset]
      /\ Older(record[pending'.asset], pending')
  BY <1>1 DEF InOrder, FindingIsLatest
<1>4. KeeperTypeOK'
  BY <1>1, <1>2, <1>3 DEF KeeperTypeOK, Places, Evaluating
<1>5. RecordsAreMeasured'
  BY <1>1 DEF InOrder, RecordsAreMeasured
<1>6. PendingIsLater'
  BY <1>1, <1>3 DEF PendingIsLater, Older, Finding
<1>7. FindingIsLatest'
  BY <1>1 DEF KeeperTypeOK, FindingIsLatest, Evaluating
<1>8. QED
  BY <1>1, <1>4, <1>5, <1>6, <1>7 DEF InOrder, NoReportIsOlder

LEMMA MineKeepsInv ==
  ASSUME KeeperInv, Mine
  PROVE  KeeperInv' /\ NoReportIsOlder
<1> USE DEF KeeperInv
<1>1. /\ pending \in Finding /\ pending.asset \in Assets /\ pending' = Nobody
      /\ pending.version <= measured[pending.asset]
      /\ Older(record[pending.asset], pending)
      /\ record' = [record EXCEPT ![pending.asset] = pending] \/ record' = record
      /\ UNCHANGED <<isRunning, keeperTimer, starts, overtaken, cycleLock, pc, work, measured>>
  BY DEF Mine, KeeperTypeOK, InOrder, PendingIsLater, Finding, schedulerVars
<1>2. KeeperTypeOK'
  BY <1>1 DEF KeeperTypeOK
<1>3. RecordsAreMeasured'
  BY <1>1 DEF KeeperTypeOK, InOrder, RecordsAreMeasured
<1>4. PendingIsLater'
  BY <1>1 DEF PendingIsLater
<1>5. FindingIsLatest'
  BY <1>1 DEF KeeperTypeOK, InOrder, FindingIsLatest, Older, Finding
<1>6. NoReportIsOlder
  <2>1. record[pending.asset] # Nobody => record[pending.asset].asset = pending.asset
    BY <1>1 DEF InOrder, RecordsAreMeasured
  <2>2. \A a \in Assets : record'[a] = record[a] \/ (a = pending.asset /\ record'[a] = pending)
    BY <1>1 DEF KeeperTypeOK
  <2>3. record[pending.asset] # Nobody => record[pending.asset].version < pending.version
    BY <1>1, <2>1 DEF Older
  <2>4. QED
    BY <2>2, <2>3, <1>1 DEF NoReportIsOlder, Finding, KeeperTypeOK
<1>7. QED
  BY <1>2, <1>3, <1>4, <1>5, <1>6 DEF InOrder

LEMMA KeeperNextInv ==
  ASSUME KeeperInv, [Next]_vars
  PROVE  KeeperInv' /\ NoReportIsOlder
<1>1. CASE \E t \in Threads : ToggleOn(t) \/ ToggleOff(t) \/ Trigger(t) \/ Fire(t)
                              \/ SchedulerStep(t)
  BY <1>1, SchedulerIsQuiet, QuietIsCalm, CalmKeepsInv DEF KeeperInv
<1>2. CASE \E t \in Threads : BeginCycle(t)
  BY <1>2, BeginIsCalm, CalmKeepsInv DEF KeeperInv
<1>3. CASE \E t \in Threads : MeasureFails(t) \/ Decide(t) \/ SendFails(t)
  BY <1>3, LeavingIsCalm, CalmKeepsInv DEF KeeperInv
<1>4. CASE \E t \in Threads : EndCycle(t)
  BY <1>4, EndIsCalm, CalmKeepsInv DEF KeeperInv
<1>5. CASE \E t \in Threads : Measure(t)
  BY <1>5, MeasureKeepsInv
<1>6. CASE \E t \in Threads : Send(t)
  BY <1>6, SendKeepsInv
<1>7. CASE Mine
  BY <1>7, MineKeepsInv
<1>8. CASE UNCHANGED vars
  <2>1. Calm
    BY <1>8 DEF vars, schedulerVars, chainVars, KeeperInv, KeeperTypeOK, Calm
  <2>2. QED
    BY <2>1, CalmKeepsInv
<1>9. QED
  BY <1>1, <1>2, <1>3, <1>4, <1>5, <1>6, <1>7, <1>8 DEF Next, CycleStep, Threads, Callers

LEMMA KeeperAlwaysInv == Spec => []KeeperInv
<1>1. KeeperInv /\ [Next]_vars => KeeperInv'
  BY KeeperNextInv
<1>2. QED
  BY <1>1, KeeperInitInv, PTL DEF Spec

(* Types, and that a thread evaluates assets only while it holds the lock, for
   any number of threads and timers. *)
THEOREM CyclesAreExclusive == Spec => []KeeperTypeOK
<1>1. KeeperInv => KeeperTypeOK
  BY DEF KeeperInv
<1>2. QED
  BY <1>1, KeeperAlwaysInv, PTL

(* The keeper never replaces a report by an older one, for any number of
   callers, timers and assets. *)
THEOREM NewerReportsStay == Spec => NewerIsNotReplaced
<1>1. KeeperInv /\ [Next]_vars => [NoReportIsOlder]_vars
  BY KeeperNextInv
<1>2. QED
  BY <1>1, KeeperAlwaysInv, PTL DEF Spec, NewerIsNotReplaced

-----------------------------------------------------------------------------
(* The chains of timers.  A thread is ahead of the next timer until it has assigned
   it; then it depends on the timer the global names. *)
Ahead(t) ==
  \/ pc[t] \in {"armed", "check", "assign"}
  \/ pc[t] \in Evaluating \cup {"lock"} /\ work[t].reschedules

LEMMA ChainsAre ==
  /\ Chains = {t \in Threads : Ahead(t) \/ pc[t] = "start"}
  /\ Chains' = {t \in Threads : Ahead(t)' \/ pc'[t] = "start"}
  BY DEF Chains, SchedulerAtWork, At, Ahead

ByTimer == {"start", "created", "cancelled"} \cup Stopping

(* The flag to go on belongs to a cycle; only operators stop the keeper; there are
   finitely many chains. *)
SchedulerInv ==
  /\ \A t \in Threads : work[t].reschedules => pc[t] \in Evaluating \cup {"lock"}
  /\ \A t \in Threads : pc[t] \in Stopping => t \in Operators
  /\ IsFiniteSet(Chains)

(* As long as the last call that resumed the keeper was not overtaken, no pause is
   under way while it is active, so a thread that is about to start a timer finds
   the one assigned last, or another thread is ahead. *)
AheadInv ==
  isRunning /\ ~overtaken =>
    /\ \A t \in Threads : pc[t] \notin Stopping
    /\ \/ \E t \in Threads : Ahead(t)
       \/ /\ \E t \in Threads : pc[t] = "start"
          /\ keeperTimer \in Timers /\ pc[keeperTimer] = "created"

(* A step of one thread that leaves the scheduler's globals alone, and does not
   enter a chain nor, while the keeper is active, leave one. *)
KeepsChain(t) ==
  /\ UNCHANGED <<isRunning, overtaken, keeperTimer>>
  /\ \A u \in Threads \ {t} : pc'[u] = pc[u] /\ work'[u].reschedules = work[u].reschedules
  /\ pc[t] \notin ByTimer /\ pc'[t] \notin ByTimer
  /\ Ahead(t)' => Ahead(t)
  /\ isRunning /\ Ahead(t) => Ahead(t)'
  /\ work'[t].reschedules => pc'[t] \in Evaluating \cup {"lock"}

LEMMA LogsKeepFlag ==
  ASSUME KeeperTypeOK, NEW t \in Threads, NEW status, Logs(t, status)
  PROVE  \A u \in Threads : work'[u].reschedules = work[u].reschedules
<1> DEFINE w == [work[t] EXCEPT !.log = Append(@, status), !.finding = Nobody]
<1>1. work \in [Threads -> Task]
  BY DEF KeeperTypeOK
<1>2. w.reschedules = work[t].reschedules
  BY <1>1 DEF Task
<1>3. work' = [work EXCEPT ![t] = w]
  BY <1>1 DEF Logs
<1>4. QED
  BY <1>1, <1>2, <1>3

LEMMA MovesKeepChain ==
  ASSUME KeeperTypeOK, SchedulerInv, NEW t \in Threads,
         Fire(t) \/ Check(t) \/ BeginCycle(t) \/ CycleStep(t)
  PROVE  KeepsChain(t)
<1>1. /\ pc \in [Threads -> Places] /\ work \in [Threads -> Task]
      /\ work[t].reschedules => pc[t] \in Evaluating \cup {"lock"}
      /\ work[t] \in Task
  BY DEF KeeperTypeOK, SchedulerInv
<1>2. UNCHANGED <<isRunning, overtaken, keeperTimer>>
  BY DEF Fire, Check, BeginCycle, CycleStep, Measure, MeasureFails, Decide, Send, SendFails,
     EndCycle, schedulerVars
<1>3. ASSUME NEW from \in {"measure", "decide", "send", "lock"},
             NEW to \in {"measure", "decide", "send"},
             pc[t] = from, pc' = [pc EXCEPT ![t] = to],
             \A u \in Threads : work'[u].reschedules = work[u].reschedules
      PROVE  KeepsChain(t)
  BY <1>1, <1>2, <1>3 DEF KeepsChain, Ahead, Evaluating, ByTimer, Stopping
<1>4. CASE Fire(t)
  <2>1. pc[t] = "armed" /\ pc' = [pc EXCEPT ![t] = "check"] /\ work' = work
    BY <1>4 DEF Fire, At, Goes
  <2>2. ~work[t].reschedules
    BY <1>1, <2>1 DEF Evaluating, Task
  <2>3. QED
    BY <1>1, <1>2, <2>1, <2>2 DEF KeepsChain, Ahead, Evaluating, ByTimer, Stopping
<1>5. CASE Check(t)
  <2> DEFINE w == [work[t] EXCEPT !.reschedules = TRUE]
  <2>1. pc[t] = "check"
    BY <1>5 DEF Check, At
  <2>2. ~work[t].reschedules
    BY <1>1, <2>1 DEF Evaluating, Task
  <2>3. CASE isRunning
    <3>1. pc' = [pc EXCEPT ![t] = "lock"] /\ work' = [work EXCEPT ![t] = w]
      BY <1>5, <2>3 DEF Check, GoesOn, Goes
    <3>2. w.reschedules = TRUE
      BY <1>1 DEF Task
    <3> HIDE DEF w
    <3>3. QED
      BY <1>1, <1>2, <2>1, <3>1, <3>2 DEF KeepsChain, Ahead, Evaluating, ByTimer, Stopping
  <2>4. CASE ~isRunning
    <3>1. pc' = [pc EXCEPT ![t] = "idle"] /\ work' = work
      BY <1>5, <2>4 DEF Check, GoesOn, Goes
    <3>2. QED
      BY <1>1, <1>2, <2>1, <2>2, <2>4, <3>1 DEF KeepsChain, Ahead, Evaluating, ByTimer, Stopping
  <2>5. QED
    BY <2>3, <2>4
<1>6. CASE BeginCycle(t)
  <2>1. PICK c \in BOOLEAN : work' = [work EXCEPT ![t].connected = c]
    BY <1>6 DEF BeginCycle
  <2> DEFINE w == [work[t] EXCEPT !.connected = c]
  <2>2. w.reschedules = work[t].reschedules
    BY <1>1 DEF Task
  <2>3. work' = [work EXCEPT ![t] = w]
    BY <1>1, <2>1
  <2> HIDE DEF w
  <2>4. \A u \in Threads : work'[u].reschedules = work[u].reschedules
    BY <1>1, <2>2, <2>3
  <2>5. pc[t] = "lock" /\ pc' = [pc EXCEPT ![t] = "measure"]
    BY <1>6 DEF BeginCycle, At, Goes
  <2>6. QED
    BY <1>3, <2>4, <2>5
<1>7. CASE Measure(t)
  <2>1. PICK finding : work' = [work EXCEPT ![t].finding = finding]
    BY <1>7 DEF Measure
  <2> DEFINE w == [work[t] EXCEPT !.finding = finding]
  <2>2. w.reschedules = work[t].reschedules
    BY <1>1 DEF Task
  <2>3. work' = [work EXCEPT ![t] = w]
    BY <1>1, <2>1
  <2> HIDE DEF w
  <2>4. \A u \in Threads : work'[u].reschedules = work[u].reschedules
    BY <1>1, <2>2, <2>3
  <2>5. pc[t] = "measure" /\ pc' = [pc EXCEPT ![t] = "decide"]
    BY <1>7 DEF Measure, At, Goes
  <2>6. QED
    BY <1>3, <2>4, <2>5
<1>8. CASE MeasureFails(t)
  <2>1. pc[t] = "measure" /\ pc' = [pc EXCEPT ![t] = "measure"] /\ Logs(t, "ERROR")
    BY <1>1, <1>8 DEF MeasureFails, At
  <2>2. QED
    BY <1>3, <2>1, LogsKeepFlag
<1>9. CASE Decide(t)
  <2>1. /\ pc[t] = "decide"
        /\ \/ Goes(t, "measure") /\ Logs(t, "MONITORED_OK")
           \/ Goes(t, "send") /\ UNCHANGED work
           \/ Goes(t, "measure") /\ Logs(t, "EVALUATED_READY")
    BY <1>9 DEF Decide, At
  <2>2. \A u \in Threads : work'[u].reschedules = work[u].reschedules
    BY <2>1, LogsKeepFlag
  <2>3. QED
    BY <1>3, <2>1, <2>2 DEF Goes
<1>10. CASE Send(t) \/ SendFails(t)
  <2>1. /\ pc[t] = "send" /\ pc' = [pc EXCEPT ![t] = "measure"]
        /\ Logs(t, "ONCHAIN_UPDATED")
    BY <1>10 DEF Send, SendFails, At, Goes
  <2>2. QED
    BY <1>3, <2>1, LogsKeepFlag
<1>11. CASE EndCycle(t)
  <2>1. /\ pc[t] = "measure" /\ work' = [work EXCEPT ![t] = Idle]
        /\ pc' = [pc EXCEPT ![t] = IF work[t].reschedules THEN "assign" ELSE "idle"]
    BY <1>11 DEF EndCycle, At, Goes, AfterCycle
  <2>2. Idle.reschedules = FALSE
    BY DEF Idle
  <2>3. work[t].reschedules \in BOOLEAN
    BY <1>1 DEF Task
  <2>4. QED
    BY <1>1, <1>2, <2>1, <2>2, <2>3 DEF KeepsChain, Ahead, Evaluating, ByTimer, Stopping
<1>12. QED
  BY <1>4, <1>5, <1>6, <1>7, <1>8, <1>9, <1>10, <1>11 DEF CycleStep

(* The other steps leave the cycles' variables alone.  The one that ends a thread's
   part in a chain may give the chain to the timer it starts. *)
PassesChain(t) ==
  /\ work' = work
  /\ \A u \in Threads : pc'[u] \in Evaluating \cup {"lock"} => pc'[u] = pc[u] \/ ~work[u].reschedules
  /\ \A u \in Threads : pc[u] \in Evaluating \cup {"lock"} => pc'[u] = pc[u]
  /\ \A u \in Threads : pc'[u] \in Stopping => u \in Operators
  /\ \A u \in Threads : Ahead(u)' \/ pc'[u] = "start" =>
       \/ Ahead(u) \/ pc[u] = "start"
       \/ pc[t] = "start" /\ pc'[t] = "idle" /\ u = keeperTimer
       \/ t \in Operators /\ pc[t] = "idle" /\ pc'[t] = "check" /\ u = t

LEMMA SchedulerPassesChain ==
  ASSUME KeeperTypeOK, SchedulerInv, NEW t \in Threads,
         \/ t \in Operators /\ (ToggleOn(t) \/ ToggleOff(t))
         \/ Trigger(t) \/ Assign(t) \/ Start(t) \/ Stop(t) \/ Cancel(t) \/ Clear(t)
  PROVE  PassesChain(t)
<1>1. /\ pc \in [Threads -> Places] /\ work' = work
      /\ \A u \in Threads : work[u].reschedules => pc[u] \in Evaluating \cup {"lock"}
      /\ \A u \in Threads : pc[u] \in Stopping => u \in Operators
  BY DEF KeeperTypeOK, SchedulerInv, ToggleOn, ToggleOff, Trigger, Assign, Start, Stop, Cancel, Clear
<1> USE DEF PassesChain, Ahead, Evaluating, Stopping, At, Goes
<1>2. CASE t \in Operators /\ ToggleOn(t)
  BY <1>1, <1>2 DEF ToggleOn
<1>3. CASE t \in Operators /\ ToggleOff(t)
  BY <1>1, <1>3 DEF ToggleOff
<1>4. CASE Trigger(t)
  BY <1>1, <1>4 DEF Trigger
<1>5. CASE Assign(t)
  <2>1. FreeTimer \in Timers /\ pc[FreeTimer] = "idle"
    BY <1>5 DEF Assign, FreeTimer
  <2>2. QED
    BY <1>1, <1>5, <2>1 DEF Assign, WithoutKeeperTimer, Forgotten, Threads
<1>6. CASE Start(t)
  BY <1>1, <1>6 DEF Start
<1>7. CASE Stop(t)
  BY <1>1, <1>7 DEF Stop, WithoutTimer
<1>8. CASE Cancel(t)
  BY <1>1, <1>8 DEF Cancel, Cancelled
<1>9. CASE Clear(t)
  BY <1>1, <1>9 DEF Clear, WithoutKeeperTimer, Forgotten
<1>10. QED
  BY <1>2, <1>3, <1>4, <1>5, <1>6, <1>7, <1>8, <1>9

(* A step of a thread, of a block, or none. *)
LEMMA KeeperStepIs ==
  ASSUME KeeperTypeOK, SchedulerInv, [Next]_vars
  PROVE  \/ \E t \in Threads : KeepsChain(t) \/ PassesChain(t)
         \/ UNCHANGED <<isRunning, overtaken, keeperTimer, pc, work>>
<1>1. Mine \/ UNCHANGED vars => UNCHANGED <<isRunning, overtaken, keeperTimer, pc, work>>
  BY DEF Mine, vars, schedulerVars
<1>2. QED
  BY <1>1, MovesKeepChain, SchedulerPassesChain DEF Next, SchedulerStep, Threads, Callers

LEMMA ChainsStep ==
  ASSUME KeeperTypeOK, SchedulerInv, [Next]_vars
  PROVE  SchedulerInv' /\ NoChainOfItsOwn
<1> DEFINE InChain(u) == Ahead(u) \/ pc[u] = "start"
<1>1. ASSUME NEW t \in Threads, KeepsChain(t)
      PROVE  SchedulerInv' /\ Chains' \subseteq Chains
  <2>1. \A u \in Threads : Ahead(u)' \/ pc'[u] = "start" => Ahead(u) \/ pc[u] = "start"
    BY <1>1 DEF KeepsChain, Ahead, ByTimer
  <2>2. Chains' \subseteq Chains
    BY <2>1, ChainsAre
  <2>3. IsFiniteSet(Chains')
    BY <2>2, FS_Subset DEF SchedulerInv
  <2>4. QED
    BY <1>1, <2>2, <2>3 DEF SchedulerInv, KeepsChain, ByTimer, Stopping
<1>2. ASSUME NEW t \in Threads, PassesChain(t)
      PROVE  /\ SchedulerInv'
             /\ \/ Chains' \subseteq Chains
                \/ t \in Chains /\ Chains' \subseteq (Chains \ {t}) \cup {keeperTimer}
                \/ t \in Operators /\ At(t, "idle") /\ pc'[t] = "check"
  <2>1. \/ Chains' \subseteq Chains
        \/ t \in Chains /\ t \notin Chains' /\ Chains' \subseteq Chains \cup {keeperTimer}
        \/ t \in Operators /\ At(t, "idle") /\ pc'[t] = "check" /\ Chains' \subseteq Chains \cup {t}
    <3>1. t \notin Chains' \/ pc'[t] # "idle"
      BY ChainsAre DEF Ahead, Evaluating
    <3>2. CASE pc[t] = "start" /\ pc'[t] = "idle"
      BY <1>2, <3>1, <3>2, ChainsAre DEF PassesChain
    <3>3. CASE t \in Operators /\ pc[t] = "idle" /\ pc'[t] = "check"
      BY <1>2, <3>3, ChainsAre DEF PassesChain, At
    <3>4. QED
      BY <1>2, <3>2, <3>3, ChainsAre DEF PassesChain
  <2>2. IsFiniteSet(Chains')
    <3>1. \A u : IsFiniteSet(Chains \cup {u})
      BY FS_AddElement DEF SchedulerInv
    <3>2. IsFiniteSet(Chains)
      BY DEF SchedulerInv
    <3>3. QED
      BY <2>1, <3>1, <3>2, FS_Subset
  <2>3. SchedulerInv'
    BY <1>2, <2>2 DEF SchedulerInv, PassesChain
  <2>4. QED
    BY <2>1, <2>3
<1>3. ASSUME UNCHANGED <<pc, work>>
      PROVE  SchedulerInv' /\ Chains' \subseteq Chains
  <2>1. Chains' = Chains
    BY <1>3, ChainsAre DEF Ahead
  <2>2. QED
    BY <1>3, <2>1 DEF SchedulerInv
<1>4. ASSUME Chains' \subseteq Chains PROVE NoChainOfItsOwn
  <2>1. IsFiniteSet(Chains)
    BY DEF SchedulerInv
  <2>2. Cardinality(Chains') <= Cardinality(Chains)
    BY <1>4, <2>1, FS_Subset
  <2>3. Cardinality(Chains) \in Nat /\ Cardinality(Chains') \in Nat
    BY <1>4, <2>1, FS_Subset, FS_CardinalityType
  <2>4. QED
    BY <2>2, <2>3 DEF NoChainOfItsOwn
<1>5. ASSUME NEW t \in Chains, Chains' \subseteq (Chains \ {t}) \cup {keeperTimer}
      PROVE  NoChainOfItsOwn
  <2> DEFINE without == Chains \ {t}
             with == without \cup {keeperTimer}
  <2>1. IsFiniteSet(Chains)
    BY DEF SchedulerInv
  <2>2. IsFiniteSet(without) /\ Cardinality(without) = Cardinality(Chains) - 1
    BY <2>1, FS_RemoveElement
  <2>3. Cardinality(Chains) \in Nat /\ Cardinality(without) \in Nat
    BY <2>1, <2>2, FS_CardinalityType
  <2> HIDE DEF without
  <2>4. /\ IsFiniteSet(with)
        /\ Cardinality(with) = Cardinality(without) \/ Cardinality(with) = Cardinality(without) + 1
    BY <2>2, FS_AddElement
  <2>5. IsFiniteSet(Chains') /\ Cardinality(Chains') <= Cardinality(with)
    BY <1>5, <2>4, FS_Subset DEF without
  <2>6. Cardinality(Chains') \in Nat
    BY <2>5, FS_CardinalityType
  <2> HIDE DEF with
  <2>7. QED
    BY <2>2, <2>3, <2>4, <2>5, <2>6 DEF NoChainOfItsOwn
<1>6. QED
  BY <1>1, <1>2, <1>3, <1>4, <1>5, KeeperStepIs DEF NoChainOfItsOwn

LEMMA SchedulerInitInv == Init => SchedulerInv
<1> SUFFICES ASSUME Init PROVE SchedulerInv
  OBVIOUS
<1>1. pc = [t \in Threads |-> IF isRunning /\ t = 1 THEN "armed" ELSE "idle"]
  BY DEF Init
<1>2. \A t \in Threads : ~work[t].reschedules
  BY DEF Init, Idle
<1>3. Chains \in SUBSET {1}
  BY <1>1, ChainsAre DEF Ahead, Evaluating
<1>4. IsFiniteSet(Chains)
  BY <1>3, FS_Singleton, FS_Subset
<1>5. QED
  BY <1>1, <1>2, <1>4 DEF SchedulerInv, Stopping

LEMMA SchedulerAlwaysInv == Spec => [](KeeperTypeOK /\ SchedulerInv)
<1>1. KeeperTypeOK /\ SchedulerInv /\ [Next]_vars => SchedulerInv'
  BY ChainsStep
<1>2. QED
  BY <1>1, SchedulerInitInv, CyclesAreExclusive, PTL DEF Spec

(* A chain of timers starts with a toggle only, for any number of callers and
   timers. *)
THEOREM ChainsStartByToggle == Spec => ChainsDoNotMultiply
<1>1. KeeperTypeOK /\ SchedulerInv /\ [Next]_vars => [NoChainOfItsOwn]_vars
  BY ChainsStep
<1>2. QED
  BY <1>1, SchedulerAlwaysInv, PTL DEF Spec, ChainsDoNotMultiply

LEMMA OthersKeepAhead ==
  ASSUME KeeperTypeOK, SchedulerInv, AheadInv, NEW t \in Threads, KeepsChain(t)
  PROVE  AheadInv'
<1>1. keeperTimer \in Timers /\ pc[keeperTimer] = "created" => pc'[keeperTimer] = "created"
  BY DEF KeepsChain, ByTimer, Threads
<1>2. ASSUME isRunning, NEW u \in Threads PROVE Ahead(u) => Ahead(u)'
  <2>1. CASE u = t
    BY <1>2, <2>1 DEF KeepsChain
  <2>2. CASE u # t
    BY <2>2 DEF KeepsChain, Ahead
  <2>3. QED
    BY <2>1, <2>2
<1>3. \A u \in Threads : pc[u] = "start" => pc'[u] = "start"
  BY DEF KeepsChain, ByTimer
<1>4. \A u \in Threads : pc'[u] \in Stopping => pc[u] \in Stopping
  BY DEF KeepsChain, ByTimer
<1>5. UNCHANGED <<isRunning, overtaken, keeperTimer>>
  BY DEF KeepsChain
<1>6. QED
  BY <1>1, <1>2, <1>3, <1>4, <1>5 DEF AheadInv

LEMMA SchedulerKeepsAhead ==
  ASSUME KeeperTypeOK, SchedulerInv, AheadInv, NEW t \in Threads,
         \/ t \in Operators /\ (ToggleOn(t) \/ ToggleOff(t))
         \/ Trigger(t) \/ Assign(t) \/ Start(t) \/ Stop(t) \/ Cancel(t) \/ Clear(t)
  PROVE  AheadInv'
<1>1. /\ pc \in [Threads -> Places] /\ work' = work
      /\ \A u \in Threads : work[u].reschedules => pc[u] \in Evaluating \cup {"lock"}
      /\ \A u \in Threads : pc[u] \in Stopping => u \in Operators
  BY DEF KeeperTypeOK, SchedulerInv, ToggleOn, ToggleOff, Trigger, Assign, Start, Stop, Cancel, Clear
<1>2. \A u \in Timers : u \in Threads /\ u \notin Callers
  BY CallersAssumption DEF Threads
<1>3. CASE t \in Operators /\ ToggleOn(t)
  <2>1. pc[t] = "idle" /\ pc' = [pc EXCEPT ![t] = "check"]
    BY <1>3 DEF ToggleOn, At, Goes
  <2>2. Ahead(t)'
    BY <1>1, <2>1 DEF Ahead
  <2>3. ~overtaken' => \A u \in Threads : pc'[u] \notin Stopping
    BY <1>1, <1>3, <2>1 DEF ToggleOn, PauseUnderWay, Stopping
  <2>4. QED
    BY <2>2, <2>3 DEF AheadInv
<1>4. CASE t \in Operators /\ ToggleOff(t)
  BY <1>4 DEF ToggleOff, AheadInv
<1>5. CASE Trigger(t)
  <2>1. /\ pc[t] = "idle" /\ pc' = [pc EXCEPT ![t] = "lock"]
        /\ UNCHANGED <<isRunning, overtaken, keeperTimer, work>>
    BY <1>5 DEF Trigger, At, Goes
  <2>2. \A u \in Threads : Ahead(u) => Ahead(u)'
    BY <1>1, <2>1 DEF Ahead, Evaluating
  <2>3. \A u \in Threads : /\ pc[u] \in {"start", "created"} => pc'[u] = pc[u]
                           /\ pc'[u] \in Stopping => pc[u] \in Stopping
    BY <1>1, <2>1 DEF Stopping
  <2>4. QED
    BY <1>2, <2>1, <2>2, <2>3 DEF AheadInv
<1>6. CASE Assign(t)
  <2>1. FreeTimer \in Timers /\ pc[FreeTimer] = "idle" /\ pc[t] = "assign"
    BY <1>6 DEF Assign, FreeTimer, At
  <2>2. /\ UNCHANGED <<isRunning, overtaken>> /\ keeperTimer' = FreeTimer
        /\ pc' = [WithoutKeeperTimer EXCEPT ![FreeTimer] = "created", ![t] = "start"]
    BY <1>6 DEF Assign
  <2>3. /\ pc'[FreeTimer] = "created" /\ pc'[t] = "start"
        /\ \A u \in Threads : pc'[u] \in Stopping => pc[u] \in Stopping
    BY <1>1, <1>2, <2>1, <2>2 DEF WithoutKeeperTimer, Forgotten, Stopping
  <2>4. QED
    BY <2>1, <2>2, <2>3 DEF AheadInv
<1>7. CASE Start(t)
  <2>1. /\ pc[t] = "start" /\ UNCHANGED <<isRunning, overtaken, keeperTimer>>
        /\ pc' = [u \in Threads |->
                    IF u = t THEN "idle"
                    ELSE IF u = keeperTimer /\ At(u, "created") THEN "armed"
                    ELSE IF u = keeperTimer /\ At(u, "cancelled") THEN "idle"
                    ELSE pc[u]]
    BY <1>7 DEF Start, At, schedulerVars
  <2>2. \A u \in Threads : Ahead(u) => Ahead(u)'
    BY <1>1, <2>1 DEF Ahead, At, Evaluating
  <2>3. keeperTimer \in Timers /\ pc[keeperTimer] = "created" => Ahead(keeperTimer)'
    BY <1>2, <2>1 DEF Ahead, At
  <2>4. \A u \in Threads : pc'[u] \in Stopping => pc[u] \in Stopping
    BY <2>1 DEF Stopping
  <2>5. QED
    BY <1>2, <2>1, <2>2, <2>3, <2>4 DEF AheadInv
<1>8. CASE Stop(t) \/ Cancel(t) \/ Clear(t)
  <2>1. pc[t] \in Stopping /\ UNCHANGED <<isRunning, overtaken>>
    BY <1>8 DEF Stop, Cancel, Clear, At, Stopping, schedulerVars
  <2>2. ~(isRunning /\ ~overtaken)
    BY <2>1 DEF AheadInv
  <2>3. QED
    BY <2>1, <2>2 DEF AheadInv
<1>9. QED
  BY <1>3, <1>4, <1>5, <1>6, <1>7, <1>8

LEMMA AheadStep ==
  ASSUME KeeperTypeOK, SchedulerInv, AheadInv, [Next]_vars
  PROVE  AheadInv'
<1>1. ASSUME UNCHANGED <<isRunning, overtaken, keeperTimer, pc, work>> PROVE AheadInv'
  BY <1>1 DEF AheadInv, Ahead
<1>2. Mine \/ UNCHANGED vars => UNCHANGED <<isRunning, overtaken, keeperTimer, pc, work>>
  BY DEF Mine, vars, schedulerVars
<1>3. QED
  BY <1>1, <1>2, MovesKeepChain, OthersKeepAhead, SchedulerKeepsAhead
  DEF Next, SchedulerStep, Threads, Callers

LEMMA AheadInitInv == Init => AheadInv
<1> SUFFICES ASSUME Init, isRunning
             PROVE  (\A t \in Threads : pc[t] \notin Stopping) /\ \E t \in Threads : Ahead(t)
  BY DEF AheadInv, Init, Stopping
<1>1. pc = [t \in Threads |-> IF t = 1 THEN "armed" ELSE "idle"]
  BY DEF Init
<1>2. 1 \in Threads
  BY TimersAssumption DEF Timers, Threads
<1>3. QED
  BY <1>1, <1>2 DEF Ahead, Stopping

(* A keeper resumed when no pause was under way is never left without its next
   cycle, however many operators pause and resume it, visitors trigger it and
   threads assign and start timers at the same time. *)
THEOREM ResumedKeeperStaysScheduled == Spec => []ResumedKeeperIsScheduled
<1>1. KeeperTypeOK /\ SchedulerInv /\ AheadInv /\ [Next]_vars => AheadInv'
  BY AheadStep
<1>2. AheadInv => ResumedKeeperIsScheduled
  BY ChainsAre DEF AheadInv, ResumedKeeperIsScheduled
<1>3. QED
  BY <1>1, <1>2, AheadInitInv, SchedulerAlwaysInv, PTL DEF Spec
=============================================================================
