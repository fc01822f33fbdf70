---------------------------- MODULE MonitorProofs ---------------------------
(***************************************************************************)
(* Theorems about Monitor, for every time limit, latency, number of        *)
(* requests and set of outbound fetches.                                   *)
(***************************************************************************)
EXTENDS Monitor, TLAPS

(***************************************************************************)
(* What as_secs() tells of a duration.                                     *)
(***************************************************************************)
LEMMA Rounding ==
  ASSUME NEW d \in Nat, ~ (AsSecs(d) > LimitSecs)
  PROVE  d < Allowance
<1>1. /\ d = Second * (d \div Second) + (d % Second)
      /\ d % Second < Second
      /\ d \div Second \in Int
  BY MonitorAssumption
<1> DEFINE q == d \div Second
<1>2. q <= LimitSecs
  BY <1>1, MonitorAssumption DEF AsSecs
<1>3. d < Second * q + Second
  BY <1>1, MonitorAssumption
<1> HIDE DEF q
<1>4. q \in Int
  BY <1>1 DEF q
<1>5. Second * q <= Second * LimitSecs
  BY <1>2, <1>4, MonitorAssumption
<1>6. (LimitSecs + 1) * Second = Second * LimitSecs + Second
  BY MonitorAssumption
<1> QED
  BY <1>3, <1>4, <1>5, <1>6, MonitorAssumption DEF Allowance

LEMMA AllowanceIsPositive == Allowance \in Nat /\ Allowance > 0
<1>1. Allowance = LimitSecs * Second + Second
  BY MonitorAssumption DEF Allowance
<1>2. LimitSecs * Second \in Nat
  BY MonitorAssumption
<1> QED
  BY <1>1, <1>2, MonitorAssumption

(***************************************************************************)
(* The timer: while a section is timed, time has passed its limit by no    *)
(* more than the monitor is late.                                          *)
(***************************************************************************)
ClockInv ==
  /\ due <= Lag
  /\ mon = "timing" => /\ since <= TaskLimit + due
                       /\ elapsed < Allowance

(***************************************************************************)
(* The ticks of the first section: before it the monitor waits for a tick  *)
(* and has charged nothing; during it, it has the opening tick before it,  *)
(* times it, or is done with it.                                           *)
(***************************************************************************)
FirstSection ==
  /\ js \in {"new", "start"} => /\ tick = 0 /\ elapsed = 0 /\ due = 0
                                /\ terminated = "no"
                                /\ mon = IF js = "new" THEN "none" ELSE "recv"
  /\ js = "eval" =>
       \/ /\ mon = "recv" /\ tick = 1 /\ elapsed = 0
          /\ age <= due
       \/ /\ mon = "timing" /\ tick = 0
          /\ age <= Lag + since
       \/ /\ mon = "over"
          /\ age <= TaskLimit + 2 * Lag + due
       \/ mon \in {"halting", "await", "done"} /\ terminated # "no"

Inv == TypeOK /\ ClockInv /\ BudgetHolds /\ FirstSection

LEMMA InvInit == Init => Inv
BY MonitorAssumption, AllowanceIsPositive
DEF Init, Inv, TypeOK, ClockInv, BudgetHolds, FirstSection

\* The worker ticks, or lets go of the channel; the clocks stand still.
LEMMA WorkerInvStep == Inv /\ WorkerStep => Inv'
<1> SUFFICES ASSUME Inv, WorkerStep PROVE Inv'
  OBVIOUS
<1> USE MonitorAssumption DEF Inv, TypeOK, workerVars, monVars, clockVars
<1>1. CASE StartMonitoring
  <2>1. TypeOK' /\ BudgetHolds'
    BY <1>1 DEF StartMonitoring, BudgetHolds
  <2>2. ClockInv' /\ FirstSection'
    BY <1>1 DEF StartMonitoring, ClockInv, FirstSection
  <2> QED
    BY <2>1, <2>2
<1>2. CASE EvalBegins
  <2>1. TypeOK' /\ BudgetHolds'
    BY <1>2 DEF EvalBegins, Tick, BudgetHolds
  <2>2. ClockInv' /\ FirstSection'
    BY <1>2 DEF EvalBegins, Tick, ClockInv, FirstSection
  <2> QED
    BY <2>1, <2>2
<1>3. ASSUME UNCHANGED <<mon, elapsed, since, due>>, TypeOK', js' \notin {"new", "start", "eval"}
      PROVE  Inv'
  BY <1>3 DEF ClockInv, BudgetHolds, FirstSection
<1>4. ASSUME NEW f \in Fetches, FetchSpawned(f) PROVE Inv'
  <2>1. TypeOK'
    BY <1>4 DEF FetchSpawned
  <2>2. UNCHANGED <<js, tick, mon, elapsed, since, due, age, terminated>>
    BY <1>4 DEF FetchSpawned
  <2> QED
    BY <2>1, <2>2 DEF ClockInv, BudgetHolds, FirstSection
<1>5. CASE CompileFails \/ EvalEnds \/ JsThrows \/ JsTerminated
  <2>1. TypeOK' /\ js' \notin {"new", "start", "eval"}
    BY <1>5 DEF CompileFails, EvalEnds, JsThrows, JsTerminated, Tick
  <2> QED
    BY <1>3, <1>5, <2>1 DEF CompileFails, EvalEnds, JsThrows, JsTerminated
<1>6. CASE HttpBegins \/ FetchReturns \/ ThenRuns \/ CheckpointEnds
  <2>1. TypeOK' /\ js' \notin {"new", "start", "eval"}
    BY <1>6 DEF HttpBegins, FetchReturns, ThenRuns, CheckpointEnds, Tick
  <2> QED
    BY <1>3, <1>6, <2>1 DEF HttpBegins, FetchReturns, ThenRuns, CheckpointEnds
<1>7. ASSUME NEW f \in Fetches, PollBegins(f) PROVE Inv'
  <2>1. TypeOK' /\ js' \notin {"new", "start", "eval"}
    BY <1>7 DEF PollBegins, Tick
  <2> QED
    BY <1>3, <1>7, <2>1 DEF PollBegins
<1>8. CASE FetchSent \/ FetchResolves \/ PollEnds
  <2>1. TypeOK' /\ js' \notin {"new", "start", "eval"}
    BY <1>8 DEF FetchSent, FetchResolves, PollEnds, Tick
  <2> QED
    BY <1>3, <1>8, <2>1 DEF FetchSent, FetchResolves, PollEnds
<1>9. CASE MonitorHaltTaken \/ PodHaltTaken
  <2>1. TypeOK' /\ js' \notin {"new", "start", "eval"}
    BY <1>9 DEF MonitorHaltTaken, PodHaltTaken
  <2> QED
    BY <1>3, <1>9, <2>1 DEF MonitorHaltTaken, PodHaltTaken
<1>10. CASE Closed
  <2>1. TypeOK' /\ js' \notin {"new", "start", "eval"}
    BY <1>10 DEF Closed
  <2> QED
    BY <1>3, <1>10, <2>1 DEF Closed
<1> QED
  BY <1>1, <1>2, <1>4, <1>5, <1>6, <1>7, <1>8, <1>9, <1>10 DEF WorkerStep

LEMMA MonitorInvStep == Inv /\ MonitorStep => Inv'
<1> SUFFICES ASSUME Inv, MonitorStep PROVE Inv'
  OBVIOUS
<1> USE MonitorAssumption, AllowanceIsPositive DEF Inv, TypeOK, workerVars
<1>1. CASE MonitorReceives
  <2>1. TypeOK' /\ BudgetHolds'
    BY <1>1 DEF MonitorReceives, BudgetHolds
  <2>2. ClockInv'
    BY <1>1, Rounding DEF MonitorReceives, ClockInv
  <2>3. elapsed = 0 => ~ (AsSecs(elapsed) > LimitSecs)
    <3>1. 0 \div Second = 0
      OBVIOUS
    <3> QED
      BY <3>1 DEF AsSecs
  <2>4. FirstSection'
    BY <1>1, <2>3 DEF MonitorReceives, FirstSection, ClockInv
  <2> QED
    BY <2>1, <2>2, <2>4
<1>2. CASE MonitorTickedBack
  <2>1. TypeOK' /\ BudgetHolds'
    BY <1>2 DEF MonitorTickedBack, BudgetHolds, ClockInv
  <2>2. ClockInv' /\ FirstSection'
    BY <1>2 DEF MonitorTickedBack, ClockInv, FirstSection, SendersGone
  <2> QED
    BY <2>1, <2>2
<1>3. CASE MonitorTimesOut
  <2>1. TypeOK' /\ BudgetHolds'
    BY <1>3 DEF MonitorTimesOut, BudgetHolds
  <2>2. ClockInv' /\ FirstSection'
    BY <1>3 DEF MonitorTimesOut, ClockInv, FirstSection
  <2> QED
    BY <2>1, <2>2
<1>4. CASE MonitorAbandoned \/ MonitorTerminates \/ MonitorHalts \/ MonitorDone
  <2>1. TypeOK' /\ BudgetHolds'
    BY <1>4 DEF MonitorAbandoned, MonitorTerminates, MonitorHalts, MonitorDone, BudgetHolds
  <2>2. ClockInv'
    BY <1>4 DEF MonitorAbandoned, MonitorTerminates, MonitorHalts, MonitorDone, ClockInv
  <2>3. FirstSection'
    BY <1>4 DEF MonitorAbandoned, MonitorTerminates, MonitorHalts, MonitorDone, FirstSection,
                SendersGone
  <2> QED
    BY <2>1, <2>2, <2>3
<1> QED
  BY <1>1, <1>2, <1>3, <1>4 DEF MonitorStep

LEMMA ClockInvStep == Inv /\ TimePasses => Inv'
<1> SUFFICES ASSUME Inv, TimePasses PROVE Inv'
  OBVIOUS
<1> USE MonitorAssumption DEF Inv, TypeOK, TimePasses, workerVars
<1>1. TypeOK' /\ BudgetHolds'
  BY DEF BudgetHolds, AgeBound
<1>2. ClockInv'
  BY DEF ClockInv, MonitorCanRun
<1>3. FirstSection'
  BY DEF ClockInv, FirstSection, MonitorCanRun, SendersGone
<1> QED
  BY <1>1, <1>2, <1>3

LEMMA Invariance == Spec => []Inv
<1>1. Inv /\ UNCHANGED vars => Inv'
  BY DEF Inv, TypeOK, ClockInv, BudgetHolds, FirstSection, vars, workerVars, monVars, clockVars
<1>2. Inv /\ [Next]_vars => Inv'
  BY <1>1, WorkerInvStep, MonitorInvStep, ClockInvStep DEF Next
<1> QED
  BY <1>2, InvInit, PTL DEF Spec

(***************************************************************************)
(* Every variable keeps its type; in particular no more than one tick is   *)
(* ever in the channel.                                                    *)
(***************************************************************************)
THEOREM Typing == Spec => []TypeOK
<1>1. Inv => TypeOK
  BY DEF Inv
<1> QED
  BY <1>1, Invariance, PTL

(***************************************************************************)
(* The wall time a worker is charged with is bounded.                      *)
(***************************************************************************)
THEOREM Budget == Spec => []BudgetHolds
<1>1. Inv => BudgetHolds
  BY DEF Inv
<1> QED
  BY <1>1, Invariance, PTL

(***************************************************************************)
(* Module evaluation is asked to terminate within its limit and the        *)
(* latencies of three steps of the monitor.                                *)
(***************************************************************************)
THEOREM EvalCutOff == Spec => []EvalStoppedInTime
<1>1. Inv => EvalStoppedInTime
  BY MonitorAssumption DEF Inv, TypeOK, ClockInv, FirstSection, EvalStoppedInTime
<1> QED
  BY <1>1, Invariance, PTL

-----------------------------------------------------------------------------
(***************************************************************************)
(* The end: the worker is out of its loop, so the watcher can always run,  *)
(* and every step it has behind it took a latency at most.  StepsTo(m, t)  *)
(* is the number of steps it can have taken to be at m, with t ticks in    *)
(* the channel, since the worker ended.                                    *)
(***************************************************************************)
StepsTo(m, t) ==
  CASE m = "recv" -> IF t = 1 THEN 0 ELSE 2
    [] m = "timing" -> 1
    [] m = "over" -> 3
    [] m = "halting" -> 4
    [] OTHER -> 5

LastSteps ==
  /\ mon = "none" => js = "new"
  /\ js = "ended" => ~ looping /\ (mon = "done" \/ age <= StepsTo(mon, tick) * Lag + due)

LEMMA Latencies ==
  ASSUME NEW m, NEW t
  PROVE  /\ StepsTo(m, t) * Lag \in Nat /\ StepsTo(m, t) * Lag <= 5 * Lag
         /\ m = "recv" => StepsTo(m, t) * Lag = IF t = 1 THEN 0 ELSE 2 * Lag
         /\ m = "timing" => StepsTo(m, t) * Lag = Lag
         /\ m = "over" => StepsTo(m, t) * Lag = 3 * Lag
         /\ m = "halting" => StepsTo(m, t) * Lag = 4 * Lag
         /\ m = "await" => StepsTo(m, t) * Lag = 5 * Lag
BY MonitorAssumption DEF StepsTo

LEMMA WorkerLastStep == Inv /\ LastSteps /\ WorkerStep => LastSteps'
<1> SUFFICES ASSUME Inv, LastSteps, WorkerStep PROVE LastSteps'
  OBVIOUS
<1> USE DEF workerVars, monVars, clockVars
<1>1. CASE StartMonitoring
  BY <1>1 DEF StartMonitoring, LastSteps
<1>2. CASE Closed
  <2>1. UNCHANGED <<mon, due, looping>> /\ js = "rest" /\ ~ looping /\ age' = 0
    BY <1>2 DEF Closed
  <2>2. due \in Nat /\ StepsTo(mon', tick') * Lag \in Nat
    BY Latencies DEF Inv, TypeOK
  <2> QED
    BY <2>1, <2>2 DEF LastSteps
<1>3. ASSUME js # "new", js' # "ended", mon' = mon PROVE LastSteps'
  BY <1>3 DEF LastSteps
<1>4. CASE CompileFails \/ EvalBegins \/ EvalEnds \/ JsThrows \/ JsTerminated
  BY <1>3, <1>4 DEF CompileFails, EvalBegins, EvalEnds, JsThrows, JsTerminated, RunsJs
<1>5. CASE HttpBegins \/ FetchReturns \/ ThenRuns \/ CheckpointEnds
  BY <1>3, <1>5 DEF HttpBegins, FetchReturns, ThenRuns, CheckpointEnds
<1>6. ASSUME NEW f \in Fetches, FetchSpawned(f) \/ PollBegins(f) PROVE LastSteps'
  BY <1>3, <1>6 DEF FetchSpawned, PollBegins, RunsJs
<1>7. CASE FetchSent \/ FetchResolves \/ PollEnds
  BY <1>3, <1>7 DEF FetchSent, FetchResolves, PollEnds
<1>8. CASE MonitorHaltTaken \/ PodHaltTaken
  BY <1>3, <1>8 DEF MonitorHaltTaken, PodHaltTaken
<1> QED
  BY <1>1, <1>2, <1>4, <1>5, <1>6, <1>7, <1>8 DEF WorkerStep

\* Each step of the watcher has its latency behind it.
LEMMA MonitorLastStep == Inv /\ LastSteps /\ MonitorStep => LastSteps'
<1> SUFFICES ASSUME Inv, LastSteps, MonitorStep PROVE LastSteps'
  OBVIOUS
<1>1. UNCHANGED <<js, looping, age>> /\ mon # "none" /\ mon' # "none" /\ mon # "done" /\ due' = 0
  BY DEF MonitorStep, MonitorReceives, MonitorAbandoned, MonitorTickedBack, MonitorTimesOut,
         MonitorTerminates, MonitorHalts, MonitorDone, workerVars
<1>2. SUFFICES ASSUME js = "ended", mon' # "done" PROVE age <= StepsTo(mon', tick') * Lag
  <2>1. StepsTo(mon', tick') * Lag \in Nat
    BY Latencies
  <2> QED
    BY <1>1, <1>2, <2>1 DEF LastSteps
<1>3. due <= Lag /\ due \in Nat /\ age \in Nat /\ tick \in {0, 1} /\ Lag \in Nat
  BY MonitorAssumption DEF Inv, TypeOK, ClockInv
<1>4. age <= StepsTo(mon, tick) * Lag + due
  BY <1>1, <1>2 DEF LastSteps
<1>5. CASE MonitorReceives
  BY <1>3, <1>4, <1>5, Latencies DEF MonitorReceives
<1>6. CASE MonitorTickedBack
  BY <1>3, <1>4, <1>6, Latencies DEF MonitorTickedBack
<1>7. CASE MonitorAbandoned
  BY <1>3, <1>4, <1>7, Latencies DEF MonitorAbandoned
<1>8. CASE MonitorTimesOut
  BY <1>2, <1>8 DEF MonitorTimesOut, SendersGone
<1>9. CASE MonitorTerminates
  BY <1>3, <1>4, <1>9, Latencies DEF MonitorTerminates
<1>10. CASE MonitorHalts
  BY <1>3, <1>4, <1>10, Latencies DEF MonitorHalts
<1>11. CASE MonitorDone
  BY <1>2, <1>11 DEF MonitorDone
<1> QED
  BY <1>5, <1>6, <1>7, <1>8, <1>9, <1>10, <1>11 DEF MonitorStep

\* The watcher of an ended worker can run, so time goes into its latency.
LEMMA ClockLastStep == Inv /\ LastSteps /\ TimePasses => LastSteps'
<1> SUFFICES ASSUME Inv, LastSteps, TimePasses PROVE LastSteps'
  OBVIOUS
<1>1. UNCHANGED <<js, looping, mon, tick>>
  BY DEF TimePasses, workerVars
<1>2. SUFFICES ASSUME js = "ended", mon # "done"
               PROVE  age' <= StepsTo(mon, tick) * Lag + due'
  BY <1>1 DEF LastSteps
<1>3. MonitorCanRun
  BY <1>2 DEF LastSteps, MonitorCanRun, SendersGone, Inv, TypeOK
<1>4. due' = due + 1 /\ age' <= age + 1 /\ age \in Nat /\ due \in Nat
  BY <1>3, MonitorAssumption DEF TimePasses, AgeBound, Inv, TypeOK
<1>5. age <= StepsTo(mon, tick) * Lag + due /\ StepsTo(mon, tick) * Lag \in Nat
  BY <1>2, Latencies DEF LastSteps
<1>6. age' \in Nat
  BY <1>4 DEF TimePasses, Inv, TypeOK
<1> QED
  BY <1>4, <1>5, <1>6

(***************************************************************************)
(* Whatever the end of a worker finds its watcher at, be it a section that *)
(* is timed or a tick that nobody will answer, the watcher is done six     *)
(* latencies later at most, for every limit and any fetches.               *)
(***************************************************************************)
THEOREM WatcherEnds == Spec => []WatcherEndsInTime
<1>1. Init => LastSteps
  BY DEF Init, LastSteps
<1>2. Inv /\ LastSteps /\ [Next]_vars => LastSteps'
  <2>1. LastSteps /\ UNCHANGED vars => LastSteps'
    BY DEF LastSteps, vars, workerVars, monVars, clockVars
  <2> QED
    BY <2>1, WorkerLastStep, MonitorLastStep, ClockLastStep DEF Next
<1>3. Inv /\ LastSteps => WatcherEndsInTime
  <2> SUFFICES ASSUME Inv, LastSteps, js = "ended", mon # "done" PROVE age <= 6 * Lag
    BY DEF WatcherEndsInTime
  <2>1. /\ age <= StepsTo(mon, tick) * Lag + due
        /\ StepsTo(mon, tick) * Lag \in Nat /\ StepsTo(mon, tick) * Lag <= 5 * Lag
    BY Latencies DEF LastSteps
  <2> QED
    BY <2>1, MonitorAssumption DEF Inv, TypeOK, ClockInv
<1> QED
  BY <1>1, <1>2, <1>3, Invariance, PTL DEF Spec
=============================================================================
