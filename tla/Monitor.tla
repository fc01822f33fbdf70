------------------------------- MODULE Monitor ------------------------------
(***************************************************************************)
(* One worker and the task that watches its wall time                      *)
(* (runtime/worker/monitor.rs).  The worker ticks around the stretches in  *)
(* which user code may run; a tick is a try_send on a channel of capacity  *)
(* 1 whose failure is ignored, so a tick sent while one is pending is      *)
(* lost.  monitor_worker_task, on another thread, takes the ticks as       *)
(* alternating begins and ends.                                            *)
(*                                                                         *)
(* Time is counted in units.  It passes at any moment, except that the     *)
(* monitor runs at most Lag units after it can.  User code runs for as     *)
(* long as it likes.                                                       *)
(***************************************************************************)
EXTENDS Integers, FiniteSets

CONSTANTS
  TaskLimit,   \* units a section may take: 100 ms in the code
  Second,      \* units in a second
  LimitSecs,   \* seconds a worker may run in all: 10 in the code
  Lag,         \* scheduling latency of the monitor's thread
  Fetches,     \* outbound fetch() calls the worker makes
  MaxHttp      \* Http triggers the worker receives

ASSUME MonitorAssumption ==
  /\ TaskLimit \in Nat
  /\ Second \in Nat \ {0}
  /\ LimitSecs \in Nat
  /\ Lag \in Nat
  /\ MaxHttp \in Nat
  /\ Fetches # {}

VARIABLES
  js,          \* what the worker's task is doing
  looping,     \* it is in the event loop, as opposed to close_state
  fetch,       \* fetch[f]: the future of an outbound fetch
  polled,      \* the future being polled
  owed,        \* promises returned to Http triggers whose .then() has not run
  https,       \* Http triggers received
  tick,        \* ticks in the channel, 0 or 1
  mon,         \* where monitor_worker_task is
  elapsed,     \* its sum of section times
  since,       \* units since it began to time the current section
  due,         \* units it has been able to run without running
  age,         \* units since module evaluation began, or since the worker ended
  terminated,  \* terminate_execution: not called, asked for, or carried out
  halt         \* its Halt: not sent, in the worker's channel, or taken

workerVars == <<js, looping, fetch, polled, owed, https>>
monVars == <<mon, elapsed, since, terminated, halt>>
clockVars == <<due, age>>
vars == <<workerVars, tick, monVars, clockVars>>

Init ==
  /\ js = "new"
  /\ looping = TRUE
  /\ fetch = [f \in Fetches |-> "none"]
  /\ polled \in Fetches
  /\ owed = 0
  /\ https = 0
  /\ tick = 0
  /\ mon = "none"
  /\ elapsed = 0
  /\ since = 0
  /\ due = 0
  /\ age = 0
  /\ terminated = "no"
  /\ halt = "none"

\* User code is running.
RunsJs == js \in {"eval", "fetch", "then", "resolve"}

\* Every sender of ticks is dropped: the state is, and no future is left.
SendersGone == js = "ended"

\* Fault: the channel of ticks has no bound.
TickQueues == tick' = IF mon = "done" THEN tick ELSE tick + 1

\* Monitoring::tick.
Tick == tick' = IF mon = "done" THEN tick ELSE 1

AsSecs(d) == d \div Second
-----------------------------------------------------------------------------
(***************************************************************************)
(* The worker, runtime/worker/task.rs and intrinsics/fetch.rs.             *)
(***************************************************************************)
\* create_injected: monitor_task spawns the watcher and replies.
StartMonitoring ==
  /\ js = "new"
  /\ js' = "start"
  /\ mon' = "recv"
  /\ UNCHANGED <<looping, fetch, polled, owed, https, tick, elapsed, since,
                 terminated, halt, clockVars>>

\* An error before the first tick: intrinsics, or a module that does not compile.
CompileFails ==
  /\ js = "start"
  /\ js' = "rest"
  /\ looping' = FALSE
  /\ UNCHANGED <<fetch, polled, owed, https, tick, monVars, clockVars>>

\* Fault: module evaluation is not announced.
EvalBeginsUnseen ==
  /\ js = "start"
  /\ js' = "eval"
  /\ age' = 0
  /\ UNCHANGED <<looping, fetch, polled, owed, https, tick, monVars, due>>

EvalBegins ==
  /\ js = "start"
  /\ js' = "eval"
  /\ Tick
  /\ age' = 0
  /\ UNCHANGED <<looping, fetch, polled, owed, https, monVars, due>>

\* With a default export, the worker goes on to wait for events.
EvalEnds ==
  /\ js = "eval"
  /\ js' = "rest"
  /\ Tick
  /\ looping' \in BOOLEAN
  /\ UNCHANGED <<fetch, polled, owed, https, monVars, clockVars>>

\* User code throws: no closing tick.
JsThrows ==
  /\ js \in {"eval", "fetch"}
  /\ js' = "rest"
  /\ looping' = FALSE
  /\ UNCHANGED <<fetch, polled, owed, https, tick, monVars, clockVars>>

(***************************************************************************)
(* The request to terminate takes effect: user code is unwound, and the    *)
(* request is spent, so that user code may run again.                      *)
(***************************************************************************)
JsTerminated ==
  /\ RunsJs
  /\ terminated = "asked"
  /\ terminated' = "done"
  /\ js' = IF js = "resolve" THEN "poll" ELSE "rest"
  /\ looping' = (looping /\ js \notin {"eval", "fetch"})
  /\ UNCHANGED <<fetch, polled, owed, https, tick, mon, elapsed, since, halt,
                 clockVars>>

HttpBegins ==
  /\ js = "rest"
  /\ looping
  /\ https < MaxHttp
  /\ js' = "fetch"
  /\ https' = https + 1
  /\ Tick
  /\ UNCHANGED <<looping, fetch, polled, owed, monVars, clockVars>>

\* The result is a promise, or the trigger is done with.
FetchReturns ==
  /\ js = "fetch"
  /\ Tick
  /\ \/ js' = "then" /\ owed' = owed + 1
     \/ js' = "rest" /\ UNCHANGED owed
  /\ UNCHANGED <<looping, fetch, polled, https, monVars, clockVars>>

(***************************************************************************)
(* The callback given to .then() runs: a tick of its own, then the reply.  *)
(* That is when a checkpoint settles the promise, or an earlier one in the *)
(* checkpoint at the end of another call of fetch().                       *)
(***************************************************************************)
ThenRuns ==
  /\ js \in {"fetch", "then", "resolve"}
  /\ owed > 0
  /\ owed' = owed - 1
  /\ Tick
  /\ UNCHANGED <<js, looping, fetch, polled, https, monVars, clockVars>>

\* perform_microtask_checkpoint after .then() is over.
CheckpointEnds ==
  /\ js = "then"
  /\ js' = "rest"
  /\ UNCHANGED <<looping, fetch, polled, owed, https, tick, monVars, clockVars>>

\* User code calls fetch(): the future is spawned on the same thread.
FetchSpawned(f) ==
  /\ RunsJs
  /\ fetch[f] = "none"
  /\ fetch' = [fetch EXCEPT ![f] = "new"]
  /\ UNCHANGED <<js, looping, polled, owed, https, tick, monVars, clockVars>>

\* MonitoredFuture::poll ticks before and after it polls the inner future.
PollBegins(f) ==
  /\ js = "rest"
  /\ fetch[f] \in {"new", "sent"}
  /\ js' = "poll"
  /\ polled' = f
  /\ Tick
  /\ UNCHANGED <<looping, fetch, owed, https, monVars, clockVars>>

FetchSent ==
  /\ js = "poll"
  /\ fetch[polled] = "new"
  /\ fetch' = [fetch EXCEPT ![polled] = "sent"]
  /\ Tick
  /\ UNCHANGED <<js, looping, polled, owed, https, monVars, clockVars>>

\* The answer is there: the promise is settled, and what awaits it runs.
FetchResolves ==
  /\ js = "poll"
  /\ fetch[polled] = "sent"
  /\ js' = "resolve"
  /\ fetch' = [fetch EXCEPT ![polled] = "done"]
  /\ Tick
  /\ UNCHANGED <<looping, polled, owed, https, monVars, clockVars>>

PollEnds ==
  /\ \/ js = "poll" /\ fetch[polled] # "new"
     \/ js = "resolve"
  /\ js' = "rest"
  /\ Tick
  /\ UNCHANGED <<looping, fetch, polled, owed, https, monVars, clockVars>>

\* The worker's loop takes a Halt, of its monitor or of its pod.
MonitorHaltTaken ==
  /\ js = "rest"
  /\ looping
  /\ halt = "sent"
  /\ looping' = FALSE
  /\ halt' = "taken"
  /\ UNCHANGED <<js, fetch, polled, owed, https, tick, mon, elapsed, since,
                 terminated, clockVars>>

PodHaltTaken ==
  /\ js = "rest"
  /\ looping
  /\ looping' = FALSE
  /\ UNCHANGED <<js, fetch, polled, owed, https, tick, monVars, clockVars>>

\* wait_close: all futures are over, the state is dropped and the senders with it.
Closed ==
  /\ js = "rest"
  /\ ~ looping
  /\ \A f \in Fetches : fetch[f] \in {"none", "done"}
  /\ js' = "ended"
  /\ age' = 0
  /\ UNCHANGED <<looping, fetch, polled, owed, https, tick, monVars, due>>
-----------------------------------------------------------------------------
(***************************************************************************)
(* monitor_worker_task.                                                    *)
(***************************************************************************)
\* Fault: the total is never looked at.
MonitorNeverTires ==
  /\ mon = "recv"
  /\ tick = 1
  /\ tick' = 0
  /\ due' = 0
  /\ mon' = "timing"
  /\ since' = 0
  /\ UNCHANGED <<workerVars, elapsed, terminated, halt, age>>

\* The loop's rx.recv() yields a tick: the total is checked, then timing starts.
MonitorReceives ==
  /\ mon = "recv"
  /\ tick = 1
  /\ tick' = 0
  /\ due' = 0
  /\ \/ /\ AsSecs(elapsed) > LimitSecs
        /\ mon' = "over"
        /\ UNCHANGED since
     \/ /\ ~ (AsSecs(elapsed) > LimitSecs)
        /\ mon' = "timing"
        /\ since' = 0
  /\ UNCHANGED <<workerVars, elapsed, terminated, halt, age>>

\* Fault: the closed channel is taken for a tick.
MonitorMissesEnd ==
  /\ mon = "recv"
  /\ tick = 0
  /\ SendersGone
  /\ mon' = "timing"
  /\ since' = 0
  /\ due' = 0
  /\ UNCHANGED <<workerVars, tick, elapsed, terminated, halt, age>>

\* rx.recv() yields None.
MonitorAbandoned ==
  /\ mon = "recv"
  /\ tick = 0
  /\ SendersGone
  /\ mon' = "over"
  /\ due' = 0
  /\ UNCHANGED <<workerVars, tick, elapsed, since, terminated, halt, age>>

\* select! is biased: a pending tick, or a closed channel, wins over the timer.
MonitorTickedBack ==
  /\ mon = "timing"
  /\ tick = 1 \/ SendersGone
  /\ tick' = 0
  /\ elapsed' = elapsed + since
  /\ mon' = "recv"
  /\ due' = 0
  /\ UNCHANGED <<workerVars, since, terminated, halt, age>>

MonitorTimesOut ==
  /\ mon = "timing"
  /\ tick = 0 /\ ~ SendersGone
  /\ since >= TaskLimit
  /\ mon' = "over"
  /\ due' = 0
  /\ UNCHANGED <<workerVars, tick, elapsed, since, terminated, halt, age>>

\* Fault: the monitor relies on its Halt.
MonitorOnlyHalts ==
  /\ mon = "over"
  /\ mon' = "halting"
  /\ due' = 0
  /\ UNCHANGED <<workerVars, tick, elapsed, since, terminated, halt, age>>

MonitorTerminates ==
  /\ mon = "over"
  /\ terminated' = "asked"
  /\ mon' = "halting"
  /\ due' = 0
  /\ UNCHANGED <<workerVars, tick, elapsed, since, halt, age>>

\* send(Halt) fails once the worker has left its loop.
MonitorHalts ==
  /\ mon = "halting"
  /\ halt' = IF looping THEN "sent" ELSE "none"
  /\ mon' = "await"
  /\ due' = 0
  /\ UNCHANGED <<workerVars, tick, elapsed, since, terminated, age>>

\* Fault: a token that is dropped is waited for.
MonitorWantsToken ==
  /\ mon = "await"
  /\ halt = "taken"
  /\ mon' = "done"
  /\ tick' = 0
  /\ due' = 0
  /\ UNCHANGED <<workerVars, elapsed, since, terminated, halt, age>>

\* The token was sent or dropped: the worker has left its loop.
MonitorDone ==
  /\ mon = "await"
  /\ ~ looping
  /\ mon' = "done"
  /\ tick' = 0
  /\ due' = 0
  /\ UNCHANGED <<workerVars, elapsed, since, terminated, halt, age>>

MonitorStep ==
  \/ MonitorReceives
  \/ MonitorAbandoned
  \/ MonitorTickedBack
  \/ MonitorTimesOut
  \/ MonitorTerminates
  \/ MonitorHalts
  \/ MonitorDone

MonitorCanRun ==
  \/ mon = "recv" /\ (tick = 1 \/ SendersGone)
  \/ mon = "timing" /\ (tick = 1 \/ SendersGone \/ since >= TaskLimit)
  \/ mon \in {"over", "halting"}
  \/ mon = "await" /\ ~ looping

\* More than the ages the properties tell apart.
AgeBound == TaskLimit + 6 * Lag + 1

TimePasses ==
  /\ MonitorCanRun => due < Lag
  /\ due' = IF MonitorCanRun THEN due + 1 ELSE 0
  /\ since' = IF mon = "timing" THEN since + 1 ELSE since
  /\ age' = IF js \in {"eval", "ended"} /\ age < AgeBound THEN age + 1 ELSE age
  /\ UNCHANGED <<workerVars, tick, mon, elapsed, terminated, halt>>
-----------------------------------------------------------------------------
WorkerStep ==
  \/ StartMonitoring
  \/ CompileFails
  \/ EvalBegins
  \/ EvalEnds
  \/ JsThrows
  \/ JsTerminated
  \/ HttpBegins
  \/ FetchReturns
  \/ ThenRuns
  \/ CheckpointEnds
  \/ \E f \in Fetches : FetchSpawned(f) \/ PollBegins(f)
  \/ FetchSent
  \/ FetchResolves
  \/ PollEnds
  \/ MonitorHaltTaken
  \/ PodHaltTaken
  \/ Closed

Next == WorkerStep \/ MonitorStep \/ TimePasses

Spec == Init /\ [][Next]_vars
-----------------------------------------------------------------------------
(***************************************************************************)
(* Fairness: both threads run and time passes.  User code that was asked   *)
(* to terminate does; nothing else is assumed of it, nor of remote hosts,  *)
(* requests and the pod.                                                   *)
(***************************************************************************)
Fairness ==
  /\ WF_vars(MonitorStep)
  /\ WF_vars(TimePasses)
  /\ WF_vars(JsTerminated)
  /\ WF_vars(Closed)
  /\ WF_vars(MonitorHaltTaken)
  /\ WF_vars(js = "poll" /\ PollEnds)

FairSpec == Spec /\ Fairness
-----------------------------------------------------------------------------
TypeOK ==
  /\ js \in {"new", "start", "eval", "fetch", "then", "poll", "resolve", "rest", "ended"}
  /\ looping \in BOOLEAN
  /\ fetch \in [Fetches -> {"none", "new", "sent", "done"}]
  /\ polled \in Fetches
  /\ owed \in Nat /\ https \in Nat
  /\ tick \in {0, 1}
  /\ mon \in {"none", "recv", "timing", "over", "halting", "await", "done"}
  /\ elapsed \in Nat /\ since \in Nat /\ due \in Nat /\ age \in Nat
  /\ terminated \in {"no", "asked", "done"}
  /\ halt \in {"none", "sent", "taken"}

\* The limit, rounded up to the next second.
Allowance == (LimitSecs + 1) * Second

(***************************************************************************)
(* The wall time a worker is charged with stays below the limit, rounded   *)
(* up to the next second, plus one section: the check comes before a       *)
(* section and never during one.                                           *)
(***************************************************************************)
BudgetHolds == elapsed < Allowance + TaskLimit + Lag

(***************************************************************************)
(* Module evaluation, the first user code of a worker, is cut off in time: *)
(* its opening tick cannot be lost or taken for a closing one, and each of *)
(* the three steps of the monitor comes at most Lag late.                  *)
(***************************************************************************)
EvalStoppedInTime ==
  js = "eval" /\ terminated = "no" => age <= TaskLimit + 3 * Lag

(***************************************************************************)
(* An endless module evaluation ends: it is terminated.                    *)
(***************************************************************************)
EvalIsLeft == js = "eval" ~> js # "eval"

(***************************************************************************)
(* It takes the watcher of a worker that is gone no more than six steps to *)
(* end, wherever it is: a tick left in the channel, the section it opens,  *)
(* the closed channel, terminate, Halt and the token, none of which it can *)
(* be kept waiting for (monitor.rs:193-239).                               *)
(***************************************************************************)
WatcherEndsInTime == js = "ended" => mon = "done" \/ age <= 6 * Lag

(***************************************************************************)
(* The watcher of a worker that is gone ends too, with its task and its    *)
(* isolate handle, wherever the end of the worker found it.                *)
(***************************************************************************)
MonitorEnds == js = "ended" ~> mon = "done"
-----------------------------------------------------------------------------
(***************************************************************************)
(* What the comment on Monitoring::tick says: work whose tick-back is not  *)
(* received is terminated.  Here for the fetch handler of a worker.        *)
(***************************************************************************)
FetchIsLeft == js = "fetch" ~> js # "fetch"

(***************************************************************************)
(* The same comment: what is terminated is work that has not ticked back,  *)
(* not a worker that has, and waits for events in its loop.                *)
(***************************************************************************)
OnlyWorkTimesOut == [][MonitorTimesOut => ~ (js = "rest" /\ looping)]_vars
=============================================================================
