# serverlessd in TLA+

A verification development of [serverlessd](../src), a server that runs JavaScript workers in V8
isolates: one thread per *pod*, several *workers* per pod, one task that owns the pods, HTTP handlers
in front of it, and a monitor that watches how long user code runs.

Paths below are relative to `src/src/`; the modules and TLC configurations lie next to this file.

```
tlc  -workers 2 -config MCServerless.cfg MCServerless     model-check
tlapm ServerlessProofs.tla                                check the proofs
```

## The system

| part | source | state it keeps | operations |
|---|---|---|---|
| HTTP handlers | `runtime/serverless/app.rs`, `handle.rs` | their place between two triggers, the ids they got | GET a worker, POST an upload, POST a removal |
| serverless task | `runtime/serverless/task.rs`, `core.rs` | the pods' handles, the scan for a vacancy | four triggers, ctrl-c, exit of the HTTP server |
| code store | `runtime/serverless/code_store.rs` | files `.serverlessd/workers/<name>.js` | upload, remove, read |
| pod | `runtime/pod/` | `workers`, `vacancies` | check, create, forward, halt |
| worker | `runtime/worker/task.rs`, `state.rs` | isolate, repliers kept for promises, spawned fetches | start, Http, Halt, close |
| monitor | `runtime/worker/monitor.rs` | one watcher per worker: total time, timer | ticks, terminate, Halt |
| fetch intrinsic | `intrinsics/fetch.rs` | a future per call | send, resolve or reject |
| other glue | `intrinsics/`, `language/`, `compile.rs`, `macros.rs` | none of its own | set up an isolate, convert values |
| authentication | `runtime/serverless/app_security.rs` | none | accept or refuse a request |
| command line | `main.rs` | none | `one`, `run`, `clean`, `upload` |

How they interact:

```
 handlers --(512)--> serverless task --(64)--> pod --(64)--> worker --(1, lossy)--> monitor
     ^                    |   ^                 |              |  ^                    |
     |  oneshot           |   |  oneshot        |              |  +---- terminate, Halt+
     +--------------------+   +-----------------+              |
     +-----------------------------------------------------------  oneshot (replier)
```

Numbers are channel capacities.  A GET is two requests in a row: *create a worker* (answered with a
pod and a slot id) and *send Http to it* (answered by the worker, through a replier that travels with
the trigger).

What is hard about it, and where correctness lies:

* **Serverless task.**  It asks a pod for a vacancy, then asks it for a worker; it learns of the pods one
  after the other; while it waits for a pod it serves nobody and does not see ctrl-c.  It is correct if
  no pod outgrows its capacity, no request is refused while there is room, the ids it hands out go on
  naming the right worker, and it neither blocks for ever nor leaves a handler without an answer.
* **Pod.**  Its drain at shutdown waits, slot by slot, on a token that the worker may send, drop, or never
  have received.  It is correct if the drain always ends and leaves nothing queued.
* **Worker.**  It can end in many ways (no monitor, an error, a Halt of two origins, cancellation with its
  thread) with triggers queued for it and repliers in its hands.  Each must be answered or dropped.
* **Monitor.**  Ticks are lossy and carry no direction; the timer races them; termination is a request to
  another thread.  It is correct if user code is stopped in time and only then, the total is bounded,
  and the watcher ends with its worker.
* **Code store.**  Writes are not atomic and three parties write: the task, `upload` and `clean`.

`PROJECT.json` lists the hazards line by line with the properties aimed at each.

## Modules

| module | models | composes |
|---|---|---|
| `PodTable` | `pod/core.rs`: the slot table, as operators on a value | |
| `Pod` | `pod/task.rs`, and the workers as pods and handlers see them | `PodTable` |
| `Serverless` | handlers, serverless task, shutdown; the properties of the whole | `Pod` |
| `Service` | what the control plane promises to a request, without tasks, channels or threads | |
| `ServerlessService` | the mapping under which `Serverless` implements `Service` | both |
| `StartOne` | `start_one` (`main.rs`): the main task as a client of its own runtime | `Serverless` |
| `Worker` | `worker/task.rs`, `worker/state.rs`, futures of `intrinsics/fetch.rs`: one worker from the inside | |
| `WorkerRefinement` | the mapping under which `Worker` implements the worker of `Pod` | both |
| `Monitor` | one worker's stretches of user code and `monitor_worker_task`, with time | |
| `CodeStore` | `serverless/code_store.rs` and the commands `upload` and `clean`: who has which file open | |
| `MCServerless`, `MCStartOne`, `MCWorker`, `MCMonitor`, `MCCodeStore` | small instances | |
| `ServerlessProofs`, `HaltProofs`, `ServiceProofs`, `StartOneProofs` | the proofs about the control plane, each module on top of the one before | |
| `WorkerProofs`, `WorkerRefinementProofs`, `MonitorProofs`, `CodeStoreProofs` | the proofs about the other components | |

The worker appears three times, each time with what the question needs: `Pod` has its channel and the requests
it holds, `Worker` its loop, slots, boxes and fetches, `Monitor` the time its user code takes.  The first two are
tied by a refinement.  Likewise the store is a set of names in `Serverless` (an upload is one step of a task that
does nothing else meanwhile) and a directory of files that others write in `CodeStore`.

A few operators of the modules carry the comment *Fault*: each is a definition with a plausible mistake
in it.  No action uses them; `PROJECT.json` (`mutants`) pairs each with a property that TLC finds violated
once the definition is replaced by it, so that the property is known to depend on that line of code.

### Serverless, Pod, PodTable

| variable | code |
|---|---|
| `op`, `client`, `result`, `route` | a handler: what is asked, where it stands, what it rendered, the pair `create_worker` returned |
| `reply[c]` | the oneshot receiver the handler of `c` waits on: `pending`, or what was sent, or `dropped` |
| `svlQ`, `svl` | the channel of capacity 512; the task's place in `select!`, `find_vancancy`, `create_worker`, `ToPod` or `close_serverless` |
| `stored` | the names with a file in the store |
| `podQ[p]`, `pod[p]`, `table[p]`, `answer` | the pod's channel, place in `pod_task`, slots; the oneshot it answers on |
| `worker[w]`, `wq[w]`, `held[w]` | life of a worker, its channel, the repliers it keeps for a promise |
| `killed[w]` | its monitor gave up and sent its Halt |

Actions carry the names of what they model: `Client*` the handlers with the methods of
`ServerlessHandle` they call, `Svl*` the serverless task, `Pod*` `pod_task`, `Worker*` `create_task`
and `close_state`.  An `.await` that can wait is a boundary between two actions; what lies between two
awaits is one action.  Decisions worth knowing:

* A worker is named after the request it was created for, since every GET creates one.  This is what
  lets `OwnWorkerOnly` compare a slot id with a request.
* A oneshot is modelled at its receiver.  That a sender is dropped is visible as `dropped`.
* `send().await` on a full channel is a guard on the length of the channel.  While a pod waits for room in a
  worker's channel, the trigger stays at the head of `podQ`; in the code it has left the channel.  This
  makes the channel one shorter than it is, never longer.
* `Halt` drains the vector; the model keeps the slots and an index, `pod[p].at`.
* The end of a pod's thread cancels the tasks in its LocalSet.  A worker inside `close_state` is dropped
  with its state and answers its repliers; one that is cancelled in its loop is not, its state being
  referenced from the isolate's data slot (`CancelWorkers`).  `HaltedPodIsQuiet` shows that ctrl-c never
  comes to that; the exit of the HTTP server does.
* `has_vacancies` and `create_worker` of a pod whose channel is closed have an error branch.  Pods end
  only after a Halt or after the serverless task; the branch has no reachable state and no action.
* A failed write of an upload may leave the file or not, as a failed removal does; a file that cannot be read gives no code, as one that is not there.
* `ClientGone`: a handler is dropped at one of its awaits, by hyper when its connection closes (`Leavers` are
  the requests that may go that way), or by `main`, with the runtime, once the serverless task is over
  (`main.rs:160-170`).  What was sent stays sent; replies go to nobody.
* The drop of the runtime cancels the handlers that are left, but waits for the pods' threads, which
  `spawn_blocking` started.  `ProcessOver` is the state in which it has done both.
* After an exit of the HTTP server nobody halts the pods; each is over when it finds its channel closed (`PodTurn`).
* What is in the store at the start is any set of names, valid or not: the command `upload` does not check them.
* `Vec::with_capacity(n)` is taken to reserve exactly `n` slots, as the allocator in use does.
* A module that is still pending when its promise is inspected is undefined behaviour (`promise.rs:20`);
  the two outcomes, going on and failing, are both steps (`WorkerReady`, `WorkerStartFails`).

### Monitor

| variable | code |
|---|---|
| `js`, `looping` | what the worker's task is doing: `eval`, `fetch`, `then`, `resolve` run user code, `poll` polls a fetch future, `rest` awaits; in its loop or in `close_state` |
| `fetch`, `polled`, `owed`, `https` | fetch futures; promises whose `.then()` callback has not run; Http triggers so far |
| `tick` | the channel of capacity 1 |
| `mon`, `elapsed`, `since` | `monitor_worker_task`: place, total, running timer |
| `terminated`, `halt` | `terminate_execution`: asked for, carried out; its Halt |
| `due`, `age` | model time: how long the monitor could run and did not; how long module evaluation has lasted, or how long ago the worker ended |

`TimePasses` advances every clock by one unit at any moment, except that the monitor's thread runs at
most `Lag` units after it can.  User code takes as long as it likes.  A termination request ends the
user code that runs and is then spent, as V8 does; the worker stays responsive to polls of its fetch
futures until `Closed`.  Every tick in the code is a `Tick` of the action that contains it: before and after
evaluation and `fetch.call`, twice around each poll of a future, in the future before its request is sent
and before it settles its promise, and once in the `.then()` callback.  That the Halt of the monitor may find
a full channel is the subject of `Pod` (`MonitorKills`).  Getters of the default export, which run between
the last tick of evaluation and the loop, count as rest.  The `.then()` callback (`ThenRuns`) runs in a checkpoint
at the end of a call or of the settling of a promise; the one at `task.rs:218`, which finds the queue of an Http
trigger empty but for leftovers of an earlier one, is left out, and no property turns on it.

### Worker

| variable | code |
|---|---|
| `pc`, `hand` | the worker's task: where it is in `create_task` and `close_state`, and the trigger it deals with |
| `queue` | the channel of capacity 64 |
| `slots` | `WorkerState::repliers`: which request's box each slot points to |
| `box[c]` | the box made with `into_raw`: full, emptied (`taken`), or full without a callback (`deaf`) |
| `fetches`, `resuming` | `WorkerState::tasks`; the future that is being polled |
| `reply[c]` | the oneshot the handler waits on |

Actions follow the thread: the task gives it up at `rx.recv().await` and in `wait_close`, and only there do fetch
futures run.  User code runs in stretches (a checkpoint, a call, the `.then()`, the settling of a fetch); during one
the callbacks of earlier promises run (`Callback`) and fetches start (`StartsFetch`).  `cleanup_dead_repliers` belongs to
each action that handles a trigger, and again to `AddReplier`, as in the code.  A name in `Fetches` stands for one
fetch at a time and is free again at its end.  `WorkerRefinement` maps the trigger in hand to the head of the channel, since
for a pod it is unanswered all the same, and the boxes that are full to what the worker holds.

### CodeStore

| variable | code |
|---|---|
| `dir`, `file[n]` | `.serverlessd/workers/` and its files: a version, nothing, or *torn* |
| `svl` | the operation of the serverless task; `fd` says whether it has the file alone, shares it, or has one that was unlinked |
| `cli`, `clean` | the commands `upload` and `clean` in their own processes |
| `safe`, `spoilt` | history: acknowledged undisturbed; broken off in the middle of a write |

`tokio::fs::write` is two steps, open with truncation and write, and between them other processes act.  Two
writers of one file may mix their contents; a writer whose file is unlinked writes to nobody.  The
process may crash at any step and starts again with what is on disk.

### StartOne

`main` is the place of `start_one`; its triggers are those of the two requests `Boot` (the upload) and `Main` (the
creation), so that every interleaving with guests, ctrl-c and the exit of the HTTP server is one of `Serverless`.
When `start_one` has returned (`main = "over"`), nobody polls the serverless task and the handlers any more; they take no
step.  The pod's thread is another matter: it goes on, finds its channel closed when the serverless task is dropped with
its handle, and the drop of the runtime waits for it.  `OneOver` is the end of the process.

## Runs

| run | instance | properties | result |
|---|---|---|---|
| `control` | 3 requests, 2 pods of 1 worker, pod channels of 1 | type, placement, ownership, no orphan, no circular wait, truthful answers, quiet halt, nobody left at the exit | hold; about 1 430 000 states up to symmetry |
| `service` | 3 requests, 1 pod of 2 workers | `KeepsPromise`, ownership, quiet halt | hold; about 760 000 states up to symmetry |
| `progress` | 2 requests, one of which may leave, 2 pods of 1 worker, every channel of 1; the only name is one the store refuses | `WorkRunsDown`, and `RequestReachesWorker` and `ShutdownCompletes` under fairness | hold; about 210 000 states |
| `one` | the upload, the creation and 2 guests, one of which may leave | `MainsWorkerIsThere`, `StartsOrEnds` | hold; about 450 000 states |
| `worker` | 4 requests, 1 fetch, a channel of 2 | slots, answers, Halt (as a leads-to and step by step), `IsPodsWorker` | hold; about 120 000 states |
| `watch` | limit 1 s of 2 units, sections of 2, lag 1, 2 fetches, 2 Http | bounds on time, and two leads-to properties | hold; about 1 310 000 states |
| `store` | 3 names (one refused, one written by `upload`), 2 versions, crashes and errors | type, `AcknowledgedIsKept`, `ReadsWhole` | hold; about 140 000 states |
| `room`, `upload_ack`, `endless_fetch`, `resting_kill`, `worker_memory` | small | one statement of the documentation each | violated: see Findings |

What the properties say:

* `PodWithinCapacity`, `RefusedOnlyWhenFull` - the vacancy protocol, check and creation being two triggers.
* `OwnWorkerOnly` - a request is only ever queued at, or held by, the worker made for it.
* `NoEmptySlot` - the drain of Halt never meets the slot it would hang at.
* `NoOrphanedRequest` - whenever a handler waits, somebody still has its replier and can answer, or drops it.
* `HaltedPodIsQuiet` - a pod confirms a Halt only with nothing left queued for it or its workers.
* `NoCircularWait` - while the serverless task is busy, or a handler waits for an answer that is not in the hands of user
  code, one of the tasks has a step to take: handlers, serverless task, pods, workers and full channels never all wait for
  each other.  It is stated with the guards of the steps (`SvlMoves`, `PodMoves`, `WorkerMoves`).
* `WorkRunsDown` - every step, of whatever task, leaves less to do: the backlog of the serverless task, then its own work, that of
  the pods, that of the workers, where a task may add only to those after it.  So no task spins and no two keep
  each other busy; requests that come in during a shutdown add nothing to it.
* `ExitOwesNothing` - when the serverless task returns after ctrl-c, no handler waits, and no worker was cut off before `close_state`.
* `TellsWhatHappened` - a GET is told that no worker was created only if none was, anything else only if one was.
* `KeepsPromise` - the refinement of `Service`: a request gets a slot of its own, runs there and nowhere else, ends
  once, and is refused only when no slot is free.
* `ShutdownCompletes` - ctrl-c is carried out to the end, whatever promises and fetches are left pending, and the process
  ends; it ends after an exit of the HTTP server too, when nobody halts the pods: none keeps its thread, and with it the drop
  of the runtime, for ever.  That everybody is answered by the end of a shutdown is `ExitOwesNothing`; whether a handler still
  gets to pass its answer on is up to the drop of the runtime.
* `RequestReachesWorker` - the replier of an accepted request is used or reaches user code, whoever hangs up; and its
  handler comes to its end, unless the serverless task does first.
* `MainsWorkerIsThere`, `StartsOrEnds` - `start_one` waits for a worker that exists and stays the only one, and does
  not stay half started when guests, failures or ctrl-c come between its steps; and whatever ends the start, the serverless task or
  the HTTP server ends the process, the pod's thread included.
* `OneSlotPerReplier`, `GrowsWhenFullOnly` - the reuse of slots neither loses a replier nor leaks slots.  They are
  properties of the component, whose interface allows any number of Http triggers; the program, as it is, creates a
  worker per GET and sends each worker at most one.
* `ClosedOwesNothing` - a worker that has closed has answered, or dropped, every request it was sent.
* `HaltIsObeyed` - a Halt in the channel ends the loop, whatever comes before it and however busy the thread is;
  `HaltComesNearer` says why: it is never lost nor overtaken, and each turn of the loop brings it one place nearer.
* `IsPodsWorker` - the refinement: every step of `Worker` is a step of the worker of `Pod`, or invisible to it.
* `BudgetHolds` - the total charged stays below the limit rounded up to a second, plus one section and the lag.
* `EvalStoppedInTime`, `EvalIsLeft` - endless module evaluation is cut off, within `TaskLimit + 3 Lag`.
* `WatcherEndsInTime`, `MonitorEnds` - the watcher of a worker that is gone ends, within `6 Lag`.
* `AcknowledgedIsKept` - an upload acknowledged with no other process at the file is on disk, whole, through crashes,
  failed uploads and commands at other files, until its own name is written again.  (A crash in the middle of that later write
  destroys what was acknowledged: `tokio::fs::write` truncates first.)
* `ReadsWhole` - the serverless reads a torn file only after a crash or an error in the middle of a write (which the code
  does not prevent), or while `upload` writes the same name.

**Bounds.**  Two requests are needed for a race, three for a race with a full pod and a refusal.  Two pods
of one worker exercise the scan and its failure, and a shutdown of several pods; one pod of two workers exercises
slot ids above zero and a drain of several slots.  Capacities of one and two make every send block somewhere in the runs;
larger ones only add room.  `control` leaves `WorkRunsDown` to `progress`, where every task already has work to hand on.
`Reqs` is the only bound on the number of requests; `MaxHttp` and `Fetches` bound
the triggers and fetches of one worker in `Monitor`, and `AgeBound` stops that clock
above the largest value a property tells apart.  Two Http triggers, two fetches (one in the two
violation runs) and a limit of a second are enough for every order of opening, closing, lost and lone ticks, of both kinds of
monitored futures, and for the limit to be reached.  In `Worker` four
requests make a gap between live slots, its reuse, and growth after it; a channel of two puts an Http and both Halts
in every order; the one fetch may start again any number of times.  In `CodeStore` names matter only through who may write
them, and there is one of each kind; two versions tell an old content from a new one.  Deadlock is checked in every run: the only states
without another step are those of a process that has ended (`Terminated`, `OneOver`, `Over`).  In `Monitor` time always passes.

**Fairness.**  In `Serverless`, tokio polls every task that can run: each handler that has been accepted, the
serverless task, each pod, each worker.  Once the serverless task is over, a handler is owed nothing but an end: it comes
to its own or is dropped with the runtime, and no property asks for more.  The pods' threads are not dropped, and the
process does not end before they do.  A worker's weak fairness says that its start and its handling of a
trigger end.  For endless user code that is an assumption which `Monitor` discharges for module evaluation
only; a fetch handler that never returns is finding 3, and it can block its pod.  Nothing is assumed of a promise
settling, of `close_state` ending, of the monitor, of new requests, of clients that leave or of ctrl-c.  `StartOne` adds
the main task, assumes nothing of its guests' handlers, and has the serverless task run only until `start_one` returns.  In `Worker` the task goes on
(`WF(TaskStep)`, with the same reservation about user code) and takes a trigger from its channel if it can again and
again (`SF(Receives)`): a LocalSet polls its tasks in the order they were woken, so fetch futures that are ready over and over do
not keep it from its turn.  Nothing is assumed of a fetch becoming ready.  In `Monitor`, both
threads run, time passes, a termination request takes effect, a Halt that was sent is taken when the worker
rests, and nothing is assumed of user code or remote hosts.

## Findings

1. `room` - a slot is never given back: `Pod::remove_worker` has no caller (`pod/core.rs:66`), so after
   `n_pods * n_workers` GETs every request is refused, although the README promises workers that scale by
   themselves and end when done.
2. `upload_ack` - an upload to a closed runtime is answered `ok` (`serverless/handle.rs:46-49`), the case
   `main.rs:226` names as the usual cause of an error.
3. `endless_fetch` - ticks are lossy and the monitor counts parity (`monitor.rs:193,209-225`): after an odd
   number of ticks an endless fetch handler runs without a timer, against the comment at `monitor.rs:179`.
4. `resting_kill` - for the same reason a worker that has finished its work is terminated 100 ms later: the run shows a
   closing tick that is lost, so that the timer runs against a worker that rests.  The lone tick of the `.then()`
   callback (`task.rs:262`) opens such a section too.
5. `worker_memory` - the boxes of repliers are made with `into_raw` and nobody makes them boxes again
   (`worker/task.rs:248`, `state.rs:121,171`), so `close_state` does not release all memory, as `task.rs:295` says.

Smaller things that need no model: the limit logged as 10 s is one of 11 s, `as_secs()` dropping the fraction
(`monitor.rs:210`; `BudgetHolds` is stated for what the code does); the argument `--name` of `upload` is never read (`main.rs:100,199`);
`clean` reports success whatever `remove_dir_all` returned (`main.rs:185`); and `one` refuses every GET, its one slot being
taken by the worker it created itself (a part of `MainsWorkerIsThere`).

## Proofs

tlapm checks the following for all values of the constants allowed by the named assumptions of the modules
(`NWorkersAssumption`, `PodAssumption`, `ServerlessAssumption`, `WorkerAssumption`, `NoTrigger`, `SelfAssumption`, `MonitorAssumption`,
`CodeStoreAssumption`): any set of requests, names and pods, any capacities; any limits, latencies and fetches; any versions and mishaps.  Every invariant below was checked by TLC before it was proved.

* `Typing` (`TypeOK`).  The type of `answer.id` and of `route` depends on what is queued, so `ServerlessProofs` first
  proves what a step of a pod and of a worker does to their types (`PodTypeStep`, `WorkerTypeStep`), then adds handlers and
  serverless task.  `WorkerProofs`, `MonitorProofs` and `CodeStoreProofs` have a `Typing` of their own.
* `Capacity`, `SlotsFilled`, `Refusals`, `OwnWorker`.  None of the four is inductive.  The strengthening
  `Inv` consists of
  - `TablesFilled`: the slots of a pod hold workers, within the capacity, which never grew;
  - `QuestionsInTurn`, `AnswersInTurn`: at most one question, of the serverless task, is on its way to a pod,
    and it is the one the task is waiting for; an answer is there only when no question is, and a *yes* was
    true when given and still is, since only the asker creates;
  - `RoutesPlaced`: a handler's route, once it is *created*, names a slot that holds its worker;
  - `OwnTriggers`: what is queued for a worker is a trigger of its own request;
  - `ScanInOrder`: the pods before `svl.pod` are full while the scan goes on;
  - `RefusedOnlyWhenFull`.

  The argument is that of a request-response discipline: because the serverless task is the only client of a
  pod's questions and asks one at a time, what it was told stays true until it acts.
* `HaltedQuiet`, `NoOrphans` (`HaltProofs`).  Two more layers over `Inv`.
  - `FlowInv` follows a request before it has a worker: it is asked for by one trigger, in the channel or at the task or in a
    pod's channel (`NewInv`, `AskedOnce`, `Unborn`); once placed its worker has begun (`PlacedBegun`); a worker
    that left its loop has no channel (`GoneQueueless`).
  - `HaltInv` follows the shutdown: pods are halted in order (`HaltingPods`), a Halt is the last thing in a pod's channel
    (`HaltComesLast`, since the serverless task that sends it is the only sender left in `halt`), every slot the drain has passed
    holds a worker that left its loop (`Drained`), and no worker is cancelled before the server exits (`NoneCancelled`).

  `HaltedQuiet` follows at once.  For `NoOrphans`, `Expected` says where the replier of each waiting handler is; one lemma for each
  task (handlers, serverless task, pods, workers) shows that a step moves a replier, uses it, or drops it in view of its receiver.
* `SomebodyGoesOn` (`NoCircularWait`, `HaltProofs`).  A chain of waits is followed to its end: the serverless task waits for a
  pod, that pod for a worker, that worker for nobody (`WorkerWithRoomOrMoving`); so whoever is at the end has a step.  What the
  chain needs is `WaitInv`: a question the serverless task waits on is in the channel of the pod or answered (`Asked`), the Halt it waits
  for is in the channel or being carried out (`HaltAsked`), a drain stays within the slots (`DrainEnds`), and the end of the
  serverless task leaves nothing in its channel (`Emptied`).  With it, one lemma for each place of the serverless task and of a pod (`PodTakesNext`, `DrainingMoves`,
  `TriggerGoesOn`, `ShutdownGoesOn`), and one for a waiting handler, whose replier `NotOrphaned` finds
  (`RequestGoesOn`).  That the drain meets no empty slot (`NoEmptySlot`) is used here.
* `WorkEnds` (`WorkRunsDown`, `HaltProofs`).  Each of the four kinds of work is a natural number as long as a drain stays within its slots
  (`DrainsWithin`: a pod that drains creates no worker, whoever sent the Halt) and the slots within the capacity (`TablesFilled`).  One lemma for each kind of task shows that its step lowers its own number (`SvlWorkStep`, `PodWorkStep`,
  `WorkerWorkStep`, `HandlerWorkStep`): a scan lowers it pod by pod, a drain slot by slot, and what a pod passes on to a worker
  has left its own channel.
* `ShutdownAnswers` (`ExitOwesNothing`, `ServiceProofs`).  Every place of `NotOrphaned` is empty by then: the serverless channel (`Emptied`),
  the pods' channels (`HaltedPodIsQuiet`), and the workers', for each worker that began has a slot (`BegunPlaced`) of a pod
  that was joined (`AllJoined`), whose end dropped its state (`ClosedWithPod`).
* `GetsTellTheTruth` (`TellsWhatHappened`, `ServiceProofs`).  `TellsInv` follows a request from being asked for
  (`StillAsked`: until its handler hears, it is in the serverless channel or at the task) over the answer (`NotMade`, `Made`) to what was
  rendered (`Told`).  That nobody makes the worker afterwards needs all the layers below: whoever is asked for has no worker
  yet (`FlowInv`), and an answered request is in nobody's hands (`NowhereElse`, of `ServiceInv`).
* `MainsWorkerStays`, `OneIsSound`, `OneWorkEnds`, `OneKeepsPromise` (`StartOneProofs`).  A step of `StartOne` is one of `Serverless`, or
  `main` takes the ids of its worker, which no handler does (`MainTakes`), or the pod finds, after `start_one` returned, that the
  serverless task is no more (`PodLeft`; `OneSteps`).  So every layer of invariants is shown to survive the first of these, and
  those about the data the second (`Lasting`); the layers about who answers whom hold while the runtime polls
  (`WhilePolled`), since the drop of the runtime answers nobody.  `OneInv` adds one fact: `main` waits for its worker like a
  handler, and once it waits for the runtime, keeps the answer it was given (`Takings`); the rest, that its worker sits in the one
  slot and leaves room for no other, follows from `RoutesPlaced`, `TablesFilled` and `BegunPlaced`.  `OneIsSound` says that
  the control plane keeps its invariants under the command `one`: type, capacity, slots, refusals, ownership and truthful answers
  until the process ends, `NoOrphanedRequest`, `HaltedPodIsQuiet`, `NoCircularWait` and `ExitOwesNothing` until `start_one` returns.
  `OneKeepsPromise` says that it still implements `Service`: for the service, `main`, which never sends its worker a request, is a
  request that ended.  `OneWorkEnds` is `WorkEnds` with `main` as one more handler; both hold to the end of the process.
* `ImplementsService` (`ServiceProofs`).  The stage of a request is read off its reply, its worker and the repliers held, so a step
  has to be shown to use the reply of a request at the right stage, and of no other request.  `ServiceInv` gives this: the
  replier of a request for a worker is in one place (`OnePlace`: the serverless channel, the task, a pod's channel, its worker's
  channel or a promise) and there once (`OneCopy`), with its reply unused; triggers are of the kind of their request
  (`KindsMatch`); and a worker that began has a slot (`BegunPlaced`).  Then one lemma for each task says which action of
  `Service` its steps are: most only end requests, or none (`Reported`, `IsEnding`).  That `Refuse` is allowed is `ScanInOrder`
  of `Inv`; that `Place` finds its slot free is `CreationStep`.
* `RepliersAreKept`, `ClosingAnswers`, `SlotsAreReused` (`WorkerProofs`).  The trigger for a request is in one place, once
  (`InOnePlace`); as long as it is, the request has no box (`NotBoxedYet`), so that the box made in its turn is
  new; every waiting request has its trigger queued, in hand, or its replier in a box (`Owed`); and every box with a replier has one
  slot (`OneSlotPerReplier`), hence `Drop` empties them all (`Ends`).  Two lemmas about slots carry it: cleaning keeps the slots of
  live repliers (`Cleaned`), and `AddReplier` takes none from them (`PutKeeps`).
* `HaltsAreObeyed` (`HaltComesNearer`, `WorkerProofs`).  A send keeps the place of a Halt in the channel (`HaltKeepsPlace`), `rx.recv()` moves
  it up (`HaltMovesUp`), and a turn that ends inside the loop was not that of a Halt (`TurnGoesOn`, from `Ends`).
* `ImplementsPodsWorker` (`WorkerRefinementProofs`).  One lemma for each action of `Pod`'s worker says when a step is that
  action in terms of what is seen from the outside (life, channel, held repliers, replies); then one lemma for each step of
  `Worker` meets it.  The mapping alone does not do: that `close_state` answers every held replier is
  `OneSlotPerReplier`, that leaving the loop drops no trigger twice is `InOnePlace`, so the argument rests on `Inv` of
  `WorkerProofs`; and a promise that settles while a fetch resumes needs `Resumes` (the task is then at one of its two awaits).
* `Budget`, `EvalCutOff` (`MonitorProofs`).  The invariant of `MonitorProofs` bounds the timer by the section limit plus
  how long the monitor has been due, bounds the total at the moment a section is admitted, and follows the
  first section: the first tick cannot be lost since nothing was sent before it, so the monitor's place
  determines how old the evaluation can be.  Integer division is handled by one lemma (`Rounding`).
* `WatcherEnds` (`WatcherEndsInTime`).  `LastSteps` counts: a worker that has ended is out of its loop and ticks no more, so the
  watcher can run wherever it is, and has used one latency for each step it took since (`StepsTo`).
* `AcknowledgedStays` (`CodeStoreProofs`).  That a safe file holds what was acknowledged says nothing of who is about to write
  to it.  `SafeAtRest` adds that no writer has it open; `Alone`, that a writer which believes it is alone shares its file
  with nobody, which makes the file safe at the end of its write; and `Opens`, that a file is open from open() to the end of
  the write only, so that a crash at any other point reaches no file.  A file that was unlinked is out of the writer's reach for good.
* `ReadsAreWhole` (`CodeStoreProofs`).  On top of that: a torn file has the name the command `upload` writes, or was spoilt by a
  write that broke off, or is open in the hands of the serverless (`TornIsOpen`), which reads nothing while it writes; and
  the serverless shares a file with `upload` only (`SharedIsCli`).  The lemmas follow what can tear a file (`Tearing`), what mends it
  (`WritesEnd`), and what a step may unlink (`Unlinking`).

Only model-checked: the leads-to properties (the prover has no fairness).  What is proved comes
close to the former.  For the control plane, somebody has a step (`SomebodyGoesOn`) and every step leaves less to do (`WorkEnds`), so a shutdown
reaches its end, and there nobody is owed anything (`ShutdownAnswers`); what the model checker adds is that the somebody is one the
scheduling is fair to.  `HaltComesNearer`, `WatcherEndsInTime` and `EvalStoppedInTime` stand in the same relation to `HaltIsObeyed`, `MonitorEnds` and
`EvalIsLeft`.  Every safety invariant, action property and refinement of the passing runs has a theorem.

## Not modelled

* authentication (`app_security.rs`): a stateless check in front of the handlers;
* V8 itself: values, exceptions, the stack of scopes.  `task.rs:216` awaits inside a scope while other workers of the thread
  open theirs; what V8 makes of that is not in the source;
* the glue that sets up an isolate or converts values (`intrinsics/` without the fetch future, `language/`, `compile.rs`,
  `macros.rs`): it runs within one step of a worker and keeps no state;
* reference counts: which task runs `Drop` for `WorkerState` is modelled, not how the count gets there;
* directories above `.serverlessd/workers/`, power loss (nothing in the code calls `fsync`);
* the start-up of the runtime (`serverless_task` before its loop) and the monitor's own thread, which only passes requests to
  start a watcher on;
* `Pod::remove_worker` and `Serverless::halt_pod`, which nothing calls.

## What is left

The components above are modelled as far as their source goes, and every property of a passing run that the prover can
reach is proved.  What would say more is a prover for fairness and `ENABLED`, and a source for what is external here:
V8's scheduling and the channels.
