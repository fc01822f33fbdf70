--------------------------------- MODULE Pod --------------------------------
(***************************************************************************)
(* The pods: threads that own workers.  A pod runs pod_task (a loop over   *)
(* the triggers the serverless task sends it) and, on the same thread, the *)
(* tasks of its workers.  The steps of a worker are those its neighbours   *)
(* can tell apart: it starts or fails to, takes triggers from its channel, *)
(* answers requests now or later, and leaves its loop.  A worker is named  *)
(* after the request it was created for: the program creates one worker    *)
(* per request.                                                            *)
(*                                                                         *)
(* An oneshot channel is modelled at its receiver: reply[c] says what the  *)
(* handler of request c would find in the oneshot it waits on.             *)
(***************************************************************************)
EXTENDS PodTable

CONSTANTS
  Reqs,       \* requests that reach the HTTP server, each served by one task
  NPods,      \* n_threads
  PodCap,     \* capacity of a pod's channel, 64 in the code
  WorkerCap   \* capacity of a worker's channel, 64 in the code

ASSUME PodAssumption ==
  /\ None \notin Reqs
  /\ NPods \in Nat
  /\ PodCap \in Nat \ {0}
  /\ WorkerCap \in Nat \ {0}

Pods == 0 .. NPods - 1

VARIABLES
  pod,     \* pod[p]: where pod_task of p is, and how far Halt has drained
  podQ,    \* podQ[p]: the channel of pod p
  table,   \* table[p]: the slots of pod p
  answer,  \* the oneshot on which a pod answers the serverless task
  worker,  \* worker[w]: life of the worker created for request w
  wq,      \* wq[w]: the channel of worker w
  held,    \* held[w]: requests whose replier worker w keeps for a promise
  killed,  \* killed[w]: the monitor of w gave up on it
  reply    \* reply[c]: the oneshot the handler of c waits on

podVars == <<pod, podQ, table, answer, worker, wq, held, killed, reply>>

PodTrigger ==
  [type : {"check", "halt"}]
    \cup [type : {"create"}, req : Reqs]
    \cup [type : {"toWorker"}, req : Reqs, id : Nat]

CheckVacancies == [type |-> "check"]
Halt == [type |-> "halt"]
CreateWorkerFor(c) == [type |-> "create", req |-> c]
ToWorker(c, id) == [type |-> "toWorker", req |-> c, id |-> id]

(***************************************************************************)
(* A worker's channel carries the Http trigger of a request and the Halts  *)
(* of its pod and of its monitor.                                          *)
(***************************************************************************)
Http(c) == [type |-> "http", req |-> c]
PodHalt == [type |-> "podHalt"]
MonitorHalt == [type |-> "monitorHalt"]

WorkerTrigger == [type : {"http"}, req : Reqs] \cup {PodHalt, MonitorHalt}

NoAnswer == [tag |-> "none", id |-> 0]

Elems(s) == {s[i] : i \in 1 .. Len(s)}

\* The receiver of w's channel exists: its task has not left create_task.
Listening(w) == w # None /\ worker[w] \in {"starting", "ready"}

WorkersOf(p) == Elems(table[p].workers) \ {None}

Lives == {"none", "starting", "ready", "closing", "closed", "cancelled"}
Replies == {"none", "pending", "created", "noCode", "noVacancy", "stored",
            "storeError", "value", "empty", "dropped"}
PodState == [pc : {"recv", "drain", "drainWait", "exiting", "exited"}, at : Nat]
TableType == [workers : Seq(Reqs \cup {None}), vacancies : Seq(Nat), capacity : Nat]
Answers == [tag : {"none", "yes", "no", "created"}, id : Nat]

PodTypeOK ==
  /\ pod \in [Pods -> PodState]
  /\ podQ \in [Pods -> Seq(PodTrigger)]
  /\ table \in [Pods -> TableType]
  /\ answer \in Answers
  /\ worker \in [Reqs -> Lives]
  /\ wq \in [Reqs -> Seq(WorkerTrigger)]
  /\ held \in [Reqs -> SUBSET Reqs]
  /\ killed \in [Reqs -> BOOLEAN]
  /\ reply \in [Reqs -> Replies]

PodInit ==
  /\ pod = [p \in Pods |-> [pc |-> "recv", at |-> 0]]
  /\ podQ = [p \in Pods |-> <<>>]
  /\ table = [p \in Pods |-> EmptyTable]
  /\ answer = NoAnswer
  /\ worker = [w \in Reqs |-> "none"]
  /\ wq = [w \in Reqs |-> <<>>]
  /\ held = [w \in Reqs |-> {}]
  /\ killed = [w \in Reqs |-> FALSE]
  /\ reply = [c \in Reqs |-> "none"]
-----------------------------------------------------------------------------
(***************************************************************************)
(* pod_task.  Received(p, t): the loop is at rx.recv() and the next        *)
(* trigger has type t.                                                     *)
(***************************************************************************)
Received(p, t) ==
  /\ pod[p].pc = "recv"
  /\ podQ[p] # <<>>
  /\ Head(podQ[p]).type = t

PodCheckVacancies(p) ==
  /\ Received(p, "check")
  /\ podQ' = [podQ EXCEPT ![p] = Tail(@)]
  /\ answer' = [tag |-> IF HasVacancy(table[p]) THEN "yes" ELSE "no", id |-> 0]
  /\ UNCHANGED <<pod, table, worker, wq, held, killed, reply>>

\* No look at the capacity here: the serverless task asked beforehand.
PodCreateWorker(p) ==
  /\ Received(p, "create")
  /\ LET c == Head(podQ[p]).req
     IN  /\ table' = [table EXCEPT ![p] = CreateWorker(@, c)]
         /\ worker' = [worker EXCEPT ![c] = "starting"]
         /\ answer' = [tag |-> "created", id |-> NextWorkerId(table[p])]
  /\ podQ' = [podQ EXCEPT ![p] = Tail(@)]
  /\ UNCHANGED <<pod, wq, held, killed, reply>>

(***************************************************************************)
(* ToWorker: worker.trigger() waits for room in the worker's channel (the  *)
(* trigger stays at the head of podQ meanwhile); without a worker, or with *)
(* one whose receiver is gone, the trigger is dropped and the replier in   *)
(* it.                                                                     *)
(***************************************************************************)
PodForward(p) ==
  /\ Received(p, "toWorker")
  /\ LET m == Head(podQ[p])
         w == GetWorker(table[p], m.id)
     IN  \/ /\ Listening(w)
            /\ Len(wq[w]) < WorkerCap
            /\ wq' = [wq EXCEPT ![w] = Append(@, Http(m.req))]
            /\ UNCHANGED reply
         \/ /\ ~ Listening(w)
            /\ reply' = [reply EXCEPT ![m.req] = "dropped"]
            /\ UNCHANGED wq
  /\ podQ' = [podQ EXCEPT ![p] = Tail(@)]
  /\ UNCHANGED <<pod, table, answer, worker, held, killed>>

\* Fault: the drain loop skips a slot.
PodHaltSkipsSlot(p) ==
  /\ Received(p, "halt")
  /\ podQ' = [podQ EXCEPT ![p] = Tail(@)]
  /\ pod' = [pod EXCEPT ![p] = [pc |-> "drain", at |-> 1]]
  /\ UNCHANGED <<table, answer, worker, wq, held, killed, reply>>

PodHaltReceived(p) ==
  /\ Received(p, "halt")
  /\ podQ' = [podQ EXCEPT ![p] = Tail(@)]
  /\ pod' = [pod EXCEPT ![p] = [pc |-> "drain", at |-> 0]]
  /\ UNCHANGED <<table, answer, worker, wq, held, killed, reply>>

(***************************************************************************)
(* The drain loop of Halt, slot by slot.  The slot's worker gets a Halt if *)
(* it still listens; then recv.await ends once the token is sent or        *)
(* dropped, that is once the Halt has left the worker's channel.  For an   *)
(* empty slot the token stays in the loop's own frame: the wait is for     *)
(* ever.                                                                   *)
(***************************************************************************)
PodDrain(p) ==
  /\ pod[p].pc = "drain"
  /\ pod[p].at < Len(table[p].workers)
  /\ LET w == table[p].workers[pod[p].at + 1]
     IN  IF Listening(w)
         THEN /\ Len(wq[w]) < WorkerCap
              /\ wq' = [wq EXCEPT ![w] = Append(@, PodHalt)]
         ELSE UNCHANGED wq
  /\ pod' = [pod EXCEPT ![p] = [pc |-> "drainWait", at |-> @.at]]
  /\ UNCHANGED <<podQ, table, answer, worker, held, killed, reply>>

\* Faults: the token of a Halt is not awaited; the end of the worker is.
PodDoesNotWait(p) ==
  /\ pod[p].pc = "drainWait"
  /\ pod' = [pod EXCEPT ![p] = [pc |-> "drain", at |-> @.at + 1]]
  /\ UNCHANGED <<podQ, table, answer, worker, wq, held, killed, reply>>

PodWaitsForClose(p) ==
  /\ PodDoesNotWait(p)
  /\ worker[table[p].workers[pod[p].at + 1]] = "closed"

PodDrained(p) ==
  /\ pod[p].pc = "drainWait"
  /\ LET w == table[p].workers[pod[p].at + 1]
     IN  w # None /\ PodHalt \notin Elems(wq[w])
  /\ pod' = [pod EXCEPT ![p] = [pc |-> "drain", at |-> @.at + 1]]
  /\ UNCHANGED <<podQ, table, answer, worker, wq, held, killed, reply>>

\* All slots done: token.send(()) and break.
PodHalted(p) ==
  /\ pod[p].pc = "drain"
  /\ pod[p].at = Len(table[p].workers)
  /\ pod' = [pod EXCEPT ![p] = [pc |-> "exiting", at |-> @.at]]
  /\ UNCHANGED <<podQ, table, answer, worker, wq, held, killed, reply>>

(***************************************************************************)
(* run_until returned: the LocalSet is dropped and with it every task of   *)
(* the thread.  A task inside close_state owns the worker state, whose     *)
(* Drop answers the held repliers.  A task cancelled before that drops its *)
(* channel, but the state stays referenced from the isolate's data slot:   *)
(* nobody runs its Drop, and the repliers it holds are leaked.             *)
(***************************************************************************)
CancelWorkers(p) ==
  LET cancelled == {w \in WorkersOf(p) : Listening(w)}
      closed == {w \in WorkersOf(p) : worker[w] = "closing"}
      queued == {c \in Reqs : \E w \in cancelled : Http(c) \in Elems(wq[w])}
      answered == UNION {held[w] : w \in closed}
  IN  /\ worker' = [w \in Reqs |-> IF w \in cancelled THEN "cancelled"
                                   ELSE IF w \in closed THEN "closed"
                                   ELSE worker[w]]
      /\ wq' = [w \in Reqs |-> IF w \in cancelled THEN <<>> ELSE wq[w]]
      /\ held' = [w \in Reqs |-> IF w \in closed THEN {} ELSE held[w]]
      /\ reply' = [c \in Reqs |-> IF c \in queued THEN "dropped"
                                  ELSE IF c \in answered THEN "empty"
                                  ELSE reply[c]]

PodExit(p) ==
  /\ pod[p].pc = "exiting"
  /\ pod' = [pod EXCEPT ![p] = [pc |-> "exited", at |-> @.at]]
  /\ CancelWorkers(p)
  /\ UNCHANGED <<podQ, table, answer, killed>>

\* Fault: a pod whose channel is closed waits for the tasks of its workers.
PodAwaitsTasks(p) ==
  /\ pod[p].pc = "recv"
  /\ podQ[p] = <<>>
  /\ \A w \in WorkersOf(p) : worker[w] = "closed"
  /\ pod' = [pod EXCEPT ![p] = [pc |-> "exited", at |-> @.at]]
  /\ UNCHANGED <<podQ, table, answer, worker, wq, held, killed, reply>>

\* rx.recv() yields None: every PodHandle is gone and the channel is empty.
PodAbandoned(p) ==
  /\ pod[p].pc = "recv"
  /\ podQ[p] = <<>>
  /\ pod' = [pod EXCEPT ![p] = [pc |-> "exited", at |-> @.at]]
  /\ CancelWorkers(p)
  /\ UNCHANGED <<podQ, table, answer, killed>>
-----------------------------------------------------------------------------
(***************************************************************************)
(* The workers, as their pod sees them: runtime/worker/task.rs.            *)
(***************************************************************************)
WorkerReady(w) ==
  /\ worker[w] = "starting"
  /\ worker' = [worker EXCEPT ![w] = "ready"]
  /\ UNCHANGED <<pod, podQ, table, answer, wq, held, killed, reply>>

(***************************************************************************)
(* create_task returns: the receiver of w goes, and with it what is queued *)
(* behind the trigger in hand; gone is the set of requests whose replier   *)
(* is dropped with it.                                                     *)
(***************************************************************************)
LeaveLoop(w, gone) ==
  /\ worker' = [worker EXCEPT ![w] = "closing"]
  /\ wq' = [wq EXCEPT ![w] = <<>>]
  /\ reply' = [c \in Reqs |-> IF c \in gone THEN "dropped" ELSE reply[c]]
  /\ UNCHANGED <<pod, podQ, table, answer, held, killed>>

QueuedHttp(w) == {c \in Reqs : Http(c) \in Elems(wq[w])}

\* No monitor, or an error while the module is compiled or evaluated.
WorkerStartFails(w) ==
  /\ worker[w] = "starting"
  /\ LeaveLoop(w, QueuedHttp(w))

WorkerReceives(w, t) ==
  /\ worker[w] = "ready"
  /\ wq[w] # <<>>
  /\ Head(wq[w]).type \in t

\* Fault: the trigger is looked at and left in the channel.
WorkerPeeksHttp(w) ==
  /\ WorkerReceives(w, {"http"})
  /\ held' = [held EXCEPT ![w] = @ \cup {Head(wq[w]).req}]
  /\ UNCHANGED <<pod, podQ, table, answer, worker, wq, killed, reply>>

\* fetch() gave a promise: the replier is kept for its .then() callback.
WorkerHoldsHttp(w) ==
  /\ WorkerReceives(w, {"http"})
  /\ held' = [held EXCEPT ![w] = @ \cup {Head(wq[w]).req}]
  /\ wq' = [wq EXCEPT ![w] = Tail(@)]
  /\ UNCHANGED <<pod, podQ, table, answer, worker, killed, reply>>

\* No fetch function, or its result is no promise: the replier is dropped.
WorkerIgnoresHttp(w) ==
  /\ WorkerReceives(w, {"http"})
  /\ reply' = [reply EXCEPT ![Head(wq[w]).req] = "dropped"]
  /\ wq' = [wq EXCEPT ![w] = Tail(@)]
  /\ UNCHANGED <<pod, podQ, table, answer, worker, held, killed>>

\* fetch() threw or was terminated: create_task returns WorkerError::Timeout.
WorkerFailsHttp(w) ==
  /\ WorkerReceives(w, {"http"})
  /\ LeaveLoop(w, QueuedHttp(w))

(***************************************************************************)
(* The callback for the promise cannot be built: create_task returns, with *)
(* the replier among those the state keeps.                                *)
(***************************************************************************)
WorkerFailsKept(w) ==
  /\ WorkerReceives(w, {"http"})
  /\ LET c == Head(wq[w]).req
     IN  /\ held' = [held EXCEPT ![w] = @ \cup {c}]
         /\ reply' = [d \in Reqs |-> IF d \in QueuedHttp(w) \ {c} THEN "dropped"
                                     ELSE reply[d]]
  /\ worker' = [worker EXCEPT ![w] = "closing"]
  /\ wq' = [wq EXCEPT ![w] = <<>>]
  /\ UNCHANGED <<pod, podQ, table, answer, killed>>

\* The promise of a held request is fulfilled, before or during wait_close().
WorkerReplies(w, c) ==
  /\ worker[w] \in {"ready", "closing"}
  /\ c \in held[w]
  /\ held' = [held EXCEPT ![w] = @ \ {c}]
  /\ reply' = [reply EXCEPT ![c] = "value"]
  /\ UNCHANGED <<pod, podQ, table, answer, worker, wq, killed>>

\* Halt: the token is sent and the loop left.
WorkerHalts(w) ==
  /\ WorkerReceives(w, {"podHalt", "monitorHalt"})
  /\ LeaveLoop(w, QueuedHttp(w))

\* Fault: the worker state has no Drop.
WorkerClosesSilently(w) ==
  /\ worker[w] = "closing"
  /\ worker' = [worker EXCEPT ![w] = "closed"]
  /\ held' = [held EXCEPT ![w] = {}]
  /\ UNCHANGED <<pod, podQ, table, answer, wq, killed, reply>>

\* close_state is over: Drop for WorkerState answers what is still held.
WorkerCloses(w) ==
  /\ worker[w] = "closing"
  /\ worker' = [worker EXCEPT ![w] = "closed"]
  /\ held' = [held EXCEPT ![w] = {}]
  /\ reply' = [c \in Reqs |-> IF c \in held[w] THEN "empty" ELSE reply[c]]
  /\ UNCHANGED <<pod, podQ, table, answer, wq, killed>>

\* monitor_worker_task leaves its loop and sends its Halt, once per worker.
MonitorKills(w) ==
  /\ Listening(w)
  /\ ~ killed[w]
  /\ Len(wq[w]) < WorkerCap
  /\ killed' = [killed EXCEPT ![w] = TRUE]
  /\ wq' = [wq EXCEPT ![w] = Append(@, MonitorHalt)]
  /\ UNCHANGED <<pod, podQ, table, answer, worker, held, reply>>

PodStep(p) ==
  \/ PodCheckVacancies(p)
  \/ PodCreateWorker(p)
  \/ PodForward(p)
  \/ PodHaltReceived(p)
  \/ PodDrain(p)
  \/ PodDrained(p)
  \/ PodHalted(p)
  \/ PodExit(p)

\* What a worker does of itself whenever its thread runs it.
WorkerStep(w) ==
  \/ WorkerReady(w)
  \/ WorkerStartFails(w)
  \/ WorkerHoldsHttp(w)
  \/ WorkerIgnoresHttp(w)
  \/ WorkerFailsHttp(w)
  \/ WorkerFailsKept(w)
  \/ WorkerHalts(w)

\* What depends on user code, on a remote host or on time.
WorkerEvent(w) ==
  \/ \E c \in Reqs : WorkerReplies(w, c)
  \/ WorkerCloses(w)
  \/ MonitorKills(w)
=============================================================================
