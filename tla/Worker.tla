------------------------------- MODULE Worker -------------------------------
(***************************************************************************)
(* One worker from the inside: create_task and close_state                 *)
(* (runtime/worker/task.rs) with the state they share with the callbacks   *)
(* of V8 and the fetch futures (state.rs, intrinsics/fetch.rs).            *)
(*                                                                         *)
(* Everything here runs on one thread.  The worker's task gives it up at   *)
(* its awaits only; there the fetch futures run.  User code runs in        *)
(* stretches (a call, a microtask checkpoint, the settling of a fetch),    *)
(* and during a stretch it may fulfil any promise a request waits for and  *)
(* start any fetch.  Pod sees the same worker from the outside             *)
(* (WorkerRefinement).                                                     *)
(***************************************************************************)
EXTENDS Integers, Sequences, FiniteSets

CONSTANTS
  Reqs,      \* requests whose Http trigger may come through the channel
  Fetches,   \* names for outbound fetches; a name is free again at the end
  QueueCap,  \* capacity of the worker's channel, 64 in the code
  None

ASSUME WorkerAssumption ==
  /\ None \notin Reqs \cup Fetches
  /\ IsFiniteSet(Reqs) /\ IsFiniteSet(Fetches)
  /\ QueueCap \in Nat \ {0}

VARIABLES
  pc,        \* where the worker's task is
  hand,      \* the trigger the loop has in hand
  queue,     \* the worker's channel
  box,       \* box[c]: the boxed replier of c, "full" until it is taken;
             \*   "deaf" if it is full and no callback was built for it
  slots,     \* repliers: for each slot the request of the box it points to
  fetches,   \* state.tasks: outbound fetches that have not ended
  resuming,  \* the fetch whose future is being polled, while user code runs
  reply      \* reply[c]: the oneshot the handler of c waits on

vars == <<pc, hand, queue, box, slots, fetches, resuming, reply>>

Http(c) == [type |-> "http", req |-> c]
PodHalt == [type |-> "podHalt"]
MonitorHalt == [type |-> "monitorHalt"]
Halts == {PodHalt, MonitorHalt}
Triggers == {Http(c) : c \in Reqs} \cup Halts

ASSUME NoTrigger == None \notin Triggers

Elems(s) == {s[i] : i \in 1 .. Len(s)}

Init ==
  /\ pc = "starting"
  /\ hand = None
  /\ queue = <<>>
  /\ box = [c \in Reqs |-> "none"]
  /\ slots = <<>>
  /\ fetches = {}
  /\ resuming = None
  /\ reply = [c \in Reqs |-> "none"]
-----------------------------------------------------------------------------
(***************************************************************************)
(* WorkerState.  A slot is dead once its box is empty.                     *)
(***************************************************************************)
Full == {c \in Reqs : box[c] \in {"full", "deaf"}}

CleanedUp(s) == [i \in 1 .. Len(s) |-> IF s[i] \in Full THEN s[i] ELSE None]

FreeSlots(s) == {i \in 1 .. Len(s) : s[i] = None}

\* get_next_replier_idx and add_replier: the first free slot, or a new one.
Put(s, c) ==
  \/ /\ FreeSlots(s) = {}
     /\ slots' = Append(s, c)
  \/ \E i \in FreeSlots(s) :
       /\ \A j \in FreeSlots(s) : i <= j
       /\ slots' = [s EXCEPT ![i] = c]

\* Faults: the slots are not looked at again; the last slot is overwritten.
PutUncleaned(c) == Put(slots, c)
PutOverLast(c) ==
  slots' = IF slots = <<>> THEN <<c>> ELSE [CleanedUp(slots) EXCEPT ![Len(slots)] = c]

AddReplier(c) == Put(CleanedUp(slots), c)

(***************************************************************************)
(* What comes through the channel.  The monitor's thread may send while    *)
(* user code runs; nobody looks at the channel meanwhile, so that is the   *)
(* same as sending it at the next await.                                   *)
(***************************************************************************)
Listening == pc \in {"starting", "waiting"}

Arrives(m) ==
  /\ Listening
  /\ resuming = None
  /\ Len(queue) < QueueCap
  /\ queue' = Append(queue, m)

HttpArrives(c) ==
  /\ reply[c] = "none"
  /\ Arrives(Http(c))
  /\ reply' = [reply EXCEPT ![c] = "pending"]
  /\ UNCHANGED <<pc, hand, box, slots, fetches, resuming>>

\* The pod and the monitor send a Halt each, once.
HaltArrives(m) ==
  /\ m \notin Elems(queue)
  /\ Arrives(m)
  /\ UNCHANGED <<pc, hand, box, slots, fetches, resuming, reply>>
-----------------------------------------------------------------------------
(***************************************************************************)
(* A stretch of user code, and what may happen during one.                 *)
(***************************************************************************)
UserCodeRuns == pc \in {"checkpoint", "call", "then"} \/ resuming # None

\* Fault: the sender stays in its box.
CallbackKeepsSender(c) ==
  /\ UserCodeRuns
  /\ box[c] = "full"
  /\ reply' = [reply EXCEPT ![c] = "value"]
  /\ UNCHANGED <<pc, hand, queue, box, slots, fetches, resuming>>

\* The .then() callback of a promise that is fulfilled.
Callback(c) ==
  /\ UserCodeRuns
  /\ box[c] = "full"
  /\ box' = [box EXCEPT ![c] = "taken"]
  /\ reply' = [reply EXCEPT ![c] = "value"]
  /\ UNCHANGED <<pc, hand, queue, slots, fetches, resuming>>

StartsFetch(f) ==
  /\ UserCodeRuns
  /\ f \notin fetches
  /\ fetches' = fetches \cup {f}
  /\ UNCHANGED <<pc, hand, queue, box, slots, resuming, reply>>
-----------------------------------------------------------------------------
(***************************************************************************)
(* create_task.  Evaluating the module is a stretch too: it may start      *)
(* fetches, whether it succeeds or not.                                    *)
(***************************************************************************)
DroppedWith(cs) == [c \in Reqs |-> IF c \in cs THEN "dropped" ELSE reply[c]]

QueuedHttp == {c \in Reqs : Http(c) \in Elems(queue)}

Evaluated ==
  /\ pc = "starting"
  /\ pc' = "waiting"
  /\ fetches' \in SUBSET Fetches
  /\ UNCHANGED <<hand, queue, box, slots, resuming, reply>>

\* create_task returns; cs are the requests dropped with its locals.
Leave(cs) ==
  /\ pc' = "closing"
  /\ hand' = None
  /\ queue' = <<>>
  /\ reply' = DroppedWith(QueuedHttp \cup cs)

StartFails ==
  /\ pc = "starting"
  /\ Leave({})
  /\ fetches' \in SUBSET Fetches
  /\ UNCHANGED <<box, slots, resuming>>

\* Fault: outbound fetches go first.
ReceivesWhenIdle ==
  /\ pc = "waiting"
  /\ fetches = {}
  /\ queue # <<>>
  /\ pc' = "checkpoint"
  /\ hand' = Head(queue)
  /\ queue' = Tail(queue)
  /\ UNCHANGED <<box, slots, fetches, resuming, reply>>

\* rx.recv() gives a trigger; perform_microtask_checkpoint follows.
Receives ==
  /\ pc = "waiting"
  /\ resuming = None
  /\ queue # <<>>
  /\ pc' = "checkpoint"
  /\ hand' = Head(queue)
  /\ queue' = Tail(queue)
  /\ UNCHANGED <<box, slots, fetches, resuming, reply>>

\* Fault: the token is sent, and the loop goes on.
HaltGoesOn ==
  /\ pc = "checkpoint"
  /\ hand \in Halts
  /\ slots' = CleanedUp(slots)
  /\ pc' = "waiting"
  /\ hand' = None
  /\ UNCHANGED <<queue, box, fetches, resuming, reply>>

\* cleanup_dead_repliers, then the trigger: break, drop the reply, or call.
LeavesOnHalt ==
  /\ pc = "checkpoint"
  /\ hand \in Halts
  /\ slots' = CleanedUp(slots)
  /\ Leave({})
  /\ UNCHANGED <<box, fetches, resuming>>

NoFetchFunction ==
  /\ pc = "checkpoint"
  /\ hand \notin Halts
  /\ slots' = CleanedUp(slots)
  /\ pc' = "waiting"
  /\ hand' = None
  /\ reply' = DroppedWith({hand.req})
  /\ UNCHANGED <<queue, box, fetches, resuming>>

Calls ==
  /\ pc = "checkpoint"
  /\ hand \notin Halts
  /\ slots' = CleanedUp(slots)
  /\ pc' = "call"
  /\ UNCHANGED <<hand, queue, box, fetches, resuming, reply>>

\* fetch.call() gives nothing: thrown, or terminated by the monitor.
CallFails ==
  /\ pc = "call"
  /\ Leave({hand.req})
  /\ UNCHANGED <<box, slots, fetches, resuming>>

\* Fault: the trigger outlives its turn, and the replier with it.
NoPromiseKeepsTrigger ==
  /\ pc = "call"
  /\ pc' = "waiting"
  /\ UNCHANGED <<hand, queue, box, slots, fetches, resuming, reply>>

NoPromise ==
  /\ pc = "call"
  /\ pc' = "waiting"
  /\ hand' = None
  /\ reply' = DroppedWith({hand.req})
  /\ UNCHANGED <<queue, box, slots, fetches, resuming>>

\* The replier is boxed and gets a slot; .then() and a checkpoint follow.
Keeps ==
  /\ pc = "call"
  /\ pc' = "then"
  /\ hand' = None
  /\ box' = [box EXCEPT ![hand.req] = "full"]
  /\ AddReplier(hand.req)
  /\ UNCHANGED <<queue, fetches, resuming, reply>>

\* The callback cannot be built: create_task returns, the replier is kept.
KeepsInVain ==
  /\ pc = "call"
  /\ box' = [box EXCEPT ![hand.req] = "deaf"]
  /\ AddReplier(hand.req)
  /\ Leave({})
  /\ UNCHANGED <<fetches, resuming>>

NextEvent ==
  /\ pc = "then"
  /\ pc' = "waiting"
  /\ UNCHANGED <<hand, queue, box, slots, fetches, resuming, reply>>
-----------------------------------------------------------------------------
(***************************************************************************)
(* A fetch future: it settles its promise and runs a checkpoint, while the *)
(* task is at rx.recv() or in wait_close().                                *)
(***************************************************************************)
FetchResumes(f) ==
  /\ pc \in {"waiting", "closing"}
  /\ resuming = None
  /\ f \in fetches
  /\ resuming' = f
  /\ UNCHANGED <<pc, hand, queue, box, slots, fetches, reply>>

FetchEnds ==
  /\ resuming # None
  /\ fetches' = fetches \ {resuming}
  /\ resuming' = None
  /\ UNCHANGED <<pc, hand, queue, box, slots, reply>>

(***************************************************************************)
(* Drop for WorkerState: every replier still in its box is answered.       *)
(***************************************************************************)
Answered == Full \cap Elems(slots)

\* Fault: it stops at the first empty slot.
DropUpToFirstGap ==
  LET before == {i \in 1 .. Len(slots) : \A j \in 1 .. i : slots[j] \in Full}
      cs == {slots[i] : i \in before}
  IN  /\ box' = [c \in Reqs |-> IF c \in cs THEN "taken" ELSE box[c]]
      /\ reply' = [c \in Reqs |-> IF c \in cs THEN "empty" ELSE reply[c]]
      /\ slots' = <<>>

DropState ==
  /\ box' = [c \in Reqs |-> IF c \in Answered THEN "taken" ELSE box[c]]
  /\ reply' = [c \in Reqs |-> IF c \in Answered THEN "empty" ELSE reply[c]]
  /\ slots' = <<>>

\* wait_close() returned; the state goes with close_state.
Closes ==
  /\ pc = "closing"
  /\ fetches = {}
  /\ pc' = "closed"
  /\ DropState
  /\ UNCHANGED <<hand, queue, fetches, resuming>>

(***************************************************************************)
(* The pod's thread ends: tasks are dropped at their awaits.  In           *)
(* close_state that drops the state; before, the isolate keeps it.         *)
(***************************************************************************)
CancelledClosing ==
  /\ pc = "closing"
  /\ resuming = None
  /\ pc' = "closed"
  /\ fetches' = {}
  /\ DropState
  /\ UNCHANGED <<hand, queue, resuming>>

Cancelled ==
  /\ Listening
  /\ resuming = None
  /\ pc' = "cancelled"
  /\ queue' = <<>>
  /\ reply' = DroppedWith(QueuedHttp)
  /\ fetches' = {}
  /\ UNCHANGED <<hand, box, slots, resuming>>

Over == pc \in {"closed", "cancelled"} /\ UNCHANGED vars

TaskStep ==
  \/ Evaluated \/ StartFails
  \/ Receives \/ LeavesOnHalt \/ NoFetchFunction \/ Calls
  \/ CallFails \/ NoPromise \/ Keeps \/ KeepsInVain \/ NextEvent
  \/ FetchEnds
  \/ Closes

Next ==
  \/ \E c \in Reqs : HttpArrives(c) \/ Callback(c)
  \/ \E m \in Halts : HaltArrives(m)
  \/ \E f \in Fetches : StartsFetch(f) \/ FetchResumes(f)
  \/ TaskStep
  \/ CancelledClosing
  \/ Cancelled
  \/ Over

Spec == Init /\ [][Next]_vars

(***************************************************************************)
(* The task goes on, and stretches of user code end: that is assumed, the  *)
(* monitor does not end them all (module Monitor).  The tasks of a thread  *)
(* are polled in turn: fetch futures that are ready again and again do not *)
(* keep the worker from its channel.  Fetches need never be ready.         *)
(***************************************************************************)
FairSpec == Spec /\ WF_vars(TaskStep) /\ SF_vars(Receives)

-----------------------------------------------------------------------------
\* The loop has a trigger in hand from recv() to the end of its turn only.
TypeOK ==
  /\ pc \in {"starting", "waiting", "checkpoint", "call", "then",
             "closing", "closed", "cancelled"}
  /\ hand \in Triggers \cup {None}
  /\ hand # None <=> pc \in {"checkpoint", "call"}
  /\ queue \in Seq(Triggers)
  /\ box \in [Reqs -> {"none", "full", "deaf", "taken"}]
  /\ slots \in Seq(Reqs \cup {None})
  /\ fetches \in SUBSET Fetches
  /\ resuming \in Fetches \cup {None}
  /\ reply \in [Reqs -> {"none", "pending", "value", "empty", "dropped"}]

(***************************************************************************)
(* The reuse of slots (state.rs:128-149) loses no replier: a request whose *)
(* replier is still in its box is in one slot, so that Drop finds it.      *)
(***************************************************************************)
OneSlotPerReplier ==
  \A c \in Full : \E i \in 1 .. Len(slots) :
    \A j \in 1 .. Len(slots) : slots[j] = c <=> j = i

(***************************************************************************)
(* Slots are added for want of a dead one only: the list is never longer   *)
(* than the largest number of requests that ever waited at a time.         *)
(***************************************************************************)
GrowsWhenFullOnly ==
  [][Len(slots') > Len(slots) =>
       \A i \in 1 .. Len(slots) : slots[i] \in Full]_vars

(***************************************************************************)
(* Once the worker has closed, no request it was sent is left waiting:     *)
(* every one is answered, by its promise or by Drop, or its replier went   *)
(* with the channel or the loop (task.rs:287, 222-238, state.rs:163-178).  *)
(***************************************************************************)
ClosedOwesNothing ==
  pc = "closed" => \A c \in Reqs : reply[c] # "pending"

(***************************************************************************)
(* A Halt in the channel makes the worker leave its loop, whatever is      *)
(* queued before it, fails on the way or is still being fetched: this is   *)
(* what the drain of a pod waits for (task.rs:216-227).                    *)
(***************************************************************************)
HaltIsObeyed ==
  Halts \cap Elems(queue) # {} ~> pc \in {"closing", "closed", "cancelled"}

(***************************************************************************)
(* HaltAhead(n): the next Halt is the n-th trigger of the channel, or in   *)
(* hand (0).  TurnLeft: the steps left of the turn the loop is in.         *)
(***************************************************************************)
HaltAhead(n) ==
  IF hand \in Halts THEN n = 0
  ELSE /\ n \in 1 .. Len(queue)
       /\ queue[n] \in Halts
       /\ \A i \in 1 .. n - 1 : queue[i] \notin Halts

TurnLeft ==
  CASE pc = "starting" -> 4
    [] pc = "checkpoint" -> 3
    [] pc = "call" -> 2
    [] pc = "then" -> 1
    [] OTHER -> 0

(***************************************************************************)
(* What HaltIsObeyed comes from: until the loop is left, a Halt loses no   *)
(* place and is never dropped, whatever comes behind it or happens in user *)
(* code and fetches; each turn brings it one place nearer, and a turn has  *)
(* an end (task.rs:216-290).                                               *)
(***************************************************************************)
HaltComesNearer ==
  [][\A n \in 0 .. Len(queue) : HaltAhead(n) =>
       \/ pc' \in {"closing", "closed", "cancelled"}
       \/ HaltAhead(n)' /\ (pc' = pc \/ TurnLeft' < TurnLeft)
       \/ n > 0 /\ HaltAhead(n - 1)']_vars

(***************************************************************************)
(* "Gracefully closes the worker state, releasing memory."                 *)
(* (task.rs:295): nothing the worker boxed is left.  The boxes of the      *)
(* repliers are made with into_raw and nobody makes them boxes again.      *)
(***************************************************************************)
ClosingReleasesMemory ==
  pc = "closed" => \A c \in Reqs : box[c] = "none"
=============================================================================
