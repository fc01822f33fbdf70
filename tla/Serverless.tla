----------------------------- MODULE Serverless -----------------------------
(***************************************************************************)
(* The control plane: the HTTP handlers (runtime/serverless/app.rs), the   *)
(* serverless task they send triggers to (task.rs, core.rs, handle.rs) and *)
(* the pods that task drives (module Pod).                                 *)
(*                                                                         *)
(* The handlers run concurrently, each in a task of its own.  The          *)
(* serverless task is one loop: while it waits for a pod it neither        *)
(* receives triggers nor notices ctrl-c.                                   *)
(***************************************************************************)
EXTENDS Pod

CONSTANTS
  Names,       \* worker names that occur in requests
  ValidNames,  \* those the name regex of the code store accepts
  Leavers,     \* requests whose client may close its connection early
  SvlCap       \* capacity of the serverless channel, 512 in the code

ASSUME ServerlessAssumption ==
  /\ ValidNames \subseteq Names
  /\ Leavers \subseteq Reqs
  /\ SvlCap \in Nat \ {0}

VARIABLES
  op,      \* op[c]: what request c asks for, and of which worker
  client,  \* client[c]: where the handler of c is
  result,  \* result[c]: what the handler rendered
  route,   \* route[c]: the pod and worker id the handler was given
  svlQ,    \* the serverless channel
  svl,     \* the serverless task: where it is, for which request, at which pod
  stored   \* names with a file in the code store

svlVars == <<op, client, result, route, svlQ, svl, stored>>
vars == <<podVars, svlVars>>

Kinds == {"worker", "upload", "remove"}
ServerlessTrigger == [type : Kinds \cup {"toPod"}, req : Reqs]
Trigger(t, c) == [type |-> t, req |-> c]

NoRoute == [pod |-> 0, id |-> 0]

\* Where the serverless task can be: at step s, for request c, at pod p.
SvlAt(s, c, p) == [pc |-> s, req |-> c, pod |-> p]
Selecting == SvlAt("select", None, 0)

\* The receiver of the serverless channel exists.
SvlOpen == svl.pc \notin {"exited", "failed"}

Init ==
  /\ PodInit
  /\ op \in [Reqs -> [kind : Kinds, name : Names]]
  /\ client = [c \in Reqs |-> "new"]
  /\ result = [c \in Reqs |-> "none"]
  /\ route = [c \in Reqs |-> NoRoute]
  /\ svlQ = <<>>
  /\ svl = Selecting
  /\ stored \in SUBSET Names
-----------------------------------------------------------------------------
(***************************************************************************)
(* The HTTP handlers: worker, api_upload_worker and api_remove_worker,     *)
(* with the methods of ServerlessHandle they call.                         *)
(***************************************************************************)
Send(m) ==
  /\ SvlOpen
  /\ Len(svlQ) < SvlCap
  /\ svlQ' = Append(svlQ, m)

Respond(c, r) ==
  /\ client' = [client EXCEPT ![c] = "done"]
  /\ result' = [result EXCEPT ![c] = r]

\* create_worker and upload_worker wait for a reply, remove_worker does not.
ClientSubmits(c) ==
  /\ client[c] = "new"
  /\ Send(Trigger(op[c].kind, c))
  /\ \/ /\ op[c].kind = "remove"
        /\ Respond(c, "ok")
        /\ UNCHANGED reply
     \/ /\ op[c].kind # "remove"
        /\ client' = [client EXCEPT ![c] = "wait"]
        /\ reply' = [reply EXCEPT ![c] = "pending"]
        /\ UNCHANGED result
  /\ UNCHANGED <<op, route, svl, stored, pod, podQ, table, answer, worker,
                 wq, held, killed>>

(***************************************************************************)
(* The channel is closed.  upload_worker returns None here, which its      *)
(* callers read as the absence of an error.                                *)
(***************************************************************************)
ClientFindsClosed(c) ==
  /\ client[c] = "new"
  /\ ~ SvlOpen
  /\ Respond(c, IF op[c].kind = "worker" THEN "createFailed" ELSE "ok")
  /\ UNCHANGED <<op, route, svlQ, svl, stored, podVars>>

\* req.payload() fails: nothing is sent.
ClientBadBody(c) ==
  /\ client[c] = "new"
  /\ op[c].kind = "upload"
  /\ Respond(c, "error")
  /\ UNCHANGED <<op, route, svlQ, svl, stored, podVars>>

ClientUploaded(c) ==
  /\ client[c] = "wait"
  /\ op[c].kind = "upload"
  /\ reply[c] # "pending"
  /\ Respond(c, IF reply[c] = "storeError" THEN "error" ELSE "ok")
  /\ UNCHANGED <<op, route, svlQ, svl, stored, podVars>>

ClientNotCreated(c) ==
  /\ client[c] = "wait"
  /\ op[c].kind = "worker"
  /\ reply[c] \in {"noCode", "noVacancy", "dropped"}
  /\ Respond(c, "createFailed")
  /\ UNCHANGED <<op, route, svlQ, svl, stored, podVars>>

\* The worker exists: send_http_to_worker with the ids the reply carries.
ClientSendsHttp(c) ==
  /\ client[c] = "wait"
  /\ reply[c] = "created"
  /\ Send(Trigger("toPod", c))
  /\ client' = [client EXCEPT ![c] = "http"]
  /\ reply' = [reply EXCEPT ![c] = "pending"]
  /\ UNCHANGED <<op, result, route, svl, stored, pod, podQ, table, answer,
                 worker, wq, held, killed>>

\* Fault: both errors of a GET are rendered alike.
ClientLosesWorker(c) ==
  /\ client[c] = "wait"
  /\ reply[c] = "created"
  /\ ~ SvlOpen
  /\ Respond(c, "createFailed")
  /\ UNCHANGED <<op, route, svlQ, svl, stored, podVars>>

ClientCannotSendHttp(c) ==
  /\ client[c] = "wait"
  /\ reply[c] = "created"
  /\ ~ SvlOpen
  /\ Respond(c, "execFailed")
  /\ UNCHANGED <<op, route, svlQ, svl, stored, podVars>>

ClientAnswered(c) ==
  /\ client[c] = "http"
  /\ reply[c] # "pending"
  /\ Respond(c, IF reply[c] = "value" THEN "body"
                ELSE IF reply[c] = "empty" THEN "emptyBody"
                ELSE "execFailed")
  /\ UNCHANGED <<op, route, svlQ, svl, stored, podVars>>

(***************************************************************************)
(* The handler is dropped where it waits, and with it the receiver of the  *)
(* reply: by hyper when its client closes the connection, or with the      *)
(* runtime, which main drops once the serverless task is over.  Nobody is  *)
(* told.  What the system does with the request goes on, up to a reply     *)
(* that is sent to nobody (every send of a reply ignores its result).  A   *)
(* handler dropped before it sent anything might as well not have come.    *)
(***************************************************************************)
ClientGone(c) ==
  /\ client[c] \in {"wait", "http"}
  /\ client' = [client EXCEPT ![c] = "gone"]
  /\ UNCHANGED <<op, result, route, svlQ, svl, stored, podVars>>

ClientStep(c) ==
  \/ ClientSubmits(c)
  \/ ClientFindsClosed(c)
  \/ ClientBadBody(c)
  \/ ClientUploaded(c)
  \/ ClientNotCreated(c)
  \/ ClientSendsHttp(c)
  \/ ClientCannotSendHttp(c)
  \/ ClientAnswered(c)
-----------------------------------------------------------------------------
(***************************************************************************)
(* The serverless task.  SvlReceived(t): select! took the rx.recv() branch *)
(* and the trigger has type t.                                             *)
(***************************************************************************)
SvlReceived(t) ==
  /\ svl.pc = "select"
  /\ svlQ # <<>>
  /\ Head(svlQ).type = t
  /\ svlQ' = Tail(svlQ)

SvlReply(c, r) == reply' = [reply EXCEPT ![c] = r]

SvlUnchangedPods == UNCHANGED <<pod, podQ, table, answer, worker, wq, held, killed>>

\* No file, or one that cannot be read, gives no code.
SvlCreateNoCode ==
  /\ SvlReceived("worker")
  /\ SvlReply(Head(svlQ).req, "noCode")
  /\ SvlUnchangedPods
  /\ UNCHANGED <<op, client, result, route, svl, stored>>

\* The code is read: find_vancancy starts at the first pod.
SvlCreate ==
  /\ SvlReceived("worker")
  /\ op[Head(svlQ).req].name \in stored
  /\ svl' = SvlAt("check", Head(svlQ).req, 0)
  /\ UNCHANGED <<op, client, result, route, stored, podVars>>

\* A file whose write fails may or may not exist afterwards.
SvlUpload ==
  /\ SvlReceived("upload")
  /\ LET c == Head(svlQ).req
         n == op[c].name
     IN  \/ /\ n \in ValidNames
            /\ stored' = stored \cup {n}
            /\ SvlReply(c, "stored")
         \/ /\ n \in ValidNames
            /\ stored' \in {stored, stored \cup {n}}
            /\ SvlReply(c, "storeError")
         \/ /\ n \notin ValidNames
            /\ SvlReply(c, "storeError")
            /\ UNCHANGED stored
  /\ SvlUnchangedPods
  /\ UNCHANGED <<op, client, result, route, svl>>

\* Whether the file could be removed is not looked at.
SvlRemove ==
  /\ SvlReceived("remove")
  /\ stored' \in {stored, stored \ {op[Head(svlQ).req].name}}
  /\ UNCHANGED <<op, client, result, route, svl, podVars>>

SvlToPod ==
  /\ SvlReceived("toPod")
  /\ LET c == Head(svlQ).req
     IN  svl' = SvlAt("toPod", c, route[c].pod)
  /\ UNCHANGED <<op, client, result, route, stored, podVars>>

\* PodHandle::trigger: waits for room in the channel of the pod.
SendToPod(p, m) ==
  /\ p \in Pods
  /\ Len(podQ[p]) < PodCap
  /\ podQ' = [podQ EXCEPT ![p] = Append(@, m)]

SvlForward ==
  /\ svl.pc = "toPod"
  /\ SendToPod(svl.pod, ToWorker(svl.req, route[svl.req].id))
  /\ svl' = Selecting
  /\ UNCHANGED <<op, client, result, route, svlQ, stored, pod, table, answer,
                 worker, wq, held, killed, reply>>

SvlAsksVacancy ==
  /\ svl.pc = "check"
  /\ SendToPod(svl.pod, CheckVacancies)
  /\ svl' = SvlAt("checkWait", svl.req, svl.pod)
  /\ UNCHANGED <<op, client, result, route, svlQ, stored, pod, table, answer,
                 worker, wq, held, killed, reply>>

\* Fault: the first pod without room ends the scan.
SvlGivesUpEarly ==
  /\ svl.pc = "checkWait"
  /\ answer # NoAnswer
  /\ answer' = NoAnswer
  /\ svl' = IF answer.tag = "yes" THEN SvlAt("create", svl.req, svl.pod)
                                  ELSE SvlAt("check", svl.req, NPods)
  /\ UNCHANGED <<op, client, result, route, svlQ, stored, pod, podQ, table,
                 worker, wq, held, killed, reply>>

\* Fault: a pod without room is asked again.
SvlAsksAgain ==
  /\ svl.pc = "checkWait"
  /\ answer # NoAnswer
  /\ answer' = NoAnswer
  /\ svl' = IF answer.tag = "yes" THEN SvlAt("create", svl.req, svl.pod)
            ELSE SvlAt("check", svl.req, svl.pod)
  /\ UNCHANGED <<op, client, result, route, svlQ, stored, pod, podQ, table,
                 worker, wq, held, killed, reply>>

SvlToldVacancy ==
  /\ svl.pc = "checkWait"
  /\ answer # NoAnswer
  /\ answer' = NoAnswer
  /\ \/ /\ answer.tag = "yes"
        /\ svl' = SvlAt("create", svl.req, svl.pod)
     \/ /\ answer.tag = "no"
        /\ svl' = SvlAt("check", svl.req, svl.pod + 1)
  /\ UNCHANGED <<op, client, result, route, svlQ, stored, pod, podQ, table,
                 worker, wq, held, killed, reply>>

SvlNoVacancy ==
  /\ svl.pc = "check"
  /\ svl.pod = NPods
  /\ SvlReply(svl.req, "noVacancy")
  /\ svl' = Selecting
  /\ SvlUnchangedPods
  /\ UNCHANGED <<op, client, result, route, svlQ, stored>>

SvlAsksWorker ==
  /\ svl.pc = "create"
  /\ SendToPod(svl.pod, CreateWorkerFor(svl.req))
  /\ svl' = SvlAt("createWait", svl.req, svl.pod)
  /\ UNCHANGED <<op, client, result, route, svlQ, stored, pod, table, answer,
                 worker, wq, held, killed, reply>>

\* Fault: the handler is told of another pod.
SvlCreatedElsewhere ==
  /\ svl.pc = "createWait"
  /\ answer # NoAnswer
  /\ answer' = NoAnswer
  /\ route' = [route EXCEPT ![svl.req] = [pod |-> 0, id |-> answer.id]]
  /\ SvlReply(svl.req, "created")
  /\ svl' = Selecting
  /\ UNCHANGED <<op, client, result, svlQ, stored, pod, podQ, table, worker,
                 wq, held, killed>>

\* Fault: the reply has to be taken by a handler.
SvlCreatedIsTaken ==
  /\ svl.pc = "createWait"
  /\ answer # NoAnswer
  /\ client[svl.req] = "wait"
  /\ answer' = NoAnswer
  /\ route' = [route EXCEPT ![svl.req] = [pod |-> svl.pod, id |-> answer.id]]
  /\ SvlReply(svl.req, "created")
  /\ svl' = Selecting
  /\ UNCHANGED <<op, client, result, svlQ, stored, pod, podQ, table, worker,
                 wq, held, killed>>

SvlCreated ==
  /\ svl.pc = "createWait"
  /\ answer # NoAnswer
  /\ answer' = NoAnswer
  /\ route' = [route EXCEPT ![svl.req] = [pod |-> svl.pod, id |-> answer.id]]
  /\ SvlReply(svl.req, "created")
  /\ svl' = Selecting
  /\ UNCHANGED <<op, client, result, svlQ, stored, pod, podQ, table, worker,
                 wq, held, killed>>
-----------------------------------------------------------------------------
(***************************************************************************)
(* Shutdown.  On ctrl-c, close_serverless halts the pods one by one, joins *)
(* their threads and returns; the receiver then goes, and the repliers of  *)
(* the triggers still queued with it.                                      *)
(***************************************************************************)
SvlCtrlC ==
  /\ svl.pc = "select"
  /\ svl' = SvlAt("halt", None, 0)
  /\ UNCHANGED <<op, client, result, route, svlQ, stored, podVars>>

SvlHaltsPod ==
  /\ svl.pc = "halt"
  /\ SendToPod(svl.pod, Halt)
  /\ svl' = SvlAt("haltWait", svl.req, svl.pod)
  /\ UNCHANGED <<op, client, result, route, svlQ, stored, pod, table, answer,
                 worker, wq, held, killed, reply>>

SvlPodHalted ==
  /\ svl.pc = "haltWait"
  /\ pod[svl.pod].pc \in {"exiting", "exited"}
  /\ svl' = SvlAt("halt", svl.req, svl.pod + 1)
  /\ UNCHANGED <<op, client, result, route, svlQ, stored, podVars>>

DropQueue ==
  /\ svlQ' = <<>>
  /\ reply' = [c \in Reqs |->
                 IF \E i \in 1 .. Len(svlQ) :
                      svlQ[i].req = c /\ svlQ[i].type # "remove"
                 THEN "dropped" ELSE reply[c]]

\* Fault: the handles of the threads are dropped, not joined.
SvlJoinsNobody ==
  /\ svl.pc = "halt"
  /\ svl.pod = NPods
  /\ svl' = SvlAt("exited", None, 0)
  /\ DropQueue
  /\ SvlUnchangedPods
  /\ UNCHANGED <<op, client, result, route, stored>>

SvlJoined ==
  /\ svl.pc = "halt"
  /\ svl.pod = NPods
  /\ \A p \in Pods : pod[p].pc = "exited"
  /\ svl' = SvlAt("exited", None, 0)
  /\ DropQueue
  /\ SvlUnchangedPods
  /\ UNCHANGED <<op, client, result, route, stored>>

\* The HTTP server returned: the loop is left without halting the pods.
SvlServerExits ==
  /\ svl.pc = "select"
  /\ svl' = SvlAt("failed", None, 0)
  /\ DropQueue
  /\ SvlUnchangedPods
  /\ UNCHANGED <<op, client, result, route, stored>>

SvlStep ==
  \/ SvlCreateNoCode
  \/ SvlCreate
  \/ SvlUpload
  \/ SvlRemove
  \/ SvlToPod
  \/ SvlForward
  \/ SvlAsksVacancy
  \/ SvlToldVacancy
  \/ SvlNoVacancy
  \/ SvlAsksWorker
  \/ SvlCreated
  \/ SvlHaltsPod
  \/ SvlPodHalted
  \/ SvlJoined

(***************************************************************************)
(* main has dropped the runtime.  The drop cancels the handlers, and waits *)
(* for the threads of the pods, which spawn_blocking started.              *)
(***************************************************************************)
ProcessOver ==
  /\ ~ SvlOpen
  /\ \A p \in Pods : pod[p].pc = "exited"
  /\ \A c \in Reqs : client[c] \in {"new", "done", "gone"}

Terminated == ProcessOver /\ UNCHANGED vars

\* When the loop was left without a halt, the handle of the pod is gone with it.
PodTurn(p) == PodStep(p) \/ (svl.pc = "failed" /\ PodAbandoned(p))

Next ==
  \/ \E c \in Reqs : ClientStep(c)
  \/ \E c \in Reqs : (c \in Leavers \/ ~ SvlOpen) /\ ClientGone(c)
  \/ SvlStep
  \/ SvlCtrlC
  \/ SvlServerExits
  \/ \E p \in Pods : PodTurn(p) /\ UNCHANGED svlVars
  \/ \E w \in Reqs : (WorkerStep(w) \/ WorkerEvent(w)) /\ UNCHANGED svlVars
  \/ Terminated

Spec == Init /\ [][Next]_vars
-----------------------------------------------------------------------------
(***************************************************************************)
(* Fairness: tokio polls every task that can run, a handler once its       *)
(* request is accepted included.  When the serverless task is over no      *)
(* handler is owed another poll: it comes to its end or is dropped with    *)
(* the runtime.  The pods have threads of their own.  Nothing is assumed   *)
(* of what user code or a remote host does (WorkerEvent), of new requests, *)
(* of clients that leave, or of ctrl-c.                                    *)
(***************************************************************************)
Fairness ==
  /\ \A c \in Reqs : WF_vars(\/ client[c] # "new" /\ ClientStep(c)
                             \/ ~ SvlOpen /\ ClientGone(c))
  /\ WF_vars(SvlStep)
  /\ \A p \in Pods :
       WF_vars(PodTurn(p) /\ UNCHANGED svlVars)
  /\ \A w \in Reqs : WF_vars(WorkerStep(w) /\ UNCHANGED svlVars)

FairSpec == Spec /\ Fairness
-----------------------------------------------------------------------------
ClientStates == {"new", "wait", "http", "done", "gone"}
Results == {"none", "ok", "error", "createFailed", "execFailed", "body", "emptyBody"}
Routes == [pod : 0 .. NPods, id : Nat]
SvlState == [pc : {"select", "check", "checkWait", "create", "createWait",
                   "toPod", "halt", "haltWait", "exited", "failed"},
             req : Reqs \cup {None}, pod : 0 .. NPods]

SvlTypeOK ==
  /\ op \in [Reqs -> [kind : Kinds, name : Names]]
  /\ client \in [Reqs -> ClientStates]
  /\ result \in [Reqs -> Results]
  /\ route \in [Reqs -> Routes]
  /\ svlQ \in Seq(ServerlessTrigger)
  /\ svl \in SvlState
  /\ stored \in SUBSET Names

(***************************************************************************)
(* Every variable keeps its type; in particular every id a pod answers     *)
(* with, and every pod index the scan of find_vancancy reaches, is one.    *)
(***************************************************************************)
TypeOK == PodTypeOK /\ SvlTypeOK

(***************************************************************************)
(* A pod never holds more workers than it was started for, although the    *)
(* vacancy is checked by one trigger and used by another: nobody else      *)
(* creates workers between the two.                                        *)
(***************************************************************************)
PodWithinCapacity ==
  \A p \in Pods : /\ Len(table[p].workers) <= NWorkers
                  /\ table[p].capacity = NWorkers

(***************************************************************************)
(* find_vancancy gives up only when every pod is full, although it learns  *)
(* of the pods one after the other and acts on answers of the past.        *)
(***************************************************************************)
RefusedOnlyWhenFull ==
  \A c \in Reqs : reply[c] = "noVacancy" =>
     \A p \in Pods : Len(table[p].workers) >= NWorkers

(***************************************************************************)
(* Between two triggers every slot of a pod holds a worker: the drain loop *)
(* of Halt, which would wait for ever at an empty slot, never meets one.   *)
(***************************************************************************)
NoEmptySlot == \A p \in Pods : None \notin Elems(table[p].workers)

(***************************************************************************)
(* The ids a handler got from create_worker still name the worker made for *)
(* its request when the Http trigger arrives: a request is only ever in    *)
(* the hands of its own worker.                                            *)
(***************************************************************************)
OwnWorkerOnly ==
  \A w \in Reqs : held[w] \cup QueuedHttp(w) \subseteq {w}

(***************************************************************************)
(* Who can still answer request c: the serverless task, a pod or a worker  *)
(* that is not cancelled.                                                  *)
(***************************************************************************)
InTransit(c) ==
  \/ \E i \in 1 .. Len(svlQ) : svlQ[i].req = c
  \/ svl.req = c
  \/ \E p \in Pods : \E i \in 1 .. Len(podQ[p]) :
       podQ[p][i].type = "toWorker" /\ podQ[p][i].req = c
  \/ \E w \in Reqs : c \in QueuedHttp(w)
  \/ \E w \in Reqs : c \in held[w] /\ worker[w] \in {"ready", "closing"}

(***************************************************************************)
(* No handler waits for a reply nobody can send any more, whichever of the *)
(* tasks ended, failed or was halted meanwhile; only the exit of the HTTP  *)
(* server, which skips the halt of the pods, is excepted.                  *)
(***************************************************************************)
NoOrphanedRequest ==
  svl.pc # "failed" =>
    \A c \in Reqs : reply[c] = "pending" => InTransit(c)

(***************************************************************************)
(* A GET tells its client what became of it: that no worker was created    *)
(* only if none was, and none will be, for this request; anything else     *)
(* only if one was.  Refusals, failures and a shutdown reach the handler   *)
(* on either of its two triggers (app.rs:57-65).                           *)
(***************************************************************************)
TellsWhatHappened ==
  \A c \in Reqs :
    /\ result[c] = "createFailed" => worker[c] = "none"
    /\ result[c] \in {"execFailed", "body", "emptyBody"} => worker[c] # "none"

(***************************************************************************)
(* When a pod confirms a Halt, all its workers have left their loops and   *)
(* nothing is queued for it or for them: no trigger sent before the Halt   *)
(* is lost in the pod.                                                     *)
(***************************************************************************)
HaltedPodIsQuiet ==
  svl.pc # "failed" =>
    \A p \in Pods : pod[p].pc \in {"exiting", "exited"} =>
      /\ podQ[p] = <<>>
      /\ \A w \in WorkersOf(p) : worker[w] \in {"closing", "closed"} /\ wq[w] = <<>>

(***************************************************************************)
(* ctrl-c ends in order: when the serverless task returns, no handler is   *)
(* left without an answer, not even one whose promise was pending, and     *)
(* every worker got to close_state, where its state was dropped.  It rests *)
(* on the joins of close_serverless (serverless/task.rs:95-104): when a    *)
(* pod confirms its Halt, its workers may still hold replies.              *)
(***************************************************************************)
ExitOwesNothing ==
  svl.pc = "exited" =>
    /\ \A c \in Reqs : reply[c] # "pending"
    /\ \A w \in Reqs : worker[w] \in {"none", "closed"}

(***************************************************************************)
(* Who can go on: the guards of the steps the scheduling is fair to.       *)
(***************************************************************************)
SvlMoves ==
  \/ svl.pc = "select" /\ svlQ # <<>>
  \/ /\ svl.pc \in {"check", "create", "toPod", "halt"}
     /\ svl.pod \in Pods
     /\ Len(podQ[svl.pod]) < PodCap
  \/ svl.pc = "check" /\ svl.pod = NPods
  \/ svl.pc = "checkWait" /\ answer.tag \in {"yes", "no"}
  \/ svl.pc = "createWait" /\ answer # NoAnswer
  \/ svl.pc = "haltWait" /\ pod[svl.pod].pc \in {"exiting", "exited"}
  \/ svl.pc = "halt" /\ svl.pod = NPods /\ \A p \in Pods : pod[p].pc = "exited"

Accepts(w) == Listening(w) => Len(wq[w]) < WorkerCap

PodMoves(p) ==
  LET slots == table[p].workers
      next == slots[pod[p].at + 1]
  IN  \/ /\ pod[p].pc = "recv" /\ podQ[p] # <<>>
         /\ Head(podQ[p]).type = "toWorker" =>
              Accepts(GetWorker(table[p], Head(podQ[p]).id))
      \/ pod[p].pc = "drain" /\ pod[p].at < Len(slots) /\ Accepts(next)
      \/ pod[p].pc = "drain" /\ pod[p].at = Len(slots)
      \/ pod[p].pc = "drainWait" /\ next # None /\ PodHalt \notin Elems(wq[next])
      \/ pod[p].pc = "exiting"

WorkerMoves(w) ==
  \/ worker[w] = "starting"
  \/ worker[w] = "ready" /\ wq[w] # <<>>

(***************************************************************************)
(* The serverless task waits for pods, a pod for its workers, handlers for *)
(* all of them, and every channel may be full: they never all wait for     *)
(* each other.  While the serverless task is busy, or a handler waits for  *)
(* an answer that is not in the hands of user code, one of them can go on. *)
(***************************************************************************)
Unfinished ==
  \/ svl.pc \notin {"select", "exited", "failed"}
  \/ \E c \in Reqs : reply[c] = "pending" /\ c \notin held[c]

NoCircularWait ==
  svl.pc # "failed" /\ Unfinished =>
    \/ SvlMoves
    \/ \E p \in Pods : PodMoves(p)
    \/ \E w \in Reqs : WorkerMoves(w)

(***************************************************************************)
(* How much each task still has to do.  The serverless task: until it is   *)
(* at its select again, or has joined the pods; its backlog is what it may *)
(* take up there.  A pod: until its slots are drained and its thread is    *)
(* over.  A worker: what is queued for it, or will be by its monitor, what *)
(* it holds, and its end.  A handler: its replies.                         *)
(***************************************************************************)
SvlWork ==
  CASE svl.pc = "check" -> 3 + 2 * (NPods - svl.pod)
    [] svl.pc = "checkWait" -> 2 + 2 * (NPods - svl.pod)
    [] svl.pc = "create" -> 2
    [] svl.pc \in {"createWait", "toPod"} -> 1
    [] svl.pc = "halt" -> 1 + 2 * (NPods - svl.pod)
    [] svl.pc = "haltWait" -> 2 * (NPods - svl.pod)
    [] OTHER -> 0

Backlog ==
  IF svl.pc \in {"halt", "haltWait", "exited", "failed"} THEN 0 ELSE 1 + Len(svlQ)

PodWork(p) ==
  LET slots == Len(table[p].workers) - pod[p].at
  IN  CASE pod[p].pc = "recv" -> 3 + 2 * NWorkers + Len(podQ[p])
        [] pod[p].pc = "drain" -> 2 + 2 * slots
        [] pod[p].pc = "drainWait" -> 1 + 2 * slots
        [] pod[p].pc = "exiting" -> 1
        [] OTHER -> 0

WorkerWork(w) ==
  LET queued == 2 * Len(wq[w]) + IF killed[w] THEN 0 ELSE 3
      kept == IF w \in held[w] THEN 1 ELSE 0
  IN  CASE worker[w] = "starting" -> 3 + queued + kept
        [] worker[w] = "ready" -> 2 + queued + kept
        [] worker[w] = "closing" -> 1 + kept
        [] OTHER -> 0

HandlerWork(c) ==
  CASE client[c] = "new" -> 3
    [] client[c] = "wait" -> 2
    [] client[c] = "http" -> 1
    [] OTHER -> 0

(***************************************************************************)
(* What a task may hand on it has less of itself: the serverless task to   *)
(* the pods, a pod to its workers.                                         *)
(***************************************************************************)
TasksRunDown ==
  \/ Backlog' \in 0 .. Backlog - 1
  \/ /\ UNCHANGED Backlog
     /\ SvlWork' \in 0 .. SvlWork - 1
  \/ /\ UNCHANGED <<Backlog, SvlWork>>
     /\ \A p \in Pods : PodWork(p)' \in 0 .. PodWork(p)
     /\ \E p \in Pods : PodWork(p)' # PodWork(p)
  \/ /\ UNCHANGED <<Backlog, SvlWork>>
     /\ \A p \in Pods : UNCHANGED PodWork(p)
     /\ \A w \in Reqs : WorkerWork(w)' \in 0 .. WorkerWork(w)
     /\ \E w \in Reqs : WorkerWork(w)' # WorkerWork(w)

\* A handler may add a trigger to the backlog, and nothing to a shutdown.
HandlersRunDown ==
  /\ \A c \in Reqs : HandlerWork(c)' \in 0 .. HandlerWork(c)
  /\ \E c \in Reqs : HandlerWork(c)' # HandlerWork(c)
  /\ Backlog' \in IF Backlog = 0 THEN {0} ELSE {Backlog, Backlog + 1}
  /\ UNCHANGED SvlWork
  /\ \A p \in Pods : UNCHANGED PodWork(p)
  /\ \A w \in Reqs : UNCHANGED WorkerWork(w)

(***************************************************************************)
(* No task spins, and no two tasks keep each other busy: whoever takes a   *)
(* step, the scan of the pods, the drain, the failures and kills included, *)
(* the work left shrinks.  During a shutdown requests that still come in   *)
(* add nothing to it.  With NoCircularWait this is why a shutdown ends.    *)
(***************************************************************************)
WorkRunsDown ==
  [][IF UNCHANGED client THEN TasksRunDown ELSE HandlersRunDown]_vars

(***************************************************************************)
(* A request the server accepted is answered or reaches user code: no      *)
(* interleaving of creation, failures, kills and shutdown strands it on    *)
(* the way to its worker.  Its replier is used or in the hands of user     *)
(* code, whatever became of the handler; and its handler comes to its end, *)
(* unless the runtime is dropped first.                                    *)
(***************************************************************************)
RequestReachesWorker ==
  \A c \in Reqs :
    client[c] \in {"wait", "http"} \/ reply[c] = "pending" ~>
      \/ c \in held[c]
      \/ reply[c] # "pending" /\ (client[c] \in {"done", "gone"} \/ ~ SvlOpen)

(***************************************************************************)
(* Once ctrl-c is noticed or the HTTP server exits, the process ends.      *)
(* After ctrl-c the serverless task halts and joins every pod, and as long *)
(* as user code gives the thread back no pod and no worker can hold that   *)
(* up, be it starting, failed, killed or waiting for promises that never   *)
(* settle.  After an exit of the server nobody halts the pods: main, whose *)
(* drop of the runtime waits for their threads, relies on each of them to  *)
(* notice that its channel is closed.                                      *)
(***************************************************************************)
ShutdownCompletes == svl.pc = "halt" \/ ~ SvlOpen ~> ProcessOver
-----------------------------------------------------------------------------
(***************************************************************************)
(* What the README promises ("runs when a request comes in", "scales by    *)
(* itself", "ends when done"): a pod whose workers have all ended is given *)
(* room for the next request, unless it is shut down.                      *)
(***************************************************************************)
EndedWorkersMakeRoom ==
  \A p \in Pods :
    (\A w \in WorkersOf(p) : worker[w] = "closed") ~>
      HasVacancy(table[p]) \/ pod[p].pc # "recv"

(***************************************************************************)
(* What start_one and api_upload_worker take the absence of an error for:  *)
(* the code is in the store.  A closed runtime is named as the cause of an *)
(* upload that fails, so it should be reported as a failure.               *)
(***************************************************************************)
UploadOkMeansStored ==
  \A c \in Reqs : op[c].kind = "upload" /\ result[c] = "ok" => reply[c] = "stored"
=============================================================================
