-------------------------- MODULE ServerlessProofs --------------------------
(***************************************************************************)
(* Theorems about Serverless, for any number of requests, pods, slots and  *)
(* any capacities of the channels.                                         *)
(***************************************************************************)
EXTENDS Serverless, TLAPS, SequenceTheorems

(***************************************************************************)
(* create_worker keeps a table a table, and the id it returns is an index, *)
(* as long as no id was ever given back.                                   *)
(***************************************************************************)
LEMMA CreateWorkerType ==
  ASSUME NEW t \in TableType, NEW w \in Reqs, t.vacancies = <<>>
  PROVE  /\ CreateWorker(t, w) \in TableType
         /\ CreateWorker(t, w).vacancies = <<>>
         /\ NextWorkerId(t) \in Nat
<1> USE DEF TableType
<1> DEFINE s == Append(t.workers, None)
<1>1. NextWorkerId(t) = Len(t.workers) /\ Len(t.workers) \in Nat
  BY DEF NextWorkerId
<1>2. s \in Seq(Reqs \cup {None}) /\ Len(s) = Len(t.workers) + 1
  OBVIOUS
<1>3. CapacityAfterPush(t) \in Nat
  BY DEF CapacityAfterPush
<1>4. CreateWorker(t, w) = [workers |-> [s EXCEPT ![Len(t.workers) + 1] = w],
                            vacancies |-> <<>>, capacity |-> CapacityAfterPush(t)]
  BY <1>1 DEF CreateWorker, PutWorker, TakeWorkerId
<1> HIDE DEF s
<1>5. [s EXCEPT ![Len(t.workers) + 1] = w] \in Seq(Reqs \cup {None})
  BY <1>1, <1>2, ExceptSeq
<1> QED
  BY <1>1, <1>3, <1>4, <1>5

(***************************************************************************)
(* While no id was ever given back and the table is not full, creating a   *)
(* worker appends it, and its id is the number of slots so far.            *)
(***************************************************************************)
LEMMA CreateWorkerAppends ==
  ASSUME NEW t \in TableType, NEW w \in Reqs,
         t.vacancies = <<>>, Len(t.workers) < t.capacity
  PROVE  /\ NextWorkerId(t) = Len(t.workers)
         /\ CreateWorker(t, w).vacancies = <<>>
         /\ CreateWorker(t, w).capacity = t.capacity
         /\ Len(CreateWorker(t, w).workers) = Len(t.workers) + 1
         /\ \A i \in 1 .. Len(t.workers) : CreateWorker(t, w).workers[i] = t.workers[i]
         /\ CreateWorker(t, w).workers[Len(t.workers) + 1] = w
<1> USE DEF TableType
<1>1. NextWorkerId(t) = Len(t.workers)
  BY DEF NextWorkerId
<1> DEFINE s == Append(t.workers, None)
<1>2. /\ s \in Seq(Reqs \cup {None})
      /\ Len(s) = Len(t.workers) + 1
      /\ \A i \in 1 .. Len(t.workers) : s[i] = t.workers[i]
  OBVIOUS
<1>3. CreateWorker(t, w) = [workers |-> [s EXCEPT ![Len(t.workers) + 1] = w],
                            vacancies |-> <<>>, capacity |-> t.capacity]
  BY <1>1 DEF CreateWorker, PutWorker, TakeWorkerId, CapacityAfterPush
<1> HIDE DEF s
<1>4. /\ Len([s EXCEPT ![Len(t.workers) + 1] = w]) = Len(s)
      /\ \A i \in 1 .. Len(t.workers) : [s EXCEPT ![Len(t.workers) + 1] = w][i] = s[i]
      /\ [s EXCEPT ![Len(t.workers) + 1] = w][Len(t.workers) + 1] = w
  BY <1>2, ExceptSeq
<1> QED
  BY <1>1, <1>2, <1>3, <1>4

-----------------------------------------------------------------------------
(***************************************************************************)
(* Types of the pods' state.  That an id is never given back is part of    *)
(* the invariant: it keeps the slot a worker is put into inside the table. *)
(***************************************************************************)
NoIdReturned == \A p \in Pods : table[p].vacancies = <<>>

PodTypeInv == PodTypeOK /\ NoIdReturned

LEMMA PodTypeInit == PodInit => PodTypeInv
<1> SUFFICES ASSUME PodInit PROVE PodTypeInv
  OBVIOUS
<1> USE DEF PodInit
<1>1. pod \in [Pods -> PodState]
  BY DEF PodState
<1>2. podQ \in [Pods -> Seq(PodTrigger)] /\ wq \in [Reqs -> Seq(WorkerTrigger)]
  OBVIOUS
<1>3. table \in [Pods -> TableType] /\ NoIdReturned
  BY NWorkersAssumption DEF TableType, EmptyTable, NoIdReturned
<1>4. answer \in Answers
  BY DEF Answers, NoAnswer
<1>5. /\ worker \in [Reqs -> Lives]
      /\ held \in [Reqs -> SUBSET Reqs]
      /\ killed \in [Reqs -> BOOLEAN]
      /\ reply \in [Reqs -> Replies]
  BY DEF Lives, Replies
<1> QED
  BY <1>1, <1>2, <1>3, <1>4, <1>5 DEF PodTypeInv, PodTypeOK

\* What the heads of the channels are, and what may be put into them.
LEMMA PodTriggers ==
  /\ CheckVacancies \in PodTrigger /\ Halt \in PodTrigger
  /\ \A c \in Reqs : CreateWorkerFor(c) \in PodTrigger
  /\ \A c \in Reqs, id \in Nat : ToWorker(c, id) \in PodTrigger
  /\ \A m \in PodTrigger : m.type \in {"create", "toWorker"} => m.req \in Reqs
  /\ \A m \in PodTrigger : m.type = "toWorker" => m.id \in Nat
BY DEF PodTrigger, CheckVacancies, Halt, CreateWorkerFor, ToWorker

LEMMA WorkerTriggers ==
  /\ PodHalt \in WorkerTrigger /\ MonitorHalt \in WorkerTrigger
  /\ \A c \in Reqs : Http(c) \in WorkerTrigger
  /\ \A m \in WorkerTrigger : m.type = "http" => m.req \in Reqs
BY DEF WorkerTrigger, Http, PodHalt, MonitorHalt

\* Sending a message puts it at the end of its receiver's channel.
LEMMA Sending ==
  ASSUME NEW S, NEW M, NEW f \in [S -> Seq(M)], NEW x \in S, NEW m \in M
  PROVE  [f EXCEPT ![x] = Append(@, m)] \in [S -> Seq(M)]
OBVIOUS

LEMMA PodTypeStep ==
  ASSUME PodTypeInv, NEW p \in Pods, PodStep(p) \/ PodAbandoned(p)
  PROVE  PodTypeInv'
<1> USE DEF PodTypeInv, PodTypeOK, NoIdReturned
<1>1. CASE PodCheckVacancies(p)
  <2>1. answer' \in Answers
    BY <1>1 DEF PodCheckVacancies, Answers
  <2> QED
    BY <1>1, <2>1 DEF PodCheckVacancies, Received
<1>2. CASE PodCreateWorker(p)
  <2> DEFINE c == Head(podQ[p]).req
  <2>1. c \in Reqs
    BY <1>2, PodTriggers DEF PodCreateWorker, Received
  <2>2. /\ CreateWorker(table[p], c) \in TableType
        /\ CreateWorker(table[p], c).vacancies = <<>>
        /\ NextWorkerId(table[p]) \in Nat
    BY <2>1, CreateWorkerType
  <2>3. /\ podQ' = [podQ EXCEPT ![p] = Tail(@)]
        /\ podQ[p] # <<>>
        /\ table' = [table EXCEPT ![p] = CreateWorker(@, c)]
        /\ worker' = [worker EXCEPT ![c] = "starting"]
        /\ answer' = [tag |-> "created", id |-> NextWorkerId(table[p])]
        /\ UNCHANGED <<pod, wq, held, killed, reply>>
    BY <1>2 DEF PodCreateWorker, Received
  <2> HIDE DEF c
  <2>4. table' \in [Pods -> TableType] /\ \A q \in Pods : table'[q].vacancies = <<>>
    BY <2>2, <2>3
  <2>5. answer' \in Answers
    BY <2>2, <2>3 DEF Answers
  <2>6. worker' \in [Reqs -> Lives]
    BY <2>1, <2>3 DEF Lives
  <2>7. podQ' \in [Pods -> Seq(PodTrigger)]
    BY <2>3
  <2> QED
    BY <2>3, <2>4, <2>5, <2>6, <2>7
<1>3. CASE PodForward(p)
  <2> DEFINE m == Head(podQ[p])
  <2> DEFINE w == GetWorker(table[p], m.id)
  <2>1. m \in PodTrigger /\ m.type = "toWorker" /\ m.req \in Reqs /\ m.id \in Nat
    BY <1>3, PodTriggers DEF PodForward, Received
  <2>2. w \in Reqs \cup {None}
    BY <2>1 DEF GetWorker, TableType
  <2>3. /\ podQ' = [podQ EXCEPT ![p] = Tail(@)]
        /\ podQ[p] # <<>>
        /\ \/ /\ w # None
              /\ wq' = [wq EXCEPT ![w] = Append(@, Http(m.req))]
              /\ UNCHANGED reply
           \/ /\ reply' = [reply EXCEPT ![m.req] = "dropped"]
              /\ UNCHANGED wq
        /\ UNCHANGED <<pod, table, answer, worker, held, killed>>
    BY <1>3 DEF PodForward, Received, Listening
  <2> HIDE DEF m, w
  <2>4. wq' \in [Reqs -> Seq(WorkerTrigger)]
    <3>1. Http(m.req) \in WorkerTrigger
      BY <2>1, WorkerTriggers
    <3>2. CASE wq' = wq
      BY <3>2
    <3>3. ASSUME NEW v \in Reqs, wq' = [wq EXCEPT ![v] = Append(@, Http(m.req))]
          PROVE  wq' \in [Reqs -> Seq(WorkerTrigger)]
      BY <3>1, <3>3, Sending
    <3> QED
      BY <2>2, <2>3, <3>2, <3>3
  <2>5. reply' \in [Reqs -> Replies]
    BY <2>1, <2>3 DEF Replies
  <2>6. podQ' \in [Pods -> Seq(PodTrigger)]
    BY <2>3
  <2> QED
    BY <2>3, <2>4, <2>5, <2>6
<1>4. CASE PodHaltReceived(p)
  BY <1>4 DEF PodHaltReceived, Received, PodState
<1>5. CASE PodDrain(p)
  <2>1. pod' \in [Pods -> PodState]
    BY <1>5 DEF PodDrain, PodState
  <2> DEFINE w == table[p].workers[pod[p].at + 1]
  <2>2. w \in Reqs \cup {None}
    BY <1>5 DEF PodDrain, PodState, TableType
  <2>3. /\ \/ w # None /\ wq' = [wq EXCEPT ![w] = Append(@, PodHalt)]
           \/ UNCHANGED wq
        /\ UNCHANGED <<podQ, table, answer, worker, held, killed, reply>>
    BY <1>5 DEF PodDrain, Listening
  <2> HIDE DEF w
  <2>4. wq' \in [Reqs -> Seq(WorkerTrigger)]
    <3>1. PodHalt \in WorkerTrigger
      BY WorkerTriggers
    <3>2. CASE wq' = wq
      BY <3>2
    <3>3. ASSUME NEW v \in Reqs, wq' = [wq EXCEPT ![v] = Append(@, PodHalt)]
          PROVE  wq' \in [Reqs -> Seq(WorkerTrigger)]
      BY <3>1, <3>3, Sending
    <3> QED
      BY <2>2, <2>3, <3>2, <3>3
  <2> QED
    BY <2>1, <2>3, <2>4
<1>6. CASE PodDrained(p)
  BY <1>6 DEF PodDrained, PodState
<1>7. CASE PodHalted(p)
  BY <1>7 DEF PodHalted, PodState
<1>8. CASE PodExit(p) \/ PodAbandoned(p)
  <2>1. /\ pod' = [pod EXCEPT ![p] = [pc |-> "exited", at |-> @.at]]
        /\ CancelWorkers(p)
        /\ UNCHANGED <<podQ, table, answer, killed>>
    BY <1>8 DEF PodExit, PodAbandoned
  <2>2. pod' \in [Pods -> PodState]
    BY <2>1 DEF PodState
  <2>3. worker' \in [Reqs -> Lives]
    BY <2>1 DEF CancelWorkers, Lives
  <2>4. wq' \in [Reqs -> Seq(WorkerTrigger)]
    BY <2>1 DEF CancelWorkers
  <2>5. held' \in [Reqs -> SUBSET Reqs]
    BY <2>1 DEF CancelWorkers
  <2>6. reply' \in [Reqs -> Replies]
    BY <2>1 DEF CancelWorkers, Replies
  <2> QED
    BY <2>1, <2>2, <2>3, <2>4, <2>5, <2>6
<1> QED
  BY <1>1, <1>2, <1>3, <1>4, <1>5, <1>6, <1>7, <1>8 DEF PodStep

LEMMA WorkerTypeStep ==
  ASSUME PodTypeInv, NEW w \in Reqs, WorkerStep(w) \/ WorkerEvent(w)
  PROVE  PodTypeInv'
<1> USE DEF PodTypeInv, PodTypeOK, NoIdReturned
<1>1. CASE WorkerReady(w)
  BY <1>1 DEF WorkerReady, Lives
<1>2. ASSUME NEW gone, LeaveLoop(w, gone) PROVE PodTypeInv'
  <2>1. /\ worker' \in [Reqs -> Lives]
        /\ wq' \in [Reqs -> Seq(WorkerTrigger)]
        /\ reply' \in [Reqs -> Replies]
    BY <1>2 DEF LeaveLoop, Lives, Replies
  <2> QED
    BY <1>2, <2>1 DEF LeaveLoop
<1>3. CASE WorkerStartFails(w) \/ WorkerFailsHttp(w) \/ WorkerHalts(w)
  BY <1>2, <1>3 DEF WorkerStartFails, WorkerFailsHttp, WorkerHalts
<1>4. CASE WorkerHoldsHttp(w)
  <2>1. Head(wq[w]).req \in Reqs
    BY <1>4, WorkerTriggers DEF WorkerHoldsHttp, WorkerReceives
  <2> QED
    BY <1>4, <2>1 DEF WorkerHoldsHttp, WorkerReceives
<1>5. CASE WorkerIgnoresHttp(w)
  <2>1. Head(wq[w]).req \in Reqs
    BY <1>5, WorkerTriggers DEF WorkerIgnoresHttp, WorkerReceives
  <2> QED
    BY <1>5, <2>1 DEF WorkerIgnoresHttp, WorkerReceives, Replies
<1>6. ASSUME NEW c \in Reqs, WorkerReplies(w, c) PROVE PodTypeInv'
  BY <1>6 DEF WorkerReplies, Replies
<1>7. CASE WorkerCloses(w)
  <2>1. reply' \in [Reqs -> Replies]
    BY <1>7 DEF WorkerCloses, Replies
  <2> QED
    BY <1>7, <2>1 DEF WorkerCloses, Lives
<1>8. CASE MonitorKills(w)
  BY <1>8, WorkerTriggers DEF MonitorKills
<1>9. CASE WorkerFailsKept(w)
  <2>1. Head(wq[w]).req \in Reqs
    BY <1>9, WorkerTriggers DEF WorkerFailsKept, WorkerReceives
  <2>2. reply' \in [Reqs -> Replies]
    BY <1>9 DEF WorkerFailsKept, Replies
  <2> QED
    BY <1>9, <2>1, <2>2 DEF WorkerFailsKept, Lives
<1> QED
  BY <1>1, <1>3, <1>4, <1>5, <1>6, <1>7, <1>8, <1>9 DEF WorkerStep, WorkerEvent
-----------------------------------------------------------------------------

(***************************************************************************)
(* Types.  TypeOK is not inductive: that find_vancancy and halt stay       *)
(* within the pods needs what the task is waiting for, and that no id was  *)
(* ever given back (PodTypeInv).                                           *)
(***************************************************************************)
SvlAtWork ==
  /\ svl.pc \in {"check", "checkWait", "create", "createWait", "toPod"} => svl.req \in Reqs
  /\ svl.pc \in {"checkWait", "haltWait"} => svl.pod \in Pods

SvlTypeInv == SvlTypeOK /\ SvlAtWork
TypeInv == PodTypeInv /\ SvlTypeInv

LEMMA TypeInit == Init => TypeInv
<1> SUFFICES ASSUME Init PROVE TypeInv
  OBVIOUS
<1>1. PodTypeInv
  BY PodTypeInit DEF Init
<1>2. SvlAtWork /\ svl \in SvlState
  BY PodAssumption DEF Init, Selecting, SvlAt, SvlAtWork, SvlState
<1>3. client \in [Reqs -> ClientStates] /\ result \in [Reqs -> Results]
  BY DEF Init, ClientStates, Results
<1>4. route \in [Reqs -> Routes]
  BY PodAssumption DEF Init, NoRoute, Routes
<1>5. svlQ \in Seq(ServerlessTrigger) /\ stored \in SUBSET Names
  BY DEF Init
<1> QED
  BY <1>1, <1>2, <1>3, <1>4, <1>5 DEF Init, TypeInv, SvlTypeInv, SvlTypeOK

LEMMA ServerlessTriggers ==
  /\ \A m \in ServerlessTrigger : m.req \in Reqs
  /\ \A t \in Kinds \cup {"toPod"}, c \in Reqs : Trigger(t, c) \in ServerlessTrigger
BY DEF ServerlessTrigger, Trigger

\* The handlers.
LEMMA ClientTypeStep ==
  ASSUME TypeInv, NEW c \in Reqs, ClientStep(c)
  PROVE  TypeInv'
<1> USE DEF TypeInv, SvlTypeInv, SvlTypeOK
<1>1. ASSUME NEW r \in Results, Respond(c, r),
             UNCHANGED <<op, route, svlQ, svl, stored, podVars>>
      PROVE  TypeInv'
  <2>1. client' \in [Reqs -> ClientStates] /\ result' \in [Reqs -> Results]
    BY <1>1 DEF Respond, ClientStates
  <2>2. PodTypeInv' /\ SvlAtWork'
    BY <1>1 DEF podVars, PodTypeInv, PodTypeOK, NoIdReturned, SvlAtWork
  <2> QED
    BY <1>1, <2>1, <2>2
<1>2. ASSUME NEW t \in Kinds \cup {"toPod"}, Send(Trigger(t, c)),
             \/ UNCHANGED reply
             \/ reply' = [reply EXCEPT ![c] = "pending"],
             client' \in [Reqs -> ClientStates], result' \in [Reqs -> Results],
             UNCHANGED <<op, route, svl, stored, pod, podQ, table, answer,
                         worker, wq, held, killed>>
      PROVE  TypeInv'
  <2>1. svlQ' \in Seq(ServerlessTrigger)
    BY <1>2, ServerlessTriggers DEF Send
  <2>2. reply' \in [Reqs -> Replies]
    BY <1>2 DEF PodTypeInv, PodTypeOK, Replies
  <2>3. PodTypeInv' /\ SvlAtWork'
    BY <1>2, <2>2 DEF PodTypeInv, PodTypeOK, NoIdReturned, SvlAtWork
  <2> QED
    BY <1>2, <2>1, <2>3
<1>3. CASE ClientSubmits(c)
  <2>1. op[c].kind \in Kinds
    OBVIOUS
  <2>2. client' \in [Reqs -> ClientStates] /\ result' \in [Reqs -> Results]
    BY <1>3 DEF ClientSubmits, Respond, ClientStates, Results
  <2> QED
    BY <1>2, <1>3, <2>1, <2>2 DEF ClientSubmits
<1>4. CASE ClientFindsClosed(c) \/ ClientBadBody(c) \/ ClientUploaded(c)
  BY <1>1, <1>4 DEF ClientFindsClosed, ClientBadBody, ClientUploaded, Results
<1>5. CASE ClientNotCreated(c) \/ ClientCannotSendHttp(c) \/ ClientAnswered(c)
  BY <1>1, <1>5 DEF ClientNotCreated, ClientCannotSendHttp, ClientAnswered, Results
<1>6. CASE ClientSendsHttp(c)
  <2>1. client' \in [Reqs -> ClientStates] /\ result' \in [Reqs -> Results]
    BY <1>6 DEF ClientSendsHttp, ClientStates
  <2> QED
    BY <1>2, <1>6, <2>1 DEF ClientSendsHttp
<1> QED
  BY <1>3, <1>4, <1>5, <1>6 DEF ClientStep

LEMMA ClientGoneTypeStep ==
  ASSUME TypeInv, NEW c \in Reqs, ClientGone(c)
  PROVE  TypeInv'
<1>1. client' \in [Reqs -> ClientStates]
  BY DEF ClientGone, ClientStates, TypeInv, SvlTypeInv, SvlTypeOK
<1> QED
  BY <1>1 DEF ClientGone, podVars, TypeInv, SvlTypeInv, SvlTypeOK, SvlAtWork, PodTypeInv,
              PodTypeOK, NoIdReturned

\* The serverless task, and the two ways it is stopped.
LEMMA SvlTypeStep ==
  ASSUME TypeInv, SvlStep \/ SvlCtrlC \/ SvlServerExits
  PROVE  TypeInv'
<1> USE PodAssumption DEF TypeInv, SvlTypeInv, SvlTypeOK, Selecting, SvlAt
<1>1. ASSUME UNCHANGED <<pod, podQ, table, answer, worker, wq, held, killed>>,
             reply' \in [Reqs -> Replies]
      PROVE  PodTypeInv'
  BY <1>1 DEF PodTypeInv, PodTypeOK, NoIdReturned
<1>2. UNCHANGED podVars => PodTypeInv'
  BY DEF podVars, PodTypeInv, PodTypeOK, NoIdReturned
<1>3. ASSUME NEW p, NEW m \in PodTrigger, SendToPod(p, m),
             UNCHANGED <<pod, table, answer, worker, wq, held, killed, reply>>
      PROVE  p \in Pods /\ PodTypeInv'
  <2>1. p \in Pods /\ podQ' \in [Pods -> Seq(PodTrigger)]
    BY <1>3, Sending DEF SendToPod, PodTypeInv, PodTypeOK
  <2> QED
    BY <1>3, <2>1 DEF PodTypeInv, PodTypeOK, NoIdReturned
<1>4. ASSUME NEW t, SvlReceived(t)
      PROVE  Head(svlQ).req \in Reqs /\ svlQ' \in Seq(ServerlessTrigger)
  BY <1>4, ServerlessTriggers DEF SvlReceived
<1>5. ASSUME NEW c \in Reqs, NEW r \in Replies, SvlReply(c, r)
      PROVE  reply' \in [Reqs -> Replies]
  BY <1>5 DEF SvlReply, PodTypeInv, PodTypeOK
<1>6. ASSUME DropQueue
      PROVE  reply' \in [Reqs -> Replies] /\ svlQ' \in Seq(ServerlessTrigger)
  <2>1. "dropped" \in Replies
    BY DEF Replies
  <2> QED
    BY <1>6, <2>1 DEF DropQueue, PodTypeInv, PodTypeOK
<1>7. CASE SvlCreateNoCode
  <2>1. reply' \in [Reqs -> Replies] /\ svlQ' \in Seq(ServerlessTrigger)
    BY <1>4, <1>5, <1>7 DEF SvlCreateNoCode, Replies
  <2> QED
    BY <1>1, <1>7, <2>1 DEF SvlCreateNoCode, SvlUnchangedPods, SvlAtWork
<1>8. CASE SvlCreate
  <2>1. svl' \in SvlState /\ SvlAtWork' /\ svlQ' \in Seq(ServerlessTrigger)
    BY <1>4, <1>8 DEF SvlCreate, SvlState, SvlAtWork
  <2> QED
    BY <1>2, <1>8, <2>1 DEF SvlCreate
<1>9. CASE SvlUpload
  <2>1. reply' \in [Reqs -> Replies] /\ svlQ' \in Seq(ServerlessTrigger)
    BY <1>4, <1>5, <1>9 DEF SvlUpload, Replies
  <2>2. stored' \in SUBSET Names
    BY <1>9, <1>4 DEF SvlUpload
  <2> QED
    BY <1>1, <1>9, <2>1, <2>2 DEF SvlUpload, SvlUnchangedPods, SvlAtWork
<1>10. CASE SvlRemove
  BY <1>2, <1>4, <1>10 DEF SvlRemove, SvlAtWork
<1>11. CASE SvlToPod
  <2>1. svl' \in SvlState /\ SvlAtWork' /\ svlQ' \in Seq(ServerlessTrigger)
    BY <1>4, <1>11 DEF SvlToPod, SvlState, SvlAtWork, Routes
  <2> QED
    BY <1>2, <1>11, <2>1 DEF SvlToPod
<1>12. CASE SvlForward
  <2>1. ToWorker(svl.req, route[svl.req].id) \in PodTrigger
    BY <1>12, PodTriggers DEF SvlForward, SvlAtWork, Routes
  <2>2. PodTypeInv'
    BY <1>3, <1>12, <2>1 DEF SvlForward
  <2>3. svl' \in SvlState /\ SvlAtWork'
    BY <1>12 DEF SvlForward, SvlState, SvlAtWork
  <2> QED
    BY <1>12, <2>2, <2>3 DEF SvlForward
<1>13. CASE SvlAsksVacancy
  <2>1. svl.pod \in Pods /\ PodTypeInv'
    BY <1>3, <1>13, PodTriggers DEF SvlAsksVacancy
  <2>2. svl' \in SvlState /\ SvlAtWork'
    BY <1>13, <2>1 DEF SvlAsksVacancy, SvlState, SvlAtWork
  <2> QED
    BY <1>13, <2>1, <2>2 DEF SvlAsksVacancy
<1>14. CASE SvlToldVacancy
  <2>1. svl' \in SvlState /\ SvlAtWork'
    BY <1>14 DEF SvlToldVacancy, SvlState, SvlAtWork, Pods
  <2>2. PodTypeInv'
    BY <1>14 DEF SvlToldVacancy, PodTypeInv, PodTypeOK, NoIdReturned, Answers, NoAnswer
  <2> QED
    BY <1>14, <2>1, <2>2 DEF SvlToldVacancy
<1>15. CASE SvlNoVacancy
  <2>1. reply' \in [Reqs -> Replies]
    BY <1>5, <1>15 DEF SvlNoVacancy, Replies, SvlAtWork
  <2>2. svl' \in SvlState /\ SvlAtWork'
    BY <1>15 DEF SvlNoVacancy, SvlState, SvlAtWork
  <2> QED
    BY <1>1, <1>15, <2>1, <2>2 DEF SvlNoVacancy, SvlUnchangedPods
<1>16. CASE SvlAsksWorker
  <2>1. CreateWorkerFor(svl.req) \in PodTrigger
    BY <1>16, PodTriggers DEF SvlAsksWorker, SvlAtWork
  <2>2. PodTypeInv'
    BY <1>3, <1>16, <2>1 DEF SvlAsksWorker
  <2>3. svl' \in SvlState /\ SvlAtWork'
    BY <1>16 DEF SvlAsksWorker, SvlState, SvlAtWork
  <2> QED
    BY <1>16, <2>2, <2>3 DEF SvlAsksWorker
<1>17. CASE SvlCreated
  <2>1. svl' \in SvlState /\ SvlAtWork'
    BY <1>17 DEF SvlCreated, SvlState, SvlAtWork
  <2>2. route' \in [Reqs -> Routes]
    BY <1>17 DEF SvlCreated, SvlState, SvlAtWork, Routes, PodTypeInv, PodTypeOK, Answers
  <2>3. reply' \in [Reqs -> Replies]
    BY <1>5, <1>17 DEF SvlCreated, Replies, SvlAtWork
  <2>4. PodTypeInv'
    BY <1>17, <2>3 DEF SvlCreated, PodTypeInv, PodTypeOK, NoIdReturned, Answers, NoAnswer
  <2> QED
    BY <1>17, <2>1, <2>2, <2>4 DEF SvlCreated
<1>18. CASE SvlHaltsPod
  <2>1. svl.pod \in Pods /\ PodTypeInv'
    BY <1>3, <1>18, PodTriggers DEF SvlHaltsPod
  <2>2. svl' \in SvlState /\ SvlAtWork'
    BY <1>18, <2>1 DEF SvlHaltsPod, SvlState, SvlAtWork
  <2> QED
    BY <1>18, <2>1, <2>2 DEF SvlHaltsPod
<1>19. CASE SvlPodHalted
  <2>1. svl' \in SvlState /\ SvlAtWork'
    BY <1>19 DEF SvlPodHalted, SvlState, SvlAtWork, Pods
  <2> QED
    BY <1>2, <1>19, <2>1 DEF SvlPodHalted
<1>20. CASE SvlJoined
  <2>1. svl' \in SvlState /\ SvlAtWork'
    BY <1>20 DEF SvlJoined, SvlState, SvlAtWork
  <2> QED
    BY <1>1, <1>6, <1>20, <2>1 DEF SvlJoined, SvlUnchangedPods
<1>21. CASE SvlCtrlC
  <2>1. svl' \in SvlState /\ SvlAtWork'
    BY <1>21 DEF SvlCtrlC, SvlState, SvlAtWork
  <2> QED
    BY <1>2, <1>21, <2>1 DEF SvlCtrlC
<1>22. CASE SvlServerExits
  <2>1. svl' \in SvlState /\ SvlAtWork'
    BY <1>22 DEF SvlServerExits, SvlState, SvlAtWork
  <2> QED
    BY <1>1, <1>6, <1>22, <2>1 DEF SvlServerExits, SvlUnchangedPods
<1> QED
  BY <1>7, <1>8, <1>9, <1>10, <1>11, <1>12, <1>13, <1>14, <1>15, <1>16, <1>17,
     <1>18, <1>19, <1>20, <1>21, <1>22 DEF SvlStep

LEMMA TypeStep == TypeInv /\ [Next]_vars => TypeInv'
<1> SUFFICES ASSUME TypeInv, [Next]_vars PROVE TypeInv'
  OBVIOUS
<1>1. ASSUME UNCHANGED svlVars PROVE SvlTypeInv'
  BY <1>1 DEF svlVars, TypeInv, SvlTypeInv, SvlTypeOK, SvlAtWork
<1>2. ASSUME NEW p \in Pods, PodStep(p) \/ PodAbandoned(p), UNCHANGED svlVars
      PROVE  TypeInv'
  BY <1>1, <1>2, PodTypeStep DEF TypeInv
<1>3. ASSUME NEW w \in Reqs, WorkerStep(w) \/ WorkerEvent(w), UNCHANGED svlVars
      PROVE  TypeInv'
  BY <1>1, <1>3, WorkerTypeStep DEF TypeInv
<1>4. CASE UNCHANGED vars
  BY <1>1, <1>4 DEF vars, podVars, TypeInv, PodTypeInv, PodTypeOK, NoIdReturned
<1> QED
  BY <1>2, <1>3, <1>4, ClientTypeStep, ClientGoneTypeStep, SvlTypeStep
  DEF Next, PodTurn, Terminated

(***************************************************************************)
(* Every variable keeps its type, for any number of requests and pods.     *)
(***************************************************************************)
THEOREM Typing == Spec => []TypeOK
<1>1. Spec => []TypeInv
  BY TypeInit, TypeStep, PTL DEF Spec
<1>2. TypeInv => TypeOK
  BY DEF TypeInv, SvlTypeInv, PodTypeInv, TypeOK
<1> QED
  BY <1>1, <1>2, PTL
-----------------------------------------------------------------------------
(***************************************************************************)
(* The invariant that makes the properties inductive.  Its core is the     *)
(* request-response discipline of the serverless task: a CheckVacancies or *)
(* CreateWorker trigger is in a pod's channel only as its last element,    *)
(* only while the serverless task waits for exactly that answer.           *)
(***************************************************************************)
TablesFilled ==
  \A p \in Pods : /\ Len(table[p].workers) <= NWorkers
                  /\ table[p].capacity = NWorkers
                  /\ table[p].vacancies = <<>>
                  /\ \A i \in 1 .. Len(table[p].workers) : table[p].workers[i] \in Reqs

HasRoom(p) == p \in Pods /\ Len(table[p].workers) < NWorkers

\* Slot id of pod p holds the worker of request c.
PlacedIn(t, p, id, c) ==
  /\ p \in Pods
  /\ id \in Nat
  /\ id < Len(t[p].workers)
  /\ t[p].workers[id + 1] = c

Placed(p, id, c) == PlacedIn(table, p, id, c)

QuestionsInTurn ==
  \A p \in Pods : \A i \in 1 .. Len(podQ[p]) :
    /\ podQ[p][i].type = "check" =>
         svl.pc = "checkWait" /\ svl.pod = p /\ answer = NoAnswer /\ i = Len(podQ[p])
    /\ podQ[p][i].type = "create" =>
         /\ svl.pc = "createWait" /\ svl.pod = p /\ answer = NoAnswer
         /\ i = Len(podQ[p])
         /\ podQ[p][i].req = svl.req
         /\ HasRoom(p)
    /\ podQ[p][i].type = "toWorker" => Placed(p, podQ[p][i].id, podQ[p][i].req)

AnswersInTurn ==
  /\ answer.tag = "none" => answer = NoAnswer
  /\ answer.tag \in {"yes", "no"} => svl.pc = "checkWait"
  /\ answer.tag = "created" => svl.pc = "createWait" /\ Placed(svl.pod, answer.id, svl.req)
  /\ answer.tag = "yes" \/ svl.pc = "create" => HasRoom(svl.pod)

RoutesPlaced ==
  /\ \A c \in Reqs : reply[c] = "created" => Placed(route[c].pod, route[c].id, c)
  /\ \A i \in 1 .. Len(svlQ) : svlQ[i].type = "toPod" =>
       LET c == svlQ[i].req IN Placed(route[c].pod, route[c].id, c)
  /\ svl.pc = "toPod" => /\ svl.pod = route[svl.req].pod
                         /\ Placed(route[svl.req].pod, route[svl.req].id, svl.req)

OwnTriggers ==
  \A w \in Reqs : /\ \A i \in 1 .. Len(wq[w]) : wq[w][i].type = "http" => wq[w][i].req = w
                  /\ held[w] \subseteq {w}

\* Pods before the one being asked have answered "no", and stay full.
Full(q) == Len(table[q].workers) >= NWorkers

ScanInOrder ==
  /\ svl.pc \in {"check", "checkWait"} => \A q \in Pods : q < svl.pod => Full(q)
  /\ answer.tag = "no" => Full(svl.pod)

Inv ==
  /\ TablesFilled
  /\ QuestionsInTurn
  /\ AnswersInTurn
  /\ RoutesPlaced
  /\ OwnTriggers
  /\ ScanInOrder
  /\ RefusedOnlyWhenFull

LEMMA InvInit == Init => Inv
<1> SUFFICES ASSUME Init PROVE Inv
  OBVIOUS
<1> USE DEF Init, PodInit
<1>1. TablesFilled
  BY NWorkersAssumption DEF TablesFilled, EmptyTable
<1>2. QuestionsInTurn /\ OwnTriggers
  BY DEF QuestionsInTurn, OwnTriggers
<1>3. AnswersInTurn /\ ScanInOrder
  BY DEF AnswersInTurn, ScanInOrder, NoAnswer, Selecting, SvlAt
<1>4. RoutesPlaced /\ RefusedOnlyWhenFull
  BY DEF RoutesPlaced, RefusedOnlyWhenFull, Selecting, SvlAt
<1> QED
  BY <1>1, <1>2, <1>3, <1>4 DEF Inv

\* The handlers.
LEMMA ClientInvStep ==
  ASSUME TypeInv, Inv, NEW c \in Reqs, ClientStep(c)
  PROVE  Inv'
<1> USE DEF Inv
<1>1. UNCHANGED <<svl, route, pod, podQ, table, answer, worker, wq, held>>
  BY DEF ClientStep, ClientSubmits, ClientFindsClosed, ClientBadBody, ClientUploaded,
         ClientNotCreated, ClientSendsHttp, ClientCannotSendHttp, ClientAnswered, podVars
<1>2. TablesFilled' /\ QuestionsInTurn' /\ AnswersInTurn'
  BY <1>1 DEF TablesFilled, QuestionsInTurn, AnswersInTurn, HasRoom, Placed, PlacedIn
<1>3. OwnTriggers' /\ ScanInOrder'
  BY <1>1 DEF OwnTriggers, ScanInOrder, Full
<1>4. \A d \in Reqs : reply'[d] # reply[d] => reply'[d] = "pending"
  BY DEF ClientStep, ClientSubmits, ClientFindsClosed, ClientBadBody, ClientUploaded,
         ClientNotCreated, ClientSendsHttp, ClientCannotSendHttp, ClientAnswered, podVars,
         TypeInv, PodTypeInv, PodTypeOK
<1>5. RefusedOnlyWhenFull'
  BY <1>1, <1>4 DEF RefusedOnlyWhenFull
<1>6. RoutesPlaced'
  <2>1. \A q, id, d : Placed(q, id, d)' <=> Placed(q, id, d)
    BY <1>1 DEF Placed, PlacedIn
  <2>2. /\ \A d \in Reqs : reply'[d] = "created" => Placed(route'[d].pod, route'[d].id, d)
        /\ svl'.pc = "toPod" => /\ svl'.pod = route'[svl'.req].pod
                              /\ Placed(route'[svl'.req].pod, route'[svl'.req].id, svl'.req)
    BY <1>1, <1>4 DEF RoutesPlaced
  <2>3. \A i \in 1 .. Len(svlQ') : svlQ'[i].type = "toPod" =>
          Placed(route[svlQ'[i].req].pod, route[svlQ'[i].req].id, svlQ'[i].req)
    <3>1. CASE ClientSubmits(c)
      <4>1. op[c].kind # "toPod"
        BY DEF TypeInv, SvlTypeInv, SvlTypeOK, Kinds
      <4> QED
        BY <3>1, <4>1 DEF ClientSubmits, Send, Trigger, RoutesPlaced, TypeInv, SvlTypeInv, SvlTypeOK
    <3>2. CASE ClientSendsHttp(c)
      <4>1. Placed(route[c].pod, route[c].id, c)
        BY <3>2 DEF ClientSendsHttp, RoutesPlaced
      <4> QED
        BY <3>2, <4>1 DEF ClientSendsHttp, Send, Trigger, RoutesPlaced, TypeInv, SvlTypeInv, SvlTypeOK
    <3>3. CASE UNCHANGED svlQ
      BY <3>3 DEF RoutesPlaced
    <3> QED
      BY <3>1, <3>2, <3>3 DEF ClientStep, ClientFindsClosed, ClientBadBody, ClientUploaded,
         ClientNotCreated, ClientCannotSendHttp, ClientAnswered
  <2> QED
    BY <1>1, <2>1, <2>2, <2>3 DEF RoutesPlaced
<1> QED
  BY <1>2, <1>3, <1>5, <1>6

(***************************************************************************)
(* What a step has to show that touches neither the slots nor the dialogue *)
(* of the serverless task with a pod.                                      *)
(***************************************************************************)
LEMMA QuietStep ==
  ASSUME Inv, UNCHANGED <<svl, svlQ, route, podQ, table, answer>>,
         \A d \in Reqs : reply'[d] # reply[d] => reply'[d] \notin {"created", "noVacancy"},
         OwnTriggers'
  PROVE  Inv'
<1> USE DEF Inv
<1>1. TablesFilled' /\ QuestionsInTurn' /\ AnswersInTurn'
  BY DEF TablesFilled, QuestionsInTurn, AnswersInTurn, HasRoom, Placed, PlacedIn
<1>2. ScanInOrder' /\ RefusedOnlyWhenFull'
  BY DEF ScanInOrder, Full, RefusedOnlyWhenFull
<1>3. RoutesPlaced'
  BY DEF RoutesPlaced, Placed, PlacedIn
<1> QED
  BY <1>1, <1>2, <1>3

\* A worker's channel gets a message: an Http trigger must be the worker's own.
LEMMA OwnTriggersSend ==
  ASSUME OwnTriggers, wq \in [Reqs -> Seq(WorkerTrigger)],
         NEW v \in Reqs, NEW m \in WorkerTrigger, m.type = "http" => m.req = v,
         wq' = [wq EXCEPT ![v] = Append(@, m)], held' = held
  PROVE  OwnTriggers'
<1>1. \A u \in Reqs : u # v => wq'[u] = wq[u]
  OBVIOUS
<1>2. wq'[v] = Append(wq[v], m)
  OBVIOUS
<1>3. \A i \in 1 .. Len(wq'[v]) : wq'[v][i].type = "http" => wq'[v][i].req = v
  <2> SUFFICES ASSUME NEW i \in 1 .. Len(wq'[v]), wq'[v][i].type = "http"
               PROVE  wq'[v][i].req = v
    OBVIOUS
  <2>1. wq[v] \in Seq(WorkerTrigger)
    OBVIOUS
  <2>2. CASE i = Len(wq[v]) + 1
    BY <1>2, <2>1, <2>2
  <2>3. CASE i # Len(wq[v]) + 1
    <3>1. i \in 1 .. Len(wq[v]) /\ wq'[v][i] = wq[v][i]
      BY <1>2, <2>1, <2>3
    <3> QED
      BY <3>1 DEF OwnTriggers
  <2> QED
    BY <2>2, <2>3
<1> QED
  BY <1>1, <1>3 DEF OwnTriggers

\* The workers: a request stays with the worker that has it, or leaves it.
LEMMA WorkerInvStep ==
  ASSUME TypeInv, Inv, NEW w \in Reqs, WorkerStep(w) \/ WorkerEvent(w), UNCHANGED svlVars
  PROVE  Inv'
<1> USE DEF TypeInv, PodTypeInv, PodTypeOK
<1>1. UNCHANGED <<svl, svlQ, route, podQ, table, answer>>
  BY DEF svlVars, WorkerStep, WorkerEvent, WorkerReady, WorkerStartFails, WorkerHoldsHttp,
         WorkerIgnoresHttp, WorkerFailsHttp, WorkerFailsKept, WorkerHalts, WorkerReplies,
         WorkerCloses, MonitorKills, LeaveLoop
<1>2. \A d \in Reqs : reply'[d] # reply[d] => reply'[d] \notin {"created", "noVacancy"}
  BY DEF WorkerStep, WorkerEvent, WorkerReady, WorkerStartFails, WorkerHoldsHttp,
         WorkerIgnoresHttp, WorkerFailsHttp, WorkerFailsKept, WorkerHalts, WorkerReplies,
         WorkerCloses, MonitorKills, LeaveLoop
<1>3. OwnTriggers'
  <2> USE DEF Inv, OwnTriggers
  <2>1. CASE WorkerReady(w)
    BY <2>1 DEF WorkerReady
  <2>2. CASE WorkerStartFails(w) \/ WorkerFailsHttp(w) \/ WorkerHalts(w)
    <3>1. wq' = [wq EXCEPT ![w] = <<>>] /\ held' = held
      BY <2>2 DEF WorkerStartFails, WorkerFailsHttp, WorkerHalts, LeaveLoop
    <3> QED
      BY <3>1
  <2>3. CASE WorkerHoldsHttp(w)
    <3>1. Head(wq[w]).req = w
      BY <2>3 DEF WorkerHoldsHttp, WorkerReceives
    <3> QED
      BY <2>3, <3>1 DEF WorkerHoldsHttp, WorkerReceives
  <2>4. CASE WorkerIgnoresHttp(w)
    BY <2>4 DEF WorkerIgnoresHttp, WorkerReceives
  <2>5. ASSUME NEW c \in Reqs, WorkerReplies(w, c) PROVE OwnTriggers'
    BY <2>5 DEF WorkerReplies
  <2>6. CASE WorkerCloses(w)
    BY <2>6 DEF WorkerCloses
  <2>7. CASE MonitorKills(w)
    <3>1. MonitorHalt \in WorkerTrigger /\ MonitorHalt.type # "http"
      BY WorkerTriggers DEF MonitorHalt
    <3>2. wq' = [wq EXCEPT ![w] = Append(@, MonitorHalt)] /\ held' = held
      BY <2>7 DEF MonitorKills
    <3> HIDE DEF OwnTriggers
    <3> QED
      BY <3>1, <3>2, OwnTriggersSend
  <2>8. CASE WorkerFailsKept(w)
    <3>1. Head(wq[w]).req = w
      BY <2>8 DEF WorkerFailsKept, WorkerReceives
    <3> QED
      BY <2>8, <3>1 DEF WorkerFailsKept, WorkerReceives
  <2> QED
    BY <2>1, <2>2, <2>3, <2>4, <2>5, <2>6, <2>7, <2>8 DEF WorkerStep, WorkerEvent
<1> QED
  BY <1>1, <1>2, <1>3, QuietStep

\* A pod takes a trigger that is no question from its channel.
LEMMA QuestionsTail ==
  ASSUME QuestionsInTurn, podQ \in [Pods -> Seq(PodTrigger)], NEW p \in Pods,
         podQ[p] # <<>>, podQ' = [podQ EXCEPT ![p] = Tail(@)],
         UNCHANGED <<svl, answer, table>>
  PROVE  QuestionsInTurn'
<1> SUFFICES ASSUME NEW q \in Pods, NEW i \in 1 .. Len(podQ'[q])
             PROVE
    /\ podQ'[q][i].type = "check" =>
         svl.pc = "checkWait" /\ svl.pod = q /\ answer = NoAnswer /\ i = Len(podQ'[q])
    /\ podQ'[q][i].type = "create" =>
         /\ svl.pc = "createWait" /\ svl.pod = q /\ answer = NoAnswer
         /\ i = Len(podQ'[q])
         /\ podQ'[q][i].req = svl.req
         /\ HasRoom(q)
    /\ podQ'[q][i].type = "toWorker" => Placed(q, podQ'[q][i].id, podQ'[q][i].req)
  BY DEF QuestionsInTurn, HasRoom, Placed, PlacedIn
<1>1. CASE q = p
  <2>1. /\ i + 1 \in 1 .. Len(podQ[p])
        /\ podQ'[q][i] = podQ[p][i + 1]
        /\ Len(podQ'[q]) = Len(podQ[p]) - 1
        /\ Len(podQ[p]) \in Nat
    BY <1>1
  <2>2. /\ podQ[p][i + 1].type = "check" =>
             svl.pc = "checkWait" /\ svl.pod = p /\ answer = NoAnswer
             /\ i + 1 = Len(podQ[p])
        /\ podQ[p][i + 1].type = "create" =>
             /\ svl.pc = "createWait" /\ svl.pod = p /\ answer = NoAnswer
             /\ i + 1 = Len(podQ[p])
             /\ podQ[p][i + 1].req = svl.req
             /\ HasRoom(p)
        /\ podQ[p][i + 1].type = "toWorker" =>
             Placed(p, podQ[p][i + 1].id, podQ[p][i + 1].req)
    BY <2>1 DEF QuestionsInTurn
  <2>3. i + 1 = Len(podQ[p]) => i = Len(podQ'[q])
    BY <2>1
  <2> QED
    BY <1>1, <2>1, <2>2, <2>3, Zenon
<1>2. CASE q # p
  <2>1. podQ'[q] = podQ[q]
    BY <1>2
  <2> QED
    BY <2>1 DEF QuestionsInTurn
<1> QED
  BY <1>1, <1>2

\* A pod takes a question: it was the only one, in any channel.
LEMMA QuestionsAnswered ==
  ASSUME QuestionsInTurn, podQ \in [Pods -> Seq(PodTrigger)], NEW p \in Pods,
         podQ[p] # <<>>, Head(podQ[p]).type \in {"check", "create"},
         podQ' = [podQ EXCEPT ![p] = Tail(@)],
         \A q, id, c : PlacedIn(table, q, id, c) => PlacedIn(table', q, id, c)
  PROVE  QuestionsInTurn'
<1>1. svl.pod = p /\ podQ'[p] = <<>>
  <2>1. 1 \in 1 .. Len(podQ[p]) /\ podQ[p][1] = Head(podQ[p]) /\ Len(podQ[p]) \in Nat
    OBVIOUS
  <2>2. svl.pod = p /\ Len(podQ[p]) = 1
    BY <2>1 DEF QuestionsInTurn
  <2> QED
    BY <2>2
<1> SUFFICES ASSUME NEW q \in Pods, NEW i \in 1 .. Len(podQ'[q])
             PROVE  /\ podQ'[q][i].type \notin {"check", "create"}
                    /\ podQ'[q][i].type = "toWorker" =>
                          PlacedIn(table', q, podQ'[q][i].id, podQ'[q][i].req)
  BY DEF QuestionsInTurn, Placed
<1>2. q # p
  <2>1. 1 .. Len(podQ'[p]) = {}
    BY <1>1
  <2> QED
    BY <2>1
<1>3. podQ'[q] = podQ[q]
  BY <1>2
<1> QED
  BY <1>1, <1>2, <1>3 DEF QuestionsInTurn, Placed

\* Creation answers the question the serverless task waits with, in a new slot.
LEMMA CreationStep ==
  ASSUME TypeInv, Inv, NEW p \in Pods, PodCreateWorker(p)
  PROVE  LET n == Len(table[p].workers)
             c == svl.req
         IN  /\ podQ[p] # <<>> /\ podQ' = [podQ EXCEPT ![p] = Tail(@)]
             /\ Head(podQ[p]).type = "create" /\ Head(podQ[p]).req = c
             /\ svl.pc = "createWait" /\ svl.pod = p
             /\ n \in Nat /\ n < NWorkers /\ c \in Reqs
             /\ table'[p].vacancies = <<>> /\ table'[p].capacity = NWorkers
             /\ Len(table'[p].workers) = n + 1
             /\ \A i \in 1 .. n : table'[p].workers[i] = table[p].workers[i]
             /\ table'[p].workers[n + 1] = c
             /\ \A q \in Pods : q # p => table'[q] = table[q]
             /\ answer' = [tag |-> "created", id |-> n]
             /\ worker' = [worker EXCEPT ![c] = "starting"]
             /\ UNCHANGED <<pod, wq, held, killed, reply>>
<1> USE DEF TypeInv, PodTypeInv, PodTypeOK
<1> DEFINE c == svl.req
<1> DEFINE n == Len(table[p].workers)
<1>1. /\ podQ[p] # <<>> /\ podQ' = [podQ EXCEPT ![p] = Tail(@)]
      /\ Head(podQ[p]).type = "create" /\ Head(podQ[p]).req \in Reqs
      /\ UNCHANGED <<pod, wq, held, killed, reply>>
  BY PodTriggers DEF PodCreateWorker, Received
<1>2. /\ svl.pc = "createWait" /\ svl.pod = p /\ HasRoom(p)
      /\ Head(podQ[p]).req = c
  <2>1. 1 \in 1 .. Len(podQ[p]) /\ Head(podQ[p]) = podQ[p][1]
    BY <1>1
  <2> QED
    BY <1>1, <2>1 DEF Inv, QuestionsInTurn
<1>3. /\ table' = [table EXCEPT ![p] = CreateWorker(@, c)]
      /\ answer' = [tag |-> "created", id |-> NextWorkerId(table[p])]
      /\ worker' = [worker EXCEPT ![c] = "starting"]
  BY <1>2 DEF PodCreateWorker
<1>4. /\ NextWorkerId(table[p]) = n
      /\ CreateWorker(table[p], c).vacancies = <<>>
      /\ CreateWorker(table[p], c).capacity = NWorkers
      /\ Len(CreateWorker(table[p], c).workers) = n + 1
      /\ \A i \in 1 .. n : CreateWorker(table[p], c).workers[i] = table[p].workers[i]
      /\ CreateWorker(table[p], c).workers[n + 1] = c
  <2>1. table[p] \in TableType /\ c \in Reqs
    BY <1>1, <1>2
  <2>2. table[p].vacancies = <<>> /\ n < table[p].capacity /\ table[p].capacity = NWorkers
    BY <1>2 DEF Inv, TablesFilled, HasRoom
  <2> QED
    BY <2>1, <2>2, CreateWorkerAppends
<1>5. n \in Nat /\ n < NWorkers /\ c \in Reqs
  BY <1>1, <1>2 DEF HasRoom, TableType
<1>6. /\ table'[p].vacancies = <<>> /\ table'[p].capacity = NWorkers
      /\ Len(table'[p].workers) = n + 1
      /\ \A i \in 1 .. n : table'[p].workers[i] = table[p].workers[i]
      /\ table'[p].workers[n + 1] = c
      /\ \A q \in Pods : q # p => table'[q] = table[q]
      /\ answer' = [tag |-> "created", id |-> n]
  BY <1>3, <1>4
<1> QED
  BY <1>1, <1>2, <1>3, <1>5, <1>6

(***************************************************************************)
(* What holds of slots and of the ids handed out, after a step of a pod    *)
(* that gives no slot away.                                                *)
(***************************************************************************)
LEMMA SlotsUntouched ==
  ASSUME Inv, UNCHANGED <<svl, svlQ, route, table>>,
         \A d \in Reqs : reply'[d] # reply[d] => reply'[d] \notin {"created", "noVacancy"}
  PROVE  /\ TablesFilled' /\ RoutesPlaced' /\ RefusedOnlyWhenFull'
         /\ answer' = answer => AnswersInTurn' /\ ScanInOrder'
<1> USE DEF Inv
<1>1. TablesFilled' /\ RefusedOnlyWhenFull'
  BY DEF TablesFilled, RefusedOnlyWhenFull
<1>2. RoutesPlaced'
  BY DEF RoutesPlaced, Placed, PlacedIn
<1>3. answer' = answer => AnswersInTurn' /\ ScanInOrder'
  BY DEF AnswersInTurn, HasRoom, Placed, PlacedIn, ScanInOrder, Full
<1> QED
  BY <1>1, <1>2, <1>3

(***************************************************************************)
(* The pods.  A trigger that creates a worker was sent after its pod said  *)
(* it has room, and nothing came between.                                  *)
(***************************************************************************)
LEMMA PodInvStep ==
  ASSUME TypeInv, Inv, NEW p \in Pods, PodStep(p) \/ PodAbandoned(p), UNCHANGED svlVars
  PROVE  Inv'
<1> USE DEF TypeInv, PodTypeInv, PodTypeOK
<1>1. UNCHANGED <<svl, svlQ, route>>
  BY DEF svlVars
<1>2. CASE PodDrain(p)
  <2>1. OwnTriggers'
    <3> DEFINE w == table[p].workers[pod[p].at + 1]
    <3>1. w \in Reqs \cup {None}
      BY <1>2 DEF PodDrain, PodState, TableType
    <3>2. /\ held' = held
          /\ \/ wq' = wq
             \/ w # None /\ wq' = [wq EXCEPT ![w] = Append(@, PodHalt)]
      BY <1>2 DEF PodDrain, Listening
    <3>3. ASSUME NEW v \in Reqs, wq' = [wq EXCEPT ![v] = Append(@, PodHalt)], held' = held
          PROVE  OwnTriggers'
      <4>1. PodHalt \in WorkerTrigger /\ PodHalt.type # "http"
        BY WorkerTriggers DEF PodHalt
      <4> QED
        BY <3>3, <4>1, OwnTriggersSend DEF Inv
    <3>4. CASE wq' = wq
      BY <3>2, <3>4 DEF Inv, OwnTriggers
    <3> HIDE DEF w, TypeInv
    <3> QED
      BY <3>1, <3>2, <3>3, <3>4
  <2> QED
    BY <1>1, <1>2, <2>1, QuietStep DEF PodDrain
<1>3. CASE PodDrained(p) \/ PodHalted(p)
  <2>1. OwnTriggers'
    BY <1>3 DEF PodDrained, PodHalted, Inv, OwnTriggers
  <2> QED
    BY <1>1, <1>3, <2>1, QuietStep DEF PodDrained, PodHalted
<1>4. CASE PodExit(p) \/ PodAbandoned(p)
  <2>1. CancelWorkers(p) /\ UNCHANGED <<podQ, table, answer>>
    BY <1>4 DEF PodExit, PodAbandoned
  <2>2. \A w \in Reqs : wq'[w] \in {<<>>, wq[w]} /\ held'[w] \in {{}, held[w]}
    BY <2>1 DEF CancelWorkers
  <2>3. OwnTriggers'
    <3> SUFFICES ASSUME NEW w \in Reqs
                 PROVE  /\ \A i \in 1 .. Len(wq'[w]) :
                             wq'[w][i].type = "http" => wq'[w][i].req = w
                        /\ held'[w] \subseteq {w}
      BY DEF OwnTriggers
    <3>1. wq'[w] = <<>> \/ wq'[w] = wq[w]
      BY <2>2
    <3>2. held'[w] = {} \/ held'[w] = held[w]
      BY <2>2
    <3> QED
      BY <3>1, <3>2 DEF Inv, OwnTriggers
  <2>4. \A d \in Reqs : reply'[d] # reply[d] => reply'[d] \notin {"created", "noVacancy"}
    BY <2>1 DEF CancelWorkers
  <2> QED
    BY <1>1, <2>1, <2>3, <2>4, QuietStep
<1>5. CASE PodHaltReceived(p)
  <2>1. QuestionsInTurn'
    <3>1. podQ[p] # <<>> /\ podQ' = [podQ EXCEPT ![p] = Tail(@)] /\ UNCHANGED <<answer, table>>
      BY <1>5 DEF PodHaltReceived, Received
    <3> QED
      BY <1>1, <3>1, QuestionsTail DEF Inv
  <2>2. UNCHANGED <<table, answer, wq, held, reply>>
    BY <1>5 DEF PodHaltReceived
  <2>3. /\ TablesFilled' /\ RoutesPlaced' /\ RefusedOnlyWhenFull'
        /\ AnswersInTurn' /\ ScanInOrder' /\ OwnTriggers'
    BY <1>1, <2>2, SlotsUntouched DEF Inv, OwnTriggers
  <2> QED
    BY <2>1, <2>2, <2>3 DEF Inv
<1>6. CASE PodForward(p)
  <2> DEFINE m == Head(podQ[p])
  <2>1. /\ podQ[p] # <<>> /\ podQ' = [podQ EXCEPT ![p] = Tail(@)]
        /\ UNCHANGED <<pod, table, answer, worker, held>>
        /\ m.type = "toWorker" /\ m.req \in Reqs /\ m.id \in Nat
    BY <1>6, PodTriggers DEF PodForward, Received
  <2>2. QuestionsInTurn'
    BY <1>1, <2>1, QuestionsTail DEF Inv
  <2>3. GetWorker(table[p], m.id) = m.req
    <3>1. Placed(p, m.id, m.req)
      BY <2>1 DEF Inv, QuestionsInTurn
    <3> QED
      BY <3>1 DEF Placed, PlacedIn, GetWorker
  <2>4. OwnTriggers'
    <3>1. \/ wq' = [wq EXCEPT ![m.req] = Append(@, Http(m.req))]
          \/ wq' = wq
      BY <1>6, <2>3 DEF PodForward
    <3>2. Http(m.req) \in WorkerTrigger /\ Http(m.req).req = m.req
      BY <2>1, WorkerTriggers DEF Http
    <3>3. CASE wq' = wq
      BY <2>1, <3>3 DEF Inv, OwnTriggers
    <3>4. CASE wq' = [wq EXCEPT ![m.req] = Append(@, Http(m.req))]
      BY <2>1, <3>2, <3>4, OwnTriggersSend DEF Inv
    <3> QED
      BY <3>1, <3>3, <3>4
  <2>5. \A d \in Reqs : reply'[d] # reply[d] => reply'[d] = "dropped"
    BY <1>6 DEF PodForward
  <2>6. /\ TablesFilled' /\ RoutesPlaced' /\ RefusedOnlyWhenFull'
        /\ AnswersInTurn' /\ ScanInOrder'
    BY <1>1, <2>1, <2>5, SlotsUntouched
  <2> QED
    BY <2>2, <2>4, <2>6 DEF Inv
<1>7. CASE PodCheckVacancies(p)
  <2>1. /\ podQ[p] # <<>> /\ podQ' = [podQ EXCEPT ![p] = Tail(@)]
        /\ UNCHANGED <<table, wq, held, reply>>
        /\ Head(podQ[p]).type = "check"
        /\ answer'.tag = IF HasVacancy(table[p]) THEN "yes" ELSE "no"
    BY <1>7 DEF PodCheckVacancies, Received
  <2>2. QuestionsInTurn'
    BY <2>1, QuestionsAnswered DEF Inv
  <2>3. svl.pc = "checkWait" /\ svl.pod = p
    BY <2>1 DEF Inv, QuestionsInTurn
  <2>4. IF HasVacancy(table[p]) THEN HasRoom(p) ELSE Full(p)
    BY NWorkersAssumption DEF HasVacancy, HasRoom, Full, Inv, TablesFilled, TableType
  <2>5. AnswersInTurn' /\ ScanInOrder'
    BY <1>1, <2>1, <2>3, <2>4 DEF Inv, AnswersInTurn, ScanInOrder, HasRoom, Full
  <2>6. TablesFilled' /\ RoutesPlaced' /\ OwnTriggers' /\ RefusedOnlyWhenFull'
    BY <1>1, <2>1, SlotsUntouched DEF Inv, OwnTriggers
  <2> QED
    BY <2>2, <2>5, <2>6 DEF Inv
<1>8. CASE PodCreateWorker(p)
  <2> DEFINE c == svl.req
  <2> DEFINE n == Len(table[p].workers)
  <2>1. /\ podQ[p] # <<>> /\ podQ' = [podQ EXCEPT ![p] = Tail(@)]
        /\ Head(podQ[p]).type = "create"
        /\ UNCHANGED <<wq, held, reply>>
    BY <1>8, CreationStep
  <2>2. svl.pc = "createWait" /\ svl.pod = p
    BY <1>8, CreationStep
  <2>3. n \in Nat /\ n < NWorkers /\ c \in Reqs
    BY <1>8, CreationStep
  <2>4. /\ table'[p].vacancies = <<>> /\ table'[p].capacity = NWorkers
        /\ Len(table'[p].workers) = n + 1
        /\ \A i \in 1 .. n : table'[p].workers[i] = table[p].workers[i]
        /\ table'[p].workers[n + 1] = c
        /\ \A q \in Pods : q # p => table'[q] = table[q]
        /\ answer' = [tag |-> "created", id |-> n]
    BY <1>8, CreationStep
  <2> HIDE DEF n, c
  <2>5. ASSUME NEW q, NEW id, NEW d, PlacedIn(table, q, id, d)
        PROVE  PlacedIn(table', q, id, d)
    <3>1. CASE q = p
      <4>1. id \in Nat /\ id < n /\ table[p].workers[id + 1] = d
        BY <2>5, <3>1 DEF PlacedIn, n
      <4>2. id < Len(table'[p].workers) /\ id + 1 \in 1 .. n
        BY <2>3, <2>4, <4>1
      <4> QED
        BY <2>4, <3>1, <4>1, <4>2 DEF PlacedIn
    <3>2. CASE q # p
      BY <2>4, <2>5, <3>2 DEF PlacedIn
    <3> QED
      BY <3>1, <3>2
  <2>6. QuestionsInTurn'
    BY <2>1, <2>5, QuestionsAnswered DEF Inv
  <2>7. TablesFilled'
    <3>1. \A q \in Pods : q # p => /\ Len(table'[q].workers) <= NWorkers
                                  /\ table'[q].capacity = NWorkers
                                  /\ table'[q].vacancies = <<>>
                                  /\ \A i \in 1 .. Len(table'[q].workers) :
                                       table'[q].workers[i] \in Reqs
      BY <2>4 DEF Inv, TablesFilled
    <3>2. \A i \in 1 .. n : table[p].workers[i] \in Reqs
      BY DEF Inv, TablesFilled, n
    <3>3. \A i \in 1 .. n + 1 : table'[p].workers[i] \in Reqs
      <4> SUFFICES ASSUME NEW i \in 1 .. n + 1 PROVE table'[p].workers[i] \in Reqs
        OBVIOUS
      <4>1. i \in 1 .. n \/ i = n + 1
        BY <2>3
      <4> QED
        BY <2>3, <2>4, <3>2, <4>1
    <3>4. n + 1 <= NWorkers
      BY <2>3, NWorkersAssumption
    <3> QED
      BY <2>4, <3>1, <3>3, <3>4 DEF TablesFilled
  <2>8. AnswersInTurn'
    <3>1. PlacedIn(table', p, n, c)
      BY <2>3, <2>4 DEF PlacedIn
    <3> QED
      BY <1>1, <2>2, <2>4, <3>1 DEF AnswersInTurn, Placed, c
  <2>9. RoutesPlaced'
    BY <1>1, <2>1, <2>5 DEF Inv, RoutesPlaced, Placed
  <2>10. OwnTriggers'
    BY <2>1 DEF Inv, OwnTriggers
  <2>11. \A q \in Pods : Full(q) => Len(table'[q].workers) >= NWorkers
    <3>1. ~ Full(p)
      BY <2>3, NWorkersAssumption DEF Full, n
    <3> QED
      BY <2>4, <3>1 DEF Full
  <2>12. ScanInOrder' /\ RefusedOnlyWhenFull'
    BY <1>1, <2>1, <2>2, <2>4, <2>11 DEF Inv, ScanInOrder, RefusedOnlyWhenFull, Full
  <2> QED
    BY <2>6, <2>7, <2>8, <2>9, <2>10, <2>12 DEF Inv
<1> QED
  BY <1>2, <1>3, <1>4, <1>5, <1>6, <1>7, <1>8 DEF PodStep

\* No pod has yet to answer the serverless task.
NoQuestions ==
  \A p \in Pods : \A i \in 1 .. Len(podQ[p]) : podQ[p][i].type \notin {"check", "create"}

LEMMA NothingAsked ==
  ASSUME TypeInv, Inv
  PROVE  /\ svl.pc \notin {"checkWait", "createWait"} \/ answer # NoAnswer => NoQuestions
         /\ svl.pc \notin {"checkWait", "createWait"} => answer.tag = "none"
<1>1. svl.pc \notin {"checkWait", "createWait"} \/ answer # NoAnswer => NoQuestions
  BY DEF NoQuestions, Inv, QuestionsInTurn
<1>2. svl.pc \notin {"checkWait", "createWait"} => answer.tag = "none"
  BY DEF Inv, AnswersInTurn, TypeInv, PodTypeInv, PodTypeOK, Answers
<1> QED
  BY <1>1, <1>2

LEMMA QuestionsUntouched ==
  ASSUME QuestionsInTurn, NoQuestions, UNCHANGED <<podQ, table>>
  PROVE  QuestionsInTurn'
BY DEF QuestionsInTurn, NoQuestions, Placed, PlacedIn

\* The serverless task sends a trigger to a pod, and waits if it is a question.
LEMMA QuestionsSent ==
  ASSUME QuestionsInTurn, NoQuestions, podQ \in [Pods -> Seq(PodTrigger)],
         NEW p \in Pods, NEW m \in PodTrigger,
         podQ' = [podQ EXCEPT ![p] = Append(@, m)], UNCHANGED table,
         m.type = "check" => svl'.pc = "checkWait" /\ svl'.pod = p /\ answer' = NoAnswer,
         m.type = "create" => /\ svl'.pc = "createWait" /\ svl'.pod = p /\ answer' = NoAnswer
                              /\ m.req = svl'.req
                              /\ HasRoom(p),
         m.type = "toWorker" => Placed(p, m.id, m.req)
  PROVE  QuestionsInTurn'
<1> SUFFICES ASSUME NEW q \in Pods, NEW i \in 1 .. Len(podQ'[q])
             PROVE
    /\ podQ'[q][i].type = "check" =>
         svl'.pc = "checkWait" /\ svl'.pod = q /\ answer' = NoAnswer /\ i = Len(podQ'[q])
    /\ podQ'[q][i].type = "create" =>
         /\ svl'.pc = "createWait" /\ svl'.pod = q /\ answer' = NoAnswer
         /\ i = Len(podQ'[q])
         /\ podQ'[q][i].req = svl'.req
         /\ HasRoom(q)
    /\ podQ'[q][i].type = "toWorker" => Placed(q, podQ'[q][i].id, podQ'[q][i].req)
  BY DEF QuestionsInTurn, HasRoom, Placed, PlacedIn
<1>1. CASE q = p /\ i = Len(podQ[p]) + 1
  <2>1. podQ'[q][i] = m /\ i = Len(podQ'[q])
    BY <1>1
  <2> QED
    BY <1>1, <2>1, Zenon
<1>2. CASE q # p \/ i # Len(podQ[p]) + 1
  <2>1. i \in 1 .. Len(podQ[q]) /\ podQ'[q][i] = podQ[q][i]
    BY <1>2
  <2> QED
    BY <2>1 DEF NoQuestions, QuestionsInTurn
<1> QED
  BY <1>1, <1>2

LEMMA SvlInvStep ==
  ASSUME TypeInv, Inv, SvlStep \/ SvlCtrlC \/ SvlServerExits
  PROVE  Inv'
<1> USE DEF Selecting, SvlAt
<1>1. UNCHANGED <<table, wq, held>>
  BY DEF SvlStep, SvlCtrlC, SvlServerExits, SvlCreateNoCode, SvlCreate, SvlUpload, SvlRemove,
         SvlToPod, SvlForward, SvlAsksVacancy, SvlToldVacancy, SvlNoVacancy, SvlAsksWorker,
         SvlCreated, SvlHaltsPod, SvlPodHalted, SvlJoined, SvlUnchangedPods, podVars
<1>2. TablesFilled' /\ OwnTriggers'
  BY <1>1 DEF Inv, TablesFilled, OwnTriggers
<1>3. QuestionsInTurn'
  <2> USE DEF TypeInv, SvlTypeInv, SvlTypeOK, PodTypeInv, PodTypeOK
  <2>1. ASSUME UNCHANGED podQ, svl.pc \notin {"checkWait", "createWait"} \/ answer # NoAnswer
        PROVE  QuestionsInTurn'
    BY <1>1, <2>1, NothingAsked, QuestionsUntouched DEF Inv
  <2>2. CASE SvlForward
    <3>1. Placed(svl.pod, route[svl.req].id, svl.req) /\ svl.req \in Reqs
      BY <2>2 DEF SvlForward, Inv, RoutesPlaced, SvlAtWork
    <3>2. ToWorker(svl.req, route[svl.req].id) \in PodTrigger
      BY <3>1, PodTriggers DEF Placed, PlacedIn
    <3>3. NoQuestions
      BY <2>2, NothingAsked DEF SvlForward
    <3> QED
      BY <1>1, <2>2, <3>1, <3>2, <3>3, QuestionsSent DEF SvlForward, SendToPod, ToWorker, Inv
  <2>3. CASE SvlAsksVacancy
    <3>1. NoQuestions /\ answer = NoAnswer
      BY <2>3, NothingAsked DEF SvlAsksVacancy, Inv, AnswersInTurn
    <3> QED
      BY <1>1, <2>3, <3>1, QuestionsSent, PodTriggers
      DEF SvlAsksVacancy, SendToPod, CheckVacancies, Inv
  <2>4. CASE SvlAsksWorker
    <3>1. NoQuestions /\ answer = NoAnswer /\ HasRoom(svl.pod)
      BY <2>4, NothingAsked DEF SvlAsksWorker, Inv, AnswersInTurn
    <3>2. CreateWorkerFor(svl.req) \in PodTrigger
      BY <2>4, PodTriggers DEF SvlAsksWorker, SvlAtWork
    <3> QED
      BY <1>1, <2>4, <3>1, <3>2, QuestionsSent
      DEF SvlAsksWorker, SendToPod, CreateWorkerFor, Inv
  <2>5. CASE SvlHaltsPod
    <3>1. NoQuestions
      BY <2>5, NothingAsked DEF SvlHaltsPod
    <3> QED
      BY <1>1, <2>5, <3>1, QuestionsSent, PodTriggers DEF SvlHaltsPod, SendToPod, Halt, Inv
  <2> QED
    BY <2>1, <2>2, <2>3, <2>4, <2>5
    DEF SvlStep, SvlCtrlC, SvlServerExits, SvlCreateNoCode, SvlCreate, SvlUpload, SvlRemove,
        SvlReceived, SvlToPod, SvlToldVacancy, SvlNoVacancy, SvlCreated, SvlPodHalted,
        SvlJoined, SvlUnchangedPods, podVars
<1>4. AnswersInTurn' /\ ScanInOrder'
  <2> USE <1>1 DEF AnswersInTurn, ScanInOrder, HasRoom, Full, Placed, PlacedIn
  <2>1. ASSUME svl.pc \notin {"checkWait", "createWait"}, UNCHANGED answer,
               svl'.pc \notin {"check", "checkWait", "create"}
        PROVE  AnswersInTurn' /\ ScanInOrder'
    BY <2>1, NothingAsked DEF Inv
  <2>2. ASSUME UNCHANGED <<svl, answer>> PROVE AnswersInTurn' /\ ScanInOrder'
    BY <2>2 DEF Inv
  <2>3. CASE SvlCreate
    <3>1. svl'.pc = "check" /\ svl'.pod = 0 /\ answer'.tag = "none" /\ answer' = answer
      BY <2>3, NothingAsked DEF SvlCreate, SvlReceived, podVars
    <3>2. \A q \in Pods : ~ (q < 0)
      BY PodAssumption DEF Pods
    <3> QED
      BY <3>1, <3>2 DEF Inv
  <2>4. CASE SvlAsksVacancy
    BY <2>4, NothingAsked DEF SvlAsksVacancy, Inv
  <2>5. CASE SvlToldVacancy
    <3>1. svl.pod \in Pods
      BY <2>5 DEF SvlToldVacancy, TypeInv, SvlTypeInv, SvlAtWork
    <3>2. \A q \in Pods : q < svl.pod + 1 => q < svl.pod \/ q = svl.pod
      BY <3>1, PodAssumption DEF Pods
    <3>3. CASE answer.tag = "yes"
      BY <2>5, <3>3 DEF SvlToldVacancy, NoAnswer, Inv
    <3>4. CASE answer.tag = "no"
      BY <2>5, <3>2, <3>4 DEF SvlToldVacancy, NoAnswer, Inv
    <3> QED
      BY <2>5, <3>3, <3>4 DEF SvlToldVacancy
  <2>6. CASE SvlAsksWorker
    BY <2>6, NothingAsked DEF SvlAsksWorker, Inv
  <2>7. CASE SvlCreated
    BY <2>7 DEF SvlCreated, NoAnswer
  <2>8. CASE SvlCreateNoCode \/ SvlUpload \/ SvlRemove
    BY <2>2, <2>8 DEF SvlCreateNoCode, SvlUpload, SvlRemove, SvlUnchangedPods, podVars
  <2> QED
    BY <2>1, <2>3, <2>4, <2>5, <2>6, <2>7, <2>8
    DEF SvlStep, SvlCtrlC, SvlServerExits, SvlReceived, SvlToPod, SvlForward, SvlNoVacancy,
        SvlHaltsPod, SvlPodHalted, SvlJoined, SvlUnchangedPods, podVars
<1>5. RefusedOnlyWhenFull'
  <2> USE <1>1 DEF TypeInv, SvlTypeInv, SvlTypeOK, PodTypeInv, PodTypeOK
  <2>1. ASSUME \A d \in Reqs : reply'[d] # reply[d] => reply'[d] # "noVacancy"
        PROVE  RefusedOnlyWhenFull'
    BY <2>1 DEF Inv, RefusedOnlyWhenFull
  <2>2. CASE SvlNoVacancy
    <3>1. \A q \in Pods : q < NPods
      BY PodAssumption DEF Pods
    <3>2. \A q \in Pods : Full(q)
      BY <2>2, <3>1 DEF SvlNoVacancy, Inv, ScanInOrder
    <3> QED
      BY <3>2 DEF RefusedOnlyWhenFull, Full
  <2>3. CASE UNCHANGED reply
    BY <2>1, <2>3
  <2>4. CASE SvlCreateNoCode \/ SvlUpload \/ SvlCreated
    BY <2>1, <2>4 DEF SvlCreateNoCode, SvlUpload, SvlCreated, SvlReply
  <2>5. CASE SvlJoined \/ SvlServerExits
    <3>1. DropQueue
      BY <2>5 DEF SvlJoined, SvlServerExits
    <3> QED
      BY <2>1, <3>1 DEF DropQueue
  <2> QED
    BY <2>2, <2>3, <2>4, <2>5
    DEF SvlStep, SvlCtrlC, SvlCreate, SvlRemove, SvlToPod, SvlForward, SvlAsksVacancy,
        SvlToldVacancy, SvlAsksWorker, SvlHaltsPod, SvlPodHalted, podVars
<1>6. RoutesPlaced'
  <2> USE <1>1 DEF TypeInv, SvlTypeInv, SvlTypeOK, PodTypeInv, PodTypeOK, Placed
  <2> DEFINE P(c) == PlacedIn(table, route[c].pod, route[c].id, c)
  <2> DEFINE Replied == \A c \in Reqs : reply'[c] = "created" => P(c)
  <2> DEFINE Queued == \A i \in 1 .. Len(svlQ') : svlQ'[i].type = "toPod" => P(svlQ'[i].req)
  <2> DEFINE Handled == svl'.pc = "toPod" => svl'.pod = route[svl'.req].pod /\ P(svl'.req)
  <2>1. ASSUME UNCHANGED route, Replied, Queued, Handled PROVE RoutesPlaced'
    BY <2>1 DEF RoutesPlaced
  <2>2. /\ svlQ' = svlQ \/ svlQ' = <<>> \/ (svlQ # <<>> /\ svlQ' = Tail(svlQ)) => Queued
        /\ svlQ # <<>> /\ Head(svlQ).type = "toPod" => P(Head(svlQ).req)
    <3>1. \A i \in 1 .. Len(svlQ) : svlQ[i].type = "toPod" => P(svlQ[i].req)
      BY DEF Inv, RoutesPlaced
    <3> HIDE DEF P
    <3>2. svlQ' = svlQ => Queued
      BY <3>1
    <3>3. svlQ' = <<>> => Queued
      OBVIOUS
    <3>4. svlQ # <<>> /\ svlQ' = Tail(svlQ) => Queued
      BY <3>1
    <3>5. svlQ # <<>> /\ Head(svlQ).type = "toPod" => P(Head(svlQ).req)
      BY <3>1
    <3> QED
      BY <3>2, <3>3, <3>4, <3>5
  <2>3. (\A d \in Reqs : reply'[d] # reply[d] => reply'[d] # "created") => Replied
    BY DEF Inv, RoutesPlaced
  <2>4. svl' = svl \/ svl'.pc # "toPod" => Handled
    BY DEF Inv, RoutesPlaced
  <2> HIDE DEF P, Replied, Queued, Handled
  <2>5. CASE SvlCreateNoCode \/ SvlUpload
    BY <2>1, <2>2, <2>3, <2>4, <2>5 DEF SvlCreateNoCode, SvlUpload, SvlReceived, SvlReply
  <2>6. CASE SvlCreate \/ SvlRemove
    BY <2>1, <2>2, <2>3, <2>4, <2>6 DEF SvlCreate, SvlRemove, SvlReceived, podVars
  <2>7. CASE SvlToPod
    <3>1. Handled
      BY <2>2, <2>7 DEF SvlToPod, SvlReceived, Handled
    <3> QED
      BY <2>1, <2>2, <2>3, <2>7, <3>1 DEF SvlToPod, SvlReceived, podVars
  <2>8. CASE SvlForward \/ SvlAsksVacancy \/ SvlToldVacancy \/ SvlAsksWorker
    BY <2>1, <2>2, <2>3, <2>4, <2>8
    DEF SvlForward, SvlAsksVacancy, SvlToldVacancy, SvlAsksWorker
  <2>9. CASE SvlCtrlC \/ SvlHaltsPod \/ SvlPodHalted
    BY <2>1, <2>2, <2>3, <2>4, <2>9 DEF SvlCtrlC, SvlHaltsPod, SvlPodHalted, podVars
  <2>10. CASE SvlNoVacancy
    BY <2>1, <2>2, <2>3, <2>4, <2>10 DEF SvlNoVacancy, SvlReply
  <2>11. CASE SvlJoined \/ SvlServerExits
    <3>1. UNCHANGED route /\ DropQueue /\ svl'.pc # "toPod"
      BY <2>11 DEF SvlJoined, SvlServerExits
    <3> QED
      BY <2>1, <2>2, <2>3, <2>4, <3>1 DEF DropQueue
  <2>12. CASE SvlCreated
    <3>1. answer.tag = "created" /\ Placed(svl.pod, answer.id, svl.req) /\ svl.req \in Reqs
      BY <2>12 DEF SvlCreated, Inv, AnswersInTurn, SvlAtWork, Answers
    <3>2. \A c \in Reqs : P(c) \/ c = svl.req =>
                            PlacedIn(table', route'[c].pod, route'[c].id, c)
      BY <2>12, <3>1 DEF SvlCreated, P
    <3>3. \A c \in Reqs : reply'[c] = "created" => P(c) \/ c = svl.req
      BY <2>12 DEF SvlCreated, SvlReply, Inv, RoutesPlaced, P
    <3>4. \A i \in 1 .. Len(svlQ') : svlQ'[i].type = "toPod" => P(svlQ'[i].req)
      BY <2>12 DEF SvlCreated, Inv, RoutesPlaced, P
    <3>5. \A i \in 1 .. Len(svlQ') : svlQ'[i].req \in Reqs
      BY <2>12, ServerlessTriggers DEF SvlCreated
    <3>6. svl'.pc # "toPod"
      BY <2>12 DEF SvlCreated
    <3> QED
      BY <3>2, <3>3, <3>4, <3>5, <3>6 DEF RoutesPlaced
  <2> QED
    BY <2>5, <2>6, <2>7, <2>8, <2>9, <2>10, <2>11, <2>12 DEF SvlStep
<1> QED
  BY <1>2, <1>3, <1>4, <1>5, <1>6 DEF Inv

LEMMA InvStep == TypeInv /\ Inv /\ [Next]_vars => Inv'
<1> SUFFICES ASSUME TypeInv, Inv, [Next]_vars PROVE Inv'
  OBVIOUS
<1>1. CASE UNCHANGED vars
  <2>1. UNCHANGED <<svl, svlQ, route, podQ, table, answer, reply, wq, held>>
    BY <1>1 DEF vars, svlVars, podVars
  <2>2. OwnTriggers'
    BY <2>1 DEF Inv, OwnTriggers
  <2> QED
    BY <2>1, <2>2, QuietStep
<1>2. ASSUME NEW c \in Reqs, ClientGone(c) PROVE Inv'
  <2>1. UNCHANGED <<svl, svlQ, route, podQ, table, answer, reply, wq, held>>
    BY <1>2 DEF ClientGone, podVars
  <2>2. OwnTriggers'
    BY <2>1 DEF Inv, OwnTriggers
  <2> QED
    BY <2>1, <2>2, QuietStep
<1> QED
  BY <1>1, <1>2, ClientInvStep, SvlInvStep, PodInvStep, WorkerInvStep DEF Next, PodTurn, Terminated

THEOREM Invariance == Spec => [](TypeInv /\ Inv)
<1>1. Init => TypeInv /\ Inv
  BY TypeInit, InvInit
<1>2. TypeInv /\ Inv /\ [Next]_vars => (TypeInv /\ Inv)'
  BY TypeStep, InvStep
<1> QED
  BY <1>1, <1>2, PTL DEF Spec

\* What the invariant is for.
LEMMA InvImplies ==
  Inv => PodWithinCapacity /\ NoEmptySlot /\ RefusedOnlyWhenFull /\ OwnWorkerOnly
<1>1. Inv => PodWithinCapacity
  BY DEF Inv, TablesFilled, PodWithinCapacity
<1>2. Inv => NoEmptySlot
  BY PodAssumption DEF Inv, TablesFilled, NoEmptySlot, Elems
<1>3. Inv => RefusedOnlyWhenFull
  BY DEF Inv
<1>4. Inv => OwnWorkerOnly
  BY DEF Inv, OwnTriggers, OwnWorkerOnly, QueuedHttp, Elems, Http
<1> QED
  BY <1>1, <1>2, <1>3, <1>4

(***************************************************************************)
(* No pod ever has more workers than n_workers, for any number of pods and *)
(* slots and any load.                                                     *)
(***************************************************************************)
THEOREM Capacity == Spec => []PodWithinCapacity
BY InvImplies, Invariance, PTL

(***************************************************************************)
(* The drain loop of a halted pod never meets an empty slot.               *)
(***************************************************************************)
THEOREM SlotsFilled == Spec => []NoEmptySlot
BY InvImplies, Invariance, PTL

(***************************************************************************)
(* find_vancancy refuses a request only when every pod is full.            *)
(***************************************************************************)
THEOREM Refusals == Spec => []RefusedOnlyWhenFull
BY InvImplies, Invariance, PTL

(***************************************************************************)
(* A request is only ever in the hands of the worker created for it.       *)
(***************************************************************************)
THEOREM OwnWorker == Spec => []OwnWorkerOnly
BY InvImplies, Invariance, PTL
=============================================================================
