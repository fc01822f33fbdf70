--------------------------- MODULE StartOneProofs ---------------------------
(***************************************************************************)
(* Theorems about the command One: what main waits for is there, and the   *)
(* control plane is as good under this command as it is by itself.         *)
(***************************************************************************)
EXTENDS StartOne, ServiceProofs

(***************************************************************************)
(* A step of the command is one of the control plane, or main takes the    *)
(* ids of its worker, or its pod finds, after start_one returned, that the *)
(* serverless task is no more.                                             *)
(***************************************************************************)
MainTakes ==
  /\ main = "createWait"
  /\ reply[Main] = "created"
  /\ Respond(Main, "ok")
  /\ UNCHANGED <<op, route, svlQ, svl, stored, podVars>>

PodLeft == main = "over" /\ \E p \in Pods : PodAbandoned(p) /\ UNCHANGED svlVars

LEMMA OneSteps == [OneNext]_oneVars => [Next]_vars \/ MainTakes \/ PodLeft
<1> SUFFICES ASSUME [OneNext]_oneVars, ~ MainTakes, ~ PodLeft
             PROVE  [Next]_vars
  OBVIOUS
<1>1. Boot \in Reqs /\ Main \in Reqs /\ Guests \subseteq Reqs /\ Leavers \subseteq Reqs
  BY StartOneAssumption, ServerlessAssumption DEF Guests
<1>2. CASE MainUploads \/ MainUploaded \/ MainCreates
  BY <1>1, <1>2 DEF MainUploads, MainUploaded, MainCreates, ClientStep, Next
<1>3. CASE MainCreated
  BY <1>1, <1>3 DEF MainCreated, MainTakes, ClientStep, Next
<1>4. CASE Polled
  BY <1>1, <1>4 DEF Polled, Next
<1>5. CASE Threads
  BY <1>5 DEF Threads, OnePodTurn, PodLeft, PodTurn, Next
<1>6. CASE MainJoins \/ UNCHANGED oneVars
  BY <1>6 DEF MainJoins, oneVars
<1> QED
  BY <1>2, <1>3, <1>4, <1>5, <1>6 DEF OneNext, MainStep

\* start_one returns once.
LEMMA OverForGood == [OneNext]_oneVars /\ main = "over" => main' = "over" /\ ~ MainTakes
BY DEF OneNext, MainStep, MainUploads, MainUploaded, MainCreates, MainCreated, MainJoins,
       MainTakes, oneVars

\* Main's taking the ids changes nothing the control plane relies on.
LEMMA TakingKeeps ==
  ASSUME FullInv, NotOrphaned, WaitInv, ServiceInv, MainTakes
  PROVE  FullInv' /\ NotOrphaned' /\ WaitInv' /\ ServiceInv'
<1>1. /\ UNCHANGED <<op, route, svlQ, svl, stored, podVars>>
      /\ UNCHANGED <<pod, podQ, table, answer, worker, wq, held, killed, reply>>
      /\ \A c \in Reqs : client'[c] \in {"new", "wait"} => client'[c] = client[c]
      /\ client' \in [Reqs -> ClientStates] /\ result' \in [Reqs -> Results]
  BY StartOneAssumption
  DEF MainTakes, Respond, podVars, ClientStates, Results, FullInv, TypeInv, SvlTypeInv, SvlTypeOK
<1>2. TypeInv'
  BY <1>1 DEF FullInv, TypeInv, SvlTypeInv, SvlTypeOK, SvlAtWork, PodTypeInv, PodTypeOK,
    NoIdReturned
<1>3. Inv'
  <2>1. OwnTriggers'
    BY <1>1 DEF FullInv, Inv, OwnTriggers
  <2> QED
    BY <1>1, <2>1, QuietStep DEF FullInv
<1>4. FlowInv'
  BY <1>1 DEF FullInv, FlowInv, NewInv, AskedOnce, Unborn, PlacedBegun, RemovesUnawaited,
    Resting, GoneQueueless, Listening
<1>5. HaltInv'
  BY <1>1 DEF FullInv, HaltInv, HaltingPods, HaltComesLast, Drained, DrainedPod, NoneCancelled,
    Left
<1>6. NotOrphaned'
  BY <1>1 DEF NotOrphaned, Expected, Somewhere, InSvlQ, InPodQ, InWorkerQ, IsHeld
<1>7. ServiceInv'
  <2>1. OneReplier'
    <3>1. WorkerReqs' = WorkerReqs
      BY <1>1 DEF WorkerReqs
    <3>2. ASSUME NEW c \in WorkerReqs PROVE OneCopy(c)' /\ OnePlace(c)'
      <4>1. OneCopy(c) /\ OnePlace(c)
        BY DEF ServiceInv, OneReplier
      <4> QED
        BY <1>1, <4>1, Untouched, Stays DEF OneCopy
    <3> QED
      BY <3>1, <3>2 DEF OneReplier
  <2> QED
    BY <1>1, <2>1 DEF ServiceInv, KindsMatch, NewUnanswered, BegunPlaced
<1>8. WaitInv'
  BY <1>1, WaitUntouched DEF WaitInv
<1> QED
  BY <1>2, <1>3, <1>4, <1>5, <1>6, <1>7, <1>8 DEF FullInv

LEMMA TakingTells ==
  ASSUME TypeInv, TellsInv, MainTakes
  PROVE  TellsInv'
<1>1. /\ UNCHANGED <<op, svlQ, svl, worker, reply, WorkerReqs>> /\ WorkerReqs \subseteq Reqs
      /\ \A c \in Reqs : /\ client'[c] = client[c] \/ client'[c] = "done"
                         /\ result'[c] = result[c] \/ result'[c] = "ok"
  BY DEF MainTakes, Respond, podVars, WorkerReqs, TypeInv, SvlTypeInv, SvlTypeOK
<1>2. StillAsked' /\ NotMade' /\ Made'
  BY <1>1 DEF TellsInv, StillAsked, NotMade, Made, Asks, Tries
<1>3. Told'
  BY <1>1 DEF TellsInv, Told
<1> QED
  BY <1>2, <1>3 DEF TellsInv

-----------------------------------------------------------------------------
(***************************************************************************)
(* The invariant.  What the control plane says of the data lasts until the *)
(* process ends.  What it says of who answers whom, and of the order of a  *)
(* halt, holds while the serverless task is polled: once start_one has     *)
(* returned, the pod ends as after an exit of the server.  Main, once it   *)
(* waits for the runtime, keeps the answer it was given.                   *)
(***************************************************************************)
Takings ==
  /\ op[Main].kind = "worker"
  /\ main = "createWait" => client[Main] = "wait"
  /\ main = "join" => reply[Main] = "created"

Lasting == TypeInv /\ Inv /\ FlowInv /\ ServiceInv /\ TellsInv /\ DrainsWithin

WhilePolled == HaltInv /\ NotOrphaned /\ WaitInv /\ JoinInv

OneInv == Lasting /\ Takings /\ (main # "over" => WhilePolled)

LEMMA OneStarts == OneInit => OneInv
<1> SUFFICES ASSUME OneInit PROVE OneInv
  OBVIOUS
<1>1. Init
  BY DEF OneInit
<1>2. Lasting
  BY <1>1, TypeInit, InvInit, FlowInit, ServiceInit, TellsInit
  DEF Lasting, DrainsWithin, Init, PodInit
<1>3. NotOrphaned
  BY <1>1 DEF Init, PodInit, NotOrphaned, Expected
<1>4. WhilePolled
  BY <1>1, <1>3, HaltInit, WaitInit, JoinInit DEF WhilePolled
<1>5. Takings
  BY DEF OneInit, Takings
<1> QED
  BY <1>2, <1>4, <1>5 DEF OneInv

LEMMA TakingsStep == OneInv /\ [OneNext]_oneVars => Takings'
<1> SUFFICES ASSUME OneInv, [OneNext]_oneVars PROVE Takings'
  OBVIOUS
<1>1. /\ Main \in Reqs /\ Main \in WorkerReqs /\ Main \notin Leavers /\ Main \notin Guests
      /\ op[Main].kind = "worker" /\ TypeInv /\ Inv /\ ServiceInv
      /\ reply \in [Reqs -> Replies]
  BY StartOneAssumption
  DEF OneInv, Lasting, Takings, WorkerReqs, Guests, TypeInv, PodTypeInv, PodTypeOK
<1>2. op' = op
  <2>1. Next \/ MainTakes \/ PodLeft \/ UNCHANGED vars
    BY OneSteps
  <2>2. CASE MainTakes \/ PodLeft \/ UNCHANGED vars
    BY <2>2 DEF MainTakes, PodLeft, vars, svlVars
  <2>3. CASE SvlStep \/ SvlCtrlC \/ SvlServerExits
    BY <2>3 DEF SvlStep, SvlCtrlC, SvlServerExits, SvlCreateNoCode, SvlCreate, SvlUpload,
      SvlRemove, SvlToPod, SvlForward, SvlAsksVacancy, SvlToldVacancy, SvlNoVacancy,
      SvlAsksWorker, SvlCreated, SvlHaltsPod, SvlPodHalted, SvlJoined
  <2>4. ASSUME NEW c \in Reqs, ClientStep(c) \/ ClientGone(c) PROVE op' = op
    BY <2>4 DEF ClientStep, ClientGone, ClientSubmits, ClientFindsClosed, ClientBadBody,
      ClientUploaded, ClientNotCreated, ClientSendsHttp, ClientCannotSendHttp, ClientAnswered
  <2> QED
    BY <2>1, <2>2, <2>3, <2>4, ServerlessAssumption DEF Next, Terminated, vars, svlVars
<1>3. ASSUME main' = "createWait" PROVE client'[Main] = "wait"
  <2>1. client \in [Reqs -> ClientStates]
    BY <1>1 DEF TypeInv, SvlTypeInv, SvlTypeOK
  <2>2. CASE MainStep
    <3>1. MainCreates /\ ClientSubmits(Main)
      BY <1>3, <2>2 DEF MainStep, MainUploads, MainUploaded, MainCreates, MainCreated, MainJoins
    <3> QED
      BY <1>1, <2>1, <3>1 DEF ClientSubmits, Respond
  <2>3. CASE (Polled \/ Threads) /\ UNCHANGED main
    <3>1. client[Main] = "wait"
      BY <1>3, <2>3 DEF OneInv, Takings
    <3>2. ASSUME NEW c \in Reqs, c # Main, ClientStep(c) \/ ClientGone(c)
          PROVE  client'[Main] = "wait"
      <4>1. \E s \in {"wait", "http", "done", "gone"} : client' = [client EXCEPT ![c] = s]
        BY <3>2 DEF ClientStep, ClientSubmits, ClientFindsClosed, ClientBadBody,
          ClientUploaded, ClientNotCreated, ClientSendsHttp, ClientCannotSendHttp,
          ClientAnswered, ClientGone, Respond
      <4> QED
        BY <1>1, <2>1, <3>1, <3>2, <4>1
    <3>3. \A c \in Guests \cup Leavers : c \in Reqs /\ c # Main
      BY <1>1, ServerlessAssumption DEF Guests
    <3> QED
      BY <2>3, <3>1, <3>2, <3>3, HandlersKept DEF Polled, Threads, OnePodTurn
  <2>4. CASE UNCHANGED oneVars
    BY <1>3, <2>4 DEF OneInv, Takings, oneVars, vars, svlVars
  <2> QED
    BY <2>2, <2>3, <2>4 DEF OneNext
<1>4. SUFFICES ASSUME main' = "join" PROVE reply'[Main] = "created"
  BY <1>1, <1>2, <1>3 DEF Takings
<1>5. CASE MainStep
  <2>1. CASE MainCreated
    BY <1>4, <2>1 DEF MainCreated, podVars
  <2>2. CASE MainUploads \/ MainUploaded \/ MainCreates \/ MainJoins
    BY <1>4, <2>2 DEF MainUploads, MainUploaded, MainCreates, MainJoins
  <2> QED
    BY <1>5, <2>1, <2>2 DEF MainStep
<1>6. CASE (Polled \/ Threads) /\ UNCHANGED main
  <2>1. reply[Main] = "created" /\ reply[Main] # "pending"
    BY <1>4, <1>6 DEF OneInv, Takings
  <2>2. ASSUME NEW c \in Guests, ClientStep(c) PROVE reply'[Main] = reply[Main]
    <3>1. c # Main
      BY <1>1
    <3> QED
      BY <1>1, <2>2, <3>1 DEF ClientStep, ClientSubmits, ClientFindsClosed, ClientBadBody,
        ClientUploaded, ClientNotCreated, ClientSendsHttp, ClientCannotSendHttp,
        ClientAnswered, podVars
  <2>3. ASSUME NEW c \in Leavers, ClientGone(c) PROVE reply'[Main] = reply[Main]
    BY <2>3 DEF ClientGone, podVars
  <2> QED
    BY <1>1, <1>6, <2>1, <2>2, <2>3, NowhereElse, SvlKeepsAnswer, PodKeepsAnswer, WorkerKeepsAnswer
    DEF Polled, Threads, OnePodTurn
<1>7. CASE UNCHANGED oneVars
  BY <1>4, <1>7 DEF OneInv, Takings, oneVars, vars, podVars
<1> QED
  BY <1>5, <1>6, <1>7 DEF OneNext

LEMMA LastingStep ==
  ASSUME OneInv, [OneNext]_oneVars
  PROVE  Lasting'
<1>1. CASE [Next]_vars
  BY <1>1, TypeStep, InvStep, FlowStep, ServiceInvStep, TellsStep, DrainsWithinStep
  DEF OneInv, Lasting
<1>2. CASE MainTakes
  <2>1. FullInv /\ WhilePolled
    BY <1>2 DEF OneInv, Lasting, WhilePolled, FullInv, MainTakes
  <2>2. DrainsWithin'
    BY <1>2 DEF OneInv, Lasting, DrainsWithin, MainTakes, podVars
  <2> QED
    BY <1>2, <2>1, <2>2, TakingKeeps, TakingTells DEF OneInv, Lasting, WhilePolled, FullInv
<1>3. CASE PodLeft
  <2>1. PICK p \in Pods : PodAbandoned(p) /\ UNCHANGED svlVars
    BY <1>3 DEF PodLeft
  <2>2. TypeInv'
    BY <2>1, PodTypeStep DEF OneInv, Lasting, TypeInv, svlVars, SvlTypeInv, SvlTypeOK, SvlAtWork
  <2>3. Inv' /\ FlowInv' /\ ServiceInv' /\ DrainsWithin'
    BY <2>1, PodInvStep, PodFlowStep, PodServes, PodDrainsWithin DEF OneInv, Lasting
  <2>4. TellsInv'
    BY <2>1, ElsewhereTells, PodKeepsAnswer, PodBegins DEF OneInv, Lasting
  <2> QED
    BY <2>2, <2>3, <2>4 DEF Lasting
<1> QED
  BY <1>1, <1>2, <1>3, OneSteps

LEMMA PolledStep ==
  ASSUME OneInv, [OneNext]_oneVars, main' # "over"
  PROVE  WhilePolled'
<1>1. main # "over" /\ WhilePolled /\ FullInv
  BY OverForGood DEF OneInv, Lasting, WhilePolled, FullInv
<1>2. CASE [Next]_vars
  BY <1>1, <1>2, HaltStep, ExpectsStep, WaitStep, JoinStep DEF WhilePolled, FullInv
<1>3. CASE MainTakes
  <2>1. JoinInv'
    BY <1>1, <1>3 DEF WhilePolled, JoinInv, AllJoined, ClosedWithPod, MainTakes, podVars
  <2> QED
    BY <1>1, <1>3, <2>1, TakingKeeps DEF OneInv, Lasting, WhilePolled, FullInv
<1> QED
  BY <1>1, <1>2, <1>3, OneSteps DEF PodLeft

LEMMA OneInvariance == OneSpec => []OneInv
<1>1. OneInv /\ [OneNext]_oneVars => OneInv'
  BY LastingStep, PolledStep, TakingsStep DEF OneInv
<1> QED
  BY <1>1, OneStarts, PTL DEF OneSpec

(***************************************************************************)
(* What main waits for is there, whatever guests ask and workers do, at    *)
(* any capacity of the channels: the ids it was given name its worker, the *)
(* guests have none, and the halt that ends the process does not miss it.  *)
(* The one slot is taken by main's worker, whose answer nobody overwrites; *)
(* a worker that began has a slot; and a pod that exits has drained it     *)
(* (main.rs, start_one).                                                   *)
(***************************************************************************)
THEOREM MainsWorkerStays == OneSpec => []MainsWorkerIsThere
<1>1. OneInv => MainsWorkerIsThere
  <2> SUFFICES ASSUME OneInv, main = "join"
               PROVE  /\ GetWorker(table[route[Main].pod], route[Main].id) = Main
                      /\ \A c \in Guests : worker[c] = "none"
                      /\ svl.pc = "exited" => worker[Main] \in {"closing", "closed"}
    BY DEF MainsWorkerIsThere
  <2>1. Main \in Reqs /\ Main \notin Guests /\ Guests \subseteq Reqs /\ NPods = 1 /\ NWorkers = 1
    BY StartOneAssumption DEF Guests
  <2>2. Pods = {0}
    BY <2>1 DEF Pods
  <2>3. /\ table[0] \in TableType /\ Len(table[0].workers) \in Nat
        /\ Len(table[0].workers) <= 1
    BY <2>1, <2>2 DEF OneInv, Lasting, Inv, TablesFilled, TypeInv, PodTypeInv, PodTypeOK, TableType
  <2>4. Placed(route[Main].pod, route[Main].id, Main)
    BY <2>1 DEF OneInv, Lasting, Takings, Inv, RoutesPlaced
  <2>5. /\ route[Main].pod = 0 /\ route[Main].id = 0
        /\ Len(table[0].workers) = 1 /\ table[0].workers[1] = Main
    <3>1. /\ route[Main].pod = 0 /\ route[Main].id \in Nat
          /\ route[Main].id < Len(table[0].workers)
          /\ table[0].workers[route[Main].id + 1] = Main
      BY <2>2, <2>4 DEF Placed, PlacedIn
    <3>2. route[Main].id = 0 /\ Len(table[0].workers) = 1
      <4>1. ASSUME NEW i \in Nat, NEW n \in Nat, i < n, n <= 1 PROVE i = 0 /\ n = 1
        BY <4>1
      <4>2. Len(table[0].workers) \in Nat /\ Len(table[0].workers) <= 1
        BY <2>3
      <4> QED
        BY <3>1, <4>1, <4>2
    <3>3. route[Main].id + 1 = 1
      BY <3>2
    <3> QED
      BY <3>1, <3>2, <3>3
  <2>6. GetWorker(table[route[Main].pod], route[Main].id) = Main
    BY <2>5 DEF GetWorker
  <2>7. \A c \in Guests : worker[c] = "none"
    BY <2>1, <2>2, <2>5 DEF OneInv, Lasting, ServiceInv, BegunPlaced
  <2>8. ASSUME svl.pc = "exited" PROVE worker[Main] \in {"closing", "closed"}
    <3>1. pod[0].pc = "exited" /\ DrainedPod(0)
      BY <2>2, <2>8 DEF OneInv, WhilePolled, JoinInv, AllJoined, HaltInv, Drained
    <3>2. Left(table[0].workers[1])
      BY <2>5, <3>1 DEF DrainedPod
    <3> QED
      BY <2>5, <3>2 DEF Left
  <2> QED
    BY <2>6, <2>7, <2>8
<1> QED
  BY <1>1, OneInvariance, PTL

(***************************************************************************)
(* The control plane is as good under the command One as by itself.  Until *)
(* the process ends no pod is overfull, has an empty slot or is taken for  *)
(* full, requests are with their own workers, and nobody is told what is   *)
(* not so.  While start_one runs, no handler is forgotten by a halt or an  *)
(* error, nobody waits in a circle, and a shutdown ends with every handler *)
(* answered; when it returns before that, handlers go with the runtime.    *)
(***************************************************************************)
THEOREM OneIsSound ==
  OneSpec => [](/\ TypeOK /\ PodWithinCapacity /\ NoEmptySlot /\ RefusedOnlyWhenFull
                /\ OwnWorkerOnly /\ TellsWhatHappened
                /\ main # "over" => /\ NoOrphanedRequest /\ HaltedPodIsQuiet
                                    /\ NoCircularWait /\ ExitOwesNothing)
<1>1. OneInv => /\ TypeOK /\ PodWithinCapacity /\ NoEmptySlot /\ RefusedOnlyWhenFull
                /\ OwnWorkerOnly /\ TellsWhatHappened
  BY InvImplies DEF OneInv, Lasting, TypeInv, SvlTypeInv, PodTypeInv, TypeOK, TellsInv, Told,
    TellsWhatHappened
<1>2. OneInv /\ main # "over" => /\ NoOrphanedRequest /\ HaltedPodIsQuiet
                                 /\ NoCircularWait /\ ExitOwesNothing
  BY NoneOrphaned, HaltedIsQuiet, SomebodyMoves, NothingOwed
  DEF OneInv, Lasting, WhilePolled, FullInv
<1> QED
  BY <1>1, <1>2, OneInvariance, PTL

\* For the service, a request whose handler does not come back has failed.
LEMMA TakingEnds ==
  ASSUME TypeInv, MainTakes
  PROVE  Promise!Next
<1>1. /\ UNCHANGED <<op, reply, worker, held, table>> /\ client'[Main] = "done"
      /\ Main \in Reqs /\ reply[Main] = "created"
      /\ \A c \in Reqs : c # Main => client'[c] = client[c]
  BY StartOneAssumption DEF MainTakes, Respond, podVars, TypeInv, SvlTypeInv, SvlTypeOK
<1>2. ASSUME NEW c \in Reqs, c # Main PROVE EndsOrStays(c)
  BY <1>1, <1>2, StageStays DEF EndsOrStays, AtPromise
<1>3. EndsOrStays(Main)
  <2>1. StageOf(Main)' = IF Main \in WorkerReqs THEN "failed" ELSE "new"
    BY <1>1, StagesNext
  <2>2. StageOf(Main) \in IF Main \in WorkerReqs
                          THEN {"new", "asked", "placed", "running", "failed"} ELSE {"new"}
    BY <1>1 DEF StageOf, WorkerReqs
  <2> QED
    BY <2>1, <2>2 DEF EndsOrStays
<1>4. UNCHANGED Holder
  BY <1>1 DEF Holder
<1> QED
  BY <1>2, <1>3, <1>4, IsEnding

(***************************************************************************)
(* The command One keeps the promise of Service to its guests and to main, *)
(* which asks for a worker and never sends it a request: the one slot is   *)
(* given once, and a guest is refused only while somebody has it.          *)
(***************************************************************************)
THEOREM OneKeepsPromise == OneSpec => KeepsPromise
<1>1. OneInit => Promise!Init
  BY PromiseInit DEF OneInit
<1>2. OneInv /\ [OneNext]_oneVars => [Promise!Next]_(Promise!serviceVars)
  <2> SUFFICES ASSUME OneInv, [OneNext]_oneVars PROVE [Promise!Next]_(Promise!serviceVars)
    OBVIOUS
  <2>1. PodLeft => Promise!Next
    BY PodKeepsPromise DEF PodLeft, OneInv, Lasting
  <2> QED
    BY <2>1, OneSteps, PromiseStep, TakingEnds DEF OneInv, Lasting
<1> QED
  BY <1>1, <1>2, OneInvariance, PTL DEF OneSpec, KeepsPromise, Promise!Spec

(***************************************************************************)
(* The work left shrinks under the command One too: main, while it starts  *)
(* its worker and waits for it, is a handler that gives nobody more to do  *)
(* than a trigger, and it comes back from its wait once.  The same holds   *)
(* of the pod after that, which is what the drop of the runtime waits for. *)
(***************************************************************************)
THEOREM OneWorkEnds == OneSpec => WorkRunsDown
<1>1. ASSUME OneInv, MainTakes PROVE ~ UNCHANGED client /\ HandlersRunDown
  <2>1. /\ client \in [Reqs -> ClientStates] /\ client' = [client EXCEPT ![Main] = "done"]
        /\ Main \in Reqs /\ client[Main] = "wait"
        /\ UNCHANGED <<svlQ, svl, pod, podQ, table, worker, wq, held, killed>>
    BY <1>1, StartOneAssumption
    DEF OneInv, Lasting, Takings, MainTakes, Respond, podVars, TypeInv, SvlTypeInv, SvlTypeOK
  <2>2. /\ Backlog' = Backlog /\ SvlWork' = SvlWork
        /\ \A p \in Pods : PodWork(p)' = PodWork(p)
        /\ \A w \in Reqs : WorkerWork(w)' = WorkerWork(w)
    BY <2>1 DEF Backlog, SvlWork, PodWork, WorkerWork
  <2>3. /\ HandlerWork(Main) = 2 /\ HandlerWork(Main)' = 0
        /\ \A c \in Reqs : c # Main => HandlerWork(c)' = HandlerWork(c)
        /\ \A c \in Reqs : HandlerWork(c) \in 0 .. 3
    BY <2>1 DEF HandlerWork
  <2>4. \A c \in Reqs : HandlerWork(c)' \in 0 .. HandlerWork(c)
    BY <2>3
  <2>5. \E c \in Reqs : HandlerWork(c)' # HandlerWork(c)
    BY <2>1, <2>3
  <2>6. client' # client
    BY <2>1
  <2> QED
    BY <2>2, <2>4, <2>5, <2>6 DEF HandlersRunDown
<1>2. ASSUME OneInv, PodLeft PROVE UNCHANGED client /\ TasksRunDown
  BY <1>2, PodWorkStep, HandlersKept DEF PodLeft, OneInv, Lasting, WorkInv
<1>3. OneInv /\ [OneNext]_oneVars
        => [IF UNCHANGED client THEN TasksRunDown ELSE HandlersRunDown]_vars
  BY <1>1, <1>2, OneSteps, WorkShrinks DEF OneInv, Lasting, WorkInv
<1> QED
  BY <1>3, OneInvariance, PTL DEF OneSpec, WorkRunsDown
=============================================================================
