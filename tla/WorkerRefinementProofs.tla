----------------------- MODULE WorkerRefinementProofs -----------------------
(***************************************************************************)
(* Worker implements the worker of Pod (WorkerRefinement), for any set of  *)
(* requests and fetches and any capacity of the channel.                   *)
(***************************************************************************)
EXTENDS WorkerRefinement, WorkerProofs

LEMMA Placing ==
  ASSUME NEW v, NEW u, NEW o
  PROVE  /\ At(v, o)[Self] = v
         /\ [At(v, o) EXCEPT ![Self] = u] = At(u, o)
BY SelfAssumption DEF At

(***************************************************************************)
(* The steps of Pod's worker, in terms of what is seen of this one.        *)
(***************************************************************************)
LEMMA IsReady ==
  ASSUME Life = "starting", Life' = "ready", UNCHANGED <<Channel, Full, reply>>
  PROVE  Outside!WorkerReady(Self)
<1>1. At(Life, "none")[Self] = "starting"
  BY Placing
<1>2. At(Life', "none") = [At(Life, "none") EXCEPT ![Self] = "ready"]
  BY Placing
<1> QED
  BY <1>1, <1>2 DEF Outside!WorkerReady

LEMMA IsStartFails ==
  ASSUME Life = "starting", Life' = "closing", Channel' = <<>>, UNCHANGED Full,
         reply' = [c \in Reqs |-> IF Http(c) \in Elems(Channel) THEN "dropped" ELSE reply[c]]
  PROVE  Outside!WorkerStartFails(Self)
<1>1. /\ At(Life, "none")[Self] = "starting"
      /\ At(Channel, <<>>)[Self] = Channel
  BY Placing
<1>2. /\ At(Life', "none") = [At(Life, "none") EXCEPT ![Self] = "closing"]
      /\ At(Channel', <<>>) = [At(Channel, <<>>) EXCEPT ![Self] = <<>>]
  BY Placing
<1> QED
  BY <1>1, <1>2 DEF Outside!WorkerStartFails, Outside!LeaveLoop, Outside!QueuedHttp,
                    Outside!Http, Http, Outside!Elems, Elems

LEMMA IsTurn ==
  ASSUME NEW m \in Triggers, Life = "ready", Channel # <<>>, Head(Channel) = m
  PROVE  /\ m \in Halts => Outside!WorkerReceives(Self, {"podHalt", "monitorHalt"})
         /\ m \notin Halts => Outside!WorkerReceives(Self, {"http"})
<1>1. /\ At(Life, "none")[Self] = "ready"
      /\ At(Channel, <<>>)[Self] = Channel
  BY Placing
<1>2. IF m \in Halts THEN m.type \in {"podHalt", "monitorHalt"} ELSE m.type = "http"
  BY DEF Triggers, Halts, Http, PodHalt, MonitorHalt
<1> QED
  BY <1>1, <1>2 DEF Outside!WorkerReceives

LEMMA IsLeaving ==
  ASSUME NEW m \in Triggers, Life = "ready", Channel # <<>>, Head(Channel) = m,
         Life' = "closing", Channel' = <<>>, UNCHANGED Full,
         reply' = [c \in Reqs |-> IF Http(c) \in Elems(Channel) THEN "dropped" ELSE reply[c]]
  PROVE  Outside!WorkerHalts(Self) \/ Outside!WorkerFailsHttp(Self)
<1>1. At(Channel, <<>>)[Self] = Channel
  BY Placing
<1>2. /\ At(Life', "none") = [At(Life, "none") EXCEPT ![Self] = "closing"]
      /\ At(Channel', <<>>) = [At(Channel, <<>>) EXCEPT ![Self] = <<>>]
  BY Placing
<1>3. Outside!LeaveLoop(Self, Outside!QueuedHttp(Self))
  BY <1>1, <1>2 DEF Outside!LeaveLoop, Outside!QueuedHttp,
                    Outside!Http, Http, Outside!Elems, Elems
<1> QED
  BY <1>3, IsTurn DEF Outside!WorkerHalts, Outside!WorkerFailsHttp

LEMMA IsIgnoring ==
  ASSUME NEW c \in Reqs, Life = "ready", Channel # <<>>, Head(Channel) = Http(c),
         UNCHANGED <<Life, Full>>, Channel' = Tail(Channel),
         reply' = [reply EXCEPT ![c] = "dropped"]
  PROVE  Outside!WorkerIgnoresHttp(Self)
<1>1. At(Channel, <<>>)[Self] = Channel /\ Http(c).req = c
  BY Placing DEF Http
<1>2. At(Channel', <<>>) = [At(Channel, <<>>) EXCEPT ![Self] = Tail(Channel)]
  BY DEF At
<1>3. Outside!WorkerReceives(Self, {"http"})
  BY IsTurn, TriggerFacts
<1> QED
  BY <1>1, <1>2, <1>3 DEF Outside!WorkerIgnoresHttp

LEMMA IsHolding ==
  ASSUME NEW c \in Reqs, Life = "ready", Channel # <<>>, Head(Channel) = Http(c),
         UNCHANGED <<Life, reply>>, Channel' = Tail(Channel), Full' = Full \cup {c}
  PROVE  Outside!WorkerHoldsHttp(Self)
<1>1. /\ At(Channel, <<>>)[Self] = Channel /\ At(Full, {})[Self] = Full
      /\ Http(c).req = c
  BY Placing DEF Http
<1>2. /\ At(Channel', <<>>) = [At(Channel, <<>>) EXCEPT ![Self] = Tail(Channel)]
      /\ At(Full', {}) = [At(Full, {}) EXCEPT ![Self] = Full \cup {c}]
  BY DEF At
<1>3. Outside!WorkerReceives(Self, {"http"})
  BY IsTurn, TriggerFacts
<1> QED
  BY <1>1, <1>2, <1>3 DEF Outside!WorkerHoldsHttp

LEMMA IsFailingKept ==
  ASSUME NEW c \in Reqs, Life = "ready", Channel # <<>>, Head(Channel) = Http(c),
         Life' = "closing", Channel' = <<>>, Full' = Full \cup {c},
         reply' = [d \in Reqs |-> IF Http(d) \in Elems(Channel) /\ d # c THEN "dropped"
                                  ELSE reply[d]]
  PROVE  Outside!WorkerFailsKept(Self)
<1>1. /\ At(Channel, <<>>)[Self] = Channel /\ At(Full, {})[Self] = Full
      /\ Http(c).req = c
  BY Placing DEF Http
<1>2. /\ At(Channel', <<>>) = [At(Channel, <<>>) EXCEPT ![Self] = <<>>]
      /\ At(Full', {}) = [At(Full, {}) EXCEPT ![Self] = Full \cup {c}]
      /\ At(Life', "none") = [At(Life, "none") EXCEPT ![Self] = "closing"]
  BY DEF At
<1>3. Outside!WorkerReceives(Self, {"http"})
  BY IsTurn, TriggerFacts
<1>4. Outside!QueuedHttp(Self) = {d \in Reqs : Http(d) \in Elems(Channel)}
  BY <1>1 DEF Outside!QueuedHttp, Outside!Http, Http, Outside!Elems, Elems
<1>5. reply' = [d \in Reqs |-> IF d \in Outside!QueuedHttp(Self) \ {c} THEN "dropped"
                               ELSE reply[d]]
  BY <1>4
<1>6. Head(At(Channel, <<>>)[Self]).req = c
  BY <1>1
<1> QED
  BY <1>1, <1>2, <1>3, <1>5, <1>6 DEF Outside!WorkerFailsKept

LEMMA IsReplying ==
  ASSUME NEW c \in Full, Life \in {"ready", "closing"}, UNCHANGED <<Life, Channel>>,
         Full' = Full \ {c}, reply' = [reply EXCEPT ![c] = "value"]
  PROVE  Outside!WorkerReplies(Self, c)
<1>1. At(Life, "none")[Self] = Life /\ At(Full, {})[Self] = Full
  BY Placing
<1>2. At(Full', {}) = [At(Full, {}) EXCEPT ![Self] = Full \ {c}]
  BY DEF At
<1> QED
  BY <1>1, <1>2 DEF Outside!WorkerReplies

LEMMA IsClosing ==
  ASSUME Life = "closing", Life' = "closed", UNCHANGED Channel, Full' = {},
         reply' = [c \in Reqs |-> IF c \in Full THEN "empty" ELSE reply[c]]
  PROVE  Outside!WorkerCloses(Self)
<1>1. At(Life, "none")[Self] = Life /\ At(Full, {})[Self] = Full
  BY Placing
<1>2. /\ At(Full', {}) = [At(Full, {}) EXCEPT ![Self] = {}]
      /\ At(Life', "none") = [At(Life, "none") EXCEPT ![Self] = "closed"]
  BY Placing
<1> QED
  BY <1>1, <1>2 DEF Outside!WorkerCloses

\* The only worker of the pod, as seen here, is this one.
LEMMA IsCancelled ==
  ASSUME Life \in {"starting", "ready"}, Life' = "cancelled", Channel' = <<>>, UNCHANGED Full,
         reply \in [Reqs -> {"none", "pending", "value", "empty", "dropped"}],
         reply' = [c \in Reqs |-> IF Http(c) \in Elems(Channel) THEN "dropped" ELSE reply[c]]
  PROVE  Outside!CancelWorkers(0)
<1>1. /\ At(Life, "none")[Self] = Life /\ At(Channel, <<>>)[Self] = Channel
      /\ At(Full, {})[Self] = Full
  BY Placing
<1>2. Self # None
  BY SelfAssumption, WorkerAssumption
<1>3. Outside!WorkersOf(0) = {Self}
  BY <1>2 DEF Outside!WorkersOf, Outside!Elems, PodWith
<1>4. {w \in Outside!WorkersOf(0) : Outside!Listening(w)} = {Self}
  BY <1>1, <1>2, <1>3 DEF Outside!Listening
<1>5. {w \in Outside!WorkersOf(0) : At(Life, "none")[w] = "closing"} = {}
  BY <1>1, <1>3
<1>6. {c \in Reqs : \E w \in {Self} : Outside!Http(c) \in Outside!Elems(At(Channel, <<>>)[w])}
        = {c \in Reqs : Http(c) \in Elems(Channel)}
  BY <1>1 DEF Outside!Http, Http, Outside!Elems, Elems
<1>7. /\ At(Life', "none") = [w \in Reqs |-> IF w \in {Self} THEN "cancelled"
                                             ELSE IF w \in {} THEN "closed"
                                             ELSE At(Life, "none")[w]]
      /\ At(Channel', <<>>) = [w \in Reqs |-> IF w \in {Self} THEN <<>>
                                              ELSE At(Channel, <<>>)[w]]
      /\ At(Full', {}) = [w \in Reqs |-> IF w \in {} THEN {} ELSE At(Full, {})[w]]
  BY DEF At
<1> QED
  BY <1>4, <1>5, <1>6, <1>7 DEF Outside!CancelWorkers

-----------------------------------------------------------------------------
(***************************************************************************)
(* What is seen of the worker, from the state of its task.                 *)
(***************************************************************************)
LEMMA Lives ==
  /\ pc = "starting" => Life = "starting"
  /\ pc \in {"waiting", "checkpoint", "call", "then"} => Life = "ready"
  /\ pc \in {"closing", "closed", "cancelled"} => Life = pc
BY DEF Life

LEMMA InHand ==
  ASSUME TypeOK
  PROVE  /\ hand = None => Channel = queue
         /\ hand # None => /\ Channel # <<>> /\ Head(Channel) = hand /\ Tail(Channel) = queue
                           /\ Elems(Channel) = {hand} \cup Elems(queue)
                           /\ hand \in Triggers
<1>1. queue \in Seq(Triggers) /\ hand \in Triggers \cup {None}
  BY DEF TypeOK
<1>2. CASE hand = None
  BY <1>2 DEF Channel
<1>3. CASE hand # None
  <2>1. /\ Channel \in Seq(Triggers) /\ Channel # <<>>
        /\ Head(Channel) = hand /\ Tail(Channel) = queue
    BY <1>1, <1>3 DEF Channel
  <2>2. Elems(Channel) = {hand} \cup Elems(queue)
    <3>1. Head(Channel) \in Triggers
      BY <1>1, <1>3, <2>1
    <3> QED
      BY <2>1, <3>1, SeqElems
  <2> QED
    BY <1>1, <1>3, <2>1, <2>2
<1> QED
  BY <1>2, <1>3

\* A fetch future that is being polled has not ended, and the task awaits.
Resumes == resuming # None => pc \in {"waiting", "closing"} /\ resuming \in fetches

LEMMA ResumesKept ==
  ASSUME Inv, Resumes, [Next]_vars
  PROVE  Resumes'
<1>1. None \notin Fetches
  BY WorkerAssumption
<1> USE DEF Resumes
<1>2. CASE \E c \in Reqs : HttpArrives(c) \/ Callback(c)
  BY <1>2 DEF HttpArrives, Callback
<1>3. CASE \E m \in Halts : HaltArrives(m)
  BY <1>3 DEF HaltArrives
<1>4. CASE \E f \in Fetches : StartsFetch(f) \/ FetchResumes(f)
  BY <1>1, <1>4 DEF StartsFetch, FetchResumes
<1>5. CASE TaskStep
  BY <1>5 DEF TaskStep, Evaluated, StartFails, Receives, LeavesOnHalt, NoFetchFunction, Calls,
              CallFails, NoPromise, Keeps, KeepsInVain, NextEvent, FetchEnds, Closes
<1>6. CASE CancelledClosing \/ Cancelled
  BY <1>6 DEF CancelledClosing, Cancelled
<1>7. CASE UNCHANGED vars
  BY <1>7 DEF vars
<1> QED
  BY <1>2, <1>3, <1>4, <1>5, <1>6, <1>7 DEF Next, Over

(***************************************************************************)
(* Every step of Worker, one by one.                                       *)
(***************************************************************************)
Seen == <<Life, Channel, Full, reply>>

LEMMA Arriving ==
  ASSUME Inv, NEW m \in Triggers, Arrives(m), UNCHANGED <<pc, hand, box>>,
         reply' = IF m \in Halts THEN reply ELSE [reply EXCEPT ![m.req] = "pending"]
  PROVE  SentTo(m)
<1>1. TypeOK /\ pc \in {"starting", "waiting"} /\ hand = None /\ queue' = Append(queue, m)
  BY DEF Inv, TypeOK, Arrives, Listening
<1>2. Channel = queue /\ Channel' = queue'
  BY <1>1 DEF Channel
<1>3. UNCHANGED <<Life, Full>>
  BY DEF Life, Full
<1>4. Outside!Listening(Self)
  <2>1. At(Life, "none")[Self] \in {"starting", "ready"}
    BY <1>1, Lives, Placing
  <2> QED
    BY <2>1, SelfAssumption, WorkerAssumption DEF Outside!Listening
<1> QED
  BY <1>1, <1>2, <1>3, <1>4 DEF SentTo

LEMMA Internal ==
  ASSUME Inv,
         \/ \E f \in Fetches : StartsFetch(f) \/ FetchResumes(f)
         \/ Receives \/ Calls \/ NextEvent \/ FetchEnds
         \/ UNCHANGED vars
  PROVE  UNCHANGED Seen
<1>1. TypeOK
  BY DEF Inv
<1>2. UNCHANGED <<box, reply>>
  BY DEF StartsFetch, FetchResumes, Receives, Calls, NextEvent, FetchEnds, vars
<1>3. UNCHANGED Full
  BY <1>2 DEF Full
<1>4. UNCHANGED Life
  BY DEF Life, StartsFetch, FetchResumes, Receives, Calls, NextEvent, FetchEnds, vars
<1>5. UNCHANGED Channel
  <2>1. CASE Receives
    <3>1. hand = None /\ queue \in Seq(Triggers) /\ queue # <<>>
      BY <1>1, <2>1 DEF TypeOK, Receives
    <3>2. hand' = Head(queue) /\ queue' = Tail(queue) /\ hand' \in Triggers
      BY <2>1, <3>1 DEF Receives
    <3>3. hand' # None
      BY <3>2, TriggerFacts
    <3>4. <<Head(queue)>> \o Tail(queue) = queue
      BY <3>1
    <3> QED
      BY <3>1, <3>2, <3>3, <3>4 DEF Channel
  <2>2. CASE ~ Receives
    BY <2>2 DEF Channel, StartsFetch, FetchResumes, Calls, NextEvent, FetchEnds, vars
  <2> QED
    BY <2>1, <2>2
<1> QED
  BY <1>2, <1>3, <1>4, <1>5 DEF Seen

LEMMA Replying ==
  ASSUME Inv, Resumes, NEW c \in Reqs, Callback(c)
  PROVE  Outside!WorkerReplies(Self, c)
<1>1. TypeOK
  BY DEF Inv
<1>2. pc \in {"waiting", "closing", "checkpoint", "call", "then"}
  BY DEF Callback, UserCodeRuns, Resumes
<1>3. Life \in {"ready", "closing"}
  BY <1>2, Lives
<1>4. UNCHANGED <<Life, Channel>>
  BY DEF Callback, Life, Channel
<1>5. c \in Full /\ Full' = Full \ {c}
  BY <1>1 DEF Callback, Full, TypeOK
<1>6. reply' = [reply EXCEPT ![c] = "value"]
  BY DEF Callback
<1> QED
  BY <1>3, <1>4, <1>5, <1>6, IsReplying

LEMMA Starting ==
  ASSUME Inv, Evaluated
  PROVE  Outside!WorkerReady(Self)
<1>1. pc = "starting" /\ pc' = "waiting" /\ UNCHANGED <<hand, queue, box, reply>>
  BY DEF Evaluated
<1>2. Life = "starting" /\ Life' = "ready"
  BY <1>1 DEF Life
<1>3. UNCHANGED <<Channel, Full>>
  BY <1>1 DEF Channel, Full
<1> QED
  BY <1>1, <1>2, <1>3, IsReady

\* The loop is left: what was queued, and what was in hand, is dropped.
LEMMA LeavesTheLoop ==
  ASSUME Inv, NEW cs, Leave(cs), UNCHANGED box,
         \/ hand \in Halts /\ cs = {}
         \/ hand = None /\ cs = {}
         \/ hand # None /\ hand \notin Halts /\ cs = {hand.req}
  PROVE  /\ Life' = "closing" /\ Channel' = <<>> /\ UNCHANGED Full
         /\ reply' = [c \in Reqs |-> IF Http(c) \in Elems(Channel) THEN "dropped" ELSE reply[c]]
<1>1. TypeOK
  BY DEF Inv
<1>2. Life' = "closing" /\ Channel' = <<>> /\ UNCHANGED Full
  BY DEF Leave, Life, Channel, Full
<1>3. reply' = DroppedWith(QueuedHttp \cup cs)
  BY DEF Leave
<1>4. ASSUME NEW c \in Reqs
      PROVE  c \in QueuedHttp \cup cs <=> Http(c) \in Elems(Channel)
  <2>1. c \in QueuedHttp <=> Http(c) \in Elems(queue)
    BY DEF QueuedHttp
  <2>2. CASE hand = None
    BY <1>1, <2>1, <2>2, InHand, TriggerFacts
  <2>3. CASE hand \in Halts
    BY <1>1, <2>1, <2>3, InHand, TriggerFacts
  <2>4. CASE hand # None /\ hand \notin Halts
    <3>1. Elems(Channel) = {hand} \cup Elems(queue) /\ hand \in Triggers
      BY <1>1, <2>4, InHand
    <3>2. hand = Http(hand.req) /\ hand.req \in Reqs
      BY <2>4, <3>1, TriggerFacts
    <3>3. c = hand.req <=> Http(c) = hand
      BY <3>2, TriggerFacts
    <3>4. cs = {hand.req}
      BY <2>4, TriggerFacts
    <3> QED
      BY <2>1, <3>1, <3>3, <3>4
  <2> QED
    BY <2>2, <2>3, <2>4
<1>5. reply' = [c \in Reqs |-> IF Http(c) \in Elems(Channel) THEN "dropped" ELSE reply[c]]
  BY <1>3, <1>4 DEF DroppedWith
<1> QED
  BY <1>2, <1>5

LEMMA FailingToStart ==
  ASSUME Inv, StartFails
  PROVE  Outside!WorkerStartFails(Self)
<1>1. pc = "starting" /\ hand = None /\ Leave({}) /\ UNCHANGED box
  BY DEF StartFails, Inv, TypeOK
<1>2. Life = "starting"
  BY <1>1, Lives
<1> QED
  BY <1>1, <1>2, LeavesTheLoop, IsStartFails

LEMMA EndingTheLoop ==
  ASSUME Inv, LeavesOnHalt \/ CallFails
  PROVE  Outside!WorkerHalts(Self) \/ Outside!WorkerFailsHttp(Self)
<1>1. /\ TypeOK /\ UNCHANGED box
      /\ pc \in {"checkpoint", "call"} /\ hand # None
      /\ (hand \in Halts /\ Leave({})) \/ (hand \notin Halts /\ Leave({hand.req}))
  BY DEF LeavesOnHalt, CallFails, Inv, Ends, TypeOK
<1>2. Life = "ready"
  BY <1>1, Lives
<1>3. hand \in Triggers /\ Channel # <<>> /\ Head(Channel) = hand
  BY <1>1, InHand
<1>4. /\ Life' = "closing" /\ Channel' = <<>> /\ UNCHANGED Full
      /\ reply' = [c \in Reqs |-> IF Http(c) \in Elems(Channel) THEN "dropped" ELSE reply[c]]
  BY <1>1, LeavesTheLoop
<1> QED
  BY <1>2, <1>3, <1>4, IsLeaving

\* The turn of a trigger that is not a Halt.
LEMMA Turns ==
  ASSUME Inv, pc \in {"checkpoint", "call"}, hand \notin Halts
  PROVE  /\ hand.req \in Reqs /\ hand = Http(hand.req)
         /\ Life = "ready" /\ Channel # <<>> /\ Head(Channel) = Http(hand.req)
         /\ Tail(Channel) = queue
         /\ Elems(Channel) = {hand} \cup Elems(queue)
         /\ hand \notin Elems(queue)
<1>1. TypeOK /\ hand # None
  BY DEF Inv, TypeOK
<1>2. hand \in Triggers /\ Channel # <<>> /\ Head(Channel) = hand /\ Tail(Channel) = queue
        /\ Elems(Channel) = {hand} \cup Elems(queue)
  BY <1>1, InHand
<1>3. hand.req \in Reqs /\ hand = Http(hand.req)
  BY <1>2, TriggerFacts
<1> QED
  BY <1>1, <1>2, <1>3, Lives DEF Inv, InOnePlace

LEMMA Ignoring ==
  ASSUME Inv, NoFetchFunction \/ NoPromise
  PROVE  Outside!WorkerIgnoresHttp(Self)
<1>1. /\ pc \in {"checkpoint", "call"} /\ hand \notin Halts /\ TypeOK
      /\ pc' = "waiting" /\ hand' = None /\ reply' = DroppedWith({hand.req})
      /\ UNCHANGED <<queue, box>>
  BY DEF NoFetchFunction, NoPromise, Inv, Ends
<1>2. /\ hand.req \in Reqs /\ Life = "ready" /\ Channel # <<>>
      /\ Head(Channel) = Http(hand.req) /\ Tail(Channel) = queue
  BY <1>1, Turns
<1>3. Life' = "ready" /\ Channel' = queue /\ UNCHANGED Full
  BY <1>1 DEF Life, Channel, Full
<1>4. reply' = [reply EXCEPT ![hand.req] = "dropped"]
  BY <1>1 DEF DroppedWith, TypeOK
<1> QED
  BY <1>2, <1>3, <1>4, IsIgnoring

LEMMA Holding ==
  ASSUME Inv, Keeps
  PROVE  Outside!WorkerHoldsHttp(Self)
<1>1. /\ pc = "call" /\ hand \notin Halts /\ TypeOK
      /\ pc' = "then" /\ hand' = None /\ box' = [box EXCEPT ![hand.req] = "full"]
      /\ UNCHANGED <<queue, reply>>
  BY DEF Keeps, Inv, Ends
<1>2. /\ hand.req \in Reqs /\ Life = "ready" /\ Channel # <<>>
      /\ Head(Channel) = Http(hand.req) /\ Tail(Channel) = queue
  BY <1>1, Turns
<1>3. Life' = "ready" /\ Channel' = queue
  BY <1>1 DEF Life, Channel
<1>4. Full' = Full \cup {hand.req}
  BY <1>1, <1>2 DEF Full, TypeOK
<1> QED
  BY <1>1, <1>2, <1>3, <1>4, IsHolding

LEMMA FailingKept ==
  ASSUME Inv, KeepsInVain
  PROVE  Outside!WorkerFailsKept(Self)
<1>1. /\ pc = "call" /\ hand \notin Halts /\ TypeOK
      /\ box' = [box EXCEPT ![hand.req] = "deaf"]
      /\ pc' = "closing" /\ hand' = None /\ queue' = <<>>
      /\ reply' = DroppedWith(QueuedHttp \cup {})
  BY DEF KeepsInVain, Leave, Inv, Ends
<1>2. /\ hand.req \in Reqs /\ hand = Http(hand.req) /\ Life = "ready" /\ Channel # <<>>
      /\ Head(Channel) = Http(hand.req)
      /\ Elems(Channel) = {hand} \cup Elems(queue) /\ hand \notin Elems(queue)
  BY <1>1, Turns
<1>3. Life' = "closing" /\ Channel' = <<>>
  BY <1>1 DEF Life, Channel
<1>4. Full' = Full \cup {hand.req}
  BY <1>1, <1>2 DEF Full, TypeOK
<1>5. ASSUME NEW d \in Reqs
      PROVE  d \in QueuedHttp \cup {} <=> Http(d) \in Elems(Channel) /\ d # hand.req
  BY <1>2, TriggerFacts DEF QueuedHttp
<1>6. reply' = [d \in Reqs |-> IF Http(d) \in Elems(Channel) /\ d # hand.req THEN "dropped"
                               ELSE reply[d]]
  BY <1>1, <1>5 DEF DroppedWith
<1> QED
  BY <1>2, <1>3, <1>4, <1>6, IsFailingKept

\* Drop finds every replier that is in its box, since each has a slot.
LEMMA ClosingDown ==
  ASSUME Inv, Closes \/ CancelledClosing
  PROVE  Outside!WorkerCloses(Self)
<1>1. /\ pc = "closing" /\ pc' = "closed" /\ DropState /\ UNCHANGED <<hand, queue>>
  BY DEF Closes, CancelledClosing
<1>2. Answered = Full
  BY DEF Inv, OneSlotPerReplier, Answered, Elems
<1>3. Life = "closing" /\ Life' = "closed" /\ UNCHANGED Channel
  BY <1>1 DEF Life, Channel
<1>4. Full' = {}
  <2>1. \A c \in Reqs : box'[c] = IF c \in Full THEN "taken" ELSE box[c]
    BY <1>1, <1>2 DEF DropState
  <2> QED
    BY <2>1 DEF Full
<1>5. reply' = [c \in Reqs |-> IF c \in Full THEN "empty" ELSE reply[c]]
  BY <1>1, <1>2 DEF DropState
<1> QED
  BY <1>3, <1>4, <1>5, IsClosing

LEMMA CancelledAtAnAwait ==
  ASSUME Inv, Cancelled
  PROVE  Outside!CancelWorkers(0)
<1>1. /\ TypeOK /\ pc \in {"starting", "waiting"} /\ pc' = "cancelled" /\ hand = None
      /\ queue' = <<>> /\ reply' = DroppedWith(QueuedHttp) /\ UNCHANGED <<hand, box>>
  BY DEF Cancelled, Listening, Inv, TypeOK
<1>2. Life \in {"starting", "ready"} /\ Life' = "cancelled"
  BY <1>1, Lives DEF Life
<1>3. Channel = queue /\ Channel' = <<>> /\ UNCHANGED Full
  BY <1>1 DEF Channel, Full
<1>4. reply' = [c \in Reqs |-> IF Http(c) \in Elems(Channel) THEN "dropped" ELSE reply[c]]
  BY <1>1, <1>3 DEF DroppedWith, QueuedHttp
<1> QED
  BY <1>1, <1>2, <1>3, <1>4, IsCancelled DEF TypeOK
-----------------------------------------------------------------------------
PodsStep ==
  \/ Outside!WorkerStep(Self)
  \/ Outside!WorkerEvent(Self)
  \/ Outside!CancelWorkers(0)
  \/ \E m \in Triggers : SentTo(m)

LEMMA StepIsPods ==
  ASSUME Inv, Resumes, [Next]_vars
  PROVE  [PodsStep]_Seen
<1>1. CASE \E c \in Reqs : HttpArrives(c)
  <2>1. PICK c \in Reqs : HttpArrives(c)
    BY <1>1
  <2>2. Http(c) \in Triggers /\ Http(c) \notin Halts /\ Http(c).req = c
    BY TriggerFacts
  <2>3. SentTo(Http(c))
    BY <2>1, <2>2, Arriving DEF HttpArrives
  <2> QED
    BY <2>2, <2>3 DEF PodsStep
<1>2. CASE \E m \in Halts : HaltArrives(m)
  <2>1. PICK m \in Halts : HaltArrives(m)
    BY <1>2
  <2>2. m \in Triggers
    BY DEF Triggers
  <2>3. SentTo(m)
    BY <2>1, <2>2, Arriving DEF HaltArrives
  <2> QED
    BY <2>2, <2>3 DEF PodsStep
<1>3. CASE \E c \in Reqs : Callback(c)
  BY <1>3, Replying DEF PodsStep, Outside!WorkerEvent
<1>4. CASE \/ \E f \in Fetches : StartsFetch(f) \/ FetchResumes(f)
           \/ Receives \/ Calls \/ NextEvent \/ FetchEnds
           \/ UNCHANGED vars
  BY <1>4, Internal
<1>5. CASE Evaluated
  BY <1>5, Starting DEF PodsStep, Outside!WorkerStep
<1>6. CASE StartFails
  BY <1>6, FailingToStart DEF PodsStep, Outside!WorkerStep
<1>7. CASE LeavesOnHalt \/ CallFails
  BY <1>7, EndingTheLoop DEF PodsStep, Outside!WorkerStep
<1>8. CASE NoFetchFunction \/ NoPromise
  BY <1>8, Ignoring DEF PodsStep, Outside!WorkerStep
<1>9. CASE Keeps
  BY <1>9, Holding DEF PodsStep, Outside!WorkerStep
<1>10. CASE KeepsInVain
  BY <1>10, FailingKept DEF PodsStep, Outside!WorkerStep
<1>11. CASE Closes \/ CancelledClosing
  BY <1>11, ClosingDown DEF PodsStep, Outside!WorkerEvent
<1>12. CASE Cancelled
  BY <1>12, CancelledAtAnAwait DEF PodsStep
<1> QED
  BY <1>1, <1>2, <1>3, <1>4, <1>5, <1>6, <1>7, <1>8, <1>9, <1>10, <1>11, <1>12
     DEF Next, TaskStep, Over

(***************************************************************************)
(* The worker of worker/task.rs, with its slots, boxes and fetches, does   *)
(* to requests what Pod says a worker does, and nothing else: the steps of *)
(* Pod's workers, with which the whole system is proved, leave none out.   *)
(***************************************************************************)
THEOREM ImplementsPodsWorker == Spec => IsPodsWorker
<1>1. Init => Inv /\ Resumes
  BY Initially DEF Init, Resumes
<1>2. Inv /\ Resumes /\ [Next]_vars => Inv' /\ Resumes'
  BY Step, ResumesKept
<1>3. Inv /\ Resumes /\ [Next]_vars => [PodsStep]_Seen
  BY StepIsPods
<1>4. Spec => [][PodsStep]_Seen
  BY <1>1, <1>2, <1>3, PTL DEF Spec
<1> QED
  BY <1>4 DEF PodsStep, Seen, IsPodsWorker
=============================================================================
