----------------------------- MODULE HaltProofs -----------------------------
(***************************************************************************)
(* Theorems about the way requests and Halts take through Serverless: no   *)
(* handler waits for an answer nobody can give, a pod that confirms a Halt *)
(* is quiet, tasks, channels and handlers never wait in a circle, and the  *)
(* work left shrinks with every step.                                      *)
(***************************************************************************)
EXTENDS ServerlessProofs

(***************************************************************************)
(* One worker per request: as long as a request has none, at most one      *)
(* trigger asks for it, in the channel, at the serverless task or in a     *)
(* pod's channel; once placed, a worker has begun.                         *)
(***************************************************************************)
NewInv ==
  \A c \in Reqs : client[c] = "new" =>
    /\ worker[c] = "none" /\ svl.req # c
    /\ \A i \in 1 .. Len(svlQ) : svlQ[i].req # c

AskedOnce ==
  \A i \in 1 .. Len(svlQ) : svlQ[i].type = "worker" =>
    /\ worker[svlQ[i].req] = "none" /\ svl.req # svlQ[i].req
    /\ \A j \in 1 .. Len(svlQ) : svlQ[j].req = svlQ[i].req => j = i

Unborn ==
  /\ svl.pc \in {"check", "checkWait", "create"} => worker[svl.req] = "none"
  /\ \A p \in Pods : \A i \in 1 .. Len(podQ[p]) :
       podQ[p][i].type = "create" => worker[podQ[p][i].req] = "none"

PlacedBegun ==
  \A p \in Pods : \A i \in 1 .. Len(table[p].workers) :
    worker[table[p].workers[i]] # "none"

\* Removals wait for no reply; a serverless task at rest has no request.
RemovesUnawaited ==
  /\ \A i \in 1 .. Len(svlQ) : svlQ[i].type = "remove" => op[svlQ[i].req].kind = "remove"
  /\ \A c \in Reqs : client[c] = "wait" \/ reply[c] = "pending" => op[c].kind # "remove"

Resting == svl.pc \in {"select", "halt", "haltWait", "exited"} => svl.req = None

\* A worker that left its loop has no channel.
GoneQueueless == \A w \in Reqs : Listening(w) \/ wq[w] = <<>>

FlowInv ==
  /\ NewInv
  /\ AskedOnce
  /\ Unborn
  /\ PlacedBegun
  /\ RemovesUnawaited
  /\ Resting
  /\ GoneQueueless

(***************************************************************************)
(* The order of a shutdown.                                                *)
(***************************************************************************)
Left(w) == worker[w] \in {"closing", "closed"}

HaltingPods ==
  \A p \in Pods :
    /\ pod[p].pc # "recv" => svl.pc \in {"halt", "haltWait", "exited"} /\ podQ[p] = <<>>
    /\ svl.pc \in {"halt", "haltWait"} /\ p < svl.pod => pod[p].pc \in {"exiting", "exited"}
    /\ svl.pc = "haltWait" /\ p > svl.pod => pod[p].pc = "recv"
    /\ svl.pc = "halt" /\ p >= svl.pod => pod[p].pc = "recv"

HaltComesLast ==
  \A p \in Pods : \A i \in 1 .. Len(podQ[p]) : podQ[p][i].type = "halt" =>
    svl.pc = "haltWait" /\ svl.pod = p /\ i = Len(podQ[p])

DrainedPod(p) ==
  /\ pod[p].pc # "recv" =>
       \A i \in 1 .. Len(table[p].workers) : i <= pod[p].at => Left(table[p].workers[i])
  /\ pod[p].pc = "drainWait" =>
       /\ pod[p].at < Len(table[p].workers)
       /\ LET w == table[p].workers[pod[p].at + 1]
          IN  Left(w) \/ PodHalt \in Elems(wq[w])
  /\ pod[p].pc \in {"exiting", "exited"} => pod[p].at = Len(table[p].workers)

Drained == \A p \in Pods : DrainedPod(p)

NoneCancelled == \A w \in Reqs : worker[w] # "cancelled"

HaltInv ==
  svl.pc # "failed" =>
    /\ HaltingPods
    /\ HaltComesLast
    /\ Drained
    /\ NoneCancelled


-----------------------------------------------------------------------------
LEMMA Appending ==
  ASSUME NEW S, NEW s \in Seq(S), NEW m \in S
  PROVE  /\ Append(s, m) \in Seq(S)
         /\ Len(s) \in Nat
         /\ Len(Append(s, m)) = Len(s) + 1
         /\ \A i \in 1 .. Len(s) : Append(s, m)[i] = s[i]
         /\ Append(s, m)[Len(s) + 1] = m
OBVIOUS

LEMMA Taking ==
  ASSUME NEW S, NEW s \in Seq(S), s # <<>>
  PROVE  /\ Tail(s) \in Seq(S) /\ Head(s) \in S
         /\ Len(s) \in Nat /\ 1 \in 1 .. Len(s) /\ Head(s) = s[1]
         /\ Len(Tail(s)) = Len(s) - 1
         /\ \A i \in 1 .. Len(Tail(s)) : i + 1 \in 1 .. Len(s) /\ Tail(s)[i] = s[i + 1]
OBVIOUS

LEMMA FlowInit == Init => FlowInv
<1> SUFFICES ASSUME Init PROVE FlowInv
  OBVIOUS
<1> USE PodAssumption DEF Init, PodInit, Selecting, SvlAt
<1>1. NewInv /\ AskedOnce /\ Resting
  BY DEF NewInv, AskedOnce, Resting
<1>2. Unborn /\ GoneQueueless
  BY DEF Unborn, GoneQueueless
<1>3. PlacedBegun
  BY DEF PlacedBegun, EmptyTable
<1>4. RemovesUnawaited
  BY DEF RemovesUnawaited
<1> QED
  BY <1>1, <1>2, <1>3, <1>4 DEF FlowInv

\* The handlers.
LEMMA ClientFlowStep ==
  ASSUME TypeInv, Inv, FlowInv, NEW c \in Reqs, ClientStep(c) \/ ClientGone(c)
  PROVE  FlowInv'
<1> USE DEF TypeInv, SvlTypeInv, SvlTypeOK
<1>1. UNCHANGED <<op, svl, podQ, table, worker, wq>>
  BY DEF ClientStep, ClientSubmits, ClientFindsClosed, ClientBadBody, ClientUploaded,
         ClientNotCreated, ClientSendsHttp, ClientCannotSendHttp, ClientAnswered, ClientGone,
         podVars
<1>2. Unborn' /\ PlacedBegun' /\ Resting' /\ GoneQueueless'
  BY <1>1 DEF FlowInv, Unborn, PlacedBegun, Resting, GoneQueueless, Listening
<1>3. ASSUME UNCHANGED svlQ,
             client'[c] \notin {"new", "wait"}, reply' = reply,
             \A d \in Reqs \ {c} : client'[d] = client[d]
      PROVE  FlowInv'
  <2>1. NewInv' /\ AskedOnce'
    BY <1>1, <1>3 DEF FlowInv, NewInv, AskedOnce
  <2>2. RemovesUnawaited'
    BY <1>1, <1>3 DEF FlowInv, RemovesUnawaited
  <2> QED
    BY <1>2, <2>1, <2>2 DEF FlowInv
<1>4. ASSUME NEW t \in Kinds \cup {"toPod"}, svlQ' = Append(svlQ, Trigger(t, c)),
             client'[c] # "new", \A d \in Reqs \ {c} : client'[d] = client[d],
             t = "worker" => worker[c] = "none" /\ svl.req # c,
             \A i \in 1 .. Len(svlQ) : svlQ[i].type = "worker" \/ t = "worker" => svlQ[i].req # c
      PROVE  NewInv' /\ AskedOnce'
  <2> DEFINE m == Trigger(t, c)
  <2>1. m \in ServerlessTrigger /\ m.req = c /\ m.type = t
    BY ServerlessTriggers DEF Trigger
  <2>2. /\ Len(svlQ) \in Nat /\ Len(svlQ') = Len(svlQ) + 1
        /\ \A i \in 1 .. Len(svlQ) : svlQ'[i] = svlQ[i]
        /\ svlQ'[Len(svlQ) + 1] = m
    BY <1>4, <2>1, Appending
  <2>3. \A i \in 1 .. Len(svlQ') : i \in 1 .. Len(svlQ) \/ i = Len(svlQ) + 1
    BY <2>2
  <2>4. NewInv'
    BY <1>1, <1>4, <2>1, <2>2, <2>3 DEF FlowInv, NewInv
  <2>5. AskedOnce'
    <3> SUFFICES ASSUME NEW i \in 1 .. Len(svlQ'), svlQ'[i].type = "worker"
                 PROVE  /\ worker[svlQ'[i].req] = "none" /\ svl.req # svlQ'[i].req
                        /\ \A j \in 1 .. Len(svlQ') : svlQ'[j].req = svlQ'[i].req => j = i
      BY <1>1 DEF AskedOnce
    <3>1. CASE i = Len(svlQ) + 1
      BY <1>4, <2>1, <2>2, <2>3, <3>1
    <3>2. CASE i \in 1 .. Len(svlQ)
      <4>1. svlQ'[i] = svlQ[i] /\ svlQ[i].req # c
        BY <1>4, <2>2, <3>2
      <4>2. /\ worker[svlQ[i].req] = "none" /\ svl.req # svlQ[i].req
            /\ \A j \in 1 .. Len(svlQ) : svlQ[j].req = svlQ[i].req => j = i
        BY <3>2, <4>1 DEF FlowInv, AskedOnce
      <4> QED
        BY <2>1, <2>2, <2>3, <4>1, <4>2
    <3> QED
      BY <2>3, <3>1, <3>2
  <2> QED
    BY <2>4, <2>5
<1>5. CASE ClientSubmits(c)
  <2>1. op[c].kind \in Kinds \cup {"toPod"} /\ svlQ' = Append(svlQ, Trigger(op[c].kind, c))
    BY <1>5 DEF ClientSubmits, Send
  <2>2. client'[c] # "new" /\ \A d \in Reqs \ {c} : client'[d] = client[d]
    BY <1>5 DEF ClientSubmits, Respond
  <2>3. /\ worker[c] = "none" /\ svl.req # c
        /\ \A i \in 1 .. Len(svlQ) : svlQ[i].req # c
    BY <1>5 DEF ClientSubmits, FlowInv, NewInv
  <2>4. NewInv' /\ AskedOnce'
    BY <1>4, <2>1, <2>2, <2>3
  <2>5. RemovesUnawaited'
    <3>1. \A d \in Reqs : client'[d] = "wait" \/ reply'[d] = "pending" =>
            \/ client[d] = "wait" \/ reply[d] = "pending"
            \/ d = c /\ op[c].kind # "remove"
      BY <1>5 DEF ClientSubmits, Respond, PodTypeInv, PodTypeOK
    <3>2. \A i \in 1 .. Len(svlQ') : svlQ'[i].type = "remove" => op[svlQ'[i].req].kind = "remove"
      <4>1. Trigger(op[c].kind, c) \in ServerlessTrigger
        BY <2>1, ServerlessTriggers
      <4> QED
        BY <2>1, <4>1, Appending DEF Trigger, FlowInv, RemovesUnawaited
    <3> QED
      BY <1>1, <3>1, <3>2 DEF FlowInv, RemovesUnawaited
  <2> QED
    BY <1>2, <2>4, <2>5 DEF FlowInv
<1>6. CASE ClientSendsHttp(c)
  <2>1. svlQ' = Append(svlQ, Trigger("toPod", c))
    BY <1>6 DEF ClientSendsHttp, Send
  <2>2. client'[c] = "http" /\ \A d \in Reqs \ {c} : client'[d] = client[d]
    BY <1>6 DEF ClientSendsHttp
  <2>3. worker[c] # "none"
    <3>1. Placed(route[c].pod, route[c].id, c)
      BY <1>6 DEF ClientSendsHttp, Inv, RoutesPlaced
    <3>2. /\ route[c].pod \in Pods /\ route[c].id + 1 \in 1 .. Len(table[route[c].pod].workers)
          /\ table[route[c].pod].workers[route[c].id + 1] = c
      BY <3>1 DEF Placed, PlacedIn, PodTypeInv, PodTypeOK, TableType
    <3> QED
      BY <3>2 DEF FlowInv, PlacedBegun
  <2>4. \A i \in 1 .. Len(svlQ) : svlQ[i].type = "worker" => svlQ[i].req # c
    BY <2>3 DEF FlowInv, AskedOnce
  <2>5. NewInv' /\ AskedOnce'
    BY <1>4, <2>1, <2>2, <2>4
  <2>6. RemovesUnawaited'
    <3>1. op[c].kind # "remove"
      BY <1>6 DEF ClientSendsHttp, FlowInv, RemovesUnawaited
    <3>2. \A d \in Reqs : client'[d] = "wait" \/ reply'[d] = "pending" =>
            client[d] = "wait" \/ reply[d] = "pending" \/ d = c
      BY <1>6 DEF ClientSendsHttp, PodTypeInv, PodTypeOK
    <3>3. \A i \in 1 .. Len(svlQ') : svlQ'[i].type = "remove" => op[svlQ'[i].req].kind = "remove"
      <4>1. Trigger("toPod", c) \in ServerlessTrigger
        BY ServerlessTriggers
      <4> QED
        BY <2>1, <4>1, Appending DEF Trigger, FlowInv, RemovesUnawaited
    <3> QED
      BY <1>1, <3>1, <3>2, <3>3 DEF FlowInv, RemovesUnawaited
  <2> QED
    BY <1>2, <2>5, <2>6 DEF FlowInv
<1>7. CASE ClientFindsClosed(c) \/ ClientBadBody(c) \/ ClientUploaded(c) \/ ClientGone(c)
  BY <1>3, <1>7 DEF ClientFindsClosed, ClientBadBody, ClientUploaded, ClientGone, Respond, podVars
<1>8. CASE ClientNotCreated(c) \/ ClientCannotSendHttp(c) \/ ClientAnswered(c)
  BY <1>3, <1>8 DEF ClientNotCreated, ClientCannotSendHttp, ClientAnswered, Respond, podVars
<1> QED
  BY <1>5, <1>6, <1>7, <1>8 DEF ClientStep

(***************************************************************************)
(* The serverless task takes triggers from its channel, or drops it.       *)
(***************************************************************************)
LEMMA TriggersTaken ==
  ASSUME TypeInv, FlowInv, UNCHANGED <<op, client, worker>>,
         \/ svlQ' = svlQ \/ svlQ' = <<>>
         \/ svlQ # <<>> /\ svlQ' = Tail(svlQ),
         \/ svl'.req \in {svl.req, None}
         \/ svlQ # <<>> /\ svlQ' = Tail(svlQ) /\ svl'.req = Head(svlQ).req,
         \A d \in Reqs : reply'[d] = "pending" => reply[d] = "pending"
  PROVE  NewInv' /\ AskedOnce' /\ RemovesUnawaited'
<1> USE DEF FlowInv
<1>1. svlQ \in Seq(ServerlessTrigger) /\ None \notin Reqs
  BY PodAssumption DEF TypeInv, SvlTypeInv, SvlTypeOK
<1>2. \A i \in 1 .. Len(svlQ) : svlQ[i].req \in Reqs
  BY <1>1, ServerlessTriggers
<1>3. CASE svlQ # <<>> /\ svlQ' = Tail(svlQ)
  <2>1. /\ Len(svlQ) \in Nat /\ 1 \in 1 .. Len(svlQ) /\ Head(svlQ) = svlQ[1]
        /\ \A i \in 1 .. Len(svlQ') : i + 1 \in 1 .. Len(svlQ) /\ svlQ'[i] = svlQ[i + 1]
    BY <1>1, <1>3, Taking
  <2>2. NewInv'
    BY <1>1, <2>1 DEF NewInv
  <2>3. AskedOnce'
    <3> SUFFICES ASSUME NEW i \in 1 .. Len(svlQ'), svlQ'[i].type = "worker"
                 PROVE  /\ worker[svlQ'[i].req] = "none" /\ svl'.req # svlQ'[i].req
                        /\ \A j \in 1 .. Len(svlQ') : svlQ'[j].req = svlQ'[i].req => j = i
      BY DEF AskedOnce
    <3>1. i + 1 \in 1 .. Len(svlQ) /\ svlQ'[i] = svlQ[i + 1]
      BY <2>1
    <3>2. /\ worker[svlQ[i + 1].req] = "none" /\ svl.req # svlQ[i + 1].req
          /\ \A j \in 1 .. Len(svlQ) : svlQ[j].req = svlQ[i + 1].req => j = i + 1
      BY <3>1 DEF AskedOnce
    <3>3. svlQ[1].req # svlQ[i + 1].req
      BY <2>1, <3>2
    <3>4. \A j \in 1 .. Len(svlQ') : svlQ'[j].req = svlQ'[i].req => j = i
      BY <2>1, <3>1, <3>2
    <3> QED
      BY <1>1, <1>2, <2>1, <3>1, <3>2, <3>3, <3>4
  <2>4. RemovesUnawaited'
    BY <2>1 DEF RemovesUnawaited
  <2> QED
    BY <2>2, <2>3, <2>4
<1>4. CASE svlQ' = svlQ /\ svl'.req \in {svl.req, None}
  BY <1>1, <1>2, <1>4 DEF NewInv, AskedOnce, RemovesUnawaited
<1>5. CASE svlQ' = <<>> /\ svl'.req \in {svl.req, None}
  <2>1. NewInv' /\ AskedOnce'
    BY <1>1, <1>5 DEF NewInv, AskedOnce
  <2> QED
    BY <1>5, <2>1 DEF RemovesUnawaited
<1> QED
  BY <1>3, <1>4, <1>5

LEMMA SvlFlowStep ==
  ASSUME TypeInv, Inv, FlowInv, SvlStep \/ SvlCtrlC \/ SvlServerExits
  PROVE  FlowInv'
<1> USE DEF Selecting, SvlAt
<1>1. UNCHANGED <<op, client, table, worker, wq>>
  BY DEF SvlStep, SvlCtrlC, SvlServerExits, SvlCreateNoCode, SvlCreate, SvlUpload, SvlRemove,
         SvlToPod, SvlForward, SvlAsksVacancy, SvlToldVacancy, SvlNoVacancy, SvlAsksWorker,
         SvlCreated, SvlHaltsPod, SvlPodHalted, SvlJoined, SvlUnchangedPods, podVars
<1>2. PlacedBegun' /\ GoneQueueless'
  BY <1>1 DEF FlowInv, PlacedBegun, GoneQueueless, Listening
<1>3. /\ reply \in [Reqs -> Replies]
      /\ podQ \in [Pods -> Seq(PodTrigger)]
  BY DEF TypeInv, PodTypeInv, PodTypeOK
<1>4. ASSUME \/ svlQ' = svlQ \/ svlQ' = <<>>
             \/ svlQ # <<>> /\ svlQ' = Tail(svlQ),
             \/ svl'.req \in {svl.req, None}
             \/ svlQ # <<>> /\ svlQ' = Tail(svlQ) /\ svl'.req = Head(svlQ).req,
             \A d \in Reqs : reply'[d] = "pending" => reply[d] = "pending",
             Resting', Unborn'
      PROVE  FlowInv'
  <2>1. NewInv' /\ AskedOnce' /\ RemovesUnawaited'
    BY <1>1, <1>4, TriggersTaken, Zenon
  <2> QED
    BY <1>2, <1>4, <2>1 DEF FlowInv
<1>5. ASSUME UNCHANGED podQ, svl'.pc \in {"check", "checkWait", "create"} => worker[svl'.req] = "none"
      PROVE  Unborn'
  BY <1>1, <1>5 DEF FlowInv, Unborn
<1>6. ASSUME NEW m, SendToPod(svl.pod, m), m \in PodTrigger,
             m.type = "create" => worker[m.req] = "none",
             svl'.pc \in {"check", "checkWait", "create"} => worker[svl'.req] = "none"
      PROVE  Unborn'
  <2>1. svl.pod \in Pods /\ podQ' = [podQ EXCEPT ![svl.pod] = Append(@, m)]
    BY <1>6 DEF SendToPod
  <2>2. \A p \in Pods : \A i \in 1 .. Len(podQ'[p]) :
          (i \in 1 .. Len(podQ[p]) /\ podQ'[p][i] = podQ[p][i]) \/ podQ'[p][i] = m
    BY <1>3, <1>6, <2>1, Appending
  <2> QED
    BY <1>1, <1>6, <2>2 DEF FlowInv, Unborn
<1>7. CASE SvlCreateNoCode \/ SvlUpload
  <2>1. /\ svlQ # <<>> /\ svlQ' = Tail(svlQ) /\ UNCHANGED <<svl, podQ>>
        /\ \A d \in Reqs : reply'[d] = "pending" => reply[d] = "pending"
    BY <1>3, <1>7 DEF SvlCreateNoCode, SvlUpload, SvlReceived, SvlReply, SvlUnchangedPods
  <2> QED
    BY <1>1, <1>4, <2>1 DEF FlowInv, Resting, Unborn
<1>8. CASE SvlRemove
  BY <1>1, <1>4, <1>8 DEF SvlRemove, SvlReceived, podVars, FlowInv, Resting, Unborn
<1>9. CASE SvlCreate
  <2>1. /\ svlQ # <<>> /\ svlQ' = Tail(svlQ) /\ UNCHANGED <<podQ, reply>>
        /\ svl'.pc = "check" /\ svl'.req = Head(svlQ).req
    BY <1>9 DEF SvlCreate, SvlReceived, podVars
  <2>2. worker[Head(svlQ).req] = "none"
    <3>1. 1 \in 1 .. Len(svlQ) /\ Head(svlQ) = svlQ[1]
      BY <2>1, Taking DEF TypeInv, SvlTypeInv, SvlTypeOK
    <3> QED
      BY <1>9, <3>1 DEF SvlCreate, SvlReceived, FlowInv, AskedOnce
  <2> QED
    BY <1>4, <1>5, <2>1, <2>2 DEF Resting
<1>10. CASE SvlToPod
  BY <1>4, <1>5, <1>10 DEF SvlToPod, SvlReceived, podVars, Resting
<1>11. CASE SvlForward
  <2>1. ToWorker(svl.req, route[svl.req].id) \in PodTrigger
    BY <1>11, PodTriggers DEF SvlForward, TypeInv, SvlTypeInv, SvlTypeOK, SvlAtWork, Routes
  <2> QED
    BY <1>4, <1>6, <1>11, <2>1 DEF SvlForward, ToWorker, Resting
<1>12. CASE SvlAsksVacancy
  <2>1. worker[svl.req] = "none"
    BY <1>12 DEF SvlAsksVacancy, FlowInv, Unborn
  <2> QED
    BY <1>4, <1>6, <1>12, <2>1, PodTriggers DEF SvlAsksVacancy, CheckVacancies, Resting
<1>13. CASE SvlToldVacancy
  BY <1>4, <1>5, <1>13 DEF SvlToldVacancy, FlowInv, Unborn, Resting
<1>14. CASE SvlNoVacancy
  BY <1>3, <1>4, <1>5, <1>14 DEF SvlNoVacancy, SvlReply, SvlUnchangedPods, Resting
<1>15. CASE SvlAsksWorker
  <2>1. worker[svl.req] = "none" /\ CreateWorkerFor(svl.req) \in PodTrigger
    BY <1>15, PodTriggers
    DEF SvlAsksWorker, FlowInv, Unborn, TypeInv, SvlTypeInv, SvlAtWork
  <2> QED
    BY <1>4, <1>6, <1>15, <2>1 DEF SvlAsksWorker, CreateWorkerFor, Resting
<1>16. CASE SvlCreated
  BY <1>3, <1>4, <1>5, <1>16 DEF SvlCreated, SvlReply, Resting
<1>17. CASE SvlCtrlC
  BY <1>4, <1>5, <1>17 DEF SvlCtrlC, podVars, Resting
<1>18. CASE SvlHaltsPod
  BY <1>4, <1>6, <1>18, PodTriggers DEF SvlHaltsPod, Halt, FlowInv, Resting
<1>19. CASE SvlPodHalted
  BY <1>4, <1>5, <1>19 DEF SvlPodHalted, podVars, FlowInv, Resting
<1>20. CASE SvlJoined \/ SvlServerExits
  <2>1. /\ svlQ' = <<>> /\ svl'.req = None /\ UNCHANGED podQ
        /\ svl'.pc \in {"exited", "failed"}
        /\ \A d \in Reqs : reply'[d] = "pending" => reply[d] = "pending"
    BY <1>20 DEF SvlJoined, SvlServerExits, DropQueue, SvlUnchangedPods
  <2> QED
    BY <1>4, <1>5, <2>1 DEF Resting
<1> QED
  BY <1>7, <1>8, <1>9, <1>10, <1>11, <1>12, <1>13, <1>14, <1>15, <1>16, <1>17, <1>18,
     <1>19, <1>20 DEF SvlStep

(***************************************************************************)
(* A step of a pod or a worker other than a creation: no worker begins.    *)
(***************************************************************************)
LEMMA NoneBegins ==
  ASSUME TypeInv, FlowInv, UNCHANGED <<op, client, svl, svlQ, table>>,
         \A w \in Reqs : worker'[w] = "none" <=> worker[w] = "none",
         \/ podQ' = podQ
         \/ \E p \in Pods : podQ[p] # <<>> /\ podQ' = [podQ EXCEPT ![p] = Tail(@)],
         \A d \in Reqs : reply'[d] = "pending" => reply[d] = "pending",
         TablesFilled, GoneQueueless'
  PROVE  FlowInv'
<1> USE DEF FlowInv
<1>1. podQ \in [Pods -> Seq(PodTrigger)] /\ \A m \in PodTrigger : m.type = "create" => m.req \in Reqs
  BY PodTriggers DEF TypeInv, PodTypeInv, PodTypeOK
<1>2. \A i \in 1 .. Len(svlQ) : svlQ[i].req \in Reqs
  BY ServerlessTriggers DEF TypeInv, SvlTypeInv, SvlTypeOK
<1>3. NewInv' /\ AskedOnce' /\ Resting' /\ RemovesUnawaited'
  <2>1. NewInv' /\ Resting' /\ RemovesUnawaited'
    BY DEF NewInv, Resting, RemovesUnawaited
  <2>2. AskedOnce'
    BY <1>2 DEF AskedOnce
  <2> QED
    BY <2>1, <2>2
<1>4. PlacedBegun'
  BY DEF PlacedBegun, TablesFilled
<1>5. Unborn'
  <2>1. ASSUME NEW q \in Pods
        PROVE  \A i \in 1 .. Len(podQ'[q]) : \E j \in 1 .. Len(podQ[q]) :
                 podQ'[q][i] = podQ[q][j]
    <3>1. podQ[q] # <<>> =>
            \A i \in 1 .. Len(Tail(podQ[q])) :
              i + 1 \in 1 .. Len(podQ[q]) /\ Tail(podQ[q])[i] = podQ[q][i + 1]
      BY <1>1, Taking
    <3>2. CASE podQ'[q] = podQ[q]
      BY <3>2
    <3>3. CASE podQ[q] # <<>> /\ podQ'[q] = Tail(podQ[q])
      BY <3>1, <3>3
    <3>4. podQ'[q] = podQ[q] \/ (podQ[q] # <<>> /\ podQ'[q] = Tail(podQ[q]))
      BY <1>1
    <3> QED
      BY <3>2, <3>3, <3>4
  <2>2. \A p \in Pods : \A i \in 1 .. Len(podQ[p]) : podQ[p][i] \in PodTrigger
    BY <1>1
  <2>3. svl.pc \in {"check", "checkWait", "create"} => svl.req \in Reqs
    BY DEF TypeInv, SvlTypeInv, SvlAtWork
  <2>4. ASSUME NEW p \in Pods, NEW i \in 1 .. Len(podQ'[p]), podQ'[p][i].type = "create"
        PROVE  worker'[podQ'[p][i].req] = "none"
    <3>1. PICK j \in 1 .. Len(podQ[p]) : podQ'[p][i] = podQ[p][j]
      BY <2>1
    <3> QED
      BY <1>1, <2>2, <2>4, <3>1 DEF Unborn
  <2> QED
    BY <2>3, <2>4 DEF Unborn
<1> QED
  BY <1>3, <1>4, <1>5

\* Messages for a worker's channel: only a worker that listens gets one.
LEMMA ChannelSend ==
  ASSUME GoneQueueless, wq \in [Reqs -> Seq(WorkerTrigger)], worker' = worker,
         NEW w, Listening(w), NEW m \in WorkerTrigger, wq' = [wq EXCEPT ![w] = Append(@, m)]
  PROVE  GoneQueueless'
BY DEF GoneQueueless, Listening

LEMMA CancelFlow ==
  ASSUME TypeInv, FlowInv, NEW p, CancelWorkers(p)
  PROVE  /\ GoneQueueless'
         /\ \A w \in Reqs : worker'[w] = "none" <=> worker[w] = "none"
         /\ \A d \in Reqs : reply'[d] = "pending" => reply[d] = "pending"
<1> USE DEF CancelWorkers, TypeInv, PodTypeInv, PodTypeOK
<1>1. \A w \in Reqs : worker'[w] = "none" <=> worker[w] = "none"
  BY DEF Listening
<1>2. \A d \in Reqs : reply'[d] = "pending" => reply[d] = "pending"
  OBVIOUS
<1>3. GoneQueueless'
  BY DEF FlowInv, GoneQueueless, Listening
<1> QED
  BY <1>1, <1>2, <1>3

LEMMA PodFlowStep ==
  ASSUME TypeInv, Inv, FlowInv, NEW p \in Pods, PodStep(p) \/ PodAbandoned(p), UNCHANGED svlVars
  PROVE  FlowInv'
<1>1. /\ podQ \in [Pods -> Seq(PodTrigger)]
      /\ wq \in [Reqs -> Seq(WorkerTrigger)] /\ reply \in [Reqs -> Replies]
  BY DEF TypeInv, PodTypeInv, PodTypeOK
<1>2. UNCHANGED <<op, client, svl, svlQ>>
  BY DEF svlVars
<1>3. GoneQueueless /\ TablesFilled
  BY DEF FlowInv, Inv
<1>4. ASSUME UNCHANGED <<table, worker>>,
             \/ podQ' = podQ
             \/ podQ[p] # <<>> /\ podQ' = [podQ EXCEPT ![p] = Tail(@)],
             \A d \in Reqs : reply'[d] = "pending" => reply[d] = "pending",
             \/ wq' = wq
             \/ \E w : \E m \in WorkerTrigger : Listening(w) /\ wq' = [wq EXCEPT ![w] = Append(@, m)]
      PROVE  FlowInv'
  <2>1. GoneQueueless'
    <3>1. CASE wq' = wq
      BY <1>3, <1>4, <3>1 DEF GoneQueueless, Listening
    <3>2. ASSUME NEW w, NEW m \in WorkerTrigger, Listening(w), wq' = [wq EXCEPT ![w] = Append(@, m)]
          PROVE  GoneQueueless'
      BY <1>1, <1>3, <1>4, <3>2, ChannelSend
    <3> QED
      BY <1>4, <3>1, <3>2
  <2> QED
    BY <1>2, <1>3, <1>4, <2>1, NoneBegins
<1>5. CASE PodCheckVacancies(p)
  BY <1>4, <1>5 DEF PodCheckVacancies, Received
<1>6. CASE PodForward(p)
  <2> DEFINE m == Head(podQ[p])
  <2>1. m.req \in Reqs
    BY <1>1, <1>6, PodTriggers DEF PodForward, Received
  <2>2. \A d \in Reqs : reply'[d] = "pending" => reply[d] = "pending"
    BY <1>1, <1>6 DEF PodForward
  <2>3. \/ wq' = wq
        \/ \E w : \E n \in WorkerTrigger : Listening(w) /\ wq' = [wq EXCEPT ![w] = Append(@, n)]
    BY <1>6, <2>1, WorkerTriggers DEF PodForward
  <2> QED
    BY <1>4, <1>6, <2>2, <2>3 DEF PodForward, Received
<1>7. CASE PodHaltReceived(p)
  BY <1>4, <1>7 DEF PodHaltReceived, Received
<1>8. CASE PodDrain(p)
  <2>1. \/ wq' = wq
        \/ \E w : \E n \in WorkerTrigger : Listening(w) /\ wq' = [wq EXCEPT ![w] = Append(@, n)]
    BY <1>8, WorkerTriggers DEF PodDrain
  <2> QED
    BY <1>4, <1>8, <2>1 DEF PodDrain
<1>9. CASE PodDrained(p) \/ PodHalted(p)
  BY <1>4, <1>9 DEF PodDrained, PodHalted
<1>10. CASE PodExit(p) \/ PodAbandoned(p)
  <2>1. CancelWorkers(p) /\ UNCHANGED <<podQ, table>>
    BY <1>10 DEF PodExit, PodAbandoned
  <2> QED
    BY <1>2, <1>3, <2>1, CancelFlow, NoneBegins
<1>11. CASE PodCreateWorker(p)
  <2> DEFINE n == Len(table[p].workers)
  <2> DEFINE c == svl.req
  <2>1. /\ podQ' = [podQ EXCEPT ![p] = Tail(@)]
        /\ n \in Nat /\ c \in Reqs
        /\ Len(table'[p].workers) = n + 1
        /\ \A i \in 1 .. n : table'[p].workers[i] = table[p].workers[i]
        /\ table'[p].workers[n + 1] = c
        /\ \A q \in Pods : q # p => table'[q] = table[q]
        /\ answer' = [tag |-> "created", id |-> n]
        /\ worker' = [worker EXCEPT ![c] = "starting"]
        /\ UNCHANGED <<wq, reply>>
        /\ svl.pc = "createWait"
    BY <1>11, CreationStep
  <2> HIDE DEF n, c
  <2>2. \A w \in Reqs : worker'[w] = IF w = c THEN "starting" ELSE worker[w]
    BY <2>1 DEF TypeInv, PodTypeInv, PodTypeOK
  <2>3. NewInv' /\ AskedOnce'
    <3>1. \A i \in 1 .. Len(svlQ) : svlQ[i].req \in Reqs
      BY ServerlessTriggers DEF TypeInv, SvlTypeInv, SvlTypeOK
    <3>2. NewInv'
      BY <1>2, <2>2 DEF FlowInv, NewInv, c
    <3>3. AskedOnce'
      BY <1>2, <2>2, <3>1 DEF FlowInv, AskedOnce, c
    <3> QED
      BY <3>2, <3>3
  <2>4. Unborn'
    <3>1. Inv'
      BY PodInvStep
    <3>2. answer' # NoAnswer
      BY <2>1 DEF NoAnswer
    <3> QED
      BY <1>2, <2>1, <3>1, <3>2 DEF Inv, QuestionsInTurn, Unborn
  <2>5. PlacedBegun'
    <3> SUFFICES ASSUME NEW q \in Pods, NEW i \in 1 .. Len(table'[q].workers)
                 PROVE  worker'[table'[q].workers[i]] # "none"
      BY DEF PlacedBegun
    <3>1. CASE q = p /\ i = n + 1
      BY <2>1, <2>2, <3>1
    <3>2. CASE q # p \/ i # n + 1
      <4>1. i \in 1 .. Len(table[q].workers) /\ table'[q].workers[i] = table[q].workers[i]
        <5>1. CASE q # p
          BY <2>1, <5>1
        <5>2. CASE q = p /\ i # n + 1
          <6>1. i \in 1 .. n
            BY <2>1, <5>2
          <6> QED
            BY <2>1, <5>2, <6>1 DEF n
        <5> QED
          BY <3>2, <5>1, <5>2
      <4>2. table[q].workers[i] \in Reqs /\ worker[table[q].workers[i]] # "none"
        BY <1>3, <4>1 DEF TablesFilled, FlowInv, PlacedBegun
      <4> QED
        BY <2>2, <4>1, <4>2
    <3> QED
      BY <3>1, <3>2
  <2>6. RemovesUnawaited' /\ Resting'
    BY <1>2, <2>1 DEF FlowInv, RemovesUnawaited, Resting
  <2>7. GoneQueueless'
    BY <1>3, <2>1, <2>2 DEF GoneQueueless, Listening
  <2> QED
    BY <2>3, <2>4, <2>5, <2>6, <2>7 DEF FlowInv
<1> QED
  BY <1>5, <1>6, <1>7, <1>8, <1>9, <1>10, <1>11 DEF PodStep

LEMMA WorkerFlowStep ==
  ASSUME TypeInv, Inv, FlowInv, NEW w \in Reqs, WorkerStep(w) \/ WorkerEvent(w), UNCHANGED svlVars
  PROVE  FlowInv'
<1> USE DEF TypeInv, PodTypeInv, PodTypeOK
<1>1. UNCHANGED <<op, client, svl, svlQ>>
  BY DEF svlVars
<1>2. GoneQueueless /\ TablesFilled
  BY DEF FlowInv, Inv
<1>3. ASSUME UNCHANGED <<table, podQ>>,
             \/ worker' = worker
             \/ /\ worker[w] # "none"
                /\ \E l \in Lives \ {"none"} : worker' = [worker EXCEPT ![w] = l],
             \A d \in Reqs : reply'[d] = "pending" => reply[d] = "pending",
             GoneQueueless'
      PROVE  FlowInv'
  <2>1. \A v \in Reqs : worker'[v] = "none" <=> worker[v] = "none"
    BY <1>3
  <2> QED
    BY <1>1, <1>2, <1>3, <2>1, NoneBegins
<1>4. CASE WorkerReady(w)
  <2>1. GoneQueueless'
    BY <1>2, <1>4 DEF WorkerReady, GoneQueueless, Listening
  <2> QED
    BY <1>3, <1>4, <2>1 DEF WorkerReady, Lives
<1>5. CASE \/ WorkerStartFails(w) \/ WorkerFailsHttp(w)
           \/ WorkerFailsKept(w) \/ WorkerHalts(w)
  <2>1. /\ worker[w] \in {"starting", "ready"} /\ worker' = [worker EXCEPT ![w] = "closing"]
        /\ wq' = [wq EXCEPT ![w] = <<>>] /\ UNCHANGED <<table, podQ>>
        /\ \A d \in Reqs : reply'[d] = "pending" => reply[d] = "pending"
    BY <1>5
    DEF WorkerStartFails, WorkerFailsHttp, WorkerFailsKept, WorkerHalts, WorkerReceives, LeaveLoop
  <2>2. GoneQueueless'
    BY <1>2, <2>1 DEF GoneQueueless, Listening
  <2> QED
    BY <1>3, <2>1, <2>2 DEF Lives
<1>6. CASE WorkerHoldsHttp(w) \/ WorkerIgnoresHttp(w)
  <2>1. /\ worker[w] = "ready" /\ worker' = worker
        /\ wq' = [wq EXCEPT ![w] = Tail(@)] /\ UNCHANGED <<table, podQ>>
        /\ \A d \in Reqs : reply'[d] = "pending" => reply[d] = "pending"
    BY <1>6 DEF WorkerHoldsHttp, WorkerIgnoresHttp, WorkerReceives
  <2>2. GoneQueueless'
    BY <1>2, <2>1 DEF GoneQueueless, Listening
  <2> QED
    BY <1>3, <2>1, <2>2
<1>7. ASSUME NEW c \in Reqs, WorkerReplies(w, c)
      PROVE  FlowInv'
  <2>1. GoneQueueless'
    BY <1>2, <1>7 DEF WorkerReplies, GoneQueueless, Listening
  <2> QED
    BY <1>3, <1>7, <2>1 DEF WorkerReplies
<1>8. CASE WorkerCloses(w)
  <2>1. GoneQueueless'
    BY <1>2, <1>8 DEF WorkerCloses, GoneQueueless, Listening
  <2> QED
    BY <1>3, <1>8, <2>1 DEF WorkerCloses, Lives
<1>9. CASE MonitorKills(w)
  <2>1. /\ worker' = worker /\ Listening(w) /\ MonitorHalt \in WorkerTrigger
        /\ wq' = [wq EXCEPT ![w] = Append(@, MonitorHalt)]
    BY <1>9, WorkerTriggers DEF MonitorKills
  <2>2. GoneQueueless'
    BY <1>2, <2>1, ChannelSend
  <2> QED
    BY <1>3, <1>9, <2>2 DEF MonitorKills
<1> QED
  BY <1>4, <1>5, <1>6, <1>7, <1>8, <1>9 DEF WorkerStep, WorkerEvent

LEMMA FlowStep == TypeInv /\ Inv /\ FlowInv /\ [Next]_vars => FlowInv'
<1> SUFFICES ASSUME TypeInv, Inv, FlowInv, [Next]_vars PROVE FlowInv'
  OBVIOUS
<1>1. CASE UNCHANGED vars
  <2>1. UNCHANGED <<op, client, svl, svlQ, table, podQ, worker, wq, reply>>
    BY <1>1 DEF vars, svlVars, podVars
  <2> QED
    BY <2>1 DEF FlowInv, NewInv, AskedOnce, Unborn, PlacedBegun, RemovesUnawaited, Resting,
                GoneQueueless, Listening
<1> QED
  BY <1>1, ClientFlowStep, SvlFlowStep, PodFlowStep, WorkerFlowStep
  DEF Next, PodTurn, Terminated

-----------------------------------------------------------------------------
LEMMA HaltInit == Init => HaltInv
<1> SUFFICES ASSUME Init PROVE HaltInv
  OBVIOUS
<1> USE DEF Init, PodInit, Selecting, SvlAt
<1>1. HaltingPods /\ HaltComesLast
  BY DEF HaltingPods, HaltComesLast
<1>2. Drained /\ NoneCancelled
  BY DEF Drained, DrainedPod, NoneCancelled
<1> QED
  BY <1>1, <1>2 DEF HaltInv

LEMMA ElemsKept ==
  ASSUME NEW S, NEW s \in Seq(S)
  PROVE  /\ \A m \in S : m \in Elems(Append(s, m)) /\ Elems(s) \subseteq Elems(Append(s, m))
         /\ s # <<>> => \A x \in Elems(s) : x = Head(s) \/ x \in Elems(Tail(s))
<1>1. ASSUME NEW m \in S
      PROVE  m \in Elems(Append(s, m)) /\ Elems(s) \subseteq Elems(Append(s, m))
  <2>1. /\ Len(s) \in Nat /\ Len(Append(s, m)) = Len(s) + 1
        /\ \A i \in 1 .. Len(s) : Append(s, m)[i] = s[i]
        /\ Append(s, m)[Len(s) + 1] = m
    BY Appending
  <2> QED
    BY <2>1 DEF Elems
<1>2. ASSUME s # <<>>, NEW x \in Elems(s), x # Head(s)
      PROVE  x \in Elems(Tail(s))
  <2>1. PICK i \in 1 .. Len(s) : x = s[i]
    BY <1>2 DEF Elems
  <2>2. i # 1
    BY <1>2, <2>1
  <2>3. i - 1 \in 1 .. Len(Tail(s)) /\ Tail(s)[i - 1] = s[i]
    BY <1>2, <2>1, <2>2
  <2> QED
    BY <2>1, <2>3 DEF Elems
<1> QED
  BY <1>1, <1>2

\* The serverless task.
LEMMA SvlHaltStep ==
  ASSUME TypeInv, HaltInv, SvlStep \/ SvlCtrlC \/ SvlServerExits
  PROVE  HaltInv'
<1> SUFFICES ASSUME svl'.pc # "failed" PROVE (HaltingPods /\ HaltComesLast /\ Drained /\ NoneCancelled)'
  BY DEF HaltInv
<1> USE DEF Selecting, SvlAt
<1>1. UNCHANGED <<pod, table, worker, wq>> /\ svl.pc # "failed" /\ ~ SvlServerExits
  BY DEF SvlStep, SvlCtrlC, SvlServerExits, SvlCreateNoCode, SvlCreate, SvlUpload, SvlRemove,
         SvlToPod, SvlForward, SvlAsksVacancy, SvlToldVacancy, SvlNoVacancy, SvlAsksWorker,
         SvlCreated, SvlHaltsPod, SvlPodHalted, SvlJoined, SvlReceived, SvlUnchangedPods, podVars
<1>2. HaltingPods /\ HaltComesLast /\ Drained /\ NoneCancelled
  BY <1>1 DEF HaltInv
<1>3. Drained' /\ NoneCancelled'
  BY <1>1, <1>2 DEF Drained, DrainedPod, NoneCancelled, Left
<1> SUFFICES HaltingPods' /\ HaltComesLast'
  BY <1>3
<1>4. podQ \in [Pods -> Seq(PodTrigger)]
  BY DEF TypeInv, PodTypeInv, PodTypeOK
<1>5. ASSUME svl.pc \notin {"halt", "haltWait", "exited"}, svl'.pc \notin {"halt", "haltWait", "exited"},
             \/ podQ' = podQ
             \/ \E m \in PodTrigger : m.type # "halt" /\ SendToPod(svl.pod, m)
      PROVE  HaltingPods' /\ HaltComesLast'
  <2>1. \A p \in Pods : pod[p].pc = "recv"
    BY <1>2, <1>5 DEF HaltingPods
  <2>2. \A p \in Pods : \A i \in 1 .. Len(podQ[p]) : podQ[p][i].type # "halt"
    BY <1>2, <1>5 DEF HaltComesLast
  <2>3. \A p \in Pods : \A i \in 1 .. Len(podQ'[p]) : podQ'[p][i].type # "halt"
    <3>1. CASE podQ' = podQ
      BY <2>2, <3>1
    <3>2. ASSUME NEW m \in PodTrigger, m.type # "halt", SendToPod(svl.pod, m)
          PROVE  \A p \in Pods : \A i \in 1 .. Len(podQ'[p]) : podQ'[p][i].type # "halt"
      <4>1. \A p \in Pods : \A i \in 1 .. Len(podQ'[p]) :
              \/ i \in 1 .. Len(podQ[p]) /\ podQ'[p][i] = podQ[p][i]
              \/ podQ'[p][i] = m
        BY <1>4, <3>2, Appending DEF SendToPod
      <4> QED
        BY <2>2, <3>2, <4>1
    <3> QED
      BY <1>5, <3>1, <3>2
  <2> QED
    BY <1>1, <1>5, <2>1, <2>3 DEF HaltingPods, HaltComesLast
<1>6. CASE SvlCreateNoCode \/ SvlUpload \/ SvlNoVacancy \/ SvlCreated
  BY <1>5, <1>6 DEF SvlCreateNoCode, SvlUpload, SvlNoVacancy, SvlCreated, SvlReceived, SvlUnchangedPods
<1>7. CASE SvlCreate \/ SvlRemove \/ SvlToPod \/ SvlToldVacancy
  BY <1>5, <1>7 DEF SvlCreate, SvlRemove, SvlToPod, SvlToldVacancy, SvlReceived, podVars
<1>8. CASE SvlForward
  <2>1. ToWorker(svl.req, route[svl.req].id) \in PodTrigger
    BY <1>8, PodTriggers DEF SvlForward, TypeInv, SvlTypeInv, SvlTypeOK, SvlAtWork, Routes
  <2> QED
    BY <1>5, <1>8, <2>1 DEF SvlForward, ToWorker
<1>9. CASE SvlAsksVacancy
  BY <1>5, <1>9, PodTriggers DEF SvlAsksVacancy, CheckVacancies
<1>10. CASE SvlAsksWorker
  <2>1. CreateWorkerFor(svl.req) \in PodTrigger
    BY <1>10, PodTriggers DEF SvlAsksWorker, TypeInv, SvlTypeInv, SvlAtWork
  <2> QED
    BY <1>5, <1>10, <2>1 DEF SvlAsksWorker, CreateWorkerFor
<1>11. CASE SvlCtrlC
  <2>1. \A p \in Pods : ~ (p < 0)
    BY PodAssumption DEF Pods
  <2> QED
    BY <1>2, <1>11, <2>1 DEF SvlCtrlC, podVars, HaltingPods, HaltComesLast
<1>12. CASE SvlHaltsPod
  <2>1. /\ svl.pc = "halt" /\ svl'.pc = "haltWait" /\ svl'.pod = svl.pod /\ svl.pod \in Pods
        /\ podQ' = [podQ EXCEPT ![svl.pod] = Append(@, Halt)] /\ Halt \in PodTrigger
    BY <1>12, PodTriggers DEF SvlHaltsPod, SendToPod
  <2>2. HaltingPods'
    <3>1. \A p \in Pods : p # svl.pod => podQ'[p] = podQ[p]
      BY <2>1
    <3>2. svl.pod >= svl.pod /\ \A p \in Pods : p > svl.pod => p >= svl.pod
      BY <2>1, PodAssumption DEF Pods
    <3> QED
      BY <1>1, <1>2, <2>1, <3>1, <3>2 DEF HaltingPods
  <2>3. HaltComesLast'
    <3>1. \A p \in Pods : \A i \in 1 .. Len(podQ'[p]) :
            \/ i \in 1 .. Len(podQ[p]) /\ podQ'[p][i] = podQ[p][i]
            \/ p = svl.pod /\ i = Len(podQ'[p])
      BY <1>4, <2>1, Appending
    <3> QED
      BY <1>2, <2>1, <3>1 DEF HaltComesLast
  <2> QED
    BY <2>2, <2>3
<1>13. CASE SvlPodHalted
  <2>1. /\ svl.pc = "haltWait" /\ svl'.pc = "halt" /\ svl'.pod = svl.pod + 1
        /\ svl.pod \in Pods /\ podQ' = podQ
        /\ pod[svl.pod].pc \in {"exiting", "exited"}
    BY <1>13 DEF SvlPodHalted, podVars, TypeInv, SvlTypeInv, SvlAtWork
  <2>2. \A p \in Pods : /\ p < svl.pod + 1 => p < svl.pod \/ p = svl.pod
                        /\ p >= svl.pod + 1 => p > svl.pod
    BY <2>1, PodAssumption DEF Pods
  <2>3. HaltingPods'
    BY <1>1, <1>2, <2>1, <2>2 DEF HaltingPods
  <2>4. podQ[svl.pod] = <<>>
    BY <1>2, <2>1 DEF HaltingPods
  <2>5. HaltComesLast'
    BY <1>2, <2>1, <2>4 DEF HaltComesLast
  <2> QED
    BY <2>3, <2>5
<1>14. CASE SvlJoined
  BY <1>2, <1>14 DEF SvlJoined, SvlUnchangedPods, HaltingPods, HaltComesLast
<1> QED
  BY <1>1, <1>6, <1>7, <1>8, <1>9, <1>10, <1>11, <1>12, <1>13, <1>14 DEF SvlStep

LEMMA SlotFilled ==
  ASSUME TypeInv, TablesFilled, NEW p \in Pods, NEW k \in Nat, k < Len(table[p].workers)
  PROVE  k + 1 \in 1 .. Len(table[p].workers) /\ table[p].workers[k + 1] \in Reqs
<1>1. Len(table[p].workers) \in Nat
  BY DEF TypeInv, PodTypeInv, PodTypeOK, TableType
<1>2. k + 1 \in 1 .. Len(table[p].workers)
  BY <1>1
<1> QED
  BY <1>2 DEF TablesFilled

LEMMA HaltStays ==
  ASSUME wq \in [Reqs -> Seq(WorkerTrigger)], NEW u \in Reqs, NEW n \in WorkerTrigger,
         wq' = [wq EXCEPT ![u] = Append(@, n)]
  PROVE  /\ \A w \in Reqs : PodHalt \in Elems(wq[w]) => PodHalt \in Elems(wq'[w])
         /\ n \in Elems(wq'[u])
<1>1. \A w \in Reqs : w # u => wq'[w] = wq[w]
  OBVIOUS
<1>2. wq'[u] = Append(wq[u], n) /\ wq[u] \in Seq(WorkerTrigger)
  OBVIOUS
<1>3. n \in Elems(wq'[u]) /\ Elems(wq[u]) \subseteq Elems(wq'[u])
  BY <1>2, ElemsKept
<1> QED
  BY <1>1, <1>3

LEMMA DrainedKept ==
  ASSUME TypeInv, TablesFilled, NEW q \in Pods, DrainedPod(q), table' = table,
         pod'[q].at = pod[q].at,
         pod'[q].pc # "recv" => pod[q].pc # "recv",
         pod'[q].pc = "drainWait" => pod[q].pc = "drainWait",
         pod'[q].pc \in {"exiting", "exited"} => pod[q].pc \in {"exiting", "exited"},
         \A w \in Reqs : Left(w) => Left(w)',
         \A w \in Reqs : PodHalt \in Elems(wq[w]) => Left(w)' \/ PodHalt \in Elems(wq'[w])
  PROVE  DrainedPod(q)'
<1> DEFINE v == table[q].workers[pod[q].at + 1]
<1>1. /\ \A i \in 1 .. Len(table[q].workers) : table[q].workers[i] \in Reqs
      /\ pod[q].at \in Nat
  BY DEF TablesFilled, TypeInv, PodTypeInv, PodTypeOK, PodState
<1>2. pod'[q].pc # "recv" =>
        \A i \in 1 .. Len(table[q].workers) : i <= pod'[q].at => Left(table[q].workers[i])'
  BY <1>1 DEF DrainedPod
<1>3. ASSUME pod'[q].pc = "drainWait"
      PROVE  /\ pod'[q].at < Len(table[q].workers)
             /\ \E u \in Reqs : u = v /\ (Left(u)' \/ PodHalt \in Elems(wq'[u]))
  <2>1. pod[q].at < Len(table[q].workers) /\ (Left(v) \/ PodHalt \in Elems(wq[v]))
    BY <1>3 DEF DrainedPod
  <2>2. PICK u \in Reqs : u = v
    BY <1>1, <2>1, SlotFilled
  <2> QED
    BY <2>1, <2>2
<1>4. pod'[q].pc \in {"exiting", "exited"} => pod'[q].at = Len(table[q].workers)
  BY DEF DrainedPod
<1> QED
  BY <1>2, <1>3, <1>4 DEF DrainedPod, Left

\* The pods.
LEMMA PodHaltStep ==
  ASSUME TypeInv, Inv, FlowInv, HaltInv, NEW p \in Pods, PodStep(p), UNCHANGED svlVars
  PROVE  HaltInv'
<1> SUFFICES ASSUME svl.pc # "failed" PROVE (HaltingPods /\ HaltComesLast /\ Drained /\ NoneCancelled)'
  BY DEF HaltInv, svlVars
<1>1. /\ svl' = svl
      /\ pod \in [Pods -> PodState] /\ podQ \in [Pods -> Seq(PodTrigger)]
      /\ worker \in [Reqs -> Lives] /\ wq \in [Reqs -> Seq(WorkerTrigger)]
      /\ Pods \subseteq Int /\ \A q \in Pods : pod[q].at \in Nat /\ Len(table[q].workers) \in Nat
  BY PodAssumption DEF svlVars, TypeInv, PodTypeInv, PodTypeOK, Pods, PodState, TableType
<1>2. HaltingPods /\ HaltComesLast /\ Drained /\ NoneCancelled /\ TablesFilled
  BY DEF HaltInv, Inv
<1>3. ASSUME \A q \in Pods : pod'[q] = pod[q], UNCHANGED worker,
             podQ[p] # <<>>, podQ' = [podQ EXCEPT ![p] = Tail(@)], pod[p].pc = "recv"
      PROVE  HaltingPods' /\ HaltComesLast' /\ NoneCancelled'
  <2>1. \A q \in Pods : q # p => podQ'[q] = podQ[q]
    BY <1>1, <1>3
  <2>2. HaltingPods'
    BY <1>1, <1>2, <1>3, <2>1 DEF HaltingPods
  <2>3. /\ podQ'[p] = Tail(podQ[p]) /\ Len(podQ[p]) \in Nat
        /\ Len(podQ'[p]) = Len(podQ[p]) - 1
        /\ \A i \in 1 .. Len(podQ'[p]) : i + 1 \in 1 .. Len(podQ[p]) /\ podQ'[p][i] = podQ[p][i + 1]
    BY <1>1, <1>3, Taking
  <2>4. HaltComesLast'
    <3> SUFFICES ASSUME NEW q \in Pods, NEW i \in 1 .. Len(podQ'[q]), podQ'[q][i].type = "halt"
                 PROVE  svl.pc = "haltWait" /\ svl.pod = q /\ i = Len(podQ'[q])
      BY <1>1 DEF HaltComesLast
    <3>1. CASE q # p
      BY <1>2, <2>1, <3>1 DEF HaltComesLast
    <3>2. CASE q = p
      <4>1. i + 1 \in 1 .. Len(podQ[p]) /\ podQ[p][i + 1].type = "halt"
        BY <2>3, <3>2
      <4>2. svl.pc = "haltWait" /\ svl.pod = p /\ i + 1 = Len(podQ[p])
        BY <1>2, <4>1 DEF HaltComesLast
      <4>3. i \in Int /\ Len(podQ'[p]) + 1 = Len(podQ[p]) /\ Len(podQ'[p]) \in Int
        BY <2>3
      <4>4. i = Len(podQ'[p])
        BY <4>2, <4>3
      <4> QED
        BY <3>2, <4>2, <4>4
    <3> QED
      BY <3>1, <3>2
  <2> QED
    BY <1>2, <1>3, <2>2, <2>4 DEF NoneCancelled
<1>4. ASSUME UNCHANGED <<pod, table, worker>>,
             \A w \in Reqs : PodHalt \in Elems(wq[w]) => PodHalt \in Elems(wq'[w])
      PROVE  Drained'
  BY <1>2, <1>4, DrainedKept DEF Drained, Left
<1>5. CASE PodCheckVacancies(p)
  <2>1. Drained'
    BY <1>4, <1>5 DEF PodCheckVacancies
  <2> QED
    BY <1>3, <1>5, <2>1 DEF PodCheckVacancies, Received
<1>6. CASE PodForward(p)
  <2>1. Head(podQ[p]).req \in Reqs
    BY <1>1, <1>6, PodTriggers DEF PodForward, Received
  <2>2. \A w \in Reqs : PodHalt \in Elems(wq[w]) => PodHalt \in Elems(wq'[w])
    <3>1. \/ wq' = wq
          \/ \E n \in WorkerTrigger : \E w \in Reqs : wq' = [wq EXCEPT ![w] = Append(@, n)]
          \/ \E n : \E w : w \notin Reqs /\ wq' = [wq EXCEPT ![w] = Append(@, n)]
      BY <1>6, <2>1, WorkerTriggers DEF PodForward
    <3>2. ASSUME NEW n \in WorkerTrigger, NEW u \in Reqs, wq' = [wq EXCEPT ![u] = Append(@, n)]
          PROVE  \A w \in Reqs : PodHalt \in Elems(wq[w]) => PodHalt \in Elems(wq'[w])
      BY <1>1, <3>2, HaltStays
    <3> QED
      BY <1>1, <3>1, <3>2
  <2>3. Drained'
    BY <1>4, <1>6, <2>2 DEF PodForward
  <2> QED
    BY <1>3, <1>6, <2>3 DEF PodForward, Received
<1>7. CASE PodCreateWorker(p)
  <2>1. /\ podQ' = [podQ EXCEPT ![p] = Tail(@)] /\ podQ[p] # <<>>
        /\ svl.pc = "createWait" /\ pod' = pod
        /\ worker' = [worker EXCEPT ![svl.req] = "starting"]
    BY <1>7, CreationStep DEF PodCreateWorker, Received
  <2>2. \A q \in Pods : pod[q].pc = "recv"
    BY <1>2, <2>1 DEF HaltingPods
  <2>3. \A q \in Pods : \A i \in 1 .. Len(podQ'[q]) : podQ'[q][i].type # "halt"
    <3>1. \A q \in Pods : \A i \in 1 .. Len(podQ[q]) : podQ[q][i].type # "halt"
      BY <1>2, <2>1 DEF HaltComesLast
    <3>2. \A q \in Pods : \A i \in 1 .. Len(podQ'[q]) : \E j \in 1 .. Len(podQ[q]) :
            podQ'[q][i] = podQ[q][j]
      <4>1. \A i \in 1 .. Len(Tail(podQ[p])) :
              i + 1 \in 1 .. Len(podQ[p]) /\ Tail(podQ[p])[i] = podQ[p][i + 1]
        BY <1>1, <2>1, Taking
      <4>2. podQ'[p] = Tail(podQ[p]) /\ \A q \in Pods : q # p => podQ'[q] = podQ[q]
        BY <1>1, <2>1
      <4>3. ASSUME NEW q \in Pods, NEW i \in 1 .. Len(podQ'[q])
            PROVE  \E j \in 1 .. Len(podQ[q]) : podQ'[q][i] = podQ[q][j]
        <5>1. CASE q = p
          BY <4>1, <4>2, <5>1
        <5>2. CASE q # p
          BY <4>2, <5>2
        <5> QED
          BY <5>1, <5>2
      <4> QED
        BY <4>3
    <3> QED
      BY <3>1, <3>2
  <2>4. HaltingPods' /\ HaltComesLast'
    BY <1>1, <2>1, <2>2, <2>3 DEF HaltingPods, HaltComesLast
  <2>5. Drained'
    BY <2>1, <2>2 DEF Drained, DrainedPod
  <2>6. NoneCancelled'
    BY <1>1, <1>2, <2>1 DEF NoneCancelled
  <2> QED
    BY <2>4, <2>5, <2>6
<1>8. CASE PodHaltReceived(p)
  <2>1. /\ pod[p].pc = "recv" /\ podQ[p] # <<>> /\ Head(podQ[p]).type = "halt"
        /\ podQ' = [podQ EXCEPT ![p] = Tail(@)]
        /\ pod' = [pod EXCEPT ![p] = [pc |-> "drain", at |-> 0]]
        /\ UNCHANGED <<table, worker, wq>>
    BY <1>8 DEF PodHaltReceived, Received
  <2>2. /\ 1 \in 1 .. Len(podQ[p]) /\ Head(podQ[p]) = podQ[p][1]
        /\ Len(Tail(podQ[p])) = Len(podQ[p]) - 1 /\ Tail(podQ[p]) \in Seq(PodTrigger)
    BY <1>1, <2>1, Taking
  <2>3. svl.pc = "haltWait" /\ svl.pod = p /\ Len(podQ[p]) = 1
    BY <1>2, <2>1, <2>2 DEF HaltComesLast
  <2>4. podQ'[p] = <<>> /\ \A q \in Pods : q # p => podQ'[q] = podQ[q]
    BY <1>1, <2>1, <2>2, <2>3
  <2>5. pod'[p] = [pc |-> "drain", at |-> 0] /\ \A q \in Pods : q # p => pod'[q] = pod[q]
    BY <1>1, <2>1
  <2>6. HaltingPods'
    BY <1>1, <1>2, <2>3, <2>4, <2>5 DEF HaltingPods
  <2>7. HaltComesLast'
    <3>1. \A i \in 1 .. Len(podQ'[p]) : FALSE
      BY <2>4
    <3>2. \A q \in Pods \ {p} : \A i \in 1 .. Len(podQ'[q]) : podQ'[q][i].type = "halt" =>
            svl.pc = "haltWait" /\ svl.pod = q /\ i = Len(podQ'[q])
      BY <1>2, <2>4 DEF HaltComesLast
    <3> QED
      BY <1>1, <3>1, <3>2 DEF HaltComesLast
  <2>8. Drained'
    BY <1>2, <2>1, <2>5 DEF Drained, DrainedPod, Left
  <2> QED
    BY <1>2, <2>1, <2>6, <2>7, <2>8 DEF NoneCancelled
<1>9. ASSUME pod[p].pc # "recv", pod'[p].pc # "recv", UNCHANGED podQ,
             pod[p].pc \in {"exiting", "exited"} => pod'[p].pc \in {"exiting", "exited"},
             \A q \in Pods : q # p => pod'[q] = pod[q]
      PROVE  HaltingPods' /\ HaltComesLast'
  BY <1>1, <1>2, <1>9 DEF HaltingPods, HaltComesLast
<1> DEFINE at == pod[p].at
<1> DEFINE v == table[p].workers[at + 1]
<1>10. at < Len(table[p].workers) => at + 1 \in 1 .. Len(table[p].workers) /\ v \in Reqs
  BY <1>1, <1>2, SlotFilled
<1>11. CASE PodDrain(p)
  <2>1. /\ pod[p].pc = "drain" /\ at < Len(table[p].workers)
        /\ pod' = [pod EXCEPT ![p] = [pc |-> "drainWait", at |-> @.at]]
        /\ UNCHANGED <<podQ, table, worker>>
    BY <1>11, SMTT(30) DEF PodDrain
  <2>2. \/ Listening(v) /\ wq' = [wq EXCEPT ![v] = Append(@, PodHalt)]
        \/ ~ Listening(v) /\ wq' = wq
    BY <1>11 DEF PodDrain
  <2>3. pod'[p] = [pc |-> "drainWait", at |-> at] /\ \A q \in Pods : q # p => pod'[q] = pod[q]
    BY <1>1, <2>1
  <2>4. v \in Reqs /\ at + 1 \in 1 .. Len(table[p].workers)
    BY <1>10, <2>1
  <2>5. Left(v) \/ Listening(v)
    <3>1. worker[v] \notin {"none", "cancelled"}
      BY <1>2, <2>4 DEF FlowInv, PlacedBegun, NoneCancelled
    <3> QED
      BY <1>1, <2>4, <3>1, PodAssumption DEF Lives, Left, Listening
  <2> HIDE DEF v
  <2>6. /\ \A w \in Reqs : PodHalt \in Elems(wq[w]) => PodHalt \in Elems(wq'[w])
        /\ Left(v) \/ PodHalt \in Elems(wq'[v])
    <3>1. CASE Listening(v)
      BY <1>1, <2>2, <2>4, <3>1, HaltStays, WorkerTriggers
    <3>2. CASE ~ Listening(v)
      BY <2>5, <2>2, <3>2
    <3> QED
      BY <3>1, <3>2
  <2>7. Drained'
    <3>1. \A q \in Pods : q # p => DrainedPod(q)'
      BY <1>2, <2>1, <2>3, <2>6, DrainedKept DEF Drained, Left
    <3>2. DrainedPod(p)'
      <4>1. pod'[p].pc = "drainWait" /\ pod'[p].at = at
        BY <2>3
      <4>2. PICK u \in Reqs : u = v
        BY <2>4
      <4>3. worker'[u] \in {"closing", "closed"} \/ PodHalt \in Elems(wq'[u])
        BY <2>1, <2>6, <4>2 DEF Left
      <4>4. \A i \in 1 .. Len(table[p].workers) : i <= at => Left(table[p].workers[i])
        BY <1>2, <2>1 DEF Drained, DrainedPod
      <4>5. table'[p].workers[pod'[p].at + 1] = u
        BY <2>1, <4>1, <4>2 DEF v
      <4>6. \A i \in 1 .. Len(table'[p].workers) :
              i <= pod'[p].at => worker'[table'[p].workers[i]] \in {"closing", "closed"}
        BY <1>1, <2>1, <4>1, <4>4 DEF Left
      <4>7. pod'[p].at < Len(table'[p].workers)
        BY <2>1, <4>1
      <4> QED
        BY <1>1, <2>1, <4>1, <4>3, <4>5, <4>6, <4>7 DEF DrainedPod, Left
    <3> QED
      BY <3>1, <3>2 DEF Drained
  <2>8. HaltingPods' /\ HaltComesLast'
    BY <1>9, <2>1, <2>3
  <2> QED
    BY <1>2, <2>1, <2>7, <2>8 DEF NoneCancelled
<1>12. CASE PodDrained(p)
  <2>1. /\ pod[p].pc = "drainWait" /\ PodHalt \notin Elems(wq[v])
        /\ pod' = [pod EXCEPT ![p] = [pc |-> "drain", at |-> @.at + 1]]
        /\ UNCHANGED <<podQ, table, worker, wq>>
    BY <1>12 DEF PodDrained
  <2>2. pod'[p] = [pc |-> "drain", at |-> at + 1] /\ \A q \in Pods : q # p => pod'[q] = pod[q]
    BY <1>1, <2>1
  <2>3. Left(v) /\ \A i \in 1 .. Len(table[p].workers) : i <= at => Left(table[p].workers[i])
    BY <1>2, <2>1 DEF Drained, DrainedPod
  <2>4. \A i \in 1 .. Len(table[p].workers) : i <= at + 1 => Left(table[p].workers[i])
    <3>1. \A i \in 1 .. Len(table[p].workers) : i <= at + 1 => i <= at \/ i = at + 1
      BY <1>1
    <3> QED
      BY <2>3, <3>1
  <2>5. Drained'
    <3>1. \A q \in Pods : q # p => DrainedPod(q)'
      BY <1>2, <2>1, <2>2, DrainedKept DEF Drained, Left
    <3>2. DrainedPod(p)'
      BY <2>1, <2>2, <2>4 DEF DrainedPod, Left
    <3> QED
      BY <3>1, <3>2 DEF Drained
  <2>6. HaltingPods' /\ HaltComesLast'
    BY <1>9, <2>1, <2>2
  <2> QED
    BY <1>2, <2>1, <2>5, <2>6 DEF NoneCancelled
<1>13. CASE PodHalted(p)
  <2>1. /\ pod[p].pc = "drain" /\ at = Len(table[p].workers)
        /\ pod' = [pod EXCEPT ![p] = [pc |-> "exiting", at |-> @.at]]
        /\ UNCHANGED <<podQ, table, worker, wq>>
    BY <1>13 DEF PodHalted
  <2>2. pod'[p] = [pc |-> "exiting", at |-> at] /\ \A q \in Pods : q # p => pod'[q] = pod[q]
    BY <1>1, <2>1
  <2>3. Drained'
    <3>1. \A q \in Pods : q # p => DrainedPod(q)'
      BY <1>2, <2>1, <2>2, DrainedKept DEF Drained, Left
    <3>2. DrainedPod(p)'
      BY <1>2, <2>1, <2>2 DEF Drained, DrainedPod, Left
    <3> QED
      BY <3>1, <3>2 DEF Drained
  <2>4. HaltingPods' /\ HaltComesLast'
    BY <1>9, <2>1, <2>2
  <2> QED
    BY <1>2, <2>1, <2>3, <2>4 DEF NoneCancelled
<1>14. CASE PodExit(p)
  <2>1. /\ pod[p].pc = "exiting" /\ UNCHANGED <<podQ, table>> /\ CancelWorkers(p)
        /\ pod' = [pod EXCEPT ![p] = [pc |-> "exited", at |-> @.at]]
    BY <1>14 DEF PodExit
  <2>2. pod'[p] = [pc |-> "exited", at |-> at] /\ \A q \in Pods : q # p => pod'[q] = pod[q]
    BY <1>1, <2>1
  <2>3. \A w \in WorkersOf(p) : Left(w)
    <3>1. at = Len(table[p].workers)
      BY <1>2, <2>1 DEF Drained, DrainedPod
    <3> QED
      BY <1>2, <2>1, <3>1 DEF Drained, DrainedPod, WorkersOf, Elems
  <2>4. \A w \in Reqs : /\ wq'[w] = wq[w] /\ worker'[w] # "cancelled"
                        /\ Left(w) => worker'[w] \in {"closing", "closed"}
    BY <1>1, <1>2, <2>1, <2>3 DEF CancelWorkers, Left, Listening, NoneCancelled
  <2>5. Drained'
    <3> SUFFICES ASSUME NEW q \in Pods PROVE DrainedPod(q)'
      BY DEF Drained
    <3>2. /\ pod'[q].at = pod[q].at
          /\ pod'[q].pc # "recv" => pod[q].pc # "recv"
          /\ pod'[q].pc = "drainWait" => pod[q].pc = "drainWait"
          /\ pod'[q].pc \in {"exiting", "exited"} => pod[q].pc \in {"exiting", "exited"}
      BY <2>1, <2>2
    <3>3. \A w \in Reqs : wq'[w] = wq[w] /\ (Left(w) => Left(w)')
      BY <2>1, <2>4 DEF Left
    <3> QED
      BY <1>2, <2>1, <3>2, <3>3, DrainedKept DEF Drained
  <2>6. HaltingPods' /\ HaltComesLast'
    BY <1>9, <2>1, <2>2
  <2>7. NoneCancelled'
    BY <2>4 DEF NoneCancelled
  <2> QED
    BY <2>5, <2>6, <2>7
<1> QED
  BY <1>5, <1>6, <1>7, <1>8, <1>11, <1>12, <1>13, <1>14 DEF PodStep

\* The workers.
LEMMA WorkerHaltStep ==
  ASSUME TypeInv, Inv, FlowInv, HaltInv, NEW w \in Reqs, WorkerStep(w) \/ WorkerEvent(w),
         UNCHANGED svlVars
  PROVE  HaltInv'
<1> SUFFICES ASSUME svl.pc # "failed" PROVE (HaltingPods /\ HaltComesLast /\ Drained /\ NoneCancelled)'
  BY DEF HaltInv, svlVars
<1>1. /\ UNCHANGED <<svl, pod, podQ, table>>
      /\ worker \in [Reqs -> Lives] /\ wq \in [Reqs -> Seq(WorkerTrigger)]
  BY DEF svlVars, WorkerStep, WorkerEvent, WorkerReady, WorkerStartFails, WorkerHoldsHttp,
         WorkerIgnoresHttp, WorkerFailsHttp, WorkerFailsKept, WorkerHalts, WorkerReplies,
         WorkerCloses, MonitorKills, LeaveLoop, TypeInv, PodTypeInv, PodTypeOK
<1>2. HaltingPods /\ HaltComesLast /\ Drained /\ NoneCancelled /\ TablesFilled
  BY DEF HaltInv, Inv
<1>3. HaltingPods' /\ HaltComesLast'
  BY <1>1, <1>2 DEF HaltingPods, HaltComesLast
<1>4. ASSUME \A v \in Reqs : worker'[v] # "cancelled" /\ (Left(v) => Left(v)'),
             \A v \in Reqs : PodHalt \in Elems(wq[v]) => Left(v)' \/ PodHalt \in Elems(wq'[v])
      PROVE  Drained' /\ NoneCancelled'
  BY <1>1, <1>2, <1>4, DrainedKept DEF Drained, NoneCancelled
<1>5. CASE WorkerReady(w)
  BY <1>1, <1>2, <1>3, <1>4, <1>5 DEF WorkerReady, Left, NoneCancelled
<1>6. CASE \/ WorkerStartFails(w) \/ WorkerFailsHttp(w)
           \/ WorkerFailsKept(w) \/ WorkerHalts(w)
  <2>1. worker' = [worker EXCEPT ![w] = "closing"] /\ wq' = [wq EXCEPT ![w] = <<>>]
    BY <1>6 DEF WorkerStartFails, WorkerFailsHttp, WorkerFailsKept, WorkerHalts, LeaveLoop
  <2> QED
    BY <1>1, <1>2, <1>3, <1>4, <2>1 DEF Left, NoneCancelled
<1>7. CASE WorkerHoldsHttp(w) \/ WorkerIgnoresHttp(w)
  <2>1. /\ worker' = worker /\ wq' = [wq EXCEPT ![w] = Tail(@)]
        /\ wq[w] # <<>> /\ Head(wq[w]).type = "http"
    BY <1>7 DEF WorkerHoldsHttp, WorkerIgnoresHttp, WorkerReceives
  <2>2. PodHalt \in Elems(wq[w]) => PodHalt \in Elems(Tail(wq[w]))
    BY <1>1, <2>1, ElemsKept DEF PodHalt
  <2> QED
    BY <1>1, <1>2, <1>3, <1>4, <2>1, <2>2 DEF Left, NoneCancelled
<1>8. ASSUME NEW c \in Reqs, WorkerReplies(w, c)
      PROVE  Drained' /\ NoneCancelled'
  BY <1>2, <1>4, <1>8 DEF WorkerReplies, Left, NoneCancelled
<1>9. CASE WorkerCloses(w)
  BY <1>1, <1>2, <1>3, <1>4, <1>9 DEF WorkerCloses, Left, NoneCancelled
<1>10. CASE MonitorKills(w)
  <2>1. worker' = worker /\ wq' = [wq EXCEPT ![w] = Append(@, MonitorHalt)]
    BY <1>10 DEF MonitorKills
  <2>2. \A v \in Reqs : PodHalt \in Elems(wq[v]) => PodHalt \in Elems(wq'[v])
    BY <1>1, <2>1, HaltStays, WorkerTriggers
  <2> QED
    BY <1>2, <1>3, <1>4, <2>1, <2>2 DEF Left, NoneCancelled
<1> QED
  BY <1>3, <1>5, <1>6, <1>7, <1>8, <1>9, <1>10 DEF WorkerStep, WorkerEvent

LEMMA HaltStep == TypeInv /\ Inv /\ FlowInv /\ HaltInv /\ [Next]_vars => HaltInv'
<1> SUFFICES ASSUME TypeInv, Inv, FlowInv, HaltInv, [Next]_vars PROVE HaltInv'
  OBVIOUS
<1>1. ASSUME UNCHANGED <<svl, pod, podQ, table, worker, wq>>
      PROVE  HaltInv'
  BY <1>1 DEF HaltInv, HaltingPods, HaltComesLast, Drained, DrainedPod, NoneCancelled, Left
<1>2. CASE UNCHANGED vars
  BY <1>1, <1>2 DEF vars, svlVars, podVars
<1>3. ASSUME NEW c \in Reqs, ClientStep(c) \/ ClientGone(c)
      PROVE  HaltInv'
  BY <1>1, <1>3
  DEF ClientStep, ClientSubmits, ClientFindsClosed, ClientBadBody, ClientUploaded,
      ClientNotCreated, ClientSendsHttp, ClientCannotSendHttp, ClientAnswered, ClientGone,
      podVars
<1>4. ASSUME NEW p \in Pods, svl.pc = "failed", UNCHANGED svlVars
      PROVE  HaltInv'
  BY <1>4 DEF svlVars, HaltInv
<1> QED
  BY <1>2, <1>3, <1>4, SvlHaltStep, PodHaltStep, WorkerHaltStep
  DEF Next, PodTurn, Terminated

\* What makes the theorems inductive.
FullInv == TypeInv /\ Inv /\ FlowInv /\ HaltInv

LEMMA FullInvariant == Spec => []FullInv
<1>1. Init => FullInv
  BY TypeInit, InvInit, FlowInit, HaltInit DEF FullInv
<1>2. FullInv /\ [Next]_vars => FullInv'
  BY TypeStep, InvStep, FlowStep, HaltStep DEF FullInv
<1> QED
  BY <1>1, <1>2, PTL DEF Spec

\* In a halted pod every slot is drained, and who left has no channel.
LEMMA HaltedIsQuiet == FullInv => HaltedPodIsQuiet
<1> SUFFICES ASSUME FullInv, svl.pc # "failed", NEW p \in Pods, pod[p].pc \in {"exiting", "exited"}
             PROVE  podQ[p] = <<>> /\ \A w \in WorkersOf(p) : Left(w) /\ wq[w] = <<>>
  BY DEF HaltedPodIsQuiet, Left
<1>1. HaltingPods /\ Drained /\ TablesFilled /\ GoneQueueless
  BY DEF FullInv, HaltInv, Inv, FlowInv
<1>2. podQ[p] = <<>>
  BY <1>1 DEF HaltingPods
<1>3. \A i \in 1 .. Len(table[p].workers) : Left(table[p].workers[i])
  BY <1>1 DEF Drained, DrainedPod
<1>4. \A w \in WorkersOf(p) : w \in Reqs /\ Left(w)
  BY <1>1, <1>3 DEF WorkersOf, Elems, TablesFilled
<1> QED
  BY <1>1, <1>2, <1>4 DEF GoneQueueless, Listening, Left

(***************************************************************************)
(* A pod that confirms a Halt is quiet: its channel is empty and each of   *)
(* its workers has left its loop and lost its channel, for any number of   *)
(* pods and workers and any interleaving with failures and kills.          *)
(***************************************************************************)
THEOREM HaltedQuiet == Spec => []HaltedPodIsQuiet
BY HaltedIsQuiet, FullInvariant, PTL

-----------------------------------------------------------------------------
\* The places of InTransit, by elements instead of positions.
InSvlQ(c) == \E m \in Elems(svlQ) : m.req = c
InPodQ(c) == \E p \in Pods : \E m \in Elems(podQ[p]) : m.type = "toWorker" /\ m.req = c
InWorkerQ(c) == \E w \in Reqs : Http(c) \in Elems(wq[w])
IsHeld(c) == \E w \in Reqs : c \in held[w] /\ worker[w] \in {"ready", "closing"}

Somewhere(c) == InSvlQ(c) \/ svl.req = c \/ InPodQ(c) \/ InWorkerQ(c) \/ IsHeld(c)

LEMMA Transit ==
  ASSUME NEW c \in Reqs
  PROVE  (InTransit(c) <=> Somewhere(c)) /\ (InTransit(c)' <=> Somewhere(c)')
BY DEF InTransit, Somewhere, InSvlQ, InPodQ, InWorkerQ, IsHeld, QueuedHttp, Elems

Expected == \A c \in Reqs : reply[c] = "pending" => Somewhere(c)

LEMMA ElemsTyped ==
  ASSUME NEW S, NEW s \in Seq(S)
  PROVE  /\ Elems(s) \subseteq S
         /\ s # <<>> => Head(s) \in Elems(s)
BY DEF Elems

\* The handlers.
LEMMA ClientExpectsStep ==
  ASSUME TypeInv, Expected, NEW c \in Reqs, ClientStep(c) \/ ClientGone(c)
  PROVE  Expected'
<1> USE DEF TypeInv, SvlTypeInv, SvlTypeOK, PodTypeInv, PodTypeOK
<1>1. UNCHANGED <<svl, podQ, worker, wq, held>>
  BY DEF ClientStep, ClientSubmits, ClientFindsClosed, ClientBadBody, ClientUploaded,
         ClientNotCreated, ClientSendsHttp, ClientCannotSendHttp, ClientAnswered, ClientGone,
         podVars
<1>2. ASSUME UNCHANGED <<svlQ, reply>> PROVE Expected'
  BY <1>1, <1>2 DEF Expected, Somewhere, InSvlQ, InPodQ, InWorkerQ, IsHeld
<1>3. ASSUME NEW m \in ServerlessTrigger, m.req = c, svlQ' = Append(svlQ, m),
             \A d \in Reqs : d # c => reply'[d] = reply[d]
      PROVE  Expected'
  <2>1. m \in Elems(svlQ') /\ Elems(svlQ) \subseteq Elems(svlQ')
    BY <1>3, ElemsKept
  <2>2. Somewhere(c)' /\ \A d \in Reqs : Somewhere(d) => Somewhere(d)'
    BY <1>1, <1>3, <2>1 DEF Somewhere, InSvlQ, InPodQ, InWorkerQ, IsHeld
  <2> QED
    BY <1>3, <2>2 DEF Expected
<1>4. CASE ClientSubmits(c)
  <2>1. ASSUME op[c].kind = "remove" PROVE \A d \in Reqs : d # c => reply'[d] = reply[d]
    BY <1>4, <2>1 DEF ClientSubmits
  <2>2. Trigger(op[c].kind, c) \in ServerlessTrigger /\ Trigger(op[c].kind, c).req = c
    BY ServerlessTriggers DEF Trigger
  <2> QED
    BY <1>3, <1>4, <2>1, <2>2 DEF ClientSubmits, Send
<1>5. CASE ClientSendsHttp(c)
  <2>1. Trigger("toPod", c) \in ServerlessTrigger /\ Trigger("toPod", c).req = c
    BY ServerlessTriggers DEF Trigger
  <2> QED
    BY <1>3, <1>5, <2>1 DEF ClientSendsHttp, Send
<1>6. CASE ClientFindsClosed(c) \/ ClientBadBody(c) \/ ClientUploaded(c) \/ ClientGone(c)
  BY <1>2, <1>6 DEF ClientFindsClosed, ClientBadBody, ClientUploaded, ClientGone, podVars
<1>7. CASE ClientNotCreated(c) \/ ClientCannotSendHttp(c) \/ ClientAnswered(c)
  BY <1>2, <1>7 DEF ClientNotCreated, ClientCannotSendHttp, ClientAnswered, podVars
<1> QED
  BY <1>4, <1>5, <1>6, <1>7 DEF ClientStep

\* The serverless task.
LEMMA SvlExpectsStep ==
  ASSUME TypeInv, FlowInv, Expected, SvlStep \/ SvlCtrlC
  PROVE  Expected'
<1> USE DEF Selecting, SvlAt
<1>1. UNCHANGED <<worker, wq, held>>
  BY DEF SvlStep, SvlCtrlC, SvlCreateNoCode, SvlCreate, SvlUpload, SvlRemove,
         SvlToPod, SvlForward, SvlAsksVacancy, SvlToldVacancy, SvlNoVacancy, SvlAsksWorker,
         SvlCreated, SvlHaltsPod, SvlPodHalted, SvlJoined, SvlUnchangedPods, podVars
<1>2. /\ svlQ \in Seq(ServerlessTrigger) /\ podQ \in [Pods -> Seq(PodTrigger)]
      /\ reply \in [Reqs -> Replies] /\ None \notin Reqs
  BY PodAssumption DEF TypeInv, SvlTypeInv, SvlTypeOK, PodTypeInv, PodTypeOK
<1>3. ASSUME \A c \in Reqs : reply'[c] = "pending" => reply[c] = "pending",
             \A c \in Reqs : reply'[c] = "pending" /\ InSvlQ(c) => InSvlQ(c)' \/ svl'.req = c,
             \A c \in Reqs : reply'[c] = "pending" /\ svl.req = c => svl'.req = c \/ InPodQ(c)',
             podQ' = podQ \/ \E m \in PodTrigger : SendToPod(svl.pod, m)
      PROVE  Expected'
  <2>1. \A p \in Pods : Elems(podQ[p]) \subseteq Elems(podQ'[p])
    <3>1. CASE podQ' = podQ
      BY <3>1
    <3>2. ASSUME NEW m \in PodTrigger, SendToPod(svl.pod, m), NEW p \in Pods
          PROVE  Elems(podQ[p]) \subseteq Elems(podQ'[p])
      <4>1. Elems(podQ[p]) \subseteq Elems(Append(podQ[p], m))
        BY <1>2, ElemsKept
      <4>2. podQ'[p] = podQ[p] \/ podQ'[p] = Append(podQ[p], m)
        BY <1>2, <3>2 DEF SendToPod
      <4> QED
        BY <4>1, <4>2
    <3> QED
      BY <1>3, <3>1, <3>2
  <2>2. \A c \in Reqs : InPodQ(c) => InPodQ(c)'
    BY <2>1 DEF InPodQ
  <2> QED
    BY <1>1, <1>3, <2>2 DEF Expected, Somewhere, InWorkerQ, IsHeld
<1>4. ASSUME svlQ' = svlQ PROVE \A c \in Reqs : InSvlQ(c) => InSvlQ(c)'
  BY <1>4 DEF InSvlQ
<1>5. ASSUME NEW t, SvlReceived(t)
      PROVE  /\ svl.req \notin Reqs
             /\ \A c \in Reqs : InSvlQ(c) => InSvlQ(c)' \/ Head(svlQ).req = c
             /\ Head(svlQ).req \in Reqs /\ Head(svlQ) \in Elems(svlQ)
  <2>1. svl.req \notin Reqs
    BY <1>2, <1>5 DEF SvlReceived, FlowInv, Resting
  <2>2. \A m \in Elems(svlQ) : m = Head(svlQ) \/ m \in Elems(svlQ')
    BY <1>2, <1>5, ElemsKept DEF SvlReceived
  <2>3. Head(svlQ) \in Elems(svlQ) /\ Head(svlQ).req \in Reqs
    BY <1>2, <1>5, ElemsTyped, ServerlessTriggers DEF SvlReceived
  <2> QED
    BY <2>1, <2>2, <2>3 DEF InSvlQ
<1>6. CASE SvlCreateNoCode \/ SvlUpload
  <2>1. /\ \A c \in Reqs : reply'[c] = "pending" => reply[c] = "pending" /\ c # Head(svlQ).req
        /\ UNCHANGED <<svl, podQ>>
        /\ \E t \in Kinds : SvlReceived(t)
    BY <1>2, <1>5, <1>6 DEF SvlCreateNoCode, SvlUpload, SvlReply, SvlUnchangedPods, Kinds
  <2> QED
    BY <1>3, <1>5, <2>1
<1>7. CASE SvlCreate \/ SvlToPod
  <2>1. /\ svl'.req = Head(svlQ).req /\ UNCHANGED <<reply, podQ>>
        /\ \E t \in Kinds \cup {"toPod"} : SvlReceived(t)
    BY <1>7 DEF SvlCreate, SvlToPod, podVars, Kinds
  <2> QED
    BY <1>3, <1>5, <2>1
<1>8. CASE SvlRemove
  <2>1. SvlReceived("remove") /\ UNCHANGED <<svl, reply, podQ>>
    BY <1>8 DEF SvlRemove, podVars
  <2>2. reply[Head(svlQ).req] # "pending"
    <3>1. 1 \in 1 .. Len(svlQ) /\ Head(svlQ) = svlQ[1] /\ svlQ[1].req \in Reqs
      BY <1>2, <1>5, <2>1, Taking DEF SvlReceived
    <3>2. svlQ[1].type = "remove"
      BY <2>1, <3>1 DEF SvlReceived
    <3> QED
      BY <3>1, <3>2 DEF FlowInv, RemovesUnawaited
  <2> QED
    BY <1>3, <1>5, <2>1, <2>2
<1>9. CASE SvlForward
  <2>1. /\ SendToPod(svl.pod, ToWorker(svl.req, route[svl.req].id))
        /\ ToWorker(svl.req, route[svl.req].id) \in PodTrigger /\ UNCHANGED <<svlQ, reply>>
    BY <1>9, PodTriggers DEF SvlForward, TypeInv, SvlTypeInv, SvlTypeOK, SvlAtWork, Routes
  <2>2. ToWorker(svl.req, route[svl.req].id) \in Elems(podQ'[svl.pod]) /\ svl.pod \in Pods
    BY <1>2, <2>1, ElemsKept DEF SendToPod
  <2>3. \A c \in Reqs : svl.req = c => InPodQ(c)'
    <3>1. PICK m \in Elems(podQ'[svl.pod]) : m.type = "toWorker" /\ m.req = svl.req
      BY <2>2 DEF ToWorker
    <3> QED
      BY <2>2, <3>1 DEF InPodQ
  <2> QED
    BY <1>3, <1>4, <2>1, <2>3
<1>10. CASE SvlAsksVacancy
  BY <1>3, <1>4, <1>10, PodTriggers DEF SvlAsksVacancy
<1>11. CASE SvlAsksWorker
  <2>1. CreateWorkerFor(svl.req) \in PodTrigger
    BY <1>11, PodTriggers DEF SvlAsksWorker, TypeInv, SvlTypeInv, SvlAtWork
  <2> QED
    BY <1>3, <1>4, <1>11, <2>1 DEF SvlAsksWorker
<1>12. CASE SvlToldVacancy
  BY <1>3, <1>4, <1>12 DEF SvlToldVacancy
<1>13. CASE SvlNoVacancy \/ SvlCreated
  <2>1. /\ \A c \in Reqs : reply'[c] = "pending" => reply[c] = "pending" /\ c # svl.req
        /\ UNCHANGED <<svlQ, podQ>>
    BY <1>2, <1>13 DEF SvlNoVacancy, SvlCreated, SvlReply, SvlUnchangedPods
  <2> QED
    BY <1>3, <1>4, <2>1
<1>14. CASE SvlCtrlC \/ SvlPodHalted
  <2>1. UNCHANGED <<svlQ, reply, podQ>> /\ svl.pc \in {"select", "haltWait"}
    BY <1>14 DEF SvlCtrlC, SvlPodHalted, podVars
  <2>2. svl.req \notin Reqs
    BY <1>2, <2>1 DEF FlowInv, Resting
  <2> QED
    BY <1>3, <1>4, <2>1, <2>2
<1>15. CASE SvlHaltsPod
  BY <1>3, <1>4, <1>15, PodTriggers DEF SvlHaltsPod
<1>16. CASE SvlJoined
  <2>1. DropQueue /\ svl.pc = "halt" /\ UNCHANGED podQ
    BY <1>16 DEF SvlJoined, SvlUnchangedPods
  <2>2. svl.req \notin Reqs
    BY <1>2, <2>1 DEF FlowInv, Resting
  <2>3. \A c \in Reqs : reply'[c] = "pending" => reply[c] = "pending" /\ ~ InSvlQ(c)
    <3> SUFFICES ASSUME NEW c \in Reqs, reply'[c] = "pending", InSvlQ(c) PROVE FALSE
      BY <1>2, <2>1 DEF DropQueue
    <3>1. reply[c] = "pending"
      BY <2>1 DEF DropQueue
    <3>2. PICK i \in 1 .. Len(svlQ) : svlQ[i].req = c
      BY DEF InSvlQ, Elems
    <3>3. svlQ[i].type = "remove"
      BY <2>1, <3>2 DEF DropQueue
    <3> QED
      BY <3>1, <3>2, <3>3 DEF FlowInv, RemovesUnawaited
  <2> QED
    BY <1>3, <2>1, <2>2, <2>3
<1> QED
  BY <1>6, <1>7, <1>8, <1>9, <1>10, <1>11, <1>12, <1>13, <1>14, <1>15, <1>16 DEF SvlStep

\* The pods.
LEMMA PodExpectsStep ==
  ASSUME FullInv, svl.pc # "failed", Expected, NEW p \in Pods, PodStep(p), UNCHANGED svlVars
  PROVE  Expected'
<1>1. /\ UNCHANGED <<svl, svlQ>>
      /\ podQ \in [Pods -> Seq(PodTrigger)] /\ wq \in [Reqs -> Seq(WorkerTrigger)]
      /\ worker \in [Reqs -> Lives] /\ held \in [Reqs -> SUBSET Reqs]
      /\ reply \in [Reqs -> Replies]
  BY DEF svlVars, FullInv, TypeInv, PodTypeInv, PodTypeOK
<1>2. \A c \in Reqs : (InSvlQ(c) => InSvlQ(c)') /\ (svl.req = c => svl'.req = c)
  BY <1>1 DEF InSvlQ
<1>3. ASSUME \A c \in Reqs : reply'[c] = "pending" => reply[c] = "pending",
             \A c \in Reqs : reply'[c] = "pending" /\ InPodQ(c) => InPodQ(c)' \/ InWorkerQ(c)',
             \A w \in Reqs : Elems(wq[w]) \subseteq Elems(wq'[w]),
             \A c \in Reqs : reply'[c] = "pending" /\ IsHeld(c) => IsHeld(c)'
      PROVE  Expected'
  <2>1. \A c \in Reqs : InWorkerQ(c) => InWorkerQ(c)'
    BY <1>3 DEF InWorkerQ
  <2> QED
    BY <1>2, <1>3, <2>1 DEF Expected, Somewhere
<1>4. ASSUME UNCHANGED <<worker, held>> PROVE \A c \in Reqs : IsHeld(c) => IsHeld(c)'
  BY <1>4 DEF IsHeld
<1>5. ASSUME podQ' = podQ PROVE \A c \in Reqs : InPodQ(c) => InPodQ(c)'
  BY <1>5 DEF InPodQ
<1>6. ASSUME podQ[p] # <<>>, podQ' = [podQ EXCEPT ![p] = Tail(@)]
      PROVE  \A c \in Reqs : InPodQ(c) =>
               InPodQ(c)' \/ (Head(podQ[p]).type = "toWorker" /\ Head(podQ[p]).req = c)
  <2>1. \A m \in Elems(podQ[p]) : m = Head(podQ[p]) \/ m \in Elems(podQ'[p])
    BY <1>1, <1>6, ElemsKept
  <2>2. \A q \in Pods : q # p => podQ'[q] = podQ[q]
    BY <1>1, <1>6
  <2> QED
    BY <2>1, <2>2 DEF InPodQ
<1>7. ASSUME NEW u \in Reqs, NEW n \in WorkerTrigger, wq' = [wq EXCEPT ![u] = Append(@, n)]
      PROVE  n \in Elems(wq'[u]) /\ \A w \in Reqs : Elems(wq[w]) \subseteq Elems(wq'[w])
  <2>1. \A w \in Reqs : w # u => wq'[w] = wq[w]
    BY <1>1, <1>7
  <2>2. wq'[u] = Append(wq[u], n) /\ wq[u] \in Seq(WorkerTrigger)
    BY <1>1, <1>7
  <2>3. n \in Elems(wq'[u]) /\ Elems(wq[u]) \subseteq Elems(wq'[u])
    BY <2>2, ElemsKept
  <2> QED
    BY <2>1, <2>3
<1>8. CASE PodCheckVacancies(p) \/ PodHaltReceived(p)
  BY <1>3, <1>4, <1>6, <1>8 DEF PodCheckVacancies, PodHaltReceived, Received
<1>9. CASE PodCreateWorker(p)
  <2>1. /\ podQ[p] # <<>> /\ podQ' = [podQ EXCEPT ![p] = Tail(@)]
        /\ Head(podQ[p]).type = "create" /\ Head(podQ[p]).req = svl.req
        /\ worker' = [worker EXCEPT ![svl.req] = "starting"] /\ svl.req \in Reqs
        /\ UNCHANGED <<wq, held, reply>>
    BY <1>9, CreationStep DEF FullInv
  <2>2. worker[svl.req] = "none"
    <3>1. 1 \in 1 .. Len(podQ[p]) /\ Head(podQ[p]) = podQ[p][1]
      BY <1>1, <2>1, Taking
    <3> QED
      BY <2>1, <3>1 DEF FullInv, FlowInv, Unborn
  <2>3. \A c \in Reqs : IsHeld(c) => IsHeld(c)'
    BY <1>1, <2>1, <2>2 DEF IsHeld
  <2> QED
    BY <1>3, <1>6, <2>1, <2>3
<1>10. CASE PodForward(p)
  <2> DEFINE m == Head(podQ[p])
             w == GetWorker(table[p], m.id)
  <2>1. /\ podQ[p] # <<>> /\ podQ' = [podQ EXCEPT ![p] = Tail(@)]
        /\ m.type = "toWorker" /\ UNCHANGED <<worker, held>>
    BY <1>10 DEF PodForward, Received
  <2>2. m.req \in Reqs
    BY <1>1, <2>1, ElemsTyped, PodTriggers
  <2>3. CASE wq' = [wq EXCEPT ![w] = Append(@, Http(m.req))] /\ UNCHANGED reply
    <3>1. w \in Reqs
      <4>1. 1 \in 1 .. Len(podQ[p]) /\ m = podQ[p][1]
        BY <1>1, <2>1, Taking
      <4>2. Placed(p, m.id, m.req)
        BY <2>1, <4>1 DEF FullInv, Inv, QuestionsInTurn
      <4> QED
        BY <2>2, <4>2 DEF Placed, PlacedIn, GetWorker
    <3>2. Http(m.req) \in WorkerTrigger
      BY <2>2, WorkerTriggers
    <3> HIDE DEF m, w
    <3>3. /\ Http(m.req) \in Elems(wq'[w])
          /\ \A v \in Reqs : Elems(wq[v]) \subseteq Elems(wq'[v])
      BY <1>7, <2>3, <3>1, <3>2
    <3>4. \A c \in Reqs : m.req = c => InWorkerQ(c)'
      <4>1. \E v \in Reqs : Http(m.req) \in Elems(wq'[v])
        BY <3>1, <3>3
      <4> QED
        BY <4>1 DEF InWorkerQ, Http
    <3> QED
      BY <1>3, <1>4, <1>6, <2>1, <2>3, <3>3, <3>4 DEF m
  <2>4. CASE reply' = [reply EXCEPT ![m.req] = "dropped"] /\ UNCHANGED wq
    <3>1. \A c \in Reqs : reply'[c] = "pending" => reply[c] = "pending" /\ m.req # c
      BY <1>1, <2>4
    <3> QED
      BY <1>3, <1>4, <1>6, <2>1, <2>4, <3>1
  <2> QED
    BY <1>10, <2>3, <2>4 DEF PodForward
<1>11. CASE PodDrain(p)
  <2> DEFINE v == table[p].workers[pod[p].at + 1]
  <2>1. pod[p].at < Len(table[p].workers) /\ UNCHANGED <<podQ, worker, held, reply>>
    BY <1>11, SMTT(30) DEF PodDrain
  <2>2. \/ Listening(v) /\ wq' = [wq EXCEPT ![v] = Append(@, PodHalt)]
        \/ ~ Listening(v) /\ wq' = wq
    BY <1>11 DEF PodDrain
  <2>3. v \in Reqs
    <3>1. pod[p].at \in Nat
      BY DEF FullInv, TypeInv, PodTypeInv, PodTypeOK, PodState
    <3>2. TypeInv /\ TablesFilled
      BY DEF FullInv, Inv
    <3> QED
      BY <2>1, <3>1, <3>2, SlotFilled
  <2> HIDE DEF v
  <2>4. \A w \in Reqs : Elems(wq[w]) \subseteq Elems(wq'[w])
    BY <1>7, <2>2, <2>3, WorkerTriggers
  <2> QED
    BY <1>3, <1>4, <1>5, <2>1, <2>4
<1>12. CASE PodDrained(p) \/ PodHalted(p)
  <2>1. CASE PodDrained(p)
    BY <1>3, <1>4, <1>5, <2>1 DEF PodDrained
  <2>2. CASE PodHalted(p)
    BY <1>3, <1>4, <1>5, <2>2 DEF PodHalted
  <2> QED
    BY <1>12, <2>1, <2>2
<1>13. CASE PodExit(p)
  <2>1. pod[p].pc = "exiting" /\ CancelWorkers(p) /\ UNCHANGED podQ
    BY <1>13 DEF PodExit
  <2>2. \A w \in WorkersOf(p) : Left(w)
    <3>1. /\ \A i \in 1 .. Len(table[p].workers) : i <= pod[p].at => Left(table[p].workers[i])
          /\ pod[p].at = Len(table[p].workers)
      BY <2>1 DEF FullInv, HaltInv, Drained, DrainedPod
    <3>2. Len(table[p].workers) \in Nat
      BY DEF FullInv, TypeInv, PodTypeInv, PodTypeOK, TableType
    <3> QED
      BY <3>1, <3>2 DEF WorkersOf, Elems
  <2>3. \A w \in Reqs : wq'[w] = wq[w]
    BY <1>1, <2>1, <2>2 DEF CancelWorkers, Left, Listening
  <2>4. \A c \in Reqs : reply'[c] = "pending" => reply[c] = "pending"
    BY <2>1 DEF CancelWorkers
  <2>5. ASSUME NEW c \in Reqs, reply'[c] = "pending", IsHeld(c) PROVE IsHeld(c)'
    <3>1. PICK w \in Reqs : c \in held[w] /\ worker[w] \in {"ready", "closing"}
      BY <2>5 DEF IsHeld
    <3>2. w \notin WorkersOf(p) \/ worker[w] # "closing"
      <4> SUFFICES ASSUME w \in WorkersOf(p), worker[w] = "closing" PROVE FALSE
        OBVIOUS
      <4>1. c \in UNION {held[v] : v \in {u \in WorkersOf(p) : worker[u] = "closing"}}
        BY <3>1
      <4> QED
        BY <2>1, <2>5, <4>1 DEF CancelWorkers
    <3>3. held'[w] = held[w] /\ worker'[w] = worker[w]
      BY <2>1, <2>2, <3>1, <3>2 DEF CancelWorkers, Left, Listening
    <3> QED
      BY <3>1, <3>3 DEF IsHeld
  <2> QED
    BY <1>3, <1>5, <2>1, <2>3, <2>4, <2>5
<1> QED
  BY <1>8, <1>9, <1>10, <1>11, <1>12, <1>13 DEF PodStep

\* The workers.
LEMMA WorkerExpectsStep ==
  ASSUME FullInv, Expected, NEW w \in Reqs, WorkerStep(w) \/ WorkerEvent(w), UNCHANGED svlVars
  PROVE  Expected'
<1>1. /\ UNCHANGED <<svl, svlQ, podQ>>
      /\ wq \in [Reqs -> Seq(WorkerTrigger)] /\ worker \in [Reqs -> Lives]
      /\ held \in [Reqs -> SUBSET Reqs] /\ reply \in [Reqs -> Replies]
  BY DEF svlVars, FullInv, TypeInv, PodTypeInv, PodTypeOK, WorkerStep, WorkerEvent, WorkerReady,
         WorkerStartFails, WorkerHoldsHttp, WorkerIgnoresHttp, WorkerFailsHttp, WorkerFailsKept,
         WorkerHalts, WorkerReplies, WorkerCloses, MonitorKills, LeaveLoop
<1>2. ASSUME \A c \in Reqs : reply'[c] = "pending" => reply[c] = "pending",
             \A c, v \in Reqs : reply'[c] = "pending" /\ Http(c) \in Elems(wq[v]) =>
               Http(c) \in Elems(wq'[v]) \/ IsHeld(c)',
             \A c, v \in Reqs : reply'[c] = "pending" /\ c \in held[v]
                                /\ worker[v] \in {"ready", "closing"} => IsHeld(c)'
      PROVE  Expected'
  <2> SUFFICES ASSUME NEW c \in Reqs, reply'[c] = "pending" PROVE Somewhere(c)'
    BY DEF Expected
  <2>1. Somewhere(c)
    BY <1>2 DEF Expected
  <2>2. (InSvlQ(c) => InSvlQ(c)') /\ (svl.req = c => svl'.req = c) /\ (InPodQ(c) => InPodQ(c)')
    BY <1>1 DEF InSvlQ, InPodQ
  <2>3. InWorkerQ(c) => InWorkerQ(c)' \/ IsHeld(c)'
    BY <1>2 DEF InWorkerQ
  <2>4. IsHeld(c) => IsHeld(c)'
    BY <1>2 DEF IsHeld
  <2> QED
    BY <2>1, <2>2, <2>3, <2>4 DEF Somewhere
<1>3. CASE WorkerReady(w)
  BY <1>1, <1>2, <1>3 DEF WorkerReady, IsHeld
<1>4. CASE WorkerStartFails(w) \/ WorkerFailsHttp(w) \/ WorkerHalts(w)
  <2>1. LeaveLoop(w, QueuedHttp(w)) /\ worker[w] \in {"starting", "ready"}
    BY <1>4 DEF WorkerStartFails, WorkerFailsHttp, WorkerHalts, WorkerReceives
  <2>2. \A c \in Reqs : reply'[c] = "pending" => reply[c] = "pending" /\ Http(c) \notin Elems(wq[w])
    BY <2>1 DEF LeaveLoop, QueuedHttp
  <2>3. \A v \in Reqs : v # w => wq'[v] = wq[v]
    BY <1>1, <2>1 DEF LeaveLoop
  <2>4. \A v \in Reqs : worker[v] \in {"ready", "closing"} => worker'[v] \in {"ready", "closing"}
    BY <1>1, <2>1 DEF LeaveLoop
  <2>5. held' = held
    BY <2>1 DEF LeaveLoop
  <2> QED
    BY <1>2, <2>2, <2>3, <2>4, <2>5 DEF IsHeld
<1>5. ASSUME WorkerReceives(w, {"http"}), wq' = [wq EXCEPT ![w] = Tail(@)]
      PROVE  \A c, v \in Reqs : Http(c) \in Elems(wq[v]) =>
               Http(c) \in Elems(wq'[v]) \/ (v = w /\ c = Head(wq[w]).req)
  <2>1. \A m \in Elems(wq[w]) : m = Head(wq[w]) \/ m \in Elems(wq'[w])
    BY <1>1, <1>5, ElemsKept DEF WorkerReceives
  <2>2. \A v \in Reqs : v # w => wq'[v] = wq[v]
    BY <1>1, <1>5
  <2> QED
    BY <2>1, <2>2 DEF Http
<1>6. CASE WorkerHoldsHttp(w)
  <2>1. /\ WorkerReceives(w, {"http"}) /\ wq' = [wq EXCEPT ![w] = Tail(@)]
        /\ held' = [held EXCEPT ![w] = @ \cup {Head(wq[w]).req}] /\ UNCHANGED <<worker, reply>>
        /\ worker[w] = "ready"
    BY <1>6 DEF WorkerHoldsHttp, WorkerReceives
  <2>2. \A c \in Reqs : c = Head(wq[w]).req => IsHeld(c)'
    BY <1>1, <2>1 DEF IsHeld
  <2>3. \A v \in Reqs : held[v] \subseteq held'[v]
    BY <1>1, <2>1
  <2> QED
    BY <1>2, <1>5, <2>1, <2>2, <2>3 DEF IsHeld
<1>7. CASE WorkerIgnoresHttp(w)
  <2>1. /\ WorkerReceives(w, {"http"}) /\ wq' = [wq EXCEPT ![w] = Tail(@)]
        /\ reply' = [reply EXCEPT ![Head(wq[w]).req] = "dropped"] /\ UNCHANGED <<worker, held>>
    BY <1>7 DEF WorkerIgnoresHttp
  <2>2. \A c \in Reqs : reply'[c] = "pending" => reply[c] = "pending" /\ c # Head(wq[w]).req
    BY <1>1, <2>1
  <2> QED
    BY <1>2, <1>5, <2>1, <2>2 DEF IsHeld
<1>8. ASSUME NEW c \in Reqs, WorkerReplies(w, c)
      PROVE  Expected'
  <2>1. \A d \in Reqs : reply'[d] = "pending" => reply[d] = "pending" /\ d # c
    BY <1>1, <1>8 DEF WorkerReplies
  <2>2. \A d \in Reqs, v \in Reqs : d # c /\ d \in held[v] => d \in held'[v]
    BY <1>1, <1>8 DEF WorkerReplies
  <2> QED
    BY <1>2, <1>8, <2>1, <2>2 DEF WorkerReplies, IsHeld
<1>9. CASE WorkerCloses(w)
  <2>1. \A d \in Reqs : reply'[d] = "pending" => reply[d] = "pending" /\ d \notin held[w]
    BY <1>9 DEF WorkerCloses
  <2>2. \A v \in Reqs : v # w => worker'[v] = worker[v] /\ held'[v] = held[v]
    BY <1>1, <1>9 DEF WorkerCloses
  <2> QED
    BY <1>2, <1>9, <2>1, <2>2 DEF WorkerCloses, IsHeld
<1>10. CASE MonitorKills(w)
  <2>1. wq' = [wq EXCEPT ![w] = Append(@, MonitorHalt)] /\ UNCHANGED <<worker, held, reply>>
    BY <1>10 DEF MonitorKills
  <2>2. \A v \in Reqs : v # w => wq'[v] = wq[v]
    BY <1>1, <2>1
  <2>3. Elems(wq[w]) \subseteq Elems(wq'[w])
    BY <1>1, <2>1, ElemsKept, WorkerTriggers
  <2> QED
    BY <1>2, <2>1, <2>2, <2>3 DEF IsHeld
<1>11. CASE WorkerFailsKept(w)
  <2>1. /\ worker[w] = "ready" /\ worker' = [worker EXCEPT ![w] = "closing"]
        /\ wq' = [wq EXCEPT ![w] = <<>>]
        /\ held' = [held EXCEPT ![w] = @ \cup {Head(wq[w]).req}]
    BY <1>11 DEF WorkerFailsKept, WorkerReceives
  <2>2. \A c \in Reqs : reply'[c] = "pending" =>
          reply[c] = "pending" /\ (Http(c) \in Elems(wq[w]) => c = Head(wq[w]).req)
    BY <1>11 DEF WorkerFailsKept, QueuedHttp
  <2>3. \A v \in Reqs : v # w => wq'[v] = wq[v]
    BY <1>1, <2>1
  <2>4. \A v \in Reqs : worker[v] \in {"ready", "closing"} => worker'[v] \in {"ready", "closing"}
    BY <1>1, <2>1
  <2>5. \A v \in Reqs : held[v] \subseteq held'[v]
    BY <1>1, <2>1
  <2>6. \A c \in Reqs : c = Head(wq[w]).req => IsHeld(c)'
    BY <1>1, <2>1 DEF IsHeld
  <2>7. \A c, v \in Reqs : c \in held[v] /\ worker[v] \in {"ready", "closing"} => IsHeld(c)'
    BY <2>4, <2>5 DEF IsHeld
  <2>8. \A c, v \in Reqs : reply'[c] = "pending" /\ Http(c) \in Elems(wq[v]) =>
               Http(c) \in Elems(wq'[v]) \/ IsHeld(c)'
    BY <2>2, <2>3, <2>6
  <2> QED
    BY <1>2, <2>2, <2>7, <2>8
<1> QED
  BY <1>3, <1>4, <1>6, <1>7, <1>8, <1>9, <1>10, <1>11 DEF WorkerStep, WorkerEvent

NotOrphaned == svl.pc # "failed" => Expected

LEMMA ExpectsStep == FullInv /\ NotOrphaned /\ [Next]_vars => NotOrphaned'
<1> SUFFICES ASSUME FullInv, NotOrphaned, [Next]_vars, svl'.pc # "failed" PROVE Expected'
  BY DEF NotOrphaned
<1>1. svl.pc # "failed" /\ Expected
  <2>1. svl.pc = "failed" => svl' = svl
    BY DEF Next, SvlStep, SvlCtrlC, SvlServerExits, SvlCreateNoCode, SvlCreate, SvlUpload, SvlRemove,
           SvlToPod, SvlForward, SvlAsksVacancy, SvlToldVacancy, SvlNoVacancy, SvlAsksWorker,
           SvlCreated, SvlHaltsPod, SvlPodHalted, SvlJoined, SvlReceived, ClientStep,
           ClientSubmits, ClientFindsClosed, ClientBadBody, ClientUploaded, ClientNotCreated,
           ClientSendsHttp, ClientCannotSendHttp, ClientAnswered, ClientGone, Terminated, vars,
           svlVars
  <2> QED
    BY <2>1 DEF NotOrphaned
<1>2. ~ SvlServerExits
  BY DEF SvlServerExits, SvlAt
<1>3. CASE UNCHANGED vars
  <2>1. UNCHANGED <<svl, svlQ, podQ, wq, held, worker, reply>>
    BY <1>3 DEF vars, svlVars, podVars
  <2> QED
    BY <1>1, <2>1 DEF Expected, Somewhere, InSvlQ, InPodQ, InWorkerQ, IsHeld
<1> QED
  BY <1>1, <1>2, <1>3, ClientExpectsStep, SvlExpectsStep, PodExpectsStep, WorkerExpectsStep
  DEF FullInv, Next, PodTurn, Terminated

LEMMA NoneOrphaned == NotOrphaned => NoOrphanedRequest
BY Transit DEF NotOrphaned, Expected, NoOrphanedRequest

(***************************************************************************)
(* No handler waits for a reply nobody can send any more, for any number   *)
(* of requests, pods and workers: whichever of the tasks ended, failed or  *)
(* was halted, a pending reply is queued, in hand or kept by a worker that *)
(* will answer it.                                                         *)
(***************************************************************************)
THEOREM NoOrphans == Spec => []NoOrphanedRequest
<1>1. Init => NotOrphaned
  BY DEF Init, PodInit, NotOrphaned, Expected
<1>2. FullInv /\ NotOrphaned /\ [Next]_vars => NotOrphaned'
  BY ExpectsStep
<1> QED
  BY <1>1, <1>2, NoneOrphaned, FullInvariant, PTL DEF Spec

-----------------------------------------------------------------------------
(***************************************************************************)
(* Nobody waits for nobody: a question the serverless task waits on is in  *)
(* the pod's channel until it is answered, a Halt until the pod drains,    *)
(* and the drain loop stays within the slots.                              *)
(***************************************************************************)
Asked ==
  svl.pc \in {"checkWait", "createWait"} /\ answer = NoAnswer =>
    svl.pod \in Pods /\ \E m \in Elems(podQ[svl.pod]) : m.type \in {"check", "create"}

HaltAsked ==
  svl.pc = "haltWait" /\ pod[svl.pod].pc = "recv" =>
    \E m \in Elems(podQ[svl.pod]) : m.type = "halt"

DrainEnds ==
  \A p \in Pods : pod[p].pc = "drain" => pod[p].at <= Len(table[p].workers)

Emptied == svl.pc = "exited" => svlQ = <<>>

WaitParts == Asked /\ HaltAsked /\ DrainEnds /\ Emptied
WaitInv == svl.pc # "failed" => WaitParts

LEMMA WaitInit == Init => WaitInv
BY DEF Init, PodInit, Selecting, SvlAt, WaitInv, WaitParts, Asked, HaltAsked, DrainEnds, Emptied

\* Handlers and workers touch nothing of this.
LEMMA WaitUntouched ==
  ASSUME WaitParts, UNCHANGED <<svl, answer, podQ, pod, table>>,
         svl.pc = "exited" => svlQ' = svlQ
  PROVE  WaitParts'
<1>1. Asked' /\ HaltAsked'
  BY DEF WaitParts, Asked, HaltAsked
<1>2. DrainEnds' /\ Emptied'
  BY DEF WaitParts, DrainEnds, Emptied
<1> QED
  BY <1>1, <1>2 DEF WaitParts

\* The serverless task.
LEMMA SvlWaitStep ==
  ASSUME TypeInv, WaitInv, SvlStep \/ SvlCtrlC
  PROVE  WaitParts'
<1> USE DEF Selecting, SvlAt
<1>1. /\ svl.pc \notin {"failed", "exited"} /\ UNCHANGED <<pod, table>>
      /\ podQ \in [Pods -> Seq(PodTrigger)]
  BY DEF SvlStep, SvlCtrlC, SvlCreateNoCode, SvlCreate, SvlUpload, SvlRemove, SvlToPod,
         SvlForward, SvlAsksVacancy, SvlToldVacancy, SvlNoVacancy, SvlAsksWorker, SvlCreated,
         SvlHaltsPod, SvlPodHalted, SvlJoined, SvlReceived, SvlUnchangedPods, podVars,
         TypeInv, PodTypeInv, PodTypeOK
<1>2. DrainEnds'
  BY <1>1 DEF WaitInv, WaitParts, DrainEnds
<1>3. ASSUME NEW p \in Pods, NEW m \in PodTrigger, podQ' = [podQ EXCEPT ![p] = Append(@, m)]
      PROVE  m \in Elems(podQ'[p])
  <2>1. podQ'[p] = Append(podQ[p], m) /\ podQ[p] \in Seq(PodTrigger)
    BY <1>1, <1>3
  <2> QED
    BY <2>1, ElemsKept
<1>4. CASE SvlAsksVacancy
  <2>1. svl.pod \in Pods /\ CheckVacancies \in Elems(podQ'[svl.pod])
    BY <1>3, <1>4, PodTriggers DEF SvlAsksVacancy, SendToPod
  <2> QED
    BY <1>2, <1>4, <2>1
    DEF SvlAsksVacancy, CheckVacancies, WaitParts, Asked, HaltAsked, Emptied
<1>5. CASE SvlAsksWorker
  <2>1. CreateWorkerFor(svl.req) \in PodTrigger
    BY <1>5, PodTriggers DEF SvlAsksWorker, TypeInv, SvlTypeInv, SvlAtWork
  <2>2. svl.pod \in Pods /\ CreateWorkerFor(svl.req) \in Elems(podQ'[svl.pod])
    BY <1>3, <1>5, <2>1 DEF SvlAsksWorker, SendToPod
  <2> QED
    BY <1>2, <1>5, <2>2
    DEF SvlAsksWorker, CreateWorkerFor, WaitParts, Asked, HaltAsked, Emptied
<1>6. CASE SvlHaltsPod
  <2>1. svl.pod \in Pods /\ Halt \in Elems(podQ'[svl.pod])
    BY <1>3, <1>6, PodTriggers DEF SvlHaltsPod, SendToPod
  <2> QED
    BY <1>2, <1>6, <2>1 DEF SvlHaltsPod, Halt, WaitParts, Asked, HaltAsked, Emptied
<1>7. ASSUME svl'.pc \notin {"checkWait", "createWait", "haltWait"},
             svl'.pc = "exited" => svlQ' = <<>>
      PROVE  WaitParts'
  BY <1>2, <1>7 DEF WaitParts, Asked, HaltAsked, Emptied
<1>8. CASE SvlCreateNoCode \/ SvlCreate \/ SvlUpload \/ SvlRemove \/ SvlToPod \/ SvlCtrlC
  BY <1>7, <1>8 DEF SvlCreateNoCode, SvlCreate, SvlUpload, SvlRemove, SvlToPod, SvlCtrlC,
                    SvlReceived
<1>9. CASE SvlForward \/ SvlNoVacancy \/ SvlCreated \/ SvlPodHalted
  BY <1>7, <1>9 DEF SvlForward, SvlNoVacancy, SvlCreated, SvlPodHalted
<1>10. CASE SvlToldVacancy
  BY <1>7, <1>10 DEF SvlToldVacancy
<1>11. CASE SvlJoined
  BY <1>7, <1>11 DEF SvlJoined, DropQueue
<1> QED
  BY <1>4, <1>5, <1>6, <1>8, <1>9, <1>10, <1>11 DEF SvlStep

\* A pod answers the question it takes, and drains on the Halt it takes.
LEMMA PodWaitStep ==
  ASSUME FullInv, WaitInv, svl.pc # "failed",
         NEW p \in Pods, PodStep(p), UNCHANGED svlVars
  PROVE  WaitParts'
<1>1. /\ UNCHANGED <<svl, svlQ>> /\ Asked /\ HaltAsked /\ DrainEnds /\ Emptied
      /\ pod \in [Pods -> PodState] /\ podQ \in [Pods -> Seq(PodTrigger)]
      /\ \A q \in Pods : pod[q].at \in Nat /\ Len(table[q].workers) \in Nat
      /\ svl.pc \in {"checkWait", "haltWait"} => svl.pod \in Pods
  BY DEF WaitInv, WaitParts, svlVars, FullInv, TypeInv, PodTypeInv, PodTypeOK, PodState,
         TableType, SvlTypeInv, SvlAtWork
<1>2. Emptied'
  BY <1>1 DEF Emptied
<1>3. ASSUME podQ[p] # <<>>, podQ' = [podQ EXCEPT ![p] = Tail(@)]
      PROVE  \A q \in Pods : \A m \in Elems(podQ[q]) :
               m \in Elems(podQ'[q]) \/ (q = p /\ m = Head(podQ[p]))
  <2>1. \A m \in Elems(podQ[p]) : m = Head(podQ[p]) \/ m \in Elems(podQ'[p])
    BY <1>1, <1>3, ElemsKept
  <2>2. \A q \in Pods : q # p => podQ'[q] = podQ[q]
    BY <1>1, <1>3
  <2> QED
    BY <2>1, <2>2
<1>4. ASSUME UNCHANGED <<pod, table>> PROVE DrainEnds'
  BY <1>1, <1>4 DEF DrainEnds
<1>5. CASE PodCheckVacancies(p)
  <2>1. answer' # NoAnswer
    BY <1>5 DEF PodCheckVacancies, NoAnswer
  <2>2. Asked'
    BY <2>1 DEF Asked
  <2>3. HaltAsked'
    BY <1>1, <1>3, <1>5 DEF PodCheckVacancies, Received, HaltAsked
  <2> QED
    BY <1>2, <1>4, <1>5, <2>2, <2>3 DEF PodCheckVacancies, WaitParts
<1>6. CASE PodCreateWorker(p)
  <2>1. /\ podQ[p] # <<>> /\ podQ' = [podQ EXCEPT ![p] = Tail(@)] /\ pod' = pod
        /\ Head(podQ[p]).type = "create" /\ answer'.tag = "created"
        /\ Len(table'[p].workers) = Len(table[p].workers) + 1
        /\ \A q \in Pods : q # p => table'[q] = table[q]
    BY <1>6, CreationStep DEF FullInv
  <2>2. Asked'
    BY <2>1 DEF Asked, NoAnswer
  <2>3. HaltAsked'
    BY <1>1, <1>3, <2>1 DEF HaltAsked
  <2>4. DrainEnds'
    BY <1>1, <2>1 DEF DrainEnds
  <2> QED
    BY <1>2, <2>2, <2>3, <2>4 DEF WaitParts
<1>7. CASE PodForward(p)
  <2>1. /\ podQ[p] # <<>> /\ podQ' = [podQ EXCEPT ![p] = Tail(@)]
        /\ Head(podQ[p]).type = "toWorker" /\ UNCHANGED <<pod, table, answer>>
    BY <1>7 DEF PodForward, Received
  <2>2. Asked' /\ HaltAsked'
    BY <1>1, <1>3, <2>1 DEF Asked, HaltAsked
  <2> QED
    BY <1>2, <1>4, <2>1, <2>2 DEF WaitParts
<1>8. CASE PodHaltReceived(p)
  <2>1. /\ podQ[p] # <<>> /\ podQ' = [podQ EXCEPT ![p] = Tail(@)]
        /\ Head(podQ[p]).type = "halt" /\ UNCHANGED <<table, answer>>
        /\ pod' = [pod EXCEPT ![p] = [pc |-> "drain", at |-> 0]]
    BY <1>8 DEF PodHaltReceived, Received
  <2>2. pod'[p] = [pc |-> "drain", at |-> 0] /\ \A q \in Pods : q # p => pod'[q] = pod[q]
    BY <1>1, <2>1
  <2>3. Asked'
    BY <1>1, <1>3, <2>1 DEF Asked
  <2>4. HaltAsked'
    BY <1>1, <1>3, <2>1, <2>2 DEF HaltAsked
  <2>5. DrainEnds'
    BY <1>1, <2>1, <2>2 DEF DrainEnds
  <2> QED
    BY <1>2, <2>3, <2>4, <2>5 DEF WaitParts
<1>9. ASSUME NEW s \in {"drain", "drainWait", "exiting", "exited"}, NEW n \in Nat,
             pod' = [pod EXCEPT ![p] = [pc |-> s, at |-> n]], pod[p].pc # "recv",
             s = "drain" => n <= Len(table[p].workers),
             UNCHANGED <<podQ, table, answer>>
      PROVE  WaitParts'
  <2>1. pod'[p] = [pc |-> s, at |-> n] /\ \A q \in Pods : q # p => pod'[q] = pod[q]
    BY <1>1, <1>9
  <2>2. Asked'
    BY <1>1, <1>9 DEF Asked
  <2>3. HaltAsked'
    BY <1>1, <1>9, <2>1 DEF HaltAsked
  <2>4. DrainEnds'
    BY <1>1, <1>9, <2>1 DEF DrainEnds
  <2> QED
    BY <1>2, <2>2, <2>3, <2>4 DEF WaitParts
<1>10. CASE PodDrain(p)
  <2>1. /\ pod' = [pod EXCEPT ![p] = [pc |-> "drainWait", at |-> pod[p].at]]
        /\ pod[p].pc = "drain" /\ UNCHANGED <<podQ, table, answer>>
    BY <1>10 DEF PodDrain
  <2> QED
    BY <1>1, <1>9, <2>1
<1>11. CASE PodDrained(p)
  <2>1. /\ pod' = [pod EXCEPT ![p] = [pc |-> "drain", at |-> pod[p].at + 1]]
        /\ pod[p].pc = "drainWait" /\ UNCHANGED <<podQ, table, answer>>
    BY <1>11 DEF PodDrained
  <2>2. pod[p].at < Len(table[p].workers)
    BY <2>1 DEF FullInv, HaltInv, Drained, DrainedPod
  <2>3. pod[p].at + 1 \in Nat /\ pod[p].at + 1 <= Len(table[p].workers)
    BY <1>1, <2>2
  <2> QED
    BY <1>9, <2>1, <2>3
<1>12. CASE PodHalted(p)
  <2>1. /\ pod' = [pod EXCEPT ![p] = [pc |-> "exiting", at |-> pod[p].at]]
        /\ pod[p].pc = "drain" /\ UNCHANGED <<podQ, table, answer>>
    BY <1>12 DEF PodHalted
  <2> QED
    BY <1>1, <1>9, <2>1
<1>13. CASE PodExit(p)
  <2>1. /\ pod' = [pod EXCEPT ![p] = [pc |-> "exited", at |-> pod[p].at]]
        /\ pod[p].pc = "exiting" /\ UNCHANGED <<podQ, table, answer>>
    BY <1>13 DEF PodExit
  <2> QED
    BY <1>1, <1>9, <2>1
<1> QED
  BY <1>5, <1>6, <1>7, <1>8, <1>10, <1>11, <1>12, <1>13 DEF PodStep

LEMMA WaitStep == FullInv /\ WaitInv /\ [Next]_vars => WaitInv'
<1> SUFFICES ASSUME FullInv, WaitInv, [Next]_vars, svl'.pc # "failed" PROVE WaitParts'
  BY DEF WaitInv
<1>1. CASE UNCHANGED vars \/ Terminated
  <2>1. UNCHANGED <<svl, svlQ, answer, podQ, pod, table>>
    BY <1>1 DEF vars, svlVars, podVars, Terminated
  <2> QED
    BY <2>1, WaitUntouched DEF WaitInv
<1>2. ASSUME NEW c \in Reqs, ClientStep(c) \/ ClientGone(c) PROVE WaitParts'
  <2>1. UNCHANGED <<svl, answer, podQ, pod, table>>
    BY <1>2 DEF ClientStep, ClientSubmits, ClientFindsClosed, ClientBadBody, ClientUploaded,
                ClientNotCreated, ClientSendsHttp, ClientCannotSendHttp, ClientAnswered,
                ClientGone, podVars
  <2>2. svl.pc = "exited" => svlQ' = svlQ
    BY <1>2 DEF ClientStep, ClientSubmits, ClientFindsClosed, ClientBadBody, ClientUploaded,
                ClientNotCreated, ClientSendsHttp, ClientCannotSendHttp, ClientAnswered,
                ClientGone, Send, SvlOpen
  <2> QED
    BY <2>1, <2>2, WaitUntouched DEF WaitInv
<1>3. CASE SvlStep \/ SvlCtrlC
  BY <1>3, SvlWaitStep DEF FullInv
<1>4. ~ SvlServerExits
  BY DEF SvlServerExits, SvlAt
<1>5. ASSUME NEW p \in Pods, PodStep(p), UNCHANGED svlVars PROVE WaitParts'
  BY <1>5, PodWaitStep DEF svlVars
<1>6. ASSUME NEW w \in Reqs, WorkerStep(w) \/ WorkerEvent(w), UNCHANGED svlVars
      PROVE  WaitParts'
  <2>1. UNCHANGED <<svl, svlQ>>
    BY <1>6 DEF svlVars
  <2>2. UNCHANGED <<answer, podQ, pod, table>>
    BY <1>6 DEF WorkerStep, WorkerEvent, WorkerReady, WorkerStartFails, WorkerHoldsHttp,
                WorkerIgnoresHttp, WorkerFailsHttp, WorkerFailsKept, WorkerHalts, LeaveLoop,
                WorkerReplies, WorkerCloses, MonitorKills
  <2> QED
    BY <2>1, <2>2, WaitUntouched DEF WaitInv, svlVars
<1>7. UNCHANGED svlVars => svl.pc # "failed"
  BY DEF svlVars
<1> QED
  BY <1>1, <1>2, <1>3, <1>4, <1>5, <1>6, <1>7 DEF Next, PodTurn

LEMMA Waiting == Spec => []WaitInv
<1>1. FullInv /\ WaitInv /\ [Next]_vars => WaitInv'
  BY WaitStep
<1> QED
  BY <1>1, WaitInit, FullInvariant, PTL DEF Spec

\* Whose channel is full has a worker that takes from it.
LEMMA WorkerWithRoomOrMoving ==
  ASSUME TypeInv, NEW w \in Reqs \cup {None}
  PROVE  Accepts(w) \/ \E u \in Reqs : WorkerMoves(u)
<1> SUFFICES ASSUME Listening(w), ~ (Len(wq[w]) < WorkerCap) PROVE WorkerMoves(w) /\ w \in Reqs
  BY DEF Accepts
<1>1. w \in Reqs /\ wq[w] \in Seq(WorkerTrigger)
  BY DEF Listening, TypeInv, PodTypeInv, PodTypeOK
<1>2. wq[w] # <<>>
  BY <1>1, PodAssumption
<1> QED
  BY <1>1, <1>2 DEF Listening, WorkerMoves

\* A pod at its loop takes the next trigger, unless a worker has to make room.
LEMMA PodTakesNext ==
  ASSUME TypeInv, Inv, NEW p \in Pods, pod[p].pc = "recv", podQ[p] # <<>>
  PROVE  PodMoves(p) \/ \E u \in Reqs : WorkerMoves(u)
<1>1. Head(podQ[p]) \in PodTrigger /\ podQ[p] \in Seq(PodTrigger)
  BY DEF TypeInv, PodTypeInv, PodTypeOK
<1>2. CASE Head(podQ[p]).type = "toWorker"
  <2> DEFINE w == GetWorker(table[p], Head(podQ[p]).id)
  <2>1. w \in Reqs \cup {None}
    <3>1. Head(podQ[p]).id \in Nat
      BY <1>1, <1>2 DEF PodTrigger
    <3>2. table[p].workers \in Seq(Reqs \cup {None})
      BY DEF TypeInv, PodTypeInv, PodTypeOK, TableType
    <3> QED
      BY <3>1, <3>2 DEF GetWorker
  <2> HIDE DEF w
  <2>2. Accepts(w) \/ \E u \in Reqs : WorkerMoves(u)
    BY <2>1, WorkerWithRoomOrMoving
  <2> QED
    BY <2>2 DEF PodMoves, w
<1> QED
  BY <1>2 DEF PodMoves

\* What is sent to a pod at its loop is sent, or the pod goes on first.
LEMMA PodHasRoomOrMoves ==
  ASSUME TypeInv, Inv, NEW p \in Pods, pod[p].pc = "recv"
  PROVE  \/ Len(podQ[p]) < PodCap
         \/ PodMoves(p)
         \/ \E u \in Reqs : WorkerMoves(u)
<1> SUFFICES ASSUME ~ (Len(podQ[p]) < PodCap) PROVE podQ[p] # <<>>
  BY PodTakesNext
<1> QED
  BY PodAssumption

\* A pod that drains goes on, or the worker it halts does.
LEMMA DrainingMoves ==
  ASSUME FullInv, WaitInv, svl.pc # "failed", NEW p \in Pods,
         pod[p].pc \in {"drain", "drainWait", "exiting"}
  PROVE  PodMoves(p) \/ \E u \in Reqs : WorkerMoves(u)
<1> DEFINE slots == table[p].workers
<1> DEFINE at == pod[p].at
<1> DEFINE v == slots[at + 1]
<1>1. /\ TypeInv /\ TablesFilled /\ DrainedPod(p) /\ DrainEnds
      /\ at \in Nat /\ Len(slots) \in Nat /\ GoneQueueless
  BY DEF FullInv, Inv, HaltInv, Drained, WaitInv, WaitParts, TypeInv, PodTypeInv, PodTypeOK,
         PodState, TableType, FlowInv
<1>2. at < Len(slots) => v \in Reqs
  BY <1>1, SlotFilled
<1> HIDE DEF v
<1>3. CASE pod[p].pc = "drain"
  <2>1. at = Len(slots) \/ at < Len(slots)
    BY <1>1, <1>3 DEF DrainEnds
  <2>2. at < Len(slots) => Accepts(v) \/ \E u \in Reqs : WorkerMoves(u)
    BY <1>1, <1>2, WorkerWithRoomOrMoving
  <2> QED
    BY <1>3, <2>1, <2>2 DEF PodMoves, v
<1>4. CASE pod[p].pc = "drainWait"
  <2>1. at < Len(slots) /\ v \in Reqs /\ (Left(v) \/ PodHalt \in Elems(wq[v]))
    BY <1>1, <1>2, <1>4 DEF DrainedPod, v
  <2>2. CASE PodHalt \in Elems(wq[v])
    <3>1. wq[v] # <<>> /\ Listening(v)
      BY <1>1, <2>1, <2>2 DEF Elems, GoneQueueless
    <3> QED
      BY <2>1, <3>1 DEF Listening, WorkerMoves
  <2>3. CASE PodHalt \notin Elems(wq[v])
    BY <1>4, <2>1, <2>3, PodAssumption DEF PodMoves, v
  <2> QED
    BY <2>2, <2>3
<1> QED
  BY <1>3, <1>4 DEF PodMoves

Going == SvlMoves \/ (\E p \in Pods : PodMoves(p)) \/ (\E u \in Reqs : WorkerMoves(u))

\* The serverless task in the middle of a trigger.
LEMMA TriggerGoesOn ==
  ASSUME FullInv, WaitInv,
         svl.pc \in {"check", "checkWait", "create", "createWait", "toPod"}
  PROVE  Going
<1>1. /\ TypeInv /\ Inv /\ Asked /\ \A p \in Pods : pod[p].pc = "recv"
      /\ svl.pod \in 0 .. NPods
  BY DEF FullInv, WaitInv, WaitParts, HaltInv, HaltingPods, TypeInv, SvlTypeInv, SvlTypeOK,
         SvlState
<1>2. CASE svl.pc \in {"check", "create", "toPod"}
  <2>1. svl.pc = "check" => svl.pod \in Pods \/ svl.pod = NPods
    BY <1>1, PodAssumption DEF Pods
  <2>2. svl.pc \in {"create", "toPod"} => svl.pod \in Pods
    BY <1>1 DEF Inv, AnswersInTurn, RoutesPlaced, HasRoom, Placed, PlacedIn
  <2>3. svl.pod \in Pods => \/ Len(podQ[svl.pod]) < PodCap
                            \/ PodMoves(svl.pod)
                            \/ \E u \in Reqs : WorkerMoves(u)
    BY <1>1, PodHasRoomOrMoves
  <2> QED
    BY <1>2, <2>1, <2>2, <2>3 DEF Going, SvlMoves
<1>3. CASE svl.pc \in {"checkWait", "createWait"} /\ answer = NoAnswer
  <2>1. svl.pod \in Pods /\ podQ[svl.pod] # <<>>
    BY <1>1, <1>3 DEF Asked, Elems
  <2> QED
    BY <1>1, <2>1, PodTakesNext DEF Going
<1>4. CASE svl.pc \in {"checkWait", "createWait"} /\ answer # NoAnswer
  <2>1. svl.pc = "checkWait" => answer.tag \in {"yes", "no"}
    BY <1>1, <1>4 DEF Inv, AnswersInTurn, TypeInv, PodTypeInv, PodTypeOK, Answers
  <2> QED
    BY <1>4, <2>1 DEF Going, SvlMoves
<1> QED
  BY <1>2, <1>3, <1>4

\* The serverless task in the middle of the shutdown.
LEMMA ShutdownGoesOn ==
  ASSUME FullInv, WaitInv, svl.pc \in {"halt", "haltWait"}
  PROVE  Going
<1>1. /\ TypeInv /\ Inv /\ HaltAsked /\ HaltingPods /\ svl.pod \in 0 .. NPods
      /\ svl.pc = "haltWait" => svl.pod \in Pods
      /\ \A p \in Pods : pod[p].pc \in {"recv", "drain", "drainWait", "exiting", "exited"}
  BY DEF FullInv, WaitInv, WaitParts, HaltInv, TypeInv, SvlTypeInv, SvlTypeOK, SvlState,
         SvlAtWork, PodTypeInv, PodTypeOK, PodState
<1>2. CASE svl.pc = "halt" /\ svl.pod \in Pods
  <2>1. pod[svl.pod].pc = "recv"
    BY <1>1, <1>2, PodAssumption DEF HaltingPods, Pods
  <2> QED
    BY <1>1, <1>2, <2>1, PodHasRoomOrMoves DEF Going, SvlMoves
<1>3. CASE svl.pc = "halt" /\ svl.pod = NPods
  <2>1. \A p \in Pods : pod[p].pc \in {"exiting", "exited"}
    BY <1>1, <1>3, PodAssumption DEF HaltingPods, Pods
  <2>2. \A p \in Pods : pod[p].pc = "exiting" => PodMoves(p)
    BY DEF PodMoves
  <2> QED
    BY <1>3, <2>1, <2>2 DEF Going, SvlMoves
<1>4. CASE svl.pc = "haltWait" /\ pod[svl.pod].pc = "recv"
  <2>1. podQ[svl.pod] # <<>>
    BY <1>1, <1>4 DEF HaltAsked, Elems
  <2> QED
    BY <1>1, <1>4, <2>1, PodTakesNext DEF Going
<1>5. CASE svl.pc = "haltWait" /\ pod[svl.pod].pc \in {"exiting", "exited"}
  BY <1>5 DEF Going, SvlMoves
<1>6. CASE svl.pc = "haltWait" /\ pod[svl.pod].pc \in {"drain", "drainWait"}
  BY <1>1, <1>6, DrainingMoves DEF Going
<1>7. svl.pod \in Pods \/ svl.pod = NPods
  BY <1>1, PodAssumption DEF Pods
<1> QED
  BY <1>1, <1>2, <1>3, <1>4, <1>5, <1>6, <1>7

\* A request on its way, with the serverless task at rest.
LEMMA RequestGoesOn ==
  ASSUME FullInv, WaitInv, svl.pc \in {"select", "exited"},
         NEW c \in Reqs, Somewhere(c), c \notin held[c]
  PROVE  Going
<1>1. /\ TypeInv /\ Inv /\ HaltingPods /\ Emptied /\ GoneQueueless
      /\ svl.req = None /\ None \notin Reqs
  BY PodAssumption DEF FullInv, WaitInv, WaitParts, HaltInv, FlowInv, Resting
<1>2. CASE InSvlQ(c)
  <2>1. svlQ # <<>>
    BY <1>2 DEF InSvlQ, Elems
  <2> QED
    BY <1>1, <2>1 DEF Emptied, Going, SvlMoves
<1>3. CASE InPodQ(c)
  <2>1. PICK p \in Pods : podQ[p] # <<>>
    BY <1>3 DEF InPodQ, Elems
  <2>2. pod[p].pc = "recv"
    BY <1>1, <2>1 DEF HaltingPods
  <2> QED
    BY <1>1, <2>1, <2>2, PodTakesNext DEF Going
<1>4. CASE InWorkerQ(c)
  <2>1. PICK w \in Reqs : wq[w] # <<>>
    BY <1>4 DEF InWorkerQ, Elems
  <2>2. WorkerMoves(w)
    BY <1>1, <2>1 DEF GoneQueueless, Listening, WorkerMoves
  <2> QED
    BY <2>2 DEF Going
<1>5. ~ IsHeld(c)
  BY <1>1 DEF IsHeld, Inv, OwnTriggers
<1> QED
  BY <1>1, <1>2, <1>3, <1>4, <1>5 DEF Somewhere

LEMMA SomebodyMoves == FullInv /\ WaitInv /\ NotOrphaned => NoCircularWait
<1> SUFFICES ASSUME FullInv, WaitInv, NotOrphaned, svl.pc # "failed", Unfinished PROVE Going
  BY DEF NoCircularWait, Going
<1>1. svl.pc \in {"select", "check", "checkWait", "create", "createWait", "toPod", "halt",
                  "haltWait", "exited"}
  BY DEF FullInv, TypeInv, SvlTypeInv, SvlTypeOK, SvlState
<1>2. CASE svl.pc \in {"select", "exited"}
  <2>1. PICK c \in Reqs : reply[c] = "pending" /\ c \notin held[c]
    BY <1>2 DEF Unfinished
  <2>2. Somewhere(c)
    BY <2>1 DEF NotOrphaned, Expected
  <2> QED
    BY <1>2, <2>1, <2>2, RequestGoesOn
<1> QED
  BY <1>1, <1>2, TriggerGoesOn, ShutdownGoesOn

(***************************************************************************)
(* Handlers, the serverless task, pods and workers never all wait for each *)
(* other, whatever the numbers of pods and workers and the capacities of   *)
(* the channels: as long as something is asked of the control plane that   *)
(* user code does not hold, one of its tasks can go on.                    *)
(***************************************************************************)
THEOREM SomebodyGoesOn == Spec => []NoCircularWait
<1>1. Init => NotOrphaned
  BY DEF Init, PodInit, NotOrphaned, Expected
<1>2. FullInv /\ NotOrphaned /\ [Next]_vars => NotOrphaned'
  BY ExpectsStep
<1> QED
  BY <1>1, <1>2, SomebodyMoves, FullInvariant, Waiting, PTL DEF Spec

-----------------------------------------------------------------------------
(***************************************************************************)
(* The work left is a natural number, and every step shrinks it.  For a    *)
(* pod that is because the drain stays within its slots, whoever sent the  *)
(* Halt: a pod that drains creates no worker.                              *)
(***************************************************************************)
DrainsWithin ==
  \A p \in Pods :
    /\ pod[p].pc = "drain" => pod[p].at <= Len(table[p].workers)
    /\ pod[p].pc = "drainWait" => pod[p].at < Len(table[p].workers)

WorkInv == TypeInv /\ Inv /\ DrainsWithin

LEMMA PodDrainsWithin ==
  ASSUME TypeInv, DrainsWithin, NEW p \in Pods, PodStep(p) \/ PodAbandoned(p)
  PROVE  DrainsWithin'
<1>1. /\ pod \in [Pods -> PodState] /\ table \in [Pods -> TableType]
      /\ \A q \in Pods : pod[q].at \in Nat /\ Len(table[q].workers) \in Nat
  BY DEF TypeInv, PodTypeInv, PodTypeOK, PodState, TableType
<1>2. ASSUME pod' = pod, pod[p].pc = "recv", \A q \in Pods : q # p => table'[q] = table[q]
      PROVE  DrainsWithin'
  BY <1>2 DEF DrainsWithin
<1>3. ASSUME UNCHANGED table, NEW s \in {"drain", "drainWait", "exiting", "exited"}, NEW n \in Nat,
             pod' = [pod EXCEPT ![p] = [pc |-> s, at |-> n]],
             s = "drain" => n <= Len(table[p].workers),
             s = "drainWait" => n < Len(table[p].workers)
      PROVE  DrainsWithin'
  <2>1. pod'[p].pc = s /\ pod'[p].at = n /\ \A q \in Pods : q # p => pod'[q] = pod[q]
    BY <1>1, <1>3
  <2> QED
    BY <1>3, <2>1 DEF DrainsWithin
<1>4. CASE PodCheckVacancies(p) \/ PodForward(p) \/ PodCreateWorker(p)
  BY <1>1, <1>2, <1>4 DEF PodCheckVacancies, PodForward, PodCreateWorker, Received
<1>5. CASE PodHaltReceived(p)
  <2>1. 0 \in Nat /\ 0 <= Len(table[p].workers)
    BY <1>1
  <2>2. UNCHANGED table /\ pod' = [pod EXCEPT ![p] = [pc |-> "drain", at |-> 0]]
    BY <1>5 DEF PodHaltReceived
  <2> QED
    BY <1>3, <2>1, <2>2
<1>6. CASE PodDrain(p)
  BY <1>1, <1>3, <1>6 DEF PodDrain
<1>7. CASE PodDrained(p)
  <2>1. /\ pod[p].at < Len(table[p].workers) /\ UNCHANGED table
        /\ pod' = [pod EXCEPT ![p] = [pc |-> "drain", at |-> pod[p].at + 1]]
    BY <1>1, <1>7 DEF PodDrained, DrainsWithin
  <2>2. pod[p].at + 1 \in Nat /\ pod[p].at + 1 <= Len(table[p].workers)
    BY <1>1, <2>1
  <2> QED
    BY <1>3, <2>1, <2>2
<1>8. CASE PodHalted(p) \/ PodExit(p) \/ PodAbandoned(p)
  BY <1>1, <1>3, <1>8 DEF PodHalted, PodExit, PodAbandoned
<1> QED
  BY <1>4, <1>5, <1>6, <1>7, <1>8 DEF PodStep

LEMMA DrainsWithinStep == TypeInv /\ DrainsWithin /\ [Next]_vars => DrainsWithin'
<1> SUFFICES ASSUME TypeInv, DrainsWithin, [Next]_vars PROVE DrainsWithin'
  OBVIOUS
<1>1. ASSUME UNCHANGED <<pod, table>> PROVE DrainsWithin'
  BY <1>1 DEF DrainsWithin
<1>2. CASE UNCHANGED vars \/ Terminated
  BY <1>1, <1>2 DEF vars, podVars, Terminated
<1>3. ASSUME NEW c \in Reqs, ClientStep(c) \/ ClientGone(c) PROVE UNCHANGED <<pod, table>>
  BY <1>3 DEF ClientStep, ClientSubmits, ClientFindsClosed, ClientBadBody, ClientUploaded,
              ClientNotCreated, ClientSendsHttp, ClientCannotSendHttp, ClientAnswered,
              ClientGone, podVars
<1>4. ASSUME SvlStep \/ SvlCtrlC \/ SvlServerExits PROVE UNCHANGED <<pod, table>>
  BY <1>4 DEF SvlStep, SvlCtrlC, SvlServerExits, SvlCreateNoCode, SvlCreate, SvlUpload,
         SvlRemove, SvlToPod, SvlForward, SvlAsksVacancy, SvlToldVacancy, SvlNoVacancy,
         SvlAsksWorker, SvlCreated, SvlHaltsPod, SvlPodHalted, SvlJoined, SvlUnchangedPods,
         podVars
<1>5. ASSUME NEW w \in Reqs, WorkerStep(w) \/ WorkerEvent(w) PROVE UNCHANGED <<pod, table>>
  BY <1>5 DEF WorkerStep, WorkerEvent, WorkerReady, WorkerStartFails, WorkerHoldsHttp,
              WorkerIgnoresHttp, WorkerFailsHttp, WorkerFailsKept, WorkerHalts, LeaveLoop,
              WorkerReplies, WorkerCloses, MonitorKills
<1> QED
  BY <1>1, <1>2, <1>3, <1>4, <1>5, PodDrainsWithin DEF Next, PodTurn

LEMMA PodsWork ==
  ASSUME WorkInv, NEW p \in Pods
  PROVE  /\ pod[p].at \in Nat /\ Len(table[p].workers) \in 0 .. NWorkers
         /\ pod[p].pc = "drain" => pod[p].at <= Len(table[p].workers)
         /\ pod[p].pc = "drainWait" => pod[p].at + 1 <= Len(table[p].workers)
         /\ podQ[p] \in Seq(PodTrigger) /\ Len(podQ[p]) \in Nat
         /\ pod[p].pc \in {"recv", "drain", "drainWait", "exiting", "exited"}
         /\ PodWork(p) \in Nat
<1>1. /\ pod[p] \in PodState /\ table[p] \in TableType /\ podQ[p] \in Seq(PodTrigger)
      /\ Len(table[p].workers) <= NWorkers
  BY DEF WorkInv, TypeInv, PodTypeInv, PodTypeOK, Inv, TablesFilled
<1>2. /\ pod[p].at \in Nat /\ Len(table[p].workers) \in 0 .. NWorkers /\ Len(podQ[p]) \in Nat
      /\ pod[p].pc \in {"recv", "drain", "drainWait", "exiting", "exited"}
  BY <1>1, NWorkersAssumption DEF PodState, TableType
<1>3. /\ pod[p].pc = "drain" => pod[p].at <= Len(table[p].workers)
      /\ pod[p].pc = "drainWait" => pod[p].at < Len(table[p].workers)
  BY DEF WorkInv, DrainsWithin
<1>4. PodWork(p) \in Nat
  <2>1. CASE pod[p].pc = "recv"
    BY <1>2, <2>1, NWorkersAssumption DEF PodWork
  <2>2. CASE pod[p].pc = "drain"
    BY <1>2, <1>3, <2>2 DEF PodWork
  <2>3. CASE pod[p].pc = "drainWait"
    BY <1>2, <1>3, <2>3 DEF PodWork
  <2>4. CASE pod[p].pc \in {"exiting", "exited"}
    BY <2>4 DEF PodWork
  <2> QED
    BY <1>2, <2>1, <2>2, <2>3, <2>4
<1> QED
  BY <1>1, <1>2, <1>3, <1>4

LEMMA WorkersWork ==
  ASSUME WorkInv, NEW w \in Reqs
  PROVE  wq[w] \in Seq(WorkerTrigger) /\ Len(wq[w]) \in Nat /\ WorkerWork(w) \in Nat
<1>1. wq[w] \in Seq(WorkerTrigger) /\ worker[w] \in Lives
  BY DEF WorkInv, TypeInv, PodTypeInv, PodTypeOK
<1>2. Len(wq[w]) \in Nat
  BY <1>1
<1>3. PICK k \in {0, 3}, h \in {0, 1} :
        WorkerWork(w) = CASE worker[w] = "starting" -> 3 + (2 * Len(wq[w]) + k) + h
                          [] worker[w] = "ready" -> 2 + (2 * Len(wq[w]) + k) + h
                          [] worker[w] = "closing" -> 1 + h
                          [] OTHER -> 0
  BY DEF WorkerWork
<1>4. WorkerWork(w) \in Nat
  <2> DEFINE queued == 2 * Len(wq[w]) + k
  <2>1. queued \in Nat
    BY <1>2
  <2>2. WorkerWork(w) \in {3 + queued + h, 2 + queued + h, 1 + h, 0}
    BY <1>3
  <2> HIDE DEF queued
  <2> QED
    BY <2>1, <2>2
<1> QED
  BY <1>1, <1>2, <1>4

\* The serverless task: what it takes up is less than what it had to take up.
LEMMA SvlWorkStep ==
  ASSUME WorkInv, SvlStep \/ SvlCtrlC \/ SvlServerExits
  PROVE  TasksRunDown
<1> USE DEF Selecting, SvlAt
<1>1. /\ svlQ \in Seq(ServerlessTrigger) /\ svl \in SvlState /\ NPods \in Nat
      /\ svl.pod \in 0 .. NPods
      /\ svl.pc \in {"checkWait", "haltWait"} => svl.pod \in 0 .. NPods - 1
  BY PodAssumption DEF WorkInv, TypeInv, SvlTypeInv, SvlTypeOK, SvlState, SvlAtWork, Pods
<1>2. Len(svlQ) \in Nat
  BY <1>1
<1>3. ASSUME svl.pc = "select", svlQ # <<>>, svlQ' = Tail(svlQ),
             svl'.pc \notin {"halt", "haltWait", "exited", "failed"}
      PROVE  TasksRunDown
  <2>1. Len(svlQ') = Len(svlQ) - 1 /\ Len(svlQ) >= 1
    BY <1>1, <1>2, <1>3
  <2>2. Backlog = 1 + Len(svlQ) /\ Backlog' = 1 + Len(svlQ')
    BY <1>3 DEF Backlog
  <2> QED
    BY <1>2, <2>1, <2>2 DEF TasksRunDown
<1>4. ASSUME svl.pc = "select", svl'.pc \in {"halt", "failed"}
      PROVE  TasksRunDown
  <2>1. Backlog = 1 + Len(svlQ) /\ Backlog' = 0
    BY <1>4 DEF Backlog
  <2> QED
    BY <1>2, <2>1 DEF TasksRunDown
<1>5. ASSUME NEW m \in Nat, NEW n \in Nat, n < m, Backlog' = Backlog, SvlWork = m, SvlWork' = n
      PROVE  TasksRunDown
  BY <1>5 DEF TasksRunDown
<1>6. CASE SvlCreateNoCode \/ SvlCreate \/ SvlUpload \/ SvlRemove \/ SvlToPod
  BY <1>3, <1>6 DEF SvlCreateNoCode, SvlCreate, SvlUpload, SvlRemove, SvlToPod, SvlReceived
<1>7. CASE SvlCtrlC \/ SvlServerExits
  BY <1>4, <1>7 DEF SvlCtrlC, SvlServerExits
<1>8. CASE SvlForward
  <2>1. Backlog' = Backlog
    BY <1>8 DEF SvlForward, Backlog
  <2>2. SvlWork = 1
    BY <1>8 DEF SvlForward, SvlWork
  <2>3. SvlWork' = 0
    BY <1>8 DEF SvlForward, SvlWork
  <2> QED
    BY <1>1, <1>5, <2>1, <2>2, <2>3
<1>9. CASE SvlAsksVacancy
  <2>4. svl.pod \in 0 .. NPods - 1
    BY <1>9 DEF SvlAsksVacancy, SendToPod, Pods
  <2>1. Backlog' = Backlog
    BY <1>9 DEF SvlAsksVacancy, Backlog
  <2>2. SvlWork = 3 + 2 * (NPods - svl.pod)
    BY <1>9 DEF SvlAsksVacancy, SvlWork
  <2>3. SvlWork' = 2 + 2 * (NPods - svl.pod)
    BY <1>9 DEF SvlAsksVacancy, SvlWork
  <2> QED
    BY <1>1, <1>5, <2>1, <2>2, <2>3, <2>4
<1>10. CASE SvlToldVacancy
  <2>1. Backlog' = Backlog
    BY <1>10 DEF SvlToldVacancy, Backlog
  <2>2. SvlWork = 2 + 2 * (NPods - svl.pod) /\ svl.pod \in 0 .. NPods - 1
    BY <1>1, <1>10 DEF SvlToldVacancy, SvlWork
  <2>3. SvlWork' = 2 \/ SvlWork' = 3 + 2 * (NPods - (svl.pod + 1))
    BY <1>10 DEF SvlToldVacancy, SvlWork
  <2> QED
    BY <1>1, <1>5, <2>1, <2>2, <2>3
<1>11. CASE SvlNoVacancy
  <2>1. Backlog' = Backlog
    BY <1>11 DEF SvlNoVacancy, Backlog
  <2>2. SvlWork = 3 + 2 * (NPods - NPods)
    BY <1>11 DEF SvlNoVacancy, SvlWork
  <2>3. SvlWork' = 0
    BY <1>11 DEF SvlNoVacancy, SvlWork
  <2> QED
    BY <1>1, <1>5, <2>1, <2>2, <2>3
<1>12. CASE SvlAsksWorker
  <2>1. Backlog' = Backlog
    BY <1>12 DEF SvlAsksWorker, Backlog
  <2>2. SvlWork = 2
    BY <1>12 DEF SvlAsksWorker, SvlWork
  <2>3. SvlWork' = 1
    BY <1>12 DEF SvlAsksWorker, SvlWork
  <2> QED
    BY <1>1, <1>5, <2>1, <2>2, <2>3
<1>13. CASE SvlCreated
  <2>1. Backlog' = Backlog
    BY <1>13 DEF SvlCreated, Backlog
  <2>2. SvlWork = 1
    BY <1>13 DEF SvlCreated, SvlWork
  <2>3. SvlWork' = 0
    BY <1>13 DEF SvlCreated, SvlWork
  <2> QED
    BY <1>1, <1>5, <2>1, <2>2, <2>3
<1>14. CASE SvlHaltsPod
  <2>4. svl.pod \in 0 .. NPods - 1
    BY <1>14 DEF SvlHaltsPod, SendToPod, Pods
  <2>1. Backlog' = Backlog
    BY <1>14 DEF SvlHaltsPod, Backlog
  <2>2. SvlWork = 1 + 2 * (NPods - svl.pod)
    BY <1>14 DEF SvlHaltsPod, SvlWork
  <2>3. SvlWork' = 2 * (NPods - svl.pod)
    BY <1>14 DEF SvlHaltsPod, SvlWork
  <2> QED
    BY <1>1, <1>5, <2>1, <2>2, <2>3, <2>4
<1>15. CASE SvlPodHalted
  <2>1. Backlog' = Backlog
    BY <1>15 DEF SvlPodHalted, Backlog
  <2>2. SvlWork = 2 * (NPods - svl.pod) /\ svl.pod \in 0 .. NPods - 1
    BY <1>1, <1>15 DEF SvlPodHalted, SvlWork
  <2>3. SvlWork' = 1 + 2 * (NPods - (svl.pod + 1))
    BY <1>15 DEF SvlPodHalted, SvlWork
  <2> QED
    BY <1>1, <1>5, <2>1, <2>2, <2>3
<1>16. CASE SvlJoined
  <2>1. Backlog' = Backlog
    BY <1>16 DEF SvlJoined, Backlog
  <2>2. SvlWork = 1 + 2 * (NPods - NPods)
    BY <1>16 DEF SvlJoined, SvlWork
  <2>3. SvlWork' = 0
    BY <1>16 DEF SvlJoined, SvlWork
  <2> QED
    BY <1>1, <1>5, <2>1, <2>2, <2>3
<1> QED
  BY <1>6, <1>7, <1>8, <1>9, <1>10, <1>11, <1>12, <1>13, <1>14, <1>15, <1>16 DEF SvlStep

\* A pod: what it forwards, it had in its channel; the drain goes slot by slot.
LEMMA PodWorkStep ==
  ASSUME WorkInv, NEW p \in Pods, PodStep(p) \/ PodAbandoned(p), UNCHANGED svlVars
  PROVE  TasksRunDown
<1>1. Backlog' = Backlog /\ SvlWork' = SvlWork
  BY DEF svlVars, Backlog, SvlWork
<1>2. /\ pod \in [Pods -> PodState] /\ podQ \in [Pods -> Seq(PodTrigger)]
      /\ table \in [Pods -> TableType] /\ NWorkers \in Nat
  BY NWorkersAssumption DEF WorkInv, TypeInv, PodTypeInv, PodTypeOK
<1>3. /\ pod[p].at \in Nat /\ Len(table[p].workers) \in 0 .. NWorkers
      /\ pod[p].pc = "drain" => pod[p].at <= Len(table[p].workers)
      /\ pod[p].pc = "drainWait" => pod[p].at + 1 <= Len(table[p].workers)
      /\ podQ[p] \in Seq(PodTrigger) /\ Len(podQ[p]) \in Nat /\ PodWork(p) \in Nat
  BY PodsWork
<1>4. ASSUME \A q \in Pods : q # p => pod'[q] = pod[q] /\ podQ'[q] = podQ[q] /\ table'[q] = table[q],
             NEW m \in Nat, NEW n \in Nat, n < m, PodWork(p) = m, PodWork(p)' = n
      PROVE  TasksRunDown
  <2>1. \A q \in Pods : q # p => PodWork(q)' = PodWork(q) /\ PodWork(q) \in Nat
    BY <1>4, PodsWork DEF PodWork
  <2>2. /\ \A q \in Pods : PodWork(q)' \in 0 .. PodWork(q)
        /\ PodWork(p)' # PodWork(p)
    BY <1>4, <2>1
  <2> QED
    BY <1>1, <2>2 DEF TasksRunDown
<1>5. CASE PodCheckVacancies(p) \/ PodForward(p) \/ PodCreateWorker(p)
  <2>1. /\ pod[p].pc = "recv" /\ podQ[p] # <<>> /\ pod' = pod
        /\ podQ' = [podQ EXCEPT ![p] = Tail(@)]
        /\ \A q \in Pods : q # p => table'[q] = table[q]
    BY <1>2, <1>5 DEF PodCheckVacancies, PodForward, PodCreateWorker, Received
  <2>2. Len(podQ'[p]) = Len(podQ[p]) - 1 /\ \A q \in Pods : q # p => podQ'[q] = podQ[q]
    BY <1>2, <1>3, <2>1
  <2>3. PodWork(p) = 3 + 2 * NWorkers + Len(podQ[p])
    BY <2>1 DEF PodWork
  <2>4. PodWork(p)' = 3 + 2 * NWorkers + Len(podQ'[p])
    BY <2>1 DEF PodWork
  <2>5. /\ 3 + 2 * NWorkers + Len(podQ[p]) \in Nat
        /\ 3 + 2 * NWorkers + Len(podQ'[p]) \in Nat
        /\ 3 + 2 * NWorkers + Len(podQ'[p]) < 3 + 2 * NWorkers + Len(podQ[p])
    BY <1>2, <1>3, <2>1, <2>2
  <2> QED
    BY <1>4, <2>1, <2>2, <2>3, <2>4, <2>5
<1>6. ASSUME NEW s \in {"drain", "drainWait", "exiting", "exited"}, NEW n \in Nat,
             pod' = [pod EXCEPT ![p] = [pc |-> s, at |-> n]], table' = table,
             \/ podQ' = podQ
             \/ podQ' = [podQ EXCEPT ![p] = Tail(@)]
      PROVE  /\ pod'[p] = [pc |-> s, at |-> n]
             /\ \A q \in Pods : q # p => pod'[q] = pod[q] /\ podQ'[q] = podQ[q]
                                         /\ table'[q] = table[q]
  BY <1>2, <1>6
<1>7. CASE PodHaltReceived(p)
  <2>1. /\ pod[p].pc = "recv" /\ table' = table /\ podQ' = [podQ EXCEPT ![p] = Tail(@)]
        /\ pod' = [pod EXCEPT ![p] = [pc |-> "drain", at |-> 0]]
    BY <1>7 DEF PodHaltReceived, Received
  <2>2. /\ pod'[p] = [pc |-> "drain", at |-> 0]
        /\ \A q \in Pods : q # p => pod'[q] = pod[q] /\ podQ'[q] = podQ[q] /\ table'[q] = table[q]
    BY <1>3, <1>6, <2>1
  <2>3. PodWork(p) = 3 + 2 * NWorkers + Len(podQ[p])
    BY <2>1 DEF PodWork
  <2>4. PodWork(p)' = 2 + 2 * (Len(table[p].workers) - 0)
    BY <2>1, <2>2 DEF PodWork
  <2> QED
    BY <1>2, <1>3, <1>4, <2>1, <2>2, <2>3, <2>4
<1>8. CASE PodDrain(p)
  <2>1. /\ pod[p].pc = "drain" /\ UNCHANGED <<table, podQ>> /\ pod[p].at < Len(table[p].workers)
        /\ pod' = [pod EXCEPT ![p] = [pc |-> "drainWait", at |-> pod[p].at]]
    BY <1>8 DEF PodDrain
  <2>2. /\ pod'[p] = [pc |-> "drainWait", at |-> pod[p].at]
        /\ \A q \in Pods : q # p => pod'[q] = pod[q] /\ podQ'[q] = podQ[q] /\ table'[q] = table[q]
    BY <1>3, <1>6, <2>1
  <2>3. PodWork(p) = 2 + 2 * (Len(table[p].workers) - pod[p].at)
    BY <2>1 DEF PodWork
  <2>4. PodWork(p)' = 1 + 2 * (Len(table[p].workers) - pod[p].at)
    BY <2>1, <2>2 DEF PodWork
  <2> QED
    BY <1>2, <1>3, <1>4, <2>1, <2>2, <2>3, <2>4
<1>9. CASE PodDrained(p)
  <2>1. /\ pod[p].pc = "drainWait" /\ UNCHANGED <<table, podQ>>
        /\ pod' = [pod EXCEPT ![p] = [pc |-> "drain", at |-> pod[p].at + 1]]
    BY <1>9 DEF PodDrained
  <2>2. /\ pod'[p] = [pc |-> "drain", at |-> pod[p].at + 1]
        /\ \A q \in Pods : q # p => pod'[q] = pod[q] /\ podQ'[q] = podQ[q] /\ table'[q] = table[q]
    <3>1. pod[p].at + 1 \in Nat
      BY <1>3
    <3> QED
      BY <1>6, <2>1, <3>1
  <2>3. PodWork(p) = 1 + 2 * (Len(table[p].workers) - pod[p].at)
    BY <2>1 DEF PodWork
  <2>4. PodWork(p)' = 2 + 2 * (Len(table[p].workers) - (pod[p].at + 1))
    BY <2>1, <2>2 DEF PodWork
  <2> QED
    BY <1>2, <1>3, <1>4, <2>1, <2>2, <2>3, <2>4
<1>10. CASE PodHalted(p)
  <2>1. /\ pod[p].pc = "drain" /\ UNCHANGED <<table, podQ>>
        /\ pod' = [pod EXCEPT ![p] = [pc |-> "exiting", at |-> pod[p].at]]
    BY <1>10 DEF PodHalted
  <2>2. /\ pod'[p] = [pc |-> "exiting", at |-> pod[p].at]
        /\ \A q \in Pods : q # p => pod'[q] = pod[q] /\ podQ'[q] = podQ[q] /\ table'[q] = table[q]
    BY <1>3, <1>6, <2>1
  <2>3. PodWork(p) = 2 + 2 * (Len(table[p].workers) - pod[p].at)
    BY <2>1 DEF PodWork
  <2>4. PodWork(p)' = 1
    BY <2>1, <2>2 DEF PodWork
  <2> QED
    BY <1>2, <1>3, <1>4, <2>1, <2>2, <2>3, <2>4
<1>11. CASE PodExit(p)
  <2>1. /\ pod[p].pc = "exiting" /\ UNCHANGED <<table, podQ>>
        /\ pod' = [pod EXCEPT ![p] = [pc |-> "exited", at |-> pod[p].at]]
    BY <1>11 DEF PodExit
  <2>2. /\ pod'[p] = [pc |-> "exited", at |-> pod[p].at]
        /\ \A q \in Pods : q # p => pod'[q] = pod[q] /\ podQ'[q] = podQ[q] /\ table'[q] = table[q]
    BY <1>3, <1>6, <2>1
  <2>3. PodWork(p) = 1
    BY <2>1 DEF PodWork
  <2>4. PodWork(p)' = 0
    BY <2>1, <2>2 DEF PodWork
  <2> QED
    BY <1>2, <1>3, <1>4, <2>1, <2>2, <2>3, <2>4
<1>12. CASE PodAbandoned(p)
  <2>1. /\ pod[p].pc = "recv" /\ UNCHANGED <<table, podQ>>
        /\ pod' = [pod EXCEPT ![p] = [pc |-> "exited", at |-> pod[p].at]]
    BY <1>12 DEF PodAbandoned
  <2>2. /\ pod'[p] = [pc |-> "exited", at |-> pod[p].at]
        /\ \A q \in Pods : q # p => pod'[q] = pod[q] /\ podQ'[q] = podQ[q] /\ table'[q] = table[q]
    BY <1>3, <1>6, <2>1
  <2>3. PodWork(p) = 3 + 2 * NWorkers + Len(podQ[p])
    BY <2>1 DEF PodWork
  <2>4. PodWork(p)' = 0
    BY <2>1, <2>2 DEF PodWork
  <2> QED
    BY <1>2, <1>3, <1>4, <2>1, <2>2, <2>3, <2>4
<1> QED
  BY <1>5, <1>7, <1>8, <1>9, <1>10, <1>11, <1>12 DEF PodStep

(***************************************************************************)
(* A worker: a trigger weighs more than what it may leave behind, a kept   *)
(* replier, and the kill of its monitor more than the Halt it sends.       *)
(***************************************************************************)
LEMMA WorkerWorkStep ==
  ASSUME WorkInv, NEW w \in Reqs, WorkerStep(w) \/ WorkerEvent(w), UNCHANGED svlVars
  PROVE  TasksRunDown
<1>1. Backlog' = Backlog /\ SvlWork' = SvlWork
  BY DEF svlVars, Backlog, SvlWork
<1>2. \A p \in Pods : PodWork(p)' = PodWork(p)
  <2>1. UNCHANGED <<pod, podQ, table>>
    BY DEF WorkerStep, WorkerEvent, WorkerReady, WorkerStartFails, WorkerHoldsHttp,
           WorkerIgnoresHttp, WorkerFailsHttp, WorkerFailsKept, WorkerHalts, WorkerReplies,
           WorkerCloses, MonitorKills, LeaveLoop
  <2> QED
    BY <2>1 DEF PodWork
<1>3. /\ worker \in [Reqs -> Lives] /\ wq \in [Reqs -> Seq(WorkerTrigger)]
      /\ held \in [Reqs -> SUBSET Reqs] /\ killed \in [Reqs -> BOOLEAN]
      /\ held[w] \subseteq {w}
  BY DEF WorkInv, TypeInv, PodTypeInv, PodTypeOK, Inv, OwnTriggers
<1>4. wq[w] \in Seq(WorkerTrigger) /\ Len(wq[w]) \in Nat
  BY <1>3
<1>5. ASSUME \A v \in Reqs : v # w => /\ worker'[v] = worker[v] /\ wq'[v] = wq[v]
                                      /\ held'[v] = held[v] /\ killed'[v] = killed[v],
             NEW m \in Nat, NEW n \in Nat, n < m, WorkerWork(w) = m, WorkerWork(w)' = n
      PROVE  TasksRunDown
  <2>1. \A v \in Reqs : v # w => WorkerWork(v)' = WorkerWork(v) /\ WorkerWork(v) \in Nat
    BY <1>5, WorkersWork DEF WorkerWork
  <2>2. /\ \A v \in Reqs : WorkerWork(v)' \in 0 .. WorkerWork(v)
        /\ WorkerWork(w)' # WorkerWork(w)
    BY <1>5, <2>1
  <2> QED
    BY <1>1, <1>2, <2>2 DEF TasksRunDown
<1>6. PICK k \in {0, 3} : k = IF killed[w] THEN 0 ELSE 3
  OBVIOUS
<1>7. PICK h \in {0, 1} : h = IF w \in held[w] THEN 1 ELSE 0
  OBVIOUS
<1>8. /\ worker[w] = "starting" => WorkerWork(w) = 3 + (2 * Len(wq[w]) + k) + h
      /\ worker[w] = "ready" => WorkerWork(w) = 2 + (2 * Len(wq[w]) + k) + h
      /\ worker[w] = "closing" => WorkerWork(w) = 1 + h
  BY <1>6, <1>7 DEF WorkerWork
<1>9. CASE WorkerReady(w)
  <2>1. /\ worker[w] = "starting" /\ worker' = [worker EXCEPT ![w] = "ready"]
        /\ UNCHANGED <<wq, held, killed>>
    BY <1>9 DEF WorkerReady
  <2>2. WorkerWork(w)' = 2 + (2 * Len(wq[w]) + k) + h
    BY <1>3, <1>6, <1>7, <2>1 DEF WorkerWork
  <2> QED
    BY <1>3, <1>4, <1>5, <1>8, <2>1, <2>2
<1>10. ASSUME worker[w] \in {"starting", "ready"}, worker' = [worker EXCEPT ![w] = "closing"],
              wq' = [wq EXCEPT ![w] = <<>>], killed' = killed,
              \A v \in Reqs : v # w => held'[v] = held[v],
              held' = held \/ (worker[w] = "ready" /\ wq[w] # <<>>)
       PROVE  TasksRunDown
  <2>1. PICK j \in {0, 1} : WorkerWork(w)' = 1 + j /\ (held' = held => j = h)
    <3>1. worker'[w] = "closing"
      BY <1>3, <1>10
    <3> QED
      BY <1>7, <3>1 DEF WorkerWork
  <2>2. wq[w] # <<>> => Len(wq[w]) >= 1
    BY <1>4
  <2>3. \A v \in Reqs : v # w => worker'[v] = worker[v] /\ wq'[v] = wq[v]
    BY <1>3, <1>10
  <2> QED
    BY <1>4, <1>5, <1>8, <1>10, <2>1, <2>2, <2>3
<1>11. CASE \/ WorkerStartFails(w) \/ WorkerFailsHttp(w)
            \/ WorkerFailsKept(w) \/ WorkerHalts(w)
  <2>1. /\ worker[w] \in {"starting", "ready"} /\ worker' = [worker EXCEPT ![w] = "closing"]
        /\ wq' = [wq EXCEPT ![w] = <<>>] /\ killed' = killed
        /\ held' = held \/ (worker[w] = "ready" /\ wq[w] # <<>>)
    BY <1>11 DEF WorkerStartFails, WorkerFailsHttp, WorkerFailsKept, WorkerHalts, WorkerReceives,
                 LeaveLoop
  <2>2. \A v \in Reqs : v # w => held'[v] = held[v]
    BY <1>3, <1>11 DEF WorkerStartFails, WorkerFailsHttp, WorkerFailsKept, WorkerHalts, LeaveLoop
  <2> QED
    BY <1>10, <2>1, <2>2
<1>12. CASE WorkerHoldsHttp(w) \/ WorkerIgnoresHttp(w)
  <2>1. /\ worker[w] = "ready" /\ wq[w] # <<>> /\ wq' = [wq EXCEPT ![w] = Tail(@)]
        /\ UNCHANGED <<worker, killed>>
    BY <1>12 DEF WorkerHoldsHttp, WorkerIgnoresHttp, WorkerReceives
  <2>2. \A v \in Reqs : v # w => wq'[v] = wq[v] /\ held'[v] = held[v]
    BY <1>3, <1>12, <2>1 DEF WorkerHoldsHttp, WorkerIgnoresHttp
  <2>3. Len(wq'[w]) = Len(wq[w]) - 1 /\ Len(wq[w]) >= 1
    BY <1>3, <1>4, <2>1
  <2>4. PICK j \in {0, 1} : WorkerWork(w)' = 2 + (2 * Len(wq'[w]) + k) + j
    BY <1>6, <2>1 DEF WorkerWork
  <2> QED
    BY <1>4, <1>5, <1>8, <2>1, <2>2, <2>3, <2>4
<1>13. ASSUME NEW c \in Reqs, WorkerReplies(w, c)
       PROVE  TasksRunDown
  <2>1. /\ worker[w] \in {"ready", "closing"} /\ held' = [held EXCEPT ![w] = @ \ {c}]
        /\ c = w /\ w \in held[w] /\ UNCHANGED <<worker, wq, killed>>
    BY <1>3, <1>13 DEF WorkerReplies
  <2>2. h = 1 /\ w \notin held'[w] /\ \A v \in Reqs : v # w => held'[v] = held[v]
    BY <1>3, <1>7, <2>1
  <2>3. /\ worker[w] = "ready" => WorkerWork(w)' = 2 + (2 * Len(wq[w]) + k) + 0
        /\ worker[w] = "closing" => WorkerWork(w)' = 1 + 0
    BY <1>6, <2>1, <2>2 DEF WorkerWork
  <2> QED
    BY <1>4, <1>5, <1>8, <2>1, <2>2, <2>3
<1>14. CASE WorkerCloses(w)
  <2>1. /\ worker[w] = "closing" /\ worker' = [worker EXCEPT ![w] = "closed"]
        /\ held' = [held EXCEPT ![w] = {}] /\ UNCHANGED <<wq, killed>>
    BY <1>14 DEF WorkerCloses
  <2>2. WorkerWork(w)' = 0
    BY <1>3, <2>1 DEF WorkerWork
  <2> QED
    BY <1>3, <1>5, <1>8, <2>1, <2>2
<1>15. CASE MonitorKills(w)
  <2>1. /\ worker[w] \in {"starting", "ready"} /\ ~ killed[w]
        /\ killed' = [killed EXCEPT ![w] = TRUE]
        /\ wq' = [wq EXCEPT ![w] = Append(@, MonitorHalt)] /\ UNCHANGED <<worker, held>>
    BY <1>15 DEF MonitorKills, Listening
  <2>2. k = 3 /\ killed'[w] /\ \A v \in Reqs : v # w => killed'[v] = killed[v] /\ wq'[v] = wq[v]
    BY <1>3, <1>6, <2>1
  <2>3. Len(wq'[w]) = Len(wq[w]) + 1
    BY <1>3, <1>4, <2>1, WorkerTriggers, Appending
  <2>4. /\ worker[w] = "starting" => WorkerWork(w)' = 3 + (2 * Len(wq'[w]) + 0) + h
        /\ worker[w] = "ready" => WorkerWork(w)' = 2 + (2 * Len(wq'[w]) + 0) + h
    BY <1>7, <2>1, <2>2 DEF WorkerWork
  <2> QED
    BY <1>4, <1>5, <1>8, <2>1, <2>2, <2>3, <2>4
<1> QED
  BY <1>9, <1>11, <1>12, <1>13, <1>14, <1>15 DEF WorkerStep, WorkerEvent

\* The handlers: whatever they do is theirs, but for one trigger.
LEMMA HandlerWorkStep ==
  ASSUME WorkInv, NEW c \in Reqs, ClientStep(c) \/ ClientGone(c)
  PROVE  client' # client /\ HandlersRunDown
<1>1. /\ client \in [Reqs -> ClientStates] /\ svlQ \in Seq(ServerlessTrigger)
      /\ op \in [Reqs -> [kind : Kinds, name : Names]]
  BY DEF WorkInv, TypeInv, SvlTypeInv, SvlTypeOK
<1>2. UNCHANGED <<svl, pod, podQ, table, worker, wq, held, killed>>
  BY DEF ClientStep, ClientSubmits, ClientFindsClosed, ClientBadBody, ClientUploaded,
         ClientNotCreated, ClientSendsHttp, ClientCannotSendHttp, ClientAnswered, ClientGone,
         podVars
<1>3. /\ SvlWork' = SvlWork
      /\ \A p \in Pods : PodWork(p)' = PodWork(p)
      /\ \A w \in Reqs : WorkerWork(w)' = WorkerWork(w)
  BY <1>2 DEF SvlWork, PodWork, WorkerWork
<1>4. svlQ' = svlQ \/ (SvlOpen /\ \E m \in ServerlessTrigger : svlQ' = Append(svlQ, m))
  BY <1>1, ServerlessTriggers
  DEF ClientStep, ClientSubmits, ClientFindsClosed, ClientBadBody, ClientUploaded,
      ClientNotCreated, ClientSendsHttp, ClientCannotSendHttp, ClientAnswered, ClientGone, Send
<1>5. Len(svlQ) \in Nat /\ Len(svlQ') \in {Len(svlQ), Len(svlQ) + 1}
  BY <1>1, <1>4, Appending
<1>6. Backlog' \in IF Backlog = 0 THEN {0} ELSE {Backlog, Backlog + 1}
  BY <1>2, <1>5 DEF Backlog
<1>7. \/ client[c] = "new" /\ \E s \in {"wait", "done"} : client' = [client EXCEPT ![c] = s]
      \/ client[c] = "wait" /\ \E s \in {"http", "done", "gone"} : client' = [client EXCEPT ![c] = s]
      \/ client[c] = "http" /\ \E s \in {"done", "gone"} : client' = [client EXCEPT ![c] = s]
  BY DEF ClientStep, ClientSubmits, ClientFindsClosed, ClientBadBody, ClientUploaded,
         ClientNotCreated, ClientSendsHttp, ClientCannotSendHttp, ClientAnswered, ClientGone,
         Respond
<1>8. \A d \in Reqs : d # c => HandlerWork(d)' = HandlerWork(d)
  BY <1>1, <1>7 DEF HandlerWork
<1>9. \A d \in Reqs : HandlerWork(d) \in 0 .. 3
  BY <1>1 DEF HandlerWork, ClientStates
<1>10. HandlerWork(c)' \in 0 .. HandlerWork(c) - 1
  <2>1. CASE client[c] = "new"
    <3>1. client'[c] \in {"wait", "done"}
      BY <1>1, <1>7, <2>1
    <3> QED
      BY <2>1, <3>1 DEF HandlerWork
  <2>2. CASE client[c] = "wait"
    <3>1. client'[c] \in {"http", "done", "gone"}
      BY <1>1, <1>7, <2>2
    <3> QED
      BY <2>2, <3>1 DEF HandlerWork
  <2>3. CASE client[c] = "http"
    <3>1. client'[c] \in {"done", "gone"}
      BY <1>1, <1>7, <2>3
    <3> QED
      BY <2>3, <3>1 DEF HandlerWork
  <2> QED
    BY <1>7, <2>1, <2>2, <2>3
<1>11. client' # client
  BY <1>1, <1>7
<1>12. \A d \in Reqs : HandlerWork(d)' \in 0 .. HandlerWork(d)
  BY <1>8, <1>9, <1>10
<1>13. HandlerWork(c)' # HandlerWork(c)
  BY <1>9, <1>10
<1> QED
  BY <1>3, <1>6, <1>11, <1>12, <1>13 DEF HandlersRunDown

\* Whoever else takes a step leaves the handlers alone.
LEMMA HandlersKept ==
  ASSUME \/ SvlStep \/ SvlCtrlC \/ SvlServerExits
         \/ UNCHANGED svlVars
  PROVE  client' = client
BY DEF SvlStep, SvlCtrlC, SvlServerExits, SvlCreateNoCode, SvlCreate, SvlUpload, SvlRemove,
       SvlToPod, SvlForward, SvlAsksVacancy, SvlToldVacancy, SvlNoVacancy, SvlAsksWorker,
       SvlCreated, SvlHaltsPod, SvlPodHalted, SvlJoined, svlVars

LEMMA WorkShrinks ==
  WorkInv /\ [Next]_vars =>
    [IF UNCHANGED client THEN TasksRunDown ELSE HandlersRunDown]_vars
<1> SUFFICES ASSUME WorkInv, Next, ~ UNCHANGED vars
             PROVE  IF UNCHANGED client THEN TasksRunDown ELSE HandlersRunDown
  OBVIOUS
<1>1. ASSUME NEW c \in Reqs, ClientStep(c) \/ ClientGone(c)
      PROVE  client' # client /\ HandlersRunDown
  BY <1>1, HandlerWorkStep
<1>2. CASE SvlStep \/ SvlCtrlC \/ SvlServerExits
  BY <1>2, SvlWorkStep, HandlersKept
<1>3. ASSUME NEW p \in Pods, PodStep(p) \/ PodAbandoned(p), UNCHANGED svlVars
      PROVE  client' = client /\ TasksRunDown
  BY <1>3, PodWorkStep, HandlersKept
<1>4. ASSUME NEW w \in Reqs, WorkerStep(w) \/ WorkerEvent(w), UNCHANGED svlVars
      PROVE  client' = client /\ TasksRunDown
  BY <1>4, WorkerWorkStep, HandlersKept
<1>5. ~ Terminated
  BY DEF Terminated
<1> QED
  BY <1>1, <1>2, <1>3, <1>4, <1>5 DEF Next, PodTurn

(***************************************************************************)
(* Nothing is done for ever: for any numbers of pods, workers and requests *)
(* and any capacities, every step of a task lowers a natural number, the   *)
(* work left to it, and raises nothing but the work of those it serves;    *)
(* and a shutdown is not prolonged by the requests that still come in.     *)
(***************************************************************************)
THEOREM WorkEnds == Spec => WorkRunsDown
<1>1. Init => WorkInv
  BY TypeInit, InvInit DEF Init, PodInit, WorkInv, DrainsWithin
<1>2. WorkInv /\ [Next]_vars => WorkInv'
  BY TypeStep, InvStep, DrainsWithinStep DEF WorkInv
<1> QED
  BY <1>1, <1>2, WorkShrinks, PTL DEF Spec, WorkRunsDown
=============================================================================
