-------------------------- MODULE WorkerRefinement --------------------------
(***************************************************************************)
(* Worker implements the worker that Pod shows from the outside: the       *)
(* stages of the loop, the slots and boxes and the fetches are internal,   *)
(* and the trigger in hand counts as queued until it is dealt with.        *)
(***************************************************************************)
EXTENDS Worker

CONSTANT Self  \* the request this worker was created for

ASSUME SelfAssumption == Self \in Reqs

Life ==
  CASE pc = "starting" -> "starting"
    [] pc \in {"waiting", "checkpoint", "call", "then"} -> "ready"
    [] OTHER -> pc

Channel == IF hand = None THEN queue ELSE <<hand>> \o queue

At(value, other) == [w \in Reqs |-> IF w = Self THEN value ELSE other]

PodWith == [workers |-> <<Self>>, vacancies |-> <<>>, capacity |-> 1]

Outside == INSTANCE Pod WITH
  NWorkers <- 1, NPods <- 1, PodCap <- 1, WorkerCap <- QueueCap,
  pod <- [p \in {0} |-> [pc |-> "recv", at |-> 0]],
  podQ <- [p \in {0} |-> <<>>],
  table <- [p \in {0} |-> PodWith],
  answer <- [tag |-> "none", id |-> 0],
  worker <- At(Life, "none"),
  wq <- At(Channel, <<>>),
  held <- At(Full, {}),
  killed <- At(FALSE, FALSE)

\* The pod or the monitor sends something; the handler of c waits from then.
SentTo(m) ==
  /\ Outside!Listening(Self)
  /\ Channel' = Append(Channel, m)
  /\ reply' = IF m \in Halts THEN reply ELSE [reply EXCEPT ![m.req] = "pending"]
  /\ UNCHANGED <<Life, Full>>

(***************************************************************************)
(* Every step of the worker is a step the model of the pod knows, or none  *)
(* at all: the pod's model leaves out nothing a worker does to requests.   *)
(***************************************************************************)
IsPodsWorker ==
  [][\/ Outside!WorkerStep(Self)
     \/ Outside!WorkerEvent(Self)
     \/ Outside!CancelWorkers(0)
     \/ \E m \in Triggers : SentTo(m)]_<<Life, Channel, Full, reply>>
=============================================================================
