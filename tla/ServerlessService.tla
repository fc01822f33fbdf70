-------------------------- MODULE ServerlessService -------------------------
(***************************************************************************)
(* Serverless implements Service: how slots and the stage of a request are *)
(* read off the state of handlers, channels, pods and workers.             *)
(***************************************************************************)
EXTENDS Serverless

Slots == Pods \X (0 .. NWorkers - 1)

Holder == [s \in Slots |-> GetWorker(table[s[1]], s[2])]

(***************************************************************************)
(* A request without an end is wherever its worker is.  One whose handler  *)
(* found the runtime closed, or went away before it sent the Http trigger, *)
(* has failed although no reply says so.                                   *)
(***************************************************************************)
StageOf(c) ==
  IF op[c].kind # "worker" \/ client[c] = "new" THEN "new"
  ELSE CASE reply[c] = "noVacancy" -> "refused"
         [] reply[c] \in {"value", "empty"} -> "answered"
         [] \/ reply[c] \in {"noCode", "dropped", "none"}
            \/ reply[c] = "created" /\ client[c] # "wait" -> "failed"
         [] OTHER -> IF c \in held[c] THEN "running"
                     ELSE IF worker[c] # "none" THEN "placed" ELSE "asked"

Promise == INSTANCE Service WITH stage <- [c \in Reqs |-> StageOf(c)], holder <- Holder

(***************************************************************************)
(* Every step of the control plane is a step of the abstract service or no *)
(* step of it: no request is answered twice, answered without having run,  *)
(* run outside its own slot, or refused while a slot is free.              *)
(***************************************************************************)
KeepsPromise == Promise!Spec
=============================================================================
