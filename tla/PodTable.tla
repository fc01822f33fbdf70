------------------------------ MODULE PodTable ------------------------------
(***************************************************************************)
(* The table of worker slots a Pod keeps (runtime/pod/core.rs), as         *)
(* operators on a value:                                                   *)
(*                                                                         *)
(*   workers    the Vec<Option<WorkerHandle>>, None for an empty slot      *)
(*   vacancies  the Vec<usize> of ids given back                           *)
(*   capacity   what Vec::capacity() reports for workers                   *)
(*                                                                         *)
(* Ids count from 0, as in the code: id i is the slot workers[i + 1].      *)
(* Pod::remove_worker, the only writer of vacancies, has no caller in the  *)
(* program, so it is no operation here; what its absence is good for shows *)
(* in the properties of Serverless.                                        *)
(***************************************************************************)
EXTENDS Integers, Sequences

CONSTANTS
  NWorkers,  \* n_workers: the capacity every pod's vectors are created with
  None       \* Option::None

ASSUME NWorkersAssumption == NWorkers \in Nat

EmptyTable == [workers |-> <<>>, vacancies |-> <<>>, capacity |-> NWorkers]

\* Fault: a full pod still has room.
RoomForOneMore(t) == t.vacancies # <<>> \/ Len(t.workers) <= t.capacity

HasVacancy(t) == t.vacancies # <<>> \/ Len(t.workers) < t.capacity

(***************************************************************************)
(* Vec::push reallocates a full vector: twice the capacity, at least 4.    *)
(***************************************************************************)
CapacityAfterPush(t) ==
  IF Len(t.workers) < t.capacity THEN t.capacity
  ELSE IF t.capacity < 2 THEN 4 ELSE 2 * t.capacity

\* Faults: the id is that of the last slot before the push.
IdBeforePush(t) == Len(t.workers) - 1
LastWorkerId(t) == IF t.workers = <<>> THEN 0 ELSE Len(t.workers) - 1

(***************************************************************************)
(* get_next_worker_id: the argument of unwrap_or is evaluated whether or   *)
(* not vacancies.pop() yields an id, so an empty slot is pushed either     *)
(* way.                                                                    *)
(***************************************************************************)
NextWorkerId(t) ==
  IF t.vacancies = <<>> THEN Len(t.workers) ELSE t.vacancies[Len(t.vacancies)]

TakeWorkerId(t) ==
  [workers   |-> Append(t.workers, None),
   vacancies |-> IF t.vacancies = <<>> THEN <<>>
                 ELSE SubSeq(t.vacancies, 1, Len(t.vacancies) - 1),
   capacity  |-> CapacityAfterPush(t)]

\* Fault: the handle is stored nowhere.
ForgetWorker(t, id, w) == t

PutWorker(t, id, w) ==
  [workers   |-> [t.workers EXCEPT ![id + 1] = w],
   vacancies |-> t.vacancies,
   capacity  |-> t.capacity]

CreateWorker(t, w) == PutWorker(TakeWorkerId(t), NextWorkerId(t), w)

GetWorker(t, id) == IF id < Len(t.workers) THEN t.workers[id + 1] ELSE None
=============================================================================
