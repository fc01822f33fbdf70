------------------------------ MODULE StartOne ------------------------------
(***************************************************************************)
(* The command One (start_one in main.rs): a runtime with one pod of one   *)
(* slot, into which the main task uploads its file as the worker "index"   *)
(* and creates that worker, through the serverless channel like everybody  *)
(* else.  The HTTP server takes requests all the while.  When start_one    *)
(* returns nothing polls the serverless task and the handlers any more:    *)
(* they are cancelled with the runtime, whose drop waits for the pod.      *)
(***************************************************************************)
EXTENDS Serverless

CONSTANTS
  Boot,  \* stands for the upload main does
  Main,  \* stands for the worker main creates
  Index  \* the name "index"

ASSUME StartOneAssumption ==
  /\ NPods = 1 /\ NWorkers = 1
  /\ {Boot, Main} \subseteq Reqs \ Leavers /\ Boot # Main
  /\ Index \in ValidNames

VARIABLE main  \* where start_one is; "over" when it has returned

oneVars == <<vars, main>>

Guests == Reqs \ {Boot, Main}

OneInit ==
  /\ Init
  /\ op[Boot] = [kind |-> "upload", name |-> Index]
  /\ op[Main] = [kind |-> "worker", name |-> Index]
  /\ main = "upload"

\* A closed runtime is no error to upload_worker: main goes on.
MainUploads ==
  /\ main = "upload"
  /\ \/ ClientSubmits(Boot) /\ main' = "uploadWait"
     \/ ClientFindsClosed(Boot) /\ main' = "create"

MainUploaded ==
  /\ main = "uploadWait"
  /\ ClientUploaded(Boot)
  /\ main' = IF reply[Boot] = "storeError" THEN "over" ELSE "create"

MainCreates ==
  /\ main = "create"
  /\ \/ ClientSubmits(Main) /\ main' = "createWait"
     \/ ClientFindsClosed(Main) /\ main' = "over"

MainCreated ==
  /\ main = "createWait"
  /\ \/ ClientNotCreated(Main) /\ main' = "over"
     \/ /\ reply[Main] = "created"
        /\ Respond(Main, "ok")
        /\ main' = "join"
        /\ UNCHANGED <<op, route, svlQ, svl, stored, podVars>>

\* handle.await: the serverless task has ended.
MainJoins ==
  /\ main = "join"
  /\ ~ SvlOpen
  /\ main' = "over"
  /\ UNCHANGED vars

MainStep == MainUploads \/ MainUploaded \/ MainCreates \/ MainCreated \/ MainJoins

\* What the runtime polls.
Polled ==
  \/ \E c \in Guests : ClientStep(c)
  \/ \E c \in Leavers : ClientGone(c)
  \/ SvlStep
  \/ SvlCtrlC
  \/ SvlServerExits

\* The handle of the pod goes with the serverless task, be it cancelled.
OnePodTurn(p) ==
  \/ PodStep(p)
  \/ svl.pc = "failed" /\ PodAbandoned(p)
  \/ main = "over" /\ PodAbandoned(p)

\* What goes on in the pod's thread, whether or not the runtime polls.
Threads ==
  \/ \E p \in Pods : OnePodTurn(p) /\ UNCHANGED svlVars
  \/ \E w \in Reqs : (WorkerStep(w) \/ WorkerEvent(w)) /\ UNCHANGED svlVars

\* The runtime is dropped: the pod's thread, a task of spawn_blocking, is over.
OneOver == main = "over" /\ \A p \in Pods : pod[p].pc = "exited"

OneNext ==
  \/ MainStep
  \/ main # "over" /\ Polled /\ UNCHANGED main
  \/ Threads /\ UNCHANGED main
  \/ OneOver /\ UNCHANGED oneVars

OneFairness ==
  /\ WF_oneVars(MainStep)
  /\ WF_oneVars(main # "over" /\ SvlStep /\ UNCHANGED main)
  /\ \A p \in Pods : WF_oneVars(OnePodTurn(p) /\ UNCHANGED <<svlVars, main>>)
  /\ \A w \in Reqs : WF_oneVars(WorkerStep(w) /\ UNCHANGED <<svlVars, main>>)

OneSpec == OneInit /\ [][OneNext]_oneVars /\ OneFairness
-----------------------------------------------------------------------------
(***************************************************************************)
(* The start ends, wherever guests, the store, ctrl-c and the HTTP server  *)
(* come between its steps: main waits for the runtime or is over.  And     *)
(* once start_one has returned, for whatever reason, ctrl-c is noticed or  *)
(* the server exits, the process ends: the drop of the runtime finds the   *)
(* pod's thread over, or sees it end.                                      *)
(***************************************************************************)
StartsOrEnds ==
  /\ <>(main \in {"join", "over"})
  /\ main = "over" \/ svl.pc \in {"halt", "failed"} ~> OneOver

(***************************************************************************)
(* What main waits for is there: the ids it was given name its worker, no  *)
(* guest's request has taken a slot or takes one any more (every GET that  *)
(* comes in is refused, app.rs:57), and the halt that ends the process     *)
(* does not miss the worker.                                               *)
(***************************************************************************)
MainsWorkerIsThere ==
  main = "join" =>
    /\ GetWorker(table[route[Main].pod], route[Main].id) = Main
    /\ \A c \in Guests : worker[c] = "none"
    /\ svl.pc = "exited" => worker[Main] \in {"closing", "closed"}
=============================================================================
