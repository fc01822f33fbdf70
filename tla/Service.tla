------------------------------- MODULE Service ------------------------------
(***************************************************************************)
(* What the control plane promises to the requests for workers, without    *)
(* tasks, channels or threads: a request is placed in a free slot, which   *)
(* is its own from then on, its code runs there and nowhere else, and it   *)
(* ends once: answered, refused for want of a free slot, or failed.        *)
(***************************************************************************)
CONSTANTS Reqs, Slots, None

VARIABLES
  stage,   \* stage[c]: how far request c has come
  holder   \* holder[s]: the request slot s was given to

serviceVars == <<stage, holder>>

Underway == {"asked", "placed", "running"}

Init ==
  /\ stage = [c \in Reqs |-> "new"]
  /\ holder = [s \in Slots |-> None]

Move(c, from, to) ==
  /\ stage[c] = from
  /\ stage' = [stage EXCEPT ![c] = to]

Ask(c) ==
  /\ Move(c, "new", "asked")
  /\ UNCHANGED holder

Place(c, s) ==
  /\ Move(c, "asked", "placed")
  /\ holder[s] = None
  /\ holder' = [holder EXCEPT ![s] = c]

Refuse(c) ==
  /\ Move(c, "asked", "refused")
  /\ \A s \in Slots : holder[s] # None
  /\ UNCHANGED holder

Run(c) ==
  /\ Move(c, "placed", "running")
  /\ \E s \in Slots : holder[s] = c
  /\ UNCHANGED holder

(***************************************************************************)
(* Requests end, several at once when a task or a thread ends with them:   *)
(* running ones by an answer, any by a failure.  The service may be closed *)
(* to a new request from the start.                                        *)
(***************************************************************************)
End(failing, ending) ==
  /\ stage' = [c \in Reqs |-> IF c \in failing THEN "failed"
                              ELSE IF c \in ending THEN "answered"
                              ELSE stage[c]]
  /\ UNCHANGED holder

Next ==
  \/ \E c \in Reqs : Ask(c) \/ Refuse(c) \/ Run(c)
  \/ \E c \in Reqs, s \in Slots : Place(c, s)
  \/ \E failing \in SUBSET {c \in Reqs : stage[c] \in Underway \cup {"new"}},
        ending \in SUBSET {c \in Reqs : stage[c] = "running"} : End(failing, ending)

Spec == Init /\ [][Next]_serviceVars
=============================================================================
