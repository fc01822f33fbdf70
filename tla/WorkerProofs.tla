---------------------------- MODULE WorkerProofs ----------------------------
(***************************************************************************)
(* Proofs about Worker: no replier is lost in the reuse of slots and no    *)
(* Halt in the channel, whatever the number of requests and fetches and    *)
(* the capacity of the channel.                                            *)
(***************************************************************************)
EXTENDS Worker, TLAPS

\* A request that was not sent yet has left no trace.
Fresh ==
  \A c \in Reqs : reply[c] = "none" =>
    box[c] = "none" /\ hand # Http(c) /\ Http(c) \notin Elems(queue)

\* A trigger for a request is in one place: once in the channel, or in hand.
InOnePlace ==
  /\ \A i, j \in 1 .. Len(queue) : queue[i] = queue[j] /\ queue[i] \notin Halts => i = j
  /\ hand # None /\ hand \notin Halts => hand \notin Elems(queue)

\* As long as it is there, no box was made for the request.
NotBoxedYet ==
  \A c \in Reqs : hand = Http(c) \/ Http(c) \in Elems(queue) => box[c] = "none"

\* A request that waits is in one of three places.
Owed ==
  \A c \in Reqs : reply[c] = "pending" =>
    hand = Http(c) \/ Http(c) \in Elems(queue) \/ c \in Full

SlotsBoxed == \A c \in Reqs : c \in Elems(slots) => box[c] # "none"

\* A call is for a request; outside the loop the channel is gone; in the end
\* the boxes are empty.
Ends ==
  /\ pc = "call" => hand \notin Halts
  /\ pc \in {"closing", "closed", "cancelled"} => queue = <<>>
  /\ pc = "closed" => Full = {}

Inv ==
  /\ TypeOK
  /\ Fresh
  /\ InOnePlace
  /\ NotBoxedYet
  /\ Owed
  /\ OneSlotPerReplier
  /\ SlotsBoxed
  /\ Ends
-----------------------------------------------------------------------------
LEMMA TriggerFacts ==
  /\ \A c \in Reqs : Http(c) \in Triggers /\ Http(c).req = c /\ Http(c) \notin Halts
  /\ \A c, d \in Reqs : Http(c) = Http(d) => c = d
  /\ \A m \in Triggers : m \in Halts \/ (m.req \in Reqs /\ m = Http(m.req))
  /\ None \notin Triggers /\ None \notin Halts
BY NoTrigger DEF Http, Triggers, Halts, PodHalt, MonitorHalt

LEMMA SeqElems ==
  ASSUME NEW S, NEW s \in Seq(S), NEW e \in S
  PROVE  /\ Elems(Append(s, e)) = Elems(s) \cup {e}
         /\ s # <<>> => Elems(s) = {Head(s)} \cup Elems(Tail(s))
<1>1. Elems(Append(s, e)) = Elems(s) \cup {e}
  <2>1. Len(Append(s, e)) = Len(s) + 1
    OBVIOUS
  <2>2. \A i \in 1 .. Len(s) : Append(s, e)[i] = s[i]
    OBVIOUS
  <2>3. Append(s, e)[Len(s) + 1] = e
    OBVIOUS
  <2> QED
    BY <2>1, <2>2, <2>3 DEF Elems
<1>2. ASSUME s # <<>> PROVE Elems(s) = {Head(s)} \cup Elems(Tail(s))
  <2>1. Len(s) \in Nat \ {0} /\ Len(Tail(s)) = Len(s) - 1 /\ Head(s) = s[1]
    BY <1>2
  <2>2. \A i \in 1 .. Len(Tail(s)) : Tail(s)[i] = s[i + 1] /\ i + 1 \in 1 .. Len(s)
    BY <1>2
  <2>3. \A i \in 2 .. Len(s) : i - 1 \in 1 .. Len(Tail(s)) /\ Tail(s)[i - 1] = s[i]
    BY <2>1, <2>2
  <2>4. 1 .. Len(s) = {1} \cup 2 .. Len(s)
    BY <2>1
  <2> QED
    BY <2>1, <2>2, <2>3, <2>4 DEF Elems
<1> QED
  BY <1>1, <1>2

\* Cleaning keeps the slots of live repliers and empties the others.
LEMMA Cleaned ==
  ASSUME slots \in Seq(Reqs \cup {None})
  PROVE  /\ CleanedUp(slots) \in Seq(Reqs \cup {None})
         /\ Len(CleanedUp(slots)) = Len(slots)
         /\ \A i \in 1 .. Len(slots) : \A c \in Full : CleanedUp(slots)[i] = c <=> slots[i] = c
         /\ \A i \in 1 .. Len(slots) : CleanedUp(slots)[i] \in Full \cup {None}
<1>1. None \notin Full
  BY WorkerAssumption DEF Full
<1> QED
  BY <1>1 DEF CleanedUp, Full

\* A new replier takes no slot from one that is in its box.
LEMMA PutKeeps ==
  ASSUME slots \in Seq(Reqs \cup {None}), OneSlotPerReplier,
         NEW c \in Reqs, c \notin Full, AddReplier(c), Full' = Full \cup {c}
  PROVE  /\ OneSlotPerReplier'
         /\ slots' \in Seq(Reqs \cup {None})
         /\ Elems(slots') \subseteq Full' \cup {None}
<1> DEFINE s == CleanedUp(slots)
<1>1. /\ s \in Seq(Reqs \cup {None})
      /\ Len(s) = Len(slots)
      /\ \A i \in 1 .. Len(s) : \A d \in Full : s[i] = d <=> slots[i] = d
      /\ \A i \in 1 .. Len(s) : s[i] \in Full \cup {None}
  BY Cleaned
<1>2. \A d \in Full : \E i \in 1 .. Len(s) : \A j \in 1 .. Len(s) : s[j] = d <=> j = i
  BY <1>1 DEF OneSlotPerReplier
<1>3. \A i \in 1 .. Len(s) : s[i] # c
  BY <1>1, WorkerAssumption
<1>4. PICK k \in 1 .. Len(s) + 1 :
        /\ k \in 1 .. Len(s) => s[k] = None
        /\ slots' \in Seq(Reqs \cup {None})
        /\ Len(slots') = Len(s) \/ Len(slots') = Len(s) + 1
        /\ k \in 1 .. Len(slots') /\ slots'[k] = c
        /\ \A i \in 1 .. Len(slots') : i # k => i \in 1 .. Len(s) /\ slots'[i] = s[i]
        /\ \A i \in 1 .. Len(s) : i \in 1 .. Len(slots')
  <2> HIDE DEF s
  <2>1. CASE slots' = Append(s, c)
    <3>1. /\ slots' \in Seq(Reqs \cup {None}) /\ Len(slots') = Len(s) + 1
          /\ slots'[Len(s) + 1] = c
          /\ \A i \in 1 .. Len(s) : slots'[i] = s[i]
      BY <1>1, <2>1
    <3>2. Len(s) \in Nat
      BY <1>1
    <3>3. \A i \in 1 .. Len(slots') : i # Len(s) + 1 => i \in 1 .. Len(s) /\ slots'[i] = s[i]
      BY <3>1, <3>2
    <3>4. /\ Len(s) + 1 \in 1 .. Len(s) + 1 /\ Len(s) + 1 \in 1 .. Len(slots')
          /\ Len(s) + 1 \notin 1 .. Len(s)
          /\ \A i \in 1 .. Len(s) : i \in 1 .. Len(slots')
      BY <3>1, <3>2
    <3> QED
      BY <3>1, <3>3, <3>4
  <2>2. ASSUME NEW i \in FreeSlots(s), slots' = [s EXCEPT ![i] = c]
        PROVE  /\ i \in 1 .. Len(s) /\ s[i] = None
               /\ slots' \in Seq(Reqs \cup {None}) /\ Len(slots') = Len(s)
               /\ slots'[i] = c
               /\ \A j \in 1 .. Len(s) : j # i => slots'[j] = s[j]
    BY <1>1, <2>2 DEF FreeSlots
  <2>3. ASSUME NEW i \in FreeSlots(s), slots' = [s EXCEPT ![i] = c]
        PROVE  /\ i \in 1 .. Len(s) + 1 /\ i \in 1 .. Len(slots')
               /\ \A j \in 1 .. Len(slots') : j # i => j \in 1 .. Len(s) /\ slots'[j] = s[j]
               /\ \A j \in 1 .. Len(s) : j \in 1 .. Len(slots')
    <3>1. Len(s) \in Nat
      BY <1>1
    <3>2. /\ i \in 1 .. Len(s)
          /\ Len(slots') = Len(s)
          /\ \A j \in 1 .. Len(s) : j # i => slots'[j] = s[j]
      BY <2>2, <2>3
    <3> QED
      BY <3>1, <3>2
  <2>4. CASE \E i \in FreeSlots(s) : slots' = [s EXCEPT ![i] = c]
    <3>1. PICK i \in FreeSlots(s) : slots' = [s EXCEPT ![i] = c]
      BY <2>4
    <3>2. i \in 1 .. Len(s) + 1 /\ s[i] = None
      BY <2>2, <2>3, <3>1
    <3> QED
      BY <2>2, <2>3, <3>1, <3>2
  <2> QED
    BY <2>1, <2>4 DEF AddReplier, Put, s
<1>5. OneSlotPerReplier'
  <2> SUFFICES ASSUME NEW d \in Full'
               PROVE  \E i \in 1 .. Len(slots') :
                        \A j \in 1 .. Len(slots') : slots'[j] = d <=> j = i
    BY DEF OneSlotPerReplier
  <2> HIDE DEF s
  <2>1. CASE d = c
    <3>1. \A j \in 1 .. Len(slots') : slots'[j] = c <=> j = k
      BY <1>3, <1>4
    <3> QED
      BY <1>4, <2>1, <3>1
  <2>2. CASE d # c
    <3>1. d \in Full
      BY <2>2
    <3>2. PICK i \in 1 .. Len(s) : \A j \in 1 .. Len(s) : s[j] = d <=> j = i
      BY <1>2, <3>1
    <3>3. d # None
      BY <3>1, WorkerAssumption DEF Full
    <3>4. i # k
      BY <1>4, <3>2, <3>3
    <3>5. i \in 1 .. Len(slots')
      BY <1>4
    <3>6. \A j \in 1 .. Len(slots') : slots'[j] = d <=> j = i
      BY <1>4, <2>2, <3>2, <3>4
    <3> QED
      BY <3>5, <3>6
  <2> QED
    BY <2>1, <2>2
<1>6. Elems(slots') \subseteq Full' \cup {None}
  <2> HIDE DEF s
  <2> QED
    BY <1>1, <1>4 DEF Elems
<1> QED
  BY <1>4, <1>5, <1>6

-----------------------------------------------------------------------------
(***************************************************************************)
(* What the kinds of steps do to the slots and to the channel.             *)
(***************************************************************************)
LEMMA SlotsKept ==
  ASSUME OneSlotPerReplier, SlotsBoxed, UNCHANGED slots,
         Full' \subseteq Full, \A c \in Reqs : box[c] # "none" => box'[c] # "none"
  PROVE  OneSlotPerReplier' /\ SlotsBoxed'
BY DEF OneSlotPerReplier, SlotsBoxed, Elems

LEMMA SlotsCleaned ==
  ASSUME slots \in Seq(Reqs \cup {None}), OneSlotPerReplier, SlotsBoxed,
         slots' = CleanedUp(slots), UNCHANGED box
  PROVE  slots' \in Seq(Reqs \cup {None}) /\ OneSlotPerReplier' /\ SlotsBoxed'
<1>1. /\ slots' \in Seq(Reqs \cup {None})
      /\ Len(slots') = Len(slots)
      /\ \A i \in 1 .. Len(slots) : \A c \in Full : slots'[i] = c <=> slots[i] = c
      /\ \A i \in 1 .. Len(slots) : slots'[i] \in Full \cup {None}
  BY Cleaned
<1>2. Full' = Full
  BY DEF Full
<1>3. OneSlotPerReplier'
  <2> SUFFICES ASSUME NEW c \in Full
               PROVE  \E i \in 1 .. Len(slots') :
                        \A j \in 1 .. Len(slots') : slots'[j] = c <=> j = i
    BY <1>2 DEF OneSlotPerReplier
  <2>1. PICK i \in 1 .. Len(slots) : \A j \in 1 .. Len(slots) : slots[j] = c <=> j = i
    BY DEF OneSlotPerReplier
  <2>2. \A j \in 1 .. Len(slots) : slots'[j] = c <=> slots[j] = c
    BY <1>1
  <2>3. Len(slots') = Len(slots)
    BY <1>1
  <2>4. \A j \in 1 .. Len(slots') : slots'[j] = c <=> j = i
    BY <2>1, <2>2, <2>3
  <2> QED
    BY <2>3, <2>4
<1>4. SlotsBoxed'
  BY <1>1, <1>2, WorkerAssumption DEF SlotsBoxed, Elems, Full
<1> QED
  BY <1>1, <1>3, <1>4

\* A trigger that is not there yet is added to the channel.
LEMMA Sent ==
  ASSUME TypeOK, InOnePlace, NEW m \in Triggers, queue' = Append(queue, m), UNCHANGED hand,
         m \in Halts \/ (m \notin Elems(queue) /\ hand # m)
  PROVE  /\ queue' \in Seq(Triggers)
         /\ Elems(queue') = Elems(queue) \cup {m}
         /\ InOnePlace'
<1>1. queue \in Seq(Triggers)
  BY DEF TypeOK
<1>2. Elems(queue') = Elems(queue) \cup {m}
  BY <1>1, SeqElems
<1>3. /\ queue' \in Seq(Triggers) /\ Len(queue') = Len(queue) + 1 /\ Len(queue) \in Nat
      /\ queue'[Len(queue) + 1] = m
      /\ \A i \in 1 .. Len(queue) : queue'[i] = queue[i]
  BY <1>1
<1>4. ASSUME NEW i \in 1 .. Len(queue'), NEW j \in 1 .. Len(queue'),
             queue'[i] = queue'[j], queue'[i] \notin Halts
      PROVE  i = j
  <2>1. CASE i \in 1 .. Len(queue) /\ j \in 1 .. Len(queue)
    BY <1>3, <1>4, <2>1 DEF InOnePlace
  <2>2. \A k \in 1 .. Len(queue) : queue[k] \in Elems(queue)
    BY DEF Elems
  <2>3. CASE i = Len(queue) + 1 /\ j \in 1 .. Len(queue)
    BY <1>3, <1>4, <2>2, <2>3
  <2>4. CASE j = Len(queue) + 1 /\ i \in 1 .. Len(queue)
    BY <1>3, <1>4, <2>2, <2>4
  <2> QED
    BY <1>3, <2>1, <2>3, <2>4
<1>5. hand' # None /\ hand' \notin Halts => hand' \notin Elems(queue')
  BY <1>2 DEF InOnePlace
<1>6. InOnePlace'
  BY <1>4, <1>5 DEF InOnePlace, Elems
<1> QED
  BY <1>2, <1>3, <1>6

\* The first trigger is taken out of the channel.
LEMMA Taken ==
  ASSUME TypeOK, InOnePlace, queue # <<>>, queue' = Tail(queue), hand' = Head(queue)
  PROVE  /\ queue' \in Seq(Triggers) /\ hand' \in Triggers
         /\ Elems(queue) = Elems(queue') \cup {hand'}
         /\ InOnePlace'
<1>1. queue \in Seq(Triggers)
  BY DEF TypeOK
<1>2. /\ queue' \in Seq(Triggers) /\ hand' \in Triggers /\ hand' = queue[1]
      /\ Len(queue) \in Nat /\ Len(queue') = Len(queue) - 1
      /\ \A i \in 1 .. Len(queue') : queue'[i] = queue[i + 1] /\ i + 1 \in 1 .. Len(queue)
  BY <1>1
<1>3. Elems(queue) = Elems(queue') \cup {hand'}
  <2>1. queue[1] \in Triggers
    BY <1>2
  <2> QED
    BY <1>1, <2>1, SeqElems
<1>4. \A i, j \in 1 .. Len(queue') : queue'[i] = queue'[j] /\ queue'[i] \notin Halts => i = j
  BY <1>2 DEF InOnePlace
<1>5. hand' \notin Halts => hand' \notin Elems(queue')
  <2>1. ASSUME NEW i \in 1 .. Len(queue'), queue'[i] = hand', hand' \notin Halts PROVE FALSE
    <3>1. 1 \in 1 .. Len(queue) /\ i + 1 # 1
      BY <1>2
    <3> QED
      BY <1>2, <2>1, <3>1 DEF InOnePlace
  <2> QED
    BY <2>1 DEF Elems
<1> QED
  BY <1>2, <1>3, <1>4, <1>5 DEF InOnePlace, Elems

\* Without a channel and without a trigger in hand, what is left is boxed.
LEMMA Gone ==
  ASSUME queue' = <<>>, hand' = None
  PROVE  /\ queue' \in Seq(Triggers) /\ Elems(queue') = {}
         /\ InOnePlace' /\ NotBoxedYet'
<1>1. Elems(queue') = {}
  BY DEF Elems
<1>2. \A c \in Reqs : hand' # Http(c)
  BY TriggerFacts
<1> QED
  BY <1>1, <1>2 DEF InOnePlace, NotBoxedYet, Elems

-----------------------------------------------------------------------------
(***************************************************************************)
(* The invariant, action by action.                                        *)
(***************************************************************************)
LEMMA Arrivals ==
  ASSUME Inv, (\E c \in Reqs : HttpArrives(c)) \/ (\E m \in Halts : HaltArrives(m))
  PROVE  Inv'
<1> USE DEF Inv
<1>1. /\ UNCHANGED <<pc, hand, box, slots, fetches, resuming>>
      /\ Full' = Full
  BY DEF HttpArrives, HaltArrives, Full
<1>2. pc \notin {"closing", "closed", "cancelled"}
  BY DEF HttpArrives, HaltArrives, Arrives, Listening
<1>3. OneSlotPerReplier' /\ SlotsBoxed' /\ Ends'
  BY <1>1, <1>2 DEF OneSlotPerReplier, SlotsBoxed, Ends, Elems
<1>4. ASSUME NEW c \in Reqs, HttpArrives(c) PROVE Inv'
  <2>1. /\ queue' = Append(queue, Http(c)) /\ Http(c) \in Triggers
        /\ reply[c] = "none" /\ reply' = [reply EXCEPT ![c] = "pending"]
    BY <1>4, TriggerFacts DEF HttpArrives, Arrives
  <2>2. Http(c) \notin Elems(queue) /\ hand # Http(c) /\ box[c] = "none"
    BY <2>1 DEF Fresh
  <2>3. /\ queue' \in Seq(Triggers) /\ Elems(queue') = Elems(queue) \cup {Http(c)}
        /\ InOnePlace'
    BY <1>1, <2>1, <2>2, Sent
  <2>4. reply' \in [Reqs -> {"none", "pending", "value", "empty", "dropped"}]
        /\ reply'[c] = "pending" /\ \A d \in Reqs \ {c} : reply'[d] = reply[d]
    BY <2>1 DEF TypeOK
  <2>5. TypeOK'
    BY <1>1, <2>3, <2>4 DEF TypeOK
  <2>6. \A d \in Reqs : Http(d) \in Elems(queue') <=> Http(d) \in Elems(queue) \/ d = c
    BY <2>3, TriggerFacts
  <2>7. Elems(queue)' = Elems(queue')
    BY DEF Elems
  <2>8. Fresh' /\ NotBoxedYet' /\ Owed'
    BY <1>1, <2>2, <2>4, <2>6, <2>7 DEF Fresh, NotBoxedYet, Owed
  <2> QED
    BY <1>3, <2>3, <2>5, <2>8
<1>5. ASSUME NEW m \in Halts, HaltArrives(m) PROVE Inv'
  <2>1. queue' = Append(queue, m) /\ m \in Triggers /\ UNCHANGED reply
    BY <1>5 DEF HaltArrives, Arrives, Triggers
  <2>2. /\ queue' \in Seq(Triggers) /\ Elems(queue') = Elems(queue) \cup {m}
        /\ InOnePlace'
    BY <1>1, <2>1, Sent
  <2>3. TypeOK'
    BY <1>1, <2>1, <2>2 DEF TypeOK
  <2>4. \A d \in Reqs : Http(d) \in Elems(queue') <=> Http(d) \in Elems(queue)
    BY <2>2, TriggerFacts
  <2>5. Elems(queue)' = Elems(queue')
    BY DEF Elems
  <2>6. Fresh' /\ NotBoxedYet' /\ Owed'
    BY <1>1, <2>1, <2>4, <2>5 DEF Fresh, NotBoxedYet, Owed
  <2> QED
    BY <1>3, <2>2, <2>3, <2>6
<1> QED
  BY <1>4, <1>5

LEMMA Callbacks ==
  ASSUME Inv, NEW c \in Reqs, Callback(c)
  PROVE  Inv'
<1> USE DEF Inv
<1>1. /\ UNCHANGED <<pc, hand, queue, slots, fetches, resuming>>
      /\ box[c] = "full"
      /\ box' = [box EXCEPT ![c] = "taken"]
      /\ reply' = [reply EXCEPT ![c] = "value"]
  BY DEF Callback
<1>2. /\ box'[c] = "taken" /\ \A d \in Reqs \ {c} : box'[d] = box[d]
      /\ reply'[c] = "value" /\ \A d \in Reqs \ {c} : reply'[d] = reply[d]
  BY <1>1 DEF TypeOK
<1>3. TypeOK'
  BY <1>1 DEF TypeOK
<1>4. Full' = Full \ {c}
  BY <1>1, <1>2 DEF Full
<1>5. OneSlotPerReplier' /\ SlotsBoxed'
  BY <1>1, <1>2, <1>4, SlotsKept
<1>6. InOnePlace' /\ Ends'
  BY <1>1, <1>4 DEF InOnePlace, Ends, Elems
<1>7. Elems(queue)' = Elems(queue)
  BY <1>1 DEF Elems
<1>8. Fresh' /\ NotBoxedYet' /\ Owed'
  BY <1>1, <1>2, <1>4, <1>7 DEF Fresh, NotBoxedYet, Owed
<1> QED
  BY <1>3, <1>5, <1>6, <1>8

\* Fetches and the places of the task that touch neither requests nor slots.
LEMMA OtherSteps ==
  ASSUME Inv, UNCHANGED <<hand, queue, box, slots, reply>>, TypeOK',
         pc' = pc \/ pc' \notin {"call", "closing", "closed", "cancelled"}
  PROVE  Inv'
<1> USE DEF Inv
<1>1. Full' = Full /\ Elems(queue)' = Elems(queue) /\ Elems(slots)' = Elems(slots)
  BY DEF Full, Elems
<1>2. Fresh' /\ NotBoxedYet' /\ Owed' /\ SlotsBoxed'
  BY <1>1 DEF Fresh, NotBoxedYet, Owed, SlotsBoxed
<1>3. OneSlotPerReplier'
  BY <1>1 DEF OneSlotPerReplier
<1>4. InOnePlace'
  BY <1>1 DEF InOnePlace
<1>5. Ends'
  BY <1>1 DEF Ends
<1> QED
  BY <1>2, <1>3, <1>4, <1>5

LEMMA Receiving ==
  ASSUME Inv, Receives
  PROVE  Inv'
<1> USE DEF Inv
<1>1. /\ pc = "waiting" /\ pc' = "checkpoint" /\ queue # <<>>
      /\ hand' = Head(queue) /\ queue' = Tail(queue)
      /\ UNCHANGED <<box, slots, fetches, resuming, reply>>
  BY DEF Receives
<1>2. /\ queue' \in Seq(Triggers) /\ hand' \in Triggers
      /\ Elems(queue) = Elems(queue') \cup {hand'}
      /\ InOnePlace'
  BY <1>1, Taken
<1>3. hand' # None
  BY <1>2, TriggerFacts
<1>4. TypeOK'
  BY <1>1, <1>2, <1>3 DEF TypeOK
<1>5. Full' = Full /\ Elems(slots)' = Elems(slots) /\ Elems(queue)' = Elems(queue')
  BY <1>1 DEF Full, Elems
<1>6. hand = None
  BY <1>1 DEF TypeOK
<1>7. Fresh' /\ NotBoxedYet'
  BY <1>1, <1>2, <1>5 DEF Fresh, NotBoxedYet
<1>8. Owed'
  BY <1>1, <1>2, <1>5, <1>6, TriggerFacts DEF Owed
<1>9. OneSlotPerReplier' /\ SlotsBoxed' /\ Ends'
  BY <1>1, <1>5 DEF OneSlotPerReplier, SlotsBoxed, Ends
<1> QED
  BY <1>2, <1>4, <1>7, <1>8, <1>9

\* The loop is left: the channel goes, and what the trigger in hand asks for
\* is dropped (cs) or in its box.
LEMMA Leaving ==
  ASSUME Inv, NEW cs \in SUBSET Reqs,
         queue' = <<>>, hand' = None, reply' = DroppedWith(QueuedHttp \cup cs),
         TypeOK', OneSlotPerReplier', SlotsBoxed', pc' # "closed",
         Full \subseteq Full',
         \A c \in Reqs : reply[c] = "none" => box'[c] = "none",
         \A c \in Reqs : hand = Http(c) => c \in cs \cup Full'
  PROVE  Inv'
<1> USE DEF Inv
<1>1. Elems(queue') = {} /\ InOnePlace' /\ NotBoxedYet' /\ \A c \in Reqs : hand' # Http(c)
  BY Gone, TriggerFacts
<1>2. Elems(queue)' = {}
  BY <1>1 DEF Elems
<1>3. \A c \in Reqs : reply'[c] = IF Http(c) \in Elems(queue) \/ c \in cs
                                  THEN "dropped" ELSE reply[c]
  BY DEF DroppedWith, QueuedHttp
<1>4. Fresh'
  BY <1>1, <1>2, <1>3 DEF Fresh
<1>5. Owed'
  BY <1>3 DEF Owed
<1>6. Ends'
  BY DEF Ends, TypeOK
<1> QED
  BY <1>1, <1>4, <1>5, <1>6

LEMMA DroppedType ==
  ASSUME TypeOK, NEW cs
  PROVE  DroppedWith(cs) \in [Reqs -> {"none", "pending", "value", "empty", "dropped"}]
BY DEF TypeOK, DroppedWith

LEMMA Departures ==
  ASSUME Inv, StartFails \/ LeavesOnHalt \/ CallFails \/ Cancelled
  PROVE  Inv'
<1> USE DEF Inv
<1>1. UNCHANGED <<box, resuming>> /\ queue' = <<>> /\ hand' \in {hand, None}
  BY DEF StartFails, LeavesOnHalt, CallFails, Cancelled, Leave
<1>2. Full' = Full /\ Full \subseteq Full'
  BY <1>1 DEF Full
<1>3. queue' \in Seq(Triggers)
  BY <1>1
<1>4. \A c \in Reqs : reply[c] = "none" => box'[c] = "none"
  BY <1>1 DEF Fresh
<1>5. CASE StartFails
  <2>1. /\ pc = "starting" /\ pc' = "closing" /\ hand' = None /\ UNCHANGED slots
        /\ reply' = DroppedWith(QueuedHttp \cup {}) /\ fetches' \in SUBSET Fetches
    BY <1>5 DEF StartFails, Leave
  <2>2. TypeOK'
    BY <1>1, <1>3, <2>1, DroppedType DEF TypeOK
  <2>3. OneSlotPerReplier' /\ SlotsBoxed'
    BY <1>1, <1>2, <2>1, SlotsKept
  <2>4. \A c \in Reqs : hand # Http(c)
    BY <2>1, TriggerFacts DEF TypeOK
  <2>5. {} \in SUBSET Reqs /\ pc' # "closed" /\ \A c \in Reqs : hand = Http(c) => c \in {} \cup Full'
    BY <2>1, <2>4
  <2> HIDE DEF Inv
  <2> QED
    BY <1>1, <1>2, <1>4, <2>1, <2>2, <2>3, <2>5, Leaving
<1>6. CASE LeavesOnHalt
  <2>1. /\ pc = "checkpoint" /\ pc' = "closing" /\ hand' = None /\ hand \in Halts
        /\ slots' = CleanedUp(slots) /\ UNCHANGED fetches
        /\ reply' = DroppedWith(QueuedHttp \cup {})
    BY <1>6 DEF LeavesOnHalt, Leave
  <2>2. slots' \in Seq(Reqs \cup {None}) /\ OneSlotPerReplier' /\ SlotsBoxed'
    BY <1>1, <2>1, SlotsCleaned DEF TypeOK
  <2>3. TypeOK'
    BY <1>1, <1>3, <2>1, <2>2, DroppedType DEF TypeOK
  <2>4. \A c \in Reqs : hand # Http(c)
    BY <2>1, TriggerFacts
  <2>5. {} \in SUBSET Reqs /\ pc' # "closed" /\ \A c \in Reqs : hand = Http(c) => c \in {} \cup Full'
    BY <2>1, <2>4
  <2> HIDE DEF Inv
  <2> QED
    BY <1>1, <1>2, <1>4, <2>1, <2>2, <2>3, <2>5, Leaving
<1>7. CASE CallFails
  <2>1. /\ pc = "call" /\ pc' = "closing" /\ hand' = None /\ UNCHANGED <<slots, fetches>>
        /\ reply' = DroppedWith(QueuedHttp \cup {hand.req})
    BY <1>7 DEF CallFails, Leave
  <2>2. TypeOK'
    BY <1>1, <1>3, <2>1, DroppedType DEF TypeOK
  <2>3. OneSlotPerReplier' /\ SlotsBoxed'
    BY <1>1, <1>2, <2>1, SlotsKept
  <2>4. \A c \in Reqs : hand = Http(c) => c = hand.req
    BY TriggerFacts
  <2>5. DroppedWith(QueuedHttp \cup {hand.req}) =
          DroppedWith(QueuedHttp \cup (Reqs \cap {hand.req}))
    BY DEF DroppedWith
  <2>6. pc' # "closed" /\ Reqs \cap {hand.req} \in SUBSET Reqs
        /\ \A c \in Reqs : hand = Http(c) => c \in (Reqs \cap {hand.req}) \cup Full'
    BY <2>1, <2>4
  <2> HIDE DEF Inv
  <2> QED
    BY <1>1, <1>2, <1>4, <2>1, <2>2, <2>3, <2>5, <2>6, Leaving
<1>8. CASE Cancelled
  <2>1. /\ pc \in {"starting", "waiting"} /\ pc' = "cancelled" /\ UNCHANGED <<hand, slots>>
        /\ fetches' = {} /\ reply' = DroppedWith(QueuedHttp \cup {})
    BY <1>8 DEF Cancelled, Listening
  <2>2. hand = None /\ hand' = None
    BY <2>1 DEF TypeOK
  <2>3. TypeOK'
    BY <1>1, <1>3, <2>1, <2>2, DroppedType DEF TypeOK
  <2>4. OneSlotPerReplier' /\ SlotsBoxed'
    BY <1>1, <1>2, <2>1, SlotsKept
  <2>5. \A c \in Reqs : hand # Http(c)
    BY <2>2, TriggerFacts
  <2>6. {} \in SUBSET Reqs /\ pc' # "closed" /\ \A c \in Reqs : hand = Http(c) => c \in {} \cup Full'
    BY <2>1, <2>5
  <2> HIDE DEF Inv
  <2> QED
    BY <1>1, <1>2, <1>4, <2>1, <2>2, <2>3, <2>4, <2>6, Leaving
<1> QED
  BY <1>5, <1>6, <1>7, <1>8

\* The reply in hand is dropped, and the loop goes on.
LEMMA Refusals ==
  ASSUME Inv, NoFetchFunction \/ NoPromise
  PROVE  Inv'
<1> USE DEF Inv
<1>1. /\ pc \in {"checkpoint", "call"} /\ pc' = "waiting" /\ hand' = None
      /\ reply' = DroppedWith({hand.req})
      /\ UNCHANGED <<queue, box, fetches, resuming>>
  BY DEF NoFetchFunction, NoPromise
<1>2. Full' = Full /\ Elems(queue)' = Elems(queue)
  BY <1>1 DEF Full, Elems
<1>3. slots' \in Seq(Reqs \cup {None}) /\ OneSlotPerReplier' /\ SlotsBoxed'
  <2>1. CASE NoFetchFunction
    BY <1>1, <2>1, SlotsCleaned DEF NoFetchFunction, TypeOK
  <2>2. CASE NoPromise
    BY <1>1, <1>2, <2>2, SlotsKept DEF NoPromise, TypeOK
  <2> QED
    BY <2>1, <2>2
<1>4. TypeOK'
  BY <1>1, <1>3, DroppedType DEF TypeOK
<1>5. \A c \in Reqs : hand' # Http(c) /\ (hand = Http(c) => c = hand.req)
  BY <1>1, TriggerFacts
<1>6. \A c \in Reqs : reply'[c] = IF c = hand.req THEN "dropped" ELSE reply[c]
  BY <1>1 DEF DroppedWith
<1>7. Fresh' /\ NotBoxedYet' /\ Owed'
  BY <1>1, <1>2, <1>5, <1>6 DEF Fresh, NotBoxedYet, Owed
<1>8. InOnePlace' /\ Ends'
  BY <1>1, <1>2 DEF InOnePlace, Ends
<1> QED
  BY <1>3, <1>4, <1>7, <1>8

LEMMA Calling ==
  ASSUME Inv, Calls
  PROVE  Inv'
<1> USE DEF Inv
<1>1. /\ pc = "checkpoint" /\ pc' = "call" /\ hand \notin Halts /\ slots' = CleanedUp(slots)
      /\ UNCHANGED <<hand, queue, box, fetches, resuming, reply>>
  BY DEF Calls
<1>2. Full' = Full /\ Elems(queue)' = Elems(queue)
  BY <1>1 DEF Full, Elems
<1>3. slots' \in Seq(Reqs \cup {None}) /\ OneSlotPerReplier' /\ SlotsBoxed'
  BY <1>1, SlotsCleaned DEF TypeOK
<1>4. TypeOK'
  BY <1>1, <1>3 DEF TypeOK
<1>5. Fresh' /\ NotBoxedYet' /\ Owed' /\ InOnePlace' /\ Ends'
  BY <1>1, <1>2 DEF Fresh, NotBoxedYet, Owed, InOnePlace, Ends
<1> QED
  BY <1>3, <1>4, <1>5

\* The request in hand gets a box and a slot.
LEMMA Keeping ==
  ASSUME Inv, pc = "call", AddReplier(hand.req), hand' = None,
         NEW how \in {"full", "deaf"}, box' = [box EXCEPT ![hand.req] = how]
  PROVE  /\ hand.req \in Reqs /\ hand = Http(hand.req)
         /\ box' \in [Reqs -> {"none", "full", "deaf", "taken"}]
         /\ box'[hand.req] = how /\ \A c \in Reqs \ {hand.req} : box'[c] = box[c]
         /\ Full' = Full \cup {hand.req}
         /\ slots' \in Seq(Reqs \cup {None})
         /\ OneSlotPerReplier' /\ SlotsBoxed'
<1> USE DEF Inv
<1>1. hand \in Triggers /\ hand \notin Halts
  BY TriggerFacts DEF TypeOK, Ends
<1>2. hand.req \in Reqs /\ hand = Http(hand.req)
  BY <1>1, TriggerFacts
<1>3. box[hand.req] = "none"
  BY <1>2 DEF NotBoxedYet
<1>4. /\ box' \in [Reqs -> {"none", "full", "deaf", "taken"}]
      /\ box'[hand.req] = how /\ \A c \in Reqs \ {hand.req} : box'[c] = box[c]
  BY <1>2 DEF TypeOK
<1>5. hand.req \notin Full /\ Full' = Full \cup {hand.req}
  BY <1>2, <1>3, <1>4 DEF Full
<1>6. slots \in Seq(Reqs \cup {None})
  BY DEF TypeOK
<1>7. /\ OneSlotPerReplier' /\ slots' \in Seq(Reqs \cup {None})
      /\ Elems(slots') \subseteq Full' \cup {None}
  <2> HIDE DEF Inv
  <2>1. OneSlotPerReplier
    BY DEF Inv
  <2> QED
    BY <1>2, <1>5, <1>6, <2>1, PutKeeps
<1>8. SlotsBoxed'
  <2>1. Elems(slots)' = Elems(slots')
    BY DEF Elems
  <2> QED
    BY <1>7, <2>1, WorkerAssumption DEF SlotsBoxed, Full
<1> QED
  BY <1>2, <1>4, <1>5, <1>7, <1>8

LEMMA Promises ==
  ASSUME Inv, Keeps \/ KeepsInVain
  PROVE  Inv'
<1> DEFINE r == hand.req
<1>1. pc = "call" /\ AddReplier(r) /\ hand' = None /\ UNCHANGED <<fetches, resuming>>
  BY DEF Keeps, KeepsInVain, Leave
<1>2. ASSUME NEW how \in {"full", "deaf"}, box' = [box EXCEPT ![r] = how]
      PROVE  /\ r \in Reqs /\ hand = Http(r)
             /\ box' \in [Reqs -> {"none", "full", "deaf", "taken"}]
             /\ \A c \in Reqs \ {r} : box'[c] = box[c]
             /\ Full' = Full \cup {r}
             /\ slots' \in Seq(Reqs \cup {None})
             /\ OneSlotPerReplier' /\ SlotsBoxed'
  BY <1>1, <1>2, Keeping
<1>3. /\ r \in Reqs /\ hand = Http(r)
      /\ box' \in [Reqs -> {"none", "full", "deaf", "taken"}]
      /\ \A c \in Reqs \ {r} : box'[c] = box[c]
      /\ Full' = Full \cup {r}
      /\ slots' \in Seq(Reqs \cup {None})
      /\ OneSlotPerReplier' /\ SlotsBoxed'
  BY <1>2 DEF Keeps, KeepsInVain
<1> HIDE DEF r
<1> USE DEF Inv
<1>4. \A c \in Reqs : reply[c] = "none" => c # r /\ box'[c] = "none"
  BY <1>3 DEF Fresh
<1>5. \A c \in Reqs : hand = Http(c) => c = r
  BY <1>3, TriggerFacts
<1>6. CASE Keeps
  <2>1. pc' = "then" /\ UNCHANGED <<queue, reply>>
    BY <1>6 DEF Keeps
  <2>2. TypeOK'
    BY <1>1, <1>3, <2>1 DEF TypeOK
  <2>3. Elems(queue)' = Elems(queue)
    BY <2>1 DEF Elems
  <2>4. \A c \in Reqs : hand' # Http(c)
    BY <1>1, TriggerFacts
  <2>5. Fresh'
    BY <1>4, <2>1, <2>3, <2>4 DEF Fresh
  <2>6. Http(r) \notin Elems(queue)
    <3>1. hand # None /\ hand \notin Halts
      BY <1>3, TriggerFacts
    <3> QED
      BY <1>3, <3>1 DEF InOnePlace
  <2>7. NotBoxedYet'
    BY <1>3, <2>3, <2>4, <2>6 DEF NotBoxedYet
  <2>8. Owed'
    BY <1>3, <1>5, <2>1, <2>3 DEF Owed
  <2>9. InOnePlace' /\ Ends'
    BY <1>1, <2>1, <2>3 DEF InOnePlace, Ends
  <2> QED
    BY <1>3, <2>2, <2>5, <2>7, <2>8, <2>9
<1>7. CASE KeepsInVain
  <2>1. /\ pc' = "closing" /\ queue' = <<>> /\ reply' = DroppedWith(QueuedHttp \cup {})
    BY <1>7 DEF KeepsInVain, Leave
  <2>2. TypeOK'
    <3>1. queue' \in Seq(Triggers)
      BY <2>1
    <3> QED
      BY <1>1, <1>3, <2>1, <3>1, DroppedType DEF TypeOK
  <2>3. /\ {} \in SUBSET Reqs /\ pc' # "closed" /\ Full \subseteq Full'
        /\ \A c \in Reqs : hand = Http(c) => c \in {} \cup Full'
        /\ \A c \in Reqs : reply[c] = "none" => box'[c] = "none"
    BY <1>3, <1>4, <1>5, <2>1
  <2> HIDE DEF Inv
  <2> QED
    BY <1>1, <1>3, <2>1, <2>2, <2>3, Leaving
<1> QED
  BY <1>6, <1>7

\* Drop answers every replier that is in its box.
LEMMA Closing ==
  ASSUME Inv, Closes \/ CancelledClosing
  PROVE  Inv'
<1> USE DEF Inv
<1>1. /\ pc = "closing" /\ pc' = "closed" /\ DropState /\ UNCHANGED <<hand, queue, resuming>>
      /\ fetches' \in {fetches, {}}
  BY DEF Closes, CancelledClosing
<1>2. queue = <<>> /\ hand = None
  BY <1>1 DEF Ends, TypeOK
<1>3. Answered = Full
  <2>1. ASSUME NEW c \in Full PROVE c \in Elems(slots)
    <3>1. PICK i \in 1 .. Len(slots) : slots[i] = c
      BY DEF OneSlotPerReplier
    <3> QED
      BY <3>1 DEF Elems
  <2> QED
    BY <2>1 DEF Answered
<1>4. /\ \A c \in Reqs : box'[c] = IF c \in Full THEN "taken" ELSE box[c]
      /\ \A c \in Reqs : reply'[c] = IF c \in Full THEN "empty" ELSE reply[c]
      /\ slots' = <<>>
  BY <1>1, <1>3 DEF DropState
<1>5. Full' = {}
  BY <1>4 DEF Full
<1>6. TypeOK'
  <2>1. box' \in [Reqs -> {"none", "full", "deaf", "taken"}]
        /\ reply' \in [Reqs -> {"none", "pending", "value", "empty", "dropped"}]
    BY <1>1 DEF DropState, TypeOK
  <2>2. slots' \in Seq(Reqs \cup {None})
    BY <1>4
  <2> QED
    BY <1>1, <1>2, <2>1, <2>2 DEF TypeOK
<1>7. OneSlotPerReplier' /\ SlotsBoxed'
  BY <1>4, <1>5 DEF OneSlotPerReplier, SlotsBoxed, Elems
<1>8. InOnePlace' /\ NotBoxedYet' /\ Elems(queue') = {} /\ \A c \in Reqs : hand' # Http(c)
  BY <1>1, <1>2, Gone, TriggerFacts
<1>9. Elems(queue)' = {}
  BY <1>8 DEF Elems
<1>10. Fresh' /\ Owed'
  <2>1. Elems(queue) = {} /\ \A c \in Reqs : hand # Http(c)
    BY <1>1, <1>8
  <2> QED
    BY <1>4, <1>8, <1>9, <2>1 DEF Fresh, Owed, Full
<1>11. Ends'
  BY <1>1, <1>2, <1>5 DEF Ends
<1> QED
  BY <1>6, <1>7, <1>8, <1>10, <1>11

LEMMA Step ==
  ASSUME Inv, [Next]_vars
  PROVE  Inv'
<1>1. CASE UNCHANGED vars
  BY <1>1 DEF vars, Inv, TypeOK, Fresh, InOnePlace, NotBoxedYet, Owed, Full,
              OneSlotPerReplier, SlotsBoxed, Ends, Elems
<1>2. CASE \E c \in Reqs : HttpArrives(c)
  BY <1>2, Arrivals
<1>3. CASE \E m \in Halts : HaltArrives(m)
  BY <1>3, Arrivals
<1>4. CASE \E c \in Reqs : Callback(c)
  BY <1>4, Callbacks
<1>5. CASE \E f \in Fetches : StartsFetch(f) \/ FetchResumes(f)
  <2>1. /\ UNCHANGED <<pc, hand, queue, box, slots, reply>>
        /\ fetches' \in SUBSET Fetches /\ resuming' \in Fetches \cup {None}
    BY <1>5 DEF StartsFetch, FetchResumes, Inv, TypeOK
  <2>2. TypeOK'
    BY <2>1 DEF Inv, TypeOK
  <2> QED
    BY <2>1, <2>2, OtherSteps
<1>6. CASE Evaluated \/ NextEvent \/ FetchEnds
  <2>1. /\ UNCHANGED <<hand, queue, box, slots, reply>>
        /\ fetches' \in SUBSET Fetches /\ resuming' \in Fetches \cup {None}
        /\ pc' = pc \/ (pc' = "waiting" /\ pc \in {"starting", "then"})
    BY <1>6 DEF Evaluated, NextEvent, FetchEnds, Inv, TypeOK
  <2>2. TypeOK'
    BY <2>1 DEF Inv, TypeOK
  <2> QED
    BY <2>1, <2>2, OtherSteps
<1>7. CASE Receives
  BY <1>7, Receiving
<1>8. CASE StartFails \/ LeavesOnHalt \/ CallFails \/ Cancelled
  BY <1>8, Departures
<1>9. CASE NoFetchFunction \/ NoPromise
  BY <1>9, Refusals
<1>10. CASE Calls
  BY <1>10, Calling
<1>11. CASE Keeps \/ KeepsInVain
  BY <1>11, Promises
<1>12. CASE Closes \/ CancelledClosing
  BY <1>12, Closing
<1> QED
  BY <1>1, <1>2, <1>3, <1>4, <1>5, <1>6, <1>7, <1>8, <1>9, <1>10, <1>11, <1>12
     DEF Next, TaskStep, Over

LEMMA Initially ==
  ASSUME Init
  PROVE  Inv
<1>1. Elems(queue) = {} /\ Elems(slots) = {} /\ Full = {}
  BY DEF Init, Elems, Full
<1>2. TypeOK
  BY DEF Init, TypeOK
<1>3. \A c \in Reqs : hand # Http(c)
  BY TriggerFacts DEF Init
<1> QED
  BY <1>1, <1>2, <1>3 DEF Init, Inv, Fresh, InOnePlace, NotBoxedYet, Owed,
                          OneSlotPerReplier, SlotsBoxed, Ends
-----------------------------------------------------------------------------
\* The state of a worker, its task and its channel, is well-formed, and the
\* loop holds a trigger from recv() to the end of its turn only.
THEOREM Typing == Spec => []TypeOK
<1>1. Inv => TypeOK
  BY DEF Inv
<1> QED
  BY Initially, Step, <1>1, PTL DEF Spec

\* The reuse of slots by add_replier loses no replier: each that is still in
\* its box is pointed to by one slot, where Drop for WorkerState finds it.
THEOREM RepliersAreKept == Spec => []OneSlotPerReplier
<1>1. Inv => OneSlotPerReplier
  BY DEF Inv
<1> QED
  BY Initially, Step, <1>1, PTL DEF Spec

\* When close_state is through, no request that was sent to the worker still
\* waits for it, in whatever way the loop was left.
THEOREM ClosingAnswers == Spec => []ClosedOwesNothing
<1>1. Inv => ClosedOwesNothing
  <2> SUFFICES ASSUME Inv, pc = "closed", NEW c \in Reqs, reply[c] = "pending"
               PROVE  FALSE
    BY DEF ClosedOwesNothing
  <2>1. Full = {} /\ Elems(queue) = {}
    BY DEF Inv, Ends, Elems
  <2>2. hand # Http(c)
    BY TriggerFacts DEF Inv, TypeOK
  <2> QED
    BY <2>1, <2>2 DEF Inv, Owed
<1> QED
  BY Initially, Step, <1>1, PTL DEF Spec

\* add_replier makes a slot only when every slot has a live replier: the list
\* does not grow with the number of requests, only with how many wait at once.
THEOREM SlotsAreReused == Spec => GrowsWhenFullOnly
<1> DEFINE Full1 == Len(slots') > Len(slots) => \A i \in 1 .. Len(slots) : slots[i] \in Full
<1>1. ASSUME Inv, [Next]_vars PROVE [Full1]_vars
  <2>1. slots \in Seq(Reqs \cup {None})
    BY <1>1 DEF Inv, TypeOK
  <2>2. ASSUME NEW c, AddReplier(c), Len(slots') > Len(slots)
        PROVE  \A i \in 1 .. Len(slots) : slots[i] \in Full
    <3>1. /\ CleanedUp(slots) \in Seq(Reqs \cup {None})
          /\ Len(CleanedUp(slots)) = Len(slots)
      BY <2>1, Cleaned
    <3>2. ASSUME NEW i, slots' = [CleanedUp(slots) EXCEPT ![i] = c] PROVE FALSE
      BY <2>2, <3>1, <3>2
    <3>3. FreeSlots(CleanedUp(slots)) = {}
      BY <2>2, <3>2 DEF AddReplier, Put
    <3>4. \A i \in 1 .. Len(slots) : CleanedUp(slots)[i] # None
      BY <3>1, <3>3 DEF FreeSlots
    <3> QED
      BY <3>4 DEF CleanedUp
  <2>3. CASE Keeps \/ KeepsInVain
    BY <2>2, <2>3 DEF Keeps, KeepsInVain
  <2>4. CASE slots' = slots \/ slots' = CleanedUp(slots) \/ slots' = <<>>
    <3>1. Len(CleanedUp(slots)) = Len(slots) /\ Len(slots) \in Nat
      BY <2>1, Cleaned
    <3> QED
      BY <2>4, <3>1
  <2>5. slots' = slots \/ slots' = CleanedUp(slots) \/ slots' = <<>> \/ Keeps \/ KeepsInVain
    BY <1>1 DEF Next, TaskStep, vars, HttpArrives, HaltArrives, Callback, StartsFetch, Evaluated,
       StartFails, Receives, LeavesOnHalt, NoFetchFunction, Calls, CallFails, NoPromise, NextEvent,
       FetchResumes, FetchEnds, Closes, CancelledClosing, DropState, Cancelled, Over
  <2> QED
    BY <2>3, <2>4, <2>5
<1> QED
  BY Initially, Step, <1>1, PTL DEF Spec, GrowsWhenFullOnly
-----------------------------------------------------------------------------
(***************************************************************************)
(* The Halt in the channel.                                                *)
(***************************************************************************)
LEMMA HaltKeepsPlace ==
  ASSUME TypeOK, NEW n \in Nat, HaltAhead(n), hand' = hand,
         queue' = queue \/ \E m \in Triggers : queue' = Append(queue, m)
  PROVE  HaltAhead(n)'
<1>1. queue \in Seq(Triggers) /\ Len(queue) \in Nat
  BY DEF TypeOK
<1>2. CASE queue' = queue
  BY <1>2 DEF HaltAhead
<1>3. ASSUME NEW m \in Triggers, queue' = Append(queue, m) PROVE HaltAhead(n)'
  <2>1. Len(queue') = Len(queue) + 1 /\ \A i \in 1 .. Len(queue) : queue'[i] = queue[i]
    BY <1>1, <1>3
  <2>2. CASE hand \in Halts
    BY <2>2 DEF HaltAhead
  <2>3. CASE hand \notin Halts
    <3>1. n \in 1 .. Len(queue) /\ \A i \in 1 .. n - 1 : i \in 1 .. Len(queue)
      BY <1>1, <2>3 DEF HaltAhead
    <3>2. n \in 1 .. Len(queue')
      BY <1>1, <2>1, <3>1
    <3> QED
      BY <2>1, <2>3, <3>1, <3>2 DEF HaltAhead
  <2> QED
    BY <2>2, <2>3
<1> QED
  BY <1>2, <1>3

\* Taking a trigger brings the Halt nearer, into the hand in the end.
LEMMA HaltMovesUp ==
  ASSUME TypeOK, NEW n \in Nat, HaltAhead(n), Receives
  PROVE  n > 0 /\ HaltAhead(n - 1)'
<1>1. /\ hand \notin Halts /\ queue \in Seq(Triggers) /\ queue # <<>>
      /\ hand' = Head(queue) /\ queue' = Tail(queue)
  BY NoTrigger DEF Receives, TypeOK, Triggers
<1>2. /\ n \in 1 .. Len(queue) /\ queue[n] \in Halts
      /\ \A i \in 1 .. n - 1 : queue[i] \notin Halts
  BY <1>1 DEF HaltAhead
<1>3. /\ Len(queue') = Len(queue) - 1 /\ Len(queue) \in Nat /\ hand' = queue[1]
      /\ \A i \in 1 .. Len(queue') : queue'[i] = queue[i + 1]
  BY <1>1
<1>4. CASE n = 1
  BY <1>2, <1>3, <1>4 DEF HaltAhead
<1>5. CASE n > 1
  <2>1. 1 \in 1 .. n - 1 /\ n - 1 \in 1 .. Len(queue')
    BY <1>2, <1>3, <1>5
  <2>2. \A i \in 1 .. (n - 1) - 1 : i + 1 \in 1 .. n - 1 /\ i \in 1 .. Len(queue')
    BY <1>2, <1>3
  <2>3. (n - 1) + 1 = n
    OBVIOUS
  <2>4. hand' \notin Halts /\ queue'[n - 1] \in Halts
    BY <1>2, <1>3, <2>1, <2>3
  <2>5. \A i \in 1 .. (n - 1) - 1 : queue'[i] \notin Halts
    BY <1>2, <1>3, <2>2
  <2> QED
    BY <1>5, <2>1, <2>4, <2>5 DEF HaltAhead
<1> QED
  BY <1>2, <1>4, <1>5

\* A turn that ends without leaving the loop was not that of a Halt.
LEMMA TurnGoesOn ==
  ASSUME TypeOK, Ends, NEW n \in Nat, HaltAhead(n),
         Evaluated \/ NoFetchFunction \/ Calls \/ NoPromise \/ Keeps \/ NextEvent
  PROVE  HaltAhead(n)' /\ TurnLeft' < TurnLeft
<1>1. queue' = queue
  BY DEF Evaluated, NoFetchFunction, Calls, NoPromise, Keeps, NextEvent
<1>2. hand' = hand \/ (hand \notin Halts /\ hand' \notin Halts)
  BY NoTrigger
  DEF Ends, Triggers, Evaluated, NoFetchFunction, Calls, NoPromise, Keeps, NextEvent
<1>3. HaltAhead(n)'
  BY <1>1, <1>2 DEF HaltAhead
<1>4. TurnLeft' < TurnLeft
  BY DEF TurnLeft, Evaluated, NoFetchFunction, Calls, NoPromise, Keeps, NextEvent
<1> QED
  BY <1>3, <1>4

(***************************************************************************)
(* A Halt that a pod or a monitor got into the channel is never lost nor   *)
(* overtaken before the loop is left, and every step of the loop brings it *)
(* nearer, for any number of requests and fetches and any capacity.        *)
(***************************************************************************)
THEOREM HaltsAreObeyed == Spec => HaltComesNearer
<1> DEFINE Nearer ==
      \A n \in 0 .. Len(queue) : HaltAhead(n) =>
        \/ pc' \in {"closing", "closed", "cancelled"}
        \/ HaltAhead(n)' /\ (pc' = pc \/ TurnLeft' < TurnLeft)
        \/ n > 0 /\ HaltAhead(n - 1)'
<1>1. ASSUME Inv, [Next]_vars PROVE [Nearer]_vars
  <2> SUFFICES ASSUME NEW n \in 0 .. Len(queue), HaltAhead(n),
                      pc' \notin {"closing", "closed", "cancelled"}
               PROVE  \/ HaltAhead(n)' /\ (pc' = pc \/ TurnLeft' < TurnLeft)
                      \/ n > 0 /\ HaltAhead(n - 1)'
    OBVIOUS
  <2>1. TypeOK /\ Ends /\ n \in Nat
    BY <1>1 DEF Inv
  <2>2. ASSUME pc' = pc, hand' = hand,
               queue' = queue \/ \E m \in Triggers : queue' = Append(queue, m)
        PROVE  HaltAhead(n)' /\ pc' = pc
    BY <2>1, <2>2, HaltKeepsPlace
  <2>3. CASE UNCHANGED vars \/ Over
    BY <2>2, <2>3 DEF vars, Over
  <2>4. ASSUME NEW c \in Reqs, HttpArrives(c) \/ Callback(c) PROVE HaltAhead(n)' /\ pc' = pc
    BY <2>2, <2>4, TriggerFacts DEF HttpArrives, Arrives, Callback
  <2>5. ASSUME NEW m \in Halts, HaltArrives(m) PROVE HaltAhead(n)' /\ pc' = pc
    BY <2>2, <2>5 DEF HaltArrives, Arrives, Triggers
  <2>6. ASSUME NEW f \in Fetches, StartsFetch(f) \/ FetchResumes(f)
        PROVE  HaltAhead(n)' /\ pc' = pc
    BY <2>2, <2>6 DEF StartsFetch, FetchResumes
  <2>7. CASE FetchEnds
    BY <2>2, <2>7 DEF FetchEnds
  <2>8. /\ ~ StartFails /\ ~ LeavesOnHalt /\ ~ CallFails /\ ~ KeepsInVain
        /\ ~ Closes /\ ~ CancelledClosing /\ ~ Cancelled
    BY DEF StartFails, LeavesOnHalt, CallFails, KeepsInVain, Leave, Closes, CancelledClosing,
      Cancelled
  <2> QED
    BY <1>1, <2>1, <2>3, <2>4, <2>5, <2>6, <2>7, <2>8, HaltMovesUp, TurnGoesOn DEF Next, TaskStep
<1> QED
  BY Initially, Step, <1>1, PTL DEF Spec, HaltComesNearer
=============================================================================
