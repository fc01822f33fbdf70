---------------------------- MODULE ServiceProofs ----------------------------
(***************************************************************************)
(* Serverless implements Service: what becomes of a request for a worker,  *)
(* for any number of requests, pods and slots and any capacities.  A GET   *)
(* reports what became of its worker, and a shutdown leaves no request     *)
(* without an answer.                                                      *)
(***************************************************************************)
EXTENDS ServerlessService, HaltProofs

\* A trigger for c with a type in T is in the sequence s; there is one only.
Carries(s, T, c) == \E i \in 1 .. Len(s) : s[i].type \in T /\ s[i].req = c

CarriesOnce(s, T, c) ==
  \A i, j \in 1 .. Len(s) :
    s[i].type \in T /\ s[i].req = c /\ s[j].type \in T /\ s[j].req = c => i = j

SvlTypes == Kinds \cup {"toPod"}

(***************************************************************************)
(* Where the replier of a request can be.                                  *)
(***************************************************************************)
AtHandle(c) == Carries(svlQ, SvlTypes, c)
AtTask(c) == svl.req = c
AtPod(c) == \E p \in Pods : Carries(podQ[p], {"toWorker"}, c)
AtWorker(c) == Carries(wq[c], {"http"}, c)
AtPromise(c) == c \in held[c]

(***************************************************************************)
(* It is in one place, once, and was not used.                             *)
(***************************************************************************)
OnceAtHandle(c) == CarriesOnce(svlQ, SvlTypes, c)
OnceAtPod(c) ==
  /\ \A p \in Pods : CarriesOnce(podQ[p], {"toWorker"}, c)
  /\ \A p, q \in Pods :
       Carries(podQ[p], {"toWorker"}, c) /\ Carries(podQ[q], {"toWorker"}, c) => p = q
OnceAtWorker(c) == CarriesOnce(wq[c], {"http"}, c)

OneCopy(c) == OnceAtHandle(c) /\ OnceAtPod(c) /\ OnceAtWorker(c)

OnePlace(c) ==
  /\ AtHandle(c) => ~ AtTask(c) /\ ~ AtPod(c) /\ ~ AtWorker(c) /\ ~ AtPromise(c)
  /\ AtTask(c) => ~ AtPod(c) /\ ~ AtWorker(c) /\ ~ AtPromise(c)
  /\ AtPod(c) => ~ AtWorker(c) /\ ~ AtPromise(c)
  /\ AtWorker(c) => ~ AtPromise(c)
  /\ AtHandle(c) \/ AtTask(c) \/ AtPod(c) \/ AtWorker(c) \/ AtPromise(c) => reply[c] = "pending"

WorkerReqs == {c \in Reqs : op[c].kind = "worker"}

OneReplier == \A c \in WorkerReqs : OneCopy(c) /\ OnePlace(c)

\* Triggers are of the kind of their request; the task works for workers only.
KindsMatch ==
  /\ \A i \in 1 .. Len(svlQ) :
       op[svlQ[i].req].kind = IF svlQ[i].type = "toPod" THEN "worker" ELSE svlQ[i].type
  /\ svl.req # None => op[svl.req].kind = "worker"
  /\ svl.pc = "failed" => svl.req = None
  /\ \A c \in Reqs : reply[c] = "created" => op[c].kind = "worker"

NewUnanswered == \A c \in Reqs : client[c] = "new" => reply[c] = "none"

\* A worker that began has a slot.
BegunPlaced ==
  \A c \in Reqs : worker[c] # "none" =>
    \E p \in Pods : \E i \in 1 .. Len(table[p].workers) : table[p].workers[i] = c

ServiceInv ==
  /\ OneReplier
  /\ KindsMatch
  /\ NewUnanswered
  /\ BegunPlaced
-----------------------------------------------------------------------------
(***************************************************************************)
(* A channel gets a message, and gives one.                                *)
(***************************************************************************)
LEMMA CarriesSent ==
  ASSUME NEW S, NEW s \in Seq(S), NEW m \in S, NEW T, NEW c
  PROVE  LET t == Append(s, m)
             its == m.type \in T /\ m.req = c
         IN  /\ Carries(t, T, c) <=> Carries(s, T, c) \/ its
             /\ CarriesOnce(s, T, c) /\ ~ (Carries(s, T, c) /\ its) => CarriesOnce(t, T, c)
<1> DEFINE t == Append(s, m)
           its == m.type \in T /\ m.req = c
<1>1. /\ Len(s) \in Nat /\ Len(t) = Len(s) + 1
      /\ \A i \in 1 .. Len(s) : t[i] = s[i]
      /\ t[Len(s) + 1] = m
  BY Appending
<1> HIDE DEF t
<1>2. \A i \in 1 .. Len(t) : i \in 1 .. Len(s) \/ i = Len(s) + 1
  BY <1>1
<1>3. Carries(t, T, c) => Carries(s, T, c) \/ its
  BY <1>1, <1>2 DEF Carries
<1>4. Carries(s, T, c) => Carries(t, T, c)
  <2>1. \A i \in 1 .. Len(s) : i \in 1 .. Len(t)
    BY <1>1
  <2> QED
    BY <1>1, <2>1 DEF Carries
<1>5. its => Carries(t, T, c)
  <2>1. Len(s) + 1 \in 1 .. Len(t)
    BY <1>1
  <2> QED
    BY <1>1, <2>1 DEF Carries
<1>6. CarriesOnce(s, T, c) /\ ~ (Carries(s, T, c) /\ its) => CarriesOnce(t, T, c)
  BY <1>1, <1>2 DEF Carries, CarriesOnce
<1> QED
  BY <1>3, <1>4, <1>5, <1>6 DEF t

LEMMA CarriesTaken ==
  ASSUME NEW S, NEW s \in Seq(S), s # <<>>, NEW T, NEW c
  PROVE  LET t == Tail(s)
             its == Head(s).type \in T /\ Head(s).req = c
         IN  /\ Carries(s, T, c) <=> Carries(t, T, c) \/ its
             /\ CarriesOnce(s, T, c) => CarriesOnce(t, T, c)
             /\ CarriesOnce(s, T, c) /\ its => ~ Carries(t, T, c)
<1> DEFINE t == Tail(s)
           its == Head(s).type \in T /\ Head(s).req = c
<1>1. /\ Len(s) \in Nat /\ 1 \in 1 .. Len(s) /\ Head(s) = s[1]
      /\ Len(t) = Len(s) - 1
      /\ \A i \in 1 .. Len(t) : i + 1 \in 1 .. Len(s) /\ t[i] = s[i + 1]
  BY Taking
<1> HIDE DEF t
<1>2. \A i \in 1 .. Len(s) : i # 1 => i - 1 \in 1 .. Len(t) /\ t[i - 1] = s[i]
  BY <1>1
<1>3. Carries(s, T, c) => Carries(t, T, c) \/ its
  BY <1>1, <1>2 DEF Carries
<1>4. Carries(t, T, c) \/ its => Carries(s, T, c)
  BY <1>1 DEF Carries
<1>5. CarriesOnce(s, T, c) => CarriesOnce(t, T, c)
  <2> SUFFICES ASSUME CarriesOnce(s, T, c), NEW i \in 1 .. Len(t), NEW j \in 1 .. Len(t),
                      t[i].type \in T /\ t[i].req = c, t[j].type \in T /\ t[j].req = c
               PROVE  i = j
    BY DEF CarriesOnce
  <2>1. i + 1 = j + 1
    BY <1>1 DEF CarriesOnce
  <2> QED
    BY <2>1
<1>6. CarriesOnce(s, T, c) /\ its => ~ Carries(t, T, c)
  <2> SUFFICES ASSUME CarriesOnce(s, T, c), its, NEW i \in 1 .. Len(t),
                      t[i].type \in T /\ t[i].req = c
               PROVE  FALSE
    BY DEF Carries
  <2>1. i + 1 = 1
    BY <1>1 DEF CarriesOnce
  <2> QED
    BY <2>1
<1> QED
  BY <1>3, <1>4, <1>5, <1>6 DEF t

LEMMA CarriesNothing ==
  \A T, c : ~ Carries(<<>>, T, c) /\ CarriesOnce(<<>>, T, c)
BY DEF Carries, CarriesOnce

LEMMA HandleSent ==
  ASSUME TypeInv, NEW m \in ServerlessTrigger, svlQ' = Append(svlQ, m), NEW c
  PROVE  /\ AtHandle(c)' <=> AtHandle(c) \/ m.req = c
         /\ OnceAtHandle(c) /\ ~ (AtHandle(c) /\ m.req = c) => OnceAtHandle(c)'
<1>1. svlQ \in Seq(ServerlessTrigger) /\ m.type \in SvlTypes
  BY DEF TypeInv, SvlTypeInv, SvlTypeOK, ServerlessTrigger, SvlTypes
<1> DEFINE T == SvlTypes
<1>2. /\ Carries(svlQ', T, c) <=> Carries(svlQ, T, c) \/ m.req = c
      /\ CarriesOnce(svlQ, T, c) /\ ~ (Carries(svlQ, T, c) /\ m.req = c) => CarriesOnce(svlQ', T, c)
  <2> HIDE DEF T
  <2>1. m.type \in T
    BY <1>1 DEF T
  <2> QED
    BY <1>1, <2>1, CarriesSent
<1> QED
  BY <1>2 DEF AtHandle, OnceAtHandle

LEMMA HandleTaken ==
  ASSUME TypeInv, svlQ # <<>>, svlQ' = Tail(svlQ), NEW c
  PROVE  /\ AtHandle(c) <=> AtHandle(c)' \/ Head(svlQ).req = c
         /\ OnceAtHandle(c) => OnceAtHandle(c)'
         /\ OnceAtHandle(c) /\ Head(svlQ).req = c => ~ AtHandle(c)'
<1>1. svlQ \in Seq(ServerlessTrigger) /\ Head(svlQ).type \in SvlTypes
  <2>1. svlQ \in Seq(ServerlessTrigger)
    BY DEF TypeInv, SvlTypeInv, SvlTypeOK
  <2>2. Head(svlQ) \in ServerlessTrigger
    BY <2>1, Taking
  <2> QED
    BY <2>1, <2>2 DEF ServerlessTrigger, SvlTypes
<1> DEFINE T == SvlTypes
<1>2. /\ Carries(svlQ, T, c) <=> Carries(svlQ', T, c) \/ Head(svlQ).req = c
      /\ CarriesOnce(svlQ, T, c) => CarriesOnce(svlQ', T, c)
      /\ CarriesOnce(svlQ, T, c) /\ Head(svlQ).req = c => ~ Carries(svlQ', T, c)
  <2> HIDE DEF T
  <2>1. Head(svlQ).type \in T
    BY <1>1 DEF T
  <2> QED
    BY <1>1, <2>1, CarriesTaken
<1> QED
  BY <1>2 DEF AtHandle, OnceAtHandle

LEMMA PodSent ==
  ASSUME TypeInv, NEW p \in Pods, NEW m \in PodTrigger,
         podQ' = [podQ EXCEPT ![p] = Append(@, m)], NEW c
  PROVE  LET its == m.type = "toWorker" /\ m.req = c
         IN  /\ AtPod(c)' <=> AtPod(c) \/ its
             /\ OnceAtPod(c) /\ ~ (AtPod(c) /\ its) => OnceAtPod(c)'
<1> DEFINE its == m.type = "toWorker" /\ m.req = c
           T == {"toWorker"}
           Has(q) == Carries(podQ[q], T, c)
           Had(q) == Carries(podQ'[q], T, c)
           Once(q) == CarriesOnce(podQ[q], T, c)
           OnceThen(q) == CarriesOnce(podQ'[q], T, c)
<1>1. podQ \in [Pods -> Seq(PodTrigger)]
  BY DEF TypeInv, PodTypeInv, PodTypeOK
<1>2. /\ podQ[p] \in Seq(PodTrigger) /\ podQ'[p] = Append(podQ[p], m)
      /\ \A q \in Pods : q # p => podQ'[q] = podQ[q]
  BY <1>1
<1>3. (Had(p) <=> Has(p) \/ its) /\ (Once(p) /\ ~ (Has(p) /\ its) => OnceThen(p))
  <2>1. m.type \in T /\ m.req = c <=> its
    OBVIOUS
  <2> HIDE DEF T, its
  <2> QED
    BY <1>2, <2>1, CarriesSent
<1>4. \A q \in Pods : q # p => (Had(q) <=> Has(q)) /\ (Once(q) <=> OnceThen(q))
  BY <1>2
<1>5. /\ AtPod(c) <=> \E q \in Pods : Has(q)
      /\ AtPod(c)' <=> \E q \in Pods : Had(q)
      /\ OnceAtPod(c) <=> /\ \A q \in Pods : Once(q)
                          /\ \A q, r \in Pods : Has(q) /\ Has(r) => q = r
      /\ OnceAtPod(c)' <=> /\ \A q \in Pods : OnceThen(q)
                           /\ \A q, r \in Pods : Had(q) /\ Had(r) => q = r
  BY DEF AtPod, OnceAtPod
<1> HIDE DEF its, Has, Had, Once, OnceThen
<1>6. AtPod(c)' <=> AtPod(c) \/ its
  BY <1>3, <1>4, <1>5
<1>7. OnceAtPod(c) /\ ~ (AtPod(c) /\ its) => OnceAtPod(c)'
  BY <1>3, <1>4, <1>5
<1> QED
  BY <1>6, <1>7 DEF its

LEMMA PodTaken ==
  ASSUME TypeInv, NEW p \in Pods, podQ[p] # <<>>,
         podQ' = [podQ EXCEPT ![p] = Tail(@)], NEW c
  PROVE  LET its == Head(podQ[p]).type = "toWorker" /\ Head(podQ[p]).req = c
         IN  /\ AtPod(c) <=> AtPod(c)' \/ its
             /\ OnceAtPod(c) => OnceAtPod(c)'
             /\ OnceAtPod(c) /\ its => ~ AtPod(c)'
<1> DEFINE its == Head(podQ[p]).type = "toWorker" /\ Head(podQ[p]).req = c
           T == {"toWorker"}
           Has(q) == Carries(podQ[q], T, c)
           Had(q) == Carries(podQ'[q], T, c)
           Once(q) == CarriesOnce(podQ[q], T, c)
           OnceThen(q) == CarriesOnce(podQ'[q], T, c)
<1>1. podQ \in [Pods -> Seq(PodTrigger)]
  BY DEF TypeInv, PodTypeInv, PodTypeOK
<1>2. /\ podQ[p] \in Seq(PodTrigger) /\ podQ'[p] = Tail(podQ[p])
      /\ \A q \in Pods : q # p => podQ'[q] = podQ[q]
  BY <1>1
<1>3. /\ Has(p) <=> Had(p) \/ its
      /\ Once(p) => OnceThen(p)
      /\ Once(p) /\ its => ~ Had(p)
  <2>1. Head(podQ[p]).type \in T /\ Head(podQ[p]).req = c <=> its
    OBVIOUS
  <2> HIDE DEF T, its
  <2> QED
    BY <1>2, <2>1, CarriesTaken
<1>4. \A q \in Pods : q # p => (Had(q) <=> Has(q)) /\ (Once(q) <=> OnceThen(q))
  BY <1>2
<1>5. /\ AtPod(c) <=> \E q \in Pods : Has(q)
      /\ AtPod(c)' <=> \E q \in Pods : Had(q)
      /\ OnceAtPod(c) <=> /\ \A q \in Pods : Once(q)
                          /\ \A q, r \in Pods : Has(q) /\ Has(r) => q = r
      /\ OnceAtPod(c)' <=> /\ \A q \in Pods : OnceThen(q)
                           /\ \A q, r \in Pods : Had(q) /\ Had(r) => q = r
  BY DEF AtPod, OnceAtPod
<1> HIDE DEF its, Has, Had, Once, OnceThen
<1>6. AtPod(c) <=> AtPod(c)' \/ its
  BY <1>3, <1>4, <1>5
<1>7. OnceAtPod(c) => OnceAtPod(c)'
  BY <1>3, <1>4, <1>5
<1>8. OnceAtPod(c) /\ its => ~ AtPod(c)'
  BY <1>3, <1>4, <1>5
<1> QED
  BY <1>6, <1>7, <1>8 DEF its

LEMMA WorkerSent ==
  ASSUME TypeInv, NEW w \in Reqs, NEW m \in WorkerTrigger,
         wq' = [wq EXCEPT ![w] = Append(@, m)], NEW c \in Reqs
  PROVE  LET its == w = c /\ m.type = "http" /\ m.req = c
         IN  /\ AtWorker(c)' <=> AtWorker(c) \/ its
             /\ OnceAtWorker(c) /\ ~ (AtWorker(c) /\ its) => OnceAtWorker(c)'
<1> DEFINE T == {"http"}
<1>1. wq[c] \in Seq(WorkerTrigger) /\ wq'[c] = IF w = c THEN Append(wq[c], m) ELSE wq[c]
  BY DEF TypeInv, PodTypeInv, PodTypeOK
<1>2. m.type \in T <=> m.type = "http"
  OBVIOUS
<1> HIDE DEF T
<1>3. CASE w = c
  <2>1. /\ Carries(wq'[c], T, c) <=> Carries(wq[c], T, c) \/ (m.type \in T /\ m.req = c)
        /\ CarriesOnce(wq[c], T, c) /\ ~ (Carries(wq[c], T, c) /\ m.type \in T /\ m.req = c)
             => CarriesOnce(wq'[c], T, c)
    BY <1>1, <1>3, CarriesSent
  <2> QED
    BY <1>2, <1>3, <2>1 DEF AtWorker, OnceAtWorker, T
<1>4. CASE w # c
  BY <1>1, <1>4 DEF AtWorker, OnceAtWorker
<1> QED
  BY <1>3, <1>4

LEMMA WorkerTaken ==
  ASSUME TypeInv, OwnTriggers, NEW w \in Reqs, wq[w] # <<>>,
         wq' = [wq EXCEPT ![w] = Tail(@)], NEW c \in Reqs
  PROVE  LET its == w = c /\ Head(wq[w]).type = "http"
         IN  /\ AtWorker(c) <=> AtWorker(c)' \/ its
             /\ OnceAtWorker(c) => OnceAtWorker(c)'
             /\ OnceAtWorker(c) /\ its => ~ AtWorker(c)'
<1> DEFINE T == {"http"}
<1>1. wq[c] \in Seq(WorkerTrigger) /\ wq'[c] = IF w = c THEN Tail(wq[c]) ELSE wq[c]
  BY DEF TypeInv, PodTypeInv, PodTypeOK
<1>2. w = c => (Head(wq[w]).type \in T /\ Head(wq[w]).req = c <=> Head(wq[w]).type = "http")
  BY <1>1, Taking DEF OwnTriggers
<1> HIDE DEF T
<1>3. CASE w = c
  <2>1. /\ Carries(wq[c], T, c) <=> Carries(wq'[c], T, c) \/ (Head(wq[c]).type \in T /\ Head(wq[c]).req = c)
        /\ CarriesOnce(wq[c], T, c) => CarriesOnce(wq'[c], T, c)
        /\ CarriesOnce(wq[c], T, c) /\ Head(wq[c]).type \in T /\ Head(wq[c]).req = c
             => ~ Carries(wq'[c], T, c)
    BY <1>1, <1>3, CarriesTaken
  <2> QED
    BY <1>2, <1>3, <2>1 DEF AtWorker, OnceAtWorker, T
<1>4. CASE w # c
  BY <1>1, <1>4 DEF AtWorker, OnceAtWorker
<1> QED
  BY <1>3, <1>4

\* By elements of the channel or by positions, it is the same.
LEMMA QueuedIsCarried ==
  ASSUME TypeInv, OwnTriggers, NEW w \in Reqs, NEW c \in Reqs
  PROVE  c \in QueuedHttp(w) <=> w = c /\ AtWorker(c)
<1>1. wq[w] \in Seq(WorkerTrigger)
  BY DEF TypeInv, PodTypeInv, PodTypeOK
<1>2. \A i \in 1 .. Len(wq[w]) :
        /\ wq[w][i] = Http(c) => wq[w][i].type = "http" /\ wq[w][i].req = c
        /\ wq[w][i].type = "http" /\ wq[w][i].req = c => wq[w][i] = Http(c)
        /\ wq[w][i].type = "http" => wq[w][i].req = w
  <2> SUFFICES ASSUME NEW i \in 1 .. Len(wq[w])
               PROVE  /\ wq[w][i] = Http(c) => wq[w][i].type = "http" /\ wq[w][i].req = c
                      /\ wq[w][i].type = "http" /\ wq[w][i].req = c => wq[w][i] = Http(c)
                      /\ wq[w][i].type = "http" => wq[w][i].req = w
    OBVIOUS
  <2>1. wq[w][i] \in WorkerTrigger
    BY <1>1
  <2>2. wq[w][i].type = "http" /\ wq[w][i].req = c => wq[w][i] = Http(c)
    BY <2>1 DEF WorkerTrigger, Http, PodHalt, MonitorHalt
  <2> QED
    BY <2>2 DEF Http, OwnTriggers
<1> QED
  BY <1>2 DEF QueuedHttp, Elems, AtWorker, Carries

-----------------------------------------------------------------------------
(***************************************************************************)
(* The invariant.  A replier stays, or goes with the reply it brings.      *)
(***************************************************************************)
LEMMA Stays ==
  ASSUME NEW c, OneCopy(c), OnePlace(c),
         AtHandle(c)' => AtHandle(c), OnceAtHandle(c)',
         AtTask(c)' => AtTask(c),
         AtPod(c)' => AtPod(c), OnceAtPod(c)',
         AtWorker(c)' => AtWorker(c), OnceAtWorker(c)',
         AtPromise(c)' => AtPromise(c),
         \/ reply'[c] = reply[c]
         \/ ~ AtHandle(c)' /\ ~ AtTask(c)' /\ ~ AtPod(c)' /\ ~ AtWorker(c)' /\ ~ AtPromise(c)'
  PROVE  OneCopy(c)' /\ OnePlace(c)'
<1>1. OneCopy(c)'
  BY DEF OneCopy
<1>2. OnePlace(c)'
  BY DEF OnePlace
<1> QED
  BY <1>1, <1>2

LEMMA Untouched ==
  ASSUME NEW c
  PROVE  /\ svlQ' = svlQ => /\ AtHandle(c)' <=> AtHandle(c)
                            /\ OnceAtHandle(c)' <=> OnceAtHandle(c)
         /\ podQ' = podQ => /\ AtPod(c)' <=> AtPod(c)
                            /\ OnceAtPod(c)' <=> OnceAtPod(c)
         /\ wq'[c] = wq[c] => /\ AtWorker(c)' <=> AtWorker(c)
                              /\ OnceAtWorker(c)' <=> OnceAtWorker(c)
         /\ wq' = wq => /\ AtWorker(c)' <=> AtWorker(c)
                        /\ OnceAtWorker(c)' <=> OnceAtWorker(c)
         /\ held'[c] = held[c] => (AtPromise(c)' <=> AtPromise(c))
         /\ held' = held => (AtPromise(c)' <=> AtPromise(c))
         /\ svl'.req = svl.req => (AtTask(c)' <=> AtTask(c))
BY DEF AtHandle, AtPod, AtWorker, AtPromise, AtTask, OnceAtHandle, OnceAtPod, OnceAtWorker

\* The handlers.
LEMMA ClientPlaces ==
  ASSUME TypeInv, ServiceInv, NEW d \in Reqs, ClientStep(d) \/ ClientGone(d),
         NEW c \in WorkerReqs
  PROVE  OneCopy(c)' /\ OnePlace(c)'
<1>1. UNCHANGED <<op, svl, podQ, wq, held>>
  BY DEF ClientStep, ClientSubmits, ClientFindsClosed, ClientBadBody, ClientUploaded,
         ClientNotCreated, ClientSendsHttp, ClientCannotSendHttp, ClientAnswered, ClientGone,
         podVars
<1>2. OneCopy(c) /\ OnePlace(c) /\ c \in Reqs /\ op[c].kind = "worker"
  BY DEF ServiceInv, OneReplier, WorkerReqs
<1>3. /\ AtPod(c)' <=> AtPod(c)
      /\ AtWorker(c)' <=> AtWorker(c)
      /\ AtPromise(c)' <=> AtPromise(c)
      /\ AtTask(c)' <=> AtTask(c)
      /\ OnceAtPod(c)' /\ OnceAtWorker(c)' /\ OnceAtHandle(c)
  BY <1>1, <1>2, Untouched DEF OneCopy
<1>4. ASSUME UNCHANGED <<svlQ, reply>> PROVE OneCopy(c)' /\ OnePlace(c)'
  <2>1. (AtHandle(c)' <=> AtHandle(c)) /\ OnceAtHandle(c)'
    BY <1>3, <1>4, Untouched
  <2> QED
    BY <1>2, <1>3, <1>4, <2>1, Stays
<1>5. ASSUME NEW m \in ServerlessTrigger, svlQ' = Append(svlQ, m), m.req = d,
             IF c = d THEN reply[c] # "pending" /\ reply'[c] = "pending"
                      ELSE reply'[c] = reply[c]
      PROVE  OneCopy(c)' /\ OnePlace(c)'
  <2>1. /\ AtHandle(c)' <=> AtHandle(c) \/ c = d
        /\ ~ (AtHandle(c) /\ c = d) => OnceAtHandle(c)'
    BY <1>3, <1>5, HandleSent
  <2>2. CASE c = d
    <3>1. ~ AtHandle(c) /\ ~ AtTask(c) /\ ~ AtPod(c) /\ ~ AtWorker(c) /\ ~ AtPromise(c)
      BY <1>2, <1>5, <2>2 DEF OnePlace
    <3>2. OneCopy(c)'
      BY <1>3, <2>1, <3>1 DEF OneCopy
    <3>3. OnePlace(c)'
      BY <1>3, <1>5, <2>2, <3>1 DEF OnePlace
    <3> QED
      BY <3>2, <3>3
  <2>3. CASE c # d
    BY <1>2, <1>3, <1>5, <2>1, <2>3, Stays
  <2> QED
    BY <2>2, <2>3
<1>6. CASE ClientSubmits(d)
  <2>1. /\ Trigger(op[d].kind, d) \in ServerlessTrigger /\ Trigger(op[d].kind, d).req = d
        /\ svlQ' = Append(svlQ, Trigger(op[d].kind, d))
    BY <1>6, ServerlessTriggers DEF ClientSubmits, Send, Trigger, TypeInv, SvlTypeInv, SvlTypeOK
  <2>2. IF c = d THEN reply[c] # "pending" /\ reply'[c] = "pending"
                 ELSE reply'[c] = reply[c]
    BY <1>2, <1>6 DEF ClientSubmits, ServiceInv, NewUnanswered, TypeInv, PodTypeInv, PodTypeOK
  <2> QED
    BY <1>5, <2>1, <2>2
<1>7. CASE ClientSendsHttp(d)
  <2>1. /\ Trigger("toPod", d) \in ServerlessTrigger /\ Trigger("toPod", d).req = d
        /\ svlQ' = Append(svlQ, Trigger("toPod", d))
    BY <1>7, ServerlessTriggers DEF ClientSendsHttp, Send, Trigger
  <2>2. IF c = d THEN reply[c] # "pending" /\ reply'[c] = "pending"
                 ELSE reply'[c] = reply[c]
    BY <1>2, <1>7 DEF ClientSendsHttp, TypeInv, PodTypeInv, PodTypeOK
  <2> QED
    BY <1>5, <2>1, <2>2
<1>8. CASE ClientFindsClosed(d) \/ ClientBadBody(d) \/ ClientUploaded(d) \/ ClientGone(d)
  BY <1>4, <1>8 DEF ClientFindsClosed, ClientBadBody, ClientUploaded, ClientGone, podVars
<1>9. CASE ClientNotCreated(d) \/ ClientCannotSendHttp(d) \/ ClientAnswered(d)
  BY <1>4, <1>9 DEF ClientNotCreated, ClientCannotSendHttp, ClientAnswered, podVars
<1> QED
  BY <1>6, <1>7, <1>8, <1>9 DEF ClientStep

LEMMA ClientServes ==
  ASSUME TypeInv, ServiceInv, NEW d \in Reqs, ClientStep(d) \/ ClientGone(d)
  PROVE  ServiceInv'
<1> USE DEF TypeInv, SvlTypeInv, SvlTypeOK, PodTypeInv, PodTypeOK
<1>1. UNCHANGED <<op, svl, worker, table>>
  BY DEF ClientStep, ClientSubmits, ClientFindsClosed, ClientBadBody, ClientUploaded,
         ClientNotCreated, ClientSendsHttp, ClientCannotSendHttp, ClientAnswered, ClientGone,
         podVars
<1>2. OneReplier'
  <2>1. WorkerReqs' = WorkerReqs
    BY <1>1 DEF WorkerReqs
  <2> HIDE DEF TypeInv
  <2>2. \A c \in WorkerReqs : OneCopy(c)' /\ OnePlace(c)'
    BY ClientPlaces
  <2> QED
    BY <2>1, <2>2 DEF OneReplier
<1>3. BegunPlaced'
  BY <1>1 DEF ServiceInv, BegunPlaced
<1>4. /\ \A c \in Reqs : client'[c] = "new" => client[c] = "new" /\ reply'[c] = reply[c]
      /\ \A c \in Reqs : reply'[c] = "created" => reply[c] = "created"
  <2>1. CASE ClientSubmits(d)
    BY <2>1 DEF ClientSubmits, Respond
  <2>2. CASE ClientSendsHttp(d)
    BY <2>2 DEF ClientSendsHttp
  <2>3. CASE ClientFindsClosed(d) \/ ClientBadBody(d) \/ ClientUploaded(d) \/ ClientGone(d)
    BY <2>3 DEF ClientFindsClosed, ClientBadBody, ClientUploaded, ClientGone, Respond, podVars
  <2>4. CASE ClientNotCreated(d) \/ ClientCannotSendHttp(d) \/ ClientAnswered(d)
    BY <2>4 DEF ClientNotCreated, ClientCannotSendHttp, ClientAnswered, Respond, podVars
  <2> QED
    BY <2>1, <2>2, <2>3, <2>4 DEF ClientStep
<1>5. NewUnanswered'
  BY <1>4 DEF ServiceInv, NewUnanswered
<1>6. KindsMatch'
  <2>1. ASSUME NEW m \in ServerlessTrigger, svlQ' = Append(svlQ, m),
               op[m.req].kind = IF m.type = "toPod" THEN "worker" ELSE m.type
        PROVE  \A i \in 1 .. Len(svlQ') :
                 op[svlQ'[i].req].kind = IF svlQ'[i].type = "toPod" THEN "worker" ELSE svlQ'[i].type
    <3>1. \A i \in 1 .. Len(svlQ') : svlQ'[i] = m \/ (i \in 1 .. Len(svlQ) /\ svlQ'[i] = svlQ[i])
      BY <2>1, Appending
    <3> QED
      BY <2>1, <3>1 DEF ServiceInv, KindsMatch
  <2>2. \A i \in 1 .. Len(svlQ') :
           op[svlQ'[i].req].kind = IF svlQ'[i].type = "toPod" THEN "worker" ELSE svlQ'[i].type
    <3>1. CASE ClientSubmits(d)
      <4>1. /\ Trigger(op[d].kind, d) \in ServerlessTrigger
            /\ svlQ' = Append(svlQ, Trigger(op[d].kind, d))
        BY <3>1, ServerlessTriggers DEF ClientSubmits, Send
      <4>2. op[d].kind # "toPod"
        BY DEF Kinds
      <4> QED
        BY <2>1, <4>1, <4>2 DEF Trigger
    <3>2. CASE ClientSendsHttp(d)
      <4>1. /\ Trigger("toPod", d) \in ServerlessTrigger
            /\ svlQ' = Append(svlQ, Trigger("toPod", d))
            /\ op[d].kind = "worker"
        BY <3>2, ServerlessTriggers DEF ClientSendsHttp, Send, ServiceInv, KindsMatch
      <4> QED
        BY <2>1, <4>1 DEF Trigger
    <3>3. CASE svlQ' = svlQ
      BY <3>3 DEF ServiceInv, KindsMatch
    <3> QED
      BY <3>1, <3>2, <3>3
      DEF ClientStep, ClientFindsClosed, ClientBadBody, ClientUploaded,
          ClientNotCreated, ClientCannotSendHttp, ClientAnswered, ClientGone
  <2> QED
    BY <1>1, <1>4, <2>2 DEF ServiceInv, KindsMatch
<1> QED
  BY <1>2, <1>3, <1>5, <1>6 DEF ServiceInv

\* The serverless task.
LEMMA SvlPlaces ==
  ASSUME TypeInv, ServiceInv, SvlStep \/ SvlCtrlC \/ SvlServerExits, NEW c \in WorkerReqs
  PROVE  OneCopy(c)' /\ OnePlace(c)'
<1> USE DEF Selecting, SvlAt
<1>1. UNCHANGED <<wq, held>>
  BY DEF SvlStep, SvlCtrlC, SvlServerExits, SvlCreateNoCode, SvlCreate, SvlUpload, SvlRemove,
         SvlToPod, SvlForward, SvlAsksVacancy, SvlToldVacancy, SvlNoVacancy, SvlAsksWorker,
         SvlCreated, SvlHaltsPod, SvlPodHalted, SvlJoined, SvlUnchangedPods, podVars
<1>2. /\ OneCopy(c) /\ OnePlace(c) /\ c \in Reqs /\ op[c].kind = "worker" /\ c # None
      /\ reply \in [Reqs -> Replies]
  BY PodAssumption DEF ServiceInv, OneReplier, WorkerReqs, TypeInv, PodTypeInv, PodTypeOK
<1>3. /\ AtWorker(c)' <=> AtWorker(c)
      /\ AtPromise(c)' <=> AtPromise(c)
      /\ OnceAtWorker(c)' /\ OnceAtHandle(c) /\ OnceAtPod(c)
      /\ svlQ' = svlQ => (AtHandle(c)' <=> AtHandle(c)) /\ OnceAtHandle(c)'
      /\ podQ' = podQ => (AtPod(c)' <=> AtPod(c)) /\ OnceAtPod(c)'
      /\ svl'.req = svl.req => (AtTask(c)' <=> AtTask(c))
      /\ svl'.req = None => ~ AtTask(c)'
  BY <1>1, <1>2, Untouched DEF OneCopy, AtTask
<1>4. ASSUME NEW t, SvlReceived(t)
      PROVE  /\ AtHandle(c) <=> AtHandle(c)' \/ Head(svlQ).req = c
             /\ OnceAtHandle(c)'
             /\ Head(svlQ).req = c => ~ AtHandle(c)'
             /\ Head(svlQ).req = c => t \in {"worker", "toPod"}
  <2>1. svlQ # <<>> /\ svlQ' = Tail(svlQ) /\ Head(svlQ).type = t
    BY <1>4 DEF SvlReceived
  <2>2. Head(svlQ).req = c => t \in {"worker", "toPod"}
    <3>1. svlQ \in Seq(ServerlessTrigger)
      BY DEF TypeInv, SvlTypeInv, SvlTypeOK
    <3>2. 1 \in 1 .. Len(svlQ) /\ Head(svlQ) = svlQ[1]
      BY <2>1, <3>1, Taking
    <3> QED
      BY <1>2, <2>1, <3>2 DEF ServiceInv, KindsMatch
  <2> QED
    BY <1>3, <2>1, <2>2, HandleTaken
<1>5. CASE SvlCreateNoCode
  <2>1. /\ SvlReceived("worker") /\ UNCHANGED <<svl, podQ>>
        /\ reply' = [reply EXCEPT ![Head(svlQ).req] = "noCode"]
    BY <1>5 DEF SvlCreateNoCode, SvlReply, SvlUnchangedPods
  <2>2. CASE Head(svlQ).req = c
    <3>1. AtHandle(c) /\ ~ AtHandle(c)'
      BY <1>4, <2>1, <2>2
    <3>2. ~ AtTask(c)' /\ ~ AtPod(c)' /\ ~ AtWorker(c)' /\ ~ AtPromise(c)'
      BY <1>2, <1>3, <2>1, <3>1 DEF OnePlace
    <3> QED
      BY <1>2, <1>3, <1>4, <2>1, <3>1, <3>2, Stays
  <2>3. CASE Head(svlQ).req # c
    <3>1. reply'[c] = reply[c]
      BY <1>2, <2>1, <2>3
    <3> QED
      BY <1>2, <1>3, <1>4, <2>1, <3>1, Stays
  <2> QED
    BY <2>2, <2>3
<1>6. CASE SvlCreate \/ SvlToPod
  <2>1. /\ \E t \in {"worker", "toPod"} : SvlReceived(t)
        /\ svl'.req = Head(svlQ).req /\ UNCHANGED <<podQ, reply>>
    BY <1>6 DEF SvlCreate, SvlToPod, podVars
  <2>2. /\ AtHandle(c) <=> AtHandle(c)' \/ Head(svlQ).req = c
        /\ OnceAtHandle(c)'
        /\ Head(svlQ).req = c => ~ AtHandle(c)'
    BY <1>4, <2>1
  <2>3. AtTask(c)' <=> Head(svlQ).req = c
    BY <2>1 DEF AtTask
  <2>4. OneCopy(c)'
    BY <1>3, <2>1, <2>2 DEF OneCopy
  <2>5. OnePlace(c)'
    BY <1>2, <1>3, <2>1, <2>2, <2>3 DEF OnePlace
  <2> QED
    BY <2>4, <2>5
<1>7. CASE SvlUpload \/ SvlRemove
  <2>1. /\ \E t \in {"upload", "remove"} : SvlReceived(t)
        /\ svl' = svl /\ podQ' = podQ
        /\ reply' = reply \/ \E r : reply' = [reply EXCEPT ![Head(svlQ).req] = r]
    BY <1>7 DEF SvlUpload, SvlRemove, SvlReply, SvlUnchangedPods, podVars
  <2>2. /\ AtHandle(c) <=> AtHandle(c)'
        /\ OnceAtHandle(c)' /\ Head(svlQ).req # c
    BY <1>4, <2>1
  <2>3. reply'[c] = reply[c]
    BY <1>2, <2>1, <2>2
  <2> QED
    BY <1>2, <1>3, <2>1, <2>2, <2>3, Stays
<1>8. ASSUME NEW m \in PodTrigger, SendToPod(svl.pod, m)
      PROVE  LET its == m.type = "toWorker" /\ m.req = c
             IN  /\ AtPod(c)' <=> AtPod(c) \/ its
                 /\ ~ (AtPod(c) /\ its) => OnceAtPod(c)'
  BY <1>3, <1>8, PodSent DEF SendToPod
<1>9. CASE SvlForward
  <2> DEFINE m == ToWorker(svl.req, route[svl.req].id)
  <2>1. m \in PodTrigger /\ SendToPod(svl.pod, m) /\ svl'.req = None /\ UNCHANGED <<svlQ, reply>>
    BY <1>9, PodTriggers DEF SvlForward, TypeInv, SvlTypeInv, SvlTypeOK, SvlAtWork, Routes
  <2>2. m.type = "toWorker" /\ m.req = c <=> AtTask(c)
    BY DEF AtTask, ToWorker
  <2> HIDE DEF m
  <2>3. /\ AtPod(c)' <=> AtPod(c) \/ AtTask(c)
        /\ ~ (AtPod(c) /\ AtTask(c)) => OnceAtPod(c)'
    BY <1>8, <2>1, <2>2
  <2>4. OneCopy(c)'
    BY <1>2, <1>3, <2>1, <2>3 DEF OneCopy, OnePlace
  <2>5. OnePlace(c)'
    BY <1>2, <1>3, <2>1, <2>3 DEF OnePlace
  <2> QED
    BY <2>4, <2>5
<1>10. CASE SvlAsksVacancy \/ SvlAsksWorker \/ SvlHaltsPod
  <2>1. /\ \E m \in PodTrigger : SendToPod(svl.pod, m) /\ m.type # "toWorker"
        /\ svl'.req = svl.req /\ UNCHANGED <<svlQ, reply>>
    <3>1. svl.req \in Reqs \/ SvlHaltsPod \/ SvlAsksVacancy
      BY <1>10 DEF SvlAsksWorker, TypeInv, SvlTypeInv, SvlAtWork
    <3> QED
      BY <1>10, <3>1, PodTriggers
      DEF SvlAsksVacancy, SvlAsksWorker, SvlHaltsPod, CheckVacancies, CreateWorkerFor, Halt
  <2>2. (AtPod(c)' <=> AtPod(c)) /\ OnceAtPod(c)'
    BY <1>8, <2>1
  <2> QED
    BY <1>2, <1>3, <2>1, <2>2, Stays
<1>11. CASE SvlToldVacancy \/ SvlPodHalted
  BY <1>2, <1>3, <1>11, Stays DEF SvlToldVacancy, SvlPodHalted, podVars
<1>12. CASE SvlCtrlC
  BY <1>2, <1>3, <1>12, Stays DEF SvlCtrlC, podVars
<1>13. CASE SvlNoVacancy \/ SvlCreated
  <2>1. /\ svl'.req = None /\ UNCHANGED <<svlQ, podQ>>
        /\ \E r : reply' = [reply EXCEPT ![svl.req] = r]
    BY <1>13 DEF SvlNoVacancy, SvlCreated, SvlReply, SvlUnchangedPods
  <2>2. CASE AtTask(c)
    <3>1. ~ AtHandle(c)' /\ ~ AtTask(c)' /\ ~ AtPod(c)' /\ ~ AtWorker(c)' /\ ~ AtPromise(c)'
      BY <1>2, <1>3, <2>1, <2>2 DEF OnePlace
    <3> QED
      BY <1>2, <1>3, <2>1, <3>1, Stays
  <2>3. CASE ~ AtTask(c)
    <3>1. reply'[c] = reply[c]
      BY <1>2, <2>1, <2>3 DEF AtTask
    <3> QED
      BY <1>2, <1>3, <2>1, <3>1, Stays
  <2> QED
    BY <2>2, <2>3
<1>14. CASE SvlJoined \/ SvlServerExits
  <2>1. svl'.req = None /\ DropQueue /\ UNCHANGED podQ
    BY <1>14 DEF SvlJoined, SvlServerExits, SvlUnchangedPods
  <2>2. ~ AtHandle(c)' /\ OnceAtHandle(c)'
    BY <2>1, CarriesNothing DEF DropQueue, AtHandle, OnceAtHandle
  <2>3. CASE AtHandle(c)
    <3>1. ~ AtTask(c)' /\ ~ AtPod(c)' /\ ~ AtWorker(c)' /\ ~ AtPromise(c)'
      BY <1>2, <1>3, <2>1, <2>3 DEF OnePlace
    <3> QED
      BY <1>2, <1>3, <2>1, <2>2, <3>1, Stays
  <2>4. CASE ~ AtHandle(c)
    <3>1. \A i \in 1 .. Len(svlQ) : svlQ[i].req # c
      <4>1. svlQ \in Seq(ServerlessTrigger)
        BY DEF TypeInv, SvlTypeInv, SvlTypeOK
      <4>2. \A m \in ServerlessTrigger : m.type \in SvlTypes
        BY DEF SvlTypes, ServerlessTrigger
      <4>3. \A i \in 1 .. Len(svlQ) : svlQ[i] \in ServerlessTrigger
        BY <4>1
      <4> QED
        BY <2>4, <4>2, <4>3 DEF AtHandle, Carries
    <3>2. reply'[c] = reply[c]
      BY <1>2, <2>1, <3>1 DEF DropQueue
    <3> QED
      BY <1>2, <1>3, <2>1, <2>2, <3>2, Stays
  <2> QED
    BY <2>3, <2>4
<1> QED
  BY <1>5, <1>6, <1>7, <1>9, <1>10, <1>11, <1>12, <1>13, <1>14 DEF SvlStep

LEMMA SvlServes ==
  ASSUME TypeInv, FlowInv, ServiceInv, SvlStep \/ SvlCtrlC \/ SvlServerExits
  PROVE  ServiceInv'
<1> USE DEF Selecting, SvlAt
<1>1. UNCHANGED <<op, client, worker, table>>
  BY DEF SvlStep, SvlCtrlC, SvlServerExits, SvlCreateNoCode, SvlCreate, SvlUpload, SvlRemove,
         SvlToPod, SvlForward, SvlAsksVacancy, SvlToldVacancy, SvlNoVacancy, SvlAsksWorker,
         SvlCreated, SvlHaltsPod, SvlPodHalted, SvlJoined, SvlUnchangedPods, podVars
<1>2. OneReplier'
  <2>1. WorkerReqs' = WorkerReqs
    BY <1>1 DEF WorkerReqs
  <2>2. \A c \in WorkerReqs : OneCopy(c)' /\ OnePlace(c)'
    BY SvlPlaces
  <2> QED
    BY <2>1, <2>2 DEF OneReplier
<1>3. BegunPlaced'
  BY <1>1 DEF ServiceInv, BegunPlaced
<1>4. /\ svlQ \in Seq(ServerlessTrigger) /\ reply \in [Reqs -> Replies] /\ None \notin Reqs
      /\ svl.pc \in {"check", "checkWait", "create", "createWait", "toPod"} => svl.req \in Reqs
  BY PodAssumption DEF TypeInv, SvlTypeInv, SvlTypeOK, SvlAtWork, PodTypeInv, PodTypeOK
<1>5. ASSUME NEW t, SvlReceived(t)
      PROVE  /\ svlQ # <<>> /\ svlQ' = Tail(svlQ) /\ 1 \in 1 .. Len(svlQ)
             /\ Head(svlQ) = svlQ[1] /\ svlQ[1].type = t
             /\ svlQ[1].req \in Reqs /\ client[svlQ[1].req] # "new"
             /\ op[svlQ[1].req].kind = IF t = "toPod" THEN "worker" ELSE t
             /\ \A i \in 1 .. Len(svlQ') : i + 1 \in 1 .. Len(svlQ) /\ svlQ'[i] = svlQ[i + 1]
  <2>1. svlQ # <<>> /\ svlQ' = Tail(svlQ) /\ Head(svlQ).type = t
    BY <1>5 DEF SvlReceived
  <2>2. /\ 1 \in 1 .. Len(svlQ) /\ Head(svlQ) = svlQ[1] /\ Head(svlQ) \in ServerlessTrigger
        /\ \A i \in 1 .. Len(svlQ') : i + 1 \in 1 .. Len(svlQ) /\ svlQ'[i] = svlQ[i + 1]
    BY <1>4, <2>1, Taking
  <2>3. svlQ[1].req \in Reqs
    BY <2>2, ServerlessTriggers
  <2>4. client[svlQ[1].req] # "new"
    BY <2>2, <2>3 DEF FlowInv, NewInv
  <2> QED
    BY <2>1, <2>2, <2>3, <2>4 DEF ServiceInv, KindsMatch
<1>6. \A i \in 1 .. Len(svlQ') :
        op[svlQ'[i].req].kind = IF svlQ'[i].type = "toPod" THEN "worker" ELSE svlQ'[i].type
  <2>1. CASE \E t : SvlReceived(t)
    BY <1>5, <2>1 DEF ServiceInv, KindsMatch
  <2>2. CASE svlQ' = svlQ
    BY <2>2 DEF ServiceInv, KindsMatch
  <2>3. CASE svlQ' = <<>>
    BY <2>3
  <2>4. \/ \E t : SvlReceived(t)
        \/ svlQ' = svlQ \/ svlQ' = <<>>
    BY DEF SvlStep, SvlCtrlC, SvlServerExits, SvlCreateNoCode, SvlCreate, SvlUpload, SvlRemove,
           SvlToPod, SvlForward, SvlAsksVacancy, SvlToldVacancy, SvlNoVacancy, SvlAsksWorker,
           SvlCreated, SvlHaltsPod, SvlPodHalted, SvlJoined, DropQueue
  <2> QED
    BY <2>1, <2>2, <2>3, <2>4
<1>7. ASSUME svl'.req # None => op[svl'.req].kind = "worker",
             svl'.pc = "failed" => svl'.req = None,
             \A c \in Reqs : reply'[c] = "created" => op[c].kind = "worker",
             \A c \in Reqs : client[c] = "new" => reply'[c] = reply[c]
      PROVE  ServiceInv'
  <2>1. KindsMatch'
    BY <1>1, <1>6, <1>7 DEF KindsMatch
  <2>2. NewUnanswered'
    BY <1>1, <1>7 DEF ServiceInv, NewUnanswered
  <2> QED
    BY <1>2, <1>3, <2>1, <2>2 DEF ServiceInv
<1>8. /\ svl.req # None => op[svl.req].kind = "worker"
      /\ svl.pc = "failed" => svl.req = None
      /\ \A c \in Reqs : reply[c] = "created" => op[c].kind = "worker"
      /\ \A c \in Reqs : client[c] = "new" => svl.req # c
  BY DEF ServiceInv, KindsMatch, FlowInv, NewInv
<1>9. CASE SvlCreateNoCode \/ SvlUpload \/ SvlRemove
  <2>1. /\ \E t : SvlReceived(t)
        /\ svl' = svl
        /\ \/ reply' = reply
           \/ \E r \in Replies \ {"created"} : reply' = [reply EXCEPT ![Head(svlQ).req] = r]
    BY <1>9 DEF SvlCreateNoCode, SvlUpload, SvlRemove, SvlReply, podVars, Replies
  <2> QED
    BY <1>4, <1>5, <1>7, <1>8, <2>1
<1>10. CASE SvlCreate \/ SvlToPod
  <2>1. /\ \E t \in {"worker", "toPod"} : SvlReceived(t)
        /\ svl'.req = Head(svlQ).req /\ svl'.pc # "failed" /\ reply' = reply
    BY <1>10 DEF SvlCreate, SvlToPod, podVars
  <2> QED
    BY <1>5, <1>7, <1>8, <2>1
<1>11. CASE \/ SvlForward \/ SvlAsksVacancy \/ SvlAsksWorker \/ SvlHaltsPod \/ SvlToldVacancy
            \/ SvlPodHalted \/ SvlCtrlC
  <2>1. svl'.req \in {svl.req, None} /\ svl'.pc # "failed" /\ reply' = reply
    BY <1>11 DEF SvlForward, SvlAsksVacancy, SvlAsksWorker, SvlHaltsPod, SvlToldVacancy,
                 SvlPodHalted, SvlCtrlC, podVars
  <2> QED
    BY <1>7, <1>8, <2>1
<1>12. CASE SvlNoVacancy \/ SvlCreated
  <2>1. /\ svl'.req = None /\ svl.req \in Reqs
        /\ \E r : reply' = [reply EXCEPT ![svl.req] = r]
    BY <1>4, <1>12 DEF SvlNoVacancy, SvlCreated, SvlReply
  <2>2. op[svl.req].kind = "worker"
    BY <1>4, <1>8, <2>1
  <2>3. /\ \A c \in Reqs : reply'[c] = "created" => op[c].kind = "worker"
        /\ \A c \in Reqs : client[c] = "new" => reply'[c] = reply[c]
    BY <1>4, <1>8, <2>1, <2>2
  <2>4. svl'.pc # "failed"
    BY <1>12 DEF SvlNoVacancy, SvlCreated
  <2> QED
    BY <1>7, <2>1, <2>3, <2>4
<1>13. CASE SvlJoined \/ SvlServerExits
  <2>1. svl'.req = None /\ DropQueue
    BY <1>13 DEF SvlJoined, SvlServerExits
  <2>2. \A c \in Reqs : client[c] = "new" => reply'[c] = reply[c]
    BY <2>1 DEF DropQueue, FlowInv, NewInv
  <2>3. \A c \in Reqs : reply'[c] = "created" => op[c].kind = "worker"
    BY <1>8, <2>1 DEF DropQueue
  <2> QED
    BY <1>7, <2>1, <2>2, <2>3
<1> QED
  BY <1>9, <1>10, <1>11, <1>12, <1>13 DEF SvlStep

\* Tasks of a thread are cancelled.
LEMMA CancelPlaces ==
  ASSUME TypeInv, Inv, ServiceInv, NEW p \in Pods, CancelWorkers(p), UNCHANGED <<svl, svlQ, podQ>>,
         NEW c \in WorkerReqs
  PROVE  /\ OneCopy(c)' /\ OnePlace(c)'
         /\ reply'[c] = reply[c] \/ (worker[c] # "none" /\ reply[c] = "pending")
<1>1. /\ OneCopy(c) /\ OnePlace(c) /\ c \in Reqs
      /\ reply \in [Reqs -> Replies] /\ wq \in [Reqs -> Seq(WorkerTrigger)]
      /\ held \in [Reqs -> SUBSET Reqs] /\ OwnTriggers
  BY DEF ServiceInv, OneReplier, WorkerReqs, TypeInv, PodTypeInv, PodTypeOK, Inv
<1>2. /\ AtHandle(c)' <=> AtHandle(c)
      /\ AtTask(c)' <=> AtTask(c)
      /\ AtPod(c)' <=> AtPod(c)
      /\ OnceAtHandle(c)' /\ OnceAtPod(c)' /\ OnceAtWorker(c)
  BY <1>1, Untouched DEF OneCopy
<1> DEFINE cancelled == {w \in WorkersOf(p) : Listening(w)}
           closed == {w \in WorkersOf(p) : worker[w] = "closing"}
           queued == {d \in Reqs : \E w \in cancelled : Http(d) \in Elems(wq[w])}
           answered == UNION {held[w] : w \in closed}
<1>3. /\ wq'[c] = IF c \in cancelled THEN <<>> ELSE wq[c]
      /\ held'[c] = IF c \in closed THEN {} ELSE held[c]
      /\ reply'[c] = IF c \in queued THEN "dropped"
                     ELSE IF c \in answered THEN "empty" ELSE reply[c]
  BY <1>1 DEF CancelWorkers
<1>4. WorkersOf(p) \subseteq Reqs
  BY DEF WorkersOf, Elems, Inv, TablesFilled
<1>5. c \in queued <=> c \in cancelled /\ AtWorker(c)
  <2>1. \A w \in cancelled : Http(c) \in Elems(wq[w]) <=> w = c /\ AtWorker(c)
    BY <1>1, <1>4, QueuedIsCarried DEF QueuedHttp
  <2> QED
    BY <1>1, <2>1
<1>6. c \in answered <=> c \in closed /\ AtPromise(c)
  BY <1>1, <1>4 DEF OwnTriggers, AtPromise
<1>7. /\ c \in cancelled => Listening(c)
      /\ c \in closed => worker[c] = "closing"
  OBVIOUS
<1> HIDE DEF cancelled, closed, queued, answered
<1>8. /\ c \in cancelled => ~ AtWorker(c)'
      /\ AtWorker(c)' => AtWorker(c)
      /\ OnceAtWorker(c)'
  BY <1>2, <1>3, CarriesNothing, Untouched DEF AtWorker, OnceAtWorker
<1>9. /\ c \in closed => ~ AtPromise(c)'
      /\ AtPromise(c)' => AtPromise(c)
  BY <1>3 DEF AtPromise
<1>10. CASE c \in queued
  <2>1. AtWorker(c) /\ ~ AtWorker(c)' /\ Listening(c)
    BY <1>5, <1>7, <1>8, <1>10
  <2>2. ~ AtHandle(c)' /\ ~ AtTask(c)' /\ ~ AtPod(c)' /\ ~ AtPromise(c)' /\ reply[c] = "pending"
    BY <1>1, <1>2, <1>9, <2>1 DEF OnePlace
  <2>3. OneCopy(c)' /\ OnePlace(c)'
    BY <1>1, <1>2, <1>8, <1>9, <2>1, <2>2, Stays
  <2>4. worker[c] # "none"
    BY <2>1 DEF Listening
  <2> QED
    BY <2>2, <2>3, <2>4
<1>11. CASE c \in answered
  <2>1. AtPromise(c) /\ ~ AtPromise(c)' /\ worker[c] = "closing"
    BY <1>6, <1>7, <1>9, <1>11
  <2>2. ~ AtHandle(c)' /\ ~ AtTask(c)' /\ ~ AtPod(c)' /\ ~ AtWorker(c)' /\ reply[c] = "pending"
    BY <1>1, <1>2, <1>8, <2>1 DEF OnePlace
  <2>3. OneCopy(c)' /\ OnePlace(c)'
    BY <1>1, <1>2, <1>8, <1>9, <2>1, <2>2, Stays
  <2> QED
    BY <2>1, <2>2, <2>3
<1>12. CASE c \notin queued /\ c \notin answered
  <2>1. reply'[c] = reply[c]
    BY <1>3, <1>12
  <2>2. OneCopy(c)' /\ OnePlace(c)'
    BY <1>1, <1>2, <1>8, <1>9, <2>1, Stays
  <2> QED
    BY <2>1, <2>2
<1> QED
  BY <1>10, <1>11, <1>12

(***************************************************************************)
(* The pods.  A reply that a pod makes is that of a request whose worker   *)
(* has begun.                                                              *)
(***************************************************************************)
LEMMA ForwardsToOwn ==
  ASSUME TypeInv, Inv, FlowInv, NEW p \in Pods, Received(p, "toWorker")
  PROVE  LET m == Head(podQ[p])
         IN  /\ podQ[p] # <<>> /\ m \in PodTrigger /\ m.req \in Reqs
             /\ GetWorker(table[p], m.id) = m.req /\ worker[m.req] # "none"
<1> DEFINE m == Head(podQ[p])
           w == GetWorker(table[p], m.id)
<1>1. podQ[p] # <<>> /\ m.type = "toWorker" /\ podQ[p] \in Seq(PodTrigger)
  BY DEF Received, TypeInv, PodTypeInv, PodTypeOK
<1>2. 1 \in 1 .. Len(podQ[p]) /\ m = podQ[p][1] /\ m \in PodTrigger /\ m.req \in Reqs
  BY <1>1, Taking, PodTriggers
<1>3. Placed(p, m.id, m.req)
  BY <1>1, <1>2 DEF Inv, QuestionsInTurn
<1>4. /\ w = table[p].workers[m.id + 1] /\ w = m.req
      /\ m.id \in Nat /\ m.id < Len(table[p].workers)
  BY <1>3 DEF Placed, PlacedIn, GetWorker
<1>5. m.id + 1 \in 1 .. Len(table[p].workers)
  BY <1>4 DEF TypeInv, PodTypeInv, PodTypeOK, TableType
<1> QED
  BY <1>1, <1>2, <1>4, <1>5 DEF FlowInv, PlacedBegun

LEMMA PodPlaces ==
  ASSUME TypeInv, Inv, FlowInv, ServiceInv, NEW p \in Pods, PodStep(p) \/ PodAbandoned(p),
         UNCHANGED svlVars, NEW c \in WorkerReqs
  PROVE  /\ OneCopy(c)' /\ OnePlace(c)'
         /\ reply'[c] = reply[c] \/ (worker[c] # "none" /\ reply[c] = "pending")
<1>1. UNCHANGED <<op, svl, svlQ>>
  BY DEF svlVars
<1>2. /\ OneCopy(c) /\ OnePlace(c) /\ c \in Reqs
      /\ reply \in [Reqs -> Replies] /\ podQ \in [Pods -> Seq(PodTrigger)]
  BY DEF ServiceInv, OneReplier, WorkerReqs, TypeInv, PodTypeInv, PodTypeOK
<1>3. /\ AtHandle(c)' <=> AtHandle(c)
      /\ AtTask(c)' <=> AtTask(c)
      /\ OnceAtHandle(c)' /\ OnceAtPod(c) /\ OnceAtWorker(c)
      /\ podQ' = podQ => (AtPod(c)' <=> AtPod(c)) /\ OnceAtPod(c)'
      /\ wq' = wq => (AtWorker(c)' <=> AtWorker(c)) /\ OnceAtWorker(c)'
      /\ held' = held => (AtPromise(c)' <=> AtPromise(c))
  BY <1>1, <1>2, Untouched DEF OneCopy
<1>4. CASE PodCheckVacancies(p) \/ PodHaltReceived(p) \/ PodCreateWorker(p)
  <2>1. /\ podQ[p] # <<>> /\ podQ' = [podQ EXCEPT ![p] = Tail(@)]
        /\ Head(podQ[p]).type # "toWorker" /\ UNCHANGED <<wq, held, reply>>
    BY <1>4 DEF PodCheckVacancies, PodHaltReceived, PodCreateWorker, Received
  <2>2. (AtPod(c) <=> AtPod(c)') /\ OnceAtPod(c)'
    BY <1>3, <2>1, PodTaken
  <2> QED
    BY <1>2, <1>3, <2>1, <2>2, Stays
<1>5. CASE PodForward(p)
  <2> DEFINE m == Head(podQ[p])
             w == GetWorker(table[p], m.id)
  <2>1. /\ podQ[p] # <<>> /\ podQ' = [podQ EXCEPT ![p] = Tail(@)]
        /\ m.type = "toWorker" /\ UNCHANGED held
    BY <1>5 DEF PodForward, Received
  <2>2. m.req \in Reqs /\ w = m.req /\ worker[m.req] # "none"
    BY <1>5, ForwardsToOwn DEF PodForward
  <2>4. /\ AtPod(c) <=> AtPod(c)' \/ m.req = c
        /\ OnceAtPod(c)'
        /\ m.req = c => ~ AtPod(c)'
    BY <1>3, <2>1, PodTaken
  <2>5. m.req = c => /\ AtPod(c) /\ reply[c] = "pending"
                     /\ ~ AtHandle(c) /\ ~ AtTask(c) /\ ~ AtWorker(c) /\ ~ AtPromise(c)
    BY <1>2, <2>4 DEF OnePlace
  <2>6. CASE wq' = [wq EXCEPT ![w] = Append(@, Http(m.req))] /\ UNCHANGED reply
    <3>1. /\ wq' = [wq EXCEPT ![m.req] = Append(@, Http(m.req))]
          /\ Http(m.req) \in WorkerTrigger /\ Http(m.req).type = "http" /\ Http(m.req).req = m.req
      BY <2>2, <2>6, WorkerTriggers DEF Http
    <3> HIDE DEF m, w
    <3>2. /\ AtWorker(c)' <=> AtWorker(c) \/ m.req = c
          /\ ~ (AtWorker(c) /\ m.req = c) => OnceAtWorker(c)'
      BY <1>2, <1>3, <2>2, <3>1, WorkerSent
    <3>3. OneCopy(c)'
      BY <1>3, <2>4, <2>5, <3>2 DEF OneCopy
    <3>4. OnePlace(c)'
      BY <1>2, <1>3, <2>1, <2>4, <2>5, <2>6, <3>2 DEF OnePlace
    <3> QED
      BY <2>6, <3>3, <3>4
  <2>7. CASE reply' = [reply EXCEPT ![m.req] = "dropped"] /\ UNCHANGED wq
    <3>1. CASE m.req = c
      <4> HIDE DEF m, w
      <4>1. ~ AtHandle(c)' /\ ~ AtTask(c)' /\ ~ AtPod(c)' /\ ~ AtWorker(c)' /\ ~ AtPromise(c)'
        BY <1>3, <2>1, <2>4, <2>5, <2>7, <3>1
      <4>2. OneCopy(c)' /\ OnePlace(c)'
        BY <1>2, <1>3, <2>1, <2>4, <2>7, <4>1, Stays
      <4> QED
        BY <2>2, <2>5, <3>1, <4>2
    <3>2. CASE m.req # c
      <4> HIDE DEF m, w
      <4>1. reply'[c] = reply[c]
        BY <1>2, <2>7, <3>2
      <4>2. OneCopy(c)' /\ OnePlace(c)'
        BY <1>2, <1>3, <2>1, <2>4, <2>7, <4>1, Stays
      <4> QED
        BY <4>1, <4>2
    <3> QED
      BY <3>1, <3>2
  <2> QED
    BY <1>5, <2>6, <2>7 DEF PodForward
<1>6. CASE PodDrain(p)
  <2> DEFINE v == table[p].workers[pod[p].at + 1]
  <2>1. UNCHANGED <<podQ, held, reply>> /\ v \in Reqs
    <3>1. pod[p].at \in Nat /\ pod[p].at < Len(table[p].workers) /\ UNCHANGED <<podQ, held, reply>>
      BY <1>6, SMTT(30) DEF PodDrain, TypeInv, PodTypeInv, PodTypeOK, PodState
    <3> QED
      BY <3>1, SlotFilled DEF Inv
  <2>2. \/ Listening(v) /\ wq' = [wq EXCEPT ![v] = Append(@, PodHalt)]
        \/ ~ Listening(v) /\ wq' = wq
    BY <1>6 DEF PodDrain
  <2>3. PodHalt \in WorkerTrigger /\ PodHalt.type # "http"
    BY WorkerTriggers DEF PodHalt
  <2> HIDE DEF v
  <2>4. (AtWorker(c)' <=> AtWorker(c)) /\ OnceAtWorker(c)'
    BY <1>2, <1>3, <2>1, <2>2, <2>3, WorkerSent
  <2> QED
    BY <1>2, <1>3, <2>1, <2>4, Stays
<1>7. CASE PodDrained(p) \/ PodHalted(p)
  <2>1. UNCHANGED <<podQ, wq, held, reply>>
    BY <1>7 DEF PodDrained, PodHalted
  <2> QED
    BY <1>2, <1>3, <2>1, Stays
<1>8. CASE PodExit(p) \/ PodAbandoned(p)
  <2>1. CancelWorkers(p) /\ UNCHANGED podQ
    BY <1>8 DEF PodExit, PodAbandoned
  <2> QED
    BY <1>1, <2>1, CancelPlaces
<1> QED
  BY <1>4, <1>5, <1>6, <1>7, <1>8 DEF PodStep

\* Replies that a pod makes.
LEMMA PodReplies ==
  ASSUME TypeInv, Inv, FlowInv, NEW p \in Pods, PodStep(p) \/ PodAbandoned(p),
         NEW d \in Reqs, reply'[d] # reply[d]
  PROVE  worker[d] # "none" /\ reply'[d] # "created"
<1>1. reply \in [Reqs -> Replies] /\ held \in [Reqs -> SUBSET Reqs]
  BY DEF TypeInv, PodTypeInv, PodTypeOK
<1>2. CASE PodForward(p)
  <2>1. worker[Head(podQ[p]).req] # "none"
    BY <1>2, ForwardsToOwn DEF PodForward
  <2> QED
    BY <1>1, <1>2, <2>1 DEF PodForward
<1>3. CASE CancelWorkers(p)
  <2>1. WorkersOf(p) \subseteq Reqs /\ OwnTriggers
    BY DEF WorkersOf, Elems, Inv, TablesFilled
  <2>2. \/ \E w \in WorkersOf(p) : Listening(w) /\ Http(d) \in Elems(wq[w])
        \/ \E w \in WorkersOf(p) : worker[w] = "closing" /\ d \in held[w]
    BY <1>1, <1>3 DEF CancelWorkers
  <2>3. \/ Listening(d)
        \/ worker[d] = "closing"
    BY <2>1, <2>2, QueuedIsCarried DEF QueuedHttp, OwnTriggers
  <2>4. reply'[d] \in {reply[d], "dropped", "empty"}
    BY <1>3 DEF CancelWorkers
  <2> QED
    BY <2>3, <2>4 DEF Listening
<1>4. CASE PodCheckVacancies(p) \/ PodCreateWorker(p) \/ PodHaltReceived(p)
  BY <1>4 DEF PodCheckVacancies, PodCreateWorker, PodHaltReceived
<1>5. CASE PodDrain(p) \/ PodDrained(p) \/ PodHalted(p)
  <2>1. CASE PodDrain(p)
    BY <2>1 DEF PodDrain
  <2>2. CASE PodDrained(p) \/ PodHalted(p)
    BY <2>2 DEF PodDrained, PodHalted
  <2> QED
    BY <1>5, <2>1, <2>2
<1>6. CASE PodExit(p) \/ PodAbandoned(p)
  BY <1>3, <1>6 DEF PodExit, PodAbandoned
<1> QED
  BY <1>2, <1>4, <1>5, <1>6 DEF PodStep

LEMMA PodServes ==
  ASSUME TypeInv, Inv, FlowInv, ServiceInv, NEW p \in Pods, PodStep(p) \/ PodAbandoned(p),
         UNCHANGED svlVars
  PROVE  ServiceInv'
<1>1. UNCHANGED <<op, client, svl, svlQ>>
  BY DEF svlVars
<1>2. OneReplier'
  <2>1. WorkerReqs' = WorkerReqs
    BY <1>1 DEF WorkerReqs
  <2>2. \A c \in WorkerReqs : OneCopy(c)' /\ OnePlace(c)'
    BY PodPlaces
  <2> QED
    BY <2>1, <2>2 DEF OneReplier
<1>3. \A d \in Reqs : reply'[d] = reply[d] \/ (worker[d] # "none" /\ reply'[d] # "created")
  BY PodReplies
<1>4. KindsMatch' /\ NewUnanswered'
  BY <1>1, <1>3 DEF ServiceInv, KindsMatch, NewUnanswered, FlowInv, NewInv
<1>5. BegunPlaced'
  <2>1. CASE PodCreateWorker(p)
    <3>1. /\ table[p].workers \in Seq(Reqs \cup {None}) /\ worker \in [Reqs -> Lives]
      BY DEF TypeInv, PodTypeInv, PodTypeOK, TableType
    <3> DEFINE n == Len(table[p].workers)
    <3>2. /\ n \in Nat /\ Len(table'[p].workers) = n + 1
          /\ \A i \in 1 .. n : table'[p].workers[i] = table[p].workers[i]
          /\ table'[p].workers[n + 1] = svl.req /\ svl.req \in Reqs
          /\ \A q \in Pods : q # p => table'[q] = table[q]
          /\ worker' = [worker EXCEPT ![svl.req] = "starting"]
      BY <2>1, CreationStep
    <3> SUFFICES ASSUME NEW c \in Reqs, worker'[c] # "none"
                 PROVE  \E q \in Pods : \E i \in 1 .. Len(table'[q].workers) :
                          table'[q].workers[i] = c
      BY DEF BegunPlaced
    <3>3. CASE c = svl.req
      <4>1. n + 1 \in 1 .. Len(table'[p].workers)
        BY <3>2
      <4> QED
        BY <3>2, <3>3, <4>1
    <3>4. CASE c # svl.req
      <4>1. PICK q \in Pods : \E i \in 1 .. Len(table[q].workers) : table[q].workers[i] = c
        BY <3>1, <3>2, <3>4 DEF ServiceInv, BegunPlaced
      <4>2. CASE q # p
        BY <3>2, <4>1, <4>2
      <4>3. CASE q = p
        <5>1. PICK i \in 1 .. n : table[p].workers[i] = c
          BY <4>1, <4>3
        <5>2. i \in 1 .. Len(table'[p].workers) /\ table'[p].workers[i] = c
          BY <3>2, <5>1
        <5> QED
          BY <5>2
      <4> QED
        BY <4>2, <4>3
    <3> QED
      BY <3>3, <3>4
  <2>2. CASE /\ UNCHANGED table
             /\ \A c \in Reqs : worker'[c] # "none" => worker[c] # "none"
    BY <2>2 DEF ServiceInv, BegunPlaced
  <2>3. CASE PodCheckVacancies(p) \/ PodForward(p) \/ PodHaltReceived(p)
    BY <2>2, <2>3 DEF PodCheckVacancies, PodForward, PodHaltReceived
  <2>4. CASE PodDrain(p) \/ PodDrained(p) \/ PodHalted(p)
    <3>1. PodDrain(p) => UNCHANGED <<table, worker>>
      BY DEF PodDrain
    <3>2. PodDrained(p) \/ PodHalted(p) => UNCHANGED <<table, worker>>
      BY DEF PodDrained, PodHalted
    <3> QED
      BY <2>2, <2>4, <3>1, <3>2
  <2>5. CASE PodExit(p) \/ PodAbandoned(p)
    <3>1. CancelWorkers(p) /\ UNCHANGED table
      BY <2>5 DEF PodExit, PodAbandoned
    <3>2. \A c \in Reqs : worker'[c] # "none" => worker[c] # "none"
      BY <3>1 DEF CancelWorkers, Listening
    <3> QED
      BY <2>2, <3>1, <3>2
  <2> QED
    BY <2>1, <2>3, <2>4, <2>5 DEF PodStep
<1> QED
  BY <1>2, <1>4, <1>5 DEF ServiceInv

\* The workers: each deals with its own request only.
LEMMA WorkerPlaces ==
  ASSUME TypeInv, Inv, ServiceInv, NEW w \in Reqs, WorkerStep(w) \/ WorkerEvent(w),
         UNCHANGED svlVars, NEW c \in WorkerReqs
  PROVE  /\ OneCopy(c)' /\ OnePlace(c)'
         /\ reply'[c] = reply[c] \/ reply[c] = "pending"
<1> USE DEF WorkerReceives, LeaveLoop
<1>1. UNCHANGED <<svl, svlQ, podQ>>
  BY DEF svlVars, WorkerStep, WorkerEvent, WorkerReady, WorkerStartFails, WorkerHoldsHttp,
         WorkerIgnoresHttp, WorkerFailsHttp, WorkerFailsKept, WorkerHalts, WorkerReplies,
         WorkerCloses, MonitorKills
<1>2. /\ OneCopy(c) /\ OnePlace(c) /\ c \in Reqs
      /\ reply \in [Reqs -> Replies] /\ wq \in [Reqs -> Seq(WorkerTrigger)]
      /\ held \in [Reqs -> SUBSET Reqs] /\ OwnTriggers
  BY DEF ServiceInv, OneReplier, WorkerReqs, TypeInv, PodTypeInv, PodTypeOK, Inv
<1>3. /\ AtHandle(c)' <=> AtHandle(c)
      /\ AtTask(c)' <=> AtTask(c)
      /\ AtPod(c)' <=> AtPod(c)
      /\ OnceAtHandle(c)' /\ OnceAtPod(c)' /\ OnceAtWorker(c)
  BY <1>1, <1>2, Untouched DEF OneCopy
<1>4. /\ \A d \in Reqs : d \in QueuedHttp(w) => d = w
      /\ \A d \in held[w] : d = w
      /\ wq[w] # <<>> /\ Head(wq[w]).type = "http" => Head(wq[w]).req = w
  BY <1>2, QueuedIsCarried, Taking DEF OwnTriggers
<1>5. CASE c # w
  <2>1. wq'[c] = wq[c] /\ held'[c] = held[c] /\ reply'[c] = reply[c]
    BY <1>2, <1>4, <1>5
    DEF WorkerStep, WorkerEvent, WorkerReady, WorkerStartFails, WorkerHoldsHttp,
        WorkerIgnoresHttp, WorkerFailsHttp, WorkerFailsKept, WorkerHalts, WorkerReplies,
        WorkerCloses, MonitorKills
  <2> QED
    BY <1>2, <1>3, <2>1, Untouched, Stays
<1>6. CASE c = w
  <2>1. CASE WorkerReady(w)
    <3>1. wq'[c] = wq[c] /\ held'[c] = held[c] /\ reply'[c] = reply[c]
      BY <2>1 DEF WorkerReady
    <3> QED
      BY <1>2, <1>3, <3>1, Untouched, Stays
  <2>2. CASE WorkerStartFails(w) \/ WorkerFailsHttp(w) \/ WorkerHalts(w)
    <3>1. /\ wq'[c] = <<>> /\ held'[c] = held[c]
          /\ reply'[c] = IF c \in QueuedHttp(w) THEN "dropped" ELSE reply[c]
      BY <1>2, <1>6, <2>2 DEF WorkerStartFails, WorkerFailsHttp, WorkerHalts
    <3>2. ~ AtWorker(c)' /\ OnceAtWorker(c)' /\ (AtPromise(c)' <=> AtPromise(c))
      BY <3>1, CarriesNothing, Untouched DEF AtWorker, OnceAtWorker
    <3>3. CASE AtWorker(c)
      <4>1. ~ AtHandle(c)' /\ ~ AtTask(c)' /\ ~ AtPod(c)' /\ ~ AtPromise(c)' /\ reply[c] = "pending"
        BY <1>2, <1>3, <3>2, <3>3 DEF OnePlace
      <4> QED
        BY <1>2, <1>3, <3>2, <3>3, <4>1, Stays
    <3>4. CASE ~ AtWorker(c)
      <4>1. reply'[c] = reply[c]
        BY <1>2, <3>1, <3>4, QueuedIsCarried
      <4> QED
        BY <1>2, <1>3, <3>2, <3>4, <4>1, Stays
    <3> QED
      BY <3>3, <3>4
  <2>3. ASSUME WorkerReceives(w, {"http"})
        PROVE  /\ AtWorker(c) /\ reply[c] = "pending" /\ Head(wq[w]).req = c
               /\ ~ AtHandle(c) /\ ~ AtTask(c) /\ ~ AtPod(c) /\ ~ AtPromise(c)
               /\ wq' = [wq EXCEPT ![w] = Tail(@)] => ~ AtWorker(c)' /\ OnceAtWorker(c)'
    <3>1. wq[w] # <<>> /\ Head(wq[w]).type = "http" /\ Head(wq[w]).req = c
      BY <1>4, <1>6, <2>3
    <3>2. AtWorker(c)
      <4>1. 1 \in 1 .. Len(wq[w]) /\ Head(wq[w]) = wq[w][1]
        BY <1>2, <3>1, Taking
      <4> QED
        BY <1>6, <3>1, <4>1 DEF AtWorker, Carries
    <3>3. wq' = [wq EXCEPT ![w] = Tail(@)] => ~ AtWorker(c)' /\ OnceAtWorker(c)'
      BY <1>2, <1>3, <1>6, <3>1, WorkerTaken
    <3> QED
      BY <1>2, <3>1, <3>2, <3>3 DEF OnePlace
  <2>4. CASE WorkerHoldsHttp(w) \/ WorkerFailsKept(w)
    <3>1. /\ WorkerReceives(w, {"http"}) /\ reply'[c] = reply[c] /\ c \in held'[c]
          /\ wq' = [wq EXCEPT ![w] = Tail(@)] \/ wq'[c] = <<>>
      <4>1. WorkerReceives(w, {"http"})
        BY <2>4 DEF WorkerHoldsHttp, WorkerFailsKept
      <4>2. Head(wq[w]).req = c
        BY <2>3, <4>1
      <4> QED
        BY <1>2, <1>6, <2>4, <4>1, <4>2 DEF WorkerHoldsHttp, WorkerFailsKept
    <3>2. /\ AtWorker(c) /\ reply'[c] = "pending"
          /\ ~ AtHandle(c) /\ ~ AtTask(c) /\ ~ AtPod(c)
      BY <2>3, <3>1
    <3>3. ~ AtWorker(c)' /\ OnceAtWorker(c)'
      <4>1. wq'[c] = <<>> => ~ AtWorker(c)' /\ OnceAtWorker(c)'
        BY CarriesNothing DEF AtWorker, OnceAtWorker
      <4> QED
        BY <2>3, <3>1, <4>1
    <3>4. OneCopy(c)'
      BY <1>3, <3>3 DEF OneCopy
    <3>5. OnePlace(c)'
      BY <1>3, <3>2, <3>3 DEF OnePlace
    <3> QED
      BY <3>1, <3>4, <3>5
  <2>5. CASE WorkerIgnoresHttp(w)
    <3>1. /\ WorkerReceives(w, {"http"}) /\ wq' = [wq EXCEPT ![w] = Tail(@)] /\ UNCHANGED held
      BY <2>5 DEF WorkerIgnoresHttp
    <3>2. /\ reply[c] = "pending" /\ ~ AtWorker(c)' /\ OnceAtWorker(c)'
          /\ ~ AtHandle(c)' /\ ~ AtTask(c)' /\ ~ AtPod(c)' /\ ~ AtPromise(c)'
      BY <1>3, <2>3, <3>1, Untouched
    <3> QED
      BY <1>2, <1>3, <3>2, Stays
  <2>6. ASSUME NEW d \in Reqs, WorkerReplies(w, d)
        PROVE  /\ OneCopy(c)' /\ OnePlace(c)'
               /\ reply'[c] = reply[c] \/ reply[c] = "pending"
    <3>1. /\ d = c /\ c \in held[c] /\ held'[c] = held[c] \ {c} /\ UNCHANGED wq
      BY <1>2, <1>4, <1>6, <2>6 DEF WorkerReplies
    <3>2. AtPromise(c) /\ ~ AtPromise(c)'
      BY <3>1 DEF AtPromise
    <3>3. (AtWorker(c)' <=> AtWorker(c)) /\ OnceAtWorker(c)'
      BY <1>3, <3>1, Untouched
    <3>4. reply[c] = "pending" /\ ~ AtHandle(c)' /\ ~ AtTask(c)' /\ ~ AtPod(c)' /\ ~ AtWorker(c)'
      BY <1>2, <1>3, <3>2, <3>3 DEF OnePlace
    <3> QED
      BY <1>2, <1>3, <3>2, <3>3, <3>4, Stays
  <2>7. CASE WorkerCloses(w)
    <3>1. /\ held'[c] = {} /\ UNCHANGED wq
          /\ reply'[c] = IF c \in held[c] THEN "empty" ELSE reply[c]
      BY <1>2, <1>6, <2>7 DEF WorkerCloses
    <3>2. /\ ~ AtPromise(c)' /\ (AtWorker(c)' <=> AtWorker(c)) /\ OnceAtWorker(c)'
      BY <1>3, <3>1, Untouched DEF AtPromise
    <3>3. CASE AtPromise(c)
      <4>1. reply[c] = "pending" /\ ~ AtHandle(c)' /\ ~ AtTask(c)' /\ ~ AtPod(c)' /\ ~ AtWorker(c)'
        BY <1>2, <1>3, <3>2, <3>3 DEF OnePlace
      <4> QED
        BY <1>2, <1>3, <3>2, <4>1, Stays
    <3>4. CASE ~ AtPromise(c)
      <4>1. reply'[c] = reply[c]
        BY <3>1, <3>4 DEF AtPromise
      <4> QED
        BY <1>2, <1>3, <3>2, <4>1, Stays
    <3> QED
      BY <3>3, <3>4
  <2>8. CASE MonitorKills(w)
    <3>1. /\ wq' = [wq EXCEPT ![w] = Append(@, MonitorHalt)] /\ UNCHANGED <<held, reply>>
          /\ MonitorHalt \in WorkerTrigger /\ MonitorHalt.type # "http"
      BY <2>8, WorkerTriggers DEF MonitorKills, MonitorHalt
    <3>2. (AtWorker(c)' <=> AtWorker(c)) /\ OnceAtWorker(c)' /\ (AtPromise(c)' <=> AtPromise(c))
      BY <1>2, <1>3, <3>1, WorkerSent, Untouched
    <3> QED
      BY <1>2, <1>3, <3>1, <3>2, Stays
  <2> QED
    BY <2>1, <2>2, <2>4, <2>5, <2>6, <2>7, <2>8 DEF WorkerStep, WorkerEvent
<1> QED
  BY <1>5, <1>6

LEMMA WorkerServes ==
  ASSUME TypeInv, Inv, FlowInv, ServiceInv, NEW w \in Reqs, WorkerStep(w) \/ WorkerEvent(w),
         UNCHANGED svlVars
  PROVE  ServiceInv'
<1>1. UNCHANGED <<op, client, svl, svlQ>>
  BY DEF svlVars
<1>2. OneReplier'
  <2>1. WorkerReqs' = WorkerReqs
    BY <1>1 DEF WorkerReqs
  <2>2. \A c \in WorkerReqs : OneCopy(c)' /\ OnePlace(c)'
    BY WorkerPlaces
  <2> QED
    BY <2>1, <2>2 DEF OneReplier
<1>3. /\ \A d \in QueuedHttp(w) : d = w
      /\ \A d \in held[w] : d = w
      /\ wq[w] # <<>> /\ Head(wq[w]).type = "http" => Head(wq[w]).req = w
  <2>1. wq[w] \in Seq(WorkerTrigger) /\ held[w] \in SUBSET Reqs /\ OwnTriggers
    BY DEF TypeInv, PodTypeInv, PodTypeOK, Inv
  <2>2. \A d \in QueuedHttp(w) : d = w
    BY <2>1, QueuedIsCarried DEF QueuedHttp
  <2> QED
    BY <2>1, <2>2, Taking DEF OwnTriggers
<1>4. /\ UNCHANGED table
      /\ worker[w] # "none" \/ UNCHANGED <<worker, reply>>
      /\ \E l : worker' = [worker EXCEPT ![w] = l]
  <2>1. worker \in [Reqs -> Lives]
    BY DEF TypeInv, PodTypeInv, PodTypeOK
  <2>2. CASE \E d \in Reqs : WorkerReplies(w, d)
    BY <2>1, <2>2 DEF WorkerReplies
  <2>3. CASE WorkerReady(w) \/ WorkerHoldsHttp(w) \/ WorkerIgnoresHttp(w) \/ WorkerFailsKept(w)
    BY <2>1, <2>3 DEF WorkerReady, WorkerHoldsHttp, WorkerIgnoresHttp, WorkerFailsKept, WorkerReceives
  <2>4. CASE WorkerStartFails(w) \/ WorkerFailsHttp(w) \/ WorkerHalts(w)
    BY <2>4 DEF WorkerStartFails, WorkerFailsHttp, WorkerHalts, WorkerReceives, LeaveLoop
  <2>5. CASE WorkerCloses(w) \/ MonitorKills(w)
    BY <2>1, <2>5 DEF WorkerCloses, MonitorKills
  <2> QED
    BY <2>2, <2>3, <2>4, <2>5 DEF WorkerStep, WorkerEvent
<1>5. \A d \in Reqs : reply'[d] = reply[d] \/ (d = w /\ reply'[d] # "created")
  BY <1>3
  DEF TypeInv, PodTypeInv, PodTypeOK, WorkerStep, WorkerEvent, WorkerReady, WorkerStartFails, WorkerHoldsHttp,
      WorkerIgnoresHttp, WorkerFailsHttp, WorkerFailsKept, WorkerHalts, WorkerReplies,
      WorkerCloses, MonitorKills, LeaveLoop, WorkerReceives
<1>6. KindsMatch' /\ NewUnanswered'
  BY <1>1, <1>4, <1>5 DEF ServiceInv, KindsMatch, NewUnanswered, FlowInv, NewInv
<1>7. BegunPlaced'
  BY <1>4 DEF ServiceInv, BegunPlaced
<1> QED
  BY <1>2, <1>6, <1>7 DEF ServiceInv

LEMMA ServiceInit == Init => ServiceInv
<1> SUFFICES ASSUME Init PROVE ServiceInv
  OBVIOUS
<1>1. /\ svlQ = <<>> /\ svl.req = None /\ svl.pc = "select"
      /\ podQ = [p \in Pods |-> <<>>] /\ wq = [w \in Reqs |-> <<>>]
      /\ held = [w \in Reqs |-> {}] /\ reply = [c \in Reqs |-> "none"]
      /\ worker = [w \in Reqs |-> "none"]
  BY DEF Init, PodInit, Selecting, SvlAt
<1>2. ASSUME NEW c \in WorkerReqs PROVE OneCopy(c) /\ OnePlace(c)
  <2>1. c \in Reqs /\ c # None
    BY PodAssumption DEF WorkerReqs
  <2>2. ~ AtHandle(c) /\ ~ AtTask(c) /\ ~ AtPod(c) /\ ~ AtWorker(c) /\ ~ AtPromise(c)
    BY <1>1, <2>1, CarriesNothing DEF AtHandle, AtTask, AtPod, AtWorker, AtPromise
  <2>3. OneCopy(c)
    BY <1>1, <2>1, CarriesNothing DEF OneCopy, OnceAtHandle, OnceAtPod, OnceAtWorker
  <2> QED
    BY <2>2, <2>3 DEF OnePlace
<1>3. OneReplier
  BY <1>2 DEF OneReplier
<1>4. KindsMatch /\ NewUnanswered /\ BegunPlaced
  BY <1>1 DEF KindsMatch, NewUnanswered, BegunPlaced
<1> QED
  BY <1>3, <1>4 DEF ServiceInv

LEMMA ServiceInvStep == TypeInv /\ Inv /\ FlowInv /\ ServiceInv /\ [Next]_vars => ServiceInv'
<1> SUFFICES ASSUME TypeInv, Inv, FlowInv, ServiceInv, [Next]_vars PROVE ServiceInv'
  OBVIOUS
<1>1. CASE UNCHANGED vars
  <2>1. UNCHANGED <<op, client, svl, svlQ, table, podQ, worker, wq, held, reply>>
    BY <1>1 DEF vars, svlVars, podVars
  <2>2. OneReplier'
    <3>1. WorkerReqs' = WorkerReqs
      BY <2>1 DEF WorkerReqs
    <3>2. ASSUME NEW c \in WorkerReqs PROVE OneCopy(c)' /\ OnePlace(c)'
      <4>1. OneCopy(c) /\ OnePlace(c)
        BY DEF ServiceInv, OneReplier
      <4> QED
        BY <2>1, <4>1, Untouched, Stays DEF OneCopy
    <3> QED
      BY <3>1, <3>2 DEF OneReplier
  <2> QED
    BY <2>1, <2>2 DEF ServiceInv, KindsMatch, NewUnanswered, BegunPlaced
<1> QED
  BY <1>1, ClientServes, SvlServes, PodServes, WorkerServes
  DEF Next, PodTurn, Terminated

-----------------------------------------------------------------------------
(***************************************************************************)
(* The steps of Service in terms of stages and holders.  A step in which   *)
(* requests end at most, be it none, is the action End.                    *)
(***************************************************************************)
EndsOrStays(c) ==
  \/ StageOf(c)' = StageOf(c)
  \/ StageOf(c) \in {"new", "asked", "placed", "running"} /\ StageOf(c)' = "failed"
  \/ StageOf(c) = "running" /\ StageOf(c)' = "answered"

RestStay(c) == \A d \in Reqs : d # c => StageOf(d)' = StageOf(d)

LEMMA IsEnding ==
  ASSUME \A c \in Reqs : EndsOrStays(c), UNCHANGED Holder
  PROVE  Promise!Next
<1> DEFINE failing == {c \in Reqs : StageOf(c)' = "failed" /\ StageOf(c) # "failed"}
           ending == {c \in Reqs : StageOf(c)' = "answered" /\ StageOf(c) # "answered"}
           stage == [c \in Reqs |-> StageOf(c)]
<1>1. \A c \in failing : stage[c] \in {"asked", "placed", "running"} \cup {"new"}
  BY DEF EndsOrStays
<1>2. \A c \in ending : stage[c] = "running"
  BY DEF EndsOrStays
<1>3. [c \in Reqs |-> StageOf(c)'] = [c \in Reqs |-> IF c \in failing THEN "failed"
                                                     ELSE IF c \in ending THEN "answered"
                                                     ELSE stage[c]]
  BY DEF EndsOrStays
<1>4. Promise!End(failing, ending)
  BY <1>3 DEF Promise!End
<1>5. /\ failing \in SUBSET {c \in Reqs : stage[c] \in {"asked", "placed", "running"} \cup {"new"}}
      /\ ending \in SUBSET {c \in Reqs : stage[c] = "running"}
  BY <1>1, <1>2
<1> QED
  BY <1>4, <1>5 DEF Promise!Next, Promise!Underway

LEMMA IsMove ==
  ASSUME NEW c \in Reqs, NEW from, NEW to, StageOf(c) = from, StageOf(c)' = to, RestStay(c)
  PROVE  Promise!Move(c, from, to)
<1>1. [d \in Reqs |-> StageOf(d)'] = [[d \in Reqs |-> StageOf(d)] EXCEPT ![c] = to]
  BY DEF RestStay
<1> QED
  BY <1>1 DEF Promise!Move

LEMMA IsAsking ==
  ASSUME NEW c \in Reqs, StageOf(c) = "new", StageOf(c)' = "asked", RestStay(c), UNCHANGED Holder
  PROVE  Promise!Next
<1>1. Promise!Ask(c)
  BY IsMove DEF Promise!Ask
<1> QED
  BY <1>1 DEF Promise!Next

LEMMA IsRefusing ==
  ASSUME NEW c \in Reqs, StageOf(c) = "asked", StageOf(c)' = "refused", RestStay(c),
         \A s \in Slots : Holder[s] # None, UNCHANGED Holder
  PROVE  Promise!Next
<1>1. Promise!Refuse(c)
  BY IsMove DEF Promise!Refuse
<1> QED
  BY <1>1 DEF Promise!Next

LEMMA IsRunning ==
  ASSUME NEW c \in Reqs, StageOf(c) = "placed", StageOf(c)' = "running", RestStay(c),
         \E s \in Slots : Holder[s] = c, UNCHANGED Holder
  PROVE  Promise!Next
<1>1. Promise!Run(c)
  BY IsMove DEF Promise!Run
<1> QED
  BY <1>1 DEF Promise!Next

LEMMA IsPlacing ==
  ASSUME NEW c \in Reqs, StageOf(c) = "asked", StageOf(c)' = "placed", RestStay(c),
         NEW s \in Slots, Holder[s] = None, Holder' = [Holder EXCEPT ![s] = c]
  PROVE  Promise!Next
<1>1. Promise!Place(c, s)
  BY IsMove DEF Promise!Place
<1> QED
  BY <1>1 DEF Promise!Next

(***************************************************************************)
(* How the stage of a request changes.                                     *)
(***************************************************************************)
LEMMA Stages ==
  ASSUME NEW c \in Reqs
  PROVE  /\ c \notin WorkerReqs => StageOf(c) = "new"
         /\ client[c] = "new" => StageOf(c) = "new"
         /\ c \in WorkerReqs /\ client[c] # "new" /\ reply[c] = "pending" =>
              StageOf(c) = IF AtPromise(c) THEN "running"
                           ELSE IF worker[c] # "none" THEN "placed" ELSE "asked"
BY DEF StageOf, WorkerReqs, AtPromise

LEMMA StagesNext ==
  ASSUME NEW c \in Reqs, UNCHANGED op
  PROVE  /\ c \notin WorkerReqs => StageOf(c)' = "new"
         /\ c \in WorkerReqs /\ client'[c] # "new" =>
            /\ reply'[c] = "pending" =>
                 StageOf(c)' = IF AtPromise(c)' THEN "running"
                               ELSE IF worker'[c] # "none" THEN "placed" ELSE "asked"
            /\ reply'[c] = "noVacancy" => StageOf(c)' = "refused"
            /\ reply'[c] \in {"value", "empty"} => StageOf(c)' = "answered"
            /\ reply'[c] \in {"noCode", "dropped", "none"} => StageOf(c)' = "failed"
            /\ reply'[c] = "created" /\ client'[c] # "wait" => StageOf(c)' = "failed"
BY DEF StageOf, WorkerReqs, AtPromise

LEMMA StageStays ==
  ASSUME NEW c \in Reqs, op'[c] = op[c], client'[c] = client[c], reply'[c] = reply[c],
         AtPromise(c)' <=> AtPromise(c), worker'[c] = "none" <=> worker[c] = "none"
  PROVE  StageOf(c)' = StageOf(c)
BY DEF StageOf, AtPromise

\* A request whose handler does not move ends with its reply, or stays.
LEMMA Reported ==
  ASSUME ServiceInv, NEW c \in Reqs, UNCHANGED <<op, client>>,
         worker'[c] = "none" <=> worker[c] = "none",
         \/ c \notin WorkerReqs
         \/ reply'[c] = reply[c] /\ (AtPromise(c)' <=> AtPromise(c))
         \/ reply[c] = "pending" /\ reply'[c] \in {"noCode", "dropped"}
         \/ reply[c] = "pending" /\ AtPromise(c) /\ reply'[c] \in {"value", "empty"}
  PROVE  EndsOrStays(c)
<1>1. reply[c] = "pending" => client[c] # "new" /\ client'[c] # "new"
  BY DEF ServiceInv, NewUnanswered
<1>2. CASE c \notin WorkerReqs
  BY <1>2, Stages, StagesNext DEF EndsOrStays
<1>3. CASE reply'[c] = reply[c] /\ (AtPromise(c)' <=> AtPromise(c))
  BY <1>3, StageStays DEF EndsOrStays
<1>4. CASE c \in WorkerReqs /\ reply[c] = "pending" /\ reply'[c] \in {"noCode", "dropped"}
  BY <1>1, <1>4, Stages, StagesNext DEF EndsOrStays
<1>5. CASE c \in WorkerReqs /\ reply[c] = "pending" /\ AtPromise(c) /\ reply'[c] \in {"value", "empty"}
  BY <1>1, <1>5, Stages, StagesNext DEF EndsOrStays
<1> QED
  BY <1>2, <1>3, <1>4, <1>5

\* A request that is in a place waits; it runs if the place is a promise.
LEMMA Awaited ==
  ASSUME ServiceInv, NEW c \in WorkerReqs,
         AtHandle(c) \/ AtTask(c) \/ AtPod(c) \/ AtWorker(c)
  PROVE  /\ c \in Reqs /\ reply[c] = "pending" /\ ~ AtPromise(c) /\ client[c] # "new"
         /\ StageOf(c) = IF worker[c] # "none" THEN "placed" ELSE "asked"
<1>1. c \in Reqs /\ OnePlace(c)
  BY DEF ServiceInv, OneReplier, WorkerReqs
<1>2. reply[c] = "pending" /\ ~ AtPromise(c)
  BY <1>1 DEF OnePlace
<1>3. client[c] # "new"
  BY <1>1, <1>2 DEF ServiceInv, NewUnanswered
<1> QED
  BY <1>1, <1>2, <1>3, Stages

-----------------------------------------------------------------------------
(***************************************************************************)
(* Every step is one of Service's.  The handlers ask, or give up.          *)
(***************************************************************************)
LEMMA ClientKeepsPromise ==
  ASSUME TypeInv, Inv, FlowInv, ServiceInv, NEW d \in Reqs, ClientStep(d) \/ ClientGone(d)
  PROVE  Promise!Next
<1>1. UNCHANGED <<op, worker, held, table>>
  BY DEF ClientStep, ClientSubmits, ClientFindsClosed, ClientBadBody, ClientUploaded,
         ClientNotCreated, ClientSendsHttp, ClientCannotSendHttp, ClientAnswered, ClientGone,
         podVars
<1>2. UNCHANGED Holder
  BY <1>1 DEF Holder
<1>3. /\ \A c \in Reqs : c # d => client'[c] = client[c] /\ reply'[c] = reply[c]
      /\ client'[d] # "new"
  <2> USE DEF TypeInv, SvlTypeInv, SvlTypeOK, PodTypeInv, PodTypeOK
  <2>1. CASE ClientSubmits(d)
    BY <2>1 DEF ClientSubmits, Respond
  <2>2. CASE ClientSendsHttp(d) \/ ClientGone(d)
    BY <2>2 DEF ClientSendsHttp, ClientGone, podVars
  <2>3. CASE ClientFindsClosed(d) \/ ClientBadBody(d) \/ ClientUploaded(d)
    BY <2>3 DEF ClientFindsClosed, ClientBadBody, ClientUploaded, Respond, podVars
  <2>4. CASE ClientNotCreated(d) \/ ClientCannotSendHttp(d) \/ ClientAnswered(d)
    BY <2>4 DEF ClientNotCreated, ClientCannotSendHttp, ClientAnswered, Respond, podVars
  <2> QED
    BY <2>1, <2>2, <2>3, <2>4 DEF ClientStep
<1>4. /\ \A c \in Reqs : AtPromise(c)' <=> AtPromise(c)
      /\ \A c \in Reqs : worker'[c] = "none" <=> worker[c] = "none"
  BY <1>1 DEF AtPromise
<1>5. RestStay(d)
  BY <1>1, <1>3, <1>4, StageStays DEF RestStay
<1>6. ASSUME EndsOrStays(d) PROVE Promise!Next
  <2>1. \A c \in Reqs : EndsOrStays(c)
    BY <1>5, <1>6 DEF RestStay, EndsOrStays
  <2> QED
    BY <1>2, <2>1, IsEnding
<1>7. CASE d \notin WorkerReqs
  BY <1>1, <1>6, <1>7, Stages, StagesNext DEF EndsOrStays
<1>8. ASSUME d \in WorkerReqs, client[d] # "new", reply'[d] = reply[d],
             reply[d] # "created" \/ (client[d] # "wait" /\ client'[d] # "wait")
      PROVE  StageOf(d)' = StageOf(d)
  <2>1. op' = op /\ worker' = worker /\ held' = held /\ client'[d] # "new"
    BY <1>1, <1>3
  <2> QED
    BY <1>8, <2>1 DEF StageOf
<1>9. ASSUME d \in WorkerReqs PROVE Promise!Next
  <2>1. op[d].kind = "worker" /\ OnePlace(d)
    BY <1>9 DEF WorkerReqs, ServiceInv, OneReplier
  <2>2. client[d] = "new" => StageOf(d) = "new" /\ reply[d] = "none" /\ worker[d] = "none"
    BY Stages DEF ServiceInv, NewUnanswered, FlowInv, NewInv
  <2>3. CASE ClientSubmits(d)
    <3>1. client[d] = "new" /\ reply' = [reply EXCEPT ![d] = "pending"]
      BY <2>1, <2>3 DEF ClientSubmits
    <3>2. reply'[d] = "pending"
      BY <3>1 DEF TypeInv, PodTypeInv, PodTypeOK
    <3>3. ~ AtPromise(d)' /\ worker'[d] = "none"
      BY <1>1, <1>4, <2>1, <2>2, <3>1 DEF OnePlace
    <3>4. StageOf(d)' = "asked"
      BY <1>1, <1>3, <1>9, <3>2, <3>3, StagesNext
    <3> QED
      BY <1>2, <1>5, <2>2, <3>1, <3>4, IsAsking
  <2>4. CASE ClientFindsClosed(d)
    <3>1. client[d] = "new" /\ reply'[d] = reply[d]
      BY <2>4 DEF ClientFindsClosed, podVars
    <3>2. StageOf(d)' = "failed"
      BY <1>1, <1>3, <1>9, <2>2, <3>1, StagesNext
    <3> QED
      BY <1>6, <2>2, <3>1, <3>2 DEF EndsOrStays
  <2>5. CASE ClientBadBody(d) \/ ClientUploaded(d)
    BY <2>1, <2>5 DEF ClientBadBody, ClientUploaded
  <2>6. CASE ClientNotCreated(d) \/ ClientAnswered(d)
    <3>1. /\ client[d] # "new" /\ reply'[d] = reply[d]
          /\ reply[d] # "created" \/ (client[d] # "wait" /\ client'[d] # "wait")
      BY <2>6
      DEF ClientNotCreated, ClientAnswered, Respond, podVars, TypeInv, SvlTypeInv, SvlTypeOK
    <3>2. StageOf(d)' = StageOf(d)
      BY <1>8, <1>9, <3>1
    <3> QED
      BY <1>6, <3>2 DEF EndsOrStays
  <2>7. CASE client[d] = "wait" /\ reply[d] = "created"
    <3>1. StageOf(d) = IF worker[d] # "none" THEN "placed" ELSE "asked"
      BY <2>1, <2>7 DEF StageOf, OnePlace, AtPromise
    <3>2. CASE ClientSendsHttp(d)
      <4>1. reply'[d] = "pending"
        BY <3>2 DEF ClientSendsHttp, TypeInv, PodTypeInv, PodTypeOK
      <4>2. ~ AtPromise(d)'
        BY <1>4, <2>1, <2>7 DEF OnePlace
      <4>3. StageOf(d)' = StageOf(d)
        BY <1>1, <1>3, <1>4, <1>9, <3>1, <4>1, <4>2, StagesNext
      <4> QED
        BY <1>6, <4>3 DEF EndsOrStays
    <3>3. CASE ClientCannotSendHttp(d) \/ ClientGone(d)
      <4>1. reply'[d] = "created" /\ client'[d] # "wait"
        BY <2>7, <3>3
        DEF ClientCannotSendHttp, ClientGone, Respond, podVars, TypeInv, SvlTypeInv, SvlTypeOK
      <4>2. StageOf(d)' = "failed"
        BY <1>1, <1>3, <1>9, <4>1, StagesNext
      <4> QED
        BY <1>6, <3>1, <4>2 DEF EndsOrStays
    <3> QED
      BY <2>3, <2>4, <2>5, <2>6, <3>2, <3>3 DEF ClientStep
  <2>8. CASE ClientGone(d) /\ ~ (client[d] = "wait" /\ reply[d] = "created")
    <3>1. /\ client[d] # "new" /\ reply'[d] = reply[d]
          /\ reply[d] # "created" \/ (client[d] # "wait" /\ client'[d] # "wait")
      BY <2>8 DEF ClientGone, podVars, TypeInv, SvlTypeInv, SvlTypeOK
    <3>2. StageOf(d)' = StageOf(d)
      BY <1>8, <1>9, <3>1
    <3> QED
      BY <1>6, <3>2 DEF EndsOrStays
  <2> QED
    BY <2>3, <2>4, <2>5, <2>6, <2>7, <2>8 DEF ClientStep, ClientSendsHttp, ClientCannotSendHttp
<1> QED
  BY <1>7, <1>9

\* The serverless task refuses, or loses a request or finds no code for it.
LEMMA SvlKeepsPromise ==
  ASSUME TypeInv, Inv, FlowInv, ServiceInv, SvlStep \/ SvlCtrlC \/ SvlServerExits
  PROVE  Promise!Next
<1> USE DEF Selecting, SvlAt
<1>1. UNCHANGED <<op, client, worker, held, table>>
  BY DEF SvlStep, SvlCtrlC, SvlServerExits, SvlCreateNoCode, SvlCreate, SvlUpload, SvlRemove,
         SvlToPod, SvlForward, SvlAsksVacancy, SvlToldVacancy, SvlNoVacancy, SvlAsksWorker,
         SvlCreated, SvlHaltsPod, SvlPodHalted, SvlJoined, SvlUnchangedPods, podVars
<1>2. UNCHANGED Holder
  BY <1>1 DEF Holder
<1>3. /\ \A c \in Reqs : AtPromise(c)' <=> AtPromise(c)
      /\ \A c \in Reqs : worker'[c] = "none" <=> worker[c] = "none"
  BY <1>1 DEF AtPromise
<1>4. /\ reply \in [Reqs -> Replies] /\ svlQ \in Seq(ServerlessTrigger)
      /\ svl.pc \in {"check", "checkWait", "create", "createWait", "toPod"} => svl.req \in Reqs
      /\ svl.req \in Reqs => svl.req \in WorkerReqs
  BY PodAssumption DEF TypeInv, SvlTypeInv, SvlTypeOK, SvlAtWork, PodTypeInv, PodTypeOK,
                       ServiceInv, KindsMatch, WorkerReqs
<1>5. ASSUME \A c \in WorkerReqs :
               \/ reply'[c] = reply[c]
               \/ reply[c] = "pending" /\ reply'[c] \in {"noCode", "dropped"}
      PROVE  Promise!Next
  BY <1>1, <1>2, <1>3, <1>5, Reported, IsEnding
<1>6. CASE SvlCreateNoCode
  <2>1. /\ svlQ # <<>> /\ svlQ' = Tail(svlQ)
        /\ reply' = [reply EXCEPT ![Head(svlQ).req] = "noCode"]
    BY <1>6 DEF SvlCreateNoCode, SvlReceived, SvlReply
  <2>2. \A c \in WorkerReqs : Head(svlQ).req = c => AtHandle(c)
    BY <2>1, HandleTaken
  <2>3. \A c \in WorkerReqs : Head(svlQ).req = c => reply[c] = "pending" /\ reply'[c] = "noCode"
    BY <1>4, <2>1, <2>2, Awaited
  <2>4. \A c \in WorkerReqs : Head(svlQ).req # c => reply'[c] = reply[c]
    BY <1>4, <2>1 DEF WorkerReqs
  <2> QED
    BY <1>5, <2>3, <2>4
<1>7. CASE SvlUpload
  <2>1. /\ svlQ # <<>> /\ Head(svlQ).type = "upload"
        /\ \E r : reply' = [reply EXCEPT ![Head(svlQ).req] = r]
    BY <1>7 DEF SvlUpload, SvlReceived, SvlReply
  <2>2. 1 \in 1 .. Len(svlQ) /\ Head(svlQ) = svlQ[1]
    BY <1>4, <2>1, Taking
  <2>3. \A c \in WorkerReqs : Head(svlQ).req # c
    BY <2>1, <2>2 DEF ServiceInv, KindsMatch, WorkerReqs
  <2>4. \A c \in WorkerReqs : reply'[c] = reply[c]
    BY <1>4, <2>1, <2>3 DEF WorkerReqs
  <2> QED
    BY <1>5, <2>4
<1>8. CASE \/ SvlCreate \/ SvlRemove \/ SvlToPod \/ SvlForward \/ SvlAsksVacancy \/ SvlAsksWorker
           \/ SvlToldVacancy \/ SvlHaltsPod \/ SvlPodHalted \/ SvlCtrlC
  <2>1. UNCHANGED reply
    BY <1>8 DEF SvlCreate, SvlRemove, SvlToPod, SvlForward, SvlAsksVacancy, SvlAsksWorker,
                SvlToldVacancy, SvlHaltsPod, SvlPodHalted, SvlCtrlC, podVars
  <2> QED
    BY <1>5, <2>1
<1>9. ASSUME NEW c \in Reqs, svl.req = c, NEW r \in Replies, reply' = [reply EXCEPT ![svl.req] = r]
      PROVE  /\ RestStay(c) /\ reply'[c] = r
             /\ c \in WorkerReqs /\ ~ AtPromise(c)
             /\ client[c] # "new" /\ client'[c] # "new"
             /\ StageOf(c) = IF worker[c] # "none" THEN "placed" ELSE "asked"
  <2>1. c \in WorkerReqs /\ reply'[c] = r
    BY <1>4, <1>9
  <2>2. /\ ~ AtPromise(c) /\ client[c] # "new"
        /\ StageOf(c) = IF worker[c] # "none" THEN "placed" ELSE "asked"
    <3>1. AtTask(c)
      BY <1>9 DEF AtTask
    <3> QED
      BY <2>1, <3>1, Awaited
  <2>3. \A d \in Reqs : d # c => StageOf(d)' = StageOf(d)
    <3>1. \A d \in Reqs : d # c => reply'[d] = reply[d]
      BY <1>4, <1>9
    <3> QED
      BY <1>1, <1>3, <3>1, StageStays
  <2> QED
    BY <1>1, <2>1, <2>2, <2>3 DEF RestStay
<1>10. CASE SvlNoVacancy
  <2>1. svl.pc = "check" /\ svl.pod = NPods /\ reply' = [reply EXCEPT ![svl.req] = "noVacancy"]
    BY <1>10 DEF SvlNoVacancy, SvlReply
  <2>2. PICK c \in Reqs : svl.req = c
    BY <1>4, <2>1
  <2>3. /\ RestStay(c) /\ reply'[c] = "noVacancy" /\ worker[c] = "none"
        /\ c \in WorkerReqs /\ client'[c] # "new" /\ StageOf(c) = "asked"
    <3>1. worker[c] = "none" /\ "noVacancy" \in Replies
      BY <2>1, <2>2 DEF FlowInv, Unborn, Replies
    <3> QED
      BY <1>9, <2>1, <2>2, <3>1
  <2>4. StageOf(c)' = "refused"
    BY <1>1, <2>3, StagesNext
  <2>5. \A s \in Slots : Holder[s] # None
    <3> SUFFICES ASSUME NEW s \in Slots PROVE Holder[s] # None
      OBVIOUS
    <3>1. /\ s[1] \in Pods /\ s[2] \in Nat /\ s[2] < NWorkers
          /\ Holder[s] = GetWorker(table[s[1]], s[2])
      BY NWorkersAssumption DEF Slots, Holder
    <3>2. Full(s[1])
      BY <2>1, <3>1, PodAssumption DEF Pods, Inv, ScanInOrder
    <3>3. s[2] < Len(table[s[1]].workers)
      <4>1. Len(table[s[1]].workers) \in Nat
        BY <3>1 DEF TypeInv, PodTypeInv, PodTypeOK, TableType
      <4> QED
        BY <3>1, <3>2, <4>1, NWorkersAssumption DEF Full
    <3>4. table[s[1]].workers[s[2] + 1] \in Reqs
      BY <3>1, <3>3, SlotFilled DEF Inv
    <3> QED
      BY <3>1, <3>3, <3>4, PodAssumption DEF GetWorker
  <2> QED
    BY <1>2, <2>3, <2>4, <2>5, IsRefusing
<1>11. CASE SvlCreated
  <2>1. svl.pc = "createWait" /\ reply' = [reply EXCEPT ![svl.req] = "created"]
    BY <1>11 DEF SvlCreated, SvlReply
  <2>2. PICK c \in Reqs : svl.req = c
    BY <1>4, <2>1
  <2>3. /\ RestStay(c) /\ reply'[c] = "created"
        /\ c \in WorkerReqs /\ ~ AtPromise(c) /\ client[c] # "new" /\ client'[c] # "new"
        /\ StageOf(c) = IF worker[c] # "none" THEN "placed" ELSE "asked"
    BY <1>9, <2>1, <2>2 DEF Replies
  <2>4. EndsOrStays(c)
    <3>1. CASE client[c] = "wait"
      <4>1. /\ op'[c].kind = "worker" /\ client'[c] = "wait" /\ c \notin held'[c]
            /\ worker' = worker
        BY <1>1, <2>3, <3>1 DEF WorkerReqs, AtPromise
      <4>2. StageOf(c)' = IF worker[c] # "none" THEN "placed" ELSE "asked"
        BY <2>3, <4>1 DEF StageOf
      <4> QED
        BY <2>3, <4>2 DEF EndsOrStays
    <3>2. CASE client[c] # "wait"
      <4>1. client'[c] # "wait"
        BY <1>1, <3>2
      <4>2. StageOf(c)' = "failed"
        BY <1>1, <2>3, <4>1, StagesNext
      <4> QED
        BY <2>3, <4>2 DEF EndsOrStays
    <3> QED
      BY <3>1, <3>2
  <2>5. \A d \in Reqs : EndsOrStays(d)
    <3>1. \A d \in Reqs : d # c => EndsOrStays(d)
      BY <2>3 DEF RestStay, EndsOrStays
    <3> QED
      BY <2>4, <3>1
  <2> QED
    BY <1>2, <2>5, IsEnding
<1>12. CASE SvlJoined \/ SvlServerExits
  <2>1. DropQueue
    BY <1>12 DEF SvlJoined, SvlServerExits
  <2>2. ASSUME NEW c \in WorkerReqs
        PROVE  \/ reply'[c] = reply[c]
               \/ reply[c] = "pending" /\ reply'[c] \in {"noCode", "dropped"}
    <3>1. c \in Reqs
      BY DEF WorkerReqs
    <3>2. ASSUME NEW i \in 1 .. Len(svlQ), svlQ[i].req = c PROVE reply[c] = "pending"
      <4>1. svlQ[i] \in ServerlessTrigger
        BY <1>4
      <4>2. svlQ[i].type \in SvlTypes
        BY <4>1 DEF SvlTypes, ServerlessTrigger
      <4>3. AtHandle(c)
        BY <3>2, <4>2 DEF AtHandle, Carries
      <4> QED
        BY <4>3, Awaited
    <3> QED
      BY <2>1, <3>1, <3>2 DEF DropQueue
  <2> QED
    BY <1>5, <2>2
<1> QED
  BY <1>6, <1>7, <1>8, <1>10, <1>11, <1>12 DEF SvlStep

\* The pods: a cancelled worker ends its request, queued or held.
LEMMA CancelReports ==
  ASSUME TypeInv, Inv, FlowInv, ServiceInv, NEW p \in Pods, CancelWorkers(p),
         UNCHANGED <<op, client>>, NEW c \in Reqs
  PROVE  EndsOrStays(c)
<1>1. /\ reply \in [Reqs -> Replies] /\ wq \in [Reqs -> Seq(WorkerTrigger)]
      /\ held \in [Reqs -> SUBSET Reqs] /\ worker \in [Reqs -> Lives] /\ OwnTriggers
      /\ WorkersOf(p) \subseteq Reqs
  BY DEF TypeInv, PodTypeInv, PodTypeOK, Inv, WorkersOf, Elems, TablesFilled
<1> DEFINE cancelled == {w \in WorkersOf(p) : Listening(w)}
           closed == {w \in WorkersOf(p) : worker[w] = "closing"}
           queued == {d \in Reqs : \E w \in cancelled : Http(d) \in Elems(wq[w])}
           answered == UNION {held[w] : w \in closed}
<1>2. /\ held'[c] = IF c \in closed THEN {} ELSE held[c]
      /\ reply'[c] = IF c \in queued THEN "dropped"
                     ELSE IF c \in answered THEN "empty" ELSE reply[c]
      /\ worker'[c] = IF c \in cancelled THEN "cancelled"
                      ELSE IF c \in closed THEN "closed" ELSE worker[c]
  BY <1>1 DEF CancelWorkers
<1>3. worker'[c] = "none" <=> worker[c] = "none"
  BY <1>2 DEF Listening
<1>4. c \in queued => AtWorker(c)
  BY <1>1, QueuedIsCarried DEF QueuedHttp
<1>5. c \in answered <=> c \in closed /\ AtPromise(c)
  BY <1>1 DEF OwnTriggers, AtPromise
<1>6. c \notin answered => (AtPromise(c)' <=> AtPromise(c))
  BY <1>2, <1>5 DEF AtPromise
<1> HIDE DEF cancelled, closed, queued, answered
<1>7. CASE c \notin WorkerReqs
  BY <1>3, <1>7, Reported
<1>8. CASE c \in WorkerReqs /\ c \in queued
  <2>1. reply[c] = "pending"
    BY <1>4, <1>8, Awaited
  <2> QED
    BY <1>2, <1>3, <1>8, <2>1, Reported
<1>9. CASE c \in WorkerReqs /\ c \notin queued /\ c \in answered
  <2>1. AtPromise(c) /\ OnePlace(c)
    BY <1>5, <1>9 DEF ServiceInv, OneReplier
  <2>2. reply[c] = "pending" /\ reply'[c] = "empty"
    BY <1>2, <1>9, <2>1 DEF OnePlace
  <2> QED
    BY <1>3, <1>9, <2>1, <2>2, Reported
<1>10. CASE c \notin queued /\ c \notin answered
  BY <1>2, <1>3, <1>6, <1>10, Reported
<1> QED
  BY <1>7, <1>8, <1>9, <1>10

\* A pod gives a new slot to the request the serverless task works for.
LEMMA CreationPlaces ==
  ASSUME TypeInv, Inv, FlowInv, ServiceInv, NEW p \in Pods, PodCreateWorker(p), UNCHANGED svlVars
  PROVE  Promise!Next
<1> DEFINE n == Len(table[p].workers)
<1>1. PICK c \in Reqs : svl.req = c
  BY CreationStep
<1>2. /\ podQ[p] # <<>> /\ Head(podQ[p]).type = "create" /\ Head(podQ[p]).req = c
      /\ n \in Nat /\ n < NWorkers
      /\ Len(table'[p].workers) = n + 1
      /\ \A i \in 1 .. n : table'[p].workers[i] = table[p].workers[i]
      /\ table'[p].workers[n + 1] = c
      /\ \A q \in Pods : q # p => table'[q] = table[q]
      /\ worker' = [worker EXCEPT ![c] = "starting"]
      /\ UNCHANGED <<held, reply>>
  BY <1>1, CreationStep
<1>3. UNCHANGED <<op, client>>
  BY DEF svlVars
<1>4. /\ worker \in [Reqs -> Lives] /\ podQ[p] \in Seq(PodTrigger)
      /\ \A q \in Pods : Len(table[q].workers) \in Nat
  BY DEF TypeInv, PodTypeInv, PodTypeOK, TableType
<1> HIDE DEF n
<1>5. /\ c \in WorkerReqs /\ ~ AtPromise(c) /\ client[c] # "new" /\ reply[c] = "pending"
      /\ worker[c] = "none" /\ StageOf(c) = "asked"
  <2>1. c \in WorkerReqs /\ AtTask(c)
    BY <1>1, PodAssumption DEF ServiceInv, KindsMatch, WorkerReqs, AtTask
  <2>2. worker[c] = "none"
    <3>1. 1 \in 1 .. Len(podQ[p]) /\ Head(podQ[p]) = podQ[p][1]
      BY <1>2, <1>4, Taking
    <3> QED
      BY <1>2, <3>1 DEF FlowInv, Unborn
  <2> QED
    BY <2>1, <2>2, Awaited
<1>6. StageOf(c)' = "placed"
  <2>1. /\ reply'[c] = "pending" /\ client'[c] # "new" /\ ~ AtPromise(c)'
        /\ worker'[c] = "starting"
    BY <1>2, <1>3, <1>4, <1>5 DEF AtPromise
  <2> QED
    BY <1>3, <1>5, <2>1, StagesNext
<1>7. RestStay(c)
  <2>1. \A d \in Reqs : d # c => worker'[d] = worker[d]
    BY <1>2, <1>4
  <2>2. \A d \in Reqs : AtPromise(d)' <=> AtPromise(d)
    BY <1>2 DEF AtPromise
  <2> QED
    BY <1>2, <1>3, <2>1, <2>2, StageStays DEF RestStay
<1> DEFINE s == <<p, n>>
<1>8. s \in Slots
  BY <1>2, NWorkersAssumption DEF Slots
<1>9. Holder[s] = None
  BY <1>8, <1>2 DEF Holder, GetWorker, n
<1>10. Holder' = [Holder EXCEPT ![s] = c]
  <2>1. ASSUME NEW q \in Pods, NEW k \in 0 .. NWorkers - 1
        PROVE  GetWorker(table'[q], k) = IF <<q, k>> = s THEN c ELSE GetWorker(table[q], k)
    <3>1. k \in Nat
      BY <2>1, NWorkersAssumption
    <3>2. CASE q # p
      BY <1>2, <3>2
    <3>3. CASE q = p /\ k < n
      <4>1. k + 1 \in 1 .. n /\ k < n + 1
        BY <1>2, <3>1, <3>3
      <4> QED
        BY <1>2, <3>3, <4>1 DEF GetWorker, n
    <3>4. CASE q = p /\ k = n
      BY <1>2, <3>4 DEF GetWorker
    <3>5. CASE q = p /\ k > n
      <4>1. ~ (k < n) /\ ~ (k < n + 1) /\ k # n
        BY <1>2, <3>1, <3>5
      <4> QED
        BY <1>2, <3>5, <4>1 DEF GetWorker, n
    <3> QED
      BY <1>2, <3>1, <3>2, <3>3, <3>4, <3>5
  <2>2. \A t \in Slots : GetWorker(table'[t[1]], t[2]) = IF t = s THEN c ELSE GetWorker(table[t[1]], t[2])
    BY <2>1 DEF Slots
  <2> HIDE DEF s
  <2>3. Holder' = [t \in Slots |-> GetWorker(table'[t[1]], t[2])]
    BY DEF Holder, Slots
  <2>4. Holder = [t \in Slots |-> GetWorker(table[t[1]], t[2])]
    BY DEF Holder
  <2> QED
    BY <2>2, <2>3, <2>4
<1> HIDE DEF s
<1> QED
  BY <1>5, <1>6, <1>7, <1>8, <1>9, <1>10, IsPlacing

\* Otherwise a pod loses requests at most.
LEMMA PodKeepsPromise ==
  ASSUME TypeInv, Inv, FlowInv, ServiceInv, NEW p \in Pods, PodStep(p) \/ PodAbandoned(p),
         UNCHANGED svlVars
  PROVE  Promise!Next
<1>1. UNCHANGED <<op, client>>
  BY DEF svlVars
<1>2. ASSUME UNCHANGED table, \A c \in Reqs : EndsOrStays(c) PROVE Promise!Next
  <2>1. UNCHANGED Holder
    BY <1>2 DEF Holder
  <2> QED
    BY <1>2, <2>1, IsEnding
<1>3. ASSUME UNCHANGED <<table, worker, held, reply>> PROVE Promise!Next
  <2>1. \A c \in Reqs : AtPromise(c)' <=> AtPromise(c)
    BY <1>3 DEF AtPromise
  <2> QED
    BY <1>1, <1>2, <1>3, <2>1, Reported
<1>4. CASE PodCreateWorker(p)
  BY <1>4, CreationPlaces
<1>5. CASE PodCheckVacancies(p) \/ PodHaltReceived(p)
  BY <1>3, <1>5 DEF PodCheckVacancies, PodHaltReceived
<1>6. CASE PodDrain(p)
  <2>1. UNCHANGED <<table, worker, held, reply>>
    BY <1>6 DEF PodDrain
  <2> QED
    BY <1>3, <2>1
<1>7. CASE PodDrained(p) \/ PodHalted(p)
  BY <1>3, <1>7 DEF PodDrained, PodHalted
<1>8. CASE PodForward(p)
  <2> DEFINE m == Head(podQ[p])
  <2>1. /\ podQ[p] # <<>> /\ podQ' = [podQ EXCEPT ![p] = Tail(@)]
        /\ m.type = "toWorker" /\ UNCHANGED <<table, worker, held>>
        /\ reply' = reply \/ reply' = [reply EXCEPT ![m.req] = "dropped"]
    BY <1>8 DEF PodForward, Received
  <2>2. reply \in [Reqs -> Replies]
    BY DEF TypeInv, PodTypeInv, PodTypeOK
  <2>3. ASSUME NEW c \in Reqs PROVE EndsOrStays(c)
    <3>1. AtPromise(c)' <=> AtPromise(c)
      BY <2>1 DEF AtPromise
    <3>2. m.req = c => AtPod(c)
      BY <2>1, PodTaken
    <3> HIDE DEF m
    <3>3. m.req # c => reply'[c] = reply[c]
      BY <2>1, <2>2
    <3>4. m.req = c => reply'[c] \in {reply[c], "dropped"}
      BY <2>1, <2>2
    <3>5. c \in WorkerReqs /\ m.req = c => reply[c] = "pending"
      BY <3>2, Awaited
    <3>6. \/ c \notin WorkerReqs
          \/ reply'[c] = reply[c]
          \/ reply[c] = "pending" /\ reply'[c] = "dropped"
      BY <3>3, <3>4, <3>5
    <3> QED
      BY <1>1, <2>1, <3>1, <3>6, Reported
  <2> QED
    BY <1>2, <2>1, <2>3
<1>9. CASE PodExit(p) \/ PodAbandoned(p)
  <2>1. CancelWorkers(p) /\ UNCHANGED table
    BY <1>9 DEF PodExit, PodAbandoned
  <2> QED
    BY <1>1, <1>2, <2>1, CancelReports
<1> QED
  BY <1>4, <1>5, <1>6, <1>7, <1>8, <1>9 DEF PodStep

\* A worker that keeps the replier of its request runs it, in its slot.
LEMMA HoldingRuns ==
  ASSUME TypeInv, Inv, FlowInv, ServiceInv, NEW w \in Reqs,
         WorkerHoldsHttp(w) \/ WorkerFailsKept(w), UNCHANGED svlVars
  PROVE  Promise!Next
<1> USE DEF WorkerReceives
<1>1. UNCHANGED <<op, client>>
  BY DEF svlVars
<1>2. /\ wq[w] \in Seq(WorkerTrigger) /\ OwnTriggers /\ worker[w] = "ready"
      /\ wq[w] # <<>> /\ Head(wq[w]).type = "http"
      /\ held \in [Reqs -> SUBSET Reqs] /\ worker \in [Reqs -> Lives] /\ reply \in [Reqs -> Replies]
  BY DEF TypeInv, PodTypeInv, PodTypeOK, Inv, WorkerHoldsHttp, WorkerFailsKept
<1>3. /\ \A d \in QueuedHttp(w) : d = w
      /\ Head(wq[w]).req = w /\ AtWorker(w)
  <2>1. \A d \in QueuedHttp(w) : d = w
    BY <1>2, QueuedIsCarried DEF QueuedHttp
  <2>2. 1 \in 1 .. Len(wq[w]) /\ Head(wq[w]) = wq[w][1]
    BY <1>2, Taking
  <2>3. Head(wq[w]).req = w
    BY <1>2, <2>2 DEF OwnTriggers
  <2> QED
    BY <1>2, <2>1, <2>2, <2>3 DEF AtWorker, Carries
<1>4. /\ UNCHANGED <<table, reply>>
      /\ held' = [held EXCEPT ![w] = @ \cup {w}]
      /\ \A c \in Reqs : worker'[c] = "none" <=> worker[c] = "none"
  <2>1. CASE WorkerHoldsHttp(w)
    BY <1>3, <2>1 DEF WorkerHoldsHttp
  <2>2. CASE WorkerFailsKept(w)
    <3>1. UNCHANGED table /\ held' = [held EXCEPT ![w] = @ \cup {w}]
      BY <1>3, <2>2 DEF WorkerFailsKept
    <3>2. reply' = [d \in Reqs |-> reply[d]]
      BY <1>3, <2>2 DEF WorkerFailsKept
    <3>3. \A c \in Reqs : worker'[c] = "none" <=> worker[c] = "none"
      BY <1>2, <2>2 DEF WorkerFailsKept
    <3> QED
      BY <1>2, <3>1, <3>2, <3>3
  <2> QED
    BY <2>1, <2>2
<1>5. UNCHANGED Holder
  BY <1>4 DEF Holder
<1>6. /\ AtPromise(w)'
      /\ \A c \in Reqs : c # w => (AtPromise(c)' <=> AtPromise(c))
  BY <1>2, <1>4 DEF AtPromise
<1>7. RestStay(w)
  BY <1>1, <1>4, <1>6, StageStays DEF RestStay
<1>8. CASE w \notin WorkerReqs
  <2>1. \A c \in Reqs : EndsOrStays(c)
    BY <1>1, <1>4, <1>6, <1>8, Reported
  <2> QED
    BY <1>5, <2>1, IsEnding
<1>9. CASE w \in WorkerReqs
  <2>1. reply[w] = "pending" /\ client[w] # "new" /\ StageOf(w) = "placed"
    BY <1>2, <1>3, <1>9, Awaited
  <2>2. StageOf(w)' = "running"
    BY <1>1, <1>4, <1>6, <1>9, <2>1, StagesNext
  <2>3. \E s \in Slots : Holder[s] = w
    <3>1. PICK p \in Pods : \E i \in 1 .. Len(table[p].workers) : table[p].workers[i] = w
      BY <1>2 DEF ServiceInv, BegunPlaced
    <3>2. PICK i \in 1 .. Len(table[p].workers) : table[p].workers[i] = w
      BY <3>1
    <3>3. Len(table[p].workers) \in Nat /\ Len(table[p].workers) <= NWorkers
      BY DEF TypeInv, PodTypeInv, PodTypeOK, TableType, Inv, TablesFilled
    <3>4. i - 1 \in 0 .. NWorkers - 1 /\ i - 1 < Len(table[p].workers) /\ (i - 1) + 1 = i
      BY <3>3, NWorkersAssumption
    <3>5. <<p, i - 1>> \in Slots
      BY <3>4 DEF Slots
    <3>6. Holder[<<p, i - 1>>] = w
      BY <3>2, <3>4, <3>5 DEF Holder, GetWorker
    <3> QED
      BY <3>5, <3>6
  <2> QED
    BY <1>5, <1>7, <2>1, <2>2, <2>3, IsRunning
<1> QED
  BY <1>8, <1>9

\* Otherwise a worker ends its own request at most.
LEMMA WorkerKeepsPromise ==
  ASSUME TypeInv, Inv, FlowInv, ServiceInv, NEW w \in Reqs, WorkerStep(w) \/ WorkerEvent(w),
         UNCHANGED svlVars
  PROVE  Promise!Next
<1> USE DEF WorkerReceives
<1>1. UNCHANGED <<op, client>>
  BY DEF svlVars
<1>2. /\ wq[w] \in Seq(WorkerTrigger) /\ OwnTriggers /\ held[w] \in SUBSET Reqs
      /\ held \in [Reqs -> SUBSET Reqs] /\ worker \in [Reqs -> Lives] /\ reply \in [Reqs -> Replies]
  BY DEF TypeInv, PodTypeInv, PodTypeOK, Inv
<1>3. /\ \A d \in QueuedHttp(w) : d = w /\ AtWorker(w)
      /\ \A d \in held[w] : d = w
      /\ wq[w] # <<>> /\ Head(wq[w]).type = "http" => Head(wq[w]).req = w /\ AtWorker(w)
  <2>1. \A d \in QueuedHttp(w) : d = w /\ AtWorker(w)
    BY <1>2, QueuedIsCarried DEF QueuedHttp
  <2>2. wq[w] # <<>> => 1 \in 1 .. Len(wq[w]) /\ Head(wq[w]) = wq[w][1]
    BY <1>2, Taking
  <2> QED
    BY <1>2, <2>1, <2>2 DEF OwnTriggers, AtWorker, Carries
<1>4. ASSUME UNCHANGED table,
             \A c \in Reqs : worker'[c] = "none" <=> worker[c] = "none",
             \A c \in Reqs : c # w => reply'[c] = reply[c] /\ (AtPromise(c)' <=> AtPromise(c)),
             \/ reply'[w] = reply[w] /\ (AtPromise(w)' <=> AtPromise(w))
             \/ AtWorker(w) /\ reply'[w] = "dropped"
             \/ AtPromise(w) /\ reply'[w] \in {"value", "empty"}
      PROVE  Promise!Next
  <2>1. w \in WorkerReqs /\ (AtWorker(w) \/ AtPromise(w)) => reply[w] = "pending"
    BY DEF ServiceInv, OneReplier, OnePlace
  <2>2. EndsOrStays(w)
    BY <1>1, <1>4, <2>1, Reported
  <2>3. \A c \in Reqs : c # w => EndsOrStays(c)
    BY <1>1, <1>4, Reported
  <2>4. \A c \in Reqs : EndsOrStays(c)
    BY <2>2, <2>3
  <2>5. UNCHANGED Holder
    BY <1>4 DEF Holder
  <2> QED
    BY <2>4, <2>5, IsEnding
<1>5. CASE WorkerReady(w) \/ MonitorKills(w)
  <2>1. /\ UNCHANGED <<table, held, reply>>
        /\ \A c \in Reqs : worker'[c] = "none" <=> worker[c] = "none"
    BY <1>2, <1>5 DEF WorkerReady, MonitorKills
  <2>2. \A c \in Reqs : AtPromise(c)' <=> AtPromise(c)
    BY <2>1 DEF AtPromise
  <2> QED
    BY <1>4, <2>1, <2>2
<1>6. CASE WorkerStartFails(w) \/ WorkerFailsHttp(w) \/ WorkerHalts(w)
  <2>1. LeaveLoop(w, QueuedHttp(w)) /\ worker[w] # "none"
    BY <1>6 DEF WorkerStartFails, WorkerFailsHttp, WorkerHalts
  <2>2. /\ UNCHANGED <<table, held>>
        /\ \A c \in Reqs : worker'[c] = "none" <=> worker[c] = "none"
        /\ \A c \in Reqs : reply'[c] = IF c \in QueuedHttp(w) THEN "dropped" ELSE reply[c]
    BY <1>2, <2>1 DEF LeaveLoop
  <2>3. \A c \in Reqs : AtPromise(c)' <=> AtPromise(c)
    BY <2>2 DEF AtPromise
  <2> QED
    BY <1>3, <1>4, <2>2, <2>3
<1>7. CASE WorkerHoldsHttp(w) \/ WorkerFailsKept(w)
  BY <1>7, HoldingRuns
<1>8. CASE WorkerIgnoresHttp(w)
  <2>1. /\ UNCHANGED <<table, worker, held>> /\ AtWorker(w)
        /\ reply' = [reply EXCEPT ![w] = "dropped"]
    BY <1>3, <1>8 DEF WorkerIgnoresHttp
  <2>2. \A c \in Reqs : AtPromise(c)' <=> AtPromise(c)
    BY <2>1 DEF AtPromise
  <2> QED
    BY <1>2, <1>4, <2>1, <2>2
<1>9. CASE \E c \in Reqs : WorkerReplies(w, c)
  <2>1. /\ UNCHANGED <<table, worker>> /\ w \in held[w]
        /\ held' = [held EXCEPT ![w] = @ \ {w}]
        /\ reply' = [reply EXCEPT ![w] = "value"]
    BY <1>3, <1>9 DEF WorkerReplies
  <2>2. AtPromise(w) /\ \A c \in Reqs : c # w => (AtPromise(c)' <=> AtPromise(c))
    BY <1>2, <2>1 DEF AtPromise
  <2> QED
    BY <1>2, <1>4, <2>1, <2>2
<1>10. CASE WorkerCloses(w)
  <2>1. /\ UNCHANGED table /\ held' = [held EXCEPT ![w] = {}]
        /\ \A c \in Reqs : worker'[c] = "none" <=> worker[c] = "none"
        /\ \A c \in Reqs : reply'[c] = IF c \in held[w] THEN "empty" ELSE reply[c]
    BY <1>2, <1>10 DEF WorkerCloses
  <2>2. \A c \in Reqs : c # w => (AtPromise(c)' <=> AtPromise(c)) /\ reply'[c] = reply[c]
    BY <1>2, <1>3, <2>1 DEF AtPromise
  <2>3. \/ reply'[w] = reply[w] /\ (AtPromise(w)' <=> AtPromise(w))
        \/ AtPromise(w) /\ reply'[w] = "empty"
    BY <1>2, <2>1 DEF AtPromise
  <2> QED
    BY <1>4, <2>1, <2>2, <2>3
<1> QED
  BY <1>5, <1>6, <1>7, <1>8, <1>9, <1>10 DEF WorkerStep, WorkerEvent

-----------------------------------------------------------------------------
LEMMA PromiseInit == Init => Promise!Init
<1> SUFFICES ASSUME Init PROVE Promise!Init
  OBVIOUS
<1>1. \A c \in Reqs : StageOf(c) = "new"
  BY Stages DEF Init
<1>2. \A s \in Slots : GetWorker(table[s[1]], s[2]) = None
  <2> SUFFICES ASSUME NEW s \in Slots PROVE GetWorker(table[s[1]], s[2]) = None
    OBVIOUS
  <2>1. s[1] \in Pods /\ s[2] \in Nat
    BY NWorkersAssumption DEF Slots
  <2>2. table[s[1]].workers = <<>>
    BY <2>1 DEF Init, PodInit, EmptyTable
  <2> QED
    BY <2>1, <2>2 DEF GetWorker
<1> QED
  BY <1>1, <1>2 DEF Promise!Init, Holder

LEMMA PromiseStep ==
  TypeInv /\ Inv /\ FlowInv /\ ServiceInv /\ [Next]_vars => [Promise!Next]_(Promise!serviceVars)
<1> SUFFICES ASSUME TypeInv, Inv, FlowInv, ServiceInv, [Next]_vars
             PROVE  [Promise!Next]_(Promise!serviceVars)
  OBVIOUS
<1>1. CASE UNCHANGED vars
  <2>1. UNCHANGED <<op, client, reply, worker, held, table>>
    BY <1>1 DEF vars, svlVars, podVars
  <2>2. \A c \in Reqs : StageOf(c)' = StageOf(c)
    BY <2>1, StageStays DEF AtPromise
  <2>3. UNCHANGED Holder
    BY <2>1 DEF Holder
  <2>4. \A c \in Reqs : EndsOrStays(c)
    BY <2>2 DEF EndsOrStays
  <2> QED
    BY <2>3, <2>4, IsEnding
<1> QED
  BY <1>1, ClientKeepsPromise, SvlKeepsPromise, PodKeepsPromise, WorkerKeepsPromise
  DEF Next, PodTurn, Terminated

(***************************************************************************)
(* The control plane keeps the promise of Service, for any number of       *)
(* requests, pods and slots and any capacities of the channels: whatever   *)
(* the handlers, the serverless task, the pods, the workers, a ctrl-c and  *)
(* an exit of the HTTP server do in whichever order, a request is given a  *)
(* free slot and runs in it only, ends once, and is refused only while     *)
(* every slot is taken.                                                    *)
(***************************************************************************)
THEOREM ImplementsService == Spec => KeepsPromise
<1>1. Init => TypeInv /\ Inv /\ FlowInv /\ ServiceInv
  BY TypeInit, InvInit, FlowInit, ServiceInit
<1>2. TypeInv /\ Inv /\ FlowInv /\ ServiceInv /\ [Next]_vars
        => (TypeInv /\ Inv /\ FlowInv /\ ServiceInv)'
  BY TypeStep, InvStep, FlowStep, ServiceInvStep
<1> QED
  BY <1>1, <1>2, PromiseInit, PromiseStep, PTL DEF Spec, KeepsPromise, Promise!Spec

-----------------------------------------------------------------------------
(***************************************************************************)
(* An answered request for a worker is in nobody's hands: whatever happens *)
(* to others, its answer stays, until its own handler asks again.  More    *)
(* precisely, each task leaves the replies of the requests it has not got. *)
(***************************************************************************)
LEMMA NowhereElse ==
  ASSUME ServiceInv, NEW c \in WorkerReqs, reply[c] # "pending"
  PROVE  /\ c \in Reqs /\ c # None
         /\ ~ AtHandle(c) /\ ~ AtTask(c) /\ ~ AtPod(c) /\ ~ AtWorker(c) /\ ~ AtPromise(c)
BY PodAssumption DEF ServiceInv, OneReplier, OnePlace, WorkerReqs

LEMMA SvlKeepsAnswer ==
  ASSUME TypeInv, SvlStep \/ SvlCtrlC \/ SvlServerExits,
         NEW c \in WorkerReqs, ~ AtHandle(c), ~ AtTask(c)
  PROVE  reply'[c] = reply[c]
<1>1. /\ c \in Reqs /\ ~ AtHandle(c) /\ ~ AtTask(c)
      /\ reply \in [Reqs -> Replies] /\ svlQ \in Seq(ServerlessTrigger)
  BY DEF WorkerReqs, TypeInv, PodTypeInv, PodTypeOK, SvlTypeInv, SvlTypeOK
<1>2. \A i \in 1 .. Len(svlQ) : svlQ[i].req # c
  <2>1. \A m \in ServerlessTrigger : m.type \in SvlTypes
    BY DEF SvlTypes, ServerlessTrigger
  <2>2. \A i \in 1 .. Len(svlQ) : svlQ[i] \in ServerlessTrigger
    BY <1>1
  <2> QED
    BY <1>1, <2>1, <2>2 DEF AtHandle, Carries
<1>3. svlQ # <<>> => Head(svlQ).req # c
  BY <1>1, <1>2, Taking
<1>4. CASE SvlCreateNoCode \/ SvlUpload
  BY <1>1, <1>3, <1>4 DEF SvlCreateNoCode, SvlUpload, SvlReceived, SvlReply
<1>5. CASE SvlNoVacancy \/ SvlCreated
  BY <1>1, <1>5 DEF SvlNoVacancy, SvlCreated, SvlReply, AtTask
<1>6. CASE SvlJoined \/ SvlServerExits
  BY <1>1, <1>2, <1>6 DEF SvlJoined, SvlServerExits, DropQueue
<1>7. CASE SvlCreate \/ SvlRemove \/ SvlToPod \/ SvlForward \/ SvlAsksVacancy \/ SvlToldVacancy
  BY <1>7 DEF SvlCreate, SvlRemove, SvlToPod, SvlForward, SvlAsksVacancy, SvlToldVacancy, podVars
<1>8. CASE SvlAsksWorker \/ SvlHaltsPod \/ SvlPodHalted \/ SvlCtrlC
  BY <1>8 DEF SvlAsksWorker, SvlHaltsPod, SvlPodHalted, SvlCtrlC, podVars
<1> QED
  BY <1>4, <1>5, <1>6, <1>7, <1>8 DEF SvlStep

LEMMA PodKeepsAnswer ==
  ASSUME TypeInv, Inv, NEW p \in Pods, PodStep(p) \/ PodAbandoned(p),
         NEW c \in WorkerReqs, ~ AtPod(c), ~ AtWorker(c), ~ AtPromise(c)
  PROVE  reply'[c] = reply[c]
<1>1. /\ c \in Reqs /\ ~ AtPod(c) /\ ~ AtWorker(c) /\ ~ AtPromise(c)
      /\ reply \in [Reqs -> Replies] /\ podQ[p] \in Seq(PodTrigger)
      /\ held \in [Reqs -> SUBSET Reqs] /\ OwnTriggers
  BY DEF WorkerReqs, TypeInv, PodTypeInv, PodTypeOK, Inv
<1>2. CASE PodForward(p)
  <2>1. podQ[p] # <<>> /\ Head(podQ[p]).type = "toWorker"
    BY <1>2 DEF PodForward, Received
  <2>2. Head(podQ[p]).req # c
    BY <1>1, <2>1, Taking DEF AtPod, Carries
  <2> QED
    BY <1>1, <1>2, <2>2 DEF PodForward
<1>3. CASE CancelWorkers(p)
  <2>1. WorkersOf(p) \subseteq Reqs
    BY DEF WorkersOf, Elems, Inv, TablesFilled
  <2>2. \A w \in Reqs : Http(c) \notin Elems(wq[w])
    BY <1>1, QueuedIsCarried DEF QueuedHttp
  <2>3. \A w \in Reqs : c \notin held[w]
    BY <1>1 DEF OwnTriggers, AtPromise
  <2> QED
    BY <1>1, <1>3, <2>1, <2>2, <2>3 DEF CancelWorkers
<1>4. CASE PodCheckVacancies(p) \/ PodCreateWorker(p) \/ PodHaltReceived(p)
  BY <1>4 DEF PodCheckVacancies, PodCreateWorker, PodHaltReceived
<1>5. CASE PodDrain(p) \/ PodDrained(p) \/ PodHalted(p)
  <2>1. CASE PodDrain(p)
    BY <2>1 DEF PodDrain
  <2>2. CASE PodDrained(p) \/ PodHalted(p)
    BY <2>2 DEF PodDrained, PodHalted
  <2> QED
    BY <1>5, <2>1, <2>2
<1> QED
  BY <1>2, <1>3, <1>4, <1>5 DEF PodStep, PodExit, PodAbandoned

LEMMA WorkerKeepsAnswer ==
  ASSUME TypeInv, Inv, NEW w \in Reqs, WorkerStep(w) \/ WorkerEvent(w),
         NEW c \in WorkerReqs, ~ AtWorker(c), ~ AtPromise(c)
  PROVE  reply'[c] = reply[c]
<1>1. /\ c \in Reqs /\ ~ AtWorker(c) /\ ~ AtPromise(c)
      /\ reply \in [Reqs -> Replies] /\ wq[w] \in Seq(WorkerTrigger)
      /\ held \in [Reqs -> SUBSET Reqs] /\ OwnTriggers
  BY DEF WorkerReqs, TypeInv, PodTypeInv, PodTypeOK, Inv
<1>2. c \notin QueuedHttp(w) /\ c \notin held[w]
  BY <1>1, QueuedIsCarried DEF OwnTriggers, AtPromise
<1>3. CASE WorkerReady(w) \/ WorkerHoldsHttp(w) \/ MonitorKills(w)
  BY <1>3 DEF WorkerReady, WorkerHoldsHttp, MonitorKills
<1>4. CASE WorkerStartFails(w) \/ WorkerFailsHttp(w) \/ WorkerHalts(w)
  BY <1>1, <1>2, <1>4 DEF WorkerStartFails, WorkerFailsHttp, WorkerHalts, LeaveLoop
<1>5. CASE WorkerIgnoresHttp(w)
  <2>1. wq[w] # <<>> /\ Head(wq[w]).type = "http"
    BY <1>5 DEF WorkerIgnoresHttp, WorkerReceives
  <2>2. Head(wq[w]).req # c
    <3>1. 1 \in 1 .. Len(wq[w]) /\ Head(wq[w]) = wq[w][1]
      BY <1>1, <2>1, Taking
    <3>2. wq[w][1].req = w
      BY <1>1, <2>1, <3>1 DEF OwnTriggers
    <3>3. w = c => AtWorker(c)
      BY <2>1, <3>1, <3>2 DEF AtWorker, Carries
    <3> QED
      BY <1>1, <3>1, <3>2, <3>3
  <2> QED
    BY <1>1, <1>5, <2>2 DEF WorkerIgnoresHttp
<1>6. CASE WorkerFailsKept(w)
  BY <1>1, <1>2, <1>6 DEF WorkerFailsKept
<1>7. CASE WorkerCloses(w)
  BY <1>1, <1>2, <1>7 DEF WorkerCloses
<1>8. CASE \E d \in Reqs : WorkerReplies(w, d)
  BY <1>1, <1>2, <1>8 DEF WorkerReplies
<1> QED
  BY <1>3, <1>4, <1>5, <1>6, <1>7, <1>8 DEF WorkerStep, WorkerEvent

(***************************************************************************)
(* Whether there is a worker for c is settled when its handler hears of    *)
(* it: until then the request is queued, or in the hands of the serverless *)
(* task.                                                                   *)
(***************************************************************************)
Asks(c) == Carries(svlQ, {"worker"}, c)
Tries(c) == svl.req = c /\ svl.pc \in {"check", "checkWait", "create", "createWait"}

StillAsked ==
  \A c \in WorkerReqs : client[c] = "wait" /\ reply[c] = "pending" => Asks(c) \/ Tries(c)

NotMade ==
  \A c \in WorkerReqs :
    client[c] = "wait" /\ reply[c] \in {"noCode", "noVacancy", "dropped"} => worker[c] = "none"

Made == \A c \in Reqs : client[c] = "http" => worker[c] # "none"

Told ==
  \A c \in Reqs :
    /\ result[c] = "createFailed" =>
         c \in WorkerReqs /\ client[c] = "done" /\ reply[c] # "pending" /\ worker[c] = "none"
    /\ result[c] \in {"execFailed", "body", "emptyBody"} => worker[c] # "none"

TellsInv == StillAsked /\ NotMade /\ Made /\ Told

LEMMA TellsInit == Init => TellsInv
BY DEF Init, PodInit, WorkerReqs, TellsInv, StillAsked, NotMade, Made, Told

\* Who is asked for, or tried, is nowhere else.
LEMMA AskedIsNotOut ==
  ASSUME ServiceInv, NEW c \in WorkerReqs, Asks(c) \/ Tries(c)
  PROVE  ~ AtPod(c) /\ ~ AtWorker(c) /\ ~ AtPromise(c)
<1>1. AtHandle(c) \/ AtTask(c)
  BY DEF Asks, Tries, AtHandle, AtTask, Carries, SvlTypes, Kinds
<1> QED
  BY <1>1 DEF ServiceInv, OneReplier, OnePlace

LEMMA AskedHasNone ==
  ASSUME FlowInv, NEW c, Asks(c) \/ (Tries(c) /\ svl.pc # "createWait")
  PROVE  worker[c] = "none"
BY DEF FlowInv, AskedOnce, Unborn, Asks, Tries, Carries

(***************************************************************************)
(* Pods and workers.  A worker begins for the request the serverless task  *)
(* tries, and none that began is as if it never was.                       *)
(***************************************************************************)
LEMMA PodBegins ==
  ASSUME TypeInv, Inv, NEW p \in Pods, PodStep(p) \/ PodAbandoned(p), NEW c \in Reqs
  PROVE  /\ worker[c] # "none" => worker'[c] # "none"
         /\ worker[c] = "none" /\ worker'[c] # "none" => AtTask(c)
<1>1. worker \in [Reqs -> Lives]
  BY DEF TypeInv, PodTypeInv, PodTypeOK
<1>2. CASE PodCreateWorker(p)
  <2>1. worker' = [worker EXCEPT ![svl.req] = "starting"]
    BY <1>2, CreationStep
  <2> QED
    BY <1>1, <2>1 DEF AtTask
<1>3. CASE CancelWorkers(p)
  <2>1. \A w \in Reqs : worker'[w] \in {worker[w], "cancelled", "closed"}
    BY <1>3 DEF CancelWorkers
  <2>2. worker[c] = "none" => worker'[c] = "none"
    BY <1>3 DEF CancelWorkers, Listening
  <2> QED
    BY <2>1, <2>2
<1>4. CASE UNCHANGED worker
  BY <1>4
<1>5. PodCheckVacancies(p) \/ PodForward(p) \/ PodHaltReceived(p) => UNCHANGED worker
  BY DEF PodCheckVacancies, PodForward, PodHaltReceived
<1>6. PodDrain(p) => UNCHANGED worker
  BY DEF PodDrain
<1>7. PodDrained(p) \/ PodHalted(p) => UNCHANGED worker
  BY DEF PodDrained, PodHalted
<1>8. PodExit(p) \/ PodAbandoned(p) => CancelWorkers(p)
  BY DEF PodExit, PodAbandoned
<1> QED
  BY <1>2, <1>3, <1>4, <1>5, <1>6, <1>7, <1>8 DEF PodStep

LEMMA WorkerBegins ==
  ASSUME TypeInv, NEW w \in Reqs, WorkerStep(w) \/ WorkerEvent(w), NEW c \in Reqs
  PROVE  worker'[c] = "none" <=> worker[c] = "none"
<1>1. worker \in [Reqs -> Lives]
  BY DEF TypeInv, PodTypeInv, PodTypeOK
<1>2. \/ UNCHANGED worker
      \/ /\ worker[w] \in {"starting", "ready", "closing"}
         /\ \E s \in {"ready", "closing", "closed"} : worker' = [worker EXCEPT ![w] = s]
  BY DEF WorkerStep, WorkerEvent, WorkerReady, WorkerStartFails, WorkerHoldsHttp,
         WorkerIgnoresHttp, WorkerFailsHttp, WorkerFailsKept, WorkerHalts, WorkerReceives,
         LeaveLoop, WorkerReplies, WorkerCloses, MonitorKills
<1> QED
  BY <1>1, <1>2

LEMMA ElsewhereTells ==
  ASSUME TypeInv, ServiceInv, TellsInv, UNCHANGED svlVars,
         \A c \in WorkerReqs : ~ AtPod(c) /\ ~ AtWorker(c) /\ ~ AtPromise(c) =>
                                 reply'[c] = reply[c],
         \A c \in Reqs : /\ worker[c] # "none" => worker'[c] # "none"
                         /\ worker[c] = "none" /\ worker'[c] # "none" => AtTask(c)
  PROVE  TellsInv'
<1>1. UNCHANGED <<client, result, svl, svlQ, WorkerReqs>> /\ WorkerReqs \subseteq Reqs
  BY DEF svlVars, WorkerReqs
<1>2. ASSUME NEW c \in WorkerReqs, reply[c] # "pending"
      PROVE  reply'[c] = reply[c] /\ (worker[c] = "none" => worker'[c] = "none")
  BY <1>1, <1>2, NowhereElse
<1>3. ASSUME NEW c \in WorkerReqs, client[c] = "wait", reply[c] = "pending"
      PROVE  reply'[c] = reply[c]
  BY <1>3, AskedIsNotOut DEF TellsInv, StillAsked
<1>4. StillAsked'
  BY <1>1, <1>2 DEF TellsInv, StillAsked, Asks, Tries
<1>5. NotMade'
  BY <1>1, <1>2, <1>3 DEF TellsInv, NotMade
<1>6. Made'
  BY <1>1 DEF TellsInv, Made
<1>7. Told'
  BY <1>1, <1>2 DEF TellsInv, Told
<1> QED
  BY <1>4, <1>5, <1>6, <1>7 DEF TellsInv

\* The serverless task.
LEMMA AsksTaken ==
  ASSUME svlQ \in Seq(ServerlessTrigger), svlQ # <<>>, svlQ' = Tail(svlQ), NEW c, Asks(c)
  PROVE  Asks(c)' \/ (Head(svlQ).type = "worker" /\ Head(svlQ).req = c)
<1>1. PICK i \in 1 .. Len(svlQ) : svlQ[i].type = "worker" /\ svlQ[i].req = c
  BY DEF Asks, Carries
<1>2. CASE i = 1
  BY <1>1, <1>2, Taking
<1>3. CASE i # 1
  <2>1. i - 1 \in 1 .. Len(svlQ') /\ svlQ'[i - 1] = svlQ[i]
    BY <1>3
  <2> QED
    BY <1>1, <2>1 DEF Asks, Carries
<1> QED
  BY <1>2, <1>3

LEMMA SvlTells ==
  ASSUME TypeInv, FlowInv, ServiceInv, TellsInv, SvlStep \/ SvlCtrlC \/ SvlServerExits
  PROVE  TellsInv'
<1> USE DEF Selecting, SvlAt
<1>1. UNCHANGED <<op, client, result, worker, WorkerReqs>> /\ WorkerReqs \subseteq Reqs
  BY DEF SvlStep, SvlCtrlC, SvlServerExits, SvlCreateNoCode, SvlCreate, SvlUpload, SvlRemove,
         SvlToPod, SvlForward, SvlAsksVacancy, SvlToldVacancy, SvlNoVacancy, SvlAsksWorker,
         SvlCreated, SvlHaltsPod, SvlPodHalted, SvlJoined, SvlUnchangedPods, podVars, WorkerReqs
<1>2. svlQ \in Seq(ServerlessTrigger) /\ reply \in [Reqs -> Replies]
  BY DEF TypeInv, SvlTypeInv, SvlTypeOK, PodTypeInv, PodTypeOK
<1>3. ASSUME NEW c \in WorkerReqs, reply[c] # "pending" PROVE reply'[c] = reply[c]
  BY <1>3, NowhereElse, SvlKeepsAnswer
<1>4. ASSUME NEW c \in WorkerReqs, client[c] = "wait", reply'[c] = "pending"
      PROVE  Asks(c)' \/ Tries(c)'
  <2>1. c \in Reqs /\ (Asks(c) \/ Tries(c))
    BY <1>1, <1>3, <1>4 DEF TellsInv, StillAsked
  <2>2. CASE SvlCreateNoCode
    <3>1. Head(svlQ).req # c
      BY <1>2, <1>4, <2>1, <2>2 DEF SvlCreateNoCode, SvlReply
    <3> QED
      BY <1>2, <2>1, <2>2, <3>1, AsksTaken DEF SvlCreateNoCode, SvlReceived, Tries
  <2>3. CASE SvlCreate
    BY <1>2, <2>1, <2>3, AsksTaken DEF SvlCreate, SvlReceived, Tries
  <2>4. CASE SvlUpload
    BY <1>2, <2>1, <2>4, AsksTaken DEF SvlUpload, SvlReceived, Tries
  <2>5. CASE SvlRemove \/ SvlToPod
    BY <1>2, <2>1, <2>5, AsksTaken DEF SvlRemove, SvlToPod, SvlReceived, Tries
  <2>6. CASE SvlForward \/ SvlHaltsPod \/ SvlPodHalted \/ SvlCtrlC
    BY <2>1, <2>6 DEF SvlForward, SvlHaltsPod, SvlPodHalted, SvlCtrlC, Asks, Tries
  <2>7. CASE SvlAsksVacancy \/ SvlAsksWorker
    BY <2>1, <2>7 DEF SvlAsksVacancy, SvlAsksWorker, Asks, Tries
  <2>8. CASE SvlToldVacancy
    BY <2>1, <2>8 DEF SvlToldVacancy, Asks, Tries
  <2>9. CASE SvlNoVacancy \/ SvlCreated
    BY <1>2, <1>4, <2>1, <2>9 DEF SvlNoVacancy, SvlCreated, SvlReply, Asks, Tries
  <2>10. CASE SvlJoined \/ SvlServerExits
    <3>1. Asks(c) /\ DropQueue
      BY <2>1, <2>10 DEF SvlJoined, SvlServerExits, Tries
    <3>2. reply'[c] = "dropped"
      BY <2>1, <3>1 DEF DropQueue, Asks, Carries
    <3> QED
      BY <1>4, <3>2
  <2> QED
    BY <2>2, <2>3, <2>4, <2>5, <2>6, <2>7, <2>8, <2>9, <2>10 DEF SvlStep
<1>5. ASSUME NEW c \in WorkerReqs, client[c] = "wait",
             reply'[c] \in {"noCode", "noVacancy", "dropped"}
      PROVE  worker[c] = "none"
  <2>1. CASE reply[c] # "pending"
    BY <1>3, <1>5, <2>1 DEF TellsInv, NotMade
  <2>2. CASE reply[c] = "pending"
    <3>1. c \in Reqs /\ (Asks(c) \/ Tries(c))
      BY <1>1, <1>5, <2>2 DEF TellsInv, StillAsked
    <3>2. CASE Tries(c) /\ svl.pc = "createWait"
      <4>1. SvlCreated /\ svl.req = c
        BY <3>2 DEF SvlStep, SvlCtrlC, SvlServerExits, SvlCreateNoCode, SvlCreate, SvlUpload,
          SvlRemove, SvlToPod, SvlForward, SvlAsksVacancy, SvlToldVacancy, SvlNoVacancy,
          SvlAsksWorker, SvlHaltsPod, SvlPodHalted, SvlJoined, SvlReceived, Tries
      <4>2. reply'[c] = "created"
        BY <1>2, <3>1, <4>1 DEF SvlCreated, SvlReply
      <4> QED
        BY <1>5, <4>2
    <3> QED
      BY <3>1, <3>2, AskedHasNone
  <2> QED
    BY <2>1, <2>2
<1>6. StillAsked' /\ NotMade'
  BY <1>1, <1>4, <1>5 DEF StillAsked, NotMade
<1>7. Made' /\ Told'
  BY <1>1, <1>3 DEF TellsInv, Made, Told
<1> QED
  BY <1>6, <1>7 DEF TellsInv

LEMMA PlacedIsBegun ==
  ASSUME TypeInv, FlowInv, NEW p, NEW id, NEW c, Placed(p, id, c)
  PROVE  worker[c] # "none"
<1>1. p \in Pods /\ id \in Nat /\ id < Len(table[p].workers) /\ table[p].workers[id + 1] = c
  BY DEF Placed, PlacedIn
<1>2. Len(table[p].workers) \in Nat
  BY <1>1 DEF TypeInv, PodTypeInv, PodTypeOK, TableType
<1>3. id + 1 \in 1 .. Len(table[p].workers)
  BY <1>1, <1>2
<1> QED
  BY <1>1, <1>3 DEF FlowInv, PlacedBegun

\* The handlers.
LEMMA ClientTells ==
  ASSUME TypeInv, Inv, FlowInv, ServiceInv, TellsInv, NEW d \in Reqs,
         ClientStep(d) \/ ClientGone(d)
  PROVE  TellsInv'
<1>1. UNCHANGED <<op, svl, worker, WorkerReqs>> /\ WorkerReqs \subseteq Reqs
  BY DEF ClientStep, ClientSubmits, ClientFindsClosed, ClientBadBody, ClientUploaded,
         ClientNotCreated, ClientSendsHttp, ClientCannotSendHttp, ClientAnswered, ClientGone,
         podVars, WorkerReqs
<1>2. /\ client \in [Reqs -> ClientStates] /\ result \in [Reqs -> Results]
      /\ reply \in [Reqs -> Replies] /\ svlQ \in Seq(ServerlessTrigger)
      /\ op \in [Reqs -> [kind : Kinds, name : Names]]
  BY DEF TypeInv, SvlTypeInv, SvlTypeOK, PodTypeInv, PodTypeOK
<1>3. ASSUME NEW c \in Reqs \ {d}
      PROVE  client'[c] = client[c] /\ result'[c] = result[c] /\ reply'[c] = reply[c]
  BY <1>2, <1>3
  DEF ClientStep, ClientSubmits, ClientFindsClosed, ClientBadBody, ClientUploaded,
      ClientNotCreated, ClientSendsHttp, ClientCannotSendHttp, ClientAnswered, ClientGone,
      Respond, podVars
<1>4. ASSUME NEW t \in SvlTypes, svlQ' = Append(svlQ, Trigger(t, d))
      PROVE  /\ \A c \in Reqs : Asks(c) => Asks(c)'
             /\ t = "worker" => Asks(d)'
  <2>1. Trigger(t, d) \in ServerlessTrigger
    BY DEF Trigger, ServerlessTrigger, SvlTypes
  <2>2. /\ Len(svlQ) \in Nat /\ Len(svlQ') = Len(svlQ) + 1
        /\ \A i \in 1 .. Len(svlQ) : svlQ'[i] = svlQ[i]
        /\ svlQ'[Len(svlQ) + 1] = Trigger(t, d)
    BY <1>2, <1>4, <2>1, Appending
  <2> QED
    BY <2>2 DEF Asks, Carries, Trigger
<1>5. \A c \in Reqs : Asks(c) => Asks(c)'
  <2>1. CASE ClientSubmits(d)
    BY <1>2, <1>4, <2>1 DEF ClientSubmits, Send, SvlTypes
  <2>2. CASE ClientSendsHttp(d)
    BY <1>4, <2>2 DEF ClientSendsHttp, Send, SvlTypes
  <2>3. CASE UNCHANGED svlQ
    BY <2>3 DEF Asks
  <2> QED
    BY <2>1, <2>2, <2>3
    DEF ClientStep, ClientFindsClosed, ClientBadBody, ClientUploaded, ClientNotCreated,
        ClientCannotSendHttp, ClientAnswered, ClientGone
<1> DEFINE StillAskedFor(c) == client'[c] = "wait" /\ reply'[c] = "pending" => Asks(c)' \/ Tries(c)'
<1> DEFINE NotMadeFor(c) == client'[c] = "wait" /\ reply'[c] \in {"noCode", "noVacancy", "dropped"}
                              => worker[c] = "none"
<1> DEFINE ToldFor(c) ==
      /\ result'[c] = "createFailed" =>
           c \in WorkerReqs /\ client'[c] = "done" /\ reply'[c] # "pending" /\ worker[c] = "none"
      /\ result'[c] \in {"execFailed", "body", "emptyBody"} => worker[c] # "none"
<1>6. \A c \in Reqs \ {d} : /\ c \in WorkerReqs => StillAskedFor(c) /\ NotMadeFor(c)
                            /\ client'[c] = "http" => worker[c] # "none"
                            /\ ToldFor(c)
  BY <1>1, <1>3, <1>5 DEF TellsInv, StillAsked, NotMade, Made, Told, Tries
<1>7. client[d] = "new" => worker[d] = "none" /\ reply[d] = "none"
  BY DEF FlowInv, NewInv, ServiceInv, NewUnanswered
<1>8. reply[d] = "created" => worker[d] # "none"
  <2>1. reply[d] = "created" => Placed(route[d].pod, route[d].id, d)
    BY DEF Inv, RoutesPlaced
  <2> QED
    BY <2>1, PlacedIsBegun
<1>9. client[d] # "done" => ToldFor(d) \/ result'[d] # result[d]
  BY DEF TellsInv, Told
<1>10. /\ d \in WorkerReqs => StillAskedFor(d) /\ NotMadeFor(d)
       /\ client'[d] = "http" => worker[d] # "none"
       /\ ToldFor(d)
  <2>1. CASE ClientSubmits(d)
    <3>1. CASE op[d].kind = "remove"
      BY <1>2, <2>1, <3>1 DEF ClientSubmits, Respond
    <3>2. CASE op[d].kind # "remove"
      <4>1. client'[d] = "wait" /\ reply'[d] = "pending" /\ UNCHANGED result
        BY <1>2, <2>1, <3>2 DEF ClientSubmits
      <4>2. d \in WorkerReqs => Asks(d)'
        BY <1>2, <1>4, <2>1 DEF ClientSubmits, Send, SvlTypes, WorkerReqs
      <4> QED
        BY <1>9, <2>1, <4>1, <4>2 DEF ClientSubmits
    <3> QED
      BY <3>1, <3>2
  <2>2. CASE ClientFindsClosed(d)
    BY <1>2, <1>7, <2>2 DEF ClientFindsClosed, Respond, WorkerReqs, podVars
  <2>3. CASE ClientBadBody(d) \/ ClientUploaded(d)
    BY <1>2, <2>3 DEF ClientBadBody, ClientUploaded, Respond
  <2>4. CASE ClientNotCreated(d)
    <3>1. d \in WorkerReqs /\ worker[d] = "none"
      BY <2>4 DEF ClientNotCreated, WorkerReqs, TellsInv, NotMade
    <3> QED
      BY <1>2, <2>4, <3>1 DEF ClientNotCreated, Respond, podVars
  <2>5. CASE ClientSendsHttp(d)
    BY <1>2, <1>8, <1>9, <2>5 DEF ClientSendsHttp
  <2>6. CASE ClientCannotSendHttp(d)
    BY <1>2, <1>8, <2>6 DEF ClientCannotSendHttp, Respond
  <2>7. CASE ClientAnswered(d)
    <3>1. worker[d] # "none"
      BY <2>7 DEF ClientAnswered, TellsInv, Made
    <3> QED
      BY <1>2, <2>7, <3>1 DEF ClientAnswered, Respond
  <2>8. CASE ClientGone(d)
    BY <1>2, <1>9, <2>8 DEF ClientGone
  <2> QED
    BY <2>1, <2>2, <2>3, <2>4, <2>5, <2>6, <2>7, <2>8 DEF ClientStep
<1>11. \A c \in Reqs : /\ c \in WorkerReqs => StillAskedFor(c) /\ NotMadeFor(c)
                       /\ client'[c] = "http" => worker[c] # "none"
                       /\ ToldFor(c)
  BY <1>6, <1>10
<1> QED
  BY <1>1, <1>11 DEF TellsInv, StillAsked, NotMade, Made, Told

LEMMA TellsStep ==
  TypeInv /\ Inv /\ FlowInv /\ ServiceInv /\ TellsInv /\ [Next]_vars => TellsInv'
<1> SUFFICES ASSUME TypeInv, Inv, FlowInv, ServiceInv, TellsInv, [Next]_vars PROVE TellsInv'
  OBVIOUS
<1>1. CASE UNCHANGED vars \/ Terminated
  BY <1>1 DEF vars, svlVars, podVars, Terminated, WorkerReqs, TellsInv, StillAsked, NotMade, Made,
              Told, Asks, Tries
<1>2. ASSUME NEW p \in Pods, PodStep(p) \/ PodAbandoned(p), UNCHANGED svlVars PROVE TellsInv'
  BY <1>2, ElsewhereTells, PodKeepsAnswer, PodBegins
<1>3. ASSUME NEW w \in Reqs, WorkerStep(w) \/ WorkerEvent(w), UNCHANGED svlVars PROVE TellsInv'
  BY <1>3, ElsewhereTells, WorkerKeepsAnswer, WorkerBegins
<1> QED
  BY <1>1, <1>2, <1>3, ClientTells, SvlTells DEF Next, PodTurn

(***************************************************************************)
(* A GET tells its client what became of it, for any number of requests    *)
(* and pods: "failed to create worker" means that none was created for it, *)
(* then or ever, everything else that one was.  No refusal, failure, halt  *)
(* or lost channel comes between a worker and the handler's word on it.    *)
(***************************************************************************)
THEOREM GetsTellTheTruth == Spec => []TellsWhatHappened
<1>1. Init => TypeInv /\ Inv /\ FlowInv /\ ServiceInv /\ TellsInv
  BY TypeInit, InvInit, FlowInit, ServiceInit, TellsInit
<1>2. TypeInv /\ Inv /\ FlowInv /\ ServiceInv /\ TellsInv /\ [Next]_vars
        => (TypeInv /\ Inv /\ FlowInv /\ ServiceInv /\ TellsInv)'
  BY TypeStep, InvStep, FlowStep, ServiceInvStep, TellsStep
<1>3. TellsInv => TellsWhatHappened
  BY DEF TellsInv, Told, TellsWhatHappened
<1> QED
  BY <1>1, <1>2, <1>3, PTL DEF Spec
-----------------------------------------------------------------------------
(***************************************************************************)
(* The end of a shutdown.                                                  *)
(***************************************************************************)
\* When the serverless task has returned, it has joined every pod.
AllJoined == svl.pc = "exited" => \A p \in Pods : pod[p].pc = "exited"

LEMMA JoinedStep == TypeInv /\ AllJoined /\ [Next]_vars => AllJoined'
<1> SUFFICES ASSUME TypeInv, AllJoined, [Next]_vars, svl'.pc = "exited", NEW q \in Pods
             PROVE  pod'[q].pc = "exited"
  BY DEF AllJoined
<1>1. pod \in [Pods -> PodState]
  BY DEF TypeInv, PodTypeInv, PodTypeOK
<1>2. CASE UNCHANGED <<svl, pod>>
  BY <1>2 DEF AllJoined
<1>3. CASE SvlStep \/ SvlCtrlC \/ SvlServerExits
  <2>1. SvlJoined
    BY <1>3 DEF SvlStep, SvlCtrlC, SvlServerExits, SvlCreateNoCode, SvlCreate, SvlUpload,
      SvlRemove, SvlToPod, SvlForward, SvlAsksVacancy, SvlToldVacancy, SvlNoVacancy,
      SvlAsksWorker, SvlCreated, SvlHaltsPod, SvlPodHalted, SvlReceived, SvlAt, Selecting
  <2> QED
    BY <2>1 DEF SvlJoined, SvlUnchangedPods
<1>4. ASSUME NEW p \in Pods, PodStep(p) \/ PodAbandoned(p), UNCHANGED svlVars
      PROVE  pod'[q].pc = "exited"
  <2>1. pod[p].pc = "exited" /\ pod[q].pc = "exited"
    BY <1>4 DEF AllJoined, svlVars
  <2>2. FALSE \/ UNCHANGED pod
    BY <1>4, <2>1 DEF PodStep, PodAbandoned, PodCheckVacancies, PodCreateWorker, PodForward,
      PodHaltReceived, PodDrain, PodDrained, PodHalted, PodExit, Received
  <2> QED
    BY <2>1, <2>2
<1>5. UNCHANGED <<svl, pod>> \/ SvlStep \/ SvlCtrlC \/ SvlServerExits
      \/ \E p \in Pods : (PodStep(p) \/ PodAbandoned(p)) /\ UNCHANGED svlVars
  <2>1. ASSUME NEW c \in Reqs, ClientStep(c) \/ ClientGone(c) PROVE UNCHANGED <<svl, pod>>
    BY <2>1 DEF ClientStep, ClientGone, ClientSubmits, ClientFindsClosed, ClientBadBody,
      ClientUploaded, ClientNotCreated, ClientSendsHttp, ClientCannotSendHttp, ClientAnswered,
      podVars
  <2>2. ASSUME NEW w \in Reqs, WorkerStep(w) \/ WorkerEvent(w), UNCHANGED svlVars
        PROVE  UNCHANGED <<svl, pod>>
    BY <2>2 DEF WorkerStep, WorkerEvent, WorkerReady, WorkerStartFails, WorkerHoldsHttp,
      WorkerIgnoresHttp, WorkerFailsHttp, WorkerFailsKept, WorkerHalts, WorkerReplies,
      WorkerCloses, MonitorKills, LeaveLoop, svlVars
  <2> QED
    BY <2>1, <2>2 DEF Next, PodTurn, Terminated, vars, svlVars, podVars
<1> QED
  BY <1>2, <1>3, <1>4, <1>5

\* The workers of a thread that is over had their state dropped in close_state.
ClosedWithPod(p) ==
  pod[p].pc = "exited" =>
    \A i \in 1 .. Len(table[p].workers) : worker[table[p].workers[i]] = "closed"

JoinInv == AllJoined /\ (svl.pc # "failed" => \A p \in Pods : ClosedWithPod(p))

LEMMA JoinInit == Init => JoinInv
BY DEF Init, PodInit, Selecting, SvlAt, JoinInv, AllJoined, ClosedWithPod

LEMMA ClosedStays ==
  ASSUME TypeInv, TablesFilled, NEW q \in Pods, ClosedWithPod(q), table'[q] = table[q],
         pod'[q].pc = "exited" => pod[q].pc = "exited",
         \A w \in Reqs : worker[w] = "closed" => worker'[w] = "closed"
  PROVE  ClosedWithPod(q)'
BY DEF TablesFilled, ClosedWithPod

LEMMA PodJoinStep ==
  ASSUME FullInv, JoinInv, svl.pc # "failed", NEW p \in Pods, PodStep(p), NEW q \in Pods
  PROVE  ClosedWithPod(q)'
<1>1. /\ TypeInv /\ Inv /\ FlowInv /\ TablesFilled /\ ClosedWithPod(q)
      /\ pod \in [Pods -> PodState] /\ worker \in [Reqs -> Lives]
  BY DEF FullInv, Inv, JoinInv, TypeInv, PodTypeInv, PodTypeOK
<1>2. CASE PodExit(p)
  <2>1. \A w \in Reqs : worker[w] = "closed" => worker'[w] = "closed"
    BY <1>2 DEF PodExit, CancelWorkers, Listening
  <2>2. CASE q = p
    <3>1. \A i \in 1 .. Len(table[p].workers) :
            table[p].workers[i] \in Reqs /\ Left(table[p].workers[i])
      <4>1. pod[p].pc = "exiting" /\ HaltedPodIsQuiet
        BY <1>2, HaltedIsQuiet DEF PodExit
      <4>2. \A i \in 1 .. Len(table[p].workers) : table[p].workers[i] \in WorkersOf(p)
        BY <1>1, PodAssumption DEF TablesFilled, WorkersOf, Elems
      <4> QED
        BY <1>1, <4>1, <4>2 DEF HaltedPodIsQuiet, Left, TablesFilled
    <3>2. ASSUME NEW i \in 1 .. Len(table[p].workers)
          PROVE  worker'[table[p].workers[i]] = "closed"
      <4> DEFINE w == table[p].workers[i]
      <4>1. w \in Reqs /\ Left(w) /\ w \in WorkersOf(p)
        BY <3>1, PodAssumption DEF WorkersOf, Elems
      <4> QED
        BY <1>2, <4>1 DEF PodExit, CancelWorkers, Listening, Left
    <3> QED
      BY <1>2, <2>2, <3>2 DEF PodExit, ClosedWithPod
  <2>3. CASE q # p
    BY <1>1, <1>2, <2>1, <2>3, ClosedStays DEF PodExit
  <2> QED
    BY <2>2, <2>3
<1>3. CASE PodCreateWorker(p)
  <2>1. pod[p].pc = "recv" /\ UNCHANGED pod
    BY <1>3 DEF PodCreateWorker, Received
  <2>2. CASE q = p
    BY <2>1, <2>2 DEF ClosedWithPod
  <2>3. CASE q # p
    <3>1. /\ table'[q] = table[q] /\ worker' = [worker EXCEPT ![svl.req] = "starting"]
          /\ podQ[p] # <<>> /\ Head(podQ[p]).type = "create" /\ Head(podQ[p]).req = svl.req
      BY <1>1, <1>3, <2>3, CreationStep
    <3>2. worker[svl.req] = "none"
      <4>1. podQ[p] \in Seq(PodTrigger)
        BY <1>1 DEF TypeInv, PodTypeInv, PodTypeOK
      <4>2. 1 \in 1 .. Len(podQ[p]) /\ podQ[p][1] = Head(podQ[p])
        BY <3>1, <4>1
      <4> QED
        BY <1>1, <3>1, <4>2 DEF FlowInv, Unborn
    <3>3. \A w \in Reqs : worker[w] = "closed" => worker'[w] = "closed"
      BY <1>1, <3>1, <3>2
    <3> QED
      BY <1>1, <2>1, <3>1, <3>3, ClosedStays
  <2> QED
    BY <2>2, <2>3
<1>4. ASSUME UNCHANGED <<table, worker>>, pod'[q].pc = "exited" => pod[q].pc = "exited"
      PROVE  ClosedWithPod(q)'
  BY <1>1, <1>4, ClosedStays
<1>5. CASE PodCheckVacancies(p) \/ PodForward(p)
  BY <1>4, <1>5 DEF PodCheckVacancies, PodForward
<1>6. CASE PodHaltReceived(p)
  BY <1>1, <1>4, <1>6 DEF PodHaltReceived
<1>7. CASE PodDrain(p)
  <2>1. UNCHANGED <<table, worker>>
    BY <1>7 DEF PodDrain
  <2>2. pod' = [pod EXCEPT ![p] = [pc |-> "drainWait", at |-> @.at]]
    BY <1>7 DEF PodDrain
  <2> QED
    BY <1>1, <1>4, <2>1, <2>2
<1>8. CASE PodDrained(p)
  BY <1>1, <1>4, <1>8 DEF PodDrained
<1>9. CASE PodHalted(p)
  BY <1>1, <1>4, <1>9 DEF PodHalted
<1> QED
  BY <1>2, <1>3, <1>5, <1>6, <1>7, <1>8, <1>9 DEF PodStep

LEMMA JoinStep == FullInv /\ JoinInv /\ [Next]_vars => JoinInv'
<1> SUFFICES ASSUME FullInv, JoinInv, [Next]_vars, svl'.pc # "failed", NEW q \in Pods
             PROVE  ClosedWithPod(q)'
  BY JoinedStep DEF JoinInv, FullInv
<1>1. TypeInv /\ TablesFilled /\ (svl.pc # "failed" => ClosedWithPod(q))
  BY DEF FullInv, Inv, JoinInv
<1>2. ASSUME svl.pc # "failed", UNCHANGED <<pod, table>>,
             \A w \in Reqs : worker[w] = "closed" => worker'[w] = "closed"
      PROVE  ClosedWithPod(q)'
  BY <1>1, <1>2, ClosedStays
<1>3. CASE UNCHANGED vars \/ Terminated
  BY <1>2, <1>3 DEF vars, svlVars, podVars, Terminated
<1>4. ASSUME NEW c \in Reqs, ClientStep(c) \/ ClientGone(c) PROVE ClosedWithPod(q)'
  <2>1. UNCHANGED <<svl, pod, table, worker>>
    BY <1>4 DEF ClientStep, ClientSubmits, ClientFindsClosed, ClientBadBody, ClientUploaded,
                ClientNotCreated, ClientSendsHttp, ClientCannotSendHttp, ClientAnswered,
                ClientGone, podVars
  <2> QED
    BY <1>2, <2>1
<1>5. CASE SvlStep \/ SvlCtrlC
  <2>1. svl.pc # "failed" /\ UNCHANGED <<pod, table, worker>>
    BY <1>5 DEF SvlStep, SvlCtrlC, SvlCreateNoCode, SvlCreate, SvlUpload, SvlRemove, SvlToPod,
                SvlForward, SvlAsksVacancy, SvlToldVacancy, SvlNoVacancy, SvlAsksWorker,
                SvlCreated, SvlHaltsPod, SvlPodHalted, SvlJoined, SvlReceived, SvlUnchangedPods,
                podVars
  <2> QED
    BY <1>2, <2>1
<1>6. ~ SvlServerExits
  BY DEF SvlServerExits, SvlAt
<1>7. ASSUME NEW p \in Pods, PodStep(p) \/ (svl.pc = "failed" /\ PodAbandoned(p)), UNCHANGED svlVars
      PROVE  ClosedWithPod(q)'
  BY <1>7, PodJoinStep DEF svlVars
<1>8. ASSUME NEW w \in Reqs, WorkerStep(w) \/ WorkerEvent(w), UNCHANGED svlVars
      PROVE  ClosedWithPod(q)'
  <2>1. worker \in [Reqs -> Lives] /\ svl.pc # "failed"
    BY <1>1, <1>8 DEF TypeInv, PodTypeInv, PodTypeOK, svlVars
  <2>2. /\ UNCHANGED <<pod, table>>
        /\ \A u \in Reqs : worker[u] = "closed" => worker'[u] = "closed"
    BY <1>8, <2>1
    DEF WorkerStep, WorkerEvent, WorkerReady, WorkerStartFails, WorkerHoldsHttp,
        WorkerIgnoresHttp, WorkerFailsHttp, WorkerFailsKept, WorkerHalts, LeaveLoop,
        WorkerReplies, WorkerCloses, MonitorKills, WorkerReceives
  <2> QED
    BY <1>2, <2>1, <2>2
<1> QED
  BY <1>3, <1>4, <1>5, <1>6, <1>7, <1>8 DEF Next, PodTurn

\* The places a replier could be at are empty, or gone with their worker.
LEMMA NothingOwed == FullInv /\ NotOrphaned /\ WaitInv /\ ServiceInv /\ JoinInv => ExitOwesNothing
<1> SUFFICES ASSUME FullInv, NotOrphaned, WaitInv, ServiceInv, JoinInv, svl.pc = "exited"
             PROVE  /\ \A c \in Reqs : reply[c] # "pending"
                    /\ \A w \in Reqs : worker[w] \in {"none", "closed"}
  BY DEF ExitOwesNothing
<1>1. ASSUME NEW p \in Pods PROVE pod[p].pc = "exited" /\ ClosedWithPod(p) /\ podQ[p] = <<>>
  BY HaltedIsQuiet DEF JoinInv, AllJoined, HaltedPodIsQuiet
<1>2. ASSUME NEW w \in Reqs PROVE worker[w] \in {"none", "closed"}
  BY <1>1 DEF ServiceInv, BegunPlaced, ClosedWithPod
<1>3. ASSUME NEW c \in Reqs, reply[c] = "pending" PROVE FALSE
  <2>1. Somewhere(c)
    BY <1>3 DEF NotOrphaned, Expected
  <2>2. svlQ = <<>> /\ svl.req = None /\ c # None
    BY PodAssumption DEF WaitInv, WaitParts, Emptied, FullInv, FlowInv, Resting
  <2>3. ~ InSvlQ(c) /\ ~ InPodQ(c)
    BY <1>1, <2>2 DEF InSvlQ, InPodQ, Elems
  <2>4. \A w \in Reqs : ~ Listening(w) /\ wq[w] = <<>>
    BY <1>2 DEF FullInv, FlowInv, GoneQueueless, Listening
  <2>5. ~ InWorkerQ(c) /\ ~ IsHeld(c)
    BY <1>2, <2>4 DEF InWorkerQ, IsHeld, Elems
  <2> QED
    BY <2>1, <2>2, <2>3, <2>5 DEF Somewhere
<1> QED
  BY <1>2, <1>3

(***************************************************************************)
(* A shutdown by ctrl-c leaves nobody behind: once the serverless task has *)
(* joined its pods, every worker's state was dropped in close_state, none  *)
(* was cut off before, and every handler has its answer, whatever was      *)
(* queued, kept for a promise or on its way when the Halts came, for any   *)
(* number of pods.                                                         *)
(***************************************************************************)
THEOREM ShutdownAnswers == Spec => []ExitOwesNothing
<1>1. Init => FullInv /\ ServiceInv /\ JoinInv
  BY TypeInit, InvInit, FlowInit, HaltInit, ServiceInit, JoinInit DEF FullInv
<1>2. Init => NotOrphaned /\ WaitInv
  BY WaitInit DEF Init, PodInit, NotOrphaned, Expected
<1>3. /\ FullInv /\ NotOrphaned /\ WaitInv /\ ServiceInv /\ JoinInv /\ [Next]_vars
      => (FullInv /\ NotOrphaned /\ WaitInv /\ ServiceInv /\ JoinInv)'
  BY TypeStep, InvStep, FlowStep, HaltStep, ExpectsStep, WaitStep, ServiceInvStep, JoinStep
  DEF FullInv
<1> QED
  BY <1>1, <1>2, <1>3, NothingOwed, PTL DEF Spec
=============================================================================
