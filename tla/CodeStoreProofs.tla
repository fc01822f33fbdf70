-------------------------- MODULE CodeStoreProofs ---------------------------
(***************************************************************************)
(* Proofs about CodeStore: an acknowledged upload is kept, and what the    *)
(* serverless reads is whole, for any names, versions, mishaps and         *)
(* commands.                                                               *)
(***************************************************************************)
EXTENDS CodeStore, TLAPS

\* A writer has its file open from open() to the end of its write.
Opens(w) == w.pc = "opened" <=> w.fd # "closed"

\* One that has it alone shares it with nobody.
Alone(w, other) == w.fd = "alone" => ~ Linked(other, w.target)

\* Nobody writes to what is safe.
SafeAtRest ==
  \A n \in Names : safe[n] # None =>
    file[n] = safe[n] /\ ~ Linked(svl, n) /\ ~ Linked(cli, n)

Inv ==
  /\ TypeOK
  /\ svl.pc \in {"checked", "opened"} => svl.target \in Names /\ svl.ver \in Versions
  /\ cli.pc = "opened" => cli.target \in Names /\ cli.ver \in Versions
  /\ Opens(svl) /\ Opens(cli)
  /\ Alone(svl, cli) /\ Alone(cli, svl)
  /\ SafeAtRest

SvlPcs == {"idle", "got", "removed", "invalidName", "checked", "opened", "stored", "storeError"}
CliPcs == {"idle", "opened", "written", "failed"}
-----------------------------------------------------------------------------
(***************************************************************************)
(* What the operators on writers return.                                   *)
(***************************************************************************)
LEMMA Writers ==
  ASSUME NEW P, NEW w \in WriterType(P), NEW n
  PROVE  /\ \A r \in {Unlinked(w, n), Joined(w, n)} :
              /\ r \in WriterType(P)
              /\ r.pc = w.pc /\ r.target = w.target /\ r.ver = w.ver
         /\ Unlinked(w, n).fd = IF Linked(w, n) THEN "unlinked" ELSE w.fd
         /\ Joined(w, n).fd = IF Linked(w, n) THEN "shared" ELSE w.fd
BY DEF WriterType, Unlinked, Joined, Linked

LEMMA Opening ==
  ASSUME NEW P, NEW w \in WriterType(P), NEW other, "opened" \in P
  PROVE  /\ Opened(w, other) \in WriterType(P)
         /\ Opened(w, other).pc = "opened"
         /\ Opened(w, other).target = w.target /\ Opened(w, other).ver = w.ver
         /\ Opened(w, other).fd = IF Linked(other, w.target) THEN "shared" ELSE "alone"
BY DEF WriterType, Opened

LEMMA Ending ==
  ASSUME NEW P, NEW w \in WriterType(P), NEW how \in P
  PROVE  /\ Ended(w, how) \in WriterType(P)
         /\ Ended(w, how).pc = how /\ Ended(w, how).fd = "closed"
BY DEF WriterType, Ended

\* A new operation of the serverless task, or one that is over.
LEMMA Unopened ==
  ASSUME NEW how \in SvlPcs, NEW t \in Names \cup {None}, NEW v \in Contents
  PROVE  LET w == Doing(how, t, v)
         IN  /\ w \in WriterType(SvlPcs)
             /\ w.pc = how /\ w.target = t /\ w.ver = v /\ w.fd = "closed"
BY DEF WriterType, Doing

LEMMA Types ==
  TypeOK <=> /\ dir \in BOOLEAN
             /\ file \in [Names -> Contents]
             /\ svl \in WriterType(SvlPcs)
             /\ cli \in WriterType(CliPcs)
             /\ clean \in [pc : {"idle", "removing", "printed"}, left : SUBSET Names]
             /\ safe \in [Names -> Versions \cup {None}]
             /\ spoilt \in SUBSET Names
BY DEF TypeOK, SvlPcs, CliPcs

\* The serverless task begins or ends an operation; files stay as they are.
LEMMA SvlMoves ==
  ASSUME Inv, UNCHANGED <<file, cli, safe>>,
         dir' \in BOOLEAN, spoilt' \in SUBSET Names,
         clean' \in [pc : {"idle", "removing", "printed"}, left : SUBSET Names],
         svl' = svl \/ (svl' \in WriterType(SvlPcs) /\ svl'.fd = "closed" /\ svl'.pc # "opened"
                         /\ (svl'.pc = "checked" => svl'.target \in Names /\ svl'.ver \in Versions))
  PROVE  Inv'
<1>1. TypeOK'
  BY Types DEF Inv, TypeOK, SvlPcs
<1>2. \A n : Linked(svl', n) => svl' = svl
  BY DEF Linked
<1>3. SafeAtRest'
  BY <1>2 DEF Inv, SafeAtRest
<1>4. Opens(svl') /\ Opens(cli') /\ Alone(svl', cli') /\ Alone(cli', svl')
  BY <1>2 DEF Inv, Opens, Alone
<1> QED
  BY <1>1, <1>3, <1>4 DEF Inv, Opens, Alone, SafeAtRest

LEMMA Moves ==
  ASSUME Inv,
         \/ \E n \in Names : SvlGets(n) \/ SvlRefusesName(n)
         \/ \E n \in Names, v \in Versions : SvlUploads(n, v)
         \/ SvlCannotOpen \/ CleanStarts \/ CleanEnds
  PROVE  Inv'
<1>1. /\ UNCHANGED <<file, cli, safe, spoilt>>
      /\ dir \in BOOLEAN /\ spoilt \in SUBSET Names
      /\ svl \in WriterType(SvlPcs) /\ file \in [Names -> Contents]
      /\ clean \in [pc : {"idle", "removing", "printed"}, left : SUBSET Names]
  BY Types DEF Inv, SvlGets, SvlRefusesName, SvlUploads, SvlCannotOpen, CleanStarts, CleanEnds
<1>2. CASE \E n \in Names : SvlGets(n)
  <2>1. PICK n \in Names : SvlGets(n)
    BY <1>2
  <2>2. PICK v \in Contents : svl' = Doing("got", n, v)
    BY <1>1, <2>1 DEF SvlGets, Contents
  <2>3. svl' \in WriterType(SvlPcs) /\ svl'.pc = "got" /\ svl'.fd = "closed"
    BY <2>2, Unopened DEF SvlPcs
  <2>4. dir' \in BOOLEAN /\ UNCHANGED clean
    BY <1>1, <2>1 DEF SvlGets, CheckFs
  <2> QED
    BY <1>1, <2>3, <2>4, SvlMoves
<1>3. CASE \E n \in Names : SvlRefusesName(n)
  <2>1. PICK n \in Names : svl' = Doing("invalidName", n, None)
    BY <1>3 DEF SvlRefusesName
  <2>2. svl' \in WriterType(SvlPcs) /\ svl'.pc = "invalidName" /\ svl'.fd = "closed"
    BY <2>1 DEF Doing, WriterType, SvlPcs, Contents
  <2>3. UNCHANGED <<dir, clean>>
    BY <1>3 DEF SvlRefusesName
  <2> QED
    BY <1>1, <2>2, <2>3, SvlMoves
<1>4. CASE \E n \in Names, v \in Versions : SvlUploads(n, v)
  <2>1. PICK n \in Names, v \in Versions : SvlUploads(n, v)
    BY <1>4
  <2>2. svl' = Doing("checked", n, v) /\ v \in Contents
    BY <2>1 DEF SvlUploads, Contents
  <2>3. /\ svl' \in WriterType(SvlPcs) /\ svl'.pc = "checked" /\ svl'.fd = "closed"
        /\ svl'.target \in Names /\ svl'.ver \in Versions
    BY <2>2, Unopened DEF SvlPcs
  <2>4. dir' \in BOOLEAN /\ UNCHANGED clean
    BY <1>1, <2>1 DEF SvlUploads, CheckFs
  <2> QED
    BY <1>1, <2>3, <2>4, SvlMoves
<1>5. CASE SvlCannotOpen
  <2>1. svl' = Ended(svl, "storeError") /\ UNCHANGED <<dir, clean>> /\ "storeError" \in SvlPcs
    BY <1>5 DEF SvlCannotOpen, SvlPcs
  <2>2. svl' \in WriterType(SvlPcs) /\ svl'.pc = "storeError" /\ svl'.fd = "closed"
    BY <1>1, <2>1, Ending
  <2> QED
    BY <1>1, <2>1, <2>2, SvlMoves
<1>6. CASE CleanStarts \/ CleanEnds
  <2>1. UNCHANGED svl /\ dir' \in BOOLEAN
    BY <1>1, <1>6 DEF CleanStarts, CleanEnds
  <2>2. clean' \in [pc : {"idle", "removing", "printed"}, left : SUBSET Names]
    BY <1>1, <1>6 DEF CleanStarts, CleanEnds, Stored
  <2> QED
    BY <1>1, <2>1, <2>2, SvlMoves
<1> QED
  BY <1>2, <1>3, <1>4, <1>5, <1>6

(***************************************************************************)
(* A name is touched, by its file's removal: whoever has it open writes to *)
(* a file that is not there any more.                                      *)
(***************************************************************************)
LEMMA Removals ==
  ASSUME Inv, NEW n \in Names,
         file' = [file EXCEPT ![n] = None], safe' = [safe EXCEPT ![n] = None],
         cli' = Unlinked(cli, n), dir' \in BOOLEAN, UNCHANGED spoilt,
         clean' \in [pc : {"idle", "removing", "printed"}, left : SUBSET Names],
         svl' = Unlinked(svl, n)
           \/ (svl' \in WriterType(SvlPcs) /\ svl'.fd = "closed"
                /\ svl'.pc \notin {"checked", "opened"})
  PROVE  Inv'
<1>1. /\ file \in [Names -> Contents] /\ safe \in [Names -> Versions \cup {None}]
      /\ svl \in WriterType(SvlPcs) /\ cli \in WriterType(CliPcs)
      /\ spoilt \in SUBSET Names
  BY Types DEF Inv
<1>2. /\ cli' \in WriterType(CliPcs)
      /\ cli'.pc = cli.pc /\ cli'.target = cli.target /\ cli'.ver = cli.ver
      /\ cli'.fd = IF Linked(cli, n) THEN "unlinked" ELSE cli.fd
  BY <1>1, Writers
<1>3. /\ svl' \in WriterType(SvlPcs)
      /\ \/ /\ svl'.pc = svl.pc /\ svl'.target = svl.target /\ svl'.ver = svl.ver
            /\ svl'.fd = IF Linked(svl, n) THEN "unlinked" ELSE svl.fd
         \/ svl'.fd = "closed" /\ svl'.pc \notin {"checked", "opened"}
  BY <1>1, Writers
<1>4. TypeOK'
  <2>1. file' \in [Names -> Contents] /\ safe' \in [Names -> Versions \cup {None}]
    BY <1>1 DEF Contents
  <2> QED
    BY <1>1, <1>2, <1>3, <2>1 DEF TypeOK, SvlPcs, CliPcs
<1>5. Opens(svl') /\ Opens(cli') /\ Alone(svl', cli') /\ Alone(cli', svl')
  BY <1>2, <1>3 DEF Inv, Opens, Alone, Linked
<1>6. \A m : (Linked(svl', m) => Linked(svl, m)) /\ (Linked(cli', m) => Linked(cli, m))
  BY <1>2, <1>3 DEF Linked
<1>7. \A m \in Names : safe'[m] # None => safe'[m] = safe[m] /\ file'[m] = file[m]
  BY <1>1
<1>8. SafeAtRest'
  BY <1>6, <1>7 DEF Inv, SafeAtRest
<1> QED
  BY <1>2, <1>3, <1>4, <1>5, <1>8 DEF Inv, Opens, Alone

LEMMA Removing ==
  ASSUME Inv, NEW n \in Names, SvlRemoves(n) \/ CleanUnlinks(n)
  PROVE  Inv'
<1>1. /\ dir \in BOOLEAN /\ file \in [Names -> Contents] /\ svl \in WriterType(SvlPcs)
      /\ spoilt \in SUBSET Names
      /\ clean \in [pc : {"idle", "removing", "printed"}, left : SUBSET Names]
  BY Types DEF Inv
<1>2. CASE SvlRemoves(n)
  <2>1. svl' \in WriterType(SvlPcs) /\ svl'.pc = "removed" /\ svl'.fd = "closed"
    <3>1. svl' = Doing("removed", n, None)
      BY <1>2 DEF SvlRemoves
    <3> QED
      BY <3>1 DEF Doing, WriterType, SvlPcs, Contents
  <2>2. dir' \in BOOLEAN /\ UNCHANGED <<clean, spoilt>>
    BY <1>1, <1>2 DEF SvlRemoves, CheckFs
  <2>3. CASE UNCHANGED <<file, cli, safe>>
    BY <1>1, <2>1, <2>2, <2>3, SvlMoves
  <2>4. CASE file' = [file EXCEPT ![n] = None] /\ cli' = Unlinked(cli, n) /\ Touch(n)
    BY <1>1, <2>1, <2>2, <2>4, Removals DEF Touch
  <2> QED
    BY <1>2, <2>3, <2>4 DEF SvlRemoves
<1>3. CASE CleanUnlinks(n)
  <2>1. /\ file' = [file EXCEPT ![n] = None] /\ safe' = [safe EXCEPT ![n] = None]
        /\ svl' = Unlinked(svl, n) /\ cli' = Unlinked(cli, n)
        /\ UNCHANGED <<dir, spoilt>>
    BY <1>3 DEF CleanUnlinks, Touch
  <2>2. clean' \in [pc : {"idle", "removing", "printed"}, left : SUBSET Names]
    BY <1>1, <1>3 DEF CleanUnlinks
  <2> QED
    BY <1>1, <2>1, <2>2, Removals
<1> QED
  BY <1>2, <1>3

(***************************************************************************)
(* open(): w is the writer that opens, o the other one.                    *)
(***************************************************************************)
LEMMA Pairing ==
  ASSUME NEW P, NEW Q, NEW w \in WriterType(P), NEW o \in WriterType(Q),
         "opened" \in P, Opens(o)
  PROVE  LET w1 == Opened(w, o)
             o1 == Joined(o, w.target)
         IN  /\ w1 \in WriterType(P) /\ o1 \in WriterType(Q)
             /\ w1.pc = "opened" /\ w1.target = w.target /\ w1.ver = w.ver
             /\ o1.pc = o.pc /\ o1.target = o.target /\ o1.ver = o.ver
             /\ Opens(w1) /\ Opens(o1) /\ Alone(w1, o1) /\ Alone(o1, w1)
             /\ \A n : Linked(w1, n) => n = w.target
             /\ \A n : Linked(o1, n) => Linked(o, n)
<1> DEFINE w1 == Opened(w, o)
           o1 == Joined(o, w.target)
<1>1. /\ w1 \in WriterType(P) /\ w1.pc = "opened" /\ w1.target = w.target /\ w1.ver = w.ver
      /\ w1.fd = IF Linked(o, w.target) THEN "shared" ELSE "alone"
  BY Opening
<1>2. /\ o1 \in WriterType(Q) /\ o1.pc = o.pc /\ o1.target = o.target /\ o1.ver = o.ver
      /\ o1.fd = IF Linked(o, w.target) THEN "shared" ELSE o.fd
  BY Writers
<1> HIDE DEF w1, o1
<1>3. Opens(w1) /\ Opens(o1) /\ Alone(w1, o1) /\ Alone(o1, w1)
  BY <1>1, <1>2 DEF Opens, Alone, Linked
<1>4. /\ \A n : Linked(w1, n) => n = w.target
      /\ \A n : Linked(o1, n) => Linked(o, n)
  BY <1>1, <1>2 DEF Linked
<1> QED
  BY <1>1, <1>2, <1>3, <1>4 DEF w1, o1

LEMMA Truncating ==
  ASSUME Inv, NEW t \in Names, Truncate(t)
  PROVE  /\ file' \in [Names -> Contents] /\ safe' \in [Names -> Versions \cup {None}]
         /\ spoilt' \in SUBSET Names
         /\ safe'[t] = None
         /\ \A n \in Names : safe'[n] # None => safe'[n] = safe[n] /\ file'[n] = file[n]
<1>1. file \in [Names -> Contents] /\ safe \in [Names -> Versions \cup {None}]
      /\ spoilt \in SUBSET Names
  BY Types DEF Inv
<1>2. /\ file' = [file EXCEPT ![t] = Torn]
      /\ safe' = [safe EXCEPT ![t] = None]
      /\ spoilt' = spoilt \ {t}
  BY DEF Truncate, Touch
<1> QED
  BY <1>1, <1>2 DEF Contents

LEMMA Openings ==
  ASSUME Inv, SvlOpens \/ \E n \in Names, v \in Versions : CliOpens(n, v)
  PROVE  Inv'
<1>1. /\ dir \in BOOLEAN /\ svl \in WriterType(SvlPcs) /\ cli \in WriterType(CliPcs)
      /\ clean \in [pc : {"idle", "removing", "printed"}, left : SUBSET Names]
      /\ Opens(svl) /\ Opens(cli)
      /\ "opened" \in SvlPcs /\ "opened" \in CliPcs
  BY Types DEF Inv, SvlPcs, CliPcs
<1>2. UNCHANGED <<dir, clean>>
  BY DEF SvlOpens, CliOpens
<1>3. CASE SvlOpens
  <2>1. /\ Truncate(svl.target) /\ svl' = Opened(svl, cli) /\ cli' = Joined(cli, svl.target)
        /\ svl.target \in Names /\ svl.ver \in Versions
    BY <1>3 DEF SvlOpens, Inv
  <2>2. /\ svl' \in WriterType(SvlPcs) /\ cli' \in WriterType(CliPcs)
        /\ svl'.pc = "opened" /\ svl'.target = svl.target /\ svl'.ver = svl.ver
        /\ cli'.pc = cli.pc /\ cli'.target = cli.target /\ cli'.ver = cli.ver
        /\ Opens(svl') /\ Opens(cli') /\ Alone(svl', cli') /\ Alone(cli', svl')
        /\ \A n : Linked(svl', n) => n = svl.target
        /\ \A n : Linked(cli', n) => Linked(cli, n)
    <3> DEFINE w1 == Opened(svl, cli)
               o1 == Joined(cli, svl.target)
    <3>1. /\ w1 \in WriterType(SvlPcs) /\ o1 \in WriterType(CliPcs)
          /\ w1.pc = "opened" /\ w1.target = svl.target /\ w1.ver = svl.ver
          /\ o1.pc = cli.pc /\ o1.target = cli.target /\ o1.ver = cli.ver
          /\ Opens(w1) /\ Opens(o1) /\ Alone(w1, o1) /\ Alone(o1, w1)
          /\ \A n : Linked(w1, n) => n = svl.target
          /\ \A n : Linked(o1, n) => Linked(cli, n)
      BY <1>1, Pairing
    <3>2. svl' = w1 /\ cli' = o1
      BY <2>1
    <3> QED
      BY <3>1, <3>2
  <2>3. /\ file' \in [Names -> Contents] /\ safe' \in [Names -> Versions \cup {None}]
        /\ spoilt' \in SUBSET Names
        /\ safe'[svl.target] = None
        /\ \A n \in Names : safe'[n] # None => safe'[n] = safe[n] /\ file'[n] = file[n]
    BY <2>1, Truncating
  <2>4. TypeOK'
    BY <1>1, <1>2, <2>2, <2>3 DEF TypeOK, SvlPcs, CliPcs
  <2>5. SafeAtRest'
    BY <2>2, <2>3 DEF Inv, SafeAtRest
  <2> QED
    BY <2>1, <2>2, <2>4, <2>5 DEF Inv, Opens, Alone
<1>4. CASE \E n \in Names, v \in Versions : CliOpens(n, v)
  <2>1. PICK n \in Names, v \in Versions : CliOpens(n, v)
    BY <1>4
  <2> DEFINE w == Doing("idle", n, v)
  <2>2. w \in WriterType(CliPcs) /\ w.target = n /\ w.ver = v
    BY DEF Doing, WriterType, CliPcs, Contents
  <2>3. Truncate(w.target) /\ cli' = Opened(w, svl) /\ svl' = Joined(svl, w.target)
    BY <2>1, <2>2 DEF CliOpens
  <2> HIDE DEF w
  <2>4. /\ cli' \in WriterType(CliPcs) /\ svl' \in WriterType(SvlPcs)
        /\ cli'.pc = "opened" /\ cli'.target = n /\ cli'.ver = v
        /\ svl'.pc = svl.pc /\ svl'.target = svl.target /\ svl'.ver = svl.ver
        /\ Opens(svl') /\ Opens(cli') /\ Alone(svl', cli') /\ Alone(cli', svl')
        /\ \A m : Linked(cli', m) => m = n
        /\ \A m : Linked(svl', m) => Linked(svl, m)
    <3> DEFINE w1 == Opened(w, svl)
               o1 == Joined(svl, w.target)
    <3>1. /\ w1 \in WriterType(CliPcs) /\ o1 \in WriterType(SvlPcs)
          /\ w1.pc = "opened" /\ w1.target = w.target /\ w1.ver = w.ver
          /\ o1.pc = svl.pc /\ o1.target = svl.target /\ o1.ver = svl.ver
          /\ Opens(w1) /\ Opens(o1) /\ Alone(w1, o1) /\ Alone(o1, w1)
          /\ \A m : Linked(w1, m) => m = w.target
          /\ \A m : Linked(o1, m) => Linked(svl, m)
      BY <1>1, <2>2, Pairing
    <3>2. cli' = w1 /\ svl' = o1
      BY <2>3
    <3> QED
      BY <2>2, <3>1, <3>2
  <2>5. /\ file' \in [Names -> Contents] /\ safe' \in [Names -> Versions \cup {None}]
        /\ spoilt' \in SUBSET Names
        /\ safe'[n] = None
        /\ \A m \in Names : safe'[m] # None => safe'[m] = safe[m] /\ file'[m] = file[m]
    BY <2>2, <2>3, Truncating
  <2>6. TypeOK'
    BY <1>1, <1>2, <2>4, <2>5 DEF TypeOK, SvlPcs, CliPcs
  <2>7. SafeAtRest'
    BY <2>4, <2>5 DEF Inv, SafeAtRest
  <2> QED
    BY <2>4, <2>6, <2>7 DEF Inv, Opens, Alone
<1> QED
  BY <1>3, <1>4

(***************************************************************************)
(* The end of a write, whole or broken off.                                *)
(***************************************************************************)
LEMMA Writing ==
  ASSUME Inv, NEW P, NEW w \in WriterType(P), Opens(w), w.target \in Names,
         w.ver \in Versions, w.pc = "opened", WritesAll(w) \/ WritesPart(w)
  PROVE  /\ file' \in [Names -> Contents]
         /\ \A n \in Names : file'[n] # file[n] => Linked(w, n)
         /\ WritesAll(w) /\ w.fd = "alone" => file'[w.target] = w.ver
<1>1. file \in [Names -> Contents] /\ w.ver \in Contents /\ Torn \in Contents
  BY Types DEF Inv, Contents
<1>2. w.fd \in {"alone", "shared", "unlinked"}
  BY DEF Opens, WriterType
<1> QED
  BY <1>1, <1>2 DEF WritesAll, WritesPart, Linked

LEMMA SvlEndings ==
  ASSUME Inv, SvlWrites \/ SvlCannotWrite
  PROVE  Inv'
<1>1. /\ file \in [Names -> Contents] /\ safe \in [Names -> Versions \cup {None}]
      /\ svl \in WriterType(SvlPcs) /\ cli \in WriterType(CliPcs) /\ dir \in BOOLEAN
      /\ clean \in [pc : {"idle", "removing", "printed"}, left : SUBSET Names]
      /\ spoilt \in SUBSET Names /\ Opens(svl) /\ Opens(cli)
  BY Types DEF Inv
<1>2. /\ svl.pc = "opened" /\ svl.target \in Names /\ svl.ver \in Versions
      /\ UNCHANGED <<dir, cli, clean>>
  BY DEF SvlWrites, SvlCannotWrite, Inv
<1>3. svl' \in WriterType(SvlPcs) /\ svl'.pc \in {"stored", "storeError"} /\ svl'.fd = "closed"
  <2>1. "stored" \in SvlPcs /\ "storeError" \in SvlPcs
    BY DEF SvlPcs
  <2> QED
    BY <1>1, <2>1, Ending DEF SvlWrites, SvlCannotWrite
<1>4. /\ file' \in [Names -> Contents]
      /\ \A n \in Names : file'[n] # file[n] => Linked(svl, n)
      /\ WritesAll(svl) /\ svl.fd = "alone" => file'[svl.target] = svl.ver
  BY <1>1, <1>2, Writing DEF SvlWrites, SvlCannotWrite
<1>5. spoilt' \in SUBSET Names
  BY <1>1, <1>2 DEF SvlWrites, SvlCannotWrite, WritesPart
<1>6. \A n : ~ Linked(svl', n)
  BY <1>3 DEF Linked
<1>7. /\ safe' \in [Names -> Versions \cup {None}]
      /\ \A n \in Names :
           \/ safe'[n] = safe[n]
           \/ safe'[n] = None
           \/ n = svl.target /\ safe'[n] = svl.ver /\ svl.fd = "alone" /\ WritesAll(svl)
  <2>1. CASE SvlCannotWrite
    BY <1>1, <2>1 DEF SvlCannotWrite
  <2>2. CASE SvlWrites
    <3>1. /\ safe' = [safe EXCEPT ![svl.target] = IF svl.fd = "alone" THEN svl.ver ELSE None]
          /\ WritesAll(svl)
      BY <2>2 DEF SvlWrites
    <3> QED
      BY <1>1, <1>2, <3>1
  <2> QED
    BY <2>1, <2>2
<1>8. TypeOK'
  BY <1>1, <1>2, <1>3, <1>4, <1>5, <1>7 DEF TypeOK, SvlPcs, CliPcs
<1>9. SafeAtRest'
  <2> SUFFICES ASSUME NEW n \in Names, safe'[n] # None
               PROVE  file'[n] = safe'[n] /\ ~ Linked(svl', n) /\ ~ Linked(cli', n)
    BY DEF SafeAtRest
  <2>1. CASE safe'[n] = safe[n]
    <3>1. file[n] = safe[n] /\ ~ Linked(svl, n) /\ ~ Linked(cli, n)
      BY <2>1 DEF Inv, SafeAtRest
    <3> QED
      BY <1>2, <1>4, <1>6, <2>1, <3>1
  <2>2. CASE n = svl.target /\ safe'[n] = svl.ver /\ svl.fd = "alone" /\ WritesAll(svl)
    <3>1. ~ Linked(cli, n)
      BY <2>2 DEF Inv, Alone
    <3> QED
      BY <1>2, <1>4, <1>6, <2>2, <3>1
  <2> QED
    BY <1>7, <2>1, <2>2
<1>10. Opens(svl') /\ Opens(cli') /\ Alone(svl', cli') /\ Alone(cli', svl')
  BY <1>1, <1>2, <1>3, <1>6 DEF Opens, Alone
<1> QED
  BY <1>2, <1>3, <1>8, <1>9, <1>10 DEF Inv, Opens, Alone

\* The serverless task ends with its process: what it wrote is part of a file.
LEMMA SvlEnds ==
  ASSUME Inv, SvlCrashes
  PROVE  Inv'
<1>1. /\ file \in [Names -> Contents] /\ safe \in [Names -> Versions \cup {None}]
      /\ svl \in WriterType(SvlPcs) /\ spoilt \in SUBSET Names
      /\ dir \in BOOLEAN /\ cli \in WriterType(CliPcs)
      /\ clean \in [pc : {"idle", "removing", "printed"}, left : SUBSET Names]
      /\ Opens(svl)
  BY Types DEF Inv
<1>2. /\ UNCHANGED <<dir, cli, clean, safe>>
      /\ svl' = Idle /\ WritesPart(svl)
  BY DEF SvlCrashes
<1>3. svl' \in WriterType(SvlPcs) /\ svl'.pc = "idle" /\ svl'.fd = "closed"
  BY <1>2, Unopened DEF Idle, SvlPcs, Contents
<1>4. file' \in [Names -> Contents] /\ \A n \in Names : file'[n] # file[n] => Linked(svl, n)
  <2>1. CASE svl.pc = "opened"
    BY <1>1, <1>2, <2>1, Writing DEF Inv
  <2>2. CASE svl.pc # "opened"
    <3>1. ~ Linked(svl, svl.target)
      BY <1>1, <2>2 DEF Opens, Linked
    <3> QED
      BY <1>1, <1>2, <3>1 DEF WritesPart
  <2> QED
    BY <2>1, <2>2
<1>5. spoilt' \in SUBSET Names
  <2>1. Linked(svl, svl.target) => svl.target \in Names
    BY <1>1 DEF Inv, Opens, Linked
  <2> QED
    BY <1>1, <1>2, <2>1 DEF WritesPart
<1>6. \A n : ~ Linked(svl', n)
  BY <1>3 DEF Linked
<1>7. TypeOK'
  BY <1>1, <1>2, <1>3, <1>4, <1>5 DEF TypeOK, SvlPcs, CliPcs
<1>8. SafeAtRest'
  BY <1>2, <1>4, <1>6 DEF Inv, SafeAtRest
<1> QED
  BY <1>2, <1>3, <1>6, <1>7, <1>8 DEF Inv, Opens, Alone

LEMMA CliEndings ==
  ASSUME Inv, CliWrites \/ CliFails
  PROVE  Inv'
<1>1. /\ file \in [Names -> Contents] /\ safe \in [Names -> Versions \cup {None}]
      /\ svl \in WriterType(SvlPcs) /\ cli \in WriterType(CliPcs) /\ dir \in BOOLEAN
      /\ clean \in [pc : {"idle", "removing", "printed"}, left : SUBSET Names]
      /\ spoilt \in SUBSET Names /\ Opens(cli)
  BY Types DEF Inv
<1>2. /\ cli.pc = "opened" /\ cli.target \in Names /\ cli.ver \in Versions
      /\ UNCHANGED <<dir, svl, clean, safe>>
  BY DEF CliWrites, CliFails, Inv
<1>3. cli' \in WriterType(CliPcs) /\ cli'.pc \in {"written", "failed"} /\ cli'.fd = "closed"
  <2>1. "written" \in CliPcs /\ "failed" \in CliPcs
    BY DEF CliPcs
  <2> QED
    BY <1>1, <2>1, Ending DEF CliWrites, CliFails
<1>4. file' \in [Names -> Contents] /\ \A n \in Names : file'[n] # file[n] => Linked(cli, n)
  BY <1>1, <1>2, Writing DEF CliWrites, CliFails
<1>5. spoilt' \in SUBSET Names
  BY <1>1, <1>2 DEF CliWrites, CliFails, WritesPart
<1>6. \A n : ~ Linked(cli', n)
  BY <1>3 DEF Linked
<1>7. TypeOK'
  BY <1>1, <1>2, <1>3, <1>4, <1>5 DEF TypeOK, SvlPcs, CliPcs
<1>8. SafeAtRest'
  BY <1>2, <1>4, <1>6 DEF Inv, SafeAtRest
<1> QED
  BY <1>2, <1>3, <1>6, <1>7, <1>8 DEF Inv, Opens, Alone
-----------------------------------------------------------------------------
LEMMA Initially == Init => Inv
<1> SUFFICES ASSUME Init
             PROVE  Inv
  OBVIOUS
<1>1. /\ Idle \in WriterType(SvlPcs) /\ Idle \in WriterType(CliPcs)
      /\ Idle.pc = "idle" /\ Idle.fd = "closed"
  BY DEF Idle, Doing, WriterType, SvlPcs, CliPcs, Contents
<1>2. svl = Idle /\ cli = Idle /\ safe = [n \in Names |-> None]
  BY DEF Init
<1>3. TypeOK
  BY <1>1, <1>2 DEF Init, TypeOK, SvlPcs, CliPcs, Contents
<1> QED
  BY <1>1, <1>2, <1>3 DEF Inv, Opens, Alone, Linked, SafeAtRest

LEMMA Step == Inv /\ [Next]_vars => Inv'
<1> SUFFICES ASSUME Inv, [Next]_vars
             PROVE  Inv'
  OBVIOUS
<1>1. CASE UNCHANGED vars
  BY <1>1, Types, SvlMoves DEF Inv, vars
<1>2. CASE \/ \E n \in Names : SvlGets(n) \/ SvlRefusesName(n)
           \/ \E n \in Names, v \in Versions : SvlUploads(n, v)
           \/ SvlCannotOpen \/ CleanStarts \/ CleanEnds
  BY <1>2, Moves
<1>3. CASE \E n \in Names : SvlRemoves(n) \/ CleanUnlinks(n)
  BY <1>3, Removing
<1>4. CASE SvlOpens \/ \E n \in Names, v \in Versions : CliOpens(n, v)
  BY <1>4, Openings
<1>5. CASE SvlWrites \/ SvlCannotWrite
  BY <1>5, SvlEndings
<1>6. CASE SvlCrashes
  BY <1>6, SvlEnds
<1>7. CASE CliWrites \/ CliFails
  BY <1>7, CliEndings
<1> QED
  BY <1>1, <1>2, <1>3, <1>4, <1>5, <1>6, <1>7 DEF Next

(***************************************************************************)
(* What is read, written and kept is code or its absence.                  *)
(***************************************************************************)
THEOREM Typing == Spec => []TypeOK
<1>1. Inv => TypeOK
  BY DEF Inv
<1> QED
  BY Initially, Step, <1>1, PTL DEF Spec

(***************************************************************************)
(* An upload acknowledged while no other process was at its file stays     *)
(* there, whole, until the name is uploaded, removed or cleaned again:     *)
(* the write that write_all awaits before the answer is the last one, and  *)
(* no crash and no error of another write reaches a file that is not open  *)
(* (code_store.rs:69-73).                                                  *)
(***************************************************************************)
THEOREM AcknowledgedStays == Spec => []AcknowledgedIsKept
<1>1. Inv => AcknowledgedIsKept
  BY DEF Inv, SafeAtRest, AcknowledgedIsKept
<1> QED
  BY Initially, Step, <1>1, PTL DEF Spec

-----------------------------------------------------------------------------
(***************************************************************************)
(* What the serverless reads.  A torn file has Upload's name, or was left  *)
(* by a write that broke off, or has the serverless itself in the middle   *)
(* of writing it, which then reads nothing; and only at a name Upload may  *)
(* write does it share a file.                                             *)
(***************************************************************************)
TornIsOpen == \A n \in Names : file[n] = Torn => n \in CliNames \cup spoilt \/ Linked(svl, n)

SharedIsCli ==
  /\ cli.pc = "opened" => cli.target \in CliNames
  /\ svl.fd = "shared" => svl.target \in CliNames

ReadInv == TornIsOpen /\ SharedIsCli /\ ReadsWhole

\* Nothing is torn by a step that only ends a write or takes files away.
LEMMA StaysWhole ==
  ASSUME ReadInv,
         \A n \in Names : file'[n] = file[n] \/ file'[n] # Torn \/ n \in CliNames \cup spoilt',
         \A n \in Names : Linked(svl, n) => Linked(svl', n) \/ file'[n] # Torn
                                             \/ n \in CliNames \cup spoilt',
         \A n \in spoilt : n \in CliNames \cup spoilt',
         cli'.pc = "opened" => cli'.target \in CliNames,
         svl'.fd = "shared" => svl'.target \in CliNames,
         svl'.pc = "got" => svl.pc = "got" /\ svl'.target = svl.target /\ svl'.ver = svl.ver
  PROVE  ReadInv'
<1>1. TornIsOpen'
  BY DEF ReadInv, TornIsOpen
<1>2. SharedIsCli'
  BY DEF SharedIsCli
<1>3. ReadsWhole'
  BY DEF ReadInv, ReadsWhole
<1> QED
  BY <1>1, <1>2, <1>3 DEF ReadInv

\* A read: the serverless has nothing open, so what is torn is excused.
LEMMA Reading ==
  ASSUME Inv, ReadInv, NEW n \in Names, SvlGets(n)
  PROVE  ReadInv'
<1>1. /\ Free /\ UNCHANGED <<file, cli, spoilt>>
      /\ svl'.pc = "got" /\ svl'.target = n /\ svl'.fd = "closed"
      /\ svl'.ver = file[n] \/ svl'.ver = None
  BY DEF SvlGets, Doing
<1>2. \A m \in Names : ~ Linked(svl, m)
  BY <1>1 DEF Inv, Opens, Free, Linked
<1>3. TornIsOpen' /\ SharedIsCli'
  BY <1>1, <1>2 DEF ReadInv, TornIsOpen, SharedIsCli
<1>4. ReadsWhole'
  <2>1. n \notin CliNames \cup spoilt => file[n] # Torn
    BY <1>2 DEF ReadInv, TornIsOpen
  <2>2. None # Torn
    BY CodeStoreAssumption
  <2> QED
    BY <1>1, <2>1, <2>2 DEF ReadsWhole
<1> QED
  BY <1>3, <1>4 DEF ReadInv

\* The serverless begins or gives up an operation, or Clean one.
LEMMA Quiet ==
  ASSUME Inv, ReadInv,
         \/ \E n \in Names : SvlRefusesName(n) \/ SvlRemoves(n)
         \/ \E n \in Names, v \in Versions : SvlUploads(n, v)
         \/ SvlCannotOpen \/ CleanStarts \/ CleanEnds \/ UNCHANGED vars
  PROVE  ReadInv'
<1>1. /\ file \in [Names -> Contents] /\ svl \in WriterType(SvlPcs)
      /\ cli \in WriterType(CliPcs) /\ Opens(svl) /\ None # Torn
  BY Types, CodeStoreAssumption DEF Inv
<1>2. UNCHANGED spoilt
  BY DEF SvlRefusesName, SvlRemoves, SvlUploads, SvlCannotOpen, CleanStarts, CleanEnds, vars
<1>3. \A n \in Names : file'[n] = file[n] \/ file'[n] # Torn
  BY <1>1 DEF SvlRefusesName, SvlRemoves, SvlUploads, SvlCannotOpen, CleanStarts, CleanEnds, vars
<1>4. cli'.pc = cli.pc /\ cli'.target = cli.target
  BY <1>1, Writers DEF SvlRefusesName, SvlRemoves, SvlUploads, SvlCannotOpen, CleanStarts,
    CleanEnds, vars
<1>5. \/ UNCHANGED svl
      \/ svl'.fd = "closed" /\ svl'.pc # "got" /\ svl.pc # "opened"
  <2>1. CASE \E n \in Names : SvlRefusesName(n) \/ SvlRemoves(n)
    BY <2>1 DEF SvlRefusesName, SvlRemoves, Doing, Free
  <2>2. CASE \E n \in Names, v \in Versions : SvlUploads(n, v)
    BY <2>2 DEF SvlUploads, Doing, Free
  <2>3. CASE SvlCannotOpen
    <3>1. svl'.fd = "closed" /\ svl'.pc = "storeError"
      BY <1>1, <2>3, Ending DEF SvlCannotOpen, SvlPcs
    <3> QED
      BY <2>3, <3>1 DEF SvlCannotOpen
  <2>4. CASE CleanStarts \/ CleanEnds \/ UNCHANGED vars
    BY <2>4 DEF CleanStarts, CleanEnds, vars
  <2> QED
    BY <2>1, <2>2, <2>3, <2>4
<1>6. \A n : Linked(svl, n) => Linked(svl', n)
  BY <1>1, <1>5 DEF Opens, Linked
<1>7. /\ cli'.pc = "opened" => cli'.target \in CliNames
      /\ svl'.fd = "shared" => svl'.target \in CliNames
  BY <1>4, <1>5 DEF ReadInv, SharedIsCli
<1>8. svl'.pc = "got" => svl.pc = "got" /\ svl'.target = svl.target /\ svl'.ver = svl.ver
  BY <1>5
<1> QED
  BY <1>2, <1>3, <1>6, <1>7, <1>8, StaysWhole

\* Clean takes a file away.
LEMMA Unlinking ==
  ASSUME Inv, ReadInv, NEW n \in Names, CleanUnlinks(n)
  PROVE  ReadInv'
<1>1. /\ file \in [Names -> Contents] /\ svl \in WriterType(SvlPcs)
      /\ cli \in WriterType(CliPcs) /\ None # Torn
  BY Types, CodeStoreAssumption DEF Inv
<1>2. /\ file' = [file EXCEPT ![n] = None] /\ UNCHANGED spoilt
      /\ svl' = Unlinked(svl, n) /\ cli' = Unlinked(cli, n)
  BY DEF CleanUnlinks
<1>3. /\ svl'.pc = svl.pc /\ svl'.target = svl.target /\ svl'.ver = svl.ver
      /\ svl'.fd = IF Linked(svl, n) THEN "unlinked" ELSE svl.fd
      /\ cli'.pc = cli.pc /\ cli'.target = cli.target
  BY <1>1, <1>2, Writers
<1>4. \A m \in Names : file'[m] = file[m] \/ file'[m] # Torn
  BY <1>1, <1>2
<1>5. \A m \in Names : Linked(svl, m) => Linked(svl', m) \/ file'[m] # Torn
  <2> SUFFICES ASSUME NEW m \in Names, Linked(svl, m)
               PROVE  Linked(svl', m) \/ file'[m] # Torn
    OBVIOUS
  <2>1. CASE m = n
    BY <1>1, <1>2, <2>1
  <2>2. CASE m # n
    BY <1>3, <2>2 DEF Linked
  <2> QED
    BY <2>1, <2>2
<1>6. /\ cli'.pc = "opened" => cli'.target \in CliNames
      /\ svl'.fd = "shared" => svl'.target \in CliNames
  BY <1>3 DEF ReadInv, SharedIsCli
<1> QED
  BY <1>2, <1>3, <1>4, <1>5, <1>6, StaysWhole

\* A write ends: what is torn after it is spoilt or has one of Upload's names.
LEMMA WritesEnd ==
  ASSUME Inv, ReadInv, SvlWrites \/ SvlCannotWrite \/ SvlCrashes \/ CliWrites \/ CliFails
  PROVE  ReadInv'
<1>1. /\ file \in [Names -> Contents] /\ svl \in WriterType(SvlPcs)
      /\ cli \in WriterType(CliPcs) /\ spoilt \in SUBSET Names
      /\ Opens(svl) /\ Opens(cli) /\ Torn \notin Versions
      /\ svl.pc \in {"checked", "opened"} => svl.target \in Names /\ svl.ver \in Versions
      /\ cli.pc = "opened" => cli.target \in Names /\ cli.ver \in Versions
  BY Types, CodeStoreAssumption DEF Inv
<1>2. CASE SvlWrites
  <2>1. /\ svl.pc = "opened" /\ WritesAll(svl) /\ UNCHANGED <<cli, spoilt>>
        /\ svl' = Ended(svl, "stored")
    BY <1>2 DEF SvlWrites
  <2>2. svl'.pc = "stored" /\ svl'.fd = "closed"
    BY <1>1, <2>1, Ending DEF SvlPcs
  <2>3. svl.fd \in {"alone", "shared", "unlinked"}
    BY <1>1, <2>1 DEF Opens, WriterType
  <2>4. svl.fd = "shared" => svl.target \in CliNames
    BY DEF ReadInv, SharedIsCli
  <2>5. \A n \in Names : file'[n] = file[n] \/ file'[n] # Torn \/ n \in CliNames
    BY <1>1, <2>1, <2>3, <2>4 DEF WritesAll
  <2>6. \A n \in Names : Linked(svl, n) => file'[n] # Torn \/ n \in CliNames
    BY <1>1, <2>1, <2>3, <2>4 DEF WritesAll, Linked
  <2> QED
    BY <2>1, <2>2, <2>5, <2>6, StaysWhole DEF ReadInv, SharedIsCli
<1>3. CASE SvlCannotWrite \/ SvlCrashes
  <2>1. /\ WritesPart(svl) /\ UNCHANGED cli
        /\ svl'.pc # "got" /\ svl'.fd = "closed"
    BY <1>1, <1>3, Ending DEF SvlCannotWrite, SvlCrashes, Idle, Doing, SvlPcs
  <2>2. /\ spoilt' = IF Linked(svl, svl.target) THEN spoilt \cup {svl.target} ELSE spoilt
        /\ \A n \in Names : file'[n] = file[n] \/ n \in spoilt'
        /\ \A n \in Names : Linked(svl, n) => n \in spoilt'
    BY <1>1, <2>1 DEF WritesPart, Linked
  <2> QED
    BY <2>1, <2>2, StaysWhole DEF ReadInv, SharedIsCli
<1>4. CASE CliWrites \/ CliFails
  <2>1. /\ cli.pc = "opened" /\ UNCHANGED svl /\ cli.target \in CliNames
        /\ cli'.pc # "opened"
        /\ (WritesAll(cli) /\ UNCHANGED spoilt) \/ WritesPart(cli)
    BY <1>1, <1>4, Ending DEF CliWrites, CliFails, CliPcs, ReadInv, SharedIsCli
  <2>2. /\ \A n \in Names : file'[n] = file[n] \/ n \in CliNames
        /\ spoilt \subseteq spoilt'
    BY <1>1, <2>1 DEF WritesAll, WritesPart, Linked
  <2> QED
    BY <2>1, <2>2, StaysWhole DEF ReadInv, SharedIsCli
<1> QED
  BY <1>2, <1>3, <1>4

\* open() tears the file of whoever opens it.
LEMMA Tearing ==
  ASSUME Inv, ReadInv, SvlOpens \/ \E n \in Names, v \in Versions : CliOpens(n, v)
  PROVE  ReadInv'
<1>1. /\ file \in [Names -> Contents] /\ svl \in WriterType(SvlPcs)
      /\ cli \in WriterType(CliPcs) /\ Opens(svl) /\ Opens(cli)
      /\ "opened" \in SvlPcs /\ "opened" \in CliPcs
  BY Types DEF Inv, SvlPcs, CliPcs
<1>2. CASE SvlOpens
  <2>1. /\ svl.pc = "checked" /\ Truncate(svl.target)
        /\ svl' = Opened(svl, cli) /\ cli' = Joined(cli, svl.target)
    BY <1>2 DEF SvlOpens
  <2>2. /\ svl'.pc = "opened" /\ svl'.target = svl.target
        /\ svl'.fd = IF Linked(cli, svl.target) THEN "shared" ELSE "alone"
        /\ cli'.pc = cli.pc /\ cli'.target = cli.target
    BY <1>1, <2>1, Opening, Writers
  <2>3. Linked(cli, svl.target) => svl.target \in CliNames
    BY <1>1 DEF Opens, Linked, ReadInv, SharedIsCli
  <2>4. \A n \in Names : n # svl.target => file'[n] = file[n] /\ (n \in spoilt' <=> n \in spoilt)
    BY <1>1, <2>1 DEF Truncate
  <2>5. Linked(svl', svl.target) /\ \A n \in Names : ~ Linked(svl, n)
    BY <1>1, <2>1, <2>2 DEF Linked, Opens
  <2>6. TornIsOpen'
    BY <2>4, <2>5 DEF ReadInv, TornIsOpen
  <2> QED
    BY <2>2, <2>3, <2>6 DEF ReadInv, SharedIsCli, ReadsWhole
<1>3. CASE \E n \in Names, v \in Versions : CliOpens(n, v)
  <2>1. PICK n \in Names, v \in Versions : CliOpens(n, v)
    BY <1>3
  <2> DEFINE w == Doing("idle", n, v)
  <2>2. w \in WriterType(CliPcs) /\ w.target = n
    BY DEF Doing, WriterType, CliPcs, Contents
  <2>3. /\ Truncate(n) /\ cli' = Opened(w, svl) /\ svl' = Joined(svl, n) /\ n \in CliNames
    BY <2>1 DEF CliOpens
  <2> HIDE DEF w
  <2>4. /\ cli'.target = n
        /\ svl'.pc = svl.pc /\ svl'.target = svl.target /\ svl'.ver = svl.ver
        /\ svl'.fd = IF Linked(svl, n) THEN "shared" ELSE svl.fd
    BY <1>1, <2>2, <2>3, Opening, Writers
  <2>5. \A m \in Names : m # n => file'[m] = file[m] /\ (m \in spoilt' <=> m \in spoilt)
    BY <1>1, <2>3 DEF Truncate
  <2>6. \A m \in spoilt : m \in CliNames \cup spoilt'
    BY <2>3 DEF Truncate
  <2>7. \A m \in Names : Linked(svl, m) => Linked(svl', m)
    BY <2>4 DEF Linked
  <2>8. svl'.fd = "shared" => svl'.target \in CliNames
    BY <2>3, <2>4 DEF Linked, ReadInv, SharedIsCli
  <2> QED
    BY <2>3, <2>4, <2>5, <2>6, <2>7, <2>8, StaysWhole
<1> QED
  BY <1>2, <1>3

LEMMA ReadsInit == Init => ReadInv
<1> SUFFICES ASSUME Init
             PROVE  ReadInv
  OBVIOUS
<1>1. /\ svl.pc = "idle" /\ svl.fd = "closed"
      /\ cli.pc = "idle" /\ cli.fd = "closed"
  BY DEF Init, Idle, Doing
<1>2. \A n \in Names : file[n] # Torn
  <2>1. file \in [Names -> Versions \cup {None}]
    BY DEF Init
  <2>2. Torn \notin Versions \cup {None}
    BY CodeStoreAssumption
  <2> QED
    BY <2>1, <2>2
<1> QED
  BY <1>1, <1>2 DEF ReadInv, TornIsOpen, SharedIsCli, ReadsWhole

LEMMA ReadsStep == Inv /\ ReadInv /\ [Next]_vars => ReadInv'
<1> SUFFICES ASSUME Inv, ReadInv, [Next]_vars
             PROVE  ReadInv'
  OBVIOUS
<1>1. CASE \E n \in Names : SvlGets(n)
  BY <1>1, Reading
<1>2. CASE \/ \E n \in Names : SvlRefusesName(n) \/ SvlRemoves(n)
           \/ \E n \in Names, v \in Versions : SvlUploads(n, v)
           \/ SvlCannotOpen \/ CleanStarts \/ CleanEnds \/ UNCHANGED vars
  BY <1>2, Quiet
<1>3. CASE \E n \in Names : CleanUnlinks(n)
  BY <1>3, Unlinking
<1>4. CASE SvlWrites \/ SvlCannotWrite \/ SvlCrashes \/ CliWrites \/ CliFails
  BY <1>4, WritesEnd
<1>5. CASE SvlOpens \/ \E n \in Names, v \in Versions : CliOpens(n, v)
  BY <1>5, Tearing
<1> QED
  BY <1>1, <1>2, <1>3, <1>4, <1>5 DEF Next

(***************************************************************************)
(* The serverless reads no torn file but one that a crash or an error in   *)
(* the middle of a write left, or one the command Upload writes: it has no *)
(* file open when it reads (code_store.rs:69, 82-86), and whoever leaves a *)
(* file half written leaves it spoilt.                                     *)
(***************************************************************************)
THEOREM ReadsAreWhole == Spec => []ReadsWhole
<1>1. ReadInv => ReadsWhole
  BY DEF ReadInv
<1> QED
  BY Initially, Step, ReadsInit, ReadsStep, <1>1, PTL DEF Spec
=============================================================================
