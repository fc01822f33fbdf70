----------------------------- MODULE CodeStore ------------------------------
(***************************************************************************)
(* The code store on disk (runtime/serverless/code_store.rs) with all that *)
(* works on its directory: the serverless task, which does one operation   *)
(* at a time and may crash and be started again, and the commands Clean    *)
(* and Upload (main.rs), which are processes of their own.                 *)
(*                                                                         *)
(* Code is a version, and "torn" whatever is not a whole version: an empty *)
(* file, part of one, a mixture of two.  Only the directory .serverlessd/  *)
(* workers/ is modelled; the one above it goes and comes with it.          *)
(***************************************************************************)
EXTENDS Naturals

CONSTANTS
  Names,       \* names of workers: the store keeps a file <name>.js for each
  ValidNames,  \* those the name regex accepts
  CliNames,    \* names whose file the command Upload may write
  Versions,    \* pieces of code
  Mishaps,     \* which of "crash" and "ioError" may happen
  Cleaning,    \* whether the command Clean may be run
  None

Torn == "torn"

ASSUME CodeStoreAssumption ==
  /\ ValidNames \subseteq Names /\ CliNames \subseteq Names
  /\ Mishaps \subseteq {"crash", "ioError"}
  /\ Cleaning \in BOOLEAN
  /\ None \notin Versions /\ Torn \notin Versions \cup {None}

VARIABLES
  dir,    \* whether the directory exists
  file,   \* file[n]: what the file of worker n holds, None without a file
  svl,    \* the operation of the serverless task
  cli,    \* the command Upload
  clean,  \* the command Clean: where it is and the old files it has to remove
  safe,   \* history: safe[n] is the version whose upload was acknowledged with
          \*   no other process at the file, None once anybody touches it again
  spoilt  \* history: names whose last writer was ended by a crash or an error

vars == <<dir, file, svl, cli, clean, safe, spoilt>>

(***************************************************************************)
(* A writer has a file open: "alone", "shared" once another has opened it  *)
(* too, "unlinked" once the file is no longer in the directory.            *)
(***************************************************************************)
Doing(pc, target, ver) == [pc |-> pc, target |-> target, ver |-> ver, fd |-> "closed"]

Idle == Doing("idle", None, None)

Init ==
  /\ dir \in BOOLEAN
  /\ file \in [Names -> Versions \cup {None}]
  /\ dir \/ file = [n \in Names |-> None]
  /\ svl = Idle
  /\ cli = Idle
  /\ clean = [pc |-> "idle", left |-> {}]
  /\ safe = [n \in Names |-> None]
  /\ spoilt = {}

Stored == {n \in Names : file[n] # None}

Linked(w, n) == w.target = n /\ w.fd \in {"alone", "shared"}

Unlinked(w, n) == IF Linked(w, n) THEN [w EXCEPT !.fd = "unlinked"] ELSE w

Joined(w, n) == IF Linked(w, n) THEN [w EXCEPT !.fd = "shared"] ELSE w

\* w opens its target while the other writer has what it has.
Opened(w, other) ==
  [w EXCEPT !.pc = "opened", !.fd = IF Linked(other, w.target) THEN "shared" ELSE "alone"]

Ended(w, how) == [w EXCEPT !.pc = how, !.fd = "closed"]

Touch(n) == safe' = [safe EXCEPT ![n] = None]

\* open() creates the file or cuts it off.
Truncate(n) ==
  /\ dir
  /\ file' = [file EXCEPT ![n] = Torn]
  /\ Touch(n)
  /\ spoilt' = spoilt \ {n}

\* All of w's version is written, over what a second writer wrote meanwhile.
WritesAll(w) ==
  \E f \in IF w.fd = "shared" THEN {w.ver, Torn} ELSE {w.ver} :
    file' = IF w.fd = "unlinked" THEN file ELSE [file EXCEPT ![w.target] = f]

\* A part of it is, or nothing, before an error or the end of the process.
WritesPart(w) ==
  LET n == w.target
  IN  /\ file' = file \/ (Linked(w, n) /\ file' = [file EXCEPT ![n] = Torn])
      /\ spoilt' = IF Linked(w, n) THEN spoilt \cup {n} ELSE spoilt
-----------------------------------------------------------------------------
(***************************************************************************)
(* The serverless task: upload_worker_code, remove_worker_code and         *)
(* get_worker_code, awaited one after the other.  check_fs makes the       *)
(* directory if there is none; that it fails to is ignored.                *)
(***************************************************************************)
Free == svl.pc \notin {"checked", "opened"}

CheckFs == dir' \in IF "ioError" \in Mishaps THEN {TRUE, dir} ELSE {TRUE}

\* Fault: no code is the empty string.
SvlGetsOrEmpty(n) ==
  /\ Free
  /\ CheckFs
  /\ svl' = Doing("got", n, IF file[n] = None THEN "" ELSE file[n])
  /\ UNCHANGED <<file, cli, clean, safe, spoilt>>

\* An error, also that a torn file is no UTF-8, gives no code.
SvlGets(n) ==
  /\ Free
  /\ CheckFs
  /\ \E v \in {file[n]} \cup IF file[n] = Torn \/ "ioError" \in Mishaps THEN {None} ELSE {} :
       svl' = Doing("got", n, v)
  /\ UNCHANGED <<file, cli, clean, safe, spoilt>>

SvlRemoves(n) ==
  /\ Free
  /\ CheckFs
  /\ svl' = Doing("removed", n, None)
  /\ \/ /\ file' = [file EXCEPT ![n] = None]
        /\ cli' = Unlinked(cli, n)
        /\ Touch(n)
     \/ /\ "ioError" \in Mishaps
        /\ UNCHANGED <<file, cli, safe>>
  /\ UNCHANGED <<clean, spoilt>>

SvlRefusesName(n) ==
  /\ Free
  /\ n \notin ValidNames
  /\ svl' = Doing("invalidName", n, None)
  /\ UNCHANGED <<dir, file, cli, clean, safe, spoilt>>

SvlUploads(n, v) ==
  /\ Free
  /\ n \in ValidNames
  /\ CheckFs
  /\ svl' = Doing("checked", n, v)
  /\ UNCHANGED <<file, cli, clean, safe, spoilt>>

\* Fault: neither the answer nor the next operation waits for the write.
SvlAnswersAtOnce ==
  /\ svl.pc = "checked"
  /\ Truncate(svl.target)
  /\ svl' = Ended(svl, "stored")
  /\ UNCHANGED <<dir, cli, clean>>

SvlOpens ==
  /\ svl.pc = "checked"
  /\ Truncate(svl.target)
  /\ svl' = Opened(svl, cli)
  /\ cli' = Joined(cli, svl.target)
  /\ UNCHANGED <<dir, clean>>

SvlCannotOpen ==
  /\ svl.pc = "checked"
  /\ ~ dir \/ "ioError" \in Mishaps
  /\ svl' = Ended(svl, "storeError")
  /\ UNCHANGED <<dir, file, cli, clean, safe, spoilt>>

\* Fault: the error of the last write is not looked at.
SvlWritesPerhaps ==
  /\ svl.pc = "opened"
  /\ \/ WritesAll(svl) /\ UNCHANGED spoilt
     \/ "ioError" \in Mishaps /\ WritesPart(svl)
  /\ svl' = Ended(svl, "stored")
  /\ safe' = [safe EXCEPT ![svl.target] = IF svl.fd = "alone" THEN svl.ver ELSE None]
  /\ UNCHANGED <<dir, cli, clean>>

SvlWrites ==
  /\ svl.pc = "opened"
  /\ WritesAll(svl)
  /\ svl' = Ended(svl, "stored")
  /\ safe' = [safe EXCEPT ![svl.target] = IF svl.fd = "alone" THEN svl.ver ELSE None]
  /\ UNCHANGED <<dir, cli, clean, spoilt>>

SvlCannotWrite ==
  /\ svl.pc = "opened"
  /\ "ioError" \in Mishaps
  /\ WritesPart(svl)
  /\ svl' = Ended(svl, "storeError")
  /\ UNCHANGED <<dir, cli, clean, safe>>

\* The process ends at any point; a new one starts with what is on disk.
SvlCrashes ==
  /\ "crash" \in Mishaps
  /\ svl' = Idle
  /\ WritesPart(svl)
  /\ UNCHANGED <<dir, cli, clean, safe>>
-----------------------------------------------------------------------------
(***************************************************************************)
(* Upload: the file is written under the name it has; --name is not read,  *)
(* and nobody makes the directory.                                         *)
(***************************************************************************)
CliOpens(target, v) ==
  /\ cli.pc # "opened"
  /\ target \in CliNames
  /\ Truncate(target)
  /\ cli' = Opened(Doing("idle", target, v), svl)
  /\ svl' = Joined(svl, target)
  /\ UNCHANGED <<dir, clean>>

CliWrites ==
  /\ cli.pc = "opened"
  /\ WritesAll(cli)
  /\ cli' = Ended(cli, "written")
  /\ UNCHANGED <<dir, svl, clean, safe, spoilt>>

CliFails ==
  /\ cli.pc = "opened"
  /\ Mishaps # {}
  /\ WritesPart(cli)
  /\ cli' = Ended(cli, "failed")
  /\ UNCHANGED <<dir, svl, clean, safe>>
-----------------------------------------------------------------------------
(***************************************************************************)
(* Clean: remove_dir_all takes the files away one by one and then the      *)
(* directory.  It stops at the first error, and with the error ignored the *)
(* command prints that all workers are cleaned.                            *)
(***************************************************************************)
CleanStarts ==
  /\ Cleaning
  /\ clean.pc # "removing"
  /\ clean' = [pc |-> "removing", left |-> Stored]
  /\ UNCHANGED <<dir, file, svl, cli, safe, spoilt>>

CleanUnlinks(n) ==
  /\ clean.pc = "removing"
  /\ n \in Stored
  /\ file' = [file EXCEPT ![n] = None]
  /\ svl' = Unlinked(svl, n)
  /\ cli' = Unlinked(cli, n)
  /\ clean' = [clean EXCEPT !.left = @ \ {n}]
  /\ Touch(n)
  /\ UNCHANGED <<dir, spoilt>>

\* rmdir fails if the directory got a new file; an old one may fail to go, or
\* be gone already.
CleanEnds ==
  /\ clean.pc = "removing"
  /\ \/ clean.left = {} /\ dir' = (dir /\ Stored # {})
     \/ clean.left # {} /\ ("ioError" \in Mishaps \/ ~ clean.left \subseteq Stored)
        /\ UNCHANGED dir
  /\ clean' = [clean EXCEPT !.pc = "printed"]
  /\ UNCHANGED <<file, svl, cli, safe, spoilt>>

Next ==
  \/ \E n \in Names : SvlGets(n) \/ SvlRemoves(n) \/ SvlRefusesName(n) \/ CleanUnlinks(n)
  \/ \E n \in Names, v \in Versions : SvlUploads(n, v) \/ CliOpens(n, v)
  \/ SvlOpens \/ SvlCannotOpen \/ SvlWrites \/ SvlCannotWrite \/ SvlCrashes
  \/ CliWrites \/ CliFails
  \/ CleanStarts \/ CleanEnds

Spec == Init /\ [][Next]_vars
-----------------------------------------------------------------------------
Contents == Versions \cup {None, Torn}

WriterType(pcs) ==
  [pc : pcs, target : Names \cup {None}, ver : Contents,
   fd : {"closed", "alone", "shared", "unlinked"}]

\* What is read, written and kept is code or its absence.
TypeOK ==
  /\ dir \in BOOLEAN
  /\ file \in [Names -> Contents]
  /\ svl \in WriterType({"idle", "got", "removed", "invalidName", "checked", "opened",
                         "stored", "storeError"})
  /\ cli \in WriterType({"idle", "opened", "written", "failed"})
  /\ clean \in [pc : {"idle", "removing", "printed"}, left : SUBSET Names]
  /\ safe \in [Names -> Versions \cup {None}]
  /\ spoilt \in SUBSET Names

(***************************************************************************)
(* An upload acknowledged while no other process was at the file is there, *)
(* whole, until somebody uploads, removes or cleans it: through crashes of *)
(* the serverless, errors of other uploads and whatever the commands do to *)
(* other files (code_store.rs:69-73).                                      *)
(***************************************************************************)
AcknowledgedIsKept == \A n \in Names : safe[n] # None => file[n] = safe[n]

(***************************************************************************)
(* The serverless reads no torn file but one that a crash or an error in   *)
(* the middle of a write left, with Clean and Upload at work beside it: a  *)
(* read waits for the upload before it, and only the command Upload at the *)
(* same name comes between (code_store.rs:69, 82-86).                      *)
(***************************************************************************)
ReadsWhole ==
  svl.pc = "got" /\ svl.target \notin CliNames \cup spoilt => svl.ver # Torn
=============================================================================
