---------------------------- MODULE RawDownload -----------------------------
(***************************************************************************)
(* scripts/_pmxt_raw_download.py: the hours of a window are mirrored,      *)
(* newest first, from the largest object any archive has.  Several         *)
(* processes may work on one directory, be killed and run again, while     *)
(* the archives publish larger objects.                                    *)
(*                                                                         *)
(* A file is its length, an object as well.  A temporary file is <<hour,   *)
(* process>>: its name has the process's number.                           *)
(***************************************************************************)
EXTENDS Integers, Sequences, Functions

CONSTANTS
  Window,     (* the hours of the window, newest first: a sequence                 *)
  Archives,   (* the archives in the order they are configured: a sequence         *)
  Procs,      (* the processes                                                     *)
  MaxSize,    (* bound on the length of an object                                  *)
  RawFaults,  (* of "error", "broken", "short", "kill", "silent"                   *)
  Overwrite   (* --overwrite                                                       *)

ASSUME RawAssumption ==
  /\ Window \in Seq(Range(Window)) /\ Window # <<>> /\ IsInjective(Window)
  /\ Archives \in Seq(Range(Archives)) /\ Archives # <<>> /\ IsInjective(Archives)
  /\ MaxSize \in Nat /\ Overwrite \in BOOLEAN
  /\ RawFaults \subseteq {"error", "broken", "short", "kill", "silent"}

VARIABLES
  object,     (* archive -> hour -> the length of the object, Absent when it has none *)
  file,       (* hour -> the length of the local file                              *)
  tmp,        (* <<hour, process>> -> the length of the temporary file             *)
  pc, at,     (* of a process: where it is, and at which place of Window           *)
  urls,       (* archive still to try for the hour -> the length it told           *)
  open,       (* [size, rest]: Content-Length and what is not read yet             *)
  error,      (* last_error: "none", "404" or "other"                              *)
  report,     (* hour -> how the process reports it                                *)
  (* history *)
  told,       (* hour -> the length the archive had told of the local file         *)
  cut,        (* hours of which a connection ended early                           *)
  stolen      (* a process found its temporary file gone                           *)

vars == <<object, file, tmp, pc, at, urls, open, error, report, told, cut, stolen>>

Absent == -1
Hour(p) == Window[at[p]]
NotOpen == [size |-> 0, rest |-> 0]
NoArchive == [a \in {} |-> Absent]
HourSet == Range(Window)
Running(p) == pc[p] \notin {"new", "dead", "done"}

RawInit ==
  /\ object \in [Range(Archives) -> [HourSet -> {Absent, 1}]]
  /\ file = [h \in HourSet |-> Absent]
  /\ tmp = [x \in HourSet \X Procs |-> Absent]
  /\ pc = [p \in Procs |-> "new"] /\ at = [p \in Procs |-> 1]
  /\ urls = [p \in Procs |-> NoArchive] /\ open = [p \in Procs |-> NotOpen]
  /\ error = [p \in Procs |-> "none"]
  /\ report = [p \in Procs |-> [h \in HourSet |-> "none"]]
  /\ told = file /\ cut = {} /\ stolen = FALSE

\* The archives publish larger objects of the newest hour.
Publish ==
  /\ \E a \in Range(Archives) :
       /\ object[a][Window[1]] < MaxSize
       /\ object' = [object EXCEPT ![a][Window[1]] = IF @ = Absent THEN 1 ELSE @ + 1]
  /\ UNCHANGED <<file, tmp, pc, at, urls, open, error, report, told, cut, stolen>>
-----------------------------------------------------------------------------
(* What the archives answer                                                *)

\* _remote_content_length of every archive at once: HEAD, or a GET of one byte.  An archive
\* that has no such object, fails, or does not tell the length, is unknown.
HeadAnswers(h) ==
  {seen \in [Range(Archives) -> {Absent} \union 1 .. MaxSize] :
     \A a \in Range(Archives) : seen[a] = object[a][h] \/ ("silent" \in RawFaults /\ seen[a] = Absent)}

\* The configured order of two archives.
Earlier(a, b) == \E i, j \in DOMAIN Archives : i < j /\ Archives[i] = a /\ Archives[j] = b

\* _ranked_archive_candidate_urls: the largest object first, the unknown last, and the
\* configured order between equals.
First(a, left) ==
  \A b \in DOMAIN left \ {a} : left[a] > left[b] \/ (left[a] = left[b] /\ Earlier(a, b))
-----------------------------------------------------------------------------
(* The loop over the hours                                                 *)

Go(p, where) == pc' = [pc EXCEPT ![p] = where]

\* download_raw_hours begins; a process that ended may run once more with another number.
Start(p) ==
  /\ pc[p] = "new" /\ Go(p, "clean")
  /\ UNCHANGED <<object, file, tmp, at, urls, open, error, report, told, cut, stolen>>

\* Mutant of Stale: whoever's it is.
StaleAny(h, q) == tmp[<<h, q>>] # Absent

\* _is_stale_tmp_download_path: the process of that number is gone.
Stale(h, q) == tmp[<<h, q>>] # Absent /\ ~Running(q)

\* _cleanup_stale_tmp_downloads
Clean(p) ==
  /\ pc[p] = "clean" /\ Go(p, "look")
  /\ tmp' = [x \in DOMAIN tmp |-> IF x[1] = Hour(p) /\ Stale(x[1], x[2]) THEN Absent ELSE tmp[x]]
  /\ UNCHANGED <<object, file, at, urls, open, error, report, told, cut, stolen>>

\* The hour is reported and the next one begins; after the last comes the validation.
Report(p, how) ==
  /\ report' = [report EXCEPT ![p][Hour(p)] = how]
  /\ IF at[p] < Len(Window) THEN Go(p, "clean") /\ at' = [at EXCEPT ![p] = @ + 1]
                           ELSE Go(p, "check") /\ UNCHANGED at
  /\ error' = [error EXCEPT ![p] = "none"] /\ urls' = [urls EXCEPT ![p] = NoArchive]

\* _existing_refresh_reason: an archive advertises more than there is.
RefreshNeeded(size, seen) == \E a \in Range(Archives) : seen[a] > size

\* The file is there: it is kept unless an archive has more of it.
Look(p) ==
  /\ pc[p] = "look"
  /\ IF file[Hour(p)] # Absent /\ ~Overwrite
     THEN \E seen \in HeadAnswers(Hour(p)) :
            IF RefreshNeeded(file[Hour(p)], seen)
            THEN Go(p, "rank") /\ UNCHANGED <<at, urls, error, report>>
            ELSE Report(p, "existing")
     ELSE Go(p, "rank") /\ UNCHANGED <<at, urls, error, report>>
  /\ UNCHANGED <<object, file, tmp, open, told, cut, stolen>>

\* _candidate_urls
Rank(p) ==
  /\ pc[p] = "rank" /\ Go(p, "get")
  /\ \E seen \in HeadAnswers(Hour(p)) : urls' = [urls EXCEPT ![p] = seen]
  /\ UNCHANGED <<object, file, tmp, at, open, error, report, told, cut, stolen>>

\* The next archive answers that it has no such object, fails, or sends it.
Request(p) ==
  /\ pc[p] = "get"
  /\ \E a \in DOMAIN urls[p] :
       /\ First(a, urls[p])
       /\ urls' = [urls EXCEPT ![p] = Restrict(@, DOMAIN @ \ {a})]
       /\ LET size == object[a][Hour(p)]
          IN  \/ /\ size = Absent /\ error' = [error EXCEPT ![p] = "404"]
                 /\ UNCHANGED <<pc, tmp, open>>
              \/ /\ "error" \in RawFaults /\ error' = [error EXCEPT ![p] = "other"]
                 /\ UNCHANGED <<pc, tmp, open>>
              \/ /\ size # Absent /\ Go(p, "read")
                 /\ tmp' = [tmp EXCEPT ![<<Hour(p), p>>] = 0]
                 /\ open' = [open EXCEPT ![p] = [size |-> size, rest |-> size]]
                 /\ UNCHANGED error
  /\ UNCHANGED <<object, file, at, report, told, cut, stolen>>

\* No archive is left: the last error names what the hour is.
GiveUp(p) ==
  /\ pc[p] = "get" /\ DOMAIN urls[p] = {}
  /\ Report(p, IF error[p] = "404" THEN "missing" ELSE "failed")
  /\ UNCHANGED <<object, file, tmp, open, told, cut, stolen>>

\* A chunk is written.  When the connection ends early, read() answers as at the end.
Read(p) ==
  /\ pc[p] = "read"
  /\ \/ /\ open[p].rest > 0
        /\ open' = [open EXCEPT ![p].rest = @ - 1]
        /\ tmp' = [tmp EXCEPT ![<<Hour(p), p>>] = IF @ = Absent THEN Absent ELSE @ + 1]
        /\ UNCHANGED <<pc, cut>>
     \/ /\ open[p].rest = 0 \/ "short" \in RawFaults
        /\ cut' = IF open[p].rest > 0 THEN cut \union {Hour(p)} ELSE cut
        /\ Go(p, "replace") /\ UNCHANGED <<open, tmp>>
  /\ UNCHANGED <<object, file, at, urls, error, report, told, stolen>>

\* Mutant of Broken: what was read takes the file's place.
BrokenKept(p) ==
  /\ pc[p] = "read" /\ "broken" \in RawFaults /\ Go(p, "replace")
  /\ UNCHANGED <<object, file, tmp, at, urls, open, error, report, told, cut, stolen>>

\* The connection breaks: the temporary file goes, and the next archive is tried.
Broken(p) ==
  /\ pc[p] = "read" /\ "broken" \in RawFaults /\ Go(p, "get")
  /\ tmp' = [tmp EXCEPT ![<<Hour(p), p>>] = Absent]
  /\ open' = [open EXCEPT ![p] = NotOpen]
  /\ error' = [error EXCEPT ![p] = "other"]
  /\ UNCHANGED <<object, file, at, urls, report, told, cut, stolen>>

\* os.replace: the temporary file, if it is still there, takes the file's place.
Replace(p) ==
  /\ pc[p] = "replace"
  /\ open' = [open EXCEPT ![p] = NotOpen]
  /\ IF tmp[<<Hour(p), p>>] # Absent
     THEN /\ file' = [file EXCEPT ![Hour(p)] = tmp[<<Hour(p), p>>]]
          /\ told' = [told EXCEPT ![Hour(p)] = open[p].size]
          /\ tmp' = [tmp EXCEPT ![<<Hour(p), p>>] = Absent]
          /\ Report(p, "downloaded") /\ UNCHANGED stolen
     ELSE /\ error' = [error EXCEPT ![p] = "other"] /\ stolen' = TRUE /\ Go(p, "get")
          /\ UNCHANGED <<file, tmp, at, urls, report, told>>
  /\ UNCHANGED <<object, cut>>

\* Mutant of Validate: an hour that failed is not looked for.
ValidateNotFailed(p) ==
  /\ pc[p] = "check" /\ Go(p, "done")
  /\ report' = [report EXCEPT ![p] = [h \in HourSet |->
       IF @[h] \notin {"missing", "failed"} /\ file[h] = Absent THEN "absent" ELSE @[h]]]
  /\ UNCHANGED <<object, file, tmp, at, urls, open, error, told, cut, stolen>>

\* _validate_local_raw_hours: what is not there, but for what the archives do not have.
Validate(p) ==
  /\ pc[p] = "check" /\ Go(p, "done")
  /\ report' = [report EXCEPT ![p] = [h \in HourSet |->
       IF @[h] # "missing" /\ file[h] = Absent THEN "absent" ELSE @[h]]]
  /\ UNCHANGED <<object, file, tmp, at, urls, open, error, told, cut, stolen>>

\* The process is killed; its temporary file stays.
Killed(p) ==
  /\ "kill" \in RawFaults /\ Running(p) /\ Go(p, "dead")
  /\ open' = [open EXCEPT ![p] = NotOpen] /\ urls' = [urls EXCEPT ![p] = NoArchive]
  /\ UNCHANGED <<object, file, tmp, at, error, report, told, cut, stolen>>

Step(p) ==
  \/ Start(p) \/ Clean(p) \/ Look(p) \/ Rank(p) \/ Request(p) \/ GiveUp(p)
  \/ Read(p) \/ Replace(p) \/ Validate(p)

RawNext == Publish \/ \E p \in Procs : Step(p) \/ Broken(p) \/ Killed(p)

RawSpec == RawInit /\ [][RawNext]_vars
-----------------------------------------------------------------------------
(* Properties                                                              *)

Size == Nat \union {Absent}

\* The variables have their types: a process is at an hour of the window, and what it still
\* has to try are archives that are configured.
RawTypeOK ==
  /\ object \in [Range(Archives) -> [HourSet -> Size]]
  /\ file \in [HourSet -> Size] /\ told \in [HourSet -> Size]
  /\ tmp \in [HourSet \X Procs -> Size]
  /\ pc \in [Procs -> {"new", "clean", "look", "rank", "get", "read", "replace", "check", "done", "dead"}]
  /\ at \in [Procs -> DOMAIN Window]
  /\ DOMAIN urls = Procs /\ \A p \in Procs : DOMAIN urls[p] \subseteq Range(Archives)
  /\ open \in [Procs -> [size : Nat, rest : Nat]]
  /\ error \in [Procs -> {"none", "404", "other"}]
  /\ report \in [Procs -> [HourSet -> {"none", "existing", "downloaded", "missing", "failed", "absent"}]]
  /\ cut \subseteq HourSet /\ stolen \in BOOLEAN

\* Whatever broke and whoever was killed, a file under its final name is a whole object as
\* some archive had it, unless a connection ended early, which the code cannot see.
StoredWhole == \A h \in HourSet \ cut : file[h] = told[h]

\* A process never finds its temporary file swept away by another one.
OwnTmpKept == ~stolen

\* The summary of a run that ends says of every hour of the window what became of it: an
\* hour that is not on disk is reported as such, and one reported as there is there.
ReportTells ==
  \A p \in Procs : pc[p] = "done" => \A h \in HourSet :
    /\ report[p][h] # "none"
    /\ report[p][h] \in {"downloaded", "existing"} => file[h] # Absent
    /\ file[h] = Absent => report[p][h] \in {"missing", "absent"}
=============================================================================
