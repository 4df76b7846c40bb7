---------------------------- MODULE TelonexStore ----------------------------
(***************************************************************************)
(* The Telonex day store (_TelonexParquetStore of                          *)
(* scripts/_telonex_data_download.py).                                     *)
(*                                                                         *)
(* Rows are appended to one open Parquet part per (channel, year, month);  *)
(* a part becomes readable when it is closed, and only then are its days   *)
(* entered in the DuckDB manifest, in one transaction.  A part the         *)
(* manifest does not name is an orphan, swept when the store is opened and *)
(* when it is closed.                                                      *)
(*                                                                         *)
(* An operation holds the store's lock from its first step to its last;    *)
(* the steps it does under the lock are separate actions here because each *)
(* may raise, and the process may be killed between any two.  What a kill  *)
(* leaves is on disk: files, completedDays and emptyDays.                  *)
(***************************************************************************)
EXTENDS Naturals, Sequences, FiniteSets, FiniteSetsExt, Functions, Lists

CONSTANTS
  Days,         (* the (channel, market, outcome, day) keys                      *)
  Partitions,   (* the (channel, year, month) keys                               *)
  PartitionOf,  (* day -> its partition                                          *)
  Batches,      (* the result batches that may be given to ingest_batch          *)
  RollDays,     (* _TARGET_PART_PENDING_DAYS                                     *)
  MaxPart,      (* bound on the part numbers                                     *)
  Overwrite,    (* --overwrite: completed days are ingested again                *)
  Faults        (* what may go wrong, a subset of FaultKinds                     *)

\* A write, close or commit that raises; the process killed; a batch ingested after close.
FaultKinds == {"write", "close", "commit", "kill", "late"}

\* A downloaded day: with rows, without rows ("empty": an ok download of no rows), or a 404.
Result == [day: Days, got: {"rows", "empty", "missing"}]

\* The results of a batch, sorted out: the days with rows by partition, and the others.
Group == [k : Partitions, days : Seq(Days)]
Batch == [groups : Seq(Group), empty : SUBSET Days, missing : SUBSET Days]

ASSUME StoreAssumption ==
  /\ PartitionOf \in [Days -> Partitions]
  /\ Batches \subseteq Batch
  /\ RollDays \in Nat \ {0}
  /\ MaxPart \in Nat
  /\ Overwrite \in BOOLEAN
  /\ Faults \subseteq FaultKinds

Part == Partitions \X Nat        \* channel=../year=../month=../part-NNNNNN.parquet
NoPart == <<>>                   \* parquet_part IS NULL

VARIABLES
  (* on disk *)
  files,          (* the existing parts: closed (has its footer), rows (one day per table) *)
  completedDays,  (* the manifest: day -> the part that holds it, or NoPart                *)
  emptyDays,      (* the manifest: days the vendor answered 404 for                        *)
  (* in memory *)
  state,          (* "down", "open" or "closed"                                            *)
  writers,        (* _writers: partition -> its open part and the days awaiting a commit   *)
  call,           (* the operation that holds the lock: "none", "ingest" or "close"        *)
  steps,          (* what is left of it, first step first                                  *)
  committing,     (* a part just closed whose days are about to be committed, if any       *)
  (* history, read by properties and by the callers *)
  batch,          (* days of the latest batch                                              *)
  outcome,        (* how the latest operation ended: "none", "ok" or "raised"              *)
  taken,          (* days given to ingest_batch since the store was opened                 *)
  promised,       (* days of the batches whose ingest_batch returned normally              *)
  troubled,       (* an operation has raised since the store was opened                    *)
  recorded        (* days entered in the manifest since the latest batch was begun         *)

diskVars    == <<files, completedDays, emptyDays>>
lockVars    == <<call, steps, committing>>
historyVars == <<batch, outcome, taken, promised, troubled, recorded>>
storeVars   == <<diskVars, state, writers, lockVars, historyVars>>

Step ==
  [do : {"append"}, k : Partitions, days : Seq(Days)]
    \union [do : {"flush"}, k : Partitions]
    \union [do : {"empty", "missing"}, days : SUBSET Days]
    \union [do : {"flush_all", "sweep"}]
OpenPart == [part : Part, pending : Seq(Days)]

EmptyMap == [k \in {} |-> <<>>]

Init ==
  /\ files = EmptyMap /\ completedDays = EmptyMap /\ emptyDays = {}
  /\ state = "down" /\ writers = EmptyMap
  /\ call = "none" /\ steps = <<>> /\ committing = {}
  /\ batch = {} /\ outcome = "none" /\ taken = {} /\ promised = {}
  /\ troubled = FALSE /\ recorded = {}
-----------------------------------------------------------------------------
(* The steps of an operation                                               *)

With(f, x, v) == [y \in DOMAIN f \union {x} |-> IF y = x THEN v ELSE f[y]]
Without(f, x) == Restrict(f, DOMAIN f \ {x})

DaysIn(s) == {s[i] : i \in DOMAIN s}

Write(group)  == [do |-> "append", k |-> group.k, days |-> group.days]
Flush(k)      == [do |-> "flush", k |-> k]
Record(do, D) == [do |-> do, days |-> D]
FlushAll      == [do |-> "flush_all"]
Sweep         == [do |-> "sweep"]

\* The days with rows grouped by partition, the partition met first going first.
Groups(ds) ==
  LET place(i) == PartitionOf[ds[i]]
      firsts == Picked([i \in DOMAIN ds |-> i], {i \in DOMAIN ds : \A j \in 1 .. i - 1 : place(j) # place(i)})
  IN  [n \in DOMAIN firsts |->
         [k |-> place(firsts[n]), days |-> Picked(ds, {i \in DOMAIN ds : place(i) = place(firsts[n])})]]

\* ingest_batch sorts out the results it is given.
BatchOf(results) ==
  LET of(got) == {i \in DOMAIN results : results[i].got = got}
      rows == Picked(results, of("rows"))
  IN  [groups  |-> Groups([i \in DOMAIN rows |-> rows[i].day]),
       empty   |-> {results[i].day : i \in of("empty")},
       missing |-> {results[i].day : i \in of("missing")}]

DaysOf(b) ==
  (UNION {DaysIn(b.groups[i].days) : i \in DOMAIN b.groups}) \union b.empty \union b.missing

\* A transaction over no days is not begun.
Unless(D, step) == IF D = {} THEN <<>> ELSE <<step>>

IngestSteps(b) ==
  [i \in DOMAIN b.groups |-> Write(b.groups[i])]
    \o Unless(b.empty, Record("empty", b.empty))
    \o Unless(b.missing, Record("missing", b.missing))

\* The parts that some completed day names.
Referenced == {completedDays[d] : d \in DOMAIN completedDays}

\* Mutant of Swept: only the unreadable parts are removed.
SweptUnreadable == Restrict(files, {p \in DOMAIN files : files[p].closed})

\* _remove_orphan_parts
Swept == Restrict(files, DOMAIN files \intersect Referenced)

\* Mutants of NextPart: the parts are counted; the largest number is not counted up.
NextPartByCount(k) == <<k, Cardinality({p \in DOMAIN files : p[1] = k})>>

\* _next_part_number: one above the largest number on disk.
NextPart(k) ==
  LET numbers == {p[2] : p \in {q \in DOMAIN files : q[1] = k}}
  IN  <<k, IF numbers = {} THEN 0 ELSE Max(numbers) + 1>>

Raise == steps' = <<>> /\ outcome' = "raised" /\ troubled' = TRUE

At(do) == steps # <<>> /\ committing = {} /\ Head(steps).do = do

\* Mutant of OpenSweep: the parts found at startup are left alone.
OpenUnswept == UNCHANGED files

\* What __init__ does to the parts a killed process left.
OpenSweep == files' = Swept

\* __init__
Open ==
  /\ state = "down"
  /\ state' = "open"
  /\ OpenSweep
  /\ taken' = {} /\ promised' = {} /\ troubled' = FALSE /\ outcome' = "none"
  /\ UNCHANGED <<completedDays, emptyDays, writers, lockVars, batch, recorded>>

\* ingest_batch takes the lock.  Nothing stops it when the store is closed already.
BeginIngest(b) ==
  /\ call = "none"
  /\ state \in {"open", "closed"}
  /\ call' = "ingest" /\ steps' = IngestSteps(b)
  /\ batch' = DaysOf(b)
  /\ taken' = taken \union DaysOf(b)
  /\ outcome' = "ok" /\ recorded' = {}
  /\ UNCHANGED <<diskVars, state, writers, committing, promised, troubled>>

\* close takes the lock.
BeginClose ==
  /\ call = "none" /\ state = "open"
  /\ call' = "close" /\ steps' = <<FlushAll, Sweep>>
  /\ outcome' = "ok"
  /\ UNCHANGED <<diskVars, state, writers, committing, batch, taken, promised, troubled, recorded>>

\* Whether a part is rolled after a write: always when enough days are pending, and
\* when its bytes say so, which the days do not tell.
Rolls(pending) == IF Len(pending) >= RollDays THEN {TRUE} ELSE BOOLEAN

\* The open part of a partition, or a new one.
PartOf(k)    == IF k \in DOMAIN writers THEN writers[k].part ELSE NextPart(k)
PendingOf(k) == IF k \in DOMAIN writers THEN writers[k].pending ELSE <<>>
RowsOf(k)    == IF k \in DOMAIN writers THEN files[writers[k].part].rows ELSE <<>>

\* _write_partition_table_locked: one table holds the days of a group.
AppendGroup ==
  /\ At("append")
  /\ LET k       == Head(steps).k
         ds      == Head(steps).days
         p       == PartOf(k)
         pending == PendingOf(k) \o ds
     IN /\ p[2] <= MaxPart
        /\ files' = With(files, p, [closed |-> FALSE, rows |-> RowsOf(k) \o ds])
        /\ writers' = With(writers, k, [part |-> p, pending |-> pending])
        /\ \E roll \in Rolls(pending) :
             steps' = (IF roll THEN <<Flush(k)>> ELSE <<>>) \o Tail(steps)
  /\ UNCHANGED <<completedDays, emptyDays, state, call, committing, historyVars>>

\* write_table raises: the part stays open (it is new when there was none).
AppendFails ==
  /\ At("append") /\ "write" \in Faults
  /\ LET k == Head(steps).k
         p == PartOf(k)
     IN /\ p[2] <= MaxPart
        /\ files' = With(files, p, [closed |-> FALSE, rows |-> RowsOf(k)])
        /\ writers' = With(writers, k, [part |-> p, pending |-> PendingOf(k)])
  /\ Raise
  /\ UNCHANGED <<completedDays, emptyDays, state, call, committing, batch, taken, promised, recorded>>

\* _append_to_partition: tables that do not concatenate are written one by one.
SplitGroup ==
  /\ At("append") /\ Len(Head(steps).days) > 1
  /\ LET group == Head(steps)
     IN  steps' = [i \in DOMAIN group.days |->
                     [do |-> "append", k |-> group.k, days |-> <<group.days[i]>>]]
                 \o Tail(steps)
  /\ UNCHANGED <<diskVars, state, writers, call, committing, historyVars>>

\* The open part cannot take the table's schema: it is rolled first.
RollForSchema ==
  /\ At("append") /\ Head(steps).k \in DOMAIN writers
  /\ steps' = <<Flush(Head(steps).k)>> \o steps
  /\ UNCHANGED <<diskVars, state, writers, call, committing, historyVars>>

\* _flush_open_part_locked, up to the manifest: the part leaves _writers and is closed.
\* A part nothing was committed to is deleted.
ClosePart ==
  /\ At("flush")
  /\ LET k    == Head(steps).k
         part == writers[k].part
     IN /\ k \in DOMAIN writers
        /\ writers' = Without(writers, k)
        /\ \/ /\ writers[k].pending = <<>>
              /\ files' = Without(files, part)
              /\ UNCHANGED committing
           \/ /\ writers[k].pending # <<>>
              /\ files' = [files EXCEPT ![part].closed = TRUE]
              /\ committing' = {writers[k]}
  /\ steps' = Tail(steps)
  /\ UNCHANGED <<completedDays, emptyDays, state, call, historyVars>>

\* writer.close() raises: the file is deleted, its days are gone with it.
ClosePartFails ==
  /\ At("flush") /\ "close" \in Faults
  /\ Head(steps).k \in DOMAIN writers
  /\ writers' = Without(writers, Head(steps).k)
  /\ files' = Without(files, writers[Head(steps).k].part)
  /\ Raise
  /\ UNCHANGED <<completedDays, emptyDays, state, call, committing, batch, taken, promised, recorded>>

\* INSERT OR REPLACE INTO completed_days for every day of D.
Complete(D, part) ==
  completedDays' = [d \in DOMAIN completedDays \union D |->
                      IF d \in D THEN part ELSE completedDays[d]]

\* Mutant of CommitPart: the latest of the days is left out.
CommitPartButLast ==
  /\ state = "open"
  /\ \E c \in committing : LET D == DaysIn(SubSeq(c.pending, 1, Len(c.pending) - 1))
                           IN  /\ Complete(D, c.part)
                               /\ emptyDays' = emptyDays \ D
                               /\ recorded' = recorded \union D
  /\ committing' = {}
  /\ UNCHANGED <<files, state, writers, call, steps, batch, outcome, taken, promised, troubled>>

\* The rest of _flush_open_part_locked: one transaction enters the part's days.
CommitPart ==
  /\ state = "open"
  /\ \E c \in committing : LET D == DaysIn(c.pending)
                           IN  /\ Complete(D, c.part)
                               /\ emptyDays' = emptyDays \ D
                               /\ recorded' = recorded \union D
  /\ committing' = {}
  /\ UNCHANGED <<files, state, writers, call, steps, batch, outcome, taken, promised, troubled>>

\* The transaction raises and is rolled back; on a closed manifest it cannot even begin.
CommitFails ==
  /\ "commit" \in Faults \/ state = "closed"
  /\ committing # {}
  /\ committing' = {}
  /\ Raise
  /\ UNCHANGED <<diskVars, state, writers, call, batch, taken, promised, recorded>>

\* The transaction that enters the days downloaded without rows.
RecordEmpty ==
  /\ At("empty") /\ state = "open"
  /\ LET D == Head(steps).days
     IN  /\ Complete(D, NoPart)
         /\ emptyDays' = emptyDays \ D
         /\ recorded' = recorded \union D
  /\ steps' = Tail(steps)
  /\ UNCHANGED <<files, state, writers, call, committing, batch, outcome, taken, promised, troubled>>

\* The transaction that enters the days the vendor does not have.
RecordMissing ==
  /\ At("missing") /\ state = "open"
  /\ LET D == Head(steps).days
     IN  /\ completedDays' = Restrict(completedDays, DOMAIN completedDays \ D)
         /\ emptyDays' = emptyDays \union D
         /\ recorded' = recorded \union D
  /\ steps' = Tail(steps)
  /\ UNCHANGED <<files, state, writers, call, committing, batch, outcome, taken, promised, troubled>>

RecordFails ==
  /\ At("empty") \/ At("missing")
  /\ "commit" \in Faults \/ state = "closed"
  /\ Raise
  /\ UNCHANGED <<diskVars, state, writers, call, committing, batch, taken, promised, recorded>>

\* close: every open part is flushed ...
FlushNext ==
  /\ At("flush_all")
  /\ \/ \E k \in DOMAIN writers : steps' = <<Flush(k)>> \o steps
     \/ DOMAIN writers = {} /\ steps' = Tail(steps)
  /\ UNCHANGED <<diskVars, state, writers, call, committing, historyVars>>

\* ... then the orphans are swept and the manifest is closed.
SweepAndClose ==
  /\ At("sweep")
  /\ files' = Swept
  /\ state' = "closed"
  /\ steps' = Tail(steps)
  /\ UNCHANGED <<completedDays, emptyDays, writers, call, committing, historyVars>>

\* The operation ends, normally or by raising, and the lock is released.
Return ==
  /\ call # "none" /\ steps = <<>> /\ committing = {}
  /\ call' = "none"
  /\ promised' = IF call = "ingest" /\ outcome = "ok" THEN promised \union batch ELSE promised
  /\ UNCHANGED <<diskVars, state, writers, steps, committing, batch, outcome, taken, troubled, recorded>>

\* The process ends, at any point when it is killed; what it had in memory is gone.
Exit ==
  /\ state # "down"
  /\ "kill" \in Faults \/ call = "none"
  /\ state' = "down"
  /\ writers' = EmptyMap
  /\ call' = "none" /\ steps' = <<>> /\ committing' = {}
  /\ UNCHANGED <<diskVars, historyVars>>

StoreStep ==
  \/ AppendGroup \/ AppendFails \/ SplitGroup \/ RollForSchema
  \/ ClosePart \/ ClosePartFails \/ CommitPart \/ CommitFails
  \/ RecordEmpty \/ RecordMissing \/ RecordFails
  \/ FlushNext \/ SweepAndClose

-----------------------------------------------------------------------------
(* The store with a caller that does what the downloader does: a day is    *)
(* ingested once per process, and not at all when the manifest has it,     *)
(* unless it overwrites.  A 404 may be checked again.                      *)

Allowed(D) ==
  /\ D \intersect taken = {}
  /\ Overwrite \/ D \intersect DOMAIN completedDays = {}
  /\ state = "closed" => "late" \in Faults

Next ==
  \/ Open
  \/ \E b \in Batches : Allowed(DaysOf(b)) /\ BeginIngest(b)
  \/ BeginClose
  \/ StoreStep
  \/ Return
  \/ Exit

Spec == Init /\ [][Next]_storeVars
-----------------------------------------------------------------------------
(* Properties                                                              *)

Readable(p) == p \in DOMAIN files /\ files[p].closed

DiskOK ==
  /\ DOMAIN files \subseteq Part
  /\ \A p \in DOMAIN files : files[p] \in [closed : BOOLEAN, rows : Seq(Days)]
  /\ DOMAIN completedDays \subseteq Days
  /\ \A d \in DOMAIN completedDays : completedDays[d] \in Part \union {NoPart}
  /\ emptyDays \subseteq Days
MemoryOK ==
  /\ state \in {"down", "open", "closed"}
  /\ DOMAIN writers \subseteq Partitions
  /\ \A k \in DOMAIN writers : writers[k] \in OpenPart
  /\ committing \subseteq OpenPart
LockOK ==
  /\ call \in {"none", "ingest", "close"}
  /\ steps \in Seq(Step)
  /\ call = "none" => steps = <<>> /\ committing = {}
  /\ state = "down" => call = "none" /\ DOMAIN writers = {}
HistoryOK ==
  /\ batch \subseteq Days /\ taken \subseteq Days /\ promised \subseteq Days /\ recorded \subseteq Days
  /\ outcome \in {"none", "ok", "raised"} /\ troubled \in BOOLEAN

\* The store's variables have their types: part numbers are natural numbers, nothing is
\* left to do when nobody holds the lock, and no part is open when the process is down.
TypeOK == DiskOK /\ MemoryOK /\ LockOK /\ HistoryOK

\* Every day the manifest says is stored in a part is in that part, and the part can be
\* read: through failed operations, kills between any two steps, sweeps and renumberings.
ManifestBacked ==
  \A d \in DOMAIN completedDays :
    completedDays[d] # NoPart => /\ Readable(completedDays[d])
                                 /\ d \in DaysIn(files[completedDays[d]].rows)

\* A running process has no unreadable part but those it is writing: what earlier
\* processes left half written was swept when the store was opened.
UnreadableOnlyOpen ==
  state # "down" => \A p \in DOMAIN files :
                      Readable(p) \/ \E k \in DOMAIN writers : writers[k].part = p

\* The number of tables a reader of all the parts finds for a day.
Copies(d) ==
  LET places == UNION {{<<p, i>> : i \in DOMAIN files[p].rows} : p \in DOMAIN files}
  IN  Cardinality({place \in places : files[place[1]].rows[place[2]] = d})

Closed == state = "closed" /\ call = "none"

\* In a closed store the parts hold the completed days that have rows, each once, and
\* nothing else: readers take every part, whatever the manifest says.
PartsAgreeWithManifest ==
  Closed => \A d \in Days :
    Copies(d) = IF d \in DOMAIN completedDays /\ completedDays[d] # NoPart THEN 1 ELSE 0

\* The days a reader finds where the manifest says they are.
StoredDays ==
  {d \in DOMAIN completedDays :
     \/ completedDays[d] = NoPart
     \/ /\ Readable(completedDays[d])
        /\ d \in DaysIn(files[completedDays[d]].rows)}

\* What awaits recording: the days written to the part of each partition, and those of the
\* transactions the batch has still to do.
Gathered ==
  [k \in Partitions |->
     DaysIn(PendingOf(k)) \union UNION {DaysIn(c.pending) : c \in {e \in committing : e.part[1] = k}}]

StepDays(s, do) == {d \in Days : \E i \in DOMAIN s : s[i].do = do /\ d \in s[i].days}

Ledger == INSTANCE DayLedger WITH
            stored <- StoredDays, absent <- emptyDays, parts <- Gathered,
            empty <- StepDays(steps, "empty"), missing <- StepDays(steps, "missing")

\* The store implements the day ledger: through failures, kills and sweeps the days of a part, and
\* those of each transaction of a batch, are recorded or lost together, and what is recorded stays
\* so; a day counts as stored only while a reader finds its rows where the manifest says they are.
LedgerSpec == Ledger!Spec
=============================================================================
