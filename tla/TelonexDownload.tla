-------------------------- MODULE TelonexDownload ---------------------------
(***************************************************************************)
(* The Telonex downloader (_run_jobs and download_telonex_days of          *)
(* scripts/_telonex_data_download.py) over the day store of TelonexStore.  *)
(*                                                                         *)
(* Three threads of control share the run: the main thread, which starts   *)
(* the others, joins the writer for at most a minute and closes the store; *)
(* the event loop, where a dispatcher keeps at most Concurrency download   *)
(* tasks going and hands their results to a bounded queue; and the writer  *)
(* thread, which takes the results off the queue and ingests them in       *)
(* batches.  A signal and a failed ingest both stop the run early.         *)
(***************************************************************************)
EXTENDS TelonexStore

CONSTANTS
  JobList,      (* the planned days, in order, without duplicates                 *)
  Concurrency,  (* workers: how many tasks are in flight at most                  *)
  QueueCap,     (* the size of result_queue                                       *)
  Answers,      (* day -> the ways its download may end                           *)
  RunFaults     (* "interrupt": a signal; "drain": the 15 s drain is not enough   *)

AnswerKinds == {"rows", "empty", "missing", "failed"}

ASSUME DownloadAssumption ==
  /\ JobList \in Seq(Days)
  /\ \A i, j \in DOMAIN JobList : JobList[i] = JobList[j] => i = j
  /\ Concurrency \in Nat \ {0} /\ QueueCap \in Nat \ {0}
  /\ Answers \in [Days -> SUBSET AnswerKinds]
  /\ RunFaults \subseteq {"interrupt", "drain"}

VARIABLES
  (* the main thread *)
  main,          (* "down", "run", "join", "close", "closing", "returned" or "raised" *)
  joined,        (* how the join of the writer ended: "done", "timeout" or "signal"    *)
  (* the event loop *)
  disp,          (* where the dispatcher is                                           *)
  jobs,          (* the jobs not launched yet                                         *)
  tasks,         (* in_flight: day -> how far its task is, or its result              *)
  handing,       (* results being handed to the writer                                *)
  quota,         (* how many tasks the finished ones make room for                    *)
  stop,          (* stop_event and async_stop                                         *)
  interrupted,
  (* the writer thread *)
  queue,         (* result_queue                                                      *)
  writer,        (* where the writer is                                               *)
  pending,       (* pending_for_commit; the batch it is ingesting                     *)
  writerFailed,
  (* the summary *)
  counted,       (* the days counted in each number of the summary                    *)
  launched,      (* the days of this run that got a task                              *)
  late           (* the days whose first request was sent after the stop was asked for *)

mainVars     == <<main, joined>>
dispVars     == <<disp, jobs, handing, quota>>
loopVars     == <<dispVars, tasks, interrupted>>
writerVars   == <<writer, pending, writerFailed>>
runVars      == <<mainVars, loopVars, stop, queue, writerVars, counted, launched, late>>
vars         == <<storeVars, runVars>>

Counts == {"downloaded", "missing", "failed", "cancelled"}
Finished == AnswerKinds \union {"cancelled"}

Nothing == [c \in Counts |-> {}]
Count(c, D) == counted' = [counted EXCEPT ![c] = @ \union D]

DownloadInit ==
  /\ Init
  /\ main = "down"
  /\ joined = "done" /\ disp = "exited" /\ jobs = <<>> /\ tasks = EmptyMap /\ handing = {}
  /\ quota = 0 /\ stop = FALSE /\ interrupted = FALSE /\ queue = <<>> /\ writer = "exited"
  /\ pending = <<>> /\ writerFailed = FALSE /\ counted = Nothing /\ launched = {}
  /\ late = {}
-----------------------------------------------------------------------------
(* The main thread                                                          *)

\* _prune_jobs_against_manifest: completed days are skipped, and days that were absent at
\* the vendor unless that was too long ago.
ToFetch(recheck) ==
  IF Overwrite THEN JobList
  ELSE Picked(JobList, {i \in DOMAIN JobList : JobList[i] \notin DOMAIN completedDays
                                                /\ JobList[i] \notin emptyDays \ recheck})

\* download_telonex_days opens the store, plans the jobs and starts the writer.
Start ==
  /\ main = "down" /\ Open
  /\ main' = "run" /\ disp' = "prime" /\ writer' = "loop"
  /\ \E recheck \in SUBSET emptyDays : jobs' = ToFetch(recheck)
  /\ UNCHANGED <<joined, tasks, handing, quota, stop, interrupted, queue, pending,
                 writerFailed, counted, launched, late>>

\* asyncio.run returns: writer_done is set.
DispatcherDone ==
  /\ main = "run" /\ disp = "exited"
  /\ main' = "join"
  /\ UNCHANGED <<storeVars, joined, loopVars, stop, queue, writerVars, counted, launched, late>>

\* The writer is joined.
Join ==
  /\ main = "join" /\ writer = "exited"
  /\ main' = "close"
  /\ UNCHANGED <<storeVars, joined, loopVars, stop, queue, writerVars, counted, launched, late>>

\* The join times out, or a signal raises KeyboardInterrupt in it: the writer lives on.
JoinGivenUp ==
  /\ main = "join" /\ writer # "exited" /\ "late" \in Faults
  /\ main' = "close"
  /\ joined' \in {"timeout"} \union (IF "interrupt" \in RunFaults THEN {"signal"} ELSE {})
  /\ UNCHANGED <<storeVars, loopVars, stop, queue, writerVars, counted, launched, late>>

MainCloses ==
  /\ main = "close" /\ BeginClose
  /\ main' = "closing"
  /\ UNCHANGED <<joined, loopVars, stop, queue, writerVars, counted, launched, late>>

\* The summary is returned, unless an exception is raised.
CloseReturns ==
  /\ main = "closing" /\ call = "close" /\ Return
  /\ main' = IF joined = "signal" \/ outcome = "raised" THEN "raised" ELSE "returned"
  /\ UNCHANGED <<joined, loopVars, stop, queue, writerVars, counted, launched, late>>

\* The process ends, or is killed; the daemon threads with it.
End ==
  /\ main \in {"returned", "raised"} \/ "kill" \in Faults
  /\ Exit
  /\ main' = "down"
  /\ joined' = "done" /\ disp' = "exited" /\ jobs' = <<>> /\ tasks' = EmptyMap /\ handing' = {}
  /\ quota' = 0 /\ stop' = FALSE /\ interrupted' = FALSE /\ queue' = <<>> /\ writer' = "exited"
  /\ pending' = <<>> /\ writerFailed' = FALSE /\ counted' = Nothing /\ launched' = {}
  /\ late' = {}
-----------------------------------------------------------------------------
(* The event loop: tasks                                                    *)

SetTask(d, s) == tasks' = [tasks EXCEPT ![d] = s]

\* The event loop is inside a task that has looked at the stop request for the last time and
\* sends its request now: nothing is awaited in between.
InTask == \E d \in DOMAIN tasks : tasks[d] = "checked"

\* Mutant of BeginTask: the stop request is not looked at.
BeginTaskAnyway(d) ==
  /\ d \in DOMAIN tasks /\ tasks[d] = "new"
  /\ SetTask(d, "checked") /\ UNCHANGED counted
  /\ UNCHANGED <<storeVars, mainVars, dispVars, interrupted, stop, queue, writerVars, launched, late>>

\* _do_one_async begins.
BeginTask(d) ==
  /\ d \in DOMAIN tasks /\ tasks[d] = "new"
  /\ \/ stop /\ SetTask(d, "cancelled") /\ Count("cancelled", {d})
     \/ ~stop /\ SetTask(d, "checked") /\ UNCHANGED counted
  /\ UNCHANGED <<storeVars, mainVars, dispVars, interrupted, stop, queue, writerVars, launched, late>>

\* It sends its first request, also when the writer thread has asked for the stop since the check.
RequestDay(d) ==
  /\ d \in DOMAIN tasks /\ tasks[d] = "checked"
  /\ SetTask(d, "fetching")
  /\ late' = IF stop THEN late \union {d} ELSE late
  /\ UNCHANGED <<storeVars, mainVars, dispVars, interrupted, stop, queue, writerVars, counted,
                 launched>>

\* How a download may end, its retries and its total timeout included: with a payload to
\* parse, a 404 or an error, or by giving up when it sees the stop request.
FetchOutcomes(d) ==
  {IF a \in {"rows", "empty"} THEN "parsing" ELSE a : a \in Answers[d]}
    \union (IF stop THEN {"cancelled"} ELSE {})

\* What _do_one_async does then.
FetchEnds(d) ==
  /\ d \in DOMAIN tasks /\ tasks[d] = "fetching"
  /\ \E s \in FetchOutcomes(d) :
       /\ SetTask(d, s)
       /\ IF s \in {"failed", "cancelled"} THEN Count(s, {d}) ELSE UNCHANGED counted
  /\ UNCHANGED <<storeVars, mainVars, dispVars, interrupted, stop, queue, writerVars, launched, late>>

\* The payload is decoded in the parse pool.
ParseEnds(d) ==
  /\ d \in DOMAIN tasks /\ tasks[d] = "parsing"
  /\ \/ \E got \in {"rows", "empty"} \intersect Answers[d] : SetTask(d, got) /\ UNCHANGED counted
     \/ "failed" \in Answers[d] /\ SetTask(d, "failed") /\ Count("failed", {d})
  /\ UNCHANGED <<storeVars, mainVars, dispVars, interrupted, stop, queue, writerVars, launched, late>>

\* The tasks run while the dispatcher awaits, one at a time.
TaskStep(d) ==
  /\ disp \in {"waiting", "handoff"}
  /\ \/ RequestDay(d)
     \/ ~InTask /\ (BeginTask(d) \/ FetchEnds(d) \/ ParseEnds(d))

-----------------------------------------------------------------------------
(* The event loop: the dispatcher                                           *)

\* The next jobs become tasks.
Launch(n) ==
  LET m == IF n <= Len(jobs) THEN n ELSE Len(jobs)
      J == {jobs[i] : i \in 1 .. m}
  IN  /\ tasks' = [d \in DOMAIN tasks \union J |-> IF d \in J THEN "new" ELSE tasks[d]]
      /\ jobs' = SubSeq(jobs, m + 1, Len(jobs))
      /\ launched' = launched \union J

\* The first tasks.
Prime ==
  /\ disp = "prime"
  /\ Launch(Concurrency)
  /\ disp' = "head"
  /\ UNCHANGED <<storeVars, mainVars, handing, quota, stop, interrupted, queue, writerVars, counted,
                 late>>

\* while in_flight: ...
LoopHead ==
  /\ disp = "head"
  /\ disp' = IF DOMAIN tasks = {} THEN "exited"
             ELSE IF stop \/ writerFailed THEN "cancel" ELSE "waiting"
  /\ UNCHANGED <<storeVars, mainVars, jobs, tasks, handing, quota, stop, interrupted, queue,
                 writerVars, counted, launched, late>>

Done == {d \in DOMAIN tasks : tasks[d] \in Finished}

\* asyncio.wait returns the finished tasks.  It times out every second, which matters
\* when nothing is finished and the run is to stop.
WaitReturns ==
  /\ disp = "waiting"
  /\ Done # {} \/ stop \/ writerFailed
  /\ handing' = {[day |-> d, got |-> tasks[d]] : d \in Done} /\ quota' = Cardinality(Done)
  /\ tasks' = Restrict(tasks, DOMAIN tasks \ Done)
  /\ disp' = "handoff"
  /\ UNCHANGED <<storeVars, mainVars, jobs, stop, interrupted, queue, writerVars, counted,
                 launched, late>>

\* Mutant of HandOff: the failed writer is not noticed.
HandOffToWriter(r) == Len(queue) < QueueCap /\ queue' = Append(queue, r)

\* _handoff: a full queue is polled; when the writer has failed the result is dropped.
HandOff(r) ==
  \/ writerFailed /\ UNCHANGED queue
  \/ ~writerFailed /\ Len(queue) < QueueCap /\ queue' = Append(queue, r)

HandOffNext ==
  /\ disp \in {"handoff", "handoff_drained"}
  /\ \E r \in handing : HandOff(r) /\ handing' = handing \ {r}
  /\ UNCHANGED <<storeVars, mainVars, disp, jobs, tasks, quota, stop, interrupted, writerVars,
                 counted, launched, late>>

\* All are handed off; the stop request is looked at once for all new tasks.
HandedOff ==
  /\ handing = {}
  /\ \/ disp = "handoff" /\ disp' = IF stop THEN "head" ELSE "launch"
     \/ disp = "handoff_drained" /\ disp' = "exited"
  /\ UNCHANGED <<storeVars, mainVars, jobs, tasks, handing, quota, stop, interrupted, queue,
                 writerVars, counted, launched, late>>

\* Room is made use of.
LaunchMore ==
  /\ disp = "launch"
  /\ Launch(quota)
  /\ disp' = "head"
  /\ UNCHANGED <<storeVars, mainVars, handing, quota, stop, interrupted, queue, writerVars, counted,
                 late>>

\* The tasks in flight are cancelled: a download counts itself cancelled, a task that has
\* not begun or is parsing ends with CancelledError and is in no number of the summary.
AfterCancel(s) == IF s = "fetching" THEN "cancelled"
                  ELSE IF s \in {"new", "parsing"} THEN "lost" ELSE s

\* They are awaited, for 15 s, and what they return is handed off.
CancelAndDrain ==
  /\ disp = "cancel"
  /\ Count("cancelled", {d \in DOMAIN tasks : tasks[d] = "fetching"})
  /\ tasks' = EmptyMap
  /\ \/ handing' = {[day |-> d, got |-> AfterCancel(tasks[d])] :
                       d \in {e \in DOMAIN tasks : AfterCancel(tasks[e]) # "lost"}}
     \/ "drain" \in RunFaults /\ handing' = {}
  /\ disp' = "handoff_drained"
  /\ UNCHANGED <<storeVars, mainVars, jobs, quota, stop, interrupted, queue, writerVars, launched,
                 late>>

\* _async_stop_signal, a callback of the event loop.
Interrupt ==
  /\ "interrupt" \in RunFaults /\ ~InTask
  /\ main = "run" /\ disp # "exited" /\ ~stop
  /\ stop' = TRUE /\ interrupted' = TRUE
  /\ UNCHANGED <<storeVars, mainVars, dispVars, tasks, queue, writerVars, counted, launched, late>>

Dispatcher ==
  /\ ~InTask
  /\ Prime \/ LoopHead \/ WaitReturns \/ HandOffNext \/ HandedOff \/ LaunchMore \/ CancelAndDrain
-----------------------------------------------------------------------------
(* The writer thread                                                        *)

\* The results that go to the store: status "ok" or "missing".
Keeps(r) == r.got \in {"rows", "empty", "missing"}

\* The next result is taken, and pending_for_commit flushed when it has rows enough or is
\* old enough.
WriterTakes ==
  /\ writer = "loop" /\ ~writerFailed /\ queue # <<>>
  /\ queue' = Tail(queue)
  /\ \/ /\ Keeps(Head(queue))
        /\ pending' = Append(pending, Head(queue))
        /\ writer' \in {"loop", "flush"}
     \/ ~Keeps(Head(queue)) /\ UNCHANGED <<writer, pending>>
  /\ UNCHANGED <<storeVars, mainVars, loopVars, stop, writerFailed, counted, launched, late>>

\* Nothing comes for a while.
WriterIdles ==
  /\ writer = "loop" /\ ~writerFailed /\ queue = <<>> /\ pending # <<>>
  /\ writer' = "flush"
  /\ UNCHANGED <<storeVars, mainVars, loopVars, stop, queue, pending, writerFailed, counted,
                 launched, late>>

\* Mutant of LoopOver: the writer leaves what is still in the queue.
LoopOverAtDone == writerFailed \/ main # "run"

\* The condition of the writer's loop, negated.
LoopOver == writerFailed \/ (main # "run" /\ queue = <<>>)

\* The loop ends; what is pending is flushed.
WriterLeaves ==
  /\ writer = "loop" /\ LoopOver
  /\ writer' = IF pending = <<>> THEN "exited" ELSE "last_flush"
  /\ UNCHANGED <<storeVars, mainVars, loopVars, stop, queue, pending, writerFailed, counted,
                 launched, late>>

\* _flush_pending calls ingest_batch.
WriterIngests ==
  /\ writer \in {"flush", "last_flush"}
  /\ BeginIngest(BatchOf(pending))
  /\ writer' = IF writer = "flush" THEN "ingest" ELSE "last_ingest"
  /\ UNCHANGED <<mainVars, loopVars, stop, queue, pending, writerFailed, counted, launched, late>>

PendingDays(kinds) == {pending[i].day : i \in {j \in DOMAIN pending : pending[j].got \in kinds}}

\* Mutant of Emptied: the batch is not taken off the list.
EmptiedNot == UNCHANGED pending

Emptied == pending' = <<>>

\* ingest_batch returns: its days are counted.
IngestReturns ==
  /\ writer \in {"ingest", "last_ingest"} /\ call = "ingest" /\ outcome = "ok" /\ Return
  /\ counted' = [counted EXCEPT !["downloaded"] = @ \union PendingDays({"rows", "empty"}),
                                !["missing"] = @ \union PendingDays({"missing"})]
  /\ Emptied
  /\ writer' = IF writer = "ingest" THEN "loop" ELSE "exited"
  /\ UNCHANGED <<mainVars, loopVars, stop, queue, writerFailed, launched, late>>

\* ingest_batch raises: its days are counted as failed.
IngestRaises ==
  /\ writer \in {"ingest", "last_ingest"} /\ call = "ingest" /\ outcome = "raised" /\ Return
  /\ Count("failed", {pending[i].day : i \in DOMAIN pending})
  /\ Emptied
  /\ writerFailed' = TRUE
  /\ writer' = "failing"
  /\ UNCHANGED <<mainVars, loopVars, stop, queue, launched, late>>

\* ... and the run is stopped.
WriterStopsRun ==
  /\ writer = "failing"
  /\ stop' = TRUE
  /\ writer' = "loop"
  /\ UNCHANGED <<storeVars, mainVars, loopVars, queue, pending, writerFailed, counted, launched,
                 late>>

Writer ==
  \/ WriterTakes \/ WriterIdles \/ WriterLeaves \/ WriterIngests
  \/ IngestReturns \/ IngestRaises \/ WriterStopsRun
-----------------------------------------------------------------------------
Main == DispatcherDone \/ Join \/ JoinGivenUp \/ MainCloses \/ CloseReturns

InStore == StoreStep /\ UNCHANGED runVars

DownloadNext ==
  \/ Start \/ Main \/ End
  \/ \E d \in Days : TaskStep(d)
  \/ Dispatcher \/ Interrupt
  \/ Writer \/ InStore

\* Every thread runs: a download ends by its total timeout at the latest, the calls of the
\* store return, and the threads are scheduled.
Fairness ==
  /\ \A d \in Days : WF_vars(TaskStep(d))
  /\ WF_vars(Dispatcher) /\ WF_vars(Writer) /\ WF_vars(InStore)
  /\ WF_vars(Main)

DownloadSpec == DownloadInit /\ [][DownloadNext]_vars /\ Fairness
-----------------------------------------------------------------------------
(* Properties                                                               *)

\* A day is in one number of the summary at most, whatever stops the run and when.
CountedOnce ==
  \A a, b \in Counts : a # b => counted[a] \intersect counted[b] = {}

\* No day is counted twice, and the summary of a run that was neither interrupted nor in
\* trouble, and whose writer ended in time, is what the manifest says of its days: no result is
\* lost between the tasks, the queue, the pending list and the store.  A day that failed is as
\* the manifest had it before: absent at the vendor, or completed when it was to be overwritten.
SummaryAgrees ==
  /\ CountedOnce
  /\ main = "returned" /\ joined = "done" /\ ~interrupted /\ ~troubled =>
      LET answered == launched \ counted["failed"]
      IN  /\ answered = counted["downloaded"] \union counted["missing"]
          /\ counted["downloaded"] = answered \intersect DOMAIN completedDays
          /\ counted["missing"] = answered \intersect emptyDays
          /\ Overwrite \/ counted["failed"] \intersect DOMAIN completedDays = {}
          /\ counted["cancelled"] = {} /\ jobs = <<>>

\* Once the run is to stop, one download begins at most: the one whose task had looked at the stop
\* request and had not sent its request yet when the writer thread asked for the stop.  No task that
\* waits, and none that the dispatcher is about to launch, sends one after that.
OneFetchAfterStop == Cardinality(late) <= 1

\* Every run ends, also when the queue is full and its only reader has failed.
RunEnds == main = "run" ~> main \in {"returned", "raised", "down"}

\* The downloader uses the store as TelonexStore assumes of its callers, so that what is
\* proved and checked of the store there holds here.
StoreUsedAsAllowed ==
  [][call = "none" /\ call' = "ingest" => Allowed(batch')]_vars
=============================================================================
