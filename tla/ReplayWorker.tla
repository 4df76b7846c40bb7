---------------------------- MODULE ReplayWorker ----------------------------
(***************************************************************************)
(* _isolated_replay_runner.py, and the same protocol in _optimizer.py: a   *)
(* backtest runs in a child process, which writes its results into a file, *)
(* sends a message through a pipe and exits.  The parent waits for the     *)
(* message or for the pipe's end, joins the child and reads the file.      *)
(***************************************************************************)
EXTENDS Naturals, Sequences

CONSTANT WorkerFaults   (* of "start", "die", "exit", "pickle" *)

VARIABLES
  pc,        (* of the parent: ready, close, recv, join, load, answered           *)
  job,       (* what the child runs                                               *)
  child,     (* none, running, raised, made, written, sent, closed, exited        *)
  made,      (* what the backtest gave: [status, results]                         *)
  writers,   (* who holds the pipe's writing end open                             *)
  pipe,      (* the messages in it                                                *)
  exit,      (* how the child exited: "none", "zero", "other"                     *)
  file,      (* the result file: [there, results]                          *)
  message,   (* what the parent received: "none", "eof", "ok", "error"            *)
  answer,    (* what the caller gets: [status, results]                           *)
  leaked     (* how many files nobody removes                                     *)

workerVars == <<pc, job, child, made, writers, pipe, exit, file, message, answer, leaked>>

NoFile == [there |-> FALSE, results |-> <<>>]
EmptyFile == [NoFile EXCEPT !.there = TRUE]
NoOutcome == [status |-> "none", results |-> <<>>]
Failure == [status |-> "error", results |-> <<>>]

WorkerInit ==
  /\ pc = "ready" /\ job = <<>> /\ child = "none" /\ made = NoOutcome
  /\ writers = {} /\ pipe = <<>> /\ exit = "none" /\ file = NoFile
  /\ message = "none" /\ answer = NoOutcome /\ leaked = 0
-----------------------------------------------------------------------------
(* The parent                                                              *)

\* The file and the pipe are made, and the child is started.
Spawn(j) ==
  /\ pc = "ready" /\ job' = j
  /\ made' = NoOutcome /\ message' = "none" /\ pipe' = <<>> /\ exit' = "none"
  /\ \/ /\ pc' = "close" /\ child' = "running" /\ writers' = {"parent", "child"}
        /\ file' = EmptyFile /\ UNCHANGED <<answer, leaked>>
     \/ \* start() fails: nothing removes the file.
        /\ "start" \in WorkerFaults /\ leaked < 1
        /\ pc' = "answered" /\ answer' = Failure /\ leaked' = leaked + 1
        /\ UNCHANGED <<child, writers, file>>

\* Mutant of ParentCloses: the parent keeps its writing end.
ParentClosesNot ==
  /\ pc = "close" /\ pc' = "recv"
  /\ UNCHANGED <<job, child, made, writers, pipe, exit, file, message, answer, leaked>>

\* send_conn.close()
ParentCloses ==
  /\ pc = "close" /\ pc' = "recv" /\ writers' = writers \ {"parent"}
  /\ UNCHANGED <<job, child, made, pipe, exit, file, message, answer, leaked>>

\* recv(): the message, or the end of the pipe when nobody can write any more.
Receive ==
  /\ pc = "recv" /\ pc' = "join"
  /\ \/ pipe # <<>> /\ message' = Head(pipe) /\ pipe' = Tail(pipe)
     \/ pipe = <<>> /\ writers = {} /\ message' = "eof" /\ UNCHANGED pipe
  /\ UNCHANGED <<job, child, made, writers, exit, file, answer, leaked>>

Join ==
  /\ pc = "join" /\ child = "exited" /\ pc' = "load"
  /\ UNCHANGED <<job, child, made, writers, pipe, exit, file, message, answer, leaked>>

\* Mutant of Load: the exit code tells whether there is a result.
LoadByExit ==
  /\ pc = "load" /\ pc' = "answered" /\ file' = NoFile
  /\ answer' = IF exit = "zero" THEN [status |-> "ok", results |-> file.results] ELSE Failure
  /\ UNCHANGED <<job, child, made, writers, pipe, exit, message, leaked>>

\* The file is read when the child told of it and exited well; everything else is an error.
\* The file is removed in any case.
Load ==
  /\ pc = "load" /\ pc' = "answered" /\ file' = NoFile
  /\ answer' = IF message = "ok" /\ exit = "zero" THEN [status |-> "ok", results |-> file.results]
               ELSE Failure
  /\ UNCHANGED <<job, child, made, writers, pipe, exit, message, leaked>>

\* The caller goes on with the answer.
Taken ==
  /\ pc = "answered" /\ pc' = "ready" /\ child' = "none" /\ answer' = NoOutcome
  /\ job' = <<>> /\ made' = NoOutcome /\ message' = "none" /\ exit' = "none"
  /\ UNCHANGED <<writers, pipe, file, leaked>>
-----------------------------------------------------------------------------
(* The child                                                               *)

\* The backtest ends, with results or an exception.
ChildRuns(outcome) ==
  /\ child = "running" /\ made' = outcome
  /\ child' = IF outcome.status = "ok" THEN "made" ELSE "raised"
  /\ UNCHANGED <<pc, job, writers, pipe, exit, file, message, answer, leaked>>

\* pickle.dump: whole, or an exception after a part of it.
ChildWrites ==
  /\ child = "made"
  /\ \/ child' = "written" /\ file' = [file EXCEPT !.results = made.results]
     \/ "pickle" \in WorkerFaults /\ child' = "raised" /\ UNCHANGED file
  /\ UNCHANGED <<pc, job, made, writers, pipe, exit, message, answer, leaked>>

ChildSends ==
  /\ child \in {"written", "raised"} /\ child' = "sent"
  /\ pipe' = Append(pipe, IF child = "written" THEN "ok" ELSE "error")
  /\ UNCHANGED <<pc, job, made, writers, exit, file, message, answer, leaked>>

\* finally: send_conn.close()
ChildCloses ==
  /\ child = "sent" /\ child' = "closed" /\ writers' = writers \ {"child"}
  /\ UNCHANGED <<pc, job, made, pipe, exit, file, message, answer, leaked>>

\* The process ends, and may do so badly when it is torn down.
ChildExits ==
  /\ child = "closed" /\ child' = "exited"
  /\ exit' \in {"zero"} \union (IF "exit" \in WorkerFaults THEN {"other"} ELSE {})
  /\ UNCHANGED <<pc, job, made, writers, pipe, file, message, answer, leaked>>

\* The process is killed, or crashes in native code.
ChildDies ==
  /\ "die" \in WorkerFaults /\ child \in {"running", "made", "written", "sent"}
  /\ child' = "exited" /\ exit' = "other" /\ writers' = writers \ {"child"}
  /\ UNCHANGED <<pc, job, made, pipe, file, message, answer, leaked>>

ParentSteps == ParentCloses \/ Receive \/ Join \/ Load
ChildSteps == ChildWrites \/ ChildSends \/ ChildCloses \/ ChildExits
-----------------------------------------------------------------------------
\* Whatever the child and the pipe went through, an answer that is no error is all the backtest
\* gave, and it comes from a child that ended well.
AnswersWhole ==
  pc = "answered" /\ answer.status = "ok" => answer = made /\ exit = "zero"

\* The parent never waits on a pipe that stays silent: when the child is gone, its message is
\* there or nobody can write any more (_isolated_replay_runner.py:56).
PipeEnds ==
  pc = "recv" /\ child = "exited" => pipe # <<>> \/ writers = {}
=============================================================================
