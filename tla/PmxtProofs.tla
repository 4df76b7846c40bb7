----------------------------- MODULE PmxtProofs ------------------------------
(***************************************************************************)
(* Proofs about the PMXT prefetching loader and the raw downloader.        *)
(*                                                                         *)
(* The loader, for every configuration, holdings, faults, hours and        *)
(* threads:                                                                *)
(*   - Spec => []TypeOK and Spec => []PrefetchBounded.                     *)
(* For the configurations with one thread, whatever their entries bind,    *)
(* and those in which an entry never binds anything else than what the     *)
(* loader was made with, however many threads there are (Undisturbed):     *)
(*   - Spec => []FirstSourceWins and Spec => []MissConfirmed.              *)
(* In the others the threads overwrite each other's entry, and a run of    *)
(* TLC shows an hour lost.                                                 *)
(*                                                                         *)
(* The records a load returns, for any tapes whose hours follow each other *)
(* and whichever of them were delivered:                                   *)
(*   - Spec => []MatchesOnceSnapshot.                                      *)
(*                                                                         *)
(* The downloader, for any number of hours, archives and processes,        *)
(* objects of any length and any faults:                                   *)
(*   - RawSpec => []RawTypeOK;                                             *)
(*   - RawSpec => []OwnTmpKept and RawSpec => []StoredWhole;               *)
(*   - RawSpec => []ReportTells.                                           *)
(* They rest on RawInv: what a process has read is in its temporary file,  *)
(* whatever the others sweep, and every hour it is done with has a report  *)
(* that the files bear out.                                                *)
(***************************************************************************)
EXTENDS PmxtLoad, RawDownload, ListProofs, TLAPS

InAttempt == {"bind", "load", "fetch", "write", "leave"}

\* An archive URL is there whenever a thread is about to ask one: the loader was made with
\* one, and neither a scope nor its end takes the last one away.
UrlsKept ==
  config.fields.remoteUrls # <<>> =>
    /\ fields.remoteUrls # <<>>
    /\ \A h \in Hours : Scoped /\ task[h].pc \in InAttempt => task[h].saved.remoteUrls # <<>>

\* Where the threads are.
Placed ==
  /\ \A h \in Hours : task[h].pc \in InAttempt => task[h].at <= Len(Attempts)
  /\ \A h \in Hours : task[h].pc = "bind" => Scoped
  /\ \A h \in Hours : task[h].pc = "fetch" => config.fields.remoteUrls # <<>>
  /\ ~Scoped => fields = config.fields

Inv == TypeOK /\ UrlsKept /\ Placed /\ PrefetchBounded

LEMMA HeadType ==
  ASSUME NEW S, NEW s \in Seq(S), s # <<>>
  PROVE  Head(s) \in S
  OBVIOUS

\* The current attempt, and what its source is.
LEMMA AttemptType ==
  ASSUME Inv, NEW i \in Nat \ {0}, i <= Len(Attempts)
  PROVE  /\ Attempts[i].kind \in Kinds
         /\ Scoped => Attempts[i] = config.entries[i] /\ i \in DOMAIN config.entries
         /\ Scoped => Attempts[i].target \in Sources
         /\ Scoped /\ Attempts[i].kind = "raw-remote" => config.fields.remoteUrls # <<>>
<1>1. config \in Configs /\ config \in Config
  BY PmxtAssumption DEF Inv, TypeOK
<1>2. config.entries \in Seq(Entry) /\ config.stages \in Seq(Stage)
  BY <1>1 DEF Config
<1>3. CASE Scoped
  <2>1. i \in DOMAIN config.entries /\ config.entries[i] \in Entry
    BY <1>2, <1>3 DEF Scoped, Attempts
  <2>2. config.entries[i].kind = "raw-remote" => config.fields.remoteUrls # <<>>
    BY <1>1, <2>1, PmxtAssumption
  <2> QED BY <2>1, <2>2, <1>3 DEF Attempts, Entry
<1>4. CASE ~Scoped
  <2>1. config.stages[i] \in Stage
    BY <1>2, <1>4 DEF Attempts
  <2> QED BY <2>1, <1>4 DEF Attempts, Stage
<1> QED BY <1>3, <1>4

LEMMA WorkersType ==
  ASSUME TypeOK
  PROVE  /\ NumHours \in Nat \ {0} /\ MaxWorkers \in 1 .. NumHours
         /\ config.fields \in Fields
<1>1. config \in Config
  BY PmxtAssumption DEF TypeOK
<1> QED BY <1>1, PmxtAssumption DEF MaxWorkers, Config

LEMMA TypeInit == Init => Inv
<1> SUFFICES ASSUME Init PROVE Inv
  OBVIOUS
<1>1. config \in Config
  BY PmxtAssumption DEF Init
<1>2. config.fields \in Fields /\ config.workers \in Nat \ {0} /\ NumHours \in Nat \ {0}
  BY <1>1, PmxtAssumption DEF Config
<1>3. NoTask \in Task
  BY DEF NoTask, Task, Fields, Pcs, None
<1>4. TypeOK
  <2>1. config \in Configs /\ holding \in Holdings
    BY DEF Init
  <2>2. cache \in [Hours -> {"absent", "ok", "bad"}]
    BY PmxtAssumption DEF Init
  <2>3. fields \in Fields /\ task \in [Hours -> Task]
    BY <1>2, <1>3 DEF Init
  <2>4. submitted \in 0..NumHours /\ yielded \in 0..NumHours /\ loads \in Nat
    BY <1>2 DEF Init
  <2>5. /\ delivered \in [Hours -> Sources \union {None, "cache", "pending"}]
        /\ asked \in [Hours -> SUBSET Sources]
        /\ consumer = "idle"
    BY DEF Init
  <2> QED BY <2>1, <2>2, <2>3, <2>4, <2>5 DEF TypeOK
<1>5. \A h \in Hours : task[h].pc = "unsubmitted"
  BY DEF Init, NoTask
<1>6. UrlsKept /\ Placed
  BY <1>5 DEF Init, UrlsKept, Placed, InAttempt
<1>7. PrefetchBounded
  BY <1>2 DEF Init, PrefetchBounded, MaxWorkers
<1> QED BY <1>4, <1>6, <1>7 DEF Inv
-----------------------------------------------------------------------------
(* Inv is kept by every step.  The steps of a thread change its own task.   *)

\* A task step keeps TypeOK when it keeps the types of what it changes.
LEMMA TaskTypes ==
  ASSUME Inv, NEW h \in Hours,
         UNCHANGED <<world, takenVars>>,
         NEW t \in Task, task' = [task EXCEPT ![h] = t],
         cache' \in [Hours -> {"absent", "ok", "bad"}],
         fields' \in Fields, asked' \in [Hours -> SUBSET Sources],
         t.pc \in InAttempt => t.at <= Len(Attempts),
         t.pc = "bind" => Scoped,
         t.pc = "fetch" => config.fields.remoteUrls # <<>>,
         ~Scoped => fields' = fields,
         config.fields.remoteUrls # <<>> =>
           /\ fields'.remoteUrls # <<>>
           /\ Scoped /\ t.pc \in InAttempt => t.saved.remoteUrls # <<>>
  PROVE  Inv'
<1>1. task \in [Hours -> Task] /\ task' \in [Hours -> Task]
  BY DEF Inv, TypeOK
<1>2. TypeOK'
  BY <1>1 DEF Inv, TypeOK, world, takenVars
<1>3. \A g \in Hours : task'[g] = IF g = h THEN t ELSE task[g]
  BY <1>1
<1>4. UrlsKept'
  BY <1>3 DEF Inv, UrlsKept, world, takenVars, Scoped
<1>5. Placed'
  BY <1>3 DEF Inv, Placed, world, takenVars, Scoped, Attempts
<1>6. PrefetchBounded'
  BY DEF Inv, PrefetchBounded, MaxWorkers, world, takenVars
<1> QED BY <1>2, <1>4, <1>5, <1>6 DEF Inv

LEMMA TaskStepType ==
  ASSUME Inv, NEW h \in Hours, TaskStep(h)
  PROVE  Inv'
<1> DEFINE t == task'[h]
<1>1. task \in [Hours -> Task] /\ task[h] \in Task /\ fields \in Fields
  BY DEF Inv, TypeOK
<1>2. /\ cache \in [Hours -> {"absent", "ok", "bad"}] /\ asked \in [Hours -> SUBSET Sources]
      /\ holding \in [Sources -> [Hours -> {"good", "missing", "bad"}]]
  BY PmxtAssumption DEF Inv, TypeOK
<1>3. /\ task[h].at \in Nat \ {0} /\ task[h].left \in Nat /\ task[h].saved \in Fields
      /\ task[h].pc \in Pcs /\ task[h].got \in Sources \union {None, "cache", "error"}
  BY <1>1 DEF Task
<1>4. /\ task[h].pc \in InAttempt => task[h].at <= Len(Attempts)
      /\ task[h].pc = "bind" => Scoped
      /\ task[h].pc = "fetch" => config.fields.remoteUrls # <<>>
      /\ ~Scoped => fields = config.fields
      /\ config.fields.remoteUrls # <<>> =>
           /\ fields.remoteUrls # <<>>
           /\ Scoped /\ task[h].pc \in InAttempt => task[h].saved.remoteUrls # <<>>
  BY DEF Inv, Placed, UrlsKept
<1>5. Len(Attempts) \in Nat
  <2>1. config \in Config
    BY PmxtAssumption DEF Inv, TypeOK
  <2> QED BY <2>1 DEF Config, Attempts
<1>6. CASE ReadCache(h)
  <2>1. t = [task[h] EXCEPT !.pc = "done", !.got = "cache"] \/ t = [task[h] EXCEPT !.pc = "next"]
    BY <1>1, <1>6 DEF ReadCache, Finish, Goto
  <2>2. t \in Task /\ t.pc \in {"done", "next"} /\ task' = [task EXCEPT ![h] = t]
    BY <1>1, <1>3, <1>6, <2>1 DEF ReadCache, Finish, Goto, Task, Pcs
  <2>3. cache' \in [Hours -> {"absent", "ok", "bad"}] /\ UNCHANGED <<world, takenVars, fields, asked>>
    BY <1>2, <1>6 DEF ReadCache
  <2> HIDE DEF t
  <2> QED BY <1>1, <1>2, <1>4, <2>2, <2>3, TaskTypes DEF InAttempt
<1>7. CASE NextAttempt(h)
  <2>1. \/ t = [task[h] EXCEPT !.pc = "done", !.got = None]
        \/ /\ task[h].at <= Len(Attempts) /\ Scoped
           /\ t = [task[h] EXCEPT !.pc = "bind", !.saved = fields]
        \/ task[h].at <= Len(Attempts) /\ ~Scoped /\ t = [task[h] EXCEPT !.pc = "load"]
    <3>1. CASE task[h].at > Len(Attempts)
      BY <1>1, <1>7, <3>1 DEF NextAttempt, Finish
    <3>2. CASE ~(task[h].at > Len(Attempts))
      <4>1. task[h].at <= Len(Attempts)
        BY <1>3, <1>5, <3>2
      <4>2. CASE Scoped
        <5>1. task' = [task EXCEPT ![h].pc = "bind", ![h].saved = fields]
          BY <1>7, <3>2, <4>2 DEF NextAttempt
        <5> QED BY <1>1, <4>1, <4>2, <5>1
      <4>3. CASE ~Scoped
        <5>1. task' = [task EXCEPT ![h].pc = "load"]
          BY <1>7, <3>2, <4>3 DEF NextAttempt, Goto
        <5> QED BY <1>1, <4>1, <4>3, <5>1
      <4> QED BY <4>2, <4>3
    <3> QED BY <3>1, <3>2
  <2>2. t \in Task /\ task' = [task EXCEPT ![h] = t]
    BY <1>1, <1>3, <1>7, <2>1 DEF NextAttempt, Finish, Goto, Task, Pcs
  <2>3. /\ t.pc \in InAttempt => t.at <= Len(Attempts)
        /\ t.pc = "bind" => Scoped /\ t.pc # "fetch"
        /\ t.pc # "fetch"
        /\ Scoped /\ t.pc \in InAttempt => t.saved = fields
    BY <1>1, <1>3, <2>1 DEF InAttempt, Task
  <2>4. UNCHANGED <<world, takenVars, cache, fields, asked>>
    BY <1>7 DEF NextAttempt
  <2> HIDE DEF t
  <2> QED BY <1>1, <1>2, <1>4, <2>2, <2>3, <2>4, TaskTypes
<1>8. CASE BindFields(h)
  <2>1. task[h].pc = "bind" /\ Scoped /\ task[h].at <= Len(Attempts)
    BY <1>4, <1>8 DEF BindFields, At, InAttempt
  <2>2. Attempts[task[h].at].target \in Sources
    BY <1>3, <2>1, AttemptType
  <2>3. t = [task[h] EXCEPT !.pc = "load"] /\ task' = [task EXCEPT ![h] = t]
    BY <1>1, <1>8 DEF BindFields, Goto
  <2>4. t \in Task /\ t.pc = "load" /\ t.at = task[h].at /\ t.saved = task[h].saved
    BY <1>1, <1>3, <2>3 DEF Task, Pcs
  <2>5. fields' \in Fields /\ (fields.remoteUrls # <<>> => fields'.remoteUrls # <<>>)
    <3> DEFINE u == Attempts[task[h].at].target
    <3>1. u \in Sources /\ <<u>> \in Seq(Sources) /\ <<u>> # <<>>
      BY <2>2
    <3>2. \/ fields' = [fields EXCEPT !.rawRoot = u]
          \/ fields' = [fields EXCEPT !.remoteUrls = <<u>>]
      BY <1>8 DEF BindFields, Current
    <3> HIDE DEF u
    <3> QED BY <1>1, <3>1, <3>2 DEF Fields
  <2>6. UNCHANGED <<world, takenVars, cache, asked>>
    BY <1>8 DEF BindFields
  <2> HIDE DEF t
  <2> QED BY <1>1, <1>2, <1>4, <2>1, <2>3, <2>4, <2>5, <2>6, TaskTypes DEF InAttempt
<1>9. ASSUME NEW s \in Sources \union {None, "error"}, Got(h, s), task[h].pc \in {"load", "fetch"}
      PROVE  /\ t \in Task /\ task' = [task EXCEPT ![h] = t] /\ t.pc \in {"write", "leave"}
             /\ t.at = task[h].at /\ t.saved = task[h].saved
  <2>1. \/ t = [task[h] EXCEPT !.pc = "write", !.got = s]
        \/ t = [task[h] EXCEPT !.pc = "leave", !.got = s]
    BY <1>1, <1>9 DEF Got
  <2>2. t \in Task /\ t.pc \in {"write", "leave"} /\ t.at = task[h].at /\ t.saved = task[h].saved
    BY <1>1, <1>3, <2>1 DEF Task, Pcs
  <2>3. task' = [task EXCEPT ![h] = t]
    BY <1>1, <1>9 DEF Got
  <2> QED BY <2>2, <2>3
<1>10. CASE LoadLocal(h)
  <2>1. task[h].pc = "load" /\ task[h].at <= Len(Attempts)
    BY <1>4, <1>10 DEF LoadLocal, At, InAttempt
  <2>2. /\ \E s \in Sources \union {None, "error"} : Got(h, s)
        /\ asked' \in [Hours -> SUBSET Sources]
    <3>1. CASE fields.rawRoot = None
      BY <1>2, <1>10, <3>1 DEF LoadLocal
    <3>2. CASE fields.rawRoot # None
      <4>1. fields.rawRoot \in Sources
        BY <1>1, <3>2 DEF Fields
      <4>2. holding[fields.rawRoot][h] \in {"good", "missing", "bad"}
        BY <1>2, <4>1
      <4>3. Ask(h, fields.rawRoot)
        BY <1>10, <3>2 DEF LoadLocal
      <4>4. \E s \in Sources \union {None, "error"} : Got(h, s)
        BY <1>10, <3>2, <4>1, <4>2 DEF LoadLocal
      <4> QED BY <1>2, <4>1, <4>3, <4>4 DEF Ask
    <3> QED BY <3>1, <3>2
  <2>3. UNCHANGED <<world, takenVars, cache, fields>>
    BY <1>10 DEF LoadLocal
  <2>4. PICK s \in Sources \union {None, "error"} : Got(h, s)
    BY <2>2
  <2>5. /\ t \in Task /\ task' = [task EXCEPT ![h] = t] /\ t.pc \in {"write", "leave"}
        /\ t.at = task[h].at /\ t.saved = task[h].saved
    BY <1>9, <2>1, <2>4
  <2> HIDE DEF t
  <2> QED BY <1>1, <1>2, <1>4, <2>1, <2>2, <2>3, <2>5, TaskTypes DEF InAttempt
<1>11. CASE BeginRemote(h)
  <2>1. task[h].pc = "load" /\ task[h].at <= Len(Attempts) /\ Attempts[task[h].at].kind = "raw-remote"
    BY <1>4, <1>11 DEF BeginRemote, At, InAttempt, Current
  <2>2. UNCHANGED <<world, takenVars, cache, fields, asked>>
    BY <1>11 DEF BeginRemote
  <2>3. CASE fields.remoteUrls = <<>>
    <3>1. /\ t \in Task /\ task' = [task EXCEPT ![h] = t] /\ t.pc \in {"write", "leave"}
          /\ t.at = task[h].at /\ t.saved = task[h].saved
      BY <1>9, <1>11, <2>1, <2>3 DEF BeginRemote
    <3> HIDE DEF t
    <3> QED BY <1>1, <1>2, <1>4, <2>1, <2>2, <3>1, TaskTypes DEF InAttempt
  <2>4. CASE fields.remoteUrls # <<>>
    <3>1. config.fields.remoteUrls # <<>>
      <4>1. CASE Scoped
        BY <1>3, <2>1, <4>1, AttemptType
      <4>2. CASE ~Scoped
        BY <1>4, <2>4, <4>2
      <4> QED BY <4>1, <4>2
    <3>2. Len(fields.remoteUrls) \in Nat
      BY <1>1 DEF Fields
    <3>3. /\ t = [task[h] EXCEPT !.pc = "fetch", !.left = Len(fields.remoteUrls)]
          /\ task' = [task EXCEPT ![h] = t]
      BY <1>1, <1>11, <2>4 DEF BeginRemote
    <3>4. t \in Task /\ t.pc = "fetch" /\ t.at = task[h].at /\ t.saved = task[h].saved
      BY <1>1, <1>3, <3>2, <3>3 DEF Task, Pcs
    <3> HIDE DEF t
    <3> QED BY <1>1, <1>2, <1>4, <2>1, <2>2, <3>1, <3>3, <3>4, TaskTypes DEF InAttempt
  <2> QED BY <2>3, <2>4
<1>12. CASE Fetch(h)
  <2>1. task[h].pc = "fetch" /\ task[h].at <= Len(Attempts) /\ config.fields.remoteUrls # <<>>
    BY <1>4, <1>12 DEF Fetch, At, InAttempt
  <2>2. Head(fields.remoteUrls) \in Sources
    <3>1. fields.remoteUrls \in Seq(Sources) /\ fields.remoteUrls # <<>>
      BY <1>1, <1>4, <2>1 DEF Fields
    <3> QED BY <3>1, HeadType
  <2>3. UNCHANGED <<world, takenVars, cache, fields>> /\ asked' \in [Hours -> SUBSET Sources]
    BY <1>2, <1>12, <2>2 DEF Fetch, Ask
  <2>4. /\ t \in Task /\ task' = [task EXCEPT ![h] = t] /\ t.pc \in {"fetch", "write", "leave"}
        /\ t.at = task[h].at /\ t.saved = task[h].saved
    <3>1. CASE task[h].left > 1 /\ task' = [task EXCEPT ![h].left = @ - 1]
      <4>1. t = [task[h] EXCEPT !.left = @ - 1] /\ task' = [task EXCEPT ![h] = t]
        BY <1>1, <3>1
      <4>2. task[h].left - 1 \in Nat
        BY <1>3, <3>1
      <4> QED BY <1>1, <1>3, <2>1, <4>1, <4>2 DEF Task, Pcs
    <3>2. CASE \E s \in Sources \union {None, "error"} : Got(h, s)
      BY <1>9, <2>1, <3>2
    <3> QED BY <1>12, <2>2, <3>1, <3>2 DEF Fetch
  <2> HIDE DEF t
  <2> QED BY <1>1, <1>2, <1>4, <2>1, <2>3, <2>4, TaskTypes DEF InAttempt
<1>13. CASE WriteCache(h)
  <2>1. task[h].pc = "write" /\ t = [task[h] EXCEPT !.pc = "leave"] /\ task' = [task EXCEPT ![h] = t]
    BY <1>1, <1>13 DEF WriteCache, At, Goto
  <2>2. t \in Task /\ t.pc = "leave" /\ t.at = task[h].at /\ t.saved = task[h].saved
    BY <1>1, <1>3, <2>1 DEF Task, Pcs
  <2>3. /\ UNCHANGED <<world, takenVars, fields, asked>>
        /\ cache' \in [Hours -> {"absent", "ok", "bad"}]
    BY <1>2, <1>13 DEF WriteCache
  <2> HIDE DEF t
  <2> QED BY <1>1, <1>2, <1>4, <2>1, <2>2, <2>3, TaskTypes DEF InAttempt
<1>14. CASE LeaveAttempt(h)
  <2>1. task[h].pc = "leave"
    BY <1>14 DEF LeaveAttempt, At
  <2>2. \/ t = [task[h] EXCEPT !.pc = "next", !.at = @ + 1]
        \/ t = [task[h] EXCEPT !.pc = "done"]
    BY <1>1, <1>14 DEF LeaveAttempt, AfterAttempt
  <2>3. t \in Task /\ t.pc \in {"next", "done"}
    <3>1. task[h].at + 1 \in Nat \ {0}
      BY <1>3
    <3>2. CASE t = [task[h] EXCEPT !.pc = "next", !.at = @ + 1]
      BY <1>1, <1>3, <3>1, <3>2 DEF Task, Pcs
    <3>3. CASE t = [task[h] EXCEPT !.pc = "done"]
      BY <1>1, <1>3, <3>3 DEF Task, Pcs
    <3> QED BY <2>2, <3>2, <3>3
  <2>4. task' = [task EXCEPT ![h] = t]
    BY <1>1, <1>14 DEF LeaveAttempt, AfterAttempt
  <2>5. /\ UNCHANGED <<world, takenVars, cache, asked>>
        /\ fields' = IF Scoped THEN task[h].saved ELSE fields
    BY <1>14 DEF LeaveAttempt
  <2> HIDE DEF t
  <2> QED BY <1>1, <1>2, <1>3, <1>4, <2>1, <2>3, <2>4, <2>5, TaskTypes DEF InAttempt
<1> QED BY <1>6, <1>7, <1>8, <1>10, <1>11, <1>12, <1>13, <1>14 DEF TaskStep

LEMMA StartType ==
  ASSUME Inv, StartLoad
  PROVE  Inv'
<1>1. MaxWorkers \in 1 .. NumHours /\ config.fields \in Fields /\ NumHours \in Nat \ {0}
  BY WorkersType DEF Inv
<1>2. \A h \in Hours : task'[h].pc \in {"unsubmitted", "cache"} /\ task'[h] \in Task
  <2>1. NoTask \in Task
    BY DEF NoTask, Task, Fields, Pcs, None
  <2>2. \A place \in {"unsubmitted", "cache"} :
          [NoTask EXCEPT !.pc = place] \in Task /\ [NoTask EXCEPT !.pc = place].pc = place
    BY <2>1 DEF Task, Pcs
  <2>3. NoTask.pc = "unsubmitted"
    BY DEF NoTask
  <2>4. ASSUME NEW h \in Hours
        PROVE  task'[h] = [NoTask EXCEPT !.pc = IF h <= MaxWorkers THEN "cache" ELSE NoTask.pc]
    BY <2>4 DEF StartLoad
  <2> HIDE DEF NoTask
  <2> QED BY <2>2, <2>3, <2>4
<1>3. TypeOK'
  <2>1. task' \in [Hours -> Task]
    BY <1>2 DEF StartLoad
  <2>2. submitted' \in 0..NumHours /\ yielded' \in 0..NumHours /\ loads' \in Nat
    BY <1>1 DEF StartLoad, Inv, TypeOK
  <2>3. /\ delivered' \in [Hours -> Sources \union {None, "cache", "pending"}]
        /\ asked' \in [Hours -> SUBSET Sources] /\ consumer' = "loading" /\ fields' \in Fields
    BY <1>1 DEF StartLoad
  <2>4. UNCHANGED <<config, holding, cache>>
    BY DEF StartLoad, world
  <2> QED BY <2>1, <2>2, <2>3, <2>4 DEF Inv, TypeOK
<1>4. UrlsKept' /\ Placed'
  BY <1>2 DEF StartLoad, world, UrlsKept, Placed, InAttempt
<1>5. PrefetchBounded'
  <2>1. MaxWorkers' = MaxWorkers
    BY DEF StartLoad, world, MaxWorkers
  <2> QED BY <1>1, <2>1 DEF StartLoad, PrefetchBounded
<1> QED BY <1>3, <1>4, <1>5 DEF Inv

LEMMA ConsumerType ==
  ASSUME Inv, Consumer \/ Kill
  PROVE  Inv'
<1>1. /\ task \in [Hours -> Task] /\ submitted \in 0..NumHours /\ yielded \in 0..NumHours
      /\ delivered \in [Hours -> Sources \union {None, "cache", "pending"}]
      /\ NumHours \in Nat \ {0} /\ MaxWorkers \in 1 .. NumHours
  BY WorkersType DEF Inv, TypeOK
<1>2. CASE Yield
  <2> DEFINE n == IF submitted < NumHours THEN submitted + 1 ELSE submitted
  <2>1. /\ Awaited \in Hours /\ task[Awaited].got # "error"
        /\ delivered' = [delivered EXCEPT ![Awaited] = task[Awaited].got]
        /\ yielded' = Awaited /\ submitted' = n /\ task' = Submit(n)
        /\ UNCHANGED <<world, cache, fields, asked, consumer, loads>>
    BY <1>2 DEF Yield, Take, Ready
  <2>2. n \in 0 .. NumHours /\ n - yielded' <= MaxWorkers
    BY <1>1, <2>1 DEF Inv, PrefetchBounded, Awaited
  <2>3. \A h \in Hours : task'[h] = task[h] \/ task'[h] = [task[h] EXCEPT !.pc = "cache"]
    BY <1>1, <2>1 DEF Submit
  <2>4. task' \in [Hours -> Task] /\ \A h \in Hours : task'[h] = task[h] \/ task'[h].pc = "cache"
    <3>1. ASSUME NEW h \in Hours
          PROVE  task'[h] \in Task /\ (task'[h] = task[h] \/ task'[h].pc = "cache")
      <4>1. task[h] \in Task
        BY <1>1
      <4>2. /\ [task[h] EXCEPT !.pc = "cache"] \in Task
            /\ [task[h] EXCEPT !.pc = "cache"].pc = "cache"
        BY <4>1 DEF Task, Pcs
      <4> QED BY <2>3, <4>1, <4>2
    <3> QED BY <2>1, <3>1 DEF Submit
  <2>5. delivered' \in [Hours -> Sources \union {None, "cache", "pending"}]
    <3>1. task[Awaited].got \in Sources \union {None, "cache"}
      BY <1>1, <2>1 DEF Task
    <3> QED BY <1>1, <2>1, <3>1
  <2>6. TypeOK'
    BY <2>1, <2>2, <2>4, <2>5 DEF Inv, TypeOK, world, Hours
  <2>7. UrlsKept' /\ Placed'
    BY <2>1, <2>4 DEF Inv, UrlsKept, Placed, world, Scoped, Attempts, InAttempt
  <2>8. PrefetchBounded'
    BY <2>1, <2>2 DEF PrefetchBounded, MaxWorkers, world
  <2> QED BY <2>6, <2>7, <2>8 DEF Inv
<1>3. CASE YieldRaises \/ LeavePool \/ Kill
  <2>1. /\ UNCHANGED <<world, cache, fields, task, asked, submitted, yielded, delivered, loads>>
        /\ consumer' \in {"failing", "returned", "raised", "killed"}
    BY <1>3 DEF YieldRaises, LeavePool, Kill
  <2> QED BY <2>1 DEF Inv, TypeOK, UrlsKept, Placed, PrefetchBounded, MaxWorkers, world, Scoped,
                      Attempts
<1> QED BY <1>2, <1>3 DEF Consumer

LEMMA TypeNext == Inv /\ [Next]_pmxtVars => Inv'
<1> SUFFICES ASSUME Inv, [Next]_pmxtVars PROVE Inv'
  OBVIOUS
<1>1. CASE \E h \in Hours : TaskStep(h)
  BY <1>1, TaskStepType
<1>2. CASE UNCHANGED pmxtVars
  BY <1>2 DEF pmxtVars, world, takenVars, Inv, TypeOK, UrlsKept, Placed, PrefetchBounded,
              MaxWorkers, Scoped, Attempts
<1> QED BY <1>1, <1>2, StartType, ConsumerType DEF Next

\* Type correctness, for every configuration of the loader.
THEOREM TypeCorrect == Spec => []TypeOK
<1>1. Inv => TypeOK
  BY DEF Inv
<1> QED BY TypeInit, TypeNext, <1>1, PTL DEF Spec

\* However many hours and threads there are, no more than max_workers hours are loaded or being
\* loaded ahead of the consumer.
THEOREM Bounded == Spec => []PrefetchBounded
<1>1. Inv => PrefetchBounded
  BY DEF Inv
<1> QED BY TypeInit, TypeNext, <1>1, PTL DEF Spec
-----------------------------------------------------------------------------
(* Configurations in which no thread finds another one's entry in the      *)
(* attributes: there is one thread, or the entries are at most one          *)
(* directory and one archive, those that the loader was made with.          *)

\* Of several archives that are no entries only the first is asked.
OneUrl(c) == c.entries = <<>> => Len(c.fields.remoteUrls) <= 1

OneThread(c) == c.workers = 1

OneTargetPerKind(c) ==
  \A i \in DOMAIN c.entries :
    IF c.entries[i].kind = "raw-local"
    THEN c.fields.rawRoot = c.entries[i].target
    ELSE c.fields.remoteUrls = <<c.entries[i].target>>

Undisturbed == \A c \in Configs : OneUrl(c) /\ (OneThread(c) \/ OneTargetPerKind(c))

\* The hours up to yielded are loaded, those after submitted not begun.
Queued ==
  \A h \in Hours :
    /\ h <= yielded => task[h].pc = "done"
    /\ h > submitted => task[h].pc = "unsubmitted"

\* What the attributes are while a thread tries attempt a.
Bound(a) ==
  IF a.kind = "raw-local" THEN [config.fields EXCEPT !.rawRoot = a.target]
                          ELSE [config.fields EXCEPT !.remoteUrls = <<a.target>>]
Trying == {"load", "fetch", "write", "leave"}

\* A thread tries the entry it has bound, and what it will write back are the attributes the
\* loader was made with.
Steady ==
  /\ \A h \in Hours : Scoped /\ task[h].pc \in InAttempt => task[h].saved = config.fields
  /\ \A h \in Hours : Scoped /\ task[h].pc \in Trying => fields = Bound(Attempts[task[h].at])
  /\ (\A h \in Hours : task[h].pc \notin Trying) => fields = config.fields

\* What a thread t has asked for hour h, A, covers the attempts it is done with.
LookedFor(h, t, A) ==
  /\ \A j \in 1..(t.at - 1) : SourcesOf(Attempts[j]) \subseteq A
  /\ t.got \in Sources =>
       holding[t.got][h] = "good" /\ t.at <= Len(Attempts) /\ t.got \in SourcesOf(Attempts[t.at])
  /\ t.pc = "leave" /\ t.got = None => SourcesOf(Attempts[t.at]) \subseteq A
  /\ t.pc = "done" /\ t.got = None => t.at > Len(Attempts)
  /\ t.pc = "write" => t.got \in Sources
  /\ t.pc = "fetch" => t.left <= 1 /\ Attempts[t.at].kind = "raw-remote"

Looked == \A h \in Hours : LookedFor(h, task[h], asked[h])

Taken ==
  \A h \in Hours : delivered[h] # "pending" => delivered[h] = task[h].got /\ task[h].pc = "done"

LookInv == Undisturbed /\ Inv /\ Queued /\ Steady /\ Looked /\ Taken

\* The attempts are the entries of the configuration, or its stages.
LEMMA AttemptsTyped ==
  ASSUME Inv
  PROVE  Len(Attempts) \in Nat /\ DOMAIN Attempts = 1..Len(Attempts)
<1>1. config \in Config
  BY PmxtAssumption DEF Inv, TypeOK
<1> QED BY <1>1 DEF Config, Attempts

\* What the hypothesis says of the configuration the process runs with.
LEMMA ConfigTyped ==
  ASSUME Undisturbed, Inv
  PROVE  /\ config \in Configs /\ config.fields \in Fields /\ fields \in Fields
         /\ OneUrl(config) /\ (OneThread(config) \/ OneTargetPerKind(config))
         /\ None \notin Sources
<1>1. config \in Configs /\ config \in Config /\ fields \in Fields
  BY PmxtAssumption DEF Inv, TypeOK
<1> QED BY <1>1, PmxtAssumption DEF Undisturbed, Config

\* One thread works on one hour.
LEMMA Alone ==
  ASSUME LookInv, OneThread(config), NEW g \in Hours, NEW h \in Hours,
         task[g].pc \notin {"unsubmitted", "done"}, task[h].pc \notin {"unsubmitted", "done"}
  PROVE  g = h
<1>1. submitted \in Nat /\ yielded \in Nat /\ Hours \subseteq Nat /\ NumHours \in Nat \ {0}
  BY PmxtAssumption DEF LookInv, Inv, TypeOK, Hours
<1>2. MaxWorkers = 1
  BY <1>1 DEF MaxWorkers, OneThread
<1>3. submitted - yielded <= 1
  BY <1>2 DEF LookInv, Inv, PrefetchBounded
<1>4. \A x \in {g, h} : x > yielded /\ x <= submitted
  BY <1>1 DEF LookInv, Queued
<1> QED BY <1>1, <1>3, <1>4

\* Entries that are what the loader was made with bind nothing new.
LEMMA BoundSame ==
  ASSUME LookInv, Scoped, OneTargetPerKind(config), NEW i \in Nat \ {0}, i <= Len(Attempts)
  PROVE  Bound(Attempts[i]) = config.fields
<1>1. config.fields \in Fields
  BY ConfigTyped DEF LookInv
<1>2. Attempts[i] = config.entries[i] /\ i \in DOMAIN config.entries
  BY AttemptType DEF LookInv
<1>3. /\ [config.fields EXCEPT !.rawRoot = config.fields.rawRoot] = config.fields
      /\ [config.fields EXCEPT !.remoteUrls = config.fields.remoteUrls] = config.fields
  BY <1>1 DEF Fields
<1>4. IF Attempts[i].kind = "raw-local"
      THEN config.fields.rawRoot = Attempts[i].target
      ELSE config.fields.remoteUrls = <<Attempts[i].target>>
  BY <1>2 DEF OneTargetPerKind
<1>5. CASE Attempts[i].kind = "raw-local"
  BY <1>3, <1>4, <1>5 DEF Bound
<1>6. CASE Attempts[i].kind # "raw-local"
  BY <1>3, <1>4, <1>6 DEF Bound
<1> QED BY <1>5, <1>6

\* A thread that begins an attempt finds the attributes as the loader was made.
LEMMA Found ==
  ASSUME LookInv, NEW h \in Hours, task[h].pc \in {"next", "bind"}
  PROVE  fields = config.fields
<1>1. CASE ~Scoped
  BY <1>1 DEF LookInv, Inv, Placed
<1>2. CASE Scoped /\ OneTargetPerKind(config)
  <2>1. ASSUME NEW g \in Hours, task[g].pc \in Trying
        PROVE  fields = config.fields
    <3>1. task[g].at \in Nat \ {0} /\ task[g].at <= Len(Attempts)
      BY <2>1 DEF LookInv, Inv, TypeOK, Placed, Task, Trying, InAttempt
    <3> QED BY <1>2, <2>1, <3>1, BoundSame DEF LookInv, Steady
  <2> QED BY <2>1 DEF LookInv, Steady
<1>3. CASE OneThread(config)
  <2>1. \A g \in Hours : task[g].pc \notin Trying
    BY <1>3, Alone DEF Trying
  <2> QED BY <2>1 DEF LookInv, Steady
<1> QED BY <1>1, <1>2, <1>3, ConfigTyped DEF LookInv

\* The sources of the attempt that a thread tries are those the attributes name.
LEMMA AttemptSources ==
  ASSUME LookInv, NEW h \in Hours, task[h].pc \in {"load", "fetch"}, NEW i, i = task[h].at
  PROVE  /\ Attempts[i].kind = "raw-local" => SourcesOf(Attempts[i]) = {fields.rawRoot} \ {None}
         /\ Attempts[i].kind = "raw-remote" =>
              /\ Len(fields.remoteUrls) <= 1
              /\ SourcesOf(Attempts[i]) =
                   IF fields.remoteUrls = <<>> THEN {} ELSE {Head(fields.remoteUrls)}
<1>0. i \in Nat \ {0} /\ i <= Len(Attempts)
  BY DEF LookInv, Inv, TypeOK, Placed, Task, InAttempt
<1>1. config \in Configs /\ config.fields \in Fields /\ OneUrl(config)
  BY ConfigTyped DEF LookInv
<1>2. config.fields.remoteUrls \in Seq(Sources) /\ None \notin Sources
  BY <1>1, PmxtAssumption DEF Fields
<1>3. CASE Scoped
  <2>1. Attempts[i].target \in Sources /\ Attempts[i].kind \in Kinds
    BY <1>0, <1>3, AttemptType DEF LookInv
  <2>2. fields = Bound(Attempts[i])
    BY <1>3 DEF LookInv, Steady, Trying
  <2>3. SourcesOf(Attempts[i]) = {Attempts[i].target}
    BY <1>3 DEF SourcesOf
  <2>4. CASE Attempts[i].kind = "raw-local"
    <3>1. fields.rawRoot = Attempts[i].target
      BY <1>1, <2>2, <2>4 DEF Bound, Fields
    <3> QED BY <1>2, <2>1, <2>3, <2>4, <3>1
  <2>5. CASE Attempts[i].kind # "raw-local"
    <3> DEFINE u == Attempts[i].target
    <3>1. fields.remoteUrls = <<u>>
      BY <1>1, <2>2, <2>5 DEF Bound, Fields
    <3>2. Len(<<u>>) = 1 /\ Head(<<u>>) = u /\ <<u>> # <<>>
      OBVIOUS
    <3> QED BY <2>3, <2>5, <3>1, <3>2
  <2> QED BY <2>4, <2>5
<1>4. CASE ~Scoped
  <2>0. fields = config.fields
    BY <1>4 DEF LookInv, Inv, Placed
  <2>1. Len(config.fields.remoteUrls) <= 1
    BY <1>1, <1>4 DEF OneUrl, Scoped
  <2>2. Range(config.fields.remoteUrls) =
          IF config.fields.remoteUrls = <<>> THEN {} ELSE {Head(config.fields.remoteUrls)}
    BY <1>2, <2>1 DEF Range
  <2>3. Attempts[i].kind = "raw-remote" => Attempts[i].kind # "raw-local"
    OBVIOUS
  <2> QED BY <1>4, <2>0, <2>1, <2>2, <2>3 DEF SourcesOf
<1> QED BY <1>3, <1>4

LEMMA LookedInit == Undisturbed /\ Init => LookInv
<1> SUFFICES ASSUME Undisturbed, Init PROVE LookInv
  OBVIOUS
<1>1. Inv
  BY TypeInit
<1>2. \A h \in Hours : task[h] = NoTask /\ asked[h] = {} /\ delivered[h] = "pending"
  BY DEF Init
<1>3. NoTask.pc = "unsubmitted" /\ NoTask.at = 1 /\ NoTask.got = None
  BY DEF NoTask
<1>4. None \notin Sources
  BY PmxtAssumption
<1> HIDE DEF NoTask
<1>5. Looked /\ Taken
  BY <1>2, <1>3, <1>4 DEF Looked, LookedFor, Taken
<1>6. Steady
  BY <1>2, <1>3 DEF Init, Steady, InAttempt, Trying
<1>7. Queued
  BY <1>2, <1>3 DEF Init, Queued, Hours
<1> QED BY <1>1, <1>5, <1>6, <1>7 DEF LookInv

\* A step of hour h's thread keeps LookInv, when it does so of its own hour.
LEMMA TaskLooked ==
  ASSUME LookInv, Inv', NEW h \in Hours,
         UNCHANGED <<world, takenVars>>, task[h].pc \notin {"unsubmitted", "done"},
         NEW t \in Task, task' = [task EXCEPT ![h] = t], t.pc # "unsubmitted",
         NEW A, asked' = [asked EXCEPT ![h] = A],
         LookedFor(h, t, A),
         t.pc \in InAttempt => t.at <= Len(Attempts),
         Scoped /\ t.pc \in InAttempt => t.saved = config.fields,
         Scoped /\ t.pc \in Trying => fields' = Bound(Attempts[t.at]),
         t.pc \notin Trying =>
           \/ fields' = config.fields
           \/ fields' = fields /\ task[h].pc \notin Trying
  PROVE  LookInv'
<1>1. task \in [Hours -> Task] /\ asked \in [Hours -> SUBSET Sources]
  BY DEF LookInv, Inv, TypeOK
<1>2. \A g \in Hours : /\ task'[g] = IF g = h THEN t ELSE task[g]
                       /\ asked'[g] = IF g = h THEN A ELSE asked[g]
  BY <1>1
<1>3. UNCHANGED <<config, holding, delivered, submitted, yielded>>
  BY DEF world, takenVars
<1>4. Steady'
  <2>1. Scoped' = Scoped /\ Attempts' = Attempts /\ \A a : Bound(a)' = Bound(a)
    BY <1>3 DEF Scoped, Attempts, Bound
  <2>2. ASSUME NEW g \in Hours, Scoped, task'[g].pc \in InAttempt PROVE task'[g].saved = config.fields
    BY <1>2, <2>2 DEF LookInv, Steady
  <2>3. ASSUME NEW g \in Hours, Scoped, task'[g].pc \in Trying
        PROVE  fields' = Bound(Attempts[task'[g].at])
    <3>1. CASE g = h
      BY <1>2, <2>3, <3>1
    <3>2. CASE g # h
      <4>1. task'[g] = task[g] /\ fields = Bound(Attempts[task[g].at])
        BY <1>2, <2>3, <3>2 DEF LookInv, Steady
      <4>2. ~OneThread(config)
        BY <2>3, <3>2, <4>1, Alone DEF Trying
      <4>3. OneTargetPerKind(config)
        BY <4>2, ConfigTyped DEF LookInv
      <4>4. task[g].at \in Nat \ {0} /\ task[g].at <= Len(Attempts)
        BY <1>1, <2>3, <4>1 DEF LookInv, Inv, Placed, Task, Trying, InAttempt
      <4>5. fields = config.fields /\ Bound(Attempts[task[g].at]) = config.fields
        BY <2>3, <4>1, <4>3, <4>4, BoundSame
      <4>6. t.pc \in Trying => Bound(Attempts[t.at]) = config.fields
        BY <2>3, <4>3, BoundSame DEF Task, Trying, InAttempt
      <4> QED BY <2>3, <4>1, <4>5, <4>6
    <3> QED BY <3>1, <3>2
  <2>4. ASSUME \A g \in Hours : task'[g].pc \notin Trying PROVE fields' = config.fields
    <3>1. t.pc \notin Trying
      BY <1>2, <2>4
    <3>2. task[h].pc \notin Trying => \A g \in Hours : task[g].pc \notin Trying
      BY <1>2, <2>4
    <3> QED BY <3>1, <3>2 DEF LookInv, Steady
  <2> QED BY <1>3, <2>1, <2>2, <2>3, <2>4 DEF Steady
<1>5. Looked'
  <2>1. Attempts' = Attempts /\ \A i : SourcesOf(Attempts[i])' = SourcesOf(Attempts[i])
    BY <1>3 DEF SourcesOf, Attempts, Scoped
  <2>2. ASSUME NEW g \in Hours PROVE LookedFor(g, task[g], asked[g])'
    <3>1. CASE g = h
      BY <1>2, <1>3, <2>1, <3>1 DEF LookedFor
    <3>2. CASE g # h
      <4>1. LookedFor(g, task[g], asked[g])
        BY DEF LookInv, Looked
      <4> QED BY <1>2, <1>3, <2>1, <3>2, <4>1 DEF LookedFor
    <3> QED BY <3>1, <3>2
  <2> QED BY <2>2 DEF Looked
<1>6. Taken'
  BY <1>2, <1>3 DEF LookInv, Taken
<1>7. Queued'
  BY <1>2, <1>3 DEF LookInv, Queued
<1> QED BY <1>4, <1>5, <1>6, <1>7 DEF LookInv

\* The end of an attempt that found s, or None when its sources have been asked.
LEMMA GotLooked ==
  ASSUME LookInv, Inv', NEW h \in Hours, UNCHANGED <<world, takenVars>>, fields' = fields,
         task[h].pc \in {"load", "fetch"},
         NEW s \in Sources \union {None, "error"}, Got(h, s),
         NEW A, asked' = [asked EXCEPT ![h] = A], asked[h] \subseteq A,
         s = None => SourcesOf(Attempts[task[h].at]) \subseteq A,
         s \in Sources => holding[s][h] = "good" /\ s \in SourcesOf(Attempts[task[h].at])
  PROVE  LookInv'
<1> DEFINE t == task'[h]
<1>1. task[h] \in Task /\ task \in [Hours -> Task] /\ task' \in [Hours -> Task]
  BY DEF LookInv, Inv, TypeOK
<1>2. /\ task' = [task EXCEPT ![h] = t] /\ t.got = s /\ t.at = task[h].at /\ t.saved = task[h].saved
      /\ t.pc = IF UsesCache /\ s \in Sources THEN "write" ELSE "leave"
  BY <1>1 DEF Got, Task
<1>3. LookedFor(h, task[h], asked[h]) /\ task[h].at <= Len(Attempts)
  BY DEF LookInv, Looked, Inv, Placed, InAttempt
<1>4. None \notin Sources
  BY PmxtAssumption
<1>5. LookedFor(h, t, A)
  BY <1>2, <1>3, <1>4 DEF LookedFor
<1>6. Scoped => t.saved = config.fields /\ fields = Bound(Attempts[t.at])
  BY <1>2 DEF LookInv, Steady, InAttempt, Trying
<1>7. t.pc \in Trying
  BY <1>2 DEF Trying
<1> HIDE DEF t
<1> QED BY <1>1, <1>2, <1>3, <1>5, <1>6, <1>7, TaskLooked

LEMMA TaskStepLooked ==
  ASSUME LookInv, NEW h \in Hours, TaskStep(h)
  PROVE  LookInv'
<1> DEFINE t == task'[h]
<1>1. Inv'
  BY TaskStepType DEF LookInv
<1>2. task[h] \in Task /\ task \in [Hours -> Task] /\ task' \in [Hours -> Task]
  BY <1>1 DEF LookInv, Inv, TypeOK
<1>3. asked' \in [Hours -> SUBSET Sources] /\ asked \in [Hours -> SUBSET Sources]
  BY <1>1 DEF LookInv, Inv, TypeOK
<1>4. /\ LookedFor(h, task[h], asked[h])
      /\ task[h].pc \in InAttempt => task[h].at <= Len(Attempts)
      /\ task[h].at \in Nat \ {0}
  BY <1>2 DEF LookInv, Looked, Inv, Placed, Task
<1>5. /\ Scoped /\ task[h].pc \in InAttempt => task[h].saved = config.fields
      /\ Scoped /\ task[h].pc \in Trying => fields = Bound(Attempts[task[h].at])
      /\ ~Scoped => fields = config.fields
      /\ task[h].pc = "bind" => Scoped
  BY DEF LookInv, Steady, Inv, Placed
<1>6. None \notin Sources /\ "cache" \notin Sources /\ None # "cache"
  BY PmxtAssumption DEF None
<1>7. asked = [asked EXCEPT ![h] = asked[h]]
  BY <1>3
<1>8. CASE ReadCache(h)
  <2>1. \/ t = [task[h] EXCEPT !.pc = "done", !.got = "cache"]
        \/ t = [task[h] EXCEPT !.pc = "next"]
    BY <1>2, <1>8 DEF ReadCache, Finish, Goto
  <2>2. task' = [task EXCEPT ![h] = t] /\ task[h].pc = "cache" /\ task[h].pc \notin Trying
    BY <1>2, <1>8 DEF ReadCache, Finish, Goto, At, Trying
  <2>3. /\ t \in Task /\ t.pc \in {"done", "next"} /\ t.at = task[h].at
        /\ (t.got = task[h].got /\ t.pc = "next") \/ t.got = "cache"
    BY <1>2, <2>1 DEF Task
  <2>4. LookedFor(h, t, asked[h])
    BY <1>4, <1>6, <2>3 DEF LookedFor
  <2>5. UNCHANGED <<world, takenVars, fields, asked>>
    BY <1>8 DEF ReadCache
  <2> HIDE DEF t
  <2> QED BY <1>1, <1>7, <2>2, <2>3, <2>4, <2>5, TaskLooked DEF InAttempt, Trying
<1>9. CASE NextAttempt(h)
  <2>1. task' = [task EXCEPT ![h] = t] /\ task[h].pc = "next" /\ fields = config.fields
    BY <1>2, <1>9, Found DEF NextAttempt, Finish, Goto, At
  <2>2. UNCHANGED <<world, takenVars, fields, asked>>
    BY <1>9 DEF NextAttempt
  <2>3. t \in Task /\ t.at = task[h].at
    BY <1>2, <1>9 DEF NextAttempt, Finish, Goto, Task
  <2>4. CASE task[h].at > Len(Attempts)
    <3>1. t.pc = "done" /\ t.got = None
      BY <1>2, <1>9, <2>4 DEF NextAttempt, Finish, Task
    <3>2. LookedFor(h, t, asked[h])
      BY <1>4, <1>6, <2>3, <2>4, <3>1 DEF LookedFor
    <3> HIDE DEF t
    <3> QED BY <1>1, <1>7, <2>1, <2>2, <2>3, <3>1, <3>2, TaskLooked DEF InAttempt, Trying
  <2>5. CASE ~(task[h].at > Len(Attempts))
    <3>1. /\ t.pc = (IF Scoped THEN "bind" ELSE "load") /\ t.got = task[h].got
          /\ Scoped => t.saved = fields
      BY <1>2, <1>9, <2>5 DEF NextAttempt, Goto, Task
    <3>2. LookedFor(h, t, asked[h])
      BY <1>4, <1>6, <2>3, <3>1 DEF LookedFor
    <3>3. t.at <= Len(Attempts)
      <4>1. Len(Attempts) \in Nat /\ task[h].at \in Nat
        BY <1>4, AttemptsTyped DEF LookInv
      <4> QED BY <2>3, <2>5, <4>1
    <3> HIDE DEF t
    <3> QED BY <1>1, <1>7, <2>1, <2>2, <2>3, <3>1, <3>2, <3>3, TaskLooked DEF Trying
  <2> QED BY <2>4, <2>5
<1>10. CASE BindFields(h)
  <2>1. task[h].pc = "bind" /\ Scoped /\ task[h].at <= Len(Attempts)
    BY <1>4, <1>5, <1>10 DEF BindFields, At, InAttempt
  <2>2. fields' = Bound(Attempts[t.at])
    <3>1. fields = config.fields
      BY <2>1, Found
    <3>2. t.at = task[h].at
      BY <1>2, <1>10 DEF BindFields, Goto, Task
    <3> QED BY <1>10, <3>1, <3>2 DEF BindFields, Bound, Current
  <2>3. /\ task' = [task EXCEPT ![h] = t] /\ t.pc = "load" /\ t.at = task[h].at
        /\ t.got = task[h].got /\ t.saved = task[h].saved /\ t \in Task
    BY <1>2, <1>10 DEF BindFields, Goto, Task
  <2>4. LookedFor(h, t, asked[h])
    BY <1>4, <2>3 DEF LookedFor
  <2>5. UNCHANGED <<world, takenVars, asked>>
    BY <1>10 DEF BindFields
  <2> HIDE DEF t
  <2> QED BY <1>1, <1>5, <1>7, <2>1, <2>2, <2>3, <2>4, <2>5, TaskLooked DEF InAttempt, Trying
<1>11. CASE LoadLocal(h)
  <2>1. /\ task[h].pc = "load" /\ task[h].at <= Len(Attempts)
        /\ SourcesOf(Attempts[task[h].at]) = {fields.rawRoot} \ {None}
    BY <1>4, <1>11, AttemptSources DEF LoadLocal, At, Current, InAttempt
  <2>2. UNCHANGED <<world, takenVars, fields>>
    BY <1>11 DEF LoadLocal
  <2>3. CASE fields.rawRoot = None
    <3>1. Got(h, None) /\ asked' = asked
      BY <1>11, <2>3 DEF LoadLocal
    <3> QED BY <1>1, <1>6, <1>7, <2>1, <2>2, <2>3, <3>1, GotLooked
  <2>4. CASE fields.rawRoot # None
    <3> DEFINE s == fields.rawRoot
               A == asked[h] \union {s}
    <3>1. s \in Sources
      BY <2>4 DEF LookInv, Inv, TypeOK, Fields
    <3>2. asked' = [asked EXCEPT ![h] = A] /\ asked[h] \subseteq A /\ s \in A
      BY <1>11, <2>4 DEF LoadLocal, Ask
    <3>3. holding[s][h] \in {"good", "missing", "bad"}
      BY <3>1, PmxtAssumption DEF LookInv, Inv, TypeOK
    <3>4. SourcesOf(Attempts[task[h].at]) = {s}
      BY <2>1, <2>4
    <3>5. \E r \in {s, None, "error"} : Got(h, r) /\ (r \in Sources => r = s /\ holding[s][h] = "good")
      <4>1. CASE holding[s][h] = "good"
        <5>1. Got(h, s)
          BY <1>11, <2>4, <4>1 DEF LoadLocal
        <5> QED BY <4>1, <5>1
      <4>2. CASE holding[s][h] = "missing"
        <5>1. Got(h, None)
          BY <1>11, <2>4, <4>2 DEF LoadLocal
        <5> QED BY <1>6, <5>1
      <4>3. CASE holding[s][h] = "bad"
        <5>1. Got(h, "error")
          BY <1>11, <2>4, <4>3 DEF LoadLocal
        <5> QED BY <5>1, PmxtAssumption
      <4> QED BY <3>3, <4>1, <4>2, <4>3
    <3>6. PICK r \in {s, None, "error"} :
            Got(h, r) /\ (r \in Sources => r = s /\ holding[s][h] = "good")
      BY <3>5
    <3>7. r \in Sources \union {None, "error"}
      BY <3>1
    <3>8. r = None => SourcesOf(Attempts[task[h].at]) \subseteq A
      BY <3>2, <3>4
    <3>9. r \in Sources => holding[r][h] = "good" /\ r \in SourcesOf(Attempts[task[h].at])
      BY <3>4, <3>6
    <3> HIDE DEF s, A
    <3> QED BY <1>1, <2>1, <2>2, <3>2, <3>6, <3>7, <3>8, <3>9, GotLooked
  <2> QED BY <2>3, <2>4
<1>12. CASE BeginRemote(h)
  <2>1. /\ task[h].pc = "load" /\ task[h].at <= Len(Attempts) /\ Len(fields.remoteUrls) <= 1
        /\ Attempts[task[h].at].kind = "raw-remote"
        /\ SourcesOf(Attempts[task[h].at]) =
             IF fields.remoteUrls = <<>> THEN {} ELSE {Head(fields.remoteUrls)}
    BY <1>4, <1>12, AttemptSources DEF BeginRemote, At, Current, InAttempt
  <2>2. UNCHANGED <<world, takenVars, fields, asked>>
    BY <1>12 DEF BeginRemote
  <2>3. CASE fields.remoteUrls = <<>>
    <3>1. Got(h, None)
      BY <1>12, <2>3 DEF BeginRemote
    <3> QED BY <1>1, <1>6, <1>7, <2>1, <2>2, <2>3, <3>1, GotLooked
  <2>4. CASE fields.remoteUrls # <<>>
    <3>1. /\ task' = [task EXCEPT ![h] = t] /\ t.pc = "fetch" /\ t.left = Len(fields.remoteUrls)
          /\ t.at = task[h].at /\ t.got = task[h].got /\ t.saved = task[h].saved /\ t \in Task
      BY <1>2, <1>12, <2>4 DEF BeginRemote, Task
    <3>2. LookedFor(h, t, asked[h])
      BY <1>4, <2>1, <3>1 DEF LookedFor
    <3> HIDE DEF t
    <3> QED BY <1>1, <1>5, <1>7, <2>1, <2>2, <3>1, <3>2, TaskLooked DEF InAttempt, Trying
  <2> QED BY <2>3, <2>4
<1>13. CASE Fetch(h)
  <2> DEFINE url == Head(fields.remoteUrls)
             A == asked[h] \union {url}
  <2>1. task[h].pc = "fetch" /\ task[h].at <= Len(Attempts) /\ task[h].left <= 1
    BY <1>4, <1>13 DEF Fetch, At, InAttempt, LookedFor
  <2>2. fields.remoteUrls \in Seq(Sources) /\ fields.remoteUrls # <<>>
    BY <2>1 DEF LookInv, Inv, TypeOK, Placed, UrlsKept, Fields
  <2>3. SourcesOf(Attempts[task[h].at]) = {url} /\ url \in Sources
    BY <1>4, <2>1, <2>2, AttemptSources, HeadType DEF LookedFor
  <2>4. UNCHANGED <<world, takenVars, fields>> /\ asked' = [asked EXCEPT ![h] = A]
    BY <1>13 DEF Fetch, Ask
  <2>5. asked[h] \subseteq A /\ url \in A
    OBVIOUS
  <2> HIDE DEF url, A
  <2>6. CASE holding[url][h] = "good" /\ Got(h, url)
    BY <1>1, <1>6, <2>1, <2>3, <2>4, <2>5, <2>6, GotLooked
  <2>7. CASE Got(h, None)
    BY <1>1, <1>6, <2>1, <2>3, <2>4, <2>5, <2>7, GotLooked
  <2>8. task[h].left \in Nat /\ ~(task[h].left > 1)
    BY <1>2, <2>1 DEF Task
  <2> QED BY <1>13, <2>6, <2>7, <2>8 DEF Fetch, url
<1>14. CASE WriteCache(h)
  <2>1. /\ task[h].pc = "write" /\ task' = [task EXCEPT ![h] = t] /\ t.pc = "leave"
        /\ t.at = task[h].at /\ t.got = task[h].got /\ t.saved = task[h].saved /\ t \in Task
    BY <1>2, <1>14 DEF WriteCache, At, Goto, Task
  <2>2. LookedFor(h, t, asked[h])
    BY <1>4, <1>6, <2>1 DEF LookedFor
  <2>3. UNCHANGED <<world, takenVars, fields, asked>>
    BY <1>14 DEF WriteCache
  <2> HIDE DEF t
  <2> QED BY <1>1, <1>4, <1>5, <1>7, <2>1, <2>2, <2>3, TaskLooked DEF InAttempt, Trying
<1>15. CASE LeaveAttempt(h)
  <2>1. task[h].pc = "leave" /\ task' = [task EXCEPT ![h] = t] /\ t \in Task
    BY <1>2, <1>15 DEF LeaveAttempt, AfterAttempt, At
  <2>2. UNCHANGED <<world, takenVars, asked>> /\ fields' = config.fields
    BY <1>5, <1>15, <2>1 DEF LeaveAttempt, InAttempt
  <2>3. CASE task[h].got = None
    <3>1. t.pc = "next" /\ t.at = task[h].at + 1 /\ t.got = None
      BY <1>2, <1>15, <2>3 DEF LeaveAttempt, AfterAttempt, Task
    <3>2. \A j \in 1..(t.at - 1) : j \in 1..(task[h].at - 1) \/ j = task[h].at
      BY <1>4, <3>1
    <3>3. LookedFor(h, t, asked[h])
      BY <1>4, <1>6, <2>1, <2>3, <3>1, <3>2 DEF LookedFor
    <3> HIDE DEF t
    <3> QED BY <1>1, <1>7, <2>1, <2>2, <3>1, <3>3, TaskLooked DEF InAttempt, Trying
  <2>4. CASE task[h].got # None
    <3>1. t.pc = "done" /\ t.at = task[h].at /\ t.got = task[h].got
      BY <1>2, <1>15, <2>4 DEF LeaveAttempt, AfterAttempt, Task
    <3>2. LookedFor(h, t, asked[h])
      BY <1>4, <2>4, <3>1 DEF LookedFor
    <3> HIDE DEF t
    <3> QED BY <1>1, <1>7, <2>1, <2>2, <3>1, <3>2, TaskLooked DEF InAttempt, Trying
  <2> QED BY <2>3, <2>4
<1> QED BY <1>8, <1>9, <1>10, <1>11, <1>12, <1>13, <1>14, <1>15 DEF TaskStep

LEMMA ConsumerLooked ==
  ASSUME LookInv, StartLoad \/ Consumer \/ Kill
  PROVE  LookInv'
<1>1. Inv'
  BY StartType, ConsumerType DEF LookInv
<1>2. task \in [Hours -> Task] /\ delivered \in [Hours -> Sources \union {None, "cache", "pending"}]
  BY DEF LookInv, Inv, TypeOK
<1>3. UNCHANGED <<config, holding>>
  BY DEF StartLoad, Consumer, Yield, Take, YieldRaises, LeavePool, Kill, world
<1>4. /\ Scoped' = Scoped /\ Attempts' = Attempts
      /\ \A a : Bound(a)' = Bound(a) /\ SourcesOf(a)' = SourcesOf(a)
  BY <1>3 DEF SourcesOf, Attempts, Scoped, Bound
<1>5. CASE StartLoad
  <2>1. fields' = config.fields
    BY <1>5 DEF StartLoad
  <2>2. NoTask.at = 1 /\ NoTask.got = None /\ NoTask.pc = "unsubmitted" /\ NoTask \in Task
    BY DEF NoTask, Task, Fields, Pcs, None
  <2>3. ASSUME NEW h \in Hours
        PROVE  task'[h].at = 1 /\ task'[h].got = None /\ task'[h].pc \in {"unsubmitted", "cache"}
    <3>1. task'[h] = [NoTask EXCEPT !.pc = IF h <= MaxWorkers THEN "cache" ELSE NoTask.pc]
      BY <1>5 DEF StartLoad
    <3> HIDE DEF NoTask
    <3> QED BY <2>2, <3>1 DEF Task
  <2>4. \A h \in Hours : delivered'[h] = "pending"
    BY <1>5 DEF StartLoad
  <2>5. None \notin Sources
    BY PmxtAssumption
  <2>6. Steady' /\ Taken'
    BY <1>3, <2>1, <2>3, <2>4 DEF Steady, Taken, InAttempt, Trying
  <2>7. Looked'
    BY <2>3, <2>5 DEF Looked, LookedFor
  <2>8. Queued'
    <3>1. ASSUME NEW h \in Hours
          PROVE  ~(h <= yielded') /\ (h > submitted' => task'[h].pc = "unsubmitted")
      <4>1. yielded' = 0 /\ submitted' = MaxWorkers
        BY <1>5 DEF StartLoad
      <4>2. h \in Nat \ {0} /\ MaxWorkers \in Nat
        BY WorkersType DEF LookInv, Inv, Hours
      <4>3. h > MaxWorkers => task'[h] = [NoTask EXCEPT !.pc = NoTask.pc]
        BY <1>5, <4>2 DEF StartLoad
      <4>4. h > MaxWorkers => task'[h].pc = "unsubmitted"
        BY <4>3 DEF NoTask
      <4> QED BY <4>1, <4>2, <4>4
    <3> QED BY <3>1 DEF Queued
  <2> QED BY <1>1, <1>3, <2>6, <2>7, <2>8 DEF LookInv
<1>6. CASE Yield
  <2> DEFINE n == IF submitted < NumHours THEN submitted + 1 ELSE submitted
  <2>1. /\ Awaited \in Hours /\ task[Awaited].pc = "done"
        /\ delivered' = [delivered EXCEPT ![Awaited] = task[Awaited].got]
        /\ task' = Submit(n) /\ UNCHANGED <<fields, asked>>
        /\ submitted' = n /\ yielded' = yielded + 1
    BY <1>6 DEF Yield, Take, Ready, Awaited
  <2>0. /\ n \in Nat /\ submitted <= n /\ yielded \in Nat /\ submitted \in Nat
        /\ Awaited = yielded + 1 /\ Hours \subseteq Nat
    BY PmxtAssumption DEF LookInv, Inv, TypeOK, Hours, Awaited
  <2> HIDE DEF n
  <2>2. ASSUME NEW h \in Hours
        PROVE  \/ task'[h] = task[h]
               \/ /\ task[h].pc = "unsubmitted" /\ task'[h].pc = "cache"
                  /\ task'[h].at = task[h].at /\ task'[h].got = task[h].got
    <3>1. \/ task'[h] = task[h]
          \/ task[h].pc = "unsubmitted" /\ task'[h] = [task[h] EXCEPT !.pc = "cache"]
      BY <2>1 DEF Submit
    <3>2. task[h] \in Task
      BY <1>2
    <3> QED BY <3>1, <3>2 DEF Task
  <2>3. Steady'
    <3>1. ASSUME NEW h \in Hours
          PROVE  /\ task'[h].pc \in Trying <=> task[h].pc \in Trying
                 /\ task'[h].pc \in InAttempt => task'[h] = task[h]
      BY <2>2 DEF Trying, InAttempt
    <3>2. Trying \subseteq InAttempt
      BY DEF Trying, InAttempt
    <3> QED BY <1>3, <1>4, <2>1, <3>1, <3>2 DEF LookInv, Steady
  <2>4. ASSUME NEW h \in Hours PROVE LookedFor(h, task[h], asked[h])'
    <3>1. LookedFor(h, task[h], asked[h])
      BY DEF LookInv, Looked
    <3> QED BY <1>3, <1>4, <2>1, <2>2, <3>1 DEF LookedFor
  <2>5. Taken'
    BY <1>2, <2>1, <2>2 DEF LookInv, Taken
  <2>6. Queued'
    <3>1. ASSUME NEW h \in Hours, h <= yielded'
          PROVE  task'[h].pc = "done"
      <4>1. task[h].pc = "done"
        <5>1. CASE h = Awaited
          BY <2>1, <5>1
        <5>2. CASE h # Awaited
          BY <2>0, <2>1, <3>1, <5>2 DEF LookInv, Queued
        <5> QED BY <5>1, <5>2
      <4> QED BY <2>2, <4>1
    <3>2. ASSUME NEW h \in Hours, h > submitted'
          PROVE  task'[h].pc = "unsubmitted"
      <4>1. task[h].pc = "unsubmitted" /\ ~(h <= n)
        BY <2>0, <2>1, <3>2 DEF LookInv, Queued
      <4> QED BY <2>1, <4>1 DEF Submit
    <3> QED BY <3>1, <3>2 DEF Queued
  <2> QED BY <1>1, <1>3, <2>3, <2>4, <2>5, <2>6 DEF LookInv, Looked
<1>7. CASE YieldRaises \/ LeavePool \/ Kill
  <2>1. UNCHANGED <<fields, task, asked, delivered, submitted, yielded>>
    BY <1>7 DEF YieldRaises, LeavePool, Kill
  <2>2. Looked'
    BY <1>3, <1>4, <2>1 DEF LookInv, Looked, LookedFor
  <2>3. Steady' /\ Taken' /\ Queued'
    BY <1>3, <1>4, <2>1 DEF LookInv, Steady, Taken, Queued
  <2> QED BY <1>1, <2>2, <2>3 DEF LookInv
<1> QED BY <1>5, <1>6, <1>7 DEF Consumer

LEMMA LookedNext == LookInv /\ [Next]_pmxtVars => LookInv'
<1> SUFFICES ASSUME LookInv, [Next]_pmxtVars PROVE LookInv'
  OBVIOUS
<1>1. CASE \E h \in Hours : TaskStep(h)
  BY <1>1, TaskStepLooked
<1>2. CASE UNCHANGED pmxtVars
  <2>1. Inv'
    BY <1>2, TypeNext DEF LookInv
  <2>2. UNCHANGED <<config, holding, fields, task, asked, delivered, submitted, yielded>>
    BY <1>2 DEF pmxtVars, world, takenVars
  <2>3. /\ Scoped' = Scoped /\ Attempts' = Attempts
        /\ \A a : Bound(a)' = Bound(a) /\ SourcesOf(a)' = SourcesOf(a)
    BY <2>2 DEF SourcesOf, Attempts, Scoped, Bound
  <2>4. Looked'
    BY <2>2, <2>3 DEF LookInv, Looked, LookedFor
  <2>5. Steady' /\ Taken' /\ Queued'
    BY <2>2, <2>3 DEF LookInv, Steady, Taken, Queued
  <2> QED BY <2>1, <2>4, <2>5 DEF LookInv
<1> QED BY <1>1, <1>2, ConsumerLooked DEF Next

LEMMA LookedSafe == LookInv => FirstSourceWins /\ MissConfirmed
<1> SUFFICES ASSUME LookInv, NEW h \in Hours, delivered[h] # "pending"
             PROVE  /\ delivered[h] \in Sources =>
                         /\ holding[delivered[h]][h] = "good"
                         /\ \E i \in DOMAIN Attempts :
                              /\ delivered[h] \in SourcesOf(Attempts[i])
                              /\ \A j \in 1..(i - 1) : SourcesOf(Attempts[j]) \subseteq asked[h]
                    /\ delivered[h] = None =>
                         \A i \in DOMAIN Attempts : SourcesOf(Attempts[i]) \subseteq asked[h]
  BY PmxtAssumption DEF FirstSourceWins, MissConfirmed, None
<1>1. delivered[h] = task[h].got /\ task[h].pc = "done" /\ LookedFor(h, task[h], asked[h])
  BY DEF LookInv, Taken, Looked
<1>2. task[h].at \in Nat \ {0}
  BY DEF LookInv, Inv, TypeOK, Task
<1>3. Len(Attempts) \in Nat /\ DOMAIN Attempts = 1..Len(Attempts)
  <2>1. config \in Config
    BY PmxtAssumption DEF LookInv, Inv, TypeOK
  <2> QED BY <2>1 DEF Config, Attempts
<1>4. delivered[h] \in Sources => task[h].at \in DOMAIN Attempts
  BY <1>1, <1>2, <1>3 DEF LookedFor
<1>5. delivered[h] = None => \A i \in DOMAIN Attempts : i \in 1..(task[h].at - 1)
  BY <1>1, <1>2, <1>3 DEF LookedFor
<1> QED BY <1>1, <1>4, <1>5 DEF LookedFor

\* With one thread, or with at most one source of a kind, the threads cannot disturb each other:
\* whatever the interleaving, the faults and the restarts, the first source that has an hour
\* delivers it (_scoped_source_entry, backtesting/data_sources/pmxt.py).
THEOREM LeftToRight == Undisturbed => (Spec => []FirstSourceWins)
<1> SUFFICES ASSUME Undisturbed PROVE Spec => []FirstSourceWins
  OBVIOUS
<1>1. Init => LookInv
  BY LookedInit
<1> QED BY <1>1, LookedNext, LookedSafe, PTL DEF Spec

\* Nor is an hour given up then before every source was asked for it.
THEOREM NoHourLost == Undisturbed => (Spec => []MissConfirmed)
<1> SUFFICES ASSUME Undisturbed PROVE Spec => []MissConfirmed
  OBVIOUS
<1>1. Init => LookInv
  BY LookedInit
<1> QED BY <1>1, LookedNext, LookedSafe, PTL DEF Spec

-----------------------------------------------------------------------------
(* The records of a load, in the engine: E are the records as the hours make *)
(* them, F the same sorted.                                                *)

Event == [type : {"deltas", "quote"}, payload : Payload, book : Seq(Payload)]
Replay == [book : Seq(Payload), events : Seq(Event)]

\* d and q are what one payload of the window makes.
ShownBy(d, q) ==
  /\ d.type = "deltas" /\ q.type = "quote" /\ d.payload = q.payload
  /\ InWindow(q.payload)
  /\ q.payload.kind = "snapshot" => q.book = <<q.payload>>

\* E is what n payloads made: each applied to the book the one before it left.
Emission(E, n) ==
  /\ E \in Seq(Event) /\ Len(E) = 2 * n
  /\ \A i \in 1 .. n : ShownBy(E[2 * i - 1], E[2 * i])
  /\ \A i \in 2 .. n : E[2 * i].book = Apply(E[2 * i - 2].book, E[2 * i].payload)
  /\ \A i, j \in 1 .. n : i <= j => E[2 * i].payload.ts <= E[2 * j].payload.ts

LEMMA ApplyTyped ==
  ASSUME NEW book \in Seq(Payload), NEW p \in Payload
  PROVE  Apply(book, p) \in Seq(Payload)
  BY DEF Apply

LEMMA EventsTyped ==
  ASSUME NEW p \in Payload, NEW b \in Seq(Payload)
  PROVE  /\ Deltas(p) \in Event /\ Quote(p, b) \in Event
         /\ Quote(p, b).payload = p /\ Quote(p, b).book = b
         /\ InWindow(p) /\ (p.kind = "snapshot" => b = <<p>>) => ShownBy(Deltas(p), Quote(p, b))
<1> DEFINE none == <<>>
<1>1. none \in Seq(Payload)
  OBVIOUS
<1>2. Deltas(p) = [type |-> "deltas", payload |-> p, book |-> none]
  BY DEF Deltas
<1> HIDE DEF none
<1>3. Deltas(p) \in Event /\ Deltas(p).type = "deltas" /\ Deltas(p).payload = p
  BY <1>1, <1>2 DEF Event
<1>4. /\ Quote(p, b) \in Event /\ Quote(p, b).type = "quote"
      /\ Quote(p, b).payload = p /\ Quote(p, b).book = b
  BY DEF Event, Quote
<1> QED BY <1>3, <1>4 DEF ShownBy

\* One more payload
LEMMA EmissionGrows ==
  ASSUME NEW n \in Nat, NEW E, Emission(E, n), NEW p \in Payload, InWindow(p), NEW b \in Seq(Payload),
         p.kind = "snapshot" => b = <<p>>, n > 0 => b = Apply(E[2 * n].book, p),
         \A i \in 1 .. n : E[2 * i].payload.ts <= p.ts
  PROVE  /\ Emission(E \o <<Deltas(p), Quote(p, b)>>, n + 1)
         /\ (E \o <<Deltas(p), Quote(p, b)>>)[2 * (n + 1)] = Quote(p, b)
         /\ \A i \in 1 .. n : (E \o <<Deltas(p), Quote(p, b)>>)[2 * i] = E[2 * i]
<1> DEFINE d == Deltas(p)
           q == Quote(p, b)
           F == E \o <<d, q>>
           last == 2 * (n + 1)
<1>1. d \in Event /\ q \in Event /\ q.payload = p /\ q.book = b /\ ShownBy(d, q)
  BY EventsTyped
<1> HIDE DEF d, q
<1>2. E \in Seq(Event) /\ Len(E) = 2 * n
  BY DEF Emission
<1>3. F \in Seq(Event) /\ Len(F) = Len(E) + 2
  BY <1>1, <1>2
<1>4. \A k \in 1 .. Len(E) : F[k] = E[k]
  BY <1>1, <1>2
<1>5. F[Len(E) + 1] = d /\ F[Len(E) + 2] = q
  BY <1>1, <1>2
<1> HIDE DEF F
<1>6. F[2 * (n + 1) - 1] = d /\ F[2 * (n + 1)] = q /\ Len(F) = 2 * (n + 1)
  <2>1. Len(E) + 1 = 2 * (n + 1) - 1 /\ Len(E) + 2 = 2 * (n + 1)
    BY <1>2
  <2> QED BY <1>3, <1>5, <2>1
<1>7. \A i \in 1 .. n : F[2 * i - 1] = E[2 * i - 1] /\ F[2 * i] = E[2 * i]
  <2> TAKE i \in 1 .. n
  <2>1. 2 * i - 1 \in 1 .. 2 * n /\ 2 * i \in 1 .. 2 * n
    OBVIOUS
  <2> QED BY <1>2, <1>4, <2>1
<1>8. \A i \in 1 .. n + 1 : i \in 1 .. n \/ i = n + 1
  OBVIOUS
<1>9. \A i \in 1 .. n + 1 : ShownBy(F[2 * i - 1], F[2 * i])
  BY <1>1, <1>6, <1>7, <1>8 DEF Emission
<1>10. \A i \in 2 .. n + 1 : F[2 * i].book = Apply(F[2 * i - 2].book, F[2 * i].payload)
  <2> TAKE i \in 2 .. n + 1
  <2>1. 2 * i - 2 = 2 * (i - 1) /\ i - 1 \in 1 .. n
    OBVIOUS
  <2>2. F[2 * i - 2] = E[2 * i - 2]
    BY <1>7, <2>1
  <2>3. CASE i = n + 1
    <3>1. n > 0 /\ i - 1 = n
      BY <2>3
    <3>2. F[2 * i - 2].book = E[2 * n].book
      BY <2>1, <2>2, <3>1
    <3> QED BY <1>1, <1>6, <2>3, <3>1, <3>2
  <2>4. CASE i # n + 1
    <3>1. i \in 2 .. n /\ i \in 1 .. n
      BY <2>4
    <3> QED BY <1>7, <2>2, <3>1 DEF Emission
  <2> QED BY <2>3, <2>4
<1>11. \A i, j \in 1 .. n + 1 : i <= j => F[2 * i].payload.ts <= F[2 * j].payload.ts
  <2>1. p.ts <= p.ts
    BY DEF Payload
  <2>2. \A i \in 1 .. n : F[2 * i].payload.ts <= p.ts
    BY <1>7
  <2>3. F[2 * (n + 1)].payload.ts = p.ts
    BY <1>1, <1>6
  <2>4. \A i, j \in 1 .. n : i <= j => F[2 * i].payload.ts <= F[2 * j].payload.ts
    BY <1>7 DEF Emission
  <2>5. \A i \in 1 .. n : ~(n + 1 <= i)
    OBVIOUS
  <2> QED BY <1>8, <2>1, <2>2, <2>3, <2>4, <2>5
<1>12. Emission(F, n + 1)
  BY <1>3, <1>6, <1>9, <1>10, <1>11 DEF Emission
<1> QED BY <1>6, <1>7, <1>12 DEF F, d, q

\* What a replay has made when the payloads of the times U are still to come.
Replayed(state, U) ==
  \E n \in Nat :
    /\ Emission(state.events, n)
    /\ \A i \in 1 .. n, u \in U : state.events[2 * i].payload.ts <= u
    /\ n > 0 => state.book = state.events[2 * n].book \/ \A u \in U : u > WindowEnd

\* One more payload keeps it.
LEMMA ProcessReplays ==
  ASSUME NEW state \in Replay, NEW U \in SUBSET Int, Replayed(state, U),
         NEW p \in Payload, p.ts \in U, NEW V \in SUBSET U, \A u \in V : p.ts <= u
  PROVE  Process(state, p) \in Replay /\ Replayed(Process(state, p), V)
<1> DEFINE b == Apply(state.book, p)
           st == Emit(state, p, b)
<1>1. PICK n \in Nat :
        /\ Emission(state.events, n)
        /\ \A i \in 1 .. n, u \in U : state.events[2 * i].payload.ts <= u
        /\ n > 0 => state.book = state.events[2 * n].book \/ \A u \in U : u > WindowEnd
  BY DEF Replayed
<1>2. state.book \in Seq(Payload) /\ state.events \in Seq(Event) /\ p.ts \in Int
  BY DEF Replay, Payload
<1>3. b \in Seq(Payload) /\ (p.kind = "snapshot" => b = <<p>>)
  BY <1>2, ApplyTyped DEF Apply
<1>4. CASE p.kind = "change" /\ state.book = <<>>
  <2>1. Process(state, p) = state
    BY <1>4 DEF Process
  <2>2. Replayed(state, V)
    BY <1>1 DEF Replayed
  <2> QED BY <2>1, <2>2
<1>5. CASE ~(p.kind = "change" /\ state.book = <<>>)
  <2>1. Process(state, p) = st
    BY <1>5 DEF Process
  <2> HIDE DEF b
  <2>2. CASE InWindow(p)
    <3> DEFINE E == state.events
               F == E \o <<Deltas(p), Quote(p, b)>>
    <3>1. st = [book |-> b, events |-> F]
      BY <2>2 DEF Emit
    <3>2. n > 0 => b = Apply(E[2 * n].book, p)
      <4>1. ~(\A u \in U : u > WindowEnd)
        BY <1>2, <2>2, WindowAssumption DEF InWindow
      <4> QED BY <1>1, <4>1 DEF b
    <3>3. \A i \in 1 .. n : E[2 * i].payload.ts <= p.ts
      BY <1>1
    <3> HIDE DEF E
    <3>4. Emission(E, n)
      BY <1>1 DEF E
    <3>5. /\ Emission(F, n + 1) /\ F[2 * (n + 1)] = Quote(p, b)
          /\ \A i \in 1 .. n : F[2 * i] = E[2 * i]
      BY <1>3, <2>2, <3>2, <3>3, <3>4, EmissionGrows
    <3>6. Quote(p, b).payload = p /\ Quote(p, b).book = b
      BY <1>3, EventsTyped
    <3> HIDE DEF F, st
    <3>7. st.book = b /\ st.events = F /\ F \in Seq(Event) /\ st \in Replay
      BY <1>3, <3>1, <3>5 DEF Replay, Emission
    <3>8. \A i \in 1 .. n + 1, u \in V : F[2 * i].payload.ts <= u
      <4> TAKE i \in 1 .. n + 1, u \in V
      <4>1. CASE i = n + 1
        BY <3>5, <3>6, <4>1
      <4>2. CASE i # n + 1
        <5>1. i \in 1 .. n /\ u \in U
          BY <4>2
        <5>2. E[2 * i].payload.ts <= u
          BY <1>1, <5>1 DEF E
        <5> QED BY <3>5, <5>1, <5>2
      <4> QED BY <4>1, <4>2
    <3>9. n + 1 \in Nat /\ st.book = F[2 * (n + 1)].book
      BY <3>5, <3>6, <3>7
    <3>10. Replayed(st, V)
      BY <3>5, <3>7, <3>8, <3>9 DEF Replayed
    <3> QED BY <2>1, <3>7, <3>10
  <2>3. CASE ~InWindow(p)
    <3>1. st = [book |-> b, events |-> state.events]
      BY <2>3 DEF Emit
    <3> HIDE DEF st
    <3>2. st \in Replay /\ st.events = state.events
      BY <1>2, <1>3, <3>1 DEF Replay
    <3>3. n > 0 => \A u \in V : u > WindowEnd
      <4> SUFFICES ASSUME n > 0, NEW u \in V PROVE u > WindowEnd
        OBVIOUS
      <4> DEFINE q == state.events[2].payload
      <4>1. 1 \in 1 .. n /\ 2 * 1 = 2 /\ 2 * 1 - 1 = 1
        OBVIOUS
      <4>2. InWindow(q) /\ q.ts <= p.ts
        BY <1>1, <4>1 DEF Emission, ShownBy
      <4>3. q.ts \in Int
        <5>1. state.events \in Seq(Event) /\ 2 \in 1 .. Len(state.events)
          BY <1>1, <1>2 DEF Emission
        <5>2. state.events[2] \in Event
          BY <5>1
        <5> QED BY <5>2 DEF Event, Payload
      <4> HIDE DEF q
      <4>4. p.ts > WindowEnd
        BY <1>2, <2>3, <4>2, <4>3, WindowAssumption DEF InWindow
      <4>5. p.ts <= u /\ u \in Int
        OBVIOUS
      <4> QED BY <1>2, <4>4, <4>5, WindowAssumption
    <3>4. \A i \in 1 .. n, u \in V : st.events[2 * i].payload.ts <= u
      BY <1>1, <3>2
    <3>5. Replayed(st, V)
      BY <1>1, <3>2, <3>3, <3>4 DEF Replayed
    <3> QED BY <2>1, <3>2, <3>5
  <2> QED BY <2>2, <2>3
<1> QED BY <1>4, <1>5

Sooner(s) == {p \in (DOMAIN s) \X (DOMAIN s) : Before(s[p[1]], s[p[2]])}

\* The rows of an hour, sorted
LEMMA HourSorted ==
  ASSUME NEW rows \in Seq(Payload)
  PROVE  LET s == StableSort(rows, Before)
         IN  /\ s \in Seq(Payload)
             /\ \A k \in 1 .. Len(s) : \E i \in DOMAIN rows : s[k] = rows[i]
             /\ \A k, l \in 1 .. Len(s) : k <= l => s[k].ts <= s[l].ts
<1> DEFINE less == Sooner(rows)
           before(i) == {j \in DOMAIN rows : Before(rows[j], rows[i]) \/ (~Before(rows[i], rows[j]) /\ j < i)}
           ranked == [k \in 1 .. Cardinality(DOMAIN rows) |->
                    CHOOSE i \in DOMAIN rows : Cardinality(before(i)) = k - 1]
           s == StableSort(rows, Before)
<1>1. s = [k \in DOMAIN rows |-> rows[ranked[k]]]
  BY DEF StableSort, Ranked
<1> HIDE DEF s
<1>2. Len(rows) \in Nat /\ DOMAIN rows = 1 .. Len(rows)
  OBVIOUS
<1>3. \A i \in 1 .. Len(rows) : rows[i] \in Payload /\ rows[i].ts \in Int /\ rows[i].kind \in {"snapshot", "change"}
  <2>1. \A p \in Payload : p.ts \in Int /\ p.kind \in {"snapshot", "change"}
    BY DEF Payload
  <2>2. \A i \in 1 .. Len(rows) : rows[i] \in Payload
    OBVIOUS
  <2> QED BY <2>1, <2>2
<1>4. \A i, j \in 1 .. Len(rows) : <<i, j>> \in less <=>
        rows[i].ts < rows[j].ts \/ (rows[i].ts = rows[j].ts /\ rows[i].kind = "snapshot" /\ rows[j].kind = "change")
  BY <1>2 DEF Sooner, Before
<1>5. less \subseteq (DOMAIN rows) \X (DOMAIN rows)
  BY DEF Sooner
<1>6. \A i \in DOMAIN rows : Cardinality(before(i)) = RankOf(Stable(rows, less), DOMAIN rows, i)
  <2> TAKE i \in DOMAIN rows
  <2>1. before(i) = {j \in DOMAIN rows : <<j, i>> \in Stable(rows, less)}
    BY DEF Stable, Sooner
  <2> QED BY <2>1 DEF RankOf
<1> HIDE DEF less, before
<1>7. WeakOrder(rows, less)
  <2>1. \A i, j \in 1 .. Len(rows) : <<i, j>> \in less => <<j, i>> \notin less
    BY <1>3, <1>4
  <2>2. \A i, j, k \in 1 .. Len(rows) : <<i, j>> \in less => <<i, k>> \in less \/ <<k, j>> \in less
    BY <1>3, <1>4
  <2> QED BY <1>2, <1>5, <2>1, <2>2 DEF WeakOrder
<1>8. \A k \in DOMAIN rows : ranked[k] = CHOOSE i \in DOMAIN rows : RankOf(Stable(rows, less), DOMAIN rows, i) = k - 1
  <2>1. Cardinality(DOMAIN rows) = Len(rows)
    <3>1. \A n \in Nat : Cardinality(1 .. n) = n
      BY FS_Interval
    <3> QED BY <1>2, <3>1
  <2> TAKE k \in DOMAIN rows
  <2>2. ranked[k] = CHOOSE i \in DOMAIN rows : Cardinality(before(i)) = k - 1
    BY <1>2, <2>1
  <2> HIDE DEF ranked
  <2> QED BY <1>6, <2>2
<1> HIDE DEF ranked
<1>9. s = SortedBy(rows, less)
  BY <1>1, <1>8 DEF SortedBy
<1>10. PICK q : Sorts(s, rows, less, q)
  BY <1>2, <1>7, <1>9, SortedBySorts
<1>11. s = [k \in 1 .. Len(rows) |-> rows[q[k]]] /\ \A k \in 1 .. Len(rows) : q[k] \in 1 .. Len(rows)
  BY <1>2, <1>10 DEF Sorts
<1>12. s \in Seq(Payload) /\ Len(s) = Len(rows)
  <2>1. \A k \in 1 .. Len(rows) : rows[q[k]] \in Payload
    BY <1>3, <1>11
  <2> QED BY <1>2, <1>11, <2>1
<1>13. \A k \in 1 .. Len(s) : s[k] = rows[q[k]] /\ q[k] \in 1 .. Len(rows)
  BY <1>11, <1>12
<1>14. \A k, l \in 1 .. Len(s) : k <= l => s[k].ts <= s[l].ts
  <2> SUFFICES ASSUME NEW k \in 1 .. Len(s), NEW l \in 1 .. Len(s), k <= l PROVE s[k].ts <= s[l].ts
    OBVIOUS
  <2>1. CASE k = l
    <3>1. rows[q[k]].ts <= rows[q[k]].ts
      BY <1>3, <1>13
    <3> QED BY <1>13, <2>1, <3>1
  <2>2. CASE k < l
    <3>1. <<q[l], q[k]>> \notin less
      BY <1>2, <1>10, <1>12, <2>2 DEF Sorts
    <3>2. q[k] \in 1 .. Len(rows) /\ q[l] \in 1 .. Len(rows)
      BY <1>13
    <3>3. ~(rows[q[l]].ts < rows[q[k]].ts)
      BY <1>4, <3>1, <3>2
    <3>4. rows[q[l]].ts \in Int /\ rows[q[k]].ts \in Int
      BY <1>3, <3>2
    <3> QED BY <1>13, <3>3, <3>4
  <2> QED BY <1>12, <2>1, <2>2
<1>15. \A k \in 1 .. Len(s) : \E i \in DOMAIN rows : s[k] = rows[i]
  BY <1>2, <1>13
<1> QED BY <1>12, <1>14, <1>15 DEF s

\* The times of a list of payloads
Times(rows) == {rows[i].ts : i \in DOMAIN rows}

\* The recursions of a load have solutions.
LEMMA ReplayStages ==
  ASSUME NEW start \in Replay, NEW m \in Nat, NEW step \in [1 .. m -> [Replay -> Replay]]
  PROVE  \E f \in [0 .. m -> Replay] : f[0] = start /\ \A n \in 1 .. m : f[n] = step[n][f[n - 1]]
BY FoldStages

\* A payload makes a replay of a replay.
LEMMA ProcessTyped ==
  ASSUME NEW state \in Replay, NEW p \in Payload
  PROVE  Process(state, p) \in Replay
<1> DEFINE b == Apply(state.book, p)
           d == Deltas(p)
           q == Quote(p, b)
           E == state.events
           e == IF InWindow(p) THEN E \o <<d, q>> ELSE E
<1>1. state.book \in Seq(Payload) /\ E \in Seq(Event)
  BY DEF Replay
<1>2. b \in Seq(Payload)
  BY <1>1, ApplyTyped
<1>3. d \in Event /\ q \in Event
  BY <1>2, EventsTyped
<1>4. Emit(state, p, b) = [book |-> b, events |-> e]
  BY DEF Emit
<1>5. Process(state, p) \in {state, Emit(state, p, b)}
  BY DEF Process
<1> HIDE DEF b, d, q, E
<1>6. e \in Seq(Event)
  BY <1>1, <1>3
<1> HIDE DEF e
<1> QED BY <1>2, <1>4, <1>5, <1>6 DEF Replay

\* The replays an hour goes through
LEMMA HourSteps ==
  ASSUME NEW state \in Replay, NEW rows \in Seq(Payload)
  PROVE  LET s == StableSort(rows, Before)
         IN  \E h \in [0 .. Len(s) -> Replay] :
               /\ h[0] = state /\ \A n \in 1 .. Len(s) : h[n] = Process(h[n - 1], s[n])
               /\ ReplayHour(state, rows) = h[Len(s)]
<1> DEFINE s == StableSort(rows, Before)
           m == Len(s)
           Is(f) == f = [n \in 0 .. m |-> IF n = 0 THEN state ELSE Process(f[n - 1], s[n])]
           h == CHOOSE f : Is(f)
           step == [k \in 1 .. m |-> [st \in Replay |-> Process(st, s[k])]]
<1>1. ReplayHour(state, rows) = h[m]
  BY DEF ReplayHour
<1>2. s \in Seq(Payload)
  BY HourSorted
<1> HIDE DEF s
<1>3. m \in Nat /\ \A k \in 1 .. m : s[k] \in Payload
  BY <1>2
<1> HIDE DEF m
<1>4. step \in [1 .. m -> [Replay -> Replay]]
  BY <1>3, ProcessTyped
<1>5. \A k \in 1 .. m : \A st \in Replay : step[k][st] = Process(st, s[k])
  OBVIOUS
<1> HIDE DEF step
<1>6. PICK f \in [0 .. m -> Replay] : f[0] = state /\ \A n \in 1 .. m : f[n] = step[n][f[n - 1]]
  BY <1>3, <1>4, ReplayStages
<1>7. \A n \in 1 .. m : f[n] = Process(f[n - 1], s[n])
  <2> TAKE n \in 1 .. m
  <2>1. n - 1 \in 0 .. m
    BY <1>3
  <2> QED BY <1>5, <1>6, <2>1
<1>8. \A n \in 0 .. m : n = 0 \/ n \in 1 .. m
  BY <1>3
<1>9. Is(f)
  BY <1>6, <1>7, <1>8
<1>10. Is(h)
  <2> HIDE DEF Is
  <2> QED BY <1>9
<1> HIDE DEF h
<1>11. h[0] = state /\ \A n \in 1 .. m : h[n] = Process(h[n - 1], s[n])
  BY <1>3, <1>10
<1>12. h = f
  <2>1. \A n \in 0 .. m : h[n] = f[n]
    <3> DEFINE Good == {n \in 0 .. m : h[n] = f[n]}
    <3>1. 0 \in Good
      BY <1>3, <1>6, <1>11
    <3>2. \A n \in 1 .. m : n - 1 \in Good => n \in Good
      BY <1>3, <1>7, <1>11
    <3> HIDE DEF Good
    <3>3. \A n \in 0 .. m : n \in Good
      BY <1>3, <3>1, <3>2, UpTo
    <3> QED BY <3>3 DEF Good
  <2> QED BY <1>6, <1>10, <2>1
<1>13. h \in [0 .. m -> Replay]
  BY <1>6, <1>12
<1>14. \E g \in [0 .. m -> Replay] : g[0] = state /\ (\A n \in 1 .. m : g[n] = Process(g[n - 1], s[n]))
                                    /\ ReplayHour(state, rows) = g[m]
  BY <1>1, <1>11, <1>13
<1> QED BY <1>14 DEF m, s

LEMMA HourTyped ==
  ASSUME NEW state \in Replay, NEW rows \in Seq(Payload)
  PROVE  ReplayHour(state, rows) \in Replay
<1> DEFINE s == StableSort(rows, Before)
<1>1. PICK h \in [0 .. Len(s) -> Replay] : ReplayHour(state, rows) = h[Len(s)]
  BY HourSteps
<1>2. s \in Seq(Payload)
  BY HourSorted
<1> HIDE DEF s
<1>3. Len(s) \in 0 .. Len(s)
  BY <1>2
<1> QED BY <1>1, <1>3

\* An hour of payloads keeps it.
LEMMA HourReplays ==
  ASSUME NEW state \in Replay, NEW U \in SUBSET Int, NEW rows \in Seq(Payload), Times(rows) \subseteq U,
         Replayed(state, U), NEW V \in SUBSET U, \A i \in DOMAIN rows, u \in V : rows[i].ts <= u
  PROVE  ReplayHour(state, rows) \in Replay /\ Replayed(ReplayHour(state, rows), V)
<1> DEFINE s == StableSort(rows, Before)
           m == Len(s)
           Left(n) == V \union {s[j].ts : j \in n + 1 .. m}
<1>1. PICK h \in [0 .. m -> Replay] :
        /\ h[0] = state /\ \A n \in 1 .. m : h[n] = Process(h[n - 1], s[n])
        /\ ReplayHour(state, rows) = h[m]
  BY HourSteps
<1> DEFINE Fine(n) == h[n] \in Replay /\ Replayed(h[n], Left(n))
           Good == {n \in 0 .. m : Fine(n)}
<1>2. /\ s \in Seq(Payload) /\ \A k \in 1 .. m : \E i \in DOMAIN rows : s[k] = rows[i]
      /\ \A k, l \in 1 .. m : k <= l => s[k].ts <= s[l].ts
  BY HourSorted
<1> HIDE DEF s
<1>3. m \in Nat /\ \A k \in 1 .. m : s[k] \in Payload /\ s[k].ts \in Int
  <2>1. \A p \in Payload : p.ts \in Int
    BY DEF Payload
  <2> QED BY <1>2, <2>1
<1>4. \A k \in 1 .. m : s[k].ts \in U /\ \A u \in V : s[k].ts <= u
  BY <1>2 DEF Times
<1> HIDE DEF m
<1>7. h[0] = state /\ \A n \in 1 .. m : h[n] = Process(h[n - 1], s[n])
  BY <1>1
<1>8. \A n \in 0 .. m : Left(n) \in SUBSET U
  <2> SUFFICES ASSUME NEW n \in 0 .. m, NEW j \in n + 1 .. m PROVE s[j].ts \in U
    OBVIOUS
  <2>1. j \in 1 .. m
    BY <1>3
  <2> QED BY <1>4, <2>1
<1>9. 0 \in Good
  <2>1. Replayed(state, Left(0))
    <3>1. Left(0) \in SUBSET U
      BY <1>3, <1>8
    <3> HIDE DEF Left
    <3> QED BY <3>1 DEF Replayed
  <2> QED BY <1>3, <1>7, <2>1
<1>10. \A n \in 1 .. m : n - 1 \in Good => n \in Good
  <2> SUFFICES ASSUME NEW n \in 1 .. m, n - 1 \in Good PROVE n \in Good
    OBVIOUS
  <2>1. n - 1 \in 0 .. m /\ n \in 0 .. m
    BY <1>3
  <2>2. Left(n) \in SUBSET Left(n - 1)
    <3> SUFFICES ASSUME NEW j \in n + 1 .. m PROVE j \in n - 1 + 1 .. m
      OBVIOUS
    <3> QED BY <1>3
  <2>3. s[n].ts \in Left(n - 1)
    <3>1. n \in n - 1 + 1 .. m
      BY <1>3
    <3> QED BY <3>1
  <2>4. \A u \in Left(n) : s[n].ts <= u
    <3>1. \A j \in n + 1 .. m : j \in 1 .. m /\ n <= j
      BY <1>3
    <3> QED BY <1>2, <1>4, <3>1 DEF m
  <2>5. Left(n - 1) \in SUBSET Int
    BY <1>8, <2>1
  <2>6. Fine(n - 1)
    OBVIOUS
  <2> DEFINE L == Left(n - 1)
             M == Left(n)
  <2> HIDE DEF Left, L, M
  <2>7. Process(h[n - 1], s[n]) \in Replay /\ Replayed(Process(h[n - 1], s[n]), M)
    <3>1. h[n - 1] \in Replay /\ Replayed(h[n - 1], L)
      BY <2>6 DEF L
    <3>2. L \in SUBSET Int /\ s[n].ts \in L /\ M \in SUBSET L /\ \A u \in M : s[n].ts <= u
      BY <2>2, <2>3, <2>4, <2>5 DEF L, M
    <3>3. s[n] \in Payload
      BY <1>3
    <3> HIDE DEF s
    <3> QED BY <3>1, <3>2, <3>3, ProcessReplays
  <2> QED BY <1>7, <2>1, <2>7 DEF M
<1>11. m \in Good
  <2> HIDE DEF Good
  <2>1. \A k \in 0 .. m : k \in Good
    BY <1>3, <1>9, <1>10, UpTo
  <2> QED BY <1>3, <2>1
<1>12. Left(m) = V
  <2>1. m + 1 .. m = {}
    BY <1>3
  <2> QED BY <2>1
<1> HIDE DEF Left
<1> QED BY <1>1, <1>11, <1>12 DEF m

\* What the hours of a tape make
LEMMA LoadReplays ==
  ASSUME NEW hours \in Seq(Seq(Payload)),
         \A g, h \in DOMAIN hours : g < h =>
           \A i \in DOMAIN hours[g], j \in DOMAIN hours[h] : hours[g][i].ts <= hours[h][j].ts
  PROVE  \E events : \E n \in Nat :
           Emission(events, n) /\ LoadOrderBookAndQuotes(hours) = StableSort(events, EventBefore)
<1> DEFINE m == Len(hours)
           none == <<>>
           start == [book |-> none, events |-> none]
           Is(f) == f = [n \in 0 .. m |-> IF n = 0 THEN start ELSE ReplayHour(f[n - 1], hours[n])]
           h == CHOOSE f : Is(f)
           Left(n) == UNION {Times(hours[g]) : g \in n + 1 .. m}
           Fine(n) == h[n] \in Replay /\ Replayed(h[n], Left(n))
           Good == {n \in 0 .. m : Fine(n)}
<1>1. LoadOrderBookAndQuotes(hours) = StableSort(h[m].events, EventBefore)
  BY DEF LoadOrderBookAndQuotes
<1>2. start \in Replay
  <2>1. none \in Seq(Payload) /\ none \in Seq(Event)
    OBVIOUS
  <2> HIDE DEF none
  <2> QED BY <2>1 DEF Replay
<1>3. Emission(none, 0)
  <2>1. none \in Seq(Event) /\ Len(none) = 2 * 0
    OBVIOUS
  <2>2. 1 .. 0 = {} /\ 2 .. 0 = {}
    OBVIOUS
  <2> HIDE DEF none
  <2> QED BY <2>1, <2>2 DEF Emission
<1>4. start.events = none
  OBVIOUS
<1> HIDE DEF start, none
<1>5. m \in Nat /\ \A n \in 1 .. m : n \in DOMAIN hours /\ hours[n] \in Seq(Payload)
  OBVIOUS
<1> HIDE DEF m
<1>6. \A n \in 1 .. m : Times(hours[n]) \in SUBSET Int
  <2> SUFFICES ASSUME NEW n \in 1 .. m, NEW i \in DOMAIN hours[n] PROVE hours[n][i].ts \in Int
    BY DEF Times
  <2>1. hours[n][i] \in Payload
    BY <1>5
  <2> QED BY <2>1 DEF Payload
<1>7. \A n \in 0 .. m : Left(n) \in SUBSET Int
  <2> SUFFICES ASSUME NEW n \in 0 .. m, NEW g \in n + 1 .. m PROVE Times(hours[g]) \in SUBSET Int
    OBVIOUS
  <2>1. g \in 1 .. m
    BY <1>5
  <2> QED BY <1>6, <2>1
<1>8. \A n \in 1 .. m : /\ Times(hours[n]) \subseteq Left(n - 1) /\ Left(n) \in SUBSET Left(n - 1)
                        /\ \A i \in DOMAIN hours[n], u \in Left(n) : hours[n][i].ts <= u
  <2> TAKE n \in 1 .. m
  <2>1. n \in n - 1 + 1 .. m
    BY <1>5
  <2>2. \A g \in n + 1 .. m : g \in n - 1 + 1 .. m /\ g \in 1 .. m /\ n < g
    BY <1>5
  <2>3. Times(hours[n]) \subseteq Left(n - 1)
    BY <2>1
  <2>4. Left(n) \in SUBSET Left(n - 1)
    BY <2>2
  <2>5. ASSUME NEW i \in DOMAIN hours[n], NEW u \in Left(n)
        PROVE  hours[n][i].ts <= u
    <3>1. PICK g \in n + 1 .. m : u \in Times(hours[g])
      OBVIOUS
    <3>2. PICK j \in DOMAIN hours[g] : u = hours[g][j].ts
      BY <3>1 DEF Times
    <3>3. n \in DOMAIN hours /\ g \in DOMAIN hours /\ n < g
      BY <1>5, <2>2
    <3> QED BY <3>2, <3>3
  <2> QED BY <2>3, <2>4, <2>5
<1> HIDE DEF Left
<1>9. \A state \in Replay, n \in 1 .. m : ReplayHour(state, hours[n]) \in Replay
  <2> TAKE state \in Replay, n \in 1 .. m
  <2>1. hours[n] \in Seq(Payload)
    BY <1>5
  <2> QED BY <2>1, HourTyped
<1>10. \E f : Is(f)
  <2> DEFINE step == [k \in 1 .. m |-> [st \in Replay |-> ReplayHour(st, hours[k])]]
  <2>1. step \in [1 .. m -> [Replay -> Replay]]
    BY <1>9
  <2>2. \A k \in 1 .. m : \A st \in Replay : step[k][st] = ReplayHour(st, hours[k])
    OBVIOUS
  <2> HIDE DEF step
  <2>3. PICK f \in [0 .. m -> Replay] : f[0] = start /\ \A n \in 1 .. m : f[n] = step[n][f[n - 1]]
    BY <1>2, <1>5, <2>1, ReplayStages
  <2>4. \A n \in 1 .. m : f[n] = ReplayHour(f[n - 1], hours[n])
    <3> TAKE n \in 1 .. m
    <3>1. n - 1 \in 0 .. m
      BY <1>5
    <3> QED BY <2>2, <2>3, <3>1
  <2>5. \A n \in 0 .. m : n = 0 \/ n \in 1 .. m
    BY <1>5
  <2>6. f = [n \in 0 .. m |-> IF n = 0 THEN start ELSE ReplayHour(f[n - 1], hours[n])]
    BY <2>3, <2>4, <2>5
  <2> QED BY <2>6
<1>11. Is(h)
  <2> HIDE DEF Is
  <2> QED BY <1>10
<1> HIDE DEF h
<1>12. h[0] = start /\ \A n \in 1 .. m : h[n] = ReplayHour(h[n - 1], hours[n])
  <2>1. m \in Nat
    BY <1>5
  <2>2. h[0] = start
    BY <1>11, <2>1
  <2>3. \A n \in 1 .. m : n \in 0 .. m /\ n # 0
    BY <2>1
  <2>4. \A n \in 1 .. m : h[n] = ReplayHour(h[n - 1], hours[n])
    BY <1>11, <2>3
  <2> QED BY <2>2, <2>4
<1>13. 0 \in Good
  <2>1. 1 .. 0 = {} /\ 0 \in Nat /\ ~(0 > 0)
    OBVIOUS
  <2>2. Replayed(start, Left(0))
    BY <1>3, <1>4, <2>1 DEF Replayed
  <2> QED BY <1>2, <1>5, <1>12, <2>2
<1>14. \A n \in 1 .. m : n - 1 \in Good => n \in Good
  <2> SUFFICES ASSUME NEW n \in 1 .. m, n - 1 \in Good PROVE n \in Good
    OBVIOUS
  <2>1. n - 1 \in 0 .. m /\ n \in 0 .. m
    BY <1>5
  <2>2. Fine(n - 1)
    OBVIOUS
  <2> DEFINE L == Left(n - 1)
             M == Left(n)
             rows == hours[n]
             state == h[n - 1]
  <2>3. /\ state \in Replay /\ Replayed(state, L) /\ L \in SUBSET Int /\ rows \in Seq(Payload)
        /\ Times(rows) \subseteq L /\ M \in SUBSET L /\ \A i \in DOMAIN rows, u \in M : rows[i].ts <= u
    BY <1>5, <1>7, <1>8, <2>1, <2>2
  <2> HIDE DEF L, M, rows, state
  <2>4. ReplayHour(state, rows) \in Replay /\ Replayed(ReplayHour(state, rows), M)
    BY <2>3, HourReplays
  <2> QED BY <1>12, <2>1, <2>4 DEF M, rows, state
<1>15. m \in Good
  <2> HIDE DEF Good
  <2>1. \A k \in 0 .. m : k \in Good
    BY <1>5, <1>13, <1>14, UpTo
  <2> QED BY <1>5, <2>1
<1>16. \E n \in Nat : Emission(h[m].events, n)
  BY <1>15 DEF Replayed
<1> QED BY <1>1, <1>16 DEF m

EarlierIn(E) == {p \in (DOMAIN E) \X (DOMAIN E) : EventBefore(E[p[1]], E[p[2]])}

\* The records of n payloads, sorted: all records are there, by time, deltas before quotes,
\* else in the order of the payloads.
SortedFrom(F, E, n, src) ==
  /\ Len(F) = 2 * n
  /\ src \in [1 .. 2 * n -> 1 .. 2 * n]
  /\ \A x \in 1 .. 2 * n : \E k \in 1 .. 2 * n : src[k] = x
  /\ \A k \in 1 .. 2 * n : F[k] = E[src[k]]
  /\ \A k, l \in 1 .. 2 * n : k < l =>
       EventBefore(E[src[k]], E[src[l]]) \/ (~EventBefore(E[src[l]], E[src[k]]) /\ src[k] < src[l])

LEMMA EventsSorted ==
  ASSUME NEW E, NEW n \in Nat, Emission(E, n)
  PROVE  /\ IsList(StableSort(E, EventBefore))
         /\ \E src : SortedFrom(StableSort(E, EventBefore), E, n, src)
<1> DEFINE less == EarlierIn(E)
           before(i) == {j \in DOMAIN E : EventBefore(E[j], E[i]) \/ (~EventBefore(E[i], E[j]) /\ j < i)}
           ranked == [k \in 1 .. Cardinality(DOMAIN E) |->
                    CHOOSE i \in DOMAIN E : Cardinality(before(i)) = k - 1]
           F == StableSort(E, EventBefore)
<1>1. F = [k \in DOMAIN E |-> E[ranked[k]]]
  BY DEF StableSort, Ranked
<1> HIDE DEF F
<1>2. E \in Seq(Event) /\ Len(E) = 2 * n /\ Len(E) \in Nat /\ DOMAIN E = 1 .. Len(E)
  BY DEF Emission
<1>3. \A i \in 1 .. Len(E) : E[i].payload.ts \in Int /\ E[i].type \in {"deltas", "quote"}
  <2>1. \A e \in Event : e.payload.ts \in Int /\ e.type \in {"deltas", "quote"}
    BY DEF Event, Payload
  <2>2. \A i \in 1 .. Len(E) : E[i] \in Event
    BY <1>2
  <2> QED BY <2>1, <2>2
<1>4. \A i, j \in 1 .. Len(E) : <<i, j>> \in less <=> EventBefore(E[i], E[j])
  BY <1>2 DEF EarlierIn
<1>5. less \subseteq (DOMAIN E) \X (DOMAIN E)
  BY DEF EarlierIn
<1>6. \A i \in DOMAIN E : Cardinality(before(i)) = RankOf(Stable(E, less), DOMAIN E, i)
  <2> TAKE i \in DOMAIN E
  <2>1. before(i) = {j \in DOMAIN E : <<j, i>> \in Stable(E, less)}
    BY DEF Stable, EarlierIn
  <2> QED BY <2>1 DEF RankOf
<1> HIDE DEF less, before
<1>7. WeakOrder(E, less)
  <2>1. \A i, j \in 1 .. Len(E) : <<i, j>> \in less => <<j, i>> \notin less
    BY <1>3, <1>4 DEF EventBefore
  <2>2. \A i, j, k \in 1 .. Len(E) : <<i, j>> \in less => <<i, k>> \in less \/ <<k, j>> \in less
    BY <1>3, <1>4 DEF EventBefore
  <2> QED BY <1>2, <1>5, <2>1, <2>2 DEF WeakOrder
<1>8. \A k \in DOMAIN E : ranked[k] = CHOOSE i \in DOMAIN E : RankOf(Stable(E, less), DOMAIN E, i) = k - 1
  <2>1. Cardinality(DOMAIN E) = Len(E)
    <3>1. \A m \in Nat : Cardinality(1 .. m) = m
      BY FS_Interval
    <3> QED BY <1>2, <3>1
  <2> TAKE k \in DOMAIN E
  <2>2. ranked[k] = CHOOSE i \in DOMAIN E : Cardinality(before(i)) = k - 1
    BY <1>2, <2>1
  <2> HIDE DEF ranked
  <2> QED BY <1>6, <2>2
<1> HIDE DEF ranked
<1>9. F = SortedBy(E, less)
  BY <1>1, <1>8 DEF SortedBy
<1> DEFINE id == [i \in 1 .. Len(E) |-> i]
           S == 1 .. Len(E)
           Q == Stable(E, less)
           R == {p \in S \X S : p[1] < p[2]}
<1>10. Gives(E, S, E, R, id) /\ IsList(E)
  BY <1>2 DEF Gives, IsList
<1>11. \A i, j \in 1 .. Len(E) :
         <<i, j>> \in less \/ (<<j, i>> \notin less /\ i < j) => <<id[i], id[j]>> \in Q
  BY <1>2 DEF Stable
<1>12. Lists(F, S, E, Q)
  <2> HIDE DEF id, S, Q, R
  <2> QED BY <1>7, <1>9, <1>10, <1>11, ListsSorted
<1>13. PICK src : Gives(F, S, E, Q, src)
  BY <1>12 DEF Lists
<1>14. IsList(F) /\ Len(F) = Len(E)
  <2>1. IsList(F)
    BY <1>12 DEF Lists
  <2>2. Len(F) \in Nat /\ DOMAIN F = 1 .. Len(F) /\ DOMAIN F = 1 .. Len(E)
    BY <1>1, <1>2, <2>1, ListHas
  <2> DEFINE a == Len(F)
             b == Len(E)
  <2>3. a \in Nat /\ b \in Nat /\ \A k : k \in 1 .. a <=> k \in 1 .. b
    BY <1>2, <2>2
  <2> HIDE DEF a, b
  <2>4. ~(a < b) /\ ~(b < a)
    BY <2>3
  <2>5. a = b
    BY <2>3, <2>4
  <2> QED BY <2>1, <2>5 DEF a, b
<1>15. SortedFrom(F, E, n, src)
  <2>1. /\ src \in [1 .. 2 * n -> 1 .. 2 * n]
        /\ \A x \in 1 .. 2 * n : \E k \in 1 .. 2 * n : src[k] = x
        /\ \A k \in 1 .. 2 * n : F[k] = E[src[k]]
        /\ \A k, l \in 1 .. 2 * n : k < l => <<src[k], src[l]>> \in Q
    BY <1>2, <1>13, <1>14 DEF Gives
  <2>2. \A i, j \in 1 .. 2 * n : <<i, j>> \in Q =>
          EventBefore(E[i], E[j]) \/ (~EventBefore(E[j], E[i]) /\ i < j)
    BY <1>2, <1>4 DEF Stable
  <2>3. \A k \in 1 .. 2 * n : src[k] \in 1 .. 2 * n
    BY <2>1
  <2> QED BY <1>2, <1>14, <2>1, <2>2, <2>3 DEF SortedFrom
<1> QED BY <1>14, <1>15 DEF F

\* Where the deltas and the quotes of n payloads are: d[i] and q[i] are the places of the i-th.
RecordPlaces(F, E, n, d, q) ==
  /\ d \in [1 .. n -> 1 .. 2 * n] /\ q \in [1 .. n -> 1 .. 2 * n]
  /\ \A k \in 1 .. 2 * n : \E i \in 1 .. n : k = d[i] \/ k = q[i]
  /\ \A i \in 1 .. n : F[d[i]] = E[2 * i - 1] /\ F[q[i]] = E[2 * i]
  /\ \A i, j \in 1 .. n : i < j => d[i] < d[j] /\ q[i] < q[j]
  /\ \A i, j \in 1 .. n : d[i] < q[j] => i <= j \/ E[2 * i].payload.ts = E[2 * j].payload.ts
  /\ \A i \in 1 .. n : d[i] < q[i]

LEMMA RecordsPlaced ==
  ASSUME NEW E, NEW n \in Nat, Emission(E, n), NEW F, NEW src, SortedFrom(F, E, n, src)
  PROVE  \E d, q : RecordPlaces(F, E, n, d, q)
<1> DEFINE N == 2 * n
           d == [i \in 1 .. n |-> CHOOSE k \in 1 .. N : src[k] = 2 * i - 1]
           q == [i \in 1 .. n |-> CHOOSE k \in 1 .. N : src[k] = 2 * i]
           time(i) == E[2 * i].payload.ts
<1>1. \A i \in 1 .. n : 2 * i - 1 \in 1 .. N /\ 2 * i \in 1 .. N
  OBVIOUS
<1>2. \A i \in 1 .. n : /\ d[i] \in 1 .. N /\ src[d[i]] = 2 * i - 1
                        /\ q[i] \in 1 .. N /\ src[q[i]] = 2 * i
  BY <1>1 DEF SortedFrom
<1>3. d \in [1 .. n -> 1 .. N] /\ q \in [1 .. n -> 1 .. N]
  BY <1>2
<1> HIDE DEF d, q
<1>4. \A i \in 1 .. n : F[d[i]] = E[2 * i - 1] /\ F[q[i]] = E[2 * i]
  BY <1>2 DEF SortedFrom
<1>5. \A k, l \in 1 .. N : k = l \/ src[k] # src[l]
  <2>1. \A i, j \in 1 .. N : EventBefore(E[i], E[j]) => ~EventBefore(E[j], E[i])
    <3>1. \A i \in 1 .. N : E[i].payload.ts \in Int
      <4>1. \A e \in Event : e.payload.ts \in Int
        BY DEF Event, Payload
      <4>2. \A i \in 1 .. N : E[i] \in Event
        BY DEF Emission
      <4> QED BY <4>1, <4>2
    <3> QED BY <3>1 DEF EventBefore
  <2> SUFFICES ASSUME NEW k \in 1 .. N, NEW l \in 1 .. N, k # l PROVE src[k] # src[l]
    OBVIOUS
  <2>2. src[k] \in 1 .. N /\ src[l] \in 1 .. N
    BY DEF SortedFrom
  <2>4. k < l \/ l < k
    OBVIOUS
  <2>3. ~(src[k] < src[k]) /\ ~(src[l] < src[l])
    BY <2>2
  <2> QED BY <2>1, <2>2, <2>3, <2>4 DEF SortedFrom
<1>6. \A k \in 1 .. N : \E i \in 1 .. n : k = d[i] \/ k = q[i]
  <2> TAKE k \in 1 .. N
  <2>1. src[k] \in 1 .. N
    BY DEF SortedFrom
  <2>2. \E i \in 1 .. n : src[k] = 2 * i - 1 \/ src[k] = 2 * i
    <3> DEFINE x == src[k]
               i == (x + 1) \div 2
    <3> HIDE DEF x
    <3>1. i \in 1 .. n /\ (x = 2 * i - 1 \/ x = 2 * i)
      BY <2>1 DEF x
    <3> QED BY <3>1 DEF x
  <2> QED BY <1>2, <1>5, <2>2
<1>7. \A i \in 1 .. n : E[2 * i - 1].type = "deltas" /\ E[2 * i].type = "quote"
                        /\ E[2 * i - 1].payload = E[2 * i].payload /\ time(i) \in Int
  <2>1. \A i \in 1 .. n : E[2 * i] \in Event
    BY <1>1 DEF Emission
  <2>2. \A e \in Event : e.payload.ts \in Int
    BY DEF Event, Payload
  <2> QED BY <2>1, <2>2 DEF Emission, ShownBy
<1>8. \A i, j \in 1 .. n : i <= j => time(i) <= time(j)
  BY DEF Emission
<1> HIDE DEF time
<1>9. \A i, j \in 1 .. n :
        /\ EventBefore(E[2 * i - 1], E[2 * j - 1]) <=> time(i) < time(j)
        /\ EventBefore(E[2 * i], E[2 * j]) <=> time(i) < time(j)
        /\ EventBefore(E[2 * i - 1], E[2 * j]) <=> time(i) < time(j) \/ time(i) = time(j)
        /\ EventBefore(E[2 * i], E[2 * j - 1]) <=> time(i) < time(j)
  BY <1>7 DEF EventBefore, time
<1>10. \A k, l \in 1 .. N : k < l \/ k = l \/ l < k
  OBVIOUS
<1>11. \A k, l \in 1 .. N : k < l =>
         EventBefore(E[src[k]], E[src[l]]) \/ (~EventBefore(E[src[l]], E[src[k]]) /\ src[k] < src[l])
  BY DEF SortedFrom
<1>12. \A i, j \in 1 .. n : i < j => d[i] < d[j] /\ q[i] < q[j]
  <2> SUFFICES ASSUME NEW i \in 1 .. n, NEW j \in 1 .. n, i < j PROVE d[i] < d[j] /\ q[i] < q[j]
    OBVIOUS
  <2>1. ~(time(j) < time(i)) /\ ~(2 * j < 2 * i) /\ ~(2 * j - 1 < 2 * i - 1)
    BY <1>7, <1>8
  <2>2. 2 * i # 2 * j /\ 2 * i - 1 # 2 * j - 1
    OBVIOUS
  <2>3. d[i] < d[j]
    <3>1. ~EventBefore(E[2 * j - 1], E[2 * i - 1])
      BY <1>9, <2>1
    <3>2. ~(d[j] < d[i])
      BY <1>2, <1>11, <2>1, <3>1
    <3>3. d[i] # d[j]
      BY <1>2, <2>2
    <3> QED BY <1>2, <1>10, <3>2, <3>3
  <2>4. q[i] < q[j]
    <3>1. ~EventBefore(E[2 * j], E[2 * i])
      BY <1>9, <2>1
    <3>2. ~(q[j] < q[i])
      BY <1>2, <1>11, <2>1, <3>1
    <3>3. q[i] # q[j]
      BY <1>2, <2>2
    <3> QED BY <1>2, <1>10, <3>2, <3>3
  <2> QED BY <2>3, <2>4
<1>13. \A i, j \in 1 .. n : d[i] < q[j] => i <= j \/ time(i) = time(j)
  <2> SUFFICES ASSUME NEW i \in 1 .. n, NEW j \in 1 .. n, d[i] < q[j], ~(i <= j) PROVE time(i) = time(j)
    OBVIOUS
  <2>1. time(j) <= time(i) /\ ~(2 * i - 1 < 2 * j)
    BY <1>8
  <2>2. EventBefore(E[2 * i - 1], E[2 * j])
    BY <1>2, <1>11, <2>1
  <2> QED BY <1>7, <1>9, <2>1, <2>2
<1>14. \A i \in 1 .. n : d[i] < q[i]
  <2> TAKE i \in 1 .. n
  <2>1. EventBefore(E[2 * i - 1], E[2 * i]) /\ ~EventBefore(E[2 * i], E[2 * i - 1])
    <3>1. time(i) = time(i) /\ ~(time(i) < time(i))
      BY <1>7
    <3> QED BY <1>9, <3>1
  <2>2. 2 * i - 1 # 2 * i
    OBVIOUS
  <2> QED BY <1>2, <1>10, <1>11, <2>1, <2>2
<1>15. RecordPlaces(F, E, n, d, q)
  BY <1>3, <1>4, <1>6, <1>12, <1>13, <1>14 DEF RecordPlaces, time
<1> QED BY <1>15

\* The same of the engine's books.
LEMMA BookStages ==
  ASSUME NEW start \in Seq(Payload), NEW m \in Nat, NEW step \in [1 .. m -> [Seq(Payload) -> Seq(Payload)]]
  PROVE  \E f \in [0 .. m -> Seq(Payload)] : f[0] = start /\ \A n \in 1 .. m : f[n] = step[n][f[n - 1]]
BY FoldStages

\* The engine's book after each of the first k records
LEMMA EngineSteps ==
  ASSUME NEW F, NEW k \in Nat, \A m \in 1 .. k : F[m] \in Event
  PROVE  \E book : /\ book[0] = <<>> /\ EngineBook(F, k) = book[k]
                   /\ \A m \in 1 .. k :
                        book[m] = IF F[m].type = "deltas" THEN Apply(book[m - 1], F[m].payload) ELSE book[m - 1]
<1> DEFINE none == <<>>
           After(b, m) == IF F[m].type = "deltas" THEN Apply(b, F[m].payload) ELSE b
           Is(f) == f = [m \in 0 .. k |-> IF m = 0 THEN none ELSE After(f[m - 1], m)]
           h == CHOOSE f : Is(f)
           S == Seq(Payload)
           step == [m \in 1 .. k |-> [b \in S |-> After(b, m)]]
<1>1. EngineBook(F, k) = h[k]
  BY DEF EngineBook
<1>2. none \in S
  OBVIOUS
<1>3. step \in [1 .. k -> [S -> S]]
  <2> SUFFICES ASSUME NEW m \in 1 .. k, NEW b \in S PROVE After(b, m) \in S
    OBVIOUS
  <2>1. F[m].payload \in Payload
    BY DEF Event
  <2> QED BY <2>1, ApplyTyped
<1> HIDE DEF After
<1>4. \A m \in 1 .. k : \A b \in S : step[m][b] = After(b, m)
  OBVIOUS
<1> HIDE DEF step, S, none
<1>5. PICK f \in [0 .. k -> S] : f[0] = none /\ \A m \in 1 .. k : f[m] = step[m][f[m - 1]]
  BY <1>2, <1>3, BookStages DEF S
<1>6. \A m \in 1 .. k : f[m] = After(f[m - 1], m)
  <2> TAKE m \in 1 .. k
  <2>1. m - 1 \in 0 .. k
    OBVIOUS
  <2> QED BY <1>4, <1>5, <2>1
<1>7. \A m \in 0 .. k : m = 0 \/ m \in 1 .. k
  OBVIOUS
<1>8. Is(f)
  BY <1>5, <1>6, <1>7
<1>9. Is(h)
  <2> HIDE DEF Is
  <2> QED BY <1>8
<1> HIDE DEF h
<1>10. h[0] = none /\ \A m \in 1 .. k : h[m] = After(h[m - 1], m)
  BY <1>9
<1> QED BY <1>1, <1>10 DEF After, none

\* Once it had a snapshot the engine's book after the i-th deltas is the book of the i-th quote.
LEMMA EngineKeeps ==
  ASSUME NEW E, NEW n \in Nat, Emission(E, n), NEW F, NEW d, NEW q, RecordPlaces(F, E, n, d, q),
         NEW k \in 1 .. 2 * n, NEW i \in 1 .. n, d[i] <= k, i = n \/ k < d[i + 1],
         NEW s \in 1 .. i, E[2 * s].payload.kind = "snapshot"
  PROVE  EngineBook(F, k) = E[2 * i].book
<1>1. \A j \in 1 .. n : 2 * j - 1 \in 1 .. 2 * n /\ 2 * j \in 1 .. 2 * n
  OBVIOUS
<1>2. \A j \in 1 .. n : /\ E[2 * j - 1] \in Event /\ E[2 * j] \in Event
                        /\ E[2 * j - 1].type = "deltas" /\ E[2 * j].type = "quote"
                        /\ E[2 * j - 1].payload = E[2 * j].payload
                        /\ E[2 * j].payload.kind = "snapshot" => E[2 * j].book = <<E[2 * j].payload>>
  BY <1>1 DEF Emission, ShownBy
<1>3. \A j \in 1 .. n : d[j] \in 1 .. 2 * n /\ q[j] \in 1 .. 2 * n
  BY DEF RecordPlaces
<1>4. \A m \in 1 .. 2 * n : \E j \in 1 .. n : m = d[j] \/ m = q[j]
  BY DEF RecordPlaces
<1>5. \A j \in 1 .. n : F[d[j]] = E[2 * j - 1] /\ F[q[j]] = E[2 * j]
  BY DEF RecordPlaces
<1>6. \A m \in 1 .. k : m \in 1 .. 2 * n /\ F[m] \in Event
  <2> TAKE m \in 1 .. k
  <2>1. m \in 1 .. 2 * n
    OBVIOUS
  <2> QED BY <1>2, <1>4, <1>5, <2>1
<1>7. PICK book : /\ book[0] = <<>> /\ EngineBook(F, k) = book[k]
                  /\ \A m \in 1 .. k :
                       book[m] = IF F[m].type = "deltas" THEN Apply(book[m - 1], F[m].payload) ELSE book[m - 1]
  BY <1>6, EngineSteps
<1> DEFINE Reached(m, j) == s <= j /\ d[j] <= m /\ (j = n \/ m < d[j + 1])
           Good == {m \in 0 .. k : \A j \in 1 .. n : Reached(m, j) => book[m] = E[2 * j].book}
<1>8. 0 \in Good
  <2>1. \A j \in 1 .. n : ~(d[j] <= 0)
    BY <1>3
  <2> QED BY <2>1
<1>9. \A m \in 1 .. k : m - 1 \in Good => m \in Good
  <2> SUFFICES ASSUME NEW m \in 1 .. k, m - 1 \in Good, NEW j \in 1 .. n, Reached(m, j)
               PROVE  book[m] = E[2 * j].book
    OBVIOUS
  <2>1. m \in 1 .. 2 * n
    BY <1>6
  <2>2. PICK x \in 1 .. n : m = d[x] \/ m = q[x]
    BY <1>4, <2>1
  <2>3. \A y \in 1 .. n : Reached(m - 1, y) => book[m - 1] = E[2 * y].book
    OBVIOUS
  <2>4. \A y, z \in 1 .. n : y < z => d[y] < d[z]
    BY DEF RecordPlaces
  <2>5. CASE F[m].type = "deltas"
    <3>1. m = d[x] /\ F[m] = E[2 * x - 1]
      <4>1. E[2 * x].type # "deltas"
        BY <1>2
      <4> QED BY <1>5, <2>2, <2>5, <4>1
    <3>2. x = j
      <4>1. ~(x < j)
        <5>1. d[j] <= d[x] /\ d[x] \in Int /\ d[j] \in Int
          BY <1>3, <3>1
        <5> QED BY <2>4, <5>1
      <4>2. ~(j < x)
        <5> SUFFICES ASSUME j < x PROVE FALSE
          OBVIOUS
        <5>1. j # n /\ j + 1 \in 1 .. n /\ (j + 1 = x \/ j + 1 < x)
          OBVIOUS
        <5>2. d[x] < d[j + 1] /\ d[x] \in Int /\ d[j + 1] \in Int
          BY <1>3, <3>1, <5>1
        <5> QED BY <2>4, <5>1, <5>2
      <4> QED BY <4>1, <4>2
    <3>3. book[m] = Apply(book[m - 1], E[2 * j].payload)
      BY <1>2, <1>7, <2>5, <3>1, <3>2
    <3>4. CASE E[2 * j].payload.kind = "snapshot"
      BY <1>2, <3>3, <3>4 DEF Apply
    <3>5. CASE E[2 * j].payload.kind # "snapshot"
      <4>1. s < j
        <5>1. s # j
          BY <3>5
        <5> QED BY <5>1
      <4>2. j - 1 \in 1 .. n /\ j \in 2 .. n /\ s <= j - 1 /\ j - 1 + 1 = j /\ 2 * j - 2 = 2 * (j - 1)
        BY <4>1
      <4>3. d[j - 1] < d[j] /\ d[j - 1] \in Int /\ d[j] \in Int
        <5>1. j - 1 < j
          OBVIOUS
        <5> QED BY <1>3, <2>4, <4>2, <5>1
      <4>4. Reached(m - 1, j - 1)
        <5>1. d[j - 1] <= m - 1 /\ m - 1 < d[j]
          BY <3>1, <3>2, <4>3
        <5> QED BY <4>2, <5>1
      <4>5. book[m - 1] = E[2 * j - 2].book
        <5> HIDE DEF Reached
        <5>1. book[m - 1] = E[2 * (j - 1)].book
          BY <2>3, <4>2, <4>4
        <5> QED BY <4>2, <5>1
      <4>6. E[2 * j].book = Apply(E[2 * j - 2].book, E[2 * j].payload)
        BY <4>2 DEF Emission
      <4> QED BY <3>3, <4>5, <4>6
    <3> QED BY <3>4, <3>5
  <2>6. CASE F[m].type # "deltas"
    <3>1. d[j] # m
      BY <1>2, <1>5, <2>6
    <3>2. Reached(m - 1, j)
      <4>1. d[j] \in Int /\ (j # n => d[j + 1] \in Int)
        <5>1. j # n => j + 1 \in 1 .. n
          OBVIOUS
        <5> QED BY <1>3, <5>1
      <4> QED BY <3>1, <4>1
    <3>3. book[m] = book[m - 1]
      BY <1>7, <2>6
    <3> HIDE DEF Reached
    <3> QED BY <2>3, <3>2, <3>3
  <2> QED BY <2>5, <2>6
<1>10. k \in Good
  <2> HIDE DEF Good
  <2>1. \A m \in 0 .. k : m \in Good
    BY <1>8, <1>9, UpTo
  <2> QED BY <2>1
<1>11. Reached(k, i)
  OBVIOUS
<1> QED BY <1>7, <1>10, <1>11

\* At the last quote of its time the engine has the book of that quote.
LEMMA EngineMatches ==
  ASSUME NEW E, NEW n \in Nat, Emission(E, n), NEW F, NEW d, NEW q, RecordPlaces(F, E, n, d, q),
         Len(F) = 2 * n, DOMAIN F = 1 .. 2 * n,
         NEW k \in LastQuotes(F), EngineHasSnapshot(F, k)
  PROVE  EngineBook(F, k) = F[k].book
<1>1. \A j \in 1 .. n : /\ E[2 * j - 1].type = "deltas" /\ E[2 * j].type = "quote"
                        /\ E[2 * j - 1].payload = E[2 * j].payload
  BY DEF Emission, ShownBy
<1>2. \A j \in 1 .. n : d[j] \in 1 .. 2 * n /\ q[j] \in 1 .. 2 * n
  BY DEF RecordPlaces
<1>3. \A m \in 1 .. 2 * n : \E j \in 1 .. n : m = d[j] \/ m = q[j]
  BY DEF RecordPlaces
<1>4. \A j \in 1 .. n : F[d[j]] = E[2 * j - 1] /\ F[q[j]] = E[2 * j]
  BY DEF RecordPlaces
<1>5. k \in 1 .. 2 * n /\ F[k].type = "quote"
  BY DEF LastQuotes
<1>6. \A l \in k + 1 .. 2 * n : ~(F[l].type = "quote" /\ F[l].payload.ts = F[k].payload.ts)
  BY DEF LastQuotes
<1>7. PICK i \in 1 .. n : k = q[i]
  <2>1. \A j \in 1 .. n : k # d[j]
    BY <1>1, <1>4, <1>5
  <2> QED BY <1>3, <1>5, <2>1
<1>8. d[i] <= k
  <2>1. d[i] < q[i]
    BY DEF RecordPlaces
  <2> QED BY <1>2, <1>7, <2>1
<1>9. i = n \/ k < d[i + 1]
  <2> SUFFICES ASSUME i # n PROVE k < d[i + 1]
    OBVIOUS
  <2>1. i + 1 \in 1 .. n /\ i < i + 1 /\ ~(i + 1 <= i)
    OBVIOUS
  <2>2. d[i + 1] # k
    BY <1>1, <1>4, <1>5, <2>1
  <2>3. ~(d[i + 1] < k)
    <3> SUFFICES ASSUME d[i + 1] < k PROVE FALSE
      OBVIOUS
    <3>1. E[2 * (i + 1)].payload.ts = E[2 * i].payload.ts
      BY <1>7, <2>1 DEF RecordPlaces
    <3>2. q[i] < q[i + 1]
      BY <2>1 DEF RecordPlaces
    <3>3. q[i + 1] \in k + 1 .. 2 * n
      BY <1>2, <1>7, <2>1, <3>2
    <3>4. F[q[i + 1]] = E[2 * (i + 1)] /\ F[k] = E[2 * i] /\ E[2 * (i + 1)].type = "quote"
      BY <1>1, <1>4, <1>7, <2>1
    <3> QED BY <1>6, <3>1, <3>3, <3>4
  <2> QED BY <1>2, <1>5, <2>1, <2>2, <2>3
<1>10. PICK l \in 1 .. k : F[l].type = "deltas" /\ F[l].payload.kind = "snapshot"
  BY DEF EngineHasSnapshot
<1>11. PICK s \in 1 .. n : l = d[s]
  <2>1. l \in 1 .. 2 * n
    BY <1>5
  <2>2. \A j \in 1 .. n : l # q[j]
    BY <1>1, <1>4, <1>10
  <2> QED BY <1>3, <2>1, <2>2
<1>12. s \in 1 .. i
  <2> SUFFICES ASSUME i < s PROVE FALSE
    OBVIOUS
  <2>1. i # n /\ i + 1 \in 1 .. n /\ (i + 1 = s \/ i + 1 < s)
    OBVIOUS
  <2>2. k < d[i + 1] /\ d[i + 1] \in Int /\ d[s] \in Int
    BY <1>2, <1>9, <2>1
  <2>3. d[i + 1] = d[s] \/ d[i + 1] < d[s]
    BY <2>1 DEF RecordPlaces
  <2>4. d[s] <= k
    BY <1>11
  <2> QED BY <1>5, <2>2, <2>3, <2>4
<1>13. E[2 * s].payload.kind = "snapshot"
  BY <1>1, <1>4, <1>10, <1>11
<1>14. EngineBook(F, k) = E[2 * i].book
  BY <1>5, <1>8, <1>9, <1>12, <1>13, EngineKeeps
<1>15. F[k] = E[2 * i]
  BY <1>4, <1>7
<1> QED BY <1>14, <1>15

\* So it is whatever the hours that were delivered.
LEMMA EngineFollows == MatchesOnceSnapshot
<1> SUFFICES ASSUME NEW tape \in Tapes, NEW k \in LastQuotes(Records(tape)), EngineHasSnapshot(Records(tape), k)
             PROVE  EngineBook(Records(tape), k) = Records(tape)[k].book
  BY DEF MatchesOnceSnapshot, OfQuotes, Matches
<1> DEFINE rows(h) == IF delivered[h] = None THEN <<>> ELSE tape[h]
           hours == [h \in Hours |-> rows(h)]
           F == Records(tape)
<1>1. F = LoadOrderBookAndQuotes(hours)
  BY DEF Records
<1>2. tape \in [Hours -> Seq(Payload)]
  BY TapesAssumption
<1>3. \A h \in Hours : rows(h) \in Seq(Payload)
  BY <1>2
<1>4. hours \in Seq(Seq(Payload))
  <2>1. Hours = 1 .. NumHours /\ NumHours \in Nat
    BY PmxtAssumption DEF Hours
  <2> HIDE DEF rows
  <2> QED BY <1>3, <2>1
<1>5. \A g, h \in DOMAIN hours : g < h =>
        \A i \in DOMAIN hours[g], j \in DOMAIN hours[h] : hours[g][i].ts <= hours[h][j].ts
  <2> SUFFICES ASSUME NEW g \in Hours, NEW h \in Hours, g < h, NEW i \in DOMAIN rows(g), NEW j \in DOMAIN rows(h)
               PROVE  rows(g)[i].ts <= rows(h)[j].ts
    OBVIOUS
  <2>1. rows(g) = tape[g] /\ rows(h) = tape[h]
    <3>1. DOMAIN <<>> = {}
      OBVIOUS
    <3> QED BY <3>1
  <2> QED BY <2>1, TapesAssumption
<1> HIDE DEF hours, F
<1>6. PICK E : \E n \in Nat : Emission(E, n) /\ LoadOrderBookAndQuotes(hours) = StableSort(E, EventBefore)
  BY <1>4, <1>5, LoadReplays
<1>7. PICK n \in Nat : Emission(E, n) /\ F = StableSort(E, EventBefore)
  BY <1>1, <1>6
<1>8. PICK src : SortedFrom(F, E, n, src)
  BY <1>7, EventsSorted
<1>9. IsList(F) /\ Len(F) = 2 * n
  BY <1>7, <1>8, EventsSorted DEF SortedFrom
<1>10. DOMAIN F = 1 .. 2 * n
  BY <1>9, ListHas
<1>11. PICK d, q : RecordPlaces(F, E, n, d, q)
  BY <1>7, <1>8, RecordsPlaced
<1>12. EngineBook(F, k) = F[k].book
  BY <1>7, <1>9, <1>10, <1>11, EngineMatches DEF F
<1> QED BY <1>12 DEF F

\* Once a snapshot of the window was replayed, the book that the engine keeps from the deltas is,
\* at the last quote of every time, the book the loader made that quote from, whichever hours
\* were found nowhere (load_order_book_and_quotes).
THEOREM EngineBookFollows == Spec => []MatchesOnceSnapshot
<1>1. MatchesOnceSnapshot
  BY EngineFollows
<1> QED BY <1>1, PTL
-----------------------------------------------------------------------------
(* The raw downloader                                                       *)

\* The temporary file of a process that downloads is there and holds what was read.
TmpHolds ==
  \A p \in Procs : pc[p] \in {"read", "replace"} =>
    /\ open[p].rest <= open[p].size
    /\ tmp[<<Hour(p), p>>] = open[p].size - open[p].rest

\* What is about to be renamed is whole, or the hour's connection ended early.
ReadWhole ==
  \A p \in Procs : pc[p] = "replace" => open[p].rest = 0 \/ Hour(p) \in cut

\* The report of an hour is there, and an hour reported as there is there.
Told(p, h) ==
  /\ report[p][h] # "none"
  /\ report[p][h] \in {"downloaded", "existing"} => file[h] # Absent

\* The hours a process is done with.
Behind(p, i) == i < at[p] \/ pc[p] \in {"check", "done"}

ReportsSoFar ==
  \A p \in Procs : \A i \in DOMAIN Window : Behind(p, i) => Told(p, Window[i])

\* After the validation an hour that is not there is said not to be there.
Validated ==
  \A p \in Procs : pc[p] = "done" =>
    \A h \in HourSet : file[h] = Absent => report[p][h] \in {"missing", "absent"}

RawInv ==
  /\ RawTypeOK /\ TmpHolds /\ ReadWhole /\ StoredWhole /\ OwnTmpKept
  /\ ReportsSoFar /\ Validated
-----------------------------------------------------------------------------
(* The window                                                               *)

\* The places of the window are 1 .. Len(Window), and there is a first one.
LEMMA Places ==
  /\ Len(Window) \in Nat \ {0} /\ DOMAIN Window = 1 .. Len(Window)
  /\ \A i \in DOMAIN Window : Window[i] \in HourSet
BY RawAssumption DEF HourSet, Range

\* A process is at an hour of the window.
LEMMA HourInWindow ==
  ASSUME RawTypeOK, NEW p \in Procs
  PROVE  Hour(p) \in HourSet /\ at[p] \in 1 .. Len(Window)
BY Places DEF RawTypeOK, Hour

-----------------------------------------------------------------------------
(* The types                                                                *)

\* Reporting an hour keeps the types of what it changes.
LEMMA ReportTypes ==
  ASSUME RawTypeOK, NEW p \in Procs, NEW how \in {"existing", "downloaded", "missing", "failed"},
         Report(p, how)
  PROVE  /\ report' \in [Procs -> [HourSet -> {"none", "existing", "downloaded", "missing", "failed", "absent"}]]
         /\ at' \in [Procs -> DOMAIN Window]
         /\ pc' \in [Procs -> {"new", "clean", "look", "rank", "get", "read", "replace", "check", "done", "dead"}]
         /\ error' \in [Procs -> {"none", "404", "other"}]
         /\ DOMAIN urls' = Procs /\ \A q \in Procs : DOMAIN urls'[q] \subseteq Range(Archives)
<1>1. Hour(p) \in HourSet /\ at[p] \in 1 .. Len(Window)
  BY HourInWindow
<1>2. report' \in [Procs -> [HourSet -> {"none", "existing", "downloaded", "missing", "failed", "absent"}]]
  BY <1>1 DEF Report, RawTypeOK
<1>3. at' \in [Procs -> DOMAIN Window]
  <2>1. CASE at[p] < Len(Window)
    <3>1. at[p] + 1 \in DOMAIN Window /\ at' = [at EXCEPT ![p] = at[p] + 1]
      BY <1>1, <2>1, Places DEF Report
    <3> QED BY <3>1 DEF RawTypeOK
  <2>2. CASE ~(at[p] < Len(Window))
    BY <2>2 DEF Report, RawTypeOK
  <2> QED BY <2>1, <2>2
<1>4. /\ pc' \in [Procs -> {"new", "clean", "look", "rank", "get", "read", "replace", "check", "done", "dead"}]
      /\ error' \in [Procs -> {"none", "404", "other"}]
  BY DEF Report, Go, RawTypeOK
<1>5. DOMAIN urls' = Procs /\ \A q \in Procs : DOMAIN urls'[q] \subseteq Range(Archives)
  <2>1. DOMAIN NoArchive = {}  BY DEF NoArchive
  <2> QED BY <2>1 DEF Report, RawTypeOK
<1> QED BY <1>2, <1>3, <1>4, <1>5

LEMMA TypeStep == RawTypeOK /\ [RawNext]_vars => RawTypeOK'
<1> SUFFICES ASSUME RawTypeOK, [RawNext]_vars PROVE RawTypeOK'
  OBVIOUS
<1>1. CASE Publish
  <2>1. PICK a \in Range(Archives) :
          object' = [object EXCEPT ![a][Window[1]] = IF @ = Absent THEN 1 ELSE @ + 1]
    BY <1>1 DEF Publish
  <2>2. Window[1] \in HourSet
    BY Places
  <2>3. object' \in [Range(Archives) -> [HourSet -> Size]]
    BY <2>1, <2>2 DEF RawTypeOK, Size, Absent
  <2> QED BY <1>1, <2>3 DEF Publish, RawTypeOK
<1>2. ASSUME NEW p \in Procs, Start(p) PROVE RawTypeOK'
  BY <1>2 DEF Start, Go, RawTypeOK
<1>3. ASSUME NEW p \in Procs, Clean(p) PROVE RawTypeOK'
  <2>1. tmp' \in [HourSet \X Procs -> Size]
    BY <1>3 DEF Clean, RawTypeOK, Size
  <2> QED BY <1>3, <2>1 DEF Clean, Go, RawTypeOK
<1>4. ASSUME NEW p \in Procs, Look(p) PROVE RawTypeOK'
  <2>1. CASE Report(p, "existing")
    BY <1>4, <2>1, ReportTypes DEF Look, RawTypeOK
  <2>2. CASE Go(p, "rank") /\ UNCHANGED <<at, urls, error, report>>
    BY <1>4, <2>2 DEF Look, Go, RawTypeOK
  <2> QED BY <1>4, <2>1, <2>2 DEF Look
<1>5. ASSUME NEW p \in Procs, Rank(p) PROVE RawTypeOK'
  <2>1. PICK seen \in HeadAnswers(Hour(p)) : urls' = [urls EXCEPT ![p] = seen]
    BY <1>5 DEF Rank
  <2>2. DOMAIN seen = Range(Archives)
    BY <2>1 DEF HeadAnswers
  <2> QED BY <1>5, <2>1, <2>2 DEF Rank, Go, RawTypeOK
<1>6. ASSUME NEW p \in Procs, Request(p) PROVE RawTypeOK'
  <2>1. PICK a \in DOMAIN urls[p] :
          /\ urls' = [urls EXCEPT ![p] = Restrict(@, DOMAIN @ \ {a})]
          /\ \/ error' = [error EXCEPT ![p] = "404"] /\ UNCHANGED <<pc, tmp, open>>
             \/ error' = [error EXCEPT ![p] = "other"] /\ UNCHANGED <<pc, tmp, open>>
             \/ /\ object[a][Hour(p)] # Absent /\ Go(p, "read")
                /\ tmp' = [tmp EXCEPT ![<<Hour(p), p>>] = 0]
                /\ open' = [open EXCEPT ![p] = [size |-> object[a][Hour(p)], rest |-> object[a][Hour(p)]]]
                /\ UNCHANGED error
    BY <1>6 DEF Request
  <2>2. DOMAIN urls' = Procs /\ \A q \in Procs : DOMAIN urls'[q] \subseteq Range(Archives)
    BY <2>1 DEF RawTypeOK, Restrict
  <2>3. Hour(p) \in HourSet /\ a \in Range(Archives)
    BY HourInWindow DEF RawTypeOK
  <2>4. object[a][Hour(p)] \in Size
    BY <2>3 DEF RawTypeOK
  <2>5. open' \in [Procs -> [size : Nat, rest : Nat]] /\ tmp' \in [HourSet \X Procs -> Size]
    <3>1. CASE UNCHANGED <<tmp, open>>
      BY <3>1 DEF RawTypeOK
    <3>2. CASE /\ object[a][Hour(p)] # Absent
               /\ tmp' = [tmp EXCEPT ![<<Hour(p), p>>] = 0]
               /\ open' = [open EXCEPT ![p] = [size |-> object[a][Hour(p)], rest |-> object[a][Hour(p)]]]
      <4>1. object[a][Hour(p)] \in Nat
        BY <2>4, <3>2 DEF Size
      <4>2. open' \in [Procs -> [size : Nat, rest : Nat]]
        BY <3>2, <4>1 DEF RawTypeOK
      <4>3. tmp' \in [HourSet \X Procs -> Size]
        BY <2>3, <3>2 DEF RawTypeOK, Size
      <4> QED BY <4>2, <4>3
    <3> QED BY <2>1, <3>1, <3>2
  <2>6. /\ pc' \in [Procs -> {"new", "clean", "look", "rank", "get", "read", "replace", "check", "done", "dead"}]
        /\ error' \in [Procs -> {"none", "404", "other"}]
    BY <2>1 DEF RawTypeOK, Go
  <2> QED BY <1>6, <2>2, <2>5, <2>6 DEF Request, RawTypeOK
<1>7. ASSUME NEW p \in Procs, GiveUp(p) PROVE RawTypeOK'
  <2>1. PICK how \in {"missing", "failed"} : Report(p, how)
    BY <1>7 DEF GiveUp
  <2> QED BY <1>7, <2>1, ReportTypes DEF GiveUp, RawTypeOK
<1>8. ASSUME NEW p \in Procs, Read(p) PROVE RawTypeOK'
  <2>1. Hour(p) \in HourSet
    BY HourInWindow
  <2>2. CASE /\ open[p].rest > 0
             /\ open' = [open EXCEPT ![p].rest = @ - 1]
             /\ tmp' = [tmp EXCEPT ![<<Hour(p), p>>] = IF @ = Absent THEN Absent ELSE @ + 1]
             /\ UNCHANGED <<pc, cut>>
    <3>1. open[p] \in [size : Nat, rest : Nat] /\ open[p].rest - 1 \in Nat
      BY <2>2 DEF RawTypeOK
    <3>2. open' \in [Procs -> [size : Nat, rest : Nat]]
      BY <2>2, <3>1 DEF RawTypeOK
    <3>3. tmp[<<Hour(p), p>>] \in Size
      BY <2>1 DEF RawTypeOK
    <3>4. (IF tmp[<<Hour(p), p>>] = Absent THEN Absent ELSE tmp[<<Hour(p), p>>] + 1) \in Size
      BY <3>3 DEF Size
    <3>5. tmp' \in [HourSet \X Procs -> Size]
      BY <2>1, <2>2, <3>4 DEF RawTypeOK
    <3> QED BY <1>8, <2>2, <3>2, <3>5 DEF Read, RawTypeOK
  <2>3. CASE /\ cut' = IF open[p].rest > 0 THEN cut \union {Hour(p)} ELSE cut
             /\ Go(p, "replace") /\ UNCHANGED <<open, tmp>>
    BY <1>8, <2>1, <2>3 DEF Read, Go, RawTypeOK
  <2> QED BY <1>8, <2>2, <2>3 DEF Read
<1>9. ASSUME NEW p \in Procs, Broken(p) PROVE RawTypeOK'
  <2>1. Hour(p) \in HourSet
    BY HourInWindow
  <2> QED BY <1>9, <2>1 DEF Broken, Go, NotOpen, RawTypeOK, Size
<1>10. ASSUME NEW p \in Procs, Replace(p) PROVE RawTypeOK'
  <2>1. Hour(p) \in HourSet
    BY HourInWindow
  <2>2. open' \in [Procs -> [size : Nat, rest : Nat]]
    BY <1>10 DEF Replace, NotOpen, RawTypeOK
  <2>3. CASE tmp[<<Hour(p), p>>] # Absent
    <3>1. /\ file' \in [HourSet -> Size] /\ told' \in [HourSet -> Size]
          /\ tmp' \in [HourSet \X Procs -> Size]
      BY <1>10, <2>1, <2>3 DEF Replace, RawTypeOK, Size
    <3> QED BY <1>10, <2>2, <2>3, <3>1, ReportTypes DEF Replace, RawTypeOK
  <2>4. CASE tmp[<<Hour(p), p>>] = Absent
    BY <1>10, <2>2, <2>4 DEF Replace, Go, RawTypeOK
  <2> QED BY <2>3, <2>4
<1>11. ASSUME NEW p \in Procs, Validate(p) PROVE RawTypeOK'
  BY <1>11 DEF Validate, Go, RawTypeOK
<1>12. ASSUME NEW p \in Procs, Killed(p) PROVE RawTypeOK'
  <2>1. DOMAIN NoArchive = {}  BY DEF NoArchive
  <2> QED BY <1>12, <2>1 DEF Killed, Go, NotOpen, RawTypeOK
<1>13. CASE UNCHANGED vars
  BY <1>13 DEF vars, RawTypeOK
<1> QED
  BY <1>1, <1>2, <1>3, <1>4, <1>5, <1>6, <1>7, <1>8, <1>9, <1>10, <1>11, <1>12, <1>13 DEF RawNext, Step

LEMMA RawTypeInit == RawInit => RawTypeOK
<1> SUFFICES ASSUME RawInit PROVE RawTypeOK
  OBVIOUS
<1>1. object \in [Range(Archives) -> [HourSet -> Size]]
  BY DEF RawInit, Size
<1>2. 1 \in DOMAIN Window /\ DOMAIN NoArchive = {}
  BY Places DEF NoArchive
<1> QED BY <1>1, <1>2 DEF RawInit, RawTypeOK, Size, NotOpen

\* Every state of the mirror has the types of RawTypeOK: a process is at an hour of its window
\* and tries archives that are configured, whatever object sizes it is told.
THEOREM RawTypeCorrect == RawSpec => []RawTypeOK
BY RawTypeInit, TypeStep, PTL DEF RawSpec

-----------------------------------------------------------------------------
(* The temporary files                                                      *)

DownloadInv == TmpHolds /\ ReadWhole /\ StoredWhole /\ OwnTmpKept

\* A step of p that leaves the other processes where they are, and their temporary files
\* alone, keeps what is known of them.
LEMMA OthersHold ==
  ASSUME RawTypeOK, TmpHolds, ReadWhole, NEW p \in Procs,
         \A q \in Procs \ {p} :
           /\ pc'[q] = pc[q] /\ at'[q] = at[q] /\ open'[q] = open[q]
           /\ pc[q] \in {"read", "replace"} => tmp'[<<Hour(q), q>>] = tmp[<<Hour(q), q>>],
         cut \subseteq cut',
         pc'[p] \in {"read", "replace"} =>
           /\ open'[p].rest <= open'[p].size
           /\ tmp'[<<Hour(p)', p>>] = open'[p].size - open'[p].rest,
         pc'[p] = "replace" => open'[p].rest = 0 \/ Hour(p)' \in cut'
  PROVE  TmpHolds' /\ ReadWhole'
<1>1. \A q \in Procs \ {p} : Hour(q)' = Hour(q)
  BY DEF Hour
<1>2. TmpHolds'
  <2> SUFFICES ASSUME NEW q \in Procs, pc'[q] \in {"read", "replace"}
               PROVE  /\ open'[q].rest <= open'[q].size
                      /\ tmp'[<<Hour(q)', q>>] = open'[q].size - open'[q].rest
    BY DEF TmpHolds
  <2>1. CASE q = p
    BY <2>1
  <2>2. CASE q # p
    BY <1>1, <2>2 DEF TmpHolds
  <2> QED BY <2>1, <2>2
<1>3. ReadWhole'
  <2> SUFFICES ASSUME NEW q \in Procs, pc'[q] = "replace"
               PROVE  open'[q].rest = 0 \/ Hour(q)' \in cut'
    BY DEF ReadWhole
  <2>1. CASE q = p
    BY <2>1
  <2>2. CASE q # p
    BY <1>1, <2>2 DEF ReadWhole
  <2> QED BY <2>1, <2>2
<1> QED BY <1>2, <1>3

\* After a report the process reads nothing, and the others are where they were.
LEMMA ReportMoves ==
  ASSUME RawTypeOK, NEW p \in Procs, NEW how, Report(p, how)
  PROVE  /\ pc'[p] \in {"clean", "check"}
         /\ \A q \in Procs \ {p} : pc'[q] = pc[q] /\ at'[q] = at[q]
BY DEF Report, Go, RawTypeOK

LEMMA DownloadStep == RawTypeOK /\ DownloadInv /\ [RawNext]_vars => DownloadInv'
<1> SUFFICES ASSUME RawTypeOK, DownloadInv, [RawNext]_vars PROVE DownloadInv'
  OBVIOUS
<1> USE DEF DownloadInv
<1>1. CASE Publish
  BY <1>1 DEF Publish, TmpHolds, ReadWhole, StoredWhole, OwnTmpKept, Hour
<1>2. ASSUME NEW p \in Procs, Start(p) PROVE DownloadInv'
  <2>1. TmpHolds' /\ ReadWhole'
    BY <1>2, OthersHold DEF Start, Go, RawTypeOK, Hour
  <2> QED BY <1>2, <2>1 DEF Start, StoredWhole, OwnTmpKept
<1>3. ASSUME NEW p \in Procs, Clean(p) PROVE DownloadInv'
  <2>1. \A q \in Procs : pc[q] \in {"read", "replace"} =>
           tmp'[<<Hour(q), q>>] = tmp[<<Hour(q), q>>]
    <3> SUFFICES ASSUME NEW q \in Procs, pc[q] \in {"read", "replace"}
                 PROVE  tmp'[<<Hour(q), q>>] = tmp[<<Hour(q), q>>]
      OBVIOUS
    <3>1. ~Stale(Hour(q), q)
      BY DEF Stale, Running
    <3>2. <<Hour(q), q>> \in DOMAIN tmp
      BY HourInWindow DEF RawTypeOK
    <3> QED BY <1>3, <3>1, <3>2 DEF Clean
  <2>2. TmpHolds' /\ ReadWhole'
    BY <1>3, <2>1, OthersHold DEF Clean, Go, RawTypeOK, Hour
  <2> QED BY <1>3, <2>2 DEF Clean, StoredWhole, OwnTmpKept
<1>4. ASSUME NEW p \in Procs, Look(p) PROVE DownloadInv'
  <2>1. pc'[p] \in {"clean", "check", "rank"} /\ \A q \in Procs \ {p} : pc'[q] = pc[q] /\ at'[q] = at[q]
    BY <1>4, ReportMoves DEF Look, Go, RawTypeOK
  <2>2. TmpHolds' /\ ReadWhole'
    BY <1>4, <2>1, OthersHold DEF Look
  <2> QED BY <1>4, <2>2 DEF Look, StoredWhole, OwnTmpKept
<1>5. ASSUME NEW p \in Procs, Rank(p) PROVE DownloadInv'
  <2>1. TmpHolds' /\ ReadWhole'
    BY <1>5, OthersHold DEF Rank, Go, RawTypeOK, Hour
  <2> QED BY <1>5, <2>1 DEF Rank, StoredWhole, OwnTmpKept
<1>6. ASSUME NEW p \in Procs, Request(p) PROVE DownloadInv'
  <2>1. PICK a \in DOMAIN urls[p] :
          \/ UNCHANGED <<pc, tmp, open>>
          \/ /\ object[a][Hour(p)] # Absent /\ Go(p, "read")
             /\ tmp' = [tmp EXCEPT ![<<Hour(p), p>>] = 0]
             /\ open' = [open EXCEPT ![p] = [size |-> object[a][Hour(p)], rest |-> object[a][Hour(p)]]]
    BY <1>6 DEF Request
  <2>2. TmpHolds' /\ ReadWhole'
    <3>1. CASE UNCHANGED <<pc, tmp, open>>
      BY <1>6, <3>1 DEF Request, TmpHolds, ReadWhole, Hour
    <3>2. CASE ~UNCHANGED <<pc, tmp, open>>
      <4>1. Hour(p) \in HourSet /\ a \in Range(Archives) /\ object[a][Hour(p)] \in Nat
        BY <2>1, <3>2, HourInWindow DEF RawTypeOK, Size
      <4>2. /\ pc'[p] = "read" /\ tmp'[<<Hour(p), p>>] = 0 /\ UNCHANGED <<at, cut>>
            /\ open'[p] = [size |-> object[a][Hour(p)], rest |-> object[a][Hour(p)]]
            /\ \A q \in Procs \ {p} : pc'[q] = pc[q] /\ open'[q] = open[q]
        BY <1>6, <2>1, <3>2, <4>1 DEF Request, Go, RawTypeOK
      <4>3. \A q \in Procs \ {p} : tmp'[<<Hour(q), q>>] = tmp[<<Hour(q), q>>]
        BY <2>1, <3>2, HourInWindow DEF RawTypeOK
      <4>4. Hour(p)' = Hour(p)
        BY <4>2 DEF Hour
      <4> QED BY <4>1, <4>2, <4>3, <4>4, OthersHold
    <3> QED BY <3>1, <3>2
  <2> QED BY <1>6, <2>2 DEF Request, StoredWhole, OwnTmpKept
<1>7. ASSUME NEW p \in Procs, GiveUp(p) PROVE DownloadInv'
  <2>1. pc'[p] \in {"clean", "check"} /\ \A q \in Procs \ {p} : pc'[q] = pc[q] /\ at'[q] = at[q]
    BY <1>7, ReportMoves DEF GiveUp
  <2>2. TmpHolds' /\ ReadWhole'
    BY <1>7, <2>1, OthersHold DEF GiveUp
  <2> QED BY <1>7, <2>2 DEF GiveUp, StoredWhole, OwnTmpKept
<1>8. ASSUME NEW p \in Procs, Read(p) PROVE DownloadInv'
  <2>1. Hour(p) \in HourSet /\ Hour(p)' = Hour(p) /\ cut \subseteq cut' /\ UNCHANGED at
    BY <1>8, HourInWindow DEF Read, Hour
  <2>2. /\ open[p].rest <= open[p].size /\ open[p].rest \in Nat /\ open[p].size \in Nat
        /\ tmp[<<Hour(p), p>>] = open[p].size - open[p].rest
    BY <1>8 DEF Read, TmpHolds, RawTypeOK
  <2>3. CASE /\ open[p].rest > 0
             /\ open' = [open EXCEPT ![p].rest = @ - 1]
             /\ tmp' = [tmp EXCEPT ![<<Hour(p), p>>] = IF @ = Absent THEN Absent ELSE @ + 1]
             /\ UNCHANGED <<pc, cut>>
    <3>1. tmp[<<Hour(p), p>>] # Absent
      BY <2>2 DEF Absent
    <3>2. /\ open'[p].rest = open[p].rest - 1 /\ open'[p].size = open[p].size
          /\ \A q \in Procs \ {p} : open'[q] = open[q]
      BY <2>3 DEF RawTypeOK
    <3>3. tmp'[<<Hour(p), p>>] = tmp[<<Hour(p), p>>] + 1
      BY <2>1, <2>3, <3>1 DEF RawTypeOK
    <3>4. \A q \in Procs \ {p} : tmp'[<<Hour(q), q>>] = tmp[<<Hour(q), q>>]
      BY <2>3, HourInWindow DEF RawTypeOK
    <3>5. /\ open'[p].rest <= open'[p].size
          /\ tmp'[<<Hour(p), p>>] = open'[p].size - open'[p].rest
      BY <2>2, <2>3, <3>2, <3>3
    <3>6. pc'[p] = "read"
      BY <1>8, <2>3 DEF Read
    <3>7. TmpHolds' /\ ReadWhole'
      BY <2>1, <2>3, <3>2, <3>4, <3>5, <3>6, OthersHold
    <3> QED BY <1>8, <2>3, <3>7 DEF Read, StoredWhole, OwnTmpKept
  <2>4. CASE /\ cut' = IF open[p].rest > 0 THEN cut \union {Hour(p)} ELSE cut
             /\ Go(p, "replace") /\ UNCHANGED <<open, tmp>>
    <3>1. /\ pc'[p] = "replace"
          /\ \A q \in Procs \ {p} : pc'[q] = pc[q]
      BY <2>4 DEF Go, RawTypeOK
    <3>2. open'[p].rest = 0 \/ Hour(p)' \in cut'
      BY <2>1, <2>2, <2>4
    <3>3. TmpHolds' /\ ReadWhole'
      BY <2>1, <2>2, <2>4, <3>1, <3>2, OthersHold
    <3> QED BY <1>8, <2>1, <3>3 DEF Read, StoredWhole, OwnTmpKept
  <2> QED BY <1>8, <2>3, <2>4 DEF Read
<1>9. ASSUME NEW p \in Procs, Broken(p) PROVE DownloadInv'
  <2>1. /\ pc'[p] = "get" /\ UNCHANGED <<at, cut>>
        /\ \A q \in Procs \ {p} : pc'[q] = pc[q] /\ open'[q] = open[q]
    BY <1>9 DEF Broken, Go, RawTypeOK
  <2>2. \A q \in Procs \ {p} : tmp'[<<Hour(q), q>>] = tmp[<<Hour(q), q>>]
    BY <1>9, HourInWindow DEF Broken, RawTypeOK
  <2>3. TmpHolds' /\ ReadWhole'
    BY <2>1, <2>2, OthersHold
  <2> QED BY <1>9, <2>3 DEF Broken, StoredWhole, OwnTmpKept
<1>10. ASSUME NEW p \in Procs, Replace(p) PROVE DownloadInv'
  <2>1. /\ Hour(p) \in HourSet /\ pc[p] = "replace" /\ UNCHANGED cut
        /\ \A q \in Procs \ {p} : open'[q] = open[q]
    BY <1>10, HourInWindow DEF Replace, RawTypeOK
  <2>2. tmp[<<Hour(p), p>>] = open[p].size - open[p].rest /\ open[p].rest <= open[p].size
    BY <2>1 DEF TmpHolds
  <2>3. tmp[<<Hour(p), p>>] # Absent
    BY <2>2 DEF RawTypeOK, Absent
  <2>4. /\ file' = [file EXCEPT ![Hour(p)] = tmp[<<Hour(p), p>>]]
        /\ told' = [told EXCEPT ![Hour(p)] = open[p].size]
        /\ tmp' = [tmp EXCEPT ![<<Hour(p), p>>] = Absent]
        /\ Report(p, "downloaded") /\ UNCHANGED stolen
    BY <1>10, <2>3 DEF Replace
  <2>5. \A q \in Procs \ {p} : tmp'[<<Hour(q), q>>] = tmp[<<Hour(q), q>>]
    BY <2>4, HourInWindow DEF RawTypeOK
  <2>6. pc'[p] \in {"clean", "check"} /\ \A q \in Procs \ {p} : pc'[q] = pc[q] /\ at'[q] = at[q]
    BY <2>4, ReportMoves
  <2>7. TmpHolds' /\ ReadWhole'
    BY <2>1, <2>5, <2>6, OthersHold
  <2>8. Hour(p) \in cut \/ tmp[<<Hour(p), p>>] = open[p].size
    <3>1. open[p].rest = 0 \/ Hour(p) \in cut
      BY <2>1 DEF ReadWhole
    <3> QED BY <2>2, <3>1 DEF RawTypeOK
  <2>9. StoredWhole'
    <3> SUFFICES ASSUME NEW h \in HourSet, h \notin cut PROVE file'[h] = told'[h]
      BY <2>1 DEF StoredWhole
    <3>1. CASE h = Hour(p)
      BY <2>1, <2>4, <2>8, <3>1 DEF RawTypeOK
    <3>2. CASE h # Hour(p)
      BY <2>1, <2>4, <3>2 DEF RawTypeOK, StoredWhole
    <3> QED BY <3>1, <3>2
  <2> QED BY <2>4, <2>7, <2>9 DEF OwnTmpKept
<1>11. ASSUME NEW p \in Procs, Validate(p) PROVE DownloadInv'
  <2>1. TmpHolds' /\ ReadWhole'
    BY <1>11, OthersHold DEF Validate, Go, RawTypeOK, Hour
  <2> QED BY <1>11, <2>1 DEF Validate, StoredWhole, OwnTmpKept
<1>12. ASSUME NEW p \in Procs, Killed(p) PROVE DownloadInv'
  <2>1. TmpHolds' /\ ReadWhole'
    BY <1>12, OthersHold DEF Killed, Go, RawTypeOK, Hour
  <2> QED BY <1>12, <2>1 DEF Killed, StoredWhole, OwnTmpKept
<1>13. CASE UNCHANGED vars
  BY <1>13 DEF vars, TmpHolds, ReadWhole, StoredWhole, OwnTmpKept, Hour
<1> QED
  BY <1>1, <1>2, <1>3, <1>4, <1>5, <1>6, <1>7, <1>8, <1>9, <1>10, <1>11, <1>12, <1>13 DEF RawNext, Step
-----------------------------------------------------------------------------
(* The reports                                                              *)

\* No file that is there goes.
FilesStay == \A h \in HourSet : file[h] # Absent => file'[h] # Absent

LEMMA FilesStep == RawTypeOK /\ [RawNext]_vars => FilesStay
<1> SUFFICES ASSUME RawTypeOK, [RawNext]_vars PROVE FilesStay
  OBVIOUS
<1>1. ASSUME NEW p \in Procs, Replace(p) PROVE FilesStay
  BY <1>1, HourInWindow DEF Replace, FilesStay, RawTypeOK
<1>2. CASE UNCHANGED file
  BY <1>2 DEF FilesStay
<1> QED
  BY <1>1, <1>2 DEF RawNext, Step, vars, Publish, Start, Clean, Look, Rank, Request, GiveUp, Read,
                    Broken, Validate, Killed

\* A step that reports nothing, and after which nobody is done who was not, keeps what is
\* known of the reports.
LEMMA ReportsKept ==
  ASSUME RawTypeOK, ReportsSoFar, Validated, FilesStay, UNCHANGED <<at, report>>,
         \A q \in Procs : pc'[q] \in {"check", "done"} => pc'[q] = pc[q]
  PROVE  ReportsSoFar' /\ Validated'
<1>1. ReportsSoFar'
  <2> SUFFICES ASSUME NEW q \in Procs, NEW i \in DOMAIN Window, Behind(q, i)'
               PROVE  Told(q, Window[i])'
    BY DEF ReportsSoFar
  <2>1. Behind(q, i) /\ Window[i] \in HourSet
    BY Places DEF Behind
  <2> QED BY <2>1 DEF ReportsSoFar, Told, FilesStay
<1>2. Validated'
  BY DEF Validated, FilesStay
<1> QED BY <1>1, <1>2

\* Reporting an hour truly keeps what is known of the reports.
LEMMA ReportAdds ==
  ASSUME RawTypeOK, ReportsSoFar, Validated, FilesStay, NEW p \in Procs,
         pc[p] \notin {"check", "done"},
         NEW how \in {"existing", "downloaded", "missing", "failed"}, Report(p, how),
         how \in {"existing", "downloaded"} => file'[Hour(p)] # Absent
  PROVE  ReportsSoFar' /\ Validated'
<1>1. Hour(p) \in HourSet /\ at[p] \in 1 .. Len(Window)
  BY HourInWindow
<1>2. \A q \in Procs \ {p} : pc'[q] = pc[q] /\ at'[q] = at[q] /\ report'[q] = report[q]
  BY ReportMoves DEF Report, RawTypeOK
<1>3. \A h \in HourSet : report'[p][h] = IF h = Hour(p) THEN how ELSE report[p][h]
  BY <1>1 DEF Report, RawTypeOK
<1>4. \A i \in DOMAIN Window : Behind(p, i)' => i <= at[p]
  <2>1. CASE at[p] < Len(Window)
    <3>1. at'[p] = at[p] + 1 /\ pc'[p] = "clean"
      BY <1>1, <2>1 DEF Report, Go, RawTypeOK
    <3> QED BY <1>1, <3>1, Places DEF Behind
  <2>2. CASE ~(at[p] < Len(Window))
    <3>1. at[p] = Len(Window)
      BY <1>1, <2>2, Places
    <3> QED BY <3>1, Places
  <2> QED BY <2>1, <2>2
<1>5. ReportsSoFar'
  <2> SUFFICES ASSUME NEW q \in Procs, NEW i \in DOMAIN Window, Behind(q, i)'
               PROVE  Told(q, Window[i])'
    BY DEF ReportsSoFar
  <2>1. Window[i] \in HourSet
    BY Places
  <2>2. CASE q # p
    BY <1>2, <2>1, <2>2 DEF ReportsSoFar, Told, Behind, FilesStay
  <2>3. CASE q = p /\ Window[i] = Hour(p)
    BY <1>3, <2>1, <2>3 DEF Told
  <2>4. CASE q = p /\ Window[i] # Hour(p)
    <3>1. Behind(p, i)
      BY <1>1, <1>4, <2>4, Places DEF Behind, Hour
    <3> QED BY <1>3, <2>1, <2>4, <3>1 DEF ReportsSoFar, Told, FilesStay
  <2> QED BY <2>2, <2>3, <2>4
<1>6. Validated'
  <2>1. pc'[p] # "done"
    BY ReportMoves
  <2> QED BY <1>2, <2>1 DEF Validated, FilesStay
<1> QED BY <1>5, <1>6

LEMMA ReportStep ==
  RawTypeOK /\ ReportsSoFar /\ Validated /\ [RawNext]_vars => ReportsSoFar' /\ Validated'
<1> SUFFICES ASSUME RawTypeOK, ReportsSoFar, Validated, [RawNext]_vars
             PROVE  ReportsSoFar' /\ Validated'
  OBVIOUS
<1>1. FilesStay
  BY FilesStep
<1>2. ASSUME NEW p \in Procs, Look(p) PROVE ReportsSoFar' /\ Validated'
  <2>1. CASE Report(p, "existing") /\ file[Hour(p)] # Absent
    <3>1. file'[Hour(p)] # Absent
      BY <1>1, <2>1, HourInWindow DEF FilesStay
    <3> QED BY <1>1, <1>2, <2>1, <3>1, ReportAdds DEF Look
  <2>2. CASE Go(p, "rank") /\ UNCHANGED <<at, report>>
    BY <1>1, <2>2, ReportsKept DEF Go, RawTypeOK
  <2> QED BY <1>2, <2>1, <2>2 DEF Look
<1>3. ASSUME NEW p \in Procs, GiveUp(p) PROVE ReportsSoFar' /\ Validated'
  <2>1. PICK how \in {"missing", "failed"} : Report(p, how)
    BY <1>3 DEF GiveUp
  <2>2. pc[p] = "get" /\ how \notin {"existing", "downloaded"}
    BY <1>3, <2>1 DEF GiveUp
  <2> QED BY <1>1, <2>1, <2>2, ReportAdds
<1>4. ASSUME NEW p \in Procs, Replace(p) PROVE ReportsSoFar' /\ Validated'
  <2>1. CASE tmp[<<Hour(p), p>>] # Absent
    <3>1. pc[p] = "replace" /\ Report(p, "downloaded") /\ file'[Hour(p)] # Absent
      BY <1>4, <2>1, HourInWindow DEF Replace, RawTypeOK
    <3> QED BY <1>1, <3>1, ReportAdds
  <2>2. CASE tmp[<<Hour(p), p>>] = Absent
    BY <1>1, <1>4, <2>2, ReportsKept DEF Replace, Go, RawTypeOK
  <2> QED BY <2>1, <2>2
<1>5. ASSUME NEW p \in Procs, Validate(p) PROVE ReportsSoFar' /\ Validated'
  <2>1. /\ pc[p] = "check" /\ pc'[p] = "done" /\ UNCHANGED <<at, file>>
        /\ \A q \in Procs \ {p} : pc'[q] = pc[q] /\ report'[q] = report[q]
        /\ \A h \in HourSet :
             report'[p][h] = IF report[p][h] # "missing" /\ file[h] = Absent THEN "absent" ELSE report[p][h]
    BY <1>5 DEF Validate, Go, RawTypeOK
  <2>2. ReportsSoFar'
    <3> SUFFICES ASSUME NEW q \in Procs, NEW i \in DOMAIN Window, Behind(q, i)'
                 PROVE  Told(q, Window[i])'
      BY DEF ReportsSoFar
    <3>1. Window[i] \in HourSet /\ Told(q, Window[i])
      BY <2>1, Places DEF ReportsSoFar, Behind
    <3> QED BY <2>1, <3>1 DEF Told
  <2>3. Validated'
    BY <2>1 DEF Validated
  <2> QED BY <2>2, <2>3
<1>6. CASE /\ UNCHANGED <<at, report>>
           /\ \A q \in Procs : pc'[q] \in {"check", "done"} => pc'[q] = pc[q]
  BY <1>1, <1>6, ReportsKept
<1>7. ASSUME NEW p \in Procs,
             Start(p) \/ Clean(p) \/ Rank(p) \/ Request(p) \/ Read(p) \/ Broken(p) \/ Killed(p)
      PROVE  /\ UNCHANGED <<at, report>>
             /\ \A q \in Procs : pc'[q] \in {"check", "done"} => pc'[q] = pc[q]
  BY <1>7 DEF Start, Clean, Rank, Request, Read, Broken, Killed, Go, RawTypeOK
<1> QED
  BY <1>2, <1>3, <1>4, <1>5, <1>6, <1>7 DEF RawNext, Step, vars, Publish

-----------------------------------------------------------------------------
LEMMA InvInit == RawInit => RawInv
<1> SUFFICES ASSUME RawInit PROVE RawInv
  OBVIOUS
<1>1. RawTypeOK
  BY RawTypeInit
<1>2. DownloadInv
  BY DEF RawInit, DownloadInv, TmpHolds, ReadWhole, StoredWhole, OwnTmpKept
<1>3. ReportsSoFar /\ Validated
  BY Places DEF RawInit, ReportsSoFar, Validated, Behind
<1> QED BY <1>1, <1>2, <1>3 DEF RawInv, DownloadInv

LEMMA InvStep == RawInv /\ [RawNext]_vars => RawInv'
BY TypeStep, DownloadStep, ReportStep DEF RawInv, DownloadInv

LEMMA InvAlways == RawSpec => []RawInv
BY InvInit, InvStep, PTL DEF RawSpec

\* A process finds its temporary file when it comes to rename it, however many others sweep
\* the directory, are killed or begin (scripts/_pmxt_raw_download.py:512).
THEOREM TmpKept == RawSpec => []OwnTmpKept
<1>1. RawInv => OwnTmpKept  BY DEF RawInv
<1> QED BY <1>1, InvAlways, PTL

\* A file under its final name is as long as the archive told, however often downloads broke
\* and processes were killed, unless a connection ended early (L602).
THEOREM FilesWhole == RawSpec => []StoredWhole
<1>1. RawInv => StoredWhole  BY DEF RawInv
<1> QED BY <1>1, InvAlways, PTL

\* The summary of a run that ends tells of every hour, and what it tells is so (L822).
THEOREM SummaryTells == RawSpec => []ReportTells
<1>1. RawInv => ReportTells
  <2> SUFFICES ASSUME RawInv, NEW p \in Procs, pc[p] = "done", NEW h \in HourSet
               PROVE  /\ report[p][h] # "none"
                      /\ report[p][h] \in {"downloaded", "existing"} => file[h] # Absent
                      /\ file[h] = Absent => report[p][h] \in {"missing", "absent"}
    BY DEF ReportTells
  <2>1. PICK i \in DOMAIN Window : h = Window[i]
    BY DEF HourSet, Range
  <2>2. Told(p, h)
    BY <2>1 DEF RawInv, ReportsSoFar, Behind
  <2> QED BY <2>2 DEF Told, RawInv, Validated
<1> QED BY <1>1, InvAlways, PTL
=============================================================================
