---------------------------- MODULE PmxtPrefetch ----------------------------
(***************************************************************************)
(* How the PMXT loader gets the hourly files of a window                   *)
(* (RunnerPolymarketPMXTDataLoader in backtesting/data_sources/pmxt.py on  *)
(* top of PolymarketPMXTDataLoader in adapters/polymarket/pmxt.py).        *)
(*                                                                         *)
(* A consumer takes the hours in order; a pool of threads loads a few of   *)
(* them ahead, each from the filtered cache or else from the configured    *)
(* sources, one after the other.  The sources are tried by writing the     *)
(* entry's directory or URL into attributes of the one loader object that  *)
(* all threads share, loading, and writing the prior values back.          *)
(***************************************************************************)
EXTENDS Integers, Sequences, FiniteSets, Functions

CONSTANTS
  NumHours,   (* the hours of the window, _archive_hours                         *)
  Sources,    (* directories of raw files and archive URLs                       *)
  Configs,    (* the PMXTLoaderConfigs, one of which the process runs with       *)
  Holdings,   (* which hours each source may hold, and which of them are damaged *)
  CacheFiles, (* what may be in the cache before the first load                  *)
  Faults,     (* "fetch": a download fails; "cache_write"; "kill"                *)
  MaxLoads    (* bound: loads of the window, with a new loader each              *)

Hours == 1..NumHours
Kinds == {"raw-local", "raw-remote"}
None  == "none"

\* _pmxt_raw_root and _pmxt_remote_base_urls.  _pmxt_remote_base_url is bound with the
\* latter, but every URL is built from the first of _pmxt_remote_base_urls.
Fields == [rawRoot : Sources \union {None}, remoteUrls : Seq(Sources)]

Entry == [kind : Kinds, target : Sources]
Stage == [kind : Kinds]
Config == [entries : Seq(Entry), stages : Seq(Stage), fields : Fields,
           workers : Nat \ {0}, cache : {"on", "off"}]

\* An archive entry puts its URL into remote_base_urls (resolve_pmxt_loader_config).
ASSUME PmxtAssumption ==
  /\ NumHours \in Nat \ {0} /\ MaxLoads \in Nat
  /\ Sources \intersect {None, "cache", "error", "pending"} = {}
  /\ Configs \subseteq Config
  /\ \A c \in Configs : \A i \in DOMAIN c.entries :
       c.entries[i].kind = "raw-remote" => c.fields.remoteUrls # <<>>
  /\ Holdings \subseteq [Sources -> [Hours -> {"good", "missing", "bad"}]]
  /\ CacheFiles \subseteq {"absent", "ok", "bad"}
  /\ Faults \subseteq {"fetch", "cache_write", "kill"}

VARIABLES
  config, holding,
  cache,      (* hour -> its cache file                                      *)
  fields,     (* the attributes of the loader that the threads share         *)
  task,       (* hour -> the thread that loads it                            *)
  consumer,   (* "idle", "loading", "failing", "returned", "raised", "killed" *)
  submitted,  (* next_index: the hours handed to the pool                    *)
  yielded,    (* the hours the consumer took                                 *)
  delivered,  (* hour -> where its rows came from                            *)
  asked,      (* history: hour -> the sources that were asked for it         *)
  loads

world      == <<config, holding>>
takenVars  == <<consumer, submitted, yielded, delivered, loads>>
pmxtVars   == <<world, cache, fields, task, asked, takenVars>>

Scoped     == config.entries # <<>>
Attempts   == IF Scoped THEN config.entries ELSE config.stages
UsesCache  == config.cache = "on"
MaxWorkers == IF config.workers < NumHours THEN config.workers ELSE NumHours

NoTask == [pc |-> "unsubmitted", at |-> 1, left |-> 0, got |-> None,
           saved |-> [rawRoot |-> None, remoteUrls |-> <<>>]]

Init ==
  /\ config \in Configs /\ holding \in Holdings
  /\ cache \in [Hours -> CacheFiles]
  /\ fields = config.fields
  /\ task = [h \in Hours |-> NoTask]
  /\ consumer = "idle" /\ submitted = 0 /\ yielded = 0
  /\ delivered = [h \in Hours |-> "pending"]
  /\ asked = [h \in Hours |-> {}]
  /\ loads = 0
-----------------------------------------------------------------------------
(* The thread that loads an hour: _load_market_batches                      *)

At(h, pc) == consumer \in {"loading", "failing"} /\ task[h].pc = pc
Goto(h, pc) == task' = [task EXCEPT ![h].pc = pc]
Finish(h, got) == task' = [task EXCEPT ![h].pc = "done", ![h].got = got]

\* A cached hour is the result; a cache file that cannot be read is deleted.
ReadCache(h) ==
  /\ At(h, "cache")
  /\ IF UsesCache /\ cache[h] = "ok" THEN Finish(h, "cache") ELSE Goto(h, "next")
  /\ cache' = [cache EXCEPT ![h] = IF UsesCache /\ @ = "bad" THEN "absent" ELSE @]
  /\ UNCHANGED <<world, fields, asked, takenVars>>

Current(h) == Attempts[task[h].at]

\* Mutant of NextAttempt: the attempts begin with the second.
NextAttemptSecond(h) ==
  /\ At(h, "next")
  /\ IF task[h].at >= Len(Attempts)
     THEN Finish(h, None)
     ELSE task' = [task EXCEPT ![h].pc = IF Scoped THEN "bind" ELSE "load",
                               ![h].at = @ + 1, ![h].saved = fields]
  /\ UNCHANGED <<world, cache, fields, asked, takenVars>>

\* The next entry, or stage.  _scoped_source_entry first remembers the attributes.
NextAttempt(h) ==
  /\ At(h, "next")
  /\ IF task[h].at > Len(Attempts)
     THEN Finish(h, None)
     ELSE IF Scoped
     THEN task' = [task EXCEPT ![h].pc = "bind", ![h].saved = fields]
     ELSE Goto(h, "load")
  /\ UNCHANGED <<world, cache, fields, asked, takenVars>>

\* Mutant of BindFields: the entry's target is not bound.
BindNothing(h) == At(h, "bind") /\ Goto(h, "load") /\ UNCHANGED <<world, cache, fields, asked, takenVars>>

BindFields(h) ==
  /\ At(h, "bind")
  /\ fields' = IF Current(h).kind = "raw-local"
               THEN [fields EXCEPT !.rawRoot = Current(h).target]
               ELSE [fields EXCEPT !.remoteUrls = <<Current(h).target>>]
  /\ Goto(h, "load")
  /\ UNCHANGED <<world, cache, asked, takenVars>>

\* The attempt ended: with rows, which are cached first, with an exception, or with nothing.
Got(h, s) ==
  task' = [task EXCEPT ![h].pc = IF UsesCache /\ s \in Sources THEN "write" ELSE "leave",
                       ![h].got = s]

Ask(h, s) == asked' = [asked EXCEPT ![h] = @ \union {s}]

\* The raw directory is the one the attribute holds now.  A file that cannot be read
\* raises.  (PMXT_LOCAL_ARCHIVE_DIR, used when there is no raw directory, is not set.)
LoadLocal(h) ==
  /\ At(h, "load") /\ Current(h).kind = "raw-local"
  /\ IF fields.rawRoot = None
     THEN Got(h, None) /\ UNCHANGED asked
     ELSE /\ Ask(h, fields.rawRoot)
          /\ CASE holding[fields.rawRoot][h] = "good"    -> Got(h, fields.rawRoot)
               [] holding[fields.rawRoot][h] = "missing" -> Got(h, None)
               [] holding[fields.rawRoot][h] = "bad"     -> Got(h, "error")
  /\ UNCHANGED <<world, cache, fields, takenVars>>

\* _load_remote_market_batches makes one try for each URL of the attribute.
BeginRemote(h) ==
  /\ At(h, "load") /\ Current(h).kind = "raw-remote"
  /\ IF fields.remoteUrls = <<>>
     THEN Got(h, None)
     ELSE task' = [task EXCEPT ![h].pc = "fetch", ![h].left = Len(fields.remoteUrls)]
  /\ UNCHANGED <<world, cache, fields, asked, takenVars>>

\* Every try asks the first URL the attribute holds now; whatever goes wrong with the
\* download or its file is an hour the source does not have.
Fetch(h) ==
  /\ At(h, "fetch")
  /\ LET url == Head(fields.remoteUrls)
     IN  /\ Ask(h, url)
         /\ \/ holding[url][h] = "good" /\ Got(h, url)
            \/ /\ holding[url][h] # "good" \/ "fetch" \in Faults
               /\ IF task[h].left > 1
                  THEN task' = [task EXCEPT ![h].left = @ - 1]
                  ELSE Got(h, None)
  /\ UNCHANGED <<world, cache, fields, takenVars>>

\* The file is written under another name and moved into place; errors are suppressed.
WriteCache(h) ==
  /\ At(h, "write")
  /\ \/ cache' = [cache EXCEPT ![h] = "ok"]
     \/ "cache_write" \in Faults /\ UNCHANGED cache
  /\ Goto(h, "leave")
  /\ UNCHANGED <<world, fields, asked, takenVars>>

AfterAttempt(h) ==
  task' = IF task[h].got = None
          THEN [task EXCEPT ![h].pc = "next", ![h].at = @ + 1]
          ELSE [task EXCEPT ![h].pc = "done"]

\* The end of an attempt; a scope writes the remembered attributes back.
LeaveAttempt(h) ==
  /\ At(h, "leave")
  /\ fields' = IF Scoped THEN task[h].saved ELSE fields
  /\ AfterAttempt(h)
  /\ UNCHANGED <<world, cache, asked, takenVars>>

TaskStep(h) ==
  \/ ReadCache(h) \/ NextAttempt(h) \/ BindFields(h) \/ LoadLocal(h) \/ BeginRemote(h)
  \/ Fetch(h) \/ WriteCache(h) \/ LeaveAttempt(h)
-----------------------------------------------------------------------------
(* The consumer: _iter_market_batches in the loop of                        *)
(* load_order_book_and_quotes, and the runs of the process                  *)

Submit(upTo) == [h \in Hours |-> IF h <= upTo /\ task[h].pc = "unsubmitted"
                                 THEN [task[h] EXCEPT !.pc = "cache"] ELSE task[h]]

\* A new loader is made, and the first hours are handed to the pool.
StartLoad ==
  /\ consumer \in {"idle", "returned", "raised", "killed"} /\ loads < MaxLoads
  /\ consumer' = "loading" /\ loads' = loads + 1
  /\ fields' = config.fields
  /\ task' = [h \in Hours |-> [NoTask EXCEPT !.pc = IF h <= MaxWorkers THEN "cache" ELSE @]]
  /\ submitted' = MaxWorkers /\ yielded' = 0
  /\ delivered' = [h \in Hours |-> "pending"]
  /\ asked' = [h \in Hours |-> {}]
  /\ UNCHANGED <<world, cache>>

Awaited == yielded + 1

Ready == consumer = "loading" /\ Awaited \in Hours /\ task[Awaited].pc = "done"

Take(upTo) ==
  /\ delivered' = [delivered EXCEPT ![Awaited] = task[Awaited].got]
  /\ yielded' = Awaited
  /\ submitted' = upTo
  /\ task' = Submit(upTo)
  /\ UNCHANGED <<world, cache, fields, asked, consumer, loads>>

\* Mutant of Yield: everything that is left is submitted.
YieldSubmitsAll == Ready /\ task[Awaited].got # "error" /\ Take(NumHours)

\* Mutant of Yield: nothing more is submitted.
YieldSubmitsNone == Ready /\ task[Awaited].got # "error" /\ Take(submitted)

\* The next hour in order is taken, and one more is submitted.
Yield ==
  /\ Ready /\ task[Awaited].got # "error"
  /\ Take(IF submitted < NumHours THEN submitted + 1 ELSE submitted)

\* result() raises what the thread raised; leaving the pool waits for the other threads.
YieldRaises ==
  /\ Ready /\ task[Awaited].got = "error"
  /\ consumer' = "failing"
  /\ UNCHANGED <<world, cache, fields, task, asked, submitted, yielded, delivered, loads>>

Working == {h \in Hours : task[h].pc \notin {"unsubmitted", "done"}}

LeavePool ==
  /\ Working = {}
  /\ \/ consumer = "loading" /\ yielded = NumHours /\ consumer' = "returned"
     \/ consumer = "failing" /\ consumer' = "raised"
  /\ UNCHANGED <<world, cache, fields, task, asked, submitted, yielded, delivered, loads>>

\* The process dies; the cache is on disk.
Kill ==
  /\ "kill" \in Faults /\ consumer \in {"loading", "failing"}
  /\ consumer' = "killed"
  /\ UNCHANGED <<world, cache, fields, task, asked, submitted, yielded, delivered, loads>>

Consumer == Yield \/ YieldRaises \/ LeavePool

Next == StartLoad \/ Consumer \/ Kill \/ \E h \in Hours : TaskStep(h)

\* Threads are scheduled, and a download ends: urlopen has a timeout of 30 s.
Fairness == WF_pmxtVars(Consumer) /\ \A h \in Hours : WF_pmxtVars(TaskStep(h))

Spec == Init /\ [][Next]_pmxtVars /\ Fairness
-----------------------------------------------------------------------------
Pcs == {"unsubmitted", "cache", "next", "bind", "load", "fetch", "write", "leave", "done"}
Task == [pc : Pcs, at : Nat \ {0}, left : Nat, got : Sources \union {None, "cache", "error"},
         saved : Fields]

\* TypeOK: the variables have their types.
TypeOK ==
  /\ config \in Configs /\ holding \in Holdings
  /\ cache \in [Hours -> {"absent", "ok", "bad"}]
  /\ fields \in Fields
  /\ task \in [Hours -> Task]
  /\ consumer \in {"idle", "loading", "failing", "returned", "raised", "killed"}
  /\ submitted \in 0..NumHours /\ yielded \in 0..NumHours
  /\ delivered \in [Hours -> Sources \union {None, "cache", "pending"}]
  /\ asked \in [Hours -> SUBSET Sources]
  /\ loads \in Nat

\* The sources an attempt stands for.
SourcesOf(a) ==
  IF Scoped THEN {a.target}
  ELSE IF a.kind = "raw-local" THEN {config.fields.rawRoot} \ {None}
  ELSE Range(config.fields.remoteUrls)

\* Sources are tried from left to right: an hour comes from a source that has it, and only
\* after every source configured before it was asked for this very hour.
FirstSourceWins ==
  \A h \in Hours : delivered[h] \in Sources =>
    /\ holding[delivered[h]][h] = "good"
    /\ \E i \in DOMAIN Attempts :
         /\ delivered[h] \in SourcesOf(Attempts[i])
         /\ \A j \in 1..(i - 1) : SourcesOf(Attempts[j]) \subseteq asked[h]

\* An hour that is reported as found nowhere was looked for in every configured source.
MissConfirmed ==
  \A h \in Hours : delivered[h] = None =>
    \A i \in DOMAIN Attempts : SourcesOf(Attempts[i]) \subseteq asked[h]

\* At most max_workers hours are held in memory, loaded or being loaded, and not yet taken.
PrefetchBounded == submitted - yielded <= MaxWorkers

\* Every load ends: the consumer is not left waiting for an hour nobody loads.
LoadEnds == consumer \in {"loading", "failing"} ~> consumer \in {"returned", "raised", "killed"}
=============================================================================
