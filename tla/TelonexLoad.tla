---------------------------- MODULE TelonexLoad -----------------------------
(***************************************************************************)
(* The Telonex data source (backtesting/data_sources/telonex.py) reading   *)
(* while a downloader may be writing the store it reads: the day-by-day    *)
(* loop of load_order_book_and_quotes over the API cache and the sources   *)
(* in their order.                                                         *)
(*                                                                         *)
(* One loader loads the days of one market and outcome.  Rows are not      *)
(* modelled here (see TelonexRecords); a frame is what it holds of each    *)
(* day: how many copies.                                                   *)
(***************************************************************************)
EXTENDS TelonexStore

CONSTANTS
  Wanted,       (* the days of the window, in their order: a sequence of days    *)
  Entries,      (* ordered_source_entries: a sequence over {"local", "api"}      *)
  KeySet,       (* an API key is configured                                      *)
  VendorDays,   (* the days the vendor has                                       *)
  LocalFiles,   (* the other local files there may be: see LocalFile             *)
  LoadFaults,   (* a subset of LoadFaultKinds                                    *)
  MaxLoads      (* bound on the number of loads                                  *)

\* A download that raises; one whose bytes are no Parquet file; a cache that cannot be
\* written; the reading process killed.
LoadFaultKinds == {"fetch", "payload", "cache", "kill"}

\* The daily files, the consolidated file and the days it holds.
LocalFile == [daily : [Days -> {"none", "ok", "bad"}], range : {"none", "ok", "bad"}, days : SUBSET Days]

ASSUME LoadAssumption ==
  /\ LocalFiles \subseteq LocalFile
  /\ Wanted \in Seq(Days)
  /\ Entries \in Seq({"local", "api"}) /\ Entries # <<>>
  /\ KeySet \in BOOLEAN
  /\ VendorDays \subseteq Days
  /\ LoadFaults \subseteq LoadFaultKinds
  /\ MaxLoads \in Nat

VARIABLES
  (* on disk *)
  daily,        (* the local file of a day: "none", "ok" or "bad"                     *)
  range,        (* the consolidated local file: "none", "ok" or "bad"                 *)
  rangeDays,    (* the days it holds                                                  *)
  apiCache,     (* the cached payload of a day: "none", "ok" or "bad"                 *)
  (* the loader *)
  at,           (* where it is, see Places                                            *)
  nth,          (* the position in Wanted of the day it is loading                    *)
  asking,       (* the position in Entries of the source it is asking                 *)
  scanned,      (* _telonex_readable_blob_parts: partition -> its paths, incomplete   *)
  listed,       (* the parts the glob of a scan found                                 *)
  rangeCache,   (* range_cache: whether the consolidated file was read                *)
  payload,      (* the bytes just downloaded: "none", "ok" or "bad"                   *)
  got,          (* day -> where its frame came from, and the copies it has of the day *)
  (* history *)
  loads,        (* loads begun                                                        *)
  storedAtScan, (* the completed days with a part when their partition was listed     *)
  openAtScan,   (* the days in unreadable parts when their partition was scanned      *)
  failed,       (* days whose download raised or did not parse in this load           *)
  downloads,    (* day -> number of payloads downloaded                               *)
  excuses       (* day -> number of payloads that could not be kept                   *)

Places == {"idle", "cache", "entry", "scan", "query", "daily", "range", "again", "fetch",
           "write", "parse"}

sourceVars == <<daily, range, rangeDays, apiCache>>
walkVars   == <<at, nth, asking>>
seenVars   == <<scanned, listed, rangeCache, storedAtScan, openAtScan>>
countVars  == <<loads, failed, downloads, excuses>>
loadVars   == <<sourceVars, walkVars, seenVars, payload, got, countVars>>

NoScan == [k \in {} |-> [paths |-> {}, incomplete |-> FALSE]]
NoFrame == [d \in {} |-> [from |-> "none", copies |-> 0]]

LoadInit ==
  /\ \E l \in LocalFiles : daily = l.daily /\ range = l.range /\ rangeDays = l.days
  /\ apiCache = [d \in Days |-> "none"]
  /\ at = "idle" /\ nth = 0 /\ asking = 0
  /\ scanned = NoScan /\ listed = {} /\ rangeCache = FALSE /\ payload = "none"
  /\ got = NoFrame
  /\ loads = 0 /\ storedAtScan = {} /\ openAtScan = {} /\ failed = {}
  /\ downloads = [d \in Days |-> 0] /\ excuses = [d \in Days |-> 0]

Day == Wanted[nth]
-----------------------------------------------------------------------------
(* Moving on                                                               *)

\* The next day, or the end of the load.
NextDay ==
  IF nth < Len(Wanted) THEN nth' = nth + 1 /\ asking' = 0 /\ at' = "cache"
                     ELSE nth' = 0 /\ asking' = 0 /\ at' = "idle"

\* frame is not None: the day is done.
Take(from, copies) ==
  /\ got' = With(got, Day, [from |-> from, copies |-> copies])
  /\ NextDay

\* Mutant of NextEntry: the last entry is not asked.
NextEntryButLast ==
  IF asking < Len(Entries) - 1
  THEN at' = "entry" /\ asking' = asking + 1 /\ UNCHANGED <<nth, got>>
  ELSE Take("none", 0)

\* frame is None: the next entry is asked; after the last the day has no records.
NextEntry ==
  IF asking < Len(Entries)
  THEN at' = "entry" /\ asking' = asking + 1 /\ UNCHANGED <<nth, got>>
  ELSE Take("none", 0)

Go(place) == at' = place /\ UNCHANGED <<nth, asking, got>>

\* The completed days of a partition that have rows.
InParts(k) == {d \in DOMAIN completedDays : PartitionOf[d] = k /\ completedDays[d] # NoPart}

HasEntry(kind) == \E i \in DOMAIN Entries : Entries[i] = kind
-----------------------------------------------------------------------------
(* A load                                                                  *)

\* load_order_book_and_quotes is called on a loader of its own, which has scanned nothing.
BeginLoad ==
  /\ at = "idle" /\ loads < MaxLoads /\ Wanted # <<>>
  /\ loads' = loads + 1
  /\ at' = "cache" /\ nth' = 1 /\ asking' = 0
  /\ scanned' = NoScan /\ listed' = {} /\ rangeCache' = FALSE /\ payload' = "none"
  /\ got' = NoFrame
  /\ storedAtScan' = {} /\ openAtScan' = {} /\ failed' = {}
  /\ UNCHANGED <<sourceVars, downloads, excuses>>

\* _load_api_cache_day: a payload that cannot be read is deleted.
ReadCached(found, otherwise) ==
  \/ apiCache[Day] = "ok" /\ found /\ UNCHANGED apiCache
  \/ apiCache[Day] # "ok" /\ otherwise /\ apiCache' = [apiCache EXCEPT ![Day] = "none"]

\* Every API entry's cache is looked up before any entry is asked.
CacheFirst ==
  /\ at = "cache"
  /\ \/ HasEntry("api") /\ ReadCached(Take("cache", 1), NextEntry)
     \/ ~HasEntry("api") /\ NextEntry /\ UNCHANGED apiCache
  /\ UNCHANGED <<daily, range, rangeDays, seenVars, payload, countVars>>

\* _try_load_day_from_local asks the store first, _load_api_day its cache.  A partition is
\* scanned once; the scan begins with a listing of its parts.
AskEntry ==
  /\ at = "entry"
  /\ LET scan == Entries[asking] = "local" /\ PartitionOf[Day] \notin DOMAIN scanned
     IN  /\ Go(IF scan THEN "scan" ELSE IF Entries[asking] = "local" THEN "query" ELSE "again")
         /\ listed' = IF scan THEN {p \in DOMAIN files : p[1] = PartitionOf[Day]} ELSE {}
         /\ storedAtScan' = IF scan THEN storedAtScan \union InParts(PartitionOf[Day]) ELSE storedAtScan
  /\ UNCHANGED <<sourceVars, scanned, rangeCache, openAtScan, payload, countVars>>

\* Mutant of Scan: the newest part only.
ScanNewest(parts) ==
  [paths |-> {p \in parts : Readable(p) /\ \A q \in parts : q[2] <= p[2]},
   incomplete |-> \E p \in parts : ~Readable(p)]

\* _scan_readable_blob_part_paths over the parts it listed, some of which may be gone.
Scan(parts) ==
  [paths |-> {p \in parts : Readable(p)}, incomplete |-> \E p \in parts : ~Readable(p)]

\* _readable_blob_part_paths keeps what a scan found for as long as the loader lives.
ScanParts ==
  /\ at = "scan"
  /\ scanned' = With(scanned, PartitionOf[Day], Scan(listed))
  /\ openAtScan' = openAtScan \union
       UNION {DaysIn(files[p].rows) : p \in {q \in listed \intersect DOMAIN files : ~Readable(q)}}
  /\ Go("query")
  /\ UNCHANGED <<sourceVars, listed, rangeCache, storedAtScan, payload, countVars>>

\* The tables of a day in the parts of a list.
CopiesIn(paths, d) ==
  Cardinality(UNION {{p} \X {i \in DOMAIN files[p].rows : files[p].rows[i] = d} : p \in paths})

\* _load_blob_range: the rows of the whole month, of all parts found.  A part that is gone
\* makes the query fail; an incomplete partition is not queried, an empty frame is none.
QueryBlob ==
  /\ at = "query"
  /\ LET scan   == scanned[PartitionOf[Day]]
         usable == /\ ~scan.incomplete /\ \A p \in scan.paths : Readable(p)
                   /\ \E p \in scan.paths : files[p].rows # <<>>
     IN \/ usable /\ Take("blob", CopiesIn(scan.paths, Day))
        \/ ~usable /\ Go("daily")
  /\ UNCHANGED <<sourceVars, seenVars, payload, countVars>>

\* _load_local_day
ReadDaily ==
  /\ at = "daily"
  /\ \/ daily[Day] = "ok" /\ Take("daily", 1)
     \/ daily[Day] # "ok" /\ Go("range")
  /\ UNCHANGED <<sourceVars, seenVars, payload, countVars>>

\* The consolidated file is read once per load, readable or not.
ReadRange ==
  /\ at = "range"
  /\ \/ range = "ok" /\ rangeCache' = TRUE /\ Take("range", IF Day \in rangeDays THEN 1 ELSE 0)
     \/ range = "bad" /\ rangeCache' = TRUE /\ NextEntry
     \/ range = "none" /\ NextEntry /\ UNCHANGED rangeCache
  /\ UNCHANGED <<sourceVars, scanned, listed, storedAtScan, openAtScan, payload, countVars>>

\* _load_api_day looks its cache up again, and needs a key when there is nothing.
ReadCacheAgain ==
  /\ at = "again"
  /\ ReadCached(Take("cache", 1), IF KeySet THEN Go("fetch") ELSE NextEntry)
  /\ UNCHANGED <<daily, range, rangeDays, seenVars, payload, countVars>>

\* The download: a 404 is no frame, any other failure is warned about and is none either.
Fetch ==
  /\ at = "fetch"
  /\ \/ /\ Day \in VendorDays
        /\ payload' \in {"ok"} \union {"bad" : f \in LoadFaults \intersect {"payload"}}
        /\ downloads' = [downloads EXCEPT ![Day] = @ + 1]
        /\ Go("write") /\ UNCHANGED failed
     \/ /\ Day \notin VendorDays
        /\ NextEntry /\ UNCHANGED <<payload, failed, downloads>>
     \/ /\ "fetch" \in LoadFaults
        /\ failed' = failed \union {Day}
        /\ NextEntry /\ UNCHANGED <<payload, downloads>>
  /\ UNCHANGED <<sourceVars, seenVars, loads, excuses>>

\* Mutant of WriteCache: nothing is written.
WriteCacheNever ==
  at = "write" /\ Go("parse") /\ UNCHANGED <<sourceVars, seenVars, payload, countVars>>

\* _write_api_cache_day: the bytes replace the cached file at once, unread; or they do not.
WriteCache ==
  /\ at = "write"
  /\ \/ apiCache' = [apiCache EXCEPT ![Day] = payload] /\ UNCHANGED excuses
     \/ /\ "cache" \in LoadFaults
        /\ excuses' = [excuses EXCEPT ![Day] = @ + 1]
        /\ UNCHANGED apiCache
  /\ Go("parse")
  /\ UNCHANGED <<daily, range, rangeDays, seenVars, payload, loads, failed, downloads>>

\* pd.read_parquet of the payload: what does not parse is no frame.
Parse ==
  /\ at = "parse"
  /\ payload' = "none"
  /\ \/ payload = "ok" /\ Take("api", 1) /\ UNCHANGED <<failed, excuses>>
     \/ /\ payload = "bad" /\ NextEntry
        /\ failed' = failed \union {Day}
        /\ excuses' = IF apiCache[Day] = "bad" THEN [excuses EXCEPT ![Day] = @ + 1] ELSE excuses
  /\ UNCHANGED <<sourceVars, seenVars, loads, downloads>>

\* The reading process dies; a payload downloaded and not yet written is lost, and so is one
\* whose damaged bytes were.
Kill ==
  /\ at # "idle" /\ "kill" \in LoadFaults
  /\ at' = "idle" /\ nth' = 0 /\ asking' = 0 /\ payload' = "none"
  /\ got' = NoFrame
  /\ excuses' = IF at = "write" \/ (at = "parse" /\ apiCache[Day] = "bad")
                  THEN [excuses EXCEPT ![Day] = @ + 1] ELSE excuses
  /\ UNCHANGED <<sourceVars, seenVars, loads, failed, downloads>>

LoadStep ==
  \/ CacheFirst \/ AskEntry \/ ScanParts \/ QueryBlob \/ ReadDaily \/ ReadRange
  \/ ReadCacheAgain \/ Fetch \/ WriteCache \/ Parse

LoaderNext == LoadStep \/ BeginLoad \/ Kill

\* The downloader and the loader share the disk and nothing else.
Both ==
  \/ Next /\ UNCHANGED loadVars
  \/ LoaderNext /\ UNCHANGED storeVars

LoadSpec == Init /\ LoadInit /\ [][Both]_<<storeVars, loadVars>>
-----------------------------------------------------------------------------
(* Properties                                                              *)

\* A day the manifest had in a part, or that was being written, when its month was scanned is
\* read whole when the store answers ("instead of silently replaying partial L2 books"), and no
\* day is replayed twice, from an orphan beside the part that replaced it or from a path that
\* names another part by now, however parts are rolled, swept and numbered again meanwhile.
StoredDayWhole ==
  \A d \in DOMAIN got :
    /\ got[d].copies <= 1
    /\ got[d].from = "blob" /\ d \in storedAtScan \union openAtScan => got[d].copies = 1

\* A day ends without a frame only when no file and no vendor could give one.
MissExplained ==
  \A d \in DOMAIN got : got[d].from = "none" =>
    /\ HasEntry("local") => daily[d] # "ok" /\ range # "ok"
    /\ HasEntry("api") => ~KeySet \/ d \notin VendorDays \/ d \in failed

\* A payload is downloaded again only when the earlier ones could not be kept: "a second run
\* reads that cache without asking Telonex", and a damaged cache file heals.
PaidOnce == \A d \in Days : downloads[d] <= excuses[d] + 1
=============================================================================
