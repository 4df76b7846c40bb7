---------------------------- MODULE TelonexProofs ----------------------------
(***************************************************************************)
(* Proofs about the two processes over the day store.                      *)
(*                                                                         *)
(* The downloader, for any jobs, concurrency, queue size, answers and      *)
(* faults, with and without --overwrite:                                   *)
(*   - DownloadSpec => []SummaryAgrees;                                    *)
(*   - DownloadSpec => []OneFetchAfterStop and => StoreUsedAsAllowed;      *)
(*   - the store in the downloader's hands is the store of                 *)
(*     TelonexStoreProofs: DownloadSpec => []ManifestBacked and            *)
(*     => LedgerSpec, and without --overwrite and joins given up           *)
(*     => []PartsAgreeWithManifest.                                        *)
(* They rest on RunInv: every day of the run is at one place on its way    *)
(* from the jobs over the tasks, the queue and the pending list into the   *)
(* store, and is counted when it leaves that way, never before.            *)
(*                                                                         *)
(* The data source, for every window of days, order of sources, local      *)
(* files, vendor and fault, and whatever the downloader does to the store  *)
(* meanwhile:                                                              *)
(*   - LoadSpec => []PaidOnce;                                             *)
(*   - LoadSpec => []MissExplained;                                        *)
(*   - LoadSpec => []StoredDayWhole, when no day is ingested twice.        *)
(***************************************************************************)
EXTENDS TelonexDownload, TelonexLoad, TelonexStoreProofs

-----------------------------------------------------------------------------
(* What the store has to do                                                 *)

\* The days that steps s write.
WriteDays(s) == {d \in Days : \E i \in DOMAIN s : s[i].do = "append" /\ d \in DaysIn(s[i].days)}

\* The days written to a part and not committed yet.
AwaitingDays(W, C) ==
  {d \in Days : \/ \E k \in DOMAIN W : d \in DaysIn(W[k].pending)
                \/ \E c \in C : d \in DaysIn(c.pending)}

ToWrite   == WriteDays(steps)
ToEmpty   == StepDays(steps, "empty")
ToMissing == StepDays(steps, "missing")
Awaiting  == AwaitingDays(writers, committing)
WorkDays  == ToWrite \union ToEmpty \union ToMissing \union Awaiting

Completed == DOMAIN completedDays
Drained   == DOMAIN writers = {} /\ committing = {}
OneCommit == \A c, e \in committing : c = e
ToSweep   == \E i \in DOMAIN steps : steps[i].do = "sweep"

\* A step that does not raise carries each day further, and each day as what it is.
CarriedOn ==
  /\ ToWrite' \subseteq ToWrite /\ ToEmpty' \subseteq ToEmpty /\ ToMissing' \subseteq ToMissing
  /\ Awaiting' \subseteq ToWrite \union Awaiting
  /\ ToWrite \subseteq ToWrite' \union Awaiting'
  /\ Awaiting \subseteq Awaiting' \union Completed'
  /\ ToEmpty \subseteq ToEmpty' \union Completed'
  /\ ToMissing \subseteq ToMissing' \union emptyDays'
  /\ Completed \subseteq Completed' \union ToMissing
  /\ emptyDays \subseteq emptyDays' \union Awaiting \union ToEmpty

\* What any step of the store does with the days.
Worked ==
  /\ WorkDays' \subseteq WorkDays
  /\ Completed' \subseteq Completed \union WorkDays
  /\ Completed \intersect emptyDays = {} => Completed' \intersect emptyDays' = {}
  /\ OneCommit => OneCommit'
  /\ troubled => troubled'
  /\ outcome' = "raised" => troubled' \/ outcome = "raised"
  /\ ~troubled' => CarriedOn

LEMMA HeadWork ==
  ASSUME NEW s \in Seq(Step), s # <<>>
  PROVE  /\ Head(s).do = "append" => WriteDays(s) = WriteDays(Tail(s)) \union DaysIn(Head(s).days)
         /\ Head(s).do # "append" => WriteDays(s) = WriteDays(Tail(s))
         /\ Head(s).do = "empty" => StepDays(s, "empty") = StepDays(Tail(s), "empty") \union Head(s).days
         /\ Head(s).do # "empty" => StepDays(s, "empty") = StepDays(Tail(s), "empty")
         /\ Head(s).do = "missing" => StepDays(s, "missing") = StepDays(Tail(s), "missing") \union Head(s).days
         /\ Head(s).do # "missing" => StepDays(s, "missing") = StepDays(Tail(s), "missing")
<1>1. \A i \in DOMAIN s : i = 1 \/ (i - 1 \in DOMAIN Tail(s) /\ Tail(s)[i - 1] = s[i])
  OBVIOUS
<1>2. \A i \in DOMAIN Tail(s) : i + 1 \in DOMAIN s /\ s[i + 1] = Tail(s)[i]
  OBVIOUS
<1>3. 1 \in DOMAIN s /\ s[1] = Head(s) /\ Head(s) \in Step
  OBVIOUS
<1>4. Head(s).do = "append" => DaysIn(Head(s).days) \subseteq Days
  BY <1>3, StepKinds DEF DaysIn
<1>5. Head(s).do \in {"empty", "missing"} => Head(s).days \subseteq Days
  BY <1>3, StepKinds
<1> DEFINE x == Head(s)
           t == Tail(s)
<1> HIDE DEF x, t
<1>0. /\ \A i \in DOMAIN s : s[i] = x \/ \E j \in DOMAIN t : s[i] = t[j]
      /\ \A j \in DOMAIN t : \E i \in DOMAIN s : s[i] = t[j]
      /\ \E i \in DOMAIN s : s[i] = x
  BY <1>1, <1>2, <1>3 DEF x, t
<1>6. WriteDays(s) = WriteDays(t) \union (IF x.do = "append" THEN DaysIn(x.days) ELSE {})
  <2>1. \A d : d \in WriteDays(s) <=> d \in WriteDays(t) \/ (d \in Days /\ x.do = "append" /\ d \in DaysIn(x.days))
    BY <1>0, <1>4 DEF WriteDays
  <2> QED BY <1>4, <2>1 DEF x
<1>7. ASSUME NEW do \in {"empty", "missing"}
      PROVE  StepDays(s, do) = StepDays(t, do) \union (IF x.do = do THEN x.days ELSE {})
  <2>1. \A d : d \in StepDays(s, do) <=> d \in StepDays(t, do) \/ (d \in Days /\ x.do = do /\ d \in x.days)
    BY <1>0 DEF StepDays
  <2> QED BY <1>5, <1>7, <2>1 DEF x
<1> QED BY <1>6, <1>7 DEF x, t

LEMMA ConcatRight ==
  ASSUME NEW s \in Seq(Step), NEW t \in Seq(Step)
  PROVE  \A i \in DOMAIN t : i + Len(s) \in DOMAIN (s \o t) /\ (s \o t)[i + Len(s)] = t[i]
OBVIOUS

LEMMA ConcatWork ==
  ASSUME NEW s \in Seq(Step), NEW t \in Seq(Step)
  PROVE  /\ WriteDays(s \o t) = WriteDays(s) \union WriteDays(t)
         /\ StepDays(s \o t, "empty") = StepDays(s, "empty") \union StepDays(t, "empty")
         /\ StepDays(s \o t, "missing") = StepDays(s, "missing") \union StepDays(t, "missing")
<1>1. \A i \in DOMAIN (s \o t) :
        \/ i \in DOMAIN s /\ (s \o t)[i] = s[i]
        \/ i - Len(s) \in DOMAIN t /\ (s \o t)[i] = t[i - Len(s)]
  OBVIOUS
<1>2. \A i \in DOMAIN s : i \in DOMAIN (s \o t) /\ (s \o t)[i] = s[i]
  OBVIOUS
<1>3. \A i \in DOMAIN t : i + Len(s) \in DOMAIN (s \o t) /\ (s \o t)[i + Len(s)] = t[i]
  BY ConcatRight
<1> DEFINE st == s \o t
<1> HIDE DEF st
<1>4. /\ \A i \in DOMAIN st : (\E j \in DOMAIN s : st[i] = s[j]) \/ \E j \in DOMAIN t : st[i] = t[j]
      /\ \A j \in DOMAIN s : \E i \in DOMAIN st : st[i] = s[j]
      /\ \A j \in DOMAIN t : \E i \in DOMAIN st : st[i] = t[j]
  BY <1>1, <1>2, <1>3 DEF st
<1>5. WriteDays(st) = WriteDays(s) \union WriteDays(t)
  BY <1>4 DEF WriteDays
<1>6. \A do : StepDays(st, do) = StepDays(s, do) \union StepDays(t, do)
  BY <1>4 DEF StepDays
<1> QED BY <1>5, <1>6 DEF st

LEMMA NoWork ==
  /\ WriteDays(<<>>) = {} /\ \A do : StepDays(<<>>, do) = {}
  /\ \A k : WriteDays(<<Flush(k)>>) = {} /\ \A do \in {"empty", "missing"} : StepDays(<<Flush(k)>>, do) = {}
  /\ WriteDays(<<FlushAll, Sweep>>) = {}
  /\ \A do \in {"empty", "missing"} : StepDays(<<FlushAll, Sweep>>, do) = {}
<1>1. WriteDays(<<>>) = {} /\ \A do : StepDays(<<>>, do) = {}
  BY DEF WriteDays, StepDays
<1>2. \A k : WriteDays(<<Flush(k)>>) = {} /\ \A do \in {"empty", "missing"} : StepDays(<<Flush(k)>>, do) = {}
  BY DEF WriteDays, StepDays, Flush
<1>3. /\ WriteDays(<<FlushAll, Sweep>>) = {}
      /\ \A do \in {"empty", "missing"} : StepDays(<<FlushAll, Sweep>>, do) = {}
  BY DEF WriteDays, StepDays, FlushAll, Sweep
<1> QED BY <1>1, <1>2, <1>3

\* A step that changes nothing but what is left to do, and the same days are left.
LEMMA SameWork ==
  ASSUME WriteDays(steps') = ToWrite, StepDays(steps', "empty") = ToEmpty,
         StepDays(steps', "missing") = ToMissing,
         UNCHANGED <<completedDays, emptyDays, writers, committing, outcome, troubled>>
  PROVE  Worked
BY DEF OneCommit, Worked, CarriedOn, WorkDays, ToWrite, ToEmpty, ToMissing, Awaiting, Completed

LEMMA FlushFirst ==
  ASSUME NEW k \in Partitions, NEW t \in Seq(Step)
  PROVE  /\ WriteDays(<<Flush(k)>> \o t) = WriteDays(t)
         /\ StepDays(<<Flush(k)>> \o t, "empty") = StepDays(t, "empty")
         /\ StepDays(<<Flush(k)>> \o t, "missing") = StepDays(t, "missing")
<1> DEFINE f == <<Flush(k)>>
<1>1. f \in Seq(Step)
  BY FlushSeq
<1>2. WriteDays(f) = {} /\ StepDays(f, "empty") = {} /\ StepDays(f, "missing") = {}
  BY NoWork
<1> HIDE DEF f
<1>3. /\ WriteDays(f \o t) = WriteDays(f) \union WriteDays(t)
      /\ StepDays(f \o t, "empty") = StepDays(f, "empty") \union StepDays(t, "empty")
      /\ StepDays(f \o t, "missing") = StepDays(f, "missing") \union StepDays(t, "missing")
  BY <1>1, ConcatWork
<1> QED BY <1>2, <1>3 DEF f

\* An operation that raises leaves nothing to do but the open parts.
LEMMA RaisedWork ==
  ASSUME Raise, Awaiting' \subseteq Awaiting, UNCHANGED <<completedDays, emptyDays>>,
         committing' \subseteq committing
  PROVE  Worked
<1>1. ToWrite' = {} /\ ToEmpty' = {} /\ ToMissing' = {}
  BY NoWork DEF Raise, ToWrite, ToEmpty, ToMissing
<1> QED BY <1>1 DEF Worked, WorkDays, Completed, OneCommit, Raise

\* The days of an open part with days D appended.
LEMMA AwaitingAppend ==
  ASSUME NEW k \in Partitions, NEW p, NEW ds \in Seq(Days), PendingOf(k) \in Seq(Days),
         writers' = With(writers, k, [part |-> p, pending |-> PendingOf(k) \o ds]),
         committing' = committing
  PROVE  Awaiting' = Awaiting \union DaysIn(ds)
<1>1. DaysIn(PendingOf(k) \o ds) = DaysIn(PendingOf(k)) \union DaysIn(ds) /\ DaysIn(ds) \subseteq Days
  <2>1. DaysIn(PendingOf(k) \o ds) = DaysIn(PendingOf(k)) \union DaysIn(ds)
    BY DaysInConcat
  <2>2. DaysIn(ds) \subseteq Days
    BY DEF DaysIn
  <2> QED BY <2>1, <2>2
<1> DEFINE W == writers'
           full == PendingOf(k) \o ds
<1>2. /\ DOMAIN W = DOMAIN writers \union {k} /\ W[k].pending = full
      /\ \A j \in DOMAIN writers : j # k => W[j] = writers[j]
  BY DEF With
<1>3. DaysIn(PendingOf(k)) = IF k \in DOMAIN writers THEN DaysIn(writers[k].pending) ELSE {}
  BY DEF PendingOf, DaysIn
<1> HIDE DEF W, full
<1>4. \A d : d \in AwaitingDays(W, committing) <=> d \in AwaitingDays(writers, committing) \/ d \in DaysIn(ds)
  <2> SUFFICES ASSUME NEW d
               PROVE  d \in AwaitingDays(W, committing) <=> d \in AwaitingDays(writers, committing) \/ d \in DaysIn(ds)
    OBVIOUS
  <2>1. DaysIn(full) = DaysIn(PendingOf(k)) \union DaysIn(ds)
    BY <1>1 DEF full
  <2>2. ASSUME d \in AwaitingDays(W, committing)
        PROVE  d \in AwaitingDays(writers, committing) \/ d \in DaysIn(ds)
    BY <2>2, <2>1, <1>2, <1>3 DEF AwaitingDays
  <2>3. ASSUME d \in AwaitingDays(writers, committing)
        PROVE  d \in AwaitingDays(W, committing)
    BY <2>3, <2>1, <1>2, <1>3 DEF AwaitingDays
  <2>4. ASSUME d \in DaysIn(ds)
        PROVE  d \in AwaitingDays(W, committing)
    BY <2>4, <2>1, <1>1, <1>2 DEF AwaitingDays
  <2> QED BY <2>2, <2>3, <2>4
<1> QED BY <1>4 DEF Awaiting, W

LEMMA PendingTyped ==
  ASSUME Inv, NEW k
  PROVE  PendingOf(k) \in Seq(Days)
<1>1. k \in DOMAIN writers => writers[k] \in OpenPart
  BY DEF Inv, TypeOK, MemoryOK
<1> QED BY <1>1 DEF PendingOf, OpenPart

LEMMA AppendGroupWork == ASSUME Inv, AppendGroup PROVE Worked
<1> DEFINE k == Head(steps).k
           ds == Head(steps).days
           t == Tail(steps)
<1>1. /\ k \in Partitions /\ ds \in Seq(Days) /\ steps # <<>> /\ steps \in Seq(Step) /\ t \in Seq(Step)
      /\ Head(steps).do = "append"
  BY AppendHead DEF AppendGroup, At
<1>2. \E roll \in BOOLEAN : steps' = (IF roll THEN <<Flush(k)>> ELSE <<>>) \o t
  BY DEF AppendGroup, Rolls
<1>3. /\ writers' = With(writers, k, [part |-> PartOf(k), pending |-> PendingOf(k) \o ds])
      /\ UNCHANGED <<completedDays, emptyDays, committing, outcome, troubled>>
  BY DEF AppendGroup, historyVars
<1>4. /\ ToWrite = WriteDays(t) \union DaysIn(ds)
      /\ ToEmpty = StepDays(t, "empty") /\ ToMissing = StepDays(t, "missing")
  BY <1>1, HeadWork DEF ToWrite, ToEmpty, ToMissing
<1> HIDE DEF k, ds, t
<1>5. Awaiting' = Awaiting \union DaysIn(ds)
  BY <1>1, <1>3, PendingTyped, AwaitingAppend
<1>6. steps' = t \/ steps' = <<Flush(k)>> \o t
  BY <1>1, <1>2
<1>7. ToWrite' = WriteDays(t) /\ ToEmpty' = ToEmpty /\ ToMissing' = ToMissing
  <2>1. CASE steps' = t
    BY <1>4, <2>1 DEF ToWrite, ToEmpty, ToMissing
  <2>2. CASE steps' = <<Flush(k)>> \o t
    BY <1>1, <1>4, <2>2, FlushFirst DEF ToWrite, ToEmpty, ToMissing
  <2> QED BY <1>6, <2>1, <2>2
<1> QED BY <1>3, <1>4, <1>5, <1>7 DEF Worked, CarriedOn, WorkDays, Completed, OneCommit

LEMMA AppendFailsWork == ASSUME Inv, AppendFails PROVE Worked
<1> DEFINE k == Head(steps).k
<1>1. k \in Partitions
  BY AppendHead DEF AppendFails
<1>2. /\ writers' = With(writers, k, [part |-> PartOf(k), pending |-> PendingOf(k)])
      /\ Raise /\ UNCHANGED <<completedDays, emptyDays, committing>>
  BY DEF AppendFails
<1> HIDE DEF k
<1>3. PendingOf(k) = PendingOf(k) \o <<>> /\ <<>> \in Seq(Days) /\ DaysIn(<<>>) = {}
  BY PendingTyped DEF DaysIn
<1>4. Awaiting' = Awaiting \union DaysIn(<<>>)
  BY <1>1, <1>2, <1>3, PendingTyped, AwaitingAppend
<1> QED BY <1>2, <1>3, <1>4, RaisedWork

LEMMA SplitGroupWork == ASSUME Inv, SplitGroup PROVE Worked
<1> DEFINE group == Head(steps)
           w(i) == [do |-> "append", k |-> group.k, days |-> <<group.days[i]>>]
           s == [i \in DOMAIN group.days |-> w(i)]
           t == Tail(steps)
<1>1. /\ group.k \in Partitions /\ group.days \in Seq(Days) /\ steps # <<>> /\ steps \in Seq(Step)
      /\ t \in Seq(Step) /\ group.do = "append"
  BY AppendHead DEF SplitGroup, At
<1>2. \A i \in DOMAIN group.days : w(i) \in Step /\ w(i).do = "append" /\ DaysIn(w(i).days) = {group.days[i]}
  <2> SUFFICES ASSUME NEW i \in DOMAIN group.days
               PROVE  w(i) \in Step /\ w(i).do = "append" /\ DaysIn(w(i).days) = {group.days[i]}
    OBVIOUS
  <2>1. <<group.days[i]>> \in Seq(Days) /\ DaysIn(<<group.days[i]>>) = {group.days[i]}
    BY <1>1 DEF DaysIn
  <2> QED BY <1>1, <2>1, StepTypes
<1>3. steps' = s \o t /\ UNCHANGED <<completedDays, emptyDays, writers, committing, outcome, troubled>>
  BY DEF SplitGroup, diskVars, historyVars
<1>4. /\ ToWrite = WriteDays(t) \union DaysIn(group.days)
      /\ ToEmpty = StepDays(t, "empty") /\ ToMissing = StepDays(t, "missing")
  BY <1>1, HeadWork DEF ToWrite, ToEmpty, ToMissing
<1> HIDE DEF w, t
<1>5. s \in Seq(Step) /\ DOMAIN s = DOMAIN group.days /\ \A i \in DOMAIN s : s[i] = w(i)
  BY <1>1, <1>2
<1> HIDE DEF s, group
<1>6. WriteDays(s) = DaysIn(group.days) /\ \A do \in {"empty", "missing"} : StepDays(s, do) = {}
  <2>1. DaysIn(group.days) \subseteq Days
    BY <1>1 DEF DaysIn
  <2>2. WriteDays(s) = DaysIn(group.days)
    <3>1. \A d : (\E i \in DOMAIN s : s[i].do = "append" /\ d \in DaysIn(s[i].days))
                   <=> \E i \in DOMAIN group.days : d = group.days[i]
      BY <1>2, <1>5
    <3> QED BY <2>1, <3>1 DEF WriteDays, DaysIn
  <2>3. \A do \in {"empty", "missing"} : StepDays(s, do) = {}
    BY <1>2, <1>5 DEF StepDays
  <2> QED BY <2>2, <2>3
<1>7. /\ WriteDays(s \o t) = WriteDays(s) \union WriteDays(t)
      /\ StepDays(s \o t, "empty") = StepDays(s, "empty") \union StepDays(t, "empty")
      /\ StepDays(s \o t, "missing") = StepDays(s, "missing") \union StepDays(t, "missing")
  BY <1>1, <1>5, ConcatWork
<1> QED BY <1>3, <1>4, <1>6, <1>7, SameWork

LEMMA RollForSchemaWork == ASSUME Inv, RollForSchema PROVE Worked
<1> DEFINE k == Head(steps).k
<1>1. k \in Partitions /\ steps \in Seq(Step)
  BY AppendHead DEF RollForSchema
<1>2. steps' = <<Flush(k)>> \o steps /\ UNCHANGED <<completedDays, emptyDays, writers, committing, outcome, troubled>>
  BY DEF RollForSchema, diskVars, historyVars
<1> HIDE DEF k
<1> QED BY <1>1, <1>2, FlushFirst, SameWork DEF ToWrite, ToEmpty, ToMissing

\* What a step that is no append leaves to do.
LEMMA TailWork ==
  ASSUME Inv, steps # <<>>, steps' = Tail(steps), Head(steps).do # "append"
  PROVE  /\ ToWrite' = ToWrite
         /\ Head(steps).do # "empty" => ToEmpty' = ToEmpty
         /\ Head(steps).do # "missing" => ToMissing' = ToMissing
         /\ Head(steps).do = "empty" => ToEmpty = ToEmpty' \union Head(steps).days
         /\ Head(steps).do = "missing" => ToMissing = ToMissing' \union Head(steps).days
BY Holding, HeadWork DEF ToWrite, ToEmpty, ToMissing

LEMMA ClosePartWork == ASSUME Inv, ClosePart PROVE Worked
<1> DEFINE k == Head(steps).k
<1>1. /\ At("flush") /\ k \in DOMAIN writers /\ writers' = Without(writers, k) /\ steps' = Tail(steps)
      /\ UNCHANGED <<completedDays, emptyDays, outcome, troubled>>
      /\ \/ writers[k].pending = <<>> /\ committing' = committing
         \/ committing' = {writers[k]}
  BY DEF ClosePart, historyVars
<1>2. steps # <<>> /\ committing = {} /\ Head(steps).do = "flush"
  BY <1>1 DEF At
<1>3. ToWrite' = ToWrite /\ ToEmpty' = ToEmpty /\ ToMissing' = ToMissing
  BY <1>1, <1>2, TailWork
<1>4. DOMAIN writers' = DOMAIN writers \ {k} /\ \A j \in DOMAIN writers' : writers'[j] = writers[j]
  BY <1>1 DEF Without, Restrict
<1> HIDE DEF k
<1>5. Awaiting' = Awaiting
  <2>1. CASE writers[k].pending = <<>> /\ committing' = committing
    <3>1. DaysIn(writers[k].pending) = {}
      BY <2>1 DEF DaysIn
    <3> QED BY <1>1, <1>4, <2>1, <3>1 DEF Awaiting, AwaitingDays
  <2>2. CASE committing' = {writers[k]}
    BY <1>1, <1>2, <1>4, <2>2 DEF Awaiting, AwaitingDays
  <2> QED BY <1>1, <2>1, <2>2
<1> QED BY <1>1, <1>3, <1>5 DEF Worked, CarriedOn, WorkDays, Completed, OneCommit

LEMMA ClosePartFailsWork == ASSUME Inv, ClosePartFails PROVE Worked
<1> DEFINE k == Head(steps).k
<1>1. writers' = Without(writers, k) /\ committing' = committing
  BY DEF ClosePartFails
<1>2. \A j \in DOMAIN writers' : j \in DOMAIN writers /\ writers'[j] = writers[j]
  BY <1>1 DEF Without, Restrict
<1>3. Awaiting' \subseteq Awaiting
  BY <1>1, <1>2 DEF Awaiting, AwaitingDays
<1> QED BY <1>3, RaisedWork DEF ClosePartFails

LEMMA CommitFailsWork == ASSUME Inv, CommitFails PROVE Worked
<1>1. Awaiting' \subseteq Awaiting
  BY DEF CommitFails, Awaiting, AwaitingDays
<1> QED BY <1>1, RaisedWork DEF CommitFails, diskVars

LEMMA RecordFailsWork == ASSUME Inv, RecordFails PROVE Worked
<1>1. Awaiting' \subseteq Awaiting
  BY DEF RecordFails, Awaiting
<1> QED BY <1>1, RaisedWork DEF RecordFails, diskVars

LEMMA CommitPartWork == ASSUME Inv, OneCommit, CommitPart PROVE Worked
<1>1. PICK c \in committing : /\ Complete(DaysIn(c.pending), c.part)
                              /\ emptyDays' = emptyDays \ DaysIn(c.pending)
  BY DEF CommitPart
<1> DEFINE D == DaysIn(c.pending)
<1>2. D \subseteq Days
  BY DEF DaysIn, Inv, TypeOK, MemoryOK, OpenPart
<1>3. Completed' = Completed \union D
  BY <1>1 DEF Complete, Completed
<1>4. /\ ToWrite' = ToWrite /\ ToEmpty' = ToEmpty /\ ToMissing' = ToMissing
      /\ committing' = {} /\ writers' = writers /\ UNCHANGED <<outcome, troubled>>
  BY DEF CommitPart, ToWrite, ToEmpty, ToMissing
<1> HIDE DEF D
<1>5. /\ D \subseteq Awaiting /\ Awaiting' \subseteq Awaiting
      /\ Awaiting \subseteq Awaiting' \union D
  <2>1. \A e \in committing : e = c
    BY DEF OneCommit
  <2> QED BY <1>2, <1>4, <2>1 DEF D, Awaiting, AwaitingDays
<1> QED BY <1>1, <1>3, <1>4, <1>5 DEF Worked, CarriedOn, WorkDays, OneCommit, D

LEMMA RecordEmptyWork == ASSUME Inv, RecordEmpty PROVE Worked
<1> DEFINE D == Head(steps).days
<1>1. /\ At("empty") /\ steps' = Tail(steps) /\ Complete(D, NoPart) /\ emptyDays' = emptyDays \ D
      /\ UNCHANGED <<writers, committing, outcome, troubled>>
  BY DEF RecordEmpty
<1>2. steps # <<>> /\ Head(steps).do = "empty"
  BY <1>1 DEF At
<1>3. ToWrite' = ToWrite /\ ToMissing' = ToMissing /\ ToEmpty = ToEmpty' \union D
  BY <1>1, <1>2, TailWork
<1>4. Completed' = Completed \union D /\ Awaiting' = Awaiting
  BY <1>1 DEF Complete, Completed, Awaiting
<1> HIDE DEF D
<1> QED BY <1>1, <1>3, <1>4 DEF Worked, CarriedOn, WorkDays, OneCommit

LEMMA RecordMissingWork == ASSUME Inv, RecordMissing PROVE Worked
<1> DEFINE D == Head(steps).days
<1>1. /\ At("missing") /\ steps' = Tail(steps) /\ emptyDays' = emptyDays \union D
      /\ completedDays' = Restrict(completedDays, DOMAIN completedDays \ D)
      /\ UNCHANGED <<writers, committing, outcome, troubled>>
  BY DEF RecordMissing
<1>2. steps # <<>> /\ Head(steps).do = "missing"
  BY <1>1 DEF At
<1>3. ToWrite' = ToWrite /\ ToEmpty' = ToEmpty /\ ToMissing = ToMissing' \union D
  BY <1>1, <1>2, TailWork
<1>4. Completed' = Completed \ D /\ Awaiting' = Awaiting
  BY <1>1 DEF Restrict, Completed, Awaiting
<1> HIDE DEF D
<1> QED BY <1>1, <1>3, <1>4 DEF Worked, CarriedOn, WorkDays, OneCommit

LEMMA FlushNextWork == ASSUME Inv, FlushNext PROVE Worked
<1>1. /\ At("flush_all")
      /\ UNCHANGED <<completedDays, emptyDays, writers, committing, outcome, troubled>>
      /\ \/ \E k \in DOMAIN writers : steps' = <<Flush(k)>> \o steps
         \/ steps' = Tail(steps)
  BY DEF FlushNext, diskVars, historyVars
<1>2. steps # <<>> /\ Head(steps).do = "flush_all"
  BY <1>1 DEF At
<1>3. steps \in Seq(Step) /\ DOMAIN writers \subseteq Partitions
  BY DEF Inv, TypeOK, LockOK, MemoryOK
<1>4. CASE \E k \in DOMAIN writers : steps' = <<Flush(k)>> \o steps
  BY <1>1, <1>3, <1>4, FlushFirst, SameWork DEF ToWrite, ToEmpty, ToMissing
<1>5. CASE steps' = Tail(steps)
  BY <1>1, <1>2, <1>5, TailWork, SameWork DEF ToWrite, ToEmpty, ToMissing
<1> QED BY <1>1, <1>4, <1>5

LEMMA SweepAndCloseWork == ASSUME Inv, SweepAndClose PROVE Worked
<1>1. /\ At("sweep") /\ steps' = Tail(steps)
      /\ UNCHANGED <<completedDays, emptyDays, writers, committing, outcome, troubled>>
  BY DEF SweepAndClose, historyVars
<1>2. steps # <<>> /\ Head(steps).do = "sweep"
  BY <1>1 DEF At
<1> QED BY <1>1, <1>2, TailWork, SameWork DEF ToWrite, ToEmpty, ToMissing

\* Whatever the store does under its lock, it loses no day unless an operation raises.
LEMMA StepWork ==
  ASSUME Inv, OneCommit, StoreStep
  PROVE  Worked /\ UNCHANGED <<call, batch, taken, promised>>
<1>1. Worked
  BY AppendGroupWork, AppendFailsWork, SplitGroupWork, RollForSchemaWork, ClosePartWork,
     ClosePartFailsWork, CommitPartWork, CommitFailsWork, RecordEmptyWork, RecordMissingWork,
     RecordFailsWork, FlushNextWork, SweepAndCloseWork DEF StoreStep
<1>2. UNCHANGED <<call, batch, taken, promised>>
  BY DEF StoreStep, AppendGroup, AppendFails, SplitGroup, RollForSchema, ClosePart, ClosePartFails,
         CommitPart, CommitFails, RecordEmpty, RecordMissing, RecordFails, FlushNext, SweepAndClose,
         historyVars
<1> QED BY <1>1, <1>2

\* The store is closed by close() only, when every part is flushed; and close() ends by it
\* unless it raises.
LEMMA CloseWork ==
  ASSUME Inv, StoreStep
  PROVE  /\ state' = state \/ (call = "close" /\ state' = "closed")
         /\ call = "close" /\ (state = "closed" => Drained) /\ state' = "closed" => Drained'
         /\ call = "close" /\ ~troubled' /\ (state = "closed" \/ ToSweep) => state' = "closed" \/ ToSweep'
<1>1. CASE SweepAndClose
  <2>1. steps \in Seq(Step) /\ steps # <<>> /\ Head(steps).do = "sweep" /\ committing = {}
        /\ state' = "closed" /\ UNCHANGED <<writers, committing>>
    BY <1>1 DEF SweepAndClose, At, Inv, TypeOK, LockOK
  <2>2. 1 \in DOMAIN steps /\ steps[1].do = "sweep"
    BY <2>1
  <2>3. call = "close" /\ DOMAIN writers = {}
    BY <2>2 DEF Inv, SweepsLast, Lacks
  <2> QED BY <2>1, <2>3 DEF Drained
<1>2. CASE ~SweepAndClose
  <2>1. state' = state
    BY <1>2 DEF StoreStep, AppendGroup, AppendFails, SplitGroup, RollForSchema, ClosePart, ClosePartFails,
         CommitPart, CommitFails, RecordEmpty, RecordMissing, RecordFails, FlushNext, diskVars
  <2>2. ASSUME call = "close" PROVE ~AppendGroup /\ ~AppendFails /\ ~SplitGroup /\ ~RollForSchema
    BY <2>2, AppendHead DEF AppendGroup, AppendFails, SplitGroup, RollForSchema
  <2>3. ASSUME call = "close", Drained PROVE Drained'
    <3>1. CASE ClosePart \/ ClosePartFails
      BY <2>3, <3>1 DEF ClosePart, ClosePartFails, Drained
    <3>2. CASE CommitPart \/ CommitFails
      BY <2>3, <3>2 DEF CommitPart, CommitFails, Drained
    <3>3. CASE RecordEmpty \/ RecordMissing \/ RecordFails \/ FlushNext
      BY <2>3, <3>3 DEF RecordEmpty, RecordMissing, RecordFails, FlushNext, Drained
    <3> QED BY <1>2, <2>2, <2>3, <3>1, <3>2, <3>3 DEF StoreStep
  <2>4. ASSUME call = "close", ~troubled', ToSweep PROVE ToSweep'
    <3>1. ASSUME steps # <<>>, Head(steps).do # "sweep", steps' = Tail(steps) PROVE ToSweep'
      <4>1. steps \in Seq(Step)
        BY DEF Inv, TypeOK, LockOK
      <4>2. PICK i \in DOMAIN steps : steps[i].do = "sweep"
        BY <2>4 DEF ToSweep
      <4>3. i # 1 /\ i - 1 \in DOMAIN Tail(steps) /\ Tail(steps)[i - 1] = steps[i]
        BY <3>1, <4>1, <4>2
      <4> QED BY <3>1, <4>2, <4>3 DEF ToSweep
    <3>2. CASE steps' = steps
      BY <2>4, <3>2 DEF ToSweep
    <3>3. CASE ClosePart \/ RecordEmpty \/ RecordMissing
      BY <3>1, <3>3 DEF ClosePart, RecordEmpty, RecordMissing, At
    <3>4. CASE ClosePartFails \/ CommitFails \/ RecordFails
      BY <2>4, <3>4 DEF ClosePartFails, CommitFails, RecordFails, Raise
    <3>5. CASE FlushNext
      <4>1. CASE steps' = Tail(steps)
        BY <3>1, <3>5, <4>1 DEF FlushNext, At
      <4>2. CASE \E k \in DOMAIN writers : steps' = <<Flush(k)>> \o steps
        <5>1. PICK k \in DOMAIN writers : steps' = <<Flush(k)>> \o steps
          BY <4>2
        <5>2. steps \in Seq(Step) /\ <<Flush(k)>> \in Seq(Step)
          BY FlushSeq DEF Inv, TypeOK, LockOK, MemoryOK
        <5> DEFINE f == <<Flush(k)>>
        <5>3. Len(f) = 1 /\ f \in Seq(Step)
          BY <5>2
        <5> HIDE DEF f
        <5>4. \A i \in DOMAIN steps : i + Len(f) \in DOMAIN (f \o steps) /\ (f \o steps)[i + Len(f)] = steps[i]
          BY <5>2, <5>3, ConcatRight
        <5> QED BY <2>4, <5>1, <5>4 DEF ToSweep, f
      <4> QED BY <3>5, <4>1, <4>2 DEF FlushNext
    <3>6. CASE CommitPart
      BY <3>2, <3>6 DEF CommitPart
    <3> QED BY <1>2, <2>2, <2>4, <3>3, <3>4, <3>5, <3>6 DEF StoreStep
  <2> QED BY <2>1, <2>3, <2>4
<1> QED BY <1>1, <1>2

\* A batch leaves each of its results to do, as what it is.
LEMMA IngestWork ==
  ASSUME NEW rs \in Seq(Result)
  PROVE  LET of(kind) == {rs[i].day : i \in {j \in DOMAIN rs : rs[j].got = kind}}
             b == BatchOf(rs)
         IN  /\ WriteDays(IngestSteps(b)) = of("rows")
             /\ StepDays(IngestSteps(b), "empty") = of("empty")
             /\ StepDays(IngestSteps(b), "missing") = of("missing")
             /\ DaysOf(b) = {rs[i].day : i \in DOMAIN rs}
<1> DEFINE of(kind) == {rs[i].day : i \in {j \in DOMAIN rs : rs[j].got = kind}}
           b == BatchOf(rs)
           w == [i \in DOMAIN b.groups |-> Write(b.groups[i])]
           e == Unless(b.empty, Record("empty", b.empty))
           m == Unless(b.missing, Record("missing", b.missing))
           grouped == UNION {DaysIn(b.groups[n].days) : n \in DOMAIN b.groups}
<1>1. b \in Batch /\ grouped = of("rows") /\ b.empty = of("empty") /\ b.missing = of("missing")
  BY BatchSorted
<1> HIDE DEF b
<1>2. b.groups \in Seq(Group) /\ b.empty \subseteq Days /\ b.missing \subseteq Days
  BY <1>1 DEF Batch
<1>3. \A i \in DOMAIN b.groups : b.groups[i].k \in Partitions /\ b.groups[i].days \in Seq(Days)
  <2>1. \A i \in DOMAIN b.groups : b.groups[i] \in Group
    BY <1>2
  <2> QED BY <2>1 DEF Group
<1>4. \A i \in DOMAIN b.groups : /\ Write(b.groups[i]) \in Step /\ Write(b.groups[i]).do = "append"
                                 /\ Write(b.groups[i]).days = b.groups[i].days
  BY <1>3, StepTypes DEF Write
<1>5. w \in Seq(Step) /\ e \in Seq(Step) /\ m \in Seq(Step)
  BY <1>2, <1>4, UnlessType
<1>6. WriteDays(w) = grouped /\ StepDays(w, "empty") = {} /\ StepDays(w, "missing") = {}
  <2>1. DOMAIN w = DOMAIN b.groups /\ \A i \in DOMAIN w : w[i].do = "append" /\ w[i].days = b.groups[i].days
    BY <1>4
  <2>2. \A i \in DOMAIN b.groups : DaysIn(b.groups[i].days) \subseteq Days
    BY <1>3 DEF DaysIn
  <2> HIDE DEF w
  <2> QED BY <2>1, <2>2 DEF WriteDays, StepDays
<1>7. /\ WriteDays(e) = {} /\ StepDays(e, "empty") = b.empty /\ StepDays(e, "missing") = {}
      /\ WriteDays(m) = {} /\ StepDays(m, "empty") = {} /\ StepDays(m, "missing") = b.missing
  <2>1. ASSUME NEW D \in SUBSET Days, NEW do \in {"empty", "missing"}, NEW other \in {"empty", "missing"}, do # other
        PROVE  LET u == Unless(D, Record(do, D))
               IN  WriteDays(u) = {} /\ StepDays(u, do) = D /\ StepDays(u, other) = {}
    <3> DEFINE u == Unless(D, Record(do, D))
    <3>1. CASE D = {}
      BY <3>1, NoWork DEF Unless
    <3>2. CASE D # {}
      <4> DEFINE r == Record(do, D)
      <4>1. u = <<r>> /\ r.do = do /\ r.days = D /\ r.do # "append"
        BY <3>2 DEF Unless, Record
      <4> HIDE DEF r, u
      <4>2. DOMAIN u = {1} /\ u[1] = r
        BY <4>1
      <4>3. WriteDays(u) = {} /\ StepDays(u, do) = D /\ StepDays(u, other) = {}
        BY <2>1, <4>1, <4>2 DEF WriteDays, StepDays
      <4> QED BY <4>3 DEF u
    <3> QED BY <3>1, <3>2
  <2> QED BY <1>2, <2>1
<1>8. IngestSteps(b) = (w \o e) \o m
  BY DEF IngestSteps
<1> HIDE DEF w, e, m, grouped
<1> DEFINE v == w \o e
<1>9. /\ v \in Seq(Step) /\ WriteDays(v) = grouped
      /\ StepDays(v, "empty") = b.empty /\ StepDays(v, "missing") = {}
  <2>1. /\ WriteDays(w \o e) = WriteDays(w) \union WriteDays(e)
        /\ StepDays(w \o e, "empty") = StepDays(w, "empty") \union StepDays(e, "empty")
        /\ StepDays(w \o e, "missing") = StepDays(w, "missing") \union StepDays(e, "missing")
    BY <1>5, ConcatWork
  <2>2. w \o e \in Seq(Step)
    BY <1>5
  <2> QED BY <1>6, <1>7, <2>1, <2>2
<1> HIDE DEF v
<1>10. /\ WriteDays(v \o m) = grouped
       /\ StepDays(v \o m, "empty") = b.empty /\ StepDays(v \o m, "missing") = b.missing
  <2>1. /\ WriteDays(v \o m) = WriteDays(v) \union WriteDays(m)
        /\ StepDays(v \o m, "empty") = StepDays(v, "empty") \union StepDays(m, "empty")
        /\ StepDays(v \o m, "missing") = StepDays(v, "missing") \union StepDays(m, "missing")
    BY <1>5, <1>9, ConcatWork
  <2> QED BY <1>7, <1>9, <2>1
<1>11. DaysOf(b) = {rs[i].day : i \in DOMAIN rs}
  <2>1. DaysOf(b) = of("rows") \union of("empty") \union of("missing")
    BY <1>1 DEF DaysOf, grouped
  <2>2. \A i \in DOMAIN rs : rs[i].got \in {"rows", "empty", "missing"}
    <3>1. \A r \in Result : r.got \in {"rows", "empty", "missing"}
      BY DEF Result
    <3> QED BY <3>1
  <2> QED BY <2>1, <2>2
<1> QED BY <1>1, <1>8, <1>10, <1>11 DEF b, v, grouped
-----------------------------------------------------------------------------
(* The invariant of a run                                                   *)

ResultDays(s)  == {s[i].day : i \in DOMAIN s}
HandingDays    == {r.day : r \in handing}
QueueDays      == ResultDays(queue)
PendDays       == ResultDays(pending)
Pending(kind)  == {pending[i].day : i \in {j \in DOMAIN pending : pending[j].got = kind}}

\* A result on its way from the tasks to the writer.
Carried == [day : Days, got : Finished]

RunTypes ==
  /\ main \in {"down", "run", "join", "close", "closing", "returned", "raised"}
  /\ joined \in {"done", "timeout", "signal"}
  /\ disp \in {"exited", "prime", "head", "waiting", "handoff", "launch", "cancel", "handoff_drained"}
  /\ writer \in {"exited", "loop", "flush", "last_flush", "ingest", "last_ingest", "failing"}
  /\ jobs \in Seq(Days) /\ quota \in Nat
  /\ DOMAIN tasks \subseteq Days
  /\ \A d \in DOMAIN tasks : tasks[d] \in {"new", "checked", "fetching", "parsing"} \union Finished
  /\ handing \subseteq Carried /\ queue \in Seq(Carried) /\ pending \in Seq(Result)
  /\ counted \in [Counts -> SUBSET Days]
  /\ DaysIn(jobs) \subseteq DaysIn(JobList) /\ launched \subseteq DaysIn(JobList)
  /\ stop \in BOOLEAN /\ interrupted \in BOOLEAN /\ writerFailed \in BOOLEAN

Distinct(s) == \A i, j \in DOMAIN s : s[i].day = s[j].day => i = j

\* A launched day is a task, a result being handed over, queued or pending, at one of these
\* places at most and there once; a job that is not launched yet is at none of them.
OnePlace ==
  /\ \A i, j \in DOMAIN jobs : jobs[i] = jobs[j] => i = j
  /\ DaysIn(jobs) \intersect launched = {}
  /\ \A r, q \in handing : r.day = q.day => r = q
  /\ Distinct(queue) /\ Distinct(pending)
  /\ DOMAIN tasks \subseteq launched
  /\ HandingDays \subseteq launched \ DOMAIN tasks
  /\ QueueDays \subseteq launched \ (DOMAIN tasks \union HandingDays)
  /\ PendDays \subseteq launched \ (DOMAIN tasks \union HandingDays \union QueueDays)

\* A day that failed or was cancelled is counted so at once; any other is counted when it
\* leaves the pending list.
Uncounted(d) == \A c \in Counts : d \notin counted[c]
Tallied(d, res) == IF res \in {"failed", "cancelled"} THEN d \in counted[res] ELSE Uncounted(d)

Tally ==
  /\ CountedOnce
  /\ \A c \in Counts : counted[c] \subseteq launched
  /\ \A d \in DOMAIN tasks : Tallied(d, tasks[d])
  /\ \A r \in handing : Tallied(r.day, r.got)
  /\ \A i \in DOMAIN queue : Tallied(queue[i].day, queue[i].got)
  /\ \A d \in PendDays : Uncounted(d)

Ingesting == writer \in {"ingest", "last_ingest"}

\* Where the three threads are tells what they hold.
Threads ==
  /\ main = "down" <=> state = "down"
  /\ main = "down" => /\ writer = "exited" /\ launched = {} /\ joined = "done"
                      /\ ~stop /\ ~interrupted /\ ~writerFailed
  /\ main # "run" => disp = "exited"
  /\ disp \notin {"handoff", "handoff_drained"} => handing = {}
  /\ disp \in {"prime", "handoff_drained", "exited"} => DOMAIN tasks = {}
  /\ call = "ingest" <=> Ingesting
  /\ call = "close" <=> main = "closing"
  /\ main \in {"run", "join", "close"} => state = "open"
  /\ main \in {"close", "closing", "returned", "raised"} /\ writer # "exited" => "late" \in Faults

\* What the store was given was launched and is on no other way any more; what it was not
\* given yet is not in the manifest, unless it is to be overwritten.
Tracked ==
  main # "down" =>
    /\ taken \subseteq launched
    /\ taken \intersect (DOMAIN tasks \union HandingDays \union QueueDays) = {}
    /\ ~Ingesting => taken \intersect PendDays = {}
    /\ WorkDays \subseteq taken
    /\ Overwrite \/ Completed \intersect (DaysIn(jobs) \union (launched \ taken)) = {}

\* A run that nothing has disturbed yet.
Sound == main # "down" /\ joined = "done" /\ ~troubled /\ ~interrupted

\* Only a signal or a failed ingest stops a run; without them no day leaves its way uncounted,
\* and the threads end in order.
NoLoss ==
  /\ outcome = "raised" /\ main # "down" => troubled
  /\ stop \/ writerFailed => interrupted \/ troubled
  /\ writer = "failing" => writerFailed
  /\ disp \in {"cancel", "handoff_drained"} => stop \/ writerFailed
  /\ Sound =>
      /\ counted["cancelled"] = {}
      /\ launched \subseteq DOMAIN tasks \union HandingDays \union QueueDays \union PendDays
                            \union counted["downloaded"] \union counted["missing"] \union counted["failed"]
      /\ disp = "exited" => jobs = <<>>
      /\ disp \in {"head", "waiting"} => DOMAIN tasks # {} \/ jobs = <<>>
      /\ disp \in {"handoff", "launch"} => quota >= 1
      /\ writer \in {"last_flush", "last_ingest", "exited"} => queue = <<>> /\ main # "run"
      /\ writer = "exited" => pending = <<>>
      /\ main \in {"close", "closing", "returned", "raised"} => writer = "exited"

\* What such a run has counted is in the manifest or in a part that will be committed, and
\* what the store still has to do is the pending batch.
Kept ==
  /\ OneCommit
  /\ Completed \intersect emptyDays = {}
  /\ Sound =>
      /\ counted["downloaded"] \subseteq Completed \union Awaiting
      /\ counted["missing"] \subseteq emptyDays
      /\ counted["failed"] \intersect taken = {}
      /\ Awaiting \subseteq counted["downloaded"] \union Pending("rows")
      /\ ToWrite \subseteq Pending("rows")
      /\ ToEmpty \subseteq Pending("empty")
      /\ ToMissing \subseteq Pending("missing")
      /\ Ingesting => /\ Pending("rows") \subseteq ToWrite \union Awaiting \union Completed
                      /\ Pending("empty") \subseteq ToEmpty \union Completed
                      /\ Pending("missing") \subseteq ToMissing \union emptyDays
      /\ state = "closed" => Drained
      /\ main = "closing" => state = "closed" \/ ToSweep
      /\ main = "returned" => state = "closed"

RunInv == RunTypes /\ OnePlace /\ Tally /\ Threads /\ Tracked /\ NoLoss /\ Kept

\* Where the days are.
placeVars == <<jobs, tasks, handing, queue, pending, counted, launched>>

LEMMA PlacesKept ==
  ASSUME UNCHANGED placeVars
  PROVE  /\ OnePlace => OnePlace'
         /\ Tally => Tally'
<1>1. /\ HandingDays' = HandingDays /\ QueueDays' = QueueDays /\ PendDays' = PendDays
      /\ \A kind : Pending(kind)' = Pending(kind)
  BY DEF placeVars, HandingDays, QueueDays, PendDays, ResultDays, Pending
<1>2. OnePlace => OnePlace'
  BY <1>1 DEF placeVars, OnePlace, Distinct, DaysIn
<1>3. Tally => Tally'
  BY <1>1 DEF placeVars, Tally, CountedOnce, Tallied, Uncounted
<1> QED BY <1>2, <1>3

\* What the store's variables say of the days does not change when they do not.
LEMMA WorkKept ==
  ASSUME UNCHANGED <<steps, writers, committing, completedDays>>
  PROVE  /\ ToWrite' = ToWrite /\ ToEmpty' = ToEmpty /\ ToMissing' = ToMissing /\ Awaiting' = Awaiting
         /\ WorkDays' = WorkDays /\ Completed' = Completed
         /\ OneCommit' = OneCommit /\ Drained' = Drained /\ ToSweep' = ToSweep
BY DEF ToWrite, ToEmpty, ToMissing, Awaiting, WorkDays, Completed, OneCommit, Drained, ToSweep

\* A thread goes on: no day moves.
LEMMA MovesOn ==
  ASSUME RunInv, UNCHANGED placeVars, UNCHANGED storeVars, Ingesting' = Ingesting,
         RunTypes', Threads', NoLoss',
         main # "down", main' # "down", Sound' => Sound,
         main' \in {"closing", "returned"} => main' = main
  PROVE  RunInv'
<1>1. OnePlace' /\ Tally'
  BY PlacesKept DEF RunInv
<1>2. /\ UNCHANGED <<steps, writers, committing, completedDays, emptyDays, taken, state>>
      /\ UNCHANGED <<jobs, tasks, launched, counted>>
  BY DEF storeVars, diskVars, lockVars, historyVars, placeVars
<1>3. /\ HandingDays' = HandingDays /\ QueueDays' = QueueDays /\ PendDays' = PendDays
      /\ \A kind : Pending(kind)' = Pending(kind)
  BY DEF placeVars, HandingDays, QueueDays, PendDays, ResultDays, Pending
<1>4. Tracked'
  BY <1>2, <1>3, WorkKept DEF RunInv, Tracked, DaysIn
<1>5. Kept'
  BY <1>2, <1>3, WorkKept DEF RunInv, Kept
<1> QED BY <1>1, <1>4, <1>5 DEF RunInv
-----------------------------------------------------------------------------
(* Steps that move no day                                                   *)

\* The dispatcher and the writer run in a process that runs.
LEMMA Running ==
  ASSUME RunInv, disp # "exited" \/ writer # "exited"
  PROVE  main # "down" /\ (disp # "exited" => main = "run" /\ state = "open")
BY DEF RunInv, Threads, RunTypes

LEMMA DispatcherDoneKeeps == ASSUME RunInv, DispatcherDone PROVE RunInv'
<1>1. /\ main = "run" /\ disp = "exited" /\ main' = "join"
      /\ UNCHANGED <<storeVars, joined, loopVars, stop, queue, writerVars, counted, launched>>
  BY DEF DispatcherDone
<1>2. /\ UNCHANGED placeVars /\ UNCHANGED storeVars /\ UNCHANGED <<call, state, outcome, troubled>>
      /\ UNCHANGED <<joined, disp, quota, stop, interrupted, writer, writerFailed>>
  BY <1>1 DEF loopVars, dispVars, writerVars, placeVars, storeVars, lockVars, historyVars
<1>3. RunTypes'
  BY <1>1, <1>2 DEF RunInv, RunTypes, placeVars
<1>4. Threads'
  BY <1>1, <1>2 DEF RunInv, Threads, Ingesting, placeVars
<1>5. NoLoss'
  BY <1>1, <1>2 DEF RunInv, NoLoss, Sound, placeVars, HandingDays, QueueDays, PendDays, ResultDays
<1> QED BY <1>1, <1>2, <1>3, <1>4, <1>5, MovesOn DEF Ingesting, Sound

LEMMA JoinKeeps == ASSUME RunInv, Join PROVE RunInv'
<1>1. /\ main = "join" /\ writer = "exited" /\ main' = "close"
      /\ UNCHANGED <<storeVars, joined, loopVars, stop, queue, writerVars, counted, launched>>
  BY DEF Join
<1>2. /\ UNCHANGED placeVars /\ UNCHANGED storeVars /\ UNCHANGED <<call, state, outcome, troubled>>
      /\ UNCHANGED <<joined, disp, quota, stop, interrupted, writer, writerFailed>>
  BY <1>1 DEF loopVars, dispVars, writerVars, placeVars, storeVars, lockVars, historyVars
<1>3. RunTypes'
  BY <1>1, <1>2 DEF RunInv, RunTypes, placeVars
<1>4. Threads'
  BY <1>1, <1>2 DEF RunInv, Threads, Ingesting, placeVars
<1>5. NoLoss'
  BY <1>1, <1>2 DEF RunInv, NoLoss, Sound, placeVars, HandingDays, QueueDays, PendDays, ResultDays
<1> QED BY <1>1, <1>2, <1>3, <1>4, <1>5, MovesOn DEF Ingesting, Sound

LEMMA JoinGivenUpKeeps == ASSUME RunInv, JoinGivenUp PROVE RunInv'
<1>1. /\ main = "join" /\ "late" \in Faults /\ main' = "close" /\ joined' \in {"timeout", "signal"}
      /\ UNCHANGED <<storeVars, loopVars, stop, queue, writerVars, counted, launched>>
  BY DEF JoinGivenUp
<1>2. /\ UNCHANGED placeVars /\ UNCHANGED storeVars /\ UNCHANGED <<call, state, outcome, troubled>>
      /\ UNCHANGED <<disp, quota, stop, interrupted, writer, writerFailed>>
  BY <1>1 DEF loopVars, dispVars, writerVars, placeVars, storeVars, lockVars, historyVars
<1>3. RunTypes'
  BY <1>1, <1>2 DEF RunInv, RunTypes, placeVars
<1>4. Threads'
  BY <1>1, <1>2 DEF RunInv, Threads, Ingesting, placeVars
<1>5. NoLoss'
  BY <1>1, <1>2 DEF RunInv, NoLoss, Sound
<1> QED BY <1>1, <1>2, <1>3, <1>4, <1>5, MovesOn DEF Ingesting, Sound

LEMMA LoopHeadKeeps == ASSUME RunInv, LoopHead PROVE RunInv'
<1>1. /\ disp = "head" /\ UNCHANGED <<storeVars, mainVars, jobs, tasks, handing, quota, stop, interrupted, queue,
                                      writerVars, counted, launched>>
      /\ \/ DOMAIN tasks = {} /\ disp' = "exited"
         \/ (stop \/ writerFailed) /\ disp' = "cancel"
         \/ DOMAIN tasks # {} /\ disp' = "waiting"
  BY DEF LoopHead
<1>2. /\ UNCHANGED placeVars /\ UNCHANGED storeVars /\ UNCHANGED <<call, state, outcome, troubled>>
      /\ UNCHANGED <<main, joined, quota, stop, interrupted, writer, writerFailed>>
  BY <1>1 DEF mainVars, writerVars, placeVars, storeVars, lockVars, historyVars
<1>3. main = "run"
  BY <1>1, Running
<1>4. RunTypes'
  BY <1>1, <1>2 DEF RunInv, RunTypes, placeVars
<1>5. Threads'
  BY <1>1, <1>2, <1>3 DEF RunInv, Threads, Ingesting, placeVars
<1>6. NoLoss'
  BY <1>1, <1>2 DEF RunInv, NoLoss, Sound, placeVars, HandingDays, QueueDays, PendDays, ResultDays
<1> QED BY <1>1, <1>2, <1>3, <1>4, <1>5, <1>6, MovesOn DEF Ingesting, Sound

LEMMA HandedOffKeeps == ASSUME RunInv, HandedOff PROVE RunInv'
<1>1. /\ handing = {}
      /\ UNCHANGED <<storeVars, mainVars, jobs, tasks, handing, quota, stop, interrupted, queue,
                     writerVars, counted, launched>>
      /\ \/ disp = "handoff" /\ stop /\ disp' = "head"
         \/ disp = "handoff" /\ disp' = "launch"
         \/ disp = "handoff_drained" /\ disp' = "exited"
  BY DEF HandedOff
<1>2. /\ UNCHANGED placeVars /\ UNCHANGED storeVars /\ UNCHANGED <<call, state, outcome, troubled>>
      /\ UNCHANGED <<main, joined, quota, stop, interrupted, writer, writerFailed>>
  BY <1>1 DEF mainVars, writerVars, placeVars, storeVars, lockVars, historyVars
<1>3. main = "run"
  BY <1>1, Running
<1>4. RunTypes'
  BY <1>1, <1>2 DEF RunInv, RunTypes, placeVars
<1>5. Threads'
  BY <1>1, <1>2, <1>3 DEF RunInv, Threads, Ingesting, placeVars
<1>6. NoLoss'
  BY <1>1, <1>2 DEF RunInv, NoLoss, Sound, placeVars, HandingDays, QueueDays, PendDays, ResultDays
<1> QED BY <1>1, <1>2, <1>3, <1>4, <1>5, <1>6, MovesOn DEF Ingesting, Sound

LEMMA InterruptKeeps == ASSUME RunInv, Interrupt PROVE RunInv'
<1>1. /\ main = "run" /\ stop' = TRUE /\ interrupted' = TRUE
      /\ UNCHANGED <<storeVars, mainVars, dispVars, tasks, queue, writerVars, counted, launched>>
  BY DEF Interrupt
<1>2. /\ UNCHANGED placeVars /\ UNCHANGED storeVars /\ UNCHANGED <<call, state, outcome, troubled>>
      /\ UNCHANGED <<main, joined, disp, quota, writer, writerFailed>>
  BY <1>1 DEF mainVars, dispVars, writerVars, placeVars, storeVars, lockVars, historyVars
<1>3. RunTypes'
  BY <1>1, <1>2 DEF RunInv, RunTypes, placeVars
<1>4. Threads'
  BY <1>1, <1>2 DEF RunInv, Threads, Ingesting, placeVars
<1>5. NoLoss'
  BY <1>1, <1>2 DEF RunInv, NoLoss, Sound
<1> QED BY <1>1, <1>2, <1>3, <1>4, <1>5, MovesOn DEF Ingesting, Sound

LEMMA WriterIdlesKeeps == ASSUME RunInv, WriterIdles PROVE RunInv'
<1>1. /\ writer = "loop" /\ writer' = "flush"
      /\ UNCHANGED <<storeVars, mainVars, loopVars, stop, queue, pending, writerFailed, counted, launched>>
  BY DEF WriterIdles
<1>2. /\ UNCHANGED placeVars /\ UNCHANGED storeVars /\ UNCHANGED <<call, state, outcome, troubled>>
      /\ UNCHANGED <<main, joined, disp, quota, stop, interrupted, writerFailed>>
  BY <1>1 DEF mainVars, loopVars, dispVars, placeVars, storeVars, lockVars, historyVars
<1>3. main # "down"
  BY <1>1, Running
<1>4. RunTypes'
  BY <1>1, <1>2 DEF RunInv, RunTypes, placeVars
<1>5. Threads'
  BY <1>1, <1>2, <1>3 DEF RunInv, Threads, Ingesting, placeVars
<1>6. NoLoss'
  BY <1>1, <1>2 DEF RunInv, NoLoss, Sound, placeVars, HandingDays, QueueDays, PendDays, ResultDays
<1> QED BY <1>1, <1>2, <1>3, <1>4, <1>5, <1>6, MovesOn DEF Ingesting, Sound

LEMMA WriterLeavesKeeps == ASSUME RunInv, WriterLeaves PROVE RunInv'
<1>1. /\ writer = "loop" /\ (writerFailed \/ (main # "run" /\ queue = <<>>))
      /\ (pending = <<>> /\ writer' = "exited") \/ writer' = "last_flush"
      /\ UNCHANGED <<storeVars, mainVars, loopVars, stop, queue, pending, writerFailed, counted, launched>>
  BY DEF WriterLeaves, LoopOver
<1>2. /\ UNCHANGED placeVars /\ UNCHANGED storeVars /\ UNCHANGED <<call, state, outcome, troubled>>
      /\ UNCHANGED <<main, joined, disp, quota, stop, interrupted, writerFailed>>
  BY <1>1 DEF mainVars, loopVars, dispVars, placeVars, storeVars, lockVars, historyVars
<1>3. main # "down"
  BY <1>1, Running
<1>4. RunTypes'
  BY <1>1, <1>2 DEF RunInv, RunTypes, placeVars
<1>5. Threads'
  BY <1>1, <1>2, <1>3 DEF RunInv, Threads, Ingesting, placeVars
<1>6. NoLoss'
  BY <1>1, <1>2 DEF RunInv, NoLoss, Sound, placeVars, HandingDays, QueueDays, PendDays, ResultDays
<1> QED BY <1>1, <1>2, <1>3, <1>4, <1>5, <1>6, MovesOn DEF Ingesting, Sound

LEMMA WriterStopsRunKeeps == ASSUME RunInv, WriterStopsRun PROVE RunInv'
<1>1. /\ writer = "failing" /\ writer' = "loop" /\ stop' = TRUE
      /\ UNCHANGED <<storeVars, mainVars, loopVars, queue, pending, writerFailed, counted, launched>>
  BY DEF WriterStopsRun
<1>2. /\ UNCHANGED placeVars /\ UNCHANGED storeVars /\ UNCHANGED <<call, state, outcome, troubled>>
      /\ UNCHANGED <<main, joined, disp, quota, interrupted, writerFailed>>
  BY <1>1 DEF mainVars, loopVars, dispVars, placeVars, storeVars, lockVars, historyVars
<1>3. main # "down"
  BY <1>1, Running
<1>4. RunTypes'
  BY <1>1, <1>2 DEF RunInv, RunTypes, placeVars
<1>5. Threads'
  BY <1>1, <1>2, <1>3 DEF RunInv, Threads, Ingesting, placeVars
<1>6. NoLoss'
  BY <1>1, <1>2 DEF RunInv, NoLoss, Sound, placeVars, HandingDays, QueueDays, PendDays, ResultDays
<1> QED BY <1>1, <1>2, <1>3, <1>4, <1>5, <1>6, MovesOn DEF Ingesting, Sound
-----------------------------------------------------------------------------
(* The tasks                                                                *)

\* Days that were in no number of the summary enter one.
LEMMA CountsOnce ==
  ASSUME counted \in [Counts -> SUBSET Days], CountedOnce, NEW c \in Counts, NEW D \in SUBSET Days,
         \A d \in D : Uncounted(d), Count(c, D)
  PROVE  /\ counted' \in [Counts -> SUBSET Days]
         /\ CountedOnce'
         /\ counted'[c] = counted[c] \union D /\ \A b \in Counts \ {c} : counted'[b] = counted[b]
         /\ \A e : e \notin D => /\ Uncounted(e) => Uncounted(e)'
                                 /\ \A res : Tallied(e, res) => Tallied(e, res)'
<1>1. /\ counted' \in [Counts -> SUBSET Days]
      /\ counted'[c] = counted[c] \union D /\ \A b \in Counts \ {c} : counted'[b] = counted[b]
  BY DEF Count
<1>2. CountedOnce'
  BY <1>1 DEF CountedOnce, Uncounted
<1>3. ASSUME NEW e, e \notin D
      PROVE  /\ Uncounted(e) => Uncounted(e)'
             /\ \A res : Tallied(e, res) => Tallied(e, res)'
  <2>1. Uncounted(e) => Uncounted(e)'
    BY <1>1, <1>3 DEF Uncounted
  <2>2. ASSUME NEW res, Tallied(e, res) PROVE Tallied(e, res)'
    BY <1>1, <1>3, <2>1, <2>2 DEF Tallied, Counts
  <2> QED BY <2>1, <2>2
<1> QED BY <1>1, <1>2, <1>3

\* Some day is launched or counted and the store is not used: what holds of it still holds.
LEMMA StoreFrame ==
  ASSUME RunInv, UNCHANGED storeVars
  PROVE  /\ UNCHANGED <<call, state, outcome, troubled, taken, completedDays, emptyDays>>
         /\ ToWrite' = ToWrite /\ ToEmpty' = ToEmpty /\ ToMissing' = ToMissing /\ Awaiting' = Awaiting
         /\ WorkDays' = WorkDays /\ Completed' = Completed
         /\ OneCommit' = OneCommit /\ Drained' = Drained /\ ToSweep' = ToSweep
<1>1. UNCHANGED <<call, state, outcome, troubled, taken, completedDays, emptyDays, steps, writers, committing>>
  BY DEF storeVars, diskVars, lockVars, historyVars
<1> QED BY <1>1, WorkKept

\* As long as the run is sound the pending list only grows, and no results the store has are
\* counted otherwise.
LEMMA KeptFrame ==
  ASSUME RunInv, UNCHANGED storeVars,
         \A kind : Pending(kind) \subseteq Pending(kind)',
         Ingesting' => Ingesting /\ \A kind : Pending(kind)' = Pending(kind),
         Sound' => /\ Sound
                   /\ counted'["downloaded"] = counted["downloaded"]
                   /\ counted'["missing"] = counted["missing"]
                   /\ counted'["failed"] \intersect taken = {}
                   /\ main' \in {"closing", "returned"} => main' = main
  PROVE  Kept'
<1>1. /\ UNCHANGED <<state, taken, emptyDays>>
      /\ ToWrite' = ToWrite /\ ToEmpty' = ToEmpty /\ ToMissing' = ToMissing /\ Awaiting' = Awaiting
      /\ Completed' = Completed /\ OneCommit' = OneCommit /\ Drained' = Drained /\ ToSweep' = ToSweep
  BY StoreFrame
<1>2. OneCommit' /\ Completed' \intersect emptyDays' = {}
  BY <1>1 DEF RunInv, Kept
<1>3. ASSUME Sound'
      PROVE  /\ counted'["downloaded"] \subseteq Completed' \union Awaiting'
             /\ counted'["missing"] \subseteq emptyDays'
             /\ counted'["failed"] \intersect taken' = {}
             /\ Awaiting' \subseteq counted'["downloaded"] \union Pending("rows")'
             /\ ToWrite' \subseteq Pending("rows")'
             /\ ToEmpty' \subseteq Pending("empty")'
             /\ ToMissing' \subseteq Pending("missing")'
  <2>1. /\ Pending("rows") \subseteq Pending("rows")'
        /\ Pending("empty") \subseteq Pending("empty")'
        /\ Pending("missing") \subseteq Pending("missing")'
    OBVIOUS
  <2> QED BY <1>1, <1>3, <2>1 DEF RunInv, Kept
<1>4. ASSUME Sound', Ingesting'
      PROVE  /\ Pending("rows")' \subseteq ToWrite' \union Awaiting' \union Completed'
             /\ Pending("empty")' \subseteq ToEmpty' \union Completed'
             /\ Pending("missing")' \subseteq ToMissing' \union emptyDays'
  BY <1>1, <1>4 DEF RunInv, Kept
<1>5. ASSUME Sound'
      PROVE  /\ state' = "closed" => Drained'
             /\ main' = "closing" => state' = "closed" \/ ToSweep'
             /\ main' = "returned" => state' = "closed"
  BY <1>1, <1>5 DEF RunInv, Kept
<1> QED BY <1>2, <1>3, <1>4, <1>5 DEF Kept

\* A task that has not ended goes on or ends.
LEMMA TaskMoves ==
  ASSUME RunInv, disp \in {"waiting", "handoff"},
         NEW d \in DOMAIN tasks, tasks[d] \in {"new", "checked", "fetching", "parsing"},
         NEW s \in {"checked", "fetching", "parsing"} \union Finished, SetTask(d, s), s = "cancelled" => stop,
         IF s \in {"failed", "cancelled"} THEN Count(s, {d}) ELSE UNCHANGED counted,
         UNCHANGED <<storeVars, mainVars, dispVars, interrupted, stop, queue, writerVars, launched>>
  PROVE  RunInv'
<1>1. main = "run"
  BY Running
<1>2. /\ UNCHANGED <<main, joined, disp, jobs, handing, quota, writer, pending, writerFailed>>
      /\ UNCHANGED storeVars /\ UNCHANGED <<interrupted, stop, queue, launched>>
  BY DEF mainVars, dispVars, writerVars
<1>3. /\ DOMAIN tasks' = DOMAIN tasks /\ tasks'[d] = s
      /\ \A e \in DOMAIN tasks : e # d => tasks'[e] = tasks[e]
  BY DEF SetTask
<1>4. /\ HandingDays' = HandingDays /\ QueueDays' = QueueDays /\ PendDays' = PendDays
      /\ \A kind : Pending(kind)' = Pending(kind)
  BY <1>2 DEF HandingDays, QueueDays, PendDays, ResultDays, Pending
<1>5. d \in Days /\ Uncounted(d) /\ d \in launched
      /\ d \notin HandingDays /\ d \notin QueueDays /\ d \notin PendDays
  BY DEF RunInv, RunTypes, OnePlace, Tally, Tallied
<1>6. /\ counted' \in [Counts -> SUBSET Days] /\ CountedOnce'
      /\ \A b \in Counts : counted'[b] = counted[b] \/ (b = s /\ counted'[b] = counted[b] \union {d})
      /\ \A e : e # d => /\ Uncounted(e) => Uncounted(e)'
                         /\ \A res : Tallied(e, res) => Tallied(e, res)'
      /\ Tallied(d, s)'
  <2>1. CASE s \in {"failed", "cancelled"}
    <3>1. Count(s, {d}) /\ s \in Counts /\ \A e \in {d} : Uncounted(e)
      BY <1>5, <2>1 DEF Counts
    <3>2. /\ counted' \in [Counts -> SUBSET Days] /\ CountedOnce'
          /\ counted'[s] = counted[s] \union {d} /\ \A b \in Counts \ {s} : counted'[b] = counted[b]
          /\ \A e : e \notin {d} => /\ Uncounted(e) => Uncounted(e)'
                                    /\ \A res : Tallied(e, res) => Tallied(e, res)'
      BY <1>5, <3>1, CountsOnce DEF RunInv, RunTypes, Tally
    <3> QED BY <2>1, <3>2 DEF Tallied
  <2>2. CASE s \notin {"failed", "cancelled"}
    <3>1. counted' = counted
      BY <2>2
    <3>2. CountedOnce' /\ (\A e : Uncounted(e)' = Uncounted(e)) /\ \A e, res : Tallied(e, res)' = Tallied(e, res)
      BY <3>1 DEF RunInv, Tally, CountedOnce, Uncounted, Tallied
    <3> QED BY <1>5, <2>2, <3>1, <3>2 DEF RunInv, RunTypes, Tallied
  <2> QED BY <2>1, <2>2
<1>7. RunTypes'
  BY <1>2, <1>3, <1>6 DEF RunInv, RunTypes
<1>8. OnePlace'
  BY <1>2, <1>3, <1>4 DEF RunInv, OnePlace, DaysIn, Distinct
<1>9. Tally'
  <2>1. \A c \in Counts : counted'[c] \subseteq launched'
    BY <1>2, <1>5, <1>6 DEF RunInv, Tally
  <2>2. \A e \in DOMAIN tasks' : Tallied(e, tasks[e])'
    BY <1>3, <1>6 DEF RunInv, Tally
  <2>3. \A r \in handing' : Tallied(r.day, r.got)'
    BY <1>2, <1>5, <1>6 DEF RunInv, Tally, HandingDays
  <2>4. \A i \in DOMAIN queue' : Tallied(queue[i].day, queue[i].got)'
    BY <1>2, <1>5, <1>6 DEF RunInv, Tally, QueueDays, ResultDays
  <2>5. \A e \in PendDays' : Uncounted(e)'
    BY <1>4, <1>5, <1>6 DEF RunInv, Tally
  <2> QED BY <1>6, <2>1, <2>2, <2>3, <2>4, <2>5 DEF Tally
<1>10. Threads'
  BY <1>2, <1>3, StoreFrame DEF RunInv, Threads, Ingesting
<1>11. Tracked'
  BY <1>2, <1>3, <1>4, StoreFrame DEF RunInv, Tracked, Ingesting, DaysIn
<1>12. NoLoss'
  <2>1. Sound' => s # "cancelled"
    BY <1>2, StoreFrame DEF RunInv, NoLoss, Sound
  <2>2. Sound' => counted'["cancelled"] = counted["cancelled"]
    BY <1>6, <2>1 DEF Counts
  <2>3. counted["downloaded"] \subseteq counted'["downloaded"] /\ counted["missing"] \subseteq counted'["missing"]
        /\ counted["failed"] \subseteq counted'["failed"]
    BY <1>6 DEF Counts
  <2> QED BY <1>1, <1>2, <1>3, <1>4, <2>2, <2>3, StoreFrame DEF RunInv, NoLoss, Sound
<1>13. Kept'
  <2>1. counted'["downloaded"] = counted["downloaded"] /\ counted'["missing"] = counted["missing"]
        /\ counted'["failed"] \subseteq counted["failed"] \union {d}
    BY <1>6 DEF Counts, Finished, AnswerKinds
  <2>2. d \notin taken
    BY <1>1 DEF RunInv, Tracked
  <2>3. Ingesting' = Ingesting /\ Sound' = Sound
    BY <1>2, StoreFrame DEF Ingesting, Sound
  <2>4. Sound' => counted["failed"] \intersect taken = {}
    BY <2>3 DEF RunInv, Kept
  <2> QED BY <1>2, <1>4, <2>1, <2>2, <2>3, <2>4, KeptFrame
<1> QED BY <1>7, <1>8, <1>9, <1>10, <1>11, <1>12, <1>13 DEF RunInv

LEMMA TaskKeeps == ASSUME RunInv, NEW d \in Days, TaskStep(d) PROVE RunInv'
<1>1. disp \in {"waiting", "handoff"}
  BY DEF TaskStep
<1>2. CASE BeginTask(d)
  <2>1. d \in DOMAIN tasks /\ tasks[d] = "new"
        /\ UNCHANGED <<storeVars, mainVars, dispVars, interrupted, stop, queue, writerVars, launched>>
    BY <1>2 DEF BeginTask
  <2>2. CASE stop /\ SetTask(d, "cancelled") /\ Count("cancelled", {d})
    BY <1>1, <2>1, <2>2, TaskMoves DEF Finished
  <2>3. CASE SetTask(d, "checked") /\ UNCHANGED counted
    BY <1>1, <2>1, <2>3, TaskMoves
  <2> QED BY <1>2, <2>2, <2>3 DEF BeginTask
<1>3. CASE FetchEnds(d)
  <2>1. d \in DOMAIN tasks /\ tasks[d] = "fetching"
        /\ UNCHANGED <<storeVars, mainVars, dispVars, interrupted, stop, queue, writerVars, launched>>
    BY <1>3 DEF FetchEnds
  <2>2. PICK s \in FetchOutcomes(d) :
          SetTask(d, s) /\ IF s \in {"failed", "cancelled"} THEN Count(s, {d}) ELSE UNCHANGED counted
    BY <1>3 DEF FetchEnds
  <2>3. s \in {"checked", "fetching", "parsing"} \union Finished /\ (s = "cancelled" => stop)
    <3>1. Answers[d] \subseteq AnswerKinds
      BY DownloadAssumption
    <3> QED BY <2>2, <3>1 DEF FetchOutcomes, Finished, AnswerKinds
  <2> QED BY <1>1, <2>1, <2>2, <2>3, TaskMoves
<1>4. CASE ParseEnds(d)
  <2>1. d \in DOMAIN tasks /\ tasks[d] = "parsing"
        /\ UNCHANGED <<storeVars, mainVars, dispVars, interrupted, stop, queue, writerVars, launched>>
    BY <1>4 DEF ParseEnds
  <2>2. CASE \E res \in {"rows", "empty"} : SetTask(d, res) /\ UNCHANGED counted
    BY <1>1, <2>1, <2>2, TaskMoves DEF Finished, AnswerKinds
  <2>3. CASE SetTask(d, "failed") /\ Count("failed", {d})
    BY <1>1, <2>1, <2>3, TaskMoves DEF Finished, AnswerKinds
  <2> QED BY <1>4, <2>2, <2>3 DEF ParseEnds
<1>5. CASE RequestDay(d)
  <2>1. /\ d \in DOMAIN tasks /\ tasks[d] = "checked" /\ SetTask(d, "fetching") /\ UNCHANGED counted
        /\ UNCHANGED <<storeVars, mainVars, dispVars, interrupted, stop, queue, writerVars, launched>>
    BY <1>5 DEF RequestDay
  <2> QED BY <1>1, <2>1, TaskMoves
<1> QED BY <1>2, <1>3, <1>4, <1>5 DEF TaskStep
-----------------------------------------------------------------------------
(* The dispatcher                                                           *)

\* What Launch(n) makes of the jobs: the first ones, J, become tasks.
Launched(n, J) ==
  /\ J \subseteq DaysIn(jobs)
  /\ jobs' \in Seq(Days) /\ DaysIn(jobs') = DaysIn(jobs) \ J
  /\ \A i, j \in DOMAIN jobs' : jobs'[i] = jobs'[j] => i = j
  /\ launched' = launched \union J
  /\ DOMAIN tasks' = DOMAIN tasks \union J
  /\ \A d \in DOMAIN tasks' : tasks'[d] = IF d \in J THEN "new" ELSE tasks[d]
  /\ n >= 1 => J # {} \/ jobs' = <<>>

LEMMA LaunchWork ==
  ASSUME RunInv, NEW n \in Nat, Launch(n)
  PROVE  \E J : Launched(n, J)
<1> DEFINE m == IF n <= Len(jobs) THEN n ELSE Len(jobs)
           J == {jobs[i] : i \in 1 .. m}
           rest == SubSeq(jobs, m + 1, Len(jobs))
<1>1. jobs \in Seq(Days) /\ \A i, j \in DOMAIN jobs : jobs[i] = jobs[j] => i = j
  BY DEF RunInv, RunTypes, OnePlace
<1>2. m \in 0 .. Len(jobs) /\ (n >= 1 => m >= 1 \/ Len(jobs) = 0) /\ Len(jobs) \in Nat
  BY <1>1
<1>3. /\ tasks' = [d \in DOMAIN tasks \union J |-> IF d \in J THEN "new" ELSE tasks[d]]
      /\ jobs' = rest /\ launched' = launched \union J
  BY DEF Launch
<1> HIDE DEF m
<1>4. rest \in Seq(Days) /\ Len(rest) = Len(jobs) - m /\ \A i \in 1 .. Len(rest) : rest[i] = jobs[m + i]
  BY <1>1, <1>2
<1> HIDE DEF rest
<1>5. DaysIn(rest) = DaysIn(jobs) \ J
  <2>1. \A i \in DOMAIN rest : m + i \in DOMAIN jobs /\ m + i \notin 1 .. m /\ rest[i] = jobs[m + i]
    BY <1>1, <1>2, <1>4
  <2>2. \A i \in DOMAIN jobs : i \in 1 .. m \/ (i - m \in DOMAIN rest /\ rest[i - m] = jobs[i])
    BY <1>1, <1>2, <1>4
  <2>3. 1 .. m \subseteq DOMAIN jobs
    BY <1>1, <1>2
  <2> QED BY <1>1, <2>1, <2>2, <2>3 DEF DaysIn
<1>6. \A i, j \in DOMAIN rest : rest[i] = rest[j] => i = j
  <2>1. \A i \in DOMAIN rest : i \in Nat /\ m + i \in DOMAIN jobs /\ rest[i] = jobs[m + i]
    BY <1>1, <1>2, <1>4
  <2>2. ASSUME NEW i \in DOMAIN rest, NEW j \in DOMAIN rest, rest[i] = rest[j] PROVE i = j
    <3>1. m + i = m + j
      BY <1>1, <2>1, <2>2
    <3> QED BY <1>2, <2>1, <3>1
  <2> QED BY <2>2
<1>7. n >= 1 => J # {} \/ rest = <<>>
  <2>1. CASE m >= 1
    BY <1>2, <2>1
  <2>2. CASE Len(jobs) = 0
    BY <1>2, <1>4, <2>2
  <2> QED BY <1>2, <2>1, <2>2
<1>8. J \subseteq DaysIn(jobs)
  BY <1>1, <1>2 DEF DaysIn
<1> HIDE DEF J
<1>9. Launched(n, J)
  BY <1>3, <1>4, <1>5, <1>6, <1>7, <1>8 DEF Launched
<1> QED BY <1>9

LEMMA LaunchKeeps ==
  ASSUME RunInv, disp \in {"prime", "launch"}, NEW n \in Nat, Sound => n >= 1, Launch(n), disp' = "head",
         UNCHANGED <<storeVars, mainVars, handing, quota, stop, interrupted, queue, writerVars, counted>>
  PROVE  RunInv'
<1>1. PICK J : Launched(n, J)
  BY LaunchWork
<1>2. main = "run"
  BY Running
<1>3. /\ UNCHANGED <<main, joined, handing, quota, writer, pending, writerFailed, counted>>
      /\ UNCHANGED storeVars /\ UNCHANGED <<interrupted, stop, queue>>
  BY DEF mainVars, writerVars
<1>4. /\ HandingDays' = HandingDays /\ QueueDays' = QueueDays /\ PendDays' = PendDays
      /\ \A kind : Pending(kind)' = Pending(kind)
  BY <1>3 DEF HandingDays, QueueDays, PendDays, ResultDays, Pending
<1>5. J \subseteq Days /\ J \intersect launched = {} /\ \A d \in J : Uncounted(d)
  BY <1>1 DEF RunInv, RunTypes, OnePlace, Tally, Uncounted, Launched, DaysIn
<1>6. RunTypes'
  BY <1>1, <1>3, <1>5 DEF RunInv, RunTypes, Launched
<1>7. OnePlace'
  BY <1>1, <1>3, <1>4, <1>5 DEF RunInv, OnePlace, Launched, Distinct
<1>8. Tally'
  <2>1. CountedOnce' /\ (\A e : Uncounted(e)' = Uncounted(e)) /\ \A e, res : Tallied(e, res)' = Tallied(e, res)
    BY <1>3 DEF RunInv, Tally, CountedOnce, Uncounted, Tallied
  <2>2. \A d \in DOMAIN tasks' : Tallied(d, tasks'[d])
    BY <1>1, <1>5 DEF RunInv, Tally, Tallied, Launched
  <2>3. \A c \in Counts : counted'[c] \subseteq launched'
    BY <1>1, <1>3 DEF RunInv, Tally, Launched
  <2> QED BY <1>3, <1>4, <2>1, <2>2, <2>3 DEF RunInv, Tally
<1>9. Threads'
  BY <1>2, <1>3, StoreFrame DEF RunInv, Threads, Ingesting
<1>10. Tracked'
  <2>1. taken \intersect J = {}
    BY <1>2, <1>5 DEF RunInv, Tracked
  <2>2. DaysIn(jobs') \union (launched' \ taken) \subseteq DaysIn(jobs) \union (launched \ taken)
    BY <1>1 DEF Launched
  <2> QED BY <1>1, <1>2, <1>3, <1>4, <2>1, <2>2, StoreFrame DEF RunInv, Tracked, Ingesting, Launched
<1>11. NoLoss'
  <2>1. Sound' = Sound
    BY <1>3, StoreFrame DEF Sound
  <2>2. Sound => DOMAIN tasks' # {} \/ jobs' = <<>>
    BY <1>1 DEF Launched
  <2>3. Sound => launched' \subseteq DOMAIN tasks' \union HandingDays' \union QueueDays' \union PendDays'
                             \union counted'["downloaded"] \union counted'["missing"] \union counted'["failed"]
    BY <1>1, <1>3, <1>4 DEF RunInv, NoLoss, Launched
  <2> QED BY <1>2, <1>3, <2>1, <2>2, <2>3, StoreFrame DEF RunInv, NoLoss
<1>12. Kept'
  <2>1. Ingesting' = Ingesting /\ Sound' = Sound
    BY <1>3, StoreFrame DEF Ingesting, Sound
  <2>2. Sound => counted["failed"] \intersect taken = {}
    BY DEF RunInv, Kept
  <2> QED BY <1>3, <1>4, <2>1, <2>2, KeptFrame
<1> QED BY <1>6, <1>7, <1>8, <1>9, <1>10, <1>11, <1>12 DEF RunInv

LEMMA PrimeKeeps == ASSUME RunInv, Prime PROVE RunInv'
BY LaunchKeeps, DownloadAssumption DEF Prime

LEMMA LaunchMoreKeeps == ASSUME RunInv, LaunchMore PROVE RunInv'
<1>1. quota \in Nat /\ (disp = "launch" /\ Sound => quota >= 1)
  BY DEF RunInv, RunTypes, NoLoss
<1> QED BY <1>1, LaunchKeeps DEF LaunchMore

\* The tasks D leave the loop with their results, R.
LEMMA ResultsOf ==
  ASSUME NEW D, NEW f, NEW R, \A r : r \in R <=> \E d \in D : r = [day |-> d, got |-> f[d]]
  PROVE  /\ \A d \in D : \E r \in R : r.day = d
         /\ \A r \in R : r.day \in D /\ r.got = f[r.day]
         /\ \A r, q \in R : r.day = q.day => r = q
<1>1. \A r \in R : \E d \in D : r = [day |-> d, got |-> f[d]]
  OBVIOUS
<1>2. \A r \in R : r.day \in D /\ r = [day |-> r.day, got |-> f[r.day]]
  BY <1>1
<1>3. \A d \in D : [day |-> d, got |-> f[d]] \in R
  OBVIOUS
<1>4. \A d \in D : \E r \in R : r.day = d
  <2> TAKE d \in D
  <2> WITNESS [day |-> d, got |-> f[d]] \in R
  <2> QED OBVIOUS
<1>6. \A r \in R : r.got = f[r.day]
  BY <1>2
<1> QED BY <1>2, <1>4, <1>6

LEMMA WaitReturnsKeeps == ASSUME RunInv, WaitReturns PROVE RunInv'
<1>1. /\ disp = "waiting" /\ disp' = "handoff"
      /\ handing' = {[day |-> d, got |-> tasks[d]] : d \in Done} /\ quota' = Cardinality(Done)
      /\ Done # {} \/ stop \/ writerFailed
      /\ tasks' = Restrict(tasks, DOMAIN tasks \ Done)
      /\ UNCHANGED <<storeVars, mainVars, jobs, stop, interrupted, queue, writerVars, counted, launched>>
  BY DEF WaitReturns
<1>2. /\ UNCHANGED <<main, joined, jobs, writer, pending, writerFailed, counted, launched>>
      /\ UNCHANGED storeVars /\ UNCHANGED <<interrupted, stop, queue>>
  BY <1>1 DEF mainVars, writerVars
<1>3. main = "run" /\ handing = {} /\ HandingDays = {}
  BY <1>1, Running DEF RunInv, Threads, HandingDays
<1>4. Done \subseteq DOMAIN tasks /\ \A d \in Done : tasks[d] \in Finished
  BY DEF Done
<1>5. /\ HandingDays' = Done
      /\ \A r \in handing' : r.day \in Done /\ r.got = tasks[r.day]
      /\ \A r, q \in handing' : r.day = q.day => r = q
  <2>1. \A r : r \in handing' <=> \E d \in Done : r = [day |-> d, got |-> tasks[d]]
    BY <1>1
  <2>2. /\ \A d \in Done : \E r \in handing' : r.day = d
        /\ \A r \in handing' : r.day \in Done /\ r.got = tasks[r.day]
        /\ \A r, q \in handing' : r.day = q.day => r = q
    BY <2>1, ResultsOf
  <2> QED BY <2>2 DEF HandingDays
<1>6. quota' \in Nat /\ (Done # {} => quota' >= 1)
  <2>1. IsFiniteSet(DaysIn(JobList))
    <3>1. JobList \in Seq(Days) /\ DOMAIN JobList = 1 .. Len(JobList)
      BY DownloadAssumption
    <3>2. IsFiniteSet(DOMAIN JobList)
      BY <3>1, FS_Interval
    <3>3. JobList \in Surjection(DOMAIN JobList, DaysIn(JobList))
      BY <3>1 DEF Surjection, DaysIn
    <3> QED BY <3>2, <3>3, FS_Surjection
  <2>2. Done \subseteq DaysIn(JobList)
    BY <1>4 DEF RunInv, RunTypes, OnePlace
  <2>3. IsFiniteSet(Done)
    BY <2>1, <2>2, FS_Subset
  <2>4. Cardinality(Done) \in Nat /\ (Cardinality(Done) = 0 <=> Done = {})
    BY <2>3, FS_CardinalityType, FS_EmptySet
  <2> QED BY <1>1, <2>4
<1>7. DOMAIN tasks' = DOMAIN tasks \ Done /\ \A d \in DOMAIN tasks' : tasks'[d] = tasks[d]
  BY <1>1 DEF Restrict
<1>8. QueueDays' = QueueDays /\ PendDays' = PendDays /\ \A kind : Pending(kind)' = Pending(kind)
  BY <1>2 DEF QueueDays, PendDays, ResultDays, Pending
<1>9. RunTypes'
  <2>1. handing' \subseteq Carried
    <3>1. Done \subseteq Days
      BY <1>4 DEF RunInv, RunTypes
    <3> QED BY <1>1, <1>4, <3>1 DEF Carried
  <2> QED BY <1>1, <1>2, <1>6, <1>7, <2>1 DEF RunInv, RunTypes
<1>10. OnePlace'
  BY <1>2, <1>3, <1>4, <1>5, <1>7, <1>8 DEF RunInv, OnePlace, Distinct
<1>11. Tally'
  <2>1. CountedOnce' /\ (\A e : Uncounted(e)' = Uncounted(e)) /\ \A e, res : Tallied(e, res)' = Tallied(e, res)
    BY <1>2 DEF RunInv, Tally, CountedOnce, Uncounted, Tallied
  <2>2. \A r \in handing' : Tallied(r.day, r.got)
    BY <1>4, <1>5 DEF RunInv, Tally
  <2>3. \A d \in DOMAIN tasks' : Tallied(d, tasks'[d])
    BY <1>7 DEF RunInv, Tally
  <2> QED BY <1>2, <1>8, <2>1, <2>2, <2>3 DEF RunInv, Tally
<1>12. Threads'
  BY <1>1, <1>2, <1>3, StoreFrame DEF RunInv, Threads, Ingesting
<1>13. Tracked'
  BY <1>2, <1>3, <1>4, <1>5, <1>7, <1>8, StoreFrame DEF RunInv, Tracked, Ingesting
<1>14. NoLoss'
  <2>1. Sound' = Sound /\ (Sound => Done # {})
    BY <1>1, <1>2, StoreFrame DEF RunInv, NoLoss, Sound
  <2>2. Sound => launched' \subseteq DOMAIN tasks' \union HandingDays' \union QueueDays' \union PendDays'
                             \union counted'["downloaded"] \union counted'["missing"] \union counted'["failed"]
    BY <1>2, <1>3, <1>5, <1>7, <1>8 DEF RunInv, NoLoss
  <2>3. disp = "waiting" /\ disp' = "handoff"
    BY <1>1
  <2> QED BY <1>2, <1>6, <2>1, <2>2, <2>3, StoreFrame DEF RunInv, NoLoss
<1>15. Kept'
  <2>1. Ingesting' = Ingesting /\ Sound' = Sound
    BY <1>2, StoreFrame DEF Ingesting, Sound
  <2>2. Sound => counted["failed"] \intersect taken = {}
    BY DEF RunInv, Kept
  <2> QED BY <1>2, <1>8, <2>1, <2>2, KeptFrame
<1> QED BY <1>9, <1>10, <1>11, <1>12, <1>13, <1>14, <1>15 DEF RunInv

LEMMA HandOffNextKeeps == ASSUME RunInv, HandOffNext PROVE RunInv'
<1>1. /\ disp \in {"handoff", "handoff_drained"}
      /\ UNCHANGED <<storeVars, mainVars, disp, jobs, tasks, quota, stop, interrupted, writerVars,
                     counted, launched>>
  BY DEF HandOffNext
<1>2. PICK r \in handing : /\ handing' = handing \ {r}
                           /\ (writerFailed /\ queue' = queue) \/ queue' = Append(queue, r)
  BY DEF HandOffNext, HandOff
<1>3. /\ UNCHANGED <<main, joined, disp, jobs, tasks, quota, writer, pending, writerFailed, counted, launched>>
      /\ UNCHANGED storeVars /\ UNCHANGED <<interrupted, stop>>
  BY <1>1 DEF mainVars, writerVars
<1>4. main = "run"
  BY <1>1, Running
<1>5. queue \in Seq(Carried) /\ r \in Carried /\ r.day \in HandingDays
  BY DEF RunInv, RunTypes, HandingDays
<1>6. HandingDays' = HandingDays \ {r.day}
  BY <1>2 DEF RunInv, OnePlace, HandingDays
<1>7. /\ queue' \in Seq(Carried) /\ QueueDays' \subseteq QueueDays \union {r.day} /\ QueueDays \subseteq QueueDays'
      /\ writerFailed \/ r.day \in QueueDays'
      /\ Distinct(queue')
      /\ \A i \in DOMAIN queue' : queue'[i] = r \/ \E j \in DOMAIN queue : queue'[i] = queue[j]
  <2>1. CASE queue' = queue /\ writerFailed
    BY <1>5, <2>1 DEF RunInv, OnePlace, QueueDays, ResultDays
  <2>2. CASE queue' = Append(queue, r)
    <3> DEFINE q == Append(queue, r)
    <3>1. q \in Seq(Carried) /\ DOMAIN q = DOMAIN queue \union {Len(queue) + 1} /\ q[Len(queue) + 1] = r
      BY <1>5
    <3>2. \A i \in DOMAIN queue : q[i] = queue[i]
      BY <1>5
    <3>3. r.day \notin QueueDays
      BY <1>5 DEF RunInv, OnePlace
    <3> HIDE DEF q
    <3>4. Distinct(q)
      BY <3>1, <3>2, <3>3 DEF RunInv, OnePlace, Distinct, QueueDays, ResultDays
    <3>5. ResultDays(q) = QueueDays \union {r.day}
      BY <3>1, <3>2 DEF QueueDays, ResultDays
    <3> QED BY <2>2, <3>1, <3>2, <3>4, <3>5 DEF q, QueueDays
  <2> QED BY <1>2, <2>1, <2>2
<1>8. PendDays' = PendDays /\ \A kind : Pending(kind)' = Pending(kind)
  BY <1>3 DEF PendDays, ResultDays, Pending
<1>9. RunTypes'
  BY <1>2, <1>3, <1>7 DEF RunInv, RunTypes
<1>10. OnePlace'
  BY <1>2, <1>3, <1>5, <1>6, <1>7, <1>8 DEF RunInv, OnePlace
<1>11. Tally'
  <2>1. CountedOnce' /\ (\A e : Uncounted(e)' = Uncounted(e)) /\ \A e, res : Tallied(e, res)' = Tallied(e, res)
    BY <1>3 DEF RunInv, Tally, CountedOnce, Uncounted, Tallied
  <2>2. \A i \in DOMAIN queue' : Tallied(queue'[i].day, queue'[i].got)
    BY <1>7 DEF RunInv, Tally
  <2> QED BY <1>2, <1>3, <1>8, <2>1, <2>2 DEF RunInv, Tally
<1>12. Threads'
  BY <1>1, <1>3, StoreFrame DEF RunInv, Threads, Ingesting
<1>13. Tracked'
  BY <1>3, <1>5, <1>6, <1>7, <1>8, StoreFrame DEF RunInv, Tracked, Ingesting
<1>14. NoLoss'
  <2>1. Sound' = Sound /\ (Sound => ~writerFailed)
    BY <1>3, StoreFrame DEF RunInv, NoLoss, Sound
  <2>2. Sound => launched' \subseteq DOMAIN tasks' \union HandingDays' \union QueueDays' \union PendDays'
                             \union counted'["downloaded"] \union counted'["missing"] \union counted'["failed"]
    BY <1>3, <1>6, <1>7, <1>8, <2>1 DEF RunInv, NoLoss
  <2> QED BY <1>3, <1>4, <2>1, <2>2, StoreFrame DEF RunInv, NoLoss
<1>15. Kept'
  <2>1. Ingesting' = Ingesting /\ Sound' = Sound
    BY <1>3, StoreFrame DEF Ingesting, Sound
  <2>2. Sound => counted["failed"] \intersect taken = {}
    BY DEF RunInv, Kept
  <2> QED BY <1>3, <1>8, <2>1, <2>2, KeptFrame
<1> QED BY <1>9, <1>10, <1>11, <1>12, <1>13, <1>14, <1>15 DEF RunInv

LEMMA CancelAndDrainKeeps == ASSUME RunInv, CancelAndDrain, ~InTask PROVE RunInv'
<1> DEFINE F == {d \in DOMAIN tasks : tasks[d] = "fetching"}
           D == {e \in DOMAIN tasks : AfterCancel(tasks[e]) # "lost"}
           f == [d \in DOMAIN tasks |-> AfterCancel(tasks[d])]
<1>1. /\ disp = "cancel" /\ disp' = "handoff_drained" /\ Count("cancelled", F) /\ tasks' = EmptyMap
      /\ handing' = {[day |-> d, got |-> AfterCancel(tasks[d])] : d \in D} \/ handing' = {}
      /\ UNCHANGED <<storeVars, mainVars, jobs, quota, stop, interrupted, queue, writerVars, launched>>
  BY DEF CancelAndDrain
<1>2. /\ UNCHANGED <<main, joined, jobs, quota, writer, pending, writerFailed, launched>>
      /\ UNCHANGED storeVars /\ UNCHANGED <<interrupted, stop, queue>>
  BY <1>1 DEF mainVars, writerVars
<1>3. main = "run" /\ handing = {} /\ HandingDays = {} /\ DOMAIN tasks' = {}
  BY <1>1, Running DEF RunInv, Threads, HandingDays, EmptyMap
<1>4. ~Sound /\ ~Sound' /\ (stop \/ writerFailed)
  BY <1>1, <1>2, StoreFrame DEF RunInv, NoLoss, Sound
<1>5. QueueDays' = QueueDays /\ PendDays' = PendDays /\ \A kind : Pending(kind)' = Pending(kind)
  BY <1>2 DEF QueueDays, PendDays, ResultDays, Pending
<1>6. /\ HandingDays' \subseteq DOMAIN tasks
      /\ \A r \in handing' : r.day \in D /\ r.got = AfterCancel(tasks[r.day])
      /\ \A r, q \in handing' : r.day = q.day => r = q
      /\ handing' \subseteq Carried
  <2>1. CASE handing' = {}
    BY <2>1 DEF HandingDays
  <2>2. CASE handing' = {[day |-> d, got |-> AfterCancel(tasks[d])] : d \in D}
    <3>1. D \subseteq DOMAIN tasks /\ DOMAIN tasks \subseteq Days
      BY DEF RunInv, RunTypes
    <3>2. \A d \in D : AfterCancel(tasks[d]) \in Finished
      BY DEF RunInv, RunTypes, AfterCancel, Finished, InTask
    <3>3. \A r : r \in handing' <=> \E d \in D : r = [day |-> d, got |-> AfterCancel(tasks[d])]
      BY <2>2
    <3> HIDE DEF D
    <3>4. \A r \in handing' : /\ r.day \in D /\ r.got = AfterCancel(tasks[r.day])
                              /\ r = [day |-> r.day, got |-> AfterCancel(tasks[r.day])]
      BY <3>3
    <3>5. \A r \in handing' : r \in Carried
      BY <3>1, <3>2, <3>4 DEF Carried
    <3> QED BY <3>1, <3>4, <3>5 DEF HandingDays
  <2> QED BY <1>1, <2>1, <2>2
<1>7. /\ F \subseteq DOMAIN tasks /\ F \in SUBSET Days /\ \A d \in F : Uncounted(d) /\ tasks[d] = "fetching"
  BY DEF RunInv, RunTypes, Tally, Tallied
<1> HIDE DEF F
<1>8. /\ counted' \in [Counts -> SUBSET Days] /\ CountedOnce'
      /\ counted'["cancelled"] = counted["cancelled"] \union F
      /\ \A b \in Counts : counted'[b] = counted[b] \/ counted'[b] = counted[b] \union F
      /\ \A e : e \notin F => /\ Uncounted(e) => Uncounted(e)'
                              /\ \A res : Tallied(e, res) => Tallied(e, res)'
  <2>1. "cancelled" \in Counts
    BY DEF Counts
  <2>2. /\ counted' \in [Counts -> SUBSET Days] /\ CountedOnce'
        /\ counted'["cancelled"] = counted["cancelled"] \union F
        /\ \A b \in Counts \ {"cancelled"} : counted'[b] = counted[b]
        /\ \A e : e \notin F => /\ Uncounted(e) => Uncounted(e)'
                                /\ \A res : Tallied(e, res) => Tallied(e, res)'
    BY <1>1, <1>7, <2>1, CountsOnce DEF RunInv, RunTypes, Tally
  <2> QED BY <2>2
<1>9. RunTypes'
  BY <1>1, <1>2, <1>3, <1>6, <1>8 DEF RunInv, RunTypes
<1>10. OnePlace'
  BY <1>2, <1>3, <1>5, <1>6 DEF RunInv, OnePlace, Distinct
<1>11. Tally'
  <2>1. \A c \in Counts : counted'[c] \subseteq launched'
    BY <1>2, <1>7, <1>8 DEF RunInv, Tally, OnePlace
  <2>2. ASSUME NEW r \in handing' PROVE Tallied(r.day, r.got)'
    <3> DEFINE d == r.day
    <3>1. d \in DOMAIN tasks /\ r.got = AfterCancel(tasks[d]) /\ AfterCancel(tasks[d]) # "lost"
      BY <1>6
    <3> HIDE DEF d
    <3>2. CASE d \in F
      BY <1>7, <1>8, <3>1, <3>2 DEF Tallied, AfterCancel, d
    <3>3. CASE d \notin F
      <4>1. r.got = tasks[d] /\ Tallied(d, tasks[d])
        BY <3>1, <3>3 DEF AfterCancel, F, RunInv, Tally
      <4> QED BY <1>8, <3>3, <4>1 DEF d
    <3> QED BY <3>2, <3>3
  <2>3. \A i \in DOMAIN queue' : Tallied(queue[i].day, queue[i].got)'
    BY <1>2, <1>7, <1>8 DEF RunInv, Tally, OnePlace, QueueDays, ResultDays
  <2>4. \A e \in PendDays' : Uncounted(e)'
    BY <1>5, <1>7, <1>8 DEF RunInv, Tally, OnePlace
  <2> QED BY <1>3, <1>8, <2>1, <2>2, <2>3, <2>4 DEF Tally
<1>12. Threads'
  BY <1>1, <1>2, <1>3, StoreFrame DEF RunInv, Threads, Ingesting
<1>13. Tracked'
  BY <1>2, <1>3, <1>5, <1>6, StoreFrame DEF RunInv, Tracked, Ingesting
<1>14. NoLoss'
  BY <1>1, <1>2, <1>4, StoreFrame DEF RunInv, NoLoss
<1>15. Kept'
  BY <1>2, <1>4, <1>5, KeptFrame DEF Ingesting
<1> QED BY <1>9, <1>10, <1>11, <1>12, <1>13, <1>14, <1>15 DEF RunInv
-----------------------------------------------------------------------------
(* The writer                                                               *)

LEMMA WriterTakesKeeps == ASSUME RunInv, WriterTakes PROVE RunInv'
<1> DEFINE r == Head(queue)
<1>1. /\ writer = "loop" /\ queue # <<>> /\ queue' = Tail(queue)
      /\ \/ Keeps(r) /\ pending' = Append(pending, r) /\ writer' \in {"loop", "flush"}
         \/ ~Keeps(r) /\ pending' = pending /\ writer' = writer
      /\ UNCHANGED <<storeVars, mainVars, loopVars, stop, writerFailed, counted, launched>>
  BY DEF WriterTakes
<1>2. /\ UNCHANGED <<main, joined, disp, jobs, tasks, handing, quota, writerFailed, counted, launched>>
      /\ UNCHANGED storeVars /\ UNCHANGED <<interrupted, stop>>
  BY <1>1 DEF mainVars, loopVars, dispVars
<1>3. main # "down" /\ writer' \in {"loop", "flush"} /\ ~Ingesting /\ ~Ingesting'
  BY <1>1, Running DEF Ingesting
<1>4. queue \in Seq(Carried) /\ pending \in Seq(Result) /\ 1 \in DOMAIN queue /\ queue[1] = r /\ r \in Carried
  BY <1>1 DEF RunInv, RunTypes
<1> HIDE DEF r
<1>5. r.day \in Days /\ r.got \in Finished /\ r.day \in QueueDays /\ Tallied(r.day, r.got)
  BY <1>4 DEF Carried, QueueDays, ResultDays, RunInv, Tally
<1>6. /\ queue' \in Seq(Carried) /\ Distinct(queue') /\ QueueDays' = QueueDays \ {r.day}
      /\ \A i \in DOMAIN queue' : \E j \in DOMAIN queue : queue'[i] = queue[j]
  <2> DEFINE q == Tail(queue)
  <2>1. q \in Seq(Carried) /\ \A i \in DOMAIN q : i \in Nat /\ i + 1 \in DOMAIN queue /\ i + 1 # 1 /\ q[i] = queue[i + 1]
    BY <1>1, <1>4
  <2>2. \A j \in DOMAIN queue : j = 1 \/ (j - 1 \in DOMAIN q /\ q[j - 1] = queue[j])
    BY <1>1, <1>4
  <2> HIDE DEF q
  <2>3. Distinct(queue)
    BY DEF RunInv, OnePlace
  <2>4. Distinct(q)
    <3> SUFFICES ASSUME NEW i \in DOMAIN q, NEW j \in DOMAIN q, q[i].day = q[j].day PROVE i = j
      BY DEF Distinct
    <3>1. i + 1 = j + 1
      BY <2>1, <2>3 DEF Distinct
    <3> QED BY <2>1, <3>1
  <2>5. ResultDays(q) = ResultDays(queue) \ {r.day}
    <3>1. \A i \in DOMAIN q : q[i].day # r.day
      BY <1>4, <2>1, <2>3 DEF Distinct
    <3>2. \A i \in DOMAIN q : q[i].day \in ResultDays(queue)
      BY <2>1 DEF ResultDays
    <3>3. \A j \in DOMAIN queue : queue[j].day = r.day \/ queue[j].day \in ResultDays(q)
      BY <1>4, <2>2 DEF ResultDays
    <3> QED BY <3>1, <3>2, <3>3 DEF ResultDays
  <2> QED BY <1>1, <2>1, <2>4, <2>5 DEF q, QueueDays
<1>7. /\ pending' \in Seq(Result) /\ Distinct(pending')
      /\ \A kind : Pending(kind) \subseteq Pending(kind)'
      /\ \/ PendDays' = PendDays \union {r.day} /\ Uncounted(r.day)
         \/ PendDays' = PendDays /\ r.day \in counted["failed"] \union counted["cancelled"]
  <2>1. CASE Keeps(r) /\ pending' = Append(pending, r)
    <3> DEFINE p == Append(pending, r)
    <3>1. r \in Result
      BY <1>4, <2>1 DEF Keeps, Carried, Result
    <3>2. p \in Seq(Result) /\ DOMAIN p = DOMAIN pending \union {Len(pending) + 1} /\ p[Len(pending) + 1] = r
      BY <1>4, <3>1
    <3>3. \A i \in DOMAIN pending : p[i] = pending[i]
      BY <1>4
    <3>4. r.day \notin PendDays
      BY <1>5 DEF RunInv, OnePlace
    <3> HIDE DEF p
    <3>5. Distinct(p)
      BY <3>2, <3>3, <3>4 DEF RunInv, OnePlace, Distinct, PendDays, ResultDays
    <3>6. ResultDays(p) = PendDays \union {r.day}
      BY <3>2, <3>3 DEF PendDays, ResultDays
    <3>7. \A kind : Pending(kind) \subseteq Pending(kind)'
      BY <2>1, <3>2, <3>3 DEF Pending, p
    <3>8. Uncounted(r.day)
      BY <1>5, <2>1 DEF Keeps, Tallied
    <3> QED BY <2>1, <3>2, <3>5, <3>6, <3>7, <3>8 DEF p, PendDays
  <2>2. CASE ~Keeps(r) /\ pending' = pending
    <3>1. r.got \in {"failed", "cancelled"}
      BY <1>5, <2>2 DEF Keeps, Finished, AnswerKinds
    <3>2. r.day \in counted["failed"] \union counted["cancelled"]
      BY <1>5, <3>1 DEF Tallied
    <3> QED BY <1>4, <2>2, <3>2 DEF PendDays, ResultDays, Pending, RunInv, OnePlace
  <2> QED BY <1>1, <2>1, <2>2
<1>8. HandingDays' = HandingDays
  BY <1>2 DEF HandingDays
<1>9. RunTypes'
  BY <1>2, <1>3, <1>6, <1>7 DEF RunInv, RunTypes
<1>10. OnePlace'
  BY <1>2, <1>5, <1>6, <1>7, <1>8 DEF RunInv, OnePlace
<1>11. Tally'
  <2>1. CountedOnce' /\ (\A e : Uncounted(e)' = Uncounted(e)) /\ \A e, res : Tallied(e, res)' = Tallied(e, res)
    BY <1>2 DEF RunInv, Tally, CountedOnce, Uncounted, Tallied
  <2>2. \A i \in DOMAIN queue' : Tallied(queue'[i].day, queue'[i].got)
    BY <1>6 DEF RunInv, Tally
  <2>3. \A d \in PendDays' : Uncounted(d)
    BY <1>7 DEF RunInv, Tally
  <2> QED BY <1>2, <2>1, <2>2, <2>3 DEF RunInv, Tally
<1>12. Threads'
  BY <1>1, <1>2, <1>3, StoreFrame DEF RunInv, Threads, Ingesting
<1>13. Tracked'
  BY <1>2, <1>3, <1>5, <1>6, <1>7, <1>8, StoreFrame DEF RunInv, Tracked
<1>14. NoLoss'
  <2>1. Sound' = Sound
    BY <1>2, StoreFrame DEF Sound
  <2>2. Sound => launched' \subseteq DOMAIN tasks' \union HandingDays' \union QueueDays' \union PendDays'
                             \union counted'["downloaded"] \union counted'["missing"] \union counted'["failed"]
    BY <1>2, <1>6, <1>7, <1>8 DEF RunInv, NoLoss
  <2> QED BY <1>1, <1>2, <1>3, <2>1, <2>2, StoreFrame DEF RunInv, NoLoss
<1>15. Kept'
  <2>1. Sound' = Sound
    BY <1>2, StoreFrame DEF Sound
  <2>2. Sound => counted["failed"] \intersect taken = {}
    BY DEF RunInv, Kept
  <2> QED BY <1>2, <1>3, <1>7, <2>1, <2>2, KeptFrame
<1> QED BY <1>9, <1>10, <1>11, <1>12, <1>13, <1>14, <1>15 DEF RunInv

\* The results of the pending list by what they are.
LEMMA PendingKinds ==
  ASSUME RunInv
  PROVE  /\ PendDays = Pending("rows") \union Pending("empty") \union Pending("missing")
         /\ \A d \in Pending("rows") : d \notin Pending("empty") /\ d \notin Pending("missing")
         /\ \A d \in Pending("empty") : d \notin Pending("missing")
         /\ PendingDays({"rows", "empty"}) = Pending("rows") \union Pending("empty")
         /\ PendingDays({"missing"}) = Pending("missing")
         /\ PendDays \subseteq Days
<1>1. pending \in Seq(Result) /\ Distinct(pending)
  BY DEF RunInv, RunTypes, OnePlace
<1>2. \A i \in DOMAIN pending : pending[i].day \in Days /\ pending[i].got \in {"rows", "empty", "missing"}
  <2>1. \A r \in Result : r.day \in Days /\ r.got \in {"rows", "empty", "missing"}
    BY DEF Result
  <2> QED BY <1>1, <2>1
<1>3. /\ \A d \in Pending("rows") : d \notin Pending("empty") /\ d \notin Pending("missing")
      /\ \A d \in Pending("empty") : d \notin Pending("missing")
  BY <1>1 DEF Pending, Distinct
<1>4. PendDays = Pending("rows") \union Pending("empty") \union Pending("missing") /\ PendDays \subseteq Days
  BY <1>2 DEF PendDays, ResultDays, Pending
<1>5. PendingDays({"rows", "empty"}) = Pending("rows") \union Pending("empty")
  BY DEF PendingDays, Pending
<1>6. PendingDays({"missing"}) = Pending("missing")
  BY DEF PendingDays, Pending
<1> QED BY <1>3, <1>4, <1>5, <1>6

LEMMA WriterIngestsKeeps == ASSUME RunInv, Inv, WriterIngests PROVE RunInv'
<1> DEFINE b == BatchOf(pending)
<1>1. /\ writer \in {"flush", "last_flush"} /\ BeginIngest(b)
      /\ \/ writer = "flush" /\ writer' = "ingest"
         \/ writer = "last_flush" /\ writer' = "last_ingest"
      /\ UNCHANGED <<mainVars, loopVars, stop, queue, pending, writerFailed, counted, launched>>
  BY DEF WriterIngests
<1>2. /\ UNCHANGED placeVars
      /\ UNCHANGED <<main, joined, disp, quota, stop, interrupted, writerFailed, jobs, tasks, launched, counted>>
  BY <1>1 DEF mainVars, loopVars, dispVars, placeVars
<1>3. /\ WriteDays(IngestSteps(b)) = Pending("rows")
      /\ StepDays(IngestSteps(b), "empty") = Pending("empty")
      /\ StepDays(IngestSteps(b), "missing") = Pending("missing")
      /\ DaysOf(b) = PendDays
  BY IngestWork DEF RunInv, RunTypes, Pending, PendDays, ResultDays
<1> HIDE DEF b
<1>4. /\ call = "none" /\ call' = "ingest" /\ steps' = IngestSteps(b) /\ taken' = taken \union PendDays /\ outcome' = "ok"
      /\ UNCHANGED <<completedDays, emptyDays, state, writers, committing, troubled>>
  BY <1>1, <1>3 DEF BeginIngest, diskVars
<1>5. steps = <<>> /\ committing = {}
  BY <1>4 DEF Inv, TypeOK, LockOK
<1>6. /\ ToWrite = {} /\ ToEmpty = {} /\ ToMissing = {}
      /\ ToWrite' = Pending("rows") /\ ToEmpty' = Pending("empty") /\ ToMissing' = Pending("missing")
      /\ Awaiting' = Awaiting /\ Completed' = Completed /\ OneCommit' = OneCommit /\ Drained' = Drained
  BY <1>3, <1>4, <1>5, NoWork DEF ToWrite, ToEmpty, ToMissing, Awaiting, Completed, OneCommit, Drained
<1>7. WorkDays' = WorkDays \union PendDays
  BY <1>6, PendingKinds DEF WorkDays
<1>8. /\ HandingDays' = HandingDays /\ QueueDays' = QueueDays /\ PendDays' = PendDays
      /\ \A kind : Pending(kind)' = Pending(kind)
  BY <1>2 DEF placeVars, HandingDays, QueueDays, PendDays, ResultDays, Pending
<1>9. main # "down" /\ ~Ingesting /\ Ingesting'
  BY <1>1, Running DEF Ingesting
<1>10. RunTypes'
  BY <1>1, <1>2 DEF RunInv, RunTypes, placeVars
<1>11. OnePlace' /\ Tally'
  BY <1>2, PlacesKept DEF RunInv
<1>12. Threads'
  BY <1>1, <1>2, <1>4, <1>9 DEF RunInv, Threads, placeVars
<1>13. Tracked'
  BY <1>2, <1>4, <1>6, <1>7, <1>8, <1>9 DEF RunInv, Tracked, OnePlace
<1>14. NoLoss'
  BY <1>1, <1>2, <1>4, <1>8 DEF RunInv, NoLoss, Sound, placeVars
<1>15. Kept'
  <2>1. Sound' = Sound /\ (state = "closed" => Drained \/ ~Sound)
    BY <1>2, <1>4 DEF RunInv, Kept, Sound
  <2>2. counted["failed"] \intersect PendDays = {}
    BY DEF RunInv, Tally, Uncounted, Counts
  <2>3. main # "closing"
    BY <1>4 DEF RunInv, Threads
  <2> QED BY <1>2, <1>4, <1>6, <1>8, <2>1, <2>2, <2>3 DEF RunInv, Kept
<1> QED BY <1>10, <1>11, <1>12, <1>13, <1>14, <1>15 DEF RunInv

\* The pending list is let go and its days are counted: what holds of the places afterwards.
LEMMA PendingLeft ==
  ASSUME RunInv, pending' = <<>>, UNCHANGED <<jobs, tasks, handing, queue, launched>>,
         counted' \in [Counts -> SUBSET Days], CountedOnce',
         \A c \in Counts : counted'[c] \subseteq counted[c] \union PendDays,
         \A c \in Counts : counted[c] \subseteq counted'[c]
  PROVE  /\ OnePlace' /\ Tally'
         /\ HandingDays' = HandingDays /\ QueueDays' = QueueDays /\ PendDays' = {}
         /\ \A kind : Pending(kind)' = {}
         /\ pending' \in Seq(Result)
<1>1. /\ HandingDays' = HandingDays /\ QueueDays' = QueueDays /\ PendDays' = {}
      /\ \A kind : Pending(kind)' = {}
      /\ pending' \in Seq(Result) /\ Distinct(pending')
  BY DEF HandingDays, QueueDays, PendDays, ResultDays, Pending, Distinct
<1>2. OnePlace'
  BY <1>1 DEF RunInv, OnePlace, DaysIn, Distinct
<1>3. ASSUME NEW e, e \notin PendDays, NEW res, Tallied(e, res) PROVE Tallied(e, res)'
  BY <1>3 DEF Tallied, Uncounted, Counts
<1>4. /\ \A d \in DOMAIN tasks : d \notin PendDays
      /\ \A r \in handing : r.day \notin PendDays
      /\ \A i \in DOMAIN queue : queue[i].day \notin PendDays
  BY DEF RunInv, OnePlace, HandingDays, QueueDays, ResultDays
<1>5. Tally'
  <2>1. \A c \in Counts : counted'[c] \subseteq launched'
    BY DEF RunInv, Tally, OnePlace
  <2>2. \A d \in DOMAIN tasks' : Tallied(d, tasks[d])'
    BY <1>3, <1>4 DEF RunInv, Tally
  <2>3. \A r \in handing' : Tallied(r.day, r.got)'
    BY <1>3, <1>4 DEF RunInv, Tally
  <2>4. \A i \in DOMAIN queue' : Tallied(queue[i].day, queue[i].got)'
    BY <1>3, <1>4 DEF RunInv, Tally
  <2> QED BY <1>1, <2>1, <2>2, <2>3, <2>4 DEF Tally
<1> QED BY <1>1, <1>2, <1>5

\* What the end of an operation leaves of the store.
LEMMA ReturnFrame ==
  ASSUME Return
  PROVE  /\ steps = <<>> /\ committing = {} /\ call' = "none"
         /\ UNCHANGED <<state, outcome, troubled, taken, completedDays, emptyDays>>
         /\ ToWrite = {} /\ ToEmpty = {} /\ ToMissing = {} /\ ~ToSweep
         /\ ToWrite' = ToWrite /\ ToEmpty' = ToEmpty /\ ToMissing' = ToMissing /\ Awaiting' = Awaiting
         /\ WorkDays' = WorkDays /\ Completed' = Completed
         /\ OneCommit' = OneCommit /\ Drained' = Drained /\ ToSweep' = ToSweep
<1>1. /\ UNCHANGED <<steps, writers, committing, completedDays, state, outcome, troubled, taken, emptyDays>>
      /\ steps = <<>> /\ committing = {} /\ call' = "none"
  BY DEF Return, diskVars
<1>2. ToWrite = {} /\ ToEmpty = {} /\ ToMissing = {} /\ ~ToSweep
  BY <1>1, NoWork DEF ToWrite, ToEmpty, ToMissing, ToSweep
<1> QED BY <1>1, <1>2, WorkKept

LEMMA IngestReturnsKeeps == ASSUME RunInv, IngestReturns PROVE RunInv'
<1> DEFINE D == Pending("rows") \union Pending("empty")
           M == Pending("missing")
<1>1. /\ outcome = "ok" /\ Return /\ pending' = <<>>
      /\ \/ writer = "ingest" /\ writer' = "loop"
         \/ writer = "last_ingest" /\ writer' = "exited"
      /\ UNCHANGED <<mainVars, loopVars, stop, queue, writerFailed, launched>>
  BY DEF IngestReturns, Emptied
<1>2. /\ UNCHANGED <<main, joined, disp, quota, stop, interrupted, writerFailed>>
      /\ UNCHANGED <<jobs, tasks, handing, queue, launched>>
  BY <1>1 DEF mainVars, loopVars, dispVars
<1>3. counted' = [counted EXCEPT !["downloaded"] = @ \union D, !["missing"] = @ \union M]
  BY PendingKinds DEF IngestReturns
<1>4. D \union M = PendDays /\ D \intersect M = {} /\ PendDays \subseteq Days
  BY PendingKinds
<1> HIDE DEF D, M
<1>5. /\ counted' \in [Counts -> SUBSET Days]
      /\ counted'["downloaded"] = counted["downloaded"] \union D
      /\ counted'["missing"] = counted["missing"] \union M
      /\ counted'["failed"] = counted["failed"] /\ counted'["cancelled"] = counted["cancelled"]
  BY <1>3, <1>4 DEF RunInv, RunTypes, Counts
<1>6. CountedOnce'
  <2>1. \A d \in PendDays : \A c \in Counts : d \notin counted[c]
    BY DEF RunInv, Tally, Uncounted
  <2> QED BY <1>4, <1>5, <2>1 DEF RunInv, Tally, CountedOnce, Counts
<1>7. /\ \A c \in Counts : counted'[c] \subseteq counted[c] \union PendDays
      /\ \A c \in Counts : counted[c] \subseteq counted'[c]
  BY <1>4, <1>5 DEF Counts
<1>8. /\ OnePlace' /\ Tally'
      /\ HandingDays' = HandingDays /\ QueueDays' = QueueDays /\ PendDays' = {}
      /\ \A kind : Pending(kind)' = {}
      /\ pending' \in Seq(Result)
  BY <1>1, <1>2, <1>5, <1>6, <1>7, PendingLeft
<1>9. main # "down" /\ Ingesting /\ ~Ingesting'
  BY <1>1, Running DEF Ingesting
<1>10. RunTypes'
  BY <1>1, <1>2, <1>5, <1>8 DEF RunInv, RunTypes
<1>11. Threads'
  BY <1>1, <1>2, <1>9, ReturnFrame DEF RunInv, Threads
<1>12. Tracked'
  BY <1>1, <1>2, <1>8, <1>9, ReturnFrame DEF RunInv, Tracked
<1>13. NoLoss'
  <2>1. Sound' = Sound /\ outcome' # "raised"
    BY <1>1, <1>2, ReturnFrame DEF Sound
  <2>2. Sound => launched' \subseteq DOMAIN tasks' \union HandingDays' \union QueueDays' \union PendDays'
                             \union counted'["downloaded"] \union counted'["missing"] \union counted'["failed"]
    BY <1>2, <1>4, <1>5, <1>8 DEF RunInv, NoLoss
  <2> QED BY <1>1, <1>2, <1>5, <2>1, <2>2, ReturnFrame DEF RunInv, NoLoss
<1>14. Kept'
  <2>1. Sound' = Sound
    BY <1>1, <1>2, ReturnFrame DEF Sound
  <2>2. ASSUME Sound
        PROVE  /\ D \subseteq Awaiting \union Completed /\ M \subseteq emptyDays
               /\ Awaiting \subseteq counted["downloaded"] \union D
    BY <1>1, <1>9, <2>2, ReturnFrame DEF RunInv, Kept, D, M
  <2>3. Sound => main \notin {"closing", "returned"}
    BY <1>1 DEF RunInv, NoLoss
  <2> QED BY <1>1, <1>2, <1>5, <1>8, <1>9, <2>1, <2>2, <2>3, ReturnFrame DEF RunInv, Kept
<1> QED BY <1>8, <1>10, <1>11, <1>12, <1>13, <1>14 DEF RunInv

LEMMA IngestRaisesKeeps == ASSUME RunInv, IngestRaises PROVE RunInv'
<1>1. /\ outcome = "raised" /\ Return /\ pending' = <<>> /\ writerFailed' = TRUE
      /\ writer \in {"ingest", "last_ingest"} /\ writer' = "failing"
      /\ UNCHANGED <<mainVars, loopVars, stop, queue, launched>>
  BY DEF IngestRaises, Emptied
<1>2. /\ UNCHANGED <<main, joined, disp, quota, stop, interrupted>>
      /\ UNCHANGED <<jobs, tasks, handing, queue, launched>>
  BY <1>1 DEF mainVars, loopVars, dispVars
<1>3. Count("failed", PendDays)
  BY DEF IngestRaises, PendDays, ResultDays
<1>4. PendDays \in SUBSET Days /\ "failed" \in Counts /\ \A d \in PendDays : Uncounted(d)
  BY PendingKinds DEF RunInv, Tally, Counts
<1>5. /\ counted' \in [Counts -> SUBSET Days] /\ CountedOnce'
      /\ counted'["failed"] = counted["failed"] \union PendDays
      /\ \A b \in Counts \ {"failed"} : counted'[b] = counted[b]
  BY <1>3, <1>4, CountsOnce DEF RunInv, RunTypes, Tally
<1>6. /\ OnePlace' /\ Tally'
      /\ HandingDays' = HandingDays /\ QueueDays' = QueueDays /\ PendDays' = {}
      /\ \A kind : Pending(kind)' = {}
      /\ pending' \in Seq(Result)
  BY <1>1, <1>2, <1>5, PendingLeft
<1>7. main # "down" /\ Ingesting /\ ~Ingesting'
  BY <1>1, Running DEF Ingesting
<1>8. troubled /\ troubled' /\ ~Sound'
  BY <1>1, <1>7, ReturnFrame DEF RunInv, NoLoss, Sound
<1>9. RunTypes'
  BY <1>1, <1>2, <1>5, <1>6 DEF RunInv, RunTypes
<1>10. Threads'
  BY <1>1, <1>2, <1>7, ReturnFrame DEF RunInv, Threads
<1>11. Tracked'
  BY <1>1, <1>2, <1>6, <1>7, ReturnFrame DEF RunInv, Tracked
<1>12. NoLoss'
  BY <1>1, <1>2, <1>8 DEF RunInv, NoLoss
<1>13. Kept'
  BY <1>1, <1>8, ReturnFrame DEF RunInv, Kept
<1> QED BY <1>6, <1>9, <1>10, <1>11, <1>12, <1>13 DEF RunInv
-----------------------------------------------------------------------------
(* The main thread                                                          *)

LEMMA MainClosesKeeps == ASSUME RunInv, Inv, MainCloses PROVE RunInv'
<1>1. /\ main = "close" /\ main' = "closing" /\ BeginClose
      /\ UNCHANGED <<joined, loopVars, stop, queue, writerVars, counted, launched>>
  BY DEF MainCloses
<1>2. /\ UNCHANGED placeVars
      /\ UNCHANGED <<joined, disp, quota, stop, interrupted, writer, writerFailed, jobs, tasks, launched, counted>>
  BY <1>1 DEF loopVars, dispVars, writerVars, placeVars
<1>3. /\ call = "none" /\ call' = "close" /\ steps' = <<FlushAll, Sweep>> /\ outcome' = "ok" /\ state = "open"
      /\ UNCHANGED <<completedDays, emptyDays, state, writers, committing, troubled, taken>>
  BY <1>1 DEF BeginClose, diskVars
<1>4. steps = <<>> /\ ~Ingesting /\ ~Ingesting'
  BY <1>2, <1>3 DEF Inv, TypeOK, LockOK, RunInv, Threads, Ingesting
<1>5. /\ ToWrite = {} /\ ToEmpty = {} /\ ToMissing = {}
      /\ ToWrite' = {} /\ ToEmpty' = {} /\ ToMissing' = {}
      /\ Awaiting' = Awaiting /\ Completed' = Completed /\ OneCommit' = OneCommit /\ WorkDays' = WorkDays
  BY <1>3, <1>4, NoWork DEF ToWrite, ToEmpty, ToMissing, Awaiting, Completed, OneCommit, WorkDays
<1>6. ToSweep'
  <2>1. 2 \in DOMAIN steps' /\ steps'[2].do = "sweep"
    BY <1>3 DEF Sweep
  <2> QED BY <2>1 DEF ToSweep
<1>7. /\ HandingDays' = HandingDays /\ QueueDays' = QueueDays /\ PendDays' = PendDays
      /\ \A kind : Pending(kind)' = Pending(kind)
  BY <1>2 DEF placeVars, HandingDays, QueueDays, PendDays, ResultDays, Pending
<1>8. RunTypes'
  BY <1>1, <1>2 DEF RunInv, RunTypes, placeVars
<1>9. OnePlace' /\ Tally'
  BY <1>2, PlacesKept DEF RunInv
<1>10. Threads'
  BY <1>1, <1>2, <1>3, <1>4 DEF RunInv, Threads, placeVars
<1>11. Tracked'
  BY <1>1, <1>2, <1>3, <1>4, <1>5, <1>7 DEF RunInv, Tracked
<1>12. NoLoss'
  BY <1>1, <1>2, <1>3, <1>7 DEF RunInv, NoLoss, Sound, placeVars
<1>13. Kept'
  <2>1. Sound' = Sound
    BY <1>1, <1>2, <1>3 DEF Sound
  <2> QED BY <1>1, <1>2, <1>3, <1>4, <1>5, <1>6, <1>7, <2>1 DEF RunInv, Kept
<1> QED BY <1>8, <1>9, <1>10, <1>11, <1>12, <1>13 DEF RunInv

LEMMA CloseReturnsKeeps == ASSUME RunInv, CloseReturns PROVE RunInv'
<1>1. /\ main = "closing" /\ main' \in {"raised", "returned"} /\ call = "close" /\ Return
      /\ UNCHANGED <<joined, loopVars, stop, queue, writerVars, counted, launched>>
  BY DEF CloseReturns
<1>2. /\ UNCHANGED placeVars
      /\ UNCHANGED <<joined, disp, quota, stop, interrupted, writer, writerFailed, jobs, tasks, launched, counted>>
  BY <1>1 DEF loopVars, dispVars, writerVars, placeVars
<1>3. /\ HandingDays' = HandingDays /\ QueueDays' = QueueDays /\ PendDays' = PendDays
      /\ \A kind : Pending(kind)' = Pending(kind)
  BY <1>2 DEF placeVars, HandingDays, QueueDays, PendDays, ResultDays, Pending
<1>4. Ingesting' = Ingesting /\ ~Ingesting
  BY <1>1, <1>2 DEF RunInv, Threads, Ingesting
<1>5. RunTypes'
  BY <1>1, <1>2 DEF RunInv, RunTypes, placeVars
<1>6. OnePlace' /\ Tally'
  BY <1>2, PlacesKept DEF RunInv
<1>7. Threads'
  BY <1>1, <1>2, <1>4, ReturnFrame DEF RunInv, Threads, placeVars
<1>8. Tracked'
  BY <1>1, <1>2, <1>3, <1>4, ReturnFrame DEF RunInv, Tracked
<1>9. Sound' = Sound
  BY <1>1, <1>2, ReturnFrame DEF Sound
<1>10. NoLoss'
  BY <1>1, <1>2, <1>3, <1>9, ReturnFrame DEF RunInv, NoLoss, placeVars
<1>11. Kept'
  BY <1>1, <1>2, <1>3, <1>4, <1>9, ReturnFrame DEF RunInv, Kept
<1> QED BY <1>5, <1>6, <1>7, <1>8, <1>10, <1>11 DEF RunInv

\* No day is at any place.
LEMMA NoPlaces ==
  ASSUME jobs' = <<>>, tasks' = EmptyMap, handing' = {}, queue' = <<>>, pending' = <<>>,
         counted' = Nothing, launched' = {}
  PROVE  OnePlace' /\ Tally'
<1>1. HandingDays' = {} /\ QueueDays' = {} /\ PendDays' = {} /\ DOMAIN tasks' = {} /\ DaysIn(jobs') = {}
  BY DEF HandingDays, QueueDays, PendDays, ResultDays, DaysIn, EmptyMap
<1>2. OnePlace'
  BY <1>1 DEF OnePlace, Distinct
<1>3. Tally'
  BY <1>1 DEF Tally, CountedOnce, Nothing, Uncounted
<1> QED BY <1>2, <1>3

LEMMA EndKeeps == ASSUME RunInv, End PROVE RunInv'
<1>1. /\ main' = "down" /\ joined' = "done" /\ disp' = "exited" /\ jobs' = <<>> /\ tasks' = EmptyMap
      /\ handing' = {} /\ quota' = 0 /\ stop' = FALSE /\ interrupted' = FALSE /\ queue' = <<>>
      /\ writer' = "exited" /\ pending' = <<>> /\ writerFailed' = FALSE /\ counted' = Nothing
      /\ launched' = {} /\ Exit
  BY DEF End
<1>2. /\ state' = "down" /\ call' = "none" /\ committing' = {}
      /\ UNCHANGED <<completedDays, emptyDays>>
  BY <1>1 DEF Exit, diskVars
<1>3. RunTypes'
  <2>1. counted' \in [Counts -> SUBSET Days]
    BY <1>1 DEF Nothing
  <2>2. DOMAIN tasks' = {}
    BY <1>1 DEF EmptyMap
  <2>3. DaysIn(jobs') = {}
    BY <1>1 DEF DaysIn
  <2>4. jobs' \in Seq(Days) /\ queue' \in Seq(Carried) /\ pending' \in Seq(Result) /\ handing' \subseteq Carried
    BY <1>1
  <2>5. quota' \in Nat /\ launched' = {} /\ stop' = FALSE /\ interrupted' = FALSE /\ writerFailed' = FALSE
    BY <1>1
  <2>6. main' = "down" /\ joined' = "done" /\ disp' = "exited" /\ writer' = "exited"
    BY <1>1
  <2> QED BY <2>1, <2>2, <2>3, <2>4, <2>5, <2>6 DEF RunTypes
<1>4. OnePlace' /\ Tally'
  BY <1>1, NoPlaces
<1>5. Threads'
  BY <1>1, <1>2 DEF Threads, Ingesting, EmptyMap
<1>6. Tracked' /\ NoLoss'
  BY <1>1 DEF Tracked, NoLoss, Sound
<1>7. Kept'
  BY <1>1, <1>2 DEF RunInv, Kept, Sound, OneCommit, Completed
<1> QED BY <1>3, <1>4, <1>5, <1>6, <1>7 DEF RunInv

\* The jobs to fetch are planned days, each once, and none that is completed already unless it
\* is to be overwritten.
LEMMA Planned ==
  ASSUME NEW recheck
  PROVE  /\ ToFetch(recheck) \in Seq(Days) /\ DaysIn(ToFetch(recheck)) \subseteq DaysIn(JobList)
         /\ \A i, j \in DOMAIN ToFetch(recheck) : ToFetch(recheck)[i] = ToFetch(recheck)[j] => i = j
         /\ Overwrite \/ Completed \intersect DaysIn(ToFetch(recheck)) = {}
<1> DEFINE places == {i \in DOMAIN JobList : JobList[i] \notin DOMAIN completedDays
                                             /\ JobList[i] \notin emptyDays \ recheck}
           picked == Picked(JobList, places)
<1>1. JobList \in Seq(Days) /\ \A i, j \in DOMAIN JobList : JobList[i] = JobList[j] => i = j
  BY DownloadAssumption
<1>2. CASE Overwrite
  BY <1>1, <1>2 DEF ToFetch
<1>3. CASE ~Overwrite
  <2>1. ToFetch(recheck) = picked
    BY <1>3 DEF ToFetch
  <2>2. places \in SUBSET DOMAIN JobList /\ \A p \in places : JobList[p] \notin Completed
    BY DEF Completed
  <2> HIDE DEF places
  <2>3. /\ picked \in Seq(Days)
        /\ \A i \in DOMAIN picked : \E p \in places : picked[i] = JobList[p]
        /\ \A i, j \in DOMAIN picked : picked[i] = picked[j] => i = j
    BY <1>1, <2>2, PickedElements
  <2> HIDE DEF picked
  <2>4. DaysIn(picked) \subseteq DaysIn(JobList) /\ Completed \intersect DaysIn(picked) = {}
    BY <2>2, <2>3 DEF DaysIn
  <2> QED BY <2>1, <2>3, <2>4
<1> QED BY <1>2, <1>3

LEMMA StartKeeps == ASSUME RunInv, Inv, Start PROVE RunInv'
<1>1. /\ main = "down" /\ Open /\ main' = "run" /\ disp' = "prime" /\ writer' = "loop"
      /\ UNCHANGED <<joined, tasks, handing, quota, stop, interrupted, queue, pending, writerFailed,
                     counted, launched>>
  BY DEF Start
<1>2. PICK recheck : jobs' = ToFetch(recheck)
  BY DEF Start
<1>3. /\ state = "down" /\ state' = "open" /\ taken' = {} /\ troubled' = FALSE /\ outcome' = "none"
      /\ UNCHANGED <<completedDays, emptyDays, writers, call, steps, committing>>
  BY <1>1 DEF Open, lockVars
<1>4. call = "none" /\ steps = <<>> /\ committing = {} /\ DOMAIN writers = {}
  BY <1>3 DEF Inv, TypeOK, LockOK
<1>5. ToWrite' = {} /\ ToEmpty' = {} /\ ToMissing' = {} /\ Awaiting' = {} /\ Completed' = Completed /\ OneCommit'
  BY <1>3, <1>4, NoWork DEF ToWrite, ToEmpty, ToMissing, Awaiting, AwaitingDays, Completed, OneCommit
<1>6. /\ launched = {} /\ joined = "done" /\ ~stop /\ ~interrupted /\ ~writerFailed /\ writer = "exited"
      /\ disp = "exited" /\ handing = {}
  BY <1>1 DEF RunInv, Threads
<1>7. /\ DOMAIN tasks = {} /\ HandingDays = {} /\ QueueDays = {} /\ PendDays = {}
      /\ \A c \in Counts : counted[c] = {}
  BY <1>6 DEF RunInv, OnePlace, Tally
<1>8. /\ HandingDays' = HandingDays /\ QueueDays' = QueueDays /\ PendDays' = PendDays
      /\ ~Ingesting'
  BY <1>1 DEF HandingDays, QueueDays, PendDays, ResultDays, Ingesting
<1>9. /\ jobs' \in Seq(Days) /\ DaysIn(jobs') \subseteq DaysIn(JobList)
      /\ \A i, j \in DOMAIN jobs' : jobs'[i] = jobs'[j] => i = j
      /\ Overwrite \/ Completed \intersect DaysIn(jobs') = {}
  BY <1>2, Planned
<1>10. RunTypes'
  BY <1>1, <1>9 DEF RunInv, RunTypes
<1>11. HandingDays' = {} /\ QueueDays' = {} /\ PendDays' = {} /\ DOMAIN tasks' = {} /\ launched' = {}
  BY <1>1, <1>6, <1>7, <1>8
<1>12. OnePlace'
  <2>1. Distinct(queue)' /\ Distinct(pending)'
    BY <1>1 DEF RunInv, OnePlace, Distinct
  <2>2. handing' = {}
    BY <1>1, <1>6
  <2>3. \A i, j \in DOMAIN jobs' : jobs'[i] = jobs'[j] => i = j
    BY <1>9
  <2>4. DaysIn(jobs') \intersect launched' = {}
    BY <1>11
  <2> QED BY <1>11, <2>1, <2>2, <2>3, <2>4 DEF OnePlace
<1>13. Tally'
  <2>1. CountedOnce' /\ (\A e : Uncounted(e)' = Uncounted(e)) /\ \A e, res : Tallied(e, res)' = Tallied(e, res)
    BY <1>1 DEF RunInv, Tally, CountedOnce, Uncounted, Tallied
  <2> QED BY <1>1, <1>8, <2>1 DEF RunInv, Tally
<1>14. Threads'
  BY <1>1, <1>3, <1>4, <1>6, <1>7, <1>8 DEF Threads
<1>15. Tracked'
  <2>1. WorkDays' = {} /\ taken' = {}
    BY <1>3, <1>5 DEF WorkDays
  <2>2. Overwrite \/ Completed' \intersect DaysIn(jobs') = {}
    BY <1>5, <1>9
  <2>3. Overwrite \/ Completed' \intersect (DaysIn(jobs') \union (launched' \ taken')) = {}
    BY <1>11, <2>2
  <2> QED BY <1>11, <2>1, <2>3 DEF Tracked
<1>16. NoLoss'
  BY <1>1, <1>3, <1>6, <1>7 DEF NoLoss, Counts
<1>17. Kept'
  BY <1>1, <1>3, <1>5, <1>7, <1>8 DEF RunInv, Kept, Counts
<1> QED BY <1>10, <1>12, <1>13, <1>14, <1>15, <1>16, <1>17 DEF RunInv

\* A step under the lock is one of ingest_batch or of close().
LEMMA LockHeld ==
  ASSUME Inv, StoreStep
  PROVE  call \in {"ingest", "close"}
<1>1. steps # <<>> \/ committing # {}
  BY DEF StoreStep, AppendGroup, AppendFails, SplitGroup, RollForSchema, ClosePart, ClosePartFails,
         CommitPart, CommitFails, RecordEmpty, RecordMissing, RecordFails, FlushNext, SweepAndClose, At
<1> QED BY <1>1 DEF Inv, TypeOK, LockOK

LEMMA InStoreKeeps == ASSUME RunInv, Inv, InStore PROVE RunInv'
<1>1. StoreStep /\ UNCHANGED runVars
  BY DEF InStore
<1>2. /\ UNCHANGED placeVars
      /\ UNCHANGED <<main, joined, disp, quota, stop, interrupted, writer, writerFailed, jobs, tasks, launched, counted>>
  BY <1>1 DEF runVars, mainVars, loopVars, dispVars, writerVars, placeVars
<1>3. /\ HandingDays' = HandingDays /\ QueueDays' = QueueDays /\ PendDays' = PendDays /\ Ingesting' = Ingesting
      /\ \A kind : Pending(kind)' = Pending(kind)
  BY <1>2 DEF placeVars, HandingDays, QueueDays, PendDays, ResultDays, Pending, Ingesting
<1>4. Worked /\ OneCommit /\ call' = call /\ taken' = taken
  BY <1>1, StepWork DEF RunInv, Kept
<1>5. state' = state \/ (main = "closing" /\ state' = "closed")
  BY <1>1, CloseWork DEF RunInv, Threads
<1>6. main # "down" /\ (main = "closing" \/ Ingesting)
  BY <1>1, LockHeld DEF RunInv, Threads, Ingesting
<1>7. RunTypes'
  BY <1>1, <1>2 DEF RunInv, RunTypes, placeVars
<1>8. OnePlace' /\ Tally'
  BY <1>2, PlacesKept DEF RunInv
<1>9. Threads'
  BY <1>2, <1>3, <1>4, <1>5, <1>6 DEF RunInv, Threads, placeVars
<1>10. Tracked'
  <2>1. taken \intersect DaysIn(jobs) = {}
    BY <1>6 DEF RunInv, Tracked, OnePlace
  <2>2. WorkDays' \subseteq WorkDays /\ Completed' \subseteq Completed \union WorkDays
    BY <1>4 DEF Worked
  <2> QED BY <1>2, <1>3, <1>4, <1>6, <2>1, <2>2 DEF RunInv, Tracked
<1>11. NoLoss'
  <2>1. (troubled => troubled') /\ (outcome' = "raised" => troubled' \/ outcome = "raised")
    BY <1>4 DEF Worked
  <2> QED BY <1>2, <1>3, <2>1 DEF RunInv, NoLoss, Sound, placeVars
<1>12. Kept'
  <2>1. OneCommit' /\ Completed' \intersect emptyDays' = {}
    BY <1>4 DEF Worked, RunInv, Kept
  <2> SUFFICES ASSUME Sound' PROVE Kept'
    BY <2>1 DEF Kept
  <2>2. Sound /\ ~troubled' /\ CarriedOn
    BY <1>2, <1>4 DEF Worked, Sound
  <2>3. /\ Pending("rows") \subseteq PendDays /\ Pending("empty") \subseteq PendDays
        /\ Pending("missing") \subseteq PendDays
        /\ Pending("rows") \intersect Pending("empty") = {} /\ Pending("rows") \intersect Pending("missing") = {}
        /\ Pending("empty") \intersect Pending("missing") = {}
    BY PendingKinds
  <2>4. /\ PendDays \intersect counted["downloaded"] = {} /\ PendDays \intersect counted["missing"] = {}
        /\ counted["downloaded"] \intersect counted["missing"] = {}
    BY DEF RunInv, Tally, Uncounted, CountedOnce, Counts
  <2>5. /\ counted["downloaded"] \subseteq Completed' \union Awaiting'
        /\ counted["missing"] \subseteq emptyDays'
        /\ Awaiting' \subseteq counted["downloaded"] \union Pending("rows")
        /\ ToWrite' \subseteq Pending("rows") /\ ToEmpty' \subseteq Pending("empty")
        /\ ToMissing' \subseteq Pending("missing")
    BY <2>2, <2>3, <2>4 DEF RunInv, Kept, CarriedOn
  <2>6. ASSUME Ingesting
        PROVE  /\ Pending("rows") \subseteq ToWrite' \union Awaiting' \union Completed'
               /\ Pending("empty") \subseteq ToEmpty' \union Completed'
               /\ Pending("missing") \subseteq ToMissing' \union emptyDays'
    BY <2>2, <2>3, <2>4, <2>6 DEF RunInv, Kept, CarriedOn
  <2>7. /\ state' = "closed" => Drained'
        /\ main = "closing" => state' = "closed" \/ ToSweep'
        /\ main # "returned"
    <3>1. \/ main = "closing" /\ call = "close"
          \/ Ingesting /\ main \notin {"closing", "returned"} /\ state' # "closed"
      <4>1. CASE Ingesting
        <5>1. main \in {"run", "join"}
          BY <1>6, <2>2, <4>1 DEF RunInv, RunTypes, NoLoss, Ingesting
        <5> QED BY <1>5, <4>1, <5>1 DEF RunInv, Threads
      <4>2. CASE main = "closing"
        BY <4>2 DEF RunInv, Threads
      <4> QED BY <1>6, <4>1, <4>2
    <3>2. CASE main = "closing" /\ call = "close"
      BY <1>1, <2>2, <3>2, CloseWork DEF RunInv, Kept
    <3> QED BY <3>1, <3>2
  <2>8. counted["failed"] \intersect taken = {}
    BY <2>2 DEF RunInv, Kept
  <2> QED BY <1>2, <1>3, <1>4, <2>1, <2>5, <2>6, <2>7, <2>8 DEF Kept
<1> QED BY <1>7, <1>8, <1>9, <1>10, <1>11, <1>12 DEF RunInv
-----------------------------------------------------------------------------
(* The invariant is one                                                     *)

LEMMA DownloadInitInv == DownloadInit => Inv /\ RunInv
<1> SUFFICES ASSUME DownloadInit PROVE Inv /\ RunInv
  OBVIOUS
<1>1. Init /\ Inv
  BY InitInv DEF DownloadInit
<1>2. /\ main = "down" /\ joined = "done" /\ disp = "exited" /\ jobs = <<>> /\ tasks = EmptyMap
      /\ handing = {} /\ quota = 0 /\ stop = FALSE /\ interrupted = FALSE /\ queue = <<>>
      /\ writer = "exited" /\ pending = <<>> /\ writerFailed = FALSE /\ counted = Nothing /\ launched = {}
  BY DEF DownloadInit
<1>3. /\ HandingDays = {} /\ QueueDays = {} /\ PendDays = {} /\ DOMAIN tasks = {} /\ DaysIn(jobs) = {}
  BY <1>2 DEF HandingDays, QueueDays, PendDays, ResultDays, DaysIn, EmptyMap
<1>4. RunTypes
  <2>1. counted \in [Counts -> SUBSET Days]
    BY <1>2 DEF Nothing
  <2>2. jobs \in Seq(Days) /\ queue \in Seq(Carried) /\ pending \in Seq(Result) /\ handing \subseteq Carried
    BY <1>2
  <2>3. quota \in Nat /\ launched = {} /\ stop = FALSE /\ interrupted = FALSE /\ writerFailed = FALSE
    BY <1>2
  <2>4. main = "down" /\ joined = "done" /\ disp = "exited" /\ writer = "exited"
    BY <1>2
  <2> QED BY <1>3, <2>1, <2>2, <2>3, <2>4 DEF RunTypes
<1>5. OnePlace
  BY <1>2, <1>3 DEF OnePlace, Distinct
<1>6. Tally
  BY <1>2, <1>3 DEF Tally, CountedOnce, Nothing, Uncounted
<1>7. /\ state = "down" /\ call = "none" /\ completedDays = EmptyMap /\ committing = {}
  BY <1>1 DEF Init
<1>8. Threads
  BY <1>2, <1>3, <1>7 DEF Threads, Ingesting
<1>9. Tracked /\ NoLoss
  BY <1>2 DEF Tracked, NoLoss, Sound
<1>10. Kept
  BY <1>2, <1>7 DEF Kept, Sound, OneCommit, Completed, EmptyMap
<1> QED BY <1>1, <1>4, <1>5, <1>6, <1>8, <1>9, <1>10 DEF RunInv

\* Nothing changes.
LEMMA DownloadStutterKeeps == ASSUME RunInv, UNCHANGED vars PROVE RunInv'
<1>1. UNCHANGED storeVars /\ UNCHANGED runVars /\ UNCHANGED <<call, state, outcome, troubled>>
  BY DEF vars, storeVars, lockVars, historyVars
<1>2. UNCHANGED placeVars /\ UNCHANGED <<main, joined, disp, quota, stop, interrupted, writer, writerFailed>>
  BY <1>1 DEF runVars, mainVars, loopVars, dispVars, writerVars, placeVars
<1>3. CASE main = "down"
  <2>1. OnePlace' /\ Tally'
    BY <1>2, PlacesKept DEF RunInv
  <2>2. RunTypes' /\ Threads'
    BY <1>1, <1>2 DEF RunInv, RunTypes, Threads, Ingesting, placeVars
  <2>3. Tracked' /\ NoLoss' /\ Kept'
    BY <1>1, <1>2, <1>3, StoreFrame DEF RunInv, Tracked, NoLoss, Kept, Sound
  <2> QED BY <2>1, <2>2, <2>3 DEF RunInv
<1>4. CASE main # "down"
  <2>1. RunTypes' /\ Threads'
    BY <1>1, <1>2 DEF RunInv, RunTypes, Threads, Ingesting, placeVars
  <2>2. NoLoss'
    BY <1>1, <1>2 DEF RunInv, NoLoss, Sound, placeVars, HandingDays, QueueDays, PendDays, ResultDays
  <2> QED BY <1>1, <1>2, <1>4, <2>1, <2>2, MovesOn DEF Ingesting, Sound
<1> QED BY <1>3, <1>4

LEMMA DownloadStepKeeps == ASSUME Inv, RunInv, [DownloadNext]_vars PROVE RunInv'
<1>1. CASE Start           BY <1>1, StartKeeps
<1>2. CASE DispatcherDone  BY <1>2, DispatcherDoneKeeps
<1>3. CASE Join            BY <1>3, JoinKeeps
<1>4. CASE JoinGivenUp     BY <1>4, JoinGivenUpKeeps
<1>5. CASE MainCloses      BY <1>5, MainClosesKeeps
<1>6. CASE CloseReturns    BY <1>6, CloseReturnsKeeps
<1>7. CASE End             BY <1>7, EndKeeps
<1>8. CASE \E d \in Days : TaskStep(d)
                           BY <1>8, TaskKeeps
<1>9. CASE Prime           BY <1>9, PrimeKeeps
<1>10. CASE LoopHead       BY <1>10, LoopHeadKeeps
<1>11. CASE WaitReturns    BY <1>11, WaitReturnsKeeps
<1>12. CASE HandOffNext    BY <1>12, HandOffNextKeeps
<1>13. CASE HandedOff      BY <1>13, HandedOffKeeps
<1>14. CASE LaunchMore     BY <1>14, LaunchMoreKeeps
<1>15. CASE CancelAndDrain /\ ~InTask
                           BY <1>15, CancelAndDrainKeeps
<1>16. CASE Interrupt      BY <1>16, InterruptKeeps
<1>17. CASE WriterTakes    BY <1>17, WriterTakesKeeps
<1>18. CASE WriterIdles    BY <1>18, WriterIdlesKeeps
<1>19. CASE WriterLeaves   BY <1>19, WriterLeavesKeeps
<1>20. CASE WriterIngests  BY <1>20, WriterIngestsKeeps
<1>21. CASE IngestReturns  BY <1>21, IngestReturnsKeeps
<1>22. CASE IngestRaises   BY <1>22, IngestRaisesKeeps
<1>23. CASE WriterStopsRun BY <1>23, WriterStopsRunKeeps
<1>24. CASE InStore        BY <1>24, InStoreKeeps
<1>25. CASE UNCHANGED vars BY <1>25, DownloadStutterKeeps
<1> QED BY <1>1, <1>2, <1>3, <1>4, <1>5, <1>6, <1>7, <1>8, <1>9, <1>10, <1>11, <1>12, <1>13, <1>14,
           <1>15, <1>16, <1>17, <1>18, <1>19, <1>20, <1>21, <1>22, <1>23, <1>24, <1>25
        DEF DownloadNext, Main, Dispatcher, Writer

\* Only the writer gives the store a batch.
LEMMA UsesStoreElse ==
  ASSUME RunInv, [DownloadNext]_vars, ~WriterIngests
  PROVE  [OtherUse]_storeVars
<1>1. CASE Start
  BY <1>1 DEF OtherUse, Start
<1>2. CASE End
  BY <1>2 DEF OtherUse, End
<1>3. CASE MainCloses \/ CloseReturns
  BY <1>3 DEF OtherUse, MainCloses, CloseReturns
<1>4. CASE IngestReturns \/ IngestRaises
  BY <1>4 DEF OtherUse, IngestReturns, IngestRaises
<1>5. CASE InStore
  BY <1>5 DEF OtherUse, InStore
<1>6. CASE DispatcherDone \/ Join \/ JoinGivenUp \/ Interrupt
  BY <1>6 DEF OtherUse, DispatcherDone, Join, JoinGivenUp, Interrupt
<1>7. CASE \E d \in Days : TaskStep(d)
  BY <1>7 DEF OtherUse, TaskStep, BeginTask, RequestDay, FetchEnds, ParseEnds
<1>8. CASE Dispatcher
  BY <1>8 DEF OtherUse, Dispatcher, Prime, LoopHead, WaitReturns, HandOffNext, HandedOff, LaunchMore, CancelAndDrain
<1>9. CASE WriterTakes \/ WriterIdles \/ WriterLeaves \/ WriterStopsRun
  BY <1>9 DEF OtherUse, WriterTakes, WriterIdles, WriterLeaves, WriterStopsRun
<1>10. CASE UNCHANGED vars
  BY <1>10 DEF OtherUse, vars
<1> QED BY <1>1, <1>2, <1>3, <1>4, <1>5, <1>6, <1>7, <1>8, <1>9, <1>10 DEF DownloadNext, Main, Writer

\* Each step of the downloader uses the store as some caller may, or leaves it alone.
LEMMA UsesStore == ASSUME RunInv, [DownloadNext]_vars PROVE [Used]_storeVars
<1>1. CASE WriterIngests
  <2>1. BatchOf(pending) \in Batch
    BY BatchSorted DEF RunInv, RunTypes
  <2> QED BY <1>1, <2>1 DEF WriterIngests, Used
<1>2. CASE ~WriterIngests
  BY <1>2, UsesStoreElse DEF Used, OtherUse
<1> QED BY <1>1, <1>2

LEMMA RunInvariant == DownloadSpec => [](Inv /\ RunInv)
<1>1. DownloadInit => Inv /\ RunInv
  BY DownloadInitInv
<1>2. Inv /\ RunInv /\ [DownloadNext]_vars => (Inv /\ RunInv)'
  BY DownloadStepKeeps, UsesStore, UsedInv
<1> QED BY <1>1, <1>2, PTL DEF DownloadSpec
-----------------------------------------------------------------------------
(* Theorems                                                                 *)

\* The summary of a run that nothing disturbed is what the manifest says of its days, and no
\* day is in two numbers of any summary: _run_jobs loses and doubles no result on the way from
\* the tasks over the queue and the pending list into the store.
THEOREM SummaryTrue == DownloadSpec => []SummaryAgrees
<1>1. ASSUME RunInv PROVE SummaryAgrees
  <2>1. CountedOnce
    BY <1>1 DEF RunInv, Tally
  <2> SUFFICES ASSUME main = "returned", joined = "done", ~interrupted, ~troubled
               PROVE  LET answered == launched \ counted["failed"]
                      IN  /\ answered = counted["downloaded"] \union counted["missing"]
                          /\ counted["downloaded"] = answered \intersect DOMAIN completedDays
                          /\ counted["missing"] = answered \intersect emptyDays
                          /\ Overwrite \/ counted["failed"] \intersect DOMAIN completedDays = {}
                          /\ counted["cancelled"] = {} /\ jobs = <<>>
    BY <2>1 DEF SummaryAgrees
  <2>2. Sound /\ disp = "exited" /\ writer = "exited" /\ queue = <<>> /\ pending = <<>> /\ jobs = <<>>
    BY <1>1 DEF RunInv, Threads, NoLoss, Sound
  <2>3. DOMAIN tasks = {} /\ HandingDays = {} /\ QueueDays = {} /\ PendDays = {}
    BY <1>1, <2>2 DEF RunInv, Threads, HandingDays, QueueDays, PendDays, ResultDays
  <2>4. /\ launched \subseteq counted["downloaded"] \union counted["missing"] \union counted["failed"]
        /\ counted["downloaded"] \subseteq launched /\ counted["missing"] \subseteq launched
        /\ counted["cancelled"] = {}
    BY <1>1, <2>2, <2>3 DEF RunInv, NoLoss, Tally, Counts
  <2>5. /\ counted["downloaded"] \intersect counted["missing"] = {}
        /\ counted["downloaded"] \intersect counted["failed"] = {}
        /\ counted["missing"] \intersect counted["failed"] = {}
    BY <2>1 DEF CountedOnce, Counts
  <2>6. Drained
    BY <1>1, <2>2 DEF RunInv, Kept
  <2>7. Awaiting = {}
    BY <2>6 DEF Drained, Awaiting, AwaitingDays
  <2>8. /\ counted["downloaded"] \subseteq Completed /\ counted["missing"] \subseteq emptyDays
        /\ Completed \intersect emptyDays = {}
    BY <1>1, <2>2, <2>7 DEF RunInv, Kept
  <2>9. Overwrite \/ counted["failed"] \intersect Completed = {}
    BY <1>1, <2>2 DEF RunInv, Kept, Tracked, Tally, Counts
  <2> QED BY <2>2, <2>4, <2>5, <2>8, <2>9 DEF Completed
<1> QED BY <1>1, RunInvariant, PTL

\* The writer gives the store only what TelonexStore allows: days it was not given before, none
\* that is completed unless it overwrites, and nothing after the close unless a join was given up.
THEOREM UsedAsAllowed == DownloadSpec => StoreUsedAsAllowed
<1>1. ASSUME RunInv, [DownloadNext]_vars, call = "none", call' = "ingest"
      PROVE  Allowed(batch')
  <2>1. [Used]_storeVars
    BY <1>1, UsesStore
  <2>2. CASE WriterIngests
    <3>1. batch' = PendDays /\ writer \in {"flush", "last_flush"}
      BY <2>2, IngestWork, <1>1 DEF WriterIngests, BeginIngest, RunInv, RunTypes, PendDays, ResultDays
    <3>2. main # "down" /\ ~Ingesting
      BY <1>1, <3>1, Running DEF Ingesting
    <3>3. PendDays \intersect taken = {} /\ (Overwrite \/ PendDays \intersect Completed = {})
      BY <1>1, <3>2 DEF RunInv, Tracked, OnePlace
    <3>4. state = "closed" => "late" \in Faults
      BY <1>1, <3>1, <3>2 DEF RunInv, RunTypes, Threads
    <3> QED BY <3>1, <3>3, <3>4 DEF Allowed, Completed
  <2>3. CASE ~WriterIngests
    <3>1. call' = call \/ call' # "ingest"
      <4>1. CASE Start \/ MainCloses
        BY <4>1 DEF Start, Open, lockVars, MainCloses, BeginClose
      <4>2. CASE End \/ CloseReturns \/ IngestReturns \/ IngestRaises
        BY <4>2 DEF End, Exit, CloseReturns, IngestReturns, IngestRaises, Return
      <4>3. CASE InStore
        BY <4>3, <1>1, StepWork DEF InStore, RunInv, Kept, StoreStep, AppendGroup, AppendFails, SplitGroup, RollForSchema, ClosePart,
             ClosePartFails, CommitPart, CommitFails, RecordEmpty, RecordMissing, RecordFails, FlushNext,
             SweepAndClose
      <4>4. CASE UNCHANGED storeVars
        BY <4>4 DEF storeVars, lockVars
      <4>5. CASE DispatcherDone \/ Join \/ JoinGivenUp \/ Interrupt
        BY <4>4, <4>5 DEF DispatcherDone, Join, JoinGivenUp, Interrupt
      <4>6. CASE \E d \in Days : TaskStep(d)
        BY <4>4, <4>6 DEF TaskStep, BeginTask, RequestDay, FetchEnds, ParseEnds
      <4>7. CASE Dispatcher
        BY <4>4, <4>7 DEF Dispatcher, Prime, LoopHead, WaitReturns, HandOffNext, HandedOff, LaunchMore,
                          CancelAndDrain
      <4>8. CASE WriterTakes \/ WriterIdles \/ WriterLeaves \/ WriterStopsRun
        BY <4>4, <4>8 DEF WriterTakes, WriterIdles, WriterLeaves, WriterStopsRun
      <4> QED BY <1>1, <2>3, <4>1, <4>2, <4>3, <4>4, <4>5, <4>6, <4>7, <4>8 DEF DownloadNext, Main, Writer, vars
    <3> QED BY <1>1, <3>1
  <2> QED BY <2>2, <2>3
<1>2. ASSUME RunInv, [DownloadNext]_vars
      PROVE  [call = "none" /\ call' = "ingest" => Allowed(batch')]_vars
  BY <1>1, <1>2
<1> QED BY <1>2, RunInvariant, PTL DEF DownloadSpec, StoreUsedAsAllowed

\* The event loop is inside one task at a time, and after a first request that came too late it is
\* inside none until the run ends.
StopInv ==
  /\ \A d, e \in DOMAIN tasks : tasks[d] = "checked" /\ tasks[e] = "checked" => d = e
  /\ main = "down" => late = {}
  /\ late # {} => stop /\ ~InTask /\ \E d : late = {d}

\* A task's step: only one that saw no stop request is then about to send its request.
LEMMA StopTask ==
  ASSUME RunInv, StopInv, NEW d \in Days, TaskStep(d)
  PROVE  StopInv'
<1>1. main' = main /\ stop' = stop
  BY DEF TaskStep, RequestDay, BeginTask, FetchEnds, ParseEnds, mainVars
<1>2. CASE RequestDay(d)
  <2>1. /\ d \in DOMAIN tasks /\ tasks[d] = "checked" /\ SetTask(d, "fetching")
        /\ late' = IF stop THEN late \union {d} ELSE late
    BY <1>2 DEF RequestDay
  <2>2. late = {}
    BY <2>1 DEF StopInv, InTask
  <2>3. ~InTask'
    BY <2>1 DEF StopInv, InTask, SetTask
  <2>4. main # "down"
    BY Running DEF TaskStep
  <2> QED BY <1>1, <2>1, <2>2, <2>3, <2>4 DEF StopInv, InTask
<1>3. CASE ~InTask /\ (BeginTask(d) \/ FetchEnds(d) \/ ParseEnds(d))
  <2>1. PICK s : SetTask(d, s) /\ (s = "checked" => ~stop) /\ d \in DOMAIN tasks
    <3>1. CASE BeginTask(d)
      BY <3>1 DEF BeginTask
    <3>2. CASE FetchEnds(d)
      <4>1. Answers[d] \subseteq AnswerKinds
        BY DownloadAssumption
      <4> QED BY <3>2, <4>1 DEF FetchEnds, FetchOutcomes, AnswerKinds
    <3>3. CASE ParseEnds(d)
      BY <3>3 DEF ParseEnds
    <3> QED BY <1>3, <3>1, <3>2, <3>3
  <2>2. late' = late
    BY <1>3 DEF BeginTask, FetchEnds, ParseEnds
  <2> QED BY <1>1, <1>3, <2>1, <2>2 DEF StopInv, InTask, SetTask
<1> QED BY <1>2, <1>3 DEF TaskStep

\* A step of the dispatcher: no task of it is about to send a request.
LEMMA StopDispatcher ==
  ASSUME RunInv, StopInv, Dispatcher
  PROVE  StopInv'
<1>1. ~InTask /\ late' = late /\ stop' = stop /\ main' = main
  BY DEF Dispatcher, Prime, LoopHead, WaitReturns, HandOffNext, HandedOff, LaunchMore, CancelAndDrain, mainVars
<1>2. ~InTask'
  <2>1. CASE Prime \/ LaunchMore
    <3>1. PICK n \in Nat : Launch(n)
      BY <2>1, DownloadAssumption DEF Prime, LaunchMore, RunInv, RunTypes
    <3>2. PICK J : Launched(n, J)
      BY <3>1, LaunchWork
    <3> QED BY <1>1, <3>2 DEF Launched, InTask
  <2>2. CASE WaitReturns \/ CancelAndDrain
    BY <1>1, <2>2 DEF WaitReturns, CancelAndDrain, Restrict, EmptyMap, InTask
  <2>3. CASE LoopHead \/ HandOffNext \/ HandedOff
    BY <1>1, <2>3 DEF LoopHead, HandOffNext, HandedOff, InTask
  <2> QED BY <2>1, <2>2, <2>3 DEF Dispatcher
<1> QED BY <1>1, <1>2 DEF StopInv, InTask

LEMMA StopStep == ASSUME RunInv, StopInv, [DownloadNext]_vars PROVE StopInv'
<1>1. CASE \E d \in Days : TaskStep(d)  BY <1>1, StopTask
<1>2. CASE Dispatcher                    BY <1>2, StopDispatcher
<1>3. CASE End
  BY <1>3 DEF End, EmptyMap, StopInv, InTask
<1>4. CASE Start
  BY <1>4 DEF Start, StopInv, InTask
<1>5. CASE Main \/ Interrupt \/ Writer \/ InStore
  <2>1. UNCHANGED <<tasks, late>> /\ (stop => stop')
    BY <1>5 DEF Main, DispatcherDone, Join, JoinGivenUp, MainCloses, CloseReturns, Interrupt,
                Writer, WriterTakes, WriterIdles, WriterLeaves, WriterIngests, IngestReturns,
                IngestRaises, WriterStopsRun, InStore, runVars, loopVars
  <2>2. main' = "down" => main = "down"
    BY <1>5 DEF Main, DispatcherDone, Join, JoinGivenUp, MainCloses, CloseReturns, Interrupt,
                Writer, WriterTakes, WriterIdles, WriterLeaves, WriterIngests, IngestReturns,
                IngestRaises, WriterStopsRun, InStore, runVars, mainVars
  <2> QED BY <2>1, <2>2 DEF StopInv, InTask
<1>6. CASE UNCHANGED vars
  BY <1>6 DEF vars, runVars, mainVars, loopVars, StopInv, InTask
<1> QED BY <1>1, <1>2, <1>3, <1>4, <1>5, <1>6 DEF DownloadNext

\* Once the run is to stop at most one download begins, whichever thread asked for the stop and when:
\* the one the event loop is in the middle of beginning.
THEOREM StopHolds == DownloadSpec => []OneFetchAfterStop
<1>1. DownloadInit => StopInv
  BY DEF DownloadInit, EmptyMap, StopInv, InTask
<1>2. StopInv => OneFetchAfterStop
  <2>1. ASSUME NEW d, late = {d} PROVE Cardinality(late) = 1
    BY <2>1, FS_Singleton
  <2>2. late = {} => Cardinality(late) = 0
    BY FS_EmptySet
  <2> QED BY <2>1, <2>2 DEF StopInv, OneFetchAfterStop
<1> QED BY <1>1, <1>2, StopStep, RunInvariant, PTL DEF DownloadSpec

\* Under the downloader too the manifest never promises a day that a reader cannot find.
THEOREM RunBacked == DownloadSpec => []ManifestBacked
<1>1. Inv => ManifestBacked
  BY DEF Inv, PartsInv
<1> QED BY <1>1, RunInvariant, PTL

\* Nor does a reader of the closed store find a day of the run twice, or miss a stored one,
\* provided that the run does not overwrite and that its joins were not given up.
THEOREM RunPartsAgree ==
  ASSUME ~Overwrite, "late" \notin Faults
  PROVE  DownloadSpec => []PartsAgreeWithManifest
<1>1. ASSUME RunInv, [DownloadNext]_vars PROVE [UsedOnce]_storeVars /\ [UsedOpen]_storeVars
  <2>1. CASE WriterIngests
    <3>1. /\ pending \in Seq(Result) /\ Distinct(pending) /\ BeginIngest(BatchOf(pending))
          /\ writer \in {"flush", "last_flush"}
      BY <1>1, <2>1 DEF WriterIngests, RunInv, RunTypes, OnePlace
    <3>2. BatchOf(pending) \in Batch /\ BatchOnce(BatchOf(pending))
      BY <3>1, BatchSorted, ResultsOnce DEF Distinct
    <3>3. DaysOf(BatchOf(pending)) = PendDays
      BY <3>1, IngestWork DEF PendDays, ResultDays
    <3>4. main # "down" /\ ~Ingesting
      BY <1>1, <2>1, <3>1, Running DEF Ingesting, BeginIngest
    <3>5. PendDays \intersect (taken \union DOMAIN completedDays) = {}
      BY <1>1, <3>4 DEF RunInv, Tracked, OnePlace, Completed
    <3>6. state # "closed"
      BY <1>1, <3>1, <3>4 DEF RunInv, RunTypes, Threads
    <3> QED BY <3>1, <3>2, <3>3, <3>5, <3>6 DEF UsedOnce, UsedOpen
  <2>2. CASE ~WriterIngests
    <3>1. [OtherUse]_storeVars
      BY <1>1, <2>2, UsesStoreElse
    <3> QED BY <3>1 DEF UsedOnce, UsedOpen
  <2> QED BY <2>1, <2>2
<1>2. Inv /\ RunInv /\ AgreeInv /\ ClosedDone /\ [DownloadNext]_vars => (AgreeInv /\ ClosedDone)'
  BY <1>1, UsedOnceAgrees, ClosedKeeps
<1>3. DownloadInit => AgreeInv /\ ClosedDone
  BY InitAgrees DEF DownloadInit
<1> QED BY <1>2, <1>3, RunInvariant, AgreeCopies, PTL DEF DownloadSpec

\* The downloader implements the day ledger: whatever its threads do, and however a run is stopped,
\* groups of days are recorded as a whole or lost as a whole, and what is recorded stays so.
THEOREM RunRefines == DownloadSpec => LedgerSpec
<1>1. DownloadInit => GroupsInv /\ Ledger!Init
  BY InitGroups DEF DownloadInit
<1>2. ASSUME Inv, Inv', RunInv, GroupsInv, [DownloadNext]_vars
      PROVE  GroupsInv' /\ [Ledger!Next]_(Ledger!vars)
  BY <1>2, UsesStore, StepRefines
<1> QED BY <1>1, <1>2, RunInvariant, PTL DEF DownloadSpec, LedgerSpec, Ledger!Spec

-----------------------------------------------------------------------------
(* The data source                                                          *)

Kinds == {"none", "ok", "bad"}

\* The types of what the loader reads and counts.
LoaderTypes ==
  /\ daily \in [Days -> Kinds] /\ range \in Kinds
  /\ apiCache \in [Days -> Kinds]
  /\ at \in Places /\ payload \in Kinds
  /\ failed \subseteq Days
  /\ downloads \in [Days -> Nat] /\ excuses \in [Days -> Nat]

\* Where the loader is: on a day of the window and, after the caches, on a source; and which
\* source the place belongs to.
LocalPlaces == {"scan", "query", "daily", "range"}
ApiPlaces == {"again", "fetch", "write", "parse"}
Position ==
  /\ at # "idle" => nth \in DOMAIN Wanted
  /\ at = "cache" => asking = 0
  /\ at \notin {"idle", "cache"} => asking \in DOMAIN Entries
  /\ at \in LocalPlaces => Entries[asking] = "local"
  /\ at \in ApiPlaces => Entries[asking] = "api"

-----------------------------------------------------------------------------
(* A payload is paid for once                                               *)

\* A payload just downloaded is in memory, and the cache of its day is empty until it is
\* written there; what was written is that payload.
InHand ==
  /\ at \in {"fetch", "write"} => apiCache[Day] = "none"
  /\ at \in {"write", "parse"} <=> payload # "none"
  /\ at = "parse" => apiCache[Day] \in {"none", payload}

\* The day has a payload that is kept, or may still be: in the cache and readable, in memory
\* and not written, or written and not read yet.
PayloadKept(d) ==
  \/ apiCache[d] = "ok"
  \/ at = "write" /\ d = Day
  \/ at = "parse" /\ d = Day /\ apiCache[d] = "bad"

Accounted == \A d \in Days : downloads[d] <= excuses[d] + (IF PayloadKept(d) THEN 1 ELSE 0)

PaidInv == LoaderTypes /\ Position /\ InHand /\ Accounted

\* The day being loaded is one of the window.
LEMMA OnDay ==
  ASSUME nth \in DOMAIN Wanted
  PROVE  Day \in Days
BY LoadAssumption DEF Day

\* Where a finished day, or a source that has no frame, leads.
LEMMA TakeMoves ==
  ASSUME NEW from, NEW copies, nth \in DOMAIN Wanted, Take(from, copies)
  PROVE  Position' /\ at' \in {"cache", "idle"}
BY LoadAssumption DEF Take, NextDay, Position, LocalPlaces, ApiPlaces

LEMMA NextEntryMoves ==
  ASSUME nth \in DOMAIN Wanted, asking = 0 \/ asking \in DOMAIN Entries, NextEntry
  PROVE  Position' /\ at' \in {"entry", "cache", "idle"}
<1>1. CASE asking < Len(Entries)
  <2>1. at' = "entry" /\ asking' = asking + 1 /\ nth' = nth
    BY <1>1 DEF NextEntry
  <2>2. asking + 1 \in DOMAIN Entries
    BY <1>1, LoadAssumption
  <2> QED BY <2>1, <2>2 DEF Position, LocalPlaces, ApiPlaces
<1>2. CASE ~(asking < Len(Entries))
  BY <1>2, TakeMoves DEF NextEntry
<1> QED BY <1>1, <1>2

\* A step that pays for nothing, gives nothing up and keeps what is kept.
LEMMA AccountedKept ==
  ASSUME PaidInv, UNCHANGED <<downloads, excuses>>, \A d \in Days : PayloadKept(d) => PayloadKept(d)'
  PROVE  Accounted'
<1>1. \A d \in Days : downloads[d] \in Nat /\ excuses[d] \in Nat
  BY DEF PaidInv, LoaderTypes
<1> QED BY <1>1 DEF PaidInv, Accounted

\* The steps that leave the payload, the caches and the counts alone.
LEMMA PaidQuiet ==
  ASSUME PaidInv, UNCHANGED <<daily, range, apiCache, payload, failed, downloads, excuses>>,
         Position', at \notin {"fetch", "write", "parse"},
         at' \in Places \ {"fetch", "write", "parse"}
  PROVE  PaidInv'
<1>1. LoaderTypes'
  BY DEF PaidInv, LoaderTypes
<1>2. InHand'
  BY DEF PaidInv, InHand
<1>3. \A d \in Days : PayloadKept(d) => PayloadKept(d)'
  BY DEF PayloadKept
<1> QED BY <1>1, <1>2, <1>3, AccountedKept DEF PaidInv

\* Looking a day up in the API cache loses no payload that is kept.
LEMMA PaidReadCached ==
  ASSUME PaidInv, at \in {"cache", "again"}, UNCHANGED <<daily, range, payload, failed, downloads, excuses>>,
         Position',
         \/ apiCache[Day] = "ok" /\ UNCHANGED apiCache /\ at' \in Places \ {"fetch", "write", "parse"}
         \/ /\ apiCache[Day] # "ok" /\ apiCache' = [apiCache EXCEPT ![Day] = "none"]
            /\ at' \in Places \ {"write", "parse"} /\ (at' = "fetch" => nth' = nth)
  PROVE  PaidInv'
<1>0. Day \in Days /\ apiCache \in [Days -> Kinds]
  BY OnDay DEF PaidInv, Position, LoaderTypes
<1>1. LoaderTypes'
  BY <1>0 DEF PaidInv, LoaderTypes, Kinds
<1>2. InHand'
  BY <1>0 DEF PaidInv, InHand, Day
<1>3. \A d \in Days : PayloadKept(d) => PayloadKept(d)'
  BY <1>0 DEF PayloadKept
<1> QED BY <1>1, <1>2, <1>3, AccountedKept DEF PaidInv

LEMMA PaidFetch ==
  ASSUME PaidInv, Fetch
  PROVE  PaidInv'
<1>0. /\ at = "fetch" /\ nth \in DOMAIN Wanted /\ asking \in DOMAIN Entries /\ Entries[asking] = "api"
      /\ Day \in Days /\ apiCache[Day] = "none" /\ payload = "none"
  BY OnDay DEF PaidInv, Position, InHand, Fetch, ApiPlaces
<1>1. CASE /\ payload' \in {"ok"} \union {"bad" : f \in LoadFaults \intersect {"payload"}}
           /\ downloads' = [downloads EXCEPT ![Day] = @ + 1]
           /\ Go("write") /\ UNCHANGED failed
  <2>0. /\ at' = "write" /\ nth' = nth /\ asking' = asking /\ payload' \in {"ok", "bad"}
        /\ UNCHANGED <<daily, range, apiCache, excuses>>
    BY <1>1 DEF Go, Fetch, sourceVars
  <2>1. LoaderTypes'
    BY <1>0, <1>1, <2>0 DEF PaidInv, LoaderTypes, Kinds, Places
  <2>2. Position' /\ InHand'
    BY <1>0, <2>0 DEF Position, InHand, Day, LocalPlaces, ApiPlaces
  <2>3. ASSUME NEW d \in Days
        PROVE  downloads'[d] <= excuses'[d] + (IF PayloadKept(d)' THEN 1 ELSE 0)
    <3>0. downloads[d] \in Nat /\ excuses[d] \in Nat /\ Day' = Day
      BY <2>0 DEF PaidInv, LoaderTypes, Day
    <3>1. CASE d = Day
      <4>1. ~PayloadKept(d) /\ PayloadKept(d)'
        BY <1>0, <2>0, <3>0, <3>1 DEF PayloadKept
      <4>2. downloads'[d] = downloads[d] + 1
        BY <1>0, <1>1, <3>1 DEF PaidInv, LoaderTypes
      <4> QED BY <2>0, <3>0, <4>1, <4>2 DEF PaidInv, Accounted
    <3>2. CASE d # Day
      <4>1. PayloadKept(d) => PayloadKept(d)'
        BY <1>0, <2>0, <3>2 DEF PayloadKept
      <4>2. downloads'[d] = downloads[d]
        BY <1>0, <1>1, <3>2 DEF PaidInv, LoaderTypes
      <4> QED BY <2>0, <3>0, <4>1, <4>2 DEF PaidInv, Accounted
    <3> QED BY <3>1, <3>2
  <2> QED BY <2>1, <2>2, <2>3 DEF PaidInv, Accounted
<1>2. CASE NextEntry /\ UNCHANGED <<payload, downloads>> /\ failed' \subseteq Days
  <2>0. UNCHANGED <<daily, range, apiCache, excuses>>
    BY DEF Fetch, sourceVars
  <2>1. Position' /\ at' \in {"entry", "cache", "idle"}
    BY <1>0, <1>2, NextEntryMoves
  <2>2. LoaderTypes' /\ InHand'
    BY <1>0, <1>2, <2>0, <2>1 DEF PaidInv, LoaderTypes, InHand, Places
  <2>3. \A d \in Days : PayloadKept(d) => PayloadKept(d)'
    BY <1>0, <2>0 DEF PayloadKept
  <2> QED BY <1>2, <2>0, <2>1, <2>2, <2>3, AccountedKept DEF PaidInv
<1>3. failed \subseteq Days
  BY DEF PaidInv, LoaderTypes
<1> QED BY <1>0, <1>1, <1>2, <1>3 DEF Fetch

LEMMA PaidWriteCache ==
  ASSUME PaidInv, WriteCache
  PROVE  PaidInv'
<1>0. /\ at = "write" /\ nth \in DOMAIN Wanted /\ asking \in DOMAIN Entries /\ Entries[asking] = "api"
      /\ Day \in Days /\ apiCache[Day] = "none" /\ payload \in {"ok", "bad"}
      /\ apiCache \in [Days -> Kinds] /\ excuses \in [Days -> Nat] /\ downloads \in [Days -> Nat]
  BY OnDay DEF PaidInv, Position, InHand, WriteCache, LoaderTypes, ApiPlaces, Kinds
<1>1. /\ at' = "parse" /\ nth' = nth /\ asking' = asking /\ Day' = Day
      /\ UNCHANGED <<daily, range, payload, failed, downloads>>
  BY DEF WriteCache, Go, Day
<1>2. \/ apiCache' = [apiCache EXCEPT ![Day] = payload] /\ UNCHANGED excuses
      \/ excuses' = [excuses EXCEPT ![Day] = @ + 1] /\ UNCHANGED apiCache
  BY DEF WriteCache
<1>3. LoaderTypes'
  BY <1>0, <1>1, <1>2 DEF PaidInv, LoaderTypes, Kinds, Places
<1>4. Position' /\ InHand'
  BY <1>0, <1>1, <1>2 DEF PaidInv, Position, InHand, LocalPlaces, ApiPlaces
<1>5. ASSUME NEW d \in Days
      PROVE  downloads'[d] <= excuses'[d] + (IF PayloadKept(d)' THEN 1 ELSE 0)
  <2>0. downloads[d] \in Nat /\ excuses[d] \in Nat
    BY <1>0
  <2>1. downloads[d] <= excuses[d] + (IF PayloadKept(d) THEN 1 ELSE 0)
    BY DEF PaidInv, Accounted
  <2>2. CASE d = Day
    <3>1. \/ PayloadKept(d)' /\ excuses'[d] = excuses[d]
          \/ excuses'[d] = excuses[d] + 1
      BY <1>0, <1>1, <1>2, <2>2 DEF PayloadKept
    <3> QED BY <1>1, <2>0, <2>1, <3>1
  <2>3. CASE d # Day
    <3>1. (PayloadKept(d) => PayloadKept(d)') /\ excuses'[d] = excuses[d]
      BY <1>0, <1>1, <1>2, <2>3 DEF PayloadKept
    <3> QED BY <1>1, <2>0, <2>1, <3>1
  <2> QED BY <2>2, <2>3
<1> QED BY <1>3, <1>4, <1>5 DEF PaidInv, Accounted

\* A payload that is given up, by a reader that finds it damaged or by a kill, is excused.
LEMMA AccountedExcused ==
  ASSUME PaidInv, nth \in DOMAIN Wanted, UNCHANGED <<apiCache, downloads>>,
         at' \notin {"write", "parse"},
         excuses' = IF at = "write" \/ (at = "parse" /\ apiCache[Day] = "bad")
                      THEN [excuses EXCEPT ![Day] = @ + 1] ELSE excuses
  PROVE  Accounted' /\ excuses' \in [Days -> Nat]
<1>0. Day \in Days /\ excuses \in [Days -> Nat] /\ downloads \in [Days -> Nat]
  BY OnDay DEF PaidInv, LoaderTypes
<1>1. ASSUME NEW d \in Days
      PROVE  downloads'[d] <= excuses'[d] + (IF PayloadKept(d)' THEN 1 ELSE 0)
  <2>0. downloads[d] \in Nat /\ excuses[d] \in Nat
    BY <1>0
  <2>1. downloads[d] <= excuses[d] + (IF PayloadKept(d) THEN 1 ELSE 0)
    BY DEF PaidInv, Accounted
  <2>2. \/ (PayloadKept(d) => PayloadKept(d)') /\ excuses'[d] \in {excuses[d], excuses[d] + 1}
        \/ excuses'[d] = excuses[d] + 1
    BY <1>0 DEF PayloadKept
  <2> QED BY <2>0, <2>1, <2>2
<1> QED BY <1>0, <1>1 DEF Accounted

LEMMA PaidParse ==
  ASSUME PaidInv, Parse
  PROVE  PaidInv'
<1>0. /\ at = "parse" /\ nth \in DOMAIN Wanted /\ asking \in DOMAIN Entries /\ Day \in Days
      /\ apiCache[Day] \in {"none", payload} /\ payload' = "none"
      /\ UNCHANGED <<daily, range, apiCache, downloads>>
  BY OnDay DEF PaidInv, Position, InHand, Parse, sourceVars
<1>1. Position' /\ at' \in {"entry", "cache", "idle"}
  BY <1>0, TakeMoves, NextEntryMoves DEF Parse
<1>2. failed' \subseteq Days
  BY <1>0 DEF Parse, PaidInv, LoaderTypes
<1>3. Accounted' /\ excuses' \in [Days -> Nat]
  BY <1>0, <1>1, AccountedExcused DEF Parse
<1>4. LoaderTypes' /\ InHand'
  BY <1>0, <1>1, <1>2, <1>3 DEF PaidInv, LoaderTypes, InHand, Kinds, Places
<1> QED BY <1>1, <1>3, <1>4 DEF PaidInv

LEMMA PaidKill ==
  ASSUME PaidInv, Kill
  PROVE  PaidInv'
<1>0. /\ nth \in DOMAIN Wanted /\ at' = "idle" /\ payload' = "none"
      /\ UNCHANGED <<daily, range, apiCache, failed, downloads>>
  BY DEF PaidInv, Position, Kill, sourceVars
<1>1. Accounted' /\ excuses' \in [Days -> Nat]
  BY <1>0, AccountedExcused DEF Kill
<1>2. LoaderTypes' /\ InHand' /\ Position'
  BY <1>0, <1>1 DEF PaidInv, LoaderTypes, InHand, Position, Kinds, Places, LocalPlaces, ApiPlaces
<1> QED BY <1>1, <1>2 DEF PaidInv

LEMMA PaidStep == PaidInv /\ [Both]_<<storeVars, loadVars>> => PaidInv'
<1> SUFFICES ASSUME PaidInv, [Both]_<<storeVars, loadVars>> PROVE PaidInv'
  OBVIOUS
<1> USE DEF sourceVars, countVars
<1>1. CASE UNCHANGED loadVars
  BY <1>1 DEF PaidInv, LoaderTypes, Position, InHand, Accounted, PayloadKept, Day, loadVars, walkVars
<1>2. ASSUME at \in Places \ {"idle"}
      PROVE  nth \in DOMAIN Wanted /\ (asking = 0 \/ asking \in DOMAIN Entries)
  BY <1>2 DEF PaidInv, Position
<1>3. CASE BeginLoad
  <2>1. 1 \in DOMAIN Wanted
    BY <1>3, LoadAssumption DEF BeginLoad
  <2>2. Position' /\ at = "idle" /\ at' = "cache" /\ payload' = "none" /\ failed' = {}
        /\ UNCHANGED <<daily, range, apiCache, downloads, excuses>>
    BY <1>3, <2>1 DEF BeginLoad, Position, LocalPlaces, ApiPlaces
  <2>3. LoaderTypes' /\ InHand'
    BY <2>2 DEF PaidInv, LoaderTypes, InHand, Kinds, Places
  <2>4. \A d \in Days : PayloadKept(d) => PayloadKept(d)'
    BY <2>2 DEF PayloadKept
  <2> QED BY <2>2, <2>3, <2>4, AccountedKept DEF PaidInv
<1>4. CASE CacheFirst
  <2>0. at = "cache" /\ nth \in DOMAIN Wanted /\ asking = 0
        /\ UNCHANGED <<daily, range, payload, failed, downloads, excuses>>
    BY <1>2, <1>4 DEF CacheFirst, Places, PaidInv, Position
  <2>1. CASE ReadCached(Take("cache", 1), NextEntry)
    BY <2>0, <2>1, TakeMoves, NextEntryMoves, PaidReadCached DEF ReadCached, Places
  <2>2. CASE NextEntry /\ UNCHANGED apiCache
    BY <2>0, <2>2, NextEntryMoves, PaidQuiet DEF Places
  <2> QED BY <1>4, <2>1, <2>2 DEF CacheFirst
<1>5. CASE AskEntry
  <2>1. at = "entry" /\ nth' = nth /\ asking' = asking /\ asking \in DOMAIN Entries /\ nth \in DOMAIN Wanted
        /\ at' \in (IF Entries[asking] = "local" THEN {"scan", "query"} ELSE {"again"})
    BY <1>5 DEF AskEntry, Go, PaidInv, Position
  <2>2. Entries[asking] \in {"local", "api"}
    BY <2>1, LoadAssumption
  <2>3. Position'
    BY <2>1, <2>2 DEF Position, LocalPlaces, ApiPlaces
  <2> QED BY <1>5, <2>1, <2>3, PaidQuiet DEF AskEntry, Places
<1>6. CASE ScanParts
  <2>1. Position' /\ at = "scan" /\ at' = "query"
    BY <1>6 DEF ScanParts, Go, PaidInv, Position, LocalPlaces, ApiPlaces
  <2> QED BY <1>6, <2>1, PaidQuiet DEF ScanParts, Places
<1>7. CASE QueryBlob \/ ReadDaily
  <2>0. at \in {"query", "daily"} /\ nth \in DOMAIN Wanted
        /\ UNCHANGED <<daily, range, apiCache, payload, failed, downloads, excuses>>
    BY <1>2, <1>7 DEF QueryBlob, ReadDaily, Places
  <2>1. (\E from, copies : Take(from, copies)) \/ Go("daily") \/ Go("range")
    BY <1>7 DEF QueryBlob, ReadDaily
  <2>2. Position' /\ at' \in {"cache", "idle", "daily", "range"}
    <3>1. CASE \E from, copies : Take(from, copies)
      BY <2>0, <3>1, TakeMoves
    <3>2. CASE Go("daily") \/ Go("range")
      BY <2>0, <3>2 DEF Go, PaidInv, Position, LocalPlaces, ApiPlaces
    <3> QED BY <2>1, <3>1, <3>2
  <2> QED BY <2>0, <2>2, PaidQuiet DEF Places
<1>8. CASE ReadRange
  <2>0. at = "range" /\ nth \in DOMAIN Wanted /\ asking \in DOMAIN Entries
        /\ UNCHANGED <<daily, range, apiCache, payload, failed, downloads, excuses>>
    BY <1>8 DEF ReadRange, PaidInv, Position
  <2>1. Position' /\ at' \in {"entry", "cache", "idle"}
    <3>1. (\E from, copies : Take(from, copies)) \/ NextEntry
      BY <1>8 DEF ReadRange
    <3> QED BY <2>0, <3>1, TakeMoves, NextEntryMoves
  <2> QED BY <2>0, <2>1, PaidQuiet DEF Places
<1>9. CASE ReadCacheAgain
  <2>0. at = "again" /\ nth \in DOMAIN Wanted /\ asking \in DOMAIN Entries /\ Entries[asking] = "api"
        /\ UNCHANGED <<daily, range, payload, failed, downloads, excuses>>
    BY <1>9 DEF ReadCacheAgain, PaidInv, Position, ApiPlaces
  <2>1. Go("fetch") => Position' /\ at' = "fetch" /\ nth' = nth
    BY <2>0 DEF Go, Position, LocalPlaces, ApiPlaces
  <2>2. /\ NextEntry => Position' /\ at' \in {"entry", "cache", "idle"}
        /\ Take("cache", 1) => Position' /\ at' \in {"cache", "idle"}
    BY <2>0, NextEntryMoves, TakeMoves
  <2> QED BY <1>9, <2>0, <2>1, <2>2, PaidReadCached DEF ReadCacheAgain, ReadCached, Places
<1> QED BY <1>1, <1>3, <1>4, <1>5, <1>6, <1>7, <1>8, <1>9, PaidFetch, PaidWriteCache, PaidParse,
           PaidKill DEF Both, LoaderNext, LoadStep

LEMMA PaidInit == LoadInit => PaidInv
<1> SUFFICES ASSUME LoadInit PROVE PaidInv
  OBVIOUS
<1>1. daily \in [Days -> Kinds] /\ range \in Kinds
  BY LoadAssumption DEF LoadInit, LocalFile, Kinds
<1>2. LoaderTypes
  BY <1>1 DEF LoadInit, LoaderTypes, Kinds, Places
<1> QED BY <1>2 DEF LoadInit, PaidInv, Position, InHand, Accounted, PayloadKept, LocalPlaces, ApiPlaces

\* A day is paid for again only when the payload before could not be kept: whatever the
\* download, the cache or a kill does, and whatever happens to the store meanwhile.
THEOREM DaysPaidOnce == LoadSpec => []PaidOnce
<1>1. PaidInv => PaidOnce
  <2> SUFFICES ASSUME PaidInv, NEW d \in Days PROVE downloads[d] <= excuses[d] + 1
    BY DEF PaidOnce
  <2>1. downloads[d] \in Nat /\ excuses[d] \in Nat
    BY DEF PaidInv, LoaderTypes
  <2> QED BY <2>1 DEF PaidInv, Accounted
<1> QED BY <1>1, PaidInit, PaidStep, PTL DEF LoadSpec

-----------------------------------------------------------------------------
(* A miss is explained                                                      *)

\* A source lacks a day: its files do not have it, or its vendor or its downloads, of which
\* those of the days F failed.
LocalLacks(d) == daily[d] # "ok" /\ range # "ok"
ApiLacks(d, F) == ~KeySet \/ d \notin VendorDays \/ d \in F
SourceLacks(kind, d, F) == IF kind = "local" THEN LocalLacks(d) ELSE ApiLacks(d, F)

\* The sources before the one being asked lack the day; so does its daily file, when the
\* consolidated one is next.
Asked ==
  /\ at \notin {"idle", "cache"} => \A i \in DOMAIN Entries : i < asking => SourceLacks(Entries[i], Day, failed)
  /\ at = "range" => daily[Day] # "ok"
  /\ at \in {"fetch", "write", "parse"} => KeySet

MissInv == PaidInv /\ Asked /\ MissExplained

\* A frame for this day: from some source, or none because every source lacks it.
Explained(from, F) ==
  from = "none" => /\ HasEntry("local") => LocalLacks(Day)
                   /\ HasEntry("api") => ApiLacks(Day, F)

\* A day that is taken, explained, keeps the frames explained.
LEMMA MissTake ==
  ASSUME MissInv, NEW from, NEW copies, nth \in DOMAIN Wanted, Take(from, copies),
         Explained(from, failed'), UNCHANGED <<daily, range>>, failed \subseteq failed'
  PROVE  MissExplained' /\ Asked'
<1>1. got' = With(got, Day, [from |-> from, copies |-> copies]) /\ at' \in {"cache", "idle"}
  BY TakeMoves DEF Take
<1>2. ASSUME NEW d \in DOMAIN got', got'[d].from = "none"
      PROVE  /\ HasEntry("local") => daily'[d] # "ok" /\ range' # "ok"
             /\ HasEntry("api") => ~KeySet \/ d \notin VendorDays \/ d \in failed'
  <2>1. CASE d = Day
    <3>1. from = "none"
      BY <1>1, <1>2, <2>1 DEF With
    <3> QED BY <2>1, <3>1 DEF Explained, LocalLacks, ApiLacks
  <2>2. CASE d # Day
    <3>1. d \in DOMAIN got /\ got[d].from = "none"
      BY <1>1, <1>2, <2>2 DEF With
    <3> QED BY <3>1 DEF MissInv, MissExplained
  <2> QED BY <2>1, <2>2
<1> QED BY <1>1, <1>2 DEF MissExplained, Asked

\* The source being asked lacks the day: the next is asked, and after the last one every
\* source lacks it.
LEMMA MissNextEntry ==
  ASSUME MissInv, nth \in DOMAIN Wanted, NextEntry, UNCHANGED <<daily, range>>, failed \subseteq failed',
         at = "cache" \/ (at \notin {"idle", "cache"} /\ SourceLacks(Entries[asking], Day, failed'))
  PROVE  MissExplained' /\ Asked'
<1>0. /\ Len(Entries) \in Nat /\ Len(Entries) > 0 /\ DOMAIN Entries = 1..Len(Entries)
      /\ \A i \in DOMAIN Entries : Entries[i] \in {"local", "api"}
      /\ at = "cache" => asking = 0
      /\ at # "cache" => asking \in DOMAIN Entries
  BY LoadAssumption DEF MissInv, PaidInv, Position
<1>1. \A i \in DOMAIN Entries : i <= asking => SourceLacks(Entries[i], Day, failed')
  <2>1. CASE at = "cache"
    BY <1>0, <2>1
  <2>2. CASE at # "cache"
    <3>1. \A i \in DOMAIN Entries : i < asking => SourceLacks(Entries[i], Day, failed)
      BY <2>2 DEF MissInv, Asked
    <3>2. \A i \in DOMAIN Entries : i < asking => SourceLacks(Entries[i], Day, failed')
      BY <3>1 DEF SourceLacks, ApiLacks
    <3> QED BY <1>0, <2>2, <3>2
  <2> QED BY <2>1, <2>2
<1>2. CASE asking < Len(Entries)
  <2>1. at' = "entry" /\ asking' = asking + 1 /\ UNCHANGED <<nth, got>> /\ Day' = Day
    BY <1>2 DEF NextEntry, Day
  <2>2. MissExplained'
    BY <2>1 DEF MissInv, MissExplained
  <2>3. ASSUME NEW i \in DOMAIN Entries, i < asking + 1
        PROVE  SourceLacks(Entries[i], Day, failed)'
    <3>1. SourceLacks(Entries[i], Day, failed')
      BY <1>0, <1>1, <2>3
    <3> QED BY <2>1, <3>1 DEF SourceLacks, LocalLacks, ApiLacks
  <2>4. Asked'
    BY <2>1, <2>3 DEF Asked
  <2> QED BY <2>2, <2>4
<1>3. CASE ~(asking < Len(Entries))
  <2>1. Take("none", 0)
    BY <1>3 DEF NextEntry
  <2>2. \A i \in DOMAIN Entries : i <= asking
    BY <1>0, <1>3
  <2>3. Explained("none", failed')
    BY <1>1, <2>2 DEF Explained, HasEntry, SourceLacks
  <2> QED BY <2>1, <2>3, MissTake
<1> QED BY <1>2, <1>3

\* A step to the next place of the same source.
LEMMA MissGo ==
  ASSUME MissInv, NEW place \in Places \ {"idle", "cache"}, Go(place), at \notin {"idle", "cache"},
         UNCHANGED <<daily, range>>, failed \subseteq failed',
         place = "range" => daily[Day] # "ok",
         place \in {"fetch", "write", "parse"} => KeySet
  PROVE  MissExplained' /\ Asked'
<1>1. at' = place /\ UNCHANGED <<nth, asking, got>> /\ Day' = Day
  BY DEF Go, Day
<1>2. MissExplained'
  BY <1>1 DEF MissInv, MissExplained
<1>3. Asked'
  BY <1>1 DEF MissInv, Asked, SourceLacks, LocalLacks, ApiLacks
<1> QED BY <1>2, <1>3

LEMMA MissStep == MissInv /\ [Both]_<<storeVars, loadVars>> => MissInv'
<1> SUFFICES ASSUME MissInv, [Both]_<<storeVars, loadVars>> PROVE MissExplained' /\ Asked'
  BY PaidStep DEF MissInv
<1> USE DEF sourceVars, countVars
<1>0. PaidInv
  BY DEF MissInv
<1>1. CASE UNCHANGED loadVars
  BY <1>1 DEF MissInv, MissExplained, Asked, SourceLacks, LocalLacks, ApiLacks, Day, loadVars, walkVars
<1>2. at # "idle" => nth \in DOMAIN Wanted
  BY <1>0 DEF PaidInv, Position
<1>3. CASE BeginLoad \/ Kill
  BY <1>3 DEF BeginLoad, Kill, MissExplained, Asked, NoFrame
<1>4. ASSUME NEW from, NEW copies, Take(from, copies), from # "none", at # "idle",
             UNCHANGED <<daily, range, failed>>
      PROVE  MissExplained' /\ Asked'
  BY <1>2, <1>4, MissTake DEF Explained
<1>5. CASE CacheFirst
  BY <1>2, <1>4, <1>5, MissNextEntry DEF CacheFirst, ReadCached
<1>6. CASE AskEntry
  BY <1>6, MissGo DEF AskEntry, Places
<1>7. CASE ScanParts
  BY <1>7, MissGo DEF ScanParts, Places
<1>8. CASE QueryBlob
  <2>1. CASE \E copies : Take("blob", copies)
    BY <1>4, <1>8, <2>1 DEF QueryBlob
  <2>2. CASE Go("daily")
    BY <1>8, <2>2, MissGo DEF QueryBlob, Places
  <2> QED BY <1>8, <2>1, <2>2 DEF QueryBlob
<1>9. CASE ReadDaily
  BY <1>4, <1>9, MissGo DEF ReadDaily, Places
<1>10. CASE ReadRange
  <2>1. Entries[asking] = "local" /\ daily[Day] # "ok"
    BY <1>0, <1>10 DEF ReadRange, MissInv, Asked, PaidInv, Position, LocalPlaces
  <2>2. range # "ok" => SourceLacks(Entries[asking], Day, failed')
    BY <2>1 DEF SourceLacks, LocalLacks
  <2> QED BY <1>2, <1>4, <1>10, <2>2, MissNextEntry DEF ReadRange
<1>11. CASE ReadCacheAgain
  <2>1. Entries[asking] = "api"
    BY <1>0, <1>11 DEF ReadCacheAgain, PaidInv, Position, ApiPlaces
  <2>2. ~KeySet => SourceLacks(Entries[asking], Day, failed')
    BY <2>1 DEF SourceLacks, ApiLacks
  <2> QED BY <1>2, <1>4, <1>11, <2>2, MissNextEntry, MissGo DEF ReadCacheAgain, ReadCached, Places
<1>12. CASE Fetch
  <2>1. Entries[asking] = "api" /\ KeySet /\ nth \in DOMAIN Wanted /\ at = "fetch"
    BY <1>0, <1>2, <1>12 DEF Fetch, PaidInv, Position, ApiPlaces, MissInv, Asked
  <2>2. CASE Day \in VendorDays /\ Go("write") /\ UNCHANGED failed
    BY <1>12, <2>1, <2>2, MissGo DEF Fetch, Places
  <2>3. CASE (Day \notin VendorDays /\ failed' = failed) \/ failed' = failed \union {Day}
    <3>1. SourceLacks(Entries[asking], Day, failed')
      BY <2>1, <2>3 DEF SourceLacks, ApiLacks
    <3> QED BY <1>12, <2>1, <2>2, <2>3, <3>1, MissNextEntry DEF Fetch
  <2> QED BY <1>12, <2>2, <2>3 DEF Fetch
<1>13. CASE WriteCache
  <2>1. KeySet /\ at = "write"
    BY <1>13 DEF WriteCache, MissInv, Asked
  <2> QED BY <1>13, <2>1, MissGo DEF WriteCache, Places
<1>14. CASE Parse
  <2>1. Entries[asking] = "api" /\ at = "parse"
    BY <1>0, <1>14 DEF Parse, PaidInv, Position, ApiPlaces
  <2>2. Day \in failed' => SourceLacks(Entries[asking], Day, failed')
    BY <2>1 DEF SourceLacks, ApiLacks
  <2> QED BY <1>2, <1>4, <1>14, <2>1, <2>2, MissNextEntry DEF Parse
<1> QED BY <1>1, <1>3, <1>5, <1>6, <1>7, <1>8, <1>9, <1>10, <1>11, <1>12, <1>13, <1>14
     DEF Both, LoaderNext, LoadStep

\* A day is left without a frame only when no source could give one: no good file, and no
\* vendor that has it, that may be asked and whose payload arrives and parses.
THEOREM MissesExplained == LoadSpec => []MissExplained
<1>1. LoadInit => MissInv
  BY PaidInit DEF LoadInit, MissInv, Asked, MissExplained, NoFrame
<1>2. MissInv => MissExplained
  BY DEF MissInv
<1> QED BY <1>1, <1>2, MissStep, PTL DEF LoadSpec
-----------------------------------------------------------------------------
(* What a scan has seen                                                     *)

\* A day the manifest had when its partition was listed: its part, which is still the one named
\* for it, was found by the scan, or is about to be looked at; unless the partition is not queried.
StillStored(d) ==
  /\ d \in DOMAIN completedDays /\ completedDays[d] # NoPart
  /\ \/ /\ PartitionOf[d] \in DOMAIN scanned
        /\ scanned[PartitionOf[d]].incomplete \/ completedDays[d] \in scanned[PartitionOf[d]].paths
     \/ at = "scan" /\ PartitionOf[d] = PartitionOf[Day] /\ completedDays[d] \in listed

\* A day in a part that was not readable: its partition is not queried.
NotQueried(d) == PartitionOf[d] \in DOMAIN scanned /\ scanned[PartitionOf[d]].incomplete

SeenInv ==
  /\ at = "scan" => PartitionOf[Day] \notin DOMAIN scanned /\ \A p \in listed : p[1] = PartitionOf[Day]
  /\ at = "query" => PartitionOf[Day] \in DOMAIN scanned
  /\ at # "idle" => \A d \in storedAtScan : StillStored(d)
  /\ \A d \in openAtScan : NotQueried(d)
  /\ \A d \in DOMAIN got :
       /\ got[d].copies <= 1
       /\ got[d].from = "blob" => /\ PartitionOf[d] \in DOMAIN scanned /\ ~scanned[PartitionOf[d]].incomplete
                                  /\ d \in storedAtScan => got[d].copies = 1

\* A reader of any parts finds a day at most once, and finds one that is in them.
LEMMA OneCopy ==
  ASSUME Inv, DiskOnce, NEW paths \in SUBSET DOMAIN files, NEW d \in Days
  PROVE  /\ CopiesIn(paths, d) <= 1
         /\ \A p \in paths : d \in DaysIn(files[p].rows) => CopiesIn(paths, d) = 1
<1> DEFINE S == UNION {{p} \X {i \in DOMAIN files[p].rows : files[p].rows[i] = d} : p \in paths}
<1>1. CopiesIn(paths, d) = Cardinality(S)
  BY DEF CopiesIn
<1>2. \A s : s \in S <=> \E p \in paths : \E i \in DOMAIN files[p].rows : s = <<p, i>> /\ files[p].rows[i] = d
  OBVIOUS
<1> HIDE DEF S
<1>3. CASE \E p \in paths : d \in DaysIn(files[p].rows)
  <2>1. PICK p \in paths : \E i \in DOMAIN files[p].rows : files[p].rows[i] = d
    BY <1>3 DEF DaysIn
  <2> PICK i \in DOMAIN files[p].rows : files[p].rows[i] = d
    BY <2>1
  <2>2. \A q \in paths : \A j \in DOMAIN files[q].rows : files[q].rows[j] = d => q = p /\ j = i
    <3> TAKE q \in paths
    <3> TAKE j \in DOMAIN files[q].rows
    <3> HAVE files[q].rows[j] = d
    <3>1. d \in DaysIn(files[p].rows) /\ d \in DaysIn(files[q].rows)
      BY <2>1 DEF DaysIn
    <3>2. q = p
      BY <3>1 DEF DiskOnce
    <3> QED BY <2>1, <3>2 DEF DiskOnce, NoRepeat
  <2>3. S = {<<p, i>>}
    BY <1>2, <2>1, <2>2
  <2>4. CopiesIn(paths, d) = 1
    <3>1. Cardinality({<<p, i>>}) = 1
      BY FS_Singleton
    <3> QED BY <1>1, <2>3, <3>1
  <2> QED BY <2>4
<1>4. CASE \A p \in paths : d \notin DaysIn(files[p].rows)
  <2>1. S = {}
    BY <1>2, <1>4 DEF DaysIn
  <2> QED BY <1>1, <1>4, <2>1, FS_EmptySet
<1> QED BY <1>3, <1>4

\* What the manifest says does not change for the days it had.
LEMMA SeenStore ==
  ASSUME Inv, AgreeInv, SeenInv, [UsedPlaced]_storeVars, UNCHANGED loadVars
  PROVE  SeenInv'
<1>1. UNCHANGED <<at, nth, asking, scanned, listed, storedAtScan, openAtScan, got>>
  BY DEF loadVars, walkVars, seenVars
<1>2. \A d \in DOMAIN completedDays : d \in DOMAIN completedDays' /\ completedDays'[d] = completedDays[d]
  BY NamesKept
<1>3. \A d \in storedAtScan : StillStored(d) => StillStored(d)'
  BY <1>1, <1>2 DEF StillStored, Day
<1>4. \A d \in openAtScan : NotQueried(d)'
  BY <1>1 DEF SeenInv, NotQueried
<1> QED BY <1>1, <1>3, <1>4 DEF SeenInv, Day

\* A step that neither scans nor asks the store.
LEMMA SeenElsewhere ==
  ASSUME SeenInv, at \notin {"idle", "scan"}, NEW from, NEW copies \in {0, 1}, from # "blob",
         \/ Take(from, copies)
         \/ NextEntry
         \/ \E place \in Places \ {"scan", "query"} : Go(place),
         UNCHANGED <<completedDays, scanned, storedAtScan, openAtScan>>
  PROVE  SeenInv'
<1>1. /\ at' \notin {"scan", "query"}
      /\ \/ got' = got
         \/ \E f, c : f # "blob" /\ c \in {0, 1} /\ got' = With(got, Day, [from |-> f, copies |-> c])
  BY DEF Take, NextEntry, Go, NextDay
<1>2. \A d \in storedAtScan : StillStored(d)'
  BY DEF SeenInv, StillStored
<1>3. \A d \in openAtScan : NotQueried(d)'
  BY DEF SeenInv, NotQueried
<1>4. ASSUME NEW d \in DOMAIN got'
      PROVE  /\ got'[d].copies <= 1
             /\ got'[d].from = "blob" => /\ PartitionOf[d] \in DOMAIN scanned
                                         /\ ~scanned[PartitionOf[d]].incomplete
                                         /\ d \in storedAtScan => got'[d].copies = 1
  <2>1. CASE d \in DOMAIN got /\ got'[d] = got[d]
    BY <2>1 DEF SeenInv
  <2>2. CASE \E f, c : f # "blob" /\ c \in {0, 1} /\ got'[d] = [from |-> f, copies |-> c]
    BY <2>2
  <2> QED BY <1>1, <2>1, <2>2 DEF With
<1> QED BY <1>1, <1>2, <1>3, <1>4 DEF SeenInv

\* A partition is listed: the parts named for its days are among those found.
LEMMA SeenAskEntry == Inv /\ DiskOnce /\ SeenInv /\ AskEntry /\ UNCHANGED storeVars => SeenInv'
<1> SUFFICES ASSUME Inv, DiskOnce, SeenInv, AskEntry, UNCHANGED storeVars PROVE SeenInv'
  OBVIOUS
<1> DEFINE k == PartitionOf[Day]
           scan == Entries[asking] = "local" /\ k \notin DOMAIN scanned
<1>1. /\ at = "entry"
      /\ Go(IF scan THEN "scan" ELSE IF Entries[asking] = "local" THEN "query" ELSE "again")
      /\ listed' = IF scan THEN {p \in DOMAIN files : p[1] = k} ELSE {}
      /\ storedAtScan' = IF scan THEN storedAtScan \union InParts(k) ELSE storedAtScan
      /\ UNCHANGED <<scanned, openAtScan, files, completedDays>>
  BY DEF AskEntry, storeVars, diskVars
<1>2. UNCHANGED <<got, nth, asking>> /\ Day' = Day
  BY <1>1 DEF Go, Day
<1>3. \A d \in storedAtScan : StillStored(d) /\ PartitionOf[d] \in DOMAIN scanned
  BY <1>1 DEF SeenInv, StillStored
<1>4. \A d \in storedAtScan : StillStored(d)'
  BY <1>1, <1>3 DEF StillStored
<1>5. ASSUME scan, NEW d \in InParts(k)
      PROVE  StillStored(d)' /\ (d \in DOMAIN got => got[d].from # "blob")
  <2>1. /\ d \in DOMAIN completedDays /\ PartitionOf[d] = k /\ completedDays[d] # NoPart
    BY <1>5 DEF InParts
  <2>2. /\ completedDays[d] \in DOMAIN files /\ d \in DaysIn(files[completedDays[d]].rows)
    BY <2>1 DEF Inv, PartsInv, ManifestBacked, Readable
  <2>3. completedDays[d][1] = k
    BY <2>1, <2>2 DEF DiskOnce
  <2>4. at' = "scan" /\ completedDays[d] \in listed'
    BY <1>1, <1>5, <2>2, <2>3 DEF Go
  <2>5. StillStored(d)'
    BY <1>1, <1>2, <2>1, <2>4 DEF StillStored
  <2> QED BY <1>5, <2>1, <2>5 DEF SeenInv
<1>6. \A d \in openAtScan' : NotQueried(d)'
  BY <1>1 DEF SeenInv, NotQueried
<1>7. /\ at' = "scan" => k \notin DOMAIN scanned /\ \A p \in listed' : p[1] = k
      /\ at' = "query" => k \in DOMAIN scanned
  BY <1>1 DEF Go
<1>8. \A d \in storedAtScan' : StillStored(d)'
  BY <1>1, <1>4, <1>5
<1>9. \A d \in DOMAIN got : got[d].from = "blob" /\ d \in storedAtScan' => d \in storedAtScan
  BY <1>1, <1>5
<1> QED BY <1>1, <1>2, <1>6, <1>7, <1>8, <1>9 DEF SeenInv

\* The parts that were listed are looked at: one that is gone, or has no footer yet, makes the
\* partition incomplete.
LEMMA SeenScanParts == Inv /\ DiskOnce /\ SeenInv /\ ScanParts /\ UNCHANGED storeVars => SeenInv'
<1> SUFFICES ASSUME Inv, DiskOnce, SeenInv, ScanParts, UNCHANGED storeVars PROVE SeenInv'
  OBVIOUS
<1> DEFINE k == PartitionOf[Day]
<1>1. /\ at = "scan" /\ at' = "query" /\ UNCHANGED <<got, nth, storedAtScan, completedDays>>
      /\ scanned' = With(scanned, k, Scan(listed))
      /\ openAtScan' = openAtScan \union
           UNION {DaysIn(files[p].rows) : p \in {q \in listed \intersect DOMAIN files : ~Readable(q)}}
      /\ Day' = Day
  BY DEF ScanParts, Go, Day, storeVars, diskVars
<1>2. k \notin DOMAIN scanned /\ \A p \in listed : p[1] = k
  BY <1>1 DEF SeenInv
<1>3. /\ DOMAIN scanned' = DOMAIN scanned \union {k}
      /\ scanned'[k] = Scan(listed)
      /\ \A j \in DOMAIN scanned : scanned'[j] = scanned[j]
  BY <1>1, <1>2 DEF With
<1>4. ASSUME NEW d \in storedAtScan
      PROVE  StillStored(d)'
  <2>1. StillStored(d)
    BY <1>1 DEF SeenInv
  <2>2. CASE PartitionOf[d] \in DOMAIN scanned
    <3>1. scanned[PartitionOf[d]].incomplete \/ completedDays[d] \in scanned[PartitionOf[d]].paths
      BY <1>2, <2>1, <2>2 DEF StillStored
    <3> QED BY <1>1, <1>3, <2>1, <2>2, <3>1 DEF StillStored
  <2>3. CASE PartitionOf[d] = k /\ completedDays[d] \in listed
    <3>1. Scan(listed).incomplete \/ completedDays[d] \in Scan(listed).paths
      BY <2>3 DEF Scan
    <3> QED BY <1>1, <1>3, <2>1, <2>3, <3>1 DEF StillStored
  <2> QED BY <2>1, <2>2, <2>3 DEF StillStored
<1>5. ASSUME NEW d \in openAtScan'
      PROVE  NotQueried(d)'
  <2>1. CASE d \in openAtScan
    <3>1. NotQueried(d)
      BY <2>1 DEF SeenInv
    <3> QED BY <1>3, <3>1 DEF NotQueried
  <2>2. CASE d \notin openAtScan
    <3>1. PICK p \in listed \intersect DOMAIN files : ~Readable(p) /\ d \in DaysIn(files[p].rows)
      BY <1>1, <1>5, <2>2
    <3>2. PartitionOf[d] = k
      BY <1>2, <3>1 DEF DiskOnce
    <3>3. Scan(listed).incomplete
      BY <3>1 DEF Scan
    <3> QED BY <1>3, <3>2, <3>3 DEF NotQueried
  <2> QED BY <2>1, <2>2
<1>6. \A d \in DOMAIN got : got[d].from = "blob" =>
        PartitionOf[d] \in DOMAIN scanned' /\ ~scanned'[PartitionOf[d]].incomplete
  BY <1>3 DEF SeenInv
<1>7. at' = "query" /\ PartitionOf[Day'] \in DOMAIN scanned' /\ at' # "scan"
  BY <1>1, <1>3
<1> QED BY <1>1, <1>4, <1>5, <1>6, <1>7 DEF SeenInv

\* The rows of the parts that were found are read.
LEMMA SeenQueryBlob ==
  PaidInv /\ Inv /\ DiskOnce /\ SeenInv /\ QueryBlob /\ UNCHANGED storeVars => SeenInv'
<1> SUFFICES ASSUME PaidInv, Inv, DiskOnce, SeenInv, QueryBlob, UNCHANGED storeVars PROVE SeenInv'
  OBVIOUS
<1> DEFINE k == PartitionOf[Day]
           scan == scanned[k]
           usable == /\ ~scan.incomplete /\ \A p \in scan.paths : Readable(p)
                     /\ \E p \in scan.paths : files[p].rows # <<>>
<1>1. /\ at = "query" /\ UNCHANGED <<scanned, storedAtScan, openAtScan, completedDays>>
      /\ \/ usable /\ Take("blob", CopiesIn(scan.paths, Day))
         \/ Go("daily")
  BY DEF QueryBlob, seenVars, storeVars, diskVars
<1>2. CASE Go("daily")
  BY <1>1, <1>2, SeenElsewhere DEF Places
<1>3. CASE usable /\ Take("blob", CopiesIn(scan.paths, Day))
  <2> DEFINE copies == CopiesIn(scan.paths, Day)
  <2>1. /\ k \in DOMAIN scanned /\ ~scan.incomplete /\ Day \in Days
        /\ scan.paths \in SUBSET DOMAIN files
    BY <1>1, <1>3, OnDay DEF SeenInv, PaidInv, Position, Readable
  <2>2. copies <= 1 /\ (Day \in storedAtScan => copies = 1)
    <3>1. copies <= 1
      BY <2>1, OneCopy
    <3>2. ASSUME Day \in storedAtScan PROVE copies = 1
      <4>1. /\ Day \in DOMAIN completedDays /\ completedDays[Day] # NoPart
            /\ completedDays[Day] \in scan.paths
        BY <1>1, <2>1, <3>2 DEF SeenInv, StillStored
      <4>2. Day \in DaysIn(files[completedDays[Day]].rows)
        BY <4>1 DEF Inv, PartsInv, ManifestBacked
      <4> QED BY <2>1, <4>1, <4>2, OneCopy
    <3> QED BY <3>1, <3>2
  <2>3. got' = With(got, Day, [from |-> "blob", copies |-> copies]) /\ at' \notin {"scan", "query"}
    BY <1>3 DEF Take, NextDay
  <2> HIDE DEF copies, usable
  <2>4. \A d \in storedAtScan : StillStored(d)'
    BY <1>1 DEF SeenInv, StillStored
  <2>5. \A d \in openAtScan : NotQueried(d)'
    BY <1>1 DEF SeenInv, NotQueried
  <2>6. ASSUME NEW d \in DOMAIN got'
        PROVE  /\ got'[d].copies <= 1
               /\ got'[d].from = "blob" => /\ PartitionOf[d] \in DOMAIN scanned
                                           /\ ~scanned[PartitionOf[d]].incomplete
                                           /\ d \in storedAtScan => got'[d].copies = 1
    <3>1. CASE d = Day
      <4>1. got'[d].copies = copies
        BY <2>3, <3>1 DEF With
      <4> QED BY <2>1, <2>2, <3>1, <4>1
    <3>2. CASE d # Day
      BY <2>3, <3>2 DEF With, SeenInv
    <3> QED BY <3>1, <3>2
  <2> QED BY <1>1, <2>3, <2>4, <2>5, <2>6 DEF SeenInv
<1> QED BY <1>1, <1>2, <1>3

LEMMA SeenLoader ==
  PaidInv /\ Inv /\ DiskOnce /\ SeenInv /\ LoaderNext /\ UNCHANGED storeVars => SeenInv'
<1> SUFFICES ASSUME PaidInv, Inv, DiskOnce, SeenInv, LoaderNext, UNCHANGED storeVars PROVE SeenInv'
  OBVIOUS
<1>1. CASE BeginLoad \/ Kill
  <2>1. /\ DOMAIN got' = {} /\ at' \in {"idle", "cache"}
        /\ at' = "idle" \/ storedAtScan' = {}
        /\ openAtScan' = {} \/ UNCHANGED <<openAtScan, scanned>>
    BY <1>1 DEF BeginLoad, Kill, NoFrame, seenVars
  <2>2. \A d \in openAtScan' : NotQueried(d)'
    BY <2>1 DEF SeenInv, NotQueried
  <2> QED BY <2>1, <2>2 DEF SeenInv
<1>2. CASE AskEntry   BY <1>2, SeenAskEntry
<1>3. CASE ScanParts  BY <1>3, SeenScanParts
<1>4. CASE QueryBlob  BY <1>4, SeenQueryBlob
<1>5. CASE CacheFirst \/ ReadDaily \/ ReadRange \/ ReadCacheAgain \/ Fetch \/ WriteCache \/ Parse
  <2>1. /\ at \notin {"idle", "scan"}
        /\ UNCHANGED <<completedDays, scanned, storedAtScan, openAtScan>>
    BY <1>5 DEF CacheFirst, ReadDaily, ReadRange, ReadCacheAgain, Fetch, WriteCache, Parse, seenVars,
                storeVars, diskVars
  <2>2. \/ \E from : from # "blob" /\ \E copies \in {0, 1} : Take(from, copies)
        \/ NextEntry
        \/ \E place \in Places \ {"scan", "query"} : Go(place)
    <3>1. {"range", "fetch", "write", "parse"} \subseteq Places \ {"scan", "query"}
      BY DEF Places
    <3>2. CASE CacheFirst \/ ReadCacheAgain
      BY <3>1, <3>2 DEF CacheFirst, ReadCacheAgain, ReadCached
    <3>3. CASE ReadDaily \/ ReadRange
      BY <3>1, <3>3 DEF ReadDaily, ReadRange
    <3>4. CASE Fetch \/ WriteCache \/ Parse
      BY <3>1, <3>4 DEF Fetch, WriteCache, Parse
    <3> QED BY <1>5, <3>2, <3>3, <3>4
  <2>3. 0 \in {0, 1} /\ "none" # "blob"
    OBVIOUS
  <2> QED BY <2>1, <2>2, <2>3, SeenElsewhere
<1> QED BY <1>1, <1>2, <1>3, <1>4, <1>5 DEF LoaderNext, LoadStep

\* A reader beside the downloader gets each day of a month whole or not from the store at all, and
\* none twice, whatever the writer rolls, fails to write, sweeps, numbers again or leaves when it is
\* killed: provided that no day is ingested again (no --overwrite; a batch ingested after close()
\* does no harm here), that a batch has each of its days once, and in the group of its partition.
THEOREM DaysReadWhole ==
  ASSUME ~Overwrite, \A b \in Batches : BatchOnce(b) /\ BatchPlaced(b)
  PROVE  LoadSpec => []StoredDayWhole
<1> DEFINE All == Inv /\ AgreeInv /\ DiskOnce /\ PaidInv /\ SeenInv
<1>1. ASSUME [Next]_storeVars PROVE [Used]_storeVars /\ [UsedOnce]_storeVars /\ [UsedPlaced]_storeVars
  <2>1. ASSUME NEW b \in Batches, Allowed(DaysOf(b)), BeginIngest(b)
        PROVE  b \in Batch /\ BatchOnce(b) /\ BatchPlaced(b)
               /\ DaysOf(b) \intersect (taken \union DOMAIN completedDays) = {}
    BY <2>1, StoreAssumption DEF Allowed
  <2> QED BY <1>1, <2>1, NextUsed DEF Next, UsedOnce, UsedPlaced, OtherUse
<1>2. Init /\ LoadInit => All
  <2>1. LoadInit => SeenInv
    BY DEF LoadInit, SeenInv, NoFrame
  <2> QED BY <2>1, InitInv, InitAgrees, InitDisk, PaidInit
<1>3. All /\ [Both]_<<storeVars, loadVars>> => All'
  <2> SUFFICES ASSUME All, [Both]_<<storeVars, loadVars>> PROVE All'
    OBVIOUS
  <2>1. [Next]_storeVars
    BY DEF Both
  <2>2. Inv' /\ AgreeInv' /\ DiskOnce'
    BY <1>1, <2>1, UsedInv, UsedOnceAgrees, UsedPlacedDisk
  <2>3. PaidInv'
    BY PaidStep
  <2>4. SeenInv'
    <3>1. CASE UNCHANGED loadVars
      BY <1>1, <2>1, <3>1, SeenStore
    <3>2. CASE LoaderNext /\ UNCHANGED storeVars
      BY <3>2, SeenLoader
    <3> QED BY <3>1, <3>2 DEF Both
  <2> QED BY <2>2, <2>3, <2>4
<1>4. All => StoredDayWhole
  BY DEF SeenInv, NotQueried, StoredDayWhole
<1> QED BY <1>2, <1>3, <1>4, PTL DEF LoadSpec
=============================================================================
