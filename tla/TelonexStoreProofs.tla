------------------------- MODULE TelonexStoreProofs -------------------------
(***************************************************************************)
(* Proofs about the Telonex day store, for any days, partitions, batches,  *)
(* thresholds and faults, with and without --overwrite:                    *)
(*   - Spec => []TypeOK;                                                   *)
(*   - Spec => []ManifestBacked and Spec => []UnreadableOnlyOpen;          *)
(*   - Spec => LedgerSpec, the day ledger;                                 *)
(*   - Spec => []PartsAgreeWithManifest, when no day is ingested twice.    *)
(* They rest on Inv, which adds what is true of the parts in memory: the   *)
(* open ones are distinct, unreadable, unknown to the manifest and hold    *)
(* their pending days, and none is open any more when close() sweeps.  The *)
(* last one rests on AgreeInv too, which follows each day from the batch   *)
(* to its one place.                                                       *)
(***************************************************************************)
EXTENDS TelonexStore, FiniteSetTheorems, WellFoundedInduction, TLAPS

\* The part numbers are bounded, so that there is a largest one.
Numbered == \E n \in Nat : \A p \in DOMAIN files : p[2] <= n

\* An open part is an unreadable file of its own partition, and holds its pending days.
WritersOK ==
  \A k \in DOMAIN writers :
    LET p == writers[k].part
    IN  /\ p \in DOMAIN files /\ p[1] = k /\ ~files[p].closed
        /\ DaysIn(writers[k].pending) \subseteq DaysIn(files[p].rows)

\* A part about to be committed can be read and holds the days it is committed for.
CommittingOK ==
  \A c \in committing :
    Readable(c.part) /\ DaysIn(c.pending) \subseteq DaysIn(files[c.part].rows)

Lacks(s, do) == \A i \in DOMAIN s : s[i].do # do

\* Only close() sweeps, it appends nothing, and it has flushed every part W when it does.
SweepsLast(c, s, W) ==
  /\ c = "close" => Lacks(s, "append")
  /\ c # "close" => Lacks(s, "sweep")
  /\ \A i \in DOMAIN s :
       s[i].do = "sweep" => IF i = 1 THEN W = {} ELSE s[i - 1].do = "flush_all"

PartsInv == Numbered /\ ManifestBacked /\ WritersOK /\ CommittingOK /\ UnreadableOnlyOpen

Inv == TypeOK /\ PartsInv /\ SweepsLast(call, steps, DOMAIN writers)
-----------------------------------------------------------------------------
(* The largest part number                                                  *)

\* A set of natural numbers has a least element n: the interval 0 .. n is minimal among the
\* intervals of its elements up to some b.
LEMMA LeastNumber ==
  ASSUME NEW S \in SUBSET Nat, S # {}
  PROVE  \E n \in S : \A m \in S : n <= m
<1> PICK b \in S : TRUE
  OBVIOUS
<1> DEFINE U == {n \in S : n <= b}
           T == {0 .. n : n \in U}
           R == StrictSubsetOrdering(0 .. b)
<1>1. IsFiniteSet(0 .. b) /\ b \in U
  BY FS_Interval
<1>2. IsWellFoundedOn(R, FiniteSubsetsOf(0 .. b))
  BY <1>1, FS_StrictSubsetOrderingWellFounded
<1>3. T # {} /\ T \subseteq FiniteSubsetsOf(0 .. b)
  <2>1. T # {}  BY <1>1
  <2>2. \A n \in U : 0 .. n \subseteq 0 .. b /\ IsFiniteSet(0 .. n)  BY FS_Interval
  <2> QED BY <2>1, <2>2 DEF FiniteSubsetsOf
<1>4. \E x \in T : \A y \in T : ~(<<y, x>> \in R)
  <2> HIDE DEF T, R
  <2> QED BY <1>2, <1>3, WFMin
<1>5. PICK u \in U : \A v \in U : ~(<<0 .. v, 0 .. u>> \in R)
  BY <1>4
<1>6. \A v \in U : u <= v
  <2> SUFFICES ASSUME NEW v \in U, v < u PROVE FALSE  OBVIOUS
  <2>1. 0 .. v \subseteq 0 .. u /\ 0 .. v # 0 .. u
    <3>1. u \in 0 .. u /\ u \notin 0 .. v OBVIOUS
    <3> QED BY <3>1
  <2>2. 0 .. v \subseteq 0 .. b /\ 0 .. u \subseteq 0 .. b OBVIOUS
  <2> QED BY <1>5, <2>1, <2>2 DEF StrictSubsetOrdering
<1> QED BY <1>6

\* A set of bounded natural numbers has a largest element: the least of its upper bounds.
LEMMA MaxExists ==
  ASSUME NEW S \in SUBSET Nat, S # {}, NEW b \in Nat, \A m \in S : m <= b
  PROVE  /\ Max(S) \in S
         /\ \A m \in S : Max(S) >= m
<1> DEFINE U == {n \in Nat : \A m \in S : m <= n}
<1>1. PICK u \in U : \A v \in U : u <= v
  <2> U \in SUBSET Nat /\ U # {}  OBVIOUS
  <2> HIDE DEF U
  <2> QED BY LeastNumber
<1>2. u \in S
  <2> SUFFICES ASSUME u \notin S PROVE FALSE  OBVIOUS
  <2>1. \A m \in S : m < u
    <3> TAKE m \in S
    <3>1. m <= u OBVIOUS
    <3>2. m # u OBVIOUS
    <3> QED BY <3>1, <3>2
  <2>2. PICK m \in S : m \in Nat OBVIOUS
  <2>3. u - 1 \in U  BY <2>1, <2>2
  <2> QED BY <2>3, <1>1
<1>3. \A m \in S : u >= m
  OBVIOUS
<1> QED BY <1>2, <1>3 DEF Max

\* The number of a new part is free.
LEMMA NextPartNew ==
  ASSUME DiskOK, Numbered, NEW k \in Partitions
  PROVE  NextPart(k) \in Part /\ NextPart(k) \notin DOMAIN files /\ NextPart(k)[1] = k
<1> DEFINE numbers == {p[2] : p \in {q \in DOMAIN files : q[1] = k}}
<1>1. numbers \in SUBSET Nat
  BY DEF DiskOK, Part
<1>2. PICK n \in Nat : \A m \in numbers : m <= n
  BY DEF Numbered
<1>3. CASE numbers = {}
  <2>1. NextPart(k) = <<k, 0>>
    BY <1>3 DEF NextPart
  <2>2. \A p \in DOMAIN files : p[1] # k
    BY <1>3
  <2> QED BY <2>1, <2>2 DEF Part
<1>4. CASE numbers # {}
  <2>1. Max(numbers) \in numbers /\ \A m \in numbers : Max(numbers) >= m
    <3> HIDE DEF numbers
    <3> QED BY <1>1, <1>2, <1>4, MaxExists
  <2>2. NextPart(k) = <<k, Max(numbers) + 1>>
    BY <1>4 DEF NextPart
  <2>3. Max(numbers) \in Nat
    BY <1>1, <2>1
  <2>4. <<k, Max(numbers) + 1>> \notin DOMAIN files
    <3> SUFFICES ASSUME <<k, Max(numbers) + 1>> \in DOMAIN files PROVE FALSE
      OBVIOUS
    <3> DEFINE m == Max(numbers) + 1
    <3>1. m \in numbers
      <4> HIDE DEF m
      <4>1. <<k, m>>[1] = k /\ <<k, m>>[2] = m /\ <<k, m>> \in DOMAIN files
        BY DEF m
      <4> QED BY <4>1
    <3> HIDE DEF numbers
    <3> QED BY <2>1, <2>3, <3>1
  <2> QED BY <2>2, <2>3, <2>4 DEF Part
<1> QED BY <1>3, <1>4

-----------------------------------------------------------------------------
(* The steps under the lock                                                 *)

\* What a step of each kind carries.
LEMMA StepKinds ==
  ASSUME NEW s \in Step
  PROVE  /\ s.do = "append" => s.k \in Partitions /\ s.days \in Seq(Days)
         /\ s.do = "flush" => s.k \in Partitions
         /\ s.do \in {"empty", "missing"} => s.days \subseteq Days
BY DEF Step

LEMMA StepTypes ==
  /\ \A k \in Partitions : Flush(k) \in Step
  /\ \A k \in Partitions, ds \in Seq(Days) : [do |-> "append", k |-> k, days |-> ds] \in Step
  /\ \A D \in SUBSET Days : Record("empty", D) \in Step /\ Record("missing", D) \in Step
  /\ FlushAll \in Step /\ Sweep \in Step
BY DEF Step, Flush, Record, FlushAll, Sweep

LEMMA LacksConcat ==
  ASSUME NEW s \in Seq(Step), NEW t \in Seq(Step), NEW do, Lacks(s, do), Lacks(t, do)
  PROVE  s \o t \in Seq(Step) /\ Lacks(s \o t, do)
BY DEF Lacks

LEMMA LacksTail ==
  ASSUME NEW s \in Seq(Step), s # <<>>, NEW do, Lacks(s, do)
  PROVE  Lacks(Tail(s), do)
BY DEF Lacks

\* Outside close() the order of the steps does not matter.
LEMMA SweepsNever ==
  ASSUME NEW c, NEW s, NEW W, c # "close", Lacks(s, "sweep")
  PROVE  SweepsLast(c, s, W)
BY DEF SweepsLast, Lacks

\* A step other than "flush_all" is not the one the sweep waits for.
LEMMA SweepsTail ==
  ASSUME NEW c, NEW s \in Seq(Step), NEW W, NEW V, s # <<>>, SweepsLast(c, s, W),
         Head(s).do = "flush_all" => V = {}
  PROVE  SweepsLast(c, Tail(s), V)
<1>1. \A i \in DOMAIN Tail(s) : i + 1 \in DOMAIN s /\ Tail(s)[i] = s[i + 1]
  OBVIOUS
<1>2. ASSUME NEW i \in DOMAIN Tail(s), Tail(s)[i].do = "sweep"
      PROVE  IF i = 1 THEN V = {} ELSE Tail(s)[i - 1].do = "flush_all"
  <2>1. s[(i + 1) - 1].do = "flush_all"
    BY <1>1, <1>2 DEF SweepsLast
  <2>2. CASE i = 1
    BY <2>1, <2>2
  <2>3. CASE i # 1
    <3>1. i - 1 \in DOMAIN Tail(s) /\ Tail(s)[i - 1] = s[(i + 1) - 1]
      BY <2>3
    <3> QED BY <2>1, <2>3, <3>1
  <2> QED BY <2>2, <2>3
<1> QED BY <1>1, <1>2, LacksTail DEF SweepsLast

\* Flushing a part first leaves the sweep last.
LEMMA SweepsFlush ==
  ASSUME NEW c, NEW s \in Seq(Step), NEW W, NEW k \in Partitions, s # <<>>,
         Head(s).do # "sweep", SweepsLast(c, s, W)
  PROVE  SweepsLast(c, <<Flush(k)>> \o s, W)
<1> DEFINE f == Flush(k)
<1>1. f \in Step /\ f.do = "flush"
  BY StepTypes DEF Flush
<1> HIDE DEF f
<1> DEFINE t == <<f>> \o s
<1>2. /\ t[1] = f /\ t \in Seq(Step)
      /\ \A i \in DOMAIN t : i # 1 => i - 1 \in DOMAIN s /\ t[i] = s[i - 1]
  BY <1>1
<1>3. ASSUME NEW i \in DOMAIN t, t[i].do = "sweep"
      PROVE  i # 1 /\ t[i - 1].do = "flush_all"
  <2>1. i # 1 /\ i - 1 \in DOMAIN s /\ s[i - 1].do = "sweep"
    BY <1>1, <1>2, <1>3
  <2>2. i - 1 # 1
    BY <2>1
  <2>3. s[(i - 1) - 1].do = "flush_all"
    BY <2>1, <2>2 DEF SweepsLast
  <2>4. i - 1 \in DOMAIN t /\ t[i - 1] = s[(i - 1) - 1]
    BY <1>2, <2>1, <2>2
  <2> QED BY <2>1, <2>3, <2>4
<1>4. \A do : do # "flush" /\ Lacks(s, do) => Lacks(t, do)
  BY <1>1, <1>2 DEF Lacks
<1>5. SweepsLast(c, t, W)
  <2> HIDE DEF t
  <2> QED BY <1>3, <1>4 DEF SweepsLast
<1> QED BY <1>5 DEF f

-----------------------------------------------------------------------------
(* Parts and maps                                                           *)

LEMMA DaysInConcat ==
  ASSUME NEW s \in Seq(Days), NEW t \in Seq(Days)
  PROVE  DaysIn(s \o t) = DaysIn(s) \union DaysIn(t)
<1>1. \A i \in DOMAIN (s \o t) :
        (s \o t)[i] = IF i <= Len(s) THEN s[i] ELSE t[i - Len(s)]
  OBVIOUS
<1>2. \A i \in DOMAIN s : i \in DOMAIN (s \o t) /\ (s \o t)[i] = s[i]
  OBVIOUS
<1>3. \A i \in DOMAIN t : i + Len(s) \in DOMAIN (s \o t) /\ (s \o t)[i + Len(s)] = t[i]
  OBVIOUS
<1>4. DaysIn(s \o t) \subseteq DaysIn(s) \union DaysIn(t)
  BY DEF DaysIn
<1>5. DaysIn(s) \subseteq DaysIn(s \o t)
  BY <1>2 DEF DaysIn
<1>6. DaysIn(t) \subseteq DaysIn(s \o t)
  BY <1>3 DEF DaysIn
<1> QED BY <1>4, <1>5, <1>6

LEMMA PartNotNull == \A p \in Part : p # NoPart
<1> SUFFICES ASSUME NEW k \in Partitions, NEW n \in Nat PROVE <<k, n>> # <<>>
  BY DEF Part, NoPart
<1>1. Len(<<k, n>>) = 2 /\ Len(<<>>) = 0
  OBVIOUS
<1> QED BY <1>1

\* The manifest names no part that cannot be read.
LEMMA ReferencedReadable ==
  ASSUME DiskOK, ManifestBacked, NEW d \in DOMAIN completedDays, completedDays[d] # NoPart
  PROVE  completedDays[d] \in DOMAIN files /\ files[completedDays[d]].closed
BY DEF ManifestBacked, Readable

\* The sweep removes unreadable parts, and no part the manifest names.
LEMMA SweepKeeps ==
  ASSUME DiskOK, PartsInv, DOMAIN writers = {}, committing = {}, files' = Swept,
         writers' = writers, completedDays' = completedDays, committing' = committing,
         emptyDays' = emptyDays
  PROVE  DiskOK' /\ PartsInv'
<1>1. DOMAIN files' = DOMAIN files \intersect Referenced /\ \A p \in DOMAIN files' : files'[p] = files[p]
  BY DEF Swept, Restrict
<1>2. DiskOK'
  BY <1>1 DEF DiskOK
<1>3. Numbered'
  BY <1>1 DEF PartsInv, Numbered
<1>4. ManifestBacked'
  <2> SUFFICES ASSUME NEW d \in DOMAIN completedDays, completedDays[d] # NoPart
               PROVE  completedDays[d] \in DOMAIN files' /\ files'[completedDays[d]].closed
                      /\ d \in DaysIn(files'[completedDays[d]].rows)
    BY DEF ManifestBacked, Readable
  <2>1. completedDays[d] \in DOMAIN files /\ files[completedDays[d]].closed
        /\ d \in DaysIn(files[completedDays[d]].rows)
    BY DEF PartsInv, ManifestBacked, Readable
  <2> QED BY <1>1, <2>1 DEF Referenced
<1>5. WritersOK' /\ CommittingOK'
  BY DEF WritersOK, CommittingOK
<1>6. \A p \in DOMAIN files' : files'[p].closed
  <2> SUFFICES ASSUME NEW p \in DOMAIN files' PROVE files[p].closed
    BY <1>1
  <2>1. PICK d \in DOMAIN completedDays : completedDays[d] = p
    BY <1>1 DEF Referenced
  <2>2. p # NoPart
    BY <1>1, PartNotNull DEF DiskOK
  <2> QED BY <2>1, <2>2, ReferencedReadable DEF PartsInv
<1> QED BY <1>2, <1>3, <1>4, <1>5, <1>6 DEF PartsInv, UnreadableOnlyOpen, Readable

-----------------------------------------------------------------------------
(* What the steps do to the parts                                           *)

\* Nothing is written, and at most a commit is given up.
LEMMA PartsKept ==
  ASSUME DiskOK, PartsInv, UNCHANGED <<diskVars, writers>>, committing' \subseteq committing,
         state' # "down" => state # "down"
  PROVE  DiskOK' /\ PartsInv'
<1>1. DiskOK' /\ Numbered' /\ ManifestBacked' /\ WritersOK' /\ UnreadableOnlyOpen'
  BY DEF DiskOK, PartsInv, Numbered, ManifestBacked, WritersOK, UnreadableOnlyOpen, Readable, diskVars
<1>2. CommittingOK'
  BY DEF PartsInv, CommittingOK, Readable, diskVars
<1> QED BY <1>1, <1>2 DEF PartsInv

\* The part a partition's rows go to is not one that can be read.
LEMMA PartOfFree ==
  ASSUME DiskOK, MemoryOK, PartsInv, NEW k \in Partitions
  PROVE  /\ PartOf(k) \in Part /\ PartOf(k)[1] = k /\ ~Readable(PartOf(k))
         /\ RowsOf(k) \in Seq(Days) /\ PendingOf(k) \in Seq(Days)
         /\ DaysIn(PendingOf(k)) \subseteq DaysIn(RowsOf(k))
<1>1. CASE k \in DOMAIN writers
  <2>1. writers[k] \in OpenPart
    BY <1>1 DEF MemoryOK
  <2>2. PartOf(k) = writers[k].part /\ RowsOf(k) = files[PartOf(k)].rows
        /\ PendingOf(k) = writers[k].pending
    BY <1>1 DEF PartOf, RowsOf, PendingOf
  <2>3. PartOf(k) \in DOMAIN files /\ PartOf(k)[1] = k /\ ~files[PartOf(k)].closed
        /\ DaysIn(writers[k].pending) \subseteq DaysIn(files[PartOf(k)].rows)
    BY <1>1, <2>2 DEF PartsInv, WritersOK
  <2>4. files[PartOf(k)].rows \in Seq(Days)
    BY <2>3 DEF DiskOK
  <2> QED BY <2>1, <2>2, <2>3, <2>4 DEF OpenPart, Readable
<1>2. CASE k \notin DOMAIN writers
  <2>1. PartOf(k) = NextPart(k) /\ RowsOf(k) = <<>> /\ PendingOf(k) = <<>>
    BY <1>2 DEF PartOf, RowsOf, PendingOf
  <2>2. NextPart(k) \in Part /\ NextPart(k) \notin DOMAIN files /\ NextPart(k)[1] = k
    BY NextPartNew DEF PartsInv
  <2> QED BY <2>1, <2>2 DEF Readable
<1> QED BY <1>1, <1>2

\* Rows are written to the open part of k.
LEMMA PartsAppend ==
  ASSUME DiskOK, MemoryOK, PartsInv, committing = {}, committing' = {}, state' = state,
         completedDays' = completedDays, emptyDays' = emptyDays,
         NEW k \in Partitions, NEW rows \in Seq(Days), NEW pending \in Seq(Days),
         DaysIn(pending) \subseteq DaysIn(rows),
         files' = With(files, PartOf(k), [closed |-> FALSE, rows |-> rows]),
         writers' = With(writers, k, [part |-> PartOf(k), pending |-> pending])
  PROVE  DiskOK' /\ MemoryOK' /\ PartsInv'
<1> DEFINE p == PartOf(k)
           v == [closed |-> FALSE, rows |-> rows]
           w == [part |-> p, pending |-> pending]
<1>1. p \in Part /\ p[1] = k /\ ~Readable(p)
  BY PartOfFree
<1>2. /\ v \in [closed : BOOLEAN, rows : Seq(Days)] /\ ~v.closed /\ v.rows = rows
      /\ w \in OpenPart /\ w.part = p /\ w.pending = pending
  BY <1>1 DEF OpenPart
<1>w. files' = With(files, p, v) /\ writers' = With(writers, k, w)
  OBVIOUS
<1> HIDE DEF p, v, w
<1>3. /\ DOMAIN files' = DOMAIN files \union {p} /\ files'[p] = v
      /\ \A q \in DOMAIN files : q # p => files'[q] = files[q]
  BY <1>w DEF With
<1>4. /\ DOMAIN writers' = DOMAIN writers \union {k} /\ writers'[k] = w
      /\ \A l \in DOMAIN writers : l # k => writers'[l] = writers[l]
  BY <1>w DEF With
<1>5. DiskOK'
  BY <1>1, <1>2, <1>3 DEF DiskOK
<1>6. MemoryOK'
  BY <1>2, <1>4 DEF MemoryOK
<1>7. Numbered'
  <2>1. PICK n \in Nat : \A q \in DOMAIN files : q[2] <= n
    BY DEF PartsInv, Numbered
  <2>2. p[2] \in Nat
    BY <1>1 DEF Part
  <2>3. \A q \in DOMAIN files : q[2] \in Nat
    BY DEF DiskOK, Part
  <2>4. n + p[2] \in Nat /\ \A q \in DOMAIN files' : q[2] <= n + p[2]
    BY <1>3, <2>1, <2>2, <2>3
  <2> QED BY <2>4 DEF Numbered
<1>8. ManifestBacked'
  <2> SUFFICES ASSUME NEW d \in DOMAIN completedDays, completedDays[d] # NoPart
               PROVE  completedDays[d] \in DOMAIN files' /\ files'[completedDays[d]].closed
                      /\ d \in DaysIn(files'[completedDays[d]].rows)
    BY DEF ManifestBacked, Readable
  <2>1. Readable(completedDays[d]) /\ d \in DaysIn(files[completedDays[d]].rows)
    BY DEF PartsInv, ManifestBacked
  <2> QED BY <1>1, <1>3, <2>1 DEF Readable
<1>9. WritersOK'
  <2> SUFFICES ASSUME NEW l \in DOMAIN writers'
               PROVE  /\ writers'[l].part \in DOMAIN files' /\ writers'[l].part[1] = l
                      /\ ~files'[writers'[l].part].closed
                      /\ DaysIn(writers'[l].pending) \subseteq DaysIn(files'[writers'[l].part].rows)
    BY DEF WritersOK
  <2>1. CASE l = k
    BY <1>1, <1>2, <1>3, <1>4, <2>1
  <2>2. CASE l # k
    <3>1. /\ l \in DOMAIN writers /\ writers'[l] = writers[l]
      BY <1>4, <2>2
    <3>2. /\ writers[l].part \in DOMAIN files /\ writers[l].part[1] = l
          /\ ~files[writers[l].part].closed
          /\ DaysIn(writers[l].pending) \subseteq DaysIn(files[writers[l].part].rows)
      BY <3>1 DEF PartsInv, WritersOK
    <3> QED BY <1>1, <1>3, <2>2, <3>1, <3>2
  <2> QED BY <2>1, <2>2
<1>10. CommittingOK'
  BY DEF CommittingOK
<1>11. UnreadableOnlyOpen'
  <2> SUFFICES ASSUME state # "down", NEW q \in DOMAIN files', ~files'[q].closed
               PROVE  \E l \in DOMAIN writers' : writers'[l].part = q
    BY DEF UnreadableOnlyOpen, Readable
  <2>1. CASE q = p
    BY <1>2, <1>4, <2>1
  <2>2. CASE q # p
    <3>1. q \in DOMAIN files /\ ~files[q].closed
      BY <1>3, <2>2
    <3>2. PICK l \in DOMAIN writers : writers[l].part = q
      BY <3>1 DEF PartsInv, UnreadableOnlyOpen, Readable
    <3>3. CASE l = k
      BY <2>2, <3>2, <3>3 DEF p, PartOf
    <3>4. CASE l # k
      BY <1>4, <3>2, <3>4
    <3> QED BY <3>3, <3>4
  <2> QED BY <2>1, <2>2
<1> QED BY <1>5, <1>6, <1>7, <1>8, <1>9, <1>10, <1>11 DEF PartsInv

\* The open part of k leaves _writers: it is deleted, or closed and about to be committed.
LEMMA PartsFlush ==
  ASSUME DiskOK, MemoryOK, PartsInv, committing = {}, state' = state,
         completedDays' = completedDays, emptyDays' = emptyDays,
         NEW k \in DOMAIN writers, writers' = Without(writers, k),
         \/ files' = Without(files, writers[k].part) /\ committing' = {}
         \/ files' = [files EXCEPT ![writers[k].part].closed = TRUE] /\ committing' = {writers[k]}
  PROVE  DiskOK' /\ MemoryOK' /\ PartsInv'
<1> DEFINE p == writers[k].part
<1>1. writers[k] \in OpenPart /\ p \in Part /\ writers[k].part = p
  BY DEF MemoryOK, OpenPart
<1>2. /\ p \in DOMAIN files /\ p[1] = k /\ ~files[p].closed
      /\ DaysIn(writers[k].pending) \subseteq DaysIn(files[p].rows)
  BY DEF PartsInv, WritersOK
<1>3. files[p] \in [closed : BOOLEAN, rows : Seq(Days)]
  BY <1>2 DEF DiskOK
<1>4. /\ DOMAIN files' \subseteq DOMAIN files
      /\ \A q \in DOMAIN files : q # p => q \in DOMAIN files' /\ files'[q] = files[q]
      /\ p \in DOMAIN files' => /\ files'[p] \in [closed : BOOLEAN, rows : Seq(Days)]
                                /\ files'[p].closed /\ files'[p].rows = files[p].rows
                                /\ committing' = {writers[k]}
      /\ committing' # {} => p \in DOMAIN files' /\ committing' = {writers[k]}
  <2>1. CASE files' = Without(files, p) /\ committing' = {}
    BY <2>1 DEF Without, Restrict
  <2>2. CASE files' = [files EXCEPT ![p].closed = TRUE] /\ committing' = {writers[k]}
    BY <1>2, <1>3, <2>2
  <2> QED BY <2>1, <2>2
<1>5. /\ DOMAIN writers' = DOMAIN writers \ {k}
      /\ \A l \in DOMAIN writers : l # k => writers'[l] = writers[l]
  BY DEF Without, Restrict
<1> HIDE DEF p
<1>6. DiskOK'
  BY <1>4 DEF DiskOK
<1>7. MemoryOK'
  BY <1>1, <1>4, <1>5 DEF MemoryOK
<1>8. Numbered'
  BY <1>4 DEF PartsInv, Numbered
<1>9. ManifestBacked'
  <2> SUFFICES ASSUME NEW d \in DOMAIN completedDays, completedDays[d] # NoPart
               PROVE  completedDays[d] \in DOMAIN files' /\ files'[completedDays[d]].closed
                      /\ d \in DaysIn(files'[completedDays[d]].rows)
    BY DEF ManifestBacked, Readable
  <2>1. Readable(completedDays[d]) /\ d \in DaysIn(files[completedDays[d]].rows)
    BY DEF PartsInv, ManifestBacked
  <2> QED BY <1>2, <1>4, <2>1 DEF Readable
<1>10. WritersOK'
  <2> SUFFICES ASSUME NEW l \in DOMAIN writers'
               PROVE  /\ writers'[l].part \in DOMAIN files' /\ writers'[l].part[1] = l
                      /\ ~files'[writers'[l].part].closed
                      /\ DaysIn(writers'[l].pending) \subseteq DaysIn(files'[writers'[l].part].rows)
    BY DEF WritersOK
  <2>1. l \in DOMAIN writers /\ l # k /\ writers'[l] = writers[l]
    BY <1>5
  <2>2. /\ writers[l].part \in DOMAIN files /\ writers[l].part[1] = l
        /\ ~files[writers[l].part].closed
        /\ DaysIn(writers[l].pending) \subseteq DaysIn(files[writers[l].part].rows)
    BY <2>1 DEF PartsInv, WritersOK
  <2> QED BY <1>2, <1>4, <2>1, <2>2
<1>11. CommittingOK'
  BY <1>1, <1>2, <1>4 DEF CommittingOK, Readable
<1>12. UnreadableOnlyOpen'
  <2> SUFFICES ASSUME state # "down", NEW q \in DOMAIN files', ~files'[q].closed
               PROVE  \E l \in DOMAIN writers' : writers'[l].part = q
    BY DEF UnreadableOnlyOpen, Readable
  <2>1. q # p /\ q \in DOMAIN files /\ ~files[q].closed
    BY <1>4
  <2>2. PICK l \in DOMAIN writers : writers[l].part = q
    BY <2>1 DEF PartsInv, UnreadableOnlyOpen, Readable
  <2> QED BY <1>1, <1>5, <2>1, <2>2
<1> QED BY <1>6, <1>7, <1>8, <1>9, <1>10, <1>11, <1>12 DEF PartsInv

\* A transaction changes the manifest: the days it enters are in the part it names.
LEMMA PartsRecord ==
  ASSUME DiskOK, PartsInv, files' = files, writers' = writers, state' = state,
         committing' \subseteq committing,
         NEW D \in SUBSET Days, NEW part \in Part \union {NoPart},
         part # NoPart => Readable(part) /\ D \subseteq DaysIn(files[part].rows),
         \/ Complete(D, part) /\ emptyDays' = emptyDays \ D
         \/ /\ completedDays' = Restrict(completedDays, DOMAIN completedDays \ D)
            /\ emptyDays' = emptyDays \union D
  PROVE  DiskOK' /\ PartsInv'
<1>1. /\ DOMAIN completedDays' \subseteq Days
      /\ \A d \in DOMAIN completedDays' :
           \/ d \in D /\ completedDays'[d] = part
           \/ d \in DOMAIN completedDays /\ completedDays'[d] = completedDays[d]
  BY DEF DiskOK, Complete, Restrict
<1>2. DiskOK'
  BY <1>1 DEF DiskOK
<1>3. Numbered' /\ WritersOK' /\ UnreadableOnlyOpen' /\ CommittingOK'
  BY DEF PartsInv, Numbered, WritersOK, UnreadableOnlyOpen, CommittingOK, Readable
<1>4. ManifestBacked'
  <2> SUFFICES ASSUME NEW d \in DOMAIN completedDays', completedDays'[d] # NoPart
               PROVE  Readable(completedDays'[d]) /\ d \in DaysIn(files[completedDays'[d]].rows)
    BY DEF ManifestBacked, Readable
  <2> QED BY <1>1 DEF PartsInv, ManifestBacked
<1> QED BY <1>2, <1>3, <1>4 DEF PartsInv

-----------------------------------------------------------------------------
(* Every action keeps Inv                                                   *)

\* A step under the lock: the process runs, somebody holds the lock, and the step is typed.
LEMMA Holding ==
  ASSUME Inv, steps # <<>>
  PROVE  /\ call # "none" /\ state # "down"
         /\ steps \in Seq(Step) /\ Head(steps) \in Step /\ Tail(steps) \in Seq(Step)
         /\ Head(steps).do = "append" => call # "close" /\ Lacks(Tail(steps), "sweep")
<1>1. steps \in Seq(Step) /\ call # "none" /\ state # "down"
  BY DEF Inv, TypeOK, LockOK
<1>2. Head(steps) \in Step /\ Tail(steps) \in Seq(Step) /\ Head(steps) = steps[1] /\ 1 \in DOMAIN steps
  BY <1>1
<1>3. ASSUME Head(steps).do = "append"
      PROVE  call # "close" /\ Lacks(Tail(steps), "sweep")
  <2>1. call # "close"
    BY <1>2, <1>3 DEF Inv, SweepsLast, Lacks
  <2>2. Lacks(steps, "sweep")
    BY <2>1 DEF Inv, SweepsLast
  <2> QED BY <1>1, <2>1, <2>2, LacksTail
<1> QED BY <1>1, <1>2, <1>3

\* An operation that raises has nothing left to do.
LEMMA RaiseKeeps ==
  ASSUME Inv, Raise, call # "none", state' = state, call' = call,
         UNCHANGED <<batch, taken, promised, recorded>>,
         committing' = {}, DiskOK', MemoryOK', PartsInv'
  PROVE  Inv'
<1>1. steps' = <<>> /\ HistoryOK'
  BY DEF Raise, Inv, TypeOK, HistoryOK
<1>2. LockOK'
  BY <1>1 DEF Inv, TypeOK, LockOK
<1>3. SweepsLast(call', steps', DOMAIN writers')
  BY <1>1 DEF SweepsLast, Lacks
<1> QED BY <1>1, <1>2, <1>3 DEF Inv, TypeOK

LEMMA OpenKeeps == Inv /\ Open => Inv'
<1> SUFFICES ASSUME Inv, Open PROVE Inv'
  OBVIOUS
<1>1. call = "none" /\ steps = <<>> /\ committing = {} /\ DOMAIN writers = {}
  BY DEF Open, Inv, TypeOK, LockOK
<1>2. DiskOK' /\ PartsInv'
  BY <1>1, SweepKeeps DEF Open, OpenSweep, Inv, TypeOK, lockVars
<1>3. MemoryOK' /\ LockOK' /\ HistoryOK'
  BY <1>1 DEF Open, Inv, TypeOK, MemoryOK, LockOK, HistoryOK, lockVars
<1>4. SweepsLast(call', steps', DOMAIN writers')
  BY <1>1 DEF Open, SweepsLast, Lacks, lockVars
<1> QED BY <1>2, <1>3, <1>4 DEF Inv, TypeOK

LEMMA UnlessType ==
  ASSUME NEW D \in SUBSET Days, NEW do \in {"empty", "missing"}
  PROVE  Unless(D, Record(do, D)) \in Seq(Step) /\ Lacks(Unless(D, Record(do, D)), "sweep")
<1> DEFINE r == Record(do, D)
<1>1. r \in Step /\ r.do # "sweep"
  BY StepTypes DEF Record
<1>2. Unless(D, r) = <<>> \/ Unless(D, r) = <<r>>
  BY DEF Unless
<1> HIDE DEF r
<1>3. Unless(D, r) \in Seq(Step) /\ Lacks(Unless(D, r), "sweep")
  <2>1. CASE Unless(D, r) = <<>>
    BY <2>1 DEF Lacks
  <2>2. CASE Unless(D, r) = <<r>>
    BY <1>1, <2>2 DEF Lacks
  <2> QED BY <1>2, <2>1, <2>2
<1> QED BY <1>3 DEF r

\* ingest_batch: what it will do is typed, and it sweeps nothing.
LEMMA IngestStepsType ==
  ASSUME NEW b \in Batch
  PROVE  IngestSteps(b) \in Seq(Step) /\ Lacks(IngestSteps(b), "sweep") /\ DaysOf(b) \subseteq Days
<1> DEFINE w == [i \in DOMAIN b.groups |-> Write(b.groups[i])]
           e == Unless(b.empty, Record("empty", b.empty))
           m == Unless(b.missing, Record("missing", b.missing))
<1>1. b.groups \in Seq(Group) /\ b.empty \subseteq Days /\ b.missing \subseteq Days
  BY DEF Batch
<1>2. \A i \in DOMAIN b.groups : Write(b.groups[i]) \in Step /\ Write(b.groups[i]).do # "sweep"
                                 /\ DaysIn(b.groups[i].days) \subseteq Days
  <2> SUFFICES ASSUME NEW i \in DOMAIN b.groups
               PROVE  Write(b.groups[i]) \in Step /\ Write(b.groups[i]).do # "sweep"
                      /\ DaysIn(b.groups[i].days) \subseteq Days
    OBVIOUS
  <2>1. b.groups[i] \in Group
    BY <1>1
  <2>2. b.groups[i].k \in Partitions /\ b.groups[i].days \in Seq(Days)
    BY <2>1 DEF Group
  <2> QED BY <2>2, StepTypes DEF Write, DaysIn
<1>3. w \in Seq(Step) /\ Lacks(w, "sweep")
  BY <1>1, <1>2 DEF Lacks
<1>4. e \in Seq(Step) /\ Lacks(e, "sweep") /\ m \in Seq(Step) /\ Lacks(m, "sweep")
  BY <1>1, UnlessType
<1>5. DaysOf(b) \subseteq Days
  <2> SUFFICES ASSUME NEW d \in DaysOf(b) PROVE d \in Days
    OBVIOUS
  <2>1. CASE d \in b.empty \union b.missing
    BY <1>1, <2>1
  <2>2. CASE \E i \in DOMAIN b.groups : d \in DaysIn(b.groups[i].days)
    <3>1. PICK i \in DOMAIN b.groups : d \in DaysIn(b.groups[i].days)
      BY <2>2
    <3> QED BY <1>2, <3>1
  <2> QED BY <2>1, <2>2 DEF DaysOf
<1>6. IngestSteps(b) = (w \o e) \o m
  BY DEF IngestSteps
<1> HIDE DEF w, e, m
<1> DEFINE v == w \o e
<1>7. v \in Seq(Step) /\ Lacks(v, "sweep")
  BY <1>3, <1>4, LacksConcat
<1> HIDE DEF v
<1>8. v \o m \in Seq(Step) /\ Lacks(v \o m, "sweep")
  BY <1>4, <1>7, LacksConcat
<1> QED BY <1>5, <1>6, <1>8 DEF v

LEMMA BeginIngestKeeps ==
  ASSUME Inv, NEW b \in Batch, BeginIngest(b)
  PROVE  Inv'
<1>2. IngestSteps(b) \in Seq(Step) /\ Lacks(IngestSteps(b), "sweep") /\ DaysOf(b) \subseteq Days
  BY IngestStepsType
<1>3. DiskOK' /\ PartsInv'
  BY PartsKept DEF BeginIngest, Inv, TypeOK, diskVars
<1>4. MemoryOK' /\ LockOK' /\ HistoryOK'
  BY <1>2 DEF BeginIngest, Inv, TypeOK, MemoryOK, LockOK, HistoryOK
<1>5. SweepsLast(call', steps', DOMAIN writers')
  BY <1>2, SweepsNever DEF BeginIngest
<1> QED BY <1>3, <1>4, <1>5 DEF Inv, TypeOK

LEMMA BeginCloseKeeps == Inv /\ BeginClose => Inv'
<1> SUFFICES ASSUME Inv, BeginClose PROVE Inv'
  OBVIOUS
<1>1. DiskOK' /\ PartsInv'
  BY PartsKept DEF BeginClose, Inv, TypeOK, diskVars
<1>2. <<FlushAll, Sweep>> \in Seq(Step)
  BY StepTypes
<1>3. MemoryOK' /\ LockOK' /\ HistoryOK'
  BY <1>2 DEF BeginClose, Inv, TypeOK, MemoryOK, LockOK, HistoryOK
<1>4. SweepsLast(call', steps', DOMAIN writers')
  BY DEF BeginClose, SweepsLast, Lacks, FlushAll, Sweep
<1> QED BY <1>1, <1>3, <1>4 DEF Inv, TypeOK

\* What an append carries, and what it leaves to do: nothing is swept outside close().
LEMMA AppendHead ==
  ASSUME Inv, At("append")
  PROVE  /\ Head(steps).k \in Partitions /\ Head(steps).days \in Seq(Days)
         /\ call # "close" /\ Lacks(Tail(steps), "sweep") /\ committing = {}
         /\ steps \in Seq(Step) /\ Tail(steps) \in Seq(Step) /\ steps # <<>>
         /\ call # "none" /\ state # "down"
BY Holding, StepKinds DEF At

\* Steps that are typed and do not sweep may take the place of an append.
LEMMA AppendReplaced ==
  ASSUME Inv, At("append"), NEW s \in Seq(Step), Lacks(s, "sweep"), steps' = s \o Tail(steps),
         call' = call, state' = state, UNCHANGED <<historyVars>>,
         committing' = {}, DiskOK', MemoryOK', PartsInv'
  PROVE  Inv'
<1> DEFINE t == Tail(steps)
<1>0. t \in Seq(Step) /\ Lacks(t, "sweep") /\ steps' = s \o t
  BY AppendHead
<1> HIDE DEF t
<1>1. steps' \in Seq(Step) /\ Lacks(steps', "sweep")
  BY <1>0, LacksConcat, Zenon
<1>2. LockOK' /\ HistoryOK'
  BY <1>1, AppendHead DEF Inv, TypeOK, LockOK, HistoryOK, historyVars
<1>3. SweepsLast(call', steps', DOMAIN writers')
  BY <1>1, AppendHead, SweepsNever
<1> QED BY <1>2, <1>3 DEF Inv, TypeOK

LEMMA FlushSeq ==
  ASSUME NEW k \in Partitions
  PROVE  <<Flush(k)>> \in Seq(Step) /\ Lacks(<<Flush(k)>>, "sweep")
<1> DEFINE f == Flush(k)
<1>1. f \in Step /\ f.do # "sweep"
  BY StepTypes DEF Flush
<1> HIDE DEF f
<1>2. <<f>> \in Seq(Step) /\ Lacks(<<f>>, "sweep")
  BY <1>1 DEF Lacks
<1> QED BY <1>2 DEF f

LEMMA AppendGroupKeeps == Inv /\ AppendGroup => Inv'
<1> SUFFICES ASSUME Inv, AppendGroup PROVE Inv'
  OBVIOUS
<1> DEFINE k == Head(steps).k
           ds == Head(steps).days
           pending == PendingOf(k) \o ds
           rows == RowsOf(k) \o ds
<1>1. At("append") /\ k \in Partitions /\ ds \in Seq(Days) /\ committing = {}
  BY AppendHead DEF AppendGroup
<1>2. /\ files' = With(files, PartOf(k), [closed |-> FALSE, rows |-> rows])
      /\ writers' = With(writers, k, [part |-> PartOf(k), pending |-> pending])
      /\ UNCHANGED <<completedDays, emptyDays, state, call, committing, historyVars>>
  BY DEF AppendGroup
<1>3. PICK roll \in BOOLEAN : steps' = (IF roll THEN <<Flush(k)>> ELSE <<>>) \o Tail(steps)
  BY DEF AppendGroup, Rolls
<1> DEFINE s == IF roll THEN <<Flush(k)>> ELSE <<>>
<1>4. s \in Seq(Step) /\ Lacks(s, "sweep") /\ steps' = s \o Tail(steps)
  <2>1. <<>> \in Seq(Step) /\ Lacks(<<>>, "sweep")
    BY DEF Lacks
  <2> QED BY <1>1, <1>3, <2>1, FlushSeq
<1>5. /\ pending \in Seq(Days) /\ rows \in Seq(Days) /\ DaysIn(pending) \subseteq DaysIn(rows)
  <2>1. RowsOf(k) \in Seq(Days) /\ PendingOf(k) \in Seq(Days)
        /\ DaysIn(PendingOf(k)) \subseteq DaysIn(RowsOf(k))
    BY <1>1, PartOfFree DEF Inv, TypeOK
  <2> QED BY <1>1, <2>1, DaysInConcat
<1> HIDE DEF k, ds, pending, rows, s
<1>6. DiskOK' /\ MemoryOK' /\ PartsInv'
  BY <1>1, <1>2, <1>5, PartsAppend DEF Inv, TypeOK
<1> QED BY <1>1, <1>2, <1>4, <1>6, AppendReplaced

LEMMA AppendFailsKeeps == Inv /\ AppendFails => Inv'
<1> SUFFICES ASSUME Inv, AppendFails PROVE Inv'
  OBVIOUS
<1> DEFINE k == Head(steps).k
<1>1. At("append") /\ k \in Partitions /\ committing = {} /\ call # "none"
  BY AppendHead DEF AppendFails
<1>2. /\ files' = With(files, PartOf(k), [closed |-> FALSE, rows |-> RowsOf(k)])
      /\ writers' = With(writers, k, [part |-> PartOf(k), pending |-> PendingOf(k)])
      /\ Raise
      /\ UNCHANGED <<completedDays, emptyDays, state, call, committing, batch, taken, promised, recorded>>
  BY DEF AppendFails
<1> HIDE DEF k
<1>3. RowsOf(k) \in Seq(Days) /\ PendingOf(k) \in Seq(Days)
      /\ DaysIn(PendingOf(k)) \subseteq DaysIn(RowsOf(k))
  BY <1>1, PartOfFree DEF Inv, TypeOK
<1>4. DiskOK' /\ MemoryOK' /\ PartsInv'
  BY <1>1, <1>2, <1>3, PartsAppend DEF Inv, TypeOK
<1> QED BY <1>1, <1>2, <1>4, RaiseKeeps

LEMMA SplitGroupKeeps == Inv /\ SplitGroup => Inv'
<1> SUFFICES ASSUME Inv, SplitGroup PROVE Inv'
  OBVIOUS
<1> DEFINE group == Head(steps)
           w(i) == [do |-> "append", k |-> group.k, days |-> <<group.days[i]>>]
           s == [i \in DOMAIN group.days |-> w(i)]
<1>1. At("append") /\ group.k \in Partitions /\ group.days \in Seq(Days)
  BY AppendHead DEF SplitGroup
<1>2. \A i \in DOMAIN group.days : w(i) \in Step /\ w(i).do # "sweep"
  <2> SUFFICES ASSUME NEW i \in DOMAIN group.days PROVE w(i) \in Step /\ w(i).do # "sweep"
    OBVIOUS
  <2>1. <<group.days[i]>> \in Seq(Days)
    BY <1>1
  <2> QED BY <1>1, <2>1, StepTypes
<1> HIDE DEF w
<1>3. s \in Seq(Step) /\ Lacks(s, "sweep")
  BY <1>1, <1>2 DEF Lacks
<1>4. steps' = s \o Tail(steps) /\ UNCHANGED <<diskVars, state, writers, call, committing, historyVars>>
  BY DEF SplitGroup, w
<1> HIDE DEF s, group
<1>5. DiskOK' /\ PartsInv' /\ MemoryOK'
  BY <1>4, PartsKept DEF Inv, TypeOK, MemoryOK
<1>6. committing' = {}
  BY <1>1, <1>4 DEF At
<1> QED BY <1>1, <1>3, <1>4, <1>5, <1>6, AppendReplaced

LEMMA RollForSchemaKeeps == Inv /\ RollForSchema => Inv'
<1> SUFFICES ASSUME Inv, RollForSchema PROVE Inv'
  OBVIOUS
<1> DEFINE s == <<Flush(Head(steps).k)>>
<1>1. At("append") /\ s \in Seq(Step) /\ Lacks(s, "sweep") /\ call # "close" /\ call # "none"
      /\ steps \in Seq(Step) /\ Lacks(steps, "sweep") /\ state # "down"
  BY AppendHead, FlushSeq DEF RollForSchema, Inv, SweepsLast
<1>2. steps' = s \o steps /\ UNCHANGED <<diskVars, state, writers, call, committing, historyVars>>
  BY DEF RollForSchema
<1> HIDE DEF s
<1>3. steps' \in Seq(Step) /\ Lacks(steps', "sweep")
  BY <1>1, <1>2, LacksConcat
<1>4. DiskOK' /\ PartsInv' /\ MemoryOK' /\ LockOK' /\ HistoryOK'
  BY <1>1, <1>2, <1>3, PartsKept DEF Inv, TypeOK, MemoryOK, LockOK, HistoryOK, historyVars
<1>5. SweepsLast(call', steps', DOMAIN writers')
  BY <1>1, <1>2, <1>3, SweepsNever
<1> QED BY <1>4, <1>5 DEF Inv, TypeOK

\* After a step other than "flush_all" the rest is done as before.
LEMMA StepDone ==
  ASSUME Inv, steps # <<>>, Head(steps).do # "flush_all" \/ DOMAIN writers' = {},
         steps' = Tail(steps), call' = call, state' = state, HistoryOK',
         DiskOK', MemoryOK', PartsInv'
  PROVE  Inv'
<1>1. steps' \in Seq(Step) /\ call # "none" /\ state # "down" /\ steps \in Seq(Step)
  BY Holding
<1>2. LockOK'
  BY <1>1 DEF Inv, TypeOK, LockOK
<1>3. SweepsLast(call', steps', DOMAIN writers')
  BY <1>1, SweepsTail DEF Inv
<1> QED BY <1>2, <1>3 DEF Inv, TypeOK

LEMMA ClosePartKeeps == Inv /\ ClosePart => Inv'
<1> SUFFICES ASSUME Inv, ClosePart PROVE Inv'
  OBVIOUS
<1> DEFINE k == Head(steps).k
<1>1. /\ At("flush") /\ k \in DOMAIN writers /\ writers' = Without(writers, k)
      /\ \/ files' = Without(files, writers[k].part) /\ committing' = committing
         \/ files' = [files EXCEPT ![writers[k].part].closed = TRUE] /\ committing' = {writers[k]}
      /\ steps' = Tail(steps)
      /\ UNCHANGED <<completedDays, emptyDays, state, call, historyVars>>
  BY DEF ClosePart
<1>2. steps # <<>> /\ committing = {} /\ Head(steps).do = "flush"
  BY <1>1 DEF At
<1> HIDE DEF k
<1>3. DiskOK' /\ MemoryOK' /\ PartsInv'
  BY <1>1, <1>2, PartsFlush DEF Inv, TypeOK
<1>4. HistoryOK'
  BY <1>1 DEF Inv, TypeOK, HistoryOK, historyVars
<1> QED BY <1>1, <1>2, <1>3, <1>4, StepDone

LEMMA ClosePartFailsKeeps == Inv /\ ClosePartFails => Inv'
<1> SUFFICES ASSUME Inv, ClosePartFails PROVE Inv'
  OBVIOUS
<1> DEFINE k == Head(steps).k
<1>1. /\ At("flush") /\ k \in DOMAIN writers /\ writers' = Without(writers, k)
      /\ files' = Without(files, writers[k].part) /\ Raise
      /\ UNCHANGED <<completedDays, emptyDays, state, call, committing, batch, taken, promised, recorded>>
  BY DEF ClosePartFails
<1>2. committing = {} /\ call # "none"
  BY <1>1, Holding DEF At
<1> HIDE DEF k
<1>3. DiskOK' /\ MemoryOK' /\ PartsInv'
  BY <1>1, <1>2, PartsFlush DEF Inv, TypeOK
<1> QED BY <1>1, <1>2, <1>3, RaiseKeeps

\* A commit is under way only while the lock is held.
LEMMA CommittingHeld ==
  ASSUME Inv, committing # {}
  PROVE  call # "none" /\ state # "down"
BY DEF Inv, TypeOK, LockOK

LEMMA CommitPartKeeps == Inv /\ CommitPart => Inv'
<1> SUFFICES ASSUME Inv, CommitPart PROVE Inv'
  OBVIOUS
<1>1. PICK c \in committing : LET D == DaysIn(c.pending)
                            IN  /\ Complete(D, c.part)
                                /\ emptyDays' = emptyDays \ D
                                /\ recorded' = recorded \union D
  BY DEF CommitPart
<1>2. c \in OpenPart /\ Readable(c.part) /\ DaysIn(c.pending) \subseteq DaysIn(files[c.part].rows)
  BY DEF Inv, TypeOK, MemoryOK, PartsInv, CommittingOK
<1>3. DaysIn(c.pending) \in SUBSET Days /\ c.part \in Part
  BY <1>2 DEF OpenPart, DaysIn
<1>4. /\ UNCHANGED <<files, state, writers, call, steps, batch, outcome, taken, promised, troubled>>
      /\ committing' = {}
  BY DEF CommitPart
<1>5. DiskOK' /\ PartsInv'
  BY <1>1, <1>2, <1>3, <1>4, PartsRecord DEF Inv, TypeOK
<1>6. MemoryOK' /\ LockOK' /\ HistoryOK'
  BY <1>1, <1>3, <1>4, CommittingHeld DEF Inv, TypeOK, MemoryOK, LockOK, HistoryOK
<1>7. SweepsLast(call', steps', DOMAIN writers')
  BY <1>4 DEF Inv
<1> QED BY <1>5, <1>6, <1>7 DEF Inv, TypeOK

LEMMA CommitFailsKeeps == Inv /\ CommitFails => Inv'
<1> SUFFICES ASSUME Inv, CommitFails PROVE Inv'
  OBVIOUS
<1>1. /\ committing' = {} /\ Raise /\ call # "none"
      /\ UNCHANGED <<diskVars, state, writers, call, batch, taken, promised, recorded>>
  BY CommittingHeld DEF CommitFails
<1>2. DiskOK' /\ PartsInv' /\ MemoryOK'
  BY <1>1, PartsKept DEF Inv, TypeOK, MemoryOK
<1> QED BY <1>1, <1>2, RaiseKeeps

LEMMA RecordEmptyKeeps == Inv /\ RecordEmpty => Inv'
<1> SUFFICES ASSUME Inv, RecordEmpty PROVE Inv'
  OBVIOUS
<1> DEFINE D == Head(steps).days
<1>1. /\ At("empty") /\ Complete(D, NoPart) /\ emptyDays' = emptyDays \ D
      /\ recorded' = recorded \union D /\ steps' = Tail(steps)
      /\ UNCHANGED <<files, state, writers, call, committing, batch, outcome, taken, promised, troubled>>
  BY DEF RecordEmpty
<1>2. steps # <<>> /\ Head(steps).do = "empty" /\ D \in SUBSET Days
  BY <1>1, Holding, StepKinds DEF At
<1> HIDE DEF D
<1>3. DiskOK' /\ PartsInv'
  BY <1>1, <1>2, PartsRecord DEF Inv, TypeOK
<1>4. MemoryOK' /\ HistoryOK'
  BY <1>1, <1>2 DEF Inv, TypeOK, MemoryOK, HistoryOK
<1> QED BY <1>1, <1>2, <1>3, <1>4, StepDone

LEMMA RecordMissingKeeps == Inv /\ RecordMissing => Inv'
<1> SUFFICES ASSUME Inv, RecordMissing PROVE Inv'
  OBVIOUS
<1> DEFINE D == Head(steps).days
<1>1. /\ At("missing") /\ emptyDays' = emptyDays \union D
      /\ completedDays' = Restrict(completedDays, DOMAIN completedDays \ D)
      /\ recorded' = recorded \union D /\ steps' = Tail(steps)
      /\ UNCHANGED <<files, state, writers, call, committing, batch, outcome, taken, promised, troubled>>
  BY DEF RecordMissing
<1>2. steps # <<>> /\ Head(steps).do = "missing" /\ D \in SUBSET Days
  BY <1>1, Holding, StepKinds DEF At
<1> HIDE DEF D
<1>3. DiskOK' /\ PartsInv'
  BY <1>1, <1>2, PartsRecord DEF Inv, TypeOK
<1>4. MemoryOK' /\ HistoryOK'
  BY <1>1, <1>2 DEF Inv, TypeOK, MemoryOK, HistoryOK
<1> QED BY <1>1, <1>2, <1>3, <1>4, StepDone

LEMMA RecordFailsKeeps == Inv /\ RecordFails => Inv'
<1> SUFFICES ASSUME Inv, RecordFails PROVE Inv'
  OBVIOUS
<1>1. /\ steps # <<>> /\ committing = {} /\ Raise
      /\ UNCHANGED <<diskVars, state, writers, call, committing, batch, taken, promised, recorded>>
  BY DEF RecordFails, At
<1>2. DiskOK' /\ PartsInv' /\ MemoryOK'
  BY <1>1, PartsKept DEF Inv, TypeOK, MemoryOK
<1> QED BY <1>1, <1>2, Holding, RaiseKeeps

LEMMA FlushNextKeeps == Inv /\ FlushNext => Inv'
<1> SUFFICES ASSUME Inv, FlushNext PROVE Inv'
  OBVIOUS
<1>1. /\ At("flush_all") /\ UNCHANGED <<diskVars, state, writers, call, committing, historyVars>>
      /\ steps # <<>> /\ Head(steps).do = "flush_all"
  BY DEF FlushNext, At
<1>2. DiskOK' /\ PartsInv' /\ MemoryOK' /\ HistoryOK'
  BY <1>1, PartsKept DEF Inv, TypeOK, MemoryOK, HistoryOK, historyVars
<1>3. CASE \E k \in DOMAIN writers : steps' = <<Flush(k)>> \o steps
  <2>1. PICK k \in DOMAIN writers : steps' = <<Flush(k)>> \o steps
    BY <1>3
  <2>2. k \in Partitions /\ steps \in Seq(Step) /\ call # "none" /\ state # "down"
    BY <1>1, Holding DEF Inv, TypeOK, MemoryOK
  <2> DEFINE f == <<Flush(k)>>
  <2>3. f \in Seq(Step)
    BY <2>2, FlushSeq
  <2>4. SweepsLast(call, f \o steps, DOMAIN writers)
    BY <1>1, <2>2, SweepsFlush DEF Inv
  <2>5. steps' = f \o steps
    BY <2>1
  <2> HIDE DEF f
  <2>6. steps' \in Seq(Step)
    BY <2>2, <2>3, <2>5
  <2>7. LockOK'
    BY <1>1, <2>2, <2>6 DEF Inv, TypeOK, LockOK
  <2> QED BY <1>1, <1>2, <2>4, <2>5, <2>7 DEF Inv, TypeOK
<1>4. CASE DOMAIN writers = {} /\ steps' = Tail(steps)
  BY <1>1, <1>2, <1>4, StepDone
<1> QED BY <1>3, <1>4 DEF FlushNext

LEMMA SweepAndCloseKeeps == Inv /\ SweepAndClose => Inv'
<1> SUFFICES ASSUME Inv, SweepAndClose PROVE Inv'
  OBVIOUS
<1>1. /\ steps # <<>> /\ committing = {} /\ Head(steps).do = "sweep"
      /\ files' = Swept /\ state' = "closed" /\ steps' = Tail(steps)
      /\ UNCHANGED <<completedDays, emptyDays, writers, call, committing, historyVars>>
  BY DEF SweepAndClose, At
<1>2. steps \in Seq(Step) /\ call # "none" /\ steps[1].do = "sweep" /\ 1 \in DOMAIN steps
  BY <1>1, Holding
<1>3. DOMAIN writers = {}
  BY <1>2 DEF Inv, SweepsLast
<1>4. DiskOK' /\ PartsInv'
  BY <1>1, <1>3, SweepKeeps DEF Inv, TypeOK
<1>5. MemoryOK' /\ HistoryOK'
  BY <1>1 DEF Inv, TypeOK, MemoryOK, HistoryOK, historyVars
<1>6. steps' \in Seq(Step)
  BY <1>1, <1>2
<1>7. LockOK'
  BY <1>1, <1>2, <1>6 DEF Inv, TypeOK, LockOK
<1>8. SweepsLast(call', steps', DOMAIN writers')
  BY <1>1, <1>2, SweepsTail DEF Inv
<1> QED BY <1>4, <1>5, <1>7, <1>8 DEF Inv, TypeOK

LEMMA ReturnKeeps == Inv /\ Return => Inv'
<1> SUFFICES ASSUME Inv, Return PROVE Inv'
  OBVIOUS
<1>1. /\ steps = <<>> /\ committing = {} /\ call' = "none" /\ promised' \subseteq promised \union batch
      /\ UNCHANGED <<diskVars, state, writers, steps, committing, batch, outcome, taken, troubled, recorded>>
  BY DEF Return
<1>2. DiskOK' /\ PartsInv'
  BY <1>1, PartsKept DEF Inv, TypeOK
<1>3. MemoryOK' /\ LockOK' /\ HistoryOK'
  BY <1>1 DEF Inv, TypeOK, MemoryOK, LockOK, HistoryOK
<1>4. SweepsLast(call', steps', DOMAIN writers')
  BY <1>1 DEF SweepsLast, Lacks
<1> QED BY <1>2, <1>3, <1>4 DEF Inv, TypeOK

\* A kill leaves the files as they are; the restart will sweep them.
LEMMA ExitKeeps == Inv /\ Exit => Inv'
<1> SUFFICES ASSUME Inv, Exit PROVE Inv'
  OBVIOUS
<1>1. /\ state' = "down" /\ DOMAIN writers' = {} /\ call' = "none" /\ steps' = <<>> /\ committing' = {}
      /\ UNCHANGED <<diskVars, historyVars>>
  BY DEF Exit, EmptyMap
<1>2. DiskOK' /\ Numbered' /\ ManifestBacked'
  BY <1>1 DEF Inv, TypeOK, PartsInv, DiskOK, Numbered, ManifestBacked, Readable, diskVars
<1>3. WritersOK' /\ CommittingOK' /\ UnreadableOnlyOpen'
  BY <1>1 DEF WritersOK, CommittingOK, UnreadableOnlyOpen
<1>4. MemoryOK' /\ LockOK' /\ HistoryOK'
  BY <1>1 DEF Inv, TypeOK, MemoryOK, LockOK, HistoryOK, historyVars
<1>5. SweepsLast(call', steps', DOMAIN writers')
  BY <1>1 DEF SweepsLast, Lacks
<1> QED BY <1>2, <1>3, <1>4, <1>5 DEF Inv, TypeOK, PartsInv

LEMMA StutterKeeps == Inv /\ UNCHANGED storeVars => Inv'
<1> SUFFICES ASSUME Inv, UNCHANGED storeVars PROVE Inv'
  OBVIOUS
<1>1. UNCHANGED <<diskVars, state, writers, lockVars, historyVars>>
  BY DEF storeVars
<1>2. DiskOK' /\ PartsInv'
  BY <1>1, PartsKept DEF Inv, TypeOK, lockVars
<1>3. MemoryOK' /\ LockOK' /\ HistoryOK' /\ SweepsLast(call', steps', DOMAIN writers')
  BY <1>1 DEF Inv, TypeOK, MemoryOK, LockOK, HistoryOK, lockVars, historyVars
<1> QED BY <1>2, <1>3 DEF Inv, TypeOK

-----------------------------------------------------------------------------
(* The theorems                                                             *)

LEMMA InitInv == Init => Inv
<1> SUFFICES ASSUME Init PROVE Inv
  OBVIOUS
<1>1. DOMAIN files = {} /\ DOMAIN completedDays = {} /\ DOMAIN writers = {}
      /\ emptyDays = {} /\ state = "down" /\ call = "none" /\ steps = <<>> /\ committing = {}
  BY DEF Init, EmptyMap
<1>2. DiskOK /\ MemoryOK /\ HistoryOK
  BY <1>1 DEF Init, DiskOK, MemoryOK, HistoryOK
<1>5. LockOK
  BY <1>1 DEF LockOK
<1>3. PartsInv
  BY <1>1 DEF PartsInv, Numbered, ManifestBacked, WritersOK, CommittingOK, UnreadableOnlyOpen
<1>4. SweepsLast(call, steps, DOMAIN writers)
  BY <1>1 DEF SweepsLast, Lacks
<1> QED BY <1>2, <1>3, <1>4, <1>5 DEF Inv, TypeOK

\* A use of the store, by whatever caller.
Used ==
  \/ Open \/ BeginClose \/ StoreStep \/ Return \/ Exit
  \/ \E b \in Batch : BeginIngest(b)

LEMMA NextUsed == Next => Used
BY StoreAssumption DEF Next, Used

LEMMA UsedInv == Inv /\ [Used]_storeVars => Inv'
<1> SUFFICES ASSUME Inv, [Used]_storeVars PROVE Inv'
  OBVIOUS
<1>1. CASE Open                    BY <1>1, OpenKeeps
<1>2. CASE \E b \in Batch : BeginIngest(b)
                                   BY <1>2, BeginIngestKeeps
<1>3. CASE BeginClose              BY <1>3, BeginCloseKeeps
<1>4. CASE AppendGroup             BY <1>4, AppendGroupKeeps
<1>5. CASE AppendFails             BY <1>5, AppendFailsKeeps
<1>6. CASE SplitGroup              BY <1>6, SplitGroupKeeps
<1>7. CASE RollForSchema           BY <1>7, RollForSchemaKeeps
<1>8. CASE ClosePart               BY <1>8, ClosePartKeeps
<1>9. CASE ClosePartFails          BY <1>9, ClosePartFailsKeeps
<1>10. CASE CommitPart             BY <1>10, CommitPartKeeps
<1>11. CASE CommitFails            BY <1>11, CommitFailsKeeps
<1>12. CASE RecordEmpty            BY <1>12, RecordEmptyKeeps
<1>13. CASE RecordMissing          BY <1>13, RecordMissingKeeps
<1>14. CASE RecordFails            BY <1>14, RecordFailsKeeps
<1>15. CASE FlushNext              BY <1>15, FlushNextKeeps
<1>16. CASE SweepAndClose          BY <1>16, SweepAndCloseKeeps
<1>17. CASE Return                 BY <1>17, ReturnKeeps
<1>18. CASE Exit                   BY <1>18, ExitKeeps
<1>19. CASE UNCHANGED storeVars    BY <1>19, StutterKeeps
<1> QED BY <1>1, <1>2, <1>3, <1>4, <1>5, <1>6, <1>7, <1>8, <1>9, <1>10, <1>11, <1>12, <1>13,
           <1>14, <1>15, <1>16, <1>17, <1>18, <1>19 DEF Used, StoreStep

LEMMA StoreInvariant == Spec => []Inv
<1>1. Init => Inv  BY InitInv
<1>2. Inv /\ [Next]_storeVars => Inv'  BY NextUsed, UsedInv
<1> QED BY <1>1, <1>2, PTL DEF Spec

-----------------------------------------------------------------------------
(* What ingest_batch makes of its results                                   *)

\* The first values of the function that Picked is read off.
Equation(f, s, places, m) ==
  f = [n \in 0 .. m |-> IF n = 0 THEN <<>> ELSE IF n \in places THEN Append(f[n - 1], s[n]) ELSE f[n - 1]]

\* The recursion of Picked has a solution: if the first m values had none, they had none for
\* a least m.
LEMMA PickedEquation ==
  ASSUME NEW s, Len(s) \in Nat, NEW places
  PROVE  \E f : Equation(f, s, places, Len(s)) /\ Picked(s, places) = f[Len(s)]
<1> DEFINE Lost == {m \in Nat : ~\E f : Equation(f, s, places, m)}
<1>1. Lost = {}
  <2> SUFFICES ASSUME Lost # {} PROVE FALSE
    OBVIOUS
  <2>1. PICK m \in Lost : \A k \in Lost : m <= k
    BY LeastNumber
  <2>2. CASE m = 0
    <3> DEFINE f == [n \in 0 .. 0 |-> <<>>]
    <3>1. Equation(f, s, places, 0)
      BY DEF Equation
    <3> QED BY <2>1, <2>2, <3>1
  <2>3. CASE m # 0
    <3>1. m - 1 \in Nat /\ m - 1 \notin Lost
      BY <2>1, <2>3
    <3>2. PICK g : Equation(g, s, places, m - 1)
      BY <3>1
    <3> DEFINE f == [n \in 0 .. m |-> IF n = m THEN IF m \in places THEN Append(g[m - 1], s[m]) ELSE g[m - 1] ELSE g[n]]
    <3>3. \A n \in 0 .. m - 1 : f[n] = g[n]
      BY <3>1
    <3>4. \A n \in 0 .. m - 1 : g[n] = IF n = 0 THEN <<>> ELSE IF n \in places THEN Append(g[n - 1], s[n]) ELSE g[n - 1]
      BY <3>2 DEF Equation
    <3>5. \A n \in 0 .. m : f[n] = IF n = 0 THEN <<>> ELSE IF n \in places THEN Append(f[n - 1], s[n]) ELSE f[n - 1]
      <4> TAKE n \in 0 .. m
      <4>1. CASE n = m  BY <4>1, <3>1, <3>3, <2>3
      <4>2. CASE n # m
        <5>1. n \in 0 .. m - 1 /\ (n # 0 => n - 1 \in 0 .. m - 1)
          BY <4>2, <3>1
        <5>2. f[n] = g[n] /\ (n # 0 => f[n - 1] = g[n - 1])
          BY <5>1, <3>3
        <5> HIDE DEF f
        <5> QED BY <5>1, <5>2, <3>4
      <4> QED BY <4>1, <4>2
    <3>6. Equation(f, s, places, m)
      <4> HIDE DEF f
      <4>1. f = [n \in 0 .. m |-> f[n]]  BY DEF f
      <4> QED BY <3>5, <4>1 DEF Equation
    <3> QED BY <2>1, <3>6
  <2> QED BY <2>2, <2>3
<1>2. \E f : Equation(f, s, places, Len(s))
  BY <1>1
<1> DEFINE h == CHOOSE f : Equation(f, s, places, Len(s))
<1>3. Equation(h, s, places, Len(s))
  BY <1>2
<1>4. Picked(s, places) = h[Len(s)]
  BY DEF Picked, Equation
<1> QED BY <1>3, <1>4

\* q holds the elements of s at places up to m, in the order of s: the i-th is the one at[i].
PicksUpTo(q, s, places, at, m) ==
  /\ at \in [1 .. Len(q) -> {p \in places : p <= m}]
  /\ \A i \in 1 .. Len(q) : q[i] = s[at[i]]
  /\ \A i, j \in 1 .. Len(q) : i < j => at[i] < at[j]
  /\ \A p \in places : p <= m => \E i \in 1 .. Len(q) : at[i] = p

LEMMA PickedInOrder ==
  ASSUME NEW T, NEW s \in Seq(T), NEW places \in SUBSET DOMAIN s
  PROVE  /\ Picked(s, places) \in Seq(T)
         /\ \E at : PicksUpTo(Picked(s, places), s, places, at, Len(s))
<1>1. PICK f : Equation(f, s, places, Len(s)) /\ Picked(s, places) = f[Len(s)]
  BY PickedEquation
<1>2. \A n \in 0 .. Len(s) : f[n] = IF n = 0 THEN <<>> ELSE IF n \in places THEN Append(f[n - 1], s[n]) ELSE f[n - 1]
  BY <1>1 DEF Equation
<1> DEFINE Good(m) == f[m] \in Seq(T) /\ \E at : PicksUpTo(f[m], s, places, at, m)
           Bad == {m \in 0 .. Len(s) : ~Good(m)}
<1>3. Bad = {}
  <2> SUFFICES ASSUME Bad # {} PROVE FALSE
    OBVIOUS
  <2>1. PICK m \in Bad : \A k \in Bad : m <= k
    <3> Bad \in SUBSET Nat  OBVIOUS
    <3> HIDE DEF Bad
    <3> QED BY LeastNumber
  <2>2. m \in 0 .. Len(s) /\ ~Good(m) /\ places \subseteq 1 .. Len(s)
    OBVIOUS
  <2>3. m # 0
    <3> SUFFICES ASSUME m = 0 PROVE FALSE
      OBVIOUS
    <3>1. f[0] = <<>>
      BY <1>2
    <3> DEFINE at == [i \in 1 .. 0 |-> 0]
    <3>2. PicksUpTo(f[0], s, places, at, 0)
      BY <3>1, <2>2 DEF PicksUpTo
    <3> HIDE DEF at
    <3> QED BY <3>1, <3>2, <2>2
  <2>4. m - 1 \in 0 .. Len(s) /\ m \in 1 .. Len(s) /\ Good(m - 1)
    <3>1. m - 1 \in 0 .. Len(s) /\ m \in 1 .. Len(s) /\ ~(m <= m - 1)
      BY <2>2, <2>3
    <3>2. m - 1 \notin Bad
      <4> HIDE DEF Bad
      <4> QED BY <3>1, <2>1
    <3> QED BY <3>1, <3>2
  <2>5. PICK at : PicksUpTo(f[m - 1], s, places, at, m - 1)
    BY <2>4
  <2> DEFINE q == f[m - 1]
  <2>6. q \in Seq(T) /\ f[m] = IF m \in places THEN Append(q, s[m]) ELSE q
    BY <2>4, <2>3, <1>2
  <2> HIDE DEF q
  <2>a. PicksUpTo(q, s, places, at, m - 1)
    BY <2>5 DEF q
  <2>b. \A i \in 1 .. Len(q) : at[i] \in places /\ at[i] <= m - 1 /\ at[i] \in Nat /\ q[i] = s[at[i]]
    <3>1. \A i \in 1 .. Len(q) : at[i] \in {p \in places : p <= m - 1} /\ q[i] = s[at[i]]
      BY <2>a DEF PicksUpTo
    <3> QED BY <3>1, <2>2
  <2>7. CASE m \notin places
    <3>0. \A p \in places : p <= m <=> p <= m - 1
      <4> TAKE p \in places
      <4>1. p \in Nat /\ m \in Nat /\ p # m  BY <2>2, <2>7
      <4> QED BY <4>1
    <3>1. PicksUpTo(q, s, places, at, m)
      <4>1. {p \in places : p <= m} = {p \in places : p <= m - 1}  BY <3>0
      <4> QED BY <2>a, <3>0, <4>1 DEF PicksUpTo
    <3> QED BY <3>1, <2>6, <2>7, <2>2
  <2>8. CASE m \in places
    <3> DEFINE n == Len(q) + 1
               at2 == [i \in 1 .. n |-> IF i = n THEN m ELSE at[i]]
               q2 == Append(q, s[m])
    <3>1. s[m] \in T /\ q2 \in Seq(T) /\ Len(q2) = n /\ n \in Nat /\ q2[n] = s[m]
          /\ \A i \in 1 .. Len(q) : q2[i] = q[i]
      BY <2>4, <2>6
    <3>2. \A i \in 1 .. n : i # n => i \in 1 .. Len(q)
      BY <2>6
    <3> HIDE DEF q2, n
    <3>3. \A i \in 1 .. n : at2[i] \in places /\ at2[i] <= m /\ q2[i] = s[at2[i]]
      <4> TAKE i \in 1 .. n
      <4>1. CASE i = n  BY <4>1, <3>1, <2>8, <2>4
      <4>2. CASE i # n
        <5>1. i \in 1 .. Len(q) /\ at2[i] = at[i]  BY <4>2, <3>2
        <5>2. at[i] \in places /\ at[i] <= m - 1 /\ at[i] \in Nat /\ q[i] = s[at[i]]  BY <5>1, <2>b
        <5>3. at[i] <= m  BY <5>2, <2>2
        <5> QED BY <5>1, <5>2, <5>3, <3>1
      <4> QED BY <4>1, <4>2
    <3>4. \A i, j \in 1 .. n : i < j => at2[i] < at2[j]
      <4> TAKE i \in 1 .. n, j \in 1 .. n
      <4> HAVE i < j
      <4>0. i # n
        BY <3>1
      <4>1. i \in 1 .. Len(q) /\ at2[i] = at[i] /\ at[i] \in places /\ at[i] <= m - 1 /\ at[i] \in Nat
        BY <4>0, <3>2, <2>b
      <4>2. CASE j = n  BY <4>1, <4>2, <2>4, <2>2
      <4>3. CASE j # n
        <5>1. j \in 1 .. Len(q) /\ at2[j] = at[j]  BY <4>3, <3>2
        <5> QED BY <4>1, <5>1, <2>a DEF PicksUpTo
      <4> QED BY <4>2, <4>3
    <3>5. \A p \in places : p <= m => \E i \in 1 .. n : at2[i] = p
      <4> SUFFICES ASSUME NEW p \in places, p <= m PROVE \E i \in 1 .. n : at2[i] = p
        OBVIOUS
      <4>1. CASE p = m  BY <4>1, <3>1 DEF n
      <4>2. CASE p # m
        <5>1. p <= m - 1  BY <4>2, <2>2, <2>4
        <5>2. PICK i \in 1 .. Len(q) : at[i] = p  BY <5>1, <2>a DEF PicksUpTo
        <5>3. i \in 1 .. n /\ i # n  BY <2>6 DEF n
        <5> QED BY <5>2, <5>3
      <4> QED BY <4>1, <4>2
    <3>6. PicksUpTo(q2, s, places, at2, m)
      <4>1. at2 \in [1 .. Len(q2) -> {p \in places : p <= m}]  BY <3>1, <3>3
      <4> HIDE DEF at2
      <4> QED BY <4>1, <3>1, <3>3, <3>4, <3>5 DEF PicksUpTo
    <3> HIDE DEF at2
    <3> QED BY <3>1, <3>6, <2>6, <2>8, <2>2 DEF q2
  <2> QED BY <2>7, <2>8
<1>4. Good(Len(s))
  BY <1>3
<1> QED BY <1>1, <1>4

\* The elements of Picked(s, places) are those of s at the places, each as often.
LEMMA PickedElements ==
  ASSUME NEW T, NEW s \in Seq(T), NEW places \in SUBSET DOMAIN s
  PROVE  /\ Picked(s, places) \in Seq(T)
         /\ \A i \in DOMAIN Picked(s, places) : \E p \in places : Picked(s, places)[i] = s[p]
         /\ \A p \in places : \E i \in DOMAIN Picked(s, places) : Picked(s, places)[i] = s[p]
         /\ (\A p, r \in places : s[p] = s[r] => p = r) =>
               \A i, j \in DOMAIN Picked(s, places) : Picked(s, places)[i] = Picked(s, places)[j] => i = j
<1> DEFINE q == Picked(s, places)
<1>1. q \in Seq(T) /\ \E at : PicksUpTo(q, s, places, at, Len(s))
  BY PickedInOrder
<1>2. PICK at : PicksUpTo(q, s, places, at, Len(s))
  BY <1>1
<1> HIDE DEF q
<1>3. DOMAIN q = 1 .. Len(q) /\ Len(q) \in Nat /\ places \subseteq 1 .. Len(s)
  BY <1>1
<1>4. \A i \in DOMAIN q : at[i] \in places /\ q[i] = s[at[i]]
  BY <1>2, <1>3 DEF PicksUpTo
<1>5. \A p \in places : \E i \in DOMAIN q : at[i] = p
  BY <1>2, <1>3 DEF PicksUpTo
<1>6. \A i, j \in DOMAIN q : at[i] = at[j] => i = j
  <2> SUFFICES ASSUME NEW i \in DOMAIN q, NEW j \in DOMAIN q, at[i] = at[j], i # j PROVE FALSE
    OBVIOUS
  <2>1. at[i] \in Nat /\ (i < j \/ j < i)
    BY <1>3, <1>4
  <2>2. at[i] < at[j] \/ at[j] < at[i]
    BY <2>1, <1>2, <1>3 DEF PicksUpTo
  <2> QED BY <2>1, <2>2
<1> QED BY <1>1, <1>4, <1>5, <1>6 DEF q

\* The groups hold the days there are, and no others.
LEMMA GroupsHold ==
  ASSUME NEW ds \in Seq(Days)
  PROVE  /\ Groups(ds) \in Seq(Group)
         /\ UNION {DaysIn(Groups(ds)[n].days) : n \in DOMAIN Groups(ds)} = DaysIn(ds)
<1> DEFINE place(i) == PartitionOf[ds[i]]
           all == [i \in DOMAIN ds |-> i]
           new == {i \in DOMAIN ds : \A j \in 1 .. i - 1 : place(j) # place(i)}
           firsts == Picked(all, new)
           in(n) == {i \in DOMAIN ds : place(i) = place(firsts[n])}
           g == [n \in DOMAIN firsts |-> [k |-> place(firsts[n]), days |-> Picked(ds, in(n))]]
<1>1. Groups(ds) = g
  BY DEF Groups
<1>2. all \in Seq(DOMAIN ds) /\ DOMAIN all = DOMAIN ds /\ \A i \in DOMAIN ds : all[i] = i
  OBVIOUS
<1>3. firsts \in Seq(DOMAIN ds) /\ \A i \in new : \E n \in DOMAIN firsts : firsts[n] = i
  <2> HIDE DEF all
  <2>1. new \in SUBSET DOMAIN all
    BY <1>2
  <2> HIDE DEF new
  <2>2. firsts \in Seq(DOMAIN ds) /\ \A i \in new : \E n \in DOMAIN firsts : firsts[n] = all[i]
    BY <1>2, <2>1, PickedElements
  <2> QED BY <1>2, <2>1, <2>2
<1> HIDE DEF firsts
<1>4. \A n \in DOMAIN firsts : /\ g[n] \in Group /\ DaysIn(g[n].days) \subseteq DaysIn(ds)
                               /\ \A i \in in(n) : ds[i] \in DaysIn(g[n].days)
  <2> TAKE n \in DOMAIN firsts
  <2>1. firsts[n] \in DOMAIN ds /\ place(firsts[n]) \in Partitions
    BY <1>3, StoreAssumption
  <2> DEFINE q == Picked(ds, in(n))
  <2>2. /\ q \in Seq(Days)
        /\ \A i \in DOMAIN q : \E p \in in(n) : q[i] = ds[p]
        /\ \A p \in in(n) : \E i \in DOMAIN q : q[i] = ds[p]
    BY PickedElements
  <2>3. g[n].k = place(firsts[n]) /\ g[n].days = q /\ g[n] = [k |-> place(firsts[n]), days |-> q]
    OBVIOUS
  <2> HIDE DEF q, g
  <2>4. DaysIn(q) \subseteq DaysIn(ds) /\ \A p \in in(n) : ds[p] \in DaysIn(q)
    BY <2>2 DEF DaysIn
  <2> QED BY <2>1, <2>2, <2>3, <2>4 DEF Group
<1>5. DOMAIN g = DOMAIN firsts /\ g \in Seq(Group)
  <2>1. DOMAIN g = DOMAIN firsts /\ DOMAIN firsts = 1 .. Len(firsts) /\ Len(firsts) \in Nat
    BY <1>3
  <2>2. g = [n \in 1 .. Len(firsts) |-> g[n]]
    BY <2>1
  <2> HIDE DEF g
  <2> QED BY <1>4, <2>1, <2>2
<1>6. \A i \in DOMAIN ds : \E n \in DOMAIN firsts : i \in in(n)
  <2> TAKE i \in DOMAIN ds
  <2> DEFINE S == {j \in DOMAIN ds : place(j) = place(i)}
  <2>1. PICK j \in S : \A m \in S : j <= m
    <3> S \in SUBSET Nat /\ S # {}  OBVIOUS
    <3> HIDE DEF S
    <3> QED BY LeastNumber
  <2>2. j \in new
    <3> SUFFICES ASSUME NEW m \in 1 .. j - 1, place(m) = place(j) PROVE FALSE
      BY <2>1
    <3>1. m \in S /\ ~(j <= m)
      BY <2>1
    <3> QED BY <2>1, <3>1
  <2>3. PICK n \in DOMAIN firsts : firsts[n] = j
    BY <2>2, <1>3
  <2> QED BY <2>1, <2>3
<1> HIDE DEF g, in
<1>7. UNION {DaysIn(g[n].days) : n \in DOMAIN g} = DaysIn(ds)
  <2>1. \A d \in DaysIn(ds) : \E n \in DOMAIN g : d \in DaysIn(g[n].days)
    BY <1>4, <1>5, <1>6 DEF DaysIn
  <2> QED BY <1>4, <1>5, <2>1
<1> QED BY <1>1, <1>5, <1>7

\* ingest_batch sorts its results by what was got, and leaves none out.
LEMMA BatchSorted ==
  ASSUME NEW rs \in Seq(Result)
  PROVE  /\ BatchOf(rs) \in Batch
         /\ UNION {DaysIn(BatchOf(rs).groups[n].days) : n \in DOMAIN BatchOf(rs).groups}
              = {rs[i].day : i \in {j \in DOMAIN rs : rs[j].got = "rows"}}
         /\ BatchOf(rs).empty = {rs[i].day : i \in {j \in DOMAIN rs : rs[j].got = "empty"}}
         /\ BatchOf(rs).missing = {rs[i].day : i \in {j \in DOMAIN rs : rs[j].got = "missing"}}
<1> DEFINE of(got) == {i \in DOMAIN rs : rs[i].got = got}
           rows == Picked(rs, of("rows"))
           ds == [i \in DOMAIN rows |-> rows[i].day]
           empty == {rs[i].day : i \in of("empty")}
           missing == {rs[i].day : i \in of("missing")}
<1>1. \A r \in Result : r.day \in Days
  BY DEF Result
<1>2. \A i \in DOMAIN rs : rs[i].day \in Days
  BY <1>1
<1>3. /\ rows \in Seq(Result)
      /\ \A i \in DOMAIN rows : \E p \in of("rows") : rows[i] = rs[p]
      /\ \A p \in of("rows") : \E i \in DOMAIN rows : rows[i] = rs[p]
  BY PickedElements
<1>4. BatchOf(rs) = [groups |-> Groups(ds), empty |-> empty, missing |-> missing]
  BY DEF BatchOf
<1>5. empty \subseteq Days /\ missing \subseteq Days
  BY <1>2
<1> HIDE DEF empty, missing, rows
<1>6. ds \in Seq(Days) /\ DaysIn(ds) = {rs[i].day : i \in of("rows")}
  <2>1. \A i \in DOMAIN rows : rows[i].day \in Days
    BY <1>1, <1>3
  <2>2. ds \in Seq(Days)
    BY <1>3, <2>1
  <2>3. DaysIn(ds) = {rows[i].day : i \in DOMAIN rows}
    BY <1>3 DEF DaysIn
  <2>4. {rows[i].day : i \in DOMAIN rows} = {rs[i].day : i \in of("rows")}
    BY <1>3
  <2> HIDE DEF ds
  <2> QED BY <2>2, <2>3, <2>4
<1> HIDE DEF ds
<1>7. /\ Groups(ds) \in Seq(Group)
      /\ UNION {DaysIn(Groups(ds)[n].days) : n \in DOMAIN Groups(ds)} = DaysIn(ds)
  BY <1>6, GroupsHold
<1>8. BatchOf(rs) \in Batch
  BY <1>4, <1>5, <1>7 DEF Batch
<1>9. /\ BatchOf(rs).groups = Groups(ds)
      /\ BatchOf(rs).empty = empty
      /\ BatchOf(rs).missing = missing
  BY <1>4
<1> QED BY <1>6, <1>7, <1>8, <1>9 DEF empty, missing
-----------------------------------------------------------------------------
(* Where a day is                                                           *)

NoRepeat(s)   == \A i, j \in DOMAIN s : s[i] = s[j] => i = j
DaysOfStep(s) == IF s.do = "append" THEN DaysIn(s.days)
                 ELSE IF s.do \in {"empty", "missing"} THEN s.days ELSE {}
DaysLeft(s)   == {d \in Days : \E i \in DOMAIN s : d \in DaysOfStep(s[i])}

\* The steps that are left write and record each day once.
StepsOnce(s) ==
  /\ \A i \in DOMAIN s : s[i].do = "append" => NoRepeat(s[i].days)
  /\ \A i, j \in DOMAIN s : i # j => DaysOfStep(s[i]) \intersect DaysOfStep(s[j]) = {}

\* The parts with days that are not in the manifest yet: each has its days once, and no other
\* has them.
Uncommitted(W, C) == {W[k] : k \in DOMAIN W} \union C
PartsOnce(U) ==
  /\ \A c \in U : NoRepeat(c.pending)
  /\ \A c, e \in U : DaysIn(c.pending) \intersect DaysIn(e.pending) # {} => c = e
DaysAwaiting(U) == {d \in Days : \E c \in U : d \in DaysIn(c.pending)}

Parts == Uncommitted(writers, committing)

\* A day is to be written, or to be recorded, or waits in a part, and only once; it was given
\* to ingest_batch and is not in the manifest.
PlacedOnce ==
  /\ StepsOnce(steps) /\ PartsOnce(Parts)
  /\ DaysLeft(steps) \intersect DaysAwaiting(Parts) = {}
  /\ DaysLeft(steps) \union DaysAwaiting(Parts) \subseteq taken \ DOMAIN completedDays

\* What such a part holds is what waits to be committed.
RowsAwait ==
  \A c \in Parts : c.part \in DOMAIN files /\ files[c.part].rows = c.pending

\* A part the manifest names holds the days it is named for, once each, and no others.
NamedWhole ==
  \A d \in DOMAIN completedDays : completedDays[d] # NoPart =>
    LET rows == files[completedDays[d]].rows
    IN  /\ NoRepeat(rows)
        /\ \A e \in DaysIn(rows) : e \in DOMAIN completedDays /\ completedDays[e] = completedDays[d]

AgreeInv == PlacedOnce /\ RowsAwait /\ NamedWhole

\* Nobody writes into a closed store, and its parts are all named.
ClosedDone ==
  state = "closed" => /\ DOMAIN writers = {} /\ committing = {} /\ call # "ingest"
                      /\ DOMAIN files \subseteq Referenced

LEMMA StepDaysTyped ==
  ASSUME NEW s \in Step
  PROVE  DaysOfStep(s) \subseteq Days
BY StepKinds DEF DaysOfStep, DaysIn

LEMMA NoSteps == StepsOnce(<<>>) /\ DaysLeft(<<>>) = {}
BY DEF StepsOnce, DaysLeft

LEMMA FlushOnce ==
  ASSUME NEW k
  PROVE  StepsOnce(<<Flush(k)>>) /\ DaysLeft(<<Flush(k)>>) = {}
BY DEF StepsOnce, DaysLeft, DaysOfStep, Flush

LEMMA TailOnce ==
  ASSUME NEW s \in Seq(Step), s # <<>>, StepsOnce(s)
  PROVE  /\ StepsOnce(Tail(s)) /\ Head(s) \in Step
         /\ DaysLeft(s) = DaysOfStep(Head(s)) \union DaysLeft(Tail(s))
         /\ DaysOfStep(Head(s)) \intersect DaysLeft(Tail(s)) = {}
         /\ Head(s).do = "append" => NoRepeat(Head(s).days)
<1> DEFINE t == Tail(s)
           h == Head(s)
<1>1. /\ 1 \in DOMAIN s /\ s[1] = h /\ h \in Step
      /\ \A i \in DOMAIN t : i + 1 \in DOMAIN s /\ t[i] = s[i + 1] /\ i + 1 # 1
      /\ \A i, j \in DOMAIN t : i # j => i + 1 # j + 1
      /\ \A i \in DOMAIN s : i = 1 \/ (i - 1 \in DOMAIN t /\ s[i] = t[i - 1])
  OBVIOUS
<1> HIDE DEF t, h
<1>2. StepsOnce(t)
  BY <1>1 DEF StepsOnce
<1>3. DaysOfStep(h) \intersect DaysLeft(t) = {}
  <2>1. \A i \in DOMAIN t : DaysOfStep(h) \intersect DaysOfStep(t[i]) = {}
    BY <1>1 DEF StepsOnce
  <2> QED BY <2>1 DEF DaysLeft
<1>4. DaysOfStep(h) \subseteq Days
  BY <1>1, StepDaysTyped
<1>5. DaysLeft(s) = DaysOfStep(h) \union DaysLeft(t)
  <2>1. \A d : d \in DaysLeft(s) <=> d \in DaysOfStep(h) \/ d \in DaysLeft(t)
    BY <1>1, <1>4 DEF DaysLeft
  <2> QED BY <2>1
<1> QED BY <1>1, <1>2, <1>3, <1>5 DEF StepsOnce, t, h

LEMMA ConcatOnce ==
  ASSUME NEW s \in Seq(Step), NEW t \in Seq(Step), StepsOnce(s), StepsOnce(t),
         DaysLeft(s) \intersect DaysLeft(t) = {}
  PROVE  /\ StepsOnce(s \o t)
         /\ DaysLeft(s \o t) = DaysLeft(s) \union DaysLeft(t)
<1> DEFINE st == s \o t
<1>1. \A i \in DOMAIN st :
        \/ i \in DOMAIN s /\ st[i] = s[i]
        \/ i \notin DOMAIN s /\ i - Len(s) \in DOMAIN t /\ st[i] = t[i - Len(s)]
  OBVIOUS
<1>2. \A i \in DOMAIN s : i \in DOMAIN st /\ st[i] = s[i]
  OBVIOUS
<1>3. \A i \in DOMAIN t : i + Len(s) \in DOMAIN st /\ st[i + Len(s)] = t[i]
  OBVIOUS
<1>4. \A i, j \in DOMAIN st : i # j => i - Len(s) # j - Len(s)
  OBVIOUS
<1> HIDE DEF st
<1>5. /\ \A i \in DOMAIN s : DaysOfStep(s[i]) \subseteq DaysLeft(s)
      /\ \A i \in DOMAIN t : DaysOfStep(t[i]) \subseteq DaysLeft(t)
  <2>1. (\A i \in DOMAIN s : s[i] \in Step) /\ \A i \in DOMAIN t : t[i] \in Step
    OBVIOUS
  <2> QED BY <2>1, StepDaysTyped DEF DaysLeft
<1>6. \A i, j \in DOMAIN st : i # j => DaysOfStep(st[i]) \intersect DaysOfStep(st[j]) = {}
  <2> SUFFICES ASSUME NEW i \in DOMAIN st, NEW j \in DOMAIN st, i # j
               PROVE  DaysOfStep(st[i]) \intersect DaysOfStep(st[j]) = {}
    OBVIOUS
  <2>1. CASE i \in DOMAIN s /\ j \in DOMAIN s
    BY <1>2, <2>1 DEF StepsOnce
  <2>2. CASE i \notin DOMAIN s /\ j \notin DOMAIN s
    BY <1>1, <1>4, <2>2 DEF StepsOnce
  <2>3. CASE i \in DOMAIN s /\ j \notin DOMAIN s
    BY <1>1, <1>2, <1>5, <2>3
  <2>4. CASE i \notin DOMAIN s /\ j \in DOMAIN s
    BY <1>1, <1>2, <1>5, <2>4
  <2> QED BY <2>1, <2>2, <2>3, <2>4
<1>7. \A i \in DOMAIN st : st[i].do = "append" => NoRepeat(st[i].days)
  BY <1>1 DEF StepsOnce
<1>8. \A d : d \in DaysLeft(st) <=> d \in DaysLeft(s) \/ d \in DaysLeft(t)
  <2>1. \A d : d \in DaysLeft(st) => d \in DaysLeft(s) \/ d \in DaysLeft(t)
    BY <1>1 DEF DaysLeft
  <2>2. \A d : d \in DaysLeft(s) => d \in DaysLeft(st)
    BY <1>2 DEF DaysLeft
  <2>3. \A d : d \in DaysLeft(t) => d \in DaysLeft(st)
    BY <1>3 DEF DaysLeft
  <2> QED BY <2>1, <2>2, <2>3
<1> QED BY <1>6, <1>7, <1>8 DEF StepsOnce, st

\* A group written day by day.
LEMMA SplitOnce ==
  ASSUME NEW k \in Partitions, NEW ds \in Seq(Days), NoRepeat(ds), NEW w \in Seq(Step),
         w = [i \in DOMAIN ds |-> [do |-> "append", k |-> k, days |-> <<ds[i]>>]]
  PROVE  StepsOnce(w) /\ DaysLeft(w) = DaysIn(ds)
<1>1. DOMAIN w = DOMAIN ds /\ \A i \in DOMAIN ds : w[i].do = "append" /\ w[i].days = <<ds[i]>>
  OBVIOUS
<1>2. \A i \in DOMAIN ds : DaysOfStep(w[i]) = {ds[i]} /\ NoRepeat(w[i].days)
  BY <1>1 DEF DaysOfStep, DaysIn, NoRepeat
<1>3. \A i \in DOMAIN ds : ds[i] \in Days
  OBVIOUS
<1>4. \A i, j \in DOMAIN w : i # j => DaysOfStep(w[i]) \intersect DaysOfStep(w[j]) = {}
  <2> SUFFICES ASSUME NEW i \in DOMAIN ds, NEW j \in DOMAIN ds, i # j
               PROVE  DaysOfStep(w[i]) \intersect DaysOfStep(w[j]) = {}
    BY <1>1
  <2>1. ds[i] # ds[j]
    BY DEF NoRepeat
  <2> QED BY <1>2, <2>1
<1>5. StepsOnce(w)
  BY <1>1, <1>2, <1>4 DEF StepsOnce
<1>6. DaysLeft(w) = DaysIn(ds)
  <2>1. \A d : d \in DaysLeft(w) <=> d \in Days /\ \E i \in DOMAIN ds : d \in DaysOfStep(w[i])
    BY <1>1 DEF DaysLeft
  <2>2. \A d : d \in DaysIn(ds) <=> \E i \in DOMAIN ds : d = ds[i]
    BY DEF DaysIn
  <2>3. \A i \in DOMAIN ds : DaysOfStep(w[i]) = {ds[i]}
    BY <1>2
  <2>4. \A d : d \in DaysLeft(w) <=> d \in DaysIn(ds)
    <3> SUFFICES ASSUME NEW d PROVE d \in DaysLeft(w) <=> d \in DaysIn(ds)
      OBVIOUS
    <3>1. ASSUME d \in DaysLeft(w) PROVE d \in DaysIn(ds)
      <4>1. PICK i \in DOMAIN ds : d \in DaysOfStep(w[i])
        BY <2>1, <3>1
      <4>2. d = ds[i]
        BY <2>3, <4>1
      <4> QED BY <2>2, <4>2
    <3>2. ASSUME d \in DaysIn(ds) PROVE d \in DaysLeft(w)
      <4>1. PICK i \in DOMAIN ds : d = ds[i]
        BY <2>2, <3>2
      <4>2. d \in DaysOfStep(w[i]) /\ d \in Days
        BY <1>3, <2>3, <4>1
      <4> QED BY <2>1, <4>2
    <3> QED BY <3>1, <3>2
  <2> QED BY <2>4
<1> QED BY <1>5, <1>6

LEMMA FewerParts ==
  ASSUME NEW U, PartsOnce(U), NEW V \in SUBSET U
  PROVE  PartsOnce(V) /\ DaysAwaiting(V) \subseteq DaysAwaiting(U)
BY DEF PartsOnce, DaysAwaiting

LEMMA NoRepeatConcat ==
  ASSUME NEW s \in Seq(Days), NEW t \in Seq(Days), NoRepeat(s), NoRepeat(t),
         DaysIn(s) \intersect DaysIn(t) = {}
  PROVE  NoRepeat(s \o t)
<1> DEFINE st == s \o t
<1>1. \A i \in DOMAIN st :
        \/ i \in DOMAIN s /\ st[i] = s[i]
        \/ i \notin DOMAIN s /\ i - Len(s) \in DOMAIN t /\ st[i] = t[i - Len(s)]
  OBVIOUS
<1>2. \A i, j \in DOMAIN st : i - Len(s) = j - Len(s) => i = j
  OBVIOUS
<1>3. (\A i \in DOMAIN s : s[i] \in DaysIn(s)) /\ \A i \in DOMAIN t : t[i] \in DaysIn(t)
  BY DEF DaysIn
<1> HIDE DEF st
<1>4. NoRepeat(st)
  <2> SUFFICES ASSUME NEW i \in DOMAIN st, NEW j \in DOMAIN st, st[i] = st[j] PROVE i = j
    BY DEF NoRepeat
  <2>1. CASE i \in DOMAIN s /\ j \in DOMAIN s
    BY <1>1, <2>1 DEF NoRepeat
  <2>2. CASE i \notin DOMAIN s /\ j \notin DOMAIN s
    BY <1>1, <1>2, <2>2 DEF NoRepeat
  <2>3. CASE (i \in DOMAIN s) # (j \in DOMAIN s)
    BY <1>1, <1>3, <2>3
  <2> QED BY <2>1, <2>2, <2>3
<1> QED BY <1>4 DEF st

-----------------------------------------------------------------------------
(* Every action keeps AgreeInv                                              *)

\* Nothing is placed when no operation runs and no part is open.
LEMMA NothingPlaced ==
  ASSUME steps' = <<>>, DOMAIN writers' = {}, committing' = {}
  PROVE  PlacedOnce' /\ RowsAwait'
<1>1. Parts' = {}
  BY DEF Parts, Uncommitted
<1>2. PartsOnce({}) /\ DaysAwaiting({}) = {}
  BY DEF PartsOnce, DaysAwaiting
<1> QED BY <1>1, <1>2, NoSteps DEF PlacedOnce, RowsAwait

\* A part that waits for its commit is not named in the manifest yet.
LEMMA PartsUnnamed ==
  ASSUME Inv, AgreeInv, NEW c \in Parts, NEW d \in DOMAIN completedDays
  PROVE  completedDays[d] # c.part
<1> SUFFICES ASSUME completedDays[d] = c.part PROVE FALSE
  OBVIOUS
<1>1. c \in OpenPart
  BY DEF Parts, Uncommitted, Inv, TypeOK, MemoryOK
<1>2. c.part # NoPart
  BY <1>1, PartNotNull DEF OpenPart
<1>3. d \in DaysIn(files[c.part].rows) /\ d \in Days
  BY <1>2 DEF Inv, PartsInv, ManifestBacked, TypeOK, DiskOK
<1>4. d \in DaysAwaiting(Parts)
  BY <1>3 DEF AgreeInv, RowsAwait, DaysAwaiting
<1> QED BY <1>4 DEF AgreeInv, PlacedOnce

\* The open parts are different files.
LEMMA PartsApart ==
  ASSUME Inv, NEW k \in DOMAIN writers, NEW c \in Parts, committing = {},
         c.part = writers[k].part
  PROVE  c = writers[k]
<1>1. PICK l \in DOMAIN writers : c = writers[l]
  BY DEF Parts, Uncommitted
<1>2. writers[l].part[1] = l /\ writers[k].part[1] = k
  BY DEF Inv, PartsInv, WritersOK
<1> QED BY <1>1, <1>2

\* The parts the manifest names are left as they are.
LEMMA NamedKept ==
  ASSUME Inv, NamedWhole, completedDays' = completedDays,
         \A d \in DOMAIN completedDays : completedDays[d] # NoPart =>
           files'[completedDays[d]].rows = files[completedDays[d]].rows
  PROVE  NamedWhole'
BY DEF NamedWhole

\* Nothing is written or committed, and no day is added to what is left to do.
LEMMA AgreeLess ==
  ASSUME Inv, AgreeInv, UNCHANGED <<files, completedDays, state, writers>>,
         taken \subseteq taken', committing' \subseteq committing,
         StepsOnce(steps'), DaysLeft(steps') \subseteq DaysLeft(steps)
  PROVE  AgreeInv'
<1>1. Parts' \subseteq Parts
  BY DEF Parts, Uncommitted
<1>2. PartsOnce(Parts') /\ DaysAwaiting(Parts') \subseteq DaysAwaiting(Parts)
  BY <1>1, FewerParts DEF AgreeInv, PlacedOnce
<1>3. PlacedOnce'
  <2>1. /\ DaysLeft(steps') \intersect DaysAwaiting(Parts') = {}
        /\ DaysLeft(steps') \union DaysAwaiting(Parts') \subseteq taken' \ DOMAIN completedDays
    BY <1>2 DEF AgreeInv, PlacedOnce
  <2> QED BY <1>2, <2>1 DEF PlacedOnce
<1>4. RowsAwait'
  BY <1>1 DEF AgreeInv, RowsAwait
<1>5. NamedWhole'
  BY NamedKept DEF AgreeInv
<1> QED BY <1>3, <1>4, <1>5 DEF AgreeInv

\* Days of the step at hand may be added to the open part of its partition.
LEMMA AgreeAppend ==
  ASSUME Inv, AgreeInv, At("append"), NEW k \in Partitions, NEW ds \in Seq(Days), NoRepeat(ds),
         files' = With(files, PartOf(k), [closed |-> FALSE, rows |-> RowsOf(k) \o ds]),
         writers' = With(writers, k, [part |-> PartOf(k), pending |-> PendingOf(k) \o ds]),
         UNCHANGED <<completedDays, state, committing, taken>>,
         StepsOnce(steps'),
         DaysIn(ds) \subseteq DaysLeft(steps), DaysLeft(steps') \subseteq DaysLeft(steps) \ DaysIn(ds)
  PROVE  AgreeInv'
<1> DEFINE p == PartOf(k)
           pending == PendingOf(k) \o ds
           v == [closed |-> FALSE, rows |-> RowsOf(k) \o ds]
           w == [part |-> p, pending |-> pending]
<1>1. p \in Part /\ p[1] = k /\ ~Readable(p) /\ RowsOf(k) \in Seq(Days) /\ PendingOf(k) \in Seq(Days)
  BY PartOfFree DEF Inv, TypeOK
<1>2. committing = {}
  BY DEF At
\* what the partition had
<1>3. /\ RowsOf(k) = PendingOf(k) /\ NoRepeat(PendingOf(k))
      /\ DaysIn(PendingOf(k)) \subseteq DaysAwaiting(Parts)
      /\ \A c \in Parts : c.part # p => DaysIn(c.pending) \intersect DaysIn(PendingOf(k)) = {}
  <2>1. CASE k \in DOMAIN writers
    <3>1. writers[k] \in Parts /\ PendingOf(k) = writers[k].pending /\ p = writers[k].part
          /\ RowsOf(k) = files[writers[k].part].rows
      BY <2>1 DEF Parts, Uncommitted, PendingOf, PartOf, RowsOf
    <3>2. RowsOf(k) = PendingOf(k)
      BY <3>1 DEF AgreeInv, RowsAwait
    <3>3. NoRepeat(PendingOf(k))
      BY <3>1 DEF AgreeInv, PlacedOnce, PartsOnce
    <3>4. DaysIn(PendingOf(k)) \subseteq Days
      BY <1>1 DEF DaysIn
    <3>5. DaysIn(PendingOf(k)) \subseteq DaysAwaiting(Parts)
      BY <3>1, <3>4 DEF DaysAwaiting
    <3>6. \A c \in Parts : c.part # p => DaysIn(c.pending) \intersect DaysIn(PendingOf(k)) = {}
      BY <3>1 DEF AgreeInv, PlacedOnce, PartsOnce
    <3> QED BY <3>2, <3>3, <3>5, <3>6
  <2>2. CASE k \notin DOMAIN writers
    <3>1. PendingOf(k) = <<>> /\ RowsOf(k) = <<>>
      BY <2>2 DEF PendingOf, RowsOf
    <3> QED BY <3>1 DEF NoRepeat, DaysIn
  <2> QED BY <2>1, <2>2
<1>4. DaysIn(ds) \intersect DaysAwaiting(Parts) = {} /\ DaysIn(ds) \subseteq Days
  BY DEF AgreeInv, PlacedOnce, DaysLeft
<1>5. NoRepeat(pending) /\ DaysIn(pending) = DaysIn(PendingOf(k)) \union DaysIn(ds)
  BY <1>1, <1>3, <1>4, NoRepeatConcat, DaysInConcat
<1>6. v.rows = pending /\ w.part = p /\ w.pending = pending
  BY <1>3
<1>7. files' = With(files, p, v) /\ writers' = With(writers, k, w)
  OBVIOUS
<1> HIDE DEF p, pending, v, w
<1>8. /\ DOMAIN files' = DOMAIN files \union {p} /\ files'[p] = v
      /\ \A q \in DOMAIN files : q # p => files'[q] = files[q]
  BY <1>7 DEF With
<1>9. /\ DOMAIN writers' = DOMAIN writers \union {k} /\ writers'[k] = w
      /\ \A l \in DOMAIN writers : l # k => writers'[l] = writers[l]
  BY <1>7 DEF With
\* the other parts are as they were
<1>10. \A c \in Parts' : c = w \/ (c \in Parts /\ c.part # p)
  <2> SUFFICES ASSUME NEW c \in Parts', c # w PROVE c \in Parts /\ c.part # p
    OBVIOUS
  <2>1. PICK l \in DOMAIN writers' : c = writers'[l]
    BY <1>2 DEF Parts, Uncommitted
  <2>2. l # k /\ l \in DOMAIN writers /\ c = writers[l]
    BY <1>9, <2>1
  <2>3. c \in Parts /\ c.part[1] = l
    BY <2>2 DEF Parts, Uncommitted, Inv, PartsInv, WritersOK
  <2> QED BY <1>1, <2>2, <2>3
<1>11. \A c \in Parts : c.part # p => DaysIn(c.pending) \intersect DaysIn(pending) = {}
  <2> SUFFICES ASSUME NEW c \in Parts, c.part # p
               PROVE  DaysIn(c.pending) \intersect DaysIn(pending) = {}
    OBVIOUS
  <2>1. \A d \in DaysIn(ds) : d \notin DaysIn(c.pending)
    BY <1>4 DEF DaysAwaiting
  <2>2. DaysIn(c.pending) \intersect DaysIn(PendingOf(k)) = {}
    BY <1>3
  <2> QED BY <1>5, <2>1, <2>2
<1>12. PartsOnce(Parts')
  <2>1. \A c \in Parts' : NoRepeat(c.pending)
    BY <1>5, <1>6, <1>10 DEF AgreeInv, PlacedOnce, PartsOnce
  <2>2. ASSUME NEW c \in Parts', NEW e \in Parts', DaysIn(c.pending) \intersect DaysIn(e.pending) # {}
        PROVE  c = e
    <3>1. CASE c \in Parts /\ e \in Parts /\ c # w /\ e # w
      BY <2>2, <3>1 DEF AgreeInv, PlacedOnce, PartsOnce
    <3>2. CASE c = w \/ e = w
      BY <1>6, <1>10, <1>11, <2>2, <3>2
    <3> QED BY <1>10, <3>1, <3>2
  <2> QED BY <2>1, <2>2 DEF PartsOnce
<1>13. DaysAwaiting(Parts') \subseteq DaysAwaiting(Parts) \union DaysIn(ds)
  <2> SUFFICES ASSUME NEW d \in Days, NEW c \in Parts', d \in DaysIn(c.pending)
               PROVE  d \in DaysAwaiting(Parts) \union DaysIn(ds)
    BY DEF DaysAwaiting
  <2>1. CASE c = w
    BY <1>3, <1>5, <1>6, <2>1
  <2>2. CASE c # w
    BY <1>10, <2>2 DEF DaysAwaiting
  <2> QED BY <2>1, <2>2
<1>14. PlacedOnce'
  <2>1. /\ DaysLeft(steps) \intersect DaysAwaiting(Parts) = {}
        /\ DaysLeft(steps) \union DaysAwaiting(Parts) \subseteq taken \ DOMAIN completedDays
    BY DEF AgreeInv, PlacedOnce
  <2>2. /\ DaysLeft(steps') \intersect DaysAwaiting(Parts') = {}
        /\ DaysLeft(steps') \union DaysAwaiting(Parts') \subseteq taken' \ DOMAIN completedDays'
    BY <1>4, <1>13, <2>1
  <2> QED BY <1>12, <2>2 DEF PlacedOnce
<1>15. RowsAwait'
  BY <1>6, <1>8, <1>10 DEF AgreeInv, RowsAwait
<1>16. NamedWhole'
  <2>1. ASSUME NEW d \in DOMAIN completedDays, completedDays[d] # NoPart
        PROVE  files'[completedDays[d]].rows = files[completedDays[d]].rows
    <3>1. Readable(completedDays[d])
      BY <2>1 DEF Inv, PartsInv, ManifestBacked
    <3> QED BY <1>1, <1>8, <3>1 DEF Readable
  <2> QED BY <2>1, NamedKept DEF AgreeInv
<1> QED BY <1>14, <1>15, <1>16 DEF AgreeInv

\* The open part of k leaves _writers: deleted, or closed and about to be committed.
LEMMA AgreeFlush ==
  ASSUME Inv, AgreeInv, committing = {}, UNCHANGED <<completedDays, state, taken, call>>,
         NEW k \in DOMAIN writers, writers' = Without(writers, k),
         \/ files' = Without(files, writers[k].part) /\ committing' = {}
         \/ files' = [files EXCEPT ![writers[k].part].closed = TRUE] /\ committing' = {writers[k]},
         StepsOnce(steps'), DaysLeft(steps') \subseteq DaysLeft(steps)
  PROVE  AgreeInv'
<1> DEFINE p == writers[k].part
<1>1. /\ p \in DOMAIN files /\ ~files[p].closed
      /\ files[p] \in [closed : BOOLEAN, rows : Seq(Days)]
  BY DEF Inv, TypeOK, DiskOK, PartsInv, WritersOK
<1>2. /\ \A q \in DOMAIN files : q # p => q \in DOMAIN files' /\ files'[q] = files[q]
      /\ committing' # {} => p \in DOMAIN files' /\ files'[p].rows = files[p].rows
      /\ committing' \subseteq {writers[k]}
  <2>1. CASE files' = Without(files, p) /\ committing' = {}
    BY <2>1 DEF Without, Restrict
  <2>2. CASE files' = [files EXCEPT ![p].closed = TRUE] /\ committing' = {writers[k]}
    BY <1>1, <2>2
  <2> QED BY <2>1, <2>2
<1>3. /\ DOMAIN writers' = DOMAIN writers \ {k}
      /\ \A l \in DOMAIN writers' : writers'[l] = writers[l]
  BY DEF Without, Restrict
<1>5. Parts' \subseteq Parts
  BY <1>2, <1>3 DEF Parts, Uncommitted
<1>6. \A c \in Parts' : c.part = p => c = writers[k] /\ committing' # {}
  <2> SUFFICES ASSUME NEW c \in Parts', c.part = p PROVE c = writers[k] /\ committing' # {}
    OBVIOUS
  <2>1. c = writers[k]
    BY <1>5, PartsApart
  <2>2. ASSUME committing' = {} PROVE FALSE
    <3>1. PICK l \in DOMAIN writers' : c = writers'[l]
      BY <2>2 DEF Parts, Uncommitted
    <3>2. l \in DOMAIN writers /\ l # k /\ writers[l] = writers[k]
      BY <1>3, <2>1, <3>1
    <3> QED BY <3>2 DEF Inv, PartsInv, WritersOK
  <2> QED BY <2>1, <2>2
<1>7. PartsOnce(Parts') /\ DaysAwaiting(Parts') \subseteq DaysAwaiting(Parts)
  BY <1>5, FewerParts DEF AgreeInv, PlacedOnce
<1>8. PlacedOnce'
  <2>1. /\ DaysLeft(steps') \intersect DaysAwaiting(Parts') = {}
        /\ DaysLeft(steps') \union DaysAwaiting(Parts') \subseteq taken \ DOMAIN completedDays
    BY <1>7 DEF AgreeInv, PlacedOnce
  <2> QED BY <1>7, <2>1 DEF PlacedOnce
<1>9. RowsAwait'
  <2> SUFFICES ASSUME NEW c \in Parts' PROVE c.part \in DOMAIN files' /\ files'[c.part].rows = c.pending
    BY DEF RowsAwait
  <2>1. c.part \in DOMAIN files /\ files[c.part].rows = c.pending
    BY <1>5 DEF AgreeInv, RowsAwait
  <2> HIDE DEF p
  <2>2. CASE c.part = p
    BY <1>2, <1>6, <2>1, <2>2
  <2>3. CASE c.part # p
    BY <1>2, <2>1, <2>3
  <2> QED BY <2>2, <2>3
<1>10. NamedWhole'
  <2>1. ASSUME NEW d \in DOMAIN completedDays, completedDays[d] # NoPart
        PROVE  files'[completedDays[d]].rows = files[completedDays[d]].rows
    <3>1. completedDays[d] \in DOMAIN files /\ files[completedDays[d]].closed
      BY <2>1, ReferencedReadable DEF Inv, TypeOK, PartsInv
    <3> QED BY <1>1, <1>2, <3>1
  <2> QED BY <2>1, NamedKept DEF AgreeInv
<1> QED BY <1>8, <1>9, <1>10 DEF AgreeInv

\* The sweep leaves what the manifest names.
LEMMA SweptNamed ==
  ASSUME Inv, NamedWhole, completedDays' = completedDays, files' = Swept
  PROVE  NamedWhole' /\ DOMAIN files' \subseteq Referenced
<1>1. /\ DOMAIN files' = DOMAIN files \intersect Referenced
      /\ \A q \in DOMAIN files' : files'[q] = files[q]
  BY DEF Swept, Restrict
<1>2. ASSUME NEW d \in DOMAIN completedDays, completedDays[d] # NoPart
      PROVE  files'[completedDays[d]].rows = files[completedDays[d]].rows
  <2>1. completedDays[d] \in DOMAIN files /\ completedDays[d] \in Referenced
    BY <1>2, ReferencedReadable DEF Inv, TypeOK, PartsInv, Referenced
  <2> QED BY <1>1, <2>1
<1> QED BY <1>1, <1>2, NamedKept

\* What is left to do is what it was without its first step.
LEMMA StepTaken ==
  ASSUME Inv, AgreeInv, steps # <<>>
  PROVE  /\ StepsOnce(Tail(steps)) /\ DaysLeft(Tail(steps)) \subseteq DaysLeft(steps)
         /\ DaysOfStep(Head(steps)) \subseteq DaysLeft(steps)
         /\ DaysOfStep(Head(steps)) \intersect DaysLeft(Tail(steps)) = {}
         /\ Head(steps).do = "append" => NoRepeat(Head(steps).days)
<1>1. steps \in Seq(Step) /\ StepsOnce(steps)
  BY DEF Inv, TypeOK, LockOK, AgreeInv, PlacedOnce
<1> QED BY <1>1, TailOnce

\* Raising drops what is left to do.
LEMMA RaiseOnce ==
  ASSUME Raise
  PROVE  StepsOnce(steps') /\ DaysLeft(steps') = {}
BY NoSteps DEF Raise

\* Steps that write nothing may come first.
LEMMA ConcatNone ==
  ASSUME NEW s \in Seq(Step), NEW t \in Seq(Step), StepsOnce(s), StepsOnce(t), DaysLeft(s) = {}
  PROVE  StepsOnce(s \o t) /\ DaysLeft(s \o t) = DaysLeft(t)
<1>1. DaysLeft(s) \intersect DaysLeft(t) = {}
  OBVIOUS
<1>2. StepsOnce(s \o t) /\ DaysLeft(s \o t) = DaysLeft(s) \union DaysLeft(t)
  BY <1>1, ConcatOnce
<1> QED BY <1>2, Zenon

LEMMA AppendGroupAgrees == Inv /\ AgreeInv /\ AppendGroup => AgreeInv'
<1> SUFFICES ASSUME Inv, AgreeInv, AppendGroup PROVE AgreeInv'
  OBVIOUS
<1> DEFINE k == Head(steps).k
           ds == Head(steps).days
           t == Tail(steps)
<1>1. /\ At("append") /\ k \in Partitions /\ ds \in Seq(Days) /\ steps # <<>>
      /\ Head(steps).do = "append" /\ t \in Seq(Step)
  BY AppendHead DEF AppendGroup, At
<1>2. /\ files' = With(files, PartOf(k), [closed |-> FALSE, rows |-> RowsOf(k) \o ds])
      /\ writers' = With(writers, k, [part |-> PartOf(k), pending |-> PendingOf(k) \o ds])
      /\ UNCHANGED <<completedDays, state, committing, taken>>
  BY DEF AppendGroup, historyVars
<1>3. PICK roll \in BOOLEAN : steps' = (IF roll THEN <<Flush(k)>> ELSE <<>>) \o t
  BY DEF AppendGroup, Rolls
<1>4. /\ StepsOnce(t) /\ NoRepeat(ds)
      /\ DaysIn(ds) \subseteq DaysLeft(steps) /\ DaysLeft(t) \subseteq DaysLeft(steps) \ DaysIn(ds)
  <2>1. DaysOfStep(Head(steps)) = DaysIn(ds)
    BY <1>1 DEF DaysOfStep
  <2> QED BY <1>1, <2>1, StepTaken
<1> DEFINE s == IF roll THEN <<Flush(k)>> ELSE <<>>
<1>5. s \in Seq(Step) /\ StepsOnce(s) /\ DaysLeft(s) = {} /\ steps' = s \o t
  BY <1>1, <1>3, FlushSeq, FlushOnce, NoSteps
<1> HIDE DEF s, t, k, ds
<1>6. StepsOnce(s \o t) /\ DaysLeft(s \o t) = DaysLeft(t)
  BY <1>1, <1>4, <1>5, ConcatNone
<1> QED BY <1>1, <1>2, <1>4, <1>5, <1>6, AgreeAppend

LEMMA AppendFailsAgrees == Inv /\ AgreeInv /\ AppendFails => AgreeInv'
<1> SUFFICES ASSUME Inv, AgreeInv, AppendFails PROVE AgreeInv'
  OBVIOUS
<1> DEFINE k == Head(steps).k
<1>1. At("append") /\ k \in Partitions
  BY AppendHead DEF AppendFails
<1>2. /\ files' = With(files, PartOf(k), [closed |-> FALSE, rows |-> RowsOf(k)])
      /\ writers' = With(writers, k, [part |-> PartOf(k), pending |-> PendingOf(k)])
      /\ Raise /\ UNCHANGED <<completedDays, state, committing, taken>>
  BY DEF AppendFails
<1> HIDE DEF k
<1>3. RowsOf(k) = RowsOf(k) \o <<>> /\ PendingOf(k) = PendingOf(k) \o <<>>
  <2>1. RowsOf(k) \in Seq(Days) /\ PendingOf(k) \in Seq(Days)
    BY <1>1, PartOfFree DEF Inv, TypeOK
  <2> QED BY <2>1
<1>4. <<>> \in Seq(Days) /\ NoRepeat(<<>>) /\ DaysIn(<<>>) = {}
  BY DEF NoRepeat, DaysIn
<1>5. StepsOnce(steps') /\ DaysLeft(steps') = {}
  BY <1>2, RaiseOnce
<1>6. /\ files' = With(files, PartOf(k), [closed |-> FALSE, rows |-> RowsOf(k) \o <<>>])
      /\ writers' = With(writers, k, [part |-> PartOf(k), pending |-> PendingOf(k) \o <<>>])
  BY <1>2, <1>3
<1> QED BY <1>1, <1>2, <1>4, <1>5, <1>6, AgreeAppend

LEMMA SplitGroupAgrees == Inv /\ AgreeInv /\ SplitGroup => AgreeInv'
<1> SUFFICES ASSUME Inv, AgreeInv, SplitGroup PROVE AgreeInv'
  OBVIOUS
<1> DEFINE k == Head(steps).k
           ds == Head(steps).days
           t == Tail(steps)
           s == [i \in DOMAIN ds |-> [do |-> "append", k |-> k, days |-> <<ds[i]>>]]
<1>1. /\ At("append") /\ k \in Partitions /\ ds \in Seq(Days) /\ steps # <<>>
      /\ Head(steps).do = "append" /\ t \in Seq(Step)
  BY AppendHead DEF SplitGroup, At
<1>2. steps' = s \o t /\ UNCHANGED <<files, completedDays, state, writers, taken, committing, call>>
  BY DEF SplitGroup, diskVars, historyVars
<1>3. /\ StepsOnce(t) /\ NoRepeat(ds)
      /\ DaysIn(ds) \subseteq DaysLeft(steps) /\ DaysLeft(t) \subseteq DaysLeft(steps) \ DaysIn(ds)
  <2>1. DaysOfStep(Head(steps)) = DaysIn(ds)
    BY <1>1 DEF DaysOfStep
  <2> QED BY <1>1, <2>1, StepTaken
<1>4. s \in Seq(Step)
  <2> DEFINE w(i) == [do |-> "append", k |-> k, days |-> <<ds[i]>>]
  <2>1. \A i \in DOMAIN ds : w(i) \in Step
    <3> SUFFICES ASSUME NEW i \in DOMAIN ds PROVE w(i) \in Step
      OBVIOUS
    <3>1. <<ds[i]>> \in Seq(Days)
      BY <1>1
    <3> QED BY <1>1, <3>1, StepTypes
  <2>2. s = [i \in DOMAIN ds |-> w(i)]
    OBVIOUS
  <2> HIDE DEF w, s, ds
  <2> QED BY <1>1, <2>1, <2>2
<1>5. s = [i \in DOMAIN ds |-> [do |-> "append", k |-> k, days |-> <<ds[i]>>]]
  OBVIOUS
<1> HIDE DEF s, t, k, ds
<1>6. StepsOnce(s) /\ DaysLeft(s) = DaysIn(ds)
  BY <1>1, <1>3, <1>4, <1>5, SplitOnce
<1>7. StepsOnce(s \o t) /\ DaysLeft(s \o t) = DaysLeft(s) \union DaysLeft(t)
  BY <1>1, <1>3, <1>4, <1>6, ConcatOnce
<1> QED BY <1>2, <1>3, <1>6, <1>7, AgreeLess

\* A flush put before the other steps.
LEMMA FlushBefore ==
  ASSUME Inv, AgreeInv, NEW k \in Partitions, steps' = <<Flush(k)>> \o steps
  PROVE  StepsOnce(steps') /\ DaysLeft(steps') = DaysLeft(steps)
<1>1. steps \in Seq(Step) /\ StepsOnce(steps)
  BY DEF Inv, TypeOK, LockOK, AgreeInv, PlacedOnce
<1> DEFINE s == <<Flush(k)>>
<1>2. s \in Seq(Step) /\ StepsOnce(s) /\ DaysLeft(s) = {} /\ steps' = s \o steps
  BY FlushSeq, FlushOnce
<1> HIDE DEF s
<1> QED BY <1>1, <1>2, ConcatNone

LEMMA RollForSchemaAgrees == Inv /\ AgreeInv /\ RollForSchema => AgreeInv'
<1> SUFFICES ASSUME Inv, AgreeInv, RollForSchema PROVE AgreeInv'
  OBVIOUS
<1>1. /\ At("append") /\ Head(steps).k \in Partitions /\ steps' = <<Flush(Head(steps).k)>> \o steps
      /\ UNCHANGED <<files, completedDays, state, writers, committing, taken, call>>
  BY AppendHead DEF RollForSchema, diskVars, historyVars
<1>2. StepsOnce(steps') /\ DaysLeft(steps') = DaysLeft(steps)
  BY <1>1, FlushBefore
<1> QED BY <1>1, <1>2, AgreeLess

LEMMA FlushNextAgrees == Inv /\ AgreeInv /\ FlushNext => AgreeInv'
<1> SUFFICES ASSUME Inv, AgreeInv, FlushNext PROVE AgreeInv'
  OBVIOUS
<1>1. steps # <<>> /\ UNCHANGED <<files, completedDays, state, writers, committing, taken, call>>
  BY DEF FlushNext, At, diskVars, historyVars
<1>2. StepsOnce(steps') /\ DaysLeft(steps') \subseteq DaysLeft(steps)
  <2>1. CASE \E k \in DOMAIN writers : steps' = <<Flush(k)>> \o steps
    BY <2>1, FlushBefore DEF Inv, TypeOK, MemoryOK
  <2>2. CASE steps' = Tail(steps)
    BY <1>1, <2>2, StepTaken
  <2> QED BY <2>1, <2>2 DEF FlushNext
<1> QED BY <1>1, <1>2, AgreeLess

LEMMA ClosePartAgrees == Inv /\ AgreeInv /\ ClosePart => AgreeInv'
<1> SUFFICES ASSUME Inv, AgreeInv, ClosePart PROVE AgreeInv'
  OBVIOUS
<1> DEFINE k == Head(steps).k
<1>1. /\ At("flush") /\ k \in DOMAIN writers /\ writers' = Without(writers, k)
      /\ \/ files' = Without(files, writers[k].part) /\ committing' = committing
         \/ files' = [files EXCEPT ![writers[k].part].closed = TRUE] /\ committing' = {writers[k]}
      /\ steps' = Tail(steps)
      /\ UNCHANGED <<completedDays, state, taken, call>>
  BY DEF ClosePart, historyVars
<1>2. steps # <<>> /\ committing = {}
  BY <1>1 DEF At
<1> HIDE DEF k
<1>3. StepsOnce(steps') /\ DaysLeft(steps') \subseteq DaysLeft(steps)
  BY <1>1, <1>2, StepTaken
<1> QED BY <1>1, <1>2, <1>3, AgreeFlush

LEMMA ClosePartFailsAgrees == Inv /\ AgreeInv /\ ClosePartFails => AgreeInv'
<1> SUFFICES ASSUME Inv, AgreeInv, ClosePartFails PROVE AgreeInv'
  OBVIOUS
<1> DEFINE k == Head(steps).k
<1>1. /\ At("flush") /\ k \in DOMAIN writers /\ writers' = Without(writers, k)
      /\ files' = Without(files, writers[k].part) /\ Raise
      /\ UNCHANGED <<completedDays, state, call, committing, taken>>
  BY DEF ClosePartFails
<1>2. committing = {} /\ StepsOnce(steps') /\ DaysLeft(steps') = {}
  BY <1>1, RaiseOnce DEF At
<1> HIDE DEF k
<1> QED BY <1>1, <1>2, AgreeFlush

\* Days that were left to do are entered in the manifest, or are found not to exist: of the
\* days it has, none is among them.
LEMMA AgreeRecord ==
  ASSUME Inv, AgreeInv, steps # <<>>, NEW D, D = DaysOfStep(Head(steps)), steps' = Tail(steps),
         UNCHANGED <<files, state, writers, committing, taken, call>>,
         \/ Complete(D, NoPart)
         \/ completedDays' = Restrict(completedDays, DOMAIN completedDays \ D)
  PROVE  AgreeInv'
<1>1. /\ StepsOnce(steps') /\ DaysLeft(steps') \subseteq DaysLeft(steps) \ D
      /\ D \subseteq DaysLeft(steps)
  BY StepTaken
<1>2. /\ DaysLeft(steps) \intersect DaysAwaiting(Parts) = {}
      /\ DaysLeft(steps) \union DaysAwaiting(Parts) \subseteq taken \ DOMAIN completedDays
  BY DEF AgreeInv, PlacedOnce
<1>3. /\ DOMAIN completedDays \subseteq DOMAIN completedDays'
      /\ DOMAIN completedDays' \subseteq DOMAIN completedDays \union D
      /\ \A d \in DOMAIN completedDays : completedDays'[d] = completedDays[d]
      /\ \A d \in DOMAIN completedDays' : d \in D => completedDays'[d] = NoPart
  <2>1. \A d \in DOMAIN completedDays : d \notin D
    BY <1>1, <1>2
  <2> QED BY <2>1 DEF Complete, Restrict
<1>4. Parts' = Parts
  BY DEF Parts, Uncommitted
<1>5. PlacedOnce'
  <2>1. /\ DaysLeft(steps') \intersect DaysAwaiting(Parts) = {}
        /\ DaysLeft(steps') \union DaysAwaiting(Parts) \subseteq taken \ DOMAIN completedDays'
    BY <1>1, <1>2, <1>3
  <2> QED BY <1>1, <1>4, <2>1 DEF AgreeInv, PlacedOnce
<1>6. RowsAwait'
  BY <1>4 DEF AgreeInv, RowsAwait
<1>7. NamedWhole'
  <2> SUFFICES ASSUME NEW d \in DOMAIN completedDays', completedDays'[d] # NoPart
               PROVE  /\ NoRepeat(files[completedDays'[d]].rows)
                      /\ \A e \in DaysIn(files[completedDays'[d]].rows) :
                           e \in DOMAIN completedDays' /\ completedDays'[e] = completedDays'[d]
    BY DEF NamedWhole
  <2>1. d \in DOMAIN completedDays /\ completedDays'[d] = completedDays[d]
    BY <1>3
  <2> QED BY <1>3, <2>1 DEF AgreeInv, NamedWhole
<1> QED BY <1>5, <1>6, <1>7 DEF AgreeInv

LEMMA RecordEmptyAgrees == Inv /\ AgreeInv /\ RecordEmpty => AgreeInv'
<1> SUFFICES ASSUME Inv, AgreeInv, RecordEmpty PROVE AgreeInv'
  OBVIOUS
<1>1. /\ steps # <<>> /\ Complete(DaysOfStep(Head(steps)), NoPart) /\ steps' = Tail(steps)
      /\ UNCHANGED <<files, state, writers, committing, taken, call>>
  BY DEF RecordEmpty, At, DaysOfStep
<1> QED BY <1>1, AgreeRecord

LEMMA RecordMissingAgrees == Inv /\ AgreeInv /\ RecordMissing => AgreeInv'
<1> SUFFICES ASSUME Inv, AgreeInv, RecordMissing PROVE AgreeInv'
  OBVIOUS
<1>1. /\ steps # <<>> /\ steps' = Tail(steps)
      /\ completedDays' = Restrict(completedDays, DOMAIN completedDays \ DaysOfStep(Head(steps)))
      /\ UNCHANGED <<files, state, writers, committing, taken, call>>
  BY DEF RecordMissing, At, DaysOfStep
<1> QED BY <1>1, AgreeRecord

LEMMA RecordFailsAgrees == Inv /\ AgreeInv /\ RecordFails => AgreeInv'
<1> SUFFICES ASSUME Inv, AgreeInv, RecordFails PROVE AgreeInv'
  OBVIOUS
<1>1. Raise /\ UNCHANGED <<files, completedDays, state, writers, call, committing, taken>>
  BY DEF RecordFails, diskVars
<1> QED BY <1>1, RaiseOnce, AgreeLess

\* The days of a part are committed: all of them, to it alone.
LEMMA CommitPartAgrees == Inv /\ AgreeInv /\ CommitPart => AgreeInv'
<1> SUFFICES ASSUME Inv, AgreeInv, CommitPart PROVE AgreeInv'
  OBVIOUS
<1>1. PICK c \in committing : Complete(DaysIn(c.pending), c.part)
  BY DEF CommitPart
<1> DEFINE D == DaysIn(c.pending)
<1>2. /\ committing' = {} /\ state = "open"
      /\ UNCHANGED <<files, state, writers, steps, taken, call>>
  BY DEF CommitPart
<1>3. /\ c \in Parts /\ c \in OpenPart /\ Parts' \subseteq Parts
  BY <1>2 DEF Parts, Uncommitted, Inv, TypeOK, MemoryOK
<1>4. D \subseteq DaysAwaiting(Parts)
  <2>1. D \subseteq Days
    BY <1>3 DEF OpenPart, DaysIn
  <2> QED BY <1>3, <2>1 DEF DaysAwaiting
<1>5. /\ DaysLeft(steps) \intersect DaysAwaiting(Parts) = {}
      /\ DaysLeft(steps) \union DaysAwaiting(Parts) \subseteq taken \ DOMAIN completedDays
  BY DEF AgreeInv, PlacedOnce
<1>6. /\ DOMAIN completedDays' = DOMAIN completedDays \union D
      /\ \A d \in D : completedDays'[d] = c.part
      /\ \A d \in DOMAIN completedDays : completedDays'[d] = completedDays[d] /\ d \notin D
  <2>1. \A d \in DOMAIN completedDays : d \notin D
    BY <1>4, <1>5
  <2> QED BY <1>1, <2>1 DEF Complete
<1>7. \A e \in Parts' : D \intersect DaysIn(e.pending) = {}
  \* the open parts hold other days
  <2> SUFFICES ASSUME NEW e \in Parts', D \intersect DaysIn(e.pending) # {} PROVE FALSE
    OBVIOUS
  <2>1. e = c
    BY <1>3 DEF AgreeInv, PlacedOnce, PartsOnce
  <2>2. PICK k \in DOMAIN writers : c = writers[k]
    BY <1>2, <2>1 DEF Parts, Uncommitted
  <2>3. files[c.part].closed
    BY DEF Inv, PartsInv, CommittingOK, Readable
  <2> QED BY <2>2, <2>3 DEF Inv, PartsInv, WritersOK
<1>8. PartsOnce(Parts') /\ DaysAwaiting(Parts') \subseteq DaysAwaiting(Parts) \ D
  <2>1. PartsOnce(Parts') /\ DaysAwaiting(Parts') \subseteq DaysAwaiting(Parts)
    BY <1>3, FewerParts DEF AgreeInv, PlacedOnce
  <2> QED BY <1>7, <2>1 DEF DaysAwaiting
<1>9. PlacedOnce'
  <2>1. /\ DaysLeft(steps) \intersect DaysAwaiting(Parts') = {}
        /\ DaysLeft(steps) \union DaysAwaiting(Parts') \subseteq taken \ DOMAIN completedDays'
    BY <1>4, <1>5, <1>6, <1>8
  <2> QED BY <1>2, <1>8, <2>1 DEF AgreeInv, PlacedOnce
<1>10. RowsAwait'
  BY <1>2, <1>3 DEF AgreeInv, RowsAwait
<1>11. files[c.part].rows = c.pending /\ NoRepeat(c.pending)
  BY <1>3 DEF AgreeInv, RowsAwait, PlacedOnce, PartsOnce
<1>12. NamedWhole'
  <2> SUFFICES ASSUME NEW d \in DOMAIN completedDays', completedDays'[d] # NoPart
               PROVE  /\ NoRepeat(files[completedDays'[d]].rows)
                      /\ \A e \in DaysIn(files[completedDays'[d]].rows) :
                           e \in DOMAIN completedDays' /\ completedDays'[e] = completedDays'[d]
    BY <1>2 DEF NamedWhole
  <2>1. CASE d \in D
    BY <1>6, <1>11, <2>1
  <2>2. CASE d \notin D
    <3>1. d \in DOMAIN completedDays /\ completedDays'[d] = completedDays[d]
      BY <1>6, <2>2
    <3> QED BY <1>6, <3>1 DEF AgreeInv, NamedWhole
  <2> QED BY <2>1, <2>2
<1> QED BY <1>9, <1>10, <1>12 DEF AgreeInv

LEMMA CommitFailsAgrees == Inv /\ AgreeInv /\ CommitFails => AgreeInv'
<1> SUFFICES ASSUME Inv, AgreeInv, CommitFails PROVE AgreeInv'
  OBVIOUS
<1>1. /\ Raise /\ committing' = {}
      /\ UNCHANGED <<files, completedDays, state, writers, call, taken>>
  BY DEF CommitFails, diskVars
<1> QED BY <1>1, RaiseOnce, AgreeLess

\* close() sweeps when no part is open any more: what is left is what the manifest names.
LEMMA SweepAndCloseAgrees == Inv /\ AgreeInv /\ SweepAndClose => AgreeInv'
<1> SUFFICES ASSUME Inv, AgreeInv, SweepAndClose PROVE AgreeInv'
  OBVIOUS
<1>1. /\ steps # <<>> /\ Head(steps).do = "sweep" /\ committing = {} /\ files' = Swept
      /\ steps' = Tail(steps)
      /\ UNCHANGED <<completedDays, writers, call, committing, taken>>
  BY DEF SweepAndClose, At, historyVars
<1>2. call = "close" /\ DOMAIN writers = {}
  <2>1. steps[1].do = "sweep" /\ 1 \in DOMAIN steps
    BY <1>1, Holding
  <2>2. call = "close"
    BY <2>1 DEF Inv, SweepsLast, Lacks
  <2>3. DOMAIN writers = {}
    BY <2>1 DEF Inv, SweepsLast
  <2> QED BY <2>2, <2>3
<1>3. Parts = {} /\ Parts' = {}
  BY <1>1, <1>2 DEF Parts, Uncommitted
<1>4. PlacedOnce'
  <2>1. StepsOnce(steps') /\ DaysLeft(steps') \subseteq DaysLeft(steps)
    BY <1>1, StepTaken
  <2>2. PartsOnce({}) /\ DaysAwaiting({}) = {}
    BY DEF PartsOnce, DaysAwaiting
  <2>3. DaysLeft(steps') \subseteq taken \ DOMAIN completedDays
    BY <2>1 DEF AgreeInv, PlacedOnce
  <2> QED BY <1>1, <1>3, <2>1, <2>2, <2>3 DEF PlacedOnce
<1>5. RowsAwait'
  BY <1>3 DEF RowsAwait
<1>6. NamedWhole'
  BY <1>1, SweptNamed DEF AgreeInv
<1> QED BY <1>4, <1>5, <1>6 DEF AgreeInv

LEMMA ReturnAgrees == Inv /\ AgreeInv /\ Return => AgreeInv'
<1> SUFFICES ASSUME Inv, AgreeInv, Return PROVE AgreeInv'
  OBVIOUS
<1>1. /\ steps' = steps /\ committing' = committing /\ call' = "none"
      /\ UNCHANGED <<files, completedDays, state, writers, taken>>
  BY DEF Return, diskVars
<1>2. StepsOnce(steps)
  BY DEF AgreeInv, PlacedOnce
<1> QED BY <1>1, <1>2, AgreeLess

\* A process that ends, and one that opens the store, have nothing in hand.
LEMMA ExitAgrees == Inv /\ AgreeInv /\ Exit => AgreeInv'
<1> SUFFICES ASSUME Inv, AgreeInv, Exit PROVE AgreeInv'
  OBVIOUS
<1>1. /\ state' = "down" /\ DOMAIN writers' = {} /\ steps' = <<>> /\ committing' = {}
      /\ UNCHANGED <<files, completedDays>>
  BY DEF Exit, EmptyMap, diskVars
<1>2. PlacedOnce' /\ RowsAwait'
  BY <1>1, NothingPlaced
<1>3. NamedWhole'
  BY <1>1, NamedKept DEF AgreeInv
<1> QED BY <1>2, <1>3 DEF AgreeInv

LEMMA OpenAgrees == Inv /\ AgreeInv /\ Open => AgreeInv'
<1> SUFFICES ASSUME Inv, AgreeInv, Open PROVE AgreeInv'
  OBVIOUS
<1>1. /\ state' = "open" /\ DOMAIN writers' = {} /\ steps' = <<>> /\ committing' = {}
      /\ files' = Swept /\ completedDays' = completedDays
  BY DEF Open, OpenSweep, lockVars, Inv, TypeOK, LockOK
<1>2. PlacedOnce' /\ RowsAwait'
  BY <1>1, NothingPlaced
<1>3. NamedWhole'
  BY <1>1, SweptNamed DEF AgreeInv
<1> QED BY <1>2, <1>3 DEF AgreeInv

LEMMA BeginCloseAgrees == Inv /\ AgreeInv /\ BeginClose => AgreeInv'
<1> SUFFICES ASSUME Inv, AgreeInv, BeginClose PROVE AgreeInv'
  OBVIOUS
<1>1. /\ steps' = <<FlushAll, Sweep>> /\ state = "open"
      /\ UNCHANGED <<files, completedDays, state, writers, committing, taken>>
  BY DEF BeginClose, diskVars
<1>2. StepsOnce(steps') /\ DaysLeft(steps') = {}
  BY <1>1 DEF StepsOnce, DaysLeft, DaysOfStep, FlushAll, Sweep
<1> QED BY <1>1, <1>2, AgreeLess

\* A batch gives each of its days once.
BatchOnce(b) ==
  /\ \A i \in DOMAIN b.groups : NoRepeat(b.groups[i].days)
  /\ \A i, j \in DOMAIN b.groups : i # j => DaysIn(b.groups[i].days) \intersect DaysIn(b.groups[j].days) = {}
  /\ \A i \in DOMAIN b.groups : DaysIn(b.groups[i].days) \intersect (b.empty \union b.missing) = {}
  /\ b.empty \intersect b.missing = {}

\* The days of a batch are in the groups of their partitions.
BatchPlaced(b) ==
  \A i \in DOMAIN b.groups : \A d \in DaysIn(b.groups[i].days) : PartitionOf[d] = b.groups[i].k

\* The transaction over the days of one kind.
LEMMA RecordOnce ==
  ASSUME NEW D \in SUBSET Days, NEW do \in {"empty", "missing"}
  PROVE  /\ StepsOnce(Unless(D, Record(do, D))) /\ DaysLeft(Unless(D, Record(do, D))) = D
<1> DEFINE r == Record(do, D)
<1>1. DaysOfStep(r) = D /\ r.do # "append"
  BY DEF Record, DaysOfStep
<1> HIDE DEF r
<1>2. CASE D = {}
  BY <1>2, NoSteps DEF Unless
<1>3. CASE D # {}
  <2>1. Unless(D, r) = <<r>>
    BY <1>3 DEF Unless
  <2>2. DOMAIN <<r>> = {1} /\ <<r>>[1] = r
    OBVIOUS
  <2>3. StepsOnce(<<r>>)
    BY <1>1, <2>2 DEF StepsOnce
  <2>4. DaysLeft(<<r>>) = D
    BY <1>1, <2>2 DEF DaysLeft
  <2> QED BY <2>1, <2>3, <2>4 DEF r
<1> QED BY <1>2, <1>3

\* What ingest_batch is going to do with such a batch writes and records each of its days once.
LEMMA IngestOnce ==
  ASSUME NEW b \in Batch, BatchOnce(b)
  PROVE  StepsOnce(IngestSteps(b)) /\ DaysLeft(IngestSteps(b)) = DaysOf(b)
<1> DEFINE w == [i \in DOMAIN b.groups |-> Write(b.groups[i])]
           e == Unless(b.empty, Record("empty", b.empty))
           m == Unless(b.missing, Record("missing", b.missing))
           G == UNION {DaysIn(b.groups[i].days) : i \in DOMAIN b.groups}
<1>1. b.groups \in Seq(Group) /\ b.empty \subseteq Days /\ b.missing \subseteq Days
  BY DEF Batch
<1>2. \A i \in DOMAIN b.groups : b.groups[i].k \in Partitions /\ b.groups[i].days \in Seq(Days)
  <2>1. \A i \in DOMAIN b.groups : b.groups[i] \in Group
    BY <1>1
  <2> QED BY <2>1 DEF Group
<1>3. /\ DOMAIN w = DOMAIN b.groups
      /\ \A i \in DOMAIN w : /\ w[i] \in Step /\ w[i].days = b.groups[i].days
                             /\ DaysOfStep(w[i]) = DaysIn(b.groups[i].days)
                             /\ DaysIn(b.groups[i].days) \subseteq Days
  <2>1. ASSUME NEW i \in DOMAIN b.groups
        PROVE  /\ Write(b.groups[i]) \in Step /\ Write(b.groups[i]).days = b.groups[i].days
               /\ DaysOfStep(Write(b.groups[i])) = DaysIn(b.groups[i].days)
               /\ DaysIn(b.groups[i].days) \subseteq Days
    BY <1>2, StepTypes DEF Write, DaysOfStep, DaysIn
  <2> QED BY <2>1
<1>4. w \in Seq(Step)
  <2>1. \A i \in DOMAIN b.groups : Write(b.groups[i]) \in Step
    BY <1>2, StepTypes DEF Write
  <2> QED BY <1>1, <2>1
<1>5. e \in Seq(Step) /\ StepsOnce(e) /\ DaysLeft(e) = b.empty
  BY <1>1, RecordOnce, UnlessType
<1>6. m \in Seq(Step) /\ StepsOnce(m) /\ DaysLeft(m) = b.missing
  BY <1>1, RecordOnce, UnlessType
<1>7. IngestSteps(b) = (w \o e) \o m
  BY DEF IngestSteps
<1> HIDE DEF w, e, m
<1>8. StepsOnce(w)
  BY <1>3 DEF BatchOnce, StepsOnce
<1>9. DaysLeft(w) = G
  <2>1. \A d : d \in DaysLeft(w) <=> d \in Days /\ \E i \in DOMAIN w : d \in DaysOfStep(w[i])
    BY DEF DaysLeft
  <2>2. \A d : d \in G <=> \E i \in DOMAIN b.groups : d \in DaysIn(b.groups[i].days)
    OBVIOUS
  <2> HIDE DEF G
  <2>3. \A d : d \in DaysLeft(w) <=> d \in G
    <3> SUFFICES ASSUME NEW d PROVE d \in DaysLeft(w) <=> d \in G
      OBVIOUS
    <3>1. ASSUME d \in DaysLeft(w) PROVE d \in G
      BY <1>3, <2>1, <2>2, <3>1
    <3>2. ASSUME d \in G PROVE d \in DaysLeft(w)
      BY <1>3, <2>1, <2>2, <3>2
    <3> QED BY <3>1, <3>2
  <2> QED BY <2>3
<1>10. G \intersect (b.empty \union b.missing) = {} /\ b.empty \intersect b.missing = {}
  BY DEF BatchOnce
<1>11. DaysOf(b) = (G \union b.empty) \union b.missing
  BY DEF DaysOf
<1> HIDE DEF G
<1>12. w \o e \in Seq(Step) /\ StepsOnce(w \o e) /\ DaysLeft(w \o e) = G \union b.empty
  <2>1. DaysLeft(w) \intersect DaysLeft(e) = {}
    BY <1>5, <1>9, <1>10
  <2>2. StepsOnce(w \o e) /\ DaysLeft(w \o e) = DaysLeft(w) \union DaysLeft(e)
    BY <1>4, <1>5, <1>8, <2>1, ConcatOnce
  <2> QED BY <1>4, <1>5, <1>9, <2>2
<1> DEFINE v == w \o e
<1> HIDE DEF v
<1>13. StepsOnce(v \o m) /\ DaysLeft(v \o m) = DaysLeft(v) \union DaysLeft(m)
  <2>1. DaysLeft(v) \intersect DaysLeft(m) = {}
    BY <1>6, <1>10, <1>12 DEF v
  <2> QED BY <1>6, <1>12, <2>1, ConcatOnce DEF v
<1> QED BY <1>6, <1>7, <1>11, <1>12, <1>13 DEF v

LEMMA BeginIngestAgrees ==
  ASSUME Inv, AgreeInv, NEW b \in Batch, BatchOnce(b), BeginIngest(b),
         DaysOf(b) \intersect (taken \union DOMAIN completedDays) = {}
  PROVE  AgreeInv'
<1>1. /\ steps' = IngestSteps(b) /\ taken' = taken \union DaysOf(b)
      /\ UNCHANGED <<files, completedDays, state, writers, committing>>
  BY DEF BeginIngest, diskVars
<1>2. StepsOnce(steps') /\ DaysLeft(steps') = DaysOf(b)
  BY <1>1, IngestOnce
<1>3. Parts' = Parts
  BY <1>1 DEF Parts, Uncommitted
<1>4. PlacedOnce'
  <2>1. PartsOnce(Parts) /\ DaysAwaiting(Parts) \subseteq taken \ DOMAIN completedDays
    BY DEF AgreeInv, PlacedOnce
  <2>2. /\ DaysLeft(steps') \intersect DaysAwaiting(Parts) = {}
        /\ DaysLeft(steps') \union DaysAwaiting(Parts) \subseteq taken' \ DOMAIN completedDays
    BY <1>1, <1>2, <2>1
  <2> QED BY <1>1, <1>2, <1>3, <2>1, <2>2 DEF PlacedOnce
<1>5. RowsAwait' /\ NamedWhole'
  BY <1>1, <1>3, NamedKept DEF AgreeInv, RowsAwait
<1> QED BY <1>4, <1>5 DEF AgreeInv

\* Of days that differ each is in one group, once, that of its partition.
LEMMA GroupsOnce ==
  ASSUME NEW ds \in Seq(Days), NoRepeat(ds)
  PROVE  /\ \A n \in DOMAIN Groups(ds) : NoRepeat(Groups(ds)[n].days)
         /\ \A n, m \in DOMAIN Groups(ds) :
              n # m => DaysIn(Groups(ds)[n].days) \intersect DaysIn(Groups(ds)[m].days) = {}
         /\ \A n \in DOMAIN Groups(ds) : \A d \in DaysIn(Groups(ds)[n].days) : PartitionOf[d] = Groups(ds)[n].k
<1> DEFINE place(i) == PartitionOf[ds[i]]
           all == [i \in DOMAIN ds |-> i]
           new == {i \in DOMAIN ds : \A j \in 1 .. i - 1 : place(j) # place(i)}
           firsts == Picked(all, new)
           in(n) == {i \in DOMAIN ds : place(i) = place(firsts[n])}
           g == [n \in DOMAIN firsts |-> [k |-> place(firsts[n]), days |-> Picked(ds, in(n))]]
<1>1. Groups(ds) = g
  BY DEF Groups
<1>2. all \in Seq(DOMAIN ds) /\ DOMAIN all = DOMAIN ds /\ \A i \in DOMAIN ds : all[i] = i
  OBVIOUS
<1>3. /\ \A n \in DOMAIN firsts : firsts[n] \in new
      /\ \A n, m \in DOMAIN firsts : firsts[n] = firsts[m] => n = m
  <2> HIDE DEF all
  <2>1. new \in SUBSET DOMAIN all
    BY <1>2
  <2> HIDE DEF new
  <2>2. \A p, r \in new : all[p] = all[r] => p = r
    BY <1>2, <2>1
  <2>3. /\ \A n \in DOMAIN firsts : \E p \in new : firsts[n] = all[p]
        /\ \A n, m \in DOMAIN firsts : firsts[n] = firsts[m] => n = m
    BY <1>2, <2>1, <2>2, PickedElements
  <2> QED BY <1>2, <2>1, <2>3
<1> HIDE DEF firsts
\* the groups are of different partitions
<1>4. \A n, m \in DOMAIN firsts : n # m => place(firsts[n]) # place(firsts[m])
  <2>1. \A i, j \in new : i # j => place(i) # place(j)
    <3> SUFFICES ASSUME NEW i \in new, NEW j \in new, i < j PROVE place(i) # place(j)
      OBVIOUS
    <3>1. i \in 1 .. j - 1
      OBVIOUS
    <3> QED BY <3>1
  <2> HIDE DEF new, place
  <2> QED BY <1>3, <2>1
<1>5. \A n \in DOMAIN firsts : /\ NoRepeat(g[n].days) /\ g[n].k = place(firsts[n])
                               /\ \A d \in DaysIn(g[n].days) : PartitionOf[d] = place(firsts[n])
  <2> TAKE n \in DOMAIN firsts
  <2> DEFINE q == Picked(ds, in(n))
  <2>1. \A p, r \in in(n) : ds[p] = ds[r] => p = r
    BY DEF NoRepeat
  <2>2. /\ \A i \in DOMAIN q : \E p \in in(n) : q[i] = ds[p]
        /\ \A i, j \in DOMAIN q : q[i] = q[j] => i = j
    BY <2>1, PickedElements
  <2>3. g[n].days = q /\ g[n].k = place(firsts[n])
    OBVIOUS
  <2> HIDE DEF q, g
  <2> QED BY <2>2, <2>3 DEF NoRepeat, DaysIn
<1>6. DOMAIN g = DOMAIN firsts
  OBVIOUS
<1> HIDE DEF g, place
<1>7. \A n, m \in DOMAIN firsts : n # m => DaysIn(g[n].days) \intersect DaysIn(g[m].days) = {}
  BY <1>4, <1>5
<1> QED BY <1>1, <1>5, <1>6, <1>7

\* Results about different days make such a batch.
LEMMA ResultsOnce ==
  ASSUME NEW rs \in Seq(Result), \A i, j \in DOMAIN rs : rs[i].day = rs[j].day => i = j
  PROVE  BatchOnce(BatchOf(rs)) /\ BatchPlaced(BatchOf(rs))
<1> DEFINE of(got) == {i \in DOMAIN rs : rs[i].got = got}
           rows == Picked(rs, of("rows"))
           ds == [i \in DOMAIN rows |-> rows[i].day]
           b == BatchOf(rs)
<1>1. /\ rows \in Seq(Result)
      /\ \A i \in DOMAIN rows : \E p \in of("rows") : rows[i] = rs[p]
      /\ \A i, j \in DOMAIN rows : rows[i] = rows[j] => i = j
  <2>1. \A p, r \in of("rows") : rs[p] = rs[r] => p = r
    OBVIOUS
  <2> QED BY <2>1, PickedElements
<1>2. b.groups = Groups(ds)
  BY DEF BatchOf
<1>3. /\ UNION {DaysIn(b.groups[n].days) : n \in DOMAIN b.groups} = {rs[i].day : i \in of("rows")}
      /\ b.empty = {rs[i].day : i \in of("empty")}
      /\ b.missing = {rs[i].day : i \in of("missing")}
  BY BatchSorted
<1> HIDE DEF rows, b
<1>4. ds \in Seq(Days) /\ NoRepeat(ds)
  <2>1. \A i \in DOMAIN rows : rows[i].day \in Days
    <3>1. \A r \in Result : r.day \in Days
      BY DEF Result
    <3> QED BY <1>1, <3>1
  <2>2. ds \in Seq(Days)
    BY <1>1, <2>1
  <2>3. \A i, j \in DOMAIN rows : rows[i].day = rows[j].day => i = j
    <3> SUFFICES ASSUME NEW i \in DOMAIN rows, NEW j \in DOMAIN rows, rows[i].day = rows[j].day
                 PROVE  i = j
      OBVIOUS
    <3>1. PICK p \in DOMAIN rs : rows[i] = rs[p]
      BY <1>1
    <3>2. PICK r \in DOMAIN rs : rows[j] = rs[r]
      BY <1>1
    <3> QED BY <1>1, <3>1, <3>2
  <2>4. DOMAIN ds = DOMAIN rows /\ \A i \in DOMAIN rows : ds[i] = rows[i].day
    OBVIOUS
  <2> HIDE DEF ds
  <2> QED BY <2>2, <2>3, <2>4 DEF NoRepeat
<1> HIDE DEF ds
<1>5. /\ \A n \in DOMAIN b.groups : NoRepeat(b.groups[n].days)
      /\ \A n, m \in DOMAIN b.groups : n # m => DaysIn(b.groups[n].days) \intersect DaysIn(b.groups[m].days) = {}
      /\ \A n \in DOMAIN b.groups : \A d \in DaysIn(b.groups[n].days) : PartitionOf[d] = b.groups[n].k
  <2>1. /\ \A n \in DOMAIN Groups(ds) : NoRepeat(Groups(ds)[n].days)
        /\ \A n, m \in DOMAIN Groups(ds) :
             n # m => DaysIn(Groups(ds)[n].days) \intersect DaysIn(Groups(ds)[m].days) = {}
        /\ \A n \in DOMAIN Groups(ds) : \A d \in DaysIn(Groups(ds)[n].days) : PartitionOf[d] = Groups(ds)[n].k
    BY <1>4, GroupsOnce
  <2> DEFINE gs == Groups(ds)
  <2>2. b.groups = gs
    BY <1>2
  <2>3. /\ \A n \in DOMAIN gs : NoRepeat(gs[n].days)
        /\ \A n, m \in DOMAIN gs : n # m => DaysIn(gs[n].days) \intersect DaysIn(gs[m].days) = {}
        /\ \A n \in DOMAIN gs : \A d \in DaysIn(gs[n].days) : PartitionOf[d] = gs[n].k
    BY <2>1
  <2> HIDE DEF gs
  <2> QED BY <2>2, <2>3
<1>6. \A n \in DOMAIN b.groups : \A d \in DaysIn(b.groups[n].days) :
        \E i \in DOMAIN rs : rs[i].got = "rows" /\ rs[i].day = d
  BY <1>3
<1>7. \A n \in DOMAIN b.groups : DaysIn(b.groups[n].days) \intersect (b.empty \union b.missing) = {}
  BY <1>3, <1>6
<1>8. b.empty \intersect b.missing = {}
  BY <1>3
<1>9. BatchOnce(b) /\ BatchPlaced(b)
  BY <1>5, <1>7, <1>8 DEF BatchOnce, BatchPlaced
<1> QED BY <1>9 DEF b

\* What the invariant says of a closed store: a day is found once, in the part the manifest
\* names for it, or not at all.
LEMMA AgreeCopies == Inv /\ AgreeInv /\ ClosedDone => PartsAgreeWithManifest
<1> SUFFICES ASSUME Inv, AgreeInv, ClosedDone, Closed, NEW d \in Days
             PROVE  Copies(d) = IF d \in DOMAIN completedDays /\ completedDays[d] # NoPart THEN 1 ELSE 0
  BY DEF PartsAgreeWithManifest
<1> DEFINE places == UNION {{<<p, i>> : i \in DOMAIN files[p].rows} : p \in DOMAIN files}
           found == {place \in places : files[place[1]].rows[place[2]] = d}
<1>1. Copies(d) = Cardinality(found)
  BY DEF Copies
\* where the day is found is where the manifest says it is
<1>2. \A p \in DOMAIN files : \A i \in DOMAIN files[p].rows : files[p].rows[i] = d =>
        d \in DOMAIN completedDays /\ completedDays[d] = p /\ p # NoPart
  <2> SUFFICES ASSUME NEW p \in DOMAIN files, NEW i \in DOMAIN files[p].rows, files[p].rows[i] = d
               PROVE  d \in DOMAIN completedDays /\ completedDays[d] = p /\ p # NoPart
    OBVIOUS
  <2>1. p # NoPart
    BY PartNotNull DEF Inv, TypeOK, DiskOK
  <2>2. PICK e \in DOMAIN completedDays : completedDays[e] = p
    BY DEF ClosedDone, Closed, Referenced
  <2>3. d \in DaysIn(files[p].rows)
    BY DEF DaysIn
  <2> QED BY <2>1, <2>2, <2>3 DEF AgreeInv, NamedWhole
<1>3. \A x \in found : \E p \in DOMAIN files : \E i \in DOMAIN files[p].rows :
        x = <<p, i>> /\ files[p].rows[i] = d
  OBVIOUS
<1>4. CASE d \in DOMAIN completedDays /\ completedDays[d] # NoPart
  <2> DEFINE p == completedDays[d]
  <2>1. p \in DOMAIN files /\ d \in DaysIn(files[p].rows)
    BY <1>4 DEF Inv, PartsInv, ManifestBacked, Readable
  <2>2. PICK i \in DOMAIN files[p].rows : files[p].rows[i] = d
    BY <2>1 DEF DaysIn
  <2>3. NoRepeat(files[p].rows)
    BY <1>4 DEF AgreeInv, NamedWhole
  <2>4. <<p, i>> \in found
    <3>1. <<p, i>> \in places /\ <<p, i>>[1] = p /\ <<p, i>>[2] = i
      BY <2>1
    <3> QED BY <2>2, <3>1
  <2>5. \A x \in found : x = <<p, i>>
    BY <1>2, <1>3, <2>2, <2>3 DEF NoRepeat
  <2> HIDE DEF found
  <2>6. found = {<<p, i>>}
    BY <2>4, <2>5
  <2> QED BY <1>1, <1>4, <2>6, FS_Singleton
<1>5. CASE ~(d \in DOMAIN completedDays /\ completedDays[d] # NoPart)
  <2>1. found = {}
    BY <1>2, <1>3, <1>5
  <2> HIDE DEF found
  <2> QED BY <1>1, <1>5, <2>1, FS_EmptySet
<1> QED BY <1>4, <1>5

-----------------------------------------------------------------------------
(* The parts of a closed store                                              *)

\* A use of the store that gives it no batch, and one that gives it none once it is closed.
OtherUse == Open \/ BeginClose \/ StoreStep \/ Return \/ Exit
UsedOpen == OtherUse \/ (state # "closed" /\ \E b \in Batch : BeginIngest(b))

\* A use of the store that gives it no day twice, nor one the manifest has.
UsedOnce ==
  \/ OtherUse
  \/ \E b \in Batch : /\ BatchOnce(b) /\ BeginIngest(b)
                      /\ DaysOf(b) \intersect (taken \union DOMAIN completedDays) = {}

LEMMA UsedOnceAgrees == Inv /\ AgreeInv /\ [UsedOnce]_storeVars => AgreeInv'
<1> SUFFICES ASSUME Inv, AgreeInv, [UsedOnce]_storeVars PROVE AgreeInv'
  OBVIOUS
<1>1. CASE Open                    BY <1>1, OpenAgrees
<1>2. CASE \E b \in Batch : /\ BatchOnce(b) /\ BeginIngest(b)
                            /\ DaysOf(b) \intersect (taken \union DOMAIN completedDays) = {}
                                   BY <1>2, BeginIngestAgrees
<1>3. CASE BeginClose              BY <1>3, BeginCloseAgrees
<1>4. CASE AppendGroup             BY <1>4, AppendGroupAgrees
<1>5. CASE AppendFails             BY <1>5, AppendFailsAgrees
<1>6. CASE SplitGroup              BY <1>6, SplitGroupAgrees
<1>7. CASE RollForSchema           BY <1>7, RollForSchemaAgrees
<1>8. CASE ClosePart               BY <1>8, ClosePartAgrees
<1>9. CASE ClosePartFails          BY <1>9, ClosePartFailsAgrees
<1>10. CASE CommitPart             BY <1>10, CommitPartAgrees
<1>11. CASE CommitFails            BY <1>11, CommitFailsAgrees
<1>12. CASE RecordEmpty            BY <1>12, RecordEmptyAgrees
<1>13. CASE RecordMissing          BY <1>13, RecordMissingAgrees
<1>14. CASE RecordFails            BY <1>14, RecordFailsAgrees
<1>15. CASE FlushNext              BY <1>15, FlushNextAgrees
<1>16. CASE SweepAndClose          BY <1>16, SweepAndCloseAgrees
<1>17. CASE Return                 BY <1>17, ReturnAgrees
<1>18. CASE Exit                   BY <1>18, ExitAgrees
<1>19. CASE UNCHANGED storeVars
  <2>1. UNCHANGED <<files, completedDays, state, writers, committing, taken, call, steps>>
    BY <1>19 DEF storeVars, diskVars, lockVars, historyVars
  <2>2. StepsOnce(steps)
    BY DEF AgreeInv, PlacedOnce
  <2> QED BY <2>1, <2>2, AgreeLess
<1> QED BY <1>1, <1>2, <1>3, <1>4, <1>5, <1>6, <1>7, <1>8, <1>9, <1>10, <1>11, <1>12, <1>13,
           <1>14, <1>15, <1>16, <1>17, <1>18, <1>19 DEF UsedOnce, OtherUse, StoreStep

\* A store that is closed stays as close() left it until it is opened again, unless a batch is
\* ingested after the close.
LEMMA ClosedKeeps ==
  ASSUME Inv, AgreeInv, ClosedDone, [UsedOpen]_storeVars
  PROVE  ClosedDone'
<1> SUFFICES ASSUME state' = "closed"
             PROVE  /\ DOMAIN writers' = {} /\ committing' = {} /\ call' # "ingest"
                    /\ DOMAIN files' \subseteq Referenced'
  BY DEF ClosedDone
<1>1. CASE SweepAndClose
  <2>1. /\ steps # <<>> /\ Head(steps).do = "sweep" /\ committing' = {} /\ files' = Swept
        /\ UNCHANGED <<completedDays, writers, call>>
    BY <1>1 DEF SweepAndClose, At, historyVars
  <2>2. call = "close" /\ DOMAIN writers = {}
    <3>1. steps[1].do = "sweep" /\ 1 \in DOMAIN steps
      BY <2>1, Holding
    <3> QED BY <3>1 DEF Inv, SweepsLast, Lacks
  <2>3. DOMAIN files' \subseteq Referenced
    BY <2>1, SweptNamed DEF AgreeInv
  <2> QED BY <2>1, <2>2, <2>3 DEF Referenced
<1>2. CASE ~SweepAndClose
  <2>1. state = "closed"
    BY <1>2 DEF UsedOpen, OtherUse, StoreStep, Open, BeginClose, BeginIngest, AppendGroup, AppendFails, SplitGroup,
                RollForSchema, ClosePart, ClosePartFails, CommitPart, CommitFails, RecordEmpty,
                RecordMissing, RecordFails, FlushNext, Return, Exit, storeVars
  <2>2. /\ DOMAIN writers = {} /\ committing = {} /\ call # "ingest"
        /\ DOMAIN files \subseteq Referenced
    BY <2>1 DEF ClosedDone
  <2>3. ~At("append")
    BY <2>1, <2>2, AppendHead DEF Inv, TypeOK, LockOK
  <2>4. UNCHANGED <<files, completedDays, writers>> /\ committing' = {} /\ call' # "ingest"
    <3>1. CASE Open \/ BeginClose \/ CommitPart \/ RecordEmpty \/ RecordMissing \/ Exit
      BY <2>1, <3>1 DEF Open, BeginClose, CommitPart, RecordEmpty, RecordMissing, Exit
    <3>2. CASE AppendGroup \/ AppendFails \/ SplitGroup \/ RollForSchema
      BY <2>3, <3>2 DEF AppendGroup, AppendFails, SplitGroup, RollForSchema
    <3>3. CASE ClosePart \/ ClosePartFails
      BY <2>2, <3>3 DEF ClosePart, ClosePartFails
    <3>4. CASE CommitFails \/ RecordFails \/ FlushNext \/ Return
      BY <2>2, <3>4 DEF CommitFails, RecordFails, FlushNext, Return, diskVars
    <3>5. CASE UNCHANGED storeVars
      BY <2>2, <3>5 DEF storeVars, diskVars, lockVars
    <3> QED BY <1>2, <2>1, <3>1, <3>2, <3>3, <3>4, <3>5 DEF UsedOpen, OtherUse, StoreStep
  <2> QED BY <2>2, <2>4 DEF Referenced
<1> QED BY <1>1, <1>2

LEMMA InitAgrees == Init => AgreeInv /\ ClosedDone
<1> SUFFICES ASSUME Init PROVE AgreeInv /\ ClosedDone
  OBVIOUS
<1>1. Parts = {} /\ steps = <<>> /\ DOMAIN completedDays = {} /\ state = "down"
  BY DEF Init, EmptyMap, Parts, Uncommitted
<1>2. PartsOnce({}) /\ DaysAwaiting({}) = {}
  BY DEF PartsOnce, DaysAwaiting
<1> QED BY <1>1, <1>2, NoSteps DEF AgreeInv, PlacedOnce, RowsAwait, NamedWhole, ClosedDone
-----------------------------------------------------------------------------
(* What a reader may find meanwhile                                         *)

DaysOnDisk == {d \in Days : \E p \in DOMAIN files : d \in DaysIn(files[p].rows)}

\* The days of a partition go to its parts.
InPlace(s) ==
  \A i \in DOMAIN s : s[i].do = "append" => \A d \in DaysIn(s[i].days) : PartitionOf[d] = s[i].k

\* No day is in two parts or twice in one, readable or not, named or orphaned, nor is one on
\* disk still to be written; while a process runs the days on disk are those it was given and
\* those the manifest has.
DiskOnce ==
  /\ \A p \in DOMAIN files : /\ NoRepeat(files[p].rows)
                             /\ \A d \in DaysIn(files[p].rows) : PartitionOf[d] = p[1]
  /\ \A p, q \in DOMAIN files : DaysIn(files[p].rows) \intersect DaysIn(files[q].rows) # {} => p = q
  /\ InPlace(steps) /\ DaysLeft(steps) \intersect DaysOnDisk = {}
  /\ state # "down" => DaysOnDisk \subseteq taken \union DOMAIN completedDays

LEMMA InPlaceConcat ==
  ASSUME NEW s \in Seq(Step), NEW t \in Seq(Step), InPlace(s), InPlace(t)
  PROVE  InPlace(s \o t)
<1>1. \A i \in DOMAIN (s \o t) : \/ i \in DOMAIN s /\ (s \o t)[i] = s[i]
                                 \/ i - Len(s) \in DOMAIN t /\ (s \o t)[i] = t[i - Len(s)]
  OBVIOUS
<1> QED BY <1>1 DEF InPlace

LEMMA InPlaceTail ==
  ASSUME NEW s \in Seq(Step), s # <<>>, InPlace(s)
  PROVE  InPlace(Tail(s)) /\ (Head(s).do = "append" => \A d \in DaysIn(Head(s).days) : PartitionOf[d] = Head(s).k)
<1>1. /\ 1 \in DOMAIN s /\ s[1] = Head(s)
      /\ \A i \in DOMAIN Tail(s) : i + 1 \in DOMAIN s /\ Tail(s)[i] = s[i + 1]
  OBVIOUS
<1> QED BY <1>1 DEF InPlace

LEMMA InPlaceNone == InPlace(<<>>) /\ \A k : InPlace(<<Flush(k)>>)
BY DEF InPlace, Flush

\* Parts are deleted or closed, and nothing is added to what is left to do.
LEMMA DiskLess ==
  ASSUME DiskOnce, DOMAIN files' \subseteq DOMAIN files,
         \A p \in DOMAIN files' : files'[p].rows = files[p].rows,
         InPlace(steps'), DaysLeft(steps') \subseteq DaysLeft(steps),
         state' # "down" => state # "down" /\ taken \subseteq taken'
                            /\ DOMAIN completedDays \subseteq DOMAIN completedDays'
  PROVE  DiskOnce'
<1>1. DaysOnDisk' \subseteq DaysOnDisk
  BY DEF DaysOnDisk
<1>2. \A p \in DOMAIN files' : /\ NoRepeat(files'[p].rows)
                               /\ \A d \in DaysIn(files'[p].rows) : PartitionOf[d] = p[1]
  BY DEF DiskOnce
<1>3. \A p, q \in DOMAIN files' : DaysIn(files'[p].rows) \intersect DaysIn(files'[q].rows) # {} => p = q
  BY DEF DiskOnce
<1>4. InPlace(steps') /\ DaysLeft(steps') \intersect DaysOnDisk' = {}
      /\ (state' # "down" => DaysOnDisk' \subseteq taken' \union DOMAIN completedDays')
  BY <1>1 DEF DiskOnce
<1> QED BY <1>2, <1>3, <1>4 DEF DiskOnce

\* The files are as they are.
LEMMA DiskSame ==
  ASSUME DiskOnce, files' = files, InPlace(steps'), DaysLeft(steps') \subseteq DaysLeft(steps),
         state' # "down" => state # "down" /\ taken \subseteq taken'
                            /\ DOMAIN completedDays \subseteq DOMAIN completedDays'
  PROVE  DiskOnce'
BY DiskLess

\* Days of the step at hand are written to the open part of their partition.
LEMMA DiskAppend ==
  ASSUME Inv, AgreeInv, DiskOnce, NEW k \in Partitions, NEW ds \in Seq(Days), NoRepeat(ds),
         \A d \in DaysIn(ds) : PartitionOf[d] = k,
         files' = With(files, PartOf(k), [closed |-> FALSE, rows |-> RowsOf(k) \o ds]),
         UNCHANGED <<completedDays, state, taken>>, InPlace(steps'),
         DaysIn(ds) \subseteq DaysLeft(steps), DaysLeft(steps') \subseteq DaysLeft(steps) \ DaysIn(ds)
  PROVE  DiskOnce'
<1> DEFINE p == PartOf(k)
           rows == RowsOf(k) \o ds
           v == [closed |-> FALSE, rows |-> rows]
<1>1. p \in Part /\ p[1] = k /\ RowsOf(k) \in Seq(Days)
  BY PartOfFree DEF Inv, TypeOK
\* what the part had
<1>2. \/ p \in DOMAIN files /\ RowsOf(k) = files[p].rows
      \/ p \notin DOMAIN files /\ RowsOf(k) = <<>>
  <2>1. CASE k \in DOMAIN writers
    BY <2>1 DEF PartOf, RowsOf, Inv, PartsInv, WritersOK
  <2>2. CASE k \notin DOMAIN writers
    BY <2>2, NextPartNew DEF PartOf, RowsOf, Inv, TypeOK, PartsInv
  <2> QED BY <2>1, <2>2
<1>3. DaysIn(ds) \subseteq Days /\ DaysIn(ds) \intersect DaysOnDisk = {}
  BY DEF DiskOnce, DaysLeft
<1>4. \A q \in DOMAIN files : DaysIn(files[q].rows) \subseteq DaysOnDisk
  <2>1. \A q \in DOMAIN files : files[q].rows \in Seq(Days)
    BY DEF Inv, TypeOK, DiskOK
  <2> QED BY <2>1 DEF DaysOnDisk, DaysIn
<1>5. /\ NoRepeat(RowsOf(k)) /\ DaysIn(RowsOf(k)) \subseteq DaysOnDisk
      /\ \A d \in DaysIn(RowsOf(k)) : PartitionOf[d] = k
      /\ \A q \in DOMAIN files : q # p => DaysIn(files[q].rows) \intersect DaysIn(RowsOf(k)) = {}
  <2>1. CASE p \in DOMAIN files /\ RowsOf(k) = files[p].rows
    BY <1>1, <1>4, <2>1 DEF DiskOnce
  <2>2. CASE RowsOf(k) = <<>>
    BY <2>2 DEF NoRepeat, DaysIn
  <2> QED BY <1>2, <2>1, <2>2
<1>6. NoRepeat(rows) /\ DaysIn(rows) = DaysIn(RowsOf(k)) \union DaysIn(ds)
  BY <1>1, <1>3, <1>5, NoRepeatConcat, DaysInConcat
<1>7. files' = With(files, p, v) /\ v.rows = rows
  OBVIOUS
<1> HIDE DEF p, rows, v
<1>8. /\ DOMAIN files' = DOMAIN files \union {p} /\ files'[p] = v
      /\ \A q \in DOMAIN files : q # p => files'[q] = files[q]
  BY <1>7 DEF With
<1>9. ASSUME NEW q \in DOMAIN files'
      PROVE  /\ NoRepeat(files'[q].rows)
             /\ \A d \in DaysIn(files'[q].rows) : PartitionOf[d] = q[1]
  <2>1. CASE q = p
    BY <1>1, <1>5, <1>6, <1>7, <1>8, <2>1
  <2>2. CASE q # p
    BY <1>8, <2>2 DEF DiskOnce
  <2> QED BY <2>1, <2>2
<1>10. \A q \in DOMAIN files : q # p => DaysIn(files[q].rows) \intersect DaysIn(rows) = {}
  BY <1>3, <1>4, <1>5, <1>6
<1>11. ASSUME NEW q \in DOMAIN files', NEW r \in DOMAIN files',
              DaysIn(files'[q].rows) \intersect DaysIn(files'[r].rows) # {}
       PROVE  q = r
  <2>1. CASE q # p /\ r # p
    BY <1>8, <1>11, <2>1 DEF DiskOnce
  <2>2. CASE q = p \/ r = p
    BY <1>7, <1>8, <1>10, <1>11, <2>2
  <2> QED BY <2>1, <2>2
<1>12. DaysOnDisk' \subseteq DaysOnDisk \union DaysIn(ds)
  <2> SUFFICES ASSUME NEW d \in Days, NEW q \in DOMAIN files', d \in DaysIn(files'[q].rows)
               PROVE  d \in DaysOnDisk \union DaysIn(ds)
    BY DEF DaysOnDisk
  <2>1. CASE q = p
    BY <1>5, <1>6, <1>7, <1>8, <2>1
  <2>2. CASE q # p
    BY <1>4, <1>8, <2>2
  <2> QED BY <2>1, <2>2
<1>13. DaysIn(ds) \subseteq taken
  BY DEF AgreeInv, PlacedOnce
<1>14. /\ DaysLeft(steps') \intersect DaysOnDisk' = {}
       /\ state' # "down" => DaysOnDisk' \subseteq taken' \union DOMAIN completedDays'
  BY <1>12, <1>13 DEF DiskOnce
<1> QED BY <1>9, <1>11, <1>14 DEF DiskOnce

\* The step at hand of an operation, and the steps after it.
LEMMA StepInPlace ==
  ASSUME Inv, DiskOnce, steps # <<>>
  PROVE  /\ InPlace(Tail(steps))
         /\ Head(steps).do = "append" => \A d \in DaysIn(Head(steps).days) : PartitionOf[d] = Head(steps).k
BY InPlaceTail DEF Inv, TypeOK, LockOK, DiskOnce

LEMMA DiskAppendGroup == Inv /\ AgreeInv /\ DiskOnce /\ AppendGroup => DiskOnce'
<1> SUFFICES ASSUME Inv, AgreeInv, DiskOnce, AppendGroup PROVE DiskOnce'
  OBVIOUS
<1> DEFINE k == Head(steps).k
           ds == Head(steps).days
           t == Tail(steps)
<1>1. /\ k \in Partitions /\ ds \in Seq(Days) /\ steps # <<>>
      /\ Head(steps).do = "append" /\ t \in Seq(Step)
  BY AppendHead DEF AppendGroup, At
<1>2. /\ files' = With(files, PartOf(k), [closed |-> FALSE, rows |-> RowsOf(k) \o ds])
      /\ UNCHANGED <<completedDays, state, taken>>
  BY DEF AppendGroup, historyVars
<1>3. PICK roll \in BOOLEAN : steps' = (IF roll THEN <<Flush(k)>> ELSE <<>>) \o t
  BY DEF AppendGroup, Rolls
<1>4. /\ StepsOnce(t) /\ NoRepeat(ds)
      /\ DaysIn(ds) \subseteq DaysLeft(steps) /\ DaysLeft(t) \subseteq DaysLeft(steps) \ DaysIn(ds)
  <2>1. DaysOfStep(Head(steps)) = DaysIn(ds)
    BY <1>1 DEF DaysOfStep
  <2> QED BY <1>1, <2>1, StepTaken
<1>5. InPlace(t) /\ \A d \in DaysIn(ds) : PartitionOf[d] = k
  BY <1>1, StepInPlace
<1> DEFINE s == IF roll THEN <<Flush(k)>> ELSE <<>>
<1>6. s \in Seq(Step) /\ StepsOnce(s) /\ DaysLeft(s) = {} /\ InPlace(s) /\ steps' = s \o t
  BY <1>1, <1>3, FlushSeq, FlushOnce, NoSteps, InPlaceNone
<1> HIDE DEF s, t, k, ds
<1>7. InPlace(s \o t) /\ DaysLeft(s \o t) = DaysLeft(t)
  BY <1>1, <1>4, <1>5, <1>6, ConcatNone, InPlaceConcat
<1> QED BY <1>1, <1>2, <1>4, <1>5, <1>6, <1>7, DiskAppend

\* Raising leaves nothing to be put anywhere.
LEMMA RaiseInPlace ==
  ASSUME Raise
  PROVE  InPlace(steps') /\ DaysLeft(steps') = {}
BY NoSteps, InPlaceNone DEF Raise

LEMMA DiskAppendFails == Inv /\ AgreeInv /\ DiskOnce /\ AppendFails => DiskOnce'
<1> SUFFICES ASSUME Inv, AgreeInv, DiskOnce, AppendFails PROVE DiskOnce'
  OBVIOUS
<1> DEFINE k == Head(steps).k
<1>1. k \in Partitions
  BY AppendHead DEF AppendFails
<1>2. /\ files' = With(files, PartOf(k), [closed |-> FALSE, rows |-> RowsOf(k)])
      /\ Raise /\ UNCHANGED <<completedDays, state, taken>>
  BY DEF AppendFails
<1> HIDE DEF k
<1>3. RowsOf(k) = RowsOf(k) \o <<>>
  <2>1. RowsOf(k) \in Seq(Days)
    BY <1>1, PartOfFree DEF Inv, TypeOK
  <2> QED BY <2>1
<1>4. <<>> \in Seq(Days) /\ NoRepeat(<<>>) /\ DaysIn(<<>>) = {}
  BY DEF NoRepeat, DaysIn
<1>5. InPlace(steps') /\ DaysLeft(steps') = {}
  BY <1>2, RaiseInPlace
<1>6. files' = With(files, PartOf(k), [closed |-> FALSE, rows |-> RowsOf(k) \o <<>>])
  BY <1>2, <1>3
<1> QED BY <1>1, <1>2, <1>4, <1>5, <1>6, DiskAppend

LEMMA DiskSplitGroup == Inv /\ AgreeInv /\ DiskOnce /\ SplitGroup => DiskOnce'
<1> SUFFICES ASSUME Inv, AgreeInv, DiskOnce, SplitGroup PROVE DiskOnce'
  OBVIOUS
<1> DEFINE k == Head(steps).k
           ds == Head(steps).days
           t == Tail(steps)
           w(i) == [do |-> "append", k |-> k, days |-> <<ds[i]>>]
           s == [i \in DOMAIN ds |-> w(i)]
<1>1. /\ k \in Partitions /\ ds \in Seq(Days) /\ steps # <<>>
      /\ Head(steps).do = "append" /\ t \in Seq(Step)
  BY AppendHead DEF SplitGroup, At
<1>2. steps' = s \o t /\ UNCHANGED <<files, completedDays, state, taken>>
  BY DEF SplitGroup, diskVars, historyVars
<1>3. /\ StepsOnce(t) /\ NoRepeat(ds)
      /\ DaysIn(ds) \subseteq DaysLeft(steps) /\ DaysLeft(t) \subseteq DaysLeft(steps) \ DaysIn(ds)
  <2>1. DaysOfStep(Head(steps)) = DaysIn(ds)
    BY <1>1 DEF DaysOfStep
  <2> QED BY <1>1, <2>1, StepTaken
<1>4. InPlace(t) /\ \A d \in DaysIn(ds) : PartitionOf[d] = k
  BY <1>1, StepInPlace
<1>5. s \in Seq(Step) /\ InPlace(s)
  <2>1. \A i \in DOMAIN ds : w(i) \in Step /\ w(i).k = k /\ DaysIn(w(i).days) \subseteq DaysIn(ds)
    <3> SUFFICES ASSUME NEW i \in DOMAIN ds
                 PROVE  w(i) \in Step /\ w(i).k = k /\ DaysIn(w(i).days) \subseteq DaysIn(ds)
      OBVIOUS
    <3>1. <<ds[i]>> \in Seq(Days)
      BY <1>1
    <3>2. DaysIn(<<ds[i]>>) \subseteq DaysIn(ds)
      BY DEF DaysIn
    <3> QED BY <1>1, <3>1, <3>2, StepTypes
  <2>2. DOMAIN s = DOMAIN ds /\ \A i \in DOMAIN ds : s[i] = w(i)
    OBVIOUS
  <2>3. s = [i \in DOMAIN ds |-> w(i)]
    OBVIOUS
  <2> HIDE DEF w, s, ds
  <2>4. s \in Seq(Step)
    BY <1>1, <2>1, <2>3
  <2> QED BY <1>4, <2>1, <2>2, <2>4 DEF InPlace
<1>6. StepsOnce(s) /\ DaysLeft(s) = DaysIn(ds)
  <2>1. s = [i \in DOMAIN ds |-> [do |-> "append", k |-> k, days |-> <<ds[i]>>]]
    OBVIOUS
  <2> HIDE DEF s, ds, k
  <2> QED BY <1>1, <1>3, <1>5, <2>1, SplitOnce
<1> HIDE DEF s, t, k, ds
<1>7. InPlace(s \o t) /\ DaysLeft(s \o t) = DaysLeft(s) \union DaysLeft(t)
  BY <1>1, <1>3, <1>4, <1>5, <1>6, ConcatOnce, InPlaceConcat
<1> QED BY <1>2, <1>3, <1>6, <1>7, DiskSame

LEMMA FlushInPlace ==
  ASSUME Inv, DiskOnce, NEW k \in Partitions, steps' = <<Flush(k)>> \o steps
  PROVE  InPlace(steps')
<1> DEFINE s == <<Flush(k)>>
<1>1. s \in Seq(Step) /\ InPlace(s) /\ steps' = s \o steps
  BY FlushSeq, InPlaceNone
<1> HIDE DEF s
<1> QED BY <1>1, InPlaceConcat DEF Inv, TypeOK, LockOK, DiskOnce

LEMMA DiskRollForSchema == Inv /\ AgreeInv /\ DiskOnce /\ RollForSchema => DiskOnce'
<1> SUFFICES ASSUME Inv, AgreeInv, DiskOnce, RollForSchema PROVE DiskOnce'
  OBVIOUS
<1>1. /\ Head(steps).k \in Partitions /\ steps' = <<Flush(Head(steps).k)>> \o steps
      /\ UNCHANGED <<files, completedDays, state, taken>>
  BY AppendHead DEF RollForSchema, diskVars, historyVars
<1> QED BY <1>1, FlushBefore, FlushInPlace, DiskSame

LEMMA DiskFlushNext == Inv /\ AgreeInv /\ DiskOnce /\ FlushNext => DiskOnce'
<1> SUFFICES ASSUME Inv, AgreeInv, DiskOnce, FlushNext PROVE DiskOnce'
  OBVIOUS
<1>1. steps # <<>> /\ UNCHANGED <<files, completedDays, state, taken>>
  BY DEF FlushNext, At, diskVars, historyVars
<1>2. InPlace(steps') /\ DaysLeft(steps') \subseteq DaysLeft(steps)
  <2>1. CASE \E k \in DOMAIN writers : steps' = <<Flush(k)>> \o steps
    BY <2>1, FlushBefore, FlushInPlace DEF Inv, TypeOK, MemoryOK
  <2>2. CASE steps' = Tail(steps)
    BY <1>1, <2>2, StepTaken, StepInPlace
  <2> QED BY <2>1, <2>2 DEF FlushNext
<1> QED BY <1>1, <1>2, DiskSame

LEMMA DiskClosePart == Inv /\ AgreeInv /\ DiskOnce /\ (ClosePart \/ ClosePartFails) => DiskOnce'
<1> SUFFICES ASSUME Inv, AgreeInv, DiskOnce, ClosePart \/ ClosePartFails PROVE DiskOnce'
  OBVIOUS
<1> DEFINE p == writers[Head(steps).k].part
<1>1. /\ steps # <<>> /\ Head(steps).k \in DOMAIN writers
      /\ \/ files' = Without(files, p)
         \/ files' = [files EXCEPT ![p].closed = TRUE]
      /\ \/ steps' = Tail(steps)
         \/ Raise
      /\ UNCHANGED <<completedDays, state, taken>>
  BY DEF ClosePart, ClosePartFails, At, historyVars
<1>2. p \in DOMAIN files /\ files[p] \in [closed : BOOLEAN, rows : Seq(Days)]
  BY <1>1 DEF Inv, TypeOK, DiskOK, PartsInv, WritersOK
<1> HIDE DEF p
<1>3. DOMAIN files' \subseteq DOMAIN files /\ \A q \in DOMAIN files' : files'[q].rows = files[q].rows
  <2>1. CASE files' = Without(files, p)
    BY <2>1 DEF Without, Restrict
  <2>2. CASE files' = [files EXCEPT ![p].closed = TRUE]
    BY <1>2, <2>2
  <2> QED BY <1>1, <2>1, <2>2
<1>4. InPlace(steps') /\ DaysLeft(steps') \subseteq DaysLeft(steps)
  BY <1>1, StepTaken, StepInPlace, RaiseInPlace
<1> QED BY <1>1, <1>3, <1>4, DiskLess

\* A transaction, done or failed, leaves the files alone and takes no day from the manifest: a day
\* found missing is not in it.
LEMMA DiskRecord ==
  ASSUME Inv, AgreeInv, DiskOnce,
         CommitPart \/ CommitFails \/ RecordEmpty \/ RecordMissing \/ RecordFails
  PROVE  DiskOnce'
<1>1. UNCHANGED <<files, state, taken>>
  BY DEF CommitPart, CommitFails, RecordEmpty, RecordMissing, RecordFails, diskVars
<1>2. InPlace(steps') /\ DaysLeft(steps') \subseteq DaysLeft(steps)
  <2>1. CASE CommitPart
    BY <2>1 DEF CommitPart, DiskOnce
  <2>2. CASE CommitFails \/ RecordFails
    BY <2>2, RaiseInPlace DEF CommitFails, RecordFails
  <2>3. CASE RecordEmpty \/ RecordMissing
    <3>1. steps # <<>> /\ steps' = Tail(steps)
      BY <2>3 DEF RecordEmpty, RecordMissing, At
    <3> QED BY <3>1, StepTaken, StepInPlace
  <2> QED BY <2>1, <2>2, <2>3
<1>3. DOMAIN completedDays \subseteq DOMAIN completedDays'
  <2>1. CASE CommitPart \/ RecordEmpty
    BY <2>1 DEF CommitPart, RecordEmpty, Complete
  <2>2. CASE CommitFails \/ RecordFails
    BY <2>2 DEF CommitFails, RecordFails, diskVars
  <2>3. CASE RecordMissing
    <3>1. /\ completedDays' = Restrict(completedDays, DOMAIN completedDays \ DaysOfStep(Head(steps)))
          /\ steps # <<>>
      BY <2>3 DEF RecordMissing, At, DaysOfStep
    <3>2. DaysOfStep(Head(steps)) \intersect DOMAIN completedDays = {}
      BY <3>1, StepTaken DEF AgreeInv, PlacedOnce
    <3> QED BY <3>1, <3>2 DEF Restrict
  <2> QED BY <2>1, <2>2, <2>3
<1> QED BY <1>1, <1>2, <1>3, DiskSame

\* The sweep leaves the parts the manifest names.
LEMMA SweptLess ==
  ASSUME files' = Swept
  PROVE  DOMAIN files' \subseteq DOMAIN files /\ \A p \in DOMAIN files' : files'[p].rows = files[p].rows
BY DEF Swept, Restrict

LEMMA DiskSweepAndClose == Inv /\ AgreeInv /\ DiskOnce /\ SweepAndClose => DiskOnce'
<1> SUFFICES ASSUME Inv, AgreeInv, DiskOnce, SweepAndClose PROVE DiskOnce'
  OBVIOUS
<1>1. /\ steps # <<>> /\ files' = Swept /\ steps' = Tail(steps)
      /\ UNCHANGED <<completedDays, taken>>
  BY DEF SweepAndClose, At, historyVars
<1>2. state # "down"
  BY <1>1, Holding
<1> QED BY <1>1, <1>2, SweptLess, StepTaken, StepInPlace, DiskLess

\* What the parts hold that the manifest names is what the manifest has.
LEMMA DiskOpen == Inv /\ AgreeInv /\ DiskOnce /\ Open => DiskOnce'
<1> SUFFICES ASSUME Inv, AgreeInv, DiskOnce, Open PROVE DiskOnce'
  OBVIOUS
<1>1. state' = "open" /\ steps' = steps /\ files' = Swept /\ completedDays' = completedDays
  BY DEF Open, OpenSweep, lockVars
<1>2. DOMAIN files' \subseteq DOMAIN files /\ \A p \in DOMAIN files' : files'[p].rows = files[p].rows
  BY <1>1, SweptLess
<1>3. DaysOnDisk' \subseteq DaysOnDisk
  BY <1>2 DEF DaysOnDisk
<1>4. DaysOnDisk' \subseteq DOMAIN completedDays
  <2> SUFFICES ASSUME NEW d \in Days, NEW p \in DOMAIN files', d \in DaysIn(files'[p].rows)
               PROVE  d \in DOMAIN completedDays
    BY DEF DaysOnDisk
  <2>1. NamedWhole' /\ p \in Referenced
    BY <1>1, SweptNamed DEF AgreeInv
  <2>2. PICK c \in DOMAIN completedDays : completedDays[c] = p
    BY <2>1 DEF Referenced
  <2>3. p # NoPart
    BY <1>2, PartNotNull DEF Inv, TypeOK, DiskOK
  <2> QED BY <1>1, <2>1, <2>2, <2>3 DEF NamedWhole
<1>5. /\ \A p \in DOMAIN files' : /\ NoRepeat(files'[p].rows)
                                  /\ \A d \in DaysIn(files'[p].rows) : PartitionOf[d] = p[1]
      /\ \A p, q \in DOMAIN files' : DaysIn(files'[p].rows) \intersect DaysIn(files'[q].rows) # {} => p = q
  BY <1>2 DEF DiskOnce
<1>6. InPlace(steps') /\ DaysLeft(steps') \intersect DaysOnDisk' = {}
  BY <1>1, <1>3 DEF DiskOnce
<1> QED BY <1>1, <1>4, <1>5, <1>6 DEF DiskOnce

LEMMA DiskExit == Inv /\ AgreeInv /\ DiskOnce /\ Exit => DiskOnce'
<1> SUFFICES ASSUME Inv, AgreeInv, DiskOnce, Exit PROVE DiskOnce'
  OBVIOUS
<1>1. state' = "down" /\ steps' = <<>> /\ files' = files
  BY DEF Exit, diskVars
<1> QED BY <1>1, NoSteps, InPlaceNone, DiskSame

LEMMA DiskBeginClose == Inv /\ AgreeInv /\ DiskOnce /\ BeginClose => DiskOnce'
<1> SUFFICES ASSUME Inv, AgreeInv, DiskOnce, BeginClose PROVE DiskOnce'
  OBVIOUS
<1>1. steps' = <<FlushAll, Sweep>> /\ UNCHANGED <<files, completedDays, state, taken>>
  BY DEF BeginClose, diskVars
<1>2. InPlace(steps') /\ DaysLeft(steps') = {}
  BY <1>1 DEF InPlace, DaysLeft, DaysOfStep, FlushAll, Sweep
<1> QED BY <1>1, <1>2, DiskSame

LEMMA DiskReturn == Inv /\ AgreeInv /\ DiskOnce /\ Return => DiskOnce'
BY DiskSame DEF Return, diskVars, DiskOnce


\* What ingest_batch is going to write goes to the parts of its partition.
LEMMA IngestInPlace ==
  ASSUME NEW b \in Batch, BatchPlaced(b)
  PROVE  InPlace(IngestSteps(b))
<1> DEFINE w == [i \in DOMAIN b.groups |-> Write(b.groups[i])]
           ee == Unless(b.empty, Record("empty", b.empty))
           m == Unless(b.missing, Record("missing", b.missing))
<1>1. b.groups \in Seq(Group) /\ b.empty \subseteq Days /\ b.missing \subseteq Days
  BY DEF Batch
<1>2. \A i \in DOMAIN b.groups : b.groups[i].k \in Partitions /\ b.groups[i].days \in Seq(Days)
  <2>1. \A i \in DOMAIN b.groups : b.groups[i] \in Group
    BY <1>1
  <2> QED BY <2>1 DEF Group
<1>3. w \in Seq(Step) /\ InPlace(w)
  <2>1. \A i \in DOMAIN b.groups : Write(b.groups[i]) \in Step
    BY <1>2, StepTypes DEF Write
  <2>2. DOMAIN w = DOMAIN b.groups
        /\ \A i \in DOMAIN w : w[i].k = b.groups[i].k /\ w[i].days = b.groups[i].days
    BY DEF Write
  <2>3. w \in Seq(Step)
    BY <1>1, <2>1
  <2> HIDE DEF w
  <2> QED BY <2>2, <2>3 DEF BatchPlaced, InPlace
<1>4. \A D \in SUBSET Days, do \in {"empty", "missing"} :
        InPlace(Unless(D, Record(do, D)))
  BY DEF InPlace, Unless, Record
<1>5. ee \in Seq(Step) /\ m \in Seq(Step) /\ InPlace(ee) /\ InPlace(m)
  BY <1>1, <1>4, UnlessType
<1>6. IngestSteps(b) = (w \o ee) \o m
  BY DEF IngestSteps
<1> HIDE DEF w, ee, m
<1>7. w \o ee \in Seq(Step) /\ InPlace(w \o ee)
  BY <1>3, <1>5, InPlaceConcat
<1> QED BY <1>5, <1>6, <1>7, InPlaceConcat

LEMMA DiskBeginIngest ==
  ASSUME Inv, AgreeInv, DiskOnce, NEW b \in Batch, BatchOnce(b), BatchPlaced(b), BeginIngest(b),
         DaysOf(b) \intersect (taken \union DOMAIN completedDays) = {}
  PROVE  DiskOnce'
<1>1. /\ steps' = IngestSteps(b) /\ taken' = taken \union DaysOf(b) /\ state # "down"
      /\ UNCHANGED <<files, completedDays, state>>
  BY DEF BeginIngest, diskVars
<1>2. InPlace(steps') /\ DaysLeft(steps') = DaysOf(b)
  BY <1>1, IngestOnce, IngestInPlace
<1>3. DaysOnDisk' = DaysOnDisk
  BY <1>1 DEF DaysOnDisk
<1>4. /\ DaysLeft(steps') \intersect DaysOnDisk' = {}
      /\ DaysOnDisk' \subseteq taken' \union DOMAIN completedDays'
  BY <1>1, <1>2, <1>3 DEF DiskOnce
<1> QED BY <1>1, <1>2, <1>4 DEF DiskOnce

\* A use of the store that gives it no day twice, nor one the manifest has, and each in the group
\* of its partition.
UsedPlaced ==
  \/ OtherUse
  \/ \E b \in Batch : /\ BatchOnce(b) /\ BatchPlaced(b) /\ BeginIngest(b)
                      /\ DaysOf(b) \intersect (taken \union DOMAIN completedDays) = {}

LEMMA UsedPlacedDisk == Inv /\ AgreeInv /\ DiskOnce /\ [UsedPlaced]_storeVars => DiskOnce'
<1> SUFFICES ASSUME Inv, AgreeInv, DiskOnce, [UsedPlaced]_storeVars PROVE DiskOnce'
  OBVIOUS
<1>1. CASE \E b \in Batch : /\ BatchOnce(b) /\ BatchPlaced(b) /\ BeginIngest(b)
                            /\ DaysOf(b) \intersect (taken \union DOMAIN completedDays) = {}
  BY <1>1, DiskBeginIngest
<1>2. CASE Open \/ BeginClose \/ Return \/ Exit
  BY <1>2, DiskOpen, DiskBeginClose, DiskReturn, DiskExit
<1>3. CASE StoreStep
  <2>1. CASE AppendGroup \/ AppendFails \/ SplitGroup \/ RollForSchema
    BY <2>1, DiskAppendGroup, DiskAppendFails, DiskSplitGroup, DiskRollForSchema
  <2>2. CASE ClosePart \/ ClosePartFails \/ FlushNext \/ SweepAndClose
    BY <2>2, DiskClosePart, DiskFlushNext, DiskSweepAndClose
  <2>3. CASE CommitPart \/ CommitFails \/ RecordEmpty \/ RecordMissing \/ RecordFails
    BY <2>3, DiskRecord
  <2> QED BY <1>3, <2>1, <2>2, <2>3 DEF StoreStep
<1>4. CASE UNCHANGED storeVars
  <2>1. UNCHANGED <<files, completedDays, state, taken, steps>>
    BY <1>4 DEF storeVars, diskVars, lockVars, historyVars
  <2> QED BY <2>1, DiskSame DEF DiskOnce
<1> QED BY <1>1, <1>2, <1>3, <1>4 DEF UsedPlaced, OtherUse

LEMMA InitDisk == Init => DiskOnce
<1> SUFFICES ASSUME Init PROVE DiskOnce
  OBVIOUS
<1>1. DOMAIN files = {} /\ steps = <<>> /\ state = "down"
  BY DEF Init, EmptyMap
<1> QED BY <1>1, NoSteps, InPlaceNone DEF DiskOnce

\* A completed day keeps its part.
LEMMA NamesKept ==
  ASSUME Inv, AgreeInv, [UsedPlaced]_storeVars, NEW d \in DOMAIN completedDays
  PROVE  d \in DOMAIN completedDays' /\ completedDays'[d] = completedDays[d]
<1>1. CASE CommitPart
  <2>1. PICK c \in committing : Complete(DaysIn(c.pending), c.part)
    BY <1>1 DEF CommitPart
  <2>2. c \in Parts /\ DaysIn(c.pending) \subseteq Days
    BY DEF Parts, Uncommitted, Inv, TypeOK, MemoryOK, OpenPart, DaysIn
  <2>3. d \notin DaysIn(c.pending)
    BY <2>2 DEF AgreeInv, PlacedOnce, DaysAwaiting
  <2> QED BY <2>1, <2>3 DEF Complete
<1>2. CASE RecordEmpty \/ RecordMissing
  <2>1. /\ steps # <<>> /\ DaysOfStep(Head(steps)) = Head(steps).days
        /\ \/ Complete(Head(steps).days, NoPart)
           \/ completedDays' = Restrict(completedDays, DOMAIN completedDays \ Head(steps).days)
    BY <1>2 DEF RecordEmpty, RecordMissing, At, DaysOfStep
  <2>2. d \notin Head(steps).days
    BY <2>1, StepTaken DEF AgreeInv, PlacedOnce
  <2> QED BY <2>1, <2>2 DEF Complete, Restrict
<1>3. CASE ~(CommitPart \/ RecordEmpty \/ RecordMissing)
  <2>1. completedDays' = completedDays
    BY <1>3 DEF UsedPlaced, OtherUse, StoreStep, storeVars, diskVars, Open, BeginIngest, BeginClose, AppendGroup,
       AppendFails, SplitGroup, RollForSchema, ClosePart, ClosePartFails, CommitFails, RecordFails,
       FlushNext, SweepAndClose, Return, Exit
  <2> QED BY <2>1
<1> QED BY <1>1, <1>2, <1>3
-----------------------------------------------------------------------------
(* The day ledger                                                           *)

\* A batch has one transaction of each kind to do.
OneRecord(s) ==
  \A i, j \in DOMAIN s : s[i].do \in {"empty", "missing"} /\ s[j].do = s[i].do => i = j

\* No two groups of days are of one partition: at most one part is being committed, and its
\* partition has no open part beside it.
GroupsInv ==
  /\ \A c, e \in committing : c = e
  /\ \A c \in committing : c.part[1] \notin DOMAIN writers
  /\ OneRecord(steps)

LEMMA RecordTail ==
  ASSUME NEW s \in Seq(Step), s # <<>>, OneRecord(s), NEW do \in {"empty", "missing"}
  PROVE  /\ OneRecord(Tail(s))
         /\ Head(s).do = do => StepDays(s, do) = Head(s).days /\ StepDays(Tail(s), do) = {}
         /\ Head(s).do # do => StepDays(s, do) = StepDays(Tail(s), do)
<1>1. /\ \A i \in DOMAIN Tail(s) : i + 1 \in DOMAIN s /\ s[i + 1] = Tail(s)[i] /\ i + 1 # 1
      /\ \A i \in DOMAIN s : i = 1 \/ (i - 1 \in DOMAIN Tail(s) /\ Tail(s)[i - 1] = s[i])
      /\ 1 \in DOMAIN s /\ Head(s) = s[1] /\ Head(s) \in Step
  OBVIOUS
<1>2. OneRecord(Tail(s))
  <2> SUFFICES ASSUME NEW i \in DOMAIN Tail(s), NEW j \in DOMAIN Tail(s),
                      Tail(s)[i].do \in {"empty", "missing"}, Tail(s)[j].do = Tail(s)[i].do
               PROVE  i = j
    BY DEF OneRecord
  <2>1. i + 1 = j + 1
    BY <1>1 DEF OneRecord
  <2> QED BY <2>1
<1>3. ASSUME Head(s).do = do
      PROVE  StepDays(s, do) = Head(s).days /\ StepDays(Tail(s), do) = {}
  <2>1. Head(s).days \subseteq Days
    BY <1>1, <1>3, StepKinds
  <2>2. \A i \in DOMAIN s : s[i].do = do => i = 1
    BY <1>1, <1>3 DEF OneRecord
  <2>3. \A i \in DOMAIN Tail(s) : Tail(s)[i].do # do
    BY <1>1, <2>2
  <2> QED BY <1>1, <1>3, <2>1, <2>2, <2>3 DEF StepDays
<1>4. ASSUME Head(s).do # do
      PROVE  StepDays(s, do) = StepDays(Tail(s), do)
  <2>1. \A d : d \in StepDays(s, do) <=> d \in StepDays(Tail(s), do)
    BY <1>1, <1>4 DEF StepDays
  <2> QED BY <2>1
<1> QED BY <1>2, <1>3, <1>4

\* Two sequences of steps that do not record the same kind of days.
LEMMA RecordConcat ==
  ASSUME NEW s \in Seq(Step), NEW t \in Seq(Step), OneRecord(s), OneRecord(t),
         \A do \in {"empty", "missing"} : Lacks(s, do) \/ Lacks(t, do)
  PROVE  OneRecord(s \o t)
<1> DEFINE st == s \o t
<1>1. \A i \in DOMAIN st :
        \/ i \in DOMAIN s /\ st[i] = s[i]
        \/ i - Len(s) \in DOMAIN t /\ st[i] = t[i - Len(s)]
  OBVIOUS
<1>2. DOMAIN st \subseteq Int /\ Len(s) \in Int
  OBVIOUS
<1> HIDE DEF st
<1>3. ASSUME NEW i \in DOMAIN st, NEW j \in DOMAIN st, st[i].do \in {"empty", "missing"}, st[j].do = st[i].do
      PROVE  i = j
  <2>1. CASE i \in DOMAIN s /\ st[i] = s[i] /\ j \in DOMAIN s /\ st[j] = s[j]
    BY <1>3, <2>1 DEF OneRecord
  <2>2. CASE i - Len(s) \in DOMAIN t /\ st[i] = t[i - Len(s)] /\ j - Len(s) \in DOMAIN t /\ st[j] = t[j - Len(s)]
    <3>1. i - Len(s) = j - Len(s)
      BY <1>3, <2>2 DEF OneRecord
    <3> QED BY <1>2, <3>1
  <2>3. CASE i \in DOMAIN s /\ st[i] = s[i] /\ j - Len(s) \in DOMAIN t /\ st[j] = t[j - Len(s)]
    BY <1>3, <2>3 DEF Lacks
  <2>4. CASE j \in DOMAIN s /\ st[j] = s[j] /\ i - Len(s) \in DOMAIN t /\ st[i] = t[i - Len(s)]
    BY <1>3, <2>4 DEF Lacks
  <2> QED BY <1>1, <2>1, <2>2, <2>3, <2>4
<1> QED BY <1>3 DEF OneRecord, st

\* Steps put before the others that record nothing.
LEMMA RecordBefore ==
  ASSUME NEW s \in Seq(Step), NEW t \in Seq(Step), OneRecord(t), Lacks(s, "empty"), Lacks(s, "missing")
  PROVE  OneRecord(s \o t) /\ \A do \in {"empty", "missing"} : StepDays(s \o t, do) = StepDays(t, do)
<1>1. OneRecord(s)
  BY DEF OneRecord, Lacks
<1>2. OneRecord(s \o t)
  BY <1>1, RecordConcat
<1>3. ASSUME NEW do \in {"empty", "missing"} PROVE StepDays(s \o t, do) = StepDays(t, do)
  <2> DEFINE st == s \o t
  <2>1. \A i \in DOMAIN st :
          \/ i \in DOMAIN s /\ st[i] = s[i]
          \/ i - Len(s) \in DOMAIN t /\ st[i] = t[i - Len(s)]
    OBVIOUS
  <2>2. \A i \in DOMAIN t : i + Len(s) \in DOMAIN st /\ st[i + Len(s)] = t[i]
    OBVIOUS
  <2> HIDE DEF st
  <2>3. \A d : d \in StepDays(st, do) <=> d \in StepDays(t, do)
    BY <2>1, <2>2 DEF StepDays, Lacks
  <2> QED BY <2>3 DEF st
<1> QED BY <1>2, <1>3

LEMMA RecordIngest ==
  ASSUME NEW b \in Batch
  PROVE  OneRecord(IngestSteps(b))
<1> DEFINE w == [i \in DOMAIN b.groups |-> Write(b.groups[i])]
           e == Unless(b.empty, Record("empty", b.empty))
           m == Unless(b.missing, Record("missing", b.missing))
<1>1. b.groups \in Seq(Group) /\ b.empty \subseteq Days /\ b.missing \subseteq Days
  BY DEF Batch
<1>2. \A i \in DOMAIN b.groups : Write(b.groups[i]) \in Step /\ Write(b.groups[i]).do = "append"
  <2> SUFFICES ASSUME NEW i \in DOMAIN b.groups
               PROVE  Write(b.groups[i]) \in Step /\ Write(b.groups[i]).do = "append"
    OBVIOUS
  <2>1. b.groups[i].k \in Partitions /\ b.groups[i].days \in Seq(Days)
    <3>1. b.groups[i] \in Group
      BY <1>1
    <3> QED BY <3>1 DEF Group
  <2> QED BY <2>1, StepTypes DEF Write
<1>3. w \in Seq(Step) /\ Lacks(w, "empty") /\ Lacks(w, "missing") /\ OneRecord(w)
  BY <1>1, <1>2 DEF Lacks, OneRecord
<1>4. e \in Seq(Step) /\ m \in Seq(Step)
  BY <1>1, UnlessType
<1>5. Lacks(e, "missing") /\ OneRecord(e) /\ Lacks(m, "empty") /\ OneRecord(m)
  <2>1. ASSUME NEW do \in {"empty", "missing"}, NEW other \in {"empty", "missing"}, do # other, NEW D
        PROVE  Lacks(Unless(D, Record(do, D)), other) /\ OneRecord(Unless(D, Record(do, D)))
    BY <2>1 DEF Unless, Record, Lacks, OneRecord
  <2> QED BY <2>1
<1>6. IngestSteps(b) = (w \o e) \o m
  BY DEF IngestSteps
<1> HIDE DEF w, e, m
<1> DEFINE v == w \o e
<1>7. v \in Seq(Step) /\ OneRecord(v) /\ Lacks(v, "missing")
  BY <1>3, <1>4, <1>5, RecordConcat, LacksConcat
<1> HIDE DEF v
<1>8. OneRecord(v \o m)
  BY <1>4, <1>5, <1>7, RecordConcat
<1> QED BY <1>6, <1>8 DEF v

LEMMA GatheredTyped == Inv => Gathered \in [Partitions -> SUBSET Days]
<1> SUFFICES ASSUME Inv, NEW k \in Partitions
             PROVE  DaysIn(PendingOf(k)) \subseteq Days
                    /\ \A c \in committing : DaysIn(c.pending) \subseteq Days
  BY DEF Gathered
<1>1. \A c \in committing : c.pending \in Seq(Days)
  BY DEF Inv, TypeOK, MemoryOK, OpenPart
<1>2. PendingOf(k) \in Seq(Days)
  <2>1. k \in DOMAIN writers => writers[k] \in OpenPart
    BY DEF Inv, TypeOK, MemoryOK
  <2> QED BY <2>1 DEF PendingOf, OpenPart
<1> QED BY <1>1, <1>2 DEF DaysIn

\* What a step does to the groups, when it records none of them.
Regrouped ==
  \/ /\ \A k \in Partitions : Gathered[k] \subseteq Gathered'[k]
     /\ \A do \in {"empty", "missing"} : StepDays(steps, do) \subseteq StepDays(steps', do)
  \/ /\ \A k \in Partitions : Gathered'[k] \in {Gathered[k], {}}
     /\ \A do \in {"empty", "missing"} : StepDays(steps', do) \in {StepDays(steps, do), {}}

LEMMA RegroupRefines ==
  ASSUME Inv, Inv', Regrouped, UNCHANGED <<StoredDays, emptyDays>>
  PROVE  [Ledger!Next]_(Ledger!vars)
<1>1. (Gathered \in [Partitions -> SUBSET Days])'
  BY GatheredTyped, PTL
<1>2. \A do : StepDays(steps', do) \in SUBSET Days
  BY DEF StepDays
<1> QED BY <1>1, <1>2 DEF Regrouped, Ledger!Next, Ledger!Gather, Ledger!Lose

\* A group as the sets it is made of.
LEMMA GatheredAs ==
  ASSUME NEW k \in Partitions
  PROVE  \A d : d \in Gathered[k] <=>
           \/ k \in DOMAIN writers /\ d \in DaysIn(writers[k].pending)
           \/ \E c \in committing : c.part[1] = k /\ d \in DaysIn(c.pending)
BY DEF Gathered, PendingOf, DaysIn

\* The days of an open part stay in it, whatever is written behind them.
LEMMA GroupsAppend ==
  ASSUME Inv, GroupsInv, NEW k \in Partitions, NEW p, NEW ds \in Seq(Days),
         writers' = With(writers, k, [part |-> p, pending |-> PendingOf(k) \o ds]),
         committing = {}, committing' = {}
  PROVE  /\ \A j \in Partitions : Gathered[j] \subseteq Gathered'[j]
         /\ ds = <<>> => \A j \in Partitions : Gathered'[j] = Gathered[j]
<1>1. PendingOf(k) \in Seq(Days)
  <2>1. k \in DOMAIN writers => writers[k] \in OpenPart
    BY DEF Inv, TypeOK, MemoryOK
  <2> QED BY <2>1 DEF PendingOf, OpenPart
<1>2. DaysIn(PendingOf(k) \o ds) = DaysIn(PendingOf(k)) \union DaysIn(ds)
  BY <1>1, DaysInConcat
<1>3. /\ PendingOf(k)' = PendingOf(k) \o ds
      /\ \A j \in Partitions : j # k => PendingOf(j)' = PendingOf(j)
  BY DEF PendingOf, With
<1>4. /\ Gathered'[k] = DaysIn(PendingOf(k)) \union DaysIn(ds)
      /\ \A j \in Partitions : j # k => Gathered'[j] = Gathered[j]
      /\ Gathered[k] = DaysIn(PendingOf(k))
  BY <1>2, <1>3 DEF Gathered
<1>5. ds = <<>> => DaysIn(ds) = {}
  BY DEF DaysIn
<1> QED BY <1>4, <1>5

LEMMA LedgerAppend ==
  ASSUME Inv, GroupsInv, AppendGroup
  PROVE  GroupsInv' /\ Regrouped
<1> DEFINE k == Head(steps).k
           ds == Head(steps).days
<1>1. /\ k \in Partitions /\ ds \in Seq(Days) /\ steps \in Seq(Step) /\ Tail(steps) \in Seq(Step)
      /\ steps # <<>> /\ committing = {} /\ Head(steps).do = "append"
  BY AppendHead DEF AppendGroup, At
<1>2. /\ writers' = With(writers, k, [part |-> PartOf(k), pending |-> PendingOf(k) \o ds])
      /\ committing' = {}
  BY <1>1 DEF AppendGroup
<1>3. PICK roll \in BOOLEAN : steps' = (IF roll THEN <<Flush(k)>> ELSE <<>>) \o Tail(steps)
  BY DEF AppendGroup, Rolls
<1> DEFINE s == IF roll THEN <<Flush(k)>> ELSE <<>>
<1>4. s \in Seq(Step) /\ Lacks(s, "empty") /\ Lacks(s, "missing") /\ steps' = s \o Tail(steps)
  <2>1. <<>> \in Seq(Step) /\ Lacks(<<>>, "empty") /\ Lacks(<<>>, "missing")
    BY DEF Lacks
  <2>2. <<Flush(k)>> \in Seq(Step)
    BY <1>1, FlushSeq
  <2>3. Lacks(<<Flush(k)>>, "empty") /\ Lacks(<<Flush(k)>>, "missing")
    BY DEF Lacks, Flush
  <2> QED BY <1>3, <2>1, <2>2, <2>3
<1>5. /\ OneRecord(Tail(steps))
      /\ \A do \in {"empty", "missing"} : StepDays(steps, do) = StepDays(Tail(steps), do)
  BY <1>1, RecordTail DEF GroupsInv
<1> HIDE DEF s, k, ds
<1>6. OneRecord(steps') /\ \A do \in {"empty", "missing"} : StepDays(steps', do) = StepDays(steps, do)
  BY <1>1, <1>4, <1>5, RecordBefore
<1>7. \A j \in Partitions : Gathered[j] \subseteq Gathered'[j]
  BY <1>1, <1>2, GroupsAppend
<1> QED BY <1>2, <1>6, <1>7 DEF GroupsInv, Regrouped

\* An operation that raises has no transaction left to do.
LEMMA RaiseRecords == Raise => OneRecord(steps') /\ \A do : StepDays(steps', do) = {}
BY DEF Raise, OneRecord, StepDays

LEMMA LedgerAppendFails ==
  ASSUME Inv, GroupsInv, AppendFails
  PROVE  GroupsInv' /\ Regrouped
<1> DEFINE k == Head(steps).k
<1>1. k \in Partitions /\ committing = {}
  BY AppendHead DEF AppendFails
<1>2. /\ writers' = With(writers, k, [part |-> PartOf(k), pending |-> PendingOf(k)])
      /\ committing' = {} /\ Raise
  BY <1>1 DEF AppendFails
<1> HIDE DEF k
<1>3. PendingOf(k) \in Seq(Days)
  <2>1. k \in DOMAIN writers => writers[k] \in OpenPart
    BY DEF Inv, TypeOK, MemoryOK
  <2> QED BY <2>1 DEF PendingOf, OpenPart
<1>4. PendingOf(k) = PendingOf(k) \o <<>> /\ <<>> \in Seq(Days)
  BY <1>3
<1>5. \A j \in Partitions : Gathered'[j] = Gathered[j]
  <2>1. writers' = With(writers, k, [part |-> PartOf(k), pending |-> PendingOf(k) \o <<>>])
    BY <1>2, <1>4
  <2> QED BY <1>1, <1>2, <1>4, <2>1, GroupsAppend
<1> QED BY <1>2, <1>5, RaiseRecords DEF GroupsInv, Regrouped

\* A step that leaves the groups as they are and puts steps before the others that record nothing.
LEMMA LedgerSteps ==
  ASSUME Inv, GroupsInv, UNCHANGED <<writers, committing>>, steps # <<>>,
         NEW s \in Seq(Step), Lacks(s, "empty"), Lacks(s, "missing"),
         \/ steps' = s \o steps
         \/ steps' = s \o Tail(steps) /\ Head(steps).do \notin {"empty", "missing"}
  PROVE  GroupsInv' /\ Regrouped
<1>1. steps \in Seq(Step) /\ Tail(steps) \in Seq(Step)
  BY Holding
<1>2. OneRecord(steps') /\ \A do \in {"empty", "missing"} : StepDays(steps', do) = StepDays(steps, do)
  <2>1. CASE steps' = s \o steps
    BY <1>1, <2>1, RecordBefore DEF GroupsInv
  <2>2. CASE steps' = s \o Tail(steps) /\ Head(steps).do \notin {"empty", "missing"}
    <3>1. /\ OneRecord(Tail(steps))
          /\ \A do \in {"empty", "missing"} : StepDays(steps, do) = StepDays(Tail(steps), do)
      BY <1>1, <2>2, RecordTail DEF GroupsInv
    <3> QED BY <1>1, <2>2, <3>1, RecordBefore
  <2> QED BY <2>1, <2>2
<1>3. Gathered' = Gathered
  BY DEF Gathered, PendingOf
<1> QED BY <1>2, <1>3 DEF GroupsInv, Regrouped

LEMMA LedgerSplit ==
  ASSUME Inv, GroupsInv, SplitGroup
  PROVE  GroupsInv' /\ Regrouped
<1> DEFINE group == Head(steps)
           w(i) == [do |-> "append", k |-> group.k, days |-> <<group.days[i]>>]
           s == [i \in DOMAIN group.days |-> w(i)]
<1>1. At("append") /\ group.k \in Partitions /\ group.days \in Seq(Days)
  BY AppendHead DEF SplitGroup
<1>2. \A i \in DOMAIN group.days : w(i) \in Step /\ w(i).do = "append"
  <2> SUFFICES ASSUME NEW i \in DOMAIN group.days PROVE w(i) \in Step /\ w(i).do = "append"
    OBVIOUS
  <2>1. <<group.days[i]>> \in Seq(Days)
    BY <1>1
  <2> QED BY <1>1, <2>1, StepTypes
<1>3. steps' = s \o Tail(steps) /\ UNCHANGED <<writers, committing>> /\ steps # <<>> /\ group.do = "append"
  BY DEF SplitGroup, w, At
<1> HIDE DEF w
<1>4. s \in Seq(Step) /\ Lacks(s, "empty") /\ Lacks(s, "missing")
  BY <1>1, <1>2 DEF Lacks
<1> HIDE DEF s
<1> QED BY <1>3, <1>4, LedgerSteps

LEMMA LedgerRoll ==
  ASSUME Inv, GroupsInv, RollForSchema \/ FlushNext \/ SweepAndClose
  PROVE  GroupsInv' /\ Regrouped
<1>1. steps # <<>> /\ UNCHANGED <<writers, committing>> /\ Head(steps).do \in {"append", "flush_all", "sweep"}
  BY DEF RollForSchema, FlushNext, SweepAndClose, At
<1>2. \/ \E k \in Partitions : steps' = <<Flush(k)>> \o steps
      \/ steps' = Tail(steps)
  <2>1. DOMAIN writers \subseteq Partitions
    BY DEF Inv, TypeOK, MemoryOK
  <2>2. CASE RollForSchema
    BY <2>2, AppendHead DEF RollForSchema
  <2> QED BY <2>1, <2>2 DEF FlushNext, SweepAndClose
<1>3. CASE \E k \in Partitions : steps' = <<Flush(k)>> \o steps
  <2>1. PICK k \in Partitions : steps' = <<Flush(k)>> \o steps
    BY <1>3
  <2> DEFINE f == <<Flush(k)>>
  <2>2. f \in Seq(Step) /\ Lacks(f, "empty") /\ Lacks(f, "missing")
    BY FlushSeq DEF Lacks, Flush
  <2>3. steps' = f \o steps
    BY <2>1
  <2> HIDE DEF f
  <2> QED BY <1>1, <2>2, <2>3, LedgerSteps
<1>4. CASE steps' = Tail(steps)
  <2>1. <<>> \in Seq(Step) /\ Lacks(<<>>, "empty") /\ Lacks(<<>>, "missing")
    BY DEF Lacks
  <2>2. steps' = <<>> \o Tail(steps)
    BY <1>1, <1>4, Holding
  <2> QED BY <1>1, <2>1, <2>2, LedgerSteps
<1> QED BY <1>2, <1>3, <1>4

\* The part of k leaves the open ones: its days go with it into the commit, or are lost.
LEMMA LedgerClose ==
  ASSUME Inv, GroupsInv, ClosePart \/ ClosePartFails
  PROVE  GroupsInv' /\ Regrouped
<1> DEFINE k == Head(steps).k
<1>1. /\ steps # <<>> /\ committing = {} /\ Head(steps).do = "flush"
      /\ k \in DOMAIN writers /\ writers' = Without(writers, k)
  BY DEF ClosePart, ClosePartFails, At
<1>2. /\ k \in Partitions /\ writers[k].part[1] = k
  BY <1>1 DEF Inv, TypeOK, MemoryOK, PartsInv, WritersOK
<1>3. \/ /\ steps' = Tail(steps)
         /\ \/ writers[k].pending = <<>> /\ committing' = {}
            \/ committing' = {writers[k]}
      \/ Raise /\ committing' = {}
  BY <1>1 DEF ClosePart, ClosePartFails
<1> HIDE DEF k
<1>4. /\ DOMAIN writers' = DOMAIN writers \ {k}
      /\ \A j \in DOMAIN writers : j # k => writers'[j] = writers[j]
  BY <1>1 DEF Without, Restrict
<1>5. \A j \in Partitions : j # k => Gathered'[j] = Gathered[j]
  BY <1>1, <1>2, <1>3, <1>4 DEF Gathered, PendingOf
<1>6. Gathered[k] = DaysIn(writers[k].pending)
  BY <1>1, <1>2 DEF Gathered, PendingOf
<1>7. committing' = {writers[k]} => Gathered'[k] = DaysIn(writers[k].pending)
  BY <1>2, <1>4 DEF Gathered, PendingOf, DaysIn
<1>8. committing' = {} => Gathered'[k] = {}
  BY <1>2, <1>4 DEF Gathered, PendingOf, DaysIn
<1>9. writers[k].pending = <<>> => DaysIn(writers[k].pending) = {}
  BY DEF DaysIn
<1>10. /\ \A c, e \in committing' : c = e
       /\ \A c \in committing' : c.part[1] \notin DOMAIN writers'
  BY <1>2, <1>3, <1>4
<1>11. CASE Raise /\ committing' = {}
  BY <1>5, <1>8, <1>10, <1>11, RaiseRecords DEF GroupsInv, Regrouped
<1>12. CASE steps' = Tail(steps) /\ (committing' = {writers[k]} \/ (writers[k].pending = <<>> /\ committing' = {}))
  <2>1. /\ OneRecord(Tail(steps))
        /\ \A do \in {"empty", "missing"} : StepDays(steps, do) = StepDays(Tail(steps), do)
    BY <1>1, Holding, RecordTail DEF GroupsInv
  <2>2. \A j \in Partitions : Gathered'[j] = Gathered[j]
    BY <1>5, <1>6, <1>7, <1>8, <1>9, <1>12
  <2> QED BY <1>10, <1>12, <2>1, <2>2 DEF GroupsInv, Regrouped
<1> QED BY <1>3, <1>11, <1>12

\* The part being committed is of a partition with no open part: its group is gone after that.
LEMMA LedgerCommitted ==
  ASSUME Inv, GroupsInv, NEW c \in committing, committing' = {}, writers' = writers
  PROVE  /\ c.part[1] \in Partitions
         /\ Gathered[c.part[1]] = DaysIn(c.pending)
         /\ Gathered' = [Gathered EXCEPT ![c.part[1]] = {}]
<1> DEFINE k == c.part[1]
<1>1. k \in Partitions /\ committing = {c} /\ k \notin DOMAIN writers
  BY DEF Inv, TypeOK, MemoryOK, OpenPart, Part, GroupsInv
<1>2. DaysIn(<<>>) = {}
  BY DEF DaysIn
<1>3. Gathered[k] = DaysIn(c.pending)
  BY <1>1, <1>2 DEF Gathered, PendingOf
<1> HIDE DEF k
<1>4. \A j \in Partitions : Gathered'[j] = IF j = k THEN {} ELSE Gathered[j]
  BY <1>1, <1>2 DEF Gathered, PendingOf, k
<1>5. Gathered' = [Gathered EXCEPT ![k] = {}]
  BY <1>4 DEF Gathered
<1> QED BY <1>1, <1>3, <1>5 DEF k

LEMMA LedgerFails ==
  ASSUME Inv, GroupsInv, CommitFails \/ RecordFails
  PROVE  GroupsInv' /\ Regrouped
<1>1. Raise /\ committing' \in {committing, {}} /\ writers' = writers
  BY DEF CommitFails, RecordFails
<1>2. GroupsInv'
  BY <1>1, RaiseRecords DEF GroupsInv
<1>3. \A k \in Partitions : Gathered'[k] \in {Gathered[k], {}}
  <2>1. CASE committing' = committing
    BY <1>1, <2>1 DEF Gathered, PendingOf
  <2>2. CASE committing' = {} /\ committing # {}
    <3>1. PICK c \in committing : TRUE
      BY <2>2
    <3> QED BY <1>1, <2>2, <3>1, LedgerCommitted DEF Gathered
  <2> QED BY <1>1, <2>1, <2>2
<1> QED BY <1>1, <1>2, <1>3, RaiseRecords DEF Regrouped

LEMMA LedgerExit ==
  ASSUME Inv, GroupsInv, Exit
  PROVE  GroupsInv' /\ Regrouped
<1>1. DOMAIN writers' = {} /\ steps' = <<>> /\ committing' = {} /\ DaysIn(<<>>) = {}
  BY DEF Exit, EmptyMap, DaysIn
<1>2. OneRecord(steps') /\ \A do : StepDays(steps', do) = {}
  BY <1>1 DEF OneRecord, StepDays
<1>3. \A k \in Partitions : Gathered'[k] = {}
  BY <1>1 DEF Gathered, PendingOf
<1> QED BY <1>1, <1>2, <1>3 DEF GroupsInv, Regrouped

\* A batch is begun when nothing is left to do.
LEMMA LedgerBegin ==
  ASSUME Inv, GroupsInv, BeginClose \/ \E b \in Batch : BeginIngest(b)
  PROVE  GroupsInv' /\ Regrouped
<1>1. steps = <<>> /\ UNCHANGED <<writers, committing>>
  BY DEF BeginClose, BeginIngest, Inv, TypeOK, LockOK
<1>2. OneRecord(steps')
  <2>1. CASE BeginClose
    BY <2>1 DEF BeginClose, OneRecord, FlushAll, Sweep
  <2>2. CASE \E b \in Batch : BeginIngest(b)
    BY <2>2, RecordIngest DEF BeginIngest
  <2> QED BY <2>1, <2>2
<1>3. \A do : StepDays(steps, do) = {}
  BY <1>1 DEF StepDays
<1>4. Gathered' = Gathered
  BY <1>1 DEF Gathered, PendingOf
<1> QED BY <1>1, <1>2, <1>3, <1>4 DEF GroupsInv, Regrouped

LEMMA LedgerStill ==
  ASSUME Inv, GroupsInv, UNCHANGED <<writers, committing, steps>>
  PROVE  GroupsInv' /\ Regrouped
<1>1. Gathered' = Gathered
  BY DEF Gathered, PendingOf
<1> QED BY <1>1 DEF GroupsInv, Regrouped

\* Under Inv every completed day is stored.
LEMMA StoredCompleted == Inv => StoredDays = DOMAIN completedDays
BY DEF Inv, PartsInv, ManifestBacked, StoredDays

LEMMA LedgerCommit ==
  ASSUME Inv, Inv', GroupsInv, CommitPart
  PROVE  GroupsInv' /\ [Ledger!Next]_(Ledger!vars)
<1>0. StoredDays = DOMAIN completedDays /\ (StoredDays = DOMAIN completedDays)'
  BY StoredCompleted, PTL
<1>1. PICK c \in committing : Complete(DaysIn(c.pending), c.part)
                              /\ emptyDays' = emptyDays \ DaysIn(c.pending)
  BY DEF CommitPart
<1>2. committing' = {} /\ UNCHANGED <<writers, steps>>
  BY DEF CommitPart
<1> DEFINE k == c.part[1]
<1>3. /\ k \in Partitions /\ Gathered[k] = DaysIn(c.pending)
      /\ Gathered' = [Gathered EXCEPT ![k] = {}]
  BY <1>2, LedgerCommitted
<1> HIDE DEF k
<1>4. StoredDays' = StoredDays \union DaysIn(c.pending)
  BY <1>0, <1>1 DEF Complete
<1>5. Ledger!StorePart(k)
  BY <1>1, <1>2, <1>3, <1>4 DEF Ledger!StorePart, Ledger!Store
<1>6. GroupsInv'
  BY <1>2 DEF GroupsInv
<1> QED BY <1>3, <1>5, <1>6 DEF Ledger!Next

LEMMA LedgerRecord ==
  ASSUME Inv, Inv', GroupsInv, RecordEmpty \/ RecordMissing
  PROVE  GroupsInv' /\ [Ledger!Next]_(Ledger!vars)
<1>0. StoredDays = DOMAIN completedDays /\ (StoredDays = DOMAIN completedDays)'
  BY StoredCompleted, PTL
<1>1. /\ steps # <<>> /\ steps' = Tail(steps) /\ UNCHANGED <<writers, committing>>
      /\ Head(steps).do \in {"empty", "missing"} /\ steps \in Seq(Step)
  BY Holding DEF RecordEmpty, RecordMissing, At
<1>2. Gathered' = Gathered
  BY <1>1 DEF Gathered, PendingOf
<1>3. /\ OneRecord(steps')
      /\ \A do \in {"empty", "missing"} :
           IF Head(steps).do = do THEN StepDays(steps, do) = Head(steps).days /\ StepDays(steps', do) = {}
                                  ELSE StepDays(steps', do) = StepDays(steps, do)
  BY <1>1, RecordTail DEF GroupsInv
<1>4. GroupsInv'
  BY <1>1, <1>3 DEF GroupsInv
<1> DEFINE D == Head(steps).days
<1>5. CASE RecordEmpty
  <2>1. /\ Head(steps).do = "empty" /\ Complete(D, NoPart) /\ emptyDays' = emptyDays \ D
    BY <1>5 DEF RecordEmpty, At
  <2>2. StoredDays' = StoredDays \union D
    BY <1>0, <2>1 DEF Complete
  <2>3. Ledger!StoreEmpty
    BY <1>2, <1>3, <2>1, <2>2 DEF Ledger!StoreEmpty, Ledger!Store
  <2> QED BY <1>4, <2>3 DEF Ledger!Next
<1>6. CASE RecordMissing
  <2>1. /\ Head(steps).do = "missing" /\ emptyDays' = emptyDays \union D
        /\ completedDays' = Restrict(completedDays, DOMAIN completedDays \ D)
    BY <1>6 DEF RecordMissing, At
  <2>2. StoredDays' = StoredDays \ D
    BY <1>0, <2>1 DEF Restrict
  <2>3. Ledger!Miss
    BY <1>2, <1>3, <2>1, <2>2 DEF Ledger!Miss
  <2> QED BY <1>4, <2>3 DEF Ledger!Next
<1> QED BY <1>5, <1>6

\* Each step records one whole group, gathers days in groups, loses whole groups, or none of it.
LEMMA StepRefines ==
  ASSUME Inv, Inv', GroupsInv, [Used]_storeVars
  PROVE  GroupsInv' /\ [Ledger!Next]_(Ledger!vars)
<1>0. StoredDays = DOMAIN completedDays /\ (StoredDays = DOMAIN completedDays)'
  BY StoredCompleted, PTL
<1>1. CASE CommitPart                 BY <1>1, LedgerCommit
<1>2. CASE RecordEmpty \/ RecordMissing
                                      BY <1>2, LedgerRecord
<1>3. CASE ~(CommitPart \/ RecordEmpty \/ RecordMissing)
  <2>1. completedDays' = completedDays /\ emptyDays' = emptyDays
    BY <1>3 DEF Used, StoreStep, storeVars, diskVars, Open, BeginIngest, BeginClose, AppendGroup,
       AppendFails, SplitGroup, RollForSchema, ClosePart, ClosePartFails, CommitFails, RecordFails,
       FlushNext, SweepAndClose, Return, Exit
  <2>2. UNCHANGED <<StoredDays, emptyDays>>
    BY <1>0, <2>1
  <2>3. GroupsInv' /\ Regrouped
    <3>1. CASE AppendGroup   BY <3>1, LedgerAppend
    <3>2. CASE AppendFails   BY <3>2, LedgerAppendFails
    <3>3. CASE SplitGroup    BY <3>3, LedgerSplit
    <3>4. CASE RollForSchema \/ FlushNext \/ SweepAndClose
                             BY <3>4, LedgerRoll
    <3>5. CASE ClosePart \/ ClosePartFails
                             BY <3>5, LedgerClose
    <3>6. CASE CommitFails \/ RecordFails
                             BY <3>6, LedgerFails
    <3>7. CASE Exit          BY <3>7, LedgerExit
    <3>8. CASE BeginClose \/ \E b \in Batch : BeginIngest(b)
                             BY <3>8, LedgerBegin
    <3>9. CASE Open \/ Return \/ UNCHANGED storeVars
      <4>1. UNCHANGED <<writers, committing, steps>>
        BY <3>9 DEF Open, Return, storeVars, lockVars
      <4> QED BY <4>1, LedgerStill
    <3> QED BY <1>3, <3>1, <3>2, <3>3, <3>4, <3>5, <3>6, <3>7, <3>8, <3>9 DEF Used, StoreStep
  <2> QED BY <2>2, <2>3, RegroupRefines
<1> QED BY <1>1, <1>2, <1>3

LEMMA InitGroups == Init => GroupsInv /\ Ledger!Init
<1> SUFFICES ASSUME Init PROVE GroupsInv /\ Ledger!Init
  OBVIOUS
<1>1. /\ DOMAIN writers = {} /\ committing = {} /\ steps = <<>> /\ DaysIn(<<>>) = {}
      /\ DOMAIN completedDays = {} /\ emptyDays = {}
  BY DEF Init, EmptyMap, DaysIn
<1>2. Gathered = [k \in Partitions |-> {}]
  BY <1>1 DEF Gathered, PendingOf
<1>3. StoredDays = {} /\ \A do : StepDays(steps, do) = {}
  BY <1>1 DEF StoredDays, StepDays
<1> QED BY <1>1, <1>2, <1>3 DEF GroupsInv, OneRecord, Ledger!Init
-----------------------------------------------------------------------------
(* Theorems                                                                 *)

\* The store's variables have the types of TypeOK in every reachable state.
THEOREM TypeCorrect == Spec => []TypeOK
<1>1. Inv => TypeOK  BY DEF Inv
<1> QED BY <1>1, StoreInvariant, PTL

\* The manifest never promises a day that a reader cannot find in the part it names,
\* whatever fails, is killed or overwritten.
THEOREM Backed == Spec => []ManifestBacked
<1>1. Inv => ManifestBacked  BY DEF Inv, PartsInv
<1> QED BY <1>1, StoreInvariant, PTL

\* Once the store is open, no file is unreadable but those it is writing.
THEOREM OnlyOpenUnreadable == Spec => []UnreadableOnlyOpen
<1>1. Inv => UnreadableOnlyOpen  BY DEF Inv, PartsInv
<1> QED BY <1>1, StoreInvariant, PTL

\* What an operation that raises, a kill, a roll or a renumbering leaves never makes a reader of a
\* closed store find a day twice, miss one the manifest says is stored, or find one it does not
\* name: provided that no day is ingested again (no --overwrite, no batch after close()) and that a
\* batch has each of its days once.
THEOREM PartsAgree ==
  ASSUME ~Overwrite, "late" \notin Faults, \A b \in Batches : BatchOnce(b)
  PROVE  Spec => []PartsAgreeWithManifest
<1>1. ASSUME [Next]_storeVars PROVE [UsedOnce]_storeVars /\ [UsedOpen]_storeVars
  <2>1. ASSUME NEW b \in Batches, Allowed(DaysOf(b)), BeginIngest(b)
        PROVE  b \in Batch /\ BatchOnce(b) /\ state # "closed"
               /\ DaysOf(b) \intersect (taken \union DOMAIN completedDays) = {}
    BY <2>1, StoreAssumption DEF Allowed
  <2> QED BY <1>1, <2>1 DEF Next, UsedOnce, UsedOpen, OtherUse
<1>2. Inv /\ AgreeInv /\ ClosedDone /\ [Next]_storeVars => (AgreeInv /\ ClosedDone)'
  BY <1>1, UsedOnceAgrees, ClosedKeeps
<1> QED BY <1>2, StoreInvariant, InitAgrees, AgreeCopies, PTL DEF Spec

\* The store implements the day ledger: no failure, kill, sweep or restart records or loses a part of
\* a group, or makes a recorded day unreadable.
THEOREM Refinement == Spec => LedgerSpec
<1>1. Inv /\ Inv' /\ GroupsInv /\ [Next]_storeVars => GroupsInv' /\ [Ledger!Next]_(Ledger!vars)
  BY NextUsed, StepRefines
<1> QED BY <1>1, InitGroups, StoreInvariant, PTL DEF Spec, LedgerSpec, Ledger!Spec
=============================================================================
