-------------------------- MODULE PolymarketProofs ---------------------------
(***************************************************************************)
(* Proofs about the Polymarket execution client.                           *)
(*                                                                         *)
(* Its handlers, for every set of orders, lists and trades, every venue    *)
(* and every fault of PolymarketExec:                                      *)
(*   - Spec => []TypeOK;                                                   *)
(*   - Spec => []FillHandedOnce and Spec => LedgerSpec, the fill ledger,   *)
(*     when the dedup cache can hold all fills;                            *)
(*   - Spec => []NoWaiterStranded, when no wait times out;                 *)
(*   - Spec => []PostedOrdersResolved;                                     *)
(*   - Spec => []SettledAgreement, for one order none of whose messages    *)
(*     gives up waiting.                                                   *)
(* All rest on LoopInv, which says that the engine's consumer is in the    *)
(* loop's queue at most once, and only when an event awaits it.            *)
(*                                                                         *)
(* Its reports, for every book, cache and kind of PolymarketReports: fills *)
(* are counted once, an order the client knows is reported once and as its *)
(* own, and positions that do not go up in the list of the pages are       *)
(* fetched.  The lists are made of sets in any order (SetToSeq) and, of    *)
(* the venue's trades, by a recursion over their number.                   *)
(***************************************************************************)
EXTENDS PolymarketExec, PolymarketReports, ListProofs, FiniteSetTheorems, TLAPS

\* The engine's consumer is queued at most once in r, and only if q has an event for it.
EngineOnce(r, q) ==
  \A i, j \in DOMAIN r : r[i].run = "engine" /\ r[j].run = "engine" => i = j /\ q # <<>>

NoEngine(s) == \A i \in DOMAIN s : s[i].run # "engine"

LoopInv == TypeOK /\ EngineOnce(ready, evtq)

-----------------------------------------------------------------------------
(* Sequences                                                                *)

\* Removing one entry leaves a sequence over the same set.
LEMMA RemoveIndexType ==
  ASSUME NEW S, NEW s \in Seq(S), NEW i \in DOMAIN s
  PROVE  RemoveIndex(s, i) \in Seq(S)
<1>1. SubSeq(s, 1, i - 1) \in Seq(S)
  OBVIOUS
<1>2. SubSeq(s, i + 1, Len(s)) \in Seq(S)
  OBVIOUS
<1> QED BY <1>1, <1>2 DEF RemoveIndex

\* The ordered dictionaries stay sequences over their entries.
LEMMA DropType ==
  ASSUME NEW S, NEW s \in Seq(S), NEW I \in SUBSET (DOMAIN s)
  PROVE  Drop(s, I) \in Seq(S)
BY RemoveIndexType DEF Drop

LEMMA TouchType ==
  ASSUME NEW S, NEW s \in Seq(S), NEW x \in S, NEW I \in SUBSET (DOMAIN s)
  PROVE  Touch(s, x, I) \in Seq(S)
<1>1. Append(Drop(s, I), x) \in Seq(S) /\ Append(Drop(s, I), x) # <<>>
  BY DropType
<1> QED BY <1>1 DEF Touch, Truncate

\* Appending callbacks other than the consumer keeps EngineOnce.
LEMMA EngineOnceConcat ==
  ASSUME NEW r \in Seq(Callback), NEW q, NEW s \in Seq(Callback),
         EngineOnce(r, q), NoEngine(s)
  PROVE  EngineOnce(r \o s, q)
<1> SUFFICES ASSUME NEW i \in DOMAIN (r \o s), (r \o s)[i].run = "engine"
             PROVE  i \in DOMAIN r /\ r[i].run = "engine"
  BY DEF EngineOnce
<1> QED BY DEF NoEngine

LEMMA EngineOnceTail ==
  ASSUME NEW r \in Seq(Callback), NEW q, r # <<>>, EngineOnce(r, q)
  PROVE  EngineOnce(Tail(r), q)
BY DEF EngineOnce

LEMMA EngineOnceHead ==
  ASSUME NEW r \in Seq(Callback), NEW q, NEW c \in Callback, r # <<>>,
         EngineOnce(r, q), c.run # "engine"
  PROVE  EngineOnce(<<c>> \o Tail(r), q)
<1> DEFINE n == <<c>> \o Tail(r)
<1>1. n \in Seq(Callback) /\ Len(n) = Len(r)
  OBVIOUS
<1>2. \A i \in DOMAIN n : n[i].run = "engine" => i \in DOMAIN r /\ n[i] = r[i]
  OBVIOUS
<1> QED BY <1>1, <1>2 DEF EngineOnce

\* Generating events queues them, and the consumer with them.
LEMMA GenerateLoop ==
  ASSUME NEW queue \in Seq(Callback), NEW events \in Seq(EngineEvent),
         evtq \in Seq(EngineEvent), EngineOnce(queue, evtq), Generate(queue, events)
  PROVE  /\ ready' \in Seq(Callback) /\ evtq' \in Seq(EngineEvent)
         /\ EngineOnce(ready', evtq')
<1>1. evtq' \in Seq(EngineEvent)
  BY DEF Generate
<1>2. CASE evtq = <<>> /\ events # <<>>
  <2>1. [run |-> "engine"] \in Callback
    BY DEF Callback
  <2>2. ready' = Append(queue, [run |-> "engine"]) /\ evtq' # <<>>
    BY <1>2 DEF Generate
  <2>3. \A i \in DOMAIN queue : queue[i].run # "engine"
    BY <1>2 DEF EngineOnce
  <2> QED BY <1>1, <2>1, <2>2, <2>3 DEF EngineOnce
<1>3. CASE ~(evtq = <<>> /\ events # <<>>)
  <2>1. ready' = queue /\ (evtq # <<>> => evtq' # <<>>)
    BY <1>3 DEF Generate
  <2> QED BY <1>1, <2>1 DEF EngineOnce
<1> QED BY <1>2, <1>3

\* What the single-event calls generate is an event.
LEMMA EventType ==
  ASSUME NEW e \in EventTypes, NEW o \in Orders
  PROVE  <<Event(e, o)>> \in Seq(EngineEvent)
BY DEF Event, EngineEvent

-----------------------------------------------------------------------------
(* The handlers                                                             *)

\* Recording a fill and its trade keeps the types of the dedup caches.
LEMMA RecordTypes ==
  ASSUME DedupOK, NEW t \in Trades, NEW s \in TradeStatuses,
         RecordProcessedTrade(t, s)
  PROVE  /\ processedTrades' \in Seq(Trades \X TradeStatuses)
         /\ finalizedTrades' \in Seq(Trades)
<1>1. Entry(t) \in SUBSET (DOMAIN processedTrades)
  BY DEF Entry
<1>2. Places(finalizedTrades, t) \in SUBSET (DOMAIN finalizedTrades)
  BY DEF Places
<1>3. CASE IsFinal(s)
  <2>1. /\ finalizedTrades' = Touch(finalizedTrades, t, Places(finalizedTrades, t))
        /\ processedTrades' = Drop(processedTrades, Entry(t))
    BY <1>3 DEF RecordProcessedTrade
  <2> QED BY <1>1, <1>2, <2>1, TouchType, DropType DEF DedupOK
<1>4. CASE ~IsFinal(s)
  <2>1. /\ processedTrades' = Touch(processedTrades, <<t, s>>, Entry(t))
        /\ finalizedTrades' = finalizedTrades
    BY <1>4 DEF RecordProcessedTrade
  <2> QED BY <1>1, <2>1, TouchType DEF DedupOK
<1> QED BY <1>3, <1>4

LEMMA RecordFillType ==
  ASSUME DedupOK, NEW f \in Fills, RecordProcessedFill(f)
  PROVE  processedFills' \in Seq(Fills)
<1>1. Places(processedFills, f) \in SUBSET (DOMAIN processedFills)
  BY DEF Places
<1> QED BY <1>1, TouchType DEF DedupOK, RecordProcessedFill

\* Handling one websocket task, whose callback has left the queue, keeps the invariant
\* of the loop and the types of all it writes.
LEMMA HandleStep ==
  ASSUME LoopInv, NEW task \in Task, NEW queue \in Seq(Callback), EngineOnce(queue, evtq),
         Handle(task, queue)
  PROVE  /\ ready' \in Seq(Callback) /\ evtq' \in Seq(EngineEvent)
         /\ EngineOnce(ready', evtq')
         /\ DedupOK'
         /\ handed' \in [Fills -> Nat] /\ skippedClosed' \subseteq Fills
         /\ refreshed' \subseteq Trades
<1> USE DEF LoopInv, TypeOK
<1>1. CASE task.kind = "order"
  <2>1. task \in OrderTask
    BY <1>1 DEF Task, TradeTask
  <2>2. OrderUpdate(task, queue)
    BY <1>1 DEF Handle
  <2> DEFINE events == IF task.o \notin acked \/ OrderMsgSkipped(task) THEN <<>>
         ELSE <<Event(IF task.typ = "PLACEMENT" THEN "Accepted" ELSE "Canceled", task.o)>>
  <2>3. events \in Seq(EngineEvent)
    <3>1. (IF task.typ = "PLACEMENT" THEN "Accepted" ELSE "Canceled") \in EventTypes
      BY DEF EventTypes
    <3>2. task.o \in Orders
      BY <2>1 DEF OrderTask
    <3> QED BY <3>1, <3>2, EventType
  <2>4. Generate(queue, events)
    BY <2>2 DEF OrderUpdate
  <2>5. UNCHANGED <<dedupVars, handed, skippedClosed, refreshed>>
    BY <2>2 DEF OrderUpdate
  <2>6. /\ ready' \in Seq(Callback) /\ evtq' \in Seq(EngineEvent)
        /\ EngineOnce(ready', evtq')
    BY <2>3, <2>4, GenerateLoop DEF LoopOK
  <2> QED BY <2>5, <2>6 DEF DedupOK, HistoryOK, dedupVars
<1>2. CASE task.kind # "order"
  <2> DEFINE f == <<task.t, task.o>>
  <2>1. task \in TradeTask
    BY <1>2 DEF Task, OrderTask
  <2>2. task.t \in Trades /\ task.o \in Orders /\ task.s \in TradeStatuses /\ f \in Fills
    BY <2>1 DEF TradeTask
  <2>3. TradeFill(task, queue)
    BY <1>2 DEF Handle
  <2> DEFINE hand == /\ handed' = [handed EXCEPT ![f] = @ + 1]
                     /\ RecordProcessedFill(f)
                     /\ RecordProcessedTrade(task.t, task.s)
  <2>4. hand => DedupOK' /\ handed' \in [Fills -> Nat]
    BY <2>2, RecordTypes, RecordFillType DEF DedupOK, HistoryOK
  <2>5. CASE ready' = queue /\ UNCHANGED <<dedupVars, evtq, handed, skippedClosed, refreshed>>
    BY <2>5 DEF LoopOK, DedupOK, HistoryOK, dedupVars
  <2>6. CASE hand /\ ready' = queue /\ UNCHANGED <<evtq, skippedClosed, refreshed>>
    BY <2>4, <2>6 DEF LoopOK, HistoryOK
  <2>7. CASE /\ skippedClosed' = skippedClosed \union {f}
             /\ ready' = queue
             /\ UNCHANGED <<dedupVars, evtq, handed, refreshed>>
    BY <2>2, <2>7 DEF LoopOK, DedupOK, HistoryOK, dedupVars
  <2>8. CASE /\ hand
             /\ Generate(queue, <<[e |-> "Filled", o |-> task.o, t |-> task.t]>>)
             /\ refreshed' = IF IsFinal(task.s) THEN refreshed \union {task.t} ELSE refreshed
             /\ UNCHANGED skippedClosed
    <3>1. <<[e |-> "Filled", o |-> task.o, t |-> task.t]>> \in Seq(EngineEvent)
      BY <2>2 DEF EngineEvent
    <3>2. /\ ready' \in Seq(Callback) /\ evtq' \in Seq(EngineEvent)
          /\ EngineOnce(ready', evtq')
      BY <2>8, <3>1, GenerateLoop DEF LoopOK
    <3> QED BY <2>2, <2>4, <2>8, <3>2 DEF HistoryOK
  <2> QED BY <2>3, <2>5, <2>6, <2>7, <2>8 DEF TradeFill
<1> QED BY <1>1, <1>2

-----------------------------------------------------------------------------
(* LoopInv is inductive                                                     *)

LEMMA LoopInit == Init => LoopInv
BY ConstantsAssumption
   DEF Init, LoopInv, TypeOK, CommandsOK, AcksOK, DedupOK, LoopOK, EngineOK, VenueOK, HistoryOK,
       EngineOnce, OrderStatuses, TradeStatuses

\* A callback queued behind the others.
LEMMA Enqueue ==
  ASSUME LoopInv, NEW c \in Callback, c.run # "engine", ready' = Append(ready, c),
         evtq' = evtq
  PROVE  LoopOK' /\ EngineOnce(ready, evtq)'
BY DEF LoopInv, TypeOK, LoopOK, EngineOnce

\* The callback that has run leaves the queue to its handler.
LEMMA Dequeue ==
  ASSUME LoopInv, ready # <<>>
  PROVE  /\ Tail(ready) \in Seq(Callback) /\ EngineOnce(Tail(ready), evtq)
         /\ Head(ready) \in Callback
BY EngineOnceTail DEF LoopInv, TypeOK, LoopOK

\* A waiter holds a task.
LEMMA WaiterType ==
  ASSUME LoopInv, NEW i \in DOMAIN waiting
  PROVE  waiting[i].task \in Task
<1>1. waiting \in Seq(Waiter)
  BY DEF LoopInv, TypeOK, AcksOK
<1>2. waiting[i] \in Waiter
  BY <1>1
<1> QED BY <1>2, Zenon DEF Waiter

\* Commands.
LEMMA LoopSubmitOrder ==
  ASSUME LoopInv, NEW o \in Orders, SubmitOrder(o)
  PROVE  LoopInv'
<1> USE DEF LoopInv, TypeOK
<1>1. \E e \in {"Denied", "Submitted"} :
         Generate(ready, <<Event(e, o)>>) \/ UNCHANGED <<ready, evtq>>
  BY DEF SubmitOrder
<1>2. LoopOK' /\ EngineOnce(ready, evtq)'
  <2>1. ASSUME NEW e \in {"Denied", "Submitted"}, Generate(ready, <<Event(e, o)>>)
        PROVE  LoopOK' /\ EngineOnce(ready, evtq)'
    <3>1. <<Event(e, o)>> \in Seq(EngineEvent)
      BY EventType DEF EventTypes
    <3> QED BY <2>1, <3>1, GenerateLoop DEF LoopOK
  <2>2. CASE UNCHANGED <<ready, evtq>>
    BY <2>2 DEF LoopOK, EngineOnce
  <2> QED BY <1>1, <2>1, <2>2
<1>3. CommandsOK'
  <2>1. <<o>> \in Seq(Orders)
    OBVIOUS
  <2> QED BY <2>1 DEF SubmitOrder, CommandsOK
<1>4. UNCHANGED <<ackVars, dedupVars, engineVars, venueVars, historyVars>>
  BY DEF SubmitOrder
<1> QED BY <1>2, <1>3, <1>4 DEF AcksOK, DedupOK, EngineOK, VenueOK, HistoryOK,
           ackVars, dedupVars, engineVars, venueVars, historyVars

LEMMA LoopSubmitOrderList ==
  ASSUME LoopInv, NEW l \in OrderLists, SubmitOrderList(l)
  PROVE  LoopInv'
<1> USE DEF LoopInv, TypeOK
<1>0. l \in Seq(Orders)
  BY ConstantsAssumption
<1>1. PICK m \in 0..Len(l), n \in 0..Len(l) :
        /\ m + n <= Len(l)
        /\ Generate(ready, [i \in 1..Len(l) |->
                              Event(IF i <= m THEN "Denied"
                                    ELSE IF i <= m + n THEN "Rejected" ELSE "Submitted", l[i])])
        /\ posts' = IF m + n = Len(l) THEN posts
                    ELSE posts \union {SubSeq(l, m + n + 1, Len(l))}
  BY DEF SubmitOrderList
<1>2. LoopOK' /\ EngineOnce(ready, evtq)'
  <2> DEFINE e(i) == IF i <= m THEN "Denied" ELSE IF i <= m + n THEN "Rejected" ELSE "Submitted"
             events == [i \in 1..Len(l) |-> Event(e(i), l[i])]
  <2>1. \A i \in 1..Len(l) : Event(e(i), l[i]) \in EngineEvent
    BY <1>0 DEF Event, EngineEvent, EventTypes
  <2>2. events \in Seq(EngineEvent)
    BY <1>0, <2>1
  <2>3. Generate(ready, events)
    BY <1>1
  <2> QED BY <2>2, <2>3, GenerateLoop DEF LoopOK
<1>3. CommandsOK'
  <2>1. SubSeq(l, m + n + 1, Len(l)) \in Seq(Orders)
    BY <1>0
  <2>2. {l[i] : i \in DOMAIN l} \subseteq Orders
    BY <1>0
  <2> QED BY <1>1, <2>1, <2>2 DEF SubmitOrderList, CommandsOK
<1>4. UNCHANGED <<ackVars, dedupVars, engineVars, venueVars, historyVars>>
  BY DEF SubmitOrderList
<1> QED BY <1>2, <1>3, <1>4 DEF AcksOK, DedupOK, EngineOK, VenueOK, HistoryOK,
           ackVars, dedupVars, engineVars, venueVars, historyVars

\* What an answer tells of the orders of its post.
LEMMA AnswerTold ==
  ASSUME LoopInv, NEW p \in posts, Respond(p)
  PROVE  \E n \in 0..Len(p) : \E results \in [1..n -> {"ok", "fail", "raise"}] :
           /\ \A i \in 1..n : results[i] = "raise" => "raise" \in Faults
           /\ ready' = Append(ready, AnswerTo(p, n, results))
           /\ told' \in [Orders -> Results \union {"none"}]
           /\ \A o \in Orders : ~InSeq(p, o) => told'[o] = told[o]
           /\ \A o \in Orders : InSeq(p, o) =>
                \E i \in DOMAIN p : p[i] = o /\ told'[o] = Tells(results, i)
<1>1. PICK n \in (IF "no_response" \in Faults THEN 0 ELSE Len(p))..Len(p) :
        \E results \in [1..n -> {"ok", "fail", "raise"}] :
          /\ \A i \in 1..n : results[i] = "raise" => "raise" \in Faults
          /\ told' = [o \in Orders |-> IF InSeq(p, o)
                                         THEN Tells(results, CHOOSE i \in DOMAIN p : p[i] = o)
                                         ELSE told[o]]
          /\ ready' = Append(ready, AnswerTo(p, n, results))
  BY Zenon DEF Respond
<1>2. PICK results \in [1..n -> {"ok", "fail", "raise"}] :
          /\ \A i \in 1..n : results[i] = "raise" => "raise" \in Faults
          /\ told' = [o \in Orders |-> IF InSeq(p, o)
                                         THEN Tells(results, CHOOSE i \in DOMAIN p : p[i] = o)
                                         ELSE told[o]]
          /\ ready' = Append(ready, AnswerTo(p, n, results))
  BY <1>1
<1>3. n \in 0..Len(p)
  <2>1. p \in Seq(Orders)
    BY DEF LoopInv, TypeOK, CommandsOK
  <2> QED BY <2>1
<1>4. \A i : Tells(results, i) \in Results
  BY DEF Tells, Results
<1>5. told \in [Orders -> Results \union {"none"}]
  BY DEF LoopInv, TypeOK, CommandsOK
<1>6. ASSUME NEW o \in Orders, InSeq(p, o)
      PROVE  \E i \in DOMAIN p : p[i] = o /\ told'[o] = Tells(results, i)
  <2>1. \E i \in DOMAIN p : p[i] = o
    BY <1>6 DEF InSeq
  <2> QED BY <1>2, <1>6, <2>1
<1> QED BY <1>2, <1>3, <1>4, <1>5, <1>6

LEMMA LoopRespond ==
  ASSUME LoopInv, NEW p \in posts, Respond(p)
  PROVE  LoopInv'
<1> USE DEF LoopInv, TypeOK
<1>0. p \in Seq(Orders)
  BY DEF CommandsOK
<1>1. PICK n \in 0..Len(p) : \E results \in [1..n -> {"ok", "fail", "raise"}] :
        ready' = Append(ready, AnswerTo(p, n, results))
  <2>1. (IF "no_response" \in Faults THEN 0 ELSE Len(p))..Len(p) \subseteq 0..Len(p)
    BY <1>0
  <2> QED BY <2>1, Zenon DEF Respond
<1>1a. PICK results \in [1..n -> {"ok", "fail", "raise"}] :
         ready' = Append(ready, AnswerTo(p, n, results))
  BY <1>1
<1> DEFINE u == Uncovered(p, n)
           missing == [i \in DOMAIN u |-> "missing"]
           a == AnswerTo(p, n, results)
<1>2. u \in Seq(Orders) /\ Len(u) = Len(p) - n
  BY <1>0 DEF Uncovered
<1>3. missing \in Seq(Results) /\ Len(missing) = Len(u)
  BY <1>2 DEF Results
<1>4. results \in Seq(Results) /\ Len(results) = n
  BY DEF Results
<1>5. SubSeq(p, 1, n) \in Seq(Orders) /\ Len(SubSeq(p, 1, n)) = n
  BY <1>0
<1>6. a \in Callback /\ a.run # "engine"
  BY <1>0, <1>2, <1>3, <1>4, <1>5 DEF AnswerTo, Callback, Answer
<1>7. LoopOK' /\ EngineOnce(ready, evtq)'
  BY <1>1a, <1>6, Enqueue DEF Respond
<1>8. told' \in [Orders -> Results \union {"none"}]
  BY AnswerTold DEF CommandsOK
<1> QED BY <1>7, <1>8 DEF Respond, CommandsOK, AcksOK, DedupOK, EngineOK, VenueOK, HistoryOK,
           ackVars, dedupVars, engineVars, venueVars, historyVars

LEMMA LoopRunAnswer ==
  ASSUME LoopInv, RunAnswer
  PROVE  LoopInv'
<1> USE DEF LoopInv, TypeOK
<1> DEFINE a      == Head(ready)
           o      == Head(a.rest)
           result == Head(a.results)
<1>0. /\ ready # <<>> /\ Tail(ready) \in Seq(Callback) /\ EngineOnce(Tail(ready), evtq)
      /\ a \in Answer
  <2>1. ready # <<>> /\ a.run = "answer"
    BY DEF RunAnswer, Running
  <2>2. a \in Callback
    BY <2>1, Dequeue
  <2> QED BY <2>1, <2>2, Dequeue DEF Callback
<1>1. ASSUME a.rest # <<>>
      PROVE  o \in Orders /\ NextResult(a) \in Answer
  <2>1. a.rest \in Seq(Orders) /\ a.results \in Seq(Results) /\ Len(a.rest) = Len(a.results)
    BY <1>0 DEF Answer
  <2>2. o \in Orders /\ Tail(a.rest) \in Seq(Orders) /\ Tail(a.results) \in Seq(Results)
        /\ Len(Tail(a.rest)) = Len(Tail(a.results))
    BY <1>1, <2>1
  <2> QED BY <1>0, <2>2 DEF Answer, NextResult
<1>2. \A c \in Answer : c \in Callback /\ c.run # "engine"
  BY DEF Callback, Answer
<1>3. ASSUME NEW c \in Answer
      PROVE  <<c>> \o Tail(ready) \in Seq(Callback) /\ EngineOnce(<<c>> \o Tail(ready), evtq)
  <2>1. <<c>> \o Tail(ready) \in Seq(Callback)
    BY <1>0, <1>2
  <2> QED BY <1>0, <1>2, <2>1, EngineOnceHead DEF LoopOK
<1>4. /\ LoopOK' /\ EngineOnce(ready, evtq)'
      /\ acked' \subseteq Orders /\ waiting' \in Seq(Waiter)
  <2>1. CASE ready' = Tail(ready) /\ UNCHANGED <<ackVars, evtq>>
    BY <1>0, <2>1 DEF LoopOK, AcksOK, ackVars
  <2>2. CASE /\ a.rest # <<>>
             /\ Generate(<<NextResult(a)>> \o Tail(ready), <<Event("Rejected", o)>>)
             /\ UNCHANGED ackVars
    <3>1. <<Event("Rejected", o)>> \in Seq(EngineEvent)
      BY <1>1, <2>2, EventType DEF EventTypes
    <3>2. LoopOK' /\ EngineOnce(ready, evtq)'
      BY <1>1, <1>3, <2>2, <3>1, GenerateLoop DEF LoopOK
    <3> QED BY <2>2, <3>2 DEF AcksOK, ackVars
  <2>3. CASE a.rest # <<>> /\ acked' = acked \union {o} /\ UNCHANGED <<waiting, ready, evtq>>
    BY <1>1, <2>3 DEF AcksOK, LoopOK
  <2>4. CASE Wake(o) /\ UNCHANGED <<acked, evtq>>
    <3>1. PICK i \in DOMAIN waiting :
            /\ waiting' = RemoveIndex(waiting, i)
            /\ ready' = Append(ready, [run |-> "resume", task |-> waiting[i].task])
      BY <2>4 DEF Wake, Attached
    <3>2. waiting[i].task \in Task
      BY WaiterType
    <3>3. [run |-> "resume", task |-> waiting[i].task] \in Callback
      BY <3>2 DEF Callback
    <3>4. LoopOK' /\ EngineOnce(ready, evtq)'
      BY <2>4, <3>1, <3>3, Enqueue
    <3>5. waiting' \in Seq(Waiter)
      BY <3>1, RemoveIndexType DEF AcksOK
    <3> QED BY <2>4, <3>4, <3>5 DEF AcksOK
  <2>5. CASE /\ a.rest # <<>> /\ ready' = <<NextResult(a)>> \o Tail(ready)
             /\ UNCHANGED <<ackVars, evtq>>
    BY <1>1, <1>3, <2>5 DEF AcksOK, LoopOK, ackVars
  <2>6. CASE ready' = <<RejectAll(a)>> \o Tail(ready) /\ UNCHANGED <<ackVars, evtq>>
    <3>1. a.all \in Seq(Orders)
      BY <1>0 DEF Answer
    <3>2. /\ [i \in DOMAIN a.all |-> "missing"] \in Seq(Results)
          /\ Len([i \in DOMAIN a.all |-> "missing"]) = Len(a.all)
      BY <3>1 DEF Results
    <3>3. RejectAll(a) \in Answer
      BY <1>0, <3>1, <3>2 DEF Answer, RejectAll
    <3> QED BY <1>3, <2>6, <3>3 DEF AcksOK, LoopOK, ackVars
  <2> QED BY <2>1, <2>2, <2>3, <2>4, <2>5, <2>6 DEF RunAnswer
<1> QED BY <1>4 DEF RunAnswer, CommandsOK, AcksOK, DedupOK, EngineOK, VenueOK, HistoryOK,
           commandVars, dedupVars, engineVars, venueVars, historyVars

LEMMA LoopCancelOrder ==
  ASSUME LoopInv, NEW o \in Orders, CancelOrder(o)
  PROVE  LoopInv'
BY DEF LoopInv, TypeOK, CancelOrder, CommandsOK, AcksOK, DedupOK, LoopOK, EngineOK, VenueOK,
       HistoryOK, EngineOnce, ackVars, dedupVars, engineVars, venueVars, historyVars

LEMMA VenueCancelsType ==
  ASSUME LoopInv, NEW o \in Orders, VenueCancels(o)
  PROVE  VenueOK'
<1>1. [kind |-> "order", o |-> o, typ |-> "CANCELLATION"] \in Message
  BY DEF Message, OrderTask, OrderMsgTypes
<1> QED BY <1>1 DEF LoopInv, TypeOK, VenueOK, VenueCancels

LEMMA LoopCancelAnswered ==
  ASSUME LoopInv, NEW o \in Orders, CancelAnswered(o)
  PROVE  LoopInv'
<1> USE DEF LoopInv, TypeOK
<1>1. VenueOK'
  <2>1. VenueCancels(o) \/ UNCHANGED venueVars
    BY DEF CancelAnswered
  <2> QED BY <2>1, VenueCancelsType DEF VenueOK, venueVars
<1>2. LoopOK' /\ EngineOnce(ready, evtq)'
  <2>1. CASE UNCHANGED <<ready, evtq>>
    BY <2>1 DEF LoopOK, EngineOnce
  <2>2. CASE Generate(ready, <<Event("CancelRejected", o)>>)
    <3>1. <<Event("CancelRejected", o)>> \in Seq(EngineEvent)
      BY EventType DEF EventTypes
    <3> QED BY <2>2, <3>1, GenerateLoop DEF LoopOK
  <2> QED BY <2>1, <2>2 DEF CancelAnswered
<1>3. suppressed' \subseteq Orders
  BY DEF CancelAnswered, HistoryOK
<1> QED BY <1>1, <1>2, <1>3 DEF CancelAnswered, CommandsOK, AcksOK, DedupOK, EngineOK, HistoryOK,
           ackVars, dedupVars, engineVars

LEMMA LoopFireAndForgetCancel ==
  ASSUME LoopInv, NEW o \in Orders, FireAndForgetCancel(o)
  PROVE  LoopInv'
<1>1. VenueOK'
  BY VenueCancelsType DEF FireAndForgetCancel
<1> QED BY <1>1 DEF LoopInv, TypeOK, FireAndForgetCancel, CommandsOK, AcksOK, DedupOK, LoopOK,
           EngineOK, HistoryOK, EngineOnce, commandVars, ackVars, dedupVars, engineVars, historyVars

\* Websocket messages.
LEMMA LoopDeliver ==
  ASSUME LoopInv, Deliver
  PROVE  LoopInv'
<1> USE DEF LoopInv, TypeOK
<1>1. Head(wire) \in Message /\ Tail(wire) \in Seq(Message)
  BY DEF Deliver, VenueOK
<1>2. [run |-> "ws", msg |-> Head(wire)] \in Callback
  BY <1>1 DEF Callback
<1>3. LoopOK' /\ EngineOnce(ready, evtq)'
  BY <1>2, Enqueue DEF Deliver
<1> QED BY <1>1, <1>3 DEF Deliver, CommandsOK, AcksOK, DedupOK, EngineOK, VenueOK, HistoryOK,
           commandVars, ackVars, dedupVars, engineVars, historyVars

\* The callback at the head of the queue, by what it runs.
LEMMA HeadMessage ==
  ASSUME LoopInv, Running("ws")
  PROVE  Head(ready).msg \in Message
BY Dequeue DEF Running, Callback, Answer

LEMMA HeadTask ==
  ASSUME LoopInv, Running("start") \/ Running("resume")
  PROVE  Head(ready).task \in Task
BY Dequeue DEF Running, Callback, Answer

LEMMA LoopRunMessage ==
  ASSUME LoopInv, RunMessage
  PROVE  LoopInv'
<1> USE DEF LoopInv, TypeOK
<1> DEFINE m == Head(ready).msg
           q == Tail(ready)
<1>0. Running("ws")
  BY DEF RunMessage
<1>1. m \in Message /\ q \in Seq(Callback) /\ EngineOnce(q, evtq)
  BY <1>0, HeadMessage, Dequeue DEF Running
<1>2. evtq' = evtq
  BY DEF RunMessage
<1>3. /\ ready' \in Seq(Callback) /\ EngineOnce(ready', evtq)
      /\ DedupOK' /\ refreshed' \subseteq Trades
  <2>1. CASE m.kind = "order" /\ ready' = Append(q, [run |-> "start", task |-> m])
             /\ UNCHANGED <<dedupVars, refreshed>>
    <3>1. m \in OrderTask
      BY <1>1, <2>1 DEF Message
    <3> DEFINE c == [run |-> "start", task |-> m]
    <3>2. c \in Callback /\ c.run # "engine"
      BY <3>1 DEF Callback, Task
    <3> HIDE DEF c, q
    <3> DEFINE added == <<c>>
    <3>3. added \in Seq(Callback) /\ NoEngine(added)
      BY <3>2 DEF NoEngine
    <3>4. ready' = q \o added
      BY <1>1, <2>1, <3>2 DEF c
    <3> HIDE DEF added
    <3>5. ready' \in Seq(Callback) /\ EngineOnce(ready', evtq)
      BY <1>1, <3>3, <3>4, EngineOnceConcat
    <3> QED BY <2>1, <3>5 DEF DedupOK, HistoryOK, dedupVars
  <2>2. CASE m.kind = "trade" /\ TradeMessage(m, q)
    <3>0. m.t \in Trades /\ m.s \in TradeStatuses
      BY <1>1, <2>2 DEF Message, OrderTask
    <3>1. CASE ready' = q /\ UNCHANGED <<dedupVars, refreshed>>
      BY <1>1, <3>1 DEF DedupOK, HistoryOK, dedupVars
    <3>2. CASE /\ RecordProcessedTrade(m.t, m.s)
               /\ refreshed' = refreshed \union {m.t}
               /\ ready' = q /\ UNCHANGED processedFills
      BY <1>1, <3>0, <3>2, RecordTypes DEF DedupOK, HistoryOK
    <3> DEFINE l == FilledOrders[m.t]
               task(i) == [kind |-> "trade", o |-> l[i], t |-> m.t, s |-> m.s]
               c(i) == [run |-> "start", task |-> task(i)]
               started == [i \in DOMAIN l |-> c(i)]
    <3>3. CASE ready' = q \o started /\ UNCHANGED <<dedupVars, refreshed>>
      <4>1. l \in Seq(Orders)
        BY <3>0, ConstantsAssumption
      <4>2. \A i \in DOMAIN l : task(i) \in TradeTask
        BY <3>0, <4>1 DEF TradeTask, Fills, OrdersOf
      <4>3. \A i \in DOMAIN l : c(i) \in Callback /\ c(i).run # "engine"
        BY <4>2 DEF Callback, Task
      <4> HIDE DEF c, l, q
      <4>4. started \in Seq(Callback) /\ NoEngine(started)
        BY <4>1, <4>3 DEF NoEngine
      <4> HIDE DEF started
      <4>5. ready' \in Seq(Callback) /\ EngineOnce(ready', evtq)
        BY <1>1, <3>3, <4>4, EngineOnceConcat
      <4> QED BY <3>3, <4>5 DEF DedupOK, HistoryOK, dedupVars
    <3> QED BY <2>2, <3>1, <3>2, <3>3 DEF TradeMessage
  <2> QED BY <2>1, <2>2 DEF RunMessage
<1> QED BY <1>2, <1>3 DEF RunMessage, LoopOK, CommandsOK, AcksOK, EngineOK, VenueOK, HistoryOK,
           commandVars, ackVars, engineVars, venueVars

LEMMA LoopRunStart ==
  ASSUME LoopInv, RunStart
  PROVE  LoopInv'
<1> USE DEF LoopInv, TypeOK
<1> DEFINE task == Head(ready).task
           q    == Tail(ready)
<1>0. Running("start")
  BY DEF RunStart
<1>1. task \in Task /\ q \in Seq(Callback) /\ EngineOnce(q, evtq)
  BY <1>0, HeadTask, Dequeue DEF Running
<1>2. CASE Handle(task, q) /\ UNCHANGED waiting
  <2>1. /\ LoopOK' /\ EngineOnce(ready, evtq)' /\ DedupOK'
        /\ handed' \in [Fills -> Nat] /\ skippedClosed' \subseteq Fills
        /\ refreshed' \subseteq Trades
    BY <1>1, <1>2, HandleStep DEF LoopOK
  <2> QED BY <1>2, <2>1 DEF RunStart, CommandsOK, AcksOK, EngineOK, VenueOK, HistoryOK,
             commandVars, engineVars, venueVars
<1>3. CASE /\ waiting' = Append(waiting, [task |-> task, attached |-> TRUE])
           /\ ready' = q /\ UNCHANGED <<evtq, dedupVars, handed, skippedClosed, refreshed>>
  <2>1. [task |-> task, attached |-> TRUE] \in Waiter
    BY <1>1, Zenon DEF Waiter
  <2>2. waiting' \in Seq(Waiter)
    BY <1>3, <2>1 DEF AcksOK
  <2> QED BY <1>1, <1>3, <2>2 DEF RunStart, LoopOK, CommandsOK, AcksOK, DedupOK, EngineOK, VenueOK,
             HistoryOK, commandVars, dedupVars, engineVars, venueVars
<1> QED BY <1>2, <1>3 DEF RunStart

LEMMA LoopRunResume ==
  ASSUME LoopInv, RunResume
  PROVE  LoopInv'
<1> USE DEF LoopInv, TypeOK
<1> DEFINE task == Head(ready).task
           q    == Tail(ready)
<1>0. Running("resume")
  BY DEF RunResume
<1>1. task \in Task /\ q \in Seq(Callback) /\ EngineOnce(q, evtq)
  BY <1>0, HeadTask, Dequeue DEF Running
<1>2. /\ LoopOK' /\ EngineOnce(ready, evtq)' /\ DedupOK'
      /\ handed' \in [Fills -> Nat] /\ skippedClosed' \subseteq Fills
      /\ refreshed' \subseteq Trades
  <2>1. Handle(task, q)
    BY DEF RunResume
  <2> QED BY <1>1, <2>1, HandleStep DEF LoopOK
<1>3. waiting' \in Seq(Waiter)
  <2> DEFINE w(i) == IF i \in Attached(task.kind, task.o)
                       THEN [waiting[i] EXCEPT !.attached = FALSE] ELSE waiting[i]
  <2>0. waiting \in Seq(Waiter)
    BY DEF AcksOK
  <2>1. \A x \in Waiter : [x EXCEPT !.attached = FALSE] \in Waiter
    BY Zenon DEF Waiter
  <2>2. \A i \in DOMAIN waiting : w(i) \in Waiter
    BY <2>0, <2>1
  <2>3. waiting' = [i \in DOMAIN waiting |-> w(i)]
    BY DEF RunResume
  <2> HIDE DEF w
  <2> QED BY <2>0, <2>2, <2>3
<1> QED BY <1>2, <1>3 DEF RunResume, CommandsOK, AcksOK, EngineOK, VenueOK, HistoryOK,
           commandVars, engineVars, venueVars

LEMMA LoopAckTimeout ==
  ASSUME LoopInv, AckTimeout
  PROVE  LoopInv'
<1> USE DEF LoopInv, TypeOK
<1>1. Tail(waiting) \in Seq(Waiter) /\ Head(waiting) = waiting[1] /\ 1 \in DOMAIN waiting
  BY DEF AckTimeout, AcksOK
<1>2. [run |-> "resume", task |-> Head(waiting).task] \in Callback
  BY <1>1, WaiterType DEF Callback
<1>3. LoopOK' /\ EngineOnce(ready, evtq)'
  BY <1>2, Enqueue DEF AckTimeout
<1> QED BY <1>1, <1>3 DEF AckTimeout, CommandsOK, AcksOK, DedupOK, EngineOK, VenueOK, HistoryOK,
           commandVars, dedupVars, engineVars, venueVars, historyVars

\* The engine: its consumer only runs with an event queued, and requeues for the next.
LEMMA LoopRunEngine ==
  ASSUME LoopInv, RunEngine
  PROVE  LoopInv'
<1> USE DEF LoopInv, TypeOK
<1> DEFINE ev == Head(evtq)
<1>0. /\ ready \in Seq(Callback) /\ ready # <<>> /\ Head(ready).run = "engine"
      /\ Tail(ready) \in Seq(Callback)
  BY DEF RunEngine, Running, LoopOK
<1>1. evtq # <<>> /\ ev \in EngineEvent /\ Tail(evtq) \in Seq(EngineEvent)
  <2>1. evtq # <<>>
    BY <1>0 DEF EngineOnce
  <2> QED BY <2>1 DEF LoopOK
<1>2. LoopOK' /\ EngineOnce(ready, evtq)'
  <2>1. CASE Tail(evtq) = <<>>
    <3>1. NoEngine(Tail(ready))
      BY <1>0 DEF EngineOnce, NoEngine
    <3> QED BY <1>0, <1>1, <2>1, <3>1 DEF RunEngine, LoopOK, EngineOnce, NoEngine
  <2>2. CASE Tail(evtq) # <<>>
    BY <1>0, <1>1, <2>2 DEF RunEngine, LoopOK, EngineOnce
  <2> QED BY <2>1, <2>2
<1>3. EngineOK'
  <2>1. ev.o \in Orders /\ (ev.e = "Filled" => ev.t \in Trades)
    BY <1>1 DEF EngineEvent, EventTypes
  <2>2. CASE /\ ev.e = "Filled"
             /\ tradeIds' = [tradeIds EXCEPT ![ev.o] = @ \union {ev.t}]
             /\ status' = [status EXCEPT ![ev.o] = FillStatus(ev.o, tradeIds[ev.o] \union {ev.t})]
    <3>1. FillStatus(ev.o, tradeIds[ev.o] \union {ev.t}) \in OrderStatuses
      BY DEF FillStatus, OrderStatuses
    <3> QED BY <2>1, <2>2, <3>1 DEF EngineOK
  <2>3. CASE /\ status' = [status EXCEPT ![ev.o] = Target(ev.e)]
             /\ UNCHANGED tradeIds
    <3>1. Target(ev.e) \in OrderStatuses
      BY DEF Target, OrderStatuses
    <3> QED BY <2>1, <2>3, <3>1 DEF EngineOK
  <2>4. CASE UNCHANGED engineVars
    BY <2>4 DEF EngineOK, engineVars
  <2> QED BY <2>2, <2>3, <2>4 DEF RunEngine
<1> QED BY <1>2, <1>3 DEF RunEngine, CommandsOK, AcksOK, DedupOK, VenueOK, HistoryOK,
           commandVars, ackVars, dedupVars, venueVars, historyVars

\* The venue writes its own variables only.
LEMMA LoopVenue ==
  ASSUME LoopInv, VenueOK',
         UNCHANGED <<commandVars, ackVars, dedupVars, ready, evtq, engineVars, historyVars>>
  PROVE  LoopInv'
BY DEF LoopInv, TypeOK, CommandsOK, AcksOK, DedupOK, LoopOK, EngineOK, HistoryOK, EngineOnce,
       commandVars, ackVars, dedupVars, engineVars, historyVars

LEMMA AnnounceType ==
  ASSUME LoopInv, NEW t \in Trades, NEW s \in TradeStatuses, Announce(t, s)
  PROVE  /\ tradeStatus' \in [Trades -> TradeStatuses \union {"none"}]
         /\ wire' \in Seq(Message)
<1>1. [kind |-> "trade", t |-> t, s |-> s] \in Message
  BY DEF Message
<1> QED BY <1>1 DEF LoopInv, TypeOK, VenueOK, Announce

LEMMA LoopVenueActions ==
  ASSUME LoopInv, \/ \E o \in Orders : VenueAccepts(o)
                  \/ \E t \in Trades : VenueMatches(t) \/ VenueSettles(t) \/ VenueResends(t)
  PROVE  LoopInv'
<1>0. VenueOK
  BY DEF LoopInv, TypeOK
<1>1. ASSUME NEW o \in Orders, VenueAccepts(o)
      PROVE  LoopInv'
  <2>1. [kind |-> "order", o |-> o, typ |-> "PLACEMENT"] \in Message
    BY DEF Message, OrderTask, OrderMsgTypes
  <2>2. VenueOK'
    BY <1>0, <1>1, <2>1 DEF VenueAccepts, VenueOK
  <2> QED BY <1>1, <2>2, LoopVenue DEF VenueAccepts
<1>2. ASSUME NEW t \in Trades, VenueMatches(t)
      PROVE  LoopInv'
  <2>1. venue' \in [Orders -> {"absent", "live", "gone"}] /\ resends' \in Nat
    BY <1>0, <1>2 DEF VenueMatches, VenueOK
  <2>2. VenueOK'
    BY <1>2, <2>1, AnnounceType DEF VenueMatches, VenueOK, TradeStatuses
  <2> QED BY <1>2, <2>2, LoopVenue DEF VenueMatches
<1>3. ASSUME NEW t \in Trades, VenueSettles(t)
      PROVE  LoopInv'
  <2>1. PICK s \in Successors(tradeStatus[t]) : Announce(t, s)
    BY <1>3 DEF VenueSettles
  <2>2. s \in TradeStatuses
    BY DEF Successors, TradeStatuses, FinalizedTradeStatuses
  <2>3. VenueOK'
    BY <1>0, <1>3, <2>1, <2>2, AnnounceType DEF VenueSettles, VenueOK
  <2> QED BY <1>3, <2>3, LoopVenue DEF VenueSettles
<1>4. ASSUME NEW t \in Trades, VenueResends(t)
      PROVE  LoopInv'
  <2>1. tradeStatus[t] \in TradeStatuses
    BY <1>0, <1>4 DEF VenueResends, VenueOK
  <2>2. resends' \in Nat
    BY <1>0, <1>4 DEF VenueResends, VenueOK
  <2>3. VenueOK'
    BY <1>0, <1>4, <2>1, <2>2, AnnounceType DEF VenueResends, VenueOK
  <2> QED BY <1>4, <2>3, LoopVenue DEF VenueResends
<1> QED BY <1>1, <1>2, <1>3, <1>4

LEMMA LoopStep == LoopInv /\ [Next]_vars => LoopInv'
<1> SUFFICES ASSUME LoopInv, [Next]_vars PROVE LoopInv'
  OBVIOUS
<1>1. CASE UNCHANGED vars
  BY <1>1 DEF LoopInv, TypeOK, CommandsOK, AcksOK, DedupOK, LoopOK, EngineOK, VenueOK, HistoryOK,
     EngineOnce, vars, commandVars, ackVars, dedupVars, engineVars, venueVars, historyVars
<1>2. CASE Next
  <2>1. ASSUME NEW o \in Orders, \/ SubmitOrder(o) \/ CancelOrder(o) \/ CancelAnswered(o)
                                 \/ FireAndForgetCancel(o)
        PROVE  LoopInv'
    BY <2>1, LoopSubmitOrder, LoopCancelOrder, LoopCancelAnswered, LoopFireAndForgetCancel
  <2>2. CASE \E l \in OrderLists : SubmitOrderList(l)
    BY <2>2, LoopSubmitOrderList
  <2>3. CASE \E p \in posts : Respond(p)
    BY <2>3, LoopRespond
  <2>4. CASE \/ \E o \in Orders : VenueAccepts(o)
             \/ \E t \in Trades : VenueMatches(t) \/ VenueSettles(t) \/ VenueResends(t)
    BY <2>4, LoopVenueActions
  <2>5. CASE Deliver \/ AckTimeout
    BY <2>5, LoopDeliver, LoopAckTimeout
  <2>6. CASE Run
    BY <2>6, LoopRunAnswer, LoopRunMessage, LoopRunStart, LoopRunResume, LoopRunEngine DEF Run
  <2> QED BY <1>2, <2>1, <2>2, <2>3, <2>4, <2>5, <2>6 DEF Next
<1> QED BY <1>1, <1>2

\* The client's caches and queues keep their types: every waiting task is about a fill of
\* its trade, every answer has a result for each order left, and the loop never runs the
\* engine's consumer without an event (LoopInv).
THEOREM TypeCorrect == Spec => []TypeOK
<1>1. LoopInv => TypeOK
  BY DEF LoopInv
<1> QED BY <1>1, LoopInit, LoopStep, PTL DEF Spec

-----------------------------------------------------------------------------
(* A fill is handed over once                                               *)

\* The dedup cache holds every fill: nothing is evicted while it is still announced.
FillsFit == IsFiniteSet(Fills) /\ Cardinality(Fills) <= ProcessedTradesLimit

Distinct(s) == \A i, j \in DOMAIN s : s[i] = s[j] => i = j

\* Every fill handed over is in the cache, which has each fill once.
FillsRemembered ==
  /\ Distinct(processedFills)
  /\ \A f \in Fills : handed[f] <= 1 /\ (handed[f] # 0 => InSeq(processedFills, f))

OnceInv == FillsFit /\ LoopInv /\ FillsRemembered

\* A sequence without repetition is no longer than the set it draws from is large.
LEMMA DistinctLength ==
  ASSUME NEW S, IsFiniteSet(S), NEW s \in Seq(S), Distinct(s)
  PROVE  Len(s) <= Cardinality(S)
<1>1. s \in Injection(1..Len(s), S)
  BY DEF Injection, IsInjective, Distinct
<1>2. Cardinality(1..Len(s)) <= Cardinality(S)
  BY <1>1, FS_Injection
<1>3. Cardinality(1..Len(s)) = Len(s)
  <2>1. 1 \in Int /\ Len(s) \in Int /\ Len(s) >= 0
    OBVIOUS
  <2>2. Cardinality(1..Len(s)) = IF 1 > Len(s) THEN 0 ELSE Len(s) - 1 + 1
    BY <2>1, FS_Interval
  <2> QED BY <2>1, <2>2
<1> QED BY <1>2, <1>3

\* Recording a fill that is not in the cache adds it, and evicts none.
LEMMA RecordNewFill ==
  ASSUME OnceInv, NEW f \in Fills, ~InSeq(processedFills, f), RecordProcessedFill(f)
  PROVE  processedFills' = Append(processedFills, f) /\ Distinct(processedFills')
<1> DEFINE s == Append(processedFills, f)
<1>0. processedFills \in Seq(Fills)
  BY DEF OnceInv, LoopInv, TypeOK, DedupOK
<1>1. s \in Seq(Fills) /\ Distinct(s)
  BY <1>0 DEF OnceInv, FillsRemembered, Distinct, InSeq
<1>2. Len(s) <= ProcessedTradesLimit
  <2>1. Len(s) <= Cardinality(Fills)
    BY <1>1, DistinctLength DEF OnceInv, FillsFit
  <2> QED BY <1>1, <2>1, FS_CardinalityType, ConstantsAssumption DEF OnceInv, FillsFit
<1>3. Places(processedFills, f) = {}
  BY DEF Places, InSeq
<1>4. processedFills' = Truncate(s)
  BY <1>3 DEF RecordProcessedFill, Touch, Drop
<1>5. ~(Len(s) > ProcessedTradesLimit)
  BY <1>1, <1>2, ConstantsAssumption
<1> QED BY <1>1, <1>4, <1>5 DEF Truncate

\* What was in a sequence stays in it when an entry is appended.
LEMMA InSeqAppend ==
  ASSUME NEW S, NEW s \in Seq(S), NEW x \in S, NEW y
  PROVE  InSeq(Append(s, x), y) <=> InSeq(s, y) \/ y = x
<1>1. DOMAIN Append(s, x) = 1..(Len(s) + 1) /\ DOMAIN s = 1..Len(s) /\ Len(s) \in Nat
  OBVIOUS
<1>2. \A i \in DOMAIN s : Append(s, x)[i] = s[i]
  OBVIOUS
<1>3. Append(s, x)[Len(s) + 1] = x
  OBVIOUS
<1>4. ASSUME InSeq(Append(s, x), y) PROVE InSeq(s, y) \/ y = x
  <2>1. PICK i \in DOMAIN Append(s, x) : Append(s, x)[i] = y
    BY <1>4 DEF InSeq
  <2>2. i \in DOMAIN s \/ i = Len(s) + 1
    BY <1>1
  <2> QED BY <1>2, <1>3, <2>1, <2>2 DEF InSeq
<1>5. ASSUME InSeq(s, y) \/ y = x PROVE InSeq(Append(s, x), y)
  <2>1. DOMAIN s \subseteq DOMAIN Append(s, x) /\ Len(s) + 1 \in DOMAIN Append(s, x)
    BY <1>1
  <2> QED BY <1>2, <1>3, <1>5, <2>1 DEF InSeq
<1> QED BY <1>4, <1>5

\* Only the handler of a trade task hands a fill over, and only an unknown one.
LEMMA HandleOnce ==
  ASSUME OnceInv, NEW task \in Task, NEW queue, Handle(task, queue)
  PROVE  FillsRemembered'
<1> DEFINE f == <<task.t, task.o>>
<1>1. CASE UNCHANGED <<processedFills, handed>>
  BY <1>1 DEF OnceInv, FillsRemembered, Distinct, InSeq
<1>2. CASE /\ task.kind # "order" /\ ~InSeq(processedFills, f)
           /\ handed' = [handed EXCEPT ![f] = @ + 1] /\ RecordProcessedFill(f)
  <2>1. f \in Fills
    BY <1>2 DEF Task, OrderTask, TradeTask
  <2>2. processedFills' = Append(processedFills, f) /\ Distinct(processedFills')
    BY <1>2, <2>1, RecordNewFill
  <2>3. processedFills \in Seq(Fills) /\ handed \in [Fills -> Nat]
    BY DEF OnceInv, LoopInv, TypeOK, DedupOK, HistoryOK
  <2>4. handed[f] = 0
    BY <1>2, <2>1, <2>3 DEF OnceInv, FillsRemembered
  <2>5. InSeq(processedFills', f)
        /\ \A g \in Fills : InSeq(processedFills, g) => InSeq(processedFills', g)
    BY <2>1, <2>2, <2>3, InSeqAppend
  <2>6. ASSUME NEW g \in Fills
        PROVE  handed'[g] <= 1 /\ (handed'[g] # 0 => InSeq(processedFills', g))
    <3>1. handed'[g] = IF g = f THEN 1 ELSE handed[g]
      BY <1>2, <2>1, <2>3, <2>4
    <3>2. handed[g] <= 1 /\ (handed[g] # 0 => InSeq(processedFills, g))
      BY DEF OnceInv, FillsRemembered
    <3> QED BY <2>5, <3>1, <3>2
  <2> QED BY <2>2, <2>6 DEF FillsRemembered
<1>3. CASE task.kind = "order"
  BY <1>1, <1>3 DEF Handle, OrderUpdate, dedupVars
<1>4. CASE task.kind # "order"
  BY <1>1, <1>2, <1>4 DEF Handle, TradeFill, FillKnown, dedupVars
<1> QED BY <1>3, <1>4

LEMMA OnceInit == FillsFit /\ Init => OnceInv
BY LoopInit DEF OnceInv, Init, FillsRemembered, Distinct

LEMMA OnceStep == OnceInv /\ [Next]_vars => OnceInv'
<1> SUFFICES ASSUME OnceInv, [Next]_vars PROVE OnceInv'
  OBVIOUS
<1>1. LoopInv'
  BY LoopStep DEF OnceInv
<1>2. FillsRemembered'
  <2>1. CASE UNCHANGED <<processedFills, handed>>
    BY <2>1 DEF OnceInv, FillsRemembered, Distinct, InSeq
  <2>2. ASSUME NEW task \in Task, NEW queue, Handle(task, queue)
        PROVE  FillsRemembered'
    BY <2>2, HandleOnce
  <2>3. CASE RunStart
    <3>1. Head(ready).task \in Task
      BY <2>3, HeadTask DEF RunStart, OnceInv
    <3> QED BY <2>1, <2>2, <2>3, <3>1 DEF RunStart, dedupVars
  <2>4. CASE RunResume
    <3>1. Head(ready).task \in Task
      BY <2>4, HeadTask DEF RunResume, OnceInv
    <3> QED BY <2>2, <2>4, <3>1 DEF RunResume
  <2>5. CASE RunMessage
    BY <2>1, <2>5 DEF RunMessage, TradeMessage, RecordProcessedTrade, dedupVars
  <2>6. CASE RunAnswer \/ RunEngine \/ Deliver \/ AckTimeout
    BY <2>1, <2>6 DEF RunAnswer, RunEngine, Deliver, AckTimeout, dedupVars, historyVars
  <2>7. ASSUME NEW o \in Orders,
               \/ SubmitOrder(o) \/ CancelOrder(o) \/ CancelAnswered(o)
               \/ FireAndForgetCancel(o) \/ VenueAccepts(o)
        PROVE  FillsRemembered'
    BY <2>1, <2>7 DEF SubmitOrder, CancelOrder, CancelAnswered, FireAndForgetCancel, VenueAccepts,
       dedupVars, historyVars
  <2>8. ASSUME NEW t \in Trades, VenueMatches(t) \/ VenueSettles(t) \/ VenueResends(t)
        PROVE  FillsRemembered'
    BY <2>1, <2>8 DEF VenueMatches, VenueSettles, VenueResends, dedupVars, historyVars
  <2>9. CASE (\E l \in OrderLists : SubmitOrderList(l)) \/ (\E p \in posts : Respond(p))
    BY <2>1, <2>9 DEF SubmitOrderList, Respond, dedupVars, historyVars
  <2>10. CASE UNCHANGED vars
    BY <2>1, <2>10 DEF vars, dedupVars, historyVars
  <2> QED BY <2>3, <2>4, <2>5, <2>6, <2>7, <2>8, <2>9, <2>10 DEF Next, Run
<1> QED BY <1>1, <1>2 DEF OnceInv, FillsFit

\* Unless there are more fills than the dedup cache can hold, a fill reaches the engine at
\* most once: however often its trade is announced, in whatever order it meets the answer
\* to its order, and whichever waits time out.
THEOREM FillOnce == FillsFit /\ Spec => []FillHandedOnce
<1>1. OnceInv => FillHandedOnce
  BY DEF OnceInv, FillsRemembered, FillHandedOnce
<1> QED BY <1>1, OnceInit, OnceStep, PTL DEF Spec

\* What RemoveIndex leaves.
LEMMA RemoveIndexEntries ==
  ASSUME NEW S, NEW s \in Seq(S), NEW i \in DOMAIN s
  PROVE  /\ Len(RemoveIndex(s, i)) = Len(s) - 1
         /\ \A j \in 1..(Len(s) - 1) : RemoveIndex(s, i)[j] = IF j < i THEN s[j] ELSE s[j + 1]
         /\ \A j \in DOMAIN RemoveIndex(s, i) : InSeq(s, RemoveIndex(s, i)[j])
<1> DEFINE a == SubSeq(s, 1, i - 1)
           b == SubSeq(s, i + 1, Len(s))
<1>0. Len(s) \in Nat /\ i \in 1..Len(s)
  OBVIOUS
<1>1. a \in Seq(S) /\ Len(a) = i - 1 /\ \A j \in 1..(i - 1) : a[j] = s[j]
  BY <1>0
<1>2. b \in Seq(S) /\ Len(b) = Len(s) - i /\ \A j \in 1..(Len(s) - i) : b[j] = s[i + j]
  BY <1>0
<1>3. RemoveIndex(s, i) = a \o b
  BY DEF RemoveIndex
<1> HIDE DEF a, b
<1>4. Len(a \o b) = Len(s) - 1 /\ a \o b \in Seq(S)
  BY <1>0, <1>1, <1>2
<1>5. ASSUME NEW j \in 1..(Len(s) - 1)
      PROVE  (a \o b)[j] = IF j < i THEN s[j] ELSE s[j + 1]
  <2>1. CASE j < i
    BY <1>0, <1>1, <1>2, <2>1
  <2>2. CASE ~(j < i)
    <3>1. j - (i - 1) \in 1..(Len(s) - i) /\ i + (j - (i - 1)) = j + 1
      BY <1>0, <2>2
    <3>2. (a \o b)[j] = b[j - Len(a)]
      BY <1>0, <1>1, <1>2, <2>2
    <3> QED BY <1>1, <1>2, <2>2, <3>1, <3>2
  <2> QED BY <2>1, <2>2
<1>6. ASSUME NEW j \in DOMAIN (a \o b)
      PROVE  InSeq(s, (a \o b)[j])
  <2>1. j \in 1..(Len(s) - 1)
    BY <1>4, <1>6
  <2>2. j \in DOMAIN s /\ j + 1 \in DOMAIN s
    BY <1>0, <2>1
  <2> QED BY <1>5, <2>1, <2>2 DEF InSeq
<1> QED BY <1>3, <1>4, <1>5, <1>6

-----------------------------------------------------------------------------
(* The refinement of FillLedger                                             *)

\* A trade the venue has announced.  A task or a message is about one, if about a trade.
Announced(t) == tradeStatus[t] # "none"
AboutAnnounced(x) == x.kind = "trade" => Announced(x.t)

\* Nothing in flight is about a trade the venue has not announced: no message on the wire,
\* no callback in the loop and no waiter.
Origins ==
  /\ \A i \in DOMAIN wire : AboutAnnounced(wire[i])
  /\ \A i \in DOMAIN ready : /\ ready[i].run = "ws" => AboutAnnounced(ready[i].msg)
                             /\ ready[i].run \in {"start", "resume"} => AboutAnnounced(ready[i].task)
  /\ \A i \in DOMAIN waiting : AboutAnnounced(waiting[i].task)

LedgerInv == OnceInv /\ Origins

\* The venue writes the statuses of trades, and never takes an announcement back.
LEMMA AnnouncedKept ==
  ASSUME LoopInv, [Next]_vars, NEW t \in Trades, Announced(t)
  PROVE  Announced(t)'
<1> DEFINE kept == UNCHANGED tradeStatus
<1>0. tradeStatus \in [Trades -> TradeStatuses \union {"none"}]
  BY DEF LoopInv, TypeOK, VenueOK
<1>1. kept => Announced(t)'
  BY DEF Announced
<1>2. ASSUME NEW u \in Trades, NEW s \in TradeStatuses, Announce(u, s)
      PROVE  Announced(t)'
  <2>1. s # "none"
    BY DEF TradeStatuses, FinalizedTradeStatuses
  <2>2. tradeStatus' = [tradeStatus EXCEPT ![u] = s]
    BY <1>2 DEF Announce
  <2> QED BY <1>0, <2>1, <2>2 DEF Announced
<1>3. ASSUME NEW u \in Trades, VenueMatches(u) \/ VenueSettles(u) \/ VenueResends(u)
      PROVE  Announced(t)'
  <2>1. \E s \in TradeStatuses : Announce(u, s)
    <3>1. CASE VenueMatches(u)
      BY <3>1 DEF VenueMatches, TradeStatuses
    <3>2. CASE VenueSettles(u)
      BY <3>2 DEF VenueSettles, Successors, TradeStatuses, FinalizedTradeStatuses
    <3>3. CASE VenueResends(u)
      BY <1>0, <3>3 DEF VenueResends
    <3> QED BY <1>3, <3>1, <3>2, <3>3
  <2> QED BY <1>2, <2>1
<1>4. ASSUME NEW o \in Orders,
             \/ SubmitOrder(o) \/ CancelOrder(o) \/ CancelAnswered(o)
             \/ FireAndForgetCancel(o) \/ VenueAccepts(o)
      PROVE  kept
  BY <1>4 DEF SubmitOrder, CancelOrder, CancelAnswered, FireAndForgetCancel, VenueAccepts,
     VenueCancels, venueVars
<1>5. CASE (\E l \in OrderLists : SubmitOrderList(l)) \/ (\E p \in posts : Respond(p))
  BY <1>1, <1>5 DEF SubmitOrderList, Respond, venueVars
<1>6. CASE Deliver \/ AckTimeout \/ UNCHANGED vars
  BY <1>1, <1>6 DEF Deliver, AckTimeout, vars, venueVars
<1>7. CASE Run
  BY <1>1, <1>7 DEF Run, RunAnswer, RunMessage, RunStart, RunResume, RunEngine, venueVars
<1> QED BY <1>1, <1>3, <1>4, <1>5, <1>6, <1>7 DEF Next

\* What a step may put on the wire: what was on it, an order's news, or news of a trade
\* that is announced by the step.
LEMMA NextWire ==
  ASSUME LoopInv, [Next]_vars, NEW i \in DOMAIN wire'
  PROVE  InSeq(wire, wire'[i]) \/ AboutAnnounced(wire[i])'
<1> DEFINE goal == InSeq(wire, wire'[i]) \/ AboutAnnounced(wire[i])'
<1>0. wire \in Seq(Message) /\ tradeStatus \in [Trades -> TradeStatuses \union {"none"}]
  BY DEF LoopInv, TypeOK, VenueOK
<1>1. CASE UNCHANGED wire
  BY <1>1 DEF InSeq
<1>2. ASSUME NEW m \in Message, wire' = Append(wire, m), AboutAnnounced(m)'
      PROVE  goal
  <2>1. (i \in DOMAIN wire /\ wire'[i] = wire[i]) \/ wire'[i] = m
    BY <1>0, <1>2
  <2> QED BY <1>2, <2>1 DEF InSeq, AboutAnnounced, Announced
<1>3. CASE \E o \in Orders : VenueCancels(o) \/ VenueAccepts(o)
  <2>1. PICK o \in Orders, typ \in OrderMsgTypes :
          wire' = Append(wire, [kind |-> "order", o |-> o, typ |-> typ])
    BY <1>3 DEF VenueCancels, VenueAccepts, OrderMsgTypes
  <2>2. [kind |-> "order", o |-> o, typ |-> typ] \in Message
    BY DEF Message, OrderTask
  <2> QED BY <1>2, <2>1, <2>2 DEF AboutAnnounced
<1>4. ASSUME NEW t \in Trades, VenueMatches(t) \/ VenueSettles(t) \/ VenueResends(t)
      PROVE  goal
  <2>1. PICK s \in TradeStatuses : Announce(t, s)
    <3>1. CASE VenueMatches(t)
      BY <3>1 DEF VenueMatches, TradeStatuses
    <3>2. CASE VenueSettles(t)
      BY <3>2 DEF VenueSettles, Successors, TradeStatuses, FinalizedTradeStatuses
    <3>3. CASE VenueResends(t)
      BY <1>0, <3>3 DEF VenueResends
    <3> QED BY <1>4, <3>1, <3>2, <3>3
  <2>2. [kind |-> "trade", t |-> t, s |-> s] \in Message
    BY DEF Message
  <2>3. wire' = Append(wire, [kind |-> "trade", t |-> t, s |-> s]) /\ tradeStatus'[t] = s
    BY <1>0, <2>1 DEF Announce
  <2>4. s # "none"
    BY DEF TradeStatuses, FinalizedTradeStatuses
  <2> QED BY <1>2, <2>2, <2>3, <2>4 DEF AboutAnnounced, Announced
<1>5. CASE Deliver
  BY <1>0, <1>5 DEF Deliver, InSeq
<1>6. ASSUME NEW o \in Orders,
             SubmitOrder(o) \/ CancelOrder(o) \/ CancelAnswered(o) \/ FireAndForgetCancel(o)
      PROVE  goal
  <2>1. VenueCancels(o) \/ UNCHANGED wire
    BY <1>6 DEF SubmitOrder, CancelOrder, CancelAnswered, FireAndForgetCancel, venueVars
  <2> QED BY <1>1, <1>3, <2>1
<1>7. CASE (\E l \in OrderLists : SubmitOrderList(l)) \/ (\E p \in posts : Respond(p))
  BY <1>1, <1>7 DEF SubmitOrderList, Respond, venueVars
<1>8. CASE AckTimeout \/ UNCHANGED vars
  BY <1>1, <1>8 DEF AckTimeout, vars, venueVars
<1>9. CASE Run
  BY <1>1, <1>9 DEF Run, RunAnswer, RunMessage, RunStart, RunResume, RunEngine, venueVars
<1> QED BY <1>3, <1>4, <1>5, <1>6, <1>7, <1>8, <1>9 DEF Next

\* Generating events queues nothing but the engine's consumer.
LEMMA GenerateReady ==
  ASSUME NEW queue \in Seq(Callback), NEW events, Generate(queue, events),
         NEW i \in DOMAIN ready'
  PROVE  InSeq(queue, ready'[i]) \/ ready'[i].run = "engine"
BY DEF Generate, InSeq

LEMMA HandleReady ==
  ASSUME NEW queue \in Seq(Callback), NEW task, Handle(task, queue), NEW i \in DOMAIN ready'
  PROVE  InSeq(queue, ready'[i]) \/ ready'[i].run = "engine"
<1>1. CASE ready' = queue
  BY <1>1 DEF InSeq
<1>2. ready' = queue \/ \E events : Generate(queue, events)
  BY DEF Handle, OrderUpdate, TradeFill
<1> QED BY <1>1, <1>2, GenerateReady

\* The answer that the loop works through, and what is left of it after one result.
LEMMA AnswerHead ==
  ASSUME LoopInv, ready # <<>>, Head(ready).run = "answer"
  PROVE  /\ Head(ready) \in Answer
         /\ NextResult(Head(ready)).run = "answer" /\ RejectAll(Head(ready)).run = "answer"
         /\ Head(ready).rest # <<>> => /\ Head(Head(ready).rest) \in Orders
                                       /\ NextResult(Head(ready)) \in Callback
<1> DEFINE a == Head(ready)
<1>1. a \in Answer
  BY Dequeue DEF Callback
<1>2. NextResult(a).run = "answer" /\ RejectAll(a).run = "answer"
  BY <1>1 DEF Answer, NextResult, RejectAll
<1>3. ASSUME a.rest # <<>>
      PROVE  Head(a.rest) \in Orders /\ NextResult(a) \in Answer
  <2>1. a.rest \in Seq(Orders) /\ a.results \in Seq(Results) /\ Len(a.rest) = Len(a.results)
    BY <1>1 DEF Answer
  <2>2. /\ Head(a.rest) \in Orders
        /\ Tail(a.rest) \in Seq(Orders) /\ Tail(a.results) \in Seq(Results)
        /\ Len(Tail(a.rest)) = Len(Tail(a.results))
    BY <1>3, <2>1
  <2> QED BY <1>1, <2>2 DEF Answer, NextResult
<1> QED BY <1>1, <1>2, <1>3 DEF Callback

\* Where the callback c of the loop, or the waiter's task x, may come from.
QueuedBefore(c) == InSeq(ready, c) \/ c.run \in {"engine", "answer"}
FromWire(c) == wire # <<>> /\ c = [run |-> "ws", msg |-> Head(wire)]
FromMessage(c) ==
  /\ Running("ws") /\ c.run = "start"
  /\ c.task.kind = "trade" => Head(ready).msg.kind = "trade" /\ c.task.t = Head(ready).msg.t
FromWaiter(c) ==
  \E w \in DOMAIN waiting : c = [run |-> "resume", task |-> waiting[w].task]
Awaited(x) == \E w \in DOMAIN waiting : waiting[w].task = x

\* What a step may put in the loop's queue.
LEMMA NextReady ==
  ASSUME LoopInv, [Next]_vars, NEW i \in DOMAIN ready'
  PROVE  \/ QueuedBefore(ready'[i]) \/ FromWire(ready'[i])
         \/ FromMessage(ready'[i]) \/ FromWaiter(ready'[i])
<1> DEFINE c == ready'[i]
           goal == QueuedBefore(c) \/ FromWire(c) \/ FromMessage(c) \/ FromWaiter(c)
<1>0. ready \in Seq(Callback)
  BY DEF LoopInv, TypeOK, LoopOK
<1>1. CASE UNCHANGED ready
  BY <1>1 DEF QueuedBefore, InSeq
<1>2. ASSUME NEW d, ready' = Append(ready, d)
      PROVE  InSeq(ready, c) \/ c = d
  BY <1>0, <1>2 DEF InSeq
<1>3. ASSUME NEW events, Generate(ready, events)
      PROVE  goal
  BY <1>0, <1>3, GenerateReady DEF QueuedBefore
<1>4. ASSUME NEW queue \in Seq(Callback), \A j \in DOMAIN queue : QueuedBefore(queue[j]),
             InSeq(queue, c) \/ c.run = "engine"
      PROVE  goal
  BY <1>4 DEF InSeq, QueuedBefore
<1>5. ASSUME ready # <<>>
      PROVE  /\ Tail(ready) \in Seq(Callback)
             /\ \A j \in DOMAIN Tail(ready) : QueuedBefore(Tail(ready)[j])
  BY <1>0, <1>5 DEF QueuedBefore, InSeq
<1>6. ASSUME NEW o \in Orders,
             \/ SubmitOrder(o) \/ CancelOrder(o) \/ CancelAnswered(o)
             \/ FireAndForgetCancel(o) \/ VenueAccepts(o)
      PROVE  goal
  <2>1. UNCHANGED ready \/ \E events : Generate(ready, events)
    BY <1>6 DEF SubmitOrder, CancelOrder, CancelAnswered, FireAndForgetCancel, VenueAccepts
  <2> QED BY <1>1, <1>3, <2>1
<1>7. CASE \E l \in OrderLists : SubmitOrderList(l)
  BY <1>3, <1>7 DEF SubmitOrderList
<1>8. CASE \E p \in posts : Respond(p)
  <2>1. PICK d : d.run = "answer" /\ ready' = Append(ready, d)
    BY <1>8 DEF Respond, AnswerTo
  <2> QED BY <1>2, <2>1 DEF QueuedBefore
<1>9. CASE \E t \in Trades : VenueMatches(t) \/ VenueSettles(t) \/ VenueResends(t)
  BY <1>1, <1>9 DEF VenueMatches, VenueSettles, VenueResends
<1>10. CASE Deliver
  BY <1>2, <1>10 DEF Deliver, QueuedBefore, FromWire
<1>11. CASE AckTimeout
  <2>1. Head(waiting) = waiting[1] /\ 1 \in DOMAIN waiting
    BY <1>11 DEF AckTimeout, LoopInv, TypeOK, AcksOK
  <2> QED BY <1>2, <1>11, <2>1 DEF AckTimeout, QueuedBefore, FromWaiter
<1>12. CASE RunAnswer
  <2> DEFINE a == Head(ready)
  <2>0. ready # <<>> /\ a.run = "answer"
    BY <1>12 DEF RunAnswer, Running
  <2>1. ASSUME NEW b, b.run = "answer"
        PROVE  /\ ready' = <<b>> \o Tail(ready) => goal
               /\ (\E events : b \in Callback /\ Generate(<<b>> \o Tail(ready), events)) => goal
    <3> DEFINE q == <<b>> \o Tail(ready)
    <3>1. \A j \in DOMAIN q : q[j] = b \/ \E k \in DOMAIN Tail(ready) : q[j] = Tail(ready)[k]
      BY <1>5, <2>0
    <3>2. \A j \in DOMAIN q : QueuedBefore(q[j])
      BY <1>5, <2>0, <2>1, <3>1 DEF QueuedBefore
    <3>3. ready' = q => goal
      BY <3>2
    <3>4. ASSUME b \in Callback, NEW events, Generate(q, events)
          PROVE  goal
      <4>1. q \in Seq(Callback)
        BY <1>5, <2>0, <3>4
      <4> HIDE DEF q
      <4>2. InSeq(q, c) \/ c.run = "engine"
        BY <3>4, <4>1, GenerateReady
      <4> QED BY <1>4, <3>2, <4>1, <4>2
    <3> QED BY <3>3, <3>4
  <2>2. NextResult(a).run = "answer" /\ RejectAll(a).run = "answer"
        /\ (a.rest # <<>> => NextResult(a) \in Callback)
    BY <2>0, AnswerHead
  <2>3. CASE ready' = Tail(ready)
    BY <1>5, <2>0, <2>3
  <2>4. CASE Wake(Head(a.rest))
    <3>1. PICK w \in DOMAIN waiting :
            ready' = Append(ready, [run |-> "resume", task |-> waiting[w].task])
      BY <2>4 DEF Wake, Attached
    <3> QED BY <1>2, <3>1 DEF QueuedBefore, FromWaiter
  <2>5. CASE ready' = <<NextResult(a)>> \o Tail(ready) \/ ready' = <<RejectAll(a)>> \o Tail(ready)
    BY <2>1, <2>2, <2>5
  <2>6. CASE a.rest # <<>> /\ \E events : Generate(<<NextResult(a)>> \o Tail(ready), events)
    BY <2>1, <2>2, <2>6
  <2> QED BY <1>1, <1>12, <2>3, <2>4, <2>5, <2>6 DEF RunAnswer
<1>13. CASE RunMessage
  <2> DEFINE m == Head(ready).msg
             l == FilledOrders[m.t]
             started(n) == [run |-> "start", task |-> [kind |-> "trade", o |-> l[n], t |-> m.t, s |-> m.s]]
             starts == [n \in DOMAIN l |-> started(n)]
  <2>0. Running("ws") /\ ready # <<>> /\ m \in Message
    BY <1>13, HeadMessage DEF RunMessage, Running
  <2>1. CASE ready' = Tail(ready)
    BY <1>5, <2>0, <2>1
  <2>2. CASE m.kind = "order" /\ ready' = Append(Tail(ready), [run |-> "start", task |-> m])
    <3>1. InSeq(Tail(ready), c) \/ c = [run |-> "start", task |-> m]
      BY <1>5, <2>0, <2>2 DEF InSeq
    <3> QED BY <1>5, <2>0, <2>2, <3>1 DEF InSeq, FromMessage
  <2>3. CASE m.kind = "trade" /\ ready' = Tail(ready) \o starts
    <3>0. l \in Seq(Orders)
      BY <2>0, <2>3, ConstantsAssumption DEF Message, OrderTask
    <3>1. DOMAIN starts = DOMAIN l /\ \A n \in DOMAIN l : starts[n] = started(n)
      OBVIOUS
    <3>2. \A n \in DOMAIN l : FromMessage(started(n))
      BY <2>0, <2>3 DEF FromMessage
    <3>3. starts \in Seq({started(n) : n \in DOMAIN l})
      BY <3>0
    <3> HIDE DEF starts, started
    <3>4. InSeq(Tail(ready), c) \/ \E n \in DOMAIN l : c = started(n)
      BY <1>5, <2>0, <2>3, <3>1, <3>3 DEF InSeq
    <3> QED BY <1>5, <2>0, <3>2, <3>4 DEF InSeq
  <2> QED BY <1>13, <2>1, <2>2, <2>3 DEF RunMessage, TradeMessage
<1>14. CASE RunStart \/ RunResume
  <2>0. ready # <<>>
    BY <1>14 DEF RunStart, RunResume, Running
  <2>1. ready' = Tail(ready) \/ \E task : Handle(task, Tail(ready))
    BY <1>14 DEF RunStart, RunResume
  <2> QED BY <1>4, <1>5, <2>0, <2>1, HandleReady
<1>15. CASE RunEngine
  BY <1>1, <1>5, <1>15 DEF RunEngine, Running
<1>16. CASE UNCHANGED vars
  BY <1>1, <1>16 DEF vars
<1> QED BY <1>6, <1>7, <1>8, <1>9, <1>10, <1>11, <1>12, <1>13, <1>14, <1>15, <1>16 DEF Next, Run

\* What a step may add to the waiters: the task at the head of the loop.
LEMMA NextWaiting ==
  ASSUME LoopInv, [Next]_vars, NEW i \in DOMAIN waiting'
  PROVE  \/ Awaited(waiting'[i].task)
         \/ Running("start") /\ waiting'[i].task = Head(ready).task
<1> DEFINE goal == \/ Awaited(waiting'[i].task)
                   \/ Running("start") /\ waiting'[i].task = Head(ready).task
<1>0. waiting \in Seq(Waiter)
  BY DEF LoopInv, TypeOK, AcksOK
<1>1. CASE UNCHANGED waiting
  BY <1>1 DEF Awaited
<1>2. CASE RunAnswer
  <2>1. CASE \E o : Wake(o)
    <3>1. PICK w \in DOMAIN waiting : waiting' = RemoveIndex(waiting, w)
      BY <2>1 DEF Wake, Attached
    <3>2. InSeq(waiting, waiting'[i])
      BY <1>0, <3>1, RemoveIndexEntries DEF InSeq
    <3> QED BY <3>2 DEF Awaited, InSeq
  <2> QED BY <1>1, <1>2, <2>1 DEF RunAnswer, ackVars
<1>3. CASE RunStart
  BY <1>0, <1>1, <1>3 DEF RunStart, Awaited
<1>4. CASE RunResume
  <2>1. waiting' = [w \in DOMAIN waiting |->
                      IF w \in Attached(Head(ready).task.kind, Head(ready).task.o)
                        THEN [waiting[w] EXCEPT !.attached = FALSE] ELSE waiting[w]]
    BY <1>4 DEF RunResume
  <2>2. i \in DOMAIN waiting /\ waiting[i] \in Waiter
    BY <1>0, <2>1
  <2>3. waiting'[i].task = waiting[i].task
    BY <2>1, <2>2 DEF Waiter
  <2> QED BY <2>2, <2>3 DEF Awaited
<1>5. CASE AckTimeout
  BY <1>0, <1>5 DEF AckTimeout, Awaited
<1>6. ASSUME NEW o \in Orders,
             \/ SubmitOrder(o) \/ CancelOrder(o) \/ CancelAnswered(o)
             \/ FireAndForgetCancel(o) \/ VenueAccepts(o)
      PROVE  goal
  BY <1>1, <1>6 DEF SubmitOrder, CancelOrder, CancelAnswered, FireAndForgetCancel, VenueAccepts,
     ackVars
<1>7. CASE (\E l \in OrderLists : SubmitOrderList(l)) \/ (\E p \in posts : Respond(p))
  BY <1>1, <1>7 DEF SubmitOrderList, Respond, ackVars
<1>8. CASE \E t \in Trades : VenueMatches(t) \/ VenueSettles(t) \/ VenueResends(t)
  BY <1>1, <1>8 DEF VenueMatches, VenueSettles, VenueResends, ackVars
<1>9. CASE Deliver \/ RunMessage \/ RunEngine \/ UNCHANGED vars
  BY <1>1, <1>9 DEF Deliver, RunMessage, RunEngine, vars, ackVars
<1> QED BY <1>2, <1>3, <1>4, <1>5, <1>6, <1>7, <1>8, <1>9 DEF Next, Run

\* Only a task hands a fill over: the one at the head of the loop.
LEMMA HandleLedger ==
  ASSUME OnceInv, NEW task \in Task, NEW queue, Handle(task, queue), UNCHANGED tradeStatus,
         AboutAnnounced(task)
  PROVE  Ledger!Next \/ UNCHANGED handed
<1> DEFINE f == <<task.t, task.o>>
<1>1. CASE UNCHANGED handed
  BY <1>1
<1>2. CASE task.kind # "order" /\ ~FillKnown(task) /\ handed' = [handed EXCEPT ![f] = @ + 1]
  <2>1. task \in TradeTask /\ f \in Fills
    BY <1>2 DEF Task, OrderTask, TradeTask
  <2>2. handed \in [Fills -> Nat] /\ handed[f] = 0
    BY <1>2, <2>1 DEF OnceInv, LoopInv, TypeOK, HistoryOK, FillsRemembered, FillKnown
  <2>3. f \in {g \in Fills : tradeStatus[g[1]] # "none"}
    BY <2>1 DEF AboutAnnounced, Announced, TradeTask
  <2>4. handed' = [handed EXCEPT ![f] = 1]
    BY <1>2, <2>1, <2>2
  <2>5. Ledger!HandOver(f)
    BY <2>2, <2>3, <2>4 DEF Ledger!HandOver
  <2> QED BY <2>1, <2>5 DEF Ledger!Next
<1> QED BY <1>1, <1>2 DEF Handle, OrderUpdate, TradeFill

\* What a step leaves in flight.
LEMMA OriginsKept ==
  ASSUME LoopInv, Origins, [Next]_vars
  PROVE  Origins'
<1>0. LoopInv /\ LoopInv'
  BY LoopStep
<1>1. /\ wire \in Seq(Message) /\ ready \in Seq(Callback) /\ waiting \in Seq(Waiter)
      /\ ready' \in Seq(Callback)
  BY <1>0 DEF LoopInv, TypeOK, VenueOK, LoopOK, AcksOK
<1>2. ASSUME NEW x \in Message \union Task, AboutAnnounced(x)
      PROVE  AboutAnnounced(x)'
  <2>1. x.kind = "trade" => x.t \in Trades
    BY DEF Message, Task, OrderTask, TradeTask
  <2> QED BY <1>0, <1>2, <2>1, AnnouncedKept DEF AboutAnnounced
<1>3. ASSUME NEW c \in Callback
      PROVE  /\ c.run = "ws" => c.msg \in Message
             /\ c.run \in {"start", "resume"} => c.task \in Task
  BY DEF Callback, Answer
<1>4. ASSUME NEW i \in DOMAIN wire'
      PROVE  AboutAnnounced(wire[i])'
  <2>1. CASE InSeq(wire, wire'[i])
    <3>1. PICK j \in DOMAIN wire : wire'[i] = wire[j]
      BY <2>1 DEF InSeq
    <3>2. wire[j] \in Message /\ AboutAnnounced(wire[j])
      BY <1>1 DEF Origins
    <3> QED BY <1>2, <3>1, <3>2 DEF AboutAnnounced, Announced
  <2> QED BY <1>0, <1>4, <2>1, NextWire
<1>5. ASSUME NEW i \in DOMAIN ready'
      PROVE  /\ ready'[i].run = "ws" => AboutAnnounced(ready[i].msg)'
             /\ ready'[i].run \in {"start", "resume"} => AboutAnnounced(ready[i].task)'
  <2> DEFINE c == ready'[i]
             goal == /\ c.run = "ws" => AboutAnnounced(ready[i].msg)'
                     /\ c.run \in {"start", "resume"} => AboutAnnounced(ready[i].task)'
  <2>0. c \in Callback
    BY <1>1, <1>5
  <2>1. ASSUME NEW x \in Message \union Task, AboutAnnounced(x)
        PROVE  (c.run = "ws" /\ c.msg = x) \/ (c.run \in {"start", "resume"} /\ c.task = x) => goal
    BY <1>2, <2>1 DEF AboutAnnounced, Announced
  <2>2. CASE QueuedBefore(c)
    <3>1. CASE InSeq(ready, c)
      <4>1. /\ c.run = "ws" => AboutAnnounced(c.msg)
            /\ c.run \in {"start", "resume"} => AboutAnnounced(c.task)
        BY <3>1 DEF Origins, InSeq
      <4> QED BY <1>3, <2>0, <2>1, <4>1
    <3> QED BY <2>2, <3>1 DEF QueuedBefore
  <2>3. CASE FromWire(c)
    <3>1. Head(wire) \in Message /\ AboutAnnounced(Head(wire))
      BY <1>1, <2>3 DEF FromWire, Origins
    <3> QED BY <2>1, <2>3, <3>1 DEF FromWire
  <2>4. CASE FromMessage(c)
    <3> DEFINE m == Head(ready).msg
    <3>1. m \in Message /\ AboutAnnounced(m)
      BY <1>0, <1>1, <2>4, HeadMessage DEF FromMessage, Running, Origins
    <3>2. AboutAnnounced(c.task)
      BY <2>4, <3>1 DEF FromMessage, AboutAnnounced
    <3> QED BY <1>3, <2>0, <2>1, <2>4, <3>2 DEF FromMessage
  <2>5. CASE FromWaiter(c)
    <3>1. PICK w \in DOMAIN waiting : c = [run |-> "resume", task |-> waiting[w].task]
      BY <2>5 DEF FromWaiter
    <3>2. waiting[w].task \in Task /\ AboutAnnounced(waiting[w].task)
      BY <1>0, WaiterType DEF Origins
    <3> QED BY <2>1, <3>1, <3>2
  <2> QED BY <1>0, <1>5, <2>2, <2>3, <2>4, <2>5, NextReady
<1>6. ASSUME NEW i \in DOMAIN waiting'
      PROVE  AboutAnnounced(waiting[i].task)'
  <2> DEFINE x == waiting'[i].task
  <2>1. x \in Task /\ AboutAnnounced(x)
    <3>1. CASE Awaited(x)
      BY <1>0, <3>1, WaiterType DEF Awaited, Origins
    <3>2. CASE Running("start") /\ x = Head(ready).task
      BY <1>0, <1>1, <3>2, HeadTask DEF Running, Origins
    <3> QED BY <1>0, <1>6, <3>1, <3>2, NextWaiting
  <2> QED BY <1>2, <2>1 DEF AboutAnnounced, Announced
<1> QED BY <1>4, <1>5, <1>6 DEF Origins

\* A step that hands no fill over announces trades, or none.
LEMMA AnnounceStep ==
  ASSUME LedgerInv, [Next]_vars, UNCHANGED handed
  PROVE  Ledger!Announce
<1>1. \A f \in Fills : f[1] \in Trades
  BY DEF Fills
<1>2. \A f \in Fills : tradeStatus[f[1]] # "none" => tradeStatus'[f[1]] # "none"
  BY <1>1, AnnouncedKept DEF LedgerInv, OnceInv, Announced
<1> QED BY <1>2 DEF Ledger!Announce

\* Every step of the client, the venue and the engine is a step of the ledger.
LEMMA LedgerStep ==
  ASSUME LedgerInv, [Next]_vars
  PROVE  Ledger!Next
<1>0. OnceInv /\ LoopInv
  BY DEF LedgerInv, OnceInv
<1>1. CASE UNCHANGED handed
  BY <1>1, AnnounceStep DEF Ledger!Next
<1>2. CASE RunStart \/ RunResume
  <2> DEFINE task == Head(ready).task
  <2>0. Running("start") \/ Running("resume")
    BY <1>2 DEF RunStart, RunResume
  <2>1. task \in Task /\ AboutAnnounced(task)
    <3>1. task \in Task
      BY <1>0, <2>0, HeadTask
    <3>2. ready \in Seq(Callback) /\ ready # <<>>
      BY <1>0, <2>0 DEF LoopInv, TypeOK, LoopOK, Running
    <3> QED BY <2>0, <3>1, <3>2 DEF LedgerInv, Origins, Running
  <2>2. Handle(task, Tail(ready)) \/ UNCHANGED handed
    BY <1>2 DEF RunStart, RunResume
  <2>3. UNCHANGED tradeStatus
    BY <1>2 DEF RunStart, RunResume, venueVars
  <2> QED BY <1>0, <1>1, <2>1, <2>2, <2>3, HandleLedger
<1>3. CASE ~(RunStart \/ RunResume)
  <2>1. ASSUME NEW o \in Orders,
               \/ SubmitOrder(o) \/ CancelOrder(o) \/ CancelAnswered(o)
               \/ FireAndForgetCancel(o) \/ VenueAccepts(o)
        PROVE  UNCHANGED handed
    BY <2>1 DEF SubmitOrder, CancelOrder, CancelAnswered, FireAndForgetCancel, VenueAccepts,
       historyVars
  <2>2. ASSUME NEW t \in Trades, VenueMatches(t) \/ VenueSettles(t) \/ VenueResends(t)
        PROVE  UNCHANGED handed
    BY <2>2 DEF VenueMatches, VenueSettles, VenueResends, historyVars
  <2>3. CASE (\E l \in OrderLists : SubmitOrderList(l)) \/ (\E p \in posts : Respond(p))
    BY <1>1, <2>3 DEF SubmitOrderList, Respond, historyVars
  <2>4. CASE RunAnswer \/ RunMessage \/ RunEngine \/ Deliver \/ AckTimeout \/ UNCHANGED vars
    BY <1>1, <2>4 DEF RunAnswer, RunMessage, RunEngine, Deliver, AckTimeout, vars, historyVars
  <2> QED BY <1>1, <1>3, <2>1, <2>2, <2>3, <2>4 DEF Next, Run
<1> QED BY <1>2, <1>3

\* Unless there are more fills than the dedup cache can hold, the client implements the
\* fill ledger: every step hands over nothing or one fill, for the first time and of a
\* trade the venue has announced, whatever is delivered, repeated, lost or late.
THEOREM LedgerKept == FillsFit /\ Spec => LedgerSpec
<1>1. FillsFit /\ Init => LedgerInv
  BY OnceInit DEF LedgerInv, Origins, Init
<1>2. LedgerInv /\ [Next]_vars => LedgerInv'
  BY OriginsKept, OnceStep DEF LedgerInv, OnceInv
<1>3. Init => Ledger!Init
  <2>1. \A f \in Fills : f[1] \in Trades
    BY DEF Fills
  <2> QED BY <2>1 DEF Init, Ledger!Init
<1>4. LedgerInv /\ [Next]_vars
        => [Ledger!Next]_<<{f \in Fills : tradeStatus[f[1]] # "none"}, handed>>
  BY LedgerStep
<1> QED BY <1>1, <1>2, <1>3, <1>4, PTL DEF Spec, LedgerSpec, Ledger!Spec

-----------------------------------------------------------------------------
(* No waiter is stranded                                                    *)

\* The loop works through an answer and signals the waiters of order o.
Acking(o) ==
  /\ Running("answer") /\ Head(ready).rest # <<>>
  /\ Head(Head(ready).rest) = o /\ Head(Head(ready).results) = "ok"

\* Every waiter is attached, one of an acknowledged order waits for the answer at the head
\* of the loop to signal it, and whoever was signalled resumes for an acknowledged order.
Wakeable ==
  /\ \A i \in DOMAIN waiting : /\ waiting[i].attached
                               /\ waiting[i].task.o \in acked => Acking(waiting[i].task.o)
  /\ \A i \in DOMAIN ready : ready[i].run = "resume" => ready[i].task.o \in acked

WaitInv == LoopInv /\ Wakeable

\* A step that only queues callbacks, none of which resumes a waiter.
LEMMA WakeableQueued ==
  ASSUME WaitInv, UNCHANGED ackVars,
         \/ UNCHANGED ready
         \/ \E c : c.run # "resume" /\ ready' = Append(ready, c)
         \/ \E events : Generate(ready, events)
  PROVE  Wakeable'
<1>0. ready \in Seq(Callback) /\ waiting' = waiting /\ acked' = acked
  BY DEF WaitInv, LoopInv, TypeOK, LoopOK, ackVars
<1>1. ready' = ready \/ \E c : c.run # "resume" /\ ready' = Append(ready, c)
  <2>1. [run |-> "engine"].run # "resume"
    OBVIOUS
  <2> QED BY <2>1 DEF Generate
<1>2. \A i \in DOMAIN ready' : ready'[i].run = "resume" => InSeq(ready, ready'[i])
  BY <1>0, <1>1 DEF InSeq
<1>3. ready # <<>> => ready' # <<>> /\ Head(ready') = Head(ready)
  BY <1>0, <1>1
<1>4. \A o : Acking(o) => Acking(o)'
  BY <1>3 DEF Acking, Running
<1> QED BY <1>0, <1>2, <1>4 DEF WaitInv, Wakeable, InSeq

\* While the loop runs anything but an answer, no waiter is of an acknowledged order.
LEMMA NoneAcknowledged ==
  ASSUME WaitInv, ~Running("answer")
  PROVE  \A i \in DOMAIN waiting : waiting[i].task.o \notin acked
BY DEF WaitInv, Wakeable, Acking

\* Such a callback queues none that resumes a waiter.
LEMMA WakeableRun ==
  ASSUME WaitInv, ~Running("answer"), ready # <<>>, UNCHANGED ackVars,
         \A i \in DOMAIN ready' : InSeq(ready, ready'[i]) \/ ready'[i].run # "resume"
  PROVE  Wakeable'
BY NoneAcknowledged DEF WaitInv, Wakeable, InSeq, ackVars

\* The waiters of an order that is acknowledged are woken before the answer is left.
LEMMA WakeableAnswer ==
  ASSUME WaitInv, RunAnswer
  PROVE  Wakeable'
<1> DEFINE a == Head(ready)
           o == Head(a.rest)
<1>0. /\ ready \in Seq(Callback) /\ ready # <<>> /\ a.run = "answer" /\ a \in Answer
      /\ waiting \in Seq(Waiter) /\ Tail(ready) \in Seq(Callback)
  BY AnswerHead DEF WaitInv, LoopInv, TypeOK, LoopOK, AcksOK, RunAnswer, Running
<1>1. \A i \in DOMAIN Tail(ready) : InSeq(ready, Tail(ready)[i])
  BY <1>0 DEF InSeq
<1>2. ASSUME NEW b, b.run = "answer", NEW r, r = <<b>> \o Tail(ready), NEW i \in DOMAIN r
      PROVE  InSeq(ready, r[i]) \/ r[i].run # "resume"
  <2>1. r[i] = b \/ \E j \in DOMAIN Tail(ready) : r[i] = Tail(ready)[j]
    BY <1>0, <1>2
  <2> QED BY <1>1, <1>2, <2>1
<1>3. ASSUME UNCHANGED ackVars, \A i \in DOMAIN waiting : waiting[i].task.o \notin acked,
             \A i \in DOMAIN ready' : InSeq(ready, ready'[i]) \/ ready'[i].run # "resume"
      PROVE  Wakeable'
  BY <1>3 DEF WaitInv, Wakeable, InSeq, ackVars
<1>4. ASSUME a.rest = <<>> \/ Head(a.results) # "ok"
      PROVE  \A i \in DOMAIN waiting : waiting[i].task.o \notin acked
  BY <1>4 DEF WaitInv, Wakeable, Acking
<1>5. NextResult(a).run = "answer" /\ RejectAll(a).run = "answer"
      /\ (a.rest # <<>> => NextResult(a) \in Callback)
  BY <1>0, AnswerHead DEF WaitInv
<1>6. CASE a.rest = <<>> /\ ready' = Tail(ready) /\ UNCHANGED ackVars
  BY <1>1, <1>3, <1>4, <1>6
<1>7. CASE /\ a.rest # <<>> /\ Head(a.results) \in {"missing", "fail"}
           /\ Generate(<<NextResult(a)>> \o Tail(ready), <<Event("Rejected", o)>>)
           /\ UNCHANGED ackVars
  <2> DEFINE q == <<NextResult(a)>> \o Tail(ready)
  <2>1. q \in Seq(Callback)
    BY <1>0, <1>5, <1>7
  <2>2. \A i \in DOMAIN q : InSeq(ready, q[i]) \/ q[i].run # "resume"
    BY <1>2, <1>5
  <2>3. Generate(q, <<Event("Rejected", o)>>)
    BY <1>7
  <2> HIDE DEF q
  <2>4. \A i \in DOMAIN ready' : InSeq(q, ready'[i]) \/ ready'[i].run = "engine"
    BY <2>1, <2>3, GenerateReady
  <2> QED BY <1>3, <1>4, <1>7, <2>2, <2>4 DEF InSeq
<1>8. CASE /\ a.rest # <<>> /\ Head(a.results) = "ok" /\ o \notin acked
           /\ acked' = acked \union {o} /\ UNCHANGED <<waiting, ready, evtq>>
  <2>1. \A i \in DOMAIN waiting : waiting[i].task.o \notin acked
    BY <1>8 DEF WaitInv, Wakeable, Acking
  <2>2. Acking(o)'
    BY <1>0, <1>8 DEF Acking, Running
  <2> QED BY <1>8, <2>1, <2>2 DEF WaitInv, Wakeable
<1>9. CASE /\ a.rest # <<>> /\ Head(a.results) = "ok" /\ o \in acked
           /\ Wake(o) /\ UNCHANGED <<acked, evtq>>
  <2>1. PICK w \in DOMAIN waiting :
          /\ waiting' = RemoveIndex(waiting, w) /\ waiting[w].task.o = o
          /\ ready' = Append(ready, [run |-> "resume", task |-> waiting[w].task])
    BY <1>9 DEF Wake, Attached
  <2>2. \A i \in DOMAIN waiting' : InSeq(waiting, waiting'[i])
    BY <1>0, <2>1, RemoveIndexEntries
  <2>3. ready' # <<>> /\ Head(ready') = a
    BY <1>0, <2>1
  <2>4. \A x : Acking(x) => Acking(x)'
    BY <2>3 DEF Acking, Running
  <2>5. \A i \in DOMAIN ready' :
          InSeq(ready, ready'[i]) \/ ready'[i] = [run |-> "resume", task |-> waiting[w].task]
    BY <1>0, <2>1 DEF InSeq
  <2> QED BY <1>9, <2>1, <2>2, <2>4, <2>5 DEF WaitInv, Wakeable, InSeq
<1>10. CASE /\ a.rest # <<>> /\ Head(a.results) = "ok"
            /\ \A k \in Kinds : Attached(k, o) = {}
            /\ ready' = <<NextResult(a)>> \o Tail(ready) /\ UNCHANGED <<ackVars, evtq>>
  <2>1. \A i \in DOMAIN waiting : waiting[i].task.kind \in Kinds
    <3>1. \A x \in Task : x.kind \in Kinds
      BY DEF Task, OrderTask, TradeTask, Kinds
    <3> QED BY <3>1, WaiterType DEF WaitInv
  <2>2. \A i \in DOMAIN waiting : waiting[i].task.o # o
    BY <1>10, <2>1 DEF Attached, WaitInv, Wakeable
  <2>3. \A i \in DOMAIN waiting : waiting[i].task.o \notin acked
    BY <2>2 DEF WaitInv, Wakeable, Acking
  <2> QED BY <1>2, <1>3, <1>5, <1>10, <2>3
<1>11. CASE /\ a.rest # <<>> /\ Head(a.results) = "raise"
            /\ ready' = <<RejectAll(a)>> \o Tail(ready) /\ UNCHANGED <<ackVars, evtq>>
  BY <1>2, <1>3, <1>4, <1>5, <1>11
<1>12. CASE /\ a.rest # <<>> /\ Head(a.results) = "raise"
            /\ ready' = <<NextResult(a)>> \o Tail(ready) /\ UNCHANGED <<ackVars, evtq>>
  BY <1>2, <1>3, <1>4, <1>5, <1>12
<1> QED BY <1>6, <1>7, <1>8, <1>9, <1>10, <1>11, <1>12 DEF RunAnswer

LEMMA WaitStep == "timeout" \notin Faults /\ WaitInv /\ [Next]_vars => WaitInv'
<1> SUFFICES ASSUME "timeout" \notin Faults, WaitInv, [Next]_vars PROVE Wakeable'
  BY LoopStep DEF WaitInv
<1>0. /\ LoopInv /\ ready \in Seq(Callback) /\ waiting \in Seq(Waiter)
      /\ ready # <<>> => /\ Tail(ready) \in Seq(Callback)
                         /\ \A i \in DOMAIN Tail(ready) : InSeq(ready, Tail(ready)[i])
  BY DEF WaitInv, LoopInv, TypeOK, LoopOK, AcksOK, InSeq
<1>1. ASSUME NEW o \in Orders,
             \/ SubmitOrder(o) \/ CancelOrder(o) \/ CancelAnswered(o)
             \/ FireAndForgetCancel(o) \/ VenueAccepts(o)
      PROVE  Wakeable'
  <2>1. UNCHANGED ackVars /\ (UNCHANGED ready \/ \E events : Generate(ready, events))
    BY <1>1 DEF SubmitOrder, CancelOrder, CancelAnswered, FireAndForgetCancel, VenueAccepts
  <2> QED BY <2>1, WakeableQueued
<1>2. ASSUME NEW t \in Trades, VenueMatches(t) \/ VenueSettles(t) \/ VenueResends(t)
      PROVE  Wakeable'
  BY <1>2, WakeableQueued DEF VenueMatches, VenueSettles, VenueResends
<1>3. CASE \E l \in OrderLists : SubmitOrderList(l)
  BY <1>3, WakeableQueued DEF SubmitOrderList
<1>4. CASE (\E p \in posts : Respond(p)) \/ Deliver
  <2>1. UNCHANGED ackVars /\ \E c : c.run # "resume" /\ ready' = Append(ready, c)
    BY <1>4 DEF Respond, AnswerTo, Deliver
  <2> QED BY <2>1, WakeableQueued
<1>5. CASE RunAnswer
  BY <1>5, WakeableAnswer
<1>6. CASE RunMessage
  <2> DEFINE m == Head(ready).msg
             l == FilledOrders[m.t]
             started(n) == [run |-> "start", task |-> [kind |-> "trade", o |-> l[n], t |-> m.t, s |-> m.s]]
             starts == [n \in DOMAIN l |-> started(n)]
  <2>0. /\ Running("ws") /\ ready # <<>> /\ ~Running("answer") /\ m \in Message
        /\ UNCHANGED ackVars
    BY <1>0, <1>6, HeadMessage DEF RunMessage, Running
  <2>1. CASE ready' = Tail(ready)
    BY <1>0, <2>0, <2>1, WakeableRun
  <2>2. CASE ready' = Append(Tail(ready), [run |-> "start", task |-> m])
    <3>1. \A i \in DOMAIN ready' : InSeq(Tail(ready), ready'[i]) \/ ready'[i].run = "start"
      BY <1>0, <2>0, <2>2 DEF InSeq
    <3> QED BY <1>0, <2>0, <3>1, WakeableRun DEF InSeq
  <2>3. CASE m.kind = "trade" /\ ready' = Tail(ready) \o starts
    <3>0. l \in Seq(Orders)
      BY <2>0, <2>3, ConstantsAssumption DEF Message, OrderTask
    <3>1. DOMAIN starts = DOMAIN l /\ \A n \in DOMAIN l : starts[n].run = "start"
      OBVIOUS
    <3>2. starts \in Seq({started(n) : n \in DOMAIN l})
      BY <3>0
    <3> HIDE DEF starts, started
    <3>3. \A i \in DOMAIN ready' : InSeq(Tail(ready), ready'[i]) \/ ready'[i].run = "start"
      BY <1>0, <2>0, <2>3, <3>1, <3>2 DEF InSeq
    <3> QED BY <1>0, <2>0, <3>3, WakeableRun DEF InSeq
  <2> QED BY <1>6, <2>1, <2>2, <2>3 DEF RunMessage, TradeMessage
<1>7. ASSUME NEW task, Handle(task, Tail(ready)), ready # <<>>
      PROVE  \A i \in DOMAIN ready' : InSeq(ready, ready'[i]) \/ ready'[i].run # "resume"
  BY <1>0, <1>7, HandleReady DEF InSeq
<1>8. CASE RunStart
  <2> DEFINE task == Head(ready).task
  <2>0. Running("start") /\ ready # <<>> /\ ~Running("answer") /\ acked' = acked
    BY <1>8 DEF RunStart, Running
  <2>1. CASE Handle(task, Tail(ready)) /\ UNCHANGED waiting
    BY <1>7, <2>0, <2>1, WakeableRun DEF ackVars
  <2>2. CASE /\ task.o \notin acked /\ ready' = Tail(ready)
             /\ waiting' = Append(waiting, [task |-> task, attached |-> TRUE])
    <3>1. \A i \in DOMAIN waiting' :
            InSeq(waiting, waiting'[i]) \/ waiting'[i] = [task |-> task, attached |-> TRUE]
      BY <1>0, <2>2 DEF InSeq
    <3>2. \A i \in DOMAIN waiting' : waiting'[i].attached /\ waiting'[i].task.o \notin acked
      BY <2>0, <2>2, <3>1, NoneAcknowledged DEF WaitInv, Wakeable, InSeq
    <3>3. \A i \in DOMAIN ready' : ready'[i].run = "resume" => ready'[i].task.o \in acked
      BY <1>0, <2>0, <2>2 DEF WaitInv, Wakeable, InSeq
    <3> QED BY <2>0, <3>2, <3>3 DEF Wakeable
  <2> QED BY <1>8, <2>1, <2>2 DEF RunStart
<1>9. CASE RunResume
  <2> DEFINE task == Head(ready).task
  <2>0. Running("resume") /\ ready # <<>> /\ ~Running("answer") /\ acked' = acked
    BY <1>9 DEF RunResume, Running
  <2>1. task.o \in acked
    BY <1>0, <2>0 DEF WaitInv, Wakeable, Running
  <2>2. Attached(task.kind, task.o) = {}
    BY <2>0, <2>1, NoneAcknowledged DEF Attached
  <2>3. waiting' = waiting
    BY <1>0, <1>9, <2>2 DEF RunResume
  <2> QED BY <1>7, <1>9, <2>0, <2>3, WakeableRun DEF RunResume, ackVars
<1>10. CASE RunEngine
  BY <1>0, <1>10, WakeableRun DEF RunEngine, Running, InSeq
<1>11. CASE AckTimeout
  BY <1>11 DEF AckTimeout
<1>12. CASE UNCHANGED vars
  BY <1>12, WakeableQueued DEF vars
<1> QED BY <1>1, <1>2, <1>3, <1>4, <1>5, <1>6, <1>8, <1>9, <1>10, <1>11, <1>12 DEF Next, Run

\* As long as no wait times out, every waiter can still be woken: for every order, list
\* and trade, whatever answer is lost, incomplete or raises, and however the messages of
\* an order overtake its answer.  It is the timeouts that take the event from under others.
THEOREM NoneStranded == "timeout" \notin Faults /\ Spec => []NoWaiterStranded
<1> SUFFICES ASSUME "timeout" \notin Faults PROVE Spec => []NoWaiterStranded
  OBVIOUS
<1>1. Init => WaitInv
  BY LoopInit DEF Init, WaitInv, Wakeable
<1>2. WaitInv /\ [Next]_vars => WaitInv'
  BY WaitStep
<1>3. WaitInv => NoWaiterStranded
  BY DEF WaitInv, Wakeable, NoWaiterStranded
<1> QED BY <1>1, <1>2, <1>3, PTL DEF Spec

-----------------------------------------------------------------------------
(* Every posted order is resolved as its answer says                        *)

\* The engine has the order as submitted, or is about to.
Pending(o) == status[o] = "SUBMITTED" \/ InSeq(evtq, Event("Submitted", o))

\* Who will settle a submitted order: its post, or the answer being worked through, which
\* will reject it for its own result or for one that raises over the batch.
Posted(o) == \E p \in posts : InSeq(p, o)
AnswerAt(i) == i \in DOMAIN ready /\ ready[i].run = "answer"
Answered(o) == \E i : AnswerAt(i) /\ InSeq(ready[i].rest, o)
Rejects(a, o) ==
  \E j \in DOMAIN a.rest : \/ a.rest[j] = o /\ a.results[j] \in {"missing", "fail"}
                           \/ a.results[j] = "raise" /\ o \in batched
WillReject(o) == \E i : AnswerAt(i) /\ InSeq(ready[i].all, o) /\ Rejects(ready[i], o)

\* The engine has been told nothing that outlives a rejection; it was told of no rejection;
\* it was told of one before anything that outlives it.
Passing == {"Submitted", "Rejected", "CancelRejected"}
EarlyStatuses == {"INITIALIZED", "SUBMITTED", "REJECTED"}
Early(o) ==
  /\ status[o] \in EarlyStatuses
  /\ \A k \in DOMAIN evtq : evtq[k].o = o => evtq[k].e \in Passing
NotRejected(o) == status[o] # "REJECTED" /\ ~InSeq(evtq, Event("Rejected", o))
Doomed(o) ==
  /\ status[o] \in EarlyStatuses
  /\ status[o] = "REJECTED"
       \/ \E k \in DOMAIN evtq :
            /\ evtq[k] = Event("Rejected", o)
            /\ \A j \in DOMAIN evtq : j < k /\ evtq[j].o = o => evtq[j].e \in Passing

\* The consumer is queued while there are events.
Consumed == evtq # <<>> => \E i \in DOMAIN ready : ready[i].run = "engine"

\* Nothing is known of an order that was not sent.
Unsent(o) ==
  /\ status[o] = "INITIALIZED" /\ o \notin acked /\ told[o] = "none" /\ o \notin batched
  /\ \A k \in DOMAIN evtq : evtq[k].o # o
Sending == cancelling \subseteq sent /\ \A o \in Orders \ sent : Unsent(o)

\* The orders of one post are in no other, are posted the same way, and wait for their answer.
PostedTogether(p) ==
  \A i, j \in DOMAIN p : (p[i] = p[j] => i = j) /\ (p[i] \in batched <=> p[j] \in batched)
AwaitsAnswer(o) ==
  o \in sent /\ told[o] = "none" /\ o \notin acked /\ Early(o) /\ NotRejected(o)
Posting ==
  \A p \in posts :
    /\ PostedTogether(p)
    /\ \A i \in DOMAIN p : AwaitsAnswer(p[i])
    /\ \A q \in posts : \A o \in Orders : InSeq(p, o) /\ InSeq(q, o) => p = q

\* An answer belongs to one post; it is at the head of the loop once it has acknowledged an
\* order; and what it does next agrees with what it told.
OwnOrders(i) ==
  \A o : InSeq(ready[i].all, o) =>
    /\ o \in sent /\ told[o] # "none"
    /\ o \in acked => i = 1
    /\ \A n : AnswerAt(n) /\ InSeq(ready[n].all, o) => n = i
    /\ \A x : InSeq(ready[i].all, x) => (x \in batched <=> o \in batched)
DoesAsTold(a) ==
  \A j \in DOMAIN a.rest :
    /\ InSeq(a.all, a.rest[j])
    /\ a.results[j] \in {"missing", "fail"} => told[a.rest[j]] # "ok"
    /\ a.results[j] = "raise" => \A o : InSeq(a.all, o) => told[o] # "ok"
Answering == \A i : AnswerAt(i) => OwnOrders(i) /\ DoesAsTold(ready[i])

\* What was told of an order was done, or will be.
Telling ==
  \A o \in Orders :
    /\ Pending(o) => Posted(o) \/ told[o] # "none"
    /\ told[o] = "ok" => NotRejected(o) /\ (o \in acked \/ Answered(o))
    /\ TurnedDown(o) => (WillReject(o) /\ Early(o)) \/ Doomed(o)

PostInv == LoopInv /\ Consumed /\ Sending /\ Posting /\ Answering /\ Telling

LEMMA PostTypes ==
  ASSUME LoopInv
  PROVE  /\ ready \in Seq(Callback) /\ evtq \in Seq(EngineEvent)
         /\ status \in [Orders -> OrderStatuses]
         /\ posts \subseteq Seq(Orders) /\ acked \subseteq Orders
BY DEF LoopInv, TypeOK, LoopOK, EngineOK, CommandsOK, AcksOK

\* Events that are queued behind the others.
LEMMA AppendedEvents ==
  ASSUME evtq \in Seq(EngineEvent), NEW events \in Seq(EngineEvent), evtq' = evtq \o events,
         status' = status, NEW o
  PROVE  /\ Early(o) /\ (\A k \in DOMAIN events : events[k].o = o => events[k].e \in Passing)
              => Early(o)'
         /\ NotRejected(o) /\ ~InSeq(events, Event("Rejected", o)) => NotRejected(o)'
         /\ Doomed(o) => Doomed(o)'
         /\ Early(o) /\ events = <<Event("Rejected", o)>> => Doomed(o)'
<1>1. /\ \A k \in DOMAIN evtq : k \in DOMAIN evtq' /\ evtq'[k] = evtq[k]
      /\ \A k \in DOMAIN evtq' : \/ k \in DOMAIN evtq
                                 \/ /\ k - Len(evtq) \in DOMAIN events
                                    /\ evtq'[k] = events[k - Len(evtq)]
  OBVIOUS
<1>2. ASSUME Early(o), \A k \in DOMAIN events : events[k].o = o => events[k].e \in Passing
      PROVE  Early(o)'
  BY <1>1, <1>2 DEF Early
<1>3. ASSUME NotRejected(o), ~InSeq(events, Event("Rejected", o))
      PROVE  NotRejected(o)'
  BY <1>1, <1>3 DEF NotRejected, InSeq, Event
<1>4. ASSUME Doomed(o)
      PROVE  Doomed(o)'
  <2>1. CASE status[o] = "REJECTED"
    BY <1>4, <2>1 DEF Doomed
  <2>2. CASE status[o] # "REJECTED"
    <3>1. PICK k \in DOMAIN evtq :
            /\ evtq[k] = Event("Rejected", o)
            /\ \A j \in DOMAIN evtq : j < k /\ evtq[j].o = o => evtq[j].e \in Passing
      BY <1>4, <2>2 DEF Doomed
    <3>2. \A j \in DOMAIN evtq' : j < k => j \in DOMAIN evtq
      OBVIOUS
    <3>3. k \in DOMAIN evtq' /\ evtq'[k] = Event("Rejected", o)
          /\ \A j \in DOMAIN evtq' : j < k /\ evtq'[j].o = o => evtq'[j].e \in Passing
      BY <1>1, <3>1, <3>2
    <3> QED BY <1>4, <3>3 DEF Doomed, Event
  <2> QED BY <2>1, <2>2
<1>5. ASSUME Early(o), events = <<Event("Rejected", o)>>
      PROVE  Doomed(o)'
  <2> DEFINE k == Len(evtq) + 1
  <2>1. k \in DOMAIN evtq' /\ evtq'[k] = Event("Rejected", o)
        /\ \A j \in DOMAIN evtq' : j < k => j \in DOMAIN evtq
    BY <1>5
  <2> HIDE DEF k
  <2> QED BY <1>1, <1>5, <2>1 DEF Doomed, Early, Event
<1> QED BY <1>2, <1>3, <1>4, <1>5

\* The engine at the head of the loop has an event, which it takes from the queue.
LEMMA EngineTakes ==
  ASSUME LoopInv, RunEngine
  PROVE  /\ evtq # <<>> /\ evtq[1] \in EngineEvent
         /\ \A k \in DOMAIN evtq : k = 1 \/ (k - 1 \in DOMAIN evtq' /\ evtq'[k - 1] = evtq[k])
         /\ \A k \in DOMAIN evtq' : k + 1 \in DOMAIN evtq /\ evtq'[k] = evtq[k + 1]
         /\ LET ev == evtq[1]
            IN \A o \in Orders :
                 \/ status'[o] = status[o]
                    /\ (ev.o = o => ~Legal(ev.e, status[o]) \/ ev.e = "Filled" \/ Target(ev.e) = status[o])
                 \/ ev.o = o /\ Legal(ev.e, status[o]) /\ ev.e # "Filled" /\ status'[o] = Target(ev.e)
                 \/ /\ ev.o = o /\ ev.e = "Filled" /\ Legal("Filled", status[o])
                    /\ status'[o] \in {"FILLED", "CANCELED", "PARTIALLY_FILLED"}
<1>0. /\ ready # <<>> /\ ready[1].run = "engine" /\ ready \in Seq(Callback)
      /\ evtq \in Seq(EngineEvent) /\ evtq' = Tail(evtq) /\ status \in [Orders -> OrderStatuses]
  BY PostTypes DEF RunEngine, Running
<1>1. evtq # <<>>
  BY <1>0 DEF LoopInv, EngineOnce
<1>2. Head(evtq) = evtq[1] /\ evtq[1] \in EngineEvent
  BY <1>0, <1>1
<1>3. /\ \A k \in DOMAIN evtq : k = 1 \/ (k - 1 \in DOMAIN evtq' /\ evtq'[k - 1] = evtq[k])
      /\ \A k \in DOMAIN evtq' : k + 1 \in DOMAIN evtq /\ evtq'[k] = evtq[k + 1]
  BY <1>0, <1>1
<1> DEFINE ev == evtq[1]
<1>4. ASSUME NEW o \in Orders
      PROVE  \/ status'[o] = status[o]
                /\ (ev.o = o => ~Legal(ev.e, status[o]) \/ ev.e = "Filled" \/ Target(ev.e) = status[o])
             \/ ev.o = o /\ Legal(ev.e, status[o]) /\ ev.e # "Filled" /\ status'[o] = Target(ev.e)
             \/ /\ ev.o = o /\ ev.e = "Filled" /\ Legal("Filled", status[o])
                /\ status'[o] \in {"FILLED", "CANCELED", "PARTIALLY_FILLED"}
  <2>1. CASE /\ Legal(ev.e, status[ev.o]) /\ ev.e = "Filled"
             /\ status' = [status EXCEPT ![ev.o] = FillStatus(ev.o, tradeIds[ev.o] \union {ev.t})]
    BY <1>0, <2>1 DEF FillStatus
  <2>2. CASE /\ Legal(ev.e, status[ev.o]) /\ ev.e # "Filled"
             /\ status' = [status EXCEPT ![ev.o] = Target(ev.e)]
    BY <1>0, <2>2
  <2>3. CASE /\ ~Legal(ev.e, status[ev.o]) \/ ev.e = "Filled"
             /\ status' = status
    BY <2>3
  <2> HIDE DEF ev
  <2> QED BY <1>2, <2>1, <2>2, <2>3 DEF RunEngine, engineVars, ev
<1> QED BY <1>1, <1>2, <1>3, <1>4

\* It takes a rejection before anything that outlives one.
LEMMA EngineKeeps ==
  ASSUME LoopInv, RunEngine, NEW o \in Orders
  PROVE  /\ Early(o) => Early(o)'
         /\ NotRejected(o) => NotRejected(o)'
         /\ Doomed(o) => Doomed(o)'
         /\ Pending(o)' => Pending(o)
<1> DEFINE ev == evtq[1]
<1>0. /\ evtq # <<>> /\ ev \in EngineEvent /\ evtq \in Seq(EngineEvent) /\ 1 \in DOMAIN evtq
      /\ \A k \in DOMAIN evtq : k = 1 \/ (k - 1 \in DOMAIN evtq' /\ evtq'[k - 1] = evtq[k])
      /\ \A k \in DOMAIN evtq' : k + 1 \in DOMAIN evtq /\ evtq'[k] = evtq[k + 1]
  BY EngineTakes, PostTypes
<1>1. \/ status'[o] = status[o]
         /\ (ev.o = o => ~Legal(ev.e, status[o]) \/ ev.e = "Filled" \/ Target(ev.e) = status[o])
      \/ ev.o = o /\ Legal(ev.e, status[o]) /\ ev.e # "Filled" /\ status'[o] = Target(ev.e)
      \/ /\ ev.o = o /\ ev.e = "Filled" /\ Legal("Filled", status[o])
         /\ status'[o] \in {"FILLED", "CANCELED", "PARTIALLY_FILLED"}
  BY EngineTakes
<1> HIDE DEF ev
\* A passing event keeps the status early.
<1>2. status[o] \in EarlyStatuses /\ (ev.o = o => ev.e \in Passing) => status'[o] \in EarlyStatuses
  BY <1>1 DEF EarlyStatuses, Passing, Legal, Target
<1>3. status[o] = "REJECTED" => status'[o] = "REJECTED"
  BY <1>1 DEF Legal
<1>4. ASSUME Early(o) PROVE Early(o)'
  <2>1. ev.o = o => ev.e \in Passing
    BY <1>0, <1>4 DEF Early, ev
  <2> QED BY <1>0, <1>2, <1>4, <2>1 DEF Early
<1>5. ASSUME NotRejected(o) PROVE NotRejected(o)'
  <2>1. ~(ev.o = o /\ ev.e = "Rejected")
    <3>1. ev.o = o /\ ev.e = "Rejected" => ev = Event("Rejected", o)
      BY <1>0 DEF EngineEvent, Event
    <3> QED BY <1>0, <1>5, <3>1 DEF NotRejected, InSeq, ev
  <2>2. status'[o] # "REJECTED"
    BY <1>0, <1>1, <1>5, <2>1 DEF NotRejected, Target, EngineEvent, EventTypes
  <2> QED BY <1>0, <1>5, <2>2 DEF NotRejected, InSeq, Event
<1>6. ASSUME Doomed(o) PROVE Doomed(o)'
  <2>1. CASE status[o] = "REJECTED"
    BY <1>3, <2>1 DEF Doomed, EarlyStatuses
  <2>2. CASE status[o] # "REJECTED"
    <3>1. PICK k \in DOMAIN evtq :
            /\ evtq[k] = Event("Rejected", o)
            /\ \A j \in DOMAIN evtq : j < k /\ evtq[j].o = o => evtq[j].e \in Passing
      BY <1>6, <2>2 DEF Doomed
    <3>2. CASE k = 1
      <4>1. ev.e = "Rejected" /\ ev.o = o
        BY <3>1, <3>2 DEF Event, ev
      <4>2. status'[o] = "REJECTED"
        BY <1>1, <1>6, <2>2, <4>1 DEF Legal, Target, Doomed, EarlyStatuses
      <4> QED BY <4>2 DEF Doomed, EarlyStatuses
    <3>3. CASE k # 1
      <4>1. 1 < k
        BY <1>0, <3>3
      <4>2. ev.o = o => ev.e \in Passing
        BY <1>0, <3>1, <4>1 DEF ev
      <4>3. k - 1 \in DOMAIN evtq' /\ evtq'[k - 1] = Event("Rejected", o)
        BY <1>0, <3>1, <3>3
      <4>4. ASSUME NEW j \in DOMAIN evtq', j < k - 1, evtq'[j].o = o
            PROVE  evtq'[j].e \in Passing
        <5>1. j + 1 \in DOMAIN evtq /\ evtq'[j] = evtq[j + 1]
          BY <1>0
        <5>2. j + 1 \in Nat /\ k \in Nat
          BY <1>0, <5>1
        <5>3. j \in Int
          <6>1. DOMAIN evtq' \subseteq Int
            BY PostTypes, <1>0 DEF RunEngine
          <6> QED BY <6>1
        <5>4. j + 1 < k
          BY <4>4, <5>2, <5>3
        <5> QED BY <3>1, <4>4, <5>1, <5>4
      <4> QED BY <1>2, <1>6, <4>2, <4>3, <4>4 DEF Doomed, Event
    <3> QED BY <3>2, <3>3
  <2> QED BY <2>1, <2>2
<1>7. ASSUME Pending(o)' PROVE Pending(o)
  <2>1. InSeq(evtq', Event("Submitted", o)) => InSeq(evtq, Event("Submitted", o))
    BY <1>0 DEF InSeq
  <2>2. ASSUME status'[o] = "SUBMITTED", status[o] # "SUBMITTED"
        PROVE  InSeq(evtq, Event("Submitted", o))
    <3>1. ev.o = o /\ ev.e = "Submitted"
      BY <1>0, <1>1, <2>2 DEF Target, EngineEvent, EventTypes
    <3>2. ev = Event("Submitted", o)
      BY <1>0, <3>1 DEF EngineEvent, Event
    <3> QED BY <1>0, <3>2 DEF InSeq, ev
  <2>3. status'[o] = "SUBMITTED" \/ InSeq(evtq', Event("Submitted", o))
    BY <1>7 DEF Pending, Event
  <2> QED BY <2>1, <2>2, <2>3 DEF Pending
<1> QED BY <1>4, <1>5, <1>6, <1>7

\* q is the loop's queue, perhaps without a callback at its head that is no answer and no
\* consumer, and perhaps with others behind it.
Goes(q) ==
  /\ q \in Seq(Callback)
  /\ \E d \in {0, 1} :
       /\ d = 1 => ready # <<>> /\ ready[1].run \notin {"answer", "engine"}
       /\ \A i \in DOMAIN ready : i > d => i - d \in DOMAIN q /\ q[i - d] = ready[i]
       /\ \A i \in DOMAIN q : q[i].run = "answer" => i + d \in DOMAIN ready /\ ready[i + d] = q[i]

LEMMA LoopGoesOn ==
  ASSUME ready \in Seq(Callback)
  PROVE  /\ Goes(ready)
         /\ ready # <<>> /\ Head(ready).run \notin {"answer", "engine"} => Goes(Tail(ready))
         /\ \A q, u \in Seq(Callback) :
              Goes(q) /\ (\A i \in DOMAIN u : u[i].run # "answer") => Goes(q \o u)
<1>1. Goes(ready)
  <2>1. /\ \A i \in DOMAIN ready : i > 0 => i - 0 \in DOMAIN ready /\ ready[i - 0] = ready[i]
        /\ \A i \in DOMAIN ready : i + 0 \in DOMAIN ready /\ ready[i + 0] = ready[i]
    OBVIOUS
  <2> QED BY <2>1 DEF Goes
<1>2. ASSUME ready # <<>>, Head(ready).run \notin {"answer", "engine"}
      PROVE  Goes(Tail(ready))
  <2>1. /\ Tail(ready) \in Seq(Callback) /\ ready[1] = Head(ready)
        /\ \A i \in DOMAIN ready : i > 1 => i - 1 \in DOMAIN Tail(ready) /\ Tail(ready)[i - 1] = ready[i]
        /\ \A i \in DOMAIN Tail(ready) : i + 1 \in DOMAIN ready /\ ready[i + 1] = Tail(ready)[i]
    BY <1>2
  <2> QED BY <1>2, <2>1 DEF Goes
<1>3. ASSUME NEW q \in Seq(Callback), NEW u \in Seq(Callback), Goes(q),
             \A i \in DOMAIN u : u[i].run # "answer"
      PROVE  Goes(q \o u)
  <2>1. PICK d \in {0, 1} :
          /\ d = 1 => ready # <<>> /\ ready[1].run \notin {"answer", "engine"}
          /\ \A i \in DOMAIN ready : i > d => i - d \in DOMAIN q /\ q[i - d] = ready[i]
          /\ \A i \in DOMAIN q : q[i].run = "answer" => i + d \in DOMAIN ready /\ ready[i + d] = q[i]
    BY <1>3 DEF Goes
  <2>2. /\ q \o u \in Seq(Callback)
        /\ \A i \in DOMAIN q : i \in DOMAIN (q \o u) /\ (q \o u)[i] = q[i]
        /\ \A i \in DOMAIN (q \o u) : \/ i \in DOMAIN q
                                      \/ i - Len(q) \in DOMAIN u /\ (q \o u)[i] = u[i - Len(q)]
    OBVIOUS
  <2>3. \A i \in DOMAIN ready : i > d => i - d \in DOMAIN (q \o u) /\ (q \o u)[i - d] = ready[i]
    BY <2>1, <2>2
  <2>4. \A i \in DOMAIN (q \o u) : (q \o u)[i].run = "answer" =>
          i + d \in DOMAIN ready /\ ready[i + d] = (q \o u)[i]
    BY <1>3, <2>1, <2>2
  <2> QED BY <2>1, <2>2, <2>3, <2>4 DEF Goes
<1> QED BY <1>1, <1>2, <1>3

\* Events that a step hands the engine go into such a queue, with the consumer behind it.
Hands(events) ==
  /\ events \in Seq(EngineEvent)
  /\ evtq' = evtq \o events /\ status' = status
  /\ Goes(ready')
  /\ evtq = <<>> /\ events # <<>> => \E i \in DOMAIN ready' : ready'[i].run = "engine"

LEMMA HandsGenerated ==
  ASSUME LoopInv, UNCHANGED status, NEW queue, Goes(queue),
         NEW events \in Seq(EngineEvent), Generate(queue, events)
  PROVE  Hands(events)
<1> DEFINE e == [run |-> "engine"]
<1>0. queue \in Seq(Callback) /\ ready \in Seq(Callback) /\ evtq' = evtq \o events
  BY PostTypes DEF Goes, Generate
<1>1. CASE evtq = <<>> /\ events # <<>>
  <2>1. e \in Callback /\ <<e>> \in Seq(Callback) /\ \A i \in DOMAIN <<e>> : <<e>>[i].run # "answer"
    BY DEF Callback
  <2>2. ready' = queue \o <<e>>
    BY <1>0, <1>1 DEF Generate
  <2>3. Goes(ready')
    BY <1>0, <2>1, <2>2, LoopGoesOn
  <2>4. Len(queue) + 1 \in DOMAIN ready' /\ ready'[Len(queue) + 1] = e
    BY <1>0, <2>2
  <2> QED BY <1>0, <2>3, <2>4 DEF Hands
<1>2. CASE ~(evtq = <<>> /\ events # <<>>)
  BY <1>0, <1>2 DEF Hands, Generate
<1> QED BY <1>1, <1>2

\* A step that generates nothing.
LEMMA HandsNothing ==
  ASSUME LoopInv, UNCHANGED <<evtq, status>>, Goes(ready')
  PROVE  Hands(<<>>)
<1>1. evtq \o <<>> = evtq
  BY PostTypes
<1> QED BY <1>1 DEF Hands

\* The steps that neither submit nor answer nor run the engine generate at most the refusal
\* of a cancel, or, from another callback than an answer, what befalls a known order.
Befalls(events) ==
  \A k \in DOMAIN events :
    \/ events[k].e = "CancelRejected" /\ events[k].o \in cancelling
    \/ /\ events[k].e \in {"Accepted", "Canceled", "Filled"} /\ events[k].o \in acked
       /\ ready # <<>> /\ ready[1].run # "answer"
Elsewhere ==
  /\ UNCHANGED <<sent, posts, batched, told, acked>>
  /\ \/ cancelling' \subseteq cancelling
     \/ \E o \in Orders : status[o] # "INITIALIZED" /\ cancelling' = cancelling \union {o}
  /\ \E events : Hands(events) /\ Befalls(events)

LEMMA HandleElsewhere ==
  ASSUME LoopInv, NEW task \in Task, ready # <<>>, Head(ready).run \notin {"answer", "engine"},
         task.o \in acked, Handle(task, Tail(ready)), UNCHANGED status
  PROVE  \E events : Hands(events) /\ Befalls(events)
<1>0. Goes(Tail(ready)) /\ ready[1].run # "answer" /\ task.o \in Orders
  <2>1. ready[1] = Head(ready)
    BY PostTypes
  <2>2. task.o \in Orders
    BY DEF Task, OrderTask, TradeTask
  <2> QED BY <2>1, <2>2, PostTypes, LoopGoesOn
<1>1. \A events : Generate(Tail(ready), events) /\ events \in Seq(EngineEvent) => Hands(events)
  BY <1>0, HandsGenerated
<1>2. Befalls(<<>>)
  BY DEF Befalls
<1>3. CASE task.kind = "order"
  <2> DEFINE e == IF task.typ = "PLACEMENT" THEN "Accepted" ELSE "Canceled"
  <2>1. e \in {"Accepted", "Canceled"} /\ e \in EventTypes
    BY DEF EventTypes
  <2>2. Generate(Tail(ready), <<>>) \/ Generate(Tail(ready), <<Event(e, task.o)>>)
    BY <1>3 DEF Handle, OrderUpdate
  <2> HIDE DEF e
  <2>3. <<Event(e, task.o)>> \in Seq(EngineEvent) /\ <<>> \in Seq(EngineEvent)
    BY <1>0, <2>1, EventType
  <2>4. Befalls(<<Event(e, task.o)>>)
    BY <1>0, <2>1 DEF Befalls, Event
  <2> QED BY <1>1, <1>2, <2>2, <2>3, <2>4
<1>4. CASE task.kind # "order"
  <2> DEFINE ev == [e |-> "Filled", o |-> task.o, t |-> task.t]
  <2>1. task.t \in Trades
    BY <1>4 DEF Task, OrderTask, TradeTask
  <2>2. (ready' = Tail(ready) /\ evtq' = evtq) \/ Generate(Tail(ready), <<ev>>)
    BY <1>4 DEF Handle, TradeFill
  <2>3. <<ev>> \in Seq(EngineEvent)
    BY <1>0, <2>1 DEF EngineEvent
  <2>4. Befalls(<<ev>>)
    BY <1>0 DEF Befalls
  <2> HIDE DEF ev
  <2>5. ready' = Tail(ready) /\ evtq' = evtq => Hands(<<>>)
    BY <1>0, HandsNothing
  <2> QED BY <1>1, <1>2, <2>2, <2>3, <2>4, <2>5
<1> QED BY <1>3, <1>4

\* A task of an order that is not known is reported, and generates nothing.
LEMMA HandleUnknown ==
  ASSUME LoopInv, NEW task \in Task, ready # <<>>, Head(ready).run \notin {"answer", "engine"},
         task.o \notin acked, Handle(task, Tail(ready)), UNCHANGED status
  PROVE  \E events : Hands(events) /\ Befalls(events)
<1>0. Goes(Tail(ready))
  BY PostTypes, LoopGoesOn
<1>1. Generate(Tail(ready), <<>>) \/ (ready' = Tail(ready) /\ evtq' = evtq)
  BY DEF Handle, OrderUpdate, TradeFill
<1>2. <<>> \in Seq(EngineEvent) /\ Befalls(<<>>)
  BY DEF Befalls
<1>3. Hands(<<>>)
  BY <1>0, <1>1, <1>2, HandsGenerated, HandsNothing
<1> QED BY <1>2, <1>3

LEMMA MessageElsewhere ==
  ASSUME LoopInv, RunMessage
  PROVE  Elsewhere
<1> DEFINE m == Head(ready).msg
           l == FilledOrders[m.t]
           started(n) == [run |-> "start", task |-> [kind |-> "trade", o |-> l[n], t |-> m.t, s |-> m.s]]
           starts == [n \in DOMAIN l |-> started(n)]
<1>0. /\ ready # <<>> /\ Head(ready).run = "ws" /\ m \in Message
      /\ UNCHANGED <<commandVars, acked, status, evtq>> /\ ready \in Seq(Callback)
      /\ ready' \in Seq(Callback)
  BY HeadMessage, LoopRunMessage, PostTypes
     DEF RunMessage, Running, engineVars, ackVars, LoopInv, TypeOK, LoopOK
<1>1. Goes(Tail(ready)) /\ Tail(ready) \in Seq(Callback)
  BY <1>0, LoopGoesOn
<1>2. ASSUME NEW u, u \in Seq(Callback), ready' = Tail(ready) \o u, \A i \in DOMAIN u : u[i].run = "start"
      PROVE  Goes(ready')
  BY <1>0, <1>1, <1>2, LoopGoesOn
<1>3. CASE ready' = Tail(ready)
  BY <1>0, <1>1, <1>3, HandsNothing DEF Elsewhere, Befalls, commandVars
<1>4. CASE m.kind = "order" /\ ready' = Append(Tail(ready), [run |-> "start", task |-> m])
  <2> DEFINE c == [run |-> "start", task |-> m]
  <2>1. c \in Callback
    BY <1>0, <1>4 DEF Message, Callback, Task, OrderTask
  <2>2. <<c>> \in Seq(Callback) /\ (\A i \in DOMAIN <<c>> : <<c>>[i].run = "start")
    BY <2>1
  <2>3. ready' = Tail(ready) \o <<c>>
    BY <1>1, <1>4, <2>1
  <2> HIDE DEF c
  <2>4. Goes(ready')
    BY <1>2, <2>2, <2>3
  <2> QED BY <1>0, <2>4, HandsNothing DEF Elsewhere, Befalls, commandVars
<1>5. CASE m.kind = "trade" /\ ready' = Tail(ready) \o starts
  <2>1. l \in Seq(Orders)
    BY <1>0, <1>5, ConstantsAssumption DEF Message, OrderTask
  <2>2. DOMAIN starts = DOMAIN l /\ \A n \in DOMAIN l : starts[n].run = "start"
    OBVIOUS
  <2>3. starts \in Seq({started(n) : n \in DOMAIN l})
    BY <2>1
  <2> HIDE DEF starts, started
  <2>4. \A n \in DOMAIN starts : starts[n] \in Callback
    <3>1. \A n \in DOMAIN starts : Len(Tail(ready)) + n \in DOMAIN ready' /\ ready'[Len(Tail(ready)) + n] = starts[n]
      BY <1>1, <1>5, <2>3
    <3>2. \A j \in DOMAIN ready' : ready'[j] \in Callback
      BY <1>0
    <3> QED BY <3>1, <3>2
  <2>5. starts \in Seq(Callback)
    BY <2>3, <2>4
  <2>6. Goes(ready')
    BY <1>2, <1>5, <2>2, <2>5
  <2> QED BY <1>0, <2>6, HandsNothing DEF Elsewhere, Befalls, commandVars
<1> QED BY <1>3, <1>4, <1>5 DEF RunMessage, TradeMessage

LEMMA PostKinds ==
  ASSUME LoopInv, [Next]_vars
  PROVE  \/ Elsewhere \/ RunAnswer \/ RunEngine
         \/ \E o \in Orders : SubmitOrder(o)
         \/ \E l \in OrderLists : SubmitOrderList(l)
         \/ \E p \in posts : Respond(p)
<1>0. ready \in Seq(Callback) /\ ready' \in Seq(Callback) /\ status \in [Orders -> OrderStatuses]
  BY LoopStep, PostTypes DEF LoopInv, TypeOK, LoopOK
<1>1. Befalls(<<>>) /\ Goes(ready)
  BY <1>0, LoopGoesOn DEF Befalls
<1>2. CASE \E o \in Orders : CancelOrder(o) \/ FireAndForgetCancel(o) \/ VenueAccepts(o)
  <2>1. ready' = ready /\ UNCHANGED <<evtq, status, sent, posts, batched, told, acked>>
    BY <1>2 DEF CancelOrder, FireAndForgetCancel, VenueAccepts, commandVars, ackVars, engineVars
  <2>2. \/ cancelling' = cancelling
        \/ \E o \in Orders : status[o] # "INITIALIZED" /\ cancelling' = cancelling \union {o}
    BY <1>2 DEF CancelOrder, FireAndForgetCancel, VenueAccepts, commandVars
  <2> QED BY <1>1, <2>1, <2>2, HandsNothing DEF Elsewhere
<1>3. ASSUME NEW o \in Orders, CancelAnswered(o)
      PROVE  Elsewhere
  <2>1. /\ UNCHANGED <<sent, posts, batched, told, acked, status>> /\ cancelling' = cancelling \ {o}
        /\ o \in cancelling
    BY <1>3 DEF CancelAnswered, ackVars, engineVars
  <2>2. CASE UNCHANGED <<ready, evtq>>
    BY <1>1, <2>1, <2>2, HandsNothing DEF Elsewhere
  <2>3. CASE Generate(ready, <<Event("CancelRejected", o)>>)
    <3>1. <<Event("CancelRejected", o)>> \in Seq(EngineEvent)
      BY EventType DEF EventTypes
    <3>2. Hands(<<Event("CancelRejected", o)>>)
      BY <1>1, <2>1, <2>3, <3>1, HandsGenerated
    <3>3. Befalls(<<Event("CancelRejected", o)>>)
      BY <2>1 DEF Befalls, Event
    <3> QED BY <2>1, <3>2, <3>3 DEF Elsewhere
  <2> QED BY <1>3, <2>2, <2>3 DEF CancelAnswered
<1>4. CASE (\E t \in Trades : VenueMatches(t) \/ VenueSettles(t) \/ VenueResends(t)) \/ UNCHANGED vars
  <2>1. ready' = ready /\ UNCHANGED <<evtq, status, sent, posts, batched, told, acked, cancelling>>
    BY <1>4 DEF VenueMatches, VenueSettles, VenueResends, commandVars, ackVars, engineVars, vars
  <2> QED BY <1>1, <2>1, HandsNothing DEF Elsewhere
<1>5. CASE Deliver \/ AckTimeout
  <2>1. UNCHANGED <<evtq, status, sent, posts, batched, told, acked, cancelling>>
    BY <1>5 DEF Deliver, AckTimeout, commandVars, ackVars, engineVars
  <2>2. PICK c : ready' = Append(ready, c) /\ c.run # "answer"
    BY <1>5 DEF Deliver, AckTimeout
  <2>3. c \in Callback
    <3>1. Len(ready) + 1 \in DOMAIN ready' /\ ready'[Len(ready) + 1] = c
      BY <1>0, <2>2
    <3> QED BY <1>0, <3>1
  <2>4. <<c>> \in Seq(Callback) /\ (\A i \in DOMAIN <<c>> : <<c>>[i].run # "answer") /\ ready' = ready \o <<c>>
    BY <1>0, <2>2, <2>3
  <2>5. Goes(ready')
    BY <1>0, <1>1, <2>4, LoopGoesOn
  <2> QED BY <1>1, <2>1, <2>5, HandsNothing DEF Elsewhere
<1>6. CASE RunStart \/ RunResume
  <2> DEFINE task == Head(ready).task
  <2>0. /\ ready # <<>> /\ Head(ready).run \notin {"answer", "engine"} /\ task \in Task
        /\ UNCHANGED <<commandVars, acked, status>>
    BY <1>6, HeadTask DEF RunStart, RunResume, Running, engineVars
  <2>1. Handle(task, Tail(ready)) \/ (ready' = Tail(ready) /\ evtq' = evtq)
    BY <1>6 DEF RunStart, RunResume
  <2>2. Goes(Tail(ready))
    BY <1>0, <2>0, LoopGoesOn
  <2>3. \E events : Hands(events) /\ Befalls(events)
    BY <1>1, <2>0, <2>1, <2>2, HandleElsewhere, HandleUnknown, HandsNothing
  <2> QED BY <2>0, <2>3 DEF Elsewhere, commandVars
<1> QED BY <1>2, <1>3, <1>4, <1>5, <1>6, MessageElsewhere DEF Next, Run

\* A submission: what the orders of S, not sent before, are told, and the posts it adds.
Submits(S, new, events) ==
  /\ S \subseteq Orders \ sent /\ sent' = sent \union S
  /\ UNCHANGED <<told, acked, cancelling>>
  /\ batched' \in {batched, batched \union S}
  /\ posts' = posts \union new
  /\ Hands(events)
  /\ \A k \in DOMAIN events : events[k].o \in S
  /\ \A o \in Orders : InSeq(events, Event("Submitted", o)) => \E p \in new : InSeq(p, o)
  /\ \A p, q \in new : p = q
  /\ \A p \in new : /\ \A i \in DOMAIN p : p[i] \in S
                    /\ \A i, j \in DOMAIN p : p[i] = p[j] => i = j
                    /\ \A k \in DOMAIN events : InSeq(p, events[k].o) => events[k].e = "Submitted"

LEMMA SubmitsOrder ==
  ASSUME LoopInv, NEW o \in Orders, SubmitOrder(o)
  PROVE  \E S, new, events : Submits(S, new, events)
<1>0. /\ o \notin sent /\ sent' = sent \union {o} /\ Goes(ready)
      /\ UNCHANGED <<told, acked, cancelling, batched, status>> /\ evtq \in Seq(EngineEvent)
  BY PostTypes, LoopGoesOn DEF SubmitOrder, ackVars, engineVars
<1>1. CASE Generate(ready, <<Event("Denied", o)>>) /\ posts' = posts
  <2>1. <<Event("Denied", o)>> \in Seq(EngineEvent)
    BY EventType DEF EventTypes
  <2>2. Hands(<<Event("Denied", o)>>)
    BY <1>0, <1>1, <2>1, HandsGenerated
  <2>3. Submits({o}, {}, <<Event("Denied", o)>>)
    BY <1>0, <1>1, <2>2 DEF Submits, InSeq, Event
  <2> QED BY <2>3
<1>2. CASE UNCHANGED <<posts, ready, evtq>>
  <2>1. Hands(<<>>)
    BY <1>0, <1>2, HandsNothing
  <2>2. Submits({o}, {}, <<>>)
    BY <1>0, <1>2, <2>1 DEF Submits, InSeq
  <2> QED BY <2>2
<1>3. CASE Generate(ready, <<Event("Submitted", o)>>) /\ posts' = posts \union {<<o>>}
  <2>1. <<Event("Submitted", o)>> \in Seq(EngineEvent)
    BY EventType DEF EventTypes
  <2>2. Hands(<<Event("Submitted", o)>>)
    BY <1>0, <1>3, <2>1, HandsGenerated
  <2>3. InSeq(<<o>>, o) /\ \A x : InSeq(<<Event("Submitted", o)>>, Event("Submitted", x)) => x = o
    BY DEF InSeq, Event
  <2>4. Submits({o}, {<<o>>}, <<Event("Submitted", o)>>)
    BY <1>0, <1>3, <2>2, <2>3 DEF Submits, Event
  <2> QED BY <2>4
<1> QED BY <1>1, <1>2, <1>3 DEF SubmitOrder

\* The orders of a list behind the first k.
LEMMA RestOf ==
  ASSUME NEW l \in Seq(Orders), NEW k \in 0..Len(l)
  PROVE  /\ SubSeq(l, k + 1, Len(l)) \in Seq(Orders)
         /\ Len(SubSeq(l, k + 1, Len(l))) = Len(l) - k
         /\ \A i \in 1..(Len(l) - k) : SubSeq(l, k + 1, Len(l))[i] = l[k + i]
<1>1. /\ SubSeq(l, k + 1, Len(l)) \in Seq(Orders)
      /\ Len(SubSeq(l, k + 1, Len(l))) = Len(l) - k
  OBVIOUS
<1>2. \A i \in 1..(Len(l) - k) : SubSeq(l, k + 1, Len(l))[i] = l[k + i]
  OBVIOUS
<1> QED BY <1>1, <1>2

LEMMA SubmitsList ==
  ASSUME LoopInv, NEW l \in OrderLists, SubmitOrderList(l)
  PROVE  \E S, new, events : Submits(S, new, events)
<1>0. /\ l \in Seq(Orders) /\ \A i, j \in DOMAIN l : l[i] = l[j] => i = j
      /\ UNCHANGED <<told, acked, cancelling, status>> /\ Goes(ready)
      /\ \A i \in DOMAIN l : l[i] \notin sent
  BY ConstantsAssumption, PostTypes, LoopGoesOn DEF SubmitOrderList, ackVars, engineVars
<1>1. PICK m \in 0..Len(l), n \in 0..Len(l) :
        /\ m + n <= Len(l)
        /\ Generate(ready, [i \in 1..Len(l) |->
                              Event(IF i <= m THEN "Denied"
                                    ELSE IF i <= m + n THEN "Rejected" ELSE "Submitted", l[i])])
        /\ posts' = IF m + n = Len(l) THEN posts
                    ELSE posts \union {SubSeq(l, m + n + 1, Len(l))}
  BY DEF SubmitOrderList
<1> DEFINE e(i) == IF i <= m THEN "Denied" ELSE IF i <= m + n THEN "Rejected" ELSE "Submitted"
           events == [i \in 1..Len(l) |-> Event(e(i), l[i])]
           S == {l[i] : i \in DOMAIN l}
           p == SubSeq(l, m + n + 1, Len(l))
           new == IF m + n = Len(l) THEN {} ELSE {p}
<1>2. \A i \in 1..Len(l) : Event(e(i), l[i]) \in EngineEvent
  BY <1>0 DEF Event, EngineEvent, EventTypes
<1>3. events \in Seq(EngineEvent) /\ Generate(ready, events)
  BY <1>0, <1>1, <1>2
<1>4. Hands(events)
  BY <1>0, <1>3, HandsGenerated
<1>5. DOMAIN events = DOMAIN l /\ \A k \in DOMAIN events : events[k].o = l[k] /\ events[k].e = e(k)
  BY <1>0 DEF Event
<1>6. /\ p \in Seq(Orders) /\ DOMAIN p = 1..(Len(l) - (m + n))
      /\ \A i \in DOMAIN p : m + n + i \in DOMAIN l /\ p[i] = l[m + n + i]
      /\ \A k \in DOMAIN l : m + n < k => k - (m + n) \in DOMAIN p /\ p[k - (m + n)] = l[k]
  <2>1. p \in Seq(Orders) /\ Len(p) = Len(l) - (m + n) /\ \A i \in 1..(Len(l) - (m + n)) : p[i] = l[m + n + i]
    <3>1. m + n \in 0..Len(l)
      BY <1>0, <1>1
    <3> QED BY <1>0, <3>1, RestOf
  <2>2. DOMAIN p = 1..(Len(l) - (m + n)) /\ DOMAIN l = 1..Len(l) /\ Len(l) \in Nat /\ m + n \in Nat
    BY <1>0, <1>1, <2>1
  <2> HIDE DEF p
  <2>3. \A i \in DOMAIN p : m + n + i \in DOMAIN l
    BY <2>2
  <2>4. \A k \in DOMAIN l : m + n < k => k - (m + n) \in DOMAIN p /\ m + n + (k - (m + n)) = k
    BY <2>2
  <2> QED BY <2>1, <2>2, <2>3, <2>4
<1>7. ASSUME NEW o \in Orders, InSeq(events, Event("Submitted", o))
      PROVE  \E q \in new : InSeq(q, o)
  <2>1. PICK k \in DOMAIN l : l[k] = o /\ e(k) = "Submitted"
    BY <1>5, <1>7 DEF InSeq, Event
  <2>2. m + n < k /\ m + n # Len(l)
    BY <1>0, <1>1, <2>1
  <2> QED BY <1>6, <2>1, <2>2 DEF InSeq
<1>8. ASSUME NEW k \in DOMAIN events, InSeq(p, events[k].o)
      PROVE  events[k].e = "Submitted"
  <2>1. PICK i \in DOMAIN p : p[i] = l[k]
    BY <1>5, <1>8 DEF InSeq
  <2>2. k = m + n + i
    BY <1>0, <1>5, <1>6, <2>1
  <2>3. ~(k <= m) /\ ~(k <= m + n)
    BY <1>1, <1>6, <2>2
  <2> QED BY <1>5, <2>3
<1>9. \A i, j \in DOMAIN p : p[i] = p[j] => i = j
  BY <1>0, <1>1, <1>6
<1>10. \A i \in DOMAIN p : p[i] \in S
  BY <1>6
<1>11. posts' = posts \union new
  BY <1>1
<1>12. /\ S \subseteq Orders \ sent /\ sent' = sent \union S /\ batched' = batched \union S
  BY <1>0 DEF SubmitOrderList
<1>13. /\ \A q, r \in new : q = r
       /\ \A q \in new : q = p
  OBVIOUS
<1>14. \A k \in DOMAIN events : events[k].o \in S
  BY <1>5
<1> HIDE DEF events, S, p, new, e
<1>15. Submits(S, new, events)
  BY <1>0, <1>4, <1>7, <1>8, <1>9, <1>10, <1>11, <1>12, <1>13, <1>14 DEF Submits
<1> QED BY <1>15

LEMMA HandsSubmitted ==
  ASSUME LoopInv, \/ \E o \in Orders : SubmitOrder(o)
                  \/ \E l \in OrderLists : SubmitOrderList(l)
  PROVE  \E events : Hands(events)
<1>1. \E S, new, events : Submits(S, new, events)
  BY SubmitsOrder, SubmitsList
<1> QED BY <1>1 DEF Submits

LEMMA ConsumedStep == LoopInv /\ Consumed /\ [Next]_vars => Consumed'
<1> SUFFICES ASSUME LoopInv, Consumed, [Next]_vars, evtq' # <<>>
             PROVE  \E i \in DOMAIN ready' : ready'[i].run = "engine"
  BY DEF Consumed
<1>0. ready \in Seq(Callback) /\ evtq \in Seq(EngineEvent)
  BY PostTypes
<1>1. ASSUME NEW events, Hands(events)
      PROVE  \E i \in DOMAIN ready' : ready'[i].run = "engine"
  <2>1. CASE evtq = <<>>
    <3>1. events # <<>>
      BY <1>0, <1>1, <2>1 DEF Hands
    <3> QED BY <1>1, <2>1, <3>1 DEF Hands
  <2>2. CASE evtq # <<>>
    <3>1. PICK i \in DOMAIN ready : ready[i].run = "engine"
      BY <2>2 DEF Consumed
    <3>2. PICK d \in {0, 1} :
            /\ d = 1 => ready # <<>> /\ ready[1].run \notin {"answer", "engine"}
            /\ \A j \in DOMAIN ready : j > d => j - d \in DOMAIN ready' /\ ready'[j - d] = ready[j]
      BY <1>1 DEF Hands, Goes
    <3>3. i > d
      BY <1>0, <3>1, <3>2
    <3> QED BY <3>1, <3>2, <3>3
  <2> QED BY <2>1, <2>2
<1>2. CASE Elsewhere
  BY <1>1, <1>2 DEF Elsewhere
<1>3. CASE (\E o \in Orders : SubmitOrder(o)) \/ (\E l \in OrderLists : SubmitOrderList(l))
  BY <1>1, <1>3, HandsSubmitted
<1>4. CASE \E p \in posts : Respond(p)
  <2>1. PICK c : ready' = Append(ready, c) /\ evtq' = evtq
    BY <1>4 DEF Respond
  <2>2. PICK i \in DOMAIN ready : ready[i].run = "engine"
    BY <2>1 DEF Consumed
  <2>3. i \in DOMAIN ready' /\ ready'[i] = ready[i]
    BY <1>0, <2>1
  <2> QED BY <2>2, <2>3
<1>5. CASE RunAnswer
  <2> DEFINE a == Head(ready)
  <2>0. ready # <<>> /\ a.run = "answer" /\ a = ready[1]
    BY <1>0, <1>5 DEF RunAnswer, Running
  <2>1. /\ NextResult(a).run = "answer" /\ RejectAll(a).run = "answer"
        /\ a.rest # <<>> => NextResult(a) \in Callback
    BY <2>0, AnswerHead
  <2>2. ASSUME NEW b \in Callback
        PROVE  /\ <<b>> \o Tail(ready) \in Seq(Callback)
               /\ \A i \in DOMAIN ready : i # 1 => i \in DOMAIN (<<b>> \o Tail(ready))
                                                   /\ (<<b>> \o Tail(ready))[i] = ready[i]
    BY <1>0, <2>0
  <2>3. ASSUME evtq' = evtq,
               \A i \in DOMAIN ready : i # 1 => \E j \in DOMAIN ready' : ready'[j] = ready[i]
        PROVE  \E i \in DOMAIN ready' : ready'[i].run = "engine"
    <3>1. PICK i \in DOMAIN ready : ready[i].run = "engine"
      BY <2>3 DEF Consumed
    <3>2. i # 1
      BY <2>0, <3>1
    <3> QED BY <2>3, <3>1, <3>2
  <2>4. CASE evtq' = evtq /\ ready' = Tail(ready)
    <3>1. \A i \in DOMAIN ready : i # 1 => i - 1 \in DOMAIN ready' /\ ready'[i - 1] = ready[i]
      BY <1>0, <2>0, <2>4
    <3> QED BY <2>3, <2>4, <3>1
  <2>5. CASE /\ a.rest # <<>> /\ Generate(<<NextResult(a)>> \o Tail(ready), <<Event("Rejected", Head(a.rest))>>)
    <3> DEFINE q == <<NextResult(a)>> \o Tail(ready)
    <3>1. q \in Seq(Callback) /\ \A i \in DOMAIN ready : i # 1 => i \in DOMAIN q /\ q[i] = ready[i]
      BY <2>1, <2>2, <2>5
    <3>2. CASE evtq = <<>>
      <4>1. ready' = Append(q, [run |-> "engine"])
        BY <2>5, <3>2 DEF Generate
      <4> HIDE DEF q
      <4>2. Len(q) + 1 \in DOMAIN ready' /\ ready'[Len(q) + 1].run = "engine"
        BY <3>1, <4>1
      <4> QED BY <4>2
    <3>3. CASE evtq # <<>>
      <4>1. PICK i \in DOMAIN ready : ready[i].run = "engine"
        BY <3>3 DEF Consumed
      <4>2. ready' = q /\ i # 1
        BY <2>0, <2>5, <3>3, <4>1 DEF Generate
      <4> QED BY <3>1, <4>1, <4>2
    <3> QED BY <3>2, <3>3
  <2>6. CASE evtq' = evtq /\ ready' = ready
    BY <2>3, <2>6
  <2>7. CASE evtq' = evtq /\ \E c : ready' = Append(ready, c)
    <3>1. \A i \in DOMAIN ready : i \in DOMAIN ready' /\ ready'[i] = ready[i]
      BY <1>0, <2>7
    <3> QED BY <2>3, <2>7, <3>1
  <2>8. CASE evtq' = evtq /\ \E b : ready' = <<b>> \o Tail(ready)
    <3>1. \A i \in DOMAIN ready : i # 1 => i \in DOMAIN ready' /\ ready'[i] = ready[i]
      BY <1>0, <2>0, <2>8
    <3> QED BY <2>3, <2>8, <3>1
  <2> QED BY <1>5, <2>4, <2>5, <2>6, <2>7, <2>8 DEF RunAnswer, Wake, ackVars
<1>6. CASE RunEngine
  <2>1. ready' = ready /\ ready # <<>> /\ ready[1].run = "engine"
    BY <1>0, <1>6 DEF RunEngine, Running
  <2> QED BY <1>0, <2>1
<1> QED BY <1>2, <1>3, <1>4, <1>5, <1>6, PostKinds

\* The answers of this queue are those of the loop, perhaps without one that is used up at
\* its head.
Moves(q) ==
  /\ q \in Seq(Callback)
  /\ \E d \in {0, 1} :
       /\ d = 1 => ready # <<>> /\ (ready[1].run = "answer" => ready[1].rest = <<>>)
       /\ \A i \in DOMAIN ready : i > d /\ ready[i].run = "answer" =>
                                  i - d \in DOMAIN q /\ q[i - d] = ready[i]
       /\ \A i \in DOMAIN q : q[i].run = "answer" => i + d \in DOMAIN ready /\ ready[i + d] = q[i]

LEMMA GoesMoves == ASSUME NEW q, Goes(q) PROVE Moves(q)
BY DEF Goes, Moves

\* A step that leaves the answers of the loop leaves what they do.
LEMMA AnswersKept ==
  ASSUME ready \in Seq(Callback), Answering, Moves(ready'), told' = told, acked' = acked,
         sent \subseteq sent', \A o \in sent : o \in batched' <=> o \in batched
  PROVE  /\ Answering'
         /\ \A o : Answered(o) => Answered(o)'
         /\ \A o \in sent : WillReject(o) => WillReject(o)'
<1>1. PICK d \in {0, 1} :
        /\ d = 1 => ready # <<>> /\ (ready[1].run = "answer" => ready[1].rest = <<>>)
        /\ \A i \in DOMAIN ready : i > d /\ ready[i].run = "answer" =>
                                   i - d \in DOMAIN ready' /\ ready'[i - d] = ready[i]
        /\ \A i \in DOMAIN ready' : ready'[i].run = "answer" => i + d \in DOMAIN ready /\ ready[i + d] = ready'[i]
  BY DEF Moves
<1>2. ASSUME NEW i, AnswerAt(i), DOMAIN ready[i].rest # {}
      PROVE  i - d \in DOMAIN ready' /\ ready'[i - d] = ready[i] /\ AnswerAt(i - d)'
  <2>1. i > d
    <3>1. DOMAIN <<>> = {} /\ i \in 1..Len(ready)
      BY <1>2 DEF AnswerAt
    <3>2. ~(i = 1 /\ d = 1)
      BY <1>1, <1>2, <3>1 DEF AnswerAt
    <3> QED BY <3>1, <3>2
  <2> QED BY <1>1, <1>2, <2>1 DEF AnswerAt
<1>3. ASSUME NEW i, AnswerAt(i)'
      PROVE  AnswerAt(i + d) /\ ready[i + d] = ready'[i]
  BY <1>1, <1>3 DEF AnswerAt
<1>4. ASSUME NEW i, AnswerAt(i)'
      PROVE  OwnOrders(i)' /\ DoesAsTold(ready[i])'
  <2> DEFINE b == ready'[i]
  <2>1. AnswerAt(i + d) /\ ready[i + d] = b
    BY <1>3, <1>4
  <2>2. OwnOrders(i + d) /\ DoesAsTold(b)
    BY <2>1 DEF Answering
  <2>3. ASSUME NEW o, InSeq(b.all, o)
        PROVE  /\ o \in sent' /\ told'[o] # "none"
               /\ o \in acked' => i = 1
               /\ \A n : AnswerAt(n)' /\ InSeq(ready'[n].all, o) => n = i
               /\ \A x : InSeq(b.all, x) => (x \in batched' <=> o \in batched')
    <3>1. o \in sent' /\ told'[o] # "none"
      BY <2>1, <2>2, <2>3 DEF OwnOrders
    <3>2. ASSUME o \in acked' PROVE i = 1
      <4>1. i + d = 1 /\ i \in DOMAIN ready'
        BY <1>4, <2>1, <2>2, <2>3, <3>2 DEF OwnOrders, AnswerAt
      <4> QED BY <4>1 DEF Moves
    <3>3. ASSUME NEW n, AnswerAt(n)', InSeq(ready'[n].all, o) PROVE n = i
      <4>1. AnswerAt(n + d) /\ ready[n + d] = ready'[n]
        BY <1>3, <3>3
      <4>2. n + d = i + d
        BY <2>1, <2>2, <2>3, <3>3, <4>1 DEF OwnOrders
      <4> QED BY <1>4, <3>3, <4>2 DEF AnswerAt, Moves
    <3>4. ASSUME NEW x, InSeq(b.all, x) PROVE x \in batched' <=> o \in batched'
      <4>1. x \in sent /\ o \in sent /\ (x \in batched <=> o \in batched)
        BY <2>1, <2>2, <2>3, <3>4 DEF OwnOrders
      <4> QED BY <4>1
    <3> QED BY <3>1, <3>2, <3>3, <3>4
  <2>4. OwnOrders(i)'
    BY <2>3 DEF OwnOrders
  <2>5. DoesAsTold(ready[i])'
    BY <2>2 DEF DoesAsTold
  <2> QED BY <2>4, <2>5
<1>5. ASSUME NEW o, Answered(o) PROVE Answered(o)'
  <2>1. PICK i : AnswerAt(i) /\ InSeq(ready[i].rest, o)
    BY <1>5 DEF Answered
  <2>2. AnswerAt(i - d)' /\ ready'[i - d] = ready[i]
    BY <1>2, <2>1 DEF InSeq
  <2> QED BY <2>1, <2>2 DEF Answered
<1>6. ASSUME NEW o \in sent, WillReject(o) PROVE WillReject(o)'
  <2>1. PICK i : AnswerAt(i) /\ InSeq(ready[i].all, o) /\ Rejects(ready[i], o)
    BY <1>6 DEF WillReject
  <2>2. AnswerAt(i - d)' /\ ready'[i - d] = ready[i]
    BY <1>2, <2>1 DEF Rejects
  <2>3. \E j \in DOMAIN ready[i].rest : \/ ready[i].rest[j] = o /\ ready[i].results[j] \in {"missing", "fail"}
                                        \/ ready[i].results[j] = "raise" /\ o \in batched'
    BY <2>1 DEF Rejects
  <2> QED BY <2>1, <2>2, <2>3 DEF WillReject, Rejects
<1> QED BY <1>4, <1>5, <1>6 DEF Answering

LEMMA PostElsewhere ==
  ASSUME PostInv, Elsewhere
  PROVE  Sending' /\ Posting' /\ Answering' /\ Telling'
<1>0. /\ LoopInv /\ ready \in Seq(Callback) /\ evtq \in Seq(EngineEvent)
      /\ UNCHANGED <<sent, posts, batched, told, acked>>
  BY PostTypes DEF PostInv, Elsewhere
<1>1. PICK events : Hands(events) /\ Befalls(events)
  BY DEF Elsewhere
<1>2. /\ events \in Seq(EngineEvent) /\ evtq' = evtq \o events /\ status' = status /\ Goes(ready')
      /\ \A k \in DOMAIN evtq' : \/ k \in DOMAIN evtq /\ evtq'[k] = evtq[k]
                                 \/ \E n \in DOMAIN events : evtq'[k] = events[n]
  BY <1>0, <1>1 DEF Hands
<1>3. /\ Answering' /\ \A o : Answered(o) => Answered(o)'
      /\ \A o \in sent : WillReject(o) => WillReject(o)'
  BY <1>0, <1>2, AnswersKept, GoesMoves DEF PostInv
<1>4. \A k \in DOMAIN events : events[k].o \in Orders
  BY <1>2 DEF EngineEvent
\* No submission and no rejection is among the events, and those of an order whose answer
\* is still to be worked through pass.
<1>5. \A o : ~InSeq(events, Event("Submitted", o)) /\ ~InSeq(events, Event("Rejected", o))
  BY <1>1 DEF Befalls, InSeq, Event
<1>6. \A o : o \notin acked => \A k \in DOMAIN events : events[k].o = o => events[k].e \in Passing
  BY <1>1 DEF Befalls, Passing
<1>7. ASSUME NEW o, WillReject(o)
      PROVE  \A k \in DOMAIN events : events[k].o = o => events[k].e \in Passing
  <2>1. PICK i : AnswerAt(i) /\ InSeq(ready[i].all, o)
    BY <1>7 DEF WillReject
  <2>2. o \in acked => ready[1].run = "answer"
    BY <2>1 DEF PostInv, Answering, OwnOrders, AnswerAt
  <2> QED BY <1>1, <1>6, <2>2 DEF Befalls, Passing
<1>8. Sending'
  <2>1. cancelling' \subseteq sent'
    BY <1>0 DEF Elsewhere, PostInv, Sending, Unsent
  <2>2. ASSUME NEW o \in Orders \ sent'
        PROVE  Unsent(o)'
    <3>1. Unsent(o)
      BY <1>0, <2>2 DEF PostInv, Sending
    <3>2. \A n \in DOMAIN events : events[n].o # o
      BY <1>0, <1>1, <2>2, <3>1 DEF Befalls, Unsent, PostInv, Sending
    <3> QED BY <1>0, <1>2, <3>1, <3>2 DEF Unsent
  <2> QED BY <2>1, <2>2 DEF Sending
<1>9. Posting'
  <2>1. ASSUME NEW o, AwaitsAnswer(o)
        PROVE  AwaitsAnswer(o)'
    <3>1. Early(o)' /\ NotRejected(o)'
      BY <1>0, <1>2, <1>5, <1>6, <2>1, AppendedEvents DEF AwaitsAnswer
    <3> QED BY <1>0, <2>1, <3>1 DEF AwaitsAnswer
  <2> QED BY <1>0, <2>1 DEF PostInv, Posting, PostedTogether
<1>10. Telling'
  <2> SUFFICES ASSUME NEW o \in Orders
               PROVE  /\ Pending(o)' => Posted(o)' \/ told'[o] # "none"
                      /\ told'[o] = "ok" => NotRejected(o)' /\ (o \in acked' \/ Answered(o)')
                      /\ TurnedDown(o)' => (WillReject(o)' /\ Early(o)') \/ Doomed(o)'
    BY DEF Telling
  <2>0. /\ Pending(o) => Posted(o) \/ told[o] # "none"
        /\ told[o] = "ok" => NotRejected(o) /\ (o \in acked \/ Answered(o))
        /\ TurnedDown(o) => (WillReject(o) /\ Early(o)) \/ Doomed(o)
    BY DEF PostInv, Telling
  <2>1. Pending(o)' => Pending(o)
    <3>1. InSeq(evtq', Event("Submitted", o)) => InSeq(evtq, Event("Submitted", o))
      BY <1>2, <1>5 DEF InSeq
    <3> QED BY <1>2, <3>1 DEF Pending, Event
  <2>2. Posted(o) => Posted(o)'
    BY <1>0 DEF Posted
  <2>3. NotRejected(o) => NotRejected(o)'
    BY <1>0, <1>2, <1>5, AppendedEvents
  <2>4. Doomed(o) => Doomed(o)'
    BY <1>0, <1>2, AppendedEvents
  <2>5. WillReject(o) /\ Early(o) => Early(o)'
    BY <1>0, <1>2, <1>7, AppendedEvents
  <2>6. told[o] # "none" => o \in sent
    BY DEF PostInv, Sending, Unsent
  <2>7. TurnedDown(o)' => TurnedDown(o) /\ told[o] # "none"
    BY <1>0 DEF TurnedDown
  <2> QED BY <1>0, <1>3, <2>0, <2>1, <2>2, <2>3, <2>4, <2>5, <2>6, <2>7
<1> QED BY <1>3, <1>8, <1>9, <1>10

LEMMA PostSubmits ==
  ASSUME PostInv, NEW S, NEW new, NEW events, Submits(S, new, events)
  PROVE  Sending' /\ Posting' /\ Answering' /\ Telling'
<1>0. /\ LoopInv /\ ready \in Seq(Callback) /\ evtq \in Seq(EngineEvent)
      /\ S \subseteq Orders /\ S \intersect sent = {} /\ sent' = sent \union S
      /\ UNCHANGED <<told, acked, cancelling>> /\ posts' = posts \union new
      /\ batched' \in {batched, batched \union S}
  BY PostTypes DEF PostInv, Submits
<1>1. /\ events \in Seq(EngineEvent) /\ evtq' = evtq \o events /\ status' = status /\ Goes(ready')
      /\ \A k \in DOMAIN evtq' : \/ k \in DOMAIN evtq /\ evtq'[k] = evtq[k]
                                 \/ \E n \in DOMAIN events : evtq'[k] = events[n]
  BY <1>0 DEF Submits, Hands
<1>2. \A o \in sent : o \in batched' <=> o \in batched
  BY <1>0
<1>3. /\ Answering' /\ \A o : Answered(o) => Answered(o)'
      /\ \A o \in sent : WillReject(o) => WillReject(o)'
  BY <1>0, <1>1, <1>2, AnswersKept, GoesMoves DEF PostInv
<1>4. \A k \in DOMAIN events : events[k].o \in S
  BY DEF Submits
<1>5. \A o : o \notin S => \A k \in DOMAIN events : events[k].o # o
  BY <1>4
<1>6. \A o : o \notin S => ~InSeq(events, Event("Submitted", o)) /\ ~InSeq(events, Event("Rejected", o))
  BY <1>5 DEF InSeq, Event
<1>7. \A o : Unsent(o) => Early(o) /\ NotRejected(o)
  BY DEF Unsent, Early, NotRejected, InSeq, Event, EarlyStatuses
<1>8. Sending'
  <2>1. \A o \in Orders \ sent' : Unsent(o)'
    BY <1>0, <1>1, <1>5 DEF PostInv, Sending, Unsent
  <2> QED BY <1>0, <2>1 DEF PostInv, Sending
<1>9. \A o : AwaitsAnswer(o) => AwaitsAnswer(o)'
  <2> SUFFICES ASSUME NEW o, AwaitsAnswer(o) PROVE AwaitsAnswer(o)'
    OBVIOUS
  <2>1. o \notin S /\ Early(o) /\ NotRejected(o)
    BY <1>0 DEF AwaitsAnswer
  <2>2. Early(o)' /\ NotRejected(o)'
    BY <1>0, <1>1, <1>5, <1>6, <2>1, AppendedEvents
  <2> QED BY <1>0, <2>2 DEF AwaitsAnswer
<1>10. ASSUME NEW p \in new, NEW i \in DOMAIN p
       PROVE  AwaitsAnswer(p[i])'
  <2> DEFINE o == p[i]
  <2>1. o \in S /\ Unsent(o) /\ InSeq(p, o)
    BY <1>0 DEF Submits, PostInv, Sending, InSeq
  <2>2. \A k \in DOMAIN events : events[k].o = o => events[k].e = "Submitted"
    BY <2>1 DEF Submits
  <2> HIDE DEF o
  <2>3. /\ \A k \in DOMAIN events : events[k].o = o => events[k].e \in Passing
        /\ ~InSeq(events, Event("Rejected", o))
    BY <2>2 DEF Passing, InSeq, Event
  <2>4. Early(o)' /\ NotRejected(o)'
    BY <1>0, <1>1, <1>7, <2>1, <2>3, AppendedEvents
  <2>5. AwaitsAnswer(o)'
    BY <1>0, <2>1, <2>4 DEF AwaitsAnswer, Unsent
  <2> QED BY <2>5 DEF o
<1>11. Posting'
  <2> SUFFICES ASSUME NEW p \in posts'
               PROVE  /\ PostedTogether(p)'
                      /\ \A i \in DOMAIN p : AwaitsAnswer(p[i])'
                      /\ \A q \in posts' : \A o \in Orders : InSeq(p, o) /\ InSeq(q, o) => p = q
    BY DEF Posting
  <2>1. \A q \in posts : \A i \in DOMAIN q : AwaitsAnswer(q[i]) /\ q[i] \in sent /\ q[i] \notin S
    BY <1>0 DEF PostInv, Posting, AwaitsAnswer
  <2>2. \A q \in new : \A i \in DOMAIN q : q[i] \in S
    BY DEF Submits
  <2>3. \A q \in posts, r \in new : \A o : ~(InSeq(q, o) /\ InSeq(r, o))
    BY <2>1, <2>2 DEF InSeq
  <2>4. \A q, r \in posts : \A o \in Orders : InSeq(q, o) /\ InSeq(r, o) => q = r
    BY DEF PostInv, Posting
  <2>5. \A q, r \in new : q = r
    BY DEF Submits
  <2>6. \A q \in posts' : \A o \in Orders : InSeq(p, o) /\ InSeq(q, o) => p = q
    BY <1>0, <2>3, <2>4, <2>5
  <2>7. CASE p \in posts
    <3>1. PostedTogether(p)'
      BY <1>2, <2>1, <2>7 DEF PostInv, Posting, PostedTogether
    <3> QED BY <1>9, <2>1, <2>6, <2>7, <3>1
  <2>8. CASE p \in new
    <3>1. PostedTogether(p)'
      <4>1. \A i, j \in DOMAIN p : p[i] = p[j] => i = j
        BY <2>8 DEF Submits
      <4>2. \A i, j \in DOMAIN p : p[i] \in batched' <=> p[j] \in batched'
        <5>1. CASE batched' = batched \union S
          BY <2>2, <2>8, <5>1
        <5>2. CASE batched' = batched
          BY <1>0, <2>2, <2>8, <5>2 DEF PostInv, Sending, Unsent
        <5> QED BY <1>0, <5>1, <5>2
      <4> QED BY <4>1, <4>2 DEF PostedTogether
    <3> QED BY <1>10, <2>6, <2>8, <3>1
  <2> QED BY <1>0, <2>7, <2>8
<1>12. Telling'
  <2> SUFFICES ASSUME NEW o \in Orders
               PROVE  /\ Pending(o)' => Posted(o)' \/ told'[o] # "none"
                      /\ told'[o] = "ok" => NotRejected(o)' /\ (o \in acked' \/ Answered(o)')
                      /\ TurnedDown(o)' => (WillReject(o)' /\ Early(o)') \/ Doomed(o)'
    BY DEF Telling
  <2>0. /\ Pending(o) => Posted(o) \/ told[o] # "none"
        /\ told[o] = "ok" => NotRejected(o) /\ (o \in acked \/ Answered(o))
        /\ TurnedDown(o) => (WillReject(o) /\ Early(o)) \/ Doomed(o)
    BY DEF PostInv, Telling
  <2>1. Pending(o)' => Pending(o) \/ InSeq(events, Event("Submitted", o))
    BY <1>1 DEF Pending, InSeq, Event
  <2>2. Posted(o) \/ InSeq(events, Event("Submitted", o)) => Posted(o)'
    BY <1>0 DEF Posted, Submits
  <2>3. told[o] # "none" => o \in sent /\ o \notin S
    BY <1>0 DEF PostInv, Sending, Unsent
  <2>4. o \notin S => /\ NotRejected(o) => NotRejected(o)'
                      /\ Doomed(o) => Doomed(o)'
                      /\ Early(o) => Early(o)'
    BY <1>0, <1>1, <1>5, <1>6, AppendedEvents
  <2>5. TurnedDown(o)' => TurnedDown(o) /\ told[o] # "none"
    BY <1>0, <1>2, <2>3 DEF TurnedDown
  <2> QED BY <1>0, <1>3, <2>0, <2>1, <2>2, <2>3, <2>4, <2>5
<1> QED BY <1>3, <1>8, <1>11, <1>12

LEMMA PostRunEngine ==
  ASSUME PostInv, RunEngine
  PROVE  Sending' /\ Posting' /\ Answering' /\ Telling'
<1>0. /\ LoopInv /\ ready \in Seq(Callback) /\ ready # <<>> /\ ready[1].run = "engine"
      /\ UNCHANGED <<sent, posts, batched, told, acked, cancelling>>
      /\ ready' = ready \/ ready' = Tail(ready)
  <2>1. ready \in Seq(Callback) /\ ready # <<>> /\ Head(ready).run = "engine"
    BY PostTypes DEF PostInv, RunEngine, Running
  <2>2. ready[1] = Head(ready)
    BY <2>1
  <2> QED BY <2>1, <2>2 DEF PostInv, RunEngine, commandVars, ackVars
<1>1. Moves(ready')
  <2>1. CASE ready' = ready
    BY <1>0, <2>1, LoopGoesOn, GoesMoves
  <2>2. CASE ready' = Tail(ready)
    <3>1. /\ ready' \in Seq(Callback)
          /\ \A i \in DOMAIN ready : i > 1 => i - 1 \in DOMAIN ready' /\ ready'[i - 1] = ready[i]
          /\ \A i \in DOMAIN ready' : i + 1 \in DOMAIN ready /\ ready[i + 1] = ready'[i]
      BY <1>0, <2>2
    <3> QED BY <1>0, <3>1 DEF Moves
  <2> QED BY <1>0, <2>1, <2>2
<1>2. /\ Answering' /\ \A o : Answered(o) => Answered(o)'
      /\ \A o \in sent : WillReject(o) => WillReject(o)'
  BY <1>0, <1>1, AnswersKept DEF PostInv
<1>3. \A o \in Orders : /\ Early(o) => Early(o)'
                        /\ NotRejected(o) => NotRejected(o)'
                        /\ Doomed(o) => Doomed(o)'
                        /\ Pending(o)' => Pending(o)
  BY <1>0, EngineKeeps
<1>4. ASSUME NEW o \in Orders \ sent'
      PROVE  Unsent(o)'
  <2>1. Unsent(o)
    BY <1>0, <1>4 DEF PostInv, Sending
  <2>2. evtq # <<>> /\ 1 \in DOMAIN evtq /\ \A k \in DOMAIN evtq' : k + 1 \in DOMAIN evtq /\ evtq'[k] = evtq[k + 1]
    BY <1>0, EngineTakes, PostTypes
  <2>3. evtq[1].o # o
    BY <2>1, <2>2 DEF Unsent
  <2>4. status'[o] = status[o]
    BY <1>0, <1>4, <2>3, EngineTakes
  <2> QED BY <1>0, <2>1, <2>2, <2>4 DEF Unsent
<1>5. \A o \in Orders : AwaitsAnswer(o) => AwaitsAnswer(o)'
  BY <1>0, <1>3 DEF AwaitsAnswer
<1>6. Posting'
  <2>1. \A p \in posts : \A i \in DOMAIN p : p[i] \in Orders
    BY <1>0, PostTypes
  <2> QED BY <1>0, <1>5, <2>1 DEF PostInv, Posting, PostedTogether
<1>7. Sending'
  BY <1>0, <1>4 DEF PostInv, Sending
<1>8. \A o \in Orders : TurnedDown(o)' => TurnedDown(o) /\ o \in sent
  BY <1>0 DEF TurnedDown, PostInv, Sending, Unsent
<1>9. Telling'
  BY <1>0, <1>2, <1>3, <1>8 DEF PostInv, Telling, Posted
<1> QED BY <1>2, <1>6, <1>7, <1>9

\* What an answer does with the orders of its post: each is met with its own result, or as missing.
Meets(p, n, results, i, x, result) ==
  x = p[i] /\ result = IF i \in 1..n THEN results[i] ELSE "missing"

LEMMA AnswerPlaces ==
  ASSUME NEW p \in Seq(Orders), NEW n \in 0..Len(p), NEW results \in [1..n -> {"ok", "fail", "raise"}]
  PROVE  LET a == AnswerTo(p, n, results)
         IN /\ a.run = "answer" /\ a.all = p
            /\ \A j \in DOMAIN a.rest : \E i \in DOMAIN p : Meets(p, n, results, i, a.rest[j], a.results[j])
            /\ \A i \in DOMAIN p : \E j \in DOMAIN a.rest : Meets(p, n, results, i, a.rest[j], a.results[j])
<1> DEFINE u == SubSeq(p, n + 1, Len(p))
           v == SubSeq(p, 1, n)
           missing == [j \in DOMAIN u |-> "missing"]
           d == Len(p) - n
           a == AnswerTo(p, n, results)
<1>1. u \in Seq(Orders) /\ Len(u) = d /\ \A i \in 1..d : u[i] = p[n + i]
  BY RestOf
<1>2. v \in Seq(Orders) /\ Len(v) = n /\ \A i \in 1..n : v[i] = p[i]
  OBVIOUS
<1>3. missing \in Seq({"missing"}) /\ Len(missing) = d /\ \A i \in 1..d : missing[i] = "missing"
  BY <1>1
<1>4. results \in Seq({"ok", "fail", "raise"}) /\ Len(results) = n
  OBVIOUS
<1>5. a.run = "answer" /\ a.all = p /\ a.rest = u \o v /\ a.results = missing \o results
  BY DEF AnswerTo, Uncovered
<1>6. d \in Nat /\ n \in Nat /\ d + n = Len(p) /\ DOMAIN p = 1..Len(p)
  OBVIOUS
<1> HIDE DEF u, v, missing, d, a
<1>7. /\ DOMAIN a.rest = 1..(d + n)
      /\ \A j \in 1..d : a.rest[j] = u[j] /\ a.results[j] = missing[j]
      /\ \A j \in 1..n : a.rest[d + j] = v[j] /\ a.results[d + j] = results[j]
  <2>1. /\ Len(u \o v) = d + n /\ DOMAIN (u \o v) = 1..(d + n)
        /\ \A j \in 1..d : (u \o v)[j] = u[j]
        /\ \A j \in 1..n : (u \o v)[d + j] = v[j]
    BY <1>1, <1>2, <1>6
  <2>2. /\ \A j \in 1..d : (missing \o results)[j] = missing[j]
        /\ \A j \in 1..n : (missing \o results)[d + j] = results[j]
    <3>1. missing \in Seq(Results) /\ results \in Seq(Results)
      BY <1>3, <1>4 DEF Results
    <3>2. \A s, r \in Seq(Results) :
            /\ \A j \in 1..Len(s) : (s \o r)[j] = s[j]
            /\ \A j \in 1..Len(r) : (s \o r)[Len(s) + j] = r[j]
      OBVIOUS
    <3> QED BY <1>3, <1>4, <3>1, <3>2
  <2> QED BY <1>5, <2>1, <2>2
<1>8. ASSUME NEW j \in DOMAIN a.rest
      PROVE  \E i \in DOMAIN p : Meets(p, n, results, i, a.rest[j], a.results[j])
  <2>1. CASE j \in 1..d
    <3>1. n + j \in DOMAIN p /\ n + j \notin 1..n
      BY <1>6, <2>1
    <3> QED BY <1>1, <1>3, <1>7, <2>1, <3>1 DEF Meets
  <2>2. CASE j \notin 1..d
    <3>1. j - d \in 1..n /\ d + (j - d) = j /\ j - d \in DOMAIN p
      BY <1>6, <1>7, <2>2
    <3> QED BY <1>2, <1>7, <3>1 DEF Meets
  <2> QED BY <2>1, <2>2
<1>9. ASSUME NEW i \in DOMAIN p
      PROVE  \E j \in DOMAIN a.rest : Meets(p, n, results, i, a.rest[j], a.results[j])
  <2>1. CASE i \in 1..n
    <3>1. d + i \in DOMAIN a.rest
      BY <1>6, <1>7, <2>1
    <3> QED BY <1>2, <1>7, <2>1, <3>1 DEF Meets
  <2>2. CASE i \notin 1..n
    <3>1. i - n \in 1..d /\ i - n \in DOMAIN a.rest /\ n + (i - n) = i
      BY <1>6, <1>7, <2>2
    <3> QED BY <1>1, <1>3, <1>7, <2>2, <3>1 DEF Meets
  <2> QED BY <2>1, <2>2
<1>10. /\ a.run = "answer" /\ a.all = p
       /\ \A j \in DOMAIN a.rest : \E i \in DOMAIN p : Meets(p, n, results, i, a.rest[j], a.results[j])
       /\ \A i \in DOMAIN p : \E j \in DOMAIN a.rest : Meets(p, n, results, i, a.rest[j], a.results[j])
  BY <1>5, <1>8, <1>9
<1> QED BY <1>10 DEF a

LEMMA PostRespond ==
  ASSUME PostInv, NEW p \in posts, Respond(p)
  PROVE  Sending' /\ Posting' /\ Answering' /\ Telling'
<1>0. /\ LoopInv /\ ready \in Seq(Callback) /\ p \in Seq(Orders) /\ posts' = posts \ {p}
      /\ UNCHANGED <<sent, batched, acked, cancelling, evtq, status>>
  BY PostTypes DEF PostInv, Respond, ackVars, engineVars
<1> DEFINE Answers(n, results) ==
             /\ results \in [1..n -> {"ok", "fail", "raise"}]
             /\ ready' = Append(ready, AnswerTo(p, n, results))
             /\ told' \in [Orders -> Results \union {"none"}]
             /\ \A o \in Orders : ~InSeq(p, o) => told'[o] = told[o]
             /\ \A o \in Orders : InSeq(p, o) =>
                  \E i \in DOMAIN p : p[i] = o /\ told'[o] = Tells(results, i)
<1>a. PICK n \in 0..Len(p) : \E results : Answers(n, results)
  BY <1>0, AnswerTold
<1>1. PICK results : Answers(n, results)
  BY <1>a
<1>b. results \in [1..n -> {"ok", "fail", "raise"}]
  BY <1>1
<1>c. PICK a, new : a = AnswerTo(p, n, results) /\ new = Len(ready) + 1
  OBVIOUS
<1>2. /\ a.run = "answer" /\ a.all = p
      /\ \A j \in DOMAIN a.rest : \E i \in DOMAIN p : Meets(p, n, results, i, a.rest[j], a.results[j])
      /\ \A i \in DOMAIN p : \E j \in DOMAIN a.rest : Meets(p, n, results, i, a.rest[j], a.results[j])
  BY <1>0, <1>b, <1>c, AnswerPlaces
<1>3. /\ \A i \in DOMAIN ready : i \in DOMAIN ready' /\ ready'[i] = ready[i]
      /\ new \in DOMAIN ready' /\ ready'[new] = a
      /\ \A i \in DOMAIN ready' : i = new \/ i \in DOMAIN ready
      /\ new \notin DOMAIN ready
  BY <1>0, <1>1, <1>c
<1>4. \A i \in DOMAIN p : AwaitsAnswer(p[i]) /\ p[i] \in Orders
  BY <1>0 DEF PostInv, Posting
<1>5. \A i \in DOMAIN p : told'[p[i]] = Tells(results, i)
  <2>1. \A i, j \in DOMAIN p : p[i] = p[j] => i = j
    BY DEF PostInv, Posting, PostedTogether
  <2> QED BY <1>1, <1>4, <2>1 DEF InSeq
<1>6. \A i : Tells(results, i) # "none" /\ DOMAIN results = 1..n /\ 1..n \subseteq DOMAIN p
  BY <1>0, <1>b DEF Tells
\* What the answer tells of an order, it does.
<1>7. ASSUME NEW j \in DOMAIN a.rest
      PROVE  /\ InSeq(p, a.rest[j])
             /\ a.results[j] \in {"missing", "fail"} => told'[a.rest[j]] # "ok"
             /\ a.results[j] = "raise" => \A i \in DOMAIN p : told'[p[i]] = "raise"
  <2>1. PICK i \in DOMAIN p : Meets(p, n, results, i, a.rest[j], a.results[j])
    BY <1>2
  <2>2. told'[a.rest[j]] = Tells(results, i) /\ InSeq(p, a.rest[j])
    BY <1>5, <2>1 DEF Meets, InSeq
  <2>3. a.results[j] \in {"missing", "fail"} => Tells(results, i) # "ok"
    BY <1>6, <2>1 DEF Meets, Tells
  <2>4. a.results[j] = "raise" => \A k : Tells(results, k) = "raise"
    BY <1>6, <2>1 DEF Meets, Tells
  <2> QED BY <1>5, <2>2, <2>3, <2>4
<1>8. ASSUME NEW o, InSeq(p, o)
      PROVE  /\ o \in Orders /\ AwaitsAnswer(o) /\ told'[o] # "none"
             /\ Answered(o)'
             /\ told'[o] \in {"fail", "missing"} \/ (told'[o] = "raise" /\ o \in batched)
                  => WillReject(o)'
  <2>1. PICK i \in DOMAIN p : p[i] = o
    BY <1>8 DEF InSeq
  <2>2. told'[o] = Tells(results, i) /\ told'[o] # "none" /\ o \in Orders /\ AwaitsAnswer(o)
    BY <1>4, <1>5, <1>6, <2>1
  <2>3. PICK j \in DOMAIN a.rest : Meets(p, n, results, i, a.rest[j], a.results[j])
    BY <1>2
  <2>4. a.rest[j] = o
    BY <2>1, <2>3 DEF Meets
  <2>5. AnswerAt(new)' /\ InSeq(ready'[new].rest, o) /\ InSeq(ready'[new].all, o)
    BY <1>2, <1>3, <1>8, <2>4 DEF AnswerAt, InSeq
  <2>6. Answered(o)'
    BY <2>5 DEF Answered
  <2>7. ASSUME told'[o] \in {"fail", "missing"}
        PROVE  WillReject(o)'
    <3>1. a.results[j] \in {"missing", "fail"}
      BY <1>6, <2>2, <2>3, <2>7 DEF Tells, Meets
    <3>2. Rejects(ready[new], o)'
      BY <1>3, <2>4, <3>1 DEF Rejects
    <3> QED BY <2>5, <3>2 DEF WillReject
  <2>8. ASSUME told'[o] = "raise", o \in batched
        PROVE  WillReject(o)'
    <3>1. PICK k \in 1..n : results[k] = "raise"
      BY <1>6, <2>2, <2>8 DEF Tells
    <3>2. PICK l \in DOMAIN a.rest : Meets(p, n, results, k, a.rest[l], a.results[l])
      BY <1>2, <1>6
    <3>3. a.results[l] = "raise"
      BY <3>1, <3>2 DEF Meets
    <3>4. Rejects(ready[new], o)'
      BY <1>0, <1>3, <2>8, <3>3 DEF Rejects
    <3> QED BY <2>5, <3>4 DEF WillReject
  <2> QED BY <2>2, <2>6, <2>7, <2>8
\* The other answers and posts have other orders.
<1>9. ASSUME NEW i, AnswerAt(i)
      PROVE  /\ AnswerAt(i)' /\ ready'[i] = ready[i]
             /\ \A o : InSeq(ready[i].all, o) => told[o] # "none" /\ ~InSeq(p, o) /\ o \in sent
  BY <1>3, <1>8, <1>9 DEF AnswerAt, PostInv, Answering, OwnOrders, AwaitsAnswer
<1>10. \A i : AnswerAt(i)' => i = new \/ AnswerAt(i)
  BY <1>3 DEF AnswerAt
<1>11. \A o \in sent : ~InSeq(p, o) => told'[o] = told[o]
  <2>1. sent \subseteq Orders
    BY <1>0 DEF LoopInv, TypeOK, CommandsOK
  <2> QED BY <1>1, <2>1
<1>12. ASSUME NEW i, AnswerAt(i)
       PROVE  OwnOrders(i)' /\ DoesAsTold(ready[i])'
  <2>0. OwnOrders(i) /\ DoesAsTold(ready[i]) /\ ready'[i] = ready[i]
    BY <1>9, <1>12 DEF PostInv, Answering
  <2>1. \A o : InSeq(ready[i].all, o) => told'[o] = told[o] /\ ~InSeq(p, o)
    BY <1>9, <1>11, <1>12
  <2>2. \A k : AnswerAt(k)' => ready'[k] = a \/ (AnswerAt(k) /\ ready'[k] = ready[k])
    BY <1>3, <1>9, <1>10
  <2>3. OwnOrders(i)'
    BY <1>0, <1>2, <2>0, <2>1, <2>2 DEF OwnOrders
  <2>4. DoesAsTold(ready[i])'
    BY <2>0, <2>1 DEF DoesAsTold
  <2> QED BY <2>3, <2>4
<1>13. OwnOrders(new)' /\ DoesAsTold(ready[new])'
  <2>1. ready'[new] = a /\ a.all = p
    BY <1>2, <1>3
  <2>2. \A k, o : AnswerAt(k)' /\ InSeq(ready'[k].all, o) /\ InSeq(p, o) => k = new
    BY <1>9, <1>10
  <2>3. \A o, x : InSeq(p, o) /\ InSeq(p, x) => (x \in batched <=> o \in batched)
    BY DEF PostInv, Posting, PostedTogether, InSeq
  <2>4. OwnOrders(new)'
    BY <1>0, <1>8, <2>1, <2>2, <2>3 DEF OwnOrders, AwaitsAnswer
  <2>5. DoesAsTold(ready[new])'
    BY <1>7, <2>1 DEF DoesAsTold, InSeq
  <2> QED BY <2>4, <2>5
<1>14. Answering'
  BY <1>10, <1>12, <1>13 DEF Answering
<1>15. Sending'
  <2>1. ASSUME NEW o \in Orders \ sent'
        PROVE  Unsent(o)'
    <3>1. Unsent(o) /\ ~InSeq(p, o)
      BY <1>0, <1>8, <2>1 DEF PostInv, Sending, AwaitsAnswer
    <3> QED BY <1>0, <1>1, <3>1 DEF Unsent
  <2> QED BY <1>0, <2>1 DEF PostInv, Sending
<1>16. Posting'
  <2>1. ASSUME NEW q \in posts', NEW i \in DOMAIN q
        PROVE  AwaitsAnswer(q[i])'
    <3>1. AwaitsAnswer(q[i]) /\ InSeq(q, q[i]) /\ q[i] \in sent /\ q[i] \in Orders
      <4>1. q \in Seq(Orders)
        BY <1>0, PostTypes
      <4> QED BY <1>0, <2>1, <4>1 DEF PostInv, Posting, InSeq, AwaitsAnswer
    <3>2. ~InSeq(p, q[i])
      BY <1>0, <2>1, <3>1 DEF PostInv, Posting
    <3>3. Early(q[i])' /\ NotRejected(q[i])'
      BY <1>0, <3>1 DEF AwaitsAnswer, Early, NotRejected, InSeq, Event
    <3> QED BY <1>0, <1>11, <3>1, <3>2, <3>3 DEF AwaitsAnswer
  <2> QED BY <1>0, <2>1 DEF PostInv, Posting, PostedTogether
<1>17. Telling'
  <2> SUFFICES ASSUME NEW o \in Orders
               PROVE  /\ Pending(o)' => Posted(o)' \/ told'[o] # "none"
                      /\ told'[o] = "ok" => NotRejected(o)' /\ (o \in acked' \/ Answered(o)')
                      /\ TurnedDown(o)' => (WillReject(o)' /\ Early(o)') \/ Doomed(o)'
    BY DEF Telling
  <2>0. /\ Pending(o) => Posted(o) \/ told[o] # "none"
        /\ told[o] = "ok" => NotRejected(o) /\ (o \in acked \/ Answered(o))
        /\ TurnedDown(o) => (WillReject(o) /\ Early(o)) \/ Doomed(o)
    BY DEF PostInv, Telling
  <2>1. /\ Pending(o)' <=> Pending(o)
        /\ NotRejected(o)' <=> NotRejected(o)
        /\ Early(o)' <=> Early(o)
        /\ Doomed(o)' <=> Doomed(o)
    BY <1>0 DEF Pending, NotRejected, Early, Doomed, InSeq, Event
  <2>2. CASE InSeq(p, o)
    <3>1. Early(o) /\ NotRejected(o)
      BY <1>8, <2>2 DEF AwaitsAnswer
    <3>2. TurnedDown(o)' => WillReject(o)'
      BY <1>0, <1>8, <2>2 DEF TurnedDown
    <3> QED BY <1>8, <2>1, <2>2, <3>1, <3>2
  <2>3. CASE ~InSeq(p, o)
    <3>1. told'[o] = told[o]
      BY <1>1, <2>3
    <3>2. Posted(o) => Posted(o)'
      BY <1>0, <2>3 DEF Posted
    <3>3. Answered(o) => Answered(o)'
      BY <1>9 DEF Answered
    <3>4. WillReject(o) => WillReject(o)'
      <4>1. ASSUME NEW i, AnswerAt(i), Rejects(ready[i], o)
            PROVE  Rejects(ready[i], o)'
        BY <1>0, <1>9, <4>1 DEF Rejects
      <4> QED BY <1>9, <4>1 DEF WillReject
    <3>5. TurnedDown(o)' <=> TurnedDown(o)
      BY <1>0, <3>1 DEF TurnedDown
    <3> QED BY <1>0, <2>0, <2>1, <3>1, <3>2, <3>3, <3>4, <3>5
  <2> QED BY <2>2, <2>3
<1> QED BY <1>14, <1>15, <1>16, <1>17

\* The answer at the head of the loop becomes b, and no other answer changes.
Becomes(b, q) ==
  /\ b.run = "answer" /\ b.all = ready[1].all
  /\ 1 \in DOMAIN q /\ q[1] = b
  /\ \A i \in DOMAIN ready : i # 1 => i \in DOMAIN q /\ q[i] = ready[i]
  /\ \A i \in DOMAIN q : q[i].run = "answer" => i \in DOMAIN ready /\ (i # 1 => q[i] = ready[i])

\* What it does is no more and no less than what was left of it.
LEMMA AnswerBecomes ==
  ASSUME PostInv, AnswerAt(1), NEW b, Becomes(b, ready'), DoesAsTold(b),
         UNCHANGED <<sent, batched, told>>,
         \A x \in acked' : x \in acked \/ InSeq(ready[1].all, x)
  PROVE  /\ Answering'
         /\ \A x : Answered(x) /\ (InSeq(ready[1].rest, x) => InSeq(b.rest, x)) => Answered(x)'
         /\ \A x : /\ WillReject(x)
                   /\ InSeq(ready[1].all, x) /\ Rejects(ready[1], x) => Rejects(b, x)
                   => WillReject(x)'
<1> DEFINE a == ready[1]
<1>1. /\ AnswerAt(1)' /\ ready'[1] = b /\ b.all = a.all
      /\ \A i : i # 1 /\ AnswerAt(i) => AnswerAt(i)' /\ ready'[i] = ready[i]
      /\ \A i : i # 1 /\ AnswerAt(i)' => AnswerAt(i) /\ ready'[i] = ready[i]
  BY DEF Becomes, AnswerAt
<1>2. \A i : AnswerAt(i)' => AnswerAt(i) /\ ready'[i].all = ready[i].all
  BY <1>1
<1>3. ASSUME NEW i, AnswerAt(i)'
      PROVE  OwnOrders(i)' /\ DoesAsTold(ready[i])'
  <2>0. /\ AnswerAt(i) /\ ready'[i].all = ready[i].all /\ OwnOrders(i) /\ DoesAsTold(ready[i])
        /\ OwnOrders(1)
    BY <1>2, <1>3 DEF PostInv, Answering
  <2>1. ASSUME NEW o, InSeq(ready[i].all, o), o \in acked'
        PROVE  i = 1
    BY <2>0, <2>1 DEF OwnOrders
  <2>2. OwnOrders(i)'
    BY <1>2, <2>0, <2>1 DEF OwnOrders
  <2>3. DoesAsTold(ready[i])'
    <3>1. CASE i = 1
      BY <1>1, <3>1 DEF DoesAsTold
    <3>2. CASE i # 1
      <4>1. ready'[i] = ready[i]
        BY <1>1, <1>3, <3>2
      <4> QED BY <2>0, <4>1 DEF DoesAsTold
    <3> QED BY <3>1, <3>2
  <2> QED BY <2>2, <2>3
<1>4. ASSUME NEW x, Answered(x), InSeq(a.rest, x) => InSeq(b.rest, x)
      PROVE  Answered(x)'
  <2>1. PICK i : AnswerAt(i) /\ InSeq(ready[i].rest, x)
    BY <1>4 DEF Answered
  <2>2. AnswerAt(i)' /\ InSeq(ready'[i].rest, x)
    BY <1>1, <1>4, <2>1
  <2> QED BY <2>2 DEF Answered
<1>5. ASSUME NEW x, WillReject(x), InSeq(a.all, x) /\ Rejects(a, x) => Rejects(b, x)
      PROVE  WillReject(x)'
  <2>1. PICK i : AnswerAt(i) /\ InSeq(ready[i].all, x) /\ Rejects(ready[i], x)
    BY <1>5 DEF WillReject
  <2>2. PICK c : c = ready'[i]
    OBVIOUS
  <2>3. AnswerAt(i)' /\ InSeq(c.all, x) /\ Rejects(c, x)
    BY <1>1, <1>5, <2>1, <2>2
  <2>4. Rejects(ready[i], x)'
    BY <2>2, <2>3 DEF Rejects
  <2> QED BY <2>2, <2>3, <2>4 DEF WillReject
<1> QED BY <1>3, <1>4, <1>5 DEF Answering

\* Working through an answer: what it still does not do is done by this step.
LEMMA AnswerProgress ==
  ASSUME PostInv, AnswerAt(1), NEW b, Becomes(b, ready'), DoesAsTold(b),
         NEW events \in Seq(EngineEvent), evtq' = evtq \o events,
         UNCHANGED <<sent, posts, batched, told, cancelling, status>>,
         acked \subseteq acked', \A x \in acked' : x \in acked \/ InSeq(ready[1].all, x),
         events = <<>> \/ \E o : /\ InSeq(ready[1].all, o) /\ told[o] # "ok"
                                 /\ events = <<Event("Rejected", o)>>,
         \A x : InSeq(ready[1].rest, x) /\ told[x] = "ok" => x \in acked' \/ InSeq(b.rest, x),
         \A x : InSeq(ready[1].all, x) /\ Rejects(ready[1], x)
                  => Rejects(b, x) \/ events = <<Event("Rejected", x)>>
  PROVE  Sending' /\ Posting' /\ Answering' /\ Telling'
<1>0. /\ LoopInv /\ evtq \in Seq(EngineEvent) /\ OwnOrders(1)
  BY PostTypes DEF PostInv, Answering
<1>1. /\ Answering'
      /\ \A x : Answered(x) /\ (InSeq(ready[1].rest, x) => InSeq(b.rest, x)) => Answered(x)'
      /\ \A x : /\ WillReject(x)
                /\ InSeq(ready[1].all, x) /\ Rejects(ready[1], x) => Rejects(b, x)
                => WillReject(x)'
  BY AnswerBecomes
<1>2. \A k \in DOMAIN evtq' : \/ k \in DOMAIN evtq /\ evtq'[k] = evtq[k]
                              \/ \E n \in DOMAIN events : evtq'[k] = events[n]
  BY <1>0
\* The order that is rejected was told of, and of no success.
<1>3. \A k \in DOMAIN events : /\ events[k].e = "Rejected" /\ InSeq(ready[1].all, events[k].o)
                               /\ told[events[k].o] # "ok"
  BY DEF Event
<1>4. \A k \in DOMAIN events : told[events[k].o] # "none" /\ events[k].o \in sent
  BY <1>0, <1>3 DEF OwnOrders
<1>5. \A x : ~InSeq(events, Event("Submitted", x))
  BY <1>3 DEF InSeq, Event
<1>6. \A x : told[x] \in {"none", "ok"} \/ x \notin sent =>
         /\ \A k \in DOMAIN events : events[k].o # x
         /\ ~InSeq(events, Event("Rejected", x))
  BY <1>3, <1>4 DEF InSeq, Event
<1>7. \A x \in acked' : told[x] = "none" \/ x \notin sent => x \in acked
  BY <1>0 DEF OwnOrders
<1>8. Sending'
  <2>1. ASSUME NEW o \in Orders \ sent'
        PROVE  Unsent(o)'
    <3>1. Unsent(o)
      BY <2>1 DEF PostInv, Sending
    <3> QED BY <1>2, <1>6, <1>7, <2>1, <3>1 DEF Unsent
  <2> QED BY <2>1 DEF PostInv, Sending
<1>9. Posting'
  <2>1. ASSUME NEW o, AwaitsAnswer(o)
        PROVE  AwaitsAnswer(o)'
    <3>1. told[o] = "none" /\ \A k \in DOMAIN events : events[k].o # o
      BY <1>6, <2>1 DEF AwaitsAnswer
    <3>2. Early(o)' /\ NotRejected(o)'
      BY <1>0, <1>6, <2>1, <3>1, AppendedEvents DEF AwaitsAnswer
    <3> QED BY <1>7, <2>1, <3>2 DEF AwaitsAnswer
  <2> QED BY <2>1 DEF PostInv, Posting, PostedTogether
<1>10. Telling'
  <2> SUFFICES ASSUME NEW o \in Orders
               PROVE  /\ Pending(o)' => Posted(o)' \/ told'[o] # "none"
                      /\ told'[o] = "ok" => NotRejected(o)' /\ (o \in acked' \/ Answered(o)')
                      /\ TurnedDown(o)' => (WillReject(o)' /\ Early(o)') \/ Doomed(o)'
    BY DEF Telling
  <2>0. /\ Pending(o) => Posted(o) \/ told[o] # "none"
        /\ told[o] = "ok" => NotRejected(o) /\ (o \in acked \/ Answered(o))
        /\ TurnedDown(o) => (WillReject(o) /\ Early(o)) \/ Doomed(o)
    BY DEF PostInv, Telling
  <2>1. Pending(o)' => Pending(o)
    <3>1. InSeq(evtq', Event("Submitted", o)) => InSeq(evtq, Event("Submitted", o))
      BY <1>2, <1>5 DEF InSeq
    <3> QED BY <3>1 DEF Pending, Event
  <2>2. Posted(o) => Posted(o)'
    BY DEF Posted
  <2>3. told[o] = "ok" => NotRejected(o)' /\ (o \in acked' \/ Answered(o)')
    <3>1. told[o] = "ok" => NotRejected(o)'
      BY <1>0, <1>6, <2>0, AppendedEvents
    <3> QED BY <1>1, <2>0, <3>1
  <2>4. Doomed(o) => Doomed(o)'
    BY <1>0, AppendedEvents
  <2>5. Early(o) => Early(o)'
    BY <1>0, <1>3, AppendedEvents DEF Passing
  <2>6. WillReject(o) /\ Early(o) => WillReject(o)' \/ Doomed(o)'
    <3>1. Early(o) /\ events = <<Event("Rejected", o)>> => Doomed(o)'
      BY <1>0, AppendedEvents
    <3> QED BY <1>1, <3>1
  <2>7. TurnedDown(o)' <=> TurnedDown(o)
    BY DEF TurnedDown
  <2> QED BY <2>0, <2>1, <2>2, <2>3, <2>4, <2>5, <2>6, <2>7
<1> QED BY <1>1, <1>8, <1>9, <1>10

LEMMA PostRunAnswer ==
  ASSUME PostInv, RunAnswer
  PROVE  Sending' /\ Posting' /\ Answering' /\ Telling'
<1> DEFINE a == Head(ready)
           o == Head(a.rest)
           c == NextResult(a)
<1>0. /\ LoopInv /\ ready \in Seq(Callback) /\ ready' \in Seq(Callback) /\ ready # <<>>
      /\ a = ready[1] /\ 1 \in DOMAIN ready /\ evtq \in Seq(EngineEvent)
      /\ a.run = "answer" /\ a \in Answer /\ AnswerAt(1)
      /\ UNCHANGED <<sent, posts, batched, told, cancelling, status>>
  <2>1. LoopInv /\ ready \in Seq(Callback) /\ ready # <<>> /\ a.run = "answer" /\ evtq \in Seq(EngineEvent)
    BY PostTypes DEF PostInv, RunAnswer, Running
  <2>2. ready' \in Seq(Callback)
    BY <2>1, LoopRunAnswer DEF LoopInv, TypeOK, LoopOK
  <2>3. a = ready[1] /\ 1 \in DOMAIN ready
    BY <2>1
  <2> QED BY <2>1, <2>2, <2>3, AnswerHead DEF RunAnswer, commandVars, engineVars, AnswerAt
<1>1. /\ a.rest \in Seq(Orders) /\ a.all \in Seq(Orders) /\ a.results \in Seq(Results)
      /\ Len(a.rest) = Len(a.results)
  BY <1>0 DEF Answer
<1>2. OwnOrders(1) /\ DoesAsTold(a)
  BY <1>0 DEF PostInv, Answering
<1>3. <<>> \in Seq(EngineEvent) /\ evtq \o <<>> = evtq
  BY <1>0
\* The answer without its first order.
<1>4. ASSUME a.rest # <<>>
      PROVE  /\ c.run = "answer" /\ c.all = a.all /\ c \in Callback
             /\ 1 \in DOMAIN a.rest /\ o = a.rest[1] /\ o \in Orders /\ Head(a.results) = a.results[1]
             /\ InSeq(a.all, o) /\ InSeq(a.rest, o)
             /\ \A j \in DOMAIN a.rest : j # 1 =>
                  j - 1 \in DOMAIN c.rest /\ c.rest[j - 1] = a.rest[j] /\ c.results[j - 1] = a.results[j]
             /\ \A j \in DOMAIN c.rest :
                  j + 1 \in DOMAIN a.rest /\ c.rest[j] = a.rest[j + 1] /\ c.results[j] = a.results[j + 1]
  <2>1. c.run = "answer" /\ c \in Callback /\ o \in Orders
    BY <1>0, <1>4, AnswerHead
  <2>2. c.all = a.all /\ c.rest = Tail(a.rest) /\ c.results = Tail(a.results)
    BY <1>0 DEF NextResult, Answer
  <2>3. 1 \in DOMAIN a.rest /\ o = a.rest[1] /\ Head(a.results) = a.results[1] /\ a.results # <<>>
    BY <1>1, <1>4
  <2>4. /\ \A j \in DOMAIN a.rest : j # 1 =>
             /\ j - 1 \in DOMAIN Tail(a.rest) /\ Tail(a.rest)[j - 1] = a.rest[j]
             /\ Tail(a.results)[j - 1] = a.results[j]
        /\ \A j \in DOMAIN Tail(a.rest) :
             /\ j + 1 \in DOMAIN a.rest /\ Tail(a.rest)[j] = a.rest[j + 1]
             /\ Tail(a.results)[j] = a.results[j + 1]
    <3>1. /\ Tail(a.rest) \in Seq(Orders) /\ Len(Tail(a.rest)) = Len(a.rest) - 1
          /\ \A j \in 1..(Len(a.rest) - 1) : Tail(a.rest)[j] = a.rest[j + 1]
      BY <1>1, <2>3
    <3>2. \A j \in 1..(Len(a.results) - 1) : Tail(a.results)[j] = a.results[j + 1]
      BY <1>1, <2>3
    <3>3. /\ DOMAIN a.rest = 1..Len(a.rest) /\ DOMAIN Tail(a.rest) = 1..(Len(a.rest) - 1)
          /\ Len(a.rest) \in Nat
      BY <1>1, <3>1
    <3>4. \A j \in DOMAIN a.rest : j # 1 => j - 1 \in 1..(Len(a.rest) - 1) /\ (j - 1) + 1 = j
      BY <3>3
    <3>5. \A j \in 1..(Len(a.rest) - 1) : j + 1 \in DOMAIN a.rest
      BY <3>3
    <3> QED BY <1>1, <3>1, <3>2, <3>3, <3>4, <3>5
  <2>5. InSeq(a.all, o) /\ InSeq(a.rest, o)
    BY <1>2, <2>3 DEF DoesAsTold, InSeq
  <2> QED BY <2>1, <2>2, <2>3, <2>4, <2>5
<1> HIDE DEF a, o, c
<1>5. ASSUME a.rest # <<>>
      PROVE  /\ DoesAsTold(c)
             /\ \A x : InSeq(a.rest, x) => x = o \/ InSeq(c.rest, x)
             /\ \A x : Rejects(a, x) => \/ Rejects(c, x)
                                        \/ x = o /\ a.results[1] \in {"missing", "fail"}
                                        \/ a.results[1] = "raise" /\ x \in batched
  <2>1. DoesAsTold(c)
    BY <1>2, <1>4, <1>5 DEF DoesAsTold
  <2>2. \A x : InSeq(a.rest, x) => x = o \/ InSeq(c.rest, x)
    BY <1>4, <1>5 DEF InSeq
  <2>3. ASSUME NEW x, Rejects(a, x)
        PROVE  \/ Rejects(c, x)
               \/ x = o /\ a.results[1] \in {"missing", "fail"}
               \/ a.results[1] = "raise" /\ x \in batched
    <3>1. PICK j \in DOMAIN a.rest : \/ a.rest[j] = x /\ a.results[j] \in {"missing", "fail"}
                                     \/ a.results[j] = "raise" /\ x \in batched
      BY <2>3 DEF Rejects
    <3> QED BY <1>4, <1>5, <3>1 DEF Rejects
  <2> QED BY <2>1, <2>2, <2>3
\* The loop's queue with another answer at its head.
<1>6. ASSUME NEW b \in Callback, b.run = "answer", b.all = a.all
      PROVE  LET q == <<b>> \o Tail(ready)
             IN /\ q \in Seq(Callback) /\ Becomes(b, q)
                /\ \A d : d.run # "answer" => Becomes(b, Append(q, d))
  <2>1. PICK q : q = <<b>> \o Tail(ready)
    OBVIOUS
  <2>2. /\ q \in Seq(Callback) /\ 1 \in DOMAIN q /\ q[1] = b
        /\ \A i \in DOMAIN ready : i # 1 => i \in DOMAIN q /\ q[i] = ready[i]
        /\ \A i \in DOMAIN q : i \in DOMAIN ready /\ (i # 1 => q[i] = ready[i])
    <3>1. Tail(ready) \in Seq(Callback) /\ Len(Tail(ready)) = Len(ready) - 1
          /\ \A i \in 1..(Len(ready) - 1) : Tail(ready)[i] = ready[i + 1]
      BY <1>0
    <3>2. PICK r : r = Tail(ready)
      OBVIOUS
    <3>3. q \in Seq(Callback) /\ Len(q) = Len(ready) /\ q[1] = b
          /\ \A i \in 1..(Len(ready) - 1) : q[i + 1] = ready[i + 1]
      <4>1. r \in Seq(Callback) /\ q = <<b>> \o r /\ Len(r) = Len(ready) - 1
        BY <2>1, <3>1, <3>2
      <4>2. q \in Seq(Callback) /\ Len(q) = Len(r) + 1 /\ q[1] = b /\ \A i \in 1..Len(r) : q[i + 1] = r[i]
        BY <4>1
      <4>3. Len(ready) \in Nat /\ Len(r) \in Nat
        BY <1>0, <4>1
      <4> QED BY <3>1, <3>2, <4>1, <4>2, <4>3
    <3>4. /\ DOMAIN q = 1..Len(ready) /\ DOMAIN ready = 1..Len(ready) /\ Len(ready) \in Nat
          /\ 1 \in DOMAIN ready
      BY <1>0, <3>3
    <3>5. \A i \in DOMAIN ready : i # 1 => i - 1 \in 1..(Len(ready) - 1) /\ (i - 1) + 1 = i
      BY <3>4
    <3> QED BY <3>3, <3>4, <3>5
  <2>3. Becomes(b, q)
    BY <1>0, <1>6, <2>2 DEF Becomes
  <2>4. ASSUME NEW d, d.run # "answer"
        PROVE  Becomes(b, Append(q, d))
    <3>1. /\ \A i \in DOMAIN q : i \in DOMAIN Append(q, d) /\ Append(q, d)[i] = q[i]
          /\ \A i \in DOMAIN Append(q, d) : i \in DOMAIN q \/ Append(q, d)[i] = d
      BY <2>2
    <3> QED BY <1>0, <1>6, <2>2, <2>4, <3>1 DEF Becomes
  <2> QED BY <2>1, <2>2, <2>3, <2>4
\* ... and with the same one.
<1>7. /\ Becomes(a, ready)
      /\ \A d : d.run # "answer" => Becomes(a, Append(ready, d))
  <2>1. ASSUME NEW d, d.run # "answer"
        PROVE  Becomes(a, Append(ready, d))
    <3>1. /\ \A i \in DOMAIN ready : i \in DOMAIN Append(ready, d) /\ Append(ready, d)[i] = ready[i]
          /\ \A i \in DOMAIN Append(ready, d) : i \in DOMAIN ready \/ Append(ready, d)[i] = d
      BY <1>0
    <3> QED BY <1>0, <2>1, <3>1 DEF Becomes
  <2> QED BY <1>0, <2>1 DEF Becomes
<1>8. CASE a.rest = <<>> /\ ready' = Tail(ready) /\ UNCHANGED <<ackVars, evtq>>
  <2>1. Moves(ready')
    <3>1. /\ \A i \in DOMAIN ready : i > 1 => i - 1 \in DOMAIN ready' /\ ready'[i - 1] = ready[i]
          /\ \A i \in DOMAIN ready' : i + 1 \in DOMAIN ready /\ ready[i + 1] = ready'[i]
      BY <1>0, <1>8
    <3> QED BY <1>0, <1>8, <3>1 DEF Moves
  <2>2. acked' = acked /\ evtq' = evtq
    BY <1>8 DEF ackVars
  <2>3. /\ Answering' /\ \A x : Answered(x) => Answered(x)'
        /\ \A x \in sent : WillReject(x) => WillReject(x)'
    BY <1>0, <2>1, <2>2, AnswersKept DEF PostInv
  <2>4. \A x : /\ Early(x)' <=> Early(x)
               /\ NotRejected(x)' <=> NotRejected(x)
               /\ Doomed(x)' <=> Doomed(x)
               /\ Pending(x)' <=> Pending(x)
               /\ TurnedDown(x)' <=> TurnedDown(x)
    BY <1>0, <2>2 DEF Early, NotRejected, Doomed, Pending, TurnedDown, InSeq, Event
  <2>5. Sending'
    BY <1>0, <2>2 DEF PostInv, Sending, Unsent
  <2>6. Posting'
    BY <1>0, <2>2, <2>4 DEF PostInv, Posting, PostedTogether, AwaitsAnswer
  <2>7. \A x \in Orders : TurnedDown(x) => x \in sent
    BY DEF TurnedDown, PostInv, Sending, Unsent
  <2>8. Telling'
    BY <1>0, <2>2, <2>3, <2>4, <2>7 DEF PostInv, Telling, Posted
  <2> QED BY <2>3, <2>5, <2>6, <2>8
<1>9. CASE /\ a.rest # <<>> /\ Head(a.results) \in {"missing", "fail"}
           /\ Generate(<<c>> \o Tail(ready), <<Event("Rejected", o)>>)
           /\ UNCHANGED ackVars
  <2>1. Becomes(c, ready')
    BY <1>4, <1>6, <1>9 DEF Generate
  <2>2. <<Event("Rejected", o)>> \in Seq(EngineEvent) /\ evtq' = evtq \o <<Event("Rejected", o)>>
    BY <1>4, <1>9, EventType DEF Generate, EventTypes
  <2>3. told[o] # "ok" /\ a.results[1] # "raise"
    BY <1>2, <1>4, <1>9 DEF DoesAsTold
  <2>4. acked' = acked
    BY <1>9 DEF ackVars
  <2>5. \A x : InSeq(a.rest, x) /\ told[x] = "ok" => InSeq(c.rest, x)
    BY <1>5, <1>9, <2>3
  <2>6. \A x : Rejects(a, x) => Rejects(c, x) \/ <<Event("Rejected", o)>> = <<Event("Rejected", x)>>
    BY <1>5, <1>9, <2>3
  <2> QED BY <1>0, <1>4, <1>5, <1>9, <2>1, <2>2, <2>3, <2>4, <2>5, <2>6, AnswerProgress
<1>10. CASE a.rest # <<>> /\ acked' = acked \union {o} /\ UNCHANGED <<waiting, ready, evtq>>
  BY <1>0, <1>2, <1>3, <1>4, <1>7, <1>10, AnswerProgress
<1>11. CASE Wake(o) /\ UNCHANGED <<acked, evtq>>
  <2>1. PICK w \in DOMAIN waiting :
          ready' = Append(ready, [run |-> "resume", task |-> waiting[w].task])
    BY <1>11 DEF Wake, Attached
  <2>2. Becomes(a, ready')
    BY <1>7, <2>1
  <2> QED BY <1>0, <1>2, <1>3, <1>11, <2>2, AnswerProgress
<1>12. CASE /\ a.rest # <<>> /\ Head(a.results) = "ok" /\ o \in acked
            /\ ready' = <<c>> \o Tail(ready) /\ UNCHANGED <<ackVars, evtq>>
  <2>1. Becomes(c, ready') /\ acked' = acked /\ evtq' = evtq
    BY <1>4, <1>6, <1>12 DEF ackVars
  <2>2. \A x : InSeq(a.rest, x) => x \in acked \/ InSeq(c.rest, x)
    BY <1>5, <1>12
  <2>3. \A x : Rejects(a, x) => Rejects(c, x)
    BY <1>4, <1>5, <1>12
  <2> QED BY <1>0, <1>3, <1>5, <1>12, <2>1, <2>2, <2>3, AnswerProgress
<1>13. CASE /\ a.rest # <<>> /\ Head(a.results) = "raise"
            /\ ready' = <<IF o \in batched THEN RejectAll(a) ELSE c>> \o Tail(ready)
            /\ UNCHANGED <<ackVars, evtq>>
  <2>0. acked' = acked /\ evtq' = evtq /\ a.results[1] = "raise" /\ 1 \in DOMAIN a.rest
    BY <1>4, <1>13 DEF ackVars
  <2>1. \A x : InSeq(a.all, x) => told[x] # "ok" /\ (x \in batched <=> o \in batched)
    <3>1. \A x : InSeq(a.all, x) => told[x] # "ok"
      BY <1>2, <2>0 DEF DoesAsTold
    <3>2. \A x : InSeq(a.all, x) => (x \in batched <=> o \in batched)
      BY <1>0, <1>2, <1>4, <1>13 DEF OwnOrders
    <3> QED BY <3>1, <3>2
  <2>2. \A x : InSeq(a.rest, x) => InSeq(a.all, x)
    BY <1>2 DEF DoesAsTold, InSeq
  <2>3. CASE o \in batched
    <3> DEFINE b == RejectAll(a)
    <3>1. /\ b.run = "answer" /\ b.all = a.all /\ b.rest = a.all
          /\ \A j \in DOMAIN b.rest : b.results[j] = "missing"
      BY <1>0 DEF RejectAll, Answer
    <3>2. ready' = <<b>> \o Tail(ready)
      BY <1>13, <2>3
    <3>3. b \in Callback
      <4>1. 1 \in DOMAIN (<<b>> \o Tail(ready)) /\ (<<b>> \o Tail(ready))[1] = b
        BY <1>0
      <4> QED BY <1>0, <3>2, <4>1
    <3> HIDE DEF b
    <3>4. Becomes(b, ready')
      BY <1>6, <3>1, <3>2, <3>3
    <3>5. DoesAsTold(b)
      BY <2>1, <3>1 DEF DoesAsTold, InSeq
    <3>6. \A x : InSeq(a.all, x) => Rejects(b, x)
      BY <3>1 DEF Rejects, InSeq
    <3>7. \A x : InSeq(a.rest, x) => InSeq(b.rest, x)
      BY <2>2, <3>1
    <3> QED BY <1>0, <1>3, <2>0, <3>4, <3>5, <3>6, <3>7, AnswerProgress
  <2>4. CASE o \notin batched
    <3>1. ready' = <<c>> \o Tail(ready)
      BY <1>13, <2>4
    <3>2. Becomes(c, ready')
      BY <1>4, <1>6, <1>13, <3>1
    <3>3. \A x : InSeq(a.all, x) /\ Rejects(a, x) => Rejects(c, x)
      BY <1>5, <1>13, <2>0, <2>1, <2>4
    <3>4. \A x : InSeq(a.rest, x) => told[x] # "ok"
      BY <2>1, <2>2
    <3> QED BY <1>0, <1>3, <1>5, <1>13, <2>0, <3>2, <3>3, <3>4, AnswerProgress
  <2> QED BY <2>3, <2>4
<1> QED BY <1>8, <1>9, <1>10, <1>11, <1>12, <1>13 DEF RunAnswer, a, o, c

LEMMA PostStep == PostInv /\ [Next]_vars => PostInv'
<1> SUFFICES ASSUME PostInv, [Next]_vars PROVE PostInv'
  OBVIOUS
<1>1. LoopInv /\ LoopInv' /\ Consumed'
  BY LoopStep, ConsumedStep DEF PostInv
<1>2. CASE (\E o \in Orders : SubmitOrder(o)) \/ (\E l \in OrderLists : SubmitOrderList(l))
  <2>1. \E S, new, events : Submits(S, new, events)
    BY <1>1, <1>2, SubmitsOrder, SubmitsList
  <2>2. Sending' /\ Posting' /\ Answering' /\ Telling'
    BY <2>1, PostSubmits
  <2> QED BY <1>1, <2>2 DEF PostInv
<1>3. Sending' /\ Posting' /\ Answering' /\ Telling'
  BY <1>1, <1>2, PostKinds, PostElsewhere, PostRespond, PostRunAnswer, PostRunEngine DEF PostInv
<1> QED BY <1>1, <1>3 DEF PostInv

\* Whatever an answer leaves out, rejects or raises over, and whichever answers are lost:
\* once every post is answered and nothing is in flight, every posted order is resolved as
\* its answer says, and the only one that nobody resolves is one posted alone whose answer
\* could not be read.
THEOREM PostsResolved == Spec => []PostedOrdersResolved
<1>1. Init => PostInv
  <2> SUFFICES ASSUME Init PROVE PostInv
    OBVIOUS
  <2>1. LoopInv /\ ready = <<>> /\ evtq = <<>> /\ posts = {} /\ cancelling = {} /\ acked = {}
        /\ batched = {} /\ told = [o \in Orders |-> "none"] /\ status = [o \in Orders |-> "INITIALIZED"]
    BY LoopInit DEF Init
  <2>2. \A i : ~AnswerAt(i)
    BY <2>1 DEF AnswerAt
  <2>3. Consumed /\ Sending /\ Posting /\ Answering
    BY <2>1, <2>2 DEF Consumed, Sending, Unsent, Posting, Answering
  <2>4. Telling
    BY <2>1 DEF Telling, Pending, InSeq, TurnedDown
  <2> QED BY <2>1, <2>3, <2>4 DEF PostInv
<1>2. PostInv => PostedOrdersResolved
  <2> SUFFICES ASSUME PostInv, Quiet, posts = {}, NEW o \in Orders
               PROVE  /\ told[o] = "ok" => o \in acked /\ status[o] # "REJECTED"
                      /\ TurnedDown(o) => status[o] = "REJECTED"
                      /\ status[o] = "SUBMITTED" => \/ o \in acked /\ told[o] = "ok"
                                                    \/ told[o] = "raise" /\ o \notin batched
    BY DEF PostedOrdersResolved
  <2>1. ready = <<>> /\ evtq = <<>>
    BY DEF Quiet, PostInv, Consumed
  <2>2. ~Posted(o) /\ ~Answered(o) /\ ~WillReject(o)
    BY <2>1 DEF Posted, Answered, WillReject, AnswerAt
  <2>3. Doomed(o) => status[o] = "REJECTED"
    BY <2>1 DEF Doomed
  <2>4. told[o] = "ok" => o \in acked /\ status[o] # "REJECTED"
    BY <2>2 DEF PostInv, Telling, NotRejected
  <2>5. TurnedDown(o) => status[o] = "REJECTED"
    BY <2>2, <2>3 DEF PostInv, Telling
  <2>6. told[o] \in Results \union {"none"}
    BY DEF PostInv, LoopInv, TypeOK, CommandsOK
  <2>7. ASSUME status[o] = "SUBMITTED"
        PROVE  told[o] = "ok" \/ (told[o] = "raise" /\ o \notin batched)
    <3>1. told[o] # "none"
      BY <2>2, <2>7 DEF PostInv, Telling, Pending
    <3> QED BY <2>5, <2>6, <2>7, <3>1 DEF TurnedDown, Results
  <2> QED BY <2>4, <2>5, <2>7
<1> QED BY <1>1, <1>2, PostStep, PTL DEF Spec

-----------------------------------------------------------------------------
(* Agreement with the venue, of one order                                   *)

\* One order, submitted by itself, none of whose messages gives up waiting.
Only == CHOOSE o : o \in Orders
OneOrder ==
  /\ Orders = {Only} /\ Qty[Only] > 0
  /\ OrderLists = {} /\ "timeout" \notin Faults

\* A queue holds an element of K; one before every element of L; those of K before all of L.
Some(s, K) == \E i \in DOMAIN s : s[i] \in K
Before(s, K, L) == \E i \in DOMAIN s : s[i] \in K /\ \A j \in DOMAIN s : s[j] \in L => i < j

\* What two queues joined hold.
LEMMA SomeConcat ==
  ASSUME NEW S, NEW s \in Seq(S), NEW u \in Seq(S), NEW K
  PROVE  Some(s \o u, K) <=> Some(s, K) \/ Some(u, K)
<1>1. ASSUME Some(s, K) PROVE Some(s \o u, K)
  <2>1. PICK i \in DOMAIN s : s[i] \in K
    BY <1>1 DEF Some
  <2>2. i \in DOMAIN (s \o u) /\ (s \o u)[i] = s[i]
    OBVIOUS
  <2> QED BY <2>1, <2>2 DEF Some
<1>2. ASSUME Some(u, K) PROVE Some(s \o u, K)
  <2>1. PICK i \in DOMAIN u : u[i] \in K
    BY <1>2 DEF Some
  <2>2. i + Len(s) \in DOMAIN (s \o u) /\ (s \o u)[i + Len(s)] = u[i]
    OBVIOUS
  <2> QED BY <2>1, <2>2 DEF Some
<1>3. ASSUME Some(s \o u, K) PROVE Some(s, K) \/ Some(u, K)
  <2>1. PICK i \in DOMAIN (s \o u) : (s \o u)[i] \in K
    BY <1>3 DEF Some
  <2>2. \/ i \in DOMAIN s /\ (s \o u)[i] = s[i]
        \/ i - Len(s) \in DOMAIN u /\ (s \o u)[i] = u[i - Len(s)]
    OBVIOUS
  <2> QED BY <2>1, <2>2 DEF Some
<1> QED BY <1>1, <1>2, <1>3

\* What a queue of one holds.
LEMMA SomeOne ==
  ASSUME NEW S, NEW x \in S, NEW K, NEW L
  PROVE  /\ <<x>> \in Seq(S)
         /\ Some(<<x>>, K) <=> x \in K
         /\ x \in K /\ x \notin L => Before(<<x>>, K, L)
<1>1. DOMAIN <<x>> = {1} /\ <<x>>[1] = x
  OBVIOUS
<1> QED BY <1>1 DEF Some, Before

\* What a queue holds once x is appended.
LEMMA SomeAppend ==
  ASSUME NEW S, NEW s \in Seq(S), NEW x \in S, NEW K
  PROVE  Some(Append(s, x), K) <=> Some(s, K) \/ x \in K
<1>1. Append(s, x) = s \o <<x>>
  OBVIOUS
<1>2. <<x>> \in Seq(S) /\ (Some(<<x>>, K) <=> x \in K)
  BY SomeOne
<1>3. Some(s \o <<x>>, K) <=> Some(s, K) \/ Some(<<x>>, K)
  BY <1>2, SomeConcat
<1> QED BY <1>1, <1>2, <1>3

\* A queue is its head and its tail.
LEMMA HeadTail ==
  ASSUME NEW S, NEW s \in Seq(S), s # <<>>
  PROVE  /\ Head(s) \in S /\ Tail(s) \in Seq(S)
         /\ s = <<Head(s)>> \o Tail(s)
         /\ DOMAIN Tail(s) = 1 .. (Len(s) - 1)
         /\ \A i \in DOMAIN Tail(s) : i + 1 \in DOMAIN s /\ Tail(s)[i] = s[i + 1]
         /\ 1 \in DOMAIN s /\ s[1] = Head(s)
         /\ \A i \in DOMAIN s : i # 1 => i - 1 \in DOMAIN Tail(s) /\ Tail(s)[i - 1] = s[i]
OBVIOUS

\* What a queue holds without its head.
LEMMA SomeTail ==
  ASSUME NEW S, NEW s \in Seq(S), s # <<>>, NEW K
  PROVE  Some(s, K) <=> Head(s) \in K \/ Some(Tail(s), K)
<1>1. Head(s) \in S /\ Tail(s) \in Seq(S) /\ s = <<Head(s)>> \o Tail(s)
  BY HeadTail
<1>2. <<Head(s)>> \in Seq(S) /\ (Some(<<Head(s)>>, K) <=> Head(s) \in K)
  BY <1>1, SomeOne
<1>3. Some(<<Head(s)>> \o Tail(s), K) <=> Some(<<Head(s)>>, K) \/ Some(Tail(s), K)
  BY <1>1, <1>2, SomeConcat
<1> QED BY <1>1, <1>2, <1>3

\* The order in a queue, once another is joined to it.
LEMMA BeforeConcat ==
  ASSUME NEW S, NEW s \in Seq(S), NEW u \in Seq(S), NEW K, NEW L,
         Before(s, K, L) \/ (~Some(s, L) /\ Before(u, K, L))
  PROVE  Before(s \o u, K, L)
<1>1. CASE Before(s, K, L)
  <2>1. PICK i \in DOMAIN s : s[i] \in K /\ \A j \in DOMAIN s : s[j] \in L => i < j
    BY <1>1 DEF Before
  <2>2. i \in DOMAIN (s \o u) /\ (s \o u)[i] = s[i]
    OBVIOUS
  <2>3. ASSUME NEW j \in DOMAIN (s \o u), (s \o u)[j] \in L PROVE i < j
    <3>1. j \in DOMAIN s => (s \o u)[j] = s[j]
      OBVIOUS
    <3>2. j \notin DOMAIN s => j > Len(s)
      OBVIOUS
    <3> QED BY <2>1, <2>3, <3>1, <3>2
  <2> QED BY <2>1, <2>2, <2>3 DEF Before
<1>2. CASE ~Some(s, L) /\ Before(u, K, L)
  <2>1. PICK i \in DOMAIN u : u[i] \in K /\ \A j \in DOMAIN u : u[j] \in L => i < j
    BY <1>2 DEF Before
  <2>2. i + Len(s) \in DOMAIN (s \o u) /\ (s \o u)[i + Len(s)] = u[i]
    OBVIOUS
  <2>3. ASSUME NEW j \in DOMAIN (s \o u), (s \o u)[j] \in L PROVE i + Len(s) < j
    <3>1. j \in DOMAIN s => (s \o u)[j] = s[j]
      OBVIOUS
    <3>2. j \notin DOMAIN s
      BY <1>2, <2>3, <3>1 DEF Some
    <3>3. j - Len(s) \in DOMAIN u /\ (s \o u)[j] = u[j - Len(s)]
      BY <3>2
    <3> QED BY <2>1, <2>3, <3>3
  <2> QED BY <2>1, <2>2, <2>3 DEF Before
<1> QED BY <1>1, <1>2

\* ... once an element is appended to it.
LEMMA BeforeAppend ==
  ASSUME NEW S, NEW s \in Seq(S), NEW x \in S, NEW K, NEW L,
         Before(s, K, L) \/ (~Some(s, L) /\ x \in K /\ x \notin L)
  PROVE  Before(Append(s, x), K, L)
<1>1. Append(s, x) = s \o <<x>>
  OBVIOUS
<1>2. /\ <<x>> \in Seq(S)
      /\ x \in K /\ x \notin L => Before(<<x>>, K, L)
  BY SomeOne
<1>3. Before(s, K, L) \/ (~Some(s, L) /\ Before(<<x>>, K, L))
  BY <1>2
<1>4. Before(s \o <<x>>, K, L)
  BY <1>2, <1>3, BeforeConcat
<1> QED BY <1>1, <1>4

\* ... and once its head has left it.
LEMMA BeforeTail ==
  ASSUME NEW S, NEW s \in Seq(S), s # <<>>, NEW K, NEW L, Before(s, K, L), Head(s) \notin K
  PROVE  Before(Tail(s), K, L) /\ Head(s) \notin L
<1>1. PICK i \in DOMAIN s : s[i] \in K /\ \A j \in DOMAIN s : s[j] \in L => i < j
  BY DEF Before
<1>2. i # 1 /\ i - 1 \in DOMAIN Tail(s) /\ Tail(s)[i - 1] = s[i]
  BY <1>1, HeadTail
<1>3. \A j \in DOMAIN Tail(s) : Tail(s)[j] \in L => i - 1 < j
  BY <1>1, HeadTail
<1>4. Head(s) \notin L
  BY <1>1, HeadTail
<1> QED BY <1>1, <1>2, <1>3, <1>4 DEF Before

-----------------------------------------------------------------------------
\* The messages and tasks that cancel the order; those that fill it by trade t.
Cancels == {x \in OrderTask : x.typ = "CANCELLATION"}
FillsBy(t) == {x \in Message \union Task : x.kind = "trade" /\ x.t = t /\ x.s \notin {"RETRYING", "FAILED"}}

\* The callbacks of a kind that carry one of X.
Item(c) == IF c.run = "ws" THEN c.msg ELSE c.task
Calls(k, X) == {c \in Callback : c.run = k /\ Item(c) \in X}
Working == {c \in Callback : c.run = "answer" /\ c.rest # <<>>}

\* One of X has come to its handler and waits for the ack, or was signalled; is on its way.
Waits(X) == \E i \in DOMAIN waiting : waiting[i].task \in X
Late(X) == Waits(X) \/ Some(ready, Calls("resume", X))
OnWay(X) == Late(X) \/ Some(ready, Calls("start", X)) \/ Some(ready, Calls("ws", X)) \/ Some(wire, X)

\* A fill by trade t is on its way before every cancellation is.
Ahead(t) ==
  \/ Late(FillsBy(t))
  \/ /\ ~Late(Cancels)
     /\ \/ Before(ready, Calls("start", FillsBy(t)), Calls("start", Cancels))
        \/ /\ ~Some(ready, Calls("start", Cancels))
           /\ \/ Before(ready, Calls("ws", FillsBy(t)), Calls("ws", Cancels))
              \/ ~Some(ready, Calls("ws", Cancels)) /\ Before(wire, FillsBy(t), Cancels)

\* Callbacks of other kinds, appended or dropped, do not matter.
LEMMA OtherCalls ==
  ASSUME NEW r \in Seq(Callback), NEW k, NEW X, NEW Y
  PROVE  /\ \A c \in Callback : c.run # k =>
              /\ Some(Append(r, c), Calls(k, X)) <=> Some(r, Calls(k, X))
              /\ Before(r, Calls(k, X), Calls(k, Y)) => Before(Append(r, c), Calls(k, X), Calls(k, Y))
         /\ r # <<>> /\ Head(r).run # k =>
              /\ Some(Tail(r), Calls(k, X)) <=> Some(r, Calls(k, X))
              /\ Before(r, Calls(k, X), Calls(k, Y)) => Before(Tail(r), Calls(k, X), Calls(k, Y))
<1>1. \A c : c.run # k => c \notin Calls(k, X) /\ c \notin Calls(k, Y)
  BY DEF Calls
<1> HIDE DEF Calls
<1>2. ASSUME NEW c \in Callback, c.run # k
      PROVE  /\ Some(Append(r, c), Calls(k, X)) <=> Some(r, Calls(k, X))
             /\ Before(r, Calls(k, X), Calls(k, Y)) => Before(Append(r, c), Calls(k, X), Calls(k, Y))
  BY <1>1, <1>2, SomeAppend, BeforeAppend
<1>3. ASSUME r # <<>>, Head(r).run # k
      PROVE  /\ Some(Tail(r), Calls(k, X)) <=> Some(r, Calls(k, X))
             /\ Before(r, Calls(k, X), Calls(k, Y)) => Before(Tail(r), Calls(k, X), Calls(k, Y))
  BY <1>1, <1>3, SomeTail, BeforeTail
<1> QED BY <1>2, <1>3

Carries == {"ws", "start", "resume"}

\* q carries what the loop's queue carries, in its order.
SameItems(q) ==
  \A k \in Carries : \A X, Y :
    /\ Some(q, Calls(k, X)) <=> Some(ready, Calls(k, X))
    /\ Before(ready, Calls(k, X), Calls(k, Y)) => Before(q, Calls(k, X), Calls(k, Y))

\* Callbacks that carry nothing may be dropped from the head, or added at either end.
LEMMA SameItemsOf ==
  ASSUME ready \in Seq(Callback)
  PROVE  /\ SameItems(ready)
         /\ ready # <<>> /\ Head(ready).run \notin Carries => SameItems(Tail(ready))
         /\ \A q \in Seq(Callback), c \in Callback :
              SameItems(q) /\ c.run \notin Carries => SameItems(Append(q, c)) /\ SameItems(<<c>> \o q)
<1>1. SameItems(ready)
  BY DEF SameItems
<1>2. ASSUME ready # <<>>, Head(ready).run \notin Carries
      PROVE  SameItems(Tail(ready))
  BY <1>2, OtherCalls DEF SameItems
<1>3. ASSUME NEW q \in Seq(Callback), NEW c \in Callback, SameItems(q), c.run \notin Carries
      PROVE  SameItems(Append(q, c)) /\ SameItems(<<c>> \o q)
  <2>1. SameItems(Append(q, c))
    BY <1>3, OtherCalls DEF SameItems
  <2>2. ASSUME NEW k \in Carries, NEW X, NEW Y
        PROVE  /\ Some(<<c>> \o q, Calls(k, X)) <=> Some(ready, Calls(k, X))
               /\ Before(ready, Calls(k, X), Calls(k, Y)) => Before(<<c>> \o q, Calls(k, X), Calls(k, Y))
    <3>1. c \notin Calls(k, X) /\ c \notin Calls(k, Y)
      BY <1>3, <2>2 DEF Calls
    <3>2. <<c>> \in Seq(Callback) /\ ~Some(<<c>>, Calls(k, X)) /\ ~Some(<<c>>, Calls(k, Y))
      BY <3>1, SomeOne
    <3>3. Some(<<c>> \o q, Calls(k, X)) <=> Some(q, Calls(k, X))
      BY <1>3, <3>2, SomeConcat
    <3>4. Before(q, Calls(k, X), Calls(k, Y)) => Before(<<c>> \o q, Calls(k, X), Calls(k, Y))
      BY <1>3, <3>2, BeforeConcat
    <3> QED BY <1>3, <2>2, <3>3, <3>4 DEF SameItems
  <2> QED BY <2>1, <2>2 DEF SameItems
<1> QED BY <1>1, <1>2, <1>3

\* A step that leaves what the loop's queue carries, and who waits or was signalled.
Undisturbed ==
  /\ \A k \in {"ws", "start"} : \A X, Y :
       /\ Some(ready', Calls(k, X)) <=> Some(ready, Calls(k, X))
       /\ Before(ready, Calls(k, X), Calls(k, Y)) => Before(ready', Calls(k, X), Calls(k, Y))
  /\ \A X : /\ Late(X)' <=> Late(X)
            /\ Some(ready, Calls("resume", X)) => Some(ready', Calls("resume", X))

\* Nothing is disturbed while the queue carries the same and nobody comes or goes.
LEMMA UndisturbedOf ==
  ASSUME SameItems(ready'), waiting' = waiting
  PROVE  Undisturbed
<1>1. ASSUME NEW X
      PROVE  /\ Late(X)' <=> Late(X)
             /\ Some(ready, Calls("resume", X)) => Some(ready', Calls("resume", X))
  <2>1. Some(ready', Calls("resume", X)) <=> Some(ready, Calls("resume", X))
    BY DEF SameItems, Carries
  <2> QED BY <2>1 DEF Late, Waits
<1> QED BY <1>1 DEF Undisturbed, SameItems, Carries

\* Such a step, which at most adds m to the wire, keeps what is on its way and its order.
LEMMA StillAhead ==
  ASSUME Undisturbed, wire \in Seq(Message),
         NEW m \in Message, wire' = wire \/ wire' = Append(wire, m)
  PROVE  /\ \A t : Ahead(t) => Ahead(t)'
         /\ \A X : OnWay(X) => OnWay(X)'
         /\ \A X : OnWay(X)' => OnWay(X) \/ (wire' # wire /\ m \in X)
<1>1. ASSUME NEW X, NEW Y
      PROVE  /\ Some(wire, X) => Some(wire', X)
             /\ Some(wire', X) => Some(wire, X) \/ (wire' # wire /\ m \in X)
             /\ Before(wire, X, Y) => Before(wire', X, Y)
  <2>1. Some(Append(wire, m), X) <=> Some(wire, X) \/ m \in X
    BY SomeAppend
  <2>2. Before(wire, X, Y) => Before(Append(wire, m), X, Y)
    BY BeforeAppend
  <2> QED BY <2>1, <2>2
<1>2. ASSUME NEW X
      PROVE  /\ OnWay(X) => OnWay(X)'
             /\ OnWay(X)' => OnWay(X) \/ (wire' # wire /\ m \in X)
  BY <1>1 DEF OnWay, Undisturbed
<1>3. ASSUME NEW t, Ahead(t)
      PROVE  Ahead(t)'
  BY <1>1, <1>3 DEF Ahead, Undisturbed
<1> QED BY <1>2, <1>3

-----------------------------------------------------------------------------
\* How far the order is: not submitted, submitted, acknowledged.  Its post, or the answer
\* to it, is unique; until the answer is worked through the engine gets nothing but its
\* submission.  An answer follows the engine's consumer, which follows whoever was signalled.
Applied == {"ACCEPTED", "PARTIALLY_FILLED", "CANCELED", "FILLED"}
FirstEvents == {"Submitted", "Denied", "Rejected"}
LaterEvents == {"Accepted", "Canceled", "CancelRejected", "Filled"}

Placed ==
  \/ evtq = <<Event("Submitted", Only)>> /\ status[Only] = "INITIALIZED"
  \/ evtq = <<>> /\ status[Only] = "SUBMITTED"

Unplaced == Only \notin sent =>
  /\ posts = {} /\ ~Some(ready, Working) /\ Only \notin acked
  /\ evtq = <<>> /\ status[Only] = "INITIALIZED"

OnePost ==
  /\ posts \subseteq {<<Only>>}
  /\ posts # {} => Only \notin acked /\ ~Some(ready, Working)
  /\ posts # {} \/ Some(ready, Working) => Placed

OneAnswer ==
  /\ \A i, j \in DOMAIN ready : ready[i] \in Working /\ ready[j] \in Working => i = j
  /\ \A i \in DOMAIN ready : ready[i] \in Working =>
       /\ ready[i].rest = <<Only>>
       /\ ready[i].results \in {<<"ok">>, <<"fail">>, <<"missing">>, <<"raise">>}
       /\ Only \in acked => i = 1 /\ ready[i].results = <<"ok">>

EngineBetween ==
  \A i, j \in DOMAIN ready : ready[j].run = "engine" =>
    /\ ready[i] \in Working => j < i
    /\ ready[i].run = "resume" => i < j

Phases ==
  /\ Only \notin acked => /\ \A i \in DOMAIN evtq : evtq[i].e \in FirstEvents
                          /\ status[Only] \notin Applied
  /\ Only \in acked => /\ \A i \in DOMAIN evtq : evtq[i].e \in LaterEvents
                       /\ status[Only] \in Applied \union {"SUBMITTED"}
  /\ cancelling # {} => status[Only] \in Applied

Placing == Unplaced /\ OnePost /\ OneAnswer /\ EngineBetween /\ Phases

PlaceInv == OneOrder /\ batched = {} /\ WaitInv /\ Consumed /\ Origins /\ Placing

\* q is the queue, perhaps without its head, as to answers, signalled waiters and consumers.
Shifted(q) ==
  /\ q \in Seq(Callback)
  /\ \E d \in {0, 1} :
       /\ d = 1 => ready # <<>> /\ Head(ready) \notin Working
       /\ \A i \in DOMAIN q : q[i].run \in {"answer", "resume", "engine"} =>
            i + d \in DOMAIN ready /\ q[i] = ready[i + d]

\* The queue, its tail when no answer is at work at its head, and messages queued behind.
LEMMA ShiftedOf ==
  ASSUME ready \in Seq(Callback)
  PROVE  /\ Shifted(ready)
         /\ ready # <<>> /\ Head(ready) \notin Working => Shifted(Tail(ready))
         /\ \A q, u \in Seq(Callback) :
              Shifted(q) /\ (\A i \in DOMAIN u : u[i].run \in {"ws", "start"}) => Shifted(q \o u)
<1>1. Shifted(ready)
  <2>1. \A i \in DOMAIN ready : i + 0 \in DOMAIN ready /\ ready[i] = ready[i + 0]
    OBVIOUS
  <2> QED BY <2>1 DEF Shifted
<1>2. ASSUME ready # <<>>, Head(ready) \notin Working PROVE Shifted(Tail(ready))
  BY <1>2, HeadTail DEF Shifted
<1>3. ASSUME NEW q \in Seq(Callback), NEW u \in Seq(Callback), Shifted(q),
             \A i \in DOMAIN u : u[i].run \in {"ws", "start"}
      PROVE  Shifted(q \o u)
  <2>1. PICK d \in {0, 1} :
           /\ d = 1 => ready # <<>> /\ Head(ready) \notin Working
           /\ \A i \in DOMAIN q : q[i].run \in {"answer", "resume", "engine"} =>
                i + d \in DOMAIN ready /\ q[i] = ready[i + d]
    BY <1>3 DEF Shifted
  <2>2. \A i \in DOMAIN (q \o u) : \/ i \in DOMAIN q /\ (q \o u)[i] = q[i]
                                   \/ i - Len(q) \in DOMAIN u /\ (q \o u)[i] = u[i - Len(q)]
    OBVIOUS
  <2>3. \A i \in DOMAIN (q \o u) : (q \o u)[i].run \in {"answer", "resume", "engine"} =>
          i + d \in DOMAIN ready /\ (q \o u)[i] = ready[i + d]
    BY <1>3, <2>1, <2>2
  <2>4. q \o u \in Seq(Callback)
    OBVIOUS
  <2> QED BY <2>1, <2>3, <2>4 DEF Shifted
<1> QED BY <1>1, <1>2, <1>3

\* A queue that goes on without new answers, and to which the consumer is appended at most,
\* when there is no answer in it.
LEMMA ShiftedKept ==
  ASSUME PlaceInv, NEW q, Shifted(q), acked' = acked,
         ready' = q \/ (ready' = Append(q, [run |-> "engine"]) /\ ~Some(ready, Working))
  PROVE  /\ Some(ready', Working) => Some(ready, Working)
         /\ OneAnswer' /\ EngineBetween'
<1> DEFINE e == [run |-> "engine"]
<1>0. /\ q \in Seq(Callback) /\ ready \in Seq(Callback)
  BY DEF Shifted, PlaceInv, WaitInv, LoopInv, TypeOK, LoopOK
<1>1. PICK d \in {0, 1} :
         /\ d = 1 => ready # <<>> /\ Head(ready) \notin Working
         /\ \A i \in DOMAIN q : q[i].run \in {"answer", "resume", "engine"} =>
              i + d \in DOMAIN ready /\ q[i] = ready[i + d]
  BY DEF Shifted
<1>2. ready' = q \/ (ready' = Append(q, e) /\ ~Some(ready, Working))
  OBVIOUS
<1>3. \A i \in DOMAIN ready' :
        \/ i \in DOMAIN q /\ ready'[i] = q[i]
        \/ i = Len(q) + 1 /\ ready'[i] = e /\ ready' = Append(q, e) /\ ~Some(ready, Working)
  <2>1. CASE ready' = q
    BY <2>1
  <2>2. CASE ready' = Append(q, e) /\ ~Some(ready, Working)
    <3>1. e \in Callback
      BY DEF Callback
    <3> HIDE DEF e
    <3>2. \A i \in DOMAIN Append(q, e) :
            (i \in DOMAIN q /\ Append(q, e)[i] = q[i]) \/ (i = Len(q) + 1 /\ Append(q, e)[i] = e)
      BY <1>0, <3>1
    <3> QED BY <2>2, <3>2
  <2> QED BY <1>2, <2>1, <2>2
<1>4. \A c \in Working : c.run = "answer"
  BY DEF Working
<1>5. ASSUME NEW i \in DOMAIN ready', ready'[i].run \in {"answer", "resume"}
      PROVE  i + d \in DOMAIN ready /\ ready'[i] = ready[i + d] /\ i \in DOMAIN q /\ ready'[i] = q[i]
  BY <1>1, <1>3, <1>5
<1>6. Some(ready', Working) => Some(ready, Working)
  BY <1>4, <1>5 DEF Some
<1>7. OneAnswer'
  <2>1. ASSUME NEW i \in DOMAIN ready', NEW j \in DOMAIN ready', ready'[i] \in Working, ready'[j] \in Working
        PROVE  i = j
    <3>1. /\ i + d \in DOMAIN ready /\ ready'[i] = ready[i + d]
          /\ j + d \in DOMAIN ready /\ ready'[j] = ready[j + d]
      BY <1>4, <1>5, <2>1
    <3>2. i + d = j + d
      BY <2>1, <3>1 DEF PlaceInv, Placing, OneAnswer
    <3> QED BY <1>0, <1>1, <1>2, <3>2
  <2>2. ASSUME NEW i \in DOMAIN ready', ready'[i] \in Working
        PROVE  /\ ready'[i].rest = <<Only>>
               /\ ready'[i].results \in {<<"ok">>, <<"fail">>, <<"missing">>, <<"raise">>}
               /\ Only \in acked => i = 1 /\ ready'[i].results = <<"ok">>
    <3>1. /\ i + d \in DOMAIN ready /\ ready'[i] = ready[i + d] /\ i \in DOMAIN q
      BY <1>4, <1>5, <2>2
    <3>2. /\ ready[i + d].rest = <<Only>>
          /\ ready[i + d].results \in {<<"ok">>, <<"fail">>, <<"missing">>, <<"raise">>}
          /\ Only \in acked => i + d = 1 /\ ready[i + d].results = <<"ok">>
      BY <2>2, <3>1 DEF PlaceInv, Placing, OneAnswer
    <3>3. i + d = 1 => i = 1
      BY <1>0, <1>1, <3>1
    <3> QED BY <3>1, <3>2, <3>3
  <2> QED BY <2>1, <2>2 DEF OneAnswer
<1>8. EngineBetween'
  <2> SUFFICES ASSUME NEW i \in DOMAIN ready', NEW j \in DOMAIN ready', ready'[j].run = "engine"
               PROVE  /\ ready'[i] \in Working => j < i
                      /\ ready'[i].run = "resume" => i < j
    BY DEF EngineBetween
  <2>1. CASE j \in DOMAIN q /\ ready'[j] = q[j]
    <3>1. j + d \in DOMAIN ready /\ q[j] = ready[j + d]
      BY <1>1, <2>1
    <3>2. ready'[i] \in Working \/ ready'[i].run = "resume" =>
            i + d \in DOMAIN ready /\ ready'[i] = ready[i + d]
      BY <1>4, <1>5
    <3>3. /\ ready'[i] \in Working => j + d < i + d
          /\ ready'[i].run = "resume" => i + d < j + d
      BY <2>1, <3>1, <3>2 DEF PlaceInv, Placing, EngineBetween
    <3> QED BY <1>0, <1>1, <1>2, <3>3
  <2>2. CASE j = Len(q) + 1 /\ ready' = Append(q, e) /\ ~Some(ready, Working)
    <3>1. ready'[i] \notin Working
      BY <1>6, <2>2 DEF Some
    <3>2. ready'[i].run = "resume" => i \in DOMAIN q
      BY <1>5
    <3> QED BY <1>0, <2>2, <3>1, <3>2
  <2> QED BY <1>3, <2>1, <2>2
<1> QED BY <1>6, <1>7, <1>8

\* A step that queues no answer and signals nobody, and has events generated only when the
\* order is neither posted nor answered.
LEMMA PlacingKept ==
  ASSUME PlaceInv, NEW q, Shifted(q), UNCHANGED <<sent, posts, acked, status>>,
         NEW events \in Seq(EngineEvent), Generate(q, events),
         events # <<>> => /\ Only \in sent /\ posts = {} /\ ~Some(ready, Working)
                          /\ \A i \in DOMAIN events : 
                               events[i].e \in IF Only \in acked THEN LaterEvents ELSE FirstEvents,
         cancelling' # {} => status[Only] \in Applied
  PROVE  Placing'
<1>0. /\ q \in Seq(Callback) /\ evtq \in Seq(EngineEvent)
  BY DEF Shifted, PlaceInv, WaitInv, LoopInv, TypeOK, LoopOK
<1>1. \/ ready' = q
      \/ ready' = Append(q, [run |-> "engine"]) /\ ~Some(ready, Working)
  BY DEF Generate
<1>2. /\ Some(ready', Working) => Some(ready, Working)
      /\ OneAnswer' /\ EngineBetween'
  BY <1>1, ShiftedKept
<1>3. evtq' = evtq \o events
  BY DEF Generate
<1>4. ASSUME events = <<>> PROVE evtq' = evtq
  BY <1>0, <1>3, <1>4
<1>5. Unplaced'
  BY <1>2, <1>4 DEF PlaceInv, Placing, Unplaced
<1>6. OnePost'
  BY <1>2, <1>4 DEF PlaceInv, Placing, OnePost, Placed
<1>7. Phases'
  <2>1. \A i \in DOMAIN evtq' : \/ i \in DOMAIN evtq /\ evtq'[i] = evtq[i]
                                \/ i - Len(evtq) \in DOMAIN events /\ evtq'[i] = events[i - Len(evtq)]
    BY <1>0, <1>3
  <2>2. \A i \in DOMAIN events : events[i].e \in IF Only \in acked THEN LaterEvents ELSE FirstEvents
    OBVIOUS
  <2>3. Only \notin acked => \A i \in DOMAIN evtq' : evtq'[i].e \in FirstEvents
    BY <2>1, <2>2 DEF PlaceInv, Placing, Phases
  <2>4. Only \in acked => \A i \in DOMAIN evtq' : evtq'[i].e \in LaterEvents
    BY <2>1, <2>2 DEF PlaceInv, Placing, Phases
  <2> QED BY <2>3, <2>4 DEF PlaceInv, Placing, Phases
<1> QED BY <1>2, <1>5, <1>6, <1>7 DEF Placing

\* What the invariant says of the loop.
LEMMA PlaceFacts ==
  ASSUME PlaceInv
  PROVE  /\ LoopInv /\ Only \in Orders /\ Orders = {Only}
         /\ ready \in Seq(Callback) /\ evtq \in Seq(EngineEvent) /\ status[Only] \in OrderStatuses
         /\ \A x \in Task : x.o = Only
         /\ acked = {} \/ acked = {Only}
         /\ Only \notin acked => \A i \in DOMAIN ready : ready[i].run # "resume"
         /\ evtq # <<>> <=> \E i \in DOMAIN ready : ready[i].run = "engine"
         /\ posts # {} => Only \in sent
         /\ Some(ready, Working) => Only \in sent
<1>1. LoopInv /\ Orders = {Only} /\ Only \in Orders
  BY DEF PlaceInv, WaitInv, OneOrder
<1>2. ready \in Seq(Callback) /\ evtq \in Seq(EngineEvent) /\ status[Only] \in OrderStatuses
  BY <1>1 DEF LoopInv, TypeOK, LoopOK, EngineOK
<1>3. \A x \in Task : x.o = Only
  BY <1>1 DEF Task, OrderTask, TradeTask
<1>4. acked = {} \/ acked = {Only}
  BY <1>1 DEF LoopInv, TypeOK, AcksOK
<1>5. ASSUME Only \notin acked, NEW i \in DOMAIN ready PROVE ready[i].run # "resume"
  <2>1. ready[i].run = "resume" => ready[i].task \in Task
    BY <1>2 DEF Callback, Answer
  <2> QED BY <1>3, <1>5, <2>1 DEF PlaceInv, WaitInv, Wakeable
<1>6. evtq # <<>> <=> \E i \in DOMAIN ready : ready[i].run = "engine"
  BY DEF PlaceInv, Consumed, WaitInv, LoopInv, EngineOnce
<1>7. /\ posts # {} => Only \in sent
      /\ Some(ready, Working) => Only \in sent
  BY DEF PlaceInv, Placing, Unplaced
<1> QED BY <1>1, <1>2, <1>3, <1>4, <1>5, <1>6, <1>7

\* An event of the client is one of the engine's.
LEMMA OnlyEvent ==
  ASSUME Only \in Orders, NEW e \in EventTypes
  PROVE  /\ <<Event(e, Only)>> \in Seq(EngineEvent)
         /\ \A i \in DOMAIN <<Event(e, Only)>> : <<Event(e, Only)>>[i].e = e
         /\ <<>> \o <<Event(e, Only)>> = <<Event(e, Only)>>
<1>1. <<Event(e, Only)>> \in Seq(EngineEvent)
  BY EventType
<1>2. Event(e, Only).e = e
  BY DEF Event
<1> QED BY <1>1, <1>2

\* An order is submitted before it is posted, and only once.
LEMMA PlacingSubmit ==
  ASSUME PlaceInv, SubmitOrder(Only)
  PROVE  Placing'
<1>0. /\ Only \notin sent /\ sent' = sent \union {Only}
      /\ UNCHANGED <<acked, status, cancelling>>
  BY DEF SubmitOrder, ackVars, engineVars
<1>1. /\ posts = {} /\ ~Some(ready, Working) /\ Only \notin acked
      /\ evtq = <<>> /\ status[Only] = "INITIALIZED"
  BY <1>0 DEF PlaceInv, Placing, Unplaced
<1>2. PICK e \in {"Denied", "Submitted"} :
        \/ Generate(ready, <<Event(e, Only)>>) /\ posts' = IF e = "Submitted" THEN {<<Only>>} ELSE {}
        \/ UNCHANGED <<posts, ready, evtq>>
  <2>1. {} \union {<<Only>>} = {<<Only>>}
    OBVIOUS
  <2> QED BY <1>1, <2>1 DEF SubmitOrder
<1>3. /\ ready' = ready \/ (ready' = Append(ready, [run |-> "engine"]) /\ ~Some(ready, Working))
      /\ \/ /\ evtq' = <<Event(e, Only)>>
            /\ posts' = (IF e = "Submitted" THEN {<<Only>>} ELSE {})
         \/ UNCHANGED <<posts, evtq>>
  BY <1>1, <1>2, PlaceFacts, OnlyEvent DEF Generate, EventTypes
<1>4. Shifted(ready)
  BY PlaceFacts, ShiftedOf
<1>5. /\ Some(ready', Working) => Some(ready, Working)
      /\ OneAnswer' /\ EngineBetween'
  BY <1>0, <1>3, <1>4, ShiftedKept
<1>6. Unplaced'
  BY <1>0 DEF Unplaced
<1>7. OnePost'
  BY <1>0, <1>1, <1>3, <1>5 DEF OnePost, Placed
<1>8. Phases'
  <2>1. \A i \in DOMAIN evtq' : evtq'[i].e \in FirstEvents
    BY <1>1, <1>3, PlaceFacts, OnlyEvent DEF FirstEvents, EventTypes
  <2> QED BY <1>0, <1>1, <2>1 DEF PlaceInv, Placing, Phases
<1> QED BY <1>5, <1>6, <1>7, <1>8 DEF Placing

\* What an answer to the only post is.
LEMMA OnlyAnswer ==
  ASSUME Only \in Orders, NEW n \in 0 .. 1, NEW results \in [1 .. n -> {"ok", "fail", "raise"}]
  PROVE  LET a == AnswerTo(<<Only>>, n, results)
         IN  /\ a.run = "answer" /\ a.rest = <<Only>>
             /\ a.results \in {<<"ok">>, <<"fail">>, <<"missing">>, <<"raise">>}
<1> DEFINE p == <<Only>>
           u == Uncovered(p, n)
           missing == [i \in DOMAIN u |-> "missing"]
<1>0. p \in Seq(Orders) /\ Len(p) = 1 /\ p[1] = Only
  OBVIOUS
<1>1. ASSUME NEW s \in Seq(Orders), Len(s) = 1, s[1] = Only PROVE s = p
  BY <1>0, <1>1
<1>2. CASE n = 0
  <2>1. u \in Seq(Orders) /\ Len(u) = 1 /\ u[1] = Only
    BY <1>0, <1>2 DEF Uncovered
  <2>2. SubSeq(p, 1, n) \in Seq(Orders) /\ Len(SubSeq(p, 1, n)) = 0
    BY <1>0, <1>2
  <2>3. u \o SubSeq(p, 1, n) = p
    <3> HIDE DEF u, p
    <3>1. u \o SubSeq(p, 1, n) \in Seq(Orders) /\ Len(u \o SubSeq(p, 1, n)) = 1
          /\ (u \o SubSeq(p, 1, n))[1] = Only
      BY <2>1, <2>2
    <3> QED BY <1>1, <3>1
  <2>4. missing = <<"missing">>
    BY <1>1, <2>1
  <2>5. results = <<>>
    BY <1>2
  <2>6. missing \o results = <<"missing">>
    BY <2>4, <2>5
  <2> QED BY <2>3, <2>6 DEF AnswerTo
<1>3. CASE n = 1
  <2>1. u \in Seq(Orders) /\ Len(u) = 0
    BY <1>0, <1>3 DEF Uncovered
  <2>2. SubSeq(p, 1, n) = p
    <3>1. SubSeq(p, 1, n) \in Seq(Orders) /\ Len(SubSeq(p, 1, n)) = 1 /\ SubSeq(p, 1, n)[1] = Only
      BY <1>0, <1>3
    <3> QED BY <1>1, <3>1
  <2>3. u = <<>>
    BY <2>1
  <2>4. u \o SubSeq(p, 1, n) = p
    BY <1>0, <2>2, <2>3
  <2>5. missing = <<>>
    BY <2>3
  <2>6. results \in Seq({"ok", "fail", "raise"}) /\ results = <<results[1]>> /\ results[1] \in {"ok", "fail", "raise"}
    <3>1. results \in [1 .. 1 -> {"ok", "fail", "raise"}] /\ 1 \in 1 .. n
      BY <1>3
    <3>2. results[1] \in {"ok", "fail", "raise"}
      BY <3>1
    <3>3. results \in Seq({"ok", "fail", "raise"}) /\ Len(results) = 1
      BY <3>1
    <3> QED BY <3>2, <3>3
  <2>7. missing \o results = results
    BY <2>5, <2>6
  <2> QED BY <2>4, <2>6, <2>7 DEF AnswerTo
<1> QED BY <1>2, <1>3

\* The answer to the post is queued behind the consumer, and nobody can have been signalled.
LEMMA PlacingRespond ==
  ASSUME PlaceInv, NEW p \in posts, Respond(p), LoopInv'
  PROVE  Placing'
<1>0. /\ p = <<Only>> /\ posts = {p} /\ Only \notin acked /\ ~Some(ready, Working) /\ Placed
      /\ posts' = {} /\ Only \in sent
      /\ UNCHANGED <<sent, acked, evtq, status, cancelling>>
  BY PlaceFacts DEF PlaceInv, Placing, OnePost, Respond, ackVars, engineVars
<1>1. PICK n \in 0 .. 1 : \E results \in [1 .. n -> {"ok", "fail", "raise"}] :
        ready' = Append(ready, AnswerTo(p, n, results))
  <2>1. Len(p) = 1
    BY <1>0
  <2>2. LoopInv
    BY PlaceFacts
  <2>3. PICK n \in 0 .. Len(p) : \E results \in [1 .. n -> {"ok", "fail", "raise"}] :
          ready' = Append(ready, AnswerTo(p, n, results))
    BY <2>2, AnswerTold
  <2> QED BY <2>1, <2>3
<1>2. PICK a : /\ a.run = "answer" /\ a.rest = <<Only>>
               /\ a.results \in {<<"ok">>, <<"fail">>, <<"missing">>, <<"raise">>}
               /\ ready' = Append(ready, a)
  BY <1>0, <1>1, PlaceFacts, OnlyAnswer
<1>3. /\ ready \in Seq(Callback) /\ ready' \in Seq(Callback)
  BY PlaceFacts DEF LoopInv, TypeOK, LoopOK
<1>4. /\ DOMAIN ready' = 1 .. (Len(ready) + 1) /\ ready'[Len(ready) + 1] = a
      /\ \A i \in DOMAIN ready : ready'[i] = ready[i]
  BY <1>2, <1>3
<1>5. \A i \in DOMAIN ready' : ready'[i] \in Working => i = Len(ready) + 1
  BY <1>0, <1>3, <1>4 DEF Some
<1>6. OneAnswer'
  BY <1>0, <1>2, <1>4, <1>5 DEF OneAnswer
<1>7. EngineBetween'
  <2>1. \A i \in DOMAIN ready' : ready'[i].run # "resume"
    BY <1>0, <1>2, <1>3, <1>4, PlaceFacts
  <2>2. \A j \in DOMAIN ready' : ready'[j].run = "engine" => j < Len(ready) + 1
    BY <1>2, <1>3, <1>4
  <2> QED BY <1>3, <1>5, <2>1, <2>2 DEF EngineBetween
<1>8. Unplaced' /\ OnePost' /\ Phases'
  BY <1>0 DEF Unplaced, OnePost, Phases, Placed, PlaceInv, Placing
<1> QED BY <1>6, <1>7, <1>8 DEF Placing

\* While an answer is at the head of the loop the engine has nothing to do.
LEMMA AnswerRuns ==
  ASSUME PlaceInv, ready # <<>>, Head(ready) \in Working
  PROVE  /\ posts = {} /\ Only \in sent /\ evtq = <<>> /\ status[Only] = "SUBMITTED"
         /\ Head(ready).rest = <<Only>> /\ Head(Head(ready).rest) = Only
         /\ Head(ready).results \in {<<"ok">>, <<"fail">>, <<"missing">>, <<"raise">>}
         /\ Only \in acked => Head(ready).results = <<"ok">>
         /\ \A i \in DOMAIN ready : ready[i].run # "engine" /\ (ready[i] \in Working => i = 1)
         /\ \A i \in DOMAIN Tail(ready) : Tail(ready)[i] \notin Working
         /\ NextResult(Head(ready)).rest = <<>> /\ NextResult(Head(ready)).run = "answer"
         /\ NextResult(Head(ready)) \in Callback
<1> DEFINE a == Head(ready)
<1>0. ready \in Seq(Callback) /\ 1 \in DOMAIN ready /\ ready[1] = a
  BY PlaceFacts
<1>1. Some(ready, Working)
  BY <1>0 DEF Some
<1>2. \A i \in DOMAIN ready : ready[i].run # "engine"
  BY <1>0 DEF PlaceInv, Placing, EngineBetween
<1>3. \A i \in DOMAIN ready : ready[i] \in Working => i = 1
  BY <1>0 DEF PlaceInv, Placing, OneAnswer
<1>4. evtq = <<>> /\ status[Only] = "SUBMITTED" /\ posts = {} /\ Only \in sent
  BY <1>1, <1>2, PlaceFacts DEF PlaceInv, Placing, OnePost, Placed
<1>5. /\ a.rest = <<Only>> /\ a.results \in {<<"ok">>, <<"fail">>, <<"missing">>, <<"raise">>}
      /\ Only \in acked => a.results = <<"ok">>
  BY <1>0 DEF PlaceInv, Placing, OneAnswer
<1>6. \A i \in DOMAIN Tail(ready) : Tail(ready)[i] \notin Working
  BY <1>0, <1>3
<1>7. a.run = "answer" /\ a.rest # <<>> /\ a \in Answer
  BY <1>0, PlaceFacts, AnswerHead DEF Working
<1>8. NextResult(a).run = "answer" /\ NextResult(a) \in Callback
  BY <1>7, PlaceFacts, AnswerHead
<1>9. NextResult(a).rest = Tail(a.rest)
  BY <1>7 DEF NextResult, Answer
<1>10. Head(a.rest) = Only /\ Tail(a.rest) = <<>>
  <2>1. a.rest \in Seq(Orders) /\ Len(a.rest) = 1 /\ a.rest[1] = Only
    BY <1>5, <1>7 DEF Answer
  <2>2. Tail(a.rest) \in Seq(Orders) /\ Len(Tail(a.rest)) = 0 /\ Head(a.rest) = a.rest[1]
    BY <2>1
  <2>3. ASSUME NEW s \in Seq(Orders), Len(s) = 0 PROVE s = <<>>
    BY <2>3
  <2> HIDE DEF a
  <2>4. Tail(a.rest) = <<>>
    BY <2>2, <2>3
  <2>5. Head(a.rest) = Only
    BY <2>1, <2>2
  <2> QED BY <2>4, <2>5
<1> QED BY <1>2, <1>3, <1>4, <1>5, <1>6, <1>8, <1>9, <1>10

\* The answer rejects or acknowledges the order before the engine can get anything else.
LEMMA PlacingRunAnswer ==
  ASSUME PlaceInv, RunAnswer, LoopInv'
  PROVE  Placing'
<1> DEFINE a == Head(ready)
           b == NextResult(a)
<1>0. /\ ready # <<>> /\ a.run = "answer" /\ a \in Answer /\ a \in Callback
      /\ UNCHANGED <<sent, posts, status, cancelling>>
      /\ ready \in Seq(Callback) /\ ready' \in Seq(Callback)
  BY PlaceFacts, AnswerHead, Dequeue DEF RunAnswer, Running, commandVars, engineVars, LoopInv, TypeOK, LoopOK
<1>1. CASE a.rest = <<>> /\ ready' = Tail(ready) /\ UNCHANGED <<acked, evtq>>
  <2>1. a \notin Working
    BY <1>1 DEF Working
  <2>2. Shifted(Tail(ready))
    BY <1>0, <2>1, ShiftedOf
  <2>3. <<>> \in Seq(EngineEvent) /\ Generate(Tail(ready), <<>>)
    BY <1>1, PlaceFacts DEF Generate
  <2>4. cancelling' # {} => status[Only] \in Applied
    BY <1>0 DEF PlaceInv, Placing, Phases
  <2> QED BY <1>0, <1>1, <2>2, <2>3, <2>4, PlacingKept
<1>2. CASE a.rest # <<>>
  <2>0. a \in Working
    BY <1>0, <1>2 DEF Working
  <2>1. /\ posts = {} /\ Only \in sent /\ evtq = <<>> /\ status[Only] = "SUBMITTED" /\ Head(a.rest) = Only
        /\ a.results \in {<<"ok">>, <<"fail">>, <<"missing">>, <<"raise">>}
        /\ Only \in acked => a.results = <<"ok">>
        /\ \A i \in DOMAIN ready : ready[i].run # "engine" /\ (ready[i] \in Working => i = 1)
        /\ \A i \in DOMAIN Tail(ready) : Tail(ready)[i] \notin Working
        /\ b.rest = <<>> /\ b.run = "answer" /\ b \in Callback
    BY <1>0, <2>0, AnswerRuns
  <2>2. Head(a.results) \in {"ok", "fail", "missing", "raise"} /\ (Only \in acked => Head(a.results) = "ok")
    BY <2>1
  <2>3. ASSUME \A i \in DOMAIN ready' : ready'[i] \notin Working
        PROVE  OneAnswer' /\ ~Some(ready', Working)
    BY <2>3 DEF OneAnswer, Some
  <2>4. Unplaced'
    BY <1>0, <2>1 DEF Unplaced
  <2>5. \A i \in DOMAIN (<<b>> \o Tail(ready)) :
          (<<b>> \o Tail(ready))[i] = b \/ \E j \in DOMAIN Tail(ready) : (<<b>> \o Tail(ready))[i] = Tail(ready)[j]
    BY <1>0, <2>1
  <2>6. \A i \in DOMAIN (<<b>> \o Tail(ready)) :
          (<<b>> \o Tail(ready))[i].run # "engine" /\ (<<b>> \o Tail(ready))[i] \notin Working
    <3>1. b \notin Working
      BY <2>1 DEF Working
    <3>2. \A j \in DOMAIN Tail(ready) : Tail(ready)[j].run # "engine"
      BY <1>0, <2>1
    <3> QED BY <2>1, <2>5, <3>1, <3>2
  <2>7. CASE /\ Head(a.results) \in {"missing", "fail"} /\ acked' = acked
             /\ Generate(<<b>> \o Tail(ready), <<Event("Rejected", Only)>>)
    <3> DEFINE q == <<b>> \o Tail(ready)
    <3>0. q \in Seq(Callback)
      BY <1>0, <2>1
    <3>1. /\ evtq' = <<Event("Rejected", Only)>> /\ \A i \in DOMAIN evtq' : evtq'[i].e \in FirstEvents
          /\ ready' = Append(q, [run |-> "engine"])
      BY <2>1, <2>7, PlaceFacts, OnlyEvent DEF Generate, FirstEvents, EventTypes
    <3>2. Only \notin acked
      BY <2>2, <2>7
    <3>3. [run |-> "engine"] \notin Working
      BY DEF Working
    <3>4. \A i \in DOMAIN ready' : (i \in DOMAIN q /\ ready'[i] = q[i]) \/ ready'[i] = [run |-> "engine"]
      <4> DEFINE e == [run |-> "engine"]
      <4>1. e \in Callback
        BY DEF Callback
      <4> HIDE DEF e, q
      <4> QED BY <3>0, <3>1, <4>1
    <3>5. \A i \in DOMAIN ready' : ready'[i] \notin Working /\ ready'[i].run # "resume"
      <4>1. \A i \in DOMAIN q : q[i].run # "resume"
        <5>1. \A j \in DOMAIN Tail(ready) : Tail(ready)[j].run # "resume"
          BY <1>0, <3>2, HeadTail, PlaceFacts
        <5> QED BY <2>1, <2>5, <5>1
      <4> QED BY <2>6, <3>3, <3>4, <4>1
    <3>6. EngineBetween'
      BY <3>5 DEF EngineBetween
    <3>7. OnePost' /\ OneAnswer'
      BY <1>0, <2>1, <2>3, <3>5 DEF OnePost
    <3>8. Phases'
      BY <1>0, <2>1, <2>7, <3>1, <3>2 DEF Phases, PlaceInv, Placing, Applied
    <3> QED BY <2>4, <3>6, <3>7, <3>8 DEF Placing
  <2>8. ASSUME Only \in acked', acked' = acked \/ ready' = ready, evtq' = evtq,
               \A i \in DOMAIN ready' : ready'[i].run # "engine",
               Head(a.results) = "ok",
               \A i \in DOMAIN ready' : ready'[i] \in Working => i = 1 /\ ready'[i] = a
        PROVE  Placing'
    <3>1. EngineBetween'
      BY <2>8 DEF EngineBetween
    <3>2. a.results = <<"ok">> /\ a.rest = <<Only>>
      BY <1>0, <2>0, <2>1, <2>8, AnswerRuns
    <3>3. OneAnswer'
      BY <2>8, <3>2 DEF OneAnswer
    <3>4. OnePost'
      BY <1>0, <2>1, <2>8 DEF OnePost, Placed
    <3>5. Phases'
      BY <1>0, <2>1, <2>8 DEF Phases, PlaceInv, Placing
    <3> QED BY <2>4, <3>1, <3>3, <3>4, <3>5 DEF Placing
  <2>9. CASE Head(a.results) = "ok" /\ acked' = acked \union {Only} /\ UNCHANGED <<ready, evtq>>
    BY <1>0, <2>1, <2>8, <2>9
  <2>10. CASE Head(a.results) = "ok" /\ Only \in acked /\ acked' = acked /\ Wake(Only) /\ evtq' = evtq
    <3>1. PICK c : ready' = Append(ready, c) /\ c.run = "resume"
      BY <2>10 DEF Wake
    <3>2. \A i \in DOMAIN ready' : (i \in DOMAIN ready /\ ready'[i] = ready[i]) \/ ready'[i] = c
      BY <1>0, <3>1
    <3>3. c \notin Working
      BY <3>1 DEF Working
    <3> QED BY <1>0, <2>1, <2>8, <2>10, <3>1, <3>2, <3>3
  <2>11. CASE Head(a.results) = "ok" /\ Only \in acked /\ acked' = acked /\ evtq' = evtq
              /\ ready' = <<b>> \o Tail(ready)
    BY <2>6, <2>8, <2>11
  <2>12. CASE Head(a.results) = "raise" /\ acked' = acked /\ evtq' = evtq
              /\ ready' = <<b>> \o Tail(ready)
    <3>1. OneAnswer' /\ ~Some(ready', Working) /\ EngineBetween'
      <4>1. \A i \in DOMAIN ready' : ready'[i].run # "engine" /\ ready'[i] \notin Working
        BY <2>6, <2>12
      <4> QED BY <2>3, <4>1 DEF EngineBetween
    <3>2. OnePost'
      BY <1>0, <2>1, <3>1 DEF OnePost
    <3>3. Phases'
      BY <1>0, <2>12 DEF Phases, PlaceInv, Placing
    <3> QED BY <2>4, <3>1, <3>2, <3>3 DEF Placing
  <2>13. Only \notin batched
    BY DEF PlaceInv
  <2> QED BY <1>2, <2>1, <2>2, <2>7, <2>9, <2>10, <2>11, <2>12, <2>13 DEF RunAnswer, ackVars
<1> QED BY <1>1, <1>2 DEF RunAnswer, ackVars

\* The engine at the head of the loop has an event.
LEMMA EngineHead ==
  ASSUME PlaceInv, Running("engine")
  PROVE  /\ ready # <<>> /\ Head(ready) \notin Working /\ evtq # <<>>
         /\ Head(evtq) \in EngineEvent /\ Head(evtq) = evtq[1] /\ 1 \in DOMAIN evtq /\ Head(evtq).o = Only
         /\ Only \in sent
         /\ \A i \in DOMAIN Tail(evtq) : i + 1 \in DOMAIN evtq /\ Tail(evtq)[i] = evtq[i + 1]
         /\ \A i \in DOMAIN ready : ready[i].run # "resume"
<1>1. ready # <<>> /\ Head(ready).run = "engine" /\ 1 \in DOMAIN ready /\ ready[1] = Head(ready)
  BY PlaceFacts DEF Running
<1>2. evtq # <<>>
  BY <1>1, PlaceFacts
<1>3. /\ Head(evtq) \in EngineEvent /\ Head(evtq) = evtq[1] /\ 1 \in DOMAIN evtq
      /\ \A i \in DOMAIN Tail(evtq) : i + 1 \in DOMAIN evtq /\ Tail(evtq)[i] = evtq[i + 1]
  BY <1>2, PlaceFacts
<1>4. Head(evtq).o = Only
  BY <1>3, PlaceFacts DEF EngineEvent
<1>5. \A i \in DOMAIN ready : ready[i].run # "resume"
  BY <1>1, PlaceFacts DEF PlaceInv, Placing, EngineBetween
<1>6. Only \in sent
  BY <1>2 DEF PlaceInv, Placing, Unplaced
<1>7. Head(ready) \notin Working
  BY <1>1 DEF Working
<1> QED BY <1>1, <1>2, <1>3, <1>4, <1>5, <1>6, <1>7

\* What the engine does with the event at the head of its queue.
LEMMA EngineMoves ==
  ASSUME PlaceInv, RunEngine
  PROVE  LET ev == Head(evtq)
         IN  /\ status' = [status EXCEPT ![Only] = status'[Only]]
             /\ \/ ev.e = "Filled" /\ status'[Only] \in {"FILLED", "CANCELED", "PARTIALLY_FILLED"}
                \/ ev.e # "Filled" /\ status'[Only] = Target(ev.e) /\ Legal(ev.e, status[Only])
                \/ status' = status /\ (ev.e # "Filled" => ~Legal(ev.e, status[Only]))
<1> DEFINE ev == Head(evtq)
<1>0. ev.o = Only /\ status \in [Orders -> OrderStatuses] /\ Only \in Orders
  BY PlaceFacts, EngineHead DEF RunEngine, LoopInv, TypeOK, EngineOK
<1>1. \A ids : FillStatus(Only, ids) \in {"FILLED", "CANCELED", "PARTIALLY_FILLED"}
  BY DEF FillStatus
<1> QED BY <1>0, <1>1 DEF RunEngine, engineVars

\* The engine applies the submission before any later event.
LEMMA PlacingRunEngine ==
  ASSUME PlaceInv, RunEngine
  PROVE  Placing'
<1> DEFINE ev == Head(evtq)
<1>0. /\ UNCHANGED <<sent, posts, acked, cancelling>> /\ evtq' = Tail(evtq)
      /\ ready' = ready \/ ready' = Tail(ready)
      /\ Running("engine")
  BY DEF RunEngine, commandVars, ackVars
<1>1. /\ ready # <<>> /\ Head(ready) \notin Working /\ evtq # <<>>
      /\ ev = evtq[1] /\ 1 \in DOMAIN evtq /\ Only \in sent
      /\ \A i \in DOMAIN Tail(evtq) : i + 1 \in DOMAIN evtq /\ Tail(evtq)[i] = evtq[i + 1]
  BY <1>0, EngineHead
<1>2. Shifted(ready')
  BY <1>0, <1>1, PlaceFacts, ShiftedOf
<1>3. /\ Some(ready', Working) => Some(ready, Working)
      /\ OneAnswer' /\ EngineBetween'
  BY <1>0, <1>2, ShiftedKept
<1>4. \/ ev.e = "Filled" /\ status'[Only] \in {"FILLED", "CANCELED", "PARTIALLY_FILLED"}
      \/ ev.e # "Filled" /\ status'[Only] = Target(ev.e) /\ Legal(ev.e, status[Only])
      \/ status' = status /\ (ev.e # "Filled" => ~Legal(ev.e, status[Only]))
  BY EngineMoves
<1>5. OnePost'
  <2>1. ASSUME Placed PROVE Placed'
    <3>1. evtq = <<Event("Submitted", Only)>> /\ status[Only] = "INITIALIZED"
      BY <1>1, <2>1 DEF Placed
    <3>2. ev.e = "Submitted" /\ Tail(evtq) = <<>>
      <4>1. Len(evtq) = 1 /\ evtq[1] = Event("Submitted", Only)
        BY <3>1
      <4> QED BY <1>1, <4>1, PlaceFacts DEF Event
    <3>3. status'[Only] = "SUBMITTED"
      BY <1>4, <3>1, <3>2 DEF Target, Legal
    <3> QED BY <1>0, <3>2, <3>3 DEF Placed
  <2> QED BY <1>0, <1>3, <2>1 DEF PlaceInv, Placing, OnePost
<1>6. Unplaced'
  BY <1>0, <1>1 DEF Unplaced
<1>7. Phases'
  <2>1. CASE Only \notin acked
    <3>1. ev.e \in FirstEvents /\ \A i \in DOMAIN evtq' : evtq'[i].e \in FirstEvents
      BY <1>0, <1>1, <2>1 DEF PlaceInv, Placing, Phases
    <3>2. status[Only] \notin Applied /\ cancelling = {}
      BY <2>1 DEF PlaceInv, Placing, Phases
    <3>3. status'[Only] \notin Applied
      BY <1>4, <3>1, <3>2 DEF FirstEvents, Target, Applied
    <3> QED BY <1>0, <2>1, <3>1, <3>2, <3>3 DEF Phases
  <2>2. CASE Only \in acked
    <3>1. ev.e \in LaterEvents /\ \A i \in DOMAIN evtq' : evtq'[i].e \in LaterEvents
      BY <1>0, <1>1, <2>2 DEF PlaceInv, Placing, Phases
    <3>2. status[Only] \in Applied \union {"SUBMITTED"} /\ (cancelling # {} => status[Only] \in Applied)
      BY <2>2 DEF PlaceInv, Placing, Phases
    <3>3. status'[Only] \in Applied \/ status' = status
      BY <1>4, <3>1 DEF LaterEvents, Target, Applied, Legal
    <3> QED BY <1>0, <2>2, <3>1, <3>2, <3>3 DEF Phases
  <2> QED BY <2>1, <2>2
<1> QED BY <1>3, <1>5, <1>6, <1>7 DEF Placing

-----------------------------------------------------------------------------
\* The trades of the order at the venue, those handed over, those still owed.
Matched == VenueFills(Only)
FilledEvent(t) == [e |-> "Filled", o |-> Only, t |-> t]
Given(t) == handed[<<t, Only>>] > 0
Owed == {t \in Matched : ~Given(t)}

\* What the engine holds, or is about to, was handed over, and only that; the dedup caches
\* know no other trade.  The venue fills no more than the quantity.
EngineGiven ==
  /\ \A t \in Trades : t \in tradeIds[Only] \/ InSeq(evtq, FilledEvent(t)) => t \in Matched /\ Given(t)
  /\ \A t \in Matched : Given(t) => t \in tradeIds[Only] \/ InSeq(evtq, FilledEvent(t))
  /\ \A t \in Trades : <<t, Only>> \in Fills /\ Given(t) => t \in Matched
CachesGiven ==
  \A t \in Trades : InSeq(finalizedTrades, t) \/ Entry(t) # {} \/ InSeq(processedFills, <<t, Only>>)
                      => t \in Matched /\ Given(t)
MatchedFits ==
  /\ IsFiniteSet(Matched) /\ Cardinality(Matched) <= Qty[Only]
  /\ venue[Only] = "live" => Cardinality(Matched) < Qty[Only]
  /\ venue[Only] = "absent" => Matched = {}
FilledWhenAll == status[Only] = "FILLED" <=> Cardinality(tradeIds[Only]) >= Qty[Only]
Counting == EngineGiven /\ CachesGiven /\ MatchedFits /\ FilledWhenAll

\* The order is taken out of the book with a cancellation on its way, or filled.
CancelTold == InSeq(evtq, Event("Canceled", Only))
Cancelling ==
  /\ OnWay(Cancels) \/ CancelTold \/ status[Only] = "CANCELED" => venue[Only] = "gone"
  /\ venue[Only] = "gone" => \/ Cardinality(Matched) >= Qty[Only]
                             \/ OnWay(Cancels) \/ CancelTold \/ status[Only] \in {"CANCELED", "FILLED"}

\* What is owed precedes the cancellation: on its way, when the engine is told, when it knows.
Ordered ==
  /\ \A t \in Owed : Ahead(t)
  /\ CancelTold => \A t \in Owed : Some(ready, Calls("resume", FillsBy(t)))
  /\ status[Only] = "CANCELED" => Owed = {}

AgreeInv == PlaceInv /\ Counting /\ Cancelling /\ Ordered

\* A filled order is owed nothing.
LEMMA FilledOwedNothing ==
  ASSUME AgreeInv
  PROVE  /\ tradeIds[Only] \subseteq Matched /\ IsFiniteSet(tradeIds[Only])
         /\ status[Only] = "FILLED" => tradeIds[Only] = Matched
         /\ status[Only] \in {"FILLED", "CANCELED"} => Owed = {}
<1>1. tradeIds[Only] \subseteq Matched
  <2>1. tradeIds[Only] \subseteq Trades
    BY PlaceFacts DEF AgreeInv, LoopInv, TypeOK, EngineOK
  <2> QED BY <2>1 DEF AgreeInv, Counting, EngineGiven
<1>2. IsFiniteSet(tradeIds[Only])
  BY <1>1, FS_Subset DEF AgreeInv, Counting, MatchedFits
<1>3. ASSUME status[Only] = "FILLED" PROVE tradeIds[Only] = Matched
  <2>1. /\ IsFiniteSet(Matched) /\ Cardinality(Matched) <= Qty[Only]
        /\ Cardinality(tradeIds[Only]) >= Qty[Only]
    BY <1>3 DEF AgreeInv, Counting, MatchedFits, FilledWhenAll
  <2>2. Qty[Only] \in Nat
    BY PlaceFacts, ConstantsAssumption DEF AgreeInv
  <2>3. Cardinality(Matched) \in Nat /\ Cardinality(tradeIds[Only]) \in Nat
    BY <1>2, <2>1, FS_CardinalityType
  <2>4. Cardinality(tradeIds[Only]) <= Cardinality(Matched)
    BY <1>1, <2>1, FS_Subset
  <2> QED BY <1>1, <2>1, <2>2, <2>3, <2>4, FS_Subset
<1>4. ASSUME status[Only] = "FILLED" PROVE Owed = {}
  BY <1>3, <1>4 DEF Owed, AgreeInv, Counting, EngineGiven, Matched, VenueFills
<1> QED BY <1>1, <1>2, <1>3, <1>4 DEF AgreeInv, Ordered

\* A task at the head of the loop, its order acknowledged.
AtHead(task) ==
  /\ Running("start") \/ Running("resume")
  /\ task = Head(ready).task /\ Only \in acked

\* When a task is handled its order is neither posted nor answered, and nobody waits.
LEMMA AtHeadFacts ==
  ASSUME AgreeInv, NEW task, AtHead(task)
  PROVE  /\ ready # <<>> /\ Head(ready) \in Callback /\ Head(ready).run \in {"start", "resume"}
         /\ task \in Task /\ task.o = Only /\ AboutAnnounced(task)
         /\ task.kind = "trade" => task.t \in Matched /\ <<task.t, Only>> \in Fills
         /\ posts = {} /\ ~Some(ready, Working) /\ Only \in sent /\ waiting = <<>>
         /\ Tail(ready) \in Seq(Callback) /\ Shifted(Tail(ready))
         /\ status[Only] \in Applied \union {"SUBMITTED"}
<1>0. /\ ready # <<>> /\ Head(ready) \in Callback /\ Head(ready).run \in {"start", "resume"}
      /\ ready \in Seq(Callback) /\ 1 \in DOMAIN ready /\ ready[1] = Head(ready)
      /\ Tail(ready) \in Seq(Callback) /\ ~Running("answer")
  BY PlaceFacts DEF AgreeInv, AtHead, Running
<1>1. task \in Task /\ task.o = Only
  BY PlaceFacts, HeadTask DEF AgreeInv, AtHead
<1>2. AboutAnnounced(task)
  BY <1>0 DEF AgreeInv, PlaceInv, Origins, AtHead
<1>3. task.kind = "trade" => task.t \in Matched /\ <<task.t, Only>> \in Fills
  <2>1. task.kind = "trade" => task.t \in Trades /\ <<task.t, Only>> \in Fills
    BY <1>1 DEF Task, OrderTask, TradeTask
  <2> QED BY <1>2, <2>1 DEF AboutAnnounced, Announced, Matched, VenueFills, Fills
<1>4. posts = {} /\ Only \in acked
  BY DEF AgreeInv, PlaceInv, Placing, OnePost, AtHead
<1>5. ~Some(ready, Working)
  <2>1. Head(ready) \notin Working
    BY <1>0 DEF Working
  <2> QED BY <1>0, <1>4, <2>1 DEF Some, AgreeInv, PlaceInv, Placing, OneAnswer
<1>6. Only \in sent /\ status[Only] \in Applied \union {"SUBMITTED"}
  BY <1>4 DEF AgreeInv, PlaceInv, Placing, Unplaced, Phases
<1>7. waiting = <<>>
  <2>1. \A i \in DOMAIN waiting : waiting[i].task.o \notin acked
    BY <1>0, NoneAcknowledged DEF AgreeInv, PlaceInv
  <2>2. waiting \in Seq(Waiter) /\ \A i \in DOMAIN waiting : waiting[i].task.o = Only
    BY PlaceFacts, WaiterType DEF AgreeInv, LoopInv, TypeOK, AcksOK
  <2> QED BY <1>4, <2>1, <2>2
<1>8. Shifted(Tail(ready))
  <2>1. Head(ready) \notin Working
    BY <1>0 DEF Working
  <2> QED BY <1>0, <2>1, ShiftedOf
<1> QED BY <1>0, <1>1, <1>2, <1>3, <1>4, <1>5, <1>6, <1>7, <1>8

\* What the handler may do: nothing that is still needed, tell the engine of a status, or hand over a fill.
SkipsIt(task) ==
  /\ ready' = Tail(ready) /\ evtq' = evtq
  /\ task.kind = "trade" => task.t \notin Owed
  /\ task \in Cancels => status[Only] = "CANCELED"
  /\ UNCHANGED <<handed, dedupVars>>
TellsStatus(task) ==
  /\ task.kind = "order"
  /\ \E e \in {"Accepted", "Canceled"} : /\ Generate(Tail(ready), <<Event(e, Only)>>)
                                         /\ e = "Canceled" <=> task \in Cancels
  /\ UNCHANGED <<handed, dedupVars>>
HandsFill(task) ==
  /\ task.kind = "trade"
  /\ Generate(Tail(ready), <<FilledEvent(task.t)>>)
  /\ handed' = [handed EXCEPT ![<<task.t, Only>>] = @ + 1]
  /\ RecordProcessedFill(<<task.t, Only>>)
  /\ RecordProcessedTrade(task.t, task.s)

\* ... of which a skipped fill is not owed, and a skipped cancellation is known.
LEMMA HandleDoes ==
  ASSUME AgreeInv, NEW task, AtHead(task), Handle(task, Tail(ready))
  PROVE  SkipsIt(task) \/ TellsStatus(task) \/ HandsFill(task)
<1>0. /\ task \in Task /\ task.o = Only /\ Only \in acked
      /\ task.kind = "trade" => task.t \in Matched /\ <<task.t, Only>> \in Fills
      /\ status[Only] \in Applied \union {"SUBMITTED"} /\ evtq \in Seq(EngineEvent)
  BY AtHeadFacts, PlaceFacts DEF AtHead, AgreeInv
<1>1. CASE task.kind = "order"
  <2>0. task \in OrderTask /\ task.typ \in OrderMsgTypes
    BY <1>0, <1>1 DEF Task, OrderTask, TradeTask
  <2>1. CASE OrderMsgSkipped(task)
    <3>1. Generate(Tail(ready), <<>>) /\ UNCHANGED <<dedupVars, handed>>
      BY <1>0, <1>1, <2>1 DEF Handle, OrderUpdate
    <3>2. ready' = Tail(ready) /\ evtq' = evtq
      BY <1>0, <3>1 DEF Generate
    <3>3. task \in Cancels => status[Only] = "CANCELED"
      BY <1>0, <2>1 DEF OrderMsgSkipped, Cancels
    <3> QED BY <1>1, <3>1, <3>2, <3>3 DEF SkipsIt
  <2>2. CASE ~OrderMsgSkipped(task)
    <3> DEFINE e == IF task.typ = "PLACEMENT" THEN "Accepted" ELSE "Canceled"
    <3>1. Generate(Tail(ready), <<Event(e, Only)>>) /\ UNCHANGED <<dedupVars, handed>>
      BY <1>0, <1>1, <2>2 DEF Handle, OrderUpdate
    <3>2. e \in {"Accepted", "Canceled"} /\ (e = "Canceled" <=> task \in Cancels)
      BY <2>0 DEF Cancels, OrderMsgTypes
    <3> QED BY <1>1, <3>1, <3>2 DEF TellsStatus
  <2> QED BY <2>1, <2>2
<1>2. CASE task.kind # "order"
  <2>0. task.kind = "trade" /\ task \notin Cancels
    BY <1>0, <1>2 DEF Task, OrderTask, TradeTask, Cancels
  <2>1. TradeFill(task, Tail(ready))
    BY <1>2 DEF Handle
  <2>2. ASSUME FillKnown(task) \/ task.t \in tradeIds[Only]
        PROVE  task.t \notin Owed
    BY <1>0, <2>0, <2>2 DEF FillKnown, Owed, AgreeInv, Counting, CachesGiven, EngineGiven, Matched, VenueFills
  <2>3. ASSUME IsClosed(Only) PROVE Owed = {}
    <3>1. status[Only] \in {"FILLED", "CANCELED"}
      BY <1>0, <2>3 DEF IsClosed, ClosedStatuses, Applied
    <3> QED BY <3>1, FilledOwedNothing
  <2>4. CASE ready' = Tail(ready) /\ UNCHANGED <<dedupVars, evtq, handed>> /\ task.t \notin Owed
    BY <2>0, <2>4 DEF SkipsIt
  <2> QED BY <1>0, <2>0, <2>1, <2>2, <2>3, <2>4 DEF TradeFill, HandsFill, FilledEvent
<1> QED BY <1>1, <1>2

\* What the handler of a message may do.
StartsOrder(m) ==
  /\ m.kind = "order"
  /\ ready' = Append(Tail(ready), [run |-> "start", task |-> m])
  /\ UNCHANGED dedupVars
DropsTrade(m) ==
  /\ m.kind = "trade" /\ ready' = Tail(ready)
  /\ \/ Ignored(m) /\ UNCHANGED dedupVars
     \/ Finalizes(m) /\ RecordProcessedTrade(m.t, m.s) /\ UNCHANGED processedFills
StartsTrade(m) ==
  /\ m.kind = "trade"
  /\ \E starts \in Seq(Callback) :
       /\ ready' = Tail(ready) \o starts
       /\ \A i \in DOMAIN starts : /\ starts[i].run = "start" /\ starts[i].task.kind = "trade"
                                   /\ starts[i].task.t = m.t /\ starts[i].task.s = m.s
       /\ Only \in OrdersOf(m.t) => 1 \in DOMAIN starts
  /\ UNCHANGED dedupVars

\* ... and changes nothing else.
LEMMA MessageDoes ==
  ASSUME LoopInv, RunMessage
  PROVE  LET m == Head(ready).msg
         IN  /\ ready # <<>> /\ Head(ready) \in Callback /\ Head(ready).run = "ws" /\ m \in Message
             /\ Tail(ready) \in Seq(Callback) /\ ready \in Seq(Callback)
             /\ UNCHANGED <<sent, posts, cancelling, acked, waiting, evtq, status, tradeIds, venue,
                            tradeStatus, wire, handed>>
             /\ StartsOrder(m) \/ DropsTrade(m) \/ StartsTrade(m)
<1> DEFINE m == Head(ready).msg
           l == FilledOrders[m.t]
           started(n) == [run |-> "start", task |-> [kind |-> "trade", o |-> l[n], t |-> m.t, s |-> m.s]]
           starts == [n \in DOMAIN l |-> started(n)]
<1>0. /\ ready # <<>> /\ Head(ready) \in Callback /\ Head(ready).run = "ws" /\ m \in Message
      /\ Tail(ready) \in Seq(Callback) /\ ready \in Seq(Callback)
  BY HeadMessage, Dequeue DEF RunMessage, Running, LoopInv, TypeOK, LoopOK
<1>1. UNCHANGED <<sent, posts, cancelling, acked, waiting, evtq, status, tradeIds, venue,
                  tradeStatus, wire, handed>>
  BY DEF RunMessage, commandVars, ackVars, engineVars, venueVars
<1>2. CASE m.kind = "order"
  BY <1>0, <1>1, <1>2 DEF RunMessage, StartsOrder
<1>3. CASE m.kind = "trade"
  <2>1. m.t \in Trades /\ m.s \in TradeStatuses /\ l \in Seq(Orders)
    BY <1>0, <1>3, ConstantsAssumption DEF Message, OrderTask
  <2>2. ASSUME NEW n \in DOMAIN l PROVE started(n) \in Callback
    <3>1. l[n] \in Orders /\ l[n] \in OrdersOf(m.t)
      BY <2>1, <2>2 DEF OrdersOf
    <3>2. <<m.t, l[n]>> \in Fills
      BY <2>1, <3>1 DEF Fills
    <3>3. [kind |-> "trade", o |-> l[n], t |-> m.t, s |-> m.s] \in Task
      BY <2>1, <3>1, <3>2 DEF Task, TradeTask
    <3> QED BY <3>3 DEF Callback
  <2>3. starts \in Seq(Callback) /\ DOMAIN starts = DOMAIN l /\ \A n \in DOMAIN l : starts[n] = started(n)
    <3>1. DOMAIN l = 1 .. Len(l) /\ Len(l) \in Nat
      BY <2>1
    <3> HIDE DEF started, l
    <3> QED BY <2>2, <3>1
  <2>4. Only \in OrdersOf(m.t) => 1 \in DOMAIN l
    BY <2>1 DEF OrdersOf
  <2>5. CASE ready' = Tail(ready) \o starts /\ UNCHANGED dedupVars
    <3>1. \A n \in DOMAIN l : /\ started(n).run = "start" /\ started(n).task.kind = "trade"
                              /\ started(n).task.t = m.t /\ started(n).task.s = m.s
      OBVIOUS
    <3> HIDE DEF starts, started
    <3>2. StartsTrade(m)
      BY <1>3, <2>3, <2>4, <2>5, <3>1 DEF StartsTrade
    <3> QED BY <1>0, <1>1, <3>2
  <2>6. TradeMessage(m, Tail(ready))
    BY <1>3 DEF RunMessage
  <2> QED BY <1>0, <1>1, <1>3, <2>5, <2>6 DEF TradeMessage, DropsTrade
<1> QED BY <1>2, <1>3, <1>0 DEF Message, OrderTask

\* What a task may do, before or after its wait: wait, or be handled at the head of the loop.
AwaitsAck(task) ==
  /\ Running("start") /\ Only \notin acked
  /\ waiting' = Append(waiting, [task |-> task, attached |-> TRUE])
  /\ ready' = Tail(ready)
  /\ UNCHANGED <<evtq, dedupVars, handed>>

\* ... and none is left waiting once one is handled.
LEMMA TaskDoes ==
  ASSUME AgreeInv, RunStart \/ RunResume
  PROVE  LET task == Head(ready).task
         IN  /\ UNCHANGED <<sent, posts, cancelling, acked, status, tradeIds, venue, tradeStatus, wire>>
             /\ \/ AwaitsAck(task)
                \/ /\ AtHead(task) /\ waiting' = <<>>
                   /\ SkipsIt(task) \/ TellsStatus(task) \/ HandsFill(task)
<1> DEFINE task == Head(ready).task
<1>0. UNCHANGED <<sent, posts, cancelling, acked, status, tradeIds, venue, tradeStatus, wire>>
  BY DEF RunStart, RunResume, commandVars, engineVars, venueVars
<1>1. task \in Task /\ task.o = Only /\ ready # <<>>
  BY PlaceFacts, HeadTask DEF AgreeInv, RunStart, RunResume, Running
<1>2. CASE RunStart /\ Only \notin acked
  BY <1>0, <1>1, <1>2 DEF RunStart, AwaitsAck
<1>3. CASE RunStart /\ Only \in acked
  <2>1. AtHead(task) /\ Handle(task, Tail(ready)) /\ waiting' = waiting
    BY <1>1, <1>3 DEF RunStart, AtHead
  <2> QED BY <1>0, <2>1, HandleDoes, AtHeadFacts
<1>4. CASE RunResume
  <2>0. Only \in acked
    BY <1>1, <1>4, PlaceFacts DEF RunResume, Running, AgreeInv
  <2>1. AtHead(task) /\ Handle(task, Tail(ready))
    BY <1>4, <2>0 DEF RunResume, AtHead
  <2>2. waiting = <<>>
    BY <2>1, AtHeadFacts
  <2>3. waiting' = <<>>
    BY <1>4, <2>2 DEF RunResume
  <2> QED BY <1>0, <2>1, <2>3, HandleDoes
<1> QED BY <1>2, <1>3, <1>4

\* A task has only later events generated, and only for an acknowledged order.
LEMMA PlacingTask ==
  ASSUME AgreeInv, RunStart \/ RunResume
  PROVE  Placing'
<1> DEFINE task == Head(ready).task
           q == Tail(ready)
<1>0. UNCHANGED <<sent, posts, cancelling, acked, status>>
  BY TaskDoes
<1>1. PlaceInv /\ (cancelling' # {} => status[Only] \in Applied)
  BY <1>0 DEF AgreeInv, PlaceInv, Placing, Phases
<1>2. ready # <<>> /\ Head(ready).run \in {"start", "resume"}
  BY DEF RunStart, RunResume, Running
<1>3. Shifted(q)
  <2>1. Head(ready) \notin Working
    BY <1>2 DEF Working
  <2> QED BY <1>1, <1>2, <2>1, PlaceFacts, ShiftedOf
<1>4. CASE ready' = q /\ evtq' = evtq
  <2>1. <<>> \in Seq(EngineEvent) /\ Generate(q, <<>>)
    BY <1>1, <1>4, PlaceFacts DEF Generate
  <2> QED BY <1>0, <1>1, <1>3, <2>1, PlacingKept
<1>5. CASE AtHead(task) /\ (TellsStatus(task) \/ HandsFill(task))
  <2>1. /\ posts = {} /\ ~Some(ready, Working) /\ Only \in sent /\ Only \in acked
        /\ task.kind = "trade" => task.t \in Trades
    BY <1>5, AtHeadFacts DEF AtHead, Fills
  <2>2. PICK v \in EngineEvent : Generate(q, <<v>>) /\ v.e \in LaterEvents
    <3>1. ASSUME NEW e \in {"Accepted", "Canceled"}, Generate(q, <<Event(e, Only)>>)
          PROVE  \E v \in EngineEvent : Generate(q, <<v>>) /\ v.e \in LaterEvents
      <4>1. Event(e, Only) \in EngineEvent /\ Event(e, Only).e \in LaterEvents
        BY <1>1, PlaceFacts DEF Event, EngineEvent, EventTypes, LaterEvents
      <4> QED BY <3>1, <4>1
    <3>2. ASSUME HandsFill(task)
          PROVE  \E v \in EngineEvent : Generate(q, <<v>>) /\ v.e \in LaterEvents
      <4>1. FilledEvent(task.t) \in EngineEvent /\ FilledEvent(task.t).e \in LaterEvents
        BY <1>1, <2>1, <3>2, PlaceFacts DEF FilledEvent, EngineEvent, LaterEvents, HandsFill
      <4> QED BY <3>2, <4>1 DEF HandsFill
    <3> QED BY <1>5, <3>1, <3>2 DEF TellsStatus
  <2>3. <<v>> \in Seq(EngineEvent) /\ \A i \in DOMAIN <<v>> : <<v>>[i].e \in LaterEvents
    BY <2>2
  <2> QED BY <1>0, <1>1, <1>3, <2>1, <2>2, <2>3, PlacingKept
<1> QED BY <1>4, <1>5, TaskDoes DEF AwaitsAck, SkipsIt

\* A message has no event generated.
LEMMA PlacingMessage ==
  ASSUME PlaceInv, RunMessage
  PROVE  Placing'
<1> DEFINE m == Head(ready).msg
<1>0. /\ ready # <<>> /\ Head(ready).run = "ws" /\ m \in Message
      /\ Tail(ready) \in Seq(Callback) /\ ready \in Seq(Callback)
      /\ UNCHANGED <<sent, posts, cancelling, acked, evtq, status>>
      /\ StartsOrder(m) \/ DropsTrade(m) \/ StartsTrade(m)
  BY PlaceFacts, MessageDoes
<1>1. Shifted(Tail(ready))
  <2>1. Head(ready) \notin Working
    BY <1>0 DEF Working
  <2> QED BY <1>0, <2>1, ShiftedOf
<1>2. cancelling' # {} => status[Only] \in Applied
  BY <1>0 DEF PlaceInv, Placing, Phases
<1>3. ASSUME Shifted(ready') PROVE Placing'
  <2>1. <<>> \in Seq(EngineEvent) /\ Generate(ready', <<>>)
    BY <1>0, PlaceFacts DEF Generate
  <2> QED BY <1>0, <1>2, <1>3, <2>1, PlacingKept
<1>4. CASE StartsOrder(m)
  <2> DEFINE c == [run |-> "start", task |-> m]
  <2>1. c \in Callback
    BY <1>0, <1>4 DEF StartsOrder, Message, Callback, Task
  <2>2. c.run = "start"
    OBVIOUS
  <2> HIDE DEF c
  <2>3. ready' = Tail(ready) \o <<c>> /\ <<c>> \in Seq(Callback) /\ \A i \in DOMAIN <<c>> : <<c>>[i].run = "start"
    BY <1>0, <1>4, <2>1, <2>2 DEF StartsOrder, c
  <2> QED BY <1>0, <1>1, <1>3, <2>3, ShiftedOf
<1>5. CASE DropsTrade(m)
  BY <1>1, <1>3, <1>5 DEF DropsTrade
<1>6. CASE StartsTrade(m)
  BY <1>0, <1>1, <1>3, <1>6, ShiftedOf DEF StartsTrade
<1> QED BY <1>0, <1>4, <1>5, <1>6

\* Every other step leaves the queue to the engine alone.
LEMMA PlacingStep ==
  ASSUME AgreeInv, [Next]_vars, LoopInv'
  PROVE  Placing'
<1>0. /\ PlaceInv /\ Orders = {Only} /\ OrderLists = {} /\ "timeout" \notin Faults
      /\ ready \in Seq(Callback) /\ evtq \in Seq(EngineEvent)
      /\ cancelling # {} => status[Only] \in Applied
  BY PlaceFacts DEF AgreeInv, PlaceInv, OneOrder, Placing, Phases
<1>1. Shifted(ready) /\ <<>> \in Seq(EngineEvent)
  BY <1>0, ShiftedOf
<1>2. ASSUME UNCHANGED <<sent, posts, acked, evtq, status>>, Shifted(ready'),
             cancelling' # {} => status[Only] \in Applied
      PROVE  Placing'
  <2>1. Generate(ready', <<>>)
    BY <1>0, <1>2 DEF Generate
  <2> QED BY <1>0, <1>1, <1>2, <2>1, PlacingKept
<1>3. CASE \E o \in Orders : SubmitOrder(o)
  BY <1>0, <1>3, PlacingSubmit
<1>4. CASE \E o \in Orders : CancelOrder(o)
  <2>1. status[Only] \in Applied
    BY <1>0, <1>4 DEF CancelOrder, Applied
  <2> QED BY <1>1, <1>2, <1>4, <2>1 DEF CancelOrder, ackVars, engineVars
<1>5. CASE \E o \in Orders : CancelAnswered(o)
  <2>1. CancelAnswered(Only) /\ cancelling # {}
    BY <1>0, <1>5 DEF CancelAnswered
  <2>2. UNCHANGED <<sent, posts, acked, status>> /\ status[Only] \in Applied
    BY <1>0, <2>1 DEF CancelAnswered, ackVars, engineVars
  <2>3. CASE UNCHANGED <<ready, evtq>>
    BY <1>1, <1>2, <2>2, <2>3
  <2>4. CASE Generate(ready, <<Event("CancelRejected", Only)>>)
    <3>1. Only \in acked
      BY <2>2 DEF AgreeInv, PlaceInv, Placing, Phases
    <3>2. posts = {} /\ ~Some(ready, Working) /\ Only \in sent
      BY <2>2, <3>1 DEF AgreeInv, PlaceInv, Placing, OnePost, Placed, Applied, Unplaced
    <3>3. /\ <<Event("CancelRejected", Only)>> \in Seq(EngineEvent)
          /\ \A i \in DOMAIN <<Event("CancelRejected", Only)>> :
               <<Event("CancelRejected", Only)>>[i].e \in LaterEvents
      BY <1>0, OnlyEvent DEF EventTypes, LaterEvents
    <3> QED BY <1>0, <1>1, <2>2, <2>4, <3>1, <3>2, <3>3, PlacingKept
  <2> QED BY <2>1, <2>3, <2>4 DEF CancelAnswered
<1>6. CASE \E o \in Orders : FireAndForgetCancel(o) \/ VenueAccepts(o)
  BY <1>0, <1>1, <1>2, <1>6 DEF FireAndForgetCancel, VenueAccepts, commandVars, ackVars, engineVars
<1>7. CASE \E t \in Trades : VenueMatches(t) \/ VenueSettles(t) \/ VenueResends(t)
  BY <1>0, <1>1, <1>2, <1>7 DEF VenueMatches, VenueSettles, VenueResends, commandVars, ackVars, engineVars
<1>8. CASE \E p \in posts : Respond(p)
  BY <1>0, <1>8, PlacingRespond
<1>9. CASE Deliver
  <2> DEFINE c == [run |-> "ws", msg |-> Head(wire)]
  <2>1. c \in Callback /\ c.run = "ws"
    <3>1. Head(wire) \in Message
      BY <1>9, PlaceFacts DEF Deliver, AgreeInv, LoopInv, TypeOK, VenueOK
    <3> QED BY <3>1 DEF Callback
  <2> HIDE DEF c
  <2>2. ready' = ready \o <<c>> /\ <<c>> \in Seq(Callback) /\ \A i \in DOMAIN <<c>> : <<c>>[i].run = "ws"
    BY <1>0, <1>9, <2>1 DEF Deliver, c
  <2>3. Shifted(ready')
    BY <1>0, <1>1, <2>2, ShiftedOf
  <2> QED BY <1>0, <1>2, <1>9, <2>3 DEF Deliver, commandVars, ackVars, engineVars
<1>10. CASE RunAnswer
  BY <1>0, <1>10, PlacingRunAnswer
<1>11. CASE RunMessage
  BY <1>0, <1>11, PlacingMessage
<1>12. CASE RunStart \/ RunResume
  BY <1>12, PlacingTask
<1>13. CASE RunEngine
  BY <1>0, <1>13, PlacingRunEngine
<1>14. CASE UNCHANGED vars
  BY <1>0, <1>1, <1>2, <1>14 DEF vars, commandVars, ackVars, engineVars
<1>15. ~AckTimeout /\ ~(\E l \in OrderLists : SubmitOrderList(l))
  BY <1>0 DEF AckTimeout
<1> QED BY <1>3, <1>4, <1>5, <1>6, <1>7, <1>8, <1>9, <1>10, <1>11, <1>12, <1>13, <1>14, <1>15 DEF Next, Run

-----------------------------------------------------------------------------
\* What the venue may do: take the order out of the book, fill it, or something else.
TakesOut ==
  /\ venue[Only] = "live" /\ venue'[Only] = "gone" /\ Matched' = Matched
  /\ \E m \in Cancels : wire' = Append(wire, m)
FillsWith(t) ==
  /\ venue[Only] = "live" /\ t \in Trades \ Matched /\ Matched' = Matched \union {t}
  /\ venue'[Only] = IF Cardinality(Matched) + 1 >= Qty[Only] THEN "gone" ELSE "live"
  /\ \E m \in FillsBy(t) \intersect Message : wire' = Append(wire, m)
GoesOn ==
  /\ Matched' = Matched
  /\ venue'[Only] = venue[Only] \/ (venue[Only] = "absent" /\ venue'[Only] = "live")
  /\ wire' = wire \/ \E m \in Message \ Cancels : wire' = Append(wire, m)
VenueMoves == TakesOut \/ GoesOn \/ \E t \in Trades : FillsWith(t)

\* A step that applies no event and runs no message or task.
Outside ==
  /\ Undisturbed /\ VenueMoves
  /\ UNCHANGED <<tradeIds, handed, dedupVars, status>>
  /\ \/ evtq' = evtq
     \/ \E e \in EventTypes \ {"Canceled"} : evtq' = Append(evtq, Event(e, Only))

\* The venue goes on when it is not asked.
LEMMA VenueIdle ==
  ASSUME UNCHANGED venueVars
  PROVE  GoesOn
BY DEF venueVars, GoesOn, Matched, VenueFills

\* An order taken out of the book is told by a cancellation.
LEMMA VenueTakesOut ==
  ASSUME AgreeInv, VenueCancels(Only)
  PROVE  TakesOut
<1> DEFINE m == [kind |-> "order", o |-> Only, typ |-> "CANCELLATION"]
<1>1. m \in Cancels
  BY PlaceFacts DEF AgreeInv, Cancels, OrderTask, OrderMsgTypes
<1>2. venue'[Only] = "gone"
  BY PlaceFacts DEF AgreeInv, LoopInv, TypeOK, VenueOK, VenueCancels
<1> QED BY <1>1, <1>2 DEF VenueCancels, TakesOut, Matched, VenueFills

\* An announcement adds its trade to those matched, if it is new, and cancels nothing.
LEMMA TradeAnnounced ==
  ASSUME AgreeInv, NEW t \in Trades, NEW s \in TradeStatuses, Announce(t, s)
  PROVE  /\ Matched' = IF Only \in OrdersOf(t) THEN Matched \union {t} ELSE Matched
         /\ \E m \in Message \ Cancels : wire' = Append(wire, m) /\ (s = "MATCHED" => m \in FillsBy(t))
         /\ tradeStatus[t] = "none" => t \notin Matched
         /\ tradeStatus[t] # "none" => Matched' = Matched
<1> DEFINE m == [kind |-> "trade", t |-> t, s |-> s]
<1>0. tradeStatus \in [Trades -> TradeStatuses \union {"none"}] /\ s # "none"
      /\ tradeStatus' = [tradeStatus EXCEPT ![t] = s]
  BY PlaceFacts DEF AgreeInv, LoopInv, TypeOK, VenueOK, Announce, TradeStatuses, FinalizedTradeStatuses
<1>1. m \in Message /\ m \notin Cancels
  BY DEF Message, Cancels, OrderTask
<1>2. s = "MATCHED" => m \in FillsBy(t)
  BY <1>1 DEF FillsBy
<1>3. \A u \in Trades : u \in Matched' <=> u \in Matched \/ (u = t /\ Only \in OrdersOf(t))
  BY <1>0 DEF Matched, VenueFills
<1>4. Matched \subseteq Trades /\ Matched' \subseteq Trades
  BY DEF Matched, VenueFills
<1>5. wire' = Append(wire, m)
  BY DEF Announce
<1> QED BY <1>0, <1>1, <1>2, <1>3, <1>4, <1>5 DEF Matched, VenueFills

\* A match fills the order, if it takes part; a settlement or a repetition does not.
LEMMA VenueTradeMoves ==
  ASSUME AgreeInv, NEW t \in Trades, VenueMatches(t) \/ VenueSettles(t) \/ VenueResends(t)
  PROVE  VenueMoves
<1>0. Only \in Orders /\ tradeStatus \in [Trades -> TradeStatuses \union {"none"}]
  BY PlaceFacts DEF AgreeInv, LoopInv, TypeOK, VenueOK
<1>1. CASE VenueMatches(t)
  <2>1. /\ tradeStatus[t] = "none" /\ Announce(t, "MATCHED") /\ "MATCHED" \in TradeStatuses
        /\ Only \in OrdersOf(t) => venue[Only] = "live"
        /\ venue'[Only] = IF Only \in OrdersOf(t) /\ Cardinality(Matched) + 1 >= Qty[Only]
                            THEN "gone" ELSE venue[Only]
    BY <1>0, <1>1 DEF VenueMatches, TradeStatuses, Matched, OrdersOf
  <2>2. /\ Matched' = IF Only \in OrdersOf(t) THEN Matched \union {t} ELSE Matched
        /\ \E m \in Message \ Cancels : wire' = Append(wire, m) /\ m \in FillsBy(t)
        /\ t \notin Matched
    BY <2>1, TradeAnnounced
  <2>3. CASE Only \in OrdersOf(t)
    BY <2>1, <2>2, <2>3 DEF VenueMoves, FillsWith
  <2>4. CASE Only \notin OrdersOf(t)
    BY <2>1, <2>2, <2>4 DEF VenueMoves, GoesOn
  <2> QED BY <2>3, <2>4
<1>2. CASE VenueSettles(t) \/ VenueResends(t)
  <2>1. PICK s \in TradeStatuses : Announce(t, s)
    BY <1>0, <1>2 DEF VenueSettles, VenueResends, Successors, TradeStatuses, FinalizedTradeStatuses
  <2>2. tradeStatus[t] # "none" /\ venue' = venue
    BY <1>0, <1>2 DEF VenueSettles, VenueResends, Successors
  <2>3. Matched' = Matched /\ \E m \in Message \ Cancels : wire' = Append(wire, m)
    BY <2>1, <2>2, TradeAnnounced
  <2> QED BY <2>2, <2>3 DEF VenueMoves, GoesOn
<1> QED BY <1>1, <1>2

\* A waiter that is signalled goes from those who wait to those who were signalled.
LEMMA AnswerUndisturbed ==
  ASSUME AgreeInv, RunAnswer
  PROVE  Undisturbed /\ (evtq' = evtq \/ evtq' = Append(evtq, Event("Rejected", Only)))
<1> DEFINE a == Head(ready)
           b == NextResult(a)
<1>0. /\ ready # <<>> /\ a.run = "answer" /\ ready \in Seq(Callback) /\ Tail(ready) \in Seq(Callback)
      /\ PlaceInv /\ evtq \in Seq(EngineEvent) /\ Only \in Orders /\ waiting \in Seq(Waiter)
      /\ "answer" \notin Carries /\ "engine" \notin Carries
  BY PlaceFacts, Dequeue DEF AgreeInv, RunAnswer, Running, Carries, LoopInv, TypeOK, AcksOK
<1>1. SameItems(ready) /\ SameItems(Tail(ready))
  BY <1>0, SameItemsOf
<1>2. CASE a.rest = <<>>
  BY <1>0, <1>1, <1>2, UndisturbedOf DEF RunAnswer, ackVars
<1>3. CASE a.rest # <<>>
  <2>0. a \in Working
    BY <1>0, <1>3, PlaceFacts, Dequeue DEF Working
  <2>1. /\ Head(a.rest) = Only /\ b.run = "answer" /\ b \in Callback
        /\ a.results \in {<<"ok">>, <<"fail">>, <<"missing">>, <<"raise">>}
    BY <1>0, <2>0, AnswerRuns
  <2>2. SameItems(<<b>> \o Tail(ready)) /\ <<b>> \o Tail(ready) \in Seq(Callback)
    <3>1. b.run \notin Carries /\ <<b>> \in Seq(Callback)
      BY <1>0, <2>1
    <3>2. SameItems(<<b>> \o Tail(ready))
      BY <1>0, <1>1, <2>1, <3>1, SameItemsOf
    <3> QED BY <1>0, <3>1, <3>2
  <2>3. CASE Generate(<<b>> \o Tail(ready), <<Event("Rejected", Only)>>) /\ waiting' = waiting
    <3>1. evtq' = Append(evtq, Event("Rejected", Only))
      BY <1>0, <2>3 DEF Generate
    <3>2. [run |-> "engine"] \in Callback /\ [run |-> "engine"].run = "engine"
      BY DEF Callback
    <3>3. SameItems(Append(<<b>> \o Tail(ready), [run |-> "engine"]))
      BY <1>0, <2>2, <3>2, SameItemsOf
    <3>4. SameItems(ready')
      BY <2>2, <2>3, <3>3 DEF Generate
    <3> QED BY <2>3, <3>1, <3>4, UndisturbedOf
  <2>4. CASE UNCHANGED <<waiting, ready, evtq>>
    BY <1>1, <2>4, UndisturbedOf
  <2>5. CASE ready' = <<b>> \o Tail(ready) /\ UNCHANGED <<waiting, evtq>>
    BY <2>2, <2>5, UndisturbedOf
  <2>6. CASE Wake(Only) /\ evtq' = evtq
    <3>1. PICK i \in DOMAIN waiting : /\ ready' = Append(ready, [run |-> "resume", task |-> waiting[i].task])
                                      /\ waiting' = RemoveIndex(waiting, i)
      BY <2>6 DEF Wake, Attached
    <3> DEFINE c == [run |-> "resume", task |-> waiting[i].task]
    <3>2. c \in Callback /\ c.run = "resume" /\ Item(c) = waiting[i].task
      BY <1>0, PlaceFacts, WaiterType DEF Callback, Item
    <3> HIDE DEF c
    <3>3. ASSUME NEW X
          PROVE  Some(ready', Calls("resume", X)) <=> Some(ready, Calls("resume", X)) \/ waiting[i].task \in X
      <4>1. c \in Calls("resume", X) <=> waiting[i].task \in X
        BY <3>2 DEF Calls
      <4>2. ready' = Append(ready, c)
        BY <3>1 DEF c
      <4> QED BY <1>0, <3>2, <4>1, <4>2, SomeAppend
    <3>4. ASSUME NEW X
          PROVE  Waits(X) <=> Waits(X)' \/ waiting[i].task \in X
      <4>1. \A j \in DOMAIN waiting' : /\ waiting'[j] = waiting[IF j < i THEN j ELSE j + 1]
                                       /\ (IF j < i THEN j ELSE j + 1) \in DOMAIN waiting
        <5>1. /\ Len(waiting') = Len(waiting) - 1 /\ waiting' \in Seq(Waiter)
              /\ \A j \in 1 .. (Len(waiting) - 1) : waiting'[j] = IF j < i THEN waiting[j] ELSE waiting[j + 1]
          BY <1>0, <3>1, RemoveIndexEntries, RemoveIndexType
        <5> QED BY <1>0, <5>1
      <4>2. \A j \in DOMAIN waiting : j # i => \E k \in DOMAIN waiting' : waiting'[k] = waiting[j]
        <5> SUFFICES ASSUME NEW j \in DOMAIN waiting, j # i PROVE \E k \in DOMAIN waiting' : waiting'[k] = waiting[j]
          OBVIOUS
        <5> DEFINE k == IF j < i THEN j ELSE j - 1
        <5>1. /\ Len(waiting') = Len(waiting) - 1 /\ waiting' \in Seq(Waiter)
              /\ \A n \in 1 .. (Len(waiting) - 1) : waiting'[n] = IF n < i THEN waiting[n] ELSE waiting[n + 1]
          BY <1>0, <3>1, RemoveIndexEntries, RemoveIndexType
        <5>2. k \in 1 .. (Len(waiting) - 1) /\ (IF k < i THEN k ELSE k + 1) = j
          BY <1>0
        <5>3. k \in DOMAIN waiting' /\ waiting'[k] = waiting[j]
          BY <5>1, <5>2
        <5> QED BY <5>3
      <4> QED BY <4>1, <4>2 DEF Waits
    <3>5. ASSUME NEW X
          PROVE  /\ Late(X)' <=> Late(X)
                 /\ Some(ready, Calls("resume", X)) => Some(ready', Calls("resume", X))
      BY <3>3, <3>4 DEF Late
    <3>6. ASSUME NEW k \in {"ws", "start"}, NEW X, NEW Y
          PROVE  /\ Some(ready', Calls(k, X)) <=> Some(ready, Calls(k, X))
                 /\ Before(ready, Calls(k, X), Calls(k, Y)) => Before(ready', Calls(k, X), Calls(k, Y))
      <4>1. c.run # k /\ ready' = Append(ready, c)
        BY <3>1, <3>2 DEF c
      <4> QED BY <1>0, <3>2, <4>1, OtherCalls
    <3> QED BY <2>6, <3>5, <3>6 DEF Undisturbed
  <2>7. Only \notin batched
    BY DEF AgreeInv, PlaceInv
  <2> QED BY <1>3, <2>1, <2>3, <2>4, <2>5, <2>6, <2>7 DEF RunAnswer, ackVars
<1> QED BY <1>2, <1>3

\* Every step is one of the loop's, a delivery, or disturbs nothing.
LEMMA StepKinds ==
  ASSUME AgreeInv, [Next]_vars
  PROVE  Outside \/ RunEngine \/ RunStart \/ RunResume \/ RunMessage \/ Deliver
<1>0. /\ PlaceInv /\ Orders = {Only} /\ OrderLists = {} /\ "timeout" \notin Faults /\ Only \in Orders
      /\ ready \in Seq(Callback) /\ evtq \in Seq(EngineEvent)
      /\ [run |-> "engine"] \in Callback /\ [run |-> "engine"].run \notin Carries
  BY PlaceFacts DEF AgreeInv, PlaceInv, OneOrder, Callback, Carries
<1>1. SameItems(ready) /\ SameItems(Append(ready, [run |-> "engine"]))
  BY <1>0, SameItemsOf
<1>2. ASSUME NEW e \in EventTypes \ {"Canceled"}, Generate(ready, <<Event(e, Only)>>), waiting' = waiting
      PROVE  /\ Undisturbed
             /\ evtq' = Append(evtq, Event(e, Only))
  <2>1. SameItems(ready')
    BY <1>1, <1>2 DEF Generate
  <2>2. evtq' = Append(evtq, Event(e, Only))
    BY <1>0, <1>2 DEF Generate
  <2> QED BY <1>2, <2>1, <2>2, UndisturbedOf
<1>3. UNCHANGED <<ready, waiting>> => Undisturbed
  BY <1>1, UndisturbedOf
<1>4. CASE \E o \in Orders : SubmitOrder(o)
  <2>1. SubmitOrder(Only)
    BY <1>0, <1>4
  <2>2. UNCHANGED <<tradeIds, handed, dedupVars, status, waiting, venueVars>>
    BY <2>1 DEF SubmitOrder, engineVars, historyVars, ackVars
  <2>3. /\ Undisturbed
        /\ evtq' = evtq \/ \E e \in EventTypes \ {"Canceled"} : evtq' = Append(evtq, Event(e, Only))
    BY <1>2, <1>3, <2>1, <2>2 DEF SubmitOrder, EventTypes
  <2> QED BY <2>2, <2>3, VenueIdle DEF Outside, VenueMoves
<1>5. CASE \E o \in Orders : CancelOrder(o)
  BY <1>3, <1>5, VenueIdle DEF CancelOrder, Outside, VenueMoves, ackVars, engineVars, historyVars
<1>6. CASE \E o \in Orders : CancelAnswered(o)
  <2>1. CancelAnswered(Only)
    BY <1>0, <1>6
  <2>2. UNCHANGED <<tradeIds, handed, dedupVars, status, waiting>>
    BY <2>1 DEF CancelAnswered, engineVars, ackVars
  <2>3. /\ Undisturbed
        /\ evtq' = evtq \/ \E e \in EventTypes \ {"Canceled"} : evtq' = Append(evtq, Event(e, Only))
    BY <1>2, <1>3, <2>1, <2>2 DEF CancelAnswered, EventTypes
  <2>4. TakesOut \/ GoesOn
    BY <2>1, VenueIdle, VenueTakesOut DEF CancelAnswered
  <2> QED BY <2>2, <2>3, <2>4 DEF Outside, VenueMoves
<1>7. CASE \E o \in Orders : FireAndForgetCancel(o)
  <2>1. FireAndForgetCancel(Only)
    BY <1>0, <1>7
  <2> QED BY <1>3, <2>1, VenueTakesOut DEF FireAndForgetCancel, Outside, VenueMoves, ackVars, engineVars, historyVars
<1>8. CASE \E o \in Orders : VenueAccepts(o)
  <2>1. VenueAccepts(Only)
    BY <1>0, <1>8
  <2> DEFINE m == [kind |-> "order", o |-> Only, typ |-> "PLACEMENT"]
  <2>2. m \in Message \ Cancels
    BY <1>0 DEF Message, OrderTask, OrderMsgTypes, Cancels
  <2>3. venue[Only] = "absent" /\ venue'[Only] = "live"
    BY <1>0, <2>1, PlaceFacts DEF VenueAccepts, LoopInv, TypeOK, VenueOK
  <2>4. GoesOn
    BY <2>1, <2>2, <2>3 DEF VenueAccepts, GoesOn, Matched, VenueFills
  <2> QED BY <1>3, <2>1, <2>4 DEF VenueAccepts, Outside, VenueMoves, ackVars, engineVars, historyVars
<1>9. CASE \E t \in Trades : VenueMatches(t) \/ VenueSettles(t) \/ VenueResends(t)
  <2>1. VenueMoves
    BY <1>9, VenueTradeMoves
  <2> QED BY <1>3, <1>9, <2>1
          DEF VenueMatches, VenueSettles, VenueResends, Outside, ackVars, engineVars, historyVars
<1>10. CASE \E p \in posts : Respond(p)
  <2>1. PICK c : ready' = Append(ready, c) /\ c.run = "answer"
    <3>1. \A p, n, results : AnswerTo(p, n, results).run = "answer"
      BY DEF AnswerTo
    <3> QED BY <1>10, <3>1 DEF Respond
  <2>2. UNCHANGED <<tradeIds, handed, dedupVars, status, waiting, evtq, venueVars>>
    BY <1>10 DEF Respond, engineVars, historyVars, ackVars
  <2>3. c.run \notin Carries
    BY <2>1 DEF Carries
  <2>4. \A k, X : k \in Carries => c \notin Calls(k, X)
    BY <2>3 DEF Calls
  <2>5. c \in Callback
    <3>1. ready' \in Seq(Callback)
      BY <1>0, <1>10, LoopRespond, PlaceFacts DEF LoopInv, TypeOK, LoopOK
    <3>2. Len(ready) + 1 \in DOMAIN ready' /\ ready'[Len(ready) + 1] = c
      BY <1>0, <2>1
    <3> QED BY <3>1, <3>2
  <2>6. SameItems(ready')
    BY <1>0, <1>1, <2>1, <2>3, <2>5, SameItemsOf
  <2> QED BY <2>2, <2>6, UndisturbedOf, VenueIdle DEF Outside, VenueMoves
<1>11. CASE RunAnswer
  <2>1. UNCHANGED <<tradeIds, handed, dedupVars, status, venueVars>>
    BY <1>11 DEF RunAnswer, engineVars, historyVars
  <2>2. "Rejected" \in EventTypes \ {"Canceled"}
    BY DEF EventTypes
  <2> QED BY <1>11, <2>1, <2>2, AnswerUndisturbed, VenueIdle DEF Outside, VenueMoves
<1>12. CASE UNCHANGED vars
  BY <1>3, <1>12, VenueIdle DEF vars, Outside, VenueMoves, ackVars, engineVars, historyVars
<1>13. ~AckTimeout /\ ~(\E l \in OrderLists : SubmitOrderList(l))
  BY <1>0 DEF AckTimeout
<1> QED BY <1>4, <1>5, <1>6, <1>7, <1>8, <1>9, <1>10, <1>11, <1>12, <1>13 DEF Next, Run

-----------------------------------------------------------------------------
\* A dedup cache gains the entry it is given, at most.
LEMMA TouchHolds ==
  ASSUME NEW S, NEW s \in Seq(S), NEW x \in S, NEW I \in SUBSET (DOMAIN s), NEW y
  PROVE  /\ InSeq(Drop(s, I), y) => InSeq(s, y)
         /\ InSeq(Touch(s, x, I), y) => InSeq(s, y) \/ y = x
<1>1. InSeq(Drop(s, I), y) => InSeq(s, y)
  <2>1. CASE I = {}
    BY <2>1 DEF Drop
  <2>2. CASE I # {}
    <3>1. PICK i \in DOMAIN s : Drop(s, I) = RemoveIndex(s, i)
      BY <2>2 DEF Drop
    <3> QED BY <3>1, RemoveIndexEntries DEF InSeq
  <2> QED BY <2>1, <2>2
<1>2. Drop(s, I) \in Seq(S)
  BY DropType
<1>3. InSeq(Append(Drop(s, I), x), y) => InSeq(s, y) \/ y = x
  BY <1>1, <1>2, InSeqAppend
<1>4. Append(Drop(s, I), x) \in Seq(S) /\ Append(Drop(s, I), x) # <<>>
  BY <1>2
<1>5. InSeq(Tail(Append(Drop(s, I), x)), y) => InSeq(Append(Drop(s, I), x), y)
  BY <1>4, HeadTail DEF InSeq
<1> QED BY <1>1, <1>3, <1>5 DEF Touch, Truncate

\* Recording a trade puts no other one into the caches.
LEMMA RecordsTrade ==
  ASSUME DedupOK, NEW t \in Trades, NEW s \in TradeStatuses, RecordProcessedTrade(t, s), NEW u
  PROVE  /\ InSeq(finalizedTrades', u) => InSeq(finalizedTrades, u) \/ u = t
         /\ Entry(u)' # {} => Entry(u) # {} \/ u = t
<1>1. Entry(t) \in SUBSET (DOMAIN processedTrades) /\ Places(finalizedTrades, t) \in SUBSET (DOMAIN finalizedTrades)
  BY DEF Entry, Places
<1>2. InSeq(finalizedTrades', u) => InSeq(finalizedTrades, u) \/ u = t
  BY <1>1, TouchHolds DEF RecordProcessedTrade, DedupOK
<1>3. ASSUME NEW e, InSeq(processedTrades', e) PROVE InSeq(processedTrades, e) \/ e = <<t, s>>
  <2> DEFINE I == Entry(t)
             x == <<t, s>>
             Entries == Trades \X TradeStatuses
  <2>1. processedTrades \in Seq(Entries) /\ x \in Entries /\ I \in SUBSET (DOMAIN processedTrades)
    BY <1>1 DEF DedupOK
  <2>2. processedTrades' = Drop(processedTrades, I) \/ processedTrades' = Touch(processedTrades, x, I)
    BY DEF RecordProcessedTrade
  <2> HIDE DEF I, x, Entries
  <2>3. /\ InSeq(Drop(processedTrades, I), e) => InSeq(processedTrades, e)
        /\ InSeq(Touch(processedTrades, x, I), e) => InSeq(processedTrades, e) \/ e = x
    BY <2>1, TouchHolds
  <2>4. InSeq(processedTrades, e) \/ e = x
    BY <1>3, <2>2, <2>3
  <2> QED BY <2>4 DEF x
<1>4. ASSUME Entry(u)' # {} PROVE Entry(u) # {} \/ u = t
  <2>1. PICK i \in DOMAIN processedTrades' : processedTrades'[i][1] = u
    BY <1>4 DEF Entry
  <2>2. InSeq(processedTrades, processedTrades'[i]) \/ processedTrades'[i] = <<t, s>>
    BY <1>3, <2>1 DEF InSeq
  <2> QED BY <2>1, <2>2 DEF InSeq, Entry
<1> QED BY <1>2, <1>4

\* The counts, when nothing is handed over and no fill is applied.
LEMMA MatchedFitsKept ==
  ASSUME AgreeInv, VenueMoves
  PROVE  MatchedFits' /\ Matched \subseteq Matched'
<1>0. /\ Qty[Only] \in Nat /\ Qty[Only] > 0 /\ IsFiniteSet(Matched) /\ Cardinality(Matched) \in Nat
      /\ MatchedFits
  BY PlaceFacts, ConstantsAssumption, FS_CardinalityType
     DEF AgreeInv, PlaceInv, OneOrder, Counting, MatchedFits
<1>1. CASE TakesOut
  BY <1>0, <1>1 DEF TakesOut, MatchedFits
<1>2. CASE GoesOn
  <2>1. venue[Only] = "absent" => Cardinality(Matched) = 0
    BY <1>0, FS_EmptySet DEF MatchedFits
  <2>2. Cardinality(Matched)' = Cardinality(Matched)
    BY <1>2 DEF GoesOn
  <2> QED BY <1>0, <1>2, <2>1, <2>2 DEF GoesOn, MatchedFits
<1>3. ASSUME NEW t \in Trades, FillsWith(t)
      PROVE  MatchedFits' /\ Matched \subseteq Matched'
  <2>1. IsFiniteSet(Matched') /\ Cardinality(Matched') = Cardinality(Matched) + 1
    BY <1>0, <1>3, FS_AddElement DEF FillsWith
  <2> QED BY <1>0, <1>3, <2>1 DEF FillsWith, MatchedFits
<1> QED BY <1>1, <1>2, <1>3 DEF VenueMoves

\* The counts, when no fill is handed over and no event applied.
LEMMA CountingKept ==
  ASSUME AgreeInv, MatchedFits', Matched \subseteq Matched', UNCHANGED <<tradeIds, handed, status>>,
         NEW events \in Seq(EngineEvent), evtq' = evtq \o events,
         \A i \in DOMAIN events : events[i].e # "Filled",
         dedupVars' = dedupVars
  PROVE  Counting'
<1>1. evtq \in Seq(EngineEvent)
  BY PlaceFacts DEF AgreeInv
<1>2. ASSUME NEW t PROVE InSeq(evtq', FilledEvent(t)) <=> InSeq(evtq, FilledEvent(t))
  <2>1. FilledEvent(t).e = "Filled"
    BY DEF FilledEvent
  <2>2. \A i \in DOMAIN evtq : i \in DOMAIN evtq' /\ evtq'[i] = evtq[i]
    BY <1>1
  <2>3. \A i \in DOMAIN evtq' :
          i \in DOMAIN evtq \/ (i - Len(evtq) \in DOMAIN events /\ evtq'[i] = events[i - Len(evtq)])
    BY <1>1
  <2> QED BY <2>1, <2>2, <2>3 DEF InSeq
<1>3. \A t : Given(t)' = Given(t)
  BY DEF Given
<1>4. \A t \in Matched' : t \in Trades /\ <<t, Only>> \in Fills
  BY PlaceFacts DEF Matched, VenueFills, Fills, AgreeInv
<1>5. EngineGiven'
  BY <1>2, <1>3, <1>4 DEF AgreeInv, Counting, EngineGiven
<1>6. CachesGiven'
  <2>1. \A t : Entry(t)' = Entry(t) /\ InSeq(finalizedTrades', t) = InSeq(finalizedTrades, t)
               /\ InSeq(processedFills', <<t, Only>>) = InSeq(processedFills, <<t, Only>>)
    BY DEF dedupVars, Entry, InSeq
  <2> QED BY <1>3, <2>1 DEF AgreeInv, Counting, CachesGiven
<1>7. FilledWhenAll'
  BY DEF AgreeInv, Counting, FilledWhenAll
<1> QED BY <1>5, <1>6, <1>7 DEF Counting

\* The fills handed over and those the engine holds, when one is handed over.
LEMMA CountingHandsFill ==
  ASSUME AgreeInv, NEW task, AtHead(task), HandsFill(task),
         UNCHANGED <<status, tradeIds, venue, tradeStatus>>
  PROVE  Counting'
<1> DEFINE t == task.t
           f == <<t, Only>>
<1>0. /\ t \in Matched /\ f \in Fills /\ t \in Trades /\ task.s \in TradeStatuses
      /\ handed \in [Fills -> Nat] /\ handed' = [handed EXCEPT ![f] = @ + 1]
      /\ DedupOK /\ evtq \in Seq(EngineEvent) /\ Tail(ready) \in Seq(Callback) /\ Only \in Orders
  <2>1. task \in Task /\ task.kind = "trade"
    BY AtHeadFacts DEF HandsFill
  <2>2. t \in Trades /\ task.s \in TradeStatuses
    BY <2>1 DEF Task, OrderTask, TradeTask
  <2> QED BY <2>1, <2>2, AtHeadFacts, PlaceFacts DEF HandsFill, AgreeInv, LoopInv, TypeOK, HistoryOK
<1>1. Matched' = Matched
  BY DEF Matched, VenueFills
<1>2. \A u : <<u, Only>> \in Fills => (Given(u)' <=> Given(u) \/ u = t)
  BY <1>0 DEF Given
<1>3. ASSUME NEW u PROVE InSeq(evtq', FilledEvent(u)) <=> InSeq(evtq, FilledEvent(u)) \/ u = t
  <2>1. FilledEvent(t) \in EngineEvent
    BY <1>0 DEF FilledEvent, EngineEvent
  <2>2. evtq' = Append(evtq, FilledEvent(t))
    BY <1>0, <2>1 DEF HandsFill, Generate
  <2>3. FilledEvent(u) = FilledEvent(t) <=> u = t
    BY DEF FilledEvent
  <2> QED BY <1>0, <2>1, <2>2, <2>3, InSeqAppend
<1>4. \A u \in Matched : u \in Trades /\ <<u, Only>> \in Fills
  BY <1>0 DEF Matched, VenueFills, Fills
<1>5. EngineGiven'
  BY <1>0, <1>1, <1>2, <1>3, <1>4 DEF AgreeInv, Counting, EngineGiven
<1>6. CachesGiven'
  <2> SUFFICES ASSUME NEW u \in Trades,
                      InSeq(finalizedTrades', u) \/ Entry(u)' # {} \/ InSeq(processedFills', <<u, Only>>)
               PROVE  u \in Matched' /\ Given(u)'
    BY DEF CachesGiven
  <2>1. InSeq(processedFills', <<u, Only>>) => InSeq(processedFills, <<u, Only>>) \/ u = t
    <3>1. Places(processedFills, f) \in SUBSET (DOMAIN processedFills) /\ processedFills \in Seq(Fills)
      BY <1>0 DEF Places, DedupOK
    <3>2. processedFills' = Touch(processedFills, f, Places(processedFills, f))
      BY DEF HandsFill, RecordProcessedFill
    <3> HIDE DEF f
    <3>3. InSeq(processedFills', <<u, Only>>) => InSeq(processedFills, <<u, Only>>) \/ <<u, Only>> = f
      BY <1>0, <3>1, <3>2, TouchHolds
    <3> QED BY <3>3 DEF f
  <2>2. /\ InSeq(finalizedTrades', u) => InSeq(finalizedTrades, u) \/ u = t
        /\ Entry(u)' # {} => Entry(u) # {} \/ u = t
    BY <1>0, RecordsTrade DEF HandsFill
  <2>3. u \in Matched /\ (Given(u) \/ u = t)
    BY <1>0, <2>1, <2>2 DEF AgreeInv, Counting, CachesGiven
  <2> QED BY <1>1, <1>2, <1>4, <2>3
<1>7. MatchedFits' /\ FilledWhenAll'
  BY <1>1 DEF AgreeInv, Counting, MatchedFits, FilledWhenAll
<1> QED BY <1>5, <1>6, <1>7 DEF Counting

\* ... and when the engine applies an event.
LEMMA CountingRunEngine ==
  ASSUME AgreeInv, RunEngine
  PROVE  Counting'
<1> DEFINE ev == Head(evtq)
<1>0. /\ PlaceInv /\ Running("engine") /\ UNCHANGED <<handed, dedupVars, venueVars, acked>>
      /\ evtq' = Tail(evtq)
  BY DEF AgreeInv, RunEngine, historyVars, ackVars
<1>1. /\ evtq # <<>> /\ ev \in EngineEvent /\ ev.o = Only /\ evtq \in Seq(EngineEvent)
      /\ ev = evtq[1] /\ 1 \in DOMAIN evtq /\ Only \in Orders
      /\ tradeIds \in [Orders -> SUBSET Trades] /\ status \in [Orders -> OrderStatuses]
  BY <1>0, EngineHead, PlaceFacts DEF LoopInv, TypeOK, EngineOK
<1>2. \A x : InSeq(evtq, x) <=> ev = x \/ InSeq(evtq', x)
  <2>1. /\ \A i \in DOMAIN Tail(evtq) : i + 1 \in DOMAIN evtq /\ Tail(evtq)[i] = evtq[i + 1]
        /\ \A i \in DOMAIN evtq : i # 1 => i - 1 \in DOMAIN Tail(evtq) /\ Tail(evtq)[i - 1] = evtq[i]
    BY <1>1, HeadTail
  <2>2. ASSUME NEW x, InSeq(evtq, x) PROVE ev = x \/ InSeq(evtq', x)
    BY <1>0, <1>1, <2>1, <2>2 DEF InSeq
  <2>3. ASSUME NEW x, ev = x \/ InSeq(evtq', x) PROVE InSeq(evtq, x)
    BY <1>0, <1>1, <2>1, <2>3 DEF InSeq
  <2> QED BY <2>2, <2>3
<1>3. ev.e = "Filled" => /\ ev.t \in Trades /\ ev = FilledEvent(ev.t)
                         /\ status[Only] \in Applied \union {"SUBMITTED"}
  <2>1. ASSUME ev.e = "Filled" PROVE ev.t \in Trades /\ ev = FilledEvent(ev.t)
    BY <1>1, <2>1 DEF EngineEvent, EventTypes, FilledEvent
  <2>2. ASSUME ev.e = "Filled" PROVE status[Only] \in Applied \union {"SUBMITTED"}
    BY <1>0, <1>1, <2>2 DEF PlaceInv, Placing, Phases, FirstEvents
  <2> QED BY <2>1, <2>2
<1>4. \A u : FilledEvent(u).e = "Filled" /\ FilledEvent(u).t = u
  BY DEF FilledEvent
<1>5. /\ Matched' = Matched /\ \A u : Given(u)' = Given(u)
      /\ \A u \in Matched : u \in Trades
  BY <1>0 DEF Matched, VenueFills, Given, venueVars
<1>6. CachesGiven'
  <2>1. \A t : Entry(t)' = Entry(t) /\ InSeq(finalizedTrades', t) = InSeq(finalizedTrades, t)
               /\ InSeq(processedFills', <<t, Only>>) = InSeq(processedFills, <<t, Only>>)
    BY <1>0 DEF dedupVars, Entry, InSeq
  <2> QED BY <1>5, <2>1 DEF AgreeInv, Counting, CachesGiven
<1>7. MatchedFits'
  BY <1>0, <1>5 DEF AgreeInv, Counting, MatchedFits, venueVars
<1>8. CASE /\ ev.e = "Filled" /\ tradeIds' = [tradeIds EXCEPT ![Only] = @ \union {ev.t}]
           /\ status' = [status EXCEPT ![Only] = FillStatus(Only, tradeIds[Only] \union {ev.t})]
  <2>1. /\ tradeIds'[Only] = tradeIds[Only] \union {ev.t}
        /\ status'[Only] = FillStatus(Only, tradeIds'[Only])
    BY <1>1, <1>8
  <2>2. EngineGiven'
    BY <1>2, <1>3, <1>4, <1>5, <1>8, <2>1 DEF AgreeInv, Counting, EngineGiven
  <2>3. FilledWhenAll'
    BY <2>1 DEF FilledWhenAll, FillStatus
  <2> QED BY <1>6, <1>7, <2>2, <2>3 DEF Counting
<1>9. CASE /\ ev.e # "Filled" /\ Legal(ev.e, status[Only])
           /\ status' = [status EXCEPT ![Only] = Target(ev.e)] /\ tradeIds' = tradeIds
  <2>1. status'[Only] # "FILLED" /\ status[Only] # "FILLED"
    BY <1>1, <1>9 DEF Target, Legal
  <2>2. EngineGiven'
    BY <1>2, <1>4, <1>5, <1>9 DEF AgreeInv, Counting, EngineGiven
  <2>3. FilledWhenAll'
    BY <1>9, <2>1 DEF AgreeInv, Counting, FilledWhenAll
  <2> QED BY <1>6, <1>7, <2>2, <2>3 DEF Counting
<1>10. CASE /\ ~Legal(ev.e, status[Only]) \/ (ev.e = "Filled" /\ ev.t \in tradeIds[Only])
            /\ UNCHANGED engineVars
  <2>1. ev.e = "Filled" => ev.t \in tradeIds[Only]
    <3>1. ASSUME ev.e = "Filled", ~Legal(ev.e, status[Only]) PROVE ev.t \in tradeIds[Only]
      <4>1. status[Only] = "FILLED"
        BY <1>3, <3>1 DEF Legal, Applied
      <4>2. InSeq(evtq, FilledEvent(ev.t))
        BY <1>2, <1>3, <3>1
      <4>3. ev.t \in Matched
        BY <1>3, <3>1, <4>2 DEF AgreeInv, Counting, EngineGiven
      <4> QED BY <4>1, <4>3, FilledOwedNothing
    <3> QED BY <1>10, <3>1
  <2>2. EngineGiven'
    BY <1>2, <1>4, <1>5, <1>10, <2>1 DEF AgreeInv, Counting, EngineGiven, engineVars
  <2>3. FilledWhenAll'
    BY <1>10 DEF AgreeInv, Counting, FilledWhenAll, engineVars
  <2> QED BY <1>6, <1>7, <2>2, <2>3 DEF Counting
<1> QED BY <1>1, <1>8, <1>9, <1>10 DEF RunEngine

\* What the engine holds or is handed is what was handed over, and was matched.
LEMMA CountingStep ==
  ASSUME AgreeInv, [Next]_vars
  PROVE  Counting'
<1>0. /\ PlaceInv /\ LoopInv /\ evtq \in Seq(EngineEvent) /\ <<>> \in Seq(EngineEvent) /\ Only \in Orders
      /\ MatchedFits
  BY PlaceFacts DEF AgreeInv, Counting
<1>1. ASSUME UNCHANGED <<venue, tradeStatus>> PROVE MatchedFits' /\ Matched \subseteq Matched' /\ Matched' = Matched
  BY <1>0, <1>1 DEF MatchedFits, Matched, VenueFills
<1>2. ASSUME UNCHANGED <<venue, tradeStatus, tradeIds, handed, status, evtq, dedupVars>>
      PROVE  Counting'
  <2>1. evtq' = evtq \o <<>>
    BY <1>0, <1>2
  <2>2. \A i \in DOMAIN <<>> : FALSE
    OBVIOUS
  <2>3. /\ MatchedFits' /\ Matched \subseteq Matched' /\ UNCHANGED <<tradeIds, handed, status>>
        /\ dedupVars' = dedupVars
    BY <1>1, <1>2
  <2> QED BY <1>0, <2>1, <2>2, <2>3, CountingKept
<1>3. CASE Outside
  <2>1. MatchedFits' /\ Matched \subseteq Matched'
    BY <1>3, MatchedFitsKept DEF Outside
  <2>2. PICK events \in Seq(EngineEvent) : /\ evtq' = evtq \o events
                                           /\ \A i \in DOMAIN events : events[i].e # "Filled"
    <3>1. CASE evtq' = evtq
      <4>1. evtq' = evtq \o <<>>
        BY <1>0, <3>1
      <4>2. \A i \in DOMAIN <<>> : FALSE
        OBVIOUS
      <4> QED BY <1>0, <4>1, <4>2
    <3>2. ASSUME NEW e \in EventTypes \ {"Canceled"}, evtq' = Append(evtq, Event(e, Only))
          PROVE  \E events \in Seq(EngineEvent) : /\ evtq' = evtq \o events
                                                  /\ \A i \in DOMAIN events : events[i].e # "Filled"
      <4>1. /\ <<Event(e, Only)>> \in Seq(EngineEvent)
            /\ \A i \in DOMAIN <<Event(e, Only)>> : <<Event(e, Only)>>[i].e = e
        BY <1>0, OnlyEvent
      <4> DEFINE v == Event(e, Only)
      <4> HIDE DEF v
      <4>2. evtq' = evtq \o <<v>>
        <5>1. evtq' = Append(evtq, v) /\ <<v>> \in Seq(EngineEvent)
          BY <3>2, <4>1 DEF v
        <5> QED BY <1>0, <5>1
      <4>3. e # "Filled"
        BY DEF EventTypes
      <4>4. <<v>> \in Seq(EngineEvent) /\ \A i \in DOMAIN <<v>> : <<v>>[i].e # "Filled"
        BY <4>1, <4>3 DEF v
      <4> QED BY <4>2, <4>4
    <3>3. evtq' = evtq \/ \E e \in EventTypes \ {"Canceled"} : evtq' = Append(evtq, Event(e, Only))
      BY <1>3 DEF Outside
    <3>4. \E events \in Seq(EngineEvent) : /\ evtq' = evtq \o events
                                          /\ \A i \in DOMAIN events : events[i].e # "Filled"
      BY <3>1, <3>2, <3>3
    <3> QED BY <3>4
  <2> QED BY <1>3, <2>1, <2>2, CountingKept DEF Outside
<1>4. CASE RunEngine
  BY <1>4, CountingRunEngine
<1>5. CASE RunStart \/ RunResume
  <2> DEFINE task == Head(ready).task
  <2>1. /\ UNCHANGED <<status, tradeIds, venue, tradeStatus>>
        /\ \/ AwaitsAck(task)
           \/ AtHead(task) /\ (SkipsIt(task) \/ TellsStatus(task) \/ HandsFill(task))
    BY <1>5, TaskDoes
  <2>2. CASE AwaitsAck(task) \/ SkipsIt(task)
    BY <1>2, <2>1, <2>2 DEF AwaitsAck, SkipsIt
  <2>3. CASE TellsStatus(task)
    <3>1. PICK e \in {"Accepted", "Canceled"} : Generate(Tail(ready), <<Event(e, Only)>>)
      BY <2>3 DEF TellsStatus
    <3>2. e \in EventTypes /\ e # "Filled"
      BY DEF EventTypes
    <3>3. /\ <<Event(e, Only)>> \in Seq(EngineEvent)
          /\ \A i \in DOMAIN <<Event(e, Only)>> : <<Event(e, Only)>>[i].e # "Filled"
          /\ evtq' = evtq \o <<Event(e, Only)>>
      BY <1>0, <3>1, <3>2, OnlyEvent DEF Generate
    <3> QED BY <1>1, <2>1, <2>3, <3>3, CountingKept DEF TellsStatus
  <2>4. CASE AtHead(task) /\ HandsFill(task)
    BY <2>1, <2>4, CountingHandsFill
  <2> QED BY <2>1, <2>2, <2>3, <2>4
<1>6. CASE RunMessage
  <2> DEFINE m == Head(ready).msg
  <2>1. /\ UNCHANGED <<evtq, status, tradeIds, venue, tradeStatus, handed>> /\ m \in Message
        /\ StartsOrder(m) \/ DropsTrade(m) \/ StartsTrade(m)
    BY <1>0, <1>6, MessageDoes
  <2>2. CASE dedupVars' = dedupVars
    BY <1>2, <2>1, <2>2
  <2>3. CASE m.kind = "trade" /\ Finalizes(m) /\ RecordProcessedTrade(m.t, m.s) /\ processedFills' = processedFills
    <3>1. m.t \in Trades /\ m.s \in TradeStatuses /\ DedupOK /\ Entry(m.t) # {}
      BY <1>0, <2>1, <2>3 DEF Message, OrderTask, LoopInv, TypeOK, Finalizes
    <3>2. /\ Matched' = Matched /\ MatchedFits' /\ \A u : Given(u)' = Given(u)
      BY <1>1, <2>1 DEF Given
    <3>3. ASSUME NEW u \in Trades,
                 InSeq(finalizedTrades', u) \/ Entry(u)' # {} \/ InSeq(processedFills', <<u, Only>>)
          PROVE  u \in Matched' /\ Given(u)'
      <4>1. /\ InSeq(finalizedTrades', u) => InSeq(finalizedTrades, u) \/ u = m.t
            /\ Entry(u)' # {} => Entry(u) # {} \/ u = m.t
        BY <2>3, <3>1, RecordsTrade
      <4>2. InSeq(finalizedTrades, u) \/ Entry(u) # {} \/ InSeq(processedFills, <<u, Only>>)
        BY <2>3, <3>1, <3>3, <4>1
      <4> QED BY <3>2, <4>2 DEF AgreeInv, Counting, CachesGiven
    <3>4. CachesGiven'
      BY <3>3 DEF CachesGiven
    <3>5. EngineGiven'
      BY <2>1, <3>2 DEF AgreeInv, Counting, EngineGiven
    <3>6. FilledWhenAll'
      BY <2>1 DEF AgreeInv, Counting, FilledWhenAll
    <3> QED BY <3>2, <3>4, <3>5, <3>6 DEF Counting
  <2> QED BY <2>1, <2>2, <2>3 DEF StartsOrder, DropsTrade, StartsTrade
<1>7. CASE Deliver
  BY <1>2, <1>7 DEF Deliver, engineVars, historyVars
<1> QED BY <1>3, <1>4, <1>5, <1>6, <1>7, StepKinds

-----------------------------------------------------------------------------
\* A message is a fill of one trade, or a cancellation, or neither.
LEMMA FillsCancelNothing == \A t : \A x \in FillsBy(t) : x \notin Cancels
BY DEF FillsBy, Cancels, OrderTask

\* The head of a queue of callbacks, in terms of what it carries.
LEMMA CallsHead ==
  ASSUME NEW r \in Seq(Callback), r # <<>>, NEW k, Head(r).run = k, NEW X, NEW Y
  PROVE  /\ Tail(r) \in Seq(Callback)
         /\ Some(r, Calls(k, X)) <=> Item(Head(r)) \in X \/ Some(Tail(r), Calls(k, X))
         /\ Before(r, Calls(k, X), Calls(k, Y)) /\ Item(Head(r)) \notin X =>
              Before(Tail(r), Calls(k, X), Calls(k, Y)) /\ Item(Head(r)) \notin Y
<1>1. Head(r) \in Callback /\ Tail(r) \in Seq(Callback)
  BY HeadTail
<1>2. \A Z : Head(r) \in Calls(k, Z) <=> Item(Head(r)) \in Z
  BY <1>1 DEF Calls
<1>3. Some(r, Calls(k, X)) <=> Head(r) \in Calls(k, X) \/ Some(Tail(r), Calls(k, X))
  BY SomeTail
<1>4. ASSUME Before(r, Calls(k, X), Calls(k, Y)), Head(r) \notin Calls(k, X)
      PROVE  Before(Tail(r), Calls(k, X), Calls(k, Y)) /\ Head(r) \notin Calls(k, Y)
  BY <1>4, BeforeTail
<1> QED BY <1>1, <1>2, <1>3, <1>4

\* A message that reaches the loop stays on its way, and in its place.
LEMMA DeliverMoves ==
  ASSUME LoopInv, Deliver
  PROVE  /\ \A X : OnWay(X)' <=> OnWay(X)
         /\ \A t : Ahead(t) => Ahead(t)'
         /\ \A X : Some(ready, Calls("resume", X)) => Some(ready', Calls("resume", X))
<1> DEFINE m == Head(wire)
           c == [run |-> "ws", msg |-> m]
<1>0. /\ ready \in Seq(Callback) /\ wire \in Seq(Message) /\ wire # <<>> /\ wire' = Tail(wire)
      /\ waiting' = waiting /\ ready' = Append(ready, c) /\ m \in Message
  BY HeadTail DEF LoopInv, TypeOK, LoopOK, VenueOK, Deliver, ackVars
<1>1. c \in Callback /\ c.run = "ws" /\ Item(c) = m
  BY <1>0 DEF Callback, Item
<1> HIDE DEF c
<1>2. ASSUME NEW X
      PROVE  /\ Some(ready', Calls("ws", X)) <=> Some(ready, Calls("ws", X)) \/ m \in X
             /\ Some(ready', Calls("start", X)) <=> Some(ready, Calls("start", X))
             /\ Some(ready', Calls("resume", X)) <=> Some(ready, Calls("resume", X))
             /\ Late(X)' <=> Late(X)
             /\ Some(wire, X) <=> m \in X \/ Some(wire', X)
  <2>1. c \in Calls("ws", X) <=> m \in X
    BY <1>1 DEF Calls
  <2>2. Some(ready', Calls("ws", X)) <=> Some(ready, Calls("ws", X)) \/ m \in X
    BY <1>0, <1>1, <2>1, SomeAppend
  <2>3. /\ Some(ready', Calls("start", X)) <=> Some(ready, Calls("start", X))
        /\ Some(ready', Calls("resume", X)) <=> Some(ready, Calls("resume", X))
    BY <1>0, <1>1, OtherCalls
  <2>4. Late(X)' <=> Late(X)
    BY <1>0, <2>3 DEF Late, Waits
  <2>5. Some(wire, X) <=> m \in X \/ Some(wire', X)
    BY <1>0, SomeTail
  <2> QED BY <2>2, <2>3, <2>4, <2>5
<1>3. ASSUME NEW X PROVE OnWay(X)' <=> OnWay(X)
  BY <1>2 DEF OnWay
<1>4. ASSUME NEW t, Ahead(t) PROVE Ahead(t)'
  <2> DEFINE F == FillsBy(t)
             C == Cancels
  <2>0. m \in F => m \notin C
    BY FillsCancelNothing
  <2>1. Before(ready, Calls("start", F), Calls("start", C)) => Before(ready', Calls("start", F), Calls("start", C))
    BY <1>0, <1>1, OtherCalls
  <2>2. \A Z : c \in Calls("ws", Z) <=> m \in Z
    BY <1>1 DEF Calls
  <2>3. Before(ready, Calls("ws", F), Calls("ws", C)) => Before(ready', Calls("ws", F), Calls("ws", C))
    BY <1>0, <1>1, BeforeAppend
  <2>4. ~Some(ready, Calls("ws", C)) /\ m \in F => Before(ready', Calls("ws", F), Calls("ws", C))
    BY <1>0, <1>1, <2>0, <2>2, BeforeAppend
  <2>5. Before(wire, F, C) /\ m \notin F => Before(wire', F, C) /\ m \notin C
    BY <1>0, BeforeTail
  <2> HIDE DEF F, C
  <2>6. /\ Late(F)' <=> Late(F)
        /\ Late(C)' <=> Late(C)
        /\ Some(ready', Calls("start", C)) <=> Some(ready, Calls("start", C))
        /\ Some(ready', Calls("ws", C)) <=> Some(ready, Calls("ws", C)) \/ m \in C
    BY <1>2
  <2>7. \/ Late(F)
        \/ /\ ~Late(C)
           /\ \/ Before(ready, Calls("start", F), Calls("start", C))
              \/ /\ ~Some(ready, Calls("start", C))
                 /\ \/ Before(ready, Calls("ws", F), Calls("ws", C))
                    \/ ~Some(ready, Calls("ws", C)) /\ Before(wire, F, C)
    BY <1>4 DEF Ahead, F, C
  <2>8. \/ Late(F)'
        \/ /\ ~Late(C)'
           /\ \/ Before(ready', Calls("start", F), Calls("start", C))
              \/ /\ ~Some(ready', Calls("start", C))
                 /\ \/ Before(ready', Calls("ws", F), Calls("ws", C))
                    \/ ~Some(ready', Calls("ws", C)) /\ Before(wire', F, C)
    BY <2>1, <2>3, <2>4, <2>5, <2>6, <2>7
  <2> QED BY <2>8 DEF Ahead, F, C
<1> QED BY <1>2, <1>3, <1>4

\* A task that starts to wait is late from then on.
LEMMA AwaitMoves ==
  ASSUME LoopInv, AwaitsAck(Head(ready).task), wire' = wire
  PROVE  /\ \A X : OnWay(X)' <=> OnWay(X)
         /\ \A t : Ahead(t) => Ahead(t)'
         /\ \A X : Some(ready, Calls("resume", X)) => Some(ready', Calls("resume", X))
<1> DEFINE task == Head(ready).task
           w == [task |-> task, attached |-> TRUE]
<1>0. /\ ready \in Seq(Callback) /\ ready # <<>> /\ ready' = Tail(ready) /\ Head(ready).run = "start"
      /\ waiting' = Append(waiting, w) /\ waiting \in Seq(Waiter) /\ Item(Head(ready)) = task
  BY DEF LoopInv, TypeOK, LoopOK, AcksOK, AwaitsAck, Running, Item
<1>1. w \in Waiter /\ w.task = task
  BY <1>0, HeadTask DEF Waiter, AwaitsAck
<1> HIDE DEF w
<1>2. ASSUME NEW X
      PROVE  /\ Some(ready', Calls("ws", X)) <=> Some(ready, Calls("ws", X))
             /\ Some(ready, Calls("start", X)) <=> task \in X \/ Some(ready', Calls("start", X))
             /\ Some(ready', Calls("resume", X)) <=> Some(ready, Calls("resume", X))
             /\ Late(X)' <=> Late(X) \/ task \in X
  <2>1. /\ Some(ready', Calls("ws", X)) <=> Some(ready, Calls("ws", X))
        /\ Some(ready', Calls("resume", X)) <=> Some(ready, Calls("resume", X))
    BY <1>0, OtherCalls
  <2>2. Some(ready, Calls("start", X)) <=> task \in X \/ Some(ready', Calls("start", X))
    BY <1>0, CallsHead
  <2>3. \A i \in DOMAIN waiting' : (i \in DOMAIN waiting /\ waiting'[i] = waiting[i]) \/ waiting'[i] = w
    BY <1>0, <1>1
  <2>4. \E i \in DOMAIN waiting' : waiting'[i] = w
    BY <1>0, <1>1
  <2>5. \A i \in DOMAIN waiting : i \in DOMAIN waiting' /\ waiting'[i] = waiting[i]
    BY <1>0, <1>1
  <2>6. Waits(X)' <=> Waits(X) \/ task \in X
    BY <1>1, <2>3, <2>4, <2>5 DEF Waits
  <2> QED BY <2>1, <2>2, <2>6 DEF Late
<1>3. ASSUME NEW X PROVE OnWay(X)' <=> OnWay(X)
  BY <1>2 DEF OnWay
<1>4. ASSUME NEW t, Ahead(t) PROVE Ahead(t)'
  <2> DEFINE F == FillsBy(t)
             C == Cancels
  <2> HIDE DEF F, C
  <2>1. Before(ready, Calls("start", F), Calls("start", C)) /\ task \notin F =>
          Before(ready', Calls("start", F), Calls("start", C)) /\ task \notin C
    <3>1. Before(ready, Calls("start", F), Calls("start", C)) /\ Item(Head(ready)) \notin F =>
            Before(Tail(ready), Calls("start", F), Calls("start", C)) /\ Item(Head(ready)) \notin C
      BY <1>0, CallsHead
    <3> QED BY <1>0, <3>1
  <2>2. Before(ready, Calls("ws", F), Calls("ws", C)) => Before(ready', Calls("ws", F), Calls("ws", C))
    BY <1>0, OtherCalls
  <2>3. /\ Late(F)' <=> Late(F) \/ task \in F
        /\ Late(C)' <=> Late(C) \/ task \in C
        /\ Some(ready, Calls("start", C)) <=> task \in C \/ Some(ready', Calls("start", C))
        /\ Some(ready', Calls("ws", C)) <=> Some(ready, Calls("ws", C))
    BY <1>2
  <2>4. \/ Late(F)
        \/ /\ ~Late(C)
           /\ \/ Before(ready, Calls("start", F), Calls("start", C))
              \/ /\ ~Some(ready, Calls("start", C))
                 /\ \/ Before(ready, Calls("ws", F), Calls("ws", C))
                    \/ ~Some(ready, Calls("ws", C)) /\ Before(wire, F, C)
    BY <1>4 DEF Ahead, F, C
  <2>5. \/ Late(F)'
        \/ /\ ~Late(C)'
           /\ \/ Before(ready', Calls("start", F), Calls("start", C))
              \/ /\ ~Some(ready', Calls("start", C))
                 /\ \/ Before(ready', Calls("ws", F), Calls("ws", C))
                    \/ ~Some(ready', Calls("ws", C)) /\ Before(wire', F, C)
    BY <2>1, <2>2, <2>3, <2>4
  <2> QED BY <2>5 DEF Ahead, F, C
<1> QED BY <1>2, <1>3, <1>4

\* A message that is dropped, or handed to the tasks that start, takes no cancellation off
\* the way; a fill still owed goes on before the cancellations.
LEMMA MessageMoves ==
  ASSUME AgreeInv, RunMessage
  PROVE  /\ OnWay(Cancels)' <=> OnWay(Cancels)
         /\ \A t \in Owed : Ahead(t) => Ahead(t)'
         /\ \A X : Some(ready, Calls("resume", X)) => Some(ready', Calls("resume", X))
<1> DEFINE m == Head(ready).msg
           q == Tail(ready)
           C == Cancels
<1>0. /\ LoopInv /\ ready # <<>> /\ Head(ready).run = "ws" /\ m \in Message /\ Item(Head(ready)) = m
      /\ q \in Seq(Callback) /\ ready \in Seq(Callback) /\ UNCHANGED <<waiting, wire>>
      /\ StartsOrder(m) \/ DropsTrade(m) \/ StartsTrade(m)
  BY PlaceFacts, MessageDoes DEF AgreeInv, Item
<1>1. PICK starts \in Seq(Callback) :
        /\ ready' = q \o starts
        /\ \A i \in DOMAIN starts : starts[i].run = "start"
        /\ Some(starts, Calls("start", C)) <=> m \in C
        /\ \A t \in Owed : m \in FillsBy(t) => Before(starts, Calls("start", FillsBy(t)), Calls("start", C))
  <2>1. CASE StartsOrder(m)
    <3> DEFINE c == [run |-> "start", task |-> m]
    <3>1. c \in Callback /\ c.run = "start" /\ Item(c) = m
      BY <1>0, <2>1 DEF StartsOrder, Message, Callback, Task, Item
    <3> HIDE DEF c
    <3>2. ready' = q \o <<c>> /\ <<c>> \in Seq(Callback) /\ \A i \in DOMAIN <<c>> : <<c>>[i].run = "start"
      BY <1>0, <2>1, <3>1 DEF StartsOrder, c
    <3>3. c \in Calls("start", C) <=> m \in C
      BY <3>1 DEF Calls
    <3>4. Some(<<c>>, Calls("start", C)) <=> m \in C
      BY <3>1, <3>3, SomeOne
    <3>5. \A t : m \notin FillsBy(t)
      BY <2>1 DEF StartsOrder, FillsBy
    <3> QED BY <3>2, <3>4, <3>5
  <2>2. ASSUME m.kind = "trade" PROVE m \notin C
    BY <2>2 DEF Cancels, OrderTask
  <2>3. CASE DropsTrade(m)
    <3>1. ASSUME NEW t \in Owed, m \in FillsBy(t) PROVE FALSE
      <4>1. m.kind = "trade" /\ m.t = t /\ m.s \notin {"RETRYING", "FAILED"} /\ t \in Trades
        BY <3>1 DEF FillsBy, Owed, Matched, VenueFills
      <4>2. ~InSeq(finalizedTrades, t) /\ Entry(t) = {}
        BY <3>1, <4>1 DEF Owed, AgreeInv, Counting, CachesGiven
      <4> QED BY <2>3, <4>1, <4>2 DEF DropsTrade, Ignored, Finalizes
    <3>2. ready' = q \o <<>> /\ <<>> \in Seq(Callback) /\ \A i \in DOMAIN <<>> : FALSE
      BY <1>0, <2>3 DEF DropsTrade
    <3>3. ~Some(<<>>, Calls("start", C)) /\ m \notin C
      BY <2>2, <2>3, <3>2 DEF Some, DropsTrade
    <3> QED BY <3>1, <3>2, <3>3
  <2>4. CASE StartsTrade(m)
    <3>1. PICK starts \in Seq(Callback) :
             /\ ready' = q \o starts
             /\ \A i \in DOMAIN starts : /\ starts[i].run = "start" /\ starts[i].task.kind = "trade"
                                         /\ starts[i].task.t = m.t /\ starts[i].task.s = m.s
             /\ Only \in OrdersOf(m.t) => 1 \in DOMAIN starts
      BY <2>4 DEF StartsTrade
    <3>2. ASSUME NEW i \in DOMAIN starts
          PROVE  /\ starts[i] \notin Calls("start", C)
                 /\ \A t : m \in FillsBy(t) => starts[i] \in Calls("start", FillsBy(t))
      <4>1. starts[i] \in Callback /\ starts[i].run = "start" /\ starts[i].task.kind = "trade"
            /\ starts[i].task.t = m.t /\ starts[i].task.s = m.s
        BY <3>1
      <4>2. starts[i].task \in Task /\ Item(starts[i]) = starts[i].task
        BY <4>1 DEF Callback, Answer, Item
      <4>3. starts[i].task \notin C
        BY <4>1 DEF Cancels, OrderTask
      <4>4. \A t : m \in FillsBy(t) => starts[i].task \in FillsBy(t)
        BY <4>1, <4>2 DEF FillsBy
      <4> QED BY <4>1, <4>2, <4>3, <4>4 DEF Calls
    <3>3. ~Some(starts, Calls("start", C)) /\ m \notin C
      BY <2>2, <2>4, <3>2 DEF Some, StartsTrade
    <3>4. ASSUME NEW t \in Owed, m \in FillsBy(t)
          PROVE  Before(starts, Calls("start", FillsBy(t)), Calls("start", C))
      <4>1. 1 \in DOMAIN starts
        BY <3>1, <3>4 DEF Owed, Matched, VenueFills, FillsBy
      <4>2. starts[1] \in Calls("start", FillsBy(t)) /\ \A j \in DOMAIN starts : starts[j] \notin Calls("start", C)
        BY <3>2, <3>4, <4>1
      <4> QED BY <4>1, <4>2 DEF Before
    <3> QED BY <3>1, <3>3, <3>4
  <2> QED BY <1>0, <2>1, <2>3, <2>4
<1>2. ASSUME NEW X, NEW k \in {"ws", "resume"} PROVE ~Some(starts, Calls(k, X))
  BY <1>1, <1>2 DEF Some, Calls
<1>3. ASSUME NEW X
      PROVE  /\ Some(ready, Calls("ws", X)) <=> m \in X \/ Some(ready', Calls("ws", X))
             /\ Some(ready', Calls("start", X)) <=> Some(ready, Calls("start", X)) \/ Some(starts, Calls("start", X))
             /\ Some(ready', Calls("resume", X)) <=> Some(ready, Calls("resume", X))
             /\ Late(X)' <=> Late(X)
  <2>1. /\ Some(q, Calls("start", X)) <=> Some(ready, Calls("start", X))
        /\ Some(q, Calls("resume", X)) <=> Some(ready, Calls("resume", X))
        /\ Some(ready, Calls("ws", X)) <=> m \in X \/ Some(q, Calls("ws", X))
    <3>1. Some(ready, Calls("ws", X)) <=> Item(Head(ready)) \in X \/ Some(q, Calls("ws", X))
      BY <1>0, CallsHead
    <3>2. Some(q, Calls("start", X)) <=> Some(ready, Calls("start", X))
      BY <1>0, OtherCalls
    <3>3. Some(q, Calls("resume", X)) <=> Some(ready, Calls("resume", X))
      BY <1>0, OtherCalls
    <3> QED BY <1>0, <3>1, <3>2, <3>3
  <2>2. \A k : Some(ready', Calls(k, X)) <=> Some(q, Calls(k, X)) \/ Some(starts, Calls(k, X))
    BY <1>0, <1>1, SomeConcat
  <2>3. /\ Some(ready, Calls("ws", X)) <=> m \in X \/ Some(ready', Calls("ws", X))
        /\ Some(ready', Calls("start", X)) <=> Some(ready, Calls("start", X)) \/ Some(starts, Calls("start", X))
        /\ Some(ready', Calls("resume", X)) <=> Some(ready, Calls("resume", X))
    BY <1>2, <2>1, <2>2
  <2> QED BY <1>0, <2>3 DEF Late, Waits
<1>4. OnWay(C)' <=> OnWay(C)
  <2> HIDE DEF C
  <2>1. /\ Some(ready, Calls("ws", C)) <=> m \in C \/ Some(ready', Calls("ws", C))
        /\ Some(ready', Calls("start", C)) <=> Some(ready, Calls("start", C)) \/ m \in C
        /\ Late(C)' <=> Late(C)
    BY <1>1, <1>3
  <2> QED BY <1>0, <2>1 DEF OnWay
<1>5. ASSUME NEW t \in Owed, Ahead(t) PROVE Ahead(t)'
  <2> DEFINE F == FillsBy(t)
  <2>0. m \in F => Before(starts, Calls("start", F), Calls("start", C))
    BY <1>1, <1>5
  <2> HIDE DEF C, F
  <2>1. Before(ready, Calls("start", F), Calls("start", C)) => Before(ready', Calls("start", F), Calls("start", C))
    <3>1. Before(ready, Calls("start", F), Calls("start", C)) => Before(q, Calls("start", F), Calls("start", C))
      BY <1>0, OtherCalls
    <3>2. Before(q, Calls("start", F), Calls("start", C)) => Before(ready', Calls("start", F), Calls("start", C))
      BY <1>0, <1>1, BeforeConcat
    <3> QED BY <3>1, <3>2
  <2>2. m \in F /\ ~Some(ready, Calls("start", C)) => Before(ready', Calls("start", F), Calls("start", C))
    <3>1. Some(q, Calls("start", C)) <=> Some(ready, Calls("start", C))
      BY <1>0, OtherCalls
    <3>2. ~Some(q, Calls("start", C)) /\ Before(starts, Calls("start", F), Calls("start", C)) =>
            Before(q \o starts, Calls("start", F), Calls("start", C))
      BY <1>0, <1>1, BeforeConcat
    <3> QED BY <1>1, <2>0, <3>1, <3>2
  <2>3. Before(ready, Calls("ws", F), Calls("ws", C)) /\ m \notin F =>
          Before(ready', Calls("ws", F), Calls("ws", C)) /\ m \notin C
    <3>1. Before(ready, Calls("ws", F), Calls("ws", C)) /\ Item(Head(ready)) \notin F =>
            Before(q, Calls("ws", F), Calls("ws", C)) /\ Item(Head(ready)) \notin C
      BY <1>0, CallsHead
    <3>2. Before(q, Calls("ws", F), Calls("ws", C)) => Before(q \o starts, Calls("ws", F), Calls("ws", C))
      BY <1>0, <1>1, BeforeConcat
    <3> QED BY <1>0, <1>1, <3>1, <3>2
  <2>4. /\ Late(F)' <=> Late(F)
        /\ Late(C)' <=> Late(C)
        /\ Some(ready', Calls("start", C)) <=> Some(ready, Calls("start", C)) \/ m \in C
        /\ Some(ready, Calls("ws", C)) <=> m \in C \/ Some(ready', Calls("ws", C))
    BY <1>1, <1>3
  <2>5. \/ Late(F)
        \/ /\ ~Late(C)
           /\ \/ Before(ready, Calls("start", F), Calls("start", C))
              \/ /\ ~Some(ready, Calls("start", C))
                 /\ \/ Before(ready, Calls("ws", F), Calls("ws", C))
                    \/ ~Some(ready, Calls("ws", C)) /\ Before(wire, F, C)
    BY <1>5 DEF Ahead, F, C
  <2>6. \/ Late(F)'
        \/ /\ ~Late(C)'
           /\ \/ Before(ready', Calls("start", F), Calls("start", C))
              \/ /\ ~Some(ready', Calls("start", C))
                 /\ \/ Before(ready', Calls("ws", F), Calls("ws", C))
                    \/ ~Some(ready', Calls("ws", C)) /\ Before(wire', F, C)
    BY <1>0, <2>1, <2>2, <2>3, <2>4, <2>5
  <2> QED BY <2>6 DEF Ahead, F, C
<1> QED BY <1>3, <1>4, <1>5

\* A handled task is gone; what else is owed was signalled already if it was a cancellation.
LEMMA TaskMoves ==
  ASSUME AgreeInv, NEW task, AtHead(task), wire' = wire, waiting' = <<>>,
         ready' = Tail(ready) \/ ready' = Append(Tail(ready), [run |-> "engine"])
  PROVE  /\ OnWay(Cancels)' => OnWay(Cancels)
         /\ OnWay(Cancels) => OnWay(Cancels)' \/ task \in Cancels
         /\ task \in Cancels => OnWay(Cancels)
         /\ \A t : task \notin FillsBy(t) =>
              /\ Ahead(t) => Ahead(t)'
              /\ Ahead(t) /\ task \in Cancels => Some(ready', Calls("resume", FillsBy(t)))
              /\ Some(ready, Calls("resume", FillsBy(t))) => Some(ready', Calls("resume", FillsBy(t)))
<1> DEFINE q == Tail(ready)
           c == [run |-> "engine"]
           k == Head(ready).run
           C == Cancels
<1>0. /\ ready # <<>> /\ ready \in Seq(Callback) /\ q \in Seq(Callback) /\ k \in {"start", "resume"}
      /\ waiting = <<>> /\ Item(Head(ready)) = task /\ c \in Callback /\ c.run \notin {"ws", "start", "resume"}
      /\ ready' = q \/ ready' = Append(q, c)
  BY AtHeadFacts, PlaceFacts DEF AgreeInv, AtHead, Item, Callback
<1> HIDE DEF c, q, C
<1>1. ASSUME NEW X
      PROVE  /\ Some(ready, Calls(k, X)) <=> task \in X \/ Some(ready', Calls(k, X))
             /\ \A n \in {"ws", "start", "resume"} : n # k => (Some(ready', Calls(n, X)) <=> Some(ready, Calls(n, X)))
             /\ Late(X) <=> Some(ready, Calls("resume", X))
             /\ Late(X)' <=> Some(ready', Calls("resume", X))
  <2>1. ASSUME NEW n \in {"ws", "start", "resume"}
        PROVE  Some(ready', Calls(n, X)) <=> Some(q, Calls(n, X))
    <3>1. c.run # n
      BY <1>0
    <3>2. Some(Append(q, c), Calls(n, X)) <=> Some(q, Calls(n, X))
      BY <1>0, <3>1, OtherCalls
    <3> QED BY <1>0, <3>2
  <2>2. Some(ready, Calls(k, X)) <=> Item(Head(ready)) \in X \/ Some(q, Calls(k, X))
    BY <1>0, CallsHead DEF q
  <2>3. \A n : n # k => (Some(q, Calls(n, X)) <=> Some(ready, Calls(n, X)))
    BY <1>0, OtherCalls DEF q
  <2>4. ~Waits(X) /\ ~Waits(X)'
    BY <1>0 DEF Waits
  <2> QED BY <1>0, <2>1, <2>2, <2>3, <2>4 DEF Late
<1>2. /\ OnWay(C)' => OnWay(C)
      /\ OnWay(C) => OnWay(C)' \/ task \in C
      /\ task \in C => OnWay(C)
  BY <1>0, <1>1 DEF OnWay
<1>3. ASSUME NEW t, task \notin FillsBy(t)
      PROVE  /\ Ahead(t) => Ahead(t)'
             /\ Ahead(t) /\ task \in C => Some(ready', Calls("resume", FillsBy(t)))
             /\ Some(ready, Calls("resume", FillsBy(t))) => Some(ready', Calls("resume", FillsBy(t)))
  <2> DEFINE F == FillsBy(t)
  <2>0. task \notin F
    BY <1>3
  <2> HIDE DEF F
  <2>1. /\ Before(ready, Calls(k, F), Calls(k, C)) => Before(ready', Calls(k, F), Calls(k, C)) /\ task \notin C
        /\ \A n \in {"ws", "start"} : n # k /\ Before(ready, Calls(n, F), Calls(n, C)) =>
                                        Before(ready', Calls(n, F), Calls(n, C))
    <3>1. Before(ready, Calls(k, F), Calls(k, C)) /\ Item(Head(ready)) \notin F =>
            Before(q, Calls(k, F), Calls(k, C)) /\ Item(Head(ready)) \notin C
      BY <1>0, CallsHead DEF q
    <3>2. \A n : n # k /\ Before(ready, Calls(n, F), Calls(n, C)) => Before(q, Calls(n, F), Calls(n, C))
      BY <1>0, OtherCalls DEF q
    <3>3. \A n \in {"ws", "start", "resume"} :
            Before(q, Calls(n, F), Calls(n, C)) => Before(ready', Calls(n, F), Calls(n, C))
      BY <1>0, OtherCalls
    <3> QED BY <1>0, <2>0, <3>1, <3>2, <3>3
  <2>2. /\ Some(ready, Calls("resume", F)) => Some(ready', Calls("resume", F))
        /\ Late(F) <=> Some(ready, Calls("resume", F))
        /\ Late(F)' <=> Some(ready', Calls("resume", F))
    BY <1>0, <1>1, <2>0
  <2>3. /\ Late(C)' => Late(C)
        /\ Some(ready', Calls("start", C)) => Some(ready, Calls("start", C))
        /\ Some(ready', Calls("ws", C)) => Some(ready, Calls("ws", C))
        /\ task \in C => Late(C) \/ (k = "start" /\ Some(ready, Calls("start", C)))
    BY <1>0, <1>1
  <2>4. ASSUME Ahead(t)
        PROVE  \/ Late(F)
               \/ /\ ~Late(C)
                  /\ \/ Before(ready, Calls("start", F), Calls("start", C))
                     \/ /\ ~Some(ready, Calls("start", C))
                        /\ \/ Before(ready, Calls("ws", F), Calls("ws", C))
                           \/ ~Some(ready, Calls("ws", C)) /\ Before(wire, F, C)
    BY <2>4 DEF Ahead, F, C
  <2>5. ASSUME Ahead(t)
        PROVE  \/ Late(F)'
               \/ /\ ~Late(C)'
                  /\ \/ Before(ready', Calls("start", F), Calls("start", C))
                     \/ /\ ~Some(ready', Calls("start", C))
                        /\ \/ Before(ready', Calls("ws", F), Calls("ws", C))
                           \/ ~Some(ready', Calls("ws", C)) /\ Before(wire', F, C)
    BY <1>0, <2>1, <2>2, <2>3, <2>4, <2>5
  <2>6. ASSUME Ahead(t) PROVE Ahead(t)'
    BY <2>5, <2>6 DEF Ahead, F, C
  <2>7. ASSUME Ahead(t), task \in C PROVE Some(ready', Calls("resume", F))
    BY <1>0, <2>1, <2>2, <2>3, <2>4, <2>7
  <2> QED BY <2>2, <2>6, <2>7 DEF F
<1> QED BY <1>2, <1>3 DEF C

-----------------------------------------------------------------------------
\* The event the engine is told of a cancellation with, among those appended.
LEMMA ToldAppended ==
  ASSUME LoopInv, NEW v \in EngineEvent, evtq' = Append(evtq, v)
  PROVE  CancelTold' <=> CancelTold \/ v = Event("Canceled", Only)
<1>1. evtq \in Seq(EngineEvent)
  BY DEF LoopInv, TypeOK, LoopOK
<1>2. InSeq(evtq', Event("Canceled", Only)) <=> InSeq(evtq, Event("Canceled", Only)) \/ v = Event("Canceled", Only)
  BY <1>1, InSeqAppend
<1> QED BY <1>2 DEF CancelTold

\* The order and the counts, in a step that the venue takes no part in.
LEMMA OrderedKept ==
  ASSUME AgreeInv, Owed' \subseteq Owed,
         \A t \in Owed' : Ahead(t) => Ahead(t)',
         CancelTold' => CancelTold,
         \A X : Some(ready, Calls("resume", X)) => Some(ready', Calls("resume", X)),
         status' = status
  PROVE  Ordered'
BY DEF AgreeInv, Ordered

\* ... and the cancellations.
LEMMA CancellingKept ==
  ASSUME AgreeInv, UNCHANGED <<venue, tradeStatus, status>>,
         OnWay(Cancels)' <=> OnWay(Cancels), CancelTold' <=> CancelTold
  PROVE  Cancelling'
BY DEF AgreeInv, Cancelling, Matched, VenueFills

\* What is owed, when nothing is matched or handed over.
LEMMA OwedSame ==
  ASSUME UNCHANGED <<tradeStatus, handed>>
  PROVE  Owed' = Owed
BY DEF Owed, Matched, VenueFills, Given

\* The venue cancels behind its fills, and fills nothing it has canceled.
LEMMA OutsideStep ==
  ASSUME AgreeInv, Outside
  PROVE  Cancelling' /\ Ordered'
<1>0. /\ LoopInv /\ wire \in Seq(Message) /\ Only \in Orders /\ status' = status
      /\ \A t : Given(t)' = Given(t)
  BY PlaceFacts DEF AgreeInv, LoopInv, TypeOK, VenueOK, Outside, Given
<1>1. CancelTold' <=> CancelTold
  <2>1. ASSUME NEW e \in EventTypes \ {"Canceled"}, evtq' = Append(evtq, Event(e, Only))
        PROVE  CancelTold' <=> CancelTold
    <3>1. Event(e, Only) \in EngineEvent /\ Event(e, Only) # Event("Canceled", Only)
      BY <1>0, <2>1 DEF Event, EngineEvent
    <3> QED BY <1>0, <2>1, <3>1, ToldAppended
  <2>2. CASE evtq' = evtq
    BY <2>2 DEF CancelTold
  <2> QED BY <2>1, <2>2 DEF Outside
<1>2. \A X : Some(ready, Calls("resume", X)) => Some(ready', Calls("resume", X))
  BY DEF Outside, Undisturbed
<1>3. ASSUME NEW m \in Message, wire' = wire \/ wire' = Append(wire, m)
      PROVE  /\ \A t : Ahead(t) => Ahead(t)'
             /\ OnWay(Cancels) => OnWay(Cancels)'
             /\ OnWay(Cancels)' => OnWay(Cancels) \/ (wire' # wire /\ m \in Cancels)
  BY <1>0, <1>3, StillAhead DEF Outside
<1>4. CASE TakesOut
  <2>1. PICK m \in Cancels : wire' = Append(wire, m)
    BY <1>4 DEF TakesOut
  <2>2. m \in Message
    BY <2>1 DEF Cancels, Message
  <2>3. OnWay(Cancels)'
    <3>1. Some(wire', Cancels)
      BY <1>0, <2>1, <2>2, SomeAppend
    <3> QED BY <3>1 DEF OnWay
  <2>4. Cancelling'
    BY <1>4, <2>3 DEF TakesOut, Cancelling
  <2>5. Owed' = Owed
    BY <1>0, <1>4 DEF TakesOut, Owed
  <2>6. \A t \in Owed' : Ahead(t) => Ahead(t)'
    BY <1>3, <2>1, <2>2
  <2> QED BY <1>0, <1>1, <1>2, <2>4, <2>5, <2>6, OrderedKept
<1>5. CASE GoesOn
  <2>1. PICK m \in Message \ Cancels : wire' = wire \/ wire' = Append(wire, m)
    <3>1. [kind |-> "order", o |-> Only, typ |-> "PLACEMENT"] \in Message \ Cancels
      BY <1>0 DEF Message, OrderTask, OrderMsgTypes, Cancels
    <3> QED BY <1>5, <3>1 DEF GoesOn
  <2>2. (OnWay(Cancels)' <=> OnWay(Cancels)) /\ \A t : Ahead(t) => Ahead(t)'
    BY <1>3, <2>1
  <2>3. Cancelling'
    BY <1>0, <1>1, <1>5, <2>2 DEF GoesOn, AgreeInv, Cancelling
  <2>4. Owed' = Owed
    BY <1>0, <1>5 DEF GoesOn, Owed
  <2> QED BY <1>0, <1>1, <1>2, <2>2, <2>3, <2>4, OrderedKept
<1>6. ASSUME NEW t \in Trades, FillsWith(t)
      PROVE  Cancelling' /\ Ordered'
  <2> DEFINE F == FillsBy(t)
             C == Cancels
  <2>2. ~OnWay(C) /\ ~CancelTold /\ status[Only] # "CANCELED" /\ venue[Only] = "live"
    BY <1>6 DEF FillsWith, AgreeInv, Cancelling
  <2>3. PICK x \in Message : wire' = Append(wire, x) /\ x \notin C /\ x \in F
    BY <1>6, FillsCancelNothing DEF FillsWith
  <2>5. ~OnWay(C)' /\ \A u : Ahead(u) => Ahead(u)'
    BY <1>3, <2>2, <2>3
  <2>6. Ahead(t)'
    <3>1. Before(wire', F, C)
      <4>1. ~Some(wire, C)
        BY <2>2 DEF OnWay
      <4> HIDE DEF F, C
      <4> QED BY <1>0, <2>3, <4>1, BeforeAppend
    <3>2. ~Late(C)' /\ ~Some(ready', Calls("start", C)) /\ ~Some(ready', Calls("ws", C))
      BY <2>5 DEF OnWay
    <3> QED BY <3>1, <3>2 DEF Ahead
  <2>7. Cancelling'
    <3>1. venue'[Only] = "gone" => Cardinality(Matched') >= Qty[Only]
      <4>1. Cardinality(Matched') = Cardinality(Matched) + 1
        BY <1>6, FS_AddElement DEF FillsWith, AgreeInv, Counting, MatchedFits
      <4> QED BY <1>6, <4>1 DEF FillsWith
    <3> QED BY <1>0, <1>1, <2>2, <2>5, <3>1 DEF Cancelling
  <2>8. \A u \in Owed' : u \in Owed \/ u = t
    BY <1>0, <1>6 DEF FillsWith, Owed
  <2>9. Ordered'
    BY <1>0, <1>1, <2>2, <2>5, <2>6, <2>8 DEF AgreeInv, Ordered
  <2> QED BY <2>7, <2>9
<1> QED BY <1>4, <1>5, <1>6 DEF Outside, VenueMoves

\* What the engine makes of a cancellation.
LEMMA EngineCancels ==
  ASSUME AgreeInv, RunEngine
  PROVE  LET toldNow == Head(evtq) = Event("Canceled", Only)
         IN  /\ status'[Only] = "CANCELED" => status[Only] = "CANCELED" \/ toldNow
             /\ status[Only] \in {"CANCELED", "FILLED"} \/ toldNow => status'[Only] \in {"CANCELED", "FILLED"}
             /\ CancelTold <=> toldNow \/ CancelTold'
<1> DEFINE ev == Head(evtq)
           toldNow == ev = Event("Canceled", Only)
<1>0. /\ PlaceInv /\ Running("engine") /\ acked' = acked /\ evtq' = Tail(evtq)
  BY DEF AgreeInv, RunEngine, ackVars
<1>1. /\ evtq # <<>> /\ ev \in EngineEvent /\ ev.o = Only /\ evtq \in Seq(EngineEvent)
      /\ ev = evtq[1] /\ 1 \in DOMAIN evtq /\ Only \in Orders
      /\ status \in [Orders -> OrderStatuses]
  BY <1>0, EngineHead, PlaceFacts DEF LoopInv, TypeOK, EngineOK
<1>2. CancelTold <=> toldNow \/ CancelTold'
  <2> DEFINE x == Event("Canceled", Only)
  <2> HIDE DEF x
  <2>1. /\ \A i \in DOMAIN Tail(evtq) : i + 1 \in DOMAIN evtq /\ Tail(evtq)[i] = evtq[i + 1]
        /\ \A i \in DOMAIN evtq : i # 1 => i - 1 \in DOMAIN Tail(evtq) /\ Tail(evtq)[i - 1] = evtq[i]
    BY <1>1, HeadTail
  <2>2. InSeq(evtq, x) => ev = x \/ InSeq(evtq', x)
    BY <1>0, <1>1, <2>1 DEF InSeq
  <2>3. ev = x \/ InSeq(evtq', x) => InSeq(evtq, x)
    BY <1>0, <1>1, <2>1 DEF InSeq
  <2> QED BY <2>2, <2>3 DEF CancelTold, x
<1>3. ev.e = "Canceled" <=> toldNow
  <2>1. ASSUME ev.e = "Canceled" PROVE toldNow
    BY <1>1, <2>1 DEF EngineEvent, EventTypes, Event
  <2>2. Event("Canceled", Only).e = "Canceled"
    BY DEF Event
  <2> QED BY <2>1, <2>2
<1>4. toldNow => status[Only] \in Applied \union {"SUBMITTED"}
  BY <1>0, <1>1, <1>3 DEF PlaceInv, Placing, Phases, FirstEvents
<1>5. CASE /\ ev.e = "Filled"
           /\ status' = [status EXCEPT ![Only] = FillStatus(Only, tradeIds[Only] \union {ev.t})]
  <2>1. status'[Only] = FillStatus(Only, tradeIds[Only] \union {ev.t}) /\ ~toldNow
    BY <1>1, <1>3, <1>5
  <2>2. status'[Only] = "CANCELED" => status[Only] = "CANCELED"
    BY <2>1 DEF FillStatus
  <2>3. status[Only] \in {"CANCELED"} => status'[Only] \in {"CANCELED", "FILLED"}
    BY <2>1 DEF FillStatus
  <2>4. status[Only] # "FILLED" \/ status'[Only] = "FILLED"
    <3>1. ASSUME status[Only] = "FILLED" PROVE status'[Only] = "FILLED"
      <4>1. Counting' /\ FilledWhenAll
        BY CountingRunEngine DEF AgreeInv, Counting
      <4>2. /\ Cardinality(tradeIds[Only]) >= Qty[Only]
            /\ tradeIds'[Only] = tradeIds[Only] => Cardinality(tradeIds'[Only]) >= Qty[Only]
        BY <3>1, <4>1 DEF FilledWhenAll
      <4>3. tradeIds[Only] = Matched /\ InSeq(evtq, FilledEvent(ev.t)) /\ ev.t \in Trades
        <5>1. tradeIds[Only] = Matched
          BY <3>1, FilledOwedNothing
        <5>2. ev.t \in Trades /\ ev = FilledEvent(ev.t)
          BY <1>1, <1>5 DEF EngineEvent, EventTypes, FilledEvent
        <5> QED BY <1>1, <5>1, <5>2 DEF InSeq
      <4>4. ev.t \in Matched
        BY <4>3 DEF AgreeInv, Counting, EngineGiven
      <4>5. tradeIds[Only] \union {ev.t} = tradeIds[Only]
        BY <4>3, <4>4
      <4> QED BY <2>1, <4>2, <4>5 DEF FillStatus
    <3> QED BY <3>1
  <2> QED BY <1>2, <2>1, <2>2, <2>3, <2>4
<1>6. CASE /\ ev.e # "Filled" /\ Legal(ev.e, status[Only])
           /\ status' = [status EXCEPT ![Only] = Target(ev.e)]
  <2>1. status'[Only] = Target(ev.e) /\ ev.e \in EventTypes
    BY <1>1, <1>6 DEF EngineEvent
  <2>2. status'[Only] = "CANCELED" <=> toldNow
    BY <1>3, <1>6, <2>1 DEF Target, Legal, EventTypes
  <2>3. status[Only] \notin {"CANCELED", "FILLED"}
    BY <1>6, <2>1 DEF Legal, EventTypes
  <2> QED BY <1>2, <2>2, <2>3
<1>7. CASE /\ ~Legal(ev.e, status[Only]) \/ (ev.e = "Filled" /\ ev.t \in tradeIds[Only])
           /\ status' = status
  <2>1. toldNow => status[Only] \in {"CANCELED", "FILLED"}
    BY <1>3, <1>4, <1>7 DEF Legal, Applied
  <2> QED BY <1>2, <1>7, <2>1
<1> QED BY <1>1, <1>5, <1>6, <1>7 DEF RunEngine, engineVars

\* Once the engine is told of a cancellation, nothing is owed.
LEMMA EngineStep ==
  ASSUME AgreeInv, RunEngine
  PROVE  Cancelling' /\ Ordered'
<1> DEFINE toldNow == Head(evtq) = Event("Canceled", Only)
<1>0. /\ PlaceInv /\ Running("engine") /\ UNCHANGED <<waiting, wire, venue, tradeStatus, handed>>
      /\ ready' = ready \/ ready' = Tail(ready)
  BY DEF AgreeInv, RunEngine, ackVars, venueVars, historyVars
<1>1. Undisturbed
  <2>1. /\ ready \in Seq(Callback) /\ ready # <<>> /\ Head(ready).run \notin Carries
    BY <1>0, PlaceFacts DEF Running, Carries
  <2>2. SameItems(ready')
    BY <1>0, <2>1, SameItemsOf
  <2> QED BY <1>0, <2>2, UndisturbedOf
<1>2. (OnWay(Cancels)' <=> OnWay(Cancels)) /\ \A t : Ahead(t) => Ahead(t)'
  <2>1. wire \in Seq(Message) /\ [kind |-> "order", o |-> Only, typ |-> "PLACEMENT"] \in Message
    BY <1>0, PlaceFacts DEF LoopInv, TypeOK, VenueOK, Message, OrderTask, OrderMsgTypes
  <2> QED BY <1>0, <1>1, <2>1, StillAhead
<1>3. /\ status'[Only] = "CANCELED" => status[Only] = "CANCELED" \/ toldNow
      /\ status[Only] \in {"CANCELED", "FILLED"} \/ toldNow => status'[Only] \in {"CANCELED", "FILLED"}
      /\ CancelTold <=> toldNow \/ CancelTold'
  BY EngineCancels
<1>4. Owed' = Owed /\ Matched' = Matched
  BY <1>0, OwedSame DEF Matched, VenueFills
<1>5. CancelTold => Owed = {}
  <2>1. \A X : ~Some(ready, Calls("resume", X))
    BY <1>0, EngineHead DEF Some, Calls
  <2> QED BY <2>1 DEF AgreeInv, Ordered
<1>6. Cancelling'
  BY <1>0, <1>2, <1>3, <1>4 DEF AgreeInv, Cancelling
<1>7. Ordered'
  BY <1>2, <1>3, <1>4, <1>5 DEF AgreeInv, Ordered
<1> QED BY <1>6, <1>7

\* A cancellation is handled once what is owed was signalled, or it waits behind it.
LEMMA TaskStep ==
  ASSUME AgreeInv, RunStart \/ RunResume
  PROVE  Cancelling' /\ Ordered'
<1> DEFINE task == Head(ready).task
<1>0. /\ UNCHANGED <<status, venue, tradeStatus, wire>> /\ LoopInv
      /\ \/ AwaitsAck(task)
         \/ /\ AtHead(task) /\ waiting' = <<>>
            /\ SkipsIt(task) \/ TellsStatus(task) \/ HandsFill(task)
  BY TaskDoes, PlaceFacts DEF AgreeInv
<1>1. CASE AwaitsAck(task)
  <2>1. /\ \A X : OnWay(X)' <=> OnWay(X)
        /\ \A t : Ahead(t) => Ahead(t)'
        /\ \A X : Some(ready, Calls("resume", X)) => Some(ready', Calls("resume", X))
    BY <1>0, <1>1, AwaitMoves
  <2>2. Owed' = Owed /\ (CancelTold' <=> CancelTold)
    BY <1>0, <1>1, OwedSame DEF AwaitsAck, CancelTold
  <2>3. Cancelling'
    BY <1>0, <2>1, <2>2, CancellingKept
  <2>4. Ordered'
    BY <1>0, <2>1, <2>2, OrderedKept
  <2> QED BY <2>3, <2>4
<1>2. ASSUME AtHead(task), waiting' = <<>>,
             ready' = Tail(ready) \/ ready' = Append(Tail(ready), [run |-> "engine"]),
             Owed' \subseteq Owed, task.kind = "trade" => task.t \notin Owed',
             CancelTold => CancelTold', CancelTold' => CancelTold \/ task \in Cancels,
             task \in Cancels => CancelTold' \/ status[Only] = "CANCELED"
      PROVE  Cancelling' /\ Ordered'
  <2>1. /\ OnWay(Cancels)' => OnWay(Cancels)
        /\ OnWay(Cancels) => OnWay(Cancels)' \/ task \in Cancels
        /\ task \in Cancels => OnWay(Cancels)
        /\ \A t : task \notin FillsBy(t) =>
             /\ Ahead(t) => Ahead(t)'
             /\ Ahead(t) /\ task \in Cancels => Some(ready', Calls("resume", FillsBy(t)))
             /\ Some(ready, Calls("resume", FillsBy(t))) => Some(ready', Calls("resume", FillsBy(t)))
    BY <1>0, <1>2, TaskMoves
  <2>2. \A t \in Owed' : t \in Owed /\ task \notin FillsBy(t)
    BY <1>2 DEF FillsBy
  <2>3. Cancelling'
    BY <1>0, <1>2, <2>1 DEF AgreeInv, Cancelling, Matched, VenueFills
  <2>4. Ordered'
    BY <1>0, <1>2, <2>1, <2>2 DEF AgreeInv, Ordered
  <2> QED BY <2>3, <2>4
<1>3. CASE AtHead(task) /\ waiting' = <<>> /\ SkipsIt(task)
  <2>1. Owed' = Owed /\ (CancelTold' <=> CancelTold)
    BY <1>0, <1>3, OwedSame DEF SkipsIt, CancelTold
  <2> QED BY <1>2, <1>3, <2>1 DEF SkipsIt
<1>4. CASE AtHead(task) /\ waiting' = <<>> /\ TellsStatus(task)
  <2>1. PICK e \in {"Accepted", "Canceled"} : /\ Generate(Tail(ready), <<Event(e, Only)>>)
                                              /\ e = "Canceled" <=> task \in Cancels
    BY <1>4 DEF TellsStatus
  <2>2. Owed' = Owed
    BY <1>0, <1>4, OwedSame DEF TellsStatus
  <2>3. Event(e, Only) \in EngineEvent /\ evtq \in Seq(EngineEvent)
    BY PlaceFacts DEF AgreeInv, Event, EngineEvent, EventTypes
  <2>4. evtq' = Append(evtq, Event(e, Only))
    BY <2>1, <2>3 DEF Generate
  <2>5. Event(e, Only) = Event("Canceled", Only) <=> e = "Canceled"
    BY DEF Event
  <2>6. CancelTold' <=> CancelTold \/ task \in Cancels
    BY <1>0, <2>1, <2>3, <2>4, <2>5, ToldAppended
  <2>7. ready' = Tail(ready) \/ ready' = Append(Tail(ready), [run |-> "engine"])
    BY <2>1 DEF Generate
  <2> QED BY <1>2, <1>4, <2>2, <2>6, <2>7 DEF TellsStatus
<1>5. CASE AtHead(task) /\ waiting' = <<>> /\ HandsFill(task)
  <2>1. /\ task.kind = "trade" /\ task \notin Cancels /\ <<task.t, Only>> \in Fills /\ task.t \in Trades
    BY <1>5, AtHeadFacts DEF HandsFill, Cancels, OrderTask, Fills
  <2>2. /\ handed \in [Fills -> Nat] /\ evtq \in Seq(EngineEvent) /\ Only \in Orders
        /\ handed' = [handed EXCEPT ![<<task.t, Only>>] = @ + 1]
    BY <1>5, PlaceFacts DEF HandsFill, AgreeInv, LoopInv, TypeOK, HistoryOK
  <2>3. Owed' \subseteq Owed /\ task.t \notin Owed'
    <3>1. \A t : t \in Matched' <=> t \in Matched
      BY <1>0 DEF Matched, VenueFills
    <3>2. \A t \in Matched : <<t, Only>> \in Fills
      BY <2>2 DEF Matched, VenueFills, Fills
    <3>3. \A t : <<t, Only>> \in Fills => (Given(t)' <=> Given(t) \/ t = task.t)
      BY <2>1, <2>2 DEF Given
    <3> QED BY <2>1, <3>1, <3>2, <3>3 DEF Owed
  <2>4. FilledEvent(task.t) \in EngineEvent /\ FilledEvent(task.t) # Event("Canceled", Only)
    BY <2>1, <2>2 DEF FilledEvent, EngineEvent, Event
  <2>5. evtq' = Append(evtq, FilledEvent(task.t))
    BY <1>5, <2>2, <2>4 DEF HandsFill, Generate
  <2>6. CancelTold' <=> CancelTold
    BY <1>0, <2>4, <2>5, ToldAppended
  <2>7. ready' = Tail(ready) \/ ready' = Append(Tail(ready), [run |-> "engine"])
    BY <1>5 DEF HandsFill, Generate
  <2> QED BY <1>2, <1>5, <2>1, <2>3, <2>6, <2>7
<1> QED BY <1>0, <1>1, <1>3, <1>4, <1>5

\* A cancellation is handled after every fill that precedes it at the venue.
LEMMA OrderedStep ==
  ASSUME AgreeInv, [Next]_vars
  PROVE  Cancelling' /\ Ordered'
<1>0. LoopInv
  BY PlaceFacts DEF AgreeInv
<1>1. CASE RunMessage
  <2>1. /\ OnWay(Cancels)' <=> OnWay(Cancels)
        /\ \A t \in Owed : Ahead(t) => Ahead(t)'
        /\ \A X : Some(ready, Calls("resume", X)) => Some(ready', Calls("resume", X))
    BY <1>1, MessageMoves
  <2>2. UNCHANGED <<evtq, status, venue, tradeStatus, handed>>
    BY <1>0, <1>1, MessageDoes
  <2>3. Owed' = Owed /\ (CancelTold' <=> CancelTold)
    BY <2>2, OwedSame DEF CancelTold
  <2>4. Cancelling'
    BY <2>1, <2>2, <2>3, CancellingKept
  <2>5. Ordered'
    BY <2>1, <2>2, <2>3, OrderedKept
  <2> QED BY <2>4, <2>5
<1>2. CASE Deliver
  <2>1. /\ \A X : OnWay(X)' <=> OnWay(X)
        /\ \A t : Ahead(t) => Ahead(t)'
        /\ \A X : Some(ready, Calls("resume", X)) => Some(ready', Calls("resume", X))
    BY <1>0, <1>2, DeliverMoves
  <2>2. UNCHANGED <<evtq, status, venue, tradeStatus, handed>>
    BY <1>2 DEF Deliver, engineVars, historyVars
  <2>3. Owed' = Owed /\ (CancelTold' <=> CancelTold)
    BY <2>2, OwedSame DEF CancelTold
  <2>4. Cancelling'
    BY <2>1, <2>2, <2>3, CancellingKept
  <2>5. Ordered'
    BY <2>1, <2>2, <2>3, OrderedKept
  <2> QED BY <2>4, <2>5
<1> QED BY <1>1, <1>2, StepKinds, OutsideStep, EngineStep, TaskStep

\* Only lists are posted as a batch.
LEMMA OneOrderBatchesNone ==
  ASSUME OneOrder, batched = {}, [Next]_vars
  PROVE  batched' = {}
BY DEF OneOrder, Next, Run, vars, commandVars, SubmitOrder, CancelOrder, CancelAnswered,
       FireAndForgetCancel, VenueAccepts, Respond, VenueMatches, VenueSettles, VenueResends,
       Deliver, AckTimeout, RunAnswer, RunMessage, RunStart, RunResume, RunEngine

\* The parts are inductive together.
LEMMA AgreeStep == AgreeInv /\ [Next]_vars => AgreeInv'
<1> SUFFICES ASSUME AgreeInv, [Next]_vars PROVE AgreeInv'
  OBVIOUS
<1>1. OneOrder /\ WaitInv /\ LoopInv /\ Consumed /\ Origins /\ "timeout" \notin Faults
  BY DEF AgreeInv, PlaceInv, OneOrder, WaitInv
<1>2. OneOrder'
  BY <1>1 DEF OneOrder, Only
<1>2a. batched' = {}
  BY OneOrderBatchesNone DEF AgreeInv, PlaceInv
<1>3. WaitInv' /\ LoopInv' /\ Consumed' /\ Origins'
  BY <1>1, WaitStep, LoopStep, ConsumedStep, OriginsKept
<1>4. Placing'
  BY <1>3, PlacingStep
<1> QED BY <1>2, <1>2a, <1>3, <1>4, CountingStep, OrderedStep DEF AgreeInv, PlaceInv

\* Nothing is matched, owed or on its way at first.
LEMMA AgreeInit == OneOrder /\ Init => AgreeInv
<1> SUFFICES ASSUME OneOrder, Init PROVE AgreeInv
  OBVIOUS
<1>0. /\ Orders = {Only} /\ Only \in Orders /\ Qty[Only] > 0 /\ Qty[Only] \in Nat
      /\ ready = <<>> /\ evtq = <<>> /\ wire = <<>> /\ waiting = <<>> /\ posts = {} /\ acked = {}
      /\ cancelling = {} /\ status[Only] = "INITIALIZED" /\ tradeIds[Only] = {} /\ venue[Only] = "absent"
      /\ processedFills = <<>> /\ processedTrades = <<>> /\ finalizedTrades = <<>>
  BY ConstantsAssumption DEF OneOrder, Init
<1>1. LoopInv
  BY LoopInit
<1>2. batched = {} /\ WaitInv /\ Consumed /\ Origins
  BY <1>0, <1>1 DEF Consumed, Init, WaitInv, Wakeable, Origins
<1>3. Placing
  BY <1>0 DEF Placing, Unplaced, OnePost, Placed, OneAnswer, EngineBetween, Phases, Some, Applied
<1>4. Matched = {} /\ \A t \in Trades : <<t, Only>> \in Fills => ~Given(t)
  BY DEF Init, Matched, VenueFills, Given
<1>5. \A K : ~Some(<<>>, K)
  BY DEF Some
<1>6. ~OnWay(Cancels) /\ ~CancelTold
  BY <1>0, <1>5 DEF OnWay, Late, Waits, CancelTold, InSeq
<1>7. Counting
  <2>1. IsFiniteSet({}) /\ Cardinality({}) = 0
    BY FS_EmptySet
  <2>2. EngineGiven /\ CachesGiven
    BY <1>0, <1>4 DEF EngineGiven, CachesGiven, InSeq, Entry
  <2> QED BY <1>0, <1>4, <2>1, <2>2 DEF Counting, MatchedFits, FilledWhenAll
<1>8. Cancelling /\ Ordered
  BY <1>0, <1>4, <1>6 DEF Cancelling, Ordered, Owed
<1> QED BY <1>2, <1>3, <1>7, <1>8 DEF AgreeInv, PlaceInv

\* When nothing is in flight nothing is owed, and the engine has applied what it was handed.
LEMMA AgreeQuiet == AgreeInv => SettledAgreement
<1> SUFFICES ASSUME AgreeInv, Quiet, Only \in acked
             PROVE  /\ tradeIds[Only] = VenueFills(Only)
                    /\ status[Only] \in ClosedStatuses <=> venue[Only] = "gone"
  BY PlaceFacts DEF AgreeInv, SettledAgreement
<1>0. ready = <<>> /\ wire = <<>> /\ waiting = <<>> /\ evtq = <<>> /\ Only \in Orders
      /\ venue[Only] \in {"absent", "live", "gone"} /\ Qty[Only] \in Nat /\ Qty[Only] > 0
  BY PlaceFacts, ConstantsAssumption
     DEF Quiet, AgreeInv, PlaceInv, OneOrder, LoopInv, TypeOK, VenueOK
<1>1. \A K, L : ~Some(<<>>, K) /\ ~Before(<<>>, K, L)
  BY DEF Some, Before
<1>2. \A X : ~OnWay(X) /\ ~Late(X)
  <2>1. \A X : ~Some(<<>>, X) /\ ~Waits(X)
    BY <1>0, <1>1 DEF Waits
  <2> QED BY <1>0, <2>1 DEF OnWay, Late
<1>3. Owed = {} /\ ~CancelTold
  BY <1>0, <1>1, <1>2 DEF AgreeInv, Ordered, Ahead, CancelTold, InSeq
<1>4. tradeIds[Only] = Matched
  <2>1. \A t \in Matched : t \in tradeIds[Only]
    BY <1>0, <1>3 DEF Owed, AgreeInv, Counting, EngineGiven, InSeq
  <2> QED BY <2>1, FilledOwedNothing
<1>5. status[Only] \in ClosedStatuses <=> status[Only] \in {"CANCELED", "FILLED"}
  BY DEF AgreeInv, PlaceInv, Placing, Phases, Applied, ClosedStatuses
<1>6. ASSUME status[Only] = "FILLED" PROVE venue[Only] = "gone"
  <2>1. /\ MatchedFits /\ Cardinality(Matched) >= Qty[Only]
        /\ Cardinality(Matched) \in Nat
    <3>1. MatchedFits /\ FilledWhenAll
      BY DEF AgreeInv, Counting
    <3>2. Cardinality(Matched) >= Qty[Only]
      BY <1>4, <1>6, <3>1 DEF FilledWhenAll
    <3>3. Cardinality(Matched) \in Nat
      BY <3>1, FS_CardinalityType DEF MatchedFits
    <3> QED BY <3>1, <3>2, <3>3
  <2>2. Matched # {}
    <3>1. ASSUME Matched = {} PROVE Cardinality(Matched) = 0
      BY <3>1, FS_EmptySet
    <3>2. Cardinality(Matched) # 0
      BY <1>0, <2>1
    <3> QED BY <3>1, <3>2
  <2>3. venue[Only] # "live" /\ venue[Only] # "absent"
    <3>1. ~(Cardinality(Matched) < Qty[Only])
      BY <1>0, <2>1
    <3> QED BY <2>1, <2>2, <3>1 DEF MatchedFits
  <2> QED BY <1>0, <2>3
<1>7. status[Only] \in {"CANCELED", "FILLED"} <=> venue[Only] = "gone"
  BY <1>2, <1>3, <1>4, <1>6 DEF AgreeInv, Cancelling, Counting, FilledWhenAll
<1> QED BY <1>4, <1>5, <1>7 DEF Matched

\* Whatever the venue announces, repeats or settles, and however the answers are lost, one
\* order that the client knows agrees with the venue once nothing is in flight: it holds
\* the venue's fills, and is closed exactly when it is out of the venue's book.
THEOREM SettledAgrees == OneOrder /\ Spec => []SettledAgreement
<1> SUFFICES ASSUME OneOrder PROVE Spec => []SettledAgreement
  OBVIOUS
<1>1. Init => AgreeInv
  BY AgreeInit
<1> QED BY <1>1, AgreeStep, AgreeQuiet, PTL DEF Spec

-----------------------------------------------------------------------------
(* The reports                                                              *)

Fields == {"job", "asked", "history", "pc", "answer", "indexed", "accepted", "todo", "later", "reports", "trades",
           "fills", "offset", "sizes", "quantities", "seen", "rose"}

TradeSet == [id : Nat, orders : SUBSET VenueOrders]
FillSet == [trade : Nat, order : VenueOrders]
Reports == [order : VenueOrders, source : {"open", "single", "fills"}, client : {"own", "made up"}, filled : Nat]

\* The venue and the cache
BookOK ==
  /\ book \in [order : [VenueOrders -> {"none", "open", "done"}], trades : Seq(TradeSet),
               held : [Instruments -> Nat], moves : Nat]
  /\ cache \in [indexed : SUBSET VenueOrders, accepted : SUBSET VenueOrders, open : SUBSET VenueOrders]

\* The report being made, but for what is held of an instrument
CallOK ==
  /\ DOMAIN call = Fields
  /\ call.job \in Jobs /\ call.history \in BOOLEAN
  /\ call.pc \in {"idle", "orders", "orders read", "list", "single", "trades", "trades read", "page",
                  "balances", "done", "failed"}
  /\ call.asked \in Instruments \union {All} /\ call.later \in Instruments \union {All}
  /\ call.answer \subseteq [order : VenueOrders, filled : Nat]
  /\ call.indexed \subseteq VenueOrders /\ call.accepted \subseteq VenueOrders
  /\ call.reports \in Seq(Reports) /\ call.trades \in Seq(TradeSet) /\ call.fills \in Seq(FillSet)
  /\ call.offset \in Nat
  /\ call.seen \in [Instruments -> SUBSET Nat] /\ call.rose \subseteq Instruments

ReportTypesOK == BookOK /\ CallOK

\* The steps of a report are those of its kind.
Steps ==
  /\ call.pc \in {"orders", "orders read", "list", "single"} => call.job = "orders"
  /\ call.pc \in {"trades", "trades read"} => OfOrders
  /\ call.pc = "page" => call.job = "data positions"
  /\ call.pc = "balances" => call.job = "clob positions"
  /\ ~OfOrders => call.todo \subseteq Instruments
  /\ ~call.pc \in {"trades read", "done"} => call.trades = <<>>
  /\ call.pc # "done" => call.fills = <<>>

\* Of the orders indexed when the report was begun: none is reported twice, and each as the
\* client's own until statuses are made up of fills; none is asked for that was reported.  Made
\* up is no status of an order the engine was told of, or that was reported.
KnownOnce ==
  /\ call.pc # "idle" => /\ call.indexed \subseteq cache.indexed
                         /\ call.accepted \subseteq call.indexed \cap cache.accepted
  /\ cache.accepted \subseteq cache.indexed
  /\ call.pc \in {"idle", "orders", "orders read", "page", "balances"} => call.reports = <<>>
  /\ \A a, b \in call.answer : a.order = b.order => a = b
  /\ \A k, l \in DOMAIN call.reports :
       call.reports[k].order \in call.indexed /\ call.reports[l].order = call.reports[k].order => k = l
  /\ \A k \in DOMAIN call.reports :
       call.reports[k].order \in (IF call.pc = "done" THEN call.accepted ELSE call.indexed) => call.reports[k].client = "own"
  /\ call.pc = "single" =>
       \A k \in DOMAIN call.reports : call.reports[k].order \in call.indexed => call.reports[k].order \notin call.todo
  /\ call.pc \in {"trades", "trades read"} /\ call.job = "orders" =>
       call.accepted \subseteq call.todo /\ \A k \in DOMAIN call.reports : call.reports[k].order \in call.todo

\* What is done says what the trades answered say; no status is made up before.
FillsTold ==
  /\ FillsCountedOnce
  /\ call.pc # "done" => \A k \in DOMAIN call.reports : call.reports[k].source # "fills"

Inv == ReportTypesOK /\ Steps /\ KnownOnce /\ FillsTold
-----------------------------------------------------------------------------
(* Lists made of sets, and of trades                                        *)

\* SetToSeq lists a finite set, each element once.
LEMMA Listing ==
  ASSUME NEW S, IsFiniteSet(S)
  PROVE  LET s == SetToSeq(S)
         IN  /\ s \in Seq(S) /\ Len(s) = Cardinality(S) /\ DOMAIN s = 1 .. Cardinality(S)
             /\ \A x \in S : \E i \in DOMAIN s : s[i] = x
             /\ \A i, j \in DOMAIN s : s[i] = s[j] => i = j
<1> DEFINE n == Cardinality(S)
           s == SetToSeq(S)
<1>1. n \in Nat /\ ExistsBijection(1 .. n, S)
  BY FS_CardinalityType
<1>2. \E f \in [1 .. n -> S] : IsInjective(f)
  BY <1>1 DEF ExistsBijection, Bijection, Injection
<1>3. s \in [1 .. n -> S] /\ IsInjective(s)
  BY <1>2 DEF SetToSeq
<1>4. s \in Injection(1 .. n, S) /\ IsFiniteSet(1 .. n) /\ Cardinality(1 .. n) = n
  BY <1>1, <1>3, FS_Interval DEF Injection
<1> HIDE DEF s
<1>5. s \in Surjection(1 .. n, S)
  BY <1>4, FS_Injection
<1>6. s \in Seq(S) /\ Len(s) = n
  BY <1>1, <1>3
<1> QED BY <1>3, <1>5, <1>6 DEF IsInjective, Surjection, s

\* A list without repetition is as long as the set of its elements is large.
LEMMA Counted ==
  ASSUME NEW T, NEW s \in Seq(T), \A i, j \in DOMAIN s : s[i] = s[j] => i = j
  PROVE  IsFiniteSet(Range(s)) /\ Len(s) = Cardinality(Range(s))
<1>1. s \in Surjection(1 .. Len(s), Range(s)) /\ s \in Injection(1 .. Len(s), Range(s))
  BY DEF Surjection, Injection, IsInjective, Range
<1>2. IsFiniteSet(1 .. Len(s)) /\ Cardinality(1 .. Len(s)) = Len(s)
  <2>1. Len(s) \in Nat /\ 1 \in Int  OBVIOUS
  <2> QED BY <2>1, FS_Interval
<1> QED BY <1>1, <1>2, FS_Surjection

\* The number of places with elements of a kind is the number of these.
LEMMA CountedOf ==
  ASSUME NEW T, NEW s \in Seq(T), \A i, j \in DOMAIN s : s[i] = s[j] => i = j,
         NEW U \in SUBSET Range(s)
  PROVE  Cardinality({i \in DOMAIN s : s[i] \in U}) = Cardinality(U)
<1> DEFINE P == {i \in DOMAIN s : s[i] \in U}
           f == [i \in P |-> s[i]]
<1>1. IsFiniteSet(P)
  <2>1. P \in SUBSET (1 .. Len(s)) /\ Len(s) \in Nat /\ 1 \in Int  OBVIOUS
  <2>2. IsFiniteSet(1 .. Len(s))  BY <2>1, FS_Interval
  <2> QED BY <2>1, <2>2, FS_Subset
<1>2. f \in Bijection(P, U)
  BY DEF Bijection, Surjection, Injection, IsInjective, Range
<1> QED BY <1>1, <1>2, FS_Bijection DEF ExistsBijection

\* The fills of a trade are finitely many.
LEMMA FillsFinite ==
  ASSUME NEW t \in TradeSet, NEW asked
  PROVE  FillsOf(t, asked) \subseteq FillSet /\ IsFiniteSet(FillsOf(t, asked))
<1> DEFINE O == {p \in t.orders : InstrumentOf[p] \in Cached /\ asked \in {All, InstrumentOf[p]}}
           f == [o \in O |-> [trade |-> t.id, order |-> o]]
<1>1. O \in SUBSET VenueOrders /\ IsFiniteSet(VenueOrders)
  BY ReportsAssumption DEF TradeSet
<1>2. IsFiniteSet(O)
  BY <1>1, FS_Subset
<1>3. FillsOf(t, asked) = {[trade |-> t.id, order |-> o] : o \in O}
  BY DEF FillsOf
<1> HIDE DEF O
<1>4. f \in Surjection(O, FillsOf(t, asked))
  BY <1>3 DEF Surjection
<1>5. IsFiniteSet(FillsOf(t, asked))
  BY <1>2, <1>4, FS_Surjection
<1> QED BY <1>1, <1>3, <1>5 DEF TradeSet, FillSet

\* What the recursion of ParseTrades says of the first m trades
Parsing(f, trades, asked, m) ==
  f = [n \in 0 .. m |-> IF n = 0 THEN <<>>
                        ELSE f[n - 1] \o SetToSeq(FillsOf(trades[n], asked) \ Range(f[n - 1]))]

\* It has a solution: if it had none for some number of trades, it had none for a least one.
LEMMA ParsingSolved ==
  ASSUME NEW trades, Len(trades) \in Nat, NEW asked
  PROVE  \E f : Parsing(f, trades, asked, Len(trades)) /\ ParseTrades(trades, asked) = f[Len(trades)]
<1> DEFINE Lost == {m \in Nat : ~\E f : Parsing(f, trades, asked, m)}
           next(fills, n) == fills \o SetToSeq(FillsOf(trades[n], asked) \ Range(fills))
<1>1. Lost = {}
  <2> SUFFICES ASSUME Lost # {} PROVE FALSE
    OBVIOUS
  <2>1. PICK m \in Lost : \A k \in Lost : m <= k
    BY LeastNumber
  <2>2. CASE m = 0
    <3> DEFINE f == [n \in 0 .. 0 |-> <<>>]
    <3>1. Parsing(f, trades, asked, 0)
      BY DEF Parsing
    <3> QED BY <2>1, <2>2, <3>1
  <2>3. CASE m # 0
    <3>1. m - 1 \in Nat /\ m - 1 \notin Lost
      BY <2>1, <2>3
    <3>2. PICK g : Parsing(g, trades, asked, m - 1)
      BY <3>1
    <3> DEFINE f == [n \in 0 .. m |-> IF n = m THEN next(g[m - 1], m) ELSE g[n]]
    <3>3. \A n \in 0 .. m - 1 : g[n] = IF n = 0 THEN <<>> ELSE next(g[n - 1], n)
      BY <3>2 DEF Parsing
    <3> HIDE DEF next
    <3>4. \A n \in 0 .. m - 1 : f[n] = g[n]
      BY <3>1
    <3>5. \A n \in 0 .. m : f[n] = IF n = 0 THEN <<>> ELSE next(f[n - 1], n)
      <4> TAKE n \in 0 .. m
      <4>1. CASE n = m  BY <4>1, <3>1, <3>4, <2>3
      <4>2. CASE n # m
        <5>1. n \in 0 .. m - 1 /\ (n # 0 => n - 1 \in 0 .. m - 1)
          BY <4>2, <3>1
        <5>2. f[n] = g[n] /\ (n # 0 => f[n - 1] = g[n - 1])
          BY <5>1, <3>4
        <5> HIDE DEF f
        <5> QED BY <5>1, <5>2, <3>3
      <4> QED BY <4>1, <4>2
    <3>6. Parsing(f, trades, asked, m)
      <4> HIDE DEF f
      <4>1. f = [n \in 0 .. m |-> f[n]]  BY DEF f
      <4>2. f = [n \in 0 .. m |-> IF n = 0 THEN <<>> ELSE next(f[n - 1], n)]  BY <3>5, <4>1
      <4> QED BY <4>2 DEF Parsing, next
    <3> QED BY <2>1, <3>6
  <2> QED BY <2>2, <2>3
<1>2. \E f : Parsing(f, trades, asked, Len(trades))
  BY <1>1
<1> DEFINE h == CHOOSE f : Parsing(f, trades, asked, Len(trades))
<1>3. Parsing(h, trades, asked, Len(trades))
  BY <1>2
<1>4. ParseTrades(trades, asked) = h[Len(trades)]
  BY DEF ParseTrades, Parsing
<1> QED BY <1>3, <1>4

\* The fills asked for of some trades
FillsDue(trades, asked) == UNION {FillsOf(t, asked) : t \in Range(trades)}

\* The list holds the fills of the first m trades, each once.
OnceUpTo(fills, trades, asked, m) ==
  /\ fills \in Seq(FillSet)
  /\ \A i, j \in DOMAIN fills : fills[i] = fills[j] => i = j
  /\ \A i \in DOMAIN fills : \E n \in 1 .. m : fills[i] \in FillsOf(trades[n], asked)
  /\ \A n \in 1 .. m : \A x \in FillsOf(trades[n], asked) : \E i \in DOMAIN fills : fills[i] = x

\* One more trade adds its fills that are not there.
LEMMA OneMoreTrade ==
  ASSUME NEW trades \in Seq(TradeSet), NEW asked, NEW m \in 1 .. Len(trades), NEW fills,
         OnceUpTo(fills, trades, asked, m - 1)
  PROVE  OnceUpTo(fills \o SetToSeq(FillsOf(trades[m], asked) \ Range(fills)), trades, asked, m)
<1> DEFINE N == FillsOf(trades[m], asked) \ Range(fills)
           new == SetToSeq(N)
           all == fills \o new
<1>1. trades[m] \in TradeSet /\ m \in Nat
  OBVIOUS
<1>2. FillsOf(trades[m], asked) \subseteq FillSet /\ IsFiniteSet(FillsOf(trades[m], asked))
  BY <1>1, FillsFinite
<1>3. N \in SUBSET FillsOf(trades[m], asked) /\ N \subseteq FillSet /\ \A x \in N : x \notin Range(fills)
  BY <1>2
<1>a. \A x \in FillsOf(trades[m], asked) : x \in N \/ x \in Range(fills)
  OBVIOUS
<1> HIDE DEF N
<1>4. IsFiniteSet(N)
  BY <1>2, <1>3, FS_Subset
<1>5. /\ new \in Seq(N) /\ \A x \in N : \E i \in DOMAIN new : new[i] = x
      /\ \A i, j \in DOMAIN new : new[i] = new[j] => i = j
  BY <1>4, Listing
<1> HIDE DEF new
<1>6. fills \in Seq(FillSet) /\ new \in Seq(FillSet) /\ Len(fills) \in Nat /\ Len(new) \in Nat
  BY <1>3, <1>5 DEF OnceUpTo
<1>7. /\ all \in Seq(FillSet) /\ DOMAIN all = 1 .. Len(fills) + Len(new)
      /\ \A i \in DOMAIN fills : i \in DOMAIN all /\ all[i] = fills[i]
      /\ \A i \in DOMAIN new : Len(fills) + i \in DOMAIN all /\ all[Len(fills) + i] = new[i]
  BY <1>6
<1>8. \A i \in DOMAIN all : \/ i \in DOMAIN fills /\ all[i] = fills[i]
                            \/ \E k \in DOMAIN new : i = Len(fills) + k /\ all[i] = new[k] /\ new[k] \in N
  <2> TAKE i \in DOMAIN all
  <2>1. CASE i <= Len(fills)  BY <2>1, <1>6, <1>7
  <2>2. CASE ~(i <= Len(fills))
    <3>1. i - Len(fills) \in DOMAIN new /\ i = Len(fills) + (i - Len(fills))
      BY <2>2, <1>6, <1>7
    <3> QED BY <3>1, <1>7, <1>5
  <2> QED BY <2>1, <2>2
<1>9. \A i \in DOMAIN fills : fills[i] \in Range(fills)
  BY DEF Range
<1> HIDE DEF all
<1>10. \A i, j \in DOMAIN all : all[i] = all[j] => i = j
  <2> SUFFICES ASSUME NEW i \in DOMAIN all, NEW j \in DOMAIN all, all[i] = all[j] PROVE i = j
    OBVIOUS
  <2>1. CASE i \in DOMAIN fills /\ all[i] = fills[i] /\ j \in DOMAIN fills /\ all[j] = fills[j]
    BY <2>1 DEF OnceUpTo
  <2>2. CASE all[i] \in N /\ all[j] \in Range(fills)  BY <2>2, <1>3
  <2>3. CASE all[j] \in N /\ all[i] \in Range(fills)  BY <2>3, <1>3
  <2>4. CASE /\ \E k \in DOMAIN new : i = Len(fills) + k /\ all[i] = new[k]
             /\ \E k \in DOMAIN new : j = Len(fills) + k /\ all[j] = new[k]
    BY <2>4, <1>5
  <2> QED BY <1>8, <1>9, <2>1, <2>2, <2>3, <2>4
<1>11. \A i \in DOMAIN all : \E n \in 1 .. m : all[i] \in FillsOf(trades[n], asked)
  <2> TAKE i \in DOMAIN all
  <2>1. CASE i \in DOMAIN fills /\ all[i] = fills[i]
    <3>1. PICK n \in 1 .. m - 1 : fills[i] \in FillsOf(trades[n], asked)
      BY <2>1 DEF OnceUpTo
    <3> QED BY <3>1, <2>1, <1>1
  <2>2. CASE all[i] \in N
    <3>1. m \in 1 .. m  BY <1>1
    <3> QED BY <2>2, <1>3, <3>1
  <2> QED BY <1>8, <2>1, <2>2
<1>12. \A n \in 1 .. m : \A x \in FillsOf(trades[n], asked) : \E i \in DOMAIN all : all[i] = x
  <2> SUFFICES ASSUME NEW n \in 1 .. m, NEW x \in FillsOf(trades[n], asked) PROVE \E i \in DOMAIN all : all[i] = x
    OBVIOUS
  <2>1. CASE x \in N  BY <2>1, <1>5, <1>7
  <2>2. CASE x \in Range(fills)  BY <2>2, <1>7 DEF Range
  <2>3. CASE n # m
    <3>1. n \in 1 .. m - 1  BY <2>3, <1>1
    <3>2. PICK i \in DOMAIN fills : fills[i] = x  BY <3>1 DEF OnceUpTo
    <3> QED BY <3>2, <1>7
  <2> QED BY <1>a, <2>1, <2>2, <2>3
<1> QED BY <1>7, <1>10, <1>11, <1>12 DEF OnceUpTo, all, new, N

\* ParseTrades answers the fills asked for, each once, however the trades repeat.
LEMMA ParsedOnce ==
  ASSUME NEW trades \in Seq(TradeSet), NEW asked
  PROVE  LET fills == ParseTrades(trades, asked)
         IN  /\ fills \in Seq(FillSet) /\ Range(fills) = FillsDue(trades, asked)
             /\ \A i, j \in DOMAIN fills : fills[i] = fills[j] => i = j
<1>1. PICK f : Parsing(f, trades, asked, Len(trades)) /\ ParseTrades(trades, asked) = f[Len(trades)]
  BY ParsingSolved
<1>2. \A n \in 0 .. Len(trades) : f[n] = IF n = 0 THEN <<>>
                                         ELSE f[n - 1] \o SetToSeq(FillsOf(trades[n], asked) \ Range(f[n - 1]))
  BY <1>1 DEF Parsing
<1> DEFINE Bad == {m \in 0 .. Len(trades) : ~OnceUpTo(f[m], trades, asked, m)}
<1>3. Bad = {}
  <2> SUFFICES ASSUME Bad # {} PROVE FALSE
    OBVIOUS
  <2>0. Bad \in SUBSET Nat
    OBVIOUS
  <2>1. \E m \in Bad : \A k \in Bad : m <= k
    <3> HIDE DEF Bad
    <3> QED BY <2>0, LeastNumber
  <2>2. PICK m \in 0 .. Len(trades) : ~OnceUpTo(f[m], trades, asked, m) /\ \A k \in Bad : m <= k
    BY <2>1
  <2>3. CASE m = 0
    <3>0. Len(trades) \in Nat /\ 0 \in 0 .. Len(trades)  OBVIOUS
    <3>1. f[0] = <<>>  BY <3>0, <1>2
    <3> QED BY <2>2, <2>3, <3>1 DEF OnceUpTo
  <2>4. CASE m # 0
    <3>1. m - 1 \in 0 .. Len(trades) /\ m \in 1 .. Len(trades) /\ ~(m <= m - 1)
      BY <2>2, <2>4
    <3>2. OnceUpTo(f[m - 1], trades, asked, m - 1)
      BY <2>2, <3>1
    <3>3. OnceUpTo(f[m - 1] \o SetToSeq(FillsOf(trades[m], asked) \ Range(f[m - 1])), trades, asked, m)
      BY <3>1, <3>2, OneMoreTrade
    <3> QED BY <2>2, <2>4, <3>3, <1>2
  <2> QED BY <2>3, <2>4
<1>4. OnceUpTo(ParseTrades(trades, asked), trades, asked, Len(trades))
  BY <1>1, <1>3
<1> DEFINE fills == ParseTrades(trades, asked)
<1>5. Range(fills) = FillsDue(trades, asked)
  <2> HIDE DEF fills
  <2>1. Range(trades) = {trades[n] : n \in 1 .. Len(trades)}
    BY DEF Range
  <2>2. \A x \in Range(fills) : x \in FillsDue(trades, asked)
    BY <1>4, <2>1 DEF OnceUpTo, FillsDue, Range, fills
  <2>3. \A x \in FillsDue(trades, asked) : x \in Range(fills)
    <3> SUFFICES ASSUME NEW n \in 1 .. Len(trades), NEW x \in FillsOf(trades[n], asked) PROVE x \in Range(fills)
      BY <2>1 DEF FillsDue
    <3>1. \E i \in DOMAIN fills : fills[i] = x
      BY <1>4 DEF OnceUpTo, fills
    <3> QED BY <3>1 DEF Range
  <2> QED BY <2>2, <2>3
<1> QED BY <1>4, <1>5 DEF OnceUpTo
-----------------------------------------------------------------------------
(* The venue and the cache                                                  *)

LEMMA FilledNat ==
  ASSUME ReportTypesOK, NEW o \in VenueOrders
  PROVE  Filled(o) \in Nat
<1>1. Len(book.trades) \in Nat /\ 1 \in Int /\ DOMAIN book.trades = 1 .. Len(book.trades)
  BY DEF ReportTypesOK, BookOK
<1>2. IsFiniteSet(DOMAIN book.trades)
  BY <1>1, FS_Interval
<1>3. {i \in DOMAIN book.trades : o \in book.trades[i].orders} \in SUBSET DOMAIN book.trades
  OBVIOUS
<1> QED BY <1>2, <1>3, FS_Subset, FS_CardinalityType DEF Filled

LEMMA EmptyDomain == DOMAIN <<>> = {}
<1>1. <<>> \in Seq({}) /\ Len(<<>>) = 0
  OBVIOUS
<1>2. DOMAIN <<>> = 1 .. 0
  BY <1>1
<1> QED BY <1>2

LEMMA InitKeeps == ReportsInit => Inv
<1> SUFFICES ASSUME ReportsInit PROVE Inv
  OBVIOUS
<1>1. PICK job \in Jobs, asked \in Cached \union {All}, history \in History :
        /\ job # "orders" => ~history
        /\ call = [job |-> job, asked |-> asked, history |-> history, pc |-> "idle", answer |-> {}, indexed |-> {}, accepted |-> {},
                  todo |-> {}, later |-> asked, reports |-> <<>>, trades |-> <<>>, fills |-> <<>>, offset |-> 0,
                  sizes |-> <<>>, quantities |-> <<>>, seen |-> [i \in Instruments |-> {}], rose |-> {}]
  BY DEF ReportsInit
<1>2. asked \in Instruments \union {All} /\ history \in BOOLEAN
  BY ReportsAssumption
<1>3. BookOK
  BY DEF ReportsInit, BookOK
<1>4. CallOK
  BY <1>1, <1>2 DEF CallOK, Fields
<1>5. KnownOnce
  BY <1>1, EmptyDomain DEF ReportsInit, KnownOnce
<1>6. FillsTold
  BY <1>1, EmptyDomain DEF FillsTold, FillsCountedOnce, Done
<1> QED BY <1>1, <1>3, <1>4, <1>5, <1>6 DEF Inv, ReportTypesOK, Steps, OfOrders

\* While orders are asked for, the venue and the cache may go on.
LEMMA VenueKeeps ==
  ASSUME Inv, BookOK', OfOrders, cache.indexed \subseteq cache'.indexed,
         cache.accepted \subseteq cache'.accepted, cache'.accepted \subseteq cache'.indexed, UNCHANGED call
  PROVE  Inv'
<1>1. ReportTypesOK' /\ Steps'
  BY DEF Inv, ReportTypesOK, CallOK, Steps, OfOrders
<1>2. KnownOnce'
  BY DEF Inv, KnownOnce
<1>3. FillsTold'
  BY DEF Inv, FillsTold, FillsCountedOnce, Done, FillsAsked, FillsOf
<1> QED BY <1>1, <1>2, <1>3 DEF Inv

LEMMA PostKeeps ==
  ASSUME Inv, NEW o \in VenueOrders, Post(o)
  PROVE  Inv'
<1>1. BookOK'
  BY DEF Post, Inv, ReportTypesOK, BookOK
<1> QED BY <1>1, VenueKeeps DEF Post, Inv, KnownOnce

LEMMA IndexedKeeps ==
  ASSUME Inv, NEW o \in VenueOrders, Indexed(o)
  PROVE  Inv'
<1>1. BookOK' /\ cache.indexed \subseteq cache'.indexed /\ cache'.accepted = cache.accepted
  BY DEF Indexed, Inv, ReportTypesOK, BookOK
<1> QED BY <1>1, VenueKeeps DEF Indexed, Inv, KnownOnce

LEMMA AcceptedKeeps ==
  ASSUME Inv, NEW o \in VenueOrders, Accepted(o)
  PROVE  Inv'
<1>1. BookOK' /\ cache'.indexed = cache.indexed /\ cache'.accepted = cache.accepted \union {o} /\ o \in cache.indexed
  <2>1. BookOK
    BY DEF Inv, ReportTypesOK
  <2>2. cache.accepted \union {o} \subseteq VenueOrders /\ cache.open \union {o} \subseteq VenueOrders
    BY <2>1 DEF BookOK
  <2>3. /\ cache' = [indexed |-> cache.indexed, accepted |-> cache.accepted \union {o}, open |-> cache.open \union {o}]
        /\ book' = book /\ o \in cache.indexed
    BY <2>1 DEF Accepted, BookOK
  <2> QED BY <2>1, <2>2, <2>3 DEF BookOK
<1> QED BY <1>1, VenueKeeps DEF Accepted, Inv, KnownOnce

LEMMA ClosedKeeps ==
  ASSUME Inv, NEW o \in VenueOrders, Closed(o)
  PROVE  Inv'
<1>1. BookOK' /\ cache'.indexed = cache.indexed /\ cache'.accepted = cache.accepted
  BY DEF Closed, Inv, ReportTypesOK, BookOK
<1> QED BY <1>1, VenueKeeps DEF Closed, Inv, KnownOnce

LEMMA CancelKeeps ==
  ASSUME Inv, NEW o \in VenueOrders, Cancel(o)
  PROVE  Inv'
<1>1. BookOK'
  BY DEF Cancel, Inv, ReportTypesOK, BookOK
<1> QED BY <1>1, VenueKeeps DEF Cancel, Inv, KnownOnce

LEMMA TradeKeeps ==
  ASSUME Inv, NEW orders \in SUBSET VenueOrders, Trade(orders)
  PROVE  Inv'
<1> DEFINE trade == [id |-> Len(book.trades) + 1, orders |-> orders]
           order == [o \in VenueOrders |-> IF o \in orders /\ Filled(o) + 1 = OrderSize THEN "done" ELSE book.order[o]]
<1>1. trade \in TradeSet /\ order \in [VenueOrders -> {"none", "open", "done"}]
  BY DEF Inv, ReportTypesOK, BookOK, TradeSet
<1>2. book' = [book EXCEPT !.trades = Append(@, trade), !.order = order] /\ cache' = cache
  BY DEF Trade, Inv, ReportTypesOK, BookOK
<1> HIDE DEF trade, order
<1>a. BookOK /\ Append(book.trades, trade) \in Seq(TradeSet)
  BY <1>1 DEF Inv, ReportTypesOK, BookOK
<1>3. BookOK'
  BY <1>1, <1>2, <1>a DEF BookOK
<1> QED BY <1>2, <1>3, VenueKeeps DEF Trade, Inv, KnownOnce

LEMMA MoveKeeps ==
  ASSUME Inv, NEW i \in Instruments, NEW held \in 0 .. MaxHeld, Move(i, held)
  PROVE  Inv'
<1>1. held \in Nat
  <2>1. MaxHeld \in Nat  BY ReportsAssumption
  <2> QED BY <2>1
<1>2. BookOK' /\ book'.held = [book.held EXCEPT ![i] = held]
  <2> DEFINE H == [book.held EXCEPT ![i] = held]
             M == book.moves + 1
  <2>1. BookOK
    BY DEF Inv, ReportTypesOK
  <2>2. H \in [Instruments -> Nat] /\ M \in Nat
    BY <1>1, <2>1 DEF BookOK
  <2>3. book' = [book EXCEPT !.held = H, !.moves = M] /\ cache' = cache
    BY <2>1 DEF Move, BookOK
  <2> HIDE DEF H, M
  <2>4. BookOK' /\ book'.held = H
    BY <2>1, <2>2, <2>3 DEF BookOK
  <2> QED BY <2>4 DEF H
<1>3. /\ DOMAIN call' = Fields /\ call'.seen = [call.seen EXCEPT ![i] = @ \union {held}]
      /\ call'.rose = call.rose \union {j \in Instruments : ~(Larger(j) \subseteq Larger(j)')}
      /\ call'.job = call.job /\ call'.asked = call.asked /\ call'.history = call.history /\ call'.pc = call.pc
      /\ call'.answer = call.answer /\ call'.indexed = call.indexed /\ call'.accepted = call.accepted /\ call'.todo = call.todo /\ call'.later = call.later
      /\ call'.reports = call.reports /\ call'.trades = call.trades /\ call'.fills = call.fills
      /\ call'.offset = call.offset /\ call'.sizes = call.sizes /\ call'.quantities = call.quantities
  BY DEF Move, Go, Inv, ReportTypesOK, CallOK, Fields
<1>4. call.seen \in [Instruments -> SUBSET Nat] /\ book.held \in [Instruments -> Nat]
  BY DEF Inv, ReportTypesOK, BookOK, CallOK
<1>5. CallOK'
  <2>1. call'.seen \in [Instruments -> SUBSET Nat] /\ call'.rose \subseteq Instruments
    <3>1. CallOK
      BY DEF Inv, ReportTypesOK
    <3>2. {j \in Instruments : ~(Larger(j) \subseteq Larger(j)')} \subseteq Instruments
      OBVIOUS
    <3>3. call.rose \subseteq Instruments
      BY <3>1 DEF CallOK
    <3>4. call'.rose \subseteq Instruments
      BY <1>3, <3>2, <3>3
    <3> QED BY <1>1, <1>3, <1>4, <3>4
  <2>2. CallOK
    BY DEF Inv, ReportTypesOK
  <2> QED BY <1>3, <2>1, <2>2 DEF CallOK
<1>6. Steps' /\ KnownOnce'
  BY <1>3 DEF Inv, Steps, KnownOnce, OfOrders, Move
<1>7. FillsTold'
  BY <1>3 DEF Move, Inv, FillsTold, FillsCountedOnce, Done, OfOrders, FillsAsked, FillsOf
<1> QED BY <1>2, <1>5, <1>6, <1>7 DEF Inv, ReportTypesOK
-----------------------------------------------------------------------------
(* The steps of a report                                                    *)

LEMMA BeginKeeps ==
  ASSUME Inv, Begin
  PROVE  Inv'
<1> DEFINE toldNow == [i \in Instruments |-> {book.held[i]}]
           asks == {i \in Cached : Asked(i)}
<1>1. /\ DOMAIN call' = Fields
      /\ call'.pc = CASE call.job = "orders" -> "orders" [] call.job = "fills" -> "trades"
                      [] call.job = "data positions" -> "page" [] OTHER -> "balances"
      /\ call'.indexed = cache.indexed /\ call'.accepted = cache.accepted /\ call'.seen = toldNow /\ call'.rose = {} /\ call'.todo = asks
      /\ call'.job = call.job /\ call'.asked = call.asked /\ call'.history = call.history /\ call'.answer = call.answer
      /\ call'.later = call.later /\ call'.reports = call.reports /\ call'.trades = call.trades /\ call'.fills = call.fills
      /\ call'.offset = call.offset /\ call'.sizes = call.sizes /\ call'.quantities = call.quantities
  BY DEF Begin, Go, Inv, ReportTypesOK, CallOK, Fields
<1>2. /\ call.pc = "idle" /\ UNCHANGED <<book, cache>>
      /\ call.job \in {"orders", "fills", "data positions", "clob positions"}
      /\ book.held \in [Instruments -> Nat] /\ cache.indexed \subseteq VenueOrders /\ cache.accepted \subseteq cache.indexed
      /\ asks \subseteq Instruments
  BY ReportsAssumption DEF Begin, Inv, ReportTypesOK, BookOK, CallOK, KnownOnce
<1>3. toldNow \in [Instruments -> SUBSET Nat] /\ \A i \in Instruments : book.held[i] \in toldNow[i]
  BY <1>2
<1> HIDE DEF toldNow, asks
<1>p. \/ call'.pc = "orders" /\ call.job = "orders"
      \/ call'.pc = "trades" /\ call.job = "fills"
      \/ call'.pc = "page" /\ call.job = "data positions"
      \/ call'.pc = "balances" /\ call.job = "clob positions"
  BY <1>1, <1>2
<1>4. ReportTypesOK'
  <2>1. BookOK'  BY <1>2 DEF Inv, ReportTypesOK, BookOK
  <2>2. CallOK'
    BY <1>1, <1>2, <1>3 DEF Inv, ReportTypesOK, CallOK
  <2> QED BY <2>1, <2>2 DEF ReportTypesOK
<1>5. Steps'
  BY <1>1, <1>2, <1>p DEF Inv, Steps, OfOrders
<1>6. KnownOnce'
  <2>1. call.reports = <<>> /\ \A a, b \in call.answer : a.order = b.order => a = b
    BY <1>2 DEF Inv, KnownOnce
  <2>2. DOMAIN call'.reports = {} /\ call'.reports = <<>> /\ call'.answer = call.answer
    BY <2>1, <1>1, EmptyDomain
  <2>3. call'.indexed \subseteq cache'.indexed /\ call'.accepted \subseteq call'.indexed \cap cache'.accepted
        /\ cache'.accepted \subseteq cache'.indexed
    BY <1>1, <1>2
  <2>4. call'.pc # "single" /\ ~(call'.pc \in {"trades", "trades read"} /\ call'.job = "orders")
    BY <1>1, <1>p
  <2> QED BY <2>1, <2>2, <2>3, <2>4 DEF KnownOnce
<1>7. FillsTold'
  <2>1. call'.pc # "done" /\ DOMAIN call'.reports = {}
    BY <1>1, <1>2, <1>p, EmptyDomain DEF Inv, KnownOnce
  <2> QED BY <2>1 DEF FillsTold, FillsCountedOnce, Done
<1> QED BY <1>4, <1>5, <1>6, <1>7 DEF Inv

LEMMA OrdersReadKeeps ==
  ASSUME Inv, OrdersRead
  PROVE  Inv'
<1> DEFINE answer == {[order |-> o, filled |-> Filled(o)] :
                        o \in {p \in VenueOrders : book.order[p] = "open" /\ Asked(InstrumentOf[p])}}
<1>1. /\ DOMAIN call' = Fields
      /\ call'.pc = "orders read" /\ call'.answer = answer
      /\ call'.job = call.job /\ call'.asked = call.asked /\ call'.history = call.history /\ call'.indexed = call.indexed /\ call'.accepted = call.accepted
      /\ call'.todo = call.todo /\ call'.later = call.later /\ call'.reports = call.reports /\ call'.trades = call.trades
      /\ call'.fills = call.fills /\ call'.offset = call.offset /\ call'.sizes = call.sizes
      /\ call'.quantities = call.quantities /\ call'.seen = call.seen /\ call'.rose = call.rose
  BY DEF OrdersRead, Go, Inv, ReportTypesOK, CallOK, Fields
<1>2. call.pc = "orders" /\ UNCHANGED <<book, cache>>
  BY DEF OrdersRead
<1>3. answer \subseteq [order : VenueOrders, filled : Nat] /\ \A a, b \in answer : a.order = b.order => a = b
  <2>1. \A o \in VenueOrders : Filled(o) \in Nat
    BY FilledNat DEF Inv
  <2> QED BY <2>1
<1> HIDE DEF answer
<1>4. ReportTypesOK'
  <2>1. BookOK'  BY <1>2 DEF Inv, ReportTypesOK, BookOK
  <2>2. CallOK'
    BY <1>1, <1>2, <1>3 DEF Inv, ReportTypesOK, CallOK
  <2> QED BY <2>1, <2>2 DEF ReportTypesOK
<1>5. Steps'
  BY <1>1, <1>2 DEF Inv, Steps, OfOrders
<1>6. KnownOnce'
  BY <1>1, <1>2, <1>3 DEF Inv, KnownOnce
<1>7. FillsTold'
  BY <1>1, <1>2 DEF Inv, FillsTold, FillsCountedOnce, Done
<1> QED BY <1>4, <1>5, <1>6, <1>7 DEF Inv

\* The reports made of an answer: one of each order, under its own client id if it is indexed.
LEMMA ReportsMade ==
  ASSUME ReportTypesOK, NEW answer, answer \subseteq [order : VenueOrders, filled : Nat],
         \A a, b \in answer : a.order = b.order => a = b
  PROVE  LET toldNow == SetToSeq({a \in answer : InstrumentOf[a.order] \in Cached})
             reports == [k \in DOMAIN toldNow |-> Report(toldNow[k].order, "open", ClientId(toldNow[k].order), toldNow[k].filled)]
         IN  /\ reports \in Seq(Reports)
             /\ \A k, l \in DOMAIN reports : reports[k].order = reports[l].order => k = l
             /\ \A k \in DOMAIN reports : /\ reports[k].order \in cache.indexed => reports[k].client = "own"
                                          /\ reports[k].source = "open"
<1> DEFINE A == {a \in answer : InstrumentOf[a.order] \in Cached}
           toldNow == SetToSeq(A)
           reports == [k \in DOMAIN toldNow |-> Report(toldNow[k].order, "open", ClientId(toldNow[k].order), toldNow[k].filled)]
<1>1. IsFiniteSet(A)
  <2> DEFINE O == {a.order : a \in A}
             f == [a \in A |-> a.order]
  <2>1. O \in SUBSET VenueOrders /\ IsFiniteSet(VenueOrders)
    BY ReportsAssumption
  <2>2. IsFiniteSet(O)
    BY <2>1, FS_Subset
  <2>3. f \in Injection(A, O)
    BY DEF Injection, IsInjective
  <2> HIDE DEF O, f
  <2> QED BY <2>2, <2>3, FS_Injection
<1>2. A \subseteq [order : VenueOrders, filled : Nat] /\ \A a, b \in A : a.order = b.order => a = b
  OBVIOUS
<1> HIDE DEF A
<1>3. toldNow \in Seq(A) /\ \A i, j \in DOMAIN toldNow : toldNow[i] = toldNow[j] => i = j
  BY <1>1, Listing
<1> HIDE DEF toldNow
<1>4. DOMAIN toldNow = 1 .. Len(toldNow) /\ Len(toldNow) \in Nat /\ \A k \in DOMAIN toldNow : toldNow[k] \in A
  BY <1>3
<1>5. \A k \in DOMAIN toldNow : Report(toldNow[k].order, "open", ClientId(toldNow[k].order), toldNow[k].filled) \in Reports
  BY <1>2, <1>4 DEF Report, ClientId, Reports
<1>6. reports \in Seq(Reports)
  BY <1>4, <1>5
<1>7. \A k \in DOMAIN reports : reports[k].order = toldNow[k].order /\ reports[k].client = ClientId(toldNow[k].order)
                                /\ reports[k].source = "open"
  BY DEF Report
<1>8. \A k, l \in DOMAIN reports : reports[k].order = reports[l].order => k = l
  BY <1>2, <1>3, <1>4, <1>7
<1>9. \A k \in DOMAIN reports : reports[k].order \in cache.indexed => reports[k].client = "own"
  BY <1>7 DEF ClientId
<1> QED BY <1>6, <1>7, <1>8, <1>9 DEF toldNow, A

LEMMA OrdersAnsweredKeeps ==
  ASSUME Inv, OrdersAnswered
  PROVE  Inv'
<1>0. PICK answer \in {call.answer, {}} :
       LET toldNow == SetToSeq({a \in answer : InstrumentOf[a.order] \in Cached})
       IN  Go([reports |-> [k \in DOMAIN toldNow |->
                              Report(toldNow[k].order, "open", ClientId(toldNow[k].order), toldNow[k].filled)],
               pc |-> IF call.history THEN "list" ELSE "done", answer |-> {}])
  BY DEF OrdersAnswered
<1> DEFINE toldNow == SetToSeq({a \in answer : InstrumentOf[a.order] \in Cached})
           reports == [k \in DOMAIN toldNow |-> Report(toldNow[k].order, "open", ClientId(toldNow[k].order), toldNow[k].filled)]
<1>1. answer \subseteq [order : VenueOrders, filled : Nat] /\ \A a, b \in answer : a.order = b.order => a = b
  BY DEF Inv, ReportTypesOK, CallOK, KnownOnce
<1>2. /\ reports \in Seq(Reports)
      /\ \A k, l \in DOMAIN reports : reports[k].order = reports[l].order => k = l
      /\ \A k \in DOMAIN reports : /\ reports[k].order \in cache.indexed => reports[k].client = "own"
                                   /\ reports[k].source = "open"
  BY <1>1, ReportsMade DEF Inv
<1>3. Go([reports |-> reports, pc |-> IF call.history THEN "list" ELSE "done", answer |-> {}])
  BY <1>0
<1> HIDE DEF reports
<1>4. /\ DOMAIN call' = Fields
      /\ call'.pc = (IF call.history THEN "list" ELSE "done") /\ call'.answer = {} /\ call'.reports = reports
      /\ call'.job = call.job /\ call'.asked = call.asked /\ call'.history = call.history /\ call'.indexed = call.indexed /\ call'.accepted = call.accepted
      /\ call'.todo = call.todo /\ call'.later = call.later /\ call'.trades = call.trades
      /\ call'.fills = call.fills /\ call'.offset = call.offset /\ call'.sizes = call.sizes
      /\ call'.quantities = call.quantities /\ call'.seen = call.seen /\ call'.rose = call.rose
  BY <1>3 DEF Go, Inv, ReportTypesOK, CallOK, Fields
<1>5. call.pc = "orders read" /\ call.job = "orders" /\ call.trades = <<>> /\ call.fills = <<>> /\ UNCHANGED <<book, cache>>
  BY DEF OrdersAnswered, Inv, Steps
<1>6. ReportTypesOK'
  <2>1. BookOK'  BY <1>5 DEF Inv, ReportTypesOK, BookOK
  <2>2. CallOK'
    BY <1>2, <1>4 DEF Inv, ReportTypesOK, CallOK
  <2> QED BY <2>1, <2>2 DEF ReportTypesOK
<1>7. Steps'
  BY <1>4, <1>5 DEF Inv, Steps, OfOrders
<1>8. KnownOnce'
  <2>1. /\ call.indexed \subseteq cache.indexed /\ call.accepted \subseteq call.indexed \cap cache.accepted
        /\ cache.accepted \subseteq cache.indexed
    BY <1>5 DEF Inv, KnownOnce
  <2> QED BY <1>2, <1>4, <1>5, <2>1 DEF KnownOnce
<1>9. FillsTold'
  <2>1. Range(<<>>) = {} /\ Len(<<>>) = 0
    BY DEF Range
  <2>2. \A asked : UNION {FillsOf(t, asked) : t \in Range(<<>>)} = {}
    BY <2>1
  <2>3. call'.fills = <<>> /\ call'.trades = <<>>
    BY <1>4, <1>5
  <2>4. \A k \in DOMAIN call'.reports : call'.reports[k].source # "fills"
    BY <1>2, <1>4
  <2>5. \A report \in Range(call'.reports) : report.source # "fills"
    BY <2>4 DEF Range
  <2>6. FillsCountedOnce'
    BY <2>1, <2>2, <2>3, <2>5, FS_EmptySet DEF FillsCountedOnce
  <2> QED BY <2>4, <2>6 DEF FillsTold
<1> QED BY <1>6, <1>7, <1>8, <1>9 DEF Inv

LEMMA OpenListedKeeps ==
  ASSUME Inv, OpenListed
  PROVE  Inv'
<1> DEFINE todo == cache.open \ {call.reports[k].order : k \in {n \in DOMAIN call.reports : call.reports[n].client = "own"}}
<1>1. /\ DOMAIN call' = Fields
      /\ call'.pc = "single" /\ call'.todo = todo
      /\ call'.job = call.job /\ call'.asked = call.asked /\ call'.history = call.history /\ call'.answer = call.answer
      /\ call'.indexed = call.indexed /\ call'.accepted = call.accepted /\ call'.later = call.later /\ call'.reports = call.reports
      /\ call'.trades = call.trades /\ call'.fills = call.fills /\ call'.offset = call.offset
      /\ call'.sizes = call.sizes /\ call'.quantities = call.quantities /\ call'.seen = call.seen /\ call'.rose = call.rose
  BY DEF OpenListed, Go, Inv, ReportTypesOK, CallOK, Fields
<1>2. \A k \in DOMAIN call.reports : call.reports[k].client = "own" => call.reports[k].order \notin todo
  OBVIOUS
<1> HIDE DEF todo
<1>3. call.pc = "list" /\ call.job = "orders" /\ UNCHANGED <<book, cache>>
  BY DEF OpenListed, Inv, Steps
<1>4. ReportTypesOK'
  BY <1>1, <1>3 DEF Inv, ReportTypesOK, BookOK, CallOK
<1>5. Steps'
  BY <1>1, <1>3 DEF Inv, Steps, OfOrders
<1>6. KnownOnce'
  BY <1>1, <1>2, <1>3 DEF Inv, KnownOnce
<1>7. FillsTold'
  BY <1>1, <1>3 DEF Inv, FillsTold, FillsCountedOnce, Done
<1> QED BY <1>4, <1>5, <1>6, <1>7 DEF Inv

LEMMA OrderAnsweredKeeps ==
  ASSUME Inv, NEW o \in VenueOrders, OrderAnswered(o)
  PROVE  Inv'
<1> DEFINE report == Report(o, "single", "own", Filled(o))
<1>1. PICK reports \in {call.reports, Append(call.reports, report)} :
        /\ DOMAIN call' = Fields
        /\ call'.pc = call.pc /\ call'.todo = call.todo \ {o} /\ call'.reports = reports
        /\ call'.later = InstrumentOf[o]
        /\ call'.job = call.job /\ call'.asked = call.asked /\ call'.history = call.history /\ call'.answer = call.answer
        /\ call'.indexed = call.indexed /\ call'.accepted = call.accepted
        /\ call'.trades = call.trades /\ call'.fills = call.fills /\ call'.offset = call.offset
        /\ call'.sizes = call.sizes /\ call'.quantities = call.quantities /\ call'.seen = call.seen /\ call'.rose = call.rose
  <2>1. PICK more \in {call.reports, Append(call.reports, report)} :
          Go([todo |-> call.todo \ {o}, later |-> InstrumentOf[o],
              reports |-> IF InstrumentOf[o] \in Cached THEN more ELSE call.reports])
    BY DEF OrderAnswered
  <2> DEFINE reports == IF InstrumentOf[o] \in Cached THEN more ELSE call.reports
  <2>2. reports \in {call.reports, Append(call.reports, report)}
    OBVIOUS
  <2> HIDE DEF reports, report
  <2>3. Go([todo |-> call.todo \ {o}, later |-> InstrumentOf[o], reports |-> reports])
    BY <2>1 DEF reports
  <2> QED BY <2>2, <2>3 DEF Go, Inv, ReportTypesOK, CallOK, Fields
<1>2. call.pc = "single" /\ call.job = "orders" /\ o \in call.todo /\ UNCHANGED <<book, cache>>
  BY DEF OrderAnswered, Inv, Steps
<1>3. report \in Reports /\ report.order = o /\ report.client = "own" /\ report.source = "single"
  BY FilledNat DEF Report, Reports, Inv
<1> HIDE DEF report
<1>4. call.reports \in Seq(Reports) /\ Len(call.reports) \in Nat /\ InstrumentOf[o] \in Instruments
  <2>1. call.reports \in Seq(Reports)  BY DEF Inv, ReportTypesOK, CallOK
  <2>2. InstrumentOf[o] \in Instruments  BY ReportsAssumption
  <2> QED BY <2>1, <2>2
<1>5. reports \in Seq(Reports)
  BY <1>1, <1>3, <1>4
<1>6. \A k \in DOMAIN reports : \/ k \in DOMAIN call.reports /\ reports[k] = call.reports[k]
                                \/ k = Len(call.reports) + 1 /\ reports[k] = report
  BY <1>1, <1>3, <1>4
<1>7. ReportTypesOK'
  <2>1. BookOK'  BY <1>2 DEF Inv, ReportTypesOK, BookOK
  <2>2. CallOK'
    BY <1>1, <1>4, <1>5 DEF Inv, ReportTypesOK, CallOK
  <2> QED BY <2>1, <2>2 DEF ReportTypesOK
<1>8. Steps'
  BY <1>1, <1>2 DEF Inv, Steps, OfOrders
<1>9. KnownOnce'
  <2>1. \A k \in DOMAIN call.reports : call.reports[k].order \in call.indexed => call.reports[k].order # o
    BY <1>2 DEF Inv, KnownOnce
  <2>2. \A k, l \in DOMAIN reports : reports[k].order \in call.indexed /\ reports[l].order = reports[k].order => k = l
    BY <1>3, <1>6, <2>1 DEF Inv, KnownOnce
  <2>3. \A k \in DOMAIN reports : reports[k].order \in call.indexed =>
          reports[k].client = "own" /\ reports[k].order \notin call.todo \ {o}
    BY <1>2, <1>3, <1>6 DEF Inv, KnownOnce
  <2>4. /\ call.indexed \subseteq cache.indexed /\ call.accepted \subseteq call.indexed \cap cache.accepted
        /\ cache.accepted \subseteq cache.indexed /\ \A a, b \in call.answer : a.order = b.order => a = b
    BY <1>2 DEF Inv, KnownOnce
  <2> QED BY <1>1, <1>2, <2>2, <2>3, <2>4 DEF KnownOnce
<1>10. FillsTold'
  BY <1>1, <1>2, <1>3, <1>6 DEF Inv, FillsTold, FillsCountedOnce, Done
<1> QED BY <1>7, <1>8, <1>9, <1>10 DEF Inv

LEMMA HistoryBegunKeeps ==
  ASSUME Inv, HistoryBegun
  PROVE  Inv'
<1>1. /\ DOMAIN call' = Fields
      /\ call'.pc = "trades" /\ call'.todo = KnownIds
      /\ call'.job = call.job /\ call'.asked = call.asked /\ call'.history = call.history /\ call'.answer = call.answer
      /\ call'.indexed = call.indexed /\ call'.accepted = call.accepted /\ call'.later = call.later /\ call'.reports = call.reports
      /\ call'.trades = call.trades /\ call'.fills = call.fills /\ call'.offset = call.offset
      /\ call'.sizes = call.sizes /\ call'.quantities = call.quantities /\ call'.seen = call.seen /\ call'.rose = call.rose
  BY DEF HistoryBegun, Go, Inv, ReportTypesOK, CallOK, Fields
<1>2. cache.accepted \subseteq KnownIds /\ \A k \in DOMAIN call.reports : call.reports[k].order \in KnownIds
  BY DEF KnownIds
<1>3. call.pc = "single" /\ call.job = "orders" /\ UNCHANGED <<book, cache>>
  BY DEF HistoryBegun, Inv, Steps
<1>4. ReportTypesOK'
  BY <1>1, <1>3 DEF Inv, ReportTypesOK, BookOK, CallOK
<1>5. Steps'
  BY <1>1, <1>3 DEF Inv, Steps, OfOrders
<1>6. KnownOnce'
  BY <1>1, <1>2, <1>3 DEF Inv, KnownOnce
<1>7. FillsTold'
  BY <1>1, <1>3 DEF Inv, FillsTold, FillsCountedOnce, Done
<1> QED BY <1>4, <1>5, <1>6, <1>7 DEF Inv

LEMMA TradesReadKeeps ==
  ASSUME Inv, TradesRead
  PROVE  Inv'
<1> DEFINE T == {t \in Range(book.trades) : \A o \in t.orders :
                   FillsAsked = All \/ ConditionOf[InstrumentOf[o]] = ConditionOf[FillsAsked]}
           toldNow == SetToSeq(T)
<1>1. PICK answer \in {toldNow} \union {Append(toldNow, toldNow[k]) : k \in DOMAIN toldNow} :
        /\ DOMAIN call' = Fields
        /\ call'.pc = "trades read" /\ call'.trades = answer
        /\ call'.job = call.job /\ call'.asked = call.asked /\ call'.history = call.history /\ call'.answer = call.answer
        /\ call'.indexed = call.indexed /\ call'.accepted = call.accepted /\ call'.todo = call.todo /\ call'.later = call.later /\ call'.reports = call.reports
        /\ call'.fills = call.fills /\ call'.offset = call.offset
        /\ call'.sizes = call.sizes /\ call'.quantities = call.quantities /\ call'.seen = call.seen /\ call'.rose = call.rose
  <2>1. PICK answer \in {toldNow} \union {Append(toldNow, toldNow[k]) : k \in DOMAIN toldNow} :
          Go([pc |-> "trades read", trades |-> answer])
    BY DEF TradesRead
  <2> HIDE DEF toldNow
  <2> QED BY <2>1 DEF Go, Inv, ReportTypesOK, CallOK, Fields
<1>2. T \subseteq TradeSet /\ IsFiniteSet(T)
  <2>1. book.trades \in Seq(TradeSet) /\ Len(book.trades) \in Nat /\ 1 \in Int
    BY DEF Inv, ReportTypesOK, BookOK
  <2>2. Range(book.trades) \subseteq TradeSet
    BY <2>1 DEF Range
  <2>3. book.trades \in Surjection(1 .. Len(book.trades), Range(book.trades))
    BY <2>1 DEF Surjection, Range
  <2>4. IsFiniteSet(Range(book.trades))
    BY <2>1, <2>3, FS_Interval, FS_Surjection
  <2>5. T \in SUBSET Range(book.trades)
    OBVIOUS
  <2> QED BY <2>2, <2>4, <2>5, FS_Subset
<1> HIDE DEF T
<1>3. toldNow \in Seq(TradeSet)
  BY <1>2, Listing
<1> HIDE DEF toldNow
<1>4. answer \in Seq(TradeSet)
  BY <1>3
<1>5. call.pc = "trades" /\ OfOrders /\ UNCHANGED <<book, cache>>
  BY DEF TradesRead, Inv, Steps
<1>6. ReportTypesOK'
  <2>1. BookOK'  BY <1>5 DEF Inv, ReportTypesOK, BookOK
  <2>2. CallOK'
    BY <1>1, <1>4 DEF Inv, ReportTypesOK, CallOK
  <2> QED BY <2>1, <2>2 DEF ReportTypesOK
<1>7. Steps'
  BY <1>1, <1>5 DEF Inv, Steps, OfOrders
<1>8. KnownOnce'
  BY <1>1, <1>5 DEF Inv, KnownOnce
<1>9. FillsTold'
  BY <1>1, <1>5 DEF Inv, FillsTold, FillsCountedOnce, Done
<1> QED BY <1>6, <1>7, <1>8, <1>9 DEF Inv

\* A status is made up of the fills of each order that is not known, and counts them.
LEMMA MadeUpOf ==
  ASSUME NEW fills \in Seq(FillSet)
  PROVE  /\ MadeUp(fills) \in Seq(Reports)
         /\ \A k \in DOMAIN MadeUp(fills) :
              LET r == MadeUp(fills)[k]
              IN  /\ r.order \notin call.todo /\ r.source = "fills"
                  /\ r.filled = Cardinality({i \in DOMAIN fills : fills[i].order = r.order})
         /\ \A k, l \in DOMAIN MadeUp(fills) : MadeUp(fills)[k].order = MadeUp(fills)[l].order => k = l
<1> DEFINE unknown == {fills[k].order : k \in DOMAIN fills} \ call.todo
           of(o) == {k \in DOMAIN fills : fills[k].order = o}
           made == {Report(o, "fills", "made up", Cardinality(of(o))) : o \in unknown}
<1>1. unknown \in SUBSET VenueOrders /\ IsFiniteSet(VenueOrders)
  <2>1. \A k \in DOMAIN fills : fills[k] \in FillSet  OBVIOUS
  <2>2. \A k \in DOMAIN fills : fills[k].order \in VenueOrders  BY <2>1 DEF FillSet
  <2>3. IsFiniteSet(VenueOrders)  BY ReportsAssumption
  <2> QED BY <2>2, <2>3
<1>2. \A o \in unknown : o \notin call.todo
  OBVIOUS
<1>3. \A o : Cardinality(of(o)) \in Nat
  <2> TAKE o
  <2>1. Len(fills) \in Nat /\ 1 \in Int /\ DOMAIN fills = 1 .. Len(fills)  OBVIOUS
  <2>2. IsFiniteSet(DOMAIN fills) /\ of(o) \in SUBSET DOMAIN fills  BY <2>1, FS_Interval
  <2> QED BY <2>2, FS_Subset, FS_CardinalityType
<1> HIDE DEF unknown
<1>4. IsFiniteSet(made)
  <2> DEFINE f == [o \in unknown |-> Report(o, "fills", "made up", Cardinality(of(o)))]
  <2>1. IsFiniteSet(unknown)
    BY <1>1, FS_Subset
  <2>2. f \in Surjection(unknown, made)
    BY DEF Surjection
  <2> HIDE DEF f, made
  <2> QED BY <2>1, <2>2, FS_Surjection
<1>5. \A r \in made : /\ r \in Reports /\ r.order \notin call.todo /\ r.source = "fills"
                      /\ r.filled = Cardinality(of(r.order))
  <2> HIDE DEF of
  <2> SUFFICES ASSUME NEW o \in unknown
               PROVE  LET r == Report(o, "fills", "made up", Cardinality(of(o)))
                      IN  /\ r \in Reports /\ r.order \notin call.todo /\ r.source = "fills"
                          /\ r.filled = Cardinality(of(r.order))
    OBVIOUS
  <2>1. o \in VenueOrders /\ o \notin call.todo /\ Cardinality(of(o)) \in Nat
    BY <1>1, <1>2, <1>3
  <2> QED BY <2>1 DEF Report, Reports
<1>b. \A r, s \in made : r.order = s.order => r = s
  <2> HIDE DEF of
  <2> SUFFICES ASSUME NEW o \in unknown, NEW p \in unknown,
                      Report(o, "fills", "made up", Cardinality(of(o))).order = Report(p, "fills", "made up", Cardinality(of(p))).order
               PROVE  o = p
    OBVIOUS
  <2> QED BY DEF Report
<1>6. MadeUp(fills) = SetToSeq(made)
  BY DEF MadeUp, made, unknown
<1> HIDE DEF made
<1>7. SetToSeq(made) \in Seq(made) /\ \A k, l \in DOMAIN SetToSeq(made) : SetToSeq(made)[k] = SetToSeq(made)[l] => k = l
  BY <1>4, Listing
<1>8. \A k \in DOMAIN MadeUp(fills) : MadeUp(fills)[k] \in made
  BY <1>6, <1>7
<1>9. made \subseteq Reports
  BY <1>5
<1>10. MadeUp(fills) \in Seq(Reports)
  BY <1>6, <1>7, <1>9
<1>11. \A k, l \in DOMAIN MadeUp(fills) : MadeUp(fills)[k].order = MadeUp(fills)[l].order => k = l
  BY <1>b, <1>6, <1>7, <1>8
<1> QED BY <1>5, <1>8, <1>10, <1>11

LEMMA TradesAnsweredKeeps ==
  ASSUME Inv, TradesAnswered
  PROVE  Inv'
<1>1. PICK trades \in {call.trades, <<>>} :
       LET fills == ParseTrades(trades, FillsAsked)
       IN  IF call.job = "fills" THEN Go([fills |-> fills, trades |-> trades, pc |-> "done"])
           ELSE Go([reports |-> call.reports \o MadeUp(fills), fills |-> fills, trades |-> trades, pc |-> "done"])
  BY DEF TradesAnswered
<1> DEFINE fills == ParseTrades(trades, FillsAsked)
           made == IF call.job = "fills" THEN <<>> ELSE MadeUp(fills)
           reports == call.reports \o made
<1>2. trades \in Seq(TradeSet) /\ call.reports \in Seq(Reports)
  <2>1. call.trades \in Seq(TradeSet) /\ call.reports \in Seq(Reports)
    BY DEF Inv, ReportTypesOK, CallOK
  <2>2. <<>> \in Seq(TradeSet)  OBVIOUS
  <2> QED BY <2>1, <2>2
<1>3. /\ fills \in Seq(FillSet) /\ Range(fills) = FillsDue(trades, FillsAsked)
      /\ \A i, j \in DOMAIN fills : fills[i] = fills[j] => i = j
  BY <1>2, ParsedOnce
<1> HIDE DEF fills
<1>4. /\ made \in Seq(Reports)
      /\ \A k \in DOMAIN made : /\ call.job # "fills" /\ made[k].order \notin call.todo /\ made[k].source = "fills"
                                /\ made[k].filled = Cardinality({i \in DOMAIN fills : fills[i].order = made[k].order})
  <2>1. CASE call.job = "fills"
    BY <2>1, EmptyDomain
  <2>2. CASE call.job # "fills"
    BY <2>2, <1>3, MadeUpOf
  <2> QED BY <2>1, <2>2
<1>o. \A k, l \in DOMAIN made : made[k].order = made[l].order => k = l
  <2>1. CASE call.job = "fills"
    BY <2>1, EmptyDomain
  <2>2. CASE call.job # "fills"
    <3>1. made = MadeUp(fills)
      BY <2>2
    <3> HIDE DEF made
    <3> QED BY <3>1, <1>3, MadeUpOf
  <2> QED BY <2>1, <2>2
<1>5. /\ DOMAIN call' = Fields
      /\ call'.pc = "done" /\ call'.trades = trades /\ call'.fills = fills /\ call'.reports = reports
      /\ call'.job = call.job /\ call'.asked = call.asked /\ call'.history = call.history /\ call'.answer = call.answer
      /\ call'.indexed = call.indexed /\ call'.accepted = call.accepted /\ call'.todo = call.todo /\ call'.later = call.later
      /\ call'.offset = call.offset /\ call'.sizes = call.sizes /\ call'.quantities = call.quantities
      /\ call'.seen = call.seen /\ call'.rose = call.rose
  <2>1. CASE call.job = "fills"
    <3>1. Go([fills |-> fills, trades |-> trades, pc |-> "done"])
      BY <1>1, <2>1 DEF fills
    <3>2. reports = call.reports
      BY <1>2, <2>1
    <3> QED BY <3>1, <3>2 DEF Go, Inv, ReportTypesOK, CallOK, Fields
  <2>2. CASE call.job # "fills"
    <3>1. Go([reports |-> reports, fills |-> fills, trades |-> trades, pc |-> "done"])
      BY <1>1, <2>2 DEF fills
    <3> HIDE DEF reports
    <3> QED BY <3>1 DEF Go, Inv, ReportTypesOK, CallOK, Fields
  <2> QED BY <2>1, <2>2
<1> HIDE DEF made
<1>6. reports \in Seq(Reports)
  BY <1>2, <1>4
<1>7. \A k \in DOMAIN reports : \/ k \in DOMAIN call.reports /\ reports[k] = call.reports[k]
                                \/ k - Len(call.reports) \in DOMAIN made /\ reports[k] = made[k - Len(call.reports)]
  <2> TAKE k \in DOMAIN reports
  <2>0. Len(call.reports) \in Nat /\ Len(made) \in Nat /\ DOMAIN made = 1 .. Len(made)
        /\ DOMAIN reports = 1 .. Len(call.reports) + Len(made)
    BY <1>2, <1>4
  <2>1. CASE k <= Len(call.reports)
    BY <2>0, <2>1, <1>2, <1>4
  <2>2. CASE ~(k <= Len(call.reports))
    BY <2>0, <2>2, <1>2, <1>4
  <2> QED BY <2>1, <2>2
<1> HIDE DEF reports
<1>8. call.pc = "trades read" /\ OfOrders /\ UNCHANGED <<book, cache>>
  BY DEF TradesAnswered, Inv, Steps
<1>9. ReportTypesOK'
  <2>1. BookOK'  BY <1>8 DEF Inv, ReportTypesOK, BookOK
  <2>2. CallOK'
    BY <1>2, <1>3, <1>5, <1>6 DEF Inv, ReportTypesOK, CallOK
  <2> QED BY <2>1, <2>2 DEF ReportTypesOK
<1>10. Steps'
  BY <1>5, <1>8 DEF Inv, Steps, OfOrders
<1>11. KnownOnce'
  <2>1. call.job = "orders" \/ call.job = "fills"
    BY <1>8 DEF OfOrders
  <2>2. \A n \in DOMAIN made : /\ made[n].order \notin call.accepted
                               /\ \A k \in DOMAIN call.reports : call.reports[k].order # made[n].order
    BY <1>4, <1>8, <2>1 DEF Inv, KnownOnce
  <2>3. call.accepted \subseteq call.indexed
    BY <1>8 DEF Inv, KnownOnce
  <2>4. ASSUME NEW k \in DOMAIN reports, NEW l \in DOMAIN reports,
               reports[k].order \in call.indexed, reports[l].order = reports[k].order
        PROVE  k = l
    <3>1. k \in Int /\ l \in Int /\ Len(call.reports) \in Nat
      BY <1>2, <1>6
    <3>2. CASE k \in DOMAIN call.reports /\ reports[k] = call.reports[k]
      <4>1. l \in DOMAIN call.reports /\ reports[l] = call.reports[l]
        BY <1>7, <2>2, <2>4, <3>2
      <4> QED BY <2>4, <3>2, <4>1 DEF Inv, KnownOnce
    <3>3. CASE k - Len(call.reports) \in DOMAIN made /\ reports[k] = made[k - Len(call.reports)]
      <4>1. l - Len(call.reports) \in DOMAIN made /\ reports[l] = made[l - Len(call.reports)]
        BY <1>7, <2>2, <2>4, <3>3
      <4>2. k - Len(call.reports) = l - Len(call.reports)
        BY <1>o, <2>4, <3>3, <4>1
      <4> QED BY <3>1, <4>2
    <3> QED BY <1>7, <3>2, <3>3
  <2>5. \A k \in DOMAIN reports : reports[k].order \in call.accepted => reports[k].client = "own"
    BY <1>7, <1>8, <2>2, <2>3 DEF Inv, KnownOnce
  <2>6. /\ call.indexed \subseteq cache.indexed /\ call.accepted \subseteq call.indexed \cap cache.accepted
        /\ cache.accepted \subseteq cache.indexed /\ \A a, b \in call.answer : a.order = b.order => a = b
    BY <1>8 DEF Inv, KnownOnce
  <2> QED BY <1>5, <1>8, <2>4, <2>5, <2>6 DEF KnownOnce
<1>12. FillsTold'
  <2> DEFINE due == FillsDue(trades, FillsAsked)
  <2>1. Len(fills) = Cardinality(due)
    BY <1>3, Counted
  <2>2. \A n \in DOMAIN made : made[n].filled = Cardinality({f \in due : f.order = made[n].order})
    <3> TAKE n \in DOMAIN made
    <3> DEFINE U == {f \in due : f.order = made[n].order}
    <3>1. U \in SUBSET Range(fills)
      BY <1>3
    <3>2. {i \in DOMAIN fills : fills[i] \in U} = {i \in DOMAIN fills : fills[i].order = made[n].order}
      BY <1>3 DEF Range
    <3> HIDE DEF U
    <3>3. Cardinality({i \in DOMAIN fills : fills[i] \in U}) = Cardinality(U)
      BY <1>3, <3>1, CountedOf
    <3> QED BY <1>4, <3>2, <3>3 DEF U
  <2>3. \A report \in Range(reports) : report.source = "fills" =>
          report.filled = Cardinality({f \in due : f.order = report.order})
    <3> SUFFICES ASSUME NEW k \in DOMAIN reports, reports[k].source = "fills"
                 PROVE  reports[k].filled = Cardinality({f \in due : f.order = reports[k].order})
      BY DEF Range
    <3>1. ~(k \in DOMAIN call.reports /\ reports[k] = call.reports[k])
      BY <1>8 DEF Inv, FillsTold
    <3> HIDE DEF due
    <3> QED BY <3>1, <1>7, <2>2
  <2>4. FillsAsked' = FillsAsked
    BY <1>5 DEF FillsAsked
  <2>5. due = UNION {FillsOf(t, FillsAsked') : t \in Range(call'.trades)}
    BY <1>5, <2>4 DEF FillsDue
  <2>6. FillsCountedOnce'
    BY <1>3, <1>5, <2>1, <2>3, <2>5 DEF FillsCountedOnce
  <2> QED BY <1>5, <2>6 DEF FillsTold
<1> QED BY <1>9, <1>10, <1>11, <1>12 DEF Inv

LEMMA PositionsPageKeeps ==
  ASSUME Inv, PositionsPage
  PROVE  Inv'
<1> DEFINE sizes == SizesWith(call.sizes, Page)
           last == LastPage
           quantities == [i \in call.todo |-> IF i \in DOMAIN sizes THEN sizes[i] ELSE 0]
<1>1. /\ DOMAIN call' = Fields
      /\ call'.pc = (IF last THEN "done" ELSE "page") /\ call'.sizes = sizes /\ call'.quantities = quantities
      /\ call'.offset = call.offset + PageSize
      /\ call'.job = call.job /\ call'.asked = call.asked /\ call'.history = call.history /\ call'.answer = call.answer
      /\ call'.indexed = call.indexed /\ call'.accepted = call.accepted /\ call'.todo = call.todo /\ call'.later = call.later /\ call'.reports = call.reports
      /\ call'.trades = call.trades /\ call'.fills = call.fills /\ call'.seen = call.seen /\ call'.rose = call.rose
  <2>1. Go([sizes |-> sizes, offset |-> call.offset + PageSize,
            quantities |-> quantities, pc |-> IF last THEN "done" ELSE "page"])
    BY DEF PositionsPage
  <2> HIDE DEF sizes, last, quantities
  <2> QED BY <2>1 DEF Go, Inv, ReportTypesOK, CallOK, Fields
<1>2. call.pc = "page" /\ call.job = "data positions" /\ ~OfOrders /\ UNCHANGED <<book, cache>>
  BY DEF PositionsPage, Inv, Steps, OfOrders
<1>3. PageSize \in Nat /\ PageSize <= MaxOffset /\ MaxOffset \in Nat /\ PageSize # 0
  BY ReportsAssumption
<1>4. DOMAIN quantities = call.todo /\ call.todo \subseteq Instruments
  BY <1>2 DEF Inv, Steps
<1> HIDE DEF sizes, last, quantities
<1>6. ReportTypesOK'
  <2>1. BookOK'  BY <1>2 DEF Inv, ReportTypesOK, BookOK
  <2>2. call.offset + PageSize \in Nat
    <3>1. call.offset \in Nat  BY DEF Inv, ReportTypesOK, CallOK
    <3> QED BY <3>1, <1>3
  <2>3. CallOK'
    BY <1>1, <2>2 DEF Inv, ReportTypesOK, CallOK
  <2> QED BY <2>1, <2>3 DEF ReportTypesOK
<1>7. Steps'
  BY <1>1, <1>2 DEF Inv, Steps, OfOrders
<1>8. KnownOnce'
  BY <1>1, <1>2 DEF Inv, KnownOnce
<1>9. FillsTold'
  <2>1. call.reports = <<>>
    BY <1>2 DEF Inv, KnownOnce
  <2> QED BY <1>1, <1>2, <2>1, EmptyDomain DEF FillsTold, FillsCountedOnce, Done, OfOrders
<1> QED BY <1>6, <1>7, <1>8, <1>9 DEF Inv

LEMMA BalanceAnsweredKeeps ==
  ASSUME Inv, NEW i \in Instruments, BalanceAnswered(i)
  PROVE  Inv'
<1> DEFINE quantities == [j \in DOMAIN call.quantities \union {i} |-> IF j = i THEN book.held[i] ELSE call.quantities[j]]
<1>1. /\ DOMAIN call' = Fields
      /\ call'.pc = (IF call.todo = {i} THEN "done" ELSE "balances") /\ call'.quantities = quantities
      /\ call'.todo = call.todo \ {i}
      /\ call'.job = call.job /\ call'.asked = call.asked /\ call'.history = call.history /\ call'.answer = call.answer
      /\ call'.indexed = call.indexed /\ call'.accepted = call.accepted /\ call'.later = call.later /\ call'.reports = call.reports
      /\ call'.trades = call.trades /\ call'.fills = call.fills /\ call'.offset = call.offset
      /\ call'.sizes = call.sizes /\ call'.seen = call.seen /\ call'.rose = call.rose
  BY DEF BalanceAnswered, Go, Inv, ReportTypesOK, CallOK, Fields
<1>2. call.pc = "balances" /\ call.job = "clob positions" /\ ~OfOrders /\ UNCHANGED <<book, cache>>
  BY DEF BalanceAnswered, Inv, Steps, OfOrders
<1> HIDE DEF quantities
<1>4. ReportTypesOK'
  BY <1>1, <1>2 DEF Inv, ReportTypesOK, BookOK, CallOK
<1>5. Steps'
  BY <1>1, <1>2 DEF Inv, Steps, OfOrders
<1>6. KnownOnce'
  BY <1>1, <1>2, EmptyDomain DEF Inv, KnownOnce
<1>7. FillsTold'
  <2>1. call.reports = <<>>
    BY <1>2 DEF Inv, KnownOnce
  <2> QED BY <1>1, <1>2, <2>1, EmptyDomain DEF FillsTold, FillsCountedOnce, Done, OfOrders
<1> QED BY <1>4, <1>5, <1>6, <1>7 DEF Inv

LEMMA PositionsFailKeeps ==
  ASSUME Inv, PositionsFail
  PROVE  Inv'
<1>1. /\ DOMAIN call' = Fields
      /\ call'.pc = "failed" /\ call'.todo = call.todo /\ call'.quantities = call.quantities
      /\ call'.job = call.job /\ call'.asked = call.asked /\ call'.history = call.history /\ call'.answer = call.answer
      /\ call'.indexed = call.indexed /\ call'.accepted = call.accepted /\ call'.later = call.later /\ call'.reports = call.reports
      /\ call'.trades = call.trades /\ call'.fills = call.fills /\ call'.offset = call.offset
      /\ call'.sizes = call.sizes /\ call'.seen = call.seen /\ call'.rose = call.rose
  BY DEF PositionsFail, Go, Inv, ReportTypesOK, CallOK, Fields
<1>2. call.pc \in {"page", "balances"} /\ ~OfOrders /\ UNCHANGED <<book, cache>>
  BY DEF PositionsFail, Inv, Steps, OfOrders
<1>3. ReportTypesOK'
  BY <1>1, <1>2 DEF Inv, ReportTypesOK, BookOK, CallOK
<1>4. Steps'
  BY <1>1, <1>2 DEF Inv, Steps, OfOrders
<1>5. KnownOnce'
  BY <1>1, <1>2, EmptyDomain DEF Inv, KnownOnce
<1>6. FillsTold'
  BY <1>1, <1>2 DEF Inv, FillsTold, FillsCountedOnce, Done
<1> QED BY <1>3, <1>4, <1>5, <1>6 DEF Inv
-----------------------------------------------------------------------------
LEMMA StutterKeeps ==
  ASSUME Inv, UNCHANGED reportVars
  PROVE  Inv'
<1>1. book' = book /\ cache' = cache /\ call' = call
  BY DEF reportVars
<1>2. ReportTypesOK' /\ Steps' /\ KnownOnce'
  BY <1>1 DEF Inv, ReportTypesOK, BookOK, CallOK, Steps, KnownOnce, OfOrders
<1>3. FillsTold'
  BY <1>1 DEF Inv, FillsTold, FillsCountedOnce, Done, FillsAsked, FillsOf
<1> QED BY <1>2, <1>3 DEF Inv

LEMMA NextKeeps ==
  ASSUME Inv, [ReportsNext]_reportVars
  PROVE  Inv'
<1>1. CASE \E o \in VenueOrders : Post(o)           BY <1>1, PostKeeps
<1>2. CASE \E o \in VenueOrders : Indexed(o)        BY <1>2, IndexedKeeps
<1>a. CASE \E o \in VenueOrders : Accepted(o)       BY <1>a, AcceptedKeeps
<1>3. CASE \E o \in VenueOrders : Closed(o)         BY <1>3, ClosedKeeps
<1>4. CASE \E o \in VenueOrders : Cancel(o)         BY <1>4, CancelKeeps
<1>5. CASE \E o \in VenueOrders : OrderAnswered(o)  BY <1>5, OrderAnsweredKeeps
<1>6. CASE \E orders \in SUBSET VenueOrders : Trade(orders)
                                               BY <1>6, TradeKeeps
<1>7. CASE \E i \in Instruments : BalanceAnswered(i)
                                               BY <1>7, BalanceAnsweredKeeps
<1>8. CASE \E i \in Instruments : \E held \in 0 .. MaxHeld : Move(i, held)
                                               BY <1>8, MoveKeeps
<1>9. CASE Begin                               BY <1>9, BeginKeeps
<1>10. CASE OrdersRead                         BY <1>10, OrdersReadKeeps
<1>11. CASE OrdersAnswered                     BY <1>11, OrdersAnsweredKeeps
<1>12. CASE OpenListed                         BY <1>12, OpenListedKeeps
<1>13. CASE HistoryBegun                       BY <1>13, HistoryBegunKeeps
<1>14. CASE TradesRead                         BY <1>14, TradesReadKeeps
<1>15. CASE TradesAnswered                     BY <1>15, TradesAnsweredKeeps
<1>16. CASE PositionsPage                      BY <1>16, PositionsPageKeeps
<1>17. CASE PositionsFail                      BY <1>17, PositionsFailKeeps
<1>18. CASE UNCHANGED reportVars               BY <1>18, StutterKeeps
<1> QED BY <1>1, <1>2, <1>a, <1>3, <1>4, <1>5, <1>6, <1>7, <1>8, <1>9, <1>10, <1>11, <1>12, <1>13, <1>14, <1>15,
           <1>16, <1>17, <1>18 DEF ReportsNext

LEMMA InvAlways == ReportsSpec => []Inv
<1>1. ReportsInit => Inv  BY InitKeeps
<1>2. Inv /\ [ReportsNext]_reportVars => Inv'  BY NextKeeps
<1> QED BY <1>1, <1>2, PTL DEF ReportsSpec
-----------------------------------------------------------------------------
\* Every state of a report has the types of ReportTypesOK: in particular the trades and fills put
\* together of overlapping pages, whatever the venue answers.
THEOREM ReportTypesCorrect == ReportsSpec => []ReportTypesOK
<1>1. Inv => ReportTypesOK  BY DEF Inv
<1> QED BY <1>1, InvAlways, PTL

\* The fills reported are those of the trades answered, each once, and a status made up of
\* fills counts all of its order's.
THEOREM CountedOnce == ReportsSpec => []FillsCountedOnce
<1>1. Inv => FillsCountedOnce  BY DEF Inv, FillsTold
<1> QED BY <1>1, InvAlways, PTL

\* An order whose venue id was indexed when the report was begun is reported once at most; one
\* that the engine had been told of by then only under its own client id, whatever happens to
\* it between the requests.
THEOREM KnownReportedOnce == ReportsSpec => []KnownOnceReported
<1>1. Inv => KnownOnceReported
  <2> SUFFICES ASSUME Inv, Done("orders")
               PROVE  /\ \A o \in call.indexed : Cardinality({k \in DOMAIN call.reports : call.reports[k].order = o}) <= 1
                      /\ \A o \in call.accepted :
                           \A k \in {n \in DOMAIN call.reports : call.reports[n].order = o} : call.reports[k].client = "own"
    BY DEF KnownOnceReported
  <2>1. call.pc = "done"
    BY DEF Done
  <2>2. ASSUME NEW o \in call.indexed
        PROVE  Cardinality({k \in DOMAIN call.reports : call.reports[k].order = o}) <= 1
    <3> DEFINE of == {k \in DOMAIN call.reports : call.reports[k].order = o}
    <3>1. \A k, l \in of : k = l
      BY DEF Inv, KnownOnce
    <3> HIDE DEF of
    <3>2. of = {} \/ \E k : of = {k}
      BY <3>1
    <3>3. CASE of = {}
      BY <3>3, FS_EmptySet DEF of
    <3>4. CASE \E k : of = {k}
      <4>1. PICK k : of = {k}  BY <3>4
      <4>2. Cardinality({k}) = 1  BY FS_Singleton
      <4> QED BY <4>1, <4>2 DEF of
    <3> QED BY <3>2, <3>3, <3>4
  <2>3. \A k \in DOMAIN call.reports : call.reports[k].order \in call.accepted => call.reports[k].client = "own"
    BY <2>1 DEF Inv, KnownOnce
  <2> QED BY <2>2, <2>3
<1> QED BY <1>1, InvAlways, PTL
-----------------------------------------------------------------------------
(* Positions on pages                                                       *)

LEMMA PlaceNumber ==
  ASSUME BookOK
  PROVE  /\ IsFiniteSet(Listed) /\ IsFiniteSet(Page)
         /\ \A i \in Instruments : IsFiniteSet(Larger(i)) /\ Place(i) \in Nat
<1>1. IsFiniteSet(Instruments)
  BY ReportsAssumption
<1>2. Listed \in SUBSET Instruments
  BY DEF Listed
<1>3. IsFiniteSet(Listed)
  BY <1>1, <1>2, FS_Subset
<1>4. Page \in SUBSET Listed /\ \A i \in Instruments : Larger(i) \in SUBSET Listed
  BY DEF Page, Larger
<1>5. IsFiniteSet(Page) /\ \A i \in Instruments : IsFiniteSet(Larger(i))
  BY <1>3, <1>4, FS_Subset
<1> QED BY <1>3, <1>5, FS_CardinalityType DEF Place

\* A page behind which there is a position is full: every number below the size of the list is
\* the place of one.
LEMMA FullPage ==
  ASSUME BookOK, call.offset \in Nat, NEW i \in Listed, Place(i) >= call.offset + PageSize
  PROVE  Cardinality(Page) \in Nat /\ Cardinality(Page) >= PageSize
<1> DEFINE R == {p \in Listed \X Listed : Precedes(p[1], p[2])}
           T == call.offset .. call.offset + PageSize - 1
           f == [j \in Page |-> Place(j)]
<1>1. Listed \subseteq Instruments /\ Instruments \subseteq Nat /\ PageSize \in Nat \ {0}
  BY ReportsAssumption DEF Listed
<1>2. book.held \in [Instruments -> Nat]
  BY DEF BookOK
<1>3. \A j, k \in Listed : <<j, k>> \in R <=> Precedes(j, k)
  OBVIOUS
<1>4. Linear(R, Listed)
  <2> HIDE DEF R
  <2>1. \A j \in Listed : j \in Nat /\ book.held[j] \in Nat
    BY <1>1, <1>2
  <2>2. \A j, k \in Listed : j # k => Precedes(j, k) \/ Precedes(k, j)
    BY <2>1 DEF Precedes
  <2>3. \A j, k \in Listed : Precedes(j, k) => ~Precedes(k, j)
    BY <2>1 DEF Precedes
  <2>4. \A j, k, m \in Listed : Precedes(j, k) /\ Precedes(k, m) => Precedes(j, m)
    BY <2>1 DEF Precedes
  <2> QED BY <1>3, <2>2, <2>3, <2>4 DEF Linear
<1>5. \A j \in Listed : RankOf(R, Listed, j) = Place(j)
  <2> TAKE j \in Listed
  <2>1. {k \in Listed : <<k, j>> \in R} = Larger(j)
    BY <1>3 DEF Larger
  <2> QED BY <2>1 DEF RankOf, Place
<1> HIDE DEF R
<1>6. /\ Cardinality(Listed) \in Nat
      /\ \A j \in Listed : Place(j) \in 0 .. Cardinality(Listed) - 1
      /\ \A k \in 1 .. Cardinality(Listed) : \E j \in Listed : Place(j) = k - 1
  BY <1>4, <1>5, PlaceNumber, RanksRun DEF RanksUsed
<1>7. \A n \in T : \E j \in Page : Place(j) = n
  <2> TAKE n \in T
  <2>1. n + 1 \in 1 .. Cardinality(Listed) /\ n \in Int /\ call.offset <= n /\ n < call.offset + PageSize
    BY <1>1, <1>6
  <2>2. PICK j \in Listed : Place(j) = n + 1 - 1
    BY <1>6, <2>1
  <2>3. Place(j) = n
    BY <2>1, <2>2
  <2> QED BY <2>1, <2>3 DEF Page
<1>8. \A j \in Page : Place(j) \in T
  <2> TAKE j \in Page
  <2>1. j \in Listed /\ call.offset <= Place(j) /\ Place(j) < call.offset + PageSize
    BY DEF Page
  <2>2. Place(j) \in Int
    BY <1>6, <2>1
  <2> QED BY <1>1, <2>1, <2>2
<1>9. f \in Surjection(Page, T)
  BY <1>7, <1>8 DEF Surjection
<1>10. IsFiniteSet(Page)
  BY PlaceNumber
<1>11. Cardinality(T) <= Cardinality(Page)
  BY <1>9, <1>10, FS_Surjection
<1>12. Cardinality(T) = PageSize
  <2>1. call.offset \in Int /\ call.offset + PageSize - 1 \in Int /\ call.offset <= call.offset + PageSize - 1
    BY <1>1
  <2>2. Cardinality(T) = (call.offset + PageSize - 1) - call.offset + 1
    BY <2>1, FS_Interval
  <2> QED BY <1>1, <2>2
<1> QED BY <1>1, <1>10, <1>11, <1>12, FS_CardinalityType

\* What a report does of positions, it goes on doing.
LEMMA JobKept ==
  ASSUME Inv, [ReportsNext]_reportVars
  PROVE  call'.job = call.job
<1> USE DEF Inv, ReportTypesOK, CallOK, Fields
<1>1. CASE UNCHANGED call
  BY <1>1
<1>2. CASE \E o \in VenueOrders : OrderAnswered(o)
  BY <1>2 DEF OrderAnswered, Go
<1>3. CASE \E i \in Instruments : BalanceAnswered(i)
  BY <1>3 DEF BalanceAnswered, Go
<1>4. CASE \E i \in Instruments : \E held \in 0 .. MaxHeld : Move(i, held)
  BY <1>4 DEF Move, Go
<1>5. CASE Begin \/ OpenListed \/ HistoryBegun
  BY <1>5 DEF Begin, OpenListed, HistoryBegun, Go
<1>6. CASE OrdersRead \/ OrdersAnswered
  BY <1>6 DEF OrdersRead, OrdersAnswered, Go
<1>7. CASE TradesRead \/ TradesAnswered
  BY <1>7 DEF TradesRead, TradesAnswered, Go
<1>8. CASE PositionsPage \/ PositionsFail
  BY <1>8 DEF PositionsPage, PositionsFail, Go
<1> QED BY <1>1, <1>2, <1>3, <1>4, <1>5, <1>6, <1>7, <1>8
        DEF ReportsNext, reportVars, Post, Indexed, Accepted, Closed, Cancel, Trade

\* A position that is held all the while and did not go up in the list; its size is among those read.
Steady(i) == 0 \notin call.seen[i] /\ i \notin call.rose
SizeRead(i) == i \in DOMAIN call.sizes /\ call.sizes[i] \in call.seen[i]

\* What is held was seen; the pages so far have those of them that lie before the offset.
PagesInv ==
  /\ ~OfOrders /\ call.pc # "idle" => \A i \in Instruments : book.held[i] \in call.seen[i]
  /\ ~OfOrders /\ call.pc = "idle" => call.offset = 0
  /\ call.pc = "page" => \A i \in Instruments : Steady(i) /\ Place(i) < call.offset => SizeRead(i)
  /\ PositionsFetched

LEMMA PageKeepsPages ==
  ASSUME Inv, PagesInv, PositionsPage
  PROVE  PagesInv'
<1> DEFINE sizes == SizesWith(call.sizes, Page)
           quantities == [i \in call.todo |-> IF i \in DOMAIN sizes THEN sizes[i] ELSE 0]
<1>1. /\ call'.pc = (IF LastPage THEN "done" ELSE "page") /\ call'.sizes = sizes /\ call'.quantities = quantities
      /\ call'.offset = call.offset + PageSize /\ call'.job = call.job
      /\ call'.seen = call.seen /\ call'.rose = call.rose
  <2>1. Go([sizes |-> sizes, offset |-> call.offset + PageSize,
            quantities |-> quantities, pc |-> IF LastPage THEN "done" ELSE "page"])
    BY DEF PositionsPage
  <2> HIDE DEF sizes, quantities
  <2> QED BY <2>1 DEF Go, Inv, ReportTypesOK, CallOK, Fields
<1>2. call.pc = "page" /\ call.job = "data positions" /\ ~OfOrders /\ book' = book /\ call.todo \subseteq Instruments
  BY DEF PositionsPage, Inv, Steps, OfOrders
<1>3. PageSize \in Nat /\ MaxOffset \in Nat /\ call.offset \in Nat
  BY ReportsAssumption DEF Inv, ReportTypesOK, CallOK
<1>4. BookOK /\ \A i \in Instruments : book.held[i] \in Nat /\ Place(i) \in Nat
  <2>1. BookOK
    BY DEF Inv, ReportTypesOK
  <2> QED BY <2>1, PlaceNumber DEF BookOK
<1>5. \A i \in Instruments : Place(i)' = Place(i)
  BY <1>2 DEF Place, Larger, Listed, Precedes
<1>6. \A i \in Instruments : Steady(i) => i \in Listed /\ book.held[i] \in call.seen[i]
  <2> SUFFICES ASSUME NEW i \in Instruments, Steady(i)
               PROVE  i \in Listed /\ book.held[i] \in call.seen[i]
    OBVIOUS
  <2>1. book.held[i] \in call.seen[i]
    BY <1>2 DEF PagesInv
  <2>2. book.held[i] # 0
    BY <2>1 DEF Steady
  <2> QED BY <1>4, <2>1, <2>2 DEF Listed
<1>7. \A i \in Instruments : Steady(i) /\ Place(i) < call.offset + PageSize =>
                           i \in DOMAIN sizes /\ sizes[i] \in call.seen[i]
  <2> SUFFICES ASSUME NEW i \in Instruments, Steady(i), Place(i) < call.offset + PageSize
               PROVE  i \in DOMAIN sizes /\ sizes[i] \in call.seen[i]
    OBVIOUS
  <2>1. CASE i \in Page
    BY <1>6, <2>1 DEF SizesWith
  <2>2. CASE i \notin Page
    <3>1. Place(i) < call.offset
      BY <1>3, <1>4, <1>6, <2>2 DEF Page
    <3>2. i \in DOMAIN call.sizes /\ call.sizes[i] \in call.seen[i]
      BY <1>2, <3>1 DEF PagesInv, SizeRead
    <3> QED BY <2>2, <3>2 DEF SizesWith
  <2> QED BY <2>1, <2>2
<1>8. LastPage => \A i \in Instruments : Steady(i) /\ Place(i) <= MaxOffset => Place(i) < call.offset + PageSize
  <2> SUFFICES ASSUME LastPage, NEW i \in Instruments, Steady(i), Place(i) <= MaxOffset,
                      ~(Place(i) < call.offset + PageSize)
               PROVE  FALSE
    OBVIOUS
  <2>1. Place(i) >= call.offset + PageSize
    BY <1>3, <1>4
  <2>2. Cardinality(Page) \in Nat /\ Cardinality(Page) >= PageSize
    BY <1>3, <1>4, <1>6, <2>1, FullPage
  <2>3. ~(call.offset + PageSize > MaxOffset)
    BY <1>3, <1>4, <2>1
  <2> QED BY <1>3, <2>2, <2>3 DEF LastPage
<1> HIDE DEF sizes
<1>9. (\A i \in Instruments : book.held[i] \in call.seen[i])'
  BY <1>1, <1>2 DEF PagesInv
<1>10. (\A i \in Instruments : Steady(i) /\ Place(i) < call.offset => SizeRead(i))'
  BY <1>1, <1>5, <1>7 DEF Steady, SizeRead
<1>11. PositionsFetched'
  <2> SUFFICES ASSUME Done("data positions")', NEW i \in (DOMAIN call.quantities)', i \notin call.rose',
                      (0 \notin call.seen[i] /\ Place(i) <= MaxOffset)'
               PROVE  (call.quantities[i] \in call.seen[i])'
    BY DEF PositionsFetched
  <2>1. i \in call.todo /\ i \in Instruments /\ LastPage
    BY <1>1, <1>2 DEF Done
  <2>2. Steady(i) /\ Place(i) <= MaxOffset
    BY <1>1, <1>5, <2>1 DEF Steady
  <2>3. i \in DOMAIN sizes /\ sizes[i] \in call.seen[i]
    BY <1>7, <1>8, <2>1, <2>2
  <2> QED BY <1>1, <2>1, <2>3
<1>12. ~(~OfOrders /\ call.pc = "idle")'
  BY <1>1
<1> QED BY <1>9, <1>10, <1>11, <1>12 DEF PagesInv

LEMMA MoveKeepsPages ==
  ASSUME Inv, PagesInv, NEW i \in Instruments, NEW held \in 0 .. MaxHeld, Move(i, held)
  PROVE  PagesInv'
<1>1. /\ call'.seen = [call.seen EXCEPT ![i] = @ \union {held}]
      /\ call'.rose = call.rose \union {j \in Instruments : ~(Larger(j) \subseteq Larger(j)')}
      /\ call'.job = call.job /\ call'.pc = call.pc /\ call'.offset = call.offset
      /\ call'.sizes = call.sizes
  BY DEF Move, Go, Inv, ReportTypesOK, CallOK, Fields
<1>2. ~OfOrders /\ call.pc # "done" /\ book'.held = [book.held EXCEPT ![i] = held]
  BY DEF Move, Ended, Inv, ReportTypesOK, BookOK
<1>3. book.held \in [Instruments -> Nat] /\ call.seen \in [Instruments -> SUBSET Nat]
  BY DEF Inv, ReportTypesOK, BookOK, CallOK
<1>4. \A j \in Instruments : call.seen[j] \subseteq call'.seen[j] /\ (j = i => held \in call'.seen[j])
  BY <1>1, <1>3
<1>5. ~OfOrders' /\ (call'.pc # "idle" => \A j \in Instruments : book'.held[j] \in call'.seen[j])
  <2> SUFFICES ASSUME call'.pc # "idle", NEW j \in Instruments
               PROVE  book'.held[j] \in call'.seen[j]
    BY <1>1, <1>2 DEF OfOrders
  <2>1. book.held[j] \in call.seen[j]
    BY <1>1, <1>2 DEF PagesInv
  <2> QED BY <1>2, <1>3, <1>4, <2>1
<1>f. \A j \in Instruments : /\ IsFiniteSet(Larger(j)') /\ Place(j)' \in Nat
                              /\ IsFiniteSet(Larger(j)) /\ Place(j) \in Nat
  <2> TAKE j \in Instruments
  <2>1. Larger(j) \in SUBSET Instruments /\ Larger(j)' \in SUBSET Instruments
    BY DEF Larger, Listed
  <2>2. IsFiniteSet(Larger(j)) /\ IsFiniteSet(Larger(j)')
    BY <2>1, ReportsAssumption, FS_Subset
  <2> QED BY <2>2, FS_CardinalityType DEF Place
<1>6. call'.pc = "page" => \A j \in Instruments : Steady(j)' /\ Place(j)' < call'.offset => SizeRead(j)'
  <2> SUFFICES ASSUME call'.pc = "page", NEW j \in Instruments, Steady(j)', Place(j)' < call'.offset
               PROVE  SizeRead(j)'
    OBVIOUS
  <2>1. Larger(j) \subseteq Larger(j)' /\ j \notin call.rose
    BY <1>1 DEF Steady
  <2>2. Place(j) < call.offset
    <3>1. IsFiniteSet(Larger(j)') /\ Place(j)' \in Nat /\ IsFiniteSet(Larger(j)) /\ Place(j) \in Nat
      BY <1>f
    <3>2. Cardinality(Larger(j)) <= Cardinality(Larger(j)')
      BY <2>1, <3>1, FS_Subset
    <3>3. Place(j) <= Place(j)' /\ call.offset \in Nat
      BY <3>2 DEF Place, Inv, ReportTypesOK, CallOK
    <3> QED BY <1>1, <3>1, <3>3
  <2>3. Steady(j)
    BY <1>4, <2>1 DEF Steady
  <2>4. SizeRead(j)
    BY <1>1, <2>2, <2>3 DEF PagesInv
  <2> QED BY <1>1, <1>4, <2>4 DEF SizeRead
<1>7. call'.pc = "idle" => call'.offset = 0
  BY <1>1, <1>2 DEF PagesInv
<1> QED BY <1>1, <1>2, <1>5, <1>6, <1>7 DEF PagesInv, PositionsFetched, Done

LEMMA BeginKeepsPages ==
  ASSUME Inv, PagesInv, Begin, ~OfOrders
  PROVE  PagesInv'
<1>1. /\ call'.pc \in {"page", "balances"} /\ call'.offset = call.offset
      /\ call'.seen = [i \in Instruments |-> {book.held[i]}]
  <2>1. call.job \in {"data positions", "clob positions"}
    BY ReportsAssumption DEF Inv, ReportTypesOK, CallOK, OfOrders
  <2> QED BY <2>1 DEF Begin, Go, Inv, ReportTypesOK, CallOK, Fields
<1>2. call.offset = 0 /\ book' = book
  BY DEF Begin, PagesInv
<1>3. \A i \in Instruments : Place(i)' = Place(i) /\ Place(i) \in Nat
  <2>1. BookOK
    BY DEF Inv, ReportTypesOK
  <2>2. \A i \in Instruments : Place(i)' = Place(i)
    BY <1>2 DEF Place, Larger, Listed, Precedes
  <2> QED BY <2>1, <2>2, PlaceNumber
<1>4. \A i \in Instruments : ~(Place(i)' < call'.offset)
  BY <1>1, <1>2, <1>3
<1> QED BY <1>1, <1>2, <1>4 DEF PagesInv, PositionsFetched, Done

LEMMA PagesKept ==
  ASSUME Inv, PagesInv, [ReportsNext]_reportVars
  PROVE  PagesInv'
<1>1. call'.job = call.job
  BY JobKept
<1>2. CASE OfOrders
  <2>1. OfOrders' /\ Steps'
    BY <1>1, <1>2, NextKeeps DEF OfOrders, Inv
  <2> QED BY <2>1 DEF PagesInv, PositionsFetched, Done, Steps, OfOrders
<1>3. CASE UNCHANGED reportVars
  BY <1>3 DEF PagesInv, PositionsFetched, Done, Steady, SizeRead, OfOrders, Place, Larger, Listed, Precedes, reportVars
<1>4. ASSUME ~OfOrders, NEW i \in Instruments, BalanceAnswered(i) PROVE PagesInv'
  <2>1. call'.pc \in {"balances", "done"} /\ call'.job = "clob positions" /\ call'.seen = call.seen /\ call.pc # "idle"
    BY <1>1, <1>4 DEF BalanceAnswered, Go, Inv, ReportTypesOK, CallOK, Fields, Steps
  <2>2. book' = book
    BY <1>4 DEF BalanceAnswered
  <2> QED BY <1>4, <2>1, <2>2 DEF PagesInv, PositionsFetched, Done, OfOrders
<1>5. ASSUME ~OfOrders, PositionsFail PROVE PagesInv'
  <2>1. call'.pc = "failed" /\ call'.seen = call.seen /\ call.pc # "idle" /\ book' = book
    BY <1>5 DEF PositionsFail, Go, Inv, ReportTypesOK, CallOK, Fields
  <2> QED BY <1>1, <1>5, <2>1 DEF PagesInv, PositionsFetched, Done, OfOrders
<1>6. ASSUME ~OfOrders, ReportsNext
      PROVE  \/ Begin \/ PositionsPage \/ PositionsFail
             \/ \E i \in Instruments : BalanceAnswered(i) \/ \E held \in 0 .. MaxHeld : Move(i, held)
  <2>1. ~(call.pc \in {"orders", "orders read", "list", "single", "trades", "trades read"})
    BY <1>6 DEF Inv, Steps, OfOrders
  <2> QED BY <1>6, <2>1 DEF ReportsNext, Post, Indexed, Accepted, Closed, Cancel, Trade, OrderAnswered, OrdersRead,
                            OrdersAnswered, OpenListed, HistoryBegun, TradesRead, TradesAnswered
<1> QED BY <1>2, <1>3, <1>4, <1>5, <1>6, PageKeepsPages, MoveKeepsPages, BeginKeepsPages

\* A position that is held while the pages are asked for, and does not go up in their order
\* (_fetch_user_positions), is reported with a quantity it had, however the others change.
THEOREM PagesComplete == ReportsSpec => []PositionsFetched
<1>1. ReportsInit => Inv /\ PagesInv
  <2> SUFFICES ASSUME ReportsInit PROVE PagesInv
    BY InitKeeps
  <2>1. call.pc = "idle" /\ call.offset = 0
    BY DEF ReportsInit
  <2> QED BY <2>1 DEF PagesInv, PositionsFetched, Done
<1>2. (Inv /\ PagesInv) /\ [ReportsNext]_reportVars => (Inv /\ PagesInv)'
  BY NextKeeps, PagesKept
<1>3. Inv /\ PagesInv => PositionsFetched
  BY DEF PagesInv
<1> QED BY <1>1, <1>2, <1>3, PTL DEF ReportsSpec
=============================================================================
