--------------------------- MODULE PolymarketExec ---------------------------
(***************************************************************************)
(* The Polymarket live execution client                                    *)
(* (adapters/polymarket/execution.py).                                     *)
(*                                                                         *)
(* The client is a set of coroutines on one asyncio loop.  Orders are      *)
(* posted over HTTP; the venue reports order and trade events on a         *)
(* websocket, and it may report them before the HTTP answer that tells the *)
(* client which venue order id its order received.  Each websocket event   *)
(* therefore becomes a task which waits, for at most ack_timeout_secs, on  *)
(* an asyncio.Event that the HTTP answer sets.                             *)
(*                                                                         *)
(* The loop is modelled as it is: "ready" is its FIFO queue of callbacks,  *)
(* every client step runs the callback at its head, and the network, the   *)
(* timers and the wake-ups append to its tail.                             *)
(*                                                                         *)
(* The venue and the trading engine (nautilus_trader) are not under src/:  *)
(* they are modelled from how this client uses them.  The engine applies   *)
(* the events it is handed later than they are generated, in order.        *)
(***************************************************************************)
EXTENDS Naturals, Sequences, FiniteSets

CONSTANTS
  Orders,          (* client orders; an order also stands for the venue order id it is given *)
  Trades,          (* the venue's trades                                                     *)
  FilledOrders,    (* trade -> the sequence get_filled_user_order_ids returns                *)
  Qty,             (* order -> number of (unit) fills that fill it completely                *)
  SingleOrders,    (* the orders that may be given to SubmitOrder                            *)
  OrderLists,      (* the lists that may be given to SubmitOrderList                         *)
  VenueStatuses,   (* the statuses the venue announces once a trade is matched               *)
  ProcessedTradesLimit, (* capacity of the three dedup caches                                *)
  MaxResends,      (* bound on the statuses the venue announces again                        *)
  Faults           (* what may go wrong, a subset of FaultKinds                              *)

FaultKinds == {"timeout", "no_response", "raise"}

ASSUME ConstantsAssumption ==
  /\ FilledOrders \in [Trades -> Seq(Orders)]
  /\ Qty \in [Orders -> Nat]
  /\ SingleOrders \subseteq Orders
  /\ OrderLists \subseteq {l \in Seq(Orders) : \A i, j \in DOMAIN l : l[i] = l[j] => i = j}
  /\ ProcessedTradesLimit \in Nat \ {0}
  /\ MaxResends \in Nat
  /\ Faults \subseteq FaultKinds

OrderMsgTypes == {"PLACEMENT", "CANCELLATION"}
FinalizedTradeStatuses == {"MINED", "CONFIRMED"}
TradeStatuses == {"MATCHED", "RETRYING", "FAILED"} \union FinalizedTradeStatuses
OrderStatuses == {"INITIALIZED", "DENIED", "SUBMITTED", "REJECTED", "ACCEPTED",
                  "PARTIALLY_FILLED", "CANCELED", "FILLED"}
ClosedStatuses == {"DENIED", "REJECTED", "CANCELED", "FILLED"}
Results == {"missing", "ok", "fail", "raise"}
EventTypes == {"Denied", "Submitted", "Rejected", "Accepted", "Canceled", "CancelRejected"}

OrdersOf(t) == {FilledOrders[t][i] : i \in DOMAIN FilledOrders[t]}
Fills == {f \in Trades \X Orders : f[2] \in OrdersOf(f[1])}

\* A websocket message, and the task that handles it for one order.
OrderTask == [kind: {"order"}, o: Orders, typ: OrderMsgTypes]
TradeTask == {task \in [kind: {"trade"}, o: Orders, t: Trades, s: TradeStatuses] :
                <<task.t, task.o>> \in Fills}
Task == OrderTask \union TradeTask
Message == OrderTask \union [kind: {"trade"}, t: Trades, s: TradeStatuses]
Kinds == {"order", "trade"}
Waiter == [task: Task, attached: BOOLEAN]

\* What the engine is handed.
EngineEvent == [e: EventTypes, o: Orders] \union [e: {"Filled"}, o: Orders, t: Trades]

\* An answer being worked through: the posted orders, and those left with their results.
Answer == {a \in [run: {"answer"}, all: Seq(Orders), rest: Seq(Orders), results: Seq(Results)] :
             Len(a.rest) = Len(a.results)}

\* What the loop can have in its queue.
Callback ==
  [run: {"ws"}, msg: Message] \union [run: {"start", "resume"}, task: Task]
    \union [run: {"engine"}] \union Answer

VARIABLES
  (* commands *)
  sent,            (* orders whose submit command was handled                          *)
  posts,           (* order sequences posted together and not answered yet             *)
  batched,         (* orders posted by _post_signed_orders_batch                       *)
  told,            (* what the answer to its post says of an order (history)           *)
  cancelling,      (* orders with a cancel request in flight                           *)
  cancelled,       (* orders a cancel command was sent for (bounds the cancels)        *)
  (* the client's caches *)
  acked,           (* orders in the cache's venue-order-id index                       *)
  waiting,         (* tasks awaiting an ack event, the longest waiting first: attached *)
                   (* when the event is the one in _ack_events_order/_ack_events_trade *)
  processedFills,  (* _processed_fills, oldest first                                   *)
  processedTrades, (* _processed_trades as (trade, status) pairs, oldest first         *)
  finalizedTrades, (* _finalized_trades, oldest first                                  *)
  (* the loop and the engine *)
  ready, evtq, status, tradeIds,
  (* the venue *)
  venue, tradeStatus, wire, resends,
  (* history, read by properties only *)
  handed,          (* fill -> how often it was given to the engine                     *)
  skippedClosed,   (* fills whose message was skipped because the order was closed     *)
  refreshed,       (* trades for which an account refresh was scheduled                *)
  suppressed       (* orders whose cancel answer was suppressed, awaiting the websocket *)

commandVars == <<sent, posts, batched, told, cancelling, cancelled>>
dedupVars   == <<processedFills, processedTrades, finalizedTrades>>
ackVars     == <<acked, waiting>>
engineVars  == <<status, tradeIds>>
venueVars   == <<venue, tradeStatus, wire, resends>>
historyVars == <<handed, skippedClosed, refreshed, suppressed>>
vars == <<commandVars, dedupVars, ackVars, ready, evtq, engineVars, venueVars, historyVars>>

Init ==
  /\ sent = {} /\ posts = {} /\ batched = {} /\ cancelling = {} /\ cancelled = {}
  /\ told = [o \in Orders |-> "none"]
  /\ acked = {}
  /\ waiting = <<>>
  /\ processedFills = <<>> /\ processedTrades = <<>> /\ finalizedTrades = <<>>
  /\ ready = <<>> /\ evtq = <<>>
  /\ status = [o \in Orders |-> "INITIALIZED"]
  /\ tradeIds = [o \in Orders |-> {}]
  /\ venue = [o \in Orders |-> "absent"]
  /\ tradeStatus = [t \in Trades |-> "none"]
  /\ wire = <<>> /\ resends = 0
  /\ handed = [f \in Fills |-> 0]
  /\ skippedClosed = {} /\ refreshed = {} /\ suppressed = {}

-----------------------------------------------------------------------------
(* Ordered dictionaries and the loop's queue                               *)

InSeq(s, x) == \E i \in DOMAIN s : s[i] = x
RemoveIndex(s, i) == SubSeq(s, 1, i - 1) \o SubSeq(s, i + 1, Len(s))

\* _truncate_ordered_dict: every caller adds one entry, so one is dropped at most.
Truncate(s) == IF Len(s) > ProcessedTradesLimit THEN Tail(s) ELSE s

\* The places of a sequence that hold x, and the entry of a trade in processedTrades.
Places(s, x) == {i \in DOMAIN s : s[i] = x}
Entry(t) == {i \in DOMAIN processedTrades : processedTrades[i][1] = t}

\* Drop the entry at the places I (one at most, or none).
Drop(s, I) == IF I = {} THEN s ELSE RemoveIndex(s, CHOOSE i \in I : TRUE)

\* Insert under a key and move_to_end: the entry with the same key, at I, is replaced.
Touch(s, x, I) == Truncate(Append(Drop(s, I), x))

\* generate_order_*: the event is queued, and the engine's consumer is scheduled
\* behind "queue" unless it is scheduled already.
Generate(queue, events) ==
  /\ evtq' = evtq \o events
  /\ ready' = IF evtq = <<>> /\ events # <<>>
                THEN Append(queue, [run |-> "engine"]) ELSE queue

Event(e, o) == [e |-> e, o |-> o]
Running(what) == ready # <<>> /\ Head(ready).run = what

-----------------------------------------------------------------------------
(* Commands                                                                *)

\* _submit_order: denied by a validation, or signed and posted; when signing
\* raises, the coroutine ends and nothing is generated.
SubmitOrder(o) ==
  /\ o \in SingleOrders \ sent
  /\ sent' = sent \union {o}
  /\ \/ /\ Generate(ready, <<Event("Denied", o)>>)
        /\ UNCHANGED posts
     \/ UNCHANGED <<posts, ready, evtq>>
     \/ /\ Generate(ready, <<Event("Submitted", o)>>)
        /\ posts' = posts \union {<<o>>}
  /\ UNCHANGED <<batched, told, cancelling, cancelled, ackVars, dedupVars, engineVars, venueVars, historyVars>>

\* _submit_order_list: the first m orders are denied by the validation, the next n
\* fail to sign and are rejected, the others are posted together.
SubmitOrderList(l) ==
  /\ \A i \in DOMAIN l : l[i] \notin sent
  /\ sent' = sent \union {l[i] : i \in DOMAIN l}
  /\ \E m \in 0..Len(l), n \in 0..Len(l) :
       /\ m + n <= Len(l)
       /\ Generate(ready, [i \in 1..Len(l) |->
                             Event(IF i <= m THEN "Denied"
                                   ELSE IF i <= m + n THEN "Rejected" ELSE "Submitted", l[i])])
       /\ posts' = IF m + n = Len(l) THEN posts
                   ELSE posts \union {SubSeq(l, m + n + 1, Len(l))}
  /\ batched' = batched \union {l[i] : i \in DOMAIN l}
  /\ UNCHANGED <<told, cancelling, cancelled, ackVars, dedupVars, engineVars, venueVars, historyVars>>

UncoveredDropped(p, n) == <<>>

\* The orders of a post that an answer with n results does not cover.
Uncovered(p, n) == SubSeq(p, n + 1, Len(p))

\* The callback that works through an answer with n results, the uncovered orders first.
AnswerTo(p, n, results) ==
  [run |-> "answer", all |-> p, rest |-> Uncovered(p, n) \o SubSeq(p, 1, n),
   results |-> [i \in DOMAIN Uncovered(p, n) |-> "missing"] \o results]

\* What an answer with these results says of the i-th order of a post: an exception over one
\* result is an exception over all of them.
Tells(results, i) ==
  IF \E j \in DOMAIN results : results[j] = "raise" THEN "raise"
  ELSE IF i \in DOMAIN results THEN results[i] ELSE "missing"

\* The HTTP answer to a post reaches the loop.  Without faults every order is covered and its
\* result says what the venue did; a lost answer covers none, and a malformed result raises
\* when it is read, whatever the venue did.
Respond(p) ==
  /\ p \in posts
  /\ posts' = posts \ {p}
  /\ \E n \in (IF "no_response" \in Faults THEN 0 ELSE Len(p))..Len(p) :
     \E results \in [1..n -> {"ok", "fail", "raise"}] :
       /\ \A i \in 1..n :
            /\ results[i] = "ok" => venue[p[i]] # "absent"
            /\ results[i] = "fail" => venue[p[i]] = "absent"
            /\ results[i] = "raise" => "raise" \in Faults
       /\ told' = [o \in Orders |-> IF InSeq(p, o)
                                      THEN Tells(results, CHOOSE i \in DOMAIN p : p[i] = o)
                                      ELSE told[o]]
       /\ ready' = Append(ready, AnswerTo(p, n, results))
  /\ UNCHANGED <<sent, batched, cancelling, cancelled, ackVars, dedupVars, evtq, engineVars, venueVars,
                 historyVars>>

\* The tasks waiting on the event that the dict of this kind holds for an order.
Attached(k, o) == {i \in DOMAIN waiting : /\ waiting[i].attached
                                          /\ waiting[i].task.kind = k /\ waiting[i].task.o = o}

\* event.set(): the waiters of the order event, then those of the trade event, oldest first.
Wake(o) ==
  LET I == IF Attached("order", o) # {} THEN Attached("order", o) ELSE Attached("trade", o)
  IN \E i \in I :
       /\ \A j \in I : i <= j
       /\ ready' = Append(ready, [run |-> "resume", task |-> waiting[i].task])
       /\ waiting' = RemoveIndex(waiting, i)

\* The next order of the answer, with the next result.
NextResult(a) == [a EXCEPT !.rest = Tail(@), !.results = Tail(@)]

\* _reject_all_orders, once processing the answer has raised.
RejectAll(a) == [a EXCEPT !.rest = a.all, !.results = [i \in DOMAIN a.all |-> "missing"]]

\* _post_signed_order, _process_batch_response: one order of the answer at a time,
\* the callback staying at the head of the loop until the answer is used up.
RunAnswer ==
  /\ Running("answer")
  /\ LET a      == Head(ready)
         o      == Head(a.rest)
         result == Head(a.results)
     IN \/ /\ a.rest = <<>>
           /\ ready' = Tail(ready)
           /\ UNCHANGED <<ackVars, evtq>>
        \/ \* rejected, or not covered by the answer
           /\ a.rest # <<>> /\ result \in {"missing", "fail"}
           /\ Generate(<<NextResult(a)>> \o Tail(ready), <<Event("Rejected", o)>>)
           /\ UNCHANGED ackVars
        \/ \* accepted: index the venue order id, then signal the waiters
           /\ a.rest # <<>> /\ result = "ok" /\ o \notin acked
           /\ acked' = acked \union {o}
           /\ UNCHANGED <<waiting, ready, evtq>>
        \/ /\ a.rest # <<>> /\ result = "ok" /\ o \in acked
           /\ Wake(o)
           /\ UNCHANGED <<acked, evtq>>
        \/ /\ a.rest # <<>> /\ result = "ok" /\ o \in acked
           /\ \A k \in Kinds : Attached(k, o) = {}
           /\ ready' = <<NextResult(a)>> \o Tail(ready)
           /\ UNCHANGED <<ackVars, evtq>>
        \/ \* an exception, caught in a batch only: an order posted alone hears nothing
           /\ a.rest # <<>> /\ result = "raise"
           /\ ready' = <<IF o \in batched THEN RejectAll(a) ELSE NextResult(a)>> \o Tail(ready)
           /\ UNCHANGED <<ackVars, evtq>>
  /\ UNCHANGED <<commandVars, dedupVars, engineVars, venueVars, historyVars>>

\* _cancel_order and the batch and strategy-wide cancels, for one order: only an open
\* order whose venue order id the engine knows is sent.
CancelOrder(o) ==
  /\ o \notin cancelled
  /\ status[o] \in {"ACCEPTED", "PARTIALLY_FILLED"}
  /\ cancelling' = cancelling \union {o}
  /\ cancelled' = cancelled \union {o}
  /\ UNCHANGED <<sent, posts, batched, told, ackVars, dedupVars, ready, evtq, engineVars, venueVars, historyVars>>

\* The venue takes the order out of its book and says so on the websocket.
VenueCancels(o) ==
  /\ venue[o] = "live"
  /\ venue' = [venue EXCEPT ![o] = "gone"]
  /\ wire' = Append(wire, [kind |-> "order", o |-> o, typ |-> "CANCELLATION"])
  /\ UNCHANGED <<tradeStatus, resends>>

\* The rest of _cancel_order, and _generate_cancel_event: no event for an order that was
\* canceled or is already gone at the venue, a CancelRejected when the call failed.
CancelAnswered(o) ==
  /\ o \in cancelling
  /\ cancelling' = cancelling \ {o}
  /\ \/ /\ VenueCancels(o)
        /\ UNCHANGED <<ready, evtq, suppressed>>
     \/ /\ venue[o] = "gone"
        /\ suppressed' = suppressed \union {o}
        /\ UNCHANGED <<ready, evtq, venueVars>>
     \/ /\ "no_response" \in Faults
        /\ Generate(ready, <<Event("CancelRejected", o)>>)
        /\ VenueCancels(o) \/ UNCHANGED venueVars
        /\ UNCHANGED suppressed
  /\ UNCHANGED <<sent, posts, batched, told, cancelled, ackVars, dedupVars, engineVars,
                 handed, skippedClosed, refreshed>>

\* _cancel_all_global, _cancel_market_orders: no local state changes, the outcome comes
\* back on the websocket.  A fill-and-kill remainder or an expiry looks the same.
FireAndForgetCancel(o) ==
  /\ VenueCancels(o)
  /\ UNCHANGED <<commandVars, ackVars, dedupVars, ready, evtq, engineVars, historyVars>>

-----------------------------------------------------------------------------
(* Websocket messages                                                      *)

\* A message reaches the loop.
Deliver ==
  /\ wire # <<>>
  /\ ready' = Append(ready, [run |-> "ws", msg |-> Head(wire)])
  /\ wire' = Tail(wire)
  /\ UNCHANGED <<commandVars, ackVars, dedupVars, evtq, engineVars, venue, tradeStatus, resends,
                 historyVars>>

IsFinal(s) == s \in FinalizedTradeStatuses

\* _record_processed_trade
RecordProcessedTrade(t, s) ==
  IF IsFinal(s)
    THEN /\ finalizedTrades' = Touch(finalizedTrades, t, Places(finalizedTrades, t))
         /\ processedTrades' = Drop(processedTrades, Entry(t))
    ELSE /\ processedTrades' = Touch(processedTrades, <<t, s>>, Entry(t))
         /\ UNCHANGED finalizedTrades

\* Mutant of RecordProcessedFill: forgotten.
RecordNoFill(f) == UNCHANGED processedFills

\* _record_processed_fill
RecordProcessedFill(f) == processedFills' = Touch(processedFills, f, Places(processedFills, f))

\* The messages _handle_ws_trade_msg returns from at once.
Ignored(m) == m.s \in {"RETRYING", "FAILED"} \/ InSeq(finalizedTrades, m.t)

\* The final status of a trade whose fills were processed under an earlier one.
Finalizes(m) ==
  /\ IsFinal(m.s)
  /\ \E i \in Entry(m.t) : ~IsFinal(processedTrades[i][2])

\* _handle_ws_trade_msg with wait_for_ack: ignored, taken as the final status of a trade
\* seen before, or turned into one waiting task per order of ours it fills.
TradeMessage(m, queue) ==
  \/ /\ Ignored(m)
     /\ ready' = queue
     /\ UNCHANGED <<dedupVars, refreshed>>
  \/ /\ ~Ignored(m) /\ Finalizes(m)
     /\ RecordProcessedTrade(m.t, m.s)
     /\ refreshed' = refreshed \union {m.t}
     /\ ready' = queue
     /\ UNCHANGED processedFills
  \/ /\ ~Ignored(m) /\ ~Finalizes(m)
     /\ ready' = queue \o [i \in DOMAIN FilledOrders[m.t] |->
                             [run  |-> "start",
                              task |-> [kind |-> "trade", o |-> FilledOrders[m.t][i],
                                        t |-> m.t, s |-> m.s]]]
     /\ UNCHANGED <<dedupVars, refreshed>>

\* _handle_ws_message
RunMessage ==
  /\ Running("ws")
  /\ LET m == Head(ready).msg
     IN \/ /\ m.kind = "order"
           /\ ready' = Append(Tail(ready), [run |-> "start", task |-> m])
           /\ UNCHANGED <<dedupVars, refreshed>>
        \/ /\ m.kind = "trade"
           /\ TradeMessage(m, Tail(ready))
  /\ UNCHANGED <<commandVars, ackVars, evtq, engineVars, venueVars, handed, skippedClosed, suppressed>>

\* Mutant of OrderMsgSkipped: only an accepted order can be canceled.
OrderMsgSkippedUnlessAccepted(task) ==
  \/ task.typ = "PLACEMENT" /\ status[task.o] # "SUBMITTED"
  \/ task.typ = "CANCELLATION" /\ status[task.o] # "ACCEPTED"

\* The order event repeats what the engine already holds.
OrderMsgSkipped(task) ==
  \/ task.typ = "PLACEMENT" /\ status[task.o] # "SUBMITTED"
  \/ task.typ = "CANCELLATION" /\ status[task.o] = "CANCELED"

\* _handle_ws_order_msg without waiting: a report when the order is not ours (yet).
OrderUpdate(task, queue) ==
  /\ Generate(queue,
       IF task.o \notin acked \/ OrderMsgSkipped(task) THEN <<>>
       ELSE <<Event(IF task.typ = "PLACEMENT" THEN "Accepted" ELSE "Canceled", task.o)>>)
  /\ UNCHANGED <<dedupVars, handed, skippedClosed, refreshed>>

\* Mutants of FillKnown and IsClosed: a fill is known per trade status; an order with a
\* fill is taken for closed.
FillKnownPerStatus(task) ==
  /\ InSeq(processedFills, <<task.t, task.o>>)
  /\ InSeq(processedTrades, <<task.t, task.s>>)
IsClosedEarly(o) == status[o] \notin {"SUBMITTED", "ACCEPTED"}

FillKnown(task) == InSeq(processedFills, <<task.t, task.o>>)
IsClosed(o) == status[o] \in ClosedStatuses

\* _handle_user_trade_in_ws_trade_msg without waiting.
TradeFill(task, queue) ==
  LET f        == <<task.t, task.o>>
      known    == FillKnown(task)
      reported == task.o \notin acked
      applied  == task.t \in tradeIds[task.o]
      closed   == IsClosed(task.o)
      hand     == /\ handed' = [handed EXCEPT ![f] = @ + 1]
                  /\ RecordProcessedFill(f)
                  /\ RecordProcessedTrade(task.t, task.s)
  IN \/ /\ known \/ (~reported /\ applied)
        /\ ready' = queue
        /\ UNCHANGED <<dedupVars, evtq, handed, skippedClosed, refreshed>>
     \/ \* a fill report: the order is not ours (yet)
        /\ ~known /\ reported
        /\ hand
        /\ ready' = queue
        /\ UNCHANGED <<evtq, skippedClosed, refreshed>>
     \/ \* already closed
        /\ ~known /\ ~reported /\ ~applied /\ closed
        /\ skippedClosed' = skippedClosed \union {f}
        /\ ready' = queue
        /\ UNCHANGED <<dedupVars, evtq, handed, refreshed>>
     \/ \* a fill event, and an account refresh when the trade is on chain
        /\ ~known /\ ~reported /\ ~applied /\ ~closed
        /\ hand
        /\ Generate(queue, <<[e |-> "Filled", o |-> task.o, t |-> task.t]>>)
        /\ refreshed' = IF IsFinal(task.s) THEN refreshed \union {task.t} ELSE refreshed
        /\ UNCHANGED skippedClosed

Handle(task, queue) ==
  IF task.kind = "order" THEN OrderUpdate(task, queue) ELSE TradeFill(task, queue)

\* Mutant of RunStart: the index is not consulted before waiting.
RunStartUnchecked ==
  /\ Running("start")
  /\ waiting' = Append(waiting, [task |-> Head(ready).task, attached |-> TRUE])
  /\ ready' = Tail(ready)
  /\ UNCHANGED <<commandVars, acked, evtq, dedupVars, engineVars, venueVars, historyVars>>

\* _wait_for_ack_order, _wait_for_ack_trade up to the wait: handled at once when the order
\* is acknowledged, otherwise added to the waiters of the event in the dict.
RunStart ==
  /\ Running("start")
  /\ LET task == Head(ready).task
     IN \/ /\ task.o \in acked
           /\ Handle(task, Tail(ready))
           /\ UNCHANGED waiting
        \/ /\ task.o \notin acked
           /\ waiting' = Append(waiting, [task |-> task, attached |-> TRUE])
           /\ ready' = Tail(ready)
           /\ UNCHANGED <<evtq, dedupVars, handed, skippedClosed, refreshed>>
  /\ UNCHANGED <<commandVars, acked, engineVars, venueVars, suppressed>>

\* ... and after it: the dict entry is popped, whichever event it holds by now, and the
\* message is handled.  Waiters that share the popped event are left without a waker.
RunResume ==
  /\ Running("resume")
  /\ LET task == Head(ready).task
     IN /\ waiting' = [i \in DOMAIN waiting |->
                         IF i \in Attached(task.kind, task.o)
                           THEN [waiting[i] EXCEPT !.attached = FALSE] ELSE waiting[i]]
        /\ Handle(task, Tail(ready))
  /\ UNCHANGED <<commandVars, acked, engineVars, venueVars, suppressed>>

\* wait_for gives up: every wait has the same timeout, so the longest waiting goes first.
AckTimeout ==
  /\ "timeout" \in Faults
  /\ waiting # <<>>
  /\ waiting' = Tail(waiting)
  /\ ready' = Append(ready, [run |-> "resume", task |-> Head(waiting).task])
  /\ UNCHANGED <<commandVars, acked, dedupVars, evtq, engineVars, venueVars, historyVars>>

-----------------------------------------------------------------------------
(* The engine (external): it applies one queued event after the other and   *)
(* yields only when the queue is empty.  An event its state machine refuses *)
(* is ignored; a fill of a canceled order is accepted.                      *)

FillStatus(o, ids) ==
  IF Cardinality(ids) >= Qty[o] THEN "FILLED"
  ELSE IF status[o] = "CANCELED" THEN "CANCELED" ELSE "PARTIALLY_FILLED"

Target(e) ==
  CASE e = "Submitted" -> "SUBMITTED"
    [] e = "Denied"    -> "DENIED"
    [] e = "Rejected"  -> "REJECTED"
    [] e = "Accepted"  -> "ACCEPTED"
    [] OTHER           -> "CANCELED"

Legal(e, s) ==
  CASE e \in {"Submitted", "Denied"} -> s = "INITIALIZED"
    [] e = "Rejected" -> s \in {"INITIALIZED", "SUBMITTED", "ACCEPTED"}
    [] e = "Accepted" -> s = "SUBMITTED"
    [] e = "Canceled" -> s \in {"SUBMITTED", "ACCEPTED", "PARTIALLY_FILLED"}
    [] e = "Filled"   -> s \in {"SUBMITTED", "ACCEPTED", "PARTIALLY_FILLED", "CANCELED"}
    [] OTHER          -> FALSE

RunEngine ==
  /\ Running("engine")
  /\ LET ev == Head(evtq)
     IN \/ /\ Legal(ev.e, status[ev.o]) /\ ev.e = "Filled" /\ ev.t \notin tradeIds[ev.o]
           /\ tradeIds' = [tradeIds EXCEPT ![ev.o] = @ \union {ev.t}]
           /\ status' = [status EXCEPT ![ev.o] = FillStatus(ev.o, tradeIds[ev.o] \union {ev.t})]
        \/ /\ Legal(ev.e, status[ev.o]) /\ ev.e # "Filled"
           /\ status' = [status EXCEPT ![ev.o] = Target(ev.e)]
           /\ UNCHANGED tradeIds
        \/ /\ ~Legal(ev.e, status[ev.o]) \/ (ev.e = "Filled" /\ ev.t \in tradeIds[ev.o])
           /\ UNCHANGED engineVars
  /\ evtq' = Tail(evtq)
  /\ ready' = IF Tail(evtq) = <<>> THEN Tail(ready) ELSE ready
  /\ UNCHANGED <<commandVars, ackVars, dedupVars, venueVars, historyVars>>

-----------------------------------------------------------------------------
(* The venue (external)                                                     *)

VenueAccepts(o) ==
  /\ \E p \in posts : InSeq(p, o)
  /\ venue[o] = "absent"
  /\ venue' = [venue EXCEPT ![o] = "live"]
  /\ wire' = Append(wire, [kind |-> "order", o |-> o, typ |-> "PLACEMENT"])
  /\ UNCHANGED <<tradeStatus, resends, commandVars, ackVars, dedupVars, ready, evtq, engineVars, historyVars>>

\* The trades an order took part in at the venue.
VenueFills(o) == {t \in Trades : tradeStatus[t] # "none" /\ o \in OrdersOf(t)}

Announce(t, s) ==
  /\ tradeStatus' = [tradeStatus EXCEPT ![t] = s]
  /\ wire' = Append(wire, [kind |-> "trade", t |-> t, s |-> s])

VenueMatches(t) ==
  /\ tradeStatus[t] = "none"
  /\ \A o \in OrdersOf(t) : venue[o] = "live"
  /\ Announce(t, "MATCHED")
  /\ venue' = [o \in Orders |-> IF /\ o \in OrdersOf(t)
                                   /\ Cardinality(VenueFills(o)) + 1 >= Qty[o]
                                THEN "gone" ELSE venue[o]]
  /\ UNCHANGED <<resends, commandVars, ackVars, dedupVars, ready, evtq, engineVars, historyVars>>

\* A trade settles on chain.
Successors(s) ==
  CASE s = "MATCHED"  -> {"MINED", "RETRYING", "FAILED"}
    [] s = "RETRYING" -> {"MINED", "FAILED"}
    [] s = "MINED"    -> {"CONFIRMED"}
    [] OTHER          -> {}

VenueSettles(t) ==
  /\ \E s \in Successors(tradeStatus[t]) \intersect VenueStatuses : Announce(t, s)
  /\ UNCHANGED <<venue, resends, commandVars, ackVars, dedupVars, ready, evtq, engineVars,
                 historyVars>>

VenueResends(t) ==
  /\ resends < MaxResends
  /\ resends' = resends + 1
  /\ tradeStatus[t] # "none"
  /\ Announce(t, tradeStatus[t])
  /\ UNCHANGED <<venue, commandVars, ackVars, dedupVars, ready, evtq, engineVars, historyVars>>

-----------------------------------------------------------------------------
Run == RunAnswer \/ RunMessage \/ RunStart \/ RunResume \/ RunEngine

Next ==
  \/ \E o \in Orders : SubmitOrder(o) \/ CancelOrder(o) \/ CancelAnswered(o)
                         \/ FireAndForgetCancel(o) \/ VenueAccepts(o)
  \/ \E l \in OrderLists : SubmitOrderList(l)
  \/ \E p \in posts : Respond(p)
  \/ \E t \in Trades : VenueMatches(t) \/ VenueSettles(t) \/ VenueResends(t)
  \/ Deliver \/ AckTimeout
  \/ Run

\* The loop runs its callbacks, the websocket delivers what was sent, a post is answered
\* (its HTTP call returns or fails) and so is a cancel.  Nothing is assumed of the venue
\* or of the strategies.
Fairness ==
  /\ WF_vars(Run) /\ WF_vars(Deliver)
  /\ WF_vars(\E p \in posts : Respond(p))
  /\ WF_vars(\E o \in Orders : CancelAnswered(o))
  /\ WF_vars(AckTimeout)

Spec == Init /\ [][Next]_vars /\ Fairness
-----------------------------------------------------------------------------
(* Properties                                                               *)

CommandsOK ==
  /\ sent \subseteq Orders /\ cancelling \subseteq Orders /\ cancelled \subseteq Orders
  /\ posts \subseteq Seq(Orders) /\ batched \subseteq Orders
  /\ told \in [Orders -> Results \union {"none"}]
AcksOK ==
  /\ acked \subseteq Orders
  /\ waiting \in Seq(Waiter)
DedupOK ==
  /\ processedFills \in Seq(Fills)
  /\ processedTrades \in Seq(Trades \X TradeStatuses)
  /\ finalizedTrades \in Seq(Trades)
LoopOK == ready \in Seq(Callback) /\ evtq \in Seq(EngineEvent)
EngineOK ==
  /\ status \in [Orders -> OrderStatuses]
  /\ tradeIds \in [Orders -> SUBSET Trades]
VenueOK ==
  /\ venue \in [Orders -> {"absent", "live", "gone"}]
  /\ tradeStatus \in [Trades -> TradeStatuses \union {"none"}]
  /\ wire \in Seq(Message) /\ resends \in Nat
HistoryOK ==
  /\ handed \in [Fills -> Nat]
  /\ skippedClosed \subseteq Fills
  /\ refreshed \subseteq Trades /\ suppressed \subseteq Orders

\* The types of the client's caches and queues: in particular a waiting task is about a
\* fill of its trade, and an answer has a result for every order left in it.
TypeOK ==
  CommandsOK /\ AcksOK /\ DedupOK /\ LoopOK /\ EngineOK /\ VenueOK /\ HistoryOK

\* A fill is given to the engine at most once, as an event or as a report, however often
\* its trade is announced, through whichever path, before or after the order is known.
FillHandedOnce == \A f \in Fills : handed[f] <= 1

\* Every waiter can still be woken: no event was popped or replaced under it.
NoWaiterStranded == \A i \in DOMAIN waiting : waiting[i].attached

Quiet == ready = <<>> /\ wire = <<>> /\ waiting = <<>>

\* When nothing is in flight, what the engine holds of an acknowledged order is what
\* happened at the venue: the same fills, and closed exactly when the order is gone.
SettledAgreement ==
  Quiet => \A o \in acked : /\ tradeIds[o] = VenueFills(o)
                            /\ status[o] \in ClosedStatuses <=> venue[o] = "gone"

\* A cancel answer is suppressed because the websocket will deliver the terminal event:
\* it does, and the order closes.
SuppressedCancelCloses ==
  \A o \in Orders : o \in suppressed ~> status[o] \in ClosedStatuses

\* The client implements the fill ledger: a fill is handed over once, and only after
\* the venue has matched its trade.
Ledger == INSTANCE FillLedger
            WITH announced <- {f \in Fills : tradeStatus[f[1]] # "none"}

\* Fills are handed to the engine as FillLedger says, whatever the deliveries, the
\* duplicates and the ack timeouts.
LedgerSpec == Ledger!Spec

\* The answer says that the order was not placed, or nobody knows and it is given up.
TurnedDown(o) == \/ told[o] \in {"fail", "missing"}
                 \/ told[o] = "raise" /\ o \in batched

\* Once every post is answered and nothing is in flight, every posted order is resolved as
\* its answer says: exactly the accepted ones are indexed and were never rejected, exactly
\* those turned down are rejected, and the only order that nobody resolves is one posted
\* alone whose answer could not be read.
PostedOrdersResolved ==
  Quiet /\ posts = {} => \A o \in Orders :
    /\ told[o] = "ok" => o \in acked /\ status[o] # "REJECTED"
    /\ TurnedDown(o) => status[o] = "REJECTED"
    /\ status[o] = "SUBMITTED" => \/ o \in acked /\ told[o] = "ok"
                                  \/ told[o] = "raise" /\ o \notin batched
=============================================================================
