---------------------------- MODULE AdapterRequest ----------------------------
(***************************************************************************)
(* One call of BinanceSpotAdapter: quantizing an order to the filters of   *)
(* its symbol, signing it with a timestamp the venue's clock accepts,      *)
(* sending it, and sending it again (exchange.py).                         *)
(*                                                                         *)
(*   - call: the method, the attempt, where the call is, and what it       *)
(*     raised or returned;                                                 *)
(*   - offset: _time_offset_ms: NoOffset, or whether a request signed with *)
(*     it is within recvWindow; clock: whether one signed with no offset   *)
(*     is;                                                                 *)
(*   - effects: how often the venue has carried the call out;              *)
(*   - order: the quantity and price asked for and those that are sent.    *)
(***************************************************************************)
EXTENDS Naturals

CONSTANTS
    MaxAttempts,              \* _MAX_ATTEMPTS
    Amounts,                  \* quantities and prices that may be asked for
    Filters,                  \* of the venue: records of tick, step, minQty, minNotional
    NoOffset

ASSUME AdapterAssumption ==
    /\ MaxAttempts \in Nat /\ MaxAttempts > 1
    /\ Amounts \subseteq Nat
    /\ Filters \subseteq [tick : Nat, step : Nat, minQty : Nat, minNotional : Nat]
    /\ NoOffset \notin BOOLEAN

VARIABLES call, offset, clock, effects, order

adapterVars == <<call, offset, clock, effects, order>>

Methods == {"GET", "POST", "DELETE"}

(***************************************************************************)
(* limited    418 or 429        server  another transient 5xx              *)
(* stale      -1021             refused any other 4xx                      *)
(* lost       no answer, status None    garbled  200 with a body that is   *)
(* not JSON: a ValueError, which no retry catches                          *)
(***************************************************************************)
Failures == {"limited", "server", "stale", "refused", "lost", "garbled"}

NoCall == [method |-> "GET", attempt |-> 0, at |-> "idle", result |-> "none"]
NoOrder == [qty |-> 0, price |-> 0, filter |-> CHOOSE f \in Filters : TRUE, sentQty |-> 0, sentPrice |-> 0]

AdapterInit ==
    /\ call = NoCall /\ offset = NoOffset /\ clock \in BOOLEAN
    /\ effects = 0 /\ order = NoOrder

RetryableAlways(method, failure) == failure \in {"stale", "limited", "server", "lost"}

(* _retryable: a mutating call is sent again only when the venue is sure not *)
(* to have carried it out.                                                   *)
Retryable(method, failure) ==
    \/ failure = "stale"
    \/ failure = "limited"
    \/ method # "POST" /\ failure \in {"server", "lost"}

QuantizeNearest(value, step) == IF step = 0 THEN value ELSE ((value + step \div 2) \div step) * step

QuantizeDown(value, step) == IF step = 0 THEN value ELSE (value \div step) * step

-----------------------------------------------------------------------------

(* quantize_order and _limit_order up to the request; an order too small    *)
(* for the filters raises before it is sent.                                *)
PostOrder ==
    /\ call.at = "idle"
    /\ \E qty \in Amounts, price \in Amounts, f \in Filters :
         LET q == QuantizeDown(qty, f.step)
             p == QuantizeDown(price, f.tick)
         IN  /\ q > 0 /\ p > 0 /\ q >= f.minQty /\ p * q >= f.minNotional
             /\ order' = [qty |-> qty, price |-> price, filter |-> f, sentQty |-> q, sentPrice |-> p]
    /\ call' = [NoCall EXCEPT !.method = "POST", !.at = "clock"]
    /\ effects' = 0
    /\ UNCHANGED <<offset, clock>>

(* A signed read or a cancel of an order.                                   *)
OtherCall ==
    /\ call.at = "idle"
    /\ \E method \in {"GET", "DELETE"} : call' = [NoCall EXCEPT !.method = method, !.at = "clock"]
    /\ effects' = 0
    /\ UNCHANGED <<offset, clock, order>>

(* _sync_server_time: the first time, and after a -1021; it may fail.       *)
Sync == offset' \in {TRUE, offset} /\ call' = [call EXCEPT !.at = "send"]

SyncsClock ==
    /\ \/ call.at = "clock" /\ offset # NoOffset /\ UNCHANGED offset /\ call' = [call EXCEPT !.at = "send"]
       \/ call.at = "clock" /\ offset = NoOffset /\ Sync
       \/ call.at = "resync" /\ Sync
    /\ UNCHANGED <<clock, effects, order>>

InWindow == IF offset = NoOffset THEN clock ELSE offset

(* What the venue does with a request it accepts: an order is placed, a     *)
(* cancel works once, a read has no effect.                                 *)
Effect == IF call.method = "GET" \/ (call.method = "DELETE" /\ effects > 0) THEN effects ELSE effects + 1

FailedLate(failure) ==
    call' = IF call.attempt = MaxAttempts \/ failure = "garbled" \/ ~Retryable(call.method, failure)
              THEN [call EXCEPT !.at = "done", !.result = failure]
              ELSE [call EXCEPT !.attempt = @ + 1, !.at = IF failure = "stale" THEN "resync" ELSE "send"]

(* A failure raises at the last attempt or when it may not be retried.      *)
Failed(failure) ==
    call' = IF call.attempt + 1 = MaxAttempts \/ failure = "garbled" \/ ~Retryable(call.method, failure)
              THEN [call EXCEPT !.at = "done", !.result = failure]
              ELSE [call EXCEPT !.attempt = @ + 1, !.at = IF failure = "stale" THEN "resync" ELSE "send"]

Answered ==
    /\ InWindow /\ effects' = Effect
    /\ IF call.method = "DELETE" /\ effects > 0
         THEN Failed("refused")           \* -2011: an earlier attempt cancelled it
         ELSE call' = [call EXCEPT !.at = "done", !.result = "ok"]

(* The answer does not arrive, and the request may have or have not.        *)
Doubtful ==
    /\ \E failure \in {"server", "lost"} : Failed(failure)
    /\ effects' \in {effects, IF InWindow THEN Effect ELSE effects}

Garbled == InWindow /\ effects' = Effect /\ Failed("garbled")

Declined ==
    /\ \E failure \in {"limited"} \cup (IF InWindow THEN {"refused"} ELSE {"stale"}) : Failed(failure)
    /\ UNCHANGED effects

Sends ==
    /\ call.at = "send"
    /\ Answered \/ Doubtful \/ Garbled \/ Declined
    /\ UNCHANGED <<offset, clock, order>>

Returns ==
    /\ call.at = "done"
    /\ call' = NoCall /\ order' = NoOrder /\ effects' = 0
    /\ UNCHANGED <<offset, clock>>

(* Between two calls the local clock drifts out of the window, or is set.   *)
ClockMoves ==
    /\ call.at = "idle"
    /\ clock' \in BOOLEAN /\ offset' \in IF offset = NoOffset THEN {NoOffset} ELSE BOOLEAN
    /\ UNCHANGED <<call, effects, order>>

AdapterNext == PostOrder \/ OtherCall \/ SyncsClock \/ Sends \/ Returns \/ ClockMoves

AdapterSpec == AdapterInit /\ [][AdapterNext]_adapterVars

-----------------------------------------------------------------------------

AdapterTypeOK ==
    /\ call \in [method : Methods, attempt : 0..(MaxAttempts - 1), at : {"idle", "clock", "resync", "send", "done"},
                 result : {"none", "ok"} \cup Failures]
    /\ offset \in BOOLEAN \cup {NoOffset} /\ clock \in BOOLEAN
    /\ effects \in Nat
    /\ order \in [qty : Nat, price : Nat, filter : Filters, sentQty : Nat, sentPrice : Nat]

(***************************************************************************)
(* An order is placed at most once however often it is sent, and one that  *)
(* ends in a refusal has not been placed at all.                           *)
(***************************************************************************)
PlacedAtMostOnce ==
    call.method = "POST" =>
        /\ effects <= 1
        /\ call.result \in {"limited", "stale", "refused"} => effects = 0

(***************************************************************************)
(* What is sent passes the filters of the symbol and asks for no more than *)
(* what was asked.                                                         *)
(***************************************************************************)
SentPassesFilters ==
    LET f == order.filter
    IN  call.method = "POST" =>
          /\ f.step > 0 => order.sentQty % f.step = 0
          /\ f.tick > 0 => order.sentPrice % f.tick = 0
          /\ order.sentQty >= f.minQty /\ order.sentQty * order.sentPrice >= f.minNotional
          /\ order.sentQty * order.sentPrice <= order.qty * order.price

=============================================================================
