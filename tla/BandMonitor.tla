---------------------------- MODULE BandMonitor ----------------------------
(***************************************************************************)
(* The monitor that turns trades and candles into ticks                    *)
(* (src/monitors/boll_band_breakout_monitor.py).  Four loops of one event  *)
(* loop share the list of candles and the band computed of it: the REST    *)
(* poll replaces the list by an answer that was asked for earlier, the     *)
(* stream updates its last candle, the recalculation replaces the band,    *)
(* and a tick takes the band along into a queue that may make it wait.     *)
(*                                                                         *)
(* A candle is its time; a band is any that candles can give.  The model   *)
(* is of BOLL_USE_LIVE_CANDLE=true, where a trade moves the last candle.   *)
(***************************************************************************)
EXTENDS Integers, Sequences

CONSTANTS
  NO_BAND,     \* _snapshot is None; no tick, no REST request under way
  BollWindow,  \* boll_window, the candles that a band takes
  CandleLimit, \* candle_limit
  TickPrices, Bands,  \* prices, and the [lower, upper] that a band may have
  TickQueueMaxSize,   \* TICK_EVENT_QUEUE_MAXSIZE
  LastCandle   \* bound: the time of the last candle

ASSUME MonitorAssumption ==
  /\ BollWindow \in Nat \ {0} /\ CandleLimit \in Nat /\ BollWindow <= CandleLimit
  /\ TickPrices \subseteq Int
  /\ Bands \subseteq [lower : Int, upper : Int] /\ (\A b \in Bands : b.lower <= b.upper)
  /\ TickQueueMaxSize \in Nat \ {0} /\ LastCandle \in Nat

VARIABLES
  now,        \* the time of the candle that is forming at the exchange
  candles,    \* _candles
  rest,       \* the answer to the REST request under way
  band,       \* _snapshot
  previous,   \* _previous_price and _previous_zone
  frozen,     \* time.time() < _freeze_until_ts
  queued,     \* how many are in _tick_event_queue
  waiting,    \* the tick that waits for room in the queue, with the band it took
  set_back    \* history: a REST answer older than the list replaced it since the band

monitor_vars == <<now, candles, rest, band, previous, frozen, queued, waiting, set_back>>

Newest == candles[Len(candles)]

\* _classify_price_zone.
Zone(price, b) ==
  IF b = NO_BAND THEN "UNKNOWN"
  ELSE IF price > b.upper THEN "ABOVE"
  ELSE IF price < b.lower THEN "BELOW"
  ELSE "INSIDE"

MonitorInit ==
  /\ now = 0
  /\ candles = <<>>
  /\ rest = NO_BAND
  /\ band = NO_BAND
  /\ previous = NO_BAND
  /\ frozen = FALSE
  /\ queued = 0
  /\ waiting = NO_BAND
  /\ set_back = FALSE

-----------------------------------------------------------------------------
(* Candles.                                                                 *)

LastOf(s) == IF Len(s) <= CandleLimit THEN s ELSE SubSeq(s, Len(s) - CandleLimit + 1, Len(s))

\* Bug: a candle is added whenever it is not the last one.
Upsert_unless_last(at) ==
  IF candles # <<>> /\ at = Newest THEN candles ELSE LastOf(Append(candles, at))

\* _upsert_candle_from_snapshot and _update_live_candle_from_tick: a newer candle is
\* added, the last one updated, an older one ignored.
Upsert(at) ==
  IF candles # <<>> /\ at <= Newest THEN candles ELSE LastOf(Append(candles, at))

NewCandle ==
  /\ now < LastCandle
  /\ now' = now + 1
  /\ UNCHANGED <<candles, rest, band, previous, frozen, queued, waiting, set_back>>

\* The exchange computes its answer at some time before it arrives.
RestAnswered ==
  /\ rest = NO_BAND
  /\ rest' = LastOf([i \in 1..now + 1 |-> i - 1])
  /\ UNCHANGED <<now, candles, band, previous, frozen, queued, waiting, set_back>>

\* _sync_candles_from_rest: too short an answer is dropped, a failed one forgotten.
RestArrives ==
  /\ rest # NO_BAND
  /\ IF Len(rest) < BollWindow THEN UNCHANGED <<candles, set_back>>
     ELSE /\ candles' = rest
          /\ set_back' = (set_back \/ (candles # <<>> /\ rest[Len(rest)] < Newest))
  /\ rest' = NO_BAND
  /\ UNCHANGED <<now, band, previous, frozen, queued, waiting>>

RestFails ==
  /\ rest # NO_BAND
  /\ rest' = NO_BAND
  /\ UNCHANGED <<now, candles, band, previous, frozen, queued, waiting, set_back>>

\* What the stream says of a candle, perhaps after the next has begun.  It is handled
\* after the tick before it.
CandleArrives ==
  /\ waiting = NO_BAND
  /\ \E late \in {0, 1} : now - late >= 0 /\ candles' = Upsert(now - late)
  /\ UNCHANGED <<now, rest, band, previous, frozen, queued, waiting, set_back>>

\* Bug: the zone of the last price stays that of the old band.
Reclassified_not(b) == previous

\* The last price is judged again by the new band.
Reclassified(b) ==
  IF previous = NO_BAND THEN previous ELSE [previous EXCEPT !.zone = Zone(previous.price, b)]

\* _recalc_boll_snapshot: the bands, and whether they are far enough apart for signals.
Recalculate ==
  /\ Len(candles) >= BollWindow
  /\ \E width \in Bands, switch \in BOOLEAN :
       LET b == [at |-> Newest, lower |-> width.lower, upper |-> width.upper, switch |-> switch]
       IN band' = b /\ previous' = Reclassified(b)
  /\ set_back' = FALSE
  /\ UNCHANGED <<now, candles, rest, frozen, queued, waiting>>

-----------------------------------------------------------------------------
(* Ticks.                                                                   *)

\* The rest of _process_tick once the tick is in the queue: whether signals are on is
\* that of the band the tick took, its zone that in the band as it is now.  Leaving the
\* band is a signal, and freezes further ones.
Judge(price, taken) ==
  LET zone == IF taken = NO_BAND THEN "UNKNOWN" ELSE Zone(price, band)
  IN /\ previous' = [price |-> price, zone |-> zone]
     /\ frozen' = \/ frozen
                  \/ /\ taken # NO_BAND /\ taken.switch
                     /\ previous # NO_BAND /\ previous.zone = "INSIDE"
                     /\ zone \in {"ABOVE", "BELOW"}

\* _process_tick: a trade, perhaps of the candle before; a full queue makes it wait with
\* the band it took.
ProcessTick ==
  /\ waiting = NO_BAND
  /\ \E price \in TickPrices, late \in {0, 1} :
       /\ now - late >= 0
       /\ candles' = Upsert(now - late)
       /\ IF queued < TickQueueMaxSize
          THEN queued' = queued + 1 /\ Judge(price, band) /\ UNCHANGED waiting
          ELSE /\ waiting' = [price |-> price, band |-> band]
               /\ UNCHANGED <<queued, previous, frozen>>
  /\ UNCHANGED <<now, rest, band, set_back>>

TickQueued ==
  /\ waiting # NO_BAND /\ queued < TickQueueMaxSize
  /\ queued' = queued + 1
  /\ Judge(waiting.price, waiting.band)
  /\ waiting' = NO_BAND
  /\ UNCHANGED <<now, candles, rest, band, set_back>>

\* _tick_event_consumer_loop hands it to the tick handlers.
TickConsumed ==
  /\ queued > 0
  /\ queued' = queued - 1
  /\ UNCHANGED <<now, candles, rest, band, previous, frozen, waiting, set_back>>

FreezeEnds ==
  /\ frozen
  /\ frozen' = FALSE
  /\ UNCHANGED <<now, candles, rest, band, previous, queued, waiting, set_back>>

MonitorNext ==
  \/ NewCandle \/ CandleArrives
  \/ RestAnswered \/ RestArrives \/ RestFails
  \/ Recalculate
  \/ ProcessTick \/ TickQueued \/ TickConsumed \/ FreezeEnds

MonitorSpec == MonitorInit /\ [][MonitorNext]_monitor_vars

-----------------------------------------------------------------------------
(* Properties.                                                              *)

\* The candle that a band is of never goes back, though trades, candles and answers
\* arrive late: only a REST answer that was computed before the newest candle began,
\* and arrives after, takes that candle and its band away until the next trade.
BandGoesBackOnlyByRest ==
  [][band # NO_BAND /\ band' # NO_BAND /\ band'.at < band.at => set_back]_monitor_vars

\* A signal is a crossing: the trade before it was inside the very band that this one is
\* out of, though the band is recalculated between the two, or while the tick waits.
SignalCrossedBand ==
  [][~frozen /\ frozen' =>
       /\ Zone(previous.price, band) = "INSIDE"
       /\ Zone(previous'.price, band) \in {"ABOVE", "BELOW"}]_monitor_vars
=============================================================================
