----------------------------- MODULE CvdTracker -----------------------------
(***************************************************************************)
(* The tracker of the order flow that every tick passes before on_tick     *)
(* (src/indicators/cvd_tracker.py, strategy_tick_worker.py:97).  It keeps  *)
(* the sums and extremes of four windows up to date one trade at a time;   *)
(* what they should be is the sum or extreme of the trades in the window.  *)
(*                                                                         *)
(* A trade that is older than the last one is not counted: its snapshot is *)
(* the previous one with the price of the late trade.                      *)
(***************************************************************************)
EXTENDS Integers, Sequences

CONSTANTS
  FastWindow, StallWindow, BurstWindow, BaselineWindow,  \* lengths, in units of time
  TradePrices,  \* a set of prices, so far apart that each is beyond the stall tolerance
  MaxTrades,    \* bound: trades that are counted
  MaxGap        \* bound: the time from one trade to the next

ASSUME CvdAssumption ==
  /\ {FastWindow, StallWindow, BurstWindow, BaselineWindow} \subseteq Nat \ {0}
  /\ BurstWindow < BaselineWindow
  /\ TradePrices \subseteq Nat
  /\ {MaxTrades, MaxGap} \subseteq Nat

VARIABLES
  events,   \* the deques of trades: fast, stall, burst, recent and baseline
  lows,     \* _stall_min_price, _burst_min_price
  highs,    \* _stall_max_price, _burst_max_price
  ranges,   \* the deques of range samples, recent and baseline
  sums,     \* the sums kept by adding and subtracting
  cvd,      \* the last snapshot
  counted   \* history: every trade counted, in order

cvd_vars == <<events, lows, highs, ranges, sums, cvd, counted>>

\* Price of a trade of unknown side counts, its size does not.
Trade(ts, price, side) ==
  [ts |-> ts, price |-> price,
   buy |-> IF side = "buy" THEN 1 ELSE 0, sell |-> IF side = "sell" THEN 1 ELSE 0]
Signed(e) == e.buy - e.sell
Volume(e) == e.buy + e.sell

\* The sum of a sequence of numbers.
SumOf(s) ==
  LET sum[n \in 0..Len(s)] == IF n = 0 THEN 0 ELSE sum[n - 1] + s[n]
  IN sum[Len(s)]

\* What each trade or sample of a deque adds to a sum.
Flows(s) == [i \in 1..Len(s) |-> Signed(s[i])]
Sizes(s) == [i \in 1..Len(s) |-> Volume(s[i])]
Samples(s) == [i \in 1..Len(s) |-> s[i].range]

Fast(s) == SumOf(Flows(s))
Volumes(s) == SumOf(Sizes(s))
RangesOf(s) == SumOf(Samples(s))

CvdInit ==
  /\ events = [fast |-> <<>>, stall |-> <<>>, burst |-> <<>>, recent |-> <<>>, baseline |-> <<>>]
  /\ lows = [stall |-> <<>>, burst |-> <<>>]
  /\ highs = lows
  /\ ranges = [recent |-> <<>>, baseline |-> <<>>]
  /\ sums = [fast |-> 0, burst |-> 0, baseline |-> 0, range |-> 0, total |-> 0,
             buy |-> 0, sell |-> 0]
  /\ cvd = [price |-> 0, late |-> FALSE, fast |-> 0, previous |-> 0, low |-> 0, high |-> 0,
            no_new_low |-> FALSE, no_new_high |-> FALSE, move |-> 0, buy |-> 0, sell |-> 0]
  /\ counted = <<>>

-----------------------------------------------------------------------------
(* The deques.                                                              *)

\* How many at the head of a deque are from before a time.
StaleBefore(s, time) ==
  CHOOSE n \in 0..Len(s) : /\ \A i \in 1..n : s[i].ts < time
                           /\ n < Len(s) => s[n + 1].ts >= time
Stale(s, time) == SubSeq(s, 1, StaleBefore(s, time))
Kept(s, time) == SubSeq(s, StaleBefore(s, time) + 1, Len(s))

\* A deque without those at its tail that are beaten or equalled.
Unbeaten(s, beaten) ==
  CHOOSE n \in 0..Len(s) : /\ n > 0 => s[n].price \notin beaten
                           /\ \A i \in n+1..Len(s) : s[i].price \in beaten

\* Bug: the head of the deque stays after its time.
PushExtreme_never_expires(s, e, time, beaten) ==
  Append(SubSeq(s, 1, Unbeaten(s, beaten)), e)

\* An extreme drops those at the tail that it beats or equals; the head leaves when its
\* time is over.
PushExtreme(s, e, time, beaten) ==
  Kept(Append(SubSeq(s, 1, Unbeaten(s, beaten)), e), time)

PushLow(s, e, time) == PushExtreme(s, e, time, {p \in TradePrices : p >= e.price})
PushHigh(s, e, time) == PushExtreme(s, e, time, {p \in TradePrices : p <= e.price})

\* _is_no_new_low and _is_no_new_high: two trades in the window, and the extreme is old
\* or the price has moved away from it.
OldOrLeft(in_window, extreme, e) ==
  /\ Len(in_window) >= 2
  /\ e.ts - extreme.ts >= StallWindow \/ e.price # extreme.price

\* _current_burst_range_pct, as the difference of the two prices.
BurstRange(in_window, low, high) ==
  IF Len(in_window) < 2 THEN 0 ELSE high[1].price - low[1].price

\* The time before which something is no longer in the baseline, or in the burst window:
\* a trade or a sample as old as the burst window is in both.
BurstStart(now) == now - BurstWindow
BaselineStart(now) == now - BaselineWindow

-----------------------------------------------------------------------------
(* update.                                                                  *)

TradeCounted(e) ==
  LET fast == Append(events.fast, e)
      burst == Append(events.burst, e)
      recent == Append(events.recent, e)
      baseline == events.baseline \o Stale(recent, BurstStart(e.ts) + 1)
      stall_in == Kept(Append(events.stall, e), e.ts - StallWindow)
      burst_in == Kept(burst, BurstStart(e.ts))
      low == [stall |-> PushLow(lows.stall, e, e.ts - StallWindow),
              burst |-> PushLow(lows.burst, e, BurstStart(e.ts))]
      high == [stall |-> PushHigh(highs.stall, e, e.ts - StallWindow),
               burst |-> PushHigh(highs.burst, e, BurstStart(e.ts))]
      samples == Append(ranges.recent,
                        [ts |-> e.ts, range |-> BurstRange(burst_in, low.burst, high.burst)])
      old_samples == Stale(samples, BurstStart(e.ts) + 1)
      all_samples == ranges.baseline \o old_samples
      fast_cvd == sums.fast + Signed(e) - Fast(Stale(fast, e.ts - FastWindow))
  IN /\ events' = [fast |-> Kept(fast, e.ts - FastWindow), stall |-> stall_in, burst |-> burst_in,
                   recent |-> Kept(recent, BurstStart(e.ts) + 1),
                   baseline |-> Kept(baseline, BaselineStart(e.ts))]
     /\ lows' = low
     /\ highs' = high
     /\ ranges' = [recent |-> Kept(samples, BurstStart(e.ts) + 1),
                   baseline |-> Kept(all_samples, BaselineStart(e.ts))]
     /\ sums' = [fast |-> fast_cvd,
                 burst |-> sums.burst + Volume(e) - Volumes(Stale(burst, BurstStart(e.ts))),
                 baseline |-> sums.baseline + Volumes(Stale(recent, BurstStart(e.ts) + 1))
                                - Volumes(Stale(baseline, BaselineStart(e.ts))),
                 range |-> sums.range + RangesOf(old_samples)
                             - RangesOf(Stale(all_samples, BaselineStart(e.ts))),
                 total |-> sums.total + Signed(e),
                 buy |-> sums.buy + e.buy, sell |-> sums.sell + e.sell]
     /\ cvd' = [price |-> e.price, late |-> FALSE, fast |-> fast_cvd, previous |-> cvd.fast,
                low |-> low.stall[1].price, high |-> high.stall[1].price,
                no_new_low |-> OldOrLeft(stall_in, low.stall[1], e),
                no_new_high |-> OldOrLeft(stall_in, high.stall[1], e),
                move |-> IF Len(burst_in) < 2 THEN 0 ELSE e.price - burst_in[1].price,
                buy |-> sums.buy + e.buy, sell |-> sums.sell + e.sell]
     /\ counted' = Append(counted, e)

LastTradeAt == counted[Len(counted)].ts

\* Out of order, _snapshot_without_mutating_windows: the cumulative volumes, which it
\* leaves out, are 0 in it.
TradeLate(price) ==
  /\ counted # <<>> /\ LastTradeAt > 0
  /\ cvd' = [cvd EXCEPT !.price = price, !.late = TRUE, !.buy = 0, !.sell = 0]
  /\ UNCHANGED <<events, lows, highs, ranges, sums, counted>>

CvdNext ==
  \/ \E gap \in 0..MaxGap, price \in TradePrices, side \in {"buy", "sell", "unknown"} :
       /\ Len(counted) < MaxTrades
       /\ TradeCounted(Trade(IF counted = <<>> THEN 0 ELSE LastTradeAt + gap, price, side))
  \/ \E price \in TradePrices : TradeLate(price)

CvdSpec == CvdInit /\ [][CvdNext]_cvd_vars

-----------------------------------------------------------------------------
(* Properties.                                                              *)

\* The sum over the trades counted from a time to a time, whatever the deques hold.
Between(first, last, values) ==
  SumOf([i \in 1..Len(counted) |->
           IF counted[i].ts >= first /\ counted[i].ts <= last THEN values[i] ELSE 0])

\* The sums and extremes that are kept by adding and subtracting are those of the trades
\* of their window, however many leave it at once or share a time; a late trade changes
\* none of them.  The baseline shares with the burst the trades as old as the burst
\* window, and no others.  A tick reports that the price makes no new low (or high)
\* only when the price is off the extreme of its window, unless its trade is late.
WindowsMatchTrades ==
  counted # <<>> =>
    LET now == LastTradeAt
        sizes == Sizes(counted)
        stalled == {counted[i].price : i \in {j \in 1..Len(counted) :
                                                counted[j].ts >= now - StallWindow}}
    IN /\ sums.fast = Between(now - FastWindow, now, Flows(counted))
       /\ sums.burst = Between(BurstStart(now), now, sizes)
       /\ sums.baseline = Between(BaselineStart(now), BurstStart(now), sizes)
       /\ sums.range = RangesOf(ranges.baseline)
       /\ Len(ranges.baseline) =
            Between(BaselineStart(now), BurstStart(now), [i \in 1..Len(counted) |-> 1])
       /\ sums.total = Fast(counted) /\ sums.buy - sums.sell = sums.total
       /\ cvd.fast = sums.fast
       /\ cvd.low \in stalled /\ \A p \in stalled : cvd.low <= p
       /\ cvd.high \in stalled /\ \A p \in stalled : cvd.high >= p
       /\ ~cvd.late => /\ cvd.no_new_low => cvd.price > cvd.low
                       /\ cvd.no_new_high => cvd.price < cvd.high
                       /\ cvd.buy = sums.buy /\ cvd.sell = sums.sell
=============================================================================
