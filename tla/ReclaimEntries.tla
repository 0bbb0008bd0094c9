--------------------------- MODULE ReclaimEntries ---------------------------
(***************************************************************************)
(* How the strategy comes to enter: the setup each side of the band builds *)
(* from tick to tick (src/strategies/boll_cvd_reclaim_strategy.py), the    *)
(* trackers it keeps outside strategy.state, the router that lets one      *)
(* decision through, and everything that replaces strategy.state under the *)
(* setups: a settled flat, a rolled back entry, a refused intent, an       *)
(* adopted position, a restart.                                            *)
(*                                                                         *)
(* The lower band is the LONG side, the upper the SHORT; the code is the   *)
(* same but for the sign, so a price is kept as its depth on each side.    *)
(* The band moves, so where a price lies is independent of its level.  Of  *)
(* volumes and of the clock only the outcome of each comparison is kept:   *)
(* an operator that depends on one yields the set of what it may return.   *)
(***************************************************************************)
EXTENDS Naturals, FiniteSetsExt

CONSTANTS
  NONE,         \* no side, no backup
  PriceLevels,  \* bound: distinct prices
  MaxCycles     \* entry_max_reclaim_cycles

ASSUME ReclaimAssumption ==
  /\ PriceLevels \in Nat \ {0}
  /\ MaxCycles \in Nat
  /\ NONE \notin {"LONG", "SHORT", "MEAN_REVERSION"}

VARIABLES
  st,        \* strategy.state: the position's side, the setups, the cooldown
  tr,        \* the trackers of each side, which strategy.state does not hold
  pending,   \* the state before the entry in flight, TradeCommand's snapshot
  v2,        \* entry_reclaim_v2_enabled
  broke,     \* history: sides with a break of their band that nothing has used up
  outlived,  \* history: sides whose setup outlived what used their break up
  torn       \* history: sides whose setup was replaced, their trackers not

reclaim_vars == <<st, tr, pending, v2, broke, outlived, torn>>

Sides == {"LONG", "SHORT"}

\* What there is of each side.
Both(long, short) == [side \in Sides |-> IF side = "LONG" THEN long ELSE short]

Levels == 1..PriceLevels

\* How extreme a price is for a side; 0 stands for a price the code has as None.
Depth(side, price) == IF side = "LONG" THEN PriceLevels + 1 - price ELSE price
Depths == 0..PriceLevels

Zones == {"below", "low_half", "middle", "high_half", "above"}
Outside(side, zone) == zone = IF side = "LONG" THEN "below" ELSE "above"
Inside(zone) == zone \notin {"below", "above"}
PastMiddle(side, zone) ==
  zone \in {"middle", IF side = "LONG" THEN "high_half" ELSE "low_half"}

Setup ==
  [observed : BOOLEAN,     \* outside_observed and the anchor
   extreme : Depths,       \* extreme_price
   deep_enough : BOOLEAN,
   previous : Depths,      \* previous_confirmed_extreme_price, which is read only
                           \* once first_extreme_price is set
   evaluated : BOOLEAN,    \* last_divergence_evaluated_ts_ms > 0
   confirmed : BOOLEAN,    \* the CVD structure of v1, the anchored divergence of v2
   divergence : Depths,    \* divergence_extreme_price, which is read only if confirmed
   armed : BOOLEAN,
   reclaim : {"none", "waiting", "timing"},  \* reclaim_seen, and reclaim_ts_ms > 0
   rejected : BOOLEAN,     \* reclaim_rejected_until_next_outside
   cycles : 0..MaxCycles]

NoSetup ==
  [observed |-> FALSE, extreme |-> 0, deep_enough |-> FALSE, previous |-> 0,
   evaluated |-> FALSE, confirmed |-> FALSE, divergence |-> 0,
   armed |-> FALSE, reclaim |-> "none", rejected |-> FALSE, cycles |-> 0]

\* strategy.state, as far as it is kept.
State == [side : Sides \cup {NONE}, setup : [Sides -> Setup], cool : SUBSET Sides,
          regime : {NONE, "MEAN_REVERSION", "TREND_BREAKOUT"}]

\* The orderflow tracker's extreme (0: not initialised), and the prices the candle
\* builder and the fractal tracker may still return an extreme from.
Tracker == [flow : Depths, candles : SUBSET Levels]
NoTracker == [flow |-> 0, candles |-> {}]

\* The operators below take and return the setup and the tracker of one side.

\* Bug: the order flow tracker is left anchored.
ResetArmed_keeps_flow(x) == [x EXCEPT !.setup = NoSetup, !.tracker.candles = {}]

\* _reset_lower_armed, _reset_upper_armed.
ResetArmed(x) == [setup |-> NoSetup, tracker |-> NoTracker]

ResetIfArmed(x) == IF x.setup.armed THEN ResetArmed(x) ELSE x

\* _expire_reclaim_v2_total_setup, _expire_armed_state and the total age: a setup
\* that was observed or armed may be too old by any of the three limits.
Expired(x) == {x} \cup
  (IF x.setup.observed \/ x.setup.armed THEN {ResetArmed(x)} ELSE {})

-----------------------------------------------------------------------------
(* Version 2: divergences of one-minute fractal extremes, anchored where    *)
(* the price first broke the band.                                          *)

\* evaluate_anchored_divergence: the price went further, the anchored CVD came back.
Diverges(previous, e, recovered) == e > previous /\ recovered

\* A fractal extreme of depth e: the first must be deep enough, a later one must be a
\* new extreme, and is then a divergence or becomes the one to beat.
OnExtreme(setup, e) ==
  IF setup.previous = 0 THEN {setup, [setup EXCEPT !.previous = e]}
  ELSE IF e <= setup.previous THEN {setup}
  ELSE {IF Diverges(setup.previous, e, recovered)
          THEN [setup EXCEPT !.evaluated = TRUE, !.confirmed = TRUE, !.armed = TRUE,
                             !.divergence = e]
          ELSE [setup EXCEPT !.evaluated = TRUE, !.previous = e] : recovered \in BOOLEAN}

\* ReclaimOneMinuteCandleBuilder: a tick joins the candle that is forming.
Joined(tracker, d) == [tracker EXCEPT !.candles = @ \cup {d}]

\* ReclaimFractalExtremeTracker, when a candle closes: any of the candles seen may be
\* the middle one of three, and only the candle that is forming can be so again.
Extremes(tracker) == tracker.candles
AfterExtreme(tracker, d) == [tracker EXCEPT !.candles = {d}]

\* _update_lower_reclaim_v2_tracking.
Tracking(x, d) ==
  IF ~x.setup.observed THEN {x}
  ELSE {[x EXCEPT !.tracker = Joined(@, d)]} \cup
       UNION {{[setup |-> s, tracker |-> AfterExtreme(x.tracker, d)] :
                 s \in OnExtreme(x.setup, e)} : e \in Extremes(x.tracker)}

\* A price past the extreme of the divergence takes the divergence back; the next
\* fractal extreme is a first one again.
DivergenceBroken(setup) ==
  [setup EXCEPT !.confirmed = FALSE, !.armed = FALSE, !.divergence = 0, !.previous = 0]

\* AnchoredOrderflowTracker.anchor, and the candle that begins with it.
AnchoredTracker(d) == [flow |-> d, candles |-> {d}]

\* The first tick outside anchors the order flow at its price.
Anchored(x, d) == [setup |-> [x.setup EXCEPT !.observed = TRUE],
                   tracker |-> AnchoredTracker(d)]

\* _update_lower_outside_v2.
OutsideV2(x, d) ==
  IF x.tracker.flow = 0 THEN {Anchored(x, d)}
  ELSE LET y == [setup |-> [x.setup EXCEPT !.rejected = FALSE,
                              !.extreme = IF d > x.tracker.flow THEN d ELSE @],
                 tracker |-> [x.tracker EXCEPT !.flow = Max({d, @})]]
       IN IF ~y.setup.confirmed THEN Tracking(y, d)
          ELSE IF d > y.setup.divergence
            THEN Tracking([y EXCEPT !.setup = DivergenceBroken(@)], d)
          ELSE {y}

\* _abort_lower_v2_if_inside_without_divergence.
Aborted(x) ==
  IF x.setup.observed /\ ~x.setup.confirmed /\ x.setup.evaluated
    THEN ResetArmed(x) ELSE x

-----------------------------------------------------------------------------
(* Version 1: the extreme of the ticks outside, and a timed reclaim.        *)

\* _handle_lower_rebreak_after_reclaim.
Rebreak(setup, d) ==
  IF d <= setup.extreme THEN [setup EXCEPT !.reclaim = "waiting"]
  ELSE IF setup.cycles = MaxCycles THEN NoSetup
  ELSE [setup EXCEPT !.cycles = @ + 1, !.reclaim = "none", !.extreme = d]

\* The extreme of _update_lower_outside's own branch and of _update_lower_extreme.
ExtremeV1(setup, d) ==
  IF ~setup.armed THEN [setup EXCEPT !.armed = TRUE, !.extreme = d]
  ELSE IF setup.reclaim # "none" THEN Rebreak(setup, d)
  ELSE [setup EXCEPT !.extreme = Max({d, @})]

\* _update_lower_deep_enough.
DeepEnough(setup) == {setup} \cup
  (IF setup.extreme # 0 THEN {[setup EXCEPT !.deep_enough = TRUE]} ELSE {})

\* _check_lower_cvd_structure: a divergence or an absorption, once, of a deep setup.
CvdStructure(setup) == {setup} \cup
  (IF setup.deep_enough THEN {[setup EXCEPT !.confirmed = TRUE]} ELSE {})

OutsideV1(x, d) ==
  {[x EXCEPT !.setup = s] :
     s \in UNION {CvdStructure(t) : t \in DeepEnough(ExtremeV1(x.setup, d))}}

\* _update_lower_outside.
UpdateOutside(x, d) ==
  IF v2 THEN UNION {{[y EXCEPT !.setup = s] : s \in DeepEnough(y.setup)} :
                      y \in OutsideV2(x, d)}
  ELSE OutsideV1(x, d)

\* The part of _update_armed_state for a price inside the band.
UpdateInside(x, side, zone, d) ==
  LET y == IF PastMiddle(side, zone) THEN ResetIfArmed(x) ELSE x
  IN IF ~v2 THEN {y}
     ELSE {Aborted(z) : z \in IF y.setup.confirmed THEN {y} ELSE Tracking(y, d)}

\* Bug: a break of one band leaves the other side's setup as it is.
UpdateArmedState_one_side(x, side, zone, price, blocked) ==
  UNION {
    IF Outside(side, zone) THEN
      IF blocked THEN {ResetIfArmed(y)} ELSE UpdateOutside(y, Depth(side, price))
    ELSE IF Inside(zone) THEN UpdateInside(y, side, zone, Depth(side, price))
    ELSE {y} : y \in Expired(x)}

\* _update_armed_state, for one side: outside its own band, outside the other band,
\* or inside; blocked says that the cooldown blocks the side the price is outside of.
UpdateArmedState(x, side, zone, price, blocked) ==
  UNION {
    IF Outside(side, zone) THEN
      IF blocked THEN {ResetIfArmed(y)} ELSE UpdateOutside(y, Depth(side, price))
    ELSE IF Inside(zone) THEN UpdateInside(y, side, zone, Depth(side, price))
    ELSE {IF blocked THEN ResetIfArmed(y) ELSE ResetArmed(y)} : y \in Expired(x)}

-----------------------------------------------------------------------------
(* From a setup to an entry.                                                *)

Answer(x, ok) == [x |-> x, ok |-> ok]

\* Bug: a setup is given one more reclaim than it may miss.
Missed_once_more(x) ==
  IF x.setup.cycles > MaxCycles THEN ResetArmed(x)
  ELSE [x EXCEPT !.setup.rejected = TRUE, !.setup.cycles = @ + 1]

\* Too far inside the band: the reclaim is missed and the next break is awaited.
Missed(x) ==
  IF x.setup.cycles = MaxCycles THEN ResetArmed(x)
  ELSE [x EXCEPT !.setup.rejected = TRUE, !.setup.cycles = @ + 1]

\* _check_lower_reclaim_v2_follow_through, by where the price is to the band of the
\* divergence: before it is back in, in the zone of entries, or beyond.
FollowThrough(x) ==
  {Answer(x, FALSE), Answer(Missed(x), FALSE)} \cup
  (IF x.setup.observed THEN {Answer(x, TRUE)} ELSE {})

\* Bug: a rejected setup is not made to wait for the next break.
SetupV2_ignores_rejection(x) ==
  IF x.setup.armed /\ x.setup.extreme # 0 /\ x.setup.deep_enough /\ x.setup.confirmed
    THEN FollowThrough(x) ELSE {Answer(x, FALSE)}

\* _long_setup_v2.
SetupV2(x) ==
  IF /\ x.setup.armed /\ x.setup.extreme # 0 /\ x.setup.deep_enough
     /\ x.setup.confirmed /\ ~x.setup.rejected
    THEN FollowThrough(x) ELSE {Answer(x, FALSE)}

\* _long_setup of version 1: seen inside, timed, and broken off by a price outside.
SetupV1(x, side, zone) ==
  LET s == x.setup
      To(r) == Answer([x EXCEPT !.setup.reclaim = r], FALSE)
  IN IF ~(s.armed /\ s.extreme # 0 /\ s.deep_enough /\ s.confirmed)
       THEN {Answer(x, FALSE)}
     ELSE IF s.reclaim = "timing" THEN
       IF Outside(side, zone) THEN {To("waiting")}
       ELSE {Answer(x, FALSE), Answer(x, TRUE)}
     ELSE IF Outside(side, zone) THEN {Answer(x, FALSE)}
     ELSE {Answer(x, FALSE), To("timing")}

EntrySetup(x, side, zone, blocked) ==
  IF blocked THEN {Answer(x, FALSE)}
  ELSE IF v2 THEN SetupV2(x)
  ELSE SetupV1(x, side, zone)

\* What the trend regime may answer: nothing if it is disabled, and a candidate or a
\* confirmed trend only while the price is beyond the band, in its direction.
TrendAnswers(zone) ==
  {"disabled", "none"} \cup
  (IF Inside(zone) THEN {} ELSE {"candidate", IF zone = "above" THEN "LONG" ELSE "SHORT"})

NoTrade == [regime |-> NONE, side |-> NONE]
MeanReversion(side) == [regime |-> "MEAN_REVERSION", side |-> side]
Trend(side) == [regime |-> "TREND_BREAKOUT", side |-> side]

\* RegimeRouter.route behind _route_regime: without the trend regime the long setup
\* is tried first, and a position it opens refuses the short one.
Route(allowed, trend, blocked) ==
  LET sides == (allowed \cup (IF trend \in Sides THEN {trend} ELSE {})) \ blocked
  IN IF sides = {} THEN {NoTrade}
     ELSE IF trend = "disabled" THEN {MeanReversion(side) : side \in sides}
     ELSE IF sides = Sides THEN {NoTrade}
     ELSE IF trend \in sides THEN {Trend(trend)}
     ELSE IF trend = "candidate" THEN {NoTrade}
     ELSE {MeanReversion(side) : side \in sides}

\* What is left of an entry: it needs an extreme to put its stop behind, which may be too
\* far away or too dear for the reward (_entry_protective_sl_price,
\* _entry_reward_risk_check); a trend's stop may be too far as well.
Priced(entry, setups) ==
  {NoTrade} \cup
  (IF entry.regime = "MEAN_REVERSION" /\ setups[entry.side].extreme = 0 THEN {}
   ELSE {entry})

Outcome(long, short, entry) == [x |-> Both(long, short), entry |-> entry]

Allowed(a, b) == (IF a.ok THEN {"LONG"} ELSE {}) \cup (IF b.ok THEN {"SHORT"} ELSE {})

\* What a tick may end in: without alerts or within the cooldown of orders nothing is
\* looked at, and a refused entry leaves no trace (open_position, _maybe_trend_entry).
Outcomes(long, short, zone, cool) ==
  {Outcome(long, short, NoTrade)} \cup
  UNION {{Outcome(a.x, b.x, entry) : entry \in
            UNION {Priced(routed, Both(a.x.setup, b.x.setup)) :
                     routed \in UNION {Route(Allowed(a, b), trend, cool) :
                                         trend \in TrendAnswers(zone)}}} :
         a \in EntrySetup(long, "LONG", zone, "LONG" \in cool),
         b \in EntrySetup(short, "SHORT", zone, "SHORT" \in cool)}

-----------------------------------------------------------------------------
(* Ticks.                                                                   *)

NoSetups == [s \in Sides |-> NoSetup]

FreshState(side, regime, cool) ==
  [side |-> side, regime |-> regime, setup |-> NoSetups, cool |-> cool]

Init ==
  /\ st = FreshState(NONE, NONE, {})
  /\ tr = [s \in Sides |-> NoTracker]
  /\ pending = NONE
  /\ v2 \in BOOLEAN
  /\ broke = {} /\ outlived = {} /\ torn = {}

\* The setup and the tracker of a side were anchored and reset together.
Agree(setup, tracker) == setup.observed <=> tracker.flow # 0

Torn(setups, trackers) == {s \in Sides : ~Agree(setups[s], trackers[s])}

\* _discard_cooldown_blocked_setups, then _update_armed_state, for one side.
UpdatedSide(side, zone, price, cool) ==
  LET x == [setup |-> st.setup[side], tracker |-> tr[side]]
  IN UpdateArmedState(IF side \in cool THEN ResetIfArmed(x) ELSE x, side, zone,
                      price, \E s \in cool : Outside(s, zone))

\* Beyond a band the price breaks it for its side, unless the cooldown blocks the
\* side, and uses up any break of the other.
BrokeAfter(zone, cool) ==
  IF Inside(zone) THEN broke ELSE {s \in Sides \ cool : Outside(s, zone)}

\* A break that the cooldown blocks resets the other side only if it is armed.
OutlivedAfter(zone, cool) ==
  IF Inside(zone) THEN outlived
  ELSE {s \in broke \cup outlived :
          /\ ~Outside(s, zone) /\ \E b \in cool : Outside(b, zone)
          /\ st.setup[s].observed /\ ~st.setup[s].armed}

\* The state from before a tick is put back, and with it what the tick had used up.
PutBack(broke_before, outlived_before, broke_after) ==
  /\ broke' = broke_before \cap broke_after
  /\ outlived' = outlived_before \cup (broke_before \ broke_after)

\* The cooldown after a stop loss, which may be over by now.
CooldownNow == {st.cool, {}}

\* on_tick without a position; the worker hands an entry on with the state from before.
Tick(zone, price) ==
  /\ st.side = NONE
  /\ \E cool \in CooldownNow :
       \E long \in UpdatedSide("LONG", zone, price, cool),
          short \in UpdatedSide("SHORT", zone, price, cool) :
         \E o \in Outcomes(long, short, zone, cool) :
           LET setups == [s \in Sides |-> o.x[s].setup]
               trackers == [s \in Sides |-> o.x[s].tracker]
               before == Both(long, short)
               missed == {s \in Sides : v2 /\ o.x[s] # before[s]}
           IN /\ st' = [side |-> o.entry.side, regime |-> o.entry.regime,
                        setup |-> setups, cool |-> cool]
              /\ tr' = trackers
              /\ torn' = torn \cap Torn(setups, trackers)
              /\ broke' = BrokeAfter(zone, cool) \ missed
              /\ outlived' = OutlivedAfter(zone, cool) \ missed
              /\ pending' = IF o.entry = NoTrade THEN NONE
                            ELSE [st |-> [st EXCEPT !.cool = cool],
                                  broke |-> broke, outlived |-> outlived]
  /\ UNCHANGED v2

\* The same while a position is held: setups are kept up and nothing is entered.  No
\* tick is handled while an order is pending.
HeldTick(zone, price) ==
  /\ st.side # NONE
  /\ pending = NONE
  /\ \E cool \in CooldownNow :
       \E long \in UpdatedSide("LONG", zone, price, cool),
          short \in UpdatedSide("SHORT", zone, price, cool) :
         LET after == Both(long, short)
         IN /\ st' = [st EXCEPT !.cool = cool,
                                !.setup = [s \in Sides |-> after[s].setup]]
            /\ tr' = [s \in Sides |-> after[s].tracker]
            /\ torn' = torn \cap Torn([s \in Sides |-> after[s].setup],
                                      [s \in Sides |-> after[s].tracker])
            /\ broke' = BrokeAfter(zone, cool)
            /\ outlived' = OutlivedAfter(zone, cool)
  /\ UNCHANGED <<pending, v2>>

\* A tick of a held position that revised the take profit, whose command found the
\* queue full, or failed with nothing left of the position: the state from before the
\* tick is put back, but not the trackers.
HeldTickRefused(zone, price) ==
  /\ st.side # NONE
  /\ pending = NONE
  /\ \E cool \in CooldownNow :
       \E long \in UpdatedSide("LONG", zone, price, cool),
          short \in UpdatedSide("SHORT", zone, price, cool) :
         /\ st' = [st EXCEPT !.cool = cool]
         /\ tr' = Both(long.tracker, short.tracker)
         /\ torn' = Torn(st.setup, Both(long.tracker, short.tracker))
         /\ PutBack(broke, outlived, BrokeAfter(zone, cool))
  /\ UNCHANGED <<pending, v2>>

-----------------------------------------------------------------------------
(* What replaces strategy.state between ticks.                              *)

\* The entry in flight is filled.
EntryFilled ==
  /\ pending # NONE
  /\ pending' = NONE
  /\ UNCHANGED <<st, tr, v2, broke, outlived, torn>>

\* It was refused by the full queue, or it failed and left no position: the state from
\* before its tick is back, but not the trackers.
EntryRolledBack ==
  /\ pending # NONE
  /\ st' = pending.st
  /\ PutBack(pending.broke, pending.outlived, broke)
  /\ pending' = NONE
  /\ torn' = Torn(pending.st.setup, tr)
  /\ UNCHANGED <<tr, v2>>

\* settle_flat_phase: a fresh state, with the cooldown of a stopped out entry, which
\* blocks its side or, with the scope GLOBAL, both.
FlatSettled ==
  /\ st.side # NONE
  /\ pending = NONE
  /\ \E cool \in {st.cool, {st.side}, Sides} : st' = FreshState(NONE, NONE, cool)
  /\ broke' = {} /\ outlived' = {}
  /\ torn' = Torn(NoSetups, tr)
  /\ UNCHANGED <<tr, pending, v2>>

\* restore_strategy_from_position, by the account sync that finds a position the
\* strategy does not hold.
Adopted ==
  /\ st.side = NONE
  /\ \E side \in Sides : st' = FreshState(side, NONE, {})
  /\ broke' = {} /\ outlived' = {}
  /\ torn' = Torn(NoSetups, tr)
  /\ UNCHANGED <<tr, pending, v2>>

\* A restart: setups and trackers are not saved, the cooldown is with a position.  The
\* regime is saved and not restored.
Restart ==
  /\ \/ st' = FreshState(NONE, NONE, {})
     \/ /\ st.side # NONE
        /\ st' = FreshState(st.side, NONE, st.cool)
  /\ tr' = [s \in Sides |-> NoTracker]
  /\ pending' = NONE
  /\ broke' = {} /\ outlived' = {} /\ torn' = {}
  /\ UNCHANGED v2

Next ==
  \/ \E zone \in Zones, price \in Levels :
       Tick(zone, price) \/ HeldTick(zone, price) \/ HeldTickRefused(zone, price)
  \/ EntryFilled \/ EntryRolledBack
  \/ FlatSettled \/ Adopted \/ Restart

Spec == Init /\ [][Next]_reclaim_vars

-----------------------------------------------------------------------------
(* Properties.                                                              *)

\* The values the variables may have.
TypeOK ==
  /\ st \in State
  /\ tr \in [Sides -> Tracker]
  /\ pending \in {NONE} \cup
       [st : State, broke : SUBSET Sides, outlived : SUBSET Sides]
  /\ v2 \in BOOLEAN
  /\ broke \subseteq Sides /\ outlived \subseteq Sides /\ torn \subseteq Sides

\* The price is out on one side at a time and a break of one band forgets the other
\* side: no two setups are ever built at once, so no tick offers the router a long and
\* a short reclaim.
OneSide == \E side \in Sides : st.setup[side] = NoSetup

\* An entry on a reclaim takes a break of its own band since the last position, since
\* the last reclaim that ran too far, and since the price was last beyond the opposite
\* band.  The setup is then spread over dozens of fields and over trackers that the
\* resets must take along.  Two exceptions are named by `outlived': the cooldown blocked
\* the opposite break while the setup was observed and not armed yet, which the code
\* leaves although its comment has the setup reset, and the tick that used the break up
\* was put back with the state from before it.
EntryNeedsFreshBreak ==
  [][st.side = NONE /\ st'.regime = "MEAN_REVERSION"
       => st'.side \in broke' \cup outlived']_reclaim_vars

\* Setup and trackers are two records of the same episode.  Only what replaces
\* strategy.state tears them apart, never a tick.
TornOnlyByReplacement ==
  \A side \in Sides : Agree(st.setup[side], tr[side]) \/ side \in torn

\* Once the cooldown that a stop loss set is over, the first break of the band starts a
\* setup on its side.
SetupAfterCooldown ==
  [][\A zone \in Zones, price \in Levels :
       Tick(zone, price) =>
         \A side \in st.cool \ st'.cool :
           Outside(side, zone) /\ st'.side = NONE
             => st'.setup[side].observed \/ st'.setup[side].armed]_reclaim_vars
=============================================================================
