------------------------ MODULE TrendRegime_proofs ------------------------
(***************************************************************************)
(* What is proved of the trend regime, for any number of stop prices: a    *)
(* trend is entered only on the candle that closed beyond its band, and    *)
(* the stop of a runner or of a trend position never loosens.              *)
(*                                                                         *)
(* The records advance on different ticks, so what relates them has to be  *)
(* carried along: an active detector has its breakout and its metrics      *)
(* (Assessed), a close outside is that of the candle it was tracked on     *)
(* (TrackedClose), and a stop that is on its way is no looser than the one *)
(* in force when it arrives (OrderTightens).                               *)
(***************************************************************************)
EXTENDS TrendRegime, TLAPS

\* A trend under way is judged on a breakout and its metrics.
Assessed == detector \in Active => breakout \in Breakout /\ metrics \in Metrics

\* The close outside that counts for a breakout was on the side of the one tracked.
TrackedClose ==
  candle.seen # NIL /\ candle.closed_outside => candle.out = candle.seen

\* Nothing is ordered for a position that is not there.
OrdersHavePosition == position = NIL => order = NoOrder

\* A position entered on a trend is never sold in parts.
PlainTrend(p) == p # NIL /\ p.regime = "TREND_BREAKOUT" => p.stage = "plain"

\* What the commands on their way carry is no looser than what is in force, and a
\* trend position was one before the tick that sent them unless that tick made it one.
OrderTightens ==
  /\ order.stop # 0 => Trending(position) /\ order.stop >= position.stop
  /\ /\ order.protective # 0
     /\ position.stage = "runner" /\ order.before.stage = "runner"
     => order.protective >= position.protective
  /\ order.before # NIL /\ ~Trending(position) => ~Trending(order.before)

TrendInv ==
  /\ TrendTypeOK
  /\ Assessed /\ TrackedClose /\ OrdersHavePosition
  /\ PlainTrend(position) /\ PlainTrend(order.before)
  /\ OrderTightens

-----------------------------------------------------------------------------
(* The operators of the model.                                             *)

\* The runner's stop is one of the two, and the tighter.
LEMMA RunnerStopTightens ==
  ASSUME NEW old \in Stops, NEW candidate \in Stops
  PROVE  RunnerStop(old, candidate) \in Stops /\ RunnerStop(old, candidate) >= old
<1>1. Max({old, candidate}) \in {old, candidate} /\ Max({old, candidate}) >= old
  BY TrendAssumption DEF Stops, Max
<1> QED BY <1>1 DEF RunnerStop

\* 0 is a stop price, none.
LEMMA StopsFacts == 0 \in Stops /\ 1 .. StopLevels \subseteq Stops /\ Stops \subseteq Nat
  BY TrendAssumption DEF Stops

\* The metrics follow every tick, and are there from the first break on.
LEMMA MetricsAfterType ==
  ASSUME metrics \in Metrics \cup {NIL}, NEW direction \in Directions \cup {NIL},
         NEW m \in MetricsAfter(direction)
  PROVE  /\ m \in Metrics \cup {NIL}
         /\ metrics \in Metrics \/ direction # NIL => m \in Metrics
<1>1. CASE direction = NIL /\ metrics = NIL
  BY <1>1 DEF MetricsAfter
<1>2. CASE direction = NIL /\ metrics # NIL
  BY <1>2 DEF MetricsAfter, Metrics
<1>3. CASE direction # NIL
  <2>1. direction \in Directions /\ Anchor(direction) \in Metrics
    BY <1>3 DEF Anchor, Metrics
  <2>2. metrics # NIL => [metrics EXCEPT !.outside = TRUE] \in Metrics
    BY DEF Metrics
  <2> QED BY <1>3, <2>1, <2>2 DEF MetricsAfter
<1> QED BY <1>1, <1>2, <1>3

\* A break of a band leaves a breakout of its direction; none is lost on the way.
LEMMA BreakoutAfterType ==
  ASSUME breakout \in Breakout \cup {NIL}, NEW direction \in Directions \cup {NIL}
  PROVE  /\ BreakoutAfter(direction) \in Breakout \cup {NIL}
         /\ direction # NIL => /\ BreakoutAfter(direction) \in Breakout
                               /\ BreakoutAfter(direction).direction = direction
         /\ breakout \in Breakout => BreakoutAfter(direction) \in Breakout
  BY NilAssumption DEF BreakoutAfter, Breakout, Ages

\* Only a candle that closed outside makes a trend of a candidate.
LEMMA VerdictsType ==
  ASSUME NEW age \in Ages, NEW closed_outside \in BOOLEAN, NEW too_long \in BOOLEAN,
         NEW v \in Verdicts[age][closed_outside][too_long]
  PROVE  /\ v \in {"TREND_CANDIDATE", "TREND_CONFIRMED", "TREND_FAILED"}
         /\ v = "TREND_CONFIRMED" => closed_outside
<1>1. Verdicts[age][closed_outside][too_long]
        = {Judged(age, closed_outside, too_long, s) : s \in Signals}
  BY DEF Verdicts
<1>2. PICK s \in Signals : v = Judged(age, closed_outside, too_long, s)
  BY <1>1
<1> QED BY <1>2 DEF Judged

\* A candle is tracked once, for the breakout that first meets it.
LEMMA TrackType ==
  ASSUME candle \in Candle, TrackedClose, NEW direction \in Directions
  PROVE  LET c == Track(candle, direction)
         IN /\ c \in Candle /\ c.out = candle.out
            /\ c.seen # NIL /\ c.closed_outside => c.out = c.seen
            /\ c.seen = IF candle.seen = NIL THEN direction ELSE candle.seen
  BY NilAssumption DEF Track, Candle, TrackedClose

\* After a reset of the candle it has been seen for no direction.
LEMMA ResetCandleCloseType ==
  ASSUME candle \in Candle
  PROVE  /\ ResetCandleClose(candle) \in Candle
         /\ ResetCandleClose(candle).seen = NIL
  BY DEF ResetCandleClose, Candle

-----------------------------------------------------------------------------
(* Assessments.                                                            *)

\* An assessment of a breakout: its answer and what it makes of the candle.  A trend is
\* confirmed on candles only by a close outside.
LEMMA AssessResult ==
  ASSUME candle \in Candle, TrackedClose, NEW b \in Breakout, NEW too_long \in BOOLEAN,
         NEW with_candles \in BOOLEAN, NEW a \in Assess(b, too_long, with_candles)
  PROVE  /\ a.detector \in TrendStates /\ a.candle \in Candle
         /\ a.candle.out = candle.out
         /\ a.candle.seen # NIL /\ a.candle.closed_outside => a.candle.out = a.candle.seen
         /\ a.detector = "TREND_CONFIRMED" /\ with_candles =>
              \/ a.candle.out = b.direction
              \/ candle.seen \notin {NIL, b.direction}
<1> DEFINE c == IF with_candles THEN Track(candle, b.direction) ELSE candle
<1>1. b.direction \in Directions /\ b.age \in Ages
  BY DEF Breakout
<1>2. /\ c \in Candle /\ c.out = candle.out
      /\ c.seen # NIL /\ c.closed_outside => c.out = c.seen
      /\ with_candles => c.seen = IF candle.seen = NIL THEN b.direction ELSE candle.seen
  BY <1>1, TrackType DEF TrackedClose
<1>3. c.closed_outside \in BOOLEAN
  BY <1>2 DEF Candle
<1>4. \/ a = Assessment("NO_TREND", ResetCandleClose(candle))
      \/ a = Assessment("POST_COMPRESSION_EXPANDING", candle)
      \/ \E v \in Verdicts[b.age][c.closed_outside][too_long] : a = Assessment(v, c)
  BY DEF Assess
<1> HIDE DEF c
<1>5. CASE a = Assessment("NO_TREND", ResetCandleClose(candle))
  BY <1>5, ResetCandleCloseType DEF Assessment, TrendStates, ResetCandleClose, Candle
<1>6. CASE a = Assessment("POST_COMPRESSION_EXPANDING", candle)
  BY <1>6 DEF Assessment, TrendStates, TrackedClose
<1>7. ASSUME NEW v \in Verdicts[b.age][c.closed_outside][too_long], a = Assessment(v, c)
      PROVE  /\ a.detector \in TrendStates /\ a.candle \in Candle
             /\ a.candle.out = candle.out
             /\ a.candle.seen # NIL /\ a.candle.closed_outside => a.candle.out = a.candle.seen
             /\ a.detector = "TREND_CONFIRMED" /\ with_candles =>
                  \/ a.candle.out = b.direction
                  \/ candle.seen \notin {NIL, b.direction}
  <2>1. /\ v \in {"TREND_CANDIDATE", "TREND_CONFIRMED", "TREND_FAILED"}
        /\ v = "TREND_CONFIRMED" => c.closed_outside
    BY <1>1, <1>3, VerdictsType
  <2>2. a.detector = v /\ a.candle = c
    BY <1>7 DEF Assessment
  <2>3. c.seen # NIL \/ ~with_candles
    BY <1>1, <1>2, NilAssumption
  <2> QED BY <1>2, <2>1, <2>2, <2>3 DEF TrendStates
<1> QED BY <1>4, <1>5, <1>6, <1>7

\* The state of the detector before a tick.
Judgeable ==
  /\ breakout \in Breakout \cup {NIL} /\ metrics \in Metrics \cup {NIL}
  /\ detector \in TrendStates /\ candle \in Candle
  /\ Assessed /\ TrackedClose

\* What a tick makes of the detector and the candle, inside the band or out of it.
LEMMA AssessTickResult ==
  ASSUME Judgeable, NEW direction \in Directions \cup {NIL},
         NEW m \in MetricsAfter(direction), NEW with_candles \in BOOLEAN,
         NEW a \in AssessTick(direction, m, with_candles)
  PROVE  /\ a.detector \in TrendStates /\ a.candle \in Candle
         /\ a.candle.seen # NIL /\ a.candle.closed_outside => a.candle.out = a.candle.seen
         /\ a.detector \in Active => BreakoutAfter(direction) \in Breakout /\ m \in Metrics
         /\ direction # NIL /\ a.detector = "TREND_CONFIRMED" /\ with_candles =>
              \/ a.candle.out = direction
              \/ candle.seen \notin {NIL, direction}
<1>1. /\ m \in Metrics \cup {NIL}
      /\ metrics \in Metrics \/ direction # NIL => m \in Metrics
  BY MetricsAfterType DEF Judgeable
<1>2. /\ direction # NIL => /\ BreakoutAfter(direction) \in Breakout
                            /\ BreakoutAfter(direction).direction = direction
      /\ breakout \in Breakout => BreakoutAfter(direction) \in Breakout
  BY BreakoutAfterType DEF Judgeable
<1>3. CASE direction # NIL
  <2>1. a \in Assess(BreakoutAfter(direction), FALSE, with_candles)
    BY <1>3 DEF AssessTick
  <2> QED BY <1>1, <1>2, <1>3, <2>1, AssessResult DEF Judgeable
<1>4. CASE direction = NIL /\ detector \in Active
  <2>1. breakout \in Breakout /\ m \in Metrics
    BY <1>1, <1>4 DEF Judgeable, Assessed
  <2>2. m.too_long \in BOOLEAN /\ a \in Assess(breakout, m.too_long, with_candles)
    BY <1>4, <2>1 DEF AssessTick, Metrics
  <2> QED BY <1>1, <1>2, <1>4, <2>1, <2>2, AssessResult DEF Judgeable
<1>5. CASE direction = NIL /\ detector \notin Active
  <2>1. a.detector = detector /\ a.candle = candle
    BY <1>5 DEF AssessTick, Assessment
  <2> QED BY <1>5, <2>1 DEF Judgeable, TrackedClose
<1> QED BY <1>3, <1>4, <1>5

-----------------------------------------------------------------------------
(* The steps.                                                              *)

\* A position as it is entered: a trend's is plain, whatever its side and stop.
LEMMA EntryType ==
  ASSUME NEW direction \in Directions \cup {NIL}, NEW s \in TrendStates,
         NEW p \in Entries(direction, s)
  PROVE  /\ p \in Position /\ PlainTrend(p)
         /\ p.regime = "TREND_BREAKOUT" =>
              direction # NIL /\ s = "TREND_CONFIRMED" /\ p.side = SideOf(direction)
<1>1. CASE direction # NIL /\ s = "TREND_CONFIRMED"
  <2>1. PICK stop \in 1 .. StopLevels :
          p = Opened(SideOf(direction), "TREND_BREAKOUT", "plain", stop)
    BY <1>1 DEF Entries
  <2> QED BY <1>1, <2>1, StopsFacts
          DEF Opened, Position, PlainTrend, SideOf, TrendRegimes, Stages
<1>2. CASE ~(direction # NIL /\ s = "TREND_CONFIRMED")
  <2>1. PICK side \in {"LONG", "SHORT"}, stage \in {"plain", "three"} :
          p = Opened(side, "MEAN_REVERSION", stage, 0)
    BY <1>2 DEF Entries
  <2> QED BY <2>1, StopsFacts DEF Opened, Position, PlainTrend, Stages
<1> QED BY <1>1, <1>2

\* No order, and an order that opens, are orders.
LEMMA NoOrderType ==
  /\ NoOrder \in Orders
  /\ [NoOrder EXCEPT !.opens = TRUE] \in Orders
  BY StopsFacts DEF NoOrder, Orders

\* A tick without a position keeps the invariant ...
LEMMA FlatTickStep ==
  ASSUME TrendInv, NEW direction \in Directions \cup {NIL}, FlatTick(direction)
  PROVE  TrendInv'
<1>0. PICK m \in MetricsAfter(direction) : \E a \in AssessTick(direction, m, TRUE) :
        /\ metrics' = m /\ breakout' = BreakoutAfter(direction)
        /\ detector' = a.detector /\ candle' = a.candle
        /\ \/ UNCHANGED <<position, order>>
           \/ /\ position' \in Entries(direction, a.detector)
              /\ order' = [NoOrder EXCEPT !.opens = TRUE]
  BY DEF FlatTick
<1>1. PICK a \in AssessTick(direction, m, TRUE) :
        /\ metrics' = m /\ breakout' = BreakoutAfter(direction)
        /\ detector' = a.detector /\ candle' = a.candle
        /\ \/ UNCHANGED <<position, order>>
           \/ /\ position' \in Entries(direction, a.detector)
              /\ order' = [NoOrder EXCEPT !.opens = TRUE]
  BY <1>0
<1>2. Judgeable
  BY DEF TrendInv, TrendTypeOK, Judgeable
<1>3. /\ a.detector \in TrendStates /\ a.candle \in Candle
      /\ a.candle.seen # NIL /\ a.candle.closed_outside => a.candle.out = a.candle.seen
      /\ a.detector \in Active => BreakoutAfter(direction) \in Breakout /\ m \in Metrics
  BY <1>2, AssessTickResult
<1>4. m \in Metrics \cup {NIL} /\ BreakoutAfter(direction) \in Breakout \cup {NIL}
  BY <1>2, MetricsAfterType, BreakoutAfterType DEF Judgeable
<1>5. Assessed' /\ TrackedClose'
  BY <1>1, <1>3 DEF Assessed, TrackedClose
<1>6. CASE UNCHANGED <<position, order>>
  BY <1>1, <1>3, <1>4, <1>5, <1>6
     DEF TrendInv, TrendTypeOK, OrdersHavePosition, PlainTrend, OrderTightens, Trending
<1>7. CASE /\ position' \in Entries(direction, a.detector)
           /\ order' = [NoOrder EXCEPT !.opens = TRUE]
  <2>1. position' \in Position /\ PlainTrend(position)' /\ position' # NIL
    BY <1>3, <1>7, EntryType, NilAssumption DEF PlainTrend
  <2>2. order'.stop = 0 /\ order'.protective = 0 /\ order'.before = NIL
    BY <1>7 DEF NoOrder
  <2>3. TrendTypeOK'
    BY <1>1, <1>3, <1>4, <1>7, <2>1, NoOrderType DEF TrendInv, TrendTypeOK
  <2> QED BY <1>5, <2>1, <2>2, <2>3
          DEF TrendInv, OrdersHavePosition, PlainTrend, OrderTightens
<1> QED BY <1>1, <1>6, <1>7

\* A revision of the take profits never touches a trend, leaves a runner one and only
\* tightens its stop.
LEMMA RevisionsType ==
  ASSUME NEW p \in Position, PlainTrend(p), NEW candidate \in Stops,
         NEW r \in Revisions(p, candidate)
  PROVE  /\ r \in Position /\ PlainTrend(r) /\ r.regime = p.regime /\ r.stop = p.stop
         /\ Trending(p) => r = p
         /\ p.stage = "runner" => r.stage = "runner" /\ r.protective >= p.protective
<1>0. p.protective \in Stops /\ p.protective \in Nat
  BY StopsFacts DEF Position
<1>1. CASE r = p
  BY <1>0, <1>1
<1>2. CASE r # p /\ p.stage = "runner"
  <2>1. PICK c \in {candidate} \ {0} : r = [p EXCEPT !.protective = RunnerStop(@, c)]
    BY <1>2 DEF Revisions
  <2>2. /\ RunnerStop(p.protective, c) \in Stops
        /\ RunnerStop(p.protective, c) >= p.protective
    BY <1>0, RunnerStopTightens
  <2>3. ~Trending(p)
    BY <1>2 DEF Revisions
  <2>4. r \in Position /\ r.protective = RunnerStop(p.protective, c)
        /\ r.regime = p.regime /\ r.stop = p.stop /\ r.stage = p.stage
    BY <2>1, <2>2 DEF Position
  <2> QED BY <1>2, <2>2, <2>3, <2>4, NilAssumption DEF PlainTrend
<1>3. CASE r # p /\ p.stage \in {"middle", "waiting"}
  <2>1. r = [p EXCEPT !.protective = PartStop(@, candidate)] /\ ~Trending(p)
    BY <1>3 DEF Revisions
  <2>2. PartStop(p.protective, candidate) \in Stops
    BY <1>0 DEF PartStop
  <2>3. r \in Position /\ r.regime = p.regime /\ r.stop = p.stop /\ r.stage = p.stage
    BY <2>1, <2>2 DEF Position
  <2> QED BY <1>3, <2>1, <2>3, NilAssumption DEF PlainTrend
<1>4. CASE r # p /\ p.stage \in {"plain", "three"}
  <2>1. r = [p EXCEPT !.stage = "plain"] /\ ~Trending(p)
    BY <1>4 DEF Revisions
  <2> QED BY <1>4, <2>1 DEF Position, PlainTrend, Stages
<1> QED BY <1>1, <1>2, <1>3, <1>4 DEF Position, Stages

\* A new stop of a trend is tighter than the one in force.
LEMMA NewStopsTighten ==
  ASSUME NEW p \in Position, NEW middle \in 1 .. StopLevels, NEW stop \in NewStops(p, middle)
  PROVE  /\ stop \in Stops
         /\ stop # 0 => Trending(p) /\ stop > p.stop
  BY StopsFacts DEF NewStops, Tightens

\* A trend position is not upgraded again, and an upgrade leaves the stage as it was.
LEMMA UpgradesType ==
  ASSUME NEW p \in Position, PlainTrend(p), NEW direction \in Directions \cup {NIL},
         NEW s \in TrendStates, NEW middle \in 1 .. StopLevels,
         NEW u \in Upgrades(p, direction, s, middle)
  PROVE  /\ u.position \in Position /\ PlainTrend(u.position) /\ u.addon \in Stops
         /\ u.position.stage = p.stage /\ u.position.protective = p.protective
         /\ Trending(p) => u.position = p
<1>0. middle \in Stops /\ 0 \in Stops
  BY StopsFacts
<1>1. CASE u = [position |-> p, addon |-> 0]
  BY <1>0, <1>1
<1>2. CASE u # [position |-> p, addon |-> 0]
  <2>1. /\ p.stage = "runner" /\ p.regime # "TREND_UPGRADE_ADDON"
        /\ \E stop \in AddonStops(middle) :
             u = [position |-> IF p.regime = "TREND_UPGRADE" THEN p
                               ELSE [p EXCEPT !.regime = "TREND_UPGRADE", !.stop = middle],
                  addon |-> stop]
    BY <1>2 DEF Upgrades, UpgradeAllowed
  <2>2. u.addon \in Stops
    BY <1>0, <2>1 DEF AddonStops
  <2>3. CASE p.regime = "TREND_UPGRADE"
    <3>1. u.position = p
      BY <2>1, <2>3
    <3> QED BY <2>2, <3>1
  <2>4. CASE p.regime # "TREND_UPGRADE"
    <3>1. u.position = [p EXCEPT !.regime = "TREND_UPGRADE", !.stop = middle]
      BY <2>1, <2>4
    <3>2. u.position \in Position /\ u.position.regime = "TREND_UPGRADE"
          /\ u.position.stage = p.stage /\ u.position.protective = p.protective
      BY <1>0, <3>1 DEF Position, TrendRegimes
    <3>3. ~Trending(p)
      BY <2>1, <2>4, NilAssumption DEF Trending, TrendRegimes, PlainTrend, Position
    <3> QED BY <2>2, <3>2, <3>3 DEF PlainTrend
  <2> QED BY <2>3, <2>4
<1> QED BY <1>1, <1>2

\* What the commands of a tick carry.
LEMMA OrderOfType ==
  ASSUME position \in Position, NEW r \in Position, NEW stop \in Stops, NEW addon \in Stops
  PROVE  LET o == OrderOf(r, stop, addon)
         IN /\ o \in Orders
            /\ o.stop = stop /\ o.addon = addon
            /\ o.before = NIL \/ o.before = position
            /\ o.protective # 0 => o.protective = r.protective /\ o.before = position
<1>1. r.protective \in Stops /\ 0 \in Stops
  BY StopsFacts DEF Position
<1>2. CASE r = position /\ stop = 0 /\ addon = 0
  BY <1>1, <1>2 DEF OrderOf, NoOrder, Orders
<1>3. CASE ~(r = position /\ stop = 0 /\ addon = 0)
  BY <1>1, <1>3 DEF OrderOf, NoOrder, Orders
<1> QED BY <1>2, <1>3

\* The records of a tick with a position, whether or not the trend was assessed.
LEMMA HeldResult ==
  ASSUME Judgeable, NEW direction \in Directions \cup {NIL},
         NEW m \in MetricsAfter(direction), NEW r, NEW a \in HeldAssessments(r, direction, m),
         metrics' = m, detector' = a.detector, candle' = a.candle,
         breakout' = IF IsAssessed(r) THEN BreakoutAfter(direction) ELSE breakout
  PROVE  Judgeable'
<1>1. m \in Metrics \cup {NIL} /\ (metrics \in Metrics => m \in Metrics)
  BY MetricsAfterType DEF Judgeable
<1>2. BreakoutAfter(direction) \in Breakout \cup {NIL}
  BY BreakoutAfterType DEF Judgeable
<1>3. CASE IsAssessed(r)
  <2>1. a \in AssessTick(direction, m, FALSE)
    BY <1>3 DEF HeldAssessments
  <2> QED BY <1>1, <1>2, <1>3, <2>1, AssessTickResult DEF Judgeable, Assessed, TrackedClose
<1>4. CASE ~IsAssessed(r)
  <2>1. a.detector = detector /\ a.candle = candle
    BY <1>4 DEF HeldAssessments, Assessment
  <2> QED BY <1>1, <1>4, <2>1 DEF Judgeable, Assessed, TrackedClose
<1> QED BY <1>3, <1>4

\* What a tick with a position does to it, and what it orders.
LEMMA ManagedTickEffect ==
  ASSUME TrendInv, NEW direction \in Directions \cup {NIL}, ManagedTick(direction)
  PROVE  /\ Judgeable' /\ order = NoOrder
         /\ position \in Position /\ position' \in Position /\ PlainTrend(position')
         /\ order' \in Orders
         /\ Trending(position) => position' = position
         /\ position.stage = "runner" =>
              position'.stage = "runner" /\ position'.protective >= position.protective
         /\ order'.stop # 0 => Trending(position) /\ order'.stop > position.stop
         /\ order'.before = NIL \/ order'.before = position
         /\ order'.protective # 0 /\ position.stage = "runner" =>
              order'.protective >= position'.protective
         /\ order'.protective # 0 => order'.before = position
<1>1. PICK m \in MetricsAfter(direction), middle \in 1 .. StopLevels, candidate \in Stops :
        \E r \in Revisions(position, candidate), stop \in NewStops(position, middle) :
          \E a \in HeldAssessments(r, direction, m) :
            /\ metrics' = m /\ detector' = a.detector /\ candle' = a.candle
            /\ breakout' = IF IsAssessed(r) THEN BreakoutAfter(direction) ELSE breakout
            /\ \E u \in Upgrades(r, direction, a.detector, middle) :
                 \/ position' = u.position /\ order' = OrderOf(r, stop, u.addon)
                 \/ position' = position /\ order' = OrderOf(r, stop, 0)
  BY DEF ManagedTick
<1>2. PICK r \in Revisions(position, candidate), stop \in NewStops(position, middle) :
        \E a \in HeldAssessments(r, direction, m) :
            /\ metrics' = m /\ detector' = a.detector /\ candle' = a.candle
            /\ breakout' = IF IsAssessed(r) THEN BreakoutAfter(direction) ELSE breakout
            /\ \E u \in Upgrades(r, direction, a.detector, middle) :
                 \/ position' = u.position /\ order' = OrderOf(r, stop, u.addon)
                 \/ position' = position /\ order' = OrderOf(r, stop, 0)
  BY <1>1
<1>3. PICK a \in HeldAssessments(r, direction, m) :
            /\ metrics' = m /\ detector' = a.detector /\ candle' = a.candle
            /\ breakout' = IF IsAssessed(r) THEN BreakoutAfter(direction) ELSE breakout
            /\ \E u \in Upgrades(r, direction, a.detector, middle) :
                 \/ position' = u.position /\ order' = OrderOf(r, stop, u.addon)
                 \/ position' = position /\ order' = OrderOf(r, stop, 0)
  BY <1>2
<1>4. PICK u \in Upgrades(r, direction, a.detector, middle) :
         \/ position' = u.position /\ order' = OrderOf(r, stop, u.addon)
         \/ position' = position /\ order' = OrderOf(r, stop, 0)
  BY <1>3
<1>5. Judgeable
  BY DEF TrendInv, TrendTypeOK, Judgeable
<1>6. Judgeable'
  BY <1>3, <1>5, HeldResult
<1>7. position \in Position /\ PlainTrend(position) /\ order = NoOrder
  BY DEF ManagedTick, TrendInv, TrendTypeOK
<1>8. /\ r \in Position /\ PlainTrend(r) /\ r.regime = position.regime
      /\ r.stop = position.stop
      /\ Trending(position) => r = position
      /\ position.stage = "runner" =>
           r.stage = "runner" /\ r.protective >= position.protective
  BY <1>7, RevisionsType
<1>9. a.detector \in TrendStates
  BY <1>3, <1>6 DEF Judgeable
<1>10. /\ u.position \in Position /\ PlainTrend(u.position) /\ u.addon \in Stops
       /\ u.position.stage = r.stage /\ u.position.protective = r.protective
       /\ Trending(r) => u.position = r
  BY <1>8, <1>9, UpgradesType
<1>11. stop \in Stops /\ (stop # 0 => Trending(position) /\ stop > position.stop)
  BY <1>7, NewStopsTighten
<1>12. \A addon \in Stops :
         LET o == OrderOf(r, stop, addon)
         IN /\ o \in Orders
            /\ o.stop = stop /\ o.addon = addon
            /\ o.before = NIL \/ o.before = position
            /\ o.protective # 0 => o.protective = r.protective /\ o.before = position
  BY <1>7, <1>8, <1>11, OrderOfType
<1>13. /\ order' \in Orders
       /\ order'.stop = stop
       /\ order'.before = NIL \/ order'.before = position
       /\ order'.protective # 0 => order'.protective = r.protective /\ order'.before = position
  BY <1>4, <1>10, <1>12, StopsFacts
<1>14. position.protective \in Nat /\ r.protective \in Nat
  BY <1>7, <1>8, StopsFacts DEF Position
<1>15. CASE position' = position
  BY <1>6, <1>7, <1>8, <1>11, <1>13, <1>14, <1>15
<1>16. CASE position' = u.position
  BY <1>6, <1>7, <1>8, <1>10, <1>11, <1>13, <1>14, <1>16
<1> QED BY <1>4, <1>15, <1>16

\* ... so does a tick that manages one ...
LEMMA ManagedTickStep ==
  ASSUME TrendInv, NEW direction \in Directions \cup {NIL}, ManagedTick(direction)
  PROVE  TrendInv'
<1>1. /\ Judgeable'
      /\ position \in Position /\ position' \in Position /\ PlainTrend(position')
      /\ order' \in Orders
      /\ Trending(position) => position' = position
      /\ position.stage = "runner" =>
           position'.stage = "runner" /\ position'.protective >= position.protective
      /\ order'.stop # 0 => Trending(position) /\ order'.stop > position.stop
      /\ order'.before = NIL \/ order'.before = position
      /\ order'.protective # 0 /\ position.stage = "runner" =>
           order'.protective >= position'.protective
      /\ order'.protective # 0 => order'.before = position
  BY ManagedTickEffect
<1>2. TrendTypeOK' /\ Assessed' /\ TrackedClose'
  BY <1>1 DEF Judgeable, TrendTypeOK
<1>3. OrdersHavePosition' /\ PlainTrend(position)' /\ PlainTrend(order.before)'
  BY <1>1, NilAssumption DEF OrdersHavePosition, PlainTrend, TrendInv
<1>4. position.stop \in Nat /\ order'.stop \in Nat
  BY <1>1, StopsFacts DEF Position, Orders
<1>5. OrderTightens'
  BY <1>1, <1>4, NilAssumption DEF OrderTightens, Trending
<1> QED BY <1>2, <1>3, <1>5 DEF TrendInv

\* What is left to do after the first command.
LEMMA RestType ==
  ASSUME order \in Orders
  PROVE  /\ Rest \in Orders /\ Rest.stop = 0 /\ Rest.protective = 0
         /\ Rest.before = NIL \/ Rest.before = order.before
<1>1. CASE order.addon = 0 \/ (order.protective = 0 /\ order.stop = 0)
  BY <1>1, NoOrderType DEF Rest, NoOrder
<1>2. CASE ~(order.addon = 0 \/ (order.protective = 0 /\ order.stop = 0))
  BY <1>2, StopsFacts DEF Rest, Orders
<1> QED BY <1>1, <1>2

\* A command that is done brings its stop, which is no looser than the one in force.
LEMMA CommandDoneEffect ==
  ASSUME TrendInv, CommandDone
  PROVE  /\ position \in Position /\ position' \in Position /\ PlainTrend(position')
         /\ Trending(position) => Trending(position')
         /\ Trending(position) # Trending(position') => order.addon # 0
         /\ position'.stage = position.stage
         /\ \/ TightStop(position') >= TightStop(position)
            \/ order.addon # 0 /\ order'.addon = 0
            \/ ~Trending(position) /\ position.stage # "runner"
            \/ Trending(position) # Trending(position')
<1>1. position \in Position /\ PlainTrend(position) /\ order \in Orders
  BY DEF CommandDone, TrendInv, TrendTypeOK, OrdersHavePosition
<1>2. /\ position.stop \in Nat /\ position.protective \in Nat
      /\ order.stop \in Stops /\ order.protective \in Stops /\ order.addon \in Stops
      /\ Stops \subseteq Nat
  BY <1>1, StopsFacts DEF Position, Orders
<1>3. OrderTightens
  BY DEF TrendInv
<1>4. CASE order.protective # 0
  <2>1. position' = WithProtective(position)
    BY <1>4 DEF CommandDone
  <2>2. CASE position.stage = order.before.stage
    <3>1. position' = [position EXCEPT !.protective = order.protective]
      BY <2>1, <2>2 DEF WithProtective
    <3>2. /\ position' \in Position /\ position'.regime = position.regime
          /\ position'.stage = position.stage /\ position'.stop = position.stop
          /\ position'.protective = order.protective
      BY <1>1, <1>2, <3>1 DEF Position
    <3>3. position.stage = "runner" => order.protective >= position.protective
      BY <1>3, <1>4, <2>2 DEF OrderTightens
    <3>4. Trending(position') = Trending(position)
      BY <3>2 DEF Trending
    <3>5. CASE Trending(position)
      BY <1>1, <1>2, <3>2, <3>4, <3>5, NilAssumption DEF PlainTrend, TightStop
    <3>6. CASE ~Trending(position)
      BY <1>1, <1>2, <3>2, <3>3, <3>4, <3>6, NilAssumption DEF PlainTrend, TightStop
    <3> QED BY <3>5, <3>6
  <2>3. CASE position.stage # order.before.stage
    <3>1. position' = position
      BY <2>1, <2>3 DEF WithProtective
    <3> QED BY <1>1, <1>2, <3>1 DEF TightStop
  <2> QED BY <2>2, <2>3
<1>5. CASE order.protective = 0 /\ order.stop # 0
  <2>1. position' = [position EXCEPT !.stop = order.stop]
    BY <1>5 DEF CommandDone
  <2>2. /\ position' \in Position /\ position'.regime = position.regime
        /\ position'.stage = position.stage /\ position'.stop = order.stop
    BY <1>1, <1>2, <2>1 DEF Position
  <2>3. Trending(position) /\ order.stop >= position.stop
    BY <1>3, <1>5 DEF OrderTightens
  <2>4. Trending(position') = Trending(position)
    BY <2>2 DEF Trending
  <2> QED BY <1>1, <2>2, <2>3, <2>4, NilAssumption DEF PlainTrend, TightStop
<1>6. CASE order.protective = 0 /\ order.stop = 0 /\ order.addon # 0
  <2>1. position' = [position EXCEPT !.regime = "TREND_UPGRADE_ADDON", !.stop = order.addon]
    BY <1>6 DEF CommandDone
  <2>2. /\ position' \in Position /\ position'.regime = "TREND_UPGRADE_ADDON"
        /\ position'.stage = position.stage
    BY <1>1, <1>2, <2>1 DEF Position, TrendRegimes
  <2>3. order' = NoOrder
    BY <1>6 DEF CommandDone, Rest
  <2>4. Trending(position') /\ order'.addon = 0
    BY <2>2, <2>3 DEF Trending, TrendRegimes, NoOrder
  <2> QED BY <1>1, <1>6, <2>2, <2>4 DEF PlainTrend
<1>7. CASE order.protective = 0 /\ order.stop = 0 /\ order.addon = 0
  <2>1. position' = position
    BY <1>7 DEF CommandDone
  <2> QED BY <1>1, <1>2, <2>1 DEF TightStop
<1> QED BY <1>4, <1>5, <1>6, <1>7

\* ... the result of the order it sent ...
LEMMA CommandDoneStep ==
  ASSUME TrendInv, CommandDone
  PROVE  TrendInv'
<1>1. position' \in Position /\ PlainTrend(position') /\ (Trending(position) => Trending(position'))
  BY CommandDoneEffect
<1>2. order' = Rest /\ UNCHANGED <<breakout, detector, candle, metrics>>
  BY DEF CommandDone
<1>3. /\ Rest \in Orders /\ Rest.stop = 0 /\ Rest.protective = 0
      /\ Rest.before = NIL \/ Rest.before = order.before
  BY RestType DEF TrendInv, TrendTypeOK
<1>4. TrendTypeOK'
  BY <1>1, <1>2, <1>3 DEF TrendInv, TrendTypeOK
<1>5. /\ Assessed' /\ TrackedClose' /\ OrdersHavePosition'
      /\ PlainTrend(position)' /\ PlainTrend(order.before)'
  BY <1>1, <1>2, <1>3, NilAssumption
     DEF TrendInv, Assessed, TrackedClose, OrdersHavePosition, PlainTrend
<1>6. OrderTightens'
  BY <1>1, <1>2, <1>3 DEF TrendInv, OrderTightens, Trending
<1> QED BY <1>4, <1>5, <1>6 DEF TrendInv

\* ... and its failure, which brings the position before it back.
LEMMA CommandFailedStep ==
  ASSUME TrendInv, CommandFailed
  PROVE  TrendInv'
<1>1. position' \in {position, order.before} /\ UNCHANGED <<breakout, detector, candle, metrics>>
  BY DEF CommandFailed
<1>2. order' = IF position' = NIL THEN NoOrder ELSE Rest
  BY DEF CommandFailed
<1>3. position \in Position \cup {NIL} /\ order.before \in Position \cup {NIL} /\ order \in Orders
  BY DEF TrendInv, TrendTypeOK, Orders
<1>4. /\ order' \in Orders /\ order'.stop = 0 /\ order'.protective = 0
      /\ order'.before = NIL \/ order'.before = order.before
  BY <1>2, <1>3, RestType, NoOrderType DEF NoOrder
<1>5. TrendTypeOK'
  BY <1>1, <1>3, <1>4 DEF TrendInv, TrendTypeOK
<1>6. /\ Assessed' /\ TrackedClose' /\ OrdersHavePosition'
      /\ PlainTrend(position)' /\ PlainTrend(order.before)'
  BY <1>1, <1>2, <1>4
     DEF TrendInv, Assessed, TrackedClose, OrdersHavePosition, PlainTrend
<1>7. OrderTightens'
  BY <1>1, <1>4 DEF TrendInv, OrderTightens, Trending
<1> QED BY <1>5, <1>6, <1>7 DEF TrendInv

\* A position moved to a stage with a stop is one, with the rest as it was.
LEMMA MovedOnType ==
  ASSUME NEW p \in Position, NEW stage \in Stages, NEW stop \in Stops
  PROVE  /\ [p EXCEPT !.stage = stage, !.protective = stop] \in Position
         /\ [p EXCEPT !.stage = stage, !.protective = stop].regime = p.regime
         /\ [p EXCEPT !.stage = stage, !.protective = stop].stop = p.stop
         /\ [p EXCEPT !.stage = stage, !.protective = stop].stage = stage
BY DEF Position

\* A sale moves a position on, whose stop it takes back.
LEMMA PartSoldStep ==
  ASSUME TrendInv, FirstPartSold \/ SecondPartSold
  PROVE  TrendInv'
<1>1. position \in Position /\ order \in Orders
  BY DEF FirstPartSold, SecondPartSold, TrendInv, TrendTypeOK
<1>2. UNCHANGED <<breakout, detector, candle, metrics, order>>
  BY DEF FirstPartSold, SecondPartSold
<1>3. /\ position' \in Position /\ position'.regime = position.regime
      /\ position'.stop = position.stop
      /\ position'.stage = "runner" => position'.protective = 0
      /\ \/ ~Trending(position)
         \/ position'.stage = "runner" /\ position.stage \in {"three", "waiting"}
  <2>1. CASE FirstPartSold
    <3>1. ~Trending(position) /\ position.stage \in {"plain", "three"}
      BY <2>1 DEF FirstPartSold
    <3>2. PICK stop \in Stops, stage \in {"middle", "waiting"} :
            position' = [position EXCEPT !.stage = stage, !.protective = stop]
      BY <2>1 DEF FirstPartSold
    <3>3. stage \in Stages /\ stage # "runner"
      BY <3>2 DEF Stages
    <3>4. position' \in Position
      BY <1>1, <3>2, <3>3, MovedOnType
    <3>5. /\ position'.regime = position.regime /\ position'.stop = position.stop
          /\ position'.stage = stage
      BY <1>1, <3>2 DEF Position
    <3> QED BY <3>1, <3>3, <3>4, <3>5
  <2>2. CASE SecondPartSold
    BY <1>1, <2>2, StopsFacts DEF SecondPartSold, Position, Stages
  <2> QED BY <2>1, <2>2
<1>4. Trending(position') = Trending(position) /\ position' # NIL
  BY <1>3, NilAssumption DEF Trending
<1>5. PlainTrend(position')
  BY <1>1, <1>3, NilAssumption DEF TrendInv, PlainTrend, Trending, TrendRegimes
<1>6. order.protective \in Nat
  BY <1>1, StopsFacts DEF Orders
<1>7. OrderTightens'
  BY <1>2, <1>3, <1>4, <1>6 DEF TrendInv, OrderTightens, Trending
<1> QED BY <1>1, <1>2, <1>3, <1>4, <1>5, <1>7
        DEF TrendInv, TrendTypeOK, Assessed, TrackedClose, OrdersHavePosition, PlainTrend

\* A settled flat or a restart leaves no command.
LEMMA ForgottenStep ==
  ASSUME TrendInv, PositionGone \/ TrendRestart
  PROVE  TrendInv'
<1>1. order' = NoOrder /\ NoOrder \in Orders /\ NoOrder.stop = 0 /\ NoOrder.protective = 0
      /\ NoOrder.before = NIL
  BY NoOrderType DEF PositionGone, TrendRestart, NoOrder
<1>2. position' \in Position \cup {NIL} /\ PlainTrend(position')
  <2>1. CASE position' = NIL
    BY <2>1 DEF PlainTrend
  <2>2. ASSUME NEW saved \in {position, order.before} \ {NIL},
               position' = [saved EXCEPT !.regime = NIL, !.stop = 0]
        PROVE  position' \in Position \cup {NIL} /\ PlainTrend(position')
    <3>1. saved \in Position
      BY <2>2 DEF TrendInv, TrendTypeOK, Orders
    <3>2. position' \in Position /\ position'.regime = NIL
      BY <2>2, <3>1, StopsFacts DEF Position
    <3> QED BY <3>2, NilAssumption DEF PlainTrend, TrendRegimes
  <2> QED BY <2>1, <2>2 DEF PositionGone, TrendRestart
<1>3. OrdersHavePosition' /\ PlainTrend(order.before)' /\ OrderTightens'
  BY <1>1 DEF OrdersHavePosition, PlainTrend, OrderTightens
<1>4. /\ breakout' \in Breakout \cup {NIL} /\ metrics' \in Metrics \cup {NIL}
      /\ detector' \in TrendStates /\ candle' \in Candle /\ Assessed' /\ TrackedClose'
  <2>1. CASE PositionGone
    BY <2>1 DEF PositionGone, TrendInv, TrendTypeOK, Assessed, TrackedClose
  <2>2. CASE TrendRestart
    BY <2>2, ResetCandleCloseType
       DEF TrendRestart, TrendInv, TrendTypeOK, Assessed, TrackedClose, TrendStates, Active
  <2> QED BY <2>1, <2>2
<1> QED BY <1>1, <1>2, <1>3, <1>4 DEF TrendInv, TrendTypeOK

\* What takes a record of its own: an exit is sent, a candle closes, time goes by.
LEMMA ExitTickStep ==
  ASSUME TrendInv, ExitTick
  PROVE  TrendInv'
<1>1. position \in Position /\ UNCHANGED <<breakout, detector, candle, metrics, position>>
  BY DEF ExitTick, TrendInv, TrendTypeOK
<1>2. /\ order' \in Orders /\ order'.stop = 0 /\ order'.protective = 0
      /\ order'.before = position
  BY <1>1, StopsFacts DEF ExitTick, NoOrder, Orders
<1>3. OrderTightens'
  BY <1>1, <1>2 DEF OrderTightens, Trending
<1> QED BY <1>1, <1>2, <1>3, NilAssumption
        DEF TrendInv, TrendTypeOK, Assessed, TrackedClose, OrdersHavePosition, PlainTrend

\* The candle that closes keeps the invariant ...
LEMMA CandleClosedStep ==
  ASSUME TrendInv, NEW out \in Directions \cup {"inside"}, CandleClosed(out)
  PROVE  TrendInv'
<1>1. candle' \in Candle /\ candle'.seen = NIL
  BY DEF CandleClosed, Candle, TrendInv, TrendTypeOK
<1> QED BY <1>1 DEF CandleClosed, TrendInv, TrendTypeOK, Assessed, TrackedClose,
                    OrdersHavePosition, PlainTrend, OrderTightens, Trending

\* ... and so does the age of the breakout.
LEMMA BreakoutAgesStep ==
  ASSUME TrendInv, BreakoutAges
  PROVE  TrendInv'
<1>1. breakout' \in Breakout
  BY DEF BreakoutAges, Breakout, Ages, TrendInv, TrendTypeOK
<1> QED BY <1>1 DEF BreakoutAges, TrendInv, TrendTypeOK, Assessed, TrackedClose,
                    OrdersHavePosition, PlainTrend, OrderTightens, Trending

\* The invariant holds initially: no breakout, no position, no order.
LEMMA TrendInitInvariant == TrendInit => TrendInv
<1> SUFFICES ASSUME TrendInit PROVE TrendInv
  OBVIOUS
<1>1. NoOrder.stop = 0 /\ NoOrder.protective = 0 /\ NoOrder.before = NIL
  BY DEF NoOrder
<1>2. candle \in Candle /\ candle.seen = NIL
  BY DEF TrendInit, Candle
<1>3. detector \in TrendStates /\ detector \notin Active
  BY DEF TrendInit, TrendStates, Active
<1> QED BY <1>1, <1>2, <1>3, NoOrderType
        DEF TrendInit, TrendInv, TrendTypeOK, Assessed, TrackedClose, OrdersHavePosition,
            PlainTrend, OrderTightens

\* Every step of the trend regime, and a stutter, keeps the invariant.
LEMMA TrendStepInvariant == TrendInv /\ [TrendNext]_trend_vars => TrendInv'
<1> SUFFICES ASSUME TrendInv, [TrendNext]_trend_vars PROVE TrendInv'
  OBVIOUS
<1>1. ASSUME NEW direction \in Directions \cup {NIL},
             FlatTick(direction) \/ ManagedTick(direction)
      PROVE  TrendInv'
  BY <1>1, FlatTickStep, ManagedTickStep
<1>2. ASSUME NEW out \in Directions \cup {"inside"}, CandleClosed(out) PROVE TrendInv'
  BY <1>2, CandleClosedStep
<1>3. CASE BreakoutAges \/ ExitTick
  BY <1>3, BreakoutAgesStep, ExitTickStep
<1>4. CASE CommandDone \/ CommandFailed
  BY <1>4, CommandDoneStep, CommandFailedStep
<1>5. CASE FirstPartSold \/ SecondPartSold
  BY <1>5, PartSoldStep
<1>6. CASE PositionGone \/ TrendRestart
  BY <1>6, ForgottenStep
<1>7. CASE UNCHANGED trend_vars
  BY <1>7 DEF trend_vars, TrendInv, TrendTypeOK, Assessed, TrackedClose,
              OrdersHavePosition, PlainTrend, OrderTightens, Trending
<1> QED BY <1>1, <1>2, <1>3, <1>4, <1>5, <1>6, <1>7 DEF TrendNext

-----------------------------------------------------------------------------
(* The theorems.                                                           *)

\* What relates the records of the trend regime holds on every tick.
THEOREM TrendInvariantCorrect == TrendSpec => []TrendInv
BY TrendInitInvariant, TrendStepInvariant, PTL DEF TrendSpec

\* The records of the breakout, the detector, the metrics and the position keep to the
\* values the code gives them.
THEOREM TrendTypeCorrect == TrendSpec => []TrendTypeOK
<1>1. TrendInv => TrendTypeOK
  BY DEF TrendInv
<1> QED BY TrendInvariantCorrect, <1>1, PTL

\* A trend is entered only on a closed candle that closed beyond the band on its side,
\* unless that candle had been looked at for a breakout of the other side.
THEOREM TrendEntryCorrect == TrendSpec => TrendEntryHasItsClose
<1>1. TrendInv /\ [TrendNext]_trend_vars =>
        [position = NIL /\ position' # NIL /\ position'.regime = "TREND_BREAKOUT" =>
           \E direction \in Directions :
             /\ SideOf(direction) = position'.side
             /\ candle'.out = direction \/ candle.seen \notin {NIL, direction}]_trend_vars
  <2> SUFFICES ASSUME TrendInv, TrendNext, position = NIL, position' # NIL,
                      position'.regime = "TREND_BREAKOUT"
               PROVE  \E direction \in Directions :
                        /\ SideOf(direction) = position'.side
                        /\ candle'.out = direction \/ candle.seen \notin {NIL, direction}
    OBVIOUS
  <2>1. order = NoOrder /\ NoOrder.before = NIL
    BY DEF TrendInv, OrdersHavePosition, NoOrder
  <2>2. \A saved \in {position, order.before} : saved = NIL
    BY <2>1
  <2>3. PICK direction \in Directions \cup {NIL} : FlatTick(direction)
    BY <2>1, <2>2 DEF TrendNext, ManagedTick, CandleClosed, BreakoutAges, ExitTick,
       CommandDone, CommandFailed, FirstPartSold, SecondPartSold, PositionGone, TrendRestart
  <2>4. PICK m \in MetricsAfter(direction) : \E a \in AssessTick(direction, m, TRUE) :
          candle' = a.candle /\ position' \in Entries(direction, a.detector)
    BY <2>3 DEF FlatTick
  <2>5. PICK a \in AssessTick(direction, m, TRUE) :
          candle' = a.candle /\ position' \in Entries(direction, a.detector)
    BY <2>4
  <2>6. Judgeable
    BY DEF TrendInv, TrendTypeOK, Judgeable
  <2>7. a.detector \in TrendStates
    BY <2>6, AssessTickResult
  <2>8. /\ direction # NIL /\ a.detector = "TREND_CONFIRMED"
        /\ position'.side = SideOf(direction)
    BY <2>5, <2>7, EntryType
  <2>9. a.candle.out = direction \/ candle.seen \notin {NIL, direction}
    BY <2>6, <2>8, AssessTickResult
  <2> QED BY <2>5, <2>8, <2>9
<1> QED BY TrendInvariantCorrect, <1>1, PTL DEF TrendSpec, TrendEntryHasItsClose

\* The stop of a runner or of a trend position never loosens from one step to the next,
\* though it is computed on one tick and applied when its command is done.
THEOREM TrendStopCorrect == TrendSpec => TrendStopTightens
<1>1. TrendInv /\ [TrendNext]_trend_vars =>
        [\/ position = NIL \/ position' = NIL
         \/ Trending(position) # Trending(position')
         \/ ~Trending(position) /\ ~(position.stage = "runner" /\ position'.stage = "runner")
         \/ TightStop(position') >= TightStop(position)
         \/ order.addon # 0 /\ order'.addon = 0
         \/ order.before # NIL /\ TightStop(position') = TightStop(order.before)]_trend_vars
  <2> DEFINE Promised == \/ position = NIL \/ position' = NIL
                         \/ Trending(position) # Trending(position')
                         \/ /\ ~Trending(position)
                            /\ ~(position.stage = "runner" /\ position'.stage = "runner")
                         \/ TightStop(position') >= TightStop(position)
                         \/ order.addon # 0 /\ order'.addon = 0
                         \/ order.before # NIL /\ TightStop(position') = TightStop(order.before)
  <2> SUFFICES ASSUME TrendInv, TrendNext, position # NIL PROVE Promised
    OBVIOUS
  <2>1. position \in Position /\ TightStop(position) \in Nat
    BY StopsFacts DEF TrendInv, TrendTypeOK, Position, TightStop
  <2>2. CASE position' = position
    BY <2>1, <2>2
  <2>3. ASSUME NEW direction \in Directions \cup {NIL}, ManagedTick(direction) PROVE Promised
    <3>1. /\ position' \in Position
          /\ Trending(position) => position' = position
          /\ position.stage = "runner" => position'.protective >= position.protective
      BY <2>3, ManagedTickEffect
    <3> QED BY <2>1, <2>2, <3>1 DEF TightStop
  <2>4. CASE CommandDone
    BY <2>4, CommandDoneEffect
  <2>5. CASE CommandFailed
    BY <2>2, <2>5 DEF CommandFailed
  <2>6. CASE FirstPartSold
    BY <2>6 DEF FirstPartSold
  <2>7. CASE SecondPartSold
    <3>1. /\ position.stage # "runner" /\ position'.regime = position.regime
          /\ position'.stop = position.stop
      BY <2>1, <2>7 DEF SecondPartSold, Position
    <3> QED BY <2>1, <3>1 DEF TightStop, Trending
  <2>8. CASE TrendRestart
    <3>1. ASSUME NEW saved \in {position, order.before} \ {NIL},
                 position' = [saved EXCEPT !.regime = NIL, !.stop = 0]
          PROVE  Promised
      <4>1. saved \in Position
        BY <2>1, <3>1 DEF TrendInv, TrendTypeOK, Orders
      <4>2. position'.regime = NIL /\ position'.protective = saved.protective
        BY <3>1, <4>1 DEF Position
      <4>3. ~Trending(position') /\ TightStop(position') = saved.protective
        BY <4>2, NilAssumption DEF Trending, TightStop
      <4>4. ~Trending(position) => ~Trending(saved)
        BY <3>1 DEF TrendInv, OrderTightens
      <4>5. ~Trending(position) => TightStop(position') = TightStop(saved)
        BY <4>3, <4>4 DEF TightStop
      <4> QED BY <2>1, <3>1, <4>3, <4>5
    <3> QED BY <2>8, <3>1 DEF TrendRestart
  <2> QED BY <2>2, <2>3, <2>4, <2>5, <2>6, <2>7, <2>8
          DEF TrendNext, FlatTick, CandleClosed, BreakoutAges, ExitTick, PositionGone
<1> QED BY TrendInvariantCorrect, <1>1, PTL DEF TrendSpec, TrendStopTightens
=============================================================================
