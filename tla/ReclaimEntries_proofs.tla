----------------------- MODULE ReclaimEntries_proofs -----------------------
(***************************************************************************)
(* What is proved of the way to an entry, for any number of prices and of  *)
(* reclaims a setup may miss: no two setups are ever built at once, an     *)
(* entry takes a break of its own band, and no tick ever tears a setup     *)
(* from its trackers.                                                      *)
(*                                                                         *)
(* Every one of them can be broken by what brings an old state back, so    *)
(* each is carried for strategy.state and for the state of pending alike   *)
(* (Sound).  A tick passes a side through some ten operators: each is      *)
(* shown to keep a side valid (StaysValid), and all but those of a break   *)
(* of its band to leave it quiet (Quiet), and the tick is their            *)
(* composition.                                                            *)
(***************************************************************************)
EXTENDS ReclaimEntries, TLAPS

\* A side, its setup and its trackers.
Episodes == [setup : Setup, tracker : Tracker]

\* Version 1 does not observe, so it never anchors the trackers either.
Unobserved(setup) == v2 \/ ~setup.observed

\* A setup that may still become an entry.
Live(setup) == IF v2 THEN setup.observed /\ ~setup.rejected ELSE setup.armed

Valid(x) == x \in Episodes /\ Unobserved(x.setup)

\* What every operator does to a side.
StaysValid(x, y) == Valid(y) /\ (Agree(x.setup, x.tracker) => Agree(y.setup, y.tracker))

\* What every operator does to a side whose band is not broken.
Quiet(x, y) == /\ x.setup = NoSetup => y.setup = NoSetup
               /\ Live(y.setup) => Live(x.setup)

\* What holds of a state and of the sides whose setup may stand, whether it is the
\* strategy's or the one to go back to.  A side that cools down has no setup.
Sound(state, standing) ==
  /\ \E side \in Sides : state.setup[side] = NoSetup
  /\ \A side \in Sides : Unobserved(state.setup[side])
  /\ \A side \in Sides : Live(state.setup[side]) => side \in standing
  /\ \A side \in state.cool : state.setup[side] = NoSetup

ReclaimInv ==
  /\ TypeOK
  /\ Sound(st, broke \cup outlived)
  /\ pending # NONE =>
       st.side # NONE /\ Sound(pending.st, pending.broke \cup pending.outlived)
  /\ TornOnlyByReplacement

-----------------------------------------------------------------------------
(* One side.                                                               *)

\* Prices, depths and the empty setup.
LEMMA DepthFacts ==
  /\ 0 \in Depths /\ Levels \subseteq Depths
  /\ \A d \in Levels : d # 0 /\ d > 0
  /\ Depths \subseteq Nat
  /\ \A side, price : price \in Levels => Depth(side, price) \in Levels
  BY ReclaimAssumption DEF Depths, Levels, Depth

\* No setup and no tracker agree, and there is nothing observed, armed or live in them.
LEMMA NoSetupFacts ==
  /\ NoSetup \in Setup /\ ~NoSetup.observed /\ ~NoSetup.armed /\ ~Live(NoSetup)
  /\ NoTracker \in Tracker /\ NoTracker.flow = 0
  /\ Agree(NoSetup, NoTracker) /\ Unobserved(NoSetup)
<1>1. NoSetup \in Setup
  BY DepthFacts, ReclaimAssumption DEF NoSetup, Setup
<1>2. NoTracker \in Tracker /\ NoTracker.flow = 0
  BY DepthFacts DEF NoTracker, Tracker
<1>3. ~NoSetup.observed /\ ~NoSetup.armed
  BY DEF NoSetup
<1> QED BY <1>1, <1>2, <1>3 DEF Live, Agree, Unobserved

\* A side left as it is stays valid and quiet ...
LEMMA KeptIsReflexive == ASSUME NEW x, Valid(x) PROVE StaysValid(x, x) /\ Quiet(x, x)
BY DEF StaysValid, Quiet

\* ... and what one operator keeps and the next keeps, both keep ...
LEMMA KeptIsTransitive ==
  ASSUME NEW x, NEW y, NEW z, StaysValid(x, y), StaysValid(y, z)
  PROVE  StaysValid(x, z)
BY DEF StaysValid

\* ... as with quiet.
LEMMA QuietIsTransitive ==
  ASSUME NEW x, NEW y, NEW z, Quiet(x, y), Quiet(y, z)
  PROVE  Quiet(x, z)
BY DEF Quiet

\* A reset takes the trackers along.
LEMMA ResetArmedKept ==
  ASSUME NEW x, Valid(x)
  PROVE  /\ StaysValid(x, ResetArmed(x)) /\ Quiet(x, ResetArmed(x))
         /\ ResetArmed(x).setup = NoSetup
<1>1. ResetArmed(x).setup = NoSetup /\ ResetArmed(x).tracker = NoTracker
  BY DEF ResetArmed
<1>2. ResetArmed(x) \in Episodes
  BY NoSetupFacts DEF ResetArmed, Episodes
<1> QED BY <1>1, <1>2, NoSetupFacts DEF StaysValid, Quiet, Valid

\* Resetting an armed setup keeps a side valid and quiet ...
LEMMA ResetIfArmedKept ==
  ASSUME NEW x, Valid(x)
  PROVE  StaysValid(x, ResetIfArmed(x)) /\ Quiet(x, ResetIfArmed(x))
BY ResetArmedKept, KeptIsReflexive DEF ResetIfArmed

\* ... and so does expiring an old one.
LEMMA ExpiredKept ==
  ASSUME NEW x, Valid(x), NEW y \in Expired(x)
  PROVE  StaysValid(x, y) /\ Quiet(x, y)
BY ResetArmedKept, KeptIsReflexive DEF Expired

\* A setup that is made another, its trackers kept: what has to be shown of it.
LEMMA SetupKept ==
  ASSUME NEW x, Valid(x), NEW s \in Setup, s.observed = x.setup.observed
  PROVE  StaysValid(x, [x EXCEPT !.setup = s])
<1>1. /\ [x EXCEPT !.setup = s].setup = s
      /\ [x EXCEPT !.setup = s].tracker = x.tracker
      /\ [x EXCEPT !.setup = s] \in Episodes
  BY DEF Valid, Episodes
<1> QED BY <1>1 DEF StaysValid, Valid, Unobserved, Agree

\* A fractal extreme is judged, confirmed and armed, but neither observed nor let go.
LEMMA OnExtremeType ==
  ASSUME NEW setup \in Setup, NEW e \in Levels, NEW s \in OnExtreme(setup, e)
  PROVE  s \in Setup /\ s.observed = setup.observed /\ s.rejected = setup.rejected
<1>1. e \in Depths
  BY DepthFacts
<1>2. \/ s = setup \/ s = [setup EXCEPT !.previous = e]
      \/ s = [setup EXCEPT !.evaluated = TRUE, !.confirmed = TRUE, !.armed = TRUE,
                           !.divergence = e]
      \/ s = [setup EXCEPT !.evaluated = TRUE, !.previous = e]
  BY DEF OnExtreme
<1> QED BY <1>1, <1>2 DEF Setup

\* The fractal trackers run only for a setup that is observed.
LEMMA TrackingKept ==
  ASSUME NEW x, Valid(x), v2, NEW d \in Levels, NEW y \in Tracking(x, d)
  PROVE  StaysValid(x, y) /\ Quiet(x, y)
<1>1. x \in Episodes /\ x.setup \in Setup /\ x.tracker \in Tracker
  BY DEF Valid, Episodes
<1>2. CASE ~x.setup.observed
  BY <1>2, KeptIsReflexive DEF Tracking
<1>3. CASE x.setup.observed
  <2>1. x.setup # NoSetup
    BY <1>3, NoSetupFacts
  <2>2. CASE y = [x EXCEPT !.tracker = Joined(@, d)]
    <3>1. Joined(x.tracker, d) \in Tracker /\ Joined(x.tracker, d).flow = x.tracker.flow
      BY <1>1 DEF Joined, Tracker
    <3>2. /\ y \in Episodes /\ y.setup = x.setup
          /\ y.tracker = Joined(x.tracker, d)
      BY <1>1, <2>2, <3>1 DEF Episodes
    <3> QED BY <2>1, <3>1, <3>2 DEF StaysValid, Quiet, Valid, Agree
  <2>3. ASSUME NEW e \in Extremes(x.tracker), NEW s \in OnExtreme(x.setup, e),
               y = [setup |-> s, tracker |-> AfterExtreme(x.tracker, d)]
        PROVE  StaysValid(x, y) /\ Quiet(x, y)
    <3>1. e \in Levels
      BY <1>1 DEF Extremes, Tracker
    <3>2. s \in Setup /\ s.observed = x.setup.observed /\ s.rejected = x.setup.rejected
      BY <1>1, <3>1, OnExtremeType
    <3>3. /\ AfterExtreme(x.tracker, d) \in Tracker
          /\ AfterExtreme(x.tracker, d).flow = x.tracker.flow
      BY <1>1 DEF AfterExtreme, Tracker
    <3>4. y \in Episodes /\ y.setup = s /\ y.tracker = AfterExtreme(x.tracker, d)
      BY <2>3, <3>2, <3>3 DEF Episodes
    <3> QED BY <2>1, <3>2, <3>3, <3>4 DEF StaysValid, Quiet, Valid, Agree, Unobserved, Live
  <2> QED BY <1>3, <2>2, <2>3 DEF Tracking
<1> QED BY <1>2, <1>3

\* A tick outside its band anchors what is not, and may take a divergence back.
LEMMA OutsideV2Kept ==
  ASSUME NEW x, Valid(x), v2, NEW d \in Levels, NEW y \in OutsideV2(x, d)
  PROVE  StaysValid(x, y)
<1>0. d \in Depths /\ d # 0 /\ d > 0
  BY DepthFacts
<1>1. /\ x \in Episodes /\ x.setup \in Setup /\ x.tracker \in Tracker
      /\ x.tracker.flow \in Depths /\ x.setup.extreme \in Depths
  BY DEF Valid, Episodes, Tracker, Setup
<1>2. CASE x.tracker.flow = 0
  <2>1. y = Anchored(x, d)
    BY <1>2 DEF OutsideV2
  <2>2. AnchoredTracker(d) \in Tracker /\ AnchoredTracker(d).flow = d
    BY <1>0 DEF AnchoredTracker, Tracker
  <2>3. /\ [x.setup EXCEPT !.observed = TRUE] \in Setup
        /\ [x.setup EXCEPT !.observed = TRUE].observed
    BY <1>1 DEF Setup
  <2>4. y \in Episodes /\ y.setup.observed /\ y.tracker.flow = d
    BY <2>1, <2>2, <2>3 DEF Anchored, Episodes
  <2> QED BY <1>0, <2>4 DEF StaysValid, Valid, Unobserved, Agree
<1>3. CASE x.tracker.flow # 0
  <2> DEFINE z == [setup |-> [x.setup EXCEPT !.rejected = FALSE,
                                !.extreme = IF d > x.tracker.flow THEN d ELSE @],
                   tracker |-> [x.tracker EXCEPT !.flow = Max({d, @})]]
  <2>1. Max({d, x.tracker.flow}) \in {d, x.tracker.flow}
    BY <1>0, <1>1, DepthFacts DEF Max
  <2>2. [x.tracker EXCEPT !.flow = Max({d, @})] \in Tracker /\ z.tracker.flow # 0
    BY <1>0, <1>1, <1>3, <2>1 DEF Tracker
  <2>3. z.setup \in Setup /\ z.setup.observed = x.setup.observed
    BY <1>0, <1>1 DEF Setup
  <2>4. z \in Episodes
    BY <2>2, <2>3 DEF Episodes
  <2>5. \/ y \in Tracking(z, d)
        \/ y \in Tracking([z EXCEPT !.setup = DivergenceBroken(@)], d)
        \/ y = z
    BY <1>3 DEF OutsideV2
  <2> HIDE DEF z
  <2>6. Valid(z) /\ StaysValid(x, z)
    BY <1>3, <2>2, <2>3, <2>4 DEF StaysValid, Valid, Unobserved, Agree
  <2>7. DivergenceBroken(z.setup) \in Setup
        /\ DivergenceBroken(z.setup).observed = z.setup.observed
    BY <2>3, DepthFacts DEF DivergenceBroken, Setup
  <2>8. StaysValid(z, [z EXCEPT !.setup = DivergenceBroken(@)])
    BY <2>6, <2>7, SetupKept
  <2>9. StaysValid(z, y)
    BY <2>5, <2>6, <2>8, TrackingKept, KeptIsReflexive, KeptIsTransitive DEF StaysValid
  <2> QED BY <2>6, <2>9, KeptIsTransitive
<1> QED BY <1>2, <1>3

\* Version 1 works on the setup alone and never observes.
LEMMA ExtremeV1Type ==
  ASSUME NEW setup \in Setup, ~setup.observed, NEW d \in Levels
  PROVE  ExtremeV1(setup, d) \in Setup /\ ~ExtremeV1(setup, d).observed
<1>1. d \in Depths /\ setup.extreme \in Depths /\ setup.cycles \in 0 .. MaxCycles
  BY DepthFacts DEF Setup
<1>2. Max({d, setup.extreme}) \in Depths
  <2>1. Max({d, setup.extreme}) \in {d, setup.extreme}
    BY <1>1, DepthFacts DEF Max
  <2> QED BY <1>1, <2>1
<1>3. CASE ~setup.armed
  BY <1>1, <1>3 DEF ExtremeV1, Setup
<1>4. CASE setup.armed /\ setup.reclaim # "none"
  <2>1. \/ ExtremeV1(setup, d) = [setup EXCEPT !.reclaim = "waiting"]
        \/ ExtremeV1(setup, d) = NoSetup
        \/ /\ setup.cycles # MaxCycles
           /\ ExtremeV1(setup, d) =
                [setup EXCEPT !.cycles = @ + 1, !.reclaim = "none", !.extreme = d]
    BY <1>4 DEF ExtremeV1, Rebreak
  <2>2. setup.cycles # MaxCycles => setup.cycles + 1 \in 0 .. MaxCycles
    BY <1>1, ReclaimAssumption
  <2> QED BY <1>1, <2>1, <2>2, NoSetupFacts DEF Setup
<1>5. CASE setup.armed /\ setup.reclaim = "none"
  BY <1>2, <1>5 DEF ExtremeV1, Setup
<1> QED BY <1>3, <1>4, <1>5

\* Noting the depth of an excursion does not change what is observed ...
LEMMA DeepEnoughType ==
  ASSUME NEW setup \in Setup, NEW s \in DeepEnough(setup)
  PROVE  s \in Setup /\ s.observed = setup.observed
BY DEF DeepEnough, Setup

\* ... and neither does confirming it by the order flow.
LEMMA CvdStructureType ==
  ASSUME NEW setup \in Setup, NEW s \in CvdStructure(setup)
  PROVE  s \in Setup /\ s.observed = setup.observed
BY DEF CvdStructure, Setup

\* A tick beyond its band leaves a side valid, whichever the version.
LEMMA UpdateOutsideKept ==
  ASSUME NEW x, Valid(x), NEW d \in Levels, NEW y \in UpdateOutside(x, d)
  PROVE  StaysValid(x, y)
<1>1. x \in Episodes /\ x.setup \in Setup
  BY DEF Valid, Episodes
<1>2. CASE v2
  <2>1. PICK z \in OutsideV2(x, d) :
          y \in {[z EXCEPT !.setup = s] : s \in DeepEnough(z.setup)}
    BY <1>2 DEF UpdateOutside
  <2>2. PICK s \in DeepEnough(z.setup) : y = [z EXCEPT !.setup = s]
    BY <2>1
  <2>3. StaysValid(x, z)
    BY <1>2, OutsideV2Kept
  <2>4. Valid(z) /\ z.setup \in Setup
    BY <2>3 DEF StaysValid, Valid, Episodes
  <2>5. StaysValid(z, y)
    BY <2>2, <2>4, DeepEnoughType, SetupKept
  <2> QED BY <2>3, <2>5, KeptIsTransitive
<1>3. CASE ~v2
  <2>1. y \in OutsideV1(x, d) /\ ~x.setup.observed
    BY <1>3 DEF UpdateOutside, Valid, Unobserved
  <2>2. PICK s \in UNION {CvdStructure(t) : t \in DeepEnough(ExtremeV1(x.setup, d))} :
          y = [x EXCEPT !.setup = s]
    BY <2>1 DEF OutsideV1
  <2>3. PICK t \in DeepEnough(ExtremeV1(x.setup, d)) : s \in CvdStructure(t)
    BY <2>2
  <2>4. ExtremeV1(x.setup, d) \in Setup /\ ~ExtremeV1(x.setup, d).observed
    BY <1>1, <2>1, ExtremeV1Type
  <2>5. t \in Setup /\ ~t.observed
    BY <2>4, DeepEnoughType
  <2>6. s \in Setup /\ ~s.observed
    BY <2>3, <2>5, CvdStructureType
  <2>7. x.setup.observed \in BOOLEAN /\ s.observed \in BOOLEAN
    BY <1>1, <2>6 DEF Setup
  <2> QED BY <2>1, <2>2, <2>6, <2>7, SetupKept
<1> QED BY <1>2, <1>3

\* A tick inside the band never starts a setup.
LEMMA UpdateInsideKept ==
  ASSUME NEW x, Valid(x), NEW side, NEW zone, NEW d \in Levels,
         NEW y \in UpdateInside(x, side, zone, d)
  PROVE  StaysValid(x, y) /\ Quiet(x, y)
<1> DEFINE w == IF PastMiddle(side, zone) THEN ResetIfArmed(x) ELSE x
<1>1. StaysValid(x, w) /\ Quiet(x, w)
  BY ResetIfArmedKept, KeptIsReflexive
<1>2. \/ y = w
      \/ v2 /\ \E z \in Tracking(w, d) : y = Aborted(z)
      \/ v2 /\ y = Aborted(w)
  BY DEF UpdateInside
<1> HIDE DEF w
<1>3. ASSUME NEW z, Valid(z) PROVE StaysValid(z, Aborted(z)) /\ Quiet(z, Aborted(z))
  BY <1>3, ResetArmedKept, KeptIsReflexive DEF Aborted
<1>4. CASE y = w
  BY <1>1, <1>4
<1>5. CASE v2 /\ y = Aborted(w)
  BY <1>1, <1>3, <1>5, KeptIsTransitive, QuietIsTransitive DEF StaysValid
<1>6. ASSUME v2, NEW z \in Tracking(w, d), y = Aborted(z) PROVE StaysValid(x, y) /\ Quiet(x, y)
  <2>1. Valid(w)
    BY <1>1 DEF StaysValid
  <2>2. StaysValid(w, z) /\ Quiet(w, z)
    BY <1>6, <2>1, TrackingKept
  <2>3. StaysValid(z, y) /\ Quiet(z, y)
    BY <1>3, <1>6, <2>2 DEF StaysValid
  <2>4. StaysValid(x, z) /\ Quiet(x, z)
    BY <1>1, <2>2, KeptIsTransitive, QuietIsTransitive
  <2> QED BY <2>3, <2>4, KeptIsTransitive, QuietIsTransitive
<1> QED BY <1>2, <1>4, <1>5, <1>6

\* A tick for one side: only a break of its own band, not blocked, wakes it up, and a
\* break of the other one ends it.
LEMMA UpdateArmedStateKept ==
  ASSUME NEW x, Valid(x), NEW side \in Sides, NEW zone, NEW price \in Levels,
         NEW blocked \in BOOLEAN, NEW y \in UpdateArmedState(x, side, zone, price, blocked)
  PROVE  /\ StaysValid(x, y)
         /\ blocked \/ ~Outside(side, zone) => Quiet(x, y)
         /\ ~blocked /\ ~Outside(side, zone) /\ ~Inside(zone) => y.setup = NoSetup
         /\ blocked /\ ~Outside(side, zone) /\ ~Inside(zone) /\ x.setup.armed
              => y.setup = NoSetup
<1>0. Depth(side, price) \in Levels
  BY DepthFacts
<1>1. PICK z \in Expired(x) :
        y \in IF Outside(side, zone) THEN
                IF blocked THEN {ResetIfArmed(z)} ELSE UpdateOutside(z, Depth(side, price))
              ELSE IF Inside(zone) THEN UpdateInside(z, side, zone, Depth(side, price))
              ELSE {IF blocked THEN ResetIfArmed(z) ELSE ResetArmed(z)}
  BY DEF UpdateArmedState
<1>2. StaysValid(x, z) /\ Quiet(x, z) /\ Valid(z)
  BY ExpiredKept DEF StaysValid
<1>3. ASSUME y = ResetIfArmed(z), x.setup.armed PROVE y.setup = NoSetup
  <2>1. z = x \/ z = ResetArmed(x)
    BY DEF Expired
  <2>2. ResetArmed(x).setup = NoSetup
    BY DEF ResetArmed
  <2> QED BY <1>3, <2>1, <2>2, NoSetupFacts DEF ResetIfArmed
<1>4. CASE y = ResetIfArmed(z) /\ blocked
  BY <1>2, <1>3, <1>4, ResetIfArmedKept, KeptIsTransitive, QuietIsTransitive
<1>5. CASE y = ResetArmed(z)
  BY <1>2, <1>5, ResetArmedKept, KeptIsTransitive, QuietIsTransitive
<1>6. CASE Outside(side, zone) /\ ~blocked /\ y \in UpdateOutside(z, Depth(side, price))
  BY <1>0, <1>2, <1>6, UpdateOutsideKept, KeptIsTransitive
<1>7. CASE Inside(zone) /\ y \in UpdateInside(z, side, zone, Depth(side, price))
  <2>1. StaysValid(z, y) /\ Quiet(z, y)
    BY <1>0, <1>2, <1>7, UpdateInsideKept
  <2> QED BY <1>2, <1>7, <2>1, KeptIsTransitive, QuietIsTransitive
<1> QED BY <1>1, <1>4, <1>5, <1>6, <1>7

\* A reclaim too far inside lets the setup go until the next break.
LEMMA MissedKept ==
  ASSUME NEW x, Valid(x), v2, x.setup.armed
  PROVE  StaysValid(x, Missed(x)) /\ Quiet(x, Missed(x)) /\ ~Live(Missed(x).setup)
<1>1. x \in Episodes /\ x.setup \in Setup /\ x.setup.cycles \in 0 .. MaxCycles
  BY DEF Valid, Episodes, Setup
<1>2. CASE x.setup.cycles = MaxCycles
  BY <1>2, ResetArmedKept, NoSetupFacts DEF Missed
<1>3. CASE x.setup.cycles # MaxCycles
  <2> DEFINE s == [x.setup EXCEPT !.rejected = TRUE, !.cycles = @ + 1]
  <2>1. x.setup.cycles + 1 \in 0 .. MaxCycles
    BY <1>1, <1>3, ReclaimAssumption
  <2>2. s \in Setup /\ s.observed = x.setup.observed /\ s.rejected
    BY <1>1, <2>1 DEF Setup
  <2>3. Missed(x) = [x EXCEPT !.setup = s]
    BY <1>3 DEF Missed
  <2> HIDE DEF s
  <2>4. [x EXCEPT !.setup = s].setup = s
    BY <1>1 DEF Episodes
  <2>5. ~Live(s)
    BY <2>2 DEF Live
  <2>6. x.setup # NoSetup
    BY NoSetupFacts
  <2> QED BY <2>2, <2>3, <2>4, <2>5, <2>6, SetupKept DEF Quiet
<1> QED BY <1>2, <1>3

\* A setup allows an entry only while it is live, and then as it stands.
LEMMA EntrySetupResult ==
  ASSUME NEW x, Valid(x), NEW side, NEW zone, NEW blocked,
         NEW a \in EntrySetup(x, side, zone, blocked)
  PROVE  /\ StaysValid(x, a.x) /\ Quiet(x, a.x)
         /\ v2 /\ a.x # x => ~Live(a.x.setup)
         /\ a.ok \in BOOLEAN
         /\ a.ok => a.x = x /\ Live(x.setup)
<1>1. x \in Episodes /\ x.setup \in Setup /\ StaysValid(x, x) /\ Quiet(x, x)
  BY KeptIsReflexive DEF Valid, Episodes
<1>2. CASE a = Answer(x, FALSE)
  BY <1>1, <1>2 DEF Answer
<1>3. CASE v2 /\ a # Answer(x, FALSE)
  <2>1. /\ x.setup.armed /\ ~x.setup.rejected
        /\ \/ a = Answer(Missed(x), FALSE)
           \/ x.setup.observed /\ a = Answer(x, TRUE)
    BY <1>3 DEF EntrySetup, SetupV2, FollowThrough
  <2>2. CASE a = Answer(Missed(x), FALSE)
    BY <1>3, <2>1, <2>2, MissedKept DEF Answer
  <2>3. CASE x.setup.observed /\ a = Answer(x, TRUE)
    BY <1>1, <1>3, <2>1, <2>3 DEF Answer, Live
  <2> QED BY <2>1, <2>2, <2>3
<1>4. CASE ~v2 /\ a # Answer(x, FALSE)
  <2>1. /\ x.setup.armed
        /\ \/ a = Answer(x, TRUE)
           \/ \E r \in {"waiting", "timing"} : a = Answer([x EXCEPT !.setup.reclaim = r], FALSE)
    BY <1>4 DEF EntrySetup, SetupV1
  <2>2. CASE a = Answer(x, TRUE)
    BY <1>1, <1>4, <2>1, <2>2 DEF Answer, Live
  <2>3. ASSUME NEW r \in {"waiting", "timing"}, a = Answer([x EXCEPT !.setup.reclaim = r], FALSE)
        PROVE  StaysValid(x, a.x) /\ Quiet(x, a.x) /\ ~a.ok /\ a.ok \in BOOLEAN
    <3> DEFINE s == [x.setup EXCEPT !.reclaim = r]
    <3>1. a.x = [x EXCEPT !.setup = s] /\ a.ok = FALSE
      BY <1>1, <2>3 DEF Answer, Episodes
    <3>2. s \in Setup /\ s.observed = x.setup.observed
      BY <1>1 DEF Setup
    <3> HIDE DEF s
    <3>3. StaysValid(x, a.x)
      BY <3>1, <3>2, SetupKept
    <3>4. x.setup # NoSetup /\ Live(x.setup)
      BY <1>4, <2>1, NoSetupFacts DEF Live
    <3> QED BY <3>1, <3>3, <3>4 DEF Quiet
  <2> QED BY <1>4, <2>1, <2>2, <2>3
<1> QED BY <1>2, <1>3, <1>4

\* The router lets through a reclaim that a setup allows, or the trend.
LEMMA RouteResult ==
  ASSUME NEW allowed \in SUBSET Sides, NEW trend, NEW blocked,
         NEW r \in Route(allowed, trend, blocked)
  PROVE  \/ r = NoTrade
         \/ \E side \in allowed : r = MeanReversion(side)
         \/ trend \in Sides /\ r = Trend(trend)
<1>1. trend = "disabled" => trend \notin Sides
  BY DEF Sides
<1> QED BY <1>1 DEF Route

\* What a tick may end in, side by side: an entry is of a side whose setup allows it.
LEMMA OutcomesResult ==
  ASSUME NEW long, NEW short, Valid(long), Valid(short), NEW zone, NEW cool,
         NEW o \in Outcomes(long, short, zone, cool)
  PROVE  /\ \A side \in Sides :
              /\ StaysValid(Both(long, short)[side], o.x[side])
              /\ Quiet(Both(long, short)[side], o.x[side])
              /\ v2 /\ o.x[side] # Both(long, short)[side] => ~Live(o.x[side].setup)
         /\ \/ o.entry = NoTrade
            \/ \E side \in Sides :
                 \/ o.entry = Trend(side)
                 \/ /\ o.entry = MeanReversion(side)
                    /\ o.x[side] = Both(long, short)[side] /\ Live(o.x[side].setup)
<1>1. CASE o = Outcome(long, short, NoTrade)
  <2>1. o.x = Both(long, short) /\ o.entry = NoTrade
    BY <1>1 DEF Outcome
  <2>2. \A side \in Sides : Valid(Both(long, short)[side])
    BY DEF Both
  <2> QED BY <2>1, <2>2, KeptIsReflexive
<1>2. ASSUME NEW a \in EntrySetup(long, "LONG", zone, "LONG" \in cool),
             NEW b \in EntrySetup(short, "SHORT", zone, "SHORT" \in cool),
             NEW trend \in TrendAnswers(zone), NEW routed \in Route(Allowed(a, b), trend, cool),
             NEW entry \in Priced(routed, Both(a.x.setup, b.x.setup)),
             o = Outcome(a.x, b.x, entry)
      PROVE  /\ \A side \in Sides :
                  /\ StaysValid(Both(long, short)[side], o.x[side])
                  /\ Quiet(Both(long, short)[side], o.x[side])
                  /\ v2 /\ o.x[side] # Both(long, short)[side] => ~Live(o.x[side].setup)
             /\ \/ o.entry = NoTrade
                \/ \E side \in Sides :
                     \/ o.entry = Trend(side)
                     \/ /\ o.entry = MeanReversion(side)
                        /\ o.x[side] = Both(long, short)[side] /\ Live(o.x[side].setup)
  <2>1. o.x = Both(a.x, b.x) /\ o.entry \in {NoTrade, routed}
    BY <1>2 DEF Outcome, Priced
  <2>2. /\ StaysValid(long, a.x) /\ Quiet(long, a.x) /\ (v2 /\ a.x # long => ~Live(a.x.setup))
        /\ a.ok => a.x = long /\ Live(long.setup)
    BY EntrySetupResult
  <2>3. /\ StaysValid(short, b.x) /\ Quiet(short, b.x) /\ (v2 /\ b.x # short => ~Live(b.x.setup))
        /\ b.ok => b.x = short /\ Live(short.setup)
    BY EntrySetupResult
  <2>4. \A side \in Sides : \/ Both(long, short)[side] = long /\ o.x[side] = a.x
                            \/ Both(long, short)[side] = short /\ o.x[side] = b.x
    BY <2>1 DEF Both
  <2>5. /\ Allowed(a, b) \in SUBSET Sides
        /\ \A side \in Allowed(a, b) :
             o.x[side] = Both(long, short)[side] /\ Live(o.x[side].setup)
    BY <2>1, <2>2, <2>3 DEF Allowed, Both, Sides
  <2>6. \/ routed = NoTrade
        \/ \E side \in Allowed(a, b) : routed = MeanReversion(side)
        \/ trend \in Sides /\ routed = Trend(trend)
    BY <2>5, RouteResult
  <2>7. \/ o.entry = NoTrade
        \/ \E side \in Sides :
             \/ o.entry = Trend(side)
             \/ /\ o.entry = MeanReversion(side)
                /\ o.x[side] = Both(long, short)[side] /\ Live(o.x[side].setup)
    BY <2>1, <2>5, <2>6
  <2> QED BY <2>2, <2>3, <2>4, <2>7
<1> QED BY <1>1, <1>2 DEF Outcomes

-----------------------------------------------------------------------------
(* The ticks.                                                              *)

\* The side as a tick finds it.
Found(side) == [setup |-> st.setup[side], tracker |-> tr[side]]

\* The invariant finds every side valid.
LEMMA FoundValid ==
  ASSUME TypeOK, Sound(st, broke \cup outlived), NEW side \in Sides
  PROVE  Valid(Found(side))
<1>1. st.setup[side] \in Setup /\ tr[side] \in Tracker
  BY DEF TypeOK, State
<1> QED BY <1>1 DEF Found, Valid, Episodes, Sound

\* The cooldown's discard and the update of one side.
LEMMA UpdatedSideResult ==
  ASSUME TypeOK, Sound(st, broke \cup outlived), NEW side \in Sides, NEW zone,
         NEW price \in Levels, NEW cool, NEW y \in UpdatedSide(side, zone, price, cool)
  PROVE  LET blocked == \E s \in cool : Outside(s, zone)
         IN /\ StaysValid(Found(side), y)
            /\ blocked \/ ~Outside(side, zone) => Quiet(Found(side), y)
            /\ ~blocked /\ ~Outside(side, zone) /\ ~Inside(zone) => y.setup = NoSetup
            /\ blocked /\ ~Outside(side, zone) /\ ~Inside(zone) /\ st.setup[side].armed
                 => y.setup = NoSetup
<1> DEFINE blocked == \E s \in cool : Outside(s, zone)
           x == IF side \in cool THEN ResetIfArmed(Found(side)) ELSE Found(side)
<1>1. StaysValid(Found(side), x) /\ Quiet(Found(side), x) /\ Valid(x)
  BY FoundValid, ResetIfArmedKept, KeptIsReflexive DEF StaysValid
<1>2. y \in UpdateArmedState(x, side, zone, price, blocked)
  BY DEF UpdatedSide, Found
<1>3. blocked \in BOOLEAN
  OBVIOUS
<1>4. st.setup[side].armed => x.setup.armed \/ x.setup = NoSetup
  BY DEF Found, ResetIfArmed, ResetArmed
<1> HIDE DEF x, blocked
<1>5. /\ StaysValid(x, y)
      /\ blocked \/ ~Outside(side, zone) => Quiet(x, y)
      /\ ~blocked /\ ~Outside(side, zone) /\ ~Inside(zone) => y.setup = NoSetup
      /\ blocked /\ ~Outside(side, zone) /\ ~Inside(zone) /\ x.setup.armed
           => y.setup = NoSetup
  BY <1>1, <1>2, <1>3, UpdateArmedStateKept
<1>6. /\ StaysValid(Found(side), y)
      /\ blocked \/ ~Outside(side, zone) => Quiet(Found(side), y)
      /\ ~blocked /\ ~Outside(side, zone) /\ ~Inside(zone) => y.setup = NoSetup
  BY <1>1, <1>5, KeptIsTransitive, QuietIsTransitive
<1>7. blocked /\ ~Outside(side, zone) /\ ~Inside(zone) /\ st.setup[side].armed
        => y.setup = NoSetup
  BY <1>5, <1>4 DEF Quiet
<1> QED BY <1>6, <1>7 DEF blocked

\* The price is beyond one band at most, and inside if beyond none.
LEMMA ZoneFacts ==
  ASSUME NEW zone \in Zones
  PROVE  /\ Outside("LONG", zone) /\ Outside("SHORT", zone) => FALSE
         /\ Inside(zone) <=> \A side \in Sides : ~Outside(side, zone)
BY DEF Zones, Outside, Inside, Sides

\* What is made of the sides after their update: they pass on, or their reclaim is missed.
PassedOn(before, after, missed) ==
  /\ \A side \in Sides : StaysValid(before[side], after[side]) /\ Quiet(before[side], after[side])
  /\ \A side \in missed : ~Live(after[side].setup)

\* What a tick leaves of the sides: a live setup has its break or outlived it, one side
\* has no setup, and neither has one that cools down.
Ticked(zone, cool, after, missed) ==
  /\ \A side \in Sides :
       /\ Valid(after[side])
       /\ Live(after[side].setup)
            => side \in (BrokeAfter(zone, cool) \cup OutlivedAfter(zone, cool)) \ missed
       /\ Agree(st.setup[side], tr[side]) => Agree(after[side].setup, after[side].tracker)
  /\ \E side \in Sides : after[side].setup = NoSetup
  /\ \A side \in cool : after[side].setup = NoSetup

\* A tick of both sides.
LEMMA TickKeeps ==
  ASSUME TypeOK, Sound(st, broke \cup outlived), NEW zone \in Zones,
         NEW price \in Levels, NEW cool \in CooldownNow,
         NEW long \in UpdatedSide("LONG", zone, price, cool),
         NEW short \in UpdatedSide("SHORT", zone, price, cool),
         NEW after, NEW missed, PassedOn(Both(long, short), after, missed)
  PROVE  Ticked(zone, cool, after, missed)
<1> DEFINE blocked == \E s \in cool : Outside(s, zone)
           opposite(side) == ~Outside(side, zone) /\ ~Inside(zone)
           between(side) == Both(long, short)[side]
<1>1. \A side \in Sides :
        /\ StaysValid(Found(side), between(side))
        /\ blocked \/ ~Outside(side, zone) => Quiet(Found(side), between(side))
        /\ ~blocked /\ opposite(side) => between(side).setup = NoSetup
        /\ blocked /\ opposite(side) /\ st.setup[side].armed
             => between(side).setup = NoSetup
  <2>1. between("LONG") = long /\ between("SHORT") = short
    BY DEF Both, Sides
  <2>2. /\ StaysValid(Found("LONG"), long)
        /\ blocked \/ ~Outside("LONG", zone) => Quiet(Found("LONG"), long)
        /\ ~blocked /\ opposite("LONG") => long.setup = NoSetup
        /\ blocked /\ opposite("LONG") /\ st.setup["LONG"].armed => long.setup = NoSetup
    BY UpdatedSideResult DEF Sides
  <2>3. /\ StaysValid(Found("SHORT"), short)
        /\ blocked \/ ~Outside("SHORT", zone) => Quiet(Found("SHORT"), short)
        /\ ~blocked /\ opposite("SHORT") => short.setup = NoSetup
        /\ blocked /\ opposite("SHORT") /\ st.setup["SHORT"].armed => short.setup = NoSetup
    BY UpdatedSideResult DEF Sides
  <2> HIDE DEF between, blocked, opposite
  <2> QED BY <2>1, <2>2, <2>3 DEF Sides
<1>2. \A side \in Sides : /\ Found(side).setup = st.setup[side]
                          /\ Found(side).tracker = tr[side]
  BY DEF Found
<1>3. \A side \in Sides : Outside(side, zone) => (blocked <=> side \in cool)
  <2>1. cool \in SUBSET Sides
    BY DEF CooldownNow, TypeOK, State
  <2> QED BY <2>1, ZoneFacts DEF Sides
<1>4. \A side \in Sides : /\ StaysValid(between(side), after[side])
                          /\ Quiet(between(side), after[side])
  BY DEF PassedOn
<1> HIDE DEF between
<1>5. \A side \in Sides : /\ StaysValid(Found(side), after[side])
                          /\ blocked \/ ~Outside(side, zone) => Quiet(Found(side), after[side])
                          /\ ~blocked /\ opposite(side) => after[side].setup = NoSetup
                          /\ blocked /\ opposite(side) /\ st.setup[side].armed
                               => after[side].setup = NoSetup
  <2> HIDE DEF blocked, opposite
  <2> QED BY <1>1, <1>4, KeptIsTransitive, QuietIsTransitive DEF Quiet
<1>6. ASSUME NEW side \in cool PROVE after[side].setup = NoSetup
  <2>1. side \in Sides /\ st.setup[side] = NoSetup
    BY <1>6 DEF CooldownNow, Sound, TypeOK, State
  <2>2. Quiet(Found(side), after[side])
    BY <1>3, <1>5, <1>6, <2>1
  <2> QED BY <1>2, <2>1, <2>2 DEF Quiet
<1>7. ASSUME NEW side \in Sides, Live(after[side].setup)
      PROVE  side \in BrokeAfter(zone, cool) \cup OutlivedAfter(zone, cool)
  <2>0. side \notin cool
    BY <1>6, <1>7, NoSetupFacts
  <2>1. CASE Inside(zone)
    <3>1. Live(st.setup[side])
      BY <1>2, <1>5, <1>7, <2>1, ZoneFacts DEF Quiet
    <3>2. side \in broke \cup outlived
      BY <3>1 DEF Sound
    <3> QED BY <2>1, <3>2 DEF BrokeAfter, OutlivedAfter
  <2>2. CASE Outside(side, zone)
    <3>1. ~Inside(zone)
      BY <2>2, ZoneFacts
    <3> QED BY <2>0, <2>2, <3>1 DEF BrokeAfter
  <2>3. CASE opposite(side)
    <3>1. blocked /\ ~st.setup[side].armed
      BY <1>5, <1>7, <2>3, NoSetupFacts
    <3>2. Live(st.setup[side])
      BY <1>2, <1>5, <1>7, <2>3 DEF Quiet
    <3>3. st.setup[side].observed /\ side \in broke \cup outlived
      BY <3>1, <3>2 DEF Live, Sound
    <3> QED BY <2>3, <3>1, <3>3 DEF OutlivedAfter
  <2> QED BY <2>1, <2>2, <2>3
<1>8. ASSUME NEW side \in Sides
      PROVE  /\ Valid(after[side])
             /\ Live(after[side].setup)
                  => side \in (BrokeAfter(zone, cool) \cup OutlivedAfter(zone, cool)) \ missed
             /\ Agree(st.setup[side], tr[side])
                  => Agree(after[side].setup, after[side].tracker)
  <2>1. Valid(after[side]) /\ (Agree(st.setup[side], tr[side])
                                 => Agree(after[side].setup, after[side].tracker))
    BY <1>2, <1>5 DEF StaysValid
  <2>2. Live(after[side].setup) => side \notin missed
    BY DEF PassedOn
  <2> QED BY <1>7, <2>1, <2>2
<1>9. \E side \in Sides : after[side].setup = NoSetup
  <2>1. CASE Inside(zone) \/ blocked
    <3>1. PICK side \in Sides : st.setup[side] = NoSetup
      BY DEF Sound
    <3> QED BY <1>2, <1>5, <2>1, <3>1, ZoneFacts DEF Quiet
  <2>2. CASE ~Inside(zone) /\ ~blocked
    <3>1. PICK side \in Sides : ~Outside(side, zone)
      BY ZoneFacts DEF Sides
    <3> QED BY <1>5, <2>2, <3>1
  <2> QED BY <2>1, <2>2
<1> QED BY <1>6, <1>8, <1>9 DEF Ticked

\* Both sides of a tick are written back as two records.
LEMMA WrittenBack ==
  ASSUME NEW after, \A side \in Sides : Valid(after[side])
  PROVE  /\ [s \in Sides |-> after[s].setup] \in [Sides -> Setup]
         /\ [s \in Sides |-> after[s].tracker] \in [Sides -> Tracker]
BY DEF Valid, Episodes

\* The version is not switched.
LEMMA SoundNext ==
  ASSUME v2' = v2
  PROVE  /\ Sound(st', broke' \cup outlived') => Sound(st, broke \cup outlived)'
         /\ Sound(pending.st', pending.broke' \cup pending.outlived')
              => Sound(pending.st, pending.broke \cup pending.outlived)'
BY DEF Sound, Unobserved, Live

\* The cooldowns that are on are of sides.
LEMMA CooldownType ==
  ASSUME TypeOK, NEW cool \in CooldownNow
  PROVE  cool \in SUBSET Sides /\ cool \in SUBSET st.cool
BY DEF TypeOK, State, CooldownNow

\* What a tick without a position makes of the state, and how an entry comes about.
LEMMA TickEffect ==
  ASSUME ReclaimInv, NEW zone \in Zones, NEW price \in Levels, Tick(zone, price)
  PROVE  /\ st' \in State /\ tr' \in [Sides -> Tracker] /\ v2' = v2
         /\ broke' \subseteq Sides /\ outlived' \subseteq Sides /\ torn' \subseteq torn
         /\ Sound(st', broke' \cup outlived')
         /\ \A side \in Sides : /\ Agree(st.setup[side], tr[side])
                                     => Agree(st'.setup[side], tr'[side])
                                /\ side \in torn /\ ~Agree(st'.setup[side], tr'[side])
                                     => side \in torn'
         /\ \/ pending' = NONE
            \/ /\ st'.side # NONE /\ pending'.broke = broke /\ pending'.outlived = outlived
               /\ \E cool \in SUBSET st.cool : pending'.st = [st EXCEPT !.cool = cool]
               /\ pending' = [st |-> pending'.st, broke |-> pending'.broke,
                             outlived |-> pending'.outlived]
         /\ st'.regime = "MEAN_REVERSION" => st'.side \in broke' \cup outlived'
<1>0. TypeOK /\ Sound(st, broke \cup outlived)
  BY DEF ReclaimInv
<1>1. PICK cool \in CooldownNow :
        \E long \in UpdatedSide("LONG", zone, price, cool),
           short \in UpdatedSide("SHORT", zone, price, cool) :
          \E o \in Outcomes(long, short, zone, cool) :
            LET setups == [s \in Sides |-> o.x[s].setup]
                trackers == [s \in Sides |-> o.x[s].tracker]
                missed == {s \in Sides : v2 /\ o.x[s] # Both(long, short)[s]}
            IN /\ st' = [side |-> o.entry.side, regime |-> o.entry.regime,
                         setup |-> setups, cool |-> cool]
               /\ tr' = trackers
               /\ torn' = torn \cap Torn(setups, trackers)
               /\ broke' = BrokeAfter(zone, cool) \ missed
               /\ outlived' = OutlivedAfter(zone, cool) \ missed
               /\ pending' = IF o.entry = NoTrade THEN NONE
                             ELSE [st |-> [st EXCEPT !.cool = cool],
                                   broke |-> broke, outlived |-> outlived]
  BY DEF Tick
<1>2. PICK long \in UpdatedSide("LONG", zone, price, cool),
           short \in UpdatedSide("SHORT", zone, price, cool) :
          \E o \in Outcomes(long, short, zone, cool) :
            LET setups == [s \in Sides |-> o.x[s].setup]
                trackers == [s \in Sides |-> o.x[s].tracker]
                missed == {s \in Sides : v2 /\ o.x[s] # Both(long, short)[s]}
            IN /\ st' = [side |-> o.entry.side, regime |-> o.entry.regime,
                         setup |-> setups, cool |-> cool]
               /\ tr' = trackers
               /\ torn' = torn \cap Torn(setups, trackers)
               /\ broke' = BrokeAfter(zone, cool) \ missed
               /\ outlived' = OutlivedAfter(zone, cool) \ missed
               /\ pending' = IF o.entry = NoTrade THEN NONE
                             ELSE [st |-> [st EXCEPT !.cool = cool],
                                   broke |-> broke, outlived |-> outlived]
  BY <1>1
<1>3. PICK o \in Outcomes(long, short, zone, cool) :
            LET setups == [s \in Sides |-> o.x[s].setup]
                trackers == [s \in Sides |-> o.x[s].tracker]
                missed == {s \in Sides : v2 /\ o.x[s] # Both(long, short)[s]}
            IN /\ st' = [side |-> o.entry.side, regime |-> o.entry.regime,
                         setup |-> setups, cool |-> cool]
               /\ tr' = trackers
               /\ torn' = torn \cap Torn(setups, trackers)
               /\ broke' = BrokeAfter(zone, cool) \ missed
               /\ outlived' = OutlivedAfter(zone, cool) \ missed
               /\ pending' = IF o.entry = NoTrade THEN NONE
                             ELSE [st |-> [st EXCEPT !.cool = cool],
                                   broke |-> broke, outlived |-> outlived]
  BY <1>2
<1> DEFINE setups == [s \in Sides |-> o.x[s].setup]
           trackers == [s \in Sides |-> o.x[s].tracker]
           missed == {s \in Sides : v2 /\ o.x[s] # Both(long, short)[s]}
<1>4. /\ st'.side = o.entry.side /\ st'.regime = o.entry.regime /\ st'.setup = setups
      /\ st' = [side |-> o.entry.side, regime |-> o.entry.regime,
                setup |-> setups, cool |-> cool]
      /\ tr' = trackers /\ v2' = v2
      /\ torn' = torn \cap Torn(setups, trackers)
      /\ broke' = BrokeAfter(zone, cool) \ missed
      /\ outlived' = OutlivedAfter(zone, cool) \ missed
  BY <1>3 DEF Tick
<1>5. pending' = IF o.entry = NoTrade THEN NONE
                 ELSE [st |-> [st EXCEPT !.cool = cool],
                                   broke |-> broke, outlived |-> outlived]
  BY <1>3
<1>6. cool \in SUBSET Sides /\ cool \in SUBSET st.cool
  BY <1>0, CooldownType
<1>7. Valid(long) /\ Valid(short)
  BY <1>0, UpdatedSideResult DEF StaysValid, Sides
<1>8. /\ \A side \in Sides :
           /\ StaysValid(Both(long, short)[side], o.x[side])
           /\ Quiet(Both(long, short)[side], o.x[side])
           /\ v2 /\ o.x[side] # Both(long, short)[side] => ~Live(o.x[side].setup)
      /\ \/ o.entry = NoTrade
         \/ \E side \in Sides :
              \/ o.entry = Trend(side)
              \/ /\ o.entry = MeanReversion(side)
                 /\ o.x[side] = Both(long, short)[side] /\ Live(o.x[side].setup)
  BY <1>7, OutcomesResult
<1>9. \A side \in missed : ~Live(o.x[side].setup)
  BY <1>8
<1> HIDE DEF missed
<1>10. /\ \A side \in Sides :
            /\ Valid(o.x[side])
            /\ Live(o.x[side].setup)
                 => side \in (BrokeAfter(zone, cool) \cup OutlivedAfter(zone, cool)) \ missed
            /\ Agree(st.setup[side], tr[side]) => Agree(o.x[side].setup, o.x[side].tracker)
       /\ \E side \in Sides : o.x[side].setup = NoSetup
       /\ \A side \in cool : o.x[side].setup = NoSetup
  <2> DEFINE after == o.x
  <2>1. PassedOn(Both(long, short), after, missed)
    BY <1>8, <1>9 DEF PassedOn
  <2> HIDE DEF after
  <2>2. Ticked(zone, cool, after, missed)
    BY <1>0, <2>1, TickKeeps
  <2> QED BY <2>2 DEF after, Ticked
<1>11. setups \in [Sides -> Setup] /\ trackers \in [Sides -> Tracker]
  BY <1>10, WrittenBack
<1>12. \A side \in Sides : setups[side] = o.x[side].setup /\ trackers[side] = o.x[side].tracker
  OBVIOUS
<1> HIDE DEF setups, trackers
<1>13. /\ o.entry.side \in Sides \cup {NONE}
       /\ o.entry.regime \in {NONE, "MEAN_REVERSION", "TREND_BREAKOUT"}
       /\ o.entry # NoTrade => o.entry.side \in Sides
       /\ o.entry.regime = "MEAN_REVERSION" =>
            o.entry.side \in Sides /\ Live(o.x[o.entry.side].setup)
  <2>1. CASE o.entry = NoTrade
    BY <2>1, ReclaimAssumption DEF NoTrade
  <2>2. ASSUME NEW side \in Sides, o.entry = Trend(side)
        PROVE  o.entry.side \in Sides /\ o.entry.regime = "TREND_BREAKOUT"
    BY <2>2 DEF Trend
  <2>3. ASSUME NEW side \in Sides, o.entry = MeanReversion(side), Live(o.x[side].setup)
        PROVE  /\ o.entry.side \in Sides /\ o.entry.regime = "MEAN_REVERSION"
               /\ Live(o.x[o.entry.side].setup)
    BY <2>3 DEF MeanReversion
  <2> QED BY <1>8, <2>1, <2>2, <2>3
<1>14. st' \in State
  BY <1>4, <1>6, <1>11, <1>13 DEF State
<1>15. broke' \subseteq Sides /\ outlived' \subseteq Sides
  <2>1. broke \subseteq Sides /\ outlived \subseteq Sides
    BY <1>0 DEF TypeOK
  <2>2. BrokeAfter(zone, cool) \subseteq Sides
    BY <2>1 DEF BrokeAfter
  <2>3. OutlivedAfter(zone, cool) \subseteq Sides
    BY <2>1 DEF OutlivedAfter
  <2> QED BY <1>4, <2>2, <2>3
<1>16. broke' \cup outlived' =
         (BrokeAfter(zone, cool) \cup OutlivedAfter(zone, cool)) \ missed
  BY <1>4
<1>17. Sound(st', broke' \cup outlived')
  <2>1. st'.setup = setups /\ st'.cool = cool
    BY <1>4
  <2>2. \A side \in Sides : Live(setups[side]) => side \in broke' \cup outlived'
    BY <1>10, <1>12, <1>16
  <2>3. \A side \in cool : setups[side] = NoSetup
    BY <1>6, <1>10, <1>12
  <2>4. /\ \E side \in Sides : setups[side] = NoSetup
        /\ \A side \in Sides : Unobserved(setups[side])
    BY <1>10, <1>12 DEF Valid
  <2> QED BY <2>1, <2>2, <2>3, <2>4 DEF Sound
<1>18. \A side \in Sides : /\ Agree(st.setup[side], tr[side])
                                => Agree(st'.setup[side], tr'[side])
                           /\ side \in torn /\ ~Agree(st'.setup[side], tr'[side])
                                => side \in torn'
  BY <1>4, <1>10, <1>12 DEF Torn
<1>19. \/ pending' = NONE
       \/ /\ st'.side # NONE /\ pending'.broke = broke /\ pending'.outlived = outlived
          /\ \E c \in SUBSET st.cool : pending'.st = [st EXCEPT !.cool = c]
          /\ pending' = [st |-> pending'.st, broke |-> pending'.broke,
                             outlived |-> pending'.outlived]
  BY <1>4, <1>5, <1>6, <1>13, ReclaimAssumption DEF Sides
<1>20. st'.regime = "MEAN_REVERSION" => st'.side \in broke' \cup outlived'
  BY <1>4, <1>10, <1>13, <1>16
<1> QED BY <1>4, <1>11, <1>14, <1>15, <1>17, <1>18, <1>19, <1>20

\* A state with another cooldown.
LEMMA CooldownKept ==
  ASSUME NEW state \in State, NEW cool \in SUBSET Sides
  PROVE  /\ [state EXCEPT !.cool = cool] \in State
         /\ [state EXCEPT !.cool = cool].setup = state.setup
         /\ [state EXCEPT !.cool = cool].side = state.side
         /\ [state EXCEPT !.cool = cool].regime = state.regime
         /\ [state EXCEPT !.cool = cool].cool = cool
BY DEF State

\* A tick of a flat strategy keeps the invariant, whatever the band, the price and the flow ...
LEMMA TickStep ==
  ASSUME ReclaimInv, NEW zone \in Zones, NEW price \in Levels, Tick(zone, price)
  PROVE  ReclaimInv'
<1>1. /\ st' \in State /\ tr' \in [Sides -> Tracker] /\ v2' = v2
      /\ broke' \subseteq Sides /\ outlived' \subseteq Sides /\ torn' \subseteq torn
      /\ Sound(st', broke' \cup outlived')
      /\ \A side \in Sides : /\ Agree(st.setup[side], tr[side])
                                  => Agree(st'.setup[side], tr'[side])
                             /\ side \in torn /\ ~Agree(st'.setup[side], tr'[side])
                                  => side \in torn'
      /\ \/ pending' = NONE
         \/ /\ st'.side # NONE /\ pending'.broke = broke /\ pending'.outlived = outlived
            /\ \E cool \in SUBSET st.cool : pending'.st = [st EXCEPT !.cool = cool]
            /\ pending' = [st |-> pending'.st, broke |-> pending'.broke,
                             outlived |-> pending'.outlived]
  BY TickEffect
<1>2. TypeOK /\ st \in State /\ Sound(st, broke \cup outlived)
  BY DEF ReclaimInv, TypeOK
<1>3. ASSUME pending' # NONE
      PROVE  /\ st'.side # NONE /\ pending'.broke = broke /\ pending'.outlived = outlived
             /\ pending'.st \in State /\ pending'.st.setup = st.setup
             /\ pending'.st.cool \subseteq st.cool
             /\ pending' \in [st : State, broke : SUBSET Sides, outlived : SUBSET Sides]
  <2>1. PICK cool \in SUBSET st.cool : pending'.st = [st EXCEPT !.cool = cool]
    BY <1>1, <1>3
  <2>2. pending'.st \in State /\ pending'.st.setup = st.setup /\ pending'.st.cool = cool
    <3>1. cool \in SUBSET Sides
      BY <1>2 DEF State
    <3> QED BY <1>2, <2>1, <3>1, CooldownKept
  <2>3. broke \in SUBSET Sides /\ outlived \in SUBSET Sides
    BY <1>2 DEF TypeOK
  <2>4. pending' = [st |-> pending'.st, broke |-> broke, outlived |-> outlived]
    BY <1>1, <1>3
  <2> HIDE DEF State
  <2>5. pending' \in [st : State, broke : SUBSET Sides, outlived : SUBSET Sides]
    BY <2>2, <2>3, <2>4
  <2> QED BY <1>1, <1>3, <2>2, <2>5
<1>4. TypeOK'
  BY <1>1, <1>2, <1>3 DEF TypeOK
<1>5. pending' # NONE => Sound(pending'.st, pending'.broke \cup pending'.outlived)
  BY <1>2, <1>3 DEF Sound
<1>6. TornOnlyByReplacement'
  BY <1>1 DEF ReclaimInv, TornOnlyByReplacement
<1> QED BY <1>1, <1>3, <1>4, <1>5, <1>6, SoundNext DEF ReclaimInv

\* What a tick with a position makes of the sides.
LEMMA HeldTickStep ==
  ASSUME ReclaimInv, NEW zone \in Zones, NEW price \in Levels, HeldTick(zone, price)
  PROVE  ReclaimInv'
<1>0. TypeOK /\ Sound(st, broke \cup outlived) /\ st \in State
  BY DEF ReclaimInv, TypeOK
<1>1. PICK cool \in CooldownNow :
        \E long \in UpdatedSide("LONG", zone, price, cool),
           short \in UpdatedSide("SHORT", zone, price, cool) :
          LET after == Both(long, short)
          IN /\ st' = [st EXCEPT !.cool = cool,
                                 !.setup = [s \in Sides |-> after[s].setup]]
             /\ tr' = [s \in Sides |-> after[s].tracker]
             /\ torn' = torn \cap Torn([s \in Sides |-> after[s].setup],
                                       [s \in Sides |-> after[s].tracker])
             /\ broke' = BrokeAfter(zone, cool) /\ outlived' = OutlivedAfter(zone, cool)
  BY DEF HeldTick
<1>2. PICK long \in UpdatedSide("LONG", zone, price, cool),
           short \in UpdatedSide("SHORT", zone, price, cool) :
          LET after == Both(long, short)
          IN /\ st' = [st EXCEPT !.cool = cool,
                                 !.setup = [s \in Sides |-> after[s].setup]]
             /\ tr' = [s \in Sides |-> after[s].tracker]
             /\ torn' = torn \cap Torn([s \in Sides |-> after[s].setup],
                                       [s \in Sides |-> after[s].tracker])
             /\ broke' = BrokeAfter(zone, cool) /\ outlived' = OutlivedAfter(zone, cool)
  BY <1>1
<1> DEFINE after == Both(long, short)
           setups == [s \in Sides |-> after[s].setup]
           trackers == [s \in Sides |-> after[s].tracker]
<1>3. Valid(long) /\ Valid(short) /\ cool \in SUBSET Sides
  BY <1>0, UpdatedSideResult, CooldownType DEF StaysValid, Sides
<1>4. PassedOn(Both(long, short), after, {})
  <2>1. \A side \in Sides : after[side] \in {long, short}
    BY DEF Both
  <2> QED BY <1>3, <2>1, KeptIsReflexive DEF PassedOn
<1>5. /\ st' = [st EXCEPT !.cool = cool, !.setup = setups]
      /\ tr' = trackers /\ torn' = torn \cap Torn(setups, trackers)
      /\ broke' = BrokeAfter(zone, cool) /\ outlived' = OutlivedAfter(zone, cool)
      /\ v2' = v2 /\ pending' = NONE /\ pending = NONE
  BY <1>2 DEF HeldTick
<1> HIDE DEF after
<1>6. Ticked(zone, cool, after, {})
  BY <1>0, <1>4, TickKeeps
<1>7. setups \in [Sides -> Setup] /\ trackers \in [Sides -> Tracker]
  BY <1>6, WrittenBack DEF Ticked
<1>8. \A side \in Sides : setups[side] = after[side].setup /\ trackers[side] = after[side].tracker
  OBVIOUS
<1> HIDE DEF setups, trackers
<1>9. st' \in State /\ st'.setup = setups /\ st'.cool = cool
  BY <1>0, <1>3, <1>5, <1>7 DEF State
<1>10. Sound(st', broke' \cup outlived')
  <2>1. \A side \in Sides :
          /\ Valid(after[side])
          /\ Live(after[side].setup)
               => side \in BrokeAfter(zone, cool) \cup OutlivedAfter(zone, cool)
    BY <1>6 DEF Ticked
  <2>2. \A side \in Sides : Live(setups[side]) => side \in broke' \cup outlived'
    BY <1>5, <1>8, <2>1
  <2>3. \A side \in cool : setups[side] = NoSetup
    BY <1>3, <1>6, <1>8 DEF Ticked
  <2>4. /\ \E side \in Sides : setups[side] = NoSetup
        /\ \A side \in Sides : Unobserved(setups[side])
    BY <1>6, <1>8, <2>1 DEF Ticked, Valid
  <2> QED BY <1>9, <2>2, <2>3, <2>4 DEF Sound
<1>11. TornOnlyByReplacement'
  BY <1>5, <1>6, <1>8, <1>9 DEF ReclaimInv, TornOnlyByReplacement, Ticked, Torn
<1>12. TypeOK'
  BY <1>0, <1>5, <1>7, <1>9 DEF TypeOK, BrokeAfter, OutlivedAfter
<1> QED BY <1>5, <1>10, <1>11, <1>12, SoundNext DEF ReclaimInv

\* A tick that is put back keeps the trackers it moved.
LEMMA HeldTickRefusedStep ==
  ASSUME ReclaimInv, NEW zone \in Zones, NEW price \in Levels, HeldTickRefused(zone, price)
  PROVE  ReclaimInv'
<1>0. TypeOK /\ Sound(st, broke \cup outlived) /\ st \in State
  BY DEF ReclaimInv, TypeOK
<1>1. PICK cool \in CooldownNow :
        \E long \in UpdatedSide("LONG", zone, price, cool),
           short \in UpdatedSide("SHORT", zone, price, cool) :
          /\ st' = [st EXCEPT !.cool = cool]
          /\ tr' = Both(long.tracker, short.tracker)
          /\ torn' = Torn(st.setup, Both(long.tracker, short.tracker))
          /\ PutBack(broke, outlived, BrokeAfter(zone, cool))
  BY DEF HeldTickRefused
<1>2. PICK long \in UpdatedSide("LONG", zone, price, cool),
           short \in UpdatedSide("SHORT", zone, price, cool) :
          /\ st' = [st EXCEPT !.cool = cool]
          /\ tr' = Both(long.tracker, short.tracker)
          /\ torn' = Torn(st.setup, Both(long.tracker, short.tracker))
          /\ PutBack(broke, outlived, BrokeAfter(zone, cool))
  BY <1>1
<1>3. Valid(long) /\ Valid(short) /\ cool \in SUBSET Sides
  BY <1>0, UpdatedSideResult, CooldownType DEF StaysValid, Sides
<1>4. st' \in State /\ st'.setup = st.setup /\ st'.cool = cool
  BY <1>0, <1>2, <1>3, CooldownKept
<1>5. tr' \in [Sides -> Tracker]
  BY <1>2, <1>3 DEF Both, Valid, Episodes
<1>6. torn' = Torn(st'.setup, tr') /\ torn' \subseteq Sides
  BY <1>2, <1>4 DEF Torn
<1>7. UNCHANGED <<pending, v2>> /\ pending = NONE
  BY DEF HeldTickRefused
<1>8. /\ broke' \subseteq Sides /\ outlived' \subseteq Sides
       /\ broke' \cup outlived' = broke \cup outlived
  BY <1>0, <1>2 DEF PutBack, TypeOK
<1>9. TypeOK'
  BY <1>0, <1>4, <1>5, <1>6, <1>7, <1>8 DEF TypeOK
<1>10. Sound(st', broke' \cup outlived')
  BY <1>0, <1>3, <1>4, <1>8, CooldownType DEF Sound
<1>11. TornOnlyByReplacement'
  BY <1>6 DEF TornOnlyByReplacement, Torn
<1> QED BY <1>7, <1>9, <1>10, <1>11, SoundNext DEF ReclaimInv

-----------------------------------------------------------------------------
(* What replaces the state, and the theorems.                              *)

\* A fresh state offers nothing to enter on.
LEMMA FreshStateSound ==
  ASSUME NEW side \in Sides \cup {NONE}, NEW cool \in SUBSET Sides
  PROVE  /\ FreshState(side, NONE, cool) \in State
         /\ FreshState(side, NONE, cool).side = side
         /\ FreshState(side, NONE, cool).setup = NoSetups
         /\ FreshState(side, NONE, cool).regime = NONE
         /\ Sound(FreshState(side, NONE, cool), {} \cup {})
<1>1. FreshState(side, NONE, cool).setup = NoSetups
  BY DEF FreshState
<1>2. \A s \in Sides : NoSetups[s] = NoSetup
  BY DEF NoSetups
<1>3. NoSetups \in [Sides -> Setup]
  BY NoSetupFacts DEF NoSetups
<1>4. FreshState(side, NONE, cool) \in State
  BY <1>3 DEF FreshState, State
<1>5. Sound(FreshState(side, NONE, cool), {} \cup {})
  <2>1. FreshState(side, NONE, cool).cool = cool
    BY DEF FreshState
  <2> QED BY <1>1, <1>2, <2>1, NoSetupFacts DEF Sound, Sides
<1> QED BY <1>1, <1>4, <1>5 DEF FreshState

\* The history of what is torn follows the setups and the trackers.
LEMMA TornFollows ==
  ASSUME st' \in State, tr' \in [Sides -> Tracker], torn' = Torn(st'.setup, tr')
  PROVE  TornOnlyByReplacement' /\ torn' \subseteq Sides
BY DEF TornOnlyByReplacement, Torn

\* ... so does the result of the entry it sent, a fill or the return to its state ...
LEMMA EntryStep ==
  ASSUME ReclaimInv, EntryFilled \/ EntryRolledBack
  PROVE  ReclaimInv'
<1>1. /\ pending \in [st : State, broke : SUBSET Sides, outlived : SUBSET Sides]
      /\ Sound(pending.st, pending.broke \cup pending.outlived)
      /\ TypeOK /\ pending' = NONE /\ v2' = v2 /\ tr' = tr
  BY DEF ReclaimInv, TypeOK, EntryFilled, EntryRolledBack
<1>2. CASE EntryFilled
  <2>1. TypeOK' /\ Sound(st', broke' \cup outlived') /\ TornOnlyByReplacement'
    BY <1>1, <1>2 DEF EntryFilled, ReclaimInv, TypeOK, TornOnlyByReplacement
  <2> QED BY <1>1, <2>1, SoundNext DEF ReclaimInv
<1>3. CASE EntryRolledBack
  <2>1. /\ st' = pending.st /\ st' \in State /\ torn' = Torn(st'.setup, tr')
        /\ broke' \subseteq Sides /\ outlived' \subseteq Sides
        /\ pending.broke \cup pending.outlived \subseteq broke' \cup outlived'
    BY <1>1, <1>3 DEF EntryRolledBack, PutBack
  <2>2. TypeOK' /\ TornOnlyByReplacement'
    BY <1>1, <2>1, TornFollows DEF TypeOK
  <2>3. Sound(st', broke' \cup outlived')
    BY <1>1, <2>1 DEF Sound
  <2> QED BY <1>1, <2>2, <2>3, SoundNext DEF ReclaimInv
<1> QED BY <1>2, <1>3

\* ... and so does a settlement, an adoption or a restart, which notes what it tears.
LEMMA ReplacedStep ==
  ASSUME ReclaimInv, FlatSettled \/ Adopted \/ Restart
  PROVE  ReclaimInv'
<1>1. /\ TypeOK /\ v2' = v2 /\ broke' = {} /\ outlived' = {}
      /\ pending' = NONE \/ pending' = pending
  BY DEF ReclaimInv, FlatSettled, Adopted, Restart
<1>2. PICK side \in Sides \cup {NONE}, cool \in SUBSET Sides :
        st' = FreshState(side, NONE, cool)
  <2>1. st.side \in Sides \cup {NONE} /\ st.cool \in SUBSET Sides
    BY <1>1 DEF TypeOK, State
  <2>2. CASE FlatSettled
    <3>1. PICK cool \in {st.cool, {st.side}, Sides} : st' = FreshState(NONE, NONE, cool)
      BY <2>2 DEF FlatSettled
    <3>2. cool \in SUBSET Sides
      BY <2>1, <2>2 DEF FlatSettled
    <3> QED BY <3>1, <3>2
  <2>3. CASE Adopted
    <3>1. {} \in SUBSET Sides
      OBVIOUS
    <3> QED BY <2>3, <3>1 DEF Adopted
  <2>4. CASE Restart
    <3>1. {} \in SUBSET Sides
      OBVIOUS
    <3> QED BY <2>1, <2>4, <3>1 DEF Restart
  <2> QED BY <2>2, <2>3, <2>4
<1>3. st' \in State /\ st'.setup = NoSetups /\ Sound(st', broke' \cup outlived')
  BY <1>1, <1>2, FreshStateSound
<1>4. pending' = NONE
  BY DEF FlatSettled, Adopted, Restart, ReclaimInv
<1>5. tr' \in [Sides -> Tracker] /\ torn' = Torn(st'.setup, tr')
  <2>1. CASE FlatSettled \/ Adopted
    BY <1>1, <1>3, <2>1 DEF FlatSettled, Adopted, TypeOK
  <2>2. CASE Restart
    BY <1>3, <2>2, NoSetupFacts DEF Restart, Torn, NoSetups
  <2> QED BY <2>1, <2>2
<1>6. TypeOK' /\ TornOnlyByReplacement'
  BY <1>1, <1>3, <1>4, <1>5, TornFollows DEF TypeOK
<1> QED BY <1>3, <1>4, <1>6, SoundNext, <1>1 DEF ReclaimInv

\* The invariant holds initially: no setup, no tracker, no position.
LEMMA ReclaimInit == Init => ReclaimInv
<1> SUFFICES ASSUME Init PROVE ReclaimInv
  OBVIOUS
<1>1. {} \in SUBSET Sides
  OBVIOUS
<1>2. st \in State /\ st.setup = NoSetups /\ Sound(st, broke \cup outlived)
  BY <1>1, FreshStateSound DEF Init
<1>3. TypeOK
  BY <1>1, <1>2, NoSetupFacts DEF Init, TypeOK
<1>4. TornOnlyByReplacement
  BY <1>2, NoSetupFacts DEF Init, TornOnlyByReplacement, NoSetups
<1> QED BY <1>2, <1>3, <1>4 DEF Init, ReclaimInv

\* Every step of the reclaim side, and a stutter, keeps the invariant.
LEMMA ReclaimStep == ReclaimInv /\ [Next]_reclaim_vars => ReclaimInv'
<1> SUFFICES ASSUME ReclaimInv, [Next]_reclaim_vars PROVE ReclaimInv'
  OBVIOUS
<1>1. ASSUME NEW zone \in Zones, NEW price \in Levels,
             \/ Tick(zone, price) \/ HeldTick(zone, price) \/ HeldTickRefused(zone, price)
      PROVE  ReclaimInv'
  BY <1>1, TickStep, HeldTickStep, HeldTickRefusedStep
<1>2. CASE EntryFilled \/ EntryRolledBack
  BY <1>2, EntryStep
<1>3. CASE FlatSettled \/ Adopted \/ Restart
  BY <1>3, ReplacedStep
<1>4. CASE UNCHANGED reclaim_vars
  <2>1. TypeOK' /\ Sound(st', broke' \cup outlived') /\ TornOnlyByReplacement' /\ v2' = v2
    BY <1>4 DEF reclaim_vars, ReclaimInv, TypeOK, TornOnlyByReplacement
  <2>2. pending' # NONE => /\ st'.side # NONE
                           /\ Sound(pending'.st, pending'.broke \cup pending'.outlived)
    BY <1>4 DEF reclaim_vars, ReclaimInv
  <2> QED BY <2>1, <2>2, SoundNext DEF ReclaimInv
<1> QED BY <1>1, <1>2, <1>3, <1>4 DEF Next

\* The setups of both sides, of the strategy and of the state to go back to, stay sound
\* however ticks, refusals, flats, adoptions and restarts interleave.
THEOREM ReclaimInvariantCorrect == Spec => []ReclaimInv
BY ReclaimInit, ReclaimStep, PTL DEF Spec

\* The state, the trackers and the state to go back to keep to their values: no count of
\* reclaims passes its limit.
THEOREM ReclaimTypeCorrect == Spec => []TypeOK
<1>1. ReclaimInv => TypeOK
  BY DEF ReclaimInv
<1> QED BY ReclaimInvariantCorrect, <1>1, PTL

\* No two setups are ever built at once.
THEOREM OneSideCorrect == Spec => []OneSide
<1>1. ReclaimInv => OneSide
  BY DEF ReclaimInv, Sound, OneSide
<1> QED BY ReclaimInvariantCorrect, <1>1, PTL

\* No tick tears a setup from its trackers.
THEOREM TornOnlyByReplacementCorrect == Spec => []TornOnlyByReplacement
<1>1. ReclaimInv => TornOnlyByReplacement
  BY DEF ReclaimInv
<1> QED BY ReclaimInvariantCorrect, <1>1, PTL

\* An entry on a reclaim takes a break of its own band that no position, missed reclaim
\* or opposite break has used up, but for a setup that outlived what used its break up.
THEOREM EntryNeedsFreshBreakCorrect == Spec => EntryNeedsFreshBreak
<1>1. ReclaimInv /\ [Next]_reclaim_vars =>
        [st.side = NONE /\ st'.regime = "MEAN_REVERSION"
           => st'.side \in broke' \cup outlived']_reclaim_vars
  <2> SUFFICES ASSUME ReclaimInv, Next, st.side = NONE, st'.regime = "MEAN_REVERSION"
               PROVE  st'.side \in broke' \cup outlived'
    OBVIOUS
  <2>1. pending = NONE
    BY DEF ReclaimInv
  <2>2. ASSUME Adopted \/ Restart PROVE FALSE
    <3>1. PICK side \in Sides \cup {NONE} : st' = FreshState(side, NONE, {})
      BY <2>2 DEF Adopted, Restart
    <3> QED BY <3>1, FreshStateSound, ReclaimAssumption
  <2>3. PICK zone \in Zones, price \in Levels : Tick(zone, price)
    BY <2>1, <2>2 DEF Next, HeldTick, HeldTickRefused, EntryFilled, EntryRolledBack, FlatSettled
  <2> QED BY <2>3, TickEffect
<1> QED BY ReclaimInvariantCorrect, <1>1, PTL DEF Spec, EntryNeedsFreshBreak
=============================================================================
