---------------------- MODULE TakeProfitProgress_proofs ----------------------
(***************************************************************************)
(* What is proved of the progress of a position that is closed in parts,   *)
(* for any size of a position and of an order: the stages are recognised   *)
(* in their order, only when the exchange has sold them, each with its     *)
(* stop, and never forgotten; and a bucket that a command split has its    *)
(* legs.                                                                   *)
(*                                                                         *)
(* The plan is revised by the strategy, advanced by the sync and degraded  *)
(* by the worker, on copies of each other.  What holds of the plan alone   *)
(* is InOrder; the revisions keep all progress (Revised), the looks of the *)
(* sync add to it (Advanced).  What ties the copies together is that       *)
(* nothing is bought while a position is held (SyncIsBehind) and that the  *)
(* split stands still while a command is under way (SplitStands).          *)
(***************************************************************************)
EXTENDS TakeProfitProgress, TLAPS

\* What holds of a plan and its progress.
InOrder(s) ==
  /\ s.trend <=> s.tp2
  /\ s.tp2 => s.three /\ s.tp1
  /\ s.active => ~s.three /\ ~s.pending
  /\ s.tp1 \/ s.active => s.partial
  /\ s.pending \/ s.plan = "MIDDLE_RUNNER" => ~s.three
  /\ s.split => s.bucket # 0

\* Without a position there is nothing to do.
NothingHeld ==
  ~st.held => st = NoPosition /\ ex.pc = "idle" /\ sync = NotFetched

\* Nothing rests when nothing is left.
NothingRests == qty = 0 => legs = NoOrders

\* What the sync has fetched is of this position, of which there may be less by now.
SyncIsBehind == sync # NotFetched => st.held /\ qty <= sync

\* The split a command was made for is the one in the state until the command is done,
\* and the command knows what became of its legs.
SplitStands ==
  /\ ex.pc \in {"fetch", "place"} => ex.intent.split = st.split
  /\ ex.pc = "apply" /\ st.split => ex.mode # "AS_PLANNED"
  /\ ex.pc = "apply" /\ st.split /\ ex.mode = "SPLIT" => legs["final"] = 0

\* A stage that was recognised was sold, of what is counted as entered at most.
Sold ==
  /\ st.tp1 \/ st.active => 1000 * qty <= TP1_BELOW * EntryQty
  /\ st.tp2 => 1000 * qty <= TP2_BELOW * EntryQty

ProgressInv ==
  /\ TypeOK
  /\ InOrder(st)
  /\ NothingHeld /\ NothingRests /\ SyncIsBehind /\ SplitStands
  /\ Sold /\ SplitHasItsLegs /\ EveryStageAsksForItsStop

-----------------------------------------------------------------------------
(* The orders of an intent.                                                *)

\* A share of a position is no more than it.
LEMMA SharePart ==
  ASSUME NEW c \in Nat, NEW a \in Nat, NEW b \in Nat \ {0}, a <= b
  PROVE  (c * a) \div b \in 0 .. c
<1> DEFINE q == (c * a) \div b
<1>1. c * a \in Nat /\ c * a <= c * b
  OBVIOUS
<1>2. q \in Int /\ b * q <= c * a /\ c * a < b * q + b
  BY <1>1
<1> HIDE DEF q
<1>3. q <= c
  <2>1. ASSUME q >= c + 1 PROVE FALSE
    <3>1. b * q >= b * (c + 1)
      BY <1>2, <2>1
    <3> QED BY <1>1, <1>2, <3>1
  <2> QED BY <1>2, <2>1
<1>4. q >= 0
  <2>1. ASSUME q <= -1 PROVE FALSE
    <3>1. b * q + b <= 0
      BY <1>2, <2>1
    <3> QED BY <1>1, <1>2, <3>1
  <2> QED BY <1>2, <2>1
<1> QED BY <1>2, <1>3, <1>4 DEF q

\* A share of some contracts is at most all of them.
LEMMA ShareType ==
  ASSUME NEW c \in Nat, NEW ratio \in 0 .. 1000
  PROVE  Share(c, ratio) \in 0 .. c
BY SharePart DEF Share

\* The shares of the legs of a bucket.
LEMMA LegShares ==
  ASSUME NEW i \in Intents
  PROVE  /\ FastShare(i) \in Nat /\ SlowShare(i) \in Nat /\ Rest(i) \in Nat
         /\ ~i.fast => FastShare(i) <= Rest(i)
         /\ ~i.slow => SlowShare(i) <= Rest(i)
<1>1. i.shares \in {0, 600, 800}
  BY DEF Intents, TP1, FIRST_CLOSE
<1>2. FastShare(i) \in 0 .. i.shares
  <2>1. i.shares \in Nat /\ FAST_OF_BUCKET \in 0 .. 1000
    BY <1>1 DEF FAST_OF_BUCKET
  <2> QED BY <2>1, ShareType DEF FastShare
<1>3. SlowShare(i) \in 0 .. i.shares
  BY <1>1, <1>2 DEF SlowShare
<1> QED BY <1>1, <1>2, <1>3 DEF Rest

\* A set of orders: sizes of the position at most, and no exit next to another order.
Placeable(orders, c) ==
  /\ orders \in [Legs -> 0 .. c]
  /\ orders["final"] = 0 \/ Labels(orders) = {"final"}

\* One order for everything can be placed ...
LEMMA WholeIsPlaceable ==
  ASSUME NEW c \in Nat, NEW label \in Legs
  PROVE  Placeable(WholeAs(label, c), c)
<1>1. WholeAs(label, c) \in [Legs -> 0 .. c]
  BY DEF WholeAs
<1>2. CASE label = "final" /\ c > 0
  BY <1>2 DEF WholeAs, Labels, Placeable, Legs
<1>3. CASE ~(label = "final" /\ c > 0)
  BY <1>1, <1>3 DEF WholeAs, Placeable, Legs
<1> QED BY <1>2, <1>3

\* ... and so can any parts of it without a final order.
LEMMA PartsArePlaceable ==
  ASSUME NEW c \in Nat, NEW specs, DOMAIN specs \subseteq Legs \ {"final"},
         \A l \in DOMAIN specs : specs[l] \in 0 .. c
  PROVE  Placeable(Orders(specs), c)
<1>1. Orders(specs) \in [Legs -> 0 .. c]
  BY DEF Orders
<1>2. Orders(specs)["final"] = 0
  BY DEF Orders, Legs
<1> QED BY <1>1, <1>2 DEF Placeable

\* The orders after the first stage can be placed ...
LEMMA SpecsAfterTp1Placeable ==
  ASSUME NEW c \in Nat
  PROVE  Placeable(SpecsAfterTp1(c), c)
<1> DEFINE tp2 == (c * TP2) \div (TP2 + RUNNER)
<1>1. tp2 \in 0 .. c
  BY SharePart DEF TP2, RUNNER
<1>2. \/ SpecsAfterTp1(c) = WholeAs("final", c)
      \/ SpecsAfterTp1(c) = WholeAs("tp2", c)
      \/ SpecsAfterTp1(c) = Orders([tp2 |-> tp2])
  BY DEF SpecsAfterTp1
<1> HIDE DEF tp2
<1>3. Placeable(Orders([tp2 |-> tp2]), c)
  BY <1>1, PartsArePlaceable DEF Legs
<1> QED BY <1>2, <1>3, WholeIsPlaceable DEF Legs

\* ... those of a three-stage plan whose bucket is half sold ...
LEMMA SpecsThreePartialPlaceable ==
  ASSUME NEW i \in Intents, NEW c \in Nat
  PROVE  Placeable(SpecsThreePartial(i, c), c)
<1> DEFINE of == Rest(i) + TP2 + RUNNER
           fast == IF i.fast THEN 0 ELSE (c * FastShare(i)) \div of
           slow == IF i.slow THEN 0 ELSE (c * SlowShare(i)) \div of
           tp2 == (c * TP2) \div of
<1>1. of \in Nat \ {0} /\ TP2 <= of /\ TP2 \in Nat
      /\ (~i.fast => FastShare(i) <= of) /\ (~i.slow => SlowShare(i) <= of)
  BY LegShares DEF TP2, RUNNER
<1>2. FastShare(i) \in Nat /\ SlowShare(i) \in Nat
  BY LegShares
<1> HIDE DEF of
<1>3. fast \in 0 .. c /\ slow \in 0 .. c /\ tp2 \in 0 .. c
  BY <1>1, <1>2, SharePart
<1>4. \/ SpecsThreePartial(i, c) = WholeAs("final", c)
      \/ SpecsThreePartial(i, c) = WholeAs("tp2", c)
      \/ SpecsThreePartial(i, c) = Orders([fast |-> fast, slow |-> slow, tp2 |-> tp2])
  BY DEF SpecsThreePartial, of
<1> HIDE DEF fast, slow, tp2
<1>5. Placeable(Orders([fast |-> fast, slow |-> slow, tp2 |-> tp2]), c)
  BY <1>3, PartsArePlaceable DEF Legs
<1> QED BY <1>4, <1>5, WholeIsPlaceable DEF Legs

\* ... those of any three-stage plan ...
LEMMA SpecsThreePlaceable ==
  ASSUME NEW i \in Intents, NEW c \in Nat
  PROVE  Placeable(SpecsThree(i, c), c)
<1> DEFINE tp1 == Share(c, TP1)
           tp2 == Share(c, TP2)
           fast == Share(tp1, FAST_OF_BUCKET)
<1>1. tp1 \in 0 .. c /\ tp2 \in 0 .. c
  BY ShareType DEF TP1, TP2
<1> HIDE DEF tp1, tp2
<1>2. fast \in 0 .. c /\ tp1 - fast \in 0 .. c
  <2>1. tp1 \in Nat /\ FAST_OF_BUCKET \in 0 .. 1000
    BY <1>1 DEF FAST_OF_BUCKET
  <2>2. fast \in 0 .. tp1
    BY <2>1, ShareType
  <2> HIDE DEF fast
  <2> QED BY <1>1, <2>2
<1>3. \/ SpecsThree(i, c) = SpecsAfterTp1(c)
      \/ SpecsThree(i, c) = SpecsThreePartial(i, c)
      \/ SpecsThree(i, c) = WholeAs("final", c)
      \/ SpecsThree(i, c) = Orders([fast |-> fast, slow |-> tp1 - fast, tp2 |-> tp2])
      \/ SpecsThree(i, c) = Orders([tp1 |-> tp1, tp2 |-> tp2])
  BY DEF SpecsThree, tp1, tp2
<1> HIDE DEF fast
<1>4. /\ Placeable(Orders([fast |-> fast, slow |-> tp1 - fast, tp2 |-> tp2]), c)
      /\ Placeable(Orders([tp1 |-> tp1, tp2 |-> tp2]), c)
  BY <1>1, <1>2, PartsArePlaceable DEF Legs
<1> QED BY <1>3, <1>4, WholeIsPlaceable, SpecsAfterTp1Placeable, SpecsThreePartialPlaceable
        DEF Legs

\* ... those of a middle runner whose bucket is half sold ...
LEMMA SpecsMiddlePartialPlaceable ==
  ASSUME NEW i \in Intents, NEW c \in Nat
  PROVE  Placeable(SpecsMiddlePartial(i, c), c)
<1> DEFINE of == Rest(i) + 1000 - i.bucket
           fast == IF i.fast THEN 0 ELSE (c * FastShare(i)) \div of
           slow == IF i.slow THEN 0 ELSE (c * SlowShare(i)) \div of
           runner == c - fast - slow
<1>1. i.bucket \in {0, 600, 800}
  BY DEF Intents, TP1, FIRST_CLOSE
<1>2. of \in Nat \ {0}
      /\ (~i.fast => FastShare(i) <= of) /\ (~i.slow => SlowShare(i) <= of)
  BY <1>1, LegShares
<1>3. FastShare(i) \in Nat /\ SlowShare(i) \in Nat
  BY LegShares
<1> HIDE DEF of
<1>4. fast \in 0 .. c /\ slow \in 0 .. c
  <2>1. ~i.fast => (c * FastShare(i)) \div of \in 0 .. c
    BY <1>2, <1>3, SharePart
  <2>2. ~i.slow => (c * SlowShare(i)) \div of \in 0 .. c
    BY <1>2, <1>3, SharePart
  <2> QED BY <2>1, <2>2
<1>5. \/ SpecsMiddlePartial(i, c) = WholeAs("final", c)
      \/ /\ runner >= MinContracts
         /\ SpecsMiddlePartial(i, c) = Orders([fast |-> fast, slow |-> slow, runner |-> runner])
  BY DEF SpecsMiddlePartial, of, Enough
<1> HIDE DEF fast, slow
<1>6. runner >= MinContracts => runner \in 0 .. c
  BY <1>4, ConstantsAssumption
<1> HIDE DEF runner
<1>7. runner \in 0 .. c =>
        Placeable(Orders([fast |-> fast, slow |-> slow, runner |-> runner]), c)
  BY <1>4, PartsArePlaceable DEF Legs
<1> QED BY <1>5, <1>6, <1>7, WholeIsPlaceable DEF Legs

\* ... and those of any middle runner.
LEMMA SpecsMiddlePlaceable ==
  ASSUME NEW i \in Intents, NEW c \in Nat
  PROVE  Placeable(SpecsMiddle(i, c), c)
<1> DEFINE first == Share(c, FIRST_CLOSE)
           fast == Share(first, FAST_OF_BUCKET)
<1>1. first \in 0 .. c /\ c - first \in 0 .. c
  <2>1. FIRST_CLOSE \in 0 .. 1000
    BY DEF FIRST_CLOSE
  <2>2. first \in 0 .. c
    BY <2>1, ShareType
  <2> HIDE DEF first
  <2> QED BY <2>2
<1> HIDE DEF first
<1>2. fast \in 0 .. c /\ first - fast \in 0 .. c
  <2>1. first \in Nat /\ FAST_OF_BUCKET \in 0 .. 1000
    BY <1>1 DEF FAST_OF_BUCKET
  <2>2. fast \in 0 .. first
    BY <2>1, ShareType
  <2> HIDE DEF fast
  <2> QED BY <1>1, <2>2
<1>3. \/ SpecsMiddle(i, c) = WholeAs("final", c)
      \/ SpecsMiddle(i, c) = SpecsMiddlePartial(i, c)
      \/ SpecsMiddle(i, c) = Orders([fast |-> fast, slow |-> first - fast, runner |-> c - first])
      \/ SpecsMiddle(i, c) = Orders([middle |-> first, runner |-> c - first])
  BY DEF SpecsMiddle, first
<1> HIDE DEF fast
<1>4. /\ Placeable(Orders([fast |-> fast, slow |-> first - fast, runner |-> c - first]), c)
      /\ Placeable(Orders([middle |-> first, runner |-> c - first]), c)
  BY <1>1, <1>2, PartsArePlaceable DEF Legs
<1> QED BY <1>3, <1>4, WholeIsPlaceable, SpecsMiddlePartialPlaceable DEF Legs

\* Whatever the plan and the size, no order exceeds the position, and a single exit
\* stands alone.
LEMMA SpecsPlaceable ==
  ASSUME NEW i \in Intents, NEW c \in Nat
  PROVE  Placeable(Specs(i, c), c)
BY SpecsThreePlaceable, SpecsMiddlePlaceable, WholeIsPlaceable DEF Specs, Legs

-----------------------------------------------------------------------------
(* The revisions of the strategy.                                          *)

\* The progress is the same, except that a split may be given up with its legs.
SameProgress(s, t) ==
  /\ t.held = s.held /\ t.total = s.total
  /\ t.tp1 = s.tp1 /\ t.tp2 = s.tp2 /\ t.trend = s.trend
  /\ t.active = s.active /\ t.partial = s.partial
  /\ \/ t.fast = s.fast /\ t.slow = s.slow
     \/ ~t.fast /\ ~t.slow /\ ~t.split

\* The plan is the same.
SamePlan(s, t) ==
  t.plan = s.plan /\ t.three = s.three /\ t.pending = s.pending /\ t.degrade = s.degrade

\* A revision keeps the progress and its order.
Revised(s, t) == t \in States /\ InOrder(t) /\ SameProgress(s, t)

\* Clearing the split forgets no stage and keeps the plan.
LEMMA ClearSplitRevised ==
  ASSUME NEW s \in States
  PROVE  /\ ClearSplit(s) \in States /\ ~ClearSplit(s).split
         /\ SameProgress(s, ClearSplit(s)) /\ SamePlan(s, ClearSplit(s))
<1>1. ClearSplit(s) \in States
  BY DEF ClearSplit, States
<1>2. ~ClearSplit(s).split /\ SameProgress(s, ClearSplit(s)) /\ SamePlan(s, ClearSplit(s))
  BY DEF ClearSplit, States, SameProgress, SamePlan
<1> QED BY <1>1, <1>2

\* Splitting the bucket forgets no stage and keeps the plan, and leaves a bucket to sell.
LEMMA SplitBucketRevised ==
  ASSUME NEW s \in States, s.split => s.bucket # 0, NEW bands, NEW ratio \in {TP1, FIRST_CLOSE}
  PROVE  LET t == SplitBucket(s, bands, ratio)
         IN /\ t \in States /\ SameProgress(s, t) /\ SamePlan(s, t)
            /\ t.split => t.bucket # 0
<1>1. ratio # 0 /\ ratio \in {0, TP1, FIRST_CLOSE}
  BY DEF TP1, FIRST_CLOSE
<1>2. CASE SplitBucket(s, bands, ratio) = s
  BY <1>2 DEF SameProgress, SamePlan
<1>3. CASE SplitBucket(s, bands, ratio) = ClearSplit(s)
  BY <1>3, ClearSplitRevised
<1>4. ASSUME NEW shares \in {0, TP1, FIRST_CLOSE},
             SplitBucket(s, bands, ratio)
               = [s EXCEPT !.split = TRUE, !.bucket = ratio, !.shares = shares]
      PROVE  LET t == SplitBucket(s, bands, ratio)
             IN /\ t \in States /\ SameProgress(s, t) /\ SamePlan(s, t)
                /\ t.split => t.bucket # 0
  <2> DEFINE t == [s EXCEPT !.split = TRUE, !.bucket = ratio, !.shares = shares]
  <2>1. t \in States
    BY <1>1 DEF States
  <2>2. t.bucket # 0 /\ SameProgress(s, t) /\ SamePlan(s, t)
    BY <1>1 DEF States, SameProgress, SamePlan
  <2> QED BY <1>4, <2>1, <2>2
<1>5. s.shares \in {0, TP1, FIRST_CLOSE}
  BY DEF States
<1>6. \/ SplitBucket(s, bands, ratio) = s
      \/ SplitBucket(s, bands, ratio) = ClearSplit(s)
      \/ \E shares \in {ratio, s.shares} :
           SplitBucket(s, bands, ratio)
             = [s EXCEPT !.split = TRUE, !.bucket = ratio, !.shares = shares]
  <2>1. CASE ~SplitEnabled
    BY <2>1 DEF SplitBucket
  <2>2. CASE SplitEnabled /\ bands = "both"
    BY <2>2 DEF SplitBucket
  <2>3. CASE SplitEnabled /\ bands # "both" /\ (s.fast \/ s.slow)
    BY <2>3 DEF SplitBucket
  <2>4. CASE SplitEnabled /\ bands # "both" /\ ~(s.fast \/ s.slow)
    BY <2>4 DEF SplitBucket
  <2> QED BY <2>1, <2>2, <2>3, <2>4
<1> QED BY <1>1, <1>2, <1>3, <1>4, <1>5, <1>6

\* Two revisions that forget no stage forget none together.
LEMMA SameProgressTransitive ==
  ASSUME NEW s, NEW t, NEW u, SameProgress(s, t), SameProgress(t, u), u.split => t.split
  PROVE  SameProgress(s, u)
BY DEF SameProgress

\* A plan without progress may become a single exit.
LEMMA SingleRevised ==
  ASSUME NEW s \in States, InOrder(s), PreTp1(s)
  PROVE  LET t == [ResetMiddle(ResetThree(s)) EXCEPT !.plan = "SINGLE", !.degrade = "SINGLE"]
         IN Revised(s, t)
<1> DEFINE t == [ResetMiddle(ResetThree(s)) EXCEPT !.plan = "SINGLE", !.degrade = "SINGLE"]
<1>1. t = [s EXCEPT !.three = FALSE, !.tp1 = FALSE, !.tp2 = FALSE, !.trend = FALSE,
                    !.pending = FALSE, !.active = FALSE, !.disabled = FALSE,
                    !.plan = "SINGLE", !.degrade = "SINGLE"]
  BY DEF ResetMiddle, ResetThree, States
<1>2. t \in States
  BY <1>1 DEF States, Plans
<1>3. /\ ~t.three /\ ~t.tp1 /\ ~t.tp2 /\ ~t.trend /\ ~t.pending /\ ~t.active
      /\ t.plan = "SINGLE" /\ t.split = s.split /\ t.bucket = s.bucket
      /\ t.held = s.held /\ t.total = s.total /\ t.partial = s.partial
      /\ t.fast = s.fast /\ t.slow = s.slow
  BY <1>1 DEF States
<1> HIDE DEF t
<1>4. ~s.tp1 /\ ~s.tp2 /\ ~s.trend /\ ~s.active /\ s.tp1 \in BOOLEAN /\ s.tp2 \in BOOLEAN
      /\ s.trend \in BOOLEAN /\ s.active \in BOOLEAN
  BY DEF PreTp1, States
<1>5. t.tp1 \in BOOLEAN /\ t.tp2 \in BOOLEAN /\ t.trend \in BOOLEAN /\ t.active \in BOOLEAN
  BY <1>2 DEF States
<1>6. SameProgress(s, t)
  BY <1>3, <1>4, <1>5 DEF SameProgress
<1>7. InOrder(t)
  BY <1>3 DEF InOrder
<1> QED BY <1>2, <1>6, <1>7 DEF Revised, t

\* The fallback to a single exit is a revision.
LEMMA FallbackRevised ==
  ASSUME NEW s \in States, InOrder(s)
  PROVE  Revised(s, FallbackToSingle(s))
<1>1. CASE PreTp1(s)
  BY <1>1, SingleRevised DEF FallbackToSingle
<1>2. CASE ~PreTp1(s)
  BY <1>2 DEF FallbackToSingle, Revised, SameProgress
<1> QED BY <1>1, <1>2

\* What may be proposed: the plan to finish it with fits the progress.
Proposed(s, p) ==
  /\ Revised(s, p.s) /\ p.plan \in Plans
  /\ p.plan = "MIDDLE_RUNNER" => ~p.s.three /\ ~p.s.active
  /\ p.plan = "THREE_STAGE_RUNNER" => ~p.s.pending /\ ~p.s.active

\* So the fallback may be proposed ...
LEMMA ByFallbackProposed ==
  ASSUME NEW s \in States, InOrder(s)
  PROVE  Proposed(s, ByFallback(s))
BY FallbackRevised DEF ByFallback, Proposal, Proposed, Plans

\* ... and so may a single exit for the state as it is.
LEMMA UnchangedProposed ==
  ASSUME NEW s \in States, InOrder(s), NEW reason
  PROVE  Proposed(s, Proposal(s, "SINGLE", reason))
BY DEF Proposal, Proposed, Revised, SameProgress, Plans

\* A plan that took too long and has made no progress is degraded.
LEMMA DegradePreTp1Proposed ==
  ASSUME NEW s \in States, InOrder(s), NEW bands, NEW a, DegradeTarget(s, a) # "NONE"
  PROVE  Proposed(s, DegradePreTp1(s, bands, a))
<1>1. PreTp1(s)
  BY DEF DegradeTarget
<1> DEFINE single == [ResetMiddle(ResetThree(s)) EXCEPT !.plan = "SINGLE", !.degrade = "SINGLE"]
           middle == [PlanMiddle(ResetThree(s)) EXCEPT
                        !.plan = "MIDDLE_RUNNER", !.degrade = "MIDDLE_RUNNER"]
<1>2. Revised(s, single)
  BY <1>1, SingleRevised
<1>3. middle = [s EXCEPT !.three = FALSE, !.tp1 = FALSE, !.tp2 = FALSE, !.trend = FALSE,
                         !.pending = TRUE, !.active = FALSE, !.disabled = FALSE,
                         !.plan = "MIDDLE_RUNNER", !.degrade = "MIDDLE_RUNNER"]
  BY DEF PlanMiddle, ResetThree, States
<1>4. middle \in States
  BY <1>3 DEF States, Plans
<1>5. /\ ~middle.three /\ ~middle.tp1 /\ ~middle.tp2 /\ ~middle.trend /\ ~middle.active
      /\ middle.split = s.split /\ middle.bucket = s.bucket
      /\ middle.held = s.held /\ middle.total = s.total /\ middle.partial = s.partial
      /\ middle.fast = s.fast /\ middle.slow = s.slow
  BY <1>3 DEF States
<1>6. \/ DegradePreTp1(s, bands, a) = Proposal(single, "SINGLE", TRUE)
      \/ DegradePreTp1(s, bands, a) = ByFallback(s)
      \/ DegradePreTp1(s, bands, a) = Proposal(middle, "MIDDLE_RUNNER", TRUE)
  BY DEF DegradePreTp1
<1> HIDE DEF single, middle
<1>7. ~s.tp1 /\ ~s.tp2 /\ ~s.trend /\ ~s.active /\ s.tp1 \in BOOLEAN /\ s.tp2 \in BOOLEAN
      /\ s.trend \in BOOLEAN /\ s.active \in BOOLEAN
  BY <1>1 DEF PreTp1, States
<1>8. middle.tp1 \in BOOLEAN /\ middle.tp2 \in BOOLEAN
      /\ middle.trend \in BOOLEAN /\ middle.active \in BOOLEAN
  BY <1>4 DEF States
<1>9. SameProgress(s, middle)
  BY <1>5, <1>7, <1>8 DEF SameProgress
<1>10. InOrder(middle)
  BY <1>5 DEF InOrder
<1>11. Revised(s, middle)
  BY <1>4, <1>9, <1>10 DEF Revised
<1>12. Proposed(s, Proposal(middle, "MIDDLE_RUNNER", TRUE))
  BY <1>5, <1>11 DEF Proposed, Proposal, Plans
<1>13. Proposed(s, Proposal(single, "SINGLE", TRUE))
  BY <1>2 DEF Proposed, Proposal, Plans
<1> QED BY <1>6, <1>12, <1>13, ByFallbackProposed

\* A split is decided anew, and the plan stays or falls back to a single exit.
LEMMA SplitInOrder ==
  ASSUME NEW s \in States, InOrder(s), NEW t \in States, SameProgress(s, t), SamePlan(s, t),
         t.split => t.bucket # 0
  PROVE  Revised(s, t)
BY DEF Revised, InOrder, SameProgress, SamePlan

\* A split that is then given up is a revision that may be proposed.
LEMMA SplitFallbackRevised ==
  ASSUME NEW s \in States, InOrder(s), NEW bands, NEW ratio \in {TP1, FIRST_CLOSE}
  PROVE  /\ Revised(s, SplitBucket(s, bands, ratio))
         /\ Proposed(s, ByFallback(SplitBucket(s, bands, ratio)))
<1> DEFINE t == SplitBucket(s, bands, ratio)
           u == FallbackToSingle(t)
<1>1. s.split => s.bucket # 0
  BY DEF InOrder
<1>2. t \in States /\ SameProgress(s, t) /\ SamePlan(s, t) /\ (t.split => t.bucket # 0)
  BY <1>1, SplitBucketRevised
<1> HIDE DEF t
<1>3. Revised(s, t) /\ InOrder(t)
  BY <1>2, SplitInOrder DEF Revised
<1>4. Revised(t, u)
  BY <1>2, <1>3, FallbackRevised
<1>5. u.split = t.split
  BY <1>2 DEF FallbackToSingle, ResetMiddle, ResetThree, States
<1>6. Revised(s, u)
  BY <1>2, <1>4, <1>5, SameProgressTransitive DEF Revised
<1> QED BY <1>3, <1>6 DEF t, ByFallback, Proposal, Proposed, Plans

\* What is selected for a middle runner that waits may be proposed ...
LEMMA MiddlePendingProposed ==
  ASSUME NEW s \in States, InOrder(s), s.pending, ~s.active, NEW bands
  PROVE  Proposed(s, MiddlePending(s, bands))
<1> DEFINE split == SplitBucket(s, bands, FIRST_CLOSE)
           t == [split EXCEPT !.pending = TRUE]
<1>1. Revised(s, split) /\ Proposed(s, ByFallback(split))
  BY SplitFallbackRevised
<1>2. SamePlan(s, split) /\ split \in States
  BY SplitBucketRevised DEF InOrder
<1>3. \/ MiddlePending(s, bands) = Proposal(t, "MIDDLE_RUNNER", FALSE)
      \/ MiddlePending(s, bands) = ByFallback(split)
  BY DEF MiddlePending
<1> HIDE DEF split
<1>4. s.pending \in BOOLEAN /\ split.pending \in BOOLEAN
  BY <1>2 DEF States
<1>5. split.pending = TRUE
  BY <1>2, <1>4 DEF SamePlan
<1>6. t = split
  BY <1>2, <1>5 DEF States
<1>7. ~split.three /\ ~split.active
  BY <1>1, <1>5 DEF Revised, InOrder, SameProgress
<1>8. Proposed(s, Proposal(split, "MIDDLE_RUNNER", FALSE))
  BY <1>1, <1>7 DEF Proposed, Proposal, Plans
<1> QED BY <1>1, <1>3, <1>6, <1>8

\* ... as is what is selected for a three-stage plan under way.
LEMMA ThreeStagePlannedProposed ==
  ASSUME NEW s \in States, InOrder(s), s.three, ~s.active, ~s.pending, NEW bands
  PROVE  Proposed(s, ThreeStagePlanned(s, bands))
<1> DEFINE split == SplitBucket(s, bands, TP1)
<1>1. Revised(s, split) /\ Proposed(s, ByFallback(split)) /\ SamePlan(s, split)
  BY SplitFallbackRevised, SplitBucketRevised DEF InOrder
<1>2. \/ ThreeStagePlanned(s, bands) = Proposal(split, "THREE_STAGE_RUNNER", FALSE)
      \/ ThreeStagePlanned(s, bands) = ByFallback(split)
  BY DEF ThreeStagePlanned
<1> HIDE DEF split
<1>3. ~split.pending /\ ~split.active
  BY <1>1 DEF SamePlan, Revised, SameProgress
<1>4. Proposed(s, Proposal(split, "THREE_STAGE_RUNNER", FALSE))
  BY <1>1, <1>3 DEF Proposed, Proposal, Plans
<1> QED BY <1>1, <1>2, <1>4

\* The plans a position may begin with.
LEMMA SelectPlanType ==
  ASSUME NEW s, NEW bands
  PROVE  /\ SelectPlan(s, bands) \in Plans
         /\ SelectPlan(s, bands) = "THREE_STAGE_RUNNER" => ThreeStageAllowed(s, bands)
<1>1. CASE s.degrade = "SINGLE"
  BY <1>1 DEF SelectPlan, Plans
<1>2. CASE s.degrade = "MIDDLE_RUNNER"
  BY <1>2 DEF SelectPlan, Plans
<1>3. CASE s.degrade \notin {"SINGLE", "MIDDLE_RUNNER"}
  BY <1>3 DEF SelectPlan, Plans
<1> QED BY <1>1, <1>2, <1>3

\* Planning a middle runner is a revision that starts no other plan ...
LEMMA PlanMiddleRevised ==
  ASSUME NEW s \in States, InOrder(s), ~s.active, ~s.three
  PROVE  /\ Revised(s, PlanMiddle(s))
         /\ ~PlanMiddle(s).three /\ ~PlanMiddle(s).active
         /\ PlanMiddle(s).split = s.split /\ PlanMiddle(s).plan = s.plan
<1> DEFINE t == PlanMiddle(s)
<1>1. t \in States
  BY DEF PlanMiddle, States
<1>2. /\ t.plan = s.plan /\ t.three = s.three /\ t.tp1 = s.tp1 /\ t.tp2 = s.tp2
      /\ t.trend = s.trend /\ ~t.active /\ t.split = s.split /\ t.bucket = s.bucket
      /\ t.held = s.held /\ t.total = s.total /\ t.partial = s.partial
      /\ t.fast = s.fast /\ t.slow = s.slow
  BY DEF PlanMiddle, States
<1> HIDE DEF t
<1>3. t.active \in BOOLEAN /\ s.active \in BOOLEAN
  BY <1>1 DEF States
<1>4. SameProgress(s, t)
  BY <1>2, <1>3 DEF SameProgress
<1>5. InOrder(t)
  BY <1>2 DEF InOrder
<1> QED BY <1>1, <1>2, <1>4, <1>5 DEF Revised, t

\* ... and so is planning three stages.
LEMMA ThreeRevised ==
  ASSUME NEW s \in States, InOrder(s), ~s.active, ~s.pending, s.plan # "MIDDLE_RUNNER"
  PROVE  LET t == [s EXCEPT !.three = TRUE]
         IN Revised(s, t) /\ t.plan = s.plan /\ t.split = s.split /\ t.fast = s.fast
            /\ t.slow = s.slow /\ ~t.active /\ ~t.pending
<1> DEFINE t == [s EXCEPT !.three = TRUE]
<1>1. t \in States
  BY DEF States
<1>2. /\ t.plan = s.plan /\ t.three /\ t.tp1 = s.tp1 /\ t.tp2 = s.tp2
      /\ t.trend = s.trend /\ t.active = s.active /\ t.split = s.split /\ t.bucket = s.bucket
      /\ t.held = s.held /\ t.total = s.total /\ t.partial = s.partial
      /\ t.fast = s.fast /\ t.slow = s.slow /\ t.pending = s.pending
  BY DEF States
<1> HIDE DEF t
<1>3. SameProgress(s, t)
  BY <1>2 DEF SameProgress
<1>4. InOrder(t)
  BY <1>2 DEF InOrder
<1> QED BY <1>1, <1>2, <1>3, <1>4 DEF Revised, t

\* What is selected for a fresh position may be proposed.
LEMMA NormalSelectionProposed ==
  ASSUME NEW s \in States, InOrder(s), ~s.trend, ~s.active, ~s.pending, ~s.three, NEW bands
  PROVE  Proposed(s, NormalSelection(s, bands))
<1> DEFINE plan == SelectPlan(s, bands)
           three == [s EXCEPT !.three = TRUE]
           split == SplitBucket(three, bands, TP1)
<1>1. /\ plan \in Plans
      /\ plan = "THREE_STAGE_RUNNER" => s.plan # "MIDDLE_RUNNER"
  BY SelectPlanType DEF ThreeStageAllowed
<1> HIDE DEF plan
<1>2. CASE plan = "MIDDLE_RUNNER"
  <2>1. NormalSelection(s, bands) = Proposal(PlanMiddle(s), plan, FALSE)
    BY <1>2 DEF NormalSelection, plan
  <2> QED BY <1>2, <2>1, PlanMiddleRevised DEF Proposal, Proposed, Plans
<1>3. CASE plan = "THREE_STAGE_RUNNER"
  <2>1. /\ Revised(s, three) /\ ~three.active /\ ~three.pending
        /\ three.split = s.split /\ three.fast = s.fast /\ three.slow = s.slow
    BY <1>1, <1>3, ThreeRevised
  <2>2. \/ NormalSelection(s, bands) = Proposal(three, plan, FALSE)
        \/ NormalSelection(s, bands) = Proposal(split, plan, FALSE)
    BY <1>3 DEF NormalSelection, plan
  <2> HIDE DEF three
  <2>3. Revised(three, split) /\ SamePlan(three, split)
    BY <2>1, SplitFallbackRevised, SplitBucketRevised DEF Revised, InOrder
  <2> HIDE DEF split
  <2>4. SameProgress(s, split)
    BY <2>1, <2>3 DEF Revised, SameProgress
  <2>5. ~split.active /\ ~split.pending
    BY <2>1, <2>3 DEF Revised, SameProgress, SamePlan
  <2>6. Revised(s, split)
    BY <2>3, <2>4 DEF Revised
  <2>7. /\ Proposed(s, Proposal(three, "THREE_STAGE_RUNNER", FALSE))
        /\ Proposed(s, Proposal(split, "THREE_STAGE_RUNNER", FALSE))
    BY <2>1, <2>5, <2>6 DEF Proposal, Proposed, Plans
  <2> QED BY <1>3, <2>2, <2>7
<1>4. CASE plan \notin {"MIDDLE_RUNNER", "THREE_STAGE_RUNNER"}
  <2>1. plan = "SINGLE"
    BY <1>1, <1>4 DEF Plans
  <2>2. NormalSelection(s, bands) = Proposal(s, "SINGLE", FALSE)
    BY <2>1 DEF NormalSelection, plan
  <2> QED BY <2>2, UnchangedProposed
<1> QED BY <1>2, <1>3, <1>4

\* Every branch of the update proposes a plan that fits the progress.
LEMMA ProposeProposed ==
  ASSUME NEW s \in States, InOrder(s), NEW bands, NEW a
  PROVE  Proposed(s, Propose(s, bands, a))
<1>1. CASE GateCloses(s, bands)
  <2>1. Propose(s, bands, a) = ProfitGate(s)
    BY <1>1 DEF Propose
  <2> QED BY <2>1, ByFallbackProposed, UnchangedProposed DEF ProfitGate
<1>2. CASE ~GateCloses(s, bands) /\ DegradeTarget(s, a) # "NONE"
  <2>1. Propose(s, bands, a) = DegradePreTp1(s, bands, a)
    BY <1>2 DEF Propose
  <2> QED BY <1>2, <2>1, DegradePreTp1Proposed
<1>3. CASE ~GateCloses(s, bands) /\ DegradeTarget(s, a) = "NONE"
  <2>1. CASE s.trend \/ s.active
    <3>1. Propose(s, bands, a) = Proposal(s, "SINGLE", FALSE)
      BY <1>3, <2>1 DEF Propose
    <3> QED BY <3>1, UnchangedProposed
  <2>2. CASE ~s.trend /\ ~s.active /\ s.pending
    <3>1. Propose(s, bands, a) = MiddlePending(s, bands)
      BY <1>3, <2>2 DEF Propose
    <3> QED BY <2>2, <3>1, MiddlePendingProposed
  <2>3. CASE ~s.trend /\ ~s.active /\ ~s.pending /\ s.three
    <3>1. Propose(s, bands, a) = ThreeStagePlanned(s, bands)
      BY <1>3, <2>3 DEF Propose
    <3> QED BY <2>3, <3>1, ThreeStagePlannedProposed
  <2>4. CASE ~s.trend /\ ~s.active /\ ~s.pending /\ ~s.three
    <3>1. Propose(s, bands, a) = NormalSelection(s, bands)
      BY <1>3, <2>4 DEF Propose
    <3> QED BY <2>4, <3>1, NormalSelectionProposed
  <2> QED BY <2>1, <2>2, <2>3, <2>4
<1> QED BY <1>1, <1>2, <1>3

\* What an intent leaves in the state keeps the progress as well.
LEMMA FinalizeRevised ==
  ASSUME NEW s, NEW p, Proposed(s, p), NEW bands
  PROVE  Revised(s, Finalize(p.s, p.plan, bands))
<1> DEFINE t == p.s
           set == [t EXCEPT !.plan = p.plan]
           u == Finalize(t, p.plan, bands)
<1>1. t \in States /\ InOrder(t) /\ SameProgress(s, t) /\ p.plan \in Plans
  BY DEF Proposed, Revised
<1>2. set \in States
  BY <1>1 DEF States
<1>3. /\ set.plan = p.plan /\ set.three = t.three /\ set.tp1 = t.tp1 /\ set.tp2 = t.tp2
      /\ set.trend = t.trend /\ set.active = t.active /\ set.pending = t.pending
      /\ set.split = t.split /\ set.bucket = t.bucket /\ set.held = t.held
      /\ set.total = t.total /\ set.partial = t.partial /\ set.fast = t.fast
      /\ set.slow = t.slow
  BY <1>1 DEF States
<1>4. u = CASE p.plan = "SINGLE" -> ClearSplit(set)
            [] p.plan = "MIDDLE_RUNNER" -> PlanMiddle(set)
            [] p.plan = "THREE_STAGE_RUNNER" ->
                 IF set.split THEN set
                 ELSE IF MiddleMode(bands) THEN [set EXCEPT !.three = TRUE]
                 ELSE [FallbackToSingle(set) EXCEPT !.plan = "SINGLE"]
  BY DEF Finalize
<1>5. SameProgress(t, set) /\ SameProgress(s, set)
  BY <1>1, <1>3 DEF SameProgress
<1> HIDE DEF set, u
<1>6. (p.plan = "MIDDLE_RUNNER" => ~set.three) => InOrder(set)
  BY <1>1, <1>3 DEF InOrder
<1>7. CASE p.plan = "SINGLE"
  <2>1. u = ClearSplit(set)
    BY <1>4, <1>7
  <2>2. InOrder(set)
    BY <1>6, <1>7
  <2>3. u \in States /\ ~u.split /\ SameProgress(set, u) /\ SamePlan(set, u)
    BY <1>2, <2>1, ClearSplitRevised
  <2>4. Revised(set, u)
    BY <1>2, <2>2, <2>3, SplitInOrder
  <2> QED BY <1>5, <2>3, <2>4, SameProgressTransitive DEF Revised, u
<1>8. CASE p.plan = "MIDDLE_RUNNER"
  <2>1. u = PlanMiddle(set) /\ ~set.three /\ ~set.active
    BY <1>3, <1>4, <1>8 DEF Proposed
  <2>2. Revised(set, u) /\ u.split = set.split
    BY <1>2, <1>6, <2>1, PlanMiddleRevised
  <2> QED BY <1>5, <2>2, SameProgressTransitive DEF Revised, u
<1>9. CASE p.plan = "THREE_STAGE_RUNNER"
  <2>1. ~set.pending /\ ~set.active /\ set.plan # "MIDDLE_RUNNER" /\ InOrder(set)
    BY <1>3, <1>6, <1>9 DEF Proposed
  <2>2. CASE u = set
    BY <1>2, <1>5, <2>1, <2>2 DEF Revised, u
  <2>3. CASE u = [set EXCEPT !.three = TRUE]
    <3>1. Revised(set, u) /\ u.split = set.split
      BY <1>2, <2>1, <2>3, ThreeRevised
    <3> QED BY <1>5, <3>1, SameProgressTransitive DEF Revised, u
  <2>4. CASE u = [FallbackToSingle(set) EXCEPT !.plan = "SINGLE"]
    <3> DEFINE f == FallbackToSingle(set)
    <3>1. Revised(set, f) /\ f \in States
      BY <1>2, <2>1, FallbackRevised DEF Revised
    <3>2. f.split = set.split
      BY <1>2 DEF FallbackToSingle, ResetMiddle, ResetThree, States
    <3> HIDE DEF f
    <3>3. u = [f EXCEPT !.plan = "SINGLE"]
      BY <2>4 DEF f
    <3>4. u \in States
      BY <3>1, <3>3 DEF States, Plans
    <3>5. /\ u.plan = "SINGLE" /\ u.three = f.three /\ u.tp1 = f.tp1 /\ u.tp2 = f.tp2
          /\ u.trend = f.trend /\ u.active = f.active /\ u.pending = f.pending
          /\ u.split = f.split /\ u.bucket = f.bucket /\ u.held = f.held
          /\ u.total = f.total /\ u.partial = f.partial /\ u.fast = f.fast
          /\ u.slow = f.slow
      BY <3>1, <3>3 DEF States
    <3>6. InOrder(u) /\ SameProgress(set, u)
      BY <3>1, <3>5 DEF Revised, InOrder, SameProgress
    <3> QED BY <1>5, <3>2, <3>4, <3>5, <3>6, SameProgressTransitive DEF Revised, u
  <2>5. u = IF set.split THEN set
            ELSE IF MiddleMode(bands) THEN [set EXCEPT !.three = TRUE]
            ELSE [FallbackToSingle(set) EXCEPT !.plan = "SINGLE"]
    BY <1>4, <1>9
  <2> QED BY <2>2, <2>3, <2>4, <2>5
<1> QED BY <1>1, <1>7, <1>8, <1>9 DEF Plans

-----------------------------------------------------------------------------
(* The looks of the account sync.                                          *)

\* What a look at q contracts adds to the progress: the exchange has sold the stages
\* that are new.
Advanced(s, q, m) ==
  /\ m \in States /\ InOrder(m)
  /\ m.held = s.held /\ m.split = s.split /\ m.total = s.total
  /\ s.tp1 => m.tp1
  /\ s.tp2 => m.tp2
  /\ s.active => m.active
  /\ s.fast => m.fast
  /\ (m.tp1 /\ ~s.tp1) \/ (m.active /\ ~s.active) => 1000 * q <= TP1_BELOW * EntryQty
  /\ m.tp2 /\ ~s.tp2 => 1000 * q <= TP2_BELOW * EntryQty
  /\ m.fast /\ ~m.slow => (s.fast /\ ~s.slow) \/ FastFilled(s, q)

\* The quantities below which a stage counts as sold, in thousandths of the entry.
LEMMA BelowBounds == TP1_BELOW = 430 /\ TP2_BELOW = 220
<1>1. (600 * 50) \div 1000 = 30 /\ (200 * 100) \div 1000 = 20
  OBVIOUS
<1> QED BY <1>1 DEF TP1_BELOW, TP2_BELOW, TP1, RUNNER, Maximum, Share

\* A bucket that is taken for sold is the first close at least, give or take three hundredths.
LEMMA FullBelowBound ==
  ASSUME NEW s \in States, s.bucket # 0
  PROVE  FullBelow(s) \in {430, 240}
<1>1. s.bucket \in {600, 800}
  BY DEF States, TP1, FIRST_CLOSE
<1>2. (600 * 50) \div 1000 = 30 /\ (800 * 50) \div 1000 = 40
  OBVIOUS
<1> QED BY <1>1, <1>2 DEF FullBelow, Maximum, Share

\* A bucket recognised as sold leaves no more than the first stage may leave ...
LEMMA BucketSoldBound ==
  ASSUME NEW s \in States, InOrder(s), NEW q \in Nat, BucketFilled(s, q)
  PROVE  1000 * q <= TP1_BELOW * EntryQty
<1>1. s.total \in 0 .. EntryQty /\ EntryQty \in Nat
  BY ConstantsAssumption DEF States
<1>2. FullBelow(s) \in {430, 240} /\ 1000 * q <= FullBelow(s) * s.total
  BY FullBelowBound DEF BucketFilled, Below, InOrder
<1> QED BY <1>1, <1>2, BelowBounds

\* ... so does the first close of a middle runner ...
LEMMA FirstCloseBound ==
  ASSUME NEW s \in States, NEW q \in Nat, MiddleFilled(s, q)
  PROVE  1000 * q <= TP1_BELOW * EntryQty
<1>1. s.total \in 0 .. EntryQty /\ EntryQty \in Nat
  BY ConstantsAssumption DEF States
<1>2. 1000 * q - 200 * s.total <= 30 * s.total
  BY <1>1 DEF MiddleFilled, KeptShare, Maximum, FIRST_CLOSE
<1> QED BY <1>1, <1>2, BelowBounds

\* ... and the two stages each leave no more than they may.
LEMMA StagesBound ==
  ASSUME NEW s \in States, NEW q \in Nat
  PROVE  /\ Tp1Filled(s, q) => 1000 * q <= TP1_BELOW * EntryQty
         /\ Tp2Filled(s, q) => /\ 1000 * q <= TP1_BELOW * EntryQty
                               /\ 1000 * q <= TP2_BELOW * EntryQty
<1>1. s.total \in 0 .. EntryQty /\ EntryQty \in Nat
  BY ConstantsAssumption DEF States
<1>2. Tp1Filled(s, q) => 1000 * q <= 430 * s.total
  BY BelowBounds DEF Tp1Filled, Below
<1>3. Tp2Filled(s, q) => 1000 * q <= 220 * s.total
  BY BelowBounds DEF Tp2Filled, Below
<1> QED BY <1>1, <1>2, <1>3, BelowBounds

\* The ten ways the sync may mark a quantity.
LEMMA MarkedCases ==
  ASSUME NEW s, NEW q
  PROVE  LET m == Marked(s, q)
         IN \/ /\ BucketFilled(s, q) /\ s.plan = "THREE_STAGE_RUNNER"
               /\ m = [s EXCEPT !.fast = TRUE, !.slow = TRUE, !.tp1 = TRUE, !.partial = TRUE]
            \/ /\ BucketFilled(s, q) /\ s.plan = "MIDDLE_RUNNER"
               /\ m = [s EXCEPT !.fast = TRUE, !.slow = TRUE, !.pending = FALSE,
                                !.active = TRUE, !.disabled = TRUE, !.partial = TRUE,
                                !.plan = "SINGLE"]
            \/ /\ BucketFilled(s, q)
               /\ m = [s EXCEPT !.fast = TRUE, !.slow = TRUE]
            \/ FastFilled(s, q) /\ m = [s EXCEPT !.fast = TRUE]
            \/ SlowOnlyFilled(s, q) /\ m = [s EXCEPT !.slow = TRUE]
            \/ /\ MiddleFilled(s, q)
               /\ m = [s EXCEPT !.pending = FALSE, !.active = TRUE, !.disabled = TRUE,
                                !.partial = TRUE, !.plan = "SINGLE"]
            \/ /\ Tp2Filled(s, q)
               /\ m = [s EXCEPT !.tp1 = TRUE, !.partial = TRUE, !.tp2 = TRUE, !.trend = TRUE,
                                !.plan = "SINGLE"]
            \/ Tp1Filled(s, q) /\ m = [s EXCEPT !.tp1 = TRUE, !.partial = TRUE]
            \/ m = [s EXCEPT !.disabled = TRUE]
            \/ m = s
<1>1. CASE BucketFilled(s, q)
  <2>1. ~FastFilled(s, q) /\ ~SlowOnlyFilled(s, q) /\ ~MiddleFilled(s, q)
        /\ ~Tp2Filled(s, q) /\ ~Tp1Filled(s, q) /\ ~MiddleMismatch(s, q)
    BY <1>1 DEF BucketFilled, FastFilled, SlowOnlyFilled, MiddleFilled, Tp2Filled, Tp1Filled,
                MiddleMismatch, SplitPending
  <2> QED BY <1>1, <2>1 DEF Marked
<1>2. CASE ~BucketFilled(s, q)
  BY <1>2 DEF Marked
<1> QED BY <1>1, <1>2

\* Each of them advances the stages in order, and only over what was sold.
LEMMA MarkedAdvanced ==
  ASSUME NEW s \in States, InOrder(s), NEW q \in Nat
  PROVE  Advanced(s, q, Marked(s, q))
<1> DEFINE m == Marked(s, q)
<1>1. ASSUME BucketFilled(s, q), s.plan = "THREE_STAGE_RUNNER",
             m = [s EXCEPT !.fast = TRUE, !.slow = TRUE, !.tp1 = TRUE, !.partial = TRUE]
      PROVE  Advanced(s, q, m)
  <2>1. m \in States
    BY <1>1 DEF States
  <2>2. /\ m.held = s.held /\ m.split = s.split /\ m.total = s.total /\ m.fast /\ m.slow
        /\ m.tp1 /\ m.tp2 = s.tp2 /\ m.trend = s.trend /\ m.active = s.active /\ m.partial
        /\ m.three = s.three /\ m.pending = s.pending /\ m.plan = s.plan
        /\ m.bucket = s.bucket
    BY <1>1 DEF States
  <2> HIDE DEF m
  <2>3. InOrder(m)
    BY <2>2 DEF InOrder
  <2> QED BY <1>1, <2>1, <2>2, <2>3, BucketSoldBound DEF Advanced
<1>2. ASSUME BucketFilled(s, q), s.plan = "MIDDLE_RUNNER",
             m = [s EXCEPT !.fast = TRUE, !.slow = TRUE, !.pending = FALSE, !.active = TRUE,
                           !.disabled = TRUE, !.partial = TRUE, !.plan = "SINGLE"]
      PROVE  Advanced(s, q, m)
  <2>1. m \in States
    BY <1>2 DEF States, Plans
  <2>2. /\ m.held = s.held /\ m.split = s.split /\ m.total = s.total /\ m.fast /\ m.slow
        /\ m.tp1 = s.tp1 /\ m.tp2 = s.tp2 /\ m.trend = s.trend /\ m.active /\ m.partial
        /\ m.three = s.three /\ ~m.pending /\ m.plan = "SINGLE" /\ m.bucket = s.bucket
    BY <1>2 DEF States
  <2> HIDE DEF m
  <2>3. InOrder(m)
    BY <1>2, <2>2 DEF InOrder
  <2> QED BY <1>2, <2>1, <2>2, <2>3, BucketSoldBound DEF Advanced
<1>3. ASSUME m = [s EXCEPT !.fast = TRUE, !.slow = TRUE] PROVE Advanced(s, q, m)
  <2>1. m \in States
    BY <1>3 DEF States
  <2>2. /\ m.held = s.held /\ m.split = s.split /\ m.total = s.total /\ m.fast /\ m.slow
        /\ m.tp1 = s.tp1 /\ m.tp2 = s.tp2 /\ m.trend = s.trend /\ m.active = s.active
        /\ m.three = s.three /\ m.pending = s.pending /\ m.plan = s.plan
        /\ m.bucket = s.bucket /\ m.partial = s.partial
    BY <1>3 DEF States
  <2> HIDE DEF m
  <2> QED BY <2>1, <2>2 DEF Advanced, InOrder
<1>4. ASSUME FastFilled(s, q), m = [s EXCEPT !.fast = TRUE] PROVE Advanced(s, q, m)
  <2>1. m \in States
    BY <1>4 DEF States
  <2>2. /\ m.held = s.held /\ m.split = s.split /\ m.total = s.total /\ m.fast
        /\ m.tp1 = s.tp1 /\ m.tp2 = s.tp2 /\ m.trend = s.trend /\ m.active = s.active
        /\ m.three = s.three /\ m.pending = s.pending /\ m.plan = s.plan
        /\ m.bucket = s.bucket /\ m.partial = s.partial
    BY <1>4 DEF States
  <2> HIDE DEF m
  <2> QED BY <1>4, <2>1, <2>2 DEF Advanced, InOrder
<1>5. ASSUME SlowOnlyFilled(s, q), m = [s EXCEPT !.slow = TRUE] PROVE Advanced(s, q, m)
  <2>1. m \in States
    BY <1>5 DEF States
  <2>2. /\ m.held = s.held /\ m.split = s.split /\ m.total = s.total /\ m.fast = s.fast
        /\ m.slow
        /\ m.tp1 = s.tp1 /\ m.tp2 = s.tp2 /\ m.trend = s.trend /\ m.active = s.active
        /\ m.three = s.three /\ m.pending = s.pending /\ m.plan = s.plan
        /\ m.bucket = s.bucket /\ m.partial = s.partial
    BY <1>5 DEF States
  <2> HIDE DEF m
  <2> QED BY <2>1, <2>2 DEF Advanced, InOrder
<1>6. ASSUME MiddleFilled(s, q),
             m = [s EXCEPT !.pending = FALSE, !.active = TRUE, !.disabled = TRUE,
                           !.partial = TRUE, !.plan = "SINGLE"]
      PROVE  Advanced(s, q, m)
  <2>1. m \in States
    BY <1>6 DEF States, Plans
  <2>2. /\ m.held = s.held /\ m.split = s.split /\ m.total = s.total
        /\ m.fast = s.fast /\ m.slow = s.slow
        /\ m.tp1 = s.tp1 /\ m.tp2 = s.tp2 /\ m.trend = s.trend /\ m.active /\ m.partial
        /\ m.three = s.three /\ ~m.pending /\ m.plan = "SINGLE" /\ m.bucket = s.bucket
    BY <1>6 DEF States
  <2> HIDE DEF m
  <2>3. InOrder(m)
    BY <1>6, <2>2 DEF InOrder, MiddleFilled
  <2> QED BY <1>6, <2>1, <2>2, <2>3, FirstCloseBound DEF Advanced
<1>7. ASSUME Tp2Filled(s, q),
             m = [s EXCEPT !.tp1 = TRUE, !.partial = TRUE, !.tp2 = TRUE, !.trend = TRUE,
                           !.plan = "SINGLE"]
      PROVE  Advanced(s, q, m)
  <2>1. m \in States
    BY <1>7 DEF States, Plans
  <2>2. /\ m.held = s.held /\ m.split = s.split /\ m.total = s.total
        /\ m.fast = s.fast /\ m.slow = s.slow
        /\ m.tp1 /\ m.tp2 /\ m.trend /\ m.active = s.active /\ m.partial
        /\ m.three = s.three /\ m.pending = s.pending /\ m.plan = "SINGLE"
        /\ m.bucket = s.bucket
    BY <1>7 DEF States
  <2> HIDE DEF m
  <2>3. InOrder(m)
    BY <1>7, <2>2 DEF InOrder, Tp2Filled
  <2> QED BY <1>7, <2>1, <2>2, <2>3, StagesBound DEF Advanced
<1>8. ASSUME Tp1Filled(s, q), m = [s EXCEPT !.tp1 = TRUE, !.partial = TRUE]
      PROVE  Advanced(s, q, m)
  <2>1. m \in States
    BY <1>8 DEF States
  <2>2. /\ m.held = s.held /\ m.split = s.split /\ m.total = s.total
        /\ m.fast = s.fast /\ m.slow = s.slow
        /\ m.tp1 /\ m.tp2 = s.tp2 /\ m.trend = s.trend /\ m.active = s.active /\ m.partial
        /\ m.three = s.three /\ m.pending = s.pending /\ m.plan = s.plan
        /\ m.bucket = s.bucket
    BY <1>8 DEF States
  <2> HIDE DEF m
  <2>3. InOrder(m)
    BY <2>2 DEF InOrder
  <2> QED BY <1>8, <2>1, <2>2, <2>3, StagesBound DEF Advanced
<1>9. ASSUME m \in {s, [s EXCEPT !.disabled = TRUE]} PROVE Advanced(s, q, m)
  <2>1. m \in States
    BY <1>9 DEF States
  <2>2. /\ m.held = s.held /\ m.split = s.split /\ m.total = s.total
        /\ m.fast = s.fast /\ m.slow = s.slow
        /\ m.tp1 = s.tp1 /\ m.tp2 = s.tp2 /\ m.trend = s.trend /\ m.active = s.active
        /\ m.three = s.three /\ m.pending = s.pending /\ m.plan = s.plan
        /\ m.bucket = s.bucket /\ m.partial = s.partial
    BY <1>9 DEF States
  <2> HIDE DEF m
  <2> QED BY <2>1, <2>2 DEF Advanced, InOrder
<1>10. QED
  <2> HIDE DEF m
  <2> QED BY <1>1, <1>2, <1>3, <1>4, <1>5, <1>6, <1>7, <1>8, <1>9, MarkedCases DEF m

\* Counting what is left as what was entered keeps the progress.
LEMMA CostedAdvanced ==
  ASSUME NEW s \in States, InOrder(s), NEW q \in 1 .. EntryQty
  PROVE  LET m == Marked(s, q)
             t == Costed(m, q)
         IN /\ t \in States /\ InOrder(t) /\ t.held = s.held /\ t.split = s.split
            /\ t.tp1 = m.tp1 /\ t.tp2 = m.tp2 /\ t.active = m.active
            /\ t.fast = m.fast /\ t.slow = m.slow
            /\ Advanced(s, q, m)
<1> DEFINE m == Marked(s, q)
           t == Costed(m, q)
<1>1. Advanced(s, q, m)
  <2>1. q \in Nat
    BY ConstantsAssumption
  <2> QED BY <2>1, MarkedAdvanced
<1> HIDE DEF m
<1>2. q \in 0 .. EntryQty /\ m \in States
  BY <1>1, ConstantsAssumption DEF Advanced
<1>3. t \in States
  BY <1>2 DEF Costed, States
<1>4. /\ t.held = m.held /\ t.split = m.split
      /\ t.tp1 = m.tp1 /\ t.tp2 = m.tp2 /\ t.trend = m.trend /\ t.active = m.active
      /\ t.three = m.three /\ t.pending = m.pending /\ t.plan = m.plan
      /\ t.bucket = m.bucket /\ t.partial = m.partial /\ t.fast = m.fast /\ t.slow = m.slow
  BY <1>2 DEF Costed, States
<1> HIDE DEF t
<1>5. InOrder(t)
  BY <1>1, <1>4 DEF Advanced, InOrder
<1> QED BY <1>1, <1>3, <1>4, <1>5 DEF Advanced, t, m

\* Each stage that is new raises its stop.
LEMMA NewStagesAsk ==
  ASSUME NEW s, NEW q
  PROVE  LET m == Marked(s, q)
         IN /\ StopsAsked(s, q) \subseteq Stops
            /\ m.tp1 /\ ~s.tp1 /\ ~m.tp2 => "POST_TP1" \in StopsAsked(s, q)
            /\ m.active /\ ~s.active => "MIDDLE_RUNNER" \in StopsAsked(s, q)
            /\ FastFilled(s, q) => "FAST" \in StopsAsked(s, q)
BY DEF StopsAsked, Stops

-----------------------------------------------------------------------------
(* The steps of the worker.                                                *)

\* An intent carries the split of the state it was made from.
LEMMA IntentType ==
  ASSUME NEW s \in States
  PROVE  Intent(s) \in Intents /\ Intent(s).split = s.split
<1>1. Intent(s).split = s.split
  BY DEF Intent
<1>2. (s.tp1 /\ ~s.tp2) \in BOOLEAN /\ (s.partial \/ s.active) \in BOOLEAN
  OBVIOUS
<1> QED BY <1>1, <1>2 DEF Intent, Intents, States

\* With nothing held the state is in order and the worker idle.
LEMMA NothingHeldType ==
  /\ NoPosition \in States /\ InOrder(NoPosition)
  /\ IdleWorker \in Workers /\ IdleWorker.pc = "idle"
<1>1. NoPosition \in States
  BY ConstantsAssumption DEF NoPosition, States, Plans
<1>2. InOrder(NoPosition)
  BY DEF NoPosition, InOrder
<1>3. IdleWorker \in Workers
  BY <1>1, IntentType, ConstantsAssumption DEF IdleWorker, Workers, Modes
<1> QED BY <1>1, <1>2, <1>3 DEF IdleWorker

\* A worker that has placed its orders has the result to apply.
LEMMA PlacedType ==
  ASSUME NEW mode \in Modes
  PROVE  Placed(mode) \in Workers /\ Placed(mode).pc = "apply" /\ Placed(mode).mode = mode
<1>1. Placed(mode) \in Workers
  BY NothingHeldType DEF Placed, Workers
<1> QED BY <1>1, NothingHeldType DEF Placed, Workers

\* The labels tell a single exit from the legs of a split.
LEMMA ModeOfSplit ==
  ASSUME NEW i \in Intents, NEW orders, NEW c, Placeable(orders, c)
  PROVE  /\ ModeOf(i, orders) \in Modes
         /\ i.split => ModeOf(i, orders) # "AS_PLANNED"
         /\ ModeOf(i, orders) = "SPLIT" => orders["final"] = 0
<1>1. CASE ~i.split
  BY <1>1 DEF ModeOf, Modes
<1>2. CASE i.split /\ Labels(orders) = {"final"}
  <2>1. Labels(orders) \notin {{"tp1", "tp2"}, {"middle", "runner"}}
    <3>1. "final" \in Labels(orders) /\ "final" \notin {"tp1", "tp2"}
          /\ "final" \notin {"middle", "runner"}
      BY <1>2
    <3> QED BY <3>1
  <2>2. ModeOf(i, orders) = "FINAL"
    BY <1>2, <2>1 DEF ModeOf
  <2> QED BY <1>2, <2>2 DEF Modes
<1>3. CASE i.split /\ Labels(orders) # {"final"}
  <2>1. orders["final"] = 0
    BY <1>3 DEF Placeable
  <2>2. ModeOf(i, orders) \in {"UNSPLIT", "SPLIT"}
    BY <1>3 DEF ModeOf
  <2> QED BY <1>3, <2>1, <2>2 DEF Modes
<1> QED BY <1>1, <1>2, <1>3

\* The result of the command gives up progress only with the split.
LEMMA AfterResultKeeps ==
  ASSUME NEW s \in States, InOrder(s), NEW mode \in Modes
  PROVE  LET t == AfterResult(s, mode)
         IN /\ t \in States /\ InOrder(t) /\ t.held = s.held
            /\ t = s \/ (~t.split /\ ~t.fast)
            /\ mode \in {"FINAL", "UNSPLIT"} => ~t.split
            /\ t.tp1 => s.tp1 /\ s.tp2 = t.tp2
            /\ t.tp2 => s.tp2
            /\ t.active => s.active
            /\ t.fast => s.fast /\ t.slow = s.slow
<1> DEFINE t == AfterResult(s, mode)
<1>1. CASE mode = "FINAL"
  <2> DEFINE u == ClearSplit(s)
  <2>1. u \in States /\ ~u.split /\ u.held = s.held
    BY ClearSplitRevised DEF SameProgress
  <2>2. ~u.fast
    BY DEF ClearSplit, States
  <2>3. t = [u EXCEPT !.plan = "SINGLE", !.partial = FALSE, !.tp1 = FALSE, !.tp2 = FALSE,
                      !.trend = FALSE, !.pending = FALSE, !.active = FALSE]
    BY <1>1 DEF AfterResult, DegradeToFinal
  <2> HIDE DEF t, u
  <2>4. t \in States
    BY <2>1, <2>3 DEF States, Plans
  <2>5. /\ t.held = s.held /\ ~t.split /\ ~t.fast /\ ~t.tp1 /\ ~t.tp2 /\ ~t.active
        /\ ~t.trend /\ ~t.pending /\ t.plan = "SINGLE"
    BY <2>1, <2>2, <2>3 DEF States
  <2>6. InOrder(t)
    BY <2>5 DEF InOrder
  <2> QED BY <2>4, <2>5, <2>6 DEF t
<1>2. CASE mode = "UNSPLIT"
  <2>1. t = ClearSplit(s)
    BY <1>2 DEF AfterResult
  <2> HIDE DEF t
  <2>2. t \in States /\ ~t.split /\ SameProgress(s, t) /\ SamePlan(s, t)
    BY <2>1, ClearSplitRevised
  <2>3. ~t.fast
    BY <2>1 DEF ClearSplit, States
  <2>4. Revised(s, t)
    BY <2>2, SplitInOrder
  <2> QED BY <2>2, <2>3, <2>4 DEF Revised, SameProgress, t
<1>3. CASE mode \notin {"FINAL", "UNSPLIT"}
  <2>1. t = s
    BY <1>3 DEF AfterResult
  <2> HIDE DEF t
  <2> QED BY <1>3, <2>1 DEF t
<1> QED BY <1>1, <1>2, <1>3 DEF Modes

-----------------------------------------------------------------------------
(* The invariant, action by action.                                        *)

\* The progress of a state, with what the exchange has sold and the stops asked for.
ProgressOf ==
  st \in States /\ InOrder(st) /\ Sold /\ EveryStageAsksForItsStop

\* While a position is held, no stage is forgotten.
KeepsStages ==
  /\ st.tp1 => st'.tp1
  /\ st.tp2 => st'.tp2
  /\ st.active => st'.active
  /\ st.fast => st'.fast \/ ~st'.split

\* A revision of the plan keeps what was recognised, and with it the progress.
LEMMA RevisedKeeps ==
  ASSUME ProgressInv, Revised(st, st'), UNCHANGED <<qty, asked>>
  PROVE  ProgressOf' /\ st'.held = st.held /\ KeepsStages
<1>1. st' \in States /\ InOrder(st') /\ SameProgress(st, st')
  BY DEF Revised
<1>2. Sold'
  BY <1>1 DEF ProgressInv, Sold, SameProgress
<1>3. EveryStageAsksForItsStop'
  BY <1>1 DEF ProgressInv, EveryStageAsksForItsStop, SameProgress
<1>4. KeepsStages /\ st'.held = st.held
  BY <1>1 DEF SameProgress, KeepsStages
<1> QED BY <1>1, <1>2, <1>3, <1>4 DEF ProgressOf, InOrder

\* What holds of a quantity left holds of a smaller one.
LEMMA LessIsLeft ==
  ASSUME NEW a \in Nat, NEW b \in Nat, a <= b, NEW n \in Nat, 1000 * b <= n * EntryQty
  PROVE  1000 * a <= n * EntryQty
<1> DEFINE most == n * EntryQty
<1>1. most \in Nat /\ 1000 * b <= most
  BY ConstantsAssumption
<1> HIDE DEF most
<1>2. 1000 * a <= most
  BY <1>1
<1> QED BY <1>2 DEF most

\* Selling more of the position keeps the progress.
LEMMA SameStateKeeps ==
  ASSUME ProgressInv, UNCHANGED <<st, asked>>, qty' \in 0 .. qty
  PROVE  ProgressOf' /\ KeepsStages
<1>1. Sold'
  <2>1. qty \in Nat /\ qty' \in Nat /\ qty' <= qty /\ EntryQty \in Nat
    BY ConstantsAssumption DEF ProgressInv, TypeOK
  <2>2. ASSUME NEW n \in Nat, 1000 * qty <= n * EntryQty PROVE 1000 * qty' <= n * EntryQty
    <3>1. PICK a \in Nat : a = qty'
      BY <2>1
    <3>2. PICK b \in Nat : b = qty
      BY <2>1
    <3>3. a <= b /\ 1000 * b <= n * EntryQty
      BY <2>1, <2>2, <3>1, <3>2
    <3>4. 1000 * a <= n * EntryQty
      BY <3>3, LessIsLeft
    <3> QED BY <3>1, <3>4
  <2>3. TP1_BELOW \in Nat /\ TP2_BELOW \in Nat
    BY BelowBounds
  <2> QED BY <2>2, <2>3 DEF ProgressInv, Sold
<1>2. EveryStageAsksForItsStop' /\ InOrder(st') /\ st' \in States
  BY DEF ProgressInv, TypeOK, EveryStageAsksForItsStop
<1> QED BY <1>1, <1>2 DEF ProgressOf, KeepsStages, InOrder

\* A command for the revised plan.
LEMMA SendStep ==
  ASSUME ProgressInv, st.held, NEW s, Revised(st, s), Send(s),
         UNCHANGED <<qty, legs, sync, asked>>
  PROVE  ProgressInv' /\ KeepsStages
<1>1. /\ st' = s /\ unsent' = FALSE
      /\ ex' = [IdleWorker EXCEPT !.pc = "fetch", !.intent = Intent(s)]
  BY DEF Send
<1>2. s \in States /\ Intent(s) \in Intents /\ Intent(s).split = s.split
  BY IntentType DEF Revised
<1>3. ex' \in Workers /\ ex'.pc = "fetch" /\ ex'.intent = Intent(s)
  BY <1>1, <1>2, NothingHeldType DEF Workers
<1>4. ProgressOf' /\ st'.held /\ KeepsStages
  BY <1>1, RevisedKeeps
<1>5. TypeOK'
  BY <1>1, <1>3, <1>4 DEF ProgressInv, TypeOK, ProgressOf
<1>6. SplitStands' /\ SplitHasItsLegs'
  BY <1>1, <1>2, <1>3 DEF SplitStands, SplitHasItsLegs
<1>7. NothingHeld' /\ NothingRests' /\ SyncIsBehind'
  BY <1>4 DEF ProgressInv, NothingHeld, NothingRests, SyncIsBehind
<1> QED BY <1>4, <1>5, <1>6, <1>7 DEF ProgressInv, ProgressOf

\* A revision that sends nothing leaves the split as it is, or remembers that it did not.
LEMMA QuietStep ==
  ASSUME ProgressInv, MayUpdate, Revised(st, st'),
         unsent' \in BOOLEAN, ~unsent' => ~unsent /\ st'.split = st.split,
         UNCHANGED <<qty, legs, ex, sync, asked>>
  PROVE  ProgressInv' /\ KeepsStages
<1>1. ProgressOf' /\ st'.held = st.held /\ KeepsStages
  BY RevisedKeeps
<1>2. TypeOK'
  BY <1>1 DEF ProgressInv, TypeOK, ProgressOf
<1>3. SplitStands' /\ SplitHasItsLegs'
  BY DEF ProgressInv, MayUpdate, SplitStands, SplitHasItsLegs
<1>4. NothingHeld' /\ NothingRests' /\ SyncIsBehind'
  BY <1>1 DEF ProgressInv, MayUpdate, NothingHeld, NothingRests, SyncIsBehind
<1> QED BY <1>1, <1>2, <1>3, <1>4 DEF ProgressInv, ProgressOf

\* An update of the take profits keeps the invariant and the stages ...
LEMMA UpdateTpStep ==
  ASSUME ProgressInv, NEW bands, NEW moved, NEW age, UpdateTp(bands, moved, age)
  PROVE  ProgressInv' /\ KeepsStages
<1> DEFINE p == Propose(st, bands, age)
<1>1. st \in States /\ InOrder(st) /\ MayUpdate /\ st.held
  BY DEF ProgressInv, TypeOK, UpdateTp, MayUpdate
<1>2. Proposed(st, p)
  BY <1>1, ProposeProposed
<1>3. /\ \/ Send(Finalize(p.s, p.plan, bands))
         \/ st' = p.s /\ unsent' = (unsent \/ p.s.split # st.split) /\ UNCHANGED ex
      /\ UNCHANGED <<qty, legs, sync, asked>>
  BY DEF UpdateTp
<1> HIDE DEF p
<1>4. CASE Send(Finalize(p.s, p.plan, bands))
  BY <1>1, <1>2, <1>3, <1>4, FinalizeRevised, SendStep
<1>5. CASE st' = p.s /\ unsent' = (unsent \/ p.s.split # st.split) /\ UNCHANGED ex
  <2>1. Revised(st, st')
    BY <1>2, <1>5 DEF Proposed
  <2>2. unsent' \in BOOLEAN /\ (~unsent' => ~unsent /\ st'.split = st.split)
    BY <1>5
  <2> QED BY <1>1, <1>3, <1>5, <2>1, <2>2, QuietStep
<1> QED BY <1>3, <1>4, <1>5

\* ... and so does one that waits for the second stage.
LEMMA UpdateWaitingTp2Step ==
  ASSUME ProgressInv, NEW moved, UpdateWaitingTp2(moved)
  PROVE  ProgressInv' /\ KeepsStages
<1> DEFINE s == [st EXCEPT !.plan = "THREE_STAGE_RUNNER"]
<1>1. st \in States /\ InOrder(st) /\ MayUpdate /\ st.held
  BY DEF ProgressInv, TypeOK, UpdateWaitingTp2, MayUpdate
<1>2. s \in States
  BY <1>1 DEF States, Plans
<1>3. /\ s.held = st.held /\ s.total = st.total /\ s.tp1 = st.tp1 /\ s.tp2 = st.tp2
      /\ s.trend = st.trend /\ s.active = st.active /\ s.partial = st.partial
      /\ s.fast = st.fast /\ s.slow = st.slow /\ s.split = st.split
      /\ s.bucket = st.bucket /\ s.three = st.three /\ s.pending = st.pending
      /\ s.plan = "THREE_STAGE_RUNNER"
  BY <1>1 DEF States
<1>4. /\ Send(s) \/ (st' = s /\ UNCHANGED <<ex, unsent>>)
      /\ UNCHANGED <<qty, legs, sync, asked>> /\ unsent \in BOOLEAN
  BY DEF ProgressInv, TypeOK, UpdateWaitingTp2
<1> HIDE DEF s
<1>5. Revised(st, s)
  BY <1>1, <1>2, <1>3 DEF Revised, InOrder, SameProgress
<1> QED BY <1>1, <1>3, <1>4, <1>5, SendStep, QuietStep

\* A position without progress.
Fresh(s) ==
  /\ s \in States /\ InOrder(s) /\ s.held
  /\ ~s.tp1 /\ ~s.tp2 /\ ~s.active /\ ~s.fast

\* A fresh state stays fresh through a revision ...
LEMMA FreshRevised ==
  ASSUME NEW s, NEW t, Fresh(s), Revised(s, t)
  PROVE  Fresh(t)
BY DEF Fresh, Revised, SameProgress

\* ... and a new position is fresh, whatever its plan.
LEMMA NewPosition ==
  ASSUME NEW plan \in Plans
  PROVE  LET set == [[NoPosition EXCEPT !.held = TRUE, !.total = EntryQty] EXCEPT !.plan = plan]
         IN Fresh(set) /\ ~set.three /\ ~set.pending /\ set.plan = plan
<1> DEFINE new == [NoPosition EXCEPT !.held = TRUE, !.total = EntryQty]
           set == [new EXCEPT !.plan = plan]
<1>1. EntryQty \in 0 .. EntryQty
  BY ConstantsAssumption
<1>2. new \in States
  BY <1>1, NothingHeldType DEF States
<1>3. /\ new.held /\ ~new.three /\ ~new.tp1 /\ ~new.tp2 /\ ~new.trend /\ ~new.pending
      /\ ~new.active /\ ~new.split /\ ~new.fast
  BY DEF NoPosition
<1> HIDE DEF new
<1>4. set \in States /\ set.plan = plan
  BY <1>2 DEF States
<1>5. /\ set.held /\ ~set.three /\ ~set.tp1 /\ ~set.tp2 /\ ~set.trend /\ ~set.pending
      /\ ~set.active /\ ~set.split /\ ~set.fast
  BY <1>2, <1>3 DEF States
<1> HIDE DEF set
<1>6. InOrder(set)
  BY <1>5 DEF InOrder
<1> QED BY <1>4, <1>5, <1>6 DEF Fresh, set, new

\* The plan it begins with is no progress either.
LEMMA NewPlan ==
  ASSUME NEW s, NEW bands, Fresh(s), ~s.three, ~s.pending
  PROVE  /\ s.plan # "MIDDLE_RUNNER" => Fresh(SplitBucket([s EXCEPT !.three = TRUE], bands, TP1))
         /\ Fresh(SplitBucket(PlanMiddle(s), bands, FIRST_CLOSE))
<1>1. s \in States /\ InOrder(s) /\ ~s.active
  BY DEF Fresh
<1>2. ASSUME s.plan # "MIDDLE_RUNNER"
      PROVE  Fresh(SplitBucket([s EXCEPT !.three = TRUE], bands, TP1))
  <2> DEFINE t == [s EXCEPT !.three = TRUE]
  <2>1. Revised(s, t)
    BY <1>1, <1>2, ThreeRevised
  <2> HIDE DEF t
  <2>2. Fresh(t) /\ t \in States /\ InOrder(t)
    BY <2>1, FreshRevised DEF Fresh
  <2>3. Revised(t, SplitBucket(t, bands, TP1))
    BY <2>2, SplitFallbackRevised
  <2>4. Fresh(SplitBucket(t, bands, TP1))
    BY <2>2, <2>3, FreshRevised
  <2> QED BY <2>4 DEF t
<1>3. Fresh(PlanMiddle(s))
  BY <1>1, PlanMiddleRevised, FreshRevised
<1>4. Fresh(SplitBucket(PlanMiddle(s), bands, FIRST_CLOSE))
  <2> DEFINE t == PlanMiddle(s)
  <2>1. Fresh(t) /\ t \in States /\ InOrder(t)
    BY <1>3 DEF Fresh
  <2> HIDE DEF t
  <2>2. Revised(t, SplitBucket(t, bands, FIRST_CLOSE))
    BY <2>1, SplitFallbackRevised
  <2>3. Fresh(SplitBucket(t, bands, FIRST_CLOSE))
    BY <2>1, <2>2, FreshRevised
  <2> QED BY <2>3 DEF t
<1> QED BY <1>2, <1>4

\* A new position has made no progress.
LEMMA EnterStep ==
  ASSUME ProgressInv, NEW bands, Enter(bands)
  PROVE  ProgressInv' /\ KeepsStages
<1> DEFINE new == [NoPosition EXCEPT !.held = TRUE, !.total = EntryQty]
           plan == SelectPlan(new, bands)
           set == [new EXCEPT !.plan = plan]
           planned == CASE plan = "THREE_STAGE_RUNNER" ->
                             SplitBucket([set EXCEPT !.three = TRUE], bands, TP1)
                        [] plan = "MIDDLE_RUNNER" ->
                             SplitBucket(PlanMiddle(set), bands, FIRST_CLOSE)
                        [] OTHER -> set
<1>1. plan \in Plans
  BY SelectPlanType
<1>2. /\ st' = planned
      /\ ex' = [IdleWorker EXCEPT !.pc = "place", !.intent = Intent(planned),
                                  !.contracts = EntryQty]
      /\ qty' = EntryQty /\ unsent' = FALSE /\ UNCHANGED <<legs, sync, asked>>
      /\ ~st.held
  BY DEF Enter
<1> HIDE DEF plan
<1>3. Fresh(set) /\ ~set.three /\ ~set.pending /\ set.plan = plan
  BY <1>1, NewPosition
<1> HIDE DEF set
<1>4. \/ plan = "THREE_STAGE_RUNNER"
         /\ planned = SplitBucket([set EXCEPT !.three = TRUE], bands, TP1)
      \/ planned = SplitBucket(PlanMiddle(set), bands, FIRST_CLOSE)
      \/ planned = set
  BY <1>1 DEF Plans
<1> HIDE DEF planned
<1>5. Fresh(planned)
  BY <1>3, <1>4, NewPlan
<1>6. Intent(planned) \in Intents /\ Intent(planned).split = planned.split
  BY <1>5, IntentType DEF Fresh
<1>7. EntryQty \in 0 .. EntryQty /\ EntryQty # 0
  BY ConstantsAssumption
<1>8. ex' \in Workers /\ ex'.pc = "place" /\ ex'.intent = Intent(planned)
  BY <1>2, <1>6, <1>7, NothingHeldType DEF Workers
<1>9. ~st.tp1 /\ ~st.tp2 /\ ~st.active /\ ~st.fast /\ sync = NotFetched
  BY <1>2 DEF ProgressInv, NothingHeld, NoPosition
<1>10. st' \in States /\ InOrder(st') /\ st'.held /\ ~st'.tp1 /\ ~st'.tp2 /\ ~st'.active
       /\ ~st'.fast
  BY <1>2, <1>5 DEF Fresh
<1>11. TypeOK'
  BY <1>2, <1>7, <1>8, <1>10 DEF ProgressInv, TypeOK
<1>12. NothingHeld' /\ NothingRests' /\ SyncIsBehind'
  BY <1>2, <1>7, <1>9, <1>10 DEF NothingHeld, NothingRests, SyncIsBehind
<1>13. SplitStands' /\ SplitHasItsLegs'
  BY <1>2, <1>6, <1>8 DEF SplitStands, SplitHasItsLegs
<1>14. Sold' /\ EveryStageAsksForItsStop' /\ KeepsStages
  BY <1>9, <1>10 DEF Sold, EveryStageAsksForItsStop, KeepsStages
<1> QED BY <1>10, <1>11, <1>12, <1>13, <1>14 DEF ProgressInv, InOrder

\* The worker fetches the position, or finds it gone.
LEMMA FetchStep ==
  ASSUME ProgressInv, Fetch
  PROVE  ProgressInv' /\ KeepsStages
<1>1. ex' = [ex EXCEPT !.pc = "place", !.contracts = qty] /\ ex \in Workers /\ ex.pc = "fetch"
      /\ qty \in 0 .. EntryQty /\ UNCHANGED <<qty, legs, st, sync, asked, unsent>>
  BY DEF ProgressInv, TypeOK, Fetch
<1>2. ex' \in Workers /\ ex'.pc = "place" /\ ex'.intent = ex.intent
  BY <1>1 DEF Workers
<1>3. ProgressOf' /\ KeepsStages
  BY <1>1, SameStateKeeps
<1>4. TypeOK' /\ NothingHeld' /\ NothingRests' /\ SyncIsBehind'
  BY <1>1, <1>2 DEF ProgressInv, TypeOK, NothingHeld, NothingRests, SyncIsBehind
<1>5. SplitStands' /\ SplitHasItsLegs'
  BY <1>1, <1>2 DEF ProgressInv, SplitStands, SplitHasItsLegs
<1> QED BY <1>3, <1>4, <1>5 DEF ProgressInv, ProgressOf

\* A failed update keeps the invariant and the stages ...
LEMMA UpdateFailsStep ==
  ASSUME ProgressInv, UpdateFails
  PROVE  ProgressInv' /\ KeepsStages
<1>1. ex' = IdleWorker /\ qty = 0 /\ qty \in 0 .. EntryQty
      /\ UNCHANGED <<qty, legs, st, sync, asked, unsent>>
  BY DEF ProgressInv, TypeOK, UpdateFails
<1>2. ex' \in Workers /\ ex'.pc = "idle"
  BY <1>1, NothingHeldType
<1>3. ProgressOf' /\ KeepsStages
  BY <1>1, SameStateKeeps
<1>4. legs["final"] = 0
  BY <1>1 DEF ProgressInv, NothingRests, NoOrders, Orders, Legs
<1>5. TypeOK' /\ NothingHeld' /\ NothingRests' /\ SyncIsBehind'
  BY <1>1, <1>2 DEF ProgressInv, TypeOK, NothingHeld, NothingRests, SyncIsBehind
<1>6. SplitStands' /\ SplitHasItsLegs'
  BY <1>1, <1>2, <1>4 DEF SplitStands, SplitHasItsLegs
<1> QED BY <1>3, <1>5, <1>6 DEF ProgressInv, ProgressOf

\* Orders are placed for the intent, and their labels remembered.
LEMMA PlacingStep ==
  ASSUME ProgressInv, ex.pc = "place", qty > 0, Placeable(legs', ex.contracts),
         ex' = Placed(ModeOf(ex.intent, legs')), UNCHANGED <<qty, st, sync, asked, unsent>>
  PROVE  ProgressInv' /\ KeepsStages
<1>1. ex \in Workers /\ ex.intent \in Intents /\ ex.contracts \in 0 .. EntryQty
      /\ qty \in 0 .. EntryQty
  BY DEF ProgressInv, TypeOK, Workers
<1> DEFINE mode == ModeOf(ex.intent, legs')
<1>2. mode \in Modes /\ (ex.intent.split => mode # "AS_PLANNED")
      /\ (mode = "SPLIT" => legs'["final"] = 0)
  BY <1>1, ModeOfSplit
<1> HIDE DEF mode
<1>3. ex' \in Workers /\ ex'.pc = "apply" /\ ex'.mode = mode
  BY <1>2, PlacedType DEF mode
<1>4. legs' \in [Legs -> 0 .. EntryQty]
  <2>1. legs' \in [Legs -> 0 .. ex.contracts] /\ EntryQty \in Nat
    BY ConstantsAssumption DEF Placeable
  <2>2. 0 .. ex.contracts \subseteq 0 .. EntryQty
    BY <1>1, <2>1
  <2> QED BY <2>1, <2>2
<1>5. ProgressOf' /\ KeepsStages
  BY <1>1, SameStateKeeps
<1>6. TypeOK'
  BY <1>3, <1>4 DEF ProgressInv, TypeOK
<1>7. NothingHeld' /\ NothingRests' /\ SyncIsBehind'
  BY DEF ProgressInv, NothingHeld, NothingRests, SyncIsBehind
<1>8. SplitStands' /\ SplitHasItsLegs'
  BY <1>2, <1>3 DEF ProgressInv, SplitStands, SplitHasItsLegs
<1> QED BY <1>5, <1>6, <1>7, <1>8 DEF ProgressInv, ProgressOf

\* ... and so do the orders of an update, placed as asked or as one.
LEMMA PlaceSteps ==
  ASSUME ProgressInv, Place \/ PlaceFallsBack
  PROVE  ProgressInv' /\ KeepsStages
<1>1. ex.intent \in Intents /\ ex.contracts \in Nat
  BY ConstantsAssumption DEF ProgressInv, TypeOK, Workers
<1>2. \/ legs' = Specs(ex.intent, ex.contracts)
      \/ legs' = WholeAs("final", ex.contracts)
  BY DEF Place, PlaceFallsBack
<1>3. Placeable(legs', ex.contracts)
  BY <1>1, <1>2, SpecsPlaceable, WholeIsPlaceable DEF Legs
<1> QED BY <1>3, PlacingStep DEF Place, PlaceFallsBack

\* The result of a command may end the progress, together with the split.
LEMMA ApplyStep ==
  ASSUME ProgressInv, Apply
  PROVE  ProgressInv'
<1>1. /\ ex.pc = "apply" /\ st' = AfterResult(st, ex.mode) /\ ex' = IdleWorker
      /\ UNCHANGED <<qty, legs, sync, asked, unsent>>
  BY DEF Apply
<1>2. st \in States /\ InOrder(st) /\ ex.mode \in Modes /\ st.held
  BY <1>1 DEF ProgressInv, TypeOK, Workers, NothingHeld
<1>3. /\ st' \in States /\ InOrder(st') /\ st'.held = st.held
      /\ st' = st \/ (~st'.split /\ ~st'.fast)
      /\ ex.mode \in {"FINAL", "UNSPLIT"} => ~st'.split
      /\ st'.tp1 => st.tp1 /\ st.tp2 = st'.tp2
      /\ st'.tp2 => st.tp2
      /\ st'.active => st.active
      /\ st'.fast => st.fast /\ st'.slow = st.slow
  BY <1>1, <1>2, AfterResultKeeps
<1>4. ex' \in Workers /\ ex'.pc = "idle"
  BY <1>1, NothingHeldType
<1>5. TypeOK' /\ NothingHeld' /\ NothingRests' /\ SyncIsBehind'
  BY <1>1, <1>2, <1>3, <1>4
     DEF ProgressInv, TypeOK, NothingHeld, NothingRests, SyncIsBehind
<1>6. Sold' /\ EveryStageAsksForItsStop'
  BY <1>1, <1>3 DEF ProgressInv, Sold, EveryStageAsksForItsStop
<1>7. SplitStands' /\ SplitHasItsLegs'
  BY <1>1, <1>2, <1>3, <1>4 DEF ProgressInv, SplitStands, SplitHasItsLegs, Modes
<1> QED BY <1>3, <1>5, <1>6, <1>7 DEF ProgressInv, InOrder

\* What the sync fetched may be old, but it is never less than what is left.
LEMMA SyncApplyStep ==
  ASSUME ProgressInv, SyncApply
  PROVE  ProgressInv' /\ KeepsStages
<1> DEFINE m == Marked(st, sync)
<1>1. /\ sync # NotFetched /\ sync \in 1 .. EntryQty /\ st.held /\ qty <= sync
      /\ st \in States /\ InOrder(st) /\ qty \in 0 .. EntryQty /\ EntryQty \in Nat
  BY ConstantsAssumption DEF ProgressInv, TypeOK, SyncApply, SyncIsBehind
<1>2. /\ ex' = IF ex.pc = "place" THEN [ex EXCEPT !.contracts = sync] ELSE ex
      /\ st' = Costed(m, sync) /\ asked' = asked \cup StopsAsked(st, sync)
      /\ sync' = NotFetched /\ UNCHANGED <<qty, legs, unsent>>
  BY <1>1 DEF SyncApply
<1>3. /\ st' \in States /\ InOrder(st') /\ st'.held = st.held /\ st'.split = st.split
      /\ st'.tp1 = m.tp1 /\ st'.tp2 = m.tp2 /\ st'.active = m.active
      /\ st'.fast = m.fast /\ st'.slow = m.slow
      /\ Advanced(st, sync, m)
  BY <1>1, <1>2, CostedAdvanced
<1>4. /\ StopsAsked(st, sync) \subseteq Stops
      /\ m.tp1 /\ ~st.tp1 /\ ~m.tp2 => "POST_TP1" \in StopsAsked(st, sync)
      /\ m.active /\ ~st.active => "MIDDLE_RUNNER" \in StopsAsked(st, sync)
      /\ FastFilled(st, sync) => "FAST" \in StopsAsked(st, sync)
  BY NewStagesAsk
<1> HIDE DEF m
<1>5. ex' \in Workers /\ ex'.pc = ex.pc /\ ex'.intent = ex.intent /\ ex'.mode = ex.mode
  <2>1. ex \in Workers /\ sync \in 0 .. EntryQty
    BY <1>1 DEF ProgressInv, TypeOK
  <2> QED BY <1>2, <2>1 DEF Workers
<1>6. EveryStageAsksForItsStop'
  BY <1>2, <1>3, <1>4 DEF ProgressInv, EveryStageAsksForItsStop, Advanced
<1>7. Sold'
  <2>1. ASSUME NEW n \in Nat, 1000 * sync <= n * EntryQty PROVE 1000 * qty <= n * EntryQty
    <3>1. qty \in Nat /\ sync \in Nat
      BY <1>1
    <3> QED BY <1>1, <2>1, <3>1, LessIsLeft
  <2>2. TP1_BELOW \in Nat /\ TP2_BELOW \in Nat
    BY BelowBounds
  <2> QED BY <1>2, <1>3, <2>1, <2>2 DEF ProgressInv, Sold, Advanced
<1>8. TypeOK'
  <2>1. asked' \subseteq Stops
    BY <1>2, <1>4 DEF ProgressInv, TypeOK
  <2> QED BY <1>2, <1>3, <1>5, <2>1 DEF ProgressInv, TypeOK
<1>9. NothingHeld' /\ NothingRests' /\ SyncIsBehind'
  BY <1>1, <1>2, <1>3, <1>5 DEF ProgressInv, NothingHeld, NothingRests, SyncIsBehind
<1>10. SplitStands' /\ SplitHasItsLegs'
  BY <1>2, <1>3, <1>5 DEF ProgressInv, SplitStands, SplitHasItsLegs
<1>11. KeepsStages
  BY <1>3 DEF Advanced, KeepsStages
<1> QED BY <1>3, <1>6, <1>7, <1>8, <1>9, <1>10, <1>11 DEF ProgressInv, InOrder

\* The sync's fetch keeps the invariant and the stages ...
LEMMA SyncFetchStep ==
  ASSUME ProgressInv, SyncFetch
  PROVE  ProgressInv' /\ KeepsStages
<1>1. /\ st.held /\ sync' = qty /\ qty \in 1 .. EntryQty /\ qty \in 0 .. EntryQty
      /\ UNCHANGED <<qty, legs, st, ex, asked, unsent>>
  BY ConstantsAssumption DEF ProgressInv, TypeOK, SyncFetch
<1>2. ProgressOf' /\ KeepsStages
  BY <1>1, SameStateKeeps
<1>3. TypeOK'
  BY <1>1 DEF ProgressInv, TypeOK
<1>4. NothingHeld' /\ NothingRests' /\ SyncIsBehind' /\ SplitStands' /\ SplitHasItsLegs'
  BY <1>1 DEF ProgressInv, NothingHeld, NothingRests, SyncIsBehind, SplitStands,
              SplitHasItsLegs
<1> QED BY <1>2, <1>3, <1>4 DEF ProgressInv, ProgressOf

\* A flat position ends with its progress.
LEMMA SettleStep ==
  ASSUME ProgressInv, Settle
  PROVE  ProgressInv' /\ ~st'.held
<1>1. /\ st' = NoPosition /\ asked' = {} /\ legs' = NoOrders /\ unsent' = FALSE
      /\ UNCHANGED <<qty, ex, sync>>
      /\ ex.pc = "idle" /\ sync = NotFetched
  BY DEF Settle
<1>2. /\ ~st'.held /\ ~st'.tp1 /\ ~st'.tp2 /\ ~st'.active /\ ~st'.fast /\ ~st'.split
      /\ st' \in States /\ InOrder(st')
  BY <1>1, NothingHeldType DEF NoPosition
<1>3. NoOrders \in [Legs -> 0 .. EntryQty]
  BY ConstantsAssumption DEF NoOrders, Orders
<1>4. TypeOK'
  BY <1>1, <1>2, <1>3 DEF ProgressInv, TypeOK
<1>5. NothingHeld' /\ NothingRests' /\ SyncIsBehind' /\ SplitStands' /\ SplitHasItsLegs'
  BY <1>1, <1>2 DEF NothingHeld, NothingRests, SyncIsBehind, SplitStands, SplitHasItsLegs
<1>6. Sold' /\ EveryStageAsksForItsStop'
  BY <1>2 DEF Sold, EveryStageAsksForItsStop
<1> QED BY <1>2, <1>4, <1>5, <1>6 DEF ProgressInv, InOrder

\* What is filled or closed leaves less of the position, and of its orders.
LEMMA SellStep ==
  ASSUME ProgressInv, UNCHANGED <<st, ex, sync, asked, unsent>>, qty' \in 0 .. qty,
         legs' \in [Legs -> 0 .. EntryQty], legs'["final"] <= legs["final"],
         qty' = 0 => legs' = NoOrders
  PROVE  ProgressInv' /\ KeepsStages
<1>1. ProgressOf' /\ KeepsStages
  BY SameStateKeeps
<1>2. qty \in 0 .. EntryQty /\ EntryQty \in Nat /\ qty' \in 0 .. EntryQty /\ qty' <= qty
  BY ConstantsAssumption DEF ProgressInv, TypeOK
<1>3. TypeOK'
  BY <1>2 DEF ProgressInv, TypeOK
<1>4. NothingHeld' /\ NothingRests'
  BY DEF ProgressInv, NothingHeld, NothingRests
<1>5. SyncIsBehind'
  <2>1. sync # NotFetched => sync \in 1 .. EntryQty
    BY DEF ProgressInv, TypeOK
  <2> QED BY <1>2, <2>1 DEF ProgressInv, SyncIsBehind
<1>6. legs["final"] = 0 => legs'["final"] = 0
  BY ConstantsAssumption DEF Legs
<1>7. SplitStands' /\ SplitHasItsLegs'
  BY <1>6 DEF ProgressInv, SplitStands, SplitHasItsLegs
<1> QED BY <1>1, <1>3, <1>4, <1>5, <1>7 DEF ProgressInv, ProgressOf

\* ... so does a leg that fills, whole or in part ...
LEMMA FillStep ==
  ASSUME ProgressInv, NEW leg \in Legs, NEW n \in 1 .. EntryQty, Fill(leg, n)
  PROVE  ProgressInv' /\ KeepsStages
<1>1. legs \in [Legs -> 0 .. EntryQty] /\ qty \in 0 .. EntryQty /\ EntryQty \in Nat
  BY ConstantsAssumption DEF ProgressInv, TypeOK
<1>2. /\ n <= legs[leg] /\ n <= qty /\ qty' = qty - n
      /\ legs' = IF qty = n THEN NoOrders ELSE [legs EXCEPT ![leg] = @ - n]
      /\ UNCHANGED <<st, ex, sync, asked, unsent>>
  BY DEF Fill
<1>3. qty' \in 0 .. qty /\ (qty' = 0 => qty = n)
  BY <1>1, <1>2
<1>4. CASE qty = n
  <2>1. NoOrders \in [Legs -> 0 .. EntryQty] /\ NoOrders["final"] = 0 /\ legs["final"] >= 0
    BY <1>1 DEF NoOrders, Orders, Legs
  <2> QED BY <1>2, <1>3, <1>4, <2>1, SellStep
<1>5. CASE qty # n
  <2>1. legs[leg] - n \in 0 .. legs[leg] /\ legs[leg] \in 0 .. EntryQty
    BY <1>1, <1>2
  <2>2. legs' \in [Legs -> 0 .. EntryQty]
    BY <1>1, <1>2, <1>5, <2>1
  <2>3. legs'["final"] <= legs["final"]
    BY <1>1, <1>2, <1>5, <2>1 DEF Legs
  <2> QED BY <1>2, <1>3, <1>5, <2>2, <2>3, SellStep
<1> QED BY <1>4, <1>5

\* ... and so does the end of the position at the exchange.
LEMMA CloseStep ==
  ASSUME ProgressInv, Close
  PROVE  ProgressInv' /\ KeepsStages
<1>1. legs \in [Legs -> 0 .. EntryQty] /\ qty \in 0 .. EntryQty /\ EntryQty \in Nat
  BY ConstantsAssumption DEF ProgressInv, TypeOK
<1>2. qty' = 0 /\ legs' = NoOrders /\ UNCHANGED <<st, ex, sync, asked, unsent>>
  BY DEF Close
<1>3. NoOrders \in [Legs -> 0 .. EntryQty] /\ NoOrders["final"] = 0 /\ legs["final"] >= 0
  BY <1>1 DEF NoOrders, Orders, Legs
<1> QED BY <1>1, <1>2, <1>3, SellStep

-----------------------------------------------------------------------------
\* The invariant holds initially: nothing is held and nothing rests.
LEMMA ProgressInit ==
  ASSUME Init
  PROVE  ProgressInv
<1>1. st = NoPosition /\ ex = IdleWorker /\ legs = NoOrders /\ qty = 0 /\ sync = NotFetched
      /\ asked = {} /\ unsent = FALSE
  BY DEF Init
<1>2. NoOrders \in [Legs -> 0 .. EntryQty] /\ NoOrders["final"] = 0
  BY ConstantsAssumption DEF NoOrders, Orders, Legs
<1>3. /\ ~st.held /\ ~st.tp1 /\ ~st.tp2 /\ ~st.active /\ ~st.fast /\ ~st.split
      /\ st \in States /\ InOrder(st) /\ ex \in Workers /\ ex.pc = "idle"
  BY <1>1, NothingHeldType DEF NoPosition
<1>4. TypeOK
  <2>1. unsent \in BOOLEAN
    BY <1>1
  <2> QED BY <1>1, <1>2, <1>3, <2>1, ConstantsAssumption DEF TypeOK
<1>5. NothingHeld /\ NothingRests /\ SyncIsBehind /\ SplitStands /\ SplitHasItsLegs
  BY <1>1, <1>2, <1>3
     DEF NothingHeld, NothingRests, SyncIsBehind, SplitStands, SplitHasItsLegs
<1>6. Sold /\ EveryStageAsksForItsStop
  BY <1>3 DEF Sold, EveryStageAsksForItsStop
<1> QED BY <1>3, <1>4, <1>5, <1>6 DEF ProgressInv

\* Every step keeps the invariant, and only the result of a command forgets a stage.
LEMMA ProgressStep ==
  ASSUME ProgressInv, Next
  PROVE  ProgressInv' /\ (st'.held /\ ex.pc # "apply" => KeepsStages)
<1>1. ASSUME NEW bands \in Bands, Enter(bands) PROVE ProgressInv' /\ KeepsStages
  BY <1>1, EnterStep
<1>2. CASE Tick
  BY <1>2, UpdateTpStep DEF Tick
<1>3. CASE WaitingTick
  BY <1>3, UpdateWaitingTp2Step DEF WaitingTick
<1>4. CASE Fetch
  BY <1>4, FetchStep
<1>5. CASE Place \/ PlaceFallsBack
  BY <1>5, PlaceSteps
<1>6. CASE UpdateFails
  BY <1>6, UpdateFailsStep
<1>7. CASE Apply
  BY <1>7, ApplyStep DEF Apply
<1>8. CASE SyncFetch
  BY <1>8, SyncFetchStep
<1>9. CASE SyncApply
  BY <1>9, SyncApplyStep
<1>10. CASE Settle
  BY <1>10, SettleStep
<1>11. CASE Fills
  BY <1>11, FillStep DEF Fills
<1>12. CASE Close
  BY <1>12, CloseStep
<1> QED BY <1>1, <1>2, <1>3, <1>4, <1>5, <1>6, <1>7, <1>8, <1>9, <1>10, <1>11, <1>12 DEF Next

\* It holds after a stutter.
LEMMA ProgressStutter ==
  ASSUME ProgressInv, UNCHANGED vars
  PROVE  ProgressInv'
<1>1. UNCHANGED <<qty, legs, st, ex, sync, asked, unsent>>
  BY DEF vars
<1>2. TypeOK'
  BY <1>1 DEF ProgressInv, TypeOK
<1>3. NothingHeld' /\ NothingRests' /\ SyncIsBehind' /\ SplitStands' /\ SplitHasItsLegs'
  BY <1>1 DEF ProgressInv, NothingHeld, NothingRests, SyncIsBehind, SplitStands,
              SplitHasItsLegs
<1>4. InOrder(st') /\ Sold' /\ EveryStageAsksForItsStop'
  BY <1>1 DEF ProgressInv, Sold, EveryStageAsksForItsStop
<1> QED BY <1>2, <1>3, <1>4 DEF ProgressInv, InOrder

\* The inductive invariant of the take profits and their progress.
THEOREM ProgressInvariantCorrect == Spec => []ProgressInv
<1>1. ProgressInv /\ [Next]_vars => ProgressInv'
  BY ProgressStep, ProgressStutter
<1> QED BY ProgressInit, <1>1, PTL DEF Spec

\* Every variable keeps its type: no order and no size fetched exceeds the position.
THEOREM ProgressTypeCorrect == Spec => []TypeOK
<1>1. ProgressInv => TypeOK
  BY DEF ProgressInv
<1> QED BY <1>1, ProgressInvariantCorrect, PTL

\* The stages are recognised in their order, and a position has one runner.
THEOREM ProgressInOrderCorrect == Spec => []ProgressInOrder
<1>1. ProgressInv => ProgressInOrder
  BY DEF ProgressInv, InOrder, ProgressInOrder
<1> QED BY <1>1, ProgressInvariantCorrect, PTL

\* A stage the sync has recognised, from however old a look, is one the exchange has sold.
THEOREM StagesWereSoldCorrect == Spec => []StagesWereSold
<1>1. ProgressInv => StagesWereSold
  BY DEF ProgressInv, Sold, StagesWereSold
<1> QED BY <1>1, ProgressInvariantCorrect, PTL

\* Between commands a bucket that is split has no single exit resting for it, unless a
\* candle changed the split since the last command and sent nothing.
THEOREM SplitHasItsLegsCorrect == Spec => []SplitHasItsLegs
<1>1. ProgressInv => SplitHasItsLegs
  BY DEF ProgressInv
<1> QED BY <1>1, ProgressInvariantCorrect, PTL

\* Each stage that is recognised has asked for its stop, in whatever pieces it was filled.
THEOREM EveryStageAsksCorrect == Spec => []EveryStageAsksForItsStop
<1>1. ProgressInv => EveryStageAsksForItsStop
  BY DEF ProgressInv
<1> QED BY <1>1, ProgressInvariantCorrect, PTL

\* No stage is forgotten while the position is held, but by the result of a command.
THEOREM StagesKeptCorrect == Spec => StagesKept
<1>1. ProgressInv /\ [Next]_vars =>
        [st'.held /\ ex.pc # "apply" =>
           /\ st.tp1 => st'.tp1
           /\ st.tp2 => st'.tp2
           /\ st.active => st'.active
           /\ st.fast => st'.fast \/ ~st'.split]_vars
  BY ProgressStep DEF KeepsStages
<1> QED BY <1>1, ProgressInvariantCorrect, PTL DEF Spec, StagesKept
=============================================================================
