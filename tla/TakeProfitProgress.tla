------------------------- MODULE TakeProfitProgress -------------------------
(***************************************************************************)
(* How a position is closed in parts: the plan of its take profits, which  *)
(* the strategy revises with every candle, the orders the execution worker *)
(* places for it, and the account sync, which sees only how much of the    *)
(* position is left and concludes from it which take profit was filled.    *)
(*                                                                         *)
(* Sizes are contracts; ratios are in thousandths.  Of the prices only     *)
(* what decides is kept: whether the fast and the slow middle band leave a *)
(* profit, and whether a target has moved.  Cancels, stops and failures of *)
(* theirs are ExitOrders's; here a stop is only asked for.  Positions of a *)
(* trend regime have one take profit and no progress, and are left out, as *)
(* is the add-on that turns a position into one of these.                  *)
(***************************************************************************)
EXTENDS Integers, FiniteSets

CONSTANTS
  EntryQty,            \* contracts of a new position
  MinContracts,        \* the smallest order
  PartialFills,        \* what an order may be filled by, other than whole
  ThreeStageEnabled,   \* three_stage_runner_enabled
  SplitEnabled         \* middle_bucket_split_enabled

ASSUME ConstantsAssumption ==
  /\ EntryQty \in Nat \ {0}
  /\ MinContracts \in Nat \ {0}
  /\ PartialFills \subseteq Nat \ {0}
  /\ ThreeStageEnabled \in BOOLEAN
  /\ SplitEnabled \in BOOLEAN

VARIABLES
  qty,        \* the exchange: contracts of the position
  legs,       \* the exchange: contracts of each resting take profit
  st,         \* strategy.state: the plan and its progress
  ex,         \* the execution worker and the intent it carries out
  sync,       \* the account sync: what it has fetched, if anything
  asked,      \* history: stops the account sync has asked for
  unsent      \* history: has a candle changed the split and sent nothing?

vars == <<qty, legs, st, ex, sync, asked, unsent>>

-----------------------------------------------------------------------------
Plans == {"SINGLE", "MIDDLE_RUNNER", "THREE_STAGE_RUNNER"}
Legs == {"tp1", "fast", "slow", "tp2", "middle", "runner", "final"}
Bands == {"both", "slow", "fast", "none"}    \* middle bands with a profit
Stops == {"FAST", "POST_TP1", "MIDDLE_RUNNER"}

TP1 == 600             \* three_stage_tp1_ratio, of 1000
TP2 == 200
RUNNER == 200
FIRST_CLOSE == 800     \* middle_runner_first_close_ratio
FAST_OF_BUCKET == 700  \* middle_bucket_split_fast_ratio

\* StrategyPositionState, as far as the plan needs it.  `bucket' is the share
\* the split closes and `shares' the one its two legs were last computed from.
NoPosition ==
  [held |-> FALSE, plan |-> "SINGLE", three |-> FALSE, tp1 |-> FALSE,
   tp2 |-> FALSE, trend |-> FALSE, pending |-> FALSE, active |-> FALSE,
   disabled |-> FALSE, split |-> FALSE, fast |-> FALSE, slow |-> FALSE,
   bucket |-> 0, shares |-> 0, partial |-> FALSE, degrade |-> "NONE",
   total |-> 0]

States ==
  [held : BOOLEAN, plan : Plans, three : BOOLEAN, tp1 : BOOLEAN, tp2 : BOOLEAN,
   trend : BOOLEAN, pending : BOOLEAN, active : BOOLEAN, disabled : BOOLEAN,
   split : BOOLEAN, fast : BOOLEAN, slow : BOOLEAN,
   bucket : {0, TP1, FIRST_CLOSE}, shares : {0, TP1, FIRST_CLOSE},
   partial : BOOLEAN, degrade : {"NONE", "MIDDLE_RUNNER", "SINGLE"},
   total : 0 .. EntryQty]

\* An intent carries a copy of the plan, as it was when the intent was made.
Intent(s) ==
  [plan |-> s.plan, tp1 |-> s.tp1 /\ ~s.tp2, split |-> s.split, fast |-> s.fast,
   slow |-> s.slow, bucket |-> s.bucket, shares |-> s.shares,
   closing |-> s.partial \/ s.active]

Intents ==
  [plan : Plans, tp1 : BOOLEAN, split : BOOLEAN, fast : BOOLEAN, slow : BOOLEAN,
   bucket : {0, TP1, FIRST_CLOSE}, shares : {0, TP1, FIRST_CLOSE}, closing : BOOLEAN]

\* The worker fetches the position, cancels, places and applies the result.
\* `contracts' is trader.position_contracts, while the command needs it.
Modes == {"AS_PLANNED", "SPLIT", "UNSPLIT", "FINAL"}
IdleWorker ==
  [pc |-> "idle", intent |-> Intent(NoPosition), contracts |-> 0, mode |-> "AS_PLANNED"]
Workers == [pc : {"idle", "fetch", "place", "apply"}, intent : Intents,
            contracts : 0 .. EntryQty, mode : Modes]

NotFetched == -1

Minimum(a, b) == IF a < b THEN a ELSE b
Maximum(a, b) == IF a > b THEN a ELSE b
Orders(specs) == [l \in Legs |-> IF l \in DOMAIN specs THEN specs[l] ELSE 0]
NoOrders == Orders(<<>>)
Labels(orders) == {l \in Legs : orders[l] > 0}

Init ==
  /\ qty = 0 /\ legs = NoOrders
  /\ st = NoPosition
  /\ ex = IdleWorker
  /\ sync = NotFetched
  /\ asked = {}
  /\ unsent = FALSE

-----------------------------------------------------------------------------
(* The lifecycle and the split of the middle bucket.                       *)

\* A filled leg of the bucket does not end the lifecycle before TP1.
PreTp1(s) == ~s.tp1 /\ ~s.tp2 /\ ~s.trend /\ ~s.active /\ ~s.partial

WaitingTp2(s) == s.three /\ s.tp1 /\ ~s.tp2 /\ ~s.trend

ClearSplit(s) ==
  [s EXCEPT !.split = FALSE, !.fast = FALSE, !.slow = FALSE, !.bucket = 0, !.shares = 0]

ResetThree(s) == [s EXCEPT !.three = FALSE, !.tp1 = FALSE, !.tp2 = FALSE, !.trend = FALSE]

ResetMiddle(s) == [s EXCEPT !.pending = FALSE, !.active = FALSE, !.disabled = FALSE]

PlanMiddle(s) == [s EXCEPT !.pending = TRUE, !.active = FALSE, !.disabled = FALSE]

\* Bug: progress made with one of the legs is forgotten.
SplitBucket_forgets(s, bands, ratio) ==
  IF bands = "both"
  THEN [s EXCEPT !.split = TRUE, !.fast = FALSE, !.slow = FALSE,
                 !.bucket = ratio, !.shares = ratio]
  ELSE ClearSplit(s)

\* Splitting the bucket takes a profit at both middle bands.  A bucket already
\* started on keeps its split, with the shares its legs were computed with.
SplitBucket(s, bands, ratio) ==
  CASE ~SplitEnabled -> s
    [] SplitEnabled /\ bands = "both" ->
         [s EXCEPT !.split = TRUE, !.bucket = ratio, !.shares = ratio]
    [] SplitEnabled /\ bands # "both" /\ (s.fast \/ s.slow) ->
         [s EXCEPT !.split = TRUE, !.bucket = ratio,
                   !.shares = IF @ = 0 THEN ratio ELSE @]
    [] OTHER -> ClearSplit(s)

\* Does the bucket have a plan after SplitBucket, or must the caller look for
\* a middle band that leaves a profit?
SplitDecides(s, bands) ==
  SplitEnabled /\ (bands \in {"both", "slow"} \/ s.fast \/ s.slow)

FallbackToSingle(s) ==
  IF PreTp1(s)
  THEN [ResetMiddle(ResetThree(s)) EXCEPT !.plan = "SINGLE", !.degrade = "SINGLE"]
  ELSE s

-----------------------------------------------------------------------------
(* Choosing a plan.  MIDDLE mode means that a middle band leaves a profit. *)

MiddleMode(bands) == bands # "none"

ThreeStageAllowed(s, bands) ==
  /\ ThreeStageEnabled
  /\ s.degrade = "NONE"
  /\ MiddleMode(bands)
  /\ ~s.partial /\ ~s.pending /\ ~s.active /\ ~s.trend
  /\ s.plan # "MIDDLE_RUNNER"

MiddleRunnerAllowed(s, bands) ==
  /\ ~ThreeStageEnabled
  /\ MiddleMode(bands)
  /\ ~s.partial /\ ~s.active /\ ~s.three /\ ~s.tp1 /\ ~s.tp2
  /\ s.plan # "THREE_STAGE_RUNNER"

SelectPlan(s, bands) ==
  CASE s.degrade = "SINGLE" -> "SINGLE"
    [] s.degrade = "MIDDLE_RUNNER" ->
         IF MiddleMode(bands) THEN "MIDDLE_RUNNER" ELSE "SINGLE"
    [] OTHER ->
         IF ThreeStageAllowed(s, bands) THEN "THREE_STAGE_RUNNER"
         ELSE IF MiddleRunnerAllowed(s, bands) THEN "MIDDLE_RUNNER" ELSE "SINGLE"

\* A branch of the update: the state it leaves, the plan it proposes and
\* whether it gives a reason to send the plan even if nothing has moved.
Proposal(s, plan, reason) == [s |-> s, plan |-> plan, reason |-> reason]

ByFallback(s) == Proposal(FallbackToSingle(s), "SINGLE", TRUE)

\* No middle band leaves a profit: a plan that needs one becomes a single exit.
ProfitGate(s) ==
  IF s.three \/ (s.pending /\ ~s.active) THEN ByFallback(s)
  ELSE Proposal(s, "SINGLE", FALSE)

GateCloses(s, bands) ==
  /\ ~MiddleMode(bands)
  /\ PreTp1(s)
  /\ s.three \/ (s.pending /\ ~s.active) \/ s.plan # "SINGLE"

DegradeTarget(s, a) ==
  IF ~PreTp1(s) \/ ~(ThreeStageEnabled \/ s.three) THEN "NONE"
  ELSE CASE s.degrade = "SINGLE" -> "NONE"
         [] s.degrade = "MIDDLE_RUNNER" -> IF a = 2 THEN "SINGLE" ELSE "NONE"
         [] OTHER -> IF a = 2 THEN "SINGLE"
                     ELSE IF a = 1 THEN "MIDDLE_RUNNER" ELSE "NONE"

DegradePreTp1(s, bands, a) ==
  IF DegradeTarget(s, a) = "SINGLE"
  THEN Proposal([ResetMiddle(ResetThree(s)) EXCEPT
                   !.plan = "SINGLE", !.degrade = "SINGLE"], "SINGLE", TRUE)
  ELSE IF ~MiddleMode(bands) THEN ByFallback(s)
  ELSE Proposal([PlanMiddle(ResetThree(s)) EXCEPT
                   !.plan = "MIDDLE_RUNNER", !.degrade = "MIDDLE_RUNNER"],
                "MIDDLE_RUNNER", TRUE)

MiddlePending(s, bands) ==
  LET split == SplitBucket(s, bands, FIRST_CLOSE)
  IN IF SplitDecides(s, bands) \/ MiddleMode(bands)
     THEN Proposal([split EXCEPT !.pending = TRUE], "MIDDLE_RUNNER", FALSE)
     ELSE ByFallback(split)

\* tp1 cannot be consumed here: a position waiting for TP2 is updated apart.
ThreeStagePlanned(s, bands) ==
  LET split == SplitBucket(s, bands, TP1)
  IN IF SplitDecides(s, bands) \/ MiddleMode(bands)
     THEN Proposal(split, "THREE_STAGE_RUNNER", FALSE)
     ELSE ByFallback(split)

NormalSelection(s, bands) ==
  LET plan == SelectPlan(s, bands)
  IN CASE plan = "MIDDLE_RUNNER" -> Proposal(PlanMiddle(s), plan, FALSE)
       [] plan = "THREE_STAGE_RUNNER" ->
            Proposal(IF PreTp1(s) THEN SplitBucket([s EXCEPT !.three = TRUE], bands, TP1)
                     ELSE [s EXCEPT !.three = TRUE], plan, FALSE)
       [] OTHER ->
            Proposal(IF s.pending /\ ~s.active THEN ResetMiddle(s)
                     ELSE IF s.three /\ ~s.trend /\ ~WaitingTp2(s) THEN ResetThree(s)
                     ELSE s, plan, FALSE)

\* maybe_update_tp: the first branch that applies makes the proposal.
Propose(s, bands, a) ==
  CASE GateCloses(s, bands) -> ProfitGate(s)
    [] ~GateCloses(s, bands) /\ DegradeTarget(s, a) # "NONE" -> DegradePreTp1(s, bands, a)
    [] OTHER ->
         CASE s.trend -> Proposal(s, "SINGLE", FALSE)
           [] ~s.trend /\ s.active -> Proposal(s, "SINGLE", FALSE)
           [] ~s.trend /\ ~s.active /\ s.pending -> MiddlePending(s, bands)
           [] ~s.trend /\ ~s.active /\ ~s.pending /\ s.three -> ThreeStagePlanned(s, bands)
           [] OTHER -> NormalSelection(s, bands)

\* What an intent that is sent leaves in the state.
Finalize(s, plan, bands) ==
  LET set == [s EXCEPT !.plan = plan]
  IN CASE plan = "SINGLE" -> ClearSplit(set)
       [] plan = "MIDDLE_RUNNER" -> PlanMiddle(set)
       [] plan = "THREE_STAGE_RUNNER" ->
            IF set.split THEN set
            ELSE IF MiddleMode(bands) THEN [set EXCEPT !.three = TRUE]
            ELSE [FallbackToSingle(set) EXCEPT !.plan = "SINGLE"]

-----------------------------------------------------------------------------
(* The orders of an intent for c contracts.                                *)

Share(c, ratio) == (c * ratio) \div 1000
Enough(c) == c >= MinContracts

WholeAs(label, c) == [l \in Legs |-> IF l = label THEN c ELSE 0]

FastShare(i) == Share(i.shares, FAST_OF_BUCKET)
SlowShare(i) == i.shares - FastShare(i)
Rest(i) == (IF i.fast THEN 0 ELSE FastShare(i)) + (IF i.slow THEN 0 ELSE SlowShare(i))

\* After TP1 only TP2 has an order: the runner is left to its stop.
SpecsAfterTp1(c) ==
  LET tp2 == (c * TP2) \div (TP2 + RUNNER)
  IN CASE ~Enough(tp2) -> WholeAs("final", c)
       [] Enough(tp2) /\ ~Enough(c - tp2) -> WholeAs("tp2", c)
       [] OTHER -> Orders([tp2 |-> tp2])

\* One leg of the bucket is filled: the shares are those of what is left.
SpecsThreePartial(i, c) ==
  LET of == Rest(i) + TP2 + RUNNER
      fast == IF i.fast THEN 0 ELSE (c * FastShare(i)) \div of
      slow == IF i.slow THEN 0 ELSE (c * SlowShare(i)) \div of
      tp2 == (c * TP2) \div of
      runner == c - fast - slow - tp2
  IN CASE \/ ~i.fast /\ ~Enough(fast)
          \/ ~i.slow /\ ~Enough(slow)
          \/ ~Enough(tp2) -> WholeAs("final", c)
       [] OTHER ->
            IF Enough(runner) THEN Orders([fast |-> fast, slow |-> slow, tp2 |-> tp2])
            ELSE IF i.fast /\ i.slow THEN WholeAs("tp2", c) ELSE WholeAs("final", c)

SpecsThree(i, c) ==
  LET tp1 == Share(c, TP1)
      tp2 == Share(c, TP2)
      fast == Share(tp1, FAST_OF_BUCKET)
  IN CASE i.tp1 -> SpecsAfterTp1(c)
       [] ~i.tp1 /\ i.split /\ (i.fast \/ i.slow) -> SpecsThreePartial(i, c)
       [] OTHER ->
            IF ~Enough(tp1) \/ ~Enough(tp2) \/ ~Enough(c - tp1 - tp2)
            THEN WholeAs("final", c)
            ELSE IF i.split /\ Enough(fast) /\ Enough(tp1 - fast)
            THEN Orders([fast |-> fast, slow |-> tp1 - fast, tp2 |-> tp2])
            ELSE Orders([tp1 |-> tp1, tp2 |-> tp2])

SpecsMiddlePartial(i, c) ==
  LET of == Rest(i) + 1000 - i.bucket
      fast == IF i.fast THEN 0 ELSE (c * FastShare(i)) \div of
      slow == IF i.slow THEN 0 ELSE (c * SlowShare(i)) \div of
      runner == c - fast - slow
  IN IF \/ ~i.fast /\ ~Enough(fast)
        \/ ~i.slow /\ ~Enough(slow)
        \/ ~Enough(runner)
     THEN WholeAs("final", c)
     ELSE Orders([fast |-> fast, slow |-> slow, runner |-> runner])

SpecsMiddle(i, c) ==
  LET first == Share(c, FIRST_CLOSE)
      fast == Share(first, FAST_OF_BUCKET)
  IN CASE ~Enough(first) \/ ~Enough(c - first) -> WholeAs("final", c)
       [] Enough(first) /\ Enough(c - first) /\ i.split /\ (i.fast \/ i.slow) ->
            SpecsMiddlePartial(i, c)
       [] OTHER ->
            IF i.split /\ Enough(fast) /\ Enough(first - fast)
            THEN Orders([fast |-> fast, slow |-> first - fast, runner |-> c - first])
            ELSE Orders([middle |-> first, runner |-> c - first])

\* build_take_profit_order_specs: always of the contracts there are now.
Specs(i, c) ==
  CASE i.plan = "THREE_STAGE_RUNNER" -> SpecsThree(i, c)
    [] i.plan = "MIDDLE_RUNNER" /\ ~i.closing -> SpecsMiddle(i, c)
    [] OTHER -> WholeAs("final", c)

\* What became of a split, by the labels of the orders that were placed.
ModeOf(i, orders) ==
  CASE ~i.split -> "AS_PLANNED"
    [] i.split /\ Labels(orders) = {"final"} -> "FINAL"
    [] i.split /\ Labels(orders) \in {{"tp1", "tp2"}, {"middle", "runner"}} -> "UNSPLIT"
    [] OTHER -> "SPLIT"

\* Bug: the second stage survives its first.
DegradeToFinal_keeps_tp2(s) ==
  [ClearSplit(s) EXCEPT !.plan = "SINGLE", !.partial = FALSE, !.tp1 = FALSE,
                        !.pending = FALSE, !.active = FALSE]

\* degrade_middle_bucket_split_to_single_final: three_stage_runner_enabled and
\* the degrade stage stay as they are.
DegradeToFinal(s) ==
  [ClearSplit(s) EXCEPT
     !.plan = "SINGLE", !.partial = FALSE, !.tp1 = FALSE, !.tp2 = FALSE,
     !.trend = FALSE, !.pending = FALSE, !.active = FALSE]

-----------------------------------------------------------------------------
(* What the account sync concludes from q contracts being left.            *)

\* At most the ratio, in thousandths, of what is counted as entered.
Below(s, q, ratio) == 1000 * q <= ratio * s.total

\* Bug: the fast leg is taken for the whole bucket.
FullBelow_of_fast(s) == 1000 - Share(s.bucket, FAST_OF_BUCKET)

FullBelow(s) == 1000 - s.bucket + Maximum(20, Share(s.bucket, 50))

LegBelow(share) == 1000 - share + Maximum(20, Share(share, 50))
TP1_BELOW == 1000 - TP1 + Maximum(20, Share(TP1, 50))
TP2_BELOW == RUNNER + Maximum(10, Share(RUNNER, 100))

\* Bug: a bucket one of whose legs is filled already is not looked at again.
BucketFilled_once(s, q) ==
  s.split /\ s.held /\ ~s.fast /\ ~s.slow /\ Below(s, q, FullBelow(s))

BucketFilled(s, q) ==
  s.split /\ s.held /\ ~(s.fast /\ s.slow) /\ Below(s, q, FullBelow(s))

FastFilled(s, q) ==
  /\ s.split /\ s.held /\ ~s.fast /\ ~s.slow
  /\ ~Below(s, q, FullBelow(s))
  /\ Below(s, q, LegBelow(FastShare(s)))

SlowOnlyFilled(s, q) ==
  /\ s.split /\ s.held /\ ~s.fast /\ ~s.slow
  /\ ~Below(s, q, FullBelow(s)) /\ ~Below(s, q, LegBelow(FastShare(s)))
  /\ Below(s, q, LegBelow(SlowShare(s)))

\* A split owns the progress until both of its legs are filled.
SplitPending(s) == s.split /\ ~(s.fast /\ s.slow)

Tp1Filled(s, q) ==
  ~SplitPending(s) /\ s.held /\ s.three /\ ~s.tp1 /\ Below(s, q, TP1_BELOW)

Tp2Filled(s, q) ==
  /\ ~SplitPending(s) /\ s.held /\ s.three /\ (s.tp1 \/ Tp1Filled(s, q)) /\ ~s.tp2
  /\ Below(s, q, TP2_BELOW)

\* The kept share, give or take three hundredths of the position.
KeptShare(s, q) ==
  LET off == 1000 * q - (1000 - FIRST_CLOSE) * s.total
  IN Maximum(off, -off) <= 30 * s.total

MiddleFilled(s, q) ==
  ~SplitPending(s) /\ s.held /\ s.pending /\ ~s.active /\ KeptShare(s, q)

MiddleMismatch(s, q) ==
  /\ ~SplitPending(s) /\ s.held /\ s.pending /\ ~s.active /\ ~KeptShare(s, q)
  /\ 1000 * (s.total - q) > 50 * s.total

\* The flags after one look at the position; a split goes first and alone.
Marked(s, q) ==
  CASE BucketFilled(s, q) ->
         CASE s.plan = "THREE_STAGE_RUNNER" ->
                [s EXCEPT !.fast = TRUE, !.slow = TRUE, !.tp1 = TRUE, !.partial = TRUE]
           [] s.plan = "MIDDLE_RUNNER" ->
                [s EXCEPT !.fast = TRUE, !.slow = TRUE, !.pending = FALSE,
                          !.active = TRUE, !.disabled = TRUE, !.partial = TRUE,
                          !.plan = "SINGLE"]
           [] OTHER -> [s EXCEPT !.fast = TRUE, !.slow = TRUE]
    [] FastFilled(s, q) -> [s EXCEPT !.fast = TRUE]
    [] SlowOnlyFilled(s, q) -> [s EXCEPT !.slow = TRUE]
    [] MiddleFilled(s, q) ->
         [s EXCEPT !.pending = FALSE, !.active = TRUE, !.disabled = TRUE,
                   !.partial = TRUE, !.plan = "SINGLE"]
    [] Tp2Filled(s, q) ->
         [s EXCEPT !.tp1 = TRUE, !.partial = TRUE, !.tp2 = TRUE, !.trend = TRUE,
                   !.plan = "SINGLE"]
    [] Tp1Filled(s, q) /\ ~Tp2Filled(s, q) -> [s EXCEPT !.tp1 = TRUE, !.partial = TRUE]
    [] MiddleMismatch(s, q) -> [s EXCEPT !.disabled = TRUE]
    [] OTHER -> s

\* Bug: what is left is added to what was entered.
Costed_adds(s, q) == [s EXCEPT !.total = IF s.three THEN @ ELSE @ + q]

\* sync_strategy_cost_from_position.
\* Outside of a three-stage plan what is left counts as what was entered.
Costed(s, q) == [s EXCEPT !.total = IF s.three THEN @ ELSE q]

\* middle_runner_size_mismatch_needs_degraded_protection, after the costs.
DegradedProtection(s, q) ==
  s.pending /\ ~s.active /\ s.disabled /\ 1000 * (s.total - q) >= 500 * s.total

\* Bug: no stop is asked for a bucket whose legs were filled one by one.
StopsAsked_full_only(s, q) ==
  IF FastFilled(s, q) THEN {"FAST"}
  ELSE IF BucketFilled(s, q) /\ ~s.fast /\ ~s.slow
       THEN {IF s.plan = "THREE_STAGE_RUNNER" THEN "POST_TP1" ELSE "MIDDLE_RUNNER"}
  ELSE {}

\* The stops this look at the position asks the protective phase for.
StopsAsked(s, q) ==
  LET new == Marked(s, q)
      costed == Costed(new, q)
  IN (IF FastFilled(s, q) THEN {"FAST"} ELSE {})
     \cup (IF new.tp1 /\ ~s.tp1 /\ ~new.tp2 THEN {"POST_TP1"} ELSE {})
     \cup (IF (new.active /\ ~s.active) \/ DegradedProtection(costed, q)
           THEN {"MIDDLE_RUNNER"} ELSE {})

-----------------------------------------------------------------------------
(* The strategy.                                                           *)

\* open_position: a new position starts from the plan its bands allow.  The
\* split is decided with it; the take profits are placed like those of an update.
Enter(bands) ==
  /\ ~st.held /\ qty = 0 /\ ex.pc = "idle"
  /\ LET new == [NoPosition EXCEPT !.held = TRUE, !.total = EntryQty]
         plan == SelectPlan(new, bands)
         set == [new EXCEPT !.plan = plan]
         planned == CASE plan = "THREE_STAGE_RUNNER" ->
                           SplitBucket([set EXCEPT !.three = TRUE], bands, TP1)
                      [] plan = "MIDDLE_RUNNER" ->
                           SplitBucket(PlanMiddle(set), bands, FIRST_CLOSE)
                      [] OTHER -> set
     IN /\ st' = planned
        /\ ex' = [IdleWorker EXCEPT !.pc = "place", !.intent = Intent(planned),
                                    !.contracts = EntryQty]
  /\ qty' = EntryQty
  /\ unsent' = FALSE
  /\ UNCHANGED <<legs, sync, asked>>

\* Between commands only.
MayUpdate == st.held /\ ex.pc = "idle"

Send(s) ==
  /\ st' = s /\ unsent' = FALSE
  /\ ex' = [IdleWorker EXCEPT !.pc = "fetch", !.intent = Intent(s)]

\* Waiting for TP2 only the targets and the stop move.
UpdateWaitingTp2(moved) ==
  /\ MayUpdate /\ WaitingTp2(st)
  /\ LET set == [st EXCEPT !.plan = "THREE_STAGE_RUNNER"]
     IN IF moved THEN Send(set) ELSE st' = set /\ UNCHANGED <<ex, unsent>>
  /\ UNCHANGED <<qty, legs, sync, asked>>

\* A candle that changes neither the plan nor a target sends nothing.  A target that
\* moves by less than a ten-thousandth counts as unmoved (tp_plan_unchanged), and that
\* of a split bucket is the average of its two: the split may have changed unsent.
UpdateTp(bands, moved, age) ==
  /\ MayUpdate /\ ~WaitingTp2(st)
  /\ LET p == Propose(st, bands, age)
     IN IF p.reason \/ moved \/ p.plan # st.plan
        THEN Send(Finalize(p.s, p.plan, bands))
        ELSE /\ st' = p.s
             /\ unsent' = (unsent \/ p.s.split # st.split)
             /\ UNCHANGED ex
  /\ UNCHANGED <<qty, legs, sync, asked>>

-----------------------------------------------------------------------------
(* The execution worker, replace_take_profit step by step.                 *)

Fetch ==
  /\ ex.pc = "fetch" /\ qty > 0
  /\ ex' = [ex EXCEPT !.pc = "place", !.contracts = qty]
  /\ UNCHANGED <<qty, legs, st, sync, asked, unsent>>

Placed(mode) == [IdleWorker EXCEPT !.pc = "apply", !.mode = mode]

\* The account sync may have written `contracts' since it was fetched.
Place ==
  /\ ex.pc = "place" /\ qty > 0      \* what rested is cancelled first
  /\ legs' = Specs(ex.intent, ex.contracts)
  /\ ex' = Placed(ModeOf(ex.intent, legs'))
  /\ UNCHANGED <<qty, st, sync, asked, unsent>>

\* One of several orders is refused: all are replaced by a single exit.
PlaceFallsBack ==
  /\ ex.pc = "place" /\ qty > 0
  /\ Cardinality(Labels(Specs(ex.intent, ex.contracts))) > 1
  /\ legs' = WholeAs("final", ex.contracts)
  /\ ex' = Placed(ModeOf(ex.intent, legs'))
  /\ UNCHANGED <<qty, st, sync, asked, unsent>>

\* The position is gone.  (The delayed exit it arms, like the one for an only
\* order that is refused, is LiveRuntime's.)
UpdateFails ==
  /\ ex.pc \in {"fetch", "place"} /\ qty = 0
  /\ ex' = IdleWorker
  /\ UNCHANGED <<qty, legs, st, sync, asked, unsent>>

\* Bug: the split is kept although its orders were replaced by a single exit.
AfterResult_keeps(s, mode) == s

\* _maybe_clear_middle_bucket_split_after_execution_result
AfterResult(s, mode) ==
  CASE mode = "FINAL" -> DegradeToFinal(s)
    [] mode = "UNSPLIT" -> ClearSplit(s)
    [] OTHER -> s

Apply ==
  /\ ex.pc = "apply"
  /\ st' = AfterResult(st, ex.mode)
  /\ ex' = IdleWorker
  /\ UNCHANGED <<qty, legs, sync, asked, unsent>>

-----------------------------------------------------------------------------
(* The account sync.                                                       *)

SyncFetch ==
  /\ st.held /\ sync = NotFetched /\ qty > 0
  /\ sync' = qty
  /\ UNCHANGED <<qty, legs, st, ex, asked, unsent>>

\* run_account_sync_tp_progress_phase, on the position fetched before.
SyncApply ==
  /\ sync # NotFetched
  /\ sync' = NotFetched
  /\ IF st.held
     THEN /\ ex' = IF ex.pc = "place" THEN [ex EXCEPT !.contracts = sync]
                   ELSE ex
          /\ st' = Costed(Marked(st, sync), sync)
          /\ asked' = asked \cup StopsAsked(st, sync)
     ELSE UNCHANGED <<ex, st, asked>>
  /\ UNCHANGED <<qty, legs, unsent>>

\* A flat position is settled between commands.
Settle ==
  /\ st.held /\ qty = 0 /\ ex.pc = "idle" /\ sync = NotFetched
  /\ st' = NoPosition
  /\ asked' = {}
  /\ legs' = NoOrders
  /\ unsent' = FALSE
  /\ UNCHANGED <<qty, ex, sync>>

-----------------------------------------------------------------------------
(* The exchange.                                                           *)

\* A take profit is filled, whole or in part, but never beyond the position.
Fill(leg, n) ==
  /\ 0 < n /\ n <= legs[leg] /\ n <= qty
  /\ n \in PartialFills \/ n = Minimum(legs[leg], qty)
  /\ qty' = qty - n
  /\ legs' = IF qty = n THEN NoOrders ELSE [legs EXCEPT ![leg] = @ - n]
  /\ UNCHANGED <<st, ex, sync, asked, unsent>>

\* A stop is hit, or the delayed exit closes the position.
Close ==
  /\ qty > 0
  /\ qty' = 0 /\ legs' = NoOrders
  /\ UNCHANGED <<st, ex, sync, asked, unsent>>

\* How long the position is held: long enough to degrade to a middle runner
\* (1), or to a single exit (2).
Ages == 0 .. 2

Tick == \E bands \in Bands, moved \in BOOLEAN, age \in Ages : UpdateTp(bands, moved, age)
WaitingTick == \E moved \in BOOLEAN : UpdateWaitingTp2(moved)
Fills == \E leg \in Legs, n \in 1 .. EntryQty : Fill(leg, n)

Next ==
  \/ \E bands \in Bands : Enter(bands)
  \/ Tick \/ WaitingTick
  \/ Fetch \/ Place \/ PlaceFallsBack \/ UpdateFails \/ Apply
  \/ SyncFetch \/ SyncApply \/ Settle
  \/ Fills \/ Close

Spec == Init /\ [][Next]_vars

\* The account sync runs forever; candles, fills and failures may or may not
\* come, and nothing is asked of the execution worker.
Fairness == WF_vars(SyncFetch \/ SyncApply)

FairSpec == Spec /\ Fairness

-----------------------------------------------------------------------------
(* Properties.                                                             *)

\* Every variable keeps its type.
TypeOK ==
  /\ qty \in 0 .. EntryQty /\ legs \in [Legs -> 0 .. EntryQty]
  /\ st \in States
  /\ ex \in Workers
  /\ sync \in {NotFetched} \cup 1 .. EntryQty
  /\ asked \subseteq Stops
  /\ unsent \in BOOLEAN

\* The stages of a position are recognised in their order, and it has one
\* runner: that of the three stages, or that of the middle band.
ProgressInOrder ==
  /\ st.trend <=> st.tp2
  /\ st.tp2 => st.three /\ st.tp1
  /\ st.active => ~st.three /\ ~st.pending
  /\ st.tp1 \/ st.active => st.partial

\* However old what the account sync fetched, a stage it has recognised is one
\* the exchange has sold: at most the kept share, and the tolerance, is left.
StagesWereSold ==
  /\ st.tp1 /\ st.three => 1000 * qty <= TP1_BELOW * EntryQty
  /\ st.tp2 => 1000 * qty <= TP2_BELOW * EntryQty
  /\ st.active => 1000 * qty <= TP1_BELOW * EntryQty

\* A bucket that is split has no single exit resting for it between commands, whatever
\* fell back or was sold meanwhile: what the state expects to be filled is what the
\* exchange may fill.  The exception is named: since the last command a candle changed
\* the split and sent nothing, because no target had moved enough.
SplitHasItsLegs ==
  ex.pc = "idle" /\ st.split /\ ~unsent => legs["final"] = 0

\* Each stage that is recognised raised the stop to that of the stage, in
\* whatever order and pieces the legs of the bucket were filled.
EveryStageAsksForItsStop ==
  /\ st.tp1 /\ ~st.tp2 => "POST_TP1" \in asked
  /\ st.active => "MIDDLE_RUNNER" \in asked
  /\ st.fast /\ ~st.slow => "FAST" \in asked

\* The strategy and the sync never forget a stage while the position is held.
StagesKept ==
  [][st'.held /\ ex.pc # "apply" =>
       /\ st.tp1 => st'.tp1
       /\ st.tp2 => st'.tp2
       /\ st.active => st'.active
       /\ st.fast => st'.fast \/ ~st'.split]_vars

\* A bucket that has been sold, whole or leg by leg, is recognised as TP1
\* unless the plan or the position ends first.
BucketSold == st.three /\ ~st.tp1 /\ qty > 0 /\ Below(st, qty, TP1_BELOW)
SoldBucketRecognised == BucketSold ~> (~BucketSold)
=============================================================================
