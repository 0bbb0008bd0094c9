------------------------- MODULE ExitOrders_proofs -------------------------
(***************************************************************************)
(* The safety of the orders that close a position, for any regimes and     *)
(* faults, any number of legs of a plan and any number of orders.          *)
(*                                                                         *)
(* What the properties rest on.  Orders are numbered as they are placed,   *)
(* so what a worker has just placed is none of what the other one cancels; *)
(* a limit order is never a stop, nor one placed by hand the trader's own. *)
(* One stop covers the position from one entry to the next and is never    *)
(* replaced but by its successor, which is placed first: that of the entry *)
(* (EntryStop).  The stops of a runner come and go beside it.              *)
(***************************************************************************)
EXTENDS ExitOrders, TLAPS

Placed == 1 .. placed
MaybePlaced == 0 .. placed

\* Orders are known only once they are placed, whatever became of them.
Numbered ==
  /\ tps \cup stops \cup gone \cup foreign \cup tp_order_id \cup worker.done \subseteq Placed
  /\ {sl.entry, sl.runner, state.entry, state.runner} \subseteq MaybePlaced
  /\ {worker.intent_id, worker.old, worker.new, worker.entry} \subseteq MaybePlaced

\* What anybody takes for a stop.
KnownStops ==
  stops \cup {sl.entry, sl.runner, state.entry, state.runner}
        \cup {worker.intent_id, worker.old, worker.new, worker.entry}

\* An order has one kind, and one that was cancelled is not open.
Kinds ==
  /\ (tps \cup tp_order_id \cup worker.done \cup foreign) \cap KnownStops = {}
  /\ foreign \cap (tp_order_id \cup worker.done) = {}
  /\ gone \cap (tps \cup stops) = {}

\* What the strategy knows of a position, and of its runner.
Tracking ==
  /\ held \/ worker.pc # "idle" \/ sync = "stop" => state.tracked
  /\ state.active => state.tracked /\ state.regime = "mean"
  /\ sync = "stop" => state.active
  /\ sl.runner # NONE \/ state.runner # NONE => state.active
  /\ worker.pc # "idle" /\ worker.runner => state.active

\* Where each command is when its worker is at a step.
Steps ==
  /\ worker.pc = "entry_stop" => worker.command = "OPEN" /\ worker.done = {}
  /\ worker.pc \in {"cancel", "place"} =>
       worker.command \in {"OPEN", "UPDATE_TP"} /\ state.regime = "mean"
  /\ worker.pc = "cancel" => worker.done = {}
  /\ worker.pc \in {"entry_stop", "cancel", "place"} => worker.legs > 0
  /\ worker.pc = "runner_stop" => worker.command = "UPDATE_TP" /\ worker.runner
  /\ worker.pc = "trend_stop" => worker.command = "UPDATE_TREND_SL"
  /\ worker.pc = "cancel_old" => worker.new # NONE /\ worker.new # worker.old
  /\ worker.pc = "cancel_old" /\ worker.command = "UPDATE_TP" => worker.runner
  /\ worker.command = "OPEN" => ~worker.runner /\ ~worker.degrade /\ worker.pc # "cancel_old"
  /\ worker.command = "UPDATE_TREND_SL" => ~worker.runner
  /\ worker.command = "UPDATE_TREND_SL" /\ worker.pc # "idle" => state.regime = "trend"

\* The stop of the entry, as the command under way has it.
EntryStop ==
  IF worker.command = "OPEN" /\ worker.pc \in {"cancel", "place"} THEN worker.entry
  ELSE IF worker.command = "UPDATE_TREND_SL" /\ worker.pc = "cancel_old" THEN worker.new
  ELSE state.entry

\* The stops of a runner, as the workers know them.
RunnerStops ==
  {sl.runner, state.runner} \cup
  (IF worker.command = "UPDATE_TP" THEN {worker.intent_id, worker.old, worker.new} ELSE {})

\* A stop of the entry is none of the runner.
Apart ==
  /\ state.entry # NONE => state.entry \notin RunnerStops
  /\ worker.command = "OPEN" /\ worker.entry # NONE => worker.entry \notin RunnerStops

\* Once it is placed the stop of the entry covers the position, and the stop that replaces
\* another stands.
EntryCovered ==
  /\ held => \/ worker.pc = "entry_stop"
             \/ worker.pc = "idle" /\ alarm
             \/ EntryStop \in cover
  /\ worker.pc = "cancel_old" => worker.new \notin gone
  /\ held => state.runner \notin gone \ stale

\* The take profits placed so far by a plan are not cancelled.
TargetsKept ==
  /\ worker.pc = "place" => worker.done \cap gone = {}
  /\ held /\ ~alarm /\ state.regime = "mean"
     /\ worker.pc \notin {"entry_stop", "cancel", "place"} =>
       tp_order_id # {} /\ tp_order_id \cap gone = {}

IInv ==
  /\ TypeOK /\ Numbered /\ Kinds /\ Tracking /\ Steps /\ Apart /\ EntryCovered /\ TargetsKept

-----------------------------------------------------------------------------
(* What the steps that place an order do to the command at work.           *)

\* A number not yet given to an order is a fresh one.
LEMMA FreshOrder ==
  ASSUME TypeOK, CanPlace
  PROVE  /\ NewOrder = placed + 1 /\ NewOrder \in Order /\ NewOrder \in MaybeOrder
         /\ NewOrder \in 0 .. MaxOrders /\ NewOrder # NONE
         /\ Placed \cup {NewOrder} = 1 .. NewOrder /\ NewOrder \notin Placed
         /\ NewOrder \notin MaybePlaced /\ NONE \in MaybePlaced
         /\ MaybePlaced \cup {NewOrder} = 0 .. NewOrder
  BY ConstantsAssumption
  DEF TypeOK, CanPlace, NewOrder, Order, MaybeOrder, NONE, Placed, MaybePlaced

\* Placing an order makes it one of those placed.
LEMMA NewlyPlaced ==
  ASSUME TypeOK, CanPlace, placed' = NewOrder
  PROVE  Placed' = Placed \cup {NewOrder} /\ MaybePlaced' = MaybePlaced \cup {NewOrder}
  BY FreshOrder DEF Placed, MaybePlaced

\* No stop is a stop.
LEMMA NoneIsMaybeOrder == NONE \in MaybeOrder
  BY DEF MaybeOrder

\* The fields of the worker that no step of a placement changes.
Plan(w) == <<w.command, w.fallback, w.runner, w.degrade, w.intent_id>>

\* After a success the worker stands still and the strategy's state has the
\* stops the command placed.
LEMMA SucceedEffect ==
  ASSUME TypeOK, NEW w \in WorkerState, Succeed(w)
  PROVE  /\ worker' \in WorkerState /\ state' \in StrategyState
         /\ Plan(worker') = Plan(w)
         /\ worker'.pc = "idle" /\ worker'.ok = TRUE
         /\ worker'.legs = w.legs /\ worker'.of = w.of /\ worker'.done = w.done
         /\ worker'.old = w.old /\ worker'.new = w.new /\ worker'.entry = w.entry
         /\ state'.tracked = state.tracked /\ state'.regime = state.regime
         /\ state'.active = state.active
         /\ state'.entry = IF w.command = "UPDATE_TREND_SL" THEN w.new
                           ELSE IF w.command = "OPEN" THEN w.entry ELSE state.entry
         /\ state'.runner = IF w.runner THEN w.new ELSE state.runner
<1>1. worker' \in WorkerState
  BY DEF Succeed, WorkerState, WorkerSteps
<1>2. w.new \in MaybeOrder /\ w.entry \in MaybeOrder
  BY DEF WorkerState
<1>3. state' \in StrategyState
  BY <1>2 DEF Succeed, Recorded, TypeOK, StrategyState
<1> QED BY <1>1, <1>3 DEF Succeed, Recorded, TypeOK, WorkerState, StrategyState, Plan

\* The stop of the entry is the new order; a trend position needs no more than it.
LEMMA EntryStopPlacedEffect ==
  ASSUME TypeOK, Steps, EntryStopPlaced
  PROVE  /\ worker.pc = "entry_stop" /\ CanPlace /\ placed' = NewOrder
         /\ stops' = stops \cup {NewOrder} /\ cover' = cover \cup {NewOrder}
         /\ UNCHANGED <<held, reduced, tps, gone, stale, foreign, tp_order_id, sl, alarm, sync>>
         /\ worker.command = "OPEN" /\ worker.done = {} /\ worker.legs > 0 /\ ~worker.runner
         /\ worker' \in WorkerState /\ state' \in StrategyState
         /\ Plan(worker') = Plan(worker) /\ worker'.entry = NewOrder
         /\ worker'.legs = worker.legs /\ worker'.of = worker.of /\ worker'.done = worker.done
         /\ worker'.old = worker.old /\ worker'.new = worker.new
         /\ \/ /\ state.regime = "trend" /\ worker'.pc = "idle" /\ worker'.ok = TRUE
               /\ state'.tracked = state.tracked /\ state'.regime = state.regime
               /\ state'.active = state.active
               /\ state'.entry = NewOrder /\ state'.runner = state.runner
            \/ state.regime # "trend" /\ worker'.pc = "cancel" /\ UNCHANGED state
<1> DEFINE w == [worker EXCEPT !.entry = NewOrder]
<1>1. CanPlace /\ NewOrder \in MaybeOrder
  BY FreshOrder DEF EntryStopPlaced, PlaceStop
<1>2. w \in WorkerState
  BY <1>1 DEF TypeOK, WorkerState
<1>3. /\ Plan(w) = Plan(worker) /\ w.entry = NewOrder /\ w.pc = worker.pc /\ w.ok = worker.ok
      /\ w.legs = worker.legs /\ w.of = worker.of /\ w.done = worker.done
      /\ w.old = worker.old /\ w.new = worker.new /\ w.command = worker.command
      /\ w.runner = worker.runner
  BY DEF TypeOK, WorkerState, Plan
<1>4. \/ state.regime = "trend" /\ Succeed(w)
      \/ state.regime # "trend" /\ worker' = [w EXCEPT !.pc = "cancel"] /\ UNCHANGED state
  BY DEF EntryStopPlaced
<1>5. /\ worker.pc = "entry_stop" /\ placed' = NewOrder
      /\ stops' = stops \cup {NewOrder} /\ cover' = cover \cup {NewOrder}
      /\ UNCHANGED <<held, reduced, tps, gone, stale, foreign, tp_order_id, sl, alarm, sync>>
  BY DEF EntryStopPlaced, PlaceStop
<1>8. worker.command = "OPEN" /\ worker.done = {} /\ worker.legs > 0 /\ ~worker.runner
  BY <1>5 DEF Steps
<1> HIDE DEF w
<1>6. CASE state.regime = "trend" /\ Succeed(w)
  BY <1>1, <1>2, <1>3, <1>5, <1>6, <1>8, SucceedEffect DEF Plan
<1>7. CASE state.regime # "trend" /\ worker' = [w EXCEPT !.pc = "cancel"] /\ UNCHANGED state
  <2>1. worker' \in WorkerState
    BY <1>2, <1>7 DEF WorkerState, WorkerSteps
  <2>2. /\ worker'.pc = "cancel" /\ Plan(worker') = Plan(w) /\ worker'.entry = w.entry
        /\ worker'.legs = w.legs /\ worker'.of = w.of /\ worker'.done = w.done
        /\ worker'.old = w.old /\ worker'.new = w.new
    BY <1>2, <1>7 DEF WorkerState, Plan
  <2> QED BY <1>1, <1>3, <1>5, <1>7, <1>8, <2>1, <2>2 DEF TypeOK
<1> QED BY <1>4, <1>6, <1>7

\* A leg is placed: another follows, the stop of the runner does, or the command is done.
LEMMA PlaceLegEffect ==
  ASSUME TypeOK, Steps, PlaceLeg
  PROVE  /\ worker.pc = "place" /\ CanPlace /\ placed' = NewOrder
         /\ tps' = tps \cup {NewOrder}
         /\ UNCHANGED <<held, reduced, stops, cover, gone, stale, foreign, sl, alarm, sync>>
         /\ worker' \in WorkerState /\ state' \in StrategyState
         /\ Plan(worker') = Plan(worker) /\ worker'.entry = worker.entry
         /\ worker'.done = worker.done \cup {NewOrder}
         /\ worker'.new = worker.new
         /\ \/ /\ worker'.pc = "place" /\ worker'.legs > 0 /\ worker'.old = worker.old
               /\ UNCHANGED <<tp_order_id, state>>
            \/ /\ worker'.pc = "runner_stop" /\ worker.runner
               /\ worker'.old = IF worker.intent_id # NONE THEN worker.intent_id ELSE sl.runner
               /\ tp_order_id' = worker'.done /\ UNCHANGED state
            \/ /\ worker'.pc = "idle" /\ ~worker.runner /\ worker'.old = worker.old
               /\ tp_order_id' = worker'.done
               /\ state'.tracked = state.tracked /\ state'.regime = state.regime
               /\ state'.active = state.active /\ state'.runner = state.runner
               /\ state'.entry = IF worker.command = "OPEN" THEN worker.entry
                                 ELSE state.entry
<1> DEFINE w == [worker EXCEPT !.done = @ \cup {NewOrder}, !.legs = @ - 1]
<1>1. CanPlace /\ NewOrder \in Order
  BY FreshOrder DEF PlaceLeg
<1>2. worker.pc = "place" /\ worker.legs > 0 /\ worker.command \in {"OPEN", "UPDATE_TP"}
  BY DEF PlaceLeg, Steps
<1>3. worker.legs \in 1 .. MaxLegs /\ worker.legs - 1 \in 0 .. MaxLegs
  BY <1>2, ConstantsAssumption DEF TypeOK, WorkerState
<1>4. worker.done \cup {NewOrder} \in SUBSET Order
  BY <1>1 DEF TypeOK, WorkerState
<1>5. w \in WorkerState
  BY <1>3, <1>4 DEF TypeOK, WorkerState
<1>6. /\ Plan(w) = Plan(worker) /\ w.entry = worker.entry /\ w.pc = worker.pc
      /\ w.ok = worker.ok /\ w.legs = worker.legs - 1 /\ w.of = worker.of
      /\ w.done = worker.done \cup {NewOrder} /\ w.old = worker.old /\ w.new = worker.new
      /\ w.runner = worker.runner /\ w.command = worker.command
      /\ w.intent_id = worker.intent_id
  BY DEF TypeOK, WorkerState, Plan
<1>7. /\ placed' = NewOrder /\ tps' = tps \cup {NewOrder}
      /\ UNCHANGED <<held, reduced, stops, cover, gone, stale, foreign, sl, alarm, sync>>
  BY DEF PlaceLeg
<1>8. \/ w.legs > 0 /\ worker' = w /\ UNCHANGED <<tp_order_id, state>>
      \/ /\ w.legs = 0 /\ w.runner /\ tp_order_id' = w.done
         /\ worker' = [w EXCEPT !.pc = "runner_stop",
              !.old = IF w.intent_id # NONE THEN w.intent_id ELSE sl.runner]
         /\ UNCHANGED state
      \/ w.legs = 0 /\ ~w.runner /\ tp_order_id' = w.done /\ Succeed(w)
  BY DEF PlaceLeg, ManagedAfter
<1> HIDE DEF w
<1>9. CASE w.legs > 0 /\ worker' = w /\ UNCHANGED <<tp_order_id, state>>
  BY <1>1, <1>2, <1>5, <1>6, <1>7, <1>9 DEF TypeOK
<1>10. CASE /\ w.legs = 0 /\ w.runner /\ tp_order_id' = w.done
            /\ worker' = [w EXCEPT !.pc = "runner_stop",
                 !.old = IF w.intent_id # NONE THEN w.intent_id ELSE sl.runner]
            /\ UNCHANGED state
  <2> DEFINE old == IF w.intent_id # NONE THEN w.intent_id ELSE sl.runner
  <2>1. old \in MaybeOrder
    BY <1>5 DEF TypeOK, WorkerState
  <2> HIDE DEF old
  <2>2. worker' = [w EXCEPT !.pc = "runner_stop", !.old = old]
    BY <1>10 DEF old
  <2>3. worker' \in WorkerState
    BY <1>5, <2>1, <2>2 DEF WorkerState, WorkerSteps
  <2>4. /\ worker'.pc = "runner_stop" /\ Plan(worker') = Plan(w) /\ worker'.entry = w.entry
        /\ worker'.done = w.done /\ worker'.old = old /\ worker'.new = w.new
    BY <1>5, <2>2 DEF WorkerState, Plan
  <2> QED BY <1>1, <1>2, <1>6, <1>7, <1>10, <2>3, <2>4 DEF TypeOK, old
<1>11. CASE w.legs = 0 /\ ~w.runner /\ tp_order_id' = w.done /\ Succeed(w)
  <2>1. w.command # "UPDATE_TREND_SL"
    BY <1>2, <1>6
  <2> QED BY <1>1, <1>2, <1>5, <1>6, <1>7, <1>11, <2>1, SucceedEffect
<1> QED BY <1>8, <1>9, <1>10, <1>11

\* A leg that fails ends the command, or sends it back to cancel what is there.
LEMMA LegFailsEffect ==
  ASSUME TypeOK, LegFails
  PROVE  /\ worker.pc = "place" /\ CanPlace
         /\ \/ UNCHANGED <<placed, tps>>
            \/ placed' = NewOrder /\ tps' = tps \cup {NewOrder}
         /\ UNCHANGED <<held, reduced, stops, cover, gone, stale, foreign, tp_order_id,
                        sl, state, sync>>
         /\ worker' \in WorkerState
         /\ worker'.command = worker.command /\ worker'.runner = worker.runner
         /\ worker'.degrade = worker.degrade /\ worker'.intent_id = worker.intent_id
         /\ worker'.entry = worker.entry /\ worker'.old = worker.old
         /\ worker'.new = worker.new
         /\ \/ worker'.pc = "idle" /\ alarm' = AlarmAfter(TRUE) /\ worker'.done = worker.done
            \/ worker'.pc = "cancel" /\ alarm' = alarm /\ worker'.done = {} /\ worker'.legs = 1
<1>1. 1 \in 0 .. MaxLegs
  BY ConstantsAssumption
<1>2. worker' \in WorkerState
  <2>1. CASE Fail(TRUE)
    BY <2>1 DEF Fail, TypeOK, WorkerState, WorkerSteps
  <2>2. CASE worker' = [worker EXCEPT !.pc = "cancel", !.fallback = TRUE,
                                      !.legs = 1, !.of = 1, !.done = {}]
    BY <1>1, <2>2 DEF TypeOK, WorkerState, WorkerSteps
  <2> QED BY <2>1, <2>2 DEF LegFails
<1> QED BY <1>2 DEF LegFails, Fail, TypeOK, WorkerState, Plan

\* The stop of the runner is the new order; one it replaces is cancelled after it.
LEMMA RunnerStopPlacedEffect ==
  ASSUME TypeOK, Steps, RunnerStopPlaced
  PROVE  /\ worker.pc = "runner_stop" /\ CanPlace /\ placed' = NewOrder
         /\ stops' = stops \cup {NewOrder} /\ cover' = cover \cup {NewOrder}
         /\ UNCHANGED <<held, reduced, tps, gone, stale, foreign, tp_order_id, alarm, sync>>
         /\ sl' = [sl EXCEPT !.runner = NewOrder]
         /\ worker' \in WorkerState /\ state' \in StrategyState
         /\ Plan(worker') = Plan(worker) /\ worker'.new = NewOrder
         /\ worker'.entry = worker.entry /\ worker'.done = worker.done
         /\ worker'.old = worker.old
         /\ \/ /\ worker.old = NONE /\ worker'.pc = "idle"
               /\ state'.tracked = state.tracked /\ state'.regime = state.regime
               /\ state'.active = state.active /\ state'.entry = state.entry
               /\ state'.runner = NewOrder
            \/ worker.old # NONE /\ worker'.pc = "cancel_old" /\ UNCHANGED state
<1> DEFINE w == [worker EXCEPT !.new = NewOrder]
<1>1. CanPlace /\ NewOrder \in MaybeOrder
  BY FreshOrder DEF RunnerStopPlaced, PlaceStop
<1>2. w \in WorkerState
  BY <1>1 DEF TypeOK, WorkerState
<1>3. /\ Plan(w) = Plan(worker) /\ w.entry = worker.entry /\ w.done = worker.done
      /\ w.old = worker.old /\ w.new = NewOrder /\ w.runner = worker.runner
      /\ w.command = worker.command
  BY DEF TypeOK, WorkerState, Plan
<1>4. \/ w.old = NONE /\ Succeed(w)
      \/ w.old # NONE /\ worker' = [w EXCEPT !.pc = "cancel_old"] /\ UNCHANGED state
  BY DEF RunnerStopPlaced
<1>5. /\ worker.pc = "runner_stop" /\ placed' = NewOrder
      /\ stops' = stops \cup {NewOrder} /\ cover' = cover \cup {NewOrder}
      /\ UNCHANGED <<held, reduced, tps, gone, stale, foreign, tp_order_id, alarm, sync>>
      /\ sl' = [sl EXCEPT !.runner = NewOrder]
  BY DEF RunnerStopPlaced, PlaceStop
<1>6. worker.command = "UPDATE_TP" /\ worker.runner
  BY <1>5 DEF Steps
<1> HIDE DEF w
<1>7. CASE w.old = NONE /\ Succeed(w)
  BY <1>1, <1>2, <1>3, <1>5, <1>6, <1>7, SucceedEffect
<1>8. CASE w.old # NONE /\ worker' = [w EXCEPT !.pc = "cancel_old"] /\ UNCHANGED state
  <2>1. worker' \in WorkerState
    BY <1>2, <1>8 DEF WorkerState, WorkerSteps
  <2>2. /\ worker'.pc = "cancel_old" /\ Plan(worker') = Plan(w) /\ worker'.entry = w.entry
        /\ worker'.done = w.done /\ worker'.old = w.old /\ worker'.new = w.new
    BY <1>2, <1>8 DEF WorkerState, Plan
  <2> QED BY <1>1, <1>3, <1>5, <1>8, <2>1, <2>2 DEF TypeOK
<1> QED BY <1>4, <1>7, <1>8

\* So is the stop of a trend position, which then is that of its entry.
LEMMA TrendStopPlacedEffect ==
  ASSUME TypeOK, Steps, TrendStopPlaced
  PROVE  /\ worker.pc = "trend_stop" /\ CanPlace /\ placed' = NewOrder
         /\ stops' = stops \cup {NewOrder} /\ cover' = cover \cup {NewOrder}
         /\ UNCHANGED <<held, reduced, tps, gone, stale, foreign, tp_order_id, alarm, sync>>
         /\ worker' \in WorkerState /\ state' \in StrategyState
         /\ Plan(worker') = Plan(worker) /\ worker'.new = NewOrder
         /\ worker'.entry = worker.entry /\ worker'.done = worker.done
         /\ worker'.old = worker.old
         /\ \/ /\ worker.old = NONE /\ worker'.pc = "idle"
               /\ sl' = [sl EXCEPT !.entry = NewOrder]
               /\ state'.tracked = state.tracked /\ state'.regime = state.regime
               /\ state'.active = state.active /\ state'.entry = NewOrder
               /\ state'.runner = state.runner
            \/ worker.old # NONE /\ worker'.pc = "cancel_old" /\ UNCHANGED <<state, sl>>
<1> DEFINE w == [worker EXCEPT !.new = NewOrder]
<1>1. CanPlace /\ NewOrder \in MaybeOrder
  BY FreshOrder DEF TrendStopPlaced, PlaceStop
<1>2. w \in WorkerState
  BY <1>1 DEF TypeOK, WorkerState
<1>3. /\ Plan(w) = Plan(worker) /\ w.entry = worker.entry /\ w.done = worker.done
      /\ w.old = worker.old /\ w.new = NewOrder /\ w.runner = worker.runner
      /\ w.command = worker.command
  BY DEF TypeOK, WorkerState, Plan
<1>4. \/ w.old = NONE /\ Succeed(w) /\ sl' = [sl EXCEPT !.entry = NewOrder]
      \/ w.old # NONE /\ worker' = [w EXCEPT !.pc = "cancel_old"] /\ UNCHANGED <<state, sl>>
  BY DEF TrendStopPlaced
<1>5. /\ worker.pc = "trend_stop" /\ placed' = NewOrder
      /\ stops' = stops \cup {NewOrder} /\ cover' = cover \cup {NewOrder}
      /\ UNCHANGED <<held, reduced, tps, gone, stale, foreign, tp_order_id, alarm, sync>>
  BY DEF TrendStopPlaced, PlaceStop
<1>6. worker.command = "UPDATE_TREND_SL" /\ ~worker.runner
  BY <1>5 DEF Steps
<1> HIDE DEF w
<1>7. CASE w.old = NONE /\ Succeed(w) /\ sl' = [sl EXCEPT !.entry = NewOrder]
  BY <1>1, <1>2, <1>3, <1>5, <1>6, <1>7, SucceedEffect
<1>8. CASE w.old # NONE /\ worker' = [w EXCEPT !.pc = "cancel_old"] /\ UNCHANGED <<state, sl>>
  <2>1. worker' \in WorkerState
    BY <1>2, <1>8 DEF WorkerState, WorkerSteps
  <2>2. /\ worker'.pc = "cancel_old" /\ Plan(worker') = Plan(w) /\ worker'.entry = w.entry
        /\ worker'.done = w.done /\ worker'.old = w.old /\ worker'.new = w.new
    BY <1>2, <1>8 DEF WorkerState, Plan
  <2> QED BY <1>1, <1>3, <1>5, <1>8, <2>1, <2>2 DEF TypeOK
<1> QED BY <1>4, <1>7, <1>8

-----------------------------------------------------------------------------
(* The commands of the worker.                                             *)

\* A worker at rest.
LEMMA IdleWorkerType == IdleWorker \in WorkerState
<1>1. 0 \in 0 .. MaxLegs /\ NONE \in MaybeOrder /\ {} \in SUBSET Order
  BY ConstantsAssumption DEF MaybeOrder
<1> QED BY <1>1 DEF IdleWorker, WorkerState, WorkerSteps, Commands

\* A command's worker moves to another step, and may end there with a result.
LEMMA WorkerMoves ==
  ASSUME NEW w \in WorkerState, NEW pc \in WorkerSteps
  PROVE  /\ [w EXCEPT !.pc = pc] \in WorkerState
         /\ \A ok \in BOOLEAN : [w EXCEPT !.pc = pc, !.ok = ok] \in WorkerState
  BY DEF WorkerState

\* A command is taken up with the legs it is to place, or the stop to replace.
LEMMA EntryType ==
  ASSUME NEW legs \in 1 .. MaxLegs
  PROVE  [IdleWorker EXCEPT !.pc = "entry_stop", !.legs = legs, !.of = legs] \in WorkerState
<1>1. legs \in 0 .. MaxLegs
  BY ConstantsAssumption
<1> QED BY <1>1, IdleWorkerType DEF WorkerState, WorkerSteps

\* A worker that starts an update of the take profits is well typed ...
LEMMA UpdateTakeProfitType ==
  ASSUME NEW legs \in 1 .. MaxLegs, NEW degrade \in BOOLEAN, NEW runner \in BOOLEAN,
         NEW intent_id \in MaybeOrder
  PROVE  [IdleWorker EXCEPT !.pc = "cancel", !.command = "UPDATE_TP", !.legs = legs,
            !.of = legs, !.degrade = degrade, !.runner = runner,
            !.intent_id = intent_id] \in WorkerState
<1>1. legs \in 0 .. MaxLegs
  BY ConstantsAssumption
<1> QED BY <1>1, IdleWorkerType DEF WorkerState, WorkerSteps, Commands

\* ... and so is one that starts an update of the trend stop.
LEMMA UpdateTrendStopType ==
  ASSUME NEW old \in MaybeOrder
  PROVE  [IdleWorker EXCEPT !.pc = "trend_stop", !.command = "UPDATE_TREND_SL",
            !.old = old] \in WorkerState
  BY IdleWorkerType DEF WorkerState, WorkerSteps, Commands

-----------------------------------------------------------------------------
(* The invariant step by step.                                             *)

\* Only five steps cancel an order.
LEMMA GoneOnlyByCancels ==
  ASSUME Next
  PROVE  \/ CancelOwnTakeProfits \/ FindUnmanaged \/ CancelOldStop \/ SettleFlat
         \/ MarketExit \/ gone' = gone
  BY DEF Next, exchange, Enter, EntryStopPlaced, StopUnverified, StopFails,
     UpdateTakeProfit, NothingToProtect, PlaceLeg, LegFails, RunnerStopPlaced,
     UpdateTrendStop, TrendStopPlaced, RunnerActivates, SyncStopPlaced, SyncStopFails,
     TakeProfitFills, StopTriggers, OwnerPlacesTakeProfit

\* Every step keeps the types: ids are of orders, and a command has a step of its kind.
LEMMA TypeStep ==
  ASSUME TypeOK, Steps, Next
  PROVE  TypeOK'
<1>1. ASSUME NEW regime \in Regimes, Enter(regime) PROVE TypeOK'
  <2>1. worker' \in WorkerState
    BY <1>1, EntryType DEF Enter
  <2>2. state' \in StrategyState
    BY <1>1, ConstantsAssumption DEF Enter, TypeOK, StrategyState
  <2> QED BY <1>1, <2>1, <2>2 DEF Enter, TypeOK
<1>2. CASE EntryStopPlaced
  BY <1>2, FreshOrder, EntryStopPlacedEffect DEF TypeOK
<1>3. CASE StopUnverified
  BY <1>3, FreshOrder DEF StopUnverified, TypeOK
<1>4. CASE StopFails
  <2>1. worker' \in WorkerState
    BY <1>4, WorkerMoves DEF StopFails, Fail, TypeOK, WorkerSteps
  <2> QED BY <1>4, <2>1 DEF StopFails, Fail, AlarmAfter, exchange, TypeOK
<1>5. CASE UpdateTakeProfit
  <2>1. state.active \in BOOLEAN /\ state.runner \in MaybeOrder
    BY <1>5 DEF UpdateTakeProfit, TypeOK, StrategyState
  <2>2. PICK legs \in 1 .. MaxLegs, degrade \in BOOLEAN :
          worker' = [IdleWorker EXCEPT !.pc = "cancel", !.command = "UPDATE_TP",
                       !.legs = legs, !.of = legs, !.degrade = degrade,
                       !.runner = state.active, !.intent_id = state.runner]
    BY <1>5 DEF UpdateTakeProfit
  <2>3. worker' \in WorkerState
    BY <2>1, <2>2, UpdateTakeProfitType
  <2>4. state' \in StrategyState
    BY <1>5, NoneIsMaybeOrder DEF UpdateTakeProfit, TypeOK, StrategyState
  <2> QED BY <1>5, <2>1, <2>2, <2>3, <2>4 DEF UpdateTakeProfit, exchange, TypeOK
<1>6. CASE NothingToProtect
  <2>1. worker' \in WorkerState
    BY <1>6, WorkerMoves DEF NothingToProtect, Fail, TypeOK, WorkerSteps
  <2> QED BY <1>6, <2>1 DEF NothingToProtect, Fail, AlarmAfter, exchange, TypeOK
<1>7. CASE CancelOwnTakeProfits
  <2>1. worker' \in WorkerState
    BY <1>7, WorkerMoves DEF CancelOwnTakeProfits, TypeOK, WorkerSteps
  <2>2. sl' \in [entry : MaybeOrder, runner : MaybeOrder]
    BY <1>7, NoneIsMaybeOrder DEF CancelOwnTakeProfits, TypeOK
  <2> QED BY <1>7, <2>1, <2>2 DEF CancelOwnTakeProfits, StaleStops, TypeOK
<1>8. CASE FindUnmanaged
  <2>1. worker' \in WorkerState
    BY <1>8, WorkerMoves DEF FindUnmanaged, Fail, TypeOK, WorkerSteps
  <2> QED BY <1>8, <2>1 DEF FindUnmanaged, Fail, AlarmAfter, TypeOK
<1>9. CASE PlaceLeg
  <2>1. tp_order_id' \subseteq Order
    BY <1>9, PlaceLegEffect DEF TypeOK, WorkerState
  <2> QED BY <1>9, FreshOrder, <2>1, PlaceLegEffect DEF TypeOK
<1>10. CASE LegFails
  BY <1>10, FreshOrder, LegFailsEffect DEF TypeOK, AlarmAfter
<1>11. CASE RunnerStopPlaced
  <2>1. sl' \in [entry : MaybeOrder, runner : MaybeOrder]
    BY <1>11, RunnerStopPlacedEffect DEF TypeOK, WorkerState
  <2> QED BY <1>11, FreshOrder, <2>1, RunnerStopPlacedEffect DEF TypeOK
<1>12. CASE UpdateTrendStop
  <2>1. worker' \in WorkerState
    BY <1>12, UpdateTrendStopType DEF UpdateTrendStop, TypeOK
  <2> QED BY <1>12, <2>1 DEF UpdateTrendStop, exchange, TypeOK
<1>13. CASE TrendStopPlaced
  <2>1. sl' \in [entry : MaybeOrder, runner : MaybeOrder]
    BY <1>13, TrendStopPlacedEffect DEF TypeOK, WorkerState
  <2> QED BY <1>13, FreshOrder, <2>1, TrendStopPlacedEffect DEF TypeOK
<1>14. CASE CancelOldStop
  <2>1. worker' \in WorkerState /\ state' \in StrategyState
    BY <1>14, SucceedEffect DEF CancelOldStop, TypeOK
  <2>2. sl' \in [entry : MaybeOrder, runner : MaybeOrder]
    BY <1>14 DEF CancelOldStop, TypeOK, WorkerState
  <2> QED BY <1>14, <2>1, <2>2 DEF CancelOldStop, CancelStops, TypeOK
<1>15. CASE RunnerActivates
  <2>1. state' \in StrategyState
    BY <1>15 DEF RunnerActivates, TypeOK, StrategyState
  <2> QED BY <1>15, <2>1 DEF RunnerActivates, exchange, TypeOK
<1>16. CASE SyncStopPlaced
  <2>1. state' \in StrategyState
    BY <1>16, FreshOrder DEF SyncStopPlaced, PlaceStop, TypeOK, StrategyState
  <2>2. sl' \in [entry : MaybeOrder, runner : MaybeOrder]
    BY <1>16, FreshOrder DEF SyncStopPlaced, PlaceStop, TypeOK
  <2> QED BY <1>16, FreshOrder, <2>1, <2>2 DEF SyncStopPlaced, PlaceStop, TypeOK
<1>17. CASE SyncStopFails
  BY <1>17 DEF SyncStopFails, exchange, TypeOK
<1>18. CASE SettleFlat
  <2>1. state' \in StrategyState /\ sl' \in [entry : MaybeOrder, runner : MaybeOrder]
    BY <1>18, NoneIsMaybeOrder DEF SettleFlat, Untracked, StrategyState
  <2> QED BY <1>18, <2>1 DEF SettleFlat, CancelStops, TypeOK
<1>19. CASE MarketExit
  <2>1. sl' \in [entry : MaybeOrder, runner : MaybeOrder]
    BY <1>19, NoneIsMaybeOrder DEF MarketExit, TypeOK
  <2> QED BY <1>19, <2>1 DEF MarketExit, TypeOK
<1>20. CASE TakeProfitFills
  BY <1>20 DEF TakeProfitFills, TypeOK
<1>21. CASE StopTriggers
  BY <1>21 DEF StopTriggers, Closed, TypeOK
<1>22. CASE OwnerPlacesTakeProfit
  BY <1>22, FreshOrder DEF OwnerPlacesTakeProfit, TypeOK
<1> QED BY <1>1, <1>2, <1>3, <1>4, <1>5, <1>6, <1>7, <1>8, <1>9, <1>10, <1>11, <1>12,
           <1>13, <1>14, <1>15, <1>16, <1>17, <1>18, <1>19, <1>20, <1>21, <1>22
        DEF Next

\* Every step knows only orders that were placed.
LEMMA NumberedStep ==
  ASSUME TypeOK, Numbered, Steps, Next
  PROVE  Numbered'
<1>1. ASSUME NEW regime \in Regimes, Enter(regime) PROVE Numbered'
  BY <1>1 DEF Enter, IdleWorker, TypeOK, NONE, Numbered, Placed, MaybePlaced
<1>2. CASE EntryStopPlaced
  <2>1. /\ Placed' = Placed \cup {NewOrder}
        /\ MaybePlaced' = MaybePlaced \cup {NewOrder}
    BY <1>2, EntryStopPlacedEffect, NewlyPlaced
  <2>2. /\ stops' = stops \cup {NewOrder} /\ worker'.done = worker.done
        /\ UNCHANGED <<tps, gone, foreign, tp_order_id, sl>>
        /\ state'.entry \in {NewOrder, state.entry} /\ state'.runner = state.runner
        /\ worker'.intent_id = worker.intent_id /\ worker'.old = worker.old
        /\ worker'.new = worker.new /\ worker'.entry = NewOrder
    BY <1>2, EntryStopPlacedEffect DEF Plan
  <2> QED BY <2>1, <2>2 DEF Numbered
<1>3. CASE StopUnverified
  BY <1>3 DEF StopUnverified, NewOrder, TypeOK, Numbered, Placed, MaybePlaced
<1>4. CASE StopFails
  BY <1>4 DEF StopFails, Fail, exchange, Numbered, Placed, MaybePlaced
<1>5. CASE UpdateTakeProfit
  BY <1>5
     DEF UpdateTakeProfit, IdleWorker, exchange, TypeOK, NONE, Numbered, Placed,
         MaybePlaced
<1>6. CASE NothingToProtect
  BY <1>6 DEF NothingToProtect, Fail, exchange, Numbered, Placed, MaybePlaced
<1>7. CASE CancelOwnTakeProfits
  BY <1>7
     DEF CancelOwnTakeProfits, StaleStops, TypeOK, NONE, Numbered, Placed, MaybePlaced
<1>8. CASE FindUnmanaged
  BY <1>8 DEF FindUnmanaged, Fail, Numbered, Placed, MaybePlaced
<1>9. CASE PlaceLeg
  BY <1>9, PlaceLegEffect, NewlyPlaced DEF Plan, Numbered
<1>10. CASE LegFails
  <2>1. Placed \subseteq Placed' /\ (placed' = NewOrder => NewOrder \in Placed')
        /\ MaybePlaced \subseteq MaybePlaced'
    BY <1>10, LegFailsEffect, NewlyPlaced DEF Placed, MaybePlaced
  <2>2. tps' \cup stops' \cup gone' \cup foreign' \cup tp_order_id' \cup worker'.done \subseteq Placed'
    BY <1>10, <2>1, LegFailsEffect DEF Numbered
  <2>3. /\ {sl'.entry, sl'.runner, state'.entry, state'.runner} \subseteq MaybePlaced'
        /\ {worker'.intent_id, worker'.old, worker'.new, worker'.entry} \subseteq MaybePlaced'
    BY <1>10, <2>1, LegFailsEffect DEF Numbered
  <2> QED BY <2>2, <2>3 DEF Numbered
<1>11. CASE RunnerStopPlaced
  BY <1>11, RunnerStopPlacedEffect, NewlyPlaced DEF Plan, TypeOK, Numbered
<1>12. CASE UpdateTrendStop
  BY <1>12
     DEF UpdateTrendStop, IdleWorker, exchange, TypeOK, NONE, Numbered, Placed,
         MaybePlaced
<1>13. CASE TrendStopPlaced
  BY <1>13, TrendStopPlacedEffect, NewlyPlaced DEF Plan, TypeOK, Numbered
<1>14. CASE CancelOldStop
  BY <1>14
     DEF CancelOldStop, CancelStops, Succeed, Recorded, Numbered, Placed, MaybePlaced
<1>15. CASE RunnerActivates
  BY <1>15 DEF RunnerActivates, exchange, Numbered, Placed, MaybePlaced
<1>16. CASE SyncStopPlaced
  BY <1>16 DEF SyncStopPlaced, PlaceStop, NewOrder, TypeOK, Numbered, Placed, MaybePlaced
<1>17. CASE SyncStopFails
  BY <1>17 DEF SyncStopFails, exchange, Numbered, Placed, MaybePlaced
<1>18. CASE SettleFlat
  BY <1>18
     DEF SettleFlat, CancelStops, Untracked, TypeOK, NONE, Numbered, Placed,
         MaybePlaced
<1>19. CASE MarketExit
  <2>1. NONE \in MaybePlaced
    BY FreshOrder DEF MaybePlaced, TypeOK, NONE
  <2>2. /\ tps' \subseteq tps /\ stops' \subseteq stops /\ gone' \subseteq gone \cup tps \cup stops
        /\ sl'.entry = NONE /\ sl'.runner \in {sl.runner, NONE}
        /\ UNCHANGED <<placed, foreign, tp_order_id, worker, state>>
    BY <1>19 DEF MarketExit
  <2> QED BY <2>1, <2>2 DEF Numbered, Placed, MaybePlaced
<1>20. CASE TakeProfitFills
  BY <1>20 DEF TakeProfitFills, Numbered, Placed, MaybePlaced
<1>21. CASE StopTriggers
  BY <1>21 DEF StopTriggers, Closed, Numbered, Placed, MaybePlaced
<1>22. CASE OwnerPlacesTakeProfit
  BY <1>22 DEF OwnerPlacesTakeProfit, NewOrder, TypeOK, Numbered, Placed, MaybePlaced
<1> QED BY <1>1, <1>2, <1>3, <1>4, <1>5, <1>6, <1>7, <1>8, <1>9, <1>10, <1>11, <1>12,
           <1>13, <1>14, <1>15, <1>16, <1>17, <1>18, <1>19, <1>20, <1>21, <1>22
        DEF Next

\* No step takes a stop for a take profit, one placed by hand for the trader's own, or a
\* cancelled order for an open one: what it places has a number of its own.
LEMMA KindsStep ==
  ASSUME TypeOK, Numbered, Kinds, Steps, Next
  PROVE  Kinds'
<1>1. ASSUME NEW regime \in Regimes, Enter(regime) PROVE Kinds'
  BY <1>1 DEF Enter, IdleWorker, NONE, Numbered, Placed, Kinds, KnownStops
<1>2. CASE EntryStopPlaced
  <2>1. /\ stops' = stops \cup {NewOrder} /\ CanPlace /\ worker'.done = worker.done
        /\ UNCHANGED <<tps, gone, foreign, tp_order_id, sl>>
        /\ state'.entry \in {NewOrder, state.entry} /\ state'.runner = state.runner
        /\ worker'.intent_id = worker.intent_id /\ worker'.old = worker.old
        /\ worker'.new = worker.new /\ worker'.entry = NewOrder
    BY <1>2, EntryStopPlacedEffect DEF Plan
  <2> QED BY <2>1, FreshOrder DEF Numbered, Kinds, KnownStops
<1>3. CASE StopUnverified
  BY <1>3 DEF StopUnverified, NewOrder, TypeOK, Numbered, Placed, Kinds, KnownStops
<1>4. CASE StopFails
  BY <1>4 DEF StopFails, Fail, exchange, Kinds, KnownStops
<1>5. CASE UpdateTakeProfit
  BY <1>5
     DEF UpdateTakeProfit, IdleWorker, exchange, NONE, Numbered, Placed, Kinds,
         KnownStops
<1>6. CASE NothingToProtect
  BY <1>6 DEF NothingToProtect, Fail, exchange, Kinds, KnownStops
<1>7. CASE CancelOwnTakeProfits
  BY <1>7 DEF CancelOwnTakeProfits, StaleStops, NONE, Numbered, Placed, Kinds, KnownStops
<1>8. CASE FindUnmanaged
  BY <1>8 DEF FindUnmanaged, Fail, Kinds, KnownStops
<1>9. CASE PlaceLeg
  BY <1>9, FreshOrder, PlaceLegEffect DEF Plan, Numbered, Kinds, KnownStops
<1>10. CASE LegFails
  BY <1>10, FreshOrder, LegFailsEffect DEF AlarmAfter, Numbered, Kinds, KnownStops
<1>11. CASE RunnerStopPlaced
  BY <1>11, FreshOrder, RunnerStopPlacedEffect
     DEF Plan, TypeOK, Numbered, Kinds, KnownStops
<1>12. CASE UpdateTrendStop
  BY <1>12
     DEF UpdateTrendStop, IdleWorker, exchange, NONE, Numbered, Placed, Kinds,
         KnownStops
<1>13. CASE TrendStopPlaced
  BY <1>13, FreshOrder, TrendStopPlacedEffect
     DEF Plan, TypeOK, Numbered, Kinds, KnownStops
<1>14. CASE CancelOldStop
  BY <1>14 DEF CancelOldStop, CancelStops, Succeed, Recorded, Kinds, KnownStops
<1>15. CASE RunnerActivates
  BY <1>15 DEF RunnerActivates, exchange, Kinds, KnownStops
<1>16. CASE SyncStopPlaced
  BY <1>16
     DEF SyncStopPlaced, PlaceStop, NewOrder, TypeOK, Numbered, Placed, Kinds,
         KnownStops
<1>17. CASE SyncStopFails
  BY <1>17 DEF SyncStopFails, exchange, Kinds, KnownStops
<1>18. CASE SettleFlat
  BY <1>18
     DEF SettleFlat, CancelStops, Untracked, NONE, Numbered, Placed, Kinds, KnownStops
<1>19. CASE MarketExit
  <2>1. /\ tps' \subseteq tps /\ stops' \subseteq stops
        /\ gone' = gone \cup (tps \ tps') \cup (stops \ stops')
        /\ sl'.entry = NONE /\ sl'.runner \in {sl.runner, NONE}
        /\ UNCHANGED <<foreign, tp_order_id, worker, state>>
    BY <1>19 DEF MarketExit
  <2>2. NONE \notin tps \cup tp_order_id \cup worker.done \cup foreign
    BY DEF Numbered, Placed, NONE
  <2> QED BY <2>1, <2>2 DEF Kinds, KnownStops
<1>20. CASE TakeProfitFills
  BY <1>20 DEF TakeProfitFills, Kinds, KnownStops
<1>21. CASE StopTriggers
  BY <1>21 DEF StopTriggers, Closed, Kinds, KnownStops
<1>22. CASE OwnerPlacesTakeProfit
  BY <1>22
     DEF OwnerPlacesTakeProfit, NewOrder, TypeOK, Numbered, Placed, MaybePlaced, Kinds,
         KnownStops
<1> QED BY <1>1, <1>2, <1>3, <1>4, <1>5, <1>6, <1>7, <1>8, <1>9, <1>10, <1>11, <1>12,
           <1>13, <1>14, <1>15, <1>16, <1>17, <1>18, <1>19, <1>20, <1>21, <1>22
        DEF Next

\* Runners and their stops belong to a position that is tracked.
LEMMA TrackingStep ==
  ASSUME TypeOK, Tracking, Steps, Next
  PROVE  Tracking'
<1>1. ASSUME NEW regime \in Regimes, Enter(regime) PROVE Tracking'
  BY <1>1 DEF Enter, IdleWorker, Tracking
<1>2. CASE EntryStopPlaced
  BY <1>2, EntryStopPlacedEffect DEF Plan, Tracking
<1>3. CASE StopUnverified
  BY <1>3 DEF StopUnverified, Tracking
<1>4. CASE StopFails
  BY <1>4 DEF StopFails, StopSteps, Fail, Tracking
<1>5. CASE UpdateTakeProfit
  BY <1>5 DEF UpdateTakeProfit, Tracking
<1>6. CASE NothingToProtect
  BY <1>6 DEF NothingToProtect, Fail, Tracking
<1>7. CASE CancelOwnTakeProfits
  BY <1>7 DEF CancelOwnTakeProfits, Tracking
<1>8. CASE FindUnmanaged
  BY <1>8 DEF FindUnmanaged, Fail, Tracking
<1>9. CASE PlaceLeg
  BY <1>9, PlaceLegEffect DEF Plan, Tracking
<1>10. CASE LegFails
  BY <1>10, LegFailsEffect DEF Tracking
<1>11. CASE RunnerStopPlaced
  BY <1>11, RunnerStopPlacedEffect DEF Tracking, Steps
<1>12. CASE UpdateTrendStop
  BY <1>12 DEF UpdateTrendStop, IdleWorker, Tracking
<1>13. CASE TrendStopPlaced
  BY <1>13, TrendStopPlacedEffect DEF Plan, TypeOK, Tracking
<1>14. CASE CancelOldStop
  BY <1>14 DEF CancelOldStop, Succeed, Recorded, Tracking
<1>15. CASE RunnerActivates
  BY <1>15 DEF RunnerActivates, Tracking
<1>16. CASE SyncStopPlaced
  BY <1>16 DEF SyncStopPlaced, Tracking
<1>17. CASE SyncStopFails
  BY <1>17 DEF SyncStopFails, Tracking
<1>18. CASE SettleFlat
  BY <1>18 DEF SettleFlat, Untracked, Tracking
<1>19. CASE MarketExit
  BY <1>19 DEF MarketExit, Tracking
<1>20. CASE TakeProfitFills
  BY <1>20 DEF TakeProfitFills, Tracking
<1>21. CASE StopTriggers
  BY <1>21 DEF StopTriggers, Tracking
<1>22. CASE OwnerPlacesTakeProfit
  BY <1>22 DEF OwnerPlacesTakeProfit, Tracking
<1> QED BY <1>1, <1>2, <1>3, <1>4, <1>5, <1>6, <1>7, <1>8, <1>9, <1>10, <1>11, <1>12,
           <1>13, <1>14, <1>15, <1>16, <1>17, <1>18, <1>19, <1>20, <1>21, <1>22
        DEF Next

\* A command never leaves the steps of its kind.
LEMMA StepsStep ==
  ASSUME TypeOK, Numbered, Tracking, Steps, Next
  PROVE  Steps'
<1>1. ASSUME NEW regime \in Regimes, Enter(regime) PROVE Steps'
  BY <1>1 DEF Enter, IdleWorker, Steps
<1>2. CASE EntryStopPlaced
  BY <1>2, EntryStopPlacedEffect DEF Plan, StrategyState, Steps
<1>3. CASE StopUnverified
  BY <1>3 DEF StopUnverified, Steps
<1>4. CASE StopFails
  BY <1>4 DEF StopFails, Fail, Steps
<1>5. CASE UpdateTakeProfit
  BY <1>5 DEF UpdateTakeProfit, IdleWorker, Steps
<1>6. CASE NothingToProtect
  BY <1>6 DEF NothingToProtect, Fail, Steps
<1>7. CASE CancelOwnTakeProfits
  BY <1>7 DEF CancelOwnTakeProfits, Steps
<1>8. CASE FindUnmanaged
  BY <1>8 DEF FindUnmanaged, Fail, Steps
<1>9. CASE PlaceLeg
  BY <1>9, PlaceLegEffect DEF Plan, Steps
<1>10. CASE LegFails
  BY <1>10, LegFailsEffect DEF AlarmAfter, Steps
<1>11. CASE RunnerStopPlaced
  BY <1>11, FreshOrder, RunnerStopPlacedEffect DEF Plan, Numbered, Steps
<1>12. CASE UpdateTrendStop
  BY <1>12 DEF UpdateTrendStop, IdleWorker, Steps
<1>13. CASE TrendStopPlaced
  BY <1>13, FreshOrder, TrendStopPlacedEffect DEF Plan, Numbered, Steps
<1>14. CASE CancelOldStop
  BY <1>14 DEF CancelOldStop, Succeed, Steps
<1>15. CASE RunnerActivates
  BY <1>15 DEF RunnerActivates, Steps
<1>16. CASE SyncStopPlaced
  BY <1>16 DEF SyncStopPlaced, Steps
<1>17. CASE SyncStopFails
  BY <1>17 DEF SyncStopFails, Steps
<1>18. CASE SettleFlat
  BY <1>18 DEF SettleFlat, Steps
<1>19. CASE MarketExit
  BY <1>19 DEF MarketExit, Steps
<1>20. CASE TakeProfitFills
  BY <1>20 DEF TakeProfitFills, Steps
<1>21. CASE StopTriggers
  BY <1>21 DEF StopTriggers, Steps
<1>22. CASE OwnerPlacesTakeProfit
  BY <1>22 DEF OwnerPlacesTakeProfit, Steps
<1> QED BY <1>1, <1>2, <1>3, <1>4, <1>5, <1>6, <1>7, <1>8, <1>9, <1>10, <1>11, <1>12,
           <1>13, <1>14, <1>15, <1>16, <1>17, <1>18, <1>19, <1>20, <1>21, <1>22
        DEF Next

\* No step makes the stop of the entry one of the runner's.
LEMMA ApartStep ==
  ASSUME TypeOK, Numbered, Tracking, Steps, Apart, Next
  PROVE  Apart'
<1>1. ASSUME NEW regime \in Regimes, Enter(regime) PROVE Apart'
  BY <1>1 DEF Enter, IdleWorker, Apart, RunnerStops
<1>2. CASE EntryStopPlaced
  <2>1. /\ CanPlace /\ worker.command = "OPEN" /\ worker'.command = "OPEN"
        /\ worker'.entry = NewOrder /\ state'.runner = state.runner
        /\ state'.entry \in {NewOrder, state.entry} /\ sl' = sl
    BY <1>2, EntryStopPlacedEffect DEF Plan
  <2> QED BY <2>1, FreshOrder DEF Numbered, Apart, RunnerStops
<1>3. CASE StopUnverified
  BY <1>3 DEF StopUnverified, Apart, RunnerStops
<1>4. CASE StopFails
  BY <1>4 DEF StopFails, Fail, Apart, RunnerStops
<1>5. CASE UpdateTakeProfit
  BY <1>5 DEF UpdateTakeProfit, IdleWorker, Apart, RunnerStops
<1>6. CASE NothingToProtect
  BY <1>6 DEF NothingToProtect, Fail, Apart, RunnerStops
<1>7. CASE CancelOwnTakeProfits
  BY <1>7 DEF CancelOwnTakeProfits, Apart, RunnerStops
<1>8. CASE FindUnmanaged
  BY <1>8 DEF FindUnmanaged, Fail, Apart, RunnerStops
<1>9. CASE PlaceLeg
  BY <1>9, PlaceLegEffect DEF Plan, Apart, RunnerStops
<1>10. CASE LegFails
  BY <1>10, LegFailsEffect DEF Apart, RunnerStops
<1>11. CASE RunnerStopPlaced
  BY <1>11, FreshOrder, RunnerStopPlacedEffect
     DEF Plan, TypeOK, Numbered, Apart, RunnerStops
<1>12. CASE UpdateTrendStop
  BY <1>12 DEF UpdateTrendStop, Apart, RunnerStops
<1>13. CASE TrendStopPlaced
  BY <1>13, TrendStopPlacedEffect DEF Plan, TypeOK, Tracking, Steps, Apart, RunnerStops
<1>14. CASE CancelOldStop
  BY <1>14
     DEF CancelOldStop, Succeed, Recorded, TypeOK, WorkerState, Commands, Tracking,
         Steps, Apart, RunnerStops
<1>15. CASE RunnerActivates
  BY <1>15 DEF RunnerActivates, Apart, RunnerStops
<1>16. CASE SyncStopPlaced
  BY <1>16 DEF SyncStopPlaced, NewOrder, TypeOK, Numbered, MaybePlaced, Apart, RunnerStops
<1>17. CASE SyncStopFails
  BY <1>17 DEF SyncStopFails, Apart, RunnerStops
<1>18. CASE SettleFlat
  BY <1>18 DEF SettleFlat, Untracked, Apart, RunnerStops
<1>19. CASE MarketExit
  BY <1>19 DEF MarketExit, Apart, RunnerStops
<1>20. CASE TakeProfitFills
  BY <1>20 DEF TakeProfitFills, Apart, RunnerStops
<1>21. CASE StopTriggers
  BY <1>21 DEF StopTriggers, Apart, RunnerStops
<1>22. CASE OwnerPlacesTakeProfit
  BY <1>22 DEF OwnerPlacesTakeProfit, Apart, RunnerStops
<1> QED BY <1>1, <1>2, <1>3, <1>4, <1>5, <1>6, <1>7, <1>8, <1>9, <1>10, <1>11, <1>12,
           <1>13, <1>14, <1>15, <1>16, <1>17, <1>18, <1>19, <1>20, <1>21, <1>22
        DEF Next

\* The stop of the entry stands through every step, or its successor does.
LEMMA EntryCoveredStep ==
  ASSUME TypeOK, Numbered, Kinds, Tracking, Steps, Apart, EntryCovered, Next
  PROVE  EntryCovered'
<1>1. ASSUME NEW regime \in Regimes, Enter(regime) PROVE EntryCovered'
  BY <1>1 DEF Enter, NONE, Numbered, Placed, Tracking, EntryStop, EntryCovered
<1>2. CASE EntryStopPlaced
  <2>1. /\ worker.command = "OPEN" /\ worker'.command = "OPEN" /\ worker'.entry = NewOrder
        /\ cover' = cover \cup {NewOrder} /\ UNCHANGED <<held, gone, stale>>
        /\ state'.runner = state.runner
        /\ \/ worker'.pc = "idle" /\ state'.entry = NewOrder
           \/ worker'.pc = "cancel"
    BY <1>2, EntryStopPlacedEffect DEF Plan
  <2> QED BY <2>1 DEF EntryCovered, EntryStop
<1>3. CASE StopUnverified
  BY <1>3 DEF StopUnverified, EntryStop, EntryCovered
<1>4. CASE StopFails
  BY <1>4 DEF StopFails, Fail, AlarmAfter, exchange, TypeOK, EntryStop, EntryCovered
<1>5. CASE UpdateTakeProfit
  BY <1>5 DEF UpdateTakeProfit, exchange, NONE, Numbered, Placed, EntryStop, EntryCovered
<1>6. CASE NothingToProtect
  BY <1>6 DEF NothingToProtect, Fail, AlarmAfter, exchange, EntryStop, EntryCovered
<1>7. CASE CancelOwnTakeProfits
  <2>1. PICK orders \in SUBSET tps, runner \in SUBSET StaleStops :
          /\ stops' = stops \ runner /\ cover' = cover \ runner
          /\ gone' = gone \cup orders \cup runner /\ stale' = stale \cup runner
    BY <1>7 DEF CancelOwnTakeProfits
  <2>2. /\ worker.pc = "cancel" /\ worker'.pc = "place" /\ worker'.command = worker.command
        /\ worker'.entry = worker.entry /\ UNCHANGED <<held, state>>
    BY <1>7 DEF CancelOwnTakeProfits
  <2>3. EntryStop' = EntryStop
    BY <2>2 DEF EntryStop
  <2>4. EntryStop \in cover => EntryStop \notin runner
    <3>1. runner # {} => worker.command # "OPEN" /\ runner = {sl.runner}
      BY DEF StaleStops, Steps
    <3>2. NONE \notin cover
      BY DEF Numbered, Placed, TypeOK, NONE
    <3>3. worker.command # "OPEN" => EntryStop = state.entry
      BY <2>2 DEF EntryStop
    <3> QED BY <3>1, <3>2, <3>3 DEF Apart, RunnerStops
  <2>5. state.runner \notin orders
    BY DEF Kinds, KnownStops
  <2> QED BY <2>1, <2>2, <2>3, <2>4, <2>5 DEF EntryCovered
<1>8. CASE FindUnmanaged
  <2>1. PICK listed \in SUBSET (tps \cap tp_order_id) : gone' = gone \cup listed
    BY <1>8 DEF FindUnmanaged
  <2>2. /\ worker'.pc = "idle" /\ UNCHANGED <<held, state, stale>>
        /\ held => alarm'
    BY <1>8 DEF FindUnmanaged, Fail, AlarmAfter, TypeOK
  <2>3. state.runner \notin listed
    BY DEF Kinds, KnownStops
  <2> QED BY <2>1, <2>2, <2>3 DEF EntryCovered
<1>9. CASE PlaceLeg
  BY <1>9, PlaceLegEffect DEF Plan, Steps, EntryStop, EntryCovered
<1>10. CASE LegFails
  BY <1>10, LegFailsEffect DEF AlarmAfter, TypeOK, EntryStop, EntryCovered
<1>11. CASE RunnerStopPlaced
  BY <1>11, FreshOrder, RunnerStopPlacedEffect DEF Numbered, EntryStop, EntryCovered
<1>12. CASE UpdateTrendStop
  BY <1>12 DEF UpdateTrendStop, exchange, EntryStop, EntryCovered
<1>13. CASE TrendStopPlaced
  BY <1>13, FreshOrder, TrendStopPlacedEffect DEF Numbered, EntryStop, EntryCovered
<1>14. CASE CancelOldStop
  BY <1>14
     DEF CancelOldStop, CancelStops, Succeed, Recorded, TypeOK, WorkerState, Commands,
         NONE, Numbered, Placed, Tracking, Steps, Apart, RunnerStops, EntryStop,
         EntryCovered
<1>15. CASE RunnerActivates
  BY <1>15 DEF RunnerActivates, exchange, EntryStop, EntryCovered
<1>16. CASE SyncStopPlaced
  BY <1>16
     DEF SyncStopPlaced, PlaceStop, NewOrder, TypeOK, Numbered, Placed, EntryStop,
         EntryCovered
<1>17. CASE SyncStopFails
  BY <1>17 DEF SyncStopFails, exchange, EntryStop, EntryCovered
<1>18. CASE SettleFlat
  BY <1>18 DEF SettleFlat, EntryStop, EntryCovered
<1>19. CASE MarketExit
  BY <1>19 DEF MarketExit, EntryStop, EntryCovered
<1>20. CASE TakeProfitFills
  BY <1>20 DEF TakeProfitFills, EntryStop, EntryCovered
<1>21. CASE StopTriggers
  BY <1>21 DEF StopTriggers, Closed, EntryStop, EntryCovered
<1>22. CASE OwnerPlacesTakeProfit
  BY <1>22 DEF OwnerPlacesTakeProfit, EntryStop, EntryCovered
<1> QED BY <1>1, <1>2, <1>3, <1>4, <1>5, <1>6, <1>7, <1>8, <1>9, <1>10, <1>11, <1>12,
           <1>13, <1>14, <1>15, <1>16, <1>17, <1>18, <1>19, <1>20, <1>21, <1>22
        DEF Next

\* The take profits on record are not cancelled behind the strategy's back.
LEMMA TargetsKeptStep ==
  ASSUME TypeOK, Numbered, Kinds, Tracking, Steps, TargetsKept, Next
  PROVE  TargetsKept'
<1>1. ASSUME NEW regime \in Regimes, Enter(regime) PROVE TargetsKept'
  BY <1>1 DEF Enter, TargetsKept
<1>2. CASE EntryStopPlaced
  BY <1>2, EntryStopPlacedEffect DEF TargetsKept
<1>3. CASE StopUnverified
  BY <1>3 DEF StopUnverified, TargetsKept
<1>4. CASE StopFails
  BY <1>4 DEF StopFails, Fail, AlarmAfter, exchange, TypeOK, TargetsKept
<1>5. CASE UpdateTakeProfit
  BY <1>5 DEF UpdateTakeProfit, TargetsKept
<1>6. CASE NothingToProtect
  BY <1>6 DEF NothingToProtect, Fail, AlarmAfter, exchange, TargetsKept
<1>7. CASE CancelOwnTakeProfits
  BY <1>7 DEF CancelOwnTakeProfits, Steps, TargetsKept
<1>8. CASE FindUnmanaged
  BY <1>8 DEF FindUnmanaged, Fail, AlarmAfter, TypeOK, TargetsKept
<1>9. CASE PlaceLeg
  BY <1>9, FreshOrder, PlaceLegEffect DEF Numbered, TargetsKept
<1>10. CASE LegFails
  BY <1>10, LegFailsEffect DEF AlarmAfter, TypeOK, TargetsKept
<1>11. CASE RunnerStopPlaced
  BY <1>11, RunnerStopPlacedEffect DEF TargetsKept
<1>12. CASE UpdateTrendStop
  BY <1>12 DEF UpdateTrendStop, TargetsKept
<1>13. CASE TrendStopPlaced
  BY <1>13, TrendStopPlacedEffect DEF TargetsKept
<1>14. CASE CancelOldStop
  BY <1>14
     DEF CancelOldStop, CancelStops, Succeed, Recorded, Kinds, KnownStops, TargetsKept
<1>15. CASE RunnerActivates
  BY <1>15 DEF RunnerActivates, exchange, TargetsKept
<1>16. CASE SyncStopPlaced
  BY <1>16 DEF SyncStopPlaced, TargetsKept
<1>17. CASE SyncStopFails
  BY <1>17 DEF SyncStopFails, exchange, TargetsKept
<1>18. CASE SettleFlat
  BY <1>18 DEF SettleFlat, TargetsKept
<1>19. CASE MarketExit
  BY <1>19 DEF MarketExit, TargetsKept
<1>20. CASE TakeProfitFills
  BY <1>20 DEF TakeProfitFills, TargetsKept
<1>21. CASE StopTriggers
  BY <1>21 DEF StopTriggers, TargetsKept
<1>22. CASE OwnerPlacesTakeProfit
  BY <1>22 DEF OwnerPlacesTakeProfit, TargetsKept
<1> QED BY <1>1, <1>2, <1>3, <1>4, <1>5, <1>6, <1>7, <1>8, <1>9, <1>10, <1>11, <1>12,
           <1>13, <1>14, <1>15, <1>16, <1>17, <1>18, <1>19, <1>20, <1>21, <1>22
        DEF Next

-----------------------------------------------------------------------------
(* The invariant.                                                          *)

\* Before the first entry there are no orders.
LEMMA InitInvariant == Init => IInv
<1> SUFFICES ASSUME Init PROVE IInv
  OBVIOUS
<1>1. NONE \in MaybeOrder /\ 0 \in 0 .. MaxOrders
  BY ConstantsAssumption DEF MaybeOrder
<1>2. TypeOK
  BY <1>1, IdleWorkerType DEF Init, TypeOK, Untracked, StrategyState
<1>3. /\ worker.pc = "idle" /\ worker.command = "OPEN" /\ worker.done = {}
      /\ worker.runner = FALSE /\ worker.degrade = FALSE
      /\ worker.intent_id = NONE /\ worker.old = NONE /\ worker.new = NONE
      /\ worker.entry = NONE
  BY DEF Init, IdleWorker
<1>4. Numbered /\ Kinds
  BY <1>3 DEF Init, Untracked, Numbered, Placed, MaybePlaced, Kinds, KnownStops, NONE
<1>5. Tracking /\ Steps
  BY <1>3 DEF Init, Untracked, Tracking, Steps
<1>6. Apart /\ EntryCovered /\ TargetsKept
  BY <1>3 DEF Init, Untracked, Apart, RunnerStops, EntryCovered, TargetsKept
<1> QED BY <1>2, <1>4, <1>5, <1>6 DEF IInv

\* Every step keeps the invariant.
LEMMA InvariantStep == IInv /\ [Next]_vars => IInv'
<1> SUFFICES ASSUME IInv, [Next]_vars PROVE IInv'
  OBVIOUS
<1>1. CASE Next
  BY <1>1, TypeStep, NumberedStep, KindsStep, TrackingStep, StepsStep, ApartStep,
     EntryCoveredStep, TargetsKeptStep DEF IInv
<1>2. CASE UNCHANGED vars
  BY <1>2 DEF vars, IInv, TypeOK, Numbered, Placed, MaybePlaced, Kinds, KnownStops,
     Tracking, Steps, Apart, RunnerStops, EntryCovered, EntryStop, TargetsKept
<1> QED BY <1>1, <1>2

\* The inductive invariant of the orders that close a position, for any faults and any
\* interleaving of the two workers.
THEOREM ExitInvariantCorrect == Spec => []IInv
  BY InitInvariant, InvariantStep, PTL DEF Spec

-----------------------------------------------------------------------------
(* What it implies.                                                        *)

\* TypeOK: every order is numbered, the stops that cover the position are open
\* and a cancelled runner stop is among the cancelled orders, after any
\* sequence of the managers' steps.
THEOREM ExitTypeCorrect == Spec => []TypeOK
<1>1. IInv => TypeOK
  BY DEF IInv
<1> QED BY <1>1, ExitInvariantCorrect, PTL

\* ProtectedOrAlarmed: no failure of the exchange and no interleaving of the two
\* workers leaves a position without a stop for the whole of it and nobody
\* alarmed.
THEOREM ProtectedCorrect == Spec => []ProtectedOrAlarmed
<1>1. IInv => ProtectedOrAlarmed
  BY DEF IInv, EntryCovered, ProtectedOrAlarmed
<1> QED BY <1>1, ExitInvariantCorrect, PTL

\* TakeProfitsStand: replace_take_profit leaves the ids it placed, none of which
\* it cancels, whatever the fallback to a single leg went through.
THEOREM TakeProfitsCorrect == Spec => []TakeProfitsStand
<1>1. IInv => TakeProfitsStand
  BY DEF IInv, TargetsKept, TakeProfitsStand
<1> QED BY <1>1, ExitInvariantCorrect, PTL

\* RecordedStopsStand: the stop ids on record are of stops that were not
\* cancelled, though both workers place and replace them.
THEOREM RecordedStopsCorrect == Spec => []RecordedStopsStand
<1>1. IInv => RecordedStopsStand
  <2> SUFFICES ASSUME IInv, held, Quiet, ~alarm
               PROVE  {state.entry, state.runner} \cap (gone \ stale) = {}
    BY DEF RecordedStopsStand
  <2>1. state.entry \in stops
    BY DEF IInv, TypeOK, EntryCovered, EntryStop, Quiet
  <2>2. state.entry \notin gone
    BY <2>1 DEF IInv, Kinds
  <2> QED BY <2>2 DEF IInv, EntryCovered
<1> QED BY <1>1, ExitInvariantCorrect, PTL

\* ForeignOrdersKept: a replacement cancels the orders it knows as the trader's
\* own and raises at the first of the others, so an order placed by hand goes
\* only with the position.
THEOREM ForeignOrdersCorrect == Spec => ForeignOrdersKept
<1>1. IInv /\ [Next]_vars => [held' => gone' \cap foreign = gone \cap foreign]_vars
  <2> SUFFICES ASSUME IInv, Next, held'
               PROVE  gone' \cap foreign = gone \cap foreign
    OBVIOUS
  <2>1. foreign \cap (tp_order_id \cup stops) = {}
    BY DEF IInv, Kinds, KnownStops
  <2>2. CASE CancelOwnTakeProfits
    BY <2>1, <2>2 DEF CancelOwnTakeProfits, StaleStops, Unmanaged
  <2>3. CASE FindUnmanaged
    BY <2>1, <2>3 DEF FindUnmanaged
  <2>4. CASE CancelOldStop
    BY <2>1, <2>4 DEF CancelOldStop, CancelStops
  <2>5. CASE SettleFlat \/ MarketExit
    BY <2>5 DEF SettleFlat, MarketExit
  <2>6. CASE gone' = gone
    BY <2>6
  <2> QED BY <2>2, <2>3, <2>4, <2>5, <2>6, GoneOnlyByCancels
<1> QED BY <1>1, ExitInvariantCorrect, PTL DEF Spec, ForeignOrdersKept

\* CoverNeverCancelled: the new stop is placed before the old one is cancelled,
\* and the stale stop of a degraded plan is never the one of the entry.
THEOREM CoverCorrect == Spec => CoverNeverCancelled
<1>1. IInv /\ [Next]_vars =>
        [(held /\ held' /\ cover # {} /\ cover' = {}) => gone' = gone]_vars
  <2> SUFFICES ASSUME IInv, Next, held, held', cover # {}, cover' = {}
               PROVE  gone' = gone
    OBVIOUS
  <2>1. CASE CancelOwnTakeProfits
    <3>1. worker'.pc = "place"
      BY <2>1 DEF CancelOwnTakeProfits, IInv, TypeOK, WorkerState
    <3>2. EntryCovered'
      BY EntryCoveredStep DEF IInv
    <3> QED BY <3>1, <3>2 DEF EntryCovered
  <2>2. CASE FindUnmanaged
    BY <2>2 DEF FindUnmanaged
  <2>3. CASE CancelOldStop
    <3>1. EntryStop \in cover /\ worker.pc = "cancel_old"
      BY <2>3 DEF CancelOldStop, IInv, EntryCovered
    <3>2. EntryStop # NONE
      BY <3>1 DEF IInv, Numbered, Placed, TypeOK, NONE
    <3>3. EntryStop # worker.old
      BY <3>1, <3>2 DEF EntryStop, IInv, Steps, Apart, RunnerStops, TypeOK, WorkerState, Commands
    <3>4. cover \ {worker.old} \subseteq cover'
      BY <2>3 DEF CancelOldStop, CancelStops
    <3> QED BY <3>1, <3>3, <3>4
  <2>4. CASE SettleFlat \/ MarketExit
    BY <2>4 DEF SettleFlat, MarketExit
  <2>5. CASE gone' = gone
    BY <2>5
  <2> QED BY <2>1, <2>2, <2>3, <2>4, <2>5, GoneOnlyByCancels
<1> QED BY <1>1, ExitInvariantCorrect, PTL DEF Spec, CoverNeverCancelled
=============================================================================
