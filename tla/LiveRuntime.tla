---------------------------- MODULE LiveRuntime ----------------------------
(***************************************************************************)
(* The live trading runtime: the strategy tick worker, the execution       *)
(* worker and the account sync worker, three asyncio tasks that share the  *)
(* execution state, the strategy state, the live state file and one        *)
(* position on the exchange.                                               *)
(*                                                                         *)
(* Grain of the actions.  The tasks run on one event loop and no section   *)
(* under state_lock awaits, so the lock is never contended and control     *)
(* changes hands only at an await on the network, a queue, a timer or an   *)
(* e-mail.  Each action is the code between two such awaits.               *)
(***************************************************************************)
EXTENDS Naturals, Sequences, HaltModes

CONSTANTS
  Sides,                    \* position sides (LONG, SHORT)
  NONE,                     \* Python's None for a side, and a flat position
  EXECUTION_QUEUE_MAXSIZE,  \* capacity of the execution queue
  GuardActions,             \* actions the rolling-loss guard may decide on
  ManualTrading,            \* may the account's owner trade by hand?
  LateFills,                \* may an order that raised be filled later?
  SplitMiddleBucket,        \* is the first take profit split in two legs?
  MaxPositions,             \* bound: position ids handed to new entries
  MaxRestarts               \* bound: crashes

ASSUME ConstantsAssumption ==
  /\ NONE \notin Sides
  /\ NONE \notin Intents
  /\ EXECUTION_QUEUE_MAXSIZE \in Nat \ {0}
  /\ GuardActions \subseteq {"WARN", "SOFT_HALT", "HARD_HALT"}
  /\ ManualTrading \in BOOLEAN /\ LateFills \in BOOLEAN /\ SplitMiddleBucket \in BOOLEAN
  /\ MaxPositions \in Nat /\ MaxRestarts \in Nat

VARIABLES
  position,             \* the exchange: NONE or the side held
  late_order,           \* the exchange: side of an order still to be filled
  trading_halted,       \* ExecutionState.trading_halted
  halt_reason,          \* ExecutionState.halt_reason
  current_position_id,  \* ExecutionState.current_position_id, NO_ID for None
  pending_order_count,  \* ExecutionState.pending_order_count
  state,                \* strategy.state: tracked side and delayed exit
  position_contracts,   \* trader.position_contracts > 0
  queue,                \* the execution queue
  worker,               \* the execution worker
  sync,                 \* the account sync worker
  guard,                \* RollingLossGuard.state, saved at every change
  disk,                 \* the live state file
  next_id,              \* ids the journal has handed out
  restarts,             \* crashes so far
  exits                 \* history: exit orders sent for the armed exit

exchange == <<position, late_order>>
execution_state == <<trading_halted, halt_reason, current_position_id>>
history == <<next_id, restarts, exits>>
vars == <<position, late_order, trading_halted, halt_reason, current_position_id,
          pending_order_count, state, position_contracts, queue, worker, sync,
          guard, disk, next_id, restarts, exits>>

-----------------------------------------------------------------------------
(* Data.                                                                   *)

NO_ID == 0
MaybeSide == Sides \cup {NONE}

DmeStatuses == {"CLEARED", "ARMED", "WAITING_FLAT", "FAILED"}

\* StrategyPositionState: `side' is NONE iff layers = 0; `dme' is CLEARED iff
\* the exit is not armed; `due' says that the deadline has passed, `fills'
\* counts the legs of the first take profit that have asked for their stop.
StrategyPositionState ==
  [side : MaybeSide, dme : DmeStatuses, reason : DmeArmReasons \cup {NO_REASON},
   dme_side : MaybeSide, due : BOOLEAN, fills : 0..2]

\* Bug: a position is restored without its side.
NewState_sideless(side) ==
  [side |-> NONE, dme |-> "CLEARED", reason |-> NO_REASON, dme_side |-> NONE,
   due |-> FALSE, fills |-> 0]

NewState(side) ==
  [side |-> side, dme |-> "CLEARED", reason |-> NO_REASON, dme_side |-> NONE,
   due |-> FALSE, fills |-> 0]

\* TradeCommand: the intent and the strategy state before its tick.
TradeCommand == [intent : Intents, side : Sides, snapshot : StrategyPositionState]

WorkerSteps == {"idle", "cash", "submit", "protect", "exited", "alert",
                "fetch", "failed", "mail"}
SyncSteps == {"sleep", "core", "cleared", "exit", "exited", "exit_failed", "stops", "alert",
              "settle", "notify"}

\* What the execution worker is doing; it holds a command unless it is idle.
ExecutionWorkerState ==
  {w \in [pc : WorkerSteps, cmd : TradeCommand \cup {NONE}, id : Nat,
          filled : BOOLEAN, ok : BOOLEAN, live : BOOLEAN] :
     w.pc # "idle" => w.cmd \in TradeCommand}

\* The same for the account sync worker: the position it fetched, the id of the
\* position it settles and the state it saves at the end of its cycle.
FileContents == [side : MaybeSide, id : Nat]
AccountSyncState == [pc : SyncSteps, pos : MaybeSide, id : Nat, save : FileContents]

\* RollingLossGuard.state: the active halt, whether its hours are over, the
\* actions already triggered in this drawdown and the last flat evaluated.
Actions == {"WARN", "SOFT_HALT", "HARD_HALT"}
RollingLossState ==
  [halt : ROLLING_LOSS_HALT_REASONS \cup {NO_REASON}, expired : BOOLEAN,
   triggered : SUBSET Actions, last : Nat]

NoFile == [side |-> NONE, id |-> NO_ID]
Saved(id, s) == [side |-> s.side, id |-> id]

Armed == state.dme # "CLEARED"
UpdateIntents == {"UPDATE_TP", "UPDATE_TREND_SL"}

\* halt_until_ts_ms has passed and no position is open.
should_resume(pos) == guard.halt # NO_REASON /\ guard.expired /\ pos = NONE

\* Bug: arming starts from a fresh state, which asks for its stop again.
AfterArm_fresh(s, side, reason) ==
  [NewState(s.side) EXCEPT !.dme = "ARMED", !.reason = reason, !.dme_side = side]

AfterArm(s, side, reason) ==
  [s EXCEPT !.dme = "ARMED", !.reason = reason, !.dme_side = side, !.due = FALSE]

\* Bug: a failed exit is not recorded, the exit stays armed and due.
AfterMark_failure_forgotten(s, status) ==
  IF s.dme = "CLEARED" \/ status = "FAILED" THEN s ELSE [s EXCEPT !.dme = status]

\* Marking a state whose exit is no longer armed leaves it not armed.
AfterMark(s, status) == IF s.dme = "CLEARED" THEN s ELSE [s EXCEPT !.dme = status]

arm_delayed_market_exit(side, reason) ==
  /\ state' = AfterArm(state, side, reason)
  /\ trading_halted' = TRUE
  /\ halt_reason' = reason
  /\ exits' = 0

\* What a market order for `side' may leave of the position.
FilledPositions(side) ==
  IF position \in {NONE, side} THEN {side} ELSE {position, NONE, side}

-----------------------------------------------------------------------------
IdleWorker == [pc |-> "idle", cmd |-> NONE, id |-> NO_ID, filled |-> FALSE,
               ok |-> FALSE, live |-> FALSE]
SleepingSync == [pc |-> "sleep", pos |-> NONE, id |-> NO_ID,
                 save |-> NoFile]

Init ==
  /\ position = NONE
  /\ late_order = NONE
  /\ trading_halted = FALSE
  /\ halt_reason = NO_REASON
  /\ current_position_id = NO_ID
  /\ pending_order_count = 0
  /\ state = NewState(NONE)
  /\ position_contracts = FALSE
  /\ queue = <<>>
  /\ worker = IdleWorker
  /\ sync = SleepingSync
  /\ guard = [halt |-> NO_REASON, expired |-> FALSE, triggered |-> {}, last |-> NO_ID]
  /\ disk = NoFile
  /\ next_id = 0
  /\ restarts = 0
  /\ exits = 0

-----------------------------------------------------------------------------
(* The strategy tick worker.  A tick is handled without an await.          *)

\* What on_tick returns: at most one management intent, then at most one
\* entry or exit.  It opens only when no side is tracked.
on_tick(side) ==
  IF side = NONE
    THEN {<<NONE, "OPEN">>}
    ELSE {<<NONE, "ADD">>, <<"UPDATE_TP", NONE>>, <<"UPDATE_TREND_SL", NONE>>,
          <<NONE, "MARKET_EXIT_RUNNER">>, <<"UPDATE_TP", "MARKET_EXIT_RUNNER">>,
          <<"UPDATE_TP", "ADD">>}

\* Bug: position management passes every halt.
Allowed_management(intent) == ~trading_halted \/ intent \in POSITION_MANAGEMENT_INTENTS

Allowed(intent) ==
  \/ ~trading_halted
  \/ intent \in allowed_intents_for_halt_mode(resolve_halt_mode(halt_reason))

\* Bug: the state to roll back to is copied after the tick has changed it.
Command_late_snapshot(intent, side) ==
  IF intent # NONE /\ Allowed(intent)
    THEN <<[intent |-> intent, side |-> side, snapshot |-> [state EXCEPT !.side = side]]>>
    ELSE <<>>

\* The command made of one intent, if there is one and the halt lets it pass.
Command(intent, side) ==
  IF intent # NONE /\ Allowed(intent)
    THEN <<[intent |-> intent, side |-> side, snapshot |-> state]>>
    ELSE <<>>

\* Ticks are skipped while a command is pending and under a full halt.
TickRuns ==
  /\ pending_order_count = 0
  /\ trading_halted => resolve_halt_mode(halt_reason) # FULL_HALT

\* Opening marks the side as tracked before the order is even queued, and the
\* filter that drops the intent under an entry halt leaves the mark in place.
Tick(side) ==
  /\ TickRuns
  /\ state.side \in {NONE, side}
  /\ \E intents \in on_tick(state.side) :
       /\ intents[2] \in ENTRY_INTENTS => next_id < MaxPositions
       /\ LET commands == Command(intents[1], side) \o Command(intents[2], side)
              room == EXECUTION_QUEUE_MAXSIZE - Len(queue)
          IN \/ /\ Len(commands) <= room
                /\ queue' = queue \o commands
                /\ pending_order_count' = pending_order_count + Len(commands)
                /\ state' = [state EXCEPT !.side = side]
                /\ UNCHANGED trading_halted
             \/ /\ Len(commands) > room
                /\ queue' = queue \o SubSeq(commands, 1, room)
                /\ pending_order_count' = pending_order_count + room
                /\ trading_halted' = TRUE
                /\ UNCHANGED state
  /\ UNCHANGED <<exchange, halt_reason, current_position_id, position_contracts,
                 worker, sync, guard, disk, history>>

\* enqueue_strategy_tick finds the tick queue full.
StrategyTickQueueFull ==
  /\ ~trading_halted
  /\ trading_halted' = TRUE
  /\ UNCHANGED <<exchange, halt_reason, current_position_id, pending_order_count,
                 state, position_contracts, queue, worker, sync, guard, disk, history>>

-----------------------------------------------------------------------------
(* The execution worker.                                                   *)

Cmd == worker.cmd

\* Bug: the flag is cleared instead of counted down.
CommandDone_clears ==
  /\ worker' = IdleWorker
  /\ pending_order_count' = 0

\* Bug: a way out of the loop without the finally clause.
CommandDone_forgets ==
  /\ worker' = IdleWorker
  /\ UNCHANGED pending_order_count

\* The finally clause of the worker's loop.
CommandDone ==
  /\ worker' = IdleWorker
  /\ pending_order_count' = IF pending_order_count > 0 THEN pending_order_count - 1 ELSE 0

TakeCommand ==
  /\ worker.pc = "idle"
  /\ queue # <<>>
  /\ queue' = Tail(queue)
  /\ LET cmd == Head(queue)
         cash == cmd.intent \notin UpdateIntents /\ current_position_id = NO_ID
     IN \/ /\ ~Allowed(cmd.intent)
           /\ CommandDone
        \/ /\ Allowed(cmd.intent)
           /\ worker' = [IdleWorker EXCEPT !.pc = IF cash THEN "cash" ELSE "submit",
                                           !.cmd = cmd, !.id = current_position_id]
           /\ UNCHANGED pending_order_count
  /\ UNCHANGED <<exchange, execution_state, state, position_contracts, sync,
                 guard, disk, history>>

EntryCashFetched ==
  /\ worker.pc = "cash"
  /\ worker' = [worker EXCEPT !.pc = "submit"]
  /\ UNCHANGED <<exchange, execution_state, pending_order_count, state,
                 position_contracts, queue, sync, guard, disk, history>>

\* UPDATE_TP refreshes the trader's contracts unless its fetch fails: with the
\* position just seen, or with the core contracts the intent carries.
ContractsAfterUpdate ==
  IF Cmd.intent = "UPDATE_TP" THEN {position_contracts, position = Cmd.side, TRUE}
                              ELSE {position_contracts}

\* An await of process() raises: the failure handler refetches the position.
CommandRaises ==
  /\ worker.pc \in {"cash", "submit", "exited"}
  /\ worker' = [worker EXCEPT !.pc = "fetch"]
  /\ position_contracts' \in ContractsAfterUpdate
  /\ UNCHANGED <<exchange, execution_state, pending_order_count, state, queue,
                 sync, guard, disk, history>>

\* execute_intent, market order of an entry: it fills and the trader goes on to
\* the protective stop and the take profit ...
EntryFills ==
  /\ worker.pc = "submit" /\ Cmd.intent \in ENTRY_INTENTS
  /\ position' \in FilledPositions(Cmd.side)
  /\ position_contracts' = TRUE
  /\ worker' = [worker EXCEPT !.pc = "protect"]
  /\ UNCHANGED <<late_order, execution_state, pending_order_count, state, queue,
                 sync, guard, disk, history>>

\* ... or the call raises although the order fills, at once or later.
EntryFillsUnseen ==
  /\ worker.pc = "submit" /\ Cmd.intent \in ENTRY_INTENTS
  /\ \/ position' \in FilledPositions(Cmd.side) /\ UNCHANGED late_order
     \/ LateFills /\ late_order = NONE /\ late_order' = Cmd.side /\ UNCHANGED position
  /\ worker' = [worker EXCEPT !.pc = "fetch"]
  /\ UNCHANGED <<execution_state, pending_order_count, state, position_contracts,
                 queue, sync, guard, disk, history>>

\* Stop and take profit are placed: _apply_entry_result names the position.
EntryProtected ==
  /\ worker.pc = "protect"
  /\ current_position_id' = IF current_position_id = NO_ID THEN next_id + 1
                                                           ELSE current_position_id
  /\ next_id' = IF current_position_id = NO_ID THEN next_id + 1 ELSE next_id
  /\ disk' = Saved(current_position_id', state)
  /\ CommandDone
  /\ UNCHANGED <<exchange, trading_halted, halt_reason, state, position_contracts,
                 queue, sync, guard, restarts, exits>>

\* Stop or take profit fails after the fill: the delayed exit is armed.
EntryUnprotected ==
  /\ worker.pc = "protect"
  /\ arm_delayed_market_exit(Cmd.side, "core_tp_place_failed_dme_armed")
  /\ disk' = Saved(worker.id, state)
  /\ worker' = [worker EXCEPT !.pc = "alert", !.filled = TRUE]
  /\ UNCHANGED <<exchange, current_position_id, pending_order_count,
                 position_contracts, queue, sync, guard, next_id, restarts>>

\* _apply_update_tp_result and _apply_update_trend_sl_result.
UpdateSucceeds ==
  /\ worker.pc = "submit" /\ Cmd.intent \in UpdateIntents
  /\ \/ Cmd.intent = "UPDATE_TP" /\ position = Cmd.side /\ position_contracts' = TRUE
     \/ /\ Cmd.intent = "UPDATE_TREND_SL"
        /\ position # NONE \/ position_contracts
        /\ UNCHANGED position_contracts
  /\ disk' = Saved(current_position_id, state)
  /\ CommandDone
  /\ UNCHANGED <<exchange, execution_state, state, queue, sync, guard, history>>

\* Bug: the trend stop's failure is reported as the runner's exit.
ArmReason_mixed_up(intent) ==
  IF intent = "UPDATE_TP" THEN "core_tp_place_failed_dme_armed"
                          ELSE "trend_runner_market_exit_waiting_flat"

ArmReason(intent) ==
  IF intent = "UPDATE_TP" THEN "core_tp_place_failed_dme_armed"
                          ELSE "trend_sl_update_failed_dme_armed"

\* Bug: a failure with no live position lifts the halt and keeps the state.
FailureHandled_lifts_halt(live, contracts) ==
  /\ trading_halted' = live
  /\ halt_reason' = IF live THEN "execution_failure_live_position" ELSE NO_REASON
  /\ position_contracts' = contracts
  /\ worker' = [worker EXCEPT !.pc = "mail"]
  /\ UNCHANGED state

\* handle_execution_failure once the position is known: the runtime halts over
\* a live position, or rolls the strategy back to before the command's tick.
FailureHandled(live, contracts) ==
  /\ \/ /\ live
        /\ trading_halted' = TRUE
        /\ halt_reason' = "execution_failure_live_position"
        /\ UNCHANGED state
     \/ /\ ~live
        /\ state' = Cmd.snapshot
        /\ UNCHANGED <<trading_halted, halt_reason>>
  /\ position_contracts' = contracts
  /\ worker' = [worker EXCEPT !.pc = "mail"]

\* A failed update arms the delayed exit.  It would not if the exit were armed
\* for the same reason, but an armed exit halts the runtime and TakeCommand drops
\* what comes next: that case never comes (NoCommandStartsUnderArmedExit).
UpdateFails ==
  /\ worker.pc = "submit" /\ Cmd.intent \in UpdateIntents
  /\ arm_delayed_market_exit(Cmd.side, ArmReason(Cmd.intent))
  /\ position_contracts' \in ContractsAfterUpdate
  /\ disk' = Saved(worker.id, state)
  /\ worker' = [worker EXCEPT !.pc = "alert"]
  /\ UNCHANGED <<exchange, current_position_id, pending_order_count, queue, sync,
                 guard, next_id, restarts>>

\* market_exit_remaining_position_with_retries: nothing is left of the side, or
\* it could not be closed; it may also close it and fail to see so.
MarketExit(side, ok) ==
  /\ \/ position = side /\ ~ok /\ UNCHANGED position
     \/ position' = IF position = side THEN NONE ELSE position
  /\ position_contracts' \in IF ok THEN {FALSE} ELSE {position_contracts, position' = side}

RunnerExits ==
  /\ worker.pc = "submit" /\ Cmd.intent = "MARKET_EXIT_RUNNER"
  /\ \E ok \in BOOLEAN :
       /\ MarketExit(Cmd.side, ok)
       /\ worker' = [worker EXCEPT !.pc = "exited", !.ok = ok]
  /\ UNCHANGED <<late_order, execution_state, pending_order_count, state, queue,
                 sync, guard, disk, history>>

\* _apply_market_exit_runner_result.
RunnerExitApplied ==
  /\ worker.pc = "exited" /\ worker.ok
  /\ trading_halted' = TRUE
  /\ halt_reason' = "trend_runner_market_exit_waiting_flat"
  /\ position_contracts' = (position = Cmd.side)
  /\ disk' = Saved(current_position_id, state)
  /\ CommandDone
  /\ UNCHANGED <<exchange, current_position_id, state, queue, sync, guard, history>>

RunnerExitFails ==
  /\ worker.pc = "exited" /\ ~worker.ok
  /\ position_contracts' = (position = Cmd.side)
  /\ worker' = [worker EXCEPT !.pc = "fetch", !.filled = TRUE]
  /\ UNCHANGED <<exchange, execution_state, pending_order_count, state, queue,
                 sync, guard, disk, history>>

\* After the alert, a failed update is handled with the contracts the trader
\* remembers, a failed entry with a position fetched anew.
UpdateFailureAlerted ==
  /\ worker.pc = "alert" /\ Cmd.intent \in UpdateIntents
  /\ FailureHandled(position_contracts, position_contracts)
  /\ UNCHANGED <<exchange, current_position_id, pending_order_count, queue, sync,
                 guard, disk, history>>

EntryFailureAlerted ==
  /\ worker.pc = "alert" /\ Cmd.intent \in ENTRY_INTENTS
  /\ worker' = [worker EXCEPT !.pc = "fetch"]
  /\ UNCHANGED <<exchange, execution_state, pending_order_count, state,
                 position_contracts, queue, sync, guard, disk, history>>

\* The handler's fetch, which falls back to the trader's memory if it raises.
FailureFetched ==
  /\ worker.pc = "fetch"
  /\ \E live \in {position # NONE, position_contracts} :
       worker' = [worker EXCEPT !.pc = "failed", !.live = live]
  /\ UNCHANGED <<exchange, execution_state, pending_order_count, state,
                 position_contracts, queue, sync, guard, disk, history>>

FailureApplied ==
  /\ worker.pc = "failed"
  /\ LET live == worker.filled \/ worker.live
     IN FailureHandled(live, IF live THEN worker.live ELSE position_contracts)
  /\ UNCHANGED <<exchange, current_position_id, pending_order_count, queue, sync,
                 guard, disk, history>>

FailureMailed ==
  /\ worker.pc = "mail"
  /\ CommandDone
  /\ UNCHANGED <<exchange, execution_state, state, position_contracts, queue, sync,
                 guard, disk, history>>

-----------------------------------------------------------------------------
(* The account sync worker.                                                *)

\* The cycle's last fetch, the position; a failed fetch ends the cycle.
SyncFetch ==
  /\ sync.pc = "sleep"
  /\ sync' = [SleepingSync EXCEPT !.pc = "core", !.pos = position]
  /\ UNCHANGED <<exchange, execution_state, pending_order_count, state,
                 position_contracts, queue, worker, guard, disk, history>>

\* Bug: pending commands do not delay the settlement.
flat_transition_detected_while_pending == sync.pos = NONE /\ state.side # NONE

\* Bug: a halted runtime does not look for the flat.
flat_transition_detected_unless_halted ==
  ~trading_halted /\ pending_order_count = 0 /\ sync.pos = NONE /\ state.side # NONE

flat_transition_detected ==
  pending_order_count = 0 /\ sync.pos = NONE /\ state.side # NONE

\* Bug: trading goes on during the settlement.
SyncFlatDetected_unhalted ==
  /\ sync.pc = "core" /\ flat_transition_detected
  /\ sync' = [sync EXCEPT !.pc = "settle", !.id = current_position_id]
  /\ UNCHANGED <<exchange, execution_state, pending_order_count, state,
                 position_contracts, queue, worker, guard, disk, history>>

\* A tracked position is gone: trading stops until it is settled.
SyncFlatDetected ==
  /\ sync.pc = "core" /\ flat_transition_detected
  /\ trading_halted' = TRUE
  /\ sync' = [sync EXCEPT !.pc = "settle", !.id = current_position_id]
  /\ UNCHANGED <<exchange, halt_reason, current_position_id, pending_order_count,
                 state, position_contracts, queue, worker, guard, disk, history>>

\* Bug: the end of the rolling-loss halt lifts whatever halt there is.
RollingLossResume_any_reason ==
  IF trading_halted /\ should_resume(sync.pos)
    THEN /\ trading_halted' = FALSE
         /\ halt_reason' = NO_REASON
         /\ guard' = [guard EXCEPT !.halt = NO_REASON, !.expired = FALSE]
    ELSE UNCHANGED <<trading_halted, halt_reason, guard>>

\* The end of a cycle that saw no position: an elapsed rolling-loss halt ends.
RollingLossResume ==
  IF trading_halted /\ halt_reason \in ROLLING_LOSS_HALT_REASONS /\ should_resume(sync.pos)
    THEN /\ trading_halted' = FALSE
         /\ halt_reason' = NO_REASON
         /\ guard' = [guard EXCEPT !.halt = NO_REASON, !.expired = FALSE]
    ELSE UNCHANGED <<trading_halted, halt_reason, guard>>

SyncNothingHeld ==
  /\ sync.pc = "core" /\ sync.pos = NONE /\ ~flat_transition_detected
  /\ RollingLossResume
  /\ sync' = SleepingSync
  /\ UNCHANGED <<exchange, current_position_id, pending_order_count, state,
                 position_contracts, queue, worker, disk, history>>

\* TP progress: an untracked position is adopted as a new single-layer one.
\* The state is saved at the end of the cycle, after the protective stop that the
\* fill of the first take profit asks for, once; split in two legs, the fast leg
\* and the completed bucket ask, or the completed bucket alone.  Commands may be
\* in flight meanwhile, but not the opening entry: its order fills at once, and
\* the take profit that could reduce the position is its last step.
Legs == IF SplitMiddleBucket THEN 2 ELSE 1
OpeningInFlight == worker.pc # "idle" /\ Cmd.intent = "OPEN"

\* Bug: a position the strategy does not know of is left alone.
AdoptedState_ignored == state

AdoptedState == IF state.side = sync.pos THEN state ELSE NewState(sync.pos)

TpProgress ==
  /\ \/ /\ state' = AdoptedState
        /\ disk' = Saved(current_position_id, AdoptedState)
        /\ sync' = SleepingSync
     \/ /\ ~OpeningInFlight
        /\ \E n \in AdoptedState.fills + 1 .. Legs : state' = [AdoptedState EXCEPT !.fills = n]
        /\ sync' = [sync EXCEPT !.pc = "stops",
                                !.save = Saved(current_position_id, AdoptedState)]
        /\ UNCHANGED disk
  /\ position_contracts' = TRUE

SyncHeld ==
  /\ sync.pc = "core" /\ sync.pos # NONE
  /\ \/ ~Armed
     \/ state.dme = "ARMED" /\ state.dme_side = sync.pos /\ ~state.due
  /\ TpProgress
  /\ UNCHANGED <<exchange, execution_state, pending_order_count, queue, worker,
                 guard, history>>

clear_delayed_market_exit(s) ==
  [s EXCEPT !.dme = "CLEARED", !.reason = NO_REASON, !.dme_side = NONE, !.due = FALSE]

\* Delayed market exit: the armed side is gone.
DmeSideGone ==
  /\ sync.pc = "core" /\ sync.pos # NONE
  /\ Armed /\ state.dme_side # sync.pos
  /\ state' = clear_delayed_market_exit(state)
  /\ IF halt_reason \in dme_clearable_halt_reasons
       THEN trading_halted' = FALSE /\ halt_reason' = NO_REASON
       ELSE UNCHANGED <<trading_halted, halt_reason>>
  /\ disk' = Saved(current_position_id, state)
  /\ sync' = [sync EXCEPT !.pc = "cleared"]
  /\ UNCHANGED <<exchange, current_position_id, pending_order_count,
                 position_contracts, queue, worker, guard, history>>

DmeSideGoneMailed ==
  /\ sync.pc = "cleared"
  /\ TpProgress
  /\ UNCHANGED <<exchange, execution_state, pending_order_count, queue, worker,
                 guard, history>>

\* An exit already ordered is not ordered again; the cycle ends here.
DmeTerminal ==
  /\ sync.pc = "core" /\ sync.pos # NONE
  /\ state.dme \in {"WAITING_FLAT", "FAILED"} /\ state.dme_side = sync.pos
  /\ sync' = SleepingSync
  /\ UNCHANGED <<exchange, execution_state, pending_order_count, state,
                 position_contracts, queue, worker, guard, disk, history>>

\* Bug: the exit does not wait for the countdown.
DmeDue_at_once ==
  /\ sync.pc = "core" /\ sync.pos # NONE
  /\ state.dme = "ARMED" /\ state.dme_side = sync.pos
  /\ sync' = [sync EXCEPT !.pc = "exit"]
  /\ UNCHANGED <<exchange, execution_state, pending_order_count, state,
                 position_contracts, queue, worker, guard, disk, history>>

DmeDue ==
  /\ sync.pc = "core" /\ sync.pos # NONE
  /\ state.dme = "ARMED" /\ state.dme_side = sync.pos /\ state.due
  /\ sync' = [sync EXCEPT !.pc = "exit"]
  /\ UNCHANGED <<exchange, execution_state, pending_order_count, state,
                 position_contracts, queue, worker, guard, disk, history>>

DmeExits(ok) ==
  /\ sync.pc = "exit"
  /\ MarketExit(sync.pos, ok)
  /\ exits' = exits + 1
  /\ sync' = [sync EXCEPT !.pc = IF ok THEN "exited" ELSE "exit_failed"]
  /\ UNCHANGED <<late_order, execution_state, pending_order_count, state, queue,
                 worker, guard, disk, next_id, restarts>>

DmeMarked(pc, status, reason) ==
  /\ sync.pc = pc
  /\ state' = AfterMark(state, status)
  /\ trading_halted' = TRUE
  /\ halt_reason' = reason
  /\ disk' = Saved(current_position_id, state)
  /\ sync' = SleepingSync
  /\ UNCHANGED <<exchange, current_position_id, pending_order_count,
                 position_contracts, queue, worker, guard, history>>

DmeExitMarked == DmeMarked("exited", "WAITING_FLAT", "order_failure_dme_waiting_flat")
DmeExitFailed == DmeMarked("exit_failed", "FAILED", "order_failure_dme_failed")

\* Protective stops: placed or kept, or the delayed exit is armed.
StopsPlaced ==
  /\ sync.pc = "stops"
  /\ disk' = Saved(current_position_id, state)
  /\ sync' = SleepingSync
  /\ UNCHANGED <<exchange, execution_state, pending_order_count, state,
                 position_contracts, queue, worker, guard, history>>

StopsFail ==
  /\ sync.pc = "stops"
  /\ arm_delayed_market_exit(sync.pos, "protective_sl_failed_dme_armed")
  /\ disk' = Saved(current_position_id, state)
  /\ sync' = [sync EXCEPT !.pc = "alert"]
  /\ UNCHANGED <<exchange, current_position_id, pending_order_count,
                 position_contracts, queue, worker, guard, next_id, restarts>>

\* The save at the end of the cycle writes what the cycle copied before.
StopsFailureAlerted ==
  /\ sync.pc = "alert"
  /\ disk' = sync.save
  /\ sync' = SleepingSync
  /\ UNCHANGED <<exchange, execution_state, pending_order_count, state,
                 position_contracts, queue, worker, guard, history>>

-----------------------------------------------------------------------------
(* Settlement of a flat position and the rolling-loss guard.               *)

HaltOf(action) == IF action = "HARD_HALT" THEN "rolling_loss_hard_halt"
                                          ELSE "rolling_loss_soft_halt"
Halting(action) == action \in {"SOFT_HALT", "HARD_HALT"}

\* A trigger also counts for the milder ones.
Triggers(action) ==
  CASE action = "WARN"      -> {"WARN"}
    [] action = "SOFT_HALT" -> {"WARN", "SOFT_HALT"}
    [] action = "HARD_HALT" -> {"WARN", "SOFT_HALT", "HARD_HALT"}

\* evaluate_after_flat: each action fires once per drawdown; NONE is no action,
\* after which the drawdown may be recovered.
evaluate_after_flat(id, action) ==
  \/ /\ id # NO_ID /\ id = guard.last
     /\ action = NONE
     /\ UNCHANGED guard
  \/ /\ id = NO_ID \/ id # guard.last
     /\ \/ /\ action = NONE
           /\ \E triggered \in {guard.triggered, {}} :
                guard' = [guard EXCEPT !.triggered = triggered, !.last = id]
        \/ /\ action \in GuardActions \ guard.triggered
           /\ guard' = [guard EXCEPT
                !.triggered = @ \cup Triggers(action),
                !.last = id,
                !.halt = IF Halting(action) THEN HaltOf(action) ELSE @,
                !.expired = IF Halting(action) THEN FALSE ELSE @]

\* Bug: the reset keeps the id of the position.
ResetPosition_keeps_id ==
  /\ state' = NewState(NONE)
  /\ position_contracts' = FALSE
  /\ UNCHANGED current_position_id

ResetPosition ==
  /\ state' = NewState(NONE)
  /\ position_contracts' = FALSE
  /\ current_position_id' = NO_ID

\* Balance settled and stops cancelled: everything about the position is reset,
\* the flat is recorded and the guard evaluated.  Only an action of the guard
\* is followed by an await, its e-mail.
SettleReset ==
  /\ sync.pc = "settle"
  /\ ResetPosition
  /\ \E action \in GuardActions \cup {NONE} :
       LET prev == IF trading_halted THEN halt_reason ELSE NO_REASON
           preserve == prev \notin flat_clearable_halt_reasons
           apply == Halting(action) /\ prev \in rolling_halt_applicable_after
       IN /\ evaluate_after_flat(sync.id, action)
          /\ trading_halted' = (preserve \/ apply)
          /\ halt_reason' = IF apply THEN HaltOf(action)
                            ELSE IF preserve THEN prev ELSE NO_REASON
          /\ IF action = NONE
               THEN disk' = NoFile /\ sync' = SleepingSync
               ELSE sync' = [sync EXCEPT !.pc = "notify"] /\ UNCHANGED disk
  /\ UNCHANGED <<exchange, pending_order_count, queue, worker, history>>

SettleFinish ==
  /\ sync.pc = "notify"
  /\ disk' = NoFile
  /\ RollingLossResume
  /\ sync' = SleepingSync
  /\ UNCHANGED <<exchange, current_position_id, pending_order_count, state,
                 position_contracts, queue, worker, history>>

-----------------------------------------------------------------------------
(* Time.                                                                   *)

\* The countdown is half an hour, a command takes seconds: the deadline of an
\* exit passes only after the command in flight when it was armed is done.
DeadlinePasses ==
  /\ state.dme = "ARMED" /\ ~state.due
  /\ pending_order_count = 0
  /\ state' = [state EXCEPT !.due = TRUE]
  /\ UNCHANGED <<exchange, execution_state, pending_order_count,
                 position_contracts, queue, worker, sync, guard, disk, history>>

HaltExpires ==
  /\ guard.halt # NO_REASON /\ ~guard.expired
  /\ guard' = [guard EXCEPT !.expired = TRUE]
  /\ UNCHANGED <<exchange, execution_state, pending_order_count, state,
                 position_contracts, queue, worker, sync, disk, history>>

-----------------------------------------------------------------------------
(* The exchange, its other users, and crashes.                             *)

RuntimeUnchanged ==
  UNCHANGED <<execution_state, pending_order_count, state, position_contracts,
              queue, worker, sync, guard, disk, history>>

\* A take profit or stop fills, or the owner closes the position.
PositionCloses ==
  /\ position # NONE
  /\ position' = NONE
  /\ UNCHANGED late_order
  /\ RuntimeUnchanged

ManualTrade ==
  /\ ManualTrading
  /\ position' \in Sides \ {position}
  /\ UNCHANGED late_order
  /\ RuntimeUnchanged

LateFill ==
  /\ late_order # NONE
  /\ position' \in FilledPositions(late_order)
  /\ late_order' = NONE
  /\ RuntimeUnchanged

\* Crash and startup.  Memory is lost; an order being sent may still fill.  The
\* saved state is trusted only if it is of the side held (and close in size).
Restart ==
  /\ restarts < MaxRestarts
  /\ restarts' = restarts + 1
  /\ queue' = <<>>
  /\ pending_order_count' = 0
  /\ worker' = IdleWorker
  /\ sync' = SleepingSync
  /\ state' = NewState(position)
  /\ position_contracts' = (position # NONE)
  /\ late_order' \in {late_order} \cup
       IF LateFills /\ worker.pc = "submit" /\ Cmd.intent \in ENTRY_INTENTS
         THEN {Cmd.side} ELSE {}
  /\ \/ /\ position = NONE
        /\ current_position_id' = NO_ID
        /\ UNCHANGED next_id
        /\ disk' = NoFile
     \/ /\ position # NONE /\ disk.side = position
        /\ current_position_id' = disk.id
        /\ UNCHANGED next_id
        /\ disk' = Saved(current_position_id', state')
     \/ /\ position # NONE   \* the journal offers a position it saw no close of
        /\ \E id \in 1..(next_id + 1) :
             /\ id # guard.last
             /\ current_position_id' = id
             /\ next_id' = IF id > next_id THEN id ELSE next_id
        /\ disk' = Saved(current_position_id', state')
  /\ LET halts == guard.halt # NO_REASON /\ ~guard.expired
     IN /\ trading_halted' = halts
        /\ halt_reason' = IF halts THEN guard.halt ELSE NO_REASON
  /\ guard' = IF should_resume(position)
                THEN [guard EXCEPT !.halt = NO_REASON, !.expired = FALSE] ELSE guard
  /\ UNCHANGED <<position, exits>>

-----------------------------------------------------------------------------
StrategyTickWorker == StrategyTickQueueFull \/ \E side \in Sides : Tick(side)

ExecutionWorker ==
  \/ TakeCommand \/ EntryCashFetched \/ CommandRaises
  \/ EntryFills \/ EntryFillsUnseen \/ EntryProtected \/ EntryUnprotected
  \/ UpdateSucceeds \/ UpdateFails
  \/ RunnerExits \/ RunnerExitApplied \/ RunnerExitFails
  \/ UpdateFailureAlerted \/ EntryFailureAlerted
  \/ FailureFetched \/ FailureApplied \/ FailureMailed

AccountSyncWorker ==
  \/ SyncFetch \/ SyncFlatDetected \/ SyncNothingHeld \/ SyncHeld
  \/ DmeSideGone \/ DmeSideGoneMailed \/ DmeTerminal \/ DmeDue
  \/ \E ok \in BOOLEAN : DmeExits(ok)
  \/ DmeExitMarked \/ DmeExitFailed
  \/ StopsPlaced \/ StopsFail \/ StopsFailureAlerted
  \/ SettleReset \/ SettleFinish

Time == DeadlinePasses \/ HaltExpires
Environment == PositionCloses \/ ManualTrade \/ LateFill \/ Restart

Next ==
  StrategyTickWorker \/ ExecutionWorker \/ AccountSyncWorker \/ Time \/ Environment

Spec == Init /\ [][Next]_vars

-----------------------------------------------------------------------------
(* Type correctness.                                                       *)

TypeOK ==
  /\ position \in MaybeSide
  /\ late_order \in MaybeSide
  /\ trading_halted \in BOOLEAN
  /\ halt_reason \in HaltReasons \cup {NO_REASON}
  /\ current_position_id \in Nat
  /\ pending_order_count \in Nat
  /\ state \in StrategyPositionState
  /\ position_contracts \in BOOLEAN
  /\ queue \in Seq(TradeCommand)
  /\ worker \in ExecutionWorkerState
  /\ sync \in AccountSyncState
  /\ guard \in RollingLossState
  /\ disk \in FileContents
  /\ next_id \in Nat
  /\ restarts \in Nat
  /\ exits \in Nat

-----------------------------------------------------------------------------
(* Safety.                                                                 *)

\* pending_order_count, the flag every worker trusts, is exactly the commands
\* queued or being processed: no failure path of the execution worker forgets
\* or repeats its decrement.
PendingIsOutstandingWork ==
  pending_order_count = Len(queue) + IF worker.pc = "idle" THEN 0 ELSE 1

\* While a flat position is being settled, trading is halted and no entry is
\* queued or in flight, so the reset of the strategy state cannot erase one.
SettlementNeverDropsEntry ==
  sync.pc = "settle" =>
    /\ trading_halted
    /\ worker.pc # "idle" => Cmd.intent \notin ENTRY_INTENTS
    /\ \A i \in 1..Len(queue) : queue[i].intent \notin ENTRY_INTENTS

\* While a delayed exit is armed, ordered or failed, nothing trades: every path
\* that lifts the halt or replaces its reason leaves a full halt or no exit.
ArmedMeansFullHalt ==
  Armed => trading_halted /\ resolve_halt_mode(halt_reason) = FULL_HALT

\* A position with an id is tracked by the strategy: no rollback, settlement or
\* restart leaves the id of a position the strategy knows nothing about.
NamedPositionIsTracked == current_position_id # NO_ID => state.side # NONE

\* Rule 8 of delayed_market_exit.py: one market exit per armed exit, whatever
\* the commands, failures and rollbacks between arming and marking.
AtMostOneExitPerArm == exits <= 1

\* No command is sent to the exchange under an armed exit, only overtaken by one
\* that the account sync arms.  A failed update therefore never finds an exit
\* armed for its own reason, whose countdown it would have to leave alone
\* (execution_command_processor.py:215).
NoCommandStartsUnderArmedExit ==
  worker.pc \in {"cash", "submit"} /\ Armed =>
    state.reason = "protective_sl_failed_dme_armed"

\* The workers implement the delayed exit's status machine: no exit before the
\* countdown, no second one, no re-arming of an exit already sent, and no
\* status that skips a step.
Exit == INSTANCE DelayedMarketExit
          WITH status <- state.dme, due <- state.due, exits <- exits
ImplementsDelayedMarketExit == Exit!Spec

-----------------------------------------------------------------------------
(* The inductive invariant: the safety properties with what they rest on.  *)

Outstanding ==
  {queue[i] : i \in 1..Len(queue)} \cup (IF worker.pc = "idle" THEN {} ELSE {Cmd})

\* A command can be rolled back at any time: the state it remembers has no
\* exit armed, and it tracks nothing only for an opening entry, which is alone
\* and issued while no position has an id.
RollbackIsSound ==
  \A c \in Outstanding :
    /\ c.snapshot.dme = "CLEARED"
    /\ c.intent = "OPEN" <=> c.snapshot.side = NONE
    /\ c.intent = "OPEN" => current_position_id = NO_ID /\ pending_order_count <= 1

\* An entry that may still fill has its side tracked.
EntriesAreTracked ==
  /\ worker.pc = "protect" => Cmd.intent \in ENTRY_INTENTS
  /\ worker.pc \notin {"idle", "mail"} /\ Cmd.intent \in ENTRY_INTENTS => state.side # NONE
  /\ \A i \in 1..Len(queue) : queue[i].intent \in ENTRY_INTENTS => state.side # NONE

\* An armed exit is unsent, except between its order and the mark that follows.
ArmedExitIsUnsent ==
  /\ state.dme = "ARMED" /\ sync.pc \notin {"exited", "exit_failed"} => exits = 0
  /\ sync.pc = "exit" => exits = 0

SyncPositionHeld == sync.pc = "cleared" => sync.pos # NONE

IInv ==
  /\ TypeOK
  /\ PendingIsOutstandingWork
  /\ SettlementNeverDropsEntry
  /\ ArmedMeansFullHalt
  /\ NamedPositionIsTracked
  /\ AtMostOneExitPerArm
  /\ NoCommandStartsUnderArmedExit
  /\ RollbackIsSound
  /\ EntriesAreTracked
  /\ ArmedExitIsUnsent
  /\ SyncPositionHeld

-----------------------------------------------------------------------------
(* What comments and configuration promise and the code does not keep.     *)

\* Rule 5 of delayed_market_exit.py, "Program restart must restore the countdown
\* state": an exit armed for the position held is still armed after a restart.
CountdownSurvivesRestart ==
  [][/\ state.dme = "ARMED" /\ position = state.dme_side
     /\ restarts' > restarts
     => state'.dme = "ARMED"]_vars

\* halt_modes.py and ROLLING_LOSS_SOFT_HALT_HOURS: a rolling-loss halt blocks new
\* entries until its hours are over.
RollingHaltHolds ==
  [][/\ trading_halted /\ halt_reason \in ROLLING_LOSS_HALT_REASONS
     /\ guard.halt # NO_REASON /\ ~guard.expired
     => trading_halted']_vars

-----------------------------------------------------------------------------
(* Liveness.  Each worker keeps running, because every await is a network   *)
(* call with a timeout, a timer or an e-mail; the countdown elapses.        *)

Fairness ==
  /\ WF_vars(ExecutionWorker)
  /\ WF_vars(AccountSyncWorker)
  /\ WF_vars(DeadlinePasses)

FairSpec == Spec /\ Fairness

\* Commands are never left pending: the flag that silences the strategy falls.
PendingDrains == pending_order_count > 0 ~> pending_order_count = 0

\* An exit armed for a position does not stay armed while the position is open:
\* it is sent and concluded, or cleared, once its countdown is over.
ArmedExitConcludes ==
  \A side \in Sides :
    state.dme = "ARMED" /\ state.dme_side = side /\ position = side ~>
      state.dme # "ARMED" \/ position # side

\* After a successful exit the runtime does not wait for the flat for ever: the
\* settlement finds the position gone.
WaitingFlatEnds == state.dme = "WAITING_FLAT" ~> state.dme = "CLEARED"

\* A live position is not forgotten: however the command that opened it failed,
\* was rolled back or was settled by mistake, the strategy tracks its side
\* until it closes.
LivePositionIsTracked ==
  \A side \in Sides :
    position = side ~> (state.side = side \/ position # side)
=============================================================================
