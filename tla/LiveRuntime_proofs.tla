------------------------- MODULE LiveRuntime_proofs -------------------------
(***************************************************************************)
(* The safety of LiveRuntime and its refinement of DelayedMarketExit, for  *)
(* any number of sides, any capacity of the execution queue and any number *)
(* of positions, crashes and manual trades.                                *)
(*                                                                         *)
(* The invariant is proved in three layers.  TypeInv is inductive alone:   *)
(* the room a tick finds in the queue needs PendingIsOutstandingWork and   *)
(* that needs the types.  The rest of IInv is inductive on top of it, and  *)
(* the parts lean on each other: a rollback is harmless because the state  *)
(* remembered had no exit armed, which holds because no tick runs while    *)
(* one is armed, which holds because an armed exit means a full halt.      *)
(* ExitInv adds what the refinement needs: an exit that is due is alone.   *)
(*                                                                         *)
(* First come the types, action by action: what the operators of the model *)
(* return, then for each action the variables it changes.                  *)
(***************************************************************************)
EXTENDS LiveRuntime, TLAPS, SequenceTheorems

-----------------------------------------------------------------------------
(* What the operators return.                                              *)

\* A new strategy state of a side is well typed.
LEMMA NewStateType ==
  ASSUME NEW side \in MaybeSide PROVE NewState(side) \in StrategyPositionState
  BY ConstantsAssumption DEF NewState, StrategyPositionState, MaybeSide, DmeStatuses

\* What is saved of a well-typed strategy state is a file.
LEMMA SavedType ==
  ASSUME NEW id \in Nat, NEW s \in StrategyPositionState PROVE Saved(id, s) \in FileContents
  BY DEF Saved, FileContents, StrategyPositionState

\* So is the empty file.
LEMMA NoFileType == NoFile \in FileContents
  BY DEF NoFile, FileContents, MaybeSide, NO_ID

\* A strategy state tracks a side or none.
LEMMA SideType ==
  ASSUME NEW s \in StrategyPositionState
  PROVE  s.side \in MaybeSide
  BY DEF StrategyPositionState

\* Asking for a stop keeps the strategy state well typed ...
LEMMA FillsType ==
  ASSUME NEW s \in StrategyPositionState, NEW n \in s.fills + 1 .. Legs
  PROVE  [s EXCEPT !.fills = n] \in StrategyPositionState
  BY DEF Legs, StrategyPositionState

\* ... and so does the end of the countdown ...
LEMMA DueType ==
  ASSUME NEW s \in StrategyPositionState, NEW b \in BOOLEAN
  PROVE  [s EXCEPT !.due = b] \in StrategyPositionState
  BY DEF StrategyPositionState

\* ... arming the delayed exit ...
LEMMA AfterArmType ==
  ASSUME NEW s \in StrategyPositionState, NEW side \in MaybeSide,
         NEW reason \in DmeArmReasons
  PROVE  AfterArm(s, side, reason) \in StrategyPositionState
  BY DEF StrategyPositionState, AfterArm, DmeStatuses

\* ... clearing it ...
LEMMA ClearedType ==
  ASSUME NEW s \in StrategyPositionState
  PROVE  clear_delayed_market_exit(s) \in StrategyPositionState
  BY DEF StrategyPositionState, clear_delayed_market_exit, DmeStatuses, MaybeSide

\* ... and marking what became of it.
LEMMA AfterMarkType ==
  ASSUME NEW s \in StrategyPositionState, NEW status \in DmeStatuses
  PROVE  AfterMark(s, status) \in StrategyPositionState
  BY DEF StrategyPositionState, AfterMark

\* A failed update arms the exit for one of the arming reasons.
LEMMA ArmReasonType ==
  ASSUME NEW intent
  PROVE  ArmReason(intent) \in DmeArmReasons
  BY DEF ArmReason, DmeArmReasons

\* Every reason the actions write is a halt reason.
LEMMA ReasonsType ==
   /\ DmeArmReasons \subseteq HaltReasons
   /\ "core_tp_place_failed_dme_armed" \in DmeArmReasons
   /\ "protective_sl_failed_dme_armed" \in DmeArmReasons
   /\ "execution_failure_live_position" \in HaltReasons
   /\ "trend_runner_market_exit_waiting_flat" \in HaltReasons
   /\ "order_failure_dme_failed" \in HaltReasons
   /\ "order_failure_dme_waiting_flat" \in HaltReasons
   /\ ROLLING_LOSS_HALT_REASONS \subseteq HaltReasons
   /\ "WAITING_FLAT" \in DmeStatuses /\ "FAILED" \in DmeStatuses
  BY DEF DmeArmReasons, HaltReasons, DmeExitReasons, DmeStatuses

\* The account sync worker between two cycles is well typed.
LEMMA SleepingSyncType == SleepingSync \in AccountSyncState
  BY NoFileType DEF SleepingSync, SyncSteps, MaybeSide, NO_ID, AccountSyncState

\* So is the idle execution worker.
LEMMA IdleWorkerType == IdleWorker \in ExecutionWorkerState
  BY DEF IdleWorker, WorkerSteps, NO_ID, ExecutionWorkerState

\* A busy execution worker holds a command.
LEMMA CommandType ==
  ASSUME TypeOK, worker.pc # "idle"
  PROVE  /\ Cmd \in TradeCommand /\ Cmd.intent \in Intents
         /\ Cmd.side \in Sides /\ Cmd.snapshot \in StrategyPositionState
  BY DEF TypeOK, ExecutionWorkerState, TradeCommand, Cmd

\* The position id a command was taken with is a number.
LEMMA WorkerIdType ==
  ASSUME TypeOK
  PROVE  worker.id \in Nat
  BY DEF TypeOK, ExecutionWorkerState

\* The account sync worker has fetched a side or none.
LEMMA SyncPosType ==
  ASSUME TypeOK
  PROVE  sync.pos \in MaybeSide
  BY DEF TypeOK, AccountSyncState

\* The position it settles has a number.
LEMMA SyncIdType ==
  ASSUME TypeOK
  PROVE  sync.id \in Nat
  BY DEF TypeOK, AccountSyncState

\* An adopted position makes a well-typed strategy state.
LEMMA AdoptedType ==
  ASSUME TypeOK
  PROVE  AdoptedState \in StrategyPositionState
  BY SyncPosType, NewStateType DEF TypeOK, AdoptedState

\* The guard's decisions become halt reasons.
LEMMA HaltOfType ==
  ASSUME NEW action
  PROVE  HaltOf(action) \in HaltReasons /\ Halting(action) \in BOOLEAN
  BY DEF HaltOf, Halting, HaltReasons, ROLLING_LOSS_HALT_REASONS

\* Taking a command leaves a queue of commands.
LEMMA TailType ==
  ASSUME TypeOK, queue # <<>>
  PROVE  Tail(queue) \in Seq(TradeCommand)
  BY HeadTailProperties DEF TypeOK

\* What is taken is a command.
LEMMA HeadType ==
  ASSUME TypeOK, queue # <<>>
  PROVE  Head(queue) \in TradeCommand
  BY HeadTailProperties DEF TypeOK

\* The empty queue is a queue of commands.
LEMMA EmptySeqType == <<>> \in Seq(TradeCommand)
  BY EmptySeq

\* The evaluation after a flat keeps the guard well typed, whatever it decides.
LEMMA EvaluateType ==
  ASSUME NEW id \in Nat, NEW action \in GuardActions \cup {NONE},
         guard \in RollingLossState, evaluate_after_flat(id, action)
  PROVE  guard' \in RollingLossState
<1>1. HaltOf(action) \in ROLLING_LOSS_HALT_REASONS
  BY DEF HaltOf, ROLLING_LOSS_HALT_REASONS
<1>2. CASE UNCHANGED guard
  BY <1>2
<1>3. CASE \E triggered \in {guard.triggered, {}} :
             guard' = [guard EXCEPT !.triggered = triggered, !.last = id]
  BY <1>3 DEF RollingLossState
<1>4. CASE /\ action \in GuardActions \ guard.triggered
           /\ guard' = [guard EXCEPT
                !.triggered = @ \cup Triggers(action),
                !.last = id,
                !.halt = IF Halting(action) THEN HaltOf(action) ELSE @,
                !.expired = IF Halting(action) THEN FALSE ELSE @]
  <2>1. action \in Actions
    BY <1>4, ConstantsAssumption DEF Actions
  <2>2. Triggers(action) \in SUBSET Actions
    BY <2>1 DEF Triggers, Actions
  <2> QED BY <1>1, <1>4, <2>2 DEF RollingLossState
<1> QED BY <1>2, <1>3, <1>4 DEF evaluate_after_flat

\* TP progress keeps all it writes well typed, with or without a stop to place.
LEMMA TpProgressType ==
  ASSUME TypeOK, TpProgress
  PROVE  /\ state' \in StrategyPositionState
         /\ disk' \in FileContents
         /\ sync' \in AccountSyncState
         /\ position_contracts' \in BOOLEAN
<1>1. AdoptedState \in StrategyPositionState
  BY AdoptedType
<1>2. Saved(current_position_id, AdoptedState) \in FileContents
  BY <1>1, SavedType DEF TypeOK
<1>3. state' \in StrategyPositionState
  BY <1>1, FillsType DEF TpProgress
<1>4. disk' \in FileContents
  BY <1>2 DEF TpProgress, TypeOK
<1>5. sync' \in AccountSyncState
  <2>1. sync \in AccountSyncState
    BY DEF TypeOK
  <2>2. [sync EXCEPT !.pc = "stops", !.save = Saved(current_position_id, AdoptedState)]
          \in AccountSyncState
    BY <1>2, <2>1 DEF AccountSyncState, SyncSteps
  <2> QED BY <2>2, SleepingSyncType DEF TpProgress
<1> QED BY <1>3, <1>4, <1>5 DEF TpProgress

-----------------------------------------------------------------------------
(* The execution worker.                                                   *)

\* TakeCommand keeps every variable in its type.
LEMMA TakeCommandType ==
  ASSUME TypeOK, TakeCommand PROVE TypeOK'
<1>1. queue' \in Seq(TradeCommand)
  BY TailType DEF TypeOK, TakeCommand
<1>2. worker' \in ExecutionWorkerState
  BY IdleWorkerType, HeadType DEF TypeOK, TakeCommand, ExecutionWorkerState, WorkerSteps,
     CommandDone, IdleWorker
<1>3. pending_order_count' \in Nat
  BY DEF TypeOK, TakeCommand, CommandDone
<1> QED
  BY <1>1, <1>2, <1>3 DEF TypeOK, TakeCommand, CommandDone, exchange, execution_state,
     history

\* EntryCashFetched keeps every variable in its type.
LEMMA EntryCashFetchedType ==
  ASSUME TypeOK, EntryCashFetched PROVE TypeOK'
<1>1. worker' \in ExecutionWorkerState
  BY DEF TypeOK, EntryCashFetched, ExecutionWorkerState, WorkerSteps
<1> QED
  BY <1>1 DEF TypeOK, EntryCashFetched, exchange, execution_state, history

\* CommandRaises keeps every variable in its type.
LEMMA CommandRaisesType ==
  ASSUME TypeOK, CommandRaises PROVE TypeOK'
<1>1. worker' \in ExecutionWorkerState
  BY DEF TypeOK, CommandRaises, ExecutionWorkerState, WorkerSteps
<1>2. position_contracts' \in BOOLEAN
  BY DEF TypeOK, CommandRaises, ContractsAfterUpdate
<1> QED
  BY <1>1, <1>2 DEF TypeOK, CommandRaises, exchange, execution_state, history

\* EntryFills keeps every variable in its type.
LEMMA EntryFillsType ==
  ASSUME TypeOK, EntryFills PROVE TypeOK'
<1>1. worker' \in ExecutionWorkerState
  BY DEF TypeOK, EntryFills, ExecutionWorkerState, WorkerSteps
<1>2. position' \in MaybeSide
  BY CommandType DEF TypeOK, EntryFills, FilledPositions, MaybeSide, Cmd
<1> QED
  BY <1>1, <1>2 DEF TypeOK, EntryFills, exchange, execution_state, history

\* EntryFillsUnseen keeps every variable in its type.
LEMMA EntryFillsUnseenType ==
  ASSUME TypeOK, EntryFillsUnseen PROVE TypeOK'
<1>1. worker' \in ExecutionWorkerState
  BY DEF TypeOK, EntryFillsUnseen, ExecutionWorkerState, WorkerSteps
<1>2. position' \in MaybeSide
  BY CommandType DEF TypeOK, EntryFillsUnseen, FilledPositions, MaybeSide, Cmd
<1>3. late_order' \in MaybeSide
  BY CommandType DEF TypeOK, EntryFillsUnseen, MaybeSide, Cmd
<1> QED
  BY <1>1, <1>2, <1>3 DEF TypeOK, EntryFillsUnseen, exchange, execution_state, history

\* EntryProtected keeps every variable in its type.
LEMMA EntryProtectedType ==
  ASSUME TypeOK, EntryProtected PROVE TypeOK'
<1>1. worker' \in ExecutionWorkerState
  BY IdleWorkerType DEF TypeOK, EntryProtected, CommandDone
<1>2. pending_order_count' \in Nat
  BY DEF TypeOK, EntryProtected, CommandDone
<1>3. current_position_id' \in Nat
  BY DEF TypeOK, EntryProtected
<1>4. next_id' \in Nat
  BY DEF TypeOK, EntryProtected
<1>5. disk' \in FileContents
  BY SavedType DEF TypeOK, EntryProtected
<1> QED
  BY <1>1, <1>2, <1>3, <1>4, <1>5 DEF TypeOK, EntryProtected, CommandDone, exchange,
     execution_state, history

\* EntryUnprotected keeps every variable in its type.
LEMMA EntryUnprotectedType ==
  ASSUME TypeOK, EntryUnprotected PROVE TypeOK'
<1>1. worker' \in ExecutionWorkerState
  BY DEF TypeOK, EntryUnprotected, ExecutionWorkerState, WorkerSteps
<1>2. state' \in StrategyPositionState
  BY CommandType, AfterArmType, ReasonsType DEF TypeOK, EntryUnprotected,
     arm_delayed_market_exit, MaybeSide, Cmd
<1>3. halt_reason' \in HaltReasons \cup {NO_REASON}
  BY ReasonsType DEF TypeOK, EntryUnprotected, arm_delayed_market_exit
<1>4. disk' \in FileContents
  BY SavedType, WorkerIdType DEF TypeOK, EntryUnprotected
<1> QED
  BY <1>1, <1>2, <1>3, <1>4 DEF TypeOK, EntryUnprotected, arm_delayed_market_exit,
     exchange, execution_state, history

\* UpdateSucceeds keeps every variable in its type.
LEMMA UpdateSucceedsType ==
  ASSUME TypeOK, UpdateSucceeds PROVE TypeOK'
<1>1. worker' \in ExecutionWorkerState
  BY IdleWorkerType DEF TypeOK, UpdateSucceeds, CommandDone
<1>2. pending_order_count' \in Nat
  BY DEF TypeOK, UpdateSucceeds, CommandDone
<1>3. position_contracts' \in BOOLEAN
  BY DEF TypeOK, UpdateSucceeds
<1>4. disk' \in FileContents
  BY SavedType DEF TypeOK, UpdateSucceeds
<1> QED
  BY <1>1, <1>2, <1>3, <1>4 DEF TypeOK, UpdateSucceeds, CommandDone, exchange,
     execution_state, history

\* UpdateFails keeps every variable in its type.
LEMMA UpdateFailsType ==
  ASSUME TypeOK, UpdateFails PROVE TypeOK'
<1>1. worker' \in ExecutionWorkerState
  BY DEF TypeOK, UpdateFails, ExecutionWorkerState, WorkerSteps
<1>2. state' \in StrategyPositionState
  BY CommandType, AfterArmType, ArmReasonType DEF TypeOK, UpdateFails,
     arm_delayed_market_exit, MaybeSide, Cmd
<1>3. halt_reason' \in HaltReasons \cup {NO_REASON}
  BY ReasonsType, ArmReasonType DEF TypeOK, UpdateFails, arm_delayed_market_exit
<1>4. position_contracts' \in BOOLEAN
  BY DEF TypeOK, UpdateFails, ContractsAfterUpdate
<1>5. disk' \in FileContents
  BY SavedType, WorkerIdType DEF TypeOK, UpdateFails
<1> QED
  BY <1>1, <1>2, <1>3, <1>4, <1>5 DEF TypeOK, UpdateFails, arm_delayed_market_exit,
     exchange, execution_state, history

\* RunnerExits keeps every variable in its type.
LEMMA RunnerExitsType ==
  ASSUME TypeOK, RunnerExits PROVE TypeOK'
<1>1. worker' \in ExecutionWorkerState
  BY DEF TypeOK, RunnerExits, ExecutionWorkerState, WorkerSteps
<1>2. position' \in MaybeSide
  BY DEF TypeOK, RunnerExits, MarketExit, MaybeSide
<1>3. position_contracts' \in BOOLEAN
  BY DEF TypeOK, RunnerExits, MarketExit
<1> QED
  BY <1>1, <1>2, <1>3 DEF TypeOK, RunnerExits, MarketExit, exchange, execution_state,
     history

\* RunnerExitApplied keeps every variable in its type.
LEMMA RunnerExitAppliedType ==
  ASSUME TypeOK, RunnerExitApplied PROVE TypeOK'
<1>1. worker' \in ExecutionWorkerState
  BY IdleWorkerType DEF TypeOK, RunnerExitApplied, CommandDone
<1>2. pending_order_count' \in Nat
  BY DEF TypeOK, RunnerExitApplied, CommandDone
<1>3. halt_reason' \in HaltReasons \cup {NO_REASON}
  BY ReasonsType DEF TypeOK, RunnerExitApplied
<1>4. disk' \in FileContents
  BY SavedType DEF TypeOK, RunnerExitApplied
<1> QED
  BY <1>1, <1>2, <1>3, <1>4 DEF TypeOK, RunnerExitApplied, CommandDone, exchange,
     execution_state, history

\* RunnerExitFails keeps every variable in its type.
LEMMA RunnerExitFailsType ==
  ASSUME TypeOK, RunnerExitFails PROVE TypeOK'
<1>1. worker' \in ExecutionWorkerState
  BY DEF TypeOK, RunnerExitFails, ExecutionWorkerState, WorkerSteps
<1> QED
  BY <1>1 DEF TypeOK, RunnerExitFails, exchange, execution_state, history

\* UpdateFailureAlerted keeps every variable in its type.
LEMMA UpdateFailureAlertedType ==
  ASSUME TypeOK, UpdateFailureAlerted PROVE TypeOK'
<1>1. worker' \in ExecutionWorkerState
  BY DEF TypeOK, UpdateFailureAlerted, FailureHandled, ExecutionWorkerState, WorkerSteps
<1>2. state' \in StrategyPositionState
  BY CommandType DEF TypeOK, UpdateFailureAlerted, FailureHandled, Cmd
<1>3. halt_reason' \in HaltReasons \cup {NO_REASON}
  BY ReasonsType DEF TypeOK, UpdateFailureAlerted, FailureHandled
<1>4. trading_halted' \in BOOLEAN
  BY DEF TypeOK, UpdateFailureAlerted, FailureHandled
<1>5. position_contracts' \in BOOLEAN
  BY DEF TypeOK, UpdateFailureAlerted, FailureHandled
<1> QED
  BY <1>1, <1>2, <1>3, <1>4, <1>5 DEF TypeOK, UpdateFailureAlerted, FailureHandled,
     exchange, execution_state, history

\* EntryFailureAlerted keeps every variable in its type.
LEMMA EntryFailureAlertedType ==
  ASSUME TypeOK, EntryFailureAlerted PROVE TypeOK'
<1>1. worker' \in ExecutionWorkerState
  BY DEF TypeOK, EntryFailureAlerted, ExecutionWorkerState, WorkerSteps
<1> QED
  BY <1>1 DEF TypeOK, EntryFailureAlerted, exchange, execution_state, history

\* FailureFetched keeps every variable in its type.
LEMMA FailureFetchedType ==
  ASSUME TypeOK, FailureFetched PROVE TypeOK'
<1>1. worker' \in ExecutionWorkerState
  BY DEF TypeOK, FailureFetched, ExecutionWorkerState, WorkerSteps
<1> QED
  BY <1>1 DEF TypeOK, FailureFetched, exchange, execution_state, history

\* FailureApplied keeps every variable in its type.
LEMMA FailureAppliedType ==
  ASSUME TypeOK, FailureApplied PROVE TypeOK'
<1>1. worker' \in ExecutionWorkerState
  BY DEF TypeOK, FailureApplied, FailureHandled, ExecutionWorkerState, WorkerSteps
<1>2. state' \in StrategyPositionState
  BY CommandType DEF TypeOK, FailureApplied, FailureHandled, Cmd
<1>3. halt_reason' \in HaltReasons \cup {NO_REASON}
  BY ReasonsType DEF TypeOK, FailureApplied, FailureHandled
<1>4. trading_halted' \in BOOLEAN
  BY DEF TypeOK, FailureApplied, FailureHandled
<1>5. position_contracts' \in BOOLEAN
  BY DEF TypeOK, FailureApplied, FailureHandled, ExecutionWorkerState
<1> QED
  BY <1>1, <1>2, <1>3, <1>4, <1>5 DEF TypeOK, FailureApplied, FailureHandled, exchange,
     execution_state, history

\* FailureMailed keeps every variable in its type.
LEMMA FailureMailedType ==
  ASSUME TypeOK, FailureMailed PROVE TypeOK'
<1>1. worker' \in ExecutionWorkerState
  BY IdleWorkerType DEF TypeOK, FailureMailed, CommandDone
<1>2. pending_order_count' \in Nat
  BY DEF TypeOK, FailureMailed, CommandDone
<1> QED
  BY <1>1, <1>2 DEF TypeOK, FailureMailed, CommandDone, exchange, execution_state, history

-----------------------------------------------------------------------------
(* The account sync worker.                                                *)

\* SyncFetch keeps every variable in its type.
LEMMA SyncFetchType ==
  ASSUME TypeOK, SyncFetch PROVE TypeOK'
<1>1. sync' \in AccountSyncState
  BY SleepingSyncType DEF TypeOK, SyncFetch, AccountSyncState, SyncSteps
<1> QED
  BY <1>1 DEF TypeOK, SyncFetch, exchange, execution_state, history

\* SyncFlatDetected keeps every variable in its type.
LEMMA SyncFlatDetectedType ==
  ASSUME TypeOK, SyncFlatDetected PROVE TypeOK'
<1>1. sync' \in AccountSyncState
  BY DEF TypeOK, SyncFlatDetected, AccountSyncState, SyncSteps
<1> QED
  BY <1>1 DEF TypeOK, SyncFlatDetected, exchange, execution_state, history

\* SyncNothingHeld keeps every variable in its type.
LEMMA SyncNothingHeldType ==
  ASSUME TypeOK, SyncNothingHeld PROVE TypeOK'
<1>1. sync' \in AccountSyncState
  BY SleepingSyncType DEF TypeOK, SyncNothingHeld
<1>2. guard' \in RollingLossState
  BY DEF TypeOK, SyncNothingHeld, RollingLossResume, RollingLossState
<1>3. halt_reason' \in HaltReasons \cup {NO_REASON}
  BY DEF TypeOK, SyncNothingHeld, RollingLossResume
<1>4. trading_halted' \in BOOLEAN
  BY DEF TypeOK, SyncNothingHeld, RollingLossResume
<1> QED
  BY <1>1, <1>2, <1>3, <1>4 DEF TypeOK, SyncNothingHeld, RollingLossResume, exchange,
     execution_state, history

\* SyncHeld keeps every variable in its type.
LEMMA SyncHeldType ==
  ASSUME TypeOK, SyncHeld PROVE TypeOK'
<1>1. state' \in StrategyPositionState
  BY TpProgressType DEF TypeOK, SyncHeld
<1>2. disk' \in FileContents
  BY TpProgressType DEF TypeOK, SyncHeld
<1>3. sync' \in AccountSyncState
  BY TpProgressType DEF TypeOK, SyncHeld
<1>4. position_contracts' \in BOOLEAN
  BY TpProgressType DEF TypeOK, SyncHeld
<1> QED
  BY <1>1, <1>2, <1>3, <1>4 DEF TypeOK, SyncHeld, exchange, execution_state, history

\* DmeSideGone keeps every variable in its type.
LEMMA DmeSideGoneType ==
  ASSUME TypeOK, DmeSideGone PROVE TypeOK'
<1>1. state' \in StrategyPositionState
  BY ClearedType DEF TypeOK, DmeSideGone
<1>2. halt_reason' \in HaltReasons \cup {NO_REASON}
  BY DEF TypeOK, DmeSideGone
<1>3. trading_halted' \in BOOLEAN
  BY DEF TypeOK, DmeSideGone
<1>4. disk' \in FileContents
  BY SavedType DEF TypeOK, DmeSideGone
<1>5. sync' \in AccountSyncState
  BY DEF TypeOK, DmeSideGone, AccountSyncState, SyncSteps
<1> QED
  BY <1>1, <1>2, <1>3, <1>4, <1>5 DEF TypeOK, DmeSideGone, exchange, execution_state,
     history

\* DmeSideGoneMailed keeps every variable in its type.
LEMMA DmeSideGoneMailedType ==
  ASSUME TypeOK, DmeSideGoneMailed PROVE TypeOK'
<1>1. state' \in StrategyPositionState
  BY TpProgressType DEF TypeOK, DmeSideGoneMailed
<1>2. disk' \in FileContents
  BY TpProgressType DEF TypeOK, DmeSideGoneMailed
<1>3. sync' \in AccountSyncState
  BY TpProgressType DEF TypeOK, DmeSideGoneMailed
<1>4. position_contracts' \in BOOLEAN
  BY TpProgressType DEF TypeOK, DmeSideGoneMailed
<1> QED
  BY <1>1, <1>2, <1>3, <1>4 DEF TypeOK, DmeSideGoneMailed, exchange, execution_state,
     history

\* DmeTerminal keeps every variable in its type.
LEMMA DmeTerminalType ==
  ASSUME TypeOK, DmeTerminal PROVE TypeOK'
<1>1. sync' \in AccountSyncState
  BY SleepingSyncType DEF TypeOK, DmeTerminal
<1> QED
  BY <1>1 DEF TypeOK, DmeTerminal, exchange, execution_state, history

\* DmeDue keeps every variable in its type.
LEMMA DmeDueType ==
  ASSUME TypeOK, DmeDue PROVE TypeOK'
<1>1. sync' \in AccountSyncState
  BY DEF TypeOK, DmeDue, AccountSyncState, SyncSteps
<1> QED
  BY <1>1 DEF TypeOK, DmeDue, exchange, execution_state, history

\* DmeExits keeps every variable in its type.
LEMMA DmeExitsType ==
  ASSUME TypeOK, NEW ok \in BOOLEAN, DmeExits(ok) PROVE TypeOK'
<1>1. sync' \in AccountSyncState
  BY DEF TypeOK, DmeExits, AccountSyncState, SyncSteps
<1>2. position' \in MaybeSide
  BY DEF TypeOK, DmeExits, MarketExit, MaybeSide
<1>3. position_contracts' \in BOOLEAN
  BY DEF TypeOK, DmeExits, MarketExit
<1>4. exits' \in Nat
  BY DEF TypeOK, DmeExits
<1> QED
  BY <1>1, <1>2, <1>3, <1>4 DEF TypeOK, DmeExits, MarketExit, exchange, execution_state,
     history

\* DmeExitMarked keeps every variable in its type.
LEMMA DmeExitMarkedType ==
  ASSUME TypeOK, DmeExitMarked PROVE TypeOK'
<1>1. sync' \in AccountSyncState
  BY SleepingSyncType DEF TypeOK, DmeExitMarked, DmeMarked
<1>2. state' \in StrategyPositionState
  BY AfterMarkType, ReasonsType DEF TypeOK, DmeExitMarked, DmeMarked
<1>3. halt_reason' \in HaltReasons \cup {NO_REASON}
  BY ReasonsType DEF TypeOK, DmeExitMarked, DmeMarked
<1>4. disk' \in FileContents
  BY SavedType DEF TypeOK, DmeExitMarked, DmeMarked
<1> QED
  BY <1>1, <1>2, <1>3, <1>4 DEF TypeOK, DmeExitMarked, DmeMarked, exchange,
     execution_state, history

\* DmeExitFailed keeps every variable in its type.
LEMMA DmeExitFailedType ==
  ASSUME TypeOK, DmeExitFailed PROVE TypeOK'
<1>1. sync' \in AccountSyncState
  BY SleepingSyncType DEF TypeOK, DmeExitFailed, DmeMarked
<1>2. state' \in StrategyPositionState
  BY AfterMarkType, ReasonsType DEF TypeOK, DmeExitFailed, DmeMarked
<1>3. halt_reason' \in HaltReasons \cup {NO_REASON}
  BY ReasonsType DEF TypeOK, DmeExitFailed, DmeMarked
<1>4. disk' \in FileContents
  BY SavedType DEF TypeOK, DmeExitFailed, DmeMarked
<1> QED
  BY <1>1, <1>2, <1>3, <1>4 DEF TypeOK, DmeExitFailed, DmeMarked, exchange,
     execution_state, history

\* StopsPlaced keeps every variable in its type.
LEMMA StopsPlacedType ==
  ASSUME TypeOK, StopsPlaced PROVE TypeOK'
<1>1. sync' \in AccountSyncState
  BY SleepingSyncType DEF TypeOK, StopsPlaced
<1>2. state' \in StrategyPositionState
  BY DEF TypeOK, StopsPlaced
<1>3. disk' \in FileContents
  BY SavedType DEF TypeOK, StopsPlaced
<1> QED
  BY <1>1, <1>2, <1>3 DEF TypeOK, StopsPlaced, exchange, execution_state, history

\* StopsFail keeps every variable in its type.
LEMMA StopsFailType ==
  ASSUME TypeOK, StopsFail PROVE TypeOK'
<1>1. sync' \in AccountSyncState
  BY DEF TypeOK, StopsFail, AccountSyncState, SyncSteps
<1>2. state' \in StrategyPositionState
  BY SyncPosType, AfterArmType, ReasonsType DEF TypeOK, StopsFail, arm_delayed_market_exit
<1>3. halt_reason' \in HaltReasons \cup {NO_REASON}
  BY ReasonsType DEF TypeOK, StopsFail, arm_delayed_market_exit
<1>4. disk' \in FileContents
  BY SavedType DEF TypeOK, StopsFail
<1> QED
  BY <1>1, <1>2, <1>3, <1>4 DEF TypeOK, StopsFail, arm_delayed_market_exit, exchange,
     execution_state, history

\* StopsFailureAlerted keeps every variable in its type.
LEMMA StopsFailureAlertedType ==
  ASSUME TypeOK, StopsFailureAlerted PROVE TypeOK'
<1>1. sync' \in AccountSyncState
  BY SleepingSyncType DEF TypeOK, StopsFailureAlerted
<1>2. disk' \in FileContents
  BY DEF TypeOK, StopsFailureAlerted, AccountSyncState
<1> QED
  BY <1>1, <1>2 DEF TypeOK, StopsFailureAlerted, exchange, execution_state, history

\* SettleReset keeps every variable in its type.
LEMMA SettleResetType ==
  ASSUME TypeOK, SettleReset PROVE TypeOK'
<1>1. state' \in StrategyPositionState
  BY NewStateType DEF TypeOK, SettleReset, ResetPosition, MaybeSide
<1>2. current_position_id' \in Nat
  BY DEF TypeOK, SettleReset, ResetPosition, NO_ID
<1>3. halt_reason' \in HaltReasons \cup {NO_REASON}
  BY HaltOfType DEF TypeOK, SettleReset
<1>4. trading_halted' \in BOOLEAN
  BY HaltOfType DEF TypeOK, SettleReset
<1>5. guard' \in RollingLossState
  BY EvaluateType, SyncIdType DEF TypeOK, SettleReset
<1>6. disk' \in FileContents
  BY NoFileType DEF TypeOK, SettleReset
<1>7. sync' \in AccountSyncState
  BY SleepingSyncType DEF TypeOK, SettleReset, AccountSyncState, SyncSteps
<1> QED
  BY <1>1, <1>2, <1>3, <1>4, <1>5, <1>6, <1>7 DEF TypeOK, SettleReset, ResetPosition,
     exchange, execution_state, history

\* SettleFinish keeps every variable in its type.
LEMMA SettleFinishType ==
  ASSUME TypeOK, SettleFinish PROVE TypeOK'
<1>1. sync' \in AccountSyncState
  BY SleepingSyncType DEF TypeOK, SettleFinish
<1>2. disk' \in FileContents
  BY NoFileType DEF TypeOK, SettleFinish
<1>3. guard' \in RollingLossState
  BY DEF TypeOK, SettleFinish, RollingLossResume, RollingLossState
<1>4. halt_reason' \in HaltReasons \cup {NO_REASON}
  BY DEF TypeOK, SettleFinish, RollingLossResume
<1>5. trading_halted' \in BOOLEAN
  BY DEF TypeOK, SettleFinish, RollingLossResume
<1> QED
  BY <1>1, <1>2, <1>3, <1>4, <1>5 DEF TypeOK, SettleFinish, RollingLossResume, exchange,
     execution_state, history

-----------------------------------------------------------------------------
(* Time, the exchange and its other users, and crashes.                    *)

\* DeadlinePasses keeps every variable in its type.
LEMMA DeadlinePassesType ==
  ASSUME TypeOK, DeadlinePasses PROVE TypeOK'
<1>1. state' \in StrategyPositionState
  BY DueType DEF TypeOK, DeadlinePasses
<1> QED
  BY <1>1 DEF TypeOK, DeadlinePasses, exchange, execution_state, history

\* HaltExpires keeps every variable in its type.
LEMMA HaltExpiresType ==
  ASSUME TypeOK, HaltExpires PROVE TypeOK'
<1>1. guard' \in RollingLossState
  BY DEF TypeOK, HaltExpires, RollingLossState
<1> QED
  BY <1>1 DEF TypeOK, HaltExpires, exchange, execution_state, history

\* PositionCloses keeps every variable in its type.
LEMMA PositionClosesType ==
  ASSUME TypeOK, PositionCloses PROVE TypeOK'
<1>1. position' \in MaybeSide
  BY DEF TypeOK, PositionCloses, MaybeSide
<1> QED
  BY <1>1 DEF TypeOK, PositionCloses, RuntimeUnchanged, exchange, execution_state, history

\* ManualTrade keeps every variable in its type.
LEMMA ManualTradeType ==
  ASSUME TypeOK, ManualTrade PROVE TypeOK'
<1>1. position' \in MaybeSide
  BY DEF TypeOK, ManualTrade, MaybeSide
<1> QED
  BY <1>1 DEF TypeOK, ManualTrade, RuntimeUnchanged, exchange, execution_state, history

\* LateFill keeps every variable in its type.
LEMMA LateFillType ==
  ASSUME TypeOK, LateFill PROVE TypeOK'
<1>1. late_order' \in MaybeSide
  BY DEF TypeOK, LateFill, MaybeSide
<1>2. position' \in MaybeSide
  BY DEF TypeOK, LateFill, FilledPositions, MaybeSide
<1> QED
  BY <1>1, <1>2 DEF TypeOK, LateFill, RuntimeUnchanged, exchange, execution_state, history

\* Restart keeps every variable in its type.
LEMMA RestartType ==
  ASSUME TypeOK, Restart PROVE TypeOK'
<1>1. queue' \in Seq(TradeCommand)
  BY EmptySeqType DEF TypeOK, Restart
<1>2. worker' \in ExecutionWorkerState
  BY IdleWorkerType DEF TypeOK, Restart
<1>3. sync' \in AccountSyncState
  BY SleepingSyncType DEF TypeOK, Restart
<1>4. state' \in StrategyPositionState
  BY NewStateType DEF TypeOK, Restart
<1>5. late_order' \in MaybeSide
  BY CommandType DEF TypeOK, Restart, MaybeSide, Cmd
<1>6. current_position_id' \in Nat
  BY DEF TypeOK, Restart, NO_ID, FileContents
<1>7. next_id' \in Nat
  BY DEF TypeOK, Restart
<1>8. disk' \in FileContents
  BY <1>4, <1>6, SavedType, NoFileType DEF TypeOK, Restart
<1>9. halt_reason' \in HaltReasons \cup {NO_REASON}
  BY ReasonsType DEF TypeOK, Restart, RollingLossState
<1>10. guard' \in RollingLossState
  BY DEF TypeOK, Restart, RollingLossState
<1> QED
  BY <1>1, <1>2, <1>3, <1>4, <1>5, <1>6, <1>7, <1>8, <1>9, <1>10 DEF TypeOK, Restart,
     exchange, execution_state, history

\* The first layer of the invariant.
TypeInv == TypeOK /\ PendingIsOutstandingWork

-----------------------------------------------------------------------------
(* Frames: what whole groups of actions leave alone.                       *)

\* Only ticks, the execution worker and a crash touch commands.
LEMMA CommandsFrame ==
  ASSUME \/ StrategyTickQueueFull \/ AccountSyncWorker \/ Time
         \/ PositionCloses \/ ManualTrade \/ LateFill
  PROVE  UNCHANGED <<pending_order_count, queue, worker>>
  BY DEF StrategyTickQueueFull, AccountSyncWorker, SyncFetch, SyncFlatDetected,
         SyncNothingHeld, SyncHeld, DmeSideGone, DmeSideGoneMailed, DmeTerminal, DmeDue,
         DmeExits, DmeExitMarked, DmeExitFailed, DmeMarked, StopsPlaced, StopsFail,
         StopsFailureAlerted, SettleReset, SettleFinish, Time, DeadlinePasses,
         HaltExpires, PositionCloses, ManualTrade, LateFill, RuntimeUnchanged

\* Only the account sync worker and a crash touch the account sync worker.
LEMMA SyncFrame ==
  ASSUME \/ StrategyTickWorker \/ ExecutionWorker \/ Time
         \/ PositionCloses \/ ManualTrade \/ LateFill
  PROVE  sync' = sync
  BY DEF StrategyTickWorker, StrategyTickQueueFull, Tick, ExecutionWorker, TakeCommand,
         EntryCashFetched, CommandRaises, EntryFills, EntryFillsUnseen, EntryProtected,
         EntryUnprotected, UpdateSucceeds, UpdateFails, RunnerExits,
         RunnerExitApplied, RunnerExitFails, UpdateFailureAlerted, EntryFailureAlerted,
         FailureFetched, FailureApplied, FailureMailed, Time, DeadlinePasses, HaltExpires,
         PositionCloses, ManualTrade, LateFill, RuntimeUnchanged

\* The steps of the execution worker that keep the command in hand.
Proceeds ==
  \/ EntryCashFetched \/ CommandRaises \/ EntryFills \/ EntryFillsUnseen
  \/ EntryUnprotected \/ UpdateFails \/ RunnerExits \/ RunnerExitFails
  \/ EntryFailureAlerted \/ FailureFetched

\* The steps that handle its failure.
HandlesFailure == UpdateFailureAlerted \/ FailureApplied

\* The steps that finish it.
Finishes == EntryProtected \/ UpdateSucceeds \/ RunnerExitApplied \/ FailureMailed

\* These are all the steps of the execution worker.
LEMMA ExecutionWorkerSteps ==
  ExecutionWorker <=> TakeCommand \/ Proceeds \/ HandlesFailure \/ Finishes
  BY DEF ExecutionWorker, Proceeds, HandlesFailure, Finishes

\* While it proceeds the command stays in hand, and only a fill leads to the
\* protective orders.
LEMMA ProceedsFrame ==
  ASSUME TypeOK, Proceeds
  PROVE  /\ UNCHANGED <<queue, pending_order_count>>
         /\ worker.pc \notin {"idle", "mail"} /\ worker'.pc \notin {"idle", "mail"}
         /\ worker'.cmd = worker.cmd
         /\ worker'.pc = "protect" => EntryFills
  BY DEF TypeOK, ExecutionWorkerState, Proceeds, EntryCashFetched, CommandRaises,
         EntryFills, EntryFillsUnseen, EntryUnprotected, UpdateFails, RunnerExits,
         RunnerExitFails, EntryFailureAlerted, FailureFetched

\* A failure is handled over a kept state or by a rollback, and ends in the mail.
LEMMA HandlesFailureFrame ==
  ASSUME TypeOK, HandlesFailure
  PROVE  /\ UNCHANGED <<queue, pending_order_count, exits, current_position_id>>
         /\ worker.pc # "idle" /\ worker'.pc = "mail" /\ worker'.cmd = worker.cmd
         /\ state' = state \/ state' = Cmd.snapshot
  BY DEF TypeOK, ExecutionWorkerState, HandlesFailure,
         UpdateFailureAlerted, FailureApplied, FailureHandled, history

\* A finished command leaves the worker idle and the count one lower.
LEMMA FinishesFrame ==
  ASSUME Finishes
  PROVE  queue' = queue /\ state' = state /\ CommandDone
         /\ worker.pc # "idle" /\ worker'.pc = "idle"
  BY DEF Finishes, EntryProtected, UpdateSucceeds, RunnerExitApplied, FailureMailed,
         CommandDone, IdleWorker

\* A command is taken from the head of the queue, unless the halt drops it.
LEMMA TakeCommandFrame ==
  ASSUME TypeOK, TakeCommand
  PROVE  /\ queue' = Tail(queue) /\ worker.pc = "idle"
         /\ \/ CommandDone /\ worker'.pc = "idle"
            \/ /\ worker'.pc \in {"cash", "submit"} /\ worker'.cmd = Head(queue)
               /\ UNCHANGED pending_order_count
<1>1. CASE CommandDone
  BY <1>1 DEF TakeCommand, CommandDone, IdleWorker
<1>2. CASE ~CommandDone
  <2> DEFINE pc == worker'.pc
  <2>1. worker' = [IdleWorker EXCEPT !.pc = pc, !.cmd = Head(queue),
                                     !.id = current_position_id]
        /\ pc \in {"cash", "submit"}
    BY <1>2 DEF TakeCommand, IdleWorker
  <2>2. worker'.cmd = Head(queue)
    BY <2>1 DEF IdleWorker
  <2> QED BY <1>2, <2>1, <2>2 DEF TakeCommand
<1> QED BY <1>1, <1>2

\* TP progress tracks the side the cycle fetched and arms nothing; it ends the
\* cycle or goes on to the protective stop.
LEMMA TpProgressFrame ==
  ASSUME TypeOK, TpProgress
  PROVE  /\ sync'.pc \in {"sleep", "stops"}
         /\ state'.dme \in {state.dme, "CLEARED"}
         /\ sync.pos # NONE => state'.side \in Sides
<1>1. sync'.pc \in {"sleep", "stops"}
  <2>1. CASE sync' = SleepingSync
    BY <2>1 DEF SleepingSync
  <2>2. CASE sync' = [sync EXCEPT !.pc = "stops",
                                  !.save = Saved(current_position_id, AdoptedState)]
    <3>1. sync \in AccountSyncState
      BY DEF TypeOK
    <3>2. sync'.pc = "stops"
      BY <2>2, <3>1 DEF AccountSyncState
    <3> QED BY <3>2
  <2> QED BY <2>1, <2>2 DEF TpProgress
<1>2. /\ AdoptedState \in StrategyPositionState
      /\ AdoptedState.dme \in {state.dme, "CLEARED"}
      /\ AdoptedState.side = sync.pos
  BY AdoptedType DEF AdoptedState, NewState
<1>3. state'.dme = AdoptedState.dme /\ state'.side = AdoptedState.side
  BY <1>2 DEF TpProgress, StrategyPositionState
<1>4. state'.side \in MaybeSide
  BY TpProgressType, SideType
<1> QED BY <1>1, <1>2, <1>3, <1>4 DEF MaybeSide

\* The steps of the account sync worker that end its cycle.
EndsCycle ==
  \/ SyncNothingHeld \/ DmeTerminal \/ DmeExitMarked \/ DmeExitFailed
  \/ StopsPlaced \/ StopsFailureAlerted \/ SettleFinish

\* Where each step of the account sync worker leads.
LEMMA SyncSteppings ==
  ASSUME TypeInv, TypeInv', AccountSyncWorker
  PROVE  \/ EndsCycle /\ sync'.pc = "sleep"
         \/ SyncFetch /\ sync'.pc = "core"
         \/ SyncFlatDetected /\ sync'.pc = "settle"
         \/ (SyncHeld \/ DmeSideGoneMailed) /\ sync'.pc \in {"sleep", "stops"}
         \/ DmeSideGone /\ sync'.pc = "cleared" /\ sync'.pos = sync.pos
         \/ DmeDue /\ sync'.pc = "exit"
         \/ (\E ok \in BOOLEAN : DmeExits(ok)) /\ sync'.pc \in {"exited", "exit_failed"}
         \/ StopsFail /\ sync'.pc = "alert"
         \/ SettleReset /\ sync'.pc \in {"sleep", "notify"}
<1>0. sync \in AccountSyncState
  BY DEF TypeInv, TypeOK
<1>1. CASE EndsCycle
  <2>1. sync' = SleepingSync
    BY <1>1 DEF EndsCycle, SyncNothingHeld, DmeTerminal, DmeExitMarked, DmeExitFailed,
                DmeMarked, StopsPlaced, StopsFailureAlerted, SettleFinish
  <2> QED BY <1>1, <2>1 DEF SleepingSync
<1>2. CASE SyncFetch
  BY <1>2 DEF SyncFetch, SleepingSync
<1>3. CASE SyncHeld \/ DmeSideGoneMailed
  BY <1>3, TpProgressFrame DEF SyncHeld, DmeSideGoneMailed, TypeInv
<1>4. CASE SyncFlatDetected
  BY <1>0, <1>4 DEF AccountSyncState, SyncFlatDetected
<1>6. CASE DmeSideGone
  BY <1>0, <1>6 DEF AccountSyncState, DmeSideGone
<1>7. CASE DmeDue \/ StopsFail
  BY <1>0, <1>7 DEF AccountSyncState, DmeDue, StopsFail
<1>8. ASSUME NEW ok \in BOOLEAN, DmeExits(ok)
      PROVE  sync'.pc \in {"exited", "exit_failed"}
  BY <1>0, <1>8 DEF AccountSyncState, DmeExits
<1>5. CASE SettleReset
  BY <1>0, <1>5 DEF AccountSyncState, SettleReset, SleepingSync
<1> QED
  BY <1>1, <1>2, <1>3, <1>4, <1>5, <1>6, <1>7, <1>8 DEF AccountSyncWorker, EndsCycle

\* Nothing but an entry, a settlement and a crash changes the position's id.
LEMMA PositionIdFrame ==
  ASSUME Next, ~EntryProtected, ~SettleReset, ~Restart
  PROVE  current_position_id' = current_position_id
  BY DEF Next, StrategyTickWorker, ExecutionWorker, AccountSyncWorker, Time,
         Environment, StrategyTickQueueFull, Tick, TakeCommand, EntryCashFetched,
         CommandRaises, EntryFills, EntryFillsUnseen, EntryUnprotected, UpdateSucceeds,
         UpdateFails, RunnerExits, RunnerExitApplied, RunnerExitFails,
         UpdateFailureAlerted, EntryFailureAlerted, FailureFetched, FailureApplied,
         FailureMailed, SyncFetch, SyncFlatDetected, SyncNothingHeld, SyncHeld,
         DmeSideGone, DmeSideGoneMailed, DmeTerminal, DmeDue, DmeExits, DmeExitMarked,
         DmeExitFailed, DmeMarked, StopsPlaced, StopsFail, StopsFailureAlerted,
         SettleFinish, DeadlinePasses, HaltExpires, PositionCloses, ManualTrade,
         LateFill, RuntimeUnchanged, execution_state

-----------------------------------------------------------------------------
(* The tick.                                                               *)

\* What a tick may issue: a command the halt allows, remembering the state
\* before the tick, and an opening exactly when nothing is tracked.
Issuable ==
  {c \in TradeCommand : /\ Allowed(c.intent)
                        /\ c.snapshot = state
                        /\ c.intent = "OPEN" <=> state.side = NONE}

\* One intent makes at most one command, and an issuable one.
LEMMA CommandIssued ==
  ASSUME TypeOK, NEW side \in Sides, NEW intent \in Intents \cup {NONE},
         intent # NONE => (intent = "OPEN" <=> state.side = NONE)
  PROVE  /\ Command(intent, side) \in Seq(Issuable)
         /\ Len(Command(intent, side)) = IF intent # NONE /\ Allowed(intent) THEN 1 ELSE 0
<1>1. CASE intent # NONE /\ Allowed(intent)
  <2> DEFINE c == [intent |-> intent, side |-> side, snapshot |-> state]
  <2>1. c \in Issuable
    BY <1>1 DEF Issuable, TradeCommand, TypeOK
  <2>2. Command(intent, side) = <<c>>
    BY <1>1 DEF Command
  <2> QED BY <1>1, <2>1, <2>2
<1>2. CASE ~(intent # NONE /\ Allowed(intent))
  <2>1. Command(intent, side) = <<>>
    BY <1>2 DEF Command
  <2> QED BY <1>2, <2>1, EmptySeq
<1> QED BY <1>1, <1>2

\* on_tick opens only when no side is tracked, and then does nothing else.
LEMMA OnTickType ==
  ASSUME NEW side \in MaybeSide, NEW intents \in on_tick(side)
  PROVE  /\ intents[1] \in Intents \cup {NONE} /\ intents[2] \in Intents \cup {NONE}
         /\ intents[1] # NONE => intents[1] # "OPEN" /\ side # NONE
         /\ intents[2] # NONE => (intents[2] = "OPEN" <=> side = NONE)
         /\ side = NONE => intents[1] = NONE
  BY ConstantsAssumption DEF on_tick, Intents, ENTRY_INTENTS, POSITION_MANAGEMENT_INTENTS

\* With nothing pending, no command is queued or being processed.
LEMMA Quiescent ==
  ASSUME TypeInv, pending_order_count = 0
  PROVE  queue = <<>> /\ worker.pc = "idle"
<1>1. queue \in Seq(TradeCommand) /\ Len(queue) \in Nat
  BY LenProperties DEF TypeInv, TypeOK
<1>2. Len(queue) = 0 /\ worker.pc = "idle"
  BY <1>1 DEF TypeInv, PendingIsOutstandingWork
<1> QED BY <1>1, <1>2, EmptySeq

\* A tick finds the queue empty and fills it with issuable commands, counting
\* them; if it queues any, a side is tracked afterwards.
LEMMA TickQueue ==
  ASSUME TypeInv, NEW side \in Sides, Tick(side)
  PROVE  /\ queue = <<>> /\ worker.pc = "idle"
         /\ queue' \in Seq(Issuable)
         /\ pending_order_count' = Len(queue')
         /\ state.side = NONE => Len(queue') <= 1
         /\ state' \in {state, [state EXCEPT !.side = side]}
         /\ trading_halted' \in {trading_halted, TRUE}
         /\ queue' # <<>> => state'.side # NONE
<1>1. pending_order_count = 0 /\ queue = <<>> /\ worker.pc = "idle"
  BY Quiescent DEF Tick, TickRuns
<1>2. PICK intents \in on_tick(state.side) :
        LET commands == Command(intents[1], side) \o Command(intents[2], side)
            room == EXECUTION_QUEUE_MAXSIZE - Len(queue)
        IN \/ /\ Len(commands) <= room
              /\ queue' = queue \o commands
              /\ pending_order_count' = pending_order_count + Len(commands)
              /\ state' = [state EXCEPT !.side = side]
              /\ UNCHANGED trading_halted
           \/ /\ Len(commands) > room
              /\ queue' = queue \o SubSeq(commands, 1, room)
              /\ pending_order_count' = pending_order_count + room
              /\ trading_halted' = TRUE
              /\ UNCHANGED state
  BY DEF Tick
<1> DEFINE commands == Command(intents[1], side) \o Command(intents[2], side)
           room == EXECUTION_QUEUE_MAXSIZE - Len(queue)
<1>3. room \in Nat \ {0}
  BY <1>1, EmptySeq, ConstantsAssumption
<1>4. state.side \in MaybeSide
  BY DEF TypeInv, TypeOK, StrategyPositionState
<1>5. /\ Command(intents[1], side) \in Seq(Issuable)
      /\ Command(intents[2], side) \in Seq(Issuable)
      /\ Len(Command(intents[1], side)) \in Nat
      /\ Len(Command(intents[2], side)) \in 0..1
      /\ state.side = NONE => Len(Command(intents[1], side)) = 0
  BY <1>4, OnTickType, CommandIssued DEF TypeInv
<1>6. /\ commands \in Seq(Issuable) /\ Len(commands) \in Nat
      /\ state.side = NONE => Len(commands) <= 1
  <2> DEFINE first == Command(intents[1], side)
             second == Command(intents[2], side)
  <2>1. first \in Seq(Issuable) /\ second \in Seq(Issuable)
    BY <1>5
  <2>2. Len(first) \in Nat /\ Len(second) \in 0..1
        /\ (state.side = NONE => Len(first) = 0)
    BY <1>5
  <2> HIDE DEF first, second
  <2>3. first \o second \in Seq(Issuable) /\ Len(first \o second) = Len(first) + Len(second)
    BY <2>1, ConcatProperties
  <2>4. commands = first \o second
    BY DEF first, second
  <2> HIDE DEF commands
  <2>5. Len(commands) = Len(first) + Len(second)
    BY <2>3, <2>4
  <2> QED BY <2>2, <2>3, <2>4, <2>5
<1> HIDE DEF commands, room
<1>7. CASE Len(commands) <= room
  <2>1. queue' = commands /\ pending_order_count' = Len(commands)
        /\ state' = [state EXCEPT !.side = side] /\ trading_halted' = trading_halted
    BY <1>1, <1>2, <1>3, <1>6, <1>7, ConcatEmptySeq DEF commands, room
  <2>2. state'.side = side /\ side # NONE
    BY <2>1, ConstantsAssumption DEF TypeInv, TypeOK, StrategyPositionState
  <2> QED BY <1>1, <1>6, <2>1, <2>2
<1>8. CASE Len(commands) > room
  <2> DEFINE head == SubSeq(commands, 1, room)
  <2>1. head \in Seq(Issuable) /\ Len(head) = room
    <3>1. \A i \in 1..room : commands[i] \in Issuable
      BY <1>3, <1>6, <1>8, ElementOfSeq
    <3> QED BY <1>3, <3>1, SubSeqProperties
  <2>2. queue' = head /\ pending_order_count' = room
        /\ state' = state /\ trading_halted' = TRUE
    BY <1>1, <1>2, <1>3, <1>6, <1>8, <2>1, ConcatEmptySeq DEF commands, room
  <2>3. state.side # NONE
    BY <1>3, <1>6, <1>8
  <2> QED BY <1>1, <2>1, <2>2, <2>3
<1>9. room \in Nat /\ Len(commands) \in Nat
  BY <1>3, <1>6
<1>10. Len(commands) <= room \/ Len(commands) > room
  BY <1>9
<1> QED BY <1>7, <1>8, <1>10

\* A queue of issuable commands is a queue of commands.
LEMMA IssuableType ==
  ASSUME TypeOK, NEW s \in Seq(Issuable) PROVE s \in Seq(TradeCommand) /\ Len(s) \in Nat
<1>1. Issuable \subseteq TradeCommand
  BY DEF Issuable
<1> QED BY <1>1, SeqMonotonic, LenProperties

-----------------------------------------------------------------------------
(* Types and the pending flag.                                             *)

\* A tick keeps every variable in its type.
LEMMA TickType ==
  ASSUME TypeInv, NEW side \in Sides, Tick(side) PROVE TypeOK'
<1>1. queue' \in Seq(TradeCommand) /\ pending_order_count' \in Nat
  BY TickQueue, IssuableType DEF TypeInv
<1>2. state' \in StrategyPositionState
  BY TickQueue DEF TypeInv, TypeOK, StrategyPositionState, MaybeSide
<1>3. trading_halted' \in BOOLEAN
  BY TickQueue DEF TypeInv, TypeOK
<1> QED
  BY <1>1, <1>2, <1>3 DEF TypeInv, TypeOK, Tick, exchange, history

\* So does the halt over a full tick queue.
LEMMA StrategyTickQueueFullType ==
  ASSUME TypeOK, StrategyTickQueueFull PROVE TypeOK'
  BY DEF TypeOK, StrategyTickQueueFull, exchange, history

\* The initial state is well typed and nothing is pending in it.
LEMMA InitInv == Init => TypeInv
<1> SUFFICES ASSUME Init PROVE TypeInv
  OBVIOUS
<1>1. state \in StrategyPositionState
  BY NewStateType DEF Init, MaybeSide
<1>2. queue \in Seq(TradeCommand) /\ Len(queue) = 0
  BY EmptySeq DEF Init
<1>3. worker \in ExecutionWorkerState /\ worker.pc = "idle"
  BY IdleWorkerType DEF Init, IdleWorker
<1>4. sync \in AccountSyncState /\ disk \in FileContents
  BY SleepingSyncType, NoFileType DEF Init
<1>5. guard \in RollingLossState
  BY DEF Init, RollingLossState, NO_ID
<1>6. PendingIsOutstandingWork
  BY <1>2, <1>3 DEF Init, PendingIsOutstandingWork
<1>7. position \in MaybeSide /\ late_order \in MaybeSide
  BY DEF Init, MaybeSide
<1>8. pending_order_count \in Nat /\ current_position_id \in Nat
      /\ next_id \in Nat /\ restarts \in Nat /\ exits \in Nat
  BY DEF Init, NO_ID
<1>9. trading_halted \in BOOLEAN /\ position_contracts \in BOOLEAN
      /\ halt_reason \in HaltReasons \cup {NO_REASON}
  BY DEF Init
<1> QED
  BY <1>1, <1>2, <1>3, <1>4, <1>5, <1>6, <1>7, <1>8, <1>9 DEF TypeInv, TypeOK

\* Every step keeps every variable in its type.
LEMMA TypeStep ==
  ASSUME TypeInv, Next PROVE TypeOK'
<1>1. TypeOK
  BY DEF TypeInv
<1>2. CASE StrategyTickWorker
  BY <1>1, <1>2, TickType, StrategyTickQueueFullType DEF StrategyTickWorker
<1>3. CASE ExecutionWorker
  BY <1>1, <1>3, TakeCommandType, EntryCashFetchedType, CommandRaisesType,
     EntryFillsType, EntryFillsUnseenType, EntryProtectedType, EntryUnprotectedType,
     UpdateSucceedsType, UpdateFailsType, RunnerExitsType,
     RunnerExitAppliedType, RunnerExitFailsType, UpdateFailureAlertedType,
     EntryFailureAlertedType, FailureFetchedType, FailureAppliedType, FailureMailedType
  DEF ExecutionWorker
<1>4. CASE AccountSyncWorker
  BY <1>1, <1>4, SyncFetchType, SyncFlatDetectedType, SyncNothingHeldType, SyncHeldType,
     DmeSideGoneType, DmeSideGoneMailedType, DmeTerminalType, DmeDueType, DmeExitsType,
     DmeExitMarkedType, DmeExitFailedType, StopsPlacedType, StopsFailType,
     StopsFailureAlertedType, SettleResetType, SettleFinishType
  DEF AccountSyncWorker
<1>5. CASE Time \/ Environment
  BY <1>1, <1>5, DeadlinePassesType, HaltExpiresType, PositionClosesType,
     ManualTradeType, LateFillType, RestartType
  DEF Time, Environment
<1> QED
  BY <1>2, <1>3, <1>4, <1>5 DEF Next

\* Every step counts the commands it queues, takes and finishes.
LEMMA PendingStep ==
  ASSUME TypeInv, Next
  PROVE  PendingIsOutstandingWork'
<1>0. /\ TypeOK /\ queue \in Seq(TradeCommand) /\ Len(queue) \in Nat
      /\ pending_order_count = Len(queue) + IF worker.pc = "idle" THEN 0 ELSE 1
  BY LenProperties DEF TypeInv, TypeOK, PendingIsOutstandingWork
<1>1. ASSUME NEW side \in Sides, Tick(side) PROVE PendingIsOutstandingWork'
  <2>1. pending_order_count' = Len(queue') /\ worker'.pc = "idle" /\ Len(queue') \in Nat
    BY <1>0, <1>1, TickQueue, IssuableType DEF Tick
  <2> QED BY <2>1 DEF PendingIsOutstandingWork
<1>2. CASE TakeCommand
  <2>1. queue # <<>>
    BY <1>2 DEF TakeCommand
  <2>2. Len(queue') = Len(queue) - 1 /\ Len(queue) >= 1
    BY <1>0, <1>2, <2>1, TakeCommandFrame, HeadTailProperties, EmptySeq
  <2> QED
    BY <1>0, <1>2, <2>2, TakeCommandFrame DEF CommandDone, PendingIsOutstandingWork
<1>3. CASE Proceeds \/ HandlesFailure
  <2>1. /\ UNCHANGED <<queue, pending_order_count>>
        /\ worker.pc # "idle" /\ worker'.pc # "idle"
    BY <1>0, <1>3, ProceedsFrame, HandlesFailureFrame
  <2> QED BY <1>0, <2>1 DEF PendingIsOutstandingWork
<1>4. CASE Finishes
  BY <1>0, <1>4, FinishesFrame DEF CommandDone, PendingIsOutstandingWork
<1>5. CASE \/ StrategyTickQueueFull \/ AccountSyncWorker \/ Time
           \/ PositionCloses \/ ManualTrade \/ LateFill
  BY <1>0, <1>5, CommandsFrame DEF PendingIsOutstandingWork
<1>6. CASE Restart
  BY <1>6, EmptySeq DEF Restart, IdleWorker, PendingIsOutstandingWork
<1> QED
  BY <1>1, <1>2, <1>3, <1>4, <1>5, <1>6, ExecutionWorkerSteps
  DEF Next, StrategyTickWorker, Environment

\* The first layer of the invariant is preserved.
LEMMA TypeInvStep == TypeInv /\ [Next]_vars => TypeInv'
<1> SUFFICES ASSUME TypeInv, [Next]_vars PROVE TypeInv'
  OBVIOUS
<1>1. CASE Next
  BY <1>1, TypeStep, PendingStep DEF TypeInv
<1>2. CASE UNCHANGED vars
  BY <1>2 DEF vars, TypeInv, TypeOK, PendingIsOutstandingWork
<1> QED BY <1>1, <1>2

\* TypeOK: the state shared by the three workers keeps its shape: a busy worker
\* holds a command, a halt has a known reason, and no count goes below zero.
THEOREM TypeCorrect == Spec => []TypeOK
<1>1. TypeInv => TypeOK
  BY DEF TypeInv
<1> QED BY <1>1, InitInv, TypeInvStep, PTL DEF Spec

\* PendingIsOutstandingWork: no path through the execution worker forgets or
\* repeats the decrement of pending_order_count in its finally clause.
THEOREM PendingCorrect == Spec => []PendingIsOutstandingWork
<1>1. TypeInv => PendingIsOutstandingWork
  BY DEF TypeInv
<1> QED BY <1>1, InitInv, TypeInvStep, PTL DEF Spec

-----------------------------------------------------------------------------
(* The commands outstanding.                                               *)

\* The command in hand is outstanding.
LEMMA HeldIsOutstanding ==
  ASSUME worker.pc # "idle"
  PROVE  Cmd \in Outstanding
  BY DEF Outstanding

\* Only a tick adds a command.
LEMMA OutstandingStep ==
  ASSUME TypeInv, TypeInv', Next, ~\E side \in Sides : Tick(side)
  PROVE  /\ Outstanding' \subseteq Outstanding
         /\ pending_order_count' <= pending_order_count
<1>0. TypeOK /\ pending_order_count \in Nat
  BY DEF TypeInv, TypeOK
<1>1. CASE TakeCommand
  <2>1. queue \in Seq(TradeCommand) /\ queue # <<>> /\ Len(queue) \in Nat
        /\ queue' = Tail(queue)
    BY <1>1, LenProperties DEF TakeCommand, TypeInv, TypeOK
  <2>2. Len(queue') = Len(queue) - 1
        /\ \A i \in 1..Len(queue') : queue'[i] = queue[i + 1]
    BY <2>1, HeadTailProperties
  <2>3. Head(queue) = queue[1] /\ Len(queue) >= 1
    BY <2>1, EmptySeq
  <2>4. worker'.pc # "idle" => Cmd' = Head(queue)
    BY <1>0, <1>1, TakeCommandFrame DEF Cmd
  <2>5. 1 \in 1..Len(queue) /\ \A i \in 1..Len(queue') : i + 1 \in 1..Len(queue)
    BY <2>1, <2>2, <2>3
  <2>6. Outstanding' \subseteq {queue[i] : i \in 1..Len(queue)}
    BY <2>2, <2>3, <2>4, <2>5 DEF Outstanding
  <2>7. pending_order_count' <= pending_order_count
    BY <1>0, <1>1, TakeCommandFrame DEF CommandDone
  <2> QED BY <2>6, <2>7 DEF Outstanding
<1>2. CASE Proceeds \/ HandlesFailure
  <2>1. /\ UNCHANGED <<queue, pending_order_count>>
        /\ worker.pc # "idle" /\ worker'.cmd = worker.cmd
    BY <1>0, <1>2, ProceedsFrame, HandlesFailureFrame
  <2> QED BY <1>0, <2>1 DEF Outstanding, Cmd
<1>3. CASE Finishes
  BY <1>0, <1>3, FinishesFrame DEF CommandDone, Outstanding
<1>4. CASE \/ StrategyTickQueueFull \/ AccountSyncWorker \/ Time
           \/ PositionCloses \/ ManualTrade \/ LateFill
  BY <1>0, <1>4, CommandsFrame DEF Outstanding, Cmd
<1>5. CASE Restart
  <2>1. Outstanding' = {} /\ pending_order_count' = 0
    BY <1>5, EmptySeq DEF Restart, IdleWorker, Outstanding
  <2> QED BY <1>0, <2>1
<1> QED
  BY <1>1, <1>2, <1>3, <1>4, <1>5, ExecutionWorkerSteps
  DEF Next, StrategyTickWorker, Environment

\* What is outstanding after a tick is what the tick issued.
LEMMA TickOutstanding ==
  ASSUME TypeInv, NEW side \in Sides, Tick(side)
  PROVE  /\ Outstanding' \subseteq Issuable
         /\ Outstanding' # {} => state'.side # NONE
         /\ state.side = NONE => pending_order_count' <= 1
<1>1. worker'.pc = "idle" /\ queue' \in Seq(Issuable)
  BY TickQueue DEF Tick
<1>2. Outstanding' = {queue'[i] : i \in 1..Len(queue')}
  BY <1>1 DEF Outstanding
<1>3. \A i \in 1..Len(queue') : queue'[i] \in Issuable
  BY <1>1, ElementOfSeq
<1>4. Outstanding' # {} => queue' # <<>>
  BY <1>2, EmptySeq
<1> QED BY <1>2, <1>3, <1>4, TickQueue

-----------------------------------------------------------------------------
(* Halts.                                                                  *)

\* The halt allows no tick to queue an entry while a flat is settled, and
\* nothing lifts it before the settlement does.
LEMMA SettlementStep ==
  ASSUME TypeInv, TypeInv', SettlementNeverDropsEntry, Next
  PROVE  SettlementNeverDropsEntry'
<1> SUFFICES ASSUME sync'.pc = "settle"
             PROVE  trading_halted' /\ \A c \in Outstanding' : c.intent \notin ENTRY_INTENTS
  BY DEF SettlementNeverDropsEntry, Outstanding
<1>1. ASSUME NEW side \in Sides, Tick(side)
      PROVE  trading_halted' /\ \A c \in Outstanding' : c.intent \notin ENTRY_INTENTS
  <2>1. trading_halted /\ trading_halted'
    BY <1>1, TickQueue DEF Tick, SettlementNeverDropsEntry
  <2>2. \A c \in Issuable : c.intent \notin ENTRY_INTENTS
    BY <2>1 DEF Issuable, Allowed, allowed_intents_for_halt_mode, ENTRY_INTENTS,
                POSITION_MANAGEMENT_INTENTS
  <2> QED BY <1>1, <2>1, <2>2, TickOutstanding
<1>2. CASE SyncFlatDetected
  <2>1. queue = <<>> /\ worker.pc = "idle"
    BY <1>2, Quiescent DEF SyncFlatDetected, flat_transition_detected
  <2>2. Outstanding' = {}
    BY <1>2, <2>1, EmptySeq DEF SyncFlatDetected, Outstanding
  <2> QED BY <1>2, <2>2 DEF SyncFlatDetected
<1>3. CASE ~SyncFlatDetected /\ ~\E side \in Sides : Tick(side)
  <2>1. ~AccountSyncWorker /\ ~Restart
    <3>1. ~AccountSyncWorker
      BY <1>3, SyncSteppings
    <3>2. ~Restart
      BY DEF Restart, SleepingSync
    <3> QED BY <3>1, <3>2
  <2>2. sync' = sync
    BY <2>1, SyncFrame DEF Next, Environment
  <2>3. trading_halted => trading_halted'
    <3>1. CASE StrategyTickQueueFull \/ Time \/ PositionCloses \/ ManualTrade \/ LateFill
      BY <3>1 DEF StrategyTickQueueFull, Time, DeadlinePasses, HaltExpires,
                  PositionCloses, ManualTrade, LateFill, RuntimeUnchanged, execution_state
    <3>2. CASE ExecutionWorker
      BY <3>2
      DEF ExecutionWorker, TakeCommand, EntryCashFetched, CommandRaises, EntryFills,
          EntryFillsUnseen, EntryProtected, EntryUnprotected, UpdateSucceeds, UpdateFails,
          RunnerExits, RunnerExitApplied, RunnerExitFails,
          UpdateFailureAlerted, EntryFailureAlerted, FailureFetched, FailureApplied,
          FailureMailed, FailureHandled, arm_delayed_market_exit, execution_state
    <3> QED BY <1>3, <2>1, <3>1, <3>2 DEF Next, StrategyTickWorker, Environment
  <2>4. trading_halted /\ \A c \in Outstanding : c.intent \notin ENTRY_INTENTS
    BY <2>2 DEF SettlementNeverDropsEntry, Outstanding
  <2> QED BY <1>3, <2>3, <2>4, OutstandingStep
<1> QED BY <1>1, <1>2, <1>3

\* Every reason is a full halt but the two of the rolling-loss guard.
LEMMA FullHaltReasons ==
  /\ \A reason \in DmeArmReasons : resolve_halt_mode(reason) = FULL_HALT
  /\ \A reason \in ROLLING_LOSS_HALT_REASONS : resolve_halt_mode(reason) # FULL_HALT
  /\ resolve_halt_mode("execution_failure_live_position") = FULL_HALT
  /\ resolve_halt_mode("trend_runner_market_exit_waiting_flat") = FULL_HALT
  /\ resolve_halt_mode("order_failure_dme_waiting_flat") = FULL_HALT
  /\ resolve_halt_mode("order_failure_dme_failed") = FULL_HALT
  /\ "core_tp_place_failed_dme_armed" \in DmeArmReasons
  /\ "protective_sl_failed_dme_armed" \in DmeArmReasons
  BY DEF resolve_halt_mode, FULL_HALT, ENTRY_HALT, ROLLING_LOSS_HALT_REASONS, HaltReasons,
         DmeArmReasons

\* Arming the delayed exit halts fully ...
LEMMA ArmingHalts ==
  ASSUME NEW side, NEW reason \in DmeArmReasons, arm_delayed_market_exit(side, reason)
  PROVE  ArmedMeansFullHalt'
  BY FullHaltReasons DEF arm_delayed_market_exit, ArmedMeansFullHalt

\* ... a handled failure halts fully or goes back to a state without an exit ...
LEMMA FailureHandledHalts ==
  ASSUME ArmedMeansFullHalt, Cmd.snapshot.dme = "CLEARED",
         NEW live, NEW contracts, FailureHandled(live, contracts)
  PROVE  ArmedMeansFullHalt'
  BY FullHaltReasons DEF FailureHandled, ArmedMeansFullHalt, Armed

\* ... and a new state has none.
LEMMA NewStateUnarmed == \A side : NewState(side).dme = "CLEARED" /\ NewState(side).side = side
  BY DEF NewState

\* Clearing the delayed exit of a state leaves it unarmed, its side as it was.
LEMMA ClearedUnarmed ==
  ASSUME NEW s \in StrategyPositionState
  PROVE  /\ clear_delayed_market_exit(s).dme = "CLEARED"
         /\ clear_delayed_market_exit(s).side = s.side
  BY DEF StrategyPositionState, clear_delayed_market_exit

\* The end of a rolling-loss halt lifts no full halt.
LEMMA ResumeKeepsArmed ==
  ASSUME ArmedMeansFullHalt, RollingLossResume, state' = state
  PROVE  ArmedMeansFullHalt'
  BY FullHaltReasons DEF RollingLossResume, ArmedMeansFullHalt, Armed

\* An armed exit keeps the full halt: what lifts a halt clears the exit with it.
LEMMA ArmedStep ==
  ASSUME TypeInv, TypeInv', ArmedMeansFullHalt, RollbackIsSound, Next
  PROVE  ArmedMeansFullHalt'
<1>0. state \in StrategyPositionState
  BY DEF TypeInv, TypeOK
<1>1. CASE \/ TakeCommand \/ EntryCashFetched \/ CommandRaises \/ EntryFills
           \/ EntryFillsUnseen \/ EntryProtected \/ UpdateSucceeds \/ RunnerExits
           \/ RunnerExitFails \/ EntryFailureAlerted \/ FailureFetched \/ FailureMailed
           \/ SyncFetch \/ DmeTerminal \/ DmeDue \/ StopsFailureAlerted
           \/ HaltExpires \/ PositionCloses \/ ManualTrade \/ LateFill
           \/ \E ok \in BOOLEAN : DmeExits(ok)
  <2>1. UNCHANGED <<state, trading_halted, halt_reason>>
    BY <1>1
    DEF TakeCommand, EntryCashFetched, CommandRaises, EntryFills, EntryFillsUnseen,
        EntryProtected, UpdateSucceeds, RunnerExits, RunnerExitFails, EntryFailureAlerted,
        FailureFetched, FailureMailed, SyncFetch, DmeTerminal, DmeDue, StopsFailureAlerted,
        HaltExpires, PositionCloses, ManualTrade, LateFill, DmeExits, RuntimeUnchanged,
        execution_state
  <2> QED BY <2>1 DEF ArmedMeansFullHalt, Armed
<1>2. CASE EntryUnprotected \/ UpdateFails \/ StopsFail
  BY <1>2, ArmingHalts, ArmReasonType, FullHaltReasons DEF EntryUnprotected, UpdateFails, StopsFail
<1>3. CASE UpdateFailureAlerted \/ FailureApplied
  <2>1. worker.pc # "idle"
    BY <1>3 DEF UpdateFailureAlerted, FailureApplied
  <2>2. Cmd.snapshot.dme = "CLEARED"
    BY <2>1, HeldIsOutstanding DEF RollbackIsSound
  <2> QED
    BY <1>3, <2>2, FailureHandledHalts DEF UpdateFailureAlerted, FailureApplied
<1>4. CASE SyncNothingHeld \/ SettleFinish
  BY <1>4, ResumeKeepsArmed DEF SyncNothingHeld, SettleFinish
<1>5. CASE SyncHeld \/ DmeSideGoneMailed
  <2>1. TpProgress /\ UNCHANGED <<trading_halted, halt_reason>>
    BY <1>5 DEF SyncHeld, DmeSideGoneMailed, execution_state
  <2> QED BY <2>1, TpProgressFrame DEF TypeInv, ArmedMeansFullHalt, Armed
<1>6. CASE DmeSideGone \/ SettleReset \/ Restart
  BY <1>0, <1>6, NewStateUnarmed, ClearedUnarmed
  DEF DmeSideGone, SettleReset, ResetPosition, Restart, ArmedMeansFullHalt, Armed
<1>7. CASE RunnerExitApplied \/ DmeExitMarked \/ DmeExitFailed
  BY <1>7, FullHaltReasons
  DEF RunnerExitApplied, DmeExitMarked, DmeExitFailed, DmeMarked, ArmedMeansFullHalt
<1>8. CASE \/ StopsPlaced \/ DeadlinePasses \/ SyncFlatDetected \/ StrategyTickQueueFull
  <2>1. /\ state'.dme = state.dme /\ halt_reason' = halt_reason
        /\ trading_halted => trading_halted'
    BY <1>0, <1>8
    DEF StopsPlaced, DeadlinePasses, SyncFlatDetected, StrategyTickQueueFull,
        execution_state, StrategyPositionState
  <2> QED BY <2>1 DEF ArmedMeansFullHalt, Armed
<1>9. ASSUME NEW side \in Sides, Tick(side) PROVE ArmedMeansFullHalt'
  <2>1. state'.dme = state.dme
    BY <1>0, <1>9, TickQueue DEF StrategyPositionState
  <2>2. ~Armed
    BY <1>9 DEF Tick, TickRuns, ArmedMeansFullHalt
  <2> QED BY <2>1, <2>2 DEF ArmedMeansFullHalt, Armed
<1> QED
  BY <1>1, <1>2, <1>3, <1>4, <1>5, <1>6, <1>7, <1>8, <1>9
  DEF Next, StrategyTickWorker, ExecutionWorker, AccountSyncWorker, Time, Environment

-----------------------------------------------------------------------------
(* Rollbacks, and the side and the id of the position.                     *)

\* A tick remembers a state without an exit; an opening is issued only when no
\* position has an id, and no other command runs beside it.
LEMMA RollbackStep ==
  ASSUME TypeInv, TypeInv', ArmedMeansFullHalt, NamedPositionIsTracked, RollbackIsSound, Next
  PROVE  RollbackIsSound'
<1>1. CASE \E side \in Sides : Tick(side)
  <2>1. PICK side \in Sides : Tick(side)
    BY <1>1
  <2>2. state.dme = "CLEARED"
    BY <2>1 DEF Tick, TickRuns, ArmedMeansFullHalt, Armed
  <2>3. state.side = NONE => current_position_id' = NO_ID /\ pending_order_count' <= 1
    BY <2>1, TickOutstanding DEF Tick, NamedPositionIsTracked
  <2>4. \A c \in Outstanding' : c \in Issuable
    BY <2>1, TickOutstanding
  <2> QED BY <2>2, <2>3, <2>4 DEF RollbackIsSound, Issuable
<1>2. CASE ~\E side \in Sides : Tick(side)
  <2> SUFFICES ASSUME NEW c \in Outstanding', c.intent = "OPEN"
               PROVE  current_position_id' = NO_ID /\ pending_order_count' <= 1
    BY <1>2, OutstandingStep DEF RollbackIsSound
  <2>1. c \in Outstanding /\ current_position_id = NO_ID /\ pending_order_count <= 1
        /\ pending_order_count' <= pending_order_count
    BY <1>2, OutstandingStep DEF RollbackIsSound
  <2>2. pending_order_count' <= 1
    BY <2>1 DEF TypeInv, TypeOK
  <2>3. CASE EntryProtected
    <3>1. worker'.pc = "idle" /\ queue' = queue /\ worker.pc # "idle"
      BY <2>3 DEF EntryProtected, CommandDone, IdleWorker
    <3>2. Len(queue) = 0
      BY <2>1, <3>1, LenProperties DEF TypeInv, TypeOK, PendingIsOutstandingWork
    <3>3. Outstanding' = {}
      BY <3>1, <3>2 DEF Outstanding
    <3> QED BY <3>3
  <2>4. CASE Restart
    <3>1. Outstanding' = {}
      BY <2>4, EmptySeq DEF Outstanding, Restart, IdleWorker
    <3> QED BY <3>1
  <2>5. CASE SettleReset
    BY <2>2, <2>5 DEF SettleReset, ResetPosition
  <2> QED BY <2>1, <2>2, <2>3, <2>4, <2>5, PositionIdFrame
<1> QED BY <1>1, <1>2

\* The side tracked is lost only to a settlement, a crash or a rollback.
LEMMA SideStep ==
  ASSUME TypeInv, SyncPositionHeld, Next
  PROVE  \/ state'.side \in {state.side} \cup Sides
         \/ SettleReset
         \/ Restart
         \/ /\ state' = Cmd.snapshot
            /\ worker.pc # "idle" /\ worker'.pc = "mail"
            /\ queue' = queue
<1>0. state \in StrategyPositionState /\ worker \in ExecutionWorkerState
  BY DEF TypeInv, TypeOK
<1>1. CASE \/ TakeCommand \/ EntryCashFetched \/ CommandRaises \/ EntryFills
           \/ EntryFillsUnseen \/ EntryProtected \/ UpdateSucceeds \/ RunnerExits
           \/ RunnerExitApplied \/ RunnerExitFails \/ EntryFailureAlerted
           \/ FailureFetched \/ FailureMailed \/ SyncFetch \/ SyncFlatDetected
           \/ SyncNothingHeld \/ DmeTerminal \/ DmeDue \/ StopsFailureAlerted
           \/ SettleFinish \/ HaltExpires \/ PositionCloses \/ ManualTrade \/ LateFill
           \/ StrategyTickQueueFull \/ \E ok \in BOOLEAN : DmeExits(ok)
  <2>1. state' = state
    BY <1>1
    DEF TakeCommand, EntryCashFetched, CommandRaises, EntryFills, EntryFillsUnseen,
        EntryProtected, UpdateSucceeds, RunnerExits, RunnerExitApplied, RunnerExitFails,
        EntryFailureAlerted, FailureFetched, FailureMailed, SyncFetch, SyncFlatDetected,
        SyncNothingHeld, DmeTerminal, DmeDue, StopsFailureAlerted, SettleFinish,
        HaltExpires, PositionCloses, ManualTrade, LateFill, DmeExits, RuntimeUnchanged,
        StrategyTickQueueFull
  <2> QED BY <2>1
<1>2. CASE \/ EntryUnprotected \/ UpdateFails \/ StopsFail \/ StopsPlaced
           \/ DmeExitMarked \/ DmeExitFailed \/ DeadlinePasses
  <2>1. state'.side = state.side
    BY <1>0, <1>2
    DEF EntryUnprotected, UpdateFails, StopsFail, StopsPlaced, DmeExitMarked,
        DmeExitFailed, DmeMarked, DeadlinePasses, arm_delayed_market_exit,
        AfterArm, AfterMark, StrategyPositionState
  <2> QED BY <2>1
<1>3. CASE HandlesFailure
  BY <1>3, HandlesFailureFrame DEF TypeInv
<1>4. CASE SyncHeld \/ DmeSideGoneMailed
  <2>1. TpProgress /\ sync.pos # NONE
    BY <1>4 DEF SyncHeld, DmeSideGoneMailed, SyncPositionHeld
  <2>2. state'.side \in Sides
    BY <2>1, TpProgressFrame DEF TypeInv
  <2> QED BY <2>2
<1>5. CASE DmeSideGone
  BY <1>0, <1>5, ClearedUnarmed DEF DmeSideGone
<1>6. ASSUME NEW side \in Sides, Tick(side) PROVE state'.side \in {state.side} \cup Sides
  BY <1>0, <1>6, TickQueue DEF StrategyPositionState
<1> QED
  BY <1>1, <1>2, <1>3, <1>4, <1>5, <1>6
  DEF Next, StrategyTickWorker, ExecutionWorker, HandlesFailure, AccountSyncWorker, Time, Environment

\* A rollback to no side at all is that of an opening, beside which nothing is
\* queued and no position has an id.
LEMMA OpeningIsAlone ==
  ASSUME TypeInv, RollbackIsSound, worker.pc # "idle", Cmd.snapshot.side = NONE
  PROVE  queue = <<>> /\ current_position_id = NO_ID
<1>1. pending_order_count <= 1 /\ current_position_id = NO_ID
  BY HeldIsOutstanding DEF RollbackIsSound
<1>2. queue \in Seq(TradeCommand) /\ Len(queue) \in Nat
  BY LenProperties DEF TypeInv, TypeOK
<1>3. Len(queue) = 0
  BY <1>1, <1>2 DEF TypeInv, PendingIsOutstandingWork
<1> QED BY <1>1, <1>2, <1>3, EmptySeq

\* Every step that names a position or stops tracking it keeps the two together.
LEMMA NamedStep ==
  ASSUME TypeInv, TypeInv', NamedPositionIsTracked, RollbackIsSound, EntriesAreTracked,
         SyncPositionHeld, Next
  PROVE  NamedPositionIsTracked'
<1>0. NONE \notin Sides
  BY ConstantsAssumption
<1> SUFFICES ASSUME current_position_id' # NO_ID
             PROVE  state'.side # NONE
  BY DEF NamedPositionIsTracked
<1>1. CASE EntryProtected
  <2>1. state' = state
    BY <1>1 DEF EntryProtected
  <2>2. state.side # NONE
    BY <1>1 DEF EntryProtected, EntriesAreTracked
  <2> QED BY <2>1, <2>2
<1>2. CASE Restart
  <2>1. position # NONE /\ state' = NewState(position)
    BY <1>2 DEF Restart
  <2> QED BY <2>1, NewStateUnarmed
<1>3. CASE ~EntryProtected /\ ~Restart
  <2>1. ~SettleReset
    BY DEF SettleReset, ResetPosition
  <2>2. current_position_id # NO_ID /\ state.side # NONE
    BY <1>3, <2>1, PositionIdFrame DEF NamedPositionIsTracked
  <2>3. CASE /\ state' = Cmd.snapshot
             /\ worker.pc # "idle"
    BY <2>2, <2>3, OpeningIsAlone
  <2> QED BY <1>0, <1>3, <2>1, <2>2, <2>3, SideStep
<1> QED BY <1>1, <1>2, <1>3

\* Some entry is queued, or in hand and not yet given up.
LiveEntry ==
  \/ worker.pc \notin {"idle", "mail"} /\ Cmd.intent \in ENTRY_INTENTS
  \/ \E i \in 1..Len(queue) : queue[i].intent \in ENTRY_INTENTS

\* Only a tick makes an entry live.
LEMMA LiveEntryStep ==
  ASSUME TypeInv, TypeInv', Next, LiveEntry', ~\E side \in Sides : Tick(side)
  PROVE  LiveEntry
<1>0. TypeOK
  BY DEF TypeInv
<1>1. CASE Proceeds
  BY <1>0, <1>1, ProceedsFrame DEF LiveEntry, Cmd
<1>2. CASE HandlesFailure
  BY <1>0, <1>2, HandlesFailureFrame DEF LiveEntry
<1>3. CASE Finishes
  BY <1>3, FinishesFrame DEF LiveEntry
<1>4. CASE TakeCommand
  <2>1. \E c \in Outstanding' : c.intent \in ENTRY_INTENTS
    BY DEF LiveEntry, Outstanding
  <2>2. worker.pc = "idle" /\ \E c \in Outstanding : c.intent \in ENTRY_INTENTS
    BY <1>0, <1>4, <2>1, OutstandingStep, TakeCommandFrame
  <2> QED BY <2>2 DEF LiveEntry, Outstanding
<1>5. CASE \/ StrategyTickQueueFull \/ AccountSyncWorker \/ Time
           \/ PositionCloses \/ ManualTrade \/ LateFill
  BY <1>5, CommandsFrame DEF LiveEntry, Cmd
<1>6. CASE Restart
  BY <1>6, EmptySeq DEF Restart, IdleWorker, LiveEntry
<1> QED
  BY <1>1, <1>2, <1>3, <1>4, <1>5, <1>6, ExecutionWorkerSteps
  DEF Next, StrategyTickWorker, Environment

\* Only an entry reaches the protective orders, and while one is live the side
\* it opens or adds to stays tracked.
LEMMA EntriesStep ==
  ASSUME TypeInv, TypeInv', SettlementNeverDropsEntry, RollbackIsSound,
         EntriesAreTracked, SyncPositionHeld, Next
  PROVE  EntriesAreTracked'
<1>0. NONE \notin Sides /\ TypeOK
  BY ConstantsAssumption DEF TypeInv
<1>1. ASSUME worker'.pc = "protect" PROVE Cmd'.intent \in ENTRY_INTENTS
  <2>1. CASE Proceeds
    BY <1>0, <1>1, <2>1, ProceedsFrame DEF EntryFills, Cmd
  <2>2. CASE TakeCommand \/ HandlesFailure \/ Finishes \/ Restart
    BY <1>0, <1>1, <2>2, TakeCommandFrame, HandlesFailureFrame, FinishesFrame
    DEF Restart, IdleWorker
  <2>3. CASE \/ StrategyTickWorker \/ AccountSyncWorker \/ Time
             \/ PositionCloses \/ ManualTrade \/ LateFill
    <3>1. worker' = worker
      BY <2>3, CommandsFrame DEF StrategyTickWorker, Tick
    <3> QED BY <1>1, <3>1 DEF EntriesAreTracked, Cmd
  <2> QED BY <2>1, <2>2, <2>3, ExecutionWorkerSteps DEF Next, Environment
<1>2. ASSUME LiveEntry' PROVE state'.side # NONE
  <2>1. CASE \E side \in Sides : Tick(side)
    <3>1. Outstanding' # {}
      BY <1>2 DEF LiveEntry, Outstanding
    <3> QED BY <2>1, <3>1, TickOutstanding
  <2>2. CASE ~\E side \in Sides : Tick(side)
    <3>1. LiveEntry /\ state.side # NONE
      BY <1>2, <2>2, LiveEntryStep DEF EntriesAreTracked, LiveEntry
    <3>2. CASE SettleReset
      BY <3>1, <3>2 DEF SettleReset, SettlementNeverDropsEntry, LiveEntry
    <3>3. CASE Restart
      BY <1>2, <3>3, EmptySeq DEF Restart, IdleWorker, LiveEntry
    <3>4. CASE /\ state' = Cmd.snapshot
               /\ worker.pc # "idle" /\ worker'.pc = "mail"
               /\ queue' = queue
      <4>1. queue # <<>>
        BY <1>2, <3>4, EmptySeq DEF LiveEntry
      <4> QED BY <3>4, <4>1, OpeningIsAlone
    <3> QED BY <1>0, <3>1, <3>2, <3>3, <3>4, SideStep
  <2> QED BY <2>1, <2>2
<1> QED BY <1>1, <1>2 DEF EntriesAreTracked, LiveEntry

-----------------------------------------------------------------------------
(* The delayed exit's one order.                                           *)

\* Between its arming and its mark an exit is ordered at most once: arming
\* starts the count anew, and the order and the mark follow each other in the
\* account sync worker whatever the other workers do between them.
LEMMA ExitStep ==
  ASSUME TypeInv, TypeInv', AtMostOneExitPerArm, ArmedExitIsUnsent, RollbackIsSound, Next
  PROVE  AtMostOneExitPerArm' /\ ArmedExitIsUnsent'
<1> USE DEF AtMostOneExitPerArm, ArmedExitIsUnsent
<1>0. state \in StrategyPositionState /\ TypeOK
  BY DEF TypeInv, TypeOK
<1>1. CASE EntryUnprotected \/ UpdateFails \/ StopsFail
  BY <1>1 DEF EntryUnprotected, UpdateFails, StopsFail, arm_delayed_market_exit
<1>2. ASSUME NEW ok \in BOOLEAN, DmeExits(ok)
      PROVE  AtMostOneExitPerArm' /\ ArmedExitIsUnsent'
  <2>1. exits' = 1
    BY <1>2 DEF DmeExits
  <2>2. sync'.pc \in {"exited", "exit_failed"}
    <3>1. sync \in AccountSyncState
      BY <1>0 DEF TypeOK
    <3> QED BY <1>2, <3>1 DEF DmeExits, AccountSyncState
  <2> QED BY <2>1, <2>2
<1>3. CASE DmeExitMarked \/ DmeExitFailed
  <2>1. exits' = exits /\ sync' = SleepingSync /\ state'.dme # "ARMED"
    BY <1>0, <1>3 DEF DmeExitMarked, DmeExitFailed, DmeMarked, AfterMark, history,
                      StrategyPositionState
  <2> QED BY <2>1 DEF SleepingSync
<1>4. CASE DmeDue
  BY <1>4 DEF DmeDue, history
<1>5. CASE Restart
  <2>1. exits' = exits /\ sync' = SleepingSync /\ state'.dme = "CLEARED"
    BY <1>5, NewStateUnarmed DEF Restart
  <2> QED BY <2>1 DEF SleepingSync
<1>6. ASSUME exits' = exits, state'.dme \in {state.dme, "CLEARED"},
             \/ sync'.pc = sync.pc
             \/ sync.pc \notin {"exited", "exit_failed"} /\ sync'.pc # "exit"
      PROVE  AtMostOneExitPerArm' /\ ArmedExitIsUnsent'
  BY <1>6
<1>7. CASE StrategyTickWorker
  <2>1. exits' = exits /\ sync' = sync
    BY <1>7, SyncFrame DEF StrategyTickWorker, StrategyTickQueueFull, Tick, history
  <2>2. state'.dme = state.dme
    BY <1>0, <1>7, TickQueue
    DEF StrategyTickWorker, StrategyTickQueueFull, StrategyPositionState
  <2> QED BY <1>6, <2>1, <2>2
<1>8. CASE HandlesFailure
  <2>1. exits' = exits /\ sync' = sync
    BY <1>0, <1>8, HandlesFailureFrame, SyncFrame, ExecutionWorkerSteps
  <2>2. state'.dme \in {state.dme, "CLEARED"}
    BY <1>0, <1>8, HandlesFailureFrame, HeldIsOutstanding DEF RollbackIsSound
  <2> QED BY <1>6, <2>1, <2>2
<1>9. CASE ExecutionWorker /\ ~HandlesFailure /\ ~EntryUnprotected /\ ~UpdateFails
  <2>1. exits' = exits /\ sync' = sync /\ state' = state
    BY <1>9
    DEF ExecutionWorker, HandlesFailure, TakeCommand, EntryCashFetched, CommandRaises,
        EntryFills, EntryFillsUnseen, EntryProtected, UpdateSucceeds, RunnerExits,
        RunnerExitApplied, RunnerExitFails, EntryFailureAlerted, FailureFetched,
        FailureMailed, history
  <2> QED BY <1>6, <2>1
<1>10. CASE \/ SyncFetch \/ SyncFlatDetected \/ SyncNothingHeld \/ DmeSideGone
            \/ DmeTerminal \/ StopsPlaced \/ StopsFailureAlerted \/ SettleReset
            \/ SettleFinish
  <2>1. exits' = exits /\ sync.pc \notin {"exited", "exit_failed"}
    BY <1>10 DEF SyncFetch, SyncFlatDetected, SyncNothingHeld, DmeSideGone, DmeTerminal,
                 StopsPlaced, StopsFailureAlerted, SettleReset, SettleFinish, history
  <2>2. state'.dme \in {state.dme, "CLEARED"}
    BY <1>0, <1>10, NewStateUnarmed, ClearedUnarmed
    DEF SyncFetch, SyncFlatDetected, SyncNothingHeld, DmeSideGone, DmeTerminal,
        StopsPlaced, StopsFailureAlerted, SettleReset, ResetPosition, SettleFinish,
        StrategyPositionState
  <2>3. AccountSyncWorker
    BY <1>10 DEF AccountSyncWorker
  <2>4. ~DmeDue
    BY <1>10, <2>1
    DEF SyncFetch, SyncFlatDetected, SyncNothingHeld, DmeSideGone, DmeTerminal,
        StopsPlaced, StopsFailureAlerted, SettleReset, SettleFinish, DmeDue,
        flat_transition_detected
  <2>5. sync'.pc # "exit"
    BY <2>3, <2>4, SyncSteppings
  <2> QED BY <1>6, <2>1, <2>2, <2>5
<1>11. CASE SyncHeld \/ DmeSideGoneMailed
  <2>1. TpProgress /\ exits' = exits /\ sync.pc \in {"core", "cleared"}
    BY <1>11 DEF SyncHeld, DmeSideGoneMailed, history
  <2> QED BY <1>0, <1>6, <2>1, TpProgressFrame
<1>12. CASE Time \/ PositionCloses \/ ManualTrade \/ LateFill
  <2>1. exits' = exits /\ state'.dme = state.dme
    BY <1>0, <1>12 DEF Time, DeadlinePasses, HaltExpires, PositionCloses, ManualTrade,
                       LateFill, RuntimeUnchanged, history, StrategyPositionState
  <2> QED BY <1>6, <1>12, <2>1, SyncFrame
<1> QED
  BY <1>1, <1>2, <1>3, <1>4, <1>5, <1>7, <1>8, <1>9, <1>10, <1>11, <1>12
  DEF Next, AccountSyncWorker, Environment

\* A command is taken only when no exit is armed, and only the protective stops
\* of the account sync arm one beside it.
LEMMA OvertakenStep ==
  ASSUME TypeInv, TypeInv', ArmedMeansFullHalt, NoCommandStartsUnderArmedExit, Next
  PROVE  NoCommandStartsUnderArmedExit'
<1> USE DEF NoCommandStartsUnderArmedExit, Armed
<1>0. state \in StrategyPositionState /\ TypeOK
  BY DEF TypeInv, TypeOK
<1>1. CASE TakeCommand
  <2>1. Armed => worker'.pc = "idle"
    BY <1>1, <1>0
    DEF TakeCommand, Allowed, ArmedMeansFullHalt, allowed_intents_for_halt_mode,
        CommandDone, IdleWorker, FULL_HALT, ENTRY_HALT
  <2>2. state' = state
    BY <1>1 DEF TakeCommand
  <2> QED BY <2>1, <2>2
<1>2. CASE EntryCashFetched
  BY <1>2 DEF EntryCashFetched
<1>3. CASE ExecutionWorker /\ ~TakeCommand /\ ~EntryCashFetched
  <2>1. DOMAIN worker = {"pc", "cmd", "id", "filled", "ok", "live"}
    BY <1>0 DEF TypeOK, ExecutionWorkerState
  <2>2. CASE HandlesFailure \/ Finishes
    BY <1>0, <2>2, HandlesFailureFrame, FinishesFrame
  <2>3. CASE CommandRaises \/ EntryFills \/ EntryFillsUnseen \/ EntryUnprotected
    BY <2>1, <2>3 DEF CommandRaises, EntryFills, EntryFillsUnseen, EntryUnprotected
  <2>4. CASE UpdateFails \/ RunnerExits \/ RunnerExitFails \/ EntryFailureAlerted
             \/ FailureFetched
    BY <2>1, <2>4 DEF UpdateFails, RunnerExits, RunnerExitFails, EntryFailureAlerted,
                      FailureFetched
  <2> QED BY <1>3, <2>2, <2>3, <2>4, ExecutionWorkerSteps DEF Proceeds
<1>4. ASSUME NEW side \in Sides, Tick(side)
      PROVE  NoCommandStartsUnderArmedExit'
  BY <1>4, TickQueue DEF Tick
<1>5. CASE Restart
  BY <1>5 DEF Restart, IdleWorker
<1>6. CASE StopsFail
  BY <1>6 DEF StopsFail, arm_delayed_market_exit, AfterArm
<1>7. ASSUME worker' = worker, state'.dme = "CLEARED" \/ (Armed /\ state'.reason = state.reason)
      PROVE  NoCommandStartsUnderArmedExit'
  BY <1>7
<1>8. CASE AccountSyncWorker /\ ~StopsFail
  <2>1. worker' = worker
    BY <1>8, CommandsFrame
  <2>2. CASE \/ SyncFetch \/ SyncFlatDetected \/ SyncNothingHeld \/ DmeTerminal \/ DmeDue
             \/ StopsPlaced \/ StopsFailureAlerted \/ SettleFinish
             \/ \E ok \in BOOLEAN : DmeExits(ok)
    <3>1. state'.dme = state.dme /\ state'.reason = state.reason
      BY <1>0, <2>2
      DEF SyncFetch, SyncFlatDetected, SyncNothingHeld, DmeTerminal, DmeDue, DmeExits,
          StopsPlaced, StopsFailureAlerted, SettleFinish, StrategyPositionState
    <3> QED BY <1>0, <1>7, <2>1, <3>1 DEF StrategyPositionState, DmeStatuses
  <2>3. CASE DmeExitMarked \/ DmeExitFailed
    <3>1. state' = state \/ (Armed /\ state'.reason = state.reason)
      BY <1>0, <2>3 DEF DmeExitMarked, DmeExitFailed, DmeMarked, AfterMark,
                        StrategyPositionState
    <3> QED BY <1>7, <2>1, <3>1
  <2>4. CASE SettleReset \/ DmeSideGone
    <3>1. state'.dme = "CLEARED"
      BY <1>0, <2>4, NewStateUnarmed, ClearedUnarmed DEF SettleReset, ResetPosition, DmeSideGone
    <3> QED BY <1>7, <2>1, <3>1
  <2>5. CASE SyncHeld \/ DmeSideGoneMailed
    <3>1. TpProgress
      BY <2>5 DEF SyncHeld, DmeSideGoneMailed
    <3>2. AdoptedState = state \/ AdoptedState.dme = "CLEARED"
      BY NewStateUnarmed DEF AdoptedState
    <3>3. AdoptedState \in StrategyPositionState
      BY <1>0, NewStateType DEF AdoptedState, TypeOK, AccountSyncState
    <3>4. state'.dme = AdoptedState.dme /\ state'.reason = AdoptedState.reason
      BY <3>1, <3>3 DEF TpProgress, StrategyPositionState
    <3>5. state'.dme = "CLEARED" \/ (state'.dme = state.dme /\ state'.reason = state.reason)
      BY <3>2, <3>4
    <3> QED BY <1>7, <2>1, <3>5
  <2> QED BY <1>8, <2>2, <2>3, <2>4, <2>5 DEF AccountSyncWorker
<1>9. CASE StrategyTickQueueFull \/ Time \/ PositionCloses \/ ManualTrade \/ LateFill
  <2>1. worker' = worker
    BY <1>9, CommandsFrame
  <2>2. state'.dme = "CLEARED" \/ (Armed /\ state'.reason = state.reason)
    BY <1>0, <1>9
    DEF StrategyTickQueueFull, Time, DeadlinePasses, HaltExpires, PositionCloses,
        ManualTrade, LateFill, RuntimeUnchanged, StrategyPositionState
  <2> QED BY <1>7, <2>1, <2>2
<1> QED
  BY <1>1, <1>2, <1>3, <1>4, <1>5, <1>6, <1>8, <1>9
  DEF Next, StrategyTickWorker, Environment

\* The exit is cleared for its side only in a cycle that found a position.
LEMMA SyncPositionHeldStep ==
  ASSUME TypeInv, TypeInv', SyncPositionHeld, Next
  PROVE  SyncPositionHeld'
<1> SUFFICES ASSUME sync'.pc = "cleared" PROVE sync'.pos # NONE
  BY DEF SyncPositionHeld
<1>1. CASE AccountSyncWorker
  <2>1. DmeSideGone /\ sync'.pos = sync.pos
    BY <1>1, SyncSteppings
  <2> QED BY <2>1 DEF DmeSideGone
<1>2. CASE Restart
  BY <1>2 DEF Restart, SleepingSync
<1>3. CASE ~AccountSyncWorker /\ ~Restart
  BY <1>3, SyncFrame DEF Next, Environment, SyncPositionHeld
<1> QED BY <1>1, <1>2, <1>3

-----------------------------------------------------------------------------
(* The theorems.                                                           *)

\* The invariant holds initially: nothing runs, nothing is armed.
LEMMA InitIInv == Init => IInv
<1> SUFFICES ASSUME Init PROVE IInv
  OBVIOUS
<1>1. TypeInv
  BY InitInv
<1>2. Outstanding = {} /\ Len(queue) = 0
  BY EmptySeq DEF Init, IdleWorker, Outstanding
<1>3. SettlementNeverDropsEntry /\ SyncPositionHeld /\ ArmedExitIsUnsent
  BY DEF Init, SleepingSync, NewState, SettlementNeverDropsEntry, SyncPositionHeld,
         ArmedExitIsUnsent
<1>4. ArmedMeansFullHalt /\ NamedPositionIsTracked /\ AtMostOneExitPerArm
  BY DEF Init, NewState, ArmedMeansFullHalt, Armed, NamedPositionIsTracked,
         AtMostOneExitPerArm
<1>6. NoCommandStartsUnderArmedExit
  BY DEF Init, NewState, NoCommandStartsUnderArmedExit, Armed
<1>5. RollbackIsSound /\ EntriesAreTracked
  BY <1>2 DEF Init, IdleWorker, RollbackIsSound, EntriesAreTracked
<1> QED BY <1>1, <1>3, <1>4, <1>5, <1>6 DEF IInv, TypeInv

\* Every step of the runtime, and a stutter, preserves the invariant.
LEMMA IInvStep == IInv /\ [Next]_vars => IInv'
<1> SUFFICES ASSUME IInv, [Next]_vars PROVE IInv'
  OBVIOUS
<1>1. TypeInv /\ TypeInv'
  BY TypeInvStep DEF IInv, TypeInv
<1>2. CASE Next
  BY <1>1, <1>2, SettlementStep, ArmedStep, NamedStep, RollbackStep, EntriesStep, ExitStep,
     OvertakenStep, SyncPositionHeldStep
  DEF IInv, TypeInv
<1>3. CASE UNCHANGED vars
  <2>1. SettlementNeverDropsEntry' /\ SyncPositionHeld' /\ ArmedExitIsUnsent'
    BY <1>3 DEF vars, IInv, SettlementNeverDropsEntry, SyncPositionHeld,
                ArmedExitIsUnsent, Cmd
  <2>2. ArmedMeansFullHalt' /\ NamedPositionIsTracked' /\ AtMostOneExitPerArm'
    BY <1>3 DEF vars, IInv, ArmedMeansFullHalt, Armed, NamedPositionIsTracked,
                AtMostOneExitPerArm
  <2>3. RollbackIsSound' /\ EntriesAreTracked'
    BY <1>3 DEF vars, IInv, RollbackIsSound, EntriesAreTracked, Outstanding, Cmd
  <2>4. NoCommandStartsUnderArmedExit'
    BY <1>3 DEF vars, IInv, NoCommandStartsUnderArmedExit, Armed
  <2> QED BY <1>1, <2>1, <2>2, <2>3, <2>4 DEF IInv, TypeInv
<1> QED BY <1>2, <1>3

\* IInv is invariant, and with it each of its parts.
THEOREM InvariantCorrect == Spec => []IInv
  BY InitIInv, IInvStep, PTL DEF Spec

\* SettlementNeverDropsEntry: the reset that ends a flat settlement never meets
\* an entry queued or in flight (pending guard of the flat transition, halt set
\* before the first await of the settlement).
THEOREM SettlementCorrect == Spec => []SettlementNeverDropsEntry
<1>1. IInv => SettlementNeverDropsEntry
  BY DEF IInv
<1> QED BY <1>1, InvariantCorrect, PTL

\* ArmedMeansFullHalt: no path of the failure handler, the settlement or the
\* rolling-loss guard lets the runtime trade with an exit armed.
THEOREM ArmedHaltCorrect == Spec => []ArmedMeansFullHalt
<1>1. IInv => ArmedMeansFullHalt
  BY DEF IInv
<1> QED BY <1>1, InvariantCorrect, PTL

\* NamedPositionIsTracked: the id of the position and the side the strategy
\* tracks survive rollbacks, settlements and restarts together.
THEOREM NamedPositionCorrect == Spec => []NamedPositionIsTracked
<1>1. IInv => NamedPositionIsTracked
  BY DEF IInv
<1> QED BY <1>1, InvariantCorrect, PTL

\* AtMostOneExitPerArm: rule 8 of the delayed market exit, one order per arming.
THEOREM OneExitCorrect == Spec => []AtMostOneExitPerArm
<1>1. IInv => AtMostOneExitPerArm
  BY DEF IInv
<1> QED BY <1>1, InvariantCorrect, PTL

\* NoCommandStartsUnderArmedExit: the command taken after an exit is armed is
\* dropped, and a failed update never meets an exit armed for its own reason.
THEOREM OvertakenCorrect == Spec => []NoCommandStartsUnderArmedExit
<1>1. IInv => NoCommandStartsUnderArmedExit
  BY DEF IInv
<1> QED BY <1>1, InvariantCorrect, PTL

-----------------------------------------------------------------------------
(* The delayed exit's status machine.                                      *)

\* The countdown belongs to an armed exit, and no command remembers one.
OnlyArmedIsDue ==
  /\ state.dme = "CLEARED" => ~state.due
  /\ \A c \in Outstanding : ~c.snapshot.due

\* Once the countdown is over, the command it overtook is done and no other
\* starts, so nothing can arm the exit anew.
DueExitIsAlone ==
  state.due \/ state.dme \in {"WAITING_FLAT", "FAILED"} => pending_order_count = 0

\* The account sync worker orders the exit that is due and marks that same one,
\* and works on the protective stops only before it.
SyncSeesTheExit ==
  /\ sync.pc \in {"exit", "exited", "exit_failed"} => state.dme = "ARMED" /\ state.due
  /\ sync.pc \in {"exited", "exit_failed"} => exits = 1
  /\ sync.pc \in {"cleared", "stops"} => state.dme \in {"CLEARED", "ARMED"}

ExitInv == IInv /\ OnlyArmedIsDue /\ DueExitIsAlone /\ SyncSeesTheExit

\* A busy execution worker finds the exit not armed, or armed and waiting.
LEMMA BusyMeansWaiting ==
  ASSUME ExitInv, worker.pc # "idle"
  PROVE  /\ ~state.due
         /\ state.dme = "CLEARED" \/ (state.dme = "ARMED" /\ exits = 0)
<1>1. pending_order_count # 0
  <2>1. Len(queue) \in Nat
    BY LenProperties DEF ExitInv, IInv, TypeOK
  <2> QED BY <2>1 DEF ExitInv, IInv, PendingIsOutstandingWork
<1>2. state.dme \in DmeStatuses
  BY DEF ExitInv, IInv, TypeOK, StrategyPositionState
<1> QED
  BY <1>1, <1>2 DEF ExitInv, IInv, DueExitIsAlone, SyncSeesTheExit, ArmedExitIsUnsent,
                    DmeStatuses

\* What a step does to the exit, in terms of the status machine.
Unmoved == UNCHANGED <<state.dme, state.due, exits>>

\* The execution worker arms a waiting exit or none ...
LEMMA WorkerArms ==
  ASSUME ExitInv, EntryUnprotected \/ UpdateFails
  PROVE  Exit!Arm
<1>1. worker.pc # "idle"
  BY DEF EntryUnprotected, UpdateFails
<1>2. state \in StrategyPositionState
  BY DEF ExitInv, IInv, TypeOK
<1>3. state'.dme = "ARMED" /\ state'.due = FALSE /\ exits' = 0
  BY <1>2 DEF EntryUnprotected, UpdateFails, arm_delayed_market_exit, AfterArm,
              StrategyPositionState
<1> QED BY <1>1, <1>3, BusyMeansWaiting DEF Exit!Arm

\* ... and so do the protective stops of the account sync worker.
LEMMA StopsArm ==
  ASSUME ExitInv, StopsFail
  PROVE  Exit!Arm
<1>2. state \in StrategyPositionState
  BY DEF ExitInv, IInv, TypeOK
<1>3. state'.dme = "ARMED" /\ state'.due = FALSE /\ exits' = 0
  BY <1>2 DEF StopsFail, arm_delayed_market_exit, AfterArm, StrategyPositionState
<1>4. state.dme = "CLEARED" \/ (state.dme = "ARMED" /\ exits = 0)
  BY DEF StopsFail, ExitInv, IInv, SyncSeesTheExit, ArmedExitIsUnsent
<1> QED BY <1>3, <1>4 DEF Exit!Arm

\* A rollback takes a waiting exit away or finds none.
LEMMA RollbackClears ==
  ASSUME ExitInv, HandlesFailure
  PROVE  Unmoved \/ Exit!Clear
<1>1. worker.pc # "idle" /\ exits' = exits /\ (state' = state \/ state' = Cmd.snapshot)
  BY HandlesFailureFrame DEF ExitInv, IInv
<1>2. Cmd.snapshot.dme = "CLEARED" /\ ~Cmd.snapshot.due
  BY <1>1, HeldIsOutstanding DEF ExitInv, IInv, RollbackIsSound, OnlyArmedIsDue
<1>3. Cmd.snapshot \in StrategyPositionState
  BY <1>1, CommandType DEF ExitInv, IInv
<1>4. Cmd.snapshot.due = FALSE
  BY <1>2, <1>3 DEF StrategyPositionState
<1> QED BY <1>1, <1>2, <1>4 DEF Unmoved, Exit!Clear

\* TP progress leaves the exit alone or adopts a position without one.
LEMMA AdoptionClears ==
  ASSUME TypeOK, TpProgress, exits' = exits
  PROVE  Unmoved \/ Exit!Clear
<1>1. AdoptedState \in StrategyPositionState
  BY AdoptedType
<1>2. state'.dme = AdoptedState.dme /\ state'.due = AdoptedState.due
  BY <1>1 DEF TpProgress, StrategyPositionState
<1>3. AdoptedState = state \/ (AdoptedState.dme = "CLEARED" /\ AdoptedState.due = FALSE)
  BY DEF AdoptedState, NewState
<1> QED BY <1>2, <1>3 DEF Unmoved, Exit!Clear

\* The countdown ends before the order, the order comes before the mark.
LEMMA ExitProceeds ==
  ASSUME ExitInv
  PROVE  /\ DeadlinePasses => Exit!Expire
         /\ \A ok \in BOOLEAN : DmeExits(ok) => Exit!SendExit
         /\ DmeExitMarked \/ DmeExitFailed => Exit!Conclude
<1>0. state \in StrategyPositionState
  BY DEF ExitInv, IInv, TypeOK
<1>1. ASSUME DeadlinePasses PROVE Exit!Expire
  <2>1. state'.dme = state.dme /\ state'.due = TRUE /\ exits' = exits
    BY <1>0, <1>1 DEF DeadlinePasses, StrategyPositionState, history
  <2>2. state.dme = "ARMED" /\ exits = 0
    BY <1>1 DEF DeadlinePasses, ExitInv, IInv, SyncSeesTheExit, ArmedExitIsUnsent
  <2> QED BY <2>1, <2>2 DEF Exit!Expire
<1>2. ASSUME NEW ok \in BOOLEAN, DmeExits(ok) PROVE Exit!SendExit
  <2>1. state' = state /\ exits' = exits + 1
    BY <1>2 DEF DmeExits
  <2>2. state.dme = "ARMED" /\ state.due /\ exits = 0
    BY <1>2 DEF DmeExits, ExitInv, IInv, SyncSeesTheExit, ArmedExitIsUnsent
  <2> QED BY <2>1, <2>2 DEF Exit!SendExit
<1>3. ASSUME NEW pc \in {"exited", "exit_failed"}, NEW status \in {"WAITING_FLAT", "FAILED"},
             NEW reason, DmeMarked(pc, status, reason)
      PROVE  Exit!Conclude
  <2>1. state.dme = "ARMED" /\ exits = 1 /\ exits' = exits /\ state' = AfterMark(state, status)
    BY <1>3 DEF DmeMarked, ExitInv, SyncSeesTheExit, history
  <2>2. state'.dme = status /\ state'.due = state.due
    BY <1>0, <2>1 DEF AfterMark, StrategyPositionState
  <2> QED BY <2>1, <2>2 DEF Exit!Conclude
<1>4. DmeExitMarked \/ DmeExitFailed => Exit!Conclude
  BY <1>3 DEF DmeExitMarked, DmeExitFailed
<1> QED BY <1>1, <1>2, <1>4

\* The side is gone, the flat is settled or the process restarts.
LEMMA ExitClears ==
  ASSUME ExitInv, DmeSideGone \/ SettleReset \/ Restart
  PROVE  Exit!Clear
<1>0. state \in StrategyPositionState
  BY DEF ExitInv, IInv, TypeOK
<1>1. exits' = exits
  BY DEF DmeSideGone, SettleReset, Restart, history
<1>2. state'.dme = "CLEARED" /\ state'.due = FALSE
  <2>1. CASE DmeSideGone
    BY <1>0, <2>1 DEF DmeSideGone, clear_delayed_market_exit, StrategyPositionState
  <2>2. CASE SettleReset \/ Restart
    <3>1. \A side : NewState(side).dme = "CLEARED" /\ NewState(side).due = FALSE
      BY DEF NewState
    <3> QED BY <2>2, <3>1 DEF SettleReset, ResetPosition, Restart
  <2> QED BY <2>1, <2>2
<1> QED BY <1>1, <1>2 DEF Exit!Clear

\* Nothing else touches the exit.
LEMMA ExitUnmoved ==
  ASSUME ExitInv,
         \/ StrategyTickWorker
         \/ (ExecutionWorker /\ ~HandlesFailure /\ ~EntryUnprotected /\ ~UpdateFails)
         \/ SyncFetch \/ SyncFlatDetected \/ SyncNothingHeld \/ DmeTerminal \/ DmeDue
         \/ StopsPlaced \/ StopsFailureAlerted \/ SettleFinish
         \/ HaltExpires \/ PositionCloses \/ ManualTrade \/ LateFill
  PROVE  Unmoved
<1>0. state \in StrategyPositionState /\ TypeInv
  BY DEF ExitInv, IInv, TypeOK, TypeInv
<1>1. CASE StrategyTickWorker
  <2>1. exits' = exits
    BY <1>1 DEF StrategyTickWorker, StrategyTickQueueFull, Tick, history
  <2>2. state'.dme = state.dme /\ state'.due = state.due
    BY <1>0, <1>1, TickQueue
    DEF StrategyTickWorker, StrategyTickQueueFull, StrategyPositionState
  <2> QED BY <2>1, <2>2 DEF Unmoved
<1>2. CASE ExecutionWorker /\ ~HandlesFailure /\ ~EntryUnprotected /\ ~UpdateFails
  <2>1. exits' = exits /\ state' = state
    BY <1>2
    DEF ExecutionWorker, HandlesFailure, TakeCommand, EntryCashFetched, CommandRaises,
        EntryFills, EntryFillsUnseen, EntryProtected, UpdateSucceeds, RunnerExits,
        RunnerExitApplied, RunnerExitFails, EntryFailureAlerted, FailureFetched,
        FailureMailed, history
  <2> QED BY <2>1 DEF Unmoved
<1>3. CASE \/ SyncFetch \/ SyncFlatDetected \/ SyncNothingHeld \/ DmeTerminal \/ DmeDue
           \/ StopsPlaced \/ StopsFailureAlerted \/ SettleFinish
           \/ HaltExpires \/ PositionCloses \/ ManualTrade \/ LateFill
  <2>1. exits' = exits /\ state' = state
    BY <1>3
    DEF SyncFetch, SyncFlatDetected, SyncNothingHeld, DmeTerminal, DmeDue, StopsPlaced,
        StopsFailureAlerted, SettleFinish, HaltExpires, PositionCloses, ManualTrade,
        LateFill, RuntimeUnchanged, history
  <2> QED BY <2>1 DEF Unmoved
<1> QED BY <1>1, <1>2, <1>3

\* The moves of the exit, by the steps that make them.
LEMMA ExitMoves ==
  ASSUME ExitInv, Next
  PROVE  \/ Unmoved
         \/ Exit!Arm
         \/ Exit!Clear
         \/ DeadlinePasses /\ Exit!Expire
         \/ (\E ok \in BOOLEAN : DmeExits(ok)) /\ Exit!SendExit
         \/ (DmeExitMarked \/ DmeExitFailed) /\ Exit!Conclude
<1>2. CASE EntryUnprotected \/ UpdateFails \/ StopsFail
  BY <1>2, WorkerArms, StopsArm
<1>3. CASE HandlesFailure
  BY <1>3, RollbackClears
<1>4. CASE SyncHeld \/ DmeSideGoneMailed
  BY <1>4, AdoptionClears DEF SyncHeld, DmeSideGoneMailed, history, ExitInv, IInv
<1>5. CASE DeadlinePasses \/ DmeExitMarked \/ DmeExitFailed \/ \E ok \in BOOLEAN : DmeExits(ok)
  BY <1>5, ExitProceeds
<1>6. CASE DmeSideGone \/ SettleReset \/ Restart
  BY <1>6, ExitClears
<1>7. CASE \/ StrategyTickWorker
           \/ (ExecutionWorker /\ ~HandlesFailure /\ ~EntryUnprotected /\ ~UpdateFails)
           \/ SyncFetch \/ SyncFlatDetected \/ SyncNothingHeld \/ DmeTerminal \/ DmeDue
           \/ StopsPlaced \/ StopsFailureAlerted \/ SettleFinish
           \/ HaltExpires \/ PositionCloses \/ ManualTrade \/ LateFill
  BY <1>7, ExitUnmoved
<1> QED
  BY <1>2, <1>3, <1>4, <1>5, <1>6, <1>7
  DEF Next, AccountSyncWorker, Time, Environment

\* Every step of the runtime is a step of the status machine or leaves it alone.
LEMMA ExitSimulates ==
  ASSUME ExitInv, [Next]_vars
  PROVE  [Exit!Next]_(Exit!dmeVars)
<1>1. CASE UNCHANGED vars
  BY <1>1 DEF vars, Exit!dmeVars
<1>2. CASE Next
  BY <1>2, ExitMoves DEF Unmoved, Exit!Next, Exit!dmeVars
<1> QED BY <1>1, <1>2

\* The countdown is reset with the exit, and a tick remembers a state without one.
LEMMA OnlyArmedIsDueStep ==
  ASSUME ExitInv, IInv', Next
  PROVE  OnlyArmedIsDue'
<1>0. TypeInv /\ TypeInv' /\ state \in StrategyPositionState
  BY DEF ExitInv, IInv, TypeInv, TypeOK
<1>1. state'.dme = "CLEARED" => ~state'.due
  <2>1. [Exit!Next]_(Exit!dmeVars)
    BY ExitSimulates
  <2> QED
    BY <2>1 DEF Exit!Next, Exit!dmeVars, Exit!Arm, Exit!Expire, Exit!SendExit,
                Exit!Conclude, Exit!Clear, ExitInv, OnlyArmedIsDue
<1>2. \A c \in Outstanding' : ~c.snapshot.due
  <2>1. CASE \E side \in Sides : Tick(side)
    <3>1. PICK side \in Sides : Tick(side)
      BY <2>1
    <3>2. ~Armed
      BY <3>1 DEF Tick, TickRuns, ArmedMeansFullHalt, ExitInv, IInv
    <3>3. ~state.due
      BY <3>2 DEF Armed, ExitInv, OnlyArmedIsDue
    <3>4. \A c \in Outstanding' : c \in Issuable
      BY <1>0, <3>1, TickOutstanding
    <3> QED BY <3>3, <3>4 DEF Issuable
  <2>2. CASE ~\E side \in Sides : Tick(side)
    BY <1>0, <2>2, OutstandingStep DEF ExitInv, OnlyArmedIsDue
  <2> QED BY <2>1, <2>2
<1> QED BY <1>1, <1>2 DEF OnlyArmedIsDue

\* No tick runs under an armed exit, and only a pause of the execution worker
\* ends the countdown.
LEMMA DueExitIsAloneStep ==
  ASSUME ExitInv, IInv', Next
  PROVE  DueExitIsAlone'
<1>0. /\ TypeInv /\ TypeInv' /\ state \in StrategyPositionState
      /\ pending_order_count \in Nat /\ pending_order_count' \in Nat
  BY DEF ExitInv, IInv, TypeInv, TypeOK
<1>1. CASE \E side \in Sides : Tick(side)
  <2>1. PICK side \in Sides : Tick(side)
    BY <1>1
  <2>2. ~Armed
    BY <2>1 DEF Tick, TickRuns, ArmedMeansFullHalt, ExitInv, IInv
  <2>3. state.dme = "CLEARED" /\ ~state.due
    BY <2>2 DEF Armed, ExitInv, OnlyArmedIsDue
  <2>4. state'.dme = state.dme /\ state'.due = state.due
    BY <2>1, ExitUnmoved DEF StrategyTickWorker, Unmoved
  <2> QED BY <2>3, <2>4 DEF DueExitIsAlone
<1>2. CASE ~\E side \in Sides : Tick(side)
  <2>1. pending_order_count' <= pending_order_count
    BY <1>0, <1>2, OutstandingStep
  <2> SUFFICES ASSUME state'.due \/ state'.dme \in {"WAITING_FLAT", "FAILED"}
               PROVE  pending_order_count = 0
    BY <1>0, <2>1 DEF DueExitIsAlone
  <2>2. CASE DeadlinePasses
    BY <2>2 DEF DeadlinePasses
  <2>3. CASE ~DeadlinePasses
    <3>1. state.due \/ state.dme \in {"WAITING_FLAT", "FAILED"}
      <4>1. CASE DmeExitMarked \/ DmeExitFailed
        BY <4>1 DEF DmeExitMarked, DmeExitFailed, DmeMarked, ExitInv, SyncSeesTheExit
      <4>2. CASE ~DmeExitMarked /\ ~DmeExitFailed
        BY <2>3, <4>2, ExitMoves DEF Exit!Arm, Exit!SendExit, Exit!Clear, Unmoved
      <4> QED BY <4>1, <4>2
    <3> QED BY <3>1 DEF ExitInv, DueExitIsAlone
  <2> QED BY <2>2, <2>3
<1> QED BY <1>1, <1>2

\* From the order to its mark nothing else moves the exit, and a cycle reaches
\* the protective stops only with an exit that was not sent.
LEMMA SyncSeesTheExitStep ==
  ASSUME ExitInv, IInv', Next
  PROVE  SyncSeesTheExit'
<1>0. /\ TypeInv /\ TypeInv' /\ state \in StrategyPositionState
      /\ state' \in StrategyPositionState /\ TypeOK
  BY DEF ExitInv, IInv, TypeInv, TypeOK
<1>1. CASE AccountSyncWorker
  <2>1. CASE DmeDue /\ sync'.pc = "exit"
    BY <2>1 DEF DmeDue, SyncSeesTheExit
  <2>2. ASSUME NEW ok \in BOOLEAN, DmeExits(ok), sync'.pc \in {"exited", "exit_failed"}
        PROVE  SyncSeesTheExit'
    <3>1. Exit!SendExit
      BY <2>2, ExitProceeds
    <3>2. state' = state
      BY <2>2 DEF DmeExits
    <3>3. state.dme = "ARMED" /\ state.due /\ exits' = 1
      BY <3>1 DEF Exit!SendExit
    <3> QED BY <2>2, <3>2, <3>3 DEF SyncSeesTheExit
  <2>3. CASE (SyncHeld \/ DmeSideGoneMailed) /\ sync'.pc \in {"sleep", "stops"}
    <3>1. state.dme \in {"CLEARED", "ARMED"}
      BY <1>0, <2>3 DEF SyncHeld, DmeSideGoneMailed, Armed, ExitInv, SyncSeesTheExit
    <3>2. TpProgress
      BY <2>3 DEF SyncHeld, DmeSideGoneMailed
    <3>3. state'.dme \in {"CLEARED", "ARMED"}
      BY <1>0, <3>1, <3>2, TpProgressFrame
    <3> QED BY <2>3, <3>3 DEF SyncSeesTheExit
  <2>4. CASE DmeSideGone /\ sync'.pc = "cleared"
    <3>1. state'.dme = "CLEARED"
      BY <2>4, ExitClears DEF Exit!Clear
    <3> QED BY <2>4, <3>1 DEF SyncSeesTheExit
  <2>5. CASE sync'.pc \in {"sleep", "core", "settle", "alert", "notify"}
    BY <2>5 DEF SyncSeesTheExit
  <2> QED BY <1>0, <1>1, <2>1, <2>2, <2>3, <2>4, <2>5, SyncSteppings
<1>2. CASE Restart
  BY <1>2 DEF Restart, SleepingSync, SyncSeesTheExit
<1>3. CASE ~AccountSyncWorker /\ ~Restart
  <2>1. sync' = sync
    BY <1>3, SyncFrame DEF Next, Environment
  <2>2. CASE EntryUnprotected \/ UpdateFails \/ HandlesFailure
    <3>1. worker.pc # "idle"
      BY <1>0, <2>2, HandlesFailureFrame DEF EntryUnprotected, UpdateFails
    <3>2. ~state.due
      BY <3>1, BusyMeansWaiting
    <3>3. sync.pc \notin {"exit", "exited", "exit_failed"}
      BY <3>2 DEF ExitInv, SyncSeesTheExit
    <3>4. state'.dme \in {state.dme, "CLEARED", "ARMED"}
      BY <2>2, WorkerArms, RollbackClears DEF Unmoved, Exit!Arm, Exit!Clear
    <3> QED BY <2>1, <3>3, <3>4 DEF ExitInv, SyncSeesTheExit
  <2>3. CASE DeadlinePasses
    <3>1. Exit!Expire
      BY <2>3, ExitProceeds
    <3> QED BY <2>1, <3>1 DEF Exit!Expire, ExitInv, SyncSeesTheExit
  <2>4. CASE ~EntryUnprotected /\ ~UpdateFails /\ ~HandlesFailure /\ ~DeadlinePasses
    <3>1. Unmoved
      BY <1>3, <2>4, ExitUnmoved DEF Next, Time, Environment
    <3> QED BY <2>1, <3>1 DEF Unmoved, ExitInv, SyncSeesTheExit
  <2> QED BY <2>2, <2>3, <2>4
<1> QED BY <1>1, <1>2, <1>3

\* The invariant holds initially ...
LEMMA InitExitInv == Init => ExitInv
<1> SUFFICES ASSUME Init PROVE ExitInv
  OBVIOUS
<1>1. Outstanding = {}
  BY EmptySeq DEF Init, IdleWorker, Outstanding
<1>2. OnlyArmedIsDue /\ DueExitIsAlone /\ SyncSeesTheExit
  BY <1>1 DEF Init, NewState, SleepingSync, OnlyArmedIsDue, DueExitIsAlone, SyncSeesTheExit
<1> QED BY <1>2, InitIInv DEF ExitInv

\* ... and is preserved by every step of the runtime and by a stutter.
LEMMA ExitInvStep == ExitInv /\ [Next]_vars => ExitInv'
<1> SUFFICES ASSUME ExitInv, [Next]_vars PROVE ExitInv'
  OBVIOUS
<1>1. IInv'
  BY IInvStep DEF ExitInv
<1>2. CASE Next
  BY <1>1, <1>2, OnlyArmedIsDueStep, DueExitIsAloneStep, SyncSeesTheExitStep DEF ExitInv
<1>3. CASE UNCHANGED vars
  BY <1>1, <1>3 DEF vars, ExitInv, OnlyArmedIsDue, DueExitIsAlone, SyncSeesTheExit,
                    Outstanding, Cmd
<1> QED BY <1>2, <1>3

\* ImplementsDelayedMarketExit: the three workers together keep the delayed
\* exit's status machine, for every interleaving, crash and manual trade.
THEOREM ExitRefinement == Spec => ImplementsDelayedMarketExit
<1>1. Init => Exit!Init
  BY DEF Init, NewState, Exit!Init
<1>2. ExitInv /\ [Next]_vars => [Exit!Next]_(Exit!dmeVars)
  BY ExitSimulates
<1>3. Init => ExitInv
  BY InitExitInv
<1>4. ExitInv /\ [Next]_vars => ExitInv'
  BY ExitInvStep
<1> QED BY <1>1, <1>2, <1>3, <1>4, PTL DEF Spec, ImplementsDelayedMarketExit, Exit!Spec
=============================================================================
