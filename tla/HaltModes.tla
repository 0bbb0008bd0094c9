----------------------------- MODULE HaltModes -----------------------------
(***************************************************************************)
(* Halt reasons and what each of them still lets the runtime do            *)
(* (src/live/halt_modes.py), with the two lists of reasons that the flat   *)
(* settlement consults (src/live/account_sync/flat_settlement_phase.py).   *)
(* Reasons the runtime treats alike everywhere share one name: the four    *)
(* protective-stop reasons are "protective_sl_failed_dme_armed" and every  *)
(* reason outside all lists is "execution_failure_live_position".          *)
(***************************************************************************)

NO_REASON == "no_reason"     \* halt_reason is None

\* Intents of TradeIntent.intent_type; the LONG/SHORT suffix is the side.
ENTRY_INTENTS == {"OPEN", "ADD"}
POSITION_MANAGEMENT_INTENTS == {"UPDATE_TP", "UPDATE_TREND_SL", "MARKET_EXIT_RUNNER"}
Intents == ENTRY_INTENTS \cup POSITION_MANAGEMENT_INTENTS

ROLLING_LOSS_HALT_REASONS == {"rolling_loss_soft_halt", "rolling_loss_hard_halt"}

\* Reasons a delayed market exit is armed for.
DmeArmReasons ==
  {"core_tp_place_failed_dme_armed", "trend_sl_update_failed_dme_armed",
   "protective_sl_failed_dme_armed"}

\* Reasons the delayed market exit phase writes after its order.
DmeExitReasons ==
  {"order_failure_dme_waiting_flat", "order_failure_dme_failed"}

HaltReasons ==
  ROLLING_LOSS_HALT_REASONS \cup DmeArmReasons \cup DmeExitReasons \cup
  {"trend_runner_market_exit_waiting_flat", "execution_failure_live_position"}

FULL_HALT == "FULL_HALT"
ENTRY_HALT == "ENTRY_HALT_POSITION_MANAGEMENT_ALLOWED"

\* A missing or an unknown reason is a full halt.
resolve_halt_mode(reason) ==
  IF reason \in ROLLING_LOSS_HALT_REASONS THEN ENTRY_HALT ELSE FULL_HALT

allowed_intents_for_halt_mode(mode) ==
  IF mode = ENTRY_HALT THEN POSITION_MANAGEMENT_INTENTS ELSE {}

\* Previous halts that a settled flat position clears (the update of a trend
\* stop is the one arming reason missing from the list).
flat_clearable_halt_reasons ==
  {NO_REASON, "trend_runner_market_exit_waiting_flat",
   "core_tp_place_failed_dme_armed", "protective_sl_failed_dme_armed"}
    \cup DmeExitReasons \cup ROLLING_LOSS_HALT_REASONS

\* Previous halts after which a triggered rolling-loss halt may be applied.
rolling_halt_applicable_after ==
  {NO_REASON, "trend_runner_market_exit_waiting_flat",
   "order_failure_dme_waiting_flat"} \cup ROLLING_LOSS_HALT_REASONS

\* Halts that the delayed market exit phase lifts when the armed side is gone:
\* the reasons with one of its three suffixes.
dme_clearable_halt_reasons ==
  DmeArmReasons \cup DmeExitReasons \cup {"trend_runner_market_exit_waiting_flat"}
=============================================================================
