------------------------- MODULE DelayedMarketExit -------------------------
(***************************************************************************)
(* What a delayed market exit promises (the design rules and the status    *)
(* machine of src/live/delayed_market_exit.py), seen from outside: it is   *)
(* armed after a failed order, waits for its countdown, sends one market   *)
(* exit, and then only waits to be cleared.  The workers that implement it *)
(* are in LiveRuntime.                                                     *)
(***************************************************************************)
EXTENDS Naturals

VARIABLES
  status,   \* CLEARED, ARMED, WAITING_FLAT or FAILED
  due,      \* the countdown has expired
  exits     \* market exits sent since the exit was armed

dmeVars == <<status, due, exits>>

Init ==
  /\ status = "CLEARED"
  /\ due = FALSE
  /\ exits = 0

\* Arming again restarts the countdown, but never once the exit has been sent.
Arm ==
  /\ \/ status = "CLEARED"
     \/ status = "ARMED" /\ exits = 0
  /\ status' = "ARMED"
  /\ due' = FALSE
  /\ exits' = 0

Expire ==
  /\ status = "ARMED" /\ exits = 0
  /\ due' = TRUE
  /\ UNCHANGED <<status, exits>>

SendExit ==
  /\ status = "ARMED" /\ due /\ exits = 0
  /\ exits' = 1
  /\ UNCHANGED <<status, due>>

Conclude ==
  /\ status = "ARMED" /\ exits = 1
  /\ status' \in {"WAITING_FLAT", "FAILED"}
  /\ UNCHANGED <<due, exits>>

Clear ==
  /\ status' = "CLEARED"
  /\ due' = FALSE
  /\ UNCHANGED exits

Next == Arm \/ Expire \/ SendExit \/ Conclude \/ Clear

Spec == Init /\ [][Next]_dmeVars
=============================================================================
