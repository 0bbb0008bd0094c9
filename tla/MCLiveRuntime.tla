--------------------------- MODULE MCLiveRuntime ---------------------------
(***************************************************************************)
(* Small instances of LiveRuntime for TLC.                                 *)
(***************************************************************************)
EXTENDS LiveRuntime, TLC

CONSTANTS LONG, SHORT

BothSides == {LONG, SHORT}
OneSide == {LONG}
SideSymmetry == Permutations(BothSides)
=============================================================================
