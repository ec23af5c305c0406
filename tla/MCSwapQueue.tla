---------------------------- MODULE MCSwapQueue ----------------------------
(* Instance of SwapQueue for TLC: one challenge with an early and one with *)
(* a late solution.                                                        *)
EXTENDS SwapQueue, TLC

CONSTANTS easy, hard

MCSolution == (easy :> {1, 3}) @@ (hard :> {4})
=============================================================================
