---------------------------- MODULE MCVaultSetup ----------------------------
(* Instance of VaultSetup for TLC: two card sets of two cards.             *)
EXTENDS VaultSetup, TLC
=============================================================================
