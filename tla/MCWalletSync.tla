----------------------------- MODULE MCWalletSync -----------------------------
(* Model values for WalletSync; names are interchangeable. *)
EXTENDS WalletSync, TLC

NameSymmetry == Permutations(Names)

=============================================================================
