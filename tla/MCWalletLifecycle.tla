-------------------------- MODULE MCWalletLifecycle --------------------------
(* Model values for WalletLifecycle.  Names and ids are interchangeable     *)
(* except that only the ids of Foreign may be on cards from elsewhere.      *)
EXTENDS WalletLifecycle, TLC

NameSymmetry == Permutations(Names)

=============================================================================
