-------------------------- MODULE ShareLedger_proofs --------------------------
(* What the ledger promises holds for every set of names and of cards. *)
EXTENDS ShareLedger, TLAPS

LedgerTypeOK == /\ ledger \in [Names -> SUBSET Cards]
                /\ held \in [Names -> SUBSET Cards]

(* No share of the vault is on a card that is not on record: what          *)
(* WalletLifecycle inherits by implementing the ledger.                    *)
THEOREM OnRecord == Spec => []HeldOnRecord
<1> DEFINE Inv == LedgerTypeOK /\ HeldOnRecord
<1>1. Init => Inv
  BY DEF Init, LedgerTypeOK, HeldOnRecord
<1>2. Inv /\ [Next]_vars => Inv'
  <2> SUFFICES ASSUME Inv, [Next]_vars PROVE Inv'
    OBVIOUS
  <2>1. ASSUME NEW n \in Names, NEW c \in Cards, Enter(n, c) PROVE Inv'
    BY <2>1 DEF Enter, LedgerTypeOK, HeldOnRecord
  <2>2. ASSUME NEW n \in Names, NEW c \in Cards, Store(n, c) PROVE Inv'
    BY <2>2 DEF Store, LedgerTypeOK, HeldOnRecord
  <2>3. ASSUME NEW n \in Names, NEW c \in Cards, Erase(n, c) PROVE Inv'
    BY <2>3 DEF Erase, LedgerTypeOK, HeldOnRecord
  <2>4. ASSUME NEW n \in Names, NEW c \in Cards, Strike(n, c) PROVE Inv'
    BY <2>4 DEF Strike, LedgerTypeOK, HeldOnRecord
  <2>5. CASE UNCHANGED vars
    BY <2>5 DEF vars, LedgerTypeOK, HeldOnRecord
  <2>6. QED
    BY <2>1, <2>2, <2>3, <2>4, <2>5 DEF Next
<1>3. Inv => HeldOnRecord
  OBVIOUS
<1>4. QED
  BY <1>1, <1>2, <1>3, PTL DEF Spec

=============================================================================
