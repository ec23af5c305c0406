----------------------------- MODULE ShareLedger -----------------------------
(***************************************************************************)
(* What the vault promises about the shares it puts on cards, whatever     *)
(* flows and power losses bring: for each wallet name it keeps a durable   *)
(* ledger of the cards that may hold one of its shares, in which a card is *)
(* entered before it may store a share and from which it is struck only    *)
(* once it holds none.  WalletLifecycle implements it, with the slots of   *)
(* the flash as the ledger.                                                *)
(***************************************************************************)
CONSTANTS Names, Cards

VARIABLES
    ledger,   \* by name, the cards on record
    held      \* by name, the cards that hold a share of this vault

vars == <<ledger, held>>

Init ==
    /\ ledger = [n \in Names |-> {}]
    /\ held = [n \in Names |-> {}]

Enter(n, c) ==
    /\ ledger' = [ledger EXCEPT ![n] = @ \cup {c}]
    /\ UNCHANGED held

Store(n, c) ==
    /\ c \in ledger[n]
    /\ held' = [held EXCEPT ![n] = @ \cup {c}]
    /\ UNCHANGED ledger

Erase(n, c) ==
    /\ held' = [held EXCEPT ![n] = @ \ {c}]
    /\ UNCHANGED ledger

Strike(n, c) ==
    /\ c \notin held[n]
    /\ ledger' = [ledger EXCEPT ![n] = @ \ {c}]
    /\ UNCHANGED held

Next == \E n \in Names, c \in Cards :
            Enter(n, c) \/ Store(n, c) \/ Erase(n, c) \/ Strike(n, c)

Spec == Init /\ [][Next]_vars

(* No share of the vault is on a card its ledger does not name. *)
HeldOnRecord == \A n \in Names : held[n] \subseteq ledger[n]

=============================================================================
