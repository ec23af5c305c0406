------------------------------ MODULE WalletSync ------------------------------
(***************************************************************************)
(* WalletLifecycle together with the flows that take a vault's wallets     *)
(* from the cards and that give them up: sync_with_cards rebuilds the      *)
(* slots from the list of one card and then asks for two cards per wallet  *)
(* to reconstruct the vault's share (sync_wallets_flow, also reached from  *)
(* the menu of a wallet), factory_reset and clear_device_data erase the    *)
(* sec flash and then the flash.  Power may be lost between any two saves. *)
(***************************************************************************)
EXTENDS WalletLifecycle

CONSTANT Threshold     \* MINIMUM_NO_OF_SHARES, 2 in the product

ASSUME ThresholdAssumption == Threshold \in 1..NumCards

VARIABLES
    toAdd,    \* names of the list of the tapped card not yet added to flash
    cursor    \* index of the loop over the slots in sync_with_cards

syncRam == <<toAdd, cursor>>
syncVars == <<vars, syncRam>>

SyncPlaces == {"sync_add", "sync_next", "sync_tap", "sync_put", "sync_state",
               "reset_flash"}

SyncTypeOK ==
    /\ DataTypeOK
    /\ pc \in Places \cup SyncPlaces
    /\ flow \in Flows \cup {"sync", "reset"}
    /\ toAdd \subseteq Names
    /\ cursor \in 1..(MaxWallets + 1)

SyncInit ==
    /\ Init
    /\ toAdd = {}
    /\ cursor = 1

-----------------------------------------------------------------------------
(* get_valid_wallet_count counts a slot in this state. *)
FullyValid(s) ==
    /\ flash[s].state = "valid"
    /\ flash[s].written = Cards /\ flash[s].attempted = {}
    /\ ~flash[s].locked

(* sync_with_card_eligibility, then the list of any one card, not empty:   *)
(* flash_delete_all_wallets zeroes the slots.                              *)
SyncWithCards(c) ==
    /\ pc = "menu"
    /\ count = Cardinality({s \in Slots : FullyValid(s)})
    /\ \E n \in Names : Holds(c, n)
    /\ toAdd' = {n \in Names : Holds(c, n)}
    /\ flash' = [s \in Slots |-> NoWallet]
    /\ count' = 0
    /\ k' = c
    /\ flow' = "sync"
    /\ pc' = "sync_add"
    /\ UNCHANGED <<sec, cards, nextGen, target, w, idx, shares, cursor>>

(* sync_wallets_in_flash: a slot per listed wallet, on all cards by        *)
(* assumption, locked when the card says so.                               *)
SyncedWallet(n, i, isLocked) ==
    [state |-> "no_device_share", name |-> n, id |-> i,
     written |-> Cards, attempted |-> {}, locked |-> isLocked]

SyncAddWallet(n, isLocked) ==
    /\ pc = "sync_add"
    /\ n \in toAdd
    /\ IF count = MaxWallets
         THEN EndFlow /\ toAdd' = {} /\ UNCHANGED <<flash, count>>
         ELSE /\ flash' = [flash EXCEPT ![FirstEmpty] =
                             SyncedWallet(n, cards[k][n].id, isLocked)]
              /\ count' = count + 1
              /\ toAdd' = toAdd \ {n}
              /\ UNCHANGED <<pc, k, ram>>
    /\ UNCHANGED <<sec, cards, nextGen, cursor>>

SyncListDone ==
    /\ pc = "sync_add"
    /\ toAdd = {}
    /\ pc' = "sync_next"
    /\ cursor' = 1
    /\ UNCHANGED <<stored, cards, nextGen, k, ram, toAdd>>

(* The loop over the slots: empty and locked ones are skipped, and the     *)
(* user may skip any.                                                      *)
SyncNextWallet ==
    /\ pc = "sync_next"
    /\ IF cursor > MaxWallets
         THEN EndFlow /\ cursor' = 1
         ELSE /\ cursor' = cursor + 1
              /\ \/ UNCHANGED <<pc, target>>
                 \/ /\ Filled(cursor) /\ ~flash[cursor].locked
                    /\ pc' = "sync_tap" /\ target' = flash[cursor].name
              /\ UNCHANGED <<k, flow, w, idx, shares>>
    /\ UNCHANGED <<stored, cards, nextGen, toAdd>>

(* wallet_menu_handler, for a wallet without the vault's share *)
SyncOneWallet(s) ==
    /\ pc = "menu"
    /\ flash[s].state = "no_device_share"
    /\ ~flash[s].locked
    /\ flash[s].written = Cards /\ flash[s].attempted = {}
    /\ target' = flash[s].name
    /\ flow' = "sync"
    /\ pc' = "sync_tap"
    /\ cursor' = MaxWallets + 1
    /\ UNCHANGED <<stored, cards, nextGen, k, w, idx, shares, toAdd>>

-----------------------------------------------------------------------------
(* sync_wallets_flow: Threshold different cards, whose shares must be of   *)
(* the wallet's id and of one nonce.                                       *)

Tapped == {c \in Cards : shares[c] # NoShare}

(* Mutant: shares of different nonces are combined. *)
SameSplit_Unchecked(c) == TRUE

SameSplit(c) == \A d \in Tapped : shares[d].gen = cards[c][target].gen

SyncFetch(c) ==
    /\ pc = "sync_tap"
    /\ c \notin Tapped /\ Holds(c, target)
    /\ cards[c][target].id = flash[IndexByName(target)].id
    /\ SameSplit(c)
    /\ shares' = [shares EXCEPT ![c] = cards[c][target]]
    /\ pc' = IF Cardinality(Tapped) + 1 = Threshold THEN "sync_put" ELSE "sync_tap"
    /\ UNCHANGED <<stored, cards, nextGen, k, flow, target, w, idx, syncRam>>

(* A wrong PIN asks for it again and starts over with the first card. *)
SyncWrongPin(c) ==
    /\ pc = "sync_tap"
    /\ c \notin Tapped /\ Holds(c, target)
    /\ shares' = NoShares
    /\ UNCHANGED <<stored, cards, nextGen, pc, k, flow, target, w, idx, syncRam>>

(* No wallet, another wallet, a locked wallet, or the user leaves.  The    *)
(* loop goes on with the next wallet after a lock or when the user left    *)
(* the PIN input, and ends otherwise.                                      *)
SyncAbandoned ==
    /\ pc = "sync_tap"
    /\ \/ UNCHANGED flash /\ EndFlow /\ cursor' = 1
       \/ /\ UNCHANGED flash
          /\ pc' = "sync_next" /\ shares' = NoShares
          /\ UNCHANGED <<k, flow, target, w, idx, cursor>>
       \/ /\ \E c \in Cards \ Tapped : Holds(c, target)
          /\ SetLocked(target)
          /\ pc' = "sync_next" /\ shares' = NoShares
          /\ UNCHANGED <<k, flow, target, w, idx, cursor>>
    /\ UNCHANGED <<count, sec, cards, nextGen, toAdd>>

(* put_wallet_share_sec_flash: the vault's share is the fifth point on the *)
(* line through the two; its sec-flash save precedes that of the state.    *)
Reconstructed == shares[CHOOSE c \in Cards : shares[c] # NoShare]

SyncPutShare ==
    /\ pc = "sync_put"
    /\ LET s == IndexByName(target) IN
         /\ w' = flash[s]
         /\ sec' = [sec EXCEPT ![s] = [id |-> flash[s].id, gen |-> Reconstructed.gen]]
    /\ pc' = "sync_state"
    /\ UNCHANGED <<flash, count, cards, nextGen, k, flow, target, idx, shares, syncRam>>

SyncSetValid ==
    /\ pc = "sync_state"
    /\ flash' = [flash EXCEPT ![IndexByName(target)].state = "valid"]
    /\ pc' = "sync_next"
    /\ shares' = NoShares
    /\ UNCHANGED <<count, sec, cards, nextGen, k, flow, target, w, idx, syncRam>>
-----------------------------------------------------------------------------
(* factory_reset and clear_device_data *)

(* wallet_is_filled_with_share *)
FilledWithShare(s) ==
    flash[s].state \in {"unverified", "valid", "invalid"} /\ flash[s].written # {}

Lists(c, s) == Holds(c, flash[s].name) /\ cards[c][flash[s].name].id = flash[s].id

(* Mutant: the list of one card is enough. *)
SafeToDeleteShares_OneCard ==
    \/ \A s \in Slots : ~FilledWithShare(s)
    \/ \E c \in Cards : \A s \in Slots : FilledWithShare(s) => Lists(c, s)

(* safe_to_delete_wallet_share compares the lists of two cards by name and *)
(* id with the wallets whose share the vault has.                          *)
SafeToDeleteShares ==
    \/ \A s \in Slots : ~FilledWithShare(s)
    \/ \E c, d \in Cards : c # d /\
         \A s \in Slots : FilledWithShare(s) => Lists(c, s) /\ Lists(d, s)

(* The sec flash is erased first. *)
EraseSecFlash ==
    /\ pc = "menu"
    /\ SafeToDeleteShares
    /\ sec' = [s \in Slots |-> NoShare]
    /\ flow' = "reset"
    /\ pc' = "reset_flash"
    /\ UNCHANGED <<flash, count, cards, nextGen, k, target, w, idx, shares, syncRam>>

(* flash_erase or flash_clear_user_data, and the reset that follows *)
EraseFlash ==
    /\ pc = "reset_flash"
    /\ flash' = [s \in Slots |-> NoWallet]
    /\ count' = 0
    /\ pc' = "menu" /\ flow' = "none" /\ k' = 1 /\ target' = None
    /\ w' = NoWallet /\ idx' = 1 /\ shares' = NoShares
    /\ toAdd' = {} /\ cursor' = 1
    /\ UNCHANGED <<sec, cards, nextGen>>

SyncReboot == Reboot /\ toAdd' = {} /\ cursor' = 1

Sync == \/ \E c \in Cards : SyncWithCards(c)
        \/ \E n \in Names, isLocked \in BOOLEAN : SyncAddWallet(n, isLocked)
        \/ SyncListDone
        \/ SyncNextWallet
        \/ \E s \in Slots : SyncOneWallet(s)
        \/ \E c \in Cards : SyncFetch(c) \/ SyncWrongPin(c)
        \/ SyncAbandoned
        \/ SyncPutShare
        \/ SyncSetValid

Reset == EraseSecFlash \/ EraseFlash

SyncNext == \/ (Create \/ Verify \/ Delete \/ Unlock) /\ UNCHANGED syncRam
            \/ Sync
            \/ Reset
            \/ SyncReboot

SyncSpec == SyncInit /\ [][SyncNext]_syncVars

(* The user splits a seed anew only when no share of it is left on a card  *)
(* or in the vault; a random seed never has one.  No code asks for it: the *)
(* creation looks at the wallets in flash only.                            *)
NoShareLeft(i) ==
    /\ \A c \in Cards, n \in Names : cards[c][n].id # i
    /\ \A s \in Slots : sec[s].id # i

SplitsFreshSeeds == \A n \in Names, i \in Ids : CreateStart(n, i) => NoShareLeft(i)

FreshSpec == SyncInit /\ [][SyncNext /\ SplitsFreshSeeds]_syncVars

-----------------------------------------------------------------------------
(* Properties *)

Holders(share) == {c \in Cards : \E n \in Names : cards[c][n] = share}

(* A wallet becomes valid, be it verified or synchronised, only when       *)
(* Threshold cards or more hold the share that lies in its slot of the sec *)
(* flash, whatever was interrupted, locked or erased since they were read. *)
SyncQuorum ==
    [][\A s \in Slots :
         flash[s].state # "valid" /\ flash'[s].state = "valid" =>
           Cardinality(Holders(sec[s])) >= Threshold]_syncVars

(* No wallet on a card is ever overwritten, and one is erased only while a *)
(* slot has its name and its id: a deletion that goes on over retries and  *)
(* slots rebuilt from cards never reaches a wallet the vault does not know.*)
ErasedIsListed ==
    [][\A c \in Cards, n \in Names :
         Holds(c, n) /\ cards'[c][n] # cards[c][n] =>
           /\ cards'[c][n] = NoShare
           /\ \E s \in Slots : Named(s, n) /\ flash[s].id = cards[c][n].id]_syncVars

(* A wallet the vault shows as valid and on all cards can be reconstructed *)
(* from shares that exist: Threshold of them, of one split, are held by    *)
(* the vault and the cards together, whatever was interrupted before.      *)
SeedRecoverable ==
    \A s \in Slots :
      flash[s].state = "valid" /\ flash[s].written = Cards /\ flash[s].attempted = {} =>
        \E g \in 0..MaxGen :
          LET share == [id |-> flash[s].id, gen |-> g] IN
            Cardinality(Holders(share) \cup (IF sec[s] = share THEN {Device} ELSE {}))
              >= Threshold

(* When the vault's shares are erased each wallet's seed can be had from   *)
(* the cards alone: the share is present, as safe_to_delete_wallet_share   *)
(* has it, on at least 2 X1 cards, and these shares are of one split.      *)
ResetLeavesQuorum ==
    [][pc' = "reset_flash" =>
         \A s \in Slots : FilledWithShare(s) =>
           \E g \in 0..MaxGen :
             Cardinality(Holders([id |-> flash[s].id, gen |-> g])) >= Threshold]_syncVars

=============================================================================
