--------------------------- MODULE WalletLifecycle ---------------------------
(***************************************************************************)
(* The life of a wallet on an X1 vault and its X1 cards: a seed is split   *)
(* into one share for the vault and one for each card; the vault keeps a   *)
(* slot per wallet in its flash (name, id, state, which cards hold a       *)
(* share), its own share in the sec-flash region at the same index, and    *)
(* writes, reads back and deletes the shares of the cards one tap at a     *)
(* time.  Power may be lost between any two persistent effects, a card may *)
(* be pulled away after it acted and before its answer arrived, and a card *)
(* may already hold a wallet of the same name made by another vault.       *)
(*                                                                         *)
(* Creation (create_new_wallet_flow, restore_seed_phrase_flow),            *)
(* verification (verify_wallet_flow), deletion (delete_wallet_flow), the   *)
(* card operations below them and the flash API they share are modelled    *)
(* here.  WalletSync adds synchronisation with the cards and factory       *)
(* reset; unlocking is one step here.                                      *)
(*                                                                         *)
(* A share is abstracted to the wallet id it reconstructs and the          *)
(* generation of the polynomial and nonces it belongs to: two shares fit   *)
(* together (generate_shares_5C2, the nonce comparison) exactly when both  *)
(* agree.  Generation 0 is a wallet some other vault made.  One save of a  *)
(* flash structure is one step here.                                       *)
(***************************************************************************)
EXTENDS Naturals, FiniteSets

CONSTANTS
    Names,       \* wallet names a user may choose
    Ids,         \* wallet ids, the hashes of seeds
    None,        \* the zeroed name and the zeroed id
    MaxWallets,  \* MAX_WALLETS_ALLOWED
    NumCards,    \* X1 cards of a set, 4 in the product
    Foreign,     \* ids of which other vaults may have put wallets on the cards
    MaxGen       \* bound: how many wallets are created in a behaviour

ASSUME NoneAssumption == None \notin Names \cup Ids
ASSUME ForeignAssumption == Foreign \subseteq Ids
ASSUME BoundsAssumption == /\ MaxWallets \in Nat \ {0}
                           /\ NumCards \in Nat \ {0}
                           /\ MaxGen \in Nat

Slots == 1..MaxWallets
Cards == 1..NumCards
Device == 0                              \* index of the vault's own share

(* The vault's share sits beside those of the cards in wallet_shamir_data. *)
Share == [id : Ids, gen : 0..MaxGen]
NoShare == [id |-> None, gen |-> 0]
Holding == Share \cup {NoShare}

States == {"default", "unverified", "valid", "invalid", "no_device_share"}

(* Flash_Wallet; written and attempted are the two nibbles of cards_states. *)
Wallet == [state : States, name : Names \cup {None}, id : Ids \cup {None},
           written : SUBSET Cards, attempted : SUBSET Cards, locked : BOOLEAN]
NoWallet == [state |-> "default", name |-> None, id |-> None,
             written |-> {}, attempted |-> {}, locked |-> FALSE]

VARIABLES
    flash,    \* Flash_Struct.wallets
    count,    \* Flash_Struct.wallet_count
    sec,      \* Sec_Flash.wallet_share_data, by the same index
    cards,    \* what each card stores under each name
    nextGen,  \* generation of the next split of a seed
    pc,       \* where the running flow stands, "menu" when none runs
    flow,     \* which flow runs
    k,        \* card_number, the card the flow is busy with
    target,   \* wallet.wallet_name, the wallet the flow is about
    w,        \* wallet_for_flash, the RAM copy the creation flow fills
    idx,      \* wallet_index of card_write_share.c
    shares    \* wallet_shamir_data, the shares in RAM

stored == <<flash, count, sec>>
ram == <<flow, target, w, idx, shares>>
vars == <<stored, cards, nextGen, pc, k, ram>>

Flows == {"none", "create", "verify", "delete"}
Places == {"menu", "save_share", "write", "add", "post", "read", "load",
           "set_state", "check", "fetch", "erase", "mark", "finish",
           "wrong_pin", "free_slot", "assert_failed"}

DataTypeOK ==
    /\ flash \in [Slots -> Wallet]
    /\ count \in Nat
    /\ sec \in [Slots -> Holding]
    /\ cards \in [Cards -> [Names -> Holding]]
    /\ nextGen \in 1..(MaxGen + 1)
    /\ k \in 1..(NumCards + 1)
    /\ target \in Names \cup {None}
    /\ w \in Wallet
    /\ idx \in Slots
    /\ shares \in [{Device} \cup Cards -> Holding]

TypeOK == DataTypeOK /\ pc \in Places /\ flow \in Flows

-----------------------------------------------------------------------------
(* The flash API. *)

Filled(s) == flash[s].state # "default"
Named(s, n) == Filled(s) /\ flash[s].name = n
NameTaken(n) == \E s \in Slots : Named(s, n)
IndexByName(n) == CHOOSE s \in Slots :
                    Named(s, n) /\ \A t \in Slots : Named(t, n) => s <= t
FirstEmpty == CHOOSE s \in Slots :
                ~Filled(s) /\ \A t \in Slots : ~Filled(t) => s <= t
CardState(s) == flash[s].written \cup flash[s].attempted
ShareNotPresent(s) == flash[s].state = "no_device_share"
SecShareMatches(s) == sec[s].id = flash[s].id

(* add_wallet_to_flash: refused, or a new slot whose index it returns. *)
AddWalletToFlash(x) ==
    IF count = MaxWallets \/ NameTaken(x.name) \/ \A s \in Slots : Filled(s)
      THEN UNCHANGED <<flash, count, idx>>
      ELSE /\ flash' = [flash EXCEPT ![FirstEmpty] = x]
           /\ count' = count + 1
           /\ idx' = FirstEmpty

(* Mutant: the wallet is counted again on every update. *)
PutWalletFlash_CountsAgain(s, x) ==
    IF \E t \in Slots \ {s} : Named(t, x.name)
      THEN UNCHANGED <<flash, count>>
      ELSE /\ flash' = [flash EXCEPT ![s] = x]
           /\ count' = count + 1

(* put_wallet_flash *)
PutWalletFlash(s, x) ==
    IF \E t \in Slots \ {s} : Named(t, x.name)
      THEN UNCHANGED <<flash, count>>
      ELSE /\ flash' = [flash EXCEPT ![s] = x]
           /\ count' = IF Filled(s) THEN count ELSE count + 1

(* Mutant: the share goes to the last empty index, not to the first. *)
AddShareToSecFlash_LastEmpty(x, sh) ==
    IF count = MaxWallets \/ NameTaken(x.name) \/ \A s \in Slots : Filled(s)
      THEN UNCHANGED sec
      ELSE LET last == CHOOSE s \in Slots :
                         ~Filled(s) /\ \A t \in Slots : ~Filled(t) => t <= s
           IN  sec' = [sec EXCEPT ![last] = sh]

(* add_wallet_share_to_sec_flash, for a wallet not yet in flash *)
AddShareToSecFlash(x, sh) ==
    IF count = MaxWallets \/ NameTaken(x.name) \/ \A s \in Slots : Filled(s)
      THEN UNCHANGED sec
      ELSE sec' = [sec EXCEPT ![FirstEmpty] = sh]

(* Mutant: only the attempt bit is reset. *)
ClearCardBits_AttemptOnly(s, c) ==
    flash' = [flash EXCEPT ![s].attempted = @ \ {c}]

(* delete_from_kth_card_flash *)
ClearCardBits(s, c) ==
    flash' = [flash EXCEPT ![s].written = @ \ {c}, ![s].attempted = @ \ {c}]

(* set_wallet_locked, reached from handle_wallet_errors *)
SetLocked(n) ==
    flash' = IF NameTaken(n)
               THEN [flash EXCEPT ![IndexByName(n)].locked = TRUE]
               ELSE flash
-----------------------------------------------------------------------------
(* A card keeps one share per name and refuses a second wallet with the    *)
(* same name or the same seed.                                             *)
Holds(c, n) == cards[c][n] # NoShare
Refuses(c, n, sh) == \E m \in Names : Holds(c, m) /\ (m = n \/ cards[c][m].id = sh.id)
StoreOnCard(c, n, sh) == cards' = [cards EXCEPT ![c][n] = sh]

NoShares == [c \in {Device} \cup Cards |-> NoShare]

(* Back to the menu: clear_wallet_data zeroes the shares and the selected  *)
(* wallet; wallet_for_flash and wallet_index keep what they had.           *)
EndFlow ==
    /\ pc' = "menu"
    /\ flow' = "none"
    /\ k' = 1
    /\ target' = None
    /\ shares' = NoShares
    /\ UNCHANGED <<w, idx>>

Init ==
    /\ flash = [s \in Slots |-> NoWallet]
    /\ count = 0
    /\ sec = [s \in Slots |-> NoShare]
    /\ cards \in [Cards -> [Names -> {NoShare} \cup [id : Foreign, gen : {0}]]]
    /\ \A c \in Cards, m, n \in Names :
         m # n /\ Holds(c, m) => cards[c][m].id # cards[c][n].id
    /\ nextGen = 1
    /\ pc = "menu"
    /\ flow = "none"
    /\ k = 1
    /\ target = None
    /\ w = NoWallet
    /\ idx = 1
    /\ shares = NoShares

-----------------------------------------------------------------------------
(* Creation and restoration: one wallet name, one seed. *)

(* The menu offers creation while a slot is free.  The name must not be in *)
(* use; a restored seed must not be that of a wallet in flash and a random *)
(* one is not.  wallet_for_flash is zeroed, the seed split.                *)
CreateStart(n, i) ==
    /\ pc = "menu"
    /\ \E s \in Slots : ~Filled(s)
    /\ ~NameTaken(n)
    /\ ~\E s \in Slots : Filled(s) /\ flash[s].id = i
    /\ nextGen <= MaxGen
    /\ nextGen' = nextGen + 1
    /\ w' = [NoWallet EXCEPT !.name = n, !.id = i]
    /\ shares' = [c \in {Device} \cup Cards |-> [id |-> i, gen |-> nextGen]]
    /\ target' = n
    /\ flow' = "create"
    /\ pc' = "save_share"
    /\ UNCHANGED <<stored, cards, k, idx>>

SaveShareToDevice ==
    /\ pc = "save_share"
    /\ AddShareToSecFlash(w, shares[Device])
    /\ pc' = "write"
    /\ UNCHANGED <<flash, count, cards, nextGen, k, ram>>

(* Mutant: the attempt is not recorded. *)
WithAttempt_Unrecorded(x, c) ==
    [x EXCEPT !.state = IF c = 1 THEN "unverified" ELSE @]

(* The wallet as it goes to flash before card c may store its share. *)
WithAttempt(x, c) ==
    [x EXCEPT !.attempted = @ \cup {c},
              !.state = IF c = 1 THEN "unverified" ELSE @]

(* write_card_share, card k is tapped: record the attempt on flash first,  *)
(* once per card.                                                          *)
RecordWriteAttempt ==
    /\ pc = "write"
    /\ pc' = "add"
    /\ IF k \in w.attempted
         THEN UNCHANGED <<flash, count, w, idx>>
         ELSE /\ w' = WithAttempt(w, k)
              /\ IF k = 1 THEN AddWalletToFlash(WithAttempt(w, k))
                          ELSE PutWalletFlash(idx, WithAttempt(w, k)) /\ UNCHANGED idx
    /\ UNCHANGED <<sec, cards, nextGen, k, flow, target, shares>>

(* nfc_add_wallet answered SW_NO_ERROR. *)
AddWalletAcked ==
    /\ pc = "add"
    /\ ~Refuses(k, target, shares[k])
    /\ StoreOnCard(k, target, shares[k])
    /\ pc' = "post"
    /\ UNCHANGED <<stored, nextGen, k, ram>>

(* The card stored the share and left the field before it answered: the    *)
(* user taps again or gives up.                                            *)
AddWalletAnswerLost ==
    /\ pc = "add"
    /\ ~Refuses(k, target, shares[k])
    /\ StoreOnCard(k, target, shares[k])
    /\ \/ pc' = "write" /\ UNCHANGED <<k, ram>>
       \/ EndFlow
    /\ UNCHANGED <<stored, nextGen>>

(* The card was lost before it stored anything. *)
AddWalletNotDone ==
    /\ pc = "add"
    /\ pc' = "write"
    /\ UNCHANGED <<stored, cards, nextGen, k, ram>>

(* Mutant: the result of card_flow_create_wallet is ignored. *)
AbandonCreate_VerifyAnyway ==
    /\ pc \in {"write", "add"}
    /\ pc' = "load"
    /\ UNCHANGED <<stored, cards, nextGen, k, ram>>

(* No card, an unrecoverable status (name or seed in use, card full), or   *)
(* the user gives up: the creation flow ends with what has been done.      *)
AbandonCreate ==
    /\ pc \in {"write", "add"}
    /\ EndFlow
    /\ UNCHANGED <<stored, cards, nextGen>>

(* Mutant: cards_states is assigned the card's bit instead of gaining it. *)
Written_Replaced(x, c) == [x EXCEPT !.written = {c}, !.attempted = {}]

(* write_card_share_post_process *)
Written(x, c) == [x EXCEPT !.written = @ \cup {c}, !.attempted = {}]
WriteSharePostProcess ==
    /\ pc = "post"
    /\ w' = Written(w, k)
    /\ PutWalletFlash(idx, Written(w, k))
    /\ shares' = [shares EXCEPT ![k] = NoShare]
    /\ pc' = "read"
    /\ UNCHANGED <<sec, cards, nextGen, k, flow, target, idx>>
-----------------------------------------------------------------------------
(* read_card_share, in creation after each write and in verification for   *)
(* all the cards, and verify_card_share_data.                              *)

VerifyStart(s) ==
    /\ pc = "menu"
    /\ flash[s].state = "unverified"
    /\ ~flash[s].locked
    /\ flash[s].written = Cards /\ flash[s].attempted = {}
    /\ target' = flash[s].name
    /\ flow' = "verify"
    /\ pc' = "read"
    /\ UNCHANGED <<stored, cards, nextGen, k, w, idx, shares>>

ReadCardShare ==
    /\ pc = "read"
    /\ Holds(k, target)
    /\ shares' = [shares EXCEPT ![k] = cards[k][target]]
    /\ IF k = NumCards
         THEN pc' = "load" /\ k' = 1
         ELSE pc' = (IF flow = "create" THEN "write" ELSE "read") /\ k' = k + 1
    /\ UNCHANGED <<stored, cards, nextGen, flow, target, w, idx>>

(* No wallet of that name, too many retries, a wrong PIN, the user leaves. *)
ReadCardFails ==
    /\ pc = "read"
    /\ EndFlow
    /\ UNCHANGED <<stored, cards, nextGen>>

(* Mutant: the flow goes on with the next card after a lock. *)
ReadCardLocked_GoesOn ==
    /\ pc = "read"
    /\ k < NumCards
    /\ Holds(k, target)
    /\ SetLocked(target)
    /\ pc' = IF flow = "create" THEN "write" ELSE "read"
    /\ k' = k + 1
    /\ UNCHANGED <<count, sec, cards, nextGen, ram>>

(* The card locked the wallet after too many wrong PINs: marked in flash.  *)
ReadCardLocked ==
    /\ pc = "read"
    /\ Holds(k, target)
    /\ SetLocked(target)
    /\ EndFlow
    /\ UNCHANGED <<count, sec, cards, nextGen>>

(* get_flash_wallet_share_by_name: a share of another id means the vault   *)
(* lost its own; what is in RAM then stays.                                *)
LoadDeviceShare ==
    /\ pc = "load"
    /\ pc' = "set_state"
    /\ IF ~NameTaken(target) \/ ShareNotPresent(IndexByName(target))
         THEN UNCHANGED <<flash, shares>>
         ELSE LET s == IndexByName(target) IN
              IF SecShareMatches(s)
                THEN /\ shares' = [shares EXCEPT ![Device] = sec[s]]
                     /\ UNCHANGED flash
                ELSE /\ flash' = [flash EXCEPT ![s].state = "no_device_share"]
                     /\ UNCHANGED shares
    /\ UNCHANGED <<count, sec, cards, nextGen, k, flow, target, w, idx>>

(* generate_shares_5C2 accepts when every pair of shares gives one secret. *)
SharesAgree == \A c, d \in {Device} \cup Cards :
                 shares[c] = shares[d] /\ shares[c] # NoShare

(* set_wallet_state with the outcome of verify_card_share_data *)
SetVerifiedState ==
    /\ pc = "set_state"
    /\ flash' = IF NameTaken(target)
                  THEN [flash EXCEPT ![IndexByName(target)].state =
                          IF SharesAgree THEN "valid" ELSE "invalid"]
                  ELSE flash
    /\ EndFlow
    /\ UNCHANGED <<count, sec, cards, nextGen>>

-----------------------------------------------------------------------------
(* Deletion *)

(* wallet_menu_handler: a partial, an invalid or a valid wallet, unlocked. *)
DeleteStart(s) ==
    /\ pc = "menu"
    /\ Filled(s)
    /\ ~flash[s].locked
    /\ \/ flash[s].written # Cards \/ flash[s].attempted # {}
       \/ flash[s].state \in {"valid", "invalid"}
    /\ target' = flash[s].name
    /\ flow' = "delete"
    /\ pc' = "check"
    /\ UNCHANGED <<stored, cards, nextGen, k, w, idx, shares>>

(* Mutant: the loop runs one card too far. *)
DeleteCheckCard_PastEnd ==
    /\ pc = "check"
    /\ IF ~NameTaken(target) THEN pc' = "assert_failed" /\ UNCHANGED k
       ELSE IF k > NumCards + 1 THEN pc' = "finish" /\ UNCHANGED k
       ELSE IF k \in CardState(IndexByName(target)) THEN pc' = "fetch" /\ UNCHANGED k
       ELSE pc' = "check" /\ k' = k + 1
    /\ UNCHANGED <<stored, cards, nextGen, ram>>

(* check_wallet_already_deleted_on_card, and the end of the loop *)
DeleteCheckCard ==
    /\ pc = "check"
    /\ IF ~NameTaken(target) THEN pc' = "assert_failed" /\ UNCHANGED k
       ELSE IF k > NumCards THEN pc' = "finish" /\ UNCHANGED k
       ELSE IF k \in CardState(IndexByName(target)) THEN pc' = "fetch" /\ UNCHANGED k
       ELSE pc' = "check" /\ k' = k + 1
    /\ UNCHANGED <<stored, cards, nextGen, ram>>

(* Mutant: the nonce is not compared. *)
FetchedMatches_IdOnly(s, sh) == sh.id = flash[s].id

(* Mutant: the id is not compared. *)
FetchedMatches_NonceOnly(s, sh) == ~ShareNotPresent(s) => sh.gen = sec[s].gen

(* verify_fetched_wallet compares the id and, where the vault has a share, *)
(* the nonce; there is no earlier fetch to compare with (xcor is 0).       *)
FetchedMatches(s, sh) ==
    /\ sh.id = flash[s].id
    /\ ~ShareNotPresent(s) => sh.gen = sec[s].gen

(* card_fetch_share got the wallet of that name, or the card has none.     *)
FetchAccepted ==
    /\ LET s == IndexByName(target) IN
         Holds(k, target) => /\ ShareNotPresent(s) \/ SecShareMatches(s)
                             /\ FetchedMatches(s, cards[k][target])
    /\ pc' = "erase"
    /\ UNCHANGED <<stored, cards, nextGen, k, ram>>

(* The wallet on the card is another one: it is left there, its bits in    *)
(* flash are cleared and the next card is due.                             *)
FetchMismatch ==
    /\ Holds(k, target)
    /\ LET s == IndexByName(target) IN
         /\ ShareNotPresent(s) \/ SecShareMatches(s)
         /\ ~FetchedMatches(s, cards[k][target])
         /\ ClearCardBits(s, k)
    /\ pc' = "check"
    /\ k' = k + 1
    /\ UNCHANGED <<count, sec, cards, nextGen, ram>>

(* get_flash_wallet_nonce_by_name finds no share of this id in sec flash:  *)
(* it saves the new state, and the ASSERT around it resets the vault.      *)
FetchShareMissing ==
    /\ Holds(k, target)
    /\ LET s == IndexByName(target) IN
         /\ ~ShareNotPresent(s) /\ ~SecShareMatches(s)
         /\ flash' = [flash EXCEPT ![s].state = "no_device_share"]
    /\ pc' = "assert_failed"
    /\ UNCHANGED <<count, sec, cards, nextGen, k, ram>>

(* card_fetch_share, and what the loop does with its outcome               *)
CardFetchShare ==
    /\ pc = "fetch"
    /\ FetchAccepted \/ FetchMismatch \/ FetchShareMissing

(* Any other error of a tap ends the loop; a card that locked the wallet   *)
(* after too many wrong PINs has the lock marked in flash.                 *)
DeleteTapFails ==
    /\ pc \in {"fetch", "erase"}
    /\ \/ pc' = "finish" /\ UNCHANGED flash
       \/ pc' = "wrong_pin" /\ Holds(k, target) /\ UNCHANGED flash
       \/ pc' = "finish" /\ Holds(k, target) /\ SetLocked(target)
    /\ UNCHANGED <<count, sec, cards, nextGen, k, ram>>

(* nfc_delete_wallet: the card erases what it holds under that name and    *)
(* says so, or is pulled away just after; the user retries or leaves.      *)
EraseAcked ==
    /\ pc = "erase"
    /\ StoreOnCard(k, target, NoShare)
    /\ pc' = "mark"
    /\ UNCHANGED <<stored, nextGen, k, ram>>

EraseAnswerLost ==
    /\ pc = "erase"
    /\ StoreOnCard(k, target, NoShare)
    /\ pc' \in {"erase", "finish"}
    /\ UNCHANGED <<stored, nextGen, k, ram>>

(* handle_wallet_deleted_from_card *)
MarkDeletedFromCard ==
    /\ pc = "mark"
    /\ ClearCardBits(IndexByName(target), k)
    /\ pc' = "check"
    /\ k' = k + 1
    /\ UNCHANGED <<count, sec, cards, nextGen, ram>>

(* The end of card_flow_delete_wallet: once no card is marked any more the *)
(* vault erases its own share (the call is inside an ASSERT), otherwise    *)
(* the flow ends, or starts over when the PIN was wrong.                   *)
FinishDelete ==
    /\ pc \in {"finish", "wrong_pin"}
    /\ LET s == IndexByName(target) IN
       IF CardState(s) # {}
         THEN /\ \/ EndFlow
                 \/ pc = "wrong_pin" /\ pc' = "check" /\ k' = 1 /\ UNCHANGED ram
              /\ UNCHANGED sec
         ELSE /\ IF ShareNotPresent(s)
                   THEN pc' = "assert_failed" /\ UNCHANGED sec
                   ELSE pc' = "free_slot" /\ sec' = [sec EXCEPT ![s] = NoShare]
              /\ UNCHANGED <<k, ram>>
    /\ UNCHANGED <<flash, count, cards, nextGen>>

(* delete_wallet_from_flash: id and lock of the slot are left as they are. *)
FreeSlot ==
    /\ pc = "free_slot"
    /\ flash' = [flash EXCEPT ![IndexByName(target)].state = "default",
                              ![IndexByName(target)].name = None,
                              ![IndexByName(target)].written = {},
                              ![IndexByName(target)].attempted = {}]
    /\ count' = count - 1
    /\ EndFlow
    /\ UNCHANGED <<sec, cards, nextGen>>

(* wallet_unlock_flow found the nonce of the card's challenge.             *)
UnlockWallet(s) ==
    /\ pc = "menu"
    /\ Filled(s)
    /\ flash[s].locked
    /\ flash' = [flash EXCEPT ![s].locked = FALSE]
    /\ UNCHANGED <<count, sec, cards, nextGen, pc, k, ram>>

-----------------------------------------------------------------------------
(* Power is lost, or the reset a failed ASSERT asks for: RAM is zeroed.    *)
Reboot ==
    /\ pc' = "menu"
    /\ flow' = "none"
    /\ k' = 1
    /\ target' = None
    /\ w' = NoWallet
    /\ idx' = 1
    /\ shares' = NoShares
    /\ UNCHANGED <<stored, cards, nextGen>>

Create == \/ \E n \in Names, i \in Ids : CreateStart(n, i)
          \/ SaveShareToDevice
          \/ RecordWriteAttempt
          \/ AddWalletAcked
          \/ AddWalletAnswerLost
          \/ AddWalletNotDone
          \/ AbandonCreate
          \/ WriteSharePostProcess

Verify == \/ \E s \in Slots : VerifyStart(s)
          \/ ReadCardShare
          \/ ReadCardFails
          \/ ReadCardLocked
          \/ LoadDeviceShare
          \/ SetVerifiedState

Delete == \/ \E s \in Slots : DeleteStart(s)
          \/ DeleteCheckCard
          \/ CardFetchShare
          \/ DeleteTapFails
          \/ EraseAcked
          \/ EraseAnswerLost
          \/ MarkDeletedFromCard
          \/ FinishDelete
          \/ FreeSlot

Unlock == \E s \in Slots : UnlockWallet(s)

Next == Create \/ Verify \/ Delete \/ Unlock \/ Reboot

Spec == Init /\ [][Next]_vars

-----------------------------------------------------------------------------
(* Properties *)

Own(c, n) == cards[c][n].gen > 0

(* Every share this vault put on a card is accounted for: a slot of that   *)
(* name marks the card, by a finished write or by an attempt, and the      *)
(* vault's own share in that slot belongs to the same split, so that the   *)
(* deletion flow can find the card and recognise the share.  It rests on   *)
(* the order of the saves around nfc_add_wallet and nfc_delete_wallet.     *)
ShareTracked ==
    \A c \in Cards, n \in Names : Own(c, n) =>
        \E s \in Slots : Named(s, n) /\ c \in CardState(s) /\ sec[s] = cards[c][n]

(* No flow of this vault alters or erases what another vault stored.       *)
ForeignSafe ==
    [][\A c \in Cards, n \in Names :
         Holds(c, n) /\ ~Own(c, n) => cards'[c][n] = cards[c][n]]_vars

(* A card marked as written does hold the share, save for the first marked *)
(* one, erased when a deletion was interrupted before its mark was cleared *)
(* in flash.  Deleting in card order and one mark at a time keeps it so:   *)
(* a wallet the vault offers for use misses at most one of its cards.      *)
WrittenCardsHold ==
    \A s \in Slots : Filled(s) =>
        \A c \in flash[s].written :
            \/ cards[c][flash[s].name] = sec[s]
            \/ \A d \in CardState(s) : c <= d

(* A wallet becomes valid only when every card and the vault hold shares   *)
(* of one split at that moment, not merely when they were read.            *)
ValidOnlyIfAllAgree ==
    [][\A s \in Slots :
         flash[s].state # "valid" /\ flash'[s].state = "valid" =>
           \A c \in Cards : cards[c][flash[s].name] = sec[s] /\ Own(c, flash[s].name)]_vars

(* The lock a card asked for survives every save of the wallet's slot, the *)
(* copies of wallet_for_flash included, until the unlock flow clears it.   *)
LockOnlyClearedByUnlock ==
    [][\A s \in Slots :
         Filled(s) /\ flash[s].locked /\ flash'[s].state # "default" =>
           flash'[s].locked \/ UnlockWallet(s)]_vars

(* wallet_count counts the filled slots, and neither a name nor a seed is  *)
(* in two of them: what get_index_by_name and get_first_matching_index_by_ *)
(* id take for granted.                                                    *)
SlotsConsistent ==
    /\ count = Cardinality({s \in Slots : Filled(s)})
    /\ \A s, t \in Slots : s # t /\ Filled(s) /\ Filled(t) =>
         flash[s].name # flash[t].name /\ flash[s].id # flash[t].id

(* No ASSERT of the deletion flow fails.                                   *)
AssertsHold == pc # "assert_failed"

(* The slots are the durable ledger of ShareLedger. *)
LedgerOf(n) == {c \in Cards : \E s \in Slots : Named(s, n) /\ c \in CardState(s)}
Ledger == INSTANCE ShareLedger WITH
            ledger <- [n \in Names |-> LedgerOf(n)],
            held <- [n \in Names |-> {c \in Cards : Own(c, n)}]

(* The flows keep the promise of ShareLedger: a card is on record before a *)
(* share is stored on it and until it holds none, step by step.            *)
ImplementsLedger == Ledger!Spec

-----------------------------------------------------------------------------
(* The inductive invariant: what each flow relies on between two of its    *)
(* steps, in the words of the slots, the cards and its RAM.                *)

SlotsSound ==
    \A s \in Slots : Filled(s) =>
        /\ flash[s].name \in Names /\ flash[s].id \in Ids
        /\ flash[s].state # "no_device_share"
        /\ CardState(s) # {} => SecShareMatches(s) /\ sec[s].gen > 0

PlacesOfFlow ==
    /\ flow = "none" <=> pc = "menu"
    /\ flow = "create" => pc \in {"save_share", "write", "add", "post", "read",
                                  "load", "set_state"}
    /\ flow = "verify" => pc \in {"read", "load", "set_state"}
    /\ flow = "delete" => pc \in {"check", "fetch", "erase", "mark", "finish",
                                  "wrong_pin", "free_slot"}
    /\ pc = "menu" => k = 1

(* The new wallet is not in flash yet. *)
Unsaved == pc = "save_share" \/ (pc = "write" /\ k = 1 /\ w.attempted = {})

WhileUnsaved ==
    /\ ~NameTaken(target)
    /\ \A s \in Slots : Filled(s) => flash[s].id # w.id
    /\ \E s \in Slots : ~Filled(s)
    /\ k = 1 /\ w.written = {} /\ w.attempted = {}
    /\ \A c \in Cards : shares[c] = shares[Device]
    /\ pc = "write" => sec[FirstEmpty] = shares[Device]

OnceSaved ==
    /\ flash[idx] = w /\ w.state = "unverified"
    /\ sec[idx] = shares[Device]
    /\ w.attempted \subseteq {k} /\ w.attempted \cup w.written # {}
    /\ pc \in {"add", "post"} => w.attempted = {k}
    /\ pc \in {"read", "load", "set_state"} => w.attempted = {}
    /\ pc \in {"write", "add", "post"} =>
         /\ k \in Cards /\ w.written = 1..(k - 1)
         /\ \A c \in Cards : shares[c] = shares[Device]
    /\ pc = "read" =>
         /\ k \in Cards /\ w.written = 1..k
         /\ \A c \in Cards \ {k} : shares[c] = shares[Device]
    /\ pc = "post" => cards[k][target] = sec[idx]
    /\ \A c \in w.written : cards[c][target] = sec[idx]

Creating ==
    flow = "create" =>
        /\ target \in Names /\ target = w.name /\ w.id \in Ids /\ ~w.locked
        /\ shares[Device].id = w.id /\ shares[Device].gen > 0
        /\ IF Unsaved THEN WhileUnsaved ELSE OnceSaved

Verifying ==
    flow = "verify" =>
        /\ target \in Names
        /\ \E s \in Slots : Named(s, target) /\ flash[s].written = Cards

(* What has been read back is what the cards hold. *)
Reading ==
    /\ pc = "read" => k \in Cards
    /\ pc = "read" => \A c \in 1..(k - 1) : shares[c] = cards[c][target]
    /\ pc \in {"load", "set_state"} => \A c \in Cards : shares[c] = cards[c][target]
    /\ pc = "set_state" =>
         \A s \in Slots : Named(s, target) => sec[s] = shares[Device]

Deleting ==
    flow = "delete" =>
        /\ target \in Names /\ NameTaken(target)
        /\ pc \in {"fetch", "erase", "mark"} => k \in Cards
        /\ pc = "erase" => ~Holds(k, target) \/ Own(k, target)
        /\ pc = "mark" => ~Holds(k, target)
        /\ \A s \in Slots : Named(s, target) =>
             /\ pc = "fetch" => k \in CardState(s)
             /\ pc \in {"check", "fetch", "erase", "mark"} =>
                  \A c \in CardState(s) : k <= c
             /\ pc = "free_slot" => CardState(s) = {}

(* The invariant of every reachable state, from which the properties above *)
(* follow: the slots are sound, each flow is where it believes to be.      *)
IInv ==
    /\ TypeOK
    /\ SlotsConsistent
    /\ SlotsSound
    /\ ShareTracked
    /\ WrittenCardsHold
    /\ AssertsHold
    /\ PlacesOfFlow
    /\ Creating
    /\ Verifying
    /\ Reading
    /\ Deleting

=============================================================================
