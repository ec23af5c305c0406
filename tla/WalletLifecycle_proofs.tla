------------------------ MODULE WalletLifecycle_proofs ------------------------
(***************************************************************************)
(* Proofs about WalletLifecycle, for every set of names and ids, every     *)
(* number of slots and of cards: the inductive invariant IInv, the safety  *)
(* properties it implies, and the refinement of ShareLedger.               *)
(***************************************************************************)
EXTENDS WalletLifecycle, FiniteSetTheorems, WellFoundedInduction, TLAPS

-----------------------------------------------------------------------------
(* The operators of the flash API. *)

(* Where no name is in two slots get_index_by_name returns the slot that   *)
(* has it.                                                                 *)
LEMMA IndexOfName ==
    ASSUME MaxWallets \in Nat, NEW n, NEW s \in Slots, Named(s, n),
           \A t \in Slots : Named(t, n) => t = s
    PROVE  IndexByName(n) = s
<1>1. \A t \in Slots : Named(t, n) => s <= t
  BY DEF Slots
<1>2. QED
  BY <1>1, Zenon DEF IndexByName

(* The flash API finds an empty slot whenever there is one. *)
LEMMA FirstEmptyIsEmpty ==
    ASSUME MaxWallets \in Nat, \E s \in Slots : ~Filled(s)
    PROVE  FirstEmpty \in Slots /\ ~Filled(FirstEmpty)
<1> DEFINE E == {s \in Slots : ~Filled(s)}
<1>1. E \subseteq Nat /\ E # {}
  BY DEF Slots
<1> DEFINE R == {p \in Nat \X Nat : p[1] < p[2]}
<1>2. IsWellFoundedOn(R, Nat)
  <2>1. OpToRel(<, Nat) = R
    BY Zenon DEF OpToRel
  <2>2. QED
    BY <2>1, NatLessThanWellFounded
<1>3. PICK m \in E : \A t \in E : ~(<<t, m>> \in R)
  <2> HIDE DEF E, R
  <2>1. QED
    BY <1>1, <1>2, WFMin
<1>4. \A t \in E : m <= t
  <2>1. SUFFICES ASSUME NEW t \in E PROVE m <= t
    OBVIOUS
  <2>2. t \in Nat /\ m \in Nat
    BY <1>1
  <2>3. ~(t < m)
    <3>1. <<t, m>> \in Nat \X Nat /\ <<t, m>>[1] = t /\ <<t, m>>[2] = m
      BY <2>2
    <3>2. QED
      BY <1>3, <3>1
  <2>4. QED
    BY <2>2, <2>3
<1>5. QED
  BY <1>4 DEF FirstEmpty

(* A vault with an empty slot has not reached MAX_WALLETS_ALLOWED. *)
LEMMA RoomLeft ==
    ASSUME MaxWallets \in Nat, NEW s \in Slots, ~Filled(s)
    PROVE  Cardinality({t \in Slots : Filled(t)}) < MaxWallets
<1> DEFINE F == {t \in Slots : Filled(t)}
<1>1. IsFiniteSet(Slots) /\ Cardinality(Slots) = MaxWallets
  BY FS_Interval DEF Slots
<1>2. /\ IsFiniteSet(F) /\ Cardinality(F) \in Nat
      /\ Cardinality(F) <= MaxWallets
      /\ Cardinality(F) = MaxWallets => F = Slots
  <2>1. F \in SUBSET Slots
    OBVIOUS
  <2>2. QED
    BY <1>1, <2>1, FS_Subset, FS_CardinalityType
<1>3. QED
  BY <1>2

-----------------------------------------------------------------------------
(* Groups of conjuncts that many steps leave alone. *)

StoredInv == SlotsConsistent /\ SlotsSound /\ ShareTracked /\ WrittenCardsHold
FlowInv == /\ PlacesOfFlow /\ Creating /\ Verifying /\ Reading /\ Deleting
           /\ AssertsHold

USE DEF Device

(* A step that saves nothing and touches no card keeps what is stored      *)
(* sound.                                                                  *)
LEMMA StoredKept ==
    ASSUME StoredInv, UNCHANGED <<stored, cards>>
    PROVE  StoredInv'
BY DEF StoredInv, SlotsConsistent, SlotsSound, ShareTracked, WrittenCardsHold,
       stored, Filled, Named, CardState, SecShareMatches, Own

(* In the menu no flow relies on anything. *)
LEMMA EndFlowKept ==
    ASSUME TypeOK, EndFlow
    PROVE  /\ FlowInv' /\ pc' \in Places /\ flow' \in Flows
           /\ k' \in 1..(NumCards + 1) /\ target' \in Names \cup {None}
           /\ w' \in Wallet /\ idx' \in Slots
           /\ shares' \in [{Device} \cup Cards -> Holding]
<1>1. /\ pc' = "menu" /\ flow' = "none" /\ k' = 1 /\ target' = None
      /\ w' = w /\ idx' = idx /\ shares' = NoShares
  BY DEF EndFlow
<1>2. FlowInv'
  BY <1>1 DEF FlowInv, PlacesOfFlow, Creating, Verifying, Reading, Deleting, AssertsHold
<1>3. shares' \in [{Device} \cup Cards -> Holding]
  BY <1>1 DEF NoShares, Holding
<1>4. QED
  BY <1>1, <1>2, <1>3, BoundsAssumption DEF TypeOK, DataTypeOK, Places, Flows

(* The vault as delivered, with any wallets of other vaults on the cards.  *)
LEMMA InitSound == Init => IInv
<1> SUFFICES ASSUME Init PROVE IInv
  OBVIOUS
<1>1. \A s \in Slots : ~Filled(s)
  BY DEF Init, Filled, NoWallet
<1>2. TypeOK
  <2>1. NoWallet \in Wallet /\ NoShare \in Holding
    BY DEF NoWallet, Wallet, States, NoShare, Holding
  <2>2. cards \in [Cards -> [Names -> Holding]]
    <3>1. {NoShare} \cup [id : Foreign, gen : {0}] \subseteq Holding
      BY ForeignAssumption, BoundsAssumption DEF Holding, Share
    <3>2. QED
      BY <3>1 DEF Init
  <2>3. QED
    BY <2>1, <2>2, BoundsAssumption
       DEF Init, TypeOK, DataTypeOK, NoShares, Places, Flows, Slots
<1>3. SlotsConsistent
  <2>1. {s \in Slots : Filled(s)} = {}
    BY <1>1
  <2>2. QED
    BY <1>1, <2>1, FS_EmptySet DEF Init, SlotsConsistent
<1>4. SlotsSound /\ WrittenCardsHold
  BY <1>1 DEF SlotsSound, WrittenCardsHold
<1>5. ShareTracked
  <2>1. \A c \in Cards, n \in Names : cards[c][n].gen = 0
    BY DEF Init, NoShare
  <2>2. QED
    BY <2>1 DEF ShareTracked, Own
<1>6. FlowInv
  BY DEF Init, FlowInv, PlacesOfFlow, Creating, Verifying, Reading, Deleting, AssertsHold
<1>7. QED
  BY <1>2, <1>3, <1>4, <1>5, <1>6 DEF IInv, FlowInv

(* The slot of a name in use, wherever slots are consistent. *)
LEMMA SlotOfName ==
    ASSUME SlotsConsistent, NEW n, NameTaken(n)
    PROVE  /\ IndexByName(n) \in Slots /\ Named(IndexByName(n), n)
           /\ \A t \in Slots : Named(t, n) => t = IndexByName(n)
<1>1. PICK s \in Slots : Named(s, n)
  BY DEF NameTaken
<1>2. \A t \in Slots : Named(t, n) => t = s
  BY <1>1 DEF SlotsConsistent, Named
<1>3. IndexByName(n) = s
  BY <1>1, <1>2, IndexOfName, BoundsAssumption
<1>4. QED
  BY <1>1, <1>2, <1>3

(* Each place belongs to one flow, or to the two that read shares back. *)
LEMMA FlowOfPlace ==
    ASSUME TypeOK, PlacesOfFlow
    PROVE  /\ pc \in {"save_share", "write", "add", "post"} => flow = "create"
           /\ pc \in {"read", "load", "set_state"} => flow \in {"create", "verify"}
           /\ pc \in {"check", "fetch", "erase", "mark", "finish", "wrong_pin",
                       "free_slot"} => flow = "delete"
           /\ pc = "menu" => flow = "none"
BY DEF TypeOK, Flows, PlacesOfFlow

-----------------------------------------------------------------------------
(* The steps that only move a flow. *)

(* A flow that ends without touching what is stored keeps the invariant.   *)
LEMMA EndingStep ==
    ASSUME IInv, EndFlow, UNCHANGED <<stored, cards, nextGen>>
    PROVE  IInv'
<1>1. StoredInv'
  BY StoredKept DEF IInv, StoredInv
<1>2. TypeOK' /\ FlowInv'
  BY EndFlowKept DEF IInv, TypeOK, DataTypeOK, stored
<1>3. QED
  BY <1>1, <1>2 DEF IInv, StoredInv, FlowInv

(* A power loss, or the reset of a failed ASSERT, keeps it at any point.   *)
LEMMA RebootStep == ASSUME IInv, Reboot PROVE IInv'
<1>1. StoredInv'
  BY StoredKept DEF IInv, StoredInv, Reboot
<1>2. TypeOK'
  <2>1. NoWallet \in Wallet /\ NoShares \in [{Device} \cup Cards -> Holding]
    BY DEF NoWallet, Wallet, States, NoShares, Holding
  <2>2. QED
    BY <2>1, BoundsAssumption
       DEF IInv, Reboot, TypeOK, DataTypeOK, stored, Places, Flows, Slots
<1>3. FlowInv'
  BY DEF Reboot, FlowInv, PlacesOfFlow, Creating, Verifying, Reading, Deleting, AssertsHold
<1>4. QED
  BY <1>1, <1>2, <1>3 DEF IInv, StoredInv, FlowInv

(* A creation starts with a wallet that is not in flash yet.               *)
LEMMA CreateStartStep ==
    ASSUME IInv, NEW n \in Names, NEW i \in Ids, CreateStart(n, i)
    PROVE  IInv'
<1>1. StoredInv'
  BY StoredKept DEF IInv, StoredInv, CreateStart
<1>2. TypeOK'
  <2>1. w' \in Wallet
    BY NoneAssumption DEF CreateStart, NoWallet, Wallet, States
  <2>2. shares' \in [{Device} \cup Cards -> Holding]
    BY DEF CreateStart, IInv, TypeOK, DataTypeOK, Holding, Share
  <2>3. nextGen' \in 1..(MaxGen + 1)
    BY BoundsAssumption DEF CreateStart, IInv, TypeOK, DataTypeOK
  <2>4. QED
    BY <2>1, <2>2, <2>3
       DEF CreateStart, IInv, TypeOK, DataTypeOK, stored, Places, Flows
<1>3. FlowInv'
  <2>1. Unsaved' /\ WhileUnsaved' /\ Creating'
    BY DEF CreateStart, IInv, TypeOK, DataTypeOK, PlacesOfFlow, Creating, Unsaved,
           WhileUnsaved, NameTaken, Named, Filled, stored, NoWallet
  <2>2. QED
    BY <2>1 DEF CreateStart, FlowInv, PlacesOfFlow, Verifying, Reading, Deleting,
                AssertsHold
<1>4. QED
  BY <1>1, <1>2, <1>3 DEF IInv, StoredInv, FlowInv

(* A card lost before it acted: the same card is due again.                *)
LEMMA AddWalletNotDoneStep == ASSUME IInv, AddWalletNotDone PROVE IInv'
<1>1. StoredInv'
  BY StoredKept DEF IInv, StoredInv, AddWalletNotDone
<1>2. TypeOK'
  BY DEF AddWalletNotDone, IInv, TypeOK, DataTypeOK, stored, ram, Places, Flows
<1>3. FlowInv'
  <2>1. flow = "create" /\ ~Unsaved /\ ~Unsaved'
    BY FlowOfPlace
       DEF AddWalletNotDone, IInv, Creating, Unsaved, OnceSaved, ram
  <2>2. OnceSaved'
    BY <2>1 DEF AddWalletNotDone, IInv, Creating, OnceSaved, stored, ram
  <2>3. QED
    BY <2>1, <2>2 DEF AddWalletNotDone, IInv, FlowInv, PlacesOfFlow, Creating,
                      Verifying, Reading, Deleting, AssertsHold, ram
<1>4. QED
  BY <1>1, <1>2, <1>3 DEF IInv, StoredInv, FlowInv

(* Verification starts on a wallet that marks every card.                  *)
LEMMA VerifyStartStep ==
    ASSUME IInv, NEW s \in Slots, VerifyStart(s) PROVE IInv'
<1>1. StoredInv'
  BY StoredKept DEF IInv, StoredInv, VerifyStart
<1>2. Named(s, target)' /\ target' \in Names
  BY DEF VerifyStart, IInv, SlotsSound, Named, Filled, stored
<1>3. TypeOK'
  BY <1>2 DEF VerifyStart, IInv, TypeOK, DataTypeOK, stored, Places, Flows
<1>4. FlowInv'
  <2>1. Verifying'
    BY <1>2 DEF VerifyStart, Verifying, stored
  <2>2. Reading'
    BY BoundsAssumption DEF VerifyStart, IInv, PlacesOfFlow, Reading, Cards
  <2>3. QED
    BY <2>1, <2>2 DEF VerifyStart, FlowInv, PlacesOfFlow, Creating, Deleting, AssertsHold
<1>5. QED
  BY <1>1, <1>3, <1>4 DEF IInv, StoredInv, FlowInv

(* Reading a share back: what is in RAM is what the card holds.            *)
LEMMA ReadCardShareStep == ASSUME IInv, ReadCardShare PROVE IInv'
<1>1. StoredInv'
  BY StoredKept DEF IInv, StoredInv, ReadCardShare
<1>2. k \in Cards /\ target \in Names
  BY FlowOfPlace DEF ReadCardShare, IInv, Reading, Creating, Verifying
<1>3. TypeOK'
  <2>1. cards[k][target] \in Holding
    BY <1>2 DEF IInv, TypeOK, DataTypeOK
  <2>2. QED
    BY <1>2, <2>1, BoundsAssumption
       DEF ReadCardShare, IInv, TypeOK, DataTypeOK, stored, Places, Cards
<1>4. FlowInv'
  <2>1. Creating'
    <3>1. SUFFICES ASSUME flow = "create" PROVE Creating'
      BY DEF ReadCardShare, Creating
    <3>2. ~Unsaved /\ OnceSaved
      BY <3>1 DEF ReadCardShare, IInv, Creating, Unsaved
    <3>3. ~Unsaved' /\ OnceSaved'
      BY <1>2, <3>1, <3>2, BoundsAssumption
         DEF ReadCardShare, IInv, TypeOK, DataTypeOK, Unsaved, OnceSaved, Cards, stored
    <3>4. QED
      BY <1>2, <3>1, <3>3 DEF ReadCardShare, IInv, TypeOK, DataTypeOK, Creating, Cards
  <2>2. Reading'
    BY <1>2, BoundsAssumption
       DEF ReadCardShare, IInv, TypeOK, DataTypeOK, Reading, Cards
  <2>3. QED
    BY <2>1, <2>2 DEF ReadCardShare, IInv, FlowInv, PlacesOfFlow, Verifying, Deleting,
                      AssertsHold, Named, Filled, stored
<1>5. QED
  BY <1>1, <1>3, <1>4 DEF IInv, StoredInv, FlowInv

(* A tap that fails while reading ends the flow.                           *)
LEMMA ReadCardFailsStep == ASSUME IInv, ReadCardFails PROVE IInv'
BY EndingStep DEF ReadCardFails

(* The user gives up a creation between two cards.                         *)
LEMMA AbandonCreateStep == ASSUME IInv, AbandonCreate PROVE IInv'
BY EndingStep DEF AbandonCreate

(* Deletion starts on the name of a filled slot.                           *)
LEMMA DeleteStartStep ==
    ASSUME IInv, NEW s \in Slots, DeleteStart(s) PROVE IInv'
<1>1. StoredInv'
  BY StoredKept DEF IInv, StoredInv, DeleteStart
<1>2. /\ Named(s, target)' /\ target' \in Names
      /\ \A t \in Slots : Named(t, target)' => t = s
  BY DEF DeleteStart, IInv, SlotsSound, SlotsConsistent, Named, Filled, stored
<1>3. TypeOK'
  BY <1>2 DEF DeleteStart, IInv, TypeOK, DataTypeOK, stored, Places, Flows
<1>4. FlowInv'
  <2>1. k' = 1 /\ \A t \in Slots : CardState(t)' \subseteq Nat \ {0}
    BY <1>3 DEF DeleteStart, IInv, PlacesOfFlow, TypeOK, DataTypeOK, Wallet, CardState,
                Cards
  <2>2. Deleting'
    BY <1>2, <2>1 DEF DeleteStart, Deleting, NameTaken
  <2>3. QED
    BY <2>2 DEF DeleteStart, IInv, FlowInv, PlacesOfFlow, Creating, Verifying, Reading,
                AssertsHold
<1>5. QED
  BY <1>1, <1>3, <1>4 DEF IInv, StoredInv, FlowInv

(* The slot of the wallet a deletion is about. *)
LEMMA SlotOfDeletion ==
    ASSUME IInv, flow = "delete"
    PROVE  /\ IndexByName(target) \in Slots
           /\ Named(IndexByName(target), target)
           /\ \A t \in Slots : Named(t, target) => t = IndexByName(target)
BY SlotOfName DEF IInv, Deleting

(* The loop of the deletion passes a card only when it is not marked.      *)
LEMMA DeleteCheckCardStep == ASSUME IInv, DeleteCheckCard PROVE IInv'
<1>1. StoredInv'
  BY StoredKept DEF IInv, StoredInv, DeleteCheckCard
<1>2. flow = "delete"
  BY FlowOfPlace DEF DeleteCheckCard, IInv
<1>3. NameTaken(target) /\ k \in 1..(NumCards + 1)
  BY <1>2 DEF IInv, Deleting, TypeOK, DataTypeOK
<1> DEFINE s == IndexByName(target)
<1>4. /\ s \in Slots /\ \A t \in Slots : Named(t, target) => t = s
      /\ CardState(s) \subseteq Nat
      /\ \A c \in CardState(s) : k <= c
  <2>1. s \in Slots /\ Named(s, target) /\ \A t \in Slots : Named(t, target) => t = s
    BY <1>2, SlotOfDeletion
  <2>2. QED
    BY <1>2, <2>1 DEF DeleteCheckCard, IInv, Deleting, TypeOK, DataTypeOK, Wallet,
                      CardState, Cards
<1>5. \/ pc' = "finish" /\ k' = k
      \/ pc' = "fetch" /\ k' = k /\ k \in CardState(s) /\ k \in Cards
      \/ pc' = "check" /\ k' = k + 1 /\ k \notin CardState(s) /\ k \in Cards
  BY <1>3, BoundsAssumption DEF DeleteCheckCard, Cards
<1>6. UNCHANGED <<flash, count, sec, cards, nextGen, flow, target, w, idx, shares>>
  BY DEF DeleteCheckCard, stored, ram
<1> HIDE DEF s
<1>7. TypeOK'
  BY <1>3, <1>5, <1>6, BoundsAssumption
     DEF IInv, TypeOK, DataTypeOK, Places, Flows, Cards
<1>8. Deleting'
  <2>1. target \in Names /\ (NameTaken(target))'
    BY <1>2, <1>3, <1>6 DEF IInv, Deleting, NameTaken, Named, Filled
  <2>2. \A t \in Slots : (Named(t, target))' => t = s /\ (CardState(t))' = CardState(s)
    BY <1>4, <1>6 DEF Named, Filled, CardState
  <2>3. pc' = "check" => \A c \in CardState(s) : k' <= c
    BY <1>3, <1>4, <1>5
  <2>4. QED
    BY <1>4, <1>5, <1>6, <2>1, <2>2, <2>3 DEF Deleting
<1>9. FlowInv'
  BY <1>2, <1>5, <1>6, <1>8 DEF IInv, FlowInv, PlacesOfFlow, Creating, Verifying, Reading,
                                AssertsHold
<1>10. QED
  BY <1>1, <1>7, <1>9 DEF IInv, StoredInv, FlowInv

(* A deletion that moves on without a save: its place is all that changes. *)
LEMMA FetchAcceptedStep == ASSUME IInv, pc = "fetch", FetchAccepted PROVE IInv'
<1>1. StoredInv'
  BY StoredKept DEF IInv, StoredInv, FetchAccepted
<1>2. flow = "delete"
  BY FlowOfPlace DEF FetchAccepted, IInv
<1>3. UNCHANGED <<flash, count, sec, cards, nextGen, k, flow, target, w, idx, shares>>
  BY DEF FetchAccepted, stored, ram
<1>4. TypeOK'
  BY <1>3 DEF FetchAccepted, IInv, TypeOK, DataTypeOK, Places, Flows
<1>5. Holds(k, target) => Own(k, target)
  <2> DEFINE s == IndexByName(target)
  <2>1. s \in Slots /\ Named(s, target)
    BY <1>2, SlotOfDeletion
  <2>2. SecShareMatches(s) /\ sec[s].gen > 0 /\ ~ShareNotPresent(s)
    BY <1>2, <2>1 DEF FetchAccepted, IInv, Deleting, SlotsSound, Named, ShareNotPresent
  <2>3. QED
    BY <2>1, <2>2 DEF FetchAccepted, FetchedMatches, Own
<1>6. Deleting'
  BY <1>2, <1>3, <1>5
     DEF FetchAccepted, IInv, Deleting, Named, NameTaken, Filled, CardState, Holds, Own
<1>7. FlowInv'
  BY <1>2, <1>3, <1>6 DEF FetchAccepted, IInv, FlowInv, PlacesOfFlow, Creating,
                          Verifying, Reading, AssertsHold
<1>8. QED
  BY <1>1, <1>4, <1>7 DEF IInv, StoredInv, FlowInv

(* The vault's own share is there whenever a card is marked: the ASSERT    *)
(* around get_flash_wallet_nonce_by_name holds.                            *)
LEMMA FetchShareMissingNever == ASSUME IInv, pc = "fetch", FetchShareMissing PROVE FALSE
<1>1. flow = "delete"
  BY FlowOfPlace DEF FetchShareMissing, IInv
<1>2. IndexByName(target) \in Slots /\ Named(IndexByName(target), target)
  BY <1>1, SlotOfDeletion
<1>3. QED
  BY <1>1, <1>2 DEF FetchShareMissing, IInv, Deleting, SlotsSound, Named

-----------------------------------------------------------------------------
(* The steps that save one slot of the flash. *)

(* A filled slot that keeps its name and id, gets no mark where it had     *)
(* none and loses marks only of cards without its share.                   *)
LEMMA SlotKept ==
    ASSUME DataTypeOK, StoredInv, NEW s \in Slots, Filled(s), NEW x \in Wallet,
           flash' = [flash EXCEPT ![s] = x], UNCHANGED <<count, sec, cards>>,
           x.state \notin {"default", "no_device_share"},
           x.name = flash[s].name, x.id = flash[s].id,
           CardState(s) = {} => x.written \cup x.attempted = {},
           \A c \in CardState(s) :
             c \notin x.written \cup x.attempted => cards[c][x.name] # sec[s],
           \A c \in x.written :
             \/ cards[c][x.name] = sec[s]
             \/ \A d \in x.written \cup x.attempted : c <= d
    PROVE  StoredInv' /\ flash' \in [Slots -> Wallet]
<1>1. flash' \in [Slots -> Wallet] /\ flash'[s] = x
      /\ \A t \in Slots \ {s} : flash'[t] = flash[t]
  BY DEF DataTypeOK
<1>2. \A t \in Slots : /\ (Filled(t))' <=> Filled(t)
                       /\ flash'[t].name = flash[t].name /\ flash'[t].id = flash[t].id
                       /\ t # s => (CardState(t))' = CardState(t)
  BY <1>1 DEF Filled, CardState
<1>3. (CardState(s))' = x.written \cup x.attempted
  BY <1>1 DEF CardState
<1>4. SlotsConsistent'
  <2>1. {t \in Slots : (Filled(t))'} = {t \in Slots : Filled(t)}
    BY <1>2
  <2>2. count' = Cardinality({t \in Slots : (Filled(t))'})
    BY <2>1 DEF StoredInv, SlotsConsistent
  <2>3. \A t, u \in Slots : t # u /\ (Filled(t))' /\ (Filled(u))' =>
          flash'[t].name # flash'[u].name /\ flash'[t].id # flash'[u].id
    BY <1>2 DEF StoredInv, SlotsConsistent
  <2>4. QED
    BY <2>2, <2>3 DEF SlotsConsistent
<1>5. SlotsSound'
  BY <1>1, <1>2, <1>3 DEF StoredInv, SlotsSound, SecShareMatches
<1>6. ShareTracked'
  <2>1. SUFFICES ASSUME NEW c \in Cards, NEW n \in Names, cards[c][n].gen > 0
                 PROVE  \E t \in Slots : /\ (Named(t, n))' /\ c \in (CardState(t))'
                                         /\ sec[t] = cards[c][n]
    BY DEF ShareTracked, Own
  <2>2. PICK t \in Slots : Named(t, n) /\ c \in CardState(t) /\ sec[t] = cards[c][n]
    BY <2>1 DEF StoredInv, ShareTracked, Own
  <2>3. (Named(t, n))'
    BY <1>2, <2>2 DEF Named
  <2>4. c \in (CardState(t))'
    BY <1>2, <1>3, <2>2 DEF Named
  <2>5. QED
    BY <2>2, <2>3, <2>4
<1>7. WrittenCardsHold'
  BY <1>1, <1>2, <1>3 DEF StoredInv, WrittenCardsHold
<1>8. QED
  BY <1>1, <1>4, <1>5, <1>6, <1>7 DEF StoredInv

(* set_wallet_locked and set_wallet_state *)
LEMMA SlotRestated ==
    ASSUME DataTypeOK, StoredInv, NEW s \in Slots, Filled(s),
           NEW st \in {"unverified", "valid", "invalid", flash[s].state},
           NEW lk \in BOOLEAN,
           flash' = [flash EXCEPT ![s] = [@ EXCEPT !.state = st, !.locked = lk]],
           UNCHANGED <<count, sec, cards>>
    PROVE  StoredInv' /\ flash' \in [Slots -> Wallet]
<1> DEFINE x == [flash[s] EXCEPT !.state = st, !.locked = lk]
<1>1. /\ x \in Wallet /\ flash' = [flash EXCEPT ![s] = x]
      /\ x.state = st /\ x.name = flash[s].name /\ x.id = flash[s].id
      /\ x.written = flash[s].written /\ x.attempted = flash[s].attempted
  BY DEF DataTypeOK, Wallet, States
<1>2. st \notin {"default", "no_device_share"}
  BY DEF StoredInv, SlotsSound, Filled
<1>3. \A c \in x.written : \/ cards[c][x.name] = sec[s]
                           \/ \A d \in x.written \cup x.attempted : c <= d
  BY <1>1 DEF StoredInv, WrittenCardsHold, CardState
<1>4. x.written \cup x.attempted = CardState(s)
  BY <1>1 DEF CardState
<1> HIDE DEF x
<1>5. /\ x.state \notin {"default", "no_device_share"}
      /\ CardState(s) = {} => x.written \cup x.attempted = {}
      /\ \A c \in CardState(s) : c \in x.written \cup x.attempted
  BY <1>1, <1>2, <1>4
<1>6. QED
  BY <1>1, <1>3, <1>5, SlotKept

(* Marking a lock while reading disturbs only the lock of the slot.        *)
LEMMA ReadCardLockedStep == ASSUME IInv, ReadCardLocked PROVE IInv'
<1>1. FlowInv' /\ pc' \in Places /\ flow' \in Flows
      /\ k' \in 1..(NumCards + 1) /\ target' \in Names \cup {None}
      /\ w' \in Wallet /\ idx' \in Slots
      /\ shares' \in [{Device} \cup Cards -> Holding]
  BY EndFlowKept DEF IInv, ReadCardLocked
<1>2. StoredInv' /\ DataTypeOK'
  <2>1. CASE NameTaken(target)
    <3>1. PICK s \in Slots : Named(s, target) /\ IndexByName(target) = s
      BY <2>1, SlotOfName DEF IInv
    <3>2. flash' = [flash EXCEPT ![s] = [@ EXCEPT !.state = flash[s].state,
                                                  !.locked = TRUE]]
      BY <2>1, <3>1 DEF ReadCardLocked, SetLocked, IInv, TypeOK, DataTypeOK, Wallet
    <3>3. QED
      BY <1>1, <3>1, <3>2, SlotRestated
         DEF ReadCardLocked, IInv, StoredInv, Named, TypeOK, DataTypeOK, SetLocked
  <2>2. CASE ~NameTaken(target)
    <3>1. UNCHANGED <<stored, cards, nextGen>>
      BY <2>2 DEF ReadCardLocked, SetLocked, stored
    <3>2. QED
      BY <1>1, <3>1, StoredKept DEF IInv, TypeOK, DataTypeOK, StoredInv, stored
  <2>3. QED
    BY <2>1, <2>2
<1>3. QED
  BY <1>1, <1>2 DEF IInv, TypeOK, StoredInv, FlowInv

(* The outcome of a verification disturbs only the state of the slot.      *)
LEMMA SetVerifiedStateStep == ASSUME IInv, SetVerifiedState PROVE IInv'
<1>1. FlowInv' /\ pc' \in Places /\ flow' \in Flows
      /\ k' \in 1..(NumCards + 1) /\ target' \in Names \cup {None}
      /\ w' \in Wallet /\ idx' \in Slots
      /\ shares' \in [{Device} \cup Cards -> Holding]
  BY EndFlowKept DEF IInv, SetVerifiedState
<1>2. StoredInv' /\ DataTypeOK'
  <2>1. CASE NameTaken(target)
    <3> DEFINE s == IndexByName(target)
               st == IF SharesAgree THEN "valid" ELSE "invalid"
    <3>1. s \in Slots /\ Filled(s)
      BY <2>1, SlotOfName DEF IInv, Named
    <3>2. flash' = [flash EXCEPT ![s] = [@ EXCEPT !.state = st, !.locked = flash[s].locked]]
      BY <2>1, <3>1 DEF SetVerifiedState, IInv, TypeOK, DataTypeOK, Wallet
    <3>3. st \in {"unverified", "valid", "invalid"} /\ flash[s].locked \in BOOLEAN
      BY <3>1 DEF IInv, TypeOK, DataTypeOK, Wallet
    <3> HIDE DEF s, st
    <3>4. QED
      BY <1>1, <3>1, <3>2, <3>3, SlotRestated
         DEF SetVerifiedState, IInv, StoredInv, TypeOK, DataTypeOK
  <2>2. CASE ~NameTaken(target)
    <3>1. UNCHANGED <<stored, cards, nextGen>>
      BY <2>2 DEF SetVerifiedState, stored
    <3>2. QED
      BY <1>1, <3>1, StoredKept DEF IInv, TypeOK, DataTypeOK, StoredInv, stored
  <2>3. QED
    BY <2>1, <2>2
<1>3. QED
  BY <1>1, <1>2 DEF IInv, TypeOK, StoredInv, FlowInv

(* Unlocking disturbs only the lock of the slot.                           *)
LEMMA UnlockWalletStep ==
    ASSUME IInv, NEW s \in Slots, UnlockWallet(s) PROVE IInv'
<1>1. flash' = [flash EXCEPT ![s] = [@ EXCEPT !.state = flash[s].state,
                                              !.locked = FALSE]]
  BY DEF UnlockWallet, IInv, TypeOK, DataTypeOK, Wallet
<1>2. StoredInv' /\ flash' \in [Slots -> Wallet]
  BY <1>1, SlotRestated DEF UnlockWallet, IInv, TypeOK, StoredInv
<1>3. UNCHANGED <<count, sec, cards, nextGen, pc, flow, k, target, w, idx, shares>>
  BY DEF UnlockWallet, ram
<1>4. TypeOK'
  BY <1>2, <1>3 DEF IInv, TypeOK, DataTypeOK
<1>5. flow = "none" /\ pc = "menu"
  BY FlowOfPlace DEF UnlockWallet, IInv
<1>6. FlowInv'
  BY <1>3, <1>5 DEF IInv, FlowInv, PlacesOfFlow, Creating, Verifying, Reading, Deleting,
                    AssertsHold
<1>7. QED
  BY <1>2, <1>4, <1>6 DEF IInv, StoredInv, FlowInv

(* A tap that fails during a deletion clears no mark.                      *)
LEMMA DeleteTapFailsStep == ASSUME IInv, DeleteTapFails PROVE IInv'
<1>1. flow = "delete"
  BY FlowOfPlace DEF DeleteTapFails, IInv
<1>2. UNCHANGED <<count, sec, cards, nextGen, flow, k, target, w, idx, shares>>
      /\ pc' \in {"finish", "wrong_pin"}
  BY DEF DeleteTapFails, ram
<1>3. PICK s \in Slots : Named(s, target) /\ IndexByName(target) = s
  BY <1>1, SlotOfDeletion
<1>4. UNCHANGED flash \/ flash' = [flash EXCEPT ![s] = [@ EXCEPT !.state = flash[s].state,
                                                                !.locked = TRUE]]
  BY <1>1, <1>3 DEF DeleteTapFails, SetLocked, IInv, TypeOK, DataTypeOK, Wallet, Deleting
<1>5. StoredInv' /\ flash' \in [Slots -> Wallet] /\ (NameTaken(target))'
  <2>1. CASE UNCHANGED flash
    BY <1>1, <1>2, <2>1, StoredKept
       DEF IInv, TypeOK, DataTypeOK, StoredInv, stored, Deleting, NameTaken, Named, Filled
  <2>2. CASE flash' = [flash EXCEPT ![s] = [@ EXCEPT !.state = flash[s].state,
                                                     !.locked = TRUE]]
    <3>1. StoredInv' /\ flash' \in [Slots -> Wallet]
      BY <1>2, <1>3, <2>2, SlotRestated DEF IInv, TypeOK, StoredInv, Named
    <3>2. (Named(s, target))'
      BY <1>2, <1>3, <2>2 DEF Named, Filled, IInv, TypeOK, DataTypeOK, Wallet
    <3>3. QED
      BY <1>3, <3>1, <3>2 DEF NameTaken
  <2>3. QED
    BY <1>4, <2>1, <2>2
<1>6. TypeOK'
  BY <1>2, <1>5 DEF IInv, TypeOK, DataTypeOK, Places
<1>7. FlowInv'
  BY <1>1, <1>2, <1>5 DEF IInv, FlowInv, PlacesOfFlow, Creating, Verifying, Reading,
                          Deleting, AssertsHold
<1>8. QED
  BY <1>5, <1>6, <1>7 DEF IInv, StoredInv, FlowInv

(* Clearing the mark of the first card, once it has no share of the slot.  *)
LEMMA FirstMarkCleared ==
    ASSUME IInv, flow = "delete", pc \in {"fetch", "mark"},
           NEW s \in Slots, Named(s, target), ClearCardBits(s, k),
           k \in CardState(s) => cards[k][target] # sec[s], pc' = "check", k' = k + 1,
           UNCHANGED <<count, sec, cards, nextGen, flow, target, w, idx, shares>>
    PROVE  IInv'
<1> DEFINE x == [flash[s] EXCEPT !.written = @ \ {k}, !.attempted = @ \ {k}]
<1>1. /\ x \in Wallet /\ flash' = [flash EXCEPT ![s] = x]
      /\ x.state = flash[s].state /\ x.name = target /\ x.id = flash[s].id
      /\ x.written = flash[s].written \ {k} /\ x.attempted = flash[s].attempted \ {k}
      /\ flash'[s] = x
  BY DEF ClearCardBits, Named, IInv, TypeOK, DataTypeOK, Wallet
<1>2. k \in Cards /\ \A c \in CardState(s) : k <= c /\ c \in Nat /\ k \in Nat
  BY DEF IInv, Deleting, TypeOK, DataTypeOK, Wallet, CardState, Cards
<1>3. \A c \in x.written : \/ cards[c][x.name] = sec[s]
                           \/ \A d \in x.written \cup x.attempted : c <= d
  <2>1. SUFFICES ASSUME NEW c \in x.written, cards[c][target] # sec[s]
                 PROVE  \A d \in x.written \cup x.attempted : c <= d
    BY <1>1
  <2>2. \A d \in CardState(s) : c <= d
    BY <1>1, <2>1 DEF IInv, WrittenCardsHold, Named
  <2>3. QED
    BY <1>1, <2>2 DEF CardState
<1> HIDE DEF x
<1>4. x.state \notin {"default", "no_device_share"}
  BY <1>1 DEF IInv, SlotsSound, Named, Filled
<1>5. StoredInv' /\ flash' \in [Slots -> Wallet]
  <2>1. \A c \in CardState(s) : c \notin x.written \cup x.attempted => c = k
    BY <1>1 DEF CardState
  <2>2. CardState(s) = {} => x.written \cup x.attempted = {}
    BY <1>1 DEF CardState
  <2>3. QED
    <3>1. DataTypeOK /\ StoredInv /\ Filled(s) /\ flash[s].name = target
      BY <1>1 DEF IInv, TypeOK, StoredInv, Named, ClearCardBits
    <3>2. \A c \in CardState(s) :
            c \notin x.written \cup x.attempted => cards[c][x.name] # sec[s]
      BY <1>1, <2>1
    <3>. QED
      BY <1>1, <1>3, <1>4, <2>2, <3>1, <3>2, SlotKept
<1>6. TypeOK'
  BY <1>2, <1>5, BoundsAssumption DEF IInv, TypeOK, DataTypeOK, Places, Flows, Cards
<1>7. Deleting'
  <2>1. \A t \in Slots : (Named(t, target))' <=> t = s
    BY <1>1, <1>4 DEF Named, Filled, IInv, SlotsConsistent, TypeOK, DataTypeOK
  <2>2. \A c \in (CardState(s))' : k + 1 <= c
    BY <1>1, <1>2 DEF CardState
  <2>3. QED
    BY <2>1, <2>2 DEF IInv, Deleting, NameTaken
<1>8. FlowInv'
  BY <1>7 DEF IInv, FlowInv, PlacesOfFlow, Creating, Verifying, Reading, AssertsHold
<1>9. QED
  BY <1>5, <1>6, <1>7, <1>8 DEF IInv, StoredInv, FlowInv

(* A card with another vault's wallet may be unmarked: no own share is there. *)
LEMMA FetchMismatchStep == ASSUME IInv, pc = "fetch", FetchMismatch PROVE IInv'
<1>1. flow = "delete"
  BY FlowOfPlace DEF FetchMismatch, IInv
<1>2. PICK s \in Slots : /\ Named(s, target) /\ IndexByName(target) = s
                         /\ \A t \in Slots : Named(t, target) => t = s
  BY <1>1, SlotOfDeletion
<1>3. k \in Cards /\ target \in Names /\ k \in CardState(s)
  BY <1>1, <1>2 DEF FetchMismatch, IInv, Deleting
<1>4. SecShareMatches(s) /\ sec[s].gen > 0
  BY <1>2, <1>3 DEF IInv, SlotsSound, Named
<1>5. cards[k][target] # sec[s]
  BY <1>2, <1>4 DEF FetchMismatch, FetchedMatches, SecShareMatches
<1>6. QED
  BY <1>1, <1>2, <1>5, FirstMarkCleared DEF FetchMismatch, ram

(* The mark is cleared once the card holds nothing under the name.         *)
LEMMA MarkDeletedFromCardStep == ASSUME IInv, MarkDeletedFromCard PROVE IInv'
<1>1. flow = "delete"
  BY FlowOfPlace DEF MarkDeletedFromCard, IInv
<1>2. PICK s \in Slots : Named(s, target) /\ IndexByName(target) = s
  BY <1>1, SlotOfDeletion
<1>3. k \in CardState(s) => cards[k][target] # sec[s]
  BY <1>1, <1>2
     DEF MarkDeletedFromCard, IInv, Deleting, Holds, NoShare, SlotsSound, Named
<1>4. QED
  BY <1>1, <1>2, <1>3, FirstMarkCleared DEF MarkDeletedFromCard, ram

(* Once a card has erased the share the invariant holds wherever the flow  *)
(* goes on.                                                                *)
LEMMA ErasedStep ==
    ASSUME IInv, pc = "erase", StoreOnCard(k, target, NoShare),
           pc' \in {"erase", "mark", "finish"},
           UNCHANGED <<flash, count, sec, nextGen, k, flow, target, w, idx, shares>>
    PROVE  IInv'
<1>1. flow = "delete"
  BY FlowOfPlace DEF IInv
<1>2. PICK s \in Slots : /\ Named(s, target)
                         /\ \A t \in Slots : Named(t, target) => t = s
  BY <1>1, SlotOfDeletion
<1>3. k \in Cards /\ target \in Names /\ \A c \in CardState(s) : k <= c
  BY <1>1, <1>2 DEF IInv, Deleting
<1>4. cards' \in [Cards -> [Names -> Holding]] /\ cards'[k][target] = NoShare
      /\ \A c \in Cards, n \in Names :
           c # k \/ n # target => cards'[c][n] = cards[c][n]
  <2>1. NoShare \in Holding
    BY DEF Holding
  <2>2. QED
    BY <1>3, <2>1 DEF StoreOnCard, IInv, TypeOK, DataTypeOK
<1>5. SlotsConsistent' /\ SlotsSound'
  BY DEF IInv, SlotsConsistent, SlotsSound, Filled, CardState, SecShareMatches
<1>6. ShareTracked'
  <2>1. SUFFICES ASSUME NEW c \in Cards, NEW n \in Names, cards'[c][n].gen > 0
                 PROVE  \E t \in Slots : /\ Named(t, n) /\ c \in CardState(t)
                                         /\ sec[t] = cards'[c][n]
    BY DEF ShareTracked, Own, Named, Filled, CardState
  <2>2. c # k \/ n # target
    BY <1>4, <2>1 DEF NoShare
  <2>3. QED
    BY <1>4, <2>1, <2>2 DEF IInv, ShareTracked, Own
<1>7. WrittenCardsHold'
  <2>1. SUFFICES ASSUME NEW t \in Slots, Filled(t), NEW c \in flash[t].written,
                        cards'[c][flash[t].name] # sec[t]
                 PROVE  \A d \in CardState(t) : c <= d
    BY DEF WrittenCardsHold, Filled, CardState
  <2>2. c \in Cards /\ flash[t].name \in Names
    BY <2>1 DEF IInv, TypeOK, DataTypeOK, Wallet, SlotsSound
  <2>3. CASE c = k /\ flash[t].name = target
    BY <1>2, <1>3, <2>1, <2>3 DEF Named
  <2>4. CASE c # k \/ flash[t].name # target
    BY <1>4, <2>1, <2>2, <2>4 DEF IInv, WrittenCardsHold
  <2>5. QED
    BY <2>3, <2>4
<1>8. TypeOK'
  BY <1>4 DEF IInv, TypeOK, DataTypeOK, Places
<1>9. Deleting'
  BY <1>1, <1>3, <1>4 DEF IInv, Deleting, Named, NameTaken, Filled, CardState, Holds
<1>10. FlowInv'
  BY <1>1, <1>9 DEF IInv, FlowInv, PlacesOfFlow, Creating, Verifying, Reading, AssertsHold
<1>11. QED
  BY <1>5, <1>6, <1>7, <1>8, <1>10 DEF IInv, FlowInv

(* The card erased the share and said so: its mark is still there.         *)
LEMMA EraseAckedStep == ASSUME IInv, EraseAcked PROVE IInv'
BY ErasedStep DEF EraseAcked, stored, ram

(* The card erased the share and was lost: its mark is still there.        *)
LEMMA EraseAnswerLostStep == ASSUME IInv, EraseAnswerLost PROVE IInv'
BY ErasedStep DEF EraseAnswerLost, stored, ram

(* The vault's own share goes only when no card is marked any more.        *)
LEMMA FinishDeleteStep == ASSUME IInv, FinishDelete PROVE IInv'
<1>1. flow = "delete"
  BY FlowOfPlace DEF FinishDelete, IInv
<1>2. PICK s \in Slots : /\ Named(s, target) /\ IndexByName(target) = s
                         /\ \A t \in Slots : Named(t, target) => t = s
  BY <1>1, SlotOfDeletion
<1>3. ~ShareNotPresent(s)
  BY <1>2 DEF IInv, SlotsSound, Named, ShareNotPresent
<1>4. CASE EndFlow /\ UNCHANGED sec
  BY <1>4, EndingStep DEF FinishDelete, stored
<1>5. CASE pc' = "check" /\ k' = 1 /\ UNCHANGED <<ram, sec>>
  <2>1. StoredInv'
    BY <1>5, StoredKept DEF FinishDelete, IInv, StoredInv, stored
  <2>2. TypeOK'
    BY <1>5, BoundsAssumption DEF FinishDelete, IInv, TypeOK, DataTypeOK, ram, Places
  <2>3. \A t \in Slots : CardState(t)' \subseteq Nat \ {0}
    BY <2>2 DEF TypeOK, DataTypeOK, Wallet, CardState, Cards
  <2>4. Deleting'
    BY <1>1, <1>5, <2>3 DEF FinishDelete, IInv, Deleting, ram, NameTaken, Named, Filled
  <2>5. FlowInv'
    BY <1>1, <1>5, <2>4 DEF IInv, FlowInv, PlacesOfFlow, Creating, Verifying, Reading,
                            AssertsHold, ram
  <2>6. QED
    BY <2>1, <2>2, <2>5 DEF IInv, StoredInv, FlowInv
<1>6. CASE CardState(s) = {} /\ pc' = "free_slot" /\ UNCHANGED <<k, ram>>
           /\ sec' = [sec EXCEPT ![s] = NoShare]
  <2>1. UNCHANGED <<flash, count, cards, nextGen, k, flow, target, w, idx, shares>>
    BY <1>6 DEF FinishDelete, ram
  <2>2. \A t \in Slots \ {s} : sec'[t] = sec[t]
    BY <1>6 DEF IInv, TypeOK, DataTypeOK
  <2>3. SlotsConsistent' /\ SlotsSound'
    BY <1>6, <2>1, <2>2
       DEF IInv, SlotsConsistent, SlotsSound, Filled, CardState, SecShareMatches
  <2>4. ShareTracked'
    BY <1>6, <2>1, <2>2 DEF IInv, ShareTracked, Own, Named, Filled, CardState
  <2>5. WrittenCardsHold'
    BY <1>6, <2>1, <2>2 DEF IInv, WrittenCardsHold, Filled, CardState
  <2>6. TypeOK'
    <3>1. NoShare \in Holding
      BY DEF Holding
    <3>2. QED
      BY <1>6, <2>1, <3>1 DEF IInv, TypeOK, DataTypeOK, Places
  <2>7. Deleting'
    BY <1>1, <1>2, <1>6, <2>1 DEF IInv, Deleting, NameTaken, Named, Filled, CardState
  <2>8. FlowInv'
    BY <1>1, <1>6, <2>1, <2>7 DEF IInv, FlowInv, PlacesOfFlow, Creating, Verifying,
                                  Reading, AssertsHold
  <2>9. QED
    BY <2>3, <2>4, <2>5, <2>6, <2>8 DEF IInv, FlowInv
<1>7. QED
  BY <1>2, <1>3, <1>4, <1>5, <1>6 DEF FinishDelete

(* Freeing the slot leaves no share of the wallet on any card.             *)
LEMMA FreeSlotStep == ASSUME IInv, FreeSlot PROVE IInv'
<1>1. flow = "delete"
  BY FlowOfPlace DEF FreeSlot, IInv
<1>2. PICK s \in Slots : Named(s, target) /\ IndexByName(target) = s
  BY <1>1, SlotOfDeletion
<1>3. CardState(s) = {}
  BY <1>1, <1>2 DEF FreeSlot, IInv, Deleting
<1>4. /\ flash' \in [Slots -> Wallet] /\ flash'[s].state = "default"
      /\ flash'[s].written = {} /\ flash'[s].attempted = {}
      /\ \A t \in Slots \ {s} : flash'[t] = flash[t]
  <2> DEFINE x == [flash[s] EXCEPT !.state = "default", !.name = None,
                                   !.written = {}, !.attempted = {}]
  <2>1. flash \in [Slots -> Wallet] /\ flash[s] \in Wallet
    BY <1>2 DEF IInv, TypeOK, DataTypeOK
  <2>2. /\ x \in Wallet /\ x.state = "default"
        /\ x.written = {} /\ x.attempted = {}
    BY <2>1 DEF Wallet, States
  <2>3. flash' = [flash EXCEPT ![s] = x]
    BY <1>2, <2>1 DEF FreeSlot
  <2> HIDE DEF x
  <2>. QED
    BY <1>2, <2>1, <2>2, <2>3
<1>5. UNCHANGED <<sec, cards, nextGen>>
  BY DEF FreeSlot
<1>6. \A t \in Slots : /\ (Filled(t))' <=> Filled(t) /\ t # s
                       /\ t # s => (CardState(t))' = CardState(t)
  BY <1>4 DEF Filled, CardState
<1>7. SlotsConsistent' /\ count' \in Nat
  <2> DEFINE F == {t \in Slots : Filled(t)}
  <2>1. IsFiniteSet(F) /\ s \in F
    <3>1. IsFiniteSet(Slots)
      BY FS_Interval, BoundsAssumption DEF Slots
    <3>2. F \in SUBSET Slots
      OBVIOUS
    <3>3. QED
      BY <1>2, <3>1, <3>2, FS_Subset DEF Named
  <2>2. Cardinality(F) \in Nat /\ Cardinality(F \ {s}) = Cardinality(F) - 1
        /\ Cardinality(F \ {s}) \in Nat
    BY <2>1, FS_RemoveElement, FS_CardinalityType
  <2>3. {t \in Slots : (Filled(t))'} = F \ {s}
    BY <1>6
  <2>4. count' = Cardinality({t \in Slots : (Filled(t))'}) /\ count' \in Nat
    <3>1. count' = Cardinality(F) - 1
      BY DEF FreeSlot, IInv, SlotsConsistent
    <3>2. QED
      BY <2>2, <2>3, <3>1
  <2>5. \A t, u \in Slots : t # u /\ (Filled(t))' /\ (Filled(u))' =>
          flash'[t].name # flash'[u].name /\ flash'[t].id # flash'[u].id
    BY <1>4, <1>6 DEF IInv, SlotsConsistent
  <2>6. QED
    BY <2>4, <2>5 DEF SlotsConsistent
<1>8. SlotsSound' /\ WrittenCardsHold'
  BY <1>4, <1>5, <1>6 DEF IInv, SlotsSound, WrittenCardsHold, SecShareMatches
<1>9. ShareTracked'
  BY <1>3, <1>4, <1>5, <1>6 DEF IInv, ShareTracked, Own, Named
<1>10. FlowInv' /\ TypeOK'
  <2>1. EndFlow
    BY DEF FreeSlot
  <2>2. QED
    BY <1>4, <1>5, <1>7, <2>1, EndFlowKept DEF IInv, TypeOK, DataTypeOK
<1>11. QED
  BY <1>7, <1>8, <1>9, <1>10 DEF IInv, FlowInv

-----------------------------------------------------------------------------
(* The steps of the creation flow. *)

(* What the creation flow knows between a tap and the mark of it. *)
LEMMA CreationPlace ==
    ASSUME IInv, flow = "create", pc \in {"add", "post"}
    PROVE  /\ k \in Cards /\ target \in Names /\ OnceSaved
           /\ Named(idx, target) /\ idx \in Slots /\ k \in CardState(idx)
           /\ shares[k] = sec[idx] /\ sec[idx].gen > 0 /\ sec[idx] \in Holding
           /\ \A t \in Slots : Named(t, target) => t = idx
<1>1. OnceSaved
  BY DEF IInv, Creating, Unsaved
<1>2. Named(idx, target) /\ idx \in Slots /\ target \in Names
  BY <1>1 DEF IInv, Creating, OnceSaved, Named, Filled, TypeOK, DataTypeOK
<1>3. \A t \in Slots : Named(t, target) => t = idx
  BY <1>2 DEF IInv, SlotsConsistent, Named
<1>4. /\ k \in Cards /\ k \in CardState(idx) /\ shares[k] = sec[idx]
      /\ sec[idx].gen > 0 /\ sec[idx] \in Holding
  BY <1>1, <1>2 DEF IInv, Creating, OnceSaved, CardState, TypeOK, DataTypeOK, Cards
<1>5. QED
  BY <1>1, <1>2, <1>3, <1>4

(* A card that stores the share keeps what is stored sound. *)
LEMMA StoreKept ==
    ASSUME IInv, flow = "create", pc = "add", ~Refuses(k, target, shares[k]),
           StoreOnCard(k, target, shares[k]), UNCHANGED stored
    PROVE  /\ StoredInv' /\ cards' \in [Cards -> [Names -> Holding]]
           /\ cards'[k][target] = sec[idx]
           /\ \A c \in Cards, n \in Names :
                c # k \/ n # target => cards'[c][n] = cards[c][n]
<1>1. /\ k \in Cards /\ target \in Names
      /\ Named(idx, target) /\ idx \in Slots /\ k \in CardState(idx)
      /\ shares[k] = sec[idx] /\ sec[idx] \in Holding
      /\ \A t \in Slots : Named(t, target) => t = idx
  BY CreationPlace
<1>2. /\ cards' \in [Cards -> [Names -> Holding]]
      /\ cards'[k][target] = sec[idx]
      /\ \A c \in Cards, n \in Names :
           c # k \/ n # target => cards'[c][n] = cards[c][n]
  BY <1>1 DEF StoreOnCard, IInv, TypeOK, DataTypeOK
<1>3. SlotsConsistent' /\ SlotsSound'
  BY DEF IInv, SlotsConsistent, SlotsSound, Filled, CardState, SecShareMatches, stored
<1>4. ShareTracked'
  <2>1. SUFFICES ASSUME NEW c \in Cards, NEW n \in Names, cards'[c][n].gen > 0
                 PROVE  \E t \in Slots : /\ Named(t, n) /\ c \in CardState(t)
                                         /\ sec[t] = cards'[c][n]
    BY DEF ShareTracked, Own, Named, Filled, CardState, stored
  <2>2. CASE c = k /\ n = target
    BY <1>1, <1>2, <2>2
  <2>3. CASE c # k \/ n # target
    BY <1>2, <2>1, <2>3 DEF IInv, ShareTracked, Own
  <2>4. QED
    BY <2>2, <2>3
<1>5. WrittenCardsHold'
  <2>1. SUFFICES ASSUME NEW t \in Slots, Filled(t), NEW c \in flash[t].written,
                        cards'[c][flash[t].name] # sec[t]
                 PROVE  \A d \in CardState(t) : c <= d
    BY DEF WrittenCardsHold, Filled, CardState, stored
  <2>2. c \in Cards /\ flash[t].name \in Names
    BY <2>1 DEF IInv, TypeOK, DataTypeOK, Wallet, SlotsSound
  <2>3. c # k \/ flash[t].name # target
    BY <1>1, <1>2, <2>1 DEF Named
  <2>4. QED
    BY <1>2, <2>1, <2>2, <2>3 DEF IInv, WrittenCardsHold
<1>6. QED
  BY <1>2, <1>3, <1>4, <1>5 DEF StoredInv

(* A share stored by card k during a creation is accounted for.            *)
LEMMA StoredAndGoesOn ==
    ASSUME IInv, flow = "create", pc = "add", ~Refuses(k, target, shares[k]),
           StoreOnCard(k, target, shares[k]), UNCHANGED stored,
           pc' \in {"post", "write"}, UNCHANGED <<nextGen, k, ram>>
    PROVE  IInv'
<1>1. /\ StoredInv' /\ cards' \in [Cards -> [Names -> Holding]]
      /\ cards'[k][target] = sec[idx]
      /\ \A c \in Cards, n \in Names :
           c # k \/ n # target => cards'[c][n] = cards[c][n]
  BY StoreKept
<1>2. UNCHANGED <<flash, count, sec, nextGen, k, flow, target, w, idx, shares>>
  BY DEF stored, ram
<1>3. k \in Cards /\ target \in Names /\ OnceSaved
  BY CreationPlace
<1>4. TypeOK'
  BY <1>1, <1>2 DEF IInv, TypeOK, DataTypeOK, Places
<1>5. Creating'
  <2>1. ~Unsaved'
    BY <1>2, <1>3 DEF Unsaved, OnceSaved
  <2>2. \A c \in w.written : cards'[c][target] = sec[idx]
    <3>1. w.written \subseteq Cards
      BY DEF IInv, TypeOK, DataTypeOK, Wallet
    <3>2. QED
      BY <1>1, <1>3, <3>1 DEF OnceSaved
  <2>3. OnceSaved'
    BY <1>1, <1>2, <1>3, <2>2 DEF OnceSaved
  <2>4. QED
    BY <1>2, <2>1, <2>3 DEF IInv, Creating
<1>6. FlowInv'
  BY <1>2, <1>5 DEF IInv, FlowInv, PlacesOfFlow, Verifying, Reading, Deleting, AssertsHold
<1>7. QED
  BY <1>1, <1>4, <1>6 DEF IInv, StoredInv, FlowInv

(* The card stored the share and said so.                                  *)
LEMMA AddWalletAckedStep == ASSUME IInv, AddWalletAcked PROVE IInv'
BY FlowOfPlace, StoredAndGoesOn DEF AddWalletAcked, IInv, stored

(* The card stored the share and was lost: the attempt is on record.       *)
LEMMA AddWalletAnswerLostStep == ASSUME IInv, AddWalletAnswerLost PROVE IInv'
<1>1. flow = "create"
  BY FlowOfPlace DEF AddWalletAnswerLost, IInv
<1>2. CASE pc' = "write" /\ UNCHANGED <<k, ram>>
  BY <1>1, <1>2, StoredAndGoesOn DEF AddWalletAnswerLost
<1>3. CASE EndFlow
  <2>1. StoredInv' /\ cards' \in [Cards -> [Names -> Holding]]
    BY <1>1, StoreKept DEF AddWalletAnswerLost
  <2>2. TypeOK' /\ FlowInv'
    BY <1>3, <2>1, EndFlowKept
       DEF AddWalletAnswerLost, IInv, TypeOK, DataTypeOK, stored
  <2>3. QED
    BY <2>1, <2>2 DEF IInv, StoredInv, FlowInv
<1>4. QED
  BY <1>2, <1>3 DEF AddWalletAnswerLost

(* The vault's share is saved at the index the wallet will get.            *)
LEMMA SaveShareToDeviceStep == ASSUME IInv, SaveShareToDevice PROVE IInv'
<1>1. flow = "create"
  BY FlowOfPlace DEF SaveShareToDevice, IInv
<1>2. /\ Unsaved /\ WhileUnsaved /\ target = w.name
      /\ shares[Device] \in Holding
  BY <1>1 DEF SaveShareToDevice, IInv, Creating, Unsaved, TypeOK, DataTypeOK
<1>3. FirstEmpty \in Slots /\ ~Filled(FirstEmpty)
  BY <1>2, FirstEmptyIsEmpty, BoundsAssumption DEF WhileUnsaved
<1>4. count # MaxWallets
  BY <1>3, RoomLeft, BoundsAssumption DEF IInv, SlotsConsistent, TypeOK, DataTypeOK
<1>5. sec' = [sec EXCEPT ![FirstEmpty] = shares[Device]]
  BY <1>2, <1>3, <1>4 DEF SaveShareToDevice, AddShareToSecFlash, WhileUnsaved
<1>6. UNCHANGED <<flash, count, cards, nextGen, k, flow, target, w, idx, shares>>
  BY DEF SaveShareToDevice, ram
<1>7. sec' \in [Slots -> Holding] /\ sec'[FirstEmpty] = shares[Device]
      /\ \A t \in Slots : Filled(t) => sec'[t] = sec[t]
  BY <1>2, <1>3, <1>5 DEF IInv, TypeOK, DataTypeOK
<1>8. SlotsConsistent' /\ SlotsSound'
  BY <1>6, <1>7 DEF IInv, SlotsConsistent, SlotsSound, Filled, CardState, SecShareMatches
<1>9. ShareTracked' /\ WrittenCardsHold'
  BY <1>6, <1>7
     DEF IInv, ShareTracked, WrittenCardsHold, Own, Named, Filled, CardState
<1>10. TypeOK'
  BY <1>6, <1>7 DEF SaveShareToDevice, IInv, TypeOK, DataTypeOK, Places
<1>11. Creating'
  <2>1. FirstEmpty' = FirstEmpty
    BY <1>6 DEF FirstEmpty, Filled
  <2>2. Unsaved' /\ WhileUnsaved'
    BY <1>2, <1>6, <1>7, <2>1
       DEF SaveShareToDevice, Unsaved, WhileUnsaved, NameTaken, Named, Filled
  <2>3. QED
    BY <1>1, <1>6, <2>2 DEF IInv, Creating
<1>12. FlowInv'
  BY <1>1, <1>6, <1>11 DEF SaveShareToDevice, IInv, FlowInv, PlacesOfFlow, Verifying,
                           Reading, Deleting, AssertsHold
<1>13. QED
  BY <1>8, <1>9, <1>10, <1>12 DEF IInv, FlowInv

(* The first attempt takes a slot, the one whose share was saved before. *)
LEMMA FirstAttempt ==
    ASSUME IInv, RecordWriteAttempt, Unsaved PROVE IInv'
<1>1. pc = "write" /\ flow = "create" /\ k = 1 /\ w.attempted = {}
  BY FlowOfPlace DEF RecordWriteAttempt, Unsaved, IInv
<1>2. WhileUnsaved /\ target = w.name /\ target \in Names /\ w.id \in Ids /\ ~w.locked
      /\ shares[Device].id = w.id /\ shares[Device].gen > 0
  BY <1>1 DEF IInv, Creating
<1>3. PICK e \in Slots : e = FirstEmpty /\ ~Filled(e)
  BY <1>2, FirstEmptyIsEmpty, BoundsAssumption DEF WhileUnsaved
<1>4. count # MaxWallets
  BY <1>3, RoomLeft, BoundsAssumption DEF IInv, SlotsConsistent, TypeOK, DataTypeOK
<1> DEFINE x == WithAttempt(w, 1)
<1>5. x \in Wallet /\ x.state = "unverified" /\ x.name = target /\ x.id = w.id
      /\ x.written = {} /\ x.attempted = {1} /\ ~x.locked
  <2>1. 1 \in Cards /\ w \in Wallet
    BY BoundsAssumption DEF Cards, IInv, TypeOK, DataTypeOK
  <2>2. x = [w EXCEPT !.attempted = {1}, !.state = "unverified"]
    BY <1>1, <2>1 DEF WithAttempt, Wallet
  <2>3. w.written = {} /\ {1} \in SUBSET Cards
    BY <1>2, <2>1 DEF WhileUnsaved
  <2>4. QED
    BY <1>2, <2>1, <2>2, <2>3 DEF Wallet, States
<1>6. /\ flash' = [flash EXCEPT ![e] = x] /\ count' = count + 1 /\ idx' = e
      /\ w' = x /\ pc' = "add"
      /\ UNCHANGED <<sec, cards, nextGen, k, flow, target, shares>>
  BY <1>1, <1>2, <1>3, <1>4, <1>5
     DEF RecordWriteAttempt, AddWalletToFlash, WhileUnsaved
<1> HIDE DEF x
<1>7. flash' \in [Slots -> Wallet] /\ flash'[e] = x
      /\ \A t \in Slots \ {e} : flash'[t] = flash[t]
  BY <1>5, <1>6 DEF IInv, TypeOK, DataTypeOK
<1>8. \A t \in Slots : /\ (Filled(t))' <=> Filled(t) \/ t = e
                       /\ t # e => (CardState(t))' = CardState(t)
  BY <1>5, <1>7 DEF Filled, CardState
<1>9. SlotsConsistent' /\ count' \in Nat
  <2> DEFINE F == {t \in Slots : Filled(t)}
  <2>1. IsFiniteSet(F) /\ e \notin F
    <3>1. IsFiniteSet(Slots)
      BY FS_Interval, BoundsAssumption DEF Slots
    <3>2. F \in SUBSET Slots
      OBVIOUS
    <3>3. QED
      BY <1>3, <3>1, <3>2, FS_Subset
  <2>2. Cardinality(F) \in Nat /\ Cardinality(F \cup {e}) = Cardinality(F) + 1
    BY <2>1, FS_AddElement, FS_CardinalityType
  <2>3. {t \in Slots : (Filled(t))'} = F \cup {e}
    BY <1>8
  <2>4. count' = Cardinality({t \in Slots : (Filled(t))'}) /\ count' \in Nat
    <3>1. count' = Cardinality(F) + 1
      BY <1>6 DEF IInv, SlotsConsistent
    <3>2. Cardinality({t \in Slots : (Filled(t))'}) = Cardinality(F \cup {e})
      BY <2>3
    <3>3. QED
      BY <2>2, <3>1, <3>2
  <2>5. \A t, u \in Slots : t # u /\ (Filled(t))' /\ (Filled(u))' =>
          flash'[t].name # flash'[u].name /\ flash'[t].id # flash'[u].id
    BY <1>2, <1>5, <1>7, <1>8
       DEF IInv, SlotsConsistent, WhileUnsaved, NameTaken, Named
  <2>6. QED
    BY <2>4, <2>5 DEF SlotsConsistent
<1>10. sec[e] = shares[Device]
  BY <1>1, <1>2, <1>3 DEF WhileUnsaved
<1>11. SlotsSound'
  BY <1>2, <1>5, <1>6, <1>7, <1>8, <1>10 DEF IInv, SlotsSound, SecShareMatches
<1>12. ShareTracked'
  BY <1>3, <1>6, <1>7, <1>8 DEF IInv, ShareTracked, Own, Named
<1>13. WrittenCardsHold'
  BY <1>5, <1>6, <1>7, <1>8 DEF IInv, WrittenCardsHold
<1>14. TypeOK'
  BY <1>5, <1>6, <1>7, <1>9 DEF IInv, TypeOK, DataTypeOK, Places
<1>15. Creating'
  <2>1. k \in Cards /\ \A c \in Cards : shares[c] = shares[Device]
    BY <1>1, <1>2, BoundsAssumption DEF WhileUnsaved, Cards
  <2>2. w'.written = 1..(k - 1)
    BY <1>1, <1>5, <1>6
  <2>3. ~Unsaved' /\ OnceSaved'
    BY <1>1, <1>5, <1>6, <1>7, <1>10, <2>1, <2>2 DEF Unsaved, OnceSaved
  <2>4. QED
    BY <1>2, <1>5, <1>6, <2>3 DEF Creating
<1>16. FlowInv'
  BY <1>1, <1>6, <1>15 DEF IInv, FlowInv, PlacesOfFlow, Verifying, Reading, Deleting,
                           AssertsHold
<1>17. QED
  BY <1>9, <1>11, <1>12, <1>13, <1>14, <1>16 DEF IInv, FlowInv

(* A save of wallet_for_flash over its own slot. *)
LEMMA PutKept ==
    ASSUME IInv, flow = "create", OnceSaved, NEW x \in Wallet, PutWalletFlash(idx, x),
           x.state = "unverified", x.name = w.name, x.id = w.id,
           CardState(idx) \subseteq x.written \cup x.attempted,
           \A c \in x.written : cards[c][target] = sec[idx],
           UNCHANGED <<sec, cards>>
    PROVE  /\ StoredInv' /\ flash' \in [Slots -> Wallet]
           /\ flash' = [flash EXCEPT ![idx] = x] /\ count' = count
<1>1. Named(idx, target) /\ idx \in Slots /\ target = w.name /\ flash[idx] = w
  BY DEF IInv, Creating, OnceSaved, Named, Filled, TypeOK, DataTypeOK
<1>2. flash' = [flash EXCEPT ![idx] = x] /\ count' = count
  BY <1>1 DEF PutWalletFlash, Named, IInv, SlotsConsistent
<1>3. CardState(idx) # {}
  BY <1>1 DEF OnceSaved, CardState
<1>4. DataTypeOK /\ StoredInv /\ Filled(idx)
  BY <1>1 DEF IInv, TypeOK, StoredInv, Named
<1>5. /\ x.name = flash[idx].name /\ x.id = flash[idx].id
      /\ x.state \notin {"default", "no_device_share"}
      /\ \A c \in x.written : cards[c][x.name] = sec[idx]
  BY <1>1
<1>6. StoredInv' /\ flash' \in [Slots -> Wallet]
  BY <1>1, <1>2, <1>3, <1>4, <1>5, SlotKept
<1>7. QED
  BY <1>2, <1>6

(* The attempt is saved before the card may act, in a new slot or in its own. *)
LEMMA RecordWriteAttemptStep == ASSUME IInv, RecordWriteAttempt PROVE IInv'
<1>1. pc = "write" /\ flow = "create" /\ pc' = "add"
      /\ UNCHANGED <<sec, cards, nextGen, k, flow, target, shares>>
  BY FlowOfPlace DEF RecordWriteAttempt, IInv
<1>2. CASE Unsaved
  BY <1>2, FirstAttempt
<1>3. CASE ~Unsaved
  <2>1. OnceSaved /\ k \in Cards /\ target = w.name
    BY <1>1, <1>3 DEF IInv, Creating, OnceSaved
  <2>2. \/ w'.attempted = {k} /\ UNCHANGED <<flash, count, w, idx>> /\ StoredInv'
           /\ flash' \in [Slots -> Wallet] /\ w' \in Wallet
        \/ /\ flash' = [flash EXCEPT ![idx] = w'] /\ UNCHANGED <<count, idx>>
           /\ StoredInv' /\ flash' \in [Slots -> Wallet] /\ w' \in Wallet
           /\ w' = [w EXCEPT !.attempted = {k}]
    <3>1. CASE k \in w.attempted
      <4>1. UNCHANGED <<flash, count, w, idx>> /\ w.attempted = {k}
        BY <2>1, <3>1 DEF RecordWriteAttempt, OnceSaved
      <4>2. StoredInv'
        BY <1>1, <4>1, StoredKept DEF IInv, StoredInv, stored
      <4>3. QED
        BY <4>1, <4>2 DEF IInv, TypeOK, DataTypeOK
    <3>2. CASE k \notin w.attempted
      <4>1. w.attempted = {} /\ k # 1
        BY <1>1, <1>3, <2>1, <3>2 DEF OnceSaved, Unsaved
      <4> DEFINE x == WithAttempt(w, k)
      <4>2. /\ x = [w EXCEPT !.attempted = {k}] /\ x \in Wallet
            /\ x.state = "unverified" /\ x.name = w.name /\ x.id = w.id
            /\ x.written = w.written
        <5>1. w \in Wallet /\ k \in Cards /\ k # 1 /\ w.attempted = {} /\ w.state = "unverified"
          BY <2>1, <4>1 DEF OnceSaved, IInv, TypeOK, DataTypeOK
        <5>2. x = [w EXCEPT !.attempted = {k}]
          BY <5>1 DEF WithAttempt, Wallet
        <5>. QED
          BY <5>1, <5>2 DEF Wallet
      <4>3. w' = x /\ PutWalletFlash(idx, x) /\ UNCHANGED idx
        BY <3>2, <4>1 DEF RecordWriteAttempt
      <4> HIDE DEF x
      <4>4. CardState(idx) \subseteq x.written \cup x.attempted
        BY <2>1, <4>1, <4>2 DEF OnceSaved, CardState
      <4>5. \A c \in x.written : cards[c][target] = sec[idx]
        BY <2>1, <4>2 DEF OnceSaved
      <4>6. /\ StoredInv' /\ flash' \in [Slots -> Wallet]
            /\ flash' = [flash EXCEPT ![idx] = x] /\ count' = count
        BY <1>1, <2>1, <4>2, <4>3, <4>4, <4>5, PutKept
      <4>7. QED
        BY <4>2, <4>3, <4>6
    <3>3. QED
      BY <3>1, <3>2
  <2>3. TypeOK' /\ StoredInv'
    BY <1>1, <2>2 DEF IInv, TypeOK, DataTypeOK, Places
  <2>4. /\ flash'[idx] = w' /\ w'.attempted = {k} /\ w'.state = w.state
        /\ w'.name = w.name /\ w'.id = w.id /\ w'.locked = w.locked
        /\ w'.written = w.written /\ idx' = idx
    BY <2>1, <2>2 DEF OnceSaved, IInv, TypeOK, DataTypeOK, Wallet
  <2>5. Creating'
    <3>1. ~Unsaved' /\ OnceSaved'
      BY <1>1, <2>1, <2>4 DEF Unsaved, OnceSaved
    <3>2. QED
      BY <1>1, <2>4, <3>1 DEF IInv, Creating
  <2>6. FlowInv'
    BY <1>1, <2>5 DEF IInv, FlowInv, PlacesOfFlow, Verifying, Reading, Deleting,
                      AssertsHold
  <2>7. QED
    BY <2>3, <2>6 DEF IInv, StoredInv, FlowInv
<1>4. QED
  BY <1>2, <1>3

(* The finished write turns the attempt into a mark of the same slot.      *)
LEMMA WriteSharePostProcessStep == ASSUME IInv, WriteSharePostProcess PROVE IInv'
<1>1. flow = "create" /\ pc = "post" /\ pc' = "read"
      /\ UNCHANGED <<sec, cards, nextGen, k, flow, target, idx>>
  BY FlowOfPlace DEF WriteSharePostProcess, IInv
<1>2. /\ k \in Cards /\ target \in Names /\ OnceSaved /\ idx \in Slots
      /\ Named(idx, target) /\ target = w.name
  BY <1>1, CreationPlace DEF IInv, Creating
<1>3. w.attempted = {k} /\ w.written = 1..(k - 1) /\ cards[k][target] = sec[idx]
  BY <1>1, <1>2 DEF OnceSaved
<1> DEFINE x == Written(w, k)
<1>4. /\ x \in Wallet /\ x.state = "unverified" /\ x.name = w.name /\ x.id = w.id
      /\ x.written = w.written \cup {k} /\ x.attempted = {} /\ x.locked = w.locked
  BY <1>2 DEF Written, OnceSaved, IInv, TypeOK, DataTypeOK, Wallet
<1>5. w' = x /\ PutWalletFlash(idx, x) /\ shares' = [shares EXCEPT ![k] = NoShare]
  BY DEF WriteSharePostProcess
<1> HIDE DEF x
<1>6. CardState(idx) \subseteq x.written \cup x.attempted
  BY <1>2, <1>3, <1>4 DEF OnceSaved, CardState
<1>7. \A c \in x.written : cards[c][target] = sec[idx]
  BY <1>2, <1>3, <1>4 DEF OnceSaved
<1>8. /\ StoredInv' /\ flash' \in [Slots -> Wallet]
      /\ flash' = [flash EXCEPT ![idx] = x] /\ count' = count
  BY <1>1, <1>2, <1>4, <1>5, <1>6, <1>7, PutKept
<1>9. TypeOK'
  <2>1. shares' \in [{Device} \cup Cards -> Holding]
    BY <1>2, <1>5 DEF IInv, TypeOK, DataTypeOK, Holding
  <2>2. QED
    BY <1>1, <1>4, <1>5, <1>8, <2>1 DEF IInv, TypeOK, DataTypeOK, Places
<1>10. Creating'
  <2>1. flash'[idx] = x
    BY <1>2, <1>8 DEF IInv, TypeOK, DataTypeOK
  <2>2. shares'[Device] = shares[Device]
        /\ \A c \in Cards \ {k} : shares'[c] = shares[c]
    BY <1>2, <1>5 DEF IInv, TypeOK, DataTypeOK, Cards
  <2>3. x.written = 1..k
    BY <1>2, <1>3, <1>4 DEF Cards
  <2>4. \A c \in Cards \ {k} : shares'[c] = shares[Device]
    BY <1>1, <1>2, <2>2 DEF OnceSaved
  <2>5. x.attempted \cup x.written # {}
    BY <1>4
  <2>6. sec[idx] = shares[Device]
    BY <1>2 DEF OnceSaved
  <2>7. ~Unsaved' /\ OnceSaved'
    BY <1>1, <1>2, <1>4, <1>5, <1>7, <2>1, <2>2, <2>3, <2>4, <2>5, <2>6
       DEF Unsaved, OnceSaved
  <2>8. QED
    BY <1>1, <1>4, <1>5, <2>2, <2>7 DEF IInv, Creating
<1>11. Reading'
  <2>1. \A c \in 1..(k - 1) : cards[c][target] = sec[idx] /\ c \in Cards \ {k}
    <3>1. \A c \in 1..(k - 1) : c \in Cards \ {k}
      BY <1>2, BoundsAssumption DEF Cards
    <3>2. \A c \in w.written : cards[c][target] = sec[idx]
      BY <1>2 DEF OnceSaved
    <3>3. QED
      BY <1>3, <3>1, <3>2
  <2>2. \A c \in Cards \ {k} : shares'[c] = sec[idx]
    BY <1>1, <1>2, <1>5 DEF OnceSaved, IInv, TypeOK, DataTypeOK
  <2>3. QED
    BY <1>1, <1>2, <2>1, <2>2 DEF Reading
<1>12. FlowInv'
  BY <1>1, <1>10, <1>11 DEF IInv, FlowInv, PlacesOfFlow, Verifying, Deleting, AssertsHold
<1>13. QED
  BY <1>8, <1>9, <1>12 DEF IInv, StoredInv, FlowInv

(* Loading the vault's share finds it: its slot never loses the state.     *)
LEMMA LoadDeviceShareStep == ASSUME IInv, LoadDeviceShare PROVE IInv'
<1>1. /\ flow \in {"create", "verify"} /\ pc = "load" /\ pc' = "set_state"
      /\ UNCHANGED <<count, sec, cards, nextGen, k, flow, target, w, idx>>
  BY FlowOfPlace DEF LoadDeviceShare, IInv
<1>2. PICK s \in Slots : Named(s, target) /\ CardState(s) # {}
  <2>1. CASE flow = "create"
    <3>1. OnceSaved /\ target = w.name
      BY <1>1, <2>1 DEF IInv, Creating, Unsaved
    <3>2. QED
      BY <3>1 DEF OnceSaved, Named, Filled, CardState, IInv, TypeOK, DataTypeOK
  <2>2. CASE flow = "verify"
    <3>1. 1 \in Cards
      BY BoundsAssumption DEF Cards
    <3>2. QED
      BY <2>2, <3>1 DEF IInv, Verifying, CardState
  <2>3. QED
    BY <1>1, <2>1, <2>2
<1>3. IndexByName(target) = s /\ \A t \in Slots : Named(t, target) => t = s
  BY <1>2, SlotOfName DEF IInv, NameTaken
<1>4. SecShareMatches(s) /\ ~ShareNotPresent(s) /\ sec[s] \in Holding
  BY <1>2 DEF IInv, SlotsSound, Named, ShareNotPresent, TypeOK, DataTypeOK
<1>5. UNCHANGED flash /\ shares' = [shares EXCEPT ![Device] = sec[s]]
  BY <1>2, <1>3, <1>4 DEF LoadDeviceShare, NameTaken
<1>6. /\ shares' \in [{Device} \cup Cards -> Holding] /\ shares'[Device] = sec[s]
      /\ \A c \in Cards : shares'[c] = shares[c]
  <2>1. Device \notin Cards
    BY DEF Cards
  <2>2. QED
    BY <1>4, <1>5, <2>1 DEF IInv, TypeOK, DataTypeOK
<1>7. StoredInv'
  BY <1>1, <1>5, StoredKept DEF IInv, StoredInv, stored
<1>8. TypeOK'
  BY <1>1, <1>5, <1>6 DEF IInv, TypeOK, DataTypeOK, Places
<1>9. Creating'
  <2>1. SUFFICES ASSUME flow = "create" PROVE Creating'
    BY <1>1 DEF Creating
  <2>2. OnceSaved /\ target = w.name
    BY <1>1, <2>1 DEF IInv, Creating, Unsaved
  <2>3. idx = s
    BY <1>3, <2>2 DEF OnceSaved, Named, Filled, IInv, TypeOK, DataTypeOK
  <2>4. shares'[Device] = shares[Device]
    BY <1>6, <2>2, <2>3 DEF OnceSaved
  <2>5. ~Unsaved' /\ OnceSaved'
    BY <1>1, <1>5, <2>2, <2>4 DEF Unsaved, OnceSaved
  <2>6. QED
    BY <1>1, <1>5, <2>1, <2>4, <2>5 DEF IInv, Creating
<1>10. Reading'
  BY <1>1, <1>3, <1>5, <1>6 DEF IInv, Reading, Named, Filled
<1>11. Verifying'
  BY <1>1, <1>5 DEF IInv, Verifying, Named, Filled
<1>12. FlowInv'
  BY <1>1, <1>9, <1>10, <1>11 DEF IInv, FlowInv, PlacesOfFlow, Deleting, AssertsHold
<1>13. QED
  BY <1>7, <1>8, <1>12 DEF IInv, StoredInv, FlowInv

-----------------------------------------------------------------------------
(* The theorems. *)

(* Nothing changes, and the invariant stays.                               *)
LEMMA StutteringStep == ASSUME IInv, UNCHANGED vars PROVE IInv'
BY DEF vars, stored, ram, IInv, TypeOK, DataTypeOK, SlotsConsistent, SlotsSound,
       ShareTracked, WrittenCardsHold, AssertsHold, PlacesOfFlow, Creating, Unsaved,
       WhileUnsaved, OnceSaved, Verifying, Reading, Deleting, Filled, Named, NameTaken,
       CardState, SecShareMatches, Own, Holds, FirstEmpty

(* The invariant is inductive.                                             *)
LEMMA StepKeepsIInv == IInv /\ [Next]_vars => IInv'
<1> SUFFICES ASSUME IInv, [Next]_vars PROVE IInv'
  OBVIOUS
<1>1. CASE Create
  BY <1>1, CreateStartStep, SaveShareToDeviceStep, RecordWriteAttemptStep,
     AddWalletAckedStep, AddWalletAnswerLostStep, AddWalletNotDoneStep,
     AbandonCreateStep, WriteSharePostProcessStep DEF Create
<1>2. CASE Verify
  BY <1>2, VerifyStartStep, ReadCardShareStep, ReadCardFailsStep, ReadCardLockedStep,
     LoadDeviceShareStep, SetVerifiedStateStep DEF Verify
<1>3. CASE Delete
  BY <1>3, DeleteStartStep, DeleteCheckCardStep, FetchAcceptedStep, FetchMismatchStep,
     FetchShareMissingNever, DeleteTapFailsStep, EraseAckedStep, EraseAnswerLostStep,
     MarkDeletedFromCardStep, FinishDeleteStep, FreeSlotStep DEF Delete, CardFetchShare
<1>4. CASE Unlock
  BY <1>4, UnlockWalletStep DEF Unlock
<1>5. CASE Reboot
  BY <1>5, RebootStep
<1>6. CASE UNCHANGED vars
  BY <1>6, StutteringStep
<1>7. QED
  BY <1>1, <1>2, <1>3, <1>4, <1>5, <1>6 DEF Next

(* In every reachable state the slots, the cards and the RAM of the running *)
(* flow agree as IInv says.                                                 *)
THEOREM Invariance == Spec => []IInv
BY InitSound, StepKeepsIInv, PTL DEF Spec

(* Every variable stays in its type: no index of a slot or of a card, and  *)
(* no counter, leaves its range.                                           *)
THEOREM TypeCorrect == Spec => []TypeOK
<1>1. IInv => TypeOK
  BY DEF IInv
<1>2. QED
  BY <1>1, Invariance, PTL

(* Whatever is interrupted, every share this vault put on a card is marked *)
(* in a slot that has its counterpart in the sec flash.                    *)
THEOREM SharesTracked == Spec => []ShareTracked
<1>1. IInv => ShareTracked
  BY DEF IInv
<1>2. QED
  BY <1>1, Invariance, PTL

(* wallet_count is the number of filled slots; names and seeds are unique. *)
THEOREM SlotsStayConsistent == Spec => []SlotsConsistent
<1>1. IInv => SlotsConsistent
  BY DEF IInv
<1>2. QED
  BY <1>1, Invariance, PTL

(* A mark "written" is true of all the cards but perhaps the first.        *)
THEOREM WrittenMarksHold == Spec => []WrittenCardsHold
<1>1. IInv => WrittenCardsHold
  BY DEF IInv
<1>2. QED
  BY <1>1, Invariance, PTL

(* Without a sync or a reset no ASSERT of the deletion flow fails.         *)
THEOREM NoAssertFails == Spec => []AssertsHold
<1>1. IInv => AssertsHold
  BY DEF IInv
<1>2. QED
  BY <1>1, Invariance, PTL

-----------------------------------------------------------------------------
(* The action properties. *)

(* What another vault stored on a card no step of this vault alters: a     *)
(* card refuses a name in use, and a deletion erases a share only after it *)
(* was recognised as the vault's own.                                      *)
THEOREM ForeignStaysSafe == Spec => ForeignSafe
<1> DEFINE Kept == \A c \in Cards, n \in Names :
                     Holds(c, n) /\ ~Own(c, n) => cards'[c][n] = cards[c][n]
<1>1. IInv /\ [Next]_vars => [Kept]_vars
  <2> SUFFICES ASSUME IInv, Next PROVE Kept
    OBVIOUS
  <2>1. CASE UNCHANGED cards
    BY <2>1
  <2>2. CASE pc = "add" /\ ~Refuses(k, target, shares[k]) /\ StoreOnCard(k, target, shares[k])
    <3>1. k \in Cards /\ target \in Names
      BY <2>2, FlowOfPlace, CreationPlace DEF IInv
    <3>2. ~Holds(k, target)
      BY <2>2, <3>1 DEF Refuses
    <3>3. QED
      BY <2>2, <3>1, <3>2 DEF StoreOnCard, IInv, TypeOK, DataTypeOK
  <2>3. CASE pc = "erase" /\ StoreOnCard(k, target, NoShare)
    <3>1. k \in Cards /\ target \in Names /\ (Holds(k, target) => Own(k, target))
      BY <2>3, FlowOfPlace DEF IInv, Deleting
    <3>2. QED
      BY <2>3, <3>1 DEF StoreOnCard, IInv, TypeOK, DataTypeOK
  <2>4. \/ UNCHANGED cards
        \/ pc = "add" /\ ~Refuses(k, target, shares[k]) /\ StoreOnCard(k, target, shares[k])
        \/ pc = "erase" /\ StoreOnCard(k, target, NoShare)
    <3>1. CASE Create
      BY <3>1 DEF Create, CreateStart, SaveShareToDevice, RecordWriteAttempt,
         AddWalletAcked, AddWalletAnswerLost, AddWalletNotDone, AbandonCreate,
         WriteSharePostProcess
    <3>2. CASE Verify
      BY <3>2 DEF Verify, VerifyStart, ReadCardShare, ReadCardFails, ReadCardLocked,
         LoadDeviceShare, SetVerifiedState
    <3>3. CASE Delete
      BY <3>3 DEF Delete, DeleteStart, DeleteCheckCard, CardFetchShare, FetchAccepted, FetchMismatch,
         FetchShareMissing, DeleteTapFails, EraseAcked, EraseAnswerLost,
         MarkDeletedFromCard, FinishDelete, FreeSlot
    <3>4. CASE Unlock \/ Reboot
      BY <3>4 DEF Unlock, UnlockWallet, Reboot
    <3>5. QED
      BY <3>1, <3>2, <3>3, <3>4 DEF Next
  <2>5. QED
    BY <2>1, <2>2, <2>3, <2>4
<1>2. QED
  BY <1>1, Invariance, PTL DEF Spec, ForeignSafe

(* A wallet becomes valid only in the last step of a verification, when    *)
(* the cards and the vault hold shares of one split.                       *)
THEOREM ValidMeansAgreed == Spec => ValidOnlyIfAllAgree
<1> DEFINE Agreed == \A s \in Slots :
              flash[s].state # "valid" /\ flash'[s].state = "valid" =>
                \A c \in Cards : cards[c][flash[s].name] = sec[s] /\ Own(c, flash[s].name)
<1>1. IInv /\ [Next]_vars => [Agreed]_vars
  <2> SUFFICES ASSUME IInv, Next,
                      NEW s \in Slots, flash[s].state # "valid", flash'[s].state = "valid",
                      NEW c \in Cards
               PROVE  cards[c][flash[s].name] = sec[s] /\ Own(c, flash[s].name)
    OBVIOUS
  <2>1. ~UNCHANGED flash
    OBVIOUS
  <2>2. ~RecordWriteAttempt
    <3>1. SUFFICES ASSUME RecordWriteAttempt PROVE FALSE
      OBVIOUS
    <3>2. flow = "create" /\ pc = "write"
      BY <3>1, FlowOfPlace DEF RecordWriteAttempt, IInv
    <3>3. k # 1 => w.state = "unverified"
      BY <3>2 DEF IInv, Creating, Unsaved, OnceSaved
    <3>4. WithAttempt(w, k).state = "unverified"
      BY <3>3 DEF WithAttempt, IInv, TypeOK, DataTypeOK, Wallet
    <3>5. QED
      BY <2>1, <3>1, <3>4
         DEF RecordWriteAttempt, AddWalletToFlash, PutWalletFlash, IInv, TypeOK, DataTypeOK
  <2>3. ~WriteSharePostProcess
    <3>1. SUFFICES ASSUME WriteSharePostProcess PROVE FALSE
      OBVIOUS
    <3>2. OnceSaved
      BY <3>1, FlowOfPlace, CreationPlace DEF WriteSharePostProcess, IInv
    <3>3. Written(w, k).state = "unverified"
      BY <3>2 DEF Written, OnceSaved, IInv, TypeOK, DataTypeOK, Wallet
    <3>4. QED
      BY <2>1, <3>1, <3>3
         DEF WriteSharePostProcess, PutWalletFlash, IInv, TypeOK, DataTypeOK
  <2>4. \A x \in {TRUE, FALSE} : flash' # [flash EXCEPT ![IndexByName(target)].locked = x]
        /\ \A t \in Slots : flash' # [flash EXCEPT ![t].locked = x]
    BY DEF IInv, TypeOK, DataTypeOK, Wallet
  <2>5. ~ClearCardBits(IndexByName(target), k)
    BY DEF ClearCardBits, IInv, TypeOK, DataTypeOK, Wallet
  <2>6. SetVerifiedState
    <3>1. ~SetLocked(target)
      BY <2>1, <2>4 DEF SetLocked
    <3>2. ~FreeSlot /\ ~LoadDeviceShare /\ ~FetchShareMissing
      BY DEF FreeSlot, LoadDeviceShare, FetchShareMissing, IInv, TypeOK, DataTypeOK, Wallet
    <3>3. ~Unlock
      BY <2>4 DEF Unlock, UnlockWallet
    <3>4. QED
      BY <2>1, <2>2, <2>3, <2>5, <3>1, <3>2, <3>3
         DEF Next, Create, CreateStart, SaveShareToDevice, AddWalletAcked,
             AddWalletAnswerLost, AddWalletNotDone, AbandonCreate, Verify, VerifyStart,
             ReadCardShare, ReadCardFails, ReadCardLocked, Delete, DeleteStart,
             DeleteCheckCard, CardFetchShare, FetchAccepted, FetchMismatch, DeleteTapFails, EraseAcked,
             EraseAnswerLost, MarkDeletedFromCard, FinishDelete, Reboot, stored
  <2>7. /\ NameTaken(target) /\ SharesAgree
        /\ flash' = [flash EXCEPT ![IndexByName(target)].state = "valid"]
    BY <2>1, <2>6 DEF SetVerifiedState, IInv, TypeOK, DataTypeOK, Wallet
  <2>8. s = IndexByName(target) /\ Named(s, target)
    BY <2>7, SlotOfName DEF IInv, TypeOK, DataTypeOK, Wallet
  <2>9. cards[c][target] = shares[c] /\ sec[s] = shares[Device] /\ shares[c] = shares[Device]
        /\ shares[c] # NoShare /\ shares[c] \in Holding
    BY <2>6, <2>7, <2>8
       DEF SetVerifiedState, IInv, Reading, SharesAgree, TypeOK, DataTypeOK
  <2>10. CardState(s) # {}
    <3>1. CASE flow = "create"
      <4>1. OnceSaved /\ target = w.name
        BY <2>6, <3>1 DEF SetVerifiedState, IInv, Creating, Unsaved
      <4>2. Named(idx, target) /\ idx \in Slots
        BY <4>1 DEF OnceSaved, Named, Filled, IInv, TypeOK, DataTypeOK
      <4>3. idx = s
        BY <2>8, <4>2 DEF IInv, SlotsConsistent, Named
      <4>4. QED
        BY <4>1, <4>3 DEF OnceSaved, CardState
    <3>2. CASE flow = "verify"
      BY <2>8, <3>2 DEF IInv, Verifying, SlotsConsistent, Named, CardState
    <3>3. QED
      BY <2>6, <3>1, <3>2, FlowOfPlace DEF SetVerifiedState, IInv
  <2>11. sec[s].gen > 0
    BY <2>8, <2>10 DEF IInv, SlotsSound, Named
  <2>12. QED
    BY <2>8, <2>9, <2>11 DEF Named, Own
<1>2. QED
  BY <1>1, Invariance, PTL DEF Spec, ValidOnlyIfAllAgree

(* A wallet's lock survives: the creation flow, the only one that saves a  *)
(* whole slot, saves a wallet that is not locked.                          *)
THEOREM LockStays == Spec => LockOnlyClearedByUnlock
<1> DEFINE Stays == \A s \in Slots :
              Filled(s) /\ flash[s].locked /\ flash'[s].state # "default" =>
                flash'[s].locked \/ UnlockWallet(s)
<1>1. IInv /\ [Next]_vars => [Stays]_vars
  <2> SUFFICES ASSUME IInv, Next,
                      NEW s \in Slots, Filled(s), flash[s].locked,
                      flash'[s].state # "default", ~flash'[s].locked
               PROVE  UnlockWallet(s)
    OBVIOUS
  <2>1. ~UNCHANGED flash
    OBVIOUS
  <2>2. ~RecordWriteAttempt
    <3>1. SUFFICES ASSUME RecordWriteAttempt PROVE FALSE
      OBVIOUS
    <3>2. flow = "create" /\ pc = "write"
      BY <3>1, FlowOfPlace DEF RecordWriteAttempt, IInv
    <3>3. CASE Unsaved
      <4>1. FirstEmpty \in Slots /\ FirstEmpty # s
        BY <3>2, <3>3, FirstEmptyIsEmpty, BoundsAssumption DEF IInv, Creating, WhileUnsaved
      <4>2. k = 1
        BY <3>2, <3>3 DEF Unsaved
      <4>3. QED
        BY <2>1, <3>1, <4>1, <4>2
           DEF RecordWriteAttempt, AddWalletToFlash, IInv, TypeOK, DataTypeOK
    <3>4. CASE ~Unsaved
      <4>1. OnceSaved /\ ~w.locked /\ idx # s
        BY <3>2, <3>4 DEF IInv, Creating, OnceSaved
      <4>2. k # 1 \/ k \in w.attempted
        BY <3>2, <4>1, <3>4 DEF Unsaved, OnceSaved
      <4>3. QED
        BY <2>1, <3>1, <4>1, <4>2
           DEF RecordWriteAttempt, PutWalletFlash, IInv, TypeOK, DataTypeOK
    <3>5. QED
      BY <3>3, <3>4
  <2>3. ~WriteSharePostProcess
    <3>1. SUFFICES ASSUME WriteSharePostProcess PROVE FALSE
      OBVIOUS
    <3>2. flow = "create" /\ OnceSaved
      BY <3>1, FlowOfPlace, CreationPlace DEF WriteSharePostProcess, IInv
    <3>3. idx # s
      BY <3>2 DEF IInv, Creating, OnceSaved
    <3>4. QED
      BY <2>1, <3>1, <3>3
         DEF WriteSharePostProcess, PutWalletFlash, IInv, TypeOK, DataTypeOK
  <2>4. ~SetLocked(target) /\ ~ClearCardBits(IndexByName(target), k) /\ ~FreeSlot
        /\ ~SetVerifiedState /\ ~LoadDeviceShare /\ ~FetchShareMissing
    BY <2>1 DEF SetLocked, ClearCardBits, FreeSlot, SetVerifiedState, LoadDeviceShare,
                FetchShareMissing, IInv, TypeOK, DataTypeOK, Wallet
  <2>5. Unlock
    BY <2>1, <2>2, <2>3, <2>4
       DEF Next, Create, CreateStart, SaveShareToDevice, AddWalletAcked,
           AddWalletAnswerLost, AddWalletNotDone, AbandonCreate, Verify, VerifyStart,
           ReadCardShare, ReadCardFails, ReadCardLocked, Delete, DeleteStart,
           DeleteCheckCard, CardFetchShare, FetchAccepted, FetchMismatch, DeleteTapFails, EraseAcked,
           EraseAnswerLost, MarkDeletedFromCard, FinishDelete, Reboot, stored
  <2>6. QED
    BY <2>5 DEF Unlock, UnlockWallet, IInv, TypeOK, DataTypeOK
<1>2. QED
  BY <1>1, Invariance, PTL DEF Spec, LockOnlyClearedByUnlock

-----------------------------------------------------------------------------
(* The refinement of ShareLedger. *)

(* A step that leaves every slot's name and marks, and the cards, alone is *)
(* a stutter of the ledger.                                                *)
LEMMA LedgerStutters ==
    ASSUME \A s \in Slots, n \in Names : (Named(s, n))' <=> Named(s, n),
           \A s \in Slots : Filled(s) => (CardState(s))' = CardState(s),
           UNCHANGED cards
    PROVE  UNCHANGED Ledger!vars
<1>1. \A n \in Names : (LedgerOf(n))' = LedgerOf(n)
  BY DEF LedgerOf, Named
<1>2. QED
  BY <1>1 DEF Ledger!vars, Own

(* The ledger of a name is the marks of its slot. *)
LEMMA LedgerIsMarks ==
    ASSUME IInv, NEW n \in Names, NEW s \in Slots, Named(s, n)
    PROVE  LedgerOf(n) = CardState(s)
<1>1. CardState(s) \subseteq Cards
  BY DEF CardState, IInv, TypeOK, DataTypeOK, Wallet
<1>2. \A t \in Slots : Named(t, n) => t = s
  BY DEF IInv, SlotsConsistent, Named
<1>3. QED
  BY <1>1, <1>2 DEF LedgerOf

(* The ledger after a step that saved only slot e, that of name n. *)
LEMMA LedgerAfterSave ==
    ASSUME TypeOK', NEW n \in Names, NEW e \in Slots, NEW M,
           \A t \in Slots \ {e} : flash'[t] = flash[t] /\ ~Named(t, n),
           Filled(e) => flash[e].name = n,
           (Named(e, n))', (CardState(e))' = M
    PROVE  [m \in Names |-> LedgerOf(m)]' = [[m \in Names |-> LedgerOf(m)] EXCEPT ![n] = M]
<1>1. (CardState(e))' \subseteq Cards
  BY DEF TypeOK, DataTypeOK, Wallet, CardState
<1>2. (LedgerOf(n))' = M
  BY <1>1 DEF LedgerOf, Named, Filled
<1>3. \A m \in Names \ {n} : (LedgerOf(m))' = LedgerOf(m)
  BY DEF LedgerOf, Named, Filled, CardState
<1>4. QED
  BY <1>2, <1>3

(* A write attempt on card k enters it, unless it is on record already. *)
LEMMA AttemptEnters ==
    ASSUME IInv, IInv', RecordWriteAttempt
    PROVE  Ledger!Enter(target, k) \/ UNCHANGED Ledger!vars
<1>1. /\ flow = "create" /\ pc = "write"
      /\ UNCHANGED <<sec, cards, k, flow, target>>
  BY FlowOfPlace DEF RecordWriteAttempt, IInv
<1>2. CASE k \in w.attempted
  BY <1>1, <1>2, LedgerStutters DEF RecordWriteAttempt, Named, Filled, CardState
<1>3. CASE k \notin w.attempted
  <2>1. target \in Names /\ target = w.name
    BY <1>1 DEF IInv, Creating
  <2>2. w' = WithAttempt(w, k) /\ w' \in Wallet /\ w'.name = target
        /\ w'.written = w.written /\ w'.attempted = w.attempted \cup {k}
    BY <1>3, <2>1 DEF RecordWriteAttempt, WithAttempt, IInv, TypeOK, DataTypeOK, Wallet
  <2>3. PICK e \in Slots :
          /\ flash' = [flash EXCEPT ![e] = w']
          /\ w'.state # "default"
          /\ Filled(e) => flash[e].name = target
          /\ \A t \in Slots \ {e} : ~Named(t, target)
          /\ LedgerOf(target) = w.written \cup w.attempted
    <3>1. CASE Unsaved
      <4>1. WhileUnsaved /\ k = 1 /\ w.written = {} /\ w.attempted = {}
        BY <1>1, <3>1 DEF IInv, Creating, WhileUnsaved
      <4>2. FirstEmpty \in Slots /\ ~Filled(FirstEmpty)
        BY <4>1, FirstEmptyIsEmpty, BoundsAssumption DEF WhileUnsaved
      <4>3. count # MaxWallets
        BY <4>2, RoomLeft, BoundsAssumption DEF IInv, SlotsConsistent, TypeOK, DataTypeOK
      <4>4. flash' = [flash EXCEPT ![FirstEmpty] = w']
        BY <1>3, <2>2, <4>1, <4>2, <4>3
           DEF RecordWriteAttempt, AddWalletToFlash, WhileUnsaved
      <4>5. LedgerOf(target) = {} /\ \A t \in Slots : ~Named(t, target)
        BY <4>1 DEF LedgerOf, WhileUnsaved, NameTaken
      <4>6. w'.state # "default"
        BY <2>2, <4>1 DEF WithAttempt, IInv, TypeOK, DataTypeOK, Wallet
      <4>7. QED
        BY <4>1, <4>2, <4>4, <4>5, <4>6
    <3>2. CASE ~Unsaved
      <4>1. OnceSaved /\ k # 1
        BY <1>1, <1>3, <3>2 DEF IInv, Creating, OnceSaved, Unsaved
      <4>2. idx \in Slots /\ Named(idx, target)
        BY <2>1, <4>1 DEF OnceSaved, Named, Filled, IInv, TypeOK, DataTypeOK
      <4>3. \A t \in Slots \ {idx} : ~Named(t, target)
        BY <4>2 DEF IInv, SlotsConsistent, Named
      <4>4. flash' = [flash EXCEPT ![idx] = w']
        BY <1>3, <2>2, <4>1, <4>3 DEF RecordWriteAttempt, PutWalletFlash
      <4>5. LedgerOf(target) = w.written \cup w.attempted
        BY <2>1, <4>1, <4>2, LedgerIsMarks DEF OnceSaved, CardState
      <4>6. w'.state # "default"
        BY <2>2, <4>1 DEF WithAttempt, OnceSaved, IInv, TypeOK, DataTypeOK, Wallet
      <4>7. QED
        BY <4>2, <4>3, <4>4, <4>5, <4>6 DEF Named
    <3>3. QED
      BY <3>1, <3>2
  <2>4. /\ \A t \in Slots \ {e} : flash'[t] = flash[t]
        /\ flash'[e] = w'
    BY <2>3 DEF IInv, TypeOK, DataTypeOK
  <2>5. PICK n \in Names : n = target
    BY <2>1
  <2>6. (Named(e, n))' /\ (CardState(e))' = LedgerOf(n) \cup {k}
    BY <2>2, <2>3, <2>4, <2>5 DEF Named, Filled, CardState
  <2>7. [m \in Names |-> LedgerOf(m)]'
          = [[m \in Names |-> LedgerOf(m)] EXCEPT ![n] = LedgerOf(n) \cup {k}]
    <3>1. /\ \A t \in Slots \ {e} : flash'[t] = flash[t] /\ ~Named(t, n)
          /\ Filled(e) => flash[e].name = n
      BY <2>3, <2>4, <2>5
    <3>2. QED
      BY <2>6, <3>1, LedgerAfterSave DEF IInv
  <2>8. QED
    BY <1>1, <2>5, <2>7 DEF Ledger!Enter, Own
<1>4. QED
  BY <1>2, <1>3

(* Clearing the mark of a card that holds no own share strikes it. *)
LEMMA ClearedStrikes ==
    ASSUME IInv, IInv', flow = "delete", NEW s \in Slots, Named(s, target),
           k \in Cards, ClearCardBits(s, k), ~Own(k, target), UNCHANGED cards
    PROVE  Ledger!Strike(target, k)
<1>1. PICK n \in Names : n = target
  BY DEF IInv, Deleting
<1>2. /\ \A t \in Slots \ {s} : flash'[t] = flash[t] /\ ~Named(t, n)
      /\ Filled(s) /\ flash[s].name = n
  BY <1>1 DEF ClearCardBits, Named, IInv, SlotsConsistent, TypeOK, DataTypeOK
<1>3. /\ (Named(s, n))' /\ (CardState(s))' = LedgerOf(n) \ {k}
  <2>1. LedgerOf(n) = CardState(s)
    BY <1>1, LedgerIsMarks
  <2>2. /\ flash'[s].name = flash[s].name /\ flash'[s].state = flash[s].state
        /\ flash'[s].written = flash[s].written \ {k}
        /\ flash'[s].attempted = flash[s].attempted \ {k}
    BY DEF ClearCardBits, IInv, TypeOK, DataTypeOK, Wallet
  <2>3. QED
    BY <1>2, <2>1, <2>2 DEF Named, Filled, CardState
<1>4. [m \in Names |-> LedgerOf(m)]'
        = [[m \in Names |-> LedgerOf(m)] EXCEPT ![n] = LedgerOf(n) \ {k}]
  BY <1>2, <1>3, LedgerAfterSave DEF IInv
<1>5. QED
  BY <1>1, <1>4 DEF Ledger!Strike, Own

(* A card that stores a share does so while on record. *)
LEMMA StoreIsRecorded ==
    ASSUME IInv, pc = "add", ~Refuses(k, target, shares[k]),
           StoreOnCard(k, target, shares[k]), UNCHANGED stored
    PROVE  Ledger!Store(target, k)
<1>1. /\ k \in Cards /\ target \in Names /\ Named(idx, target) /\ idx \in Slots
      /\ k \in CardState(idx) /\ shares[k].gen > 0
  BY FlowOfPlace, CreationPlace DEF IInv
<1>2. k \in LedgerOf(target)
  BY <1>1, LedgerIsMarks
<1>3. \A n \in Names : (LedgerOf(n))' = LedgerOf(n)
  BY DEF LedgerOf, Named, Filled, CardState, stored
<1>4. \A n \in Names : {c \in Cards : Own(c, n)}'
        = IF n = target THEN {c \in Cards : Own(c, n)} \cup {k} ELSE {c \in Cards : Own(c, n)}
  BY <1>1 DEF StoreOnCard, Own, IInv, TypeOK, DataTypeOK
<1>5. QED
  BY <1>1, <1>2, <1>3, <1>4 DEF Ledger!Store

(* Erasing a share on a card is the Erase step of the ledger, or none.     *)
LEMMA EraseIsErase ==
    ASSUME IInv, pc = "erase", StoreOnCard(k, target, NoShare), UNCHANGED stored
    PROVE  k \in Cards /\ target \in Names /\ Ledger!Erase(target, k)
<1>1. k \in Cards /\ target \in Names
  BY FlowOfPlace DEF IInv, Deleting
<1>2. \A n \in Names : (LedgerOf(n))' = LedgerOf(n)
  BY DEF LedgerOf, Named, Filled, CardState, stored
<1>3. \A n \in Names : {c \in Cards : Own(c, n)}'
        = IF n = target THEN {c \in Cards : Own(c, n)} \ {k} ELSE {c \in Cards : Own(c, n)}
  BY <1>1 DEF StoreOnCard, Own, NoShare, IInv, TypeOK, DataTypeOK
<1>4. QED
  BY <1>1, <1>2, <1>3 DEF Ledger!Erase

(* Each step of a creation enters a card, stores a share or is no step of it. *)
LEMMA CreateOnLedger ==
    ASSUME IInv, IInv', Create PROVE [Ledger!Next]_(Ledger!vars)
<1>1. ASSUME UNCHANGED <<flash, cards>> PROVE UNCHANGED Ledger!vars
  BY <1>1, LedgerStutters DEF Named, Filled, CardState
<1>2. CASE RecordWriteAttempt
  <2>1. k \in Cards /\ target \in Names
    <3>1. flow = "create"
      BY <1>2, FlowOfPlace DEF RecordWriteAttempt, IInv
    <3>2. 1 \in Cards
      BY BoundsAssumption DEF Cards
    <3>3. QED
      BY <1>2, <3>1, <3>2
         DEF RecordWriteAttempt, IInv, Creating, WhileUnsaved, OnceSaved
  <2>2. QED
    BY <1>2, <2>1, AttemptEnters DEF Ledger!Next
<1>3. CASE AddWalletAcked \/ AddWalletAnswerLost
  <2>1. k \in Cards /\ target \in Names /\ Ledger!Store(target, k)
    <3>1. /\ pc = "add" /\ ~Refuses(k, target, shares[k])
          /\ StoreOnCard(k, target, shares[k]) /\ UNCHANGED stored
      BY <1>3 DEF AddWalletAcked, AddWalletAnswerLost
    <3>2. k \in Cards /\ target \in Names
      BY <3>1, FlowOfPlace, CreationPlace DEF IInv
    <3>3. QED
      BY <3>1, <3>2, StoreIsRecorded
  <2>2. QED
    BY <2>1 DEF Ledger!Next
<1>4. CASE WriteSharePostProcess
  <2>1. flow = "create" /\ pc = "post" /\ UNCHANGED <<cards, target>>
    BY <1>4, FlowOfPlace DEF WriteSharePostProcess, IInv
  <2>2. /\ k \in Cards /\ target \in Names /\ OnceSaved /\ w.attempted = {k}
        /\ Named(idx, target) /\ idx \in Slots /\ target = w.name
        /\ \A t \in Slots : Named(t, target) => t = idx
    BY <2>1, CreationPlace DEF IInv, Creating, OnceSaved
  <2>3. Written(w, k) \in Wallet /\ Written(w, k).state = "unverified"
        /\ Written(w, k).name = target
        /\ Written(w, k).written \cup Written(w, k).attempted = w.written \cup w.attempted
    BY <2>2 DEF Written, OnceSaved, IInv, TypeOK, DataTypeOK, Wallet
  <2>4. flash' = [flash EXCEPT ![idx] = Written(w, k)]
    BY <1>4, <2>2, <2>3 DEF WriteSharePostProcess, PutWalletFlash
  <2>5. flash'[idx] = Written(w, k) /\ \A t \in Slots \ {idx} : flash'[t] = flash[t]
    BY <2>2, <2>3, <2>4 DEF IInv, TypeOK, DataTypeOK
  <2>6. /\ \A t \in Slots, n \in Names : (Named(t, n))' <=> Named(t, n)
        /\ \A t \in Slots : Filled(t) => (CardState(t))' = CardState(t)
    BY <2>2, <2>3, <2>5 DEF Named, Filled, CardState, OnceSaved
  <2>7. QED
    BY <2>1, <2>6, LedgerStutters
<1>5. CASE UNCHANGED <<flash, cards>>
  BY <1>1, <1>5
<1>6. QED
  BY <1>2, <1>3, <1>4, <1>5
     DEF Create, CreateStart, SaveShareToDevice, AddWalletNotDone, AbandonCreate, stored

(* No step of a verification touches the ledger.                           *)
LEMMA VerifyOnLedger ==
    ASSUME IInv, Verify \/ Unlock PROVE UNCHANGED Ledger!vars
<1>1. UNCHANGED cards
  BY DEF Verify, VerifyStart, ReadCardShare, ReadCardFails, ReadCardLocked,
         LoadDeviceShare, SetVerifiedState, Unlock, UnlockWallet
<1>2. \/ UNCHANGED flash
      \/ SetLocked(target)
      \/ SetVerifiedState \/ LoadDeviceShare
      \/ \E s \in Slots : Filled(s) /\ flash' = [flash EXCEPT ![s].locked = FALSE]
  BY DEF Verify, VerifyStart, ReadCardShare, ReadCardFails, ReadCardLocked, Unlock,
         UnlockWallet, stored
<1>3. \A t \in Slots : /\ Filled(t) => (Filled(t))'
                       /\ (Filled(t))' => Filled(t)
                       /\ flash'[t].name = flash[t].name
                       /\ flash'[t].written = flash[t].written
                       /\ flash'[t].attempted = flash[t].attempted
  <2>1. CASE UNCHANGED flash
    BY <2>1 DEF Filled
  <2>2. CASE SetLocked(target) \/ \E s \in Slots : Filled(s) /\ flash' = [flash EXCEPT ![s].locked = FALSE]
    BY <2>2 DEF SetLocked, Filled, IInv, TypeOK, DataTypeOK, Wallet
  <2>3. CASE SetVerifiedState
    <3>1. CASE NameTaken(target)
      <4>1. Filled(IndexByName(target))
        BY <3>1, SlotOfName DEF IInv, Named
      <4>2. QED
        BY <2>3, <3>1, <4>1
           DEF SetVerifiedState, Filled, IInv, TypeOK, DataTypeOK, Wallet
    <3>2. CASE ~NameTaken(target)
      BY <2>3, <3>2 DEF SetVerifiedState, Filled
    <3>3. QED
      BY <3>1, <3>2
  <2>4. CASE LoadDeviceShare
    <3>1. CASE NameTaken(target)
      <4>1. Filled(IndexByName(target))
        BY <3>1, SlotOfName DEF IInv, Named
      <4>2. QED
        BY <2>4, <3>1, <4>1
           DEF LoadDeviceShare, Filled, IInv, TypeOK, DataTypeOK, Wallet
    <3>2. CASE ~NameTaken(target)
      BY <2>4, <3>2 DEF LoadDeviceShare, Filled
    <3>3. QED
      BY <3>1, <3>2
  <2>5. QED
    BY <1>2, <2>1, <2>2, <2>3, <2>4
<1>4. QED
  BY <1>1, <1>3, LedgerStutters DEF Named, CardState

(* Each step of a deletion erases a share, strikes a card or is no step of it. *)
LEMMA DeleteOnLedger ==
    ASSUME IInv, IInv', Delete PROVE [Ledger!Next]_(Ledger!vars)
<1>1. CASE UNCHANGED <<flash, cards>>
  BY <1>1, LedgerStutters DEF Named, Filled, CardState
<1>2. CASE (pc = "fetch" /\ FetchMismatch) \/ MarkDeletedFromCard
  <2>1. flow = "delete" /\ k \in Cards /\ target \in Names
    BY <1>2, FlowOfPlace DEF FetchMismatch, MarkDeletedFromCard, IInv, Deleting
  <2>2. PICK s \in Slots : /\ Named(s, target) /\ IndexByName(target) = s
                           /\ \A t \in Slots : Named(t, target) => t = s
    BY <2>1, SlotOfDeletion
  <2>3. ClearCardBits(s, k) /\ UNCHANGED cards
    BY <1>2, <2>2 DEF FetchMismatch, MarkDeletedFromCard
  <2>4. ~Own(k, target)
    <3>1. CASE MarkDeletedFromCard
      BY <2>1, <3>1 DEF MarkDeletedFromCard, IInv, Deleting, Holds, Own, NoShare
    <3>2. CASE pc = "fetch" /\ FetchMismatch
      <4>1. SUFFICES ASSUME Own(k, target) PROVE FALSE
        OBVIOUS
      <4>2. sec[s] = cards[k][target] /\ SecShareMatches(s)
        BY <2>1, <2>2, <4>1 DEF IInv, ShareTracked, SlotsSound, Named
      <4>3. QED
        BY <2>2, <3>2, <4>2 DEF FetchMismatch, FetchedMatches, SecShareMatches
    <3>3. QED
      BY <1>2, <3>1, <3>2
  <2>5. Ledger!Strike(target, k)
    BY <2>1, <2>2, <2>3, <2>4, ClearedStrikes
  <2>6. QED
    BY <2>1, <2>5 DEF Ledger!Next
<1>3. CASE EraseAcked \/ EraseAnswerLost
  <2>1. k \in Cards /\ target \in Names /\ Ledger!Erase(target, k)
    BY <1>3, EraseIsErase DEF EraseAcked, EraseAnswerLost
  <2>2. QED
    BY <2>1 DEF Ledger!Next
<1>4. CASE DeleteTapFails
  <2>1. UNCHANGED flash \/ SetLocked(target)
    BY <1>4 DEF DeleteTapFails
  <2>2. \A t \in Slots : /\ flash'[t].state = flash[t].state
                         /\ flash'[t].name = flash[t].name
                         /\ flash'[t].written = flash[t].written
                         /\ flash'[t].attempted = flash[t].attempted
    <3>1. flash \in [Slots -> Wallet]
      BY DEF IInv, TypeOK, DataTypeOK
    <3>2. CASE UNCHANGED flash
      BY <3>2
    <3>3. ASSUME NEW s \in Slots, flash' = [flash EXCEPT ![s].locked = TRUE]
          PROVE  \A t \in Slots : /\ flash'[t].state = flash[t].state
                                   /\ flash'[t].name = flash[t].name
                                   /\ flash'[t].written = flash[t].written
                                   /\ flash'[t].attempted = flash[t].attempted
      <4>1. \A t \in Slots : flash'[t] = IF t = s THEN [flash[t] EXCEPT !.locked = TRUE]
                                                   ELSE flash[t]
        BY <3>1, <3>3
      <4>. QED
        BY <3>1, <4>1 DEF Wallet
    <3>. QED
      BY <2>1, <3>2, <3>3, <3>1, IndexOfName DEF SetLocked, NameTaken
  <2>3. UNCHANGED cards
    BY <1>4 DEF DeleteTapFails
  <2>4. QED
    BY <2>2, <2>3, LedgerStutters DEF Named, Filled, CardState
<1>5. CASE FreeSlot
  <2>1. flow = "delete"
    BY <1>5, FlowOfPlace DEF FreeSlot, IInv
  <2>2. PICK s \in Slots : Named(s, target) /\ IndexByName(target) = s /\ CardState(s) = {}
    BY <1>5, <2>1, SlotOfDeletion DEF FreeSlot, IInv, Deleting
  <2>3. /\ \A t \in Slots \ {s} : flash'[t] = flash[t]
        /\ flash'[s].state = "default"
    BY <1>5, <2>2 DEF FreeSlot, IInv, TypeOK, DataTypeOK, Wallet
  <2>4. \A n \in Names : (LedgerOf(n))' = LedgerOf(n)
    BY <2>2, <2>3 DEF LedgerOf, Named, Filled, CardState
  <2>5. UNCHANGED Ledger!vars
    BY <1>5, <2>4 DEF FreeSlot, Ledger!vars, Own
  <2>6. QED
    BY <2>5
<1>6. QED
  BY <1>1, <1>2, <1>3, <1>4, <1>5, FetchShareMissingNever
     DEF Delete, DeleteStart, DeleteCheckCard, CardFetchShare, FetchAccepted, FinishDelete, stored

(* The flows, card by card and save by save, implement the ledger: a card  *)
(* is entered before it stores a share, struck once it holds none.         *)
THEOREM LedgerImplemented == Spec => ImplementsLedger
<1>1. Init => Ledger!Init
  <2>1. ASSUME Init
        PROVE  \A n \in Names, c \in Cards : ~Own(c, n) /\ c \notin LedgerOf(n)
    BY <2>1 DEF Init, Own, NoShare, LedgerOf, Named, Filled, NoWallet
  <2>2. ASSUME Init PROVE Ledger!Init
    <3>1. \A n \in Names : LedgerOf(n) = {} /\ {c \in Cards : Own(c, n)} = {}
      BY <2>1, <2>2 DEF LedgerOf
    <3>2. QED
      BY <3>1 DEF Ledger!Init
  <2>3. QED
    BY <2>2
<1>2. IInv /\ IInv' /\ [Next]_vars => [Ledger!Next]_(Ledger!vars)
  <2> SUFFICES ASSUME IInv, IInv', [Next]_vars PROVE [Ledger!Next]_(Ledger!vars)
    OBVIOUS
  <2>1. CASE Create
    BY <2>1, CreateOnLedger
  <2>2. CASE Verify \/ Unlock
    BY <2>2, VerifyOnLedger
  <2>3. CASE Delete
    BY <2>3, DeleteOnLedger
  <2>4. CASE Reboot \/ UNCHANGED vars
    <3>1. UNCHANGED <<flash, cards>>
      BY <2>4 DEF Reboot, vars, stored
    <3>2. QED
      BY <3>1, LedgerStutters DEF Named, Filled, CardState
  <2>5. QED
    BY <2>1, <2>2, <2>3, <2>4 DEF Next
<1>3. QED
  BY <1>1, <1>2, Invariance, PTL DEF Spec, ImplementsLedger, Ledger!Spec

=============================================================================
