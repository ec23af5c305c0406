-------------------------- MODULE WalletSync_proofs --------------------------
(***************************************************************************)
(* Proofs about WalletSync, for every set of names and ids, any number of  *)
(* slots and of cards and any threshold: types and the consistency of the  *)
(* slots.  What a cut factory reset leaves behind breaks the invariant of  *)
(* WalletLifecycle, so that the invariant here is one of its own, about    *)
(* slots and RAM only.  WalletRecovery_proofs goes on from it to what the  *)
(* cards hold.                                                             *)
(***************************************************************************)
EXTENDS WalletSync, WalletLifecycle_proofs

USE DEF Device

-----------------------------------------------------------------------------
(* The inductive invariant. *)

(* No two wallets on a card have the same id. *)
CardsApart ==
    \A c \in Cards, m, n \in Names :
      m # n /\ Holds(c, m) => cards[c][m].id # cards[c][n].id

SlotsNamed == \A s \in Slots : Filled(s) => flash[s].name \in Names /\ flash[s].id \in Ids

ReadPlaces == {"read", "load", "set_state"}
WritePlaces == {"save_share", "write", "add", "post"}
DeletePlaces == {"check", "fetch", "erase", "mark", "finish", "wrong_pin", "free_slot"}

(* Which flow runs at a place, and on which card and wallet. *)
FlowAt ==
    /\ pc = "menu" => k = 1 /\ shares = NoShares
    /\ pc \in WritePlaces => flow = "create"
    /\ pc \in ReadPlaces => flow \in {"create", "verify"}
    /\ pc \in {"write", "add", "post", "read", "fetch", "erase", "mark", "sync_add"} =>
         k \in Cards
    /\ pc \in {"sync_tap", "sync_put", "sync_state"}
                \cup WritePlaces \cup ReadPlaces \cup DeletePlaces =>
         target \in Names

AtCreation == pc \in WritePlaces \cup ReadPlaces /\ flow = "create"

(* The wallet in RAM while it is created. *)
NewWallet ==
    AtCreation =>
      /\ w.name = target /\ w.id \in Ids /\ shares[Device].id = w.id
      /\ pc = "read" => w.attempted = {}
      /\ pc \in {"write", "add", "post"} => w.attempted \subseteq {k}
      /\ pc = "add" => k \in w.attempted

(* The slot it will take, and the slot it has taken. *)
NotYetInFlash ==
    AtCreation /\ Unsaved =>
      /\ ~NameTaken(target)
      /\ \A s \in Slots : Filled(s) => flash[s].id # w.id
      /\ \E s \in Slots : ~Filled(s)
      /\ k = 1 /\ w.attempted = {}
      /\ pc = "write" => sec[FirstEmpty].id = w.id

InFlash ==
    AtCreation /\ ~Unsaved =>
      /\ flash[idx].name = w.name /\ flash[idx].id = w.id
      /\ flash[idx].state = "unverified" /\ w.state = "unverified"
      /\ sec[idx].id = w.id

(* Without a share of the vault a verification has none to compare. *)
ReadBack ==
    pc \in ReadPlaces /\ flow = "verify" =>
      /\ pc # "set_state" => shares[Device] = NoShare
      /\ \A s \in Slots : Named(s, target) /\ ShareNotPresent(s) => shares[Device] = NoShare

BeingDeleted == pc \in DeletePlaces => NameTaken(target)

(* The list of the tapped card that is still to be added. *)
ListedWallets ==
    /\ pc \in {"sync_add", "sync_next"} => shares = NoShares
    /\ pc = "sync_add" =>
         \A n \in toAdd : /\ Holds(k, n) /\ ~NameTaken(n)
                          /\ \A s \in Slots : Filled(s) => flash[s].id # cards[k][n].id

(* What was fetched is what the cards hold, and fits together. *)
SharesFetched ==
    pc \in {"sync_tap", "sync_put", "sync_state"} =>
      /\ NameTaken(target)
      /\ \A c \in Tapped : shares[c] = cards[c][target]
      /\ \A c, d \in Tapped : shares[c].gen = shares[d].gen
      /\ \A s \in Slots : Named(s, target) => \A c \in Tapped : shares[c].id = flash[s].id
      /\ pc # "sync_tap" => Cardinality(Tapped) = Threshold
      /\ pc = "sync_state" =>
           \A s \in Slots : Named(s, target) => \A c \in Tapped : sec[s] = shares[c]

SyncStored == SlotsConsistent /\ SlotsNamed /\ CardsApart

SyncFlow == /\ FlowAt /\ NewWallet /\ NotYetInFlash /\ InFlash /\ ReadBack
            /\ BeingDeleted /\ ListedWallets /\ SharesFetched

SyncInv == SyncTypeOK /\ SyncStored /\ SyncFlow

-----------------------------------------------------------------------------
(* Where a flow stands decides which part of SyncFlow says anything. *)

LEMMA InMenu ==
    ASSUME pc' = "menu", k' = 1, shares' = NoShares
    PROVE  SyncFlow'
BY DEF SyncFlow, FlowAt, AtCreation, NewWallet, NotYetInFlash, InFlash, ReadBack,
       BeingDeleted, ListedWallets, SharesFetched, WritePlaces, ReadPlaces, DeletePlaces

LEMMA BeforeReset ==
    ASSUME pc' \in {"assert_failed", "reset_flash"}
    PROVE  SyncFlow'
BY DEF SyncFlow, FlowAt, AtCreation, NewWallet, NotYetInFlash, InFlash, ReadBack,
       BeingDeleted, ListedWallets, SharesFetched, WritePlaces, ReadPlaces, DeletePlaces

LEMMA InDeletion ==
    ASSUME pc' \in DeletePlaces, target' \in Names, (NameTaken(target))',
           pc' \in {"fetch", "erase", "mark"} => k' \in Cards
    PROVE  SyncFlow'
BY DEF SyncFlow, FlowAt, AtCreation, NewWallet, NotYetInFlash, InFlash, ReadBack,
       BeingDeleted, ListedWallets, SharesFetched, WritePlaces, ReadPlaces, DeletePlaces

LEMMA InVerification ==
    ASSUME pc' \in ReadPlaces, flow' = "verify", target' \in Names,
           pc' = "read" => k' \in Cards, ReadBack'
    PROVE  SyncFlow'
BY DEF SyncFlow, FlowAt, AtCreation, NewWallet, NotYetInFlash, InFlash,
       BeingDeleted, ListedWallets, SharesFetched, WritePlaces, ReadPlaces, DeletePlaces

LEMMA InCreation ==
    ASSUME pc' \in WritePlaces \cup ReadPlaces, flow' = "create", target' \in Names,
           k' \in Cards, NewWallet', NotYetInFlash', InFlash'
    PROVE  SyncFlow'
BY DEF SyncFlow, FlowAt, ReadBack,
       BeingDeleted, ListedWallets, SharesFetched, WritePlaces, ReadPlaces, DeletePlaces

LEMMA InList ==
    ASSUME pc' \in {"sync_add", "sync_next"}, pc' = "sync_add" => k' \in Cards,
           ListedWallets'
    PROVE  SyncFlow'
BY DEF SyncFlow, FlowAt, AtCreation, NewWallet, NotYetInFlash, InFlash, ReadBack,
       BeingDeleted, SharesFetched, WritePlaces, ReadPlaces, DeletePlaces

LEMMA InTaps ==
    ASSUME pc' \in {"sync_tap", "sync_put", "sync_state"}, target' \in Names,
           SharesFetched'
    PROVE  SyncFlow'
BY DEF SyncFlow, FlowAt, AtCreation, NewWallet, NotYetInFlash, InFlash, ReadBack,
       BeingDeleted, ListedWallets, WritePlaces, ReadPlaces, DeletePlaces

-----------------------------------------------------------------------------
(* Steps that leave the slots and the cards alone. *)

LEMMA SlotsAndCardsKept ==
    ASSUME SyncStored, UNCHANGED <<flash, count, cards>>
    PROVE  SyncStored'
BY DEF SyncStored, SlotsConsistent, SlotsNamed, CardsApart, Filled, Holds

LEMMA NamesKept ==
    ASSUME UNCHANGED flash
    PROVE  /\ FirstEmpty' = FirstEmpty
           /\ \A s \in Slots : (Filled(s))' <=> Filled(s)
           /\ \A n : (NameTaken(n))' <=> NameTaken(n)
           /\ \A n : \A s \in Slots : (Named(s, n))' <=> Named(s, n)
BY DEF FirstEmpty, Filled, NameTaken, Named

LEMMA NothingTyped == NoWallet \in Wallet /\ NoShare \in Holding
                      /\ NoShares \in [{Device} \cup Cards -> Holding]
BY DEF NoWallet, Wallet, States, NoShare, Holding, NoShares

(* A flow that ends: what it stored is what has to be looked at. *)
LEMMA FlowEnds ==
    ASSUME SyncTypeOK, EndFlow, SyncStored', UNCHANGED nextGen,
           flash' \in [Slots -> Wallet], count' \in Nat, sec' \in [Slots -> Holding],
           cards' \in [Cards -> [Names -> Holding]],
           toAdd' \subseteq Names, cursor' \in 1..(MaxWallets + 1)
    PROVE  SyncInv'
<1>1. SyncFlow'
  BY InMenu DEF EndFlow
<1>2. SyncTypeOK'
  BY NothingTyped, BoundsAssumption
     DEF EndFlow, SyncTypeOK, DataTypeOK, Places, Flows
<1>3. QED
  BY <1>1, <1>2 DEF SyncInv

LEMMA FlowEndsUnsaved ==
    ASSUME SyncInv, EndFlow, UNCHANGED <<flash, count, sec, cards, nextGen, toAdd>>,
           cursor' \in {1, cursor}
    PROVE  SyncInv'
<1>1. SyncStored'
  BY SlotsAndCardsKept DEF SyncInv
<1>2. QED
  BY <1>1, FlowEnds, BoundsAssumption DEF SyncInv, SyncTypeOK, DataTypeOK

(* A new wallet enters the flow with a name and a seed not in flash. *)
LEMMA CreateStartSync ==
    ASSUME SyncInv, NEW n \in Names, NEW i \in Ids, CreateStart(n, i), UNCHANGED syncRam
    PROVE  SyncInv'
<1>1. SyncStored'
  BY SlotsAndCardsKept DEF SyncInv, CreateStart, stored
<1>2. SyncTypeOK'
  <2>1. w' \in Wallet
    BY NoneAssumption DEF CreateStart, NoWallet, Wallet, States
  <2>2. shares' \in [{Device} \cup Cards -> Holding]
    BY DEF CreateStart, SyncInv, SyncTypeOK, DataTypeOK, Holding, Share
  <2>3. nextGen' \in 1..(MaxGen + 1)
    BY BoundsAssumption DEF CreateStart, SyncInv, SyncTypeOK, DataTypeOK
  <2>4. QED
    BY <2>1, <2>2, <2>3
       DEF CreateStart, SyncInv, SyncTypeOK, DataTypeOK, stored, syncRam, Places, Flows
<1>3. Unsaved' /\ k' = 1 /\ k' \in Cards
  BY BoundsAssumption DEF CreateStart, Unsaved, SyncInv, SyncFlow, FlowAt, Cards
<1>4. NewWallet' /\ NotYetInFlash' /\ InFlash'
  <2>1. w'.name = n /\ w'.id = i /\ w'.attempted = {} /\ shares'[Device].id = i
    BY DEF CreateStart, NoWallet
  <2>2. QED
    BY <1>3, <2>1, NamesKept
       DEF CreateStart, NewWallet, NotYetInFlash, InFlash, stored
<1>5. SyncFlow'
  BY <1>3, <1>4, InCreation DEF CreateStart, WritePlaces
<1>6. QED
  BY <1>1, <1>2, <1>5 DEF SyncInv

(* The vault's share lies where the slot is going to be. *)
LEMMA SaveShareToDeviceSync ==
    ASSUME SyncInv, SaveShareToDevice, UNCHANGED syncRam
    PROVE  SyncInv'
<1>1. flow = "create" /\ target \in Names /\ NewWallet /\ NotYetInFlash /\ Unsaved /\ AtCreation
  BY DEF SaveShareToDevice, SyncInv, SyncFlow, FlowAt, WritePlaces, Unsaved, AtCreation
<1>2. /\ ~NameTaken(w.name) /\ (\E s \in Slots : ~Filled(s)) /\ k = 1 /\ w.attempted = {}
      /\ w.name = target /\ w.id \in Ids /\ shares[Device].id = w.id
      /\ \A s \in Slots : Filled(s) => flash[s].id # w.id
  BY <1>1 DEF NewWallet, NotYetInFlash
<1>3. FirstEmpty \in Slots /\ ~Filled(FirstEmpty)
  BY <1>2, FirstEmptyIsEmpty, BoundsAssumption
<1>4. count # MaxWallets
  BY <1>3, RoomLeft, BoundsAssumption
     DEF SyncInv, SyncStored, SlotsConsistent, SyncTypeOK, DataTypeOK
<1>5. sec' = [sec EXCEPT ![FirstEmpty] = shares[Device]]
  BY <1>2, <1>3, <1>4 DEF SaveShareToDevice, AddShareToSecFlash
<1>6. UNCHANGED <<flash, count, cards, nextGen, k, flow, target, w, idx, shares,
                  toAdd, cursor>>
  BY DEF SaveShareToDevice, ram, syncRam
<1>7. sec' \in [Slots -> Holding] /\ sec'[FirstEmpty] = shares[Device]
  BY <1>3, <1>5 DEF SyncInv, SyncTypeOK, DataTypeOK
<1>8. SyncStored'
  BY <1>6, SlotsAndCardsKept DEF SyncInv
<1>9. SyncTypeOK'
  BY <1>6, <1>7 DEF SaveShareToDevice, SyncInv, SyncTypeOK, DataTypeOK, Places
<1>10. NewWallet' /\ NotYetInFlash' /\ InFlash'
  <2>1. Unsaved' /\ FirstEmpty' = FirstEmpty /\ pc' = "write"
    BY <1>2, <1>6, NamesKept DEF SaveShareToDevice, Unsaved
  <2>2. QED
    BY <1>1, <1>2, <1>6, <1>7, <2>1, NamesKept DEF NewWallet, NotYetInFlash, InFlash
<1>11. SyncFlow'
  <2>1. k' \in Cards
    BY <1>2, <1>6, BoundsAssumption DEF Cards
  <2>2. QED
    BY <1>1, <1>6, <1>10, <2>1, InCreation DEF SaveShareToDevice, WritePlaces
<1>12. QED
  BY <1>8, <1>9, <1>11 DEF SyncInv

-----------------------------------------------------------------------------
(* Steps that save a slot. *)

(* A filled slot that keeps its name and id. *)
LEMMA SlotResaved ==
    ASSUME SyncTypeOK, SyncStored, NEW s \in Slots, Filled(s), NEW x \in Wallet,
           flash' = [flash EXCEPT ![s] = x], UNCHANGED <<count, cards>>,
           x.state # "default", x.name = flash[s].name, x.id = flash[s].id
    PROVE  /\ SyncStored' /\ flash' \in [Slots -> Wallet] /\ flash'[s] = x
           /\ \A t \in Slots \ {s} : flash'[t] = flash[t]
           /\ \A n : (NameTaken(n))' <=> NameTaken(n)
           /\ \A n : \A t \in Slots : (Named(t, n))' <=> Named(t, n)
           /\ \A t \in Slots : (Filled(t))' <=> Filled(t)
           /\ \A t \in Slots : flash'[t].id = flash[t].id
<1>1. flash' \in [Slots -> Wallet] /\ flash'[s] = x
      /\ \A t \in Slots \ {s} : flash'[t] = flash[t]
  BY DEF SyncTypeOK, DataTypeOK
<1>2. \A t \in Slots : /\ (Filled(t))' <=> Filled(t)
                       /\ flash'[t].name = flash[t].name /\ flash'[t].id = flash[t].id
  BY <1>1 DEF Filled
<1>3. \A n : \A t \in Slots : (Named(t, n))' <=> Named(t, n)
  BY <1>2 DEF Named
<1>4. SlotsConsistent'
  <2>1. {t \in Slots : (Filled(t))'} = {t \in Slots : Filled(t)}
    BY <1>2
  <2>2. count' = Cardinality({t \in Slots : (Filled(t))'})
    BY <2>1 DEF SyncStored, SlotsConsistent
  <2>3. QED
    BY <1>2, <2>2 DEF SyncStored, SlotsConsistent
<1>5. SlotsNamed' /\ CardsApart'
  BY <1>2 DEF SyncStored, SlotsNamed, CardsApart, Holds
<1>6. QED
  BY <1>1, <1>2, <1>3, <1>4, <1>5 DEF SyncStored, NameTaken

(* An empty slot that gets a new name and a new id. *)
LEMMA SlotAdded ==
    ASSUME SyncTypeOK, SyncStored, NEW s \in Slots, ~Filled(s), NEW x \in Wallet,
           flash' = [flash EXCEPT ![s] = x], count' = count + 1, UNCHANGED cards,
           x.state # "default", x.name \in Names, x.id \in Ids,
           ~NameTaken(x.name), \A t \in Slots : Filled(t) => flash[t].id # x.id
    PROVE  /\ SyncStored' /\ flash' \in [Slots -> Wallet] /\ count' \in Nat
           /\ flash'[s] = x
           /\ \A t \in Slots : (Filled(t))' <=> Filled(t) \/ t = s
           /\ \A t \in Slots \ {s} : flash'[t] = flash[t]
<1>1. flash' \in [Slots -> Wallet] /\ flash'[s] = x
      /\ \A t \in Slots \ {s} : flash'[t] = flash[t]
  BY DEF SyncTypeOK, DataTypeOK
<1>2. \A t \in Slots : (Filled(t))' <=> Filled(t) \/ t = s
  BY <1>1 DEF Filled
<1> DEFINE F == {t \in Slots : Filled(t)}
<1>3. IsFiniteSet(F) /\ s \notin F
  <2>1. IsFiniteSet(Slots)
    BY FS_Interval, BoundsAssumption DEF Slots
  <2>2. F \in SUBSET Slots
    OBVIOUS
  <2>3. QED
    BY <2>1, <2>2, FS_Subset
<1>4. Cardinality(F) \in Nat /\ Cardinality(F \cup {s}) = Cardinality(F) + 1
  BY <1>3, FS_AddElement, FS_CardinalityType
<1>5. {t \in Slots : (Filled(t))'} = F \cup {s}
  BY <1>2
<1>6. count' = Cardinality({t \in Slots : (Filled(t))'}) /\ count' \in Nat
  <2>1. count' = Cardinality(F) + 1
    BY DEF SyncStored, SlotsConsistent
  <2>2. Cardinality({t \in Slots : (Filled(t))'}) = Cardinality(F \cup {s})
    BY <1>5
  <2>3. QED
    BY <1>4, <2>1, <2>2
<1>7. \A t, u \in Slots : t # u /\ (Filled(t))' /\ (Filled(u))' =>
        flash'[t].name # flash'[u].name /\ flash'[t].id # flash'[u].id
  BY <1>1, <1>2 DEF SyncStored, SlotsConsistent, NameTaken, Named
<1>8. SlotsConsistent'
  BY <1>6, <1>7 DEF SlotsConsistent
<1>9. SlotsNamed' /\ CardsApart'
  BY <1>1, <1>2 DEF SyncStored, SlotsNamed, CardsApart, Holds
<1>10. QED
  BY <1>1, <1>2, <1>6, <1>8, <1>9 DEF SyncStored

(* set_wallet_locked, set_wallet_state and the bits of a card *)
LEMMA SlotUpdated ==
    ASSUME SyncTypeOK, SyncStored, NEW s \in Slots, Filled(s),
           NEW st \in States \ {"default"}, NEW lk \in BOOLEAN,
           NEW wr \in SUBSET Cards, NEW at \in SUBSET Cards,
           flash' = [flash EXCEPT ![s] = [@ EXCEPT !.state = st, !.locked = lk,
                                                   !.written = wr, !.attempted = at]],
           UNCHANGED <<count, cards>>
    PROVE  /\ SyncStored' /\ flash' \in [Slots -> Wallet] /\ flash'[s].state = st
           /\ \A t \in Slots \ {s} : flash'[t] = flash[t]
           /\ \A n : (NameTaken(n))' <=> NameTaken(n)
           /\ \A n : \A t \in Slots : (Named(t, n))' <=> Named(t, n)
           /\ \A t \in Slots : flash'[t].id = flash[t].id
<1> DEFINE x == [flash[s] EXCEPT !.state = st, !.locked = lk, !.written = wr, !.attempted = at]
<1>1. flash[s] \in Wallet
  BY DEF SyncTypeOK, DataTypeOK
<1>2. /\ x \in Wallet /\ x.state = st /\ st # "default"
      /\ x.name = flash[s].name /\ x.id = flash[s].id
  BY <1>1 DEF Wallet
<1>3. flash' = [flash EXCEPT ![s] = x]
  OBVIOUS
<1> HIDE DEF x
<1>4. QED
  BY <1>2, <1>3, SlotResaved

(* The state of a slot alone *)
LEMMA StateUpdated ==
    ASSUME SyncTypeOK, SyncStored, NEW s \in Slots, Filled(s),
           NEW st \in States \ {"default"},
           flash' = [flash EXCEPT ![s].state = st], UNCHANGED <<count, cards>>
    PROVE  /\ SyncStored' /\ flash' \in [Slots -> Wallet] /\ flash'[s].state = st
           /\ \A t \in Slots \ {s} : flash'[t] = flash[t]
           /\ \A n : (NameTaken(n))' <=> NameTaken(n)
           /\ \A n : \A t \in Slots : (Named(t, n))' <=> Named(t, n)
           /\ \A t \in Slots : flash'[t].id = flash[t].id
<1> DEFINE x == [flash[s] EXCEPT !.state = st]
<1>1. flash[s] \in Wallet
  BY DEF SyncTypeOK, DataTypeOK
<1>2. /\ x \in Wallet /\ x.state = st /\ x.state # "default"
      /\ x.name = flash[s].name /\ x.id = flash[s].id
  BY <1>1 DEF Wallet
<1>3. flash' = [flash EXCEPT ![s] = x]
  OBVIOUS
<1> HIDE DEF x
<1>4. QED
  BY <1>2, <1>3, SlotResaved

(* A card that stores a share it does not refuse, or none. *)
LEMMA CardStores ==
    ASSUME SyncTypeOK, SyncStored, NEW c \in Cards, NEW n \in Names, NEW sh \in Holding,
           StoreOnCard(c, n, sh), sh = NoShare \/ ~Refuses(c, n, sh),
           UNCHANGED <<flash, count>>
    PROVE  SyncStored' /\ cards' \in [Cards -> [Names -> Holding]]
<1>1. /\ cards' \in [Cards -> [Names -> Holding]] /\ cards'[c][n] = sh
      /\ \A d \in Cards, m \in Names : d # c \/ m # n => cards'[d][m] = cards[d][m]
  BY DEF StoreOnCard, SyncTypeOK, DataTypeOK
<1>2. \A d \in Cards, m \in Names : cards[d][m] # NoShare => cards[d][m].id # None
  BY NoneAssumption DEF SyncTypeOK, DataTypeOK, Holding, Share
<1>3. sh # NoShare => sh.id # None
  BY NoneAssumption DEF Holding, Share
<1>4. CardsApart'
  <2>1. SUFFICES ASSUME NEW d \in Cards, NEW m \in Names, NEW o \in Names, m # o,
                        cards'[d][m] # NoShare
                 PROVE  cards'[d][m].id # cards'[d][o].id
    BY DEF CardsApart, Holds
  <2>2. CASE d # c \/ (m # n /\ o # n)
    BY <1>1, <2>1, <2>2 DEF SyncStored, CardsApart, Holds
  <2>3. CASE d = c /\ o = n
    <3>1. cards[d][m] # NoShare /\ cards'[d][m] = cards[d][m] /\ cards'[d][o] = sh
      BY <1>1, <2>1, <2>3
    <3>2. sh = NoShare => sh.id = None
      BY DEF NoShare
    <3>3. QED
      BY <1>2, <2>3, <3>1, <3>2 DEF Refuses, Holds
  <2>4. CASE d = c /\ m = n
    <3>1. sh # NoShare /\ cards'[d][o] = cards[d][o] /\ cards'[d][m] = sh
      BY <1>1, <2>1, <2>4
    <3>2. cards[d][o] = NoShare => cards[d][o].id = None
      BY DEF NoShare
    <3>3. QED
      BY <1>3, <2>4, <3>1, <3>2 DEF Refuses, Holds
  <2>5. QED
    BY <2>2, <2>3, <2>4
<1>5. SlotsConsistent' /\ SlotsNamed'
  BY DEF SyncStored, SlotsConsistent, SlotsNamed, Filled
<1>6. QED
  BY <1>1, <1>4, <1>5 DEF SyncStored

-----------------------------------------------------------------------------
(* The steps of a creation. *)

(* A creation whose wallet is in flash. *)
LEMMA OnFlash ==
    ASSUME SyncInv, AtCreation, ~Unsaved
    PROVE  /\ NewWallet /\ InFlash /\ target \in Names
           /\ idx \in Slots /\ Named(idx, target) /\ Filled(idx)
           /\ flash[idx].name = w.name /\ flash[idx].id = w.id /\ w.name = target
           /\ w \in Wallet /\ w.state = "unverified"
<1>1. NewWallet /\ InFlash /\ target \in Names
  BY DEF SyncInv, SyncFlow, FlowAt, AtCreation
<1>2. idx \in Slots /\ w \in Wallet
  BY DEF SyncInv, SyncTypeOK, DataTypeOK
<1>3. QED
  BY <1>1, <1>2 DEF NewWallet, InFlash, Named, Filled

(* The first attempt takes the slot whose share was saved before. *)
LEMMA FirstAttemptSync ==
    ASSUME SyncInv, RecordWriteAttempt, Unsaved, UNCHANGED syncRam
    PROVE  SyncInv'
<1>1. /\ pc = "write" /\ flow = "create" /\ k = 1 /\ w.attempted = {} /\ pc' = "add"
      /\ NewWallet /\ NotYetInFlash /\ AtCreation /\ target \in Names
  BY DEF RecordWriteAttempt, Unsaved, SyncInv, SyncFlow, FlowAt, WritePlaces, AtCreation
<1>2. /\ ~NameTaken(w.name) /\ (\E s \in Slots : ~Filled(s)) /\ w.name = target
      /\ w.id \in Ids /\ shares[Device].id = w.id /\ sec[FirstEmpty].id = w.id
      /\ \A s \in Slots : Filled(s) => flash[s].id # w.id
  BY <1>1 DEF NewWallet, NotYetInFlash
<1>3. PICK e \in Slots : e = FirstEmpty /\ ~Filled(e)
  BY <1>2, FirstEmptyIsEmpty, BoundsAssumption
<1>4. count # MaxWallets
  BY <1>3, RoomLeft, BoundsAssumption
     DEF SyncInv, SyncStored, SlotsConsistent, SyncTypeOK, DataTypeOK
<1> DEFINE x == WithAttempt(w, 1)
<1>5. /\ x \in Wallet /\ x.state = "unverified" /\ x.name = target /\ x.id = w.id
      /\ x.attempted = {1} /\ 1 \in Cards
  <2>1. 1 \in Cards /\ w \in Wallet
    BY BoundsAssumption DEF Cards, SyncInv, SyncTypeOK, DataTypeOK
  <2>2. x = [w EXCEPT !.attempted = {1}, !.state = "unverified"]
    BY <1>1, <2>1 DEF WithAttempt, Wallet
  <2>3. {1} \in SUBSET Cards
    BY <2>1
  <2>4. QED
    BY <1>2, <2>1, <2>2, <2>3 DEF Wallet, States
<1>6. /\ flash' = [flash EXCEPT ![e] = x] /\ count' = count + 1 /\ idx' = e /\ w' = x
      /\ UNCHANGED <<sec, cards, nextGen, k, flow, target, shares, toAdd, cursor>>
  BY <1>1, <1>2, <1>3, <1>4, <1>5 DEF RecordWriteAttempt, AddWalletToFlash, syncRam
<1> HIDE DEF x
<1>7. /\ SyncStored' /\ flash' \in [Slots -> Wallet] /\ count' \in Nat /\ flash'[e] = x
  <2>1. SyncTypeOK /\ SyncStored /\ x.state # "default" /\ x.name \in Names /\ x.id \in Ids
        /\ ~NameTaken(x.name) /\ \A t \in Slots : Filled(t) => flash[t].id # x.id
    BY <1>1, <1>2, <1>5 DEF SyncInv
  <2>2. UNCHANGED cards
    BY <1>6
  <2>3. QED
    BY <1>3, <1>5, <1>6, <2>1, <2>2, SlotAdded
<1>8. SyncTypeOK'
  BY <1>1, <1>5, <1>6, <1>7 DEF SyncInv, SyncTypeOK, DataTypeOK, Places
<1>9. NewWallet' /\ NotYetInFlash' /\ InFlash'
  <2>1. ~Unsaved'
    BY <1>1 DEF Unsaved
  <2>2. QED
    BY <1>1, <1>2, <1>3, <1>5, <1>6, <1>7, <2>1 DEF NewWallet, NotYetInFlash, InFlash
<1>10. SyncFlow'
  BY <1>1, <1>5, <1>6, <1>9, InCreation DEF WritePlaces
<1>11. QED
  BY <1>7, <1>8, <1>10 DEF SyncInv

(* A later one saves wallet_for_flash over its own slot. *)
LEMMA PutSync ==
    ASSUME SyncInv, AtCreation, ~Unsaved, NEW x \in Wallet, PutWalletFlash(idx, x),
           x.state = "unverified", x.name = w.name, x.id = w.id, UNCHANGED cards
    PROVE  /\ SyncStored' /\ flash' \in [Slots -> Wallet] /\ count' \in Nat
           /\ flash' = [flash EXCEPT ![idx] = x] /\ flash'[idx] = x
<1>1. /\ idx \in Slots /\ Named(idx, target) /\ Filled(idx)
      /\ flash[idx].name = w.name /\ flash[idx].id = w.id /\ w.name = target
  BY OnFlash
<1>2. flash' = [flash EXCEPT ![idx] = x] /\ count' = count
  BY <1>1 DEF PutWalletFlash, Named, SyncInv, SyncStored, SlotsConsistent
<1>3. SyncTypeOK /\ SyncStored /\ x.state # "default"
      /\ x.name = flash[idx].name /\ x.id = flash[idx].id /\ UNCHANGED <<count, cards>>
  BY <1>1, <1>2 DEF SyncInv
<1>4. SyncStored' /\ flash' \in [Slots -> Wallet] /\ flash'[idx] = x
  BY <1>1, <1>2, <1>3, SlotResaved
<1>5. QED
  BY <1>2, <1>3, <1>4 DEF SyncTypeOK, DataTypeOK

LEMMA RecordWriteAttemptSync ==
    ASSUME SyncInv, RecordWriteAttempt, UNCHANGED syncRam
    PROVE  SyncInv'
<1>1. /\ pc = "write" /\ flow = "create" /\ pc' = "add" /\ k \in Cards /\ AtCreation
      /\ UNCHANGED <<sec, cards, nextGen, k, flow, target, shares, toAdd, cursor>>
  BY DEF RecordWriteAttempt, SyncInv, SyncFlow, FlowAt, WritePlaces, AtCreation, syncRam
<1>2. CASE Unsaved
  BY <1>2, FirstAttemptSync
<1>3. CASE ~Unsaved
  <2>1. /\ NewWallet /\ InFlash /\ target \in Names /\ idx \in Slots
        /\ w \in Wallet /\ w.state = "unverified" /\ w.name = target
    BY <1>1, <1>3, OnFlash
  <2>2. ~Unsaved'
    BY <1>1 DEF Unsaved
  <2>3. CASE k \in w.attempted
    <3>1. UNCHANGED <<flash, count, w, idx>>
      BY <2>3 DEF RecordWriteAttempt
    <3>2. SyncStored'
      BY <1>1, <3>1, SlotsAndCardsKept DEF SyncInv
    <3>3. SyncTypeOK'
      BY <1>1, <3>1 DEF SyncInv, SyncTypeOK, DataTypeOK, Places
    <3>4. NewWallet' /\ NotYetInFlash' /\ InFlash'
      BY <1>1, <1>3, <2>1, <2>2, <2>3, <3>1 DEF NewWallet, NotYetInFlash, InFlash
    <3>5. SyncFlow'
      BY <1>1, <2>1, <3>4, InCreation DEF WritePlaces
    <3>6. QED
      BY <3>2, <3>3, <3>5 DEF SyncInv
  <2>4. CASE k \notin w.attempted
    <3>1. w.attempted = {} /\ k # 1
      BY <1>1, <1>3, <2>1, <2>4 DEF NewWallet, Unsaved
    <3> DEFINE x == WithAttempt(w, k)
    <3>2. /\ x \in Wallet /\ x.state = "unverified" /\ x.name = w.name /\ x.id = w.id
          /\ x.attempted = {k}
      <4>1. x = [w EXCEPT !.attempted = {k}]
        BY <2>1, <3>1 DEF WithAttempt, Wallet
      <4>2. {k} \in SUBSET Cards
        BY <1>1
      <4>3. QED
        BY <2>1, <4>1, <4>2 DEF Wallet
    <3>3. w' = x /\ PutWalletFlash(idx, x) /\ UNCHANGED idx
      BY <2>4, <3>1 DEF RecordWriteAttempt
    <3> HIDE DEF x
    <3>4. /\ SyncStored' /\ flash' \in [Slots -> Wallet] /\ count' \in Nat
          /\ flash'[idx] = x
      BY <1>1, <1>3, <3>2, <3>3, PutSync
    <3>5. SyncTypeOK'
      BY <1>1, <3>2, <3>3, <3>4 DEF SyncInv, SyncTypeOK, DataTypeOK, Places
    <3>6. NewWallet' /\ NotYetInFlash' /\ InFlash'
      BY <1>1, <1>3, <2>1, <2>2, <3>2, <3>3, <3>4 DEF NewWallet, NotYetInFlash, InFlash
    <3>7. SyncFlow'
      BY <1>1, <2>1, <3>6, InCreation DEF WritePlaces
    <3>8. QED
      BY <3>4, <3>5, <3>7 DEF SyncInv
  <2>5. QED
    BY <2>3, <2>4
<1>4. QED
  BY <1>2, <1>3

(* Whatever the card did with an attempt that is on record. *)
LEMMA AttemptEnds ==
    ASSUME SyncInv, pc = "add", pc' \in {"write", "post"}, SyncStored',
           cards' \in [Cards -> [Names -> Holding]],
           UNCHANGED <<stored, nextGen, k, ram, syncRam>>
    PROVE  SyncInv'
<1>1. /\ flow = "create" /\ AtCreation /\ ~Unsaved /\ target \in Names /\ k \in Cards
      /\ NewWallet /\ InFlash /\ k \in w.attempted
  BY DEF SyncInv, SyncFlow, FlowAt, AtCreation, WritePlaces, Unsaved, NewWallet
<1>2. UNCHANGED <<flash, count, sec, nextGen, k, flow, target, w, idx, shares, toAdd,
                  cursor>>
  BY DEF stored, ram, syncRam
<1>3. ~Unsaved'
  BY <1>1, <1>2 DEF Unsaved
<1>4. NewWallet' /\ NotYetInFlash' /\ InFlash'
  BY <1>1, <1>2, <1>3 DEF NewWallet, NotYetInFlash, InFlash
<1>5. SyncFlow'
  BY <1>1, <1>2, <1>4, InCreation DEF WritePlaces
<1>6. SyncTypeOK'
  BY <1>2 DEF SyncInv, SyncTypeOK, DataTypeOK, Places
<1>7. QED
  BY <1>5, <1>6 DEF SyncInv

LEMMA ShareStored ==
    ASSUME SyncInv, pc = "add", ~Refuses(k, target, shares[k]),
           StoreOnCard(k, target, shares[k]), UNCHANGED stored
    PROVE  SyncStored' /\ cards' \in [Cards -> [Names -> Holding]]
<1>1. k \in Cards /\ target \in Names /\ shares[k] \in Holding
  BY DEF SyncInv, SyncFlow, FlowAt, WritePlaces, SyncTypeOK, DataTypeOK
<1>2. QED
  BY <1>1, CardStores DEF SyncInv, stored

LEMMA AddWalletSync ==
    ASSUME SyncInv, AddWalletAcked \/ AddWalletAnswerLost \/ AddWalletNotDone,
           UNCHANGED syncRam
    PROVE  SyncInv'
<1>1. CASE AddWalletAcked
  BY <1>1, ShareStored, AttemptEnds DEF AddWalletAcked
<1>2. CASE AddWalletNotDone
  <2>1. SyncStored' /\ cards' \in [Cards -> [Names -> Holding]]
    BY <1>2, SlotsAndCardsKept
       DEF AddWalletNotDone, SyncInv, stored, SyncTypeOK, DataTypeOK
  <2>2. QED
    BY <1>2, <2>1, AttemptEnds DEF AddWalletNotDone
<1>3. CASE AddWalletAnswerLost
  <2>1. SyncStored' /\ cards' \in [Cards -> [Names -> Holding]]
    BY <1>3, ShareStored DEF AddWalletAnswerLost
  <2>2. CASE EndFlow
    BY <1>3, <2>1, <2>2, FlowEnds
       DEF AddWalletAnswerLost, SyncInv, SyncTypeOK, DataTypeOK, stored, syncRam
  <2>3. CASE pc' = "write" /\ UNCHANGED <<k, ram>>
    BY <1>3, <2>1, <2>3, AttemptEnds DEF AddWalletAnswerLost
  <2>4. QED
    BY <1>3, <2>2, <2>3 DEF AddWalletAnswerLost
<1>4. QED
  BY <1>1, <1>2, <1>3

LEMMA AbandonCreateSync ==
    ASSUME SyncInv, AbandonCreate, UNCHANGED syncRam PROVE SyncInv'
BY FlowEndsUnsaved DEF AbandonCreate, stored, syncRam

LEMMA WriteSharePostProcessSync ==
    ASSUME SyncInv, WriteSharePostProcess, UNCHANGED syncRam
    PROVE  SyncInv'
<1>1. /\ pc = "post" /\ flow = "create" /\ pc' = "read" /\ k \in Cards
      /\ AtCreation /\ ~Unsaved /\ ~Unsaved'
      /\ UNCHANGED <<sec, cards, nextGen, k, flow, target, idx, toAdd, cursor>>
  BY DEF WriteSharePostProcess, SyncInv, SyncFlow, FlowAt, WritePlaces, AtCreation,
         Unsaved, syncRam
<1>2. /\ NewWallet /\ InFlash /\ target \in Names /\ idx \in Slots
      /\ w \in Wallet /\ w.state = "unverified" /\ w.name = target
  BY <1>1, OnFlash
<1> DEFINE x == Written(w, k)
<1>3. /\ x \in Wallet /\ x.state = "unverified" /\ x.name = w.name /\ x.id = w.id
      /\ x.attempted = {}
  <2>1. /\ x.state = "unverified" /\ x.name = w.name /\ x.id = w.id
        /\ x.attempted = {}
    BY <1>2 DEF Written, Wallet
  <2>2. x \in Wallet
    BY <1>1, <1>2 DEF Written, Wallet
  <2>3. QED
    BY <2>1, <2>2
<1>4. w' = x /\ PutWalletFlash(idx, x) /\ shares' = [shares EXCEPT ![k] = NoShare]
  BY DEF WriteSharePostProcess
<1> HIDE DEF x
<1>5. /\ SyncStored' /\ flash' \in [Slots -> Wallet] /\ count' \in Nat
      /\ flash'[idx] = x
  BY <1>1, <1>3, <1>4, PutSync
<1>6. shares' \in [{Device} \cup Cards -> Holding] /\ shares'[Device] = shares[Device]
  BY <1>1, <1>4, NothingTyped DEF SyncInv, SyncTypeOK, DataTypeOK, Cards
<1>7. SyncTypeOK'
  BY <1>1, <1>3, <1>4, <1>5, <1>6 DEF SyncInv, SyncTypeOK, DataTypeOK, Places
<1>8. NewWallet' /\ NotYetInFlash' /\ InFlash'
  BY <1>1, <1>2, <1>3, <1>4, <1>5, <1>6 DEF NewWallet, NotYetInFlash, InFlash
<1>9. SyncFlow'
  BY <1>1, <1>2, <1>8, InCreation DEF ReadPlaces
<1>10. QED
  BY <1>5, <1>7, <1>9 DEF SyncInv

-----------------------------------------------------------------------------
(* The steps that read shares back. *)

LEMMA VerifyStartSync ==
    ASSUME SyncInv, NEW s \in Slots, VerifyStart(s), UNCHANGED syncRam
    PROVE  SyncInv'
<1>1. /\ target' = flash[s].name /\ target' \in Names /\ k' = 1 /\ k' \in Cards
      /\ shares' = NoShares /\ flow' = "verify" /\ pc' = "read"
      /\ UNCHANGED <<flash, count, sec, cards, nextGen, k, w, idx, shares, toAdd,
                     cursor>>
  BY BoundsAssumption
     DEF VerifyStart, SyncInv, SyncStored, SlotsNamed, Filled, SyncFlow, FlowAt, Cards,
         stored, syncRam
<1>2. SyncStored'
  BY <1>1, SlotsAndCardsKept DEF SyncInv
<1>3. SyncTypeOK'
  BY <1>1 DEF SyncInv, SyncTypeOK, DataTypeOK, Places, Flows
<1>4. ReadBack'
  BY <1>1 DEF ReadBack, NoShares
<1>5. SyncFlow'
  BY <1>1, <1>4, InVerification DEF ReadPlaces
<1>6. QED
  BY <1>2, <1>3, <1>5 DEF SyncInv

LEMMA ReadCardShareSync ==
    ASSUME SyncInv, ReadCardShare, UNCHANGED syncRam
    PROVE  SyncInv'
<1>1. /\ pc = "read" /\ k \in Cards /\ target \in Names /\ flow \in {"create", "verify"}
      /\ shares' = [shares EXCEPT ![k] = cards[k][target]]
      /\ UNCHANGED <<flash, count, sec, cards, nextGen, flow, target, w, idx, toAdd,
                     cursor>>
  BY DEF ReadCardShare, SyncInv, SyncFlow, FlowAt, ReadPlaces, stored, syncRam
<1>2. \/ pc' = "load" /\ k' = 1
      \/ pc' = (IF flow = "create" THEN "write" ELSE "read") /\ k' = k + 1 /\ k # NumCards
  BY DEF ReadCardShare
<1>3. k' \in Cards /\ pc' \in Places
  BY <1>1, <1>2, BoundsAssumption DEF Cards, Places
<1>4. shares' \in [{Device} \cup Cards -> Holding] /\ shares'[Device] = shares[Device]
  <2>1. cards[k][target] \in Holding
    BY <1>1 DEF SyncInv, SyncTypeOK, DataTypeOK
  <2>2. QED
    BY <1>1, <2>1 DEF SyncInv, SyncTypeOK, DataTypeOK, Cards
<1>5. SyncStored'
  BY <1>1, SlotsAndCardsKept DEF SyncInv
<1>6. SyncTypeOK'
  BY <1>1, <1>3, <1>4, BoundsAssumption DEF SyncInv, SyncTypeOK, DataTypeOK, Cards
<1>7. CASE flow = "create"
  <2>1. AtCreation /\ ~Unsaved /\ NewWallet /\ InFlash
    BY <1>1, <1>7 DEF AtCreation, ReadPlaces, Unsaved, SyncInv, SyncFlow
  <2>2. ~Unsaved' /\ pc' \in {"load", "write"}
    BY <1>1, <1>2, <1>7 DEF Unsaved, Cards
  <2>3. NewWallet' /\ NotYetInFlash' /\ InFlash'
    BY <1>1, <1>4, <2>1, <2>2 DEF NewWallet, NotYetInFlash, InFlash
  <2>4. SyncFlow'
    BY <1>1, <1>3, <1>7, <2>2, <2>3, InCreation DEF ReadPlaces, WritePlaces
  <2>5. QED
    BY <1>5, <1>6, <2>4 DEF SyncInv
<1>8. CASE flow = "verify"
  <2>1. ReadBack /\ pc' \in {"load", "read"}
    BY <1>2, <1>8 DEF SyncInv, SyncFlow
  <2>2. ReadBack'
    BY <1>1, <1>4, <1>8, <2>1 DEF ReadBack, ReadPlaces, Named, Filled, ShareNotPresent
  <2>3. SyncFlow'
    BY <1>1, <1>3, <1>8, <2>1, <2>2, InVerification DEF ReadPlaces
  <2>4. QED
    BY <1>5, <1>6, <2>3 DEF SyncInv
<1>9. QED
  BY <1>1, <1>7, <1>8

LEMMA ReadCardFailsSync ==
    ASSUME SyncInv, ReadCardFails, UNCHANGED syncRam PROVE SyncInv'
BY FlowEndsUnsaved DEF ReadCardFails, stored, syncRam

(* The lock a card asked for, where no slot has the name as well. *)
LEMMA LockKept ==
    ASSUME SyncInv, SetLocked(target), UNCHANGED <<count, cards>>
    PROVE  /\ SyncStored' /\ flash' \in [Slots -> Wallet]
           /\ \A n : (NameTaken(n))' <=> NameTaken(n)
<1>1. CASE NameTaken(target)
  <2>1. PICK s \in Slots : Named(s, target) /\ IndexByName(target) = s
    BY <1>1, SlotOfName DEF SyncInv, SyncStored
  <2>2. flash[s] \in Wallet /\ flash \in [Slots -> Wallet]
    BY DEF SyncInv, SyncTypeOK, DataTypeOK
  <2>3. flash' = [flash EXCEPT ![s] =
                    [@ EXCEPT !.state = flash[s].state, !.locked = TRUE,
                              !.written = flash[s].written,
                              !.attempted = flash[s].attempted]]
    BY <1>1, <2>1, <2>2 DEF SetLocked, Wallet
  <2>4. flash[s].state \in States \ {"default"} /\ flash[s].written \in SUBSET Cards
        /\ flash[s].attempted \in SUBSET Cards /\ TRUE \in BOOLEAN
    BY <2>1, <2>2 DEF Wallet, Named, Filled
  <2>5. Filled(s) /\ SyncTypeOK /\ SyncStored
    BY <2>1 DEF Named, SyncInv
  <2>6. QED
    BY <2>3, <2>4, <2>5, SlotUpdated
<1>2. CASE ~NameTaken(target)
  BY <1>2, SlotsAndCardsKept, NamesKept
     DEF SetLocked, SyncInv, SyncTypeOK, DataTypeOK
<1>3. QED
  BY <1>1, <1>2

LEMMA ReadCardLockedSync ==
    ASSUME SyncInv, ReadCardLocked, UNCHANGED syncRam PROVE SyncInv'
<1>1. SyncStored' /\ flash' \in [Slots -> Wallet]
  BY LockKept DEF ReadCardLocked
<1>2. QED
  BY <1>1, FlowEnds DEF ReadCardLocked, SyncInv, SyncTypeOK, DataTypeOK, syncRam

(* A creation finds the share it saved, a verification may find none. *)
LEMMA LoadDeviceShareSync ==
    ASSUME SyncInv, LoadDeviceShare, UNCHANGED syncRam
    PROVE  SyncInv'
<1>1. /\ pc = "load" /\ pc' = "set_state" /\ target \in Names
      /\ flow \in {"create", "verify"}
      /\ UNCHANGED <<count, sec, cards, nextGen, k, flow, target, w, idx, toAdd,
                     cursor>>
  BY DEF LoadDeviceShare, SyncInv, SyncFlow, FlowAt, ReadPlaces, syncRam
<1> DEFINE s == IndexByName(target)
<1>2. \/ /\ ~NameTaken(target) \/ ShareNotPresent(s)
         /\ UNCHANGED <<flash, shares>>
      \/ /\ NameTaken(target) /\ ~ShareNotPresent(s) /\ SecShareMatches(s)
         /\ shares' = [shares EXCEPT ![Device] = sec[s]] /\ UNCHANGED flash
      \/ /\ NameTaken(target) /\ ~ShareNotPresent(s) /\ ~SecShareMatches(s)
         /\ flash' = [flash EXCEPT ![s].state = "no_device_share"] /\ UNCHANGED shares
  BY DEF LoadDeviceShare
<1>3. NameTaken(target) =>
        /\ s \in Slots /\ Named(s, target) /\ Filled(s)
        /\ \A t \in Slots : Named(t, target) => t = s
  BY SlotOfName DEF SyncInv, SyncStored, Named
<1>4. /\ shares \in [{Device} \cup Cards -> Holding] /\ sec \in [Slots -> Holding]
      /\ flash \in [Slots -> Wallet] /\ SyncTypeOK /\ SyncStored
  BY DEF SyncInv, SyncTypeOK, DataTypeOK
<1> HIDE DEF s
<1>5. shares' \in [{Device} \cup Cards -> Holding]
  BY <1>2, <1>3, <1>4
<1>6. /\ SyncStored' /\ flash' \in [Slots -> Wallet]
      /\ \A n : \A t \in Slots : (Named(t, n))' <=> Named(t, n)
  <2>1. CASE UNCHANGED flash
    BY <1>1, <1>4, <2>1, SlotsAndCardsKept, NamesKept
  <2>2. CASE NameTaken(target) /\ flash' = [flash EXCEPT ![s].state = "no_device_share"]
    <3>1. s \in Slots /\ Filled(s) /\ SyncTypeOK /\ SyncStored /\ UNCHANGED <<count,
                                                                              cards>>
      BY <1>1, <1>3, <1>4, <2>2
    <3>2. "no_device_share" \in States \ {"default"}
      BY DEF States
    <3>3. QED
      BY <2>2, <3>1, <3>2, StateUpdated
  <2>3. QED
    BY <1>2, <2>1, <2>2
<1>7. SyncTypeOK'
  BY <1>1, <1>4, <1>5, <1>6 DEF SyncTypeOK, DataTypeOK, Places
<1>8. CASE flow = "create"
  <2>1. AtCreation /\ ~Unsaved
    BY <1>1, <1>8 DEF AtCreation, ReadPlaces, Unsaved
  <2>2. /\ NewWallet /\ InFlash /\ idx \in Slots /\ Named(idx, target)
        /\ flash[idx].id = w.id /\ w.name = target /\ w.state = "unverified"
    BY <2>1, OnFlash DEF SyncInv
  <2>3. s = idx /\ sec[idx].id = w.id /\ flash[idx].state = "unverified"
    BY <1>3, <2>1, <2>2 DEF NameTaken, InFlash
  <2>4. UNCHANGED flash /\ shares' = [shares EXCEPT ![Device] = sec[idx]]
    BY <1>2, <1>3, <2>2, <2>3 DEF NameTaken, ShareNotPresent, SecShareMatches
  <2>5. shares'[Device].id = w.id
    BY <1>4, <2>3, <2>4
  <2>6. NewWallet' /\ NotYetInFlash' /\ InFlash'
    BY <1>1, <2>1, <2>2, <2>4, <2>5 DEF NewWallet, NotYetInFlash, InFlash, Unsaved
  <2>7. SyncFlow'
    <3>1. FlowAt' /\ ReadBack' /\ BeingDeleted' /\ ListedWallets' /\ SharesFetched'
      BY <1>1, <1>8 DEF FlowAt, ReadBack, BeingDeleted, ListedWallets, SharesFetched,
                        WritePlaces, ReadPlaces, DeletePlaces
    <3>2. QED
      BY <2>6, <3>1 DEF SyncFlow
  <2>8. QED
    BY <1>6, <1>7, <2>7 DEF SyncInv
<1>9. CASE flow = "verify"
  <2>1. shares[Device] = NoShare
    BY <1>1, <1>9 DEF SyncInv, SyncFlow, ReadBack, ReadPlaces
  <2>2. ReadBack'
    <3>1. SUFFICES ASSUME NEW t \in Slots, (Named(t, target))', (ShareNotPresent(t))'
                   PROVE  shares'[Device] = NoShare
      BY <1>1 DEF ReadBack
    <3>2. Named(t, target) /\ t = s
      BY <1>1, <1>3, <1>6, <3>1 DEF NameTaken, Named
    <3>3. UNCHANGED flash => ShareNotPresent(s)
      BY <3>1, <3>2 DEF ShareNotPresent
    <3>4. UNCHANGED shares
      BY <1>2, <3>2, <3>3
    <3>5. QED
      BY <2>1, <3>4
  <2>3. SyncFlow'
    BY <1>1, <1>9, <2>2, InVerification DEF ReadPlaces
  <2>4. QED
    BY <1>6, <1>7, <2>3 DEF SyncInv
<1>10. QED
  BY <1>1, <1>8, <1>9

(* The slot set_wallet_state is about: one that lacks the vault's share is *)
(* not made valid.                                                         *)
LEMMA StateSaved ==
    ASSUME SyncInv, SetVerifiedState
    PROVE  /\ SyncStored' /\ flash' \in [Slots -> Wallet]
           /\ \A t \in Slots : ShareNotPresent(t) => flash'[t].state # "valid"
<1>1. CASE NameTaken(target)
  <2>1. PICK s \in Slots : Named(s, target) /\ IndexByName(target) = s
    BY <1>1, SlotOfName DEF SyncInv, SyncStored
  <2> DEFINE st == IF SharesAgree THEN "valid" ELSE "invalid"
  <2>3. flash' = [flash EXCEPT ![s].state = st]
    BY <1>1, <2>1 DEF SetVerifiedState
  <2>4. st \in States \ {"default"}
    BY DEF States
  <2>5. Filled(s) /\ SyncTypeOK /\ SyncStored /\ UNCHANGED <<count, cards>>
    BY <2>1 DEF Named, SyncInv, SetVerifiedState
  <2>6. ShareNotPresent(s) => st # "valid"
    <3>1. SUFFICES ASSUME ShareNotPresent(s), SharesAgree PROVE FALSE
      OBVIOUS
    <3>2. pc = "set_state" /\ flow \in {"create", "verify"} /\ shares[Device] # NoShare
      BY <3>1 DEF SetVerifiedState, SyncInv, SyncFlow, FlowAt, ReadPlaces, SharesAgree
    <3>3. flow = "create"
      BY <2>1, <3>1, <3>2 DEF SyncInv, SyncFlow, ReadBack, ReadPlaces
    <3>4. AtCreation /\ ~Unsaved
      BY <3>2, <3>3 DEF AtCreation, ReadPlaces, Unsaved
    <3>5. idx \in Slots /\ Named(idx, target) /\ flash[idx].state = "unverified"
      BY <3>4, OnFlash DEF InFlash
    <3>6. idx = s
      BY <2>1, <3>5 DEF SyncInv, SyncStored, SlotsConsistent, Named
    <3>7. QED
      BY <3>1, <3>5, <3>6 DEF ShareNotPresent
  <2> HIDE DEF st
  <2>7. /\ SyncStored' /\ flash' \in [Slots -> Wallet] /\ flash'[s].state = st
        /\ \A t \in Slots \ {s} : flash'[t] = flash[t]
    BY <2>3, <2>4, <2>5, StateUpdated
  <2>8. QED
    BY <2>6, <2>7 DEF ShareNotPresent
<1>2. CASE ~NameTaken(target)
  <2>1. UNCHANGED <<flash, count, cards>>
    BY <1>2 DEF SetVerifiedState
  <2>2. QED
    BY <2>1, SlotsAndCardsKept DEF SyncInv, SyncTypeOK, DataTypeOK, ShareNotPresent
<1>3. QED
  BY <1>1, <1>2

LEMMA SetVerifiedStateSync ==
    ASSUME SyncInv, SetVerifiedState, UNCHANGED syncRam PROVE SyncInv'
<1>1. SyncStored' /\ flash' \in [Slots -> Wallet]
  BY StateSaved
<1>2. QED
  BY <1>1, FlowEnds DEF SetVerifiedState, SyncInv, SyncTypeOK, DataTypeOK, syncRam

-----------------------------------------------------------------------------
(* The steps of a deletion: the name stays in its slot until FreeSlot. *)

LEMMA DeletionSlot ==
    ASSUME SyncInv, pc \in DeletePlaces
    PROVE  /\ IndexByName(target) \in Slots /\ Named(IndexByName(target), target)
           /\ Filled(IndexByName(target)) /\ target \in Names /\ NameTaken(target)
BY SlotOfName DEF SyncInv, SyncStored, SyncFlow, BeingDeleted, FlowAt, Named

LEMMA DeletionGoesOn ==
    ASSUME SyncInv, pc \in DeletePlaces, pc' \in DeletePlaces \cup {"assert_failed"},
           SyncStored', flash' \in [Slots -> Wallet],
           \A n : (NameTaken(n))' <=> NameTaken(n),
           sec' \in [Slots -> Holding], cards' \in [Cards -> [Names -> Holding]],
           k' \in 1..(NumCards + 1), pc' \in {"fetch", "erase", "mark"} => k' \in Cards,
           UNCHANGED <<count, nextGen, flow, target, w, idx, shares, toAdd, cursor>>
    PROVE  SyncInv'
<1>1. target' \in Names /\ (NameTaken(target))'
  BY DeletionSlot
<1>2. SyncFlow'
  BY <1>1, InDeletion, BeforeReset
<1>3. SyncTypeOK'
  BY DEF SyncInv, SyncTypeOK, DataTypeOK, Places, DeletePlaces
<1>4. QED
  BY <1>2, <1>3 DEF SyncInv

LEMMA DeletionMoves ==
    ASSUME SyncInv, pc \in DeletePlaces, pc' \in DeletePlaces \cup {"assert_failed"},
           UNCHANGED <<stored, cards, nextGen, ram, syncRam>>,
           k' \in 1..(NumCards + 1), pc' \in {"fetch", "erase", "mark"} => k' \in Cards
    PROVE  SyncInv'
<1>1. SyncStored' /\ \A n : (NameTaken(n))' <=> NameTaken(n)
  BY SlotsAndCardsKept, NamesKept DEF SyncInv, stored
<1>2. QED
  BY <1>1, DeletionGoesOn DEF SyncInv, SyncTypeOK, DataTypeOK, stored, ram, syncRam

(* delete_from_kth_card_flash *)
LEMMA BitsCleared ==
    ASSUME SyncInv, pc \in DeletePlaces, NEW c,
           ClearCardBits(IndexByName(target), c), UNCHANGED <<count, cards>>
    PROVE  /\ SyncStored' /\ flash' \in [Slots -> Wallet]
           /\ \A n : (NameTaken(n))' <=> NameTaken(n)
<1> DEFINE s == IndexByName(target)
           x == [flash[s] EXCEPT !.written = @ \ {c}, !.attempted = @ \ {c}]
<1>1. s \in Slots /\ Filled(s) /\ flash[s] \in Wallet /\ NameTaken(target)
  BY DeletionSlot DEF SyncInv, SyncTypeOK, DataTypeOK
<1>2. /\ x \in Wallet /\ x.state # "default"
      /\ x.name = flash[s].name /\ x.id = flash[s].id
  BY <1>1 DEF Wallet, Filled
<1>3. flash' = [flash EXCEPT ![s] = x]
  BY <1>1 DEF ClearCardBits
<1> HIDE DEF s, x
<1>4. QED
  BY <1>1, <1>2, <1>3, SlotResaved DEF SyncInv

LEMMA DeleteStartSync ==
    ASSUME SyncInv, NEW s \in Slots, DeleteStart(s), UNCHANGED syncRam
    PROVE  SyncInv'
<1>1. /\ pc' = "check" /\ target' = flash[s].name /\ target' \in Names /\ flow' = "delete"
      /\ UNCHANGED <<flash, count, sec, cards, nextGen, k, w, idx, shares, toAdd,
                     cursor>>
  BY DEF DeleteStart, SyncInv, SyncStored, SlotsNamed, stored, syncRam
<1>2. SyncStored' /\ (NameTaken(target))'
  BY <1>1, SlotsAndCardsKept DEF DeleteStart, SyncInv, NameTaken, Named, Filled
<1>3. SyncFlow'
  BY <1>1, <1>2, InDeletion DEF DeletePlaces
<1>4. SyncTypeOK'
  BY <1>1 DEF SyncInv, SyncTypeOK, DataTypeOK, Places, Flows
<1>5. QED
  BY <1>2, <1>3, <1>4 DEF SyncInv

LEMMA DeleteCheckCardSync ==
    ASSUME SyncInv, DeleteCheckCard, UNCHANGED syncRam
    PROVE  SyncInv'
<1>1. pc = "check" /\ pc \in DeletePlaces /\ k \in 1..(NumCards + 1)
  BY DEF DeleteCheckCard, DeletePlaces, SyncInv, SyncTypeOK, DataTypeOK
<1>2. /\ pc' \in {"assert_failed", "finish", "fetch", "check"}
      /\ pc' = "fetch" => k' = k /\ k <= NumCards
      /\ k' \in 1..(NumCards + 1)
  BY <1>1, BoundsAssumption DEF DeleteCheckCard
<1>3. QED
  BY <1>1, <1>2, BoundsAssumption, DeletionMoves
     DEF DeleteCheckCard, DeletePlaces, Cards

LEMMA CardFetchShareSync ==
    ASSUME SyncInv, CardFetchShare, UNCHANGED syncRam
    PROVE  SyncInv'
<1>1. pc = "fetch" /\ pc \in DeletePlaces /\ k \in Cards /\ k \in 1..(NumCards + 1)
      /\ k + 1 \in 1..(NumCards + 1)
  BY BoundsAssumption DEF CardFetchShare, DeletePlaces, SyncInv, SyncFlow, FlowAt, Cards
<1>2. CASE FetchAccepted
  BY <1>1, <1>2, DeletionMoves DEF FetchAccepted, DeletePlaces
<1>3. CASE FetchMismatch
  <2>1. /\ SyncStored' /\ flash' \in [Slots -> Wallet]
        /\ \A n : (NameTaken(n))' <=> NameTaken(n)
    BY <1>1, <1>3, BitsCleared DEF FetchMismatch
  <2>2. QED
    BY <1>1, <1>3, <2>1, DeletionGoesOn
       DEF FetchMismatch, DeletePlaces, SyncInv, SyncTypeOK, DataTypeOK, ram, syncRam
<1>4. CASE FetchShareMissing
  <2>1. flash' = [flash EXCEPT ![IndexByName(target)].state = "no_device_share"]
        /\ "no_device_share" \in States \ {"default"} /\ UNCHANGED <<count, cards>>
    BY <1>4 DEF FetchShareMissing, States
  <2>2. /\ SyncStored' /\ flash' \in [Slots -> Wallet]
        /\ \A n : (NameTaken(n))' <=> NameTaken(n)
    BY <1>1, <2>1, DeletionSlot, StateUpdated DEF SyncInv
  <2>3. QED
    BY <1>1, <1>4, <2>2, DeletionGoesOn
       DEF FetchShareMissing, DeletePlaces, SyncInv, SyncTypeOK, DataTypeOK, ram, syncRam
<1>5. QED
  BY <1>2, <1>3, <1>4 DEF CardFetchShare

LEMMA DeleteTapFailsSync ==
    ASSUME SyncInv, DeleteTapFails, UNCHANGED syncRam
    PROVE  SyncInv'
<1>1. pc \in DeletePlaces /\ pc' \in {"finish", "wrong_pin"}
      /\ (UNCHANGED flash \/ SetLocked(target))
      /\ UNCHANGED <<count, sec, cards, nextGen, k, ram, syncRam>>
  BY DEF DeleteTapFails, DeletePlaces
<1>2. /\ SyncStored' /\ flash' \in [Slots -> Wallet]
      /\ \A n : (NameTaken(n))' <=> NameTaken(n)
  <2>1. CASE UNCHANGED flash
    BY <1>1, <2>1, SlotsAndCardsKept, NamesKept
       DEF SyncInv, SyncTypeOK, DataTypeOK
  <2>2. CASE SetLocked(target)
    BY <1>1, <2>2, LockKept
  <2>3. QED
    BY <1>1, <2>1, <2>2
<1>3. QED
  BY <1>1, <1>2, DeletionGoesOn
     DEF DeletePlaces, SyncInv, SyncTypeOK, DataTypeOK, ram, syncRam

LEMMA EraseSync ==
    ASSUME SyncInv, EraseAcked \/ EraseAnswerLost, UNCHANGED syncRam
    PROVE  SyncInv'
<1>1. /\ pc = "erase" /\ pc \in DeletePlaces /\ k \in Cards /\ target \in Names
      /\ StoreOnCard(k, target, NoShare) /\ pc' \in {"mark", "erase", "finish"}
      /\ UNCHANGED <<stored, nextGen, k, ram, syncRam>>
  BY DEF EraseAcked, EraseAnswerLost, DeletePlaces, SyncInv, SyncFlow, FlowAt
<1>2. SyncStored' /\ cards' \in [Cards -> [Names -> Holding]]
  BY <1>1, NothingTyped, CardStores DEF SyncInv, stored
<1>3. \A n : (NameTaken(n))' <=> NameTaken(n)
  BY <1>1, NamesKept DEF stored
<1>4. QED
  BY <1>1, <1>2, <1>3, DeletionGoesOn
     DEF DeletePlaces, SyncInv, SyncTypeOK, DataTypeOK, stored, ram, syncRam

LEMMA MarkDeletedFromCardSync ==
    ASSUME SyncInv, MarkDeletedFromCard, UNCHANGED syncRam
    PROVE  SyncInv'
<1>1. pc = "mark" /\ pc \in DeletePlaces /\ k' \in 1..(NumCards + 1) /\ pc' = "check"
  BY BoundsAssumption
     DEF MarkDeletedFromCard, DeletePlaces, SyncInv, SyncFlow, FlowAt, Cards
<1>2. /\ SyncStored' /\ flash' \in [Slots -> Wallet]
      /\ \A n : (NameTaken(n))' <=> NameTaken(n)
  BY <1>1, BitsCleared DEF MarkDeletedFromCard
<1>3. QED
  BY <1>1, <1>2, DeletionGoesOn
     DEF MarkDeletedFromCard, DeletePlaces, SyncInv, SyncTypeOK, DataTypeOK, ram, syncRam

LEMMA FinishDeleteSync ==
    ASSUME SyncInv, FinishDelete, UNCHANGED syncRam
    PROVE  SyncInv'
<1>1. pc \in DeletePlaces /\ UNCHANGED <<flash, count, cards, nextGen, toAdd, cursor>>
  BY DEF FinishDelete, DeletePlaces, syncRam
<1>2. SyncStored' /\ \A n : (NameTaken(n))' <=> NameTaken(n)
  BY <1>1, SlotsAndCardsKept, NamesKept DEF SyncInv
<1>3. \/ EndFlow /\ UNCHANGED sec
      \/ pc' = "check" /\ k' = 1 /\ UNCHANGED <<ram, sec>>
      \/ pc' = "assert_failed" /\ UNCHANGED <<sec, k, ram>>
      \/ /\ pc' = "free_slot" /\ sec' = [sec EXCEPT ![IndexByName(target)] = NoShare]
         /\ UNCHANGED <<k, ram>>
  BY DEF FinishDelete
<1>4. CASE EndFlow
  <2>1. UNCHANGED sec
    BY <1>3, <1>4 DEF EndFlow
  <2>2. QED
    BY <1>1, <1>4, <2>1, FlowEndsUnsaved DEF FinishDelete
<1>5. CASE ~EndFlow
  <2>1. /\ sec' \in [Slots -> Holding] /\ k' \in 1..(NumCards + 1)
        /\ pc' \in {"check", "assert_failed", "free_slot"}
        /\ UNCHANGED <<flow, target, w, idx, shares>>
    BY <1>3, <1>5, NothingTyped, BoundsAssumption
       DEF SyncInv, SyncTypeOK, DataTypeOK, ram
  <2>2. QED
    BY <1>1, <1>2, <2>1, DeletionGoesOn
       DEF DeletePlaces, SyncInv, SyncTypeOK, DataTypeOK
<1>6. QED
  BY <1>4, <1>5

(* The slot is freed, its id stays. *)
LEMMA FreeSlotSync ==
    ASSUME SyncInv, FreeSlot, UNCHANGED syncRam
    PROVE  SyncInv'
<1> DEFINE s == IndexByName(target)
           F == {t \in Slots : Filled(t)}
<1>1. s \in Slots /\ Filled(s) /\ flash[s] \in Wallet /\ flash \in [Slots -> Wallet]
  BY DeletionSlot DEF FreeSlot, DeletePlaces, SyncInv, SyncTypeOK, DataTypeOK
<1>2. /\ flash' \in [Slots -> Wallet] /\ flash'[s].state = "default"
      /\ \A t \in Slots \ {s} : flash'[t] = flash[t]
  <2> DEFINE x == [flash[s] EXCEPT !.state = "default", !.name = None,
                                   !.written = {}, !.attempted = {}]
  <2>1. x \in Wallet /\ x.state = "default"
    BY <1>1 DEF Wallet, States
  <2>2. flash' = [flash EXCEPT ![s] = x]
    BY <1>1 DEF FreeSlot
  <2> HIDE DEF x, s
  <2>3. QED
    BY <1>1, <2>1, <2>2
<1>3. \A t \in Slots : (Filled(t))' <=> Filled(t) /\ t # s
  BY <1>2 DEF Filled
<1>4. IsFiniteSet(F) /\ s \in F
  <2>1. IsFiniteSet(Slots)
    BY FS_Interval, BoundsAssumption DEF Slots
  <2>2. F \in SUBSET Slots
    OBVIOUS
  <2>3. QED
    BY <1>1, <2>1, <2>2, FS_Subset
<1>5. Cardinality(F) \in Nat /\ Cardinality(F \ {s}) = Cardinality(F) - 1
      /\ Cardinality(F \ {s}) \in Nat
  BY <1>4, FS_RemoveElement, FS_CardinalityType
<1>6. count' = Cardinality({t \in Slots : (Filled(t))'}) /\ count' \in Nat
  <2>1. {t \in Slots : (Filled(t))'} = F \ {s}
    BY <1>3
  <2>2. count' = Cardinality(F) - 1
    BY DEF FreeSlot, SyncInv, SyncStored, SlotsConsistent
  <2>3. QED
    BY <1>5, <2>1, <2>2
<1> HIDE DEF s, F
<1>7. SlotsConsistent'
  BY <1>2, <1>3, <1>6 DEF SyncInv, SyncStored, SlotsConsistent
<1>8. SlotsNamed' /\ CardsApart'
  <2>1. SlotsNamed'
    BY <1>2, <1>3 DEF SyncInv, SyncStored, SlotsNamed
  <2>2. CardsApart'
    BY DEF FreeSlot, SyncInv, SyncStored, CardsApart, Holds
  <2>3. QED
    BY <2>1, <2>2
<1>9. QED
  BY <1>2, <1>6, <1>7, <1>8, FlowEnds
     DEF FreeSlot, SyncStored, SyncInv, SyncTypeOK, DataTypeOK, syncRam

LEMMA UnlockWalletSync ==
    ASSUME SyncInv, NEW s \in Slots, UnlockWallet(s), UNCHANGED syncRam
    PROVE  SyncInv'
<1> DEFINE x == [flash[s] EXCEPT !.locked = FALSE]
<1>1. flash[s] \in Wallet /\ Filled(s) /\ flash' = [flash EXCEPT ![s] = x]
  BY DEF UnlockWallet, SyncInv, SyncTypeOK, DataTypeOK
<1>2. x \in Wallet /\ x.state # "default" /\ x.name = flash[s].name /\ x.id = flash[s].id
  BY <1>1 DEF Wallet, Filled
<1>3. UNCHANGED <<count, sec, cards, nextGen, pc, k, flow, target, w, idx, shares,
                  toAdd, cursor>>
  BY DEF UnlockWallet, ram, syncRam
<1> HIDE DEF x
<1>4. SyncStored' /\ flash' \in [Slots -> Wallet]
  BY <1>1, <1>2, <1>3, SlotResaved DEF SyncInv
<1>5. SyncFlow'
  BY <1>3, InMenu DEF UnlockWallet, SyncInv, SyncFlow, FlowAt
<1>6. SyncTypeOK'
  BY <1>3, <1>4 DEF SyncInv, SyncTypeOK, DataTypeOK
<1>7. QED
  BY <1>4, <1>5, <1>6 DEF SyncInv

-----------------------------------------------------------------------------
(* The steps of the synchronisation. *)

LEMMA NoneTapped == ASSUME shares = NoShares PROVE Tapped = {}
BY DEF Tapped, NoShares, Cards

LEMMA SyncWithCardsSync ==
    ASSUME SyncInv, NEW c \in Cards, SyncWithCards(c)
    PROVE  SyncInv'
<1>1. /\ pc' = "sync_add" /\ k' = c /\ flow' = "sync" /\ shares = NoShares
      /\ flash' = [s \in Slots |-> NoWallet] /\ count' = 0
      /\ toAdd' = {n \in Names : Holds(c, n)}
      /\ UNCHANGED <<sec, cards, nextGen, target, w, idx, shares, cursor>>
  BY DEF SyncWithCards, SyncInv, SyncFlow, FlowAt
<1>2. \A s \in Slots : (~Filled(s))'
  BY <1>1 DEF Filled, NoWallet
<1>3. SyncStored'
  <2>1. {s \in Slots : (Filled(s))'} = {}
    BY <1>2
  <2>2. SlotsConsistent'
    BY <1>1, <1>2, <2>1, FS_EmptySet DEF SlotsConsistent
  <2>3. SlotsNamed' /\ CardsApart'
    BY <1>1, <1>2 DEF SyncInv, SyncStored, SlotsNamed, CardsApart, Holds
  <2>4. QED
    BY <2>2, <2>3 DEF SyncStored
<1>4. ListedWallets'
  BY <1>1, <1>2 DEF ListedWallets, NameTaken, Named, Holds
<1>5. SyncFlow'
  BY <1>1, <1>4, InList
<1>6. SyncTypeOK'
  BY <1>1, NothingTyped, BoundsAssumption
     DEF SyncInv, SyncTypeOK, DataTypeOK, SyncPlaces, Cards
<1>7. QED
  BY <1>3, <1>5, <1>6 DEF SyncInv

(* A vault that is not full has an empty slot. *)
LEMMA SlotLeft ==
    ASSUME SyncTypeOK, SlotsConsistent, count # MaxWallets
    PROVE  FirstEmpty \in Slots /\ ~Filled(FirstEmpty)
<1>1. Cardinality(Slots) = MaxWallets
  BY FS_Interval, BoundsAssumption DEF Slots
<1>2. ~\A s \in Slots : Filled(s)
  <2>1. SUFFICES ASSUME \A s \in Slots : Filled(s) PROVE FALSE
    OBVIOUS
  <2>2. {s \in Slots : Filled(s)} = Slots
    BY <2>1
  <2>3. QED
    BY <1>1, <2>2 DEF SlotsConsistent
<1>3. QED
  BY <1>2, FirstEmptyIsEmpty, BoundsAssumption

LEMMA SyncAddWalletSync ==
    ASSUME SyncInv, NEW n \in Names, NEW isLocked \in BOOLEAN, SyncAddWallet(n, isLocked)
    PROVE  SyncInv'
<1>1. /\ pc = "sync_add" /\ n \in toAdd /\ k \in Cards /\ shares = NoShares
      /\ UNCHANGED <<sec, cards, nextGen, cursor>>
      /\ \A m \in toAdd : /\ m \in Names /\ Holds(k, m) /\ ~NameTaken(m)
                          /\ \A s \in Slots : Filled(s) => flash[s].id # cards[k][m].id
  BY DEF SyncAddWallet, SyncInv, SyncFlow, FlowAt, ListedWallets, SyncTypeOK
<1>2. CASE count = MaxWallets
  BY <1>1, <1>2, SlotsAndCardsKept, FlowEnds
     DEF SyncAddWallet, SyncInv, SyncTypeOK, DataTypeOK
<1>3. CASE count # MaxWallets
  <2>1. PICK e \in Slots : e = FirstEmpty /\ ~Filled(e)
    BY <1>3, SlotLeft DEF SyncInv, SyncStored
  <2> DEFINE x == SyncedWallet(n, cards[k][n].id, isLocked)
  <2>2. /\ flash' = [flash EXCEPT ![e] = x] /\ count' = count + 1
        /\ toAdd' = toAdd \ {n}
        /\ UNCHANGED <<pc, k, flow, target, w, idx, shares, cards>>
    BY <1>3, <2>1 DEF SyncAddWallet, ram
  <2>3. cards[k][n].id \in Ids
    BY <1>1 DEF SyncInv, SyncTypeOK, DataTypeOK, Holding, Holds, Share
  <2>4. /\ x \in Wallet /\ x.state # "default" /\ x.name = n /\ x.id = cards[k][n].id
        /\ x.name \in Names /\ x.id \in Ids
    BY <2>3 DEF SyncedWallet, Wallet, States
  <2>5. ~NameTaken(x.name) /\ \A t \in Slots : Filled(t) => flash[t].id # x.id
    BY <1>1, <2>4
  <2> HIDE DEF x
  <2>6. /\ SyncStored' /\ flash' \in [Slots -> Wallet] /\ count' \in Nat
        /\ flash'[e] = x
        /\ \A t \in Slots : (Filled(t))' <=> Filled(t) \/ t = e
        /\ \A t \in Slots \ {e} : flash'[t] = flash[t]
    <3>1. SyncTypeOK /\ SyncStored
      BY DEF SyncInv
    <3>2. QED
      BY <2>1, <2>2, <2>4, <2>5, <3>1, SlotAdded
  <2>7. ListedWallets'
    <3>1. SUFFICES ASSUME NEW m \in toAdd, m # n
                   PROVE  /\ (~NameTaken(m))'
                          /\ \A s \in Slots : (Filled(s))' => flash'[s].id # cards[k][m].id
      BY <1>1, <2>2 DEF ListedWallets, Holds
    <3>2. cards[k][m].id # cards[k][n].id
      BY <1>1, <3>1 DEF SyncInv, SyncStored, CardsApart
    <3>3. QED
      BY <1>1, <2>4, <2>6, <3>1, <3>2 DEF NameTaken, Named
  <2>8. SyncFlow'
    BY <1>1, <2>2, <2>7, InList
  <2>9. SyncTypeOK'
    BY <1>1, <2>2, <2>6 DEF SyncInv, SyncTypeOK, DataTypeOK
  <2>10. QED
    BY <2>6, <2>8, <2>9 DEF SyncInv
<1>4. QED
  BY <1>2, <1>3

LEMMA SyncListDoneSync == ASSUME SyncInv, SyncListDone PROVE SyncInv'
<1>1. /\ pc = "sync_add" /\ pc' = "sync_next" /\ cursor' = 1 /\ shares = NoShares
      /\ UNCHANGED <<flash, count, sec, cards, nextGen, k, flow, target, w, idx,
                     shares, toAdd>>
  BY DEF SyncListDone, SyncInv, SyncFlow, ListedWallets, stored, ram
<1>2. SyncStored'
  BY <1>1, SlotsAndCardsKept DEF SyncInv
<1>3. SyncFlow'
  BY <1>1, InList DEF ListedWallets
<1>4. SyncTypeOK'
  BY <1>1, BoundsAssumption DEF SyncInv, SyncTypeOK, DataTypeOK, SyncPlaces
<1>5. QED
  BY <1>2, <1>3, <1>4 DEF SyncInv

(* No card has been tapped yet for a wallet that is in flash. *)
LEMMA FirstTapDue ==
    ASSUME SyncInv, NEW s \in Slots, Filled(s), target' = flash[s].name,
           pc' = "sync_tap", shares = NoShares, flow' \in Flows \cup {"sync", "reset"},
           UNCHANGED <<stored, cards, nextGen, k, w, idx, shares, toAdd>>,
           cursor' \in 1..(MaxWallets + 1)
    PROVE  SyncInv'
<1>1. UNCHANGED <<flash, count, sec>>
  BY DEF stored
<1>2. target' \in Names /\ (NameTaken(target))' /\ Tapped' = {}
  <2>1. Tapped = {} /\ Tapped' = Tapped
    BY NoneTapped DEF Tapped
  <2>2. target' \in Names
    BY DEF SyncInv, SyncStored, SlotsNamed
  <2>3. (NameTaken(target))'
    BY <1>1 DEF NameTaken, Named, Filled
  <2>4. QED
    BY <2>1, <2>2, <2>3
<1>3. SharesFetched'
  BY <1>2 DEF SharesFetched
<1>4. SyncFlow'
  BY <1>2, <1>3, InTaps
<1>5. SyncStored'
  BY <1>1, SlotsAndCardsKept DEF SyncInv
<1>6. SyncTypeOK'
  BY <1>1, <1>2 DEF SyncInv, SyncTypeOK, DataTypeOK, SyncPlaces
<1>7. QED
  BY <1>4, <1>5, <1>6 DEF SyncInv

LEMMA SyncNextWalletSync == ASSUME SyncInv, SyncNextWallet PROVE SyncInv'
<1>1. pc = "sync_next" /\ shares = NoShares /\ UNCHANGED <<stored, cards, nextGen,
                                                           toAdd>>
  BY DEF SyncNextWallet, SyncInv, SyncFlow, ListedWallets
<1>2. CASE cursor > MaxWallets
  BY <1>1, <1>2, FlowEndsUnsaved DEF SyncNextWallet, stored
<1>3. CASE ~(cursor > MaxWallets)
  <2>1. cursor \in Slots /\ cursor' \in 1..(MaxWallets + 1)
        /\ UNCHANGED <<k, flow, w, idx, shares>>
    BY <1>3, BoundsAssumption DEF SyncNextWallet, SyncInv, SyncTypeOK, Slots
  <2>2. CASE UNCHANGED <<pc, target>>
    <3>1. SyncStored'
      BY <1>1, SlotsAndCardsKept DEF SyncInv, stored
    <3>2. SyncFlow'
      BY <1>1, <2>1, <2>2, InList DEF ListedWallets
    <3>3. SyncTypeOK'
      BY <1>1, <2>1, <2>2 DEF SyncInv, SyncTypeOK, DataTypeOK, stored
    <3>4. QED
      BY <3>1, <3>2, <3>3 DEF SyncInv
  <2>3. CASE Filled(cursor) /\ pc' = "sync_tap" /\ target' = flash[cursor].name
    <3>1. flow' \in Flows \cup {"sync", "reset"}
      BY <2>1 DEF SyncInv, SyncTypeOK
    <3>2. QED
      BY <1>1, <2>1, <2>3, <3>1, FirstTapDue
  <2>4. QED
    BY <1>3, <2>2, <2>3 DEF SyncNextWallet
<1>4. QED
  BY <1>2, <1>3

LEMMA SyncOneWalletSync ==
    ASSUME SyncInv, NEW s \in Slots, SyncOneWallet(s) PROVE SyncInv'
<1>1. Filled(s) /\ shares = NoShares /\ cursor' \in 1..(MaxWallets + 1)
  BY BoundsAssumption DEF SyncOneWallet, Filled, SyncInv, SyncFlow, FlowAt
<1>2. QED
  BY <1>1, FirstTapDue DEF SyncOneWallet

(* The share of another card fits those fetched before. *)
LEMMA SyncFetchSync ==
    ASSUME SyncInv, NEW c \in Cards, SyncFetch(c) PROVE SyncInv'
<1>1. /\ pc = "sync_tap" /\ c \notin Tapped /\ cards[c][target] # NoShare
      /\ cards[c][target].id = flash[IndexByName(target)].id
      /\ \A d \in Tapped : shares[d].gen = cards[c][target].gen
      /\ shares' = [shares EXCEPT ![c] = cards[c][target]]
      /\ pc' = IF Cardinality(Tapped) + 1 = Threshold THEN "sync_put" ELSE "sync_tap"
      /\ UNCHANGED <<flash, count, sec, cards, nextGen, k, flow, target, w, idx,
                     toAdd, cursor>>
  BY DEF SyncFetch, SameSplit, Holds, stored, syncRam
<1>2. /\ target \in Names /\ NameTaken(target) /\ SharesFetched
      /\ cards[c][target] \in Holding /\ shares \in [{Device} \cup Cards -> Holding]
  BY <1>1 DEF SyncInv, SyncFlow, FlowAt, SharesFetched, SyncTypeOK, DataTypeOK
<1>3. \A s \in Slots : Named(s, target) => s = IndexByName(target)
  BY <1>2, SlotOfName DEF SyncInv, SyncStored
<1>4. /\ shares' \in [{Device} \cup Cards -> Holding] /\ shares'[c] = cards[c][target]
      /\ \A d \in Cards \ {c} : shares'[d] = shares[d]
  BY <1>1, <1>2
<1>5. Tapped' = Tapped \cup {c}
  BY <1>1, <1>4 DEF Tapped
<1>6. Cardinality(Tapped') = Cardinality(Tapped) + 1
  <2>1. IsFiniteSet(Tapped)
    <3>1. IsFiniteSet(Cards)
      BY FS_Interval, BoundsAssumption DEF Cards
    <3>2. Tapped \in SUBSET Cards
      BY DEF Tapped
    <3>3. QED
      BY <3>1, <3>2, FS_Subset
  <2>2. QED
    BY <1>1, <1>5, <2>1, FS_AddElement
<1>7. SharesFetched'
  <2>1. (NameTaken(target))'
    BY <1>1, <1>2 DEF NameTaken, Named, Filled
  <2>2. \A d \in Tapped' : shares'[d] = cards'[d][target']
    BY <1>1, <1>2, <1>4, <1>5 DEF SharesFetched, Tapped
  <2>3. \A d, e \in Tapped' : shares'[d].gen = shares'[e].gen
    BY <1>1, <1>2, <1>4, <1>5 DEF SharesFetched, Tapped
  <2>4. \A s \in Slots : (Named(s, target))' => \A d \in Tapped' : shares'[d].id = flash'[s].id
    BY <1>1, <1>2, <1>3, <1>4, <1>5 DEF SharesFetched, Tapped, Named, Filled
  <2>5. pc' # "sync_state" /\ (pc' # "sync_tap" => Cardinality(Tapped') = Threshold)
    BY <1>1, <1>6
  <2>6. QED
    BY <2>1, <2>2, <2>3, <2>4, <2>5 DEF SharesFetched
<1>8. SyncFlow'
  BY <1>1, <1>2, <1>7, InTaps
<1>9. SyncStored'
  BY <1>1, SlotsAndCardsKept DEF SyncInv
<1>10. SyncTypeOK'
  BY <1>1, <1>4 DEF SyncInv, SyncTypeOK, DataTypeOK, SyncPlaces
<1>11. QED
  BY <1>8, <1>9, <1>10 DEF SyncInv

LEMMA SyncWrongPinSync ==
    ASSUME SyncInv, NEW c \in Cards, SyncWrongPin(c) PROVE SyncInv'
<1>1. /\ pc = "sync_tap" /\ shares' = NoShares
      /\ UNCHANGED <<flash, count, sec, cards, nextGen, pc, k, flow, target, w, idx,
                     toAdd, cursor>>
  BY DEF SyncWrongPin, stored, syncRam
<1>2. target \in Names /\ NameTaken(target)
  BY <1>1 DEF SyncInv, SyncFlow, FlowAt, SharesFetched
<1>3. SharesFetched'
  <2>1. Tapped' = {}
    BY <1>1 DEF Tapped, NoShares, Cards
  <2>2. (NameTaken(target))'
    BY <1>1, <1>2 DEF NameTaken, Named, Filled
  <2>3. QED
    BY <1>1, <2>1, <2>2 DEF SharesFetched
<1>4. SyncFlow'
  BY <1>1, <1>2, <1>3, InTaps
<1>5. SyncStored'
  BY <1>1, SlotsAndCardsKept DEF SyncInv
<1>6. SyncTypeOK'
  BY <1>1, NothingTyped DEF SyncInv, SyncTypeOK, DataTypeOK
<1>7. QED
  BY <1>4, <1>5, <1>6 DEF SyncInv

(* The loop goes on with the next wallet, or ends. *)
LEMMA NextWalletDue ==
    ASSUME SyncInv, pc' = "sync_next", shares' = NoShares, SyncStored',
           flash' \in [Slots -> Wallet], UNCHANGED <<count, sec, cards, nextGen, k,
                                                     flow>>,
           UNCHANGED <<target, w, idx, toAdd, cursor>>
    PROVE  SyncInv'
<1>1. SyncFlow'
  BY InList DEF ListedWallets
<1>2. SyncTypeOK'
  BY NothingTyped DEF SyncInv, SyncTypeOK, DataTypeOK, SyncPlaces
<1>3. QED
  BY <1>1, <1>2 DEF SyncInv

LEMMA SyncAbandonedSync == ASSUME SyncInv, SyncAbandoned PROVE SyncInv'
<1>1. UNCHANGED <<count, sec, cards, nextGen, toAdd>>
  BY DEF SyncAbandoned
<1>2. CASE UNCHANGED flash /\ EndFlow /\ cursor' = 1
  BY <1>1, <1>2, FlowEndsUnsaved
<1>3. CASE /\ UNCHANGED flash \/ SetLocked(target)
           /\ pc' = "sync_next" /\ shares' = NoShares
           /\ UNCHANGED <<k, flow, target, w, idx, cursor>>
  <2>1. SyncStored' /\ flash' \in [Slots -> Wallet]
    <3>1. CASE UNCHANGED flash
      BY <1>1, <3>1, SlotsAndCardsKept DEF SyncInv, SyncTypeOK, DataTypeOK
    <3>2. CASE SetLocked(target)
      BY <1>1, <3>2, LockKept
    <3>3. QED
      BY <1>3, <3>1, <3>2
  <2>2. QED
    BY <1>1, <1>3, <2>1, NextWalletDue
<1>4. QED
  BY <1>2, <1>3 DEF SyncAbandoned

(* The share the vault saves is the one the tapped cards hold. *)
LEMMA SyncPutShareSync == ASSUME SyncInv, SyncPutShare PROVE SyncInv'
<1> DEFINE s == IndexByName(target)
           r == Reconstructed
<1>1. /\ pc = "sync_put" /\ pc' = "sync_state" /\ w' = flash[s]
      /\ sec' = [sec EXCEPT ![s] = [id |-> flash[s].id, gen |-> r.gen]]
      /\ UNCHANGED <<flash, count, cards, nextGen, k, flow, target, idx, shares,
                     toAdd, cursor>>
  BY DEF SyncPutShare, syncRam
<1>2. /\ SharesFetched /\ target \in Names /\ NameTaken(target)
      /\ Cardinality(Tapped) = Threshold
  BY <1>1 DEF SyncInv, SyncFlow, FlowAt, SharesFetched
<1>3. s \in Slots /\ Named(s, target) /\ \A t \in Slots : Named(t, target) => t = s
  BY <1>2, SlotOfName DEF SyncInv, SyncStored
<1>4. PICK d \in Tapped : r = shares[d]
  <2>1. Tapped # {}
    BY <1>2, FS_EmptySet, ThresholdAssumption
  <2>2. \E d \in Cards : shares[d] # NoShare
    BY <2>1 DEF Tapped
  <2>3. QED
    BY <2>2 DEF Reconstructed, Tapped
<1> HIDE DEF s, r
<1>5. \A c \in Tapped : /\ shares[c] \in Share /\ shares[c].id = flash[s].id
                        /\ shares[c].gen = r.gen
  <2>1. \A c \in Tapped : shares[c] \in Share
    BY DEF Tapped, SyncInv, SyncTypeOK, DataTypeOK, Holding
  <2>2. QED
    BY <1>1, <1>2, <1>3, <1>4, <2>1 DEF SharesFetched
<1>6. \A c \in Tapped : shares[c] = [id |-> flash[s].id, gen |-> r.gen]
  BY <1>5 DEF Share
<1>7. sec' \in [Slots -> Holding] /\ sec'[s] = [id |-> flash[s].id, gen |-> r.gen]
  BY <1>1, <1>3, <1>4, <1>5, <1>6 DEF SyncInv, SyncTypeOK, DataTypeOK, Holding
<1>8. SharesFetched'
  <2>1. Tapped' = Tapped
    BY <1>1 DEF Tapped
  <2>2. (NameTaken(target))' /\ \A t \in Slots : (Named(t, target))' <=> Named(t, target)
    BY <1>1, <1>2 DEF NameTaken, Named, Filled
  <2>3. QED
    BY <1>1, <1>2, <1>3, <1>6, <1>7, <2>1, <2>2 DEF SharesFetched
<1>9. SyncFlow'
  BY <1>1, <1>2, <1>8, InTaps
<1>10. SyncStored'
  BY <1>1, SlotsAndCardsKept DEF SyncInv
<1>11. SyncTypeOK'
  BY <1>1, <1>3, <1>7 DEF SyncInv, SyncTypeOK, DataTypeOK, SyncPlaces
<1>12. QED
  BY <1>9, <1>10, <1>11 DEF SyncInv

LEMMA SyncSetValidSync == ASSUME SyncInv, SyncSetValid PROVE SyncInv'
<1>1. /\ pc = "sync_state" /\ pc' = "sync_next" /\ shares' = NoShares
      /\ flash' = [flash EXCEPT ![IndexByName(target)].state = "valid"]
      /\ UNCHANGED <<count, sec, cards, nextGen, k, flow, target, w, idx, toAdd,
                     cursor>>
  BY DEF SyncSetValid, syncRam
<1>2. SyncTypeOK /\ SyncStored /\ NameTaken(target)
  BY <1>1 DEF SyncInv, SyncFlow, SharesFetched
<1>3. IndexByName(target) \in Slots /\ Filled(IndexByName(target))
      /\ "valid" \in States \ {"default"} /\ UNCHANGED <<count, cards>>
  BY <1>1, <1>2, SlotOfName DEF SyncStored, Named, States
<1>4. SyncStored' /\ flash' \in [Slots -> Wallet]
  BY <1>1, <1>2, <1>3, StateUpdated
<1>5. QED
  BY <1>1, <1>4, NextWalletDue

-----------------------------------------------------------------------------
(* The reset, and the loss of power. *)

LEMMA EraseSecFlashSync == ASSUME SyncInv, EraseSecFlash PROVE SyncInv'
<1>1. /\ pc' = "reset_flash" /\ flow' = "reset" /\ sec' = [s \in Slots |-> NoShare]
      /\ UNCHANGED <<flash, count, cards, nextGen, k, target, w, idx, shares, toAdd,
                     cursor>>
  BY DEF EraseSecFlash, syncRam
<1>2. SyncStored'
  BY <1>1, SlotsAndCardsKept DEF SyncInv
<1>3. SyncFlow'
  BY <1>1, BeforeReset
<1>4. SyncTypeOK'
  BY <1>1, NothingTyped DEF SyncInv, SyncTypeOK, DataTypeOK, SyncPlaces
<1>5. QED
  BY <1>2, <1>3, <1>4 DEF SyncInv

LEMMA EraseFlashSync == ASSUME SyncInv, EraseFlash PROVE SyncInv'
<1>1. \A s \in Slots : (~Filled(s))'
  BY DEF EraseFlash, Filled, NoWallet
<1>2. SyncStored'
  <2>1. {s \in Slots : (Filled(s))'} = {}
    BY <1>1
  <2>2. SlotsConsistent'
    BY <1>1, <2>1, FS_EmptySet DEF EraseFlash, SlotsConsistent
  <2>3. SlotsNamed' /\ CardsApart'
    BY <1>1 DEF EraseFlash, SyncInv, SyncStored, SlotsNamed, CardsApart, Holds
  <2>4. QED
    BY <2>2, <2>3 DEF SyncStored
<1>3. SyncFlow'
  BY InMenu DEF EraseFlash
<1>4. SyncTypeOK'
  BY NothingTyped, BoundsAssumption
     DEF EraseFlash, SyncInv, SyncTypeOK, DataTypeOK, Places, Flows, Slots
<1>5. QED
  BY <1>2, <1>3, <1>4 DEF SyncInv

LEMMA SyncRebootSync == ASSUME SyncInv, SyncReboot PROVE SyncInv'
<1>1. UNCHANGED <<flash, count, sec, cards, nextGen>>
  BY DEF SyncReboot, Reboot, stored
<1>2. SyncStored'
  BY <1>1, SlotsAndCardsKept DEF SyncInv
<1>3. SyncFlow'
  BY InMenu DEF SyncReboot, Reboot
<1>4. SyncTypeOK'
  BY <1>1, NothingTyped, BoundsAssumption
     DEF SyncReboot, Reboot, SyncInv, SyncTypeOK, DataTypeOK, Places, Flows, Slots
<1>5. QED
  BY <1>2, <1>3, <1>4 DEF SyncInv

-----------------------------------------------------------------------------
(* The theorems. *)

LEMMA InitSync == SyncInit => SyncInv
<1> SUFFICES ASSUME SyncInit PROVE SyncInv
  OBVIOUS
<1>1. IInv
  BY InitSound DEF SyncInit
<1>2. SyncTypeOK
  BY <1>1, BoundsAssumption DEF IInv, TypeOK, SyncTypeOK, SyncInit
<1>3. SyncStored
  BY <1>1 DEF SyncInit, Init, IInv, SyncStored, SlotsNamed, SlotsSound, CardsApart
<1>4. SyncFlow
  BY DEF SyncInit, Init, SyncFlow, FlowAt, AtCreation, NewWallet, NotYetInFlash,
         InFlash, ReadBack, BeingDeleted, ListedWallets, SharesFetched, WritePlaces,
         ReadPlaces, DeletePlaces
<1>5. QED
  BY <1>2, <1>3, <1>4 DEF SyncInv

LEMMA NextSync == SyncInv /\ [SyncNext]_syncVars => SyncInv'
<1> SUFFICES ASSUME SyncInv, [SyncNext]_syncVars PROVE SyncInv'
  OBVIOUS
<1>1. CASE Create /\ UNCHANGED syncRam
  BY <1>1, CreateStartSync, SaveShareToDeviceSync, RecordWriteAttemptSync, AddWalletSync,
     AbandonCreateSync, WriteSharePostProcessSync DEF Create
<1>2. CASE Verify /\ UNCHANGED syncRam
  BY <1>2, VerifyStartSync, ReadCardShareSync, ReadCardFailsSync, ReadCardLockedSync,
     LoadDeviceShareSync, SetVerifiedStateSync DEF Verify
<1>3. CASE Delete /\ UNCHANGED syncRam
  BY <1>3, DeleteStartSync, DeleteCheckCardSync, CardFetchShareSync, DeleteTapFailsSync,
     EraseSync, MarkDeletedFromCardSync, FinishDeleteSync, FreeSlotSync DEF Delete
<1>4. CASE Unlock /\ UNCHANGED syncRam
  BY <1>4, UnlockWalletSync DEF Unlock
<1>5. CASE Sync
  BY <1>5, SyncWithCardsSync, SyncAddWalletSync, SyncListDoneSync, SyncNextWalletSync,
     SyncOneWalletSync, SyncFetchSync, SyncWrongPinSync, SyncAbandonedSync,
     SyncPutShareSync, SyncSetValidSync DEF Sync
<1>6. CASE Reset
  BY <1>6, EraseSecFlashSync, EraseFlashSync DEF Reset
<1>7. CASE SyncReboot
  BY <1>7, SyncRebootSync
<1>8. CASE UNCHANGED syncVars
  <2>1. UNCHANGED <<flash, count, sec, cards, nextGen, pc, k, flow, target, w, idx,
                    shares, toAdd, cursor>>
    BY <1>8 DEF syncVars, vars, stored, ram, syncRam
  <2>2. SyncStored' /\ SyncTypeOK'
    BY <2>1, SlotsAndCardsKept DEF SyncInv, SyncTypeOK, DataTypeOK
  <2>3. Tapped' = Tapped /\ FirstEmpty' = FirstEmpty /\ (Unsaved' <=> Unsaved)
        /\ (AtCreation' <=> AtCreation)
    BY <2>1, NamesKept DEF Tapped, Unsaved, AtCreation
  <2>4. FlowAt' /\ NewWallet' /\ NotYetInFlash' /\ InFlash'
    BY <2>1, <2>3, NamesKept
       DEF SyncInv, SyncFlow, FlowAt, NewWallet, NotYetInFlash, InFlash
  <2>5. ReadBack' /\ BeingDeleted' /\ ListedWallets' /\ SharesFetched'
    BY <2>1, <2>3, NamesKept
       DEF SyncInv, SyncFlow, ReadBack, BeingDeleted, ListedWallets, SharesFetched,
           Named, ShareNotPresent, Holds
  <2>6. QED
    BY <2>2, <2>4, <2>5 DEF SyncInv, SyncFlow
<1>9. QED
  BY <1>1, <1>2, <1>3, <1>4, <1>5, <1>6, <1>7, <1>8, Zenon DEF SyncNext

(* Everything the flows of wallets, the synchronisation and the reset rely *)
(* on between two steps holds in every reachable state.                    *)
THEOREM SyncInvariance == SyncSpec => []SyncInv
BY InitSync, NextSync, PTL DEF SyncSpec

(* The variables keep their types through synchronisation and reset, cut   *)
(* or not.                                                                 *)
THEOREM SyncTypeCorrect == SyncSpec => []SyncTypeOK
<1>1. SyncInv => SyncTypeOK
  BY DEF SyncInv
<1>. QED
  BY <1>1, SyncInvariance, PTL

(* The slots that sync_wallets_in_flash rebuilds are consistent, whatever  *)
(* a card lists and whatever a cut reset left behind.                      *)
THEOREM SyncKeepsSlotsConsistent == SyncSpec => []SlotsConsistent
<1>1. SyncInv => SlotsConsistent
  BY DEF SyncInv, SyncStored
<1>. QED
  BY <1>1, SyncInvariance, PTL

=============================================================================
