------------------------ MODULE WalletRecovery_proofs ------------------------
(***************************************************************************)
(* Proofs about what the cards hold in WalletSync, for every set of names  *)
(* and ids and any number of slots and cards: the quorum behind a valid    *)
(* wallet, the wallets that may be erased from cards, the locks, and, when *)
(* no seed is split while a share of it is left, that a wallet shown as    *)
(* valid can be reconstructed and a reset leaves enough to do so.          *)
(***************************************************************************)
EXTENDS WalletSync_proofs

USE DEF Device

-----------------------------------------------------------------------------
(* What the flows know of the cards. *)

(* The shares read back are those the cards hold, and the share of the     *)
(* vault is that of the slot.                                              *)
ReadSoFar ==
    /\ pc \in {"write", "add", "post", "read"} =>
         \A c \in 1..(k - 1) : shares[c] = cards[c][target]
    /\ pc \in {"load", "set_state"} => \A c \in Cards : shares[c] = cards[c][target]
    /\ pc = "set_state" =>
         \A s \in Slots : Named(s, target) /\ ~ShareNotPresent(s) =>
           sec[s] = shares[Device] /\ SecShareMatches(s)

(* A card about to erase a wallet holds the one the slot names, or none. *)
EraseMatches ==
    pc = "erase" =>
      \A s \in Slots : Named(s, target) /\ Holds(k, target) =>
        /\ cards[k][target].id = flash[s].id
        /\ ~ShareNotPresent(s) => SecShareMatches(s)

(* A deletion that has passed a card has cleared a mark. *)
DeletesInOrder ==
    pc \in {"check", "fetch", "erase", "mark"} =>
      \A s \in Slots : Named(s, target) /\ flash[s].written = Cards => k = 1

(* A wallet that is being created carries no lock. *)
CreatedUnlocked ==
    AtCreation => ~w.locked /\ (~Unsaved => ~flash[idx].locked)

TapInv == ReadSoFar /\ EraseMatches /\ DeletesInOrder /\ CreatedUnlocked

-----------------------------------------------------------------------------
(* Where a flow stands decides which part of TapInv says anything. *)

LEMMA TapElsewhere ==
    ASSUME pc' \notin {"save_share", "write", "add", "post", "read", "load", "set_state",
                       "check", "fetch", "erase", "mark"}
    PROVE  TapInv'
BY DEF TapInv, ReadSoFar, EraseMatches, DeletesInOrder, CreatedUnlocked, AtCreation,
       WritePlaces, ReadPlaces

LEMMA TapInCreation ==
    ASSUME pc' \in WritePlaces \cup ReadPlaces, ReadSoFar', CreatedUnlocked'
    PROVE  TapInv'
BY DEF TapInv, EraseMatches, DeletesInOrder, WritePlaces, ReadPlaces

LEMMA TapInVerification ==
    ASSUME pc' \in ReadPlaces, flow' # "create", ReadSoFar'
    PROVE  TapInv'
BY DEF TapInv, EraseMatches, DeletesInOrder, CreatedUnlocked, AtCreation, ReadPlaces

LEMMA TapInDeletion ==
    ASSUME pc' \in DeletePlaces, EraseMatches', DeletesInOrder'
    PROVE  TapInv'
BY DEF TapInv, ReadSoFar, CreatedUnlocked, AtCreation, WritePlaces, ReadPlaces,
       DeletePlaces

-----------------------------------------------------------------------------
(* The steps of a creation and a verification. *)

LEMMA CreateStartTap ==
    ASSUME SyncInv, NEW n \in Names, NEW i \in Ids, CreateStart(n, i)
    PROVE  TapInv'
<1>1. pc' = "save_share" /\ ~w'.locked
  BY DEF CreateStart, NoWallet
<1>2. ReadSoFar' /\ CreatedUnlocked'
  BY <1>1 DEF ReadSoFar, CreatedUnlocked, Unsaved
<1>3. QED
  BY <1>1, <1>2, TapInCreation DEF WritePlaces

LEMMA SaveShareToDeviceTap ==
    ASSUME SyncInv, TapInv, SaveShareToDevice
    PROVE  TapInv'
<1>1. /\ pc = "save_share" /\ pc' = "write" /\ Unsaved /\ AtCreation
      /\ UNCHANGED <<flash, k, flow, w, idx>>
  BY DEF SaveShareToDevice, Unsaved, AtCreation, SyncInv, SyncFlow, FlowAt, WritePlaces,
         ram
<1>2. k = 1 /\ w.attempted = {} /\ ~w.locked
  BY <1>1 DEF SyncInv, SyncFlow, NotYetInFlash, TapInv, CreatedUnlocked
<1>3. ReadSoFar' /\ CreatedUnlocked'
  BY <1>1, <1>2 DEF ReadSoFar, CreatedUnlocked, Unsaved
<1>4. QED
  BY <1>1, <1>3, TapInCreation DEF WritePlaces

LEMMA RecordWriteAttemptTap ==
    ASSUME SyncInv, TapInv, RecordWriteAttempt
    PROVE  TapInv'
<1>1. /\ pc = "write" /\ pc' = "add" /\ flow = "create" /\ AtCreation /\ k \in Cards
      /\ UNCHANGED <<sec, cards, k, flow, target, shares>>
  BY DEF RecordWriteAttempt, AtCreation, SyncInv, SyncFlow, FlowAt, WritePlaces
<1>2. ReadSoFar'
  BY <1>1 DEF TapInv, ReadSoFar
<1>3. /\ ~w.locked /\ (~Unsaved => ~flash[idx].locked) /\ w \in Wallet
      /\ flash \in [Slots -> Wallet] /\ idx \in Slots
  BY <1>1 DEF TapInv, CreatedUnlocked, SyncInv, SyncTypeOK, DataTypeOK
<1> DEFINE x == WithAttempt(w, k)
<1>4. ~x.locked
  BY <1>3 DEF WithAttempt, Wallet
<1>5. CASE k \in w.attempted
  <2>1. UNCHANGED <<flash, w, idx>> /\ ~Unsaved
    BY <1>5 DEF RecordWriteAttempt, Unsaved, SyncInv, SyncFlow, NotYetInFlash
  <2>2. CreatedUnlocked'
    BY <1>3, <2>1 DEF CreatedUnlocked
  <2>3. QED
    BY <1>1, <1>2, <2>2, TapInCreation DEF WritePlaces
<1>6. CASE k \notin w.attempted
  <2>1. w' = x
    BY <1>6 DEF RecordWriteAttempt
  <2>2. ~flash'[idx'].locked
    <3>1. CASE Unsaved
      <4>1. /\ k = 1 /\ ~NameTaken(w.name) /\ (\E s \in Slots : ~Filled(s)) /\ w.name = target
        BY <1>1, <3>1 DEF SyncInv, SyncFlow, NewWallet, NotYetInFlash
      <4>2. FirstEmpty \in Slots /\ ~Filled(FirstEmpty)
        BY <4>1, FirstEmptyIsEmpty, BoundsAssumption
      <4>3. count # MaxWallets
        BY <4>2, RoomLeft, BoundsAssumption
           DEF SyncInv, SyncStored, SlotsConsistent, SyncTypeOK, DataTypeOK
      <4>4. x.name = w.name
        BY <1>3 DEF WithAttempt, Wallet
      <4> HIDE DEF x
      <4>5. flash' = [flash EXCEPT ![FirstEmpty] = x] /\ idx' = FirstEmpty
        BY <1>6, <4>1, <4>2, <4>3, <4>4 DEF RecordWriteAttempt, AddWalletToFlash, x
      <4>6. QED
        BY <1>3, <1>4, <4>2, <4>5
    <3>2. CASE ~Unsaved
      <4>1. k # 1
        BY <1>1, <1>6, <3>2, OnFlash DEF NewWallet, Unsaved
      <4>2. idx' = idx /\ (flash' = flash \/ flash' = [flash EXCEPT ![idx] = x])
        BY <1>6, <4>1 DEF RecordWriteAttempt, PutWalletFlash
      <4> HIDE DEF x
      <4>3. QED
        BY <1>3, <1>4, <3>2, <4>2
    <3>3. QED
      BY <3>1, <3>2
  <2>3. CreatedUnlocked'
    BY <1>4, <2>1, <2>2 DEF CreatedUnlocked
  <2>4. QED
    BY <1>1, <1>2, <2>3, TapInCreation DEF WritePlaces
<1>7. QED
  BY <1>5, <1>6

(* A card stores the share only if nothing has that name, and only the     *)
(* card tapped is changed.                                                 *)
LEMMA AddWalletTap ==
    ASSUME SyncInv, TapInv, AddWalletAcked \/ AddWalletAnswerLost \/ AddWalletNotDone
    PROVE  TapInv'
<1>1. /\ pc = "add" /\ flow = "create" /\ AtCreation /\ ~Unsaved /\ k \in Cards
      /\ cards \in [Cards -> [Names -> Holding]]
      /\ cards' = cards \/ cards' = [cards EXCEPT ![k][target] = shares[k]]
      /\ UNCHANGED flash
  BY DEF AddWalletAcked, AddWalletAnswerLost, AddWalletNotDone, StoreOnCard, AtCreation,
         Unsaved, SyncInv, SyncTypeOK, DataTypeOK, SyncFlow, FlowAt, WritePlaces, stored
<1>2. CASE EndFlow
  BY <1>2, TapElsewhere DEF EndFlow
<1>3. CASE pc' \in {"write", "post"} /\ UNCHANGED <<k, ram>>
  <2>1. \A c \in 1..(k - 1) : cards'[c][target] = cards[c][target]
    BY <1>1, BoundsAssumption DEF Cards
  <2>2. ReadSoFar'
    BY <1>1, <1>3, <2>1 DEF TapInv, ReadSoFar, ram
  <2>3. CreatedUnlocked'
    BY <1>1, <1>3 DEF TapInv, CreatedUnlocked, ram
  <2>4. QED
    BY <1>3, <2>2, <2>3, TapInCreation DEF WritePlaces
<1>4. QED
  BY <1>2, <1>3 DEF AddWalletAcked, AddWalletAnswerLost, AddWalletNotDone

LEMMA WriteSharePostProcessTap ==
    ASSUME SyncInv, TapInv, WriteSharePostProcess
    PROVE  TapInv'
<1>1. /\ pc = "post" /\ pc' = "read" /\ AtCreation /\ ~Unsaved /\ k \in Cards
      /\ UNCHANGED <<sec, cards, k, flow, target, idx>>
      /\ shares' = [shares EXCEPT ![k] = NoShare] /\ w' = Written(w, k)
      /\ flash' = flash \/ flash' = [flash EXCEPT ![idx] = Written(w, k)]
  BY DEF WriteSharePostProcess, PutWalletFlash, AtCreation, Unsaved, SyncInv, SyncFlow,
         FlowAt, WritePlaces
<1>2. /\ ~w.locked /\ ~flash[idx].locked /\ w \in Wallet /\ idx \in Slots
      /\ flash \in [Slots -> Wallet] /\ shares \in [{Device} \cup Cards -> Holding]
  BY <1>1 DEF TapInv, CreatedUnlocked, SyncInv, SyncTypeOK, DataTypeOK
<1>3. ~Written(w, k).locked
  BY <1>2 DEF Written, Wallet
<1>4. CreatedUnlocked'
  BY <1>1, <1>2, <1>3 DEF CreatedUnlocked
<1>5. ReadSoFar'
  <2>1. \A c \in 1..(k - 1) : shares'[c] = shares[c]
    BY <1>1, <1>2 DEF Cards
  <2>2. QED
    BY <1>1, <2>1 DEF TapInv, ReadSoFar
<1>6. QED
  BY <1>1, <1>4, <1>5, TapInCreation DEF ReadPlaces

LEMMA VerifyStartTap ==
    ASSUME SyncInv, NEW s \in Slots, VerifyStart(s)
    PROVE  TapInv'
<1>1. pc' = "read" /\ flow' = "verify" /\ k' = 1
  BY DEF VerifyStart, SyncInv, SyncFlow, FlowAt
<1>2. ReadSoFar'
  BY <1>1 DEF ReadSoFar
<1>3. QED
  BY <1>1, <1>2, TapInVerification DEF ReadPlaces

LEMMA ReadCardShareTap ==
    ASSUME SyncInv, TapInv, ReadCardShare
    PROVE  TapInv'
<1>1. /\ pc = "read" /\ k \in Cards /\ flow \in {"create", "verify"}
      /\ shares' = [shares EXCEPT ![k] = cards[k][target]]
      /\ UNCHANGED <<flash, cards, flow, target, w, idx>>
      /\ shares \in [{Device} \cup Cards -> Holding]
      /\ \A c \in 1..(k - 1) : shares[c] = cards[c][target]
  BY DEF ReadCardShare, SyncInv, SyncTypeOK, DataTypeOK, SyncFlow, FlowAt, ReadPlaces,
         TapInv, ReadSoFar, stored
<1>2. \A c \in 1..k : shares'[c] = cards[c][target]
  BY <1>1 DEF Cards
<1>3. \/ pc' = "load" /\ k = NumCards
      \/ pc' = (IF flow = "create" THEN "write" ELSE "read") /\ k' = k + 1
  BY DEF ReadCardShare
<1>4. ReadSoFar'
  BY <1>1, <1>2, <1>3 DEF ReadSoFar, Cards
<1>5. CASE flow = "create"
  <2>1. AtCreation /\ ~Unsaved
    BY <1>1, <1>5 DEF AtCreation, ReadPlaces, Unsaved
  <2>2. CreatedUnlocked'
    BY <1>1, <2>1 DEF TapInv, CreatedUnlocked
  <2>3. QED
    BY <1>3, <1>4, <1>5, <2>2, TapInCreation DEF ReadPlaces, WritePlaces
<1>6. CASE flow = "verify"
  BY <1>1, <1>3, <1>4, <1>6, TapInVerification DEF ReadPlaces
<1>7. QED
  BY <1>1, <1>5, <1>6

(* The vault's share is loaded from the slot only if it is of its id. *)
LEMMA LoadDeviceShareTap ==
    ASSUME SyncInv, TapInv, LoadDeviceShare
    PROVE  TapInv'
<1> DEFINE s == IndexByName(target)
<1>1. /\ pc = "load" /\ pc' = "set_state" /\ flow \in {"create", "verify"}
      /\ UNCHANGED <<sec, cards, flow, target, w, idx>>
      /\ shares \in [{Device} \cup Cards -> Holding] /\ flash \in [Slots -> Wallet]
      /\ \A c \in Cards : shares[c] = cards[c][target]
  BY DEF LoadDeviceShare, SyncInv, SyncTypeOK, DataTypeOK, SyncFlow, FlowAt, ReadPlaces,
         TapInv, ReadSoFar
<1>2. \/ /\ ~NameTaken(target) \/ ShareNotPresent(s)
         /\ UNCHANGED <<flash, shares>>
      \/ /\ NameTaken(target) /\ ~ShareNotPresent(s) /\ SecShareMatches(s)
         /\ shares' = [shares EXCEPT ![Device] = sec[s]] /\ UNCHANGED flash
      \/ /\ NameTaken(target) /\ ~ShareNotPresent(s) /\ ~SecShareMatches(s)
         /\ flash' = [flash EXCEPT ![s].state = "no_device_share"] /\ UNCHANGED shares
  BY DEF LoadDeviceShare
<1>3. NameTaken(target) =>
        /\ s \in Slots /\ Named(s, target)
        /\ \A t \in Slots : Named(t, target) => t = s
  BY SlotOfName DEF SyncInv, SyncStored
<1> HIDE DEF s
<1>4. \A c \in Cards : shares'[c] = cards'[c][target']
  BY <1>1, <1>2 DEF Cards
<1>5. ASSUME NEW t \in Slots, (Named(t, target))', ~(ShareNotPresent(t))'
      PROVE  sec'[t] = shares'[Device] /\ (SecShareMatches(t))'
  <2>1. CASE UNCHANGED flash
    <3>1. NameTaken(target) /\ t = s /\ ~ShareNotPresent(s)
      BY <1>1, <1>3, <1>5, <2>1 DEF Named, Filled, NameTaken, ShareNotPresent
    <3>2. SecShareMatches(s)
      BY <1>1, <1>2, <1>3, <2>1, <3>1 DEF ShareNotPresent, Wallet
    <3>3. shares' = [shares EXCEPT ![Device] = sec[s]]
      BY <1>2, <3>1, <3>2
    <3>4. QED
      BY <1>1, <2>1, <3>1, <3>2, <3>3 DEF SecShareMatches
  <2>2. CASE NameTaken(target) /\ flash' = [flash EXCEPT ![s].state = "no_device_share"]
    <3>1. t # s
      BY <1>1, <1>3, <1>5, <2>2 DEF ShareNotPresent
    <3>2. Named(t, target)
      BY <1>1, <1>3, <1>5, <2>2, <3>1 DEF Named, Filled
    <3>3. QED
      BY <1>3, <2>2, <3>1, <3>2
  <2>3. QED
    BY <1>2, <2>1, <2>2
<1>6. ReadSoFar'
  BY <1>1, <1>4, <1>5 DEF ReadSoFar
<1>7. CASE flow = "create"
  <2>1. AtCreation /\ ~Unsaved
    BY <1>1, <1>7 DEF AtCreation, ReadPlaces, Unsaved
  <2>2. flash'[idx].locked = flash[idx].locked /\ ~flash[idx].locked /\ ~w.locked
    BY <1>1, <1>2, <2>1
       DEF TapInv, CreatedUnlocked, SyncInv, SyncTypeOK, DataTypeOK, Wallet
  <2>3. CreatedUnlocked'
    BY <1>1, <2>2 DEF CreatedUnlocked
  <2>4. QED
    BY <1>1, <1>6, <2>3, TapInCreation DEF ReadPlaces
<1>8. CASE flow = "verify"
  BY <1>1, <1>6, <1>8, TapInVerification DEF ReadPlaces
<1>9. QED
  BY <1>1, <1>7, <1>8

-----------------------------------------------------------------------------
(* The steps of a deletion: the slot it is about is the one of its name,   *)
(* and no mark is ever set, so that a slot with every mark is at card 1.   *)

LEMMA DeleteStartTap ==
    ASSUME SyncInv, NEW s \in Slots, DeleteStart(s)
    PROVE  TapInv'
<1>1. pc' = "check" /\ k' = 1
  BY DEF DeleteStart, SyncInv, SyncFlow, FlowAt
<1>2. EraseMatches' /\ DeletesInOrder'
  BY <1>1 DEF EraseMatches, DeletesInOrder
<1>3. QED
  BY <1>1, <1>2, TapInDeletion DEF DeletePlaces

(* In a deletion the slots of that name are one. *)
LEMMA DeletionSlotOnly ==
    ASSUME SyncInv, pc \in DeletePlaces
    PROVE  \A s \in Slots : Named(s, target) => s = IndexByName(target)
BY DeletionSlot, SlotOfName DEF SyncInv, SyncStored

LEMMA DeleteCheckCardTap ==
    ASSUME SyncInv, TapInv, DeleteCheckCard
    PROVE  TapInv'
<1> DEFINE s == IndexByName(target)
<1>1. /\ pc = "check" /\ pc \in DeletePlaces
      /\ UNCHANGED <<flash, target>> /\ k \in 1..(NumCards + 1)
      /\ flash \in [Slots -> Wallet]
  BY DEF DeleteCheckCard, DeletePlaces, stored, ram, SyncInv, SyncTypeOK, DataTypeOK
<1>2. /\ s \in Slots
      /\ \A t \in Slots : Named(t, target) => t = s
  BY <1>1, DeletionSlot, DeletionSlotOnly
<1> HIDE DEF s
<1>3. \/ pc' \in {"assert_failed", "finish"}
      \/ pc' = "fetch" /\ UNCHANGED k
      \/ pc' = "check" /\ k \in Cards /\ k \notin CardState(s)
  BY <1>1, BoundsAssumption DEF DeleteCheckCard, Cards, s
<1>4. CASE pc' \in {"assert_failed", "finish"}
  BY <1>4, TapElsewhere
<1>5. CASE pc' = "fetch" /\ UNCHANGED k
  <2>1. DeletesInOrder'
    BY <1>1, <1>5 DEF TapInv, DeletesInOrder, Named, Filled
  <2>2. QED
    BY <1>5, <2>1, TapInDeletion DEF EraseMatches, DeletePlaces
<1>6. CASE pc' = "check" /\ k \in Cards /\ k \notin CardState(s)
  <2>1. DeletesInOrder'
    BY <1>1, <1>2, <1>6 DEF DeletesInOrder, Named, Filled, CardState
  <2>2. QED
    BY <1>6, <2>1, TapInDeletion DEF EraseMatches, DeletePlaces
<1>7. QED
  BY <1>3, <1>4, <1>5, <1>6

(* A card whose bits are cleared is no longer among the marked ones. *)
LEMMA BitsClearedTap ==
    ASSUME SyncInv, pc \in DeletePlaces, pc' = "check", k \in Cards,
           ClearCardBits(IndexByName(target), k), UNCHANGED target
    PROVE  TapInv'
<1> DEFINE s == IndexByName(target)
<1>1. /\ s \in Slots /\ flash \in [Slots -> Wallet]
      /\ \A t \in Slots : Named(t, target) => t = s
  BY DeletionSlot, DeletionSlotOnly DEF SyncInv, SyncTypeOK, DataTypeOK
<1>2. flash' = [flash EXCEPT ![s].written = @ \ {k}, ![s].attempted = @ \ {k}]
  BY DEF ClearCardBits
<1> HIDE DEF s
<1>3. \A t \in Slots : (Named(t, target))' => t = s
  BY <1>1, <1>2 DEF Named, Filled, Wallet
<1>4. k \notin flash'[s].written
  BY <1>1, <1>2 DEF Wallet
<1>5. DeletesInOrder'
  BY <1>3, <1>4 DEF DeletesInOrder
<1>6. QED
  BY <1>5, TapInDeletion DEF EraseMatches, DeletePlaces

(* Only a wallet that fits the slot is erased from a card. *)
LEMMA CardFetchShareTap ==
    ASSUME SyncInv, TapInv, CardFetchShare
    PROVE  TapInv'
<1> DEFINE s == IndexByName(target)
<1>1. pc = "fetch" /\ pc \in DeletePlaces /\ k \in Cards
  BY DEF CardFetchShare, DeletePlaces, SyncInv, SyncFlow, FlowAt
<1>2. s \in Slots /\ \A t \in Slots : Named(t, target) => t = s
  BY <1>1, DeletionSlot, DeletionSlotOnly
<1>3. CASE FetchAccepted
  <2>1. pc' = "erase" /\ UNCHANGED <<flash, sec, cards, k, target>>
    BY <1>3 DEF FetchAccepted, stored, ram
  <2>2. Holds(k, target) => /\ ~ShareNotPresent(s) => SecShareMatches(s)
                            /\ cards[k][target].id = flash[s].id
    BY <1>3 DEF FetchAccepted, FetchedMatches
  <2> HIDE DEF s
  <2>3. EraseMatches'
    BY <1>2, <2>1, <2>2
       DEF EraseMatches, Named, Filled, Holds, ShareNotPresent, SecShareMatches
  <2>4. DeletesInOrder'
    BY <1>1, <2>1 DEF TapInv, DeletesInOrder, Named, Filled
  <2>5. QED
    BY <2>1, <2>3, <2>4, TapInDeletion DEF DeletePlaces
<1>4. CASE FetchMismatch
  BY <1>1, <1>4, BitsClearedTap DEF FetchMismatch, ram
<1>5. CASE FetchShareMissing
  BY <1>5, TapElsewhere DEF FetchShareMissing
<1>6. QED
  BY <1>3, <1>4, <1>5 DEF CardFetchShare

(* After the command the card holds nothing under that name. *)
LEMMA EraseTap ==
    ASSUME SyncInv, TapInv, EraseAcked \/ EraseAnswerLost
    PROVE  TapInv'
<1>1. /\ pc = "erase" /\ pc' \in {"erase", "mark", "finish"} /\ k \in Cards
      /\ target \in Names /\ cards' = [cards EXCEPT ![k][target] = NoShare]
      /\ cards \in [Cards -> [Names -> Holding]]
      /\ UNCHANGED <<flash, sec, k, target>>
  BY DEF EraseAcked, EraseAnswerLost, StoreOnCard, stored, ram, SyncInv, SyncTypeOK,
         DataTypeOK, SyncFlow, FlowAt, DeletePlaces
<1>2. ~(Holds(k, target))'
  BY <1>1 DEF Holds
<1>3. EraseMatches'
  BY <1>2 DEF EraseMatches
<1>4. DeletesInOrder'
  BY <1>1 DEF TapInv, DeletesInOrder, Named, Filled
<1>5. QED
  BY <1>1, <1>3, <1>4, TapInDeletion DEF DeletePlaces

LEMMA FinishDeleteTap ==
    ASSUME FinishDelete
    PROVE  TapInv'
<1>1. \/ pc' \in {"menu", "assert_failed", "free_slot"}
      \/ pc' = "check" /\ k' = 1
  BY DEF FinishDelete, EndFlow
<1>2. CASE pc' = "check" /\ k' = 1
  BY <1>2, TapInDeletion DEF EraseMatches, DeletesInOrder, DeletePlaces
<1>3. QED
  BY <1>1, <1>2, TapElsewhere

-----------------------------------------------------------------------------
LEMMA NextTap == SyncInv /\ TapInv /\ [SyncNext]_syncVars => TapInv'
<1> SUFFICES ASSUME SyncInv, TapInv, [SyncNext]_syncVars PROVE TapInv'
  OBVIOUS
<1>1. CASE Create
  <2>1. CASE AbandonCreate
    BY <2>1, TapElsewhere DEF AbandonCreate, EndFlow
  <2>2. QED
    BY <1>1, <2>1, CreateStartTap, SaveShareToDeviceTap, RecordWriteAttemptTap,
       AddWalletTap, WriteSharePostProcessTap DEF Create
<1>2. CASE Verify
  <2>1. CASE ReadCardFails \/ ReadCardLocked \/ SetVerifiedState
    BY <2>1, TapElsewhere DEF ReadCardFails, ReadCardLocked, SetVerifiedState, EndFlow
  <2>2. QED
    BY <1>2, <2>1, VerifyStartTap, ReadCardShareTap, LoadDeviceShareTap DEF Verify
<1>3. CASE Delete
  <2>1. CASE DeleteTapFails \/ FreeSlot
    BY <2>1, TapElsewhere DEF DeleteTapFails, FreeSlot, EndFlow
  <2>2. CASE MarkDeletedFromCard
    <3>1. pc \in DeletePlaces /\ pc' = "check" /\ k \in Cards /\ UNCHANGED target
          /\ ClearCardBits(IndexByName(target), k)
      BY <2>2 DEF MarkDeletedFromCard, DeletePlaces, ram, SyncInv, SyncFlow, FlowAt
    <3>2. QED
      BY <3>1, BitsClearedTap
  <2>3. QED
    BY <1>3, <2>1, <2>2, DeleteStartTap, DeleteCheckCardTap, CardFetchShareTap, EraseTap,
       FinishDeleteTap DEF Delete
<1>4. CASE Unlock
  BY <1>4, TapElsewhere DEF Unlock, UnlockWallet
<1>5. CASE Sync
  <2>1. pc' \in {"menu", "sync_add", "sync_next", "sync_tap", "sync_put", "sync_state"}
    BY <1>5 DEF Sync, SyncWithCards, SyncAddWallet, SyncListDone, SyncNextWallet,
                SyncOneWallet, SyncFetch, SyncWrongPin, SyncAbandoned, SyncPutShare,
                SyncSetValid, EndFlow
  <2>2. QED
    BY <2>1, TapElsewhere
<1>6. CASE Reset \/ SyncReboot
  BY <1>6, TapElsewhere DEF Reset, EraseSecFlash, EraseFlash, SyncReboot, Reboot
<1>7. CASE UNCHANGED syncVars
  BY <1>7
     DEF syncVars, vars, stored, ram, TapInv, ReadSoFar, EraseMatches, DeletesInOrder,
         CreatedUnlocked, AtCreation, Unsaved, Named, Filled, Holds, ShareNotPresent,
         SecShareMatches
<1>8. QED
  BY <1>1, <1>2, <1>3, <1>4, <1>5, <1>6, <1>7 DEF SyncNext

(* What the flows know of the cards holds in every reachable state.        *)
THEOREM TapInvariance == SyncSpec => [](SyncInv /\ TapInv)
<1>1. SyncInit => TapInv
  BY DEF SyncInit, Init, TapInv, ReadSoFar, EraseMatches, DeletesInOrder, CreatedUnlocked,
         AtCreation, WritePlaces, ReadPlaces
<1>2. QED
  BY <1>1, NextTap, SyncInvariance, PTL DEF SyncSpec

-----------------------------------------------------------------------------
(* What a step may make of a slot. *)

(* A save of the creation flow. *)
Recorded(s) ==
    /\ flash[s].state = "unverified" /\ ~flash[s].locked /\ flash'[s].state = "unverified"
    /\ flash'[s].name = flash[s].name /\ flash'[s].id = flash[s].id

Relocked(s) == \E b \in BOOLEAN : /\ flash'[s] = [flash[s] EXCEPT !.locked = b]
                                  /\ b \/ UnlockWallet(s)

Unmarked(s) == \E c \in Cards : flash'[s] = [flash[s] EXCEPT !.written = @ \ {c},
                                                             !.attempted = @ \ {c}]

Judged(s) == \E st \in {"invalid", "no_device_share"} :
               flash'[s] = [flash[s] EXCEPT !.state = st]

MadeValid(s) ==
    /\ SyncSetValid \/ (SetVerifiedState /\ SharesAgree)
    /\ s = IndexByName(target) /\ Named(s, target) /\ target \in Names
    /\ \A t \in Slots : Named(t, target) => t = s
    /\ flash'[s] = [flash[s] EXCEPT !.state = "valid"]

SlotStep(s) == \/ flash'[s] = flash[s] \/ flash'[s].state = "default"
               \/ Recorded(s) \/ Relocked(s) \/ Unmarked(s) \/ Judged(s) \/ MadeValid(s)

(* The creation flow records its progress in the slot it has taken, which  *)
(* stays unverified and unlocked, or in an empty one.                      *)
LEMMA CreationStep ==
    ASSUME SyncInv, TapInv, RecordWriteAttempt \/ WriteSharePostProcess,
           NEW s \in Slots, Filled(s)
    PROVE  flash'[s] = flash[s] \/ Recorded(s)
<1>1. AtCreation /\ k \in Cards /\ flash \in [Slots -> Wallet] /\ w \in Wallet /\ idx \in Slots
  BY DEF RecordWriteAttempt, WriteSharePostProcess, SyncInv, SyncFlow, FlowAt, WritePlaces,
         AtCreation, SyncTypeOK, DataTypeOK
<1>2. CASE Unsaved
  <2>1. FirstEmpty \in Slots /\ FirstEmpty # s /\ k = 1
    BY <1>1, <1>2, FirstEmptyIsEmpty, BoundsAssumption DEF SyncInv, SyncFlow, NotYetInFlash
  <2>2. pc # "post"
    BY <1>2 DEF Unsaved
  <2>3. QED
    BY <1>1, <2>1, <2>2
       DEF RecordWriteAttempt, WriteSharePostProcess, AddWalletToFlash
<1>3. CASE ~Unsaved
  <2>1. /\ NewWallet /\ flash[idx].name = w.name /\ flash[idx].id = w.id
        /\ w.state = "unverified" /\ flash[idx].state = "unverified" /\ ~flash[idx].locked
    BY <1>1, <1>3, OnFlash DEF InFlash, TapInv, CreatedUnlocked
  <2>2. PICK x \in {WithAttempt(w, k), Written(w, k)} :
          flash' = flash \/ flash' = [flash EXCEPT ![idx] = x]
    <3>1. CASE RecordWriteAttempt
      <4>1. k # 1 \/ k \in w.attempted
        BY <1>1, <1>3, <2>1, <3>1 DEF NewWallet, Unsaved, RecordWriteAttempt
      <4>2. QED
        BY <3>1, <4>1 DEF RecordWriteAttempt, PutWalletFlash
    <3>2. CASE WriteSharePostProcess
      BY <3>2 DEF WriteSharePostProcess, PutWalletFlash
    <3>3. QED
      BY <3>1, <3>2
  <2>3. x.name = w.name /\ x.id = w.id /\ x.state = "unverified"
    BY <1>1, <2>1, <2>2 DEF WithAttempt, Written, Wallet
  <2>4. QED
    BY <1>1, <2>1, <2>2, <2>3 DEF Recorded
<1>4. QED
  BY <1>2, <1>3

LEMMA LockedStep ==
    ASSUME SyncInv, SetLocked(target), NEW s \in Slots
    PROVE  flash'[s] = flash[s] \/ Relocked(s)
<1>1. flash \in [Slots -> Wallet] /\ TRUE \in BOOLEAN
  BY DEF SyncInv, SyncTypeOK, DataTypeOK
<1>2. CASE NameTaken(target)
  <2> DEFINE t == IndexByName(target)
  <2>1. t \in Slots
    BY <1>2, SlotOfName DEF SyncInv, SyncStored
  <2>2. flash' = [flash EXCEPT ![t] = [flash[t] EXCEPT !.locked = TRUE]]
    BY <1>2 DEF SetLocked
  <2> HIDE DEF t
  <2>3. flash'[s] = flash[s] \/ flash'[s] = [flash[s] EXCEPT !.locked = TRUE]
    BY <1>1, <2>1, <2>2
  <2>4. QED
    BY <1>1, <2>3 DEF Relocked
<1>3. QED
  BY <1>2 DEF SetLocked

LEMMA VerificationStep ==
    ASSUME SyncInv, LoadDeviceShare \/ SetVerifiedState \/ SyncSetValid, NEW s \in Slots
    PROVE  flash'[s] = flash[s] \/ Judged(s) \/ MadeValid(s)
<1> DEFINE t == IndexByName(target)
<1>1. flash \in [Slots -> Wallet]
  BY DEF SyncInv, SyncTypeOK, DataTypeOK
<1>2. target \in Names /\ (SyncSetValid => NameTaken(target))
  BY DEF LoadDeviceShare, SetVerifiedState, SyncSetValid, SyncInv, SyncFlow, FlowAt,
         ReadPlaces, SharesFetched
<1>3. CASE NameTaken(target)
  <2>1. t \in Slots /\ Named(t, target) /\ \A u \in Slots : Named(u, target) => u = t
    BY <1>3, SlotOfName DEF SyncInv, SyncStored
  <2>2. \/ flash' = flash
        \/ \E st \in {"invalid", "no_device_share"} :
             flash' = [flash EXCEPT ![t] = [flash[t] EXCEPT !.state = st]]
        \/ /\ SyncSetValid \/ (SetVerifiedState /\ SharesAgree)
           /\ flash' = [flash EXCEPT ![t] = [flash[t] EXCEPT !.state = "valid"]]
    BY <1>3 DEF LoadDeviceShare, SetVerifiedState, SyncSetValid
  <2>3. CASE flash' = flash
    BY <2>3
  <2>4. CASE \E st \in {"invalid", "no_device_share"} :
               flash' = [flash EXCEPT ![t] = [flash[t] EXCEPT !.state = st]]
    <3> HIDE DEF t
    <3>1. QED
      BY <1>1, <2>1, <2>4 DEF Judged
  <2>5. CASE /\ SyncSetValid \/ (SetVerifiedState /\ SharesAgree)
             /\ flash' = [flash EXCEPT ![t] = [flash[t] EXCEPT !.state = "valid"]]
    <3>1. CASE s # t
      <4> HIDE DEF t
      <4>1. QED
        BY <1>1, <2>1, <2>5, <3>1
    <3>2. CASE s = t
      <4>1. flash'[s] = [flash[s] EXCEPT !.state = "valid"]
        <5> HIDE DEF t
        <5>1. QED
          BY <1>1, <2>1, <2>5, <3>2
      <4>2. QED
        BY <1>2, <2>1, <2>5, <3>2, <4>1, Zenon DEF MadeValid
    <3>3. QED
      BY <3>1, <3>2
  <2>6. QED
    BY <2>2, <2>3, <2>4, <2>5
<1>4. CASE ~NameTaken(target)
  BY <1>2, <1>4 DEF LoadDeviceShare, SetVerifiedState
<1>5. QED
  BY <1>3, <1>4

LEMMA DeletionStep ==
    ASSUME SyncInv, Delete, NEW s \in Slots
    PROVE  SlotStep(s)
<1> DEFINE t == IndexByName(target)
<1>1. flash \in [Slots -> Wallet]
  BY DEF SyncInv, SyncTypeOK, DataTypeOK
<1>2. \/ UNCHANGED flash \/ SetLocked(target) \/ FreeSlot
      \/ pc \in {"fetch", "mark"} /\ ClearCardBits(t, k)
      \/ pc = "fetch" /\ flash' = [flash EXCEPT ![t].state = "no_device_share"]
  BY DEF Delete, DeleteStart, DeleteCheckCard, CardFetchShare, FetchAccepted,
         FetchMismatch, FetchShareMissing, DeleteTapFails, EraseAcked, EraseAnswerLost,
         MarkDeletedFromCard, FinishDelete, stored
<1>3. CASE UNCHANGED flash
  BY <1>3 DEF SlotStep
<1>4. CASE SetLocked(target)
  BY <1>4, LockedStep DEF SlotStep
<1>5. CASE pc \in DeletePlaces /\ (\/ FreeSlot
                                   \/ k \in Cards /\ ClearCardBits(t, k)
                                   \/ flash' = [flash EXCEPT ![t].state = "no_device_share"])
  <2>1. t \in Slots
    BY <1>5, DeletionSlot
  <2>2. \/ flash' = [flash EXCEPT ![t] = [flash[t] EXCEPT !.state = "default", !.name = None,
                                             !.written = {}, !.attempted = {}]]
        \/ /\ k \in Cards
           /\ flash' = [flash EXCEPT ![t] = [flash[t] EXCEPT !.written = @ \ {k},
                                                             !.attempted = @ \ {k}]]
        \/ flash' = [flash EXCEPT ![t] = [flash[t] EXCEPT !.state = "no_device_share"]]
    BY <1>1, <1>5, <2>1 DEF FreeSlot, ClearCardBits
  <2> HIDE DEF t
  <2>3. \/ flash'[s] = flash[s]
        \/ flash'[s] = [flash[s] EXCEPT !.state = "default", !.name = None,
                                        !.written = {}, !.attempted = {}]
        \/ /\ k \in Cards
           /\ flash'[s] = [flash[s] EXCEPT !.written = @ \ {k}, !.attempted = @ \ {k}]
        \/ flash'[s] = [flash[s] EXCEPT !.state = "no_device_share"]
    BY <1>1, <2>1, <2>2
  <2>4. flash[s] \in Wallet
    BY <1>1
  <2>5. ASSUME flash'[s] = [flash[s] EXCEPT !.state = "default", !.name = None,
                                           !.written = {}, !.attempted = {}]
        PROVE  flash'[s].state = "default"
    BY <2>4, <2>5 DEF Wallet
  <2>6. QED
    BY <2>3, <2>5 DEF SlotStep, Unmarked, Judged
<1>6. pc \in {"fetch", "mark"} => k \in Cards
  BY DEF SyncInv, SyncFlow, FlowAt
<1>7. QED
  BY <1>2, <1>3, <1>4, <1>5, <1>6 DEF FreeSlot, DeletePlaces

(* A filled slot is emptied, keeps its name and id, or becomes valid in    *)
(* the last step of a verification or of a synchronisation.                *)
LEMMA SlotAfter ==
    ASSUME SyncInv, TapInv, SyncNext, NEW s \in Slots, Filled(s)
    PROVE  SlotStep(s)
<1>1. flash \in [Slots -> Wallet]
  BY DEF SyncInv, SyncTypeOK, DataTypeOK
<1>2. CASE UNCHANGED flash
  BY <1>2 DEF SlotStep
<1>3. CASE Create
  <2>1. UNCHANGED flash \/ RecordWriteAttempt \/ WriteSharePostProcess
    BY <1>3 DEF Create, CreateStart, SaveShareToDevice, AddWalletAcked,
                AddWalletAnswerLost, AddWalletNotDone, AbandonCreate, stored
  <2>2. QED
    BY <1>2, <2>1, CreationStep DEF SlotStep
<1>4. CASE Verify
  <2>1. UNCHANGED flash \/ SetLocked(target) \/ LoadDeviceShare \/ SetVerifiedState
    BY <1>4 DEF Verify, VerifyStart, ReadCardShare, ReadCardFails, ReadCardLocked, stored
  <2>2. QED
    BY <1>2, <2>1, LockedStep, VerificationStep DEF SlotStep
<1>5. CASE Unlock
  <2>1. PICK t \in Slots : UnlockWallet(t)
    BY <1>5 DEF Unlock
  <2>2. flash' = [flash EXCEPT ![t] = [flash[t] EXCEPT !.locked = FALSE]]
    BY <2>1 DEF UnlockWallet
  <2>3. \/ flash'[s] = flash[s]
        \/ s = t /\ flash'[s] = [flash[s] EXCEPT !.locked = FALSE]
    BY <1>1, <2>2
  <2>4. FALSE \in BOOLEAN
    OBVIOUS
  <2>5. QED
    BY <2>1, <2>3, <2>4, Zenon DEF SlotStep, Relocked
<1>6. CASE Sync
  <2>1. \/ UNCHANGED flash \/ SetLocked(target) \/ SyncSetValid
        \/ flash' = [t \in Slots |-> NoWallet]
        \/ \E n \in Names, isLocked \in BOOLEAN : SyncAddWallet(n, isLocked)
    BY <1>6 DEF Sync, SyncWithCards, SyncListDone, SyncNextWallet, SyncOneWallet,
                SyncFetch, SyncWrongPin, SyncAbandoned, SyncPutShare, stored
  <2>2. CASE flash' = [t \in Slots |-> NoWallet]
    BY <2>2 DEF SlotStep, NoWallet
  <2>3. CASE \E n \in Names, isLocked \in BOOLEAN : SyncAddWallet(n, isLocked)
    <3>1. PICK n \in Names, isLocked \in BOOLEAN : SyncAddWallet(n, isLocked)
      BY <2>3
    <3>2. CASE count = MaxWallets
      BY <1>2, <3>1, <3>2 DEF SyncAddWallet
    <3>3. CASE count # MaxWallets
      <4>1. FirstEmpty \in Slots /\ FirstEmpty # s
        BY <3>3, SlotLeft DEF SyncInv, SyncStored
      <4>2. flash'[s] = flash[s]
        BY <1>1, <3>1, <3>3, <4>1 DEF SyncAddWallet
      <4>3. QED
        BY <4>2 DEF SlotStep
    <3>4. QED
      BY <3>2, <3>3
  <2>4. QED
    BY <1>2, <2>1, <2>2, <2>3, LockedStep, VerificationStep DEF SlotStep
<1>7. CASE Reset \/ SyncReboot
  <2>1. UNCHANGED flash \/ flash' = [t \in Slots |-> NoWallet]
    BY <1>7 DEF Reset, EraseSecFlash, EraseFlash, SyncReboot, Reboot, stored
  <2>2. QED
    BY <1>2, <2>1 DEF SlotStep, NoWallet
<1>8. QED
  BY <1>3, <1>4, <1>5, <1>6, <1>7, DeletionStep DEF SyncNext

(* A slot that was empty does not become valid. *)
LEMMA EmptySlotAfter ==
    ASSUME SyncInv, SyncNext, NEW s \in Slots, ~Filled(s)
    PROVE  flash'[s].state # "valid"
<1> DEFINE t == IndexByName(target)
<1>1. /\ flash \in [Slots -> Wallet] /\ flash[s].state # "valid" /\ w \in Wallet
      /\ idx \in Slots
  BY DEF SyncInv, SyncTypeOK, DataTypeOK, Filled
<1>2. NameTaken(target) => t \in Slots /\ t # s
  BY SlotOfName DEF SyncInv, SyncStored, Named
<1>3. CASE UNCHANGED flash
  BY <1>1, <1>3
<1>4. CASE \E n \in Names, isLocked \in BOOLEAN : SyncAddWallet(n, isLocked)
  <2>1. PICK n \in Names, isLocked \in BOOLEAN : SyncAddWallet(n, isLocked)
    BY <1>4
  <2> DEFINE x == SyncedWallet(n, cards[k][n].id, isLocked)
  <2>2. x.state # "valid" /\ (UNCHANGED flash \/ flash' = [flash EXCEPT ![FirstEmpty] = x])
    BY <2>1 DEF SyncAddWallet, SyncedWallet
  <2> HIDE DEF x
  <2>3. QED
    BY <1>1, <2>2
<1>5. CASE RecordWriteAttempt \/ WriteSharePostProcess
  <2> DEFINE x == WithAttempt(w, k)
             y == Written(w, k)
  <2>1. AtCreation /\ k \in Cards
    BY <1>5 DEF RecordWriteAttempt, WriteSharePostProcess, SyncInv, SyncFlow, FlowAt,
                WritePlaces, AtCreation
  <2>2. ~Unsaved => w.state = "unverified"
    BY <2>1, OnFlash
  <2>3. x.state = (IF k = 1 THEN "unverified" ELSE w.state) /\ y.state = w.state
    BY <1>1 DEF WithAttempt, Written, Wallet
  <2> HIDE DEF x, y
  <2>4. CASE RecordWriteAttempt
    <3>1. k = 1 \/ ~Unsaved
      BY <2>1 DEF Unsaved, SyncInv, SyncFlow, NotYetInFlash
    <3>2. x.state # "valid"
      BY <2>2, <2>3, <3>1
    <3>3. \/ flash' = flash \/ flash' = [flash EXCEPT ![FirstEmpty] = x]
          \/ flash' = [flash EXCEPT ![idx] = x]
      BY <2>4 DEF RecordWriteAttempt, AddWalletToFlash, PutWalletFlash, x
    <3>4. QED
      BY <1>1, <3>2, <3>3
  <2>5. CASE WriteSharePostProcess
    <3>1. y.state # "valid"
      BY <2>2, <2>3, <2>5 DEF WriteSharePostProcess, Unsaved
    <3>2. flash' = flash \/ flash' = [flash EXCEPT ![idx] = y]
      BY <2>5 DEF WriteSharePostProcess, PutWalletFlash, y
    <3>3. QED
      BY <1>1, <3>1, <3>2
  <2>6. QED
    BY <1>5, <2>4, <2>5
<1>6. CASE Unlock
  <2>1. PICK u \in Slots : UnlockWallet(u)
    BY <1>6 DEF Unlock
  <2>2. u # s
    BY <2>1 DEF UnlockWallet
  <2>3. QED
    BY <1>1, <2>1, <2>2 DEF UnlockWallet
<1>7. CASE Reset \/ SyncReboot \/ \E c \in Cards : SyncWithCards(c)
  <2>1. UNCHANGED flash \/ flash' = [u \in Slots |-> NoWallet]
    BY <1>7 DEF Reset, EraseSecFlash, EraseFlash, SyncReboot, Reboot, SyncWithCards, stored
  <2>2. QED
    BY <1>3, <2>1 DEF NoWallet
<1>8. CASE \/ SetLocked(target) \/ LoadDeviceShare \/ SetVerifiedState \/ SyncSetValid
           \/ CardFetchShare \/ MarkDeletedFromCard \/ FreeSlot
  <2>1. pc \in {"fetch", "mark", "free_slot", "sync_state"} => NameTaken(target)
    BY DEF SyncInv, SyncFlow, BeingDeleted, DeletePlaces, SharesFetched
  <2>2. UNCHANGED flash \/ (NameTaken(target) /\ \E x : flash' = [flash EXCEPT ![t] = x])
    BY <1>1, <1>2, <1>8, <2>1
       DEF SetLocked, LoadDeviceShare, SetVerifiedState, SyncSetValid, CardFetchShare,
           FetchAccepted, FetchMismatch, FetchShareMissing, MarkDeletedFromCard, FreeSlot,
           ClearCardBits, stored
  <2> HIDE DEF t
  <2>3. QED
    BY <1>1, <1>2, <1>3, <2>2
<1>9. \/ UNCHANGED flash
      \/ \E n \in Names, isLocked \in BOOLEAN : SyncAddWallet(n, isLocked)
      \/ RecordWriteAttempt \/ WriteSharePostProcess \/ Unlock \/ Reset \/ SyncReboot
      \/ \E c \in Cards : SyncWithCards(c)
      \/ SetLocked(target) \/ LoadDeviceShare \/ SetVerifiedState \/ SyncSetValid
      \/ CardFetchShare \/ MarkDeletedFromCard \/ FreeSlot
  BY DEF SyncNext, Create, CreateStart, SaveShareToDevice, AddWalletAcked,
         AddWalletAnswerLost, AddWalletNotDone, AbandonCreate, Verify, VerifyStart,
         ReadCardShare, ReadCardFails, ReadCardLocked, Delete, DeleteStart,
         DeleteCheckCard, DeleteTapFails, EraseAcked, EraseAnswerLost, FinishDelete,
         Sync, SyncListDone, SyncNextWallet, SyncOneWallet, SyncFetch, SyncWrongPin,
         SyncAbandoned, SyncPutShare, stored
<1>10. QED
  BY <1>3, <1>4, <1>5, <1>6, <1>7, <1>8, <1>9

(* Only the last step of a verification or a synchronisation makes a slot  *)
(* valid, the slot of the wallet it is about.                              *)
LEMMA OnlyCheckedMadeValid ==
    ASSUME SyncInv, TapInv, SyncNext, NEW s \in Slots,
           flash[s].state # "valid", flash'[s].state = "valid"
    PROVE  MadeValid(s)
<1>1. Filled(s) /\ flash[s] \in Wallet
  BY EmptySlotAfter DEF SyncInv, SyncTypeOK, DataTypeOK
<1>2. SlotStep(s)
  BY <1>1, SlotAfter
<1>3. ~Relocked(s) /\ ~Unmarked(s) /\ ~Judged(s)
  BY <1>1 DEF Relocked, Unmarked, Judged, Wallet
<1>4. QED
  BY <1>2, <1>3 DEF SlotStep, Recorded

-----------------------------------------------------------------------------
(* A subset of the cards is finite, and a larger one has more cards. *)
LEMMA CardSubsets ==
    ASSUME NEW S \in SUBSET Cards, NEW T \in SUBSET S
    PROVE  /\ IsFiniteSet(S) /\ IsFiniteSet(T)
           /\ Cardinality(S) \in Nat /\ Cardinality(T) \in Nat
           /\ Cardinality(T) <= Cardinality(S)
<1>1. IsFiniteSet(Cards)
  BY FS_Interval, BoundsAssumption DEF Cards
<1>2. IsFiniteSet(S)
  BY <1>1, FS_Subset
<1>3. QED
  BY <1>2, FS_Subset, FS_CardinalityType

LEMMA AllCards == Cardinality(Cards) = NumCards
BY FS_Interval, BoundsAssumption DEF Cards

(* At the step that makes a slot valid Threshold cards hold the share of   *)
(* the vault: those tapped in a synchronisation, all of them otherwise.    *)
LEMMA QuorumWhenValid ==
    ASSUME SyncInv, TapInv, NEW s \in Slots, MadeValid(s)
    PROVE  /\ Cardinality(Holders(sec[s])) >= Threshold
           /\ SecShareMatches(s) /\ sec[s] \in Share
<1>1. Named(s, target) /\ target \in Names
  BY DEF MadeValid
<1>2. CASE SyncSetValid
  <2>1. /\ pc = "sync_state" /\ SharesFetched /\ Cardinality(Tapped) = Threshold
    BY <1>2 DEF SyncSetValid, SyncInv, SyncFlow, SharesFetched
  <2>2. \A c \in Tapped : /\ cards[c][target] = sec[s] /\ shares[c] = sec[s]
                          /\ shares[c].id = flash[s].id
    BY <1>1, <2>1 DEF SharesFetched
  <2>3. Tapped \in SUBSET Holders(sec[s]) /\ Holders(sec[s]) \in SUBSET Cards
    BY <1>1, <2>2 DEF Holders, Tapped
  <2>4. PICK c \in Tapped : TRUE
    BY <2>1, FS_EmptySet, ThresholdAssumption
  <2>5. shares[c] \in Share
    BY DEF Tapped, SyncInv, SyncTypeOK, DataTypeOK, Holding
  <2>6. QED
    BY <2>1, <2>2, <2>3, <2>4, <2>5, CardSubsets, ThresholdAssumption DEF SecShareMatches
<1>3. CASE SetVerifiedState /\ SharesAgree
  <2>1. /\ pc = "set_state" /\ ~ShareNotPresent(s)
    BY <1>3, StateSaved DEF SetVerifiedState, MadeValid, SyncInv, SyncTypeOK, DataTypeOK,
                            Wallet
  <2>2. sec[s] = shares[Device] /\ SecShareMatches(s)
    BY <1>1, <2>1 DEF TapInv, ReadSoFar
  <2>3. \A c \in Cards : cards[c][target] = sec[s]
    BY <1>3, <2>1, <2>2 DEF TapInv, ReadSoFar, SharesAgree
  <2>4. sec[s] \in Share
    BY <1>3, <2>2 DEF SharesAgree, SyncInv, SyncTypeOK, DataTypeOK, Holding
  <2>5. Holders(sec[s]) = Cards
    BY <1>1, <2>3 DEF Holders
  <2>6. QED
    BY <2>2, <2>4, <2>5, AllCards, ThresholdAssumption, BoundsAssumption
<1>4. QED
  BY <1>2, <1>3 DEF MadeValid

(* A wallet becomes valid, verified or synchronised, only when Threshold   *)
(* cards hold the share that lies in its slot of the sec flash.            *)
THEOREM SyncTakesQuorum == SyncSpec => SyncQuorum
<1>1. SyncInv /\ TapInv /\ [SyncNext]_syncVars =>
        [\A s \in Slots :
           flash[s].state # "valid" /\ flash'[s].state = "valid" =>
             Cardinality(Holders(sec[s])) >= Threshold]_syncVars
  BY OnlyCheckedMadeValid, QuorumWhenValid
<1>2. QED
  BY <1>1, TapInvariance, PTL DEF SyncSpec, SyncQuorum

(* A lock, once in flash, is cleared by the unlock flow alone, whatever    *)
(* the flows save from their copies of the slot.                           *)
THEOREM SyncKeepsLocks == SyncSpec => LockOnlyClearedByUnlock
<1> DEFINE Kept == \A s \in Slots :
              Filled(s) /\ flash[s].locked /\ flash'[s].state # "default" =>
                flash'[s].locked \/ UnlockWallet(s)
<1>1. SyncInv /\ TapInv /\ [SyncNext]_syncVars => [Kept]_vars
  <2> SUFFICES ASSUME SyncInv, TapInv, SyncNext, NEW s \in Slots, Filled(s),
                      flash[s].locked, flash'[s].state # "default"
               PROVE  flash'[s].locked \/ UnlockWallet(s)
    BY DEF syncVars
  <2>1. SlotStep(s) /\ flash[s] \in Wallet
    BY SlotAfter DEF SyncInv, SyncTypeOK, DataTypeOK
  <2>2. CASE Relocked(s)
    BY <2>1, <2>2 DEF Relocked, Wallet
  <2>3. CASE Unmarked(s) \/ Judged(s) \/ MadeValid(s)
    BY <2>1, <2>3 DEF Unmarked, Judged, MadeValid, Wallet
  <2>4. QED
    BY <2>1, <2>2, <2>3 DEF SlotStep, Recorded
<1>2. QED
  BY <1>1, TapInvariance, PTL DEF SyncSpec, LockOnlyClearedByUnlock

(* The cards change when one stores a share it does not refuse, in a       *)
(* creation, or erases one in a deletion.                                  *)
LEMMA CardsTouched ==
    ASSUME SyncInv, SyncNext, ~UNCHANGED cards
    PROVE  \/ /\ pc = "add" /\ ~Refuses(k, target, shares[k])
              /\ StoreOnCard(k, target, shares[k])
           \/ pc = "erase" /\ StoreOnCard(k, target, NoShare) /\ UNCHANGED stored
BY DEF SyncNext, Create, CreateStart, SaveShareToDevice, RecordWriteAttempt,
       AddWalletAcked, AddWalletAnswerLost, AddWalletNotDone, AbandonCreate,
       WriteSharePostProcess, Verify, VerifyStart, ReadCardShare, ReadCardFails,
       ReadCardLocked, LoadDeviceShare, SetVerifiedState, Delete, DeleteStart,
       DeleteCheckCard, CardFetchShare, FetchAccepted, FetchMismatch, FetchShareMissing,
       DeleteTapFails, EraseAcked, EraseAnswerLost, MarkDeletedFromCard, FinishDelete,
       FreeSlot, Unlock, UnlockWallet, Sync, SyncWithCards, SyncAddWallet, SyncListDone,
       SyncNextWallet, SyncOneWallet, SyncFetch, SyncWrongPin, SyncAbandoned,
       SyncPutShare, SyncSetValid, Reset, EraseSecFlash, EraseFlash, SyncReboot, Reboot

(* Cards lose only wallets that a slot lists, by name and id, and none is  *)
(* overwritten.                                                            *)
THEOREM SyncErasesListed == SyncSpec => ErasedIsListed
<1> DEFINE Listed == \A c \in Cards, n \in Names :
              Holds(c, n) /\ cards'[c][n] # cards[c][n] =>
                /\ cards'[c][n] = NoShare
                /\ \E s \in Slots : Named(s, n) /\ flash[s].id = cards[c][n].id
<1>1. SyncInv /\ TapInv /\ [SyncNext]_syncVars => [Listed]_syncVars
  <2> SUFFICES ASSUME SyncInv, TapInv, SyncNext, NEW c \in Cards, NEW n \in Names,
                      Holds(c, n), cards'[c][n] # cards[c][n]
               PROVE  /\ cards'[c][n] = NoShare
                      /\ \E s \in Slots : Named(s, n) /\ flash[s].id = cards[c][n].id
    OBVIOUS
  <2>1. cards \in [Cards -> [Names -> Holding]]
    BY DEF SyncInv, SyncTypeOK, DataTypeOK
  <2>2. ~\E sh : ~Refuses(k, target, sh) /\ StoreOnCard(k, target, sh)
    BY <2>1 DEF Refuses, StoreOnCard
  <2>3. pc = "erase" /\ StoreOnCard(k, target, NoShare)
    BY <2>2, CardsTouched
  <2>4. c = k /\ n = target /\ cards'[c][n] = NoShare
    BY <2>1, <2>3 DEF StoreOnCard
  <2>5. PICK s \in Slots : Named(s, target)
    BY <2>3, DeletionSlot DEF DeletePlaces
  <2>6. flash[s].id = cards[c][n].id
    BY <2>3, <2>4, <2>5 DEF TapInv, EraseMatches
  <2>7. QED
    BY <2>4, <2>5, <2>6
<1>2. QED
  BY <1>1, TapInvariance, PTL DEF SyncSpec, ErasedIsListed

-----------------------------------------------------------------------------
(* Where a step takes the shares from that it puts on a card, in the sec   *)
(* flash or in RAM.                                                        *)

LEMMA CardsAfter ==
    ASSUME SyncInv, SyncNext, NEW c \in Cards, NEW n \in Names
    PROVE  \/ cards'[c][n] = cards[c][n]
           \/ ~Holds(c, n) /\ cards'[c][n] = shares[c]
           \/ /\ pc = "erase" /\ c = k /\ n = target
              /\ cards'[c][n] = NoShare /\ UNCHANGED stored
<1>1. cards \in [Cards -> [Names -> Holding]]
  BY DEF SyncInv, SyncTypeOK, DataTypeOK
<1>2. CASE /\ pc = "add" /\ ~Refuses(k, target, shares[k])
           /\ StoreOnCard(k, target, shares[k])
  BY <1>1, <1>2 DEF StoreOnCard, Refuses
<1>3. CASE pc = "erase" /\ StoreOnCard(k, target, NoShare) /\ UNCHANGED stored
  BY <1>1, <1>3 DEF StoreOnCard
<1>4. QED
  BY <1>2, <1>3, CardsTouched

LEMMA SecAfter ==
    ASSUME SyncInv, SyncNext, NEW s \in Slots
    PROVE  \/ sec'[s] = sec[s]
           \/ ~Filled(s) /\ sec'[s] = shares[Device]
           \/ CardState(s) = {} /\ sec'[s] = NoShare
           \/ EraseSecFlash /\ sec'[s] = NoShare
           \/ /\ sec'[s].id = flash[s].id /\ UNCHANGED flash
              /\ \E c \in Cards : sec'[s] = shares[c]
<1> DEFINE t == IndexByName(target)
<1>1. sec \in [Slots -> Holding]
  BY DEF SyncInv, SyncTypeOK, DataTypeOK
<1>2. CASE SaveShareToDevice
  <2>1. UNCHANGED sec \/ ((\E u \in Slots : ~Filled(u))
                          /\ sec' = [sec EXCEPT ![FirstEmpty] = shares[Device]])
    BY <1>2 DEF SaveShareToDevice, AddShareToSecFlash
  <2>2. QED
    BY <1>1, <2>1, FirstEmptyIsEmpty, BoundsAssumption
<1>3. CASE FinishDelete
  <2>1. t \in Slots
    BY <1>3, DeletionSlot DEF FinishDelete, DeletePlaces
  <2>2. UNCHANGED sec \/ (CardState(t) = {} /\ sec' = [sec EXCEPT ![t] = NoShare])
    BY <1>3 DEF FinishDelete
  <2> HIDE DEF t
  <2>3. QED
    BY <1>1, <2>1, <2>2
<1>4. CASE SyncPutShare
  <2> DEFINE r == Reconstructed
             x == [id |-> flash[t].id, gen |-> r.gen]
  <2>1. /\ pc = "sync_put" /\ UNCHANGED flash /\ sec' = [sec EXCEPT ![t] = x]
    BY <1>4 DEF SyncPutShare
  <2>2. SharesFetched /\ NameTaken(target) /\ Cardinality(Tapped) = Threshold
    BY <2>1 DEF SyncInv, SyncFlow, SharesFetched
  <2>3. t \in Slots /\ Named(t, target)
    BY <2>2, SlotOfName DEF SyncInv, SyncStored
  <2>4. PICK d \in Tapped : r = shares[d]
    <3>1. Tapped # {}
      BY <2>2, FS_EmptySet, ThresholdAssumption
    <3>2. \E d \in Cards : shares[d] # NoShare
      BY <3>1 DEF Tapped
    <3>3. QED
      BY <3>2 DEF Reconstructed, Tapped
  <2> HIDE DEF t, r
  <2>5. shares[d] \in Share /\ shares[d].id = flash[t].id
    BY <2>1, <2>2, <2>3, <2>4
       DEF SharesFetched, Tapped, SyncInv, SyncTypeOK, DataTypeOK, Holding
  <2>6. x = shares[d] /\ x.id = flash[t].id /\ d \in Cards
    BY <2>4, <2>5 DEF Share, Tapped
  <2> HIDE DEF x
  <2>7. QED
    BY <1>1, <2>1, <2>3, <2>6
<1>5. CASE EraseSecFlash
  BY <1>5 DEF EraseSecFlash
<1>6. UNCHANGED sec \/ SaveShareToDevice \/ FinishDelete \/ SyncPutShare \/ EraseSecFlash
  BY DEF SyncNext, Create, CreateStart, RecordWriteAttempt,
         AddWalletAcked, AddWalletAnswerLost, AddWalletNotDone, AbandonCreate,
         WriteSharePostProcess, Verify, VerifyStart, ReadCardShare, ReadCardFails,
         ReadCardLocked, LoadDeviceShare, SetVerifiedState, Delete, DeleteStart,
         DeleteCheckCard, CardFetchShare, FetchAccepted, FetchMismatch, FetchShareMissing,
         DeleteTapFails, EraseAcked, EraseAnswerLost, MarkDeletedFromCard,
         FreeSlot, Unlock, UnlockWallet, Sync, SyncWithCards, SyncAddWallet, SyncListDone,
         SyncNextWallet, SyncOneWallet, SyncFetch, SyncWrongPin, SyncAbandoned,
         SyncSetValid, Reset, EraseFlash, SyncReboot, Reboot, stored
<1>7. QED
  BY <1>2, <1>3, <1>4, <1>5, <1>6

Splits == \E n \in Names, i \in Ids : CreateStart(n, i)

LEMMA SharesAfter ==
    ASSUME SyncInv, SyncNext, ~Splits, NEW d \in {Device} \cup Cards
    PROVE  \/ shares'[d] = shares[d] \/ shares'[d] = NoShare
           \/ \E c \in Cards, n \in Names : shares'[d] = cards[c][n]
           \/ \E s \in Slots : shares'[d] = sec[s]
<1>1. shares \in [{Device} \cup Cards -> Holding]
  BY DEF SyncInv, SyncTypeOK, DataTypeOK
<1>2. CASE UNCHANGED shares \/ shares' = NoShares
  BY <1>2 DEF NoShares
<1>3. CASE WriteSharePostProcess
  BY <1>1, <1>3 DEF WriteSharePostProcess
<1>4. CASE ReadCardShare
  <2>1. k \in Cards /\ target \in Names /\ shares' = [shares EXCEPT ![k] = cards[k][target]]
    BY <1>4 DEF ReadCardShare, SyncInv, SyncFlow, FlowAt, ReadPlaces
  <2>2. QED
    BY <1>1, <2>1
<1>5. CASE LoadDeviceShare
  <2>1. NameTaken(target) => IndexByName(target) \in Slots
    BY SlotOfName DEF SyncInv, SyncStored
  <2>2. \/ UNCHANGED shares
        \/ \E s \in Slots : shares' = [shares EXCEPT ![Device] = sec[s]]
    BY <1>5, <2>1 DEF LoadDeviceShare
  <2>3. QED
    BY <1>1, <2>2
<1>6. CASE \E c \in Cards : SyncFetch(c)
  <2>1. PICK c \in Cards : shares' = [shares EXCEPT ![c] = cards[c][target]]
    BY <1>6 DEF SyncFetch
  <2>2. target \in Names
    BY <1>6 DEF SyncFetch, SyncInv, SyncFlow, FlowAt
  <2>3. QED
    BY <1>1, <2>1, <2>2
<1>7. \/ UNCHANGED shares \/ shares' = NoShares \/ WriteSharePostProcess \/ ReadCardShare
      \/ LoadDeviceShare \/ \E c \in Cards : SyncFetch(c)
  BY DEF Splits, SyncNext, Create, SaveShareToDevice, RecordWriteAttempt,
         AddWalletAcked, AddWalletAnswerLost, AddWalletNotDone, AbandonCreate,
         Verify, VerifyStart, ReadCardFails,
         ReadCardLocked, SetVerifiedState, Delete, DeleteStart,
         DeleteCheckCard, CardFetchShare, FetchAccepted, FetchMismatch, FetchShareMissing,
         DeleteTapFails, EraseAcked, EraseAnswerLost, MarkDeletedFromCard, FinishDelete,
         FreeSlot, Unlock, UnlockWallet, Sync, SyncWithCards, SyncAddWallet, SyncListDone,
         SyncNextWallet, SyncOneWallet, SyncWrongPin, SyncAbandoned,
         SyncPutShare, SyncSetValid, Reset, EraseSecFlash, EraseFlash, SyncReboot, Reboot,
         EndFlow, ram
<1>8. QED
  BY <1>2, <1>3, <1>4, <1>5, <1>6, <1>7

-----------------------------------------------------------------------------
(* Seeds that are split while no share of them is left. *)

Somewhere(x) == \/ \E c \in Cards, n \in Names : cards[c][n] = x
                \/ \E s \in Slots : sec[s] = x
                \/ \E d \in {Device} \cup Cards : shares[d] = x

(* All the shares of a seed are of one split. *)
OneSplit == \A x, y \in Share : Somewhere(x) /\ Somewhere(y) /\ x.id = y.id => x = y

(* Only a split makes a share there was none of. *)
LEMMA NoShareOutOfNothing ==
    ASSUME SyncInv, SyncNext, ~Splits, NEW x \in Share, (Somewhere(x))'
    PROVE  Somewhere(x)
<1>1. x # NoShare
  BY NoneAssumption DEF Share, NoShare
<1>2. ASSUME NEW c \in Cards, NEW n \in Names, cards'[c][n] = x
      PROVE  Somewhere(x)
  BY <1>1, <1>2, CardsAfter DEF Somewhere
<1>3. ASSUME NEW s \in Slots, sec'[s] = x
      PROVE  Somewhere(x)
  BY <1>1, <1>3, SecAfter DEF Somewhere
<1>4. ASSUME NEW d \in {Device} \cup Cards, shares'[d] = x
      PROVE  Somewhere(x)
  BY <1>1, <1>4, SharesAfter DEF Somewhere
<1>5. QED
  BY <1>2, <1>3, <1>4 DEF Somewhere

LEMMA OneSplitKept ==
    ASSUME SyncInv, OneSplit, SyncNext, SplitsFreshSeeds
    PROVE  OneSplit'
<1> SUFFICES ASSUME NEW x \in Share, NEW y \in Share, (Somewhere(x))', (Somewhere(y))',
                    x.id = y.id
             PROVE  x = y
  BY DEF OneSplit
<1>1. CASE ~Splits
  BY <1>1, NoShareOutOfNothing DEF OneSplit
<1>2. CASE Splits
  <2>1. PICK n \in Names, i \in Ids : CreateStart(n, i)
    BY <1>2 DEF Splits
  <2> DEFINE new == [id |-> i, gen |-> nextGen]
  <2>2. NoShareLeft(i)
    BY <2>1 DEF SplitsFreshSeeds
  <2>3. UNCHANGED <<cards, sec>> /\ \A d \in {Device} \cup Cards : shares'[d] = new
    BY <2>1 DEF CreateStart, stored
  <2>4. ASSUME NEW z \in Share, (Somewhere(z))'
        PROVE  z = new \/ (z.id # i /\ Somewhere(z))
    BY <2>2, <2>3, <2>4 DEF Somewhere, NoShareLeft
  <2>5. QED
    BY <2>4 DEF OneSplit
<1>3. QED
  BY <1>1, <1>2

FreshInv == SyncInv /\ TapInv /\ OneSplit

(* As long as seeds are split only when no share of them is left, all the  *)
(* shares of a seed, on cards, in the vault and in RAM, are of one split.  *)
THEOREM FreshInvariance == FreshSpec => []FreshInv
<1>1. SyncInit => OneSplit
  <2> SUFFICES ASSUME SyncInit, NEW x \in Share, NEW y \in Share, Somewhere(x),
                      Somewhere(y), x.id = y.id
               PROVE  x = y
    BY DEF OneSplit
  <2>1. ASSUME NEW z \in Share, Somewhere(z) PROVE z = [id |-> z.id, gen |-> 0]
    <3>1. z # NoShare
      BY NoneAssumption DEF Share, NoShare
    <3>2. PICK c \in Cards, n \in Names : cards[c][n] = z
      BY <2>1, <3>1 DEF SyncInit, Init, Somewhere, NoShares
    <3>3. z \in [id : Foreign, gen : {0}]
      BY <3>1, <3>2 DEF SyncInit, Init
    <3>4. QED
      BY <3>3
  <2>2. QED
    BY <2>1
<1>2. SyncInv /\ OneSplit /\ [SyncNext /\ SplitsFreshSeeds]_syncVars => OneSplit'
  <2>1. OneSplit /\ UNCHANGED syncVars => OneSplit'
    BY DEF OneSplit, Somewhere, syncVars, vars, stored, ram
  <2>2. QED
    BY <2>1, OneSplitKept
<1>3. FreshSpec => SyncSpec
  BY PTL DEF FreshSpec, SyncSpec
<1>4. QED
  BY <1>1, <1>2, <1>3, TapInvariance, PTL DEF FreshSpec, FreshInv

-----------------------------------------------------------------------------
(* The cards that keep a share of a wallet shown as valid and complete.    *)

Full(s) == flash[s].state = "valid" /\ flash[s].written = Cards /\ flash[s].attempted = {}

Keepers(i) == {c \in Cards : \E n \in Names : cards[c][n].id = i}

(* An interrupted deletion has got no further than card 1, and only when   *)
(* the vault has its own share; a cut reset has checked two cards.         *)
Backed(s) ==
    \/ SecShareMatches(s) /\ Cardinality(Keepers(flash[s].id) \ {1}) >= Threshold - 1
    \/ Cardinality(Keepers(flash[s].id)) >= Threshold

Enough == \A s \in Slots : Full(s) => Backed(s)

LEMMA Removed ==
    ASSUME NEW S \in SUBSET Cards
    PROVE  Cardinality(S \ {1}) \in Nat /\ Cardinality(S \ {1}) >= Cardinality(S) - 1
<1>1. IsFiniteSet(S) /\ Cardinality(S) \in Nat
  BY CardSubsets
<1>2. Cardinality(S \ {1}) = (IF 1 \in S THEN Cardinality(S) - 1 ELSE Cardinality(S))
  BY <1>1, FS_RemoveElement
<1>3. Cardinality(S \ {1}) \in Nat
  <2>1. S \ {1} \in SUBSET S
    OBVIOUS
  <2>2. QED
    BY <2>1, CardSubsets
<1>4. QED
  BY <1>1, <1>2, <1>3

(* The share of one split on every card of a set is had from that set. *)
LEMMA KeepersHold ==
    ASSUME SyncInv, OneSplit, NEW s \in Slots, Filled(s), NEW x \in Share, Somewhere(x),
           x.id = flash[s].id
    PROVE  Keepers(flash[s].id) \in SUBSET Holders(x) /\ Holders(x) \in SUBSET Cards
<1>1. flash[s].id \in Ids
  BY DEF SyncInv, SyncStored, SlotsNamed
<1>2. ASSUME NEW c \in Keepers(flash[s].id) PROVE c \in Holders(x)
  <2>1. PICK n \in Names : c \in Cards /\ cards[c][n].id = flash[s].id
    BY <1>2 DEF Keepers
  <2>2. cards[c][n] \in Holding
    BY <2>1 DEF SyncInv, SyncTypeOK, DataTypeOK
  <2>3. cards[c][n] \in Share
    BY <1>1, <2>1, <2>2, NoneAssumption DEF Holding, NoShare
  <2>4. cards[c][n] = x
    BY <2>1, <2>3 DEF OneSplit, Somewhere
  <2>5. QED
    BY <2>1, <2>4 DEF Holders
<1>3. QED
  BY <1>2 DEF Holders

(* Two cards that list a wallet keep it. *)
LEMMA TwoLists ==
    ASSUME SyncInv, NEW s \in Slots, Filled(s), FilledWithShare(s), SafeToDeleteShares,
           Threshold <= 2
    PROVE  Cardinality(Keepers(flash[s].id)) >= Threshold
<1>1. PICK c \in Cards, d \in Cards : c # d /\ Lists(c, s) /\ Lists(d, s)
  BY DEF SafeToDeleteShares
<1>2. flash[s].name \in Names
  BY DEF SyncInv, SyncStored, SlotsNamed
<1>3. {c, d} \in SUBSET Keepers(flash[s].id) /\ Keepers(flash[s].id) \in SUBSET Cards
  BY <1>1, <1>2 DEF Keepers, Lists
<1>4. Cardinality({c, d}) = 2
  <2>1. IsFiniteSet({c}) /\ Cardinality({c}) = 1
    BY FS_Singleton
  <2>2. Cardinality({c} \cup {d}) = 2
    BY <1>1, <2>1, FS_AddElement
  <2>3. {c} \cup {d} = {c, d}
    OBVIOUS
  <2>4. QED
    BY <2>2, <2>3
<1>5. QED
  BY <1>3, <1>4, CardSubsets, ThresholdAssumption, BoundsAssumption

(* A wallet that is full after a step that did not make it valid was full  *)
(* before, under the same id.                                              *)
LEMMA FullBefore ==
    ASSUME SyncInv, TapInv, SyncNext, NEW s \in Slots, (Full(s))', ~MadeValid(s)
    PROVE  Full(s) /\ Filled(s) /\ flash'[s].id = flash[s].id
<1>1. flash \in [Slots -> Wallet] /\ flash[s] \in Wallet
  BY DEF SyncInv, SyncTypeOK, DataTypeOK
<1>2. Filled(s) /\ SlotStep(s)
  BY EmptySlotAfter, SlotAfter DEF Full
<1>3. ~Judged(s) /\ ~Recorded(s) /\ flash'[s].state # "default"
  BY <1>1 DEF Judged, Recorded, Full, Wallet
<1>4. ~Unmarked(s)
  <2>1. SUFFICES ASSUME NEW c \in Cards,
                        flash'[s] = [flash[s] EXCEPT !.written = @ \ {c},
                                                     !.attempted = @ \ {c}]
                 PROVE  FALSE
    BY DEF Unmarked
  <2>2. c \notin flash'[s].written
    BY <1>1, <2>1 DEF Wallet
  <2>3. QED
    BY <2>2 DEF Full
<1>5. CASE flash'[s] = flash[s]
  BY <1>2, <1>5 DEF Full
<1>6. CASE Relocked(s)
  BY <1>1, <1>2, <1>6 DEF Relocked, Full, Wallet
<1>7. QED
  BY <1>2, <1>3, <1>4, <1>5, <1>6 DEF SlotStep

(* What the sec flash holds for it goes only with the reset. *)
LEMMA SecOfFull ==
    ASSUME SyncInv, SyncNext, ~EraseSecFlash, NEW s \in Slots, Full(s), Filled(s),
           flash'[s].id = flash[s].id, SecShareMatches(s)
    PROVE  (SecShareMatches(s))'
<1>1. CardState(s) # {}
  BY BoundsAssumption DEF CardState, Full, Cards
<1>2. QED
  BY <1>1, SecAfter DEF SecShareMatches

(* The cards keep it; if one erases it, that is card 1, and the vault has  *)
(* its own share then.                                                     *)
LEMMA KeepersOfFull ==
    ASSUME SyncInv, TapInv, SyncNext, NEW s \in Slots, Full(s), Filled(s),
           flash'[s].id = flash[s].id
    PROVE  \/ Keepers(flash[s].id) \in SUBSET (Keepers(flash[s].id))'
           \/ /\ SecShareMatches(s) /\ (SecShareMatches(s))'
              /\ Keepers(flash[s].id) \ {1} \in SUBSET (Keepers(flash[s].id))'
<1> DEFINE i == flash[s].id
<1>1. i \in Ids /\ cards \in [Cards -> [Names -> Holding]]
  BY DEF SyncInv, SyncStored, SlotsNamed, SyncTypeOK, DataTypeOK
<1>2. ASSUME NEW c \in Cards, NEW n \in Names, cards[c][n].id = i, cards'[c][n].id # i
      PROVE  c = 1 /\ SecShareMatches(s) /\ (SecShareMatches(s))'
  <2>1. Holds(c, n)
    BY <1>1, <1>2, NoneAssumption DEF Holds, NoShare
  <2>2. pc = "erase" /\ c = k /\ n = target /\ UNCHANGED stored
    BY <1>2, <2>1, CardsAfter
  <2>3. PICK t \in Slots : Named(t, target)
    BY <2>2, DeletionSlot DEF DeletePlaces
  <2>4. flash[t].id = i
    BY <1>2, <2>1, <2>2, <2>3 DEF TapInv, EraseMatches
  <2>5. t = s
    BY <2>3, <2>4 DEF SyncInv, SyncStored, SlotsConsistent, Named
  <2>6. ~ShareNotPresent(s)
    BY DEF Full, ShareNotPresent
  <2>7. k = 1
    BY <2>2, <2>3, <2>5 DEF TapInv, DeletesInOrder, Full
  <2>8. SecShareMatches(s)
    BY <2>1, <2>2, <2>3, <2>5, <2>6 DEF TapInv, EraseMatches
  <2>9. QED
    BY <2>2, <2>7, <2>8 DEF stored, SecShareMatches
<1>3. CASE \E c \in Cards, n \in Names : cards[c][n].id = i /\ cards'[c][n].id # i
  <2>1. SecShareMatches(s) /\ (SecShareMatches(s))'
    BY <1>2, <1>3
  <2>2. Keepers(i) \ {1} \in SUBSET (Keepers(flash[s].id))'
    BY <1>2 DEF Keepers
  <2>3. QED
    BY <2>1, <2>2
<1>4. CASE ~\E c \in Cards, n \in Names : cards[c][n].id = i /\ cards'[c][n].id # i
  <2>1. Keepers(i) \in SUBSET (Keepers(flash[s].id))'
    BY <1>4 DEF Keepers
  <2>2. QED
    BY <2>1
<1>5. QED
  BY <1>3, <1>4

LEMMA EnoughKept ==
    ASSUME SyncInv, TapInv, Enough, SyncNext, Threshold <= 2
    PROVE  Enough'
<1> SUFFICES ASSUME NEW s \in Slots, (Full(s))' PROVE (Backed(s))'
  BY DEF Enough
<1> DEFINE K == Keepers(flash[s].id)
<1>1. Threshold \in Nat /\ K \in SUBSET Cards /\ K' \in SUBSET Cards
  BY ThresholdAssumption, BoundsAssumption DEF Keepers
<1>2. CASE MadeValid(s)
  <2>1. /\ Cardinality(Holders(sec[s])) >= Threshold
        /\ sec[s].id = flash[s].id
    BY <1>2, QuorumWhenValid DEF SecShareMatches
  <2>2. UNCHANGED cards /\ flash'[s].id = flash[s].id
    BY <1>2 DEF MadeValid, SyncSetValid, SetVerifiedState, SyncInv, SyncTypeOK,
                DataTypeOK, Wallet
  <2>3. Holders(sec[s]) \in SUBSET K'
    BY <2>1, <2>2 DEF Holders, Keepers
  <2>4. Cardinality(K') >= Threshold
    BY <1>1, <2>1, <2>3, CardSubsets
  <2>5. QED
    BY <2>4 DEF Backed
<1>3. CASE ~MadeValid(s)
  <2>1. Full(s) /\ Filled(s) /\ flash'[s].id = flash[s].id
    BY <1>3, FullBefore
  <2>2. Backed(s)
    BY <2>1 DEF Enough
  <2>3. CASE EraseSecFlash
    <3>1. FilledWithShare(s)
      <4>1. 1 \in Cards
        BY BoundsAssumption DEF Cards
      <4>2. QED
        BY <2>1, <4>1 DEF Full, FilledWithShare
    <3>2. Cardinality(K) >= Threshold
      BY <2>1, <2>3, <3>1, TwoLists DEF EraseSecFlash
    <3>3. K' = K
      BY <2>3 DEF EraseSecFlash, Keepers
    <3>4. QED
      BY <3>2, <3>3 DEF Backed
  <2>4. CASE ~EraseSecFlash
    <3>1. CASE K \in SUBSET K'
      <4>1. Cardinality(K) <= Cardinality(K')
        BY <1>1, <3>1, CardSubsets
      <4>2. /\ Cardinality(K \ {1}) <= Cardinality(K' \ {1})
            /\ Cardinality(K \ {1}) \in Nat /\ Cardinality(K' \ {1}) \in Nat
        <5>1. K \ {1} \in SUBSET (K' \ {1}) /\ K' \ {1} \in SUBSET Cards
          BY <1>1, <3>1
        <5>2. QED
          BY <5>1, CardSubsets
      <4>3. SecShareMatches(s) => (SecShareMatches(s))'
        BY <2>1, <2>4, SecOfFull
      <4>4. Cardinality(K) \in Nat /\ Cardinality(K') \in Nat
        BY <1>1, CardSubsets
      <4>5. QED
        BY <1>1, <2>2, <4>1, <4>2, <4>3, <4>4 DEF Backed
    <3>2. CASE /\ SecShareMatches(s) /\ (SecShareMatches(s))'
               /\ K \ {1} \in SUBSET K'
      <4>1. Cardinality(K \ {1}) >= Threshold - 1
        BY <1>1, <2>2, Removed, CardSubsets DEF Backed
      <4>2. Cardinality(K \ {1}) <= Cardinality(K' \ {1}) /\ Cardinality(K' \ {1}) \in Nat
            /\ Cardinality(K \ {1}) \in Nat
        <5>1. K \ {1} \in SUBSET (K' \ {1}) /\ K' \ {1} \in SUBSET Cards
          BY <1>1, <3>2
        <5>2. QED
          BY <5>1, CardSubsets
      <4>3. QED
        BY <1>1, <3>2, <4>1, <4>2 DEF Backed
    <3>3. K' = (Keepers(flash[s].id))'
      OBVIOUS
    <3>4. QED
      BY <2>1, <3>1, <3>2, KeepersOfFull
  <2>5. QED
    BY <2>3, <2>4
<1>4. QED
  BY <1>2, <1>3

(* Behind every wallet shown as valid and on all cards there are, through  *)
(* interrupted deletions and resets, the shares of Threshold cards, or of  *)
(* one card less and of the vault; for the product's threshold of two,     *)
(* which is the number of lists a reset compares.                          *)
THEOREM FreshKeepsEnough ==
    ASSUME Threshold <= 2
    PROVE  FreshSpec => [](FreshInv /\ Enough)
<1>1. SyncInit => Enough
  BY DEF SyncInit, Init, Enough, Full, NoWallet
<1>2. FreshInv /\ Enough /\ [SyncNext /\ SplitsFreshSeeds]_syncVars => Enough'
  <2>1. Enough /\ UNCHANGED syncVars => Enough'
    BY DEF Enough, Full, Backed, Keepers, SecShareMatches, syncVars, vars, stored
  <2>2. QED
    BY <2>1, EnoughKept DEF FreshInv
<1>3. QED
  BY <1>1, <1>2, FreshInvariance, PTL DEF FreshSpec

(* The cards and the vault, if it is the slot's, that hold a share. *)
HeldBy(s, x) == Holders(x) \cup (IF sec[s] = x THEN {Device} ELSE {})

(* A wallet shown as valid and on all cards can be reconstructed.          *)
THEOREM FreshSeedRecoverable ==
    ASSUME Threshold <= 2
    PROVE  FreshSpec => []SeedRecoverable
<1>1. FreshInv /\ Enough => SeedRecoverable
  <2> SUFFICES ASSUME FreshInv, Enough, NEW s \in Slots, Full(s)
               PROVE  \E g \in 0..MaxGen :
                        Cardinality(HeldBy(s, [id |-> flash[s].id, gen |-> g])) >= Threshold
    BY DEF SeedRecoverable, Full, HeldBy
  <2> DEFINE K == Keepers(flash[s].id)
  <2>1. /\ SyncInv /\ OneSplit /\ Filled(s) /\ flash[s].id \in Ids
        /\ Backed(s) /\ K \in SUBSET Cards /\ Threshold \in Nat
    BY ThresholdAssumption, BoundsAssumption
       DEF FreshInv, Full, Filled, SyncInv, SyncStored, SlotsNamed, Enough, Keepers
  <2>2. SUFFICES ASSUME TRUE
                 PROVE  \E x \in Share : x.id = flash[s].id
                                         /\ Cardinality(HeldBy(s, x)) >= Threshold
    <3>1. \A x \in Share : x = [id |-> x.id, gen |-> x.gen] /\ x.gen \in 0..MaxGen
      BY DEF Share
    <3>2. QED
      BY <3>1
  <2>3. CASE SecShareMatches(s) /\ Cardinality(K \ {1}) >= Threshold - 1
    <3> DEFINE x == sec[s]
    <3>1. x \in Share /\ Somewhere(x) /\ x.id = flash[s].id
      <4>1. x \in Holding /\ x.id = flash[s].id
        BY <2>1, <2>3 DEF SyncInv, SyncTypeOK, DataTypeOK, SecShareMatches
      <4>2. QED
        BY <2>1, <4>1, NoneAssumption DEF Holding, NoShare, Somewhere
    <3>2. K \ {1} \in SUBSET Holders(x) /\ Holders(x) \in SUBSET Cards
      BY <2>1, <3>1, KeepersHold
    <3>3. HeldBy(s, x) = Holders(x) \cup {Device} /\ Device \notin Holders(x)
      BY <3>2 DEF Cards, HeldBy
    <3> HIDE DEF x
    <3>4. /\ IsFiniteSet(Holders(x)) /\ Cardinality(Holders(x)) \in Nat
          /\ Cardinality(K \ {1}) <= Cardinality(Holders(x))
          /\ Cardinality(K \ {1}) \in Nat
      BY <3>2, CardSubsets
    <3>5. Cardinality(HeldBy(s, x)) = Cardinality(Holders(x)) + 1
      BY <3>3, <3>4, FS_AddElement
    <3>6. QED
      BY <2>1, <2>3, <3>1, <3>4, <3>5
  <2>4. CASE Cardinality(K) >= Threshold
    <3>1. PICK c \in K : TRUE
      BY <2>4, FS_EmptySet, ThresholdAssumption
    <3>2. PICK n \in Names : c \in Cards /\ cards[c][n].id = flash[s].id
      BY <3>1 DEF Keepers
    <3> DEFINE x == cards[c][n]
    <3>3. x \in Share /\ Somewhere(x) /\ x.id = flash[s].id
      <4>1. x \in Holding
        BY <2>1, <3>2 DEF SyncInv, SyncTypeOK, DataTypeOK
      <4>2. QED
        BY <2>1, <3>2, <4>1, NoneAssumption DEF Holding, NoShare, Somewhere
    <3>4. K \in SUBSET Holders(x) /\ Holders(x) \in SUBSET Cards
      BY <2>1, <3>3, KeepersHold
    <3> HIDE DEF x
    <3>5. /\ IsFiniteSet(Holders(x)) /\ Cardinality(Holders(x)) \in Nat
          /\ Cardinality(K) <= Cardinality(Holders(x)) /\ Cardinality(K) \in Nat
      BY <3>4, CardSubsets
    <3>6. Cardinality(HeldBy(s, x)) \in Nat /\ Cardinality(Holders(x)) <= Cardinality(HeldBy(s, x))
      <4>1. IsFiniteSet(Holders(x) \cup {Device})
        BY <3>5, FS_AddElement
      <4>2. IsFiniteSet(HeldBy(s, x)) /\ Holders(x) \in SUBSET HeldBy(s, x)
        <5>1. HeldBy(s, x) \in {Holders(x), Holders(x) \cup {Device}}
          BY DEF HeldBy
        <5>2. QED
          BY <3>5, <4>1, <5>1
      <4>3. QED
        BY <4>2, FS_Subset, FS_CardinalityType
    <3>7. QED
      BY <2>1, <2>4, <3>3, <3>5, <3>6
  <2>5. QED
    BY <2>1, <2>3, <2>4 DEF Backed
<1>2. QED
  BY <1>1, FreshKeepsEnough, PTL

(* When the vault erases its shares, Threshold cards hold shares of one    *)
(* split of each of its wallets.                                           *)
THEOREM FreshResetLeavesQuorum ==
    ASSUME Threshold <= 2
    PROVE  FreshSpec => ResetLeavesQuorum
<1> DEFINE Left == pc' = "reset_flash" =>
              \A s \in Slots : FilledWithShare(s) =>
                \E g \in 0..MaxGen :
                  Cardinality(Holders([id |-> flash[s].id, gen |-> g])) >= Threshold
<1>1. FreshInv /\ [SyncNext /\ SplitsFreshSeeds]_syncVars => [Left]_syncVars
  <2> SUFFICES ASSUME FreshInv, SyncNext, pc' = "reset_flash",
                      NEW s \in Slots, FilledWithShare(s)
               PROVE  \E g \in 0..MaxGen :
                  Cardinality(Holders([id |-> flash[s].id, gen |-> g])) >= Threshold
    OBVIOUS
  <2>1. EraseSecFlash
    BY DEF SyncNext, Create, CreateStart, SaveShareToDevice, RecordWriteAttempt,
         AddWalletAcked, AddWalletAnswerLost, AddWalletNotDone, AbandonCreate,
         WriteSharePostProcess, Verify, VerifyStart, ReadCardShare, ReadCardFails,
         ReadCardLocked, LoadDeviceShare, SetVerifiedState, Delete, DeleteStart,
         DeleteCheckCard, CardFetchShare, FetchAccepted, FetchMismatch, FetchShareMissing,
         DeleteTapFails, EraseAcked, EraseAnswerLost, MarkDeletedFromCard, FinishDelete,
         FreeSlot, Unlock, UnlockWallet, Sync, SyncWithCards, SyncAddWallet, SyncListDone,
         SyncNextWallet, SyncOneWallet, SyncFetch, SyncWrongPin, SyncAbandoned,
         SyncPutShare, SyncSetValid, Reset, EraseFlash, SyncReboot, Reboot, EndFlow
  <2> DEFINE K == Keepers(flash[s].id)
  <2>2. /\ SyncInv /\ OneSplit /\ Filled(s) /\ SafeToDeleteShares
    BY <2>1 DEF FreshInv, FilledWithShare, Filled, EraseSecFlash
  <2>3. Cardinality(K) >= Threshold /\ flash[s].id \in Ids
    BY <2>2, TwoLists DEF SyncInv, SyncStored, SlotsNamed
  <2>4. PICK c \in K : TRUE
    BY <2>3, FS_EmptySet, ThresholdAssumption
  <2>5. PICK n \in Names : c \in Cards /\ cards[c][n].id = flash[s].id
    BY <2>4 DEF Keepers
  <2> DEFINE x == cards[c][n]
  <2>6. x \in Share /\ Somewhere(x) /\ x.id = flash[s].id
    <3>1. x \in Holding
      BY <2>2, <2>5 DEF SyncInv, SyncTypeOK, DataTypeOK
    <3>2. QED
      BY <2>3, <2>5, <3>1, NoneAssumption DEF Holding, NoShare, Somewhere
  <2>7. K \in SUBSET Holders(x) /\ Holders(x) \in SUBSET Cards
    BY <2>2, <2>6, KeepersHold
  <2> HIDE DEF x
  <2>8. Cardinality(Holders(x)) >= Threshold
    <3>1. /\ Cardinality(K) \in Nat /\ Cardinality(Holders(x)) \in Nat
          /\ Cardinality(K) <= Cardinality(Holders(x))
      BY <2>7, CardSubsets
    <3>2. QED
      BY <2>3, <3>1, ThresholdAssumption, BoundsAssumption
  <2>9. x = [id |-> flash[s].id, gen |-> x.gen] /\ x.gen \in 0..MaxGen
    BY <2>6 DEF Share
  <2>10. QED
    BY <2>8, <2>9
<1>2. QED
  BY <1>1, FreshInvariance, PTL DEF FreshSpec, ResetLeavesQuorum

=============================================================================
