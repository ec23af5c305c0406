------------------------- MODULE WalletUnlock_proofs -------------------------
(***************************************************************************)
(* Proofs about WalletUnlock, for any cards, challenges, solutions and     *)
(* hash rate that satisfy its assumption.  They are stated of Safety,      *)
(* which SwapQueue shows its swaps to keep.                                *)
(***************************************************************************)
EXTENDS WalletUnlock, TLAPS

-----------------------------------------------------------------------------
(* Arithmetic of the search. *)

LEMMA SmallRemainder ==
  ASSUME NEW m \in Nat, NEW n \in 0 .. m
  PROVE  n % (m + 1) = n
OBVIOUS

LEMMA RemainderRange ==
  ASSUME NEW m \in Nat, NEW n \in Nat
  PROVE  n % (m + 1) \in 0 .. m
OBVIOUS

LEMMA LimitPositive == Limit \in Nat /\ Limit >= 1
BY UnlockAssumption DEF Limit

(* A nonce that is tried is a nonce. *)
LEMMA AheadIsNonce ==
  ASSUME pow \in Nonces, NEW i \in Nat
  PROVE  Ahead(i) \in Nonces
BY UnlockAssumption, RemainderRange DEF Ahead, Nonces

(* Up to the last nonce the search does not wrap. *)
LEMMA AheadInOrder ==
  ASSUME pow \in Nonces, NEW i \in Nat, pow + i <= MaxNonce
  PROVE  Ahead(i) = pow + i
BY UnlockAssumption, SmallRemainder DEF Ahead, Nonces

-----------------------------------------------------------------------------
(* The inductive invariant. *)

(* There is a lock, with its card, as long as the flow runs, and a fetched *)
(* challenge from its search on. *)
LockHolds ==
  /\ locked => cardLocked \in Cards
  /\ locked /\ nonce # Unset => challenge \in Challenges
  /\ place # "idle" => locked
  /\ place \in {"solve", "search", "pin", "verify"} => nonce # Unset

UnlockInv == TypeOK /\ LockHolds /\ NoSolutionSkipped /\ AnswerSolves

(* Without a lock, what else the flash holds is free. *)
LEMMA UnlockedInv ==
  ASSUME locked = FALSE, cardLocked = NoCard, challenge = NoChallenge,
         nonce = 0, place = "idle", pow \in Nonces,
         card \in [Cards -> Challenges \cup {NoChallenge}]
  PROVE  UnlockInv
<1>1. locked \in BOOLEAN /\ ~locked
  BY Zenon
<1>2. 0 \in Nonces
  BY UnlockAssumption DEF Nonces
<1>3. TypeOK
  BY <1>1, <1>2 DEF TypeOK, Places
<1>4. LockHolds /\ NoSolutionSkipped /\ AnswerSolves
  BY <1>1 DEF LockHolds, NoSolutionSkipped, AnswerSolves
<1>. QED
  BY <1>3, <1>4 DEF UnlockInv

LEMMA InitUnlockInv == Init => UnlockInv
<1>. SUFFICES ASSUME Init PROVE UnlockInv
  OBVIOUS
<1>1. 0 \in Nonces
  BY UnlockAssumption DEF Nonces
<1>2. card \in [Cards -> Challenges \cup {NoChallenge}]
  BY DEF Init
<1>. QED
  BY <1>1, <1>2, UnlockedInv DEF Init

(* What a solution of the challenge is. *)
LEMMA SolutionsAreNonces ==
  ASSUME NEW ch \in Challenges, NEW n \in Solution[ch]
  PROVE  n \in Nonces /\ n \in Nat
BY UnlockAssumption DEF Nonces

(* A second of the search without a solution leaves all of them ahead, and *)
(* has not come to the end of the nonces. *)
LEMMA SearchGoesOn ==
  ASSUME UnlockInv, PowGoesOn
  PROVE  /\ pow' \in Nonces
         /\ \A n \in Solution[challenge] : pow' <= n
<1>. USE UnlockAssumption, LimitPositive DEF UnlockInv, TypeOK
<1>1. place = "search" /\ challenge \in Challenges
  BY DEF PowGoesOn, LockHolds
<1>2. \A n \in Solution[challenge] : pow <= n
  BY <1>1 DEF NoSolutionSkipped
<1>3. ASSUME NEW n \in Solution[challenge] PROVE pow + Limit <= n
  <2>. n \in Nonces /\ n \in Nat
    BY <1>1, <1>3, SolutionsAreNonces
  <2>. pow <= n /\ pow \in Nat
    BY <1>2, <1>3 DEF Nonces
  <2>. SUFFICES ASSUME n < pow + Limit PROVE FALSE
    OBVIOUS
  <2>1. n - pow \in 0 .. Limit - 1
    OBVIOUS
  <2>2. Ahead(n - pow) = n
    BY <2>1, AheadInOrder DEF Nonces
  <2>. QED
    BY <1>3, <2>1, <2>2 DEF PowGoesOn, Solves
<1>4. PICK s : s \in Solution[challenge]
  BY <1>1
<1>5. pow + Limit <= MaxNonce
  BY <1>1, <1>3, <1>4, SolutionsAreNonces DEF Nonces
<1>6. pow' = pow + Limit
  BY <1>5, AheadInOrder DEF PowGoesOn
<1>. QED
  BY <1>3, <1>5, <1>6 DEF Nonces

(* A solution that is found is the first one. *)
LEMMA SearchFinds ==
  ASSUME UnlockInv, PowFinds
  PROVE  /\ pow' \in Nonces /\ nonce' = pow'
         /\ pow' \in Solution[challenge]
         /\ \A n \in Solution[challenge] : pow' <= n
<1>. USE UnlockAssumption, LimitPositive DEF UnlockInv, TypeOK
<1>1. place = "search" /\ challenge \in Challenges
  BY DEF PowFinds, LockHolds
<1>2. \A n \in Solution[challenge] : pow <= n
  BY <1>1 DEF NoSolutionSkipped
<1>3. PICK i \in 0 .. Limit - 1 :
        /\ Solves(Ahead(i))
        /\ \A j \in 0 .. i - 1 : ~Solves(Ahead(j))
        /\ pow' = Ahead(i) /\ nonce' = Ahead(i)
  BY DEF PowFinds
<1>4. ASSUME NEW n \in Solution[challenge] PROVE pow + i <= n
  <2>. n \in Nonces /\ n \in Nat
    BY <1>1, <1>4, SolutionsAreNonces
  <2>. pow <= n /\ pow \in Nat
    BY <1>2, <1>4 DEF Nonces
  <2>. SUFFICES ASSUME n < pow + i PROVE FALSE
    OBVIOUS
  <2>1. n - pow \in 0 .. i - 1
    OBVIOUS
  <2>2. Ahead(n - pow) = n
    BY <2>1, AheadInOrder DEF Nonces
  <2>. QED
    BY <1>3, <1>4, <2>1, <2>2 DEF Solves
<1>5. Ahead(i) \in Solution[challenge]
  BY <1>3 DEF Solves
<1>6. pow + i <= MaxNonce
  BY <1>1, <1>4, <1>5, SolutionsAreNonces DEF Nonces
<1>7. Ahead(i) = pow + i
  BY <1>6, AheadInOrder
<1>. QED
  BY <1>3, <1>4, <1>5, <1>6, <1>7 DEF Nonces

-----------------------------------------------------------------------------
(* Every action keeps the invariant. *)

LEMMA CardSetsTyped ==
  ASSUME TypeOK, NEW c, NEW ch \in Challenges \cup {NoChallenge}, CardSets(c, ch)
  PROVE  card' \in [Cards -> Challenges \cup {NoChallenge}]
BY DEF TypeOK, CardSets

LEMMA CardAsksTyped ==
  ASSUME TypeOK, NEW c, CardAsksAgain(c)
  PROVE  /\ card' \in [Cards -> Challenges \cup {NoChallenge}]
         /\ c \in Cards => card'[c] \in Challenges
BY DEF TypeOK, CardAsksAgain, CardSets

(* The lock of a wallet that is used, or whose answer is refused. *)
LEMMA LockingKeeps ==
  ASSUME UnlockInv, NEW c \in Cards, CardAsksAgain(c), SetWalletLocked(c),
         UNCHANGED pow, place' \in {"idle", "refetch"}
  PROVE  UnlockInv'
<1>. USE DEF UnlockInv
<1>1. card' \in [Cards -> Challenges \cup {NoChallenge}]
  BY CardAsksTyped
<1>2. TypeOK'
  BY <1>1 DEF TypeOK, SetWalletLocked, Places
<1>3. LockHolds' /\ NoSolutionSkipped' /\ AnswerSolves'
  BY DEF SetWalletLocked, LockHolds, NoSolutionSkipped, AnswerSolves
<1>. QED
  BY <1>2, <1>3

(* A card that is unlocked clears the lock. *)
LEMMA ClearingKeeps ==
  ASSUME UnlockInv, ClearLock, place' = "idle", UNCHANGED pow,
         card' \in [Cards -> Challenges \cup {NoChallenge}]
  PROVE  UnlockInv'
<1>1. pow' \in Nonces
  BY DEF UnlockInv, TypeOK
<1>2. /\ locked' = FALSE /\ cardLocked' = NoCard
      /\ challenge' = NoChallenge /\ nonce' = 0
  BY Zenon DEF ClearLock
<1>3. 0 \in Nonces
  BY UnlockAssumption DEF Nonces
<1>4. locked' \in BOOLEAN /\ ~locked'
  BY <1>2, Zenon
<1>5. TypeOK'
  BY <1>1, <1>2, <1>3, <1>4 DEF TypeOK, Places
<1>6. LockHolds' /\ NoSolutionSkipped' /\ AnswerSolves'
  BY <1>2, <1>4 DEF LockHolds, NoSolutionSkipped, AnswerSolves
<1>. QED
  BY <1>5, <1>6 DEF UnlockInv

LEMMA NextUnlockInv == UnlockInv /\ [Next]_vars => UnlockInv'
<1>. SUFFICES ASSUME UnlockInv, [Next]_vars PROVE UnlockInv'
  OBVIOUS
<1>. USE UnlockAssumption DEF UnlockInv, flash
<1>1. CASE StartUnlock
  BY <1>1 DEF StartUnlock, TypeOK, Places, LockHolds, NoSolutionSkipped, AnswerSolves
<1>2. CASE FetchChallenge
  <2>. DEFINE ch == card'[cardLocked]
  <2>1. cardLocked \in Cards /\ locked
    BY <1>2 DEF FetchChallenge, LockHolds
  <2>2. ch \in Challenges /\ card' \in [Cards -> Challenges \cup {NoChallenge}]
    BY <1>2, <2>1, CardAsksTyped DEF FetchChallenge
  <2>3. challenge' = ch /\ nonce' = 0 /\ locked' = locked
          /\ cardLocked' = cardLocked /\ pow' = pow /\ place' \in {"solve", "idle"}
    BY <1>2 DEF FetchChallenge, AddChallenge
  <2>. HIDE DEF ch
  <2>4. TypeOK'
    BY <2>1, <2>2, <2>3 DEF TypeOK, Places, Nonces
  <2>5. LockHolds'
    BY <2>1, <2>2, <2>3 DEF LockHolds
  <2>6. NoSolutionSkipped' /\ AnswerSolves'
    BY <2>2, <2>3, SolutionsAreNonces DEF NoSolutionSkipped, AnswerSolves
  <2>. QED
    BY <2>4, <2>5, <2>6
<1>3. CASE FetchUnlocked
  BY <1>3, ClearingKeeps DEF FetchUnlocked, TypeOK
<1>4. CASE GiveUp
  BY <1>4 DEF GiveUp, TypeOK, Places, LockHolds, NoSolutionSkipped, AnswerSolves
<1>5. CASE StartSearch
  <2>1. challenge \in Challenges /\ nonce # Unset /\ nonce \in Nonces
    BY <1>5 DEF StartSearch, LockHolds, TypeOK
  <2>2. TypeOK'
    BY <1>5, <2>1 DEF StartSearch, TypeOK, Places
  <2>. QED
    BY <1>5, <2>1, <2>2 DEF StartSearch, LockHolds, NoSolutionSkipped, AnswerSolves
<1>6. CASE PowFinds
  <2>1. /\ pow' \in Nonces /\ nonce' = pow'
        /\ pow' \in Solution[challenge]
        /\ \A n \in Solution[challenge] : pow' <= n
    BY <1>6, SearchFinds
  <2>2. place = "search" /\ place' = "pin"
          /\ UNCHANGED <<locked, cardLocked, challenge, card>>
    BY <1>6 DEF PowFinds
  <2>3. TypeOK'
    BY <2>1, <2>2 DEF TypeOK, Places
  <2>4. LockHolds' /\ NoSolutionSkipped' /\ AnswerSolves'
    BY <2>1, <2>2 DEF LockHolds, NoSolutionSkipped, AnswerSolves, TypeOK, Solves, Nonces
  <2>. QED
    BY <2>3, <2>4
<1>7. CASE PowGoesOn
  <2>1. /\ pow' \in Nonces
        /\ \A n \in Solution[challenge] : pow' <= n
    BY <1>7, SearchGoesOn
  <2>2. place = "search" /\ nonce' \in {nonce, pow}
          /\ UNCHANGED <<locked, cardLocked, challenge, place, card>>
    BY <1>7 DEF PowGoesOn
  <2>3. nonce' # Unset /\ nonce' \in Nonces
    BY <2>2 DEF LockHolds, TypeOK, Nonces
  <2>4. TypeOK'
    BY <2>1, <2>2, <2>3 DEF TypeOK
  <2>5. LockHolds' /\ NoSolutionSkipped' /\ AnswerSolves'
    BY <2>1, <2>2, <2>3 DEF LockHolds, NoSolutionSkipped, AnswerSolves
  <2>. QED
    BY <2>4, <2>5
<1>8. CASE EnterPin
  BY <1>8 DEF EnterPin, TypeOK, Places, LockHolds, NoSolutionSkipped, AnswerSolves, Solves
<1>9. CASE VerifyAccepted
  <2>1. card' \in [Cards -> Challenges \cup {NoChallenge}]
    BY <1>9, CardSetsTyped DEF VerifyAccepted
  <2>. QED
    BY <1>9, <2>1, ClearingKeeps DEF VerifyAccepted
<1>10. CASE VerifyWrongPin
  <2>1. card' \in [Cards -> Challenges \cup {NoChallenge}]
    BY <1>10, CardAsksTyped DEF VerifyWrongPin
  <2>. QED
    BY <1>10, <2>1 DEF VerifyWrongPin, TypeOK, Places, LockHolds, NoSolutionSkipped, AnswerSolves
<1>11. CASE VerifyLocked
  <2>1. cardLocked \in Cards
    BY <1>11 DEF VerifyLocked, LockHolds
  <2>. QED
    BY <1>11, <2>1, LockingKeeps DEF VerifyLocked
<1>12. ASSUME NEW c \in Cards, OtherVault(c) PROVE UnlockInv'
  <2>1. card' \in [Cards -> Challenges \cup {NoChallenge}]
    BY <1>12, CardSetsTyped DEF OtherVault
  <2>. QED
    BY <1>12, <2>1 DEF OtherVault, TypeOK, LockHolds, NoSolutionSkipped, AnswerSolves, Solves
<1>13. ASSUME NEW c \in Cards, WalletUsed(c) PROVE UnlockInv'
  BY <1>13, LockingKeeps DEF WalletUsed
<1>14. CASE PowerLoss
  BY <1>14 DEF PowerLoss, TypeOK, Places, Nonces, LockHolds, NoSolutionSkipped, AnswerSolves
<1>15. CASE UNCHANGED vars
  BY <1>15 DEF vars, TypeOK, LockHolds, NoSolutionSkipped, AnswerSolves, Solves
<1>. QED
  BY <1>1, <1>2, <1>3, <1>4, <1>5, <1>6, <1>7, <1>8, <1>9, <1>10, <1>11, <1>12, <1>13, <1>14, <1>15, Zenon
  DEF Next, UnlockStep, PowTask, CardStep

-----------------------------------------------------------------------------
(* The theorems. *)

THEOREM UnlockInvariant == Safety => []UnlockInv
<1>1. QED
  BY InitUnlockInv, NextUnlockInv, PTL DEF Safety

(* The record of the lock, the search and the flow keep their types. *)
THEOREM UnlockTypeCorrect == Safety => []TypeOK
<1>1. UnlockInv => TypeOK
  BY DEF UnlockInv
<1>. QED
  BY <1>1, UnlockInvariant, PTL

(* For every hash rate, every set of solutions and any number of searches broken  *)
(* off and taken up: the search of pow.c never passes a solution.          *)
THEOREM SearchIsExhaustive == Safety => []NoSolutionSkipped
<1>1. UnlockInv => NoSolutionSkipped
  BY DEF UnlockInv
<1>. QED
  BY <1>1, UnlockInvariant, PTL

(* The nonce shown to the card solves the challenge in flash. *)
THEOREM AnswersAreSolutions == Safety => []AnswerSolves
<1>1. UnlockInv => AnswerSolves
  BY DEF UnlockInv
<1>. QED
  BY <1>1, UnlockInvariant, PTL

(* A step that unlocks the wallet leaves its card unlocked. *)
LEMMA UnlockingStepByCard ==
  UnlockInv /\ [Next]_vars =>
    (locked /\ ~locked' => card'[cardLocked] = NoChallenge)
<1>. SUFFICES ASSUME UnlockInv, Next, locked, ~locked'
              PROVE  card'[cardLocked] = NoChallenge
  BY DEF vars, flash
<1>. USE DEF UnlockInv, TypeOK, LockHolds, flash
<1>1. CASE FetchUnlocked
  BY <1>1 DEF FetchUnlocked, CardLocked
<1>2. CASE VerifyAccepted
  BY <1>2 DEF VerifyAccepted, CardSets
<1>3. ~StartUnlock /\ ~FetchChallenge /\ ~GiveUp /\ ~StartSearch /\ ~EnterPin
  BY DEF StartUnlock, FetchChallenge, AddChallenge, GiveUp, StartSearch, EnterPin
<1>4. ~PowTask /\ ~VerifyWrongPin /\ ~VerifyLocked /\ ~PowerLoss
  BY DEF PowTask, PowFinds, PowGoesOn, VerifyWrongPin, VerifyLocked, SetWalletLocked, PowerLoss
<1>5. ~CardStep
  BY DEF CardStep, OtherVault, WalletUsed
<1>. QED
  BY <1>1, <1>2, <1>3, <1>4, <1>5 DEF Next, UnlockStep

(* The wallet becomes usable again only with its card. *)
THEOREM OnlyTheCardUnlocks == Safety => UnlockedByCard
<1>1. QED
  BY UnlockInvariant, UnlockingStepByCard, PTL DEF Safety, UnlockedByCard
=============================================================================
