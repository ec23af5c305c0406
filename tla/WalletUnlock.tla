---------------------------- MODULE WalletUnlock ----------------------------
(***************************************************************************)
(* The unlocking of one wallet.  A card that saw too many wrong PINs locks *)
(* its share behind a challenge; the vault records the lock in flash,      *)
(* fetches the challenge, searches a nonce that solves it, saving the      *)
(* search every few seconds, and shows nonce and PIN to the card.  Power   *)
(* losses interrupt the search; another vault may use the card meanwhile.  *)
(***************************************************************************)
EXTENDS Naturals

CONSTANTS Cards,       \* cards that hold a share of the wallet
          Challenges,  \* challenges that the cards may set
          MaxNonce,    \* bound: nonces are 0 .. MaxNonce, and wrap
          Solution,    \* nonces whose hash meets the target of a challenge
          HashRate,    \* hashes per second, measured at power-up
          NoCard, NoChallenge,
          Unset        \* a nonce of 0xFF bytes: no challenge fetched yet

Nonces == 0 .. MaxNonce

ASSUME UnlockAssumption ==
  /\ MaxNonce \in Nat /\ HashRate \in Nat
  /\ Solution \in [Challenges -> SUBSET Nonces]
  /\ \A c \in Challenges : Solution[c] # {}
  /\ HashRate % 2 ^ 16 # 0
  /\ NoCard \notin Cards /\ NoChallenge \notin Challenges /\ Unset \notin Nat

VARIABLES locked,      \* flash: is the wallet locked?
          cardLocked,  \* flash: the card that locked it
          challenge,   \* flash: its challenge, once fetched
          nonce,       \* flash: where the search stands, or Unset
          pow,         \* RAM: nonce to be tried next, or found
          place,       \* state of wallet_unlock_flow, "idle" outside it
          card         \* the cards: challenge they ask for, or none

flash == <<locked, cardLocked, challenge, nonce>>
vars == <<flash, pow, place, card>>

Places == {"idle", "fetch", "refetch", "solve", "search", "pin", "verify"}

TypeOK ==
  /\ locked \in BOOLEAN
  /\ cardLocked \in Cards \cup {NoCard}
  /\ challenge \in Challenges \cup {NoChallenge}
  /\ nonce \in Nonces \cup {Unset}
  /\ pow \in Nonces
  /\ place \in Places
  /\ card \in [Cards -> Challenges \cup {NoChallenge}]

\* Without a lock the record of it is zero.
Init ==
  /\ locked = FALSE /\ cardLocked = NoCard
  /\ challenge = NoChallenge /\ nonce = 0
  /\ pow = 0 /\ place = "idle"
  /\ card = [c \in Cards |-> NoChallenge]

-----------------------------------------------------------------------------
(* The record of the lock in flash.                                        *)

\* The challenge is forgotten: it has to be fetched from card c.
SetWalletLocked(c) ==
  /\ locked' = TRUE
  /\ cardLocked' = c
  /\ challenge' = NoChallenge
  /\ nonce' = Unset

\* A fetched challenge starts the search at zero.
AddChallenge(ch) ==
  /\ challenge' = ch
  /\ nonce' = 0
  /\ UNCHANGED <<locked, cardLocked>>

ClearLock ==
  /\ locked' = FALSE
  /\ cardLocked' = NoCard
  /\ challenge' = NoChallenge
  /\ nonce' = 0

-----------------------------------------------------------------------------
(* What the cards do.                                                      *)

CardLocked(c) == card[c] # NoChallenge
CardSets(c, ch) == card' = [card EXCEPT ![c] = ch]

\* A card keeps its challenge or sets another one.
CardAsksAgain(c) == \E ch \in Challenges : CardSets(c, ch)

\* Another vault with which the card is paired locks or unlocks it.
OtherVault(c) ==
  /\ \E ch \in Challenges \cup {NoChallenge} : CardSets(c, ch)
  /\ UNCHANGED <<flash, pow, place>>

\* A flow with the wallet taps a card that is locked, or locks it by wrong
\* PINs; locked wallets are refused by every flow but this one.
WalletUsed(c) ==
  /\ place = "idle" /\ ~locked
  /\ CardAsksAgain(c)
  /\ SetWalletLocked(c)
  /\ UNCHANGED <<pow, place>>

-----------------------------------------------------------------------------
(* wallet_unlock_flow: one action per state and outcome.                   *)

\* A search that was begun is taken up again without a tap.
StartUnlock ==
  /\ place = "idle" /\ locked
  /\ place' = IF nonce = Unset THEN "fetch" ELSE "solve"
  /\ UNCHANGED <<flash, pow, card>>

\* The card may set a new challenge with every fetch.  After a refetch the
\* user is asked whether to go on.
FetchChallenge ==
  /\ place \in {"fetch", "refetch"}
  /\ CardLocked(cardLocked)
  /\ CardAsksAgain(cardLocked)
  /\ AddChallenge(card'[cardLocked])
  /\ \/ place' = "solve"
     \/ place = "refetch" /\ place' = "idle"
  /\ UNCHANGED pow

\* The card says that the wallet is not locked.
FetchUnlocked ==
  /\ place \in {"fetch", "refetch"}
  /\ ~CardLocked(cardLocked)
  /\ ClearLock
  /\ place' = "idle"
  /\ UNCHANGED <<pow, card>>

\* No card, a wrong card, a rejection or a timeout.
GiveUp ==
  /\ place \in {"fetch", "refetch", "pin", "verify"}
  /\ place' = "idle"
  /\ UNCHANGED <<flash, pow, card>>

StartSearch ==
  /\ place = "solve"
  /\ pow' = nonce
  /\ place' = "search"
  /\ UNCHANGED <<flash, card>>

\* Mutant: the rate taken per millisecond.
Limit_PerMillisecond == (HashRate \div 1000) % 2 ^ 16

\* Hashes of one second, in sixteen bits.
Limit == HashRate % 2 ^ 16

Ahead(i) == (pow + i) % (MaxNonce + 1)
Solves(n) == n \in Solution[challenge]

\* Mutant: the nonce found is stepped over before the search ends.
PowFinds_Advanced ==
  /\ place = "search"
  /\ \E i \in 0 .. Limit - 1 :
       /\ Solves(Ahead(i))
       /\ \A j \in 0 .. i - 1 : ~Solves(Ahead(j))
       /\ pow' = Ahead(i + 1) /\ nonce' = Ahead(i)
  /\ place' = "pin"
  /\ UNCHANGED <<locked, cardLocked, challenge, card>>

\* The first of the next Limit nonces that solves the challenge; it is saved.
PowFinds ==
  /\ place = "search"
  /\ \E i \in 0 .. Limit - 1 :
       /\ Solves(Ahead(i))
       /\ \A j \in 0 .. i - 1 : ~Solves(Ahead(j))
       /\ pow' = Ahead(i) /\ nonce' = Ahead(i)
  /\ place' = "pin"
  /\ UNCHANGED <<locked, cardLocked, challenge, card>>

\* Mutant: the timer saves behind the nonces that are tried after it.
PowGoesOn_SavedAhead ==
  /\ place = "search"
  /\ \A i \in 0 .. Limit - 1 : ~Solves(Ahead(i))
  /\ pow' = Ahead(Limit)
  /\ nonce' = Ahead(Limit + 1)
  /\ UNCHANGED <<locked, cardLocked, challenge, place, card>>

\* None does; the timer may have saved the nonce before they were tried.
PowGoesOn ==
  /\ place = "search"
  /\ \A i \in 0 .. Limit - 1 : ~Solves(Ahead(i))
  /\ pow' = Ahead(Limit)
  /\ nonce' \in {nonce, pow}
  /\ UNCHANGED <<locked, cardLocked, challenge, place, card>>

EnterPin ==
  /\ place = "pin"
  /\ place' = "verify"
  /\ UNCHANGED <<flash, pow, card>>

\* The nonce in RAM and the PIN are right, or the card was not locked.
VerifyAccepted ==
  /\ place = "verify"
  /\ CardLocked(cardLocked) => pow \in Solution[card[cardLocked]]
  /\ CardSets(cardLocked, NoChallenge)
  /\ ClearLock
  /\ place' = "idle"
  /\ UNCHANGED pow

\* Mutant: a PIN that is wrong unlocks the wallet in flash.
VerifyWrongPin_Clears ==
  /\ place = "verify"
  /\ CardLocked(cardLocked) /\ pow \in Solution[card[cardLocked]]
  /\ CardAsksAgain(cardLocked)
  /\ ClearLock
  /\ place' = "idle"
  /\ UNCHANGED pow

\* The PIN is wrong, and the card says how many are left.
VerifyWrongPin ==
  /\ place = "verify"
  /\ CardLocked(cardLocked) /\ pow \in Solution[card[cardLocked]]
  /\ CardAsksAgain(cardLocked)
  /\ place' = "idle"
  /\ UNCHANGED <<flash, pow>>

\* The nonce does not solve the card's challenge, or the PIN was the last
\* wrong one: the challenge is refetched at once.
VerifyLocked ==
  /\ place = "verify"
  /\ CardLocked(cardLocked)
  /\ CardAsksAgain(cardLocked)
  /\ SetWalletLocked(cardLocked)
  /\ place' = "refetch"
  /\ UNCHANGED pow

\* Flash saves are taken whole here; VaultSetup cuts them.
PowerLoss ==
  /\ place' = "idle"
  /\ pow' = 0
  /\ UNCHANGED <<flash, card>>

-----------------------------------------------------------------------------
PowTask == PowFinds \/ PowGoesOn
UnlockStep ==
  \/ StartUnlock \/ FetchChallenge \/ FetchUnlocked \/ GiveUp
  \/ StartSearch \/ PowTask \/ EnterPin
  \/ VerifyAccepted \/ VerifyWrongPin \/ VerifyLocked
CardStep == \E c \in Cards : OtherVault(c) \/ WalletUsed(c)

Next == UnlockStep \/ CardStep \/ PowerLoss
Safety == Init /\ [][Next]_vars
Spec == Safety /\ WF_vars(PowTask)

-----------------------------------------------------------------------------
(* What unlocking promises.                                                *)

\* Between the fetch of a challenge and its answer a search may be broken off
\* and taken up any number of times, with any save of its nonce: no solution
\* lies below the nonce that it goes on from.
NoSolutionSkipped ==
  /\ challenge # NoChallenge /\ nonce # Unset =>
       \A n \in Solution[challenge] : nonce <= n
  /\ place = "search" => \A n \in Solution[challenge] : pow <= n

\* What is shown to the card solves the challenge in flash, also when the
\* challenge was replaced after the card refused an answer.
AnswerSolves == place \in {"pin", "verify"} => Solves(pow)

\* The wallet becomes usable again only by a step in which the card that
\* locked it is, or becomes, unlocked.
UnlockedByCard ==
  [][locked /\ ~locked' => card'[cardLocked] = NoChallenge]_vars

\* The loop of the search polls no event, so it has to come to an end itself.
SearchEnds == place = "search" ~> place # "search"
=============================================================================
