----------------------------- MODULE VaultSetup -----------------------------
(***************************************************************************)
(* The setting up of a vault: the onboarding milestones, the pairing of    *)
(* the cards, the resets, and the choice that the main loop makes from     *)
(* them between the onboarding, the restricted and the full flows.  All of *)
(* it is kept in two flash pages, and a save erases its page before it     *)
(* writes it: the model cuts the power inside every save.                  *)
(***************************************************************************)
EXTENDS Naturals, FiniteSets

CONSTANTS Families,      \* family ids of the card sets a user may tap
          NoFamily,      \* 0xFFFFFFFF: no family yet, any card is accepted
          ZeroFamily,    \* what a torn page leaves: the id of no card
          NumCards,      \* cards of a set; the last one ends the onboarding
          MaxLosses      \* bound: power losses and visits to the bootloader

ASSUME SetupAssumption ==
  /\ NoFamily # ZeroFamily
  /\ NoFamily \notin Families /\ ZeroFamily \notin Families
  /\ NumCards \in Nat \ {0} /\ MaxLosses \in Nat

VARIABLES step,      \* last onboarding milestone in flash
          family,    \* family id in flash
          wallets,   \* is the wallet count in flash above zero?
          keystore,  \* sec flash: family of the card paired at each number
          auth,      \* boot data: is the device authenticated?
          saving,    \* page that a save has erased and not yet written
          flow,      \* base flow that the core runs
          app,       \* place of the main thread inside that flow
          ctx,       \* card dialogue: its number, pairing asked, family tapped
          losses,    \* power losses so far
          done       \* history: milestones passed since the factory reset

vars == <<step, family, wallets, keystore, auth, saving, flow, app, ctx,
          losses, done>>
pages == <<step, family, wallets, keystore>>

Cards == 1 .. NumCards
Virgin == 0
DeviceAuthDone == 1
JoystickDone == 2
CheckupDone == 3
CardAuthDone == 4
Complete == 5

Milestones == {"auth", "joystick", "checkup"}
Places == {"none", "return", "auth_random", "auth_result", "set_auth",
           "trained", "card_challenge", "card_result", "pair", "store_key",
           "card_done", "wipe_flash", "clear_flash", "reset"}
NoCtx == [card |-> 1, pair |-> FALSE, family |-> NoFamily]
Unpaired == [n \in Cards |-> NoFamily]

TypeOK ==
  /\ step \in Virgin .. Complete
  /\ family \in Families \cup {NoFamily, ZeroFamily}
  /\ wallets \in BOOLEAN
  /\ keystore \in [Cards -> Families \cup {NoFamily}]
  /\ auth \in BOOLEAN
  /\ saving \in {"none", "flash", "sec"}
  /\ flow \in {"choose", "onboarding", "restricted", "menu"}
  /\ app \in Places
  /\ ctx \in [card : Cards, pair : BOOLEAN, family : Families \cup {NoFamily}]
  /\ losses \in 0 .. MaxLosses
  /\ done \in SUBSET Milestones

Init ==
  /\ step = Virgin /\ family = NoFamily /\ wallets = FALSE
  /\ keystore = Unpaired /\ auth = FALSE
  /\ saving = "none" /\ flow = "choose" /\ app = "none"
  /\ ctx = NoCtx /\ losses = 0 /\ done = {}

-----------------------------------------------------------------------------
(* The milestones and the saves.                                           *)

PairedCards == {n \in Cards : keystore[n] # NoFamily}
InUse == wallets \/ PairedCards # {}

\* A card is accepted when its family is the vault's, or the vault has none.
Accepts(f) == family \in {f, NoFamily}

\* Mutant: off by one, a milestone may be jumped over.
StepAllowed_TwoAhead(s) == step = Complete \/ s <= step + 2

\* Milestones passed, and the next one, may be run; all of them once complete.
StepAllowed(s) == step = Complete \/ s <= step + 1

\* Erases the flash page; FinishSave writes it.
SaveFlash == saving' = "flash"
SaveSec == saving' = "sec"

\* Saves milestone s unless it would be a step back.
SetStepDone(s) ==
  IF step < s THEN step' = s /\ SaveFlash ELSE UNCHANGED <<step, saving>>

FinishSave ==
  /\ saving # "none"
  /\ saving' = "none"
  /\ UNCHANGED <<pages, auth, flow, app, ctx, losses, done>>

\* The main thread runs on from place p.
At(p) == saving = "none" /\ app = p
Idle(flows) == At("none") /\ flow \in flows
Served == {"onboarding", "restricted", "menu"}

-----------------------------------------------------------------------------
(* The choice of the base flow.                                            *)

\* Milestones of a device that lost its authentication count for nothing.
ForgetsSetup == step \in DeviceAuthDone .. CardAuthDone /\ ~auth

ChooseResetStep ==
  /\ Idle({"choose"})
  /\ ForgetsSetup
  /\ step' = Virgin
  /\ SaveFlash
  /\ UNCHANGED <<family, wallets, keystore, auth, flow, app, ctx, losses, done>>

\* A device in the field, with a wallet or a paired card, skips onboarding.
ChooseComplete ==
  /\ Idle({"choose"})
  /\ step # Complete /\ ~ForgetsSetup
  /\ InUse
  /\ SetStepDone(Complete)
  /\ UNCHANGED <<family, wallets, keystore, auth, flow, app, ctx, losses, done>>

FlowFor ==
  CASE step # Complete -> "onboarding"
    [] step = Complete /\ ~auth -> "restricted"
    [] step = Complete /\ auth -> "menu"

ChooseFlow ==
  /\ Idle({"choose"})
  /\ step = Complete \/ (~ForgetsSetup /\ ~InUse)
  /\ flow' = FlowFor
  /\ UNCHANGED <<pages, auth, saving, app, ctx, losses, done>>

\* Mutant: the menu does not notice that an app took the authentication away.
FlowEnds_MenuStays(f) ==
  CASE f = "onboarding" -> step = Complete
    [] f = "restricted" -> auth
    [] f = "menu" -> step # Complete
    [] OTHER -> FALSE

\* Mutant: the restricted flow goes on after the device was authenticated.
FlowEnds_RestrictedStays(f) ==
  CASE f = "onboarding" -> step = Complete
    [] f = "menu" -> step # Complete \/ ~auth
    [] OTHER -> FALSE

\* After an app: does this flow give the core the choice again?
FlowEnds(f) ==
  CASE f = "onboarding" -> step = Complete
    [] f = "restricted" -> auth
    [] f = "menu" -> step # Complete \/ ~auth
    [] OTHER -> FALSE

ReturnToCore ==
  /\ At("return")
  /\ app' = "none"
  /\ flow' = IF FlowEnds(flow) THEN "choose" ELSE flow
  /\ ctx' = NoCtx
  /\ UNCHANGED <<pages, auth, saving, losses, done>>

\* Any app may be aborted by the user, the host or a timeout.
Interruptible == {"auth_random", "auth_result", "card_challenge",
                  "card_result", "pair"}
Abort ==
  /\ saving = "none" /\ app \in Interruptible
  /\ app' = "return"
  /\ UNCHANGED <<pages, auth, saving, flow, ctx, losses, done>>

-----------------------------------------------------------------------------
(* Device authentication, in every flow.                                   *)

AuthDevice ==
  /\ Idle(Served)
  /\ StepAllowed(DeviceAuthDone)
  /\ app' = "auth_random"
  /\ UNCHANGED <<pages, auth, saving, flow, ctx, losses, done>>

AuthDeviceChallenge ==
  /\ At("auth_random")
  /\ app' = "auth_result"
  /\ UNCHANGED <<pages, auth, saving, flow, ctx, losses, done>>

\* A result before the challenge counts as a failure, whatever it says.
AuthDeviceFailed ==
  /\ At("auth_random") \/ At("auth_result")
  /\ auth' = FALSE
  /\ app' = "return"
  /\ UNCHANGED <<pages, saving, flow, ctx, losses, done>>

\* The milestone is saved first, the authentication after it (SetAuth).
AuthDeviceVerified ==
  /\ At("auth_result")
  /\ SetStepDone(DeviceAuthDone)
  /\ done' = done \cup {"auth"}
  /\ app' = "set_auth"
  /\ UNCHANGED <<family, wallets, keystore, auth, flow, ctx, losses>>

SetAuth ==
  /\ At("set_auth")
  /\ auth' = TRUE
  /\ app' = "return"
  /\ UNCHANGED <<pages, saving, flow, ctx, losses, done>>

-----------------------------------------------------------------------------
(* The trainings.                                                          *)

JoystickTraining ==
  /\ Idle({"onboarding", "menu"})
  /\ StepAllowed(JoystickDone)
  /\ SetStepDone(JoystickDone)
  /\ done' = done \cup {"joystick"}
  /\ app' = "return"
  /\ UNCHANGED <<family, wallets, keystore, auth, flow, ctx, losses>>

\* A family is taken over only while there is no wallet.
SetFamily(f) ==
  IF wallets THEN UNCHANGED <<family, saving>> ELSE family' = f /\ SaveFlash

\* The vault takes over the family of the card tapped.
CardTraining(f) ==
  /\ Idle({"onboarding", "menu"})
  /\ StepAllowed(CheckupDone)
  /\ IF f # family THEN SetFamily(f) ELSE UNCHANGED <<family, saving>>
  /\ app' = "trained"
  /\ UNCHANGED <<step, wallets, keystore, auth, flow, ctx, losses, done>>

CardTrained ==
  /\ At("trained")
  /\ SetStepDone(CheckupDone)
  /\ done' = done \cup {"checkup"}
  /\ app' = "return"
  /\ UNCHANGED <<family, wallets, keystore, auth, flow, ctx, losses>>

-----------------------------------------------------------------------------
(* Card authentication and pairing.                                        *)

\* The host names the number of the card; a complete vault may let the tap
\* decide it.
AuthCard(n, pair) ==
  /\ Idle({"onboarding", "menu"})
  /\ StepAllowed(CardAuthDone)
  /\ \E f \in Families : Accepts(f)
  /\ ctx' = [NoCtx EXCEPT !.card = n, !.pair = pair]
  /\ app' = "card_challenge"
  /\ UNCHANGED <<pages, auth, saving, flow, losses, done>>

AuthCardChallenge ==
  /\ At("card_challenge")
  /\ app' = "card_result"
  /\ UNCHANGED <<pages, auth, saving, flow, ctx, losses, done>>

\* The host accepts the card: it is paired if asked for.
AuthCardVerified ==
  /\ At("card_result")
  /\ app' = IF ctx.pair THEN "pair" ELSE "card_done"
  /\ UNCHANGED <<pages, auth, saving, flow, ctx, losses, done>>

\* A card that is not paired yet: the first one also gives its family.
PairCard(f) ==
  /\ At("pair")
  /\ Accepts(f) /\ keystore[ctx.card] # f
  /\ IF family = NoFamily THEN SetFamily(f) ELSE UNCHANGED <<family, saving>>
  /\ ctx' = [ctx EXCEPT !.family = f]
  /\ app' = "store_key"
  /\ UNCHANGED <<step, wallets, keystore, auth, flow, losses, done>>

\* A card that is paired already is left so.
PairedAlready ==
  /\ At("pair")
  /\ ctx.card \in PairedCards /\ Accepts(keystore[ctx.card])
  /\ app' = "card_done"
  /\ UNCHANGED <<pages, auth, saving, flow, ctx, losses, done>>

StoreKey ==
  /\ At("store_key")
  /\ keystore' = [keystore EXCEPT ![ctx.card] = ctx.family]
  /\ SaveSec
  /\ app' = "card_done"
  /\ UNCHANGED <<step, family, wallets, auth, flow, ctx, losses, done>>

\* A pairing that fails after the card answered is not reported: the
\* authentication goes on as if the card were paired.
StoreKeyFails ==
  /\ At("store_key")
  /\ app' = "card_done"
  /\ UNCHANGED <<pages, auth, saving, flow, ctx, losses, done>>

\* The last card ends the onboarding, whichever cards came before it.
AuthCardDone ==
  /\ At("card_done")
  /\ IF ctx.card = NumCards THEN SetStepDone(Complete)
                            ELSE UNCHANGED <<step, saving>>
  /\ app' = "return"
  /\ UNCHANGED <<family, wallets, keystore, auth, flow, ctx, losses, done>>

\* Pairing from the settings asks for the numbers that are not paired, the
\* inheritance app for any number.
PairFromMenu(n) ==
  /\ Idle({"menu"})
  /\ ctx' = [NoCtx EXCEPT !.card = n, !.pair = TRUE]
  /\ app' = "pair"
  /\ UNCHANGED <<pages, auth, saving, flow, losses, done>>

\* A card has forgotten the vault: all the pairings are dropped.
InvalidateKeystore ==
  /\ saving = "none"
  /\ \/ app = "none" /\ flow = "menu" /\ app' = "none"
     \/ app \in {"card_challenge", "card_result", "pair"} /\ app' = "return"
  /\ PairedCards # {}
  /\ keystore' = Unpaired
  /\ SaveSec
  /\ UNCHANGED <<step, family, wallets, auth, flow, ctx, losses, done>>

-----------------------------------------------------------------------------
(* The wallets, as far as the setup depends on them, and the resets.       *)

WalletAdded ==
  /\ Idle({"menu"})
  /\ \E n \in PairedCards : Accepts(keystore[n])
  /\ wallets' = TRUE
  /\ SaveFlash
  /\ UNCHANGED <<step, family, keystore, auth, flow, app, ctx, losses, done>>

LastWalletDeleted ==
  /\ Idle({"menu"})
  /\ wallets
  /\ wallets' = FALSE
  /\ SaveFlash
  /\ UNCHANGED <<step, family, keystore, auth, flow, app, ctx, losses, done>>

\* Shares of wallets are kept in the page of the pairings.
ShareSaved ==
  /\ Idle({"menu"})
  /\ SaveSec
  /\ UNCHANGED <<pages, auth, flow, app, ctx, losses, done>>

\* Both resets erase the pairings first.
StartReset(place) ==
  /\ Idle({"menu"})
  /\ keystore' = Unpaired
  /\ app' = place
  /\ UNCHANGED <<step, family, wallets, auth, saving, flow, ctx, losses, done>>

FactoryReset ==
  /\ At("wipe_flash")
  /\ step' = Virgin /\ family' = NoFamily /\ wallets' = FALSE
  /\ done' = {}
  /\ app' = "reset"
  /\ UNCHANGED <<keystore, auth, saving, flow, ctx, losses>>

\* Clearing the data of the user erases the page and saves the step again.
ClearDeviceData ==
  /\ At("clear_flash")
  /\ family' = NoFamily /\ wallets' = FALSE
  /\ SaveFlash
  /\ app' = "reset"
  /\ UNCHANGED <<step, keystore, auth, flow, ctx, losses, done>>

Reset ==
  /\ At("reset")
  /\ flow' = "choose" /\ app' = "none" /\ ctx' = NoCtx
  /\ UNCHANGED <<pages, auth, saving, losses, done>>

-----------------------------------------------------------------------------
(* Power losses and the bootloader.                                        *)

Page(f, w, s) == [family |-> f, wallets |-> w, step |-> s]

\* Mutant: the step of an erased page is used as it is read, 0xFF.
TornPages_RawStep ==
  {Page(NoFamily, FALSE, 255), Page(ZeroFamily, FALSE, Virgin),
   Page(family, FALSE, Virgin), Page(family, wallets, Virgin),
   Page(family, wallets, step)}

\* Mutant: the wallets are written before the family.
TornPages_WalletsFirst ==
  {Page(NoFamily, FALSE, Virgin), Page(ZeroFamily, FALSE, Virgin),
   Page(ZeroFamily, wallets, Virgin), Page(family, wallets, Virgin),
   Page(family, wallets, step)}

\* What a load finds after a save was cut: the fields come in the order
\* family, wallets, step; an erased page has no family, a field that was not
\* written is zero.
TornPages ==
  {Page(NoFamily, FALSE, Virgin), Page(ZeroFamily, FALSE, Virgin),
   Page(family, FALSE, Virgin), Page(family, wallets, Virgin),
   Page(family, wallets, step)}

PowerLoss ==
  /\ losses < MaxLosses
  /\ losses' = losses + 1
  /\ flow' = "choose" /\ app' = "none" /\ ctx' = NoCtx /\ saving' = "none"
  /\ IF saving = "flash"
       THEN \E p \in TornPages :
              family' = p.family /\ wallets' = p.wallets /\ step' = p.step
       ELSE UNCHANGED <<family, wallets, step>>
  /\ \/ UNCHANGED keystore
     \/ saving = "sec" /\ keystore' = Unpaired
  /\ UNCHANGED <<auth, done>>

\* The secure bootloader may restart the device without its authentication.
BootloaderClearsAuth ==
  /\ losses < MaxLosses
  /\ losses' = losses + 1
  /\ Idle(Served)
  /\ auth' = FALSE
  /\ flow' = "choose"
  /\ UNCHANGED <<pages, saving, app, ctx, done>>

-----------------------------------------------------------------------------
ChooseStep == ChooseResetStep \/ ChooseComplete \/ ChooseFlow
DeviceAuthStep ==
  AuthDevice \/ AuthDeviceChallenge \/ AuthDeviceFailed \/ AuthDeviceVerified
    \/ SetAuth
TrainingStep ==
  JoystickTraining \/ (\E f \in Families : CardTraining(f)) \/ CardTrained
CardStep ==
  \/ \E n \in Cards, p \in BOOLEAN : AuthCard(n, p)
  \/ AuthCardChallenge \/ AuthCardVerified \/ AuthCardDone
  \/ \E f \in Families : PairCard(f)
  \/ PairedAlready \/ StoreKey \/ StoreKeyFails
  \/ \E n \in Cards : PairFromMenu(n)
  \/ InvalidateKeystore
MenuStep ==
  \/ WalletAdded \/ LastWalletDeleted \/ ShareSaved
  \/ StartReset("wipe_flash") \/ StartReset("clear_flash")
  \/ FactoryReset \/ ClearDeviceData \/ Reset
FaultStep == PowerLoss \/ BootloaderClearsAuth

Next ==
  \/ FinishSave \/ ReturnToCore \/ Abort
  \/ ChooseStep \/ DeviceAuthStep \/ TrainingStep \/ CardStep \/ MenuStep
  \/ FaultStep

\* The main thread runs on wherever it waits for no one.
Fairness == WF_vars(FinishSave \/ ReturnToCore \/ ChooseStep \/ SetAuth)
Spec == Init /\ [][Next]_vars /\ Fairness
-----------------------------------------------------------------------------
(* What the setup promises.                                                *)

\* A vault that counts as set up, that has a paired card or a wallet, went
\* through the authentication, the joystick and the card check-up since its
\* last factory reset: no torn save, skipped onboarding or repeated step of
\* the host lets it past one of them.
Earned == step = Complete \/ InUse => done = Milestones

\* While the core waits inside a flow, that flow is the one the setup calls
\* for: whatever an app changed, the full menu is never left open on a device
\* that lost its authentication, nor the onboarding on a complete one.
FlowMatches ==
  Idle(Served) =>
    CASE flow = "menu" -> step = Complete /\ auth
      [] flow = "restricted" -> step = Complete /\ ~auth
      [] flow = "onboarding" -> step # Complete

\* A torn save may leave the family id of no card, but never together with
\* wallets: set_family_id_flash refuses a family while there are wallets, and
\* no card could be tapped for them any more.
FamilyRecoverable == family = ZeroFamily => ~wallets

\* An authenticated device in use that starts, or that regains its
\* authentication in the restricted flow, reaches the main menu, unless a
\* fault takes away what it had.
SetUp == auth /\ (step = Complete \/ InUse)
ReachesMenu == (SetUp /\ flow \in {"choose", "restricted"}) ~> (flow = "menu" \/ ~SetUp)
=============================================================================
