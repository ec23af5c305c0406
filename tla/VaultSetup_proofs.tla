-------------------------- MODULE VaultSetup_proofs --------------------------
(***************************************************************************)
(* Proofs about VaultSetup, for all card sets, every number of cards and   *)
(* any number of power losses.                                             *)
(***************************************************************************)
EXTENDS VaultSetup, TLAPS

-----------------------------------------------------------------------------
(* What is left of the pages after a power loss: the wallets survive only  *)
(* together with the family, and the step is the old one or none.          *)
LEMMA AfterLoss ==
    ASSUME PowerLoss
    PROVE  /\ family' \in {family, NoFamily, ZeroFamily}
           /\ step' \in {step, Virgin}
           /\ wallets' = FALSE \/ (wallets' = wallets /\ family' = family)
           /\ keystore' \in {keystore, Unpaired}
<1>1. keystore' \in {keystore, Unpaired}
  BY DEF PowerLoss
<1>2. CASE saving # "flash"
  BY <1>1, <1>2 DEF PowerLoss
<1>3. CASE saving = "flash"
  <2>1. PICK p \in TornPages :
          family' = p.family /\ wallets' = p.wallets /\ step' = p.step
    BY <1>3, Zenon DEF PowerLoss
  <2> DEFINE Kept == /\ p.family \in {family, NoFamily, ZeroFamily}
                     /\ p.step \in {step, Virgin}
                     /\ p.wallets = FALSE \/ (p.wallets = wallets /\ p.family = family)
  <2>2. ASSUME NEW f \in {family, NoFamily, ZeroFamily}, p = Page(f, FALSE, Virgin)
        PROVE  Kept
    BY <2>2, Zenon DEF Page
  <2>3. ASSUME NEW s \in {step, Virgin}, p = Page(family, wallets, s)
        PROVE  Kept
    BY <2>3, Zenon DEF Page
  <2>4. Kept
    BY <2>1, <2>2, <2>3, Zenon DEF TornPages
  <2>. QED
    BY <1>1, <2>1, <2>4, Zenon
<1>. QED
  BY <1>2, <1>3

-----------------------------------------------------------------------------
(* Types. *)

LEMMA InitTyped == Init => TypeOK
<1>. SUFFICES ASSUME Init PROVE TypeOK
  OBVIOUS
<1>. USE SetupAssumption DEF Init
<1>1. step \in Virgin .. Complete /\ losses \in 0 .. MaxLosses
  BY DEF Virgin, Complete
<1>2. keystore \in [Cards -> Families \cup {NoFamily}]
  BY DEF Unpaired
<1>3. ctx \in [card : Cards, pair : BOOLEAN, family : Families \cup {NoFamily}]
  BY DEF NoCtx, Cards
<1>4. wallets \in BOOLEAN /\ auth \in BOOLEAN
  BY Zenon
<1>. QED
  BY <1>1, <1>2, <1>3, <1>4 DEF TypeOK, Places, Milestones

(* Every action keeps the types. *)
LEMMA NextTyped == TypeOK /\ Next => TypeOK'
<1>. SUFFICES ASSUME TypeOK, Next PROVE TypeOK'
  OBVIOUS
<1>. USE SetupAssumption DEF TypeOK, Virgin, DeviceAuthDone, JoystickDone, CheckupDone, CardAuthDone, Complete, Places, Milestones, pages
<1>1. CASE FinishSave
  BY <1>1 DEF FinishSave
<1>2. CASE ReturnToCore
  BY <1>2 DEF ReturnToCore, FlowEnds, At, NoCtx, Cards
<1>3. CASE Abort
  BY <1>3 DEF Abort, Interruptible
<1>4. CASE ChooseResetStep
  BY <1>4 DEF ChooseResetStep, SaveFlash, Idle, At, ForgetsSetup
<1>5. CASE ChooseComplete
  BY <1>5 DEF ChooseComplete, SetStepDone, SaveFlash, Idle, At, ForgetsSetup
<1>6. CASE ChooseFlow
  BY <1>6 DEF ChooseFlow, FlowFor, Idle, At, ForgetsSetup
<1>7. CASE AuthDevice
  BY <1>7 DEF AuthDevice, Idle, At, Served, StepAllowed
<1>8. CASE AuthDeviceChallenge
  BY <1>8 DEF AuthDeviceChallenge, At
<1>9. CASE AuthDeviceFailed
  BY <1>9 DEF AuthDeviceFailed, At
<1>10. CASE AuthDeviceVerified
  BY <1>10 DEF AuthDeviceVerified, SetStepDone, SaveFlash, At, Milestones
<1>11. CASE SetAuth
  BY <1>11 DEF SetAuth, At
<1>12. CASE JoystickTraining
  BY <1>12 DEF JoystickTraining, SetStepDone, SaveFlash, StepAllowed, Idle, At, Milestones
<1>13. ASSUME NEW f \in Families, CardTraining(f) PROVE TypeOK'
  BY <1>13 DEF CardTraining, SetFamily, SaveFlash, StepAllowed, Idle, At
<1>14. CASE CardTrained
  BY <1>14 DEF CardTrained, SetStepDone, SaveFlash, At, Milestones
<1>15. ASSUME NEW n \in Cards, NEW p \in BOOLEAN, AuthCard(n, p) PROVE TypeOK'
  BY <1>15 DEF AuthCard, NoCtx, StepAllowed, Idle, At
<1>16. CASE AuthCardChallenge
  BY <1>16 DEF AuthCardChallenge, At
<1>17. CASE AuthCardVerified
  BY <1>17 DEF AuthCardVerified, At
<1>18. CASE AuthCardDone
  BY <1>18 DEF AuthCardDone, SetStepDone, SaveFlash, At
<1>19. ASSUME NEW f \in Families, PairCard(f) PROVE TypeOK'
  BY <1>19 DEF PairCard, SetFamily, SaveFlash, At
<1>20. CASE PairedAlready
  BY <1>20 DEF PairedAlready, At
<1>21. CASE StoreKey
  BY <1>21 DEF StoreKey, SaveSec, At
<1>22. CASE StoreKeyFails
  BY <1>22 DEF StoreKeyFails, At
<1>23. ASSUME NEW n \in Cards, PairFromMenu(n) PROVE TypeOK'
  BY <1>23 DEF PairFromMenu, NoCtx, Idle, At
<1>24. CASE InvalidateKeystore
  BY <1>24 DEF InvalidateKeystore, Unpaired, SaveSec
<1>25. CASE WalletAdded
  BY <1>25 DEF WalletAdded, SaveFlash, Idle, At
<1>26. CASE LastWalletDeleted
  BY <1>26 DEF LastWalletDeleted, SaveFlash, Idle, At
<1>27. CASE ShareSaved
  BY <1>27 DEF ShareSaved, SaveSec, Idle, At
<1>28. ASSUME NEW place \in {"wipe_flash", "clear_flash"}, StartReset(place) PROVE TypeOK'
  BY <1>28 DEF StartReset, Unpaired, Idle, At
<1>29. CASE FactoryReset
  <2>1. wallets' \in BOOLEAN /\ auth' \in BOOLEAN
    BY <1>29, Zenon DEF FactoryReset
  <2>2. step' \in Virgin .. Complete /\ losses' \in 0 .. MaxLosses
    BY <1>29 DEF FactoryReset
  <2>3. done' \in SUBSET Milestones
    BY <1>29 DEF FactoryReset
  <2>. QED
    BY <1>29, <2>1, <2>2, <2>3 DEF FactoryReset
<1>30. CASE ClearDeviceData
  BY <1>30 DEF ClearDeviceData, SaveFlash, At
<1>31. CASE Reset
  BY <1>31 DEF Reset, NoCtx, Cards, At
<1>32. CASE PowerLoss
  <2>1. wallets' \in BOOLEAN /\ auth' \in BOOLEAN
    BY <1>32, AfterLoss, Zenon DEF PowerLoss
  <2>2. keystore' \in [Cards -> Families \cup {NoFamily}]
    BY <1>32, AfterLoss DEF Unpaired
  <2>3. losses' \in 0 .. MaxLosses
    BY <1>32 DEF PowerLoss
  <2>4. ctx' \in [card : Cards, pair : BOOLEAN, family : Families \cup {NoFamily}]
    BY <1>32 DEF PowerLoss, NoCtx, Cards
  <2>5. step' \in 0 .. 5 /\ family' \in Families \cup {NoFamily, ZeroFamily}
    BY <1>32, AfterLoss
  <2>. QED
    BY <1>32, <2>1, <2>2, <2>3, <2>4, <2>5 DEF PowerLoss
<1>33. CASE BootloaderClearsAuth
  <2>1. losses' \in 0 .. MaxLosses
    BY <1>33 DEF BootloaderClearsAuth
  <2>2. wallets' \in BOOLEAN /\ auth' \in BOOLEAN
    BY <1>33, Zenon DEF BootloaderClearsAuth
  <2>. QED
    BY <1>33, <2>1, <2>2 DEF BootloaderClearsAuth
<1>. QED
  BY <1>1, <1>2, <1>3, <1>4, <1>5, <1>6, <1>7, <1>8, <1>9, <1>10, <1>11,
     <1>12, <1>13, <1>14, <1>15, <1>16, <1>17, <1>18, <1>19, <1>20,
     <1>21, <1>22, <1>23, <1>24, <1>25, <1>26, <1>27, <1>28, <1>29,
     <1>30, <1>31, <1>32, <1>33 DEF Next, ChooseStep, DeviceAuthStep,
     TrainingStep, CardStep, MenuStep, FaultStep

(* Type correctness: the milestone saved is one of the six, the families   *)
(* and pairings are of known card sets or none, whatever torn save is read *)
(* back.                                                                   *)
THEOREM SetupTypeCorrect == Spec => []TypeOK
<1>1. TypeOK /\ UNCHANGED vars => TypeOK'
  BY DEF TypeOK, vars, pages
<1>. QED
  BY InitTyped, NextTyped, <1>1, PTL DEF Spec

-----------------------------------------------------------------------------
(* The family of the vault and its wallets. *)

(* No action leaves wallets with the family id of no card. *)
LEMMA NextRecoverable == TypeOK /\ FamilyRecoverable /\ Next => FamilyRecoverable'
<1>. SUFFICES ASSUME TypeOK /\ FamilyRecoverable, Next PROVE FamilyRecoverable'
  OBVIOUS
<1>. USE SetupAssumption DEF TypeOK, FamilyRecoverable, pages
<1>1. CASE FinishSave
  BY <1>1 DEF FinishSave
<1>2. CASE ReturnToCore
  BY <1>2 DEF ReturnToCore, FlowEnds, At, NoCtx, Cards
<1>3. CASE Abort
  BY <1>3 DEF Abort, Interruptible
<1>4. CASE ChooseResetStep
  BY <1>4 DEF ChooseResetStep, SaveFlash, Idle, At, ForgetsSetup
<1>5. CASE ChooseComplete
  BY <1>5 DEF ChooseComplete, SetStepDone, SaveFlash, Idle, At, ForgetsSetup
<1>6. CASE ChooseFlow
  BY <1>6 DEF ChooseFlow, FlowFor, Idle, At, ForgetsSetup
<1>7. CASE AuthDevice
  BY <1>7 DEF AuthDevice, Idle, At, Served, StepAllowed
<1>8. CASE AuthDeviceChallenge
  BY <1>8 DEF AuthDeviceChallenge, At
<1>9. CASE AuthDeviceFailed
  BY <1>9 DEF AuthDeviceFailed, At
<1>10. CASE AuthDeviceVerified
  BY <1>10 DEF AuthDeviceVerified, SetStepDone, SaveFlash, At, Milestones
<1>11. CASE SetAuth
  BY <1>11 DEF SetAuth, At
<1>12. CASE JoystickTraining
  BY <1>12 DEF JoystickTraining, SetStepDone, SaveFlash, StepAllowed, Idle, At, Milestones
<1>13. ASSUME NEW f \in Families, CardTraining(f) PROVE FamilyRecoverable'
  BY <1>13 DEF CardTraining, SetFamily, SaveFlash, StepAllowed, Idle, At
<1>14. CASE CardTrained
  BY <1>14 DEF CardTrained, SetStepDone, SaveFlash, At, Milestones
<1>15. ASSUME NEW n \in Cards, NEW p \in BOOLEAN, AuthCard(n, p) PROVE FamilyRecoverable'
  BY <1>15 DEF AuthCard, NoCtx, StepAllowed, Idle, At
<1>16. CASE AuthCardChallenge
  BY <1>16 DEF AuthCardChallenge, At
<1>17. CASE AuthCardVerified
  BY <1>17 DEF AuthCardVerified, At
<1>18. CASE AuthCardDone
  BY <1>18 DEF AuthCardDone, SetStepDone, SaveFlash, At
<1>19. ASSUME NEW f \in Families, PairCard(f) PROVE FamilyRecoverable'
  BY <1>19 DEF PairCard, SetFamily, SaveFlash, At
<1>20. CASE PairedAlready
  BY <1>20 DEF PairedAlready, At
<1>21. CASE StoreKey
  BY <1>21 DEF StoreKey, SaveSec, At
<1>22. CASE StoreKeyFails
  BY <1>22 DEF StoreKeyFails, At
<1>23. ASSUME NEW n \in Cards, PairFromMenu(n) PROVE FamilyRecoverable'
  BY <1>23 DEF PairFromMenu, NoCtx, Idle, At
<1>24. CASE InvalidateKeystore
  BY <1>24 DEF InvalidateKeystore, Unpaired, SaveSec
<1>25. CASE WalletAdded
  BY <1>25 DEF WalletAdded, SaveFlash, Idle, At, Accepts, PairedCards
<1>26. CASE LastWalletDeleted
  BY <1>26 DEF LastWalletDeleted, SaveFlash, Idle, At
<1>27. CASE ShareSaved
  BY <1>27 DEF ShareSaved, SaveSec, Idle, At
<1>28. ASSUME NEW place \in {"wipe_flash", "clear_flash"}, StartReset(place) PROVE FamilyRecoverable'
  BY <1>28 DEF StartReset, Unpaired, Idle, At
<1>29. CASE FactoryReset
  BY <1>29 DEF FactoryReset, At
<1>30. CASE ClearDeviceData
  BY <1>30 DEF ClearDeviceData, SaveFlash, At
<1>31. CASE Reset
  BY <1>31 DEF Reset, NoCtx, Cards, At
<1>32. CASE PowerLoss
  <2>1. CASE wallets' = FALSE
    BY <2>1, Zenon
  <2>2. CASE wallets' = wallets /\ family' = family
    BY <2>2, Zenon
  <2>. QED
    BY <1>32, <2>1, <2>2, AfterLoss, Zenon
<1>33. CASE BootloaderClearsAuth
  BY <1>33 DEF BootloaderClearsAuth, Idle, At, Served
<1>. QED
  BY <1>1, <1>2, <1>3, <1>4, <1>5, <1>6, <1>7, <1>8, <1>9, <1>10, <1>11,
     <1>12, <1>13, <1>14, <1>15, <1>16, <1>17, <1>18, <1>19, <1>20,
     <1>21, <1>22, <1>23, <1>24, <1>25, <1>26, <1>27, <1>28, <1>29,
     <1>30, <1>31, <1>32, <1>33 DEF Next, ChooseStep, DeviceAuthStep,
     TrainingStep, CardStep, MenuStep, FaultStep

(* No torn save, and no order of trainings, pairings and wallets, ever     *)
(* leaves a vault with wallets and the family id of no card.               *)
THEOREM FamilyStaysRecoverable == Spec => []FamilyRecoverable
<1>1. Init => FamilyRecoverable
  BY DEF Init, FamilyRecoverable
<1>2. FamilyRecoverable /\ UNCHANGED vars => FamilyRecoverable'
  BY DEF FamilyRecoverable, vars, pages
<1>. QED
  BY <1>1, <1>2, SetupTypeCorrect, NextRecoverable, PTL DEF Spec

-----------------------------------------------------------------------------
(* The flow in charge and the milestones behind it. *)

(* Inside an app the flow is still the one chosen before it; the core is   *)
(* trusted to look at it again afterwards.                                 *)
FlowHolds ==
  /\ flow = "menu" /\ app = "none" => step = Complete /\ auth
  /\ flow = "onboarding" /\ app = "none" => step # Complete
  /\ flow = "restricted" =>
       /\ step = Complete
       /\ app \in {"none", "return", "auth_random", "auth_result", "set_auth"}
       /\ app = "none" => ~auth

(* Every action keeps the flow in charge. *)
LEMMA NextFlowHolds == TypeOK /\ FlowHolds /\ Next => FlowHolds'
<1>. SUFFICES ASSUME TypeOK /\ FlowHolds, Next PROVE FlowHolds'
  OBVIOUS
<1>. USE SetupAssumption DEF TypeOK, FlowHolds, Virgin, DeviceAuthDone, JoystickDone, CheckupDone, CardAuthDone, Complete, pages
<1>1. CASE FinishSave
  BY <1>1 DEF FinishSave
<1>2. CASE ReturnToCore
  BY <1>2 DEF ReturnToCore, FlowEnds, At, NoCtx, Cards
<1>3. CASE Abort
  BY <1>3 DEF Abort, Interruptible
<1>4. CASE ChooseResetStep
  BY <1>4 DEF ChooseResetStep, SaveFlash, Idle, At, ForgetsSetup
<1>5. CASE ChooseComplete
  BY <1>5 DEF ChooseComplete, SetStepDone, SaveFlash, Idle, At, ForgetsSetup
<1>6. CASE ChooseFlow
  BY <1>6 DEF ChooseFlow, FlowFor, Idle, At, ForgetsSetup
<1>7. CASE AuthDevice
  BY <1>7 DEF AuthDevice, Idle, At, Served, StepAllowed
<1>8. CASE AuthDeviceChallenge
  BY <1>8 DEF AuthDeviceChallenge, At
<1>9. CASE AuthDeviceFailed
  BY <1>9 DEF AuthDeviceFailed, At
<1>10. CASE AuthDeviceVerified
  BY <1>10 DEF AuthDeviceVerified, SetStepDone, SaveFlash, At, Milestones
<1>11. CASE SetAuth
  BY <1>11 DEF SetAuth, At
<1>12. CASE JoystickTraining
  BY <1>12 DEF JoystickTraining, SetStepDone, SaveFlash, StepAllowed, Idle, At, Milestones
<1>13. ASSUME NEW f \in Families, CardTraining(f) PROVE FlowHolds'
  BY <1>13 DEF CardTraining, SetFamily, SaveFlash, StepAllowed, Idle, At
<1>14. CASE CardTrained
  BY <1>14 DEF CardTrained, SetStepDone, SaveFlash, At, Milestones
<1>15. ASSUME NEW n \in Cards, NEW p \in BOOLEAN, AuthCard(n, p) PROVE FlowHolds'
  BY <1>15 DEF AuthCard, NoCtx, StepAllowed, Idle, At
<1>16. CASE AuthCardChallenge
  BY <1>16 DEF AuthCardChallenge, At
<1>17. CASE AuthCardVerified
  BY <1>17 DEF AuthCardVerified, At
<1>18. CASE AuthCardDone
  BY <1>18 DEF AuthCardDone, SetStepDone, SaveFlash, At
<1>19. ASSUME NEW f \in Families, PairCard(f) PROVE FlowHolds'
  BY <1>19 DEF PairCard, SetFamily, SaveFlash, At
<1>20. CASE PairedAlready
  BY <1>20 DEF PairedAlready, At
<1>21. CASE StoreKey
  BY <1>21 DEF StoreKey, SaveSec, At
<1>22. CASE StoreKeyFails
  BY <1>22 DEF StoreKeyFails, At
<1>23. ASSUME NEW n \in Cards, PairFromMenu(n) PROVE FlowHolds'
  BY <1>23 DEF PairFromMenu, NoCtx, Idle, At
<1>24. CASE InvalidateKeystore
  BY <1>24 DEF InvalidateKeystore, Unpaired, SaveSec
<1>25. CASE WalletAdded
  BY <1>25 DEF WalletAdded, SaveFlash, Idle, At
<1>26. CASE LastWalletDeleted
  BY <1>26 DEF LastWalletDeleted, SaveFlash, Idle, At
<1>27. CASE ShareSaved
  BY <1>27 DEF ShareSaved, SaveSec, Idle, At
<1>28. ASSUME NEW place \in {"wipe_flash", "clear_flash"}, StartReset(place) PROVE FlowHolds'
  BY <1>28 DEF StartReset, Unpaired, Idle, At
<1>29. CASE FactoryReset
  BY <1>29 DEF FactoryReset, At
<1>30. CASE ClearDeviceData
  BY <1>30 DEF ClearDeviceData, SaveFlash, At
<1>31. CASE Reset
  BY <1>31 DEF Reset, NoCtx, Cards, At
<1>32. CASE PowerLoss
  <2>1. flow' = "choose" /\ app' = "none"
    BY <1>32, Zenon DEF PowerLoss
  <2>. QED
    BY <2>1
<1>33. CASE BootloaderClearsAuth
  BY <1>33 DEF BootloaderClearsAuth, Idle, At, Served
<1>. QED
  BY <1>1, <1>2, <1>3, <1>4, <1>5, <1>6, <1>7, <1>8, <1>9, <1>10, <1>11,
     <1>12, <1>13, <1>14, <1>15, <1>16, <1>17, <1>18, <1>19, <1>20,
     <1>21, <1>22, <1>23, <1>24, <1>25, <1>26, <1>27, <1>28, <1>29,
     <1>30, <1>31, <1>32, <1>33 DEF Next, ChooseStep, DeviceAuthStep,
     TrainingStep, CardStep, MenuStep, FaultStep

(* The flow the core waits in is the one the setup calls for, after every  *)
(* app, choice, reset and power loss.                                      *)
THEOREM FlowStaysMatched == Spec => []FlowMatches
<1>1. Init => FlowHolds
  BY DEF Init, FlowHolds
<1>2. FlowHolds /\ UNCHANGED vars => FlowHolds'
  BY DEF FlowHolds, vars, pages
<1>3. FlowHolds => FlowMatches
  BY DEF FlowHolds, FlowMatches, Idle, At, Served
<1>. QED
  BY <1>1, <1>2, <1>3, SetupTypeCorrect, NextFlowHolds, PTL DEF Spec

(* The milestones behind the step saved, behind the app that runs, and     *)
(* behind every pairing and wallet.                                        *)
EarnedInv ==
  /\ step >= DeviceAuthDone => "auth" \in done
  /\ step >= JoystickDone => "joystick" \in done
  /\ step >= CheckupDone => "checkup" \in done
  /\ InUse => done = Milestones
  /\ app = "trained" => {"auth", "joystick"} \subseteq done
  /\ app \in {"card_challenge", "card_result", "pair", "store_key", "card_done"} =>
       done = Milestones
  /\ app = "wipe_flash" => keystore = Unpaired

(* Every action keeps the milestones earned. *)
LEMMA NextEarned == TypeOK /\ FlowHolds /\ EarnedInv /\ Next => EarnedInv'
<1>. SUFFICES ASSUME TypeOK /\ FlowHolds /\ EarnedInv, Next PROVE EarnedInv'
  OBVIOUS
<1>. USE SetupAssumption DEF TypeOK, FlowHolds, EarnedInv, InUse, PairedCards, Milestones, Virgin, DeviceAuthDone, JoystickDone, CheckupDone, CardAuthDone, Complete, pages
<1>1. CASE FinishSave
  BY <1>1 DEF FinishSave
<1>2. CASE ReturnToCore
  BY <1>2 DEF ReturnToCore, FlowEnds, At, NoCtx, Cards
<1>3. CASE Abort
  BY <1>3 DEF Abort, Interruptible
<1>4. CASE ChooseResetStep
  BY <1>4 DEF ChooseResetStep, SaveFlash, Idle, At, ForgetsSetup
<1>5. CASE ChooseComplete
  BY <1>5 DEF ChooseComplete, SetStepDone, SaveFlash, Idle, At, ForgetsSetup
<1>6. CASE ChooseFlow
  BY <1>6 DEF ChooseFlow, FlowFor, Idle, At, ForgetsSetup
<1>7. CASE AuthDevice
  BY <1>7 DEF AuthDevice, Idle, At, Served, StepAllowed
<1>8. CASE AuthDeviceChallenge
  BY <1>8 DEF AuthDeviceChallenge, At
<1>9. CASE AuthDeviceFailed
  BY <1>9 DEF AuthDeviceFailed, At
<1>10. CASE AuthDeviceVerified
  BY <1>10 DEF AuthDeviceVerified, SetStepDone, SaveFlash, At, Milestones
<1>11. CASE SetAuth
  BY <1>11 DEF SetAuth, At
<1>12. CASE JoystickTraining
  BY <1>12 DEF JoystickTraining, SetStepDone, SaveFlash, StepAllowed, Idle, At, Milestones
<1>13. ASSUME NEW f \in Families, CardTraining(f) PROVE EarnedInv'
  BY <1>13 DEF CardTraining, SetFamily, SaveFlash, StepAllowed, Idle, At
<1>14. CASE CardTrained
  BY <1>14 DEF CardTrained, SetStepDone, SaveFlash, At, Milestones
<1>15. ASSUME NEW n \in Cards, NEW p \in BOOLEAN, AuthCard(n, p) PROVE EarnedInv'
  BY <1>15 DEF AuthCard, NoCtx, StepAllowed, Idle, At
<1>16. CASE AuthCardChallenge
  BY <1>16 DEF AuthCardChallenge, At
<1>17. CASE AuthCardVerified
  BY <1>17 DEF AuthCardVerified, At
<1>18. CASE AuthCardDone
  BY <1>18 DEF AuthCardDone, SetStepDone, SaveFlash, At
<1>19. ASSUME NEW f \in Families, PairCard(f) PROVE EarnedInv'
  BY <1>19 DEF PairCard, SetFamily, SaveFlash, At
<1>20. CASE PairedAlready
  BY <1>20 DEF PairedAlready, At
<1>21. CASE StoreKey
  BY <1>21 DEF StoreKey, SaveSec, At
<1>22. CASE StoreKeyFails
  BY <1>22 DEF StoreKeyFails, At
<1>23. ASSUME NEW n \in Cards, PairFromMenu(n) PROVE EarnedInv'
  BY <1>23 DEF PairFromMenu, NoCtx, Idle, At
<1>24. CASE InvalidateKeystore
  BY <1>24 DEF InvalidateKeystore, Unpaired, SaveSec
<1>25. CASE WalletAdded
  BY <1>25 DEF WalletAdded, SaveFlash, Idle, At
<1>26. CASE LastWalletDeleted
  BY <1>26 DEF LastWalletDeleted, SaveFlash, Idle, At
<1>27. CASE ShareSaved
  BY <1>27 DEF ShareSaved, SaveSec, Idle, At
<1>28. ASSUME NEW place \in {"wipe_flash", "clear_flash"}, StartReset(place) PROVE EarnedInv'
  BY <1>28 DEF StartReset, Unpaired, Idle, At
<1>29. CASE FactoryReset
  BY <1>29 DEF FactoryReset, At, Unpaired
<1>30. CASE ClearDeviceData
  BY <1>30 DEF ClearDeviceData, SaveFlash, At, Unpaired
<1>31. CASE Reset
  BY <1>31 DEF Reset, NoCtx, Cards, At
<1>32. CASE PowerLoss
  <2>1. wallets' => wallets
    BY <1>32, AfterLoss, Zenon
  <2>2. InUse' => InUse
    BY <1>32, <2>1, AfterLoss DEF Unpaired
  <2>3. app' = "none" /\ done' = done
    BY <1>32, Zenon DEF PowerLoss
  <2>. QED
    BY <1>32, <2>2, <2>3, AfterLoss
<1>33. CASE BootloaderClearsAuth
  BY <1>33 DEF BootloaderClearsAuth, Idle, At, Served
<1>. QED
  BY <1>1, <1>2, <1>3, <1>4, <1>5, <1>6, <1>7, <1>8, <1>9, <1>10, <1>11,
     <1>12, <1>13, <1>14, <1>15, <1>16, <1>17, <1>18, <1>19, <1>20,
     <1>21, <1>22, <1>23, <1>24, <1>25, <1>26, <1>27, <1>28, <1>29,
     <1>30, <1>31, <1>32, <1>33 DEF Next, ChooseStep, DeviceAuthStep,
     TrainingStep, CardStep, MenuStep, FaultStep

(* A vault in use, or one that counts as set up, went through every        *)
(* milestone since its last factory reset.                                 *)
THEOREM SetupStaysEarned == Spec => []Earned
<1>1. Init => FlowHolds /\ EarnedInv
  BY SetupAssumption DEF Init, FlowHolds, EarnedInv, InUse, PairedCards, Unpaired, Virgin,
     DeviceAuthDone, JoystickDone, CheckupDone
<1>2. FlowHolds /\ EarnedInv /\ UNCHANGED vars => FlowHolds' /\ EarnedInv'
  BY DEF FlowHolds, EarnedInv, InUse, PairedCards, vars, pages
<1>3. TypeOK /\ EarnedInv => Earned
  <2>1. SUFFICES ASSUME TypeOK, EarnedInv, step = Complete PROVE done = Milestones
    BY DEF EarnedInv, Earned
  <2>2. {"auth", "joystick", "checkup"} \subseteq done
    BY <2>1 DEF EarnedInv, DeviceAuthDone, JoystickDone, CheckupDone, Complete
  <2>3. done \subseteq Milestones
    BY <2>1 DEF TypeOK
  <2>. QED
    BY <2>2, <2>3 DEF Milestones
<1>. QED
  BY <1>1, <1>2, <1>3, SetupTypeCorrect, NextFlowHolds, NextEarned, PTL DEF Spec

=============================================================================
