# X1 vault firmware: TLA+ models and proofs

This directory holds formal models of four parts of the Cypherock X1 vault
firmware: how it keeps wallets, how it takes commands over USB, how it is set
up, and how wallets are unlocked and used in swaps. Paths below are relative to
the repository's root (its own code directory is called `src/` as well).

The X1 vault splits the seed of a wallet into five shares, keeps one and stores
the other four on smart cards, any two of which reconstruct the seed. What the
firmware must get right is therefore a small distributed-storage problem: two
regions of flash in the vault and up to four cards are updated one save, one
tap at a time, by flows that can be interrupted anywhere. That is modelled
first (`WalletLifecycle`, `WalletSync`). The part where steps of several
actors mix most is the USB link: a receive interrupt, a tick interrupt and the
main loop share one buffer and a handful of flags (`UsbComm`). Before any wallet
there is the setup: onboarding steps, the authentication of the device and the
pairing of cards decide which flow the vault runs, and are kept in flash pages
that a power loss may tear (`VaultSetup`). A wallet whose PIN was entered wrongly
too often is unlocked by a search that goes on over restarts (`WalletUnlock`),
and the same main thread runs the calls of which the exchange app composes a
swap (`SwapQueue`).

## 1. Inventory

| Component | State | Operations | Hard behaviour |
|---|---|---|---|
| Wallet store (`common/interfaces/flash_interface`) | `Flash_Struct`: `wallets[4]` (state, name, id, `cards_states`, lock, challenge), `wallet_count` | add, put, delete wallet; card marks; state; lock | two indexes and a count kept by hand; stale RAM copies saved back |
| Share store (`common/Firewall/sec_flash.c`) | vault's share, id and nonce by slot; keystore of cards | add, put, delete share | saved apart from the wallet store: power lost between the two |
| Creation, restoration (`src/wallet`, `card_flow_create_wallet.c`, `card_write_share.c`) | `wallet`, `wallet_for_flash`, `wallet_index`, `wallet_shamir_data` in RAM | save vault's share; per card: record attempt, write, mark, read back | card acts and its answer is lost; interrupted after some cards |
| Verification (`verify_wallet_flow.c`, `card_read_verify_shares.c`) | shares read back | read each card, compare, set state | comparison over data read earlier |
| Deletion (`card_flow_delete_wallet.c`, `card_fetch_share.c`, `card_delete_share.c`) | card marks | fetch and compare, erase, clear mark, free slot | retries, foreign wallet of the same name, interrupted deletions |
| Synchronisation (`sync_with_cards.c`, `sync_wallets_flow.c`) | all slots | rebuild slots from a card, reconstruct share from two | slots deleted before they are rebuilt |
| Factory reset (`factory_reset.c`) | both stores | check two lists, erase sec flash, erase flash | check by name and id; two erases |
| Unlocking (`wallet_unlock_flow.c`, `pow.c`, `card_fetch_challenge.c`, `card_unlock_wallet.c`) | lock, the card that set it, challenge and nonce in flash; the nonce being tried in RAM | lock, fetch challenge, search, save the search, answer, refetch | search broken off and resumed from any save, challenge replaced by the card or by another vault |
| Exchange app (`exchange_app`, `composable_app_queue.c`, `core_shared_context.c`) | queue of the calls of a swap; shared context for one signature | initiate, fetch, store, close; check of each call against the queue's head | calls left by a swap given up, signature of one swap seen by another, reset on a wrong call |
| Onboarding, restricted mode (`onboarding.c`, `restricted_app.c`, `core_flow_init.c`) | onboarding step in flash, authentication in boot data, base flow of the core | choose the flow, advance the step, reset a partial onboarding | step and authentication saved in different memories; every app may change them under a running flow |
| Manager app (`manager_app`) | dialogue of the app that runs | authenticate device, authenticate card, joystick and card training, firmware, logs | steps repeated or out of order by the host, aborts |
| Card pairing and health check (`card_pair.c`, `card_settings.c`) | keystore of cards in sec flash, family in flash | pair, invalidate | family and keystore are two saves; failure after the card's answer |
| Card dialogue (`card_internal.c`, `card_utils.c`, `nfc.c`) | session with a card | tap, APDUs, error mapping | card removed at any moment |
| USB host protocol (`usb_internals.c`, `usb_api.c`, `usb_event.c`) | one shared buffer, command state, pending event | chunks in, status, output, abort | interrupt handler against main loop, unmasked windows |
| Events and core errors (`events.c`, `p0_events.c`, `core_error.c`, `systick_timer.c`) | abort and inactivity flags, error screen | poll, reset, handle | flags set in interrupts, reset unread |
| Flow engine (`flow_engine.c`, `core_flow_init.c`) | list of flow steps | next, previous, reset | steps reset under a running flow |
| Host session (`core_session.c`) | session id, key, IV, sequence number | start, close, encrypt, decrypt | both ends' IVs must advance alike |
| Inheritance app, coin apps | one dialogue each | queries from the host | order of host messages |
| Secret sharing, cryptography, UI, logger, vendored code | data | | |

Interactions: the main menu runs one flow at a time. A flow calls the card
operations, which talk to one tapped card, and the flash API, which updates the
RAM image of a region and saves it whole. The USB interrupt raises an event that
the main loop polls while it waits for the user or for a card. After a power
loss the flash regions and the cards are all that is left.

What makes each component correct, in the words of the properties: a share on a
card is never lost track of (`ShareTracked`), marks mean what they say
(`WrittenCardsHold`), wallets of other vaults are not touched (`ForeignSafe`),
cards lose only what a slot of the vault lists, even among slots a cut reset or a
synchronisation left (`ErasedIsListed`),
"valid" is only said of what was verified (`ValidOnlyIfAllAgree`,
`SyncQuorum`), a lock cannot be saved over (`LockOnlyClearedByUnlock`), a
wallet shown as usable can be reconstructed (`SeedRecoverable`), nothing is
given up that cannot be rebuilt (`ResetLeavesQuorum`), the slots stay
consistent (`SlotsConsistent`), and no ASSERT resets the vault
(`AssertsHold`). On the USB link: a pending event refers to a whole command
nobody overwrites (`EventIntact`), an output is read only as that of its own
command (`OutputOfItsCommand`), a command is started at most once and in order
(`StartsOnceInOrder`), none is left in the buffer without its event
(`NeverStuck`), each one ends (`CommandEnds`), and to a host that neither
aborts nor repeats the whole link is a plain exchange of commands and answers
(`ImplementsExchange`). In the setup: a vault in use
has passed every milestone since its last factory reset, whatever save was torn
(`Earned`); the flow in which the core waits is the one that step and
authentication call for (`FlowMatches`); a family id that no card has never
stands beside wallets (`FamilyRecoverable`); a vault that is set up comes to its
main menu (`ReachesMenu`). In unlocking: no solution of the challenge is skipped
however the search is broken off (`NoSolutionSkipped`), the card is shown a
solution of the challenge on record (`AnswerSolves`), only the card that set the
lock lifts it (`UnlockedByCard`), and the search, which polls no event, ends
(`SearchEnds`). In swaps: a send compares its receiver with the signature of its
own swap or none (`ChecksOwnSignature`), the signature of a receive call lasts
until it is fetched (`FetchFindsOwn`), a call runs alone and on an unlocked
wallet (`CallsUnlocked`), and swaps leave unlocking as it is specified by itself
(`ImplementsUnlock`). `PROJECT.json` lists the hazards behind all of them line by
line, including those that no module covers.

## 2. The modules

| Module | What it is |
|---|---|
| `WalletLifecycle` | wallet store, share store, cards; creation, verification, deletion, lock and unlock, power loss |
| `WalletSync` | extends it with synchronisation and factory reset |
| `ShareLedger` | abstract specification: a durable ledger of cards per wallet name |
| `UsbComm` | the receive and tick interrupts, the main loop and a host over one command buffer |
| `CommandExchange` | abstract specification: commands taken one at a time, started at most once, answered once |
| `VaultSetup` | onboarding, authentication, pairing and resets of a vault, with saves that are cut |
| `WalletUnlock` | the lock of one wallet, its challenge, the search and the card |
| `SwapQueue` | extends it with the exchange app's queue, the shared context and the calls of coin apps |
| `*_proofs` (seven) | theorems about the module of that name and their proofs |
| `WalletRecovery_proofs` | theorems on what cards hold under `WalletSync`: quorum, recovery of seeds, erased shares, locks |
| `MC*` (five) | instances for TLC (symmetry; kinds of commands; solutions of challenges) |

### Wallets: state

| Variable | Code |
|---|---|
| `flash`, `count` | `flash_ram_instance.wallets`, `.wallet_count` |
| `sec` | `sec_flash_instance.wallet_share_data` |
| `cards` | the wallets each card's applet stores, by name (external) |
| `w`, `idx` | `wallet_for_flash`, and `wallet_index` of `card_write_share.c` |
| `shares` | `wallet_shamir_data`: index 0 the vault's, 1..4 the cards' |
| `target` | `wallet.wallet_name` |
| `pc`, `flow`, `k` | where the running flow stands; `k` is `card_number` |
| `toAdd`, `cursor` | the loops of `sync_with_cards` |
| `nextGen` | bookkeeping: the generation of the next split |

### Wallets: how steps are cut

An action is the code from one persistent effect (a save of a flash region, a
command a card carries out) to the next, with every other effect of that code.
Between any two of them `Reboot` may happen: power loss, or the reset that a
failed ASSERT asks for. It zeroes RAM and keeps flash and cards. Reads and
computations that no one can interfere with are part of the next step. The
places `pc` takes are named for the call that comes next: `save_share`, `write`
(tap and record the attempt), `add` (`nfc_add_wallet`), `post` (mark the card),
`read`, `load` (the vault's share), `set_state` in creation and verification;
`check`, `fetch`, `erase`, `mark`, `finish` or `wrong_pin`, `free_slot` in
deletion; `sync_*` and `reset_flash` in `WalletSync`. A failed ASSERT goes to
`assert_failed`, from which only `Reboot` leads on.

### Wallets: what is abstracted

* A share is a record `(id, gen)`: the id of the wallet it reconstructs and the
  generation of the split (polynomial, nonces) it belongs to. Two shares fit
  together, and two nonces agree, exactly when both fields are equal. The x
  coordinate of a share is the index under which it is kept. Generation 0 is a
  wallet that some other vault made.
* The outcome of a tap is a choice: answered; pulled away before or after the
  card acted; refused; wrong PIN; locked. What a card does (it refuses a second
  wallet of the same name or the same seed, it keeps one share per name) is
  external, taken from the status words the code handles.
* User choices (name, seed, which wallet, leave, retry) are nondeterministic.
  PIN input is only the outcomes "right", "wrong" and "locked".
* `wallet_for_flash` and `wallet_index` outlive their flow, as in the code, where
  `clear_wallet_data` does not touch them.
* One save of a flash region is atomic. The erase-then-write below it is
  modelled in `VaultSetup`, for the fields the setup depends on.
* Other vaults put wallets on the cards before a behaviour starts, not during it.
* The family of cards is fixed and paired; `VaultSetup` has the pairing.
* Unlocking is one step; `WalletUnlock` has its steps.
* In `add_wallet_to_flash` a count that disagrees with the slots would make the
  code index slot -1; the model leaves the slots unchanged there. It is not
  reachable, because `SlotsConsistent` is an invariant, and the mutant that
  breaks the count is caught by that invariant.

### USB: state

| Variable | Code |
|---|---|
| `bufFree` | `sys_flow_cntrl_u.bits.usb_buffer_free` |
| `state`, `seq`, `chunkNo` | `comm_status.curr_cmd_state`, `.curr_cmd_seq_no`, `.curr_cmd_chunk_no` |
| `buf` | `comm_io_buffer`, one part per chunk: whose it is and of which command |
| `evt`, `msg` | `usb_event.flag`; whether `core_msg` points into the buffer |
| `p0`, `seen` | `p0_evt_status`, and the copy `handle_core_errors` works on |
| `usbFlow` | `device_idle_state` is `CORE_DEVICE_IDLE_STATE_USB` |
| `error` | `error_screen` holds a message |
| `pc`, `job`, `inApp`, `keys` | where the main loop stands; the command the app decoded; whether an app or the main menu waits; a bound on the user's menu visits |
| `cmd`, `hseq`, `hphase`, `hacked` | the host: its commands (kind and length), its last sequence number, what it is about, chunks acknowledged |

### USB: how steps are cut

Handling one packet is one step, since the interrupt handler is not
interrupted by the main loop. The main loop is cut at every access to what it
shares with the interrupts. `usb_send_msg` masks the interrupt and is one step;
`usb_clear_event` does not and is three (`ClearEvent`, `ClearBuffer`,
`ClearState`); `usb_get_event` is cut before the event is reset
(`GetCore`, `ResetEventObj`) and before the state is set to executing
(`GetCommand`, `SetStateExecuting`); `handle_core_errors` reads a copy of the
flags first and resets the flags at the end of each of its branches.

### USB: what is abstracted

* A command is its sequence number, a number of chunks and a kind: for an app;
  `core`, a version or session request that `usb_get_event` answers itself;
  `bad`, one that does not decode. A part of the buffer is
  `Part(from, seq, n)`. Sequence numbers do not wrap.
* Lengths are counted in chunks. What the length check sees when the head of
  the buffer was overwritten: an error message is shorter than a chunk and is
  kept out by its length, while an output of an app or of the core may happen
  to be as long as the command.
* Checksums, the status packets, the other USB interfaces and outputs of
  several chunks are left out. The host sends one command at a time and polls.
* The inactivity timer is a flag that may be raised at any time while the main
  loop waits, but not before the wait has polled once, since the timer restarts
  with each wait.
* An app decodes the query, works, and answers, rejects or gives up when it
  sees an abort or a timeout. After an answer it may wait for the next query.
  That is the form of the coin apps; the two flows that call
  `usb_clear_event` themselves (`joystick_training.c`,
  `device_authentication.c`) are not modelled. Flows the user starts on the
  device are one step.
* The three writes of `p0_reset_evt` are one step.

### Setup: state

| Variable | Code |
|---|---|
| `step` | `flash_ram_instance.onboarding_step` |
| `family` | `.family_id`; `NoFamily` is 0xFFFFFFFF, `ZeroFamily` 0 |
| `wallets` | `.wallet_count` is above zero |
| `keystore` | `sec_flash_instance.keystore`: of which family the card paired at each number is |
| `auth` | the authentication flag of the boot data |
| `saving` | which page a save has erased and not yet written |
| `flow` | the base flow `core_init_app_flow` chose, `choose` while it chooses |
| `app`, `ctx` | where the app that runs stands; of a card dialogue the number, whether it pairs, the family tapped |
| `losses`, `done` | bound on power losses; history: milestones passed since the last factory reset |

### Setup: how steps are cut, what is abstracted

An action runs from one wait (for the host, the user or a card) or one save to
the next. A save sets `saving`, `FinishSave` clears it, and no other action of
the main thread is enabled in between. `PowerLoss` in between leaves what
`TornPages` says: the page is written from its start, family, wallets, step in
that order; a field that was not written is not found by `deserialize_fs` and
stays zero, and a page without its first tag is erased again by
`flash_struct_load`, which starts from 0xFF in every byte. The sec flash is whole
or erased. `FactoryReset` erases its page and does not write it, which is one
step.

* A card tapped is its family; which of a family's cards it is, the host or the
  user says. The keystore keeps the family of a card, not its keys.
* The authentication of device and card is the host's verdict. The card's
  context between the challenge and the pairing keeps nothing else.
* That a wallet may be added needs one paired card of the family. The flows need
  four for a new wallet and fewer for a synchronised or restored one, so the
  model allows more than the code.
* The authentication in the boot data belongs to the bootloader and is set in
  one step (external).

### Unlocking and swaps: state

| Variable | Code |
|---|---|
| `locked` | `wallets[i].is_wallet_locked` |
| `cardLocked`, `challenge`, `nonce` | `.challenge`: `card_locked`, `target` and `random_number`, `nonce`; `Unset` is a nonce of 0xFF bytes |
| `pow` | the static nonce of `pow.c`, tried next or found |
| `place` | the state of `wallet_unlock_flow`, `idle` outside it |
| `card` | the challenge each card asks for, if it is locked (external) |
| `queue` | `composable_app_queue` |
| `context` | `shared_context`: who made the signature that lies there, and in which swap |
| `call` | the query of a coin app that runs: kind, how far it is, whether it was served from the queue |
| `swaps`, `current`, `signed` | bound on swaps; history: the open swap, and the last one whose address was signed |

### Unlocking and swaps: how steps are cut, what is abstracted

In `WalletUnlock` there is one action per state of `wallet_unlock_flow` and
outcome of it. The search is cut at each round of the inner loop, which tries
`HashRate % 2^16` nonces and polls nothing; in each round the timer may have
saved the nonce the round began with. `PowerLoss` may come anywhere. In
`SwapQueue` a query is cut at its checks and at the tap of the card. The main
thread runs one query or one flow at a time: starting a query needs `Free`.

* A challenge is the set of nonces that solve it, and nonces are counted from 0
  and wrap at `MaxNonce`. Which challenge a card sets, and that another vault
  paired with it may lock and unlock it, is external.
* Saves are whole (`VaultSetup` cuts them). In `VerifyLocked` the refetch runs
  with `frontend` uninitialised (`wallet_unlock_flow.c:174`); `card_fetch_challenge`
  dereferences it when the card is removed, and a crash there is a `PowerLoss`.
* One wallet serves all calls. A call that is not part of swaps (extended
  public keys, messages) resets the vault during one like any call out of order
  and changes nothing otherwise; it has no action.
* A signature is who made it and in which swap. That the address differs from
  the one signed is the outcome "refused" of `VerifyReceiver`.
* Coin apps are read from the bitcoin app; `Heedless` ones take their place in
  the queue without looking at the signature, as near does.
* The session keys, fees and routes of a swap are data.

## 3. Runs

All runs check for deadlock (a flow can always go on or lose power, the main
loop can always poll).

| Run | Instance | Shows |
|---|---|---|
| `WalletLifecycle` | 2 names, 2 ids, one of them possibly on the cards from elsewhere, 2 slots, 3 cards, 2 creations; 375,204 states | all lifecycle properties, the refinement of `ShareLedger`, and the inductive invariant |
| `WalletSync` | 2 names, 2 ids, one foreign, 2 slots, 3 cards, threshold 2, 2 creations, seeds split afresh (`FreshSpec`); 2,176,693 states | `SeedRecoverable` and `ResetLeavesQuorum`, through interrupted deletions, cut resets and slots rebuilt from a card |
| `WalletSyncMany` | 2 names, 2 ids, one foreign, 2 slots, 3 cards, threshold 2, 1 creation; 479,152 states | `SyncTypeOK`, `SlotsConsistent`, `SyncQuorum` for verified and synchronised wallets, `ErasedIsListed`, `LockOnlyClearedByUnlock` |
| `WalletResetCrash` | 1 wallet, 3 cards | **violation** of `AssertsHold`, see findings |
| `WalletResetSplits` | 1 wallet, 3 cards, 2 creations | **violation** of `ResetLeavesQuorum`, see findings |
| `UsbExchange` | 3 commands of any kind, up to 2 chunks, no repetition, no abort; 187,664 states | `EventIntact`, `OutputOfItsCommand`, `StartsOnceInOrder` and the refinement of `CommandExchange`, against timeouts and the user |
| `UsbRecovery` | 3 sequence numbers, up to 2 chunks, app and malformed commands, lost acknowledgements, aborts; 716,000 states | `TypeOK`, `NeverStuck`, `CommandEnds` |
| `UsbDuplicate` | 1 command of up to 2 chunks, lost acknowledgements | **violation** of `DuplicatesIgnored`, see findings |
| `UsbLostEvent` | 1 core request, lost acknowledgements | **violation** of `NeverStuck`, see findings |
| `UsbAbortedAnswer` | 3 sequence numbers, aborts | **violation** of `SendsAfterConsuming`, see findings |
| `VaultSetup` | 2 families of 2 cards, 2 faults; 7,895 states | `Earned`, `FlowMatches`, `FamilyRecoverable`, `ReachesMenu` |
| `SwapQueue` | 2 cards, a challenge with solutions 1 and 3 and one with solution 4 of 0..5, 2 hashes per round, 2 apps, one heedless, 2 swaps; 84,834 states | the properties of swaps and of unlocking, and the refinement |

Bounds, all CONSTANTs of the modules:

* `MaxWallets` = 2: the first and another slot, full and not full, a hole before
  a filled slot. The slot code only ever looks for the first free or matching one.
* `NumCards` = 3: a first, a middle and a last card, which is what the loops
  tell apart. The product has 4, and the theorems hold for any number.
* `Threshold` = 2, which is `MINIMUM_NO_OF_SHARES`.
* `MaxGen` bounds the creations of one behaviour: two let a wallet be made again
  after an interrupted creation or deletion, with left-over shares on the cards
  and in the sec flash.
* Names are symmetric. Symmetry is only used where no liveness is checked.

`WalletSync` runs `FreshSpec`: a seed is split anew only when no share of it is
left on a card or in the vault. This is an assumption on the user, who restores
from a phrase; a new wallet's random seed has no shares anywhere. No code asks
for it, and it is needed: `WalletResetSplits` violates `ResetLeavesQuorum` under
`SyncSpec` with two splits of one seed. Nothing else is restricted: two
creations, deletions broken off, resets and synchronisations mix freely.
`WalletSyncMany` has no such assumption, and one creation only because the state
space grows with every rebuilt slot.

* `MaxSeq` = 3: a command, the one that aborts or follows it, and one more
  that reuses the buffer. `MaxChunks` = 2: a first chunk and a last one, which
  is what the handler tells apart. `MaxKeys` bounds how often the user enters a
  menu of the device.

* `NumCards` = 2 of `VaultSetup`: the last card, which ends the onboarding, and
  another. Two families let a vault be set up with one and reset to the other.
  `MaxLosses` = 2: a save torn, and the recovery from it torn as well.
* `MaxNonce` = 5 and `HashRate` = 2: three rounds, so that a search is found in
  the first, in a later one, with a save before and behind it, and the nonces
  wrap. `MaxSwaps` = 2: a swap given up and the one after it.

`WalletUnlock` has no run of its own: `SwapQueue` checks its properties and, as
`ImplementsUnlock`, that the swaps add nothing to it. Every action of
`WalletUnlock` is taken there, by `UnlockingStep`, `UseStep`, `OtherVaultStep`
and `Reboot`.

Why the two passing USB runs differ: with repetitions and aborts the findings
below reach states in which an output is read as another command's, so
`OutputOfItsCommand`, `StartsOnceInOrder` and `EventIntact` are claimed for a
host that does neither, and what survives any host (`NeverStuck`,
`CommandEnds`) is checked with both. There `core` requests are excluded, because
`UsbLostEvent` shows that one of them repeated blocks the buffer for good.

Fairness: `FairSpec` of `UsbComm` assumes `WF_vars(MainLoop)`, that is, the main
loop runs: it is a busy loop on a processor of its own, and interrupt handlers
return. Nothing is assumed of the host, the timer, the user or a card. A user
may leave an error screen on forever, so `CommandEnds` excepts that screen.
`VaultSetup` assumes weak fairness of `FinishSave`, `ReturnToCore`,
`ChooseStep` and `SetAuth`: the main thread runs on where it waits for no one.
`WalletUnlock` and `SwapQueue` assume it of the rounds of the search. The first
wallet runs assume no fairness and state no liveness: their flows wait for a
user and a card who may never come.

Each property of a passing run has a mutant in `PROJECT.json`: a plausible bug
in a mapped definition under which TLC finds the property violated. The
mutated operators stand beside the originals, marked `Mutant`.

## 4. Findings

* **Power loss inside a factory reset** (`WalletResetCrash`). `factory_reset`
  and `clear_device_data` erase the shares, then the wallet slots. Power lost in
  between leaves slots whose state still claims a share. Deletion of such a
  wallet fails an ASSERT in `card_fetch_share.c`, which saves the state "without
  device share" on its way; from then on, once the cards are done, the ASSERT
  around `delete_wallet_share_from_sec_flash` in `card_flow_delete_wallet.c`
  fails every time.
* **Reset check by name and id** (`WalletResetSplits`). The comment of
  `safe_to_delete_wallet_share` promises that the share of each wallet is on two
  cards. The code compares lists by name and id, so a share left from an earlier
  split of the same seed counts, although it does not fit the present one. With
  seeds split afresh (`FreshSpec`) the promise is kept: `WalletSync` checks it and
  `FreshResetLeavesQuorum` proves it.
* **A repeated last chunk raises the event again** (`UsbDuplicate`). The comment
  of `comm_process_cmd_packet` says that duplicates are ignored; nothing is
  appended, but the event is raised whenever the last chunk number comes, even
  when the buffer holds the answer by then. The answer is decoded as a command.
* **A lost event** (`UsbLostEvent`). `usb_get_event` answers a version or session
  request, which frees the buffer and unmasks the interrupt, and resets the
  event afterwards. A command received in between is acknowledged and its event
  erased: every later command is refused, and no abort or timeout helps.
* **An answer over the next command** (`UsbAbortedAnswer`). An app that computes
  learns of an abort only when it next waits. If the host has sent its next
  command by then, the answer overwrites it and is read as its output.

Other observations, which no comment or test of the repository contradicts and
which the models therefore contain as they are:

* `card_pair_without_retap` returns success when the pairing fails after the
  card's answer (`StoreKeyFails`). The onboarding may then end, after the last
  card, with a card that is not paired, or none.
* The onboarding ends with the card numbered last, whichever were done before.
* `clear_device_data` erases the flash page and saves the onboarding step again:
  power lost in between starts the onboarding over, although `settings_api.h:114`
  says that onboarding data will not be cleared. `Earned` holds all the same.
* `exchange_initiate_flow` drops the queue of a swap given up, not the shared
  context: after a receive call that was aborted, the fetch answers with what
  the swap before left there. `ChecksOwnSignature` holds because the check of a
  send is preceded by a store.
* A call is popped from the queue when it starts. A send that was aborted is
  repeated as an ordinary one, without a comparison.
* The signature in the shared context serves one comparison
  (`VerifyReceiver` zeroes it), so that a bitcoin send with two outputs that are
  not change is refused in a swap.
* A card that sets a new challenge with every fetch is not a way around the
  search: the nonce starts at zero then, and `NoSolutionSkipped` holds.

## 5. Proofs

`WalletLifecycle_proofs` proves, for all values of the constants that satisfy
`NoneAssumption`, `ForeignAssumption` and `BoundsAssumption` (any number of
slots, cards, names, ids and creations):

| Theorem | Statement |
|---|---|
| `Invariance` | `Spec => []IInv` |
| `TypeCorrect`, `SharesTracked`, `SlotsStayConsistent`, `WrittenMarksHold`, `NoAssertFails` | the invariants of the run, from `IInv` |
| `ForeignStaysSafe`, `ValidMeansAgreed`, `LockStays` | the action properties, from `IInv` |
| `LedgerImplemented` | `Spec => Ledger!Spec`, under the refinement mapping of `WalletLifecycle` |
| `OnRecord` (`ShareLedger_proofs`) | in the ledger, held shares are on record |

The invariants are not inductive as they stand. `ShareTracked`, for one, is
preserved by `AddWalletAcked` only if the slot at `idx` is the one for
`target`, already marks card `k`, and its sec-flash share is the one just sent;
by `FreeSlot` only if no mark is left; by `SaveShareToDevice` only if
the index it overwrites belongs to no filled slot. `IInv` adds exactly what
the flows rely on between two steps:

* `SlotsSound`: a filled slot has a proper name and id, and its sec-flash share
  is its own as soon as any card is marked;
* `PlacesOfFlow`: which places belong to which flow;
* `Creating`, in two phases: `WhileUnsaved` (name and seed not in flash, the
  share lies at the first free index) and `OnceSaved` (`wallet_for_flash`
  equals its slot, `wallet_index` is right, marks are those of cards `1..k`,
  RAM shares belong to the saved split);
* `Verifying` and `Reading`: what was read back is what the cards hold;
* `Deleting`: the slot is there, the cards before `k` are done, and a card
  about to erase holds one of our shares or none.

TLC checks `IInv` as an invariant of the run. The proof has one lemma per
action, with one step per conjunct the action can disturb, and a few lemmas on
the slot helpers (`FirstEmpty`, `IndexByName`, the count). The action
properties and the refinement take `IInv` in the state before each step;
every other step of the refinement maps to a stutter or to one step of the
ledger.

`WalletSync_proofs` proves, from the same assumptions and `ThresholdAssumption`
(any threshold from one to the number of cards):

| Theorem | Statement |
|---|---|
| `SyncInvariance` | `SyncSpec => []SyncInv` |
| `SyncTypeCorrect`, `SyncKeepsSlotsConsistent` | the invariants of `WalletSyncMany`, from `SyncInv` |

`IInv` is not an invariant there: a cut factory reset leaves slots whose share is
gone, and a synchronised slot claims marks that no share stands behind. `SyncInv`
keeps what these leave alone and drops every claim about what cards hold:

* `CardsApart`: a card has no id twice, so that the slots rebuilt from its list
  differ; `ListedWallets`: what is still to be added collides with no slot;
* `NewWallet`, `NotYetInFlash`, `InFlash`: names, ids and states of the creation,
  which keep a saved `wallet_for_flash` from making a slot valid;
* `ReadBack`: a slot without the vault's share finds none in RAM to compare, so
  that a verification cannot make it valid either;
* `SharesFetched`: the shares tapped are those on the cards, of the slot's id and
  of one split, `Threshold` of them when the share is saved, and the one saved.

`WalletRecovery_proofs` goes on from there to what the cards hold:

| Theorem | Assuming | Statement |
|---|---|---|
| `TapInvariance` | | `SyncSpec => [](SyncInv /\ TapInv)` |
| `SyncTakesQuorum` | | `SyncSpec => SyncQuorum` |
| `SyncErasesListed` | | `SyncSpec => ErasedIsListed` |
| `SyncKeepsLocks` | | `SyncSpec => LockOnlyClearedByUnlock` |
| `FreshInvariance` | seeds split afresh | `FreshSpec => []FreshInv` |
| `FreshKeepsEnough` | and `Threshold <= 2` | `FreshSpec => [](FreshInv /\ Enough)` |
| `FreshSeedRecoverable` | and `Threshold <= 2` | `FreshSpec => []SeedRecoverable` |
| `FreshResetLeavesQuorum` | and `Threshold <= 2` | `FreshSpec => ResetLeavesQuorum` |

`TapInv` is what the flows know of the cards from one tap to the next:

* `ReadSoFar`: the shares read back are those the cards hold, and the vault's is
  that of the slot;
* `EraseMatches`: a card about to erase a wallet holds the one the slot names, or
  none. This is what the fetch before the erase is for, and gives
  `ErasedIsListed`;
* `DeletesInOrder`: a deletion that has passed a card has cleared its mark;
* `CreatedUnlocked`: a wallet being created carries no lock, so that the saves of
  its copy clear none.

A slot becomes valid in two steps only, the end of a verification and
`SyncSetValid` (`OnlyCheckedMadeValid`); in both the cards that were read are the
quorum (`QuorumWhenValid`).

`SeedRecoverable` and `ResetLeavesQuorum` compare shares that may have been made
by different creations. `OneSplit` says that all shares of a seed, on cards, in
the vault and in RAM, are of one split. Only a split makes a share where there
was none (`NoShareOutOfNothing`), so `FreshSpec` keeps it. After that it is
enough to count the cards that keep any share of the id (`Keepers`). `Enough`
says of each slot that is valid and written on all cards that `Threshold` cards
keep one, or, if the vault's own share is the slot's, `Threshold - 1` cards other
than card 1. The second case is where an interrupted deletion stands: it erases
card 1 before any mark is cleared, and once a mark is cleared the slot is no longer
full (`DeletesInOrder`). The first is where a cut factory reset stands: the vault's
shares are gone, but two lists were compared before. Since a reset compares two
lists whatever the threshold is, `Threshold <= 2` is needed; the product has
`MINIMUM_NO_OF_SHARES`, which is 2.

`UsbComm_proofs` proves, for every number and length of commands:

| Theorem | Assuming | Statement |
|---|---|---|
| `UsbTypeCorrect` | | `Spec => []TypeOK` |
| `NeverStuckWithoutCoreRequests` | no `core` in `Kinds` | `Spec => []NeverStuck`, with any aborts and repetitions |
| `ExchangeInvariance` | `QuietHost`: no aborts, no repetitions | `Spec => []ExchangeInv` |
| `EventsIntact`, `OutputsBelong`, `StartsInOrder` | `QuietHost` | the properties of `UsbExchange`, from `ExchangeInv` |
| `ExchangeImplemented` | `QuietHost` | `Spec => ImplementsExchange`, the refinement of `CommandExchange`, from `ExchangeInv` |

The assumptions are those the findings make necessary. `NeverStuck` becomes
inductive with `EventHeld` (the main loop has not lost the event it saw) and
`NothingForCore` (no core request is in the buffer, so the window of
`UsbLostEvent` is never entered): `StuckInv`. The quiet host's properties need
the relation between the two sides at every step, `ExchangeInv`:

* `HostAndLoop`: while the host is not waiting, nothing of its is in the main
  loop and the buffer is free;
* `HalfSent`: the chunks acknowledged so far are in the buffer and counted,
  except that the timeout message may have overwritten the first;
* `Occupied`: a buffer that is not free holds the command waited on;
* `LoopHolds`: which of this each place of the main loop relies on;
* `Started`: a command whose event is pending although an app started on it is
  about to be answered with a timeout, before anything is polled. This is what
  keeps `StartsOnceInOrder`.

`CommandExchange` maps the host's last sequence number to `taken`, and the rest
of the link's state to how far that command is and what there is to fetch for it.
It promises safety only: a device that shows an error waits for its user, who
may never come. With aborts or repetitions it is not implemented, as the USB
findings show.

`VaultSetup_proofs` proves, from `SetupAssumption` (any number of cards, families
and power losses):

| Theorem | Statement |
|---|---|
| `SetupTypeCorrect` | `Spec => []TypeOK` |
| `SetupStaysEarned`, `FlowStaysMatched`, `FamilyStaysRecoverable` | the safety properties of the run |

`FamilyRecoverable` is inductive as it stands. `FlowMatches` speaks of a waiting
core only; `FlowHolds` adds which places an app can reach in the restricted flow,
and that the step stays complete there, so that the way back through
`ReturnToCore` is the only one on which the flow is looked at again. `Earned`
needs `EarnedInv`: the step in flash implies the milestones up to it, and an app
that is past its guard rests on the milestones before it, whatever step a torn
page leaves meanwhile. A torn page only lowers the step.

`WalletUnlock_proofs` proves, from `UnlockAssumption`, the invariant `UnlockInv`
(`UnlockInvariant`) and from it `UnlockTypeCorrect`, `SearchIsExhaustive`,
`AnswersAreSolutions` and `OnlyTheCardUnlocks`. `LockHolds` adds what the flow
relies on at each of its places: a lock has its card, a nonce other than `Unset`
its challenge, the flow runs only on a locked wallet, and from the search on a
challenge has been fetched. That a save may bring back an older nonce costs no
solution, because `NoSolutionSkipped` bounds both the saved nonce and the one
being tried by every solution there is; that a round never wraps past a solution
uses `UnlockAssumption` (each challenge has one).

`SwapQueue_proofs` proves, from `SwapAssumption` as well:

| Theorem | Statement |
|---|---|
| `SwapsKeepUnlocking` | every behaviour of `SwapSafety` is one of `WalletUnlock`'s `Safety`: the safety half of `ImplementsUnlock` |
| `SwapsKeepTheSearch` | the invariants and action property of unlocking hold in swaps, by that refinement |
| `SwapInvariant`, `SwapTypeCorrect` | the invariant `SwapInv`, and the types: never more than four calls in the queue |
| `SendChecksItsSwap`, `ReceiveIsFetched`, `CallsRunUnlocked` | the properties of swaps |

`SwapInv` says that the queue holds the last calls of a swap (`QueueFits`, with
`Due(n)` for the call due when n are left), which call may run at each of them
(`CallFits`), and whose signature the context holds there (`ContextFits`).

Every invariant and every safety action property of the passing runs is stated
by a theorem. `NeverStuck`, `EventIntact`, `OutputOfItsCommand`,
`StartsOnceInOrder` and `ImplementsExchange` are proved under the assumptions
named above, as the findings demand. Only model-checked, by bounded instances, is
the liveness: `CommandEnds`, `ReachesMenu`, `SearchEnds` and the fairness half of
`ImplementsUnlock`. Liveness and ENABLED are outside the
proof system; no theorem rests on them. No module uses recursion, so nothing had
to be kept from the provers.

## 6. Not modelled, and why

* Cryptography, secret-sharing arithmetic, display, logging: data and wording.
* Parsing, display and signing of transactions by the coin apps, the queries of
  the manager app that only answer (device info, logs, wallet selection), and
  the inheritance app: sequential dialogues that keep no state of the vault. The
  firmware update hands over to the bootloader, which is not in this repository.
* The session with the host (`core_session.c`): what remains of it without its
  cryptography is a state of three values and an initialization vector that
  decryption advances. The partner whose vector must advance alike is a server
  that is not in this repository, and only the inheritance app uses the session.
* The list of steps below a base flow (`flow_engine.c`): menus whose content is
  rendered from the state that the models have.
* APDU exchange and retries within one tap: the flows see their outcome.
* Settings such as display rotation, passphrase and logging switches.
* Vendored code (lvgl, the crypto library, atecc, STM32 packages).

Of USB, the events and the other modelled parts, see "what is abstracted" above.
`PROJECT.json` says for each component what is left out.

## 7. Plan

In order of what can go wrong and matters most:

1. `WalletLifecycle`, `ShareLedger`, `WalletSync` and the proofs of the first
   two: done.
2. `UsbComm`, its runs and proofs: done.
3. `VaultSetup` with erase-then-write of the pages, and its proofs: done.
4. `WalletUnlock`, `SwapQueue`, the refinement between them and their proofs:
   done.
5. `CommandExchange`, implemented by `UsbComm` for a quiet host, with the
   refinement proved: done.
6. Proofs of what holds of `WalletSync` for all values of the constants, and of the
   recovery of seeds when they are split afresh: done.
7. The session, composed with the apps that use it, and the loss of the shares
   to a torn save followed into the wallets.

Runs are merged where one instance can answer several questions, so that the
whole set stays quick to rerun.
