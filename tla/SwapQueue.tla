------------------------------ MODULE SwapQueue ------------------------------
(***************************************************************************)
(* Swaps of the exchange app, run on a vault whose wallet may get locked.  *)
(* The initiation queues the calls that the swap is made of; each call of  *)
(* an app has to be the head of that queue or restarts the vault.  The     *)
(* calls pass a signature on in the shared context of the core.  The main  *)
(* thread runs one call, or wallet_unlock_flow, at a time.                 *)
(***************************************************************************)
EXTENDS WalletUnlock, Sequences

CONSTANTS Apps,       \* coin apps
          Exchange,   \* the exchange app
          Heedless,   \* coin apps that check the queue but no signature
          MaxSwaps    \* bound: swaps that are initiated

ASSUME SwapAssumption ==
  /\ Exchange \notin Apps /\ Heedless \subseteq Apps
  /\ MaxSwaps \in Nat

VARIABLES queue,     \* the composable app queue
          context,   \* the signature in the shared context
          call,      \* the call of a coin app that runs
          swaps,     \* swaps initiated so far
          current,   \* history: the swap that is open, or 0
          signed     \* history: the last swap whose address was signed

swapVars == <<queue, context, call, swaps, current, signed>>
allVars == <<vars, swapVars>>

Entry(app, tag) == [app |-> app, tag |-> tag]
Entries == [app : Apps, tag : {"receive", "send"}]
             \cup [app : {Exchange}, tag : {"fetch", "store"}]

Signature(by, swap) == [by |-> by, swap |-> swap]
Zero == Signature("none", 0)

\* check: the call was served from the queue, and acts on it.
Call(kind, stage, check) == [kind |-> kind, stage |-> stage, check |-> check]
NoCall == Call("none", "none", FALSE)

SwapTypeOK ==
  /\ TypeOK
  /\ queue \in Seq(Entries) /\ Len(queue) <= 4
  /\ context \in [by : {"none", "vault", "server"}, swap : 0 .. MaxSwaps]
  /\ call \in [kind : {"none", "receive", "send"},
               stage : {"none", "verify", "seed"}, check : BOOLEAN]
  /\ swaps \in 0 .. MaxSwaps
  /\ current \in 0 .. swaps
  /\ signed \in 0 .. swaps

SwapInit ==
  /\ Init
  /\ queue = <<>> /\ context = Zero /\ call = NoCall
  /\ swaps = 0 /\ current = 0 /\ signed = 0

-----------------------------------------------------------------------------
(* The queue.                                                              *)

\* The host may call: no call and no unlocking is going on.
Free == call = NoCall /\ place = "idle"

Heads(e) == queue # <<>> /\ Head(queue) = e

\* The call is the next one of the swap, or there is no swap to obey.
Serve(e) ==
  \/ queue = <<>> /\ UNCHANGED queue
  \/ Heads(e) /\ queue' = Tail(queue)

\* RAM is lost; the open swap with it.
Reboot ==
  /\ PowerLoss
  /\ queue' = <<>> /\ context' = Zero /\ call' = NoCall
  /\ current' = 0
  /\ UNCHANGED <<swaps, signed>>

\* Any other call restarts the vault.
OutOfOrder(e) ==
  /\ Free
  /\ queue # <<>> /\ Head(queue) # e
  /\ Reboot

-----------------------------------------------------------------------------
(* The calls of the exchange app.                                          *)

\* Mutant: the send comes before the server's signature.
Plan_SendEarly(to, from) ==
  <<Entry(to, "receive"), Entry(Exchange, "fetch"), Entry(from, "send"),
    Entry(Exchange, "store")>>

Plan(to, from) ==
  <<Entry(to, "receive"), Entry(Exchange, "fetch"), Entry(Exchange, "store"),
    Entry(from, "send")>>

\* Mutant: the calls left from the swap before stay in the queue.
InitiateFlow_NotCleared(to, from) ==
  /\ Free
  /\ swaps < MaxSwaps
  /\ queue' = queue \o Plan(to, from)
  /\ swaps' = swaps + 1 /\ current' = swaps + 1
  /\ UNCHANGED <<vars, context, call, signed>>

\* The calls left from a swap before are dropped, its signature is not.
InitiateFlow(to, from) ==
  /\ Free
  /\ swaps < MaxSwaps
  /\ queue' = Plan(to, from)
  /\ swaps' = swaps + 1 /\ current' = swaps + 1
  /\ UNCHANGED <<vars, context, call, signed>>

\* Answers with whatever the shared context holds.
GetSignature ==
  /\ Free
  /\ Serve(Entry(Exchange, "fetch"))
  /\ UNCHANGED <<vars, context, call, swaps, current, signed>>

\* Mutant: the signature is stored whatever call is due.
StoreSignature_AnyTime ==
  /\ Free
  /\ context' = Signature("server", current)
  /\ UNCHANGED <<vars, queue, call, swaps, current, signed>>

StoreSignature ==
  /\ Free
  /\ Serve(Entry(Exchange, "store"))
  /\ context' = Signature("server", current)
  /\ UNCHANGED <<vars, call, swaps, current, signed>>

CloseFlow ==
  /\ Free
  /\ queue' = <<>> /\ context' = Zero /\ current' = 0
  /\ UNCHANGED <<vars, call, swaps, signed>>

-----------------------------------------------------------------------------
(* The calls of the coin apps.                                             *)

\* Mutant: the lookup does not mind a lock.
StartCall_LockedToo(kind, stage, app, heeds) ==
  /\ Free
  /\ Serve(Entry(app, kind))
  /\ call' = Call(kind, stage, heeds /\ Heads(Entry(app, kind)))
  /\ UNCHANGED <<vars, context, swaps, current, signed>>

\* The queue is popped before the wallet is looked up, and a locked wallet
\* is refused.
StartCall(kind, stage, app, heeds) ==
  /\ Free
  /\ Serve(Entry(app, kind))
  /\ call' = IF locked THEN NoCall
             ELSE Call(kind, stage, heeds /\ Heads(Entry(app, kind)))
  /\ UNCHANGED <<vars, context, swaps, current, signed>>

GetPublicKey(app) == StartCall("receive", "seed", app, TRUE)
SignTxn(app) == StartCall("send", "verify", app, app \notin Heedless)

EndCall == call' = NoCall

\* A request that is invalid, a rejection, a P0 abort or a timeout.
CallAborted ==
  /\ call # NoCall
  /\ EndCall
  /\ UNCHANGED <<vars, queue, context, swaps, current, signed>>

\* A receiver of the transaction is checked and shown, one after the other;
\* the signature serves for one check only.
VerifyReceiver ==
  /\ call.stage = "verify"
  /\ IF call.check THEN context' = Zero ELSE UNCHANGED context
  /\ \/ EndCall
     \/ (call.check => context.by = "server") /\ UNCHANGED call
  /\ UNCHANGED <<vars, queue, swaps, current, signed>>

UserVerified ==
  /\ call.stage = "verify"
  /\ call' = [call EXCEPT !.stage = "seed"]
  /\ UNCHANGED <<vars, queue, context, swaps, current, signed>>

\* The seed is reconstructed.  In a swap the address is signed and the
\* signature left for the exchange app.
SeedReconstructed ==
  /\ call.stage = "seed"
  /\ IF call.kind = "receive" /\ call.check
       THEN context' = Signature("vault", current) /\ signed' = current
       ELSE UNCHANGED <<context, signed>>
  /\ EndCall
  /\ UNCHANGED <<vars, queue, swaps, current>>

\* Mutant: the lock is noted without its card.
SeedLocks_NoCard(c) ==
  /\ call.stage = "seed"
  /\ CardAsksAgain(c) /\ locked' = TRUE
  /\ UNCHANGED <<cardLocked, challenge, nonce, pow, place>>
  /\ EndCall
  /\ UNCHANGED <<queue, context, swaps, current, signed>>

\* The card tapped for the seed turns out to be locked, or gets locked.
SeedLocks(c) ==
  /\ call.stage = "seed"
  /\ WalletUsed(c)
  /\ EndCall
  /\ UNCHANGED <<queue, context, swaps, current, signed>>

-----------------------------------------------------------------------------
ExchangeCall ==
  \/ \E to, from \in Apps : InitiateFlow(to, from)
  \/ GetSignature \/ StoreSignature \/ CloseFlow
CoinCall ==
  \/ \E app \in Apps : GetPublicKey(app) \/ SignTxn(app)
  \/ CallAborted \/ VerifyReceiver \/ UserVerified \/ SeedReconstructed
  \/ \E c \in Cards : SeedLocks(c)

\* The wallet and the cards outside the calls of apps.
OtherVaultStep == (\E c \in Cards : OtherVault(c)) /\ UNCHANGED swapVars
UnlockingStep == call = NoCall /\ UnlockStep /\ UNCHANGED swapVars
UseStep == Free /\ (\E c \in Cards : WalletUsed(c)) /\ UNCHANGED swapVars

SwapNext ==
  \/ ExchangeCall \/ CoinCall
  \/ \E e \in Entries : OutOfOrder(e)
  \/ OtherVaultStep \/ UnlockingStep \/ UseStep
  \/ Reboot

SwapSafety == SwapInit /\ [][SwapNext]_allVars
SwapSpec == SwapSafety /\ WF_allVars(PowTask /\ UNCHANGED swapVars)

-----------------------------------------------------------------------------
(* What the swaps promise.                                                 *)

\* A send that is checked finds the server's signature of its own swap, or
\* none: never one left over from a swap that was given up, never the one
\* the vault signed itself.
ChecksOwnSignature ==
  call.kind = "send" /\ call.check =>
    context \in {Zero, Signature("server", current)} /\ current # 0

\* Once the receive call of a swap signed its address, the signature stays in
\* the shared context until it is fetched: no call of another app and no
\* unlocking in between replaces it.
FetchFindsOwn ==
  current # 0 /\ signed = current /\ Heads(Entry(Exchange, "fetch")) =>
    context = Signature("vault", current)

\* A call that runs has the main thread for itself and a wallet that is not
\* locked, up to the tap of the card.
CallsUnlocked == call # NoCall => place = "idle" /\ ~locked

\* The swaps leave the unlocking of wallets as WalletUnlock has it, with the
\* end of the search.
ImplementsUnlock == Spec
=============================================================================
