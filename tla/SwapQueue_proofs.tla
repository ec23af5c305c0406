-------------------------- MODULE SwapQueue_proofs --------------------------
(***************************************************************************)
(* Proofs about SwapQueue, for any coin apps, whichever of them heed the   *)
(* signature, and any number of swaps.                                     *)
(***************************************************************************)
EXTENDS SwapQueue, WalletUnlock_proofs

-----------------------------------------------------------------------------
(* Each step of the swaps is a step of WalletUnlock, or none. *)

LEMMA RebootIsPowerLoss == Reboot => PowerLoss
BY DEF Reboot

LEMMA ExchangeIsNoStep == ExchangeCall => UNCHANGED vars
BY DEF ExchangeCall, InitiateFlow, GetSignature, StoreSignature, CloseFlow

LEMMA CoinCallUses == CoinCall => UNCHANGED vars \/ \E c \in Cards : WalletUsed(c)
BY DEF CoinCall, GetPublicKey, SignTxn, StartCall, CallAborted, VerifyReceiver,
       UserVerified, SeedReconstructed, SeedLocks

LEMMA SwapStepUnlocks == [SwapNext]_allVars => [Next]_vars
<1>. SUFFICES ASSUME [SwapNext]_allVars PROVE [Next]_vars
  OBVIOUS
<1>1. CASE ExchangeCall
  BY <1>1, ExchangeIsNoStep
<1>2. CASE CoinCall
  BY <1>2, CoinCallUses DEF Next, CardStep
<1>3. CASE Reboot \/ \E e \in Entries : OutOfOrder(e)
  BY <1>3, RebootIsPowerLoss DEF OutOfOrder, Next
<1>4. CASE OtherVaultStep \/ UseStep
  BY <1>4 DEF OtherVaultStep, UseStep, Next, CardStep
<1>5. CASE UnlockingStep
  BY <1>5 DEF UnlockingStep, Next
<1>6. CASE UNCHANGED allVars
  BY <1>6 DEF allVars
<1>. QED
  BY <1>1, <1>2, <1>3, <1>4, <1>5, <1>6, Zenon DEF SwapNext

(* The swaps implement the unlocking, its fairness aside. *)
THEOREM SwapsKeepUnlocking == SwapSafety => Safety
<1>1. SwapInit => Init
  BY DEF SwapInit
<1>. QED
  BY <1>1, SwapStepUnlocks, PTL DEF SwapSafety, Safety

-----------------------------------------------------------------------------
(* The queue. *)

LEMMA PlanFacts ==
  ASSUME NEW to \in Apps, NEW from \in Apps
  PROVE  /\ Plan(to, from) \in Seq(Entries)
         /\ Len(Plan(to, from)) = 4
         /\ Plan(to, from)[1].tag = "receive" /\ Plan(to, from)[2].tag = "fetch"
         /\ Plan(to, from)[3].tag = "store" /\ Plan(to, from)[4].tag = "send"
<1>1. Entry(to, "receive") \in Entries /\ Entry(Exchange, "fetch") \in Entries
  BY DEF Entry, Entries
<1>2. Entry(Exchange, "store") \in Entries /\ Entry(from, "send") \in Entries
  BY DEF Entry, Entries
<1>3. Plan(to, from) \in Seq(Entries)
  BY <1>1, <1>2 DEF Plan
<1>. QED
  BY <1>3 DEF Plan, Entry

(* The call that is due when n calls of a swap are left. *)
Due(n) == CASE n = 4 -> "receive" [] n = 3 -> "fetch"
            [] n = 2 -> "store" [] OTHER -> "send"

LEMMA DueFacts ==
  ASSUME NEW n \in 1 .. 4
  PROVE  /\ Due(n) = "receive" => n = 4
         /\ Due(n) = "fetch" => n = 3
         /\ Due(n) = "store" => n = 2
         /\ Due(n) = "send" => n = 1
<1>1. n \in {1, 2, 3, 4}
  OBVIOUS
<1>. QED
  BY <1>1 DEF Due

(* The queue holds the last calls of a swap. *)
QueueFits ==
  /\ \A i \in 1 .. Len(queue) : queue[i].tag = Due(Len(queue) - i + 1)
  /\ Len(queue) > 0 => current # 0

QueueTyped == queue \in Seq(Entries) /\ Len(queue) <= 4

LEMMA QueueLength == QueueTyped => Len(queue) \in 0 .. 4
<1>. SUFFICES ASSUME QueueTyped PROVE Len(queue) \in 0 .. 4
  OBVIOUS
<1>. DEFINE n == Len(queue)
<1>1. n <= 4
  BY DEF QueueTyped
<1>2. n \in Nat
  BY DEF QueueTyped
<1>. HIDE DEF n
<1>3. n \in 0 .. 4
  BY <1>1, <1>2
<1>. QED
  BY <1>3 DEF n

(* A call that is served leaves an empty queue, or is the one that is due. *)
LEMMA ServeFacts ==
  ASSUME QueueTyped, QueueFits, NEW e, Serve(e), current' = current
  PROVE  /\ QueueTyped' /\ QueueFits'
         /\ Len(queue) = 0 => Len(queue') = 0
         /\ Len(queue) > 0 =>
              /\ e.tag = Due(Len(queue)) /\ Len(queue') = Len(queue) - 1
              /\ Heads(e)
<1>1. CASE queue = <<>>
  BY <1>1 DEF Serve, QueueTyped, QueueFits, Heads
<1>2. CASE queue # <<>>
  <2>1. Heads(e) /\ queue' = Tail(queue)
    BY <1>2 DEF Serve
  <2>2. queue \in Seq(Entries) /\ Len(queue) > 0 /\ Len(queue) \in Nat
    BY <1>2 DEF QueueTyped
  <2>3. queue' \in Seq(Entries) /\ Len(queue') = Len(queue) - 1
    BY <2>1, <2>2, <1>2
  <2>4. \A i \in 1 .. Len(queue') : queue'[i] = queue[i + 1]
    BY <2>1, <2>2, <2>3, <1>2
  <2>5. QueueTyped'
    BY <2>2, <2>3 DEF QueueTyped
  <2>6. QueueFits'
    <3>1. ASSUME NEW i \in 1 .. Len(queue')
          PROVE  queue'[i].tag = Due(Len(queue') - i + 1)
      <4>1. i + 1 \in 1 .. Len(queue)
        BY <2>2, <2>3
      <4>2. queue[i + 1].tag = Due(Len(queue) - (i + 1) + 1)
        BY <4>1 DEF QueueFits
      <4>3. Len(queue) - (i + 1) + 1 = Len(queue') - i + 1
        BY <2>2, <2>3
      <4>. QED
        BY <2>4, <4>2, <4>3
    <3>. QED
      BY <2>2, <3>1 DEF QueueFits
  <2>7. e.tag = Due(Len(queue))
    <3>1. queue[1].tag = Due(Len(queue) - 1 + 1)
      BY <2>2 DEF QueueFits
    <3>2. e = queue[1]
      BY <2>1, <2>2 DEF Heads
    <3>. QED
      BY <2>2, <3>1, <3>2
  <2>. QED
    BY <2>1, <2>2, <2>3, <2>5, <2>6, <2>7
<1>. QED
  BY <1>1, <1>2

(* The call that is served tells how many are left. *)
LEMMA ServeCounts ==
  ASSUME QueueTyped, QueueFits, NEW e, Serve(e), current' = current
  PROVE  /\ e.tag = "receive" => Len(queue) \in {0, 4}
         /\ e.tag = "fetch" => Len(queue) \in {0, 3}
         /\ e.tag = "store" => Len(queue) \in {0, 2}
         /\ e.tag = "send" => Len(queue) \in {0, 1}
<1>. DEFINE n == Len(queue)
<1>1. n \in 0 .. 4
  BY QueueLength
<1>2. n > 0 => e.tag = Due(n)
  BY ServeFacts
<1>. HIDE DEF n
<1>3. \/ n = 0
      \/ /\ e.tag = "receive" => n = 4
         /\ e.tag = "fetch" => n = 3
         /\ e.tag = "store" => n = 2
         /\ e.tag = "send" => n = 1
  <2>. SUFFICES ASSUME n \in 1 .. 4
                PROVE  /\ e.tag = "receive" => n = 4
                       /\ e.tag = "fetch" => n = 3
                       /\ e.tag = "store" => n = 2
                       /\ e.tag = "send" => n = 1
    BY <1>1
  <2>. QED
    BY <1>2, DueFacts
<1>. QED
  BY <1>3, Zenon DEF n

(* What a call leaves of the queue, by its tag. *)
LEMMA ServeLeaves ==
  ASSUME QueueTyped, QueueFits, NEW e, Serve(e), current' = current
  PROVE  \/ Len(queue') = 0
         \/ /\ e.tag = "receive" => Len(queue') = 3
            /\ e.tag = "fetch" => Len(queue') = 2
            /\ e.tag = "store" => Len(queue') = 1
            /\ e.tag = "send" => Len(queue') = 0
<1>. DEFINE n == Len(queue)  n1 == Len(queue')
<1>1. n \in 0 .. 4
  BY QueueLength
<1>2. (n = 0 => n1 = 0) /\ (n > 0 => n1 = n - 1)
  BY ServeFacts
<1>3. /\ e.tag = "receive" => n \in {0, 4}
      /\ e.tag = "fetch" => n \in {0, 3}
      /\ e.tag = "store" => n \in {0, 2}
      /\ e.tag = "send" => n \in {0, 1}
  BY ServeCounts
<1>. HIDE DEF n, n1
<1>4. \/ n1 = 0
      \/ /\ e.tag = "receive" => n1 = 3
         /\ e.tag = "fetch" => n1 = 2
         /\ e.tag = "store" => n1 = 1
         /\ e.tag = "send" => n1 = 0
  BY <1>1, <1>2, <1>3
<1>. QED
  BY <1>4, Zenon DEF n1

LEMMA InitiateFacts ==
  ASSUME NEW to \in Apps, NEW from \in Apps, swaps \in Nat,
         InitiateFlow(to, from)
  PROVE  QueueTyped' /\ QueueFits' /\ Len(queue') = 4
<1>1. queue' = Plan(to, from) /\ current' = swaps + 1
  BY DEF InitiateFlow
<1>2. QueueTyped' /\ Len(queue') = 4
  <2>1. Plan(to, from) \in Seq(Entries) /\ Len(Plan(to, from)) = 4
    BY PlanFacts, Zenon
  <2>2. queue' \in Seq(Entries) /\ Len(queue') = 4
    BY <1>1, <2>1, Zenon
  <2>. QED
    BY <2>2 DEF QueueTyped
<1>3. ASSUME NEW i \in 1 .. Len(queue')
      PROVE  queue'[i].tag = Due(Len(queue') - i + 1)
  <2>1. i \in {1, 2, 3, 4}
    BY <1>2
  <2>. QED
    BY <1>1, <1>2, <2>1, PlanFacts DEF Due
<1>. QED
  BY <1>1, <1>2, <1>3 DEF QueueFits

-----------------------------------------------------------------------------
(* The inductive invariant. *)

(* The stage of a call, and what of its swap is left while it runs. *)
CallFits ==
  /\ call \in [kind : {"none", "receive", "send"},
               stage : {"none", "verify", "seed"}, check : BOOLEAN]
  /\ call.kind = "none" <=> call = NoCall
  /\ call.stage = "verify" => call.kind = "send"
  /\ call.stage # "none" => call # NoCall
  /\ call.kind = "receive" => Len(queue) = IF call.check THEN 3 ELSE 0
  /\ call.kind = "send" => Len(queue) = 0
  /\ call # NoCall /\ call.check => current # 0

(* The signature in the shared context. *)
ContextFits ==
  /\ context \in [by : {"none", "vault", "server"}, swap : 0 .. MaxSwaps]
  /\ Len(queue) = 4 => signed # current
  /\ Len(queue) = 3 /\ signed = current => context = Signature("vault", current)
  /\ Len(queue) = 1 => context = Signature("server", current)
  /\ ChecksOwnSignature

SwapsCount ==
  /\ swaps \in 0 .. MaxSwaps
  /\ current \in 0 .. swaps
  /\ signed \in 0 .. swaps

SwapInv == QueueTyped /\ QueueFits /\ CallFits /\ ContextFits /\ SwapsCount

LEMMA NoCallFields ==
  NoCall.kind = "none" /\ NoCall.stage = "none" /\ NoCall.check = FALSE
BY DEF NoCall, Call

LEMMA EndedCallFits == call = NoCall => CallFits
BY NoCallFields DEF CallFits, NoCall, Call

LEMMA ZeroTyped == Zero \in [by : {"none", "vault", "server"}, swap : 0 .. MaxSwaps]
BY SwapAssumption DEF Zero, Signature

LEMMA InitSwapInv == SwapInit => SwapInv
<1>. SUFFICES ASSUME SwapInit PROVE SwapInv
  OBVIOUS
<1>. USE SwapAssumption DEF SwapInit
<1>1. QueueTyped /\ QueueFits /\ Len(queue) = 0
  BY DEF QueueTyped, QueueFits
<1>2. CallFits
  BY EndedCallFits
<1>3. ContextFits
  BY <1>1, ZeroTyped, NoCallFields DEF ContextFits, ChecksOwnSignature
<1>4. SwapsCount
  BY DEF SwapsCount
<1>. QED
  BY <1>1, <1>2, <1>3, <1>4 DEF SwapInv

-----------------------------------------------------------------------------
(* Every step keeps the invariant. *)

LEMMA RebootKeeps == SwapInv /\ Reboot => SwapInv'
<1>. SUFFICES ASSUME SwapInv, Reboot PROVE SwapInv'
  OBVIOUS
<1>. USE SwapAssumption DEF Reboot
<1>1. QueueTyped' /\ QueueFits' /\ Len(queue') = 0
  BY DEF QueueTyped, QueueFits
<1>2. CallFits'
  BY NoCallFields DEF CallFits, NoCall, Call
<1>3. ContextFits'
  BY <1>1, ZeroTyped, NoCallFields DEF ContextFits, ChecksOwnSignature
<1>4. SwapsCount'
  BY DEF SwapInv, SwapsCount
<1>. QED
  BY <1>1, <1>2, <1>3, <1>4 DEF SwapInv

LEMMA InitiateKeeps ==
  ASSUME SwapInv, NEW to \in Apps, NEW from \in Apps, InitiateFlow(to, from)
  PROVE  SwapInv'
<1>. USE DEF InitiateFlow
<1>1. SwapsCount' /\ swaps \in Nat
  BY SwapAssumption DEF SwapInv, SwapsCount
<1>2. QueueTyped' /\ QueueFits' /\ Len(queue') = 4
  BY <1>1, InitiateFacts
<1>3. call = NoCall /\ call' = NoCall
  BY DEF Free
<1>4. CallFits'
  BY <1>3, NoCallFields DEF CallFits, NoCall, Call
<1>5. signed' # current'
  BY SwapAssumption DEF SwapInv, SwapsCount
<1>6. ContextFits'
  BY <1>2, <1>3, <1>5, NoCallFields DEF SwapInv, ContextFits, ChecksOwnSignature
<1>. QED
  BY <1>1, <1>2, <1>4, <1>6 DEF SwapInv

LEMMA GetSignatureKeeps == SwapInv /\ GetSignature => SwapInv'
<1>. SUFFICES ASSUME SwapInv, GetSignature PROVE SwapInv'
  OBVIOUS
<1>. USE DEF GetSignature
<1>. DEFINE e == Entry(Exchange, "fetch")
<1>1. /\ QueueTyped' /\ QueueFits'
      /\ Len(queue) = 0 => Len(queue') = 0
      /\ Len(queue) > 0 => e.tag = Due(Len(queue)) /\ Len(queue') = Len(queue) - 1
  BY ServeFacts DEF SwapInv
<1>2. e.tag = "fetch"
  BY DEF Entry
<1>3. Len(queue') \in {0, 2}
  BY <1>2, ServeLeaves DEF SwapInv
<1>4. call = NoCall /\ call' = NoCall
  BY DEF Free
<1>5. CallFits'
  BY <1>4, NoCallFields DEF CallFits, NoCall, Call
<1>6. ContextFits'
  <2>. DEFINE n == Len(queue')
  <2>. n \in {0, 2}
    BY <1>3
  <2>. HIDE DEF n
  <2>1. n # 1 /\ n # 3 /\ n # 4
    OBVIOUS
  <2>2. call'.kind # "send"
    BY <1>4, NoCallFields
  <2>. QED
    BY <2>1, <2>2, Zenon DEF SwapInv, ContextFits, ChecksOwnSignature, n
<1>7. SwapsCount'
  BY DEF SwapInv, SwapsCount
<1>. QED
  BY <1>1, <1>5, <1>6, <1>7 DEF SwapInv

LEMMA StoreSignatureKeeps == SwapInv /\ StoreSignature => SwapInv'
<1>. SUFFICES ASSUME SwapInv, StoreSignature PROVE SwapInv'
  OBVIOUS
<1>. USE DEF StoreSignature
<1>. DEFINE e == Entry(Exchange, "store")
<1>1. /\ QueueTyped' /\ QueueFits'
      /\ Len(queue) = 0 => Len(queue') = 0
      /\ Len(queue) > 0 => e.tag = Due(Len(queue)) /\ Len(queue') = Len(queue) - 1
  BY ServeFacts DEF SwapInv
<1>2. e.tag = "store"
  BY DEF Entry
<1>3. Len(queue') \in {0, 1}
  BY <1>2, ServeLeaves DEF SwapInv
<1>4. call = NoCall /\ call' = NoCall
  BY DEF Free
<1>5. CallFits'
  BY <1>4, NoCallFields DEF CallFits, NoCall, Call
<1>6. SwapsCount'
  BY DEF SwapInv, SwapsCount
<1>7. context' = Signature("server", current') /\ current' \in 0 .. MaxSwaps
  BY SwapAssumption DEF SwapInv, SwapsCount
<1>8. context' \in [by : {"none", "vault", "server"}, swap : 0 .. MaxSwaps]
  BY <1>7 DEF Signature
<1>9. ContextFits'
  <2>1. Len(queue') # 3 /\ Len(queue') # 4
    BY <1>3
  <2>2. call'.kind # "send"
    BY <1>4, NoCallFields
  <2>. QED
    BY <1>7, <1>8, <2>1, <2>2, Zenon DEF ContextFits, ChecksOwnSignature
<1>. QED
  BY <1>1, <1>5, <1>6, <1>9 DEF SwapInv

LEMMA CloseKeeps == SwapInv /\ CloseFlow => SwapInv'
<1>. SUFFICES ASSUME SwapInv, CloseFlow PROVE SwapInv'
  OBVIOUS
<1>. USE DEF CloseFlow
<1>1. QueueTyped' /\ QueueFits' /\ Len(queue') = 0
  BY DEF QueueTyped, QueueFits
<1>2. call' = NoCall
  BY DEF Free
<1>3. CallFits'
  BY <1>2, NoCallFields DEF CallFits, NoCall, Call
<1>4. ContextFits'
  BY <1>1, <1>2, ZeroTyped, NoCallFields DEF ContextFits, ChecksOwnSignature
<1>5. SwapsCount'
  BY SwapAssumption DEF SwapInv, SwapsCount
<1>. QED
  BY <1>1, <1>3, <1>4, <1>5 DEF SwapInv

(* The calls of the coin apps. *)
LEMMA StartKeeps ==
  ASSUME SwapInv, NEW app, NEW heeds \in BOOLEAN,
         NEW kind \in {"receive", "send"}, NEW stage \in {"verify", "seed"},
         kind = "receive" => heeds /\ stage = "seed",
         StartCall(kind, stage, app, heeds)
  PROVE  SwapInv'
<1>. DEFINE e == Entry(app, kind)
            c == Call(kind, stage, heeds /\ Heads(e))
<1>1. Serve(e) /\ UNCHANGED <<context, swaps, current, signed>>
        /\ (call' = NoCall \/ call' = c)
  BY DEF StartCall
<1>2. QueueTyped /\ QueueFits
  BY DEF SwapInv
<1>3. QueueTyped' /\ QueueFits' /\ SwapsCount'
  BY <1>1, <1>2, ServeFacts DEF SwapInv, SwapsCount
<1>4. e.tag = kind
  BY DEF Entry
<1>5. /\ kind = "receive" => Len(queue') \in {0, 3}
      /\ kind = "send" => Len(queue') = 0
  BY <1>1, <1>2, <1>4, ServeLeaves
<1>6. c.kind = kind /\ c.stage = stage /\ c.check = (heeds /\ Heads(e))
        /\ c # NoCall
  BY DEF Call, NoCall
<1>7. /\ kind = "receive" => Len(queue') = IF c.check THEN 3 ELSE 0
      /\ c.check => current # 0
      /\ c.check /\ kind = "send" => Len(queue) = 1
  <2>1. CASE Heads(e)
    <3>1. queue # <<>> /\ Len(queue) > 0
      BY <1>2, <2>1, QueueLength DEF Heads, QueueTyped
    <3>2. current # 0
      BY <1>2, <3>1 DEF QueueFits
    <3>. DEFINE n == Len(queue)  n1 == Len(queue')
    <3>3. n > 0 /\ n \in Nat /\ n1 = n - 1
      BY <1>1, <1>2, <3>1, ServeFacts, QueueLength
    <3>4. (kind = "receive" => n \in {0, 4}) /\ (kind = "send" => n \in {0, 1})
      BY <1>1, <1>2, <1>4, ServeCounts
    <3>. HIDE DEF n, n1
    <3>5. (kind = "receive" => n1 = 3) /\ (kind = "send" => n = 1)
      BY <3>3, <3>4
    <3>6. kind = "receive" => c.check
      BY <1>6, <2>1
    <3>. HIDE DEF c
    <3>. QED
      BY <3>2, <3>5, <3>6, Zenon DEF n, n1
  <2>2. CASE ~Heads(e)
    <3>1. Len(queue) = 0
      BY <1>1, <2>2 DEF Serve
    <3>2. Len(queue') = 0
      BY <1>1, <1>2, <3>1, ServeFacts
    <3>3. ~c.check
      BY <1>6, <2>2, Zenon
    <3>. HIDE DEF c
    <3>. QED
      BY <3>2, <3>3, Zenon
  <2>. QED
    BY <2>1, <2>2
<1>8. c \in [kind : {"none", "receive", "send"},
             stage : {"none", "verify", "seed"}, check : BOOLEAN]
  BY DEF Call
<1>. HIDE DEF c
<1>9. CallFits'
  <2>1. CASE call' = NoCall
    BY <2>1, NoCallFields DEF CallFits, NoCall, Call
  <2>2. CASE call' = c
    BY <1>1, <1>5, <1>6, <1>7, <1>8, <2>2 DEF CallFits
  <2>. QED
    BY <1>1, <2>1, <2>2
<1>10. /\ Len(queue') # 1 /\ Len(queue') # 4
       /\ Len(queue') = 3 => Len(queue) = 4
  <2>. DEFINE n == Len(queue)  n1 == Len(queue')
  <2>1. n1 \in {0, 3} /\ (n = 0 => n1 = 0) /\ (n > 0 => n1 = n - 1) /\ n \in 0 .. 4
    BY <1>1, <1>2, <1>5, ServeFacts, QueueLength
  <2>. HIDE DEF n, n1
  <2>2. n1 # 1 /\ n1 # 4 /\ (n1 = 3 => n = 4)
    BY <2>1
  <2>. QED
    BY <2>2, Zenon DEF n, n1
<1>11. ContextFits /\ UNCHANGED <<context, signed, current>>
  BY <1>1 DEF SwapInv
<1>12. ChecksOwnSignature'
  <2>1. CASE call' = NoCall
    BY <2>1, NoCallFields DEF ChecksOwnSignature
  <2>2. CASE call' = c
    BY <1>6, <1>7, <1>11, <2>2 DEF ChecksOwnSignature, ContextFits
  <2>. QED
    BY <1>1, <2>1, <2>2
<1>13. ContextFits'
  BY <1>10, <1>11, <1>12, Zenon DEF ContextFits
<1>. QED
  BY <1>3, <1>9, <1>13 DEF SwapInv

(* A call that runs leaves the queue alone. *)
LEMMA RunningKeeps ==
  ASSUME SwapInv, UNCHANGED <<queue, swaps, current>>,
         CallFits', ContextFits', signed' \in {signed, current}
  PROVE  SwapInv'
<1>1. QueueTyped' /\ QueueFits'
  BY DEF SwapInv, QueueTyped, QueueFits
<1>2. SwapsCount'
  BY DEF SwapInv, SwapsCount
<1>. QED
  BY <1>1, <1>2 DEF SwapInv

LEMMA EndedKeeps ==
  ASSUME SwapInv, call' = NoCall, UNCHANGED <<queue, context, swaps, current, signed>>
  PROVE  SwapInv'
<1>1. CallFits'
  BY NoCallFields DEF CallFits, NoCall, Call
<1>2. ContextFits'
  BY NoCallFields DEF SwapInv, ContextFits, ChecksOwnSignature
<1>. QED
  BY <1>1, <1>2, RunningKeeps

LEMMA VerifyReceiverKeeps == SwapInv /\ VerifyReceiver => SwapInv'
<1>. SUFFICES ASSUME SwapInv, VerifyReceiver PROVE SwapInv'
  OBVIOUS
<1>1. call.kind = "send" /\ Len(queue) = 0
  BY DEF VerifyReceiver, SwapInv, CallFits
<1>2. UNCHANGED <<queue, swaps, current, signed>> /\ context' \in {context, Zero}
        /\ call' \in {call, NoCall}
  BY DEF VerifyReceiver, EndCall
<1>3. CallFits'
  <2>1. CASE call' = NoCall
    BY <2>1, NoCallFields DEF CallFits, NoCall, Call
  <2>2. CASE call' = call
    BY <1>2, <2>2 DEF SwapInv, CallFits
  <2>. QED
    BY <1>2, <2>1, <2>2
<1>4. ContextFits'
  <2>1. context' \in [by : {"none", "vault", "server"}, swap : 0 .. MaxSwaps]
    BY <1>2, ZeroTyped DEF SwapInv, ContextFits
  <2>2. ChecksOwnSignature'
    BY <1>2, NoCallFields DEF SwapInv, ContextFits, ChecksOwnSignature
  <2>3. Len(queue') = 0
    BY <1>1, <1>2
  <2>. QED
    BY <2>1, <2>2, <2>3 DEF ContextFits
<1>. QED
  BY <1>2, <1>3, <1>4, RunningKeeps

LEMMA UserVerifiedKeeps == SwapInv /\ UserVerified => SwapInv'
<1>. SUFFICES ASSUME SwapInv, UserVerified PROVE SwapInv'
  OBVIOUS
<1>1. UNCHANGED <<queue, context, swaps, current, signed>>
  BY DEF UserVerified
<1>2. CallFits
  BY DEF SwapInv
<1>3. call \in [kind : {"none", "receive", "send"},
              stage : {"none", "verify", "seed"}, check : BOOLEAN]
  BY <1>2 DEF CallFits
<1>4. /\ call'.kind = call.kind /\ call'.check = call.check /\ call'.stage = "seed"
      /\ call' \in [kind : {"none", "receive", "send"},
                   stage : {"none", "verify", "seed"}, check : BOOLEAN]
  BY <1>3 DEF UserVerified
<1>5. call.kind = "send"
  BY <1>2 DEF UserVerified, CallFits
<1>6. CallFits'
  BY <1>1, <1>2, <1>4, <1>5, NoCallFields DEF CallFits
<1>7. ContextFits'
  BY <1>1, <1>4 DEF SwapInv, ContextFits, ChecksOwnSignature
<1>. QED
  BY <1>1, <1>6, <1>7, RunningKeeps

LEMMA SeedReconstructedKeeps == SwapInv /\ SeedReconstructed => SwapInv'
<1>. SUFFICES ASSUME SwapInv, SeedReconstructed PROVE SwapInv'
  OBVIOUS
<1>1. UNCHANGED <<queue, swaps, current>> /\ call' = NoCall
  BY DEF SeedReconstructed, EndCall
<1>2. CASE call.kind = "receive" /\ call.check
  <2>1. context' = Signature("vault", current) /\ signed' = current
    BY <1>2 DEF SeedReconstructed
  <2>2. Len(queue') = 3 /\ current' = current
    BY <1>1, <1>2 DEF SwapInv, CallFits
  <2>3. CallFits'
    BY <1>1, NoCallFields DEF CallFits, NoCall, Call
  <2>4. current \in 0 .. MaxSwaps
    BY SwapAssumption DEF SwapInv, SwapsCount
  <2>5. context' \in [by : {"none", "vault", "server"}, swap : 0 .. MaxSwaps]
    BY <2>1, <2>4 DEF Signature
  <2>6. ContextFits'
    BY <1>1, <2>1, <2>2, <2>5, NoCallFields DEF ContextFits, ChecksOwnSignature
  <2>. QED
    BY <1>1, <2>1, <2>3, <2>6, RunningKeeps
<1>3. CASE ~(call.kind = "receive" /\ call.check)
  BY <1>1, <1>3, EndedKeeps DEF SeedReconstructed
<1>. QED
  BY <1>2, <1>3

LEMMA NextSwapInv == SwapInv /\ [SwapNext]_allVars => SwapInv'
<1>. SUFFICES ASSUME SwapInv, [SwapNext]_allVars PROVE SwapInv'
  OBVIOUS
<1>1. CASE ExchangeCall
  BY <1>1, InitiateKeeps, GetSignatureKeeps, StoreSignatureKeeps, CloseKeeps
  DEF ExchangeCall
<1>2. ASSUME NEW app \in Apps, GetPublicKey(app) PROVE SwapInv'
  BY <1>2, StartKeeps DEF GetPublicKey
<1>3. ASSUME NEW app \in Apps, SignTxn(app) PROVE SwapInv'
  BY <1>3, StartKeeps DEF SignTxn
<1>4. CASE CallAborted
  BY <1>4, EndedKeeps DEF CallAborted, EndCall
<1>5. ASSUME NEW c \in Cards, SeedLocks(c) PROVE SwapInv'
  BY <1>5, EndedKeeps DEF SeedLocks, EndCall
<1>6. CASE Reboot \/ \E e \in Entries : OutOfOrder(e)
  BY <1>6, RebootKeeps DEF OutOfOrder
<1>7. CASE UNCHANGED swapVars
  BY <1>7 DEF swapVars, SwapInv, QueueTyped, QueueFits, CallFits, ContextFits,
              ChecksOwnSignature, SwapsCount
<1>8. OtherVaultStep \/ UnlockingStep \/ UseStep \/ UNCHANGED allVars => UNCHANGED swapVars
  BY DEF OtherVaultStep, UnlockingStep, UseStep, allVars
<1>9. CoinCall => SwapInv'
  BY <1>2, <1>3, <1>4, <1>5, VerifyReceiverKeeps, UserVerifiedKeeps, SeedReconstructedKeeps, Zenon
  DEF CoinCall
<1>. QED
  BY <1>1, <1>6, <1>7, <1>8, <1>9, Zenon DEF SwapNext

-----------------------------------------------------------------------------
(* A call that runs holds the main thread and an unlocked wallet. *)

LEMMA CoinCallUnlocked == CallsUnlocked /\ CoinCall => CallsUnlocked'
<1>. SUFFICES ASSUME CallsUnlocked, CoinCall PROVE CallsUnlocked'
  OBVIOUS
<1>. USE DEF CallsUnlocked, vars, flash
<1>1. ASSUME NEW app, NEW kind, NEW stage, NEW heeds, StartCall(kind, stage, app, heeds)
      PROVE  CallsUnlocked'
  BY <1>1 DEF StartCall, Free
<1>2. CASE \E app \in Apps : GetPublicKey(app) \/ SignTxn(app)
  BY <1>1, <1>2 DEF GetPublicKey, SignTxn
<1>3. CASE CallAborted \/ SeedReconstructed \/ \E c \in Cards : SeedLocks(c)
  BY <1>3 DEF CallAborted, SeedReconstructed, SeedLocks, EndCall
<1>4. CASE VerifyReceiver \/ UserVerified
  BY <1>4, NoCallFields DEF VerifyReceiver, UserVerified
<1>. QED
  BY <1>2, <1>3, <1>4 DEF CoinCall

LEMMA NextCallsUnlocked == CallsUnlocked /\ [SwapNext]_allVars => CallsUnlocked'
<1>. SUFFICES ASSUME CallsUnlocked, [SwapNext]_allVars PROVE CallsUnlocked'
  OBVIOUS
<1>. USE DEF CallsUnlocked, vars, flash, swapVars
<1>1. CASE ExchangeCall
  BY <1>1 DEF ExchangeCall, InitiateFlow, GetSignature, StoreSignature, CloseFlow
<1>2. CASE CoinCall
  BY <1>2, CoinCallUnlocked
<1>3. CASE Reboot \/ \E e \in Entries : OutOfOrder(e)
  BY <1>3 DEF OutOfOrder, Reboot
<1>4. CASE OtherVaultStep
  BY <1>4 DEF OtherVaultStep, OtherVault
<1>5. CASE UnlockingStep \/ UseStep
  BY <1>5 DEF UnlockingStep, UseStep, Free
<1>6. CASE UNCHANGED allVars
  BY <1>6 DEF allVars
<1>. QED
  BY <1>1, <1>2, <1>3, <1>4, <1>5, <1>6, Zenon DEF SwapNext

-----------------------------------------------------------------------------
(* The theorems. *)

THEOREM SwapInvariant == SwapSafety => []SwapInv
<1>1. QED
  BY InitSwapInv, NextSwapInv, PTL DEF SwapSafety

(* The queue, the context and the calls keep their types, and those of the *)
(* unlocking with them.                                                    *)
THEOREM SwapTypeCorrect == SwapSafety => []SwapTypeOK
<1>1. SwapInv /\ UnlockInv => SwapTypeOK
  BY DEF SwapInv, UnlockInv, SwapTypeOK, QueueTyped, CallFits, ContextFits, SwapsCount
<1>. QED
  BY <1>1, SwapInvariant, SwapsKeepUnlocking, UnlockInvariant, PTL

(* A send that is checked in a swap finds its server's signature, or none. *)
THEOREM SendChecksItsSwap == SwapSafety => []ChecksOwnSignature
<1>1. SwapInv => ChecksOwnSignature
  BY DEF SwapInv, ContextFits
<1>. QED
  BY <1>1, SwapInvariant, PTL

(* The signature of a receive address waits for its fetch. *)
THEOREM ReceiveIsFetched == SwapSafety => []FetchFindsOwn
<1>1. SwapInv => FetchFindsOwn
  <2>. SUFFICES ASSUME SwapInv, current # 0, signed = current,
                       Heads(Entry(Exchange, "fetch"))
                PROVE  context = Signature("vault", current)
    BY DEF FetchFindsOwn
  <2>1. QueueTyped /\ QueueFits
    BY DEF SwapInv
  <2>. DEFINE n == Len(queue)
  <2>2. n \in 0 .. 4
    BY <2>1, QueueLength
  <2>3. n > 0 /\ Due(n) = "fetch"
    <3>1. queue # <<>> /\ queue[1].tag = "fetch"
      BY <2>1 DEF Heads, Entry, QueueTyped
    <3>2. Len(queue) \in Nat \ {0}
      BY <2>1, <3>1 DEF QueueTyped
    <3>3. queue[1].tag = Due(Len(queue) - 1 + 1)
      BY <2>1, <3>2 DEF QueueFits
    <3>. QED
      BY <3>1, <3>2, <3>3
  <2>. HIDE DEF n
  <2>4. n = 3
    BY <2>2, <2>3, DueFacts
  <2>. QED
    BY <2>4 DEF n, SwapInv, ContextFits
<1>. QED
  BY <1>1, SwapInvariant, PTL

(* No call of a coin app runs beside the unlocking or on a locked wallet.  *)
THEOREM CallsRunUnlocked == SwapSafety => []CallsUnlocked
<1>1. SwapInit => CallsUnlocked
  BY DEF SwapInit, CallsUnlocked
<1>. QED
  BY <1>1, NextCallsUnlocked, PTL DEF SwapSafety

(* What WalletUnlock promises of the search holds with the swaps, too.     *)
THEOREM SwapsKeepTheSearch ==
  SwapSafety => [](NoSolutionSkipped /\ AnswerSolves) /\ UnlockedByCard
<1>1. UnlockInv => NoSolutionSkipped /\ AnswerSolves
  BY DEF UnlockInv
<1>. QED
  BY <1>1, SwapsKeepUnlocking, UnlockInvariant, OnlyTheCardUnlocks, PTL
=============================================================================
