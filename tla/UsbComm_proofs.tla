---------------------------- MODULE UsbComm_proofs ----------------------------
(***************************************************************************)
(* Theorems about UsbComm: type correctness; that a command received is    *)
(* never left without its event when the host sends no requests that the   *)
(* core answers, whatever else happens; and that for a host that neither   *)
(* aborts nor repeats events are intact, outputs go to their commands, and *)
(* apps start on each command at most once.                                *)
(***************************************************************************)
EXTENDS UsbComm, TLAPS

(* The host has begun a command before it sends one. *)
HostNumbered == hphase # "idle" => hseq # 0

TypeInv == TypeOK /\ HostNumbered

(* No event is of a request to the core: none was sent, and what the core  *)
(* would answer is not in the buffer.                                      *)
NothingForCore ==
    /\ pc # "core_reset"
    /\ buf[1].from # "core"
    /\ buf[1].from = "host" => buf[1].seq # 0

(* Where the main loop relies on an event it saw, or on none being lost.   *)
EventHeld ==
    /\ pc = "take" => evt
    /\ pc = "clear_state" /\ ~bufFree => evt

(* The inductive invariant behind NeverStuck. *)
StuckInv == TypeInv /\ NothingForCore /\ EventHeld /\ NeverStuck

USE BoundsAssumption DEF Seqs, Chunks

-----------------------------------------------------------------------------
(* Type correctness.                                                       *)

LinkOK ==
    /\ bufFree \in BOOLEAN /\ evt \in BOOLEAN /\ msg \in BOOLEAN
    /\ state \in CmdStates
    /\ seq \in 0..MaxSeq
    /\ chunkNo \in 0..MaxChunks
    /\ buf \in [Chunks -> Parts]

(* A part with its fields in range is a part. *)
LEMMA PartIsPart ==
    ASSUME NEW f \in {"host", "app", "core", "error"},
           NEW s \in 0..MaxSeq, NEW n \in 0..MaxChunks
    PROVE  Part(f, s, n) \in Parts
BY DEF Part, Parts

(* An output leaves the link well-typed. *)
LEMMA SendMsgTyped ==
    ASSUME TypeOK, NEW f \in {"app", "core", "error"}, NEW s \in 0..MaxSeq,
           SendMsg(f, s)
    PROVE  LinkOK'
<1>1. Part(f, s, 0) \in Parts
  BY PartIsPart
<1>2. buf' \in [Chunks -> Parts]
  BY <1>1 DEF SendMsg, TypeOK
<1>. QED
  BY <1>2 DEF SendMsg, TypeOK, LinkOK, CmdStates

(* An acknowledged chunk leaves the link well-typed and is within bounds.  *)
LEMMA AcknowledgedTyped ==
    ASSUME TypeOK, NEW s \in Seqs, NEW c \in 1..(MaxChunks + 1),
           Acknowledged(s, c)
    PROVE  LinkOK' /\ c <= MaxChunks
<1>1. cmd[s].chunks \in Chunks
  BY DEF TypeOK
<1>2. Received(s, c) \in 0..MaxChunks /\ Received(s, c) <= chunkNo
  BY DEF Received, TypeOK
<1>3. Ongoing(s, c) \in CmdStates
  BY DEF Ongoing, CmdStates
<1>4. ASSUME AppendChunk(s, c), c <= cmd[s].chunks
      PROVE  seq' \in 0..MaxSeq /\ buf' \in [Chunks -> Parts] /\ c \in Chunks
  <2>1. c \in Chunks
    BY <1>1, <1>4
  <2>2. Part("host", s, c) \in Parts
    BY <2>1, PartIsPart
  <2>. QED
    BY <2>1, <2>2, <1>4 DEF AppendChunk, TypeOK
<1>5. CASE AppendMore(s, c)
  <2>1. AppendChunk(s, c) /\ c <= cmd[s].chunks
    BY <1>5, <1>1 DEF AppendMore
  <2>. QED
    BY <2>1, <1>3, <1>4, <1>5 DEF AppendMore, TypeOK, LinkOK
<1>6. CASE AppendLast(s, c)
  <2>1. AppendChunk(s, c) /\ c <= cmd[s].chunks
    BY <1>6, <1>1 DEF AppendLast
  <2>2. seq' \in 0..MaxSeq /\ buf' \in [Chunks -> Parts] /\ c \in Chunks
    BY <2>1, <1>4
  <2>3. bufFree' \in BOOLEAN /\ evt' \in BOOLEAN /\ msg' \in BOOLEAN
    BY <1>6 DEF AppendLast, RaiseEvent
  <2>4. state' \in CmdStates /\ chunkNo' \in 0..MaxChunks
    BY <2>2, <1>6 DEF AppendLast, RaiseEvent, CmdStates
  <2>. QED
    BY <2>2, <2>3, <2>4 DEF LinkOK
<1>7. CASE Duplicate(s, c)
  <2>1. state' \in CmdStates /\ evt' \in BOOLEAN /\ msg' \in BOOLEAN
    BY <1>3, <1>7 DEF Duplicate, RaiseEvent, TypeOK, CmdStates
  <2>. QED
    BY <2>1, <1>2, <1>7 DEF Duplicate, TypeOK, LinkOK
<1>. QED
  BY <1>5, <1>6, <1>7 DEF Acknowledged

(* So does a rejected one. *)
LEMMA RejectedTyped ==
    ASSUME TypeOK, NEW s \in Seqs, NEW c \in 1..(MaxChunks + 1),
           Rejected(s, c)
    PROVE  LinkOK'
<1>1. cmd[s].chunks \in Chunks
  BY DEF TypeOK
<1>2. CASE Refused /\ UNCHANGED link
  BY <1>2 DEF link, TypeOK, LinkOK
<1>3. CASE OutOfOrder(s, c)
  BY <1>3 DEF OutOfOrder, Received, Ongoing, TypeOK, LinkOK, CmdStates
<1>4. CASE AppendMismatch(s, c)
  <2>1. c \in Chunks
    BY <1>1, <1>4 DEF AppendMismatch
  <2>2. Part("host", s, c) \in Parts
    BY <2>1, PartIsPart
  <2>3. buf' \in [Chunks -> Parts] /\ seq' \in 0..MaxSeq
    BY <2>1, <2>2, <1>4 DEF AppendMismatch, AppendChunk, TypeOK
  <2>. QED
    BY <2>3, <1>4 DEF AppendMismatch, TypeOK, LinkOK, CmdStates
<1>. QED
  BY <1>2, <1>3, <1>4 DEF Rejected

(* What an app decodes is a sequence number, or 0. *)
LEMMA QueryTyped ==
    ASSUME TypeOK
    PROVE  Query \in 0..MaxSeq
<1>1. buf[1] \in Parts
  BY DEF TypeOK
<1>. QED
  BY <1>1 DEF Query, Parts

LEMMA TypeInitially == Init => TypeInv
<1>1. Part("error", 0, 0) \in Parts
  BY PartIsPart
<1>. SUFFICES ASSUME Init PROVE TypeInv
  OBVIOUS
<1>2. buf \in [Chunks -> Parts]
  BY <1>1 DEF Init
<1>3. /\ bufFree \in BOOLEAN /\ evt \in BOOLEAN /\ msg \in BOOLEAN
      /\ usbFlow \in BOOLEAN /\ inApp \in BOOLEAN /\ error \in BOOLEAN
  BY DEF Init
<1>4. state \in CmdStates /\ pc \in Places
  BY DEF Init, CmdStates, Places
<1>5. /\ seq \in 0..MaxSeq /\ chunkNo \in 0..MaxChunks /\ job \in 0..MaxSeq
      /\ keys \in 0..MaxKeys /\ hseq \in 0..MaxSeq /\ hacked \in 0..MaxChunks
  BY DEF Init
<1>6. /\ p0 \subseteq {"abort", "inactivity"} /\ seen \subseteq {"abort", "inactivity"}
      /\ cmd \in [Seqs -> [kind : Kinds, chunks : Chunks]]
      /\ hphase \in {"idle", "send", "wait"} /\ HostNumbered
  BY DEF Init, HostNumbered
<1>. QED
  BY <1>2, <1>3, <1>4, <1>5, <1>6 DEF TypeInv, TypeOK

LEMMA TypeHost ==
    ASSUME TypeInv, Host
    PROVE  TypeInv'
<1>. USE DEF main
<1>1. CASE HostBegin
  BY <1>1 DEF HostBegin, TypeInv, TypeOK, HostNumbered, link
<1>2. CASE HostSendsChunk
  <2>1. hseq \in Seqs /\ hacked + 1 \in 1..(MaxChunks + 1)
    BY <1>2 DEF HostSendsChunk, TypeInv, TypeOK, HostNumbered
  <2>2. LinkOK' /\ hacked + 1 <= MaxChunks
    BY <1>2, <2>1, AcknowledgedTyped DEF HostSendsChunk, TypeInv
  <2>. QED
    BY <1>2, <2>1, <2>2 DEF HostSendsChunk, TypeInv, TypeOK, LinkOK, HostNumbered
<1>3. CASE HostMissesAck
  <2>1. hseq \in Seqs /\ hacked + 1 \in 1..(MaxChunks + 1)
    BY <1>3 DEF HostMissesAck, TypeInv, TypeOK, HostNumbered
  <2>2. LinkOK'
    BY <1>3, <2>1, AcknowledgedTyped DEF HostMissesAck, TypeInv
  <2>. QED
    BY <1>3, <2>2 DEF HostMissesAck, TypeInv, TypeOK, LinkOK, HostNumbered, host
<1>4. CASE HostIsRejected
  <2>1. hseq \in Seqs /\ hacked + 1 \in 1..(MaxChunks + 1)
    BY <1>4 DEF HostIsRejected, TypeInv, TypeOK, HostNumbered
  <2>2. LinkOK'
    BY <1>4, <2>1, RejectedTyped DEF HostIsRejected, TypeInv
  <2>. QED
    BY <1>4, <2>2 DEF HostIsRejected, TypeInv, TypeOK, LinkOK, HostNumbered
<1>5. CASE HostGetsOutput
  BY <1>5 DEF HostGetsOutput, TypeInv, TypeOK, HostNumbered, link
<1>6. CASE HostAborts
  <2>1. LinkOK'
    <3>1. CASE usbFlow
      <4>1. /\ bufFree' = TRUE /\ evt' = evt /\ msg' = msg
            /\ state' = "none" /\ chunkNo' = 0 /\ buf' = buf /\ seq' = hseq + 1
        BY <1>6, <3>1 DEF HostAborts, AbortPacket
      <4>2. hseq + 1 \in 0..MaxSeq
        BY <1>6 DEF HostAborts, TypeInv, TypeOK
      <4>. QED
        BY <4>1, <4>2 DEF TypeInv, TypeOK, LinkOK, CmdStates
    <3>2. CASE ~usbFlow
      BY <1>6, <3>2 DEF HostAborts, AbortPacket, link, TypeInv, TypeOK, LinkOK
    <3>. QED
      BY <3>1, <3>2
  <2>2. p0' \subseteq {"abort", "inactivity"}
    BY <1>6 DEF HostAborts, AbortPacket, TypeInv, TypeOK
  <2>. QED
    BY <1>6, <2>1, <2>2 DEF HostAborts, TypeInv, TypeOK, LinkOK, HostNumbered
<1>. QED
  BY <1>1, <1>2, <1>3, <1>4, <1>5, <1>6 DEF Host

LEMMA TypeMainLoop ==
    ASSUME TypeInv, MainLoop
    PROVE  TypeInv'
<1>. USE DEF Goto, TypeInv, HostNumbered, host
<1>1. CASE \/ HandleCoreErrors \/ TimeoutReset \/ AbortReset \/ DisplayCoreError
           \/ ScreenIgnoresP0 \/ EnterIdle \/ PollP0
  <2>. USE DEF TypeOK, link, main
  <2>1. CASE HandleCoreErrors
    BY <2>1 DEF HandleCoreErrors, Places, Clearing
  <2>2. CASE TimeoutReset
    BY <2>2 DEF TimeoutReset, Places, Clearing
  <2>3. CASE AbortReset
    BY <2>3 DEF AbortReset, Places
  <2>4. CASE DisplayCoreError
    BY <2>4 DEF DisplayCoreError, Places
  <2>5. CASE ScreenIgnoresP0
    BY <2>5 DEF ScreenIgnoresP0
  <2>6. CASE EnterIdle
    BY <2>6 DEF EnterIdle, Places
  <2>7. CASE PollP0
    BY <2>7 DEF PollP0, Places
  <2>. QED
    BY <1>1, <2>1, <2>2, <2>3, <2>4, <2>5, <2>6, <2>7
<1>2. CASE ClearEvent \/ ClearBuffer \/ ClearState \/ ResetEventObj
  <2>1. CASE ClearEvent
    BY <2>1 DEF ClearEvent, TypeOK, Places, Clearing
  <2>2. CASE ClearBuffer
    BY <2>2 DEF ClearBuffer, TypeOK, Places, Clearing
  <2>3. CASE ClearState
    BY <2>3 DEF ClearState, TypeOK, CmdStates, Places
  <2>4. CASE ResetEventObj
    BY <2>4 DEF ResetEventObj, TypeOK, Places
  <2>. QED
    BY <1>2, <2>1, <2>2, <2>3, <2>4
<1>3. CASE SendTimeout
  <2>1. LinkOK'
    BY <1>3, SendMsgTyped DEF SendTimeout, TypeOK, LinkOK, link
  <2>. QED
    BY <1>3, <2>1 DEF SendTimeout, TypeOK, LinkOK, Places
<1>4. CASE GetNothing \/ GetBad \/ GetCommand \/ DeviceFlow
  <2>1. CASE GetNothing
    BY <2>1 DEF GetNothing, UserChooses, TypeOK, link, Places
  <2>2. CASE GetBad
    BY <2>2 DEF GetBad, TypeOK, link, Places, Clearing
  <2>3. CASE GetCommand
    BY <2>3 DEF GetCommand, TypeOK, link, Places
  <2>4. CASE DeviceFlow
    BY <2>4 DEF DeviceFlow, TypeOK, link, Places
  <2>. QED
    BY <1>4, <2>1, <2>2, <2>3, <2>4
<1>5. CASE SendBad
  <2>1. LinkOK'
    BY <1>5, SendMsgTyped DEF SendBad
  <2>. QED
    BY <1>5, <2>1 DEF SendBad, TypeOK, LinkOK, Places
<1>6. CASE GetCore
  <2>1. buf[1].seq \in 0..MaxSeq
    BY DEF TypeOK, Parts
  <2>2. LinkOK'
    BY <1>6, <2>1, SendMsgTyped DEF GetCore
  <2>. QED
    BY <1>6, <2>2 DEF GetCore, TypeOK, LinkOK, Places
<1>7. CASE SetStateExecuting
  BY <1>7 DEF SetStateExecuting, UserChooses, TypeOK, CmdStates, Places
<1>8. CASE DecodeQuery
  BY <1>8, QueryTyped DEF DecodeQuery, TypeOK, link, Places
<1>9. CASE RejectQuery
  <2>1. LinkOK'
    BY <1>9, QueryTyped, SendMsgTyped DEF RejectQuery
  <2>. QED
    BY <1>9, <2>1 DEF RejectQuery, TypeOK, LinkOK, Places
<1>10. CASE Answer
  <2>1. LinkOK'
    BY <1>10, SendMsgTyped DEF Answer, TypeOK
  <2>. QED
    BY <1>10, <2>1 DEF Answer, TypeOK, LinkOK, Places
<1>11. CASE GiveUp
  BY <1>11 DEF GiveUp, TypeOK, link, Places
<1>. QED
  BY <1>1, <1>2, <1>3, <1>4, <1>5, <1>6, <1>7, <1>8, <1>9, <1>10, <1>11 DEF MainLoop

LEMMA TypeStep ==
    ASSUME TypeInv, [Next]_vars
    PROVE  TypeInv'
<1>1. CASE UserDismisses
  BY <1>1 DEF UserDismisses, Goto, TypeInv, TypeOK, HostNumbered, link, host, Places
<1>2. CASE Inactivity
  BY <1>2 DEF Inactivity, TypeInv, TypeOK, HostNumbered, link, main, host
<1>3. CASE UNCHANGED vars
  BY <1>3 DEF vars, link, main, host, TypeInv, TypeOK, HostNumbered
<1>. QED
  BY <1>1, <1>2, <1>3, TypeHost, TypeMainLoop DEF Next

THEOREM TypeInvariance == Spec => []TypeInv
BY TypeInitially, TypeStep, PTL DEF Spec

(* Every variable of the link, the main loop and the host keeps its type. *)
THEOREM UsbTypeCorrect == Spec => []TypeOK
BY TypeInvariance, PTL DEF TypeInv

-----------------------------------------------------------------------------
(* A command received is never left without its event.                     *)

LEMMA StuckInitially == Init => StuckInv
<1>. SUFFICES ASSUME Init PROVE NothingForCore /\ EventHeld /\ NeverStuck
  BY TypeInitially DEF StuckInv
<1>2. buf[1] = Part("error", 0, 0)
  BY DEF Init
<1>3. NothingForCore
  BY <1>2 DEF Init, NothingForCore, Part
<1>. QED
  BY <1>3 DEF Init, EventHeld, NeverStuck

(* The head of the buffer after a chunk, an output and nothing at all. *)
LEMMA HeadAfterChunk ==
    ASSUME TypeInv, NothingForCore, hphase = "send",
           Acknowledged(hseq, hacked + 1) \/ Rejected(hseq, hacked + 1)
    PROVE  buf'[1].from # "core" /\ (buf'[1].from = "host" => buf'[1].seq # 0)
<1>1. hseq # 0 /\ 1 \in Chunks /\ buf \in [Chunks -> Parts]
  BY DEF TypeInv, TypeOK, HostNumbered
<1>2. CASE AppendChunk(hseq, hacked + 1)
  BY <1>1, <1>2 DEF AppendChunk, Part, NothingForCore
<1>3. CASE buf' = buf
  BY <1>3 DEF NothingForCore
<1>. QED
  BY <1>2, <1>3 DEF Acknowledged, Rejected, AppendMore, AppendLast, Duplicate,
                    OutOfOrder, AppendMismatch, link

LEMMA HeadAfterOutput ==
    ASSUME TypeInv, NEW f \in {"app", "error"}, NEW s, SendMsg(f, s)
    PROVE  buf'[1].from \notin {"core", "host"}
BY DEF TypeInv, TypeOK, SendMsg, Part

(* Nothing a chunk does leaves a command without an event. *)
LEMMA ChunkNeverStuck ==
    ASSUME TypeInv, EventHeld, NeverStuck, pc' = pc,
           Acknowledged(hseq, hacked + 1) \/ Rejected(hseq, hacked + 1)
    PROVE  EventHeld' /\ NeverStuck'
<1>1. CASE evt' = TRUE
  BY <1>1 DEF EventHeld, NeverStuck
<1>2. CASE evt' = evt /\ bufFree' = bufFree /\ ~Refused
           /\ state' \in {"none", "receiving"}
  BY <1>2 DEF EventHeld, NeverStuck, Refused
<1>3. CASE UNCHANGED link
  BY <1>3 DEF link, EventHeld, NeverStuck
<1>. QED
  BY <1>1, <1>2, <1>3 DEF Acknowledged, Rejected, AppendMore, AppendLast, Duplicate,
       OutOfOrder, AppendMismatch, RaiseEvent, Ongoing

LEMMA StuckHost ==
    ASSUME StuckInv, Host
    PROVE  NothingForCore' /\ EventHeld' /\ NeverStuck'
<1>. USE DEF StuckInv
<1>1. CASE HostSendsChunk \/ HostMissesAck \/ HostIsRejected
  <2>1. /\ hphase = "send" /\ pc' = pc
        /\ Acknowledged(hseq, hacked + 1) \/ Rejected(hseq, hacked + 1)
    BY <1>1 DEF HostSendsChunk, HostMissesAck, HostIsRejected, main
  <2>. QED
    BY <2>1, HeadAfterChunk, ChunkNeverStuck DEF NothingForCore
<1>2. CASE HostBegin \/ HostGetsOutput
  BY <1>2 DEF HostBegin, HostGetsOutput, link, main, NothingForCore, EventHeld, NeverStuck
<1>3. CASE HostAborts
  <2>1. CASE usbFlow
    BY <1>3, <2>1 DEF HostAborts, AbortPacket, main, NothingForCore, EventHeld, NeverStuck
  <2>2. CASE ~usbFlow
    BY <1>3, <2>2 DEF HostAborts, AbortPacket, link, main, NothingForCore, EventHeld,
                      NeverStuck
  <2>. QED
    BY <2>1, <2>2
<1>. QED
  BY <1>1, <1>2, <1>3 DEF Host

LEMMA StuckMainLoop ==
    ASSUME "core" \notin Kinds, StuckInv, MainLoop
    PROVE  NothingForCore' /\ EventHeld' /\ NeverStuck'
<1>. USE DEF StuckInv, Goto
<1>1. CASE \/ HandleCoreErrors \/ TimeoutReset \/ AbortReset \/ DisplayCoreError
           \/ ScreenIgnoresP0 \/ EnterIdle \/ PollP0 \/ GetBad \/ DeviceFlow
           \/ DecodeQuery \/ GiveUp
  <2>1. /\ UNCHANGED link /\ pc \notin Clearing
        /\ pc' \notin {"core_reset", "take", "clear_state"}
    BY <1>1 DEF HandleCoreErrors, TimeoutReset, AbortReset, DisplayCoreError,
         ScreenIgnoresP0, EnterIdle, PollP0, GetBad, DeviceFlow, DecodeQuery, GiveUp,
         main, Clearing
  <2>. QED
    BY <2>1 DEF link, NothingForCore, EventHeld, NeverStuck
<1>2. CASE ClearEvent
  BY <1>2 DEF ClearEvent, NothingForCore, EventHeld, NeverStuck, Clearing
<1>3. CASE ClearBuffer
  BY <1>3 DEF ClearBuffer, NothingForCore, EventHeld, NeverStuck, Clearing
<1>4. CASE ClearState
  BY <1>4 DEF ClearState, NothingForCore, EventHeld, NeverStuck, Clearing
<1>5. CASE SendTimeout \/ SendBad \/ RejectQuery \/ Answer
  <2>1. CASE \E f \in {"app", "error"}, s \in 0..MaxSeq : SendMsg(f, s)
    <3>1. bufFree' = TRUE /\ state' = "done"
      BY <2>1 DEF SendMsg
    <3>2. buf'[1].from \notin {"core", "host"}
      BY <2>1, HeadAfterOutput
    <3>3. pc' \notin {"core_reset", "take"}
      BY <1>5 DEF SendTimeout, SendBad, RejectQuery, Answer
    <3>. QED
      BY <3>1, <3>2, <3>3 DEF NothingForCore, EventHeld, NeverStuck
  <2>2. CASE SendTimeout /\ UNCHANGED link
    BY <2>2 DEF SendTimeout, link, NothingForCore, EventHeld, NeverStuck, Clearing
  <2>3. Query \in 0..MaxSeq /\ job \in 0..MaxSeq /\ 0 \in 0..MaxSeq
    BY QueryTyped DEF TypeInv, TypeOK
  <2>. QED
    BY <1>5, <2>1, <2>2, <2>3 DEF SendTimeout, SendBad, RejectQuery, Answer
<1>6. CASE GetNothing \/ GetCommand
  BY <1>6 DEF GetNothing, GetCommand, UserChooses, link, NothingForCore, EventHeld,
              NeverStuck, Clearing
<1>7. CASE SetStateExecuting
  BY <1>7 DEF SetStateExecuting, UserChooses, NothingForCore, EventHeld, NeverStuck
<1>8. ~ResetEventObj
  BY DEF ResetEventObj, NothingForCore
<1>9. ~GetCore
  <2>1. ASSUME Decodes("core") PROVE FALSE
    <3>. buf[1].from \in {"host", "app", "error"}
      BY DEF NothingForCore, TypeInv, TypeOK, Parts
    <3>. msg
      BY <2>1 DEF Decodes
    <3>1. buf[1].from = "host" /\ cmd[buf[1].seq].kind = "core"
      BY <2>1 DEF Decodes
    <3>2. buf[1].seq \in Seqs
      BY <3>1 DEF NothingForCore, TypeInv, TypeOK, Parts
    <3>. QED
      BY <3>1, <3>2 DEF TypeInv, TypeOK
  <2>. QED
    BY <2>1 DEF GetCore
<1>. QED
  BY <1>1, <1>2, <1>3, <1>4, <1>5, <1>6, <1>7, <1>8, <1>9 DEF MainLoop

LEMMA StuckStep ==
    ASSUME "core" \notin Kinds, StuckInv, [Next]_vars
    PROVE  StuckInv'
<1>1. TypeInv'
  BY TypeStep DEF StuckInv
<1>2. CASE UserDismisses
  BY <1>1, <1>2 DEF UserDismisses, Goto, link, StuckInv, NothingForCore, EventHeld,
                    NeverStuck, Clearing
<1>3. CASE Inactivity \/ UNCHANGED vars
  BY <1>1, <1>3 DEF Inactivity, vars, link, main, StuckInv, NothingForCore, EventHeld,
                    NeverStuck
<1>. QED
  BY <1>1, <1>2, <1>3, StuckHost, StuckMainLoop DEF Next, StuckInv

(* Aborts, lost acknowledgements, timeouts, malformed and half-received    *)
(* commands and the user never leave a command without its event, if none  *)
(* is a request that the core answers.                                     *)
THEOREM NeverStuckWithoutCoreRequests ==
    ASSUME "core" \notin Kinds
    PROVE  Spec => []NeverStuck
<1>1. StuckInv /\ [Next]_vars => StuckInv'
  BY StuckStep
<1>2. StuckInv => NeverStuck
  BY DEF StuckInv
<1>. QED
  BY <1>1, <1>2, StuckInitially, PTL DEF Spec

-----------------------------------------------------------------------------
(***************************************************************************)
(* A host that neither aborts nor repeats, against the main loop, timeouts *)
(* and the user.                                                           *)
(***************************************************************************)
QuietHost == ~Aborts /\ ~Duplicates

NoAbort == "abort" \notin p0 /\ "abort" \notin seen

(* Main-loop places at which a command is in the buffer. *)
Busy == {"take", "decode", "work", "clear_event", "clear_buffer"}

(* Only while the host waits is a command on its way through the main loop. *)
HostAndLoop ==
    /\ hphase # "wait" => /\ bufFree /\ ~evt
                          /\ state \notin {"received", "executing"}
                          /\ pc \notin Busy \cup {"clear_state", "bad"}
    /\ hphase = "wait" => seq = hseq

(* A command half sent lies in the buffer, but for its head, which an      *)
(* error may have overwritten.                                             *)
HalfSent ==
    hphase = "send" =>
        /\ job < hseq
        /\ hacked < cmd[hseq].chunks
        /\ hacked > 0 => /\ seq = hseq /\ chunkNo = hacked
                         /\ buf[1] = Part("host", hseq, 1) \/ buf[1].from = "error"
                         /\ \A i \in 2..hacked : buf[i] = Part("host", hseq, i)

(* A buffer that is not free holds the command the host waits on. *)
Occupied ==
    /\ ~bufFree => Whole(hseq) /\ state \in {"received", "executing"}
    /\ evt => ~bufFree

(* What the main loop relies on between two steps. *)
LoopHolds ==
    /\ pc \in Busy => ~bufFree
    /\ pc \in {"take", "decode"} => evt
    /\ pc \in {"clear_state", "bad"} => bufFree /\ ~evt /\ state # "done"
    /\ pc = "clear_buffer" => ~evt
    /\ pc = "work" => job = hseq /\ usbFlow

(* A command whose event is still pending after an app started on it will  *)
(* be answered with a timeout before anything is polled.                   *)
Started ==
    /\ job <= hseq
    /\ evt /\ job = hseq =>
         \/ pc = "work"
         \/ pc = "menu" /\ "inactivity" \in p0 /\ usbFlow
         \/ pc = "timeout" /\ usbFlow

(* The inductive invariant of the exchange. *)
ExchangeInv ==
    /\ TypeInv /\ NoAbort /\ HostAndLoop /\ HalfSent /\ Occupied /\ LoopHolds
    /\ Started /\ OutputOfItsCommand

LEMMA ExchangeInitially == Init => ExchangeInv
<1>. SUFFICES ASSUME Init PROVE ExchangeInv
  OBVIOUS
<1>1. NoAbort /\ HostAndLoop /\ HalfSent
  BY DEF Init, NoAbort, HostAndLoop, HalfSent, Busy
<1>2. Occupied /\ LoopHolds /\ Started /\ OutputOfItsCommand
  BY DEF Init, Occupied, LoopHolds, Busy, Started, OutputOfItsCommand
<1>. QED
  BY <1>1, <1>2, TypeInitially DEF ExchangeInv

(* A chunk is the next one, and completes the command only if all of it is *)
(* there.                                                                  *)
LEMMA NextChunk ==
    ASSUME ExchangeInv, hphase = "send"
    PROVE  /\ Received(hseq, hacked + 1) = hacked
           /\ ~Refused
           /\ hseq \in Seqs /\ hacked \in Nat
           /\ cmd[hseq].chunks \in Chunks
<1>1. hseq \in Seqs /\ hacked \in Nat
  BY DEF ExchangeInv, TypeInv, TypeOK, HostNumbered
<1>2. cmd[hseq].chunks \in Chunks
  BY <1>1 DEF ExchangeInv, TypeInv, TypeOK
<1>3. ~Refused
  BY DEF Refused, ExchangeInv, HostAndLoop
<1>4. Received(hseq, hacked + 1) = hacked
  <2>1. CASE hacked = 0
    BY <2>1 DEF Received, Fresh
  <2>2. CASE hacked > 0
    BY <1>1, <2>2 DEF Received, Fresh, ExchangeInv, HalfSent
  <2>. QED
    BY <1>1, <2>1, <2>2
<1>. QED
  BY <1>1, <1>2, <1>3, <1>4

(* The parts of the command in the buffer after its next chunk. *)
LEMMA PartsSoFar ==
    ASSUME ExchangeInv, hphase = "send", AppendChunk(hseq, hacked + 1),
           hacked + 1 \in Chunks
    PROVE  /\ \A i \in 2..(hacked + 1) : buf'[i] = Part("host", hseq, i)
           /\ buf'[1] = Part("host", hseq, 1) \/ buf'[1].from = "error"
           /\ hacked = 0 => buf'[1] = Part("host", hseq, 1)
<1>1. hacked \in Nat /\ buf \in [Chunks -> Parts]
  BY DEF ExchangeInv, TypeInv, TypeOK
<1>2. buf' = [buf EXCEPT ![hacked + 1] = Part("host", hseq, hacked + 1)]
  BY DEF AppendChunk
<1>3. \A i \in 2..hacked : buf[i] = Part("host", hseq, i)
  BY <1>1 DEF ExchangeInv, HalfSent
<1>4. ASSUME NEW i \in 2..(hacked + 1) PROVE buf'[i] = Part("host", hseq, i)
  <2>1. i \in Chunks
    BY <1>1
  <2>2. CASE i = hacked + 1
    BY <1>1, <1>2, <2>1, <2>2
  <2>3. CASE i # hacked + 1
    BY <1>1, <1>2, <1>3, <2>1, <2>3
  <2>. QED
    BY <2>2, <2>3
<1>5. CASE hacked = 0
  BY <1>1, <1>2, <1>4, <1>5
<1>6. CASE hacked # 0
  <2>1. buf[1] = Part("host", hseq, 1) \/ buf[1].from = "error"
    BY <1>1, <1>6 DEF ExchangeInv, HalfSent
  <2>2. buf'[1] = buf[1]
    BY <1>1, <1>2, <1>6
  <2>. QED
    BY <1>4, <1>6, <2>1, <2>2
<1>. QED
  BY <1>5, <1>6

LEMMA ExchangeChunk ==
    ASSUME QuietHost, ExchangeInv, HostSendsChunk
    PROVE  HostAndLoop' /\ HalfSent' /\ Occupied' /\ LoopHolds' /\ Started'
           /\ OutputOfItsCommand'
<1>. USE DEF HostSendsChunk, main
<1>1. /\ Received(hseq, hacked + 1) = hacked /\ ~Refused
      /\ hseq \in Seqs /\ hacked \in Nat /\ cmd[hseq].chunks \in Chunks
  BY NextChunk
<1>2. ~Duplicate(hseq, hacked + 1)
  BY <1>1 DEF Duplicate
<1>3. bufFree /\ ~evt /\ pc \notin Busy \cup {"clear_state", "bad"} /\ job < hseq
  BY DEF ExchangeInv, HostAndLoop, HalfSent
<1>4. pc' = pc /\ job' = job /\ hseq' = hseq /\ cmd' = cmd /\ hacked' = hacked + 1
  OBVIOUS
<1>5. job \in Nat
  BY DEF ExchangeInv, TypeInv, TypeOK
<1>6. LoopHolds' /\ Started'
  BY <1>1, <1>3, <1>4, <1>5 DEF LoopHolds, Busy, Started
<1>7. CASE AppendMore(hseq, hacked + 1)
  <2>1. /\ AppendChunk(hseq, hacked + 1) /\ hacked + 1 \in Chunks
        /\ hacked + 1 < cmd[hseq].chunks /\ hphase' = "send"
        /\ chunkNo' = hacked + 1 /\ seq' = hseq /\ bufFree' = bufFree /\ evt' = evt
    BY <1>1, <1>7 DEF AppendMore, AppendChunk
  <2>2. state' \in {"none", "receiving"}
    BY <1>7 DEF AppendMore, Ongoing
  <2>3. HalfSent'
    BY <1>1, <1>3, <1>4, <2>1, PartsSoFar DEF HalfSent
  <2>4. HostAndLoop' /\ Occupied' /\ OutputOfItsCommand'
    BY <1>3, <1>4, <2>1, <2>2 DEF HostAndLoop, Occupied, OutputOfItsCommand
  <2>. QED
    BY <1>6, <2>3, <2>4
<1>8. CASE AppendLast(hseq, hacked + 1)
  <2>1. /\ AppendChunk(hseq, hacked + 1) /\ hacked + 1 \in Chunks
        /\ hacked + 1 = cmd[hseq].chunks /\ hphase' = "wait"
        /\ LengthsFit(buf', hacked + 1)
        /\ seq' = hseq /\ ~bufFree' /\ state' = "received"
    BY <1>1, <1>8 DEF AppendLast, AppendChunk, RaiseEvent
  <2>2. buf'[1].from # "error"
    BY <2>1 DEF LengthsFit
  <2>3. \A i \in 1..(hacked + 1) : buf'[i] = Part("host", hseq, i)
    BY <1>1, <2>1, <2>2, PartsSoFar
  <2>4. Whole(hseq)'
    BY <1>1, <1>4, <2>1, <2>3 DEF Whole
  <2>5. HostAndLoop' /\ HalfSent' /\ Occupied' /\ OutputOfItsCommand'
    BY <1>4, <2>1, <2>4 DEF HostAndLoop, HalfSent, Occupied, OutputOfItsCommand,
                            OutputReady
  <2>. QED
    BY <1>6, <2>5
<1>. QED
  BY <1>2, <1>7, <1>8 DEF Acknowledged

LEMMA ExchangeHost ==
    ASSUME QuietHost, ExchangeInv, Host
    PROVE  HostAndLoop' /\ HalfSent' /\ Occupied' /\ LoopHolds' /\ Started'
           /\ OutputOfItsCommand'
<1>1. hseq \in Nat /\ job \in Nat /\ job <= hseq
  BY DEF ExchangeInv, TypeInv, TypeOK, Started
<1>2. CASE HostBegin
  <2>1. /\ bufFree /\ ~evt /\ state \notin {"received", "executing"}
        /\ pc \notin Busy \cup {"clear_state", "bad"}
    BY <1>2 DEF HostBegin, ExchangeInv, HostAndLoop
  <2>2. /\ UNCHANGED <<link, main, cmd>>
        /\ hseq' = hseq + 1 /\ hphase' = "send" /\ hacked' = 0 /\ hseq' \in Seqs
    BY <1>1, <1>2 DEF HostBegin, ExchangeInv, TypeInv, TypeOK
  <2>3. cmd[hseq'].chunks \in Chunks
    BY <2>2 DEF ExchangeInv, TypeInv, TypeOK
  <2>4. HalfSent' /\ Started'
    BY <1>1, <2>1, <2>2, <2>3 DEF HalfSent, Started, link, main
  <2>5. HostAndLoop' /\ Occupied' /\ LoopHolds' /\ OutputOfItsCommand'
    BY <2>1, <2>2 DEF HostAndLoop, Occupied, LoopHolds, Busy, OutputOfItsCommand, link, main
  <2>. QED
    BY <2>4, <2>5
<1>3. CASE HostSendsChunk
  BY <1>3, ExchangeChunk
<1>4. CASE HostIsRejected
  <2>1. /\ hphase = "send" /\ hphase' = "send" /\ hacked' = 0
        /\ UNCHANGED <<main, cmd, hseq>> /\ Rejected(hseq, hacked + 1)
    BY <1>4 DEF HostIsRejected
  <2>2. ~Refused /\ ~OutOfOrder(hseq, hacked + 1) /\ cmd[hseq].chunks \in Chunks
    BY <2>1, NextChunk DEF OutOfOrder
  <2>3. state' = "none" /\ bufFree' = bufFree /\ evt' = evt
    BY <2>1, <2>2 DEF Rejected, AppendMismatch
  <2>4. /\ bufFree /\ ~evt /\ job < hseq
        /\ pc \notin Busy \cup {"clear_state", "bad"}
    BY <2>1 DEF ExchangeInv, HostAndLoop, HalfSent
  <2>5. HalfSent' /\ Started'
    BY <1>1, <2>1, <2>2, <2>3, <2>4 DEF HalfSent, Started, main
  <2>6. HostAndLoop' /\ Occupied' /\ LoopHolds' /\ OutputOfItsCommand'
    BY <2>1, <2>3, <2>4 DEF HostAndLoop, Occupied, LoopHolds, Busy, OutputOfItsCommand, main
  <2>. QED
    BY <2>5, <2>6
<1>5. CASE HostGetsOutput
  <2>1. /\ hphase = "wait" /\ hphase' = "idle" /\ state = "done"
        /\ UNCHANGED <<link, p0, usbFlow, main, cmd, hseq>>
    BY <1>5 DEF HostGetsOutput, OutputReady
  <2>2. bufFree /\ ~evt
    BY <2>1 DEF ExchangeInv, Occupied
  <2>3. pc \notin Busy \cup {"clear_state", "bad"}
    BY <2>1, <2>2 DEF ExchangeInv, LoopHolds
  <2>4. HalfSent' /\ Started' /\ OutputOfItsCommand'
    BY <1>1, <2>1, <2>2 DEF HalfSent, Started, OutputOfItsCommand, link, main
  <2>5. HostAndLoop' /\ Occupied' /\ LoopHolds'
    BY <2>1, <2>2, <2>3 DEF HostAndLoop, Occupied, LoopHolds, Busy, link, main
  <2>. QED
    BY <2>4, <2>5
<1>6. ~HostMissesAck /\ ~HostAborts
  BY DEF QuietHost, HostMissesAck, HostAborts
<1>. QED
  BY <1>2, <1>3, <1>4, <1>5, <1>6 DEF Host

(* A step of the main loop that leaves the link and the job alone. *)
LEMMA LinkUntouched ==
    ASSUME ExchangeInv, UNCHANGED <<link, host, cmd, job>>
    PROVE  HalfSent' /\ Occupied' /\ OutputOfItsCommand'
BY DEF ExchangeInv, link, host, HalfSent, Occupied, Whole, OutputOfItsCommand, OutputReady

(* The host waits as long as a command is in the buffer or being cleared. *)
LEMMA HostWaits ==
    ASSUME ExchangeInv, pc \in Busy \cup {"clear_state", "bad"} \/ ~bufFree \/ evt
    PROVE  hphase = "wait" /\ seq = hseq /\ hseq \in Seqs
BY DEF ExchangeInv, HostAndLoop, TypeInv, TypeOK, HostNumbered

(* An output overwrites the command: the head of what is half sent is an   *)
(* error then, and what the host waits on is answered.                     *)
LEMMA OutputSent ==
    ASSUME ExchangeInv, UNCHANGED <<host, cmd, job>>,
           NEW f \in {"app", "core", "error"}, NEW s \in 0..MaxSeq, SendMsg(f, s),
           hphase # "wait" => f = "error" /\ pc' \notin Busy \cup {"clear_state", "bad"},
           hphase = "wait" => f = "error" \/ s = hseq
    PROVE  HostAndLoop' /\ HalfSent' /\ Occupied' /\ OutputOfItsCommand'
<1>1. buf \in [Chunks -> Parts] /\ hacked \in Nat
  BY DEF ExchangeInv, TypeInv, TypeOK
<1>2. buf' = [buf EXCEPT ![1] = Part(f, s, 0)] /\ 1 \in Chunks
  BY DEF SendMsg
<1>3. buf'[1] = Part(f, s, 0) /\ \A i \in Chunks \ {1} : buf'[i] = buf[i]
  BY <1>1, <1>2
<1>4. HostAndLoop'
  BY DEF HostAndLoop, SendMsg, ExchangeInv, host
<1>5. Occupied'
  BY DEF Occupied, SendMsg
<1>6. OutputOfItsCommand'
  BY <1>3 DEF OutputOfItsCommand, OutputReady, Part, host
<1>7. HalfSent'
  <2>1. SUFFICES ASSUME hphase = "send" PROVE HalfSent'
    BY DEF HalfSent, host
  <2>2. buf'[1].from = "error"
    BY <1>3, <2>1 DEF Part
  <2>3. \A i \in 2..hacked : i \in Chunks \ {1}
    BY <1>1 DEF ExchangeInv, TypeInv, TypeOK
  <2>. QED
    BY <1>3, <2>1, <2>2, <2>3 DEF HalfSent, ExchangeInv, SendMsg, host
<1>. QED
  BY <1>4, <1>5, <1>6, <1>7

LEMMA ExchangeMainLoop ==
    ASSUME QuietHost, ExchangeInv, MainLoop
    PROVE  NoAbort' /\ HostAndLoop' /\ HalfSent' /\ Occupied' /\ LoopHolds' /\ Started'
           /\ OutputOfItsCommand'
<1>. USE DEF Goto
<1>1. CASE HandleCoreErrors
  <2>1. /\ UNCHANGED <<link, p0, usbFlow, job, host, cmd>> /\ pc = "menu" /\ seen' = p0
        /\ pc' = IF "inactivity" \in p0 THEN "timeout" ELSE "display"
    BY <1>1 DEF HandleCoreErrors, ExchangeInv, NoAbort
  <2>2. NoAbort' /\ HostAndLoop' /\ LoopHolds' /\ Started'
    BY <2>1 DEF ExchangeInv, NoAbort, HostAndLoop, LoopHolds, Started, Busy, link, host
  <2>. QED
    BY <2>1, <2>2, LinkUntouched
<1>2. CASE \/ TimeoutReset \/ AbortReset \/ DisplayCoreError \/ ScreenIgnoresP0
           \/ EnterIdle \/ GetNothing \/ DeviceFlow
  <2>1. /\ UNCHANGED <<link, job, host, cmd>> /\ p0' \subseteq p0 /\ seen' \subseteq seen
        /\ pc \notin {"work", "menu", "timeout"}
        /\ pc' \notin Busy \cup {"clear_state", "bad", "work"}
    BY <1>2 DEF TimeoutReset, AbortReset, DisplayCoreError, ScreenIgnoresP0, EnterIdle,
         GetNothing, UserChooses, DeviceFlow, main, Busy, ExchangeInv, NoAbort
  <2>2. NoAbort' /\ HostAndLoop' /\ LoopHolds' /\ Started'
    BY <2>1 DEF ExchangeInv, NoAbort, HostAndLoop, LoopHolds, Started, Busy, link, host
  <2>. QED
    BY <2>1, <2>2, LinkUntouched
<1>3. CASE PollP0
  <2>1. /\ UNCHANGED <<link, job, host, cmd, seen>> /\ p0' \subseteq p0
        /\ pc = "poll" /\ pc' \in {"get", "menu"}
    BY <1>3 DEF PollP0
  <2>2. NoAbort' /\ HostAndLoop' /\ LoopHolds' /\ Started'
    BY <2>1 DEF ExchangeInv, NoAbort, HostAndLoop, LoopHolds, Started, Busy, link, host
  <2>. QED
    BY <2>1, <2>2, LinkUntouched
<1>4. CASE GetBad \/ GetCommand
  <2>1. /\ UNCHANGED <<link, job, host, cmd, seen, p0>>
        /\ pc = "get" /\ evt /\ pc' \in {"clear_event", "take"}
    BY <1>4 DEF GetBad, GetCommand
  <2>2. ~bufFree /\ hphase = "wait"
    BY <2>1, HostWaits DEF ExchangeInv, Occupied
  <2>3. NoAbort' /\ HostAndLoop' /\ LoopHolds' /\ Started'
    BY <2>1, <2>2 DEF ExchangeInv, NoAbort, HostAndLoop, LoopHolds, Started, Busy, link, host
  <2>. QED
    BY <2>1, <2>3, LinkUntouched
<1>5. CASE ClearEvent \/ ClearBuffer \/ ClearState \/ ResetEventObj
  <2>1. CASE ClearEvent
    <3>1. hphase = "wait"
      BY <2>1, HostWaits DEF ClearEvent, Busy
    <3>. QED
      BY <2>1, <3>1 DEF ClearEvent, ExchangeInv, NoAbort, HostAndLoop, HalfSent, Occupied,
           Whole, LoopHolds, Started, Busy, OutputOfItsCommand, OutputReady, host
  <2>2. CASE ClearBuffer
    <3>1. hphase = "wait"
      BY <2>2, HostWaits DEF ClearBuffer, Busy
    <3>. QED
      BY <2>2, <3>1 DEF ClearBuffer, ExchangeInv, NoAbort, HostAndLoop, HalfSent, Occupied,
           LoopHolds, Started, Busy, OutputOfItsCommand, OutputReady, host
  <2>3. CASE ClearState
    <3>1. hphase = "wait"
      BY <2>3, HostWaits DEF ClearState
    <3>. QED
      BY <2>3, <3>1 DEF ClearState, ExchangeInv, NoAbort, HostAndLoop, HalfSent, Occupied,
           LoopHolds, Started, Busy, OutputOfItsCommand, OutputReady, host
  <2>4. CASE ResetEventObj
    BY <2>4 DEF ResetEventObj, ExchangeInv, NoAbort, HostAndLoop, HalfSent, Occupied,
         Whole, LoopHolds, Started, Busy, OutputOfItsCommand, OutputReady, host
  <2>. QED
    BY <1>5, <2>1, <2>2, <2>3, <2>4
<1>6. CASE SendTimeout
  <2>1. /\ UNCHANGED <<p0, seen, usbFlow, job, host, cmd>>
        /\ pc = "timeout" /\ pc' = "timeout_reset"
    BY <1>6 DEF SendTimeout
  <2>2. CASE usbFlow
    <3>1. SendMsg("error", 0)
      BY <1>6, <2>2 DEF SendTimeout
    <3>2. HostAndLoop' /\ HalfSent' /\ Occupied' /\ OutputOfItsCommand'
      BY <2>1, <3>1, OutputSent DEF Busy
    <3>. QED
      BY <2>1, <3>1, <3>2 DEF SendMsg, ExchangeInv, NoAbort, LoopHolds, Started, Busy, host
  <2>3. CASE ~usbFlow
    <3>1. UNCHANGED link
      BY <1>6, <2>3 DEF SendTimeout
    <3>2. NoAbort' /\ HostAndLoop' /\ LoopHolds' /\ Started'
      BY <2>1, <2>3, <3>1 DEF ExchangeInv, NoAbort, HostAndLoop, LoopHolds, Started, Busy,
                              link, host
    <3>. QED
      BY <2>1, <3>1, <3>2, LinkUntouched
  <2>. QED
    BY <2>2, <2>3
<1>7. CASE SendBad
  <2>1. /\ UNCHANGED <<p0, seen, job, host, cmd>> /\ SendMsg("error", 0)
        /\ pc' = "poll"
    BY <1>7 DEF SendBad
  <2>2. HostAndLoop' /\ HalfSent' /\ Occupied' /\ OutputOfItsCommand'
    BY <2>1, OutputSent DEF Busy
  <2>. QED
    BY <2>1, <2>2 DEF SendMsg, ExchangeInv, NoAbort, LoopHolds, Started, Busy, host
<1>8. ASSUME evt, hphase = "wait" PROVE Query = hseq /\ buf[1].seq = hseq
  <2>1. Whole(hseq) /\ hseq \in Seqs
    BY <1>8, HostWaits DEF ExchangeInv, Occupied
  <2>2. cmd[hseq].chunks \in Chunks
    BY <2>1 DEF ExchangeInv, TypeInv, TypeOK
  <2>3. buf[1] = Part("host", hseq, 1)
    BY <2>1, <2>2 DEF Whole
  <2>. QED
    BY <2>1, <2>3 DEF Query, Part
<1>9. CASE GetCore
  <2>1. /\ UNCHANGED <<p0, seen, job, host, cmd>> /\ evt
        /\ SendMsg("core", buf[1].seq) /\ pc' = "core_reset"
    BY <1>9 DEF GetCore
  <2>2. hphase = "wait" /\ hseq \in 0..MaxSeq /\ buf[1].seq = hseq
    BY <1>8, <2>1, HostWaits
  <2>3. HostAndLoop' /\ HalfSent' /\ Occupied' /\ OutputOfItsCommand'
    BY <2>1, <2>2, OutputSent
  <2>. QED
    BY <2>1, <2>3 DEF SendMsg, ExchangeInv, NoAbort, LoopHolds, Started, Busy, host
<1>10. CASE SetStateExecuting
  <2>1. ~bufFree /\ evt /\ hphase = "wait" /\ pc = "take"
    BY <1>10, HostWaits DEF SetStateExecuting, ExchangeInv, LoopHolds, Busy
  <2>2. /\ UNCHANGED <<bufFree, seq, chunkNo, buf, evt, p0, seen, job, host, cmd>>
        /\ state' = "executing" /\ pc' \in {"decode", "device"}
    BY <1>10 DEF SetStateExecuting, UserChooses
  <2>. QED
    BY <2>1, <2>2 DEF ExchangeInv, NoAbort, HostAndLoop, HalfSent, Occupied, Whole,
         LoopHolds, Started, Busy, OutputOfItsCommand, OutputReady, host
<1>11. CASE DecodeQuery
  <2>1. ~bufFree /\ evt /\ hphase = "wait" /\ pc = "decode" /\ Query = hseq
    BY <1>8, <1>11, HostWaits DEF DecodeQuery, ExchangeInv, LoopHolds, Busy
  <2>2. /\ UNCHANGED <<link, p0, seen, host, cmd>>
        /\ job' = hseq /\ usbFlow' /\ pc' = "work"
    BY <1>11, <2>1 DEF DecodeQuery
  <2>3. hseq \in Nat
    BY DEF ExchangeInv, TypeInv, TypeOK
  <2>. QED
    BY <2>1, <2>2, <2>3 DEF ExchangeInv, NoAbort, HostAndLoop, HalfSent, Occupied, Whole,
         LoopHolds, Started, Busy, OutputOfItsCommand, OutputReady, link, host
<1>12. CASE RejectQuery \/ Answer
  <2>1. /\ UNCHANGED <<p0, seen, job, host, cmd>> /\ pc \in {"decode", "work"}
        /\ pc' \in {"menu", "poll"}
        /\ \/ pc = "decode" /\ SendMsg("app", Query)
           \/ pc = "work" /\ SendMsg("app", job)
    BY <1>12 DEF RejectQuery, Answer
  <2>2. hphase = "wait" /\ hseq \in 0..MaxSeq
    BY <2>1, HostWaits DEF Busy
  <2>3. SendMsg("app", hseq)
    BY <1>8, <2>1, <2>2 DEF ExchangeInv, LoopHolds
  <2>4. HostAndLoop' /\ HalfSent' /\ Occupied' /\ OutputOfItsCommand'
    BY <2>1, <2>2, <2>3, OutputSent
  <2>. QED
    BY <2>1, <2>3, <2>4 DEF SendMsg, ExchangeInv, NoAbort, LoopHolds, Started, Busy, host
<1>13. CASE GiveUp
  <2>1. /\ UNCHANGED <<link, p0, seen, usbFlow, job, host, cmd>>
        /\ pc = "work" /\ pc' = "menu" /\ p0 # {}
    BY <1>13 DEF GiveUp
  <2>2. "inactivity" \in p0
    BY <2>1 DEF ExchangeInv, NoAbort, TypeInv, TypeOK
  <2>3. NoAbort' /\ HostAndLoop' /\ LoopHolds' /\ Started'
    BY <2>1, <2>2 DEF ExchangeInv, NoAbort, HostAndLoop, LoopHolds, Started, Busy, link, host
  <2>. QED
    BY <2>1, <2>3, LinkUntouched
<1>. QED
  BY <1>1, <1>2, <1>3, <1>4, <1>5, <1>6, <1>7, <1>9, <1>10, <1>11, <1>12, <1>13 DEF MainLoop

LEMMA ExchangeStep ==
    ASSUME QuietHost, ExchangeInv, [Next]_vars
    PROVE  ExchangeInv'
<1>1. TypeInv'
  BY TypeStep DEF ExchangeInv
<1>2. CASE MainLoop
  BY <1>1, <1>2, ExchangeMainLoop DEF ExchangeInv
<1>3. CASE Host
  <2>1. UNCHANGED <<p0, seen>>
    BY <1>3 DEF QuietHost, Host, HostBegin, HostSendsChunk, HostMissesAck, HostIsRejected,
         HostGetsOutput, HostAborts, main
  <2>2. NoAbort'
    BY <2>1 DEF ExchangeInv, NoAbort
  <2>. QED
    BY <1>1, <1>3, <2>2, ExchangeHost DEF ExchangeInv
<1>4. CASE UserDismisses
  <2>1. /\ UNCHANGED <<link, job, seen, host, cmd>> /\ p0' = {}
        /\ pc = "screen" /\ pc' = "idle"
    BY <1>4 DEF UserDismisses, Goto
  <2>2. NoAbort' /\ HostAndLoop' /\ LoopHolds' /\ Started'
    BY <2>1 DEF ExchangeInv, NoAbort, HostAndLoop, LoopHolds, Started, Busy, link, host
  <2>. QED
    BY <1>1, <2>1, <2>2, LinkUntouched DEF ExchangeInv
<1>5. CASE Inactivity \/ UNCHANGED vars
  <2>1. UNCHANGED <<link, usbFlow, main, host, cmd>> /\ p0' \subseteq p0 \cup {"inactivity"}
        /\ p0 \subseteq p0'
    BY <1>5 DEF Inactivity, vars
  <2>2. NoAbort' /\ HostAndLoop' /\ LoopHolds' /\ Started'
    BY <2>1 DEF ExchangeInv, NoAbort, HostAndLoop, LoopHolds, Started, Busy, link, main, host
  <2>3. UNCHANGED job
    BY <2>1 DEF main
  <2>. QED
    BY <1>1, <2>1, <2>2, <2>3, LinkUntouched DEF ExchangeInv
<1>. QED
  BY <1>2, <1>3, <1>4, <1>5 DEF Next

THEOREM ExchangeInvariance ==
    ASSUME QuietHost
    PROVE  Spec => []ExchangeInv
<1>1. ExchangeInv /\ [Next]_vars => ExchangeInv'
  BY ExchangeStep
<1>. QED
  BY <1>1, ExchangeInitially, PTL DEF Spec

(* A pending event of a quiet host is the whole command the buffer holds,  *)
(* and the buffer is not free.                                             *)
THEOREM EventsIntact ==
    ASSUME QuietHost
    PROVE  Spec => []EventIntact
<1>1. ExchangeInv => EventIntact
  <2>. SUFFICES ASSUME ExchangeInv, evt PROVE ~bufFree /\ Whole(seq)
    BY DEF EventIntact
  <2>. QED
    BY HostWaits DEF ExchangeInv, Occupied
<1>. QED
  BY <1>1, ExchangeInvariance, PTL

(* What a quiet host reads is the output of its own command or an error.   *)
THEOREM OutputsBelong ==
    ASSUME QuietHost
    PROVE  Spec => []OutputOfItsCommand
<1>1. ExchangeInv => OutputOfItsCommand
  BY DEF ExchangeInv
<1>. QED
  BY <1>1, ExchangeInvariance, PTL

(* Apps start on each command of a quiet host at most once, in order.      *)
THEOREM StartsInOrder ==
    ASSUME QuietHost
    PROVE  Spec => StartsOnceInOrder
<1>1. ASSUME ExchangeInv, [Next]_vars, pc = "decode", pc' = "work"
      PROVE  job' > job
  <2>1. DecodeQuery
    BY <1>1 DEF Next, MainLoop, HandleCoreErrors, SendTimeout, TimeoutReset, ClearEvent,
         ClearBuffer, ClearState, AbortReset, DisplayCoreError, ScreenIgnoresP0, EnterIdle,
         PollP0, GetNothing, GetBad, SendBad, GetCore, ResetEventObj, GetCommand,
         SetStateExecuting, DeviceFlow, RejectQuery, Answer, GiveUp, UserDismisses,
         Inactivity, Host, HostBegin, HostSendsChunk, HostMissesAck, HostIsRejected,
         HostGetsOutput, HostAborts, Goto, main, vars
  <2>2. evt /\ hphase = "wait" /\ hseq \in Seqs /\ Whole(hseq)
    BY <1>1, HostWaits DEF ExchangeInv, LoopHolds, Occupied
  <2>3. cmd[hseq].chunks \in Chunks
    BY <1>1, <2>2 DEF ExchangeInv, TypeInv, TypeOK
  <2>4. buf[1] = Part("host", hseq, 1)
    BY <2>2, <2>3 DEF Whole
  <2>5. job' = hseq
    BY <2>1, <2>2, <2>4 DEF DecodeQuery, Query, Part
  <2>6. job <= hseq /\ job # hseq /\ job \in Nat
    BY <1>1, <2>2 DEF ExchangeInv, Started, TypeInv, TypeOK
  <2>. QED
    BY <2>2, <2>5, <2>6
<1>2. ExchangeInv /\ [Next]_vars => [pc = "decode" /\ pc' = "work" => job' > job]_vars
  BY <1>1
<1>. QED
  BY <1>2, ExchangeInvariance, PTL DEF Spec, StartsOnceInOrder

-----------------------------------------------------------------------------
(* A quiet host is served as CommandExchange promises. *)

(* Steps that neither answer a command nor start an app on it stutter. *)
LEMMA ExchangeStutters ==
    ASSUME UNCHANGED <<hphase, hseq, job>>,
           hphase = "wait" => (state' = "done" <=> state = "done"),
           hphase = "wait" /\ state = "done" => buf'[1] = buf[1]
    PROVE  UNCHANGED Exchange!vars
<1>1. CommandStage' = CommandStage
  BY DEF CommandStage
<1>2. OutputKind' = OutputKind
  BY <1>1 DEF OutputKind, CommandStage
<1>. QED
  BY <1>1, <1>2 DEF Exchange!vars

(* An output answers the command waited on, or replaces its answer. *)
LEMMA OutputReplies ==
    ASSUME ExchangeInv, UNCHANGED <<host, job>>,
           NEW f \in {"app", "core", "error"}, NEW s \in 0..MaxSeq, SendMsg(f, s),
           hphase = "wait" => f = "error" \/ (s = hseq /\ state # "done")
    PROVE  [Exchange!Next]_(Exchange!vars)
<1>1. buf'[1] = Part(f, s, 0) /\ state' = "done"
  BY DEF SendMsg, ExchangeInv, TypeInv, TypeOK
<1>2. CASE hphase # "wait"
  BY <1>2, ExchangeStutters DEF host
<1>3. CASE hphase = "wait"
  <2>1. CommandStage' = "answered"
    BY <1>1, <1>3 DEF CommandStage, host
  <2>2. OutputKind' = IF f = "error" THEN "error" ELSE "own"
    BY <1>1, <1>3, <2>1 DEF OutputKind, Part, host
  <2>3. CASE state = "done"
    <3>1. CommandStage = "answered" /\ OutputKind' = "error"
      BY <1>3, <2>2, <2>3 DEF CommandStage
    <3>. QED
      BY <1>3, <2>1, <3>1 DEF Exchange!Next, Exchange!TimeOut, host
  <2>4. CASE state # "done"
    <3>1. CommandStage \in {"taken", "started"} /\ OutputKind' \in {"own", "error"}
      BY <1>3, <2>2, <2>4 DEF CommandStage
    <3>. QED
      BY <1>3, <2>1, <3>1 DEF Exchange!Next, Exchange!Reply, host
  <2>. QED
    BY <2>3, <2>4
<1>. QED
  BY <1>2, <1>3

LEMMA HostOnExchange ==
    ASSUME QuietHost, ExchangeInv, Host
    PROVE  [Exchange!Next]_(Exchange!vars)
<1>1. CASE HostBegin
  <2>1. /\ hphase = "idle" /\ hphase' = "send" /\ hseq' = hseq + 1
        /\ hseq \in Int
    BY <1>1 DEF HostBegin, ExchangeInv, TypeInv, TypeOK
  <2>2. UNCHANGED <<CommandStage, OutputKind>>
    BY <2>1 DEF CommandStage, OutputKind
  <2>. QED
    BY <2>1, <2>2 DEF Exchange!vars
<1>2. CASE HostSendsChunk
  <2>1. /\ hphase = "send" /\ hphase' \in {"send", "wait"} /\ hseq' = hseq
        /\ job' = job /\ job # hseq /\ hseq \in Seqs
    BY <1>2, NextChunk DEF HostSendsChunk, main, ExchangeInv, HalfSent, TypeInv, TypeOK
  <2>2. CASE hphase' = "send"
    BY <2>1, <2>2, ExchangeStutters
  <2>3. CASE hphase' = "wait"
    <3>1. hacked + 1 = cmd[hseq].chunks
      BY <1>2, <2>1, <2>3 DEF HostSendsChunk
    <3>2. AppendLast(hseq, hacked + 1) \/ Duplicate(hseq, hacked + 1)
      BY <1>2, <2>1, <3>1, NextChunk DEF HostSendsChunk, Acknowledged, AppendMore
    <3>3. state' = "received"
      BY <3>1, <3>2 DEF AppendLast, Duplicate, RaiseEvent
    <3>4. CommandStage = "fetched" /\ CommandStage' = "taken"
      BY <2>1, <2>3, <3>3 DEF CommandStage
    <3>5. OutputKind = "none" /\ OutputKind' = "none"
      BY <3>4 DEF OutputKind
    <3>. QED
      BY <2>1, <2>3, <3>4, <3>5 DEF Exchange!Next, Exchange!Take
  <2>. QED
    BY <2>1, <2>2, <2>3
<1>3. CASE HostIsRejected
  BY <1>3, ExchangeStutters DEF HostIsRejected, main
<1>4. CASE HostGetsOutput
  <2>1. /\ hphase = "wait" /\ state = "done" /\ hphase' = "idle" /\ hseq' = hseq
    BY <1>4 DEF HostGetsOutput, OutputReady
  <2>2. CommandStage = "answered" /\ CommandStage' = "fetched"
    BY <2>1 DEF CommandStage
  <2>3. OutputKind' = "none"
    BY <2>2 DEF OutputKind
  <2>. QED
    BY <2>1, <2>2, <2>3 DEF Exchange!Next, Exchange!Fetch
<1>5. ~HostMissesAck /\ ~HostAborts
  BY DEF QuietHost, HostMissesAck, HostAborts
<1>. QED
  BY <1>1, <1>2, <1>3, <1>4, <1>5 DEF Host

LEMMA MainLoopOnExchange ==
    ASSUME QuietHost, ExchangeInv, MainLoop
    PROVE  [Exchange!Next]_(Exchange!vars)
<1>. USE DEF host, link
<1>1. CASE \/ HandleCoreErrors \/ TimeoutReset \/ AbortReset \/ DisplayCoreError
           \/ ScreenIgnoresP0 \/ EnterIdle \/ PollP0 \/ GetNothing \/ GetBad \/ GetCommand
           \/ DeviceFlow \/ GiveUp \/ ClearEvent \/ ClearBuffer \/ ResetEventObj
  <2>1. UNCHANGED <<hphase, hseq, job, state, buf>>
    BY <1>1 DEF HandleCoreErrors, TimeoutReset, AbortReset, DisplayCoreError,
         ScreenIgnoresP0, EnterIdle, PollP0, GetNothing, GetBad, GetCommand, DeviceFlow,
         GiveUp, ClearEvent, ClearBuffer, ResetEventObj, main
  <2>. QED
    BY <2>1, ExchangeStutters
<1>2. CASE ClearState
  <2>1. UNCHANGED <<hphase, hseq, job>> /\ state # "done" /\ state' = "none"
    BY <1>2 DEF ClearState, ExchangeInv, LoopHolds
  <2>. QED
    BY <2>1, ExchangeStutters
<1>3. CASE SetStateExecuting
  <2>1. state # "done"
    BY <1>3 DEF SetStateExecuting, ExchangeInv, LoopHolds, Occupied, Busy
  <2>2. UNCHANGED <<hphase, hseq, job>> /\ state' = "executing"
    BY <1>3 DEF SetStateExecuting
  <2>. QED
    BY <2>1, <2>2, ExchangeStutters
<1>4. CASE SendTimeout
  <2>1. CASE usbFlow
    BY <1>4, <2>1, OutputReplies DEF SendTimeout
  <2>2. CASE ~usbFlow
    BY <1>4, <2>2, ExchangeStutters DEF SendTimeout
  <2>. QED
    BY <2>1, <2>2
<1>5. CASE SendBad
  BY <1>5, OutputReplies DEF SendBad
<1>6. ASSUME evt PROVE hphase = "wait" /\ state # "done" /\ Query = hseq /\ buf[1].seq = hseq
  <2>1. hphase = "wait" /\ hseq \in Seqs /\ Whole(hseq) /\ state # "done"
    BY <1>6, HostWaits DEF ExchangeInv, Occupied
  <2>2. cmd[hseq].chunks \in Chunks
    BY <2>1 DEF ExchangeInv, TypeInv, TypeOK
  <2>3. buf[1] = Part("host", hseq, 1)
    BY <2>1, <2>2 DEF Whole
  <2>. QED
    BY <2>1, <2>3 DEF Query, Part
<1>7. hseq \in 0..MaxSeq
  BY DEF ExchangeInv, TypeInv, TypeOK
<1>8. CASE GetCore
  BY <1>6, <1>7, <1>8, OutputReplies DEF GetCore
<1>9. CASE RejectQuery
  BY <1>6, <1>7, <1>9, OutputReplies DEF RejectQuery, ExchangeInv, LoopHolds
<1>10. CASE Answer
  <2>1. job = hseq /\ ~bufFree
    BY <1>10 DEF Answer, ExchangeInv, LoopHolds, Busy
  <2>2. state # "done"
    BY <2>1 DEF ExchangeInv, Occupied
  <2>. QED
    BY <1>7, <1>10, <2>1, <2>2, OutputReplies DEF Answer
<1>11. CASE DecodeQuery
  <2>1. evt /\ pc = "decode"
    BY <1>11 DEF DecodeQuery, ExchangeInv, LoopHolds
  <2>2. job # hseq
    BY <2>1 DEF ExchangeInv, Started
  <2>3. /\ hphase = "wait" /\ hphase' = hphase /\ hseq' = hseq
        /\ state # "done" /\ state' = state /\ job' = hseq
    BY <1>6, <1>11, <2>1 DEF DecodeQuery
  <2>4. CommandStage = "taken" /\ CommandStage' = "started"
    BY <2>2, <2>3 DEF CommandStage
  <2>5. OutputKind = "none" /\ OutputKind' = "none"
    BY <2>4 DEF OutputKind
  <2>. QED
    BY <2>3, <2>4, <2>5 DEF Exchange!Next, Exchange!Start
<1>. QED
  BY <1>1, <1>2, <1>3, <1>4, <1>5, <1>8, <1>9, <1>10, <1>11 DEF MainLoop

(* For a quiet host the interrupt and the main loop implement the abstract *)
(* exchange: one command at a time, started at most once, answered once.   *)
THEOREM ExchangeImplemented ==
    ASSUME QuietHost
    PROVE  Spec => ImplementsExchange
<1>1. Init => Exchange!Init
  <2>. SUFFICES ASSUME Init PROVE Exchange!Init
    OBVIOUS
  <2>1. CommandStage = "fetched"
    BY DEF Init, CommandStage
  <2>2. OutputKind = "none"
    BY <2>1 DEF OutputKind
  <2>. QED
    BY <2>1, <2>2 DEF Init, Exchange!Init
<1>2. ExchangeInv /\ [Next]_vars => [Exchange!Next]_(Exchange!vars)
  <2>. SUFFICES ASSUME ExchangeInv, [Next]_vars PROVE [Exchange!Next]_(Exchange!vars)
    OBVIOUS
  <2>1. CASE UserDismisses \/ Inactivity \/ UNCHANGED vars
    <3>1. UNCHANGED <<hphase, hseq, job, state, buf>>
      BY <2>1 DEF UserDismisses, Inactivity, vars, link, main, host
    <3>. QED
      BY <3>1, ExchangeStutters
  <2>. QED
    BY <2>1, HostOnExchange, MainLoopOnExchange DEF Next
<1>. QED
  BY <1>1, <1>2, ExchangeInvariance, PTL DEF Spec, ImplementsExchange, Exchange!Spec

=============================================================================
