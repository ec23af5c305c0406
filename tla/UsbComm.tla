------------------------------- MODULE UsbComm -------------------------------
(***************************************************************************)
(* Commands of the host over USB.  A command comes in chunks, each handled *)
(* by the receive interrupt (usb_internals.c), into the one buffer that    *)
(* also carries its output.  The last chunk raises an event, which the     *)
(* main loop polls (events.c, usb_event.c), decodes and hands to an app;   *)
(* the app's answer overwrites the buffer (usb_api.c).  The host may abort *)
(* a command, and a tick interrupt may end a wait; both only set a flag    *)
(* (p0) that the main loop looks at (core_error.c, main_menu.c).           *)
(*                                                                         *)
(* A packet is handled in one step, as an interrupt handler is.  The main  *)
(* loop is cut at every access to what it shares with the interrupt,       *)
(* except where the code masks it.                                         *)
(***************************************************************************)
EXTENDS Integers, FiniteSets

CONSTANTS
    MaxSeq,        \* sequence numbers the host uses are 1..MaxSeq
    MaxChunks,     \* chunks of the longest command
    MaxKeys,       \* times the user enters a menu of the device
    Kinds,         \* commands the host sends: a subset of CommandKinds
    Duplicates,    \* TRUE: an acknowledgement may be lost, the chunk comes again
    Aborts         \* TRUE: the host may abort

CommandKinds == {"app", "core", "bad"}

ASSUME BoundsAssumption ==
    /\ MaxSeq \in Nat \ {0} /\ MaxChunks \in Nat \ {0} /\ MaxKeys \in Nat
ASSUME KindsAssumption == Kinds \subseteq CommandKinds /\ Kinds # {}
ASSUME SwitchAssumption == Duplicates \in BOOLEAN /\ Aborts \in BOOLEAN

VARIABLES
    bufFree,    \* sys_flow_cntrl_u.bits.usb_buffer_free
    state,      \* comm_status.curr_cmd_state
    seq,        \* comm_status.curr_cmd_seq_no
    chunkNo,    \* comm_status.curr_cmd_chunk_no (received_length goes with it)
    buf,        \* comm_io_buffer, by chunk
    evt,        \* usb_event.flag
    msg,        \* core_msg refers to the buffer (FALSE: NULL)
    p0,         \* p0_evt_status: the flags that are raised
    usbFlow,    \* device_idle_state is CORE_DEVICE_IDLE_STATE_USB
    pc,         \* where the main loop stands
    seen,       \* the copy of p0 in handle_core_errors
    job,        \* sequence number of the command the app decoded, 0: of none
    inApp,      \* the wait for an event is an app's, not the main menu's
    error,      \* error_screen holds a message
    keys,       \* times the user may still enter a menu
    cmd,        \* the commands of the host, by sequence number
    hseq,       \* sequence number of the host's last packet
    hphase,     \* what the host is about
    hacked      \* chunks of the command that were acknowledged

link == <<bufFree, state, seq, chunkNo, buf, evt, msg>>
main == <<pc, seen, job, inApp, error, keys>>
host == <<hseq, hphase, hacked>>
vars == <<link, p0, usbFlow, main, cmd, host>>

Seqs == 1..MaxSeq
Chunks == 1..MaxChunks
CmdStates == {"none", "receiving", "received", "executing", "done"}

(* What a chunk of the buffer holds: part n of a command, or (in the first *)
(* chunk) the output of an app or of the core for a command, or an error.  *)
Part(from, s, n) == [from |-> from, seq |-> s, n |-> n]
Parts == [from : {"host", "app", "core", "error"}, seq : 0..MaxSeq, n : 0..MaxChunks]

Clearing == {"clear_event", "clear_buffer", "clear_state"}
Places == Clearing \cup
    {"menu", "timeout", "timeout_reset", "abort_reset", "display", "screen", "idle",
     "poll", "get", "core_reset", "bad", "take", "device", "decode", "work"}

TypeOK ==
    /\ bufFree \in BOOLEAN /\ evt \in BOOLEAN /\ msg \in BOOLEAN
    /\ state \in CmdStates
    /\ seq \in 0..MaxSeq
    /\ chunkNo \in 0..MaxChunks
    /\ buf \in [Chunks -> Parts]
    /\ p0 \subseteq {"abort", "inactivity"} /\ seen \subseteq {"abort", "inactivity"}
    /\ usbFlow \in BOOLEAN /\ inApp \in BOOLEAN /\ error \in BOOLEAN
    /\ pc \in Places
    /\ job \in 0..MaxSeq
    /\ keys \in 0..MaxKeys
    /\ cmd \in [Seqs -> [kind : Kinds, chunks : Chunks]]
    /\ hseq \in 0..MaxSeq
    /\ hphase \in {"idle", "send", "wait"}
    /\ hacked \in 0..MaxChunks

Init ==
    /\ bufFree = TRUE /\ state = "none" /\ seq = 0 /\ chunkNo = 0
    /\ buf = [i \in Chunks |-> Part("error", 0, 0)]
    /\ evt = FALSE /\ msg = FALSE
    /\ p0 = {} /\ usbFlow = FALSE
    /\ pc = "menu" /\ seen = {} /\ job = 0 /\ inApp = FALSE /\ error = FALSE
    /\ keys = MaxKeys
    /\ cmd \in [Seqs -> [kind : Kinds, chunks : Chunks]]
    /\ hseq = 0 /\ hphase = "idle" /\ hacked = 0

-----------------------------------------------------------------------------
(* The receive interrupt: chunk c of the command s.                        *)

(* APP_BUFFER_BLOCKED, BUSY_PREVIOUS_CMD *)
Refused == ~bufFree \/ state = "executing"

(* comm_reset starts a new command; a command under way is continued. *)
Fresh(s, c) == seq # s \/ c = 1
(* Mutant: comm_reset keeps the number of the last chunk. *)
Received_KeepsChunkNo(s, c) == chunkNo
Received(s, c) == IF Fresh(s, c) THEN 0 ELSE chunkNo
Ongoing(s, c) == IF Fresh(s, c) THEN "none" ELSE "receiving"

(* usb_set_event, and the state set with it *)
RaiseEvent == state' = "received" /\ evt' = TRUE /\ msg' = TRUE

OutOfOrder(s, c) ==
    /\ Received(s, c) + 1 < c
    /\ state' = Ongoing(s, c)
    /\ chunkNo' = Received(s, c)
    /\ UNCHANGED <<bufFree, seq, buf, evt, msg>>

(* The chunk is appended. *)
AppendChunk(s, c) ==
    /\ Received(s, c) + 1 = c
    /\ seq' = s
    /\ buf' = [buf EXCEPT ![c] = Part("host", s, c)]

AppendMore(s, c) ==
    /\ AppendChunk(s, c)
    /\ c < cmd[s].chunks
    /\ chunkNo' = c
    /\ state' = Ongoing(s, c)
    /\ UNCHANGED <<bufFree, evt, msg>>

(* The lengths at the head of the buffer must add up to what was received. *)
(* The head may have been overwritten by an output, which may be as long,  *)
(* or by an error, which is shorter than a chunk.                          *)
(* Mutant: the lengths are not compared. *)
LengthsFit_Unchecked(b, c) == TRUE
LengthsFit(b, c) ==
    b[1].from \in {"app", "core"} \/ (b[1].from = "host" /\ cmd[b[1].seq].chunks = c)
LengthsDiffer(b, c) == b[1].from = "host" => cmd[b[1].seq].chunks # c

AppendLast(s, c) ==
    /\ AppendChunk(s, c)
    /\ c = cmd[s].chunks
    /\ LengthsFit(buf', c)
    /\ chunkNo' = c
    /\ bufFree' = FALSE
    /\ RaiseEvent

AppendMismatch(s, c) ==
    /\ AppendChunk(s, c)
    /\ c = cmd[s].chunks
    /\ LengthsDiffer(buf', c)
    /\ state' = "none" /\ chunkNo' = 0
    /\ UNCHANGED <<bufFree, evt, msg>>

(* Mutant: a chunk that is not appended is counted. *)
Duplicate_Counted(s, c) ==
    /\ c <= Received(s, c)
    /\ seq' = s
    /\ chunkNo' = chunkNo + 1
    /\ RaiseEvent
    /\ UNCHANGED <<bufFree, buf>>

(* Not appended, but the last chunk raises the event nevertheless. *)
Duplicate(s, c) ==
    /\ c <= Received(s, c)
    /\ seq' = s
    /\ IF c = cmd[s].chunks
       THEN RaiseEvent
       ELSE state' = Ongoing(s, c) /\ UNCHANGED <<evt, msg>>
    /\ UNCHANGED <<bufFree, chunkNo, buf>>

Acknowledged(s, c) ==
    ~Refused /\ (AppendMore(s, c) \/ AppendLast(s, c) \/ Duplicate(s, c))
Rejected(s, c) ==
    \/ Refused /\ UNCHANGED link
    \/ ~Refused /\ (OutOfOrder(s, c) \/ AppendMismatch(s, c))

(* comm_process_abort_packet; outside of a USB flow only the status is sent. *)
AbortPacket(s) ==
    IF usbFlow
    THEN /\ state' = "none" /\ chunkNo' = 0
         /\ p0' = p0 \cup {"abort"}
         /\ seq' = s
         /\ bufFree' = TRUE
         /\ UNCHANGED <<buf, evt, msg>>
    ELSE UNCHANGED <<link, p0>>

-----------------------------------------------------------------------------
(* The host: one command at a time, in chunks, each sent again until it is *)
(* acknowledged; then it asks for the output.                              *)

HostBegin ==
    /\ hphase = "idle" /\ hseq < MaxSeq
    /\ hseq' = hseq + 1
    /\ hphase' = "send" /\ hacked' = 0
    /\ UNCHANGED <<link, p0, usbFlow, main, cmd>>

HostSendsChunk ==
    /\ hphase = "send"
    /\ Acknowledged(hseq, hacked + 1)
    /\ hacked' = hacked + 1
    /\ hphase' = IF hacked + 1 = cmd[hseq].chunks THEN "wait" ELSE "send"
    /\ UNCHANGED <<hseq, p0, usbFlow, main, cmd>>

(* The acknowledgement is lost: the host will send the chunk again. *)
HostMissesAck ==
    /\ Duplicates
    /\ hphase = "send"
    /\ Acknowledged(hseq, hacked + 1)
    /\ UNCHANGED <<p0, usbFlow, main, cmd, host>>

(* An error: the host starts over with the first chunk. *)
HostIsRejected ==
    /\ hphase = "send"
    /\ Rejected(hseq, hacked + 1)
    /\ hacked' = 0
    /\ UNCHANGED <<hseq, hphase, p0, usbFlow, main, cmd>>

OutputReady == state = "done" /\ seq = hseq

(* comm_process_out_req_packet; before that it answers with the status. *)
HostGetsOutput ==
    /\ hphase = "wait" /\ OutputReady
    /\ hphase' = "idle"
    /\ UNCHANGED <<link, p0, usbFlow, main, cmd, hseq, hacked>>

HostAborts ==
    /\ Aborts
    /\ hphase \in {"send", "wait"} /\ hseq < MaxSeq
    /\ hseq' = hseq + 1
    /\ AbortPacket(hseq + 1)
    /\ hphase' = "idle" /\ hacked' = 0
    /\ UNCHANGED <<usbFlow, main, cmd>>

Host == HostBegin \/ HostSendsChunk \/ HostMissesAck \/ HostIsRejected
        \/ HostGetsOutput \/ HostAborts

(* The tick interrupt.  The timer restarts with every wait, so it cannot   *)
(* fire before that wait has polled once.                                  *)
Inactivity ==
    /\ pc \in {"get", "work", "device"}
    /\ "inactivity" \notin p0
    /\ p0' = p0 \cup {"inactivity"}
    /\ UNCHANGED <<link, usbFlow, main, cmd, host>>

-----------------------------------------------------------------------------
(* The main loop.                                                          *)

Goto(place) == pc' = place

(* Mutant: usb_send_msg leaves the event pending. *)
SendMsg_KeepsEvent(from, s) ==
    /\ bufFree' = TRUE
    /\ state' = "done"
    /\ buf' = [buf EXCEPT ![1] = Part(from, s, 0)]
    /\ UNCHANGED <<seq, chunkNo, evt, msg>>

(* Mutant: usb_send_msg does not free the buffer. *)
SendMsg_KeepsBuffer(from, s) ==
    /\ evt' = FALSE /\ msg' = FALSE
    /\ state' = "done"
    /\ buf' = [buf EXCEPT ![1] = Part(from, s, 0)]
    /\ UNCHANGED <<bufFree, seq, chunkNo>>

(* usb_send_msg: the interrupt is masked. *)
SendMsg(from, s) ==
    /\ evt' = FALSE /\ msg' = FALSE
    /\ bufFree' = TRUE
    /\ state' = "done"
    /\ buf' = [buf EXCEPT ![1] = Part(from, s, 0)]
    /\ UNCHANGED <<seq, chunkNo>>

(* main_menu_initialize calls handle_core_errors. *)
HandleCoreErrors ==
    /\ pc = "menu"
    /\ seen' = p0
    /\ Goto(IF "inactivity" \in p0 THEN "timeout"
            ELSE IF "abort" \in p0 THEN "clear_event" ELSE "display")
    /\ UNCHANGED <<link, p0, usbFlow, job, inApp, error, keys, cmd, host>>

SendTimeout ==
    /\ pc = "timeout"
    /\ IF usbFlow THEN SendMsg("error", 0) ELSE UNCHANGED link
    /\ error' = TRUE
    /\ Goto("timeout_reset")
    /\ UNCHANGED <<p0, usbFlow, seen, job, inApp, keys, cmd, host>>

TimeoutReset ==
    /\ pc = "timeout_reset"
    /\ p0' = {}
    /\ Goto(IF "abort" \in seen THEN "clear_event" ELSE "display")
    /\ UNCHANGED <<link, usbFlow, seen, job, inApp, error, keys, cmd, host>>

(* usb_clear_event, with the interrupt enabled: called for an abort, and   *)
(* for a message that cannot be decoded.                                   *)
ClearEvent ==
    /\ pc = "clear_event"
    /\ evt' = FALSE
    /\ Goto("clear_buffer")
    /\ UNCHANGED <<bufFree, state, seq, chunkNo, buf, msg, p0, usbFlow,
                   seen, job, inApp, error, keys, cmd, host>>

ClearBuffer ==
    /\ pc = "clear_buffer"
    /\ msg' = FALSE
    /\ bufFree' = TRUE
    /\ Goto("clear_state")
    /\ UNCHANGED <<state, seq, chunkNo, buf, evt, p0, usbFlow,
                   seen, job, inApp, error, keys, cmd, host>>

ClearState ==
    /\ pc = "clear_state"
    /\ state' = "none"
    /\ Goto(IF seen = {} THEN "bad" ELSE "abort_reset")
    /\ UNCHANGED <<bufFree, seq, chunkNo, buf, evt, msg, p0, usbFlow,
                   seen, job, inApp, error, keys, cmd, host>>

AbortReset ==
    /\ pc = "abort_reset"
    /\ p0' = {}
    /\ Goto("display")
    /\ UNCHANGED <<link, usbFlow, seen, job, inApp, error, keys, cmd, host>>

(* display_core_error: a message waits for the user. *)
DisplayCoreError ==
    /\ pc = "display"
    /\ usbFlow' = (usbFlow /\ ~error)
    /\ Goto(IF error THEN "screen" ELSE "idle")
    /\ UNCHANGED <<link, p0, seen, job, inApp, error, keys, cmd, host>>

ScreenIgnoresP0 ==
    /\ pc = "screen"
    /\ p0 # {} /\ p0' = {}
    /\ UNCHANGED <<link, usbFlow, main, cmd, host>>

UserDismisses ==
    /\ pc = "screen"
    /\ p0' = {}
    /\ error' = FALSE
    /\ Goto("idle")
    /\ UNCHANGED <<link, usbFlow, seen, job, inApp, keys, cmd, host>>

(* The rest of main_menu_initialize. *)
EnterIdle ==
    /\ pc = "idle"
    /\ usbFlow' = FALSE
    /\ seen' = {}
    /\ Goto("poll")
    /\ UNCHANGED <<link, p0, job, inApp, error, keys, cmd, host>>

(* get_events looks at p0 first.  An app returns when it is raised; the    *)
(* main menu's callback resets it.                                         *)
PollP0 ==
    /\ pc = "poll"
    /\ IF p0 = {} THEN Goto("get") /\ UNCHANGED <<p0, inApp>>
       ELSE /\ Goto("menu")
            /\ p0' = IF inApp THEN p0 ELSE {}
            /\ inApp' = FALSE
    /\ UNCHANGED <<link, usbFlow, seen, job, error, keys, cmd, host>>

(* The user chose an entry of the main menu; its flow is not part of this  *)
(* module.  With both events the user's is handled and the command's stays.*)
UserChooses ==
    /\ keys > 0 /\ ~inApp
    /\ keys' = keys - 1
    /\ Goto("device")

GetNothing ==
    /\ pc = "get" /\ ~evt
    /\ \/ Goto("poll") /\ keys' = keys
       \/ UserChooses
    /\ UNCHANGED <<link, p0, usbFlow, seen, job, inApp, error, cmd, host>>

(* get_core_req_type: what the head of the buffer decodes to.  The output  *)
(* of an app is a command message of the core's protocol, too.             *)
Decodes(kind) ==
    IF ~msg THEN kind = "bad"
    ELSE CASE buf[1].from = "host" -> kind = cmd[buf[1].seq].kind
           [] buf[1].from = "app" -> kind = "app"
           [] buf[1].from = "core" -> kind \in {"core", "bad"}
           [] buf[1].from = "error" -> kind = "bad"

GetBad ==
    /\ pc = "get" /\ evt /\ Decodes("bad")
    /\ Goto("clear_event")
    /\ UNCHANGED <<link, p0, usbFlow, seen, job, inApp, error, keys, cmd, host>>

SendBad ==
    /\ pc = "bad"
    /\ SendMsg("error", 0)
    /\ Goto("poll")
    /\ UNCHANGED <<p0, usbFlow, seen, job, inApp, error, keys, cmd, host>>

(* A request for the versions of the apps, or of a session, is answered    *)
(* here, and the event then reset with the interrupt enabled again.        *)
GetCore ==
    /\ pc = "get" /\ evt /\ Decodes("core")
    /\ SendMsg("core", buf[1].seq)
    /\ Goto("core_reset")
    /\ UNCHANGED <<p0, usbFlow, seen, job, inApp, error, keys, cmd, host>>

(* Mutant: the whole of usb_clear_event is done. *)
ResetEventObj_ClearsState ==
    /\ pc = "core_reset"
    /\ evt' = FALSE /\ msg' = FALSE /\ bufFree' = TRUE /\ state' = "none"
    /\ Goto("poll")
    /\ UNCHANGED <<seq, chunkNo, buf, p0, usbFlow,
                   seen, job, inApp, error, keys, cmd, host>>

ResetEventObj ==
    /\ pc = "core_reset"
    /\ evt' = FALSE
    /\ Goto("poll")
    /\ UNCHANGED <<bufFree, state, seq, chunkNo, buf, msg, p0, usbFlow,
                   seen, job, inApp, error, keys, cmd, host>>

GetCommand ==
    /\ pc = "get" /\ evt /\ Decodes("app")
    /\ Goto("take")
    /\ UNCHANGED <<link, p0, usbFlow, seen, job, inApp, error, keys, cmd, host>>

(* Mutant: the event is reset when it is handed over. *)
SetStateExecuting_Consumes ==
    /\ pc = "take"
    /\ state' = "executing" /\ evt' = FALSE
    /\ \/ Goto("decode") /\ keys' = keys
       \/ UserChooses
    /\ UNCHANGED <<bufFree, seq, chunkNo, buf, msg, p0, usbFlow,
                   seen, job, inApp, error, cmd, host>>

(* usb_set_state_executing *)
SetStateExecuting ==
    /\ pc = "take"
    /\ state' = "executing"
    /\ \/ Goto("decode") /\ keys' = keys
       \/ UserChooses
    /\ UNCHANGED <<bufFree, seq, chunkNo, buf, evt, msg, p0, usbFlow,
                   seen, job, inApp, error, cmd, host>>

DeviceFlow ==
    /\ pc = "device"
    /\ Goto("menu")
    /\ UNCHANGED <<link, p0, usbFlow, seen, job, inApp, error, keys, cmd, host>>

(* The buffer holds the command s and nothing else. *)
Whole(s) == s # 0 /\ \A i \in 1..cmd[s].chunks : buf[i] = Part("host", s, i)

(* The command the app finds in the buffer; 0 if what is there is torn. *)
Query == IF Whole(buf[1].seq) THEN buf[1].seq ELSE 0

DecodeQuery ==
    /\ pc = "decode"
    /\ job' = Query
    /\ usbFlow' = TRUE
    /\ Goto("work")
    /\ UNCHANGED <<link, p0, seen, inApp, error, keys, cmd, host>>

(* The app answers that it cannot decode the query, and returns. *)
RejectQuery ==
    /\ pc = "decode"
    /\ SendMsg("app", Query)
    /\ inApp' = FALSE
    /\ Goto("menu")
    /\ UNCHANGED <<p0, usbFlow, seen, job, error, keys, cmd, host>>

(* The app answers, and returns or waits for the next query. *)
Answer ==
    /\ pc = "work"
    /\ SendMsg("app", job)
    /\ \/ Goto("menu") /\ inApp' = FALSE
       \/ Goto("poll") /\ inApp' = TRUE
    /\ UNCHANGED <<p0, usbFlow, seen, job, error, keys, cmd, host>>

(* A screen or card of the app waits for an event and sees p0 raised. *)
GiveUp ==
    /\ pc = "work" /\ p0 # {}
    /\ inApp' = FALSE
    /\ Goto("menu")
    /\ UNCHANGED <<link, p0, usbFlow, seen, job, error, keys, cmd, host>>

MainLoop ==
    \/ HandleCoreErrors \/ SendTimeout \/ TimeoutReset
    \/ ClearEvent \/ ClearBuffer \/ ClearState \/ AbortReset
    \/ DisplayCoreError \/ ScreenIgnoresP0 \/ EnterIdle
    \/ PollP0 \/ GetNothing \/ GetBad \/ SendBad \/ GetCore \/ ResetEventObj
    \/ GetCommand \/ SetStateExecuting \/ DeviceFlow
    \/ DecodeQuery \/ RejectQuery \/ Answer \/ GiveUp

Next == MainLoop \/ UserDismisses \/ Inactivity \/ Host

Spec == Init /\ [][Next]_vars

(* The main loop runs.  Nothing is assumed of the host, the user, the      *)
(* timer or a card.                                                        *)
FairSpec == Spec /\ WF_vars(MainLoop)

-----------------------------------------------------------------------------
(* Properties.                                                             *)

(* What a pending event refers to is the whole command last acknowledged,  *)
(* and the buffer is not free: usb_event and the app that got it read the  *)
(* buffer in place.                                                        *)
EventIntact == evt => ~bufFree /\ Whole(seq)

(* What the host reads as the output of its command is the output of that  *)
(* command, or an error (usb_internals.c, comm_process_out_req_packet).    *)
OutputOfItsCommand ==
    hphase = "wait" /\ OutputReady =>
        buf[1].from = "error" \/ (buf[1].from # "host" /\ buf[1].seq = hseq)

(* An app starts on whole commands only, on each at most once, in order,   *)
(* however waits time out and the user interferes.                         *)
StartsOnceInOrder == [][pc = "decode" /\ pc' = "work" => job' > job]_vars

(* A command that was received or is executing, or that occupies the       *)
(* buffer, has its event pending, or is being cleared: without it nothing  *)
(* would ever free the buffer, and the host be refused for good.           *)
NeverStuck ==
    ~bufFree \/ state \in {"received", "executing"} => evt \/ pc \in Clearing

(* A command received is answered or given up, unless an error screen      *)
(* waits for the user.                                                     *)
CommandEnds ==
    state \in {"received", "executing"}
        ~> (state \notin {"received", "executing"} \/ pc = "screen")

(* How far the host's command is, as CommandExchange has it. *)
CommandStage ==
    CASE hphase # "wait" -> "fetched"
      [] hphase = "wait" /\ state = "done" -> "answered"
      [] hphase = "wait" /\ state # "done" /\ job = hseq -> "started"
      [] hphase = "wait" /\ state # "done" /\ job # hseq -> "taken"

OutputKind ==
    CASE CommandStage # "answered" -> "none"
      [] CommandStage = "answered" /\ buf[1].from = "error" -> "error"
      [] CommandStage = "answered" /\ buf[1].from # "error" ->
           IF buf[1].from # "host" /\ buf[1].seq = hseq THEN "own" ELSE "foreign"

Exchange == INSTANCE CommandExchange WITH
              MaxCommands <- MaxSeq,
              taken <- IF hphase = "send" THEN hseq - 1 ELSE hseq,
              stage <- CommandStage,
              output <- OutputKind

(* The receive interrupt and the main loop together keep the promise of    *)
(* CommandExchange: no timeout, menu visit, malformed or core request lets *)
(* a command be skipped, started again, or lose its answer before the host *)
(* fetched it (usb_internals.c, usb_event.c, usb_api.c).                   *)
ImplementsExchange == Exchange!Spec

(* "Duplicate packets are ignored" (usb_internals.c): a chunk behind the   *)
(* last one appended, other than the first, changes nothing.               *)
DuplicatesIgnored ==
    [][(HostSendsChunk \/ HostMissesAck) /\ Duplicate(hseq, hacked + 1) /\ state # "receiving"
          => UNCHANGED link]_vars

(* "the applications should make sure that any existing usb events are     *)
(* consumed before sending any data" (usb_api.h): an app does not answer   *)
(* over a command that was received meanwhile.                             *)
SendsAfterConsuming ==
    [][pc = "work" /\ state = "received" => state' # "done"]_vars

=============================================================================
