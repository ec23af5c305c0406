--------------------------- MODULE CommandExchange ---------------------------
(***************************************************************************)
(* What the USB link promises to a host that neither aborts nor repeats:   *)
(* its commands are taken one at a time, in order; each is started at most *)
(* once and answered once, by its own output or by an error; an answer     *)
(* stays, unless a timeout turns it into an error, until the host fetched  *)
(* it.  UsbComm implements it.                                             *)
(***************************************************************************)
EXTENDS Naturals

CONSTANT MaxCommands

VARIABLES
    taken,    \* number of the last command that was taken
    stage,    \* how far that command is
    output    \* what there is to fetch for it

vars == <<taken, stage, output>>

Init == taken = 0 /\ stage = "fetched" /\ output = "none"

Take ==
    /\ stage = "fetched" /\ taken < MaxCommands
    /\ taken' = taken + 1
    /\ stage' = "taken"
    /\ UNCHANGED output

Start ==
    /\ stage = "taken"
    /\ stage' = "started"
    /\ UNCHANGED <<taken, output>>

(* Versions, malformed and timed-out commands are answered without a start. *)
Reply ==
    /\ stage \in {"taken", "started"}
    /\ stage' = "answered"
    /\ output' \in {"own", "error"}
    /\ UNCHANGED taken

TimeOut ==
    /\ stage = "answered"
    /\ output' = "error"
    /\ UNCHANGED <<taken, stage>>

Fetch ==
    /\ stage = "answered"
    /\ stage' = "fetched" /\ output' = "none"
    /\ UNCHANGED taken

Next == Take \/ Start \/ Reply \/ TimeOut \/ Fetch

Spec == Init /\ [][Next]_vars
=============================================================================
