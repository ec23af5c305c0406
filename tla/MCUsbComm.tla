------------------------------ MODULE MCUsbComm ------------------------------
(* Kinds of commands for the instances of UsbComm. *)
EXTENDS UsbComm

AllKinds == {"app", "core", "bad"}
AppKinds == {"app", "bad"}
AppOnly == {"app"}
CoreOnly == {"core"}

=============================================================================
