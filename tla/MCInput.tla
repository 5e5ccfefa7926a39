------------------------------ MODULE MCInput -------------------------------
(***************************************************************************)
(* Up to three scan codes, the timer, and one device on the slave PIC; a   *)
(* fault with and one without an error code.                               *)
(***************************************************************************)
EXTENDS Input

MCCodes == {"enter", "dead", "shift"}
MCKeys == {"letter", "enter"}
MCDevices == {0, 12}
MCTimerOnly == {0}
MCFaults == {6, 14}
MCNoFaults == {}

=============================================================================
