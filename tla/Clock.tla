------------------------------- MODULE Clock --------------------------------
(***************************************************************************)
(* The wall clock the stores read: time.Now, or the now function a test    *)
(* gives them.  Readings do not go backwards.                              *)
(***************************************************************************)
EXTENDS Naturals

CONSTANT MaxNow      \* bound on the clock

VARIABLE now

ClockInit == now = 0
Tick == now < MaxNow /\ now' = now + 1
=============================================================================
