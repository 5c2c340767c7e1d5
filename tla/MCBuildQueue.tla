---------------------------- MODULE MCBuildQueue ----------------------------
(***************************************************************************)
(* The build queue with two slots, two places to wait and a reservation    *)
(* set as large as the capacity, which the constructor must clamp.  Five   *)
(* tickets are one more than can be outstanding, so admission is refused   *)
(* in some states, and each class has a ticket to overtake.                *)
(***************************************************************************)
EXTENDS BuildQueue

CONSTANTS i1, i2, i3, b1, b2
MCTicket == {i1, i2, i3, b1, b2}
MCBackground == {b1, b2}
MCCapacityArg == 2
MCMaxQueuedArg == 2
MCReservedArg == 2
=============================================================================
