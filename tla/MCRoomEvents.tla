----------------------------- MODULE MCRoomEvents -----------------------------
(***************************************************************************)
(* RoomEvents with two players and a host, two weeks, and calls that       *)
(* overlap two at a time.                                                  *)
(***************************************************************************)
EXTENDS RoomEvents

CONSTANTS P1, P2, H, T1, T2

MCPlayer == {P1, P2}
MCSeats == <<P1, P2>>
MCTask == {T1, T2}
===============================================================================
