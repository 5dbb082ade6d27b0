------------------------------ MODULE MCRoomStore ------------------------------
(***************************************************************************)
(* RoomStore with three calls on two codes: a section, one that waits for  *)
(* its lease, and a creation or a reader beside them.                      *)
(***************************************************************************)
EXTENDS RoomStore

CONSTANTS A1, A2, A3, C1, C2

MCCall == {A1, A2, A3}
MCCode == {C1, C2}
===============================================================================
