----------------------------- MODULE RoomDocument -----------------------------
(***************************************************************************)
(* What the room store promises to the handlers that use it.  A room is    *)
(* opened under a code nobody uses and is there until it lapses.  Until    *)
(* its game ends, every change is made to what the change before it left.  *)
(* The end leaves a copy of the room that is put back later: that loses    *)
(* the changes since the end and no others, and a section that had read    *)
(* the room just before may in turn lose the save of the copy.             *)
(*                                                                         *)
(* RoomStore implements this with documents, a lease, a time to live and   *)
(* the save of finish_game that takes no lock (app/services/               *)
(* state_service.py and game_service.py).                                  *)
(***************************************************************************)
EXTENDS Naturals

CONSTANTS Code

VARIABLES
    rooms,    \* for each code the room there, with how often it was changed
    owed,     \* for each code the copies that may still be put back there
    opened    \* rooms opened so far

vars == <<rooms, owed, opened>>

\* end: the change that ended the game, 0 before; carried: whether the room's last
\* change goes back to the copy its end left.
NoRoom == [born |-> 0, seq |-> 0, end |-> 0, carried |-> FALSE]

Init ==
    /\ rooms = [c \in Code |-> NoRoom]
    /\ owed = [c \in Code |-> {}]
    /\ opened = 0

Open(c) ==
    /\ rooms[c] = NoRoom
    /\ opened' = opened + 1
    /\ rooms' = [rooms EXCEPT ![c] = [NoRoom EXCEPT !.born = opened']]
    /\ UNCHANGED owed

Change(c) ==
    /\ rooms[c] # NoRoom
    /\ rooms' = [rooms EXCEPT ![c].seq = @ + 1]
    /\ UNCHANGED <<owed, opened>>

\* The change that ends the game: only once, and with nothing owed.
End(c) ==
    /\ rooms[c] # NoRoom
    /\ rooms[c].end = 0
    /\ owed[c] = {}
    /\ rooms' = [rooms EXCEPT ![c].seq = @ + 1, ![c].end = rooms[c].seq + 1]
    /\ owed' = [owed EXCEPT ![c] = {rooms'[c]}]
    /\ UNCHANGED opened

\* The copy is put back; one section may have read the room before that.
PutBack(c) ==
    /\ ~rooms[c].carried
    /\ \E d \in owed[c] :
           rooms' = [rooms EXCEPT ![c] = [d EXCEPT !.seq = @ + 1, !.carried = TRUE]]
    /\ \E left \in {{}, {rooms[c]}} : owed' = [owed EXCEPT ![c] = left]
    /\ UNCHANGED opened

\* The section that had read the room before the copy was put back saves.
Undo(c) ==
    /\ rooms[c].carried
    /\ \E d \in owed[c] : rooms' = [rooms EXCEPT ![c] = [d EXCEPT !.seq = @ + 1]]
    /\ owed' = [owed EXCEPT ![c] = {}]
    /\ UNCHANGED opened

\* What is owed is never saved: a process died, or a section refused.
Forget(c) ==
    /\ owed' = [owed EXCEPT ![c] = {}]
    /\ UNCHANGED <<rooms, opened>>

Lapse(c) ==
    /\ owed[c] = {}
    /\ rooms' = [rooms EXCEPT ![c] = NoRoom]
    /\ UNCHANGED <<owed, opened>>

Next ==
    \E c \in Code :
        Open(c) \/ Change(c) \/ End(c) \/ PutBack(c) \/ Undo(c) \/ Forget(c) \/ Lapse(c)

Spec == Init /\ [][Next]_vars
===============================================================================
