----------------------------- MODULE WeekMachine ------------------------------
(***************************************************************************)
(* What a game promises about its weeks, whoever plays them and however    *)
(* the calls interleave: weeks are played one at a time and in order, each *)
(* is closed exactly once, an order that was taken for the open week is in *)
(* that week when it closes, a closed week never changes, and a game that  *)
(* is over stays over.  GameEngine implements this with its own operations *)
(* (app/core/game_engine.py), PlayLoop with room documents and concurrent  *)
(* tasks (app/services/game_service.py).                                   *)
(***************************************************************************)
EXTENDS Naturals, Sequences

CONSTANTS Role, DurationWeeks

VARIABLES
    open,    \* the week open for decisions
    over,    \* the game has ended
    taken,   \* the roles with an order for the open week
    missed   \* for each closed week, the roles that had no order in it

vars == <<open, over, taken, missed>>

Init ==
    /\ open = 1
    /\ over = FALSE
    /\ taken = {}
    /\ missed = <<>>

\* Orders are taken, from one player or from every bot that is due.
Take(roles) ==
    /\ ~over
    /\ taken' = taken \cup roles
    /\ UNCHANGED <<open, over, missed>>

\* The open week closes; the last week ends the game and stays open.
Close ==
    /\ ~over
    /\ missed' = Append(missed, Role \ taken)
    /\ taken' = {}
    /\ open' = IF open >= DurationWeeks THEN open ELSE open + 1
    /\ over' = (open >= DurationWeeks)

\* The game ends inside the open week, which is not recorded.
Abandon ==
    /\ ~over
    /\ over' = TRUE
    /\ UNCHANGED <<open, taken, missed>>

Next ==
    \/ \E roles \in SUBSET Role : Take(roles)
    \/ Close
    \/ Abandon

Spec == Init /\ [][Next]_vars
===============================================================================
