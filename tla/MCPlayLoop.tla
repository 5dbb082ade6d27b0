------------------------------ MODULE MCPlayLoop ------------------------------
(***************************************************************************)
(* PlayLoop with one player's seat and one bot's: two continuations in     *)
(* flight are enough for a call to run inside another call's gap.          *)
(***************************************************************************)
EXTENDS PlayLoop, TLC

CONSTANTS Player, Bot, T1, T2

MCRole  == {Player, Bot}
MCOwned == {Player}
MCTask  == {T1, T2}

Interchangeable == Permutations(MCTask)
===============================================================================
