------------------------------ MODULE MCResults -------------------------------
(***************************************************************************)
(* Results on two games with one seat and a host each.  Ann hosts the      *)
(* first and plays the second, a guest plays the first and hosts the       *)
(* second; two accounts claim that guest, and a game is handed over twice. *)
(***************************************************************************)
EXTENDS Results, TLC

CONSTANTS Spring, Autumn, Retailer, Ann, Bob, Visitor, S1, S2

MCGame    == {Spring, Autumn}
MCSeat    == {Retailer}
MCAccount == {Ann, Bob}
MCGuest   == {Visitor}
MCSession == {S1, S2}

\* One process: one event loop, and one of its worker threads.
MCLoop   == {S1}
MCWorker == {S2}

MCSeated ==
    Spring :> (Host :> Ann @@ Retailer :> Visitor)
      @@ Autumn :> (Host :> Visitor @@ Retailer :> Ann)

Interchangeable == Permutations(MCSession)
===============================================================================
