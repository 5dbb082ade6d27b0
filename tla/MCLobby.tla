------------------------------- MODULE MCLobby --------------------------------
(***************************************************************************)
(* Lobby with two seats and three people, one of them with two connections *)
(* and the host's secret: a room that fills up, tabs that replace one      *)
(* another, a host who also plays.                                         *)
(***************************************************************************)
EXTENDS Lobby, TLC

CONSTANTS TabA, TabB, Phone, Late, Ann, Bob, Cid

MCSid == {TabA, TabB, Phone, Late}
MCSecret == {TabA}
MCIdentityOf == TabA :> Ann @@ TabB :> Ann @@ Phone :> Bob @@ Late :> Cid

\* The two people without a secret, each with a connection.
Interchangeable ==
    {p \in Permutations({Phone, Late, Bob, Cid}) :
        /\ {p[Bob], p[Cid]} = {Bob, Cid}
        /\ p[Phone] = IF p[Bob] = Bob THEN Phone ELSE Late}
===============================================================================
