----------------------------- MODULE MCGameEngine -----------------------------
(***************************************************************************)
(* GameEngine on three weeks.  The delays are long enough for an order and *)
(* for a shipment to come out inside the game, the demand steps above the  *)
(* stock so that backlogs appear and clear, and the factory's capacity is  *)
(* below what it is asked for so that production queues.                   *)
(***************************************************************************)
EXTENDS GameEngine

MCDuration == 3
ByRole(a, b, c, d) ==
    [r \in Role |-> CASE r = "RETAILER" -> a [] r = "WHOLESALER" -> b
                      [] r = "DISTRIBUTOR" -> c [] r = "FACTORY" -> d]

MCInbound    == ByRole(2, 1, 1, 2)
MCOrderDelay == ByRole(1, 2, 1, 1)
MCInventory  == ByRole(3, 2, 0, 1)
MCBacklog    == ByRole(0, 1, 0, 0)
MCPipeline   == ByRole(1, 2, 1, 2)
MCOrders     == ByRole(0, 2, 1, 3)
MCHolding    == ByRole(1, 1, 2, 1)
MCBacklogCost == ByRole(2, 3, 2, 2)
MCFixed      == ByRole(5, 0, 5, 7)
MCUnit       == ByRole(1, 2, 0, 1)
MCDemand     == {[w \in 1..3 |-> IF w = 2 THEN 6 ELSE 1]}
MCQuantities == ByRole({0, 4}, {3}, {2}, {5})
MCBots       == {{"WHOLESALER"}}
MCSwappable  == {"WHOLESALER"}
===============================================================================
