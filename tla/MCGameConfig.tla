---------------------------- MODULE MCGameConfig ----------------------------
(***************************************************************************)
(* GameConfig with two roles, games of two to four weeks and a host who    *)
(* sends good values, fractions, values out of range and no numbers at     *)
(* all, one field or two at a time, in any order.  Numbers are in halves.  *)
(***************************************************************************)
EXTENDS GameConfig, TLC

MCRole == {"RETAILER", "FACTORY"}
MCFactory == "FACTORY"

MCLimits ==
    [minWeeks |-> 2, maxWeeks |-> 4, minDelay |-> 1, maxDelay |-> 2,
     maxInitial |-> 3, maxOrder |-> 3, maxValue |-> 2, maxWeight |-> 1,
     maxSeed |-> 1, minStepWeek |-> 2, minPeriod |-> 2, maxPeriod |-> 4]

MCDefault ==
    [game |-> [duration_weeks |-> 6, bot_fill_empty_roles |-> 0],
     role |-> [initial_inventory |-> 4, shipping_delay_weeks |-> 2, holding_cost |-> 1,
               production_delay_weeks |-> 2],
     visibility |-> [show_all_inventories |-> 0],
     bot |-> [theta |-> 1],
     demand |-> [value |-> 2, initial_value |-> 2, step_week |-> 4, step_value |-> 4,
                 slope_per_week |-> 2, start_week |-> 4, base |-> 4, amplitude |-> 2,
                 period_weeks |-> 8, min |-> 0, max |-> 4]]

Preset(weeks, inventory, demand) ==
    LET common == [initial_inventory |-> inventory, shipping_delay_weeks |-> 2, holding_cost |-> 1]
    IN  [game |-> [duration_weeks |-> weeks, bot_fill_empty_roles |-> 0, random_seed |-> None],
         roles |-> ("RETAILER" :> common) @@
                   ("FACTORY" :> (common @@ [production_delay_weeks |-> 2,
                                             production_capacity_per_week |-> None])),
         demand |-> demand,
         visibility |-> [show_all_inventories |-> 0, max_order_quantity |-> None],
         bot |-> [theta |-> 1]]

MCPresets ==
    {Preset(6, 4, [kind |-> "STEP", initial_value |-> 2, step_week |-> 4, step_value |-> 4]),
     Preset(8, 4, [kind |-> "STOCHASTIC", min |-> 0, max |-> 4])}

Field(name, values) == {name :> v : v \in values}
Named(section, patches) == {section :> p : p \in patches}

GamePatches ==
    Field("duration_weeks", {4, 7, 10, Unusable})
      \cup Field("random_seed", {0, 2, 4, None, Unusable, NonFinite})

RolePatches ==
    Field("RETAILER", Field("initial_inventory", {5, 9, -1})
                        \cup Field("shipping_delay_weeks", {1, 4}) \cup {Unusable})
      \cup Field("FACTORY", Field("production_capacity_per_week", {0, 1, 3, 8, -2})
                               \cup Field("production_delay_weeks", {1, None}))

DemandPatches ==
    {[kind |-> "CONSTANT", value |-> -1], [kind |-> "STEP"],
     [kind |-> "STEP", step_week |-> 8],
     [kind |-> "RAMP", slope_per_week |-> 1, start_week |-> 2],
     [kind |-> "RAMP", slope_per_week |-> -3, cap |-> 2],
     [kind |-> "SEASONAL", amplitude |-> 6], [kind |-> "SEASONAL", period_weeks |-> 2],
     [kind |-> "STOCHASTIC", min |-> 6, max |-> 2],
     [kind |-> "CUSTOM", values |-> <<2, 0, 5>>], [kind |-> "CUSTOM", values |-> <<2, -1, 4>>],
     [kind |-> "CUSTOM"], [kind |-> Unusable],
     [step_week |-> 6], [max |-> 2], [min |-> 5], [value |-> 4], Unusable}

OtherPatches ==
    Named("visibility", Field("max_order_quantity", {1, 2}) \cup {Unusable})
      \cup Named("bot", Field("theta", {0, 3, Unusable}))

MCPatches ==
    Named("game", GamePatches) \cup Named("roles", RolePatches)
      \cup Named("demand", DemandPatches) \cup OtherPatches
      \cup {[game |-> [duration_weeks |-> 8], demand |-> [kind |-> "STEP", step_week |-> 8]],
            [game |-> [duration_weeks |-> 4], demand |-> [kind |-> "CUSTOM", values |-> <<6, 2>>]]}

MCDraws == {0, 2}
MCDrawn == [s \in {-2, 0, 2} |-> IF s = 0 THEN <<1, 0, 2, 4>> ELSE <<3, -1, 1, 0>>]

MCSine ==
    [p \in 2..4 |->
        CASE p = 2 -> [k \in 0..1 |-> 0]
          [] p = 3 -> [k \in 0..2 |-> IF k = 0 THEN 0 ELSE IF k = 1 THEN 1 ELSE -1]
          [] p = 4 -> [k \in 0..3 |-> IF k = 1 THEN 2 ELSE IF k = 3 THEN -2 ELSE 0]]
=============================================================================
