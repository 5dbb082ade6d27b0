------------------------------ MODULE GameEngine ------------------------------
(***************************************************************************)
(* The week machine of app/core/game_engine.py, with the role agents of    *)
(* app/core/agents.py and the FIFO of app/core/pipeline.py it drives.      *)
(*                                                                         *)
(* A week is Phase A (every role receives, ships and is charged for what   *)
(* it carries), then Phase B (DECISION: orders are collected) and Phase C  *)
(* (orders are charged and routed upstream).  close_week runs Phase C for  *)
(* the open week and Phase A of the next one in a single call, so one      *)
(* action does both.  Money is an integer number of the smallest unit.     *)
(***************************************************************************)
EXTENDS Integers, Sequences, FiniteSets

CONSTANTS
    DurationWeeks,     \* config.duration_weeks
    InboundDelay,      \* [Role -> Nat]: shipping delay, production delay for FACTORY
    OrderDelay,        \* [Role -> Nat]: information_delay_weeks
    InitialInventory, InitialBacklog,
    InitialPipeline,   \* initial_pipeline_quantity
    InitialOrders,     \* initial_order_in_pipeline
    HoldingCost, BacklogCost, FixedOrderCost, UnitCost,
    Capacity,          \* production_capacity_per_week, or Unlimited
    Unlimited,
    DemandSeries,      \* the demand series the generator may produce
    Quantities,        \* [Role -> SUBSET Nat]: the orders a role may try
    MaxOrder,          \* visibility.max_order_quantity
    BotRoles,          \* the possible `bot_roles` of start()
    Swappable,         \* the roles whose seat set_bot may hand over
    NoOrder            \* "no entry in pending_orders"

Role == {"RETAILER", "WHOLESALER", "DISTRIBUTOR", "FACTORY"}

Upstream == [r \in Role \ {"FACTORY"} |->
    CASE r = "RETAILER" -> "WHOLESALER"
      [] r = "WHOLESALER" -> "DISTRIBUTOR"
      [] r = "DISTRIBUTOR" -> "FACTORY"]

Downstream == [r \in Role \ {"RETAILER"} |->
    CASE r = "WHOLESALER" -> "RETAILER"
      [] r = "DISTRIBUTOR" -> "WHOLESALER"
      [] r = "FACTORY" -> "DISTRIBUTOR"]

ASSUME WeeksAssumption == DurationWeeks \in Nat \ {0}
ASSUME DelaysAssumption ==
    /\ InboundDelay \in [Role -> Nat \ {0}]
    /\ OrderDelay \in [Role -> Nat \ {0}]
ASSUME StartAssumption ==
    /\ InitialInventory \in [Role -> Nat]
    /\ InitialBacklog \in [Role -> Nat]
    /\ InitialPipeline \in [Role -> Nat]
    /\ InitialOrders \in [Role -> Nat]
ASSUME CostsAssumption ==
    /\ HoldingCost \in [Role -> Nat]
    /\ BacklogCost \in [Role -> Nat]
    /\ FixedOrderCost \in [Role -> Nat]
    /\ UnitCost \in [Role -> Nat]
ASSUME CapacityAssumption == Unlimited \notin Nat /\ Capacity \in (Nat \ {0}) \cup {Unlimited}
ASSUME DemandAssumption == DemandSeries \subseteq [1..DurationWeeks -> Nat]
ASSUME QuantitiesAssumption == Quantities \in [Role -> SUBSET Nat] /\ MaxOrder \in Nat
ASSUME BotsAssumption == BotRoles \subseteq SUBSET Role /\ Swappable \subseteq Role
ASSUME NoOrderAssumption == NoOrder \notin Nat

VARIABLES
    demand,       \* demand_series
    week,         \* the week open for decisions
    phase,        \* "DECISION" or "FINISHED": start() leaves AWAITING_START at once
    agents,       \* one RoleAgent per role
    pending,      \* pending_orders
    pendingByBot, \* pending_by_bot
    settlements,  \* Phase A output for the open week
    history       \* one record per role for each closed week

vars == <<demand, week, phase, agents, pending, pendingByBot, settlements, history>>

-------------------------------------------------------------------------------
(* Pipelines: a FIFO advanced at the front once a week and pushed at the back. *)

\* Mutant of Filled: one slot too many.
FilledOneLong(length, fill) == [i \in 1..(length + 1) |-> fill]

Filled(length, fill) == [i \in 1..length |-> fill]

Total(slots) ==
    LET sum[i \in 0..Len(slots)] == IF i = 0 THEN 0 ELSE sum[i - 1] + slots[i]
    IN  sum[Len(slots)]

Push(slots, qty) == Append(slots, qty)

Minimum(a, b) == IF a <= b THEN a ELSE b

NewAgent(r, bots) ==
    [inventory        |-> InitialInventory[r],
     backlog          |-> InitialBacklog[r],
     shipments        |-> Filled(InboundDelay[r], InitialPipeline[r]),
     orders           |-> IF r = "RETAILER" THEN <<>>
                          ELSE Filled(OrderDelay[r], InitialOrders[r]),
     accumulated_cost |-> 0,
     is_bot           |-> r \in bots,
     production_queue |-> 0]

-------------------------------------------------------------------------------
(* Phase A.                                                                    *)

\* Mutant of Shipped: only this week's order is shipped against.
ShippedWithoutBacklog(stock, incoming, backlog) == Minimum(stock, incoming)

Shipped(stock, incoming, backlog) == Minimum(stock, incoming + backlog)

\* settle(): receive, ship what is owed as far as stock goes, and be charged on
\* the closing inventory and backlog.
Settle(r, a, arriving, incoming) ==
    LET stock      == a.inventory + arriving
        obligation == incoming + a.backlog
        shipped    == Shipped(stock, incoming, a.backlog)
    IN  [arrived           |-> arriving,
         incoming_order    |-> incoming,
         shipped           |-> shipped,
         closing_inventory |-> stock - shipped,
         closing_backlog   |-> obligation - shipped,
         carrying_cost     |-> HoldingCost[r] * (stock - shipped)
                                 + BacklogCost[r] * (obligation - shipped)]

\* Pass 1 pops both pipelines of every role, so pass 2 settles on fronts only.
Settlements(ag, w) ==
    [r \in Role |->
        Settle(r, ag[r], Head(ag[r].shipments),
               IF r = "RETAILER" THEN demand[w] ELSE Head(ag[r].orders))]

\* Mutant of Carried: the charge made when the week opened is made again.
CarriedTwice(a, st) == a.accumulated_cost + 2 * st.carrying_cost

Carried(a, st) == a.accumulated_cost + st.carrying_cost

\* What pass 1 and pass 2 leave in the agents: fronts gone, the shipment of the
\* supplier pushed at the back, the carrying cost charged.
AfterPhaseA(ag, st) ==
    [r \in Role |->
        [ag[r] EXCEPT
            !.inventory = st[r].closing_inventory,
            !.backlog = st[r].closing_backlog,
            !.shipments = IF r = "FACTORY" THEN Tail(@)
                          ELSE Push(Tail(@), st[Upstream[r]].shipped),
            !.orders = IF r = "RETAILER" THEN @ ELSE Tail(@),
            !.accumulated_cost = Carried(ag[r], st[r])]]

-------------------------------------------------------------------------------
(* Phase C.                                                                    *)

\* A missing order is recorded as 0.
Decision(p, r) == IF p[r] = NoOrder THEN 0 ELSE p[r]

\* An order of 0 is not an order: no fixed cost.
OrderCost(r, qty) == (IF qty > 0 THEN FixedOrderCost[r] ELSE 0) + UnitCost[r] * qty

\* Mutant of Requested: what was queued is forgotten when the next order comes.
RequestedForgettingQueue(ag, qty) == qty

\* start_production(): capacity applied to the order and the queue together.
Requested(ag, qty) == qty + ag["FACTORY"].production_queue

Started(ag, qty) ==
    IF Capacity = Unlimited THEN Requested(ag, qty)
    ELSE Minimum(Requested(ag, qty), Capacity)

\* Mutant of OrderInto: a role's order goes into its own order pipeline.
OrderIntoOwn(p, r) == Decision(p, r)

\* An order goes into the order pipeline of the role upstream of the one that
\* placed it, so what reaches r is the decision of its downstream neighbour.
OrderInto(p, r) == Decision(p, Downstream[r])

AfterPhaseC(ag, p) ==
    LET qty == Decision(p, "FACTORY")
    IN  [r \in Role |->
            [ag[r] EXCEPT
                !.accumulated_cost = @ + OrderCost(r, Decision(p, r)),
                !.orders = IF r = "RETAILER" THEN @
                           ELSE Push(@, OrderInto(p, r)),
                !.shipments = IF r = "FACTORY" THEN Push(@, Started(ag, qty)) ELSE @,
                !.production_queue =
                    IF r = "FACTORY" THEN Requested(ag, qty) - Started(ag, qty) ELSE @]]

\* Mutant of Sampled: the pipelines are read after Phase C.
SampledLate(before, after) == after

\* The agents whose pipelines a record reports: those Phase A left (pass 3), which
\* from_payload re-derives because nothing touches a pipeline until Phase C.
Sampled(before, after) == before

\* _build_record(): the settlement, the charge, who placed the order that stands
\* and the sampled pipelines, of which the code records the totals.
Record(r, before, after) ==
    [settlement             |-> settlements[r],
     order                  |-> Decision(pending, r),
     was_bot                |-> IF pending[r] = NoOrder THEN before[r].is_bot
                                ELSE r \in pendingByBot,
     was_forced             |-> pending[r] = NoOrder,
     total_week_cost        |-> settlements[r].carrying_cost
                                  + OrderCost(r, Decision(pending, r)),
     cumulative_cost        |-> after[r].accumulated_cost,
     supply_line_after      |-> Sampled(before, after)[r].shipments,
     orders_in_flight_after |-> Sampled(before, after)[r].orders,
     production_started     |-> IF r = "FACTORY"
                                THEN Started(before, Decision(pending, r)) ELSE 0]

-------------------------------------------------------------------------------
(* The operations.                                                             *)

Init ==
    \E series \in DemandSeries, bots \in BotRoles :
        /\ demand = series
        /\ week = 1
        /\ phase = "DECISION"
        /\ pending = [r \in Role |-> NoOrder]
        /\ pendingByBot = {}
        /\ history = <<>>
        /\ LET fresh == [r \in Role |-> NewAgent(r, bots)]
           IN  /\ settlements = Settlements(fresh, 1)
               /\ agents = AfterPhaseA(fresh, settlements)

\* submit_order(): replaces an earlier order of the role, and remembers whether
\* the seat was a bot's when it was placed.  An order out of bounds is refused.
SubmitOrder(r, qty) ==
    /\ phase = "DECISION"
    /\ qty <= MaxOrder
    /\ pending' = [pending EXCEPT ![r] = qty]
    /\ pendingByBot' = IF agents[r].is_bot THEN pendingByBot \cup {r}
                       ELSE pendingByBot \ {r}
    /\ UNCHANGED <<demand, week, phase, agents, settlements, history>>

AllOrdersIn == \A r \in Role : pending[r] # NoOrder

\* Mutant of CloseWeek: the next week is not opened, so the same one closes again.
CloseWeekStaying(force) ==
    /\ phase = "DECISION"
    /\ AllOrdersIn \/ force
    /\ LET after == AfterPhaseC(agents, pending)
       IN  /\ history' = Append(history, [r \in Role |-> Record(r, agents, after)])
           /\ pending' = [r \in Role |-> NoOrder]
           /\ pendingByBot' = {}
           /\ agents' = after
           /\ phase' = IF week >= DurationWeeks THEN "FINISHED" ELSE phase
    /\ UNCHANGED <<demand, week, settlements>>

\* close_week(force): Phase C, the records, and either the end of the game or
\* Phase A of the next week.  The counter stays on the last week at the end.
CloseWeek(force) ==
    /\ phase = "DECISION"
    /\ AllOrdersIn \/ force
    /\ LET after == AfterPhaseC(agents, pending)
       IN  /\ history' = Append(history, [r \in Role |-> Record(r, agents, after)])
           /\ pending' = [r \in Role |-> NoOrder]
           /\ pendingByBot' = {}
           /\ IF week >= DurationWeeks
              THEN /\ phase' = "FINISHED"
                   /\ agents' = after
                   /\ UNCHANGED <<week, settlements>>
              ELSE /\ week' = week + 1
                   /\ settlements' = Settlements(after, week + 1)
                   /\ agents' = AfterPhaseA(after, settlements')
                   /\ UNCHANGED phase
    /\ UNCHANGED demand

WeeksPlayed == Len(history)

\* _previous_cumulative(): the role's cost at the last closed week, else 0.
PreviousCumulative(r) ==
    IF history = <<>> THEN 0 ELSE history[Len(history)][r].cumulative_cost

\* Mutant of EndEarly: the open week's charge is left in.
EndEarlyKeepingCharge ==
    /\ phase # "FINISHED"
    /\ phase' = "FINISHED"
    /\ UNCHANGED <<demand, week, agents, pending, pendingByBot, settlements, history>>

\* Mutant of EndEarly: the open week is recorded as if it had been played.
EndEarlyRecordingWeek ==
    /\ phase # "FINISHED"
    /\ phase' = "FINISHED"
    /\ history' = Append(history, [r \in Role |-> Record(r, agents, agents)])
    /\ UNCHANGED <<demand, week, agents, pending, pendingByBot, settlements>>

\* end_early(): the open week has been charged but not played; the charge is
\* rolled back by restoring the recorded total.
EndEarly ==
    /\ phase # "FINISHED"
    /\ agents' = [r \in Role |->
                    [agents[r] EXCEPT !.accumulated_cost = PreviousCumulative(r)]]
    /\ phase' = "FINISHED"
    /\ UNCHANGED <<demand, week, pending, pendingByBot, settlements, history>>

\* set_bot(): legal in any phase; an order already in keeps its attribution.
SetBot(r, flag) ==
    /\ agents' = [agents EXCEPT ![r].is_bot = flag]
    /\ UNCHANGED <<demand, week, phase, pending, pendingByBot, settlements, history>>

Next ==
    \/ \E r \in Role : \E qty \in Quantities[r] : SubmitOrder(r, qty)
    \/ \E force \in BOOLEAN : CloseWeek(force)
    \/ EndEarly
    \/ \E r \in Swappable, flag \in BOOLEAN : SetBot(r, flag)

Spec == Init /\ [][Next]_vars

-------------------------------------------------------------------------------
(* Properties.                                                                 *)

Settlement ==
    [arrived : Nat, incoming_order : Nat, shipped : Nat, closing_inventory : Nat,
     closing_backlog : Nat, carrying_cost : Nat]

Agent ==
    [inventory : Nat, backlog : Nat, shipments : Seq(Nat), orders : Seq(Nat),
     accumulated_cost : Nat, is_bot : BOOLEAN, production_queue : Nat]

WeekRecord ==
    [settlement : Settlement, order : Nat, was_bot : BOOLEAN, was_forced : BOOLEAN,
     total_week_cost : Nat, cumulative_cost : Nat, supply_line_after : Seq(Nat),
     orders_in_flight_after : Seq(Nat), production_started : Nat]

\* Outside a settlement cycle the shipment pipeline of every role but the factory
\* is full; the factory's and the order pipelines wait for Phase C one slot short.
Gap == IF phase = "DECISION" \/ Len(history) < week THEN 1 ELSE 0

PipelineLengths ==
    \A r \in Role :
        /\ Len(agents[r].shipments) =
               InboundDelay[r] - (IF r = "FACTORY" THEN Gap ELSE 0)
        /\ r # "RETAILER" => Len(agents[r].orders) = OrderDelay[r] - Gap

\* The types, with the pipeline lengths that `Pipeline.length` promises
\* (pipeline.py: advance leaves the FIFO one slot short, push restores it).
TypeOK ==
    /\ demand \in [1..DurationWeeks -> Nat]
    /\ week \in 1..DurationWeeks
    /\ phase \in {"DECISION", "FINISHED"}
    /\ agents \in [Role -> Agent]
    /\ pending \in [Role -> Nat \cup {NoOrder}]
    /\ pendingByBot \subseteq Role
    /\ settlements \in [Role -> Settlement]
    /\ history \in Seq([Role -> WeekRecord])
    /\ PipelineLengths

\* Settled weeks: the closed ones and, while it is not in the history, the open one.
SettledWeeks == Len(history) + (IF Len(history) < week THEN 1 ELSE 0)

SettlementOf(w, r) ==
    IF w <= Len(history) THEN history[w][r].settlement ELSE settlements[r]

\* A role never holds stock while it owes units (agents.py _check_invariants),
\* in the agents and in every settlement of the history.
StockOrBacklog ==
    /\ \A r \in Role : agents[r].inventory = 0 \/ agents[r].backlog = 0
    /\ \A r \in Role, w \in 1..SettledWeeks :
           \/ SettlementOf(w, r).closing_inventory = 0
           \/ SettlementOf(w, r).closing_backlog = 0

\* Every order reaches the supplier exactly its order delay later, every shipment
\* the customer its shipping delay later, every batch started the factory's stock
\* its production delay later: the weeks order_arrival_lead_weeks promises.
OnTime ==
    \A w \in 1..Len(history) : \A r \in Role :
        /\ (r # "FACTORY" /\ w + OrderDelay[Upstream[r]] <= SettledWeeks) =>
               SettlementOf(w + OrderDelay[Upstream[r]], Upstream[r]).incoming_order
                   = history[w][r].order
        /\ w + InboundDelay[r] <= SettledWeeks =>
               SettlementOf(w + InboundDelay[r], r).arrived =
                   IF r = "FACTORY" THEN history[w][r].production_started
                   ELSE SettlementOf(w, Upstream[r]).shipped

\* Stock, goods in transit and orders still owed to a role, wherever they are.
InventoryPosition(r) ==
    agents[r].inventory - agents[r].backlog + Total(agents[r].shipments)
      + IF r = "FACTORY" THEN agents[r].production_queue
        ELSE agents[Upstream[r]].backlog + Total(agents[Upstream[r]].orders)

InitialPosition(r) ==
    InitialInventory[r] - InitialBacklog[r] + InboundDelay[r] * InitialPipeline[r]
      + IF r = "FACTORY" THEN 0
        ELSE InitialBacklog[Upstream[r]]
               + OrderDelay[Upstream[r]] * InitialOrders[Upstream[r]]

\* No unit and no order is lost or invented between the four roles: a role's
\* position is where it started, plus all it ordered, less all that was asked of
\* it, through forced weeks, a capacity queue and an early end.
NothingLost ==
    \A r \in Role :
        InventoryPosition(r) =
            InitialPosition(r)
              + Total([w \in 1..Len(history) |-> history[w][r].order])
              - Total([w \in 1..SettledWeeks |-> SettlementOf(w, r).incoming_order])

\* The running total a player or the host sees agrees with the records: the last
\* recorded cumulative cost, plus the carrying cost of the week that is open, and
\* a week abandoned by end_early costs nothing.
RunningCosts ==
    \A r \in Role :
        agents[r].accumulated_cost =
            PreviousCumulative(r)
              + IF phase = "DECISION" THEN settlements[r].carrying_cost ELSE 0

\* A cumulative cost is the sum of the weekly costs recorded up to it, so the charge
\* of a week is made in Phase A and in Phase C once each.
RecordedCosts ==
    \A r \in Role :
        PreviousCumulative(r) =
            Total([w \in 1..Len(history) |-> history[w][r].total_week_cost])

\* What a record says was in transit is what the following weeks deliver: the
\* sample is taken after every shipment line was refilled and before Phase C.
SampledInTransit ==
    \A w \in 1..Len(history) : \A r \in Role :
        LET goods  == InboundDelay[r] - (IF r = "FACTORY" THEN 1 ELSE 0)
            orders == OrderDelay[r] - 1
        IN  /\ w + goods <= SettledWeeks =>
                   Total(history[w][r].supply_line_after) =
                       Total([k \in 1..goods |-> SettlementOf(w + k, r).arrived])
            /\ (r # "RETAILER" /\ w + orders <= SettledWeeks) =>
                   Total(history[w][r].orders_in_flight_after) =
                       Total([k \in 1..orders |-> SettlementOf(w + k, r).incoming_order])

\* A closed week is final, a game that is over stays over, and no week is skipped
\* or played twice: whatever else a call does, the history only grows by the week
\* that was open, and after the end only a seat's bot flag can change.
PlayedWeeksAreFinal ==
    [][ /\ history' # history =>
               /\ phase = "DECISION"
               /\ Len(history) = week - 1
               /\ history' = Append(history, history'[week])
        /\ week' # week => week' = Len(history') + 1
        /\ phase = "FINISHED" =>
               /\ phase' = "FINISHED"
               /\ UNCHANGED <<week, history, pending>>
               /\ \A r \in Role :
                      agents'[r] = [agents[r] EXCEPT !.is_bot = agents'[r].is_bot]
      ]_vars

\* The engine plays the game WeekMachine promises.
Promise == INSTANCE WeekMachine WITH
    open   <- week,
    over   <- phase = "FINISHED",
    taken  <- {r \in Role : pending[r] # NoOrder},
    missed <- [w \in 1..Len(history) |-> {r \in Role : history[w][r].was_forced}]

ImplementsWeekMachine == Promise!Spec
===============================================================================
