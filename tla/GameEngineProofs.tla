--------------------------- MODULE GameEngineProofs ---------------------------
(***************************************************************************)
(* Theorems about GameEngine, for any configuration: durations, delays,    *)
(* costs, capacities, demand series and order quantities.                  *)
(*                                                                         *)
(* First its types, records and clocks; then what it adds up: no unit and  *)
(* no order is lost between the roles, a cumulative cost is the sum of the *)
(* weekly ones, a record's transit totals are what the next weeks deliver. *)
(* A total is a recursive function of the number of slots.  The library's  *)
(* induction takes a predicate; stated as a set of numbers, induction      *)
(* follows from the library's well-foundedness of Nat.                     *)
(***************************************************************************)
EXTENDS GameEngine, TLAPS, WellFoundedInduction

-------------------------------------------------------------------------------
(* Pipelines and agents.                                                       *)

\* A new pipeline.
LEMMA FilledTyped ==
    ASSUME NEW length \in Nat, NEW fill \in Nat
    PROVE  Filled(length, fill) \in Seq(Nat) /\ Len(Filled(length, fill)) = length
  BY DEF Filled

\* A slot leaves at the front.
LEMMA TailTyped ==
    ASSUME NEW slots \in Seq(Nat), Len(slots) > 0
    PROVE  /\ Head(slots) \in Nat
           /\ Tail(slots) \in Seq(Nat) /\ Len(Tail(slots)) = Len(slots) - 1
  OBVIOUS

\* A slot comes in at the back.
LEMMA PushTyped ==
    ASSUME NEW slots \in Seq(Nat), NEW qty \in Nat
    PROVE  Push(slots, qty) \in Seq(Nat) /\ Len(Push(slots, qty)) = Len(slots) + 1
  BY DEF Push

\* Costs and quantities multiply to amounts.
LEMMA Products ==
    ASSUME NEW a \in Nat, NEW b \in Nat
    PROVE  a * b \in Nat
  OBVIOUS

\* An agent is put together from its parts.
LEMMA AgentTyped ==
    ASSUME NEW inventory \in Nat, NEW backlog \in Nat, NEW shipments \in Seq(Nat),
           NEW orders \in Seq(Nat), NEW cost \in Nat, NEW bot \in BOOLEAN, NEW queue \in Nat
    PROVE  [inventory |-> inventory, backlog |-> backlog, shipments |-> shipments,
            orders |-> orders, accumulated_cost |-> cost, is_bot |-> bot,
            production_queue |-> queue] \in Agent
  BY Zenon DEF Agent

\* Neighbours are roles.
LEMMA Neighbours ==
    /\ \A r \in Role \ {"FACTORY"} : Upstream[r] \in Role
    /\ \A r \in Role \ {"RETAILER"} : Downstream[r] \in Role
  BY DEF Role, Upstream, Downstream

\* Every pipeline holds as many slots as its delay.
Full(ag) ==
    \A r \in Role :
        /\ Len(ag[r].shipments) = InboundDelay[r]
        /\ r # "RETAILER" => Len(ag[r].orders) = OrderDelay[r]

\* Between Phase A and Phase C the order pipelines and the factory's own shipments
\* wait for what Phase C pushes.
Waiting(ag) ==
    \A r \in Role :
        /\ Len(ag[r].shipments) = InboundDelay[r] - (IF r = "FACTORY" THEN 1 ELSE 0)
        /\ r # "RETAILER" => Len(ag[r].orders) = OrderDelay[r] - 1

\* The agents a game starts with.
LEMMA NewAgentsTyped ==
    ASSUME NEW bots \in SUBSET Role
    PROVE  LET fresh == [r \in Role |-> NewAgent(r, bots)]
           IN  fresh \in [Role -> Agent] /\ Full(fresh)
  <1> DEFINE fresh == [r \in Role |-> NewAgent(r, bots)]
  <1>1. ASSUME NEW r \in Role
        PROVE  /\ InitialInventory[r] \in Nat /\ InitialBacklog[r] \in Nat
               /\ Filled(InboundDelay[r], InitialPipeline[r]) \in Seq(Nat)
               /\ Filled(OrderDelay[r], InitialOrders[r]) \in Seq(Nat)
               /\ Len(Filled(InboundDelay[r], InitialPipeline[r])) = InboundDelay[r]
               /\ Len(Filled(OrderDelay[r], InitialOrders[r])) = OrderDelay[r]
    <2>1. /\ InboundDelay[r] \in Nat /\ OrderDelay[r] \in Nat
          /\ InitialPipeline[r] \in Nat /\ InitialOrders[r] \in Nat
          /\ InitialInventory[r] \in Nat /\ InitialBacklog[r] \in Nat
      BY DelaysAssumption, StartAssumption
    <2>. QED BY <2>1, FilledTyped
  <1>2. ASSUME NEW r \in Role PROVE NewAgent(r, bots) \in Agent
    <2>1. (r \in bots) \in BOOLEAN
      OBVIOUS
    <2>2. (IF r = "RETAILER" THEN <<>> ELSE Filled(OrderDelay[r], InitialOrders[r])) \in Seq(Nat)
      BY <1>1
    <2>3. 0 \in Nat
      OBVIOUS
    <2>. QED BY <1>1, <2>1, <2>2, <2>3, AgentTyped DEF NewAgent
  <1>3. Full(fresh)
    BY <1>1 DEF Full, NewAgent
  <1>. QED BY <1>2, <1>3

-------------------------------------------------------------------------------
(* Phase A.                                                                    *)

\* What a settlement returns; stock and backlog are never both left.
LEMMA SettleTyped ==
    ASSUME NEW r \in Role, NEW a \in Agent, NEW arriving \in Nat, NEW incoming \in Nat
    PROVE  LET st == Settle(r, a, arriving, incoming)
           IN  /\ st \in Settlement
               /\ st.closing_inventory = 0 \/ st.closing_backlog = 0
  <1> DEFINE stock      == a.inventory + arriving
             obligation == incoming + a.backlog
             shipped    == Shipped(stock, incoming, a.backlog)
             st         == Settle(r, a, arriving, incoming)
  <1>1. a.inventory \in Nat /\ a.backlog \in Nat
    BY DEF Agent
  <1>2. /\ shipped \in Nat /\ stock - shipped \in Nat /\ obligation - shipped \in Nat
        /\ stock - shipped = 0 \/ obligation - shipped = 0
    BY <1>1 DEF Shipped, Minimum
  <1>3. /\ HoldingCost[r] * (stock - shipped) \in Nat
        /\ BacklogCost[r] * (obligation - shipped) \in Nat
    <2>1. HoldingCost[r] \in Nat /\ BacklogCost[r] \in Nat
      BY CostsAssumption
    <2>. QED BY <1>2, <2>1, Products
  <1>4. HoldingCost[r] * (stock - shipped) + BacklogCost[r] * (obligation - shipped) \in Nat
    BY <1>3
  <1>5. st = [arrived |-> arriving, incoming_order |-> incoming, shipped |-> shipped,
              closing_inventory |-> stock - shipped, closing_backlog |-> obligation - shipped,
              carrying_cost |-> HoldingCost[r] * (stock - shipped)
                                  + BacklogCost[r] * (obligation - shipped)]
    BY DEF Settle
  <1> HIDE DEF stock, obligation, shipped, st
  <1>6. st \in Settlement
    BY <1>2, <1>4, <1>5 DEF Settlement
  <1>. QED BY <1>2, <1>5, <1>6 DEF st

\* All roles settle.
LEMMA SettlementsTyped ==
    ASSUME NEW ag \in [Role -> Agent], Full(ag), NEW w \in 1..DurationWeeks,
           demand \in [1..DurationWeeks -> Nat]
    PROVE  /\ Settlements(ag, w) \in [Role -> Settlement]
           /\ \A r \in Role : \/ Settlements(ag, w)[r].closing_inventory = 0
                              \/ Settlements(ag, w)[r].closing_backlog = 0
  <1>1. SUFFICES ASSUME NEW r \in Role
                 PROVE  /\ Settlements(ag, w)[r] \in Settlement
                        /\ \/ Settlements(ag, w)[r].closing_inventory = 0
                           \/ Settlements(ag, w)[r].closing_backlog = 0
    BY DEF Settlements
  <1>2. ag[r] \in Agent /\ ag[r].shipments \in Seq(Nat) /\ ag[r].orders \in Seq(Nat)
    BY DEF Agent
  <1>3. Head(ag[r].shipments) \in Nat
    <2>1. Len(ag[r].shipments) > 0
      BY DelaysAssumption DEF Full
    <2>. QED BY <1>2, <2>1, TailTyped
  <1>4. (IF r = "RETAILER" THEN demand[w] ELSE Head(ag[r].orders)) \in Nat
    <2>1. r # "RETAILER" => Len(ag[r].orders) > 0
      BY DelaysAssumption DEF Full
    <2>2. r # "RETAILER" => Head(ag[r].orders) \in Nat
      BY <1>2, <2>1, TailTyped
    <2>. QED BY <2>2
  <1>5. Settlements(ag, w)[r] = Settle(r, ag[r], Head(ag[r].shipments),
                                  IF r = "RETAILER" THEN demand[w] ELSE Head(ag[r].orders))
    BY DEF Settlements
  <1>. QED BY <1>2, <1>3, <1>4, <1>5, SettleTyped

\* What Phase A makes of one agent.
LEMMA PhaseAFields ==
    ASSUME NEW ag \in [Role -> Agent], NEW st, NEW r \in Role
    PROVE  LET a == AfterPhaseA(ag, st)[r]
           IN  a = [inventory        |-> st[r].closing_inventory,
                    backlog          |-> st[r].closing_backlog,
                    shipments        |-> IF r = "FACTORY" THEN Tail(ag[r].shipments)
                                         ELSE Push(Tail(ag[r].shipments), st[Upstream[r]].shipped),
                    orders           |-> IF r = "RETAILER" THEN ag[r].orders ELSE Tail(ag[r].orders),
                    accumulated_cost |-> Carried(ag[r], st[r]),
                    is_bot           |-> ag[r].is_bot,
                    production_queue |-> ag[r].production_queue]
  <1>1. ag[r] \in Agent
    OBVIOUS
  <1>. QED BY <1>1 DEF AfterPhaseA, Agent

\* Phase A leaves agents that wait for Phase C.
LEMMA AfterPhaseATyped ==
    ASSUME NEW ag \in [Role -> Agent], Full(ag), NEW st \in [Role -> Settlement]
    PROVE  AfterPhaseA(ag, st) \in [Role -> Agent] /\ Waiting(AfterPhaseA(ag, st))
  <1> DEFINE new == AfterPhaseA(ag, st)
  <1>1. ASSUME NEW r \in Role
        PROVE  /\ new[r] \in Agent
               /\ Len(new[r].shipments) = InboundDelay[r] - (IF r = "FACTORY" THEN 1 ELSE 0)
               /\ r # "RETAILER" => Len(new[r].orders) = OrderDelay[r] - 1
    <2> DEFINE shipments == IF r = "FACTORY" THEN Tail(ag[r].shipments)
                            ELSE Push(Tail(ag[r].shipments), st[Upstream[r]].shipped)
               orders    == IF r = "RETAILER" THEN ag[r].orders ELSE Tail(ag[r].orders)
    <2>1. /\ ag[r].shipments \in Seq(Nat) /\ ag[r].orders \in Seq(Nat)
          /\ ag[r].accumulated_cost \in Nat /\ ag[r].is_bot \in BOOLEAN
          /\ ag[r].production_queue \in Nat
      BY DEF Agent
    <2>2. /\ st[r].closing_inventory \in Nat /\ st[r].closing_backlog \in Nat
          /\ st[r].carrying_cost \in Nat
          /\ r # "FACTORY" => st[Upstream[r]].shipped \in Nat
      BY Neighbours DEF Settlement
    <2>3. /\ InboundDelay[r] \in Nat \ {0} /\ OrderDelay[r] \in Nat \ {0}
          /\ Len(ag[r].shipments) = InboundDelay[r]
          /\ r # "RETAILER" => Len(ag[r].orders) = OrderDelay[r]
      BY DelaysAssumption DEF Full
    <2>4. Tail(ag[r].shipments) \in Seq(Nat) /\ Len(Tail(ag[r].shipments)) = InboundDelay[r] - 1
      BY <2>1, <2>3, TailTyped
    <2>5. /\ shipments \in Seq(Nat)
          /\ Len(shipments) = InboundDelay[r] - (IF r = "FACTORY" THEN 1 ELSE 0)
      <3>1. CASE r = "FACTORY"
        BY <2>4, <3>1
      <3>2. CASE r # "FACTORY"
        <4>1. /\ Push(Tail(ag[r].shipments), st[Upstream[r]].shipped) \in Seq(Nat)
              /\ Len(Push(Tail(ag[r].shipments), st[Upstream[r]].shipped)) = InboundDelay[r] - 1 + 1
          BY <2>2, <2>4, <3>2, PushTyped
        <4>. QED BY <2>3, <3>2, <4>1
      <3>. QED BY <3>1, <3>2
    <2>6. orders \in Seq(Nat) /\ (r # "RETAILER" => Len(orders) = OrderDelay[r] - 1)
      BY <2>1, <2>3, TailTyped
    <2>7. Carried(ag[r], st[r]) \in Nat
      BY <2>1, <2>2 DEF Carried
    <2>8. new[r] = [inventory |-> st[r].closing_inventory, backlog |-> st[r].closing_backlog,
                    shipments |-> shipments, orders |-> orders,
                    accumulated_cost |-> Carried(ag[r], st[r]),
                    is_bot |-> ag[r].is_bot, production_queue |-> ag[r].production_queue]
      BY PhaseAFields, SMTT(30)
    <2> HIDE DEF shipments, orders, new
    <2>9. new[r] \in Agent
      BY <2>1, <2>2, <2>5, <2>6, <2>7, <2>8, AgentTyped
    <2>10. new[r].shipments = shipments /\ new[r].orders = orders
      BY <2>8
    <2>. QED BY <2>5, <2>6, <2>9, <2>10
  <1>2. new = [r \in Role |-> new[r]]
    BY DEF AfterPhaseA
  <1>. QED BY <1>1, <1>2 DEF Waiting

-------------------------------------------------------------------------------
(* Phase C.                                                                    *)

Orders == [Role -> Nat \cup {NoOrder}]

\* What is recorded and routed of an order, with what it costs.
LEMMA DecisionTyped ==
    ASSUME NEW p \in Orders, NEW r \in Role
    PROVE  Decision(p, r) \in Nat /\ OrderCost(r, Decision(p, r)) \in Nat
  <1>1. Decision(p, r) \in Nat
    BY DEF Orders, Decision
  <1>2. FixedOrderCost[r] \in Nat /\ UnitCost[r] \in Nat
    BY CostsAssumption
  <1>3. UnitCost[r] * Decision(p, r) \in Nat
    BY <1>1, <1>2, Products
  <1>. QED BY <1>1, <1>2, <1>3 DEF OrderCost

\* What is produced, and what is left in the queue.
LEMMA StartedTyped ==
    ASSUME NEW ag \in [Role -> Agent], NEW qty \in Nat
    PROVE  Started(ag, qty) \in Nat /\ Requested(ag, qty) - Started(ag, qty) \in Nat
  <1>1. ag["FACTORY"].production_queue \in Nat
    BY DEF Role, Agent
  <1>2. Capacity # Unlimited => Capacity \in Nat
    BY CapacityAssumption
  <1>. QED BY <1>1, <1>2 DEF Started, Requested, Minimum

\* What Phase C makes of one agent.
LEMMA PhaseCFields ==
    ASSUME NEW ag \in [Role -> Agent], NEW p, NEW r \in Role
    PROVE  AfterPhaseC(ag, p)[r] =
               [inventory        |-> ag[r].inventory,
                backlog          |-> ag[r].backlog,
                shipments        |-> IF r = "FACTORY"
                                     THEN Push(ag[r].shipments, Started(ag, Decision(p, "FACTORY")))
                                     ELSE ag[r].shipments,
                orders           |-> IF r = "RETAILER" THEN ag[r].orders
                                     ELSE Push(ag[r].orders, OrderInto(p, r)),
                accumulated_cost |-> ag[r].accumulated_cost + OrderCost(r, Decision(p, r)),
                is_bot           |-> ag[r].is_bot,
                production_queue |->
                    IF r = "FACTORY"
                    THEN Requested(ag, Decision(p, "FACTORY")) - Started(ag, Decision(p, "FACTORY"))
                    ELSE ag[r].production_queue]
  <1>1. ag[r] \in Agent
    OBVIOUS
  <1>. QED BY <1>1 DEF AfterPhaseC, Agent

\* Phase C fills what waited for it.
LEMMA AfterPhaseCTyped ==
    ASSUME NEW ag \in [Role -> Agent], Waiting(ag), NEW p \in Orders
    PROVE  AfterPhaseC(ag, p) \in [Role -> Agent] /\ Full(AfterPhaseC(ag, p))
  <1> DEFINE new == AfterPhaseC(ag, p)
             qty == Decision(p, "FACTORY")
  <1>1. ASSUME NEW r \in Role
        PROVE  /\ new[r] \in Agent
               /\ Len(new[r].shipments) = InboundDelay[r]
               /\ r # "RETAILER" => Len(new[r].orders) = OrderDelay[r]
    <2> DEFINE shipments == IF r = "FACTORY" THEN Push(ag[r].shipments, Started(ag, qty))
                            ELSE ag[r].shipments
               orders == IF r = "RETAILER" THEN ag[r].orders
                         ELSE Push(ag[r].orders, OrderInto(p, r))
               cost == ag[r].accumulated_cost + OrderCost(r, Decision(p, r))
               queue == IF r = "FACTORY" THEN Requested(ag, qty) - Started(ag, qty)
                        ELSE ag[r].production_queue
    <2>1. /\ ag[r].inventory \in Nat /\ ag[r].backlog \in Nat
          /\ ag[r].shipments \in Seq(Nat) /\ ag[r].orders \in Seq(Nat)
          /\ ag[r].accumulated_cost \in Nat /\ ag[r].is_bot \in BOOLEAN
          /\ ag[r].production_queue \in Nat
      BY DEF Agent
    <2>2. /\ InboundDelay[r] \in Nat /\ OrderDelay[r] \in Nat
          /\ Len(ag[r].shipments) = InboundDelay[r] - (IF r = "FACTORY" THEN 1 ELSE 0)
          /\ r # "RETAILER" => Len(ag[r].orders) = OrderDelay[r] - 1
      BY DelaysAssumption DEF Waiting
    <2>3. qty \in Nat
      BY DecisionTyped DEF Role
    <2>4. Started(ag, qty) \in Nat /\ Requested(ag, qty) - Started(ag, qty) \in Nat
      BY <2>3, StartedTyped
    <2>5. shipments \in Seq(Nat) /\ Len(shipments) = InboundDelay[r]
      <3>1. CASE r = "FACTORY"
        <4>1. /\ Push(ag[r].shipments, Started(ag, qty)) \in Seq(Nat)
              /\ Len(Push(ag[r].shipments, Started(ag, qty))) = Len(ag[r].shipments) + 1
          BY <2>1, <2>4, PushTyped
        <4>. QED BY <2>2, <3>1, <4>1
      <3>2. CASE r # "FACTORY"
        BY <2>1, <2>2, <3>2
      <3>. QED BY <3>1, <3>2
    <2>6. orders \in Seq(Nat) /\ (r # "RETAILER" => Len(orders) = OrderDelay[r])
      <3>1. r # "RETAILER" => OrderInto(p, r) \in Nat
        BY Neighbours, DecisionTyped DEF OrderInto
      <3>2. CASE r = "RETAILER"
        BY <2>1, <3>2
      <3>3. CASE r # "RETAILER"
        <4>1. /\ Push(ag[r].orders, OrderInto(p, r)) \in Seq(Nat)
              /\ Len(Push(ag[r].orders, OrderInto(p, r))) = Len(ag[r].orders) + 1
          BY <2>1, <3>1, <3>3, PushTyped
        <4>. QED BY <2>2, <3>3, <4>1
      <3>. QED BY <3>2, <3>3
    <2>7. cost \in Nat /\ queue \in Nat
      BY <2>1, <2>4, DecisionTyped
    <2>8. new[r] = [inventory |-> ag[r].inventory, backlog |-> ag[r].backlog,
                    shipments |-> shipments, orders |-> orders, accumulated_cost |-> cost,
                    is_bot |-> ag[r].is_bot, production_queue |-> queue]
      BY PhaseCFields
    <2> HIDE DEF shipments, orders, cost, queue, new
    <2>9. new[r] \in Agent
      BY <2>1, <2>5, <2>6, <2>7, <2>8, AgentTyped, SMTT(30)
    <2>10. new[r].shipments = shipments /\ new[r].orders = orders
      BY <2>8
    <2>. QED BY <2>5, <2>6, <2>9, <2>10
  <1>2. new = [r \in Role |-> new[r]]
    BY DEF AfterPhaseC
  <1>. QED BY <1>1, <1>2 DEF Full

\* A record is put together from its parts.
LEMMA RecordParts ==
    ASSUME NEW settlement \in Settlement, NEW order \in Nat, NEW bot \in BOOLEAN,
           NEW forced \in BOOLEAN, NEW total \in Nat, NEW cumulative \in Nat,
           NEW supply \in Seq(Nat), NEW orders \in Seq(Nat), NEW started \in Nat
    PROVE  [settlement |-> settlement, order |-> order, was_bot |-> bot, was_forced |-> forced,
            total_week_cost |-> total, cumulative_cost |-> cumulative,
            supply_line_after |-> supply, orders_in_flight_after |-> orders,
            production_started |-> started] \in WeekRecord
  BY Zenon DEF WeekRecord

\* The records of a week.
LEMMA RecordTyped ==
    ASSUME NEW before \in [Role -> Agent], NEW after \in [Role -> Agent], NEW r \in Role,
           settlements \in [Role -> Settlement], pending \in Orders
    PROVE  Record(r, before, after) \in WeekRecord
  <1>1. before[r] \in Agent /\ after[r] \in Agent /\ settlements[r] \in Settlement
    OBVIOUS
  <1>2. /\ before[r].shipments \in Seq(Nat) /\ before[r].orders \in Seq(Nat)
        /\ before[r].is_bot \in BOOLEAN /\ after[r].accumulated_cost \in Nat
        /\ settlements[r].carrying_cost \in Nat
    BY <1>1 DEF Agent, Settlement
  <1>3. /\ Decision(pending, r) \in Nat
        /\ settlements[r].carrying_cost + OrderCost(r, Decision(pending, r)) \in Nat
    BY <1>2, DecisionTyped
  <1>4. (IF r = "FACTORY" THEN Started(before, Decision(pending, r)) ELSE 0) \in Nat
    BY <1>3, StartedTyped
  <1>5. (IF pending[r] = NoOrder THEN before[r].is_bot ELSE r \in pendingByBot) \in BOOLEAN
    <2>1. (r \in pendingByBot) \in BOOLEAN
      OBVIOUS
    <2>. QED BY <1>2, <2>1, Zenon
  <1>6. (pending[r] = NoOrder) \in BOOLEAN
    OBVIOUS
  <1>. QED BY <1>1, <1>2, <1>3, <1>4, <1>5, <1>6, RecordParts, ZenonT(30) DEF Record, Sampled

-------------------------------------------------------------------------------
(* Type correctness: `TypeOK`, with the count of weeks that says when the      *)
(* pipelines are full.                                                         *)

\* The open week follows the closed ones; a game that is over has either closed its
\* open week or abandoned it.
WeekCount ==
    /\ Len(history) \in {week - 1, week}
    /\ phase = "DECISION" => Len(history) = week - 1

TypeInv == TypeOK /\ WeekCount

\* The types without the lengths.
Typed ==
    /\ demand \in [1..DurationWeeks -> Nat]
    /\ week \in 1..DurationWeeks
    /\ phase \in {"DECISION", "FINISHED"}
    /\ agents \in [Role -> Agent]
    /\ pending \in Orders
    /\ pendingByBot \subseteq Role
    /\ settlements \in [Role -> Settlement]
    /\ history \in Seq([Role -> WeekRecord])

\* Lengths in the terms of the phases.
LEMMA Lengths ==
    ASSUME TypeInv
    PROVE  /\ Typed
           /\ phase = "DECISION" => Waiting(agents)
  BY DEF TypeInv, TypeOK, Typed, PipelineLengths, Gap, Waiting, Orders

LEMMA WaitingTyped ==
    ASSUME Typed, WeekCount, Waiting(agents), Len(history) = week - 1
    PROVE  TypeInv
  BY DEF TypeInv, TypeOK, Typed, PipelineLengths, Gap, Waiting, Orders

LEMMA FullTyped ==
    ASSUME Typed, WeekCount, Full(agents), phase = "FINISHED", Len(history) = week
    PROVE  TypeInv
  BY DEF TypeInv, TypeOK, Typed, PipelineLengths, Gap, Full, Orders

LEMMA TypeInit == Init => TypeInv
  <1>1. SUFFICES ASSUME NEW series \in DemandSeries, NEW bots \in BotRoles,
                        demand = series, week = 1, phase = "DECISION",
                        pending = [r \in Role |-> NoOrder], pendingByBot = {}, history = <<>>,
                        settlements = Settlements([r \in Role |-> NewAgent(r, bots)], 1),
                        agents = AfterPhaseA([r \in Role |-> NewAgent(r, bots)], settlements)
                 PROVE  TypeInv
    BY DEF Init
  <1> DEFINE fresh == [r \in Role |-> NewAgent(r, bots)]
  <1>2. fresh \in [Role -> Agent] /\ Full(fresh)
    BY BotsAssumption, NewAgentsTyped
  <1>3. demand \in [1..DurationWeeks -> Nat] /\ 1 \in 1..DurationWeeks
    BY <1>1, DemandAssumption, WeeksAssumption
  <1> HIDE DEF fresh
  <1>4. settlements \in [Role -> Settlement]
    BY <1>1, <1>2, <1>3, SettlementsTyped DEF fresh
  <1>5. agents \in [Role -> Agent] /\ Waiting(agents)
    BY <1>1, <1>2, <1>4, AfterPhaseATyped DEF fresh
  <1>6. Typed
    BY <1>1, <1>3, <1>4, <1>5 DEF Typed, Orders
  <1>7. WeekCount /\ Len(history) = week - 1
    BY <1>1 DEF WeekCount
  <1>. QED BY <1>5, <1>6, <1>7, WaitingTyped

\* A week that closes: the records are appended, and the next week is open or the
\* game is over.
LEMMA CloseWeekTyped ==
    ASSUME TypeInv, NEW force \in BOOLEAN, CloseWeek(force)
    PROVE  /\ AfterPhaseC(agents, pending) \in [Role -> Agent]
           /\ Full(AfterPhaseC(agents, pending))
           /\ history' \in Seq([Role -> WeekRecord])
           /\ history' = Append(history, [r \in Role |->
                             Record(r, agents, AfterPhaseC(agents, pending))])
           /\ Len(history') = week
           /\ settlements' \in [Role -> Settlement]
           /\ TypeInv'
  <1> DEFINE after == AfterPhaseC(agents, pending)
             records == [r \in Role |-> Record(r, agents, after)]
  <1>1. Typed /\ Waiting(agents) /\ phase = "DECISION" /\ Len(history) = week - 1
    BY Lengths DEF CloseWeek, TypeInv, WeekCount
  <1>2. after \in [Role -> Agent] /\ Full(after)
    BY <1>1, AfterPhaseCTyped DEF Typed
  <1>3. history' = Append(history, records) /\ pending' = [r \in Role |-> NoOrder]
        /\ pendingByBot' = {} /\ demand' = demand
    BY DEF CloseWeek
  <1>4. records \in [Role -> WeekRecord]
    BY <1>1, <1>2, RecordTyped DEF Typed
  <1> HIDE DEF after, records
  <1>5. history' \in Seq([Role -> WeekRecord]) /\ Len(history') = week
    BY <1>1, <1>3, <1>4 DEF Typed
  <1>6. pending' \in Orders /\ pendingByBot' \subseteq Role
    BY <1>3 DEF Orders
  <1>7. CASE week >= DurationWeeks
    <2>1. phase' = "FINISHED" /\ agents' = after /\ week' = week /\ settlements' = settlements
      BY <1>7 DEF CloseWeek, after
    <2>2. Typed'
      BY <1>1, <1>2, <1>3, <1>5, <1>6, <2>1 DEF Typed
    <2>3. WeekCount' /\ Len(history') = week'
      BY <1>5, <2>1 DEF WeekCount
    <2>4. TypeInv'
      BY <1>2, <2>1, <2>2, <2>3, FullTyped DEF TypeInv, TypeOK, Typed, PipelineLengths, Gap, Full, Orders
    <2>. QED BY <1>2, <1>3, <1>5, <2>2, <2>4 DEF Typed, after, records
  <1>8. CASE ~(week >= DurationWeeks)
    <2>1. /\ week' = week + 1 /\ phase' = "DECISION"
          /\ settlements' = Settlements(after, week + 1)
          /\ agents' = AfterPhaseA(after, settlements')
      BY <1>1, <1>8 DEF CloseWeek, after
    <2>2. week + 1 \in 1..DurationWeeks
      BY <1>1, <1>8, WeeksAssumption DEF Typed
    <2>3. settlements' \in [Role -> Settlement]
      BY <1>1, <1>2, <2>1, <2>2, SettlementsTyped DEF Typed
    <2>4. agents' \in [Role -> Agent] /\ Waiting(agents')
      BY <1>2, <2>1, <2>3, AfterPhaseATyped
    <2>5. Typed'
      BY <1>1, <1>3, <1>5, <1>6, <2>1, <2>2, <2>3, <2>4 DEF Typed
    <2>6. WeekCount' /\ Len(history') = week' - 1
      BY <1>1, <1>5, <2>1 DEF WeekCount, Typed
    <2>7. TypeInv'
      BY <2>1, <2>4, <2>5, <2>6 DEF TypeInv, TypeOK, Typed, PipelineLengths, Gap, Waiting, Orders
    <2>. QED BY <1>2, <1>3, <1>5, <2>3, <2>7 DEF after, records
  <1>. QED BY <1>7, <1>8

LEMMA TypeStep == TypeInv /\ [Next]_vars => TypeInv'
  <1>1. SUFFICES ASSUME TypeInv, [Next]_vars PROVE TypeInv'
    OBVIOUS
  <1>2. Typed /\ WeekCount /\ TypeOK
    BY <1>1, Lengths DEF TypeInv
  <1>3. ASSUME NEW r \in Role, NEW qty \in Quantities[r], SubmitOrder(r, qty) PROVE TypeInv'
    <2>1. qty \in Nat
      BY QuantitiesAssumption
    <2>2. pending' \in [Role -> Nat \cup {NoOrder}]
      BY <1>2, <1>3, <2>1 DEF SubmitOrder, TypeOK
    <2>3. pendingByBot' \subseteq Role
      BY <1>2, <1>3 DEF SubmitOrder, TypeOK
    <2>4. UNCHANGED <<demand, week, phase, agents, settlements, history>>
      BY <1>3 DEF SubmitOrder
    <2>. QED BY <1>2, <2>2, <2>3, <2>4
             DEF TypeInv, TypeOK, WeekCount, PipelineLengths, Gap
  <1>4. ASSUME NEW force \in BOOLEAN, CloseWeek(force) PROVE TypeInv'
    BY <1>1, <1>4, CloseWeekTyped
  <1>5. CASE EndEarly
    <2>1. ASSUME NEW r \in Role PROVE PreviousCumulative(r) \in Nat
      <3>1. CASE history = <<>>
        BY <3>1 DEF PreviousCumulative
      <3>2. CASE history # <<>>
        <4>1. history[Len(history)] \in [Role -> WeekRecord]
          BY <1>2, <3>2 DEF TypeOK
        <4>. QED BY <3>2, <4>1 DEF PreviousCumulative, WeekRecord
      <3>. QED BY <3>1, <3>2
    <2>2. ASSUME NEW r \in Role
          PROVE  /\ agents'[r] \in Agent
                 /\ agents'[r].shipments = agents[r].shipments
                 /\ agents'[r].orders = agents[r].orders
      <3>1. agents[r] \in Agent
        BY <1>2 DEF TypeOK
      <3>2. agents'[r] = [agents[r] EXCEPT !.accumulated_cost = PreviousCumulative(r)]
        BY <1>5 DEF EndEarly
      <3>. QED BY <2>1, <3>1, <3>2 DEF Agent
    <2>3. agents' \in [Role -> Agent]
      BY <1>5, <2>2 DEF EndEarly
    <2>4. /\ UNCHANGED <<demand, week, pending, pendingByBot, settlements, history>>
          /\ phase = "DECISION" /\ phase' = "FINISHED" /\ Len(history) = week - 1
      BY <1>2, <1>5 DEF EndEarly, TypeOK, WeekCount
    <2>5. WeekCount' /\ Typed'
      BY <1>2, <2>3, <2>4 DEF WeekCount, Typed
    <2>6. PipelineLengths'
      BY <1>2, <2>2, <2>4 DEF TypeOK, PipelineLengths, Gap
    <2>. QED BY <2>5, <2>6 DEF TypeInv, TypeOK, Typed, Orders
  <1>6. ASSUME NEW r \in Swappable, NEW flag \in BOOLEAN, SetBot(r, flag) PROVE TypeInv'
    <2>1. ASSUME NEW q \in Role
          PROVE  /\ agents'[q] \in Agent
                 /\ agents'[q].shipments = agents[q].shipments
                 /\ agents'[q].orders = agents[q].orders
      <3>1. agents[q] \in Agent
        BY <1>2 DEF TypeOK
      <3>2. agents'[q] = IF q = r THEN [agents[q] EXCEPT !.is_bot = flag] ELSE agents[q]
        BY <1>2, <1>6 DEF SetBot, TypeOK
      <3>. QED BY <3>1, <3>2 DEF Agent
    <2>2. agents' \in [Role -> Agent]
      BY <1>2, <1>6, <2>1 DEF SetBot, TypeOK
    <2>3. UNCHANGED <<demand, week, phase, pending, pendingByBot, settlements, history>>
      BY <1>6 DEF SetBot
    <2>4. PipelineLengths'
      BY <1>2, <2>1, <2>3 DEF TypeOK, PipelineLengths, Gap
    <2>. QED BY <1>2, <2>2, <2>3, <2>4 DEF TypeInv, TypeOK, WeekCount
  <1>7. CASE UNCHANGED vars
    BY <1>1, <1>7 DEF vars, TypeInv, TypeOK, WeekCount, PipelineLengths, Gap
  <1>. QED BY <1>1, <1>3, <1>4, <1>5, <1>6, <1>7 DEF Next

\* Every value keeps its type, and every pipeline the length `Pipeline.length`
\* promises: one slot short exactly between Phase A and Phase C (pipeline.py).
THEOREM TypeCorrect == Spec => []TypeOK
  <1>1. TypeInv => TypeOK
    BY DEF TypeInv
  <1>. QED BY <1>1, TypeInit, TypeStep, PTL DEF Spec

\* The inductive invariant holds, for the theorems that follow.
LEMMA TypesHold == Spec => []TypeInv
  BY TypeInit, TypeStep, PTL DEF Spec

\* The steps, with what closing a week does to the parts the proofs below follow.
LEMMA Steps ==
    ASSUME [Next]_vars
    PROVE  \/ \E r \in Role : \E qty \in Quantities[r] : SubmitOrder(r, qty)
           \/ \E force \in BOOLEAN : CloseWeek(force)
           \/ EndEarly
           \/ \E r \in Swappable, flag \in BOOLEAN : SetBot(r, flag)
           \/ UNCHANGED vars
  BY DEF Next

\* A seat handed over changes the bot flag of its agent alone.
LEMMA SetBotFrame ==
    ASSUME agents \in [Role -> Agent], NEW r \in Role, NEW flag, SetBot(r, flag), NEW q \in Role
    PROVE  /\ agents'[q] = [agents[q] EXCEPT !.is_bot = agents'[q].is_bot]
           /\ agents'[q].inventory = agents[q].inventory
           /\ agents'[q].backlog = agents[q].backlog
           /\ agents'[q].accumulated_cost = agents[q].accumulated_cost
  <1>1. agents[q] \in Agent
    OBVIOUS
  <1>2. agents'[q] = IF q = r THEN [agents[q] EXCEPT !.is_bot = flag] ELSE agents[q]
    BY DEF SetBot
  <1>. QED BY <1>1, <1>2 DEF Agent

\* The end of a game gives every role its recorded cost back and touches no stock.
LEMMA EndEarlyFrame ==
    ASSUME agents \in [Role -> Agent], EndEarly, NEW r \in Role
    PROVE  /\ agents'[r].inventory = agents[r].inventory
           /\ agents'[r].backlog = agents[r].backlog
           /\ agents'[r].accumulated_cost = PreviousCumulative(r)
  <1>1. agents[r] \in Agent
    OBVIOUS
  <1>2. agents'[r] = [agents[r] EXCEPT !.accumulated_cost = PreviousCumulative(r)]
    BY DEF EndEarly
  <1>. QED BY <1>1, <1>2 DEF Agent

\* The stock and the cost of an agent after either phase.
LEMMA PhaseStock ==
    ASSUME NEW ag \in [Role -> Agent], NEW st, NEW p, NEW r \in Role
    PROVE  /\ AfterPhaseA(ag, st)[r].inventory = st[r].closing_inventory
           /\ AfterPhaseA(ag, st)[r].backlog = st[r].closing_backlog
           /\ AfterPhaseA(ag, st)[r].accumulated_cost =
                  ag[r].accumulated_cost + st[r].carrying_cost
           /\ AfterPhaseC(ag, p)[r].inventory = ag[r].inventory
           /\ AfterPhaseC(ag, p)[r].backlog = ag[r].backlog
  <1>1. ag[r] \in Agent
    OBVIOUS
  <1>. QED BY <1>1 DEF AfterPhaseA, AfterPhaseC, Carried, Agent

\* The agents when a week closes: those Phase C leaves at the end of the game, else
\* those the Phase A of the next week leaves.
LEMMA ClosedAgents ==
    ASSUME TypeInv, NEW force \in BOOLEAN, CloseWeek(force), NEW r \in Role
    PROVE  LET after == AfterPhaseC(agents, pending)
           IN  \/ /\ phase' = "FINISHED" /\ settlements' = settlements
                  /\ agents'[r].inventory = agents[r].inventory
                  /\ agents'[r].backlog = agents[r].backlog
                  /\ agents'[r].accumulated_cost = after[r].accumulated_cost
               \/ /\ phase' = "DECISION"
                  /\ \/ settlements'[r].closing_inventory = 0
                     \/ settlements'[r].closing_backlog = 0
                  /\ agents'[r].inventory = settlements'[r].closing_inventory
                  /\ agents'[r].backlog = settlements'[r].closing_backlog
                  /\ agents'[r].accumulated_cost =
                         after[r].accumulated_cost + settlements'[r].carrying_cost
  <1> DEFINE after == AfterPhaseC(agents, pending)
  <1>1. /\ agents \in [Role -> Agent] /\ week \in 1..DurationWeeks
        /\ demand \in [1..DurationWeeks -> Nat] /\ phase = "DECISION"
    BY DEF TypeInv, TypeOK, CloseWeek
  <1>2. after \in [Role -> Agent] /\ Full(after)
    BY CloseWeekTyped
  <1>3. CASE week >= DurationWeeks
    <2>1. phase' = "FINISHED" /\ settlements' = settlements /\ agents' = after
      BY <1>3 DEF CloseWeek
    <2>2. after[r].inventory = agents[r].inventory /\ after[r].backlog = agents[r].backlog
      BY <1>1, PhaseStock
    <2>. QED BY <2>1, <2>2
  <1>4. CASE ~(week >= DurationWeeks)
    <2>1. /\ phase' = "DECISION" /\ settlements' = Settlements(after, week + 1)
          /\ agents' = AfterPhaseA(after, settlements')
      BY <1>1, <1>4 DEF CloseWeek
    <2>2. week + 1 \in 1..DurationWeeks
      BY <1>1, <1>4, WeeksAssumption
    <2>3. \/ settlements'[r].closing_inventory = 0
          \/ settlements'[r].closing_backlog = 0
      BY <1>1, <1>2, <2>1, <2>2, SettlementsTyped
    <2> HIDE DEF after
    <2>4. PICK st : st = settlements'
      OBVIOUS
    <2>5. /\ AfterPhaseA(after, st)[r].inventory = st[r].closing_inventory
          /\ AfterPhaseA(after, st)[r].backlog = st[r].closing_backlog
          /\ AfterPhaseA(after, st)[r].accumulated_cost =
                 after[r].accumulated_cost + st[r].carrying_cost
      BY <1>2, PhaseStock
    <2>. QED BY <2>1, <2>3, <2>4, <2>5 DEF after
  <1>. QED BY <1>3, <1>4

-------------------------------------------------------------------------------
(* Stock or backlog, never both: the property speaks of the settlements by week, *)
(* the invariant of the three places they are in.                              *)

Cleared(st) == st.closing_inventory = 0 \/ st.closing_backlog = 0

StockInv ==
    \A r \in Role :
        /\ agents[r].inventory = 0 \/ agents[r].backlog = 0
        /\ Cleared(settlements[r])
        /\ \A w \in 1..Len(history) : Cleared(history[w][r].settlement)

LEMMA StockInit == Init => StockInv
  <1>1. SUFFICES ASSUME NEW series \in DemandSeries, NEW bots \in BotRoles, NEW r \in Role,
                        demand = series, history = <<>>,
                        settlements = Settlements([q \in Role |-> NewAgent(q, bots)], 1),
                        agents = AfterPhaseA([q \in Role |-> NewAgent(q, bots)], settlements)
                 PROVE  /\ agents[r].inventory = 0 \/ agents[r].backlog = 0
                        /\ Cleared(settlements[r])
    BY SMTT(30) DEF Init, StockInv
  <1> DEFINE fresh == [q \in Role |-> NewAgent(q, bots)]
  <1>2. fresh \in [Role -> Agent] /\ Full(fresh)
    BY BotsAssumption, NewAgentsTyped
  <1>3. demand \in [1..DurationWeeks -> Nat] /\ 1 \in 1..DurationWeeks
    BY <1>1, DemandAssumption, WeeksAssumption
  <1> HIDE DEF fresh
  <1>4. Cleared(settlements[r])
    BY <1>1, <1>2, <1>3, SettlementsTyped DEF fresh, Cleared
  <1>5. /\ agents[r].inventory = settlements[r].closing_inventory
        /\ agents[r].backlog = settlements[r].closing_backlog
    BY <1>1, <1>2, PhaseStock DEF fresh
  <1>. QED BY <1>4, <1>5 DEF Cleared

LEMMA StockStep == TypeInv /\ StockInv /\ [Next]_vars => StockInv'
  <1>1. SUFFICES ASSUME TypeInv, StockInv, [Next]_vars, NEW r \in Role
                 PROVE  /\ agents'[r].inventory = 0 \/ agents'[r].backlog = 0
                        /\ Cleared(settlements'[r])
                        /\ \A w \in 1..Len(history') : Cleared(history'[w][r].settlement)
    BY DEF StockInv, Cleared
  <1>2. /\ agents \in [Role -> Agent] /\ history \in Seq([Role -> WeekRecord])
        /\ agents[r].inventory = 0 \/ agents[r].backlog = 0
        /\ Cleared(settlements[r])
        /\ \A w \in 1..Len(history) : Cleared(history[w][r].settlement)
    BY <1>1 DEF TypeInv, TypeOK, StockInv
  <1>3. CASE \E q \in Role : \E qty \in Quantities[q] : SubmitOrder(q, qty)
    BY <1>2, <1>3 DEF SubmitOrder
  <1>4. ASSUME NEW force \in BOOLEAN, CloseWeek(force)
        PROVE  /\ agents'[r].inventory = 0 \/ agents'[r].backlog = 0
               /\ Cleared(settlements'[r])
               /\ \A w \in 1..Len(history') : Cleared(history'[w][r].settlement)
    <2> DEFINE records == [q \in Role |-> Record(q, agents, AfterPhaseC(agents, pending))]
    <2>1. history' = Append(history, records)
      BY <1>1, <1>4, CloseWeekTyped
    <2>2. records[r].settlement = settlements[r]
      BY DEF Record
    <2> HIDE DEF records
    <2>3. ASSUME NEW w \in 1..Len(history') PROVE Cleared(history'[w][r].settlement)
      <3>1. CASE w \in 1..Len(history)
        BY <1>2, <2>1, <3>1
      <3>2. CASE w \notin 1..Len(history)
        <4>1. history'[w] = records
          BY <1>2, <2>1, <3>2
        <4>. QED BY <1>2, <2>2, <4>1
      <3>. QED BY <3>1, <3>2
    <2>4. /\ agents'[r].inventory = 0 \/ agents'[r].backlog = 0
          /\ Cleared(settlements'[r])
      BY <1>1, <1>2, <1>4, ClosedAgents DEF Cleared
    <2>. QED BY <2>3, <2>4
  <1>5. CASE EndEarly
    <2>1. settlements' = settlements /\ history' = history
      BY <1>5 DEF EndEarly
    <2>. QED BY <1>2, <1>5, <2>1, EndEarlyFrame
  <1>6. ASSUME NEW q \in Swappable, NEW flag \in BOOLEAN, SetBot(q, flag)
        PROVE  /\ agents'[r].inventory = 0 \/ agents'[r].backlog = 0
               /\ settlements' = settlements /\ history' = history
    <2>1. q \in Role
      BY BotsAssumption
    <2>. QED BY <1>2, <1>6, <2>1, SetBotFrame DEF SetBot
  <1>7. CASE UNCHANGED vars
    BY <1>2, <1>7 DEF vars
  <1>. QED BY <1>1, <1>2, <1>3, <1>4, <1>5, <1>6, <1>7, Steps

\* No role holds stock while it owes units, in the agents or in any settlement ever
\* recorded (agents.py _check_invariants raises if one does).
THEOREM StockOrBacklogHolds == Spec => []StockOrBacklog
  <1>1. TypeInv /\ StockInv => StockOrBacklog
    <2>1. SUFFICES ASSUME TypeInv, StockInv, NEW r \in Role, NEW w \in 1..SettledWeeks
                   PROVE  \/ SettlementOf(w, r).closing_inventory = 0
                          \/ SettlementOf(w, r).closing_backlog = 0
      BY DEF StockOrBacklog, StockInv
    <2>2. w \in Nat /\ w >= 1 /\ Len(history) \in Nat
      BY <2>1 DEF SettledWeeks, TypeInv, TypeOK
    <2>3. CASE w <= Len(history)
      BY <2>1, <2>2, <2>3 DEF SettlementOf, StockInv, Cleared
    <2>4. CASE ~(w <= Len(history))
      BY <2>1, <2>4 DEF SettlementOf, StockInv, Cleared
    <2>. QED BY <2>3, <2>4
  <1>. QED BY <1>1, StockInit, StockStep, TypesHold, PTL DEF Spec

-------------------------------------------------------------------------------
(* Running costs: inductive on the types.                                      *)

LEMMA CostsInit == Init => RunningCosts
  <1>1. SUFFICES ASSUME NEW series \in DemandSeries, NEW bots \in BotRoles, NEW r \in Role,
                        history = <<>>, phase = "DECISION", settlements \in [Role -> Settlement],
                        agents = AfterPhaseA([q \in Role |-> NewAgent(q, bots)], settlements)
                 PROVE  agents[r].accumulated_cost = 0 + settlements[r].carrying_cost
    BY TypeInit DEF Init, RunningCosts, PreviousCumulative, TypeInv, TypeOK
  <1> DEFINE fresh == [q \in Role |-> NewAgent(q, bots)]
  <1>2. fresh \in [Role -> Agent]
    BY BotsAssumption, NewAgentsTyped
  <1>3. fresh[r].accumulated_cost = 0
    BY DEF NewAgent
  <1> HIDE DEF fresh
  <1>4. agents[r].accumulated_cost = fresh[r].accumulated_cost + settlements[r].carrying_cost
    BY <1>1, <1>2, PhaseStock DEF fresh
  <1>. QED BY <1>3, <1>4

LEMMA CostsStep == TypeInv /\ RunningCosts /\ [Next]_vars => RunningCosts'
  <1> DEFINE charge(r) == IF phase = "DECISION" THEN settlements[r].carrying_cost ELSE 0
  <1>1. SUFFICES ASSUME TypeInv, RunningCosts, [Next]_vars, NEW r \in Role
                 PROVE  agents'[r].accumulated_cost = PreviousCumulative(r)' + charge(r)'
    BY DEF RunningCosts
  <1>2. /\ agents \in [Role -> Agent] /\ history \in Seq([Role -> WeekRecord])
        /\ phase \in {"DECISION", "FINISHED"}
        /\ agents[r].accumulated_cost = PreviousCumulative(r) + charge(r)
    BY <1>1 DEF TypeInv, TypeOK, RunningCosts
  <1>3. CASE \E q \in Role : \E qty \in Quantities[q] : SubmitOrder(q, qty)
    BY <1>2, <1>3 DEF SubmitOrder, PreviousCumulative
  <1>4. ASSUME NEW force \in BOOLEAN, CloseWeek(force)
        PROVE  agents'[r].accumulated_cost = PreviousCumulative(r)' + charge(r)'
    <2> DEFINE after == AfterPhaseC(agents, pending)
               records == [q \in Role |-> Record(q, agents, after)]
    <2>1. /\ history' = Append(history, records) /\ history' \in Seq([Role -> WeekRecord])
          /\ after \in [Role -> Agent]
      BY <1>1, <1>4, CloseWeekTyped
    <2>2. records[r].cumulative_cost = after[r].accumulated_cost
      BY DEF Record
    <2>3. after[r].accumulated_cost \in Nat
      BY <2>1 DEF Agent
    <2>4. \/ phase' = "FINISHED" /\ agents'[r].accumulated_cost = after[r].accumulated_cost
          \/ /\ phase' = "DECISION"
             /\ agents'[r].accumulated_cost =
                    after[r].accumulated_cost + settlements'[r].carrying_cost
      BY <1>1, <1>4, ClosedAgents
    <2> HIDE DEF after, records
    <2>5. history' # <<>> /\ history'[Len(history')] = records
      BY <1>2, <2>1
    <2>6. PreviousCumulative(r)' = after[r].accumulated_cost
      BY <2>2, <2>5 DEF PreviousCumulative
    <2>. QED BY <2>3, <2>4, <2>6
  <1>5. CASE EndEarly
    <2>1. phase' = "FINISHED" /\ history' = history
      BY <1>5 DEF EndEarly
    <2>2. PreviousCumulative(r)' = PreviousCumulative(r) /\ PreviousCumulative(r) \in Nat
      <3>1. CASE history = <<>>
        BY <2>1, <3>1 DEF PreviousCumulative
      <3>2. CASE history # <<>>
        <4>1. history[Len(history)] \in [Role -> WeekRecord]
          BY <1>2, <3>2
        <4>. QED BY <2>1, <3>2, <4>1 DEF PreviousCumulative, WeekRecord
      <3>. QED BY <3>1, <3>2
    <2>3. agents'[r].accumulated_cost = PreviousCumulative(r)
      BY <1>2, <1>5, EndEarlyFrame
    <2>. QED BY <2>1, <2>2, <2>3
  <1>6. ASSUME NEW q \in Swappable, NEW flag \in BOOLEAN, SetBot(q, flag)
        PROVE  /\ agents'[r].accumulated_cost = agents[r].accumulated_cost
               /\ UNCHANGED <<phase, settlements, history>>
    <2>1. q \in Role
      BY BotsAssumption
    <2>. QED BY <1>2, <1>6, <2>1, SetBotFrame DEF SetBot
  <1>7. CASE UNCHANGED vars
    BY <1>2, <1>7 DEF vars, PreviousCumulative
  <1>8. ASSUME agents'[r].accumulated_cost = agents[r].accumulated_cost,
               UNCHANGED <<phase, settlements, history>>
        PROVE  agents'[r].accumulated_cost = PreviousCumulative(r)' + charge(r)'
    BY <1>2, <1>8 DEF PreviousCumulative
  <1>. QED BY <1>1, <1>3, <1>4, <1>5, <1>6, <1>7, <1>8, Steps

\* The total a player sees is the last recorded one plus what the open week has
\* already cost, and a week abandoned by `end_early` is given back.
THEOREM RunningCostsHold == Spec => []RunningCosts
  BY CostsInit, CostsStep, TypesHold, PTL DEF Spec

-------------------------------------------------------------------------------
(* Played weeks are final.                                                     *)

LEMMA FinalStep ==
    TypeInv /\ [Next]_vars =>
        [ /\ history' # history =>
                 /\ phase = "DECISION"
                 /\ Len(history) = week - 1
                 /\ history' = Append(history, history'[week])
          /\ week' # week => week' = Len(history') + 1
          /\ phase = "FINISHED" =>
                 /\ phase' = "FINISHED"
                 /\ UNCHANGED <<week, history, pending>>
                 /\ \A r \in Role :
                        agents'[r] = [agents[r] EXCEPT !.is_bot = agents'[r].is_bot]
        ]_vars
  <1>. SUFFICES ASSUME TypeInv, [Next]_vars
                PROVE  /\ history' # history =>
                              /\ phase = "DECISION"
                              /\ Len(history) = week - 1
                              /\ history' = Append(history, history'[week])
                       /\ week' # week => week' = Len(history') + 1
                       /\ phase = "FINISHED" =>
                              /\ phase' = "FINISHED"
                              /\ UNCHANGED <<week, history, pending>>
                              /\ \A r \in Role :
                                     agents'[r] = [agents[r] EXCEPT !.is_bot = agents'[r].is_bot]
    OBVIOUS
  <1>1. /\ agents \in [Role -> Agent] /\ history \in Seq([Role -> WeekRecord])
        /\ phase = "DECISION" => Len(history) = week - 1
        /\ week \in Nat
    BY DEF TypeInv, TypeOK, WeekCount
  <1>2. CASE \E q \in Role : \E qty \in Quantities[q] : SubmitOrder(q, qty)
    BY <1>2 DEF SubmitOrder
  <1>3. ASSUME NEW force \in BOOLEAN, CloseWeek(force)
        PROVE  /\ phase = "DECISION" /\ Len(history) = week - 1
               /\ history' = Append(history, history'[week])
               /\ week' # week => week' = Len(history') + 1
    <2>1. phase = "DECISION" /\ (week' = week \/ week' = week + 1)
      BY <1>3 DEF CloseWeek
    <2>2. PICK records : history' = Append(history, records)
      BY <1>3 DEF CloseWeek
    <2>3. Len(history') = week /\ history'[week] = records
      BY <1>1, <2>1, <2>2
    <2>. QED BY <1>1, <2>1, <2>2, <2>3
  <1>4. CASE EndEarly
    BY <1>4 DEF EndEarly
  <1>5. ASSUME NEW q \in Swappable, NEW flag \in BOOLEAN, SetBot(q, flag)
        PROVE  /\ UNCHANGED <<week, phase, history, pending>>
               /\ \A r \in Role :
                      agents'[r] = [agents[r] EXCEPT !.is_bot = agents'[r].is_bot]
    <2>1. q \in Role
      BY BotsAssumption
    <2>. QED BY <1>1, <1>5, <2>1, SetBotFrame DEF SetBot
  <1>6. ASSUME UNCHANGED vars, NEW r \in Role
        PROVE  agents'[r] = [agents[r] EXCEPT !.is_bot = agents'[r].is_bot]
    <2>1. agents[r] \in Agent
      BY <1>1
    <2>. QED BY <1>6, <2>1 DEF vars, Agent
  <1>. QED BY <1>2, <1>3, <1>4, <1>5, <1>6, Steps DEF vars

\* A closed week is final and an ended game stays ended, whatever is called on it.
THEOREM WeeksAreFinal == Spec => PlayedWeeksAreFinal
  BY FinalStep, TypesHold, PTL DEF Spec, PlayedWeeksAreFinal

-------------------------------------------------------------------------------
(* The engine implements WeekMachine.                                          *)

Taken == {r \in Role : pending[r] # NoOrder}

Missed == [w \in 1..Len(history) |-> {r \in Role : history[w][r].was_forced}]

\* The week that closes adds the roles it forced to the misses of the history.
LEMMA MissedAppend ==
    ASSUME history \in Seq([Role -> WeekRecord]), NEW records,
           history' = Append(history, records)
    PROVE  Missed' = Append(Missed, {r \in Role : records[r].was_forced})
  <1> DEFINE forced == {r \in Role : records[r].was_forced}
             n == Len(history)
  <1>1. n \in Nat /\ Len(history') = n + 1
    OBVIOUS
  <1>2. Missed \in Seq(SUBSET Role) /\ Len(Missed) = n
    BY <1>1 DEF Missed
  <1>3. ASSUME NEW w \in 1..(n + 1) PROVE Missed'[w] = Append(Missed, forced)[w]
    <2>1. CASE w = n + 1
      <3>1. history'[w] = records /\ Append(Missed, forced)[w] = forced
        BY <1>1, <1>2, <2>1
      <3>. QED BY <1>1, <3>1 DEF Missed
    <2>2. CASE w # n + 1
      <3>1. w \in 1..n /\ history'[w] = history[w]
        BY <1>1, <2>2
      <3>2. Append(Missed, forced)[w] = Missed[w]
        BY <1>1, <1>2, <3>1
      <3>. QED BY <1>1, <3>1, <3>2 DEF Missed
    <2>. QED BY <2>1, <2>2
  <1>4. /\ Missed' = [w \in 1..(n + 1) |-> Missed'[w]]
        /\ Append(Missed, forced) = [w \in 1..(n + 1) |-> Append(Missed, forced)[w]]
    BY <1>1, <1>2 DEF Missed
  <1>. QED BY <1>3, <1>4

LEMMA StepPromised == TypeInv /\ [Next]_vars => [Promise!Next]_(Promise!vars)
  <1>. SUFFICES ASSUME TypeInv, [Next]_vars
                PROVE  Promise!Next \/ UNCHANGED Promise!vars
    OBVIOUS
  <1>1. /\ pending \in Orders /\ history \in Seq([Role -> WeekRecord])
        /\ phase \in {"DECISION", "FINISHED"} /\ week \in Nat
    BY DEF TypeInv, TypeOK, Orders
  <1>2. ASSUME NEW r \in Role, NEW qty \in Quantities[r], SubmitOrder(r, qty)
        PROVE  Promise!Next
    <2>1. qty # NoOrder
      BY QuantitiesAssumption, NoOrderAssumption
    <2>2. pending' = [pending EXCEPT ![r] = qty] /\ phase = "DECISION"
          /\ UNCHANGED <<week, phase, history>>
      BY <1>2 DEF SubmitOrder
    <2>3. Taken' = Taken \cup {r}
      BY <1>1, <2>1, <2>2 DEF Taken, Orders
    <2>4. Missed' = Missed
      BY <2>2 DEF Missed
    <2>5. Promise!Take({r})
      BY <2>2, <2>3, <2>4 DEF Promise!Take, Taken, Missed
    <2>. QED BY <2>5 DEF Promise!Next
  <1>3. ASSUME NEW force \in BOOLEAN, CloseWeek(force) PROVE Promise!Next
    <2> DEFINE records == [r \in Role |-> Record(r, agents, AfterPhaseC(agents, pending))]
    <2>1. history' = Append(history, records)
      BY <1>3 DEF CloseWeek
    <2>2. \A r \in Role : records[r].was_forced <=> pending[r] = NoOrder
      BY Zenon DEF Record
    <2> HIDE DEF records
    <2>3. Missed' = Append(Missed, Role \ Taken)
      <3>1. {r \in Role : records[r].was_forced} = Role \ Taken
        BY <2>2 DEF Taken
      <3>. QED BY <1>1, <2>1, <3>1, MissedAppend
    <2>4. Taken' = {}
      BY <1>3 DEF CloseWeek, Taken
    <2>5. /\ phase # "FINISHED"
          /\ week' = IF week >= DurationWeeks THEN week ELSE week + 1
          /\ (phase' = "FINISHED") = (week >= DurationWeeks)
      BY <1>3 DEF CloseWeek
    <2>6. Promise!Close
      BY <2>3, <2>4, <2>5 DEF Promise!Close, Taken, Missed
    <2>. QED BY <2>6 DEF Promise!Next
  <1>4. CASE EndEarly
    <2>1. /\ UNCHANGED <<week, pending, history>>
          /\ phase # "FINISHED" /\ phase' = "FINISHED"
      BY <1>4 DEF EndEarly
    <2>2. Promise!Abandon
      BY <2>1 DEF Promise!Abandon
    <2>. QED BY <2>2 DEF Promise!Next
  <1>5. CASE \E r \in Swappable, flag \in BOOLEAN : SetBot(r, flag)
    BY <1>5 DEF SetBot, Promise!vars
  <1>6. CASE UNCHANGED vars
    BY <1>6 DEF vars, Promise!vars
  <1>. QED BY <1>2, <1>3, <1>4, <1>5, <1>6, Steps

LEMMA InitPromised == Init => Promise!Init
  <1>1. SUFFICES ASSUME week = 1, phase = "DECISION", history = <<>>,
                        pending = [r \in Role |-> NoOrder]
                 PROVE  Promise!Init
    BY DEF Init
  <1>2. Taken = {} /\ Missed = <<>>
    BY <1>1 DEF Taken, Missed
  <1>. QED BY <1>1, <1>2 DEF Promise!Init, Taken, Missed

\* The engine implements the promised game: each week closes once, in order, with the
\* orders that were in, and a game that ended takes no order and closes no week.
THEOREM EngineImplementsWeekMachine == Spec => ImplementsWeekMachine
  BY InitPromised, StepPromised, TypesHold, PTL
     DEF Spec, ImplementsWeekMachine, Promise!Spec

-------------------------------------------------------------------------------
(* Timing: every order and every shipment arrives exactly its delay later, for  *)
(* any delays.  The invariant says of every slot of every pipeline which week    *)
(* filled it: in the open week, slot k of a pipeline with delay d holds what     *)
(* week + k - d sent.  It is stated by the week that sent it, which is what a     *)
(* settlement that pops the slot has to be compared with.                        *)

\* What week w sent to r in goods: a batch of its own for the factory.
SentTo(w, r) ==
    IF r = "FACTORY" THEN history[w][r].production_started
    ELSE SettlementOf(w, Upstream[r]).shipped

\* The weeks that have sent goods to r: all settled ones, but a batch is started only
\* when its week closes.
SendingWeeks(r) == IF r = "FACTORY" THEN 1..Len(history) ELSE 1..week

InFlight ==
    phase = "DECISION" =>
        \A r \in Role :
            /\ r # "RETAILER" =>
                   \A w \in 1..Len(history) :
                       w + OrderDelay[r] > week =>
                           agents[r].orders[w + OrderDelay[r] - week]
                               = history[w][Downstream[r]].order
            /\ \A w \in SendingWeeks(r) :
                   w + InboundDelay[r] > week =>
                       agents[r].shipments[w + InboundDelay[r] - week] = SentTo(w, r)

\* `OnTime` by the weeks that were settled, the open one included.
LEMMA SettledWhileOpen ==
    ASSUME TypeInv, phase = "DECISION"
    PROVE  SettledWeeks = week /\ Len(history) = week - 1 /\ week \in Nat \ {0}
  BY DEF TypeInv, TypeOK, WeekCount, SettledWeeks

\* The two neighbours of a link are each other's.
LEMMA Links ==
    \A r \in Role \ {"FACTORY"} : Upstream[r] # "RETAILER" /\ Downstream[Upstream[r]] = r
  BY DEF Role, Upstream, Downstream

\* What a settlement receives is at the front of the pipelines.
LEMMA Received ==
    ASSUME NEW ag, NEW w, NEW r \in Role
    PROVE  /\ Settlements(ag, w)[r].arrived = Head(ag[r].shipments)
           /\ r # "RETAILER" => Settlements(ag, w)[r].incoming_order = Head(ag[r].orders)
  BY DEF Settlements, Settle

\* A slot moves one place forward when the front leaves.
LEMMA SlotInTail ==
    ASSUME NEW slots \in Seq(Nat), NEW k \in 1..(Len(slots) - 1)
    PROVE  Tail(slots)[k] = slots[k + 1]
  OBVIOUS

\* A slot keeps its place when another is pushed behind it.
LEMMA SlotInPush ==
    ASSUME NEW slots \in Seq(Nat), NEW qty, NEW k \in 1..Len(slots)
    PROVE  Append(slots, qty)[k] = slots[k]
  OBVIOUS

\* The place of what an earlier week sent, in a pipeline that waits for the open week.
LEMMA PlaceOf ==
    ASSUME NEW n \in Nat \ {0}, NEW delay \in Nat \ {0}, NEW w \in 1..n, w # n, w + delay > n
    PROVE  w \in 1..(n - 1) /\ w + delay - n \in 1..(delay - 1)
  OBVIOUS

\* Its place when the front of the full pipeline has left, for the week after.
LEMMA NextPlaceOf ==
    ASSUME NEW n \in Nat \ {0}, NEW delay \in Nat \ {0}, NEW w \in 1..n, w + delay > n + 1
    PROVE  /\ w + delay - (n + 1) \in 1..(delay - 1)
           /\ w + delay - (n + 1) + 1 = w + delay - n
           /\ w + delay > n
  OBVIOUS

\* The pipelines Phase C leaves.
LEMMA PhaseCPipelines ==
    ASSUME NEW ag \in [Role -> Agent], NEW p, NEW r \in Role
    PROVE  /\ r # "RETAILER" =>
                  AfterPhaseC(ag, p)[r].orders = Append(ag[r].orders, OrderInto(p, r))
           /\ r # "FACTORY" => AfterPhaseC(ag, p)[r].shipments = ag[r].shipments
           /\ r = "FACTORY" =>
                  AfterPhaseC(ag, p)[r].shipments
                      = Append(ag[r].shipments, Started(ag, Decision(p, "FACTORY")))
  <1>1. ag[r] \in Agent
    OBVIOUS
  <1>. QED BY <1>1 DEF AfterPhaseC, Agent, Push

\* What the history says of the weeks settled before is the same after a week closes.
LEMMA PastSettlements ==
    ASSUME TypeInv, NEW force \in BOOLEAN, CloseWeek(force), NEW r \in Role
    PROVE  /\ \A w \in 1..Len(history) : history'[w] = history[w]
           /\ \A w \in 1..week : SettlementOf(w, r)' = SettlementOf(w, r)
           /\ history'[week][r].order = Decision(pending, r)
           /\ r = "FACTORY" =>
                  history'[week][r].production_started = Started(agents, Decision(pending, r))
  <1> DEFINE records == [q \in Role |-> Record(q, agents, AfterPhaseC(agents, pending))]
  <1>1. /\ history \in Seq([Role -> WeekRecord]) /\ history' = Append(history, records)
        /\ Len(history') = week
    BY CloseWeekTyped DEF TypeInv, TypeOK
  <1>2. Len(history) = week - 1 /\ week \in Nat \ {0}
    BY SettledWhileOpen DEF CloseWeek
  <1>3. /\ records[r].settlement = settlements[r] /\ records[r].order = Decision(pending, r)
        /\ r = "FACTORY" =>
               records[r].production_started = Started(agents, Decision(pending, r))
    BY DEF Record
  <1> HIDE DEF records
  <1>4. (\A w \in 1..Len(history) : history'[w] = history[w]) /\ history'[week] = records
    BY <1>1, <1>2
  <1>5. ASSUME NEW w \in 1..week PROVE SettlementOf(w, r)' = SettlementOf(w, r)
    <2>1. SettlementOf(w, r)' = history'[w][r].settlement
      BY <1>1 DEF SettlementOf
    <2>2. CASE w = week
      BY <1>2, <1>3, <1>4, <2>1, <2>2 DEF SettlementOf
    <2>3. CASE w # week
      <3>1. w \in 1..Len(history)
        BY <1>2, <2>3
      <3>. QED BY <1>4, <2>1, <3>1 DEF SettlementOf
    <2>. QED BY <2>2, <2>3
  <1>. QED BY <1>3, <1>4, <1>5

\* Phase C puts what the closing week sent at the back: the invariant holds of the full
\* pipelines, with the history that has the week.
LEMMA AfterClosing ==
    ASSUME TypeInv, InFlight, NEW force \in BOOLEAN, CloseWeek(force), NEW r \in Role,
           NEW w \in 1..week
    PROVE  LET after == AfterPhaseC(agents, pending)
           IN  /\ (r # "RETAILER" /\ w + OrderDelay[r] > week) =>
                      after[r].orders[w + OrderDelay[r] - week]
                          = history'[w][Downstream[r]].order
               /\ w + InboundDelay[r] > week =>
                      after[r].shipments[w + InboundDelay[r] - week] = SentTo(w, r)'
  <1> DEFINE after == AfterPhaseC(agents, pending)
  <1>1. /\ phase = "DECISION" /\ Len(history) = week - 1 /\ week \in Nat \ {0}
        /\ agents \in [Role -> Agent] /\ Waiting(agents)
    BY SettledWhileOpen, Lengths DEF CloseWeek, TypeInv, TypeOK
  <1>2. /\ OrderDelay[r] \in Nat \ {0} /\ InboundDelay[r] \in Nat \ {0} /\ w \in Nat
        /\ agents[r].shipments \in Seq(Nat) /\ agents[r].orders \in Seq(Nat)
        /\ Len(agents[r].shipments) = InboundDelay[r] - (IF r = "FACTORY" THEN 1 ELSE 0)
        /\ r # "RETAILER" => Len(agents[r].orders) = OrderDelay[r] - 1
    BY <1>1, DelaysAssumption DEF Waiting, Agent
  <1>3. /\ r # "RETAILER" => after[r].orders = Append(agents[r].orders, OrderInto(pending, r))
        /\ r # "FACTORY" => after[r].shipments = agents[r].shipments
        /\ r = "FACTORY" =>
               after[r].shipments
                   = Append(agents[r].shipments, Started(agents, Decision(pending, "FACTORY")))
    BY <1>1, PhaseCPipelines
  <1> HIDE DEF after
  <1>4. ASSUME r # "RETAILER", w + OrderDelay[r] > week
        PROVE  after[r].orders[w + OrderDelay[r] - week] = history'[w][Downstream[r]].order
    <2>1. Downstream[r] \in Role
      BY <1>4, Neighbours
    <2>2. CASE w = week
      <3>1. after[r].orders[Len(agents[r].orders) + 1] = OrderInto(pending, r)
        BY <1>2, <1>3, <1>4
      <3>2. history'[week][Downstream[r]].order = OrderInto(pending, r)
        BY <2>1, PastSettlements DEF OrderInto
      <3>3. w + OrderDelay[r] - week = Len(agents[r].orders) + 1
        BY <1>1, <1>2, <1>4, <2>2
      <3>. QED BY <2>2, <3>1, <3>2, <3>3
    <2>3. CASE w # week
      <3>1. w \in 1..Len(history) /\ w + OrderDelay[r] - week \in 1..Len(agents[r].orders)
        BY <1>1, <1>2, <1>4, <2>3, PlaceOf
      <3>2. agents[r].orders[w + OrderDelay[r] - week] = history[w][Downstream[r]].order
        BY <1>1, <1>4, <3>1 DEF InFlight
      <3>3. after[r].orders[w + OrderDelay[r] - week]
               = agents[r].orders[w + OrderDelay[r] - week]
        <4>1. after[r].orders = Append(agents[r].orders, OrderInto(pending, r))
          BY <1>3, <1>4
        <4>. QED BY <1>2, <3>1, <4>1, SlotInPush
      <3>4. history'[w] = history[w]
        BY <3>1, PastSettlements
      <3>. QED BY <3>2, <3>3, <3>4
    <2>. QED BY <2>2, <2>3
  <1>5. ASSUME w + InboundDelay[r] > week, r # "FACTORY"
        PROVE  after[r].shipments[w + InboundDelay[r] - week] = SentTo(w, r)'
    <2>1. Upstream[r] \in Role
      BY <1>5, Neighbours
    <2>2. agents[r].shipments[w + InboundDelay[r] - week] = SettlementOf(w, Upstream[r]).shipped
      BY <1>1, <1>5 DEF InFlight, SendingWeeks, SentTo
    <2>3. SettlementOf(w, Upstream[r])' = SettlementOf(w, Upstream[r])
      BY <2>1, PastSettlements
    <2>. QED BY <1>3, <1>5, <2>2, <2>3 DEF SentTo
  <1>6. ASSUME w + InboundDelay[r] > week, r = "FACTORY"
        PROVE  after[r].shipments[w + InboundDelay[r] - week] = SentTo(w, r)'
    <2>1. SentTo(w, r)' = history'[w][r].production_started
      BY <1>6 DEF SentTo
    <2>2. CASE w = week
      <3>1. after[r].shipments[Len(agents[r].shipments) + 1]
               = Started(agents, Decision(pending, "FACTORY"))
        BY <1>2, <1>3, <1>6, SMTT(30)
      <3>2. history'[week][r].production_started = Started(agents, Decision(pending, "FACTORY"))
        BY <1>6, PastSettlements
      <3>3. w + InboundDelay[r] - week = Len(agents[r].shipments) + 1
        BY <1>1, <1>2, <1>6, <2>2
      <3>. QED BY <2>1, <2>2, <3>1, <3>2, <3>3
    <2>3. CASE w # week
      <3>1. w \in 1..Len(history) /\ w + InboundDelay[r] - week \in 1..Len(agents[r].shipments)
        <4>1. Len(agents[r].shipments) = InboundDelay[r] - 1
          BY <1>2, <1>6
        <4>2. w \in 1..(week - 1) /\ w + InboundDelay[r] - week \in 1..(InboundDelay[r] - 1)
          BY <1>1, <1>2, <1>6, <2>3, PlaceOf
        <4>. QED BY <1>1, <4>1, <4>2
      <3>2. agents[r].shipments[w + InboundDelay[r] - week] = history[w][r].production_started
        BY <1>1, <1>6, <3>1 DEF InFlight, SendingWeeks, SentTo
      <3>3. after[r].shipments[w + InboundDelay[r] - week]
               = agents[r].shipments[w + InboundDelay[r] - week]
        <4>1. after[r].shipments
                 = Append(agents[r].shipments, Started(agents, Decision(pending, "FACTORY")))
          BY <1>3, <1>6
        <4>. QED BY <1>2, <3>1, <4>1, SlotInPush
      <3>4. history'[w] = history[w]
        BY <3>1, PastSettlements
      <3>. QED BY <2>1, <3>2, <3>3, <3>4
    <2>. QED BY <2>2, <2>3
  <1>. QED BY <1>4, <1>5, <1>6 DEF after

\* The pipelines and the receipts Phase A leaves.
LEMMA PhaseAPipelines ==
    ASSUME NEW ag \in [Role -> Agent], NEW st, NEW r \in Role
    PROVE  /\ r # "RETAILER" => AfterPhaseA(ag, st)[r].orders = Tail(ag[r].orders)
           /\ r = "FACTORY" => AfterPhaseA(ag, st)[r].shipments = Tail(ag[r].shipments)
           /\ r # "FACTORY" =>
                  AfterPhaseA(ag, st)[r].shipments
                      = Append(Tail(ag[r].shipments), st[Upstream[r]].shipped)
  <1>1. ag[r] \in Agent
    OBVIOUS
  <1>. QED BY <1>1 DEF AfterPhaseA, Agent, Push

\* A week that closes and opens another.
LEMMA NextWeek ==
    ASSUME TypeInv, NEW force \in BOOLEAN, CloseWeek(force), phase' = "DECISION"
    PROVE  /\ week' = week + 1
           /\ settlements' = Settlements(AfterPhaseC(agents, pending), week + 1)
           /\ agents' = AfterPhaseA(AfterPhaseC(agents, pending), settlements')
           /\ Len(history') = week
           /\ \A r \in Role, n \in Nat : n > week => SettlementOf(n, r)' = settlements'[r]
  <1>1. /\ week' = week + 1
        /\ settlements' = Settlements(AfterPhaseC(agents, pending), week + 1)
        /\ agents' = AfterPhaseA(AfterPhaseC(agents, pending), settlements')
    BY DEF CloseWeek
  <1>2. Len(history') = week /\ week \in Nat
    BY CloseWeekTyped, SettledWhileOpen DEF CloseWeek
  <1>3. \A n \in Nat : n > week => ~(n <= Len(history'))
    BY <1>2
  <1>. QED BY <1>1, <1>2, <1>3 DEF SettlementOf

LEMMA InFlightInit == Init => InFlight
  <1>1. SUFFICES ASSUME Init, NEW r \in Role, NEW w \in SendingWeeks(r)
                 PROVE  agents[r].shipments[w + InboundDelay[r] - week] = SentTo(w, r)
    BY DEF InFlight, Init
  <1>2. PICK bots \in BotRoles :
           agents = AfterPhaseA([q \in Role |-> NewAgent(q, bots)], settlements)
    BY <1>1 DEF Init
  <1>3. w = 1 /\ week = 1 /\ r # "FACTORY" /\ SentTo(w, r) = settlements[Upstream[r]].shipped
    BY <1>1 DEF Init, SendingWeeks, SentTo, SettlementOf
  <1> DEFINE fresh == [q \in Role |-> NewAgent(q, bots)]
             slots == Tail(fresh[r].shipments)
  <1>4. fresh \in [Role -> Agent] /\ Full(fresh) /\ InboundDelay[r] \in Nat \ {0}
    BY BotsAssumption, DelaysAssumption, NewAgentsTyped
  <1> HIDE DEF fresh
  <1>5. slots \in Seq(Nat) /\ Len(slots) = InboundDelay[r] - 1
    <2>1. fresh[r].shipments \in Seq(Nat) /\ Len(fresh[r].shipments) = InboundDelay[r]
      BY <1>4 DEF Full, Agent
    <2>. QED BY <1>4, <2>1, TailTyped
  <1>6. agents[r].shipments = Append(slots, settlements[Upstream[r]].shipped)
    BY <1>2, <1>3, <1>4, PhaseAPipelines DEF fresh
  <1> HIDE DEF slots
  <1>7. w + InboundDelay[r] - week = Len(slots) + 1
    BY <1>3, <1>4, <1>5
  <1>. QED BY <1>3, <1>5, <1>6, <1>7

\* A week that closes keeps every slot with the week that sent it.
LEMMA InFlightClose ==
    ASSUME TypeInv, InFlight, NEW force \in BOOLEAN, CloseWeek(force)
    PROVE  InFlight'
  <1> DEFINE after == AfterPhaseC(agents, pending)
  <1>1. SUFFICES ASSUME phase' = "DECISION", NEW r \in Role
                 PROVE  /\ r # "RETAILER" =>
                               \A w \in 1..Len(history') :
                                   w + OrderDelay[r] > week' =>
                                       agents'[r].orders[w + OrderDelay[r] - week']
                                           = history'[w][Downstream[r]].order
                        /\ \A w \in SendingWeeks(r)' :
                               w + InboundDelay[r] > week' =>
                                   agents'[r].shipments[w + InboundDelay[r] - week']
                                       = SentTo(w, r)'
    BY DEF InFlight
  <1>2. /\ week' = week + 1 /\ agents' = AfterPhaseA(after, settlements')
        /\ Len(history') = week
        /\ \A q \in Role, n \in Nat : n > week => SettlementOf(n, q)' = settlements'[q]
    BY <1>1, NextWeek
  <1>3. /\ after \in [Role -> Agent] /\ Full(after) /\ week \in Nat \ {0}
    BY CloseWeekTyped, SettledWhileOpen DEF CloseWeek
  <1>4. ASSUME NEW w \in 1..week
        PROVE  /\ (r # "RETAILER" /\ w + OrderDelay[r] > week) =>
                      after[r].orders[w + OrderDelay[r] - week]
                          = history'[w][Downstream[r]].order
               /\ w + InboundDelay[r] > week =>
                      after[r].shipments[w + InboundDelay[r] - week] = SentTo(w, r)'
    BY AfterClosing
  <1> HIDE DEF after
  <1>5. /\ OrderDelay[r] \in Nat \ {0} /\ InboundDelay[r] \in Nat \ {0}
        /\ after[r].shipments \in Seq(Nat) /\ after[r].orders \in Seq(Nat)
        /\ Len(after[r].shipments) = InboundDelay[r]
        /\ r # "RETAILER" => Len(after[r].orders) = OrderDelay[r]
    BY <1>3, DelaysAssumption DEF Full, Agent
  <1>6. /\ r # "RETAILER" => agents'[r].orders = Tail(after[r].orders)
        /\ r = "FACTORY" => agents'[r].shipments = Tail(after[r].shipments)
        /\ r # "FACTORY" =>
               agents'[r].shipments
                   = Append(Tail(after[r].shipments), settlements'[Upstream[r]].shipped)
    <2>1. PICK st : st = settlements'
      OBVIOUS
    <2>. QED BY <1>2, <1>3, <2>1, PhaseAPipelines
  <1>7. ASSUME r # "RETAILER", NEW w \in 1..week, w + OrderDelay[r] > week + 1
        PROVE  agents'[r].orders[w + OrderDelay[r] - (week + 1)]
                   = history'[w][Downstream[r]].order
    <2> DEFINE k == w + OrderDelay[r] - (week + 1)
    <2>1. /\ k \in 1..(OrderDelay[r] - 1) /\ k + 1 = w + OrderDelay[r] - week
          /\ w + OrderDelay[r] > week
      BY <1>3, <1>5, <1>7, NextPlaceOf
    <2>2. Len(after[r].orders) = OrderDelay[r]
      BY <1>5, <1>7
    <2> HIDE DEF k
    <2>3. Tail(after[r].orders)[k] = after[r].orders[k + 1]
      BY <1>5, <2>1, <2>2, SlotInTail
    <2>. QED BY <1>4, <1>6, <1>7, <2>1, <2>3 DEF k
  <1>8. ASSUME NEW w \in 1..week, w + InboundDelay[r] > week + 1
        PROVE  agents'[r].shipments[w + InboundDelay[r] - (week + 1)] = SentTo(w, r)'
    <2> DEFINE k == w + InboundDelay[r] - (week + 1)
               slots == Tail(after[r].shipments)
    <2>1. /\ k \in 1..(InboundDelay[r] - 1) /\ k + 1 = w + InboundDelay[r] - week
          /\ w + InboundDelay[r] > week
      BY <1>3, <1>5, <1>8, NextPlaceOf
    <2>2. Len(after[r].shipments) = InboundDelay[r]
      BY <1>5
    <2>3. slots \in Seq(Nat) /\ Len(slots) = Len(after[r].shipments) - 1
      BY <1>5, TailTyped
    <2> HIDE DEF k
    <2>4. slots[k] = after[r].shipments[k + 1]
      BY <1>5, <2>1, <2>2, SlotInTail
    <2> HIDE DEF slots
    <2>5. agents'[r].shipments[k] = slots[k]
      <3>1. CASE r = "FACTORY"
        BY <1>6, <3>1 DEF slots
      <3>2. CASE r # "FACTORY"
        <4>1. agents'[r].shipments = Append(slots, settlements'[Upstream[r]].shipped)
          BY <1>6, <3>2 DEF slots
        <4>. QED BY <2>1, <2>2, <2>3, <4>1, SlotInPush
      <3>. QED BY <3>1, <3>2
    <2>. QED BY <1>4, <2>1, <2>4, <2>5 DEF k
  <1>9. ASSUME r # "FACTORY", NEW w \in Nat, w > week
        PROVE  agents'[r].shipments[InboundDelay[r]] = SentTo(w, r)'
    <2> DEFINE slots == Tail(after[r].shipments)
    <2>1. slots \in Seq(Nat) /\ Len(slots) + 1 = InboundDelay[r]
      BY <1>5, TailTyped
    <2> HIDE DEF slots
    <2>2. agents'[r].shipments = Append(slots, settlements'[Upstream[r]].shipped)
      BY <1>6, <1>9 DEF slots
    <2>3. SentTo(w, r)' = settlements'[Upstream[r]].shipped
      BY <1>2, <1>9, Neighbours DEF SentTo
    <2>. QED BY <2>1, <2>2, <2>3
  <1>10. SendingWeeks(r)' = IF r = "FACTORY" THEN 1..week ELSE 1..(week + 1)
    BY <1>2 DEF SendingWeeks
  <1>11. ASSUME NEW w \in SendingWeeks(r)', w + InboundDelay[r] > week + 1
         PROVE  agents'[r].shipments[w + InboundDelay[r] - (week + 1)] = SentTo(w, r)'
    <2>1. CASE w \in 1..week
      BY <1>8, <1>11, <2>1
    <2>2. CASE w \notin 1..week
      <3>1. w = week + 1 /\ w \in Nat /\ w > week /\ r # "FACTORY"
        BY <1>3, <1>10, <1>11, <2>2
      <3>2. w + InboundDelay[r] - (week + 1) = InboundDelay[r]
        BY <1>3, <1>5, <3>1
      <3>. QED BY <1>9, <3>1, <3>2
    <2>. QED BY <2>1, <2>2
  <1>. QED BY <1>2, <1>7, <1>11

LEMMA InFlightStep == TypeInv /\ InFlight /\ [Next]_vars => InFlight'
  <1>. SUFFICES ASSUME TypeInv, InFlight, [Next]_vars PROVE InFlight'
    OBVIOUS
  <1>1. agents \in [Role -> Agent]
    BY DEF TypeInv, TypeOK
  <1>2. ASSUME UNCHANGED <<week, phase, settlements, history>>,
               \A r \in Role : /\ agents'[r].orders = agents[r].orders
                               /\ agents'[r].shipments = agents[r].shipments
        PROVE  InFlight'
    BY <1>2 DEF InFlight, SendingWeeks, SentTo, SettlementOf
  <1>3. CASE \E q \in Role : \E qty \in Quantities[q] : SubmitOrder(q, qty)
    BY <1>2, <1>3 DEF SubmitOrder
  <1>4. CASE \E force \in BOOLEAN : CloseWeek(force)
    BY <1>4, InFlightClose
  <1>5. CASE EndEarly
    BY <1>5 DEF EndEarly, InFlight
  <1>6. ASSUME NEW q \in Swappable, NEW flag \in BOOLEAN, SetBot(q, flag)
        PROVE  InFlight'
    <2>1. ASSUME NEW r \in Role
          PROVE  /\ agents'[r].orders = agents[r].orders
                 /\ agents'[r].shipments = agents[r].shipments
      <3>1. agents[r] \in Agent
        BY <1>1
      <3>2. agents'[r] = IF r = q THEN [agents[r] EXCEPT !.is_bot = flag] ELSE agents[r]
        BY <1>1, <1>6 DEF SetBot
      <3>. QED BY <3>1, <3>2 DEF Agent
    <2>. QED BY <1>2, <1>6, <2>1 DEF SetBot
  <1>7. CASE UNCHANGED vars
    BY <1>2, <1>7 DEF vars
  <1>. QED BY <1>3, <1>4, <1>5, <1>6, <1>7, Steps

-------------------------------------------------------------------------------
(* The receipts of the week that opens are the fronts, which the weeks before filled. *)

\* The last week to close opens none, and what had been settled stays as it was.
LEMMA SettledAfterClose ==
    ASSUME TypeInv, NEW force \in BOOLEAN, CloseWeek(force)
    PROVE  SettledWeeks' = IF phase' = "DECISION" THEN week + 1 ELSE week
  <1>1. week \in Nat \ {0} /\ Len(history') = week
    BY CloseWeekTyped, SettledWhileOpen DEF CloseWeek
  <1>2. week' = IF phase' = "DECISION" THEN week + 1 ELSE week
    BY DEF CloseWeek
  <1>. QED BY <1>1, <1>2 DEF SettledWeeks

\* The front of a full pipeline is what the week before its delay sent.
LEMMA FrontsReceived ==
    ASSUME TypeInv, InFlight, NEW force \in BOOLEAN, CloseWeek(force), phase' = "DECISION",
           NEW r \in Role, NEW w \in 1..week
    PROVE  /\ (r # "RETAILER" /\ w + OrderDelay[r] = week + 1) =>
                  settlements'[r].incoming_order = history'[w][Downstream[r]].order
           /\ w + InboundDelay[r] = week + 1 => settlements'[r].arrived = SentTo(w, r)'
  <1> DEFINE after == AfterPhaseC(agents, pending)
  <1>1. after \in [Role -> Agent] /\ Full(after) /\ week \in Nat \ {0}
    BY CloseWeekTyped, SettledWhileOpen DEF CloseWeek
  <1>2. /\ (r # "RETAILER" /\ w + OrderDelay[r] > week) =>
               after[r].orders[w + OrderDelay[r] - week] = history'[w][Downstream[r]].order
        /\ w + InboundDelay[r] > week =>
               after[r].shipments[w + InboundDelay[r] - week] = SentTo(w, r)'
    BY AfterClosing
  <1>3. settlements' = Settlements(after, week + 1)
    BY NextWeek
  <1> HIDE DEF after
  <1>4. /\ settlements'[r].arrived = Head(after[r].shipments)
        /\ r # "RETAILER" => settlements'[r].incoming_order = Head(after[r].orders)
    BY <1>3, Received
  <1>5. Head(after[r].shipments) = after[r].shipments[1]
        /\ Head(after[r].orders) = after[r].orders[1]
    OBVIOUS
  <1>6. ASSUME NEW delay \in Nat, w + delay = week + 1
        PROVE  w + delay > week /\ w + delay - week = 1
    BY <1>1, <1>6
  <1>7. OrderDelay[r] \in Nat /\ InboundDelay[r] \in Nat
    BY DelaysAssumption
  <1>. QED BY <1>2, <1>4, <1>5, <1>6, <1>7

\* A week that closes delivers the open week on time.
LEMMA OnTimeClose ==
    ASSUME TypeInv, InFlight, OnTime, NEW force \in BOOLEAN, CloseWeek(force)
    PROVE  OnTime'
  <1>1. /\ SettledWeeks = week /\ Len(history) = week - 1 /\ week \in Nat \ {0}
        /\ Len(history') = week
        /\ SettledWeeks' = IF phase' = "DECISION" THEN week + 1 ELSE week
    BY SettledWhileOpen, CloseWeekTyped, SettledAfterClose DEF CloseWeek
  <1>2. SUFFICES ASSUME NEW w \in 1..week, NEW r \in Role
                 PROVE  /\ (r # "FACTORY" /\ w + OrderDelay[Upstream[r]] <= SettledWeeks') =>
                               SettlementOf(w + OrderDelay[Upstream[r]], Upstream[r])'.incoming_order
                                   = history'[w][r].order
                        /\ w + InboundDelay[r] <= SettledWeeks' =>
                               SettlementOf(w + InboundDelay[r], r)'.arrived = SentTo(w, r)'
    BY <1>1 DEF OnTime, SentTo
  <1>3. \A q \in Role, n \in 1..week : SettlementOf(n, q)' = SettlementOf(n, q)
    BY PastSettlements
  <1>4. phase' = "DECISION" =>
           \A q \in Role, n \in Nat : n > week => SettlementOf(n, q)' = settlements'[q]
    BY NextWeek
  <1>5. \A q \in Role : OrderDelay[q] \in Nat \ {0} /\ InboundDelay[q] \in Nat \ {0}
    BY DelaysAssumption
  <1>6. ASSUME r # "FACTORY", w + OrderDelay[Upstream[r]] <= SettledWeeks'
        PROVE  SettlementOf(w + OrderDelay[Upstream[r]], Upstream[r])'.incoming_order
                   = history'[w][r].order
    <2>1. /\ Upstream[r] \in Role /\ Upstream[r] # "RETAILER"
          /\ Downstream[Upstream[r]] = r
      BY <1>6, Neighbours, Links
    <2>2. PICK n \in Nat : n = w + OrderDelay[Upstream[r]]
      BY <1>1, <1>5, <2>1
    <2>3. CASE n <= week
      <3>1. w \in 1..Len(history) /\ n \in 1..week
        BY <1>1, <1>5, <2>1, <2>2, <2>3
      <3>2. SettlementOf(n, Upstream[r]).incoming_order = history[w][r].order
        BY <1>1, <1>6, <2>2, <2>3, <3>1 DEF OnTime
      <3>3. history'[w] = history[w]
        BY <3>1, PastSettlements
      <3>. QED BY <1>3, <2>1, <2>2, <3>1, <3>2, <3>3
    <2>4. CASE n > week
      <3>1. n = week + 1 /\ phase' = "DECISION"
        BY <1>1, <1>6, <2>2, <2>4
      <3>2. settlements'[Upstream[r]].incoming_order = history'[w][Downstream[Upstream[r]]].order
        BY <2>1, <2>2, <3>1, FrontsReceived
      <3>. QED BY <1>4, <2>1, <2>2, <2>4, <3>1, <3>2
    <2>. QED BY <1>1, <2>3, <2>4
  <1>7. ASSUME w + InboundDelay[r] <= SettledWeeks'
        PROVE  SettlementOf(w + InboundDelay[r], r)'.arrived = SentTo(w, r)'
    <2>1. PICK n \in Nat : n = w + InboundDelay[r]
      BY <1>1, <1>5
    <2>2. CASE n <= week
      <3>1. w \in 1..Len(history) /\ n \in 1..week
        BY <1>1, <1>5, <2>1, <2>2
      <3>2. SettlementOf(n, r).arrived = SentTo(w, r)
        BY <1>1, <2>1, <2>2, <3>1 DEF OnTime, SentTo
      <3>3. SentTo(w, r)' = SentTo(w, r)
        BY <1>3, <3>1, Neighbours, PastSettlements DEF SentTo
      <3>. QED BY <1>3, <2>1, <3>1, <3>2, <3>3
    <2>3. CASE n > week
      <3>1. n = week + 1 /\ phase' = "DECISION"
        BY <1>1, <1>7, <2>1, <2>3
      <3>2. settlements'[r].arrived = SentTo(w, r)'
        BY <2>1, <3>1, FrontsReceived
      <3>. QED BY <1>4, <2>1, <2>3, <3>1, <3>2
    <2>. QED BY <1>1, <2>2, <2>3
  <1>. QED BY <1>6, <1>7

\* Orders and shipments are never early, late, lost or swapped, for any delays: each
\* arrives in the week `order_arrival_lead_weeks` and the shipping delay promise.
THEOREM OnTimeHolds == Spec => []OnTime
  <1>1. Init => OnTime
    BY DEF Init, OnTime
  <1>2. TypeInv /\ InFlight /\ OnTime /\ [Next]_vars => OnTime'
    <2>. SUFFICES ASSUME TypeInv, InFlight, OnTime, [Next]_vars PROVE OnTime'
      OBVIOUS
    <2>1. CASE UNCHANGED <<week, settlements, history>>
      BY <2>1 DEF OnTime, SettledWeeks, SettlementOf
    <2>2. CASE \E force \in BOOLEAN : CloseWeek(force)
      BY <2>2, OnTimeClose
    <2>. QED BY <2>1, <2>2, Steps DEF SubmitOrder, EndEarly, SetBot, vars
  <1>. QED BY <1>1, <1>2, InFlightInit, InFlightStep, TypesHold, PTL DEF Spec

-------------------------------------------------------------------------------
(* Induction.                                                                  *)

LEMMA LeastNumber ==
    ASSUME NEW T \in SUBSET Nat, T # {}
    PROVE  \E n \in T : \A m \in T : n <= m
  <1>. DEFINE R == OpToRel(<, Nat)
  <1>1. IsWellFoundedOn(R, Nat)
    BY NatLessThanWellFounded
  <1>2. R = {ss \in Nat \X Nat : ss[1] < ss[2]}
    BY DEF OpToRel
  <1>. HIDE DEF R
  <1>3. PICK n \in T : \A m \in T : <<m, n>> \notin R
    BY <1>1, WFMin
  <1>4. ASSUME NEW m \in T PROVE n <= m
    <2>1. <<m, n>> \in Nat \X Nat /\ <<m, n>>[1] = m /\ <<m, n>>[2] = n
      OBVIOUS
    <2>2. ~(m < n)
      BY <1>2, <1>3, <2>1
    <2>. QED BY <2>2
  <1>. QED BY <1>4

LEMMA Induction ==
    ASSUME NEW S, 0 \in S, \A n \in Nat : n \in S => n + 1 \in S
    PROVE  \A n \in Nat : n \in S
  <1>. SUFFICES ASSUME Nat \ S # {} PROVE FALSE
    OBVIOUS
  <1>1. PICK n \in Nat \ S : \A m \in Nat \ S : n <= m
    BY LeastNumber
  <1>2. n # 0 /\ n - 1 \in Nat /\ ~(n <= n - 1)
    BY <1>1
  <1>3. n - 1 \in S
    BY <1>1, <1>2
  <1>4. (n - 1) + 1 \in S
    BY <1>2, <1>3
  <1>. QED BY <1>1, <1>4

-------------------------------------------------------------------------------
(* Totals.                                                                     *)

\* sum adds up f to its first n values.
Adds(f, n, sum) == sum = [i \in 0..n |-> IF i = 0 THEN 0 ELSE sum[i - 1] + f[i]]

LEMMA SumExists ==
    ASSUME NEW f, NEW n \in Nat
    PROVE  \E sum : Adds(f, n, sum)
  <1>. DEFINE S == {k \in Nat : \E sum : Adds(f, k, sum)}
  <1>1. 0 \in S
    <2>. DEFINE zero == [i \in 0..0 |-> 0]
    <2>1. zero = [i \in 0..0 |-> IF i = 0 THEN 0 ELSE zero[i - 1] + f[i]]
      OBVIOUS
    <2>2. Adds(f, 0, zero)
      BY <2>1 DEF Adds
    <2>. QED BY <2>2
  <1>2. ASSUME NEW k \in Nat, k \in S
        PROVE  k + 1 \in S
    <2>1. PICK sum : Adds(f, k, sum)
      BY <1>2
    <2>2. ASSUME NEW i \in 0..k
          PROVE  sum[i] = IF i = 0 THEN 0 ELSE sum[i - 1] + f[i]
      BY <2>1 DEF Adds
    <2>. DEFINE next == [i \in 0..(k + 1) |-> IF i = k + 1 THEN sum[k] + f[k + 1] ELSE sum[i]]
    <2>3. ASSUME NEW i \in 0..(k + 1)
          PROVE  next[i] = IF i = 0 THEN 0 ELSE next[i - 1] + f[i]
      <3>1. CASE i = k + 1
        BY <3>1
      <3>2. CASE i # k + 1
        <4>1. i \in 0..k
          BY <3>2
        <4>. QED BY <2>2, <3>2, <4>1
      <3>. QED BY <3>1, <3>2
    <2>4. Adds(f, k + 1, next)
      BY <2>3 DEF Adds
    <2>. HIDE DEF next
    <2>5. \E s : Adds(f, k + 1, s)
      BY <2>4
    <2>. QED BY <2>5
  <1>. HIDE DEF S
  <1>3. n \in S
    BY <1>1, <1>2, Induction
  <1>. QED BY <1>3 DEF S

\* Sums of the same values are the same.
Agree(d, f, k) == \A i \in 1..k : d[i] = f[i]

LEMMA SumUnique ==
    ASSUME NEW n \in Nat, NEW k \in 0..n, NEW d, NEW f, Agree(d, f, k),
           NEW g, NEW h, Adds(d, k, g), Adds(f, n, h)
    PROVE  g[k] = h[k]
  <1>. DEFINE S == {m \in Nat : m <= k => g[m] = h[m]}
  <1>1. /\ \A i \in 0..k : g[i] = IF i = 0 THEN 0 ELSE g[i - 1] + d[i]
        /\ \A i \in 0..n : h[i] = IF i = 0 THEN 0 ELSE h[i - 1] + f[i]
    BY DEF Adds
  <1>2. 0 \in S
    BY <1>1
  <1>3. ASSUME NEW m \in Nat, m \in S
        PROVE  m + 1 \in S
    <2>1. SUFFICES ASSUME m + 1 <= k PROVE g[m + 1] = h[m + 1]
      OBVIOUS
    <2>2. /\ m + 1 \in 0..k /\ m + 1 \in 0..n /\ m + 1 \in 1..k
          /\ m + 1 # 0 /\ (m + 1) - 1 = m
      BY <2>1
    <2>3. g[m] = h[m] /\ d[m + 1] = f[m + 1]
      BY <1>3, <2>1, <2>2 DEF Agree
    <2>4. g[m + 1] = g[m] + d[m + 1] /\ h[m + 1] = h[m] + f[m + 1]
      BY <1>1, <2>2
    <2>. QED BY <2>3, <2>4
  <1>. HIDE DEF S
  <1>4. k \in S
    BY <1>2, <1>3, Induction
  <1>. QED BY <1>4 DEF S

\* The total is the last of the partial sums.
LEMMA TotalIs ==
    ASSUME NEW slots, Len(slots) \in Nat, NEW sum, Adds(slots, Len(slots), sum)
    PROVE  Total(slots) = sum[Len(slots)]
  <1>. DEFINE chosen == CHOOSE s : Adds(slots, Len(slots), s)
  <1>1. Adds(slots, Len(slots), chosen)
    OBVIOUS
  <1>2. Total(slots) = chosen[Len(slots)]
    BY DEF Total, Adds
  <1>. HIDE DEF chosen
  <1>3. chosen[Len(slots)] = sum[Len(slots)]
    <2>1. Len(slots) \in 0..Len(slots)
      OBVIOUS
    <2>2. Agree(slots, slots, Len(slots))
      BY DEF Agree
    <2>. QED BY <1>1, <2>1, <2>2, SumUnique
  <1>. QED BY <1>2, <1>3

\* Of natural numbers, and of integers.
LEMMA SumTyped ==
    ASSUME NEW T, T = Nat \/ T = Int, NEW n \in Nat, NEW f, \A i \in 1..n : f[i] \in T,
           NEW sum, Adds(f, n, sum)
    PROVE  \A i \in 0..n : sum[i] \in T
  <1>. DEFINE S == {m \in Nat : m <= n => sum[m] \in T}
  <1>1. \A i \in 0..n : sum[i] = IF i = 0 THEN 0 ELSE sum[i - 1] + f[i]
    BY DEF Adds
  <1>2. 0 \in S
    BY <1>1
  <1>3. ASSUME NEW m \in Nat, m \in S
        PROVE  m + 1 \in S
    <2>1. SUFFICES ASSUME m + 1 <= n PROVE sum[m + 1] \in T
      OBVIOUS
    <2>2. m + 1 \in 0..n /\ m + 1 \in 1..n /\ m + 1 # 0 /\ (m + 1) - 1 = m
      BY <2>1
    <2>3. sum[m + 1] = sum[m] + f[m + 1] /\ sum[m] \in T /\ f[m + 1] \in T
      BY <1>1, <1>3, <2>1, <2>2
    <2>. QED BY <2>3
  <1>. HIDE DEF S
  <1>4. \A m \in Nat : m \in S
    BY <1>2, <1>3, Induction
  <1>. QED BY <1>4 DEF S

LEMMA TotalTyped ==
    ASSUME NEW slots
    PROVE  /\ slots \in Seq(Nat) => Total(slots) \in Nat
           /\ slots \in Seq(Int) => Total(slots) \in Int
  <1>1. ASSUME NEW T, T = Nat \/ T = Int, slots \in Seq(T)
        PROVE  Total(slots) \in T
    <2>1. Len(slots) \in Nat /\ \A i \in 1..Len(slots) : slots[i] \in T
      BY <1>1
    <2>2. PICK sum : Adds(slots, Len(slots), sum)
      BY <2>1, SumExists
    <2>3. sum[Len(slots)] \in T
      <3>1. Len(slots) \in 0..Len(slots)
        BY <2>1
      <3>. QED BY <1>1, <2>1, <2>2, <3>1, SumTyped
    <2>. QED BY <2>1, <2>2, <2>3, TotalIs
  <1>. QED BY <1>1

LEMMA TotalEmpty == Total(<<>>) = 0
  <1>1. Len(<<>>) = 0
    OBVIOUS
  <1>2. PICK sum : Adds(<<>>, 0, sum)
    BY SumExists
  <1>3. sum[0] = 0
    BY <1>2 DEF Adds
  <1>. QED BY <1>1, <1>2, <1>3, TotalIs

\* Totals of the same slots.
LEMMA TotalSame ==
    ASSUME NEW a, NEW b, Len(a) \in Nat, Len(b) = Len(a), \A i \in 1..Len(a) : a[i] = b[i]
    PROVE  Total(a) = Total(b)
  <1>. DEFINE n == Len(a)
  <1>1. n \in Nat /\ n \in 0..n /\ Agree(a, b, n)
    BY DEF Agree
  <1>2. PICK g : Adds(a, n, g)
    BY <1>1, SumExists
  <1>3. PICK h : Adds(b, n, h)
    BY <1>1, SumExists
  <1>. HIDE DEF n
  <1>4. g[n] = h[n]
    BY <1>1, <1>2, <1>3, SumUnique
  <1>. QED BY <1>2, <1>3, <1>4, TotalIs DEF n

\* A longer sequence: one more slot counts once.
LEMMA TotalLonger ==
    ASSUME NEW a, NEW b, Len(a) \in Nat, Len(b) = Len(a) + 1, \A i \in 1..Len(a) : a[i] = b[i]
    PROVE  Total(b) = Total(a) + b[Len(b)]
  <1>. DEFINE n == Len(a)
  <1>1. n \in Nat /\ n \in 0..(n + 1) /\ n + 1 \in Nat /\ Len(b) = n + 1
        /\ Agree(a, b, n)
    BY DEF Agree
  <1>2. PICK g : Adds(a, n, g)
    BY <1>1, SumExists
  <1>3. PICK h : Adds(b, n + 1, h)
    BY <1>1, SumExists
  <1>. HIDE DEF n
  <1>4. g[n] = h[n]
    BY <1>1, <1>2, <1>3, SumUnique
  <1>5. h[n + 1] = h[n] + b[n + 1]
    BY <1>1, <1>3 DEF Adds
  <1>6. Total(a) = g[n] /\ Total(b) = h[n + 1]
    BY <1>1, <1>2, <1>3, TotalIs DEF n
  <1>. QED BY <1>1, <1>4, <1>5, <1>6

LEMMA TotalPush ==
    ASSUME NEW slots \in Seq(Nat), NEW qty \in Nat
    PROVE  Total(Append(slots, qty)) = Total(slots) + qty
  <1>. DEFINE longer == Append(slots, qty)
  <1>1. /\ Len(longer) = Len(slots) + 1 /\ longer[Len(longer)] = qty /\ Len(slots) \in Nat
        /\ \A i \in 1..Len(slots) : slots[i] = longer[i]
    OBVIOUS
  <1>. HIDE DEF longer
  <1>2. Total(longer) = Total(slots) + qty
    BY <1>1, TotalLonger
  <1>. QED BY <1>2 DEF longer

\* The front counts, and so does what is behind it.
LEMMA TotalFront ==
    ASSUME NEW slots \in Seq(Nat), Len(slots) > 0
    PROVE  Total(slots) = Head(slots) + Total(Tail(slots))
  <1>. DEFINE rest == Tail(slots)
              n == Len(slots)
  <1>1. /\ rest \in Seq(Nat) /\ Len(rest) = n - 1 /\ n \in Nat /\ n - 1 \in Nat
        /\ Head(slots) = slots[1] /\ slots[1] \in Nat
        /\ \A i \in 2..n : slots[i] = rest[i - 1]
        /\ \A i \in 1..(n - 1) : rest[i] \in Nat
    OBVIOUS
  <1>. HIDE DEF rest, n
  <1>2. PICK sum : Adds(rest, n - 1, sum)
    BY <1>1, SumExists
  <1>3. \A i \in 0..(n - 1) : sum[i] \in Nat
    BY <1>1, <1>2, SumTyped
  <1>. DEFINE all == [i \in 0..n |-> IF i = 0 THEN 0 ELSE slots[1] + sum[i - 1]]
  <1>4. ASSUME NEW i \in 0..n
        PROVE  all[i] = IF i = 0 THEN 0 ELSE all[i - 1] + slots[i]
    <2>1. CASE i = 0
      BY <2>1
    <2>2. CASE i = 1
      <3>1. sum[0] = 0
        BY <1>1, <1>2 DEF Adds
      <3>. QED BY <1>1, <2>2, <3>1
    <2>3. CASE i \notin {0, 1}
      <3>1. /\ i - 1 \in 0..(n - 1) /\ i - 1 # 0 /\ i - 2 \in 0..(n - 1) /\ i - 1 \in 0..n
            /\ (i - 1) - 1 = i - 2 /\ i \in 2..n /\ i - 1 \in 1..(n - 1)
        BY <1>1, <2>3
      <3>2. sum[i - 1] = sum[i - 2] + rest[i - 1] /\ slots[i] = rest[i - 1]
        BY <1>1, <1>2, <3>1 DEF Adds
      <3>3. all[i] = slots[1] + sum[i - 1] /\ all[i - 1] = slots[1] + sum[i - 2]
        BY <2>3, <3>1
      <3>4. sum[i - 2] \in Nat /\ rest[i - 1] \in Nat
        BY <1>1, <1>3, <3>1
      <3>. HIDE DEF all
      <3>. QED BY <1>1, <2>3, <3>2, <3>3, <3>4
    <2>. QED BY <2>1, <2>2, <2>3
  <1>5. Adds(slots, n, all)
    BY <1>4 DEF Adds
  <1>6. all[n] = slots[1] + sum[n - 1]
    BY <1>1 DEF n
  <1>. HIDE DEF all
  <1>7. Total(slots) = all[n] /\ Total(rest) = sum[n - 1]
    BY <1>1, <1>2, <1>5, TotalIs DEF n
  <1>. QED BY <1>1, <1>6, <1>7 DEF rest

LEMMA TotalFilled ==
    ASSUME NEW length \in Nat, NEW fill \in Nat
    PROVE  Total(Filled(length, fill)) = length * fill
  <1>. DEFINE slots == Filled(length, fill)
              sum == [i \in 0..length |-> i * fill]
  <1>1. Len(slots) = length /\ \A i \in 1..length : slots[i] = fill
    BY DEF Filled
  <1>. HIDE DEF slots
  <1>2. ASSUME NEW i \in 0..length
        PROVE  sum[i] = IF i = 0 THEN 0 ELSE sum[i - 1] + slots[i]
    <2>1. CASE i = 0
      BY <2>1
    <2>2. CASE i # 0
      <3>1. i - 1 \in 0..length /\ i \in 1..length
        BY <2>2
      <3>2. i * fill = (i - 1) * fill + fill
        OBVIOUS
      <3>. QED BY <1>1, <2>2, <3>1, <3>2
    <2>. QED BY <2>1, <2>2
  <1>3. Adds(slots, length, sum)
    BY <1>2 DEF Adds
  <1>4. sum[length] = length * fill
    OBVIOUS
  <1>. HIDE DEF sum
  <1>5. Total(slots) = length * fill
    BY <1>1, <1>3, <1>4, TotalIs
  <1>. QED BY <1>5 DEF slots

\* Nothing adds up to nothing.
LEMMA TotalNone ==
    ASSUME NEW slots, Len(slots) = 0
    PROVE  Total(slots) = 0
  <1>1. Len(<<>>) = 0 /\ 0 \in Nat /\ \A i \in 1..0 : slots[i] = <<>>[i]
    OBVIOUS
  <1>. QED BY <1>1, TotalEmpty, TotalSame

-------------------------------------------------------------------------------
(* Recorded costs: inductive with the running costs.                           *)

WeeklyCosts(h, r) == [w \in 1..Len(h) |-> h[w][r].total_week_cost]

LEMMA RecordedInit == Init => RecordedCosts
  <1>1. SUFFICES ASSUME history = <<>>, NEW r \in Role
                 PROVE  0 = Total(WeeklyCosts(history, r))
    BY DEF Init, RecordedCosts, PreviousCumulative, WeeklyCosts
  <1>2. Len(WeeklyCosts(history, r)) = 0
    BY <1>1 DEF WeeklyCosts
  <1>. QED BY <1>2, TotalNone

LEMMA RecordedClose ==
    ASSUME TypeInv, RunningCosts, RecordedCosts, NEW force \in BOOLEAN, CloseWeek(force),
           NEW r \in Role
    PROVE  PreviousCumulative(r)' = Total(WeeklyCosts(history', r))
  <1>. DEFINE after == AfterPhaseC(agents, pending)
              records == [q \in Role |-> Record(q, agents, after)]
              cost == OrderCost(r, Decision(pending, r))
  <1>1. /\ history' = Append(history, records) /\ history' \in Seq([Role -> WeekRecord])
        /\ history \in Seq([Role -> WeekRecord])
        /\ agents \in [Role -> Agent] /\ settlements \in [Role -> Settlement]
        /\ pending \in Orders /\ phase = "DECISION"
    BY CloseWeekTyped DEF TypeInv, TypeOK, CloseWeek, Orders
  <1>2. after[r].accumulated_cost = agents[r].accumulated_cost + cost
    <2>1. agents[r] \in Agent
      BY <1>1
    <2>. QED BY <1>1, <2>1 DEF AfterPhaseC, Agent
  <1>3. records[r].cumulative_cost = after[r].accumulated_cost
        /\ records[r].total_week_cost = settlements[r].carrying_cost + cost
    BY DEF Record
  <1>4. cost \in Nat /\ settlements[r].carrying_cost \in Nat /\ PreviousCumulative(r) \in Nat
    <2>1. PreviousCumulative(r) \in Nat
      <3>1. CASE history = <<>>
        BY <3>1 DEF PreviousCumulative
      <3>2. CASE history # <<>>
        <4>1. history[Len(history)] \in [Role -> WeekRecord]
          BY <1>1, <3>2
        <4>. QED BY <3>2, <4>1 DEF PreviousCumulative, WeekRecord
      <3>. QED BY <3>1, <3>2
    <2>. QED BY <1>1, <2>1, DecisionTyped DEF Settlement
  <1>5. agents[r].accumulated_cost = PreviousCumulative(r) + settlements[r].carrying_cost
    BY <1>1 DEF RunningCosts
  <1>6. PreviousCumulative(r) = Total(WeeklyCosts(history, r))
    BY DEF RecordedCosts, WeeklyCosts
  <1>. HIDE DEF after, records, cost
  <1>7. /\ history' # <<>> /\ history'[Len(history')] = records
        /\ Len(history) \in Nat /\ Len(history') = Len(history) + 1
        /\ \A w \in 1..Len(history) : history'[w] = history[w]
    BY <1>1
  <1>8. PreviousCumulative(r)' = records[r].cumulative_cost
    BY <1>7 DEF PreviousCumulative
  <1>9. Total(WeeklyCosts(history', r)) =
            Total(WeeklyCosts(history, r)) + records[r].total_week_cost
    <2>. DEFINE a == WeeklyCosts(history, r)
                b == WeeklyCosts(history', r)
    <2>1. Len(a) = Len(history) /\ Len(b) = Len(a) + 1 /\ b[Len(b)] = records[r].total_week_cost
      BY <1>7 DEF WeeklyCosts
    <2>2. \A w \in 1..Len(a) : a[w] = b[w]
      BY <1>7 DEF WeeklyCosts
    <2>. HIDE DEF a, b
    <2>3. Total(b) = Total(a) + b[Len(b)]
      BY <1>7, <2>1, <2>2, TotalLonger
    <2>. QED BY <2>1, <2>3 DEF a, b
  <1>. QED BY <1>2, <1>3, <1>4, <1>5, <1>6, <1>8, <1>9

LEMMA RecordedStep == TypeInv /\ RunningCosts /\ RecordedCosts /\ [Next]_vars => RecordedCosts'
  <1>1. SUFFICES ASSUME TypeInv, RunningCosts, RecordedCosts, [Next]_vars, NEW r \in Role
                 PROVE  PreviousCumulative(r)' = Total(WeeklyCosts(history', r))
    BY DEF RecordedCosts, WeeklyCosts
  <1>2. ASSUME NEW force \in BOOLEAN, CloseWeek(force)
        PROVE  PreviousCumulative(r)' = Total(WeeklyCosts(history', r))
    BY <1>1, <1>2, RecordedClose
  <1>3. CASE history' = history
    BY <1>1, <1>3 DEF RecordedCosts, PreviousCumulative, WeeklyCosts
  <1>. QED BY <1>1, <1>2, <1>3, Steps DEF SubmitOrder, EndEarly, SetBot, vars

\* Every cumulative cost is the sum of the weekly costs recorded up to it: the two
\* charges of a week, in Phase A and in Phase C, are each in it once.
THEOREM RecordedCostsAddUp == Spec => []RecordedCosts
  BY RecordedInit, RecordedStep, RunningCostsHold, TypesHold, PTL DEF Spec

-------------------------------------------------------------------------------
(* Conservation.                                                               *)

\* The inventory position of r among these agents.
Position(ag, r) ==
    ag[r].inventory - ag[r].backlog + Total(ag[r].shipments)
      + IF r = "FACTORY" THEN ag[r].production_queue
        ELSE ag[Upstream[r]].backlog + Total(ag[Upstream[r]].orders)

\* A settlement moves units between stock, backlog and shipment only.
LEMMA SettleBalance ==
    ASSUME NEW r \in Role, NEW a \in Agent, NEW arriving \in Nat, NEW incoming \in Nat
    PROVE  LET st == Settle(r, a, arriving, incoming)
           IN  /\ st.closing_inventory - st.closing_backlog =
                      a.inventory - a.backlog + arriving - incoming
               /\ st.closing_backlog = a.backlog + incoming - st.shipped
  <1>. DEFINE shipped == Shipped(a.inventory + arriving, incoming, a.backlog)
              st == Settle(r, a, arriving, incoming)
  <1>1. a.inventory \in Nat /\ a.backlog \in Nat /\ shipped \in Nat
    BY DEF Agent, Shipped, Minimum
  <1>2. /\ st.closing_inventory = (a.inventory + arriving) - shipped
        /\ st.closing_backlog = (incoming + a.backlog) - shipped
        /\ st.shipped = shipped
    BY DEF Settle
  <1>. HIDE DEF shipped, st
  <1>. QED BY <1>1, <1>2 DEF st

\* The parts of a position are numbers.
LEMMA PositionParts ==
    ASSUME NEW ag \in [Role -> Agent], NEW r \in Role
    PROVE  /\ ag[r] \in Agent
           /\ ag[r].inventory \in Nat /\ ag[r].backlog \in Nat
           /\ ag[r].shipments \in Seq(Nat) /\ Total(ag[r].shipments) \in Nat
           /\ ag[r].orders \in Seq(Nat) /\ Total(ag[r].orders) \in Nat
           /\ ag[r].production_queue \in Nat
  BY TotalTyped DEF Agent

\* Phase C adds what r decided to its position: to the orders on their way to its
\* supplier, or to the factory's batch and its queue.
LEMMA PhaseCPosition ==
    ASSUME NEW ag \in [Role -> Agent], NEW p \in Orders, NEW r \in Role
    PROVE  Position(AfterPhaseC(ag, p), r) = Position(ag, r) + Decision(p, r)
  <1>. DEFINE new == AfterPhaseC(ag, p)
  <1>1. /\ new[r].inventory = ag[r].inventory /\ new[r].backlog = ag[r].backlog
    BY PhaseStock
  <1>2. Decision(p, r) \in Nat
    BY DecisionTyped
  <1>3. CASE r = "FACTORY"
    <2>. DEFINE started == Started(ag, Decision(p, r))
    <2>1. /\ new[r].shipments = Append(ag[r].shipments, started)
          /\ new[r].production_queue = Requested(ag, Decision(p, r)) - started
      <3>1. ag[r] \in Agent
        OBVIOUS
      <3>. QED BY <1>3, <3>1 DEF AfterPhaseC, Agent, Push
    <2>2. started \in Nat /\ Requested(ag, Decision(p, r)) = Decision(p, r) + ag[r].production_queue
      BY <1>2, <1>3, StartedTyped DEF Requested
    <2>. HIDE DEF new, started
    <2>3. Total(new[r].shipments) = Total(ag[r].shipments) + started
      BY <2>1, <2>2, PositionParts, TotalPush
    <2>4. /\ Position(new, r) = new[r].inventory - new[r].backlog + Total(new[r].shipments)
                                    + new[r].production_queue
          /\ Position(ag, r) = ag[r].inventory - ag[r].backlog + Total(ag[r].shipments)
                                    + ag[r].production_queue
      BY <1>3 DEF Position
    <2>5. /\ ag[r].inventory \in Nat /\ ag[r].backlog \in Nat
          /\ Total(ag[r].shipments) \in Nat /\ ag[r].production_queue \in Nat
      BY PositionParts
    <2>. QED BY <1>1, <1>2, <2>1, <2>2, <2>3, <2>4, <2>5 DEF new
  <1>4. CASE r # "FACTORY"
    <2>. DEFINE up == Upstream[r]
    <2>1. up \in Role /\ up # "RETAILER" /\ Downstream[up] = r
      BY <1>4, Neighbours, Links
    <2>. HIDE DEF up
    <2>2. /\ new[r].shipments = ag[r].shipments
          /\ new[up].orders = Append(ag[up].orders, Decision(p, r))
          /\ new[up].backlog = ag[up].backlog
      <3>1. new[r].shipments = ag[r].shipments
        BY <1>4, PhaseCPipelines
      <3>2. new[up].orders = Append(ag[up].orders, OrderInto(p, up))
        BY <2>1, PhaseCPipelines
      <3>3. new[up].backlog = ag[up].backlog
        BY <2>1, PhaseStock
      <3>. QED BY <2>1, <3>1, <3>2, <3>3 DEF OrderInto
    <2>. HIDE DEF new
    <2>3. Total(new[up].orders) = Total(ag[up].orders) + Decision(p, r)
      BY <1>2, <2>1, <2>2, PositionParts, TotalPush
    <2>4. /\ Position(new, r) = new[r].inventory - new[r].backlog + Total(new[r].shipments)
                                    + (new[up].backlog + Total(new[up].orders))
          /\ Position(ag, r) = ag[r].inventory - ag[r].backlog + Total(ag[r].shipments)
                                    + (ag[up].backlog + Total(ag[up].orders))
      BY <1>4 DEF Position, up
    <2>5. /\ ag[r].inventory \in Nat /\ ag[r].backlog \in Nat /\ ag[up].backlog \in Nat
          /\ Total(ag[r].shipments) \in Nat /\ Total(ag[up].orders) \in Nat
      BY <2>1, PositionParts
    <2>. QED BY <1>1, <1>2, <2>2, <2>3, <2>4, <2>5 DEF new
  <1>. QED BY <1>3, <1>4

\* Phase A takes what was asked of r from its position, and nothing else: what r owed
\* its supplier's books too.
LEMMA PhaseAPosition ==
    ASSUME NEW ag \in [Role -> Agent], Full(ag), NEW w \in 1..DurationWeeks,
           demand \in [1..DurationWeeks -> Nat], NEW st, st = Settlements(ag, w),
           NEW r \in Role
    PROVE  /\ Position(AfterPhaseA(ag, st), r) = Position(ag, r) - st[r].incoming_order
           /\ st[r].incoming_order \in Nat
  <1>. DEFINE new == AfterPhaseA(ag, st)
  <1>1. st \in [Role -> Settlement]
    BY SettlementsTyped
  <1>2. ASSUME NEW q \in Role
        PROVE  /\ st[q].arrived = Head(ag[q].shipments) /\ st[q].arrived \in Nat
               /\ st[q].incoming_order \in Nat /\ st[q].shipped \in Nat
               /\ q # "RETAILER" => st[q].incoming_order = Head(ag[q].orders)
               /\ st[q].closing_inventory \in Nat /\ st[q].closing_backlog \in Nat
               /\ st[q].closing_inventory - st[q].closing_backlog =
                      ag[q].inventory - ag[q].backlog + st[q].arrived - st[q].incoming_order
               /\ st[q].closing_backlog =
                      ag[q].backlog + st[q].incoming_order - st[q].shipped
    <2>. DEFINE arriving == Head(ag[q].shipments)
                incoming == IF q = "RETAILER" THEN demand[w] ELSE Head(ag[q].orders)
    <2>1. st[q] = Settle(q, ag[q], arriving, incoming)
      BY DEF Settlements
    <2>2. st[q].arrived = arriving /\ st[q].incoming_order = incoming
      BY <2>1 DEF Settle
    <2>3. /\ st[q].arrived \in Nat /\ st[q].incoming_order \in Nat /\ st[q].shipped \in Nat
          /\ st[q].closing_inventory \in Nat /\ st[q].closing_backlog \in Nat
      BY <1>1 DEF Settlement
    <2>4. ag[q] \in Agent
      OBVIOUS
    <2>5. q # "RETAILER" => incoming = Head(ag[q].orders)
      OBVIOUS
    <2>. HIDE DEF arriving, incoming
    <2>6. arriving \in Nat /\ incoming \in Nat
      BY <2>2, <2>3
    <2>7. PICK a : a = ag[q]
      OBVIOUS
    <2>8. /\ st[q].closing_inventory - st[q].closing_backlog =
                 a.inventory - a.backlog + arriving - incoming
          /\ st[q].closing_backlog = a.backlog + incoming - st[q].shipped
      <3>. DEFINE settled == Settle(q, a, arriving, incoming)
      <3>1. /\ settled.closing_inventory - settled.closing_backlog =
                   a.inventory - a.backlog + arriving - incoming
            /\ settled.closing_backlog = a.backlog + incoming - settled.shipped
        BY <2>4, <2>6, <2>7, SettleBalance
      <3>2. st[q] = settled
        BY <2>1, <2>7
      <3>. HIDE DEF settled
      <3>. QED BY <3>1, <3>2
    <2>. QED BY <2>2, <2>3, <2>5, <2>7, <2>8 DEF arriving
  <1>3. ASSUME NEW q \in Role
        PROVE  /\ Len(ag[q].shipments) > 0 /\ (q # "RETAILER" => Len(ag[q].orders) > 0)
               /\ Total(ag[q].shipments) = st[q].arrived + Total(Tail(ag[q].shipments))
               /\ Tail(ag[q].shipments) \in Seq(Nat) /\ Total(Tail(ag[q].shipments)) \in Nat
               /\ q # "RETAILER" =>
                     /\ Total(ag[q].orders) = st[q].incoming_order + Total(Tail(ag[q].orders))
                     /\ Total(Tail(ag[q].orders)) \in Nat
    <2>1. /\ Len(ag[q].shipments) > 0 /\ (q # "RETAILER" => Len(ag[q].orders) > 0)
          /\ ag[q].shipments \in Seq(Nat) /\ ag[q].orders \in Seq(Nat)
      <3>1. ag[q].shipments \in Seq(Nat) /\ ag[q].orders \in Seq(Nat)
        BY PositionParts
      <3>2. InboundDelay[q] > 0 /\ OrderDelay[q] > 0
        BY DelaysAssumption
      <3>. QED BY <3>1, <3>2 DEF Full
    <2>2. /\ Total(ag[q].shipments) = Head(ag[q].shipments) + Total(Tail(ag[q].shipments))
          /\ q # "RETAILER" =>
                Total(ag[q].orders) = Head(ag[q].orders) + Total(Tail(ag[q].orders))
      BY <2>1, TotalFront
    <2>3. /\ Tail(ag[q].shipments) \in Seq(Nat)
          /\ q # "RETAILER" => Tail(ag[q].orders) \in Seq(Nat)
      BY <2>1, TailTyped
    <2>. QED BY <1>2, <2>1, <2>2, <2>3, TotalTyped
  <1>4. new[r].inventory = st[r].closing_inventory /\ new[r].backlog = st[r].closing_backlog
    BY PhaseStock
  <1>5. CASE r = "FACTORY"
    <2>1. /\ new[r].shipments = Tail(ag[r].shipments)
          /\ new[r].production_queue = ag[r].production_queue
      <3>1. ag[r] \in Agent
        OBVIOUS
      <3>. QED BY <1>5, <3>1 DEF AfterPhaseA, Agent
    <2>. HIDE DEF new
    <2>2. /\ Position(new, r) = new[r].inventory - new[r].backlog + Total(new[r].shipments)
                                    + new[r].production_queue
          /\ Position(ag, r) = ag[r].inventory - ag[r].backlog + Total(ag[r].shipments)
                                    + ag[r].production_queue
      BY <1>5 DEF Position
    <2>3. /\ ag[r].inventory \in Nat /\ ag[r].backlog \in Nat /\ ag[r].production_queue \in Nat
      BY PositionParts
    <2>4. /\ st[r].arrived \in Nat /\ st[r].incoming_order \in Nat
          /\ st[r].closing_inventory \in Nat /\ st[r].closing_backlog \in Nat
          /\ st[r].closing_inventory - st[r].closing_backlog =
                 ag[r].inventory - ag[r].backlog + st[r].arrived - st[r].incoming_order
          /\ Total(ag[r].shipments) = st[r].arrived + Total(Tail(ag[r].shipments))
          /\ Total(Tail(ag[r].shipments)) \in Nat
      BY <1>2, <1>3
    <2>5. PICK stock \in Nat, owed \in Nat, closing \in Nat, left \in Nat, arrived \in Nat,
               asked \in Nat, rest \in Nat, queue \in Nat :
            /\ stock = ag[r].inventory /\ owed = ag[r].backlog
            /\ closing = st[r].closing_inventory /\ left = st[r].closing_backlog
            /\ arrived = st[r].arrived /\ asked = st[r].incoming_order
            /\ rest = Total(Tail(ag[r].shipments)) /\ queue = ag[r].production_queue
      BY <2>3, <2>4
    <2>6. closing - left = stock - owed + arrived - asked
      BY <2>4, <2>5
    <2>7. /\ Position(new, r) = closing - left + rest + queue
          /\ Position(ag, r) = stock - owed + (arrived + rest) + queue
      BY <1>4, <2>1, <2>2, <2>4, <2>5
    <2>8. Position(new, r) = Position(ag, r) - asked
      BY <2>6, <2>7
    <2>. QED BY <2>5, <2>8 DEF new
  <1>6. CASE r # "FACTORY"
    <2>. DEFINE up == Upstream[r]
    <2>1. up \in Role /\ up # "RETAILER"
      BY <1>6, Neighbours, Links
    <2>2. new[r].shipments = Append(Tail(ag[r].shipments), st[up].shipped)
      BY <1>6, PhaseAPipelines
    <2>. HIDE DEF up
    <2>3. new[up].orders = Tail(ag[up].orders) /\ new[up].backlog = st[up].closing_backlog
      BY <2>1, PhaseAPipelines, PhaseStock
    <2>. HIDE DEF new
    <2>4. Total(new[r].shipments) = Total(Tail(ag[r].shipments)) + st[up].shipped
      <3>1. Tail(ag[r].shipments) \in Seq(Nat) /\ st[up].shipped \in Nat
        BY <1>2, <1>3, <2>1
      <3>. QED BY <2>2, <3>1, TotalPush
    <2>5. /\ Position(new, r) = new[r].inventory - new[r].backlog + Total(new[r].shipments)
                                    + (new[up].backlog + Total(new[up].orders))
          /\ Position(ag, r) = ag[r].inventory - ag[r].backlog + Total(ag[r].shipments)
                                    + (ag[up].backlog + Total(ag[up].orders))
      BY <1>6 DEF Position, up
    <2>6. /\ Total(ag[up].orders) = st[up].incoming_order + Total(new[up].orders)
          /\ Total(new[up].orders) \in Nat
      BY <1>3, <2>1, <2>3
    <2>7. /\ ag[r].inventory \in Nat /\ ag[r].backlog \in Nat /\ ag[up].backlog \in Nat
      BY <2>1, PositionParts
    <2>8. /\ st[r].arrived \in Nat /\ st[r].incoming_order \in Nat
          /\ st[r].closing_inventory \in Nat /\ st[r].closing_backlog \in Nat
          /\ st[r].closing_inventory - st[r].closing_backlog =
                 ag[r].inventory - ag[r].backlog + st[r].arrived - st[r].incoming_order
          /\ Total(ag[r].shipments) = st[r].arrived + Total(Tail(ag[r].shipments))
          /\ Total(Tail(ag[r].shipments)) \in Nat
      BY <1>2, <1>3
    <2>9. /\ st[up].incoming_order \in Nat /\ st[up].shipped \in Nat
          /\ st[up].closing_backlog = ag[up].backlog + st[up].incoming_order - st[up].shipped
      BY <1>2, <2>1
    <2>10. PICK stock \in Nat, owed \in Nat, closing \in Nat, left \in Nat, arrived \in Nat,
                asked \in Nat, rest \in Nat :
             /\ stock = ag[r].inventory /\ owed = ag[r].backlog
             /\ closing = st[r].closing_inventory /\ left = st[r].closing_backlog
             /\ arrived = st[r].arrived /\ asked = st[r].incoming_order
             /\ rest = Total(Tail(ag[r].shipments))
      BY <2>7, <2>8
    <2>11. PICK shipped \in Nat, passed \in Nat, due \in Nat, onway \in Nat :
             /\ shipped = st[up].shipped /\ passed = st[up].incoming_order
             /\ due = ag[up].backlog /\ onway = Total(new[up].orders)
      BY <2>6, <2>7, <2>9
    <2>12. closing - left = stock - owed + arrived - asked
      BY <2>8, <2>10
    <2>13. /\ Position(new, r) = closing - left + (rest + shipped)
                                    + ((due + passed - shipped) + onway)
           /\ Position(ag, r) = stock - owed + (arrived + rest) + (due + (passed + onway))
      BY <1>4, <2>3, <2>4, <2>5, <2>6, <2>8, <2>9, <2>10, <2>11
    <2>14. Position(new, r) = Position(ag, r) - asked
      BY <2>12, <2>13
    <2>. QED BY <2>10, <2>14 DEF new
  <1>. QED BY <1>2, <1>5, <1>6

\* What r has ordered, and what has been asked of it.
Ordered(h, r) == [w \in 1..Len(h) |-> h[w][r].order]
Asked(r) == [w \in 1..SettledWeeks |-> SettlementOf(w, r).incoming_order]

\* The position of a role before the first week.
LEMMA FreshPosition ==
    ASSUME NEW bots \in BotRoles, NEW r \in Role
    PROVE  /\ Position([q \in Role |-> NewAgent(q, bots)], r) = InitialPosition(r)
           /\ InitialPosition(r) \in Int
  <1>. DEFINE fresh == [q \in Role |-> NewAgent(q, bots)]
  <1>1. ASSUME NEW q \in Role
        PROVE  /\ fresh[q].inventory = InitialInventory[q] /\ InitialInventory[q] \in Nat
               /\ fresh[q].backlog = InitialBacklog[q] /\ InitialBacklog[q] \in Nat
               /\ fresh[q].production_queue = 0
               /\ Total(fresh[q].shipments) = InboundDelay[q] * InitialPipeline[q]
               /\ InboundDelay[q] * InitialPipeline[q] \in Nat
               /\ q # "RETAILER" =>
                     Total(fresh[q].orders) = OrderDelay[q] * InitialOrders[q]
               /\ OrderDelay[q] * InitialOrders[q] \in Nat
    <2>1. /\ InitialInventory[q] \in Nat /\ InitialBacklog[q] \in Nat
          /\ InboundDelay[q] \in Nat /\ InitialPipeline[q] \in Nat
          /\ OrderDelay[q] \in Nat /\ InitialOrders[q] \in Nat
      BY DelaysAssumption, StartAssumption
    <2>2. /\ fresh[q].inventory = InitialInventory[q] /\ fresh[q].backlog = InitialBacklog[q]
          /\ fresh[q].production_queue = 0
          /\ fresh[q].shipments = Filled(InboundDelay[q], InitialPipeline[q])
          /\ q # "RETAILER" => fresh[q].orders = Filled(OrderDelay[q], InitialOrders[q])
      BY DEF NewAgent
    <2>3. /\ InboundDelay[q] * InitialPipeline[q] \in Nat
          /\ OrderDelay[q] * InitialOrders[q] \in Nat
      BY <2>1, Products
    <2>. HIDE DEF fresh
    <2>. QED BY <2>1, <2>2, <2>3, TotalFilled
  <1>. HIDE DEF fresh
  <1>2. CASE r = "FACTORY"
    <2>1. /\ Position(fresh, r) = fresh[r].inventory - fresh[r].backlog
                                     + Total(fresh[r].shipments) + fresh[r].production_queue
          /\ InitialPosition(r) = InitialInventory[r] - InitialBacklog[r]
                                     + InboundDelay[r] * InitialPipeline[r] + 0
      BY <1>2 DEF Position, InitialPosition
    <2>2. PICK stock \in Nat, owed \in Nat, line \in Nat :
             /\ stock = InitialInventory[r] /\ owed = InitialBacklog[r]
             /\ line = InboundDelay[r] * InitialPipeline[r]
      BY <1>1
    <2>3. Position(fresh, r) = stock - owed + line + 0 /\ InitialPosition(r) = stock - owed + line + 0
      BY <1>1, <2>1, <2>2
    <2>. QED BY <2>3 DEF fresh
  <1>3. CASE r # "FACTORY"
    <2>. DEFINE up == Upstream[r]
    <2>1. up \in Role /\ up # "RETAILER"
      BY <1>3, Neighbours, Links
    <2>2. /\ Position(fresh, r) = fresh[r].inventory - fresh[r].backlog
                                     + Total(fresh[r].shipments)
                                     + (fresh[up].backlog + Total(fresh[up].orders))
          /\ InitialPosition(r) = InitialInventory[r] - InitialBacklog[r]
                                     + InboundDelay[r] * InitialPipeline[r]
                                     + (InitialBacklog[up] + OrderDelay[up] * InitialOrders[up])
      BY <1>3 DEF Position, InitialPosition
    <2>. HIDE DEF up
    <2>3. PICK stock \in Nat, owed \in Nat, line \in Nat, due \in Nat, onway \in Nat :
             /\ stock = InitialInventory[r] /\ owed = InitialBacklog[r]
             /\ line = InboundDelay[r] * InitialPipeline[r]
             /\ due = InitialBacklog[up] /\ onway = OrderDelay[up] * InitialOrders[up]
      BY <1>1, <2>1
    <2>4. /\ Position(fresh, r) = stock - owed + line + (due + onway)
          /\ InitialPosition(r) = stock - owed + line + (due + onway)
      <3>1. /\ fresh[r].inventory = stock /\ fresh[r].backlog = owed
            /\ Total(fresh[r].shipments) = line
            /\ fresh[up].backlog = due /\ Total(fresh[up].orders) = onway
        BY <1>1, <2>1, <2>3
      <3>. QED BY <2>2, <2>3, <3>1
    <2>. QED BY <2>4 DEF fresh
  <1>. QED BY <1>2, <1>3

LEMMA BalanceInit == Init => NothingLost
  <1>1. SUFFICES ASSUME Init, NEW r \in Role
                 PROVE  Position(agents, r) = InitialPosition(r)
                            + Total(Ordered(history, r)) - Total(Asked(r))
    BY DEF NothingLost, InventoryPosition, Position, Ordered, Asked
  <1>2. PICK bots \in BotRoles :
           /\ settlements = Settlements([q \in Role |-> NewAgent(q, bots)], 1)
           /\ agents = AfterPhaseA([q \in Role |-> NewAgent(q, bots)], settlements)
    BY <1>1 DEF Init
  <1>3. /\ week = 1 /\ history = <<>> /\ demand \in [1..DurationWeeks -> Nat]
        /\ 1 \in 1..DurationWeeks
    BY <1>1, DemandAssumption, WeeksAssumption DEF Init
  <1>. DEFINE fresh == [q \in Role |-> NewAgent(q, bots)]
  <1>4. fresh \in [Role -> Agent] /\ Full(fresh)
    BY BotsAssumption, NewAgentsTyped
  <1>5. Position(fresh, r) = InitialPosition(r) /\ InitialPosition(r) \in Int
    BY FreshPosition
  <1>. HIDE DEF fresh
  <1>6. /\ Position(agents, r) = InitialPosition(r) - settlements[r].incoming_order
        /\ settlements[r].incoming_order \in Nat
    BY <1>2, <1>3, <1>4, <1>5, PhaseAPosition DEF fresh
  <1>7. Total(Ordered(history, r)) = 0
    <2>1. Len(Ordered(history, r)) = 0
      BY <1>3 DEF Ordered
    <2>. QED BY <2>1, TotalNone
  <1>8. Total(Asked(r)) = settlements[r].incoming_order
    <2>. DEFINE asked == Asked(r)
    <2>1. SettledWeeks = 1 /\ SettlementOf(1, r) = settlements[r]
      BY <1>3 DEF SettledWeeks, SettlementOf
    <2>2. Len(asked) = 1 /\ asked[1] = settlements[r].incoming_order
      BY <2>1 DEF Asked
    <2>3. Len(<<>>) = 0 /\ \A i \in 1..0 : <<>>[i] = asked[i]
      OBVIOUS
    <2>. HIDE DEF asked
    <2>4. PICK none : none = <<>>
      OBVIOUS
    <2>5. /\ Len(none) \in Nat /\ Len(asked) = Len(none) + 1
          /\ \A i \in 1..Len(none) : none[i] = asked[i]
      BY <2>2, <2>4
    <2>6. Total(asked) = Total(none) + asked[Len(asked)]
      BY <2>5, TotalLonger
    <2>7. Total(none) = 0
      BY <2>4, TotalEmpty
    <2>. QED BY <1>6, <2>2, <2>6, <2>7 DEF asked
  <1>9. PICK start \in Int, asked \in Nat :
           start = InitialPosition(r) /\ asked = settlements[r].incoming_order
    BY <1>5, <1>6
  <1>. QED BY <1>6, <1>7, <1>8, <1>9

\* A week that closes adds what every role ordered; the week it opens takes what is
\* asked of it there.
LEMMA BalanceClose ==
    ASSUME TypeInv, NothingLost, NEW force \in BOOLEAN, CloseWeek(force), NEW r \in Role
    PROVE  Position(agents', r) = InitialPosition(r)
               + Total(Ordered(history', r)) - Total(Asked(r)')
  <1>. DEFINE after == AfterPhaseC(agents, pending)
              records == [q \in Role |-> Record(q, agents, after)]
              decided == Decision(pending, r)
              more == IF phase' = "DECISION" THEN settlements'[r].incoming_order ELSE 0
  <1>1. /\ agents \in [Role -> Agent] /\ week \in 1..DurationWeeks /\ week \in Nat \ {0}
        /\ demand \in [1..DurationWeeks -> Nat] /\ phase = "DECISION" /\ pending \in Orders
        /\ history \in Seq([Role -> WeekRecord]) /\ Len(history) = week - 1
        /\ SettledWeeks = week
    BY SettledWhileOpen DEF TypeInv, TypeOK, CloseWeek, Orders
  <1>2. /\ after \in [Role -> Agent] /\ Full(after)
        /\ history' = Append(history, records)
        /\ history' \in Seq([Role -> WeekRecord]) /\ Len(history') = week
    BY CloseWeekTyped
  <1>3. Position(after, r) = Position(agents, r) + decided /\ decided \in Nat
    BY <1>1, PhaseCPosition, DecisionTyped
  <1>4. Position(agents', r) = Position(after, r) - more /\ more \in Nat
    <2>1. CASE week >= DurationWeeks
      <3>1. phase' = "FINISHED" /\ agents' = after
        BY <2>1 DEF CloseWeek
      <3>2. Position(after, r) \in Int
        <4>1. /\ after[r].inventory \in Nat /\ after[r].backlog \in Nat
              /\ Total(after[r].shipments) \in Nat /\ after[r].production_queue \in Nat
          BY <1>2, PositionParts
        <4>2. ASSUME NEW q \in Role PROVE after[q].backlog + Total(after[q].orders) \in Nat
          <5>1. after[q].backlog \in Nat /\ Total(after[q].orders) \in Nat
            BY <1>2, PositionParts
          <5>. QED BY <5>1
        <4>3. r # "FACTORY" => Upstream[r] \in Role
          BY Neighbours
        <4>. HIDE DEF after
        <4>. QED BY <4>1, <4>2, <4>3 DEF Position
      <3>. QED BY <3>1, <3>2
    <2>2. CASE ~(week >= DurationWeeks)
      <3>1. /\ phase' = "DECISION" /\ settlements' = Settlements(after, week + 1)
            /\ agents' = AfterPhaseA(after, settlements')
        BY <1>1, <2>2 DEF CloseWeek
      <3>2. week + 1 \in 1..DurationWeeks
        BY <1>1, <2>2, WeeksAssumption
      <3>. HIDE DEF after
      <3>3. PICK st : st = settlements'
        OBVIOUS
      <3>4. /\ Position(AfterPhaseA(after, st), r) = Position(after, r) - st[r].incoming_order
            /\ st[r].incoming_order \in Nat
        BY <1>1, <1>2, <3>1, <3>2, <3>3, PhaseAPosition
      <3>. QED BY <3>1, <3>3, <3>4
    <2>. QED BY <2>1, <2>2
  <1>5. Total(Ordered(history', r)) = Total(Ordered(history, r)) + decided
    <2>. DEFINE a == Ordered(history, r)
                b == Ordered(history', r)
    <2>1. records[r].order = decided
      BY DEF Record
    <2>. HIDE DEF records, decided
    <2>2. /\ Len(history) \in Nat /\ Len(history') = Len(history) + 1
          /\ history'[Len(history')] = records
          /\ \A w \in 1..Len(history) : history'[w] = history[w]
      BY <1>1, <1>2
    <2>3. Len(a) = Len(history) /\ Len(b) = Len(a) + 1 /\ b[Len(b)] = decided
      BY <2>1, <2>2 DEF Ordered
    <2>4. \A w \in 1..Len(a) : a[w] = b[w]
      BY <2>2 DEF Ordered
    <2>. HIDE DEF a, b
    <2>5. Total(b) = Total(a) + b[Len(b)]
      BY <2>2, <2>3, <2>4, TotalLonger
    <2>. QED BY <2>3, <2>5 DEF a, b
  <1>6. Total(Asked(r)') = Total(Asked(r)) + more /\ Total(Asked(r)) \in Nat
    <2>. DEFINE a == Asked(r)
                b == Asked(r)'
    <2>1. SettledWeeks' = IF phase' = "DECISION" THEN week + 1 ELSE week
      BY SettledAfterClose
    <2>2. \A w \in 1..week : SettlementOf(w, r)' = SettlementOf(w, r)
      BY PastSettlements
    <2>3. Len(a) = week /\ \A w \in 1..week : a[w] = SettlementOf(w, r).incoming_order
      BY <1>1 DEF Asked
    <2>4. /\ Len(b) = SettledWeeks'
          /\ \A w \in 1..(SettledWeeks') : b[w] = SettlementOf(w, r)'.incoming_order
      BY <1>1, <2>1 DEF Asked
    <2>5. \A w \in 1..Len(a) : a[w] = b[w]
      BY <1>1, <2>1, <2>2, <2>3, <2>4
    <2>6. Total(a) \in Nat
      <3>1. ASSUME NEW w \in 1..week PROVE SettlementOf(w, r).incoming_order \in Nat
        <4>1. CASE w <= Len(history)
          <5>1. history[w] \in [Role -> WeekRecord]
            BY <1>1, <4>1
          <5>2. history[w][r].settlement \in Settlement
            BY <5>1 DEF WeekRecord
          <5>. QED BY <4>1, <5>2 DEF SettlementOf, Settlement
        <4>2. CASE ~(w <= Len(history))
          <5>1. settlements[r] \in Settlement
            BY DEF TypeInv, TypeOK
          <5>. QED BY <4>2, <5>1 DEF SettlementOf, Settlement
        <4>. QED BY <4>1, <4>2
      <3>2. a \in Seq(Nat)
        BY <1>1, <3>1 DEF Asked
      <3>. QED BY <3>2, TotalTyped
    <2>. HIDE DEF a, b
    <2>7. CASE phase' = "DECISION"
      <3>1. PICK n \in Nat : n = week + 1
        BY <1>1
      <3>2. Len(b) = Len(a) + 1 /\ b[Len(b)] = settlements'[r].incoming_order
        <4>1. SettledWeeks' = n /\ n \in 1..n /\ n > week
          BY <1>1, <2>1, <2>7, <3>1
        <4>2. Len(b) = n /\ b[n] = SettlementOf(n, r)'.incoming_order
          BY <2>4, <4>1
        <4>3. SettlementOf(n, r)' = settlements'[r]
          BY <1>1, <2>7, <4>1, NextWeek
        <4>. QED BY <2>3, <3>1, <4>2, <4>3
      <3>3. Total(b) = Total(a) + b[Len(b)]
        BY <1>1, <2>3, <2>5, <3>2, TotalLonger
      <3>. QED BY <2>6, <2>7, <3>2, <3>3 DEF a, b
    <2>8. CASE phase' # "DECISION"
      <3>1. Len(b) = Len(a)
        BY <2>1, <2>3, <2>4, <2>8
      <3>2. Total(b) = Total(a)
        BY <1>1, <2>3, <2>5, <3>1, TotalSame
      <3>. QED BY <2>6, <2>8, <3>2 DEF a, b
    <2>. QED BY <2>7, <2>8
  <1>7. /\ Position(agents, r) = InitialPosition(r)
                                   + Total(Ordered(history, r)) - Total(Asked(r))
        /\ InitialPosition(r) \in Int /\ Total(Ordered(history, r)) \in Nat
    <2>1. Position(agents, r) = InitialPosition(r)
                                   + Total(Ordered(history, r)) - Total(Asked(r))
      BY DEF NothingLost, InventoryPosition, Position, Ordered, Asked
    <2>2. Ordered(history, r) \in Seq(Nat)
      <3>1. ASSUME NEW w \in 1..Len(history) PROVE history[w][r].order \in Nat
        <4>1. history[w] \in [Role -> WeekRecord]
          BY <1>1
        <4>. QED BY <4>1 DEF WeekRecord
      <3>2. Len(history) \in Nat
        BY <1>1
      <3>. QED BY <3>1, <3>2 DEF Ordered
    <2>3. InitialPosition(r) \in Int
      <3>1. ASSUME NEW q \in Role
            PROVE  /\ InitialInventory[q] \in Nat /\ InitialBacklog[q] \in Nat
                   /\ InboundDelay[q] * InitialPipeline[q] \in Nat
                   /\ InitialBacklog[q] + OrderDelay[q] * InitialOrders[q] \in Nat
        <4>1. /\ InitialInventory[q] \in Nat /\ InitialBacklog[q] \in Nat
              /\ InboundDelay[q] \in Nat /\ InitialPipeline[q] \in Nat
              /\ OrderDelay[q] \in Nat /\ InitialOrders[q] \in Nat
          BY DelaysAssumption, StartAssumption
        <4>2. InboundDelay[q] * InitialPipeline[q] \in Nat /\ OrderDelay[q] * InitialOrders[q] \in Nat
          BY <4>1, Products
        <4>. QED BY <4>1, <4>2
      <3>2. r # "FACTORY" => Upstream[r] \in Role
        BY Neighbours
      <3>. QED BY <3>1, <3>2 DEF InitialPosition
    <2>. QED BY <2>1, <2>2, <2>3, TotalTyped
  <1>8. PICK start \in Int, ordered \in Nat, asked \in Nat, d \in Nat, m \in Nat :
           /\ start = InitialPosition(r) /\ ordered = Total(Ordered(history, r))
           /\ asked = Total(Asked(r)) /\ d = decided /\ m = more
    BY <1>3, <1>4, <1>6, <1>7
  <1>. HIDE DEF after, decided, more
  <1>9. /\ Position(agents', r) = ((start + ordered - asked) + d) - m
        /\ Total(Ordered(history', r)) = ordered + d /\ Total(Asked(r)') = asked + m
    BY <1>3, <1>4, <1>5, <1>6, <1>7, <1>8
  <1>. QED BY <1>8, <1>9

\* Nothing but a week that closes moves a unit, and none settles one.
LEMMA BalanceStep == TypeInv /\ NothingLost /\ [Next]_vars => NothingLost'
  <1>1. SUFFICES ASSUME TypeInv, NothingLost, [Next]_vars, NEW r \in Role
                 PROVE  Position(agents', r) = InitialPosition(r)
                            + Total(Ordered(history', r)) - Total(Asked(r)')
    BY DEF NothingLost, InventoryPosition, Position, Ordered, Asked
  <1>2. agents \in [Role -> Agent]
    BY <1>1 DEF TypeInv, TypeOK
  <1>3. ASSUME UNCHANGED <<week, settlements, history>>,
               \A q \in Role :
                   /\ agents'[q].inventory = agents[q].inventory
                   /\ agents'[q].backlog = agents[q].backlog
                   /\ agents'[q].shipments = agents[q].shipments
                   /\ agents'[q].orders = agents[q].orders
                   /\ agents'[q].production_queue = agents[q].production_queue
        PROVE  Position(agents', r) = InitialPosition(r)
                   + Total(Ordered(history', r)) - Total(Asked(r)')
    <2>1. r # "FACTORY" => Upstream[r] \in Role
      BY Neighbours
    <2>2. Position(agents', r) = Position(agents, r)
      BY <1>3, <2>1 DEF Position
    <2>3. Asked(r)' = Asked(r)
      BY <1>3 DEF Asked, SettledWeeks, SettlementOf
    <2>4. Position(agents, r) = InitialPosition(r)
                                   + Total(Ordered(history, r)) - Total(Asked(r))
      BY <1>1 DEF NothingLost, InventoryPosition, Position, Ordered, Asked
    <2>. QED BY <1>3, <2>2, <2>3, <2>4
  <1>4. CASE \E q \in Role : \E qty \in Quantities[q] : SubmitOrder(q, qty)
    BY <1>3, <1>4 DEF SubmitOrder
  <1>5. CASE \E force \in BOOLEAN : CloseWeek(force)
    BY <1>1, <1>5, BalanceClose
  <1>6. CASE EndEarly
    <2>1. ASSUME NEW q \in Role
          PROVE  agents'[q] = [agents[q] EXCEPT !.accumulated_cost = PreviousCumulative(q)]
      BY <1>6 DEF EndEarly
    <2>2. ASSUME NEW q \in Role PROVE agents[q] \in Agent
      BY <1>2
    <2>. QED BY <1>3, <1>6, <2>1, <2>2 DEF EndEarly, Agent
  <1>7. ASSUME NEW seat \in Swappable, NEW flag \in BOOLEAN, SetBot(seat, flag)
        PROVE  Position(agents', r) = InitialPosition(r)
                   + Total(Ordered(history', r)) - Total(Asked(r)')
    <2>1. ASSUME NEW q \in Role
          PROVE  /\ agents[q] \in Agent
                 /\ agents'[q] = IF q = seat THEN [agents[q] EXCEPT !.is_bot = flag] ELSE agents[q]
      BY <1>2, <1>7 DEF SetBot
    <2>. QED BY <1>3, <1>7, <2>1 DEF SetBot, Agent
  <1>8. CASE UNCHANGED vars
    BY <1>3, <1>8 DEF vars
  <1>. QED BY <1>1, <1>4, <1>5, <1>6, <1>7, <1>8, Steps

\* No unit and no order is lost or invented, for any delays, stocks, capacity and
\* demand, and however many weeks are played, forced or cut short.
THEOREM NothingIsLost == Spec => []NothingLost
  BY BalanceInit, BalanceStep, TypesHold, PTL DEF Spec

-------------------------------------------------------------------------------
(* Goods and orders in transit: each slot of a recorded line, to its arrival.   *)

Arrivals(r) == [w \in 1..SettledWeeks |-> SettlementOf(w, r).arrived]

GoodsSlots(r) == InboundDelay[r] - (IF r = "FACTORY" THEN 1 ELSE 0)
OrderSlots(r) == OrderDelay[r] - 1

\* Slot k of a line sampled in week w arrived k weeks later or, while that is to come,
\* stands so many places further forward in the line now.  settled is the number of
\* weeks with receipts and, while a week is open, its number.
Slots(sample, w, k, settled, receipts, open, now) ==
    IF w + k <= settled THEN receipts[w + k] = sample[k]
    ELSE open => now[w + k - settled] = sample[k]

\* The lines a record reports.
InTransit(w, r) ==
    /\ Len(history[w][r].supply_line_after) = GoodsSlots(r)
    /\ \A k \in 1..GoodsSlots(r) :
           Slots(history[w][r].supply_line_after, w, k,
                 SettledWeeks, Arrivals(r), phase = "DECISION", agents[r].shipments)
    /\ r # "RETAILER" =>
           /\ Len(history[w][r].orders_in_flight_after) = OrderSlots(r)
           /\ \A k \in 1..OrderSlots(r) :
                  Slots(history[w][r].orders_in_flight_after, w, k,
                        SettledWeeks, Asked(r), phase = "DECISION", agents[r].orders)

Transit == \A w \in 1..Len(history), r \in Role : InTransit(w, r)

\* A week that is settled takes the front of a line and moves the slots behind it.
LEMMA SlotsMove ==
    ASSUME NEW n \in Nat \ {0}, NEW m \in Nat, NEW open \in BOOLEAN,
           NEW receipts, NEW now, NEW later, NEW next,
           \A i \in 1..n : later[i] = receipts[i],
           open => /\ m > 0 => later[n + 1] = now[1]
                   /\ \A k \in 2..m : next[k - 1] = now[k],
           NEW sample, NEW w \in 1..n, NEW k \in 1..m,
           Slots(sample, w, k, n, receipts, TRUE, now)
    PROVE  Slots(sample, w, k, IF open THEN n + 1 ELSE n, later, open, next)
  <1>1. CASE w + k <= n
    <2>1. w + k \in 1..n /\ receipts[w + k] = sample[k]
      BY <1>1 DEF Slots
    <2>2. later[w + k] = sample[k]
      BY <2>1
    <2>. QED BY <1>1, <2>2 DEF Slots
  <1>2. CASE w + k = n + 1
    <2>1. now[1] = sample[k] /\ m > 0
      <3>1. w + k - n = 1 /\ ~(w + k <= n)
        BY <1>2
      <3>. QED BY <3>1 DEF Slots
    <2>2. open => later[n + 1] = sample[k]
      BY <2>1
    <2>3. ~(n + 1 <= n)
      OBVIOUS
    <2>. QED BY <1>2, <2>2, <2>3 DEF Slots
  <1>3. CASE w + k > n + 1
    <2>. DEFINE place == w + k - n
    <2>1. place \in 2..m /\ place - 1 = w + k - (n + 1) /\ ~(w + k <= n) /\ ~(w + k <= n + 1)
      BY <1>3
    <2>2. now[place] = sample[k]
      BY <2>1 DEF Slots
    <2>. HIDE DEF place
    <2>3. open => next[place - 1] = now[place]
      BY <2>1
    <2>. QED BY <2>1, <2>2, <2>3 DEF Slots
  <1>. QED BY <1>1, <1>2, <1>3

\* How the lines of r stand when a week has closed: what stood at the front was
\* received by the week that opens.
LEMMA LinesMove ==
    ASSUME TypeInv, NEW force \in BOOLEAN, CloseWeek(force), phase' = "DECISION",
           NEW r \in Role
    PROVE  /\ GoodsSlots(r) > 0 => settlements'[r].arrived = agents[r].shipments[1]
           /\ \A k \in 2..GoodsSlots(r) : agents'[r].shipments[k - 1] = agents[r].shipments[k]
           /\ r # "RETAILER" =>
                  /\ OrderSlots(r) > 0 => settlements'[r].incoming_order = agents[r].orders[1]
                  /\ \A k \in 2..OrderSlots(r) : agents'[r].orders[k - 1] = agents[r].orders[k]
  <1>. DEFINE after == AfterPhaseC(agents, pending)
  <1>1. /\ agents \in [Role -> Agent] /\ Waiting(agents) /\ after \in [Role -> Agent] /\ Full(after)
        /\ settlements' = Settlements(after, week + 1)
        /\ agents' = AfterPhaseA(after, settlements')
    BY CloseWeekTyped, Lengths, NextWeek DEF CloseWeek, TypeInv, TypeOK
  <1>2. /\ r # "RETAILER" => after[r].orders = Append(agents[r].orders, OrderInto(pending, r))
        /\ r # "FACTORY" => after[r].shipments = agents[r].shipments
        /\ r = "FACTORY" =>
               after[r].shipments
                   = Append(agents[r].shipments, Started(agents, Decision(pending, "FACTORY")))
    BY <1>1, PhaseCPipelines
  <1>. HIDE DEF after
  <1>3. /\ agents[r].shipments \in Seq(Nat) /\ Len(agents[r].shipments) = GoodsSlots(r)
        /\ agents[r].orders \in Seq(Nat) /\ GoodsSlots(r) \in Nat
        /\ r # "RETAILER" => Len(agents[r].orders) = OrderSlots(r) /\ OrderSlots(r) \in Nat
    BY <1>1, DelaysAssumption DEF Waiting, Agent, GoodsSlots, OrderSlots
  <1>4. /\ after[r].shipments \in Seq(Nat) /\ Len(after[r].shipments) = InboundDelay[r]
        /\ after[r].orders \in Seq(Nat) /\ InboundDelay[r] \in Nat \ {0}
        /\ GoodsSlots(r) <= InboundDelay[r]
        /\ r # "RETAILER" => /\ Len(after[r].orders) = OrderDelay[r]
                             /\ OrderSlots(r) + 1 = OrderDelay[r] /\ OrderDelay[r] \in Nat \ {0}
    BY <1>1, DelaysAssumption DEF Full, Agent, GoodsSlots, OrderSlots
  <1>5. \A k \in 1..GoodsSlots(r) : after[r].shipments[k] = agents[r].shipments[k]
    <2>1. CASE r = "FACTORY"
      <3>1. after[r].shipments
               = Append(agents[r].shipments, Started(agents, Decision(pending, "FACTORY")))
        BY <1>2, <2>1
      <3>. QED BY <1>3, <3>1, SlotInPush
    <2>. QED BY <1>2, <2>1
  <1>6. /\ r # "RETAILER" => agents'[r].orders = Tail(after[r].orders)
        /\ r = "FACTORY" => agents'[r].shipments = Tail(after[r].shipments)
        /\ r # "FACTORY" =>
               agents'[r].shipments
                   = Append(Tail(after[r].shipments), settlements'[Upstream[r]].shipped)
    <2>1. PICK st : st = settlements'
      OBVIOUS
    <2>. QED BY <1>1, <2>1, PhaseAPipelines
  <1>7. /\ settlements'[r].arrived = after[r].shipments[1]
        /\ r # "RETAILER" => settlements'[r].incoming_order = after[r].orders[1]
    <2>1. /\ Head(after[r].shipments) = after[r].shipments[1]
          /\ Head(after[r].orders) = after[r].orders[1]
      OBVIOUS
    <2>. QED BY <1>1, <2>1, Received
  <1>8. ASSUME NEW k \in 2..GoodsSlots(r)
        PROVE  agents'[r].shipments[k - 1] = agents[r].shipments[k]
    <2>. DEFINE rest == Tail(after[r].shipments)
    <2>1. k - 1 \in 1..(Len(after[r].shipments) - 1) /\ (k - 1) + 1 = k /\ k \in 1..GoodsSlots(r)
      BY <1>3, <1>4
    <2>2. rest[k - 1] = after[r].shipments[k]
      BY <1>4, <2>1, SlotInTail
    <2>3. rest \in Seq(Nat) /\ Len(rest) = Len(after[r].shipments) - 1
      BY <1>4, TailTyped
    <2>. HIDE DEF rest
    <2>4. agents'[r].shipments[k - 1] = rest[k - 1]
      <3>1. CASE r = "FACTORY"
        BY <1>6, <3>1 DEF rest
      <3>2. CASE r # "FACTORY"
        <4>1. agents'[r].shipments = Append(rest, settlements'[Upstream[r]].shipped)
          BY <1>6, <3>2 DEF rest
        <4>. QED BY <2>1, <2>3, <4>1, SlotInPush
      <3>. QED BY <3>1, <3>2
    <2>. QED BY <1>5, <2>1, <2>2, <2>4
  <1>9. ASSUME r # "RETAILER"
        PROVE  /\ OrderSlots(r) > 0 => settlements'[r].incoming_order = agents[r].orders[1]
               /\ \A k \in 2..OrderSlots(r) : agents'[r].orders[k - 1] = agents[r].orders[k]
    <2>1. ASSUME NEW k \in 1..OrderSlots(r) PROVE after[r].orders[k] = agents[r].orders[k]
      <3>1. after[r].orders = Append(agents[r].orders, OrderInto(pending, r))
        BY <1>2, <1>9
      <3>2. k \in 1..Len(agents[r].orders)
        BY <1>3, <1>9
      <3>. QED BY <1>3, <3>1, <3>2, SlotInPush
    <2>2. ASSUME NEW k \in 2..OrderSlots(r)
          PROVE  agents'[r].orders[k - 1] = agents[r].orders[k]
      <3>1. k - 1 \in 1..(Len(after[r].orders) - 1) /\ (k - 1) + 1 = k /\ k \in 1..OrderSlots(r)
        BY <1>3, <1>4, <1>9
      <3>2. Tail(after[r].orders)[k - 1] = after[r].orders[k]
        BY <1>4, <3>1, SlotInTail
      <3>. QED BY <1>6, <1>9, <2>1, <3>1, <3>2
    <2>3. OrderSlots(r) > 0 => 1 \in 1..OrderSlots(r)
      BY <1>3, <1>9
    <2>. QED BY <1>7, <1>9, <2>1, <2>2, <2>3
  <1>10. GoodsSlots(r) > 0 => 1 \in 1..GoodsSlots(r)
    BY <1>3
  <1>. QED BY <1>5, <1>7, <1>8, <1>9, <1>10

\* A week that closes keeps what was recorded in transit, and records the lines as
\* they stand.
LEMMA TransitClose ==
    ASSUME TypeInv, Transit, NEW force \in BOOLEAN, CloseWeek(force)
    PROVE  Transit'
  <1>. DEFINE n == week
              open == phase' = "DECISION"
  <1>1. /\ phase = "DECISION" /\ SettledWeeks = week /\ Len(history) = week - 1
        /\ week \in Nat \ {0} /\ Len(history') = week
        /\ SettledWeeks' = IF open THEN week + 1 ELSE week
        /\ agents \in [Role -> Agent] /\ Waiting(agents)
    BY SettledWhileOpen, CloseWeekTyped, SettledAfterClose, Lengths DEF CloseWeek, TypeInv, TypeOK
  <1>2. SUFFICES ASSUME NEW w \in 1..week, NEW r \in Role
                 PROVE  InTransit(w, r)'
    BY <1>1 DEF Transit
  <1>3. GoodsSlots(r) \in Nat /\ OrderSlots(r) \in Nat
    BY DelaysAssumption DEF GoodsSlots, OrderSlots
  <1>4. /\ \A i \in 1..week : Arrivals(r)'[i] = Arrivals(r)[i]
        /\ \A i \in 1..week : Asked(r)'[i] = Asked(r)[i]
    <2>1. ASSUME NEW i \in 1..week PROVE SettlementOf(i, r)' = SettlementOf(i, r)
      BY PastSettlements
    <2>2. ASSUME NEW i \in 1..week PROVE i \in 1..(SettledWeeks') /\ i \in 1..SettledWeeks
      BY <1>1
    <2>. QED BY <2>1, <2>2 DEF Arrivals, Asked
  <1>5. ASSUME open
        PROVE  /\ Arrivals(r)'[week + 1] = settlements'[r].arrived
               /\ Asked(r)'[week + 1] = settlements'[r].incoming_order
    <2>1. PICK i \in Nat : i = week + 1
      BY <1>1
    <2>2. i > week /\ i \in 1..(SettledWeeks')
      BY <1>1, <1>5, <2>1
    <2>3. SettlementOf(i, r)' = settlements'[r]
      BY <1>5, <2>2, NextWeek
    <2>4. Arrivals(r)'[i] = settlements'[r].arrived /\ Asked(r)'[i] = settlements'[r].incoming_order
      BY <2>2, <2>3 DEF Arrivals, Asked
    <2>. QED BY <2>1, <2>4
  <1>6. \* the records, with the one that is new, agree with the lines before
        /\ Len(history'[w][r].supply_line_after) = GoodsSlots(r)
        /\ \A k \in 1..GoodsSlots(r) :
               Slots(history'[w][r].supply_line_after, w, k, week, Arrivals(r), TRUE,
                     agents[r].shipments)
        /\ r # "RETAILER" =>
               /\ Len(history'[w][r].orders_in_flight_after) = OrderSlots(r)
               /\ \A k \in 1..OrderSlots(r) :
                      Slots(history'[w][r].orders_in_flight_after, w, k, week, Asked(r), TRUE,
                            agents[r].orders)
    <2>1. CASE w = week
      <3>. DEFINE records == [q \in Role |-> Record(q, agents, AfterPhaseC(agents, pending))]
      <3>1. /\ history' = Append(history, records) /\ history \in Seq([Role -> WeekRecord])
            /\ Len(history') = week
        BY CloseWeekTyped DEF TypeInv, TypeOK
      <3>2. records[r].supply_line_after = agents[r].shipments
            /\ records[r].orders_in_flight_after = agents[r].orders
        BY DEF Record, Sampled
      <3>. HIDE DEF records
      <3>3. history'[w] = records
        BY <1>1, <2>1, <3>1
      <3>4. /\ Len(agents[r].shipments) = GoodsSlots(r)
            /\ r # "RETAILER" => Len(agents[r].orders) = OrderSlots(r)
        BY <1>1 DEF Waiting, GoodsSlots, OrderSlots
      <3>5. ASSUME NEW k \in Nat \ {0} PROVE ~(w + k <= week) /\ w + k - week = k
        BY <1>1, <2>1
      <3>6. ASSUME NEW k \in 1..GoodsSlots(r)
            PROVE  Slots(agents[r].shipments, w, k, week, Arrivals(r), TRUE, agents[r].shipments)
        <4>1. ~(w + k <= week) /\ w + k - week = k
          BY <1>3, <3>5
        <4>. QED BY <4>1 DEF Slots
      <3>7. ASSUME NEW k \in 1..OrderSlots(r)
            PROVE  Slots(agents[r].orders, w, k, week, Asked(r), TRUE, agents[r].orders)
        <4>1. ~(w + k <= week) /\ w + k - week = k
          BY <1>3, <3>5
        <4>. QED BY <4>1 DEF Slots
      <3>. QED BY <3>2, <3>3, <3>4, <3>6, <3>7
    <2>2. CASE w # week
      <3>1. w \in 1..Len(history)
        BY <1>1, <2>2
      <3>2. history'[w] = history[w] /\ InTransit(w, r)
        BY <3>1, PastSettlements DEF Transit
      <3>. QED BY <1>1, <3>2 DEF InTransit
    <2>. QED BY <2>1, <2>2
  <1>7. ASSUME NEW k \in 1..GoodsSlots(r)
        PROVE  Slots(history'[w][r].supply_line_after, w, k, SettledWeeks', Arrivals(r)', open,
                     agents'[r].shipments)
    <2>1. PICK receipts, now, later, next, sample :
             /\ receipts = Arrivals(r) /\ now = agents[r].shipments
             /\ later = Arrivals(r)' /\ next = agents'[r].shipments
             /\ sample = history'[w][r].supply_line_after
      OBVIOUS
    <2>2. open => /\ GoodsSlots(r) > 0 => later[week + 1] = now[1]
                  /\ \A j \in 2..GoodsSlots(r) : next[j - 1] = now[j]
      BY <1>5, <2>1, LinesMove
    <2>3. Slots(sample, w, k, week, receipts, TRUE, now)
      BY <1>6, <2>1
    <2>4. \A i \in 1..week : later[i] = receipts[i]
      BY <1>4, <2>1
    <2>5. open \in BOOLEAN
      OBVIOUS
    <2>6. Slots(sample, w, k, IF open THEN week + 1 ELSE week, later, open, next)
      BY <1>1, <1>3, <2>2, <2>3, <2>4, <2>5, SlotsMove
    <2>. QED BY <1>1, <2>1, <2>6
  <1>8. ASSUME r # "RETAILER", NEW k \in 1..OrderSlots(r)
        PROVE  Slots(history'[w][r].orders_in_flight_after, w, k, SettledWeeks', Asked(r)', open,
                     agents'[r].orders)
    <2>1. PICK receipts, now, later, next, sample :
             /\ receipts = Asked(r) /\ now = agents[r].orders
             /\ later = Asked(r)' /\ next = agents'[r].orders
             /\ sample = history'[w][r].orders_in_flight_after
      OBVIOUS
    <2>2. open => /\ OrderSlots(r) > 0 => later[week + 1] = now[1]
                  /\ \A j \in 2..OrderSlots(r) : next[j - 1] = now[j]
      BY <1>5, <1>8, <2>1, LinesMove
    <2>3. Slots(sample, w, k, week, receipts, TRUE, now)
      BY <1>6, <1>8, <2>1
    <2>4. \A i \in 1..week : later[i] = receipts[i]
      BY <1>4, <2>1
    <2>5. open \in BOOLEAN
      OBVIOUS
    <2>6. Slots(sample, w, k, IF open THEN week + 1 ELSE week, later, open, next)
      BY <1>1, <1>3, <2>2, <2>3, <2>4, <2>5, SlotsMove
    <2>. QED BY <1>1, <2>1, <2>6
  <1>. QED BY <1>6, <1>7, <1>8 DEF InTransit

LEMMA TransitStep == TypeInv /\ Transit /\ [Next]_vars => Transit'
  <1>. SUFFICES ASSUME TypeInv, Transit, [Next]_vars PROVE Transit'
    OBVIOUS
  <1>1. agents \in [Role -> Agent]
    BY DEF TypeInv, TypeOK
  <1>2. ASSUME UNCHANGED <<week, phase, settlements, history>>,
               \A r \in Role : /\ agents'[r].orders = agents[r].orders
                               /\ agents'[r].shipments = agents[r].shipments
        PROVE  Transit'
    <2>1. SUFFICES ASSUME NEW w \in 1..Len(history), NEW r \in Role PROVE InTransit(w, r)'
      BY <1>2 DEF Transit
    <2>2. SettledWeeks' = SettledWeeks /\ Asked(r)' = Asked(r) /\ Arrivals(r)' = Arrivals(r)
      BY <1>2 DEF SettledWeeks, SettlementOf, Asked, Arrivals
    <2>3. InTransit(w, r)
      BY DEF Transit
    <2>. QED BY <1>2, <2>2, <2>3 DEF InTransit
  <1>3. CASE \E q \in Role : \E qty \in Quantities[q] : SubmitOrder(q, qty)
    BY <1>2, <1>3 DEF SubmitOrder
  <1>4. CASE \E force \in BOOLEAN : CloseWeek(force)
    BY <1>4, TransitClose
  <1>5. CASE EndEarly
    <2>1. SUFFICES ASSUME NEW w \in 1..Len(history), NEW r \in Role PROVE InTransit(w, r)'
      BY <1>5 DEF EndEarly, Transit
    <2>2. /\ SettledWeeks' = SettledWeeks /\ Asked(r)' = Asked(r) /\ Arrivals(r)' = Arrivals(r)
          /\ history' = history /\ phase' # "DECISION"
      BY <1>5 DEF EndEarly, SettledWeeks, SettlementOf, Asked, Arrivals
    <2>3. InTransit(w, r)
      BY DEF Transit
    <2>. QED BY <2>2, <2>3 DEF InTransit, Slots
  <1>6. ASSUME NEW q \in Swappable, NEW flag \in BOOLEAN, SetBot(q, flag)
        PROVE  Transit'
    <2>1. ASSUME NEW r \in Role
          PROVE  /\ agents'[r].orders = agents[r].orders
                 /\ agents'[r].shipments = agents[r].shipments
      <3>1. agents[r] \in Agent
        BY <1>1
      <3>2. agents'[r] = IF r = q THEN [agents[r] EXCEPT !.is_bot = flag] ELSE agents[r]
        BY <1>1, <1>6 DEF SetBot
      <3>. QED BY <3>1, <3>2 DEF Agent
    <2>. QED BY <1>2, <1>6, <2>1 DEF SetBot
  <1>7. CASE UNCHANGED vars
    BY <1>2, <1>7 DEF vars
  <1>. QED BY <1>3, <1>4, <1>5, <1>6, <1>7, Steps

\* When every slot of a line has arrived, what arrived adds up to the line.
LEMMA TransitAddsUp == TypeInv /\ Transit => SampledInTransit
  <1>1. SUFFICES ASSUME TypeInv, Transit, NEW w \in 1..Len(history), NEW r \in Role
                 PROVE  /\ w + GoodsSlots(r) <= SettledWeeks =>
                               Total(history[w][r].supply_line_after) =
                                   Total([k \in 1..GoodsSlots(r) |->
                                              SettlementOf(w + k, r).arrived])
                        /\ (r # "RETAILER" /\ w + OrderSlots(r) <= SettledWeeks) =>
                               Total(history[w][r].orders_in_flight_after) =
                                   Total([k \in 1..OrderSlots(r) |->
                                              SettlementOf(w + k, r).incoming_order])
    BY DEF SampledInTransit, GoodsSlots, OrderSlots
  <1>2. /\ GoodsSlots(r) \in Nat /\ OrderSlots(r) \in Nat /\ w \in Nat \ {0}
        /\ SettledWeeks \in Nat
    BY <1>1, DelaysAssumption DEF GoodsSlots, OrderSlots, SettledWeeks, TypeInv, TypeOK
  <1>3. InTransit(w, r)
    BY <1>1 DEF Transit
  <1>4. ASSUME w + GoodsSlots(r) <= SettledWeeks
        PROVE  Total(history[w][r].supply_line_after) =
                   Total([k \in 1..GoodsSlots(r) |-> SettlementOf(w + k, r).arrived])
    <2>. DEFINE sample == history[w][r].supply_line_after
                got == [k \in 1..GoodsSlots(r) |-> SettlementOf(w + k, r).arrived]
    <2>1. ASSUME NEW k \in 1..GoodsSlots(r)
          PROVE  sample[k] = got[k]
      <3>1. w + k \in 1..SettledWeeks /\ w + k <= SettledWeeks
        BY <1>2, <1>4
      <3>2. Arrivals(r)[w + k] = SettlementOf(w + k, r).arrived
        BY <3>1 DEF Arrivals
      <3>3. Slots(sample, w, k, SettledWeeks, Arrivals(r), phase = "DECISION", agents[r].shipments)
        BY <1>3, <1>4 DEF InTransit
      <3>4. Arrivals(r)[w + k] = sample[k]
        BY <3>1, <3>3 DEF Slots
      <3>. QED BY <3>2, <3>4
    <2>2. Len(sample) = GoodsSlots(r) /\ Len(got) = GoodsSlots(r)
      BY <1>2, <1>3, <1>4 DEF InTransit
    <2>. HIDE DEF sample, got
    <2>3. Total(sample) = Total(got)
      BY <1>2, <2>1, <2>2, TotalSame
    <2>. QED BY <2>3 DEF sample, got
  <1>5. ASSUME r # "RETAILER", w + OrderSlots(r) <= SettledWeeks
        PROVE  Total(history[w][r].orders_in_flight_after) =
                   Total([k \in 1..OrderSlots(r) |-> SettlementOf(w + k, r).incoming_order])
    <2>. DEFINE sample == history[w][r].orders_in_flight_after
                got == [k \in 1..OrderSlots(r) |-> SettlementOf(w + k, r).incoming_order]
    <2>1. ASSUME NEW k \in 1..OrderSlots(r)
          PROVE  sample[k] = got[k]
      <3>1. w + k \in 1..SettledWeeks /\ w + k <= SettledWeeks
        BY <1>2, <1>5
      <3>2. Asked(r)[w + k] = SettlementOf(w + k, r).incoming_order
        BY <3>1 DEF Asked
      <3>3. Slots(sample, w, k, SettledWeeks, Asked(r), phase = "DECISION", agents[r].orders)
        BY <1>3, <1>5 DEF InTransit
      <3>4. Asked(r)[w + k] = sample[k]
        BY <3>1, <3>3 DEF Slots
      <3>. QED BY <3>2, <3>4
    <2>2. Len(sample) = OrderSlots(r) /\ Len(got) = OrderSlots(r)
      BY <1>2, <1>3, <1>5 DEF InTransit
    <2>. HIDE DEF sample, got
    <2>3. Total(sample) = Total(got)
      BY <1>2, <2>1, <2>2, TotalSame
    <2>. QED BY <2>3 DEF sample, got
  <1>. QED BY <1>4, <1>5

\* The totals a record gives for goods and orders in transit are what the following
\* weeks deliver, for any delays.
THEOREM SamplesAreInTransit == Spec => []SampledInTransit
  <1>1. Init => Transit
    BY DEF Init, Transit
  <1>. QED BY <1>1, TransitStep, TransitAddsUp, TypesHold, PTL DEF Spec
===============================================================================
