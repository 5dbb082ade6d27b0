SPECIFICATION Spec
CONSTANTS
    DurationWeeks <- MCDuration
    InboundDelay <- MCInbound
    OrderDelay <- MCOrderDelay
    InitialInventory <- MCInventory
    InitialBacklog <- MCBacklog
    InitialPipeline <- MCPipeline
    InitialOrders <- MCOrders
    HoldingCost <- MCHolding
    BacklogCost <- MCBacklogCost
    FixedOrderCost <- MCFixed
    UnitCost <- MCUnit
    Capacity = 3
    Unlimited = Unlimited
    DemandSeries <- MCDemand
    Quantities <- MCQuantities
    MaxOrder = 5
    BotRoles <- MCBots
    Swappable <- MCSwappable
    NoOrder = NoOrder
INVARIANTS
    TypeOK
    StockOrBacklog
    OnTime
    NothingLost
    RunningCosts
    RecordedCosts
    SampledInTransit
PROPERTIES
    PlayedWeeksAreFinal
    ImplementsWeekMachine
