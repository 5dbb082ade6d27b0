--------------------------- MODULE GameConfigProofs ---------------------------
(***************************************************************************)
(* Theorems about GameConfig, for any roles, limits, defaults and presets, *)
(* and for any patches of hosts in any order.                              *)
(*                                                                         *)
(* What was read stays what it is when it is read again: of a field, then  *)
(* of a section, of a demand, and of a whole configuration.                *)
(***************************************************************************)
EXTENDS GameConfig, TLAPS

-------------------------------------------------------------------------------
(* One field.                                                                  *)

\* int() gives a whole number between nought and what it is given.
LEMMA Truncation ==
    ASSUME NEW h \in Int
    PROVE  /\ Truncated(h) \in Int /\ IsWhole(Truncated(h))
           /\ IsWhole(h) => Truncated(h) = h
           /\ h >= 0 => 0 <= Truncated(h) /\ Truncated(h) <= h
  BY DEF Truncated, IsWhole

\* The checks that are built with IntIn, FloatIn, Cap, Optional, Seed and Flag.
IsCheck(check) ==
    /\ check.low \in Int /\ check.high \in Int /\ IsWhole(check.high)
    /\ \/ check.as \in {"int", "float"} /\ check.default \in Int
       \/ check.as = "flag" /\ check.default \in Int /\ check.low = 0 /\ check.high = Whole(1)
       \/ check.as = "cap" /\ check.default = None /\ check.low = Whole(1)
       \/ check.as \in {"optional", "seed"} /\ check.default = None

LEMMA ChecksBuilt ==
    ASSUME NEW low \in Int, NEW high \in Int
    PROVE  /\ \A default \in Int : IsCheck(IntIn(low, high, default))
           /\ \A default \in Int : IsCheck(FloatIn(low, high, default))
           /\ \A default \in Int : IsCheck(Flag(default))
           /\ IsCheck(Cap(high)) /\ IsCheck(Optional(low, high)) /\ IsCheck(Seed(high))
  BY DEF IsCheck, IntIn, FloatIn, Flag, Cap, Optional, Seed, Whole, IsWhole

\* What a field's check lets through is read as a value the field may hold.
LEMMA FieldRead ==
    ASSUME NEW check, IsCheck(check), NEW v \in Value, Allowed(check, v)
    PROVE  Read(check, v) \in FieldValues(check)
  <1>1. /\ None \notin Int /\ Unusable \notin Int /\ NonFinite \notin Int
        /\ None # Unusable /\ None # NonFinite /\ Unusable # NonFinite
    BY MarkersAssumption
  <1>2. /\ v \in Int \cup {None, Unusable, NonFinite}
        /\ v = NonFinite => check.as = "flag"
        /\ Read(check, v) # None => check.low <= Read(check, v) /\ Read(check, v) <= check.high
    BY DEF Allowed, Value
  <1>3. CASE check.as = "int"
    <2>1. check.default \in Int /\ check.low \in Int /\ check.high \in Int
      BY <1>3 DEF IsCheck
    <2>2. Read(check, v) = Truncated(AsFloat(v, check.default))
      BY <1>3 DEF Read, AsInt
    <2>3. AsFloat(v, check.default) \in Int
      BY <1>2, <1>3, <2>1 DEF AsFloat
    <2>4. Read(check, v) \in Int /\ IsWhole(Read(check, v))
      BY <2>2, <2>3, Truncation
    <2>. QED BY <1>1, <1>2, <2>1, <2>4 DEF FieldValues
  <1>4. CASE check.as = "float"
    <2>1. check.default \in Int /\ check.low \in Int /\ check.high \in Int
      BY <1>4 DEF IsCheck
    <2>2. Read(check, v) = AsFloat(v, check.default)
      BY <1>4 DEF Read
    <2>3. Read(check, v) \in Int
      BY <1>2, <1>4, <2>1, <2>2 DEF AsFloat
    <2>. QED BY <1>1, <1>2, <1>4, <2>1, <2>3 DEF FieldValues
  <1>5. CASE check.as = "flag"
    <2>1. Read(check, v) \in {0, Whole(1)} /\ check.low = 0 /\ check.high = Whole(1)
      BY <1>5 DEF Read, IsCheck
    <2>. QED BY <2>1 DEF FieldValues, Whole, IsWhole
  <1>6. CASE check.as = "cap"
    <2>1. check.default = None /\ check.low \in Int /\ check.high \in Int
      BY <1>6 DEF IsCheck
    <2>2. Read(check, v) = ReadCap(v)
      BY <1>6 DEF Read
    <2>3. AsFloat(v, 0) \in Int
      BY <1>2, <1>6 DEF AsFloat
    <2>4. AsInt(v, 0) \in Int /\ IsWhole(AsInt(v, 0))
      BY <2>3, Truncation DEF AsInt
    <2>5. Read(check, v) = None \/ (Read(check, v) \in Int /\ IsWhole(Read(check, v)))
      BY <2>2, <2>4 DEF ReadCap
    <2>. QED BY <1>1, <1>2, <2>1, <2>5 DEF FieldValues
  <1>7. CASE check.as = "seed"
    <2>1. check.default = None /\ check.low \in Int /\ check.high \in Int
      BY <1>7 DEF IsCheck
    <2>2. Read(check, v) = ReadSeed(v)
      BY <1>7 DEF Read
    <2>3. Read(check, v) = None \/ (Read(check, v) \in Int /\ IsWhole(Read(check, v)))
      BY <1>2, <1>7, <2>2, Truncation DEF ReadSeed
    <2>. QED BY <1>1, <1>2, <2>1, <2>3 DEF FieldValues
  <1>8. CASE check.as = "optional"
    <2>1. check.default = None /\ check.low \in Int /\ check.high \in Int
      BY <1>8 DEF IsCheck
    <2>2. Read(check, v) = IF v = None THEN None ELSE AsInt(v, check.high)
      BY <1>8 DEF Read
    <2>3. AsFloat(v, check.high) \in Int
      BY <1>2, <1>8, <2>1 DEF AsFloat
    <2>4. Read(check, v) = None \/ (Read(check, v) \in Int /\ IsWhole(Read(check, v)))
      BY <2>2, <2>3, Truncation DEF AsInt
    <2>. QED BY <1>1, <1>2, <2>1, <2>4 DEF FieldValues
  <1>. QED BY <1>3, <1>4, <1>5, <1>6, <1>7, <1>8 DEF IsCheck

LEMMA FieldNumber ==
    ASSUME NEW check, IsCheck(check), NEW v \in FieldValues(check)
    PROVE  /\ v \in Int \cup {None} /\ v \in Value
           /\ v \in Int => /\ check.low <= v /\ v <= check.high
                           /\ check.as # "float" => IsWhole(v)
           /\ check.default \in Int => v \in Int
  BY MarkersAssumption DEF FieldValues, IsCheck, Value

\* It is read as it is, also under another range.
LEMMA FieldKept ==
    ASSUME NEW check, IsCheck(check), NEW other, IsCheck(other), other.as = check.as,
           NEW v \in FieldValues(check)
    PROVE  Read(other, v) = v
  <1>1. /\ None \notin Int /\ Unusable \notin Int /\ None # Unusable
    BY MarkersAssumption
  <1>2. /\ v = None \/ v \in Int
        /\ v \in Int => /\ check.low <= v /\ v <= check.high
                        /\ check.as # "float" => IsWhole(v)
        /\ check.default \in Int => v \in Int
    BY FieldNumber
  <1>3. v \in Int => \A default : AsFloat(v, default) = v
    BY <1>1 DEF AsFloat
  <1>4. CASE check.as = "int"
    BY <1>2, <1>3, <1>4, Truncation DEF Read, AsInt, IsCheck
  <1>5. CASE check.as = "float"
    BY <1>2, <1>3, <1>5 DEF Read, IsCheck
  <1>6. CASE check.as = "flag"
    <2>1. v \in Int /\ 0 <= v /\ v <= 2 /\ IsWhole(v)
      BY <1>2, <1>6 DEF IsCheck, Whole
    <2>2. v = 0 \/ v = Whole(1)
      BY <2>1 DEF IsWhole, Whole
    <2>. QED BY <1>3, <1>6, <2>1, <2>2 DEF Read, Whole
  <1>7. CASE check.as = "cap"
    <2>1. Read(other, v) = ReadCap(v)
      BY <1>7 DEF Read
    <2>2. CASE v = None
      <3>1. AsInt(v, 0) = 0
        BY <2>2 DEF AsInt, AsFloat, Truncated
      <3>. QED BY <2>1, <2>2, <3>1 DEF ReadCap
    <2>3. CASE v \in Int
      <3>1. AsInt(v, 0) = v
        BY <1>2, <1>3, <1>7, <2>3, Truncation DEF AsInt
      <3>2. v # 0
        BY <1>2, <1>7, <2>3 DEF IsCheck, Whole
      <3>. QED BY <2>1, <3>1, <3>2 DEF ReadCap
    <2>. QED BY <1>2, <2>2, <2>3
  <1>8. CASE check.as = "seed"
    BY <1>1, <1>2, <1>8, Truncation DEF Read, ReadSeed
  <1>9. CASE check.as = "optional"
    BY <1>1, <1>2, <1>3, <1>9, Truncation DEF Read, AsInt
  <1>. QED BY <1>4, <1>5, <1>6, <1>7, <1>8, <1>9 DEF IsCheck

LEMMA FieldAllowed ==
    ASSUME NEW check, IsCheck(check), NEW v \in FieldValues(check)
    PROVE  Allowed(check, v)
  <1>1. Read(check, v) = v /\ (v # None => check.low <= v /\ v <= check.high)
    BY FieldKept, FieldNumber
  <1>2. v # NonFinite
    BY FieldNumber, MarkersAssumption
  <1>. QED BY <1>1, <1>2 DEF Allowed

-------------------------------------------------------------------------------
(* A section.                                                                  *)

AreChecks(checks) == \A name \in DOMAIN checks : IsCheck(checks[name])

LEMMA UpdatedFields ==
    ASSUME NEW base, NEW patch
    PROVE  /\ DOMAIN Updated(base, patch) = DOMAIN base \cup DOMAIN patch
           /\ \A name \in DOMAIN patch : Updated(base, patch)[name] = patch[name]
           /\ \A name \in DOMAIN base \ DOMAIN patch : Updated(base, patch)[name] = base[name]
  BY DEF Updated

LEMMA SectionRead ==
    ASSUME NEW checks, AreChecks(checks),
           NEW fields, \A name \in DOMAIN checks \cap DOMAIN fields : fields[name] \in Value,
           AllowedSection(checks, fields)
    PROVE  ReadSection(checks, fields) \in SectionValues(checks)
  <1>1. ASSUME NEW name \in DOMAIN checks
        PROVE  /\ ReadSection(checks, fields)[name] \in FieldValues(checks[name])
               /\ ReadSection(checks, fields)[name] \in Int \cup {None}
    <2>1. IsCheck(checks[name])
      BY DEF AreChecks
    <2>2. Sent(fields, name, checks[name]) \in Value
      BY <2>1 DEF Sent, IsCheck, Value
    <2>3. Allowed(checks[name], Sent(fields, name, checks[name]))
      BY DEF AllowedSection
    <2>4. ReadSection(checks, fields)[name] = Read(checks[name], Sent(fields, name, checks[name]))
      BY DEF ReadSection
    <2>. QED BY <2>1, <2>2, <2>3, <2>4, FieldRead, FieldNumber
  <1>. QED BY <1>1 DEF SectionValues, ReadSection

\* What was read of a section is allowed and read again as it is.
LEMMA SectionKept ==
    ASSUME NEW checks, AreChecks(checks), NEW fields \in SectionValues(checks)
    PROVE  /\ AllowedSection(checks, fields)
           /\ ReadSection(checks, fields) = fields
  <1>1. /\ DOMAIN fields = DOMAIN checks
        /\ fields = [name \in DOMAIN checks |-> fields[name]]
        /\ \A name \in DOMAIN checks : fields[name] \in FieldValues(checks[name])
    BY DEF SectionValues
  <1>2. ASSUME NEW name \in DOMAIN checks
        PROVE  /\ Sent(fields, name, checks[name]) = fields[name]
               /\ Allowed(checks[name], fields[name])
               /\ Read(checks[name], fields[name]) = fields[name]
    BY <1>1, FieldKept, FieldAllowed DEF AreChecks, Sent
  <1>. QED BY <1>1, <1>2 DEF AllowedSection, ReadSection

\* The fields a patch does not name are read as they were.
LEMMA UnnamedKept ==
    ASSUME NEW checks, AreChecks(checks), NEW old \in SectionValues(checks), NEW patch
    PROVE  Keeps(patch, old, ReadSection(checks, Updated(old, patch)))
  <1>1. /\ DOMAIN old = DOMAIN checks
        /\ \A name \in DOMAIN checks : old[name] \in FieldValues(checks[name])
    BY DEF SectionValues
  <1>2. ASSUME NEW name \in DOMAIN old, name \notin DOMAIN patch
        PROVE  ReadSection(checks, Updated(old, patch))[name] = old[name]
    <2>1. /\ name \in DOMAIN Updated(old, patch)
          /\ Updated(old, patch)[name] = old[name]
      BY <1>2, UpdatedFields
    <2>2. Sent(Updated(old, patch), name, checks[name]) = old[name]
      BY <2>1 DEF Sent
    <2>. QED BY <1>1, <1>2, <2>2, FieldKept DEF ReadSection, AreChecks
  <1>. QED BY <1>2 DEF Keeps
-------------------------------------------------------------------------------
(* The checks of the sections.                                                 *)

LEMMA Limited ==
    /\ \A name \in {"minWeeks", "maxWeeks", "minDelay", "maxDelay", "maxInitial", "maxOrder",
                    "maxValue", "maxWeight", "maxSeed", "minStepWeek", "minPeriod",
                    "maxPeriod"} : Limits[name] \in Nat
    /\ Limits.minWeeks > 0 /\ Limits.minDelay > 0 /\ Limits.minStepWeek > 1
    /\ Limits.minPeriod > 0
  BY LimitsAssumption

LEMMA GameChecked ==
    /\ AreChecks(GameChecks)
    /\ DOMAIN GameChecks = {"duration_weeks", "bot_fill_empty_roles", "random_seed"}
  <1>1. /\ Default.game.duration_weeks \in Int /\ Default.game.bot_fill_empty_roles \in Int
        /\ Limits.minWeeks \in Int /\ Limits.maxWeeks \in Int /\ Limits.maxSeed \in Int
    BY DefaultAssumption, LimitsAssumption
  <1>2. /\ IsCheck(GameChecks.duration_weeks)
        /\ IsCheck(GameChecks.bot_fill_empty_roles)
        /\ IsCheck(GameChecks.random_seed)
    BY <1>1, ChecksBuilt DEF GameChecks
  <1>3. DOMAIN GameChecks = {"duration_weeks", "bot_fill_empty_roles", "random_seed"}
    BY DEF GameChecks
  <1>. QED BY <1>2, <1>3 DEF AreChecks

LEMMA VisibilityChecked ==
    /\ AreChecks(VisibilityChecks)
    /\ DOMAIN VisibilityChecks = {"show_all_inventories", "max_order_quantity"}
  <1>1. Default.visibility.show_all_inventories \in Int /\ Limits.maxOrder \in Int
    BY DefaultAssumption, LimitsAssumption
  <1>2. /\ IsCheck(VisibilityChecks.show_all_inventories)
        /\ IsCheck(VisibilityChecks.max_order_quantity)
    BY <1>1, ChecksBuilt DEF VisibilityChecks
  <1>3. DOMAIN VisibilityChecks = {"show_all_inventories", "max_order_quantity"}
    BY DEF VisibilityChecks
  <1>. QED BY <1>2, <1>3 DEF AreChecks

LEMMA BotChecked == AreChecks(BotChecks)
  <1>1. Default.bot.theta \in Int /\ Limits.maxWeight \in Int
    BY DefaultAssumption, LimitsAssumption
  <1>2. IsCheck(BotChecks.theta) /\ DOMAIN BotChecks = {"theta"}
    BY <1>1, ChecksBuilt DEF BotChecks
  <1>. QED BY <1>2 DEF AreChecks

\* The role's fields that EngineIsFed speaks of.
LEMMA RoleChecked ==
    ASSUME NEW r \in Role
    PROVE  /\ AreChecks(RoleChecks(r))
           /\ {"initial_inventory", "shipping_delay_weeks", "holding_cost"} \subseteq
                 DOMAIN RoleChecks(r)
           /\ RoleChecks(r).initial_inventory =
                 IntIn(0, Limits.maxInitial, Default.role.initial_inventory)
           /\ RoleChecks(r).shipping_delay_weeks =
                 IntIn(Limits.minDelay, Limits.maxDelay, Default.role.shipping_delay_weeks)
           /\ RoleChecks(r).holding_cost =
                 FloatIn(0, Limits.maxValue, Default.role.holding_cost)
           /\ r = Factory =>
                /\ {"production_delay_weeks", "production_capacity_per_week"} \subseteq
                      DOMAIN RoleChecks(r)
                /\ RoleChecks(r).production_delay_weeks =
                      IntIn(Limits.minDelay, Limits.maxDelay,
                            Default.role.production_delay_weeks)
                /\ RoleChecks(r).production_capacity_per_week = Cap(Limits.maxOrder)
  <1>. DEFINE common ==
         [initial_inventory |-> IntIn(0, Limits.maxInitial, Default.role.initial_inventory),
          shipping_delay_weeks |->
            IntIn(Limits.minDelay, Limits.maxDelay, Default.role.shipping_delay_weeks),
          holding_cost |-> FloatIn(0, Limits.maxValue, Default.role.holding_cost)]
              more ==
         [production_delay_weeks |->
            IntIn(Limits.minDelay, Limits.maxDelay, Default.role.production_delay_weeks),
          production_capacity_per_week |-> Cap(Limits.maxOrder)]
  <1>1. /\ Default.role.initial_inventory \in Int /\ Default.role.shipping_delay_weeks \in Int
        /\ Default.role.holding_cost \in Int /\ Default.role.production_delay_weeks \in Int
        /\ Limits.minDelay \in Int /\ Limits.maxDelay \in Int /\ Limits.maxInitial \in Int
        /\ Limits.maxOrder \in Int /\ Limits.maxValue \in Int
    BY DefaultAssumption, LimitsAssumption
  <1>2. /\ DOMAIN common = {"initial_inventory", "shipping_delay_weeks", "holding_cost"}
        /\ DOMAIN more = {"production_delay_weeks", "production_capacity_per_week"}
    OBVIOUS
  <1>3. /\ IsCheck(common.initial_inventory) /\ IsCheck(common.shipping_delay_weeks)
        /\ IsCheck(common.holding_cost)
        /\ IsCheck(more.production_delay_weeks) /\ IsCheck(more.production_capacity_per_week)
    BY <1>1, ChecksBuilt
  <1>4. AreChecks(common) /\ AreChecks(more)
    BY <1>2, <1>3 DEF AreChecks
  <1>5. RoleChecks(r) = IF r # Factory THEN common ELSE Updated(common, more)
    BY DEF RoleChecks
  <1>6. CASE r # Factory
    BY <1>2, <1>4, <1>5, <1>6
  <1>7. CASE r = Factory
    <2>1. PICK base, rest, all : base = common /\ rest = more /\ all = Updated(base, rest)
      OBVIOUS
    <2>. HIDE DEF common, more
    <2>2. /\ DOMAIN all = DOMAIN base \cup DOMAIN rest
          /\ \A name \in DOMAIN rest : all[name] = rest[name]
          /\ \A name \in DOMAIN base \ DOMAIN rest : all[name] = base[name]
      <3>1. all = Updated(base, rest)
        BY <2>1
      <3>2. all = [name \in DOMAIN base \cup DOMAIN rest |->
                     IF name \in DOMAIN rest THEN rest[name] ELSE base[name]]
        BY <3>1 DEF Updated
      <3>. QED BY ONLY <3>2
    <2>3. AreChecks(all)
      BY <1>4, <2>1, <2>2 DEF AreChecks
    <2>4. /\ all.initial_inventory = base.initial_inventory
          /\ all.shipping_delay_weeks = base.shipping_delay_weeks
          /\ all.holding_cost = base.holding_cost
          /\ all.production_delay_weeks = rest.production_delay_weeks
          /\ all.production_capacity_per_week = rest.production_capacity_per_week
      BY <1>2, <2>1, <2>2
    <2>5. RoleChecks(r) = all
      BY <1>5, <1>7, <2>1
    <2>6. {"initial_inventory", "shipping_delay_weeks", "holding_cost", "production_delay_weeks",
           "production_capacity_per_week"} \subseteq DOMAIN all
      BY <1>2, <2>1, <2>2
    <2>. QED BY <2>1, <2>3, <2>4, <2>5, <2>6 DEF common, more
  <1>. QED BY <1>6, <1>7

\* Each kind's fields.
Quantity(default) == IntIn(0, Limits.maxOrder, default)

LEMMA DemandFields ==
    ASSUME NEW duration
    PROVE  /\ DemandChecks("CONSTANT", duration) = [value |-> Quantity(Default.demand.value)]
           /\ DemandChecks("STEP", duration) =
                [initial_value |-> Quantity(Default.demand.initial_value),
                 step_week |-> StepWeek(duration),
                 step_value |-> Quantity(Default.demand.step_value)]
           /\ DemandChecks("RAMP", duration) =
                [initial_value |-> Quantity(Default.demand.initial_value),
                 slope_per_week |->
                   FloatIn(-Limits.maxOrder, Limits.maxOrder, Default.demand.slope_per_week),
                 start_week |-> IntIn(1, duration, Default.demand.start_week),
                 cap |-> Optional(0, Limits.maxOrder)]
           /\ DemandChecks("SEASONAL", duration) =
                [base |-> Quantity(Default.demand.base),
                 amplitude |-> Quantity(Default.demand.amplitude),
                 period_weeks |->
                   IntIn(Limits.minPeriod, Limits.maxPeriod, Default.demand.period_weeks)]
           /\ DemandChecks("STOCHASTIC", duration) =
                [min |-> Quantity(Default.demand.min), max |-> Quantity(Default.demand.max)]
  BY DEF DemandChecks, Quantity

\* Under every length of the game they are read alike.
LEMMA DemandChecked ==
    ASSUME NEW kind \in Kinds, NEW duration \in Int
    PROVE  /\ AreChecks(DemandChecks(kind, duration))
           /\ "kind" \notin DOMAIN DemandChecks(kind, duration)
           /\ "values" \notin DOMAIN DemandChecks(kind, duration)
           /\ \A length \in Int :
                /\ DOMAIN DemandChecks(kind, length) = DOMAIN DemandChecks(kind, duration)
                /\ \A name \in DOMAIN DemandChecks(kind, duration) :
                      DemandChecks(kind, length)[name].as = DemandChecks(kind, duration)[name].as
  <1>1. \A name \in {"value", "initial_value", "step_week", "step_value", "slope_per_week",
                     "start_week", "base", "amplitude", "period_weeks", "min", "max"} :
            Default.demand[name] \in Int
    BY DefaultAssumption
  <1>2. Limits.maxOrder \in Int /\ Limits.minPeriod \in Int /\ Limits.maxPeriod \in Int
        /\ Limits.minStepWeek \in Int /\ -Limits.maxOrder \in Int
    BY LimitsAssumption
  <1>3. \A default \in Int : IsCheck(Quantity(default)) /\ Quantity(default).as = "int"
    BY <1>2, ChecksBuilt DEF Quantity, IntIn
  <1>4. \A length \in Int : IsCheck(StepWeek(length)) /\ StepWeek(length).as = "int"
    BY <1>1, <1>2, ChecksBuilt DEF StepWeek, IntIn
  <1>5. CASE kind = "CONSTANT"
    BY <1>1, <1>3, <1>5, DemandFields DEF AreChecks
  <1>6. CASE kind = "STEP"
    <2>1. ASSUME NEW length \in Int
          PROVE  LET checks == DemandChecks(kind, length)
                 IN  /\ DOMAIN checks = {"initial_value", "step_week", "step_value"}
                     /\ \A name \in DOMAIN checks :
                           IsCheck(checks[name]) /\ checks[name].as = "int"
      BY <1>1, <1>3, <1>4, <1>6, DemandFields
    <2>. QED BY <2>1 DEF AreChecks
  <1>7. CASE kind = "RAMP"
    <2>1. ASSUME NEW length \in Int
          PROVE  LET checks == DemandChecks(kind, length)
                 IN  /\ DOMAIN checks = {"initial_value", "slope_per_week", "start_week", "cap"}
                     /\ IsCheck(checks.initial_value) /\ checks.initial_value.as = "int"
                     /\ IsCheck(checks.slope_per_week) /\ checks.slope_per_week.as = "float"
                     /\ IsCheck(checks.start_week) /\ checks.start_week.as = "int"
                     /\ IsCheck(checks.cap) /\ checks.cap.as = "optional"
      <3>1. /\ IsCheck(FloatIn(-Limits.maxOrder, Limits.maxOrder, Default.demand.slope_per_week))
            /\ IsCheck(IntIn(1, length, Default.demand.start_week))
            /\ IsCheck(Optional(0, Limits.maxOrder))
        BY <1>1, <1>2, ChecksBuilt
      <3>2. /\ \A low, high, default : /\ FloatIn(low, high, default).as = "float"
                                       /\ IntIn(low, high, default).as = "int"
            /\ \A low, high : Optional(low, high).as = "optional"
        BY DEF FloatIn, IntIn, Optional
      <3>. QED BY <1>1, <1>3, <1>7, <3>1, <3>2, DemandFields
    <2>. QED BY <2>1 DEF AreChecks
  <1>8. CASE kind = "SEASONAL"
    <2>1. ASSUME NEW length \in Int
          PROVE  LET checks == DemandChecks(kind, length)
                 IN  /\ DOMAIN checks = {"base", "amplitude", "period_weeks"}
                     /\ \A name \in DOMAIN checks :
                           IsCheck(checks[name]) /\ checks[name].as = "int"
      <3>1. /\ IsCheck(IntIn(Limits.minPeriod, Limits.maxPeriod, Default.demand.period_weeks))
            /\ IntIn(Limits.minPeriod, Limits.maxPeriod, Default.demand.period_weeks).as = "int"
        BY <1>1, <1>2, ChecksBuilt DEF IntIn
      <3>. QED BY <1>1, <1>3, <1>8, <3>1, DemandFields
    <2>. QED BY <2>1 DEF AreChecks
  <1>9. CASE kind = "STOCHASTIC"
    BY <1>1, <1>3, <1>9, DemandFields DEF AreChecks
  <1>. QED BY <1>5, <1>6, <1>7, <1>8, <1>9 DEF Kinds

-------------------------------------------------------------------------------
(* A demand.                                                                   *)

\* Values that are no mapping are unlike those that are one: of the constants the
\* only thing TLC cannot evaluate.
IsMapping(m) == m = [name \in DOMAIN m |-> m[name]]
UnusableIsNoMapping == ~IsMapping(Unusable)

LEMMA Mappings ==
    ASSUME UnusableIsNoMapping
    PROVE  /\ \A m : IsMapping(m) => m # Unusable
           /\ \A checks, fields : fields \in SectionValues(checks) => fields # Unusable
  BY DEF UnusableIsNoMapping, IsMapping, SectionValues

\* A kind and its fields make a demand.
MadeOf(demand, kind, fields) == demand = Updated([kind |-> kind], fields)

LEMMA WithKind ==
    ASSUME NEW kind, NEW fields, "kind" \notin DOMAIN fields,
           NEW made, MadeOf(made, kind, fields)
    PROVE  /\ made.kind = kind
           /\ made = [name \in {"kind"} \cup DOMAIN fields |-> made[name]]
           /\ \A name \in DOMAIN fields : made[name] = fields[name]
  <1>1. PICK base : base = [kind |-> kind]
    OBVIOUS
  <1>2. DOMAIN base = {"kind"} /\ base["kind"] = kind
    BY <1>1
  <1>3. made = [name \in DOMAIN base \cup DOMAIN fields |->
                    IF name \in DOMAIN fields THEN fields[name] ELSE base[name]]
    BY <1>1 DEF Updated, MadeOf
  <1>4. /\ DOMAIN made = {"kind"} \cup DOMAIN fields
        /\ \A name \in DOMAIN fields : made[name] = fields[name]
        /\ made["kind"] = base["kind"]
    BY <1>2, <1>3
  <1>5. made = [name \in DOMAIN made |-> made[name]]
    BY <1>3
  <1>. QED BY <1>2, <1>4, <1>5

Wholes == {n \in 0..Whole(Limits.maxOrder) : IsWhole(n)}

\* Each entry of a CUSTOM series is truncated.
LEMMA ValuesRead ==
    ASSUME NEW values, values = Unusable \/ values \in Seq(Value),
           NEW duration \in Int, AllowedValues(values, duration)
    PROVE  /\ [i \in DOMAIN values |-> Truncated(values[i])] \in Seq(Wholes)
           /\ Len([i \in DOMAIN values |-> Truncated(values[i])]) >= duration
  <1>1. /\ values \in Seq(Value) /\ Len(values) >= duration
        /\ \A i \in DOMAIN values : /\ values[i] \notin {None, Unusable, NonFinite}
                                    /\ 0 <= values[i] /\ values[i] <= Whole(Limits.maxOrder)
    BY DEF AllowedValues
  <1>2. /\ DOMAIN values = 1..Len(values) /\ Len(values) \in Nat
        /\ \A i \in DOMAIN values : values[i] \in Value
    BY <1>1
  <1>3. ASSUME NEW i \in DOMAIN values
        PROVE  Truncated(values[i]) \in Wholes
    <2>1. values[i] \in Int /\ 0 <= values[i] /\ values[i] <= Whole(Limits.maxOrder)
      BY <1>1, <1>2 DEF Value
    <2>2. /\ Truncated(values[i]) \in Int /\ IsWhole(Truncated(values[i]))
          /\ 0 <= Truncated(values[i]) /\ Truncated(values[i]) <= values[i]
      BY <2>1, Truncation
    <2>3. Whole(Limits.maxOrder) \in Int
      BY Limited DEF Whole
    <2>. QED BY <2>1, <2>2, <2>3 DEF Wholes
  <1>. QED BY <1>1, <1>2, <1>3

\* Both bounds of a draw are quantities.
LEMMA StochasticFields ==
    ASSUME NEW duration, NEW checks, checks = DemandChecks("STOCHASTIC", duration)
    PROVE  /\ DOMAIN checks = {"min", "max"}
           /\ FieldValues(checks.min) = FieldValues(checks.max)
           /\ \A n \in FieldValues(checks.min) : n \in Int /\ n >= 0 /\ IsWhole(n)
  <1>1. checks = [min |-> Quantity(Default.demand.min), max |-> Quantity(Default.demand.max)]
    BY DemandFields
  <1>2. Default.demand.min \in Int /\ Default.demand.max \in Int /\ Whole(Limits.maxOrder) \in Int
    BY DefaultAssumption, Limited DEF Whole
  <1>3. \A default \in Int :
            FieldValues(Quantity(default)) = {n \in 0..Whole(Limits.maxOrder) : IsWhole(n)}
    BY MarkersAssumption DEF FieldValues, Quantity, IntIn, Whole
  <1>. QED BY <1>1, <1>2, <1>3

LEMMA DemandRead ==
    ASSUME NEW demand, IsDemandSection(demand),
           NEW duration \in Int, AllowedDemand(demand, duration)
    PROVE  IsDemand(ReadDemand(demand, duration), duration)
  <1>1. CASE demand.kind = "CUSTOM"
    <2>1. PICK values : values = IF "values" \in DOMAIN demand THEN demand.values ELSE Unusable
      OBVIOUS
    <2>2. AllowedValues(values, duration) /\ values # Unusable
      BY <1>1, <2>1 DEF AllowedDemand, AllowedValues
    <2>3. values = demand.values /\ (values = Unusable \/ values \in Seq(Value))
      BY <2>1, <2>2 DEF IsDemandSection
    <2>4. PICK read : read = [i \in DOMAIN values |-> Truncated(values[i])]
      OBVIOUS
    <2>5. read \in Seq(Wholes) /\ Len(read) >= duration
      BY <2>2, <2>3, <2>4, ValuesRead
    <2>6. ReadDemand(demand, duration) = [kind |-> "CUSTOM", values |-> read]
      BY <1>1, <2>3, <2>4 DEF ReadDemand
    <2>. QED BY <2>5, <2>6 DEF IsDemand, IsCustom, Wholes
  <1>2. CASE demand.kind # "CUSTOM"
    <2>1. PICK kind, checks : kind = demand.kind /\ checks = DemandChecks(kind, duration)
      OBVIOUS
    <2>2. kind \in Kinds /\ kind # "CUSTOM" /\ AllowedSection(checks, demand)
      BY <1>2, <2>1 DEF AllowedDemand
    <2>3. AreChecks(checks) /\ "kind" \notin DOMAIN checks /\ "values" \notin DOMAIN checks
      BY <2>1, <2>2, DemandChecked
    <2>4. PICK fields : fields = ReadSection(checks, demand)
      OBVIOUS
    <2>5. fields \in SectionValues(checks)
      BY <2>2, <2>3, <2>4, SectionRead DEF IsDemandSection
    <2>6. /\ DOMAIN fields = DOMAIN checks
          /\ \A name \in DOMAIN checks : fields[name] \in FieldValues(checks[name])
      BY <2>5 DEF SectionValues
    <2>7. PICK read : read = Updated([kind |-> kind], fields)
      OBVIOUS
    <2>8. /\ read.kind = kind
          /\ read = [name \in {"kind"} \cup DOMAIN checks |-> read[name]]
          /\ \A name \in DOMAIN checks : read[name] \in FieldValues(checks[name])
      <3>1. /\ read.kind = kind
            /\ read = [name \in {"kind"} \cup DOMAIN fields |-> read[name]]
            /\ \A name \in DOMAIN fields : read[name] = fields[name]
        <4>1. MadeOf(read, kind, fields) /\ "kind" \notin DOMAIN fields
          BY <2>3, <2>6, <2>7 DEF MadeOf
        <4>. QED BY <4>1, WithKind
      <3>. QED BY <2>6, <3>1
    <2>9. ReadDemand(demand, duration) = InOrder(read)
      BY <1>2, <2>1, <2>4, <2>7 DEF ReadDemand
    <2>10. CASE ~(kind = "STOCHASTIC" /\ read.min > read.max)
      <3>1. InOrder(read) = read
        BY <2>8, <2>10 DEF InOrder
      <3>2. kind = "STOCHASTIC" => read.min <= read.max
        <4>1. SUFFICES ASSUME kind = "STOCHASTIC" PROVE read.min <= read.max
          OBVIOUS
        <4>2. read.min \in Int /\ read.max \in Int
          BY <2>1, <2>8, <4>1, StochasticFields
        <4>. QED BY <2>10, <4>1, <4>2
      <3>. QED BY <2>1, <2>2, <2>8, <2>9, <3>1, <3>2 DEF IsDemand
    <2>11. CASE kind = "STOCHASTIC" /\ read.min > read.max
      <3>1. PICK swapped : swapped = [read EXCEPT !.min = read.max, !.max = read.min]
        OBVIOUS
      <3>2. InOrder(read) = swapped
        BY <2>8, <2>11, <3>1 DEF InOrder
      <3>3. /\ DOMAIN checks = {"min", "max"}
            /\ FieldValues(checks.min) = FieldValues(checks.max)
            /\ read.min \in Int /\ read.max \in Int
        BY <2>1, <2>8, <2>11, StochasticFields
      <3>4. DOMAIN read = {"kind", "min", "max"}
        BY <2>8, <3>3
      <3>5. /\ swapped = [name \in {"kind", "min", "max"} |-> swapped[name]]
            /\ swapped.kind = kind /\ swapped.min = read.max /\ swapped.max = read.min
        BY <2>8, <3>1, <3>4
      <3>6. swapped = [name \in {"kind"} \cup DOMAIN checks |-> swapped[name]]
        BY <3>3, <3>5
      <3>7. \A name \in DOMAIN checks : swapped[name] \in FieldValues(checks[name])
        BY <2>8, <3>3, <3>5
      <3>8. swapped.min <= swapped.max
        BY <2>11, <3>3, <3>5
      <3>. QED BY <2>1, <2>2, <2>9, <3>2, <3>5, <3>6, <3>7, <3>8 DEF IsDemand
    <2>. QED BY <2>10, <2>11
  <1>. QED BY <1>1, <1>2

\* A list of whole numbers is truncated to itself.
LEMMA ValuesKept ==
    ASSUME NEW values \in Seq(Wholes)
    PROVE  /\ [i \in DOMAIN values |-> Truncated(values[i])] = values
           /\ \A i \in DOMAIN values : /\ values[i] \in Int
                                       /\ 0 <= values[i] /\ values[i] <= Whole(Limits.maxOrder)
  <1>1. ASSUME NEW i \in DOMAIN values
        PROVE  values[i] \in Wholes
    OBVIOUS
  <1>2. \A n \in Wholes : /\ n \in Int /\ Truncated(n) = n
                          /\ 0 <= n /\ n <= Whole(Limits.maxOrder)
    BY Truncation DEF Wholes
  <1>3. values = [i \in DOMAIN values |-> values[i]]
    OBVIOUS
  <1>. QED BY <1>1, <1>2, <1>3

\* The parts of a demand that has been read.
LEMMA DemandParts ==
    ASSUME NEW demand, NEW duration \in Int, IsDemand(demand, duration)
    PROVE  /\ demand.kind = "CUSTOM" =>
                /\ demand = [kind |-> "CUSTOM", values |-> demand.values]
                /\ demand.values \in Seq(Wholes) /\ Len(demand.values) >= duration
           /\ demand.kind # "CUSTOM" =>
                LET checks == DemandChecks(demand.kind, duration)
                IN  /\ demand.kind \in Kinds
                    /\ AreChecks(checks) /\ "kind" \notin DOMAIN checks
                    /\ demand = [name \in {"kind"} \cup DOMAIN checks |-> demand[name]]
                    /\ \A name \in DOMAIN checks : demand[name] \in FieldValues(checks[name])
           /\ demand.kind = "STOCHASTIC" =>
                demand.min \in Int /\ demand.max \in Int /\ demand.min <= demand.max
  <1>1. demand.kind # "CUSTOM" => demand.kind \in Kinds
    BY DEF IsDemand
  <1>2. ASSUME demand.kind = "STOCHASTIC"
        PROVE  demand.min \in Int /\ demand.max \in Int /\ demand.min <= demand.max
    <2>1. PICK checks : checks = DemandChecks("STOCHASTIC", duration)
      OBVIOUS
    <2>2. /\ \A name \in DOMAIN checks : demand[name] \in FieldValues(checks[name])
          /\ demand.min <= demand.max
      BY <1>2, <2>1 DEF IsDemand
    <2>. QED BY <2>1, <2>2, StochasticFields
  <1>. QED BY <1>1, <1>2, DemandChecked DEF IsDemand, IsCustom, Wholes

\* What is read of a stored demand's field is what it holds, under another length too.
LEMMA DemandFieldKept ==
    ASSUME NEW demand, NEW duration \in Int, IsDemand(demand, duration), demand.kind # "CUSTOM",
           NEW length \in Int, NEW sent, NEW name \in DOMAIN DemandChecks(demand.kind, duration),
           name \in DOMAIN sent, sent[name] = demand[name]
    PROVE  /\ name \in DOMAIN DemandChecks(demand.kind, length)
           /\ ReadSection(DemandChecks(demand.kind, length), sent)[name] = demand[name]
  <1>1. PICK checks, others : /\ checks = DemandChecks(demand.kind, duration)
                              /\ others = DemandChecks(demand.kind, length)
    OBVIOUS
  <1>2. demand.kind \in Kinds /\ demand[name] \in FieldValues(checks[name])
    BY <1>1, DemandParts
  <1>3. /\ IsCheck(checks[name]) /\ IsCheck(others[name])
        /\ name \in DOMAIN others /\ others[name].as = checks[name].as
    BY <1>1, <1>2, DemandChecked DEF AreChecks
  <1>4. Read(others[name], demand[name]) = demand[name]
    BY <1>2, <1>3, FieldKept
  <1>5. ReadSection(others, sent)[name] = Read(others[name], demand[name])
    BY <1>3 DEF ReadSection, Sent
  <1>. QED BY <1>1, <1>3, <1>4, <1>5

LEMMA DemandKept ==
    ASSUME NEW demand, NEW duration \in Int, IsDemand(demand, duration), NEW length \in Int
    PROVE  ReadDemand(demand, length) = demand
  <1>1. CASE demand.kind = "CUSTOM"
    <2>1. PICK values : values = demand.values
      OBVIOUS
    <2>2. demand = [kind |-> "CUSTOM", values |-> values] /\ values \in Seq(Wholes)
      BY <1>1, <2>1, DemandParts
    <2>3. [i \in DOMAIN values |-> Truncated(values[i])] = values
      BY <2>2, ValuesKept
    <2>. QED BY <1>1, <2>1, <2>2, <2>3 DEF ReadDemand
  <1>2. CASE demand.kind # "CUSTOM"
    <2>1. PICK kind, checks, others : /\ kind = demand.kind
                                      /\ checks = DemandChecks(kind, duration)
                                      /\ others = DemandChecks(kind, length)
      OBVIOUS
    <2>2. /\ kind \in Kinds /\ "kind" \notin DOMAIN checks /\ DOMAIN others = DOMAIN checks
          /\ demand = [name \in {"kind"} \cup DOMAIN checks |-> demand[name]]
      BY <1>2, <2>1, DemandParts, DemandChecked
    <2>3. PICK fields, read : /\ fields = ReadSection(others, demand)
                              /\ read = Updated([kind |-> kind], fields)
      OBVIOUS
    <2>4. DOMAIN fields = DOMAIN checks
      BY <2>2, <2>3 DEF ReadSection
    <2>5. /\ read.kind = kind
          /\ read = [name \in {"kind"} \cup DOMAIN fields |-> read[name]]
          /\ \A name \in DOMAIN fields : read[name] = fields[name]
      <3>1. MadeOf(read, kind, fields)
        BY <2>3 DEF MadeOf
      <3>2. "kind" \notin DOMAIN fields
        BY <2>2, <2>4
      <3>3. read.kind = kind
        BY ONLY <3>1, <3>2, WithKind
      <3>4. read = [name \in {"kind"} \cup DOMAIN fields |-> read[name]]
        BY ONLY <3>1, <3>2, WithKind
      <3>5. ASSUME NEW name \in DOMAIN fields
            PROVE  read[name] = fields[name]
        BY <3>1, <3>5 DEF MadeOf, Updated
      <3>. QED BY <3>3, <3>4, <3>5
    <2>6. ASSUME NEW name \in DOMAIN checks
          PROVE  fields[name] = demand[name]
      <3>1. name \in DOMAIN demand
        BY <2>2
      <3>. QED BY <1>2, <2>1, <2>3, <3>1, DemandFieldKept
    <2>7. \A name \in {"kind"} \cup DOMAIN checks : read[name] = demand[name]
      BY <2>1, <2>4, <2>5, <2>6
    <2>8. read = demand
      BY <2>2, <2>4, <2>5, <2>7
    <2>9. InOrder(demand) = demand
      <3>1. demand.kind = "STOCHASTIC" =>
              demand.min \in Int /\ demand.max \in Int /\ demand.min <= demand.max
        BY DemandParts
      <3>. QED BY <3>1 DEF InOrder
    <2>. QED BY <1>2, <2>1, <2>3, <2>8, <2>9 DEF ReadDemand
  <1>. QED BY <1>1, <1>2

LEMMA DemandAllowed ==
    ASSUME UnusableIsNoMapping, NEW demand, NEW duration \in Int, IsDemand(demand, duration)
    PROVE  AllowedDemand(demand, duration)
  <1>1. CASE demand.kind = "CUSTOM"
    <2>1. PICK values : values = demand.values
      OBVIOUS
    <2>2. /\ demand = [kind |-> "CUSTOM", values |-> values]
          /\ values \in Seq(Wholes) /\ Len(values) >= duration
      BY <1>1, <2>1, DemandParts
    <2>3. IsMapping(demand) /\ IsMapping(values) /\ "values" \in DOMAIN demand
      BY <2>2 DEF IsMapping
    <2>4. demand # Unusable /\ values # Unusable
      BY <2>3, Mappings
    <2>5. AllowedValues(values, duration)
      BY <2>2, <2>4, ValuesKept, MarkersAssumption DEF AllowedValues
    <2>. QED BY <1>1, <2>1, <2>3, <2>4, <2>5 DEF AllowedDemand
  <1>2. CASE demand.kind # "CUSTOM"
    <2>1. PICK checks : checks = DemandChecks(demand.kind, duration)
      OBVIOUS
    <2>2. /\ demand.kind \in Kinds /\ AreChecks(checks)
          /\ demand = [name \in {"kind"} \cup DOMAIN checks |-> demand[name]]
          /\ \A name \in DOMAIN checks : demand[name] \in FieldValues(checks[name])
      BY <1>2, <2>1, DemandParts
    <2>3. demand # Unusable
      <3>1. IsMapping(demand)
        BY <2>2 DEF IsMapping
      <3>. QED BY <3>1, Mappings
    <2>4. AllowedSection(checks, demand)
      <3>1. ASSUME NEW name \in DOMAIN checks
            PROVE  Allowed(checks[name], Sent(demand, name, checks[name]))
        <4>1. Sent(demand, name, checks[name]) = demand[name]
          BY <2>2 DEF Sent
        <4>. QED BY <2>2, <4>1, FieldAllowed DEF AreChecks
      <3>. QED BY <3>1 DEF AllowedSection
    <2>. QED BY <1>2, <2>1, <2>2, <2>3, <2>4 DEF AllowedDemand
  <1>. QED BY <1>1, <1>2

\* The fields a patch of the same kind does not name are read as they were, but for
\* the bounds of a draw, which may be swapped with those it names.
LEMMA DemandUnnamed ==
    ASSUME NEW old, NEW duration \in Int, IsDemand(old, duration),
           NEW patch, "kind" \in DOMAIN patch => patch.kind = old.kind,
           NEW length \in Int
    PROVE  KeepsDemand(patch, old, ReadDemand(Updated(old, patch), length))
  <1>1. PICK sent, new : sent = Updated(old, patch) /\ new = ReadDemand(sent, length)
    OBVIOUS
  <1>2. /\ \A name \in DOMAIN old : name \in DOMAIN sent
        /\ \A name \in DOMAIN old \ DOMAIN patch : sent[name] = old[name]
        /\ "kind" \in DOMAIN patch => sent["kind"] = patch["kind"]
    <2>1. /\ DOMAIN sent = DOMAIN old \cup DOMAIN patch
          /\ \A name \in DOMAIN patch : sent[name] = patch[name]
          /\ \A name \in DOMAIN old \ DOMAIN patch : sent[name] = old[name]
      <3>1. sent = Updated(old, patch)
        BY ONLY <1>1
      <3>. QED BY ONLY <3>1 DEF Updated
    <2>. QED BY ONLY <2>1
  <1>3. CASE old.kind = "CUSTOM"
    <2>1. PICK values : values = old.values
      OBVIOUS
    <2>2. old = [kind |-> "CUSTOM", values |-> values] /\ values \in Seq(Wholes)
      BY <1>3, <2>1, DemandParts
    <2>3. sent.kind = "CUSTOM"
      BY <1>2, <2>2
    <2>4. new = [kind |-> "CUSTOM",
                 values |-> [i \in DOMAIN sent.values |-> Truncated(sent.values[i])]]
      BY <1>1, <2>3 DEF ReadDemand
    <2>5. "values" \notin DOMAIN patch => new.values = old.values
      <3>1. SUFFICES ASSUME "values" \notin DOMAIN patch PROVE new.values = old.values
        OBVIOUS
      <3>2. sent.values = values
        BY <1>2, <2>1, <2>2, <3>1
      <3>. QED BY <2>1, <2>2, <2>4, <3>2, ValuesKept
    <2>. QED BY <1>1, <2>2, <2>4, <2>5 DEF KeepsDemand, Keeps
  <1>4. CASE old.kind # "CUSTOM"
    <2>1. PICK kind, checks, others : /\ kind = old.kind
                                      /\ checks = DemandChecks(kind, duration)
                                      /\ others = DemandChecks(kind, length)
      OBVIOUS
    <2>2. /\ kind \in Kinds /\ "kind" \notin DOMAIN checks /\ DOMAIN others = DOMAIN checks
          /\ DOMAIN old = {"kind"} \cup DOMAIN checks
      <3>1. /\ kind \in Kinds /\ "kind" \notin DOMAIN checks
            /\ old = [name \in {"kind"} \cup DOMAIN checks |-> old[name]]
        BY <1>4, <2>1, DemandParts
      <3>2. DOMAIN others = DOMAIN checks
        BY <2>1, <3>1, DemandChecked
      <3>. QED BY <3>1, <3>2
    <2>3. sent.kind = kind
      BY <1>2, <2>1, <2>2
    <2>4. PICK fields, read : /\ fields = ReadSection(others, sent)
                              /\ read = Updated([kind |-> kind], fields)
      OBVIOUS
    <2>5. DOMAIN fields = DOMAIN checks
      BY <2>2, <2>4 DEF ReadSection
    <2>6. /\ read.kind = kind
          /\ \A name \in DOMAIN fields : read[name] = fields[name]
          /\ DOMAIN read = {"kind"} \cup DOMAIN fields
      <3>1. MadeOf(read, kind, fields)
        BY <2>4 DEF MadeOf
      <3>2. "kind" \notin DOMAIN fields
        BY <2>2, <2>5
      <3>3. /\ read.kind = kind
            /\ read = [name \in {"kind"} \cup DOMAIN fields |-> read[name]]
            /\ \A name \in DOMAIN fields : read[name] = fields[name]
        BY <3>1, <3>2, WithKind
      <3>. QED BY <3>3
    <2>7. ASSUME NEW name \in DOMAIN old, name \notin DOMAIN patch
          PROVE  read[name] = old[name]
      <3>1. CASE name = "kind"
        BY <2>1, <2>6, <3>1
      <3>2. CASE name \in DOMAIN checks
        <4>1. name \in DOMAIN sent /\ sent[name] = old[name]
          BY <1>2, <2>7
        <4>2. fields[name] = old[name]
          BY <1>4, <2>1, <2>4, <3>2, <4>1, DemandFieldKept
        <4>. QED BY <2>5, <2>6, <3>2, <4>2
      <3>. QED BY <2>2, <3>1, <3>2
    <2>8. new = InOrder(read)
      BY <1>1, <1>4, <2>1, <2>3, <2>4 DEF ReadDemand
    <2>9. CASE ~(kind = "STOCHASTIC" /\ read.min > read.max)
      <3>1. new = read
        BY <2>6, <2>8, <2>9 DEF InOrder
      <3>. QED BY <1>1, <2>7, <3>1 DEF KeepsDemand, Keeps
    <2>10. CASE kind = "STOCHASTIC" /\ read.min > read.max
      <3>1. PICK swapped : swapped = [read EXCEPT !.min = read.max, !.max = read.min]
        OBVIOUS
      <3>2. new = swapped
        BY <2>6, <2>8, <2>10, <3>1 DEF InOrder
      <3>3. DOMAIN checks = {"min", "max"}
        BY <2>1, <2>10, StochasticFields
      <3>4. DOMAIN read = {"kind", "min", "max"}
        BY <2>5, <2>6, <3>3
      <3>5. swapped.min = read.max /\ swapped.max = read.min /\ swapped.kind = read.kind
        BY <3>1, <3>4
      <3>6. CASE "min" \notin DOMAIN patch
        <4>1. new.max = old.min
          BY <2>2, <2>7, <3>2, <3>3, <3>5, <3>6
        <4>. QED BY <1>1, <2>1, <2>10, <4>1 DEF KeepsDemand
      <3>7. CASE "max" \notin DOMAIN patch
        <4>1. new.min = old.max
          BY <2>2, <2>7, <3>2, <3>3, <3>5, <3>7
        <4>. QED BY <1>1, <2>1, <2>10, <4>1 DEF KeepsDemand
      <3>8. CASE "min" \in DOMAIN patch /\ "max" \in DOMAIN patch
        <4>1. new.kind = old.kind
          BY <2>1, <2>6, <3>2, <3>5
        <4>2. Keeps(patch, old, new)
          BY <2>2, <3>3, <3>8, <4>1 DEF Keeps
        <4>. QED BY <1>1, <4>2 DEF KeepsDemand
      <3>. QED BY <3>6, <3>7, <3>8
    <2>. QED BY <2>9, <2>10
  <1>. QED BY <1>3, <1>4

-------------------------------------------------------------------------------
(* A whole configuration.                                                      *)

\* What a merge hands to the validator.
IsSent(raw) ==
    /\ IsSection(raw.game)
    /\ raw.roles # Unusable =>
          \A r \in Role :
              r \in DOMAIN raw.roles /\ raw.roles[r] # Unusable => IsSection(raw.roles[r])
    /\ raw.demand # Unusable => IsDemandSection(raw.demand)
    /\ raw.visibility # Unusable => IsSection(raw.visibility)
    /\ raw.bot # Unusable => IsSection(raw.bot)

LEMMA SectionOf ==
    ASSUME NEW checks, AreChecks(checks), NEW fields \in SectionValues(checks)
    PROVE  IsSection(fields)
  <1>1. ASSUME NEW name \in DOMAIN fields
        PROVE  fields[name] \in Value
    <2>1. fields[name] \in FieldValues(checks[name]) /\ IsCheck(checks[name])
      BY DEF SectionValues, AreChecks
    <2>. QED BY <2>1, FieldNumber
  <1>. QED BY <1>1 DEF IsSection

LEMMA SectionUpdated ==
    ASSUME NEW base, IsSection(base), NEW patch, IsSection(patch)
    PROVE  IsSection(Updated(base, patch))
  <1>1. PICK sent : sent = Updated(base, patch)
    OBVIOUS
  <1>2. /\ DOMAIN sent = DOMAIN base \cup DOMAIN patch
        /\ \A name \in DOMAIN patch : sent[name] = patch[name]
        /\ \A name \in DOMAIN base \ DOMAIN patch : sent[name] = base[name]
    BY <1>1 DEF Updated
  <1>3. ASSUME NEW name \in DOMAIN sent
        PROVE  sent[name] \in Value
    <2>1. CASE name \in DOMAIN patch
      BY <1>2, <2>1 DEF IsSection
    <2>2. CASE name \in DOMAIN base \ DOMAIN patch
      BY <1>2, <2>2 DEF IsSection
    <2>. QED BY <1>2, <2>1, <2>2
  <1>. QED BY <1>1, <1>3 DEF IsSection

\* A section that is no mapping is read as an empty one.
LEMMA MappingRead ==
    ASSUME NEW checks, AreChecks(checks), NEW section,
           section # Unusable => IsSection(section),
           AllowedSection(checks, Mapping(section))
    PROVE  ReadSection(checks, Mapping(section)) \in SectionValues(checks)
  <1>1. \A name \in DOMAIN Mapping(section) : Mapping(section)[name] \in Value
    BY DEF Mapping, IsSection
  <1>. QED BY <1>1, SectionRead

LEMMA GameRead ==
    ASSUME NEW raw
    PROVE  Weeks(raw) = ReadSection(GameChecks, raw.game).duration_weeks \div 2
  BY GameChecked DEF Weeks, ReadSection

LEMMA GameHolds ==
    ASSUME NEW game \in SectionValues(GameChecks)
    PROVE  /\ game.duration_weeks \in Int /\ IsWhole(game.duration_weeks)
           /\ game.duration_weeks >= Whole(Limits.minWeeks)
           /\ game.duration_weeks <= Whole(Limits.maxWeeks)
           /\ game.random_seed \in FieldValues(Seed(Limits.maxSeed))
           /\ game.duration_weeks \div 2 \in 1..Limits.maxWeeks
  <1>1. /\ game.duration_weeks \in FieldValues(GameChecks.duration_weeks)
        /\ game.random_seed \in FieldValues(GameChecks.random_seed)
    BY GameChecked DEF SectionValues
  <1>2. /\ GameChecks.duration_weeks =
              IntIn(Limits.minWeeks, Limits.maxWeeks, Default.game.duration_weeks)
        /\ GameChecks.random_seed = Seed(Limits.maxSeed)
    BY DEF GameChecks
  <1>3. /\ Default.game.duration_weeks \in Int
        /\ Limits.minWeeks \in Nat /\ Limits.maxWeeks \in Nat /\ Limits.minWeeks > 0
    BY DefaultAssumption, Limited
  <1>4. /\ game.duration_weeks \in Int /\ IsWhole(game.duration_weeks)
        /\ Whole(Limits.minWeeks) <= game.duration_weeks
        /\ game.duration_weeks <= Whole(Limits.maxWeeks)
    BY <1>1, <1>2, <1>3, MarkersAssumption DEF FieldValues, IntIn, Whole
  <1>5. game.duration_weeks \div 2 \in 1..Limits.maxWeeks
    BY <1>3, <1>4 DEF Whole, IsWhole
  <1>. QED BY <1>1, <1>2, <1>4, <1>5

\* What the validator accepts it makes a configuration of.
LEMMA ConfigRead ==
    ASSUME NEW raw, IsSent(raw), Accepts(raw)
    PROVE  IsConfig(FromHostInput(raw))
  <1>1. PICK config : config = FromHostInput(raw)
    OBVIOUS
  <1>2. /\ config = [game |-> config.game, roles |-> config.roles, demand |-> config.demand,
                     visibility |-> config.visibility, bot |-> config.bot]
        /\ config.game = ReadSection(GameChecks, raw.game)
        /\ config.roles = [r \in Role |-> ReadSection(RoleChecks(r), raw.roles[r])]
        /\ config.demand = ReadDemand(raw.demand, Weeks(raw))
        /\ config.visibility = ReadSection(VisibilityChecks, Mapping(raw.visibility))
        /\ config.bot = ReadSection(BotChecks, Mapping(raw.bot))
    BY <1>1 DEF FromHostInput
  <1>3. config.game \in SectionValues(GameChecks)
    BY <1>2, GameChecked, SectionRead DEF IsSent, IsSection, Accepts
  <1>4. ASSUME NEW r \in Role
        PROVE  config.roles[r] \in SectionValues(RoleChecks(r))
    <2>1. IsSection(raw.roles[r]) /\ AllowedSection(RoleChecks(r), raw.roles[r])
      BY DEF IsSent, Accepts
    <2>2. ReadSection(RoleChecks(r), raw.roles[r]) \in SectionValues(RoleChecks(r))
      BY <2>1, RoleChecked, SectionRead DEF IsSection
    <2>. QED BY <1>2, <2>2
  <1>5. config.roles = [r \in Role |-> config.roles[r]]
    BY <1>2
  <1>6. config.visibility \in SectionValues(VisibilityChecks)
    BY <1>2, VisibilityChecked, MappingRead DEF IsSent, Accepts
  <1>7. config.bot \in SectionValues(BotChecks)
    BY <1>2, BotChecked, MappingRead DEF IsSent, Accepts
  <1>8. IsDemand(config.demand, config.game.duration_weeks \div 2)
    <2>1. PICK weeks : weeks = Weeks(raw)
      OBVIOUS
    <2>2. weeks = config.game.duration_weeks \div 2 /\ weeks \in Int
      BY <1>2, <1>3, <2>1, GameRead, GameHolds
    <2>3. AllowedDemand(raw.demand, weeks) /\ IsDemandSection(raw.demand)
      BY <2>1 DEF Accepts, AllowedDemand, IsSent
    <2>. QED BY <1>2, <2>1, <2>2, <2>3, DemandRead
  <1>. QED BY <1>1, <1>2, <1>3, <1>4, <1>5, <1>6, <1>7, <1>8 DEF IsConfig

\* The parts of a configuration.
LEMMA ConfigParts ==
    ASSUME NEW config, IsConfig(config)
    PROVE  /\ DOMAIN config = {"game", "roles", "demand", "visibility", "bot"}
           /\ config.game \in SectionValues(GameChecks)
           /\ config.game.duration_weeks \div 2 \in Int
           /\ IsDemand(config.demand, config.game.duration_weeks \div 2)
  <1>1. DOMAIN config = {"game", "roles", "demand", "visibility", "bot"}
    <2>1. config = [game |-> config.game, roles |-> config.roles, demand |-> config.demand,
                    visibility |-> config.visibility, bot |-> config.bot]
      BY DEF IsConfig
    <2>2. PICK g, ro, d, v, b : config = [game |-> g, roles |-> ro, demand |-> d,
                                          visibility |-> v, bot |-> b]
      BY <2>1
    <2>. QED BY <2>2
  <1>2. /\ config.game \in SectionValues(GameChecks)
        /\ IsDemand(config.demand, config.game.duration_weeks \div 2)
    BY DEF IsConfig
  <1>. QED BY <1>1, <1>2, GameHolds

\* What is stored is accepted, and read as it is.
LEMMA ConfigKept ==
    ASSUME UnusableIsNoMapping, NEW config, IsConfig(config)
    PROVE  Accepts(config) /\ FromHostInput(config) = config
  <1>1. /\ AllowedSection(GameChecks, config.game)
        /\ ReadSection(GameChecks, config.game) = config.game
    BY GameChecked, SectionKept DEF IsConfig
  <1>2. ASSUME NEW r \in Role
        PROVE  /\ config.roles[r] # Unusable
               /\ AllowedSection(RoleChecks(r), config.roles[r])
               /\ ReadSection(RoleChecks(r), config.roles[r]) = config.roles[r]
    <2>1. config.roles[r] \in SectionValues(RoleChecks(r))
      BY DEF IsConfig
    <2>. QED BY <2>1, RoleChecked, SectionKept, Mappings
  <1>3. config.roles = [r \in Role |-> config.roles[r]]
    BY DEF IsConfig
  <1>4. config.roles # Unusable /\ \A r \in Role : r \in DOMAIN config.roles
    <2>1. IsMapping(config.roles) /\ DOMAIN config.roles = Role
      BY <1>3 DEF IsMapping
    <2>. QED BY <2>1, Mappings
  <1>5. [r \in Role |-> ReadSection(RoleChecks(r), config.roles[r])] = config.roles
    BY <1>2, <1>3
  <1>6. /\ AllowedDemand(config.demand, Weeks(config))
        /\ ReadDemand(config.demand, Weeks(config)) = config.demand
    <2>1. PICK weeks : weeks = config.game.duration_weeks \div 2
      OBVIOUS
    <2>2. weeks \in Int /\ IsDemand(config.demand, weeks) /\ Weeks(config) = weeks
      BY <1>1, <2>1, ConfigParts, GameRead
    <2>3. AllowedDemand(config.demand, weeks) /\ ReadDemand(config.demand, weeks) = config.demand
      BY <2>2, DemandAllowed, DemandKept
    <2>. QED BY <2>2, <2>3
  <1>7. /\ Mapping(config.visibility) = config.visibility
        /\ AllowedSection(VisibilityChecks, config.visibility)
        /\ ReadSection(VisibilityChecks, config.visibility) = config.visibility
    <2>1. config.visibility \in SectionValues(VisibilityChecks)
      BY DEF IsConfig
    <2>. QED BY <2>1, VisibilityChecked, SectionKept, Mappings DEF Mapping
  <1>8. /\ Mapping(config.bot) = config.bot
        /\ AllowedSection(BotChecks, config.bot)
        /\ ReadSection(BotChecks, config.bot) = config.bot
    <2>1. config.bot \in SectionValues(BotChecks)
      BY DEF IsConfig
    <2>. QED BY <2>1, BotChecked, SectionKept, Mappings DEF Mapping
  <1>9. Accepts(config)
    BY <1>1, <1>2, <1>4, <1>6, <1>7, <1>8 DEF Accepts
  <1>10. FromHostInput(config) =
           [game |-> config.game, roles |-> config.roles, demand |-> config.demand,
            visibility |-> config.visibility, bot |-> config.bot]
    BY <1>1, <1>5, <1>6, <1>7, <1>8 DEF FromHostInput
  <1>11. config = [game |-> config.game, roles |-> config.roles, demand |-> config.demand,
                   visibility |-> config.visibility, bot |-> config.bot]
    BY DEF IsConfig
  <1>. QED BY <1>9, <1>10, <1>11

-------------------------------------------------------------------------------
(* A merge.                                                                    *)

LEMMA MergedParts ==
    ASSUME NEW config, IsConfig(config), NEW patch, NEW merged, merged = Merged(config, patch)
    PROVE  /\ "game" \notin DOMAIN patch => merged.game = config.game
           /\ "game" \in DOMAIN patch => merged.game = Over(patch.game, config.game)
           /\ "roles" \notin DOMAIN patch => merged.roles = config.roles
           /\ "roles" \in DOMAIN patch => merged.roles = MergedRoles(patch.roles, config.roles)
           /\ "demand" \notin DOMAIN patch => merged.demand = config.demand
           /\ "demand" \in DOMAIN patch =>
                merged.demand = MergedDemand(patch.demand, config.demand)
           /\ "visibility" \notin DOMAIN patch => merged.visibility = config.visibility
           /\ "visibility" \in DOMAIN patch =>
                merged.visibility = Over(patch.visibility, config.visibility)
           /\ "bot" \notin DOMAIN patch => merged.bot = config.bot
           /\ "bot" \in DOMAIN patch => merged.bot = Over(patch.bot, config.bot)
  <1>1. DOMAIN config = {"game", "roles", "demand", "visibility", "bot"}
    BY ConfigParts
  <1>. QED BY <1>1 DEF Merged

\* A section over a section, if it is a mapping at all.
LEMMA OverSection ==
    ASSUME NEW patch, IsSection(patch), NEW section, IsSection(section)
    PROVE  IsSection(Over(patch, section))
  BY SectionUpdated DEF Over

LEMMA DemandSection ==
    ASSUME NEW demand, NEW duration \in Int, IsDemand(demand, duration)
    PROVE  IsDemandSection(demand)
  <1>1. CASE demand.kind = "CUSTOM"
    <2>1. PICK values : values = demand.values
      OBVIOUS
    <2>2. demand = [kind |-> "CUSTOM", values |-> values] /\ values \in Seq(Wholes)
      BY <1>1, <2>1, DemandParts
    <2>3. Wholes \subseteq Value
      BY DEF Wholes, Value
    <2>4. values \in Seq(Value)
      BY <2>2, <2>3
    <2>5. DOMAIN demand \ {"kind", "values"} = {}
      BY <2>2
    <2>. QED BY <2>1, <2>4, <2>5 DEF IsDemandSection
  <1>2. CASE demand.kind # "CUSTOM"
    <2>1. PICK kind, checks : kind = demand.kind /\ checks = DemandChecks(kind, duration)
      OBVIOUS
    <2>2. /\ kind \in Kinds /\ AreChecks(checks)
          /\ demand = [name \in {"kind"} \cup DOMAIN checks |-> demand[name]]
          /\ \A name \in DOMAIN checks : demand[name] \in FieldValues(checks[name])
      BY <1>2, <2>1, DemandParts
    <2>3. "values" \notin DOMAIN checks
      BY <2>1, <2>2, DemandChecked
    <2>4. \A name \in DOMAIN checks : demand[name] \in Value
      BY <2>2, FieldNumber DEF AreChecks
    <2>5. DOMAIN demand = {"kind"} \cup DOMAIN checks
      BY <2>2
    <2>. QED BY <2>3, <2>4, <2>5 DEF IsDemandSection
  <1>. QED BY <1>1, <1>2

LEMMA DemandUpdated ==
    ASSUME NEW base, IsDemandSection(base), NEW patch, IsDemandSection(patch)
    PROVE  IsDemandSection(Updated(base, patch))
  <1>1. PICK sent : sent = Updated(base, patch)
    OBVIOUS
  <1>2. /\ DOMAIN sent = DOMAIN base \cup DOMAIN patch
        /\ \A name \in DOMAIN patch : sent[name] = patch[name]
        /\ \A name \in DOMAIN base \ DOMAIN patch : sent[name] = base[name]
    BY <1>1 DEF Updated
  <1>3. ASSUME NEW name \in DOMAIN sent \ {"kind", "values"}
        PROVE  sent[name] \in Value
    <2>1. CASE name \in DOMAIN patch
      BY <1>2, <2>1 DEF IsDemandSection
    <2>2. CASE name \in DOMAIN base \ DOMAIN patch
      BY <1>2, <2>2 DEF IsDemandSection
    <2>. QED BY <1>2, <2>1, <2>2
  <1>4. ASSUME "values" \in DOMAIN sent
        PROVE  sent.values = Unusable \/ sent.values \in Seq(Value)
    <2>1. CASE "values" \in DOMAIN patch
      BY <1>2, <2>1 DEF IsDemandSection
    <2>2. CASE "values" \in DOMAIN base \ DOMAIN patch
      BY <1>2, <2>2 DEF IsDemandSection
    <2>. QED BY <1>2, <1>4, <2>1, <2>2
  <1>. QED BY <1>1, <1>3, <1>4 DEF IsDemandSection

LEMMA MergedSent ==
    ASSUME NEW config, IsConfig(config), NEW patch \in Patches,
           NEW merged, merged = Merged(config, patch)
    PROVE  IsSent(merged)
  <1>1. IsSection(merged.game)
    <2>1. IsSection(config.game)
      BY ConfigParts, GameChecked, SectionOf
    <2>. QED BY <2>1, MergedParts, OverSection, PatchesAssumption
  <1>2. ASSUME merged.roles # Unusable, NEW r \in Role,
               r \in DOMAIN merged.roles, merged.roles[r] # Unusable
        PROVE  IsSection(merged.roles[r])
    <2>1. IsSection(config.roles[r]) /\ DOMAIN config.roles = Role
      <3>1. /\ config.roles = [q \in Role |-> config.roles[q]]
            /\ config.roles[r] \in SectionValues(RoleChecks(r))
        BY DEF IsConfig
      <3>. QED BY <3>1, RoleChecked, SectionOf
    <2>2. CASE "roles" \notin DOMAIN patch
      BY <2>1, <2>2, MergedParts
    <2>3. CASE "roles" \in DOMAIN patch
      <3>1. merged.roles = MergedRoles(patch.roles, config.roles) /\ patch.roles # Unusable
        BY <1>2, <2>3, MergedParts DEF MergedRoles
      <3>2. merged.roles[r] = IF r \in DOMAIN patch.roles
                              THEN Over(patch.roles[r], config.roles[r]) ELSE config.roles[r]
        BY <2>1, <3>1 DEF MergedRoles
      <3>3. CASE r \in DOMAIN patch.roles
        <4>1. merged.roles[r] = Over(patch.roles[r], config.roles[r])
          BY <3>2, <3>3
        <4>2. patch.roles[r] # Unusable
          BY <1>2, <4>1 DEF Over
        <4>3. IsSection(patch.roles[r])
          BY <2>3, <3>1, <3>3, <4>2, PatchesAssumption
        <4>. QED BY <2>1, <4>1, <4>3, OverSection
      <3>. QED BY <2>1, <3>2, <3>3
    <2>. QED BY <2>2, <2>3
  <1>3. ASSUME merged.demand # Unusable
        PROVE  IsDemandSection(merged.demand)
    <2>1. IsDemandSection(config.demand)
      BY ConfigParts, DemandSection
    <2>2. CASE "demand" \notin DOMAIN patch
      BY <2>1, <2>2, MergedParts
    <2>3. CASE "demand" \in DOMAIN patch
      <3>1. /\ merged.demand = MergedDemand(patch.demand, config.demand)
            /\ patch.demand # Unusable
        BY <1>3, <2>3, MergedParts DEF MergedDemand
      <3>2. IsDemandSection(patch.demand)
        BY <2>3, <3>1, PatchesAssumption
      <3>. QED BY <2>1, <3>1, <3>2, DemandUpdated DEF MergedDemand
    <2>. QED BY <2>2, <2>3
  <1>4. ASSUME merged.visibility # Unusable
        PROVE  IsSection(merged.visibility)
    <2>1. IsSection(config.visibility)
      BY VisibilityChecked, SectionOf DEF IsConfig
    <2>2. CASE "visibility" \notin DOMAIN patch
      BY <2>1, <2>2, MergedParts
    <2>3. CASE "visibility" \in DOMAIN patch
      <3>1. merged.visibility = Over(patch.visibility, config.visibility)
        BY <2>3, MergedParts
      <3>2. patch.visibility # Unusable
        BY <1>4, <3>1 DEF Over
      <3>3. IsSection(patch.visibility)
        BY <2>3, <3>2, PatchesAssumption
      <3>. QED BY <2>1, <3>1, <3>3, OverSection
    <2>. QED BY <2>2, <2>3
  <1>5. ASSUME merged.bot # Unusable
        PROVE  IsSection(merged.bot)
    <2>1. IsSection(config.bot)
      BY BotChecked, SectionOf DEF IsConfig
    <2>2. CASE "bot" \notin DOMAIN patch
      BY <2>1, <2>2, MergedParts
    <2>3. CASE "bot" \in DOMAIN patch
      <3>1. merged.bot = Over(patch.bot, config.bot)
        BY <2>3, MergedParts
      <3>2. patch.bot # Unusable
        BY <1>5, <3>1 DEF Over
      <3>3. IsSection(patch.bot)
        BY <2>3, <3>2, PatchesAssumption
      <3>. QED BY <2>1, <3>1, <3>3, OverSection
    <2>. QED BY <2>2, <2>3
  <1>. QED BY <1>1, <1>2, <1>3, <1>4, <1>5 DEF IsSent

-------------------------------------------------------------------------------
(* What the engine is given.                                                   *)

LEMMA FieldOf ==
    ASSUME NEW checks, NEW fields \in SectionValues(checks), NEW name \in DOMAIN checks
    PROVE  fields[name] \in FieldValues(checks[name])
  BY DEF SectionValues

\* A number in a range that starts where a quantity, a delay or a cap may start.
LEMMA NumbersRead ==
    ASSUME NEW low \in Nat, NEW high \in Nat, NEW default \in Int
    PROVE  /\ \A v \in FieldValues(IntIn(low, high, default)) :
                 v \in Int /\ IsWhole(v) /\ Whole(low) <= v /\ v <= Whole(high)
           /\ \A v \in FieldValues(FloatIn(low, high, default)) : v \in Int /\ Whole(low) <= v
           /\ \A v \in FieldValues(Cap(high)) : v # None => IsPositive(v)
           /\ \A v \in FieldValues(Optional(low, high)) :
                 v # None => v \in Int /\ IsWhole(v) /\ Whole(low) <= v
  <1>1. default # None
    BY MarkersAssumption
  <1>. QED BY <1>1 DEF FieldValues, IntIn, FloatIn, Cap, Optional, IsPositive, Whole, IsWhole

LEMMA ConfigPlayable ==
    ASSUME NEW config, IsConfig(config)
    PROVE  Playable(config)
  <1>1. IsPositive(config.game.duration_weeks)
    <2>1. /\ config.game.duration_weeks \in Int /\ IsWhole(config.game.duration_weeks)
          /\ config.game.duration_weeks >= Whole(Limits.minWeeks)
      BY ConfigParts, GameHolds
    <2>. QED BY <2>1, Limited DEF IsPositive, Whole
  <1>2. /\ Default.role.initial_inventory \in Int /\ Default.role.shipping_delay_weeks \in Int
        /\ Default.role.holding_cost \in Int /\ Default.role.production_delay_weeks \in Int
        /\ Limits.minDelay \in Nat /\ Limits.minDelay > 0 /\ Limits.maxDelay \in Nat
        /\ Limits.maxInitial \in Nat /\ Limits.maxValue \in Nat /\ Limits.maxOrder \in Nat
    BY DefaultAssumption, Limited
  <1>3. ASSUME NEW r \in Role
        PROVE  /\ IsCount(config.roles[r].initial_inventory)
               /\ IsPositive(config.roles[r].shipping_delay_weeks)
               /\ config.roles[r].holding_cost >= 0
               /\ r = Factory =>
                    /\ IsPositive(config.roles[r].production_delay_weeks)
                    /\ config.roles[r].production_capacity_per_week # None =>
                          IsPositive(config.roles[r].production_capacity_per_week)
    <2>1. PICK fields, checks : fields = config.roles[r] /\ checks = RoleChecks(r)
      OBVIOUS
    <2>2. fields \in SectionValues(checks)
      BY <2>1 DEF IsConfig
    <2>3. /\ fields.initial_inventory \in
                FieldValues(IntIn(0, Limits.maxInitial, Default.role.initial_inventory))
          /\ fields.shipping_delay_weeks \in
                FieldValues(IntIn(Limits.minDelay, Limits.maxDelay,
                                  Default.role.shipping_delay_weeks))
          /\ fields.holding_cost \in
                FieldValues(FloatIn(0, Limits.maxValue, Default.role.holding_cost))
      BY <2>1, <2>2, RoleChecked, FieldOf
    <2>4. r = Factory =>
            /\ fields.production_delay_weeks \in
                  FieldValues(IntIn(Limits.minDelay, Limits.maxDelay,
                                    Default.role.production_delay_weeks))
            /\ fields.production_capacity_per_week \in FieldValues(Cap(Limits.maxOrder))
      BY <2>1, <2>2, RoleChecked, FieldOf
    <2>5. IsCount(fields.initial_inventory)
      BY <1>2, <2>3, NumbersRead DEF IsCount, Whole
    <2>6. /\ fields.shipping_delay_weeks \in Int /\ IsWhole(fields.shipping_delay_weeks)
          /\ Whole(Limits.minDelay) <= fields.shipping_delay_weeks
      BY <1>2, <2>3, NumbersRead
    <2>7. fields.holding_cost >= 0
      <3>1. fields.holding_cost \in Int /\ Whole(0) <= fields.holding_cost
        BY <1>2, <2>3, NumbersRead
      <3>. QED BY <3>1 DEF Whole
    <2>8. r = Factory =>
            /\ fields.production_delay_weeks \in Int /\ IsWhole(fields.production_delay_weeks)
            /\ Whole(Limits.minDelay) <= fields.production_delay_weeks
      BY <1>2, <2>4, NumbersRead
    <2>9. r = Factory => (fields.production_capacity_per_week # None =>
                            IsPositive(fields.production_capacity_per_week))
      BY <1>2, <2>4, NumbersRead
    <2>. QED BY <1>2, <2>1, <2>5, <2>6, <2>7, <2>8, <2>9 DEF IsPositive, Whole
  <1>4. config.visibility.max_order_quantity # None =>
            IsPositive(config.visibility.max_order_quantity)
    <2>1. VisibilityChecks.max_order_quantity = Cap(Limits.maxOrder)
      BY DEF VisibilityChecks
    <2>2. config.visibility.max_order_quantity \in FieldValues(Cap(Limits.maxOrder))
      BY <2>1, VisibilityChecked, FieldOf DEF IsConfig
    <2>. QED BY <1>2, <2>2, NumbersRead
  <1>. QED BY <1>1, <1>3, <1>4, RolesAssumption DEF Playable

\* The demand of one week, of each kind.
LEMMA WeekFed ==
    ASSUME NEW demand, NEW duration \in 1..Limits.maxWeeks, IsDemand(demand, duration),
           NEW w \in 1..duration, NEW s, Drawn[s][w] \in Int
    PROVE  /\ DemandIn(demand, w, s) \in Nat
           /\ demand.kind = "CUSTOM" => Whole(DemandIn(demand, w, s)) = demand.values[w]
           /\ demand.kind = "STOCHASTIC" =>
                /\ demand.min <= Whole(DemandIn(demand, w, s))
                /\ Whole(DemandIn(demand, w, s)) <= demand.max
  <1>1. /\ duration \in Int /\ w \in Int /\ 1 <= w /\ w <= duration
        /\ Limits.maxOrder \in Nat /\ Limits.maxWeeks \in Nat
        /\ Limits.minPeriod \in Nat /\ Limits.minPeriod > 0 /\ Limits.maxPeriod \in Nat
    BY Limited
  <1>2. PICK checks : checks = DemandChecks(demand.kind, duration)
    OBVIOUS
  <1>3. \A name \in {"value", "initial_value", "step_week", "step_value", "slope_per_week",
                     "start_week", "base", "amplitude", "period_weeks", "min", "max"} :
            Default.demand[name] \in Int
    BY DefaultAssumption
  <1>4. \A default \in Int : \A v \in FieldValues(Quantity(default)) :
            v \in Int /\ IsWhole(v) /\ 0 <= v
    BY <1>1, NumbersRead DEF Quantity, Whole
  <1>5. demand.kind # "CUSTOM" =>
            /\ demand.kind \in Kinds
            /\ \A name \in DOMAIN checks : demand[name] \in FieldValues(checks[name])
    BY <1>1, <1>2, DemandParts
  <1>6. CASE demand.kind = "CONSTANT"
    <2>1. demand.value \in Int /\ 0 <= demand.value
      BY <1>2, <1>3, <1>4, <1>5, <1>6, DemandFields
    <2>. QED BY <1>6, <2>1 DEF DemandIn
  <1>7. CASE demand.kind = "STEP"
    <2>1. /\ demand.initial_value \in Int /\ 0 <= demand.initial_value
          /\ demand.step_value \in Int /\ 0 <= demand.step_value
      BY <1>2, <1>3, <1>4, <1>5, <1>7, DemandFields
    <2>2. DemandIn(demand, w, s) = StepDemand(demand, w)
      BY <1>7 DEF DemandIn
    <2>. QED BY <1>7, <2>1, <2>2 DEF StepDemand
  <1>8. CASE demand.kind = "RAMP"
    <2>1. /\ demand.initial_value \in FieldValues(Quantity(Default.demand.initial_value))
          /\ demand.slope_per_week \in
                FieldValues(FloatIn(-Limits.maxOrder, Limits.maxOrder,
                                    Default.demand.slope_per_week))
          /\ demand.start_week \in FieldValues(IntIn(1, duration, Default.demand.start_week))
          /\ demand.cap \in FieldValues(Optional(0, Limits.maxOrder))
      BY <1>2, <1>5, <1>8, DemandFields
    <2>2. demand.initial_value \in Int /\ demand.start_week \in Int
      BY <1>1, <1>3, <1>4, <2>1, NumbersRead
    <2>3. demand.slope_per_week \in Int
      BY <1>1, <1>3, <2>1, MarkersAssumption DEF FieldValues, FloatIn, Whole
    <2>4. demand.cap # None => demand.cap \in Int
      BY <1>1, <1>3, <2>1, NumbersRead
    <2>5. PICK steps : steps = AtLeastZero(w - demand.start_week \div 2 + 1)
      OBVIOUS
    <2>6. steps \in Int
      BY <1>1, <2>2, <2>5 DEF AtLeastZero
    <2>7. PICK rise : rise = demand.slope_per_week * steps
      OBVIOUS
    <2>8. rise \in Int
      BY <2>3, <2>6, <2>7
    <2>9. PICK n : n = RoundHalfUp(demand.initial_value + rise)
      OBVIOUS
    <2>10. n \in Int
      BY <2>2, <2>8, <2>9 DEF RoundHalfUp
    <2>11. DemandIn(demand, w, s) = AtLeastZero(AtMost(n, demand.cap))
      BY <1>8, <2>5, <2>7, <2>9 DEF DemandIn, RampDemand
    <2>12. AtMost(n, demand.cap) \in Int
      BY <2>4, <2>10 DEF AtMost
    <2>13. AtLeastZero(AtMost(n, demand.cap)) \in Nat
      BY <2>12 DEF AtLeastZero
    <2>. QED BY <1>8, <2>11, <2>13
  <1>9. CASE demand.kind = "SEASONAL"
    <2>1. /\ demand.base \in FieldValues(Quantity(Default.demand.base))
          /\ demand.amplitude \in FieldValues(Quantity(Default.demand.amplitude))
          /\ demand.period_weeks \in FieldValues(IntIn(Limits.minPeriod, Limits.maxPeriod,
                                                       Default.demand.period_weeks))
      BY <1>2, <1>5, <1>9, DemandFields
    <2>2. demand.base \in Int /\ demand.amplitude \in Int
      BY <1>3, <1>4, <2>1
    <2>3. PICK period : period = demand.period_weeks \div 2
      OBVIOUS
    <2>4. period \in Limits.minPeriod..Limits.maxPeriod
      <3>1. /\ demand.period_weeks \in Int /\ Whole(Limits.minPeriod) <= demand.period_weeks
            /\ demand.period_weeks <= Whole(Limits.maxPeriod)
        BY <1>1, <1>3, <2>1, NumbersRead
      <3>. QED BY <1>1, <2>3, <3>1 DEF Whole
    <2>5. PICK k : k = (w - 1) % period
      OBVIOUS
    <2>6. k \in 0..(period - 1)
      BY <1>1, <2>4, <2>5
    <2>7. Sine[period][k] \in Int
      BY <2>4, <2>6, DrawsAssumption
    <2>8. PICK half : half = demand.amplitude \div 2
      OBVIOUS
    <2>9. PICK swing : swing = half * Sine[period][k]
      OBVIOUS
    <2>10. swing \in Int
      <3>1. half \in Int
        BY <2>2, <2>8
      <3>. QED BY <2>7, <2>9, <3>1
    <2>11. DemandIn(demand, w, s) = AtLeastZero(RoundHalfUp(demand.base + swing))
      BY <1>9, <2>3, <2>5, <2>8, <2>9 DEF DemandIn, SeasonalDemand
    <2>12. AtLeastZero(RoundHalfUp(demand.base + swing)) \in Nat
      BY <2>2, <2>10 DEF AtLeastZero, RoundHalfUp
    <2>. QED BY <1>9, <2>11, <2>12
  <1>10. CASE demand.kind = "STOCHASTIC"
    <2>1. DOMAIN checks = {"min", "max"} /\ demand.min <= demand.max
      BY <1>1, <1>2, <1>10, StochasticFields, DemandParts
    <2>2. /\ demand.min \in Int /\ IsWhole(demand.min) /\ 0 <= demand.min
          /\ demand.max \in Int /\ IsWhole(demand.max)
      BY <1>2, <1>5, <1>10, <2>1, StochasticFields
    <2>3. PICK n : n = Drawn[s][w]
      OBVIOUS
    <2>4. DemandIn(demand, w, s) =
            IF n < demand.min \div 2 THEN demand.min \div 2
            ELSE IF n > demand.max \div 2 THEN demand.max \div 2 ELSE n
      <3>1. demand.max # None
        BY <2>2, MarkersAssumption
      <3>2. DemandIn(demand, w, s) = StochasticDemand(demand, w, s)
        BY <1>10 DEF DemandIn
      <3>. QED BY <2>3, <3>1, <3>2 DEF StochasticDemand, AtMost
    <2>5. n \in Int
      BY <2>3
    <2>. QED BY <1>10, <2>1, <2>2, <2>4, <2>5 DEF Whole, IsWhole
  <1>11. CASE demand.kind = "CUSTOM"
    <2>1. demand.values \in Seq(Wholes) /\ Len(demand.values) >= duration
      BY <1>1, <1>11, DemandParts
    <2>2. demand.values[w] \in Wholes
      BY <1>1, <2>1
    <2>3. DemandIn(demand, w, s) = demand.values[w] \div 2
      BY <1>11 DEF DemandIn
    <2>. QED BY <1>11, <2>2, <2>3 DEF Wholes, Whole, IsWhole
  <1>. QED BY <1>5, <1>6, <1>7, <1>8, <1>9, <1>10, <1>11 DEF Kinds

LEMMA SeriesFed ==
    ASSUME NEW config, IsConfig(config), NEW s \in SeedsFor(config),
           NEW demands, demands = Series(config, s)
    PROVE  /\ Whole(Len(demands)) = config.game.duration_weeks
           /\ DOMAIN demands = 1..(config.game.duration_weeks \div 2)
           /\ \A w \in DOMAIN demands :
                /\ demands[w] \in Nat
                /\ config.demand.kind = "CUSTOM" =>
                      Whole(demands[w]) = config.demand.values[w]
                /\ config.demand.kind = "STOCHASTIC" =>
                      /\ config.demand.min <= Whole(demands[w])
                      /\ Whole(demands[w]) <= config.demand.max
           /\ ~IsExample(config) => demands = Preview(config)
           /\ config.demand.kind = "STEP" =>
                \E w \in DOMAIN demands : w > 1 /\ w = config.demand.step_week \div 2
  <1>1. PICK demand, n : demand = config.demand /\ n = config.game.duration_weeks \div 2
    OBVIOUS
  <1>2. /\ config.game \in SectionValues(GameChecks)
        /\ n \in Int /\ IsDemand(demand, n)
    BY <1>1, ConfigParts
  <1>3. /\ config.game.duration_weeks \in Int /\ IsWhole(config.game.duration_weeks)
        /\ n \in 1..Limits.maxWeeks
        /\ config.game.random_seed \in FieldValues(Seed(Limits.maxSeed))
    BY <1>1, <1>2, GameHolds
  <1>4. demands = [w \in 1..n |-> DemandIn(demand, w, s)]
    BY <1>1 DEF Series
  <1>5. Limits.maxWeeks \in Nat /\ Limits.minStepWeek \in Nat /\ Limits.minStepWeek > 1
    BY Limited
  <1>6. DOMAIN demands = 1..n /\ Len(demands) = n
    BY <1>3, <1>4, <1>5
  <1>7. Whole(Len(demands)) = config.game.duration_weeks
    BY <1>1, <1>3, <1>6 DEF Whole, IsWhole
  <1>8. ASSUME NEW w \in 1..n
        PROVE  Drawn[s][w] \in Int
    <2>1. s # None /\ s \in Draws \cup FieldValues(Seed(Limits.maxSeed))
      BY <1>3, DrawsAssumption, MarkersAssumption DEF SeedsFor
    <2>2. w \in 1..Limits.maxWeeks
      BY <1>3, <1>5
    <2>. QED BY <2>1, <2>2, DrawsAssumption
  <1>9. ASSUME NEW w \in 1..n
        PROVE  /\ demands[w] \in Nat
               /\ demand.kind = "CUSTOM" => Whole(demands[w]) = demand.values[w]
               /\ demand.kind = "STOCHASTIC" =>
                     demand.min <= Whole(demands[w]) /\ Whole(demands[w]) <= demand.max
    <2>1. demands[w] = DemandIn(demand, w, s) /\ Drawn[s][w] \in Int
      BY <1>4, <1>8
    <2>. QED BY <1>2, <1>3, <2>1, WeekFed
  <1>10. ASSUME ~IsExample(config)
         PROVE  demands = Preview(config)
    <2>1. CASE config.game.random_seed # None
      BY <1>1, <1>4, <2>1 DEF SeedsFor, Preview, Series
    <2>2. CASE config.game.random_seed = None
      <3>1. demand.kind # "STOCHASTIC"
        BY <1>1, <1>10, <2>2 DEF IsExample
      <3>2. demand.kind \in Kinds \cup {"CUSTOM"}
        BY <1>2 DEF IsDemand
      <3>3. ASSUME NEW w \in 1..n
            PROVE  DemandIn(demand, w, s) = DemandIn(demand, w, 0)
        BY <3>1, <3>2 DEF DemandIn, Kinds
      <3>4. Preview(config) = [w \in 1..n |-> DemandIn(demand, w, 0)]
        BY <1>1, <2>2 DEF Preview, Series
      <3>. QED BY <1>4, <3>3, <3>4
    <2>. QED BY <2>1, <2>2
  <1>11. ASSUME demand.kind = "STEP"
         PROVE  \E w \in 1..n : w > 1 /\ w = demand.step_week \div 2
    <2>1. demand.step_week \in FieldValues(StepWeek(n))
      <3>1. PICK checks : checks = DemandChecks("STEP", n)
        OBVIOUS
      <3>2. \A name \in DOMAIN checks : demand[name] \in FieldValues(checks[name])
        BY <1>2, <1>11, <3>1, DemandParts
      <3>3. "step_week" \in DOMAIN checks /\ checks.step_week = StepWeek(n)
        BY <3>1, DemandFields
      <3>. QED BY <3>2, <3>3
    <2>2. /\ demand.step_week \in Int /\ Whole(Limits.minStepWeek) <= demand.step_week
          /\ demand.step_week <= Whole(n)
      <3>1. n \in Nat /\ Default.demand.step_week \in Int
        BY <1>3, <1>5, DefaultAssumption
      <3>. QED BY <1>5, <2>1, <3>1, NumbersRead DEF StepWeek
    <2>3. PICK w : w = demand.step_week \div 2
      OBVIOUS
    <2>4. w \in 1..n /\ w > 1
      BY <1>3, <1>5, <2>2, <2>3 DEF Whole
    <2>. QED BY <2>3, <2>4
  <1>. QED BY <1>1, <1>6, <1>7, <1>9, <1>10, <1>11

-------------------------------------------------------------------------------
(* The invariant.                                                              *)

States == {"LOBBY", "CONFIGURING", "RUNNING"}

IInv ==
    /\ state \in States
    /\ IsConfig(stored)
    /\ state = "RUNNING" => seed \in SeedsFor(stored) /\ series = Series(stored, seed)

LEMMA InitConfig == Init => IInv
  BY PresetsAssumption DEF Init, IInv, States

LEMMA StepConfig == IInv /\ [Next]_vars => IInv'
  <1>. SUFFICES ASSUME IInv, [Next]_vars PROVE IInv'
    OBVIOUS
  <1>1. ASSUME NEW patch \in Patches, UpdateConfig(patch)
        PROVE  IInv'
    <2>1. PICK merged : merged = Merged(stored, patch)
      OBVIOUS
    <2>2. IsConfig(stored)
      BY DEF IInv
    <2>3. Accepts(merged) /\ stored' = FromHostInput(merged) /\ state' = "CONFIGURING"
      BY <1>1, <2>1 DEF UpdateConfig
    <2>4. IsSent(merged)
      BY <2>1, <2>2, MergedSent
    <2>5. IsConfig(stored')
      BY <2>3, <2>4, ConfigRead
    <2>. QED BY <2>3, <2>5 DEF IInv, States
  <1>2. CASE StartGame
    BY <1>2 DEF StartGame, IInv, States
  <1>3. CASE UNCHANGED vars
    BY <1>3 DEF vars, IInv
  <1>. QED BY <1>1, <1>2, <1>3 DEF Next

LEMMA AlwaysConfig == Spec => []IInv
  BY InitConfig, StepConfig, PTL DEF Spec

LEMMA FedByConfig == IInv => EngineIsFed
  <1>. SUFFICES ASSUME IInv PROVE EngineIsFed
    OBVIOUS
  <1>1. Playable(stored)
    BY ConfigPlayable DEF IInv
  <1>2. ASSUME state = "RUNNING"
        PROVE  /\ Whole(Len(series)) = stored.game.duration_weeks
               /\ \A w \in DOMAIN series : series[w] \in Nat
               /\ PlaysTheDemand(stored)
    <2>1. IsConfig(stored) /\ seed \in SeedsFor(stored) /\ series = Series(stored, seed)
      BY <1>2 DEF IInv
    <2>2. /\ Whole(Len(series)) = stored.game.duration_weeks
          /\ \A w \in DOMAIN series :
                /\ series[w] \in Nat
                /\ stored.demand.kind = "CUSTOM" => Whole(series[w]) = stored.demand.values[w]
                /\ stored.demand.kind = "STOCHASTIC" =>
                      /\ stored.demand.min <= Whole(series[w])
                      /\ Whole(series[w]) <= stored.demand.max
          /\ ~IsExample(stored) => series = Preview(stored)
          /\ stored.demand.kind = "STEP" =>
                \E w \in DOMAIN series : w > 1 /\ w = stored.demand.step_week \div 2
      BY <2>1, SeriesFed
    <2>3. PlaysTheDemand(stored)
      BY <2>2 DEF PlaysTheDemand
    <2>. QED BY <2>2, <2>3
  <1>. QED BY <1>1, <1>2 DEF EngineIsFed

\* Whatever hosts send and in whatever order, a game that starts is one the engine can
\* play to its end, with the demand its host was shown (from_host_input, demand.py).
THEOREM EngineIsAlwaysFed == Spec => []EngineIsFed
  BY AlwaysConfig, FedByConfig, PTL

\* What is stored passes its own validator and is not altered by it, whatever was
\* merged and read before (from_host_input, presets.py).
THEOREM SavedUnaltered ==
    ASSUME UnusableIsNoMapping
    PROVE  Spec => []SavedAgainIsTheSame
  <1>1. IInv => SavedAgainIsTheSame
    BY ConfigKept DEF IInv, SavedAgainIsTheSame
  <1>. QED BY <1>1, AlwaysConfig, PTL

LEMMA UpdatedIsMapping ==
    ASSUME UnusableIsNoMapping, NEW base, NEW patch
    PROVE  Updated(base, patch) # Unusable
  <1>1. PICK sent : sent = Updated(base, patch)
    OBVIOUS
  <1>2. IsMapping(sent)
    BY <1>1 DEF IsMapping, Updated
  <1>. QED BY <1>1, <1>2, Mappings

\* A section that may be no mapping: visibility and bot.
LEMMA MappingKept ==
    ASSUME UnusableIsNoMapping, NEW checks, AreChecks(checks), NEW old \in SectionValues(checks)
    PROVE  /\ ReadSection(checks, Mapping(old)) = old
           /\ \A patch : patch # Unusable =>
                 Keeps(patch, old, ReadSection(checks, Mapping(Over(patch, old))))
  <1>1. ReadSection(checks, Mapping(old)) = old
    BY Mappings, SectionKept DEF Mapping
  <1>2. ASSUME NEW patch, patch # Unusable
        PROVE  Keeps(patch, old, ReadSection(checks, Mapping(Over(patch, old))))
    <2>1. Mapping(Over(patch, old)) = Updated(old, patch)
      BY <1>2, UpdatedIsMapping DEF Mapping, Over
    <2>. QED BY <2>1, UnnamedKept
  <1>. QED BY <1>1, <1>2

LEMMA KeptByConfig ==
    ASSUME UnusableIsNoMapping, IsConfig(stored), NEW patch \in Patches,
           NEW merged, merged = Merged(stored, patch), Accepts(merged)
    PROVE  KeepsTheRest(patch, stored, FromHostInput(merged))
  <1>1. PICK new : new = FromHostInput(merged)
    OBVIOUS
  <1>2. /\ new.game = ReadSection(GameChecks, merged.game)
        /\ new.roles = [r \in Role |-> ReadSection(RoleChecks(r), merged.roles[r])]
        /\ new.demand = ReadDemand(merged.demand, Weeks(merged))
        /\ new.visibility = ReadSection(VisibilityChecks, Mapping(merged.visibility))
        /\ new.bot = ReadSection(BotChecks, Mapping(merged.bot))
    BY <1>1 DEF FromHostInput
  <1>3. /\ stored.game \in SectionValues(GameChecks)
        /\ stored.roles = [r \in Role |-> stored.roles[r]]
        /\ \A r \in Role : stored.roles[r] \in SectionValues(RoleChecks(r))
        /\ stored.visibility \in SectionValues(VisibilityChecks)
        /\ stored.bot \in SectionValues(BotChecks)
    BY DEF IsConfig
  <1>4. /\ merged.roles # Unusable
        /\ \A r \in Role : merged.roles[r] # Unusable
        /\ merged.demand # Unusable
    BY DEF Accepts, AllowedDemand
  <1>5. Weeks(merged) \in Int
    <2>1. IsConfig(new)
      BY <1>1, MergedSent, ConfigRead
    <2>2. Weeks(merged) = new.game.duration_weeks \div 2
      BY <1>2, GameRead
    <2>. QED BY <2>1, <2>2, ConfigParts
  <1>6. "game" \notin DOMAIN patch => new.game = stored.game
    BY <1>2, <1>3, MergedParts, GameChecked, SectionKept
  <1>7. "game" \in DOMAIN patch /\ patch.game # Unusable =>
            Keeps(patch.game, stored.game, new.game)
    <2>1. SUFFICES ASSUME "game" \in DOMAIN patch, patch.game # Unusable
                   PROVE  Keeps(patch.game, stored.game, new.game)
      OBVIOUS
    <2>2. merged.game = Updated(stored.game, patch.game)
      BY <2>1, MergedParts DEF Over
    <2>. QED BY <1>2, <1>3, <2>2, GameChecked, UnnamedKept
  <1>8. "visibility" \notin DOMAIN patch => new.visibility = stored.visibility
    BY <1>2, <1>3, MergedParts, VisibilityChecked, MappingKept
  <1>9. "visibility" \in DOMAIN patch /\ patch.visibility # Unusable =>
            Keeps(patch.visibility, stored.visibility, new.visibility)
    BY <1>2, <1>3, MergedParts, VisibilityChecked, MappingKept
  <1>10. "bot" \notin DOMAIN patch => new.bot = stored.bot
    BY <1>2, <1>3, MergedParts, BotChecked, MappingKept
  <1>11. "bot" \in DOMAIN patch /\ patch.bot # Unusable =>
            Keeps(patch.bot, stored.bot, new.bot)
    BY <1>2, <1>3, MergedParts, BotChecked, MappingKept
  <1>12. ASSUME NEW r \in Role, merged.roles[r] = stored.roles[r]
         PROVE  new.roles[r] = stored.roles[r]
    <2>1. ReadSection(RoleChecks(r), stored.roles[r]) = stored.roles[r]
      BY <1>3, RoleChecked, SectionKept
    <2>. QED BY <1>2, <1>12, <2>1
  <1>13. "roles" \notin DOMAIN patch => new.roles = stored.roles
    <2>1. SUFFICES ASSUME "roles" \notin DOMAIN patch PROVE new.roles = stored.roles
      OBVIOUS
    <2>2. merged.roles = stored.roles
      BY <2>1, MergedParts
    <2>3. \A r \in Role : new.roles[r] = stored.roles[r]
      BY <1>12, <2>2
    <2>4. new.roles = [r \in Role |-> new.roles[r]]
      BY <1>2
    <2>. QED BY <1>3, <2>3, <2>4
  <1>14. ASSUME "roles" \in DOMAIN patch
         PROVE  /\ Keeps(patch.roles, stored.roles, new.roles)
                /\ \A r \in DOMAIN patch.roles :
                      Keeps(patch.roles[r], stored.roles[r], new.roles[r])
    <2>1. merged.roles = MergedRoles(patch.roles, stored.roles) /\ patch.roles # Unusable
      BY <1>4, <1>14, MergedParts DEF MergedRoles
    <2>2. DOMAIN stored.roles = Role /\ DOMAIN patch.roles \subseteq Role
      BY <1>3, <1>14, <2>1, PatchesAssumption
    <2>3. \A r \in Role :
            merged.roles[r] = IF r \in DOMAIN patch.roles
                              THEN Over(patch.roles[r], stored.roles[r]) ELSE stored.roles[r]
      BY <2>1, <2>2 DEF MergedRoles
    <2>4. Keeps(patch.roles, stored.roles, new.roles)
      BY <1>12, <2>2, <2>3 DEF Keeps
    <2>5. ASSUME NEW r \in DOMAIN patch.roles
          PROVE  Keeps(patch.roles[r], stored.roles[r], new.roles[r])
      <3>1. r \in Role /\ merged.roles[r] = Over(patch.roles[r], stored.roles[r])
        BY <2>2, <2>3
      <3>2. merged.roles[r] = Updated(stored.roles[r], patch.roles[r])
        BY <1>4, <3>1 DEF Over
      <3>3. new.roles[r] = ReadSection(RoleChecks(r), merged.roles[r])
        BY <1>2, <3>1
      <3>. QED BY <1>3, <3>1, <3>2, <3>3, RoleChecked, UnnamedKept
    <2>. QED BY <2>4, <2>5
  <1>15. PICK weeks : weeks = stored.game.duration_weeks \div 2
    OBVIOUS
  <1>16. weeks \in Int /\ IsDemand(stored.demand, weeks)
    BY <1>15, ConfigParts
  <1>17. "demand" \notin DOMAIN patch => new.demand = stored.demand
    BY <1>2, <1>5, <1>16, MergedParts, DemandKept
  <1>18. ASSUME "demand" \in DOMAIN patch
         PROVE  KeepsDemand(patch.demand, stored.demand, new.demand)
    <2>1. merged.demand = MergedDemand(patch.demand, stored.demand)
      BY <1>18, MergedParts
    <2>2. patch.demand # Unusable
      BY <1>4, <2>1 DEF MergedDemand
    <2>3. CASE "kind" \in DOMAIN patch.demand /\ patch.demand.kind # stored.demand.kind
      BY <2>3 DEF KeepsDemand
    <2>4. CASE "kind" \in DOMAIN patch.demand => patch.demand.kind = stored.demand.kind
      <3>1. merged.demand = Updated(stored.demand, patch.demand)
        BY <2>1, <2>2, <2>4 DEF MergedDemand
      <3>. QED BY <1>2, <1>5, <1>16, <2>4, <3>1, DemandUnnamed
    <2>. QED BY <2>3, <2>4
  <1>19. Keeps(patch, stored, new)
    <2>1. DOMAIN stored = {"game", "roles", "demand", "visibility", "bot"}
      BY ConfigParts
    <2>. QED BY <1>6, <1>8, <1>10, <1>13, <1>17, <2>1 DEF Keeps
  <1>20. \A section \in {"game", "visibility", "bot"} \cap DOMAIN patch :
            patch[section] # Unusable => Keeps(patch[section], stored[section], new[section])
    BY <1>7, <1>9, <1>11
  <1>. QED BY <1>1, <1>14, <1>18, <1>19, <1>20 DEF KeepsTheRest

\* A patch that is accepted changes the fields it names and nothing else, over whatever
\* configuration the patches before it have left (config_merge.py).
THEOREM OnlyTheNamedChanges ==
    ASSUME UnusableIsNoMapping
    PROVE  Spec => []OnlyWhatWasNamed
  <1>1. IInv => OnlyWhatWasNamed
    <2>1. ASSUME IInv, NEW patch \in Patches, Accepts(Merged(stored, patch))
          PROVE  KeepsTheRest(patch, stored, FromHostInput(Merged(stored, patch)))
      BY <2>1, KeptByConfig DEF IInv
    <2>. QED BY <2>1 DEF OnlyWhatWasNamed
  <1>. QED BY <1>1, AlwaysConfig, PTL
===============================================================================
