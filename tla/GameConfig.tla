------------------------------ MODULE GameConfig ------------------------------
(***************************************************************************)
(* The configuration of a room before its game: a preset is stored, the    *)
(* host's patches are merged over it (services/config_merge.py) and the    *)
(* result is validated as a whole (core/config_models.py) before it        *)
(* replaces it; the start draws the customer demand from what is stored    *)
(* (core/demand.py).                                                       *)
(*                                                                         *)
(* Numbers are counted in halves, so that 3 is one and a half: a host may  *)
(* send a fraction where a whole number is meant.  Of the fields that are  *)
(* checked alike each section keeps one; texts, the mode, the preset's     *)
(* name, the phase and the distribution's parameters are left out.         *)
(***************************************************************************)
EXTENDS Integers, Sequences

CONSTANTS
    Role, Factory,    \* the roles, and the one that produces
    Limits,           \* core/limits.py: the ranges a host may use
    Default,          \* the models' declared defaults, one record per section
    Presets,          \* PRESETS
    Patches,          \* what hosts send (a bound)
    Draws,            \* seeds a start may draw (a bound)
    Drawn,            \* what the distribution gives in each week, by seed
    Sine,             \* the sine of each week of a period, by period length
    None, Unusable, NonFinite   \* null, a value that is no number, NaN or infinity

ASSUME RolesAssumption == Factory \in Role
ASSUME MarkersAssumption ==
    /\ {None, Unusable, NonFinite} \cap Int = {}
    /\ None \notin {Unusable, NonFinite} /\ Unusable # NonFinite
ASSUME LimitsAssumption ==
    /\ Limits \in [minWeeks : Nat, maxWeeks : Nat, minDelay : Nat, maxDelay : Nat,
                   maxInitial : Nat, maxOrder : Nat, maxValue : Nat, maxWeight : Nat,
                   maxSeed : Nat, minStepWeek : Nat, minPeriod : Nat, maxPeriod : Nat]
    /\ 0 < Limits.minPeriod
    /\ 0 < Limits.minWeeks /\ Limits.minWeeks <= Limits.maxWeeks
    /\ 0 < Limits.minDelay /\ Limits.minDelay <= Limits.maxDelay
    /\ 1 < Limits.minStepWeek /\ Limits.minStepWeek <= Limits.minWeeks

ASSUME DefaultAssumption ==
    Default \in
      [game : [duration_weeks : Int, bot_fill_empty_roles : Int],
       role : [initial_inventory : Int, shipping_delay_weeks : Int, holding_cost : Int,
               production_delay_weeks : Int],
       visibility : [show_all_inventories : Int],
       bot : [theta : Int],
       demand : [value : Int, initial_value : Int, step_week : Int, step_value : Int,
                 slope_per_week : Int, start_week : Int, base : Int, amplitude : Int,
                 period_weeks : Int, min : Int, max : Int]]

VARIABLES
    state,     \* "LOBBY", "CONFIGURING" or "RUNNING"
    stored,    \* room["config"]
    seed,      \* room["seed"]
    series     \* the engine's demand_series, <<>> before the start

vars == <<state, stored, seed, series>>

-------------------------------------------------------------------------------
(* One value.                                                                  *)

Whole(n) == 2 * n
IsWhole(h) == h % 2 = 0

\* int(): towards zero.
Truncated(h) == IF h >= 0 THEN h - (h % 2) ELSE -((-h) - ((-h) % 2))

\* _as_float and _as_int: a default for what is no number.
AsFloat(v, default) == IF v \in {None, Unusable} THEN default ELSE v
AsInt(v, default) == Truncated(AsFloat(v, default))

\* A field's check: how it is read, its range and its default.
IntIn(low, high, default) ==
    [as |-> "int", low |-> Whole(low), high |-> Whole(high), default |-> default]
FloatIn(low, high, default) ==
    [as |-> "float", low |-> Whole(low), high |-> Whole(high), default |-> default]
Cap(high) == [as |-> "cap", low |-> Whole(1), high |-> Whole(high), default |-> None]
Optional(low, high) ==
    [as |-> "optional", low |-> Whole(low), high |-> Whole(high), default |-> None]
Seed(high) ==
    [as |-> "seed", low |-> Whole(-high), high |-> Whole(high), default |-> None]
Flag(default) == [as |-> "flag", low |-> 0, high |-> Whole(1), default |-> default]

\* _optional_cap: nothing and zero both mean unlimited.
ReadCap(v) == IF AsInt(v, 0) = 0 THEN None ELSE AsInt(v, 0)

\* Mutant of ReadSeed: what is no number falls back to zero, a fixed seed.
ReadSeedOrZero(v) == AsInt(v, 0)

\* _optional_int.
ReadSeed(v) == IF v \in {None, Unusable} THEN None ELSE Truncated(v)

Read(check, v) ==
    CASE check.as = "int"      -> AsInt(v, check.default)
      [] check.as = "float"    -> AsFloat(v, check.default)
      [] check.as = "cap"      -> ReadCap(v)
      [] check.as = "seed"     -> ReadSeed(v)
      [] check.as = "optional" -> IF v = None THEN None ELSE AsInt(v, check.high)
      [] check.as = "flag"     -> IF AsFloat(v, check.default) = 0 THEN 0 ELSE Whole(1)

\* A number that was parsed is finite, and what was read lies in the range.
Allowed(check, v) ==
    /\ v = NonFinite => check.as = "flag"
    /\ LET number == Read(check, v)
       IN  number # None => check.low <= number /\ number <= check.high

-------------------------------------------------------------------------------
(* Sections: the checks of their fields.                                       *)

\* dict(base), updated: what deep_merge_dicts does at its last level.
Updated(base, patch) ==
    [name \in DOMAIN base \cup DOMAIN patch |->
        IF name \in DOMAIN patch THEN patch[name] ELSE base[name]]

Sent(fields, name, check) ==
    IF name \in DOMAIN fields THEN fields[name] ELSE check.default

ReadSection(checks, fields) ==
    [name \in DOMAIN checks |-> Read(checks[name], Sent(fields, name, checks[name]))]

AllowedSection(checks, fields) ==
    \A name \in DOMAIN checks :
        Allowed(checks[name], Sent(fields, name, checks[name]))

\* _mapping(...) or {}: a section that is no mapping holds nothing.
Mapping(section) == IF section = Unusable THEN <<>> ELSE section

GameChecks ==
    [duration_weeks |-> IntIn(Limits.minWeeks, Limits.maxWeeks, Default.game.duration_weeks),
     bot_fill_empty_roles |-> Flag(Default.game.bot_fill_empty_roles),
     random_seed |-> Seed(Limits.maxSeed)]

RoleChecks(r) ==
    LET Delay(default) == IntIn(Limits.minDelay, Limits.maxDelay, default)
        common ==
          [initial_inventory |-> IntIn(0, Limits.maxInitial, Default.role.initial_inventory),
           shipping_delay_weeks |-> Delay(Default.role.shipping_delay_weeks),
           holding_cost |-> FloatIn(0, Limits.maxValue, Default.role.holding_cost)]
    IN  IF r # Factory THEN common
        ELSE Updated(common,
          [production_delay_weeks |-> Delay(Default.role.production_delay_weeks),
           production_capacity_per_week |-> Cap(Limits.maxOrder)])

VisibilityChecks ==
    [show_all_inventories |-> Flag(Default.visibility.show_all_inventories),
     max_order_quantity |-> Cap(Limits.maxOrder)]

BotChecks == [theta |-> FloatIn(0, Limits.maxWeight, Default.bot.theta)]

\* Mutant of StepWeek: the week is held to the longest game, not to this one.
StepWeekInAnyGame(duration) ==
    IntIn(Limits.minStepWeek, Limits.maxWeeks, Default.demand.step_week)

StepWeek(duration) == IntIn(Limits.minStepWeek, duration, Default.demand.step_week)

\* duration: the game's length, in weeks.
DemandChecks(kind, duration) ==
    LET d == Default.demand
        Quantity(default) == IntIn(0, Limits.maxOrder, default)
    IN  CASE kind = "CONSTANT" -> [value |-> Quantity(d.value)]
          [] kind = "STEP" ->
               [initial_value |-> Quantity(d.initial_value),
                step_week |-> StepWeek(duration),
                step_value |-> Quantity(d.step_value)]
          [] kind = "RAMP" ->
               [initial_value |-> Quantity(d.initial_value),
                slope_per_week |-> FloatIn(-Limits.maxOrder, Limits.maxOrder, d.slope_per_week),
                start_week |-> IntIn(1, duration, d.start_week),
                cap |-> Optional(0, Limits.maxOrder)]
          [] kind = "SEASONAL" ->
               [base |-> Quantity(d.base), amplitude |-> Quantity(d.amplitude),
                period_weeks |-> IntIn(Limits.minPeriod, Limits.maxPeriod, d.period_weeks)]
          [] kind = "STOCHASTIC" ->
               [min |-> Quantity(d.min), max |-> Quantity(d.max)]

Kinds == {"CONSTANT", "STEP", "RAMP", "SEASONAL", "STOCHASTIC"}

-------------------------------------------------------------------------------
(* A whole configuration: its game, roles, demand, visibility and bot sections. *)

Weeks(raw) ==
    Read(GameChecks.duration_weeks,
         Sent(raw.game, "duration_weeks", GameChecks.duration_weeks)) \div 2

\* A CUSTOM entry is refused by what was sent, before it is truncated.
AllowedValues(values, duration) ==
    /\ values # Unusable
    /\ \A i \in DOMAIN values :
          /\ values[i] \notin {None, Unusable, NonFinite}
          /\ 0 <= values[i] /\ values[i] <= Whole(Limits.maxOrder)
    /\ Len(values) >= duration

AllowedDemand(demand, duration) ==
    /\ demand # Unusable
    /\ IF demand.kind = "CUSTOM"
       THEN AllowedValues(IF "values" \in DOMAIN demand THEN demand.values ELSE Unusable,
                          duration)
       ELSE demand.kind \in Kinds /\ AllowedSection(DemandChecks(demand.kind, duration), demand)

\* "An inverted range makes random.randint(min, max) raise".
InOrder(d) ==
    IF d.kind = "STOCHASTIC" /\ d.min > d.max
    THEN [d EXCEPT !.min = d.max, !.max = d.min] ELSE d

ReadDemand(demand, duration) ==
    IF demand.kind = "CUSTOM"
    THEN [kind |-> "CUSTOM",
          values |-> [i \in DOMAIN demand.values |-> Truncated(demand.values[i])]]
    ELSE InOrder(Updated([kind |-> demand.kind],
                         ReadSection(DemandChecks(demand.kind, duration), demand)))

Accepts(raw) ==
    /\ AllowedSection(GameChecks, raw.game)
    /\ raw.roles # Unusable
    /\ \A r \in Role :
          /\ r \in DOMAIN raw.roles
          /\ raw.roles[r] # Unusable
          /\ AllowedSection(RoleChecks(r), raw.roles[r])
    /\ AllowedDemand(raw.demand, Weeks(raw))
    /\ AllowedSection(VisibilityChecks, Mapping(raw.visibility))
    /\ AllowedSection(BotChecks, Mapping(raw.bot))

FromHostInput(raw) ==
    [game |-> ReadSection(GameChecks, raw.game),
     roles |-> [r \in Role |-> ReadSection(RoleChecks(r), raw.roles[r])],
     demand |-> ReadDemand(raw.demand, Weeks(raw)),
     visibility |-> ReadSection(VisibilityChecks, Mapping(raw.visibility)),
     bot |-> ReadSection(BotChecks, Mapping(raw.bot))]

-------------------------------------------------------------------------------
(* What a configuration holds once it has been read, and what hosts send.      *)

FieldValues(check) ==
    {n \in check.low..check.high : check.as # "float" => IsWhole(n)}
      \cup (IF check.default = None THEN {None} ELSE {})

SectionValues(checks) ==
    {fields \in [DOMAIN checks -> Int \cup {None}] :
        \A name \in DOMAIN checks : fields[name] \in FieldValues(checks[name])}

IsCustom(demand, duration) ==
    /\ demand = [kind |-> "CUSTOM", values |-> demand.values]
    /\ demand.values \in Seq({n \in 0..Whole(Limits.maxOrder) : IsWhole(n)})
    /\ Len(demand.values) >= duration

IsDemand(demand, duration) ==
    IF demand.kind = "CUSTOM" THEN IsCustom(demand, duration)
    ELSE LET checks == DemandChecks(demand.kind, duration)
         IN  /\ demand.kind \in Kinds
             /\ demand = [name \in {"kind"} \cup DOMAIN checks |-> demand[name]]
             /\ \A name \in DOMAIN checks : demand[name] \in FieldValues(checks[name])
             /\ demand.kind = "STOCHASTIC" => demand.min <= demand.max

IsConfig(config) ==
    /\ config = [game |-> config.game, roles |-> config.roles, demand |-> config.demand,
                 visibility |-> config.visibility, bot |-> config.bot]
    /\ config.game \in SectionValues(GameChecks)
    /\ config.roles = [r \in Role |-> config.roles[r]]
    /\ \A r \in Role : config.roles[r] \in SectionValues(RoleChecks(r))
    /\ IsDemand(config.demand, config.game.duration_weeks \div 2)
    /\ config.visibility \in SectionValues(VisibilityChecks)
    /\ config.bot \in SectionValues(BotChecks)

\* presets.py: "a preset its own validator would alter is a bug".
ASSUME PresetsAssumption == \A preset \in Presets : IsConfig(preset)

Value == Int \cup {None, Unusable, NonFinite}

IsSection(fields) == \A name \in DOMAIN fields : fields[name] \in Value

IsDemandSection(fields) ==
    /\ \A name \in DOMAIN fields \ {"kind", "values"} : fields[name] \in Value
    /\ "values" \in DOMAIN fields => fields.values = Unusable \/ fields.values \in Seq(Value)

\* Any mapping of the sections; within a section any mapping, or none.
ASSUME PatchesAssumption ==
    \A patch \in Patches :
        /\ DOMAIN patch \subseteq {"game", "roles", "demand", "visibility", "bot"}
        /\ "game" \in DOMAIN patch => IsSection(patch.game)
        /\ "roles" \in DOMAIN patch /\ patch.roles # Unusable =>
              /\ DOMAIN patch.roles \subseteq Role
              /\ \A r \in DOMAIN patch.roles :
                    patch.roles[r] # Unusable => IsSection(patch.roles[r])
        /\ "demand" \in DOMAIN patch /\ patch.demand # Unusable => IsDemandSection(patch.demand)
        /\ \A section \in {"visibility", "bot"} \cap DOMAIN patch :
              patch[section] # Unusable => IsSection(patch[section])

-------------------------------------------------------------------------------
(* merge_config_patch.                                                         *)

\* A dict over a dict is merged, anything else replaces.
Over(patch, section) == IF patch = Unusable THEN patch ELSE Updated(section, patch)

\* Mutant of MergedRoles: one level deep, a named role replaces the stored one.
MergedRolesWhole(patch, roles) == Over(patch, roles)

MergedRoles(patch, roles) ==
    IF patch = Unusable THEN patch
    ELSE [r \in DOMAIN roles |->
            IF r \in DOMAIN patch THEN Over(patch[r], roles[r]) ELSE roles[r]]

\* A new kind replaces the demand: the old kind's parameters mean nothing to it.
MergedDemand(patch, demand) ==
    IF patch # Unusable /\ ("kind" \in DOMAIN patch => patch.kind = demand.kind)
    THEN Updated(demand, patch) ELSE patch

Merged(config, patch) ==
    [section \in DOMAIN config |->
        IF section \notin DOMAIN patch THEN config[section]
        ELSE CASE section = "roles"  -> MergedRoles(patch.roles, config.roles)
               [] section = "demand" -> MergedDemand(patch.demand, config.demand)
               [] OTHER              -> Over(patch[section], config[section])]

-------------------------------------------------------------------------------
(* generate_demand_series, in whole units.                                     *)

RoundHalfUp(h) == (h + 1) \div 2
AtLeastZero(n) == IF n < 0 THEN 0 ELSE n
AtMost(n, cap) == IF cap # None /\ n > cap \div 2 THEN cap \div 2 ELSE n

StepDemand(d, w) == IF w < d.step_week \div 2 THEN d.initial_value \div 2 ELSE d.step_value \div 2

\* The first ramped week already carries one step of the slope.
RampDemand(d, w) ==
    LET steps == AtLeastZero(w - d.start_week \div 2 + 1)
    IN  AtLeastZero(AtMost(RoundHalfUp(d.initial_value + d.slope_per_week * steps), d.cap))

\* What the distribution and the sine are asked for are numbers.
ASSUME DrawsAssumption ==
    /\ Draws \subseteq Int
    /\ \A s \in Draws \cup FieldValues(Seed(Limits.maxSeed)), w \in 1..Limits.maxWeeks :
          s # None => Drawn[s][w] \in Int
    /\ \A period \in Limits.minPeriod..Limits.maxPeriod :
          \A k \in 0..(period - 1) : Sine[period][k] \in Int

SeasonalDemand(d, w) ==
    LET period == d.period_weeks \div 2
        swing == (d.amplitude \div 2) * Sine[period][(w - 1) % period]
    IN  AtLeastZero(RoundHalfUp(d.base + swing))

StochasticDemand(d, w, s) ==
    LET low == d.min \div 2
    IN  IF Drawn[s][w] < low THEN low ELSE AtMost(Drawn[s][w], d.max)

DemandIn(d, w, s) ==
    CASE d.kind = "CONSTANT"   -> d.value \div 2
      [] d.kind = "STEP"       -> StepDemand(d, w)
      [] d.kind = "RAMP"       -> RampDemand(d, w)
      [] d.kind = "SEASONAL"   -> SeasonalDemand(d, w)
      [] d.kind = "STOCHASTIC" -> StochasticDemand(d, w, s)
      [] d.kind = "CUSTOM"     -> d.values[w] \div 2

\* The whole series, once: one value for each week of the game.
Series(config, s) ==
    [w \in 1..(config.game.duration_weeks \div 2) |-> DemandIn(config.demand, w, s)]

\* preview_config: EXAMPLE_SEED is 0.
Preview(config) ==
    Series(config, IF config.game.random_seed = None THEN 0 ELSE config.game.random_seed)

IsExample(config) == config.game.random_seed = None /\ config.demand.kind = "STOCHASTIC"

-------------------------------------------------------------------------------
(* The room.                                                                   *)

Init ==
    /\ state = "LOBBY"
    /\ stored \in Presets
    /\ seed = None
    /\ series = <<>>

\* PUT /rooms/{code}/config and the socket's config_update.
UpdateConfig(patch) ==
    /\ state \in {"LOBBY", "CONFIGURING"}
    /\ Accepts(Merged(stored, patch))
    /\ stored' = FromHostInput(Merged(stored, patch))
    /\ state' = "CONFIGURING"
    /\ UNCHANGED <<seed, series>>

SeedsFor(config) ==
    IF config.game.random_seed # None THEN {config.game.random_seed} ELSE Draws

\* start_game, for a room whose seats allow it (Lobby), and GameEngine.start.
StartGame ==
    /\ state \in {"LOBBY", "CONFIGURING"}
    /\ seed' \in SeedsFor(stored)
    /\ series' = Series(stored, seed')
    /\ state' = "RUNNING"
    /\ UNCHANGED stored

Next == (\E patch \in Patches : UpdateConfig(patch)) \/ StartGame

Spec == Init /\ [][Next]_vars

-------------------------------------------------------------------------------
(* Properties.                                                                 *)

IsPositive(h) == IsWhole(h) /\ h >= Whole(1)
IsCount(h) == IsWhole(h) /\ h >= 0

\* The configuration alone: what GameEngine's assumptions say of its constants.
Playable(config) ==
    /\ IsPositive(config.game.duration_weeks)
    /\ \A r \in Role :
          /\ IsCount(config.roles[r].initial_inventory)
          /\ IsPositive(config.roles[r].shipping_delay_weeks)
          /\ config.roles[r].holding_cost >= 0
    /\ IsPositive(config.roles[Factory].production_delay_weeks)
    /\ config.roles[Factory].production_capacity_per_week # None =>
          IsPositive(config.roles[Factory].production_capacity_per_week)
    /\ config.visibility.max_order_quantity # None =>
          IsPositive(config.visibility.max_order_quantity)

\* The demand that was asked for is the demand that is played: a STEP shows both
\* its levels, a CUSTOM series is not padded, a draw keeps to its range, and unless
\* the seed was yet to be drawn it is what the host was shown (preview.py).
PlaysTheDemand(config) ==
    LET d == config.demand
        weeks == DOMAIN series
    IN  /\ ~IsExample(config) => series = Preview(config)
        /\ CASE d.kind = "STEP" -> \E w \in weeks : w > 1 /\ w = d.step_week \div 2
             [] d.kind = "STOCHASTIC" ->
                  \A w \in weeks : d.min <= Whole(series[w]) /\ Whole(series[w]) <= d.max
             [] d.kind = "CUSTOM" -> \A w \in weeks : Whole(series[w]) = d.values[w]
             [] OTHER -> TRUE

\* Whatever hosts send and in whatever order, a game that starts is one the engine
\* can play to its end: whole delays of a week or more, no cap of zero, and a
\* demand for each of its weeks (config_models.py from_host_input, _checked_demand,
\* demand.py "Every value is an int >= 0").
EngineIsFed ==
    /\ Playable(stored)
    /\ state = "RUNNING" =>
          /\ Whole(Len(series)) = stored.game.duration_weeks
          /\ \A w \in DOMAIN series : series[w] \in Nat
          /\ PlaysTheDemand(stored)

\* A host who opens the form and saves it as it stands changes nothing: what is
\* stored passes its own validator unaltered (presets.py, "a preset its own
\* validator would alter is a bug", and every merge validates the stored part again).
SavedAgainIsTheSame == Accepts(stored) /\ FromHostInput(stored) = stored

\* The fields a patch does not name.
Keeps(patch, old, new) ==
    \A name \in DOMAIN old : name \notin DOMAIN patch => new[name] = old[name]

KeepsDemand(patch, old, new) ==
    \/ "kind" \in DOMAIN patch /\ patch.kind # old.kind
    \/ Keeps(patch, old, new)
    \/ old.kind = "STOCHASTIC" /\ {new.min, new.max} \cap {old.min, old.max} # {}

KeepsTheRest(patch, old, new) ==
    /\ Keeps(patch, old, new)
    /\ \A section \in {"game", "visibility", "bot"} \cap DOMAIN patch :
          patch[section] # Unusable => Keeps(patch[section], old[section], new[section])
    /\ "roles" \in DOMAIN patch =>
          /\ Keeps(patch.roles, old.roles, new.roles)
          /\ \A r \in DOMAIN patch.roles : Keeps(patch.roles[r], old.roles[r], new.roles[r])
    /\ "demand" \in DOMAIN patch => KeepsDemand(patch.demand, old.demand, new.demand)

\* A patch that is accepted changes what it names and nothing else: not the other
\* fields of a role it names one field of, nor another section (config_merge.py,
\* "keeps PUT ... from clobbering the other three roles"), and the other demand
\* fields only with the demand's kind.
OnlyWhatWasNamed ==
    \A patch \in Patches :
        LET merged == Merged(stored, patch)
        IN  Accepts(merged) => KeepsTheRest(patch, stored, FromHostInput(merged))
===============================================================================
