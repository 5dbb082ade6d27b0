# TLA+ model of the Beer Game backend

The backend runs multiplayer Beer Games: four roles in a chain (retailer, wholesaler, distributor,
factory) place one order a week; players and a host talk to it over Socket.IO; a room is one JSON
document behind a lock per room; a finished game is written to MySQL, from which statistics and
match histories are made. These modules model that program from its source under `app/`, TLC checks
them on small instances, and TLAPS proves the main theorems for every instance.

## Inventory

| Component | State | Operations | Talks to |
|---|---|---|---|
| Engine (`core/game_engine.py`, `agents.py`, `pipeline.py`) | week, phase, agents with pipelines and costs, pending orders and who placed them, settlements, history | `start`, `submit_order`, `close_week(force)`, `end_early`, `set_bot` | called by the play loop on the copy it loaded from the document |
| Play loop (`services/game_service.py`, `sockets/handlers/play.py`) | the started room document; `_submission_counts` in the process; the continuation of each call | `submit_order`, `pause_game`, `resume_game`, `force_close_week`, `substitute_bot`, `reclaim_seat`, `end_game_early`, `request_state`, the disconnect cleanup, the bot cascade, `finish_game` | engine, bots, room store, persistence |
| Lobby (`sockets/handlers/lobby.py`, `connection.py`, `services/room_service.py`) | participants, `sid_to_alias`, `role_to_alias`, host, mode, each connection | `join_waiting`, `join`, `leave`, `config_update`, `set_role_mode`, `assign_role`, `claim_role`, `release_role`, `start_game`, connect, disconnect | room store; `start_game` hands over to the play loop |
| Room store (`services/state_service.py`, `state_backend.py`) | documents with a TTL, one lock per room (a lease on Redis, an `asyncio.Lock` in memory) | get, save, lock, create | every handler |
| Event stream (`next_seq`, `sockets/manager.py`) | `seq` of the document; the client's last applied number | allocate under the lock, emit after it, `request_state` | every handler; the client |
| Results (`services/db_service.py`, `stats_service.py`, `claim_service.py`, `user_service.py`, `api/v1/user_games.py`, `users.py`) | participants, users, `user_stats` tables | persist, recompute, claim, upsert | called by `finish_game` on the event loop, by the REST routes (`POST /games/claim` among them) in worker threads |
| Configuration (`core/config_models.py`, `limits.py`, `presets.py`, `preview.py`, `services/config_merge.py`, `core/demand.py`) | the stored configuration, the seed, the demand series | create with a preset, merge a patch and validate the whole, preview, draw the series | lobby and the REST route, engine |
| Formulas (`core/bot.py`, `stats.py`) | none (a bot keeps a forecast) | decide, variances and ratios | engine, play loop |
| Shell (the other REST routes, export, authentication, settings, health, migrations) | none of their own | | |

What is hard in it:

* **Gaps between lock sections.** A handler reads, changes and saves the document under the lock, and
  continues without it: a submission closes the week in a second section, which plays the bots in a
  third, and so on. Any other call may run in each gap (a pause, a disconnect, a swap, a second
  close, the end of the game).
* **A save without the lock.** `finish_game` carries the document across an emit and a database write
  and saves that copy.
* **Restarts.** The document survives in Redis; continuations and counters do not.
* **Connections.** One person has several; the cleanup of a lost one runs late, after a newer one
  has joined, or early, before the connection's own first call was served, and a seat is written in two
  places of the document.
* **The lock is a lease.** On Redis it runs out if its holder dies, a document expires a day after its last
  save, and a room is created without the lock, by a check and a save. Without Redis (the default,
  `REDIS_ENABLED=false`) documents and locks are in the process and die with it; then `MaxCrashes = 0`.
* **Events out of order.** Numbers are taken under the lock and events emitted after it, one at a time; a
  client drops what is not above its last number.
* **Partial configurations.** A patch is laid over what is stored, field by field for some sections and whole
  for others, and fields constrain one another; what passed once must still pass when another field changes.
* **Week mechanics.** Two pipelines per role, phases in one call, a capacity queue, a week that is
  charged when it opens and may be abandoned.
* **Database sessions.** Reads under REPEATABLE READ are snapshots; a recompute reads in one
  transaction and replaces the total in another, on the event loop for a finished game and in a worker
  thread for a claim.

What makes each part correct is the list of properties below. Every place where the code is exposed
is a hazard of `PROJECT.json`, with the properties that would catch it.

## Modules

**`WeekMachine`** is the abstract specification: what a game promises about its weeks. Weeks are
played one at a time and in order, each closes once, orders taken for the open week are in that week
when it closes, closed weeks never change, a game that is over stays over. Two modules implement it,
each through its own refinement mapping (`Promise == INSTANCE WeekMachine WITH ...`).

**`GameEngine`** is the engine in detail, one action per operation: `SubmitOrder`, `CloseWeek(force)`
(Phase C, the records, then Phase A of the next week or the end), `EndEarly`, `SetBot`. A settlement
is a function of stock, backlog, arrivals and orders (`Settle`); pass 1 pops every front, so
`Settlements` reads fronts only and `AfterPhaseA` pushes shipments at the back. Money is an integer
number of the smallest unit (the code's floats are sums of such amounts in every preset). `phase` has
no AWAITING_START, because `start()` leaves it before it returns. Opening values that a record repeats
are left out. `from_payload` derives the pipeline samples again instead of storing them; `Sampled`
takes them from where the derivation would read, and `SampledInTransit` says that this is right.

**`PlayLoop`** is the started room under concurrent calls. The engine appears by what the loop reads and
changes of it. A lock section is one action; a call's continuation is a task with a program counter:

| pc | section | source |
|---|---|---|
| `broadcast` | `broadcast_state` (takes event numbers only) | `resume_game` |
| `drive` | `_play_bot_round` | `_drive` |
| `driveClose` | `_try_close_week` inside `_drive` | `_drive` |
| `close`, `force` | `_try_close_week` inside `close_week_if_ready` | `submit_order`, `resume_play`, `force_close_week` |
| `finish` | `persist_finished_game`, which may fail | `finish_game` |
| `save` | `save_room` of the carried copy, no lock, no re-read | `finish_game` |

`thenClose` remembers that `resume_play` closes after its drive. `Crash` drops tasks and counters and
keeps the document. Guards that only answer with an error (wrong secret, malformed order, a stale
week) leave the document alone and are stutters. A player's `connected` stands for both the flag and
the mapped connection, which `Lobby` shows to be the same thing.

**`Lobby`** is the room before the start, with the connections. All handlers are single sections, so each
is one action. What interleaves is calls of several connections, and the cleanup of a lost one, which has two
steps: `Lose` looks for the connection's room in the process's bookkeeping, without the lock
(`play.py:539-544`), and is over when there is none; `Disconnect` is the section of one that found it. A call
that waits for the lock may be served before, between or after them, and no handler asks whether its connection
is still there. `socket` says how far a connection is:

| `socket` | the connection | its cleanup |
|---|---|---|
| `new` | open, in no room yet | |
| `in` | open, in the room (`join_room`, `enter_room`) | |
| `lost` | gone | found the room, waits for the lock |
| `late` | gone; calls it had made may still be served | over |
| `ghost` | gone; one of those calls was served and entered it | over |

`join` reads the connection's identity before the lock, `join_waiting` inside (`KnownIdentity`, which the end of
the cleanup drops). A session token is honoured only for the identity it was minted for, so `KnownAs` looks at
identities alone. The deal of RANDOM and the bots of empty seats are part of `StartGame`; nothing is saved when
it is refused. `"STARTED"` stands for every later state of the room, whose changes are `PlayLoop`'s.

**`Results`** is what happens to a finished game. `finish_game` persists it and recomputes everybody's totals
on the event loop, synchronously, so two of these overlap only in two processes; the claim and the sign-in are
plain `def` routes, which run in worker threads beside the loop. `Loop` and `Worker` are the sessions each may
open. One action is what one database session does at one moment: a transaction's writes at its commit, its
plain reads at the first of them. `PersistGame` is one
transaction (nothing when the game is there: the lookup and the unique key of `(room_code,
started_at)` give the same result for the two racing callers). `Collect`, `ReadPlayed` and `WriteStats`
are the recompute of everybody in the game, one transaction per user, the first in the snapshot opened
by reading the public id; `Claim`, `ClaimUpsert` and `Attribute` are the claim; `UpsertUser` a sign-in.
A total is the set of rows it was made of, so nothing depends on the arithmetic. `own` in a session is
auxiliary: the table as that session's own commit left it.

**`RoomDocument`** is the second abstract specification: what the room store promises to the handlers. A
room is opened under a code nobody uses and is there until it lapses. Until its game ends, every change is made
to what the change before it left (`Change`, `End`). The end leaves a copy that `finish_game` puts back later,
once (`PutBack`): the changes since the end are lost and no others. One section that had read the room just
before may in turn save over it (`Undo`). `owed` holds the copies that may still come back.

**`RoomStore`** implements it with documents, leases and calls that do one access per action: `Lock`,
`GetRoom` (and `Discard`, its delete of a document another release wrote), `SaveRoom`, `Refuse` and
`Unlock` for a handler; `SaveEnded` for the section that ends the game, after which the same call still owes
`SaveCarried`, `finish_game`'s save of the copy it was handed, without the lock or another read;
`Peek` and `DiscardPeeked` for a reader without the lock; `Draw`, `ClearDrawn` and `CreateRoom` for `create_room`; `Tick`, `Expire` and `Crash` for time and failure. A document is known by
the creation it comes from, the number of its changes, the change that ended its game and whether it goes back
to the carried copy. The refinement mapping shows a document only
when it is of this release. `lock` and Redis' own release are external: from the source come what is locked
and the timeout it is given.

**`RoomEvents`** is what a started room tells its clients. A section's document changes are kept to what
the clients see (state, week, who has decided, who is connected); for every section, which events it
numbers, from which document, in which order they go out, and what the call does when they are out.
`submit` allocates three events and emits them in another order (`SubmitOrder`); `submit` for a stale week
emits inside its section (`SubmitStale`); `finish_game` numbers from its own copy and saves it
(`FinishGame`, `SaveFinished`). The client is external: `Received` is the rule `request_state` and
`join_waiting` state, and `Shown` what each event means to a screen. `dropped`, `asked` and `lastOrders`
are auxiliary. `PlayBots`, `AfterClose` and `AfterDrive` are the cascade of `_drive` (a round, a close, the next
round), `SubstituteBot` and `ReclaimSeat` the swap of a seat and its return; a seat a bot filled from the start
is not kept apart from one that was swapped. What a bot remembers is in `PlayLoop`.

**`GameConfig`** is the configuration before the game. `UpdateConfig` is the merge and the validation that
both the REST route and `config_update` run; `StartGame` draws the series. Values are numbers in halves
(so that truncation can be seen), null, no number, or NaN and infinity; a `check` says how a field is read
(`_bounded_int`, `_bounded_float`, `_optional_cap`, `_optional_int`, `_as_bool`), its range and its
default. Of the fields a section reads alike, one is kept. The random draws and the sine are inputs. `Updated` is
`dict(base)` updated with a patch. `IsConfig` says what a configuration holds once it was read; the presets are
assumed to be such configurations (`PresetsAssumption`, which their tests demand), and of patches only that their
sections are mappings or none (`PatchesAssumption`).

**`GameEngineProofs`**, **`PlayLoopProofs`**, **`LobbyProofs`**, **`ResultsProofs`**, **`RoomStoreProofs`**,
**`RoomEventsProofs`** and **`GameConfigProofs`** hold the theorems about the modules they are named after,
**`RoomEventsInStep`** more about `RoomEvents`. The `MC*` modules give the constants values.

How they fit together: `RoomStore` shows that a lock section is atomic until the game ends, and that afterwards
only `finish_game`'s save breaks into it, once. `Lobby` (before the end), `PlayLoop` and `RoomEvents` take a section
as one action on this ground; the latter two have the save as an action of its own. (A section that read just
before the save and saves just after it, `Undo`, is in `RoomStore` only: it leaves the document as if the save had
not come.) A connection that is gone and was mapped by a late call is in `PlayLoop` and
`RoomEvents` a player who joined and whose cleanup never comes, which nothing there excludes;
`Lobby` hands a full table to `PlayLoop`, and `GameConfig` a playable configuration to
`GameEngine` (its `Playable` is what the engine's assumptions say of its constants); `PlayLoop` and
`GameEngine` implement the same `WeekMachine`; `Results` starts from a game that was handed over once or
several times.

Definitions called "Mutant of X" stand next to X: a plausible mistake in the code X translates. Nothing
refers to them; they show that each property can fail.

## Runs

| Run | Bounds | Asks |
|---|---|---|
| `game_engine` | 3 weeks; delays 1 and 2; capacity 3 against orders of 5; demand 1, 6, 1; the retailer orders 0 or 4, the others one size each; one seat swaps | conservation, timing, costs, records, weeks |
| `play_loop` | a player's seat and a bot's, 2 tasks, 3 weeks, 2 submissions, 1 force, 1 restart, pause on disconnect | seats, bots, attribution, forces, freezing, weeks |
| `play_loop_live` | the same seats, 2 weeks, no restart, no pause on disconnect | complete weeks close, due bots play, finished games persist |
| `play_loop_stale` | 2 weeks | a statement of the code's comments that it does not keep |
| `lobby` | 2 seats, 3 people, 4 connections (two of one person, who has the secret), 2 of them gone at a time | seats, people, connections, the start |
| `lobby_ghost` | the same | a statement of a docstring |
| `results` | 2 games of one seat and a host, 2 accounts, 1 guest, 2 sessions, each game handed over twice, failing recomputes | rows, owners, totals |
| `results_drift` | the same, each game once, no failures; one session of the event loop, one of a worker | a statement of a docstring |
| `room_store` | 3 calls, 2 codes, sections of 1 under a lease of 2, 2 attempts, 2 rooms, 2 changes, 1 crash; every code may hold an old document | no lost change before the end, no lost room, no lock held for ever |
| `room_events` | 2 players and the host, 2 weeks, 2 calls at once, 3 calls or losses, each person connects once more | every screen in step |
| `room_events_paused` | the same | a statement of a comment |
| `configuration` | 2 roles, games of 2 to 4 weeks, 2 presets, 48 patches in any order | a playable configuration, changed only where named |

Why the bounds are enough. *Engine*: an order and a shipment with a delay of two placed in week 1 come
out in week 3, the demand step makes a backlog that clears and one that does not, the capacity leaves a
queue that the next batch takes from, and every week may be forced, closed with any subset of orders, or
abandoned. The chain has all four roles. *Play loop*: the code treats seats one by one and alike except
for who plays them, and two seats have every combination; every pair of sections of two continuations
interleaves; three weeks have a first, a middle and a last. A third task would only add a third
continuation with the same program counters, and the theorems hold for any number of tasks, seats and
weeks. *Lobby*: two seats fill up with a third person outside; two connections replace one another, and one that is
gone may be mapped late beside, before or after the other; aliases are reused after a leave and by bots. Two
connections may be gone at a time (one mapped late while the other's cleanup waits, say) beside two that are not;
the theorems hold for any number. *Results*: every pair of sessions overlaps, a game is
handed over before and after a claim, each person hosts one game and plays another.

*Room store*: one call holds a section, a second waits for it or takes over after its lease, and a third
reads or creates beside them; the second code is for the creation that finds the first one taken. Two changes
are an end and the one section that `finish_game`'s save can undo or be undone by.
*Room events*: two calls are enough for two events in the wrong order; the room starts at the opening of
either week, so the last call may be the one that closes the last week, after a pause and a reconnect.
*Configuration*: each patch holds a value at, inside and outside its range, a fraction, and no number at
all; all sequences of patches are explored until nothing new is stored. Every kind of demand is reached, and
the length changes under each of them.

`play_loop` and `results` use symmetry between tasks and between sessions, which nothing names, and `lobby` between
the two people without the secret, each with their connection. Their properties are invariants and step
properties. The other runs have no symmetry. Deadlock is checked in every
run but those of `RoomEvents` and `GameConfig`, which stop when the calls are used up and when the game has
started. Bounds that are not in the code: `Task`, `MaxForces`, `MaxCrashes` (PlayLoop), `Sid` and `MaxAway` (Lobby; a
connection that is gone may come back as a new one), `Session`, `MaxPersists` (Results), `Call`,
`MaxRooms`, `MaxChanges`, `MaxCrashes` (RoomStore), `Task`, `MaxCalls`, `MaxJoins` (RoomEvents), `Patches`
and `Draws` (GameConfig).

Fairness. `FairSpec` of `PlayLoop` has weak fairness on each task's next section: asyncio runs every
task that can run, the lock is held for the length of a section, and a waiting section is queued. Nothing
is assumed of players, of the host, or of connections. Restarts are excluded there (`MaxCrashes = 0`):
after a restart nothing runs a lost continuation again, so a complete week waits for the host
(`ResumeGame`, `ForceCloseWeek`) and a finished game that was not persisted stays so. In the code a
persistence that raises is logged and not retried; `FinishedGamePersists` therefore says "handed to
persistence", and `FinishedOnce` "at most once".

`FairSpec` of `RoomStore` has weak fairness on `Tick` (time passes, Redis counts) and on the steps of each
live call. Nothing obliges anybody to begin one. `Tick` waits for a section that has used up its
`SectionTime`: that is the docstring's "no operation inside a lock may take seconds", as an assumption.

### What the passing runs show

*Engine*: `NothingLost` (units and orders are conserved across the chain), `OnTime` (each order and
shipment is delivered exactly its delay later), `StockOrBacklog`, `RunningCosts` and `RecordedCosts` (live
totals, weekly costs and cumulative costs agree, also after an early end), `SampledInTransit` (what a
record shows in transit is what the following weeks deliver), `PlayedWeeksAreFinal`,
`ImplementsWeekMachine`.

*Play loop*: `FlagsAgree` (who plays a seat, written in three places, and whether the game is over, in
two; also in the copy a stale save brings back), `Attribution`, `OneWeekPerForce` (a force that meets the
wrong week still costs one week at most), `BotMemory` (a bot sees each week once, in order),
`FrozenUnlessRunning`, `FinishedOnce`, `ImplementsWeekMachine`; and, under fairness,
`CompleteWeekCloses`, `DueBotPlays`, `FinishedGamePersists`.

*Lobby*: `SeatsAgree` (a seat is written in two places), `OnePlacePerPerson`, `EverybodySeated` (a game
starts with a full table), `ConnectionsAgree` (a player is shown connected exactly while one connection is
mapped, and a connection that was cleaned up is nobody's and not the host's unless a call of its own was served
after its cleanup).

*Results*: `RowsIdentified`, `OneRowPerPlace`, `ClaimedOnce`, `OwnWorkCounted`.

*Room store*: `ImplementsRoomDocument` (until a game ends no update is lost; afterwards `finish_game`'s save, once,
and the one section it overlaps lose only what came after the end; no room is lost or replaced), `LockFreed` (a lock is
free again whatever happened to its holder).

*Room events*: `NeverBackwards` (no order of events takes a screen back to an earlier moment), `InStep`
(when everything is out, a connection that dropped nothing shows the game as it is, also after its seat was
swapped and taken back, and the host's shows whose seats are swapped; of the end of the game a swapped player
is told only that it has come: `state_refresh_events` leaves the seat out), `AskedIsCurrent` (one
that dropped events is current again after it asked). While a week closes, an event that is overtaken is
lost for good unless the client asks: `InStep` says nothing of connections that dropped something, and
that is how the code is meant (`request_state`'s docstring). After the end `AskedIsCurrent` says nothing,
because `finish_game`'s copy takes numbers that others may have taken, too.

*Configuration*: `EngineIsFed` (whatever hosts send, a game that starts has whole delays, no cap of zero,
a demand for each week, and the demand its host was shown), `SavedAgainIsTheSame` (what is stored passes its
own validator unaltered), `OnlyWhatWasNamed` (a patch changes what it names).

### What the violation runs show

1. `DisconnectSticks`: `finish_game` saves a stale copy and undoes what others committed meanwhile. What
   it cannot undo is the game itself (`FlagsAgree`, `ImplementsWeekMachine` and their theorems): the
   room it carries is over, and nothing a finished room still accepts touches its weeks.
2. `StatsDoNotDrift`: the event loop has persisted a game and read the rows of its host; a claim in a worker thread
   gives the host the guest's row, reads, and writes the right total; the loop writes the older one over it. One
   process is enough.
3. `EveryMappingDropped`: a tab is lost while its first `join_waiting` waits for the lock. Its cleanup finds no
   room and returns; the call is then served and makes the connection that is gone the host. `join` does the
   same with a player, who stays connected for everybody until they join again. This takes the Redis manager, whose
   `enter_room` does not ask whether the connection is there; in one process the late call fails there, before
   anything is saved.
4. `ShowsThePause`: a player who returns to a paused room is sent `game_started` after the update that says
   PAUSED, which `join_waiting` avoids on purpose for the host.

Smaller disagreements met while modelling, without a run of their own: `get_my_game`
(`api/v1/user_games.py:244-249`) looks the caller's row up with `scalar_one_or_none`, which raises for a user who
hosted the game and played in it, though the docstring promises "One of the caller's own games, in full";
`end_game_early`
(`sockets/handlers/play.py:440`) leaves the abandoned week's submission counters behind, though
`services/game_service.py:75-76` says that they cannot grow without bound; a configuration update to RANDOM
(`sockets/handlers/lobby.py:393`) keeps roles that are held, though `services/room_service.py:267-269` says
that nobody holds one then; a whole-number field is truncated before its range is checked
(`core/config_models.py:152`), so -0.5 is taken as 0 while the docstring says that every number outside its
range is refused; a RAMP without a cap may exceed `max_order_quantity`, the bound of every other kind.

## Proofs

`PlayLoopProofs` proves, for every `Role`, `Owned`, `Task` and bound (from `SeatsAssumption` and
`BoundsAssumption` only):

* `TypeCorrect`: `Spec => []TypeOK`. `TypeOK` is inductive; one lemma per document operator
  (`WithOrdersTyped`, ...), then one step per action.
* `FlagsAlwaysAgree`: `Spec => []FlagsAgree`. `FlagsAgree` alone is not inductive, because `SaveFinished`
  replaces the room by a copy taken long before. `CopiesInv` adds what is known of the copies: a task that
  carries one carries a finished game, the room is finished too, and their weeks, orders and histories are
  equal. From it, a stale save can revert who is connected or swapped, but puts back a coherent document
  of the same game.
* `PlayLoopImplementsWeekMachine`: `Spec => ImplementsWeekMachine`. Each action maps to `Take`, `Close`,
  `Abandon` or a stutter; for `SaveFinished` that it stutters is `CopiesInv`.
* `FrozenWhenNotRunning`: `Spec => FrozenUnlessRunning`, from the same invariant.
* `AttributionHolds`: `Spec => []Attribution`, again by `CopiesInv` for the stale save.

On top of these, what a game leaves behind:

* `FinishedAtMostOnce`: `Spec => []FinishedOnce`. `FinishInv`: one task at most carries the document, only a
  section that ends a game takes it up, and once the game was handed over it is over, so no second section
  can end it; the stale save puts back a document that knows no other persistence than its own.
* `ForcesAreSpentOnce`: `Spec => []OneWeekPerForce`. A force is either still in a task or was spent on a week:
  `ForceInv` bounds the tasks about to force plus the forced weeks by the forces given (a count, which each
  step lowers on one side when it raises it on the other).
* `BotsRemember`: `Spec => []BotMemory`. `MemoryInv` adds that a seat with a memory is a bot's, and that it has
  seen the open week exactly if its order is in (a bot observes and orders in one section, and a week closes
  only with its order or by a force). It says so of the copies `finish_game` carries, too.

`GameEngineProofs` proves, for every duration, delay, capacity, cost, demand series and order size (from
the named assumptions of `GameEngine`, which are what the configuration's validation guarantees):

* `TypeCorrect`: `Spec => []TypeOK`. The heads and tails of pipelines are numbers only if the pipelines
  are not empty, so the types cannot be proved without the lengths, and the lengths not without knowing
  whether the open week is in the history: `TypeInv` is `TypeOK` with `WeekCount`. `Full` and `Waiting` are
  the two shapes the pipelines alternate between; Phase A takes `Full` to `Waiting`
  (`AfterPhaseATyped`), Phase C takes it back (`AfterPhaseCTyped`).
* `StockOrBacklogHolds`: `Spec => []StockOrBacklog`. `StockInv` states it of the agents, the open
  settlements and each record apart: a settlement is moved from one to the next when a week closes.
* `RunningCostsHold`: `Spec => []RunningCosts`, inductive given `TypeInv`.
* `WeeksAreFinal`: `Spec => PlayedWeeksAreFinal`, from `TypeInv`.
* `EngineImplementsWeekMachine`: `Spec => ImplementsWeekMachine`. `SubmitOrder` is a `Take`, `CloseWeek`
  a `Close`, `EndEarly` an `Abandon`, `SetBot` a stutter; `MissedAppend` relates the two histories.
* `OnTimeHolds`: `Spec => []OnTime`. `OnTime` compares settlements that are weeks apart and says nothing of
  the slots in between, so it is not inductive. `InFlight` says which week filled each slot of each pipeline:
  while week `week` is open, what week `w` sent with delay `d` is in slot `w + d - week`. `AfterClosing` shows
  what Phase C adds at the back, `InFlightClose` that Phase A moves every slot one place, and
  `FrontsReceived` that the front it pops was filled the delay before.
* `RecordedCostsAddUp`, `NothingIsLost` and `SamplesAreInTransit`: `Spec => []RecordedCosts`,
  `Spec => []NothingLost` and `Spec => []SampledInTransit`. They compare totals over slots and over weeks.
  `Total` is a recursive function, and the library's induction theorems take a predicate, which cannot be
  given to them here; `Induction` states induction of a *set* of numbers instead, from the library's
  well-foundedness of `Nat`, and from it follow the laws of `Total` that the proofs use (what a total becomes
  when a slot is added, taken, or changed). `NothingLost` is then followed through the week phase by phase;
  `SampledInTransit` needs `Transit`: each slot a record reports is either delivered, in the week that its place
  says, or still in a pipeline, at the place that is left (`SlotsMove`).

`LobbyProofs` proves, for any number of seats and any connections and people (from the named assumptions of
`Lobby`): `SeatsAlwaysAgree`, `PeopleHaveOnePlace`, `StartsFullySeated` and `ConnectionsAlwaysAgree`, the four
safety invariants of the run `lobby`, and `TypeCorrect`. None of the four is inductive alone; together, as
`IInv`, they are, with what they need of one another:

* the invariant is of a *document* (`DocInv`), because `start_game` deals the roles in a copy and then decides
  whether that copy can start;
* `MappedIn` says that a connection is mapped to its own identity's alias. Without it, a returning person
  could be mapped to an alias whose other connection is someone else's, and `OnePlacePerPerson` and
  `ConnectionsAgree` would each break through the other;
* `PeopleIn` says that an alias not in use holds nothing (so a leaver's role cannot reappear with the next
  person there, nor a bot be placed on it), and that before the start nobody is a bot;
* `SeatsIn` is `SeatsAgree`; it makes the role a leaver or mover vacates the only one they had, and lets
  `_roleless_names`, which reads only the role map, speak for the participants at the start;
* `GoneInv` says that a connection in no room that the process knows of, before its first call or after its cleanup,
  is in no document either; only a call served after the cleanup takes it from there to `ghost`;
* the bots' aliases grow with their roles, so no two are equal, and are nobody's (`WithBotsKeeps`).

One lemma per handler (`LeaveKeeps`, ...); the three role handlers are one (`MovedKeeps`). That a room is never
overfull, the part of `TypeOK` that is not a type, follows on top: only a join adds one and only below the
limit (`NobodyElseEnters`), and after the start with bots the roles are an injection (`StartedFits`).

`ResultsProofs` proves, for any games, places, accounts, guests and number of sessions (from the named
assumptions of `Results`), everything the run `results` checks: `TypeCorrect`, `RowsAlwaysIdentified`,
`StoredOnce`, `OwnWorkIsCounted` and `RowsClaimedOnce`. `IInv` adds to the types and `RowsIdentified`: `Places`
(one row a place at most, and a stored game one for each), from which the count follows; `ClaimantsKnown` (an
account exists before the UPDATE gives it rows, although it was looked up in an earlier transaction); and
`OwnKept`. That is the heart of `OwnWorkIsCounted`: since no step takes a row from the account that has it,
what a session committed is still there when it reads, however many sessions commit in between, and so it is
in what it writes from. `OwnKeptByRows` is that argument for the two steps that write rows.

`RoomStoreProofs` proves, for any calls (a finite set), codes, bounds and a lease longer than a section:

* `TypeCorrect`: `Spec => []TypeOK`, in which `used <= SectionTime` and `tries <= MaxAttempts` are not
  types but consequences of the guards.
* `StoreImplementsRoomDocument`: `Spec => ImplementsRoomDocument`. The invariant `IInv` has, per call
  (`CallInv`), that a live section still holds the lease, that what the lease has left and the section has
  used add up to `LockTimeout`, and that a call about to write or delete knows what is stored: the
  copy it holds, or what `finish_game` saved over it (`SavedOver`); a game that is over and was not put back yet; no
  current document; or nothing. From it two sections are never at one code (`OneSection`), and a game that has
  ended leaves one copy (`CarriedOnce`). `Alone` says that nobody else is at the code of a creation, `RoomsCounted`
  bounds the rooms opened, and `DocsKnown` says what can be stored at all. `OthersKeep` is the lemma every step
  uses for the calls it does not make; in `Tick` the two clocks run against each other. The mapping's `owed` is
  computed from the calls (`Owed`): the copies of those on their way to `finish_game`'s save, and of a section that
  it saved over. There is at most one (`OwesOne`). `SaveRoom` is then a `Change` or, by such a section, an `Undo`
  (`SavePromise`), `SaveEnded` an `End`, `SaveCarried` a `PutBack`, a refusal or a crash a `Forget` or a stutter,
  `CreateRoom` an `Open`, `Expire` a `Lapse`, and every delete of an old document a stutter. That two creations do
  not draw one free code at once (`NobodyAt`) is assumed, as a guard of `Draw`.

`RoomEventsProofs` proves, for any players, weeks, calls and connections (from `PeopleAssumption` and
`BoundsAssumption`), `TypeCorrect` (`Spec => []TypeOK`; that no screen and no client's records are ahead of the
room is part of it) and `ScreensNeverGoBack` (`Spec => NeverBackwards`). The latter is a statement about one
delivery, and what makes it true is spread over every section that ever gave a number. `IInv` has

* `Ordered`: every message that tells of the game says something no later than the room does, and no later
  than any view with a higher number (an order submitted is a view in which one player has decided). The same
  holds between a screen and the views numbered above the last it applied. So a client that takes only higher
  numbers takes only later moments (`HeardOne`, `Heard`);
* `CopiesInv`: `finish_game` carries a document of a game that is over, numbered above every event that still
  shows it running. Its save may take the room's counter back, and numbers may be given twice, but only to
  messages that show the game over, and between those nothing can go back.

`Told` adds a section's new messages, `Fewer` takes emitted ones away, `Entered` starts an empty screen.
`SectionKeeps` is what every section that leaves messages behind has in common, `EndsKeeps` the form of it most
of them cite; `SubmitStaleKeeps`, whose message goes out inside the section, stands alone. `PlacesCounted` says by
an injection that the seats of any players can be counted off in `ROLE_ORDER`, whichever are left out.

`RoomEventsInStep` proves `ScreensEndInStep` (`Spec => []InStep`) and `AskingMakesCurrent`
(`Spec => []AskedIsCurrent`). Both speak of the moment when nothing is in flight, so the invariant `StepInv` says
what a screen is *about* to show while events are. `Pending(x)` are the events that will reach x, in any
order; x applies one only if its number is above the last it applied. Therefore:

* `WillSeeAll(x)`: what x shows now, together with the later events, amounts to the room (`ViewFrom`,
  `RecordsFrom`, `ShowsFrom`, `BotsFrom`), and so does every screen that an event on its way would replace it
  with. An order submitted is not a view but a mark on one, so the marks still to come are added to it;
* it is excused only if x dropped something or is bound to (`Void`: an event it will refuse, or two of one number),
  or if its seat is a bot's in every document of the finished game that there still is (`Excused`);
* `AskedInv`: as long as the room's number is the one x asked under, either x shows its answer or the one event
  of that number that will reach it is the answer. `AddressInv` and `SeatedInv` keep answers from reaching
  a later connection of the same person; `EndInv` makes what `finish_game` saves end where the room does.

TLC checked `StepInv` on the instance of `room_events` (3,596,201 states) before the proof. `SectionKeepsStep`
splits a section into the room's step (`Moves`) and what it tells whom (`Informs`): everybody whose screen the
step makes stale is told by a message above all others (`EntersInformed`, `StaysInformed`), which is what has to
be shown of each section (`...Step`). `Settles` and `TakenUp` are one delivery: the screen it replaces, and
the screens of those it does not reach.

`GameConfigProofs` proves, for any roles, limits, defaults, presets, patches and draws (from the named assumptions
of `GameConfig`), the three properties of the run `configuration`: `EngineIsAlwaysFed`
(`Spec => []EngineIsFed`), `SavedUnaltered` (`Spec => []SavedAgainIsTheSame`) and `OnlyTheNamedChanges`
(`Spec => []OnlyWhatWasNamed`). None is inductive. `IInv` says that `stored` is a configuration as reading leaves
one (`IsConfig`) and, once the game runs, that the series is what the generators give for it. What carries it is
that *what was read stays what it is when it is read again*, though reading truncates, replaces defaults, swaps an
inverted range and reads each field in its own way:

* of a field (`FieldRead`, `FieldKept`), then of a section (`SectionRead`, `SectionKept`, and `UnnamedKept` for the
  fields a patch leaves out), of a demand of each kind (`DemandRead`, `DemandKept`, `DemandUnnamed`), and of a
  whole configuration (`ConfigRead`, `ConfigKept`);
* `MergedSent`: what a patch makes of a stored configuration is something the validator can read, whatever
  section the patch replaces by what is no mapping;
* `WeekFed` and `SeriesFed`: each generator gives a natural number in every week, in the range that was asked for.

`SavedUnaltered` and `OnlyTheNamedChanges` have a hypothesis of their own, `UnusableIsNoMapping`: the value that
stands for what is not a mapping is not one. It is not an assumption of the module because TLC cannot
evaluate the domain of a model value.

Only model-checked: liveness (`CompleteWeekCloses`, `DueBotPlays`, `FinishedGamePersists`, `LockFreed`), because
the prover has neither `ENABLED` nor fairness. Every invariant, every action property and every refinement that a
passing run checks is a theorem.

## Not modelled

* The bots' formula and the statistics of a finished game (`core/bot.py`, `core/stats.py`): floating-point
  functions of one observation or one history. When a bot observes and plays is in `PlayLoop`.
* In `RoomEvents`: the events of the lobby before the start. In `GameConfig`: texts, the tutorial phases, the parameters of the distributions.
* In `Results`: the weekly rows and configuration rows that the one transaction copies out of the snapshot;
  `delete_game`, which nothing calls.
* REST reads and export, display names, authentication, settings, health and migrations change no modelled
  state. The states READY and ABANDONED exist in the enumeration and no code sets them.
* One room only, outside `RoomStore`: a connection that enters a second room is cleaned up in the last one it
  entered. Order quantities in `PlayLoop`, `RoomEvents` and `Lobby` are abstracted; the engine's model has
  them.
* A section that outlives its lease, and two creations that draw one code within one round trip: excluded by
  `LeaseAssumption` and `NobodyAt`. On the in-memory backend neither can happen to a lock without a timeout,
  and a crash takes the documents with it, which no module has anything to say about.

## Plan

Done: `WeekMachine`, `GameEngine`, `PlayLoop`, `Lobby`, `Results`, `RoomDocument`, `RoomStore`, `RoomEvents` and
`GameConfig`, with the proofs of all their safety properties. Left: the events of the lobby before the start,
whose screens are lists of participants and roles, and a second room for one connection in `Lobby`.
