------------------------------- MODULE PlayLoop -------------------------------
(***************************************************************************)
(* A started game under concurrent calls: the handlers of                  *)
(* app/sockets/handlers/play.py and the cascade of                         *)
(* app/services/game_service.py.                                           *)
(*                                                                         *)
(* Each handler is one lock section (read the room document, change it,    *)
(* save it) and then, with the lock released, a continuation made of       *)
(* further lock sections: try to close the week, play a round of bots, try *)
(* again, finish the game.  A lock section is one action; between two      *)
(* sections of a task any other task may run.  finish_game alone takes no  *)
(* lock: it carries the document it was handed and saves that copy.        *)
(*                                                                         *)
(* The engine appears here by what the play loop reads and changes of it   *)
(* (week, phase, pending orders and their authors, bot flags, records);    *)
(* GameEngine is its detailed model.                                       *)
(***************************************************************************)
EXTENDS Integers, Sequences, FiniteSets, Functions

CONSTANTS
    Role,               \* the seats (four in the code)
    Owned,              \* the seats a player holds; the others were bots from the start
    Task,               \* continuations that can be in flight at once (a bound)
    DurationWeeks,
    MaxSubmissions,     \* MAX_RESUBMISSIONS_PER_ROLE_PER_WEEK
    MaxForces,          \* how often the host forces a week (a bound)
    MaxCrashes,         \* how often the process restarts (a bound)
    PauseOnDisconnect   \* config.pause_on_disconnect

ASSUME SeatsAssumption == Owned \subseteq Role
ASSUME BoundsAssumption ==
    /\ DurationWeeks \in Nat \ {0}
    /\ MaxSubmissions \in Nat \ {0}
    /\ MaxForces \in Nat
    /\ MaxCrashes \in Nat
    /\ PauseOnDisconnect \in BOOLEAN

VARIABLES
    room,     \* the room document, with the engine and the bots stored in it
    tasks,    \* the continuation each task still has to run
    counts,   \* _submission_counts: process memory, not the document
    forces,   \* force requests authorised so far
    crashes,  \* restarts so far
    persists  \* calls of persist_finished_game so far

vars == <<room, tasks, counts, forces, crashes, persists>>

Week == 1..DurationWeeks

Idle == [pc |-> "idle", thenClose |-> FALSE]

Free(t) == tasks[t].pc = "idle"

\* A task's next lock section; thenClose is resume_play's close after its drive.
At(pc, thenClose) == [pc |-> pc, thenClose |-> thenClose]
Carrying(pc, thenClose, copy) == [pc |-> pc, thenClose |-> thenClose, copy |-> copy]

-------------------------------------------------------------------------------
(* The engine, as the play loop uses it.                                       *)

\* Mutant of AllOrdersIn: a seat a bot plays is not waited for.
AllHumanOrdersIn(doc) == \A r \in Role : doc.seatBot[r] \/ doc.pending[r] # "none"

AllOrdersIn(doc) == \A r \in Role : doc.pending[r] # "none"

\* Mutant of WithOrders: an order replaced after reclaim_seat stays the bot's.
WithOrdersKeepingBot(doc, roles, who) ==
    [doc EXCEPT
        !.pending = [r \in Role |-> IF r \in roles THEN who ELSE @[r]],
        !.byBot = @ \cup {r \in roles : doc.agentBot[r]}]

\* submit_order(): the order replaces an earlier one and is attributed by the
\* role's engine flag.
WithOrders(doc, roles, who) ==
    [doc EXCEPT
        !.pending = [r \in Role |-> IF r \in roles THEN who ELSE @[r]],
        !.byBot = (@ \ roles) \cup {r \in roles : doc.agentBot[r]}]

\* close_week(): the records, then the end of the game or the next week.
Record(doc, r) ==
    [placed     |-> doc.pending[r],
     was_bot    |-> IF doc.pending[r] = "none" THEN doc.agentBot[r] ELSE r \in doc.byBot,
     was_forced |-> doc.pending[r] = "none"]

\* Mutant of WithWeekClosed: the orders of the closed week are still there.
WithWeekClosedKeepingOrders(doc) ==
    LET last == doc.week >= DurationWeeks
    IN  [doc EXCEPT
            !.history = Append(@, [r \in Role |-> Record(doc, r)]),
            !.week = IF last THEN @ ELSE @ + 1,
            !.phase = IF last THEN "FINISHED" ELSE @,
            !.state = IF last THEN "FINISHED" ELSE @]

WithWeekClosed(doc) ==
    LET last == doc.week >= DurationWeeks
    IN  [doc EXCEPT
            !.history = Append(@, [r \in Role |-> Record(doc, r)]),
            !.pending = [r \in Role |-> "none"],
            !.byBot = {},
            !.week = IF last THEN @ ELSE @ + 1,
            !.phase = IF last THEN "FINISHED" ELSE @,
            !.state = IF last THEN "FINISHED" ELSE @]

\* Mutant of Playing: only the engine is asked, not the room.
PlayingUnlessOver(doc) == doc.phase = "DECISION"

Playing(doc) == doc.state = "RUNNING" /\ doc.phase = "DECISION"

-------------------------------------------------------------------------------
(* The players' and the host's calls.                                          *)

NoCounts == [w \in Week |-> [r \in Role |-> 0]]

\* As start_game leaves the room, players who dropped in the lobby included, its run_bot_decisions still to come.
Init ==
    /\ \E here \in SUBSET Owned :
           room = [state |-> "RUNNING", week |-> 1, phase |-> "DECISION",
                   pending |-> [r \in Role |-> "none"], byBot |-> {},
                   seatBot |-> [r \in Role |-> r \notin Owned],
                   agentBot |-> [r \in Role |-> r \notin Owned],
                   bots |-> Role \ Owned, seen |-> [r \in Role |-> <<>>],
                   connected |-> here, history |-> <<>>, persisted |-> FALSE]
    /\ \E t \in Task : tasks = [u \in Task |-> IF u = t THEN At("drive", FALSE) ELSE Idle]
    /\ counts = NoCounts
    /\ forces = 0
    /\ crashes = 0
    /\ persists = 0

\* Mutant of MayResubmit: one submission too many.
MayResubmitOnceMore(w, r) == counts[w][r] <= MaxSubmissions

MayResubmit(w, r) == counts[w][r] < MaxSubmissions

\* submit_order: the player of a seat that no bot plays; the week is the open one
\* (a stale one only gets the state resent).
Submit(r, t) ==
    /\ Free(t)
    /\ Playing(room)
    /\ r \in room.connected
    /\ ~room.seatBot[r]
    /\ MayResubmit(room.week, r)
    /\ room' = WithOrders(room, {r}, "human")
    /\ counts' = [counts EXCEPT ![room.week][r] = @ + 1]
    /\ tasks' = [tasks EXCEPT ![t] = At("close", FALSE)]
    /\ UNCHANGED <<forces, crashes, persists>>

PauseGame ==
    /\ room.state = "RUNNING"
    /\ room' = [room EXCEPT !.state = "PAUSED"]
    /\ UNCHANGED <<tasks, counts, forces, crashes, persists>>

\* Mutant of ResumePlay: nothing closes a week that was complete before the pause.
ResumePlayDriveOnly == At("broadcast", FALSE)

\* broadcast_state, then resume_play: a drive, then a close.
ResumePlay == At("broadcast", TRUE)

\* resume_game: broadcast_state, then resume_play.
ResumeGame(t) ==
    /\ Free(t)
    /\ room.state = "PAUSED"
    /\ room' = [room EXCEPT !.state = "RUNNING"]
    /\ tasks' = [tasks EXCEPT ![t] = ResumePlay]
    /\ UNCHANGED <<counts, forces, crashes, persists>>

\* force_close_week: authorised in this section, closed in a later one.
ForceCloseWeek(t) ==
    /\ Free(t)
    /\ forces < MaxForces
    /\ room.state = "RUNNING"
    /\ forces' = forces + 1
    /\ tasks' = [tasks EXCEPT ![t] = At("force", FALSE)]
    /\ UNCHANGED <<room, counts, crashes, persists>>

\* Mutant of WithBotSeated: the participant flag alone.
WithBotSeatedInRoomOnly(doc, r) ==
    [doc EXCEPT !.seatBot[r] = TRUE, !.bots = @ \cup {r}, !.seen[r] = <<>>]

WithBotSeated(doc, r) ==
    [doc EXCEPT !.seatBot[r] = TRUE, !.agentBot[r] = TRUE,
                !.bots = @ \cup {r}, !.seen[r] = <<>>]

\* Mutant of OwesOrder: the new bot is asked only when the player is away.
OwesOrderIfAway(doc, r) ==
    doc.phase = "DECISION" /\ doc.pending[r] = "none" /\ r \notin doc.connected

OwesOrder(doc, r) == doc.phase = "DECISION" /\ doc.pending[r] = "none"

\* substitute_bot: in any room state; the bot is asked to play only when the role
\* still owes the open week its order.
SubstituteBot(r, t) ==
    /\ ~room.seatBot[r]
    /\ room' = WithBotSeated(room, r)
    /\ IF OwesOrder(room, r)
       THEN Free(t) /\ tasks' = [tasks EXCEPT ![t] = At("drive", FALSE)]
       ELSE UNCHANGED tasks
    /\ UNCHANGED <<counts, forces, crashes, persists>>

\* reclaim_seat: by the seat's own connection; an order in stays as it is.
ReclaimSeat(r) ==
    /\ r \in room.connected
    /\ room.seatBot[r]
    /\ room.state \in {"RUNNING", "PAUSED"}
    /\ room' = [room EXCEPT !.seatBot[r] = FALSE, !.agentBot[r] = FALSE,
                            !.bots = @ \ {r}, !.seen[r] = <<>>]
    /\ UNCHANGED <<tasks, counts, forces, crashes, persists>>

\* end_game_early: the open week is abandoned, then finish_game on this document.
EndGameEarly(t) ==
    /\ Free(t)
    /\ room.state \in {"RUNNING", "PAUSED"}
    /\ room.phase # "FINISHED"
    /\ room' = [room EXCEPT !.phase = "FINISHED", !.state = "FINISHED"]
    /\ tasks' = [tasks EXCEPT ![t] = Carrying("finish", FALSE, room')]
    /\ UNCHANGED <<counts, forces, crashes, persists>>

\* A player's connection drops; a seat a player plays pauses a running game.
Disconnect(r) ==
    /\ r \in room.connected
    /\ room' = [room EXCEPT
                  !.connected = @ \ {r},
                  !.state = IF @ = "RUNNING" /\ ~room.seatBot[r] /\ PauseOnDisconnect
                            THEN "PAUSED" ELSE @]
    /\ UNCHANGED <<tasks, counts, forces, crashes, persists>>

\* join by a known identity: the seat is mapped to the new connection.
Rejoin(r) ==
    /\ r \in Owned \ room.connected
    /\ room' = [room EXCEPT !.connected = @ \cup {r}]
    /\ UNCHANGED <<tasks, counts, forces, crashes, persists>>

-------------------------------------------------------------------------------
(* The continuations, one lock section each.                                   *)

BroadcastState(t) ==
    /\ tasks[t].pc = "broadcast"
    /\ tasks' = [tasks EXCEPT ![t].pc = "drive"]
    /\ UNCHANGED <<room, counts, forces, crashes, persists>>

\* Mutant of AfterDrive: a task that finds the game over finishes it once more.
AfterDriveFinishing(task) ==
    IF task.thenClose THEN At("close", FALSE)
    ELSE IF room.phase = "FINISHED" /\ task.pc = "drive" THEN Carrying("finish", FALSE, room)
    ELSE Idle

\* What a task does when its drive is over: resume_play closes, others are done.
AfterDrive(task) == IF task.thenClose THEN At("close", FALSE) ELSE Idle

\* Mutant of Due: a bot plays again although its order is in.
DueAgain(doc) == {r \in Role : doc.seatBot[r]}

Due(doc) == {r \in Role : doc.pending[r] = "none" /\ doc.seatBot[r]}

\* observe and submit_order; a bot that is not stored yet is created.
WithBotsPlayed(doc) ==
    [WithOrders(doc, Due(doc), "bot") EXCEPT
        !.bots = @ \cup Due(doc),
        !.seen = [r \in Role |-> IF r \in Due(doc) THEN Append(@[r], doc.week) ELSE @[r]]]

\* _play_bot_round: every bot seat without an order observes and orders at once.
PlayBotRound(t) ==
    /\ tasks[t].pc = "drive"
    /\ IF Playing(room) /\ Due(room) # {}
       THEN /\ room' = WithBotsPlayed(room)
            /\ tasks' = [tasks EXCEPT ![t].pc = "driveClose"]
       ELSE /\ tasks' = [tasks EXCEPT ![t] = AfterDrive(@)]
            /\ UNCHANGED room
    /\ UNCHANGED <<counts, forces, crashes, persists>>

\* _try_close_week's early returns.
CanClose(doc, force) == Playing(doc) /\ (AllOrdersIn(doc) \/ force)

\* Mutant of AfterClose: nobody finishes the game the last week ended.
AfterCloseDriving(task, doc) == At("drive", task.thenClose)

\* A closed week is followed by finish_game on the saved document, or by a drive.
AfterClose(task, doc) ==
    IF doc.phase = "FINISHED" THEN Carrying("finish", task.thenClose, doc)
    ELSE At("drive", task.thenClose)

\* _forget_submission_counts for the closed week.
Forget(w) == counts' = [counts EXCEPT ![w] = [r \in Role |-> 0]]

\* _try_close_week, from close_week_if_ready ("close", "force") and from _drive
\* ("driveClose").
TryCloseWeek(t) ==
    /\ tasks[t].pc \in {"close", "force", "driveClose"}
    /\ IF CanClose(room, tasks[t].pc = "force")
       THEN /\ room' = WithWeekClosed(room)
            /\ Forget(room.week)
            /\ tasks' = [tasks EXCEPT ![t] = AfterClose(@, room')]
       ELSE /\ tasks' = [tasks EXCEPT ![t] = AfterDrive(@)]
            /\ UNCHANGED <<room, counts>>
    /\ UNCHANGED <<forces, crashes, persists>>

\* finish_game: persist_finished_game, which may fail; only the copy is marked.
PersistGame(t) ==
    /\ tasks[t].pc = "finish"
    /\ persists' = persists + 1
    /\ \E ok \in BOOLEAN :
           tasks' = [tasks EXCEPT ![t] =
                       Carrying("save", @.thenClose, [@.copy EXCEPT !.persisted = ok])]
    /\ UNCHANGED <<room, counts, forces, crashes>>

\* finish_game: save_room of the copy, with no lock and no re-read.
SaveFinished(t) ==
    /\ tasks[t].pc = "save"
    /\ room' = tasks[t].copy
    /\ tasks' = [tasks EXCEPT ![t] = AfterDrive(@)]
    /\ UNCHANGED <<counts, forces, crashes, persists>>

\* The process restarts: the document survives in Redis, the tasks and the
\* counters do not.
Crash ==
    /\ crashes < MaxCrashes
    /\ crashes' = crashes + 1
    /\ tasks' = [t \in Task |-> Idle]
    /\ counts' = NoCounts
    /\ UNCHANGED <<room, forces, persists>>

Step(t) ==
    BroadcastState(t) \/ PlayBotRound(t) \/ TryCloseWeek(t) \/ PersistGame(t) \/ SaveFinished(t)

Next ==
    \/ \E r \in Role, t \in Task : Submit(r, t)
    \/ PauseGame
    \/ \E t \in Task : ResumeGame(t)
    \/ \E t \in Task : ForceCloseWeek(t)
    \/ \E r \in Role, t \in Task : SubstituteBot(r, t)
    \/ \E r \in Role : ReclaimSeat(r)
    \/ \E t \in Task : EndGameEarly(t)
    \/ \E r \in Role : Disconnect(r)
    \/ \E r \in Role : Rejoin(r)
    \/ \E t \in Task : BroadcastState(t)
    \/ \E t \in Task : PlayBotRound(t)
    \/ \E t \in Task : TryCloseWeek(t)
    \/ \E t \in Task : PersistGame(t)
    \/ \E t \in Task : SaveFinished(t)
    \/ Crash

Spec == Init /\ [][Next]_vars

\* asyncio runs every task that can run, and the lock is never held for long: each
\* continuation takes its next section eventually.  Nothing is assumed of people.
FairSpec == Spec /\ \A t \in Task : WF_vars(Step(t))

-------------------------------------------------------------------------------
(* Properties.                                                                 *)

OrderRecord ==
    [placed : {"none", "human", "bot"}, was_bot : BOOLEAN, was_forced : BOOLEAN]

Document ==
    [state : {"RUNNING", "PAUSED", "FINISHED"}, week : Week,
     phase : {"DECISION", "FINISHED"}, pending : [Role -> {"none", "human", "bot"}],
     byBot : SUBSET Role, seatBot : [Role -> BOOLEAN], agentBot : [Role -> BOOLEAN],
     bots : SUBSET Role, seen : [Role -> Seq(Week)],
     connected : SUBSET Owned, history : Seq([Role -> OrderRecord]), persisted : BOOLEAN]

InMemory == {"idle", "broadcast", "drive", "driveClose", "close", "force"}
Finishing == {"finish", "save"}

TaskState ==
    [pc : InMemory, thenClose : BOOLEAN]
      \cup [pc : Finishing, thenClose : BOOLEAN, copy : Document]

\* The types; that a role submits at most MaxSubmissions times a week is part of it.
TypeOK ==
    /\ room \in Document
    /\ tasks \in [Task -> TaskState]
    /\ counts \in [Week -> [Role -> 0..MaxSubmissions]]
    /\ forces \in 0..MaxForces
    /\ crashes \in 0..MaxCrashes
    /\ persists \in Nat

\* The documents there are: the stored one and the ones finish_game carries.
Documents == {room} \cup {tasks[t].copy : t \in {u \in Task : tasks[u].pc \in Finishing}}

Coherent(doc) ==
    /\ doc.seatBot = doc.agentBot
    /\ doc.bots = {r \in Role : doc.seatBot[r]}
    /\ (doc.state = "FINISHED") = (doc.phase = "FINISHED")
    /\ doc.phase = "DECISION" => Len(doc.history) = doc.week - 1

\* The room and the engine stored in it never disagree about who plays a seat or
\* whether the game is over (play.py substitute_bot: "the participant flag alone is
\* not enough"), in the document a stale save will bring back either.
FlagsAgree == \A doc \in Documents : Coherent(doc)

Attributed(doc) ==
    /\ \A r \in Role : doc.pending[r] = "bot" <=> r \in doc.byBot
    /\ \A w \in 1..Len(doc.history) : \A r \in Role :
           LET record == doc.history[w][r]
           IN  ~record.was_forced => (record.was_bot <=> record.placed = "bot")

\* Who really placed each order is what the records will say (submit_order,
\* substitute_bot and reclaim_seat can follow one another inside a week).
Attribution == Attributed(room)

\* No week closes without all four orders unless the host forced one: as many
\* incomplete weeks as forces at most, whatever week each force meant.
OneWeekPerForce ==
    Cardinality({w \in 1..Len(room.history) :
                   \E r \in Role : room.history[w][r].was_forced}) <= forces

\* A bot's forecast is fed each week's demand once and in order, and misses only
\* the weeks the host forced before it could play.
BotMemory ==
    \A r \in Role :
        LET seen == room.seen[r]
        IN  /\ \A i, j \in 1..Len(seen) : i < j => seen[i] < seen[j]
            /\ seen # <<>> =>
                   \A w \in seen[1]..Len(room.history) :
                       w \in Range(seen) \/ room.history[w][r].was_forced
            /\ (seen # <<>> /\ room.phase = "DECISION" /\ seen[Len(seen)] = room.week) =>
                   room.pending[r] # "none"

\* A room that is paused or over takes no order and closes no week, whatever was
\* under way when it stopped, and one that is over is never anything else again.
FrozenUnlessRunning ==
    [][ room.state # "RUNNING" =>
            /\ room'.week = room.week
            /\ room'.pending = room.pending
            /\ room'.history = room.history
            /\ room.state = "FINISHED" => room'.state = "FINISHED"
      ]_vars

\* A game is handed to persistence at most once, however the tasks that may end it
\* interleave, and is marked persisted only after that.
FinishedOnce == persists <= 1 /\ (room.persisted => persists = 1)

\* The room plays the game WeekMachine promises.
Promise == INSTANCE WeekMachine WITH
    open   <- room.week,
    over   <- room.phase = "FINISHED",
    taken  <- {r \in Role : room.pending[r] # "none"},
    missed <- [w \in 1..Len(room.history) |->
                 {r \in Role : room.history[w][r].was_forced}]

ImplementsWeekMachine == Promise!Spec

\* A week whose orders are all in closes, or the room stops running; the player
\* whose order completed it may be gone (close_week_if_ready, resume_play).
CompleteWeekCloses ==
    \A w \in Week :
        (Playing(room) /\ room.week = w /\ AllOrdersIn(room))
            ~> (Len(room.history) >= w \/ room.state # "RUNNING")

\* A bot seat that owes the open week its order plays, or its player takes it back,
\* or the room stops running; also when the seat was handed over in a paused room.
DueBotPlays ==
    \A r \in Role, w \in Week :
        (Playing(room) /\ room.week = w /\ r \in Due(room))
            ~> \/ room.week = w /\ room.pending[r] # "none"
               \/ Len(room.history) >= w
               \/ ~room.seatBot[r]
               \/ room.state # "RUNNING"

\* A game that is over is handed to persistence.
FinishedGamePersists == room.state = "FINISHED" ~> persists = 1

\* game_service.py: "every method that reads, mutates and saves room state does all
\* three inside one state_svc.lock(room_code) acquisition", so that no save reverts
\* what another section committed in between: a committed disconnect is undone
\* only by the player's return.
DisconnectSticks ==
    [][\A r \in Role : r \in room'.connected \ room.connected => Rejoin(r)]_vars
===============================================================================
