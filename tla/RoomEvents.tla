------------------------------ MODULE RoomEvents ------------------------------
(***************************************************************************)
(* The events of a started room: what each lock section tells whom, under  *)
(* which number, and what the clients are left showing.  A section of      *)
(* play.py, lobby.py or game_service.py takes its numbers from the room    *)
(* (next_seq) under the lock and emits after it, one event at a time, so   *)
(* the events of two calls reach a client in any order; the client drops   *)
(* an event whose number is not above the last it applied.                 *)
(*                                                                         *)
(* The client is external: its rule is the one request_state and           *)
(* join_waiting describe.  A section is one action (RoomStore).  What a     *)
(* bot orders and what a week does are left to GameEngine.                 *)
(***************************************************************************)
EXTENDS Integers, Sequences, FiniteSets, Functions

CONSTANTS
    Player,      \* the seats with a player
    Host,        \* the host
    Seats,       \* the players in ROLE_ORDER
    Weeks,       \* duration_weeks
    Task,        \* calls in progress at once (a bound)
    MaxCalls,    \* calls made and connections dropped (a bound)
    MaxJoins     \* connections per person (a bound)

ASSUME PeopleAssumption ==
    /\ Host \notin Player
    /\ Seats \in Seq(Player)
    /\ Range(Seats) = Player
ASSUME BoundsAssumption ==
    /\ Weeks \in Nat \ {0}
    /\ MaxCalls \in Nat
    /\ MaxJoins \in Nat \ {0}

Person == Player \cup {Host}

VARIABLES
    room,      \* the stored room document
    tasks,     \* what each call in progress still has to emit, and then to do
    client,    \* the newest connection of each person, and what it shows
    calls      \* calls made and connections dropped so far

vars == <<room, tasks, client, calls>>

-------------------------------------------------------------------------------
(* The room and what it shows of itself.                                       *)

\* seat: the connection mapped to each person (sid_to_alias, host_sid), 0 for none.
\* bots: the players whose seat was swapped (participant.is_bot).
\* lastOrders: who had decided when the last week closed (not stored).
Opened(w) == [state |-> "running", week |-> w, decided |-> {}, closed |-> w - 1,
              lastOrders |-> {}, bots |-> {}, seat |-> [x \in Person |-> 1], seq |-> 0]
NoRoom == [Opened(1) EXCEPT !.seat = [x \in Person |-> 0]]

Over(r) == r.state = "finished"

\* player_view and host_view: the week, who has decided, and whether it is over.
View(r) == [week |-> r.week, decided |-> r.decided, over |-> Over(r)]
NoView == [week |-> 0, decided |-> {}, over |-> FALSE]

Closed(r) == 1..r.closed

-------------------------------------------------------------------------------
(* Events: a message and the number it was given.                              *)

Everybody == <<>>
To(r, x) == <<x, r.seat[x]>>

Note == [kind |-> "note", to |-> Everybody]
RoomState(s) == [kind |-> "room", to |-> Everybody, state |-> s]
OrderSubmitted(r, p) ==
    [kind |-> "order", to |-> Everybody, week |-> r.week, player |-> p]
YourWeekClosed(r, p, w) == [kind |-> "record", to |-> To(r, p), week |-> w]
GameFinished == [kind |-> "finished", to |-> Everybody]

\* your_state without own_history, your_state with it, and host_state.
YourState(r, p) == [kind |-> "view", to |-> To(r, p), view |-> View(r)]
YourFullState(r, p) ==
    [kind |-> "full", to |-> To(r, p), view |-> View(r), records |-> Closed(r)]
HostState(r) ==
    [kind |-> "host", to |-> To(r, Host), view |-> View(r), bots |-> r.bots]

\* A message for each of these players, in ROLE_ORDER.
Places(players) == {i \in DOMAIN Seats : Seats[i] \in players}

NthPlace(players, n) ==
    CHOOSE i \in Places(players) : Cardinality({j \in Places(players) : j <= i}) = n

InRoleOrder(players, Message(_)) ==
    [n \in 1..Cardinality(Places(players)) |-> Message(Seats[NthPlace(players, n)])]

\* _sid_for_alias.
Connected(r) == {p \in Player : r.seat[p] # 0}

\* Mutant of HostRefresh: left out when the submission completes the week.
HostRefreshUnlessComplete(r) ==
    IF r.seat[Host] # 0 /\ r.decided # Player THEN <<HostState(r)>> ELSE <<>>

HostRefresh(r) == IF r.seat[Host] # 0 THEN <<HostState(r)>> ELSE <<>>

\* state_refresh_events: a swapped seat is left out.
StateRefresh(r) ==
    InRoleOrder(Connected(r) \ r.bots, LAMBDA p : YourFullState(r, p)) \o HostRefresh(r)

\* next_seq once for each message, in order.
Numbered(r, messages) ==
    [i \in DOMAIN messages |-> [seq |-> r.seq + i, msg |-> messages[i]]]
After(r, messages) == [r EXCEPT !.seq = @ + Len(messages)]

-------------------------------------------------------------------------------
(* Clients.                                                                    *)

\* A connection that has just entered the room: an empty store.
Fresh(gen) == [gen |-> gen, on |-> TRUE, seq |-> 0, view |-> NoView, records |-> {},
               bots |-> {}, shows |-> "lobby", finished |-> FALSE, dropped |-> FALSE,
               asked |-> 0]

Shown(c, m) ==
    CASE m.kind = "note" -> c
      [] m.kind = "room" -> [c EXCEPT !.shows = m.state]
      [] m.kind = "order" ->
            IF m.week = c.view.week THEN [c EXCEPT !.view.decided = @ \cup {m.player}]
            ELSE c
      [] m.kind = "record" -> [c EXCEPT !.records = @ \cup {m.week}]
      [] m.kind = "view" -> [c EXCEPT !.view = m.view]
      [] m.kind = "full" -> [c EXCEPT !.view = m.view, !.records = m.records]
      [] m.kind = "host" -> [c EXCEPT !.view = m.view, !.bots = m.bots]
      [] m.kind = "finished" -> [c EXCEPT !.finished = TRUE, !.shows = "finished"]

\* The client's rule; dropped remembers that it has been applied.
Received(c, e) ==
    IF e.seq > c.seq THEN [Shown(c, e.msg) EXCEPT !.seq = e.seq]
    ELSE [c EXCEPT !.dropped = TRUE]

Reaches(e, x) ==
    /\ client[x].on
    /\ e.msg.to \in {Everybody, <<x, client[x].gen>>}

Delivered(e) ==
    [x \in Person |-> IF Reaches(e, x) THEN Received(client[x], e) ELSE client[x]]

-------------------------------------------------------------------------------
(* Calls and their continuations.                                              *)

\* then: what the call does when its events are out; copy: the document it carries.
Idle == [then |-> "idle", outbox |-> <<>>, copy |-> NoRoom]

Quiet == \A t \in Task : tasks[t] = Idle

\* A running room in which any week has just opened and everybody sees it as it is;
\* numbers count from here.
Init ==
    /\ \E w \in 1..Weeks : room = Opened(w)
    /\ tasks = [t \in Task |-> Idle]
    /\ client = [x \in Person |->
                   [Fresh(1) EXCEPT !.view = View(room), !.shows = "running",
                                    !.records = IF x = Host THEN {} ELSE Closed(room)]]
    /\ calls = 0

Start(t) ==
    /\ tasks[t] = Idle
    /\ calls < MaxCalls
    /\ calls' = calls + 1

\* The end of a section that leaves the document r and has these messages to emit.
Ends(t, r, messages, then) ==
    /\ room' = After(r, messages)
    /\ tasks' = [tasks EXCEPT ![t] =
                   IF then = "idle" /\ messages = <<>> THEN Idle
                   ELSE [then |-> then, outbox |-> Numbered(r, messages),
                         copy |-> IF then \in {"finish", "broadcast"}
                                  THEN After(r, messages) ELSE NoRoom]]

\* One emit_to_room or emit_to_sid.
Emit(t) ==
    /\ tasks[t].outbox # <<>>
    /\ client' = Delivered(Head(tasks[t].outbox))
    /\ tasks' = [tasks EXCEPT ![t] =
                   IF Len(@.outbox) = 1 /\ @.then = "idle" THEN Idle
                   ELSE [@ EXCEPT !.outbox = Tail(tasks[t].outbox)]]
    /\ UNCHANGED <<room, calls>>

Continues(t, then) ==
    /\ tasks[t].then = then
    /\ tasks[t].outbox = <<>>
    /\ UNCHANGED calls

IsSeated(x) == client[x].on /\ room.seat[x] = client[x].gen

-------------------------------------------------------------------------------
(* submit_order and the close.                                                 *)

\* submit for the week the player's screen shows; bounds and limits are PlayLoop's.
SubmitOrder(t, p) ==
    /\ Start(t)
    /\ room.state = "running"
    /\ IsSeated(p) /\ p \notin room.bots
    /\ client[p].view.week = room.week
    /\ LET r == [room EXCEPT !.decided = @ \cup {p}]
           messages == <<OrderSubmitted(r, p), YourState(r, p)>> \o HostRefresh(r)
           events == Numbered(r, messages)
       IN  /\ room' = After(r, messages)
           /\ tasks' = [tasks EXCEPT ![t] =
                 [Idle EXCEPT !.then = "close",
                    !.outbox = <<events[1]>> \o SubSeq(events, 3, Len(events))
                                 \o <<events[2]>>]]
    /\ UNCHANGED client

\* submit for a week that has closed since: the state goes out inside the section.
SubmitStale(t, p) ==
    /\ Start(t)
    /\ room.state = "running"
    /\ IsSeated(p) /\ p \notin room.bots
    /\ client[p].view.week \in 1..(room.week - 1)
    /\ LET resent == Numbered(room, <<YourFullState(room, p)>>)[1]
       IN  client' = [Delivered(resent) EXCEPT ![p].asked = resent.seq]
    /\ room' = [room EXCEPT !.seq = @ + 1]
    /\ UNCHANGED tasks

\* Mutant of NextWeek: the counter goes on after the last week.
NextWeekAlways(r) == r.week + 1

NextWeek(r) == IF r.week = Weeks THEN r.week ELSE r.week + 1

WeekClosed(r) ==
    [r EXCEPT !.closed = @ + 1, !.week = NextWeek(r), !.decided = {},
              !.lastOrders = r.decided,
              !.state = IF r.week = Weeks THEN "finished" ELSE @]

\* What _try_close_week tells of the week that made r.
CloseEvents(r) ==
    <<Note>> \o InRoleOrder(Connected(r), LAMBDA p : YourWeekClosed(r, p, r.closed))
      \o IF Over(r) THEN <<>>
          ELSE InRoleOrder(Connected(r), LAMBDA p : YourState(r, p)) \o HostRefresh(r)

\* What the caller of _try_close_week does next: the bots play the new week (_drive), or
\* finish_game; resume_play asks once more when its _drive has come to an end.
AfterClose(r, then) ==
    IF Over(r) THEN "finish" ELSE IF then = "resumed" THEN "resume" ELSE "drive"

AfterDrive(then) == IF then \in {"resume", "resumed"} THEN "close" ELSE "idle"

\* _try_close_week, called by close_week_if_ready or by _drive.
TryClose(t, then) ==
    /\ Continues(t, then)
    /\ UNCHANGED client
    /\ IF room.state = "running" /\ (then = "force" \/ room.decided = Player)
       THEN LET r == WeekClosed(room)
            IN  Ends(t, r, CloseEvents(r), AfterClose(r, then))
       ELSE Ends(t, room, <<>>, AfterDrive(then))

\* _play_bot_round, called by _drive.
Due(r) == r.bots \ r.decided

PlayBots(t, then) ==
    /\ Continues(t, then)
    /\ UNCHANGED client
    /\ IF room.state = "running" /\ Due(room) # {}
       THEN LET r == [room EXCEPT !.decided = @ \cup Due(room)]
            IN  Ends(t, r, InRoleOrder(Due(room), LAMBDA p : OrderSubmitted(r, p))
                             \o HostRefresh(r),
                     IF then = "resume" THEN "resumed" ELSE "drove")
       ELSE Ends(t, room, <<>>, AfterDrive(then))

\* finish_game up to its emit: the number is taken from the copy.
FinishGame(t) ==
    /\ Continues(t, "finish")
    /\ LET copy == tasks[t].copy
       IN  tasks' = [tasks EXCEPT ![t] =
                       [then |-> "persist", outbox |-> Numbered(copy, <<GameFinished>>),
                        copy |-> After(copy, <<GameFinished>>)]]
    /\ UNCHANGED <<room, client>>

\* finish_game after persistence, which may have failed: the copy is saved.
SaveFinished(t) ==
    /\ Continues(t, "persist")
    /\ \E persisted \in BOOLEAN :
          Ends(t, tasks[t].copy, IF persisted THEN <<Note>> ELSE <<>>, "idle")
    /\ UNCHANGED client

-------------------------------------------------------------------------------
(* The host's controls and request_state.                                      *)

HostCalls(t) == Start(t) /\ client[Host].on /\ UNCHANGED client

PauseGame(t) ==
    /\ HostCalls(t)
    /\ room.state = "running"
    /\ Ends(t, [room EXCEPT !.state = "paused"], <<RoomState("paused")>>, "idle")

ResumeGame(t) ==
    /\ HostCalls(t)
    /\ room.state = "paused"
    /\ Ends(t, [room EXCEPT !.state = "running"], <<RoomState("running")>>, "broadcast")

\* Mutant of Refreshed: the document resume_game saved is sent, not the stored one.
RefreshedFromSnapshot(t) == [tasks[t].copy EXCEPT !.seq = room.seq]

Refreshed(t) == room

\* broadcast_state, then resume_play.
BroadcastState(t) ==
    /\ Continues(t, "broadcast")
    /\ Ends(t, room, StateRefresh(Refreshed(t)), "resume")
    /\ UNCHANGED client

\* force_close_week: one section that allows it, then the close.
ForceCloseWeek(t) ==
    /\ HostCalls(t)
    /\ room.state = "running"
    /\ Ends(t, room, <<>>, "force")

\* Allowed while paused, when the bot's round then plays nothing.
SubstituteBot(t, p) ==
    /\ HostCalls(t)
    /\ p \notin room.bots
    /\ LET r == [room EXCEPT !.bots = @ \cup {p}]
       IN  Ends(t, r, <<Note>> \o HostRefresh(r),
                IF ~Over(r) /\ p \notin r.decided THEN "drive" ELSE "idle")

ReclaimSeat(t, p) ==
    /\ Start(t)
    /\ ~Over(room)
    /\ IsSeated(p) /\ p \in room.bots
    /\ LET r == [room EXCEPT !.bots = @ \ {p}]
       IN  Ends(t, r, <<Note, YourFullState(r, p)>> \o HostRefresh(r), "idle")
    /\ UNCHANGED client

EndGameEarly(t) ==
    /\ HostCalls(t)
    /\ ~Over(room)
    /\ LET r == [room EXCEPT !.state = "finished"]
       IN  Ends(t, r, StateRefresh(r), "finish")

\* Mutant of Replied: the reply carries the room's current number.
RepliedAsBefore(messages) ==
    [i \in DOMAIN messages |-> [seq |-> room.seq, msg |-> messages[i]]]

Replied(messages) == Numbered(room, messages)

RequestState(t, x) ==
    /\ Start(t)
    /\ IsSeated(x)
    /\ LET reply == <<IF x = Host THEN HostState(room) ELSE YourFullState(room, x)>>
       IN  /\ room' = After(room, reply)
           /\ tasks' = [tasks EXCEPT ![t] = [Idle EXCEPT !.outbox = Replied(reply)]]
    /\ client' = [client EXCEPT ![x].asked = room'.seq]

-------------------------------------------------------------------------------
(* Connections.                                                                *)

\* The connection drops: what is sent to it from now on is lost.
Lose(x) ==
    /\ client[x].on
    /\ calls < MaxCalls
    /\ calls' = calls + 1
    /\ client' = [client EXCEPT ![x].on = FALSE]
    /\ UNCHANGED <<room, tasks>>

\* The cleanup of the dropped connection, unless a newer one took its place.
Disconnect(t, x) ==
    /\ tasks[t] = Idle
    /\ ~client[x].on
    /\ room.seat[x] = client[x].gen
    /\ LET r == [room EXCEPT !.seat[x] = 0]
       IN  CASE x = Host -> Ends(t, r, IF Over(r) THEN <<>> ELSE <<Note>>, "idle")
             [] x # Host /\ r.state = "running" /\ x \notin r.bots ->
                  Ends(t, [r EXCEPT !.state = "paused"], <<Note, RoomState("paused")>>, "idle")
             [] OTHER -> Ends(t, r, <<Note>>, "idle")
    /\ UNCHANGED <<client, calls>>

\* A new connection enters the room inside the section, before its events are out.
Enters(x, lastSeq) ==
    client' = [client EXCEPT ![x] = [Fresh(@.gen + 1) EXCEPT !.asked = lastSeq]]

\* join by a known player: game_started is replayed in every game not over.
Join(t, p) ==
    /\ Start(t)
    /\ client[p].gen < MaxJoins
    /\ LET r == [room EXCEPT !.seat[p] = client[p].gen + 1]
           started == [RoomState("running") EXCEPT !.to = To(r, p)]
       IN  Ends(t, r, <<RoomState(r.state), Note>>
                        \o (IF Over(r) THEN <<>> ELSE <<started>>)
                        \o <<YourFullState(r, p)>>, "idle")
    /\ Enters(p, room'.seq)

\* join_waiting: host_state is allocated last; game_started is not replayed.
JoinWaiting(t) ==
    /\ Start(t)
    /\ client[Host].gen < MaxJoins
    /\ LET r == [room EXCEPT !.seat[Host] = client[Host].gen + 1]
           config == [Note EXCEPT !.to = To(r, Host)]
           away == room.seat[Host] = 0 /\ ~Over(room)
       IN  Ends(t, r, <<RoomState(r.state), config>>
                        \o (IF away THEN <<Note>> ELSE <<>>) \o <<HostState(r)>>, "idle")
    /\ Enters(Host, room'.seq)

Next ==
    \/ \E t \in Task : Emit(t)
    \/ \E t \in Task, p \in Player : SubmitOrder(t, p)
    \/ \E t \in Task, p \in Player : SubmitStale(t, p)
    \/ \E t \in Task, then \in {"close", "force", "drove", "resumed"} : TryClose(t, then)
    \/ \E t \in Task, then \in {"drive", "resume"} : PlayBots(t, then)
    \/ \E t \in Task : FinishGame(t)
    \/ \E t \in Task : SaveFinished(t)
    \/ \E t \in Task : PauseGame(t)
    \/ \E t \in Task : ResumeGame(t)
    \/ \E t \in Task : BroadcastState(t)
    \/ \E t \in Task : ForceCloseWeek(t)
    \/ \E t \in Task, p \in Player : SubstituteBot(t, p)
    \/ \E t \in Task, p \in Player : ReclaimSeat(t, p)
    \/ \E t \in Task : EndGameEarly(t)
    \/ \E t \in Task, x \in Person : RequestState(t, x)
    \/ \E x \in Person : Lose(x)
    \/ \E t \in Task, x \in Person : Disconnect(t, x)
    \/ \E t \in Task, p \in Player : Join(t, p)
    \/ \E t \in Task : JoinWaiting(t)

Spec == Init /\ [][Next]_vars

-------------------------------------------------------------------------------
(* Properties.                                                                 *)

ViewState == [week : 0..Weeks, decided : SUBSET Player, over : BOOLEAN]
RoomStates == {"running", "paused", "finished"}

\* The types; that no screen is ahead of the room is part of it.
TypeOK ==
    /\ room \in [state : RoomStates, week : 1..Weeks, decided : SUBSET Player,
                 closed : 0..Weeks, lastOrders : SUBSET Player, bots : SUBSET Player,
                 seat : [Person -> 0..MaxJoins], seq : Nat]
    /\ \A x \in Person :
         /\ client[x] \in [gen : 1..MaxJoins, on : BOOLEAN, seq : Nat, view : ViewState,
                           records : SUBSET Closed(room), bots : SUBSET Player,
                           shows : RoomStates \cup {"lobby"}, finished : BOOLEAN,
                           dropped : BOOLEAN, asked : Nat]
         /\ client[x].view.week <= room.week
    /\ calls \in 0..MaxCalls

\* A screen never goes back to an earlier moment of the game, in whatever order the
\* events of overlapping calls arrive (broadcast_state's docstring names the stale
\* snapshot it must not send; seq and content are taken in one section).
NeverBackwards ==
    [][\A x \in Person : client'[x].gen = client[x].gen =>
         LET before == client[x].view
             after == client'[x].view
         IN  \/ before.over /\ after.over
             \/ ~before.over /\ after.over
             \/ ~before.over /\ ~after.over /\
                   \/ after.week > before.week
                   \/ after.week = before.week /\ before.decided \subseteq after.decided]_vars

\* What x must see: the room's present view, or, when the last week has closed and
\* the debrief is there, the last week with the orders it closed on
\* (_host_refresh_after_submission's docstring).
SeesAll(x) ==
    LET c == client[x]
    IN  /\ \/ c.view = View(room)
           \/ /\ Over(room) /\ c.finished
              /\ c.view = [week |-> room.week, decided |-> room.lastOrders, over |-> FALSE]
        /\ x \in Player => c.records = Closed(room)
        /\ x = Host => c.shows = room.state /\ (Over(room) \/ c.bots = room.bots)

\* Once everything is emitted, a seated connection that dropped nothing shows the
\* game as it is: every section sends everybody all they need, also to a console
\* that was reloaded, also at the end of the game (game_service.py, join_waiting).
InStep ==
    Quiet => \A x \in Person :
      IsSeated(x) /\ ~client[x].dropped /\ ~(Over(room) /\ x \in room.bots) => SeesAll(x)

\* A connection that dropped events is current again after its request_state, a
\* stale submission or a reconnect, if nothing else was numbered since
\* (request_state's docstring: the reply is above every number already sent).
AskedIsCurrent ==
    Quiet /\ ~Over(room) =>
      \A x \in Person : IsSeated(x) /\ client[x].asked = room.seq =>
        /\ client[x].view = View(room)
        /\ x \in Player => client[x].records = Closed(room)

\* Every connection that dropped nothing shows whether the room runs or is paused:
\* game_started must not "force the client back to RUNNING over a PAUSED or
\* FINISHED lobby_update" (lobby.py, join_waiting).
ShowsThePause ==
    Quiet => \A x \in Person :
      IsSeated(x) /\ ~client[x].dropped => client[x].shows = room.state
===============================================================================
