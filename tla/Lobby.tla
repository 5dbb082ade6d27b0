-------------------------------- MODULE Lobby ---------------------------------
(***************************************************************************)
(* A room before its game: the handlers of app/sockets/handlers/lobby.py,  *)
(* the rules of app/services/room_service.py, and the disconnect cleanup   *)
(* of app/sockets/handlers/play.py.                                        *)
(*                                                                         *)
(* Every handler is one lock section, so one action.  What interleaves is  *)
(* the calls of several connections, the host's calls, connections of one  *)
(* person that overlap (two tabs, a reload), and the cleanup of a          *)
(* connection, which looks for its room before it takes the lock: calls    *)
(* the connection had made wait for the same lock and are served before    *)
(* the cleanup or after it, and a cleanup that comes before the first join *)
(* finds no room and does nothing.  No handler asks whether its connection *)
(* is still there.                                                         *)
(*                                                                         *)
(* A session token is only honoured for the identity it was minted for, so *)
(* identity alone decides who a connection is.  "STARTED" stands for the   *)
(* states after start_game, whose changes PlayLoop models.                 *)
(***************************************************************************)
EXTENDS Integers, FiniteSets

CONSTANTS
    Seats,       \* 4 in the code: the seats, and as many roles
    Sid,         \* connections at a time; one that is gone makes room for a new one
    MaxAway,     \* connections that are gone and not yet replaced (a bound)
    IdentityOf,  \* the verified identity of each connection
    Secret,      \* the connections that present the room's host secret
    NoIdentity   \* None, as an identity

ASSUME SeatsAssumption == Seats \in Nat \ {0}
ASSUME SecretAssumption == Secret \subseteq Sid
ASSUME AwayAssumption == MaxAway \in Nat
ASSUME IdentityAssumption ==
    DOMAIN IdentityOf = Sid /\ \A s \in Sid : IdentityOf[s] # NoIdentity

VARIABLES
    room,   \* the room document
    socket  \* how far each connection is, in Socket

vars == <<room, socket>>

Role  == 1..Seats         \* in ROLE_ORDER
Alias == 1..(2 * Seats)   \* "P1", "P2", ...
Nobody == 0               \* None in role_to_alias and sid_to_alias, no participant's role
NoHost == "none"          \* host_sid is None

ASSUME NoHostAssumption == NoHost \notin Sid

Mode == {"HOST_ASSIGNS", "PLAYER_CHOOSES", "RANDOM"}

Absent == [here |-> FALSE, identity |-> NoIdentity, role |-> Nobody,
           is_bot |-> FALSE, connected |-> FALSE]

\* participants: the aliases in use.
Present(doc) == {a \in Alias : doc.participants[a].here}

PreStart(doc) == doc.state \in {"LOBBY", "CONFIGURING"}

\* "new": open, in no room that the process knows of; "in": open and in the room;
\* "lost": its cleanup has found the room and waits for the lock; "late": cleaned up,
\* but calls it had made may still wait for the lock; "ghost": one of those joined.
Socket == {"new", "in", "lost", "late", "ghost"}

CleanedUp(s) == socket[s] \in {"late", "ghost"}

\* socket_manager.join_room and sio.enter_room, which note where a connection is
\* whether it is still there or not (under AsyncRedisManager; in one process the
\* late call fails there, and nothing is saved).
Entered(state) ==
    CASE state = "new" -> "in"
      [] state = "late" -> "ghost"
      [] OTHER -> state

-------------------------------------------------------------------------------
(* Connections.                                                                *)

Init ==
    /\ \E mode \in Mode, fill \in BOOLEAN :
           room = [state |-> "LOBBY", participants |-> [a \in Alias |-> Absent],
                   alias_of |-> [s \in Sid |-> Nobody],
                   role_to_alias |-> [r \in Role |-> Nobody],
                   host_sid |-> NoHost, host_identity |-> NoIdentity,
                   mode |-> mode, fill |-> fill]
    /\ socket = [s \in Sid |-> "new"]

\* A new connection, in the place of one that left no call and nothing in the room.
Open(s) ==
    /\ CleanedUp(s)
    /\ room.alias_of[s] = Nobody
    /\ room.host_sid # s
    /\ socket' = [socket EXCEPT ![s] = "new"]
    /\ UNCHANGED room

\* The cleanup begins: it looks the room up in sid_to_room and sio.rooms, and is over
\* if the connection is in none yet.
Lose(s) ==
    /\ socket[s] \in {"new", "in"}
    /\ Cardinality({t \in Sid : socket[t] \notin {"new", "in"}}) < MaxAway
    /\ socket' = [socket EXCEPT ![s] = IF @ = "in" THEN "lost" ELSE "late"]
    /\ UNCHANGED room

\* Mutant of HostAfter: a host who also plays keeps the room when the socket goes.
HostAfterPlayer(doc, s) ==
    IF doc.alias_of[s] = Nobody /\ doc.host_sid = s THEN NoHost ELSE doc.host_sid

HostAfter(doc, s) == IF doc.host_sid = s THEN NoHost ELSE doc.host_sid

\* _disconnect_from_room, its section: only the connection mapped now marks its
\* player away; one that another has replaced is no longer mapped and changes nothing.
Disconnect(s) ==
    /\ socket[s] = "lost"
    /\ socket' = [socket EXCEPT ![s] = "late"]
    /\ LET a == room.alias_of[s]
       IN  room' = [room EXCEPT
                      !.participants = [p \in Alias |->
                                          IF p = a /\ @[p].here
                                          THEN [@[p] EXCEPT !.connected = FALSE] ELSE @[p]],
                      !.alias_of[s] = Nobody,
                      !.host_sid = HostAfter(room, s)]

\* sid_to_identity, which the end of the cleanup drops.
KnownIdentity(s) == IF CleanedUp(s) THEN NoIdentity ELSE IdentityOf[s]

\* join_waiting: by the secret, or as the identity a secret was first used with; the
\* identity is read in the section.
JoinWaiting(s) ==
    /\ \/ s \in Secret
       \/ KnownIdentity(s) # NoIdentity /\ room.host_identity = KnownIdentity(s)
    /\ room' = [room EXCEPT
                  !.host_sid = s,
                  !.host_identity = IF s \in Secret /\ @ = NoIdentity
                                    THEN KnownIdentity(s) ELSE @]
    /\ socket' = [socket EXCEPT ![s] = Entered(@)]

\* Mutant of KnownAs: a player who is away is taken for a new one.
KnownWhileConnected(doc, id) ==
    {a \in Present(doc) : doc.participants[a].identity = id /\ doc.participants[a].connected}

\* find_alias_for_identity.
KnownAs(doc, id) == {a \in Present(doc) : doc.participants[a].identity = id}

\* A connection takes over an alias from any earlier one.
MapTo(doc, s, a) ==
    [t \in Sid |-> IF t = s THEN a
                   ELSE IF doc.alias_of[t] = a THEN Nobody ELSE doc.alias_of[t]]

\* Mutant of NextFreeAlias: the count-based alias.
CountedAlias(doc) == {Cardinality(Present(doc)) + 1}

\* next_free_alias: the lowest unused.
NextFreeAlias(doc) ==
    {a \in Alias \ Present(doc) : \A b \in Alias \ Present(doc) : a <= b}

\* Mutant of RoomFull: one seat too many.
RoomOverfull(doc) == Cardinality(Present(doc)) > Seats

RoomFull(doc) == Cardinality(Present(doc)) >= Seats

\* join by a known identity, in any room state; join reads it before the section.
JoinAgain(s) ==
    /\ \E a \in KnownAs(room, IdentityOf[s]) :
           room' = [room EXCEPT !.alias_of = MapTo(room, s, a),
                                !.participants[a].connected = TRUE]
    /\ socket' = [socket EXCEPT ![s] = Entered(@)]

\* join by a new identity: only before the start and while there is a seat.
JoinNew(s) ==
    /\ KnownAs(room, IdentityOf[s]) = {}
    /\ PreStart(room)
    /\ ~RoomFull(room)
    /\ \E a \in NextFreeAlias(room) :
           room' = [room EXCEPT
                      !.participants[a] = [Absent EXCEPT !.here = TRUE,
                                                         !.identity = IdentityOf[s],
                                                         !.connected = TRUE],
                      !.alias_of[s] = a]
    /\ socket' = [socket EXCEPT ![s] = Entered(@)]

-------------------------------------------------------------------------------
(* Roles.                                                                      *)

\* Mutant of Vacated: the role the player held stays theirs too.
VacatedNothing(doc, a) == doc

\* The role map without the alias, where it says the alias holds its role.
Vacated(doc, a) ==
    [doc EXCEPT !.role_to_alias =
        [r \in Role |-> IF r = doc.participants[a].role /\ @[r] = a THEN Nobody ELSE @[r]]]

\* The alias moves to role r, or to none.
Moved(doc, a, r) ==
    [Vacated(doc, a) EXCEPT
        !.role_to_alias = [q \in Role |-> IF q = r THEN a ELSE @[q]],
        !.participants[a].role = r]

FreeFor(doc, r, a) == doc.role_to_alias[r] \in {Nobody, a}

\* leave: the caller's own alias only; all its connections are unmapped.
Leave(s) ==
    /\ PreStart(room)
    /\ LET a == room.alias_of[s]
       IN  /\ a # Nobody
           /\ room' = [Vacated(room, a) EXCEPT
                         !.participants[a] = Absent,
                         !.alias_of = [t \in Sid |-> IF @[t] = a THEN Nobody ELSE @[t]]]
    /\ UNCHANGED socket

\* config_update and PUT config: the mode may change and roles stay as they are.
UpdateConfig(mode, fill) ==
    /\ PreStart(room)
    /\ room' = [room EXCEPT !.state = "CONFIGURING", !.mode = mode, !.fill = fill]
    /\ UNCHANGED socket

\* set_role_mode: every assignment is cleared, even if the mode is the same.
SetRoleMode(mode) ==
    /\ PreStart(room)
    /\ room' = [room EXCEPT !.mode = mode,
                            !.role_to_alias = [r \in Role |-> Nobody],
                            !.participants = [a \in Alias |-> [@[a] EXCEPT !.role = Nobody]]]
    /\ UNCHANGED socket

\* assign_role: by the host, also in PLAYER_CHOOSES; Nobody unseats.
AssignRole(a, r) ==
    /\ PreStart(room)
    /\ room.mode # "RANDOM"
    /\ a \in Present(room)
    /\ r # Nobody => FreeFor(room, r, a)
    /\ room' = Moved(room, a, r)
    /\ UNCHANGED socket

\* claim_role: first come, first served.
ClaimRole(s, r) ==
    /\ PreStart(room)
    /\ room.mode = "PLAYER_CHOOSES"
    /\ room.alias_of[s] \in Present(room)
    /\ FreeFor(room, r, room.alias_of[s])
    /\ room' = Moved(room, room.alias_of[s], r)
    /\ UNCHANGED socket

\* release_role: in any mode.
ReleaseRole(s) ==
    /\ PreStart(room)
    /\ room.alias_of[s] \in Present(room)
    /\ room.participants[room.alias_of[s]].role # Nobody
    /\ room' = Moved(room, room.alias_of[s], Nobody)
    /\ UNCHANGED socket

-------------------------------------------------------------------------------
(* The start.                                                                  *)

\* assign_roles_randomly: every participant gets one of the shuffled roles.
Deals(doc) ==
    {deal \in [Present(doc) -> Role] : \A a, b \in Present(doc) : deal[a] = deal[b] => a = b}

Dealt(doc, deal) ==
    [doc EXCEPT
        !.role_to_alias = [r \in Role |->
            IF \E a \in Present(doc) : deal[a] = r
            THEN CHOOSE a \in Present(doc) : deal[a] = r ELSE Nobody],
        !.participants = [a \in Alias |->
            IF a \in Present(doc) THEN [@[a] EXCEPT !.role = deal[a]] ELSE @[a]]]

Held(doc) == {r \in Role : doc.role_to_alias[r] # Nobody}

\* _roleless_names: read from the role map, and nobody when roles are dealt.
Roleless(doc) ==
    IF doc.mode = "RANDOM" THEN {}
    ELSE {a \in Present(doc) : \A r \in Role : doc.role_to_alias[r] # a}

\* Mutant of CanStart: bot fill is thought to cover people without a role too.
CanStartFilled(doc) ==
    /\ PreStart(doc)
    /\ ~doc.fill => Roleless(doc) = {}
    /\ ~doc.fill =>
           IF doc.mode = "RANDOM" THEN Cardinality(Present(doc)) >= Seats
           ELSE Held(doc) = Role

\* can_start.
CanStart(doc) ==
    /\ PreStart(doc)
    /\ Roleless(doc) = {}
    /\ ~doc.fill =>
           IF doc.mode = "RANDOM" THEN Cardinality(Present(doc)) >= Seats
           ELSE Held(doc) = Role

\* The bots of the roles nobody holds take the lowest unused aliases, in ROLE_ORDER.
BotAliases(doc) ==
    {bot \in [Role \ Held(doc) -> Alias \ Present(doc)] :
        /\ \A q, r \in Role \ Held(doc) : q < r => bot[q] < bot[r]
        /\ \A r \in Role \ Held(doc), a \in Alias \ Present(doc) :
               a < bot[r] => \E q \in Role \ Held(doc) : bot[q] = a}

BotFor(r) ==
    [here |-> TRUE, identity |-> NoIdentity, role |-> r, is_bot |-> TRUE, connected |-> TRUE]

WithBots(doc, bot) ==
    [doc EXCEPT
        !.role_to_alias = [r \in Role |-> IF r \in Held(doc) THEN @[r] ELSE bot[r]],
        !.participants = [a \in Alias |->
            IF \E r \in Role \ Held(doc) : bot[r] = a
            THEN BotFor(CHOOSE r \in Role \ Held(doc) : bot[r] = a)
            ELSE @[a]]]

\* start_game: the deal is part of the call, and is not saved when it is refused.
StartGame ==
    \E doc \in (IF room.mode = "RANDOM" THEN {Dealt(room, deal) : deal \in Deals(room)}
                ELSE {room}) :
        /\ CanStart(doc)
        /\ \E bot \in BotAliases(doc) :
               room' = [WithBots(doc, bot) EXCEPT !.state = "STARTED"]
        /\ UNCHANGED socket

Next ==
    \/ \E s \in Sid : Open(s)
    \/ \E s \in Sid : Lose(s)
    \/ \E s \in Sid : Disconnect(s)
    \/ \E s \in Sid : JoinWaiting(s)
    \/ \E s \in Sid : JoinAgain(s)
    \/ \E s \in Sid : JoinNew(s)
    \/ \E s \in Sid : Leave(s)
    \/ \E mode \in Mode, fill \in BOOLEAN : UpdateConfig(mode, fill)
    \/ \E mode \in Mode : SetRoleMode(mode)
    \/ \E a \in Alias, r \in Role \cup {Nobody} : AssignRole(a, r)
    \/ \E s \in Sid, r \in Role : ClaimRole(s, r)
    \/ \E s \in Sid : ReleaseRole(s)
    \/ StartGame

Spec == Init /\ [][Next]_vars

-------------------------------------------------------------------------------
(* Properties.                                                                 *)

Identity == {IdentityOf[s] : s \in Sid}

Participant ==
    [here : BOOLEAN, identity : Identity \cup {NoIdentity}, role : Role \cup {Nobody},
     is_bot : BOOLEAN, connected : BOOLEAN]

\* The types; that a room never has more people and bots than seats is part of it.
TypeOK ==
    /\ room.state \in {"LOBBY", "CONFIGURING", "STARTED"}
    /\ room.participants \in [Alias -> Participant]
    /\ room.alias_of \in [Sid -> Alias \cup {Nobody}]
    /\ room.role_to_alias \in [Role -> Alias \cup {Nobody}]
    /\ room.host_sid \in Sid \cup {NoHost}
    /\ room.host_identity \in Identity \cup {NoIdentity}
    /\ room.mode \in Mode
    /\ room.fill \in BOOLEAN
    /\ Cardinality(Present(room)) <= Seats
    /\ socket \in [Sid -> Socket]

\* The two places a seat is written, role_to_alias and the participant's own role,
\* always say the same (claim_role, assign_role, leave and an alias used again).
SeatsAgree ==
    \A r \in Role, a \in Alias :
        room.role_to_alias[r] = a <=>
            a \in Present(room) /\ room.participants[a].role = r

\* One person, one participant, from however many connections and in whatever order
\* they join, drop and join again (find_alias_for_identity: "one identity always
\* maps back to the same participant").
OnePlacePerPerson ==
    \A a, b \in Present(room) :
        room.participants[a].identity = room.participants[b].identity =>
            a = b \/ room.participants[a].identity = NoIdentity

\* A game starts with every role held and nobody in the room without one, and its
\* bots are in the seats nobody took.
EverybodySeated ==
    room.state = "STARTED" =>
        /\ \A r \in Role : room.role_to_alias[r] # Nobody
        /\ \A a \in Present(room) :
               /\ room.participants[a].role # Nobody
               /\ room.participants[a].is_bot <=> room.participants[a].identity = NoIdentity

\* A player is shown connected exactly while one of their connections, and only one,
\* is mapped: the cleanup of a connection that was replaced marks nobody away; and a
\* connection that has been cleaned up is nobody's and not the host's, unless a call
\* of its own was served after that (_disconnect_from_room, join, join_waiting).
ConnectionsAgree ==
    /\ \A a \in Alias :
          /\ Cardinality({s \in Sid : room.alias_of[s] = a}) <= 1
          /\ (\E s \in Sid : room.alias_of[s] = a) <=>
                 room.participants[a].connected /\ ~room.participants[a].is_bot
    /\ \A s \in Sid : socket[s] \in {"new", "late"} =>
                            room.alias_of[s] = Nobody /\ room.host_sid # s

\* A connection that has been cleaned up is nobody's and not the host's, whatever
\* calls it had made (connection.py disconnect: "Drop every per-sid mapping, so the
\* identity map cannot leak").
EveryMappingDropped ==
    \A s \in Sid : CleanedUp(s) => room.alias_of[s] = Nobody /\ room.host_sid # s
===============================================================================
