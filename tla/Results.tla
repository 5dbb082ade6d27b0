-------------------------------- MODULE Results --------------------------------
(***************************************************************************)
(* What happens to a game that is over: app/services/db_service.py writes  *)
(* it, stats_service.py rebuilds the statistics of everybody who played,   *)
(* claim_service.py gives a guest's games to the account they made since.  *)
(*                                                                         *)
(* The calls run in database sessions that interleave.  A finished game is *)
(* persisted on the event loop of its process, from the write to the last  *)
(* total without giving way: two of these overlap only in two processes.   *)
(* Claims and sign-ins run in worker threads, beside one another and       *)
(* beside the loop.  One action is what one session does at one moment of  *)
(* the database's clock: a transaction's writes at its commit, its plain   *)
(* reads at the first of them (MySQL's REPEATABLE READ), so a session that *)
(* reads and then writes takes two actions.  An UPDATE and a unique key    *)
(* see what is committed, not the snapshot.                                *)
(***************************************************************************)
EXTENDS Integers, FiniteSets

CONSTANTS
    Game,         \* the games that finish: a room code and a start
    Seat,         \* the roles
    Seated,       \* [Game -> [Place -> identity]]: the finished room document
    Account,      \* Firebase uids
    Guest,        \* guest_<uuid4> identities
    NoIdentity,   \* NULL: in a row, and the identity of a bot from the start
    Session,      \* database sessions at a time (a bound)
    Loop,         \* those an event loop may open, one for each process
    Worker,       \* those a worker thread may open
    MaxPersists,  \* calls of persist_finished_game for one game (a bound)
    StatsMayFail  \* the recompute after a persisted game may raise

Host  == "HOST"           \* participant_type HOST: a row without a role
Place == Seat \cup {Host}

ASSUME IdentitiesAssumption ==
    /\ Account \cap Guest = {}
    /\ NoIdentity \notin Account \cup Guest
    /\ Host \notin Seat
ASSUME SeatedAssumption ==
    Seated \in [Game -> [Place -> Account \cup Guest \cup {NoIdentity}]]
ASSUME SessionAssumption == Loop \subseteq Session /\ Worker \subseteq Session
ASSUME BoundsAssumption == MaxPersists \in Nat /\ StatsMayFail \in BOOLEAN

VARIABLES
    rows,      \* the participants table: with a game's rows, the game is stored
    profile,   \* users: "absent", or the row with its fields "empty" or "filled"
    stats,     \* user_stats: the rows a total was made of; no row reads as zero games
    session,   \* what each session still has to do
    handed     \* how often each game was handed to persistence

vars == <<rows, profile, stats, session, handed>>

Idle == [pc |-> "idle"]

Free(s) == session[s].pc = "idle"

-------------------------------------------------------------------------------
(* The tables.                                                                 *)

\* Mutant of RowOf: a uid that never signed in is not given a users row.
RowOfKnown(g, p) ==
    [game |-> g, place |-> p,
     user  |-> IF Seated[g][p] \in Account /\ profile[Seated[g][p]] # "absent"
               THEN Seated[g][p] ELSE NoIdentity,
     guest |-> IF Seated[g][p] \in Guest THEN Seated[g][p] ELSE NoIdentity]

\* _resolve_attribution: by identity, whoever plays the seat at the end.
RowOf(g, p) ==
    [game |-> g, place |-> p,
     user  |-> IF Seated[g][p] \in Account THEN Seated[g][p] ELSE NoIdentity,
     guest |-> IF Seated[g][p] \in Guest THEN Seated[g][p] ELSE NoIdentity]

RowsOf(g) == {RowOf(g, p) : p \in Place}

\* Mutant of Stored: the lookup and the unique key are gone.
NeverStored(g) == FALSE

\* _find_existing and the unique key (room_code, started_at).
Stored(g) == \E row \in rows : row.game = g

Unclaimed(table, id) == {row \in table : row.guest = id /\ row.user = NoIdentity}

\* Mutant of WithClaimed: matched by the guest identity alone, which is kept.
WithClaimedAgain(id, u) ==
    {IF row.guest = id THEN [row EXCEPT !.user = u] ELSE row : row \in rows}

\* _CLAIM_PARTICIPANTS.
WithClaimed(id, u) ==
    {IF row \in Unclaimed(rows, id) THEN [row EXCEPT !.user = u, !.guest = NoIdentity]
     ELSE row : row \in rows}

\* _GAMES_FOR_USER: the rows with a role; match history selects the same.
Played(table, u) == {row \in table : row.user = u /\ row.place # Host}

-------------------------------------------------------------------------------
(* Sessions.                                                                   *)

Init ==
    /\ rows = {}
    /\ profile \in [Account -> {"absent", "filled"}]
    /\ stats = [u \in Account |-> {}]
    /\ session = [s \in Session |-> Idle]
    /\ handed = [g \in Game |-> 0]

\* get_or_create.
WithUsers(accounts) ==
    [u \in Account |-> IF u \in accounts /\ profile[u] = "absent" THEN "empty" ELSE profile[u]]

\* persist_game: everything in one transaction, nothing if the game is there.
PersistGame(s, g) ==
    /\ s \in Loop
    /\ Free(s)
    /\ handed[g] < MaxPersists
    /\ handed' = [handed EXCEPT ![g] = @ + 1]
    /\ IF Stored(g)
       THEN UNCHANGED <<rows, profile>>
       ELSE /\ rows' = rows \cup RowsOf(g)
            /\ profile' = WithUsers({Seated[g][p] : p \in Place} \cap Account)
    /\ session' = [session EXCEPT ![s] = [pc |-> "persisted", game |-> g, own |-> rows']]
    /\ UNCHANGED stats

\* persist_game fails and is rolled back; the game is not tried again.
PersistFails(g) ==
    /\ handed[g] < MaxPersists
    /\ handed' = [handed EXCEPT ![g] = @ + 1]
    /\ UNCHANGED <<rows, profile, stats, session>>

\* own: the table as the session's own commit left it (auxiliary, for OwnWorkCounted).
Recomputing(pc, todo, view, own) == [pc |-> pc, todo |-> todo, view |-> view, own |-> own]

\* Mutant of ToRecompute: the rows without an account as well.
ToRecomputeWithNull(g) == {row.user : row \in {r \in rows : r.game = g}}

\* recompute_for_game: every account with a row in the game.
ToRecompute(g) == {row.user : row \in {r \in rows : r.game = g}} \ {NoIdentity}

\* The public_id read after the commit opens the snapshot the users of the game and
\* the first one's rows are read from.
Collect(s) ==
    /\ session[s].pc = "persisted"
    /\ LET todo == ToRecompute(session[s].game)
       IN  session' = [session EXCEPT ![s] =
                         IF todo = {} THEN Idle ELSE Recomputing("write", todo, rows, @.own)]
    /\ UNCHANGED <<rows, profile, stats, handed>>

\* recompute_user_stats reads a user's rows in a transaction of its own.
ReadPlayed(s) ==
    /\ session[s].pc = "read"
    /\ session' = [session EXCEPT ![s] = Recomputing("write", @.todo, rows, @.own)]
    /\ UNCHANGED <<rows, profile, stats, handed>>

\* recompute_user_stats replaces the whole row with what it read.
WriteStats(s) ==
    /\ session[s].pc = "write"
    /\ \E u \in session[s].todo :
           LET rest == session[s].todo \ {u}
           IN  /\ stats' = [stats EXCEPT ![u] = Played(session[s].view, u)]
               /\ session' = [session EXCEPT ![s] =
                                IF rest = {} THEN Idle ELSE Recomputing("read", rest, {}, @.own)]
    /\ UNCHANGED <<rows, profile, handed>>

\* A failed recompute is logged; the game and the claim stay committed.
StatsFail(s) ==
    /\ StatsMayFail
    /\ session[s].pc \in {"persisted", "read", "write"}
    /\ session' = [session EXCEPT ![s] = Idle]
    /\ UNCHANGED <<rows, profile, stats, handed>>

Claiming(pc, u, id) == [pc |-> pc, account |-> u, guest |-> id]

\* claim_guest_results: the count and the lookup of the account, in one snapshot.
Claim(s, u, id) ==
    /\ s \in Worker
    /\ Free(s)
    /\ Unclaimed(rows, id) # {}
    /\ session' = [session EXCEPT ![s] =
                     Claiming(IF profile[u] = "absent" THEN "upsert" ELSE "attribute", u, id)]
    /\ UNCHANGED <<rows, profile, stats, handed>>

\* claim_guest_results: upsert_user without any field.
ClaimUpsert(s) ==
    /\ session[s].pc = "upsert"
    /\ profile' = [profile EXCEPT ![session[s].account] = "empty"]
    /\ session' = [session EXCEPT ![s].pc = "attribute"]
    /\ UNCHANGED <<rows, stats, handed>>

\* Mutant of AfterClaim: the statistics are made of the rows read before the UPDATE.
AfterClaimStale(u, table) == Recomputing("write", {u}, rows, table)

AfterClaim(u, table) == Recomputing("read", {u}, {}, table)

\* claim_guest_results: the UPDATE, and a recompute if it matched anything.
Attribute(s) ==
    /\ session[s].pc = "attribute"
    /\ LET u  == session[s].account
           id == session[s].guest
       IN  /\ rows' = WithClaimed(id, u)
           /\ session' = [session EXCEPT ![s] =
                            IF Unclaimed(rows, id) = {} THEN Idle ELSE AfterClaim(u, rows')]
    /\ UNCHANGED <<profile, stats, handed>>

\* POST /users/upsert after a sign-in.
UpsertUser(u) ==
    /\ profile' = [profile EXCEPT ![u] = "filled"]
    /\ UNCHANGED <<rows, stats, session, handed>>

Next ==
    \/ \E s \in Session, g \in Game : PersistGame(s, g)
    \/ \E g \in Game : PersistFails(g)
    \/ \E s \in Session : Collect(s)
    \/ \E s \in Session : ReadPlayed(s)
    \/ \E s \in Session : WriteStats(s)
    \/ \E s \in Session : StatsFail(s)
    \/ \E s \in Session, u \in Account, id \in Guest : Claim(s, u, id)
    \/ \E s \in Session : ClaimUpsert(s)
    \/ \E s \in Session : Attribute(s)
    \/ \E u \in Account : UpsertUser(u)

Spec == Init /\ [][Next]_vars

-------------------------------------------------------------------------------
(* Properties.                                                                 *)

Row == [game : Game, place : Place, user : Account \cup {NoIdentity},
        guest : Guest \cup {NoIdentity}]

TypeOK ==
    /\ rows \subseteq Row
    /\ profile \in [Account -> {"absent", "empty", "filled"}]
    /\ stats \in [Account -> SUBSET Row]
    /\ DOMAIN session = Session
    /\ \A s \in Session :
           \/ session[s] = Idle
           \/ session[s] \in [pc : {"persisted"}, game : Game, own : SUBSET Row]
           \/ session[s] \in [pc : {"upsert", "attribute"}, account : Account, guest : Guest]
           \/ /\ session[s] \in [pc : {"read", "write"}, todo : SUBSET Account,
                                  view : SUBSET Row, own : SUBSET Row]
              /\ session[s].todo # {}
    /\ handed \in [Game -> 0..MaxPersists]

\* "Exactly one of user_id and guest_identity is set for a human; both are NULL for
\* a bot" (models/game.py), and it is that human: the account that sat there, the
\* guest who did, or an account that claimed the guest; every account has its row.
RowsIdentified ==
    \A row \in rows :
        LET identity == Seated[row.game][row.place]
        IN  /\ identity = NoIdentity => row.user = NoIdentity /\ row.guest = NoIdentity
            /\ identity \in Account => row.user = identity /\ row.guest = NoIdentity
            /\ identity \in Guest =>
                   \/ row.user = NoIdentity /\ row.guest = identity
                   \/ row.user \in Account /\ row.guest = NoIdentity
            /\ row.user # NoIdentity => profile[row.user] # "absent"

\* A stored game has one row for each place, however often it is handed over and
\* whatever was claimed in between ("a second call for the same snapshot returns the
\* existing id and writes nothing").
OneRowPerPlace ==
    \A row \in rows : \A p \in Place :
        Cardinality({r \in rows : r.game = row.game /\ r.place = p}) = 1

\* A row somebody was given stays theirs, also when two accounts claim one guest at
\* the same time ("a row already claimed is never re-attributed").
ClaimedOnce ==
    [][\A row \in rows : row.user # NoIdentity => row \in rows']_vars

\* What a session is about to write counts what it committed itself: a claim's total
\* has the claimed games in it, a finished game's totals have the game in them.
OwnWorkCounted ==
    \A s \in Session :
        session[s].pc = "write" =>
            \A u \in session[s].todo :
                Played(session[s].own, u) \subseteq Played(session[s].view, u)

\* stats_service.py: "rebuilds the whole `user_stats` row from scratch -- never
\* incrementally, because an incremental counter that drifts is undetectable": when
\* nothing is under way and no recompute failed, a total misses no game.
StatsDoNotDrift ==
    (\A s \in Session : Free(s)) => \A u \in Account : stats[u] = Played(rows, u)
===============================================================================
