---------------------------- MODULE ResultsProofs -----------------------------
(***************************************************************************)
(* Theorems about Results, for any games, seats, accounts, guests and      *)
(* sessions: every row is somebody's and stays theirs, a game is stored    *)
(* once, and what a session counts has its own work in it.                 *)
(***************************************************************************)
EXTENDS Results, FiniteSetTheorems, TLAPS

-------------------------------------------------------------------------------
(* The inductive invariant.                                                    *)

Persisted == [pc : {"persisted"}, game : Game, own : SUBSET Row]
Claims == [pc : {"upsert", "attribute"}, account : Account, guest : Guest]
Recompute == [pc : {"read", "write"}, todo : (SUBSET Account) \ {{}},
              view : SUBSET Row, own : SUBSET Row]

Work == {Idle} \cup Persisted \cup Claims \cup Recompute

Types ==
    /\ rows \subseteq Row
    /\ profile \in [Account -> {"absent", "empty", "filled"}]
    /\ stats \in [Account -> SUBSET Row]
    /\ session \in [Session -> Work]
    /\ handed \in [Game -> 0..MaxPersists]

\* A place has one row at most, and a stored game one for each of its places.
Places ==
    /\ \A r, q \in rows : r.game = q.game /\ r.place = q.place => r = q
    /\ \A row \in rows, p \in Place : \E r \in rows : r.game = row.game /\ r.place = p

\* The account a claim is for has its row before the UPDATE.
ClaimantsKnown ==
    \A s \in Session : session[s].pc = "attribute" => profile[session[s].account] # "absent"

\* The rows with an account that one table has are in another.
Kept(table, later) == \A row \in table : row.user # NoIdentity => row \in later

\* What a session committed is still there, and in what it is about to write from.
OwnKept ==
    \A s \in Session :
        /\ session[s].pc \in {"persisted", "read", "write"} => Kept(session[s].own, rows)
        /\ session[s].pc = "write" => Kept(session[s].own, session[s].view)

IInv == Types /\ RowsIdentified /\ Places /\ ClaimantsKnown /\ OwnKept

-------------------------------------------------------------------------------
(* Rows and work.                                                              *)

LEMMA WorkFields ==
    ASSUME NEW w \in Work
    PROVE  /\ w.pc \in {"idle", "persisted", "upsert", "attribute", "read", "write"}
           /\ w.pc = "persisted" => w.game \in Game /\ w.own \subseteq Row
           /\ w.pc \in {"upsert", "attribute"} => w \in Claims
           /\ w.pc \in {"upsert", "attribute"} => w.account \in Account /\ w.guest \in Guest
           /\ w.pc \in {"read", "write"} => /\ w.todo \subseteq Account
                                            /\ w.view \subseteq Row
                                            /\ w.own \subseteq Row
  BY DEF Work, Persisted, Claims, Recompute, Idle

LEMMA IdleTyped == Idle \in Work /\ Idle.pc = "idle"
  BY DEF Work, Idle

LEMMA RecomputingTyped ==
    ASSUME NEW pc \in {"read", "write"}, NEW todo \in SUBSET Account, todo # {},
           NEW view \in SUBSET Row, NEW own \in SUBSET Row,
           NEW w, w = Recomputing(pc, todo, view, own)
    PROVE  /\ w \in Work
           /\ w.pc = pc
           /\ w.own = own
           /\ w.view = view
  BY DEF Recomputing, Work, Recompute

LEMMA ClaimingTyped ==
    ASSUME NEW pc \in {"upsert", "attribute"}, NEW u \in Account, NEW id \in Guest,
           NEW w, w = Claiming(pc, u, id)
    PROVE  /\ w \in Work
           /\ w.pc = pc
           /\ w.account = u
  BY DEF Claiming, Work, Claims

\* Nobody is both an account and a guest, or neither and not NULL.
LEMMA RowOfTyped ==
    ASSUME NEW g \in Game, NEW p \in Place, NEW row, row = RowOf(g, p)
    PROVE  /\ row \in Row
           /\ row.game = g
           /\ row.place = p
           /\ Seated[g][p] = NoIdentity => row.user = NoIdentity /\ row.guest = NoIdentity
           /\ Seated[g][p] \in Account => row.user = Seated[g][p] /\ row.guest = NoIdentity
           /\ Seated[g][p] \in Guest => row.user = NoIdentity /\ row.guest = Seated[g][p]
           /\ row.user # NoIdentity => row.user = Seated[g][p] /\ row.user \in Account
  BY IdentitiesAssumption, SeatedAssumption DEF RowOf, Row

\* The row an UPDATE leaves of one that was there.
Claimed(row, id, u) ==
    IF row \in Unclaimed(rows, id) THEN [row EXCEPT !.user = u, !.guest = NoIdentity] ELSE row

LEMMA ClaimedTyped ==
    ASSUME NEW row \in Row, row \in rows, NEW id \in Guest, NEW u \in Account,
           NEW r, r = Claimed(row, id, u)
    PROVE  /\ r \in Row
           /\ r.game = row.game
           /\ r.place = row.place
           /\ row.user # NoIdentity => r = row
           /\ \/ r = row
              \/ /\ row.user = NoIdentity
                 /\ row.guest = id
                 /\ r.user = u
                 /\ r.guest = NoIdentity
  BY DEF Claimed, Unclaimed, Row

\* Rows with an account are kept by whatever keeps them twice.
LEMMA KeptTwice ==
    ASSUME NEW a, NEW b, NEW c, Kept(a, b), Kept(b, c)
    PROVE  Kept(a, c)
  BY DEF Kept

-------------------------------------------------------------------------------
(* A session's next work.                                                      *)

\* A step that writes no row and gives one session typed work that keeps its own.
LEMMA SessionSteps ==
    ASSUME IInv, NEW s \in Session, NEW w \in Work,
           session' = [session EXCEPT ![s] = w], rows' = rows,
           profile' \in [Account -> {"absent", "empty", "filled"}],
           \A u \in Account : profile[u] # "absent" => profile'[u] # "absent",
           stats' \in [Account -> SUBSET Row],
           handed' \in [Game -> 0..MaxPersists],
           w.pc = "attribute" => profile'[w.account] # "absent",
           w.pc \in {"persisted", "read", "write"} => Kept(w.own, rows),
           w.pc = "write" => Kept(w.own, w.view)
    PROVE  IInv'
  <1>1. ASSUME NEW t \in Session
        PROVE  session'[t] = IF t = s THEN w ELSE session[t]
    BY DEF IInv, Types
  <1>2. Types'
    BY DEF IInv, Types
  <1>3. RowsIdentified'
    <2>1. ASSUME NEW row \in rows, row.user # NoIdentity
          PROVE  profile'[row.user] # "absent"
      BY <2>1 DEF IInv, Types, RowsIdentified, Row
    <2>. QED BY <2>1 DEF IInv, RowsIdentified
  <1>4. Places'
    BY DEF IInv, Places
  <1>5. ClaimantsKnown'
    <2>1. ASSUME NEW t \in Session, session'[t].pc = "attribute"
          PROVE  profile'[session'[t].account] # "absent"
      <3>1. CASE t = s
        BY <1>1, <2>1, <3>1
      <3>2. CASE t # s
        <4>1. session[t].account \in Account /\ session'[t] = session[t]
          BY <1>1, <2>1, <3>2, WorkFields DEF IInv, Types
        <4>. QED BY <2>1, <4>1 DEF IInv, ClaimantsKnown
      <3>. QED BY <3>1, <3>2
    <2>. QED BY <2>1 DEF ClaimantsKnown
  <1>6. OwnKept'
    BY <1>1 DEF IInv, OwnKept, Kept
  <1>. QED BY <1>2, <1>3, <1>4, <1>5, <1>6 DEF IInv

\* The same of a step that writes rows, losing nobody's.
LEMMA OwnKeptByRows ==
    ASSUME IInv, NEW s \in Session, NEW w \in Work,
           session' = [session EXCEPT ![s] = w], Kept(rows, rows'),
           \A u \in Account : profile[u] # "absent" => profile'[u] # "absent",
           w.pc \in {"idle", "persisted", "read"},
           w.pc \in {"persisted", "read"} => Kept(w.own, rows')
    PROVE  OwnKept' /\ ClaimantsKnown'
  <1>1. ASSUME NEW t \in Session
        PROVE  session'[t] = IF t = s THEN w ELSE session[t]
    BY DEF IInv, Types
  <1>2. ASSUME NEW t \in Session, session'[t].pc = "attribute"
        PROVE  profile'[session'[t].account] # "absent"
    <2>1. session'[t] = session[t]
      BY <1>1, <1>2
    <2>2. session[t].account \in Account
      BY <1>2, <2>1, WorkFields DEF IInv, Types
    <2>. QED BY <1>2, <2>1, <2>2 DEF IInv, ClaimantsKnown
  <1>3. ASSUME NEW t \in Session
        PROVE  /\ session'[t].pc \in {"persisted", "read", "write"} => Kept(session'[t].own, rows')
               /\ session'[t].pc = "write" => Kept(session'[t].own, session'[t].view)
    <2>1. CASE t = s
      BY <1>1, <2>1
    <2>2. CASE t # s
      BY <1>1, <2>2, KeptTwice DEF IInv, OwnKept
    <2>. QED BY <2>1, <2>2
  <1>. QED BY <1>2, <1>3 DEF OwnKept, ClaimantsKnown

-------------------------------------------------------------------------------
(* Persistence.                                                                *)

LEMMA WithUsersTyped ==
    ASSUME Types, NEW accounts
    PROVE  /\ WithUsers(accounts) \in [Account -> {"absent", "empty", "filled"}]
           /\ \A u \in Account : profile[u] # "absent" => WithUsers(accounts)[u] # "absent"
           /\ \A u \in Account \cap accounts : WithUsers(accounts)[u] # "absent"
  BY DEF Types, WithUsers

\* A game that is stored already adds no row; one that is not adds its places, whose
\* accounts are given a row in the same transaction.
LEMMA PersistGameKeeps ==
    ASSUME IInv, NEW s \in Session, NEW g \in Game, PersistGame(s, g)
    PROVE  IInv'
  <1>1. Types /\ RowsIdentified /\ Places
    BY DEF IInv
  <1>2. handed' \in [Game -> 0..MaxPersists]
    <2>1. handed[g] \in 0..MaxPersists /\ handed[g] < MaxPersists
      BY <1>1 DEF Types, PersistGame
    <2>. QED BY <1>1, <2>1, BoundsAssumption DEF Types, PersistGame
  <1>3. PICK w : w = [pc |-> "persisted", game |-> g, own |-> rows']
    OBVIOUS
  <1>4. session' = [session EXCEPT ![s] = w] /\ stats' = stats
    BY <1>3 DEF PersistGame
  <1>5. CASE Stored(g)
    <2>1. rows' = rows /\ profile' = profile
      BY <1>5 DEF PersistGame
    <2>2. w \in Work /\ w.pc = "persisted" /\ w.own = rows
      BY <1>1, <1>3, <2>1 DEF Work, Persisted, Types
    <2>3. Kept(w.own, rows)
      BY <2>2 DEF Kept
    <2>4. profile' \in [Account -> {"absent", "empty", "filled"}] /\ stats' \in [Account -> SUBSET Row]
      BY <1>1, <1>4, <2>1 DEF Types
    <2>. QED BY <1>2, <1>4, <2>1, <2>2, <2>3, <2>4, SessionSteps
  <1>6. CASE ~Stored(g)
    <2>1. /\ rows' = rows \cup RowsOf(g)
          /\ profile' = WithUsers({Seated[g][p] : p \in Place} \cap Account)
      BY <1>6 DEF PersistGame
    <2>2. \A row \in rows : row.game # g
      BY <1>6 DEF Stored
    <2>3. ASSUME NEW row \in RowsOf(g)
          PROVE  \E p \in Place : row = RowOf(g, p)
      BY DEF RowsOf
    <2>4. \A row \in RowsOf(g) : row \in Row /\ row.game = g
      BY <2>3, RowOfTyped
    <2>5. rows' \subseteq Row
      BY <1>1, <2>1, <2>4 DEF Types
    <2>6. w \in Work /\ w.pc = "persisted" /\ w.own = rows'
      BY <1>3, <2>5 DEF Work, Persisted
    <2>7. /\ profile' \in [Account -> {"absent", "empty", "filled"}]
          /\ \A u \in Account : profile[u] # "absent" => profile'[u] # "absent"
          /\ \A u \in Account \cap {Seated[g][p] : p \in Place} : profile'[u] # "absent"
      BY <1>1, <2>1, WithUsersTyped
    <2>8. Types'
      BY <1>1, <1>2, <1>4, <2>5, <2>6, <2>7 DEF Types
    <2>9. RowsIdentified'
      <3>1. ASSUME NEW row \in rows
            PROVE  /\ Seated[row.game][row.place] = NoIdentity =>
                         row.user = NoIdentity /\ row.guest = NoIdentity
                   /\ Seated[row.game][row.place] \in Account =>
                         row.user = Seated[row.game][row.place] /\ row.guest = NoIdentity
                   /\ Seated[row.game][row.place] \in Guest =>
                         \/ row.user = NoIdentity /\ row.guest = Seated[row.game][row.place]
                         \/ row.user \in Account /\ row.guest = NoIdentity
                   /\ row.user # NoIdentity => profile'[row.user] # "absent"
        BY <1>1, <2>7 DEF RowsIdentified, Types, Row
      <3>2. ASSUME NEW row \in RowsOf(g)
            PROVE  /\ Seated[row.game][row.place] = NoIdentity =>
                         row.user = NoIdentity /\ row.guest = NoIdentity
                   /\ Seated[row.game][row.place] \in Account =>
                         row.user = Seated[row.game][row.place] /\ row.guest = NoIdentity
                   /\ Seated[row.game][row.place] \in Guest =>
                         \/ row.user = NoIdentity /\ row.guest = Seated[row.game][row.place]
                         \/ row.user \in Account /\ row.guest = NoIdentity
                   /\ row.user # NoIdentity => profile'[row.user] # "absent"
        <4>1. PICK p \in Place : row = RowOf(g, p)
          BY <2>3
        <4>. QED BY <2>7, <4>1, RowOfTyped
      <3>. QED BY <2>1, <3>1, <3>2 DEF RowsIdentified
    <2>10. Places'
      <3>1. ASSUME NEW r \in RowsOf(g), NEW q \in RowsOf(g), r.place = q.place
            PROVE  r = q
        BY <2>3, <3>1, RowOfTyped
      <3>2. ASSUME NEW p \in Place
            PROVE  \E r \in RowsOf(g) : r.game = g /\ r.place = p
        BY RowOfTyped DEF RowsOf
      <3>3. \A r, q \in rows' : r.game = q.game /\ r.place = q.place => r = q
        BY <1>1, <2>1, <2>2, <2>4, <3>1 DEF Places
      <3>4. \A row \in rows', p \in Place : \E r \in rows' : r.game = row.game /\ r.place = p
        BY <1>1, <2>1, <2>4, <3>2 DEF Places
      <3>. QED BY <3>3, <3>4 DEF Places
    <2>11. Kept(rows, rows') /\ Kept(rows', rows')
      BY <2>1 DEF Kept
    <2>12. OwnKept' /\ ClaimantsKnown'
      BY <1>4, <2>6, <2>7, <2>11, OwnKeptByRows
    <2>. QED BY <2>8, <2>9, <2>10, <2>12 DEF IInv
  <1>. QED BY <1>5, <1>6

LEMMA PersistFailsKeeps ==
    ASSUME IInv, NEW g \in Game, PersistFails(g)
    PROVE  IInv'
  <1>1. handed' \in [Game -> 0..MaxPersists]
    <2>1. handed[g] \in 0..MaxPersists /\ handed[g] < MaxPersists
      BY DEF IInv, Types, PersistFails
    <2>. QED BY <2>1, BoundsAssumption DEF IInv, Types, PersistFails
  <1>. QED BY <1>1 DEF PersistFails, IInv, Types, RowsIdentified, Places, ClaimantsKnown,
                       OwnKept, Kept

-------------------------------------------------------------------------------
(* Statistics.                                                                 *)

LEMMA CollectKeeps ==
    ASSUME IInv, NEW s \in Session, Collect(s)
    PROVE  IInv'
  <1>1. /\ Types
        /\ session[s] \in Work
        /\ session[s].pc = "persisted"
        /\ Kept(session[s].own, rows)
    BY DEF IInv, Types, OwnKept, Collect
  <1>2. session[s].own \in SUBSET Row /\ rows \in SUBSET Row
    BY <1>1, WorkFields DEF Types
  <1>3. PICK todo : todo = ToRecompute(session[s].game)
    OBVIOUS
  <1>4. todo \in SUBSET Account
    BY <1>1, <1>3 DEF ToRecompute, Types, Row
  <1>5. PICK w : w = IF todo = {} THEN Idle ELSE Recomputing("write", todo, rows, session[s].own)
    OBVIOUS
  <1>6. /\ session' = [session EXCEPT ![s] = w]
        /\ rows' = rows /\ profile' = profile /\ stats' = stats /\ handed' = handed
    BY <1>3, <1>5 DEF Collect
  <1>7. /\ w \in Work
        /\ \/ w.pc = "idle"
           \/ w.pc = "write" /\ w.own = session[s].own /\ w.view = rows
    <2>1. CASE todo = {}
      BY <1>5, <2>1, IdleTyped
    <2>2. CASE todo # {}
      BY <1>2, <1>4, <1>5, <2>2, RecomputingTyped
    <2>. QED BY <2>1, <2>2
  <1>. QED BY <1>1, <1>6, <1>7, SessionSteps DEF Types

LEMMA ReadPlayedKeeps ==
    ASSUME IInv, NEW s \in Session, ReadPlayed(s)
    PROVE  IInv'
  <1>1. /\ Types
        /\ session[s] \in Work
        /\ session[s].pc = "read"
        /\ Kept(session[s].own, rows)
    BY DEF IInv, Types, OwnKept, ReadPlayed
  <1>2. /\ session[s].own \in SUBSET Row
        /\ session[s].todo \in SUBSET Account
        /\ rows \in SUBSET Row
    BY <1>1, WorkFields DEF Types
  <1>3. session[s].todo # {}
    BY <1>1 DEF Work, Recompute, Persisted, Claims, Idle
  <1>4. PICK w : w = Recomputing("write", session[s].todo, rows, session[s].own)
    OBVIOUS
  <1>5. /\ session' = [session EXCEPT ![s] = w]
        /\ rows' = rows /\ profile' = profile /\ stats' = stats /\ handed' = handed
    BY <1>4 DEF ReadPlayed
  <1>6. w \in Work /\ w.pc = "write" /\ w.own = session[s].own /\ w.view = rows
    BY <1>2, <1>3, <1>4, RecomputingTyped
  <1>. QED BY <1>1, <1>5, <1>6, SessionSteps DEF Types

LEMMA WriteStatsKeeps ==
    ASSUME IInv, NEW s \in Session, WriteStats(s)
    PROVE  IInv'
  <1>1. /\ Types
        /\ session[s] \in Work
        /\ session[s].pc = "write"
        /\ Kept(session[s].own, rows)
    BY DEF IInv, Types, OwnKept, WriteStats
  <1>2. /\ session[s].own \in SUBSET Row
        /\ session[s].todo \in SUBSET Account
        /\ session[s].view \in SUBSET Row
    BY <1>1, WorkFields
  <1>3. PICK u \in session[s].todo :
           /\ stats' = [stats EXCEPT ![u] = Played(session[s].view, u)]
           /\ session' = [session EXCEPT ![s] =
                            IF session[s].todo \ {u} = {} THEN Idle
                            ELSE Recomputing("read", session[s].todo \ {u}, {}, session[s].own)]
    BY DEF WriteStats
  <1>4. PICK w : w = IF session[s].todo \ {u} = {} THEN Idle
                     ELSE Recomputing("read", session[s].todo \ {u}, {}, session[s].own)
    OBVIOUS
  <1>5. /\ session' = [session EXCEPT ![s] = w]
        /\ rows' = rows /\ profile' = profile /\ handed' = handed
    BY <1>3, <1>4 DEF WriteStats
  <1>6. /\ w \in Work
        /\ \/ w.pc = "idle"
           \/ w.pc = "read" /\ w.own = session[s].own
    <2>1. CASE session[s].todo \ {u} = {}
      BY <1>4, <2>1, IdleTyped
    <2>2. CASE session[s].todo \ {u} # {}
      BY <1>2, <1>4, <2>2, RecomputingTyped
    <2>. QED BY <2>1, <2>2
  <1>7. stats' \in [Account -> SUBSET Row]
    BY <1>1, <1>2, <1>3 DEF Types, Played
  <1>. QED BY <1>1, <1>5, <1>6, <1>7, SessionSteps DEF Types

LEMMA StatsFailKeeps ==
    ASSUME IInv, NEW s \in Session, StatsFail(s)
    PROVE  IInv'
  <1>. QED BY IdleTyped, SessionSteps DEF StatsFail, IInv, Types

-------------------------------------------------------------------------------
(* Claims and sign-ins.                                                        *)

LEMMA ClaimKeeps ==
    ASSUME IInv, NEW s \in Session, NEW u \in Account, NEW id \in Guest, Claim(s, u, id)
    PROVE  IInv'
  <1>1. PICK w : w = Claiming(IF profile[u] = "absent" THEN "upsert" ELSE "attribute", u, id)
    OBVIOUS
  <1>2. /\ w \in Work
        /\ w.pc \in {"upsert", "attribute"}
        /\ w.pc = "attribute" => profile[w.account] # "absent"
    BY <1>1, ClaimingTyped
  <1>3. session' = [session EXCEPT ![s] = w]
    BY <1>1 DEF Claim
  <1>. QED BY <1>2, <1>3, SessionSteps DEF Claim, IInv, Types

LEMMA ClaimUpsertKeeps ==
    ASSUME IInv, NEW s \in Session, ClaimUpsert(s)
    PROVE  IInv'
  <1>1. session[s] \in Work /\ session[s].pc = "upsert"
    BY DEF IInv, Types, ClaimUpsert
  <1>2. session[s] \in Claims /\ session[s].account \in Account
    BY <1>1, WorkFields
  <1>3. PICK w : w = [session[s] EXCEPT !.pc = "attribute"]
    OBVIOUS
  <1>4. w \in Claims /\ w.pc = "attribute" /\ w.account = session[s].account
    BY <1>2, <1>3 DEF Claims
  <1>5. session' = [session EXCEPT ![s] = w]
    BY <1>3 DEF ClaimUpsert
  <1>6. /\ profile' \in [Account -> {"absent", "empty", "filled"}]
        /\ profile'[w.account] # "absent"
        /\ \A u \in Account : profile[u] # "absent" => profile'[u] # "absent"
    BY <1>2, <1>4 DEF IInv, Types, ClaimUpsert
  <1>7. w \in Work
    BY <1>4 DEF Work
  <1>. QED BY <1>4, <1>5, <1>6, <1>7, SessionSteps DEF ClaimUpsert, IInv, Types

\* The UPDATE changes only rows without an account.
LEMMA AttributeRows ==
    ASSUME IInv, NEW u \in Account, NEW id \in Guest, profile[u] # "absent",
           NEW later, later = WithClaimed(id, u)
    PROVE  /\ later \subseteq Row
           /\ Kept(rows, later)
           /\ \A r \in later : \E row \in rows : r = Claimed(row, id, u)
           /\ \A row \in rows : Claimed(row, id, u) \in later
  <1>1. later = {Claimed(row, id, u) : row \in rows}
    BY DEF WithClaimed, Claimed
  <1>2. rows \subseteq Row
    BY DEF IInv, Types
  <1>. QED BY <1>1, <1>2, ClaimedTyped DEF Kept

LEMMA AttributeKeeps ==
    ASSUME IInv, NEW s \in Session, Attribute(s)
    PROVE  IInv' /\ Kept(rows, rows')
  <1>1. Types /\ RowsIdentified /\ Places /\ ClaimantsKnown
    BY DEF IInv
  <1>2. session[s] \in Work /\ session[s].pc = "attribute"
    BY <1>1 DEF Types, Attribute
  <1>3. PICK u \in Account : u = session[s].account
    BY <1>2, WorkFields
  <1>4. PICK id \in Guest : id = session[s].guest
    BY <1>2, WorkFields
  <1>5. /\ rows' = WithClaimed(id, u)
        /\ profile' = profile /\ stats' = stats /\ handed' = handed
    BY <1>3, <1>4 DEF Attribute
  <1>6. profile[u] # "absent"
    BY <1>1, <1>2, <1>3 DEF ClaimantsKnown
  <1>7. /\ rows' \subseteq Row
        /\ Kept(rows, rows')
        /\ \A r \in rows' : \E row \in rows : r = Claimed(row, id, u)
        /\ \A row \in rows : Claimed(row, id, u) \in rows'
    BY <1>5, <1>6, AttributeRows
  <1>8. rows \subseteq Row
    BY <1>1 DEF Types
  <1>9. PICK w : w = IF Unclaimed(rows, id) = {} THEN Idle ELSE AfterClaim(u, rows')
    OBVIOUS
  <1>10. session' = [session EXCEPT ![s] = w]
    BY <1>3, <1>4, <1>9 DEF Attribute
  <1>11. /\ w \in Work
         /\ \/ w.pc = "idle"
            \/ w.pc = "read" /\ w.own = rows'
    <2>1. CASE Unclaimed(rows, id) = {}
      BY <1>9, <2>1, IdleTyped
    <2>2. CASE Unclaimed(rows, id) # {}
      <3>1. w = Recomputing("read", {u}, {}, rows')
        BY <1>9, <2>2 DEF AfterClaim
      <3>. QED BY <1>7, <3>1, RecomputingTyped
    <2>. QED BY <2>1, <2>2
  <1>12. Types'
    BY <1>1, <1>5, <1>7, <1>10, <1>11 DEF Types
  <1>13. RowsIdentified'
    <2>1. ASSUME NEW r \in rows'
          PROVE  /\ Seated[r.game][r.place] = NoIdentity =>
                       r.user = NoIdentity /\ r.guest = NoIdentity
                 /\ Seated[r.game][r.place] \in Account =>
                       r.user = Seated[r.game][r.place] /\ r.guest = NoIdentity
                 /\ Seated[r.game][r.place] \in Guest =>
                       \/ r.user = NoIdentity /\ r.guest = Seated[r.game][r.place]
                       \/ r.user \in Account /\ r.guest = NoIdentity
                 /\ r.user # NoIdentity => profile[r.user] # "absent"
      <3>1. PICK row \in rows : r = Claimed(row, id, u)
        BY <1>7
      <3>2. row \in Row /\ r.game = row.game /\ r.place = row.place
        BY <1>8, <3>1, ClaimedTyped
      <3>3. CASE r = row
        BY <1>1, <3>3 DEF RowsIdentified
      <3>4. CASE r # row
        <4>1. row.user = NoIdentity /\ row.guest = id /\ r.user = u /\ r.guest = NoIdentity
          BY <3>1, <3>2, <3>4, ClaimedTyped
        <4>2. id # NoIdentity
          BY IdentitiesAssumption
        <4>3. /\ Seated[row.game][row.place] # NoIdentity
              /\ Seated[row.game][row.place] \notin Account
          BY <1>1, <4>1, <4>2 DEF RowsIdentified
        <4>. QED BY <1>6, <3>2, <4>1, <4>3
      <3>. QED BY <3>3, <3>4
    <2>. QED BY <1>5, <2>1 DEF RowsIdentified
  <1>14. Places'
    <2>1. ASSUME NEW r \in rows', NEW q \in rows', r.game = q.game, r.place = q.place
          PROVE  r = q
      <3>1. PICK a \in rows : r = Claimed(a, id, u)
        BY <1>7
      <3>2. PICK b \in rows : q = Claimed(b, id, u)
        BY <1>7
      <3>3. a.game = b.game /\ a.place = b.place
        BY <1>8, <2>1, <3>1, <3>2, ClaimedTyped
      <3>. QED BY <1>1, <3>1, <3>2, <3>3 DEF Places
    <2>2. ASSUME NEW r \in rows', NEW p \in Place
          PROVE  \E q \in rows' : q.game = r.game /\ q.place = p
      <3>1. PICK a \in rows : r = Claimed(a, id, u)
        BY <1>7
      <3>2. PICK b \in rows : b.game = a.game /\ b.place = p
        BY <1>1 DEF Places
      <3>. QED BY <1>7, <1>8, <3>1, <3>2, ClaimedTyped
    <2>. QED BY <2>1, <2>2 DEF Places
  <1>15. Kept(rows', rows')
    BY DEF Kept
  <1>16. OwnKept' /\ ClaimantsKnown'
    BY <1>5, <1>7, <1>10, <1>11, <1>15, OwnKeptByRows
  <1>. QED BY <1>7, <1>12, <1>13, <1>14, <1>16 DEF IInv

LEMMA UpsertUserKeeps ==
    ASSUME IInv, NEW u \in Account, UpsertUser(u)
    PROVE  IInv'
  <1>1. /\ profile' \in [Account -> {"absent", "empty", "filled"}]
        /\ \A v \in Account : profile[v] # "absent" => profile'[v] # "absent"
        /\ rows' = rows /\ stats' = stats /\ session' = session /\ handed' = handed
    BY DEF IInv, Types, UpsertUser
  <1>2. Types' /\ Places' /\ OwnKept'
    BY <1>1 DEF IInv, Types, Places, OwnKept, Kept
  <1>3. RowsIdentified'
    <2>1. ASSUME NEW row \in rows, row.user # NoIdentity
          PROVE  profile'[row.user] # "absent"
      BY <1>1, <2>1 DEF IInv, Types, RowsIdentified, Row
    <2>. QED BY <1>1, <2>1 DEF IInv, RowsIdentified
  <1>4. ClaimantsKnown'
    <2>1. ASSUME NEW t \in Session, session[t].pc = "attribute"
          PROVE  session[t].account \in Account
      BY <2>1, WorkFields DEF IInv, Types
    <2>. QED BY <1>1, <2>1 DEF IInv, ClaimantsKnown
  <1>. QED BY <1>2, <1>3, <1>4 DEF IInv

-------------------------------------------------------------------------------
(* Theorems.                                                                   *)

LEMMA InitInv ==
    ASSUME Init
    PROVE  IInv
  <1>1. Types
    BY IdleTyped, BoundsAssumption DEF Init, Types
  <1>2. RowsIdentified /\ Places
    BY DEF Init, RowsIdentified, Places
  <1>3. ClaimantsKnown /\ OwnKept
    BY IdleTyped DEF Init, ClaimantsKnown, OwnKept
  <1>. QED BY <1>1, <1>2, <1>3 DEF IInv

\* One lemma for each step of a session.
LEMMA NextKeeps ==
    ASSUME IInv, [Next]_vars
    PROVE  IInv'
  <1>1. CASE \E s \in Session, g \in Game : PersistGame(s, g)
    BY <1>1, PersistGameKeeps
  <1>2. CASE \E g \in Game : PersistFails(g)
    BY <1>2, PersistFailsKeeps
  <1>3. CASE \E s \in Session : Collect(s)
    BY <1>3, CollectKeeps
  <1>4. CASE \E s \in Session : ReadPlayed(s)
    BY <1>4, ReadPlayedKeeps
  <1>5. CASE \E s \in Session : WriteStats(s)
    BY <1>5, WriteStatsKeeps
  <1>6. CASE \E s \in Session : StatsFail(s)
    BY <1>6, StatsFailKeeps
  <1>7. CASE \E s \in Session, u \in Account, id \in Guest : Claim(s, u, id)
    BY <1>7, ClaimKeeps
  <1>8. CASE \E s \in Session : ClaimUpsert(s)
    BY <1>8, ClaimUpsertKeeps
  <1>9. CASE \E s \in Session : Attribute(s)
    BY <1>9, AttributeKeeps
  <1>10. CASE \E u \in Account : UpsertUser(u)
    BY <1>10, UpsertUserKeeps
  <1>11. CASE UNCHANGED vars
    BY <1>11 DEF vars, IInv, Types, RowsIdentified, Places, ClaimantsKnown, OwnKept, Kept
  <1>. QED BY <1>1, <1>2, <1>3, <1>4, <1>5, <1>6, <1>7, <1>8, <1>9, <1>10, <1>11 DEF Next

LEMMA Inductive == Spec => []IInv
  <1>1. Init => IInv
    BY InitInv
  <1>2. IInv /\ [Next]_vars => IInv'
    BY NextKeeps
  <1>. QED BY <1>1, <1>2, PTL DEF Spec

\* Tables and sessions are well typed; no session recomputes for nobody.
THEOREM TypeCorrect == Spec => []TypeOK
  <1>1. IInv => TypeOK
    <2>. SUFFICES ASSUME IInv
                  PROVE  TypeOK
      OBVIOUS
    <2>1. Types
      BY DEF IInv
    <2>2. ASSUME NEW s \in Session
          PROVE  \/ session[s] = Idle
                 \/ session[s] \in [pc : {"persisted"}, game : Game, own : SUBSET Row]
                 \/ session[s] \in [pc : {"upsert", "attribute"}, account : Account, guest : Guest]
                 \/ /\ session[s] \in [pc : {"read", "write"}, todo : SUBSET Account,
                                       view : SUBSET Row, own : SUBSET Row]
                    /\ session[s].todo # {}
      <3>1. session[s] \in Work
        BY <2>1 DEF Types
      <3>. QED BY <3>1 DEF Work, Persisted, Claims, Recompute
    <2>. QED BY <2>1, <2>2 DEF Types, TypeOK
  <1>. QED BY <1>1, Inductive, PTL

\* A row of a person names that person, or the account that claimed them, and never
\* two; a row of a bot names nobody; every account named has its own row.
THEOREM RowsAlwaysIdentified == Spec => []RowsIdentified
  <1>1. IInv => RowsIdentified
    BY DEF IInv
  <1>. QED BY <1>1, Inductive, PTL

\* However often a game is handed over, it is stored once, with one row a place.
THEOREM StoredOnce == Spec => []OneRowPerPlace
  <1>1. IInv => OneRowPerPlace
    <2>. SUFFICES ASSUME IInv, NEW row \in rows, NEW p \in Place
                  PROVE  Cardinality({r \in rows : r.game = row.game /\ r.place = p}) = 1
      BY DEF OneRowPerPlace
    <2>1. PICK q \in rows : q.game = row.game /\ q.place = p
      BY DEF IInv, Places
    <2>2. {r \in rows : r.game = row.game /\ r.place = p} = {q}
      BY <2>1 DEF IInv, Places
    <2>. QED BY <2>2, FS_Singleton
  <1>. QED BY <1>1, Inductive, PTL

\* What a session is about to write counts the rows it committed.
THEOREM OwnWorkIsCounted == Spec => []OwnWorkCounted
  <1>1. IInv => OwnWorkCounted
    <2>. SUFFICES ASSUME IInv, NEW s \in Session, session[s].pc = "write",
                         NEW u \in session[s].todo
                  PROVE  Played(session[s].own, u) \subseteq Played(session[s].view, u)
      BY DEF OwnWorkCounted
    <2>1. Kept(session[s].own, session[s].view)
      BY DEF IInv, OwnKept
    <2>2. session[s] \in Work
      BY DEF IInv, Types
    <2>3. u # NoIdentity
      BY <2>2, WorkFields, IdentitiesAssumption
    <2>. QED BY <2>1, <2>3 DEF Kept, Played
  <1>. QED BY <1>1, Inductive, PTL

\* No step takes a row away from the account that has it, a second claim's neither.
THEOREM RowsClaimedOnce == Spec => ClaimedOnce
  <1>1. IInv /\ [Next]_vars => [Kept(rows, rows')]_vars
    <2>. SUFFICES ASSUME IInv, Next
                  PROVE  Kept(rows, rows')
      OBVIOUS
    <2>1. CASE \E s \in Session, g \in Game : PersistGame(s, g)
      BY <2>1 DEF PersistGame, Kept
    <2>2. CASE \E s \in Session : Attribute(s)
      BY <2>2, AttributeKeeps
    <2>3. CASE rows' = rows
      BY <2>3 DEF Kept
    <2>. QED BY <2>1, <2>2, <2>3 DEF Next, PersistFails, Collect, ReadPlayed, WriteStats,
                StatsFail, Claim, ClaimUpsert, UpsertUser
  <1>2. [Kept(rows, rows')]_vars =>
            [\A row \in rows : row.user # NoIdentity => row \in rows']_vars
    BY DEF Kept
  <1>. QED BY <1>1, <1>2, Inductive, PTL DEF Spec, ClaimedOnce
===============================================================================
