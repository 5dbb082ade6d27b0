--------------------------- MODULE RoomEventsInStep ---------------------------
(***************************************************************************)
(* Theorems about RoomEvents, for any players, weeks, calls and            *)
(* connections: once everything is emitted, a seated connection that       *)
(* dropped nothing shows the game as it is, and one that dropped events    *)
(* and asked for the state since is current again.                         *)
(*                                                                         *)
(* Neither is inductive, for both speak of the moment when nothing is in   *)
(* flight.  The invariant below says at every moment what a screen is      *)
(* about to show: what it shows now, and what every event on its way will  *)
(* put there, leaves nothing out once the later events are added.          *)
(***************************************************************************)
EXTENDS RoomEventsProofs

-------------------------------------------------------------------------------
(* What is on its way.                                                         *)

Pending(x) == {e \in InFlight : Reaches(e, x)}
Later(x, s) == {e \in Pending(x) : e.seq > s}

\* x has dropped an event, or will drop one it has not received yet.
Void(x) ==
    \/ client[x].dropped
    \/ \E e \in Pending(x) : e.seq <= client[x].seq
    \/ \E e, f \in Pending(x) : e # f /\ e.seq = f.seq

OrderOf(m, p) == m.kind = "order" /\ m.week = room.week /\ m.player = p
OrdersLater(x, s) == {p \in Player : \E e \in Later(x, s) : OrderOf(e.msg, p)}

\* finish_game has not taken its number yet; the debrief is there, or will be.
Ending == \E t \in Task : tasks[t].then = "finish"
WillFinish(x) ==
    client[x].finished \/ (\E e \in Pending(x) : e.msg.kind = "finished") \/ Ending

Finishes(t) == tasks[t].then \in {"finish", "persist"}

\* The seat is swapped, and finish_game will not give it back.
Excused(x) ==
    /\ Over(room) /\ x \in room.bots
    /\ \A t \in Task : Finishes(t) => x \in tasks[t].copy.bots

-------------------------------------------------------------------------------
(* What x ends up with, from a screen that shows v (recs, st, b) and has        *)
(* everything up to the number s.                                               *)

ViewFrom(x, s, v) ==
    \/ \E e \in Later(x, s) : ShowsView(e.msg)
    \/ /\ v.week = room.week
       /\ \/ (v.over <=> Over(room)) /\ v.decided \cup OrdersLater(x, s) = room.decided
          \/ /\ Over(room) /\ ~v.over /\ WillFinish(x)
             /\ v.decided \cup OrdersLater(x, s) = room.lastOrders

RecordOf(m, w) == (m.kind = "record" /\ m.week = w) \/ (m.kind = "full" /\ w \in m.records)

RecordsFrom(x, s, recs) ==
    \A w \in Closed(room) : w \in recs \/ \E e \in Later(x, s) : RecordOf(e.msg, w)

ShowsFrom(x, s, st) ==
    \/ \E e \in Later(x, s) : e.msg.kind \in {"room", "finished"}
    \/ st = room.state
    \/ Over(room) /\ Ending

BotsFrom(x, s, b) ==
    (\E e \in Later(x, s) : e.msg.kind = "host") \/ Over(room) \/ b = room.bots

\* From what it shows now, and from whatever it will show on the way.
ViewOK(x) ==
    /\ ViewFrom(x, client[x].seq, client[x].view)
    /\ \A e \in Pending(x) : ShowsView(e.msg) => ViewFrom(x, e.seq, e.msg.view)
RecordsOK(x) ==
    /\ RecordsFrom(x, client[x].seq, client[x].records)
    /\ \A e \in Pending(x) : e.msg.kind = "full" => RecordsFrom(x, e.seq, e.msg.records)
ShowsOK(x) ==
    /\ ShowsFrom(x, client[x].seq, client[x].shows)
    /\ \A e \in Pending(x) :
         /\ e.msg.kind = "room" => ShowsFrom(x, e.seq, e.msg.state)
         /\ e.msg.kind = "finished" => ShowsFrom(x, e.seq, "finished")
BotsOK(x) ==
    /\ BotsFrom(x, client[x].seq, client[x].bots)
    /\ \A e \in Pending(x) : e.msg.kind = "host" => BotsFrom(x, e.seq, e.msg.bots)

WillSeeAll(x) ==
    client[x].on /\ ~Excused(x) /\ ~Void(x) =>
        /\ ViewOK(x)
        /\ x \in Player => RecordsOK(x)
        /\ x = Host => ShowsOK(x) /\ BotsOK(x)

-------------------------------------------------------------------------------
(* The answer to the last question.                                            *)

Answers(e, x) ==
    /\ e.msg.to = <<x, client[x].gen>>
    /\ e.msg.kind = IF x = Host THEN "host" ELSE "full"
    /\ e.msg.view = View(room)
    /\ x \in Player => e.msg.records = Closed(room)

\* It has been taken, or it is the one event of that number x will receive.
Answered(x) ==
    \/ /\ client[x].seq = room.seq
       /\ client[x].view = View(room)
       /\ x \in Player => client[x].records = Closed(room)
    \/ /\ client[x].seq < room.seq
       /\ \E e \in InFlight : e.seq = room.seq /\ Answers(e, x)
       /\ \A e \in InFlight : e.seq = room.seq /\ Reaches(e, x) => Answers(e, x)

-------------------------------------------------------------------------------
(* The invariant.                                                              *)

\* While the game runs, no number is above the room's.
RunningInv ==
    ~Over(room) =>
      /\ \A e \in InFlight : e.seq <= room.seq
      /\ \A x \in Person : client[x].seq <= room.seq /\ client[x].asked <= room.seq

AskedInv ==
    ~Over(room) => \A x \in Person : IsSeated(x) /\ client[x].asked = room.seq => Answered(x)

\* Nothing is addressed to a connection that is still to come.
Sender(m, x) == \E g \in 0..client[x].gen : m.to = <<x, g>>
AddressInv ==
    /\ \A x \in Person : room.seat[x] <= client[x].gen
    /\ \A t \in Task, x \in Person : Finishes(t) => tasks[t].copy.seat[x] <= client[x].gen
    /\ \A e \in InFlight :
         /\ e.msg.to = Everybody \/ \E x \in Person : Sender(e.msg, x)
         /\ ShowsView(e.msg) => e.msg.to # Everybody

SeatedInv == ~Over(room) => \A x \in Person : client[x].on => IsSeated(x)

\* finish_game's copy is of the same last week; what is numbered after it is of the
\* finished room.
EndInv ==
    /\ \A t \in Task : Finishes(t) =>
         /\ tasks[t].copy.decided = room.decided
         /\ tasks[t].copy.lastOrders = room.lastOrders
    /\ \A e \in InFlight : e.msg.kind = "finished" => Over(room)
    /\ \A e \in InFlight : e.msg.kind = "room" /\ e.msg.state # "finished" =>
         /\ e.seq <= room.seq
         /\ \A t \in Task : Finishes(t) => e.seq <= tasks[t].copy.seq

StepInv ==
    /\ IInv /\ RunningInv /\ AskedInv /\ AddressInv /\ SeatedInv /\ EndInv
    /\ \A x \in Person : WillSeeAll(x)

-------------------------------------------------------------------------------
(* What a section may send.                                                    *)

\* The messages of a section that leaves the document doc: beyond Telling(doc), they
\* are addressed to everybody or to a seat, and tell Host what doc says.
Honest(doc) ==
    {m \in Telling(doc) :
        /\ m.to = Everybody \/ \E x \in Person : m.to = To(doc, x)
        /\ ShowsView(m) => m.to # Everybody
        /\ m.kind = "order" => m.to = Everybody
        /\ m.kind = "host" => m.bots = doc.bots
        /\ m.kind = "room" =>
              m.state = doc.state \/ (~Over(doc) /\ \E p \in Player : m.to = To(doc, p))
        /\ m.kind = "finished" => Over(doc) /\ m.to = Everybody}

LEMMA People == Player \subseteq Person /\ Host \in Person /\ Host \notin Player
  BY PeopleAssumption DEF Person

LEMMA Addresses ==
    ASSUME NEW doc \in Document, NEW x \in Person
    PROVE  /\ To(doc, x) # Everybody
           /\ To(doc, x) = <<x, doc.seat[x]>>
           /\ \A y \in Person, g \in Nat : To(doc, x) = <<y, g>> <=> x = y /\ doc.seat[x] = g
  BY DEF To, Everybody

LEMMA HonestMessages ==
    ASSUME NEW doc \in Document
    PROVE  /\ Note \in Honest(doc)
           /\ Over(doc) => GameFinished \in Honest(doc)
           /\ RoomState(doc.state) \in Honest(doc)
           /\ ~Over(doc) => \A p \in Player :
                 [RoomState("running") EXCEPT !.to = To(doc, p)] \in Honest(doc)
           /\ \A x \in Person : [Note EXCEPT !.to = To(doc, x)] \in Honest(doc)
           /\ ~Over(doc) => \A p \in doc.decided : OrderSubmitted(doc, p) \in Honest(doc)
           /\ \A p \in Player : YourState(doc, p) \in Honest(doc)
           /\ \A p \in Player : YourFullState(doc, p) \in Honest(doc)
           /\ HostState(doc) \in Honest(doc)
           /\ \A p \in Player, w \in Closed(doc) : YourWeekClosed(doc, p, w) \in Honest(doc)
  <1>1. doc.state \in RoomStates /\ "running" \in RoomStates
    BY DEF Document, RoomStates
  <1>2. /\ Note \in Honest(doc)
        /\ Over(doc) => GameFinished \in Honest(doc)
    BY MessagesTell DEF Honest, Note, GameFinished, ShowsView
  <1>3. RoomState(doc.state) \in Honest(doc)
    BY <1>1, MessagesTell DEF Honest, RoomState, ShowsView
  <1>4. ASSUME ~Over(doc), NEW p \in Player
        PROVE  [RoomState("running") EXCEPT !.to = To(doc, p)] \in Honest(doc)
    <2>. DEFINE m == [RoomState("running") EXCEPT !.to = To(doc, p)]
    <2>1. m.kind = "room" /\ m.to = To(doc, p)
      BY DEF RoomState
    <2>2. m \in Telling(doc)
      BY <1>1, People, MessagesTell
    <2>. HIDE DEF m
    <2>3. m \in Honest(doc)
      BY <1>4, <2>1, <2>2, People DEF Honest, ShowsView
    <2>. QED BY <2>3 DEF m
  <1>5. ASSUME NEW x \in Person
        PROVE  [Note EXCEPT !.to = To(doc, x)] \in Honest(doc)
    <2>. DEFINE m == [Note EXCEPT !.to = To(doc, x)]
    <2>1. m.kind = "note" /\ m.to = To(doc, x)
      BY DEF Note
    <2>2. m \in Telling(doc)
      BY MessagesTell
    <2>. HIDE DEF m
    <2>3. m \in Honest(doc)
      BY <2>1, <2>2 DEF Honest, ShowsView
    <2>. QED BY <2>3 DEF m
  <1>6. ASSUME ~Over(doc), NEW p \in doc.decided
        PROVE  OrderSubmitted(doc, p) \in Honest(doc)
    BY <1>6, MessagesTell DEF Honest, OrderSubmitted, ShowsView
  <1>7. ASSUME NEW p \in Player
        PROVE  YourState(doc, p) \in Honest(doc) /\ YourFullState(doc, p) \in Honest(doc)
    BY MessagesTell, Addresses, People DEF Honest, YourState, YourFullState, ShowsView
  <1>8. HostState(doc) \in Honest(doc)
    BY MessagesTell, Addresses, People DEF Honest, HostState, ShowsView
  <1>9. ASSUME NEW p \in Player, NEW w \in Closed(doc)
        PROVE  YourWeekClosed(doc, p, w) \in Honest(doc)
    BY MessagesTell, Addresses, People DEF Honest, YourWeekClosed, ShowsView
  <1>. QED BY <1>2, <1>3, <1>4, <1>5, <1>6, <1>7, <1>8, <1>9

LEMMA Joined ==
    ASSUME NEW S, NEW s \in Seq(S), NEW u \in Seq(S)
    PROVE  s \o u \in Seq(S) /\ Range(s \o u) = Range(s) \cup Range(u)
  <1>1. /\ s \o u \in Seq(S) /\ Len(s \o u) = Len(s) + Len(u)
        /\ Len(s) \in Nat /\ Len(u) \in Nat
        /\ \A i \in 1..(Len(s) + Len(u)) :
              (s \o u)[i] = IF i <= Len(s) THEN s[i] ELSE u[i - Len(s)]
    OBVIOUS
  <1>2. ASSUME NEW v \in Range(s \o u)
        PROVE  v \in Range(s) \cup Range(u)
    <2>1. PICK i \in 1..(Len(s) + Len(u)) : (s \o u)[i] = v
      BY <1>1 DEF Range
    <2>2. CASE i <= Len(s)
      BY <1>1, <2>1, <2>2 DEF Range
    <2>3. CASE ~(i <= Len(s))
      <3>1. i - Len(s) \in 1..Len(u)
        BY <1>1, <2>3
      <3>. QED BY <1>1, <2>1, <2>3, <3>1 DEF Range
    <2>. QED BY <2>2, <2>3
  <1>3. ASSUME NEW v \in Range(s)
        PROVE  v \in Range(s \o u)
    <2>1. PICK i \in 1..Len(s) : s[i] = v
      BY <1>1 DEF Range
    <2>2. i \in 1..(Len(s) + Len(u)) /\ (s \o u)[i] = v
      BY <1>1, <2>1
    <2>. QED BY <1>1, <2>2 DEF Range
  <1>4. ASSUME NEW v \in Range(u)
        PROVE  v \in Range(s \o u)
    <2>1. PICK i \in 1..Len(u) : u[i] = v
      BY <1>1 DEF Range
    <2>2. PICK k \in 1..(Len(s) + Len(u)) : k = Len(s) + i
      BY <1>1
    <2>3. (s \o u)[k] = v
      BY <1>1, <2>1, <2>2
    <2>. QED BY <1>1, <2>3 DEF Range
  <1>. QED BY <1>1, <1>2, <1>3, <1>4

\* Who is sent what by the lists of several messages.
LEMMA HostRefreshHonest ==
    ASSUME NEW doc \in Document
    PROVE  /\ HostRefresh(doc) \in Seq(Honest(doc))
           /\ doc.seat[Host] # 0 => HostState(doc) \in Range(HostRefresh(doc))
  <1>1. HostState(doc) \in Honest(doc)
    BY HonestMessages
  <1>. QED BY <1>1 DEF HostRefresh, Range

LEMMA StateRefreshHonest ==
    ASSUME NEW doc \in Document
    PROVE  /\ StateRefresh(doc) \in Seq(Honest(doc))
           /\ doc.seat[Host] # 0 => HostState(doc) \in Range(StateRefresh(doc))
           /\ \A p \in Player : doc.seat[p] # 0 /\ p \notin doc.bots =>
                 YourFullState(doc, p) \in Range(StateRefresh(doc))
  <1>. DEFINE present == Connected(doc) \ doc.bots
              list == InRoleOrder(present, LAMBDA p : YourFullState(doc, p))
  <1>1. /\ list \in Seq(Honest(doc))
        /\ \A p \in Player \cap present : YourFullState(doc, p) \in Range(list)
    <2>. HIDE DEF present
    <2>1. list = [n \in 1..Cardinality(Places(present)) |->
                    YourFullState(doc, Seats[NthPlace(present, n)])]
      BY DEF InRoleOrder
    <2>2. \A n \in 1..Cardinality(Places(present)) :
              YourFullState(doc, Seats[NthPlace(present, n)]) \in Honest(doc)
      BY PlacesCounted, HonestMessages
    <2>3. list \in Seq(Honest(doc))
      BY <2>1, <2>2, PlacesCounted
    <2>4. ASSUME NEW p \in Player \cap present
          PROVE  YourFullState(doc, p) \in Range(list)
      <3>1. PICK n \in 1..Cardinality(Places(present)) : Seats[NthPlace(present, n)] = p
        BY PlacesCounted
      <3>. QED BY <2>1, <3>1 DEF Range
    <2>. QED BY <2>3, <2>4
  <1>. HIDE DEF list
  <1>2. StateRefresh(doc) = list \o HostRefresh(doc)
    BY DEF StateRefresh, list
  <1>3. /\ StateRefresh(doc) \in Seq(Honest(doc))
        /\ Range(StateRefresh(doc)) = Range(list) \cup Range(HostRefresh(doc))
    BY <1>1, <1>2, HostRefreshHonest, Joined
  <1>. QED BY <1>1, <1>3, HostRefreshHonest DEF Connected

LEMMA CloseHonest ==
    ASSUME NEW doc \in Document, doc.closed > 0
    PROVE  /\ CloseEvents(doc) \in Seq(Honest(doc))
           /\ \A p \in Player : doc.seat[p] # 0 =>
                 YourWeekClosed(doc, p, doc.closed) \in Range(CloseEvents(doc))
           /\ ~Over(doc) => \A p \in Player : doc.seat[p] # 0 =>
                 YourState(doc, p) \in Range(CloseEvents(doc))
           /\ ~Over(doc) /\ doc.seat[Host] # 0 => HostState(doc) \in Range(CloseEvents(doc))
  <1>. DEFINE present == Connected(doc)
              records == InRoleOrder(present, LAMBDA p : YourWeekClosed(doc, p, doc.closed))
              views == InRoleOrder(present, LAMBDA p : YourState(doc, p))
              rest == IF Over(doc) THEN <<>> ELSE views \o HostRefresh(doc)
  <1>1. doc.closed \in Closed(doc)
    BY DEF Closed, Document
  <1>2. /\ records \in Seq(Honest(doc))
        /\ \A p \in Player \cap present :
              YourWeekClosed(doc, p, doc.closed) \in Range(records)
    <2>. HIDE DEF present
    <2>1. records = [n \in 1..Cardinality(Places(present)) |->
                       YourWeekClosed(doc, Seats[NthPlace(present, n)], doc.closed)]
      BY DEF InRoleOrder
    <2>2. \A n \in 1..Cardinality(Places(present)) :
              YourWeekClosed(doc, Seats[NthPlace(present, n)], doc.closed) \in Honest(doc)
      BY <1>1, PlacesCounted, HonestMessages
    <2>3. records \in Seq(Honest(doc))
      BY <2>1, <2>2, PlacesCounted
    <2>4. ASSUME NEW p \in Player \cap present
          PROVE  YourWeekClosed(doc, p, doc.closed) \in Range(records)
      <3>1. PICK n \in 1..Cardinality(Places(present)) : Seats[NthPlace(present, n)] = p
        BY PlacesCounted
      <3>. QED BY <2>1, <3>1 DEF Range
    <2>. QED BY <2>3, <2>4
  <1>3. /\ views \in Seq(Honest(doc))
        /\ \A p \in Player \cap present : YourState(doc, p) \in Range(views)
    <2>. HIDE DEF present
    <2>1. views = [n \in 1..Cardinality(Places(present)) |->
                     YourState(doc, Seats[NthPlace(present, n)])]
      BY DEF InRoleOrder
    <2>2. \A n \in 1..Cardinality(Places(present)) :
              YourState(doc, Seats[NthPlace(present, n)]) \in Honest(doc)
      BY PlacesCounted, HonestMessages
    <2>3. views \in Seq(Honest(doc))
      BY <2>1, <2>2, PlacesCounted
    <2>4. ASSUME NEW p \in Player \cap present
          PROVE  YourState(doc, p) \in Range(views)
      <3>1. PICK n \in 1..Cardinality(Places(present)) : Seats[NthPlace(present, n)] = p
        BY PlacesCounted
      <3>. QED BY <2>1, <3>1 DEF Range
    <2>. QED BY <2>3, <2>4
  <1>. HIDE DEF records, views
  <1>4. /\ rest \in Seq(Honest(doc))
        /\ ~Over(doc) => Range(rest) = Range(views) \cup Range(HostRefresh(doc))
    BY <1>3, HostRefreshHonest, Joined
  <1>. HIDE DEF rest
  <1>5. <<Note>> \in Seq(Honest(doc))
    BY HonestMessages
  <1>6. PICK first : first = <<Note>> \o records
    OBVIOUS
  <1>7. first \in Seq(Honest(doc)) /\ Range(first) = Range(<<Note>>) \cup Range(records)
    BY <1>2, <1>5, <1>6, Joined
  <1>8. /\ CloseEvents(doc) \in Seq(Honest(doc))
        /\ Range(CloseEvents(doc)) = Range(first) \cup Range(rest)
    <2>1. CloseEvents(doc) = first \o rest
      BY <1>6 DEF CloseEvents, records, views, rest
    <2>2. PICK S : S = Honest(doc)
      OBVIOUS
    <2>3. first \in Seq(S) /\ rest \in Seq(S)
      BY <1>4, <1>7, <2>2
    <2>4. first \o rest \in Seq(S) /\ Range(first \o rest) = Range(first) \cup Range(rest)
      BY <2>3, Joined
    <2>. QED BY <2>1, <2>2, <2>4
  <1>. QED BY <1>2, <1>3, <1>4, <1>7, <1>8, HostRefreshHonest DEF Connected

LEMMA RoundHonest ==
    ASSUME NEW doc \in Document, ~Over(doc), NEW players, players \subseteq doc.decided
    PROVE  /\ InRoleOrder(players, LAMBDA p : OrderSubmitted(doc, p)) \in Seq(Honest(doc))
           /\ \A p \in players : OrderSubmitted(doc, p)
                 \in Range(InRoleOrder(players, LAMBDA q : OrderSubmitted(doc, q)))
  <1>. DEFINE list == InRoleOrder(players, LAMBDA p : OrderSubmitted(doc, p))
  <1>1. list = [n \in 1..Cardinality(Places(players)) |->
                  OrderSubmitted(doc, Seats[NthPlace(players, n)])]
    BY DEF InRoleOrder
  <1>2. \A n \in 1..Cardinality(Places(players)) :
            OrderSubmitted(doc, Seats[NthPlace(players, n)]) \in Honest(doc)
    BY PlacesCounted, HonestMessages
  <1>3. list \in Seq(Honest(doc))
    BY <1>1, <1>2, PlacesCounted
  <1>4. ASSUME NEW p \in players
        PROVE  OrderSubmitted(doc, p) \in Range(list)
    <2>1. p \in Player \cap players
      BY DEF Document
    <2>2. PICK n \in 1..Cardinality(Places(players)) : Seats[NthPlace(players, n)] = p
      BY <2>1, PlacesCounted
    <2>. QED BY <1>1, <2>2 DEF Range
  <1>. QED BY <1>3, <1>4

-------------------------------------------------------------------------------
(* Sections.                                                                   *)

\* A step that puts the events new in flight.
Sends(new) ==
    /\ InFlight' = InFlight \cup new
    /\ new \in SUBSET Event
    /\ \A e \in new :
         /\ e.msg \in Honest(room')
         /\ e.msg.kind \notin {"note", "finished"} => room.seq < e.seq
         /\ ~Over(room') => room.seq < e.seq /\ e.seq <= room'.seq

\* A document of which c is a copy, numbered no further.
Like(c, doc) ==
    /\ c.decided = doc.decided /\ c.lastOrders = doc.lastOrders
    /\ c.bots = doc.bots /\ c.seat = doc.seat
    /\ doc.seq <= c.seq

\* What a section may do to the document and to the copies: it saves a new document or
\* the copy of a game that is over, and once the game is over it plays nothing.
Moves(new) ==
    /\ Sends(new)
    /\ \/ room.seq <= room'.seq /\ (Over(room) => room.bots \subseteq room'.bots)
       \/ \E v \in Task : Finishes(v) /\ Like(room', tasks[v].copy)
    /\ \A u \in Task : Finishes(u)' =>
         \/ Like(tasks'[u].copy, room')
         \/ \E v \in Task : Finishes(v) /\ Like(tasks'[u].copy, tasks[v].copy)
    /\ Over(room) => /\ Over(room')
                     /\ room'.week = room.week /\ room'.closed = room.closed
                     /\ room'.decided = room.decided /\ room'.lastOrders = room.lastOrders

\* The number is all a section adds to its document.
LEMMA AfterKeeps ==
    ASSUME NEW doc \in Document, NEW n \in Nat, NEW next, next = [doc EXCEPT !.seq = @ + n]
    PROVE  /\ next \in Document /\ next.seq = doc.seq + n
           /\ next.state = doc.state /\ next.week = doc.week /\ next.decided = doc.decided
           /\ next.closed = doc.closed /\ next.lastOrders = doc.lastOrders
           /\ next.bots = doc.bots /\ next.seat = doc.seat
           /\ Over(next) <=> Over(doc)
           /\ View(next) = View(doc)
           /\ Honest(next) = Honest(doc)
  <1>1. /\ next \in Document /\ next.seq = doc.seq + n
        /\ next.state = doc.state /\ next.week = doc.week /\ next.decided = doc.decided
        /\ next.closed = doc.closed /\ next.lastOrders = doc.lastOrders
        /\ next.bots = doc.bots /\ next.seat = doc.seat
    BY DEF Document
  <1>2. /\ Over(next) <=> Over(doc)
        /\ View(next) = View(doc)
        /\ Telling(next) = Telling(doc)
    BY AfterTyped
  <1>3. \A x \in Person : To(next, x) = To(doc, x)
    BY <1>1 DEF To
  <1>4. Honest(next) = Honest(doc)
    BY <1>1, <1>2, <1>3, People DEF Honest
  <1>. QED BY <1>1, <1>2, <1>4

\* The events of the messages a document is left with.
LEMMA NumberedHonest ==
    ASSUME NEW doc \in Document, NEW messages \in Seq(Honest(doc)), NEW new,
           new = Range(Numbered(doc, messages))
    PROVE  /\ Len(messages) \in Nat
           /\ Numbered(doc, messages) \in Seq(Event)
           /\ new \in SUBSET Event
           /\ \A e \in new : /\ e.msg \in Honest(doc)
                             /\ e.msg \in Range(messages)
                             /\ doc.seq < e.seq /\ e.seq <= doc.seq + Len(messages)
           /\ \A m \in Range(messages) : \E e \in new : e.msg = m
           /\ \A i \in 1..Len(messages) : \A e \in new :
                 e.seq = doc.seq + i => e.msg = messages[i]
           /\ \A i \in 1..Len(messages) : \E e \in new :
                 e.seq = doc.seq + i /\ e.msg = messages[i]
  <1>1. /\ messages \in Seq(Telling(doc)) /\ Len(messages) \in Nat
        /\ DOMAIN messages = 1..Len(messages)
        /\ \A i \in 1..Len(messages) : messages[i] \in Honest(doc)
        /\ doc.seq \in Nat
    <2>1. Honest(doc) \subseteq Telling(doc)
      BY DEF Honest
    <2>. QED BY <2>1 DEF Document
  <1>2. /\ Numbered(doc, messages) \in Seq(Event)
        /\ \A e \in new : e.msg \in Range(messages) /\ doc.seq < e.seq
                          /\ e.seq <= doc.seq + Len(messages)
    BY <1>1, NumberedTyped
  <1>3. Numbered(doc, messages) =
            [i \in 1..Len(messages) |-> [seq |-> doc.seq + i, msg |-> messages[i]]]
    BY <1>1 DEF Numbered
  <1>4. new = {[seq |-> doc.seq + i, msg |-> messages[i]] : i \in 1..Len(messages)}
    BY <1>3 DEF Range
  <1>5. new \in SUBSET Event
    BY <1>2 DEF Range
  <1>6. Range(messages) = {messages[i] : i \in 1..Len(messages)}
    BY <1>1 DEF Range
  <1>7. \A e \in new : e.msg \in Honest(doc)
    BY <1>1, <1>4
  <1>8. ASSUME NEW m \in Range(messages)
        PROVE  \E e \in new : e.msg = m
    <2>1. PICK i \in 1..Len(messages) : messages[i] = m
      BY <1>6
    <2>2. [seq |-> doc.seq + i, msg |-> messages[i]] \in new
      BY <1>4
    <2>. QED BY <2>1, <2>2
  <1>9. ASSUME NEW i \in 1..Len(messages)
        PROVE  /\ \A e \in new : e.seq = doc.seq + i => e.msg = messages[i]
               /\ \E e \in new : e.seq = doc.seq + i /\ e.msg = messages[i]
    <2>1. ASSUME NEW e \in new, e.seq = doc.seq + i
          PROVE  e.msg = messages[i]
      <3>1. PICK k \in 1..Len(messages) : e = [seq |-> doc.seq + k, msg |-> messages[k]]
        BY <1>4
      <3>2. k = i
        BY <1>1, <2>1, <3>1
      <3>. QED BY <3>1, <3>2
    <2>2. [seq |-> doc.seq + i, msg |-> messages[i]] \in new
      BY <1>4
    <2>. QED BY <2>1, <2>2
  <1>. QED BY <1>1, <1>2, <1>5, <1>7, <1>8, <1>9

LEMMA FlightGrowsBy ==
    ASSUME tasks \in [Task -> TaskState], NEW t \in Task, NEW task,
           tasks' = [tasks EXCEPT ![t] = task], tasks[t].outbox = <<>>
    PROVE  InFlight' = InFlight \cup Range(task.outbox)
  <1>1. Range(tasks[t].outbox) = {}
    BY DEF Range
  <1>2. tasks'[t] = task /\ \A u \in Task : u # t => tasks'[u] = tasks[u]
    OBVIOUS
  <1>3. InFlight' = UNION {Range(tasks'[u].outbox) : u \in Task}
    BY DEF InFlight
  <1>. QED BY <1>1, <1>2, <1>3 DEF InFlight

\* What Ends does with a document and its messages.
LEMMA EndsSends ==
    ASSUME IInv, NEW t \in Task, tasks[t].outbox = <<>>, NEW next \in Document,
           NEW messages \in Seq(Honest(next)),
           NEW then \in {"idle", "close", "force", "drive", "drove", "resume", "resumed",
                         "finish", "broadcast"},
           Ends(t, next, messages, then),
           NEW new, new = Range(Numbered(next, messages))
    PROVE  /\ InFlight' = InFlight \cup new
           /\ Honest(room') = Honest(next) /\ View(room') = View(next)
           /\ Over(room') <=> Over(next)
           /\ room'.seq = next.seq + Len(messages)
           /\ room'.state = next.state /\ room'.week = next.week
           /\ room'.decided = next.decided /\ room'.closed = next.closed
           /\ room'.lastOrders = next.lastOrders /\ room'.bots = next.bots
           /\ room'.seat = next.seat /\ room' \in Document
           /\ \A u \in Task : u # t => tasks'[u] = tasks[u]
           /\ tasks'[t].then = then
           /\ then = "finish" => tasks'[t].copy = room'
  <1>1. Len(messages) \in Nat
    BY NumberedHonest
  <1>2. PICK n \in Nat : n = Len(messages)
    BY <1>1
  <1>3. PICK after : after = [next EXCEPT !.seq = @ + n]
    OBVIOUS
  <1>4. room' = after
    BY <1>2, <1>3 DEF Ends, After
  <1>5. /\ after \in Document /\ after.seq = next.seq + n
        /\ after.state = next.state /\ after.week = next.week /\ after.decided = next.decided
        /\ after.closed = next.closed /\ after.lastOrders = next.lastOrders
        /\ after.bots = next.bots /\ after.seat = next.seat
        /\ Over(after) <=> Over(next)
        /\ View(after) = View(next)
        /\ Honest(after) = Honest(next)
    BY <1>3, AfterKeeps
  <1>. DEFINE task == IF then = "idle" /\ messages = <<>> THEN Idle
                      ELSE [then |-> then, outbox |-> Numbered(next, messages),
                            copy |-> IF then \in {"finish", "broadcast"} THEN room' ELSE NoRoom]
  <1>6. /\ tasks' = [tasks EXCEPT ![t] = task]
        /\ task.then = then
        /\ then = "finish" => task.copy = room'
        /\ Range(task.outbox) = new
    <2>1. CASE then = "idle" /\ messages = <<>>
      <3>1. Numbered(next, messages) = <<>>
        BY <2>1 DEF Numbered
      <3>2. task = Idle
        BY <2>1
      <3>. QED BY <2>1, <3>1, <3>2 DEF Ends, Idle, Range
    <2>2. CASE ~(then = "idle" /\ messages = <<>>)
      <3>1. task = [then |-> then, outbox |-> Numbered(next, messages),
                    copy |-> IF then \in {"finish", "broadcast"} THEN room' ELSE NoRoom]
        BY <2>2
      <3>2. tasks' = [tasks EXCEPT ![t] = task]
        BY <2>2, <3>1 DEF Ends, After
      <3>. HIDE DEF task
      <3>. QED BY <3>1, <3>2
    <2>. QED BY <2>1, <2>2
  <1>. HIDE DEF task
  <1>7. /\ \A u \in Task : u # t => tasks'[u] = tasks[u]
        /\ tasks'[t] = task
    BY <1>6, Facts
  <1>8. InFlight' = InFlight \cup new
    BY <1>6, Facts, FlightGrowsBy
  <1>. QED BY <1>2, <1>4, <1>5, <1>6, <1>7, <1>8

LEMMA LikeItself ==
    ASSUME NEW doc \in Document
    PROVE  Like(doc, doc)
  BY DEF Like, Document

\* The copies of the calls that a step leaves alone.
LEMMA CopiesCarried ==
    ASSUME IInv, NEW t \in Task, \A u \in Task : u # t => tasks'[u] = tasks[u],
           NEW u \in Task, u # t, Finishes(u)'
    PROVE  \E v \in Task : Finishes(v) /\ Like(tasks'[u].copy, tasks[v].copy)
  <1>1. tasks'[u] = tasks[u] /\ Finishes(u)
    BY DEF Finishes
  <1>2. tasks[u].copy \in Document
    BY Facts DEF TaskState
  <1>. QED BY <1>1, <1>2, LikeItself

\* A section that takes its numbers from the room.
LEMMA EndsMoves ==
    ASSUME IInv, NEW t \in Task, tasks[t].outbox = <<>>, tasks[t].then # "finish",
           NEW next \in Document, NEW messages \in Seq(Honest(next)),
           NEW then \in {"idle", "close", "force", "drive", "drove", "resume", "resumed",
                         "finish", "broadcast"},
           Ends(t, next, messages, then), next.seq = room.seq,
           Over(room) => /\ Over(next) /\ room.bots \subseteq next.bots
                         /\ next.week = room.week /\ next.closed = room.closed
                         /\ next.decided = room.decided /\ next.lastOrders = room.lastOrders,
           NEW new, new = Range(Numbered(next, messages))
    PROVE  /\ Moves(new)
           /\ Ending => Ending'
           /\ then = "finish" => Ending'
  <1>1. /\ InFlight' = InFlight \cup new
        /\ Honest(room') = Honest(next)
        /\ Over(room') <=> Over(next)
        /\ room'.seq = next.seq + Len(messages)
        /\ room'.week = next.week /\ room'.closed = next.closed
        /\ room'.decided = next.decided /\ room'.lastOrders = next.lastOrders
        /\ room'.bots = next.bots /\ room' \in Document
        /\ \A u \in Task : u # t => tasks'[u] = tasks[u]
        /\ tasks'[t].then = then
        /\ then = "finish" => tasks'[t].copy = room'
    BY EndsSends
  <1>2. /\ new \in SUBSET Event
        /\ \A e \in new : e.msg \in Honest(next) /\ next.seq < e.seq
                          /\ e.seq <= next.seq + Len(messages)
        /\ Len(messages) \in Nat
    BY NumberedHonest
  <1>3. Sends(new)
    BY <1>1, <1>2 DEF Sends
  <1>4. room.seq <= room'.seq
    BY <1>1, <1>2, Facts
  <1>5. ASSUME NEW u \in Task, Finishes(u)'
        PROVE  \/ Like(tasks'[u].copy, room')
               \/ \E v \in Task : Finishes(v) /\ Like(tasks'[u].copy, tasks[v].copy)
    <2>1. CASE u = t
      <3>1. then = "finish"
        BY <1>1, <1>5, <2>1 DEF Finishes
      <3>. QED BY <1>1, <2>1, <3>1, LikeItself
    <2>2. CASE u # t
      BY <1>1, <1>5, <2>2, CopiesCarried
    <2>. QED BY <2>1, <2>2
  <1>6. Moves(new)
    BY <1>1, <1>3, <1>4, <1>5 DEF Moves
  <1>7. Ending => Ending'
    BY <1>1 DEF Ending
  <1>8. then = "finish" => Ending'
    BY <1>1 DEF Ending
  <1>. QED BY <1>6, <1>7, <1>8

-------------------------------------------------------------------------------
(* What a section must tell a connection that stays.                           *)

OrdersOf(new) == {p \in Player : \E e \in new : OrderOf(e.msg, p)}

\* game_finished under a number above every event that shows the room running.
Debrief(e) ==
    /\ e.msg.kind = "finished"
    /\ \A f \in InFlight : f.msg.kind = "room" /\ f.msg.state # "finished" => f.seq < e.seq
StillEnds(new) == Ending => Ending' \/ \E e \in new : Debrief(e)

InformsView(x, new) ==
    \/ Excused(x)'
    \/ ~Over(room) /\ \E e \in new : Reaches(e, x) /\ ShowsView(e.msg)
    \/ /\ room'.week = room.week /\ (Over(room') <=> Over(room))
       /\ room'.decided = room.decided \cup OrdersOf(new)
       /\ room'.lastOrders = room.lastOrders
       /\ StillEnds(new)
    \/ /\ ~Over(room) /\ Over(room') /\ room'.week = room.week
       /\ room'.lastOrders = room.decided
       /\ Ending'

InformsRecords(x, new) ==
    \A w \in Closed(room') :
        \/ w \in Closed(room)
        \/ ~Over(room) /\ \E e \in new : Reaches(e, x) /\ RecordOf(e.msg, w)

InformsShows(new) ==
    \/ room'.state = room.state /\ StillEnds(new)
    \/ ~Over(room) /\ \E e \in new : Reaches(e, Host) /\ e.msg.kind = "room"
    \/ Over(room') /\ Ending'

InformsBots(new) ==
    \/ room'.bots = room.bots
    \/ Over(room')
    \/ ~Over(room) /\ \E e \in new : Reaches(e, Host) /\ e.msg.kind = "host"

Informs(x, new) ==
    /\ InformsView(x, new)
    /\ x \in Player => InformsRecords(x, new)
    /\ x = Host => InformsShows(new) /\ InformsBots(new)

\* The connection is the same and has taken nothing.
Same(x) ==
    /\ client'[x].gen = client[x].gen /\ client'[x].on = client[x].on
    /\ client'[x].seq = client[x].seq /\ client'[x].view = client[x].view
    /\ client'[x].records = client[x].records /\ client'[x].bots = client[x].bots
    /\ client'[x].shows = client[x].shows /\ client'[x].finished = client[x].finished
    /\ client'[x].dropped = client[x].dropped

LEMMA PendingGrows ==
    ASSUME IInv, NEW new, Sends(new), NEW x \in Person, Same(x)
    PROVE  /\ \A e : Reaches(e, x)' <=> Reaches(e, x)
           /\ Pending(x)' = Pending(x) \cup {e \in new : Reaches(e, x)}
           /\ \A s : Later(x, s)' = Later(x, s) \cup {e \in new : Reaches(e, x) /\ e.seq > s}
           /\ Void(x) => Void(x)'
           /\ ~Void(x)' => \A e \in new : Reaches(e, x) => e.seq > client[x].seq
  <1>1. \A e : Reaches(e, x)' <=> Reaches(e, x)
    BY DEF Reaches, Same
  <1>2. Pending(x)' = Pending(x) \cup {e \in new : Reaches(e, x)}
    BY <1>1 DEF Pending, Sends
  <1>3. \A s : Later(x, s)' = Later(x, s) \cup {e \in new : Reaches(e, x) /\ e.seq > s}
    BY <1>2 DEF Later
  <1>4. Void(x) => Void(x)'
    BY <1>2 DEF Void, Same
  <1>5. ASSUME ~Void(x)', NEW e \in new, Reaches(e, x)
        PROVE  e.seq > client[x].seq
    <2>1. e \in Pending(x)'
      BY <1>2, <1>5
    <2>2. ~(e.seq <= client[x].seq)
      BY <1>5, <2>1 DEF Void, Same
    <2>3. e.seq \in Nat /\ client[x].seq \in Nat
      BY <1>5, Facts DEF Sends, Event, Client
    <2>. QED BY <2>2, <2>3
  <1>. QED BY <1>1, <1>2, <1>3, <1>4, <1>5

\* An order is sent while the game runs, to everybody.
LEMMA OrdersTold ==
    ASSUME IInv, NEW new, Sends(new), NEW e \in new, e.msg.kind = "order"
    PROVE  ~Over(room') /\ e.msg.to = Everybody /\ room.seq < e.seq
  <1>1. e.msg \in Honest(room') /\ room.seq < e.seq
    BY DEF Sends
  <1>2. e.msg \in Telling(room') /\ e.msg.to = Everybody
    BY <1>1 DEF Honest
  <1>. QED BY <1>1, <1>2 DEF Telling

LEMMA OrdersGrow ==
    ASSUME IInv, NEW new, Moves(new), NEW x \in Person, Same(x), client[x].on,
           room'.week = room.week, NEW s \in Nat, ~Over(room) => s <= room.seq
    PROVE  /\ OrdersLater(x, s)' = OrdersLater(x, s) \cup OrdersOf(new)
           /\ Over(room') => OrdersOf(new) = {}
  <1>1. /\ Sends(new)
        /\ Over(room) => Over(room')
        /\ \A e : Reaches(e, x)' <=> Reaches(e, x)
        /\ Later(x, s)' = Later(x, s) \cup {e \in new : Reaches(e, x) /\ e.seq > s}
    BY PendingGrows DEF Moves
  <1>2. \A m, p : OrderOf(m, p)' <=> OrderOf(m, p)
    BY DEF OrderOf
  <1>3. Over(room') => OrdersOf(new) = {}
    BY <1>1, OrdersTold DEF OrdersOf, OrderOf
  <1>4. ASSUME NEW e \in new, NEW p, OrderOf(e.msg, p)
        PROVE  Reaches(e, x) /\ e.seq > s
    <2>1. ~Over(room') /\ e.msg.to = Everybody /\ room.seq < e.seq
      BY <1>1, <1>4, OrdersTold DEF OrderOf
    <2>2. s <= room.seq /\ e \in Event /\ room.seq \in Nat
      BY <1>1, <2>1, Facts DEF Sends
    <2>3. e.seq > s
      BY <2>1, <2>2 DEF Event
    <2>. QED BY <2>1, <2>3 DEF Reaches
  <1>5. OrdersLater(x, s)' = {p \in Player : \E e \in Later(x, s)' : OrderOf(e.msg, p)}
    BY <1>2 DEF OrdersLater
  <1>. QED BY <1>1, <1>3, <1>4, <1>5 DEF OrdersLater, OrdersOf

LEMMA FinishGrows ==
    ASSUME IInv, NEW new, Sends(new), NEW x \in Person, Same(x), client[x].on,
           StillEnds(new), WillFinish(x)
    PROVE  WillFinish(x)'
  <1>1. Pending(x)' = Pending(x) \cup {e \in new : Reaches(e, x)}
    BY PendingGrows
  <1>2. ASSUME NEW e \in new, Debrief(e)
        PROVE  Reaches(e, x)
    BY <1>2 DEF Debrief, Sends, Honest, Reaches
  <1>. QED BY <1>1, <1>2 DEF WillFinish, StillEnds, Debrief, Same

\* A screen that would come to show the game as it was comes to show it as it is.
LEMMA ViewStays ==
    ASSUME IInv, NEW new, Moves(new), NEW x \in Person, Same(x), client[x].on,
           InformsView(x, new), ~Excused(x)',
           NEW s \in Nat, ~Over(room) => s <= room.seq, NEW v, ViewFrom(x, s, v)
    PROVE  ViewFrom(x, s, v)'
  <1>1. /\ Sends(new)
        /\ Over(room) => Over(room')
        /\ Later(x, s)' = Later(x, s) \cup {e \in new : Reaches(e, x) /\ e.seq > s}
    BY PendingGrows DEF Moves
  <1>2. CASE \E e \in Later(x, s) : ShowsView(e.msg)
    BY <1>1, <1>2 DEF ViewFrom
  <1>3. ASSUME NEW e \in new, Reaches(e, x), ShowsView(e.msg), ~Over(room)
        PROVE  ViewFrom(x, s, v)'
    <2>1. room.seq < e.seq /\ s <= room.seq /\ e \in Event /\ room.seq \in Nat
      BY <1>1, <1>3, Facts DEF Sends, ShowsView
    <2>2. e.seq > s
      BY <2>1 DEF Event
    <2>3. e \in Later(x, s)'
      BY <1>1, <1>3, <2>2
    <2>. QED BY <1>3, <2>3 DEF ViewFrom
  <1>4. CASE /\ v.week = room.week
             /\ \/ (v.over <=> Over(room)) /\ v.decided \cup OrdersLater(x, s) = room.decided
                \/ /\ Over(room) /\ ~v.over /\ WillFinish(x)
                   /\ v.decided \cup OrdersLater(x, s) = room.lastOrders
    <2>1. CASE /\ room'.week = room.week /\ (Over(room') <=> Over(room))
               /\ room'.decided = room.decided \cup OrdersOf(new)
               /\ room'.lastOrders = room.lastOrders
               /\ StillEnds(new)
      <3>1. /\ OrdersLater(x, s)' = OrdersLater(x, s) \cup OrdersOf(new)
            /\ Over(room') => OrdersOf(new) = {}
        BY <2>1, OrdersGrow
      <3>2. ASSUME WillFinish(x)
            PROVE  WillFinish(x)'
        BY <1>1, <2>1, <3>2, FinishGrows
      <3>3. CASE (v.over <=> Over(room)) /\ v.decided \cup OrdersLater(x, s) = room.decided
        <4>1. v.decided \cup OrdersLater(x, s)' = room'.decided
          BY <2>1, <3>1, <3>3
        <4>. QED BY <1>4, <2>1, <3>3, <4>1 DEF ViewFrom
      <3>4. CASE /\ Over(room) /\ ~v.over /\ WillFinish(x)
                 /\ v.decided \cup OrdersLater(x, s) = room.lastOrders
        <4>1. v.decided \cup OrdersLater(x, s)' = room'.lastOrders
          BY <2>1, <3>1, <3>4
        <4>. QED BY <1>4, <2>1, <3>2, <3>4, <4>1 DEF ViewFrom
      <3>. QED BY <1>4, <3>3, <3>4
    <2>2. CASE /\ ~Over(room) /\ Over(room') /\ room'.week = room.week
               /\ room'.lastOrders = room.decided
               /\ Ending'
      <3>1. OrdersLater(x, s)' = OrdersLater(x, s)
        BY <2>2, OrdersGrow
      <3>2. WillFinish(x)'
        BY <2>2 DEF WillFinish
      <3>3. ~v.over /\ v.decided \cup OrdersLater(x, s)' = room'.lastOrders
        BY <1>4, <2>2, <3>1
      <3>. QED BY <1>4, <2>2, <3>2, <3>3 DEF ViewFrom
    <2>. QED BY <1>3, <2>1, <2>2 DEF InformsView
  <1>. QED BY <1>2, <1>4 DEF ViewFrom

\* A view that is sent is completed by the orders that come after it.
LEMMA ViewSent ==
    ASSUME IInv, IInv', NEW new, Moves(new), NEW x \in Person,
           NEW e \in new, ShowsView(e.msg)
    PROVE  ViewFrom(x, e.seq, e.msg.view)'
  <1>1. /\ Sends(new) /\ e \in Event /\ room' \in Document /\ room.seq \in Nat
        /\ InFlight \in SUBSET Event
    BY Facts DEF Moves, Sends, IInv, TypeInv
  <1>2. e.msg.view = View(room') /\ room.seq < e.seq /\ e.seq \in Nat
    BY <1>1 DEF Sends, Honest, Telling, ShowsView, Event
  <1>3. /\ View(room').week = room'.week /\ View(room').decided = room'.decided
        /\ View(room').over <=> Over(room')
    BY <1>1, ViewTyped
  <1>4. ASSUME NEW p \in OrdersLater(x, e.seq)'
        PROVE  p \in room'.decided
    <2>1. PICK f \in InFlight' : /\ f.seq > e.seq /\ f.msg.kind = "order"
                                 /\ f.msg.week = room'.week /\ f.msg.player = p
      BY DEF OrdersLater, Later, Pending, OrderOf
    <2>2. /\ f \in Event /\ Tells(f.msg)
          /\ Said(f.msg) = [week |-> room'.week, decided |-> {p}, over |-> FALSE]
      BY <1>1, <2>1 DEF Sends, Tells, Said
    <2>3. CASE f \in new
      <3>1. ~Over(room')
        BY <1>1, <2>1, <2>3, OrdersTold
      <3>2. Before(Said(f.msg), View(room'))
        BY <2>1, <2>2 DEF IInv, Ordered
      <3>3. room'.week \in Int
        BY <1>1, Numbers DEF Document
      <3>. QED BY <1>3, <2>2, <3>1, <3>2, <3>3 DEF Before
    <2>4. CASE f \in InFlight
      <3>1. Old(f.msg)
        BY <2>2 DEF Old
      <3>2. f.seq <= room.seq
        BY <2>4, <3>1, Facts DEF Ordered
      <3>3. f.seq \in Nat
        BY <2>2 DEF Event
      <3>. QED BY <1>1, <1>2, <2>1, <3>2, <3>3
    <2>. QED BY <1>1, <2>1, <2>3, <2>4 DEF Sends
  <1>5. e.msg.view.decided \cup OrdersLater(x, e.seq)' = room'.decided
    BY <1>2, <1>3, <1>4
  <1>. QED BY <1>2, <1>3, <1>5 DEF ViewFrom

\* A new event that is not a note or game_finished comes after all x has in hand.
LEMMA NewIsLater ==
    ASSUME IInv, NEW new, Moves(new), NEW x \in Person, Same(x), ~Over(room),
           NEW s \in Nat, s <= room.seq, NEW e \in new, Reaches(e, x),
           e.msg.kind \notin {"note", "finished"}
    PROVE  e \in Later(x, s)'
  <1>1. /\ Sends(new)
        /\ Later(x, s)' = Later(x, s) \cup {f \in new : Reaches(f, x) /\ f.seq > s}
    BY PendingGrows DEF Moves
  <1>2. room.seq < e.seq /\ e \in Event /\ room.seq \in Nat
    BY <1>1, Facts DEF Sends
  <1>3. e.seq > s
    BY <1>2 DEF Event
  <1>. QED BY <1>1, <1>3

LEMMA LaterGrows ==
    ASSUME IInv, NEW new, Moves(new), NEW x \in Person, Same(x), NEW s
    PROVE  Later(x, s) \subseteq Later(x, s)'
  <1>1. Later(x, s)' = Later(x, s) \cup {f \in new : Reaches(f, x) /\ f.seq > s}
    BY PendingGrows DEF Moves
  <1>. QED BY <1>1

LEMMA RecordsStay ==
    ASSUME IInv, NEW new, Moves(new), NEW x \in Person, Same(x), InformsRecords(x, new),
           NEW s \in Nat, ~Over(room) => s <= room.seq, NEW recs, RecordsFrom(x, s, recs)
    PROVE  RecordsFrom(x, s, recs)'
  <1>1. ASSUME NEW w \in Closed(room')
        PROVE  w \in recs \/ \E e \in Later(x, s)' : RecordOf(e.msg, w)
    <2>1. CASE w \in Closed(room)
      <3>1. w \in recs \/ \E e \in Later(x, s) : RecordOf(e.msg, w)
        BY <2>1 DEF RecordsFrom
      <3>. QED BY <3>1, LaterGrows
    <2>2. ASSUME NEW e \in new, ~Over(room), Reaches(e, x), RecordOf(e.msg, w)
          PROVE  \E f \in Later(x, s)' : RecordOf(f.msg, w)
      <3>1. e.msg.kind \notin {"note", "finished"}
        BY <2>2 DEF RecordOf
      <3>2. e \in Later(x, s)'
        BY <2>2, <3>1, NewIsLater
      <3>. QED BY <2>2, <3>2
    <2>. QED BY <2>1, <2>2 DEF InformsRecords
  <1>. QED BY <1>1 DEF RecordsFrom, RecordOf

\* your_state with its history has all the records.
LEMMA RecordsSent ==
    ASSUME NEW new, Sends(new), NEW x, NEW e \in new, e.msg.kind = "full"
    PROVE  RecordsFrom(x, e.seq, e.msg.records)'
  <1>1. e.msg \in Honest(room')
    BY DEF Sends
  <1>2. e.msg \in Telling(room')
    BY <1>1 DEF Honest
  <1>3. e.msg.records = Closed(room')
    BY <1>2 DEF Telling
  <1>. QED BY <1>3 DEF RecordsFrom

LEMMA ShowsStay ==
    ASSUME IInv, NEW new, Moves(new), Same(Host), InformsShows(new),
           NEW s \in Nat, ~Over(room) => s <= room.seq,
           NEW st, st # "finished" => \A e \in new : Debrief(e) /\ Reaches(e, Host) => e.seq > s,
           client[Host].on, ShowsFrom(Host, s, st)
    PROVE  ShowsFrom(Host, s, st)'
  <1>. DEFINE x == Host
  <1>1. /\ x \in Person /\ Sends(new)
        /\ Over(room) => Over(room')
        /\ Later(x, s)' = Later(x, s) \cup {e \in new : Reaches(e, x) /\ e.seq > s}
    BY People, PendingGrows DEF Moves
  <1>2. CASE \E e \in Later(x, s) : e.msg.kind \in {"room", "finished"}
    BY <1>1, <1>2 DEF ShowsFrom
  <1>3. CASE Over(room') /\ Ending'
    BY <1>3 DEF ShowsFrom
  <1>4. ASSUME NEW e \in new, Reaches(e, Host), e.msg.kind = "room", ~Over(room)
        PROVE  ShowsFrom(x, s, st)'
    <2>1. e \in Later(x, s)'
      BY <1>1, <1>4, NewIsLater
    <2>. QED BY <1>4, <2>1 DEF ShowsFrom
  <1>5. CASE room'.state = room.state /\ StillEnds(new)
    <2>1. CASE st = room.state
      BY <1>5, <2>1 DEF ShowsFrom
    <2>2. CASE Over(room) /\ Ending
      <3>1. CASE Ending'
        BY <1>1, <2>2, <3>1 DEF ShowsFrom
      <3>2. ASSUME NEW e \in new, Debrief(e)
            PROVE  ShowsFrom(x, s, st)'
        <4>1. CASE st = "finished"
          BY <1>5, <2>2, <4>1 DEF ShowsFrom, Over
        <4>2. CASE st # "finished"
          <5>1. e.msg \in Honest(room') /\ e.msg.kind = "finished"
            BY <1>1, <3>2 DEF Sends, Debrief
          <5>2. Reaches(e, Host)
            BY <5>1 DEF Honest, Reaches
          <5>3. e.seq > s
            BY <3>2, <4>2, <5>2
          <5>. QED BY <1>1, <5>1, <5>2, <5>3 DEF ShowsFrom
        <4>. QED BY <4>1, <4>2
      <3>. QED BY <1>5, <2>2, <3>1, <3>2 DEF StillEnds
    <2>. QED BY <1>2, <2>1, <2>2 DEF ShowsFrom
  <1>. QED BY <1>3, <1>4, <1>5 DEF InformsShows

\* What a section says of the room's state is so.
LEMMA ShowsSent ==
    ASSUME NEW new, Sends(new), NEW e \in new, Reaches(e, Host)'
    PROVE  /\ e.msg.kind = "room" => ShowsFrom(Host, e.seq, e.msg.state)'
           /\ e.msg.kind = "finished" => ShowsFrom(Host, e.seq, "finished")'
  <1>1. e.msg \in Honest(room')
    BY DEF Sends
  <1>2. ASSUME NEW p \in Player, e.msg.to = To(room', p)
        PROVE  FALSE
    BY <1>2, People DEF To, Reaches, Everybody
  <1>3. e.msg.kind = "room" => e.msg.state = room'.state
    BY <1>1, <1>2 DEF Honest
  <1>4. e.msg.kind = "finished" => room'.state = "finished"
    BY <1>1 DEF Honest, Over
  <1>. QED BY <1>3, <1>4 DEF ShowsFrom

LEMMA BotsStay ==
    ASSUME IInv, NEW new, Moves(new), Same(Host), InformsBots(new),
           NEW s \in Nat, ~Over(room) => s <= room.seq, NEW b, BotsFrom(Host, s, b)
    PROVE  BotsFrom(Host, s, b)'
  <1>1. Over(room) => Over(room')
    BY DEF Moves
  <1>2. Later(Host, s) \subseteq Later(Host, s)'
    BY People, LaterGrows
  <1>3. ASSUME NEW e \in new, Reaches(e, Host), e.msg.kind = "host", ~Over(room)
        PROVE  BotsFrom(Host, s, b)'
    <2>1. e \in Later(Host, s)'
      BY <1>3, People, NewIsLater
    <2>. QED BY <1>3, <2>1 DEF BotsFrom
  <1>. QED BY <1>1, <1>2, <1>3 DEF BotsFrom, InformsBots

LEMMA BotsSent ==
    ASSUME NEW new, Sends(new), NEW e \in new, e.msg.kind = "host"
    PROVE  BotsFrom(Host, e.seq, e.msg.bots)'
  <1>1. e.msg \in Honest(room')
    BY DEF Sends
  <1>2. e.msg.bots = room'.bots
    BY <1>1 DEF Honest
  <1>. QED BY <1>2 DEF BotsFrom

\* The numbers x has to do with while the game runs.
LEMMA InHand ==
    ASSUME IInv, RunningInv, NEW x \in Person
    PROVE  /\ client[x].seq \in Nat
           /\ ~Over(room) => client[x].seq <= room.seq
           /\ \A e \in Pending(x) : /\ e \in Event /\ e.seq \in Nat
                                    /\ ~Over(room) => e.seq <= room.seq
  <1>1. client[x].seq \in Nat
    BY Facts DEF Client
  <1>2. \A e \in Pending(x) : e \in Event /\ e \in InFlight
    BY Facts DEF Pending
  <1>. QED BY <1>1, <1>2 DEF RunningInv, Event

\* A section that informs a connection leaves it on its way to seeing everything.
LEMMA StaysInformed ==
    ASSUME IInv, IInv', RunningInv, NEW new, Moves(new),
           NEW x \in Person, Excused(x) => Excused(x)',
           Same(x), client[x].on => Informs(x, new), WillSeeAll(x)
    PROVE  WillSeeAll(x)'
  <1>. SUFFICES ASSUME client'[x].on, ~Excused(x)', ~Void(x)'
                PROVE  /\ ViewOK(x)'
                       /\ x \in Player => RecordsOK(x)'
                       /\ x = Host => ShowsOK(x)' /\ BotsOK(x)'
    BY DEF WillSeeAll
  <1>1. /\ client[x].on /\ ~Excused(x) /\ ~Void(x) /\ Sends(new)
        /\ InformsView(x, new)
        /\ x \in Player => InformsRecords(x, new)
        /\ x = Host => InformsShows(new) /\ InformsBots(new)
    BY PendingGrows DEF Moves, Informs, Same
  <1>2. /\ ViewOK(x)
        /\ x \in Player => RecordsOK(x)
        /\ x = Host => ShowsOK(x) /\ BotsOK(x)
    BY <1>1 DEF WillSeeAll
  <1>3. /\ Pending(x)' = Pending(x) \cup {e \in new : Reaches(e, x)}
        /\ \A e \in new : Reaches(e, x) => e.seq > client[x].seq /\ Reaches(e, x)'
    BY <1>1, PendingGrows
  <1>4. PICK s \in Nat : s = client[x].seq
    BY InHand
  <1>5. ~Over(room) => s <= room.seq
    BY <1>4, InHand
  <1>6. client'[x].seq = s
    BY <1>4 DEF Same
  <1>7. ViewOK(x)'
    <2>1. PICK v : v = client[x].view
      OBVIOUS
    <2>2. ViewFrom(x, s, v)
      BY <1>2, <1>4, <2>1 DEF ViewOK
    <2>3. ViewFrom(x, s, v)'
      BY <1>1, <1>5, <2>2, ViewStays
    <2>4. client'[x].view = v
      BY <2>1 DEF Same
    <2>5. ASSUME NEW e \in Pending(x), ShowsView(e.msg)
          PROVE  ViewFrom(x, e.seq, e.msg.view)'
      <3>1. ViewFrom(x, e.seq, e.msg.view)
        BY <1>2, <2>5 DEF ViewOK
      <3>2. e.seq \in Nat
        BY InHand
      <3>3. ~Over(room) => e.seq <= room.seq
        BY InHand
      <3>. QED BY <1>1, <3>1, <3>2, <3>3, ViewStays
    <2>6. ASSUME NEW e \in new, ShowsView(e.msg)
          PROVE  ViewFrom(x, e.seq, e.msg.view)'
      BY <2>6, ViewSent
    <2>7. ViewFrom(x, client[x].seq, client[x].view)'
      BY <1>6, <2>3, <2>4
    <2>. QED BY <1>3, <2>5, <2>6, <2>7 DEF ViewOK
  <1>8. ASSUME x \in Player
        PROVE  RecordsOK(x)'
    <2>1. PICK recs : recs = client[x].records
      OBVIOUS
    <2>2. RecordsFrom(x, s, recs)
      BY <1>2, <1>4, <1>8, <2>1 DEF RecordsOK
    <2>3. RecordsFrom(x, s, recs)'
      BY <1>1, <1>5, <1>8, <2>2, RecordsStay
    <2>4. client'[x].records = recs
      BY <2>1 DEF Same
    <2>5. ASSUME NEW e \in Pending(x), e.msg.kind = "full"
          PROVE  RecordsFrom(x, e.seq, e.msg.records)'
      <3>1. RecordsFrom(x, e.seq, e.msg.records)
        BY <1>2, <1>8, <2>5 DEF RecordsOK
      <3>2. e.seq \in Nat
        BY InHand
      <3>3. ~Over(room) => e.seq <= room.seq
        BY InHand
      <3>. QED BY <1>1, <1>8, <3>1, <3>2, <3>3, RecordsStay
    <2>6. ASSUME NEW e \in new, e.msg.kind = "full"
          PROVE  RecordsFrom(x, e.seq, e.msg.records)'
      BY <1>1, <2>6, RecordsSent
    <2>7. RecordsFrom(x, client[x].seq, client[x].records)'
      BY <1>6, <2>3, <2>4
    <2>. QED BY <1>3, <2>5, <2>6, <2>7 DEF RecordsOK
  <1>9. ASSUME x = Host
        PROVE  ShowsOK(x)'
    <2>1. PICK st : st = client[x].shows
      OBVIOUS
    <2>2. ShowsFrom(Host, s, st)
      BY <1>2, <1>4, <1>9, <2>1 DEF ShowsOK
    <2>3. ShowsFrom(Host, s, st)'
      BY <1>1, <1>3, <1>4, <1>5, <1>9, <2>2, ShowsStay
    <2>4. client'[x].shows = st
      BY <2>1 DEF Same
    <2>5. ASSUME NEW e \in Pending(x)
          PROVE  /\ e.msg.kind = "room" => ShowsFrom(Host, e.seq, e.msg.state)'
                 /\ e.msg.kind = "finished" => ShowsFrom(Host, e.seq, "finished")'
      <3>1. e.seq \in Nat
        BY InHand
      <3>2. ~Over(room) => e.seq <= room.seq
        BY InHand
      <3>3. ASSUME e.msg.kind = "room"
            PROVE  ShowsFrom(Host, e.seq, e.msg.state)'
        <4>1. ShowsFrom(Host, e.seq, e.msg.state)
          BY <1>2, <1>9, <3>3 DEF ShowsOK
        <4>2. ASSUME e.msg.state # "finished", NEW f \in new, Debrief(f)
              PROVE  f.seq > e.seq
          <5>1. e.seq < f.seq
            BY <3>3, <4>2 DEF Debrief, Pending
          <5>2. f.seq \in Nat
            BY <1>1 DEF Sends, Event
          <5>. QED BY <3>1, <5>1, <5>2
        <4>. QED BY <1>1, <1>9, <3>1, <3>2, <4>1, <4>2, ShowsStay
      <3>4. ASSUME e.msg.kind = "finished"
            PROVE  ShowsFrom(Host, e.seq, "finished")'
        <4>1. ShowsFrom(Host, e.seq, "finished")
          BY <1>2, <1>9, <3>4 DEF ShowsOK
        <4>. QED BY <1>1, <1>9, <3>1, <3>2, <4>1, ShowsStay
      <3>. QED BY <3>3, <3>4
    <2>6. ASSUME NEW e \in new, Reaches(e, x)
          PROVE  /\ e.msg.kind = "room" => ShowsFrom(Host, e.seq, e.msg.state)'
                 /\ e.msg.kind = "finished" => ShowsFrom(Host, e.seq, "finished")'
      BY <1>1, <1>3, <1>9, <2>6, ShowsSent
    <2>7. ShowsFrom(Host, client[x].seq, client[x].shows)'
      BY <1>6, <2>3, <2>4
    <2>. QED BY <1>3, <1>9, <2>5, <2>6, <2>7 DEF ShowsOK
  <1>10. ASSUME x = Host
         PROVE  BotsOK(x)'
    <2>1. PICK b : b = client[x].bots
      OBVIOUS
    <2>2. BotsFrom(Host, s, b)
      BY <1>2, <1>4, <1>10, <2>1 DEF BotsOK
    <2>3. BotsFrom(Host, s, b)'
      BY <1>1, <1>5, <1>10, <2>2, BotsStay
    <2>4. client'[x].bots = b
      BY <2>1 DEF Same
    <2>5. ASSUME NEW e \in Pending(x), e.msg.kind = "host"
          PROVE  BotsFrom(Host, e.seq, e.msg.bots)'
      <3>1. BotsFrom(Host, e.seq, e.msg.bots)
        BY <1>2, <1>10, <2>5 DEF BotsOK
      <3>2. e.seq \in Nat
        BY InHand
      <3>3. ~Over(room) => e.seq <= room.seq
        BY InHand
      <3>. QED BY <1>1, <1>10, <3>1, <3>2, <3>3, BotsStay
    <2>6. ASSUME NEW e \in new, e.msg.kind = "host"
          PROVE  BotsFrom(Host, e.seq, e.msg.bots)'
      BY <1>1, <2>6, BotsSent
    <2>7. BotsFrom(Host, client[x].seq, client[x].bots)'
      BY <1>6, <2>3, <2>4
    <2>. QED BY <1>3, <1>10, <2>5, <2>6, <2>7 DEF BotsOK
  <1>. QED BY <1>7, <1>8, <1>9, <1>10

-------------------------------------------------------------------------------
(* A connection that enters, and one that takes an event.                      *)

\* A seat that finish_game will not give back stays so.
LEMMA ExcusedStays ==
    ASSUME NEW new, Moves(new), NEW x \in Person, Excused(x)
    PROVE  Excused(x)'
  <1>1. /\ Over(room')
        /\ x \in room.bots
        /\ \A v \in Task : Finishes(v) => x \in tasks[v].copy.bots
    BY DEF Excused, Moves
  <1>2. x \in room'.bots
    BY <1>1 DEF Moves, Like, Excused
  <1>3. ASSUME NEW u \in Task, Finishes(u)'
        PROVE  x \in tasks'[u].copy.bots
    BY <1>1, <1>2, <1>3 DEF Moves, Like
  <1>. QED BY <1>1, <1>2, <1>3 DEF Excused

\* A connection that enters is sent all it needs, after all that is in flight.
LEMMA EntersInformed ==
    ASSUME IInv, IInv', RunningInv, AddressInv, EndInv, NEW new, Moves(new),
           NEW x \in Person, client'[x].seq = 0, client'[x].gen = client[x].gen + 1,
           \E e \in new : Reaches(e, x)' /\ e.msg.kind = (IF x = Host THEN "host" ELSE "full"),
           x = Host => \E e \in new : Reaches(e, x)' /\ e.msg.kind = "room"
    PROVE  WillSeeAll(x)'
  <1>1. /\ Sends(new)
        /\ Over(room) => Over(room')
        /\ room.seq \in Nat /\ client[x].gen \in Nat
        /\ InFlight' = InFlight \cup new
        /\ \A e \in InFlight \cup new : e \in Event /\ e.seq \in Nat
    BY Facts DEF Moves, Sends, Event, Client
  <1>2. ASSUME NEW e \in InFlight, Reaches(e, x)'
        PROVE  e.msg.to = Everybody /\ ~ShowsView(e.msg)
    <2>1. e.msg.to # <<x, client[x].gen + 1>>
      <3>1. CASE e.msg.to = Everybody
        BY <3>1 DEF Everybody
      <3>2. ASSUME NEW y \in Person, NEW g \in 0..client[y].gen, e.msg.to = <<y, g>>
            PROVE  e.msg.to # <<x, client[x].gen + 1>>
        BY <1>1, <3>2
      <3>. QED BY <3>1, <3>2 DEF AddressInv, Sender
    <2>. QED BY <1>2, <2>1 DEF AddressInv, Reaches
  <1>3. ASSUME NEW e \in new, Reaches(e, x)', e.msg.kind \notin {"note", "finished"}
        PROVE  e \in Pending(x)' /\ room.seq < e.seq /\ e \in Later(x, 0)'
    <2>1. room.seq < e.seq /\ e \in Pending(x)'
      BY <1>1, <1>3 DEF Sends, Pending
    <2>2. e.seq > 0
      BY <1>1, <2>1
    <2>. QED BY <2>1, <2>2 DEF Later
  <1>4. PICK reply \in new : /\ Reaches(reply, x)'
                             /\ reply.msg.kind = (IF x = Host THEN "host" ELSE "full")
    OBVIOUS
  <1>5. reply \in Later(x, 0)' /\ ShowsView(reply.msg)
    BY <1>3, <1>4 DEF ShowsView
  <1>6. ViewOK(x)'
    <2>1. ViewFrom(x, client[x].seq, client[x].view)'
      BY <1>5 DEF ViewFrom
    <2>2. ASSUME NEW e \in Pending(x)', ShowsView(e.msg)
          PROVE  ViewFrom(x, e.seq, e.msg.view)'
      <3>1. e \in new
        BY <1>1, <1>2, <2>2 DEF Pending
      <3>. QED BY <2>2, <3>1, ViewSent
    <2>. QED BY <2>1, <2>2 DEF ViewOK
  <1>7. ASSUME x \in Player
        PROVE  RecordsOK(x)'
    <2>1. reply.msg.kind = "full"
      BY <1>4, <1>7, People
    <2>2. reply.msg.records = Closed(room')
      <3>1. reply.msg \in Honest(room')
        BY <1>1 DEF Sends
      <3>2. reply.msg \in Telling(room')
        BY <3>1 DEF Honest
      <3>. QED BY <2>1, <3>2 DEF Telling
    <2>3. RecordsFrom(x, client[x].seq, client[x].records)'
      BY <1>5, <2>1, <2>2 DEF RecordsFrom, RecordOf
    <2>4. ASSUME NEW e \in Pending(x)', e.msg.kind = "full"
          PROVE  RecordsFrom(x, e.seq, e.msg.records)'
      <3>1. e \in new
        BY <1>1, <1>2, <2>4 DEF Pending, ShowsView
      <3>. QED BY <1>1, <2>4, <3>1, RecordsSent
    <2>. QED BY <2>3, <2>4 DEF RecordsOK
  <1>8. ASSUME x = Host
        PROVE  ShowsOK(x)' /\ BotsOK(x)'
    <2>1. PICK told \in new : Reaches(told, x)' /\ told.msg.kind = "room"
      BY <1>8
    <2>2. /\ told \in Pending(x)' /\ room.seq < told.seq
          /\ told \in Later(x, 0)'
      BY <1>3, <2>1
    <2>3. ShowsFrom(Host, client[x].seq, client[x].shows)'
      BY <1>8, <2>1, <2>2 DEF ShowsFrom
    <2>4. ASSUME NEW e \in Pending(x)'
          PROVE  /\ e.msg.kind = "room" => ShowsFrom(Host, e.seq, e.msg.state)'
                 /\ e.msg.kind = "finished" => ShowsFrom(Host, e.seq, "finished")'
      <3>1. CASE e \in new
        <4>1. Reaches(e, Host)'
          BY <1>8, <2>4 DEF Pending
        <4>. QED BY <1>1, <3>1, <4>1, ShowsSent
      <3>2. CASE e \in InFlight /\ e.seq <= room.seq
        <4>1. told.seq > e.seq
          BY <1>1, <2>2, <3>2
        <4>2. told \in Later(Host, e.seq)'
          BY <1>8, <2>2, <4>1 DEF Later
        <4>. QED BY <2>1, <4>2 DEF ShowsFrom
      <3>3. CASE e \in InFlight /\ ~(e.seq <= room.seq)
        <4>1. Over(room')
          BY <1>1, <3>3 DEF RunningInv
        <4>2. e.msg.kind = "room" => e.msg.state = "finished"
          BY <3>3 DEF EndInv
        <4>. QED BY <4>1, <4>2 DEF ShowsFrom, Over
      <3>. QED BY <1>1, <3>1, <3>2, <3>3 DEF Pending
    <2>5. BotsFrom(Host, client[x].seq, client[x].bots)'
      BY <1>4, <1>5, <1>8 DEF BotsFrom
    <2>6. ASSUME NEW e \in Pending(x)', e.msg.kind = "host"
          PROVE  BotsFrom(Host, e.seq, e.msg.bots)'
      <3>1. e \in new
        BY <1>1, <1>2, <2>6 DEF Pending, ShowsView
      <3>. QED BY <1>1, <2>6, <3>1, BotsSent
    <2>. QED BY <1>8, <2>3, <2>4, <2>5, <2>6 DEF ShowsOK, BotsOK
  <1>. QED BY <1>6, <1>7, <1>8 DEF WillSeeAll

\* With the same later events, in the same room, a screen ends up the same.
LEMMA FromSame ==
    ASSUME room' = room, Ending' <=> Ending, NEW x \in Person, NEW s,
           Later(x, s)' = Later(x, s), WillFinish(x) => WillFinish(x)'
    PROVE  /\ \A v : ViewFrom(x, s, v) => ViewFrom(x, s, v)'
           /\ \A recs : RecordsFrom(x, s, recs) => RecordsFrom(x, s, recs)'
           /\ \A st : ShowsFrom(x, s, st) => ShowsFrom(x, s, st)'
           /\ \A b : BotsFrom(x, s, b) => BotsFrom(x, s, b)'
  <1>1. OrdersLater(x, s)' = OrdersLater(x, s)
    BY DEF OrdersLater, OrderOf
  <1>2. ASSUME NEW v, ViewFrom(x, s, v)
        PROVE  ViewFrom(x, s, v)'
    BY <1>1, <1>2 DEF ViewFrom
  <1>3. ASSUME NEW recs, RecordsFrom(x, s, recs)
        PROVE  RecordsFrom(x, s, recs)'
    BY <1>3 DEF RecordsFrom
  <1>4. \A st : ShowsFrom(x, s, st) => ShowsFrom(x, s, st)'
    BY DEF ShowsFrom
  <1>5. \A b : BotsFrom(x, s, b) => BotsFrom(x, s, b)'
    BY DEF BotsFrom
  <1>. QED BY <1>2, <1>3, <1>4, <1>5

\* What a screen shows after an event it takes.
LEMMA ShownRest ==
    ASSUME NEW c \in Client, NEW m \in Message
    PROVE  /\ Shown(c, m).bots = IF m.kind = "host" THEN m.bots ELSE c.bots
           /\ Shown(c, m).shows = IF m.kind = "room" THEN m.state
                                  ELSE IF m.kind = "finished" THEN "finished" ELSE c.shows
           /\ Shown(c, m).finished <=> c.finished \/ m.kind = "finished"
  <1>1. CASE m.kind = "note"
    BY <1>1 DEF Shown
  <1>2. CASE m.kind = "room"
    BY <1>2 DEF Shown, Client
  <1>3. CASE m.kind = "order"
    BY <1>3 DEF Shown, Client
  <1>4. CASE m.kind = "record"
    BY <1>4 DEF Shown, Client
  <1>5. CASE m.kind = "view"
    BY <1>5 DEF Shown, Client
  <1>6. CASE m.kind = "full"
    BY <1>6 DEF Shown, Client
  <1>7. CASE m.kind = "finished"
    BY <1>7 DEF Shown, Client
  <1>8. CASE m.kind = "host"
    BY <1>8 DEF Shown, Client
  <1>. QED BY <1>1, <1>2, <1>3, <1>4, <1>5, <1>6, <1>7, <1>8, MessageTyped

LEMMA Takes ==
    ASSUME NEW c \in Client, NEW e \in Event, NEW d, d = Received(c, e), e.seq > c.seq,
           NEW m, m = e.msg
    PROVE  /\ d.seq = e.seq /\ d.gen = c.gen /\ d.on = c.on /\ d.dropped = c.dropped
           /\ d.asked = c.asked
           /\ d.view = IF ShowsView(m) THEN m.view
                       ELSE IF m.kind = "order" /\ m.week = c.view.week
                            THEN [c.view EXCEPT !.decided = @ \cup {m.player}]
                            ELSE c.view
           /\ d.records = IF m.kind = "full" THEN m.records
                          ELSE IF m.kind = "record" THEN c.records \cup {m.week} ELSE c.records
           /\ d.bots = IF m.kind = "host" THEN m.bots ELSE c.bots
           /\ d.shows = IF m.kind = "room" THEN m.state
                        ELSE IF m.kind = "finished" THEN "finished" ELSE c.shows
           /\ d.finished <=> c.finished \/ m.kind = "finished"
  <1>1. m \in Message
    BY DEF Event
  <1>2. PICK now : now = Shown(c, m)
    OBVIOUS
  <1>3. d = [now EXCEPT !.seq = e.seq]
    BY <1>2 DEF Received
  <1>4. /\ now = [gen |-> c.gen, on |-> c.on, seq |-> c.seq,
                  view |-> now.view, records |-> now.records, bots |-> now.bots,
                  shows |-> now.shows, finished |-> now.finished, dropped |-> c.dropped,
                  asked |-> c.asked]
        /\ now.view = IF ShowsView(m) THEN m.view
                      ELSE IF m.kind = "order" /\ m.week = c.view.week
                           THEN [c.view EXCEPT !.decided = @ \cup {m.player}]
                           ELSE c.view
        /\ now.records = IF m.kind = "full" THEN m.records
                         ELSE IF m.kind = "record" THEN c.records \cup {m.week} ELSE c.records
    BY <1>1, <1>2, ShownView
  <1>5. /\ now.bots = IF m.kind = "host" THEN m.bots ELSE c.bots
        /\ now.shows = IF m.kind = "room" THEN m.state
                       ELSE IF m.kind = "finished" THEN "finished" ELSE c.shows
        /\ now.finished <=> c.finished \/ m.kind = "finished"
    BY <1>1, <1>2, ShownRest
  <1>6. DOMAIN now = {"gen", "on", "seq", "view", "records", "bots", "shows", "finished",
                      "dropped", "asked"}
    BY <1>4
  <1>7. /\ d.seq = e.seq /\ d.gen = now.gen /\ d.on = now.on /\ d.dropped = now.dropped
        /\ d.view = now.view /\ d.records = now.records /\ d.bots = now.bots
        /\ d.shows = now.shows /\ d.finished = now.finished /\ d.asked = now.asked
    BY <1>3, <1>6
  <1>8. now.gen = c.gen /\ now.on = c.on /\ now.dropped = c.dropped /\ now.asked = c.asked
    BY <1>4
  <1>. QED BY <1>4, <1>5, <1>7, <1>8

\* The step of one emission, as one connection sees it.
Emission(e) ==
    /\ room' = room
    /\ Ending' <=> Ending
    /\ \A u \in Task : /\ Finishes(u)' <=> Finishes(u)
                       /\ Finishes(u) => tasks'[u].copy = tasks[u].copy
    /\ e \in InFlight
    /\ InFlight' \subseteq InFlight /\ InFlight \ {e} \subseteq InFlight'

\* An event that passes a connection by leaves it as it was.
LEMMA PassedBy ==
    ASSUME IInv, NEW e, Emission(e), NEW x \in Person, ~Reaches(e, x),
           client'[x] = client[x], WillSeeAll(x)
    PROVE  WillSeeAll(x)'
  <1>1. \A f : Reaches(f, x)' <=> Reaches(f, x)
    BY DEF Reaches
  <1>2. Pending(x)' = Pending(x)
    BY <1>1 DEF Pending, Emission
  <1>3. \A s : Later(x, s)' = Later(x, s)
    BY <1>2 DEF Later
  <1>4. /\ Void(x)' <=> Void(x)
        /\ Excused(x)' <=> Excused(x)
        /\ WillFinish(x)' <=> WillFinish(x)
    BY <1>2 DEF Void, Excused, WillFinish, Emission
  <1>5. ASSUME NEW s
        PROVE  /\ \A v : ViewFrom(x, s, v) => ViewFrom(x, s, v)'
               /\ \A recs : RecordsFrom(x, s, recs) => RecordsFrom(x, s, recs)'
               /\ \A st : ShowsFrom(x, s, st) => ShowsFrom(x, s, st)'
               /\ \A b : BotsFrom(x, s, b) => BotsFrom(x, s, b)'
    BY <1>3, <1>4, FromSame DEF Emission
  <1>6. PICK c : c = client[x]
    OBVIOUS
  <1>7. ViewOK(x) => ViewOK(x)'
    <2>1. ViewFrom(x, c.seq, c.view) => ViewFrom(x, c.seq, c.view)'
      BY <1>5
    <2>2. \A f \in Pending(x) : ViewFrom(x, f.seq, f.msg.view) => ViewFrom(x, f.seq, f.msg.view)'
      BY <1>5
    <2>. QED BY <1>2, <1>6, <2>1, <2>2 DEF ViewOK
  <1>8. RecordsOK(x) => RecordsOK(x)'
    <2>1. RecordsFrom(x, c.seq, c.records) => RecordsFrom(x, c.seq, c.records)'
      BY <1>5
    <2>2. \A f \in Pending(x) :
              RecordsFrom(x, f.seq, f.msg.records) => RecordsFrom(x, f.seq, f.msg.records)'
      BY <1>5
    <2>. QED BY <1>2, <1>6, <2>1, <2>2 DEF RecordsOK
  <1>9. ShowsOK(x) => ShowsOK(x)'
    <2>1. ShowsFrom(x, c.seq, c.shows) => ShowsFrom(x, c.seq, c.shows)'
      BY <1>5
    <2>2. \A f \in Pending(x) :
              /\ ShowsFrom(x, f.seq, f.msg.state) => ShowsFrom(x, f.seq, f.msg.state)'
              /\ ShowsFrom(x, f.seq, "finished") => ShowsFrom(x, f.seq, "finished")'
      BY <1>5
    <2>. QED BY <1>2, <1>6, <2>1, <2>2 DEF ShowsOK
  <1>10. BotsOK(x) => BotsOK(x)'
    <2>1. BotsFrom(x, c.seq, c.bots) => BotsFrom(x, c.seq, c.bots)'
      BY <1>5
    <2>2. \A f \in Pending(x) : BotsFrom(x, f.seq, f.msg.bots) => BotsFrom(x, f.seq, f.msg.bots)'
      BY <1>5
    <2>. QED BY <1>2, <1>6, <2>1, <2>2 DEF BotsOK
  <1>. QED BY <1>4, <1>7, <1>8, <1>9, <1>10 DEF WillSeeAll

\* A connection that takes an event is left with what the later ones make of it: had
\* one with a lower number still been on its way, it would be dropped.
LEMMA TakenUp ==
    ASSUME IInv, NEW e, Emission(e), NEW x \in Person, Reaches(e, x),
           client'[x] = Received(client[x], e), WillSeeAll(x)
    PROVE  WillSeeAll(x)'
  <1>. SUFFICES ASSUME client'[x].on, ~Excused(x)', ~Void(x)'
                PROVE  /\ ViewOK(x)'
                       /\ x \in Player => RecordsOK(x)'
                       /\ x = Host => ShowsOK(x)' /\ BotsOK(x)'
    BY DEF WillSeeAll
  <1>1. PICK c \in Client : c = client[x]
    BY Facts
  <1>2. PICK d : d = client'[x]
    OBVIOUS
  <1>3. PICK m : m = e.msg
    OBVIOUS
  <1>4. /\ e \in Event /\ m \in Message /\ e.seq \in Nat /\ c.seq \in Nat
        /\ \A f \in InFlight : f \in Event /\ f.seq \in Nat
    BY <1>1, <1>3, Facts DEF Emission, Event, Client
  <1>5. d = Received(c, e)
    BY <1>1, <1>2
  <1>6. e.seq > c.seq
    <2>1. CASE ~(e.seq > c.seq)
      <3>1. d = [c EXCEPT !.dropped = TRUE]
        BY <1>5, <2>1 DEF Received
      <3>2. d.dropped
        BY <1>1, <3>1 DEF Client
      <3>. QED BY <1>2, <3>2 DEF Void
    <2>. QED BY <2>1
  <1>7. /\ d.seq = e.seq /\ d.gen = c.gen /\ d.on = c.on /\ d.dropped = c.dropped
        /\ d.view = IF ShowsView(m) THEN m.view
                    ELSE IF m.kind = "order" /\ m.week = c.view.week
                         THEN [c.view EXCEPT !.decided = @ \cup {m.player}]
                         ELSE c.view
        /\ d.records = IF m.kind = "full" THEN m.records
                       ELSE IF m.kind = "record" THEN c.records \cup {m.week} ELSE c.records
        /\ d.bots = IF m.kind = "host" THEN m.bots ELSE c.bots
        /\ d.shows = IF m.kind = "room" THEN m.state
                     ELSE IF m.kind = "finished" THEN "finished" ELSE c.shows
        /\ d.finished <=> c.finished \/ m.kind = "finished"
    BY <1>3, <1>4, <1>5, <1>6, Takes
  <1>8. \A f : Reaches(f, x)' <=> Reaches(f, x)
    BY <1>1, <1>2, <1>7 DEF Reaches
  <1>9. /\ Pending(x)' \subseteq Pending(x)
        /\ \A f \in Pending(x) : f # e => f \in Pending(x)'
        /\ e \in Pending(x)
    BY <1>8 DEF Pending, Emission
  <1>10. \A f \in Pending(x)' : f.seq > e.seq
    <2>1. ASSUME NEW f \in Pending(x)'
          PROVE  f.seq > e.seq
      <3>1. ~(f.seq <= d.seq)
        BY <1>2 DEF Void
      <3>2. f.seq \in Nat
        BY <1>4, <1>9 DEF Pending
      <3>. QED BY <1>4, <1>7, <3>1, <3>2
    <2>. QED BY <2>1
  <1>11. e \notin Pending(x)'
    BY <1>4, <1>10
  <1>12. ASSUME NEW s \in Nat, s >= e.seq
         PROVE  Later(x, s)' = Later(x, s)
    <2>1. ~(e.seq > s)
      BY <1>4, <1>12
    <2>. QED BY <1>9, <2>1 DEF Later
  <1>13. ~Void(x)
    <2>1. ~c.dropped
      BY <1>2, <1>7 DEF Void
    <2>2. ASSUME NEW f \in Pending(x), f.seq <= c.seq
          PROVE  FALSE
      <3>1. f # e
        BY <1>4, <1>6, <2>2
      <3>2. f.seq > e.seq /\ f.seq \in Nat
        BY <1>4, <1>9, <1>10, <3>1 DEF Pending
      <3>. QED BY <1>4, <1>6, <2>2, <3>2
    <2>3. ASSUME NEW f \in Pending(x), NEW g \in Pending(x), f # g, f.seq = g.seq
          PROVE  FALSE
      <3>1. CASE f # e /\ g # e
        BY <1>9, <2>3, <3>1 DEF Void
      <3>2. CASE f = e
        BY <1>4, <1>9, <1>10, <2>3, <3>2
      <3>3. CASE g = e
        BY <1>4, <1>9, <1>10, <2>3, <3>3
      <3>. QED BY <3>1, <3>2, <3>3
    <2>. QED BY <1>1, <2>1, <2>2, <2>3 DEF Void
  <1>14. ~Excused(x) /\ c.on
    BY <1>2, <1>7 DEF Excused, Emission
  <1>15. /\ ViewOK(x)
         /\ x \in Player => RecordsOK(x)
         /\ x = Host => ShowsOK(x) /\ BotsOK(x)
    BY <1>1, <1>13, <1>14 DEF WillSeeAll
  <1>16. \A f \in Later(x, c.seq) : f = e \/ f \in Later(x, e.seq)
    BY <1>9, <1>10 DEF Later
  <1>17. /\ e \in Later(x, c.seq)
         /\ Later(x, e.seq) \subseteq Later(x, c.seq)
    BY <1>4, <1>6, <1>9 DEF Later, Pending
  <1>18. ASSUME WillFinish(x)
         PROVE  WillFinish(x)'
    <2>1. CASE c.finished
      BY <1>2, <1>7, <2>1 DEF WillFinish
    <2>2. CASE Ending
      BY <2>2 DEF WillFinish, Emission
    <2>3. ASSUME NEW f \in Pending(x), f.msg.kind = "finished"
          PROVE  WillFinish(x)'
      <3>1. CASE f = e
        BY <1>2, <1>3, <1>7, <2>3, <3>1 DEF WillFinish
      <3>2. CASE f # e
        BY <1>9, <2>3, <3>2 DEF WillFinish
      <3>. QED BY <3>1, <3>2
    <2>. QED BY <1>1, <1>18, <2>1, <2>2, <2>3 DEF WillFinish
  <1>19. ASSUME NEW s \in Nat, s >= e.seq
         PROVE  /\ \A v : ViewFrom(x, s, v) => ViewFrom(x, s, v)'
                /\ \A recs : RecordsFrom(x, s, recs) => RecordsFrom(x, s, recs)'
                /\ \A st : ShowsFrom(x, s, st) => ShowsFrom(x, s, st)'
                /\ \A b : BotsFrom(x, s, b) => BotsFrom(x, s, b)'
    BY <1>12, <1>18, <1>19, FromSame DEF Emission
  <1>20. PICK s \in Nat : s = e.seq
    BY <1>4
  <1>21. ASSUME NEW f \in Pending(x)'
         PROVE  f \in Pending(x) /\ f.seq \in Nat /\ f.seq >= e.seq
    BY <1>4, <1>9, <1>10 DEF Pending
  <1>22. client'[x].seq = s /\ e.seq = s /\ s >= e.seq
    BY <1>2, <1>7, <1>20
  <1>23. ViewOK(x)'
    <2>1. ViewFrom(x, s, d.view)
      <3>1. CASE ShowsView(m)
        BY <1>3, <1>7, <1>9, <1>15, <1>20, <3>1 DEF ViewOK
      <3>2. CASE ~ShowsView(m)
        <4>1. ViewFrom(x, c.seq, c.view)
          BY <1>1, <1>15 DEF ViewOK
        <4>2. CASE \E f \in Later(x, c.seq) : ShowsView(f.msg)
          BY <1>3, <1>16, <1>20, <3>2, <4>2 DEF ViewFrom
        <4>3. CASE /\ c.view.week = room.week
                   /\ \/ /\ c.view.over <=> Over(room)
                         /\ c.view.decided \cup OrdersLater(x, c.seq) = room.decided
                      \/ /\ Over(room) /\ ~c.view.over /\ WillFinish(x)
                         /\ c.view.decided \cup OrdersLater(x, c.seq) = room.lastOrders
          <5>1. CASE m.kind = "order" /\ m.week = c.view.week
            <6>1. d.view = [c.view EXCEPT !.decided = @ \cup {m.player}] /\ m.player \in Player
              BY <1>4, <1>7, <3>2, <5>1, MessageTyped
            <6>2. /\ d.view.week = c.view.week /\ d.view.over = c.view.over
                  /\ d.view.decided = c.view.decided \cup {m.player}
              <7>1. c.view \in ViewState
                BY <1>1 DEF Client
              <7>. QED BY <6>1, <7>1 DEF ViewState
            <6>3. OrdersLater(x, c.seq) = OrdersLater(x, s) \cup {m.player}
              BY <1>3, <1>16, <1>17, <1>20, <4>3, <5>1, <6>1 DEF OrdersLater, OrderOf
            <6>4. d.view.decided \cup OrdersLater(x, s) =
                      c.view.decided \cup OrdersLater(x, c.seq)
              BY <6>2, <6>3
            <6>. QED BY <4>3, <6>2, <6>4 DEF ViewFrom
          <5>2. CASE ~(m.kind = "order" /\ m.week = c.view.week)
            <6>1. d.view = c.view
              BY <1>7, <3>2, <5>2
            <6>2. OrdersLater(x, c.seq) = OrdersLater(x, s)
              BY <1>3, <1>16, <1>17, <1>20, <4>3, <5>2 DEF OrdersLater, OrderOf
            <6>. QED BY <4>3, <6>1, <6>2 DEF ViewFrom
          <5>. QED BY <5>1, <5>2
        <4>. QED BY <4>1, <4>2, <4>3 DEF ViewFrom
      <3>. QED BY <3>1, <3>2
    <2>2. ViewFrom(x, s, d.view)'
      BY <1>2, <1>19, <1>22, <2>1
    <2>3. ASSUME NEW f \in Pending(x)', ShowsView(f.msg)
          PROVE  ViewFrom(x, f.seq, f.msg.view)'
      <3>1. ViewFrom(x, f.seq, f.msg.view)
        BY <1>15, <1>21, <2>3 DEF ViewOK
      <3>2. f.seq \in Nat /\ f.seq >= e.seq
        BY <1>21, <2>3
      <3>. QED BY <1>19, <3>1, <3>2
    <2>. QED BY <1>2, <1>22, <2>2, <2>3 DEF ViewOK
  <1>24. ASSUME x \in Player
         PROVE  RecordsOK(x)'
    <2>1. RecordsFrom(x, s, d.records)
      <3>1. CASE m.kind = "full"
        BY <1>3, <1>7, <1>9, <1>15, <1>20, <1>24, <3>1 DEF RecordsOK
      <3>2. CASE m.kind # "full"
        <4>1. RecordsFrom(x, c.seq, c.records)
          BY <1>1, <1>15, <1>24 DEF RecordsOK
        <4>2. ASSUME NEW w \in Closed(room)
              PROVE  w \in d.records \/ \E f \in Later(x, s) : RecordOf(f.msg, w)
          <5>1. CASE w \in c.records
            BY <1>7, <3>2, <5>1
          <5>2. ASSUME NEW f \in Later(x, c.seq), RecordOf(f.msg, w)
                PROVE  w \in d.records \/ \E g \in Later(x, s) : RecordOf(g.msg, w)
            <6>1. CASE f = e
              BY <1>3, <1>7, <3>2, <5>2, <6>1 DEF RecordOf
            <6>2. CASE f # e
              BY <1>16, <1>20, <5>2, <6>2
            <6>. QED BY <6>1, <6>2
          <5>. QED BY <4>1, <5>1, <5>2 DEF RecordsFrom
        <4>. QED BY <4>2 DEF RecordsFrom
      <3>. QED BY <3>1, <3>2
    <2>2. RecordsFrom(x, s, d.records)'
      BY <1>2, <1>19, <1>22, <2>1
    <2>3. ASSUME NEW f \in Pending(x)', f.msg.kind = "full"
          PROVE  RecordsFrom(x, f.seq, f.msg.records)'
      <3>1. RecordsFrom(x, f.seq, f.msg.records)
        BY <1>15, <1>21, <1>24, <2>3 DEF RecordsOK
      <3>2. f.seq \in Nat /\ f.seq >= e.seq
        BY <1>21, <2>3
      <3>. QED BY <1>19, <3>1, <3>2
    <2>. QED BY <1>2, <1>22, <2>2, <2>3 DEF RecordsOK
  <1>25. ASSUME x = Host
         PROVE  ShowsOK(x)'
    <2>1. ShowsFrom(x, s, d.shows)
      <3>1. CASE m.kind \in {"room", "finished"}
        BY <1>3, <1>7, <1>9, <1>15, <1>20, <1>25, <3>1 DEF ShowsOK
      <3>2. CASE m.kind \notin {"room", "finished"}
        <4>1. ShowsFrom(x, c.seq, c.shows)
          BY <1>1, <1>15, <1>25 DEF ShowsOK
        <4>2. d.shows = c.shows
          BY <1>7, <3>2
        <4>. QED BY <1>3, <1>16, <1>20, <3>2, <4>1, <4>2 DEF ShowsFrom
      <3>. QED BY <3>1, <3>2
    <2>2. ShowsFrom(x, s, d.shows)'
      BY <1>2, <1>19, <1>22, <2>1
    <2>3. ASSUME NEW f \in Pending(x)'
          PROVE  /\ f.msg.kind = "room" => ShowsFrom(x, f.seq, f.msg.state)'
                 /\ f.msg.kind = "finished" => ShowsFrom(x, f.seq, "finished")'
      <3>1. /\ f.msg.kind = "room" => ShowsFrom(x, f.seq, f.msg.state)
            /\ f.msg.kind = "finished" => ShowsFrom(x, f.seq, "finished")
        BY <1>15, <1>21, <1>25, <2>3 DEF ShowsOK
      <3>2. f.seq \in Nat /\ f.seq >= e.seq
        BY <1>21, <2>3
      <3>. QED BY <1>19, <3>1, <3>2
    <2>. QED BY <1>2, <1>22, <2>2, <2>3 DEF ShowsOK
  <1>26. ASSUME x = Host
         PROVE  BotsOK(x)'
    <2>1. BotsFrom(x, s, d.bots)
      <3>1. CASE m.kind = "host"
        BY <1>3, <1>7, <1>9, <1>15, <1>20, <1>26, <3>1 DEF BotsOK
      <3>2. CASE m.kind # "host"
        <4>1. BotsFrom(x, c.seq, c.bots)
          BY <1>1, <1>15, <1>26 DEF BotsOK
        <4>2. d.bots = c.bots
          BY <1>7, <3>2
        <4>. QED BY <1>3, <1>16, <1>20, <3>2, <4>1, <4>2 DEF BotsFrom
      <3>. QED BY <3>1, <3>2
    <2>2. BotsFrom(x, s, d.bots)'
      BY <1>2, <1>19, <1>22, <2>1
    <2>3. ASSUME NEW f \in Pending(x)', f.msg.kind = "host"
          PROVE  BotsFrom(x, f.seq, f.msg.bots)'
      <3>1. BotsFrom(x, f.seq, f.msg.bots)
        BY <1>15, <1>21, <1>26, <2>3 DEF BotsOK
      <3>2. f.seq \in Nat /\ f.seq >= e.seq
        BY <1>21, <2>3
      <3>. QED BY <1>19, <3>1, <3>2
    <2>. QED BY <1>2, <1>22, <2>2, <2>3 DEF BotsOK
  <1>. QED BY <1>23, <1>24, <1>25, <1>26

-------------------------------------------------------------------------------
(* What a section leaves of the rest of the invariant.                         *)

LEMMA Settles ==
    ASSUME StepInv, IInv', NEW new, Moves(new),
           \A x \in Person : client[x].gen <= client'[x].gen /\ room'.seat[x] <= client'[x].gen,
           ~Over(room') => \A x \in Person :
               /\ client'[x].seq <= room'.seq /\ client'[x].asked <= room'.seq
               /\ client'[x].on => room'.seat[x] = client'[x].gen
    PROVE  RunningInv' /\ AddressInv' /\ SeatedInv' /\ EndInv'
  <1>1. /\ IInv /\ RunningInv /\ AddressInv /\ EndInv
        /\ Sends(new)
        /\ Over(room) => Over(room')
        /\ room.seq \in Nat /\ room'.seq \in Nat
        /\ InFlight' = InFlight \cup new
        /\ \A e \in InFlight \cup new : e \in Event /\ e.seq \in Nat
        /\ \A x \in Person : client[x].gen \in Nat /\ client'[x].gen \in Nat
        /\ \A x \in Person : room'.seat[x] \in Nat
        /\ \A t \in Task : tasks[t].copy \in Document /\ tasks'[t].copy \in Document
    <2>1. /\ IInv /\ RunningInv /\ AddressInv /\ EndInv
          /\ Sends(new)
          /\ Over(room) => Over(room')
          /\ InFlight' = InFlight \cup new
      BY DEF StepInv, Moves, Sends
    <2>2. /\ room \in Document /\ client \in [Person -> Client]
          /\ tasks \in [Task -> TaskState] /\ InFlight \in SUBSET Event
      BY <2>1, Facts
    <2>3. /\ room' \in Document /\ client' \in [Person -> Client]
          /\ tasks' \in [Task -> TaskState]
      BY DEF IInv, TypeInv
    <2>4. \A e \in InFlight \cup new : e \in Event /\ e.seq \in Nat
      BY <2>1, <2>2 DEF Sends, Event
    <2>5. \A x \in Person : client[x].gen \in Nat /\ client'[x].gen \in Nat
      BY <2>2, <2>3 DEF Client
    <2>6. room.seq \in Nat /\ room'.seq \in Nat /\ \A x \in Person : room'.seat[x] \in Nat
      BY <2>2, <2>3, Numbers DEF Document
    <2>7. \A t \in Task : tasks[t].copy \in Document /\ tasks'[t].copy \in Document
      BY <2>2, <2>3 DEF TaskState
    <2>. QED BY <2>1, <2>4, <2>5, <2>6, <2>7
  <1>2. \A u \in Task : Finishes(u) => Over(room) /\ Over(room')
    BY <1>1 DEF IInv, CopiesInv, CopyOf, Finishes
  <1>3. \A u \in Task : Finishes(u)' => Over(room')
    BY <1>1 DEF IInv, CopiesInv, CopyOf, Finishes
  <1>4. ~Over(room') => room.seq <= room'.seq
    BY <1>2 DEF Moves
  <1>5. RunningInv'
    <2>1. ASSUME ~Over(room'), NEW e \in InFlight \cup new
          PROVE  e.seq <= room'.seq
      <3>1. CASE e \in InFlight
        BY <1>1, <1>4, <2>1, <3>1 DEF RunningInv
      <3>2. CASE e \in new
        BY <1>1, <2>1, <3>2 DEF Sends
      <3>. QED BY <3>1, <3>2
    <2>. QED BY <1>1, <2>1 DEF RunningInv
  <1>6. AddressInv'
    <2>1. ASSUME NEW t \in Task, NEW x \in Person, Finishes(t)'
          PROVE  tasks'[t].copy.seat[x] <= client'[x].gen
      <3>1. CASE Like(tasks'[t].copy, room')
        BY <3>1 DEF Like
      <3>2. ASSUME NEW v \in Task, Finishes(v), Like(tasks'[t].copy, tasks[v].copy)
            PROVE  tasks'[t].copy.seat[x] <= client'[x].gen
        <4>1. /\ tasks[v].copy.seat[x] <= client[x].gen
              /\ tasks'[t].copy.seat = tasks[v].copy.seat
          BY <1>1, <3>2 DEF AddressInv, Like
        <4>2. tasks[v].copy.seat[x] \in Nat
          BY <1>1 DEF Document
        <4>. QED BY <1>1, <4>1, <4>2
      <3>. QED BY <2>1, <3>1, <3>2 DEF Moves
    <2>2. ASSUME NEW e \in InFlight
          PROVE  /\ e.msg.to = Everybody \/ \E x \in Person : Sender(e.msg, x)'
                 /\ ShowsView(e.msg) => e.msg.to # Everybody
      <3>1. ASSUME NEW x \in Person, Sender(e.msg, x)
            PROVE  Sender(e.msg, x)'
        <4>1. PICK g \in 0..client[x].gen : e.msg.to = <<x, g>>
          BY <3>1 DEF Sender
        <4>2. g \in 0..client'[x].gen
          BY <1>1
        <4>. QED BY <4>1, <4>2 DEF Sender
      <3>. QED BY <1>1, <3>1 DEF AddressInv
    <2>3. ASSUME NEW e \in new
          PROVE  /\ e.msg.to = Everybody \/ \E x \in Person : Sender(e.msg, x)'
                 /\ ShowsView(e.msg) => e.msg.to # Everybody
      <3>1. e.msg \in Honest(room')
        BY <1>1 DEF Sends
      <3>2. ASSUME NEW x \in Person, e.msg.to = To(room', x)
            PROVE  Sender(e.msg, x)'
        <4>1. room'.seat[x] \in 0..client'[x].gen
          BY <1>1
        <4>2. e.msg.to = <<x, room'.seat[x]>>
          BY <3>2 DEF To
        <4>. QED BY <4>1, <4>2 DEF Sender
      <3>. QED BY <3>1, <3>2 DEF Honest
    <2>. QED BY <1>1, <2>1, <2>2, <2>3 DEF AddressInv
  <1>7. SeatedInv'
    BY DEF SeatedInv, IsSeated
  <1>8. EndInv'
    <2>1. ASSUME NEW t \in Task, Finishes(t)'
          PROVE  /\ tasks'[t].copy.decided = room'.decided
                 /\ tasks'[t].copy.lastOrders = room'.lastOrders
      <3>1. CASE Like(tasks'[t].copy, room')
        BY <3>1 DEF Like
      <3>2. ASSUME NEW v \in Task, Finishes(v), Like(tasks'[t].copy, tasks[v].copy)
            PROVE  /\ tasks'[t].copy.decided = room'.decided
                   /\ tasks'[t].copy.lastOrders = room'.lastOrders
        <4>1. /\ tasks[v].copy.decided = room.decided
              /\ tasks[v].copy.lastOrders = room.lastOrders
              /\ Over(room)
          BY <1>1, <1>2, <3>2 DEF EndInv
        <4>. QED BY <3>2, <4>1 DEF Like, Moves
      <3>. QED BY <2>1, <3>1, <3>2 DEF Moves
    <2>2. ASSUME NEW e \in InFlight', e.msg.kind = "finished"
          PROVE  Over(room')
      BY <1>1, <2>2 DEF EndInv, Sends, Honest
    <2>3. ASSUME NEW e \in InFlight, e.msg.kind = "room", e.msg.state # "finished"
          PROVE  /\ e.seq <= room'.seq
                 /\ \A t \in Task : Finishes(t)' => e.seq <= tasks'[t].copy.seq
      <3>1. /\ e.seq <= room.seq
            /\ \A v \in Task : Finishes(v) => e.seq <= tasks[v].copy.seq
        BY <1>1, <2>3 DEF EndInv
      <3>2. e.seq <= room'.seq
        <4>1. CASE room.seq <= room'.seq
          BY <1>1, <3>1, <4>1
        <4>2. ASSUME NEW v \in Task, Finishes(v), Like(room', tasks[v].copy)
              PROVE  e.seq <= room'.seq
          <5>1. /\ tasks[v].copy.seq <= room'.seq /\ tasks[v].copy.seq \in Nat
                /\ e.seq <= tasks[v].copy.seq
            BY <1>1, <3>1, <4>2 DEF Like, Document
          <5>. QED BY <1>1, <5>1
        <4>. QED BY <4>1, <4>2 DEF Moves
      <3>3. ASSUME NEW t \in Task, Finishes(t)'
            PROVE  e.seq <= tasks'[t].copy.seq
        <4>1. tasks'[t].copy.seq \in Nat
          BY <1>1 DEF Document
        <4>2. CASE Like(tasks'[t].copy, room')
          BY <1>1, <3>2, <4>1, <4>2 DEF Like
        <4>3. ASSUME NEW v \in Task, Finishes(v), Like(tasks'[t].copy, tasks[v].copy)
              PROVE  e.seq <= tasks'[t].copy.seq
          <5>1. /\ tasks[v].copy.seq <= tasks'[t].copy.seq /\ tasks[v].copy.seq \in Nat
                /\ e.seq <= tasks[v].copy.seq
            BY <1>1, <3>1, <4>3 DEF Like, Document
          <5>. QED BY <1>1, <4>1, <5>1
        <4>. QED BY <3>3, <4>2, <4>3 DEF Moves
      <3>. QED BY <3>2, <3>3
    <2>4. ASSUME NEW e \in new, e.msg.kind = "room", e.msg.state # "finished"
          PROVE  /\ e.seq <= room'.seq
                 /\ \A t \in Task : Finishes(t)' => e.seq <= tasks'[t].copy.seq
      <3>1. e.msg \in Honest(room')
        BY <1>1 DEF Sends
      <3>2. ~Over(room')
        BY <2>4, <3>1 DEF Honest, Over
      <3>. QED BY <1>1, <1>3, <3>2 DEF Sends
    <2>. QED BY <1>1, <2>1, <2>2, <2>3, <2>4 DEF EndInv
  <1>. QED BY <1>5, <1>6, <1>7, <1>8

\* A section whose clients stay where they are.
LEMMA SectionKeepsStep ==
    ASSUME StepInv, IInv', NEW new, Moves(new),
           \A x \in Person : Same(x),
           ~Over(room') => \A x \in Person :
               \/ client'[x].asked = client[x].asked
               \/ client'[x].asked <= room'.seq /\ Answered(x)',
           \A x \in Person : room'.seat[x] <= client[x].gen,
           ~Over(room') => \A x \in Person : client[x].on => room'.seat[x] = room.seat[x],
           ~Over(room') => room'.seq > room.seq \/ (room' = room /\ new = {}),
           \A x \in Person : client[x].on => Informs(x, new)
    PROVE  StepInv'
  <1>1. /\ IInv /\ RunningInv /\ AskedInv /\ SeatedInv
        /\ Sends(new)
        /\ Over(room) => Over(room')
        /\ room.seq \in Nat /\ room'.seq \in Nat
        /\ \A x \in Person : /\ client[x].seq \in Nat /\ client[x].asked \in Nat
                             /\ client[x].gen \in Nat
    BY Facts DEF StepInv, Moves, IInv, TypeInv, Client, Document
  <1>2. ASSUME ~Over(room'), NEW x \in Person
        PROVE  /\ client'[x].seq <= room'.seq /\ client'[x].asked <= room'.seq
               /\ client'[x].on => room'.seat[x] = client'[x].gen
    <2>1. room.seq <= room'.seq
      BY <1>1, <1>2
    <2>2. /\ client[x].seq <= room.seq /\ client[x].asked <= room.seq
          /\ client'[x].seq = client[x].seq
      BY <1>1, <1>2 DEF RunningInv, Same
    <2>3. client'[x].on => room'.seat[x] = client'[x].gen
      BY <1>1, <1>2 DEF SeatedInv, IsSeated, Same
    <2>4. client'[x].asked <= room'.seq
      <3>1. CASE client'[x].asked = client[x].asked
        BY <1>1, <2>1, <2>2, <3>1
      <3>. QED BY <1>2, <3>1
    <2>5. client'[x].seq <= room'.seq
      BY <1>1, <2>1, <2>2
    <2>. QED BY <2>3, <2>4, <2>5
  <1>3. RunningInv' /\ AddressInv' /\ SeatedInv' /\ EndInv'
    <2>1. \A x \in Person : client[x].gen <= client'[x].gen /\ room'.seat[x] <= client'[x].gen
      BY <1>1 DEF Same
    <2>. QED BY <1>2, <2>1, Settles
  <1>4. AskedInv'
    <2>1. ASSUME ~Over(room'), NEW x \in Person, IsSeated(x)', client'[x].asked = room'.seq
          PROVE  Answered(x)'
      <3>1. CASE client'[x].asked = client[x].asked
        <4>1. client[x].asked <= room.seq
          BY <1>1, <2>1 DEF RunningInv
        <4>2. room' = room /\ new = {}
          BY <1>1, <2>1, <3>1, <4>1
        <4>3. Answered(x)
          BY <1>1, <2>1, <3>1, <4>2 DEF AskedInv, IsSeated, Same
        <4>4. InFlight' = InFlight
          BY <1>1, <4>2 DEF Sends
        <4>. QED BY <4>2, <4>3, <4>4 DEF Answered, Answers, Reaches, Same
      <3>. QED BY <2>1, <3>1
    <2>. QED BY <2>1 DEF AskedInv
  <1>5. \A x \in Person : WillSeeAll(x)'
    <2>1. ASSUME NEW x \in Person
          PROVE  WillSeeAll(x)'
      <3>1. WillSeeAll(x) /\ (Excused(x) => Excused(x)')
        BY ExcusedStays DEF StepInv
      <3>. QED BY <1>1, <3>1, StaysInformed
    <2>. QED BY <2>1
  <1>. QED BY <1>3, <1>4, <1>5 DEF StepInv

-------------------------------------------------------------------------------
(* The sections that end with Ends.                                            *)

\* What the rest of a lemma about such a section needs to know of it.
LEMMA EndsTells ==
    ASSUME IInv, NEW t \in Task, tasks[t].outbox = <<>>, tasks[t].then # "finish",
           NEW next \in Document, NEW messages \in Seq(Honest(next)),
           NEW then \in {"idle", "close", "force", "drive", "drove", "resume", "resumed",
                         "finish", "broadcast"},
           Ends(t, next, messages, then), next.seq = room.seq,
           Over(room) => /\ Over(next) /\ room.bots \subseteq next.bots
                         /\ next.week = room.week /\ next.closed = room.closed
                         /\ next.decided = room.decided /\ next.lastOrders = room.lastOrders,
           NEW new, new = Range(Numbered(next, messages))
    PROVE  /\ Moves(new)
           /\ room'.state = next.state /\ room'.week = next.week
           /\ room'.decided = next.decided /\ room'.closed = next.closed
           /\ room'.lastOrders = next.lastOrders /\ room'.bots = next.bots
           /\ room'.seat = next.seat /\ Closed(room') = Closed(next)
           /\ Over(room') <=> Over(next)
           /\ room'.seq = room.seq + Len(messages)
           /\ StillEnds(new)
           /\ then = "finish" => Ending'
           /\ OrdersOf(new) \subseteq next.decided
           /\ \A m \in Range(messages) : \E e \in new : e.msg = m
           /\ \A e \in new : e.msg \in Range(messages)
  <1>1. Moves(new) /\ (Ending => Ending') /\ (then = "finish" => Ending')
    BY EndsMoves
  <1>2. /\ room'.state = next.state /\ room'.week = next.week
        /\ room'.decided = next.decided /\ room'.closed = next.closed
        /\ room'.lastOrders = next.lastOrders /\ room'.bots = next.bots
        /\ room'.seat = next.seat
        /\ Over(room') <=> Over(next)
        /\ room'.seq = room.seq + Len(messages)
    BY EndsSends
  <1>3. /\ \A e \in new : e.msg \in Honest(next) /\ e.msg \in Range(messages)
        /\ \A m \in Range(messages) : \E e \in new : e.msg = m
    BY NumberedHonest
  <1>4. OrdersOf(new) \subseteq next.decided
    BY <1>3 DEF OrdersOf, OrderOf, Honest, Telling
  <1>5. Closed(room') = Closed(next)
    BY <1>2 DEF Closed
  <1>. QED BY <1>1, <1>2, <1>3, <1>4, <1>5 DEF StillEnds

\* A section whose document seats everybody who is on.
LEMMA EndsKeepsStep ==
    ASSUME StepInv, IInv', NEW t \in Task, tasks[t].outbox = <<>>, tasks[t].then # "finish",
           NEW next \in Document, NEW messages \in Seq(Honest(next)),
           NEW then \in {"idle", "close", "force", "drive", "drove", "resume", "resumed",
                         "finish", "broadcast"},
           Ends(t, next, messages, then), client' = client, next.seq = room.seq,
           Over(room) => /\ Over(next) /\ room.bots \subseteq next.bots
                         /\ next.week = room.week /\ next.closed = room.closed
                         /\ next.decided = room.decided /\ next.lastOrders = room.lastOrders,
           \A x \in Person : next.seat[x] <= client[x].gen,
           ~Over(next) => \A x \in Person : client[x].on => next.seat[x] = room.seat[x],
           ~Over(next) => messages # <<>> \/ next = room,
           NEW new, new = Range(Numbered(next, messages)),
           \A x \in Person : client[x].on => Informs(x, new)
    PROVE  StepInv'
  <1>1. IInv
    BY DEF StepInv
  <1>2. /\ Moves(new)
        /\ room'.seat = next.seat
        /\ Over(room') <=> Over(next)
        /\ room'.seq = room.seq + Len(messages)
    BY <1>1, EndsTells
  <1>3. \A x \in Person : Same(x) /\ client'[x].asked = client[x].asked
    BY DEF Same
  <1>4. room.seq \in Nat /\ Len(messages) \in Nat /\ (messages # <<>> => Len(messages) > 0)
    BY <1>1, Facts
  <1>5. ASSUME messages = <<>>, next = room
        PROVE  room' = room /\ new = {}
    <2>1. new = {}
      BY <1>5 DEF Numbered, Range
    <2>2. room' = [room EXCEPT !.seq = @ + 0]
      BY <1>5 DEF Ends, After
    <2>3. room \in Document
      BY <1>1, Facts
    <2>. QED BY <2>1, <2>2, <2>3 DEF Document
  <1>6. ~Over(room') => room'.seq > room.seq \/ (room' = room /\ new = {})
    BY <1>2, <1>4, <1>5
  <1>. QED BY <1>2, <1>3, <1>6, SectionKeepsStep

\* Who is on while the game runs is reached at the seat the document has for it.
LEMMA ReachesSeated ==
    ASSUME StepInv, ~Over(room), NEW x \in Person, client[x].on
    PROVE  /\ room.seat[x] = client[x].gen /\ room.seat[x] # 0
           /\ \A doc, e : /\ doc.seat[x] = room.seat[x]
                          /\ e.msg.to \in {Everybody, To(doc, x)}
                          => Reaches(e, x)
  <1>1. room.seat[x] = client[x].gen
    BY DEF StepInv, SeatedInv, IsSeated
  <1>2. client[x].gen \in 1..MaxJoins
    BY Facts DEF StepInv, Client
  <1>3. room.seat[x] # 0
    BY <1>1, <1>2, Numbers
  <1>. QED BY <1>1, <1>3 DEF Reaches, To

\* A document of the same moment of the same week shows no one anything new.
LEMMA InformsQuiet ==
    ASSUME room'.week = room.week, Over(room') <=> Over(room),
           room'.decided = room.decided, room'.lastOrders = room.lastOrders,
           room'.closed = room.closed, NEW new, OrdersOf(new) \subseteq room.decided,
           StillEnds(new)
    PROVE  \A x \in Person : InformsView(x, new) /\ InformsRecords(x, new)
  BY DEF InformsView, InformsRecords, Closed

LEMMA PauseGameStep ==
    ASSUME StepInv, NEW t \in Task, PauseGame(t)
    PROVE  StepInv'
  <1>1. PICK next : next = [room EXCEPT !.state = "paused"]
    OBVIOUS
  <1>2. PICK messages : messages = <<RoomState("paused")>>
    OBVIOUS
  <1>3. PICK new : new = Range(Numbered(next, messages))
    OBVIOUS
  <1>4. /\ next \in Document /\ next.state = "paused"
        /\ next.week = room.week /\ next.closed = room.closed
        /\ next.decided = room.decided /\ next.lastOrders = room.lastOrders
        /\ next.bots = room.bots /\ next.seat = room.seat /\ next.seq = room.seq
    BY <1>1, Facts DEF StepInv, Document, RoomStates
  <1>5. /\ IInv /\ IInv'
        /\ ~Over(room) /\ ~Over(next)
        /\ Ends(t, next, messages, "idle") /\ client' = client
        /\ tasks[t].outbox = <<>> /\ tasks[t].then # "finish"
    BY <1>1, <1>2, <1>4, PauseGameKeeps DEF StepInv, PauseGame, HostCalls, Start, Over, Idle
  <1>6. messages \in Seq(Honest(next)) /\ RoomState("paused") \in Range(messages)
    BY <1>2, <1>4, HonestMessages DEF Range
  <1>7. /\ room'.state = next.state /\ room'.week = next.week
        /\ room'.decided = next.decided /\ room'.closed = next.closed
        /\ room'.lastOrders = next.lastOrders /\ room'.bots = next.bots
        /\ Over(room') <=> Over(next)
        /\ StillEnds(new)
        /\ OrdersOf(new) \subseteq next.decided
        /\ \A m \in Range(messages) : \E e \in new : e.msg = m
    BY <1>3, <1>4, <1>5, <1>6, EndsTells
  <1>8. ASSUME NEW x \in Person, client[x].on
        PROVE  Informs(x, new)
    <2>1. InformsView(x, new) /\ InformsRecords(x, new)
      BY <1>4, <1>5, <1>7, InformsQuiet
    <2>2. InformsBots(new)
      BY <1>4, <1>7 DEF InformsBots
    <2>3. PICK e \in new : e.msg = RoomState("paused")
      BY <1>6, <1>7
    <2>4. e.msg.kind = "room" /\ e.msg.to = Everybody
      BY <2>3 DEF RoomState
    <2>5. x = Host => InformsShows(new)
      BY <1>5, <1>8, <2>4 DEF InformsShows, Reaches
    <2>. QED BY <2>1, <2>2, <2>5 DEF Informs
  <1>9. \A x \in Person : next.seat[x] <= client[x].gen
    BY <1>4 DEF StepInv, AddressInv
  <1>. QED BY <1>2, <1>3, <1>4, <1>5, <1>6, <1>8, <1>9, EndsKeepsStep

LEMMA ResumeGameStep ==
    ASSUME StepInv, NEW t \in Task, ResumeGame(t)
    PROVE  StepInv'
  <1>1. PICK next : next = [room EXCEPT !.state = "running"]
    OBVIOUS
  <1>2. PICK messages : messages = <<RoomState("running")>>
    OBVIOUS
  <1>3. PICK new : new = Range(Numbered(next, messages))
    OBVIOUS
  <1>4. /\ next \in Document /\ next.state = "running"
        /\ next.week = room.week /\ next.closed = room.closed
        /\ next.decided = room.decided /\ next.lastOrders = room.lastOrders
        /\ next.bots = room.bots /\ next.seat = room.seat /\ next.seq = room.seq
    BY <1>1, Facts DEF StepInv, Document, RoomStates
  <1>5. /\ IInv /\ IInv'
        /\ ~Over(room) /\ ~Over(next)
        /\ Ends(t, next, messages, "broadcast") /\ client' = client
        /\ tasks[t].outbox = <<>> /\ tasks[t].then # "finish"
    BY <1>1, <1>2, <1>4, ResumeGameKeeps DEF StepInv, ResumeGame, HostCalls, Start, Over, Idle
  <1>6. messages \in Seq(Honest(next)) /\ RoomState("running") \in Range(messages)
    BY <1>2, <1>4, HonestMessages DEF Range
  <1>7. /\ room'.state = next.state /\ room'.week = next.week
        /\ room'.decided = next.decided /\ room'.closed = next.closed
        /\ room'.lastOrders = next.lastOrders /\ room'.bots = next.bots
        /\ Over(room') <=> Over(next)
        /\ StillEnds(new)
        /\ OrdersOf(new) \subseteq next.decided
        /\ \A m \in Range(messages) : \E e \in new : e.msg = m
    BY <1>3, <1>4, <1>5, <1>6, EndsTells
  <1>8. ASSUME NEW x \in Person, client[x].on
        PROVE  Informs(x, new)
    <2>1. InformsView(x, new) /\ InformsRecords(x, new)
      BY <1>4, <1>5, <1>7, InformsQuiet
    <2>2. InformsBots(new)
      BY <1>4, <1>7 DEF InformsBots
    <2>3. PICK e \in new : e.msg = RoomState("running")
      BY <1>6, <1>7
    <2>4. e.msg.kind = "room" /\ e.msg.to = Everybody
      BY <2>3 DEF RoomState
    <2>5. x = Host => InformsShows(new)
      BY <1>5, <1>8, <2>4 DEF InformsShows, Reaches
    <2>. QED BY <2>1, <2>2, <2>5 DEF Informs
  <1>9. \A x \in Person : next.seat[x] <= client[x].gen
    BY <1>4 DEF StepInv, AddressInv
  <1>. QED BY <1>2, <1>3, <1>4, <1>5, <1>6, <1>8, <1>9, EndsKeepsStep

\* A section that leaves the document as it found it.
LEMMA UnchangedStep ==
    ASSUME StepInv, IInv', NEW t \in Task, tasks[t].outbox = <<>>, tasks[t].then # "finish",
           NEW messages \in Seq(Honest(room)),
           NEW then \in {"idle", "close", "force", "resume"},
           Ends(t, room, messages, then), client' = client
    PROVE  StepInv'
  <1>1. PICK next : next = room
    OBVIOUS
  <1>2. PICK new : new = Range(Numbered(next, messages))
    OBVIOUS
  <1>3. /\ IInv /\ next \in Document /\ messages \in Seq(Honest(next))
        /\ Ends(t, next, messages, then)
        /\ then \in {"idle", "close", "force", "drive", "drove", "resume", "resumed",
                     "finish", "broadcast"}
    BY <1>1, Facts DEF StepInv
  <1>4. /\ room'.state = next.state /\ room'.week = next.week
        /\ room'.decided = next.decided /\ room'.closed = next.closed
        /\ room'.lastOrders = next.lastOrders /\ room'.bots = next.bots
        /\ Over(room') <=> Over(next)
        /\ StillEnds(new)
        /\ OrdersOf(new) \subseteq next.decided
    BY <1>1, <1>2, <1>3, EndsTells
  <1>5. ASSUME NEW x \in Person
        PROVE  Informs(x, new)
    <2>1. InformsView(x, new) /\ InformsRecords(x, new)
      BY <1>1, <1>4, InformsQuiet
    <2>2. InformsBots(new) /\ InformsShows(new)
      BY <1>1, <1>4 DEF InformsBots, InformsShows
    <2>. QED BY <2>1, <2>2 DEF Informs
  <1>6. \A x \in Person : next.seat[x] <= client[x].gen
    BY <1>1 DEF StepInv, AddressInv
  <1>. QED BY <1>1, <1>2, <1>3, <1>5, <1>6, EndsKeepsStep

LEMMA ForceCloseWeekStep ==
    ASSUME StepInv, NEW t \in Task, ForceCloseWeek(t)
    PROVE  StepInv'
  <1>1. IInv' /\ <<>> \in Seq(Honest(room))
    BY ForceCloseWeekKeeps DEF StepInv
  <1>2. /\ Ends(t, room, <<>>, "force") /\ client' = client
        /\ tasks[t].outbox = <<>> /\ tasks[t].then # "finish"
    BY DEF ForceCloseWeek, HostCalls, Start, Idle
  <1>. QED BY <1>1, <1>2, UnchangedStep

LEMMA BroadcastStateStep ==
    ASSUME StepInv, NEW t \in Task, BroadcastState(t)
    PROVE  StepInv'
  <1>1. PICK messages : messages = StateRefresh(room)
    OBVIOUS
  <1>2. IInv' /\ messages \in Seq(Honest(room))
    BY <1>1, Facts, BroadcastStateKeeps, StateRefreshHonest DEF StepInv
  <1>3. /\ Ends(t, room, messages, "resume") /\ client' = client
        /\ tasks[t].outbox = <<>> /\ tasks[t].then # "finish"
    BY <1>1 DEF BroadcastState, Refreshed, Continues
  <1>. QED BY <1>2, <1>3, UnchangedStep

LEMMA NothingDueStep ==
    ASSUME StepInv, IInv', NEW t \in Task, NEW then, then # "finish", Continues(t, then),
           Ends(t, room, <<>>, AfterDrive(then)), client' = client
    PROVE  StepInv'
  <1>1. PICK after : after = AfterDrive(then)
    OBVIOUS
  <1>2. after \in {"idle", "close", "force", "resume"} /\ Ends(t, room, <<>>, after)
    BY <1>1 DEF AfterDrive
  <1>3. tasks[t].outbox = <<>> /\ tasks[t].then # "finish"
    BY DEF Continues
  <1>4. <<>> \in Seq(Honest(room))
    OBVIOUS
  <1>. QED BY <1>2, <1>3, <1>4, UnchangedStep

\* The end of the game: everybody seated is sent the last view, but a seat that is
\* swapped.
LEMMA EndGameEarlyStep ==
    ASSUME StepInv, NEW t \in Task, EndGameEarly(t)
    PROVE  StepInv'
  <1>1. PICK next : next = [room EXCEPT !.state = "finished"]
    OBVIOUS
  <1>2. PICK messages : messages = StateRefresh(next)
    OBVIOUS
  <1>3. PICK new : new = Range(Numbered(next, messages))
    OBVIOUS
  <1>4. /\ next \in Document /\ next.state = "finished"
        /\ next.week = room.week /\ next.closed = room.closed
        /\ next.decided = room.decided /\ next.lastOrders = room.lastOrders
        /\ next.bots = room.bots /\ next.seat = room.seat /\ next.seq = room.seq
    BY <1>1, Facts DEF StepInv, Document, RoomStates
  <1>5. /\ IInv /\ IInv'
        /\ ~Over(room) /\ Over(next)
        /\ Ends(t, next, messages, "finish") /\ client' = client
        /\ tasks[t].outbox = <<>> /\ tasks[t].then # "finish"
    BY <1>1, <1>2, <1>4, EndGameEarlyKeeps
       DEF StepInv, EndGameEarly, HostCalls, Start, Over, Idle
  <1>6. /\ messages \in Seq(Honest(next))
        /\ next.seat[Host] # 0 => HostState(next) \in Range(messages)
        /\ \A p \in Player : next.seat[p] # 0 /\ p \notin next.bots =>
              YourFullState(next, p) \in Range(messages)
    BY <1>2, <1>4, StateRefreshHonest
  <1>7. /\ room'.week = next.week /\ Closed(room') = Closed(next)
        /\ room'.bots = next.bots
        /\ Over(room') <=> Over(next)
        /\ Ending'
        /\ \A m \in Range(messages) : \E e \in new : e.msg = m
    BY <1>3, <1>4, <1>5, <1>6, EndsTells
  <1>8. ASSUME NEW u \in Task, Finishes(u)'
        PROVE  tasks'[u].copy.bots = room'.bots
    <2>1. /\ \A v \in Task : v # t => tasks'[v] = tasks[v]
          /\ tasks'[t].copy = room'
      BY <1>3, <1>4, <1>5, <1>6, EndsSends
    <2>2. \A v \in Task : ~Finishes(v)
      BY <1>5 DEF IInv, CopiesInv, CopyOf, Finishes
    <2>3. u = t
      BY <1>8, <2>1, <2>2 DEF Finishes
    <2>. QED BY <2>1, <2>3
  <1>9. ASSUME NEW x \in Person, client[x].on
        PROVE  Informs(x, new)
    <2>1. /\ next.seat[x] = room.seat[x] /\ next.seat[x] # 0
          /\ \A e : e.msg.to = To(next, x) => Reaches(e, x)
      BY <1>4, <1>5, <1>9, ReachesSeated
    <2>2. InformsView(x, new)
      <3>1. CASE x \in Player /\ x \in next.bots
        BY <1>5, <1>7, <1>8, <3>1 DEF InformsView, Excused
      <3>2. CASE x \in Player /\ x \notin next.bots
        <4>1. PICK e \in new : e.msg = YourFullState(next, x)
          BY <1>6, <1>7, <2>1, <3>2
        <4>. QED BY <1>5, <2>1, <4>1 DEF InformsView, YourFullState, ShowsView
      <3>3. CASE x = Host
        <4>1. PICK e \in new : e.msg = HostState(next)
          BY <1>6, <1>7, <2>1, <3>3
        <4>. QED BY <1>5, <2>1, <3>3, <4>1 DEF InformsView, HostState, ShowsView
      <3>. QED BY <3>1, <3>2, <3>3 DEF Person
    <2>3. InformsRecords(x, new)
      BY <1>4, <1>7 DEF InformsRecords, Closed
    <2>4. InformsShows(new) /\ InformsBots(new)
      BY <1>5, <1>7 DEF InformsShows, InformsBots
    <2>. QED BY <2>2, <2>3, <2>4 DEF Informs
  <1>10. \A x \in Person : next.seat[x] <= client[x].gen
    BY <1>4 DEF StepInv, AddressInv
  <1>. QED BY <1>3, <1>4, <1>5, <1>6, <1>9, <1>10, EndsKeepsStep

LEMMA SubstituteBotStep ==
    ASSUME StepInv, NEW t \in Task, NEW p \in Player, SubstituteBot(t, p)
    PROVE  StepInv'
  <1>1. PICK next : next = [room EXCEPT !.bots = @ \cup {p}]
    OBVIOUS
  <1>2. PICK messages : messages = <<Note>> \o HostRefresh(next)
    OBVIOUS
  <1>3. PICK then : then = IF ~Over(next) /\ p \notin next.decided THEN "drive" ELSE "idle"
    OBVIOUS
  <1>4. PICK new : new = Range(Numbered(next, messages))
    OBVIOUS
  <1>5. /\ next \in Document /\ next.state = room.state
        /\ next.week = room.week /\ next.closed = room.closed
        /\ next.decided = room.decided /\ next.lastOrders = room.lastOrders
        /\ room.bots \subseteq next.bots /\ next.seat = room.seat /\ next.seq = room.seq
    BY <1>1, Facts DEF StepInv, Document
  <1>6. /\ IInv /\ IInv'
        /\ Over(next) <=> Over(room)
        /\ Ends(t, next, messages, then) /\ client' = client
        /\ tasks[t].outbox = <<>> /\ tasks[t].then # "finish"
    BY <1>1, <1>2, <1>3, <1>5, SubstituteBotKeeps
       DEF StepInv, SubstituteBot, HostCalls, Start, Over, Idle
  <1>7. /\ messages \in Seq(Honest(next)) /\ messages # <<>>
        /\ next.seat[Host] # 0 => HostState(next) \in Range(messages)
    <2>1. <<Note>> \in Seq(Honest(next)) /\ HostRefresh(next) \in Seq(Honest(next))
      BY <1>5, HonestMessages, HostRefreshHonest
    <2>2. /\ messages \in Seq(Honest(next))
          /\ Range(messages) = Range(<<Note>>) \cup Range(HostRefresh(next))
      BY <1>2, <2>1, Joined
    <2>3. Range(<<Note>>) # {} /\ Range(<<>>) = {}
      BY DEF Range
    <2>. QED BY <1>5, <2>2, <2>3, HostRefreshHonest
  <1>8. then \in {"drive", "idle"}
    BY <1>3
  <1>9. /\ room'.state = next.state /\ room'.week = next.week
        /\ room'.decided = next.decided /\ room'.closed = next.closed
        /\ room'.lastOrders = next.lastOrders
        /\ Over(room') <=> Over(next)
        /\ StillEnds(new)
        /\ OrdersOf(new) \subseteq next.decided
        /\ \A m \in Range(messages) : \E e \in new : e.msg = m
    BY <1>4, <1>5, <1>6, <1>7, <1>8, EndsTells
  <1>10. ASSUME NEW x \in Person, client[x].on
         PROVE  Informs(x, new)
    <2>1. InformsView(x, new) /\ InformsRecords(x, new)
      BY <1>5, <1>6, <1>9, InformsQuiet
    <2>2. InformsShows(new)
      BY <1>5, <1>9 DEF InformsShows
    <2>3. ASSUME x = Host, ~Over(room)
          PROVE  InformsBots(new)
      <3>1. /\ next.seat[Host] # 0
            /\ \A e : e.msg.to = To(next, Host) => Reaches(e, Host)
        BY <1>5, <1>10, <2>3, ReachesSeated
      <3>2. PICK e \in new : e.msg = HostState(next)
        BY <1>7, <1>9, <3>1
      <3>. QED BY <2>3, <3>1, <3>2 DEF InformsBots, HostState
    <2>4. x = Host => InformsBots(new)
      BY <1>6, <1>9, <2>3 DEF InformsBots
    <2>. QED BY <2>1, <2>2, <2>4 DEF Informs
  <1>11. \A x \in Person : next.seat[x] <= client[x].gen
    BY <1>5 DEF StepInv, AddressInv
  <1>. QED BY <1>4, <1>5, <1>6, <1>7, <1>8, <1>10, <1>11, EndsKeepsStep

LEMMA ReclaimSeatStep ==
    ASSUME StepInv, NEW t \in Task, NEW p \in Player, ReclaimSeat(t, p)
    PROVE  StepInv'
  <1>1. PICK next : next = [room EXCEPT !.bots = @ \ {p}]
    OBVIOUS
  <1>2. PICK messages : messages = <<Note, YourFullState(next, p)>> \o HostRefresh(next)
    OBVIOUS
  <1>3. PICK new : new = Range(Numbered(next, messages))
    OBVIOUS
  <1>4. /\ next \in Document /\ next.state = room.state
        /\ next.week = room.week /\ next.closed = room.closed
        /\ next.decided = room.decided /\ next.lastOrders = room.lastOrders
        /\ next.seat = room.seat /\ next.seq = room.seq
    BY <1>1, Facts DEF StepInv, Document
  <1>5. /\ IInv /\ IInv'
        /\ ~Over(room) /\ ~Over(next)
        /\ Ends(t, next, messages, "idle") /\ client' = client
        /\ tasks[t].outbox = <<>> /\ tasks[t].then # "finish"
    BY <1>1, <1>2, <1>4, ReclaimSeatKeeps DEF StepInv, ReclaimSeat, Start, Over, Idle
  <1>6. /\ messages \in Seq(Honest(next)) /\ messages # <<>>
        /\ next.seat[Host] # 0 => HostState(next) \in Range(messages)
    <2>1. PICK first : first = <<Note, YourFullState(next, p)>>
      OBVIOUS
    <2>2. /\ first \in Seq(Honest(next)) /\ HostRefresh(next) \in Seq(Honest(next))
          /\ Note \in Range(first) /\ Range(<<>>) = {}
      BY <1>4, <2>1, HonestMessages, HostRefreshHonest DEF Range
    <2>3. /\ messages \in Seq(Honest(next))
          /\ Range(messages) = Range(first) \cup Range(HostRefresh(next))
      <3>1. PICK S, rest : S = Honest(next) /\ rest = HostRefresh(next)
        OBVIOUS
      <3>2. first \o rest \in Seq(S) /\ Range(first \o rest) = Range(first) \cup Range(rest)
        BY <2>2, <3>1, Joined
      <3>. QED BY <1>2, <2>1, <3>1, <3>2
    <2>. QED BY <1>4, <2>2, <2>3, HostRefreshHonest
  <1>7. /\ room'.state = next.state /\ room'.week = next.week
        /\ room'.decided = next.decided /\ room'.closed = next.closed
        /\ room'.lastOrders = next.lastOrders
        /\ Over(room') <=> Over(next)
        /\ StillEnds(new)
        /\ OrdersOf(new) \subseteq next.decided
        /\ \A m \in Range(messages) : \E e \in new : e.msg = m
    BY <1>3, <1>4, <1>5, <1>6, EndsTells
  <1>8. ASSUME NEW x \in Person, client[x].on
        PROVE  Informs(x, new)
    <2>1. InformsView(x, new) /\ InformsRecords(x, new)
      BY <1>4, <1>5, <1>7, InformsQuiet
    <2>2. InformsShows(new)
      BY <1>4, <1>7 DEF InformsShows
    <2>3. ASSUME x = Host
          PROVE  InformsBots(new)
      <3>1. /\ next.seat[Host] # 0
            /\ \A e : e.msg.to = To(next, Host) => Reaches(e, Host)
        BY <1>4, <1>5, <1>8, <2>3, ReachesSeated
      <3>2. PICK e \in new : e.msg = HostState(next)
        BY <1>6, <1>7, <3>1
      <3>. QED BY <1>5, <3>1, <3>2 DEF InformsBots, HostState
    <2>. QED BY <2>1, <2>2, <2>3 DEF Informs
  <1>9. \A x \in Person : next.seat[x] <= client[x].gen
    BY <1>4 DEF StepInv, AddressInv
  <1>. QED BY <1>3, <1>4, <1>5, <1>6, <1>8, <1>9, EndsKeepsStep

\* The seat of a connection that is off is freed.
LEMMA SeatFreedStep ==
    ASSUME StepInv, IInv', NEW t \in Task, tasks[t].outbox = <<>>, tasks[t].then # "finish",
           NEW x \in Person, ~client[x].on, client' = client,
           NEW next \in Document, NEW messages \in Seq(Honest(next)),
           Ends(t, next, messages, "idle"),
           next.week = room.week, next.closed = room.closed,
           next.decided = room.decided, next.lastOrders = room.lastOrders,
           next.bots = room.bots, next.seq = room.seq, next.seat[x] = 0,
           \A y \in Person : y # x => next.seat[y] = room.seat[y],
           Over(next) <=> Over(room), messages = <<>> => Over(next),
           \/ next.state = room.state
           \/ ~Over(room) /\ RoomState(next.state) \in Range(messages)
    PROVE  StepInv'
  <1>1. PICK new : new = Range(Numbered(next, messages))
    OBVIOUS
  <1>2. IInv
    BY DEF StepInv
  <1>3. /\ room'.state = next.state /\ room'.week = next.week
        /\ room'.decided = next.decided /\ room'.closed = next.closed
        /\ room'.lastOrders = next.lastOrders /\ room'.bots = next.bots
        /\ Over(room') <=> Over(next)
        /\ StillEnds(new)
        /\ OrdersOf(new) \subseteq next.decided
        /\ \A m \in Range(messages) : \E e \in new : e.msg = m
    BY <1>1, <1>2, EndsTells
  <1>4. ASSUME NEW y \in Person, client[y].on
        PROVE  Informs(y, new)
    <2>1. InformsView(y, new) /\ InformsRecords(y, new)
      BY <1>3, InformsQuiet
    <2>2. InformsBots(new)
      BY <1>3 DEF InformsBots
    <2>3. ASSUME y = Host, ~Over(room), RoomState(next.state) \in Range(messages)
          PROVE  InformsShows(new)
      <3>1. PICK e \in new : e.msg = RoomState(next.state)
        BY <1>3, <2>3
      <3>2. e.msg.kind = "room" /\ e.msg.to = Everybody
        BY <3>1 DEF RoomState
      <3>. QED BY <1>4, <2>3, <3>2 DEF InformsShows, Reaches
    <2>4. next.state = room.state => InformsShows(new)
      BY <1>3 DEF InformsShows
    <2>. QED BY <2>1, <2>2, <2>3, <2>4 DEF Informs
  <1>5. ASSUME NEW y \in Person
        PROVE  next.seat[y] <= client[y].gen
    <2>1. client[x].gen \in Nat /\ room.seat[y] <= client[y].gen
      BY <1>2, Facts DEF StepInv, AddressInv, Client
    <2>. QED BY <2>1
  <1>. QED BY <1>1, <1>2, <1>4, <1>5, EndsKeepsStep

\* The cleanup of a connection that is off, which may pause the room.
LEMMA DisconnectStep ==
    ASSUME StepInv, NEW t \in Task, NEW x \in Person, Disconnect(t, x)
    PROVE  StepInv'
  <1>1. PICK r : r = [room EXCEPT !.seat[x] = 0]
    OBVIOUS
  <1>2. PICK paused : paused = [r EXCEPT !.state = "paused"]
    OBVIOUS
  <1>3. /\ r \in Document /\ r.state = room.state
        /\ r.week = room.week /\ r.closed = room.closed
        /\ r.decided = room.decided /\ r.lastOrders = room.lastOrders
        /\ r.bots = room.bots /\ r.seq = room.seq /\ r.seat[x] = 0
        /\ \A y \in Person : y # x => r.seat[y] = room.seat[y]
    <2>1. /\ room \in Document /\ room.seat \in [Person -> 0..MaxJoins] /\ 0 \in 0..MaxJoins
      BY Facts, Numbers DEF StepInv
    <2>2. PICK seats : seats = [room.seat EXCEPT ![x] = 0]
      OBVIOUS
    <2>3. /\ seats \in [Person -> 0..MaxJoins] /\ seats[x] = 0
          /\ \A y \in Person : y # x => seats[y] = room.seat[y]
      BY <2>1, <2>2
    <2>4. r = [room EXCEPT !.seat = seats]
      BY <1>1, <2>1, <2>2 DEF Document
    <2>. QED BY <2>1, <2>3, <2>4 DEF Document
  <1>4. /\ paused \in Document /\ paused.state = "paused"
        /\ paused.week = room.week /\ paused.closed = room.closed
        /\ paused.decided = room.decided /\ paused.lastOrders = room.lastOrders
        /\ paused.bots = room.bots /\ paused.seq = room.seq /\ paused.seat = r.seat
    BY <1>2, <1>3 DEF Document, RoomStates
  <1>5. IInv' /\ client' = client /\ ~client[x].on /\ tasks[t] = Idle
    <2>1. IInv'
      BY DisconnectKeeps DEF StepInv
    <2>. QED BY <2>1 DEF Disconnect
  <1>6. tasks[t].outbox = <<>> /\ tasks[t].then # "finish"
    BY <1>5 DEF Idle
  <1>7. \/ Over(r) /\ Ends(t, r, <<>>, "idle")
        \/ Ends(t, r, <<Note>>, "idle")
        \/ r.state = "running" /\ Ends(t, paused, <<Note, RoomState("paused")>>, "idle")
    <2>1. CASE x = Host
      BY <1>1, <2>1 DEF Disconnect
    <2>2. CASE x # Host /\ r.state = "running"
      BY <1>1, <1>2, <2>2 DEF Disconnect
    <2>3. CASE x # Host /\ r.state # "running"
      BY <1>1, <2>3 DEF Disconnect
    <2>. QED BY <2>1, <2>2, <2>3
  <1>8. Over(r) <=> Over(room)
    BY <1>3 DEF Over
  <1>9. ASSUME NEW messages \in {<<>>, <<Note>>}, Ends(t, r, messages, "idle"),
               messages = <<>> => Over(r)
        PROVE  StepInv'
    <2>1. messages \in Seq(Honest(r))
      <3>1. Note \in Honest(r)
        BY <1>3, HonestMessages
      <3>2. CASE messages = <<>>
        BY <3>2
      <3>3. CASE messages = <<Note>>
        BY <3>1, <3>3
      <3>. QED BY <1>9, <3>2, <3>3
    <2>. QED BY <1>3, <1>5, <1>6, <1>8, <1>9, <2>1, SeatFreedStep
  <1>10. ASSUME r.state = "running", NEW messages, messages = <<Note, RoomState("paused")>>,
                Ends(t, paused, messages, "idle")
         PROVE  StepInv'
    <2>1. ~Over(room) /\ ~Over(paused)
      BY <1>3, <1>4, <1>10 DEF Over
    <2>2. /\ messages \in Seq(Honest(paused)) /\ messages # <<>>
          /\ RoomState(paused.state) \in Range(messages)
      BY <1>4, <1>10, HonestMessages DEF Range
    <2>. QED BY <1>3, <1>4, <1>5, <1>6, <1>10, <2>1, <2>2, SeatFreedStep
  <1>. QED BY <1>7, <1>9, <1>10

\* The bots' orders are told to everybody.
LEMMA PlayBotsStep ==
    ASSUME StepInv, NEW t \in Task, NEW then \in {"drive", "resume"}, PlayBots(t, then)
    PROVE  StepInv'
  <1>1. IInv /\ IInv' /\ client' = client /\ Continues(t, then)
    BY PlayBotsKeeps DEF StepInv, PlayBots
  <1>2. tasks[t].outbox = <<>> /\ tasks[t].then # "finish" /\ then # "finish"
    BY <1>1 DEF Continues
  <1>3. CASE ~(room.state = "running" /\ Due(room) # {})
    <2>1. Ends(t, room, <<>>, AfterDrive(then))
      BY <1>3 DEF PlayBots
    <2>. QED BY <1>1, <1>2, <2>1, NothingDueStep
  <1>4. CASE room.state = "running" /\ Due(room) # {}
    <2>1. PICK due : due = Due(room)
      OBVIOUS
    <2>2. PICK next : next = [room EXCEPT !.decided = @ \cup due]
      OBVIOUS
    <2>3. PICK orders : orders = InRoleOrder(due, LAMBDA p : OrderSubmitted(next, p))
      OBVIOUS
    <2>4. PICK rest : rest = HostRefresh(next)
      OBVIOUS
    <2>5. PICK messages : messages = orders \o rest
      OBVIOUS
    <2>6. PICK later : later = IF then = "resume" THEN "resumed" ELSE "drove"
      OBVIOUS
    <2>7. PICK new : new = Range(Numbered(next, messages))
      OBVIOUS
    <2>8. due \subseteq Player /\ due # {}
      BY <1>1, <1>4, <2>1, Facts DEF Due, Document
    <2>9. /\ next \in Document /\ next.state = room.state
          /\ next.week = room.week /\ next.closed = room.closed
          /\ next.decided = room.decided \cup due /\ next.lastOrders = room.lastOrders
          /\ next.bots = room.bots /\ next.seat = room.seat /\ next.seq = room.seq
      BY <1>1, <2>2, <2>8, Facts DEF Document
    <2>10. /\ ~Over(room) /\ ~Over(next)
           /\ Ends(t, next, messages, later)
           /\ later \in {"drove", "resumed"}
      BY <1>4, <2>1, <2>2, <2>3, <2>4, <2>5, <2>6, <2>9 DEF PlayBots, Over
    <2>11. /\ messages \in Seq(Honest(next)) /\ messages # <<>>
           /\ \A p \in due : OrderSubmitted(next, p) \in Range(messages)
      <3>1. /\ orders \in Seq(Honest(next))
            /\ \A p \in due : OrderSubmitted(next, p) \in Range(orders)
        BY <2>3, <2>9, <2>10, RoundHonest
      <3>2. rest \in Seq(Honest(next))
        BY <2>4, <2>9, HostRefreshHonest
      <3>3. PICK S : S = Honest(next)
        OBVIOUS
      <3>4. orders \o rest \in Seq(S) /\ Range(orders \o rest) = Range(orders) \cup Range(rest)
        BY <3>1, <3>2, <3>3, Joined
      <3>5. Range(<<>>) = {}
        BY DEF Range
      <3>. QED BY <2>5, <2>8, <3>1, <3>3, <3>4, <3>5
    <2>12. /\ room'.state = next.state /\ room'.week = next.week
           /\ room'.decided = next.decided /\ room'.closed = next.closed
           /\ room'.lastOrders = next.lastOrders /\ room'.bots = next.bots
           /\ Over(room') <=> Over(next)
           /\ StillEnds(new)
           /\ OrdersOf(new) \subseteq next.decided
           /\ \A m \in Range(messages) : \E e \in new : e.msg = m
      BY <1>1, <1>2, <2>7, <2>9, <2>10, <2>11, EndsTells
    <2>13. due \subseteq OrdersOf(new)
      <3>1. ASSUME NEW p \in due
            PROVE  p \in OrdersOf(new)
        <4>1. PICK e \in new : e.msg = OrderSubmitted(next, p)
          BY <2>11, <2>12
        <4>2. OrderOf(e.msg, p) /\ p \in Player
          BY <2>8, <2>9, <4>1 DEF OrderOf, OrderSubmitted
        <4>. QED BY <4>2 DEF OrdersOf
      <3>. QED BY <3>1
    <2>14. ASSUME NEW x \in Person, client[x].on
           PROVE  Informs(x, new)
      <3>1. room'.decided = room.decided \cup OrdersOf(new)
        BY <2>9, <2>12, <2>13
      <3>2. InformsView(x, new) /\ InformsRecords(x, new)
        BY <2>9, <2>10, <2>12, <3>1 DEF InformsView, InformsRecords, Closed
      <3>3. InformsShows(new) /\ InformsBots(new)
        BY <2>9, <2>12 DEF InformsShows, InformsBots
      <3>. QED BY <3>2, <3>3 DEF Informs
    <2>15. \A x \in Person : next.seat[x] <= client[x].gen
      BY <2>9 DEF StepInv, AddressInv
    <2>. QED BY <1>1, <1>2, <2>7, <2>9, <2>10, <2>11, <2>14, <2>15, EndsKeepsStep
  <1>. QED BY <1>3, <1>4

\* The close: the record to every seat, and the next week's view unless the game is over;
\* then what the last orders were is left to finish_game.
LEMMA TryCloseStep ==
    ASSUME StepInv, NEW t \in Task, NEW then \in {"close", "force", "drove", "resumed"},
           TryClose(t, then)
    PROVE  StepInv'
  <1>1. IInv /\ IInv' /\ client' = client /\ Continues(t, then)
    BY TryCloseKeeps DEF StepInv, TryClose
  <1>2. tasks[t].outbox = <<>> /\ tasks[t].then # "finish" /\ then # "finish"
    BY <1>1 DEF Continues
  <1>3. CASE ~(room.state = "running" /\ (then = "force" \/ room.decided = Player))
    <2>1. Ends(t, room, <<>>, AfterDrive(then))
      BY <1>3 DEF TryClose
    <2>. QED BY <1>1, <1>2, <2>1, NothingDueStep
  <1>4. CASE room.state = "running" /\ (then = "force" \/ room.decided = Player)
    <2>1. PICK next : next = WeekClosed(room)
      OBVIOUS
    <2>2. PICK messages : messages = CloseEvents(next)
      OBVIOUS
    <2>3. PICK after : after = AfterClose(next, then)
      OBVIOUS
    <2>4. PICK new : new = Range(Numbered(next, messages))
      OBVIOUS
    <2>5. /\ room.closed = room.week - 1 /\ room.week \in 1..Weeks /\ ~Over(room)
          /\ room.decided \in SUBSET Player
      BY <1>1, <1>4, Facts DEF Coherent, Over, Document
    <2>6. /\ next \in Document /\ next.closed = room.week
          /\ next.week = IF room.week = Weeks THEN room.week ELSE room.week + 1
          /\ next.decided = {} /\ next.lastOrders = room.decided
          /\ next.state = IF room.week = Weeks THEN "finished" ELSE "running"
          /\ next.bots = room.bots /\ next.seat = room.seat /\ next.seq = room.seq
      <3>1. PICK week \in 1..Weeks, state \in RoomStates, closed \in 0..Weeks :
                /\ week = IF room.week = Weeks THEN room.week ELSE room.week + 1
                /\ state = IF room.week = Weeks THEN "finished" ELSE "running"
                /\ closed = room.week
        BY <2>5, Numbers DEF RoomStates
      <3>2. room.closed + 1 = room.week
        BY <2>5, Numbers
      <3>3. next = [room EXCEPT !.closed = closed, !.week = week, !.decided = {},
                                !.lastOrders = room.decided, !.state = state]
        BY <1>1, <1>4, <2>1, <3>1, <3>2, Facts DEF WeekClosed, NextWeek, Document
      <3>4. /\ next \in Document /\ next.closed = closed /\ next.week = week
            /\ next.decided = {} /\ next.lastOrders = room.decided /\ next.state = state
            /\ next.bots = room.bots /\ next.seat = room.seat /\ next.seq = room.seq
        <4>1. room \in Document /\ {} \in SUBSET Player
          BY <1>1, Facts
        <4>. QED BY <2>5, <3>1, <3>3, <4>1 DEF Document
      <3>. QED BY <3>1, <3>4
    <2>7. Over(next) <=> room.week = Weeks
      BY <2>6 DEF Over
    <2>8. /\ Ends(t, next, messages, after)
          /\ after \in {"idle", "close", "force", "drive", "drove", "resume", "resumed",
                        "finish", "broadcast"}
          /\ Over(next) => after = "finish"
      BY <1>4, <2>1, <2>2, <2>3 DEF TryClose, AfterClose
    <2>9. /\ messages \in Seq(Honest(next))
          /\ \A p \in Player : next.seat[p] # 0 =>
                YourWeekClosed(next, p, next.closed) \in Range(messages)
          /\ ~Over(next) => \A p \in Player : next.seat[p] # 0 =>
                YourState(next, p) \in Range(messages)
          /\ ~Over(next) /\ next.seat[Host] # 0 => HostState(next) \in Range(messages)
      <3>1. next.closed > 0
        BY <2>5, <2>6, Numbers
      <3>. QED BY <2>2, <2>6, <3>1, CloseHonest
    <2>10. messages # <<>>
      BY <2>2 DEF CloseEvents
    <2>11. /\ room'.state = next.state /\ room'.week = next.week
           /\ room'.decided = next.decided /\ room'.closed = next.closed
           /\ room'.lastOrders = next.lastOrders /\ room'.bots = next.bots
           /\ Over(room') <=> Over(next)
           /\ after = "finish" => Ending'
           /\ \A m \in Range(messages) : \E e \in new : e.msg = m
      BY <1>1, <1>2, <2>4, <2>5, <2>6, <2>8, <2>9, EndsTells
    <2>12. ASSUME NEW x \in Person, client[x].on
           PROVE  Informs(x, new)
      <3>1. /\ next.seat[x] # 0
            /\ \A e : e.msg.to = To(next, x) => Reaches(e, x)
        BY <2>5, <2>6, <2>12, ReachesSeated
      <3>2. InformsView(x, new)
        <4>1. CASE Over(next)
          BY <2>5, <2>6, <2>7, <2>8, <2>11, <4>1 DEF InformsView
        <4>2. CASE ~Over(next) /\ x \in Player
          <5>1. PICK e \in new : e.msg = YourState(next, x)
            BY <2>9, <2>11, <3>1, <4>2
          <5>. QED BY <2>5, <3>1, <5>1 DEF InformsView, YourState, ShowsView
        <4>3. CASE ~Over(next) /\ x = Host
          <5>1. PICK e \in new : e.msg = HostState(next)
            BY <2>9, <2>11, <3>1, <4>3
          <5>. QED BY <2>5, <3>1, <4>3, <5>1 DEF InformsView, HostState, ShowsView
        <4>. QED BY <4>1, <4>2, <4>3 DEF Person
      <3>3. ASSUME x \in Player
            PROVE  InformsRecords(x, new)
        <4>1. PICK e \in new : e.msg = YourWeekClosed(next, x, next.closed)
          BY <2>9, <2>11, <3>1, <3>3
        <4>2. Reaches(e, x) /\ RecordOf(e.msg, next.closed)
          BY <3>1, <4>1 DEF YourWeekClosed, RecordOf
        <4>3. \A w \in Closed(room') : w \in Closed(room) \/ w = next.closed
          BY <2>5, <2>6, <2>11, Numbers DEF Closed
        <4>. QED BY <2>5, <4>2, <4>3 DEF InformsRecords
      <3>4. InformsShows(new)
        <4>1. CASE Over(next)
          BY <2>8, <2>11, <4>1 DEF InformsShows
        <4>2. CASE ~Over(next)
          <5>1. ~Ending
            BY <1>1, <2>5 DEF IInv, CopiesInv, CopyOf, Ending
          <5>. QED BY <1>4, <2>6, <2>7, <2>11, <4>2, <5>1 DEF InformsShows, StillEnds
        <4>. QED BY <4>1, <4>2
      <3>5. InformsBots(new)
        BY <2>6, <2>11 DEF InformsBots
      <3>. QED BY <3>2, <3>3, <3>4, <3>5 DEF Informs
    <2>13. \A x \in Person : next.seat[x] <= client[x].gen
      BY <2>6 DEF StepInv, AddressInv
    <2>. QED BY <1>1, <1>2, <2>4, <2>5, <2>6, <2>8, <2>9, <2>10, <2>12, <2>13, EndsKeepsStep
  <1>. QED BY <1>3, <1>4

-------------------------------------------------------------------------------
(* The sections that end otherwise.                                            *)

\* A section that starts a call and emits the numbered messages, in any order.
Begins(t, next, messages, task) ==
    /\ room' = After(next, messages)
    /\ tasks' = [tasks EXCEPT ![t] = task]
    /\ Range(task.outbox) = Range(Numbered(next, messages))
    /\ task.then \notin {"finish", "persist"}

LEMMA BeginsMoves ==
    ASSUME IInv, NEW t \in Task, tasks[t] = Idle,
           NEW next \in Document, next.seq = room.seq,
           Over(room) => /\ Over(next) /\ room.bots \subseteq next.bots
                         /\ next.week = room.week /\ next.closed = room.closed
                         /\ next.decided = room.decided /\ next.lastOrders = room.lastOrders,
           NEW messages \in Seq(Honest(next)), NEW task, Begins(t, next, messages, task),
           NEW new, new = Range(Numbered(next, messages))
    PROVE  /\ Moves(new)
           /\ room'.state = next.state /\ room'.week = next.week
           /\ room'.decided = next.decided /\ room'.closed = next.closed
           /\ room'.lastOrders = next.lastOrders /\ room'.bots = next.bots
           /\ room'.seat = next.seat /\ View(room') = View(next)
           /\ Over(room') <=> Over(next)
           /\ room'.seq = room.seq + Len(messages)
           /\ StillEnds(new)
           /\ \A e \in new : e.msg \in Honest(next) /\ e.seq <= room'.seq
           /\ \A m \in Range(messages) : \E e \in new : e.msg = m
  <1>1. /\ Len(messages) \in Nat
        /\ new \in SUBSET Event
        /\ \A e \in new : e.msg \in Honest(next) /\ next.seq < e.seq
                          /\ e.seq <= next.seq + Len(messages)
        /\ \A m \in Range(messages) : \E e \in new : e.msg = m
    BY NumberedHonest
  <1>2. PICK n \in Nat : n = Len(messages)
    BY <1>1
  <1>3. PICK after : after = [next EXCEPT !.seq = @ + n]
    OBVIOUS
  <1>4. /\ after.seq = next.seq + n
        /\ after.state = next.state /\ after.week = next.week /\ after.decided = next.decided
        /\ after.closed = next.closed /\ after.lastOrders = next.lastOrders
        /\ after.bots = next.bots /\ after.seat = next.seat
        /\ Over(after) <=> Over(next)
        /\ View(after) = View(next)
        /\ Honest(after) = Honest(next)
    BY <1>3, AfterKeeps
  <1>5. room' = after
    BY <1>2, <1>3 DEF Begins, After
  <1>6. tasks \in [Task -> TaskState] /\ room.seq \in Nat
    BY Facts
  <1>7. /\ InFlight' = InFlight \cup new
        /\ tasks'[t] = task
        /\ \A u \in Task : u # t => tasks'[u] = tasks[u]
    <2>1. tasks[t].outbox = <<>>
      BY DEF Idle
    <2>2. /\ tasks' = [tasks EXCEPT ![t] = task] /\ Range(task.outbox) = new
      BY DEF Begins
    <2>3. InFlight' = InFlight \cup new
      BY <1>6, <2>1, <2>2, FlightGrowsBy
    <2>. QED BY <1>6, <2>2, <2>3
  <1>8. Sends(new)
    BY <1>1, <1>2, <1>4, <1>5, <1>7 DEF Sends
  <1>9. ASSUME NEW u \in Task, Finishes(u)'
        PROVE  \/ Like(tasks'[u].copy, room')
               \/ \E v \in Task : Finishes(v) /\ Like(tasks'[u].copy, tasks[v].copy)
    <2>1. u # t
      BY <1>7, <1>9 DEF Finishes, Begins
    <2>. QED BY <1>7, <1>9, <2>1, CopiesCarried
  <1>10. room.seq <= room'.seq
    BY <1>2, <1>4, <1>5, <1>6
  <1>11. Moves(new)
    BY <1>4, <1>5, <1>8, <1>9, <1>10 DEF Moves
  <1>12. StillEnds(new)
    BY <1>7 DEF StillEnds, Ending, Idle
  <1>. QED BY <1>1, <1>2, <1>4, <1>5, <1>11, <1>12

\* The submission's second event is emitted last.
LEMMA Reordered ==
    ASSUME NEW S, NEW events \in Seq(S), Len(events) >= 2
    PROVE  Range(<<events[1]>> \o SubSeq(events, 3, Len(events)) \o <<events[2]>>)
               = Range(events)
  <1>1. PICK middle : middle = SubSeq(events, 3, Len(events))
    OBVIOUS
  <1>2. PICK first, last : first = <<events[1]>> /\ last = <<events[2]>>
    OBVIOUS
  <1>3. Len(events) \in Nat /\ DOMAIN events = 1..Len(events)
    OBVIOUS
  <1>4. /\ first \in Seq(S) /\ Range(first) = {events[1]}
        /\ last \in Seq(S) /\ Range(last) = {events[2]}
    <2>1. events[1] \in S /\ events[2] \in S
      BY <1>3
    <2>. QED BY <1>2, <2>1 DEF Range
  <1>5. /\ middle \in Seq(S) /\ Len(middle) = Len(events) - 2
        /\ \A i \in 1..(Len(events) - 2) : middle[i] = events[i + 2]
    BY <1>1, <1>3
  <1>6. PICK left : left = first \o middle
    OBVIOUS
  <1>7. left \in Seq(S) /\ Range(left) = Range(first) \cup Range(middle)
    BY <1>4, <1>5, <1>6, Joined
  <1>8. Range(left \o last) = Range(left) \cup Range(last)
    BY <1>4, <1>7, Joined
  <1>9. /\ Range(middle) = {middle[i] : i \in 1..(Len(events) - 2)}
        /\ Range(events) = {events[i] : i \in 1..Len(events)}
    BY <1>3, <1>5 DEF Range
  <1>10. Range(middle) = {events[i] : i \in 3..Len(events)}
    <2>1. ASSUME NEW i \in 3..Len(events)
          PROVE  events[i] \in Range(middle)
      <3>1. PICK k \in 1..(Len(events) - 2) : k + 2 = i
        BY <1>3
      <3>. QED BY <1>5, <1>9, <3>1
    <2>2. ASSUME NEW i \in 1..(Len(events) - 2)
          PROVE  \E k \in 3..Len(events) : events[k] = middle[i]
      BY <1>3, <1>5
    <2>3. Range(middle) \subseteq {events[i] : i \in 3..Len(events)}
      BY <1>9, <2>2
    <2>4. {events[i] : i \in 3..Len(events)} \subseteq Range(middle)
      BY <2>1
    <2>. QED BY <2>3, <2>4
  <1>11. 1..Len(events) = {1, 2} \cup 3..Len(events)
    BY <1>3
  <1>12. Range(left) \cup Range(last) = Range(events)
    BY <1>4, <1>7, <1>9, <1>10, <1>11
  <1>. QED BY <1>1, <1>2, <1>6, <1>8, <1>12

LEMMA SubmitOrderStep ==
    ASSUME StepInv, NEW t \in Task, NEW p \in Player, SubmitOrder(t, p)
    PROVE  StepInv'
  <1>1. PICK next : next = [room EXCEPT !.decided = @ \cup {p}]
    OBVIOUS
  <1>2. PICK first, rest : /\ first = <<OrderSubmitted(next, p), YourState(next, p)>>
                           /\ rest = HostRefresh(next)
    OBVIOUS
  <1>3. PICK messages : messages = first \o rest
    OBVIOUS
  <1>4. PICK events : events = Numbered(next, messages)
    OBVIOUS
  <1>5. PICK outbox : outbox = <<events[1]>> \o SubSeq(events, 3, Len(events)) \o <<events[2]>>
    OBVIOUS
  <1>6. PICK task : task = [Idle EXCEPT !.then = "close", !.outbox = outbox]
    OBVIOUS
  <1>7. PICK new : new = Range(events)
    OBVIOUS
  <1>8. /\ next \in Document /\ next.state = room.state
        /\ next.week = room.week /\ next.closed = room.closed
        /\ next.decided = room.decided \cup {p} /\ next.lastOrders = room.lastOrders
        /\ next.bots = room.bots /\ next.seat = room.seat /\ next.seq = room.seq
    BY <1>1, Facts DEF StepInv, Document
  <1>9. /\ IInv /\ IInv' /\ client' = client /\ tasks[t] = Idle
        /\ ~Over(room) /\ ~Over(next)
        /\ room' = After(next, messages) /\ tasks' = [tasks EXCEPT ![t] = task]
    BY <1>1, <1>2, <1>3, <1>4, <1>5, <1>6, <1>8, SubmitOrderKeeps
       DEF StepInv, SubmitOrder, Start, Over
  <1>10. /\ messages \in Seq(Honest(next)) /\ Len(messages) \in Nat /\ Len(messages) >= 2
         /\ OrderSubmitted(next, p) \in Range(messages)
    <2>1. /\ OrderSubmitted(next, p) \in Honest(next) /\ YourState(next, p) \in Honest(next)
          /\ rest \in Seq(Honest(next))
      BY <1>2, <1>8, <1>9, HonestMessages, HostRefreshHonest
    <2>2. PICK S : S = Honest(next)
      OBVIOUS
    <2>3. /\ first \in Seq(S) /\ rest \in Seq(S) /\ Len(first) = 2
          /\ OrderSubmitted(next, p) \in Range(first)
      BY <1>2, <2>1, <2>2 DEF Range
    <2>4. /\ first \o rest \in Seq(S) /\ Range(first \o rest) = Range(first) \cup Range(rest)
      BY <2>3, Joined
    <2>5. Len(messages) = Len(first) + Len(rest) /\ Len(rest) \in Nat /\ Len(first) = 2
      <3>1. first \o rest \in Seq(S) /\ first \in Seq(S) /\ rest \in Seq(S)
        BY <2>3, <2>4
      <3>2. Len(first \o rest) = Len(first) + Len(rest)
        BY <3>1
      <3>. QED BY <1>3, <2>3, <3>2
    <2>. QED BY <1>3, <2>2, <2>3, <2>4, <2>5
  <1>11. Range(outbox) = new
    <2>1. /\ DOMAIN messages = 1..Len(messages)
          /\ events \in Seq(Event)
      BY <1>4, <1>8, <1>10, NumberedHonest
    <2>2. Len(events) = Len(messages)
      BY <1>4, <1>10, <2>1 DEF Numbered
    <2>. QED BY <1>5, <1>7, <1>10, <2>1, <2>2, Reordered
  <1>12. Range(task.outbox) = new /\ task.then = "close"
    BY <1>6, <1>11 DEF Idle
  <1>13. /\ Moves(new)
         /\ room'.state = next.state /\ room'.week = next.week
         /\ room'.decided = next.decided /\ room'.closed = next.closed
         /\ room'.lastOrders = next.lastOrders /\ room'.bots = next.bots
         /\ room'.seat = next.seat /\ ~Over(room')
         /\ room'.seq = room.seq + Len(messages)
         /\ StillEnds(new)
         /\ \A e \in new : e.msg \in Honest(next)
         /\ \A m \in Range(messages) : \E e \in new : e.msg = m
    <2>1. Begins(t, next, messages, task) /\ new = Range(Numbered(next, messages))
      BY <1>4, <1>7, <1>9, <1>12 DEF Begins
    <2>. QED BY <1>8, <1>9, <1>10, <2>1, BeginsMoves
  <1>14. OrdersOf(new) \subseteq next.decided /\ p \in OrdersOf(new)
    <2>1. OrdersOf(new) \subseteq next.decided
      BY <1>13 DEF OrdersOf, OrderOf, Honest, Telling
    <2>2. PICK e \in new : e.msg = OrderSubmitted(next, p)
      BY <1>10, <1>13
    <2>3. OrderOf(e.msg, p)
      BY <1>8, <2>2 DEF OrderOf, OrderSubmitted
    <2>. QED BY <2>1, <2>3 DEF OrdersOf
  <1>15. ASSUME NEW x \in Person
         PROVE  Informs(x, new)
    <2>1. room'.decided = room.decided \cup OrdersOf(new)
      BY <1>8, <1>13, <1>14
    <2>2. InformsView(x, new) /\ InformsRecords(x, new)
      BY <1>8, <1>9, <1>13, <2>1 DEF InformsView, InformsRecords, Closed
    <2>3. InformsShows(new) /\ InformsBots(new)
      BY <1>8, <1>13 DEF InformsShows, InformsBots
    <2>. QED BY <2>2, <2>3 DEF Informs
  <1>16. /\ \A x \in Person : room'.seat[x] <= client[x].gen
         /\ \A x \in Person : room'.seat[x] = room.seat[x]
         /\ room'.seq > room.seq
    <2>1. room.seq \in Nat
      BY <1>9, Facts
    <2>. QED BY <1>8, <1>10, <1>13, <2>1 DEF StepInv, AddressInv
  <1>17. \A x \in Person : Same(x) /\ client'[x].asked = client[x].asked
    BY <1>9 DEF Same
  <1>. QED BY <1>9, <1>13, <1>15, <1>16, <1>17, SectionKeepsStep

\* The last message of a section answers the one it is addressed to.
LEMMA ReplyAnswers ==
    ASSUME IInv, RunningInv, ~Over(room), NEW next \in Document, next.seq = room.seq,
           NEW messages \in Seq(Honest(next)), messages # <<>>,
           NEW new, new = Range(Numbered(next, messages)),
           InFlight' = InFlight \cup new, room'.seq = room.seq + Len(messages),
           View(room') = View(next), Closed(room') = Closed(next),
           NEW x \in Person, client'[x].gen = next.seat[x], client'[x].seq <= room.seq,
           client'[x].seq \in Nat,
           messages[Len(messages)] = IF x = Host THEN HostState(next)
                                     ELSE YourFullState(next, x)
    PROVE  Answered(x)'
  <1>1. PICK n : n = Len(messages)
    OBVIOUS
  <1>2. n \in Nat /\ n > 0 /\ n \in 1..Len(messages) /\ room.seq \in Nat
    BY <1>1, Facts
  <1>3. PICK m : m = messages[n]
    OBVIOUS
  <1>4. /\ m.to = To(next, x)
        /\ m.kind = IF x = Host THEN "host" ELSE "full"
        /\ m.view = View(next)
        /\ x \in Player => m.records = Closed(next)
    BY <1>1, <1>3, People DEF HostState, YourFullState
  <1>5. /\ \A e \in new : e.seq = next.seq + n => e.msg = m
        /\ \E e \in new : e.seq = next.seq + n /\ e.msg = m
    BY <1>2, <1>3, NumberedHonest
  <1>6. room'.seq = next.seq + n /\ m.to = <<x, client'[x].gen>>
    BY <1>1, <1>4 DEF To
  <1>7. \A e : e.msg = m => Answers(e, x)'
    BY <1>4, <1>6 DEF Answers
  <1>8. ASSUME NEW e \in InFlight', e.seq = room'.seq
        PROVE  Answers(e, x)'
    <2>1. CASE e \in InFlight
      <3>1. e.seq <= room.seq /\ e.seq \in Nat
        BY <2>1, Facts DEF RunningInv, Event
      <3>. QED BY <1>1, <1>2, <1>8, <3>1
    <2>2. CASE e \in new
      BY <1>5, <1>6, <1>7, <1>8, <2>2
    <2>. QED BY <1>8, <2>1, <2>2
  <1>9. \E e \in InFlight' : e.seq = room'.seq /\ Answers(e, x)'
    BY <1>5, <1>6, <1>7
  <1>10. client'[x].seq < room'.seq
    BY <1>1, <1>2
  <1>. QED BY <1>8, <1>9, <1>10 DEF Answered

LEMMA RequestStateStep ==
    ASSUME StepInv, NEW t \in Task, NEW x \in Person, RequestState(t, x)
    PROVE  StepInv'
  <1>1. PICK next : next = room
    OBVIOUS
  <1>2. PICK m : m = IF x = Host THEN HostState(room) ELSE YourFullState(room, x)
    OBVIOUS
  <1>3. PICK messages : messages = <<m>>
    OBVIOUS
  <1>4. PICK task : task = [Idle EXCEPT !.outbox = Numbered(next, messages)]
    OBVIOUS
  <1>5. PICK new : new = Range(Numbered(next, messages))
    OBVIOUS
  <1>6. IInv /\ RunningInv /\ AddressInv /\ IInv' /\ next \in Document /\ tasks[t] = Idle
    BY <1>1, RequestStateKeeps, Facts DEF StepInv, RequestState, Start
  <1>7. /\ room' = After(next, messages) /\ tasks' = [tasks EXCEPT ![t] = task]
        /\ client' = [client EXCEPT ![x].asked = room'.seq]
        /\ client[x].on /\ room.seat[x] = client[x].gen
    BY <1>1, <1>2, <1>3, <1>4 DEF RequestState, Replied, IsSeated
  <1>8. messages \in Seq(Honest(next)) /\ messages # <<>> /\ Len(messages) = 1
    <2>1. m \in Honest(next)
      BY <1>1, <1>2, <1>6, HonestMessages DEF Person
    <2>. QED BY <1>3, <2>1
  <1>9. Begins(t, next, messages, task)
    BY <1>4, <1>7 DEF Begins, Idle
  <1>10. /\ Moves(new)
         /\ room'.state = next.state /\ room'.week = next.week
         /\ room'.decided = next.decided /\ room'.closed = next.closed
         /\ room'.lastOrders = next.lastOrders /\ room'.bots = next.bots
         /\ room'.seat = next.seat /\ View(room') = View(next)
         /\ Over(room') <=> Over(next)
         /\ room'.seq = room.seq + Len(messages)
         /\ StillEnds(new)
         /\ \A e \in new : e.msg \in Honest(next)
    BY <1>1, <1>5, <1>6, <1>8, <1>9, BeginsMoves
  <1>11. ASSUME NEW y \in Person
         PROVE  Informs(y, new)
    <2>1. OrdersOf(new) \subseteq room.decided
      BY <1>1, <1>10 DEF OrdersOf, OrderOf, Honest, Telling
    <2>2. InformsView(y, new) /\ InformsRecords(y, new)
      BY <1>1, <1>10, <2>1, InformsQuiet
    <2>3. InformsShows(new) /\ InformsBots(new)
      BY <1>1, <1>10 DEF InformsShows, InformsBots
    <2>. QED BY <2>2, <2>3 DEF Informs
  <1>12. /\ client'[x] = [client[x] EXCEPT !.asked = room'.seq]
         /\ \A y \in Person : y # x => client'[y] = client[y]
         /\ client[x] \in Client
    BY <1>6, <1>7, Facts
  <1>13. Same(x) /\ client'[x].asked = room'.seq
    BY <1>12 DEF Same, Client
  <1>14. \A y \in Person : Same(y)
    BY <1>12, <1>13 DEF Same
  <1>15. ASSUME ~Over(room')
         PROVE  Answered(x)'
    <2>1. ~Over(room) /\ InFlight' = InFlight \cup new /\ Closed(room') = Closed(next)
      BY <1>1, <1>10, <1>15 DEF Moves, Sends, Closed
    <2>2. /\ client'[x].gen = next.seat[x]
          /\ client'[x].seq <= room.seq /\ client'[x].seq \in Nat
      BY <1>1, <1>6, <1>7, <1>12, <1>13, <2>1 DEF Same, RunningInv, Client
    <2>3. messages[Len(messages)] = IF x = Host THEN HostState(next) ELSE YourFullState(next, x)
      BY <1>1, <1>2, <1>3
    <2>. QED BY <1>1, <1>5, <1>6, <1>8, <1>10, <2>1, <2>2, <2>3, ReplyAnswers
  <1>16. room.seq \in Nat /\ room'.seq = room.seq + 1
    BY <1>6, <1>8, <1>10, Facts
  <1>17. /\ ~Over(room') => \A y \in Person :
                \/ client'[y].asked = client[y].asked
                \/ client'[y].asked <= room'.seq /\ Answered(y)'
         /\ \A y \in Person : room'.seat[y] <= client[y].gen
         /\ \A y \in Person : room'.seat[y] = room.seat[y]
         /\ room'.seq > room.seq
    <2>1. client'[x].asked <= room'.seq
      BY <1>13, <1>16
    <2>2. ASSUME ~Over(room'), NEW y \in Person
          PROVE  \/ client'[y].asked = client[y].asked
                 \/ client'[y].asked <= room'.seq /\ Answered(y)'
      <3>1. CASE y = x
        BY <1>15, <2>1, <2>2, <3>1
      <3>2. CASE y # x
        BY <1>12, <3>2
      <3>. QED BY <3>1, <3>2
    <2>3. /\ \A y \in Person : room'.seat[y] = room.seat[y]
          /\ \A y \in Person : room'.seat[y] <= client[y].gen
      BY <1>1, <1>6, <1>10 DEF AddressInv
    <2>. QED BY <1>16, <2>2, <2>3
  <1>. QED BY <1>6, <1>10, <1>11, <1>14, <1>17, SectionKeepsStep

\* finish_game's number, under which the debrief goes out.
LEMMA FinishGameStep ==
    ASSUME StepInv, NEW t \in Task, FinishGame(t)
    PROVE  StepInv'
  <1>1. PICK copy : copy = tasks[t].copy
    OBVIOUS
  <1>2. PICK messages : messages = <<GameFinished>>
    OBVIOUS
  <1>3. PICK next : next = [copy EXCEPT !.seq = @ + 1]
    OBVIOUS
  <1>4. PICK outbox : outbox = Numbered(copy, messages)
    OBVIOUS
  <1>5. PICK task : task = [then |-> "persist", outbox |-> outbox, copy |-> next]
    OBVIOUS
  <1>6. PICK new : new = Range(outbox)
    OBVIOUS
  <1>7. IInv /\ IInv' /\ EndInv /\ AddressInv
    BY FinishGameKeeps DEF StepInv
  <1>8. /\ tasks[t].then = "finish" /\ tasks[t].outbox = <<>>
        /\ room' = room /\ client' = client
        /\ tasks' = [tasks EXCEPT ![t] = task]
    BY <1>1, <1>2, <1>3, <1>4, <1>5 DEF FinishGame, Continues, After
  <1>9. /\ tasks \in [Task -> TaskState] /\ copy \in Document /\ room \in Document
        /\ Over(copy) /\ Over(room) /\ room.seq \in Nat /\ copy.seq \in Nat
    BY <1>1, <1>7, <1>8, Facts DEF TaskState, Document, IInv, CopiesInv, CopyOf
  <1>10. /\ next.decided = copy.decided /\ next.lastOrders = copy.lastOrders
         /\ next.bots = copy.bots /\ next.seat = copy.seat /\ copy.seq <= next.seq
    BY <1>3, <1>9, AfterKeeps
  <1>11. messages \in Seq(Honest(copy)) /\ Len(messages) = 1 /\ messages[1] = GameFinished
    BY <1>2, <1>9, HonestMessages
  <1>12. /\ new \in SUBSET Event
         /\ \A e \in new : e.msg = GameFinished
         /\ \E e \in new : e.seq = copy.seq + 1 /\ e.msg = GameFinished
    <2>1. new = Range(Numbered(copy, messages))
      BY <1>4, <1>6
    <2>2. /\ new \in SUBSET Event
          /\ \A e \in new : e.msg \in Range(messages)
          /\ \A i \in 1..Len(messages) : \E e \in new :
                e.seq = copy.seq + i /\ e.msg = messages[i]
      BY <1>9, <1>11, <2>1, NumberedHonest
    <2>3. Range(messages) = {GameFinished}
      BY <1>2 DEF Range
    <2>4. 1 \in 1..Len(messages)
      BY <1>11
    <2>. QED BY <1>11, <2>2, <2>3, <2>4
  <1>13. /\ InFlight' = InFlight \cup new
         /\ tasks'[t] = task
         /\ \A u \in Task : u # t => tasks'[u] = tasks[u]
    <2>1. InFlight' = InFlight \cup Range(task.outbox)
      BY <1>8, <1>9, FlightGrowsBy
    <2>. QED BY <1>5, <1>6, <1>8, <1>9, <2>1
  <1>14. Sends(new)
    <2>1. GameFinished \in Honest(room)
      BY <1>9, HonestMessages
    <2>. QED BY <1>8, <1>9, <1>12, <1>13, <2>1 DEF Sends, GameFinished
  <1>15. Moves(new)
    <2>1. ASSUME NEW u \in Task, Finishes(u)'
          PROVE  \E v \in Task : Finishes(v) /\ Like(tasks'[u].copy, tasks[v].copy)
      <3>1. CASE u = t
        BY <1>1, <1>5, <1>8, <1>10, <1>13, <3>1 DEF Finishes, Like
      <3>2. CASE u # t
        BY <1>7, <1>13, <2>1, <3>2, CopiesCarried
      <3>. QED BY <3>1, <3>2
    <2>. QED BY <1>8, <1>9, <1>14, <2>1 DEF Moves
  <1>16. StillEnds(new)
    <2>1. PICK e \in new : e.seq = copy.seq + 1 /\ e.msg = GameFinished
      BY <1>12
    <2>2. ASSUME NEW f \in InFlight, f.msg.kind = "room", f.msg.state # "finished"
          PROVE  f.seq < e.seq
      <3>1. f.seq <= copy.seq /\ f.seq \in Nat
        BY <1>1, <1>7, <1>8, <2>2, Facts DEF EndInv, Finishes, Event
      <3>. QED BY <1>9, <2>1, <3>1
    <2>3. Debrief(e)
      BY <2>1, <2>2 DEF Debrief, GameFinished
    <2>. QED BY <2>1, <2>3 DEF StillEnds
  <1>17. ASSUME NEW x \in Person
         PROVE  Informs(x, new)
    <2>1. OrdersOf(new) \subseteq room.decided
      BY <1>12 DEF OrdersOf, OrderOf, GameFinished
    <2>2. InformsView(x, new) /\ InformsRecords(x, new)
      BY <1>8, <1>16, <2>1, InformsQuiet
    <2>3. InformsShows(new) /\ InformsBots(new)
      BY <1>8, <1>16 DEF InformsShows, InformsBots
    <2>. QED BY <2>2, <2>3 DEF Informs
  <1>18. /\ \A x \in Person : Same(x)
         /\ \A x \in Person : room'.seat[x] <= client[x].gen
         /\ Over(room')
    BY <1>7, <1>8, <1>9 DEF Same, AddressInv
  <1>. QED BY <1>7, <1>15, <1>17, <1>18, SectionKeepsStep

\* The save of the copy.
LEMMA SaveFinishedStep ==
    ASSUME StepInv, NEW t \in Task, SaveFinished(t)
    PROVE  StepInv'
  <1>1. PICK copy : copy = tasks[t].copy
    OBVIOUS
  <1>2. PICK messages \in {<<Note>>, <<>>} : Ends(t, copy, messages, "idle")
    BY <1>1 DEF SaveFinished
  <1>3. PICK new : new = Range(Numbered(copy, messages))
    OBVIOUS
  <1>4. /\ IInv /\ IInv' /\ EndInv /\ AddressInv
        /\ client' = client /\ tasks[t].then = "persist" /\ tasks[t].outbox = <<>>
        /\ Finishes(t)
    BY SaveFinishedKeeps DEF StepInv, SaveFinished, Continues, Finishes
  <1>5. /\ copy \in Document /\ room \in Document
        /\ Over(copy) /\ Over(room) /\ copy.week = room.week /\ copy.closed = room.closed
        /\ copy.decided = room.decided /\ copy.lastOrders = room.lastOrders
        /\ copy.seq \in Nat
    BY <1>1, <1>4, Facts DEF TaskState, Document, IInv, CopiesInv, CopyOf, EndInv
  <1>6. messages \in Seq(Honest(copy)) /\ Range(messages) \subseteq {Note}
    <2>1. Note \in Honest(copy)
      BY <1>5, HonestMessages
    <2>2. CASE messages = <<>>
      BY <2>2 DEF Range
    <2>3. CASE messages = <<Note>>
      BY <2>1, <2>3 DEF Range
    <2>. QED BY <2>2, <2>3
  <1>7. /\ new \in SUBSET Event /\ Len(messages) \in Nat
        /\ \A e \in new : e.msg = Note /\ e.msg \in Honest(copy)
    <2>1. /\ new \in SUBSET Event /\ Len(messages) \in Nat
          /\ \A e \in new : e.msg \in Range(messages) /\ e.msg \in Honest(copy)
      BY <1>3, <1>5, <1>6, NumberedHonest
    <2>. QED BY <1>6, <2>1
  <1>8. /\ InFlight' = InFlight \cup new
        /\ Honest(room') = Honest(copy)
        /\ Over(room') <=> Over(copy)
        /\ room'.seq = copy.seq + Len(messages)
        /\ room'.week = copy.week
        /\ room'.decided = copy.decided /\ room'.closed = copy.closed
        /\ room'.lastOrders = copy.lastOrders /\ room'.bots = copy.bots
        /\ room'.seat = copy.seat
        /\ \A u \in Task : u # t => tasks'[u] = tasks[u]
        /\ tasks'[t].then = "idle"
    BY <1>2, <1>3, <1>4, <1>5, <1>6, EndsSends
  <1>9. Sends(new)
    BY <1>5, <1>7, <1>8 DEF Sends, Note
  <1>10. Moves(new)
    <2>1. Like(room', tasks[t].copy)
      BY <1>1, <1>5, <1>7, <1>8 DEF Like
    <2>2. ASSUME NEW u \in Task, Finishes(u)'
          PROVE  \E v \in Task : Finishes(v) /\ Like(tasks'[u].copy, tasks[v].copy)
      <3>1. u # t
        BY <1>8, <2>2 DEF Finishes
      <3>. QED BY <1>4, <1>8, <2>2, <3>1, CopiesCarried
    <2>. QED BY <1>4, <1>5, <1>8, <1>9, <2>1, <2>2 DEF Moves
  <1>11. StillEnds(new)
    BY <1>4, <1>8 DEF StillEnds, Ending
  <1>12. ASSUME NEW x \in Person
         PROVE  Informs(x, new)
    <2>1. OrdersOf(new) \subseteq room.decided
      BY <1>7 DEF OrdersOf, OrderOf, Note
    <2>2. InformsView(x, new) /\ InformsRecords(x, new)
      BY <1>5, <1>8, <1>11, <2>1, InformsQuiet
    <2>3. InformsShows(new) /\ InformsBots(new)
      BY <1>5, <1>8, <1>11 DEF InformsShows, InformsBots, Over
    <2>. QED BY <2>2, <2>3 DEF Informs
  <1>13. /\ \A x \in Person : Same(x)
         /\ \A x \in Person : room'.seat[x] <= client[x].gen
         /\ Over(room')
    BY <1>1, <1>4, <1>5, <1>8 DEF Same, AddressInv
  <1>. QED BY <1>4, <1>10, <1>12, <1>13, SectionKeepsStep

-------------------------------------------------------------------------------
(* Connections.                                                                *)

\* A step that emits nothing and leaves the room and the calls as they are, but for
\* the number.
LEMMA NothingSent ==
    ASSUME IInv, IInv', tasks' = tasks, room.seq <= room'.seq,
           room'.state = room.state, room'.week = room.week, room'.decided = room.decided,
           room'.closed = room.closed, room'.lastOrders = room.lastOrders,
           room'.bots = room.bots
    PROVE  /\ Moves({}) /\ InFlight' = InFlight
           /\ \A x \in Person : Informs(x, {})
  <1>1. /\ InFlight' = InFlight
        /\ \A u \in Task : Finishes(u)' <=> Finishes(u)
        /\ Ending' <=> Ending
    BY DEF InFlight, Finishes, Ending
  <1>2. Sends({})
    BY <1>1 DEF Sends
  <1>3. ASSUME NEW u \in Task
        PROVE  Like(tasks'[u].copy, tasks[u].copy)
    <2>1. tasks[u].copy \in Document
      BY Facts DEF TaskState
    <2>. QED BY <2>1, LikeItself
  <1>4. (Over(room') <=> Over(room)) /\ StillEnds({})
    BY <1>1 DEF Over, StillEnds
  <1>5. Moves({})
    BY <1>1, <1>2, <1>3, <1>4 DEF Moves
  <1>6. ASSUME NEW x \in Person
        PROVE  Informs(x, {})
    <2>1. OrdersOf({}) \subseteq room.decided
      BY DEF OrdersOf
    <2>2. InformsView(x, {}) /\ InformsRecords(x, {})
      BY <1>4, <2>1, InformsQuiet
    <2>3. InformsShows({}) /\ InformsBots({})
      BY <1>4 DEF InformsShows, InformsBots
    <2>. QED BY <2>2, <2>3 DEF Informs
  <1>. QED BY <1>1, <1>5, <1>6

LEMMA LoseStep ==
    ASSUME StepInv, NEW x \in Person, Lose(x)
    PROVE  StepInv'
  <1>1. IInv /\ IInv' /\ RunningInv /\ AskedInv /\ AddressInv /\ SeatedInv
    BY LoseKeeps DEF StepInv
  <1>2. room' = room /\ tasks' = tasks /\ client' = [client EXCEPT ![x].on = FALSE]
    BY DEF Lose
  <1>3. /\ room.seq \in Nat /\ client[x] \in Client
        /\ client' = [client EXCEPT ![x] = [client[x] EXCEPT !.on = FALSE]]
        /\ client'[x] = [client[x] EXCEPT !.on = FALSE]
        /\ \A y \in Person : y # x => client'[y] = client[y]
    BY <1>1, <1>2, Facts
  <1>4. /\ ~client'[x].on /\ client'[x].gen = client[x].gen
        /\ client'[x].seq = client[x].seq /\ client'[x].asked = client[x].asked
    BY <1>3 DEF Client
  <1>5. Moves({}) /\ InFlight' = InFlight /\ \A y \in Person : Informs(y, {})
    BY <1>1, <1>2, <1>3, NothingSent
  <1>6. \A y \in Person : y # x => Same(y)
    BY <1>3 DEF Same
  <1>7. RunningInv' /\ AddressInv' /\ SeatedInv' /\ EndInv'
    <2>1. \A y \in Person : client[y].gen <= client'[y].gen /\ room'.seat[y] <= client'[y].gen
      <3>1. \A y \in Person : client'[y].gen = client[y].gen /\ client[y].gen \in Nat
        BY <1>1, <1>3, <1>4, Facts DEF Client
      <3>. QED BY <1>1, <1>2, <3>1 DEF AddressInv
    <2>2. ASSUME ~Over(room'), NEW y \in Person
          PROVE  /\ client'[y].seq <= room'.seq /\ client'[y].asked <= room'.seq
                 /\ client'[y].on => room'.seat[y] = client'[y].gen
      BY <1>1, <1>2, <1>3, <1>4, <2>2 DEF RunningInv, SeatedInv, IsSeated
    <2>. QED BY <1>1, <1>5, <2>1, <2>2, Settles
  <1>8. AskedInv'
    <2>1. ASSUME ~Over(room'), NEW y \in Person, IsSeated(y)', client'[y].asked = room'.seq
          PROVE  Answered(y)'
      <3>1. y # x /\ client'[y] = client[y]
        BY <1>3, <1>4, <2>1 DEF IsSeated
      <3>2. Answered(y)
        BY <1>1, <1>2, <2>1, <3>1 DEF AskedInv, IsSeated
      <3>. QED BY <1>2, <1>5, <3>1, <3>2 DEF Answered, Answers, Reaches
    <2>. QED BY <2>1 DEF AskedInv
  <1>9. ASSUME NEW y \in Person
        PROVE  WillSeeAll(y)'
    <2>1. CASE y = x
      BY <1>4, <2>1 DEF WillSeeAll
    <2>2. CASE y # x
      <3>1. WillSeeAll(y) /\ (Excused(y) => Excused(y)')
        BY <1>5, ExcusedStays DEF StepInv
      <3>. QED BY <1>1, <1>5, <1>6, <2>2, <3>1, StaysInformed
    <2>. QED BY <2>1, <2>2
  <1>. QED BY <1>1, <1>7, <1>8, <1>9 DEF StepInv

\* The stale submission's answer is above every number on its way: who takes it shows
\* the room as it is.
LEMMA SubmitStaleStep ==
    ASSUME StepInv, NEW t \in Task, NEW p \in Player, SubmitStale(t, p)
    PROVE  StepInv'
  <1>1. PICK m : m = YourFullState(room, p)
    OBVIOUS
  <1>2. PICK e : e = [seq |-> room.seq + 1, msg |-> m]
    OBVIOUS
  <1>3. /\ IInv /\ IInv' /\ RunningInv /\ AskedInv /\ AddressInv /\ SeatedInv
        /\ p \in Person /\ p # Host
    BY SubmitStaleKeeps, People DEF StepInv
  <1>4. /\ room \in Document /\ room.seq \in Nat /\ client \in [Person -> Client]
        /\ InFlight \in SUBSET Event
    BY <1>3, Facts
  <1>5. /\ room' = [room EXCEPT !.seq = @ + 1] /\ tasks' = tasks
        /\ client' = [Delivered(e) EXCEPT ![p].asked = e.seq]
        /\ IsSeated(p) /\ ~Over(room)
    <2>1. Numbered(room, <<m>>)[1] = e
      BY <1>2 DEF Numbered
    <2>. QED BY <1>1, <2>1 DEF SubmitStale, Over
  <1>6. /\ room'.seq = room.seq + 1
        /\ room'.state = room.state /\ room'.week = room.week
        /\ room'.decided = room.decided /\ room'.closed = room.closed
        /\ room'.lastOrders = room.lastOrders /\ room'.bots = room.bots
        /\ room'.seat = room.seat /\ ~Over(room')
    BY <1>4, <1>5 DEF Document, Over
  <1>7. View(room') = View(room) /\ Closed(room') = Closed(room)
    BY <1>5, <1>6 DEF View, Closed, Over
  <1>8. Moves({}) /\ InFlight' = InFlight /\ \A x \in Person : Informs(x, {})
    BY <1>3, <1>4, <1>5, <1>6, NothingSent
  <1>9. /\ e \in Event /\ e.seq = room'.seq /\ e.msg = m
        /\ m.kind = "full" /\ m.to = <<p, client[p].gen>>
        /\ m.view = View(room') /\ m.records = Closed(room')
    <2>1. m \in Message
      BY <1>1, <1>3, <1>4, MessagesTell DEF Telling
    <2>2. m.to = <<p, room.seat[p]>> /\ m.kind = "full" /\ m.view = View(room)
          /\ m.records = Closed(room)
      BY <1>1 DEF YourFullState, To
    <2>. QED BY <1>2, <1>4, <1>5, <1>6, <1>7, <2>1, <2>2 DEF Event, IsSeated
  <1>10. PICK d : d = Received(client[p], e)
    OBVIOUS
  <1>11. client'[p] = [d EXCEPT !.asked = e.seq] /\ \A x \in Person : x # p => client'[x] = client[x]
    <2>1. PICK heard : heard = Delivered(e)
      OBVIOUS
    <2>2. Reaches(e, p)
      BY <1>5, <1>9 DEF Reaches, IsSeated
    <2>3. ASSUME NEW x \in Person, x # p
          PROVE  ~Reaches(e, x)
      BY <1>9, <2>3 DEF Reaches, Everybody
    <2>4. heard = [x \in Person |-> IF Reaches(e, x) THEN Received(client[x], e) ELSE client[x]]
      BY <2>1 DEF Delivered
    <2>. QED BY <1>3, <1>5, <1>10, <2>1, <2>2, <2>3, <2>4
  <1>12. /\ client'[p].seq = room'.seq /\ client'[p].gen = client[p].gen
         /\ client'[p].on = client[p].on /\ client'[p].asked = room'.seq
         /\ client'[p].view = View(room') /\ client'[p].records = Closed(room')
    <2>1. client[p] \in Client /\ client[p].seq \in Nat /\ client[p].seq <= room.seq
      BY <1>3, <1>4, <1>5 DEF Client, RunningInv
    <2>2. e.seq > client[p].seq /\ e.seq \in Nat
      BY <1>4, <1>6, <1>9, <2>1
    <2>7. PICK c \in Client : c = client[p]
      BY <2>1
    <2>8. d = Received(c, e) /\ e.seq > c.seq /\ e \in Event /\ m = e.msg
      BY <1>9, <1>10, <2>2, <2>7
    <2>10. ShowsView(m) /\ m.kind = "full"
      BY <1>9 DEF ShowsView
    <2>9. /\ d.seq = e.seq /\ d.gen = c.gen /\ d.on = c.on
          /\ d.view = m.view /\ d.records = m.records
      <3>1. /\ d.seq = e.seq /\ d.gen = c.gen /\ d.on = c.on
            /\ d.view = IF ShowsView(m) THEN m.view
                        ELSE IF m.kind = "order" /\ m.week = c.view.week
                             THEN [c.view EXCEPT !.decided = @ \cup {m.player}]
                             ELSE c.view
            /\ d.records = IF m.kind = "full" THEN m.records
                           ELSE IF m.kind = "record" THEN c.records \cup {m.week}
                                ELSE c.records
        BY <2>7, <2>8, Takes
      <3>. QED BY <2>10, <3>1
    <2>3. /\ d.seq = e.seq /\ d.gen = client[p].gen /\ d.on = client[p].on
          /\ d.view = m.view /\ d.records = m.records
      BY <2>7, <2>9
    <2>4. client'[p] \in Client
      BY <1>3, Facts DEF IInv, TypeInv
    <2>5. /\ client'[p].seq = d.seq /\ client'[p].gen = d.gen /\ client'[p].on = d.on
          /\ client'[p].view = d.view /\ client'[p].records = d.records
      BY <1>11
    <2>6. client'[p].asked = e.seq
      <3>1. "asked" \in DOMAIN client'[p]
        BY <2>4 DEF Client
      <3>. QED BY <1>11, <3>1
    <2>. QED BY <1>9, <2>3, <2>5, <2>6
  <1>13. RunningInv' /\ AddressInv' /\ SeatedInv' /\ EndInv'
    <2>1. \A x \in Person : client[x].gen <= client'[x].gen /\ room'.seat[x] <= client'[x].gen
      <3>1. ASSUME NEW x \in Person
            PROVE  client'[x].gen = client[x].gen /\ client[x].gen \in Nat
        <4>1. client[x].gen \in Nat
          BY <1>4 DEF Client
        <4>2. CASE x = p
          BY <1>12, <4>1, <4>2
        <4>3. CASE x # p
          BY <1>11, <4>1, <4>3
        <4>. QED BY <4>2, <4>3
      <3>. QED BY <1>3, <1>6, <3>1 DEF AddressInv
    <2>2. ASSUME NEW x \in Person
          PROVE  /\ client'[x].seq <= room'.seq /\ client'[x].asked <= room'.seq
                 /\ client'[x].on => room'.seat[x] = client'[x].gen
      <3>1. CASE x = p
        BY <1>4, <1>5, <1>6, <1>12, <3>1 DEF IsSeated
      <3>2. CASE x # p
        <4>1. client[x].seq <= room.seq /\ client[x].asked <= room.seq
          BY <1>3, <1>5 DEF RunningInv
        <4>2. client[x].seq \in Nat /\ client[x].asked \in Nat
          BY <1>4 DEF Client
        <4>. QED BY <1>3, <1>4, <1>5, <1>6, <1>11, <3>2, <4>1, <4>2 DEF SeatedInv, IsSeated
      <3>. QED BY <3>1, <3>2
    <2>. QED BY <1>3, <1>8, <2>1, <2>2, Settles
  <1>14. AskedInv'
    <2>1. ASSUME NEW x \in Person, client'[x].asked = room'.seq
          PROVE  Answered(x)'
      <3>1. x = p
        <4>1. ASSUME x # p
              PROVE  FALSE
          <5>1. client[x].asked <= room.seq /\ client[x].asked \in Nat
            BY <1>3, <1>4, <1>5 DEF RunningInv, Client
          <5>. QED BY <1>4, <1>6, <1>11, <2>1, <4>1, <5>1
        <4>. QED BY <4>1
      <3>. QED BY <1>12, <3>1 DEF Answered
    <2>. QED BY <2>1 DEF AskedInv
  <1>15. WillSeeAll(p)'
    <2>1. ASSUME ~Void(p)'
          PROVE  Pending(p)' = {}
      <3>1. ASSUME NEW f \in Pending(p)'
            PROVE  FALSE
        <4>1. f \in InFlight
          BY <1>8, <3>1 DEF Pending
        <4>2. f.seq <= room.seq /\ f.seq \in Nat
          BY <1>3, <1>4, <1>5, <4>1 DEF RunningInv, Event
        <4>. QED BY <1>4, <1>6, <1>12, <2>1, <3>1, <4>2 DEF Void
      <3>. QED BY <3>1
    <2>2. ASSUME Pending(p)' = {}
          PROVE  ViewOK(p)' /\ RecordsOK(p)'
      <3>1. PICK n, v, recs : n = client'[p].seq /\ v = client'[p].view /\ recs = client'[p].records
        OBVIOUS
      <3>2. OrdersLater(p, n)' = {}
        BY <2>2 DEF OrdersLater, Later
      <3>3. v.week = room'.week /\ v.decided = room'.decided /\ (v.over <=> Over(room'))
        BY <1>12, <3>1 DEF View
      <3>4. ViewFrom(p, n, v)'
        BY <3>2, <3>3 DEF ViewFrom
      <3>5. RecordsFrom(p, n, recs)'
        BY <1>12, <3>1 DEF RecordsFrom
      <3>. QED BY <2>2, <3>1, <3>4, <3>5 DEF ViewOK, RecordsOK
    <2>. QED BY <1>3, <2>1, <2>2 DEF WillSeeAll
  <1>16. ASSUME NEW x \in Person, x # p
         PROVE  WillSeeAll(x)'
    <2>1. WillSeeAll(x) /\ (Excused(x) => Excused(x)') /\ Same(x)
      BY <1>8, <1>11, <1>16, ExcusedStays DEF StepInv, Same
    <2>. QED BY <1>3, <1>8, <2>1, StaysInformed
  <1>. QED BY <1>3, <1>13, <1>14, <1>15, <1>16 DEF StepInv

\* A section that seats a new connection of x and answers it last.
LEMMA EntersKeepsStep ==
    ASSUME StepInv, IInv', NEW t \in Task, tasks[t] = Idle,
           NEW x \in Person, NEW g, g = client[x].gen + 1, client[x].gen < MaxJoins,
           NEW next, next = [room EXCEPT !.seat[x] = g],
           NEW messages \in Seq(Honest(next)), messages # <<>>,
           messages[Len(messages)] = IF x = Host THEN HostState(next)
                                     ELSE YourFullState(next, x),
           RoomState(room.state) \in Range(messages),
           Ends(t, next, messages, "idle"), Enters(x, room'.seq)
    PROVE  StepInv'
  <1>1. /\ IInv /\ IInv' /\ RunningInv /\ AskedInv /\ AddressInv /\ SeatedInv /\ EndInv
        /\ room \in Document /\ room.seq \in Nat /\ client \in [Person -> Client]
    BY Facts DEF StepInv
  <1>2. client[x].gen \in Nat /\ g \in 0..MaxJoins /\ g \in Nat
    <2>1. client[x].gen \in 1..MaxJoins
      BY <1>1 DEF Client
    <2>. QED BY <2>1, Numbers
  <1>3. /\ next \in Document /\ next.seq = room.seq /\ next.state = room.state
        /\ next.week = room.week /\ next.closed = room.closed
        /\ next.decided = room.decided
        /\ Over(next) <=> Over(room)
    BY <1>1, <1>2, SeatTyped
  <1>4. /\ next.lastOrders = room.lastOrders /\ next.bots = room.bots
        /\ next.seat[x] = g /\ \A y \in Person : y # x => next.seat[y] = room.seat[y]
    <2>1. room.seat \in [Person -> 0..MaxJoins]
      BY <1>1 DEF Document
    <2>2. next.seat = [room.seat EXCEPT ![x] = g]
      BY <1>1 DEF Document
    <2>3. next.lastOrders = room.lastOrders /\ next.bots = room.bots
      BY <1>1 DEF Document
    <2>. QED BY <2>1, <2>2, <2>3
  <1>5. PICK new : new = Range(Numbered(next, messages))
    OBVIOUS
  <1>6. PICK then : then = "idle"
    OBVIOUS
  <1>15. /\ tasks[t].outbox = <<>> /\ tasks[t].then # "finish"
         /\ then \in {"idle", "close", "force", "drive", "drove", "resume", "resumed",
                     "finish", "broadcast"}
         /\ Ends(t, next, messages, then)
    BY <1>6 DEF Idle
  <1>7. /\ Moves(new)
        /\ room'.state = next.state /\ room'.week = next.week
        /\ room'.decided = next.decided /\ room'.closed = next.closed
        /\ room'.lastOrders = next.lastOrders /\ room'.bots = next.bots
        /\ room'.seat = next.seat /\ Closed(room') = Closed(next)
        /\ Over(room') <=> Over(next)
        /\ room'.seq = room.seq + Len(messages)
        /\ StillEnds(new)
        /\ OrdersOf(new) \subseteq next.decided
        /\ \A m \in Range(messages) : \E e \in new : e.msg = m
    <2>1. Over(room) => /\ Over(next) /\ room.bots \subseteq next.bots
                        /\ next.week = room.week /\ next.closed = room.closed
                        /\ next.decided = room.decided /\ next.lastOrders = room.lastOrders
      BY <1>3, <1>4
    <2>2. IInv /\ next \in Document /\ next.seq = room.seq
      BY <1>1, <1>3
    <2>. QED BY ONLY t \in Task, messages \in Seq(Honest(next)), <1>5, <1>15, <2>1, <2>2,
                     EndsTells
  <1>8. Len(messages) \in Nat /\ Len(messages) > 0 /\ room'.seq > room.seq /\ room'.seq \in Nat
    BY <1>1, <1>7
  <1>9. /\ client'[x].gen = g /\ client'[x].on /\ client'[x].seq = 0
        /\ client'[x].asked = room'.seq
        /\ \A y \in Person : y # x => client'[y] = client[y]
    <2>1. PICK fresh : fresh = Fresh(g)
      OBVIOUS
    <2>2. /\ client'[x] = [fresh EXCEPT !.asked = room'.seq]
          /\ \A y \in Person : y # x => client'[y] = client[y]
      BY <1>1, <2>1 DEF Enters
    <2>3. /\ fresh.gen = g /\ fresh.on = TRUE /\ fresh.seq = 0
          /\ DOMAIN fresh = {"gen", "on", "seq", "view", "records", "bots", "shows",
                             "finished", "dropped", "asked"}
      BY <2>1 DEF Fresh
    <2>. QED BY <2>2, <2>3
  <1>10. \A y \in Person : y # x => Same(y)
    BY <1>9 DEF Same
  <1>11. RunningInv' /\ AddressInv' /\ SeatedInv' /\ EndInv'
    <2>1. ASSUME NEW y \in Person
          PROVE  client[y].gen <= client'[y].gen /\ room'.seat[y] <= client'[y].gen
      <3>1. client[y].gen \in Nat
        BY <1>1 DEF Client
      <3>2. CASE y = x
        BY <1>2, <1>4, <1>7, <1>9, <3>2
      <3>3. CASE y # x
        BY <1>1, <1>4, <1>7, <1>9, <3>1, <3>3 DEF AddressInv
      <3>. QED BY <3>2, <3>3
    <2>2. ASSUME ~Over(room'), NEW y \in Person
          PROVE  /\ client'[y].seq <= room'.seq /\ client'[y].asked <= room'.seq
                 /\ client'[y].on => room'.seat[y] = client'[y].gen
      <3>1. CASE y = x
        BY <1>4, <1>7, <1>8, <1>9, <3>1
      <3>2. CASE y # x
        <4>1. client[y].seq <= room.seq /\ client[y].asked <= room.seq
          BY <1>1, <1>3, <1>7, <2>2 DEF RunningInv
        <4>2. client[y].seq \in Nat /\ client[y].asked \in Nat
          BY <1>1 DEF Client
        <4>3. client[y].on => room.seat[y] = client[y].gen
          BY <1>1, <1>3, <1>7, <2>2 DEF SeatedInv, IsSeated
        <4>. QED BY <1>1, <1>4, <1>7, <1>8, <1>9, <3>2, <4>1, <4>2, <4>3
      <3>. QED BY <3>1, <3>2
    <2>. QED BY <1>1, <1>7, <2>1, <2>2, Settles
  <1>12. AskedInv'
    <2>1. ASSUME ~Over(room'), NEW y \in Person, client'[y].asked = room'.seq
          PROVE  Answered(y)'
      <3>1. ASSUME y # x
            PROVE  FALSE
        <4>1. client[y].asked <= room.seq /\ client[y].asked \in Nat
          BY <1>1, <1>3, <1>7, <2>1 DEF RunningInv, Client
        <4>. QED BY <1>1, <1>8, <1>9, <2>1, <3>1, <4>1
      <3>2. y = x
        BY <3>1
      <3>3. ~Over(room) /\ InFlight' = InFlight \cup new
        BY <1>3, <1>7, <2>1 DEF Moves, Sends
      <3>4. View(room') = View(next)
        BY <1>7 DEF View, Over
      <3>5. /\ client'[x].gen = next.seat[x]
            /\ client'[x].seq <= room.seq /\ client'[x].seq \in Nat
        BY <1>1, <1>4, <1>9
      <3>6. Answered(x)'
        BY <1>1, <1>3, <1>5, <1>7, <3>3, <3>4, <3>5, ReplyAnswers
      <3>. QED BY <3>2, <3>6
    <2>. QED BY <2>1 DEF AskedInv
  <1>13. WillSeeAll(x)'
    <2>1. \A e : e.msg.to \in {Everybody, To(next, x)} => Reaches(e, x)'
      BY <1>4, <1>9 DEF Reaches, To
    <2>2. PICK m : m = messages[Len(messages)]
      OBVIOUS
    <2>3. m \in Range(messages)
      BY <1>8, <2>2 DEF Range
    <2>4. m.to = To(next, x) /\ m.kind = IF x = Host THEN "host" ELSE "full"
      BY <2>2 DEF HostState, YourFullState
    <2>5. \E e \in new : Reaches(e, x)' /\ e.msg.kind = (IF x = Host THEN "host" ELSE "full")
      <3>1. PICK e \in new : e.msg = m
        BY <1>7, <2>3
      <3>. QED BY <2>1, <2>4, <3>1
    <2>6. \E e \in new : Reaches(e, x)' /\ e.msg.kind = "room"
      <3>1. PICK e \in new : e.msg = RoomState(room.state)
        BY <1>7
      <3>2. e.msg.kind = "room" /\ e.msg.to = Everybody
        BY <3>1 DEF RoomState
      <3>. QED BY <2>1, <3>2
    <2>. QED BY <1>1, <1>7, <1>9, <2>5, <2>6, EntersInformed
  <1>14. ASSUME NEW y \in Person, y # x
         PROVE  WillSeeAll(y)'
    <2>1. WillSeeAll(y) /\ (Excused(y) => Excused(y)')
      BY <1>7, ExcusedStays DEF StepInv
    <2>2. InformsView(y, new) /\ InformsRecords(y, new)
      BY <1>3, <1>4, <1>7, InformsQuiet
    <2>3. InformsShows(new) /\ InformsBots(new)
      BY <1>3, <1>4, <1>7 DEF InformsShows, InformsBots
    <2>4. Informs(y, new)
      BY <2>2, <2>3 DEF Informs
    <2>. QED BY <1>1, <1>7, <1>10, <1>14, <2>1, <2>4, StaysInformed
  <1>. QED BY <1>1, <1>11, <1>12, <1>13, <1>14 DEF StepInv

\* The first message, some more, and the answer.
AnswersLast(messages, first, more, answer) == messages = first \o more \o <<answer>>

LEMMA AnsweredLast ==
    ASSUME NEW S, NEW first \in Seq(S), NEW more \in Seq(S), NEW answer \in S,
           NEW messages, AnswersLast(messages, first, more, answer)
    PROVE  /\ messages \in Seq(S) /\ messages # <<>>
           /\ messages[Len(messages)] = answer
           /\ Range(first) \subseteq Range(messages)
  <1>0. messages = first \o more \o <<answer>>
    BY DEF AnswersLast
  <1>1. PICK left : left = first \o more
    OBVIOUS
  <1>2. PICK last : last = <<answer>>
    OBVIOUS
  <1>3. left \in Seq(S) /\ Range(left) = Range(first) \cup Range(more)
    BY <1>1, Joined
  <1>4. last \in Seq(S) /\ Len(last) = 1 /\ last[1] = answer
    BY <1>2
  <1>5. left \o last \in Seq(S) /\ Range(left \o last) = Range(left) \cup Range(last)
    BY <1>3, <1>4, Joined
  <1>6. /\ Len(left \o last) = Len(left) + 1 /\ Len(left) \in Nat
        /\ (left \o last)[Len(left) + 1] = last[1]
    <2>1. /\ Len(left \o last) = Len(left) + Len(last) /\ Len(left) \in Nat
          /\ \A i \in 1..(Len(left) + Len(last)) :
                (left \o last)[i] = IF i <= Len(left) THEN left[i] ELSE last[i - Len(left)]
      <3>1. left \in Seq(S) /\ last \in Seq(S)
        BY <1>3, <1>4
      <3>. QED BY <3>1
    <2>2. PICK k : k = Len(left) + 1
      OBVIOUS
    <2>3. k \in 1..(Len(left) + Len(last)) /\ ~(k <= Len(left)) /\ k - Len(left) = 1
      BY <1>4, <2>1, <2>2
    <2>. QED BY <1>4, <2>1, <2>2, <2>3
  <1>7. messages = left \o last
    BY <1>0, <1>1, <1>2
  <1>8. Len(<<>>) = 0
    OBVIOUS
  <1>9. messages # <<>>
    BY <1>6, <1>7, <1>8
  <1>. QED BY <1>3, <1>4, <1>5, <1>6, <1>7, <1>9

LEMMA JoinStep ==
    ASSUME StepInv, NEW t \in Task, NEW p \in Player, Join(t, p)
    PROVE  StepInv'
  <1>1. PICK g : g = client[p].gen + 1
    OBVIOUS
  <1>2. PICK next : next = [room EXCEPT !.seat[p] = g]
    OBVIOUS
  <1>3. PICK started : started = [RoomState("running") EXCEPT !.to = To(next, p)]
    OBVIOUS
  <1>4. PICK first, more : /\ first = <<RoomState(next.state), Note>>
                           /\ more = IF Over(next) THEN <<>> ELSE <<started>>
    OBVIOUS
  <1>5. PICK answer : answer = YourFullState(next, p)
    OBVIOUS
  <1>6. PICK messages : messages = first \o more \o <<answer>>
    OBVIOUS
  <1>7. /\ IInv /\ IInv' /\ p \in Person /\ p # Host
        /\ tasks[t] = Idle /\ client[p].gen < MaxJoins
        /\ Ends(t, next, messages, "idle") /\ Enters(p, room'.seq)
    BY <1>1, <1>2, <1>3, <1>4, <1>5, <1>6, JoinKeeps, People DEF StepInv, Join, Start
  <1>8. next \in Document /\ next.state = room.state
    <2>1. client[p].gen \in 1..MaxJoins
      BY <1>7, Facts DEF Client
    <2>2. g \in 0..MaxJoins
      BY <1>1, <1>7, <2>1, Numbers
    <2>. QED BY <1>2, <1>7, <2>2, SeatTyped
  <1>9. PICK S : S = Honest(next)
    OBVIOUS
  <1>10. /\ RoomState(next.state) \in S /\ Note \in S /\ answer \in S
         /\ ~Over(next) => started \in S
    BY <1>3, <1>5, <1>8, <1>9, HonestMessages
  <1>11. first \in Seq(S) /\ more \in Seq(S) /\ RoomState(next.state) \in Range(first)
    BY <1>4, <1>10 DEF Range
  <1>12. /\ messages \in Seq(S) /\ messages # <<>>
         /\ messages[Len(messages)] = answer
         /\ RoomState(room.state) \in Range(messages)
    <2>1. AnswersLast(messages, first, more, answer) /\ answer \in S
      BY <1>6, <1>10 DEF AnswersLast
    <2>2. /\ messages \in Seq(S) /\ messages # <<>>
          /\ messages[Len(messages)] = answer
          /\ Range(first) \subseteq Range(messages)
      BY <1>11, <2>1, AnsweredLast
    <2>. QED BY <1>8, <1>11, <2>2
  <1>. QED BY <1>1, <1>2, <1>5, <1>7, <1>9, <1>12, EntersKeepsStep

LEMMA JoinWaitingStep ==
    ASSUME StepInv, NEW t \in Task, JoinWaiting(t)
    PROVE  StepInv'
  <1>1. PICK g : g = client[Host].gen + 1
    OBVIOUS
  <1>2. PICK next : next = [room EXCEPT !.seat[Host] = g]
    OBVIOUS
  <1>3. PICK config : config = [Note EXCEPT !.to = To(next, Host)]
    OBVIOUS
  <1>4. PICK first, more :
            /\ first = <<RoomState(next.state), config>>
            /\ more = IF room.seat[Host] = 0 /\ ~Over(room) THEN <<Note>> ELSE <<>>
    OBVIOUS
  <1>5. PICK answer : answer = HostState(next)
    OBVIOUS
  <1>6. PICK messages : messages = first \o more \o <<answer>>
    OBVIOUS
  <1>7. /\ IInv /\ IInv' /\ Host \in Person
        /\ tasks[t] = Idle /\ client[Host].gen < MaxJoins
        /\ Ends(t, next, messages, "idle") /\ Enters(Host, room'.seq)
    BY <1>1, <1>2, <1>3, <1>4, <1>5, <1>6, JoinWaitingKeeps, People
       DEF StepInv, JoinWaiting, Start
  <1>8. next \in Document /\ next.state = room.state
    <2>1. client[Host].gen \in 1..MaxJoins
      BY <1>7, Facts DEF Client
    <2>2. g \in 0..MaxJoins
      BY <1>1, <1>7, <2>1, Numbers
    <2>. QED BY <1>2, <1>7, <2>2, SeatTyped
  <1>9. PICK S : S = Honest(next)
    OBVIOUS
  <1>10. RoomState(next.state) \in S /\ Note \in S /\ config \in S /\ answer \in S
    BY <1>3, <1>5, <1>7, <1>8, <1>9, HonestMessages
  <1>11. first \in Seq(S) /\ more \in Seq(S) /\ RoomState(next.state) \in Range(first)
    BY <1>4, <1>10 DEF Range
  <1>12. /\ messages \in Seq(S) /\ messages # <<>>
         /\ messages[Len(messages)] = answer
         /\ RoomState(room.state) \in Range(messages)
    <2>1. AnswersLast(messages, first, more, answer) /\ answer \in S
      BY <1>6, <1>10 DEF AnswersLast
    <2>2. /\ messages \in Seq(S) /\ messages # <<>>
          /\ messages[Len(messages)] = answer
          /\ Range(first) \subseteq Range(messages)
      BY <1>11, <2>1, AnsweredLast
    <2>. QED BY <1>8, <1>11, <2>2
  <1>. QED BY <1>1, <1>2, <1>5, <1>7, <1>9, <1>12, EntersKeepsStep

-------------------------------------------------------------------------------
(* Emissions.                                                                  *)

\* The event at the head of a call's outbox goes out, and the call does the same next.
LEMMA EmitIsEmission ==
    ASSUME IInv, NEW t \in Task, Emit(t), NEW e, e = Head(tasks[t].outbox)
    PROVE  Emission(e)
  <1>1. PICK task : task = tasks[t]
    OBVIOUS
  <1>2. PICK new : new = IF Len(task.outbox) = 1 /\ task.then = "idle" THEN Idle
                         ELSE [task EXCEPT !.outbox = Tail(task.outbox)]
    OBVIOUS
  <1>3. task \in TaskState /\ task.outbox \in Seq(Event) /\ tasks \in [Task -> TaskState]
    BY <1>1, Facts DEF TaskState
  <1>4. /\ room' = room /\ task.outbox # <<>>
        /\ tasks' = [tasks EXCEPT ![t] = new]
    BY <1>1, <1>2 DEF Emit
  <1>5. tasks'[t] = new /\ \A u \in Task : u # t => tasks'[u] = tasks[u]
    BY <1>3, <1>4
  <1>6. /\ e \in Range(task.outbox)
        /\ Range(Tail(task.outbox)) \subseteq Range(task.outbox)
        /\ Range(task.outbox) \ {e} \subseteq Range(Tail(task.outbox))
        /\ Len(task.outbox) = 1 => Range(task.outbox) = {e}
    <2>1. PICK s : s = task.outbox
      OBVIOUS
    <2>2. PICK u : u = Tail(s)
      OBVIOUS
    <2>3. /\ s \in Seq(Event) /\ s # <<>> /\ Len(s) \in Nat \ {0} /\ DOMAIN s = 1..Len(s)
          /\ e = s[1]
      BY <1>1, <1>3, <1>4, <2>1
    <2>4. /\ DOMAIN u = 1..(Len(s) - 1)
          /\ \A i \in 1..(Len(s) - 1) : u[i] = s[i + 1]
      BY <2>2, <2>3
    <2>5. /\ Range(s) = {s[i] : i \in 1..Len(s)}
          /\ Range(u) = {u[i] : i \in 1..(Len(s) - 1)}
      BY <2>3, <2>4 DEF Range
    <2>6. e \in Range(s)
      BY <2>3, <2>5
    <2>7. ASSUME NEW v \in Range(u)
          PROVE  v \in Range(s)
      <3>1. PICK i \in 1..(Len(s) - 1) : v = u[i]
        BY <2>5
      <3>2. i + 1 \in 1..Len(s) /\ v = s[i + 1]
        BY <2>3, <2>4, <3>1
      <3>. QED BY <2>5, <3>2
    <2>8. ASSUME NEW v \in Range(s), v # e
          PROVE  v \in Range(u)
      <3>1. PICK i \in 1..Len(s) : v = s[i]
        BY <2>5
      <3>2. PICK k \in 1..(Len(s) - 1) : k + 1 = i
        BY <2>3, <2>8, <3>1
      <3>3. v = u[k]
        BY <2>4, <3>1, <3>2
      <3>. QED BY <2>5, <3>3
    <2>9. Len(s) = 1 => Range(s) = {e}
      BY <2>3, <2>5
    <2>. QED BY <2>1, <2>2, <2>6, <2>7, <2>8, <2>9
  <1>7. /\ new.then = task.then
        /\ task.then # "idle" => new.copy = task.copy
        /\ Range(new.outbox) \subseteq Range(task.outbox)
        /\ Range(task.outbox) \ {e} \subseteq Range(new.outbox)
    <2>1. CASE Len(task.outbox) = 1 /\ task.then = "idle"
      <3>1. new.then = "idle" /\ new.outbox = <<>>
        BY <1>2, <2>1 DEF Idle
      <3>2. Range(new.outbox) = {}
        BY <3>1 DEF Range
      <3>. QED BY <1>6, <2>1, <3>1, <3>2
    <2>2. CASE ~(Len(task.outbox) = 1 /\ task.then = "idle")
      <3>1. new = [task EXCEPT !.outbox = Tail(task.outbox)]
        BY <1>2, <2>2
      <3>2. /\ new.outbox = Tail(task.outbox)
            /\ new.then = task.then /\ new.copy = task.copy
        BY <1>3, <3>1 DEF TaskState
      <3>. QED BY <1>6, <3>2
    <2>. QED BY <2>1, <2>2
  <1>8. \A u \in Task : /\ tasks'[u].then = tasks[u].then
                        /\ tasks[u].then # "idle" => tasks'[u].copy = tasks[u].copy
    BY <1>1, <1>5, <1>7
  <1>9. /\ Ending' <=> Ending
        /\ \A u \in Task : /\ Finishes(u)' <=> Finishes(u)
                           /\ Finishes(u) => tasks'[u].copy = tasks[u].copy
    BY <1>8 DEF Ending, Finishes
  <1>10. InFlight' = UNION {Range(tasks'[u].outbox) : u \in Task}
    BY DEF InFlight
  <1>11. InFlight' \subseteq InFlight
    <2>1. ASSUME NEW u \in Task
          PROVE  Range(tasks'[u].outbox) \subseteq InFlight
      BY <1>1, <1>5, <1>7 DEF InFlight
    <2>. QED BY <1>10, <2>1
  <1>12. ASSUME NEW f \in InFlight, f # e
         PROVE  f \in InFlight'
    <2>1. PICK u \in Task : f \in Range(tasks[u].outbox)
      BY DEF InFlight
    <2>2. f \in Range(tasks'[u].outbox)
      BY <1>1, <1>5, <1>7, <1>12, <2>1
    <2>. QED BY <1>10, <2>2
  <1>13. e \in InFlight
    BY <1>1, <1>6 DEF InFlight
  <1>. QED BY <1>4, <1>9, <1>11, <1>12, <1>13 DEF Emission

LEMMA EmitStep ==
    ASSUME StepInv, NEW t \in Task, Emit(t)
    PROVE  StepInv'
  <1>1. PICK e : e = Head(tasks[t].outbox)
    OBVIOUS
  <1>2. /\ IInv /\ IInv' /\ RunningInv /\ AskedInv /\ AddressInv /\ SeatedInv /\ EndInv
        /\ Emission(e)
    BY <1>1, EmitKeeps, EmitIsEmission DEF StepInv
  <1>3. /\ client' = Delivered(e) /\ room' = room
        /\ e \in Event /\ e \in InFlight /\ e.seq \in Nat /\ room.seq \in Nat
        /\ InFlight' \subseteq InFlight
        /\ \A f \in InFlight : f # e => f \in InFlight'
        /\ InFlight \in SUBSET Event
        /\ client \in [Person -> Client]
    <2>1. e \in InFlight /\ InFlight \in SUBSET Event
      BY <1>2, Facts DEF Emission
    <2>. QED BY <1>1, <1>2, <2>1, Facts DEF Emit, Emission, Event
  <1>4. ASSUME NEW x \in Person
        PROVE  client'[x] = IF Reaches(e, x) THEN Received(client[x], e) ELSE client[x]
    BY <1>3 DEF Delivered
  <1>5. ASSUME NEW x \in Person, Reaches(e, x), e.seq > client[x].seq
        PROVE  /\ client'[x].seq = e.seq /\ client'[x].gen = client[x].gen
               /\ client'[x].on = client[x].on /\ client'[x].asked = client[x].asked
               /\ ShowsView(e.msg) => client'[x].view = e.msg.view
               /\ e.msg.kind = "full" => client'[x].records = e.msg.records
    <2>1. PICK c \in Client : c = client[x]
      BY <1>3
    <2>2. PICK d, m : d = client'[x] /\ m = e.msg
      OBVIOUS
    <2>3. d = Received(c, e) /\ e.seq > c.seq
      BY <1>4, <1>5, <2>1, <2>2
    <2>4. /\ d.seq = e.seq /\ d.gen = c.gen /\ d.on = c.on /\ d.asked = c.asked
          /\ d.view = IF ShowsView(m) THEN m.view
                      ELSE IF m.kind = "order" /\ m.week = c.view.week
                           THEN [c.view EXCEPT !.decided = @ \cup {m.player}]
                           ELSE c.view
          /\ d.records = IF m.kind = "full" THEN m.records
                         ELSE IF m.kind = "record" THEN c.records \cup {m.week}
                              ELSE c.records
      <3>1. e \in Event /\ m = e.msg
        BY <1>3, <2>2
      <3>. QED BY <2>1, <2>3, <3>1, Takes
    <2>. QED BY <2>1, <2>2, <2>4
  <1>6. ASSUME NEW x \in Person, ~(Reaches(e, x) /\ e.seq > client[x].seq)
        PROVE  /\ client'[x].seq = client[x].seq /\ client'[x].gen = client[x].gen
               /\ client'[x].on = client[x].on /\ client'[x].asked = client[x].asked
               /\ client'[x].view = client[x].view /\ client'[x].records = client[x].records
    <2>1. client[x] \in Client
      BY <1>3
    <2>2. CASE Reaches(e, x)
      <3>1. client'[x] = [client[x] EXCEPT !.dropped = TRUE]
        BY <1>4, <1>6, <2>2 DEF Received
      <3>. QED BY <2>1, <3>1 DEF Client
    <2>3. CASE ~Reaches(e, x)
      BY <1>4, <2>3
    <2>. QED BY <2>2, <2>3
  <1>7. ASSUME NEW x \in Person
        PROVE  /\ client'[x].gen = client[x].gen
               /\ client'[x].on = client[x].on /\ client'[x].asked = client[x].asked
               /\ client'[x].seq = client[x].seq \/ client'[x].seq = e.seq
    BY <1>5, <1>6
  <1>8. RunningInv'
    BY <1>2, <1>3, <1>7 DEF RunningInv
  <1>9. AddressInv'
    <2>1. \A f, x : x \in Person /\ Sender(f.msg, x) => Sender(f.msg, x)'
      BY <1>7 DEF Sender
    <2>2. \A f \in InFlight' :
             /\ f.msg.to = Everybody \/ \E x \in Person : Sender(f.msg, x)'
             /\ ShowsView(f.msg) => f.msg.to # Everybody
      BY <1>2, <1>3, <2>1 DEF AddressInv
    <2>3. /\ \A x \in Person : room'.seat[x] <= client'[x].gen
          /\ \A u \in Task, x \in Person : Finishes(u)' => tasks'[u].copy.seat[x] <= client'[x].gen
      BY <1>2, <1>3, <1>7 DEF AddressInv, Emission
    <2>. QED BY <2>2, <2>3 DEF AddressInv
  <1>10. SeatedInv'
    BY <1>2, <1>3, <1>7 DEF SeatedInv, IsSeated
  <1>11. EndInv'
    <2>1. \A u \in Task : Finishes(u)' =>
             /\ tasks'[u].copy.decided = room'.decided
             /\ tasks'[u].copy.lastOrders = room'.lastOrders
      BY <1>2, <1>3 DEF EndInv, Emission
    <2>2. \A f \in InFlight' : f.msg.kind = "finished" => Over(room')
      BY <1>2, <1>3 DEF EndInv
    <2>3. \A f \in InFlight' : f.msg.kind = "room" /\ f.msg.state # "finished" =>
             /\ f.seq <= room'.seq
             /\ \A u \in Task : Finishes(u)' => f.seq <= tasks'[u].copy.seq
      BY <1>2, <1>3 DEF EndInv, Emission
    <2>. QED BY <2>1, <2>2, <2>3 DEF EndInv
  <1>12. AskedInv'
    <2>1. ASSUME ~Over(room), NEW x \in Person, IsSeated(x)', client'[x].asked = room.seq
          PROVE  Answered(x)'
      <3>1. IsSeated(x) /\ Answered(x)
        BY <1>2, <1>3, <1>7, <2>1 DEF AskedInv, IsSeated
      <3>2. /\ \A f : Answers(f, x)' <=> Answers(f, x)
            /\ \A f : Reaches(f, x)' <=> Reaches(f, x)
            /\ \A f : Answers(f, x) => Reaches(f, x)
        BY <1>3, <1>7, <3>1 DEF Answers, Reaches, IsSeated
      <3>3. client[x].seq \in Nat
        BY <1>3 DEF Client
      <3>4. CASE Reaches(e, x) /\ e.seq > client[x].seq
        <4>1. e.seq <= room.seq /\ client[x].seq < room.seq
          BY <1>2, <1>3, <2>1, <3>3, <3>4 DEF RunningInv
        <4>2. /\ \E f \in InFlight : f.seq = room.seq /\ Answers(f, x)
              /\ \A f \in InFlight : f.seq = room.seq /\ Reaches(f, x) => Answers(f, x)
          BY <3>1, <3>3, <4>1 DEF Answered
        <4>3. CASE e.seq = room.seq
          <5>1. Answers(e, x)
            BY <1>3, <3>4, <4>2, <4>3
          <5>2. /\ client'[x].seq = room'.seq
                /\ client'[x].view = View(room')
                /\ x \in Player => client'[x].records = Closed(room')
            BY <1>3, <1>5, <3>4, <4>3, <5>1, People DEF Answers, ShowsView
          <5>. QED BY <5>2 DEF Answered
        <4>4. CASE e.seq # room.seq
          <5>1. client'[x].seq < room'.seq
            BY <1>3, <1>5, <3>4, <4>1, <4>4
          <5>2. /\ \E f \in InFlight' : f.seq = room'.seq /\ Answers(f, x)'
                /\ \A f \in InFlight' : f.seq = room'.seq /\ Reaches(f, x)' => Answers(f, x)'
            BY <1>3, <3>2, <4>2, <4>4
          <5>. QED BY <5>1, <5>2 DEF Answered
        <4>. QED BY <4>3, <4>4
      <3>5. CASE ~(Reaches(e, x) /\ e.seq > client[x].seq)
        <4>1. /\ client'[x].seq = client[x].seq /\ client'[x].view = client[x].view
              /\ client'[x].records = client[x].records
          BY <1>6, <3>5
        <4>2. CASE /\ client[x].seq = room.seq
                   /\ client[x].view = View(room)
                   /\ x \in Player => client[x].records = Closed(room)
          BY <1>3, <4>1, <4>2 DEF Answered
        <4>3. CASE /\ client[x].seq < room.seq
                   /\ \E f \in InFlight : f.seq = room.seq /\ Answers(f, x)
                   /\ \A f \in InFlight : f.seq = room.seq /\ Reaches(f, x) => Answers(f, x)
          <5>1. PICK f \in InFlight : f.seq = room.seq /\ Answers(f, x)
            BY <4>3
          <5>2. f # e
            BY <1>3, <3>2, <3>3, <3>5, <4>3, <5>1
          <5>3. f \in InFlight' /\ f.seq = room'.seq /\ Answers(f, x)'
            BY <1>3, <3>2, <5>1, <5>2
          <5>4. \A h \in InFlight' : h.seq = room'.seq /\ Reaches(h, x)' => Answers(h, x)'
            BY <1>3, <3>2, <4>3
          <5>5. client'[x].seq < room'.seq
            BY <1>3, <4>1, <4>3
          <5>. QED BY <5>3, <5>4, <5>5 DEF Answered
        <4>. QED BY <3>1, <4>2, <4>3 DEF Answered
      <3>. QED BY <3>4, <3>5
    <2>. QED BY <1>3, <2>1 DEF AskedInv
  <1>13. ASSUME NEW x \in Person
         PROVE  WillSeeAll(x)'
    <2>1. WillSeeAll(x)
      BY DEF StepInv
    <2>2. CASE Reaches(e, x)
      BY <1>2, <1>4, <2>1, <2>2, TakenUp
    <2>3. CASE ~Reaches(e, x)
      BY <1>2, <1>4, <2>1, <2>3, PassedBy
    <2>. QED BY <2>2, <2>3
  <1>. QED BY <1>2, <1>8, <1>9, <1>10, <1>11, <1>12, <1>13 DEF StepInv

-------------------------------------------------------------------------------
(* Theorems.                                                                   *)

LEMMA InitStep ==
    ASSUME Init
    PROVE  StepInv
  <1>1. PICK w \in 1..Weeks : room = Opened(w)
    BY DEF Init
  <1>2. IInv
    BY InitInv
  <1>3. /\ ~Over(room) /\ room.seq = 0 /\ room.state = "running"
        /\ room.bots = {} /\ \A x \in Person : room.seat[x] = 1
    BY <1>1 DEF Opened, Over
  <1>4. \A u \in Task : tasks[u].then = "idle" /\ tasks[u].outbox = <<>>
    BY DEF Init, Idle
  <1>5. InFlight = {} /\ \A u \in Task : ~Finishes(u)
    BY <1>4 DEF InFlight, Range, Finishes
  <1>6. ASSUME NEW x \in Person
        PROVE  /\ client[x].gen = 1 /\ client[x].on /\ client[x].seq = 0 /\ client[x].asked = 0
               /\ client[x].view = View(room) /\ client[x].shows = "running"
               /\ client[x].bots = {}
               /\ x \in Player => client[x].records = Closed(room)
    <2>1. PICK fresh : fresh = Fresh(1)
      OBVIOUS
    <2>2. client[x] = [fresh EXCEPT !.view = View(room), !.shows = "running",
                                    !.records = IF x = Host THEN {} ELSE Closed(room)]
      BY <2>1 DEF Init
    <2>3. /\ fresh.gen = 1 /\ fresh.on = TRUE /\ fresh.seq = 0 /\ fresh.asked = 0
          /\ fresh.bots = {}
          /\ DOMAIN fresh = {"gen", "on", "seq", "view", "records", "bots", "shows",
                             "finished", "dropped", "asked"}
      BY <2>1 DEF Fresh
    <2>. QED BY <2>2, <2>3, People
  <1>7. RunningInv
    BY <1>3, <1>5, <1>6 DEF RunningInv
  <1>8. AskedInv
    BY <1>3, <1>6 DEF AskedInv, Answered
  <1>9. AddressInv /\ SeatedInv /\ EndInv
    BY <1>3, <1>5, <1>6 DEF AddressInv, SeatedInv, EndInv, IsSeated
  <1>10. ASSUME NEW x \in Person
         PROVE  WillSeeAll(x)
    <2>1. Pending(x) = {} /\ \A n : Later(x, n) = {}
      BY <1>5 DEF Pending, Later
    <2>2. \A n : OrdersLater(x, n) = {}
      BY <2>1 DEF OrdersLater
    <2>3. ViewOK(x)
      <3>1. PICK v : v = client[x].view
        OBVIOUS
      <3>2. v.week = room.week /\ v.decided = room.decided /\ (v.over <=> Over(room))
        BY <1>6, <3>1 DEF View
      <3>. QED BY <2>1, <2>2, <3>1, <3>2 DEF ViewOK, ViewFrom
    <2>4. x \in Player => RecordsOK(x)
      BY <1>6, <2>1 DEF RecordsOK, RecordsFrom
    <2>5. ShowsOK(x) /\ BotsOK(x)
      BY <1>3, <1>6, <2>1 DEF ShowsOK, BotsOK, ShowsFrom, BotsFrom
    <2>. QED BY <2>3, <2>4, <2>5 DEF WillSeeAll
  <1>. QED BY <1>2, <1>7, <1>8, <1>9, <1>10 DEF StepInv

\* Nothing the invariant speaks of changes.
LEMMA StillInStep ==
    ASSUME StepInv, UNCHANGED vars
    PROVE  StepInv'
  <1>1. room' = room /\ tasks' = tasks /\ client' = client /\ IInv'
    BY NextKeeps DEF StepInv, vars
  <1>2. InFlight' = InFlight /\ (Ending' <=> Ending)
    BY <1>1 DEF InFlight, Ending
  <1>3. IInv /\ room.seq <= room'.seq
    BY <1>1, Facts DEF StepInv
  <1>4. Moves({}) /\ \A x \in Person : Informs(x, {})
    BY <1>1, <1>3, NothingSent
  <1>5. \A x \in Person : Same(x) /\ client'[x].asked = client[x].asked
    BY <1>1 DEF Same
  <1>6. \A x \in Person : room'.seat[x] <= client[x].gen
    BY <1>1 DEF StepInv, AddressInv
  <1>. QED BY <1>1, <1>4, <1>5, <1>6, SectionKeepsStep

LEMMA NextStep == StepInv /\ [Next]_vars => StepInv'
  <1>. SUFFICES ASSUME StepInv, [Next]_vars
                PROVE  StepInv'
    OBVIOUS
  <1>1. CASE UNCHANGED vars
    BY <1>1, StillInStep
  <1>2. ASSUME NEW t \in Task, Emit(t) PROVE StepInv'
    BY <1>2, EmitStep
  <1>3. ASSUME NEW t \in Task, NEW p \in Player, SubmitOrder(t, p) PROVE StepInv'
    BY <1>3, SubmitOrderStep
  <1>4. ASSUME NEW t \in Task, NEW p \in Player, SubmitStale(t, p) PROVE StepInv'
    BY <1>4, SubmitStaleStep
  <1>5. ASSUME NEW t \in Task, NEW then \in {"close", "force", "drove", "resumed"},
               TryClose(t, then)
        PROVE  StepInv'
    BY <1>5, TryCloseStep
  <1>6. ASSUME NEW t \in Task, NEW then \in {"drive", "resume"}, PlayBots(t, then)
        PROVE  StepInv'
    BY <1>6, PlayBotsStep
  <1>7. ASSUME NEW t \in Task, FinishGame(t) PROVE StepInv'
    BY <1>7, FinishGameStep
  <1>8. ASSUME NEW t \in Task, SaveFinished(t) PROVE StepInv'
    BY <1>8, SaveFinishedStep
  <1>9. ASSUME NEW t \in Task, PauseGame(t) PROVE StepInv'
    BY <1>9, PauseGameStep
  <1>10. ASSUME NEW t \in Task, ResumeGame(t) PROVE StepInv'
    BY <1>10, ResumeGameStep
  <1>11. ASSUME NEW t \in Task, BroadcastState(t) PROVE StepInv'
    BY <1>11, BroadcastStateStep
  <1>12. ASSUME NEW t \in Task, ForceCloseWeek(t) PROVE StepInv'
    BY <1>12, ForceCloseWeekStep
  <1>13. ASSUME NEW t \in Task, NEW p \in Player, SubstituteBot(t, p) PROVE StepInv'
    BY <1>13, SubstituteBotStep
  <1>14. ASSUME NEW t \in Task, NEW p \in Player, ReclaimSeat(t, p) PROVE StepInv'
    BY <1>14, ReclaimSeatStep
  <1>15. ASSUME NEW t \in Task, EndGameEarly(t) PROVE StepInv'
    BY <1>15, EndGameEarlyStep
  <1>16. ASSUME NEW t \in Task, NEW x \in Person, RequestState(t, x) PROVE StepInv'
    BY <1>16, RequestStateStep
  <1>17. ASSUME NEW x \in Person, Lose(x) PROVE StepInv'
    BY <1>17, LoseStep
  <1>18. ASSUME NEW t \in Task, NEW x \in Person, Disconnect(t, x) PROVE StepInv'
    BY <1>18, DisconnectStep
  <1>19. ASSUME NEW t \in Task, NEW p \in Player, Join(t, p) PROVE StepInv'
    BY <1>19, JoinStep
  <1>20. ASSUME NEW t \in Task, JoinWaiting(t) PROVE StepInv'
    BY <1>20, JoinWaitingStep
  <1>. QED BY <1>1, <1>2, <1>3, <1>4, <1>5, <1>6, <1>7, <1>8, <1>9, <1>10, <1>11, <1>12,
              <1>13, <1>14, <1>15, <1>16, <1>17, <1>18, <1>19, <1>20 DEF Next

LEMMA AlwaysInStep == Spec => []StepInv
  <1>1. Init => StepInv
    BY InitStep
  <1>. QED BY <1>1, NextStep, PTL DEF Spec

\* Once everything is emitted, a seated connection that dropped no event shows the game
\* as it is: whatever the order in which the events of overlapping calls went out, and
\* whoever joined, left, paused or ended the game meanwhile, the sections of play.py,
\* lobby.py and game_service.py sent everybody all they needed.
THEOREM ScreensEndInStep == Spec => []InStep
  <1>1. StepInv => InStep
    <2>. SUFFICES ASSUME StepInv, Quiet, NEW x \in Person, IsSeated(x),
                         ~client[x].dropped, ~(Over(room) /\ x \in room.bots)
                  PROVE  SeesAll(x)
      BY DEF InStep
    <2>1. \A u \in Task : tasks[u].outbox = <<>> /\ tasks[u].then = "idle"
      BY DEF Quiet, Idle
    <2>2. InFlight = {} /\ ~Ending
      BY <2>1 DEF InFlight, Range, Ending
    <2>3. Pending(x) = {} /\ \A n : Later(x, n) = {}
      BY <2>2 DEF Pending, Later
    <2>4. \A n : OrdersLater(x, n) = {}
      BY <2>3 DEF OrdersLater
    <2>5. client[x].on /\ ~Excused(x) /\ ~Void(x)
      BY <2>3 DEF Excused, Void, IsSeated
    <2>6. /\ ViewOK(x)
          /\ x \in Player => RecordsOK(x)
          /\ x = Host => ShowsOK(x) /\ BotsOK(x)
      BY <2>5 DEF StepInv, WillSeeAll
    <2>7. PICK c \in Client : c = client[x]
      BY Facts DEF StepInv
    <2>8. /\ c.view.week = room.week
          /\ \/ (c.view.over <=> Over(room)) /\ c.view.decided = room.decided
             \/ /\ Over(room) /\ ~c.view.over /\ c.finished
                /\ c.view.decided = room.lastOrders
      <3>1. ViewFrom(x, c.seq, c.view)
        BY <2>6, <2>7 DEF ViewOK
      <3>. QED BY <2>2, <2>3, <2>4, <2>7, <3>1 DEF ViewFrom, WillFinish
    <2>9. \/ c.view = View(room)
          \/ /\ Over(room) /\ c.finished
             /\ c.view = [week |-> room.week, decided |-> room.lastOrders, over |-> FALSE]
      <3>1. /\ c.view = [week |-> c.view.week, decided |-> c.view.decided, over |-> c.view.over]
            /\ c.view.over \in BOOLEAN
        BY <2>7 DEF Client, ViewState
      <3>2. Over(room) \in BOOLEAN
        BY DEF Over
      <3>. QED BY <2>8, <3>1, <3>2 DEF View
    <2>10. ASSUME x \in Player
           PROVE  c.records = Closed(room)
      <3>1. RecordsFrom(x, c.seq, c.records)
        BY <2>6, <2>7, <2>10 DEF RecordsOK
      <3>2. Closed(room) \subseteq c.records
        BY <2>3, <3>1 DEF RecordsFrom
      <3>3. c.records \subseteq Closed(room)
        BY <2>7, Facts DEF StepInv, Ordered
      <3>. QED BY <3>2, <3>3
    <2>11. x = Host => c.shows = room.state /\ (Over(room) \/ c.bots = room.bots)
      BY <2>2, <2>3, <2>6, <2>7 DEF ShowsOK, BotsOK, ShowsFrom, BotsFrom
    <2>. QED BY <2>7, <2>9, <2>10, <2>11 DEF SeesAll
  <1>. QED BY <1>1, AlwaysInStep, PTL

\* A seated connection that asked for the state, or was answered by a stale submission
\* or a reconnect, is current again when everything is emitted and nothing else was
\* numbered since, whatever it had dropped before: the reply is above every number
\* already sent (request_state's docstring).
THEOREM AskingMakesCurrent == Spec => []AskedIsCurrent
  <1>1. StepInv => AskedIsCurrent
    <2>. SUFFICES ASSUME StepInv, Quiet, ~Over(room), NEW x \in Person, IsSeated(x),
                         client[x].asked = room.seq
                  PROVE  /\ client[x].view = View(room)
                         /\ x \in Player => client[x].records = Closed(room)
      BY DEF AskedIsCurrent
    <2>1. \A u \in Task : tasks[u].outbox = <<>>
      BY DEF Quiet, Idle
    <2>2. InFlight = {}
      BY <2>1 DEF InFlight, Range
    <2>3. Answered(x)
      BY DEF StepInv, AskedInv
    <2>. QED BY <2>2, <2>3 DEF Answered
  <1>. QED BY <1>1, AlwaysInStep, PTL

===============================================================================
