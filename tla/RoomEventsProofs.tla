--------------------------- MODULE RoomEventsProofs ---------------------------
(***************************************************************************)
(* Theorems about RoomEvents, for any players, weeks, calls and            *)
(* connections: in whatever order the events of overlapping calls arrive,  *)
(* no screen goes back to an earlier moment of the game.                   *)
(***************************************************************************)
EXTENDS RoomEvents, FiniteSetTheorems, TLAPS

-------------------------------------------------------------------------------
(* Types.                                                                      *)

Document ==
    [state : RoomStates, week : 1..Weeks, decided : SUBSET Player, closed : 0..Weeks,
     lastOrders : SUBSET Player, bots : SUBSET Player, seat : [Person -> 0..MaxJoins], seq : Nat]

Recipient == {Everybody} \cup (Person \X (0..MaxJoins))

Message ==
    [kind : {"note", "finished"}, to : Recipient]
    \cup [kind : {"room"}, to : Recipient, state : RoomStates]
    \cup [kind : {"order"}, to : Recipient, week : 0..Weeks, player : Player]
    \cup [kind : {"record"}, to : Recipient, week : 0..Weeks]
    \cup [kind : {"view"}, to : Recipient, view : ViewState]
    \cup [kind : {"full"}, to : Recipient, view : ViewState, records : SUBSET (0..Weeks)]
    \cup [kind : {"host"}, to : Recipient, view : ViewState, bots : SUBSET Player]

Event == [seq : Nat, msg : Message]

Client ==
    [gen : 1..MaxJoins, on : BOOLEAN, seq : Nat, view : ViewState,
     records : SUBSET (1..Weeks), bots : SUBSET Player, shows : RoomStates \cup {"lobby"},
     finished : BOOLEAN, dropped : BOOLEAN, asked : Nat]

TaskState ==
    [then : {"idle", "close", "force", "drive", "drove", "resume", "resumed",
             "finish", "persist", "broadcast"},
     outbox : Seq(Event), copy : Document]

\* The last week played is the open one's predecessor, or the last of all.
Coherent(doc) == Over(doc) \/ doc.closed = doc.week - 1

TypeInv ==
    /\ room \in Document /\ Coherent(room)
    /\ tasks \in [Task -> TaskState]
    /\ client \in [Person -> Client]
    /\ calls \in 0..MaxCalls

-------------------------------------------------------------------------------
(* The order of events.                                                        *)

\* v is no later a moment of the game than u.
Before(v, u) ==
    \/ u.over
    \/ /\ ~v.over
       /\ u.week > v.week \/ (u.week = v.week /\ v.decided \subseteq u.decided)

ShowsView(m) == m.kind \in {"view", "full", "host"}

\* What a message says of the game: an order is a view in which one player has decided.
Said(m) ==
    IF m.kind = "order" THEN [week |-> m.week, decided |-> {m.player}, over |-> FALSE]
    ELSE m.view

Tells(m) == ShowsView(m) \/ m.kind = "order"

Old(m) == Tells(m) /\ ~Said(m).over

\* What a message may show of a room at all.
Within(m, doc) ==
    /\ ShowsView(m) => m.view.week <= doc.week
    /\ m.kind = "record" => m.week \in Closed(doc)
    /\ m.kind = "full" => m.records \subseteq Closed(doc)

\* Later numbers say no less, and no event and no screen is ahead of the room.
Ordered(doc, flight, screens) ==
    /\ \A e \in flight : /\ Old(e.msg) => e.seq <= doc.seq
                         /\ Tells(e.msg) => Before(Said(e.msg), View(doc))
                         /\ Within(e.msg, doc)
    /\ \A e, f \in flight :
          Tells(e.msg) /\ ShowsView(f.msg) /\ e.seq < f.seq => Before(Said(e.msg), f.msg.view)
    /\ \A x \in Person : /\ Before(screens[x].view, View(doc))
                         /\ screens[x].view.week <= doc.week
                         /\ screens[x].records \subseteq Closed(doc)
    /\ \A x \in Person, e \in flight :
          ShowsView(e.msg) /\ e.seq > screens[x].seq => Before(screens[x].view, e.msg.view)

InFlight == UNION {Range(tasks[t].outbox) : t \in Task}

\* The document finish_game carries is of the same game, and numbered above every
\* event that shows it running.
CopyOf(copy, doc, flight) ==
    /\ Over(doc) /\ Over(copy)
    /\ copy.week = doc.week /\ copy.closed = doc.closed
    /\ \A e \in flight : Old(e.msg) => e.seq <= copy.seq

CopiesInv ==
    \A t \in Task : tasks[t].then \in {"finish", "persist"} =>
        CopyOf(tasks[t].copy, room, InFlight)

IInv == TypeInv /\ Ordered(room, InFlight, client) /\ CopiesInv

\* A document that a section may leave in the place of doc.
Follows(doc, next) ==
    /\ Before(View(doc), View(next))
    /\ doc.week <= next.week /\ doc.closed <= next.closed
    /\ Over(doc) => Over(next) /\ next.week = doc.week /\ next.closed = doc.closed

-------------------------------------------------------------------------------
(* Moments and messages.                                                       *)

LEMMA Numbers ==
    /\ Weeks \in Nat /\ Weeks > 0
    /\ MaxCalls \in Nat
    /\ MaxJoins \in Nat /\ MaxJoins > 0
  BY BoundsAssumption

LEMMA ViewTyped ==
    ASSUME NEW doc \in Document
    PROVE  /\ View(doc) \in ViewState
           /\ View(doc).week = doc.week /\ View(doc).decided = doc.decided
           /\ View(doc).over <=> Over(doc)
           /\ Closed(doc) \subseteq 1..Weeks
           /\ Closed(doc) = 1..doc.closed
  <1>1. doc.week \in 0..Weeks /\ doc.decided \in SUBSET Player /\ doc.closed \in 0..Weeks
    BY Numbers DEF Document
  <1>2. Over(doc) \in BOOLEAN
    BY DEF Over
  <1>3. View(doc) \in ViewState
    BY <1>1, <1>2 DEF View, ViewState
  <1>4. Closed(doc) = 1..doc.closed /\ Closed(doc) \subseteq 1..Weeks
    BY <1>1, Numbers DEF Closed
  <1>. QED BY <1>3, <1>4 DEF View

LEMMA OpenedTyped ==
    ASSUME NEW w \in 1..Weeks
    PROVE  Opened(w) \in Document /\ ~Over(Opened(w)) /\ Coherent(Opened(w))
  <1>1. w - 1 \in 0..Weeks /\ 1 \in 0..MaxJoins
    BY Numbers
  <1>2. [x \in Person |-> 1] \in [Person -> 0..MaxJoins]
    BY <1>1
  <1>3. Opened(w) = [state |-> "running", week |-> w, decided |-> {}, closed |-> w - 1,
                     lastOrders |-> {}, bots |-> {}, seat |-> [x \in Person |-> 1], seq |-> 0]
    BY DEF Opened
  <1>. HIDE DEF Opened
  <1>4. Opened(w) \in Document
    BY <1>1, <1>2, <1>3 DEF Document, RoomStates
  <1>. QED BY <1>3, <1>4 DEF Over, Coherent

LEMMA NoRoomTyped == NoRoom \in Document
  <1>1. Opened(1) \in Document
    BY OpenedTyped, Numbers
  <1>2. [x \in Person |-> 0] \in [Person -> 0..MaxJoins]
    BY Numbers
  <1>3. ASSUME NEW doc \in Document, NEW seats \in [Person -> 0..MaxJoins]
        PROVE  [doc EXCEPT !.seat = seats] \in Document
    BY DEF Document
  <1>. QED BY <1>1, <1>2, <1>3 DEF NoRoom

LEMMA BeforeItself ==
    ASSUME NEW v \in ViewState
    PROVE  Before(v, v)
  BY DEF Before, ViewState

LEMMA BeforeTransitive ==
    ASSUME NEW v \in ViewState, NEW u \in ViewState, NEW w \in ViewState,
           Before(v, u), Before(u, w)
    PROVE  Before(v, w)
  <1>1. v.week \in Int /\ u.week \in Int /\ w.week \in Int
    BY Numbers DEF ViewState
  <1>. QED BY <1>1 DEF Before

LEMMA MessageTyped ==
    ASSUME NEW m \in Message
    PROVE  /\ ShowsView(m) => m.view \in ViewState
           /\ m.kind = "order" => m.week \in 0..Weeks /\ m.player \in Player
           /\ m.kind = "record" => m.week \in 0..Weeks
           /\ m.kind = "room" => m.state \in RoomStates
           /\ m.kind = "full" => m.records \subseteq 0..Weeks
           /\ m.kind = "host" => m.bots \subseteq Player
           /\ m.kind \in {"note", "finished", "room", "order", "record", "view", "full", "host"}
           /\ Tells(m) => Said(m) \in ViewState
  <1>1. CASE m \in [kind : {"note", "finished"}, to : Recipient]
    BY <1>1 DEF ShowsView, Tells
  <1>2. CASE m \in [kind : {"room"}, to : Recipient, state : RoomStates]
    BY <1>2 DEF ShowsView, Tells
  <1>3. CASE m \in [kind : {"order"}, to : Recipient, week : 0..Weeks, player : Player]
    <2>1. m.kind = "order" /\ m.week \in 0..Weeks /\ m.player \in Player
      BY <1>3
    <2>. QED BY <2>1 DEF ShowsView, Tells, Said, ViewState
  <1>4. CASE m \in [kind : {"record"}, to : Recipient, week : 0..Weeks]
    BY <1>4 DEF ShowsView, Tells
  <1>5. CASE m \in [kind : {"view"}, to : Recipient, view : ViewState]
    BY <1>5 DEF ShowsView, Tells, Said
  <1>6. CASE m \in [kind : {"full"}, to : Recipient, view : ViewState,
                    records : SUBSET (0..Weeks)]
    BY <1>6 DEF ShowsView, Tells, Said
  <1>7. CASE m \in [kind : {"host"}, to : Recipient, view : ViewState, bots : SUBSET Player]
    BY <1>7 DEF ShowsView, Tells, Said
  <1>. QED BY <1>1, <1>2, <1>3, <1>4, <1>5, <1>6, <1>7 DEF Message

\* The messages a section that leaves the document doc may send.
Telling(doc) ==
    {m \in Message :
        /\ ShowsView(m) => m.view = View(doc)
        /\ m.kind = "order" => ~Over(doc) /\ m.week = doc.week /\ m.player \in doc.decided
        /\ m.kind = "record" => m.week \in Closed(doc)
        /\ m.kind = "full" => m.records = Closed(doc)}

LEMMA TellingIsNow ==
    ASSUME NEW doc \in Document, NEW m \in Telling(doc)
    PROVE  /\ m \in Message
           /\ Within(m, doc)
           /\ Tells(m) => Before(Said(m), View(doc))
           /\ Tells(m) => Said(m) \in ViewState
           /\ ShowsView(m) => m.view = View(doc)
  <1>1. /\ m \in Message /\ View(doc) \in ViewState
        /\ View(doc).week = doc.week /\ View(doc).decided = doc.decided
        /\ doc.week \in Int
    BY ViewTyped, Numbers DEF Telling, Document
  <1>2. Within(m, doc)
    BY <1>1 DEF Telling, Within, ShowsView
  <1>3. CASE m.kind = "order"
    <2>1. /\ m.week = doc.week /\ m.player \in doc.decided
          /\ Said(m) = [week |-> m.week, decided |-> {m.player}, over |-> FALSE]
      BY <1>3 DEF Telling, Said
    <2>2. Before(Said(m), View(doc))
      BY <1>1, <2>1 DEF Before
    <2>. QED BY <1>1, <1>2, <1>3, <2>2, MessageTyped DEF ShowsView
  <1>4. CASE ShowsView(m)
    <2>1. m.view = View(doc) /\ Said(m) = View(doc)
      BY <1>4 DEF Telling, Said, ShowsView
    <2>. QED BY <1>1, <1>2, <2>1, BeforeItself
  <1>. QED BY <1>1, <1>2, <1>3, <1>4 DEF Tells

\* A message as old as doc is no later than what follows doc.
LEMMA StillBefore ==
    ASSUME NEW doc \in Document, NEW next \in Document, Follows(doc, next),
           NEW v \in ViewState, Before(v, View(doc))
    PROVE  Before(v, View(next))
  BY ViewTyped, BeforeTransitive DEF Follows

LEMMA StillWithin ==
    ASSUME NEW doc \in Document, NEW next \in Document, Follows(doc, next),
           NEW m \in Message, Within(m, doc)
    PROVE  Within(m, next)
  <1>1. /\ doc.week <= next.week /\ doc.closed <= next.closed
        /\ doc.week \in Int /\ next.week \in Int /\ doc.closed \in Int /\ next.closed \in Int
    BY Numbers DEF Follows, Document
  <1>2. Closed(doc) \subseteq Closed(next)
    BY <1>1 DEF Closed
  <1>3. ShowsView(m) => m.view.week \in Int
    BY MessageTyped, Numbers DEF ViewState
  <1>. QED BY <1>1, <1>2, <1>3 DEF Within

-------------------------------------------------------------------------------
(* What keeps events and screens in order.                                     *)

\* A section says what it leaves, under numbers above every event of a running game.
LEMMA Told ==
    ASSUME NEW doc \in Document, NEW next \in Document, Follows(doc, next),
           NEW flight \in SUBSET Event, NEW new \in SUBSET Event,
           NEW screens \in [Person -> Client], Ordered(doc, flight, screens),
           \A e \in flight : Old(e.msg) => e.seq <= next.seq,
           \A e \in new : e.msg \in Telling(next),
           \A e \in new : Tells(e.msg) => doc.seq < e.seq /\ e.seq <= next.seq
    PROVE  Ordered(next, flight \cup new, screens)
  <1>1. ASSUME NEW e \in Event
        PROVE  e.msg \in Message /\ e.seq \in Nat /\ (Tells(e.msg) => Said(e.msg) \in ViewState)
    BY MessageTyped DEF Event
  <1>2. doc.seq \in Nat /\ next.seq \in Nat /\ View(next) \in ViewState
    BY ViewTyped DEF Document
  <1>3. ASSUME NEW e \in flight
        PROVE  /\ Old(e.msg) => e.seq <= next.seq
               /\ Tells(e.msg) => Before(Said(e.msg), View(next))
               /\ Within(e.msg, next)
    <2>1. /\ Tells(e.msg) => Before(Said(e.msg), View(doc))
          /\ Within(e.msg, doc)
      BY DEF Ordered
    <2>. QED BY <1>1, <2>1, StillBefore, StillWithin
  <1>4. ASSUME NEW e \in new
        PROVE  /\ Old(e.msg) => e.seq <= next.seq
               /\ Tells(e.msg) => Before(Said(e.msg), View(next))
               /\ Within(e.msg, next)
               /\ ShowsView(e.msg) => e.msg.view = View(next) /\ doc.seq < e.seq
    BY TellingIsNow DEF Old, Tells
  <1>5. ASSUME NEW e \in flight \cup new, NEW f \in flight \cup new,
               Tells(e.msg), ShowsView(f.msg), e.seq < f.seq
        PROVE  Before(Said(e.msg), f.msg.view)
    <2>1. CASE f \in new
      BY <1>3, <1>4, <1>5, <2>1
    <2>2. CASE f \in flight /\ e \in flight
      BY <1>5, <2>2 DEF Ordered
    <2>3. CASE f \in flight /\ e \in new
      <3>1. doc.seq < e.seq /\ e.seq \in Nat /\ f.seq \in Nat
        BY <1>1, <1>5, <2>3
      <3>2. ~(f.seq <= doc.seq)
        BY <1>2, <1>5, <3>1
      <3>3. ~Old(f.msg)
        BY <2>3, <3>2 DEF Ordered
      <3>4. f.msg.view.over
        BY <1>5, <3>3 DEF Old, Tells, Said, ShowsView
      <3>. QED BY <3>4 DEF Before
    <2>. QED BY <2>1, <2>2, <2>3
  <1>6. ASSUME NEW x \in Person
        PROVE  /\ Before(screens[x].view, View(next))
               /\ screens[x].view.week <= next.week
               /\ screens[x].records \subseteq Closed(next)
    <2>1. /\ Before(screens[x].view, View(doc))
          /\ screens[x].view.week <= doc.week
          /\ screens[x].records \subseteq Closed(doc)
          /\ screens[x].view \in ViewState
      BY DEF Ordered, Client
    <2>2. /\ doc.week <= next.week /\ doc.closed <= next.closed
          /\ doc.week \in Int /\ next.week \in Int /\ screens[x].view.week \in Int
          /\ doc.closed \in Int /\ next.closed \in Int
      BY <2>1, Numbers DEF Follows, Document, ViewState
    <2>3. Closed(doc) \subseteq Closed(next)
      BY <2>2 DEF Closed
    <2>. QED BY <2>1, <2>2, <2>3, StillBefore
  <1>7. ASSUME NEW x \in Person, NEW e \in flight \cup new,
               ShowsView(e.msg), e.seq > screens[x].seq
        PROVE  Before(screens[x].view, e.msg.view)
    BY <1>4, <1>6, <1>7 DEF Ordered
  <1>. QED BY <1>3, <1>4, <1>5, <1>6, <1>7 DEF Ordered

LEMMA Fewer ==
    ASSUME NEW doc, NEW flight, NEW less \in SUBSET flight, NEW screens,
           Ordered(doc, flight, screens)
    PROVE  Ordered(doc, less, screens)
  BY DEF Ordered

\* What a screen shows after an event it takes is what it showed, or the event's view,
\* or one decision more.
LEMMA ShownView ==
    ASSUME NEW c \in Client, NEW m \in Message
    PROVE  /\ Shown(c, m).view =
                 IF ShowsView(m) THEN m.view
                 ELSE IF m.kind = "order" /\ m.week = c.view.week
                      THEN [c.view EXCEPT !.decided = @ \cup {m.player}]
                      ELSE c.view
           /\ Shown(c, m).records =
                 IF m.kind = "full" THEN m.records
                 ELSE IF m.kind = "record" THEN c.records \cup {m.week} ELSE c.records
           /\ Shown(c, m).gen = c.gen /\ Shown(c, m).on = c.on
           /\ Shown(c, m).dropped = c.dropped /\ Shown(c, m).asked = c.asked
           /\ Shown(c, m).shows \in RoomStates \cup {"lobby"}
           /\ Shown(c, m).bots \subseteq Player
           /\ Shown(c, m).finished \in BOOLEAN
           /\ Shown(c, m) = [gen |-> c.gen, on |-> c.on, seq |-> c.seq,
                             view |-> Shown(c, m).view, records |-> Shown(c, m).records,
                             bots |-> Shown(c, m).bots, shows |-> Shown(c, m).shows,
                             finished |-> Shown(c, m).finished, dropped |-> c.dropped,
                             asked |-> c.asked]
  <1>1. CASE m.kind = "note"
    BY <1>1 DEF Shown, ShowsView, Client
  <1>2. CASE m.kind = "room"
    BY <1>2, MessageTyped DEF Shown, ShowsView, Client
  <1>3. CASE m.kind = "order"
    BY <1>3 DEF Shown, ShowsView, Client, ViewState
  <1>4. CASE m.kind = "record"
    BY <1>4 DEF Shown, ShowsView, Client
  <1>5. CASE m.kind = "view"
    BY <1>5 DEF Shown, ShowsView, Client
  <1>6. CASE m.kind = "full"
    BY <1>6 DEF Shown, ShowsView, Client
  <1>7. CASE m.kind = "finished"
    BY <1>7 DEF Shown, ShowsView, Client, RoomStates
  <1>8. CASE m.kind = "host"
    BY <1>8, MessageTyped DEF Shown, ShowsView, Client
  <1>. QED BY <1>1, <1>2, <1>3, <1>4, <1>5, <1>6, <1>7, <1>8, MessageTyped

\* One decision more is before whatever is after both the screen and the order.
LEMMA DecidedToo ==
    ASSUME NEW v \in ViewState, NEW p \in Player, NEW w,
           w = [v EXCEPT !.decided = @ \cup {p}]
    PROVE  /\ w \in ViewState
           /\ w.week = v.week
           /\ Before(v, w)
           /\ \A u \in ViewState :
                 /\ Before(v, u)
                 /\ Before([week |-> v.week, decided |-> {p}, over |-> FALSE], u)
                 => Before(w, u)
  <1>1. /\ w.week = v.week /\ w.decided = v.decided \cup {p} /\ w.over = v.over
        /\ v.over \in BOOLEAN /\ v.week \in Int /\ w \in ViewState
    BY Numbers DEF ViewState
  <1>2. Before(v, w)
    BY <1>1 DEF Before
  <1>3. ASSUME NEW u \in ViewState, Before(v, u),
               Before([week |-> v.week, decided |-> {p}, over |-> FALSE], u)
        PROVE  Before(w, u)
    <2>1. u.week \in Int /\ u.over \in BOOLEAN
      BY Numbers DEF ViewState
    <2>2. CASE u.over
      BY <2>2 DEF Before
    <2>3. CASE ~u.over
      <3>1. ~v.over /\ (u.week > v.week \/ (u.week = v.week /\ v.decided \subseteq u.decided))
        BY <1>3, <2>3 DEF Before
      <3>2. u.week > v.week \/ (u.week = v.week /\ p \in u.decided)
        BY <1>3, <2>3 DEF Before
      <3>3. ~w.over /\ (u.week > w.week \/ (u.week = w.week /\ w.decided \subseteq u.decided))
        BY <1>1, <2>1, <3>1, <3>2
      <3>. QED BY <3>3 DEF Before
    <2>. QED BY <2>2, <2>3
  <1>. QED BY <1>1, <1>2, <1>3

\* An event that is taken moves the screen on, and no further than the room or than
\* any view with a higher number.
LEMMA HeardOne ==
    ASSUME NEW doc \in Document, NEW flight \in SUBSET Event,
           NEW screens \in [Person -> Client], Ordered(doc, flight, screens),
           NEW e \in flight, NEW x \in Person, NEW c, c = Received(screens[x], e)
    PROVE  /\ c \in Client
           /\ c.gen = screens[x].gen
           /\ c.on = screens[x].on
           /\ Before(screens[x].view, c.view)
           /\ Before(c.view, View(doc))
           /\ c.view.week <= doc.week
           /\ c.records \subseteq Closed(doc)
           /\ \A f \in flight :
                 ShowsView(f.msg) /\ f.seq > c.seq => Before(c.view, f.msg.view)
  <1>. DEFINE old == screens[x]
              m == e.msg
  <1>1. /\ old \in Client /\ old.view \in ViewState /\ old.seq \in Nat
        /\ m \in Message /\ e.seq \in Nat
        /\ View(doc) \in ViewState /\ Closed(doc) \subseteq 1..Weeks
    BY ViewTyped DEF Client, Event
  <1>2. /\ Before(old.view, View(doc))
        /\ old.view.week <= doc.week
        /\ old.records \subseteq Closed(doc)
        /\ Tells(m) => Before(Said(m), View(doc))
        /\ Within(m, doc)
    BY DEF Ordered
  <1>3. \A f \in flight : f.seq \in Nat /\ f.msg \in Message
    BY DEF Event
  <1>4. CASE e.seq <= old.seq
    <2>1. c = [old EXCEPT !.dropped = TRUE]
      BY <1>1, <1>4 DEF Received
    <2>2. /\ c \in Client /\ c.gen = old.gen /\ c.on = old.on /\ c.view = old.view
          /\ c.records = old.records /\ c.seq = old.seq
      BY <1>1, <2>1 DEF Client
    <2>3. \A f \in flight : ShowsView(f.msg) /\ f.seq > c.seq => Before(c.view, f.msg.view)
      BY <2>2 DEF Ordered
    <2>. QED BY <1>1, <1>2, <2>2, <2>3, BeforeItself
  <1>5. CASE e.seq > old.seq
    <2>. DEFINE now == Shown(old, m)
    <2>1. c = [now EXCEPT !.seq = e.seq]
      BY <1>5 DEF Received
    <2>2. /\ now = [gen |-> old.gen, on |-> old.on, seq |-> old.seq, view |-> now.view,
                    records |-> now.records, bots |-> now.bots, shows |-> now.shows,
                    finished |-> now.finished, dropped |-> old.dropped, asked |-> old.asked]
          /\ now.bots \subseteq Player
          /\ now.shows \in RoomStates \cup {"lobby"} /\ now.finished \in BOOLEAN
          /\ now.view = IF ShowsView(m) THEN m.view
                        ELSE IF m.kind = "order" /\ m.week = old.view.week
                             THEN [old.view EXCEPT !.decided = @ \cup {m.player}]
                             ELSE old.view
          /\ now.records = IF m.kind = "full" THEN m.records
                           ELSE IF m.kind = "record" THEN old.records \cup {m.week}
                           ELSE old.records
      BY <1>1, ShownView
    <2>. HIDE DEF now
    <2>3. now.records \subseteq Closed(doc)
      BY <1>2, <2>2 DEF Within
    <2>4. /\ now.view \in ViewState
          /\ now.view.week <= doc.week
          /\ Before(old.view, now.view)
          /\ Before(now.view, View(doc))
          /\ \A f \in flight :
                ShowsView(f.msg) /\ f.seq > e.seq => Before(now.view, f.msg.view)
      <3>1. CASE ShowsView(m)
        <4>1. now.view = m.view /\ m.view \in ViewState /\ Tells(m) /\ Said(m) = m.view
          BY <1>1, <2>2, <3>1, MessageTyped DEF Tells, Said, ShowsView
        <4>2. Before(old.view, m.view)
          BY <1>5, <3>1 DEF Ordered
        <4>3. \A f \in flight : ShowsView(f.msg) /\ f.seq > e.seq => Before(m.view, f.msg.view)
          BY <1>1, <1>3, <4>1 DEF Ordered
        <4>. QED BY <1>2, <3>1, <4>1, <4>2, <4>3 DEF Within
      <3>2. CASE ~ShowsView(m) /\ m.kind = "order" /\ m.week = old.view.week
        <4>1. /\ now.view = [old.view EXCEPT !.decided = @ \cup {m.player}]
              /\ m.player \in Player /\ Tells(m)
              /\ Said(m) = [week |-> old.view.week, decided |-> {m.player}, over |-> FALSE]
          BY <1>1, <2>2, <3>2, MessageTyped DEF Tells, Said
        <4>2. /\ now.view \in ViewState
              /\ now.view.week = old.view.week
              /\ Before(old.view, now.view)
              /\ \A u \in ViewState :
                    Before(old.view, u) /\ Before(Said(m), u) => Before(now.view, u)
          BY <1>1, <4>1, DecidedToo
        <4>3. ASSUME NEW f \in flight, ShowsView(f.msg), f.seq > e.seq
              PROVE  Before(now.view, f.msg.view)
          <5>1. f.msg.view \in ViewState /\ f.seq > old.seq
            BY <1>1, <1>3, <1>5, <4>3, MessageTyped
          <5>2. Before(old.view, f.msg.view)
            BY <4>3, <5>1 DEF Ordered
          <5>3. Before(Said(m), f.msg.view)
            BY <1>1, <1>3, <4>1, <4>3 DEF Ordered
          <5>. QED BY <4>2, <5>1, <5>2, <5>3
        <4>. QED BY <1>1, <1>2, <4>1, <4>2, <4>3
      <3>3. CASE ~ShowsView(m) /\ ~(m.kind = "order" /\ m.week = old.view.week)
        <4>1. now.view = old.view
          BY <2>2, <3>3
        <4>2. \A f \in flight : f.seq > e.seq => f.seq > old.seq
          BY <1>1, <1>3, <1>5
        <4>3. \A f \in flight : ShowsView(f.msg) /\ f.seq > e.seq => Before(old.view, f.msg.view)
          BY <4>2 DEF Ordered
        <4>. QED BY <1>1, <1>2, <4>1, <4>3, BeforeItself
      <3>. QED BY <3>1, <3>2, <3>3
    <2>5. /\ c.seq = e.seq /\ c.view = now.view /\ c.records = now.records
          /\ c.gen = old.gen /\ c.on = old.on
      BY <2>1, <2>2
    <2>6. c \in Client
      <3>1. now.records \subseteq 1..Weeks
        BY <1>1, <2>3
      <3>2. c = [gen |-> old.gen, on |-> old.on, seq |-> e.seq, view |-> now.view,
                 records |-> now.records, bots |-> now.bots, shows |-> now.shows,
                 finished |-> now.finished, dropped |-> old.dropped, asked |-> old.asked]
        <4>. DEFINE view == now.view
                    records == now.records
                    bots == now.bots
                    shows == now.shows
                    finished == now.finished
        <4>1. now = [gen |-> old.gen, on |-> old.on, seq |-> old.seq, view |-> view,
                     records |-> records, bots |-> bots, shows |-> shows,
                     finished |-> finished, dropped |-> old.dropped, asked |-> old.asked]
          BY <2>2
        <4>. HIDE DEF view, records, bots, shows, finished
        <4>2. c = [gen |-> old.gen, on |-> old.on, seq |-> e.seq, view |-> view,
                   records |-> records, bots |-> bots, shows |-> shows,
                   finished |-> finished, dropped |-> old.dropped, asked |-> old.asked]
          BY <2>1, <4>1
        <4>. QED BY <4>2 DEF view, records, bots, shows, finished
      <3>3. /\ old.gen \in 1..MaxJoins /\ old.on \in BOOLEAN /\ old.dropped \in BOOLEAN
            /\ old.asked \in Nat
        BY <1>1 DEF Client
      <3>. QED BY <1>1, <2>2, <2>4, <3>1, <3>2, <3>3 DEF Client
    <2>. QED BY <2>3, <2>4, <2>5, <2>6
  <1>. QED BY <1>1, <1>4, <1>5

LEMMA Heard ==
    ASSUME NEW doc \in Document, NEW flight \in SUBSET Event,
           NEW screens \in [Person -> Client], Ordered(doc, flight, screens),
           NEW e \in flight, NEW after \in [Person -> Client],
           \A x \in Person : after[x] = screens[x] \/ after[x] = Received(screens[x], e)
    PROVE  Ordered(doc, flight, after)
  <1>1. ASSUME NEW x \in Person
        PROVE  /\ Before(after[x].view, View(doc))
               /\ after[x].view.week <= doc.week
               /\ after[x].records \subseteq Closed(doc)
               /\ \A f \in flight :
                     ShowsView(f.msg) /\ f.seq > after[x].seq =>
                         Before(after[x].view, f.msg.view)
    <2>1. CASE after[x] = screens[x]
      BY <2>1 DEF Ordered
    <2>2. CASE after[x] = Received(screens[x], e)
      <3>1. PICK c : c = Received(screens[x], e)
        OBVIOUS
      <3>2. /\ Before(c.view, View(doc))
            /\ c.view.week <= doc.week
            /\ c.records \subseteq Closed(doc)
            /\ \A f \in flight :
                  ShowsView(f.msg) /\ f.seq > c.seq => Before(c.view, f.msg.view)
        BY <3>1, HeardOne, ZenonT(60)
      <3>. QED BY <2>2, <3>1, <3>2
    <2>. QED BY <2>1, <2>2
  <1>. QED BY <1>1 DEF Ordered

\* A connection that has just entered has seen nothing; otherwise what it shows stays.
Renewed(before, after) ==
    \A x \in Person :
        \/ /\ after[x].view = before[x].view
           /\ after[x].seq = before[x].seq
           /\ after[x].records = before[x].records
        \/ after[x].view = NoView /\ after[x].records = {}

LEMMA Entered ==
    ASSUME NEW doc \in Document, NEW flight \in SUBSET Event,
           NEW screens, Ordered(doc, flight, screens), NEW after, Renewed(screens, after)
    PROVE  Ordered(doc, flight, after)
  <1>1. ASSUME NEW v \in ViewState
        PROVE  Before(NoView, v)
    BY <1>1, Numbers DEF Before, NoView, ViewState
  <1>2. /\ Before(NoView, View(doc))
        /\ NoView.week <= doc.week
        /\ {} \subseteq Closed(doc)
    BY <1>1, ViewTyped, Numbers DEF NoView, Document
  <1>3. \A f \in flight : ShowsView(f.msg) => Before(NoView, f.msg.view)
    BY <1>1, MessageTyped DEF Event
  <1>4. ASSUME NEW x \in Person
        PROVE  /\ Before(after[x].view, View(doc))
               /\ after[x].view.week <= doc.week
               /\ after[x].records \subseteq Closed(doc)
               /\ \A f \in flight :
                     ShowsView(f.msg) /\ f.seq > after[x].seq =>
                         Before(after[x].view, f.msg.view)
    <2>1. CASE /\ after[x].view = screens[x].view
               /\ after[x].seq = screens[x].seq
               /\ after[x].records = screens[x].records
      BY <2>1 DEF Ordered
    <2>2. CASE after[x].view = NoView /\ after[x].records = {}
      BY <1>2, <1>3, <2>2
    <2>. QED BY <2>1, <2>2 DEF Renewed
  <1>. QED BY <1>4 DEF Ordered

-------------------------------------------------------------------------------
(* What the sections send.                                                     *)

LEMMA ToTyped ==
    ASSUME NEW doc \in Document, NEW x \in Person
    PROVE  To(doc, x) \in Recipient
  BY DEF To, Recipient, Document

LEMMA MessagesTell ==
    ASSUME NEW doc \in Document
    PROVE  /\ Note \in Telling(doc)
           /\ GameFinished \in Telling(doc)
           /\ \A s \in RoomStates : RoomState(s) \in Telling(doc)
           /\ \A s \in RoomStates, x \in Person :
                 [RoomState(s) EXCEPT !.to = To(doc, x)] \in Telling(doc)
           /\ \A x \in Person : [Note EXCEPT !.to = To(doc, x)] \in Telling(doc)
           /\ ~Over(doc) => \A p \in doc.decided : OrderSubmitted(doc, p) \in Telling(doc)
           /\ \A p \in Player : YourState(doc, p) \in Telling(doc)
           /\ \A p \in Player : YourFullState(doc, p) \in Telling(doc)
           /\ HostState(doc) \in Telling(doc)
           /\ \A p \in Player, w \in Closed(doc) : YourWeekClosed(doc, p, w) \in Telling(doc)
  <1>1. /\ View(doc) \in ViewState /\ Closed(doc) \subseteq 0..Weeks
        /\ doc.week \in 0..Weeks /\ doc.decided \subseteq Player /\ doc.bots \subseteq Player
    BY ViewTyped, Numbers DEF Document
  <1>2. Everybody \in Recipient /\ \A x \in Person : To(doc, x) \in Recipient
    BY ToTyped DEF Recipient
  <1>3. Player \subseteq Person /\ Host \in Person
    BY DEF Person
  <1>4. ASSUME NEW to \in Recipient, NEW k \in {"note", "finished"}
        PROVE  [kind |-> k, to |-> to] \in Telling(doc)
    BY DEF Telling, Message, ShowsView
  <1>5. ASSUME NEW to \in Recipient, NEW s \in RoomStates
        PROVE  [kind |-> "room", to |-> to, state |-> s] \in Telling(doc)
    BY DEF Telling, Message, ShowsView
  <1>6. ASSUME NEW to \in Recipient
        PROVE  /\ [kind |-> "view", to |-> to, view |-> View(doc)] \in Telling(doc)
               /\ [kind |-> "full", to |-> to, view |-> View(doc), records |-> Closed(doc)]
                     \in Telling(doc)
               /\ [kind |-> "host", to |-> to, view |-> View(doc), bots |-> doc.bots]
                     \in Telling(doc)
    BY <1>1 DEF Telling, Message, ShowsView
  <1>7. ASSUME NEW p \in doc.decided, ~Over(doc)
        PROVE  OrderSubmitted(doc, p) \in Telling(doc)
    BY <1>1, <1>2, <1>7 DEF Telling, Message, ShowsView, OrderSubmitted
  <1>8. ASSUME NEW p \in Player, NEW w \in Closed(doc)
        PROVE  YourWeekClosed(doc, p, w) \in Telling(doc)
    BY <1>1, <1>2, <1>3 DEF Telling, Message, ShowsView, YourWeekClosed
  <1>9. Note \in Telling(doc) /\ GameFinished \in Telling(doc)
    BY <1>2, <1>4 DEF Note, GameFinished
  <1>10. ASSUME NEW x \in Person
         PROVE  [Note EXCEPT !.to = To(doc, x)] \in Telling(doc)
    <2>1. [Note EXCEPT !.to = To(doc, x)] = [kind |-> "note", to |-> To(doc, x)]
      BY DEF Note
    <2>. QED BY <1>2, <1>4, <2>1
  <1>11. ASSUME NEW s \in RoomStates, NEW x \in Person
         PROVE  /\ RoomState(s) \in Telling(doc)
                /\ [RoomState(s) EXCEPT !.to = To(doc, x)] \in Telling(doc)
    <2>1. [RoomState(s) EXCEPT !.to = To(doc, x)] =
              [kind |-> "room", to |-> To(doc, x), state |-> s]
      BY DEF RoomState
    <2>. QED BY <1>2, <1>5, <2>1 DEF RoomState
  <1>12. /\ \A p \in Player : YourState(doc, p) \in Telling(doc)
         /\ \A p \in Player : YourFullState(doc, p) \in Telling(doc)
         /\ HostState(doc) \in Telling(doc)
    BY <1>2, <1>3, <1>6 DEF YourState, YourFullState, HostState
  <1>13. \A s \in RoomStates : RoomState(s) \in Telling(doc)
    BY <1>2, <1>5 DEF RoomState
  <1>. QED BY <1>7, <1>8, <1>9, <1>10, <1>11, <1>12, <1>13

\* The seats of any players can be counted off in ROLE_ORDER: their ranks are as many
\* as they are, and no two are equal; none of the players is left out.
LEMMA PlacesCounted ==
    ASSUME NEW players
    PROVE  /\ Cardinality(Places(players)) \in Nat
           /\ \A n \in 1..Cardinality(Places(players)) :
                 Seats[NthPlace(players, n)] \in Player \cap players
           /\ \A p \in Player \cap players :
                 \E n \in 1..Cardinality(Places(players)) : Seats[NthPlace(players, n)] = p
  <1>. DEFINE S == Places(players)
              upTo(i) == {j \in S : j <= i}
              rank == [i \in S |-> Cardinality(upTo(i))]
  <1>1. /\ DOMAIN Seats = 1..Len(Seats) /\ Len(Seats) \in Nat
        /\ \A i \in 1..Len(Seats) : Seats[i] \in Player
    BY PeopleAssumption
  <1>2. S \subseteq 1..Len(Seats)
    BY <1>1 DEF Places
  <1>3. IsFiniteSet(S) /\ Cardinality(S) \in Nat
    <2>1. IsFiniteSet(1..Len(Seats))
      BY <1>1, FS_Interval
    <2>. HIDE DEF S
    <2>2. IsFiniteSet(S)
      BY <1>2, <2>1, FS_Subset
    <2>. QED BY <2>2, FS_CardinalityType
  <1>. HIDE DEF S
  <1>4. ASSUME NEW i \in S
        PROVE  IsFiniteSet(upTo(i)) /\ rank[i] \in 1..Cardinality(S)
    <2>1. upTo(i) \subseteq S /\ i \in upTo(i)
      BY <1>1, <1>2
    <2>2. IsFiniteSet(upTo(i)) /\ Cardinality(upTo(i)) <= Cardinality(S)
      BY <1>3, <2>1, FS_Subset
    <2>3. Cardinality(upTo(i)) \in Nat /\ Cardinality(upTo(i)) # 0
      BY <2>1, <2>2, FS_CardinalityType, FS_EmptySet
    <2>. QED BY <1>3, <2>2, <2>3
  <1>5. ASSUME NEW i \in S, NEW k \in S, i < k
        PROVE  rank[i] # rank[k]
    <2>1. upTo(i) \subseteq upTo(k) /\ k \in upTo(k) /\ k \notin upTo(i)
      <3>1. \A j \in S : j \in Int
        BY <1>1, <1>2
      <3>. QED BY <1>5, <3>1
    <2>2. Cardinality(upTo(i)) # Cardinality(upTo(k))
      BY <1>4, <2>1, FS_Subset
    <2>. QED BY <2>2
  <1>6. rank \in Injection(S, 1..Cardinality(S))
    <2>1. rank \in [S -> 1..Cardinality(S)]
      BY <1>4
    <2>2. ASSUME NEW i \in S, NEW k \in S, rank[i] = rank[k]
          PROVE  i = k
      <3>1. i \in Int /\ k \in Int
        BY <1>1, <1>2
      <3>. QED BY <1>5, <2>2, <3>1
    <2>3. IsInjective(rank)
      BY <2>2 DEF IsInjective
    <2>. HIDE DEF rank
    <2>. QED BY <2>1, <2>3 DEF Injection
  <1>7. IsFiniteSet(1..Cardinality(S)) /\ Cardinality(1..Cardinality(S)) = Cardinality(S)
    BY <1>3, FS_Interval
  <1>8. rank \in Surjection(S, 1..Cardinality(S))
    <2>. HIDE DEF rank
    <2>. QED BY <1>6, <1>7, FS_Injection
  <1>9. ASSUME NEW n \in 1..Cardinality(S)
        PROVE  Seats[NthPlace(players, n)] \in Player \cap players
    <2>1. PICK i \in S : rank[i] = n
      <3>. HIDE DEF rank
      <3>. QED BY <1>8 DEF Surjection
    <2>2. \E k \in S : Cardinality(upTo(k)) = n
      BY <2>1
    <2>3. NthPlace(players, n) \in S
      BY <2>2 DEF NthPlace, S
    <2>4. Seats[NthPlace(players, n)] \in players
      BY <2>3 DEF Places, S
    <2>. QED BY <1>1, <1>2, <2>3, <2>4
  <1>10. ASSUME NEW p \in Player \cap players
         PROVE  \E n \in 1..Cardinality(S) : Seats[NthPlace(players, n)] = p
    <2>1. PICK i \in DOMAIN Seats : Seats[i] = p
      BY PeopleAssumption DEF Range
    <2>2. i \in S
      BY <2>1 DEF S, Places
    <2>3. PICK n \in 1..Cardinality(S) : n = rank[i]
      BY <1>4, <2>2
    <2>4. Cardinality(upTo(i)) = n
      BY <2>2, <2>3
    <2>5. NthPlace(players, n) \in S /\ Cardinality(upTo(NthPlace(players, n))) = n
      BY <2>2, <2>4 DEF NthPlace, S
    <2>6. rank[NthPlace(players, n)] = rank[i]
      BY <2>3, <2>5
    <2>7. NthPlace(players, n) = i
      <3>1. IsInjective(rank) /\ DOMAIN rank = S
        <4>. HIDE DEF rank
        <4>. QED BY <1>6 DEF Injection
      <3>. HIDE DEF rank
      <3>. QED BY <2>2, <2>5, <2>6, <3>1 DEF IsInjective
    <2>. QED BY <2>1, <2>7
  <1>. QED BY <1>3, <1>9, <1>10 DEF S

\* A list for some players is a list of what it says to each.
LEMMA ListsTell ==
    ASSUME NEW doc \in Document
    PROVE  /\ HostRefresh(doc) \in Seq(Telling(doc))
           /\ StateRefresh(doc) \in Seq(Telling(doc))
           /\ Len(HostRefresh(doc)) <= 1
  <1>. DEFINE present == Connected(doc) \ doc.bots
  <1>1. InRoleOrder(present, LAMBDA p : YourFullState(doc, p)) \in Seq(Telling(doc))
    <2>. HIDE DEF present
    <2>1. \A n \in 1..Cardinality(Places(present)) :
              YourFullState(doc, Seats[NthPlace(present, n)]) \in Telling(doc)
      BY PlacesCounted, MessagesTell
    <2>. QED BY <2>1, PlacesCounted DEF InRoleOrder
  <1>2. HostRefresh(doc) \in Seq(Telling(doc)) /\ Len(HostRefresh(doc)) <= 1
    <2>1. HostState(doc) \in Telling(doc)
      BY MessagesTell
    <2>. QED BY <2>1 DEF HostRefresh
  <1>. QED BY <1>1, <1>2 DEF StateRefresh

LEMMA CloseTells ==
    ASSUME NEW doc \in Document, doc.closed > 0
    PROVE  CloseEvents(doc) \in Seq(Telling(doc))
  <1>. DEFINE present == Connected(doc)
  <1>1. doc.closed \in Closed(doc)
    BY DEF Closed, Document
  <1>2. InRoleOrder(present, LAMBDA p : YourWeekClosed(doc, p, doc.closed)) \in Seq(Telling(doc))
    <2>. HIDE DEF present
    <2>1. \A n \in 1..Cardinality(Places(present)) :
              YourWeekClosed(doc, Seats[NthPlace(present, n)], doc.closed) \in Telling(doc)
      BY <1>1, PlacesCounted, MessagesTell
    <2>. QED BY <2>1, PlacesCounted DEF InRoleOrder
  <1>3. InRoleOrder(present, LAMBDA p : YourState(doc, p)) \in Seq(Telling(doc))
    <2>. HIDE DEF present
    <2>1. \A n \in 1..Cardinality(Places(present)) :
              YourState(doc, Seats[NthPlace(present, n)]) \in Telling(doc)
      BY PlacesCounted, MessagesTell
    <2>. QED BY <2>1, PlacesCounted DEF InRoleOrder
  <1>4. Note \in Telling(doc) /\ HostRefresh(doc) \in Seq(Telling(doc))
    BY MessagesTell, ListsTell
  <1>. QED BY <1>2, <1>3, <1>4 DEF CloseEvents

\* What the bots' round tells.
LEMMA RoundTells ==
    ASSUME NEW doc \in Document, ~Over(doc), NEW players, players \subseteq doc.decided
    PROVE  InRoleOrder(players, LAMBDA p : OrderSubmitted(doc, p)) \in Seq(Telling(doc))
  <1>1. \A n \in 1..Cardinality(Places(players)) :
            OrderSubmitted(doc, Seats[NthPlace(players, n)]) \in Telling(doc)
    BY PlacesCounted, MessagesTell
  <1>. QED BY <1>1, PlacesCounted DEF InRoleOrder

\* Numbers go up from the document's.
LEMMA NumberedTyped ==
    ASSUME NEW doc \in Document, NEW messages \in Seq(Telling(doc))
    PROVE  /\ Numbered(doc, messages) \in Seq(Event)
           /\ Len(Numbered(doc, messages)) = Len(messages)
           /\ \A i \in 1..Len(messages) :
                 /\ Numbered(doc, messages)[i].msg = messages[i]
                 /\ messages[i] \in Telling(doc)
                 /\ Numbered(doc, messages)[i].seq = doc.seq + i
           /\ \A e \in Range(Numbered(doc, messages)) :
                 /\ e.msg \in Telling(doc)
                 /\ e.msg \in Range(messages)
                 /\ doc.seq < e.seq /\ e.seq <= doc.seq + Len(messages)
  <1>1. /\ DOMAIN messages = 1..Len(messages) /\ Len(messages) \in Nat
        /\ \A i \in 1..Len(messages) : messages[i] \in Telling(doc) /\ messages[i] \in Message
        /\ doc.seq \in Nat
    BY DEF Telling, Document
  <1>2. ASSUME NEW i \in 1..Len(messages)
        PROVE  [seq |-> doc.seq + i, msg |-> messages[i]] \in Event
    BY <1>1 DEF Event
  <1>3. Numbered(doc, messages) =
            [i \in 1..Len(messages) |-> [seq |-> doc.seq + i, msg |-> messages[i]]]
    BY <1>1 DEF Numbered
  <1>4. Numbered(doc, messages) \in Seq(Event) /\ Len(Numbered(doc, messages)) = Len(messages)
    BY <1>1, <1>2, <1>3
  <1>5. ASSUME NEW e \in Range(Numbered(doc, messages))
        PROVE  /\ e.msg \in Telling(doc)
               /\ e.msg \in Range(messages)
               /\ doc.seq < e.seq /\ e.seq <= doc.seq + Len(messages)
    <2>1. PICK i \in 1..Len(messages) : e = [seq |-> doc.seq + i, msg |-> messages[i]]
      BY <1>3 DEF Range
    <2>2. messages[i] \in Range(messages)
      BY <1>1 DEF Range
    <2>. QED BY <1>1, <2>1, <2>2
  <1>. QED BY <1>1, <1>3, <1>4, <1>5

LEMMA AfterTyped ==
    ASSUME NEW doc \in Document, NEW n \in Nat, NEW next, next = [doc EXCEPT !.seq = @ + n]
    PROVE  /\ next \in Document
           /\ next.seq = doc.seq + n
           /\ next.state = doc.state /\ next.week = doc.week /\ next.decided = doc.decided
           /\ next.closed = doc.closed /\ next.seat = doc.seat
           /\ Over(next) <=> Over(doc)
           /\ View(next) = View(doc)
           /\ Telling(next) = Telling(doc)
           /\ Coherent(doc) => Coherent(next)
  <1>1. /\ next \in Document
        /\ next.seq = doc.seq + n
        /\ next.state = doc.state /\ next.week = doc.week /\ next.decided = doc.decided
        /\ next.closed = doc.closed /\ next.seat = doc.seat
    BY DEF Document
  <1>2. Over(next) <=> Over(doc)
    BY <1>1 DEF Over
  <1>3. View(next) = View(doc) /\ Closed(next) = Closed(doc)
    BY <1>1 DEF View, Over, Closed
  <1>4. Telling(next) = Telling(doc)
    BY <1>1, <1>2, <1>3 DEF Telling
  <1>. QED BY <1>1, <1>2, <1>3, <1>4 DEF Coherent


-------------------------------------------------------------------------------
(* Sections.                                                                   *)

LEMMA FlightTyped ==
    ASSUME tasks \in [Task -> TaskState]
    PROVE  /\ InFlight \in SUBSET Event
           /\ \A t \in Task : Range(tasks[t].outbox) \subseteq InFlight
  <1>1. ASSUME NEW t \in Task
        PROVE  Range(tasks[t].outbox) \subseteq Event
    <2>1. tasks[t].outbox \in Seq(Event)
      BY DEF TaskState
    <2>. QED BY <2>1 DEF Range
  <1>. QED BY <1>1 DEF InFlight

LEMMA FlightGrows ==
    ASSUME tasks \in [Task -> TaskState], NEW t \in Task, NEW new,
           tasks' = [tasks EXCEPT ![t] = new]
    PROVE  InFlight' \subseteq InFlight \cup Range(new.outbox)
  BY DEF InFlight

\* A section leaves a document that follows the one it found, and its own events.
LEMMA SectionKeeps ==
    ASSUME IInv, NEW t \in Task, NEW new \in TaskState, tasks' = [tasks EXCEPT ![t] = new],
           room' \in Document, Coherent(room'), Follows(room, room'),
           \A e \in InFlight : Old(e.msg) => e.seq <= room'.seq,
           \A e \in Range(new.outbox) : e.msg \in Telling(room'),
           \A e \in Range(new.outbox) :
               Tells(e.msg) => room.seq < e.seq /\ e.seq <= room'.seq,
           new.then \in {"finish", "persist"} =>
               CopyOf(new.copy, room', InFlight \cup Range(new.outbox)),
           client' \in [Person -> Client], Renewed(client, client'), calls' \in 0..MaxCalls
    PROVE  IInv'
  <1>. DEFINE more == Range(new.outbox)
  <1>1. /\ room \in Document /\ tasks \in [Task -> TaskState] /\ client \in [Person -> Client]
        /\ Ordered(room, InFlight, client)
    BY DEF IInv, TypeInv
  <1>2. InFlight \in SUBSET Event /\ more \in SUBSET Event
    <2>1. new.outbox \in Seq(Event)
      BY DEF TaskState
    <2>. QED BY <1>1, <2>1, FlightTyped DEF Range
  <1>3. InFlight' \subseteq InFlight \cup more
    BY <1>1, FlightGrows
  <1>4. TypeInv'
    BY <1>1 DEF TypeInv
  <1>5. Ordered(room, InFlight, client)'
    <2>. HIDE DEF more
    <2>1. Ordered(room', InFlight \cup more, client)
      BY <1>1, <1>2, Told DEF more
    <2>2. Ordered(room', InFlight', client)
      BY <1>3, <2>1, Fewer
    <2>3. InFlight' \in SUBSET Event
      BY <1>2, <1>3
    <2>4. Ordered(room', InFlight', client')
      BY <2>2, <2>3, Entered
    <2>. QED BY <2>4
  <1>6. CopiesInv'
    <2>1. ASSUME NEW u \in Task, tasks'[u].then \in {"finish", "persist"}
          PROVE  CopyOf(tasks'[u].copy, room', InFlight')
      <3>1. CASE u = t
        <4>1. CopyOf(new.copy, room', InFlight \cup more)
          BY <1>1, <2>1, <3>1
        <4>2. tasks'[u].copy = new.copy
          BY <1>1, <3>1
        <4>. QED BY <1>3, <4>1, <4>2 DEF CopyOf
      <3>2. CASE u # t
        <4>1. tasks'[u] = tasks[u] /\ CopyOf(tasks[u].copy, room, InFlight)
          BY <1>1, <2>1, <3>2 DEF IInv, CopiesInv
        <4>2. /\ Over(room') /\ room'.week = room.week /\ room'.closed = room.closed
          BY <4>1 DEF Follows, CopyOf
        <4>3. ASSUME NEW e \in InFlight', Old(e.msg)
              PROVE  e.seq <= tasks[u].copy.seq
          <5>1. CASE e \in InFlight
            BY <4>1, <4>3, <5>1 DEF CopyOf
          <5>2. CASE e \in more
            <6>1. e.msg \in Telling(room') /\ Tells(e.msg)
              BY <4>3, <5>2 DEF Old
            <6>2. /\ View(room').over
                  /\ ShowsView(e.msg) => e.msg.view = View(room')
                  /\ e.msg.kind # "order"
              BY <4>2, <6>1, ViewTyped DEF Telling
            <6>3. Said(e.msg) = View(room')
              BY <6>1, <6>2 DEF Tells, Said
            <6>. QED BY <4>3, <6>2, <6>3 DEF Old
          <5>. QED BY <1>3, <5>1, <5>2
        <4>. QED BY <4>1, <4>2, <4>3 DEF CopyOf
      <3>. QED BY <3>1, <3>2
    <2>. QED BY <2>1 DEF CopiesInv
  <1>. QED BY <1>4, <1>5, <1>6 DEF IInv


\* The lock sections that end in Ends; finish_game's save is the one that may take
\* numbers back, and tells nothing of the game.
LEMMA EndsKeeps ==
    ASSUME IInv, NEW t \in Task, NEW next \in Document, NEW messages \in Seq(Telling(next)),
           NEW then \in {"idle", "close", "force", "drive", "drove", "resume", "resumed",
                         "finish", "broadcast"},
           Ends(t, next, messages, then),
           Coherent(next), Follows(room, next), then = "finish" => Over(next),
           \/ next.seq = room.seq
           \/ /\ \A e \in InFlight : Old(e.msg) => e.seq <= next.seq
              /\ \A m \in Range(messages) : ~Tells(m),
           client' \in [Person -> Client], Renewed(client, client'), calls' \in 0..MaxCalls
    PROVE  IInv'
  <1>1. /\ room \in Document /\ tasks \in [Task -> TaskState]
        /\ Ordered(room, InFlight, client) /\ InFlight \in SUBSET Event
    BY FlightTyped DEF IInv, TypeInv
  <1>2. Len(messages) \in Nat /\ next.seq \in Nat /\ room.seq \in Nat
    BY <1>1 DEF Document
  <1>3. room' = [next EXCEPT !.seq = @ + Len(messages)]
    BY DEF Ends, After
  <1>4. /\ room' \in Document
        /\ room'.seq = next.seq + Len(messages)
        /\ room'.week = next.week /\ room'.closed = next.closed
        /\ Over(room') <=> Over(next)
        /\ View(room') = View(next)
        /\ Telling(room') = Telling(next)
        /\ Coherent(room')
    <2>1. PICK n \in Nat : n = Len(messages)
      BY <1>2
    <2>2. PICK after : after = [next EXCEPT !.seq = @ + n]
      OBVIOUS
    <2>3. /\ after \in Document /\ after.seq = next.seq + n
          /\ after.week = next.week /\ after.closed = next.closed
          /\ Over(after) <=> Over(next)
          /\ View(after) = View(next) /\ Telling(after) = Telling(next)
          /\ Coherent(after)
      BY <2>2, AfterTyped
    <2>4. room' = after
      BY <1>3, <2>1, <2>2
    <2>. QED BY <2>1, <2>3, <2>4
  <1>. DEFINE events == Numbered(next, messages)
              new == IF then = "idle" /\ messages = <<>> THEN Idle
                     ELSE [then |-> then, outbox |-> events,
                           copy |-> IF then \in {"finish", "broadcast"} THEN room' ELSE NoRoom]
  <1>5. /\ events \in Seq(Event)
        /\ \A e \in Range(events) :
              /\ e.msg \in Telling(next)
              /\ e.msg \in Range(messages)
              /\ next.seq < e.seq /\ e.seq <= next.seq + Len(messages)
    BY NumberedTyped
  <1>. HIDE DEF events
  <1>6. NoRoom \in Document
    BY NoRoomTyped
  <1>7. /\ new \in TaskState
        /\ tasks' = [tasks EXCEPT ![t] = new]
        /\ Range(new.outbox) \subseteq Range(events)
        /\ new.then = "finish" => new.copy = room' /\ then = "finish"
        /\ new.then # "persist"
    <2>1. CASE then = "idle" /\ messages = <<>>
      <3>1. new = Idle
        BY <2>1
      <3>2. Idle \in TaskState /\ Range(Idle.outbox) = {} /\ Idle.then = "idle"
        BY <1>6 DEF Idle, TaskState, Range
      <3>. QED BY <2>1, <3>1, <3>2 DEF Ends, events
    <2>2. CASE ~(then = "idle" /\ messages = <<>>)
      <3>1. new = [then |-> then, outbox |-> events,
                   copy |-> IF then \in {"finish", "broadcast"} THEN room' ELSE NoRoom]
        BY <2>2
      <3>2. new \in TaskState
        BY <1>4, <1>5, <1>6, <3>1 DEF TaskState
      <3>3. tasks' = [tasks EXCEPT ![t] = new]
        BY <2>2, <3>1 DEF Ends, After, events
      <3>. QED BY <3>1, <3>2, <3>3
    <2>. QED BY <2>1, <2>2
  <1>. HIDE DEF new
  <1>8. Follows(room, room')
    BY <1>4 DEF Follows
  <1>9. \A e \in InFlight : Old(e.msg) => e.seq <= room'.seq
    <2>1. ASSUME NEW e \in InFlight, Old(e.msg)
          PROVE  e.seq <= next.seq
      BY <2>1, <1>1 DEF Ordered
    <2>. QED BY <1>1, <1>2, <1>4, <2>1 DEF Event
  <1>10. \A e \in Range(new.outbox) :
            /\ e.msg \in Telling(room')
            /\ Tells(e.msg) => room.seq < e.seq /\ e.seq <= room'.seq
    BY <1>4, <1>5, <1>7
  <1>11. new.then \in {"finish", "persist"} =>
            CopyOf(new.copy, room', InFlight \cup Range(new.outbox))
    <2>1. ASSUME NEW e \in Range(new.outbox), Old(e.msg)
          PROVE  e.seq <= room'.seq
      BY <1>10, <2>1 DEF Old
    <2>. QED BY <1>4, <1>7, <1>9, <2>1 DEF CopyOf
  <1>. QED BY <1>4, <1>7, <1>8, <1>9, <1>10, <1>11, SectionKeeps

\* A document of the same week in which nobody's order was taken back follows.
LEMMA FollowsItself ==
    ASSUME NEW doc \in Document, NEW next \in Document, next.week = doc.week,
           next.closed = doc.closed, doc.decided \subseteq next.decided,
           Over(doc) => Over(next)
    PROVE  Follows(doc, next)
  <1>1. /\ View(doc).week = doc.week /\ View(doc).decided = doc.decided
        /\ View(doc).over <=> Over(doc)
    BY ViewTyped
  <1>2. /\ View(next).week = doc.week /\ View(next).decided = next.decided
        /\ View(next).over <=> Over(next)
    BY ViewTyped
  <1>3. doc.week \in Int /\ doc.closed \in Int
    BY Numbers DEF Document
  <1>. QED BY <1>1, <1>2, <1>3 DEF Follows, Before

\* A call that changes no screen.
LEMMA SameScreens ==
    ASSUME client' = client
    PROVE  Renewed(client, client')
  BY DEF Renewed


-------------------------------------------------------------------------------
(* The actions.                                                                *)

\* What every action starts from.
LEMMA Facts ==
    ASSUME IInv
    PROVE  /\ room \in Document /\ Coherent(room)
           /\ room.seat \in [Person -> 0..MaxJoins] /\ room.seq \in Nat
           /\ tasks \in [Task -> TaskState]
           /\ client \in [Person -> Client]
           /\ calls \in 0..MaxCalls
           /\ Ordered(room, InFlight, client)
           /\ InFlight \in SUBSET Event
  BY FlightTyped DEF IInv, TypeInv, Document

LEMMA StartCounts ==
    ASSUME IInv, NEW t \in Task, Start(t)
    PROVE  calls' \in 0..MaxCalls
  BY Numbers DEF IInv, TypeInv, Start

LEMMA PauseGameKeeps ==
    ASSUME IInv, NEW t \in Task, PauseGame(t)
    PROVE  IInv'
  <1>. DEFINE next == [room EXCEPT !.state = "paused"]
  <1>1. /\ next \in Document /\ next.week = room.week /\ next.closed = room.closed
        /\ next.decided = room.decided /\ next.seq = room.seq /\ next.state = "paused"
    BY Facts DEF Document, RoomStates
  <1>2. ~Over(room) /\ ~Over(next) /\ Ends(t, next, <<RoomState("paused")>>, "idle")
    BY <1>1 DEF PauseGame, Over
  <1>3. calls' \in 0..MaxCalls /\ client' = client
    BY StartCounts DEF PauseGame, HostCalls
  <1>. HIDE DEF next
  <1>4. Coherent(next) /\ Follows(room, next)
    BY <1>1, <1>2, Facts, FollowsItself DEF Coherent
  <1>5. <<RoomState("paused")>> \in Seq(Telling(next))
    BY <1>1, MessagesTell DEF RoomStates
  <1>. QED BY <1>1, <1>2, <1>3, <1>4, <1>5, Facts, SameScreens, EndsKeeps

LEMMA ResumeGameKeeps ==
    ASSUME IInv, NEW t \in Task, ResumeGame(t)
    PROVE  IInv'
  <1>. DEFINE next == [room EXCEPT !.state = "running"]
  <1>1. /\ next \in Document /\ next.week = room.week /\ next.closed = room.closed
        /\ next.decided = room.decided /\ next.seq = room.seq /\ next.state = "running"
    BY Facts DEF Document, RoomStates
  <1>2. ~Over(room) /\ ~Over(next) /\ Ends(t, next, <<RoomState("running")>>, "broadcast")
    BY <1>1 DEF ResumeGame, Over
  <1>3. calls' \in 0..MaxCalls /\ client' = client
    BY StartCounts DEF ResumeGame, HostCalls
  <1>. HIDE DEF next
  <1>4. Coherent(next) /\ Follows(room, next)
    BY <1>1, <1>2, Facts, FollowsItself DEF Coherent
  <1>5. <<RoomState("running")>> \in Seq(Telling(next))
    BY <1>1, MessagesTell DEF RoomStates
  <1>. QED BY <1>1, <1>2, <1>3, <1>4, <1>5, Facts, SameScreens, EndsKeeps

LEMMA BroadcastStateKeeps ==
    ASSUME IInv, NEW t \in Task, BroadcastState(t)
    PROVE  IInv'
  <1>1. Ends(t, room, StateRefresh(room), "resume") /\ client' = client /\ calls' = calls
    BY DEF BroadcastState, Refreshed, Continues
  <1>2. StateRefresh(room) \in Seq(Telling(room)) /\ Follows(room, room)
    BY Facts, ListsTell, FollowsItself
  <1>. QED BY <1>1, <1>2, Facts, SameScreens, EndsKeeps

LEMMA ForceCloseWeekKeeps ==
    ASSUME IInv, NEW t \in Task, ForceCloseWeek(t)
    PROVE  IInv'
  <1>1. Ends(t, room, <<>>, "force") /\ client' = client /\ calls' \in 0..MaxCalls
    BY StartCounts DEF ForceCloseWeek, HostCalls
  <1>2. <<>> \in Seq(Telling(room)) /\ Follows(room, room)
    BY Facts, FollowsItself
  <1>. QED BY <1>1, <1>2, Facts, SameScreens, EndsKeeps

LEMMA EndGameEarlyKeeps ==
    ASSUME IInv, NEW t \in Task, EndGameEarly(t)
    PROVE  IInv'
  <1>. DEFINE next == [room EXCEPT !.state = "finished"]
  <1>1. /\ next \in Document /\ next.week = room.week /\ next.closed = room.closed
        /\ next.decided = room.decided /\ next.seq = room.seq /\ next.state = "finished"
    BY Facts DEF Document, RoomStates
  <1>2. Over(next) /\ Ends(t, next, StateRefresh(next), "finish")
    BY <1>1 DEF EndGameEarly, Over
  <1>3. calls' \in 0..MaxCalls /\ client' = client
    BY StartCounts DEF EndGameEarly, HostCalls
  <1>. HIDE DEF next
  <1>4. Coherent(next) /\ Follows(room, next)
    BY <1>1, <1>2, Facts, FollowsItself DEF Coherent
  <1>5. StateRefresh(next) \in Seq(Telling(next))
    BY <1>1, ListsTell
  <1>. QED BY <1>1, <1>2, <1>3, <1>4, <1>5, Facts, SameScreens, EndsKeeps

\* A section of the cascade that finds nothing to do.
LEMMA NothingDueKeeps ==
    ASSUME IInv, NEW t \in Task, NEW then, Ends(t, room, <<>>, AfterDrive(then)),
           client' = client, calls' = calls
    PROVE  IInv'
  <1>1. AfterDrive(then) \in {"idle", "close"}
    BY DEF AfterDrive
  <1>2. <<>> \in Seq(Telling(room)) /\ Follows(room, room)
    BY Facts, FollowsItself
  <1>. HIDE DEF AfterDrive
  <1>. QED BY <1>1, <1>2, Facts, SameScreens, EndsKeeps

LEMMA PlayBotsKeeps ==
    ASSUME IInv, NEW t \in Task, NEW then \in {"drive", "resume"}, PlayBots(t, then)
    PROVE  IInv'
  <1>1. client' = client /\ calls' = calls
    BY DEF PlayBots, Continues
  <1>2. CASE ~(room.state = "running" /\ Due(room) # {})
    <2>1. Ends(t, room, <<>>, AfterDrive(then))
      BY <1>2 DEF PlayBots
    <2>. QED BY <1>1, <2>1, NothingDueKeeps
  <1>3. CASE room.state = "running" /\ Due(room) # {}
    <2>. DEFINE next == [room EXCEPT !.decided = @ \cup Due(room)]
                orders == InRoleOrder(Due(room), LAMBDA p : OrderSubmitted(next, p))
                later == IF then = "resume" THEN "resumed" ELSE "drove"
    <2>1. Ends(t, next, orders \o HostRefresh(next), later)
      BY <1>3 DEF PlayBots
    <2>2. Due(room) \subseteq Player
      BY Facts DEF Due, Document
    <2>3. /\ next \in Document /\ next.week = room.week /\ next.closed = room.closed
          /\ next.decided = room.decided \cup Due(room) /\ next.seq = room.seq
          /\ next.state = "running"
      BY <1>3, <2>2, Facts DEF Document
    <2>4. ~Over(next) /\ ~Over(room)
      BY <1>3, <2>3 DEF Over
    <2>5. Coherent(next) /\ Follows(room, next)
      <3>. HIDE DEF next
      <3>. QED BY <2>3, <2>4, Facts, FollowsItself DEF Coherent
    <2>6. orders \o HostRefresh(next) \in Seq(Telling(next))
      <3>. HIDE DEF next
      <3>1. orders \in Seq(Telling(next))
        BY <2>3, <2>4, RoundTells
      <3>2. HostRefresh(next) \in Seq(Telling(next))
        BY <2>3, ListsTell
      <3>. HIDE DEF orders
      <3>. QED BY <3>1, <3>2
    <2>7. later \in {"drove", "resumed"}
      OBVIOUS
    <2>. HIDE DEF next, orders, later
    <2>. QED BY <1>1, <2>1, <2>3, <2>5, <2>6, <2>7, Facts, SameScreens, EndsKeeps
  <1>. QED BY <1>2, <1>3

LEMMA TryCloseKeeps ==
    ASSUME IInv, NEW t \in Task, NEW then \in {"close", "force", "drove", "resumed"},
           TryClose(t, then)
    PROVE  IInv'
  <1>1. client' = client /\ calls' = calls
    BY DEF TryClose, Continues
  <1>2. CASE ~(room.state = "running" /\ (then = "force" \/ room.decided = Player))
    <2>1. Ends(t, room, <<>>, AfterDrive(then))
      BY <1>2 DEF TryClose
    <2>. QED BY <1>1, <2>1, NothingDueKeeps
  <1>3. CASE room.state = "running" /\ (then = "force" \/ room.decided = Player)
    <2>. DEFINE next == WeekClosed(room)
    <2>1. Ends(t, next, CloseEvents(next), AfterClose(next, then))
      BY <1>3 DEF TryClose
    <2>2. /\ room.closed = room.week - 1 /\ room.week \in 1..Weeks /\ ~Over(room)
      BY <1>3, Facts DEF Coherent, Over, Document
    <2>3. /\ next.closed = room.week /\ next.seq = room.seq
          /\ next.week = IF room.week = Weeks THEN room.week ELSE room.week + 1
          /\ next.decided = {}
          /\ next.state = IF room.week = Weeks THEN "finished" ELSE "running"
      BY <1>3, <2>2, Facts, Numbers DEF WeekClosed, NextWeek, Document
    <2>4. next \in Document
      <3>1. room.closed + 1 \in 0..Weeks /\ NextWeek(room) \in 1..Weeks /\ {} \in SUBSET Player
        BY <2>2, Numbers DEF NextWeek
      <3>2. room.decided \in SUBSET Player
            /\ (IF room.week = Weeks THEN "finished" ELSE room.state) \in RoomStates
        BY Facts DEF Document, RoomStates
      <3>3. next = [room EXCEPT !.closed = room.closed + 1, !.week = NextWeek(room),
                               !.decided = {}, !.lastOrders = room.decided,
                               !.state = IF room.week = Weeks THEN "finished" ELSE room.state]
        BY Facts DEF WeekClosed, Document
      <3>. HIDE DEF next
      <3>. QED BY <3>1, <3>2, <3>3, Facts DEF Document
    <2>. HIDE DEF next
    <2>5. Over(next) <=> room.week = Weeks
      BY <2>3 DEF Over
    <2>6. Coherent(next)
      BY <2>2, <2>3, <2>5 DEF Coherent
    <2>7. Follows(room, next)
      <3>1. /\ View(room).week = room.week /\ View(next).week = next.week
            /\ View(next).over <=> Over(next)
            /\ View(room).over <=> Over(room)
        BY <2>4, Facts, ViewTyped
      <3>. QED BY <2>2, <2>3, <2>5, <3>1 DEF Follows, Before
    <2>8. CloseEvents(next) \in Seq(Telling(next))
      BY <2>2, <2>3, <2>4, CloseTells
    <2>9. /\ AfterClose(next, then) \in {"finish", "resume", "drive"}
          /\ AfterClose(next, then) = "finish" => Over(next)
      BY DEF AfterClose
    <2>10. AfterClose(next, then) \in {"idle", "close", "force", "drive", "drove", "resume",
                                       "resumed", "finish", "broadcast"}
      BY <2>9
    <2>. QED BY <1>1, <2>1, <2>3, <2>4, <2>6, <2>7, <2>8, <2>9, <2>10, Facts, SameScreens, EndsKeeps
  <1>. QED BY <1>2, <1>3


\* The seat that is swapped, and taken back.
LEMMA SubstituteBotKeeps ==
    ASSUME IInv, NEW t \in Task, NEW p \in Player, SubstituteBot(t, p)
    PROVE  IInv'
  <1>. DEFINE next == [room EXCEPT !.bots = @ \cup {p}]
              then == IF ~Over(next) /\ p \notin next.decided THEN "drive" ELSE "idle"
  <1>1. /\ next \in Document /\ next.week = room.week /\ next.closed = room.closed
        /\ next.decided = room.decided /\ next.seq = room.seq /\ next.state = room.state
    BY Facts DEF Document
  <1>2. Ends(t, next, <<Note>> \o HostRefresh(next), then)
    BY DEF SubstituteBot
  <1>3. calls' \in 0..MaxCalls /\ client' = client
    BY StartCounts DEF SubstituteBot, HostCalls
  <1>4. then \in {"drive", "idle"}
    OBVIOUS
  <1>. HIDE DEF next, then
  <1>5. Coherent(next) /\ Follows(room, next)
    BY <1>1, Facts, FollowsItself DEF Coherent, Over
  <1>6. <<Note>> \o HostRefresh(next) \in Seq(Telling(next))
    <2>1. Note \in Telling(next) /\ HostRefresh(next) \in Seq(Telling(next))
      BY <1>1, MessagesTell, ListsTell
    <2>. QED BY <2>1
  <1>. QED BY <1>1, <1>2, <1>3, <1>4, <1>5, <1>6, Facts, SameScreens, EndsKeeps

LEMMA ReclaimSeatKeeps ==
    ASSUME IInv, NEW t \in Task, NEW p \in Player, ReclaimSeat(t, p)
    PROVE  IInv'
  <1>. DEFINE next == [room EXCEPT !.bots = @ \ {p}]
  <1>1. /\ next \in Document /\ next.week = room.week /\ next.closed = room.closed
        /\ next.decided = room.decided /\ next.seq = room.seq /\ next.state = room.state
    BY Facts DEF Document
  <1>2. Ends(t, next, <<Note, YourFullState(next, p)>> \o HostRefresh(next), "idle")
    BY DEF ReclaimSeat
  <1>3. calls' \in 0..MaxCalls /\ client' = client
    BY StartCounts DEF ReclaimSeat
  <1>. HIDE DEF next
  <1>4. Coherent(next) /\ Follows(room, next)
    BY <1>1, Facts, FollowsItself DEF Coherent, Over
  <1>5. <<Note, YourFullState(next, p)>> \o HostRefresh(next) \in Seq(Telling(next))
    <2>1. /\ Note \in Telling(next) /\ YourFullState(next, p) \in Telling(next)
          /\ HostRefresh(next) \in Seq(Telling(next))
      BY <1>1, MessagesTell, ListsTell
    <2>2. <<Note, YourFullState(next, p)>> \in Seq(Telling(next))
      BY <2>1
    <2>. QED BY <2>1, <2>2
  <1>. QED BY <1>1, <1>2, <1>3, <1>4, <1>5, Facts, SameScreens, EndsKeeps

\* finish_game's number and its save: of the game that is over.
LEMMA FinishGameKeeps ==
    ASSUME IInv, NEW t \in Task, FinishGame(t)
    PROVE  IInv'
  <1>. DEFINE copy == tasks[t].copy
              next == After(copy, <<GameFinished>>)
              new == [then |-> "persist", outbox |-> Numbered(copy, <<GameFinished>>),
                      copy |-> next]
  <1>1. /\ tasks' = [tasks EXCEPT ![t] = new]
        /\ room' = room /\ client' = client /\ calls' = calls
        /\ tasks[t].then = "finish"
    BY DEF FinishGame, Continues
  <1>2. copy \in Document /\ CopyOf(copy, room, InFlight)
    BY <1>1, Facts DEF TaskState, IInv, CopiesInv
  <1>. HIDE DEF copy
  <1>3. <<GameFinished>> \in Seq(Telling(copy)) /\ Range(<<GameFinished>>) = {GameFinished}
    BY <1>2, MessagesTell DEF Range
  <1>4. /\ Numbered(copy, <<GameFinished>>) \in Seq(Event)
        /\ \A e \in Range(Numbered(copy, <<GameFinished>>)) : e.msg = GameFinished
    BY <1>2, <1>3, NumberedTyped
  <1>5. /\ next \in Document /\ next.seq = copy.seq + 1
        /\ next.week = copy.week /\ next.closed = copy.closed /\ (Over(next) <=> Over(copy))
    <2>1. next = [copy EXCEPT !.seq = @ + 1]
      BY DEF After
    <2>. HIDE DEF next
    <2>. QED BY <1>2, <2>1, AfterTyped
  <1>6. GameFinished \in Telling(room) /\ ~Tells(GameFinished)
    BY Facts, MessagesTell DEF GameFinished, Tells, ShowsView
  <1>. HIDE DEF next
  <1>7. new \in TaskState /\ new.outbox = Numbered(copy, <<GameFinished>>) /\ new.copy = next
    BY <1>4, <1>5 DEF TaskState
  <1>. HIDE DEF new
  <1>8. \A e \in Range(new.outbox) : e.msg \in Telling(room) /\ ~Tells(e.msg)
    BY <1>4, <1>6, <1>7
  <1>9. CopyOf(new.copy, room, InFlight \cup Range(new.outbox))
    <2>1. ASSUME NEW e \in InFlight, Old(e.msg)
          PROVE  e.seq <= next.seq
      <3>1. e.seq <= copy.seq /\ e.seq \in Nat /\ copy.seq \in Nat
        BY <1>2, <2>1, Facts DEF CopyOf, Event, Document
      <3>. QED BY <1>5, <3>1
    <2>. QED BY <1>2, <1>5, <1>7, <1>8, <2>1 DEF CopyOf, Old
  <1>10. /\ Follows(room, room)
         /\ \A e \in InFlight : Old(e.msg) => e.seq <= room.seq
    BY Facts, FollowsItself DEF Ordered
  <1>. QED BY <1>1, <1>7, <1>8, <1>9, <1>10, Facts, SameScreens, SectionKeeps

LEMMA SaveFinishedKeeps ==
    ASSUME IInv, NEW t \in Task, SaveFinished(t)
    PROVE  IInv'
  <1>. DEFINE next == tasks[t].copy
  <1>1. PICK messages \in {<<Note>>, <<>>} : Ends(t, next, messages, "idle")
    BY DEF SaveFinished
  <1>2. client' = client /\ calls' = calls /\ tasks[t].then = "persist"
    BY DEF SaveFinished, Continues
  <1>3. next \in Document /\ CopyOf(next, room, InFlight)
    BY <1>2, Facts DEF TaskState, IInv, CopiesInv
  <1>. HIDE DEF next
  <1>4. messages \in Seq(Telling(next)) /\ \A m \in Range(messages) : ~Tells(m)
    <2>1. Note \in Telling(next) /\ ~Tells(Note)
      BY <1>3, MessagesTell DEF Note, Tells, ShowsView
    <2>2. CASE messages = <<>>
      BY <2>2 DEF Range
    <2>3. CASE messages = <<Note>>
      BY <2>1, <2>3 DEF Range
    <2>. QED BY <2>2, <2>3
  <1>5. Coherent(next) /\ Follows(room, next)
    <2>1. Over(room) /\ Over(next) /\ next.week = room.week /\ next.closed = room.closed
      BY <1>3 DEF CopyOf
    <2>2. View(next).over
      BY <1>3, <2>1, ViewTyped
    <2>3. room.week \in Int /\ room.closed \in Int
      BY Facts, Numbers DEF Document
    <2>. QED BY <2>1, <2>2, <2>3 DEF Coherent, Follows, Before
  <1>6. \A e \in InFlight : Old(e.msg) => e.seq <= next.seq
    BY <1>3 DEF CopyOf
  <1>. QED BY <1>1, <1>2, <1>3, <1>4, <1>5, <1>6, Facts, SameScreens, EndsKeeps

\* The submission's events leave in another order than their numbers'.
LEMMA SubmitOrderKeeps ==
    ASSUME IInv, NEW t \in Task, NEW p \in Player, SubmitOrder(t, p)
    PROVE  IInv'
  <1>. DEFINE next == [room EXCEPT !.decided = @ \cup {p}]
              messages == <<OrderSubmitted(next, p), YourState(next, p)>> \o HostRefresh(next)
              events == Numbered(next, messages)
              outbox == <<events[1]>> \o SubSeq(events, 3, Len(events)) \o <<events[2]>>
              new == [Idle EXCEPT !.then = "close", !.outbox = outbox]
  <1>1. /\ room' = After(next, messages)
        /\ tasks' = [tasks EXCEPT ![t] = new]
        /\ client' = client /\ calls' \in 0..MaxCalls
        /\ room.state = "running"
    BY StartCounts DEF SubmitOrder
  <1>2. /\ next \in Document /\ next.week = room.week /\ next.closed = room.closed
        /\ next.decided = room.decided \cup {p} /\ next.seq = room.seq /\ next.state = room.state
    BY Facts DEF Document
  <1>3. ~Over(room) /\ ~Over(next)
    BY <1>1, <1>2 DEF Over
  <1>. HIDE DEF next
  <1>4. Follows(room, next) /\ Coherent(next)
    BY <1>2, <1>3, Facts, FollowsItself DEF Coherent
  <1>5. messages \in Seq(Telling(next)) /\ Len(messages) \in Nat /\ Len(messages) >= 2
    <2>1. /\ OrderSubmitted(next, p) \in Telling(next)
          /\ YourState(next, p) \in Telling(next)
          /\ HostRefresh(next) \in Seq(Telling(next))
      BY <1>2, <1>3, MessagesTell, ListsTell
    <2>. QED BY <2>1
  <1>. HIDE DEF messages
  <1>6. /\ events \in Seq(Event) /\ Len(events) = Len(messages)
        /\ \A e \in Range(events) :
              /\ e.msg \in Telling(next)
              /\ next.seq < e.seq /\ e.seq <= next.seq + Len(messages)
    BY <1>2, <1>5, NumberedTyped
  <1>. HIDE DEF events
  <1>7. /\ room' \in Document
        /\ room'.seq = room.seq + Len(messages)
        /\ room'.week = next.week /\ room'.closed = next.closed
        /\ (Over(room') <=> Over(next))
        /\ View(room') = View(next) /\ Telling(room') = Telling(next) /\ Coherent(room')
    <2>1. room' = [next EXCEPT !.seq = @ + Len(messages)]
      BY <1>1 DEF After
    <2>. QED BY <1>2, <1>4, <1>5, <2>1, AfterTyped
  <1>8. outbox \in Seq(Event) /\ Range(outbox) \subseteq Range(events)
    <2>1. events \in Seq(Range(events)) /\ Range(events) \subseteq Event
      BY <1>6 DEF Range
    <2>2. events[1] \in Range(events) /\ events[2] \in Range(events)
      BY <1>5, <1>6 DEF Range
    <2>3. SubSeq(events, 3, Len(events)) \in Seq(Range(events))
      BY <1>5, <1>6, <2>1
    <2>4. outbox \in Seq(Range(events))
      BY <2>2, <2>3
    <2>. HIDE DEF outbox
    <2>. QED BY <2>1, <2>4 DEF Range
  <1>. HIDE DEF outbox
  <1>9. new \in TaskState /\ new.outbox = outbox /\ new.then = "close"
    BY <1>8, NoRoomTyped DEF Idle, TaskState
  <1>. HIDE DEF new
  <1>10. \A e \in Range(new.outbox) :
            /\ e.msg \in Telling(room')
            /\ room.seq < e.seq /\ e.seq <= room'.seq
    BY <1>2, <1>6, <1>7, <1>8, <1>9
  <1>11. \A e \in InFlight : Old(e.msg) => e.seq <= room'.seq
    <2>1. room.seq \in Nat /\ room.seq <= room'.seq
      BY <1>5, <1>7, Facts
    <2>2. \A e \in InFlight : e.seq \in Nat /\ (Old(e.msg) => e.seq <= room.seq)
      BY Facts DEF Ordered, Event
    <2>. QED BY <1>7, <2>1, <2>2 DEF Document
  <1>12. Follows(room, room')
    BY <1>4, <1>7 DEF Follows
  <1>. QED BY <1>1, <1>7, <1>9, <1>10, <1>11, <1>12, Facts, SameScreens, SectionKeeps

\* A number and a reply to one connection.
LEMMA ReplyTyped ==
    ASSUME IInv, NEW m \in Telling(room), NEW next, next = After(room, <<m>>)
    PROVE  /\ next \in Document /\ Coherent(next) /\ Follows(room, next)
           /\ next.seq = room.seq + 1
           /\ Telling(next) = Telling(room)
           /\ Numbered(room, <<m>>) = <<[seq |-> room.seq + 1, msg |-> m]>>
           /\ [seq |-> room.seq + 1, msg |-> m] \in Event
           /\ \A e \in InFlight : Old(e.msg) => e.seq <= next.seq
  <1>1. next = [room EXCEPT !.seq = @ + 1]
    BY DEF After
  <1>2. /\ next \in Document /\ next.seq = room.seq + 1
        /\ next.week = room.week /\ next.closed = room.closed /\ next.decided = room.decided
        /\ (Over(next) <=> Over(room))
        /\ Telling(next) = Telling(room) /\ Coherent(next)
    <2>1. room \in Document /\ Coherent(room) /\ 1 \in Nat
      BY Facts
    <2>. QED BY <1>1, <2>1, AfterTyped
  <1>3. Follows(room, next)
    BY <1>2, Facts, FollowsItself
  <1>4. Numbered(room, <<m>>) = <<[seq |-> room.seq + 1, msg |-> m]>>
    BY DEF Numbered
  <1>5. [seq |-> room.seq + 1, msg |-> m] \in Event
    BY Facts DEF Event, Telling
  <1>6. ASSUME NEW e \in InFlight, Old(e.msg)
        PROVE  e.seq <= next.seq
    <2>1. e.seq <= room.seq /\ e.seq \in Nat /\ room.seq \in Nat
      BY <1>6, Facts DEF Ordered, Event
    <2>. QED BY <1>2, <2>1
  <1>. QED BY <1>2, <1>3, <1>4, <1>5, <1>6

LEMMA AskedTyped ==
    ASSUME NEW c \in Client, NEW n \in Nat, NEW d, d = [c EXCEPT !.asked = n]
    PROVE  /\ d \in Client
           /\ d.view = c.view /\ d.seq = c.seq /\ d.records = c.records /\ d.gen = c.gen
  BY DEF Client

LEMMA RequestStateKeeps ==
    ASSUME IInv, NEW t \in Task, NEW x \in Person, RequestState(t, x)
    PROVE  IInv'
  <1>. DEFINE m == IF x = Host THEN HostState(room) ELSE YourFullState(room, x)
              e == [seq |-> room.seq + 1, msg |-> m]
              new == [Idle EXCEPT !.outbox = <<e>>]
  <1>1. m \in Telling(room)
    BY Facts, MessagesTell DEF Person
  <1>. HIDE DEF m
  <1>2. /\ room' = After(room, <<m>>)
        /\ tasks' = [tasks EXCEPT ![t] = [Idle EXCEPT !.outbox = Numbered(room, <<m>>)]]
        /\ client' = [client EXCEPT ![x].asked = room'.seq]
        /\ calls' \in 0..MaxCalls
    BY StartCounts DEF RequestState, Replied, m
  <1>3. /\ room' \in Document /\ Coherent(room') /\ Follows(room, room')
        /\ room'.seq = room.seq + 1
        /\ Telling(room') = Telling(room)
        /\ Numbered(room, <<m>>) = <<e>>
        /\ e \in Event
        /\ \A f \in InFlight : Old(f.msg) => f.seq <= room'.seq
    BY <1>1, <1>2, ReplyTyped
  <1>4. tasks' = [tasks EXCEPT ![t] = new]
    BY <1>2, <1>3
  <1>5. /\ e.msg = m /\ e.seq = room.seq + 1
    OBVIOUS
  <1>. HIDE DEF e
  <1>6. new \in TaskState /\ Range(new.outbox) = {e} /\ new.then = "idle"
    <2>1. <<e>> \in Seq(Event) /\ Range(<<e>>) = {e}
      BY <1>3 DEF Range
    <2>2. new = [then |-> "idle", outbox |-> <<e>>, copy |-> NoRoom]
      BY DEF Idle
    <2>. HIDE DEF new
    <2>. QED BY <2>1, <2>2, NoRoomTyped DEF TaskState
  <1>. HIDE DEF new
  <1>7. client' \in [Person -> Client] /\ Renewed(client, client')
    <2>1. room'.seq \in Nat
      BY <1>3 DEF Document
    <2>2. [client[x] EXCEPT !.asked = room'.seq] \in Client
      BY <2>1, Facts, AskedTyped
    <2>3. client' = [client EXCEPT ![x] = [client[x] EXCEPT !.asked = room'.seq]]
      BY <1>2, Facts
    <2>4. /\ [client[x] EXCEPT !.asked = room'.seq].view = client[x].view
          /\ [client[x] EXCEPT !.asked = room'.seq].seq = client[x].seq
          /\ [client[x] EXCEPT !.asked = room'.seq].records = client[x].records
      BY <2>1, Facts, AskedTyped
    <2>. QED BY <2>2, <2>3, <2>4, Facts DEF Renewed
  <1>8. \A f \in Range(new.outbox) :
            f.msg \in Telling(room') /\ room.seq < f.seq /\ f.seq <= room'.seq
    BY <1>1, <1>3, <1>5, <1>6, Facts
  <1>. QED BY <1>2, <1>3, <1>4, <1>6, <1>7, <1>8, SectionKeeps


LEMMA DeliveredTyped ==
    ASSUME NEW doc \in Document, NEW flight \in SUBSET Event, client \in [Person -> Client],
           Ordered(doc, flight, client), NEW e \in flight
    PROVE  /\ Delivered(e) \in [Person -> Client]
           /\ \A x \in Person : \/ Delivered(e)[x] = client[x]
                                \/ Delivered(e)[x] = Received(client[x], e)
  <1>1. ASSUME NEW x \in Person
        PROVE  Received(client[x], e) \in Client
    BY HeardOne
  <1>. QED BY <1>1 DEF Delivered

\* No screen of a connection goes back.
Onward ==
    \A x \in Person :
        client'[x].gen = client[x].gen => Before(client[x].view, client'[x].view)

LEMMA EmitKeeps ==
    ASSUME IInv, NEW t \in Task, Emit(t)
    PROVE  IInv' /\ Onward
  <1>. DEFINE task == tasks[t]
              new == IF Len(task.outbox) = 1 /\ task.then = "idle" THEN Idle
                     ELSE [task EXCEPT !.outbox = Tail(task.outbox)]
  <1>1. /\ tasks' = [tasks EXCEPT ![t] = new]
        /\ client' = Delivered(Head(task.outbox))
        /\ room' = room /\ calls' = calls
        /\ task.outbox # <<>>
    <2>1. tasks' = [tasks EXCEPT ![t] = new]
      BY DEF Emit
    <2>. QED BY <2>1 DEF Emit
  <1>2. task \in TaskState /\ task.outbox \in Seq(Event)
    BY Facts DEF TaskState
  <1>. HIDE DEF task
  <1>3. /\ Head(task.outbox) \in Range(task.outbox)
        /\ Tail(task.outbox) \in Seq(Event)
        /\ Range(Tail(task.outbox)) \subseteq Range(task.outbox)
    BY <1>1, <1>2 DEF Range
  <1>4. /\ new \in TaskState
        /\ Range(new.outbox) \subseteq Range(task.outbox)
        /\ new.then \in {"finish", "persist"} => new.then = task.then /\ new.copy = task.copy
    <2>1. CASE Len(task.outbox) = 1 /\ task.then = "idle"
      BY <2>1, NoRoomTyped DEF Idle, TaskState, Range
    <2>2. CASE ~(Len(task.outbox) = 1 /\ task.then = "idle")
      <3>1. new = [task EXCEPT !.outbox = Tail(task.outbox)]
        BY <2>2
      <3>2. /\ new \in TaskState /\ new.outbox = Tail(task.outbox)
            /\ new.then = task.then /\ new.copy = task.copy
        BY <1>2, <1>3, <3>1 DEF TaskState
      <3>. QED BY <1>3, <3>2
    <2>. QED BY <2>1, <2>2
  <1>. HIDE DEF new
  <1>5. Range(task.outbox) \subseteq InFlight /\ InFlight' \subseteq InFlight
    <2>1. Range(task.outbox) \subseteq InFlight
      BY Facts, FlightTyped DEF task
    <2>. QED BY <1>1, <1>4, <2>1, Facts, FlightGrows
  <1>6. /\ client' \in [Person -> Client]
        /\ \A x \in Person : \/ client'[x] = client[x]
                             \/ client'[x] = Received(client[x], Head(task.outbox))
    BY <1>1, <1>3, <1>5, Facts, DeliveredTyped
  <1>7. Ordered(room, InFlight, client)'
    <2>1. Ordered(room, InFlight, client')
      BY <1>3, <1>5, <1>6, Facts, Heard
    <2>. QED BY <1>1, <1>5, <2>1, Fewer
  <1>8. TypeInv'
    BY <1>1, <1>4, <1>6, Facts DEF TypeInv
  <1>9. CopiesInv'
    <2>1. ASSUME NEW u \in Task, tasks'[u].then \in {"finish", "persist"}
          PROVE  CopyOf(tasks'[u].copy, room', InFlight')
      <3>1. tasks'[u].then = tasks[u].then /\ tasks'[u].copy = tasks[u].copy
        BY <1>1, <1>4, <2>1, Facts DEF task
      <3>2. CopyOf(tasks[u].copy, room, InFlight)
        BY <2>1, <3>1 DEF IInv, CopiesInv
      <3>. QED BY <1>1, <1>5, <3>1, <3>2 DEF CopyOf
    <2>. QED BY <2>1 DEF CopiesInv
  <1>10. Onward
    <2>1. ASSUME NEW x \in Person
          PROVE  Before(client[x].view, client'[x].view)
      <3>1. CASE client'[x] = client[x]
        BY <3>1, Facts, BeforeItself DEF Client
      <3>2. CASE client'[x] = Received(client[x], Head(task.outbox))
        BY <1>3, <1>5, <3>2, Facts, HeardOne
      <3>. QED BY <1>6, <3>1, <3>2
    <2>. QED BY <2>1 DEF Onward
  <1>. QED BY <1>7, <1>8, <1>9, <1>10 DEF IInv

\* The state a stale submission is answered with leaves inside the section.
LEMMA SubmitStaleKeeps ==
    ASSUME IInv, NEW t \in Task, NEW p \in Player, SubmitStale(t, p)
    PROVE  IInv' /\ Onward
  <1>. DEFINE m == YourFullState(room, p)
              e == [seq |-> room.seq + 1, msg |-> m]
              heard == Delivered(e)
  <1>1. m \in Telling(room) /\ p \in Person
    BY Facts, MessagesTell DEF Person
  <1>. HIDE DEF m
  <1>2. /\ room' = [room EXCEPT !.seq = @ + 1]
        /\ client' = [Delivered(Numbered(room, <<m>>)[1])
                        EXCEPT ![p].asked = Numbered(room, <<m>>)[1].seq]
        /\ tasks' = tasks
        /\ calls' \in 0..MaxCalls
    BY StartCounts DEF SubmitStale, m
  <1>3. room' = After(room, <<m>>)
    BY <1>2 DEF After
  <1>4. /\ room' \in Document /\ Coherent(room') /\ Follows(room, room')
        /\ room'.seq = room.seq + 1
        /\ Telling(room') = Telling(room)
        /\ Numbered(room, <<m>>) = <<e>>
        /\ e \in Event
        /\ \A f \in InFlight : Old(f.msg) => f.seq <= room'.seq
    BY <1>1, <1>3, ReplyTyped
  <1>5. e.msg = m /\ e.seq = room.seq + 1 /\ e.seq \in Nat
    BY Facts
  <1>6. client' = [heard EXCEPT ![p].asked = e.seq]
    BY <1>2, <1>4
  <1>. HIDE DEF e
  <1>7. Ordered(room', InFlight \cup {e}, client)
    <2>1. room.seq < e.seq /\ e.seq <= room'.seq /\ e.msg \in Telling(room')
      BY <1>1, <1>4, <1>5, Facts
    <2>. QED BY <1>4, <2>1, Facts, Told
  <1>8. InFlight \cup {e} \in SUBSET Event
    BY <1>4, Facts
  <1>9. /\ heard \in [Person -> Client]
        /\ \A x \in Person : heard[x] = client[x] \/ heard[x] = Received(client[x], e)
    BY <1>4, <1>7, <1>8, Facts, DeliveredTyped
  <1>. HIDE DEF heard
  <1>10. Ordered(room', InFlight \cup {e}, heard)
    BY <1>4, <1>7, <1>8, <1>9, Facts, Heard
  <1>11. client' \in [Person -> Client] /\ Renewed(heard, client')
    <2>1. /\ [heard[p] EXCEPT !.asked = e.seq] \in Client
          /\ [heard[p] EXCEPT !.asked = e.seq].view = heard[p].view
          /\ [heard[p] EXCEPT !.asked = e.seq].seq = heard[p].seq
          /\ [heard[p] EXCEPT !.asked = e.seq].records = heard[p].records
      BY <1>1, <1>5, <1>9, AskedTyped
    <2>2. client' = [heard EXCEPT ![p] = [heard[p] EXCEPT !.asked = e.seq]]
      BY <1>6, <1>9
    <2>. QED BY <1>1, <1>9, <2>1, <2>2 DEF Renewed
  <1>12. Ordered(room, InFlight, client)'
    <2>1. Ordered(room', InFlight \cup {e}, client')
      BY <1>4, <1>8, <1>10, <1>11, Entered
    <2>2. InFlight' = InFlight
      BY <1>2 DEF InFlight
    <2>3. Ordered(room', InFlight, client')
      BY <2>1, Fewer
    <2>. QED BY <2>2, <2>3
  <1>13. TypeInv'
    BY <1>2, <1>4, <1>11, Facts DEF TypeInv
  <1>14. CopiesInv'
    <2>1. ASSUME NEW u \in Task, tasks'[u].then \in {"finish", "persist"}
          PROVE  CopyOf(tasks'[u].copy, room', InFlight')
      <3>1. CopyOf(tasks[u].copy, room, InFlight)
        BY <1>2, <2>1 DEF IInv, CopiesInv
      <3>. QED BY <1>2, <1>4, <3>1 DEF CopyOf, Follows, InFlight
    <2>. QED BY <2>1 DEF CopiesInv
  <1>15. Onward
    <2>1. ASSUME NEW x \in Person
          PROVE  Before(client[x].view, heard[x].view)
      <3>1. CASE heard[x] = client[x]
        BY <3>1, Facts, BeforeItself DEF Client
      <3>2. CASE heard[x] = Received(client[x], e)
        <4>. DEFINE flight == InFlight \cup {e}
        <4>1. /\ room' \in Document /\ client \in [Person -> Client]
              /\ flight \in SUBSET Event /\ Ordered(room', flight, client) /\ e \in flight
          BY <1>4, <1>7, <1>8, Facts
        <4>. HIDE DEF flight
        <4>2. PICK c : c = Received(client[x], e)
          OBVIOUS
        <4>3. Before(client[x].view, c.view)
          BY <4>1, <4>2, HeardOne, ZenonT(60)
        <4>. QED BY <3>2, <4>2, <4>3
      <3>. QED BY <1>9, <3>1, <3>2
    <2>2. \A x \in Person : client'[x].view = heard[x].view
      BY <1>6, <1>9, <1>1, AskedTyped, <1>5
    <2>. QED BY <2>1, <2>2 DEF Onward
  <1>. QED BY <1>12, <1>13, <1>14, <1>15 DEF IInv


LEMMA LoseKeeps ==
    ASSUME IInv, NEW x \in Person, Lose(x)
    PROVE  IInv'
  <1>1. /\ client' = [client EXCEPT ![x].on = FALSE]
        /\ room' = room /\ tasks' = tasks /\ calls' \in 0..MaxCalls
    BY Facts, Numbers DEF Lose
  <1>2. /\ [client[x] EXCEPT !.on = FALSE] \in Client
        /\ [client[x] EXCEPT !.on = FALSE].view = client[x].view
        /\ [client[x] EXCEPT !.on = FALSE].seq = client[x].seq
        /\ [client[x] EXCEPT !.on = FALSE].records = client[x].records
    <2>1. client[x] \in Client
      BY Facts
    <2>. QED BY <2>1 DEF Client
  <1>3. client' = [client EXCEPT ![x] = [client[x] EXCEPT !.on = FALSE]]
    BY <1>1, Facts
  <1>4. client' \in [Person -> Client] /\ Renewed(client, client')
    BY <1>2, <1>3, Facts DEF Renewed
  <1>5. InFlight' = InFlight
    BY <1>1 DEF InFlight
  <1>6. Ordered(room, InFlight, client)'
    BY <1>1, <1>4, <1>5, Facts, Entered
  <1>7. TypeInv'
    BY <1>1, <1>4, Facts DEF TypeInv
  <1>8. CopiesInv'
    BY <1>1, <1>5 DEF IInv, CopiesInv
  <1>. QED BY <1>6, <1>7, <1>8 DEF IInv

\* Who is seated says nothing of the game.
LEMMA SeatTyped ==
    ASSUME IInv, NEW x \in Person, NEW n \in 0..MaxJoins, NEW next,
           next = [room EXCEPT !.seat[x] = n]
    PROVE  /\ next \in Document /\ Coherent(next) /\ Follows(room, next)
           /\ next.seq = room.seq /\ next.state = room.state
           /\ next.week = room.week /\ next.closed = room.closed
           /\ next.decided = room.decided
           /\ Over(next) <=> Over(room)
  <1>1. [room.seat EXCEPT ![x] = n] \in [Person -> 0..MaxJoins]
    BY Facts
  <1>2. next = [room EXCEPT !.seat = [room.seat EXCEPT ![x] = n]]
    BY Facts DEF Document
  <1>3. /\ next \in Document
        /\ next.seq = room.seq /\ next.state = room.state
        /\ next.week = room.week /\ next.closed = room.closed
        /\ next.decided = room.decided
    <2>1. room \in Document
      BY Facts
    <2>. QED BY <1>1, <1>2, <2>1 DEF Document
  <1>4. Over(next) <=> Over(room)
    BY <1>3 DEF Over
  <1>5. Coherent(next) /\ Follows(room, next)
    BY <1>3, <1>4, Facts, FollowsItself DEF Coherent
  <1>. QED BY <1>3, <1>4, <1>5

LEMMA DisconnectKeeps ==
    ASSUME IInv, NEW t \in Task, NEW x \in Person, Disconnect(t, x)
    PROVE  IInv'
  <1>. DEFINE r == [room EXCEPT !.seat[x] = 0]
              paused == [r EXCEPT !.state = "paused"]
  <1>1. client' = client /\ calls' = calls
    BY DEF Disconnect
  <1>2. \/ Ends(t, r, <<>>, "idle")
        \/ Ends(t, r, <<Note>>, "idle")
        \/ /\ r.state = "running"
           /\ Ends(t, paused, <<Note, RoomState("paused")>>, "idle")
    <2>1. CASE x = Host
      BY <2>1 DEF Disconnect
    <2>2. CASE x # Host /\ r.state = "running"
      BY <2>2 DEF Disconnect
    <2>3. CASE x # Host /\ r.state # "running"
      BY <2>3 DEF Disconnect
    <2>. QED BY <2>1, <2>2, <2>3
  <1>3. /\ r \in Document /\ Coherent(r) /\ Follows(room, r)
        /\ r.seq = room.seq
        /\ r.week = room.week /\ r.closed = room.closed /\ r.decided = room.decided
        /\ Over(r) <=> Over(room)
    <2>1. 0 \in 0..MaxJoins
      BY Numbers
    <2>. HIDE DEF r
    <2>2. r = [room EXCEPT !.seat[x] = 0]
      BY DEF r
    <2>. QED BY <2>1, <2>2, SeatTyped
  <1>. HIDE DEF r
  <1>4. Note \in Telling(r) /\ <<>> \in Seq(Telling(r)) /\ <<Note>> \in Seq(Telling(r))
    <2>1. Note \in Telling(r)
      BY <1>3, MessagesTell
    <2>. QED BY <2>1
  <1>5. CASE Ends(t, r, <<>>, "idle") \/ Ends(t, r, <<Note>>, "idle")
    BY <1>1, <1>3, <1>4, <1>5, Facts, SameScreens, EndsKeeps
  <1>6. CASE r.state = "running" /\ Ends(t, paused, <<Note, RoomState("paused")>>, "idle")
    <2>1. /\ paused \in Document /\ paused.week = room.week /\ paused.closed = room.closed
          /\ paused.decided = room.decided /\ paused.seq = room.seq /\ paused.state = "paused"
      BY <1>3 DEF Document, RoomStates
    <2>2. ~Over(paused) /\ ~Over(room)
      BY <1>3, <1>6, <2>1 DEF Over
    <2>. HIDE DEF paused
    <2>3. Coherent(paused) /\ Follows(room, paused)
      BY <2>1, <2>2, Facts, FollowsItself DEF Coherent
    <2>4. <<Note, RoomState("paused")>> \in Seq(Telling(paused))
      <3>1. Note \in Telling(paused) /\ RoomState("paused") \in Telling(paused)
        BY <2>1, MessagesTell DEF RoomStates
      <3>. QED BY <3>1
    <2>. QED BY <1>1, <1>6, <2>1, <2>2, <2>3, <2>4, Facts, SameScreens, EndsKeeps
  <1>. QED BY <1>2, <1>5, <1>6

LEMMA EntersTyped ==
    ASSUME IInv, NEW x \in Person, client[x].gen < MaxJoins, room'.seq \in Nat,
           Enters(x, room'.seq)
    PROVE  client' \in [Person -> Client] /\ Renewed(client, client')
  <1>. DEFINE fresh == [Fresh(client[x].gen + 1) EXCEPT !.asked = room'.seq]
  <1>1. client' = [client EXCEPT ![x] = fresh]
    BY DEF Enters
  <1>2. client[x].gen + 1 \in 1..MaxJoins /\ client[x].gen \in Nat
    BY Facts, Numbers DEF Client
  <1>3. NoView \in ViewState /\ {} \subseteq 1..Weeks
    BY Numbers DEF NoView, ViewState
  <1>4. /\ Fresh(client[x].gen + 1) \in Client
        /\ Fresh(client[x].gen + 1).view = NoView
        /\ Fresh(client[x].gen + 1).records = {}
    <2>. DEFINE g == client[x].gen + 1
    <2>1. g \in 1..MaxJoins
      BY <1>2
    <2>. HIDE DEF g
    <2>2. Fresh(g) \in Client /\ Fresh(g).view = NoView /\ Fresh(g).records = {}
      BY <1>3, <2>1 DEF Fresh, Client
    <2>. QED BY <2>2 DEF g
  <1>5. fresh \in Client /\ fresh.view = NoView /\ fresh.records = {}
    BY <1>4, AskedTyped
  <1>. HIDE DEF fresh
  <1>. QED BY <1>1, <1>5, Facts DEF Renewed

LEMMA JoinKeeps ==
    ASSUME IInv, NEW t \in Task, NEW p \in Player, Join(t, p)
    PROVE  IInv'
  <1>. DEFINE r == [room EXCEPT !.seat[p] = client[p].gen + 1]
              started == [RoomState("running") EXCEPT !.to = To(r, p)]
              messages == <<RoomState(r.state), Note>>
                            \o (IF Over(r) THEN <<>> ELSE <<started>>)
                            \o <<YourFullState(r, p)>>
  <1>1. /\ Ends(t, r, messages, "idle")
        /\ client[p].gen < MaxJoins
        /\ Enters(p, room'.seq)
        /\ calls' \in 0..MaxCalls
    BY StartCounts DEF Join
  <1>2. p \in Person /\ client[p].gen + 1 \in 0..MaxJoins
    <2>1. p \in Person
      BY DEF Person
    <2>2. client[p].gen \in 1..MaxJoins
      BY <2>1, Facts DEF Client
    <2>. QED BY <1>1, <2>1, <2>2, Numbers
  <1>3. /\ r \in Document /\ Coherent(r) /\ Follows(room, r) /\ r.seq = room.seq
        /\ Over(r) <=> Over(room)
    <2>1. r = [room EXCEPT !.seat[p] = client[p].gen + 1]
      OBVIOUS
    <2>. HIDE DEF r
    <2>. QED BY <1>2, <2>1, SeatTyped
  <1>. HIDE DEF r
  <1>4. messages \in Seq(Telling(r)) /\ Len(messages) \in Nat
    <2>1. /\ RoomState(r.state) \in Telling(r) /\ Note \in Telling(r)
          /\ YourFullState(r, p) \in Telling(r) /\ started \in Telling(r)
      <3>1. r.state \in RoomStates /\ "running" \in RoomStates
        BY <1>3 DEF Document, RoomStates
      <3>. QED BY <1>2, <1>3, <3>1, MessagesTell
    <2>. HIDE DEF started
    <2>. QED BY <2>1
  <1>. HIDE DEF messages
  <1>5. room'.seq \in Nat
    BY <1>1, <1>3, <1>4 DEF Ends, After, Document
  <1>6. client' \in [Person -> Client] /\ Renewed(client, client')
    BY <1>1, <1>2, <1>5, EntersTyped
  <1>. QED BY <1>1, <1>3, <1>4, <1>6, EndsKeeps

LEMMA JoinWaitingKeeps ==
    ASSUME IInv, NEW t \in Task, JoinWaiting(t)
    PROVE  IInv'
  <1>. DEFINE r == [room EXCEPT !.seat[Host] = client[Host].gen + 1]
              config == [Note EXCEPT !.to = To(r, Host)]
              away == room.seat[Host] = 0 /\ ~Over(room)
              messages == <<RoomState(r.state), config>>
                            \o (IF away THEN <<Note>> ELSE <<>>) \o <<HostState(r)>>
  <1>1. /\ Ends(t, r, messages, "idle")
        /\ client[Host].gen < MaxJoins
        /\ Enters(Host, room'.seq)
        /\ calls' \in 0..MaxCalls
    BY StartCounts DEF JoinWaiting
  <1>2. Host \in Person /\ client[Host].gen + 1 \in 0..MaxJoins
    <2>1. Host \in Person
      BY DEF Person
    <2>2. client[Host].gen \in 1..MaxJoins
      BY <2>1, Facts DEF Client
    <2>. QED BY <1>1, <2>1, <2>2, Numbers
  <1>3. /\ r \in Document /\ Coherent(r) /\ Follows(room, r) /\ r.seq = room.seq
        /\ Over(r) <=> Over(room)
    <2>1. r = [room EXCEPT !.seat[Host] = client[Host].gen + 1]
      OBVIOUS
    <2>. HIDE DEF r
    <2>. QED BY <1>2, <2>1, SeatTyped
  <1>. HIDE DEF r
  <1>4. messages \in Seq(Telling(r)) /\ Len(messages) \in Nat
    <2>1. /\ RoomState(r.state) \in Telling(r) /\ Note \in Telling(r)
          /\ HostState(r) \in Telling(r) /\ config \in Telling(r)
      <3>1. r.state \in RoomStates
        BY <1>3 DEF Document
      <3>. QED BY <1>2, <1>3, <3>1, MessagesTell
    <2>. HIDE DEF config, away
    <2>. QED BY <2>1
  <1>. HIDE DEF messages
  <1>5. room'.seq \in Nat
    BY <1>1, <1>3, <1>4 DEF Ends, After, Document
  <1>6. client' \in [Person -> Client] /\ Renewed(client, client')
    BY <1>1, <1>2, <1>5, EntersTyped
  <1>. QED BY <1>1, <1>3, <1>4, <1>6, EndsKeeps


-------------------------------------------------------------------------------
(* Theorems.                                                                   *)

LEMMA InitInv ==
    ASSUME Init
    PROVE  IInv
  <1>1. PICK w \in 1..Weeks : room = Opened(w)
    BY DEF Init
  <1>2. room \in Document /\ Coherent(room) /\ ~Over(room) /\ View(room) \in ViewState
    BY <1>1, OpenedTyped, ViewTyped
  <1>3. /\ tasks = [t \in Task |-> Idle] /\ calls = 0
        /\ \A t \in Task : tasks[t].then = "idle" /\ tasks[t].outbox = <<>>
    BY DEF Init, Idle
  <1>4. Idle \in TaskState
    BY NoRoomTyped DEF Idle, TaskState
  <1>5. InFlight = {}
    BY <1>3 DEF InFlight, Range
  <1>. DEFINE shown(x) == [Fresh(1) EXCEPT !.view = View(room), !.shows = "running",
                                          !.records = IF x = Host THEN {} ELSE Closed(room)]
  <1>6. client = [x \in Person |-> shown(x)]
    BY DEF Init
  <1>7. ASSUME NEW x \in Person
        PROVE  /\ shown(x) \in Client
               /\ shown(x).view = View(room)
               /\ shown(x).records \subseteq Closed(room)
    <2>1. NoView \in ViewState /\ {} \subseteq 1..Weeks /\ 1 \in 1..MaxJoins
      BY Numbers DEF NoView, ViewState
    <2>2. Fresh(1) \in Client
      BY <2>1 DEF Fresh, Client
    <2>3. ASSUME NEW records \in SUBSET (1..Weeks), NEW c,
                 c = [Fresh(1) EXCEPT !.view = View(room), !.shows = "running",
                                      !.records = records]
          PROVE  c \in Client /\ c.view = View(room) /\ c.records = records
      BY <1>2, <2>2, <2>3 DEF Client, RoomStates
    <2>4. (IF x = Host THEN {} ELSE Closed(room)) \in SUBSET (1..Weeks)
      BY <1>2, ViewTyped
    <2>. QED BY <2>3, <2>4
  <1>. HIDE DEF shown
  <1>8. TypeInv
    BY <1>2, <1>3, <1>4, <1>6, <1>7, Numbers DEF TypeInv
  <1>9. Ordered(room, InFlight, client)
    <2>1. Before(View(room), View(room)) /\ View(room).week <= room.week
      BY <1>2, BeforeItself, ViewTyped, Numbers DEF Document
    <2>. QED BY <1>5, <1>6, <1>7, <2>1 DEF Ordered
  <1>10. CopiesInv
    BY <1>3 DEF CopiesInv
  <1>. QED BY <1>8, <1>9, <1>10 DEF IInv

\* One lemma for each action.
LEMMA NextKeeps == IInv /\ [Next]_vars => IInv'
  <1>. SUFFICES ASSUME IInv, [Next]_vars
                PROVE  IInv'
    OBVIOUS
  <1>1. CASE \E t \in Task : Emit(t) \/ FinishGame(t) \/ SaveFinished(t)
    BY <1>1, EmitKeeps, FinishGameKeeps, SaveFinishedKeeps
  <1>2. CASE \E t \in Task, p \in Player : SubmitOrder(t, p) \/ SubmitStale(t, p)
    BY <1>2, SubmitOrderKeeps, SubmitStaleKeeps
  <1>3. CASE \/ \E t \in Task, then \in {"close", "force", "drove", "resumed"} :
                   TryClose(t, then)
             \/ \E t \in Task, then \in {"drive", "resume"} : PlayBots(t, then)
    BY <1>3, TryCloseKeeps, PlayBotsKeeps
  <1>4. CASE \E t \in Task : \/ PauseGame(t) \/ ResumeGame(t) \/ BroadcastState(t)
                             \/ ForceCloseWeek(t) \/ EndGameEarly(t)
    BY <1>4, PauseGameKeeps, ResumeGameKeeps, BroadcastStateKeeps, ForceCloseWeekKeeps,
       EndGameEarlyKeeps
  <1>5. CASE \E t \in Task, x \in Person : RequestState(t, x) \/ Disconnect(t, x)
    BY <1>5, RequestStateKeeps, DisconnectKeeps
  <1>6. CASE \E x \in Person : Lose(x)
    BY <1>6, LoseKeeps
  <1>7. CASE \E t \in Task : JoinWaiting(t) \/ \E p \in Player : Join(t, p)
    BY <1>7, JoinKeeps, JoinWaitingKeeps
  <1>8. CASE \E t \in Task, p \in Player : SubstituteBot(t, p) \/ ReclaimSeat(t, p)
    BY <1>8, SubstituteBotKeeps, ReclaimSeatKeeps
  <1>9. CASE UNCHANGED vars
    BY <1>9 DEF vars, IInv, TypeInv, CopiesInv, InFlight
  <1>. QED BY <1>1, <1>2, <1>3, <1>4, <1>5, <1>6, <1>7, <1>8, <1>9 DEF Next

LEMMA Inductive == Spec => []IInv
  <1>1. Init => IInv
    BY InitInv
  <1>. QED BY <1>1, NextKeeps, PTL DEF Spec

\* The document, the calls and the clients are well typed, and no screen is ahead of
\* its room: it shows no week and no record the room does not have.
THEOREM TypeCorrect == Spec => []TypeOK
  <1>1. IInv => TypeOK
    <2>. SUFFICES ASSUME IInv
                  PROVE  TypeOK
      OBVIOUS
    <2>1. room \in Document /\ calls \in 0..MaxCalls
      BY Facts
    <2>2. ASSUME NEW x \in Person
          PROVE  /\ client[x] \in [gen : 1..MaxJoins, on : BOOLEAN, seq : Nat, view : ViewState,
                                   records : SUBSET Closed(room), bots : SUBSET Player,
                                   shows : RoomStates \cup {"lobby"}, finished : BOOLEAN,
                                   dropped : BOOLEAN, asked : Nat]
                 /\ client[x].view.week <= room.week
      <3>1. client[x] \in Client
        BY Facts
      <3>2. client[x].records \subseteq Closed(room) /\ client[x].view.week <= room.week
        BY Facts DEF Ordered
      <3>. QED BY <3>1, <3>2 DEF Client
    <2>. QED BY <2>1, <2>2 DEF TypeOK, Document
  <1>. QED BY <1>1, Inductive, PTL

\* Every step shows each connection a moment that is no earlier.
LEMMA StepsOnward ==
    ASSUME IInv, [Next]_vars
    PROVE  Onward
  <1>1. CASE client' = client
    BY <1>1, Facts, BeforeItself DEF Onward, Client
  <1>2. CASE \E t \in Task : Emit(t)
    BY <1>2, EmitKeeps
  <1>3. CASE \E t \in Task, p \in Player : SubmitStale(t, p)
    BY <1>3, SubmitStaleKeeps
  <1>4. ASSUME NEW t \in Task, NEW x \in Person, RequestState(t, x)
        PROVE  Onward
    <2>1. client' = [client EXCEPT ![x].asked = room'.seq]
      BY <1>4 DEF RequestState
    <2>2. \A y \in Person : client'[y].view = client[y].view
      BY <2>1, Facts DEF Client
    <2>. QED BY <2>2, Facts, BeforeItself DEF Onward, Client
  <1>5. ASSUME NEW x \in Person, Lose(x)
        PROVE  Onward
    <2>1. client' = [client EXCEPT ![x].on = FALSE]
      BY <1>5 DEF Lose
    <2>2. \A y \in Person : client'[y].view = client[y].view
      BY <2>1, Facts DEF Client
    <2>. QED BY <2>2, Facts, BeforeItself DEF Onward, Client
  <1>6. ASSUME NEW x \in Person, NEW n, Enters(x, n)
        PROVE  Onward
    <2>1. client' = [client EXCEPT ![x] = [Fresh(client[x].gen + 1) EXCEPT !.asked = n]]
      BY <1>6 DEF Enters
    <2>2. client'[x].gen = client[x].gen + 1 /\ client[x].gen \in Int
      <3>1. [Fresh(client[x].gen + 1) EXCEPT !.asked = n].gen = client[x].gen + 1
        BY DEF Fresh
      <3>. QED BY <2>1, <3>1, Facts, Numbers DEF Client
    <2>3. \A y \in Person : y # x => client'[y] = client[y]
      BY <2>1, Facts
    <2>. QED BY <2>2, <2>3, Facts, BeforeItself DEF Onward, Client
  <1>7. CASE \E t \in Task : JoinWaiting(t) \/ \E p \in Player : Join(t, p)
    BY <1>6, <1>7 DEF JoinWaiting, Join, Person
  <1>8. CASE \E t \in Task, x \in Person : RequestState(t, x)
    BY <1>4, <1>8
  <1>9. CASE \E x \in Person : Lose(x)
    BY <1>5, <1>9
  <1>10. CASE \/ \E t \in Task, p \in Player : SubmitOrder(t, p)
              \/ \E t \in Task, then \in {"close", "force", "drove", "resumed"} :
                    TryClose(t, then)
              \/ \E t \in Task, then \in {"drive", "resume"} : PlayBots(t, then)
              \/ \E t \in Task, p \in Player : SubstituteBot(t, p) \/ ReclaimSeat(t, p)
              \/ \E t \in Task, x \in Person : Disconnect(t, x)
              \/ \E t \in Task : \/ FinishGame(t) \/ SaveFinished(t) \/ PauseGame(t)
                                 \/ ResumeGame(t) \/ BroadcastState(t) \/ ForceCloseWeek(t)
                                 \/ EndGameEarly(t)
              \/ UNCHANGED vars
    <2>1. client' = client
      BY <1>10 DEF SubmitOrder, TryClose, PlayBots, SubstituteBot, ReclaimSeat, Disconnect,
         FinishGame, SaveFinished, PauseGame,
         ResumeGame, BroadcastState, ForceCloseWeek, EndGameEarly, HostCalls, vars
    <2>. QED BY <1>1, <2>1
  <1>. QED BY <1>2, <1>3, <1>7, <1>8, <1>9, <1>10 DEF Next

\* No screen goes back to an earlier moment of the game, in whatever order the events
\* of any number of overlapping calls reach it (play.py, broadcast_state).
THEOREM ScreensNeverGoBack == Spec => NeverBackwards
  <1>1. IInv /\ [Next]_vars =>
          [\A x \in Person : client'[x].gen = client[x].gen =>
             LET before == client[x].view
                 after == client'[x].view
             IN  \/ before.over /\ after.over
                 \/ ~before.over /\ after.over
                 \/ ~before.over /\ ~after.over /\
                       \/ after.week > before.week
                       \/ after.week = before.week /\ before.decided \subseteq after.decided]_vars
    <2>. SUFFICES ASSUME IInv, [Next]_vars, NEW x \in Person, client'[x].gen = client[x].gen
                  PROVE  \/ client[x].view.over /\ client'[x].view.over
                         \/ ~client[x].view.over /\ client'[x].view.over
                         \/ ~client[x].view.over /\ ~client'[x].view.over /\
                              \/ client'[x].view.week > client[x].view.week
                              \/ /\ client'[x].view.week = client[x].view.week
                                 /\ client[x].view.decided \subseteq client'[x].view.decided
      OBVIOUS
    <2>1. Before(client[x].view, client'[x].view)
      BY StepsOnward DEF Onward
    <2>. QED BY <2>1 DEF Before
  <1>. QED BY <1>1, Inductive, PTL DEF Spec, NeverBackwards

===============================================================================
