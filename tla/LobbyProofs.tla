----------------------------- MODULE LobbyProofs -----------------------------
(***************************************************************************)
(* Theorems about Lobby, for any number of seats, connections and people:  *)
(* seats, people and connections agree in every room.                      *)
(***************************************************************************)
EXTENDS Lobby, FiniteSetTheorems, TLAPS

-------------------------------------------------------------------------------
(* The inductive invariant, of a document: start_game deals before it decides. *)

Doc ==
    [state : {"LOBBY", "CONFIGURING", "STARTED"},
     participants : [Alias -> Participant],
     alias_of : [Sid -> Alias \cup {Nobody}],
     role_to_alias : [Role -> Alias \cup {Nobody}],
     host_sid : Sid \cup {NoHost},
     host_identity : Identity \cup {NoIdentity},
     mode : Mode,
     fill : BOOLEAN]

\* A seat is written twice and says the same.
SeatsIn(doc) ==
    \A r \in Role, a \in Alias :
        doc.role_to_alias[r] = a <=>
            doc.participants[a].here /\ doc.participants[a].role = r

\* People are in the room once; whoever has no identity is a bot, before the start
\* there is none, and an alias that is not in use holds nothing.
PeopleIn(doc) ==
    /\ \A a, b \in Alias :
          /\ doc.participants[a].here /\ doc.participants[b].here
          /\ doc.participants[a].identity = doc.participants[b].identity
          => a = b \/ doc.participants[a].identity = NoIdentity
    /\ \A a \in Alias : doc.participants[a].here =>
          (doc.participants[a].is_bot <=> doc.participants[a].identity = NoIdentity)
    /\ \A a \in Alias : ~doc.participants[a].here => doc.participants[a] = Absent
    /\ PreStart(doc) => \A a \in Alias : ~doc.participants[a].is_bot

\* A connection is mapped to its own person, one connection to each, and those are the
\* people who are connected.
MappedIn(doc) ==
    /\ \A s \in Sid : doc.alias_of[s] # Nobody =>
          /\ doc.participants[doc.alias_of[s]].here
          /\ doc.participants[doc.alias_of[s]].identity = IdentityOf[s]
          /\ doc.participants[doc.alias_of[s]].connected
    /\ \A s, t \in Sid : doc.alias_of[s] = doc.alias_of[t] => s = t \/ doc.alias_of[s] = Nobody
    /\ \A a \in Alias :
          doc.participants[a].connected /\ ~doc.participants[a].is_bot =>
              \E s \in Sid : doc.alias_of[s] = a

SeatedIn(doc) ==
    doc.state = "STARTED" =>
        /\ \A r \in Role : doc.role_to_alias[r] # Nobody
        /\ \A a \in Alias : doc.participants[a].here => doc.participants[a].role # Nobody

DocInv(doc) ==
    doc \in Doc /\ SeatsIn(doc) /\ PeopleIn(doc) /\ MappedIn(doc) /\ SeatedIn(doc)

\* A connection that has not joined, or was cleaned up and has not joined since, is
\* nobody's.
GoneInv ==
    /\ socket \in [Sid -> Socket]
    /\ \A s \in Sid : socket[s] \in {"new", "late"} =>
                            room.alias_of[s] = Nobody /\ room.host_sid # s

IInv == DocInv(room) /\ GoneInv

-------------------------------------------------------------------------------
(* Participants.                                                               *)

\* Whoever has joined is no longer nobody's.
LEMMA EnteredSomewhere ==
    ASSUME NEW s \in Sid, GoneInv, socket' = [socket EXCEPT ![s] = Entered(@)]
    PROVE  /\ socket' \in [Sid -> Socket]
           /\ socket'[s] \notin {"new", "late"}
           /\ \A t \in Sid : t # s => socket'[t] = socket[t]
  <1>1. \A state \in Socket : Entered(state) \in {"in", "lost", "ghost"}
    BY DEF Socket, Entered
  <1>. QED BY <1>1 DEF GoneInv, Socket

LEMMA Numbers ==
    /\ Seats \in Nat \ {0}
    /\ Nobody \notin Role
    /\ Nobody \notin Alias
    /\ Role \subseteq Nat
    /\ Alias \subseteq Nat
  BY SeatsAssumption DEF Nobody, Role, Alias

LEMMA AbsentTyped ==
    /\ Absent \in Participant
    /\ ~Absent.here
    /\ ~Absent.is_bot
    /\ ~Absent.connected
    /\ Absent.role = Nobody
  BY DEF Absent, Participant

LEMMA ConnectedTyped ==
    ASSUME NEW p \in Participant, NEW c \in BOOLEAN, NEW q, q = [p EXCEPT !.connected = c]
    PROVE  /\ q \in Participant
           /\ q.here = p.here
           /\ q.identity = p.identity
           /\ q.role = p.role
           /\ q.is_bot = p.is_bot
           /\ q.connected = c
  BY Zenon DEF Participant

LEMMA RoleTyped ==
    ASSUME NEW p \in Participant, NEW r \in Role \cup {Nobody}, NEW q, q = [p EXCEPT !.role = r]
    PROVE  /\ q \in Participant
           /\ q.here = p.here
           /\ q.identity = p.identity
           /\ q.role = r
           /\ q.is_bot = p.is_bot
           /\ q.connected = p.connected
  BY Zenon DEF Participant

\* The participant a new person becomes.
NewPerson(s) == [Absent EXCEPT !.here = TRUE, !.identity = IdentityOf[s], !.connected = TRUE]

LEMMA NewPersonTyped ==
    ASSUME NEW s \in Sid
    PROVE  /\ NewPerson(s) \in Participant
           /\ NewPerson(s).here
           /\ NewPerson(s).identity = IdentityOf[s]
           /\ NewPerson(s).role = Nobody
           /\ ~NewPerson(s).is_bot
           /\ NewPerson(s).connected
  BY DEF NewPerson, Absent, Participant, Identity

LEMMA BotTyped ==
    ASSUME NEW r \in Role
    PROVE  /\ BotFor(r) \in Participant
           /\ BotFor(r).here
           /\ BotFor(r).identity = NoIdentity
           /\ BotFor(r).role = r
           /\ BotFor(r).is_bot
           /\ BotFor(r).connected
  BY DEF BotFor, Participant

-------------------------------------------------------------------------------
(* What a handler that leaves a part of the document alone preserves.          *)

LEMMA SeatsKept ==
    ASSUME NEW d, NEW e, SeatsIn(d), e.role_to_alias = d.role_to_alias,
           \A a \in Alias : /\ e.participants[a].here = d.participants[a].here
                            /\ e.participants[a].role = d.participants[a].role
    PROVE  SeatsIn(e)
  BY DEF SeatsIn

LEMMA SeatedKept ==
    ASSUME NEW d, NEW e, SeatedIn(d), e.role_to_alias = d.role_to_alias, e.state = d.state,
           \A a \in Alias : /\ e.participants[a].here = d.participants[a].here
                            /\ e.participants[a].role = d.participants[a].role
    PROVE  SeatedIn(e)
  BY DEF SeatedIn

LEMMA PeopleKept ==
    ASSUME NEW d, NEW e, PeopleIn(d), e.state = d.state,
           \A a \in Alias : /\ e.participants[a].here = d.participants[a].here
                            /\ e.participants[a].identity = d.participants[a].identity
                            /\ e.participants[a].is_bot = d.participants[a].is_bot
                            /\ ~d.participants[a].here => e.participants[a] = d.participants[a]
    PROVE  PeopleIn(e)
  BY DEF PeopleIn, PreStart

LEMMA MappedKept ==
    ASSUME NEW d \in Doc, NEW e, MappedIn(d), e.alias_of = d.alias_of,
           \A a \in Alias : /\ e.participants[a].here = d.participants[a].here
                            /\ e.participants[a].identity = d.participants[a].identity
                            /\ e.participants[a].is_bot = d.participants[a].is_bot
                            /\ e.participants[a].connected = d.participants[a].connected
    PROVE  MappedIn(e)
  <1>1. d.alias_of \in [Sid -> Alias \cup {Nobody}]
    BY DEF Doc
  <1>2. ASSUME NEW s \in Sid, d.alias_of[s] # Nobody
        PROVE  /\ e.participants[d.alias_of[s]].here
               /\ e.participants[d.alias_of[s]].identity = IdentityOf[s]
               /\ e.participants[d.alias_of[s]].connected
    <2>1. PICK a \in Alias : a = d.alias_of[s]
      BY <1>1, <1>2
    <2>2. /\ d.participants[a].here
          /\ d.participants[a].identity = IdentityOf[s]
          /\ d.participants[a].connected
      BY <1>2, <2>1 DEF MappedIn
    <2>. QED BY <2>1, <2>2
  <1>. QED BY <1>2 DEF MappedIn

\* Before the start nobody need be seated.
LEMMA NotStarted ==
    ASSUME NEW e, PreStart(e)
    PROVE  SeatedIn(e)
  BY DEF PreStart, SeatedIn

-------------------------------------------------------------------------------
(* Connections.                                                                *)

LEMMA DisconnectKeeps ==
    ASSUME IInv, NEW s \in Sid, Disconnect(s)
    PROVE  IInv'
  <1>. USE Numbers, NoHostAssumption
  <1>1. DocInv(room) /\ room \in Doc /\ GoneInv
    BY DEF IInv, DocInv
  <1>2. PICK a : a = room.alias_of[s]
    OBVIOUS
  <1>3. a \in Alias \cup {Nobody}
    BY <1>1, <1>2 DEF Doc
  <1>4. /\ room'.participants =
              [p \in Alias |-> IF p = a /\ room.participants[p].here
                              THEN [room.participants[p] EXCEPT !.connected = FALSE]
                              ELSE room.participants[p]]
        /\ room'.alias_of = [room.alias_of EXCEPT ![s] = Nobody]
        /\ room'.host_sid = IF room.host_sid = s THEN NoHost ELSE room.host_sid
        /\ room'.role_to_alias = room.role_to_alias
        /\ room'.state = room.state
    BY <1>1, <1>2 DEF Disconnect, Doc, HostAfter
  <1>5. /\ room.participants \in [Alias -> Participant]
        /\ room.alias_of \in [Sid -> Alias \cup {Nobody}]
        /\ room.host_sid \in Sid \cup {NoHost}
    BY <1>1 DEF Doc
  <1>6. ASSUME NEW p \in Alias
        PROVE  /\ room'.participants[p] \in Participant
               /\ room'.participants[p].here = room.participants[p].here
               /\ room'.participants[p].identity = room.participants[p].identity
               /\ room'.participants[p].role = room.participants[p].role
               /\ room'.participants[p].is_bot = room.participants[p].is_bot
               /\ p # a => room'.participants[p] = room.participants[p]
               /\ p = a /\ room.participants[p].here => ~room'.participants[p].connected
               /\ ~room.participants[p].here => room'.participants[p] = room.participants[p]
    <2>1. room.participants[p] \in Participant
      BY <1>5
    <2>2. CASE p = a /\ room.participants[p].here
      <3>1. room'.participants[p] = [room.participants[p] EXCEPT !.connected = FALSE]
        BY <1>4, <2>2
      <3>. QED BY <2>1, <2>2, <3>1, ConnectedTyped, ZenonT(30)
    <2>3. CASE ~(p = a /\ room.participants[p].here)
      <3>1. room'.participants[p] = room.participants[p]
        BY <1>4, <2>3
      <3>. QED BY <2>1, <2>3, <3>1
    <2>. QED BY <2>2, <2>3
  <1>7. room' \in Doc
    <2>1. room'.participants \in [Alias -> Participant]
      BY <1>4, <1>6
    <2>2. room'.alias_of \in [Sid -> Alias \cup {Nobody}]
      BY <1>4, <1>5
    <2>3. room' = [room EXCEPT !.participants = room'.participants,
                               !.alias_of = room'.alias_of,
                               !.host_sid = room'.host_sid]
      BY <1>1 DEF Disconnect, Doc
    <2>. QED BY <1>1, <1>4, <1>5, <2>1, <2>2, <2>3 DEF Doc
  <1>8. SeatsIn(room')
    BY <1>1, <1>4, <1>6, SeatsKept DEF DocInv
  <1>9. SeatedIn(room')
    BY <1>1, <1>4, <1>6, SeatedKept DEF DocInv
  <1>10. PeopleIn(room')
    BY <1>1, <1>4, <1>6 DEF DocInv, PeopleIn, PreStart
  <1>11. MappedIn(room')
    <2>1. ASSUME NEW t \in Sid
          PROVE  room'.alias_of[t] = IF t = s THEN Nobody ELSE room.alias_of[t]
      BY <1>4, <1>5
    <2>2. ASSUME NEW t \in Sid, room'.alias_of[t] # Nobody
          PROVE  /\ room'.participants[room'.alias_of[t]].here
                 /\ room'.participants[room'.alias_of[t]].identity = IdentityOf[t]
                 /\ room'.participants[room'.alias_of[t]].connected
      <3>1. t # s /\ room'.alias_of[t] = room.alias_of[t] /\ room.alias_of[t] \in Alias
        BY <1>5, <2>1, <2>2
      <3>2. room.alias_of[t] # a
        BY <1>1, <1>2, <3>1 DEF DocInv, MappedIn
      <3>3. PICK p \in Alias : p = room.alias_of[t]
        BY <3>1
      <3>4. /\ room.participants[p].here
            /\ room.participants[p].identity = IdentityOf[t]
            /\ room.participants[p].connected
        BY <1>1, <3>1, <3>3 DEF DocInv, MappedIn
      <3>5. room'.participants[p] = room.participants[p]
        BY <1>6, <3>2, <3>3
      <3>6. room'.alias_of[t] = p
        BY <3>1, <3>3
      <3>. QED BY <3>4, <3>5, <3>6
    <2>3. ASSUME NEW t \in Sid, NEW u \in Sid, room'.alias_of[t] = room'.alias_of[u]
          PROVE  t = u \/ room'.alias_of[t] = Nobody
      BY <1>1, <2>1, <2>3 DEF DocInv, MappedIn
    <2>4. ASSUME NEW p \in Alias, room'.participants[p].connected, ~room'.participants[p].is_bot
          PROVE  \E t \in Sid : room'.alias_of[t] = p
      <3>1. room.participants[p].here
        <4>1. ASSUME ~room.participants[p].here
              PROVE  FALSE
          <5>1. room'.participants[p] = Absent
            BY <1>1, <1>6, <4>1 DEF DocInv, PeopleIn
          <5>. QED BY <2>4, <5>1, AbsentTyped
        <4>. QED BY <4>1
      <3>2. p # a
        BY <1>6, <2>4, <3>1
      <3>3. PICK t \in Sid : room.alias_of[t] = p
        BY <1>1, <1>6, <2>4, <3>2 DEF DocInv, MappedIn
      <3>. QED BY <1>2, <2>1, <3>2, <3>3
    <2>. QED BY <2>2, <2>3, <2>4 DEF MappedIn
  <1>12. GoneInv'
    <2>1. /\ socket' \in [Sid -> Socket]
          /\ \A t \in Sid : t # s => socket'[t] = socket[t]
      BY <1>1 DEF GoneInv, Disconnect, Socket
    <2>. QED BY <1>1, <1>4, <1>5, <2>1 DEF GoneInv
  <1>. QED BY <1>7, <1>8, <1>9, <1>10, <1>11, <1>12 DEF IInv, DocInv

LEMMA JoinWaitingKeeps ==
    ASSUME IInv, NEW s \in Sid, JoinWaiting(s)
    PROVE  IInv'
  <1>1. DocInv(room) /\ room \in Doc /\ GoneInv
    BY DEF IInv, DocInv
  <1>2. /\ room'.participants = room.participants
        /\ room'.alias_of = room.alias_of
        /\ room'.role_to_alias = room.role_to_alias
        /\ room'.state = room.state
        /\ room'.host_sid = s
    BY <1>1 DEF JoinWaiting, Doc
  <1>3. room' \in Doc
    <2>1. KnownIdentity(s) \in Identity \cup {NoIdentity}
      BY DEF KnownIdentity, Identity
    <2>. QED BY <1>1, <2>1 DEF JoinWaiting, Doc
  <1>4. SeatsIn(room') /\ PeopleIn(room') /\ MappedIn(room') /\ SeatedIn(room')
    BY <1>1, <1>2 DEF DocInv, SeatsIn, PeopleIn, MappedIn, SeatedIn, PreStart
  <1>5. GoneInv'
    <2>1. /\ socket' \in [Sid -> Socket]
          /\ socket'[s] \notin {"new", "late"}
          /\ \A t \in Sid : t # s => socket'[t] = socket[t]
      BY <1>1, EnteredSomewhere DEF JoinWaiting
    <2>. QED BY <1>1, <1>2, <2>1 DEF GoneInv
  <1>. QED BY <1>3, <1>4, <1>5 DEF IInv, DocInv

\* A returning person's alias is the one an earlier connection of theirs is mapped to.
LEMMA JoinAgainKeeps ==
    ASSUME IInv, NEW s \in Sid, JoinAgain(s)
    PROVE  IInv'
  <1>. USE Numbers
  <1>1. DocInv(room) /\ room \in Doc /\ GoneInv
    BY DEF IInv, DocInv
  <1>2. PICK a \in KnownAs(room, IdentityOf[s]) :
           room' = [room EXCEPT !.alias_of = MapTo(room, s, a),
                                !.participants[a].connected = TRUE]
    BY DEF JoinAgain
  <1>3. /\ a \in Alias
        /\ room.participants[a].here
        /\ room.participants[a].identity = IdentityOf[s]
        /\ IdentityOf[s] # NoIdentity
    BY IdentityAssumption DEF KnownAs, Present
  <1>4. /\ room.participants \in [Alias -> Participant]
        /\ room.alias_of \in [Sid -> Alias \cup {Nobody}]
    BY <1>1 DEF Doc
  <1>5. /\ room'.participants =
              [room.participants EXCEPT ![a] = [room.participants[a] EXCEPT !.connected = TRUE]]
        /\ room'.alias_of = MapTo(room, s, a)
        /\ room'.role_to_alias = room.role_to_alias
        /\ room'.host_sid = room.host_sid
        /\ room'.state = room.state
    BY <1>1, <1>2 DEF Doc
  <1>6. ASSUME NEW p \in Alias
        PROVE  /\ room'.participants[p] \in Participant
               /\ room'.participants[p].here = room.participants[p].here
               /\ room'.participants[p].identity = room.participants[p].identity
               /\ room'.participants[p].role = room.participants[p].role
               /\ room'.participants[p].is_bot = room.participants[p].is_bot
               /\ p # a => room'.participants[p] = room.participants[p]
               /\ p = a => room'.participants[p].connected
    <2>1. room.participants[p] \in Participant
      BY <1>4
    <2>2. CASE p = a
      <3>1. room'.participants[p] = [room.participants[p] EXCEPT !.connected = TRUE]
        BY <1>4, <1>5, <2>2
      <3>2. /\ room'.participants[p] \in Participant
            /\ room'.participants[p].here = room.participants[p].here
            /\ room'.participants[p].identity = room.participants[p].identity
            /\ room'.participants[p].role = room.participants[p].role
            /\ room'.participants[p].is_bot = room.participants[p].is_bot
            /\ room'.participants[p].connected = TRUE
        BY <2>1, <3>1, ConnectedTyped, Zenon
      <3>. QED BY <2>2, <3>2
    <2>3. CASE p # a
      <3>1. room'.participants[p] = room.participants[p]
        BY <1>4, <1>5, <2>3
      <3>. QED BY <2>1, <2>3, <3>1
    <2>. QED BY <2>2, <2>3
  <1>7. ASSUME NEW t \in Sid
        PROVE  room'.alias_of[t] = IF t = s THEN a
                                   ELSE IF room.alias_of[t] = a THEN Nobody ELSE room.alias_of[t]
    BY <1>5 DEF MapTo
  <1>8. room' \in Doc
    <2>1. room'.participants \in [Alias -> Participant]
      BY <1>4, <1>5, <1>6
    <2>2. room'.alias_of \in [Sid -> Alias \cup {Nobody}]
      BY <1>3, <1>4, <1>5 DEF MapTo
    <2>3. room' = [room EXCEPT !.alias_of = room'.alias_of, !.participants = room'.participants]
      BY <1>1, <1>2 DEF Doc
    <2>. QED BY <1>1, <2>1, <2>2, <2>3 DEF Doc
  <1>9. SeatsIn(room')
    BY <1>1, <1>5, <1>6, SeatsKept DEF DocInv
  <1>10. SeatedIn(room')
    BY <1>1, <1>5, <1>6, SeatedKept DEF DocInv
  <1>11. PeopleIn(room')
    BY <1>1, <1>3, <1>5, <1>6 DEF DocInv, PeopleIn, PreStart
  <1>12. room.alias_of[s] \in {a, Nobody}
    <2>1. ASSUME NEW b \in Alias, room.alias_of[s] = b
          PROVE  b = a
      <3>1. room.participants[b].here /\ room.participants[b].identity = IdentityOf[s]
        BY <1>1, <2>1 DEF DocInv, MappedIn
      <3>. QED BY <1>1, <1>3, <3>1 DEF DocInv, PeopleIn
    <2>. QED BY <1>4, <2>1
  <1>13. MappedIn(room')
    <2>1. ASSUME NEW t \in Sid, room'.alias_of[t] # Nobody
          PROVE  /\ room'.participants[room'.alias_of[t]].here
                 /\ room'.participants[room'.alias_of[t]].identity = IdentityOf[t]
                 /\ room'.participants[room'.alias_of[t]].connected
      <3>1. CASE t = s
        BY <1>3, <1>6, <1>7, <3>1
      <3>2. CASE t # s
        <4>1. room'.alias_of[t] = room.alias_of[t] /\ room.alias_of[t] # a
          BY <1>7, <2>1, <3>2
        <4>2. PICK p \in Alias : p = room.alias_of[t]
          BY <1>4, <2>1, <4>1
        <4>3. /\ room.participants[p].here
              /\ room.participants[p].identity = IdentityOf[t]
              /\ room.participants[p].connected
          BY <1>1, <2>1, <4>1, <4>2 DEF DocInv, MappedIn
        <4>4. room'.participants[p] = room.participants[p] /\ room'.alias_of[t] = p
          BY <1>6, <4>1, <4>2
        <4>. QED BY <4>3, <4>4
      <3>. QED BY <3>1, <3>2
    <2>2. ASSUME NEW t \in Sid, NEW u \in Sid, room'.alias_of[t] = room'.alias_of[u]
          PROVE  t = u \/ room'.alias_of[t] = Nobody
      BY <1>1, <1>7, <2>2 DEF DocInv, MappedIn
    <2>3. ASSUME NEW p \in Alias, room'.participants[p].connected, ~room'.participants[p].is_bot
          PROVE  \E t \in Sid : room'.alias_of[t] = p
      <3>1. CASE p = a
        BY <1>7, <3>1
      <3>2. CASE p # a
        <4>1. PICK t \in Sid : room.alias_of[t] = p
          BY <1>1, <1>6, <2>3, <3>2 DEF DocInv, MappedIn
        <4>2. t # s
          BY <1>12, <3>2, <4>1
        <4>. QED BY <1>7, <3>2, <4>1, <4>2
      <3>. QED BY <3>1, <3>2
    <2>. QED BY <2>1, <2>2, <2>3 DEF MappedIn
  <1>14. GoneInv'
    <2>1. /\ socket' \in [Sid -> Socket]
          /\ socket'[s] \notin {"new", "late"}
          /\ \A t \in Sid : t # s => socket'[t] = socket[t]
      BY <1>1, EnteredSomewhere DEF JoinAgain
    <2>2. ASSUME NEW t \in Sid, t # s, room.alias_of[t] = Nobody
          PROVE  room'.alias_of[t] = Nobody
      BY <1>7, <2>2
    <2>. QED BY <1>1, <1>5, <2>1, <2>2 DEF GoneInv
  <1>. QED BY <1>8, <1>9, <1>10, <1>11, <1>13, <1>14 DEF IInv, DocInv

\* A new person's connection was mapped to nobody, and the alias is nobody's.
LEMMA JoinNewKeeps ==
    ASSUME IInv, NEW s \in Sid, JoinNew(s)
    PROVE  IInv'
  <1>. USE Numbers
  <1>1. DocInv(room) /\ room \in Doc /\ GoneInv
    BY DEF IInv, DocInv
  <1>2. PICK a \in NextFreeAlias(room) :
           room' = [room EXCEPT !.participants[a] = NewPerson(s), !.alias_of[s] = a]
    BY DEF JoinNew, NewPerson
  <1>3. a \in Alias /\ ~room.participants[a].here
    BY DEF NextFreeAlias, Present
  <1>4. /\ room.participants \in [Alias -> Participant]
        /\ room.alias_of \in [Sid -> Alias \cup {Nobody}]
        /\ IdentityOf[s] # NoIdentity
    BY <1>1, IdentityAssumption DEF Doc
  <1>5. /\ room'.participants = [room.participants EXCEPT ![a] = NewPerson(s)]
        /\ room'.alias_of = [room.alias_of EXCEPT ![s] = a]
        /\ room'.role_to_alias = room.role_to_alias
        /\ room'.host_sid = room.host_sid
        /\ room'.state = room.state
    BY <1>1, <1>2 DEF Doc
  <1>6. ASSUME NEW p \in Alias
        PROVE  room'.participants[p] = IF p = a THEN NewPerson(s) ELSE room.participants[p]
    BY <1>4, <1>5
  <1>7. ASSUME NEW t \in Sid
        PROVE  room'.alias_of[t] = IF t = s THEN a ELSE room.alias_of[t]
    BY <1>4, <1>5
  <1>8. room' \in Doc
    <2>1. room'.participants \in [Alias -> Participant]
      BY <1>3, <1>4, <1>5, NewPersonTyped
    <2>2. room'.alias_of \in [Sid -> Alias \cup {Nobody}]
      BY <1>3, <1>4, <1>5
    <2>3. room' = [room EXCEPT !.participants = room'.participants, !.alias_of = room'.alias_of]
      BY <1>1, <1>2 DEF Doc
    <2>. QED BY <1>1, <2>1, <2>2, <2>3 DEF Doc
  <1>9. ASSUME NEW p \in Alias, room.participants[p].here
        PROVE  p # a /\ room.participants[p].identity # IdentityOf[s]
    BY <1>3, <1>9 DEF JoinNew, KnownAs, Present
  <1>10. PreStart(room')
    BY <1>5 DEF JoinNew, PreStart
  <1>11. SeatsIn(room')
    <2>1. ASSUME NEW r \in Role, NEW p \in Alias
          PROVE  room'.role_to_alias[r] = p <=>
                     room'.participants[p].here /\ room'.participants[p].role = r
      <3>1. CASE p = a
        <4>1. room.role_to_alias[r] # a
          BY <1>1, <1>3 DEF DocInv, SeatsIn
        <4>. QED BY <1>5, <1>6, <3>1, <4>1, NewPersonTyped
      <3>2. CASE p # a
        BY <1>1, <1>5, <1>6, <3>2 DEF DocInv, SeatsIn
      <3>. QED BY <3>1, <3>2
    <2>. QED BY <2>1 DEF SeatsIn
  <1>12. PeopleIn(room')
    <2>1. ASSUME NEW p \in Alias, NEW q \in Alias,
                 room'.participants[p].here, room'.participants[q].here,
                 room'.participants[p].identity = room'.participants[q].identity
          PROVE  p = q \/ room'.participants[p].identity = NoIdentity
      <3>1. CASE p = a \/ q = a
        BY <1>6, <1>9, <2>1, <3>1, NewPersonTyped
      <3>2. CASE p # a /\ q # a
        BY <1>1, <1>6, <2>1, <3>2 DEF DocInv, PeopleIn
      <3>. QED BY <3>1, <3>2
    <2>2. ASSUME NEW p \in Alias
          PROVE  /\ room'.participants[p].here =>
                       (room'.participants[p].is_bot <=>
                          room'.participants[p].identity = NoIdentity)
                 /\ ~room'.participants[p].here => room'.participants[p] = Absent
                 /\ ~room'.participants[p].is_bot
      <3>1. CASE p = a
        BY <1>4, <1>6, <3>1, NewPersonTyped
      <3>2. CASE p # a
        BY <1>1, <1>6, <3>2 DEF DocInv, PeopleIn, JoinNew
      <3>. QED BY <3>1, <3>2
    <2>. QED BY <2>1, <2>2 DEF PeopleIn
  <1>13. room.alias_of[s] = Nobody
    <2>1. ASSUME room.alias_of[s] # Nobody
          PROVE  FALSE
      <3>1. PICK p \in Alias : p = room.alias_of[s]
        BY <1>4, <2>1
      <3>2. room.participants[p].here /\ room.participants[p].identity = IdentityOf[s]
        BY <1>1, <2>1, <3>1 DEF DocInv, MappedIn
      <3>. QED BY <1>9, <3>2
    <2>. QED BY <2>1
  <1>14. ASSUME NEW t \in Sid
         PROVE  room.alias_of[t] # a
    BY <1>1, <1>3 DEF DocInv, MappedIn
  <1>15. MappedIn(room')
    <2>1. ASSUME NEW t \in Sid, room'.alias_of[t] # Nobody
          PROVE  /\ room'.participants[room'.alias_of[t]].here
                 /\ room'.participants[room'.alias_of[t]].identity = IdentityOf[t]
                 /\ room'.participants[room'.alias_of[t]].connected
      <3>1. CASE t = s
        BY <1>3, <1>6, <1>7, <3>1, NewPersonTyped
      <3>2. CASE t # s
        <4>1. room'.alias_of[t] = room.alias_of[t]
          BY <1>7, <3>2
        <4>2. PICK p \in Alias : p = room.alias_of[t]
          BY <1>4, <2>1, <4>1
        <4>3. /\ room.participants[p].here
              /\ room.participants[p].identity = IdentityOf[t]
              /\ room.participants[p].connected
          BY <1>1, <2>1, <4>1, <4>2 DEF DocInv, MappedIn
        <4>4. room'.participants[p] = room.participants[p] /\ room'.alias_of[t] = p
          BY <1>6, <1>14, <4>1, <4>2
        <4>. QED BY <4>3, <4>4
      <3>. QED BY <3>1, <3>2
    <2>2. ASSUME NEW t \in Sid, NEW u \in Sid, room'.alias_of[t] = room'.alias_of[u]
          PROVE  t = u \/ room'.alias_of[t] = Nobody
      BY <1>1, <1>7, <1>14, <2>2 DEF DocInv, MappedIn
    <2>3. ASSUME NEW p \in Alias, room'.participants[p].connected, ~room'.participants[p].is_bot
          PROVE  \E t \in Sid : room'.alias_of[t] = p
      <3>1. CASE p = a
        BY <1>7, <3>1
      <3>2. CASE p # a
        <4>1. PICK t \in Sid : room.alias_of[t] = p
          BY <1>1, <1>6, <2>3, <3>2 DEF DocInv, MappedIn
        <4>. QED BY <1>7, <1>13, <4>1
      <3>. QED BY <3>1, <3>2
    <2>. QED BY <2>1, <2>2, <2>3 DEF MappedIn
  <1>16. GoneInv'
    <2>1. /\ socket' \in [Sid -> Socket]
          /\ socket'[s] \notin {"new", "late"}
          /\ \A t \in Sid : t # s => socket'[t] = socket[t]
      BY <1>1, EnteredSomewhere DEF JoinNew
    <2>2. ASSUME NEW t \in Sid, t # s, room.alias_of[t] = Nobody
          PROVE  room'.alias_of[t] = Nobody
      BY <1>7, <2>2
    <2>. QED BY <1>1, <1>5, <2>1, <2>2 DEF GoneInv
  <1>. QED BY <1>8, <1>10, <1>11, <1>12, <1>15, <1>16, NotStarted DEF IInv, DocInv

-------------------------------------------------------------------------------
(* Roles.                                                                      *)

\* The seats after a move: the alias gives up the seat it had, which SeatsIn says is
\* the only one.
LEMMA MovedKeeps ==
    ASSUME NEW d, DocInv(d), PreStart(d), NEW a \in Alias, d.participants[a].here,
           NEW r \in Role \cup {Nobody}, r # Nobody => FreeFor(d, r, a),
           NEW e, e = Moved(d, a, r)
    PROVE  DocInv(e) /\ e.alias_of = d.alias_of /\ e.host_sid = d.host_sid
  <1>. USE Numbers
  <1>1. d \in Doc
    BY DEF DocInv
  <1>2. /\ d.participants \in [Alias -> Participant]
        /\ d.role_to_alias \in [Role -> Alias \cup {Nobody}]
    BY <1>1 DEF Doc
  <1>3. /\ e.participants =
              [d.participants EXCEPT ![a] = [d.participants[a] EXCEPT !.role = r]]
        /\ e.role_to_alias =
              [q \in Role |-> IF q = r THEN a
                             ELSE IF q = d.participants[a].role /\ d.role_to_alias[q] = a
                                  THEN Nobody ELSE d.role_to_alias[q]]
        /\ e.alias_of = d.alias_of
        /\ e.host_sid = d.host_sid
        /\ e.state = d.state
    BY <1>1 DEF Moved, Vacated, Doc
  <1>4. ASSUME NEW p \in Alias
        PROVE  /\ e.participants[p] \in Participant
               /\ e.participants[p].here = d.participants[p].here
               /\ e.participants[p].identity = d.participants[p].identity
               /\ e.participants[p].is_bot = d.participants[p].is_bot
               /\ e.participants[p].connected = d.participants[p].connected
               /\ e.participants[p].role = IF p = a THEN r ELSE d.participants[p].role
               /\ p # a => e.participants[p] = d.participants[p]
    <2>1. d.participants[p] \in Participant
      BY <1>2
    <2>2. CASE p = a
      <3>1. e.participants[p] = [d.participants[p] EXCEPT !.role = r]
        BY <1>2, <1>3, <2>2
      <3>. QED BY <2>1, <2>2, <3>1, RoleTyped
    <2>3. CASE p # a
      <3>1. e.participants[p] = d.participants[p]
        BY <1>2, <1>3, <2>3
      <3>. QED BY <2>1, <2>3, <3>1
    <2>. QED BY <2>2, <2>3
  <1>5. e \in Doc
    <2>1. e.participants \in [Alias -> Participant]
      BY <1>2, <1>3, <1>4
    <2>2. e.role_to_alias \in [Role -> Alias \cup {Nobody}]
      BY <1>2, <1>3
    <2>3. e = [d EXCEPT !.role_to_alias = e.role_to_alias, !.participants = e.participants]
      BY <1>1 DEF Moved, Vacated, Doc
    <2>. QED BY <1>1, <2>1, <2>2, <2>3 DEF Doc
  <1>6. SeatsIn(e)
    <2>1. ASSUME NEW q \in Role, NEW p \in Alias
          PROVE  e.role_to_alias[q] = p <=>
                     e.participants[p].here /\ e.participants[p].role = q
      <3>1. d.role_to_alias[q] = p <=>
                d.participants[p].here /\ d.participants[p].role = q
        BY DEF DocInv, SeatsIn
      <3>2. CASE p = a
        <4>1. e.participants[p].here /\ e.participants[p].role = r
          BY <1>4, <3>2
        <4>2. CASE q = r
          BY <1>3, <3>2, <4>1, <4>2
        <4>3. CASE q # r
          <5>1. e.role_to_alias[q] # a
            BY <1>3, <3>1, <3>2, <4>3
          <5>. QED BY <3>2, <4>1, <4>3, <5>1
        <4>. QED BY <4>2, <4>3
      <3>3. CASE p # a
        <4>1. /\ e.participants[p].here = d.participants[p].here
              /\ e.participants[p].role = d.participants[p].role
          BY <1>4, <3>3
        <4>2. CASE q = r
          <5>1. d.role_to_alias[q] # p
            BY <3>3, <4>2 DEF FreeFor
          <5>. QED BY <1>3, <3>1, <3>3, <4>1, <4>2, <5>1
        <4>3. CASE q # r
          <5>1. e.role_to_alias[q] = p <=> d.role_to_alias[q] = p
            BY <1>3, <3>3, <4>3
          <5>. QED BY <3>1, <4>1, <5>1
        <4>. QED BY <4>2, <4>3
      <3>. QED BY <3>2, <3>3
    <2>. QED BY <2>1 DEF SeatsIn
  <1>7. PeopleIn(e)
    <2>1. PeopleIn(d) /\ e.state = d.state
      BY <1>3 DEF DocInv
    <2>2. ASSUME NEW p \in Alias, ~d.participants[p].here
          PROVE  e.participants[p] = d.participants[p]
      BY <1>4, <2>2
    <2>. QED BY <1>4, <2>1, <2>2, PeopleKept
  <1>8. MappedIn(e)
    <2>1. MappedIn(d) /\ e.alias_of = d.alias_of
      BY <1>3 DEF DocInv
    <2>2. \A p \in Alias : /\ e.participants[p].here = d.participants[p].here
                           /\ e.participants[p].identity = d.participants[p].identity
                           /\ e.participants[p].is_bot = d.participants[p].is_bot
                           /\ e.participants[p].connected = d.participants[p].connected
      BY <1>4
    <2>. QED BY <1>1, <2>1, <2>2, MappedKept
  <1>9. SeatedIn(e)
    <2>1. PreStart(e)
      BY <1>3 DEF PreStart
    <2>. QED BY <2>1, NotStarted
  <1>. QED BY <1>3, <1>5, <1>6, <1>7, <1>8, <1>9 DEF DocInv

\* assign_role, claim_role and release_role.
LEMMA RolesKeep ==
    ASSUME IInv,
           \/ \E a \in Alias, r \in Role \cup {Nobody} : AssignRole(a, r)
           \/ \E s \in Sid, r \in Role : ClaimRole(s, r)
           \/ \E s \in Sid : ReleaseRole(s)
    PROVE  IInv'
  <1>1. DocInv(room) /\ GoneInv
    BY DEF IInv
  <1>2. ASSUME NEW a \in Alias, NEW r \in Role \cup {Nobody}, room.participants[a].here,
               PreStart(room), r # Nobody => FreeFor(room, r, a),
               room' = Moved(room, a, r), socket' = socket
        PROVE  IInv'
    <2>1. DocInv(room') /\ room'.alias_of = room.alias_of /\ room'.host_sid = room.host_sid
      BY <1>1, <1>2, MovedKeeps
    <2>2. GoneInv'
      BY <1>1, <1>2, <2>1 DEF GoneInv
    <2>. QED BY <2>1, <2>2 DEF IInv
  <1>3. CASE \E a \in Alias, r \in Role \cup {Nobody} : AssignRole(a, r)
    BY <1>2, <1>3 DEF AssignRole, Present
  <1>4. CASE \E s \in Sid, r \in Role : ClaimRole(s, r)
    BY <1>2, <1>4 DEF ClaimRole, Present
  <1>5. CASE \E s \in Sid : ReleaseRole(s)
    BY <1>2, <1>5 DEF ReleaseRole, Present
  <1>. QED BY <1>3, <1>4, <1>5

\* leave: nobody is left at the alias and no connection is mapped to it.
LEMMA LeaveKeeps ==
    ASSUME IInv, NEW s \in Sid, Leave(s)
    PROVE  IInv'
  <1>. USE Numbers
  <1>1. DocInv(room) /\ room \in Doc /\ GoneInv
    BY DEF IInv, DocInv
  <1>2. /\ room.participants \in [Alias -> Participant]
        /\ room.alias_of \in [Sid -> Alias \cup {Nobody}]
        /\ room.role_to_alias \in [Role -> Alias \cup {Nobody}]
    BY <1>1 DEF Doc
  <1>3. PICK a \in Alias : a = room.alias_of[s]
    BY <1>2 DEF Leave
  <1>4. /\ room'.participants = [room.participants EXCEPT ![a] = Absent]
        /\ room'.alias_of =
              [t \in Sid |-> IF room.alias_of[t] = a THEN Nobody ELSE room.alias_of[t]]
        /\ room'.role_to_alias =
              [r \in Role |-> IF r = room.participants[a].role /\ room.role_to_alias[r] = a
                             THEN Nobody ELSE room.role_to_alias[r]]
        /\ room'.host_sid = room.host_sid
        /\ room'.state = room.state
    BY <1>1, <1>3 DEF Leave, Vacated, Doc
  <1>5. ASSUME NEW p \in Alias
        PROVE  room'.participants[p] = IF p = a THEN Absent ELSE room.participants[p]
    BY <1>2, <1>4
  <1>6. ASSUME NEW t \in Sid
        PROVE  room'.alias_of[t] = IF room.alias_of[t] = a THEN Nobody ELSE room.alias_of[t]
    BY <1>4
  <1>7. room' \in Doc
    <2>1. room'.participants \in [Alias -> Participant]
      BY <1>2, <1>4, AbsentTyped
    <2>2. room'.alias_of \in [Sid -> Alias \cup {Nobody}]
      BY <1>2, <1>4
    <2>3. room'.role_to_alias \in [Role -> Alias \cup {Nobody}]
      BY <1>2, <1>4
    <2>4. room' = [room EXCEPT !.role_to_alias = room'.role_to_alias,
                               !.participants = room'.participants,
                               !.alias_of = room'.alias_of]
      BY <1>1 DEF Leave, Vacated, Doc
    <2>. QED BY <1>1, <2>1, <2>2, <2>3, <2>4 DEF Doc
  <1>8. SeatsIn(room')
    <2>1. ASSUME NEW r \in Role, NEW p \in Alias
          PROVE  room'.role_to_alias[r] = p <=>
                     room'.participants[p].here /\ room'.participants[p].role = r
      <3>1. room.role_to_alias[r] = p <=>
                room.participants[p].here /\ room.participants[p].role = r
        BY <1>1 DEF DocInv, SeatsIn
      <3>2. CASE p = a
        <4>1. room'.role_to_alias[r] # a
          BY <1>4, <3>1, <3>2
        <4>. QED BY <1>5, <3>2, <4>1, AbsentTyped
      <3>3. CASE p # a
        <4>1. room'.role_to_alias[r] = p <=> room.role_to_alias[r] = p
          BY <1>4, <3>3
        <4>. QED BY <1>5, <3>1, <3>3, <4>1
      <3>. QED BY <3>2, <3>3
    <2>. QED BY <2>1 DEF SeatsIn
  <1>9. PeopleIn(room')
    <2>1. ASSUME NEW p \in Alias, NEW q \in Alias,
                 room'.participants[p].here, room'.participants[q].here,
                 room'.participants[p].identity = room'.participants[q].identity
          PROVE  p = q \/ room'.participants[p].identity = NoIdentity
      <3>1. p # a /\ q # a
        BY <1>5, <2>1, AbsentTyped
      <3>. QED BY <1>1, <1>5, <2>1, <3>1 DEF DocInv, PeopleIn
    <2>2. ASSUME NEW p \in Alias
          PROVE  /\ room'.participants[p].here =>
                       (room'.participants[p].is_bot <=>
                          room'.participants[p].identity = NoIdentity)
                 /\ ~room'.participants[p].here => room'.participants[p] = Absent
                 /\ ~room'.participants[p].is_bot
      <3>1. CASE p = a
        BY <1>5, <3>1, AbsentTyped
      <3>2. CASE p # a
        BY <1>1, <1>5, <3>2 DEF DocInv, PeopleIn, Leave
      <3>. QED BY <3>1, <3>2
    <2>. QED BY <2>1, <2>2 DEF PeopleIn
  <1>10. MappedIn(room')
    <2>1. ASSUME NEW t \in Sid, room'.alias_of[t] # Nobody
          PROVE  /\ room'.participants[room'.alias_of[t]].here
                 /\ room'.participants[room'.alias_of[t]].identity = IdentityOf[t]
                 /\ room'.participants[room'.alias_of[t]].connected
      <3>1. room'.alias_of[t] = room.alias_of[t] /\ room.alias_of[t] # a
        BY <1>6, <2>1
      <3>2. PICK p \in Alias : p = room.alias_of[t]
        BY <1>2, <2>1, <3>1
      <3>3. /\ room.participants[p].here
            /\ room.participants[p].identity = IdentityOf[t]
            /\ room.participants[p].connected
        BY <1>1, <2>1, <3>1, <3>2 DEF DocInv, MappedIn
      <3>4. room'.participants[p] = room.participants[p] /\ room'.alias_of[t] = p
        BY <1>5, <3>1, <3>2
      <3>. QED BY <3>3, <3>4
    <2>2. ASSUME NEW t \in Sid, NEW u \in Sid, room'.alias_of[t] = room'.alias_of[u]
          PROVE  t = u \/ room'.alias_of[t] = Nobody
      BY <1>1, <1>6, <2>2 DEF DocInv, MappedIn
    <2>3. ASSUME NEW p \in Alias, room'.participants[p].connected, ~room'.participants[p].is_bot
          PROVE  \E t \in Sid : room'.alias_of[t] = p
      <3>1. p # a
        BY <1>5, <2>3, AbsentTyped
      <3>2. PICK t \in Sid : room.alias_of[t] = p
        BY <1>1, <1>5, <2>3, <3>1 DEF DocInv, MappedIn
      <3>. QED BY <1>6, <3>1, <3>2
    <2>. QED BY <2>1, <2>2, <2>3 DEF MappedIn
  <1>11. SeatedIn(room')
    <2>1. PreStart(room')
      BY <1>4 DEF Leave, PreStart
    <2>. QED BY <2>1, NotStarted
  <1>12. GoneInv'
    BY <1>1, <1>4, <1>6 DEF GoneInv, Leave
  <1>. QED BY <1>7, <1>8, <1>9, <1>10, <1>11, <1>12 DEF IInv, DocInv

LEMMA UpdateConfigKeeps ==
    ASSUME IInv, NEW mode \in Mode, NEW fill \in BOOLEAN, UpdateConfig(mode, fill)
    PROVE  IInv'
  <1>1. DocInv(room) /\ room \in Doc /\ GoneInv
    BY DEF IInv, DocInv
  <1>2. /\ room'.participants = room.participants
        /\ room'.alias_of = room.alias_of
        /\ room'.role_to_alias = room.role_to_alias
        /\ room'.host_sid = room.host_sid
        /\ room'.state = "CONFIGURING"
        /\ socket' = socket
    BY <1>1 DEF UpdateConfig, Doc
  <1>3. room' \in Doc
    BY <1>1 DEF UpdateConfig, Doc
  <1>4. SeatsIn(room') /\ MappedIn(room') /\ SeatedIn(room')
    BY <1>1, <1>2 DEF DocInv, SeatsIn, MappedIn, SeatedIn
  <1>5. PeopleIn(room')
    BY <1>1, <1>2 DEF DocInv, PeopleIn, PreStart, UpdateConfig
  <1>6. GoneInv'
    BY <1>1, <1>2 DEF GoneInv
  <1>. QED BY <1>3, <1>4, <1>5, <1>6 DEF IInv, DocInv

LEMMA SetRoleModeKeeps ==
    ASSUME IInv, NEW mode \in Mode, SetRoleMode(mode)
    PROVE  IInv'
  <1>. USE Numbers
  <1>1. DocInv(room) /\ room \in Doc /\ GoneInv
    BY DEF IInv, DocInv
  <1>2. /\ room'.participants =
              [a \in Alias |-> [room.participants[a] EXCEPT !.role = Nobody]]
        /\ room'.alias_of = room.alias_of
        /\ room'.role_to_alias = [r \in Role |-> Nobody]
        /\ room'.host_sid = room.host_sid
        /\ room'.state = room.state
        /\ socket' = socket
    BY <1>1 DEF SetRoleMode, Doc
  <1>3. room.participants \in [Alias -> Participant]
    BY <1>1 DEF Doc
  <1>4. ASSUME NEW p \in Alias
        PROVE  /\ room'.participants[p] \in Participant
               /\ room'.participants[p].here = room.participants[p].here
               /\ room'.participants[p].identity = room.participants[p].identity
               /\ room'.participants[p].is_bot = room.participants[p].is_bot
               /\ room'.participants[p].connected = room.participants[p].connected
               /\ room'.participants[p].role = Nobody
    <2>1. room.participants[p] \in Participant
      BY <1>3
    <2>2. room'.participants[p] = [room.participants[p] EXCEPT !.role = Nobody]
      BY <1>2
    <2>. QED BY <2>1, <2>2, RoleTyped
  <1>5. ASSUME NEW p \in Alias, ~room.participants[p].here
        PROVE  room'.participants[p] = room.participants[p]
    <2>1. room.participants[p] = Absent
      BY <1>1, <1>5 DEF DocInv, PeopleIn
    <2>2. room'.participants[p] = [Absent EXCEPT !.role = Nobody]
      BY <1>2, <2>1
    <2>. QED BY <2>1, <2>2 DEF Absent
  <1>6. room' \in Doc
    <2>1. room'.participants \in [Alias -> Participant]
      BY <1>2, <1>4
    <2>2. room'.role_to_alias \in [Role -> Alias \cup {Nobody}]
      BY <1>2
    <2>3. room' = [room EXCEPT !.mode = mode, !.role_to_alias = room'.role_to_alias,
                               !.participants = room'.participants]
      BY <1>1 DEF SetRoleMode, Doc
    <2>. QED BY <1>1, <2>1, <2>2, <2>3 DEF Doc
  <1>7. SeatsIn(room')
    BY <1>2, <1>4 DEF SeatsIn
  <1>8. PeopleIn(room') /\ MappedIn(room')
    BY <1>1, <1>2, <1>4, <1>5, PeopleKept, MappedKept DEF DocInv
  <1>9. SeatedIn(room')
    <2>1. PreStart(room')
      BY <1>2 DEF SetRoleMode, PreStart
    <2>. QED BY <2>1, NotStarted
  <1>10. GoneInv'
    BY <1>1, <1>2 DEF GoneInv
  <1>. QED BY <1>6, <1>7, <1>8, <1>9, <1>10 DEF IInv, DocInv

-------------------------------------------------------------------------------
(* The start.                                                                  *)

\* The deal gives every participant a seat of their own.
LEMMA DealtKeeps ==
    ASSUME NEW d, DocInv(d), PreStart(d), NEW deal \in Deals(d), NEW e, e = Dealt(d, deal)
    PROVE  /\ DocInv(e)
           /\ PreStart(e)
           /\ e.alias_of = d.alias_of
           /\ e.host_sid = d.host_sid
           /\ \A a \in Alias : e.participants[a].here => e.participants[a].role # Nobody
  <1>. USE Numbers
  <1>1. d \in Doc
    BY DEF DocInv
  <1>2. /\ d.participants \in [Alias -> Participant]
        /\ d.role_to_alias \in [Role -> Alias \cup {Nobody}]
    BY <1>1 DEF Doc
  <1>3. /\ deal \in [Present(d) -> Role]
        /\ \A a, b \in Present(d) : deal[a] = deal[b] => a = b
    BY DEF Deals
  <1>4. /\ e.participants =
              [a \in Alias |-> IF a \in Present(d)
                              THEN [d.participants[a] EXCEPT !.role = deal[a]]
                              ELSE d.participants[a]]
        /\ e.role_to_alias =
              [r \in Role |-> IF \E a \in Present(d) : deal[a] = r
                             THEN CHOOSE a \in Present(d) : deal[a] = r ELSE Nobody]
        /\ e.alias_of = d.alias_of
        /\ e.host_sid = d.host_sid
        /\ e.state = d.state
    BY <1>1 DEF Dealt, Doc
  <1>5. ASSUME NEW p \in Alias
        PROVE  /\ e.participants[p] \in Participant
               /\ e.participants[p].here = d.participants[p].here
               /\ e.participants[p].identity = d.participants[p].identity
               /\ e.participants[p].is_bot = d.participants[p].is_bot
               /\ e.participants[p].connected = d.participants[p].connected
               /\ d.participants[p].here => e.participants[p].role = deal[p] /\ deal[p] \in Role
               /\ ~d.participants[p].here => e.participants[p] = d.participants[p]
    <2>1. d.participants[p] \in Participant
      BY <1>2
    <2>2. CASE d.participants[p].here
      <3>1. p \in Present(d)
        BY <2>2 DEF Present
      <3>2. e.participants[p] = [d.participants[p] EXCEPT !.role = deal[p]]
        BY <1>4, <3>1
      <3>3. deal[p] \in Role
        BY <1>3, <3>1
      <3>4. /\ e.participants[p] \in Participant
            /\ e.participants[p].here = d.participants[p].here
            /\ e.participants[p].identity = d.participants[p].identity
            /\ e.participants[p].role = deal[p]
            /\ e.participants[p].is_bot = d.participants[p].is_bot
            /\ e.participants[p].connected = d.participants[p].connected
        BY <2>1, <3>2, <3>3, RoleTyped
      <3>. QED BY <2>2, <3>3, <3>4
    <2>3. CASE ~d.participants[p].here
      <3>1. e.participants[p] = d.participants[p]
        BY <1>4, <2>3 DEF Present
      <3>. QED BY <2>1, <2>3, <3>1
    <2>. QED BY <2>2, <2>3
  <1>6. ASSUME NEW r \in Role
        PROVE  /\ e.role_to_alias[r] \in Alias \cup {Nobody}
               /\ \A p \in Alias : e.role_to_alias[r] = p <=>
                                      d.participants[p].here /\ deal[p] = r
    <2>1. CASE \E a \in Present(d) : deal[a] = r
      <3>1. e.role_to_alias[r] = CHOOSE a \in Present(d) : deal[a] = r
        BY <1>4, <2>1
      <3>2. PICK b \in Present(d) : b = e.role_to_alias[r] /\ deal[b] = r
        BY <2>1, <3>1
      <3>. QED BY <1>3, <3>2 DEF Present
    <2>2. CASE ~ \E a \in Present(d) : deal[a] = r
      BY <1>4, <2>2 DEF Present
    <2>. QED BY <2>1, <2>2
  <1>7. e \in Doc
    <2>1. e.participants \in [Alias -> Participant]
      BY <1>4, <1>5
    <2>2. e.role_to_alias \in [Role -> Alias \cup {Nobody}]
      BY <1>4, <1>6
    <2>3. e = [d EXCEPT !.role_to_alias = e.role_to_alias, !.participants = e.participants]
      BY <1>1 DEF Dealt, Doc
    <2>. QED BY <1>1, <2>1, <2>2, <2>3 DEF Doc
  <1>8. SeatsIn(e)
    <2>1. ASSUME NEW r \in Role, NEW p \in Alias
          PROVE  e.role_to_alias[r] = p <=>
                     e.participants[p].here /\ e.participants[p].role = r
      BY <1>5, <1>6
    <2>. QED BY <2>1 DEF SeatsIn
  <1>9. PeopleIn(e)
    <2>1. PeopleIn(d) /\ e.state = d.state
      BY <1>4 DEF DocInv
    <2>. QED BY <1>5, <2>1, PeopleKept
  <1>10. MappedIn(e)
    <2>1. MappedIn(d) /\ e.alias_of = d.alias_of
      BY <1>4 DEF DocInv
    <2>2. \A p \in Alias : /\ e.participants[p].here = d.participants[p].here
                           /\ e.participants[p].identity = d.participants[p].identity
                           /\ e.participants[p].is_bot = d.participants[p].is_bot
                           /\ e.participants[p].connected = d.participants[p].connected
      BY <1>5
    <2>. QED BY <1>1, <2>1, <2>2, MappedKept
  <1>11. PreStart(e)
    BY <1>4 DEF PreStart
  <1>12. SeatedIn(e)
    BY <1>11, NotStarted
  <1>13. \A a \in Alias : e.participants[a].here => e.participants[a].role # Nobody
    BY <1>5, ZenonT(30)
  <1>. QED BY <1>4, <1>7, <1>8, <1>9, <1>10, <1>11, <1>12, <1>13 DEF DocInv

\* The bots sit where nobody does: their aliases grow with their roles, so no two are
\* the same, and none is a participant's.
LEMMA WithBotsKeeps ==
    ASSUME NEW d, DocInv(d), PreStart(d),
           \A a \in Alias : d.participants[a].here => d.participants[a].role # Nobody,
           NEW bot \in BotAliases(d),
           NEW e, e = [WithBots(d, bot) EXCEPT !.state = "STARTED"]
    PROVE  DocInv(e) /\ e.alias_of = d.alias_of /\ e.host_sid = d.host_sid
  <1>. USE Numbers
  <1>1. d \in Doc
    BY DEF DocInv
  <1>2. /\ d.participants \in [Alias -> Participant]
        /\ d.role_to_alias \in [Role -> Alias \cup {Nobody}]
        /\ d.alias_of \in [Sid -> Alias \cup {Nobody}]
    BY <1>1 DEF Doc
  <1>3. /\ bot \in [Role \ Held(d) -> Alias \ Present(d)]
        /\ \A q, r \in Role \ Held(d) : q < r => bot[q] < bot[r]
    BY DEF BotAliases
  <1>4. ASSUME NEW q \in Role \ Held(d), NEW r \in Role \ Held(d), bot[q] = bot[r]
        PROVE  q = r
    <2>1. q \in Nat /\ r \in Nat /\ bot[q] \in Nat /\ bot[r] \in Nat
      BY <1>3
    <2>2. ~(q < r) /\ ~(r < q)
      BY <1>3, <1>4, <2>1
    <2>. QED BY <2>1, <2>2
  <1>5. /\ e.participants =
              [a \in Alias |-> IF \E r \in Role \ Held(d) : bot[r] = a
                              THEN BotFor(CHOOSE r \in Role \ Held(d) : bot[r] = a)
                              ELSE d.participants[a]]
        /\ e.role_to_alias =
              [r \in Role |-> IF r \in Held(d) THEN d.role_to_alias[r] ELSE bot[r]]
        /\ e.alias_of = d.alias_of
        /\ e.host_sid = d.host_sid
        /\ e.state = "STARTED"
    BY <1>1 DEF WithBots, Doc
  <1>6. ASSUME NEW r \in Role \ Held(d)
        PROVE  /\ bot[r] \in Alias
               /\ ~d.participants[bot[r]].here
               /\ e.participants[bot[r]] = BotFor(r)
               /\ e.role_to_alias[r] = bot[r]
               /\ d.role_to_alias[r] = Nobody
    <2>1. bot[r] \in Alias /\ bot[r] \notin Present(d)
      BY <1>3
    <2>2. r = CHOOSE q \in Role \ Held(d) : bot[q] = bot[r]
      BY <1>4
    <2>3. e.participants[bot[r]] = BotFor(r)
      BY <1>5, <2>1, <2>2
    <2>. QED BY <1>5, <2>1, <2>3 DEF Present, Held
  <1>7. ASSUME NEW p \in Alias, \A r \in Role \ Held(d) : bot[r] # p
        PROVE  e.participants[p] = d.participants[p]
    BY <1>5, <1>7
  <1>8. ASSUME NEW p \in Alias, d.participants[p].here
        PROVE  e.participants[p] = d.participants[p]
    <2>1. \A r \in Role \ Held(d) : bot[r] # p
      BY <1>6, <1>8
    <2>. QED BY <1>7, <2>1
  <1>9. e \in Doc
    <2>1. ASSUME NEW p \in Alias
          PROVE  e.participants[p] \in Participant
      <3>1. CASE \E r \in Role \ Held(d) : bot[r] = p
        BY <1>6, <3>1, BotTyped
      <3>2. CASE \A r \in Role \ Held(d) : bot[r] # p
        BY <1>2, <1>7, <3>2
      <3>. QED BY <3>1, <3>2
    <2>2. e.participants \in [Alias -> Participant]
      BY <1>5, <2>1
    <2>3. e.role_to_alias \in [Role -> Alias \cup {Nobody}]
      BY <1>2, <1>3, <1>5
    <2>4. e = [d EXCEPT !.role_to_alias = e.role_to_alias, !.participants = e.participants,
                        !.state = "STARTED"]
      BY <1>1 DEF WithBots, Doc
    <2>. QED BY <1>1, <2>2, <2>3, <2>4, ZenonT(30) DEF Doc
  <1>10. SeatsIn(e)
    <2>1. ASSUME NEW r \in Role, NEW p \in Alias
          PROVE  e.role_to_alias[r] = p <=>
                     e.participants[p].here /\ e.participants[p].role = r
      <3>1. d.role_to_alias[r] = p <=>
                d.participants[p].here /\ d.participants[p].role = r
        BY DEF DocInv, SeatsIn
      <3>2. ASSUME NEW q \in Role \ Held(d), bot[q] = p
            PROVE  e.role_to_alias[r] = p <=>
                       e.participants[p].here /\ e.participants[p].role = r
        <4>1. e.participants[p].here /\ e.participants[p].role = q
          BY <1>6, <3>2, BotTyped
        <4>2. CASE r \in Held(d)
          <5>1. e.role_to_alias[r] = d.role_to_alias[r] /\ d.role_to_alias[r] # p
            BY <1>5, <1>6, <3>1, <3>2, <4>2
          <5>. QED BY <4>1, <4>2, <5>1
        <4>3. CASE r \notin Held(d)
          BY <1>4, <1>6, <3>2, <4>1, <4>3
        <4>. QED BY <4>2, <4>3
      <3>3. CASE \A q \in Role \ Held(d) : bot[q] # p
        <4>1. e.participants[p] = d.participants[p]
          BY <1>7, <3>3
        <4>2. e.role_to_alias[r] = p <=> d.role_to_alias[r] = p
          <5>1. CASE r \in Held(d)
            BY <1>5, <5>1
          <5>2. CASE r \notin Held(d)
            BY <1>6, <3>3, <5>2
          <5>. QED BY <5>1, <5>2
        <4>. QED BY <3>1, <4>1, <4>2
      <3>. QED BY <3>2, <3>3
    <2>. QED BY <2>1 DEF SeatsIn
  <1>11. ASSUME NEW p \in Alias
         PROVE  \/ /\ e.participants[p].here
                   /\ e.participants[p].identity = NoIdentity
                   /\ e.participants[p].is_bot
                   /\ e.participants[p].role # Nobody
                \/ e.participants[p] = d.participants[p]
    <2>1. CASE \E r \in Role \ Held(d) : bot[r] = p
      BY <1>6, <2>1, BotTyped
    <2>2. CASE \A r \in Role \ Held(d) : bot[r] # p
      BY <1>7, <2>2
    <2>. QED BY <2>1, <2>2
  <1>12. PeopleIn(e)
    <2>1. ASSUME NEW p \in Alias, NEW q \in Alias,
                 e.participants[p].here, e.participants[q].here,
                 e.participants[p].identity = e.participants[q].identity
          PROVE  p = q \/ e.participants[p].identity = NoIdentity
      BY <1>11, <2>1 DEF DocInv, PeopleIn
    <2>2. ASSUME NEW p \in Alias
          PROVE  /\ e.participants[p].here =>
                       (e.participants[p].is_bot <=> e.participants[p].identity = NoIdentity)
                 /\ ~e.participants[p].here => e.participants[p] = Absent
      BY <1>11 DEF DocInv, PeopleIn
    <2>3. ~PreStart(e)
      BY <1>5 DEF PreStart
    <2>. QED BY <2>1, <2>2, <2>3 DEF PeopleIn
  <1>13. MappedIn(e)
    <2>1. ASSUME NEW t \in Sid, e.alias_of[t] # Nobody
          PROVE  /\ e.participants[e.alias_of[t]].here
                 /\ e.participants[e.alias_of[t]].identity = IdentityOf[t]
                 /\ e.participants[e.alias_of[t]].connected
      <3>1. PICK p \in Alias : p = d.alias_of[t] /\ p = e.alias_of[t]
        BY <1>2, <1>5, <2>1
      <3>2. /\ d.participants[p].here
            /\ d.participants[p].identity = IdentityOf[t]
            /\ d.participants[p].connected
        BY <2>1, <3>1 DEF DocInv, MappedIn
      <3>. QED BY <1>8, <3>1, <3>2
    <2>2. ASSUME NEW p \in Alias, e.participants[p].connected, ~e.participants[p].is_bot
          PROVE  \E t \in Sid : e.alias_of[t] = p
      BY <1>5, <1>11, <2>2 DEF DocInv, MappedIn
    <2>. QED BY <1>5, <2>1, <2>2 DEF DocInv, MappedIn
  <1>14. SeatedIn(e)
    <2>1. ASSUME NEW r \in Role
          PROVE  e.role_to_alias[r] # Nobody
      <3>1. CASE r \in Held(d)
        BY <1>5, <3>1 DEF Held
      <3>2. CASE r \notin Held(d)
        BY <1>6, <3>2
      <3>. QED BY <3>1, <3>2
    <2>2. \A p \in Alias : e.participants[p].here => e.participants[p].role # Nobody
      BY <1>11
    <2>. QED BY <2>1, <2>2 DEF SeatedIn
  <1>. QED BY <1>5, <1>9, <1>10, <1>12, <1>13, <1>14 DEF DocInv

\* start_game: in RANDOM the deal seats everyone; otherwise nobody is without a role.
LEMMA StartGameKeeps ==
    ASSUME IInv, StartGame
    PROVE  IInv'
  <1>. USE Numbers
  <1>1. DocInv(room) /\ GoneInv
    BY DEF IInv
  <1>2. PICK doc \in (IF room.mode = "RANDOM" THEN {Dealt(room, deal) : deal \in Deals(room)}
                      ELSE {room}) :
           /\ CanStart(doc)
           /\ \E bot \in BotAliases(doc) :
                  room' = [WithBots(doc, bot) EXCEPT !.state = "STARTED"]
           /\ UNCHANGED socket
    BY DEF StartGame
  <1>3. PICK bot \in BotAliases(doc) : room' = [WithBots(doc, bot) EXCEPT !.state = "STARTED"]
    BY <1>2
  <1>4. /\ DocInv(doc)
        /\ PreStart(doc)
        /\ doc.alias_of = room.alias_of
        /\ doc.host_sid = room.host_sid
        /\ \A a \in Alias : doc.participants[a].here => doc.participants[a].role # Nobody
    <2>1. CASE room.mode = "RANDOM"
      <3>1. PICK deal \in Deals(room) : doc = Dealt(room, deal)
        BY <1>2, <2>1
      <3>2. PreStart(room)
        BY <1>1, <1>2, <3>1 DEF CanStart, PreStart, Dealt, DocInv, Doc
      <3>. QED BY <1>1, <3>1, <3>2, DealtKeeps
    <2>2. CASE room.mode # "RANDOM"
      <3>1. doc = room /\ PreStart(room)
        BY <1>2, <2>2 DEF CanStart
      <3>2. ASSUME NEW a \in Alias, room.participants[a].here
            PROVE  room.participants[a].role # Nobody
        <4>1. Roleless(room) = {}
          BY <1>2, <2>2 DEF CanStart
        <4>2. PICK r \in Role : room.role_to_alias[r] = a
          BY <2>2, <3>2, <4>1 DEF Roleless, Present
        <4>3. room.participants[a].role = r
          BY <1>1, <4>2 DEF DocInv, SeatsIn
        <4>. QED BY <4>3
      <3>. QED BY <1>1, <3>1, <3>2
    <2>. QED BY <2>1, <2>2
  <1>5. DocInv(room') /\ room'.alias_of = room.alias_of /\ room'.host_sid = room.host_sid
    BY <1>3, <1>4, WithBotsKeeps
  <1>6. GoneInv'
    BY <1>1, <1>2, <1>5 DEF GoneInv
  <1>. QED BY <1>5, <1>6 DEF IInv

-------------------------------------------------------------------------------
(* Theorems.                                                                   *)

LEMMA OpenKeeps ==
    ASSUME IInv, NEW s \in Sid, Open(s) \/ Lose(s)
    PROVE  IInv'
  <1>1. room' = room /\ DocInv(room) /\ GoneInv
    BY DEF Open, Lose, IInv
  <1>2. CASE Open(s)
    <2>1. /\ socket' \in [Sid -> Socket]
          /\ \A t \in Sid : t # s => socket'[t] = socket[t]
          /\ room.alias_of[s] = Nobody /\ room.host_sid # s
      BY <1>1, <1>2 DEF Open, GoneInv, Socket
    <2>. QED BY <1>1, <2>1 DEF IInv, GoneInv
  <1>3. CASE Lose(s)
    <2>1. /\ socket' \in [Sid -> Socket]
          /\ \A t \in Sid : socket'[t] \in {"new", "late"} => socket[t] \in {"new", "late"}
      BY <1>1, <1>3 DEF Lose, GoneInv, Socket
    <2>. QED BY <1>1, <2>1 DEF IInv, GoneInv
  <1>. QED BY <1>2, <1>3

LEMMA InitInv ==
    ASSUME Init
    PROVE  IInv
  <1>. USE Numbers, AbsentTyped, NoHostAssumption
  <1>1. PICK mode \in Mode, fill \in BOOLEAN :
           room = [state |-> "LOBBY", participants |-> [a \in Alias |-> Absent],
                   alias_of |-> [s \in Sid |-> Nobody],
                   role_to_alias |-> [r \in Role |-> Nobody],
                   host_sid |-> NoHost, host_identity |-> NoIdentity,
                   mode |-> mode, fill |-> fill]
    BY DEF Init
  <1>2. /\ room.state = "LOBBY"
        /\ room.participants = [a \in Alias |-> Absent]
        /\ room.alias_of = [s \in Sid |-> Nobody]
        /\ room.role_to_alias = [r \in Role |-> Nobody]
        /\ room.host_sid = NoHost
    BY <1>1
  <1>3. room \in Doc
    <2>1. [a \in Alias |-> Absent] \in [Alias -> Participant]
      OBVIOUS
    <2>2. [s \in Sid |-> Nobody] \in [Sid -> Alias \cup {Nobody}]
      OBVIOUS
    <2>3. [r \in Role |-> Nobody] \in [Role -> Alias \cup {Nobody}]
      OBVIOUS
    <2>. QED BY <1>1, <2>1, <2>2, <2>3 DEF Doc
  <1>4. \A a \in Alias : room.participants[a] = Absent
    BY <1>2
  <1>5. SeatsIn(room) /\ PeopleIn(room)
    BY <1>2, <1>4 DEF SeatsIn, PeopleIn
  <1>6. MappedIn(room) /\ SeatedIn(room)
    BY <1>2, <1>4 DEF MappedIn, SeatedIn
  <1>7. GoneInv
    BY <1>2 DEF GoneInv, Init, Socket
  <1>. QED BY <1>3, <1>5, <1>6, <1>7 DEF IInv, DocInv

\* The invariant of a room: one lemma for each handler.
LEMMA Inductive == Spec => []IInv
  <1>1. Init => IInv
    BY InitInv
  <1>2. IInv /\ [Next]_vars => IInv'
    <2>. SUFFICES ASSUME IInv, [Next]_vars
                  PROVE  IInv'
      OBVIOUS
    <2>1. CASE \E s \in Sid : Open(s) \/ Lose(s)
      BY <2>1, OpenKeeps
    <2>2. CASE \E s \in Sid : Disconnect(s)
      BY <2>2, DisconnectKeeps
    <2>3. CASE \E s \in Sid : JoinWaiting(s)
      BY <2>3, JoinWaitingKeeps
    <2>4. CASE \E s \in Sid : JoinAgain(s)
      BY <2>4, JoinAgainKeeps
    <2>5. CASE \E s \in Sid : JoinNew(s)
      BY <2>5, JoinNewKeeps
    <2>6. CASE \E s \in Sid : Leave(s)
      BY <2>6, LeaveKeeps
    <2>7. CASE \E mode \in Mode, fill \in BOOLEAN : UpdateConfig(mode, fill)
      BY <2>7, UpdateConfigKeeps
    <2>8. CASE \E mode \in Mode : SetRoleMode(mode)
      BY <2>8, SetRoleModeKeeps
    <2>9. CASE \/ \E a \in Alias, r \in Role \cup {Nobody} : AssignRole(a, r)
               \/ \E s \in Sid, r \in Role : ClaimRole(s, r)
               \/ \E s \in Sid : ReleaseRole(s)
      BY <2>9, RolesKeep
    <2>10. CASE StartGame
      BY <2>10, StartGameKeeps
    <2>11. CASE UNCHANGED vars
      BY <2>11 DEF vars, IInv, GoneInv
    <2>. QED BY <2>1, <2>2, <2>3, <2>4, <2>5, <2>6, <2>7, <2>8, <2>9, <2>10, <2>11 DEF Next
  <1>. QED BY <1>1, <1>2, PTL DEF Spec

\* role_to_alias and the participants' own roles always say the same, however many
\* seats and people there are.
THEOREM SeatsAlwaysAgree == Spec => []SeatsAgree
  <1>1. IInv => SeatsAgree
    BY DEF IInv, DocInv, SeatsIn, SeatsAgree, Present
  <1>. QED BY <1>1, Inductive, PTL

\* One identity always maps back to the same participant.
THEOREM PeopleHaveOnePlace == Spec => []OnePlacePerPerson
  <1>1. IInv => OnePlacePerPerson
    BY DEF IInv, DocInv, PeopleIn, OnePlacePerPerson, Present
  <1>. QED BY <1>1, Inductive, PTL

\* A game that starts has every role held, nobody without one, and bots only where
\* nobody sits.
THEOREM StartsFullySeated == Spec => []EverybodySeated
  <1>1. IInv => EverybodySeated
    BY DEF IInv, DocInv, SeatedIn, PeopleIn, EverybodySeated, Present
  <1>. QED BY <1>1, Inductive, PTL

\* A player is shown connected exactly while one connection is theirs; and a
\* connection that was cleaned up is nobody's and not the host's, unless a call it
\* had made was served after the cleanup (_disconnect_from_room, join, join_waiting).
THEOREM ConnectionsAlwaysAgree == Spec => []ConnectionsAgree
  <1>1. IInv => ConnectionsAgree
    <2>. SUFFICES ASSUME IInv
                  PROVE  ConnectionsAgree
      OBVIOUS
    <2>. USE Numbers
    <2>1. DocInv(room) /\ PeopleIn(room) /\ MappedIn(room) /\ GoneInv
      BY DEF IInv, DocInv
    <2>2. ASSUME NEW a \in Alias
          PROVE  Cardinality({s \in Sid : room.alias_of[s] = a}) <= 1
      <3>1. CASE \E t \in Sid : room.alias_of[t] = a
        <4>1. PICK t \in Sid : room.alias_of[t] = a
          BY <3>1
        <4>2. {s \in Sid : room.alias_of[s] = a} = {t}
          BY <2>1, <4>1 DEF MappedIn
        <4>. QED BY <4>2, FS_Singleton
      <3>2. CASE ~ \E t \in Sid : room.alias_of[t] = a
        <4>1. {s \in Sid : room.alias_of[s] = a} = {}
          BY <3>2
        <4>. QED BY <4>1, FS_EmptySet
      <3>. QED BY <3>1, <3>2
    <2>3. ASSUME NEW a \in Alias
          PROVE  (\E s \in Sid : room.alias_of[s] = a) <=>
                     room.participants[a].connected /\ ~room.participants[a].is_bot
      <3>1. ASSUME NEW s \in Sid, room.alias_of[s] = a
            PROVE  room.participants[a].connected /\ ~room.participants[a].is_bot
        <4>1. /\ room.participants[a].here
              /\ room.participants[a].identity = IdentityOf[s]
              /\ room.participants[a].connected
          BY <2>1, <3>1 DEF MappedIn
        <4>. QED BY <2>1, <4>1, IdentityAssumption DEF PeopleIn
      <3>2. ASSUME room.participants[a].connected, ~room.participants[a].is_bot
            PROVE  \E s \in Sid : room.alias_of[s] = a
        BY <2>1, <3>2 DEF MappedIn
      <3>. QED BY <3>1, <3>2
    <2>. QED BY <2>1, <2>2, <2>3 DEF ConnectionsAgree, GoneInv
  <1>. QED BY <1>1, Inductive, PTL

-------------------------------------------------------------------------------
(* The types, with a room that is never overfull.                              *)

\* Only a new person, and the bots of the start, take an alias into use.
LEMMA NobodyElseEnters ==
    ASSUME IInv, [Next]_vars, ~(\E s \in Sid : JoinNew(s)), ~StartGame
    PROVE  Present(room') \subseteq Present(room)
  <1>. USE Numbers
  <1>1. /\ room \in Doc
        /\ room.participants \in [Alias -> Participant]
        /\ room.alias_of \in [Sid -> Alias \cup {Nobody}]
    BY DEF IInv, DocInv, Doc
  <1>. SUFFICES ASSUME NEW p \in Alias, room'.participants[p].here
                PROVE  room.participants[p].here
    BY DEF Present
  <1>2. ASSUME NEW a, NEW r, room' = Moved(room, a, r)
        PROVE  room.participants[p].here
    <2>1. room'.participants = [room.participants EXCEPT ![a].role = r]
      BY <1>1, <1>2 DEF Moved, Vacated, Doc
    <2>2. CASE p # a
      BY <1>1, <2>1, <2>2
    <2>3. CASE p = a
      <3>1. room'.participants[p] = [room.participants[p] EXCEPT !.role = r]
        BY <1>1, <2>1, <2>3
      <3>. QED BY <1>1, <3>1 DEF Participant
    <2>. QED BY <2>2, <2>3
  <1>3. CASE room'.participants = room.participants
    BY <1>3
  <1>4. ASSUME NEW s \in Sid, Disconnect(s)
        PROVE  room.participants[p].here
    <2>1. room'.participants[p] =
              IF p = room.alias_of[s] /\ room.participants[p].here
              THEN [room.participants[p] EXCEPT !.connected = FALSE] ELSE room.participants[p]
      BY <1>1, <1>4 DEF Disconnect, Doc
    <2>. QED BY <2>1
  <1>5. ASSUME NEW s \in Sid, JoinAgain(s)
        PROVE  room.participants[p].here
    <2>1. PICK a \in KnownAs(room, IdentityOf[s]) :
             room' = [room EXCEPT !.alias_of = MapTo(room, s, a),
                                  !.participants[a].connected = TRUE]
      BY <1>5 DEF JoinAgain
    <2>2. a \in Alias /\ room.participants[a].here
      BY DEF KnownAs, Present
    <2>3. room'.participants = [room.participants EXCEPT ![a].connected = TRUE]
      BY <1>1, <2>1 DEF Doc
    <2>. QED BY <1>1, <2>2, <2>3
  <1>6. ASSUME NEW s \in Sid, Leave(s)
        PROVE  room.participants[p].here
    <2>1. room'.participants = [room.participants EXCEPT ![room.alias_of[s]] = Absent]
      BY <1>1, <1>6 DEF Leave, Vacated, Doc
    <2>. QED BY <1>1, <2>1, AbsentTyped
  <1>7. ASSUME NEW mode \in Mode, SetRoleMode(mode)
        PROVE  room.participants[p].here
    <2>1. room'.participants[p] = [room.participants[p] EXCEPT !.role = Nobody]
      BY <1>1, <1>7 DEF SetRoleMode, Doc
    <2>. QED BY <1>1, <2>1 DEF Participant
  <1>8. CASE \/ \E s \in Sid : Open(s) \/ Lose(s) \/ JoinWaiting(s)
             \/ \E mode \in Mode, fill \in BOOLEAN : UpdateConfig(mode, fill)
             \/ UNCHANGED vars
    BY <1>1, <1>3, <1>8 DEF Open, Lose, JoinWaiting, UpdateConfig, vars, Doc
  <1>9. CASE \/ \E a \in Alias, r \in Role \cup {Nobody} : AssignRole(a, r)
             \/ \E s \in Sid, r \in Role : ClaimRole(s, r)
             \/ \E s \in Sid : ReleaseRole(s)
    BY <1>2, <1>9 DEF AssignRole, ClaimRole, ReleaseRole
  <1>. QED BY <1>4, <1>5, <1>6, <1>7, <1>8, <1>9 DEF Next

\* The seats of a started room are one for each participant: an injection into the roles.
LEMMA StartedFits ==
    ASSUME NEW doc, DocInv(doc), doc.state = "STARTED"
    PROVE  IsFiniteSet(Present(doc)) /\ Cardinality(Present(doc)) <= Seats
  <1>. USE Numbers
  <1>. DEFINE seat == [a \in Present(doc) |-> doc.participants[a].role]
  <1>1. ASSUME NEW a \in Present(doc)
        PROVE  /\ a \in Alias
               /\ seat[a] \in Role
               /\ doc.role_to_alias[seat[a]] = a
    <2>1. a \in Alias /\ doc.participants[a].here
      BY DEF Present
    <2>2. doc.participants[a].role \in Role
      BY <2>1 DEF DocInv, SeatedIn, Doc, Participant
    <2>. QED BY <2>1, <2>2 DEF DocInv, SeatsIn
  <1>2. seat \in Injection(Present(doc), Role)
    <2>1. seat \in [Present(doc) -> Role]
      BY <1>1
    <2>2. IsInjective(seat)
      BY <1>1 DEF IsInjective
    <2>. QED BY <2>1, <2>2 DEF Injection
  <1>3. IsFiniteSet(Role) /\ Cardinality(Role) = Seats
    BY FS_Interval DEF Role
  <1>. HIDE DEF seat
  <1>. QED BY <1>2, <1>3, FS_Injection

Fits(doc) == IsFiniteSet(Present(doc)) /\ Cardinality(Present(doc)) <= Seats

LEMMA FitsKept ==
    ASSUME IInv, IInv', Fits(room), [Next]_vars
    PROVE  Fits(room')
  <1>. USE Numbers
  <1>1. CASE \E s \in Sid : JoinNew(s)
    <2>1. PICK s \in Sid : JoinNew(s)
      BY <1>1
    <2>2. PICK a \in Alias \ Present(room) :
             room' = [room EXCEPT !.participants[a] = NewPerson(s), !.alias_of[s] = a]
      BY <2>1 DEF JoinNew, NewPerson, NextFreeAlias
    <2>3. room.participants \in [Alias -> Participant]
      BY DEF IInv, DocInv, Doc
    <2>4. room'.participants = [room.participants EXCEPT ![a] = NewPerson(s)]
      BY <2>2 DEF IInv, DocInv, Doc
    <2>5. Present(room') = Present(room) \cup {a}
      BY <2>3, <2>4, NewPersonTyped DEF Present
    <2>6. Cardinality(Present(room)) \in Nat
      BY FS_CardinalityType DEF Fits
    <2>7. Cardinality(Present(room)) < Seats
      BY <2>1, <2>6 DEF JoinNew, RoomFull
    <2>8. /\ IsFiniteSet(Present(room'))
          /\ Cardinality(Present(room')) = Cardinality(Present(room)) + 1
      BY <2>2, <2>5, FS_AddElement DEF Fits
    <2>. QED BY <2>6, <2>7, <2>8 DEF Fits
  <1>2. CASE StartGame
    <2>1. room'.state = "STARTED"
      <3>1. PICK doc, bot : room' = [WithBots(doc, bot) EXCEPT !.state = "STARTED"]
        BY <1>2 DEF StartGame
      <3>. QED BY <3>1 DEF IInv, DocInv, Doc
    <2>. QED BY <2>1, StartedFits DEF IInv, Fits
  <1>3. CASE ~(\E s \in Sid : JoinNew(s)) /\ ~StartGame
    <2>1. Present(room') \subseteq Present(room)
      BY <1>3, NobodyElseEnters
    <2>2. /\ IsFiniteSet(Present(room'))
          /\ Cardinality(Present(room')) <= Cardinality(Present(room))
      BY <2>1, FS_Subset DEF Fits
    <2>3. Cardinality(Present(room)) \in Nat /\ Cardinality(Present(room')) \in Nat
      BY <2>2, FS_CardinalityType DEF Fits
    <2>. QED BY <2>2, <2>3 DEF Fits
  <1>. QED BY <1>1, <1>2, <1>3

\* The document and the connections are well typed, and a room never has more people
\* and bots than seats, through any joins, leaves and the start with bots.
THEOREM TypeCorrect == Spec => []TypeOK
  <1>1. Init => Fits(room)
    <2>. SUFFICES ASSUME Init
                  PROVE  Fits(room)
      OBVIOUS
    <2>1. Present(room) = {}
      BY AbsentTyped DEF Init, Present
    <2>. QED BY <2>1, FS_EmptySet, Numbers DEF Fits
  <1>2. IInv /\ IInv' /\ Fits(room) /\ [Next]_vars => Fits(room)'
    BY FitsKept DEF Fits
  <1>3. IInv /\ Fits(room) => TypeOK
    BY DEF IInv, DocInv, Doc, GoneInv, Fits, TypeOK
  <1>. QED BY <1>1, <1>2, <1>3, Inductive, PTL DEF Spec
===============================================================================
