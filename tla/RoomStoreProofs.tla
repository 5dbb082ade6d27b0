--------------------------- MODULE RoomStoreProofs ---------------------------
(***************************************************************************)
(* Theorems about RoomStore, for any calls, codes, lease and number of     *)
(* rooms, changes and crashes: the store is well typed and implements      *)
(* RoomDocument.                                                           *)
(***************************************************************************)
EXTENDS RoomStore, FiniteSetTheorems, TLAPS

-------------------------------------------------------------------------------
(* The inductive invariant.                                                    *)

\* What is stored, d, is not what the section read, but finish_game's save since then.
SavedOver(copy, d) == Current(d) /\ d.carried /\ copy.end # 0

\* A live section's lease has as much left as the section has not used, and a call
\* that is going to write knows what is stored under its code: a section what it read,
\* or what finish_game made of it; finish_game a game that is over and not yet put back.
CallInv(a) ==
    /\ calls[a].pc \in {"idle", "drawing"} => calls[a].tries < MaxAttempts
    /\ calls[a].pc \notin {"idle", "drawing"} => calls[a].code \in Code
    /\ calls[a].pc \in InSection =>
          /\ lock[calls[a].code].holder = a
          /\ lock[calls[a].code].left + calls[a].used = LockTimeout
    /\ calls[a].pc = "holding" =>
          /\ Current(calls[a].copy)
          /\ \/ doc[calls[a].code] = calls[a].copy
             \/ SavedOver(calls[a].copy, doc[calls[a].code])
    /\ calls[a].pc \in Carrying =>
          /\ Current(calls[a].copy)
          /\ calls[a].copy.end # 0
          /\ calls[a].copy.seq < MaxChanges
          /\ Current(doc[calls[a].code])
          /\ doc[calls[a].code].end # 0
          /\ ~doc[calls[a].code].carried
    /\ calls[a].pc \in {"discarding", "peeking", "clearing"} =>
          ~Current(doc[calls[a].code])
    /\ calls[a].pc = "creating" => doc[calls[a].code] = NoRoom

\* A creation is alone at its code.
Alone ==
    \A a, b \in Call :
        calls[a].pc \in Creating /\ calls[b].code = calls[a].code => a = b

\* A game's end leaves one copy.
CarriedOnce ==
    \A a, b \in Call :
        /\ calls[a].pc \in Carrying /\ calls[b].pc \in Carrying
        /\ calls[a].code = calls[b].code
        => a = b

\* The rooms and those about to be.
RoomsCounted == opened + Cardinality(Creators) <= MaxRooms

\* What is stored is a room, nothing, or what an earlier release left; finish_game has
\* put back no game that is not over.
DocsKnown ==
    \A c \in Code :
        /\ Current(doc[c]) \/ doc[c] \in {NoRoom, OldRoom}
        /\ doc[c].carried => doc[c].end # 0

IInv ==
    /\ TypeOK
    /\ \A a \in Call : CallInv(a)
    /\ Alone
    /\ CarriedOnce
    /\ RoomsCounted
    /\ DocsKnown

\* The initial state.
LEMMA InitInv == Init => IInv
  <1>. SUFFICES ASSUME Init PROVE IInv
    OBVIOUS
  <1>. USE BoundsAssumption, LeaseAssumption
  <1>1. \A a \in Call : calls[a] = Idle
    BY DEF Init
  <1>2. NoRoom \in Document /\ OldRoom \in Document
    BY DEF NoRoom, OldRoom, Document
  <1>3. Idle \in CallState
    BY <1>2 DEF Idle, CallState, InSection, Creating
  <1>4. TypeOK
    BY <1>2, <1>3 DEF Init, TypeOK, Unlocked
  <1>5. \A a \in Call : CallInv(a)
    BY <1>1 DEF CallInv, Idle, InSection, Carrying
  <1>6. Alone /\ CarriedOnce
    BY <1>1 DEF Alone, CarriedOnce, Idle, Creating, Carrying
  <1>7. Creators = {}
    BY <1>1 DEF Creators, Idle, Creating
  <1>8. RoomsCounted
    BY <1>7, FS_EmptySet DEF RoomsCounted, Init
  <1>9. DocsKnown
    BY DEF DocsKnown, Init, NoRoom, OldRoom
  <1>. QED BY <1>4, <1>5, <1>6, <1>8, <1>9 DEF IInv

-------------------------------------------------------------------------------
(* Every step preserves the types.                                             *)

\* Where a call can be.
Pcs == InSection \cup Creating \cup {"idle", "peeking", "drawing", "finishing"}

\* What the parts of a call are.
LEMMA CallParts ==
    ASSUME TypeOK, NEW a \in Call
    PROVE  /\ calls[a] \in CallState
           /\ calls[a].copy \in Document
           /\ calls[a].used \in 0..SectionTime
           /\ calls[a].tries \in 0..MaxAttempts
           /\ calls[a].code \in Code \cup {NoCode}
  BY DEF TypeOK, CallState

\* A changed room is a document, and so are one that ended and one put back.
LEMMA ChangedTyped ==
    ASSUME NEW d \in Document, d.seq < MaxChanges
    PROVE  /\ [d EXCEPT !.seq = @ + 1] \in Document
           /\ [d EXCEPT !.seq = @ + 1, !.end = d.seq + 1] \in Document
           /\ [d EXCEPT !.seq = @ + 1, !.carried = TRUE] \in Document
  <1>1. PICK B, S : B = -1..MaxRooms /\ S = 0..MaxChanges
    OBVIOUS
  <1>2. Document = [born : B, seq : S, end : S, carried : BOOLEAN]
    BY <1>1 DEF Document
  <1>3. d \in [born : B, seq : S, end : S, carried : BOOLEAN]
    BY <1>2
  <1>4. d.seq + 1 \in S
    BY <1>1, <1>3, BoundsAssumption
  <1>5. PICK n \in S : n = d.seq + 1
    BY <1>4
  <1>6. [d EXCEPT !.seq = n] \in Document
    BY ONLY <1>2, <1>3, <1>5
  <1>7. [d EXCEPT !.seq = n, !.end = n] \in Document
    BY ONLY <1>2, <1>3, <1>5
  <1>8. [d EXCEPT !.seq = n, !.carried = TRUE] \in Document
    BY ONLY <1>2, <1>3, <1>5
  <1>. QED BY <1>5, <1>6, <1>7, <1>8

\* What a creation stores.
LEMMA BornTyped ==
    ASSUME NEW n \in 0..MaxRooms
    PROVE  /\ [NoRoom EXCEPT !.born = n] \in Document
           /\ [NoRoom EXCEPT !.born = n].born = n
  <1>1. PICK B, S : B = -1..MaxRooms /\ S = 0..MaxChanges
    OBVIOUS
  <1>2. Document = [born : B, seq : S, end : S, carried : BOOLEAN]
    BY <1>1 DEF Document
  <1>3. n \in B /\ 0 \in B /\ 0 \in S
    BY <1>1, BoundsAssumption
  <1>4. NoRoom \in [born : B, seq : S, end : S, carried : BOOLEAN]
    BY <1>3 DEF NoRoom
  <1>. QED BY ONLY <1>2, <1>3, <1>4

\* A call that moved on is a call.
LEMMA MovedTyped ==
    ASSUME NEW s \in CallState,
           NEW p \in Pcs
    PROVE  [s EXCEPT !.pc = p] \in CallState
  BY DEF CallState, Pcs

LEMMA FoundTyped ==
    ASSUME NEW s \in CallState, NEW p \in InSection, NEW d \in Document
    PROVE  [s EXCEPT !.pc = p, !.copy = d] \in CallState
  BY DEF CallState

\* A section at its end, and the call that goes on to finish_game.
LEMMA LeavingTyped ==
    ASSUME NEW s \in CallState
    PROVE  /\ Leaving(s) \in CallState
           /\ Leaving(s).pc = "leaving"
           /\ Leaving(s).code = s.code
           /\ Leaving(s).used = s.used
  <1>1. NoRoom \in Document
    BY BoundsAssumption DEF NoRoom, Document
  <1>. QED BY <1>1 DEF Leaving, CallState, InSection

LEMMA FinishingTyped ==
    ASSUME NEW s \in CallState
    PROVE  /\ [s EXCEPT !.pc = "finishing", !.used = 0] \in CallState
           /\ [s EXCEPT !.pc = "finishing", !.used = 0].pc = "finishing"
           /\ [s EXCEPT !.pc = "finishing", !.used = 0].code = s.code
           /\ [s EXCEPT !.pc = "finishing", !.used = 0].copy = s.copy
  <1>1. PICK P, C, U, T : P = Pcs /\ C = Code \cup {NoCode} /\ U = 0..SectionTime /\ T = 0..MaxAttempts
    OBVIOUS
  <1>2. CallState = [pc : P, code : C, copy : Document, used : U, tries : T]
    BY <1>1 DEF CallState, Pcs
  <1>3. "finishing" \in P /\ 0 \in U
    BY <1>1, LeaseAssumption DEF Pcs
  <1>. QED BY ONLY <1>2, <1>3, s \in CallState

\* What becomes of a call whose section ends.
LEMMA SectionOver ==
    ASSUME TypeOK, NEW a \in Call, Unlock(a)
    PROVE  /\ calls[a].pc = "leaving" => calls' = [calls EXCEPT ![a] = Idle]
           /\ calls[a].pc = "ending" =>
                 calls' = [calls EXCEPT ![a] = [calls[a] EXCEPT !.pc = "finishing", !.used = 0]]
           /\ calls[a].pc \in {"leaving", "ending"}
  BY DEF Unlock, TypeOK

\* What get_room returns of a current document; no document is both current and old.
LEMMA FoundCurrent ==
    ASSUME NEW a, GetRoom(a), Current(doc[calls[a].code])
    PROVE  calls' = [calls EXCEPT ![a].pc = "holding", ![a].copy = doc[calls[a].code]]
  <1>1. doc[calls[a].code] # OldRoom
    BY DEF Current, OldRoom
  <1>. QED BY <1>1 DEF GetRoom

\* A call that is over, and one that has just begun, is a call.
LEMMA IdleTyped == Idle \in CallState
  <1>1. NoRoom \in Document
    BY BoundsAssumption DEF NoRoom, Document
  <1>. QED BY <1>1, BoundsAssumption, LeaseAssumption DEF Idle, CallState

LEMMA BegunTyped ==
    ASSUME NEW p \in Pcs,
           NEW c \in Code
    PROVE  [Idle EXCEPT !.pc = p, !.code = c] \in CallState
  BY IdleTyped DEF CallState, Pcs

LEMMA DrawnTyped ==
    ASSUME NEW p \in Pcs,
           NEW c \in Code, NEW n \in 0..MaxAttempts
    PROVE  /\ [Idle EXCEPT !.pc = p, !.tries = n] \in CallState
           /\ [Idle EXCEPT !.pc = p, !.code = c, !.tries = n] \in CallState
  BY IdleTyped DEF CallState, Pcs

\* A lease that runs down is a lease.
LEMMA TickTyped ==
    ASSUME NEW l \in [holder : Call \cup {NoCall}, left : 0..LockTimeout]
    PROVE  AfterTick(l) \in [holder : Call \cup {NoCall}, left : 0..LockTimeout]
  BY LeaseAssumption DEF AfterTick, Unlocked

LEMMA TypeStep ==
    ASSUME IInv, Next
    PROVE  TypeOK'
  <1>. USE BoundsAssumption, LeaseAssumption DEF IInv
  <1>1. TypeOK
    OBVIOUS
  <1>2. /\ NoRoom \in Document
        /\ Idle \in CallState
        /\ Unlocked \in [holder : Call \cup {NoCall}, left : 0..LockTimeout]
    <2>1. NoRoom \in Document
      BY DEF NoRoom, Document
    <2>. QED BY <2>1, IdleTyped DEF Unlocked
  <1>3. /\ doc \in [Code -> Document]
        /\ lock \in [Code -> [holder : Call \cup {NoCall}, left : 0..LockTimeout]]
        /\ calls \in [Call -> CallState]
        /\ opened \in 0..MaxRooms
        /\ crashes \in 0..MaxCrashes
    BY DEF TypeOK
  <1>4. ASSUME NEW a \in Call, NEW c \in Code, Lock(a, c)
        PROVE  TypeOK'
    <2>1. [Idle EXCEPT !.pc = "locked", !.code = c] \in CallState
      BY BegunTyped DEF InSection, Pcs
    <2>2. lock' \in [Code -> [holder : Call \cup {NoCall}, left : 0..LockTimeout]]
      BY <1>3, <1>4 DEF Lock
    <2>. QED BY <1>3, <1>4, <2>1, <2>2 DEF Lock, TypeOK
  <1>5. ASSUME NEW a \in Call, GetRoom(a)
        PROVE  TypeOK'
    <2>1. calls[a].code \in Code
      BY <1>5 DEF CallInv, GetRoom
    <2>2. doc[calls[a].code] \in Document
      BY <1>3, <2>1
    <2>3. ASSUME NEW p \in InSection, NEW d \in Document,
                 calls' = [calls EXCEPT ![a].pc = p, ![a].copy = d]
          PROVE  calls' \in [Call -> CallState]
      <3>1. [calls[a] EXCEPT !.pc = p, !.copy = d] \in CallState
        BY <1>3, <2>3, FoundTyped
      <3>2. calls' = [calls EXCEPT ![a] = [calls[a] EXCEPT !.pc = p, !.copy = d]]
        BY <1>3, <2>3
      <3>. QED BY <1>3, <3>1, <3>2
    <2>4. calls' \in [Call -> CallState]
      <3>1. CASE Current(doc[calls[a].code])
        <4>1. calls' = [calls EXCEPT ![a].pc = "holding", ![a].copy = doc[calls[a].code]]
          BY <1>5, <3>1, FoundCurrent
        <4>. QED BY <2>2, <2>3, <4>1 DEF InSection
      <3>2. CASE ~Current(doc[calls[a].code]) /\ doc[calls[a].code] = OldRoom
        <4>1. calls' = [calls EXCEPT ![a].pc = "discarding", ![a].copy = NoRoom]
          BY <1>5, <3>2 DEF GetRoom
        <4>. QED BY <1>2, <2>3, <4>1 DEF InSection
      <3>3. CASE ~Current(doc[calls[a].code]) /\ doc[calls[a].code] # OldRoom
        <4>1. calls' = [calls EXCEPT ![a].pc = "leaving", ![a].copy = NoRoom]
          BY <1>5, <3>3 DEF GetRoom
        <4>. QED BY <1>2, <2>3, <4>1 DEF InSection
      <3>. QED BY <3>1, <3>2, <3>3
    <2>. QED BY <1>3, <1>5, <2>4 DEF GetRoom, TypeOK
  <1>6. ASSUME NEW a \in Call, Discard(a)
        PROVE  TypeOK'
    <2>1. [calls[a] EXCEPT !.pc = "leaving"] \in CallState
      BY <1>3, MovedTyped DEF InSection, Pcs
    <2>. QED BY <1>2, <1>3, <1>6, <2>1 DEF Discard, TypeOK
  <1>7. ASSUME NEW a \in Call, SaveRoom(a)
        PROVE  TypeOK'
    <2>1. Leaving(calls[a]) \in CallState
      BY <1>3, LeavingTyped
    <2>2. [calls[a].copy EXCEPT !.seq = @ + 1] \in Document
      BY <1>1, <1>7, CallParts, ChangedTyped DEF SaveRoom
    <2>. QED BY <1>3, <1>7, <2>1, <2>2 DEF SaveRoom, TypeOK
  <1>8. ASSUME NEW a \in Call, Refuse(a)
        PROVE  TypeOK'
    <2>1. Leaving(calls[a]) \in CallState
      BY <1>3, LeavingTyped
    <2>. QED BY <1>3, <1>8, <2>1 DEF Refuse, TypeOK
  <1>9. ASSUME NEW a \in Call, Unlock(a)
        PROVE  TypeOK'
    <2>1. lock' \in [Code -> [holder : Call \cup {NoCall}, left : 0..LockTimeout]]
      BY <1>2, <1>3, <1>9 DEF Unlock
    <2>2. calls' \in [Call -> CallState]
      <3>1. CASE calls[a].pc = "leaving"
        BY <1>1, <1>2, <1>3, <1>9, <3>1, SectionOver
      <3>2. CASE calls[a].pc = "ending"
        <4>1. calls' = [calls EXCEPT ![a] = [calls[a] EXCEPT !.pc = "finishing", !.used = 0]]
          BY <1>1, <1>9, <3>2, SectionOver
        <4>. QED BY <1>3, <4>1, FinishingTyped
      <3>. QED BY <1>1, <1>9, <3>1, <3>2, SectionOver
    <2>. QED BY <1>3, <1>9, <2>1, <2>2 DEF Unlock, TypeOK
  <1>10. ASSUME NEW a \in Call, NEW c \in Code, Peek(a, c)
         PROVE  TypeOK'
    <2>1. [Idle EXCEPT !.pc = "peeking", !.code = c] \in CallState
      BY BegunTyped DEF Pcs
    <2>. QED BY <1>3, <1>10, <2>1 DEF Peek, TypeOK
  <1>11. ASSUME NEW a \in Call, DiscardPeeked(a)
         PROVE  TypeOK'
    BY <1>2, <1>3, <1>11 DEF DiscardPeeked, TypeOK
  <1>12. ASSUME NEW a \in Call, NEW c \in Code, Draw(a, c)
         PROVE  TypeOK'
    <2>1. calls[a].tries + 1 \in 0..MaxAttempts
      BY <1>1, <1>12, CallParts DEF CallInv, Draw
    <2>2. /\ [Idle EXCEPT !.pc = "drawing", !.tries = calls[a].tries + 1] \in CallState
          /\ [Idle EXCEPT !.pc = "clearing", !.code = c, !.tries = calls[a].tries + 1] \in CallState
          /\ [Idle EXCEPT !.pc = "creating", !.code = c, !.tries = calls[a].tries + 1] \in CallState
      BY <2>1, DrawnTyped DEF Creating, Pcs
    <2>3. \E s \in CallState : calls' = [calls EXCEPT ![a] = s]
      <3>1. CASE Taken(c)
        BY <1>2, <1>12, <2>2, <3>1 DEF Draw
      <3>2. CASE ~Taken(c) /\ doc[c] = OldRoom
        BY <1>12, <2>2, <3>2 DEF Draw
      <3>3. CASE ~Taken(c) /\ doc[c] # OldRoom
        BY <1>12, <2>2, <3>3 DEF Draw
      <3>. QED BY <3>1, <3>2, <3>3
    <2>. QED BY <1>3, <1>12, <2>3 DEF Draw, TypeOK
  <1>13. ASSUME NEW a \in Call, ClearDrawn(a)
         PROVE  TypeOK'
    <2>1. [calls[a] EXCEPT !.pc = "creating"] \in CallState
      BY <1>3, MovedTyped DEF Creating, Pcs
    <2>. QED BY <1>2, <1>3, <1>13, <2>1 DEF ClearDrawn, TypeOK
  <1>14. ASSUME NEW a \in Call, CreateRoom(a)
         PROVE  TypeOK'
    <2>1. a \in Creators /\ IsFiniteSet(Creators)
      BY <1>14, CallAssumption, FS_Subset DEF CreateRoom, Creators, Creating
    <2>2. Cardinality(Creators) \in Nat /\ Cardinality(Creators \ {a}) = Cardinality(Creators) - 1
      BY <2>1, FS_CardinalityType, FS_RemoveElement
    <2>3. Cardinality(Creators \ {a}) \in Nat
      BY <2>1, FS_CardinalityType, FS_RemoveElement
    <2>4. opened + 1 \in 0..MaxRooms
      BY <1>3, <2>2, <2>3 DEF RoomsCounted
    <2>5. [NoRoom EXCEPT !.born = opened + 1] \in Document
      BY <1>2, <1>3, <2>4, BornTyped
    <2>. QED BY <1>2, <1>3, <1>14, <2>4, <2>5 DEF CreateRoom, TypeOK
  <1>15. ASSUME Tick
         PROVE  TypeOK'
    <2>1. lock' \in [Code -> [holder : Call \cup {NoCall}, left : 0..LockTimeout]]
      BY <1>3, <1>15, TickTyped DEF Tick
    <2>2. ASSUME NEW a \in Call, calls[a].pc \in InSection
          PROVE  [calls[a] EXCEPT !.used = @ + 1] \in CallState
      <3>1. calls[a].used < SectionTime
        BY <1>15, <2>2 DEF Tick
      <3>2. calls[a].used + 1 \in 0..SectionTime
        BY <1>1, <3>1, CallParts
      <3>. QED BY <1>3, <3>2 DEF CallState
    <2>3. calls' \in [Call -> CallState]
      BY <1>3, <1>15, <2>2 DEF Tick
    <2>. QED BY <1>3, <1>15, <2>1, <2>3 DEF Tick, TypeOK
  <1>16. ASSUME NEW c \in Code, Expire(c)
         PROVE  TypeOK'
    BY <1>2, <1>3, <1>16 DEF Expire, TypeOK
  <1>17. ASSUME NEW a \in Call, Crash(a)
         PROVE  TypeOK'
    BY <1>2, <1>3, <1>17 DEF Crash, TypeOK
  <1>18. ASSUME NEW a \in Call, SaveEnded(a)
         PROVE  TypeOK'
    <2>1. PICK d : d = [calls[a].copy EXCEPT !.seq = @ + 1, !.end = calls[a].copy.seq + 1]
      OBVIOUS
    <2>2. d \in Document
      <3>1. calls[a].copy \in Document /\ calls[a].copy.seq < MaxChanges
        BY <1>1, <1>18, CallParts DEF SaveEnded, Document
      <3>. QED BY <2>1, <3>1, ChangedTyped
    <2>3. /\ doc' = [doc EXCEPT ![calls[a].code] = d]
          /\ calls' = [calls EXCEPT ![a].pc = "ending", ![a].copy = d]
      BY <1>18, <2>1 DEF SaveEnded
    <2>4. [calls[a] EXCEPT !.pc = "ending", !.copy = d] \in CallState
      BY <1>3, <2>2, FoundTyped DEF InSection
    <2>5. calls' \in [Call -> CallState]
      BY <1>3, <2>3, <2>4
    <2>6. UNCHANGED <<lock, opened, crashes>>
      BY <1>18 DEF SaveEnded
    <2>. QED BY ONLY <1>3, <2>2, <2>3, <2>5, <2>6 DEF TypeOK
  <1>19. ASSUME NEW a \in Call, SaveCarried(a)
         PROVE  TypeOK'
    <2>1. calls[a].copy.seq < MaxChanges
      BY <1>19 DEF CallInv, SaveCarried, Carrying
    <2>2. [calls[a].copy EXCEPT !.seq = @ + 1, !.carried = TRUE] \in Document
      BY <1>1, <2>1, CallParts, ChangedTyped
    <2>. QED BY <1>2, <1>3, <1>19, <2>2 DEF SaveCarried, TypeOK
  <1>. QED
    BY <1>4, <1>5, <1>6, <1>7, <1>8, <1>9, <1>10, <1>11, <1>12, <1>13, <1>14, <1>15,
       <1>16, <1>17, <1>18, <1>19 DEF Next

-------------------------------------------------------------------------------
(* Every step preserves what is known of the calls.                            *)

\* A call that does nothing keeps what it knows when its lease is left alone and
\* what is stored at its code is left alone, or becomes nothing while it was no room.
LEMMA OthersKeep ==
    ASSUME NEW b \in Call, CallInv(b), calls'[b] = calls[b],
           calls[b].pc \in InSection => lock'[calls[b].code] = lock[calls[b].code],
           \/ calls[b].pc \in {"idle", "drawing"}
           \/ doc'[calls[b].code] = doc[calls[b].code]
           \/ ~Current(doc[calls[b].code]) /\ doc'[calls[b].code] = NoRoom
    PROVE  CallInv(b)'
  <1>1. ~Current(NoRoom)
    BY DEF Current, NoRoom
  <1>2. (calls[b].pc \in InSection)' <=> calls[b].pc \in InSection
    BY DEF InSection
  <1>3. CASE \/ calls[b].pc \in {"idle", "drawing"}
             \/ doc'[calls[b].code] = doc[calls[b].code]
    BY <1>2, <1>3 DEF CallInv, Current, SavedOver, Carrying, InSection
  <1>4. CASE ~Current(doc[calls[b].code]) /\ doc'[calls[b].code] = NoRoom
    BY <1>1, <1>2, <1>4 DEF CallInv, Current, SavedOver
  <1>. QED BY <1>3, <1>4

\* A call that does nothing while a room is saved over: its section holds what finish_game
\* replaced, or it carries a game that is still not put back.
LEMMA SavedOverKeeps ==
    ASSUME NEW b \in Call, CallInv(b), calls'[b] = calls[b], lock' = lock,
           Current(doc[calls[b].code]), Current(doc'[calls[b].code]),
           calls[b].pc = "holding" => SavedOver(calls[b].copy, doc'[calls[b].code]),
           calls[b].pc \in Carrying =>
               doc'[calls[b].code].end # 0 /\ ~doc'[calls[b].code].carried
    PROVE  CallInv(b)'
  <1>1. (calls[b].pc \in InSection)' <=> calls[b].pc \in InSection
    BY DEF InSection
  <1>2. doc[calls[b].code] # NoRoom
    BY DEF Current, NoRoom
  <1>3. ~(calls[b].pc \in {"discarding", "peeking", "clearing", "creating"})
    BY <1>2 DEF CallInv
  <1>4. (calls[b].pc = "holding")' => SavedOver(calls[b].copy, doc[calls[b].code])'
    BY DEF SavedOver, Current
  <1>. QED BY <1>1, <1>3, <1>4 DEF CallInv, Current

\* A call that is over knows nothing.
LEMMA IdleKnows ==
    ASSUME NEW b \in Call, calls'[b] = Idle
    PROVE  CallInv(b)'
  BY BoundsAssumption DEF CallInv, Idle, InSection, Carrying

\* Two live sections are at different codes.
LEMMA OneSection ==
    ASSUME NEW a \in Call, NEW b \in Call, CallInv(a), CallInv(b),
           calls[a].pc \in InSection, calls[b].pc \in InSection,
           calls[a].code = calls[b].code
    PROVE  a = b
  BY DEF CallInv

LEMMA CallStep ==
    ASSUME IInv, Next, TypeOK', NEW b \in Call
    PROVE  CallInv(b)'
  <1>. USE BoundsAssumption, LeaseAssumption, NoneAssumption
  <1>1. /\ doc \in [Code -> Document]
        /\ lock \in [Code -> [holder : Call \cup {NoCall}, left : 0..LockTimeout]]
        /\ calls \in [Call -> CallState]
        /\ opened \in 0..MaxRooms
    BY DEF IInv, TypeOK
  <1>2. CallInv(b)
    BY DEF IInv
  <1>3. calls[b].pc \notin {"idle", "drawing"} => calls[b].code \in Code
    BY <1>2 DEF CallInv
  <1>4. ASSUME NEW a \in Call, NEW c \in Code, Lock(a, c)
        PROVE  CallInv(b)'
    <2>1. CASE b = a
      <3>1. /\ calls'[a].pc = "locked"
            /\ calls'[a].code = c
            /\ calls'[a].used = 0
            /\ lock'[c] = [holder |-> a, left |-> LockTimeout]
        BY <1>1, <1>4 DEF Lock, Idle
      <3>. QED BY <2>1, <3>1 DEF CallInv, InSection, Carrying
    <2>2. CASE b # a
      <3>1. calls'[b] = calls[b] /\ doc' = doc
        BY <1>1, <1>4, <2>2 DEF Lock
      <3>2. ASSUME calls[b].pc \in InSection
            PROVE  lock'[calls[b].code] = lock[calls[b].code]
        <4>1. calls[b].code # c
          BY <1>2, <1>4, <3>2 DEF CallInv, Lock, MayLock, Held
        <4>. QED BY <1>1, <1>4, <4>1 DEF Lock
      <3>. QED BY <1>2, <3>1, <3>2, OthersKeep
    <2>. QED BY <2>1, <2>2
  <1>5. ASSUME NEW a \in Call, GetRoom(a)
        PROVE  CallInv(b)'
    <2>1. calls[a].code \in Code /\ calls[a].pc \in InSection
      BY <1>5 DEF CallInv, GetRoom, InSection, IInv
    <2>2. CASE b = a
      <3>1. /\ lock' = lock
            /\ doc' = doc
            /\ calls'[a].code = calls[a].code
            /\ calls'[a].used = calls[a].used
        BY <1>1, <1>5 DEF GetRoom, CallState
      <3>2. CASE Current(doc[calls[a].code])
        <4>1. calls'[a].pc = "holding" /\ calls'[a].copy = doc[calls[a].code]
          <5>1. calls' = [calls EXCEPT ![a].pc = "holding", ![a].copy = doc[calls[a].code]]
            BY <1>5, <3>2, FoundCurrent
          <5>. QED BY <1>1, <5>1 DEF CallState
        <4>. QED BY <1>2, <2>1, <2>2, <3>1, <3>2, <4>1 DEF CallInv, InSection, Carrying, Current
      <3>3. CASE ~Current(doc[calls[a].code]) /\ doc[calls[a].code] = OldRoom
        <4>1. calls'[a].pc = "discarding"
          <5>1. calls' = [calls EXCEPT ![a].pc = "discarding", ![a].copy = NoRoom]
            BY <1>5, <3>3 DEF GetRoom
          <5>. QED BY <1>1, <5>1 DEF CallState
        <4>. QED BY <1>2, <2>1, <2>2, <3>1, <3>3, <4>1 DEF CallInv, InSection, Carrying, Current
      <3>4. CASE ~Current(doc[calls[a].code]) /\ doc[calls[a].code] # OldRoom
        <4>1. calls'[a].pc = "leaving"
          <5>1. calls' = [calls EXCEPT ![a].pc = "leaving", ![a].copy = NoRoom]
            BY <1>5, <3>4 DEF GetRoom
          <5>. QED BY <1>1, <5>1 DEF CallState
        <4>. QED BY <1>2, <2>1, <2>2, <3>1, <4>1 DEF CallInv, InSection, Carrying
      <3>. QED BY <3>2, <3>3, <3>4
    <2>3. CASE b # a
      <3>1. calls'[b] = calls[b] /\ doc' = doc /\ lock' = lock
        BY <1>1, <1>5, <2>3 DEF GetRoom
      <3>. QED BY <1>2, <3>1, OthersKeep
    <2>. QED BY <2>2, <2>3
  <1>6. ASSUME NEW a \in Call, Discard(a)
        PROVE  CallInv(b)'
    <2>1. /\ CallInv(a) /\ calls[a].code \in Code /\ calls[a].pc \in InSection
          /\ ~Current(doc[calls[a].code])
      BY <1>6 DEF CallInv, Discard, InSection, IInv
    <2>2. CASE b = a
      <3>1. /\ lock' = lock
            /\ calls'[a].pc = "leaving"
            /\ calls'[a].code = calls[a].code
            /\ calls'[a].used = calls[a].used
        BY <1>1, <1>6 DEF Discard, CallState
      <3>. QED BY <2>1, <2>2, <3>1 DEF CallInv, InSection, Carrying
    <2>3. CASE b # a
      <3>1. calls'[b] = calls[b] /\ lock' = lock
        BY <1>1, <1>6, <2>3 DEF Discard
      <3>2. \A c \in Code : IF c = calls[a].code THEN doc'[c] = NoRoom ELSE doc'[c] = doc[c]
        BY <1>1, <1>6 DEF Discard
      <3>. QED BY <1>2, <1>3, <2>1, <3>1, <3>2, OthersKeep
    <2>. QED BY <2>2, <2>3
  <1>7. ASSUME NEW a \in Call, SaveRoom(a)
        PROVE  CallInv(b)'
    <2>1. /\ CallInv(a)
          /\ calls[a].code \in Code
          /\ calls[a].pc \in InSection
          /\ Current(doc[calls[a].code])
          /\ Current(calls[a].copy) /\ calls[a].copy \in Document
      BY <1>7, CallParts DEF CallInv, SaveRoom, SavedOver, InSection, IInv
    <2>2. CASE b = a
      <3>1. /\ lock' = lock
            /\ calls'[a] = Leaving(calls[a])
        BY <1>1, <1>7 DEF SaveRoom
      <3>. QED BY <1>1, <2>1, <2>2, <3>1, LeavingTyped DEF CallInv, InSection, Carrying
    <2>3. CASE b # a
      <3>1. calls'[b] = calls[b] /\ lock' = lock
        BY <1>1, <1>7, <2>3 DEF SaveRoom
      <3>2. CASE calls[b].code # calls[a].code
        <4>1. \A c \in Code : c # calls[a].code => doc'[c] = doc[c]
          BY <1>1, <1>7 DEF SaveRoom
        <4>. QED BY <1>2, <1>3, <3>1, <3>2, <4>1, OthersKeep
      <3>3. CASE calls[b].code = calls[a].code
        <4>1. calls[b].pc \notin InSection
          BY <1>2, <2>1, <2>3, <3>3, OneSection
        <4>2. PICK n : n = [calls[a].copy EXCEPT !.seq = @ + 1]
          OBVIOUS
        <4>3. doc'[calls[b].code] = n
          BY <1>1, <1>7, <2>1, <3>3, <4>2 DEF SaveRoom
        <4>4. n.born = calls[a].copy.born /\ n.end = calls[a].copy.end
                /\ n.carried = calls[a].copy.carried
          BY <2>1, <4>2 DEF Document
        <4>5. Current(doc'[calls[b].code])
          BY <2>1, <4>3, <4>4 DEF Current
        <4>6. ASSUME calls[b].pc \in Carrying
              PROVE  doc'[calls[b].code].end # 0 /\ ~doc'[calls[b].code].carried
          <5>1. doc[calls[b].code].end # 0 /\ ~doc[calls[b].code].carried
            BY <1>2, <4>6 DEF CallInv
          <5>2. doc[calls[a].code] = calls[a].copy
            BY <1>7, <2>1, <3>3, <5>1 DEF CallInv, SavedOver, SaveRoom
          <5>. QED BY <3>3, <4>3, <4>4, <5>1, <5>2
        <4>7. calls[b].pc # "holding"
          BY <4>1 DEF InSection
        <4>. QED BY <1>2, <2>1, <3>1, <3>3, <4>5, <4>6, <4>7, SavedOverKeeps
      <3>. QED BY <3>2, <3>3
    <2>. QED BY <2>2, <2>3
  <1>8. ASSUME NEW a \in Call, Refuse(a)
        PROVE  CallInv(b)'
    <2>1. CallInv(a) /\ calls[a].code \in Code /\ calls[a].pc \in InSection
      BY <1>8 DEF CallInv, Refuse, InSection, IInv
    <2>2. CASE b = a
      <3>1. /\ lock' = lock
            /\ calls'[a] = Leaving(calls[a])
        BY <1>1, <1>8 DEF Refuse
      <3>. QED BY <1>1, <2>1, <2>2, <3>1, LeavingTyped DEF CallInv, InSection, Carrying
    <2>3. CASE b # a
      <3>1. calls'[b] = calls[b] /\ doc' = doc /\ lock' = lock
        BY <1>1, <1>8, <2>3 DEF Refuse
      <3>. QED BY <1>2, <3>1, OthersKeep
    <2>. QED BY <2>2, <2>3
  <1>9. ASSUME NEW a \in Call, Unlock(a)
        PROVE  CallInv(b)'
    <2>1. CallInv(a) /\ calls[a].code \in Code /\ calls[a].pc \in InSection
      BY <1>9 DEF CallInv, Unlock, InSection, IInv
    <2>2. CASE b = a
      <3>1. CASE calls[a].pc = "leaving"
        <4>1. calls'[a] = Idle
          BY <1>1, <1>9, <3>1, SectionOver DEF IInv
        <4>. QED BY <2>2, <4>1, IdleKnows
      <3>2. CASE calls[a].pc = "ending"
        <4>1. calls' = [calls EXCEPT ![a] = [calls[a] EXCEPT !.pc = "finishing", !.used = 0]]
          BY <1>9, <3>2, SectionOver DEF IInv
        <4>2. /\ calls'[a].pc = "finishing"
              /\ calls'[a].code = calls[a].code
              /\ calls'[a].copy = calls[a].copy
              /\ doc' = doc
          <5>1. PICK s \in CallState : s = calls[a]
            BY <1>1
          <5>2. PICK t : t = [s EXCEPT !.pc = "finishing", !.used = 0]
            OBVIOUS
          <5>3. t.pc = "finishing" /\ t.code = s.code /\ t.copy = s.copy
            BY <5>2, FinishingTyped
          <5>4. calls'[a] = t
            BY <1>1, <4>1, <5>1, <5>2
          <5>. QED BY <1>9, <5>1, <5>3, <5>4 DEF Unlock
        <4>. QED BY <2>1, <2>2, <3>2, <4>2 DEF CallInv, InSection, Carrying, Current
      <3>. QED BY <1>9, <3>1, <3>2, SectionOver DEF IInv
    <2>3. CASE b # a
      <3>1. calls'[b] = calls[b] /\ doc' = doc
        BY <1>1, <1>9, <2>3 DEF Unlock
      <3>2. calls[b].pc \in InSection => calls[b].code # calls[a].code
        BY <1>2, <2>1, <2>3, OneSection
      <3>3. \A c \in Code : c # calls[a].code => lock'[c] = lock[c]
        BY <1>1, <1>9 DEF Unlock
      <3>4. calls[b].pc \in InSection => calls[b].code \in Code
        BY <1>3 DEF InSection
      <3>. QED BY <1>2, <3>1, <3>2, <3>3, <3>4, OthersKeep
    <2>. QED BY <2>2, <2>3
  <1>10. ASSUME NEW a \in Call, NEW c \in Code, Peek(a, c)
         PROVE  CallInv(b)'
    <2>1. CASE b = a
      <3>1. calls'[a].pc = "peeking" /\ calls'[a].code = c /\ doc'[c] = OldRoom
        BY <1>1, <1>10 DEF Peek, Idle
      <3>. QED BY <2>1, <3>1 DEF CallInv, InSection, Carrying, Current, OldRoom
    <2>2. CASE b # a
      <3>1. calls'[b] = calls[b] /\ doc' = doc /\ lock' = lock
        BY <1>1, <1>10, <2>2 DEF Peek
      <3>. QED BY <1>2, <3>1, OthersKeep
    <2>. QED BY <2>1, <2>2
  <1>11. ASSUME NEW a \in Call, DiscardPeeked(a)
         PROVE  CallInv(b)'
    <2>1. calls[a].code \in Code /\ ~Current(doc[calls[a].code])
      BY <1>11 DEF CallInv, DiscardPeeked, IInv
    <2>2. CASE b = a
      <3>1. calls'[a] = Idle
        BY <1>1, <1>11 DEF DiscardPeeked
      <3>. QED BY <2>2, <3>1, IdleKnows
    <2>3. CASE b # a
      <3>1. calls'[b] = calls[b] /\ lock' = lock
        BY <1>1, <1>11, <2>3 DEF DiscardPeeked
      <3>2. \A c \in Code : IF c = calls[a].code THEN doc'[c] = NoRoom ELSE doc'[c] = doc[c]
        BY <1>1, <1>11 DEF DiscardPeeked
      <3>. QED BY <1>2, <1>3, <2>1, <3>1, <3>2, OthersKeep
    <2>. QED BY <2>2, <2>3
  <1>12. ASSUME NEW a \in Call, NEW c \in Code, Draw(a, c)
         PROVE  CallInv(b)'
    <2>1. CASE b = a
      <3>1. calls[a].tries \in 0..MaxAttempts /\ calls[a].tries < MaxAttempts
        BY <1>1, <1>2, <1>12, <2>1 DEF CallInv, Draw, CallState
      <3>2. CASE Taken(c) /\ LastAttempt(calls[a].tries + 1)
        <4>1. calls'[a] = Idle
          BY <1>1, <1>12, <3>2 DEF Draw
        <4>. QED BY <2>1, <4>1, IdleKnows
      <3>3. CASE Taken(c) /\ ~LastAttempt(calls[a].tries + 1)
        <4>1. calls'[a].pc = "drawing" /\ calls'[a].tries = calls[a].tries + 1
          <5>1. calls'[a] = [Idle EXCEPT !.pc = "drawing", !.tries = calls[a].tries + 1]
            BY <1>1, <1>12, <3>3 DEF Draw
          <5>. QED BY <5>1 DEF Idle
        <4>2. calls[a].tries + 1 < MaxAttempts
          BY <3>1, <3>3 DEF LastAttempt
        <4>. QED BY <2>1, <4>1, <4>2 DEF CallInv, InSection, Carrying
      <3>4. CASE ~Taken(c) /\ doc[c] = OldRoom
        <4>1. calls'[a].pc = "clearing" /\ calls'[a].code = c /\ doc' = doc
          <5>1. calls'[a] = [Idle EXCEPT !.pc = "clearing", !.code = c, !.tries = calls[a].tries + 1]
            BY <1>1, <1>12, <3>4 DEF Draw
          <5>. QED BY <1>12, <5>1, ZenonT(30) DEF Idle, Draw
        <4>. QED BY <2>1, <3>4, <4>1 DEF CallInv, InSection, Carrying, Taken, Current
      <3>5. CASE ~Taken(c) /\ doc[c] # OldRoom
        <4>1. calls'[a].pc = "creating" /\ calls'[a].code = c /\ doc' = doc
          <5>1. calls'[a] = [Idle EXCEPT !.pc = "creating", !.code = c, !.tries = calls[a].tries + 1]
            BY <1>1, <1>12, <3>5 DEF Draw
          <5>. QED BY <1>12, <5>1, ZenonT(30) DEF Idle, Draw
        <4>2. doc[c] = NoRoom
          BY <3>5 DEF DocsKnown, Taken, IInv
        <4>. QED BY <2>1, <4>1, <4>2 DEF CallInv, InSection, Carrying, NoRoom
      <3>. QED BY <3>2, <3>3, <3>4, <3>5
    <2>2. CASE b # a
      <3>1. calls'[b] = calls[b] /\ doc' = doc /\ lock' = lock
        BY <1>1, <1>12, <2>2 DEF Draw
      <3>. QED BY <1>2, <3>1, OthersKeep
    <2>. QED BY <2>1, <2>2
  <1>13. ASSUME NEW a \in Call, ClearDrawn(a)
         PROVE  CallInv(b)'
    <2>1. calls[a].code \in Code /\ ~Current(doc[calls[a].code])
      BY <1>13 DEF CallInv, ClearDrawn, IInv
    <2>2. CASE b = a
      <3>1. /\ calls'[a].pc = "creating"
            /\ calls'[a].code = calls[a].code
            /\ doc'[calls[a].code] = NoRoom
        BY <1>1, <1>13, <2>1 DEF ClearDrawn, CallState
      <3>. QED BY <2>1, <2>2, <3>1 DEF CallInv, InSection, Carrying
    <2>3. CASE b # a
      <3>1. calls'[b] = calls[b] /\ lock' = lock
        BY <1>1, <1>13, <2>3 DEF ClearDrawn
      <3>2. \A c \in Code : IF c = calls[a].code THEN doc'[c] = NoRoom ELSE doc'[c] = doc[c]
        BY <1>1, <1>13 DEF ClearDrawn
      <3>. QED BY <1>2, <1>3, <2>1, <3>1, <3>2, OthersKeep
    <2>. QED BY <2>2, <2>3
  <1>14. ASSUME NEW a \in Call, CreateRoom(a)
         PROVE  CallInv(b)'
    <2>1. calls[a].code \in Code /\ calls[a].pc \in Creating
      BY <1>14 DEF CallInv, CreateRoom, Creating, IInv
    <2>2. CASE b = a
      <3>1. calls'[a] = Idle
        BY <1>1, <1>14 DEF CreateRoom
      <3>. QED BY <2>2, <3>1, IdleKnows
    <2>3. CASE b # a
      <3>1. calls'[b] = calls[b] /\ lock' = lock
        BY <1>1, <1>14, <2>3 DEF CreateRoom
      <3>2. calls[b].code # calls[a].code
        BY <2>1, <2>3 DEF Alone, IInv
      <3>3. \A c \in Code : c # calls[a].code => doc'[c] = doc[c]
        BY <1>1, <1>14 DEF CreateRoom
      <3>. QED BY <1>2, <1>3, <3>1, <3>2, <3>3, OthersKeep
    <2>. QED BY <2>2, <2>3
  <1>15. ASSUME Tick
         PROVE  CallInv(b)'
    <2>1. /\ calls'[b].pc = calls[b].pc
          /\ calls'[b].code = calls[b].code
          /\ calls'[b].copy = calls[b].copy
          /\ calls'[b].tries = calls[b].tries
          /\ doc' = doc
      BY <1>1, <1>15 DEF Tick, CallState
    <2>2. ASSUME calls[b].pc \in InSection
          PROVE  /\ lock'[calls[b].code].holder = b
                 /\ lock'[calls[b].code].left + calls'[b].used = LockTimeout
      <3>1. calls[b].code \in Code
        BY <1>3, <2>2 DEF InSection
      <3>2. /\ calls[b].used \in Nat
            /\ calls[b].used < SectionTime
            /\ calls'[b].used = calls[b].used + 1
        <4>1. calls'[b] = [calls[b] EXCEPT !.used = @ + 1]
          BY <1>1, <1>15, <2>2 DEF Tick
        <4>. QED BY <1>1, <1>15, <2>2, <4>1 DEF Tick, CallState
      <3>3. /\ lock[calls[b].code].holder = b
            /\ lock[calls[b].code].left \in Nat
            /\ lock[calls[b].code].left + calls[b].used = LockTimeout
        BY <1>1, <1>2, <2>2, <3>1 DEF CallInv
      <3>4. lock[calls[b].code].left > 1
        BY <3>2, <3>3
      <3>5. lock'[calls[b].code] = [lock[calls[b].code] EXCEPT !.left = @ - 1]
        <4>1. b # NoCall
          OBVIOUS
        <4>2. ~(lock[calls[b].code].left <= 1)
          BY <3>3, <3>4
        <4>3. lock'[calls[b].code] = AfterTick(lock[calls[b].code])
          BY <1>15, <3>1 DEF Tick
        <4>. QED BY <3>3, <4>1, <4>2, <4>3 DEF AfterTick
      <3>6. /\ lock'[calls[b].code].holder = b
            /\ lock'[calls[b].code].left = lock[calls[b].code].left - 1
        BY <1>1, <3>1, <3>3, <3>5
      <3>. QED BY <3>2, <3>3, <3>6
    <2>. QED BY <1>2, <2>1, <2>2 DEF CallInv, SavedOver
  <1>16. ASSUME NEW c \in Code, Expire(c)
         PROVE  CallInv(b)'
    <2>1. calls' = calls /\ lock' = lock /\ calls[b].code # c
      BY <1>16 DEF Expire, NobodyAt, At
    <2>2. \A e \in Code : e # c => doc'[e] = doc[e]
      BY <1>1, <1>16 DEF Expire
    <2>. QED BY <1>2, <1>3, <2>1, <2>2, OthersKeep
  <1>17. ASSUME NEW a \in Call, Crash(a)
         PROVE  CallInv(b)'
    <2>1. CASE b = a
      <3>1. calls'[a] = Idle
        BY <1>1, <1>17 DEF Crash
      <3>. QED BY <2>1, <3>1, IdleKnows
    <2>2. CASE b # a
      <3>1. calls'[b] = calls[b] /\ doc' = doc /\ lock' = lock
        BY <1>1, <1>17, <2>2 DEF Crash
      <3>. QED BY <1>2, <3>1, OthersKeep
    <2>. QED BY <2>1, <2>2
  <1>18. ASSUME NEW a \in Call, SaveEnded(a)
         PROVE  CallInv(b)'
    <2>1. /\ CallInv(a)
          /\ calls[a].code \in Code
          /\ calls[a].pc \in InSection
          /\ calls[a].copy \in Document /\ Current(calls[a].copy)
          /\ calls[a].copy.end = 0
          /\ doc[calls[a].code] = calls[a].copy
      BY <1>18, CallParts DEF CallInv, SaveEnded, SavedOver, InSection, IInv
    <2>2. PICK n : n = [calls[a].copy EXCEPT !.seq = @ + 1, !.end = calls[a].copy.seq + 1]
      OBVIOUS
    <2>3. /\ Current(n) /\ n.end # 0 /\ n.seq < MaxChanges
          /\ n.carried = calls[a].copy.carried
      BY <1>18, <2>1, <2>2 DEF Current, Document, SaveEnded
    <2>4. /\ doc' = [doc EXCEPT ![calls[a].code] = n]
          /\ calls' = [calls EXCEPT ![a].pc = "ending", ![a].copy = n]
          /\ lock' = lock
      BY <1>18, <2>2 DEF SaveEnded
    <2>5. CASE b = a
      <3>1. /\ calls'[a].pc = "ending"
            /\ calls'[a].copy = n
            /\ calls'[a].code = calls[a].code
            /\ calls'[a].used = calls[a].used
        BY <1>1, <2>4 DEF CallState
      <3>2. doc'[calls[a].code] = n
        BY <1>1, <2>1, <2>4
      <3>3. ~n.carried
        BY <2>1, <2>3 DEF IInv, DocsKnown
      <3>. QED BY <2>1, <2>3, <2>4, <2>5, <3>1, <3>2, <3>3 DEF CallInv, InSection, Carrying, Current
    <2>6. CASE b # a
      <3>1. calls'[b] = calls[b]
        BY <1>1, <2>4, <2>6
      <3>2. calls[b].pc \in InSection => calls[b].code # calls[a].code
        BY <1>2, <2>1, <2>6, OneSection
      <3>3. calls[b].pc \notin {"idle", "drawing"} => calls[b].code # calls[a].code
        <4>1. ~Current(NoRoom)
          BY DEF Current, NoRoom
        <4>2. calls[b].pc \in Pcs
          BY <1>1 DEF CallState, Pcs
        <4>3. SUFFICES ASSUME calls[b].pc \notin {"idle", "drawing"},
                              calls[b].code = calls[a].code
                       PROVE  FALSE
          OBVIOUS
        <4>4. Current(doc[calls[b].code]) /\ doc[calls[b].code].end = 0
          BY <2>1, <4>3
        <4>5. calls[b].pc \notin InSection
          BY <3>2, <4>3
        <4>6. calls[b].pc \notin Carrying
          BY <1>2, <4>4 DEF CallInv
        <4>7. calls[b].pc \notin {"peeking", "clearing", "creating"}
          BY <1>2, <4>1, <4>4 DEF CallInv, Current
        <4>. QED BY <4>2, <4>3, <4>5, <4>6, <4>7 DEF InSection, Carrying, Creating, Pcs
      <3>4. \A c \in Code : c # calls[a].code => doc'[c] = doc[c]
        BY <1>1, <2>4
      <3>. QED BY <1>2, <1>3, <2>4, <3>1, <3>3, <3>4, OthersKeep
    <2>. QED BY <2>5, <2>6
  <1>19. ASSUME NEW a \in Call, SaveCarried(a)
         PROVE  CallInv(b)'
    <2>1. /\ CallInv(a)
          /\ calls[a].pc \in Carrying
          /\ calls[a].code \in Code
          /\ calls[a].copy \in Document /\ Current(calls[a].copy)
          /\ Current(doc[calls[a].code])
          /\ doc[calls[a].code].end # 0
          /\ ~doc[calls[a].code].carried
      BY <1>19, CallParts DEF CallInv, SaveCarried, Carrying, IInv
    <2>2. CASE b = a
      <3>1. calls'[a] = Idle
        BY <1>1, <1>19 DEF SaveCarried
      <3>. QED BY <2>2, <3>1, IdleKnows
    <2>3. CASE b # a
      <3>1. calls'[b] = calls[b] /\ lock' = lock
        BY <1>1, <1>19, <2>3 DEF SaveCarried
      <3>2. CASE calls[b].code # calls[a].code
        <4>1. \A c \in Code : c # calls[a].code => doc'[c] = doc[c]
          BY <1>1, <1>19 DEF SaveCarried
        <4>. QED BY <1>2, <1>3, <3>1, <3>2, <4>1, OthersKeep
      <3>3. CASE calls[b].code = calls[a].code
        <4>1. PICK n : n = [calls[a].copy EXCEPT !.seq = @ + 1, !.carried = TRUE]
          OBVIOUS
        <4>2. doc'[calls[b].code] = n
          BY <1>1, <1>19, <2>1, <3>3, <4>1 DEF SaveCarried
        <4>3. Current(n) /\ n.carried
          BY <2>1, <4>1 DEF Current, Document
        <4>4. calls[b].pc \notin Carrying
          BY <2>1, <2>3, <3>3 DEF IInv, CarriedOnce
        <4>5. ASSUME calls[b].pc = "holding"
              PROVE  SavedOver(calls[b].copy, doc'[calls[b].code])
          <5>1. doc[calls[b].code] = calls[b].copy
            BY <1>2, <2>1, <3>3, <4>5 DEF CallInv, SavedOver
          <5>2. calls[b].copy.end # 0
            BY <2>1, <3>3, <5>1
          <5>. QED BY <4>2, <4>3, <5>2 DEF SavedOver
        <4>. QED BY <1>2, <2>1, <3>1, <3>3, <4>2, <4>3, <4>4, <4>5, SavedOverKeeps
      <3>. QED BY <3>2, <3>3
    <2>. QED BY <2>2, <2>3
  <1>. QED
    BY <1>4, <1>5, <1>6, <1>7, <1>8, <1>9, <1>10, <1>11, <1>12, <1>13, <1>14, <1>15,
       <1>16, <1>17, <1>18, <1>19 DEF Next

-------------------------------------------------------------------------------
(* Every step leaves a creation alone at its code, and the rooms counted.      *)

\* A call that does not begin to create, nor go to a code.
Quiet(b) ==
    /\ calls'[b].code \in {calls[b].code, NoCode}
    /\ calls'[b].pc \in Creating =>
          calls[b].pc \in Creating /\ calls'[b].code = calls[b].code

\* Where get_room leaves a section, and where a call begins.
LEMMA FoundWhere ==
    ASSUME TypeOK, NEW a \in Call, GetRoom(a)
    PROVE  /\ calls'[a].pc \in {"holding", "discarding", "leaving"}
           /\ calls'[a].code = calls[a].code
           /\ calls'[a].pc = "holding" => calls'[a].copy = doc[calls[a].code]
           /\ \A b \in Call : b # a => calls'[b] = calls[b]
  <1>1. calls \in [Call -> CallState]
    BY DEF TypeOK
  <1>2. CASE Current(doc[calls[a].code])
    <2>1. calls' = [calls EXCEPT ![a].pc = "holding", ![a].copy = doc[calls[a].code]]
      BY <1>2, FoundCurrent
    <2>. QED BY <1>1, <2>1 DEF CallState
  <1>3. CASE ~Current(doc[calls[a].code]) /\ doc[calls[a].code] = OldRoom
    <2>1. calls' = [calls EXCEPT ![a].pc = "discarding", ![a].copy = NoRoom]
      BY <1>3 DEF GetRoom
    <2>. QED BY <1>1, <2>1 DEF CallState
  <1>4. CASE ~Current(doc[calls[a].code]) /\ doc[calls[a].code] # OldRoom
    <2>1. calls' = [calls EXCEPT ![a].pc = "leaving", ![a].copy = NoRoom]
      BY <1>4 DEF GetRoom
    <2>. QED BY <1>1, <2>1 DEF CallState
  <1>. QED BY <1>2, <1>3, <1>4

LEMMA BegunWhere ==
    ASSUME TypeOK, NEW a \in Call, NEW c \in Code, Lock(a, c) \/ Peek(a, c) \/ Draw(a, c)
    PROVE  /\ calls'[a].pc \in {"locked", "peeking", "idle", "drawing", "clearing", "creating"}
           /\ calls'[a].pc \notin Carrying
           /\ calls[a].pc \in {"idle", "drawing"}
           /\ \A b \in Call : b # a => calls'[b] = calls[b]
  <1>1. calls \in [Call -> CallState]
    BY DEF TypeOK
  <1>2. ASSUME NEW call, calls' = [calls EXCEPT ![a] = call],
               call.pc \in {"locked", "peeking", "idle", "drawing", "clearing", "creating"}
        PROVE  /\ calls'[a].pc \in {"locked", "peeking", "idle", "drawing", "clearing", "creating"}
               /\ calls'[a].pc \notin Carrying
               /\ \A b \in Call : b # a => calls'[b] = calls[b]
    BY <1>1, <1>2 DEF Carrying
  <1>3. CASE Lock(a, c)
    <2>1. [Idle EXCEPT !.pc = "locked", !.code = c].pc = "locked"
      BY DEF Idle
    <2>. QED BY <1>2, <1>3, <2>1 DEF Lock, Busy
  <1>4. CASE Peek(a, c)
    <2>1. [Idle EXCEPT !.pc = "peeking", !.code = c].pc = "peeking"
      BY DEF Idle
    <2>. QED BY <1>2, <1>4, <2>1 DEF Peek, Busy
  <1>5. CASE Draw(a, c)
    <2>1. PICK n : n = calls[a].tries + 1
      OBVIOUS
    <2>2. /\ [Idle EXCEPT !.pc = "drawing", !.tries = n].pc = "drawing"
          /\ [Idle EXCEPT !.pc = "clearing", !.code = c, !.tries = n].pc = "clearing"
          /\ [Idle EXCEPT !.pc = "creating", !.code = c, !.tries = n].pc = "creating"
          /\ Idle.pc = "idle"
      BY DEF Idle
    <2>3. \E call : /\ calls' = [calls EXCEPT ![a] = call]
                    /\ call.pc \in {"locked", "peeking", "idle", "drawing", "clearing", "creating"}
      <3>1. CASE Taken(c) /\ LastAttempt(n)
        BY <1>5, <2>1, <2>2, <3>1 DEF Draw
      <3>2. CASE Taken(c) /\ ~LastAttempt(n)
        BY <1>5, <2>1, <2>2, <3>2 DEF Draw
      <3>3. CASE ~Taken(c) /\ doc[c] = OldRoom
        BY <1>5, <2>1, <2>2, <3>3 DEF Draw
      <3>4. CASE ~Taken(c) /\ doc[c] # OldRoom
        BY <1>5, <2>1, <2>2, <3>4 DEF Draw
      <3>. QED BY <3>1, <3>2, <3>3, <3>4
    <2>4. calls[a].pc \in {"idle", "drawing"}
      BY <1>5 DEF Draw
    <2>. QED BY <1>2, <2>3, <2>4
  <1>. QED BY <1>3, <1>4, <1>5

LEMMA QuietStep ==
    ASSUME TypeOK, NEW a \in Call, NEW b \in Call,
           \/ GetRoom(a) \/ Discard(a) \/ SaveRoom(a) \/ SaveEnded(a) \/ Refuse(a)
           \/ Unlock(a) \/ SaveCarried(a) \/ DiscardPeeked(a) \/ ClearDrawn(a)
           \/ CreateRoom(a) \/ Crash(a) \/ Tick
    PROVE  Quiet(b)
  <1>1. calls \in [Call -> CallState]
    BY DEF TypeOK
  <1>2. CASE GetRoom(a)
    BY <1>1, <1>2, FoundWhere DEF Quiet, Creating
  <1>3. ASSUME NEW call, calls' = [calls EXCEPT ![a] = call],
               call.code \in {calls[a].code, NoCode}, call.pc \notin Creating
        PROVE  Quiet(b)
    BY <1>1, <1>3 DEF Quiet
  <1>4. CASE DiscardPeeked(a) \/ CreateRoom(a) \/ Crash(a) \/ SaveCarried(a)
    BY <1>3, <1>4 DEF DiscardPeeked, CreateRoom, Crash, SaveCarried, Creating, Idle
  <1>5. CASE Discard(a)
    BY <1>1, <1>5 DEF Discard, Quiet, Creating, CallState
  <1>6. CASE SaveRoom(a) \/ Refuse(a)
    <2>1. calls' = [calls EXCEPT ![a] = Leaving(calls[a])]
      BY <1>1, <1>6 DEF SaveRoom, Refuse
    <2>. QED BY <1>1, <1>3, <2>1, LeavingTyped DEF Creating
  <1>7. CASE SaveEnded(a)
    <2>1. PICK n : calls' = [calls EXCEPT ![a].pc = "ending", ![a].copy = n]
      BY <1>7 DEF SaveEnded
    <2>. QED BY <1>1, <2>1 DEF Quiet, Creating, CallState
  <1>8. CASE Unlock(a)
    <2>1. CASE calls[a].pc = "leaving"
      BY <1>3, <1>8, <2>1, SectionOver DEF Creating, Idle
    <2>2. CASE calls[a].pc = "ending"
      <3>1. calls' = [calls EXCEPT ![a] = [calls[a] EXCEPT !.pc = "finishing", !.used = 0]]
        BY <1>8, <2>2, SectionOver
      <3>. QED BY <1>1, <1>3, <3>1, FinishingTyped DEF Creating
    <2>. QED BY <1>8, <2>1, <2>2, SectionOver
  <1>9. CASE ClearDrawn(a)
    BY <1>1, <1>9 DEF ClearDrawn, Quiet, Creating, CallState
  <1>10. CASE Tick
    BY <1>1, <1>10 DEF Tick, Quiet, CallState
  <1>. QED BY <1>2, <1>4, <1>5, <1>6, <1>7, <1>8, <1>9, <1>10

\* A call that goes to a code finds no creation there, and one that begins to create
\* finds nobody.
LEMMA AloneStep ==
    ASSUME IInv, Next, \A b \in Call : CallInv(b)'
    PROVE  Alone'
  <1>. USE NoneAssumption
  <1>1. calls \in [Call -> CallState] /\ TypeOK /\ Alone
    BY DEF IInv, TypeOK
  <1>2. \A b \in Call : calls'[b].pc \in Creating => calls'[b].code \in Code
    BY DEF CallInv, Creating
  <1>3. ASSUME \A b \in Call : Quiet(b)
        PROVE  Alone'
    BY <1>1, <1>2, <1>3 DEF Alone, Quiet
  <1>4. ASSUME NEW a \in Call, NEW c \in Code, NobodyCreatesAt(c),
               \A b \in Call : b # a => calls'[b] = calls[b],
               calls'[a].code = c, calls'[a].pc \notin Creating
        PROVE  Alone'
    <2>. SUFFICES ASSUME NEW d \in Call, NEW b \in Call,
                         calls'[d].pc \in Creating, calls'[b].code = calls'[d].code
                  PROVE  d = b
      BY DEF Alone
    <2>1. d # a /\ calls'[d] = calls[d]
      BY <1>4
    <2>2. CASE b = a
      <3>1. calls[d].code = c
        BY <1>4, <2>1, <2>2
      <3>. QED BY <1>4, <2>1, <3>1 DEF NobodyCreatesAt, At
    <2>3. CASE b # a
      BY <1>1, <1>4, <2>1, <2>3 DEF Alone
    <2>. QED BY <2>2, <2>3
  <1>5. ASSUME NEW a \in Call, NEW c \in Code, NobodyAt(c),
               \A b \in Call : b # a => calls'[b] = calls[b],
               calls'[a].code = c
        PROVE  Alone'
    <2>1. \A b \in Call : calls[b].code # c
      BY <1>5 DEF NobodyAt, At
    <2>. QED BY <1>1, <1>5, <2>1 DEF Alone
  <1>6. ASSUME NEW a \in Call, NEW c \in Code, Lock(a, c)
        PROVE  Alone'
    <2>1. /\ \A b \in Call : b # a => calls'[b] = calls[b]
          /\ calls'[a].code = c
          /\ calls'[a].pc = "locked"
          /\ NobodyCreatesAt(c)
      BY <1>1, <1>6 DEF Lock, Idle
    <2>. QED BY <1>4, <2>1 DEF Creating
  <1>7. ASSUME NEW a \in Call, NEW c \in Code, Peek(a, c)
        PROVE  Alone'
    <2>1. /\ \A b \in Call : b # a => calls'[b] = calls[b]
          /\ calls'[a].code = c
          /\ calls'[a].pc = "peeking"
          /\ NobodyCreatesAt(c)
      BY <1>1, <1>7 DEF Peek, Idle
    <2>. QED BY <1>4, <2>1 DEF Creating
  <1>8. ASSUME NEW a \in Call, NEW c \in Code, Draw(a, c)
        PROVE  Alone'
    <2>1. CASE Taken(c)
      <3>1. calls'[a].code = NoCode /\ calls'[a].pc \notin Creating
        BY <1>1, <1>8, <2>1 DEF Draw, Idle, Creating
      <3>2. \A b \in Call : b # a => calls'[b] = calls[b]
        BY <1>1, <1>8 DEF Draw
      <3>. QED BY <1>3, <3>1, <3>2 DEF Quiet
    <2>2. CASE ~Taken(c)
      <3>1. calls'[a].code = c
        BY <1>1, <1>8, <2>2 DEF Draw, Idle
      <3>2. (\A b \in Call : b # a => calls'[b] = calls[b]) /\ NobodyAt(c)
        BY <1>1, <1>8, <2>2 DEF Draw
      <3>. QED BY <1>5, <3>1, <3>2
    <2>. QED BY <2>1, <2>2
  <1>9. ASSUME NEW c \in Code, Expire(c)
        PROVE  Alone'
    BY <1>1, <1>9 DEF Expire, Alone
  <1>. QED BY <1>1, <1>3, <1>6, <1>7, <1>8, <1>9, QuietStep DEF Next

\* Rooms are opened only by those who announced it.
LEMMA CountStep ==
    ASSUME IInv, Next
    PROVE  RoomsCounted'
  <1>. USE BoundsAssumption
  <1>1. /\ calls \in [Call -> CallState] /\ TypeOK /\ RoomsCounted
        /\ opened \in Nat
    BY DEF IInv, TypeOK
  <1>2. IsFiniteSet(Creators) /\ Cardinality(Creators) \in Nat
    BY CallAssumption, FS_Subset, FS_CardinalityType DEF Creators
  <1>3. ASSUME Creators' \subseteq Creators, opened' = opened
        PROVE  RoomsCounted'
    <2>1. IsFiniteSet(Creators') /\ Cardinality(Creators') <= Cardinality(Creators)
      BY <1>2, <1>3, FS_Subset
    <2>2. Cardinality(Creators') \in Nat
      BY <2>1, FS_CardinalityType
    <2>. QED BY <1>1, <1>2, <1>3, <2>1, <2>2 DEF RoomsCounted
  <1>4. ASSUME \A b \in Call : Quiet(b)
        PROVE  Creators' \subseteq Creators
    BY <1>4 DEF Quiet, Creators
  <1>5. ASSUME NEW a \in Call, CreateRoom(a)
        PROVE  RoomsCounted'
    <2>1. a \in Creators
      BY <1>5 DEF CreateRoom, Creators, Creating
    <2>2. Creators' \subseteq Creators \ {a}
      <3>1. Creators' \subseteq Creators
        BY <1>1, <1>4, <1>5, QuietStep
      <3>2. a \notin Creators'
        BY <1>1, <1>5 DEF CreateRoom, Creators, Creating, Idle
      <3>. QED BY <3>1, <3>2
    <2>3. /\ IsFiniteSet(Creators \ {a})
          /\ Cardinality(Creators \ {a}) = Cardinality(Creators) - 1
      BY <1>2, <2>1, FS_RemoveElement
    <2>4. IsFiniteSet(Creators') /\ Cardinality(Creators') <= Cardinality(Creators \ {a})
      BY <2>2, <2>3, FS_Subset
    <2>5. Cardinality(Creators') \in Nat
      BY <2>4, FS_CardinalityType
    <2>. QED BY <1>1, <1>2, <1>5, <2>3, <2>4, <2>5 DEF RoomsCounted, CreateRoom
  <1>6. ASSUME NEW a \in Call, NEW c \in Code, Draw(a, c)
        PROVE  RoomsCounted'
    <2>1. Creators' \subseteq Creators \cup {a}
      BY <1>1, <1>6 DEF Draw, Creators
    <2>2. a \notin Creators
      BY <1>6 DEF Draw, Creators, Creating
    <2>3. /\ IsFiniteSet(Creators \cup {a})
          /\ Cardinality(Creators \cup {a}) = Cardinality(Creators) + 1
      BY <1>2, <2>2, FS_AddElement
    <2>4. IsFiniteSet(Creators') /\ Cardinality(Creators') <= Cardinality(Creators \cup {a})
      BY <2>1, <2>3, FS_Subset
    <2>5. Cardinality(Creators') \in Nat
      BY <2>4, FS_CardinalityType
    <2>6. opened + Cardinality(Creators) < MaxRooms /\ opened' = opened
      BY <1>6 DEF Draw
    <2>. QED BY <1>1, <1>2, <2>3, <2>4, <2>5, <2>6 DEF RoomsCounted
  <1>7. ASSUME NEW a \in Call, NEW c \in Code, Lock(a, c) \/ Peek(a, c)
        PROVE  RoomsCounted'
    <2>1. Creators' \subseteq Creators
      BY <1>1, <1>7, ZenonT(30) DEF Lock, Peek, Creators, Creating, Idle
    <2>2. opened' = opened
      BY <1>7 DEF Lock, Peek
    <2>. QED BY <1>3, <2>1, <2>2
  <1>8. ASSUME NEW a \in Call,
               \/ GetRoom(a) \/ Discard(a) \/ SaveRoom(a) \/ SaveEnded(a) \/ Refuse(a)
               \/ Unlock(a) \/ SaveCarried(a) \/ DiscardPeeked(a) \/ ClearDrawn(a) \/ Crash(a)
        PROVE  RoomsCounted'
    <2>1. Creators' \subseteq Creators
      BY <1>1, <1>4, <1>8, QuietStep
    <2>2. opened' = opened
      BY <1>8
      DEF GetRoom, Discard, SaveRoom, SaveEnded, Refuse, Unlock, SaveCarried, DiscardPeeked,
          ClearDrawn, Crash
    <2>. QED BY <1>3, <2>1, <2>2
  <1>9. ASSUME Tick
        PROVE  RoomsCounted'
    <2>1. Creators' \subseteq Creators
      BY <1>1, <1>9 DEF Tick, Creators, CallState
    <2>. QED BY <1>3, <1>9, <2>1 DEF Tick
  <1>10. ASSUME NEW c \in Code, Expire(c)
         PROVE  RoomsCounted'
    BY <1>3, <1>10 DEF Expire, Creators
  <1>. QED BY <1>5, <1>6, <1>7, <1>8, <1>9, <1>10 DEF Next

\* Nothing but rooms is written.
LEMMA DocsStep ==
    ASSUME IInv, Next
    PROVE  DocsKnown'
  <1>1. doc \in [Code -> Document] /\ DocsKnown /\ opened \in Nat
    BY DEF IInv, TypeOK
  <1>2. ASSUME doc' = doc
        PROVE  DocsKnown'
    BY <1>1, <1>2 DEF DocsKnown, Current
  <1>3. ASSUME NEW c, doc' = [doc EXCEPT ![c] = NoRoom]
        PROVE  DocsKnown'
    BY <1>1, <1>3 DEF DocsKnown, Current, NoRoom
  <1>4. ASSUME NEW c, NEW d, doc' = [doc EXCEPT ![c] = d], Current(d), d.carried => d.end # 0
        PROVE  DocsKnown'
    BY <1>1, <1>4 DEF DocsKnown, Current
  <1>5. ASSUME NEW a \in Call, calls[a].pc \in {"holding", "finishing"}
        PROVE  /\ Current(calls[a].copy) /\ calls[a].copy \in Document
               /\ calls[a].copy.carried => calls[a].copy.end # 0
    <2>1. CallInv(a) /\ calls[a].copy \in Document /\ calls[a].code \in Code
      BY <1>5, CallParts DEF IInv, CallInv
    <2>. QED BY <1>1, <1>5, <2>1 DEF CallInv, DocsKnown, SavedOver, Carrying
  <1>6. ASSUME NEW a \in Call, SaveRoom(a)
        PROVE  DocsKnown'
    <2>1. PICK d : d = [calls[a].copy EXCEPT !.seq = @ + 1]
      OBVIOUS
    <2>2. Current(d) /\ (d.carried => d.end # 0)
      BY <1>5, <1>6, <2>1 DEF SaveRoom, Current, Document
    <2>3. doc' = [doc EXCEPT ![calls[a].code] = d]
      BY <1>6, <2>1 DEF SaveRoom
    <2>. QED BY <1>4, <2>2, <2>3
  <1>7. ASSUME NEW a \in Call, SaveEnded(a)
        PROVE  DocsKnown'
    <2>1. PICK d : d = [calls[a].copy EXCEPT !.seq = @ + 1, !.end = calls[a].copy.seq + 1]
      OBVIOUS
    <2>2. Current(d) /\ (d.carried => d.end # 0)
      BY <1>5, <1>7, <2>1 DEF SaveEnded, Current, Document
    <2>3. doc' = [doc EXCEPT ![calls[a].code] = d]
      BY <1>7, <2>1 DEF SaveEnded
    <2>. QED BY <1>4, <2>2, <2>3
  <1>8. ASSUME NEW a \in Call, SaveCarried(a)
        PROVE  DocsKnown'
    <2>1. PICK d : d = [calls[a].copy EXCEPT !.seq = @ + 1, !.carried = TRUE]
      OBVIOUS
    <2>2. calls[a].copy.end # 0
      BY <1>8 DEF SaveCarried, IInv, CallInv, Carrying
    <2>3. Current(d) /\ (d.carried => d.end # 0)
      BY <1>5, <1>8, <2>1, <2>2 DEF SaveCarried, Current, Document
    <2>4. doc' = [doc EXCEPT ![calls[a].code] = d]
      BY <1>8, <2>1 DEF SaveCarried
    <2>. QED BY <1>4, <2>3, <2>4
  <1>9. ASSUME NEW a \in Call, CreateRoom(a)
        PROVE  DocsKnown'
    <2>1. PICK d : d = [NoRoom EXCEPT !.born = opened + 1]
      OBVIOUS
    <2>2. Current(d) /\ ~d.carried
      BY <1>1, <2>1 DEF Current, NoRoom
    <2>3. doc' = [doc EXCEPT ![calls[a].code] = d]
      BY <1>9, <2>1 DEF CreateRoom
    <2>. QED BY <1>4, <2>2, <2>3
  <1>. QED
    BY <1>2, <1>3, <1>6, <1>7, <1>8, <1>9
    DEF Next, Lock, GetRoom, Discard, Refuse, Unlock, Peek, DiscardPeeked, Draw, ClearDrawn,
        Tick, Expire, Crash

\* A game ends only while nobody carries it: until then it is not over.
LEMMA CarriedStep ==
    ASSUME IInv, Next
    PROVE  CarriedOnce'
  <1>1. calls \in [Call -> CallState] /\ CarriedOnce /\ TypeOK
    BY DEF IInv, TypeOK
  <1>2. ASSUME \A b \in Call : (calls[b].pc \in Carrying)' =>
                   calls[b].pc \in Carrying /\ calls'[b].code = calls[b].code
        PROVE  CarriedOnce'
    BY <1>1, <1>2 DEF CarriedOnce
  <1>3. ASSUME NEW a \in Call, NEW call, calls' = [calls EXCEPT ![a] = call],
               call.pc \notin Carrying
        PROVE  CarriedOnce'
    BY <1>1, <1>2, <1>3
  <1>4. ASSUME NEW a \in Call, SaveEnded(a)
        PROVE  CarriedOnce'
    <2>1. /\ calls'[a].code = calls[a].code
          /\ \A b \in Call : b # a => calls'[b] = calls[b]
      <3>1. PICK n : calls' = [calls EXCEPT ![a].pc = "ending", ![a].copy = n]
        BY <1>4 DEF SaveEnded
      <3>. QED BY <1>1, <3>1 DEF CallState
    <2>2. \A b \in Call : calls[b].pc \in Carrying => calls[b].code # calls[a].code
      <3>1. doc[calls[a].code].end = 0
        BY <1>4 DEF IInv, CallInv, SaveEnded, SavedOver
      <3>. QED BY <3>1 DEF IInv, CallInv
    <2>. QED BY <1>1, <2>1, <2>2 DEF CarriedOnce
  <1>5. ASSUME NEW a \in Call, Unlock(a)
        PROVE  CarriedOnce'
    <2>1. CASE calls[a].pc = "leaving"
      BY <1>1, <1>3, <1>5, <2>1, SectionOver DEF Idle, Carrying
    <2>2. CASE calls[a].pc = "ending"
      <3>1. calls' = [calls EXCEPT ![a] = [calls[a] EXCEPT !.pc = "finishing", !.used = 0]]
        BY <1>1, <1>5, <2>2, SectionOver
      <3>2. calls'[a].code = calls[a].code
        BY <1>1, <3>1, FinishingTyped
      <3>. QED BY <1>1, <1>2, <2>2, <3>1, <3>2 DEF Carrying
    <2>. QED BY <1>1, <1>5, <2>1, <2>2, SectionOver
  <1>6. ASSUME NEW a \in Call, SaveRoom(a) \/ Refuse(a)
        PROVE  CarriedOnce'
    <2>1. calls' = [calls EXCEPT ![a] = Leaving(calls[a])]
      BY <1>1, <1>6 DEF SaveRoom, Refuse
    <2>. QED BY <1>1, <1>3, <2>1, LeavingTyped DEF Carrying
  <1>7. ASSUME NEW a \in Call,
               SaveCarried(a) \/ DiscardPeeked(a) \/ CreateRoom(a) \/ Crash(a)
        PROVE  CarriedOnce'
    <2>1. calls' = [calls EXCEPT ![a] = Idle]
      BY <1>7 DEF SaveCarried, DiscardPeeked, CreateRoom, Crash
    <2>. QED BY <1>3, <2>1 DEF Idle, Carrying
  <1>8. ASSUME NEW a \in Call, NEW p, p \notin Carrying, calls' = [calls EXCEPT ![a].pc = p]
        PROVE  CarriedOnce'
    <2>1. [calls[a] EXCEPT !.pc = p].pc = p
      BY <1>1 DEF CallState
    <2>. QED BY <1>1, <1>3, <1>8, <2>1
  <1>9. ASSUME NEW a \in Call, Discard(a) \/ ClearDrawn(a)
        PROVE  CarriedOnce'
    BY <1>8, <1>9 DEF Discard, ClearDrawn, Carrying
  <1>10. ASSUME NEW a \in Call, GetRoom(a)
         PROVE  CarriedOnce'
    <2>1. /\ calls'[a].pc \in {"holding", "discarding", "leaving"}
          /\ \A b \in Call : b # a => calls'[b] = calls[b]
      BY <1>1, <1>10, FoundWhere
    <2>. QED BY <1>1, <1>2, <2>1 DEF Carrying
  <1>11. ASSUME NEW a \in Call, NEW c \in Code, Lock(a, c) \/ Peek(a, c) \/ Draw(a, c)
         PROVE  CarriedOnce'
    <2>1. /\ calls'[a].pc \notin Carrying
          /\ \A b \in Call : b # a => calls'[b] = calls[b]
      BY <1>1, <1>11, BegunWhere
    <2>. QED BY <1>1, <1>2, <2>1
  <1>12. ASSUME Tick
         PROVE  CarriedOnce'
    <2>1. \A b \in Call : calls'[b].pc = calls[b].pc /\ calls'[b].code = calls[b].code
      BY <1>1, <1>12 DEF Tick, CallState
    <2>. QED BY <1>2, <2>1
  <1>13. ASSUME NEW c \in Code, Expire(c)
         PROVE  CarriedOnce'
    BY <1>2, <1>13 DEF Expire
  <1>. QED
    BY <1>4, <1>5, <1>6, <1>7, <1>9, <1>10, <1>11, <1>12, <1>13 DEF Next

LEMMA Inductive == Spec => []IInv
  <1>1. IInv /\ [Next]_vars => IInv'
    <2>1. CASE Next
      <3>1. ASSUME IInv
            PROVE  IInv'
        <4>1. TypeOK'
          BY <2>1, <3>1, TypeStep
        <4>2. \A b \in Call : CallInv(b)'
          BY <2>1, <3>1, <4>1, CallStep
        <4>3. Alone' /\ CarriedOnce' /\ RoomsCounted' /\ DocsKnown'
          BY <2>1, <3>1, <4>2, AloneStep, CarriedStep, CountStep, DocsStep
        <4>. QED BY <4>1, <4>2, <4>3 DEF IInv
      <3>. QED BY <3>1
    <2>2. CASE UNCHANGED vars
      BY <2>2
      DEF vars, IInv, TypeOK, CallInv, SavedOver, Current, Alone, CarriedOnce, RoomsCounted,
          DocsKnown, Creators
    <2>. QED BY <2>1, <2>2
  <1>. QED BY <1>1, InitInv, PTL DEF Spec

-------------------------------------------------------------------------------
(* The theorems.                                                               *)

\* The store's documents, leases and calls are what they should be in every state;
\* in particular no attempt of a creation is beyond the last one and no code is
\* created in beyond the rooms there may be.
THEOREM TypeCorrect == Spec => []TypeOK
  <1>1. IInv => TypeOK
    BY DEF IInv
  <1>. QED BY <1>1, Inductive, PTL

\* The rooms the handlers see.
Shown == [c \in Code |-> IF Current(doc[c]) THEN doc[c] ELSE NoRoom]

\* A step that changes no room's document, but for one that is none.
LEMMA ShownKept ==
    ASSUME IInv,
           \/ doc' = doc
           \/ \E c \in Code : ~Current(doc[c]) /\ doc' = [doc EXCEPT ![c] = NoRoom]
    PROVE  Shown' = Shown
  <1>1. doc \in [Code -> Document]
    BY DEF IInv, TypeOK
  <1>2. ~Current(NoRoom)
    BY DEF Current, NoRoom
  <1>3. ASSUME NEW e \in Code
        PROVE  (IF Current(doc'[e]) THEN doc'[e] ELSE NoRoom)
                  = IF Current(doc[e]) THEN doc[e] ELSE NoRoom
    BY <1>1, <1>2 DEF Current
  <1>. QED BY <1>3 DEF Shown, Current

\* A step that changes the document of one code.
LEMMA ShownChanged ==
    ASSUME IInv, NEW c \in Code, NEW d, doc' = [doc EXCEPT ![c] = d],
           d = NoRoom \/ Current(d)
    PROVE  Shown' = [Shown EXCEPT ![c] = d]
  <1>1. doc \in [Code -> Document]
    BY DEF IInv, TypeOK
  <1>2. ~Current(NoRoom)
    BY DEF Current, NoRoom
  <1>3. ASSUME NEW e \in Code
        PROVE  (IF Current(doc'[e]) THEN doc'[e] ELSE NoRoom)
                  = IF e = c THEN d ELSE IF Current(doc[e]) THEN doc[e] ELSE NoRoom
    BY <1>1, <1>2 DEF Current
  <1>. QED BY <1>3 DEF Shown, Current

-------------------------------------------------------------------------------
(* What may still be put back.                                                 *)

OwedTo == [c \in Code |-> Owed(c)]

\* A step that changes nothing of what a call may put back.
KeptOwed(b) ==
    /\ Owes(b)' <=> Owes(b)
    /\ Owes(b) => calls'[b].copy = calls[b].copy /\ calls'[b].code = calls[b].code

LEMMA InOwed ==
    ASSUME NEW c, NEW d
    PROVE  /\ d \in Owed(c) <=>
                \E b \in Call : calls[b].code = c /\ Owes(b) /\ d = calls[b].copy
           /\ d \in Owed(c)' <=>
                \E b \in Call : calls'[b].code = c /\ Owes(b)' /\ d = calls'[b].copy
  BY DEF Owed, At

\* A section does not owe what it read, and no two calls owe at one code.
LEMMA OwesOne ==
    ASSUME IInv, NEW a \in Call, NEW b \in Call, Owes(a), Owes(b),
           calls[a].code = calls[b].code
    PROVE  a = b
  <1>1. TypeOK /\ CallInv(a) /\ CallInv(b) /\ CarriedOnce
    BY DEF IInv
  <1>2. ASSUME NEW d \in Call, Owes(d), calls[d].pc \notin Carrying
        PROVE  calls[d].pc = "holding" /\ doc[calls[d].code].carried
    BY <1>2 DEF IInv, CallInv, Owes, Stale, SavedOver
  <1>3. CASE calls[a].pc \in Carrying /\ calls[b].pc \in Carrying
    BY <1>1, <1>3 DEF CarriedOnce
  <1>4. CASE calls[a].pc \in Carrying /\ calls[b].pc \notin Carrying
    BY <1>1, <1>2, <1>4 DEF CallInv
  <1>5. CASE calls[a].pc \notin Carrying /\ calls[b].pc \in Carrying
    BY <1>1, <1>2, <1>5 DEF CallInv
  <1>6. CASE calls[a].pc \notin Carrying /\ calls[b].pc \notin Carrying
    <2>1. calls[a].pc \in InSection /\ calls[b].pc \in InSection
      BY <1>2, <1>6 DEF InSection
    <2>. QED BY <1>1, <2>1, OneSection
  <1>. QED BY <1>3, <1>4, <1>5, <1>6

LEMMA OwedKept ==
    ASSUME \A b \in Call : KeptOwed(b)
    PROVE  OwedTo' = OwedTo
  <1>1. ASSUME NEW c \in Code
        PROVE  Owed(c)' = Owed(c)
    <2>1. ASSUME NEW d
          PROVE  d \in Owed(c)' <=> d \in Owed(c)
      <3>1. /\ d \in Owed(c) <=>
                  \E b \in Call : calls[b].code = c /\ Owes(b) /\ d = calls[b].copy
            /\ d \in Owed(c)' <=>
                  \E b \in Call : calls'[b].code = c /\ Owes(b)' /\ d = calls'[b].copy
        BY InOwed
      <3>. QED BY <3>1 DEF KeptOwed
    <2>. QED BY <2>1 DEF Owed
  <1>. QED BY <1>1 DEF OwedTo

\* A step that changes it at one code.
LEMMA OwedChanged ==
    ASSUME NEW c \in Code,
           \A b \in Call : KeptOwed(b) \/ (calls[b].code = c /\ (Owes(b)' => calls'[b].code = c))
    PROVE  OwedTo' = [OwedTo EXCEPT ![c] = Owed(c)']
  <1>1. ASSUME NEW e \in Code, e # c
        PROVE  Owed(e)' = Owed(e)
    <2>1. ASSUME NEW d
          PROVE  d \in Owed(e)' <=> d \in Owed(e)
      <3>1. /\ d \in Owed(e) <=>
                  \E b \in Call : calls[b].code = e /\ Owes(b) /\ d = calls[b].copy
            /\ d \in Owed(e)' <=>
                  \E b \in Call : calls'[b].code = e /\ Owes(b)' /\ d = calls'[b].copy
        BY InOwed
      <3>. QED BY <1>1, <3>1 DEF KeptOwed
    <2>. QED BY <2>1 DEF Owed
  <1>. QED BY <1>1 DEF OwedTo

\* A call the step leaves alone, at a code whose document stays or in no section.
LEMMA KeptElsewhere ==
    ASSUME NEW b \in Call, calls'[b].pc = calls[b].pc, calls'[b].code = calls[b].code,
           calls'[b].copy = calls[b].copy,
           calls[b].pc = "holding" => doc'[calls[b].code] = doc[calls[b].code]
    PROVE  KeptOwed(b)
  BY DEF KeptOwed, Owes, Stale

\* A call that owes nothing before the step and after it.
LEMMA OwesNothing ==
    ASSUME NEW b \in Call, ~Owes(b), calls'[b].pc \notin Carrying,
           calls'[b].pc = "holding" => doc'[calls'[b].code] = calls'[b].copy
    PROVE  KeptOwed(b)
  BY DEF KeptOwed, Owes, Stale

LEMMA NobodyOwes ==
    ASSUME IInv, NEW c \in Code, ~doc[c].carried, doc[c].end = 0
    PROVE  Owed(c) = {}
  <1>1. ASSUME NEW b \in Call, calls[b].code = c, Owes(b)
        PROVE  FALSE
    BY <1>1 DEF IInv, CallInv, Owes, Stale, SavedOver
  <1>. QED BY <1>1, InOwed

\* The steps that leave the rooms and what is owed as they are.
LEMMA QuietPromise ==
    ASSUME IInv, NEW a \in Call, NEW c \in Code,
           \/ Lock(a, c) \/ Peek(a, c) \/ Draw(a, c) \/ GetRoom(a) \/ Unlock(a)
           \/ Discard(a) \/ DiscardPeeked(a) \/ ClearDrawn(a) \/ Tick
    PROVE  Shown' = Shown /\ OwedTo' = OwedTo /\ opened' = opened
  <1>1. TypeOK /\ calls \in [Call -> CallState] /\ doc \in [Code -> Document]
    BY DEF IInv, TypeOK
  <1>2. ASSUME NEW b \in Call, b # a, calls'[b] = calls[b], doc' = doc
        PROVE  KeptOwed(b)
    BY <1>2, KeptElsewhere
  <1>3. CASE Lock(a, c) \/ Peek(a, c) \/ Draw(a, c)
    <2>1. /\ calls'[a].pc \in {"locked", "peeking", "idle", "drawing", "clearing", "creating"}
          /\ calls'[a].pc \notin Carrying
          /\ calls[a].pc \in {"idle", "drawing"}
          /\ \A b \in Call : b # a => calls'[b] = calls[b]
      BY <1>1, <1>3, BegunWhere
    <2>2. doc' = doc /\ opened' = opened
      BY <1>3 DEF Lock, Peek, Draw
    <2>3. KeptOwed(a)
      BY <2>1, OwesNothing DEF Owes, Stale, Carrying
    <2>. QED BY <1>2, <2>1, <2>2, <2>3, OwedKept, ShownKept
  <1>4. CASE GetRoom(a)
    <2>1. /\ calls'[a].pc \in {"holding", "discarding", "leaving"}
          /\ calls'[a].code = calls[a].code
          /\ calls'[a].pc = "holding" => calls'[a].copy = doc[calls[a].code]
          /\ \A b \in Call : b # a => calls'[b] = calls[b]
      BY <1>1, <1>4, FoundWhere
    <2>2. doc' = doc /\ opened' = opened /\ calls[a].pc = "locked"
      BY <1>4 DEF GetRoom
    <2>3. KeptOwed(a)
      BY <2>1, <2>2, OwesNothing DEF Owes, Stale, Carrying
    <2>. QED BY <1>2, <2>1, <2>2, <2>3, OwedKept, ShownKept
  <1>5. CASE Unlock(a)
    <2>1. doc' = doc /\ opened' = opened /\ \A b \in Call : b # a => calls'[b] = calls[b]
      BY <1>1, <1>5 DEF Unlock
    <2>2. CASE calls[a].pc = "leaving"
      <3>1. calls'[a].pc = "idle"
        <4>1. calls' = [calls EXCEPT ![a] = Idle]
          BY <1>1, <1>5, <2>2, SectionOver
        <4>2. calls'[a] = Idle
          BY <1>1, <4>1
        <4>. QED BY <4>2 DEF Idle
      <3>2. KeptOwed(a)
        BY <2>2, <3>1, OwesNothing DEF Owes, Stale, Carrying
      <3>. QED BY <1>2, <2>1, <3>2, OwedKept, ShownKept
    <2>3. CASE calls[a].pc = "ending"
      <3>1. PICK s \in CallState : s = calls[a]
        BY <1>1
      <3>2. PICK t : t = [s EXCEPT !.pc = "finishing", !.used = 0]
        OBVIOUS
      <3>3. t.pc = "finishing" /\ t.code = s.code /\ t.copy = s.copy
        BY <3>2, FinishingTyped
      <3>4. calls' = [calls EXCEPT ![a] = [calls[a] EXCEPT !.pc = "finishing", !.used = 0]]
        BY <1>1, <1>5, <2>3, SectionOver
      <3>5. calls'[a] = t
        BY <1>1, <3>1, <3>2, <3>4
      <3>6. KeptOwed(a)
        BY <2>3, <3>1, <3>3, <3>5 DEF KeptOwed, Owes, Carrying
      <3>. QED BY <1>2, <2>1, <3>6, OwedKept, ShownKept
    <2>. QED BY <1>5, <2>2, <2>3 DEF Unlock
  <1>6. CASE Discard(a) \/ DiscardPeeked(a) \/ ClearDrawn(a)
    <2>1. /\ calls[a].code \in Code /\ ~Current(doc[calls[a].code])
          /\ calls[a].pc \in {"discarding", "peeking", "clearing"}
      BY <1>6 DEF IInv, CallInv, Discard, DiscardPeeked, ClearDrawn
    <2>2. doc' = [doc EXCEPT ![calls[a].code] = NoRoom] /\ opened' = opened
      BY <1>6 DEF Discard, DiscardPeeked, ClearDrawn
    <2>3. \A b \in Call : b # a => calls'[b] = calls[b]
      BY <1>1, <1>6 DEF Discard, DiscardPeeked, ClearDrawn
    <2>4. calls'[a].pc \in {"leaving", "idle", "creating"}
      BY <1>1, <1>6 DEF Discard, DiscardPeeked, ClearDrawn, Idle, CallState
    <2>5. KeptOwed(a)
      BY <2>1, <2>4, OwesNothing DEF Owes, Stale, Carrying
    <2>6. ASSUME NEW b \in Call, b # a
          PROVE  KeptOwed(b)
      <3>1. ASSUME calls[b].pc = "holding"
            PROVE  doc'[calls[b].code] = doc[calls[b].code]
        <4>1. Current(doc[calls[b].code]) /\ calls[b].code \in Code
          BY <3>1 DEF IInv, CallInv, SavedOver
        <4>. QED BY <1>1, <2>1, <2>2, <4>1
      <3>. QED BY <2>3, <2>6, <3>1, KeptElsewhere
    <2>7. Shown' = Shown
      BY <2>1, <2>2, ShownKept
    <2>. QED BY <2>2, <2>5, <2>6, <2>7, OwedKept
  <1>7. CASE Tick
    <2>1. /\ doc' = doc /\ opened' = opened
          /\ \A b \in Call : /\ calls'[b].pc = calls[b].pc
                             /\ calls'[b].code = calls[b].code
                             /\ calls'[b].copy = calls[b].copy
      BY <1>1, <1>7 DEF Tick, CallState
    <2>2. \A b \in Call : KeptOwed(b)
      BY <2>1, KeptElsewhere
    <2>. QED BY <2>1, <2>2, OwedKept, ShownKept
  <1>. QED BY <1>3, <1>4, <1>5, <1>6, <1>7

\* A section saves: it changes the room, or undoes finish_game's save.
LEMMA SavePromise ==
    ASSUME IInv, NEW a \in Call, SaveRoom(a)
    PROVE  \E c \in Code :
              /\ Shown[c] # NoRoom /\ opened' = opened
              /\ \/ Shown' = [Shown EXCEPT ![c].seq = @ + 1] /\ OwedTo' = OwedTo
                 \/ /\ Shown[c].carried
                    /\ \E d \in OwedTo[c] : Shown' = [Shown EXCEPT ![c] = [d EXCEPT !.seq = @ + 1]]
                    /\ OwedTo' = [OwedTo EXCEPT ![c] = {}]
  <1>1. /\ TypeOK /\ calls \in [Call -> CallState] /\ doc \in [Code -> Document]
        /\ CallInv(a) /\ calls[a].pc = "holding"
    BY DEF IInv, TypeOK, SaveRoom
  <1>2. PICK c \in Code, d \in Document : c = calls[a].code /\ d = calls[a].copy
    BY <1>1, CallParts DEF CallInv
  <1>3. PICK n : n = [d EXCEPT !.seq = @ + 1]
    OBVIOUS
  <1>4. Current(d) /\ Current(n) /\ Current(doc[c])
    BY <1>1, <1>2, <1>3 DEF CallInv, SavedOver, Current, Document
  <1>5. doc' = [doc EXCEPT ![c] = n] /\ opened' = opened
    BY <1>2, <1>3 DEF SaveRoom
  <1>6. Shown' = [Shown EXCEPT ![c] = n]
    BY <1>4, <1>5, ShownChanged
  <1>7. Shown[c] = doc[c] /\ Shown[c] # NoRoom
    BY <1>4 DEF Shown, Current, NoRoom
  <1>8. calls'[a].pc = "leaving" /\ calls'[a].code = c
    <2>1. calls'[a] = Leaving(calls[a])
      BY <1>1 DEF SaveRoom
    <2>. QED BY <1>1, <1>2, <2>1, LeavingTyped
  <1>9. ~Owes(a)'
    BY <1>8 DEF Owes, Stale, Carrying
  <1>10. ASSUME NEW b \in Call, b # a
         PROVE  KeptOwed(b)
    <2>1. calls'[b] = calls[b]
      BY <1>10 DEF SaveRoom
    <2>2. ASSUME calls[b].pc = "holding"
          PROVE  doc'[calls[b].code] = doc[calls[b].code]
      <3>1. CallInv(b) /\ calls[b].pc \in InSection /\ calls[a].pc \in InSection
        BY <1>1, <2>2 DEF IInv, InSection
      <3>2. calls[b].code # c
        BY <1>1, <1>2, <1>10, <3>1, OneSection
      <3>. QED BY <1>1, <1>5, <2>2, <3>1, <3>2 DEF CallInv
    <2>. QED BY <2>1, <2>2, KeptElsewhere
  <1>11. CASE ~Owes(a)
    <2>1. doc[c] = d
      BY <1>1, <1>2, <1>11 DEF Owes, Stale
    <2>2. KeptOwed(a)
      BY <1>9, <1>11 DEF KeptOwed
    <2>3. OwedTo' = OwedTo
      BY <1>10, <2>2, OwedKept
    <2>. QED BY <1>3, <1>5, <1>6, <1>7, <2>1, <2>3
  <1>12. CASE Owes(a)
    <2>1. Shown[c].carried
      BY <1>1, <1>2, <1>7, <1>12 DEF CallInv, Owes, Stale, SavedOver, Carrying
    <2>2. d \in OwedTo[c]
      BY <1>2, <1>12, InOwed DEF OwedTo
    <2>3. OwedTo' = [OwedTo EXCEPT ![c] = Owed(c)']
      BY <1>2, <1>9, <1>10, OwedChanged
    <2>4. ASSUME NEW b \in Call, calls'[b].code = c, Owes(b)'
          PROVE  FALSE
      <3>1. b # a /\ KeptOwed(b)
        BY <1>9, <1>10, <2>4
      <3>2. Owes(b) /\ calls[b].code = c
        BY <2>4, <3>1 DEF KeptOwed
      <3>. QED BY <1>2, <1>12, <3>1, <3>2, OwesOne
    <2>5. Owed(c)' = {}
      BY <2>4, InOwed
    <2>. QED BY <1>3, <1>5, <1>6, <1>7, <2>1, <2>2, <2>3, <2>5
  <1>. QED BY <1>11, <1>12

\* A section ends the game: nothing was owed, its own copy is.
LEMMA EndPromise ==
    ASSUME IInv, NEW a \in Call, SaveEnded(a)
    PROVE  \E c \in Code :
              /\ Shown[c] # NoRoom /\ Shown[c].end = 0 /\ opened' = opened
              /\ OwedTo[c] = {}
              /\ Shown' = [Shown EXCEPT ![c].seq = @ + 1, ![c].end = Shown[c].seq + 1]
              /\ OwedTo' = [OwedTo EXCEPT ![c] = {Shown'[c]}]
  <1>1. /\ TypeOK /\ calls \in [Call -> CallState] /\ doc \in [Code -> Document]
        /\ CallInv(a) /\ calls[a].pc = "holding" /\ calls[a].copy.end = 0
    BY DEF IInv, TypeOK, SaveEnded
  <1>2. PICK c \in Code, d \in Document : c = calls[a].code /\ d = calls[a].copy
    BY <1>1, CallParts DEF CallInv
  <1>3. PICK n : n = [d EXCEPT !.seq = @ + 1, !.end = d.seq + 1]
    OBVIOUS
  <1>4. doc[c] = d /\ Current(d) /\ d.end = 0 /\ ~d.carried
    BY <1>1, <1>2 DEF IInv, CallInv, SavedOver, DocsKnown
  <1>5. Current(n)
    BY <1>3, <1>4 DEF Current, Document
  <1>6. /\ doc' = [doc EXCEPT ![c] = n] /\ opened' = opened
        /\ calls' = [calls EXCEPT ![a].pc = "ending", ![a].copy = n]
    BY <1>2, <1>3 DEF SaveEnded
  <1>7. Shown' = [Shown EXCEPT ![c] = n]
    BY <1>5, <1>6, ShownChanged
  <1>8. Shown[c] = d /\ Shown[c] # NoRoom
    BY <1>4 DEF Shown, Current, NoRoom
  <1>9. Owed(c) = {}
    BY <1>4, NobodyOwes
  <1>10. calls'[a].pc = "ending" /\ calls'[a].code = c /\ calls'[a].copy = n
    BY <1>1, <1>2, <1>6 DEF CallState
  <1>11. Owes(a)'
    BY <1>10 DEF Owes, Carrying
  <1>12. ASSUME NEW b \in Call, b # a
         PROVE  KeptOwed(b)
    <2>1. calls'[b] = calls[b]
      BY <1>1, <1>6, <1>12
    <2>2. ASSUME calls[b].pc = "holding"
          PROVE  doc'[calls[b].code] = doc[calls[b].code]
      <3>1. CallInv(b) /\ calls[b].pc \in InSection /\ calls[a].pc \in InSection
        BY <1>1, <2>2 DEF IInv, InSection
      <3>2. calls[b].code # c
        BY <1>1, <1>2, <1>12, <3>1, OneSection
      <3>. QED BY <1>1, <1>6, <2>2, <3>1, <3>2 DEF CallInv
    <2>. QED BY <2>1, <2>2, KeptElsewhere
  <1>13. OwedTo' = [OwedTo EXCEPT ![c] = Owed(c)']
    BY <1>2, <1>10, <1>12, OwedChanged
  <1>14. ASSUME NEW b \in Call, b # a, calls'[b].code = c, Owes(b)'
         PROVE  FALSE
    <2>1. Owes(b) /\ calls[b].code = c
      BY <1>12, <1>14 DEF KeptOwed
    <2>2. calls[b].copy \in Owed(c)
      BY <2>1, InOwed
    <2>. QED BY <1>9, <2>2
  <1>15. n \in Owed(c)' /\ \A e : e \in Owed(c)' => e = n
    BY <1>10, <1>11, <1>14, InOwed
  <1>16. Owed(c)' = {n}
    BY <1>15 DEF Owed
  <1>17. Shown'[c] = n /\ OwedTo[c] = {}
    BY <1>7, <1>9 DEF Shown, OwedTo
  <1>18. Shown' = [Shown EXCEPT ![c].seq = @ + 1, ![c].end = Shown[c].seq + 1]
    <2>1. PICK S, T : S = Shown /\ T = Shown'
      OBVIOUS
    <2>2. S = [e \in Code |-> S[e]] /\ S[c] = d /\ T = [S EXCEPT ![c] = n]
      BY <1>7, <1>8, <2>1 DEF Shown
    <2>3. T = [S EXCEPT ![c].seq = @ + 1, ![c].end = S[c].seq + 1]
      BY ONLY <1>3, <2>2
    <2>. QED BY <2>1, <2>3
  <1>19. Shown[c].end = 0
    BY <1>4, <1>8
  <1>20. OwedTo' = [OwedTo EXCEPT ![c] = {Shown'[c]}]
    BY <1>13, <1>16, <1>17
  <1>. QED BY <1>6, <1>8, <1>17, <1>18, <1>19, <1>20

\* finish_game puts the copy back, over what one section may have read.
LEMMA CarriedPromise ==
    ASSUME IInv, NEW a \in Call, SaveCarried(a)
    PROVE  \E c \in Code :
              /\ ~Shown[c].carried /\ opened' = opened
              /\ \E d \in OwedTo[c] :
                    Shown' = [Shown EXCEPT ![c] = [d EXCEPT !.seq = @ + 1, !.carried = TRUE]]
              /\ \E left \in {{}, {Shown[c]}} : OwedTo' = [OwedTo EXCEPT ![c] = left]
  <1>1. /\ TypeOK /\ calls \in [Call -> CallState] /\ doc \in [Code -> Document]
        /\ CallInv(a) /\ calls[a].pc = "finishing" /\ calls[a].pc \in Carrying
    BY DEF IInv, TypeOK, SaveCarried, Carrying
  <1>2. PICK c \in Code, d \in Document : c = calls[a].code /\ d = calls[a].copy
    BY <1>1, CallParts DEF CallInv
  <1>3. PICK n : n = [d EXCEPT !.seq = @ + 1, !.carried = TRUE]
    OBVIOUS
  <1>4. Current(d) /\ Current(n) /\ Current(doc[c]) /\ ~doc[c].carried
    BY <1>1, <1>2, <1>3 DEF CallInv, Current, Document
  <1>5. /\ doc' = [doc EXCEPT ![c] = n] /\ opened' = opened
        /\ calls' = [calls EXCEPT ![a] = Idle]
    BY <1>2, <1>3 DEF SaveCarried
  <1>6. Shown' = [Shown EXCEPT ![c] = n]
    BY <1>4, <1>5, ShownChanged
  <1>7. Shown[c] = doc[c]
    BY <1>4 DEF Shown, Current
  <1>8. Owes(a) /\ d \in OwedTo[c]
    BY <1>1, <1>2, InOwed DEF OwedTo, Owes
  <1>9. ~Owes(a)'
    BY <1>1, <1>5 DEF Owes, Stale, Carrying, Idle
  <1>10. \A b \in Call : b # a => calls'[b] = calls[b]
    BY <1>5
  <1>11. ASSUME NEW b \in Call, b # a, calls[b].code # c
         PROVE  KeptOwed(b)
    <2>1. calls[b].pc = "holding" => doc'[calls[b].code] = doc[calls[b].code]
      BY <1>1, <1>5, <1>11 DEF IInv, CallInv
    <2>. QED BY <1>10, <1>11, <2>1, KeptElsewhere
  <1>12. OwedTo' = [OwedTo EXCEPT ![c] = Owed(c)']
    BY <1>2, <1>9, <1>10, <1>11, OwedChanged
  <1>13. ASSUME NEW b \in Call, calls'[b].code = c, Owes(b)'
         PROVE  calls'[b].copy = doc[c]
    <2>1. b # a /\ calls'[b] = calls[b]
      BY <1>9, <1>10, <1>13
    <2>2. calls[b].pc \notin Carrying
      BY <1>1, <1>2, <1>13, <2>1 DEF IInv, CarriedOnce
    <2>3. calls[b].pc = "holding"
      BY <1>13, <2>1, <2>2 DEF Owes, Stale
    <2>. QED BY <1>4, <1>13, <2>1, <2>3 DEF IInv, CallInv, SavedOver
  <1>14. \A e : e \in Owed(c)' => e = doc[c]
    BY <1>13, InOwed
  <1>15. Owed(c)' \in {{}, {Shown[c]}}
    <2>1. CASE doc[c] \in Owed(c)'
      <3>1. Owed(c)' = {doc[c]}
        BY <1>14, <2>1 DEF Owed
      <3>. QED BY <1>7, <3>1
    <2>2. CASE doc[c] \notin Owed(c)'
      <3>1. Owed(c)' = {}
        BY <1>14, <2>2 DEF Owed
      <3>. QED BY <3>1
    <2>. QED BY <2>1, <2>2
  <1>. QED BY <1>3, <1>4, <1>5, <1>6, <1>7, <1>8, <1>12, <1>15

\* A call is left without a save: what it owed is forgotten.
LEMMA ForgetPromise ==
    ASSUME IInv, NEW a \in Call, Refuse(a) \/ Crash(a)
    PROVE  /\ Shown' = Shown /\ opened' = opened
           /\ \/ OwedTo' = OwedTo
              \/ \E c \in Code : OwedTo' = [OwedTo EXCEPT ![c] = {}]
  <1>1. TypeOK /\ calls \in [Call -> CallState] /\ CallInv(a)
    BY DEF IInv, TypeOK
  <1>2. doc' = doc /\ opened' = opened /\ \A b \in Call : b # a => calls'[b] = calls[b]
    BY <1>1 DEF Refuse, Crash
  <1>3. calls'[a].pc \in {"leaving", "idle"}
    <2>1. CASE Refuse(a)
      <3>1. calls'[a] = Leaving(calls[a])
        BY <1>1, <2>1 DEF Refuse
      <3>. QED BY <1>1, <3>1, LeavingTyped
    <2>2. CASE Crash(a)
      BY <1>1, <2>2 DEF Crash, Idle
    <2>. QED BY <2>1, <2>2
  <1>4. ~Owes(a)'
    BY <1>3 DEF Owes, Stale, Carrying
  <1>5. \A b \in Call : b # a => KeptOwed(b)
    BY <1>2, KeptElsewhere
  <1>6. Shown' = Shown
    BY <1>2, ShownKept
  <1>7. CASE ~Owes(a)
    <2>1. KeptOwed(a)
      BY <1>4, <1>7 DEF KeptOwed
    <2>. QED BY <1>2, <1>5, <1>6, <2>1, OwedKept
  <1>8. CASE Owes(a)
    <2>1. calls[a].code \in Code
      BY <1>1, <1>8 DEF CallInv, Owes, Stale, Carrying
    <2>2. PICK c \in Code : c = calls[a].code
      BY <2>1
    <2>3. OwedTo' = [OwedTo EXCEPT ![c] = Owed(c)']
      BY <1>4, <1>5, <2>2, OwedChanged
    <2>4. ASSUME NEW b \in Call, calls'[b].code = c, Owes(b)'
          PROVE  FALSE
      <3>1. b # a /\ Owes(b) /\ calls[b].code = c
        BY <1>4, <1>5, <2>4 DEF KeptOwed
      <3>. QED BY <1>8, <2>2, <3>1, OwesOne
    <2>5. Owed(c)' = {}
      BY <2>4, InOwed
    <2>. QED BY <1>2, <1>6, <2>3, <2>5
  <1>. QED BY <1>7, <1>8

\* A room appears under its code, or expires: nobody who owes anything is there.
LEMMA OpenPromise ==
    ASSUME IInv, NEW a \in Call, CreateRoom(a)
    PROVE  \E c \in Code :
              /\ Shown[c] = NoRoom /\ opened' = opened + 1
              /\ Shown' = [Shown EXCEPT ![c] = [NoRoom EXCEPT !.born = opened + 1]]
              /\ OwedTo' = OwedTo
  <1>1. /\ TypeOK /\ calls \in [Call -> CallState] /\ doc \in [Code -> Document]
        /\ CallInv(a) /\ Alone /\ opened \in Nat /\ calls[a].pc = "creating"
    BY DEF IInv, TypeOK, CreateRoom
  <1>2. PICK c \in Code : c = calls[a].code
    BY <1>1 DEF CallInv
  <1>3. PICK n : n = [NoRoom EXCEPT !.born = opened + 1]
    OBVIOUS
  <1>4. Current(n) /\ doc[c] = NoRoom
    BY <1>1, <1>2, <1>3 DEF CallInv, Current, NoRoom
  <1>5. /\ doc' = [doc EXCEPT ![c] = n] /\ opened' = opened + 1
        /\ calls' = [calls EXCEPT ![a] = Idle]
    BY <1>2, <1>3 DEF CreateRoom
  <1>6. Shown' = [Shown EXCEPT ![c] = n]
    BY <1>4, <1>5, ShownChanged
  <1>7. Shown[c] = NoRoom
    BY <1>4 DEF Shown, Current, NoRoom
  <1>8. KeptOwed(a)
    BY <1>1, <1>5, OwesNothing DEF Owes, Stale, Carrying, Idle
  <1>9. ASSUME NEW b \in Call, b # a
        PROVE  KeptOwed(b)
    <2>1. calls'[b] = calls[b] /\ calls[b].code # c
      BY <1>1, <1>2, <1>5, <1>9 DEF Alone, Creating
    <2>2. calls[b].pc = "holding" => doc'[calls[b].code] = doc[calls[b].code]
      BY <1>1, <1>5, <2>1 DEF IInv, CallInv
    <2>. QED BY <2>1, <2>2, KeptElsewhere
  <1>10. OwedTo' = OwedTo
    BY <1>8, <1>9, OwedKept
  <1>. QED BY <1>3, <1>5, <1>6, <1>7, <1>10

LEMMA LapsePromise ==
    ASSUME IInv, NEW c \in Code, Expire(c)
    PROVE  /\ OwedTo[c] = {} /\ OwedTo' = OwedTo /\ opened' = opened
           /\ Shown' = [Shown EXCEPT ![c] = NoRoom]
  <1>1. /\ doc \in [Code -> Document] /\ calls' = calls /\ opened' = opened
        /\ doc' = [doc EXCEPT ![c] = NoRoom]
        /\ \A b \in Call : calls[b].code # c
    BY DEF IInv, TypeOK, Expire, NobodyAt, At
  <1>2. Shown' = [Shown EXCEPT ![c] = NoRoom]
    BY <1>1, ShownChanged
  <1>3. Owed(c) = {}
    BY <1>1, InOwed
  <1>4. ASSUME NEW b \in Call
        PROVE  KeptOwed(b)
    <2>1. calls[b].pc = "holding" => doc'[calls[b].code] = doc[calls[b].code]
      BY <1>1 DEF IInv, CallInv
    <2>. QED BY <1>1, <2>1, KeptElsewhere
  <1>. QED BY <1>1, <1>2, <1>3, <1>4, OwedKept DEF OwedTo

LEMMA PromiseStep ==
    ASSUME IInv, Next
    PROVE  [Promise!Next]_<<Shown, OwedTo, opened>>
  <1>1. Promise!NoRoom = NoRoom
    BY DEF Promise!NoRoom, NoRoom
  <1>2. ASSUME NEW a \in Call, SaveRoom(a)
        PROVE  \E c \in Code : Promise!Change(c) \/ Promise!Undo(c)
    BY <1>1, <1>2, SavePromise DEF Promise!Change, Promise!Undo, Shown, OwedTo
  <1>3. ASSUME NEW a \in Call, SaveEnded(a)
        PROVE  \E c \in Code : Promise!End(c)
    BY <1>1, <1>3, EndPromise DEF Promise!End, Shown, OwedTo
  <1>4. ASSUME NEW a \in Call, SaveCarried(a)
        PROVE  \E c \in Code : Promise!PutBack(c)
    BY <1>4, CarriedPromise DEF Promise!PutBack, Shown, OwedTo
  <1>5. ASSUME NEW a \in Call, Refuse(a) \/ Crash(a)
        PROVE  \/ Shown' = Shown /\ OwedTo' = OwedTo /\ opened' = opened
               \/ \E c \in Code : Promise!Forget(c)
    BY <1>5, ForgetPromise DEF Promise!Forget, Shown, OwedTo
  <1>6. ASSUME NEW a \in Call, CreateRoom(a)
        PROVE  \E c \in Code : Promise!Open(c)
    BY <1>1, <1>6, OpenPromise DEF Promise!Open, Shown, OwedTo
  <1>7. ASSUME NEW c \in Code, Expire(c)
        PROVE  Promise!Lapse(c)
    BY <1>1, <1>7, LapsePromise DEF Promise!Lapse, Shown, OwedTo
  <1>8. ASSUME NEW a \in Call, NEW c \in Code,
               \/ Lock(a, c) \/ Peek(a, c) \/ Draw(a, c) \/ GetRoom(a) \/ Unlock(a)
               \/ Discard(a) \/ DiscardPeeked(a) \/ ClearDrawn(a) \/ Tick
        PROVE  Shown' = Shown /\ OwedTo' = OwedTo /\ opened' = opened
    BY <1>8, QuietPromise
  <1>9. ASSUME Tick
        PROVE  Shown' = Shown /\ OwedTo' = OwedTo /\ opened' = opened
    <2>1. PICK c \in Code : Held(c)
      BY <1>9 DEF Tick
    <2>2. lock[c].holder \in Call
      BY <2>1 DEF Held, IInv, TypeOK
    <2>. QED BY <1>9, <2>2, QuietPromise
  <1>10. CASE Shown' = Shown /\ OwedTo' = OwedTo /\ opened' = opened
    BY <1>10
  <1>11. CASE \E c \in Code : \/ Promise!Open(c) \/ Promise!Change(c) \/ Promise!End(c)
                             \/ Promise!PutBack(c) \/ Promise!Undo(c) \/ Promise!Forget(c)
                             \/ Promise!Lapse(c)
    BY <1>11 DEF Promise!Next
  <1>12. CASE \E a \in Call : \/ GetRoom(a) \/ Unlock(a) \/ Discard(a) \/ DiscardPeeked(a)
                             \/ ClearDrawn(a)
    <2>1. PICK a \in Call : \/ GetRoom(a) \/ Unlock(a) \/ Discard(a) \/ DiscardPeeked(a)
                            \/ ClearDrawn(a)
      BY <1>12
    <2>2. calls[a].code \in Code
      BY <2>1 DEF IInv, CallInv, GetRoom, Unlock, Discard, DiscardPeeked, ClearDrawn
    <2>. QED BY <1>8, <1>10, <2>1, <2>2
  <1>. QED BY <1>2, <1>3, <1>4, <1>5, <1>6, <1>7, <1>8, <1>9, <1>10, <1>11, <1>12 DEF Next

\* For any number of calls, codes, rooms and crashes, and any lease longer than a
\* section: until a game ends every section changes what the one before it left;
\* after that only finish_game's save, which takes no lock, and the one section it
\* overlapped lose changes, and none from before the end; and a room is gone only
\* when it expired (StateService.lock, get_room, save_room, create_room, finish_game).
\* The draw of a free code is assumed to find one nobody else is using (NobodyAt).
THEOREM StoreImplementsRoomDocument == Spec => ImplementsRoomDocument
  <1>1. Init => Promise!Init
    <2>1. ~Current(NoRoom) /\ ~Current(OldRoom)
      BY DEF Current, NoRoom, OldRoom
    <2>2. Promise!NoRoom = NoRoom
      BY DEF Promise!NoRoom, NoRoom
    <2>3. ASSUME Init, NEW c \in Code
          PROVE  Owed(c) = {}
      BY <2>3 DEF Init, Owed, Owes, Stale, At, Idle, Carrying
    <2>. QED BY <2>1, <2>2, <2>3 DEF Init, Promise!Init
  <1>2. IInv /\ [Next]_vars => [Promise!Next]_(Promise!vars)
    <2>1. CASE UNCHANGED vars
      BY <2>1 DEF vars, Promise!vars, Current, Owed, Owes, Stale, At
    <2>2. ASSUME IInv, Next
          PROVE  [Promise!Next]_(Promise!vars)
      BY <2>2, PromiseStep DEF Promise!vars, Shown, OwedTo
    <2>. QED BY <2>1, <2>2
  <1>. QED BY <1>1, <1>2, Inductive, PTL DEF Spec, ImplementsRoomDocument, Promise!Spec
===============================================================================
