------------------------------- MODULE RoomStore -------------------------------
(***************************************************************************)
(* The room store of app/services/state_service.py on its Redis backend:   *)
(* documents under room codes, a lock per code that is a lease, handlers   *)
(* that load, change and save under it, readers that take no lock, the     *)
(* creation of rooms, finish_game, which saves the copy its section left   *)
(* it without the lock, the expiry of documents, documents an earlier      *)
(* release left behind, and processes that die in the middle.              *)
(*                                                                         *)
(* A call does one access of the store per action.  A document is known by *)
(* the creation it comes from (born), by how many changes it has had (seq, *)
(* which next_seq increments in every section that saves), by the change   *)
(* that ended its game (end, 0 before) and by whether what is stored goes  *)
(* back to finish_game's save (carried).                                   *)
(***************************************************************************)
EXTENDS Integers, FiniteSets

CONSTANTS
    Call,           \* calls that can be in progress at once (a bound)
    NoCall,         \* the holder of a lock that is free
    Code,           \* room codes
    NoCode,         \* the code of a call at none
    LockTimeout,    \* LOCK_TIMEOUT_SECONDS
    SectionTime,    \* the longest a section of a live process takes
    MaxAttempts,    \* _MAX_CODE_ATTEMPTS
    MaxRooms,       \* rooms created (a bound)
    MaxChanges,     \* changes of one room (a bound)
    MaxCrashes      \* processes that die (a bound)

\* StateService.lock: the timeout is "a deadlock escape hatch": no section takes
\* as long.
ASSUME LeaseAssumption ==
    /\ SectionTime \in Nat \ {0}
    /\ LockTimeout \in Nat
    /\ SectionTime < LockTimeout
ASSUME NoneAssumption == NoCall \notin Call /\ NoCode \notin Code
ASSUME CallAssumption == IsFiniteSet(Call)
ASSUME BoundsAssumption ==
    /\ MaxAttempts \in Nat \ {0}
    /\ MaxRooms \in Nat
    /\ MaxChanges \in Nat
    /\ MaxCrashes \in Nat

VARIABLES
    doc,      \* the stored document of each code
    lock,     \* the lease on each code: whose, and how long it still runs
    calls,    \* where each call is and what it has read
    opened,   \* rooms created so far
    crashes   \* processes that died so far

vars == <<doc, lock, calls, opened, crashes>>

-------------------------------------------------------------------------------
(* Documents, leases and calls.                                                *)

\* A room's creation is a positive number; 0 is no document, -1 one whose
\* schema_version is not this release's.
NoRoom  == [born |-> 0, seq |-> 0, end |-> 0, carried |-> FALSE]
OldRoom == [born |-> -1, seq |-> 0, end |-> 0, carried |-> FALSE]

Current(d) == d.born > 0

Unlocked == [holder |-> NoCall, left |-> 0]
Held(c) == lock[c].holder # NoCall

Idle == [pc |-> "idle", code |-> NoCode, copy |-> NoRoom, used |-> 0, tries |-> 0]

Busy(a) == calls[a].pc # "idle"

\* Inside "async with state_svc.lock(...)".
InSection == {"locked", "holding", "discarding", "leaving", "ending"}

\* From the save that ends the game to finish_game's.
Carrying == {"ending", "finishing"}

\* create_room between its room_exists and its save_room.
Creating == {"clearing", "creating"}

Creators == {a \in Call : calls[a].pc \in Creating}

At(a, c) == calls[a].code = c

\* A drawn code that is free is one of 31^6, and nobody but its creator uses it
\* before the creation returns it: an assumption on the draw, not a guard of the
\* code, which checks and saves in two steps.
NobodyAt(c) == \A a \in Call : ~At(a, c)
NobodyCreatesAt(c) == \A a \in Call : At(a, c) => calls[a].pc \notin Creating

Init ==
    /\ doc \in [Code -> {NoRoom, OldRoom}]
    /\ lock = [c \in Code |-> Unlocked]
    /\ calls = [a \in Call |-> Idle]
    /\ opened = 0
    /\ crashes = 0

-------------------------------------------------------------------------------
(* A handler's section.                                                        *)

\* Mutant of MayLock: every call gets a lock object of its own.
MayLockAnyway(c) == TRUE

MayLock(c) == ~Held(c)

Lock(a, c) ==
    /\ ~Busy(a)
    /\ MayLock(c)
    /\ NobodyCreatesAt(c)
    /\ lock' = [lock EXCEPT ![c] = [holder |-> a, left |-> LockTimeout]]
    /\ calls' = [calls EXCEPT ![a] = [Idle EXCEPT !.pc = "locked", !.code = c]]
    /\ UNCHANGED <<doc, opened, crashes>>

\* get_room: None for an absent document and, after a delete, for an old one.
GetRoom(a) ==
    /\ calls[a].pc = "locked"
    /\ LET found == doc[calls[a].code]
       IN  calls' = [calls EXCEPT
                       ![a].pc = CASE Current(found) -> "holding"
                                   [] found = OldRoom -> "discarding"
                                   [] OTHER -> "leaving",
                       ![a].copy = IF Current(found) THEN found ELSE NoRoom]
    /\ UNCHANGED <<doc, lock, opened, crashes>>

\* get_room's delete of the old document, inside a section.
Discard(a) ==
    /\ calls[a].pc = "discarding"
    /\ doc' = [doc EXCEPT ![calls[a].code] = NoRoom]
    /\ calls' = [calls EXCEPT ![a].pc = "leaving"]
    /\ UNCHANGED <<lock, opened, crashes>>

\* The end of a section; what it read is not used again.
Leaving(call) == [call EXCEPT !.pc = "leaving", !.copy = NoRoom]

\* save_room of the changed copy.
SaveRoom(a) ==
    /\ calls[a].pc = "holding"
    /\ calls[a].copy.seq < MaxChanges
    /\ doc' = [doc EXCEPT ![calls[a].code] = [calls[a].copy EXCEPT !.seq = @ + 1]]
    /\ calls' = [calls EXCEPT ![a] = Leaving(@)]
    /\ UNCHANGED <<lock, opened, crashes>>

\* The save of the section that ends the game: the call keeps the document for
\* finish_game.
SaveEnded(a) ==
    /\ calls[a].pc = "holding"
    /\ calls[a].copy.end = 0
    /\ calls[a].copy.seq + 1 < MaxChanges
    /\ LET ended == [calls[a].copy EXCEPT !.seq = @ + 1, !.end = calls[a].copy.seq + 1]
       IN  /\ doc' = [doc EXCEPT ![calls[a].code] = ended]
           /\ calls' = [calls EXCEPT ![a].pc = "ending", ![a].copy = ended]
    /\ UNCHANGED <<lock, opened, crashes>>

\* The handler refuses the call, or something raises: nothing is saved.
Refuse(a) ==
    /\ calls[a].pc \in {"locked", "holding"}
    /\ calls' = [calls EXCEPT ![a] = Leaving(@)]
    /\ UNCHANGED <<doc, lock, opened, crashes>>

\* The end of the section; a lease that ran out is not released but reported.
Unlock(a) ==
    /\ calls[a].pc \in {"leaving", "ending"}
    /\ LET c == calls[a].code
       IN  lock' = [lock EXCEPT ![c] = IF @.holder = a THEN Unlocked ELSE @]
    /\ calls' = [calls EXCEPT ![a] = IF @.pc = "leaving" THEN Idle
                                    ELSE [@ EXCEPT !.pc = "finishing", !.used = 0]]
    /\ UNCHANGED <<doc, opened, crashes>>

-------------------------------------------------------------------------------
(* Calls without the lock.                                                     *)

\* finish_game's save_room of the document it was handed, after an emit and the
\* database: nothing is read again.
SaveCarried(a) ==
    /\ calls[a].pc = "finishing"
    /\ doc' = [doc EXCEPT ![calls[a].code] = [calls[a].copy EXCEPT !.seq = @ + 1,
                                                                  !.carried = TRUE]]
    /\ calls' = [calls EXCEPT ![a] = Idle]
    /\ UNCHANGED <<lock, opened, crashes>>

\* room_status and get_config read without the lock; get_room may have to delete.
Peek(a, c) ==
    /\ ~Busy(a)
    /\ NobodyCreatesAt(c)
    /\ doc[c] = OldRoom
    /\ calls' = [calls EXCEPT ![a] = [Idle EXCEPT !.pc = "peeking", !.code = c]]
    /\ UNCHANGED <<doc, lock, opened, crashes>>

DiscardPeeked(a) ==
    /\ calls[a].pc = "peeking"
    /\ doc' = [doc EXCEPT ![calls[a].code] = NoRoom]
    /\ calls' = [calls EXCEPT ![a] = Idle]
    /\ UNCHANGED <<lock, opened, crashes>>

\* room_exists, through get_room.
Taken(c) == Current(doc[c])

\* Mutant of LastAttempt: one attempt too many.
OneMoreAttempt(tries) == tries > MaxAttempts

LastAttempt(tries) == tries = MaxAttempts

\* create_room: draw a code and look whether it is free.
Draw(a, c) ==
    /\ calls[a].pc \in {"idle", "drawing"}
    /\ opened + Cardinality(Creators) < MaxRooms
    /\ Taken(c) \/ NobodyAt(c)
    /\ LET tries == calls[a].tries + 1
       IN  calls' = [calls EXCEPT ![a] =
               IF Taken(c)
               THEN IF LastAttempt(tries) THEN Idle
                    ELSE [Idle EXCEPT !.pc = "drawing", !.tries = tries]
               ELSE [Idle EXCEPT !.pc = IF doc[c] = OldRoom THEN "clearing" ELSE "creating",
                                 !.code = c, !.tries = tries]]
    /\ UNCHANGED <<doc, lock, opened, crashes>>

\* room_exists' delete of an old document under the drawn code.
ClearDrawn(a) ==
    /\ calls[a].pc = "clearing"
    /\ doc' = [doc EXCEPT ![calls[a].code] = NoRoom]
    /\ calls' = [calls EXCEPT ![a].pc = "creating"]
    /\ UNCHANGED <<lock, opened, crashes>>

\* save_room of the new document, without the lock.
CreateRoom(a) ==
    /\ calls[a].pc = "creating"
    /\ opened' = opened + 1
    /\ doc' = [doc EXCEPT ![calls[a].code] = [NoRoom EXCEPT !.born = opened']]
    /\ calls' = [calls EXCEPT ![a] = Idle]
    /\ UNCHANGED <<lock, crashes>>

-------------------------------------------------------------------------------
(* Time and failure.                                                           *)

\* Mutant of AfterTick: the timeout is accepted and ignored.
AfterTickWithoutTimeout(lease) == lease

\* A lease runs down; at the end Redis drops the key.
AfterTick(lease) ==
    IF lease.holder = NoCall \/ lease.left <= 1 THEN Unlocked
    ELSE [lease EXCEPT !.left = @ - 1]

\* Time passes for every lease and every live section; no section has more than
\* SectionTime.
Tick ==
    /\ \E c \in Code : Held(c)
    /\ \A a \in Call : calls[a].pc \in InSection => calls[a].used < SectionTime
    /\ lock' = [c \in Code |-> AfterTick(lock[c])]
    /\ calls' = [a \in Call |-> IF calls[a].pc \in InSection
                                THEN [calls[a] EXCEPT !.used = @ + 1] ELSE calls[a]]
    /\ UNCHANGED <<doc, opened, crashes>>

\* ROOM_TTL_SECONDS without a save: a day, against the moments a call takes.
Expire(c) ==
    /\ doc[c] # NoRoom
    /\ NobodyAt(c)
    /\ doc' = [doc EXCEPT ![c] = NoRoom]
    /\ UNCHANGED <<lock, calls, opened, crashes>>

\* The process of a call dies; a lease it holds stays with Redis.
Crash(a) ==
    /\ Busy(a)
    /\ crashes < MaxCrashes
    /\ crashes' = crashes + 1
    /\ calls' = [calls EXCEPT ![a] = Idle]
    /\ UNCHANGED <<doc, lock, opened>>

Step(a) ==
    GetRoom(a) \/ Discard(a) \/ SaveRoom(a) \/ SaveEnded(a) \/ Refuse(a) \/ Unlock(a)
      \/ SaveCarried(a) \/ DiscardPeeked(a) \/ ClearDrawn(a) \/ CreateRoom(a)

Next ==
    \/ \E a \in Call, c \in Code : Lock(a, c)
    \/ \E a \in Call : GetRoom(a)
    \/ \E a \in Call : Discard(a)
    \/ \E a \in Call : SaveRoom(a)
    \/ \E a \in Call : SaveEnded(a)
    \/ \E a \in Call : Refuse(a)
    \/ \E a \in Call : Unlock(a)
    \/ \E a \in Call : SaveCarried(a)
    \/ \E a \in Call, c \in Code : Peek(a, c)
    \/ \E a \in Call : DiscardPeeked(a)
    \/ \E a \in Call, c \in Code : Draw(a, c)
    \/ \E a \in Call : ClearDrawn(a)
    \/ \E a \in Call : CreateRoom(a)
    \/ Tick
    \/ \E c \in Code : Expire(c)
    \/ \E a \in Call : Crash(a)

Spec == Init /\ [][Next]_vars

\* A live process goes on with its call, and time passes.
FairSpec == Spec /\ WF_vars(Tick) /\ \A a \in Call : WF_vars(Step(a))

-------------------------------------------------------------------------------
(* Properties.                                                                 *)

Document ==
    [born : -1..MaxRooms, seq : 0..MaxChanges, end : 0..MaxChanges, carried : BOOLEAN]

CallState ==
    [pc : InSection \cup Creating \cup {"idle", "peeking", "drawing", "finishing"},
     code : Code \cup {NoCode}, copy : Document,
     used : 0..SectionTime, tries : 0..MaxAttempts]

\* The types; that no live section outlives SectionTime is part of it.
TypeOK ==
    /\ doc \in [Code -> Document]
    /\ lock \in [Code -> [holder : Call \cup {NoCall}, left : 0..LockTimeout]]
    /\ calls \in [Call -> CallState]
    /\ opened \in 0..MaxRooms
    /\ crashes \in 0..MaxCrashes

\* A section whose room finish_game saved after the section had read it.
Stale(a) == calls[a].pc = "holding" /\ doc[calls[a].code] # calls[a].copy

\* Who may still put a copy back over what is stored, and the copies.
Owes(a) == calls[a].pc \in Carrying \/ Stale(a)

Owed(c) == {calls[a].copy : a \in {b \in Call : At(b, c) /\ Owes(b)}}

\* What the handlers are promised; a document of an earlier release is no room.
Promise == INSTANCE RoomDocument WITH
    rooms <- [c \in Code |-> IF Current(doc[c]) THEN doc[c] ELSE NoRoom],
    owed <- [c \in Code |-> Owed(c)]

\* Until the game ends, every section changes what the one before it left, also when
\* a process died in its section and the lease had to run out (state_service.py lock,
\* and the fifty concurrent increments of tests/test_services/test_state_service.py).
\* Afterwards only finish_game's save, once, and the one section it overlapped can
\* lose changes, and none from before the end.  A room is gone only when it expired:
\* no reader, no creation and no late save deletes it, replaces it or brings it back.
\* That two creations never draw one free code at once is assumed (NobodyAt).
ImplementsRoomDocument == Promise!Spec

\* A lock is free again in the end, whatever happened to its holder
\* (LOCK_TIMEOUT_SECONDS: "deadlock escape hatch").
LockFreed == \A c \in Code : Held(c) ~> ~Held(c)
===============================================================================
