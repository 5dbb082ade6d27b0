---------------------------- MODULE PlayLoopProofs ----------------------------
(***************************************************************************)
(* Theorems about PlayLoop, for any number of seats, tasks, weeks, forces  *)
(* and restarts.                                                           *)
(***************************************************************************)
EXTENDS PlayLoop, FiniteSetTheorems, TLAPS

-------------------------------------------------------------------------------
(* What the changes of a document preserve.                                    *)

\* An order placed leaves a document.
LEMMA WithOrdersTyped ==
    ASSUME NEW doc \in Document, NEW roles \in SUBSET Role, NEW who \in {"human", "bot"}
    PROVE  WithOrders(doc, roles, who) \in Document
  BY DEF Document, WithOrders

\* The records of a week.
LEMMA RecordsTyped ==
    ASSUME NEW doc \in Document
    PROVE  [r \in Role |-> Record(doc, r)] \in [Role -> OrderRecord]
  <1>1. SUFFICES ASSUME NEW r \in Role PROVE Record(doc, r) \in OrderRecord
    BY Zenon
  <1>2. doc.pending[r] \in {"none", "human", "bot"} /\ doc.agentBot[r] \in BOOLEAN
    BY DEF Document
  <1>3. (r \in doc.byBot) \in BOOLEAN /\ (doc.pending[r] = "none") \in BOOLEAN
    OBVIOUS
  <1>4. CASE doc.pending[r] = "none"
    BY <1>2, <1>3, <1>4, Zenon DEF Record, OrderRecord
  <1>5. CASE doc.pending[r] # "none"
    BY <1>2, <1>3, <1>5, Zenon DEF Record, OrderRecord
  <1>. QED BY <1>4, <1>5

\* A closed week leaves a document.
LEMMA WithWeekClosedTyped ==
    ASSUME NEW doc \in Document
    PROVE  WithWeekClosed(doc) \in Document
  <1>1. [r \in Role |-> Record(doc, r)] \in [Role -> OrderRecord]
    BY RecordsTyped
  <1>2. Append(doc.history, [r \in Role |-> Record(doc, r)]) \in Seq([Role -> OrderRecord])
    BY <1>1 DEF Document
  <1>3. ~(doc.week >= DurationWeeks) => doc.week + 1 \in Week
    BY BoundsAssumption DEF Document, Week
  <1>. QED BY <1>2, <1>3 DEF Document, WithWeekClosed

\* A seat handed to a bot leaves a document.
LEMMA WithBotSeatedTyped ==
    ASSUME NEW doc \in Document, NEW r \in Role
    PROVE  WithBotSeated(doc, r) \in Document
  <1>1. /\ [doc.seatBot EXCEPT ![r] = TRUE] \in [Role -> BOOLEAN]
        /\ [doc.agentBot EXCEPT ![r] = TRUE] \in [Role -> BOOLEAN]
        /\ [doc.seen EXCEPT ![r] = <<>>] \in [Role -> Seq(Week)]
        /\ doc.bots \cup {r} \in SUBSET Role
    BY DEF Document
  <1>. QED BY <1>1 DEF Document, WithBotSeated

\* A seat handed back leaves a document.
LEMMA ReclaimedTyped ==
    ASSUME NEW doc \in Document, NEW r \in Role
    PROVE  [doc EXCEPT !.seatBot[r] = FALSE, !.agentBot[r] = FALSE,
                       !.bots = @ \ {r}, !.seen[r] = <<>>] \in Document
  <1>1. /\ [doc.seatBot EXCEPT ![r] = FALSE] \in [Role -> BOOLEAN]
        /\ [doc.agentBot EXCEPT ![r] = FALSE] \in [Role -> BOOLEAN]
        /\ [doc.seen EXCEPT ![r] = <<>>] \in [Role -> Seq(Week)]
        /\ doc.bots \ {r} \in SUBSET Role
    BY DEF Document
  <1>. QED BY <1>1 DEF Document

\* A round of bots leaves a document.
LEMMA WithBotsPlayedTyped ==
    ASSUME NEW doc \in Document
    PROVE  WithBotsPlayed(doc) \in Document
  <1>1. Due(doc) \in SUBSET Role
    BY DEF Due
  <1>2. WithOrders(doc, Due(doc), "bot") \in Document
    BY <1>1, WithOrdersTyped
  <1>3. [r \in Role |-> IF r \in Due(doc) THEN Append(doc.seen[r], doc.week) ELSE doc.seen[r]]
            \in [Role -> Seq(Week)]
    BY DEF Document
  <1>4. WithOrders(doc, Due(doc), "bot").seen = doc.seen
    BY DEF WithOrders, Document
  <1>. QED BY <1>1, <1>2, <1>3, <1>4 DEF Document, WithBotsPlayed

\* finish_game's mark on its copy leaves a document.
LEMMA MarkedTyped ==
    ASSUME NEW doc \in Document, NEW ok \in BOOLEAN
    PROVE  [doc EXCEPT !.persisted = ok] \in Document
  BY DEF Document

\* The continuations a task is given are task states.
LEMMA TasksTyped ==
    ASSUME NEW thenClose \in BOOLEAN
    PROVE  /\ Idle \in TaskState
           /\ \A pc \in InMemory : At(pc, thenClose) \in TaskState
           /\ \A pc \in Finishing, doc \in Document :
                  Carrying(pc, thenClose, doc) \in TaskState
  BY DEF Idle, At, Carrying, TaskState, InMemory, Finishing

LEMMA AfterDriveTyped ==
    ASSUME NEW task \in TaskState
    PROVE  /\ task.thenClose \in BOOLEAN
           /\ AfterDrive(task) \in TaskState
  <1>1. task.thenClose \in BOOLEAN
    BY DEF TaskState
  <1>2. "close" \in InMemory
    BY DEF InMemory
  <1>3. Idle \in TaskState /\ At("close", FALSE) \in TaskState
    BY <1>2, TasksTyped, Zenon
  <1>. QED BY <1>1, <1>3, Zenon DEF AfterDrive

-------------------------------------------------------------------------------
(* Type correctness.                                                           *)

\* Giving one task another state keeps the tasks typed.
LEMMA TaskSet ==
    ASSUME tasks \in [Task -> TaskState], NEW t \in Task, NEW next \in TaskState
    PROVE  [tasks EXCEPT ![t] = next] \in [Task -> TaskState]
  OBVIOUS

LEMMA TypeInit == Init => TypeOK
  <1>1. SUFFICES ASSUME Init PROVE TypeOK
    OBVIOUS
  <1>2. room \in Document
    BY <1>1, SeatsAssumption, BoundsAssumption DEF Init, Document, Week
  <1>3. tasks \in [Task -> TaskState]
    <2>1. Idle \in TaskState /\ At("drive", FALSE) \in TaskState
      BY TasksTyped DEF InMemory
    <2>. QED BY <1>1, <2>1 DEF Init
  <1>4. counts \in [Week -> [Role -> 0..MaxSubmissions]]
    BY <1>1, BoundsAssumption DEF Init, NoCounts
  <1>5. forces \in 0..MaxForces /\ crashes \in 0..MaxCrashes /\ persists \in Nat
    BY <1>1, BoundsAssumption DEF Init
  <1>. QED BY <1>2, <1>3, <1>4, <1>5 DEF TypeOK

LEMMA TypeStep == TypeOK /\ [Next]_vars => TypeOK'
  <1>1. SUFFICES ASSUME TypeOK, [Next]_vars PROVE TypeOK'
    OBVIOUS
  <1>. USE <1>1
  <1>2. /\ room \in Document
        /\ tasks \in [Task -> TaskState]
        /\ counts \in [Week -> [Role -> 0..MaxSubmissions]]
        /\ forces \in 0..MaxForces /\ crashes \in 0..MaxCrashes /\ persists \in Nat
        /\ room.week \in Week
        /\ MaxForces \in Nat /\ MaxCrashes \in Nat /\ MaxSubmissions \in Nat
    BY BoundsAssumption DEF TypeOK, Document
  <1>3. /\ \A pc \in InMemory, b \in BOOLEAN : At(pc, b) \in TaskState
        /\ \A pc \in Finishing, b \in BOOLEAN, doc \in Document :
               Carrying(pc, b, doc) \in TaskState
        /\ Idle \in TaskState
    BY TasksTyped
  <1>4. ASSUME NEW r \in Role, NEW t \in Task, Submit(r, t) PROVE TypeOK'
    <2>1. room' \in Document
      BY <1>2, <1>4, WithOrdersTyped DEF Submit
    <2>2. counts' \in [Week -> [Role -> 0..MaxSubmissions]]
      BY <1>2, <1>4 DEF Submit, MayResubmit
    <2>3. tasks' \in [Task -> TaskState]
      BY <1>2, <1>3, <1>4, TaskSet DEF Submit, InMemory
    <2>. QED BY <1>2, <1>4, <2>1, <2>2, <2>3 DEF Submit, TypeOK
  <1>5. CASE PauseGame
    <2>1. room' \in Document
      BY <1>2, <1>5 DEF PauseGame, Document
    <2>. QED BY <1>2, <1>5, <2>1 DEF PauseGame, TypeOK
  <1>6. ASSUME NEW t \in Task, ResumeGame(t) PROVE TypeOK'
    <2>1. room' \in Document
      BY <1>2, <1>6 DEF ResumeGame, Document
    <2>2. tasks' \in [Task -> TaskState]
      BY <1>2, <1>3, <1>6, TaskSet DEF ResumeGame, ResumePlay, InMemory
    <2>. QED BY <1>2, <1>6, <2>1, <2>2 DEF ResumeGame, TypeOK
  <1>7. ASSUME NEW t \in Task, ForceCloseWeek(t) PROVE TypeOK'
    <2>1. tasks' \in [Task -> TaskState]
      BY <1>2, <1>3, <1>7, TaskSet DEF ForceCloseWeek, InMemory
    <2>2. forces' \in 0..MaxForces
      BY <1>2, <1>7 DEF ForceCloseWeek
    <2>. QED BY <1>2, <1>7, <2>1, <2>2 DEF ForceCloseWeek, TypeOK
  <1>8. ASSUME NEW r \in Role, NEW t \in Task, SubstituteBot(r, t) PROVE TypeOK'
    <2>1. room' \in Document
      BY <1>2, <1>8, WithBotSeatedTyped DEF SubstituteBot
    <2>2. tasks' \in [Task -> TaskState]
      BY <1>2, <1>3, <1>8, TaskSet DEF SubstituteBot, InMemory
    <2>. QED BY <1>2, <1>8, <2>1, <2>2 DEF SubstituteBot, TypeOK
  <1>9. ASSUME NEW r \in Role, ReclaimSeat(r) PROVE TypeOK'
    <2>1. room' \in Document
      BY <1>2, <1>9, ReclaimedTyped DEF ReclaimSeat
    <2>. QED BY <1>2, <1>9, <2>1 DEF ReclaimSeat, TypeOK
  <1>10. ASSUME NEW t \in Task, EndGameEarly(t) PROVE TypeOK'
    <2>1. room' \in Document
      BY <1>2, <1>10 DEF EndGameEarly, Document
    <2>2. tasks' \in [Task -> TaskState]
      BY <1>2, <1>3, <1>10, <2>1, TaskSet DEF EndGameEarly, Finishing
    <2>. QED BY <1>2, <1>10, <2>1, <2>2 DEF EndGameEarly, TypeOK
  <1>11. ASSUME NEW r \in Role, Disconnect(r) PROVE TypeOK'
    <2>1. room' \in Document
      BY <1>2, <1>11 DEF Disconnect, Document
    <2>. QED BY <1>2, <1>11, <2>1 DEF Disconnect, TypeOK
  <1>12. ASSUME NEW r \in Role, Rejoin(r) PROVE TypeOK'
    <2>1. room' \in Document
      BY <1>2, <1>12 DEF Rejoin, Document
    <2>. QED BY <1>2, <1>12, <2>1 DEF Rejoin, TypeOK
  <1>13. ASSUME NEW t \in Task, BroadcastState(t) PROVE TypeOK'
    <2>1. tasks' = [tasks EXCEPT ![t] = [tasks[t] EXCEPT !.pc = "drive"]]
      BY <1>13 DEF BroadcastState
    <2>2. [tasks[t] EXCEPT !.pc = "drive"] \in TaskState
      BY <1>2, <1>13 DEF BroadcastState, TaskState, InMemory, Finishing
    <2>. QED BY <1>2, <1>13, <2>1, <2>2, TaskSet DEF BroadcastState, TypeOK
  <1>14. ASSUME NEW t \in Task, PlayBotRound(t) PROVE TypeOK'
    <2>1. room' \in Document
      BY <1>2, <1>14, WithBotsPlayedTyped DEF PlayBotRound
    <2>2. [tasks[t] EXCEPT !.pc = "driveClose"] \in TaskState
      BY <1>2, <1>14 DEF PlayBotRound, TaskState, InMemory, Finishing
    <2>3. AfterDrive(tasks[t]) \in TaskState
      BY <1>2, AfterDriveTyped
    <2>4. tasks' \in [Task -> TaskState]
      BY <1>2, <1>14, <2>2, <2>3, TaskSet DEF PlayBotRound
    <2>. QED BY <1>2, <1>14, <2>1, <2>4 DEF PlayBotRound, TypeOK
  <1>15. ASSUME NEW t \in Task, TryCloseWeek(t) PROVE TypeOK'
    <2>1. room' \in Document
      BY <1>2, <1>15, WithWeekClosedTyped DEF TryCloseWeek
    <2>2. AfterClose(tasks[t], room') \in TaskState
      <3>1. tasks[t].thenClose \in BOOLEAN
        BY <1>2, AfterDriveTyped
      <3>. QED BY <1>3, <2>1, <3>1 DEF AfterClose, InMemory, Finishing
    <2>3. AfterDrive(tasks[t]) \in TaskState
      BY <1>2, AfterDriveTyped
    <2>4. tasks' \in [Task -> TaskState]
      BY <1>2, <1>15, <2>2, <2>3, TaskSet DEF TryCloseWeek
    <2>5. counts' \in [Week -> [Role -> 0..MaxSubmissions]]
      BY <1>2, <1>15 DEF TryCloseWeek, Forget
    <2>. QED BY <1>2, <1>15, <2>1, <2>4, <2>5 DEF TryCloseWeek, TypeOK
  <1>16. ASSUME NEW t \in Task, PersistGame(t) PROVE TypeOK'
    <2>1. tasks[t].thenClose \in BOOLEAN /\ tasks[t].copy \in Document
      BY <1>2, <1>16 DEF PersistGame, TaskState, InMemory, Finishing
    <2>2. \A ok \in BOOLEAN :
             Carrying("save", tasks[t].thenClose, [tasks[t].copy EXCEPT !.persisted = ok])
                 \in TaskState
      BY <1>3, <2>1, MarkedTyped DEF Finishing
    <2>3. tasks' \in [Task -> TaskState]
      BY <1>2, <1>16, <2>2, TaskSet DEF PersistGame
    <2>. QED BY <1>2, <1>16, <2>3 DEF PersistGame, TypeOK
  <1>17. ASSUME NEW t \in Task, SaveFinished(t) PROVE TypeOK'
    <2>1. tasks[t].copy \in Document
      BY <1>2, <1>17 DEF SaveFinished, TaskState, InMemory, Finishing
    <2>2. AfterDrive(tasks[t]) \in TaskState
      BY <1>2, AfterDriveTyped
    <2>. QED BY <1>2, <1>17, <2>1, <2>2, TaskSet DEF SaveFinished, TypeOK
  <1>18. CASE Crash
    <2>1. counts' \in [Week -> [Role -> 0..MaxSubmissions]]
      BY <1>2, <1>18 DEF Crash, NoCounts
    <2>2. crashes' \in 0..MaxCrashes
      BY <1>2, <1>18 DEF Crash
    <2>. QED BY <1>2, <1>3, <1>18, <2>1, <2>2 DEF Crash, TypeOK
  <1>19. CASE UNCHANGED vars
    BY <1>2, <1>19 DEF vars, TypeOK
  <1>. QED
    BY <1>4, <1>5, <1>6, <1>7, <1>8, <1>9, <1>10, <1>11, <1>12, <1>13, <1>14, <1>15,
       <1>16, <1>17, <1>18, <1>19 DEF Next

\* Every document and every task stays what its type says, and no role submits more
\* often than MAX_RESUBMISSIONS_PER_ROLE_PER_WEEK allows.
THEOREM TypeCorrect == Spec => []TypeOK
  BY TypeInit, TypeStep, PTL DEF Spec
-------------------------------------------------------------------------------
(* Coherent documents.  finish_game saves the copy it carries over whatever is *)
(* stored, so the invariant also says what a copy under way is: coherent, of a *)
(* game that is over, and with the same weeks and orders as the stored one.    *)

SameGame(doc, other) ==
    /\ doc.phase = other.phase
    /\ doc.week = other.week
    /\ doc.pending = other.pending
    /\ doc.history = other.history

Carried(t) == tasks[t].pc \in Finishing

CopiesInv ==
    /\ Coherent(room)
    /\ \A t \in Task : Carried(t) =>
           /\ Coherent(tasks[t].copy)
           /\ SameGame(tasks[t].copy, room)
           /\ room.phase = "FINISHED"

LEMMA WithOrdersCoherent ==
    ASSUME NEW doc \in Document, NEW roles \in SUBSET Role, NEW who, Coherent(doc)
    PROVE  Coherent(WithOrders(doc, roles, who))
  BY DEF Document, Coherent, WithOrders

LEMMA WithWeekClosedCoherent ==
    ASSUME NEW doc \in Document, Coherent(doc), Playing(doc)
    PROVE  Coherent(WithWeekClosed(doc))
  <1>1. /\ doc.week \in Nat /\ DurationWeeks \in Nat
        /\ doc.history \in Seq([Role -> OrderRecord])
        /\ Len(doc.history) = doc.week - 1 /\ doc.phase = "DECISION"
    BY BoundsAssumption DEF Document, Coherent, Playing, Week
  <1>2. Len(Append(doc.history, [r \in Role |-> Record(doc, r)])) = Len(doc.history) + 1
    BY <1>1
  <1>. QED BY <1>1, <1>2 DEF Document, Coherent, WithWeekClosed, Playing

LEMMA WithBotSeatedCoherent ==
    ASSUME NEW doc \in Document, NEW r \in Role, Coherent(doc)
    PROVE  Coherent(WithBotSeated(doc, r))
  <1>1. doc.seatBot \in [Role -> BOOLEAN] /\ doc.seatBot = doc.agentBot
    BY DEF Document, Coherent
  <1>2. doc.bots \cup {r} = {q \in Role : [doc.seatBot EXCEPT ![r] = TRUE][q]}
    BY <1>1 DEF Coherent
  <1>. QED BY <1>1, <1>2 DEF Document, Coherent, WithBotSeated

LEMMA ReclaimedCoherent ==
    ASSUME NEW doc \in Document, NEW r \in Role, Coherent(doc)
    PROVE  Coherent([doc EXCEPT !.seatBot[r] = FALSE, !.agentBot[r] = FALSE,
                                !.bots = @ \ {r}, !.seen[r] = <<>>])
  <1>1. doc.seatBot \in [Role -> BOOLEAN] /\ doc.seatBot = doc.agentBot
    BY DEF Document, Coherent
  <1>2. doc.bots \ {r} = {q \in Role : [doc.seatBot EXCEPT ![r] = FALSE][q]}
    BY <1>1 DEF Coherent
  <1>. QED BY <1>1, <1>2 DEF Document, Coherent

LEMMA WithBotsPlayedCoherent ==
    ASSUME NEW doc \in Document, Coherent(doc)
    PROVE  Coherent(WithBotsPlayed(doc))
  <1>1. Due(doc) \in SUBSET Role
    BY DEF Due
  <1>2. Due(doc) \subseteq doc.bots
    BY DEF Due, Coherent
  <1>3. /\ Coherent(WithOrders(doc, Due(doc), "bot"))
        /\ WithOrders(doc, Due(doc), "bot") \in Document
    BY <1>1, WithOrdersCoherent, WithOrdersTyped
  <1>5. WithOrders(doc, Due(doc), "bot").bots = doc.bots
    BY DEF WithOrders, Document
  <1>4. doc.bots \cup Due(doc) = doc.bots
    BY <1>2
  <1>. QED BY <1>3, <1>4, <1>5 DEF Document, Coherent, WithBotsPlayed

\* A step keeps the invariant when the room it leaves is coherent, an ended game is
\* untouched, and the copies under way are those there were.
LEMMA CopiesFrame ==
    ASSUME CopiesInv, Coherent(room)',
           room.phase = "FINISHED" => SameGame(room', room),
           \A t \in Task : Carried(t)' => tasks'[t] = tasks[t]
    PROVE  CopiesInv'
  BY DEF CopiesInv, SameGame, Carried

\* Giving one task a continuation that carries no copy adds no copy.
LEMMA NoNewCopy ==
    ASSUME NEW t \in Task, NEW next, tasks \in [Task -> TaskState],
           tasks' = [tasks EXCEPT ![t] = next], next.pc \notin Finishing
    PROVE  \A u \in Task : Carried(u)' => tasks'[u] = tasks[u]
  BY DEF Carried

LEMMA CarriesNothing ==
    ASSUME NEW b
    PROVE  /\ Idle.pc \notin Finishing
           /\ \A pc \in InMemory : At(pc, b).pc \notin Finishing
           /\ \A task : AfterDrive(task).pc \notin Finishing
  <1>1. \A pc \in InMemory : At(pc, b).pc \notin Finishing /\ At(pc, FALSE).pc \notin Finishing
    BY DEF At, InMemory, Finishing
  <1>2. Idle.pc \notin Finishing
    BY DEF Idle, Finishing
  <1>3. "close" \in InMemory
    BY DEF InMemory
  <1>. QED BY <1>1, <1>2, <1>3 DEF AfterDrive
LEMMA CopiesInit == Init => CopiesInv
  <1>1. SUFFICES ASSUME Init PROVE CopiesInv
    OBVIOUS
  <1>2. Coherent(room)
    <2>1. /\ room.seatBot = [r \in Role |-> r \notin Owned] /\ room.agentBot = room.seatBot
          /\ room.bots = Role \ Owned /\ room.history = <<>> /\ room.week = 1
          /\ room.state = "RUNNING" /\ room.phase = "DECISION"
      BY <1>1 DEF Init
    <2>2. \A r \in Role : room.seatBot[r] <=> r \notin Owned
      BY <2>1, Zenon
    <2>3. room.bots = {r \in Role : room.seatBot[r]}
      BY <2>1, <2>2
    <2>4. Len(room.history) = room.week - 1
      BY <2>1
    <2>. QED BY <2>1, <2>3, <2>4 DEF Coherent
  <1>3. \A t \in Task : ~Carried(t)
    BY <1>1 DEF Init, Carried, At, Idle, Finishing
  <1>. QED BY <1>2, <1>3 DEF CopiesInv

LEMMA CopiesStep == TypeOK /\ CopiesInv /\ [Next]_vars => CopiesInv'
  <1>1. SUFFICES ASSUME TypeOK, CopiesInv, [Next]_vars PROVE CopiesInv'
    OBVIOUS
  <1>. USE <1>1
  <1>2. room \in Document /\ tasks \in [Task -> TaskState] /\ Coherent(room)
    BY DEF TypeOK, CopiesInv
  <1>3. /\ \A pc \in {"broadcast", "drive", "driveClose", "close", "force"}, b \in BOOLEAN :
               At(pc, b).pc \notin Finishing
        /\ \A task : AfterDrive(task).pc \notin Finishing
        /\ Idle.pc \notin Finishing
    BY CarriesNothing DEF InMemory
  <1>4. ASSUME NEW r \in Role, NEW t \in Task, Submit(r, t) PROVE CopiesInv'
    <2>1. Coherent(room)' /\ room.phase # "FINISHED"
      BY <1>2, <1>4, WithOrdersCoherent DEF Submit, Playing
    <2>2. \A u \in Task : Carried(u)' => tasks'[u] = tasks[u]
      BY <1>2, <1>3, <1>4, NoNewCopy DEF Submit
    <2>. QED BY <2>1, <2>2, CopiesFrame
  <1>5. CASE PauseGame
    <2>1. Coherent(room)' /\ SameGame(room', room)
      BY <1>2, <1>5 DEF PauseGame, Document, Coherent, SameGame
    <2>. QED BY <1>5, <2>1, CopiesFrame DEF PauseGame
  <1>6. ASSUME NEW t \in Task, ResumeGame(t) PROVE CopiesInv'
    <2>1. Coherent(room)' /\ SameGame(room', room)
      BY <1>2, <1>6 DEF ResumeGame, Document, Coherent, SameGame
    <2>2. \A u \in Task : Carried(u)' => tasks'[u] = tasks[u]
      BY <1>2, <1>3, <1>6, NoNewCopy DEF ResumeGame, ResumePlay
    <2>. QED BY <2>1, <2>2, CopiesFrame
  <1>7. ASSUME NEW t \in Task, ForceCloseWeek(t) PROVE CopiesInv'
    <2>1. Coherent(room)' /\ SameGame(room', room)
      BY <1>2, <1>7 DEF ForceCloseWeek, SameGame
    <2>2. \A u \in Task : Carried(u)' => tasks'[u] = tasks[u]
      BY <1>2, <1>3, <1>7, NoNewCopy DEF ForceCloseWeek
    <2>. QED BY <2>1, <2>2, CopiesFrame
  <1>8. ASSUME NEW r \in Role, NEW t \in Task, SubstituteBot(r, t) PROVE CopiesInv'
    <2>1. Coherent(room)' /\ SameGame(room', room)
      BY <1>2, <1>8, WithBotSeatedCoherent DEF SubstituteBot, WithBotSeated, Document, SameGame
    <2>2. \A u \in Task : Carried(u)' => tasks'[u] = tasks[u]
      BY <1>2, <1>3, <1>8, NoNewCopy DEF SubstituteBot
    <2>. QED BY <2>1, <2>2, CopiesFrame
  <1>9. ASSUME NEW r \in Role, ReclaimSeat(r) PROVE CopiesInv'
    <2>1. Coherent(room)' /\ SameGame(room', room)
      BY <1>2, <1>9, ReclaimedCoherent DEF ReclaimSeat, Document, SameGame
    <2>. QED BY <1>9, <2>1, CopiesFrame DEF ReclaimSeat
  <1>10. ASSUME NEW t \in Task, EndGameEarly(t) PROVE CopiesInv'
    <2>1. Coherent(room)' /\ room'.phase = "FINISHED" /\ room.phase # "FINISHED"
      BY <1>2, <1>10 DEF EndGameEarly, Document, Coherent
    <2>2. \A u \in Task : Carried(u)' => u = t /\ tasks'[u].copy = room'
      BY <1>2, <1>10, <2>1 DEF EndGameEarly, Carrying, Carried, CopiesInv
    <2>. QED BY <2>1, <2>2 DEF CopiesInv, SameGame
  <1>11. ASSUME NEW r \in Role, Disconnect(r) PROVE CopiesInv'
    <2>1. Coherent(room)' /\ SameGame(room', room)
      BY <1>2, <1>11 DEF Disconnect, Document, Coherent, SameGame
    <2>. QED BY <1>11, <2>1, CopiesFrame DEF Disconnect
  <1>12. ASSUME NEW r \in Role, Rejoin(r) PROVE CopiesInv'
    <2>1. Coherent(room)' /\ SameGame(room', room)
      BY <1>2, <1>12 DEF Rejoin, Document, Coherent, SameGame
    <2>. QED BY <1>12, <2>1, CopiesFrame DEF Rejoin
  <1>13. ASSUME NEW t \in Task, BroadcastState(t) PROVE CopiesInv'
    <2>1. Coherent(room)' /\ SameGame(room', room)
      BY <1>2, <1>13 DEF BroadcastState, SameGame
    <2>2. [tasks[t] EXCEPT !.pc = "drive"].pc \notin Finishing
      BY <1>2, <1>13 DEF BroadcastState, TaskState, InMemory, Finishing
    <2>3. \A u \in Task : Carried(u)' => tasks'[u] = tasks[u]
      BY <1>2, <1>13, <2>2, NoNewCopy DEF BroadcastState
    <2>. QED BY <2>1, <2>3, CopiesFrame
  <1>14. ASSUME NEW t \in Task, PlayBotRound(t) PROVE CopiesInv'
    <2>1. Coherent(room)' /\ (room.phase = "FINISHED" => SameGame(room', room))
      BY <1>2, <1>14, WithBotsPlayedCoherent DEF PlayBotRound, SameGame, Playing
    <2>2. [tasks[t] EXCEPT !.pc = "driveClose"].pc \notin Finishing
      BY <1>2, <1>14 DEF PlayBotRound, TaskState, InMemory, Finishing
    <2>3. \A u \in Task : Carried(u)' => tasks'[u] = tasks[u]
      BY <1>2, <1>3, <1>14, <2>2, NoNewCopy DEF PlayBotRound
    <2>. QED BY <2>1, <2>3, CopiesFrame
  <1>15. ASSUME NEW t \in Task, TryCloseWeek(t) PROVE CopiesInv'
    <2>1. CASE CanClose(room, tasks[t].pc = "force")
      <3>1. Coherent(room)' /\ room.phase # "FINISHED"
        BY <1>2, <1>15, <2>1, WithWeekClosedCoherent DEF TryCloseWeek, CanClose, Playing
      <3>2. \A u \in Task : Carried(u)' =>
               u = t /\ tasks'[u].copy = room' /\ room'.phase = "FINISHED"
        <4>1. tasks' = [tasks EXCEPT ![t] = AfterClose(tasks[t], room')]
          BY <1>15, <2>1 DEF TryCloseWeek
        <4>2. \A u \in Task : Carried(u)' => u = t
          BY <1>2, <3>1, <4>1 DEF Carried, CopiesInv
        <4>3. tasks'[t] = AfterClose(tasks[t], room')
          BY <1>2, <4>1
        <4>4. AfterClose(tasks[t], room').pc \in Finishing =>
                 room'.phase = "FINISHED" /\ AfterClose(tasks[t], room').copy = room'
          BY DEF AfterClose, At, Carrying, Finishing
        <4>. QED BY <4>2, <4>3, <4>4 DEF Carried
      <3>. QED BY <3>1, <3>2 DEF CopiesInv, SameGame
    <2>2. CASE ~CanClose(room, tasks[t].pc = "force")
      <3>1. Coherent(room)' /\ SameGame(room', room)
        BY <1>2, <1>15, <2>2 DEF TryCloseWeek, SameGame
      <3>2. \A u \in Task : Carried(u)' => tasks'[u] = tasks[u]
        BY <1>2, <1>3, <1>15, <2>2, NoNewCopy DEF TryCloseWeek
      <3>. QED BY <3>1, <3>2, CopiesFrame
    <2>. QED BY <2>1, <2>2
  <1>16. ASSUME NEW t \in Task, PersistGame(t) PROVE CopiesInv'
    <2>1. /\ Coherent(tasks[t].copy) /\ SameGame(tasks[t].copy, room)
          /\ room.phase = "FINISHED" /\ tasks[t].copy \in Document
      BY <1>2, <1>16 DEF PersistGame, CopiesInv, Carried, Finishing, TaskState, InMemory
    <2>2. PICK ok \in BOOLEAN :
             tasks' = [tasks EXCEPT ![t] =
                         Carrying("save", tasks[t].thenClose,
                                  [tasks[t].copy EXCEPT !.persisted = ok])]
      BY <1>16 DEF PersistGame
    <2>3. tasks'[t].copy = [tasks[t].copy EXCEPT !.persisted = ok]
      BY <1>2, <2>2 DEF Carrying
    <2>4. Coherent(tasks'[t].copy) /\ SameGame(tasks'[t].copy, room)
      BY <2>1, <2>3 DEF Coherent, SameGame, Document
    <2>5. \A u \in Task : u # t => tasks'[u] = tasks[u]
      BY <1>2, <2>2
    <2>6. room' = room
      BY <1>16 DEF PersistGame
    <2>. QED BY <2>1, <2>4, <2>5, <2>6 DEF CopiesInv, Carried
  <1>17. ASSUME NEW t \in Task, SaveFinished(t) PROVE CopiesInv'
    <2>1. Coherent(room)' /\ SameGame(room', room)
      BY <1>17 DEF SaveFinished, CopiesInv, Carried, Finishing
    <2>2. \A u \in Task : Carried(u)' => tasks'[u] = tasks[u]
      BY <1>2, <1>3, <1>17, NoNewCopy DEF SaveFinished
    <2>. QED BY <2>1, <2>2, CopiesFrame
  <1>18. CASE Crash
    <2>1. \A t \in Task : ~Carried(t)'
      BY <1>3, <1>18 DEF Crash, Carried
    <2>. QED BY <1>2, <1>18, <2>1 DEF Crash, CopiesInv
  <1>19. CASE UNCHANGED vars
    BY <1>19 DEF vars, CopiesInv, Carried
  <1>. QED
    BY <1>4, <1>5, <1>6, <1>7, <1>8, <1>9, <1>10, <1>11, <1>12, <1>13, <1>14, <1>15,
       <1>16, <1>17, <1>18, <1>19 DEF Next

LEMMA CopiesSafe == Spec => []CopiesInv
  <1>1. Spec => []TypeOK
    BY TypeCorrect
  <1>. QED BY <1>1, CopiesInit, CopiesStep, PTL DEF Spec

\* The room and its engine agree about every seat and about the end, whatever calls
\* interleave, in the stored document and in the one finish_game is about to save.
THEOREM FlagsAlwaysAgree == Spec => []FlagsAgree
  <1>1. CopiesInv => FlagsAgree
    BY DEF CopiesInv, Carried, FlagsAgree, Documents
  <1>. QED BY <1>1, CopiesSafe, PTL
-------------------------------------------------------------------------------
(* The game promised by WeekMachine.                                           *)

Missed(history) == [w \in 1..Len(history) |-> {r \in Role : history[w][r].was_forced}]
Taken(doc) == {r \in Role : doc.pending[r] # "none"}

LEMMA MissedAppend ==
    ASSUME NEW history \in Seq([Role -> OrderRecord]), NEW week \in [Role -> OrderRecord]
    PROVE  Missed(Append(history, week))
               = Append(Missed(history), {r \in Role : week[r].was_forced})
  <1> DEFINE closed == {r \in Role : week[r].was_forced}
  <1>1. Len(history) \in Nat /\ Len(Append(history, week)) = Len(history) + 1
    OBVIOUS
  <1>2. Missed(history) \in Seq(SUBSET Role) /\ Len(Missed(history)) = Len(history)
    BY <1>1 DEF Missed
  <1>3. ASSUME NEW w \in 1..(Len(history) + 1)
        PROVE  Missed(Append(history, week))[w] = Append(Missed(history), closed)[w]
    <2>1. CASE w = Len(history) + 1
      <3>1. Append(history, week)[w] = week /\ Append(Missed(history), closed)[w] = closed
        BY <1>1, <1>2, <2>1
      <3>. QED BY <1>1, <3>1 DEF Missed
    <2>2. CASE w # Len(history) + 1
      <3>1. w \in 1..Len(history)
        BY <1>1, <2>2
      <3>2. Append(history, week)[w] = history[w]
        BY <1>1, <3>1
      <3>3. Append(Missed(history), closed)[w] = Missed(history)[w]
        BY <1>1, <1>2, <3>1
      <3>. QED BY <1>1, <3>1, <3>2, <3>3 DEF Missed
    <2>. QED BY <2>1, <2>2
  <1>4. /\ Missed(Append(history, week)) = [w \in 1..(Len(history) + 1) |->
                                               Missed(Append(history, week))[w]]
        /\ Append(Missed(history), closed) = [w \in 1..(Len(history) + 1) |->
                                                Append(Missed(history), closed)[w]]
    BY <1>1, <1>2 DEF Missed
  <1>. QED BY <1>3, <1>4

\* What WeekMachine sees of a document.
LEMMA PromiseTuple ==
    Promise!vars = <<room.week, room.phase = "FINISHED", Taken(room), Missed(room.history)>>
  BY DEF Promise!vars, Taken, Missed

\* A step that leaves the game of the stored document alone is a stutter.
LEMMA SameGameStutters ==
    ASSUME SameGame(room', room)
    PROVE  UNCHANGED Promise!vars
  BY DEF SameGame, Promise!vars

\* Orders placed while the game is played are a Take.
LEMMA OrdersTake ==
    ASSUME room \in Document, NEW roles \in SUBSET Role, NEW who \in {"human", "bot"},
           Playing(room), room'.pending = WithOrders(room, roles, who).pending,
           room'.week = room.week, room'.phase = room.phase, room'.history = room.history
    PROVE  Promise!Take(roles)
  <1>1. /\ room.phase # "FINISHED" /\ room'.phase # "FINISHED"
        /\ room'.pending = [r \in Role |-> IF r \in roles THEN who ELSE room.pending[r]]
    BY DEF Playing, WithOrders, Document
  <1>2. Taken(room)' = Taken(room) \cup roles
    BY <1>1 DEF Taken
  <1>3. Missed(room.history)' = Missed(room.history)
    BY DEF Missed
  <1>. QED BY <1>1, <1>2, <1>3 DEF Promise!Take, Taken, Missed

\* A closed week is a Close.
LEMMA ClosedCloses ==
    ASSUME room \in Document, Playing(room), room' = WithWeekClosed(room)
    PROVE  Promise!Close
  <1> DEFINE records == [r \in Role |-> Record(room, r)]
             last == room.week >= DurationWeeks
  <1>1. /\ room'.history = Append(room.history, records)
        /\ room'.pending = [r \in Role |-> "none"]
        /\ room'.week = IF last THEN room.week ELSE room.week + 1
        /\ room'.phase = IF last THEN "FINISHED" ELSE room.phase
        /\ room.phase = "DECISION"
    BY DEF WithWeekClosed, Document, Playing
  <1>2. Taken(room)' = {}
    BY <1>1 DEF Taken
  <1>3. records \in [Role -> OrderRecord] /\ room.history \in Seq([Role -> OrderRecord])
    BY RecordsTyped DEF Document
  <1>4. {r \in Role : records[r].was_forced} = Role \ Taken(room)
    BY DEF Record, Taken
  <1>5. Missed(room.history)' = Append(Missed(room.history), Role \ Taken(room))
    BY <1>1, <1>3, <1>4, MissedAppend, ZenonT(30)
  <1>6. (room.phase = "FINISHED")' = last /\ room.phase # "FINISHED"
    BY <1>1
  <1>. QED BY <1>1, <1>2, <1>5, <1>6 DEF Promise!Close, Taken, Missed

\* Every step of the play loop is a step of the promised game, or none of its affair.
LEMMA StepPromised ==
    TypeOK /\ CopiesInv /\ [Next]_vars => [Promise!Next]_(Promise!vars)
  <1>1. SUFFICES ASSUME TypeOK, CopiesInv, [Next]_vars
                 PROVE  Promise!Next \/ UNCHANGED Promise!vars
    OBVIOUS
  <1>. USE <1>1
  <1>2. room \in Document
    BY DEF TypeOK
  <1>3. ASSUME NEW r \in Role, NEW t \in Task, Submit(r, t) PROVE Promise!Next
    <2>1. room' = WithOrders(room, {r}, "human") /\ Playing(room)
      BY <1>3 DEF Submit
    <2>2. /\ room'.week = room.week /\ room'.phase = room.phase
          /\ room'.history = room.history
          /\ room'.pending = WithOrders(room, {r}, "human").pending
      BY <1>2, <2>1 DEF WithOrders, Document
    <2>3. Promise!Take({r})
      BY <1>2, <2>1, <2>2, OrdersTake
    <2>. QED BY <2>3 DEF Promise!Next
  <1>4. ASSUME NEW t \in Task, PlayBotRound(t) PROVE Promise!Next \/ SameGame(room', room)
    <2>1. CASE room' = WithBotsPlayed(room) /\ Playing(room)
      <3>1. /\ room'.week = room.week /\ room'.phase = room.phase
            /\ room'.history = room.history
            /\ room'.pending = WithOrders(room, Due(room), "bot").pending
        BY <1>2, <2>1 DEF WithBotsPlayed, WithOrders, Document
      <3>2. PICK roles \in SUBSET Role : roles = Due(room)
        BY DEF Due
      <3>3. Promise!Take(roles)
        BY <1>2, <2>1, <3>1, <3>2, OrdersTake
      <3>. QED BY <3>3 DEF Promise!Next
    <2>2. CASE room' = room
      BY <2>2 DEF SameGame
    <2>. QED BY <1>4, <2>1, <2>2 DEF PlayBotRound
  <1>5. ASSUME NEW t \in Task, TryCloseWeek(t) PROVE Promise!Next \/ SameGame(room', room)
    <2>1. CASE room' = WithWeekClosed(room) /\ Playing(room)
      BY <1>2, <2>1, ClosedCloses DEF Promise!Next
    <2>2. CASE room' = room
      BY <2>2 DEF SameGame
    <2>. QED BY <1>5, <2>1, <2>2 DEF TryCloseWeek, CanClose
  <1>6. ASSUME NEW t \in Task, EndGameEarly(t) PROVE Promise!Next
    <2>1. /\ room'.week = room.week /\ room'.pending = room.pending
          /\ room'.history = room.history
          /\ room'.phase = "FINISHED" /\ room.phase # "FINISHED"
      BY <1>2, <1>6 DEF EndGameEarly, Document
    <2>. QED BY <2>1 DEF Promise!Next, Promise!Abandon
  <1>7. ASSUME NEW t \in Task, SaveFinished(t) PROVE SameGame(room', room)
    BY <1>7 DEF SaveFinished, CopiesInv, Carried, Finishing
  <1>8. ASSUME \/ PauseGame
               \/ \E t \in Task : ResumeGame(t)
               \/ \E r \in Role : ReclaimSeat(r)
               \/ \E r \in Role, t \in Task : SubstituteBot(r, t)
               \/ \E r \in Role : Disconnect(r)
               \/ \E r \in Role : Rejoin(r)
        PROVE  SameGame(room', room)
    BY <1>2, <1>8 DEF PauseGame, ResumeGame, ReclaimSeat, SubstituteBot, WithBotSeated,
       Disconnect, Rejoin, SameGame, Document
  <1>9. ASSUME \/ \E t \in Task : ForceCloseWeek(t)
               \/ \E t \in Task : BroadcastState(t)
               \/ \E t \in Task : PersistGame(t)
               \/ Crash
               \/ UNCHANGED vars
        PROVE  SameGame(room', room)
    BY <1>9 DEF ForceCloseWeek, BroadcastState, PersistGame, Crash, vars, SameGame
  <1>. QED
    BY <1>3, <1>4, <1>5, <1>6, <1>7, <1>8, <1>9, SameGameStutters DEF Next

LEMMA InitPromised == Init => Promise!Init
  <1>1. SUFFICES ASSUME Init PROVE Promise!Init
    OBVIOUS
  <1>2. /\ room.week = 1 /\ room.phase = "DECISION" /\ room.history = <<>>
        /\ room.pending = [r \in Role |-> "none"]
    BY <1>1 DEF Init
  <1>3. Taken(room) = {}
    BY <1>2 DEF Taken
  <1>4. Missed(room.history) = <<>>
    BY <1>2 DEF Missed
  <1>. QED BY <1>2, <1>3, <1>4 DEF Promise!Init, Taken, Missed

\* The play loop implements the promised game: weeks close once and in order with the
\* orders that were in, and an ended game stays ended, through stale saves and crashes.
THEOREM PlayLoopImplementsWeekMachine == Spec => ImplementsWeekMachine
  BY InitPromised, StepPromised, TypeCorrect, CopiesSafe, PTL
     DEF Spec, ImplementsWeekMachine, Promise!Spec

\* A room that does not run plays nothing, and one that is over stays over.
THEOREM FrozenWhenNotRunning == Spec => FrozenUnlessRunning
  <1>1. ASSUME TypeOK, CopiesInv, [Next]_vars, room.state # "RUNNING"
        PROVE  /\ room'.week = room.week
               /\ room'.pending = room.pending
               /\ room'.history = room.history
               /\ room.state = "FINISHED" => room'.state = "FINISHED"
    <2>. USE <1>1
    <2>1. room \in Document /\ Coherent(room) /\ ~Playing(room)
      BY DEF TypeOK, CopiesInv, Playing
    <2>2. ASSUME NEW t \in Task, EndGameEarly(t)
          PROVE  /\ room'.week = room.week /\ room'.pending = room.pending
                 /\ room'.history = room.history /\ room'.state = "FINISHED"
      BY <2>1, <2>2 DEF EndGameEarly, Document
    <2>3. ASSUME NEW t \in Task, SaveFinished(t)
          PROVE  SameGame(room', room) /\ (room.state = "FINISHED" => room'.state = "FINISHED")
      BY <2>3 DEF SaveFinished, CopiesInv, Carried, Finishing, Coherent, SameGame
    <2>4. ASSUME \/ \E t \in Task : ResumeGame(t)
                 \/ \E r \in Role : ReclaimSeat(r)
                 \/ \E r \in Role, t \in Task : SubstituteBot(r, t)
                 \/ \E r \in Role : Disconnect(r)
                 \/ \E r \in Role : Rejoin(r)
          PROVE  SameGame(room', room) /\ (room.state = "FINISHED" => room'.state = "FINISHED")
      BY <2>1, <2>4 DEF ResumeGame, ReclaimSeat, SubstituteBot, WithBotSeated,
         Disconnect, Rejoin, SameGame, Document
    <2>5. ASSUME \/ \E t \in Task : ForceCloseWeek(t)
                 \/ \E t \in Task : BroadcastState(t)
                 \/ \E t \in Task : PlayBotRound(t)
                 \/ \E t \in Task : TryCloseWeek(t)
                 \/ \E t \in Task : PersistGame(t)
                 \/ Crash
                 \/ UNCHANGED vars
          PROVE  room' = room
      BY <2>1, <2>5 DEF ForceCloseWeek, BroadcastState, PlayBotRound, TryCloseWeek, CanClose,
         PersistGame, Crash, vars
    <2>. QED
      BY <2>1, <2>2, <2>3, <2>4, <2>5 DEF Next, Submit, PauseGame, SameGame
  <1>2. TypeOK /\ CopiesInv /\ [Next]_vars =>
           [ room.state # "RUNNING" =>
                /\ room'.week = room.week
                /\ room'.pending = room.pending
                /\ room'.history = room.history
                /\ room.state = "FINISHED" => room'.state = "FINISHED"
           ]_vars
    BY <1>1
  <1>. QED BY <1>2, TypeCorrect, CopiesSafe, PTL DEF Spec, FrozenUnlessRunning
-------------------------------------------------------------------------------
(* Attribution.                                                                *)

AttributionInv ==
    /\ Attributed(room)
    /\ \A t \in Task : Carried(t) => Attributed(tasks[t].copy)

SameOrders(doc, other) ==
    doc.pending = other.pending /\ doc.byBot = other.byBot /\ doc.history = other.history

LEMMA SameOrdersAttributed ==
    ASSUME NEW doc, NEW other, SameOrders(doc, other), Attributed(other)
    PROVE  Attributed(doc)
  BY DEF SameOrders, Attributed

\* An order is attributed to whoever the engine says plays the seat, so it must be
\* that one who placed it.
LEMMA WithOrdersAttributed ==
    ASSUME NEW doc \in Document, NEW roles \in SUBSET Role, NEW who \in {"human", "bot"},
           Attributed(doc), \A r \in roles : doc.agentBot[r] <=> who = "bot"
    PROVE  Attributed(WithOrders(doc, roles, who))
  <1>1. /\ WithOrders(doc, roles, who).pending =
               [r \in Role |-> IF r \in roles THEN who ELSE doc.pending[r]]
        /\ WithOrders(doc, roles, who).byBot =
               (doc.byBot \ roles) \cup {r \in roles : doc.agentBot[r]}
        /\ WithOrders(doc, roles, who).history = doc.history
    BY DEF WithOrders, Document
  <1>2. ASSUME NEW r \in Role
        PROVE  WithOrders(doc, roles, who).pending[r] = "bot"
                   <=> r \in WithOrders(doc, roles, who).byBot
    <2>1. CASE r \in roles
      <3>1. r \in WithOrders(doc, roles, who).byBot <=> doc.agentBot[r]
        BY <1>1, <2>1
      <3>. QED BY <1>1, <2>1, <3>1
    <2>2. CASE r \notin roles
      BY <1>1, <2>2 DEF Attributed
    <2>. QED BY <2>1, <2>2
  <1>. QED BY <1>1, <1>2 DEF Attributed

LEMMA WithWeekClosedAttributed ==
    ASSUME NEW doc \in Document, Attributed(doc)
    PROVE  Attributed(WithWeekClosed(doc))
  <1> DEFINE records == [r \in Role |-> Record(doc, r)]
  <1>1. /\ WithWeekClosed(doc).pending = [r \in Role |-> "none"]
        /\ WithWeekClosed(doc).byBot = {}
        /\ WithWeekClosed(doc).history = Append(doc.history, records)
    BY DEF WithWeekClosed, Document
  <1>2. doc.history \in Seq([Role -> OrderRecord]) /\ Len(doc.history) \in Nat
    BY DEF Document
  <1>3. ASSUME NEW w \in 1..Len(Append(doc.history, records)), NEW r \in Role,
               ~Append(doc.history, records)[w][r].was_forced
        PROVE  Append(doc.history, records)[w][r].was_bot
                   <=> Append(doc.history, records)[w][r].placed = "bot"
    <2>1. CASE w \in 1..Len(doc.history)
      <3>1. Append(doc.history, records)[w] = doc.history[w]
        BY <1>2, <2>1
      <3>. QED BY <1>3, <2>1, <3>1 DEF Attributed
    <2>2. CASE w = Len(doc.history) + 1
      <3>1. Append(doc.history, records)[w][r] = Record(doc, r)
        BY <1>2, <2>2
      <3>2. doc.pending[r] # "none"
        <4>1. Record(doc, r).was_forced <=> doc.pending[r] = "none"
          BY Zenon DEF Record
        <4>. QED BY <1>3, <3>1, <4>1
      <3>3. Record(doc, r).was_bot <=> r \in doc.byBot
        BY <3>2, Zenon DEF Record
      <3>4. Record(doc, r).placed = doc.pending[r]
        BY DEF Record
      <3>. QED BY <3>1, <3>3, <3>4 DEF Attributed
    <2>. QED BY <1>2, <2>1, <2>2
  <1>. QED BY <1>1, <1>3 DEF Attributed

LEMMA AttributionStep ==
    TypeOK /\ CopiesInv /\ AttributionInv /\ [Next]_vars => AttributionInv'
  <1>1. SUFFICES ASSUME TypeOK, CopiesInv, AttributionInv, [Next]_vars
                 PROVE  AttributionInv'
    OBVIOUS
  <1>. USE <1>1
  <1>2. /\ room \in Document /\ tasks \in [Task -> TaskState] /\ Attributed(room)
        /\ room.seatBot = room.agentBot /\ room.agentBot \in [Role -> BOOLEAN]
    BY DEF TypeOK, CopiesInv, Coherent, AttributionInv, Document
  <1>3. /\ \A pc \in {"broadcast", "drive", "driveClose", "close", "force"}, b \in BOOLEAN :
               At(pc, b).pc \notin Finishing
        /\ \A task : AfterDrive(task).pc \notin Finishing
        /\ Idle.pc \notin Finishing
    BY CarriesNothing DEF InMemory
  <1>4. ASSUME Attributed(room)', \A t \in Task : Carried(t)' => tasks'[t] = tasks[t]
        PROVE  AttributionInv'
    BY <1>4 DEF AttributionInv, Carried
  <1>5. ASSUME NEW r \in Role, NEW t \in Task, Submit(r, t) PROVE AttributionInv'
    <2>1. \A q \in {r} : room.agentBot[q] <=> "human" = "bot"
      BY <1>2, <1>5 DEF Submit
    <2>2. Attributed(room)'
      BY <1>2, <1>5, <2>1, WithOrdersAttributed DEF Submit
    <2>3. \A u \in Task : Carried(u)' => tasks'[u] = tasks[u]
      BY <1>2, <1>3, <1>5, NoNewCopy DEF Submit
    <2>. QED BY <1>4, <2>2, <2>3
  <1>6. ASSUME NEW t \in Task, PlayBotRound(t) PROVE AttributionInv'
    <2>1. Attributed(room)'
      <3>1. \A q \in Due(room) : room.agentBot[q] <=> "bot" = "bot"
        BY <1>2 DEF Due
      <3>2. Due(room) \in SUBSET Role
        BY DEF Due
      <3>3. Attributed(WithOrders(room, Due(room), "bot"))
        BY <1>2, <3>1, <3>2, WithOrdersAttributed
      <3>4. SameOrders(WithBotsPlayed(room), WithOrders(room, Due(room), "bot"))
        BY <1>2 DEF SameOrders, WithBotsPlayed, WithOrders, Document
      <3>5. Attributed(WithBotsPlayed(room))
        BY <3>3, <3>4, SameOrdersAttributed
      <3>. QED BY <1>2, <1>6, <3>5 DEF PlayBotRound
    <2>2. [tasks[t] EXCEPT !.pc = "driveClose"].pc \notin Finishing
      BY <1>2, <1>6 DEF PlayBotRound, TaskState, InMemory, Finishing
    <2>3. \A u \in Task : Carried(u)' => tasks'[u] = tasks[u]
      BY <1>2, <1>3, <1>6, <2>2, NoNewCopy DEF PlayBotRound
    <2>. QED BY <1>4, <2>1, <2>3
  <1>7. ASSUME NEW t \in Task, TryCloseWeek(t) PROVE AttributionInv'
    <2>1. Attributed(room)'
      BY <1>2, <1>7, WithWeekClosedAttributed DEF TryCloseWeek
    <2>2. \A u \in Task : Carried(u)' => tasks'[u] = tasks[u] \/ tasks'[u].copy = room'
      <3>1. AfterClose(tasks[t], room').pc \in Finishing =>
               AfterClose(tasks[t], room').copy = room'
        BY DEF AfterClose, At, Carrying, Finishing
      <3>. QED BY <1>2, <1>3, <1>7, <3>1 DEF TryCloseWeek, Carried
    <2>. QED BY <2>1, <2>2 DEF AttributionInv, Carried
  <1>8. ASSUME NEW t \in Task, EndGameEarly(t) PROVE AttributionInv'
    <2>1. Attributed(room)'
      BY <1>2, <1>8, SameOrdersAttributed DEF EndGameEarly, SameOrders, Document
    <2>2. \A u \in Task : Carried(u)' => tasks'[u] = tasks[u] \/ tasks'[u].copy = room'
      BY <1>2, <1>8 DEF EndGameEarly, Carrying
    <2>. QED BY <2>1, <2>2 DEF AttributionInv, Carried
  <1>9. ASSUME NEW t \in Task, PersistGame(t) PROVE AttributionInv'
    <2>1. Attributed(tasks[t].copy) /\ tasks[t].copy \in Document
      BY <1>2, <1>9 DEF PersistGame, AttributionInv, Carried, Finishing, TaskState, InMemory
    <2>2. PICK ok \in BOOLEAN :
             tasks' = [tasks EXCEPT ![t] =
                         Carrying("save", tasks[t].thenClose,
                                  [tasks[t].copy EXCEPT !.persisted = ok])]
      BY <1>9 DEF PersistGame
    <2>3. tasks'[t].copy = [tasks[t].copy EXCEPT !.persisted = ok]
      BY <1>2, <2>2 DEF Carrying
    <2>4. Attributed(tasks'[t].copy)
      BY <2>1, <2>3 DEF Attributed, Document
    <2>5. (\A u \in Task : u # t => tasks'[u] = tasks[u]) /\ room' = room
      BY <1>2, <1>9, <2>2 DEF PersistGame
    <2>. QED BY <1>2, <2>4, <2>5 DEF AttributionInv, Carried
  <1>10. ASSUME NEW t \in Task, SaveFinished(t) PROVE AttributionInv'
    <2>1. Attributed(room)'
      BY <1>10 DEF SaveFinished, AttributionInv, Carried, Finishing
    <2>2. \A u \in Task : Carried(u)' => tasks'[u] = tasks[u]
      BY <1>2, <1>3, <1>10, NoNewCopy DEF SaveFinished
    <2>. QED BY <1>4, <2>1, <2>2
  <1>11. ASSUME \/ PauseGame
                \/ \E r \in Role : ReclaimSeat(r)
                \/ \E r \in Role : Disconnect(r)
                \/ \E r \in Role : Rejoin(r)
         PROVE  AttributionInv'
    <2>1. SameOrders(room', room) /\ tasks' = tasks
      BY <1>2, <1>11, ZenonT(30) DEF PauseGame, ReclaimSeat, Disconnect, Rejoin, SameOrders, Document
    <2>. QED BY <1>2, <1>4, <2>1, SameOrdersAttributed
  <1>12. ASSUME NEW t \in Task,
                ResumeGame(t) \/ ForceCloseWeek(t) \/ \E r \in Role : SubstituteBot(r, t)
         PROVE  AttributionInv'
    <2>1. SameOrders(room', room)
      BY <1>2, <1>12 DEF ResumeGame, ForceCloseWeek, SubstituteBot, WithBotSeated,
         SameOrders, Document
    <2>2. \A u \in Task : Carried(u)' => tasks'[u] = tasks[u]
      BY <1>2, <1>3, <1>12, NoNewCopy
         DEF ResumeGame, ResumePlay, ForceCloseWeek, SubstituteBot
    <2>. QED BY <1>2, <1>4, <2>1, <2>2, SameOrdersAttributed
  <1>13. ASSUME NEW t \in Task, BroadcastState(t) PROVE AttributionInv'
    <2>1. [tasks[t] EXCEPT !.pc = "drive"].pc \notin Finishing
      BY <1>2, <1>13 DEF BroadcastState, TaskState, InMemory, Finishing
    <2>2. (\A u \in Task : Carried(u)' => tasks'[u] = tasks[u]) /\ room' = room
      BY <1>2, <1>13, <2>1, NoNewCopy DEF BroadcastState
    <2>. QED BY <1>2, <1>4, <2>2
  <1>14. CASE Crash
    <2>1. (\A t \in Task : ~Carried(t)') /\ room' = room
      BY <1>3, <1>14 DEF Crash, Carried
    <2>. QED BY <1>2, <2>1 DEF AttributionInv
  <1>15. CASE UNCHANGED vars
    BY <1>15 DEF vars, AttributionInv, Carried
  <1>. QED
    BY <1>5, <1>6, <1>7, <1>8, <1>9, <1>10, <1>11, <1>12, <1>13, <1>14, <1>15 DEF Next

\* The records and the debrief name the right author of every order, however often a
\* seat changes hands inside a week.
THEOREM AttributionHolds == Spec => []Attribution
  <1>1. Init => AttributionInv
    BY DEF Init, AttributionInv, Attributed, Carried, At, Idle, Finishing
  <1>2. AttributionInv => Attribution
    BY DEF AttributionInv, Attribution
  <1>. QED BY <1>1, <1>2, AttributionStep, TypeCorrect, CopiesSafe, PTL DEF Spec

-------------------------------------------------------------------------------
(* The end of the game.  Only the section that ends it carries the document to *)
(* persistence; the copy is saved after, and marks no other game.              *)

FinishInv ==
    /\ persists \in {0, 1}
    /\ room.persisted => persists = 1
    /\ persists = 1 => room.phase = "FINISHED"
    /\ \A t \in Task : tasks[t].pc = "finish" => persists = 0
    /\ \A t \in Task : tasks[t].pc = "save" => persists = 1
    /\ \A t, u \in Task : Carried(t) /\ Carried(u) => t = u

\* A step that persists nothing, reopens nothing and adds no copy.
LEMMA FinishFrame ==
    ASSUME FinishInv, persists' = persists, room'.persisted <=> room.persisted,
           room.phase = "FINISHED" => room'.phase = "FINISHED",
           \A t \in Task : Carried(t)' => tasks'[t] = tasks[t]
    PROVE  FinishInv'
  <1>1. ASSUME NEW t \in Task, tasks'[t].pc \in Finishing
        PROVE  tasks'[t] = tasks[t]
    BY <1>1 DEF Carried
  <1>2. ASSUME NEW t \in Task
        PROVE  /\ tasks'[t].pc = "finish" => persists = 0
               /\ tasks'[t].pc = "save" => persists = 1
    BY <1>1 DEF FinishInv, Finishing
  <1>3. ASSUME NEW t \in Task, NEW u \in Task, Carried(t)', Carried(u)'
        PROVE  t = u
    <2>1. Carried(t) /\ Carried(u)
      BY <1>3 DEF Carried
    <2>. QED BY <2>1 DEF FinishInv
  <1>. QED BY <1>2, <1>3 DEF FinishInv

\* The step that ends a game is the first, and its task the only one, to carry it.
LEMMA FinishFirst ==
    ASSUME FinishInv, CopiesInv, room.phase # "FINISHED", NEW t \in Task, persists' = persists,
           room'.persisted <=> room.persisted,
           \A u \in Task : Carried(u)' => u = t /\ tasks'[u].pc = "finish"
    PROVE  FinishInv'
  <1>1. persists = 0
    BY DEF FinishInv
  <1>2. ASSUME NEW u \in Task
        PROVE  tasks'[u].pc # "save"
    BY DEF Carried, Finishing
  <1>. QED BY <1>1, <1>2 DEF FinishInv

LEMMA FinishStep == TypeOK /\ CopiesInv /\ FinishInv /\ [Next]_vars => FinishInv'
  <1>1. SUFFICES ASSUME TypeOK, CopiesInv, FinishInv, [Next]_vars
                 PROVE  FinishInv'
    OBVIOUS
  <1>. USE <1>1
  <1>2. room \in Document /\ tasks \in [Task -> TaskState]
    BY DEF TypeOK
  <1>3. /\ \A pc \in {"broadcast", "drive", "driveClose", "close", "force"}, b \in BOOLEAN :
               At(pc, b).pc \notin Finishing
        /\ \A task : AfterDrive(task).pc \notin Finishing
        /\ Idle.pc \notin Finishing
    BY CarriesNothing DEF InMemory
  <1>4. ASSUME NEW r \in Role, NEW t \in Task, Submit(r, t) PROVE FinishInv'
    <2>1. \A u \in Task : Carried(u)' => tasks'[u] = tasks[u]
      BY <1>2, <1>3, <1>4, NoNewCopy DEF Submit
    <2>2. (room'.persisted <=> room.persisted) /\ room'.phase = room.phase
      BY <1>2, <1>4 DEF Submit, WithOrders, Document
    <2>. QED BY <1>4, <2>1, <2>2, FinishFrame DEF Submit
  <1>5. ASSUME \/ PauseGame
               \/ \E r \in Role : ReclaimSeat(r)
               \/ \E r \in Role : Disconnect(r)
               \/ \E r \in Role : Rejoin(r)
        PROVE  FinishInv'
    <2>1. tasks' = tasks /\ persists' = persists
      BY <1>5 DEF PauseGame, ReclaimSeat, Disconnect, Rejoin
    <2>2. (room'.persisted <=> room.persisted) /\ room'.phase = room.phase
      BY <1>2, <1>5 DEF PauseGame, ReclaimSeat, Disconnect, Rejoin, Document
    <2>. QED BY <2>1, <2>2, FinishFrame
  <1>6. ASSUME NEW t \in Task, ResumeGame(t) PROVE FinishInv'
    <2>1. \A u \in Task : Carried(u)' => tasks'[u] = tasks[u]
      BY <1>2, <1>3, <1>6, NoNewCopy DEF ResumeGame, ResumePlay
    <2>2. (room'.persisted <=> room.persisted) /\ room'.phase = room.phase
      BY <1>2, <1>6 DEF ResumeGame, Document
    <2>. QED BY <1>6, <2>1, <2>2, FinishFrame DEF ResumeGame
  <1>7. ASSUME NEW t \in Task, ForceCloseWeek(t) PROVE FinishInv'
    <2>1. \A u \in Task : Carried(u)' => tasks'[u] = tasks[u]
      BY <1>2, <1>3, <1>7, NoNewCopy DEF ForceCloseWeek
    <2>. QED BY <1>7, <2>1, FinishFrame DEF ForceCloseWeek
  <1>8. ASSUME NEW r \in Role, NEW t \in Task, SubstituteBot(r, t) PROVE FinishInv'
    <2>1. \A u \in Task : Carried(u)' => tasks'[u] = tasks[u]
      BY <1>2, <1>3, <1>8, NoNewCopy DEF SubstituteBot
    <2>2. (room'.persisted <=> room.persisted) /\ room'.phase = room.phase
      BY <1>2, <1>8 DEF SubstituteBot, WithBotSeated, Document
    <2>. QED BY <1>8, <2>1, <2>2, FinishFrame DEF SubstituteBot
  <1>9. ASSUME NEW t \in Task, EndGameEarly(t) PROVE FinishInv'
    <2>1. room.phase # "FINISHED" /\ (room'.persisted <=> room.persisted)
      BY <1>2, <1>9 DEF EndGameEarly, Document
    <2>2. \A u \in Task : Carried(u)' => u = t /\ tasks'[u].pc = "finish"
      BY <1>2, <1>9, <2>1 DEF EndGameEarly, Carrying, Carried, CopiesInv
    <2>. QED BY <1>9, <2>1, <2>2, FinishFirst DEF EndGameEarly
  <1>10. ASSUME NEW t \in Task, BroadcastState(t) PROVE FinishInv'
    <2>1. [tasks[t] EXCEPT !.pc = "drive"].pc \notin Finishing
      BY <1>2, <1>10 DEF BroadcastState, TaskState, InMemory, Finishing
    <2>2. \A u \in Task : Carried(u)' => tasks'[u] = tasks[u]
      BY <1>2, <1>10, <2>1, NoNewCopy DEF BroadcastState
    <2>. QED BY <1>10, <2>2, FinishFrame DEF BroadcastState
  <1>11. ASSUME NEW t \in Task, PlayBotRound(t) PROVE FinishInv'
    <2>1. [tasks[t] EXCEPT !.pc = "driveClose"].pc \notin Finishing
      BY <1>2, <1>11 DEF PlayBotRound, TaskState, InMemory, Finishing
    <2>2. \A u \in Task : Carried(u)' => tasks'[u] = tasks[u]
      BY <1>2, <1>3, <1>11, <2>1, NoNewCopy DEF PlayBotRound
    <2>3. (room'.persisted <=> room.persisted) /\ room'.phase = room.phase
      BY <1>2, <1>11 DEF PlayBotRound, WithBotsPlayed, WithOrders, Document
    <2>. QED BY <1>11, <2>2, <2>3, FinishFrame DEF PlayBotRound
  <1>12. ASSUME NEW t \in Task, TryCloseWeek(t) PROVE FinishInv'
    <2>1. CASE CanClose(room, tasks[t].pc = "force")
      <3>1. room.phase # "FINISHED"
        BY <2>1 DEF CanClose, Playing
      <3>2. room'.persisted <=> room.persisted
        BY <1>2, <1>12, <2>1 DEF TryCloseWeek, WithWeekClosed, Document
      <3>3. tasks' = [tasks EXCEPT ![t] = AfterClose(tasks[t], room')]
        BY <1>12, <2>1 DEF TryCloseWeek
      <3>4. \A u \in Task : Carried(u)' => u = t
        BY <1>2, <3>1, <3>3 DEF Carried, CopiesInv
      <3>5. AfterClose(tasks[t], room').pc \in Finishing =>
               AfterClose(tasks[t], room').pc = "finish"
        BY DEF AfterClose, At, Carrying, Finishing
      <3>6. tasks'[t] = AfterClose(tasks[t], room')
        BY <1>2, <3>3
      <3>7. \A u \in Task : Carried(u)' => u = t /\ tasks'[u].pc = "finish"
        BY <3>4, <3>5, <3>6 DEF Carried
      <3>. QED BY <1>12, <3>1, <3>2, <3>7, FinishFirst DEF TryCloseWeek
    <2>2. CASE ~CanClose(room, tasks[t].pc = "force")
      <3>1. \A u \in Task : Carried(u)' => tasks'[u] = tasks[u]
        BY <1>2, <1>3, <1>12, <2>2, NoNewCopy DEF TryCloseWeek
      <3>. QED BY <1>12, <2>2, <3>1, FinishFrame DEF TryCloseWeek
    <2>. QED BY <2>1, <2>2
  <1>13. ASSUME NEW t \in Task, PersistGame(t) PROVE FinishInv'
    <2>1. persists = 0 /\ persists' = 1 /\ room' = room /\ tasks[t].pc = "finish" /\ Carried(t)
      BY <1>13 DEF PersistGame, FinishInv, Carried, Finishing
    <2>2. room.phase = "FINISHED"
      BY <2>1 DEF CopiesInv
    <2>3. tasks'[t].pc = "save" /\ \A u \in Task : u # t => tasks'[u] = tasks[u]
      BY <1>2, <1>13 DEF PersistGame, Carrying
    <2>4. \A u \in Task : u # t => ~Carried(u)
      BY <2>1 DEF FinishInv
    <2>5. \A u \in Task : Carried(u)' => u = t
      BY <2>3, <2>4 DEF Carried
    <2>6. \A u \in Task : tasks'[u].pc # "finish"
      BY <2>3, <2>5 DEF Carried, Finishing
    <2>. QED BY <2>1, <2>2, <2>5, <2>6 DEF FinishInv
  <1>14. ASSUME NEW t \in Task, SaveFinished(t) PROVE FinishInv'
    <2>1. persists = 1 /\ persists' = persists
      BY <1>14 DEF SaveFinished, FinishInv
    <2>2. room'.phase = "FINISHED"
      BY <1>14 DEF SaveFinished, CopiesInv, Carried, Finishing, SameGame
    <2>3. \A u \in Task : Carried(u)' => tasks'[u] = tasks[u]
      BY <1>2, <1>3, <1>14, NoNewCopy DEF SaveFinished
    <2>4. ASSUME NEW u \in Task, tasks'[u].pc = "finish"
          PROVE  FALSE
      <3>1. tasks[u].pc = "finish"
        BY <2>3, <2>4 DEF Carried, Finishing
      <3>. QED BY <2>1, <3>1 DEF FinishInv
    <2>5. \A u, v \in Task : Carried(u)' /\ Carried(v)' => u = v
      BY <2>3 DEF Carried, FinishInv
    <2>. QED BY <2>1, <2>2, <2>4, <2>5 DEF FinishInv
  <1>15. CASE Crash
    <2>1. \A t \in Task : tasks'[t] = Idle /\ ~Carried(t)'
      BY <1>3, <1>15 DEF Crash, Carried
    <2>. QED BY <1>15, <2>1, FinishFrame DEF Crash
  <1>16. CASE UNCHANGED vars
    BY <1>16, FinishFrame DEF vars
  <1>. QED
    BY <1>4, <1>5, <1>6, <1>7, <1>8, <1>9, <1>10, <1>11, <1>12, <1>13, <1>14, <1>15, <1>16 DEF Next

\* However the tasks that may end a game interleave, and through every restart, it is
\* handed to persistence at most once, and marked persisted only after that.
THEOREM FinishedAtMostOnce == Spec => []FinishedOnce
  <1>1. Init => FinishInv
    BY DEF Init, FinishInv, Carried, At, Idle, Finishing
  <1>2. FinishInv => FinishedOnce
    BY DEF FinishInv, FinishedOnce
  <1>. QED BY <1>1, <1>2, FinishStep, TypeCorrect, CopiesSafe, PTL DEF Spec

-------------------------------------------------------------------------------
(* Forced weeks.  A force that was authorised is either still to come, in a     *)
(* task, or was spent on one week at most.                                      *)

Forcing == {t \in Task : tasks[t].pc = "force"}

ForcedIn(history) ==
    {w \in 1..Len(history) : \E r \in Role : history[w][r].was_forced}

ForceInv ==
    /\ IsFiniteSet(Forcing)
    /\ Cardinality(Forcing) + Cardinality(ForcedIn(room.history)) <= forces

LEMMA OneMore ==
    ASSUME NEW S, IsFiniteSet(S), NEW x
    PROVE  /\ IsFiniteSet(S \cup {x})
           /\ Cardinality(S \cup {x}) <= Cardinality(S) + 1
  <1>1. Cardinality(S) \in Nat
    BY FS_CardinalityType
  <1>2. CASE x \in S
    <2>1. S \cup {x} = S
      BY <1>2
    <2>2. Cardinality(S) <= Cardinality(S) + 1
      BY <1>1
    <2>. QED BY <2>1, <2>2
  <1>3. CASE x \notin S
    BY <1>1, <1>3, FS_AddElement
  <1>. QED BY <1>2, <1>3

LEMMA ForcedFinite ==
    ASSUME NEW history \in Seq([Role -> OrderRecord])
    PROVE  /\ IsFiniteSet(ForcedIn(history))
           /\ Cardinality(ForcedIn(history)) \in Nat
  <1>1. IsFiniteSet(1..Len(history))
    BY FS_Interval
  <1>2. ForcedIn(history) \subseteq 1..Len(history)
    BY DEF ForcedIn
  <1>. QED BY <1>1, <1>2, FS_Subset, FS_CardinalityType

\* A week is added to the forced ones only if a record of it says so.
LEMMA ForcedAppend ==
    ASSUME NEW history \in Seq([Role -> OrderRecord]), NEW records \in [Role -> OrderRecord]
    PROVE  /\ ForcedIn(Append(history, records)) \subseteq
                  ForcedIn(history) \cup {Len(history) + 1}
           /\ (\A r \in Role : ~records[r].was_forced) =>
                  ForcedIn(Append(history, records)) = ForcedIn(history)
  <1>1. /\ Len(Append(history, records)) = Len(history) + 1
        /\ Len(history) \in Nat
        /\ \A w \in 1..Len(history) : Append(history, records)[w] = history[w]
        /\ Append(history, records)[Len(history) + 1] = records
    OBVIOUS
  <1>. QED BY <1>1 DEF ForcedIn

\* A step that authorises nothing, forces no task and records no week.
LEMMA ForceFrame ==
    ASSUME TypeOK, ForceInv, Forcing' \subseteq Forcing,
           room'.history = room.history, forces' = forces
    PROVE  ForceInv'
  <1>1. IsFiniteSet(Forcing') /\ Cardinality(Forcing') <= Cardinality(Forcing)
    BY FS_Subset DEF ForceInv
  <1>2. Cardinality(Forcing') \in Nat /\ Cardinality(Forcing) \in Nat
    BY <1>1, FS_CardinalityType DEF ForceInv
  <1>3. Cardinality(ForcedIn(room.history)) \in Nat /\ forces \in Nat
    BY ForcedFinite, BoundsAssumption DEF TypeOK, Document
  <1>. QED BY <1>1, <1>2, <1>3 DEF ForceInv

\* Giving one task a section that forces nothing.
LEMMA NoNewForce ==
    ASSUME NEW t \in Task, NEW next, tasks \in [Task -> TaskState],
           tasks' = [tasks EXCEPT ![t] = next], next.pc # "force"
    PROVE  Forcing' = Forcing \ {t}
  BY DEF Forcing

LEMMA ForcesNothing ==
    /\ \A b : /\ At("broadcast", b).pc # "force"
              /\ At("drive", b).pc # "force"
              /\ At("close", b).pc # "force"
              /\ \A pc \in Finishing : \A doc : Carrying(pc, b, doc).pc # "force"
    /\ Idle.pc # "force"
    /\ \A task : AfterDrive(task).pc # "force"
    /\ \A task, doc : AfterClose(task, doc).pc # "force"
  BY DEF At, Carrying, Idle, AfterDrive, AfterClose, Finishing

LEMMA ForceStep == TypeOK /\ CopiesInv /\ ForceInv /\ [Next]_vars => ForceInv'
  <1>1. SUFFICES ASSUME TypeOK, CopiesInv, ForceInv, [Next]_vars
                 PROVE  ForceInv'
    OBVIOUS
  <1>. USE <1>1
  <1>2. /\ room \in Document /\ tasks \in [Task -> TaskState]
        /\ room.history \in Seq([Role -> OrderRecord])
    BY DEF TypeOK, Document
  <1>3. ASSUME NEW t \in Task, NEW next, tasks' = [tasks EXCEPT ![t] = next],
               next.pc # "force"
        PROVE  Forcing' \subseteq Forcing
    BY <1>2, <1>3, NoNewForce
  <1>4. ASSUME NEW r \in Role, NEW t \in Task, Submit(r, t) PROVE ForceInv'
    <2>1. Forcing' \subseteq Forcing
      BY <1>3, <1>4, ForcesNothing DEF Submit
    <2>2. room'.history = room.history
      BY <1>2, <1>4 DEF Submit, WithOrders, Document
    <2>. QED BY <1>4, <2>1, <2>2, ForceFrame DEF Submit
  <1>5. ASSUME \/ PauseGame
               \/ \E r \in Role : ReclaimSeat(r)
               \/ \E r \in Role : Disconnect(r)
               \/ \E r \in Role : Rejoin(r)
        PROVE  ForceInv'
    <2>1. tasks' = tasks /\ forces' = forces
      BY <1>5 DEF PauseGame, ReclaimSeat, Disconnect, Rejoin
    <2>2. room'.history = room.history
      BY <1>2, <1>5 DEF PauseGame, ReclaimSeat, Disconnect, Rejoin, Document
    <2>. QED BY <2>1, <2>2, ForceFrame DEF Forcing
  <1>6. ASSUME NEW t \in Task, ResumeGame(t) PROVE ForceInv'
    <2>1. Forcing' \subseteq Forcing
      BY <1>3, <1>6, ForcesNothing DEF ResumeGame, ResumePlay
    <2>2. room'.history = room.history
      BY <1>2, <1>6 DEF ResumeGame, Document
    <2>. QED BY <1>6, <2>1, <2>2, ForceFrame DEF ResumeGame
  <1>7. ASSUME NEW t \in Task, ForceCloseWeek(t) PROVE ForceInv'
    <2>1. t \notin Forcing /\ Forcing' = Forcing \cup {t}
      BY <1>2, <1>7 DEF ForceCloseWeek, Free, Forcing, At
    <2>2. IsFiniteSet(Forcing') /\ Cardinality(Forcing') = Cardinality(Forcing) + 1
      BY <2>1, FS_AddElement DEF ForceInv
    <2>3. Cardinality(Forcing) \in Nat /\ Cardinality(ForcedIn(room.history)) \in Nat
      BY <1>2, ForcedFinite, FS_CardinalityType DEF ForceInv
    <2>4. forces \in Nat /\ forces' = forces + 1 /\ room' = room
      BY <1>7, BoundsAssumption DEF ForceCloseWeek, TypeOK
    <2>. QED BY <2>2, <2>3, <2>4 DEF ForceInv
  <1>8. ASSUME NEW r \in Role, NEW t \in Task, SubstituteBot(r, t) PROVE ForceInv'
    <2>1. Forcing' \subseteq Forcing
      BY <1>3, <1>8, ForcesNothing DEF SubstituteBot, Forcing
    <2>2. room'.history = room.history
      BY <1>2, <1>8 DEF SubstituteBot, WithBotSeated, Document
    <2>. QED BY <1>8, <2>1, <2>2, ForceFrame DEF SubstituteBot
  <1>9. ASSUME NEW t \in Task, EndGameEarly(t) PROVE ForceInv'
    <2>1. Forcing' \subseteq Forcing
      BY <1>3, <1>9, ForcesNothing DEF EndGameEarly, Finishing
    <2>2. room'.history = room.history
      BY <1>2, <1>9 DEF EndGameEarly, Document
    <2>. QED BY <1>9, <2>1, <2>2, ForceFrame DEF EndGameEarly
  <1>10. ASSUME NEW t \in Task, BroadcastState(t) PROVE ForceInv'
    <2>1. [tasks[t] EXCEPT !.pc = "drive"].pc # "force"
      BY <1>2, <1>10 DEF BroadcastState, TaskState
    <2>2. Forcing' \subseteq Forcing
      BY <1>3, <1>10, <2>1 DEF BroadcastState
    <2>. QED BY <1>10, <2>2, ForceFrame DEF BroadcastState
  <1>11. ASSUME NEW t \in Task, PlayBotRound(t) PROVE ForceInv'
    <2>1. [tasks[t] EXCEPT !.pc = "driveClose"].pc # "force"
      BY <1>2, <1>11 DEF PlayBotRound, TaskState
    <2>2. Forcing' \subseteq Forcing
      BY <1>3, <1>11, <2>1, ForcesNothing DEF PlayBotRound
    <2>3. room'.history = room.history
      BY <1>2, <1>11 DEF PlayBotRound, WithBotsPlayed, WithOrders, Document
    <2>. QED BY <1>11, <2>2, <2>3, ForceFrame DEF PlayBotRound
  <1>12. ASSUME NEW t \in Task, TryCloseWeek(t) PROVE ForceInv'
    <2>1. CASE CanClose(room, tasks[t].pc = "force")
      <3> DEFINE records == [r \in Role |-> Record(room, r)]
      <3>1. /\ room'.history = Append(room.history, records)
            /\ tasks' = [tasks EXCEPT ![t] = AfterClose(tasks[t], room')]
            /\ forces' = forces
        BY <1>2, <1>12, <2>1 DEF TryCloseWeek, WithWeekClosed, Document
      <3>2. records \in [Role -> OrderRecord]
        BY <1>2, RecordsTyped
      <3>3. Forcing' = Forcing \ {t}
        BY <1>2, <3>1, NoNewForce, ForcesNothing
      <3>4. /\ Cardinality(Forcing) \in Nat
            /\ IsFiniteSet(ForcedIn(room.history))
            /\ Cardinality(ForcedIn(room.history)) \in Nat
            /\ forces \in Nat
        BY <1>2, ForcedFinite, FS_CardinalityType, BoundsAssumption DEF ForceInv, TypeOK
      <3>5. CASE tasks[t].pc = "force"
        <4>1. /\ IsFiniteSet(Forcing')
              /\ Cardinality(Forcing') = Cardinality(Forcing) - 1
          BY <3>3, <3>5, FS_RemoveElement DEF ForceInv, Forcing
        <4>2. /\ IsFiniteSet(ForcedIn(room.history) \cup {Len(room.history) + 1})
              /\ Cardinality(ForcedIn(room.history) \cup {Len(room.history) + 1})
                     <= Cardinality(ForcedIn(room.history)) + 1
          BY <3>4, OneMore
        <4>3. Cardinality(ForcedIn(room.history) \cup {Len(room.history) + 1}) \in Nat
          BY <4>2, FS_CardinalityType
        <4>4. ForcedIn(room'.history) \subseteq ForcedIn(room.history) \cup {Len(room.history) + 1}
          BY <1>2, <3>1, <3>2, ForcedAppend
        <4>5. /\ Cardinality(ForcedIn(room'.history)) \in Nat
              /\ Cardinality(ForcedIn(room'.history))
                     <= Cardinality(ForcedIn(room.history) \cup {Len(room.history) + 1})
          BY <4>2, <4>4, FS_Subset, FS_CardinalityType
        <4>. QED BY <3>1, <3>4, <4>1, <4>2, <4>3, <4>5 DEF ForceInv
      <3>6. CASE tasks[t].pc # "force"
        <4>1. \A r \in Role : ~records[r].was_forced
          <5>1. \A r \in Role : room.pending[r] # "none"
            BY <2>1, <3>6 DEF CanClose, AllOrdersIn
          <5>2. \A r \in Role : Record(room, r).was_forced <=> room.pending[r] = "none"
            BY Zenon DEF Record
          <5>. QED BY <5>1, <5>2
        <4>2. ForcedIn(room'.history) = ForcedIn(room.history)
          BY <1>2, <3>1, <3>2, <4>1, ForcedAppend
        <4>3. Forcing' = Forcing
          BY <3>3, <3>6 DEF Forcing
        <4>. QED BY <3>1, <4>2, <4>3 DEF ForceInv
      <3>. QED BY <3>5, <3>6
    <2>2. CASE ~CanClose(room, tasks[t].pc = "force")
      <3>1. Forcing' \subseteq Forcing
        BY <1>3, <1>12, <2>2, ForcesNothing DEF TryCloseWeek
      <3>. QED BY <1>12, <2>2, <3>1, ForceFrame DEF TryCloseWeek
    <2>. QED BY <2>1, <2>2
  <1>13. ASSUME NEW t \in Task, PersistGame(t) PROVE ForceInv'
    <2>1. PICK ok \in BOOLEAN :
             tasks' = [tasks EXCEPT ![t] =
                         Carrying("save", tasks[t].thenClose,
                                  [tasks[t].copy EXCEPT !.persisted = ok])]
      BY <1>13 DEF PersistGame
    <2>2. Carrying("save", tasks[t].thenClose, [tasks[t].copy EXCEPT !.persisted = ok]).pc # "force"
      BY DEF Carrying
    <2>3. Forcing' \subseteq Forcing
      BY <1>3, <2>1, <2>2
    <2>. QED BY <1>13, <2>3, ForceFrame DEF PersistGame
  <1>14. ASSUME NEW t \in Task, SaveFinished(t) PROVE ForceInv'
    <2>1. room'.history = room.history
      BY <1>14 DEF SaveFinished, CopiesInv, Carried, Finishing, SameGame
    <2>2. Forcing' \subseteq Forcing
      BY <1>3, <1>14, ForcesNothing DEF SaveFinished
    <2>. QED BY <1>14, <2>1, <2>2, ForceFrame DEF SaveFinished
  <1>15. CASE Crash
    <2>1. Forcing' = {}
      BY <1>15, ForcesNothing DEF Crash, Forcing
    <2>. QED BY <1>15, <2>1, ForceFrame DEF Crash
  <1>16. CASE UNCHANGED vars
    BY <1>16, ForceFrame DEF vars, Forcing
  <1>. QED
    BY <1>4, <1>5, <1>6, <1>7, <1>8, <1>9, <1>10, <1>11, <1>12, <1>13, <1>14, <1>15, <1>16 DEF Next

\* However long a force takes to run and whatever week it meets, at most one week is
\* closed incomplete for it.
THEOREM ForcesAreSpentOnce == Spec => []OneWeekPerForce
  <1>1. Init => ForceInv
    <2>. SUFFICES ASSUME Init
                  PROVE  ForceInv
      OBVIOUS
    <2>1. Forcing = {} /\ ForcedIn(room.history) = {} /\ forces = 0
      BY DEF Init, Forcing, ForcedIn, At, Idle
    <2>. QED BY <2>1, FS_EmptySet DEF ForceInv
  <1>2. TypeOK /\ ForceInv => OneWeekPerForce
    <2>. SUFFICES ASSUME TypeOK, ForceInv
                  PROVE  Cardinality(ForcedIn(room.history)) <= forces
      BY DEF OneWeekPerForce, ForcedIn
    <2>1. Cardinality(Forcing) \in Nat /\ Cardinality(ForcedIn(room.history)) \in Nat
      BY ForcedFinite, FS_CardinalityType DEF ForceInv, TypeOK, Document
    <2>2. forces \in Nat
      BY BoundsAssumption DEF TypeOK
    <2>. QED BY <2>1, <2>2 DEF ForceInv
  <1>. QED BY <1>1, <1>2, ForceStep, TypeCorrect, CopiesSafe, PTL DEF Spec

-------------------------------------------------------------------------------
(* The bots' memory.  A seat is a bot's as long as it has seen anything, and of *)
(* the open week it has seen the demand exactly if its order is in.             *)

MemoryOf(doc, r) ==
    /\ \A i, j \in 1..Len(doc.seen[r]) : i < j => doc.seen[r][i] < doc.seen[r][j]
    /\ \A i \in 1..Len(doc.seen[r]) : doc.seen[r][i] <= doc.week
    /\ doc.seen[r] # <<>> =>
           /\ doc.seatBot[r]
           /\ \A w \in doc.seen[r][1]..Len(doc.history) :
                  w \in Range(doc.seen[r]) \/ doc.history[w][r].was_forced
           /\ doc.phase = "DECISION" =>
                  (doc.seen[r][Len(doc.seen[r])] = doc.week <=> doc.pending[r] # "none")

Remembers(doc) == \A r \in Role : MemoryOf(doc, r)

MemoryInv ==
    /\ Remembers(room)
    /\ \A t \in Task : Carried(t) => Remembers(tasks[t].copy)

\* A seat whose bot starts afresh has nothing to remember.
LEMMA FreshMemory ==
    ASSUME NEW doc, NEW r, doc.seen[r] = <<>>
    PROVE  MemoryOf(doc, r)
  BY DEF MemoryOf

LEMMA MemoryKept ==
    ASSUME NEW doc, NEW other, NEW r, MemoryOf(doc, r),
           other.seen[r] = doc.seen[r], other.week = doc.week, other.phase = doc.phase,
           other.history = doc.history, other.seatBot[r] <=> doc.seatBot[r],
           other.pending[r] = doc.pending[r]
    PROVE  MemoryOf(other, r)
  BY DEF MemoryOf

\* Everything but the engine's bot flags and who is connected is the same.
LEMMA RemembersKept ==
    ASSUME NEW doc, NEW other, Remembers(doc),
           other.seen = doc.seen, other.week = doc.week, other.phase = doc.phase,
           other.history = doc.history, other.seatBot = doc.seatBot,
           other.pending = doc.pending
    PROVE  Remembers(other)
  BY DEF Remembers, MemoryOf

\* A game that is over compares no week any more.
LEMMA RemembersOver ==
    ASSUME NEW doc, NEW other, Remembers(doc),
           other.seen = doc.seen, other.week = doc.week, other.phase = "FINISHED",
           other.history = doc.history, other.seatBot = doc.seatBot
    PROVE  Remembers(other)
  BY DEF Remembers, MemoryOf

\* A player's order is in a seat no bot plays.
LEMMA SubmittedRemembers ==
    ASSUME NEW doc \in Document, NEW q \in Role, Remembers(doc), ~doc.seatBot[q]
    PROVE  Remembers(WithOrders(doc, {q}, "human"))
  <1>1. PICK e : e = WithOrders(doc, {q}, "human")
    OBVIOUS
  <1>2. /\ e.seen = doc.seen /\ e.week = doc.week /\ e.phase = doc.phase
        /\ e.history = doc.history /\ e.seatBot = doc.seatBot
        /\ \A r \in Role : r # q => e.pending[r] = doc.pending[r]
    BY <1>1 DEF WithOrders, Document
  <1>3. ASSUME NEW r \in Role
        PROVE  MemoryOf(e, r)
    <2>1. CASE r = q
      <3>1. doc.seen[r] = <<>>
        BY <2>1 DEF Remembers, MemoryOf
      <3>. QED BY <1>2, <3>1, FreshMemory
    <2>2. CASE r # q
      BY <1>2, <2>2, MemoryKept DEF Remembers
    <2>. QED BY <2>1, <2>2
  <1>. QED BY <1>1, <1>3 DEF Remembers

\* A bot that is due has not seen the open week, so adding it keeps the order.
LEMMA PlayedRemembers ==
    ASSUME NEW doc \in Document, Remembers(doc), Coherent(doc), Playing(doc)
    PROVE  Remembers(WithBotsPlayed(doc))
  <1>1. PICK e : e = WithBotsPlayed(doc)
    OBVIOUS
  <1>2. /\ e.seen = [r \in Role |-> IF r \in Due(doc) THEN Append(doc.seen[r], doc.week)
                                   ELSE doc.seen[r]]
        /\ e.pending = [r \in Role |-> IF r \in Due(doc) THEN "bot" ELSE doc.pending[r]]
        /\ e.week = doc.week /\ e.phase = doc.phase
        /\ e.history = doc.history /\ e.seatBot = doc.seatBot
    BY <1>1 DEF WithBotsPlayed, WithOrders, Document
  <1>3. /\ doc.week \in Nat /\ Week \subseteq Nat
        /\ Len(doc.history) = doc.week - 1 /\ doc.phase = "DECISION"
    BY BoundsAssumption DEF Document, Week, Coherent, Playing
  <1>4. ASSUME NEW r \in Role
        PROVE  MemoryOf(e, r)
    <2>1. CASE r \in Due(doc)
      <3> DEFINE seen == doc.seen[r]
      <3>1. /\ seen \in Seq(Week) /\ Len(seen) \in Nat
            /\ \A i \in 1..Len(seen) : seen[i] \in Nat
        <4>1. seen \in Seq(Week)
          BY DEF Document
        <4>2. Len(seen) \in Nat /\ \A i \in 1..Len(seen) : seen[i] \in Week
          BY <4>1
        <4>. QED BY <1>3, <4>1, <4>2
      <3>2. /\ \A i, j \in 1..Len(seen) : i < j => seen[i] < seen[j]
            /\ \A i \in 1..Len(seen) : seen[i] <= doc.week
        BY DEF Remembers, MemoryOf
      <3>3. doc.seatBot[r] /\ doc.pending[r] = "none"
        BY <2>1 DEF Due
      <3>4. /\ e.seen[r] = Append(seen, doc.week)
            /\ Len(e.seen[r]) = Len(seen) + 1
            /\ e.seen[r][Len(seen) + 1] = doc.week
            /\ \A i \in 1..Len(seen) : e.seen[r][i] = seen[i]
        BY <1>2, <2>1, <3>1
      <3>5. \A i \in 1..Len(seen) : seen[i] < doc.week
        <4>1. SUFFICES ASSUME NEW i \in 1..Len(seen)
                       PROVE  seen[i] < doc.week
          OBVIOUS
        <4>2. seen # <<>>
          BY <3>1
        <4>3. seen[Len(seen)] # doc.week
          BY <1>3, <3>3, <4>2 DEF Remembers, MemoryOf
        <4>4. Len(seen) \in 1..Len(seen) /\ seen[Len(seen)] < doc.week
          BY <1>3, <3>1, <3>2, <4>3
        <4>5. i = Len(seen) \/ seen[i] < seen[Len(seen)]
          BY <3>1, <3>2, <4>4
        <4>6. seen[i] \in Nat /\ seen[Len(seen)] \in Nat
          BY <3>1, <4>4
        <4>7. CASE i = Len(seen)
          BY <4>4, <4>7
        <4>8. CASE seen[i] < seen[Len(seen)]
          BY <1>3, <4>4, <4>6, <4>8
        <4>. QED BY <4>5, <4>7, <4>8
      <3>6. \A i, j \in 1..Len(e.seen[r]) : i < j => e.seen[r][i] < e.seen[r][j]
        BY <3>1, <3>2, <3>4, <3>5
      <3>7. \A i \in 1..Len(e.seen[r]) : e.seen[r][i] <= e.week
        BY <1>2, <1>3, <3>1, <3>2, <3>4
      <3>8. \A w \in e.seen[r][1]..Len(e.history) :
                w \in Range(e.seen[r]) \/ e.history[w][r].was_forced
        <4>1. CASE seen = <<>>
          <5>1. e.seen[r][1] = doc.week
            BY <3>4, <4>1
          <5>. QED BY <1>2, <1>3, <5>1
        <4>2. CASE seen # <<>>
          <5>1. e.seen[r][1] = seen[1]
            BY <3>1, <3>4, <4>2
          <5>2. \A w \in seen[1]..Len(doc.history) :
                    w \in Range(seen) \/ doc.history[w][r].was_forced
            BY <4>2 DEF Remembers, MemoryOf
          <5>3. Range(seen) \subseteq Range(e.seen[r])
            BY <3>1, <3>4 DEF Range
          <5>. QED BY <1>2, <5>1, <5>2, <5>3
        <4>. QED BY <4>1, <4>2
      <3>9. e.seen[r][Len(e.seen[r])] = e.week /\ e.pending[r] # "none" /\ e.seatBot[r]
        BY <1>2, <2>1, <3>3, <3>4
      <3>. QED BY <3>6, <3>7, <3>8, <3>9 DEF MemoryOf
    <2>2. CASE r \notin Due(doc)
      BY <1>2, <2>2, MemoryKept DEF Remembers
    <2>. QED BY <2>1, <2>2
  <1>. QED BY <1>1, <1>4 DEF Remembers

\* A week that closes was seen by the bot whose order was in, or was forced on it.
LEMMA ClosedRemembers ==
    ASSUME NEW doc \in Document, Remembers(doc), Coherent(doc), Playing(doc)
    PROVE  Remembers(WithWeekClosed(doc))
  <1> DEFINE records == [r \in Role |-> Record(doc, r)]
  <1>1. PICK e : e = WithWeekClosed(doc)
    OBVIOUS
  <1>2. /\ e.seen = doc.seen /\ e.seatBot = doc.seatBot
        /\ e.history = Append(doc.history, records)
        /\ e.pending = [r \in Role |-> "none"]
        /\ e.phase = "DECISION" => e.week = doc.week + 1
        /\ e.week = doc.week \/ e.week = doc.week + 1
    BY <1>1 DEF WithWeekClosed, Document, Playing
  <1>3. /\ doc.week \in Nat /\ Week \subseteq Nat
        /\ Len(doc.history) = doc.week - 1 /\ doc.phase = "DECISION"
        /\ doc.history \in Seq([Role -> OrderRecord])
    BY BoundsAssumption DEF Document, Week, Coherent, Playing
  <1>4. /\ Len(e.history) = doc.week
        /\ e.history[doc.week] = records
        /\ \A w \in 1..Len(doc.history) : e.history[w] = doc.history[w]
    BY <1>2, <1>3
  <1>5. ASSUME NEW r \in Role
        PROVE  MemoryOf(e, r)
    <2> DEFINE seen == doc.seen[r]
    <2>1. /\ seen \in Seq(Week) /\ Len(seen) \in Nat
          /\ \A i \in 1..Len(seen) : seen[i] \in Nat /\ seen[i] >= 1
      <3>1. seen \in Seq(Week)
        BY DEF Document
      <3>2. Len(seen) \in Nat /\ \A i \in 1..Len(seen) : seen[i] \in Week
        BY <3>1
      <3>3. \A w \in Week : w \in Nat /\ w >= 1
        BY DEF Week
      <3>. QED BY <3>1, <3>2, <3>3
    <2>2. /\ \A i, j \in 1..Len(seen) : i < j => seen[i] < seen[j]
          /\ \A i \in 1..Len(seen) : seen[i] <= doc.week
      BY DEF Remembers, MemoryOf
    <2>3. ASSUME NEW i \in 1..Len(seen)
          PROVE  seen[i] <= e.week
      <3>1. /\ seen[i] \in Nat
            /\ seen[i] <= doc.week
            /\ doc.week \in Nat
            /\ e.week = doc.week \/ e.week = doc.week + 1
        BY <1>2, <1>3, <2>1, <2>2
      <3>. HIDE DEF seen
      <3>. QED BY <3>1
    <2>4. ASSUME seen # <<>>
          PROVE  /\ e.seatBot[r]
                 /\ \A w \in seen[1]..Len(e.history) :
                        w \in Range(seen) \/ e.history[w][r].was_forced
                 /\ e.phase = "DECISION" =>
                        (seen[Len(seen)] = e.week <=> e.pending[r] # "none")
      <3>1. /\ doc.seatBot[r]
            /\ \A w \in seen[1]..Len(doc.history) :
                   w \in Range(seen) \/ doc.history[w][r].was_forced
            /\ seen[Len(seen)] = doc.week <=> doc.pending[r] # "none"
        BY <1>3, <2>4 DEF Remembers, MemoryOf
      <3>2. Len(seen) \in 1..Len(seen) /\ 1 \in 1..Len(seen)
        BY <2>1, <2>4
      <3>3. ASSUME NEW w \in seen[1]..Len(e.history)
            PROVE  w \in Range(seen) \/ e.history[w][r].was_forced
        <4>1. CASE w = doc.week
          <5>1. CASE doc.pending[r] # "none"
            <6>1. seen[Len(seen)] = w
              BY <3>1, <4>1, <5>1
            <6>. QED BY <2>1, <3>2, <6>1 DEF Range
          <5>2. CASE doc.pending[r] = "none"
            <6>1. Record(doc, r).was_forced
              BY <5>2, Zenon DEF Record
            <6>. QED BY <1>4, <4>1, <6>1
          <5>. QED BY <5>1, <5>2
        <4>2. CASE w # doc.week
          <5>1. w \in seen[1]..Len(doc.history) /\ w \in 1..Len(doc.history)
            BY <1>3, <1>4, <2>1, <3>2, <3>3, <4>2
          <5>. QED BY <1>4, <3>1, <5>1
        <4>. QED BY <4>1, <4>2
      <3>4. e.phase = "DECISION" => (seen[Len(seen)] = e.week <=> e.pending[r] # "none")
        <4>1. seen[Len(seen)] <= doc.week /\ seen[Len(seen)] \in Nat
          BY <2>1, <2>2, <3>2
        <4>2. e.pending[r] = "none"
          BY <1>2
        <4>. QED BY <1>2, <1>3, <4>1, <4>2
      <3>. QED BY <1>2, <3>1, <3>3, <3>4
    <2>. QED BY <1>2, <2>2, <2>3, <2>4 DEF MemoryOf
  <1>. QED BY <1>1, <1>5 DEF Remembers

LEMMA MemoryStep == TypeOK /\ CopiesInv /\ MemoryInv /\ [Next]_vars => MemoryInv'
  <1>1. SUFFICES ASSUME TypeOK, CopiesInv, MemoryInv, [Next]_vars
                 PROVE  MemoryInv'
    OBVIOUS
  <1>. USE <1>1
  <1>2. /\ room \in Document /\ tasks \in [Task -> TaskState]
        /\ Remembers(room) /\ Coherent(room)
    BY DEF TypeOK, MemoryInv, CopiesInv
  <1>3. /\ \A pc \in {"broadcast", "drive", "driveClose", "close", "force"}, b \in BOOLEAN :
               At(pc, b).pc \notin Finishing
        /\ \A task : AfterDrive(task).pc \notin Finishing
        /\ Idle.pc \notin Finishing
    BY CarriesNothing DEF InMemory
  <1>4. ASSUME Remembers(room'), \A t \in Task : Carried(t)' => tasks'[t] = tasks[t]
        PROVE  MemoryInv'
    BY <1>4 DEF MemoryInv, Carried
  <1>5. ASSUME Remembers(room'), \A t \in Task : Carried(t)' => tasks'[t].copy = room'
        PROVE  MemoryInv'
    BY <1>5 DEF MemoryInv
  <1>6. ASSUME NEW r \in Role, NEW t \in Task, Submit(r, t) PROVE MemoryInv'
    <2>1. Remembers(room')
      BY <1>2, <1>6, SubmittedRemembers DEF Submit
    <2>2. \A u \in Task : Carried(u)' => tasks'[u] = tasks[u]
      BY <1>2, <1>3, <1>6, NoNewCopy DEF Submit
    <2>. QED BY <1>4, <2>1, <2>2
  <1>7. ASSUME \/ PauseGame
               \/ \E r \in Role : Disconnect(r)
               \/ \E r \in Role : Rejoin(r)
        PROVE  MemoryInv'
    <2>1. tasks' = tasks
      BY <1>7 DEF PauseGame, Disconnect, Rejoin
    <2>2. /\ room'.seen = room.seen /\ room'.week = room.week /\ room'.phase = room.phase
          /\ room'.history = room.history /\ room'.seatBot = room.seatBot
          /\ room'.pending = room.pending
      BY <1>2, <1>7 DEF PauseGame, Disconnect, Rejoin, Document
    <2>. QED BY <1>2, <1>4, <2>1, <2>2, RemembersKept
  <1>8. ASSUME NEW t \in Task, ResumeGame(t) PROVE MemoryInv'
    <2>1. \A u \in Task : Carried(u)' => tasks'[u] = tasks[u]
      BY <1>2, <1>3, <1>8, NoNewCopy DEF ResumeGame, ResumePlay
    <2>2. /\ room'.seen = room.seen /\ room'.week = room.week /\ room'.phase = room.phase
          /\ room'.history = room.history /\ room'.seatBot = room.seatBot
          /\ room'.pending = room.pending
      BY <1>2, <1>8 DEF ResumeGame, Document
    <2>. QED BY <1>2, <1>4, <2>1, <2>2, RemembersKept
  <1>9. ASSUME NEW t \in Task, ForceCloseWeek(t) PROVE MemoryInv'
    <2>1. \A u \in Task : Carried(u)' => tasks'[u] = tasks[u]
      BY <1>2, <1>3, <1>9, NoNewCopy DEF ForceCloseWeek
    <2>. QED BY <1>2, <1>4, <1>9, <2>1 DEF ForceCloseWeek
  <1>10. ASSUME NEW q \in Role, NEW t \in Task, SubstituteBot(q, t) PROVE MemoryInv'
    <2>1. \A u \in Task : Carried(u)' => tasks'[u] = tasks[u]
      BY <1>2, <1>3, <1>10, NoNewCopy DEF SubstituteBot
    <2>2. /\ room'.seen = [room.seen EXCEPT ![q] = <<>>]
          /\ room'.seatBot = [room.seatBot EXCEPT ![q] = TRUE]
          /\ room'.week = room.week /\ room'.phase = room.phase
          /\ room'.history = room.history /\ room'.pending = room.pending
      BY <1>2, <1>10 DEF SubstituteBot, WithBotSeated, Document
    <2>3. ASSUME NEW r \in Role
          PROVE  MemoryOf(room', r)
      <3>1. CASE r = q
        BY <1>2, <2>2, <3>1, FreshMemory DEF Document
      <3>2. CASE r # q
        BY <1>2, <2>2, <3>2, MemoryKept DEF Remembers, Document
      <3>. QED BY <3>1, <3>2
    <2>. QED BY <1>4, <2>1, <2>3 DEF Remembers
  <1>11. ASSUME NEW q \in Role, ReclaimSeat(q) PROVE MemoryInv'
    <2>1. /\ room'.seen = [room.seen EXCEPT ![q] = <<>>]
          /\ room'.seatBot = [room.seatBot EXCEPT ![q] = FALSE]
          /\ room'.week = room.week /\ room'.phase = room.phase
          /\ room'.history = room.history /\ room'.pending = room.pending
          /\ tasks' = tasks
      BY <1>2, <1>11 DEF ReclaimSeat, Document
    <2>2. ASSUME NEW r \in Role
          PROVE  MemoryOf(room', r)
      <3>1. CASE r = q
        BY <1>2, <2>1, <3>1, FreshMemory DEF Document
      <3>2. CASE r # q
        BY <1>2, <2>1, <3>2, MemoryKept DEF Remembers, Document
      <3>. QED BY <3>1, <3>2
    <2>. QED BY <1>4, <2>1, <2>2 DEF Remembers
  <1>12. ASSUME NEW t \in Task, EndGameEarly(t) PROVE MemoryInv'
    <2>1. /\ room'.seen = room.seen /\ room'.week = room.week /\ room'.phase = "FINISHED"
          /\ room'.history = room.history /\ room'.seatBot = room.seatBot
      BY <1>2, <1>12 DEF EndGameEarly, Document
    <2>2. Remembers(room')
      BY <1>2, <2>1, RemembersOver
    <2>3. \A u \in Task : Carried(u)' => tasks'[u].copy = room'
      BY <1>2, <1>12 DEF EndGameEarly, Carrying, Carried, CopiesInv
    <2>. QED BY <1>5, <2>2, <2>3
  <1>13. ASSUME NEW t \in Task, BroadcastState(t) PROVE MemoryInv'
    <2>1. [tasks[t] EXCEPT !.pc = "drive"].pc \notin Finishing
      BY <1>2, <1>13 DEF BroadcastState, TaskState, InMemory, Finishing
    <2>2. \A u \in Task : Carried(u)' => tasks'[u] = tasks[u]
      BY <1>2, <1>13, <2>1, NoNewCopy DEF BroadcastState
    <2>. QED BY <1>2, <1>4, <1>13, <2>2 DEF BroadcastState
  <1>14. ASSUME NEW t \in Task, PlayBotRound(t) PROVE MemoryInv'
    <2>1. [tasks[t] EXCEPT !.pc = "driveClose"].pc \notin Finishing
      BY <1>2, <1>14 DEF PlayBotRound, TaskState, InMemory, Finishing
    <2>2. \A u \in Task : Carried(u)' => tasks'[u] = tasks[u]
      BY <1>2, <1>3, <1>14, <2>1, NoNewCopy DEF PlayBotRound
    <2>3. Remembers(room')
      BY <1>2, <1>14, PlayedRemembers DEF PlayBotRound
    <2>. QED BY <1>4, <2>2, <2>3
  <1>15. ASSUME NEW t \in Task, TryCloseWeek(t) PROVE MemoryInv'
    <2>1. CASE CanClose(room, tasks[t].pc = "force")
      <3>1. room' = WithWeekClosed(room) /\ Playing(room)
        BY <1>15, <2>1 DEF TryCloseWeek, CanClose
      <3>2. Remembers(room')
        BY <1>2, <3>1, ClosedRemembers
      <3>3. tasks' = [tasks EXCEPT ![t] = AfterClose(tasks[t], room')]
        BY <1>15, <2>1 DEF TryCloseWeek
      <3>4. \A u \in Task : Carried(u)' => u = t
        BY <1>2, <3>1, <3>3 DEF Carried, CopiesInv, Playing
      <3>5. AfterClose(tasks[t], room').pc \in Finishing =>
               AfterClose(tasks[t], room').copy = room'
        BY DEF AfterClose, At, Carrying, Finishing
      <3>6. tasks'[t] = AfterClose(tasks[t], room')
        BY <1>2, <3>3
      <3>7. \A u \in Task : Carried(u)' => tasks'[u].copy = room'
        BY <3>4, <3>5, <3>6 DEF Carried
      <3>. QED BY <1>5, <3>2, <3>7
    <2>2. CASE ~CanClose(room, tasks[t].pc = "force")
      <3>1. \A u \in Task : Carried(u)' => tasks'[u] = tasks[u]
        BY <1>2, <1>3, <1>15, <2>2, NoNewCopy DEF TryCloseWeek
      <3>. QED BY <1>2, <1>4, <1>15, <2>2, <3>1 DEF TryCloseWeek
    <2>. QED BY <2>1, <2>2
  <1>16. ASSUME NEW t \in Task, PersistGame(t) PROVE MemoryInv'
    <2>1. Remembers(tasks[t].copy) /\ tasks[t].copy \in Document
      BY <1>2, <1>16 DEF PersistGame, MemoryInv, Carried, Finishing, TaskState, InMemory
    <2>2. PICK ok \in BOOLEAN :
             tasks' = [tasks EXCEPT ![t] =
                         Carrying("save", tasks[t].thenClose,
                                  [tasks[t].copy EXCEPT !.persisted = ok])]
      BY <1>16 DEF PersistGame
    <2>3. tasks'[t].copy = [tasks[t].copy EXCEPT !.persisted = ok]
      BY <1>2, <2>2 DEF Carrying
    <2>4. Remembers(tasks'[t].copy)
      <3>1. PICK c : c = tasks[t].copy
        OBVIOUS
      <3>2. PICK e : e = [c EXCEPT !.persisted = ok]
        OBVIOUS
      <3>3. /\ e.seen = c.seen /\ e.week = c.week /\ e.phase = c.phase
            /\ e.history = c.history /\ e.seatBot = c.seatBot /\ e.pending = c.pending
        BY <2>1, <3>1, <3>2 DEF Document
      <3>. QED BY <2>1, <2>3, <3>1, <3>2, <3>3, RemembersKept
    <2>5. (\A u \in Task : u # t => tasks'[u] = tasks[u]) /\ room' = room
      BY <1>2, <1>16, <2>2 DEF PersistGame
    <2>. QED BY <1>2, <2>4, <2>5 DEF MemoryInv, Carried
  <1>17. ASSUME NEW t \in Task, SaveFinished(t) PROVE MemoryInv'
    <2>1. Remembers(room')
      BY <1>17 DEF SaveFinished, MemoryInv, Carried, Finishing
    <2>2. \A u \in Task : Carried(u)' => tasks'[u] = tasks[u]
      BY <1>2, <1>3, <1>17, NoNewCopy DEF SaveFinished
    <2>. QED BY <1>4, <2>1, <2>2
  <1>18. CASE Crash
    <2>1. (\A t \in Task : ~Carried(t)') /\ room' = room
      BY <1>3, <1>18 DEF Crash, Carried
    <2>. QED BY <1>2, <2>1 DEF MemoryInv
  <1>19. CASE UNCHANGED vars
    BY <1>19 DEF vars, MemoryInv, Carried
  <1>. QED
    BY <1>6, <1>7, <1>8, <1>9, <1>10, <1>11, <1>12, <1>13, <1>14, <1>15, <1>16, <1>17, <1>18,
       <1>19 DEF Next

\* A bot's forecast is fed each week's demand once and in order, through swaps, takings
\* back, stale saves and restarts, and misses only weeks the host forced.
THEOREM BotsRemember == Spec => []BotMemory
  <1>1. Init => MemoryInv
    <2>. SUFFICES ASSUME Init
                  PROVE  MemoryInv
      OBVIOUS
    <2>1. /\ \A r \in Role : room.seen[r] = <<>>
          /\ \A t \in Task : ~Carried(t)
      BY DEF Init, Carried, At, Idle, Finishing
    <2>. QED BY <2>1, FreshMemory DEF MemoryInv, Remembers
  <1>2. MemoryInv => BotMemory
    BY DEF MemoryInv, Remembers, MemoryOf, BotMemory
  <1>. QED BY <1>1, <1>2, MemoryStep, TypeCorrect, CopiesSafe, PTL DEF Spec
===============================================================================
