----------------------- MODULE VehicleTracking_proofs -----------------------
(***************************************************************************)
(* Theorems about VehicleTracking, for every set of vehicles, every hash   *)
(* function, every number of objects and every combination of failures.    *)
(***************************************************************************)
EXTENDS VehicleTracking, SequenceTheorems, TLAPS

USE DEF handler, objects, tasks, lists, tables

\* List.add(i, e) yields a list one longer when i is within the list.
LEMMA InsertAtType ==
    ASSUME NEW S, NEW s \in Seq(S), NEW i \in Nat, NEW e \in S, i <= Len(s)
    PROVE  /\ InsertAt(s, i, e) \in Seq(S)
           /\ Len(InsertAt(s, i, e)) = Len(s) + 1
<1>1. Len(s) \in Nat /\ \A k \in 1..Len(s) : s[k] \in S
  OBVIOUS
<1>2. InsertAt(s, i, e) \in [1..Len(s) + 1 -> S]
  BY <1>1 DEF InsertAt
<1>3. InsertAt(s, i, e) \in Seq(S)
  BY <1>1, <1>2, IsASeq, Len(s) + 1 \in Nat
<1>4. Len(InsertAt(s, i, e)) = Len(s) + 1
  BY <1>1, <1>2, <1>3, LenProperties
<1> QED BY <1>3, <1>4

\* What the message thread finds at the head of its queue.
LEMMA InboxHead ==
    ASSUME EnvironmentOK, inbox # <<>>
    PROVE  /\ Head(inbox) \in Message
           /\ Tail(inbox) \in Seq(Message)
  BY HeadTailProperties DEF EnvironmentOK

\* The fields of the message at the head of the queue, by its kind.
LEMMA MessageFields ==
    ASSUME NEW m \in Message
    PROVE  /\ m.vehicle \in Vehicles
           /\ m.kind = "datePass" => m.date \in PassDates
           /\ m.kind = "timePass" => m.hours \in PassHours
  BY DEF Message

\* The inductive part of the typing: an index read for an insertion is still
\* within the list when the insertion is made.
TypeInv == TypeOK /\ InsertInRange

\* The initial state has the types.
LEMMA TypeInit == Init => TypeInv
  BY TrackingAssumption DEF Init, TypeInv, TypeOK, EnvironmentOK, HandlerOK,
     ObjectsOK, TasksOK, ListsOK, TablesOK, InsertInRange, TaskSteps,
     MessageSteps

\* The steps of the world outside.
LEMMA TypeWorld == TypeInv /\ World => TypeInv'
<1> USE DEF TypeInv, TypeOK
<1> SUFFICES ASSUME TypeInv, World PROVE TypeInv'
  OBVIOUS
<1> UNCHANGED <<handler, objects, tasks, lists, schedulerUp, tables, shown>>
  BY DEF World, Tick, VehiclePasses, PassIssued
<1>1. HandlerOK' /\ ObjectsOK' /\ TasksOK' /\ ListsOK' /\ TablesOK' /\ InsertInRange'
  BY DEF HandlerOK, ObjectsOK, TasksOK, ListsOK, TablesOK, InsertInRange
<1>2. now' \in Nat
  <2>1. now' = now \/ now' = now + 1
    BY DEF World, Tick, VehiclePasses, PassIssued
  <2> QED BY <2>1 DEF EnvironmentOK
<1>3. inbox' \in Seq(Message)
  <2>0. ASSUME NEW m \in Message, Receive(m) PROVE inbox' \in Seq(Message)
    BY <2>0, AppendProperties DEF Receive, EnvironmentOK
  <2>1. CASE Tick
    BY <2>1 DEF Tick, EnvironmentOK
  <2>2. ASSUME NEW v \in Vehicles, VehiclePasses(v) PROVE inbox' \in Seq(Message)
    <3>1. [kind |-> "image", vehicle |-> v] \in Message
      BY DEF Message
    <3> QED BY <2>0, <2>2, <3>1 DEF VehiclePasses
  <2>3. ASSUME NEW v \in Vehicles, PassIssued(v) PROVE inbox' \in Seq(Message)
    <3>1. ASSUME NEW d \in PassDates
          PROVE  [kind |-> "datePass", vehicle |-> v, date |-> d] \in Message
      BY DEF Message
    <3>2. ASSUME NEW h \in PassHours
          PROVE  [kind |-> "timePass", vehicle |-> v, hours |-> h] \in Message
      BY DEF Message
    <3>3. \E m \in Message : Receive(m)
      BY <2>3, <3>1, <3>2 DEF PassIssued
    <3> QED BY <2>0, <3>3
  <2> QED BY <2>1, <2>2, <2>3 DEF World
<1>4. EnvironmentOK'
  BY <1>2, <1>3 DEF EnvironmentOK
<1> QED BY <1>1, <1>4

\* The steps of the message thread.
LEMMA TypeHandler == TypeInv /\ MessageThread => TypeInv'
<1> USE DEF TypeInv, TypeOK
<1> SUFFICES ASSUME TypeInv, MessageThread PROVE TypeInv'
  OBVIOUS
<1> UNCHANGED <<now, recentVehicles, schedulerUp, index, violations>>
  BY DEF MessageThread, InsertDatePass, InsertTimePass, ProcessImage, CheckActive,
     QueryDatePass, QueryTimePass, AddActive, ScheduleGrace, RemoveLeaving, Broadcast
<1>1. ASSUME InsertDatePass PROVE TypeInv'
  <2>1. HandlerOK' /\ ObjectsOK' /\ TasksOK' /\ ListsOK' /\ InsertInRange'
    BY <1>1 DEF InsertDatePass, HandlerOK, ObjectsOK, TasksOK, ListsOK, InsertInRange
  <2>2. EnvironmentOK'
    BY <1>1, InboxHead DEF InsertDatePass, EnvironmentOK
  <2>3. TablesOK'
    BY <1>1, InboxHead, MessageFields DEF InsertDatePass, TablesOK
  <2> QED BY <2>1, <2>2, <2>3
<1>2. ASSUME InsertTimePass PROVE TypeInv'
  <2>1. HandlerOK' /\ ObjectsOK' /\ TasksOK' /\ ListsOK' /\ InsertInRange'
    BY <1>2 DEF InsertTimePass, HandlerOK, ObjectsOK, TasksOK, ListsOK, InsertInRange
  <2>2. EnvironmentOK'
    BY <1>2, InboxHead DEF InsertTimePass, EnvironmentOK
  <2>3. TablesOK'
    BY <1>2, InboxHead, MessageFields DEF InsertTimePass, TablesOK
  <2> QED BY <2>1, <2>2, <2>3
<1>3. ASSUME ProcessImage PROVE TypeInv'
  <2>1. ListsOK' /\ TablesOK'
    BY <1>3 DEF ProcessImage, ListsOK, TablesOK, TasksOK, Unborn
  <2>2. EnvironmentOK'
    BY <1>3, InboxHead DEF ProcessImage, EnvironmentOK
  <2>3. PICK p \in ReadPlate(Head(inbox).vehicle) :
          \/ /\ p # Null
             /\ \E o \in Unborn :
                   /\ captured' = o
                   /\ vehicle' = [vehicle EXCEPT ![o] = p]
                   /\ entryDate' = [entryDate EXCEPT ![o] = now]
                   /\ task' = [task EXCEPT ![o] = "none"]
             /\ mpc' = "check"
          \/ p = Null /\ UNCHANGED <<mpc, captured, objects, task>>
    BY <1>3 DEF ProcessImage
  <2>4. CASE p = Null
    BY <1>3, <2>1, <2>2, <2>3, <2>4
       DEF ProcessImage, HandlerOK, ObjectsOK, TasksOK, InsertInRange
  <2>5. CASE p # Null
    <3>1. PICK o \in Unborn :
             /\ captured' = o
             /\ vehicle' = [vehicle EXCEPT ![o] = p]
             /\ entryDate' = [entryDate EXCEPT ![o] = now]
             /\ task' = [task EXCEPT ![o] = "none"]
      BY <2>3, <2>5
    <3>2. o \in Objects /\ p \in Vehicles
      BY <1>3, <2>5, InboxHead, MessageFields, TrackingAssumption
         DEF Unborn, ReadPlate, ProcessImage
    <3>3. HandlerOK'
      BY <1>3, <2>3, <2>5, <3>1, <3>2 DEF ProcessImage, HandlerOK, TasksOK, MessageSteps
    <3>4. ObjectsOK'
      BY <3>1, <3>2 DEF ObjectsOK, TasksOK, EnvironmentOK
    <3>5. TasksOK' /\ InsertInRange'
      BY <1>3, <3>1, <3>2 DEF ProcessImage, TasksOK, TaskSteps, InsertInRange
    <3> QED BY <2>1, <2>2, <3>3, <3>4, <3>5
  <2> QED BY <2>4, <2>5
<1>4. ASSUME CheckActive \/ QueryDatePass \/ QueryTimePass PROVE TypeInv'
  <2>1. EnvironmentOK' /\ ObjectsOK' /\ TasksOK' /\ ListsOK' /\ TablesOK' /\ InsertInRange'
    BY <1>4 DEF CheckActive, QueryDatePass, QueryTimePass, EnvironmentOK, ObjectsOK,
       TasksOK, ListsOK, TablesOK, InsertInRange
  <2>2. captured \in Objects /\ vehicle[captured] \in Vehicles
    BY <1>4 DEF CheckActive, QueryDatePass, QueryTimePass, HandlerOK, ObjectsOK
  <2>3. datePasses[vehicle[captured]] \in PassDates \cup {Null}
    BY <2>2 DEF TablesOK
  <2>4. timePasses[vehicle[captured]] \in PassHours \cup {0}
    BY <2>2 DEF TablesOK
  <2>5. HandlerOK'
    BY <1>4, <2>3, <2>4 DEF CheckActive, QueryDatePass, QueryTimePass, HandlerEnds,
       HandlerOK, MessageSteps
  <2> QED BY <2>1, <2>5
<1>5. ASSUME AddActive \/ RemoveLeaving PROVE TypeInv'
  <2>1. EnvironmentOK' /\ ObjectsOK' /\ TasksOK' /\ TablesOK' /\ InsertInRange'
    BY <1>5 DEF AddActive, RemoveLeaving, EnvironmentOK, ObjectsOK, TasksOK, TablesOK,
       InsertInRange
  <2>2. HandlerOK'
    BY <1>5 DEF AddActive, RemoveLeaving, HandlerOK, MessageSteps
  <2>3. ListsOK'
    BY <1>5 DEF AddActive, RemoveLeaving, RemoveActive, HandlerOK, ListsOK
  <2> QED BY <2>1, <2>2, <2>3
<1>6. ASSUME ScheduleGrace PROVE TypeInv'
  <2>1. EnvironmentOK' /\ ListsOK' /\ TablesOK'
    BY <1>6 DEF ScheduleGrace, EnvironmentOK, ListsOK, TablesOK, TasksOK
  <2>2. captured \in Objects /\ task[captured] # "unborn"
    BY <1>6 DEF ScheduleGrace, HandlerOK
  <2>3. HandlerOK'
    BY <1>6, <2>2 DEF ScheduleGrace, HandlerEnds, HandlerOK, MessageSteps, TasksOK
  <2>4. ObjectsOK'
    BY <1>6, <2>2 DEF ScheduleGrace, ObjectsOK, TasksOK
  <2>5. now + Grace + timePass \in Nat
    <3>1. now \in Nat /\ timePass \in PassHours \cup {0}
      BY DEF EnvironmentOK, HandlerOK
    <3>2. Grace \in Nat /\ PassHours \subseteq Nat
      BY TrackingAssumption
    <3> QED BY <3>1, <3>2
  <2>6. TasksOK' /\ InsertInRange'
    BY <1>6, <2>2, <2>5 DEF ScheduleGrace, TasksOK, TaskSteps, InsertInRange
  <2> QED BY <2>1, <2>3, <2>4, <2>6
<1>7. ASSUME Broadcast PROVE TypeInv'
  <2>1. ObjectsOK' /\ TasksOK' /\ ListsOK' /\ TablesOK' /\ InsertInRange'
    BY <1>7 DEF Broadcast, ObjectsOK, TasksOK, ListsOK, TablesOK, InsertInRange
  <2>2. HandlerOK'
    BY <1>7 DEF Broadcast, HandlerEnds, HandlerOK, MessageSteps
  <2>3. HashOf[vehicle[captured]] \in {HashOf[v] : v \in Vehicles}
    BY <1>7 DEF Broadcast, HandlerOK, ObjectsOK
  <2>4. EnvironmentOK'
    BY <1>7, <2>3 DEF Broadcast, Toggled, EnvironmentOK
  <2> QED BY <2>1, <2>2, <2>4
<1> QED
  BY <1>1, <1>2, <1>3, <1>4, <1>5, <1>6, <1>7 DEF MessageThread

\* The steps of the grace tasks.
LEMMA TypeTask == ASSUME NEW o \in Objects PROVE TypeInv /\ GraceTask(o) => TypeInv'
<1> USE DEF TypeInv, TypeOK
<1> SUFFICES ASSUME TypeInv, GraceTask(o) PROVE TypeInv'
  OBVIOUS
<1> TaskFrame
  BY DEF GraceTask, GraceEnds, StoreViolation, RemoveTagged, ReadRecentSize, InsertRecent
<1>1. EnvironmentOK'
  BY DEF TaskFrame, EnvironmentOK
<1>2. task[o] # "unborn" /\ \E t \in TaskSteps \ {"unborn"} : task' = [task EXCEPT ![o] = t]
  BY DEF GraceTask, GraceEnds, StoreViolation, RemoveTagged, ReadRecentSize,
     InsertRecent, TaskSteps
<1>3. HandlerOK'
  BY <1>2 DEF TaskFrame, HandlerOK, TasksOK
<1>4. ObjectsOK'
  BY <1>2 DEF TaskFrame, ObjectsOK, TasksOK
<1>5. CASE InsertRecent(o)
  <2>1. index[o] \in Nat /\ index[o] <= Len(recentVehicles)
    BY <1>5 DEF InsertRecent, InsertInRange, TasksOK
  <2>2. /\ recentVehicles' \in Seq(Objects)
        /\ Len(recentVehicles') = Len(recentVehicles) + 1
    BY <1>5, <2>1, InsertAtType DEF InsertRecent, ListsOK
  <2>3. TasksOK' /\ TablesOK'
    BY <1>5 DEF InsertRecent, TaskFrame, TasksOK, TaskSteps, TablesOK
  <2>4. ListsOK'
    BY <1>5, <2>2 DEF InsertRecent, ListsOK, TasksOK
  <2>5. Len(recentVehicles) \in Nat
    BY LenProperties DEF ListsOK
  <2>6. InsertInRange'
    BY <1>5, <2>2, <2>5 DEF InsertRecent, InsertInRange, TasksOK
  <2> QED BY <1>1, <1>3, <1>4, <2>3, <2>4, <2>6
<1>6. CASE ReadRecentSize(o)
  <2>1. Len(recentVehicles) \in Nat
    BY LenProperties DEF ListsOK
  <2>2. TasksOK' /\ ListsOK' /\ TablesOK' /\ InsertInRange'
    BY <1>6, <2>1 DEF ReadRecentSize, TaskFrame, TasksOK, TaskSteps, ListsOK, TablesOK,
       InsertInRange
  <2> QED BY <1>1, <1>3, <1>4, <2>2
<1>7. CASE GraceEnds(o) \/ StoreViolation(o) \/ RemoveTagged(o)
  <2>1. TasksOK'
    BY <1>2, <1>7 DEF GraceEnds, StoreViolation, RemoveTagged, TaskFrame, TasksOK
  <2>2. ListsOK' /\ recentVehicles' = recentVehicles
    BY <1>7 DEF GraceEnds, StoreViolation, RemoveTagged, RemoveActive, ListsOK, TasksOK
  <2>3. TablesOK'
    BY <1>7 DEF GraceEnds, StoreViolation, RemoveTagged, TablesOK, EnvironmentOK
  <2>4. index' = index /\ task'[o] # "insert" /\ \A x \in Objects \ {o} : task'[x] = task[x]
    BY <1>7 DEF GraceEnds, StoreViolation, RemoveTagged, TasksOK
  <2>5. InsertInRange'
    BY <2>2, <2>4 DEF InsertInRange
  <2> QED BY <1>1, <1>3, <1>4, <2>1, <2>2, <2>3, <2>5
<1> QED BY <1>5, <1>6, <1>7 DEF GraceTask

\* Every step keeps the types.
LEMMA TypeStep == TypeInv /\ [Next]_vars => TypeInv'
<1> SUFFICES ASSUME TypeInv, [Next]_vars PROVE TypeInv'
  OBVIOUS
<1> USE DEF TypeInv, TypeOK
<1>1. CASE ShutdownScheduler
  BY <1>1 DEF ShutdownScheduler, EnvironmentOK, HandlerOK, ObjectsOK, TasksOK, TaskSteps,
     ListsOK, TablesOK, InsertInRange
<1>2. CASE Restart
  <2>1. EnvironmentOK' /\ ListsOK' /\ TablesOK'
    BY <1>2 DEF Restart, EnvironmentOK, ListsOK, TablesOK
  <2>2. HandlerOK' /\ TasksOK' /\ InsertInRange'
    BY <1>2 DEF Restart, HandlerEnds, InProgress, HandlerOK, MessageSteps, TasksOK,
       TaskSteps, InsertInRange
  <2>3. \A x \in Objects : task'[x] # "unborn" => task[x] # "unborn"
    BY <1>2 DEF Restart, InProgress, TasksOK, ListsOK, HandlerOK
  <2>4. ObjectsOK'
    BY <1>2, <2>3 DEF Restart, ObjectsOK
  <2> QED BY <2>1, <2>2, <2>4
<1>3. CASE UNCHANGED vars
  BY <1>3 DEF vars, EnvironmentOK, HandlerOK, ObjectsOK, TasksOK, ListsOK, TablesOK,
     InsertInRange
<1> QED
  BY <1>1, <1>2, <1>3, TypeWorld, TypeHandler, TypeTask DEF Next

(* One active object per vehicle.  Between the check of line 137 and the   *)
(* add of line 143 the message thread runs two queries; what makes the     *)
(* check still true at the add is that grace tasks only remove.            *)

EntryIsFree ==
    mpc \in {"dateQuery", "timeQuery", "add"} => ~IsActive(captured)

UniqueInv == TypeInv /\ OneActivePerVehicle /\ EntryIsFree

\* Every step keeps plates unique among the active, an entry in progress
\* included.
LEMMA UniqueStep == UniqueInv /\ [Next]_vars => OneActivePerVehicle' /\ EntryIsFree'
<1> USE DEF UniqueInv, TypeInv, TypeOK
<1> SUFFICES ASSUME UniqueInv, [Next]_vars PROVE OneActivePerVehicle' /\ EntryIsFree'
  OBVIOUS
<1> DEFINE goal == OneActivePerVehicle' /\ EntryIsFree'
<1>1. ASSUME UNCHANGED <<activeVehicles, vehicle, mpc, captured>> PROVE goal
  BY <1>1 DEF OneActivePerVehicle, EntryIsFree, IsActive, Same
<1>2. ASSUME activeVehicles' \subseteq activeVehicles, vehicle' = vehicle,
             \/ mpc' \notin {"dateQuery", "timeQuery", "add"}
             \/ UNCHANGED <<mpc, captured>>
      PROVE goal
  BY <1>2 DEF OneActivePerVehicle, EntryIsFree, IsActive, Same
<1>3. CASE World \/ InsertDatePass \/ InsertTimePass \/ UNCHANGED vars
  BY <1>1, <1>3 DEF World, Tick, VehiclePasses, PassIssued, InsertDatePass,
     InsertTimePass, vars
<1>4. CASE ProcessImage
  <2>1. \A a \in activeVehicles : vehicle'[a] = vehicle[a]
    BY <1>4 DEF ProcessImage, Unborn, ListsOK, ObjectsOK
  <2>2. activeVehicles' = activeVehicles /\ mpc' \in {"idle", "check"}
    BY <1>4 DEF ProcessImage
  <2> QED BY <2>1, <2>2 DEF OneActivePerVehicle, EntryIsFree, Same
<1>5. CASE CheckActive
  BY <1>5 DEF CheckActive, OneActivePerVehicle, EntryIsFree, IsActive, Same
<1>6. CASE QueryDatePass \/ QueryTimePass
  BY <1>6 DEF QueryDatePass, QueryTimePass, HandlerEnds, OneActivePerVehicle,
     EntryIsFree, IsActive, Same
<1>7. CASE AddActive
  <2>1. /\ ~IsActive(captured)
        /\ activeVehicles' = activeVehicles \cup {captured}
        /\ vehicle' = vehicle /\ mpc' = "schedule"
    BY <1>7 DEF AddActive, EntryIsFree
  <2> QED BY <2>1 DEF OneActivePerVehicle, EntryIsFree, IsActive, Same
<1>8. CASE ScheduleGrace \/ RemoveLeaving \/ Broadcast
  BY <1>2, <1>8 DEF ScheduleGrace, RemoveLeaving, Broadcast, RemoveActive, HandlerEnds
<1>9. ASSUME NEW o \in Objects, GraceTask(o) PROVE goal
  BY <1>2, <1>9 DEF GraceTask, GraceEnds, StoreViolation, RemoveTagged, ReadRecentSize,
     InsertRecent, TaskFrame, RemoveActive
<1>10. CASE ShutdownScheduler \/ Restart
  BY <1>2, <1>10 DEF ShutdownScheduler, Restart, HandlerEnds
<1> QED
  BY <1>3, <1>4, <1>5, <1>6, <1>7, <1>8, <1>9, <1>10 DEF Next, MessageThread

(* Every active object has a task.  A task removes an object equal to its  *)
(* own; it is its own one because there is no other.                       *)

EntryHasNoTask ==
    mpc \in {"check", "dateQuery", "timeQuery", "add", "schedule"}
    => task[captured] = "none"

WatchedInv == UniqueInv /\ EntryHasNoTask /\ ActiveIsWatched

\* Every step keeps each active object watched.
LEMMA WatchedStep == WatchedInv /\ [Next]_vars => EntryHasNoTask' /\ ActiveIsWatched'
<1> USE DEF WatchedInv, UniqueInv, TypeInv, TypeOK
<1> SUFFICES ASSUME WatchedInv, [Next]_vars PROVE EntryHasNoTask' /\ ActiveIsWatched'
  OBVIOUS
<1> DEFINE goal == EntryHasNoTask' /\ ActiveIsWatched'
<1>1. CASE World \/ InsertDatePass \/ InsertTimePass \/ UNCHANGED vars
  <2>1. /\ UNCHANGED <<captured, task, activeVehicles, schedulerUp>>
        /\ UNCHANGED mpc
    BY <1>1 DEF World, Tick, VehiclePasses, PassIssued, InsertDatePass, InsertTimePass, vars
  <2> QED BY <2>1 DEF EntryHasNoTask, ActiveIsWatched
<1>2. CASE ProcessImage
  <2>1. \A a \in activeVehicles : task'[a] = task[a]
    BY <1>2 DEF ProcessImage, Unborn, ListsOK, TasksOK
  <2>2. mpc = "idle" /\ UNCHANGED <<activeVehicles, schedulerUp>>
    BY <1>2 DEF ProcessImage
  <2>3. EntryHasNoTask'
    BY <1>2 DEF ProcessImage, EntryHasNoTask, Unborn, TasksOK
  <2> QED BY <2>1, <2>2, <2>3 DEF ActiveIsWatched
<1>3. CASE CheckActive \/ QueryDatePass \/ QueryTimePass
  BY <1>3 DEF CheckActive, QueryDatePass, QueryTimePass, HandlerEnds, EntryHasNoTask,
     ActiveIsWatched
<1>4. CASE AddActive
  BY <1>4 DEF AddActive, EntryHasNoTask, ActiveIsWatched
<1>5. CASE ScheduleGrace
  <2>1. captured \in Objects /\ task[captured] = "none"
    BY <1>5 DEF ScheduleGrace, HandlerOK, EntryHasNoTask
  <2>2. EntryHasNoTask'
    BY <1>5 DEF ScheduleGrace, HandlerEnds, EntryHasNoTask
  <2>3. ActiveIsWatched'
    BY <1>5, <2>1 DEF ScheduleGrace, HandlerEnds, ActiveIsWatched, TasksOK, ListsOK
  <2> QED BY <2>2, <2>3
<1>6. CASE RemoveLeaving \/ Broadcast
  BY <1>6 DEF RemoveLeaving, Broadcast, RemoveActive, HandlerEnds, EntryHasNoTask,
     ActiveIsWatched
<1>7. ASSUME NEW o \in Objects, GraceTask(o) PROVE goal
  <2>1. /\ task[o] # "none" /\ UNCHANGED <<mpc, captured, schedulerUp, vehicle>>
        /\ \A x \in Objects \ {o} : task'[x] = task[x]
    BY <1>7 DEF GraceTask, GraceEnds, StoreViolation, RemoveTagged, ReadRecentSize,
       InsertRecent, TaskFrame, TasksOK
  <2>2. EntryHasNoTask'
    BY <2>1 DEF EntryHasNoTask, HandlerOK
  <2>3. activeVehicles' \subseteq activeVehicles /\ activeVehicles \subseteq Objects
    BY <1>7 DEF GraceTask, GraceEnds, StoreViolation, RemoveTagged, ReadRecentSize,
       InsertRecent, RemoveActive, ListsOK
  <2>4. o \in activeVehicles' => task'[o] \in {"waiting", "store", "remove", "died"}
    <3>1. CASE GraceEnds(o)
      BY <3>1, <2>3 DEF GraceEnds, IsActive, Same, TasksOK
    <3>2. CASE StoreViolation(o)
      BY <3>2 DEF StoreViolation, TasksOK
    <3>3. CASE RemoveTagged(o)
      <4>1. o \notin activeVehicles'
        BY <3>3 DEF RemoveTagged, RemoveActive, IsActive, OneActivePerVehicle, Same
      <4> QED BY <4>1
    <3>4. CASE ReadRecentSize(o) \/ InsertRecent(o)
      <4>1. o \notin activeVehicles
        BY <3>4, <2>1 DEF ReadRecentSize, InsertRecent, ActiveIsWatched
      <4> QED BY <2>3, <4>1
    <3> QED BY <1>7, <3>1, <3>2, <3>3, <3>4 DEF GraceTask
  <2>5. ActiveIsWatched'
    BY <2>1, <2>3, <2>4 DEF ActiveIsWatched
  <2> QED BY <2>2, <2>5
<1>8. CASE ShutdownScheduler
  BY <1>8 DEF ShutdownScheduler, EntryHasNoTask, ActiveIsWatched, TasksOK, ListsOK,
     HandlerOK
<1>9. CASE Restart
  BY <1>9 DEF Restart, HandlerEnds, EntryHasNoTask, ActiveIsWatched
<1> QED
  BY <1>1, <1>2, <1>3, <1>4, <1>5, <1>6, <1>7, <1>8, <1>9 DEF Next, MessageThread

(* No violation before its date.  The delay of a task counts from a moment *)
(* after the object was made, so the deadline is never before its grace.   *)

TimingInv ==
    /\ mpc # "idle" => entryDate[captured] <= now
    /\ \A o \in Objects : task[o] = "waiting" => due[o] >= GraceEndDate(o)
    /\ \A o \in Objects : task[o] = "store" => now >= GraceEndDate(o)
    /\ \A r \in violations : task[r.visit] # "unborn"
    /\ NoEarlyViolation

\* Every step keeps deadlines at or after the end of grace.
LEMMA TimingStep == TypeInv /\ TimingInv /\ [Next]_vars => TimingInv'
<1> USE DEF TypeInv, TypeOK
<1> SUFFICES ASSUME TypeInv, TimingInv, [Next]_vars PROVE TimingInv'
  OBVIOUS
<1>0. \A o \in Objects : GraceEndDate(o) \in Nat
  BY TrackingAssumption DEF ObjectsOK, GraceEndDate
<1>1. ASSUME now' \in Nat, now' >= now, UNCHANGED <<entryDate, due, violations>>,
             \/ mpc' = "idle"
             \/ mpc # "idle" /\ captured' = captured,
             \A o \in Objects :
                /\ task[o] # "unborn" => task'[o] # "unborn"
                /\ task'[o] \in {"waiting", "store"} => task'[o] = task[o]
      PROVE TimingInv'
  BY <1>0, <1>1 DEF TimingInv, NoEarlyViolation, GraceEndDate, EnvironmentOK, HandlerOK,
     ObjectsOK, TasksOK, TablesOK
<1>2. CASE World \/ UNCHANGED vars
  <2>1. now' = now \/ now' = now + 1
    BY <1>2 DEF World, Tick, VehiclePasses, PassIssued, vars
  <2>2. UNCHANGED <<mpc, captured, entryDate, due, violations, task>>
    BY <1>2 DEF World, Tick, VehiclePasses, PassIssued, vars
  <2> QED BY <1>0, <2>1, <2>2 DEF TimingInv, NoEarlyViolation, GraceEndDate, EnvironmentOK, HandlerOK,
     ObjectsOK, TasksOK, TablesOK
<1>3. CASE InsertDatePass \/ InsertTimePass \/ CheckActive \/ QueryDatePass
           \/ QueryTimePass \/ AddActive \/ RemoveLeaving \/ Broadcast
  <2>1. UNCHANGED <<now, entryDate, due, violations, task>>
    BY <1>3 DEF InsertDatePass, InsertTimePass, CheckActive, QueryDatePass, QueryTimePass,
       AddActive, RemoveLeaving, Broadcast
  <2>2. mpc' = "idle" \/ (mpc # "idle" /\ captured' = captured)
    BY <1>3 DEF InsertDatePass, InsertTimePass, CheckActive, QueryDatePass, QueryTimePass,
       AddActive, RemoveLeaving, Broadcast, HandlerEnds
  <2> QED BY <2>1, <2>2 DEF TimingInv, NoEarlyViolation, GraceEndDate
<1>4. CASE ProcessImage
  <2>1. UNCHANGED <<now, due, violations>>
    BY <1>4 DEF ProcessImage
  <2>2. CASE UNCHANGED <<mpc, captured, objects, task>>
    BY <2>1, <2>2 DEF TimingInv, NoEarlyViolation, GraceEndDate
  <2>3. CASE \E o \in Unborn :
               /\ captured' = o
               /\ entryDate' = [entryDate EXCEPT ![o] = now]
               /\ task' = [task EXCEPT ![o] = "none"]
    <3>1. PICK o \in Unborn :
               /\ captured' = o
               /\ entryDate' = [entryDate EXCEPT ![o] = now]
               /\ task' = [task EXCEPT ![o] = "none"]
      BY <2>3
    <3>2. o \in Objects /\ task[o] = "unborn" /\ entryDate'[o] = now /\ task'[o] = "none"
      BY <3>1 DEF Unborn, ObjectsOK, TasksOK
    <3>3. \A x \in Objects \ {o} : entryDate'[x] = entryDate[x] /\ task'[x] = task[x]
      BY <3>1 DEF ObjectsOK, TasksOK
    <3>4. \A r \in violations : r.visit \in Objects \ {o}
      BY <3>2 DEF TimingInv, TablesOK
    <3>5. entryDate'[captured'] <= now'
      BY <2>1, <3>1, <3>2 DEF EnvironmentOK
    <3> QED BY <2>1, <3>2, <3>3, <3>4, <3>5 DEF TimingInv, NoEarlyViolation, GraceEndDate
  <2> QED BY <1>4, <2>2, <2>3 DEF ProcessImage
<1>5. CASE ScheduleGrace
  <2>1. captured \in Objects /\ entryDate[captured] <= now
    BY <1>5 DEF ScheduleGrace, HandlerOK, TimingInv
  <2>2. UNCHANGED <<now, entryDate, violations>>
    BY <1>5 DEF ScheduleGrace
  <2>3. CASE schedulerUp
    <3>1. now + Grace + timePass >= GraceEndDate(captured)
      <4>1. now \in Nat /\ entryDate[captured] \in Nat
        BY <2>1 DEF ObjectsOK, EnvironmentOK
      <4>2. timePass \in Nat /\ Grace \in Nat
        <5>1. timePass \in PassHours \cup {0}
          BY DEF HandlerOK
        <5> QED BY <5>1, TrackingAssumption
      <4> QED BY <2>1, <4>1, <4>2 DEF GraceEndDate
    <3>2. /\ task'[captured] = "waiting" /\ due'[captured] = now + Grace + timePass
          /\ \A x \in Objects \ {captured} : task'[x] = task[x] /\ due'[x] = due[x]
          /\ captured' = captured
      BY <1>5, <2>1, <2>3 DEF ScheduleGrace, TasksOK
    <3> QED BY <1>5, <2>1, <2>2, <3>1, <3>2
         DEF ScheduleGrace, TimingInv, NoEarlyViolation, GraceEndDate, TablesOK
  <2>4. CASE ~schedulerUp
    <3>1. /\ task'[captured] = "rejected" /\ due' = due /\ mpc' = "idle"
          /\ \A x \in Objects \ {captured} : task'[x] = task[x]
      BY <1>5, <2>1, <2>4 DEF ScheduleGrace, TasksOK, HandlerEnds
    <3>2. \A x \in Objects : /\ task[x] # "unborn" => task'[x] # "unborn"
                             /\ task'[x] \in {"waiting", "store"} => task'[x] = task[x]
      BY <3>1
    <3> QED BY <1>1, <2>2, <3>1, <3>2 DEF EnvironmentOK
  <2> QED BY <2>3, <2>4
<1>6. ASSUME NEW o \in Objects, GraceTask(o) PROVE TimingInv'
  <2>1. UNCHANGED <<now, mpc, captured, entryDate>>
    BY <1>6 DEF GraceTask, GraceEnds, StoreViolation, RemoveTagged, ReadRecentSize,
       InsertRecent, TaskFrame
  <2>2. /\ \A x \in Objects \ {o} : task'[x] = task[x] /\ due'[x] = due[x]
        /\ task'[o] \notin {"unborn", "waiting"}
    BY <1>6 DEF GraceTask, GraceEnds, StoreViolation, RemoveTagged, ReadRecentSize,
       InsertRecent, TasksOK
  <2>3. task'[o] = "store" => now >= GraceEndDate(o)
    <3>1. CASE GraceEnds(o)
      <4>1. now >= due[o] /\ due[o] >= GraceEndDate(o)
        BY <3>1 DEF GraceEnds, TimingInv
      <4> QED BY <1>0, <4>1 DEF EnvironmentOK, TasksOK
    <3>2. CASE ~GraceEnds(o)
      BY <1>6, <3>2 DEF GraceTask, StoreViolation, RemoveTagged, ReadRecentSize,
         InsertRecent, TasksOK
    <3> QED BY <3>1, <3>2
  <2>4. \A r \in violations' : r \in violations \/ (r = [visit |-> o, at |-> now] /\ task[o] = "store")
    BY <1>6 DEF GraceTask, GraceEnds, StoreViolation, RemoveTagged, ReadRecentSize,
       InsertRecent
  <2>5. \A r \in violations' : r.visit \in Objects /\ task'[r.visit] # "unborn" /\ r.at >= GraceEndDate(r.visit)
    BY <2>2, <2>4 DEF TimingInv, NoEarlyViolation, TablesOK
  <2> QED BY <2>1, <2>2, <2>3, <2>5 DEF TimingInv, NoEarlyViolation, GraceEndDate
<1>7. CASE ShutdownScheduler
  <2>1. \A o \in Objects :
           /\ task[o] # "unborn" => task'[o] # "unborn"
           /\ task'[o] \in {"waiting", "store"} => task'[o] = task[o]
    BY <1>7 DEF ShutdownScheduler, TasksOK
  <2> QED BY <1>1, <1>7, <2>1 DEF ShutdownScheduler, TimingInv, NoEarlyViolation, GraceEndDate, EnvironmentOK
<1>8. CASE Restart
  <2>1. \A o \in Objects :
           /\ task[o] # "unborn" => task'[o] # "unborn"
           /\ task'[o] \in {"waiting", "store"} => task'[o] = task[o]
    BY <1>8 DEF Restart, TasksOK
  <2> QED BY <1>1, <1>8, <2>1 DEF Restart, HandlerEnds, EnvironmentOK
<1> QED
  BY <1>2, <1>3, <1>4, <1>5, <1>6, <1>7, <1>8 DEF Next, MessageThread

(* The theorems.                                                           *)

\* Types are kept, and List.add in a grace task (Server.java:157) never gets
\* an index past the end, however many tasks read the size before it.
THEOREM TypesAreKept == Spec => [](TypeOK /\ InsertInRange)
<1>1. TypeInv => TypeOK /\ InsertInRange
  BY DEF TypeInv
<1> QED BY TypeInit, TypeStep, <1>1, PTL DEF Spec

\* Nothing is active at first, so nothing is unwatched.
LEMMA WatchedInit == Init => WatchedInv
<1> SUFFICES ASSUME Init PROVE WatchedInv
  OBVIOUS
<1>1. TypeInv
  BY TypeInit
<1> QED BY <1>1 DEF Init, WatchedInv, UniqueInv, OneActivePerVehicle, EntryIsFree,
        EntryHasNoTask, ActiveIsWatched

\* The three invariants that build on each other, together.
LEMMA WatchedInvariant == Spec => []WatchedInv
<1>1. WatchedInv /\ [Next]_vars => WatchedInv'
  BY TypeStep, UniqueStep, WatchedStep DEF WatchedInv, UniqueInv
<1> QED BY WatchedInit, <1>1, PTL DEF Spec

\* A plate/lot is active at most once (Server.java:137-143 against 156).
THEOREM ActiveVehiclesAreUnique == Spec => []OneActivePerVehicle
<1>1. WatchedInv => OneActivePerVehicle
  BY DEF WatchedInv, UniqueInv
<1> QED BY WatchedInvariant, <1>1, PTL

\* No vehicle is active without a task to end its grace period, unless the
\* scheduler is down or the task died (Server.java:143-160).
THEOREM ActiveVehiclesAreWatched == Spec => []ActiveIsWatched
<1>1. WatchedInv => ActiveIsWatched
  BY DEF WatchedInv
<1> QED BY WatchedInvariant, <1>1, PTL

\* No violation is stored before the date it carries (Server.java:154 and
\* JDBCDatabase.java:251).
THEOREM ViolationsAreNotEarly == Spec => []NoEarlyViolation
<1>1. Init => TypeInv /\ TimingInv
  <2> SUFFICES ASSUME Init PROVE TypeInv /\ TimingInv
    OBVIOUS
  <2>1. TypeInv
    BY TypeInit
  <2> QED BY <2>1 DEF Init, TimingInv, NoEarlyViolation
<1>2. TypeInv /\ TimingInv /\ [Next]_vars => TypeInv' /\ TimingInv'
  BY TypeStep, TimingStep
<1>3. TimingInv => NoEarlyViolation
  BY DEF TimingInv
<1> QED BY <1>1, <1>2, <1>3, PTL DEF Spec

\* A step from "leave" to "broadcast" removes the only equal element.
LEMMA LeavingStep ==
    OneActivePerVehicle /\ [Next]_vars
    => [mpc = "leave" /\ mpc' = "broadcast" =>
           \A a \in activeVehicles' : ~Same(a, captured)]_vars
<1> SUFFICES ASSUME OneActivePerVehicle, [Next]_vars,
                    mpc = "leave", mpc' = "broadcast"
             PROVE  \A a \in activeVehicles' : ~Same(a, captured)
  OBVIOUS
<1>1. RemoveLeaving
  <2>1. ~UNCHANGED vars
    BY DEF vars
  <2>2. ~(World \/ ShutdownScheduler)
    BY DEF World, Tick, VehiclePasses, PassIssued, ShutdownScheduler
  <2>3. ~Restart
    BY DEF Restart, HandlerEnds
  <2>4. \A o \in Objects : ~GraceTask(o)
    BY DEF GraceTask, GraceEnds, StoreViolation, RemoveTagged, ReadRecentSize,
       InsertRecent, TaskFrame
  <2>5. MessageThread
    BY <2>1, <2>2, <2>3, <2>4 DEF Next
  <2> QED BY <2>5 DEF MessageThread, InsertDatePass, InsertTimePass, ProcessImage,
        CheckActive, QueryDatePass, QueryTimePass, AddActive, ScheduleGrace, Broadcast
<1> QED
  BY <1>1 DEF RemoveLeaving, RemoveActive, IsActive, OneActivePerVehicle, Same

\* After a photograph taken as leaving, nothing of that plate/lot is active
\* (Server.java:170), whatever grace tasks removed since the check.
THEOREM LeavingForgets == Spec => LeavingIsForgotten
<1> QED BY ActiveVehiclesAreUnique, LeavingStep, PTL DEF Spec, LeavingIsForgotten

(* Passes.  Nothing but the message thread writes the tables of passes, so *)
(* a row is at the add what it was at the query.                           *)

PassInv ==
    /\ mpc = "timeQuery" => platePass = datePasses[vehicle[captured]]
    /\ mpc = "add" => LET d == datePasses[vehicle[captured]] IN d # Null => d <= now

\* Every step keeps the row of the query in agreement with the table, when queries
\* do not fail.
LEMMA PassStep ==
    ASSUME "sql" \notin Faults
    PROVE  TypeInv /\ PassInv /\ [Next]_vars => PassInv'
<1> SUFFICES ASSUME TypeInv, PassInv, [Next]_vars PROVE PassInv'
  OBVIOUS
<1> USE DEF TypeInv, TypeOK
<1>1. ASSUME mpc' \notin {"timeQuery", "add"} PROVE PassInv'
  BY <1>1 DEF PassInv
<1>2. ASSUME mpc' = mpc, UNCHANGED <<now, captured, platePass, datePasses, vehicle>>
      PROVE  PassInv'
  BY <1>2 DEF PassInv
<1>3. CASE Tick
  <2>1. now' = now + 1 /\ UNCHANGED <<mpc, captured, platePass, datePasses, vehicle>>
    BY <1>3 DEF Tick
  <2>2. ASSUME mpc = "add", datePasses[vehicle[captured]] # Null
        PROVE  datePasses[vehicle[captured]] <= now + 1
    <3>1. datePasses[vehicle[captured]] \in PassDates /\ now \in Nat
      BY <2>2 DEF EnvironmentOK, HandlerOK, ObjectsOK, TablesOK
    <3>2. datePasses[vehicle[captured]] \in Nat /\ datePasses[vehicle[captured]] <= now
      BY <2>2, <3>1, TrackingAssumption DEF PassInv
    <3> QED BY <3>1, <3>2
  <2> QED BY <2>1, <2>2 DEF PassInv
<1>4. CASE \/ \E v \in Vehicles : VehiclePasses(v) \/ PassIssued(v)
           \/ ShutdownScheduler \/ UNCHANGED vars
  BY <1>2, <1>4 DEF VehiclePasses, PassIssued, ShutdownScheduler, vars
<1>5. CASE InsertDatePass \/ InsertTimePass \/ CheckActive \/ AddActive \/ RemoveLeaving
           \/ Broadcast \/ Restart
  BY <1>1, <1>5 DEF InsertDatePass, InsertTimePass, CheckActive, AddActive,
     RemoveLeaving, Broadcast, Restart, HandlerEnds
<1>6. CASE ProcessImage \/ ScheduleGrace
  BY <1>1, <1>6 DEF ProcessImage, ScheduleGrace, HandlerEnds
<1>7. CASE QueryDatePass
  BY <1>7 DEF QueryDatePass, SqlFails, PassInv
<1>8. CASE QueryTimePass
  BY <1>8 DEF QueryTimePass, NoDatePass, HandlerEnds, PassInv
<1>9. ASSUME NEW o \in Objects, GraceTask(o) PROVE PassInv'
  BY <1>2, <1>9 DEF GraceTask, GraceEnds, StoreViolation, RemoveTagged, ReadRecentSize,
     InsertRecent, TaskFrame
<1> QED
  BY <1>3, <1>4, <1>5, <1>6, <1>7, <1>8, <1>9 DEF Next, World, MessageThread

\* A vehicle whose date pass is valid in the table is not made active, although the
\* table was read two queries earlier (Server.java:139-143), unless queries fail.
THEOREM PassesCount ==
    ASSUME "sql" \notin Faults
    PROVE  Spec => PassHonoured
<1>1. Init => TypeInv /\ PassInv
  BY TypeInit DEF Init, PassInv
<1>2. TypeInv /\ PassInv /\ [Next]_vars => TypeInv' /\ PassInv'
  BY TypeStep, PassStep
<1>3. TypeInv /\ PassInv /\ [Next]_vars
      => [\A o \in activeVehicles' \ activeVehicles :
             LET d == datePasses[vehicle[o]] IN d # Null => d <= now]_vars
  <2> SUFFICES ASSUME PassInv, [Next]_vars, NEW o \in activeVehicles' \ activeVehicles
               PROVE  LET d == datePasses[vehicle[o]] IN d # Null => d <= now
    OBVIOUS
  <2>1. AddActive
    <3>1. ~(World \/ UNCHANGED vars \/ ShutdownScheduler \/ Restart)
      BY DEF World, Tick, VehiclePasses, PassIssued, vars, ShutdownScheduler, Restart
    <3>2. \A x \in Objects : ~GraceTask(x)
      BY DEF GraceTask, GraceEnds, StoreViolation, RemoveTagged, ReadRecentSize,
         InsertRecent, RemoveActive
    <3>3. MessageThread
      BY <3>1, <3>2 DEF Next
    <3> QED BY <3>3 DEF MessageThread, InsertDatePass, InsertTimePass, ProcessImage,
          CheckActive, QueryDatePass, QueryTimePass, ScheduleGrace, RemoveLeaving,
          RemoveActive, Broadcast
  <2> QED BY <2>1 DEF AddActive, PassInv
<1> QED BY <1>1, <1>2, <1>3, PTL DEF Spec, PassHonoured

(* The view of a client.  Each photograph toggles the vehicle in the table *)
(* of a client and in activeVehicles, and only grace tasks disturb that.   *)

Calm == schedulerUp /\ \A o \in Objects : task[o] \in {"unborn", "none", "waiting"}
Hashes == {HashOf[vehicle[a]] : a \in activeVehicles}

ViewInv ==
    Calm =>
       /\ mpc \notin {"schedule", "broadcast"} => shown = Hashes
       /\ mpc \in {"schedule", "broadcast"} =>
             Toggled(shown, HashOf[vehicle[captured]]) = Hashes
       /\ mpc = "leave" => IsActive(captured)

\* Every step keeps the view in agreement with the list, when no broadcast fails.
LEMMA ViewStep ==
    ASSUME "cme" \notin Faults
    PROVE  WatchedInv /\ ViewInv /\ [Next]_vars => ViewInv'
<1> SUFFICES ASSUME WatchedInv, ViewInv, [Next]_vars, Calm' PROVE ViewInv'
  BY DEF ViewInv
<1> USE DEF WatchedInv, UniqueInv, TypeInv, TypeOK
<1>1. ASSUME UNCHANGED <<mpc, captured, vehicle, activeVehicles, shown>>, Calm
      PROVE  ViewInv'
  BY <1>1 DEF ViewInv, Hashes, IsActive, Same
<1>2. CASE \/ World \/ InsertDatePass \/ InsertTimePass \/ UNCHANGED vars
  <2>1. UNCHANGED <<mpc, captured, vehicle, activeVehicles, shown, task, schedulerUp>>
    BY <1>2 DEF World, Tick, VehiclePasses, PassIssued, InsertDatePass, InsertTimePass, vars
  <2>2. Calm
    BY <2>1 DEF Calm
  <2> QED BY <1>1, <2>1, <2>2
<1>3. CASE ProcessImage
  <2>1. /\ UNCHANGED <<activeVehicles, shown, schedulerUp>>
        /\ mpc = "idle" /\ mpc' \in {"idle", "check"}
    BY <1>3 DEF ProcessImage
  <2>2. \A a \in activeVehicles : vehicle'[a] = vehicle[a]
    BY <1>3 DEF ProcessImage, Unborn, ListsOK, ObjectsOK
  <2>3. Calm
    BY <1>3, <2>1 DEF ProcessImage, Unborn, TasksOK, Calm
  <2> QED BY <2>1, <2>2, <2>3 DEF ViewInv, Hashes
<1>4. CASE CheckActive \/ QueryDatePass \/ QueryTimePass
  <2>1. /\ UNCHANGED <<activeVehicles, vehicle, shown, schedulerUp, task>>
        /\ mpc \notin {"schedule", "broadcast"} /\ mpc' \notin {"schedule", "broadcast"}
        /\ mpc' = "leave" => IsActive(captured) /\ captured' = captured
    BY <1>4 DEF CheckActive, QueryDatePass, QueryTimePass, HandlerEnds
  <2>2. Calm
    BY <2>1 DEF Calm
  <2> QED BY <2>1, <2>2 DEF ViewInv, Hashes, IsActive, Same
<1>5. CASE AddActive
  <2>1. /\ UNCHANGED <<vehicle, shown, schedulerUp, task, captured>>
        /\ mpc = "add" /\ mpc' = "schedule"
        /\ activeVehicles' = activeVehicles \cup {captured}
    BY <1>5 DEF AddActive
  <2>2. Calm
    BY <2>1 DEF Calm
  <2>3. shown = Hashes /\ HashOf[vehicle[captured]] \notin Hashes
    BY <2>1, <2>2 DEF ViewInv, EntryIsFree, IsActive, Same, Hashes
  <2>4. Hashes' = Hashes \cup {HashOf[vehicle[captured]]}
    BY <2>1 DEF Hashes
  <2> QED BY <2>1, <2>3, <2>4 DEF ViewInv, Toggled
<1>6. CASE ScheduleGrace
  <2>1. /\ UNCHANGED <<activeVehicles, vehicle, shown, schedulerUp>>
        /\ captured \in Objects /\ task[captured] = "none" /\ mpc = "schedule"
    BY <1>6 DEF ScheduleGrace, HandlerOK, EntryHasNoTask
  <2>2. schedulerUp /\ mpc' = "broadcast" /\ captured' = captured
    BY <1>6, <2>1 DEF ScheduleGrace, Calm
  <2>3. Calm
    BY <1>6, <2>1, <2>2 DEF ScheduleGrace, Calm, TasksOK
  <2> QED BY <2>1, <2>2, <2>3 DEF ViewInv, Hashes
<1>7. CASE RemoveLeaving
  <2>1. /\ UNCHANGED <<vehicle, shown, schedulerUp, task, captured>>
        /\ mpc = "leave" /\ mpc' = "broadcast" /\ RemoveActive(captured)
    BY <1>7 DEF RemoveLeaving
  <2>2. Calm
    BY <2>1 DEF Calm
  <2>3. IsActive(captured) /\ shown = Hashes
    BY <2>1, <2>2 DEF ViewInv
  <2>4. PICK a \in activeVehicles : Same(a, captured) /\ activeVehicles' = activeVehicles \ {a}
    BY <2>1, <2>3 DEF RemoveActive
  <2>5. \A b \in activeVehicles : HashOf[vehicle[b]] = HashOf[vehicle[captured]] => b = a
    BY <2>4 DEF OneActivePerVehicle, Same
  <2>6. /\ HashOf[vehicle[captured]] \in Hashes
        /\ Hashes' = Hashes \ {HashOf[vehicle[captured]]}
    BY <2>1, <2>4, <2>5 DEF Hashes, Same
  <2> QED BY <2>1, <2>3, <2>6 DEF ViewInv, Toggled
<1>8. CASE Broadcast
  <2>1. /\ UNCHANGED <<activeVehicles, vehicle, schedulerUp, task>>
        /\ mpc = "broadcast" /\ mpc' = "idle"
        /\ shown' = Toggled(shown, HashOf[vehicle[captured]])
    BY <1>8 DEF Broadcast, HandlerEnds
  <2>2. Calm
    BY <2>1 DEF Calm
  <2> QED BY <2>1, <2>2 DEF ViewInv, Hashes
<1>9. ASSUME NEW o \in Objects, GraceTask(o) PROVE FALSE
  <2>1. task'[o] \notin {"unborn", "none", "waiting"}
    BY <1>9 DEF GraceTask, GraceEnds, StoreViolation, RemoveTagged, ReadRecentSize,
       InsertRecent, TasksOK
  <2> QED BY <2>1 DEF Calm
<1>10. CASE ShutdownScheduler
  BY <1>10 DEF ShutdownScheduler, Calm
<1>11. CASE Restart
  BY <1>11 DEF Restart, HandlerEnds, ViewInv, Hashes
<1> QED
  BY <1>2, <1>3, <1>4, <1>5, <1>6, <1>7, <1>8, <1>9, <1>10, <1>11
     DEF Next, MessageThread

\* A client that toggles a row at each photograph shows what is active, until a grace
\* task acts (Server.java:173-183 and MainForm.java:475), unless a broadcast fails.
THEOREM ClientsFollow ==
    ASSUME "cme" \notin Faults
    PROVE  Spec => []ToggledView
<1>1. Init => WatchedInv /\ ViewInv
  BY WatchedInit DEF Init, ViewInv, Hashes
<1>2. WatchedInv /\ ViewInv /\ [Next]_vars => WatchedInv' /\ ViewInv'
  BY TypeStep, UniqueStep, WatchedStep, ViewStep DEF WatchedInv, UniqueInv
<1>3. ViewInv => ToggledView
  BY DEF ViewInv, ToggledView, Calm, Hashes
<1> QED BY <1>1, <1>2, <1>3, PTL DEF Spec

-----------------------------------------------------------------------------
(* The tracking, with its threads, queries and lists, implements the       *)
(* abstract ledger: every step is a step of the ledger, or none.           *)

\* A task stores a violation once: it never comes back to the step that does.
RecordedInv ==
    \A r \in violations :
       task[r.visit] \notin {"unborn", "none", "waiting", "store"}

LedgerInv == WatchedInv /\ TimingInv /\ RecordedInv

LEMMA RecordedStep == WatchedInv /\ RecordedInv /\ [Next]_vars => RecordedInv'
<1> SUFFICES ASSUME WatchedInv, RecordedInv, [Next]_vars PROVE RecordedInv'
  OBVIOUS
<1> USE DEF WatchedInv, UniqueInv, TypeInv, TypeOK
<1> DEFINE Past(t) == t \notin {"unborn", "none", "waiting", "store"}
<1>1. ASSUME violations' = violations,
             \A o \in Objects : Past(task[o]) => Past(task'[o])
      PROVE  RecordedInv'
  BY <1>1 DEF RecordedInv, TablesOK
<1>2. CASE World \/ UNCHANGED vars
  BY <1>1, <1>2 DEF World, Tick, VehiclePasses, PassIssued, vars
<1>3. CASE InsertDatePass \/ InsertTimePass \/ CheckActive \/ QueryDatePass
           \/ QueryTimePass \/ AddActive \/ RemoveLeaving \/ Broadcast
  BY <1>1, <1>3 DEF InsertDatePass, InsertTimePass, CheckActive, QueryDatePass,
     QueryTimePass, AddActive, RemoveLeaving, Broadcast
<1>4. CASE ProcessImage
  BY <1>1, <1>4 DEF ProcessImage, Unborn, TasksOK
<1>5. CASE ScheduleGrace
  <2>1. violations' = violations
    BY <1>5 DEF ScheduleGrace
  <2>2. captured \in Objects /\ task[captured] = "none"
    BY <1>5 DEF ScheduleGrace, HandlerOK, EntryHasNoTask
  <2>3. \A o \in Objects \ {captured} : task'[o] = task[o]
    BY <1>5 DEF ScheduleGrace, TasksOK
  <2> QED BY <1>1, <2>1, <2>2, <2>3
<1>6. ASSUME NEW o \in Objects, GraceTask(o)
      PROVE  RecordedInv'
  <2>1. CASE StoreViolation(o)
    <3>1. \A x \in Objects : Past(task[x]) => Past(task'[x])
      BY <2>1 DEF StoreViolation, TasksOK
    <3>2. Past(task'[o])
      BY <2>1 DEF StoreViolation, TasksOK
    <3>3. \A r \in violations' : r \in violations \/ r.visit = o
      BY <2>1 DEF StoreViolation
    <3> QED BY <3>1, <3>2, <3>3 DEF RecordedInv, TablesOK
  <2>2. CASE ~StoreViolation(o)
    BY <1>1, <1>6, <2>2 DEF GraceTask, GraceEnds, RemoveTagged, ReadRecentSize,
       InsertRecent, TasksOK
  <2> QED BY <2>1, <2>2
<1>7. CASE ShutdownScheduler \/ Restart
  BY <1>1, <1>7 DEF ShutdownScheduler, Restart, TasksOK
<1> QED
  BY <1>2, <1>3, <1>4, <1>5, <1>6, <1>7 DEF Next, MessageThread

\* The active are tracked.
LEMMA ActiveAreTracked ==
    ASSUME LedgerInv, NEW o \in activeVehicles
    PROVE  o \in Objects /\ Tracked(o)
  BY DEF LedgerInv, WatchedInv, UniqueInv, TypeInv, TypeOK, ListsOK, ActiveIsWatched, Tracked

\* A step that changes neither who is active or tracked, nor what is recorded, nor
\* the plate and date of what is tracked, is no step of the ledger.
LEMMA Stutters ==
    ASSUME LedgerInv,
           UNCHANGED <<now, activeVehicles>>,
           {r.visit : r \in violations'} = {r.visit : r \in violations},
           \A o \in Objects : /\ Tracked(o)' <=> Tracked(o)
                              /\ Tracked(o) => /\ vehicle'[o] = vehicle[o]
                                               /\ entryDate'[o] = entryDate[o]
    PROVE  UNCHANGED Ledger!vars
  BY DEF Ledger!vars

\* One object leaves the list; who was active stays tracked.
LEMMA Closing ==
    ASSUME LedgerInv, RemoveActive(captured) \/ \E o \in Objects : RemoveActive(o),
           UNCHANGED <<now, objects, violations>>,
           \A o \in Objects : Tracked(o)' <=> Tracked(o)
    PROVE  [Ledger!Next]_(Ledger!vars)
<1>1. CASE UNCHANGED activeVehicles
  BY <1>1, Stutters
<1>2. ASSUME NEW a \in activeVehicles, activeVehicles' = activeVehicles \ {a}
      PROVE  Ledger!Close(a)
  <2>1. a \in Objects /\ Tracked(a)
    BY ActiveAreTracked
  <2>2. Ledger!IsOpen(a)
    BY <2>1 DEF Ledger!IsOpen
  <2>3. \A o \in Objects \ {a} : o \in activeVehicles' <=> o \in activeVehicles
    BY <1>2
  <2> QED BY <1>2, <2>1, <2>2, <2>3 DEF Ledger!Close
<1>3. CASE \E a \in activeVehicles : activeVehicles' = activeVehicles \ {a}
  <2>1. PICK a \in activeVehicles : activeVehicles' = activeVehicles \ {a}
    BY <1>3
  <2>2. a \in Objects /\ Ledger!Close(a)
    BY <1>2, <2>1, ActiveAreTracked
  <2> QED BY <2>2 DEF Ledger!Next
<1> QED BY <1>1, <1>3 DEF RemoveActive

\* The add of line 143 opens the stay the check of line 137 found free.
LEMMA Opening ==
    ASSUME LedgerInv, AddActive
    PROVE  Ledger!Next
<1>1. /\ captured \in Objects /\ ~IsActive(captured) /\ task[captured] = "none"
      /\ mpc = "add" /\ mpc' = "schedule" /\ captured' = captured
      /\ activeVehicles' = activeVehicles \cup {captured}
      /\ UNCHANGED <<now, vehicle, entryDate, task, violations>>
  BY DEF LedgerInv, WatchedInv, UniqueInv, TypeInv, TypeOK, HandlerOK, EntryIsFree,
     EntryHasNoTask, AddActive
<1>2. vehicle[captured] \in Vehicles /\ entryDate[captured] \in 0..now
  BY <1>1 DEF LedgerInv, WatchedInv, UniqueInv, TypeInv, TypeOK, ObjectsOK,
     EnvironmentOK, TimingInv
<1>3. captured \notin activeVehicles /\ ~Tracked(captured) /\ Tracked(captured)'
  BY <1>1 DEF IsActive, Same, Tracked
<1>4. \A o \in Objects \ {captured} : Tracked(o)' <=> Tracked(o)
  BY <1>1 DEF Tracked
<1>5. \A o \in Objects : Ledger!IsOpen(o) => o \in activeVehicles /\ Tracked(o)
  BY ActiveAreTracked DEF Ledger!IsOpen
<1>6. PICK x \in Objects, p \in {HashOf[v] : v \in Vehicles}, t \in 0..now :
         x = captured /\ p = HashOf[vehicle[captured]] /\ t = entryDate[captured]
  BY <1>1, <1>2
<1> DEFINE plateOf == [o \in Objects |-> IF Tracked(o) THEN HashOf[vehicle[o]] ELSE Null]
           sinceOf == [o \in Objects |-> IF Tracked(o) THEN entryDate[o] ELSE 0]
<1>7. \A y \in Objects : Ledger!IsOpen(y) => plateOf[y] # p
  BY <1>1, <1>5, <1>6 DEF IsActive, Same
<1>8. plateOf' = [plateOf EXCEPT ![x] = p]
  BY <1>1, <1>3, <1>4, <1>6
<1>9. sinceOf' = [sinceOf EXCEPT ![x] = t]
  BY <1>1, <1>3, <1>4, <1>6
<1>10. t <= now /\ UNCHANGED <<now, {r.visit : r \in violations}>>
  BY <1>1, <1>2, <1>6
<1>11. Ledger!Open(x, p, t)
  BY <1>1, <1>3, <1>4, <1>6, <1>7, <1>8, <1>9, <1>10 DEF Ledger!Open
<1> QED BY <1>11 DEF Ledger!Next

\* Line 154 records a violation for a stay that is past its grace, once.
LEMMA Recording ==
    ASSUME LedgerInv, NEW o \in Objects, StoreViolation(o)
    PROVE  [Ledger!Next]_(Ledger!vars)
<1>1. /\ task[o] = "store" /\ now >= GraceEndDate(o)
      /\ UNCHANGED <<now, activeVehicles, vehicle, entryDate, mpc, captured>>
  BY DEF StoreViolation, TaskFrame, LedgerInv, TimingInv
<1>2. \A x \in Objects : Tracked(x)' <=> Tracked(x)
  BY <1>1 DEF StoreViolation, Tracked, LedgerInv, WatchedInv, UniqueInv, TypeInv, TypeOK,
     TasksOK
<1>3. CASE violations' = violations
  BY <1>1, <1>2, <1>3, Stutters
<1>4. CASE violations' = violations \cup {[visit |-> o, at |-> now]}
  <2>1. {r.visit : r \in violations'} = {r.visit : r \in violations} \cup {o}
    <3> DEFINE new == [visit |-> o, at |-> now]
    <3>1. new.visit = o
      OBVIOUS
    <3> HIDE DEF new
    <3>2. violations' = violations \cup {new}
      BY <1>4 DEF new
    <3> QED BY <3>1, <3>2
  <2>2. o \notin {r.visit : r \in violations}
    BY <1>1 DEF LedgerInv, RecordedInv
  <2>3. Ledger!Record(o)
    BY <1>1, <1>2, <2>1, <2>2 DEF Ledger!Record, Tracked, GraceEndDate
  <2> QED BY <2>3 DEF Ledger!Next
<1> QED BY <1>3, <1>4 DEF StoreViolation

\* A restart forgets what was active, and keeps in mind that it was tracked.
LEMMA Forgetting ==
    ASSUME LedgerInv, Restart
    PROVE  Ledger!Next
<1>1. /\ activeVehicles' = {} /\ mpc' = "idle"
      /\ UNCHANGED <<now, vehicle, entryDate, violations>>
      /\ task' = [o \in Objects |-> IF InProgress(o) THEN "dropped" ELSE task[o]]
  BY DEF Restart, HandlerEnds
<1>2. \A o \in Objects : Tracked(o)' <=> Tracked(o)
  BY <1>1, ActiveAreTracked DEF Tracked, InProgress
<1>3. \A o \in activeVehicles : Tracked(o)
  BY ActiveAreTracked
<1>4. Ledger!Forget
  BY <1>1, <1>2, <1>3 DEF Ledger!Forget, Ledger!IsOpen
<1> QED BY <1>4 DEF Ledger!Next

LEMMA LedgerStep == LedgerInv /\ [Next]_vars => [Ledger!Next]_(Ledger!vars)
<1> SUFFICES ASSUME LedgerInv, [Next]_vars PROVE [Ledger!Next]_(Ledger!vars)
  OBVIOUS
<1> DEFINE goal == [Ledger!Next]_(Ledger!vars)
<1> USE DEF TypeInv, TypeOK
<1>0. WatchedInv /\ UniqueInv /\ TypeInv
  BY DEF LedgerInv, WatchedInv, UniqueInv
<1>1. CASE Tick
  <2>1. now' = now + 1 /\ UNCHANGED <<activeVehicles, task, mpc, captured, vehicle,
                                      entryDate, violations>>
    BY <1>1 DEF Tick
  <2>2. Ledger!Pass
    BY <2>1 DEF Ledger!Pass, Tracked
  <2> QED BY <2>2 DEF Ledger!Next
<1>2. CASE \/ \E v \in Vehicles : VehiclePasses(v) \/ PassIssued(v)
           \/ InsertDatePass \/ InsertTimePass \/ UNCHANGED vars
  <2>1. UNCHANGED <<now, activeVehicles, task, mpc, captured, vehicle, entryDate,
                    violations>>
    BY <1>2 DEF VehiclePasses, PassIssued, InsertDatePass, InsertTimePass, vars
  <2>2. \A o \in Objects : Tracked(o)' <=> Tracked(o)
    BY <2>1 DEF Tracked
  <2> QED BY <2>1, <2>2, Stutters
<1>3. CASE CheckActive \/ QueryDatePass \/ QueryTimePass \/ Broadcast
  <2>1. /\ UNCHANGED <<now, activeVehicles, task, vehicle, entryDate, violations>>
        /\ mpc # "schedule" /\ mpc' # "schedule"
    BY <1>3 DEF CheckActive, QueryDatePass, QueryTimePass, Broadcast, HandlerEnds
  <2>2. \A o \in Objects : Tracked(o)' <=> Tracked(o)
    BY <2>1 DEF Tracked
  <2> QED BY <2>1, <2>2, Stutters
<1>4. CASE ProcessImage
  <2>1. /\ UNCHANGED <<now, activeVehicles, violations>>
        /\ mpc # "schedule" /\ mpc' # "schedule"
    BY <1>4 DEF ProcessImage
  <2>2. \/ UNCHANGED <<task, vehicle, entryDate>>
        \/ \E o \in Objects : /\ task[o] = "unborn" /\ task'[o] = "none"
                              /\ \A x \in Objects \ {o} : /\ task'[x] = task[x]
                                                          /\ vehicle'[x] = vehicle[x]
                                                          /\ entryDate'[x] = entryDate[x]
    BY <1>0, <1>4 DEF ProcessImage, Unborn, TasksOK, ObjectsOK
  <2>3. \A o \in Objects : /\ Tracked(o)' <=> Tracked(o)
                           /\ Tracked(o) => /\ vehicle'[o] = vehicle[o]
                                            /\ entryDate'[o] = entryDate[o]
    BY <2>1, <2>2 DEF Tracked
  <2> QED BY <2>1, <2>3, Stutters
<1>5. CASE AddActive
  BY <1>5, Opening
<1>6. CASE ScheduleGrace
  <2>1. /\ UNCHANGED <<now, activeVehicles, vehicle, entryDate, violations>>
        /\ captured \in Objects /\ mpc = "schedule" /\ mpc' # "schedule"
    BY <1>0, <1>6 DEF ScheduleGrace, HandlerEnds, HandlerOK
  <2>2. /\ task'[captured] \in {"waiting", "rejected"}
        /\ \A o \in Objects \ {captured} : task'[o] = task[o]
    BY <1>0, <1>6, <2>1 DEF ScheduleGrace, TasksOK
  <2>3. \A o \in Objects : Tracked(o)' <=> Tracked(o)
    BY <2>1, <2>2 DEF Tracked
  <2> QED BY <2>1, <2>3, Stutters
<1>7. CASE RemoveLeaving
  <2>1. /\ RemoveActive(captured) /\ UNCHANGED <<now, objects, violations, task>>
        /\ mpc # "schedule" /\ mpc' # "schedule"
    BY <1>7 DEF RemoveLeaving
  <2>2. \A o \in Objects : Tracked(o)' <=> Tracked(o)
    BY <2>1 DEF Tracked
  <2> QED BY <2>1, <2>2, Closing
<1>8. ASSUME NEW o \in Objects, GraceTask(o) PROVE goal
  <2>1. /\ UNCHANGED <<now, mpc, captured, objects>>
        /\ task[o] \notin {"unborn", "none"} /\ task'[o] \notin {"unborn", "none"}
        /\ \A x \in Objects \ {o} : task'[x] = task[x]
    BY <1>0, <1>8 DEF GraceTask, GraceEnds, StoreViolation, RemoveTagged, ReadRecentSize,
       InsertRecent, TaskFrame, TasksOK
  <2>2. \A x \in Objects : Tracked(x)' <=> Tracked(x)
    BY <2>1 DEF Tracked
  <2>3. CASE GraceEnds(o) \/ ReadRecentSize(o) \/ InsertRecent(o)
    <3>1. UNCHANGED <<activeVehicles, violations>>
      BY <2>3 DEF GraceEnds, ReadRecentSize, InsertRecent
    <3> QED BY <2>1, <2>2, <3>1, Stutters
  <2>4. CASE StoreViolation(o)
    BY <2>4, Recording
  <2>5. CASE RemoveTagged(o)
    BY <2>1, <2>2, <2>5, Closing DEF RemoveTagged
  <2> QED BY <1>8, <2>3, <2>4, <2>5 DEF GraceTask
<1>9. CASE ShutdownScheduler
  <2>1. /\ UNCHANGED <<now, activeVehicles, vehicle, entryDate, violations, mpc, captured>>
        /\ task' = [o \in Objects |-> IF task[o] = "waiting" THEN "dropped" ELSE task[o]]
    BY <1>9 DEF ShutdownScheduler
  <2>2. \A o \in Objects : Tracked(o)' <=> Tracked(o)
    BY <2>1 DEF Tracked
  <2> QED BY <2>1, <2>2, Stutters
<1>10. CASE Restart
  BY <1>10, Forgetting
<1> QED
  BY <1>1, <1>2, <1>3, <1>4, <1>5, <1>6, <1>7, <1>8, <1>9, <1>10
     DEF Next, World, MessageThread

\* Whatever threads, queries, failures and restarts do, tracking does no more than the
\* ledger allows: a stay is opened once and for a plate that has none open, and a
\* violation is recorded once, for a stay past its grace (Server.java:133-185).
THEOREM TrackingImplementsLedger == Spec => ImplementsLedger
<1>1. Init => LedgerInv
  <2> SUFFICES ASSUME Init PROVE LedgerInv
    OBVIOUS
  <2>1. WatchedInv
    BY WatchedInit
  <2> QED BY <2>1 DEF Init, LedgerInv, TimingInv, RecordedInv, NoEarlyViolation
<1>2. LedgerInv /\ [Next]_vars => LedgerInv'
  BY TypeStep, UniqueStep, WatchedStep, TimingStep, RecordedStep
     DEF LedgerInv, WatchedInv, UniqueInv
<1>3. Init => Ledger!Init
  BY DEF Init, Ledger!Init, Tracked
<1> QED BY <1>1, <1>2, <1>3, LedgerStep, PTL DEF Spec, ImplementsLedger, Ledger!Spec
=============================================================================
