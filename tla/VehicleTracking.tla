--------------------------- MODULE VehicleTracking ---------------------------
(***************************************************************************)
(* How the CyPRUS server follows vehicles: Server.processReceivedData, the *)
(* grace-period tasks it schedules, the two pass requests of ServerClient  *)
(* and the tables of JDBCDatabase they all read and write.                 *)
(*                                                                         *)
(* Threads.  MessageReader.POOL is one static thread, so every handler of  *)
(* every client runs on it, one after another: the *message thread*, whose *)
(* steps are numbered by `mpc'.  Each accepted entry starts a *grace task* *)
(* on a pool of 64 threads; `task' is the program counter of the task of   *)
(* each Vehicle object.  A step ends wherever another thread can be        *)
(* scheduled: at each call on a synchronized list and at each query.       *)
(***************************************************************************)
EXTENDS Naturals, Sequences, FiniteSets

CONSTANTS
    Vehicles,     \* plate/lot combinations
    HashOf,       \* Vehicle.hashCode of a combination
    Objects,      \* identities of the Vehicle objects onMessage creates
    Null,         \* Java's null
    FixedPlate,   \* what spoonz.jpg says, the one file getImageWithMetadata
                  \* reads; Null: it reads the file recognition wrote, as in
                  \* the line commented out above (ServerClient.java:199)
    Grace,        \* Vehicle.GraceQuantumMillis
    PassDates,    \* expiration dates the date-pass dialog can send
    PassHours,    \* amounts a time-pass request can carry
    Faults,       \* which failures happen: "sql" a query or update fails,
                  \* "image" a stored image does not decode, "ocr" a plate is
                  \* misread or not read, "cme" a broadcast meets a client
                  \* list being changed, "crash" the server process dies
    MaxTime,      \* bound: the clock stops here
    MaxInbox      \* bound: messages waiting for the message thread

ASSUME TrackingAssumption ==
    /\ Grace \in Nat
    /\ PassDates \subseteq Nat
    /\ PassHours \subseteq Nat
    /\ MaxTime \in Nat
    /\ MaxInbox \in Nat
    /\ Null \notin Vehicles \cup Objects \cup Nat
    /\ FixedPlate \in Vehicles \cup {Null}
    /\ Faults \subseteq {"sql", "image", "ocr", "cme", "crash"}

VARIABLES
    now,             \* System.currentTimeMillis()
    inbox,           \* the work queue of MessageReader.POOL
    mpc,             \* where the message thread is in processReceivedData
    captured,        \* its capturedVehicle
    platePass,       \* its platePass
    timePass,        \* its timePass
    vehicle,         \* plate/lot of each Vehicle object
    entryDate,       \* Vehicle.entryDate
    task,            \* where the grace task of each object is
    due,             \* when that task becomes runnable
    index,           \* the position it inserts at (Server.java:157)
    activeVehicles,  \* Server.activeVehicles
    recentVehicles,  \* Server.recentVehicles
    schedulerUp,     \* false after scheduler.shutdownNow()
    datePasses,      \* table date_passes
    timePasses,      \* table time_passes
    violations,      \* table vehicle_violations, with the time of the insert
    shown            \* hash codes in the pending table of a client that was
                     \* connected from the start and never ran its own timer

handler     == <<mpc, captured, platePass, timePass>>
objects     == <<vehicle, entryDate>>
tasks       == <<task, due, index>>
lists       == <<activeVehicles, recentVehicles>>
tables      == <<datePasses, timePasses, violations>>
vars == <<now, inbox, handler, objects, tasks, lists, schedulerUp,
          tables, shown>>
------------------------------------------------------------------------------
(* What the messages and the rows look like.                               *)

Message ==
         [kind : {"image"}, vehicle : Vehicles]
    \cup [kind : {"datePass"}, vehicle : Vehicles, date : PassDates]
    \cup [kind : {"timePass"}, vehicle : Vehicles, hours : PassHours]

MessageSteps == {"idle", "dateQuery", "timeQuery", "add", "schedule",
                 "leave", "broadcast", "check"}

TaskSteps == {"unborn", "none", "waiting", "store", "remove", "size",
              "insert", "done", "died", "dropped", "rejected"}

\* Vehicle.equals compares hash codes only (Vehicle.java:174).
Same(a, b) == HashOf[vehicle[a]] = HashOf[vehicle[b]]

\* (Fault: list lookup by identity, as without Vehicle.equals.)
IsActiveByIdentity(o) == o \in activeVehicles

\* activeVehicles.contains(o)
IsActive(o) == \E a \in activeVehicles : Same(a, o)

\* (Fault: removes this very object only.)
RemoveByIdentity(o) == activeVehicles' = activeVehicles \ {o}

\* activeVehicles.remove(o) takes out one equal element, or nothing.
RemoveActive(o) ==
    \/ \E a \in activeVehicles :
          Same(a, o) /\ activeVehicles' = activeVehicles \ {a}
    \/ ~IsActive(o) /\ UNCHANGED activeVehicles

\* new Vehicle(plate, lot): grace ends Grace after the object was made.
GraceEndDate(o) == entryDate[o] + Grace

\* What reading the plate and the lot of an image of v can give.
ReadPlate(v) == IF "ocr" \in Faults THEN Vehicles \cup {Null}
                ELSE IF FixedPlate # Null THEN {FixedPlate} ELSE {v}

\* A query or update whose SQLException is caught inside JDBCDatabase.
SqlFails == "sql" \in Faults

InsertAt(s, i, e) ==    \* List.add(i, e), counting from 0
    [k \in 1..Len(s) + 1 |->
        IF k <= i THEN s[k] ELSE IF k = i + 1 THEN e ELSE s[k - 1]]

Unborn == {o \in Objects : task[o] = "unborn"}
ImagesWaiting == {k \in DOMAIN inbox : inbox[k].kind = "image"}
------------------------------------------------------------------------------
Init ==
    /\ now = 0
    /\ inbox = <<>>
    /\ mpc = "idle" /\ captured = Null
    /\ platePass = Null /\ timePass = 0
    /\ vehicle = [o \in Objects |-> Null]
    /\ entryDate = [o \in Objects |-> 0]
    /\ task = [o \in Objects |-> "unborn"]
    /\ due = [o \in Objects |-> 0]
    /\ index = [o \in Objects |-> 0]
    /\ activeVehicles = {} /\ recentVehicles = <<>>
    /\ schedulerUp = TRUE
    /\ datePasses = [v \in Vehicles |-> Null]
    /\ timePasses = [v \in Vehicles |-> 0]
    /\ violations = {}
    /\ shown = {}

Toggled(S, e) == IF e \in S THEN S \ {e} ELSE S \cup {e}

\* The message thread is done with this message; its locals are gone.
HandlerEnds == mpc' = "idle" /\ captured' = Null
               /\ platePass' = Null /\ timePass' = 0

(* The world outside the server. *)

Tick ==
    /\ now < MaxTime
    /\ now' = now + 1
    /\ UNCHANGED <<inbox, handler, objects, tasks, lists, schedulerUp,
                   tables, shown>>

Receive(m) ==    \* the reader of some client hands a message to POOL
    /\ Len(inbox) < MaxInbox
    /\ inbox' = Append(inbox, m)

\* A board photographs a vehicle that crosses the entry of its lot.
VehiclePasses(v) ==
    /\ Cardinality(ImagesWaiting) < Cardinality(Unborn)
    /\ Receive([kind |-> "image", vehicle |-> v])
    /\ UNCHANGED <<now, handler, objects, tasks, lists, schedulerUp, tables,
                   shown>>

\* A client issues a pass.
PassIssued(v) ==
    /\ \/ \E d \in PassDates :
             Receive([kind |-> "datePass", vehicle |-> v, date |-> d])
       \/ \E h \in PassHours :
             Receive([kind |-> "timePass", vehicle |-> v, hours |-> h])
    /\ UNCHANGED <<now, handler, objects, tasks, lists, schedulerUp,
                   tables, shown>>

(* The message thread. *)

\* processInsertDatePass: a failed update is only logged.
InsertDatePass ==
    /\ mpc = "idle" /\ inbox # <<>> /\ Head(inbox).kind = "datePass"
    /\ inbox' = Tail(inbox)
    /\ \/ datePasses' = [datePasses EXCEPT ![Head(inbox).vehicle] =
                                              Head(inbox).date]
       \/ SqlFails /\ UNCHANGED datePasses
    /\ UNCHANGED <<now, handler, objects, tasks, lists, schedulerUp,
                   timePasses, violations, shown>>

\* processInsertTimePass: nothing is stored for an amount of 0.
InsertTimePass ==
    /\ mpc = "idle" /\ inbox # <<>> /\ Head(inbox).kind = "timePass"
    /\ inbox' = Tail(inbox)
    /\ \/ /\ Head(inbox).hours > 0
          /\ timePasses' = [timePasses EXCEPT ![Head(inbox).vehicle] =
                                                 Head(inbox).hours]
       \/ /\ Head(inbox).hours = 0 \/ SqlFails
          /\ UNCHANGED timePasses
    /\ UNCHANGED <<now, handler, objects, tasks, lists, schedulerUp,
                   datePasses, violations, shown>>

\* processImageReceive up to the call of processReceivedData: recognition
\* gives a plate and a lot, and an object dated now, or nothing.
ProcessImage ==
    /\ mpc = "idle" /\ inbox # <<>> /\ Head(inbox).kind = "image"
    /\ inbox' = Tail(inbox)
    /\ \E p \in ReadPlate(Head(inbox).vehicle) :
          \/ /\ p # Null
             /\ \E o \in Unborn :
                   /\ captured' = o
                   /\ vehicle' = [vehicle EXCEPT ![o] = p]
                   /\ entryDate' = [entryDate EXCEPT ![o] = now]
                   /\ task' = [task EXCEPT ![o] = "none"]
             /\ mpc' = "check"
          \/ /\ p = Null
             /\ UNCHANGED <<mpc, captured, objects, task>>
    /\ UNCHANGED <<now, platePass, timePass, due, index, lists,
                   schedulerUp, tables, shown>>

CheckActive ==          \* line 137
    /\ mpc = "check"
    /\ mpc' = IF IsActive(captured) THEN "leave" ELSE "dateQuery"
    /\ UNCHANGED <<now, inbox, captured, platePass, timePass, objects,
                   tasks, lists, schedulerUp, tables, shown>>

QueryDatePass ==        \* line 139: null without a row or without a database
    /\ mpc = "dateQuery"
    /\ mpc' = "timeQuery"
    /\ \/ platePass' = datePasses[vehicle[captured]]
       \/ SqlFails /\ platePass' = Null
    /\ UNCHANGED <<now, inbox, captured, timePass, objects, tasks,
                   lists, schedulerUp, tables, shown>>

\* (Fault: the comparison turned round.)
DatePassOver == platePass # Null => platePass > now

\* platePass == null || platePass.getTime() - System.currentTimeMillis() <= 0
NoDatePass == platePass # Null => platePass <= now

QueryTimePass ==        \* lines 140 and 142; 0 without a row or a database
    /\ mpc = "timeQuery"
    /\ \/ /\ NoDatePass
          /\ mpc' = "add"
          /\ \/ timePass' = timePasses[vehicle[captured]]
             \/ SqlFails /\ timePass' = 0
          /\ UNCHANGED <<captured, platePass>>
       \/ ~NoDatePass /\ HandlerEnds
    /\ UNCHANGED <<now, inbox, objects, tasks, lists, schedulerUp,
                   tables, shown>>

AddActive ==            \* line 143
    /\ mpc = "add"
    /\ mpc' = "schedule"
    /\ activeVehicles' = activeVehicles \cup {captured}
    /\ UNCHANGED <<now, inbox, captured, platePass, timePass, objects,
                   tasks, recentVehicles, schedulerUp, tables, shown>>

\* Lines 146-160.  The hours of the pass are added to the milliseconds of
\* the grace period.  A scheduler that was shut down throws, and the handler
\* ends in the catch of processImageReceive.
ScheduleGrace ==
    /\ mpc = "schedule"
    /\ \/ /\ schedulerUp
          /\ task' = [task EXCEPT ![captured] = "waiting"]
          /\ due' = [due EXCEPT ![captured] = now + Grace + timePass]
          /\ mpc' = "broadcast"
          /\ UNCHANGED <<captured, platePass, timePass>>
       \/ /\ ~schedulerUp
          /\ task' = [task EXCEPT ![captured] = "rejected"]
          /\ HandlerEnds
          /\ UNCHANGED due
    /\ UNCHANGED <<now, inbox, objects, index, lists, schedulerUp,
                   tables, shown>>

\* (Fault: the exit of a vehicle is not sent to the clients.)
RemoveSilently ==
    /\ mpc = "leave"
    /\ HandlerEnds
    /\ RemoveActive(captured)
    /\ UNCHANGED <<now, inbox, objects, tasks, recentVehicles,
                   schedulerUp, tables, shown>>

RemoveLeaving ==        \* line 170
    /\ mpc = "leave"
    /\ mpc' = "broadcast"
    /\ RemoveActive(captured)
    /\ UNCHANGED <<now, inbox, captured, platePass, timePass, objects,
                   tasks, recentVehicles, schedulerUp, tables, shown>>

\* (Fault: the handler waits for a client that does not answer.)
BroadcastForEver == mpc = "broadcast" /\ UNCHANGED vars

\* Lines 173-183, seen by a client connected throughout.  The iteration over
\* `clients' can end early with a ConcurrentModificationException.
Broadcast ==
    /\ mpc = "broadcast"
    /\ HandlerEnds
    /\ \/ shown' = Toggled(shown, HashOf[vehicle[captured]])
       \/ "cme" \in Faults /\ UNCHANGED shown
    /\ UNCHANGED <<now, inbox, objects, tasks, lists, schedulerUp,
                   tables>>

(* The grace tasks. *)

TaskFrame == UNCHANGED <<now, inbox, handler, objects, schedulerUp,
                         shown>>

GraceEnds(o) ==         \* line 150
    /\ task[o] = "waiting" /\ now >= due[o]
    /\ task' = [task EXCEPT ![o] = IF IsActive(o) THEN "store" ELSE "done"]
    /\ due' = [due EXCEPT ![o] = 0]    \* not used again
    /\ TaskFrame /\ UNCHANGED <<index, lists, tables>>

\* (Fault: a failed insert ends the task.)
StoreOrGiveUp(o) ==
    /\ task[o] = "store"
    /\ \/ /\ violations' = violations \cup {[visit |-> o, at |-> now]}
          /\ task' = [task EXCEPT ![o] = "remove"]
       \/ /\ SqlFails
          /\ task' = [task EXCEPT ![o] = "done"]
          /\ UNCHANGED violations
    /\ TaskFrame /\ UNCHANGED <<due, index, lists, datePasses, timePasses>>

\* Line 154.  The row is inserted before the image is written; an image that
\* cannot be decoded throws past the SQLException handler and ends the task.
StoreViolation(o) ==
    /\ task[o] = "store"
    /\ \/ /\ violations' = violations \cup {[visit |-> o, at |-> now]}
          /\ \/ task' = [task EXCEPT ![o] = "remove"]
             \/ "image" \in Faults /\ task' = [task EXCEPT ![o] = "died"]
       \/ /\ SqlFails
          /\ task' = [task EXCEPT ![o] = "remove"]
          /\ UNCHANGED violations
    /\ TaskFrame /\ UNCHANGED <<due, index, lists, datePasses, timePasses>>

\* (Fault: the vehicle is listed as recent but stays active.)
KeepTagged(o) ==
    /\ task[o] = "remove"
    /\ task' = [task EXCEPT ![o] = "size"]
    /\ TaskFrame /\ UNCHANGED <<due, index, lists, tables>>

RemoveTagged(o) ==      \* line 156
    /\ task[o] = "remove"
    /\ task' = [task EXCEPT ![o] = "size"]
    /\ RemoveActive(o)
    /\ TaskFrame /\ UNCHANGED <<due, index, recentVehicles, tables>>

ReadRecentSize(o) ==    \* line 157: recentVehicles.size() ...
    /\ task[o] = "size"
    /\ task' = [task EXCEPT ![o] = "insert"]
    /\ index' = [index EXCEPT ![o] = Len(recentVehicles)]
    /\ TaskFrame /\ UNCHANGED <<due, lists, tables>>

InsertRecent(o) ==      \* ... and then recentVehicles.add(index, vehicle)
    /\ task[o] = "insert"
    /\ task' = [task EXCEPT ![o] = "done"]
    /\ recentVehicles' = InsertAt(recentVehicles, index[o], o)
    /\ index' = [index EXCEPT ![o] = 0]
    /\ TaskFrame /\ UNCHANGED <<due, activeVehicles, tables>>

\* scheduler.shutdownNow(): tasks that have not started are dropped.
ShutdownScheduler ==
    /\ schedulerUp
    /\ schedulerUp' = FALSE
    /\ task' = [o \in Objects |->
                   IF task[o] = "waiting" THEN "dropped" ELSE task[o]]
    /\ UNCHANGED <<now, inbox, handler, objects, due, index, lists,
                   tables, shown>>

\* A task that has work left, or an entry about to get its task.
InProgress(o) ==
    \/ task[o] \in {"waiting", "store", "remove", "size", "insert"}
    \/ o \in activeVehicles
    \/ mpc = "schedule" /\ captured = o

\* The process dies and is started again: only the tables survive.
Restart ==
    /\ "crash" \in Faults
    /\ inbox' = <<>>
    /\ HandlerEnds
    /\ task' = [o \in Objects |->
                   IF InProgress(o) THEN "dropped" ELSE task[o]]
    /\ activeVehicles' = {} /\ recentVehicles' = <<>>
    /\ schedulerUp' = TRUE
    /\ shown' = {}
    /\ UNCHANGED <<now, objects, due, index, tables>>
------------------------------------------------------------------------------
MessageThread ==
    \/ InsertDatePass \/ InsertTimePass \/ ProcessImage \/ CheckActive
    \/ QueryDatePass \/ QueryTimePass \/ AddActive \/ ScheduleGrace
    \/ RemoveLeaving \/ Broadcast

GraceTask(o) ==
    \/ GraceEnds(o) \/ StoreViolation(o) \/ RemoveTagged(o)
    \/ ReadRecentSize(o) \/ InsertRecent(o)

World == Tick \/ \E v \in Vehicles : VehiclePasses(v) \/ PassIssued(v)

Next ==
    \/ World
    \/ MessageThread
    \/ \E o \in Objects : GraceTask(o)
    \/ ShutdownScheduler
    \/ Restart

Spec == Init /\ [][Next]_vars

\* Time goes on, the one message thread and the pool threads are scheduled.
Fairness ==
    /\ WF_vars(Tick)
    /\ WF_vars(MessageThread)
    /\ \A o \in Objects : WF_vars(GraceTask(o))

FairSpec == Spec /\ Fairness
------------------------------------------------------------------------------
(* Properties.                                                             *)

EnvironmentOK ==
    /\ now \in Nat
    /\ inbox \in Seq(Message)
    /\ shown \subseteq {HashOf[v] : v \in Vehicles}

HandlerOK ==
    /\ mpc \in MessageSteps
    /\ captured \in Objects \cup {Null}
    /\ mpc # "idle" => captured \in Objects /\ task[captured] # "unborn"
    /\ platePass \in PassDates \cup {Null}
    /\ timePass \in PassHours \cup {0}

ObjectsOK ==
    /\ vehicle \in [Objects -> Vehicles \cup {Null}]
    /\ entryDate \in [Objects -> Nat]
    /\ \A o \in Objects : task[o] # "unborn" => vehicle[o] \in Vehicles

TasksOK ==
    /\ task \in [Objects -> TaskSteps]
    /\ due \in [Objects -> Nat]
    /\ index \in [Objects -> Nat]
    /\ schedulerUp \in BOOLEAN

ListsOK ==
    /\ activeVehicles \subseteq {o \in Objects : task[o] # "unborn"}
    /\ recentVehicles \in Seq(Objects)

TablesOK ==
    /\ datePasses \in [Vehicles -> PassDates \cup {Null}]
    /\ timePasses \in [Vehicles -> PassHours \cup {0}]
    /\ violations \subseteq [visit : Objects, at : Nat]

\* Every variable keeps its type, and every object that was created has a
\* plate and a lot.
TypeOK ==
    EnvironmentOK /\ HandlerOK /\ ObjectsOK /\ TasksOK /\ ListsOK /\ TablesOK

\* A plate/lot is in activeVehicles at most once, although the check of line
\* 137 and the add of line 143 are far apart and grace tasks remove in
\* between: only the message thread ever adds.
OneActivePerVehicle ==
    \A a, b \in activeVehicles : Same(a, b) => a = b

\* A vehicle never stays in activeVehicles without a task that will look at
\* it: each active object has its own task, not yet past its removal, unless
\* the scheduler was shut down or the task died on an undecodable image.
ActiveIsWatched ==
    \A o \in activeVehicles :
       \/ task[o] \in {"waiting", "store", "remove"}
       \/ task[o] = "none" /\ mpc = "schedule" /\ captured = o
       \/ task[o] = "died"
       \/ task[o] \in {"dropped", "rejected"} /\ ~schedulerUp

\* recentVehicles.add(recentVehicles.size(), v) reads the size and inserts in
\* two steps; several tasks may be between them, yet the index is never past
\* the end (no IndexOutOfBoundsException).
InsertInRange ==
    \A o \in Objects : task[o] = "insert" => index[o] <= Len(recentVehicles)

\* A violation is never recorded before the date it carries, the end of the
\* grace period of the object whose task records it (JDBCDatabase.java:251).
NoEarlyViolation ==
    \A r \in violations : r.at >= GraceEndDate(r.visit)

\* A vehicle whose date pass is valid in the table at the moment of the add
\* is not made active, although the table was read two queries earlier
\* (ClientController.java:239 "ignored by the server until the expiration
\* date").
PassHonoured ==
    [][\A o \in activeVehicles' \ activeVehicles :
          LET d == datePasses[vehicle[o]] IN d # Null => d <= now]_vars

\* A photograph taken as leaving leaves nothing of that plate/lot behind in
\* activeVehicles, whatever the grace tasks remove meanwhile.
LeavingIsForgotten ==
    [][mpc = "leave" /\ mpc' = "broadcast" =>
          \A a \in activeVehicles' : ~Same(a, captured)]_vars

\* A client that starts from an empty table and adds or removes a row at each
\* CapturedVehicleCommand (MainForm.onPacketReceived) shows exactly the
\* active vehicles, as long as no grace task has acted.
ToggledView ==
    mpc = "idle" /\ schedulerUp
    /\ (\A o \in Objects : task[o] \in {"unborn", "none", "waiting"})
    => shown = {HashOf[vehicle[a]] : a \in activeVehicles}

\* No stay lasts for ever: every active object whose task is scheduled leaves
\* activeVehicles, by a photograph, by its task or by a restart, unless the
\* scheduler is shut down or the task dies on an undecodable image.  (The
\* clock stops at MaxTime: later deadlines never come.)
EveryStayEnds ==
    \A o \in Objects :
       o \in activeVehicles /\ task[o] = "waiting" /\ due[o] <= MaxTime
       ~> o \notin activeVehicles \/ ~schedulerUp \/ task[o] = "died"

\* A task that found its vehicle active gets the vehicle into recentVehicles,
\* even if the insert into the table fails, unless it dies or the server does.
TaggedGetsListed ==
    \A o \in Objects :
       task[o] = "store" ~> \/ \E i \in DOMAIN recentVehicles :
                                 recentVehicles[i] = o
                            \/ task[o] \in {"died", "dropped"}

\* The message thread never wedges: it comes back for the next message.
MessagesAreHandled == []<>(mpc = "idle")

\* The stays an object stands for: it was added to activeVehicles.
Tracked(o) ==
    \/ task[o] \notin {"unborn", "none"}
    \/ mpc = "schedule" /\ captured = o

Ledger == INSTANCE LotLedger WITH
    Visits <- Objects,
    Plates <- {HashOf[v] : v \in Vehicles},
    NoPlate <- Null,
    time <- now,
    stay <- [o \in Objects |-> IF o \in activeVehicles THEN "open"
                               ELSE IF Tracked(o) THEN "closed" ELSE "unseen"],
    plate <- [o \in Objects |->
                 IF Tracked(o) THEN HashOf[vehicle[o]] ELSE Null],
    since <- [o \in Objects |-> IF Tracked(o) THEN entryDate[o] ELSE 0],
    recorded <- {r.visit : r \in violations}

\* All the queries, lists and tasks together do no more than the ledger says.
ImplementsLedger == Ledger!Spec

(* Statements of the repository the code does not live up to.              *)

\* Vehicle.java:19 "The grace time allowed to vehicles entering lots": when a
\* task decides to tag, the active stay of that vehicle is past its grace.
GraceRespected ==
    [][\A o \in Objects : task[o] = "waiting" /\ task'[o] = "store" =>
          \A a \in activeVehicles :
             Same(a, o) => now >= GraceEndDate(a)]_vars
=============================================================================
