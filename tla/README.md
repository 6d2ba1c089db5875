# CyPRUS: a TLA+ verification project

CyPRUS watches parking lots. A board with a camera sees a vehicle pass, sends a
picture to a server; the server reads the plate and the lot, decides whether the
vehicle comes or goes, gives it a grace period, records a violation when the
period ends and the vehicle is still there, and tells the user interfaces.
This directory holds TLA+ models of those parts, what TLC checks about them, and
what TLAPS proves. `PROJECT.json` maps each definition to the lines it models.

## The system

| part | code | state | operations | hard behaviour |
|---|---|---|---|---|
| vehicle tracking | `CyPRUSserver/src/server/Server.java`, `ServerClient.java`, `support/Vehicle.java` | `activeVehicles`, `recentVehicles`, scheduled tasks | `processReceivedData`, a grace task per entry, two pass requests | 64 pool threads against the message thread, stale timers, hash equality |
| database | `database/JDBCDatabase.java`, `scripts/cyprusScript.txt` | three tables | insert and query passes, store violations, search | every failure is swallowed |
| plate recognition | `ServerClient.processImageReceive`, `utils/VehicleImageUtils.java`, `localize.cpp` | files | image to plate and lot | wrong, missing or fixed result |
| connections | `Server.start`, `Server.setConnected`, `support/BaseMessageClient.java`, `server/Main.java` | `clients`, sockets, threads | accept, disconnect, shut down | list iterated without its lock, sockets never closed |
| message channel | `support/MessageReader.java`, `MessageWriter.java`, `Packet.java` | queues, `connected` flags | read, queue, write | one pool thread for all clients, flags without synchronisation |
| user interface | `cyprusGui/src` | pending, recent and search tables, connection settings | packets, a 250 ms timer, requests, reconnecting | 24 reader threads reorder packets, a timer races removals |
| board motion handler | `board/motion/*.cpp` | semaphore, image queue, lock, two named pipes | wait for motion, grab, queue, dequeue, delete | three threads, FIFO semantics, `system()` under a lock |
| board scripts, sendimage | `board/motion/Copy_these`, `board/sendimage` | pipe ends, process | signal motion, send, signal done | blocking opens, early returns |
| Motion: capture loop | `motion_modified/motion.c`, `event.c`, `picture.c` | image ring, event, three previews, movie pipe | capture, detect, save, end an event, exit | a ring that wraps, is resized and overrun; orders at any moment |
| Motion: process | `motion_modified/motion.c`, `webhttpd.c` | contexts, threads, `finish`, `restart`, watchdogs | start, watch, kill, restart, signals, control commands | flags written by three threads, threads that hang or outlive their kill |
| Motion: configuration | `conf.c`, `webhttpd.c` | options of each context, `motion.conf`, a file per camera | read, set, show, write, read again | inheritance between files that leave out what is common, files that cannot be opened |
| Motion: network camera | `netcam.c`, `netcam_jpeg.c`, `netcam_wget.c`, `netcam_ftp.c` | three buffers, connection, handler thread | read, publish, ask, decode, clean up | two condition variables, a connection that is kept or lost |
| Motion: streams | `stream.c` | client list, shared buffers, counter, mutex | accept, authenticate, put, stop | a lock taken only under an option |
| Motion: video devices | `video_common.c`, `video2.c` | device with user count and lock, mmap buffers | open, take turns, switch input, close | a lock held over several calls, stale buffers |
| Motion: pictures | `alg.c`, `rotate.c` | reference, motion picture, labels, smart mask | compare, filter, label, learn, rotate | in-place algorithms, state that outlives a picture |

Interaction: Motion saves pictures and runs `send_motion_event.sh`, which writes to
`image_ready_pipe`; the motion handler queues the newest picture and runs
`sendimage`, which opens a connection to the server, sends, and runs
`send_image_processing_done.sh`, which writes to `processing_done_pipe`. On the
server a reader thread hands the message to the message thread, which runs
recognition and tracking, queries the database, and queues the result for the
writer of each client. The user interface keeps its own tables from those packets.
Inside Motion the main thread starts, watches and kills the camera threads; a camera
thread takes its pictures from a network camera's handler thread or a shared video
device, turns them, compares and labels them, keeps them in its ring, and gives them
to events and to the stream server.

Properties that make each part correct: a vehicle is tracked once, never forgotten
and never tagged early, and its exit removes it (tracking); every client is told in
order, and a shutdown reaches everybody (connections); each picture is sent before it
is deleted and no motion is invented (board); pictures go out once and in order, no
context has two loops, a quit ends the process (Motion); pictures keep coming after a
failure, a buffer is freed with its last user, no camera sees another's picture
(cameras, streams); what was written is read again (configuration); a filter computes what it is named for, what stays in the scene
is learned (pictures); the tables show what the server tracks (user interface).

## Modules

| module | models | its state and actions in the code |
|---|---|---|
| `LotLedger` | abstract specification of tracking: a visit is opened, closed or forgotten, and at most recorded once after its grace; one open visit per plate | |
| `VehicleTracking` | the message thread, the grace tasks, the passes, failures | `Objects` are the Java objects, `mpc` is where the message thread is, `task` where each grace task is |
| `ServerConnections` | accept loop, readers, writers, pool thread, shutdown | `acceptor`, `reader`, `writer`, `worker`, `main` are the threads' places |
| `NamedPipe` | a Linux FIFO: blocking `open` at either end, end of file, lost data; the two scripts as one `Script` relation | |
| `MotionHandler` | `process_motion`: its three threads, `sendimage`, the scripts | `camera`, `grabber`, `dequeuer`, `sender`, `script` are the processes' places |
| `MotionLoop` | one camera thread: `motion_loop`, the ring, events, previews, the movie pipe | `pc` is the section of the loop; `image_ring`, `preview` and the indices are the fields of `cnt` |
| `MotionProcess` | `main`, `motion_startup`, watchdog, signal handler, threads from outside, control commands | `main`, `threads`, `cnt`, `web` |
| `Configuration` | options: defaults, `motion.conf`, the cameras' files, the command line; `config/set`, `list`, `get`, `write`; the restart | `confs` is `cnt[i]->conf`, `files` what is on disk |
| `Netcam` | handler thread and motion loop of a network camera: http, MJPG, ftp, file | `handler` and `loop` are the threads' places, `netcam` is `struct netcam_context` |
| `NetcamFtp` | the dialogue with an ftp server, its commands and answers | `ftp` is `struct ftp_context` |
| `Stream` | stream server: accept, authentication threads, `stream_put`, `stream_stop` | `list` and `ref` are the clients and reference counts |
| `VideoDevice` | one device shared by contexts: turns, input switches, mmap buffers | `device` is `struct video_dev`, `camera` what each context knows of it |
| `Despeckle` | erosion and dilation of one motion picture by a filter | one step of `alg_despeckle` per letter |
| `ImageFilters` | extends `Despeckle`: the letter `l`, labelling, and the location and size of the motion | |
| `Detection` | the comparison over many pictures: reference, smart mask, noise tuning, light switch, rate | `detection` holds `ref`, `dyn`, `out`, the mask, the noise level |
| `Rotation` | `rotate_init`, `rotate_map` on whole blocks of bytes | |
| `MonitorGui` | connection, reader pool, event thread, timer, three tables; the server as far as it is seen | `packets` is the pool and event queue, `edt` what the event thread does |
| `VehicleTracking_proofs`, `ServerConnections_proofs`, `MotionHandler_proofs`, `MotionProcess_proofs`, `MotionLoop_proofs`, `MonitorGui_proofs` | the theorems about the module each is named after; `MotionProcess_proofs` also those about `Configuration` | |
| `Cameras_proofs`, `Pictures_proofs` | the theorems about `Netcam`, `VideoDevice` and `Stream`; about `Rotation` and `Despeckle` | |
| `MCVehicleTracking`, `MCServerConnections`, `MCMotionHandler`, `MCNetcam`, `MCMonitorGui` | instances for TLC | |
| `MCMotion` (`MotionLoop`, `MotionProcess` and `Configuration`), `MCDevices` (`Stream`, `NetcamFtp`, `VideoDevice`), `MCImages` (`ImageFilters`, `Detection`, `Rotation`) | parts that meet only inside a camera thread: each behaviour runs one of them, chosen by `runs` in the initial state, and the others stay as they begin | |

### Correspondence with the code

*VehicleTracking.* `Vehicles` are the plate/lot pairs. `Vehicle.equals` compares hash
codes, so `Same` does, through the constant `HashOf`. A step ends at each call on a
synchronized list, each query and each message. The check of line 137 is
`CheckActive`; the two queries are `QueryDatePass` and `QueryTimePass`; line 143 is
`AddActive`; the scheduling `ScheduleGrace`; line 170 `RemoveLeaving`; the loop of
line 179 `Broadcast`. Lines 150, 154, 156 and the two calls of line 157 are
`GraceEnds`, `StoreViolation`, `RemoveTagged`, `ReadRecentSize` and `InsertRecent`.
`shown` is the pending table of one user interface that applies
`MainForm.onPacketReceived`. `FixedPlate` is there because `getImageWithMetadata`
always reads `spoonz.jpg`: every received photograph is processed as the one in that
file. The one-vehicle runs are that code; with `FixedPlate = Null` the plate is the
photographed one.

*ServerConnections.* Messages to clients carry the number of the incoming message
that caused them. `HandleMessage` may also tell nobody (a valid pass, an empty
list). A `hasNext`/`next` pair of an iterator is one step, because an `add` between
the two has the effect of one before both. `ownerSet` is the field `server`, set
after the threads of the client were started.

*MotionHandler.* The three pictures of an event are one image. `open` on a FIFO is
counted from the call, and `asleep` says whose call has not returned; a writer
without a reader is killed. The second `read` of the dequeue thread, into `NULL`,
consumes nothing but sleeps while the pipe is open and empty. `motion_found` and
`processing_done` are uninitialised at first and keep their value at an end of
file. That Motion runs before `process_motion` has booted is not modelled.

*MotionLoop.* One pass of the loop is the sections of `motion_loop` in their order,
each an action. An image has the number of its capture; a score stands for its
changed pixels or for the distance of the motion from the centre. A test of elapsed
time against an option is a choice. `loopLog` is history: what was sent (0 for an image
that was due but not put, being beyond `frame_limit`), the previews saved, whether an
event was cut off, the thread left, or what is a preview was changed (`mixed`).

*MotionProcess.* `sig_handler` is one step. Time meets the threads in two places: a
second is enough for a new thread to set `running`, and the watchdog of a thread runs
down only while it hangs. A cancelled thread goes on until it reaches a cancellation
point, so it may hang long after it was killed.

*Configuration.* Of the lines for an option in a file the last one counts, so a file
holds one text per option. Of a text the model keeps what the parser and the printer
may lose: a blank before or after it, or quotation marks. `late` are the options of
`motion.conf` behind the thread line, which are set in the cameras after their own file
was read. `saved` is history: the options of each context whose file still holds them.

*Netcam, NetcamFtp.* Sections under `netcam->mutex` are one step. An image is its
buffer's content: none, a part, a whole; `seen` says whether the loop has decoded it.
The answer of an ftp server is its first digit, and `rest` what is left in the buffer.

*Stream, VideoDevice.* What C leaves undefined is recorded in `streamLog.harm` and
`videoLog`: a list that is changed while it is walked without the lock, a buffer freed
twice, a device freed under a new user. Behaviour is not followed past it: for
streams `BuffersCounted` speaks of the time before, in `VideoDevice` the cameras stop.

*Despeckle, ImageFilters, Detection, Rotation.* Pictures are functions from byte
positions. The loops over pixels are set comprehensions, or functions recursive in the
column where the order of the updates decides something: the window that slides along a
row, the maximum that is shared by two pixels. The flood fill along lines is a RECURSIVE
operator, which is why it has a module of its own: `Despeckle` is proved about. `conf`
includes whether `char` is signed in the build.

*MonitorGui.* A packet in the event queue is taken for one in the pool, as both are
out of order already. `muddled` is history: a photograph met a listing under way, or was not told to this
client because it is not in the list or the broadcast was cut short, a grace period
ended at one side, and the like.

Operators marked `(Fault: ...)` are mutated definitions the project is tested
with; no specification uses them.

## Runs

| run | instance | shows |
|---|---|---|
| `tracking_safety` | 2 vehicles with one hash code, 3 objects, clock 0..2, grace 1, 1 date and 1 time pass, shutdown | `OneActivePerVehicle`, `ToggledView`, `LeavingIsForgotten`, `PassHonoured`, `ImplementsLedger` |
| `tracking_faults` | 1 vehicle, 2 objects, clock 0..3, all faults, fair | `ActiveIsWatched`, `EveryStayEnds`, `TaggedGetsListed`, `MessagesAreHandled` |
| `tracking_stale_timer` | 1 vehicle, 3 objects | violates `GraceRespected` |
| `connections` | 2 clients, a photograph and a request, one client may hang up, shutdown, fair | `InOrder`, `BroadcastsReachAll`, `ShutdownStopsAcceptor`, `DisconnectEndsThreads` |
| `board_safety` | 2 events, early dequeue thread, a sender that may die, or fail to connect or send | `FrontIsInHand`, `NoPhantomMotion`, `DeletedAfterTried` |
| `board_deadlock` | 2 events | violates `DoneScriptHasReader` |
| `motion` | loop: 5 captures, 3 option records, 1 order; process: 1 camera, 3 thread identities, 1 fault, 1 signal, 1 command, fair; configuration: 4 options, 2 cameras, 2 sets, 2 writes, 2 loads | `SentInOrder`, `SaveIsSent`, `QuitEndsMovie`, `TriggerNeighbours`, `NoStalePreview`; `OneLoop`, `QuitEnds`, `StuckReplaced`; `SavedIsLoaded` |
| `netcam` | 4 kinds of camera, 3 failures, closed twice, fair | `DecodesNew`, `CleanupEnds`, `Delivers` |
| `devices` | stream: 3 sockets, 2 places, no limit of pictures or one, 1 restart, 1 change of options; ftp: 3 bad answers or silences; video: 2 cameras, 2 buffers, 2 failures, 1 kill; fair | `BuffersCounted`, `ClientsServed`; `FtpRecovers`; `UsedIsLive`, `TurnsEnd`, `OwnPictures` |
| `images` | all pictures 4x3 of two values, 4x2 and 6x1 of three, combs of 8x4, with a stack of 3 segments; 8x8, 24x8, 10x16 turned by 7 settings; scenes of 3 pixels, fair | `Despeckled`, `LabelsAreAreas`; `Turned`; `SceneIsLearned` |
| `gui` | 1 vehicle with a click and new settings, or 2 with up to 3 photographs, grace 1, fair | `TogglesCommute`, `PendingRowsEnd` |
| `gui_false_violation` | the same | violates `RecentAreViolations` |

*Bounds.* Three objects allow an entry, an exit and a re-entry, or a stale timer
together with a new stay and a third photograph; two vehicles with equal hash codes
make every pair of combinations confusable. Clock values 0..2 with grace 1 put a
deadline before, at and after each step. Two clients let one be iterated over while
the other is added; the photograph makes a broadcast and the request an answer, which
can meet in one queue. Two events fill the board's image queue once and empty it
again, the case in which both threads may start `sendimage`. Five captures wrap
rings of three images (the `motion.conf` of the board) and of four, end an event and
begin another. One hang with one kill, one signal and one command
already cross each other in every order; a third thread identity lets a killed thread
outlive its successor's start. The four options are a string with a default, one
without, a bool, and an int of the command line; two sets and two writes put a file of
before beside a newer one, and two loads miss a file and find it again. Three failures of a network camera lose a connection,
cut the image after it, and fail the reconnection. Three sockets for two places let
the third wait while two leave; two mmap buffers hold a picture of each input.
Pictures of 4x3 are the smallest with an inner pixel that has inner neighbours, and
pictures of one line have no inner pixel. The stack of the flood fill, 10000 segments
in the code, is `MaxSegments`, 3: enough for these pictures, and not for combs of 8x4
with several teeth. The rotated pictures are a square, a wide and a high one, of
which the last is no multiple of 8 (a driver may adjust the size to it). Scenes change
twice, after which what is left in `out`, the mask and the noise level must not keep a
pixel from being learned.
`MaxInbox`, `Sends`, `MaxCaptures`, `MaxOrders`, `MaxSignals`, `MaxRequests`,
`MaxFaults`, `MaxCloses`, `MaxFtpFaults`, `MaxVideoFaults`, `MaxKills`,
`MaxRestarts`, `MaxConfigs`, `MaxSets`, `MaxWrites`, `MaxLoads`, `MaxScenes`, `MaxNow` and `Budgets` bound what the
environment does, failures and captures included.

Deadlock checking is off because the clock, the objects, the events, the clients and
the failures run out, and the programs may then really stop.

Symmetry is used only in runs without liveness properties: objects, and vehicles
where nothing tells them apart.

### Fairness

* `VehicleTracking`: time goes on, the single thread of `MessageReader.POOL` runs when
  it has a step, and each task that is due is run by the 64-thread pool.
* `ServerConnections`: each thread of the server is scheduled; a client that has not
  hung up takes what is written to it (one that neither reads nor closes blocks its
  own writer only, as `Broadcast` only fills queues).
* `MotionProcess`: the main thread is scheduled, and each camera thread that does not
  hang; a thread that hangs owes nothing.
* `Netcam`, `NetcamFtp`: both threads run. A wait for an http camera has a timeout, and
  so has the one of `netcam_cleanup` for the handler: the camera's silence is an outcome
  and not a missing step. The waits for an ftp server have none, but for its last answer:
  its silence blocks the handler, which the properties name.
* `Stream`: the camera's thread calls `stream_put` for each picture and is started
  again after a restart. The clients owe nothing.
* `VideoDevice`: the driver delivers or fails, and the camera threads run.
* `Detection`: pictures keep coming and, with a smart mask, the mask is updated, which
  the code does every few pictures outside events.
* `MonitorGui`: the threads of both sides run, the clock goes on, and the timer's
  events are served, as they wait in the same queue as everything else.

Boards, drivers, users, signals, orders, hang-ups, shutdown and failures have none.

### What the violation runs show

* `tracking_stale_timer`: a vehicle enters, leaves and enters again. The task of the
  first entry finds an equal vehicle, and tags the second stay before its grace.
* `board_deadlock`: `system(sendimage)` runs in the dequeue thread, or in the other
  thread while the dequeue thread wants the lock. The second `echo` of the done
  script (the first, if the dequeue thread itself runs it) then sleeps in `open()`
  for a reader that is waiting for it.
* `gui_false_violation`: a vehicle that leaves in time is removed from the pending
  table through `removeRow`, which adds it to the table of recent violations.

### What the models show besides

Behaviours the code has and the models have, which a property excludes by name or no
property mentions:

* Tracking: the hours of a time pass are added to a number of milliseconds; a pass
  query that fails counts as no pass, against "are ignored by the server until the
  expiration date" (`ClientController.java:240`); every photograph is read as
  `spoonz.jpg`, against "Read image with metadata back in" (`ServerClient.java:115`);
  `recentVehicles` and the violation table only grow.
* Connections: a client between `accept()` and `clients.add` is not in the list that
  `setConnected(false)` walks; a client's socket is closed at shutdown only, so that
  `accept()` fails at last and the accepting thread ends.
* Board: the camera thread reads one byte per `open`, so bytes queued behind it are
  lost or read as another event's; `sendimage` returns before the done script when a
  picture is gone, against "Tell motion processing that sending is complete"
  (`sendimage.cpp:72`), and the queue stays; but it runs that script when the connection
  or the send failed (`sendimage.cpp:35`, 68 and 73), and the image is deleted unsent;
  the dequeue thread may run before
  `ImageHandler::Init` and end, or wait on the old pipe for ever (`EagerDequeue`).
* Motion loop: the neighbours of a preview are taken by ring index. They are wrong for a
  second picture that is closer to the centre, whose "image after" may not have been
  captured yet, and for the first of an event after `output_pictures` and
  `emulate_motion` were changed: it is then reached when the ring is full and takes the
  newest image for the one before (`motion.c:674` and 681).
* Motion loop: `emulate_motion` marks the current image only, so that an unmarked one at
  `image_ring_out` keeps those behind it from being sent, and an event may end on them;
  a ring that shrinks then drops them. A ring that grows copies flags from memory it has
  freed (`motion.c:123`), which marks images outside an event, and a later shrink drops
  these too. `SaveIsSent` speaks of captures in an event or with a ring that keeps its
  size.
* Configuration: a string that was set to nothing for a camera is shown as that of
  `motion.conf`, and is that after a write and a restart; one of `motion.conf` returns to
  its default. A camera whose file cannot be opened at a load is dropped, and the next
  write forgets its thread line. Blanks and quotation marks around an option that is not
  a `text_*` are lost.
* Motion process: a quit is lost when `start_motion_thread` sets `restart` again
  (`motion.c:2721`); a thread quit by hand is watched no more.
* Network camera: after an empty image was published the handler waits for a request
  that `netcam_next` does not make (`netcam.c:2618` and 2624); a lost connection that
  was kept alive is used again and again; an early answer followed by the end of the
  control connection makes `ftp_get_response` read the same bytes for ever. The transfer
  is always in active mode, as `passive` is 0 from `ftp_new_context` on
  (`netcam_ftp.c:37`), and a server that falls silent keeps the handler in `recv` or
  `accept` for ever (168, 764 and 849).
* Streams: `stream_auth_method` read at two moments leaves the mutex locked or not
  taken; `stream_stop` frees a buffer of two clients twice; a restart leaves the
  clients of before in the count.
* Video: a device is freed by `vid_close` between the count and the unlinking while
  another context opens it; a camera killed in its turn keeps the lock.
* Detection: a difference that does not fit a signed `char` is cut (`alg.c:1217`). PUSH
  drops a segment when the stack is full (`alg.c:442`): an area then gets several labels,
  and may fall below the threshold.
* User interface: a broadcast that is cut short, because another client, such as a run of
  `sendimage`, was accepted meanwhile (`Server.java:179`), leaves the pending table wrong
  until the next refresh; the cap of the recent table removes the newest of two equal rows; a
  refresh amid photographs shows a vehicle twice or not at all, until the next one.

## Proofs

Each theorem has the shape Init, step (a case or a lemma per action), temporal
conclusion by PTL, and holds for every value of the constants: any number of vehicles,
clients, events, cameras and images, and any bounds. The invariants were checked with
TLC before they were proved. The only assumptions are those of the modules
(`TrackingAssumption`, `ConnectionsAssumption`, `HandlerAssumption`,
`ProcessAssumption`, `LoopAssumption`, `StreamAssumption`, `ConfigurationAssumption`,
`NetcamAssumption`, `VideoAssumption`, `RotationAssumption`, `DespeckleAssumption`,
`GuiAssumption`), which give types to the
constants (and say that no vehicle is named like a request), and where named the absence
of a failure.

*Tracking* (`VehicleTracking_proofs`), for every hash function:

* `TypesAreKept`: `Spec => [](TypeOK /\ InsertInRange)`. The two are proved together:
  that an index read from `recentVehicles.size()` is still in range when used is what
  types the list after the insertion. It holds because the list only grows.
* `ActiveVehiclesAreUnique`: the inductive invariant adds `EntryIsFree`, that no equal
  vehicle is active from the check of line 137 to the add of line 143. It survives
  the grace tasks because they only remove, and the single message thread is the
  only one to add.
* `ActiveVehiclesAreWatched`: adds `EntryHasNoTask` and needs uniqueness: a removal of
  an equal vehicle by an earlier task must take out the object whose task it is not.
* `ViolationsAreNotEarly`: `TimingInv` carries the bound from `entryDate` over `due` to
  the step that stores. No run checks it.
* `LeavingForgets`: an action property, from uniqueness.
* `PassesCount`, when `"sql" \notin Faults`: `PassInv` says that what a query returned
  is still in the table at the add. Only the message thread, which is busy, writes it.
* `ClientsFollow`, when `"cme" \notin Faults`: `ViewInv` says that until a grace task
  acts (`Calm`) a client shows the hash codes of `activeVehicles`, or, between a change
  of the list and its broadcast, will once the row of that vehicle is toggled.
* `TrackingImplementsLedger`: every step of `VehicleTracking`, with any failures and
  restarts, is a step of `LotLedger` or a stutter. `LedgerInv` is the conjunction of the
  invariants above with `RecordedInv`, that a task whose violation is stored is past the
  step that stores.

*Connections* (`ServerConnections_proofs`):

* `MessagesInOrder`: order alone is not inductive. A broadcast puts its number in a
  queue that an answer may have filled meanwhile, so the numbers must stay below
  `serial` for the clients the iterator has not passed (`TellInv`); that needs the
  iterator to meet no client twice, so the list has no duplicates, and a client that is
  accepted but not listed yet is none of those in it (`DistinctInv`). The lemmas
  `Queueing`, `Taking`, `Writing` and `Joining` are about the three places a message can
  be in.

*Board* (`MotionHandler_proofs`), for any number of events, pipes missing or left over at
boot, and a `sendimage` that may die or fail to send:

* `FrontStaysInHand`: `HandInv` says that `image_queue_lock` is held where the code of
  the two threads says so (`LockHeld`), that `sendimage` runs only under a caller that
  waits for it (`SenderHasCaller`), and that nothing but the dequeue thread pops.
* `TriedBeforeDeleted`: `DoneInv` follows who holds an end of `processing_done_pipe`
  (`DoneEnds`). The step the property hangs on is `WokenBySender`: until the dequeue
  thread is woken, the script that wakes it has not got beyond its first `open`, so the
  first byte it reads is that script's, and no old `processing_done` is left in place.
* `MotionIsReal`: each `sem_post`, and each `\x01` that will become one, has a script of
  its own (`PostsCounted`). An end of file keeps `motion_found`, which would post a
  second time, if a `\x01` were ever the last byte of the pipe: `NewlineFollows` and
  `NewlineIsNext` say that the newline of `echo` is always still to be read.

*Motion process and configuration* (`MotionProcess_proofs`):

* `OneLoopPerContext`: `LoopInv` is the types, that `main` knows the threads it started
  (`KnowsThreads`), that a new thread is behind `main` in its list (`NewAreBehind`) and,
  unless a kill and an exit crossed (`log.late`, the case the property excludes),
  `Orderly`: the one thread that works for a context is the one its `thread_id` names.
* `WrittenIsRead`: `SavedInv` says that each file in `saved` holds what `conf_print`
  makes of the options recorded, and that `motion.conf` is one of them and names the
  others. The lemmas are about the round trip of one line through `Printed`, `AsLine`,
  `Trimmed` and `Copied`, and that a camera's missing line is the value it inherits.

*Capture loop* (`MotionLoop_proofs`), for all options, scores and sizes of the ring:

* `MovieIsEnded`: a thread that is told to quit with a movie open has `makemovie` set.
* `ImagesInOrder`: `OrderInv` says that the numbers in the ring rise up to
  `image_ring_in`, and that what is still to be sent is newer than the last image that
  was, and lies between `image_ring_out` and `image_ring_in`. It has to survive a ring
  that wraps, one that is copied into a larger or smaller one, and one that starts
  anew with the indices of before. `ProcessKeepsOrder` is the pass of
  `process_image_ring`, used for the passes of `Act`.
* `MarkedAreSent`: adds that at the top of the loop the slot the next capture overwrites
  is not pending (`NextIsFree`): a pass sends two images and a capture adds one.
* `PreviewsAreFresh`: `StaleInv` says that outside an event no image of the ring is
  pending with motion, so that the flush left nothing to a new preview.
* `PicturesAreNeighbours` (`TriggerNeighbours`): `NearInv` says of every image that
  triggered and is still to be sent (`Waits`) that it is `InLine`: it lies between
  `image_ring_out` and `image_ring_in`, all older ones of that stretch are pending, and
  the slots before and after it hold the captures before and after. What keeps the ring
  from coming round to those neighbours first is `room`: three slots free at the top of
  the loop and two within a frame, since a capture takes one and a pass of two gives at
  least one back (`SentLined`). A sustained motion marks the whole ring (`Flagged`), so
  that nothing unmarked is left in front of the image; a resize of the ring happens
  outside an event, when no image waits (`ResizedBehind`). With `emulate_motion` the
  claim is about the first frames only, after which an event never ends without being
  cut. `Behind` says that nothing sent is left in the stretch: a picture that is not
  processed copies the flags of the one before, and must not copy IMAGE_SAVED.

*Cameras and streams* (`Cameras_proofs`):

* `BuffersAreCounted`: `StreamInv` says that a buffer's counter is the number of listed
  clients that point at it, through insertion, partial writes and losses, and that the
  backlog of `listen` has no socket twice.
* `DecodesOnlyNew`: the newest image is fresh until the loop takes it (`SeenInv`).
* `UsersAreCounted`: `usage_count` is at least the number of contexts that have the
  device open, and whoever frees it is alone (`LastFrees`). The count is too large after
  a thread was killed, never too small, until a camera comes to a device its last user
  is about to unlink (`videoLog.revived`, which ends the behaviour).
* `PicturesAreOwn`: `QueueIs` says what the driver and the camera hold together: each
  buffer once, the filled ones first, and among those the pictures from before the
  switch in front of the rest, which come from the selected input. `TurnInv` says that
  who reads owns the device and has selected its input once past the switch, and that
  while it skips, the pictures from before and those skipped are together at most the
  buffers: after as many skips as there are buffers, none is left.

*Pictures* (`Pictures_proofs`), for every size of the picture, every picture and angle:

* `PicturesAreTurned`: the buffer is its planes one after another, so a byte lies in one
  plane, at one row and column of it, and the words the turn writes do not meet.
  `RotateInv` says that the picture is as captured until it is turned, and that
  `rotate_init` leaves one of the four turns with the width and height that belong to
  it. Used is that both dimensions are even and each plane has an even number of four
  byte words, so that a half turn that swaps words misses none. The multiples of 8 that
  `vid_start` demands have it, and so have most sizes a driver adjusts them to.
* `FiltersAreTheirDefinitions`: erosion and dilation slide three rows along the picture
  and share the maximum of two columns; that the closed form of these passes is what the
  recursive function over the columns computes is shown by its least counterexample,
  and that the shared maxima are the maximum around the pixel by `MaxOfTwo` and
  `MaxOfThree`. `Applies` is one letter of `despeckle_filter`; `DespeckleInv` is that
  there is a picture and that its changed pixels were counted while letters remain.

*Monitoring GUI* (`MonitorGui_proofs`):

* `TableIsRight`: `CommuteInv` says that until something in `muddled` happened, either
  the list of what is active is still to be asked for and answered, once (`OneListing`),
  or `Balanced` holds: what is active is what the table shows and a listing under way
  brings, turned round for each vehicle by the parity of its photographs that are still
  to be handled; no vehicle is listed twice or is listed and shown; listing and
  photographs are never under way together. `PhotographKeeps`, `ListingBalances`,
  `AnswerKeeps` and `HandlingKeeps` are the four steps, the last for any packet the pool
  picks, where `SkippedAre` counts what remains.

Only model-checked: `LabelsAreAreas`, since the labelling of `alg.c` is a recursive flood
fill, written as a RECURSIVE operator, out of the prover's reach; and every liveness
property (`EveryStayEnds`, `TaggedGetsListed`, `MessagesAreHandled`,
`BroadcastsReachAll`, `ShutdownStopsAcceptor`, `DisconnectEndsThreads`, `QuitEnds`,
`StuckReplaced`, `CleanupEnds`, `Delivers`, `ClientsServed`, `FtpRecovers`, `TurnsEnd`,
`SceneIsLearned`, `PendingRowsEnd`).

## Not modelled

* The GUI's loss of its connection, other than by the settings dialog, and clocks of GUI
  and server that differ.
* Motion: `track.c` (pan and tilt; `track_type` is 0 on the board), `ffmpeg.c`, `sdl.c`,
  V4L1 and FreeBSD devices (not compiled for the board), the MMX comparison (not
  compiled), drawing, text, logging, JPEG and pixel conversions: no shared state. Of
  `alg.c`: `alg_switchfilter`, `alg_threshold_tune` (its state is the last 256
  differences), the micro light switch (needs pictures far larger than TLC's), fixed
  masks. Snapshots and timelapse. The pages of the web control, the parsing of
  requests and URLs, the refusals (which change nothing). Of the configuration: the
  option `thread` at run time, `-c`, `-s`, `-n` and `-m`, other places of `motion.conf`,
  the correction of a `log_level` out of range, a file cut off by a kill while it is
  written, the `=` that may stand between an option and its value (`conf.c:1706`: a text
  that begins with one loses it). Of video devices: a VIDIOC_QBUF the driver refuses, a
  `roundrobin_skip` above 1, a JPEG decoder that returns -1, and picture sizes after a
  `vid_start` that failed (`motion.c:785`) or that a driver adjusts to odd dimensions or
  to planes of an odd number of words (`video2.c:418`), of which `reverse_inplace_quad`
  leaves the word in the middle as it was.
* Server: recognition of characters and entropy; message framing (a stream that ends
  inside a message is padded and delivered); search requests, which only read; the
  connection pool of the database, where a task waits holding nothing another needs.
* User interface: filters, sorting, rendering, closing the window; passes sent while
  there is no connection.
* The parts run without each other: `MotionLoop` sees orders where `MotionProcess`
  gives them, `MonitorGui` has a server of its own without the database.
* Load tests, helper servers, vendored documentation and duplicates.
