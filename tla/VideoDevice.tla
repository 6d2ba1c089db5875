----------------------------- MODULE VideoDevice -----------------------------
(***************************************************************************)
(* One video device shared by several cameras (contexts with different     *)
(* inputs): video_common.c opens it once, counts its users and lets them   *)
(* take turns of roundrobin_frames pictures, holding dev->mutex from the   *)
(* first to the last; video2.c exchanges mmap buffers with the driver; the *)
(* motion loop of motion.c closes a device that fails and tries to open it *)
(* again.                                                                  *)
(*                                                                         *)
(* The driver is external: it fills the queued buffers in order, from the  *)
(* input that is selected, and any ioctl may fail.  The input of a camera  *)
(* is named as the camera.  Sections under vid_mutex are one step.         *)
(***************************************************************************)
EXTENDS FiniteSets, Integers, Sequences

CONSTANTS
  Cameras,       \* threadnr of the contexts
  MmapBuffers,   \* req.count
  Rounds,        \* values of roundrobin_frames
  MaxVideoFaults, \* bound: failures of the driver
  MaxKills       \* bound: threads the watchdog kills

ASSUME VideoAssumption ==
  /\ IsFiniteSet(Cameras) /\ Cameras \subseteq Nat \ {0}
  /\ MmapBuffers \in Nat \ {0} /\ Rounds \subseteq Nat \ {0}
  /\ MaxVideoFaults \in Nat /\ MaxKills \in Nat

VARIABLES
  device,        \* struct video_dev; a new one gets the descriptor of the one before
  camera,        \* of each context: if video_dev is open, where its thread is, its outage
  videoLog       \* bounds and history

videoVars == <<device, camera, videoLog>>

-----------------------------------------------------------------------------
Nobody == -1
Empty == Nobody
Buffers == 1..MmapBuffers

\* queue: the buffers the driver has, with the input each is filled from and if that
\* was before the input was switched last, which the code tells by the timestamps
NoDevice == [linked |-> FALSE, usage |-> 0, v4l2 |-> FALSE, owner |-> Nobody, frames |-> 0,
             locked |-> FALSE, input |-> Nobody, queue |-> <<>>, index |-> 1, pframe |-> Nobody]

VideoInit ==
  /\ device = NoDevice
  /\ camera = [c \in Cameras |-> [open |-> FALSE, at |-> "loop", skipped |-> 0, picture |-> c]]
  /\ \E round \in Rounds :
       videoLog = [round |-> round, faults |-> 0, killed |-> {}, revived |-> FALSE, spoiled |-> FALSE]

DriverFails == videoLog.faults < MaxVideoFaults
Failure(spoils) == [videoLog EXCEPT !.faults = @ + 1, !.spoiled = @ \/ spoils]
At(c, at) == camera' = [camera EXCEPT ![c].at = at]

-----------------------------------------------------------------------------
(* The driver *)

Queued(q, i) == \E k \in DOMAIN q : q[k].buf = i
Filled(q) == {k \in DOMAIN q : q[k].of # Empty}
Capture ==
  /\ device.v4l2 /\ Filled(device.queue) # DOMAIN device.queue
  /\ device' = [device EXCEPT !.queue[Cardinality(Filled(device.queue)) + 1].of = device.input]
  /\ UNCHANGED <<camera, videoLog>>

-----------------------------------------------------------------------------
(* Opening *)

\* v4l2_set_mmap queues all buffers.
EmptyBuffer(k) == [buf |-> k, of |-> Empty, old |-> FALSE]
AllQueued == [k \in Buffers |-> EmptyBuffer(k)]
\* v4l2_select_input, when the driver knows the input.
Selected(d, c) == [d EXCEPT !.input = c]
\* What v4l2_start leaves: the input of who opened it, all buffers queued and the
\* stream on; or a device that is not v4l2 any more, which is linked all the same.
Started(c, good) ==
  Selected([NoDevice EXCEPT !.linked = TRUE, !.usage = 1, !.v4l2 = good,
              !.queue = IF good THEN AllQueued ELSE <<>>], c)

\* vid_start, when the loop has no device: a device that is open is shared, even
\* when its last user is about to close it.
vid_start(c) ==
  /\ camera[c].at = "loop" /\ ~camera[c].open
  /\ camera' = [camera EXCEPT ![c].open = TRUE]
  /\ \/ /\ device.linked /\ device' = [device EXCEPT !.usage = @ + 1]
        /\ videoLog' = [videoLog EXCEPT !.revived = @ \/ device.usage <= 0]
     \/ ~device.linked /\ device' = Started(c, TRUE) /\ UNCHANGED videoLog
     \/ /\ ~device.linked /\ DriverFails
        /\ device' = Started(c, FALSE) /\ videoLog' = Failure(FALSE)

-----------------------------------------------------------------------------
(* A picture: vid_next and what the motion loop does with its answer *)

\* The motion loop without a picture goes on with a grey one.  How long the outage
\* has been is not counted: at one point it closes the device.
Missed == {"loop", "close"}

\* The device is looked up under vid_mutex, ...
Find(c) ==
  /\ camera[c].at = "loop" /\ camera[c].open
  /\ At(c, IF device.linked THEN "found" ELSE "close")
  /\ UNCHANGED <<device, videoLog>>

\* ... and owned until the turn is over.
Own(c) ==
  /\ camera[c].at = "found" /\ At(c, "read") /\ UNCHANGED videoLog
  /\ IF device.owner = c THEN UNCHANGED device
     ELSE /\ ~device.locked
          /\ device' = [device EXCEPT !.locked = TRUE, !.owner = c, !.frames = videoLog.round]

\* An answer below 0 is fatal, 0 is a picture.
Result(d, ret, frame, fails) == [dev |-> d, ret |-> ret, frame |-> frame, fails |-> fails]
NoFrame == EmptyBuffer(1)
\* mjpegtoyuv420p: a picture that cannot be decoded is taken all the same.
Undecodable(d, frame) == IF frame.of = Empty THEN {} ELSE {Result(d, 2, frame, TRUE)}

\* v4l2_next: the buffer of the last picture goes back to the driver, and the first
\* that is filled is taken from it.
v4l2_next(d) ==
  IF ~d.v4l2 THEN {Result(d, -2, NoFrame, FALSE)}    \* nothing was started, or it has been freed
  ELSE IF d.pframe # Nobody /\ Queued(d.queue, d.index) THEN {Result(d, -1, NoFrame, FALSE)}    \* VIDIOC_QBUF
  ELSE LET q == [d EXCEPT !.queue = IF d.pframe = Nobody THEN @ ELSE Append(@, EmptyBuffer(d.index))]
           p == IF d.pframe = Nobody THEN 1 ELSE (d.pframe % MmapBuffers) + 1
           first == Head(q.queue)
           taken == [q EXCEPT !.queue = Tail(@), !.index = first.buf, !.pframe = first.buf]
       IN (IF first.of = Empty THEN {} ELSE {Result(taken, 0, first, FALSE)})
          \cup (IF ~DriverFails THEN {}
                ELSE {Result([q EXCEPT !.index = p, !.pframe = p], 1, NoFrame, TRUE),    \* EIO
                      Result([q EXCEPT !.index = 1], 1, NoFrame, TRUE),                  \* EAGAIN
                      Result([q EXCEPT !.index = 1], -1, NoFrame, TRUE)}                 \* gone
                     \cup Undecodable(taken, first))

\* What is in the buffers now was captured before.
Before(q) == [k \in DOMAIN q |-> [q[k] EXCEPT !.old = q[k].of # Empty]]
\* v4l2_set_input selects the input of the camera, which may fail; ...
v4l2_set_input(c) ==
  /\ camera[c].at = "read" /\ device.v4l2 /\ device.input # c
  /\ At(c, "skip")
  /\ \/ /\ device' = Selected([device EXCEPT !.queue = Before(@)], c)
        /\ videoLog' = [videoLog EXCEPT !.spoiled = FALSE]
     \/ /\ DriverFails /\ device' = [device EXCEPT !.queue = Before(@)]
        /\ videoLog' = Failure(TRUE)

\* (Fault: one buffer is taken for the picture that follows.)
SkippedButOne(n) == n + 1 >= MmapBuffers
SkippedAll(n) == n >= MmapBuffers
\* ... and skips what was captured before, as many pictures as there are buffers, or
\* until one fails.
Skip(c) ==
  /\ camera[c].at = "skip"
  /\ IF SkippedAll(camera[c].skipped)
     THEN /\ camera' = [camera EXCEPT ![c].at = "next", ![c].skipped = 0]
          /\ UNCHANGED <<device, videoLog>>
     ELSE \E r \in v4l2_next(device) :
            /\ device' = r.dev
            /\ videoLog' = IF r.fails THEN Failure(TRUE) ELSE [videoLog EXCEPT !.spoiled = @ \/ r.ret # 0]
            /\ camera' = IF r.ret = 0 /\ r.frame.old THEN [camera EXCEPT ![c].skipped = @ + 1]
                         ELSE [camera EXCEPT ![c].at = "next", ![c].skipped = 0]

\* The turn ends with its last picture.
Turn(d) == IF d.frames > 1 THEN [d EXCEPT !.frames = @ - 1]
           ELSE [d EXCEPT !.frames = 0, !.owner = Nobody, !.locked = FALSE]

vid_next(c) ==
  /\ \/ camera[c].at = "next"
     \/ camera[c].at = "read" /\ (device.v4l2 => device.input = c)
  /\ \E r \in v4l2_next(device) :
       /\ videoLog' = IF r.fails THEN Failure(FALSE) ELSE videoLog
       /\ device' = Turn(r.dev)
       /\ \/ r.ret = 0 /\ camera' = [camera EXCEPT ![c].at = "loop", ![c].picture = r.frame.of]
          \/ r.ret < 0 /\ At(c, "close")
          \/ r.ret > 0 /\ \E at \in Missed : At(c, at)

-----------------------------------------------------------------------------
(* Closing *)

\* vid_close forgets the device, and counts its user out without the lock; one that
\* is not the last gives up its turn.
\* (Fault: who closes keeps the turn.)
KeepsTurn(d, c) == d
GivesTurn(d, c) == IF d.owner = c THEN [d EXCEPT !.frames = 0, !.owner = Nobody, !.locked = FALSE] ELSE d
\* (Fault: who closes closes for all.)
AlwaysLast(d) == TRUE
Last(d) == d.usage = 1

CloseBy(c, next) ==
  /\ UNCHANGED videoLog
  /\ LET counted == [device EXCEPT !.usage = @ - 1] IN
     IF device.linked /\ Last(device)
     THEN /\ device' = counted
          /\ At(c, IF next = "ended" THEN "free, end" ELSE "free")
     ELSE /\ device' = IF device.linked THEN GivesTurn(counted, c) ELSE device
          /\ camera' = [camera EXCEPT ![c].open = FALSE, ![c].at = next]
vid_close(c) == camera[c].at = "close" /\ CloseBy(c, "loop")

\* The last one closes and frees it: it is unlinked, whoever counts on it by now.
Free(c) ==
  /\ camera[c].at \in {"free", "free, end"} /\ UNCHANGED videoLog
  /\ device' = NoDevice
  /\ camera' = [camera EXCEPT ![c].open = FALSE, ![c].at = IF @ = "free" THEN "loop" ELSE "ended"]

\* The thread ends, in motion_cleanup.
EndCamera(c) ==
  /\ camera[c].at = "loop"
  /\ IF ~camera[c].open THEN At(c, "ended") /\ UNCHANGED <<device, videoLog>>
     ELSE CloseBy(c, "ended")

InUse(c) == camera[c].at \in {"found", "read", "skip", "next"}

\* The watchdog kills a thread that waits or reads; a new one of the same number
\* opens the device again, as another user.
Kill(c) ==
  /\ InUse(c) /\ Cardinality(videoLog.killed) < MaxKills
  /\ camera' = [camera EXCEPT ![c].open = FALSE, ![c].at = "loop", ![c].skipped = 0]
  /\ videoLog' = [videoLog EXCEPT !.killed = @ \cup {c}, !.spoiled = @ \/ camera[c].at = "skip"]
  /\ UNCHANGED device

CameraLoop(c) == \/ vid_start(c) \/ Find(c) \/ Own(c) \/ v4l2_set_input(c) \/ Skip(c) \/ vid_next(c)
                 \/ vid_close(c) \/ Free(c)
\* After a user came to a device that is about to be freed, what it does is
\* undefined, and not followed any further.
VideoNext ==
  /\ ~videoLog.revived
  /\ Capture \/ \E c \in Cameras : CameraLoop(c) \/ EndCamera(c) \/ Kill(c)

\* Every thread goes on, and tries to open its device every ten seconds; a camera
\* takes pictures.
VideoFairness == WF_videoVars(~videoLog.revived /\ Capture) /\ \A c \in Cameras : WF_videoVars(~videoLog.revived /\ CameraLoop(c))
VideoSpec == VideoInit /\ [][VideoNext]_videoVars /\ VideoFairness

-----------------------------------------------------------------------------
(* Properties *)

\* Whoever waits for the device or reads from it is counted, so that nobody frees it
\* meanwhile: except when a user came between the last vid_close and the unlinking.
UsedIsLive ==
  ~videoLog.revived =>
    \A c \in Cameras : InUse(c) => device.usage > 0

\* A turn ends: the device does not stay locked by a camera that has gone, unless it
\* was killed in its turn and went before it took the turn up again.
Abandoned == device.owner \in videoLog.killed /\ camera[device.owner].at = "ended"
TurnsEnd == device.locked ~> ~device.locked \/ Abandoned \/ videoLog.revived

\* A camera gets no picture from the input of another, though the buffers hold some
\* when the input is switched; unless the switch or the skipping failed, or the
\* thread was killed in it.
OwnPictures ==
  [][\A c \in Cameras : camera'[c].picture \in {c, camera[c].picture} \/ videoLog.spoiled]_videoVars
=============================================================================
