---------------------------- MODULE MotionHandler ----------------------------
(***************************************************************************)
(* The board's process_motion program: three threads, a semaphore, a queue *)
(* of images with its lock, and the two named pipes that connect it to     *)
(* Motion (which runs send_motion_event.sh after saving the pictures of an *)
(* event) and to sendimage (which runs send_image_processing_done.sh).     *)
(*                                                                         *)
(* The pictures of event e (files -1, -2 and -3) are written and deleted   *)
(* together and stand for one image, e; a later event has newer files.     *)
(***************************************************************************)
EXTENDS Naturals, Sequences, FiniteSets, FiniteSetsExt, NamedPipe

CONSTANTS
    MaxEvents,      \* bound: how often Motion sees something move
    BootPath,       \* processing_done_pipe at boot: "missing" or "stale"
    EagerDequeue,   \* may the dequeue thread run before ImageHandler::Init?
    SenderDies,     \* may sendimage crash while it sends?
    SendFails       \* may its connection or its send fail?

ASSUME HandlerAssumption ==
    /\ MaxEvents \in Nat
    /\ BootPath \in {"missing", "stale"}
    /\ EagerDequeue \in BOOLEAN
    /\ SenderDies \in BOOLEAN
    /\ SendFails \in BOOLEAN

Events == 1..MaxEvents
CameraEnd == 0      \* CameraThread's end of image_ready_pipe; event e has end e
NoFile == 0         \* what `ls | tail -1' names in an empty directory

VARIABLES
    booted,         \* main has run both Init functions
    script,         \* where the send_motion_event.sh of each event is
    images,         \* the images in /mnt/ramdisk
    eventPipe,      \* image_ready_pipe
    camera,         \* where CameraThread is
    motionFound,    \* its motion_found, uninitialised at first
    sem,            \* m_motion_sem
    posts,          \* how often sem_post was called
    grabber,        \* where MotionHandlerThread is
    grabbed,        \* its jpg_str
    lock,           \* who holds image_queue_lock
    queue,          \* image_queue
    dequeuer,       \* where DequeueImagesThread is
    doneByte,       \* its processing_done
    deleted,        \* the image it deleted and has not popped yet
    donePipe,       \* processing_done_pipe
    sender,         \* where the sendimage process is, "none" without one
    file,           \* the image it was started with
    sent,           \* images sent to the server so far
    unsent          \* images whose connection or send failed

motionVars   == <<script, images>>
cameraVars   == <<camera, motionFound, posts>>
grabberVars  == <<grabber, grabbed>>
dequeuerVars == <<dequeuer, doneByte, deleted>>
senderVars   == <<sender, file, sent, unsent>>
vars == <<booted, motionVars, eventPipe, cameraVars, sem, grabberVars, lock,
          queue, dequeuerVars, donePipe, senderVars>>
------------------------------------------------------------------------------
Init ==
    /\ booted = FALSE
    /\ script = [e \in Events |-> "none"] /\ images = {}
    /\ eventPipe = NewPipe /\ donePipe = NewPipe
    /\ camera = "open" /\ motionFound \in {Motion, Newline, Settle}
    /\ sem = 0 /\ posts = 0
    /\ grabber = "wait" /\ grabbed = NoFile
    /\ lock = "none" /\ queue = <<>>
    /\ dequeuer = "open" /\ doneByte \in {Motion, Newline, Settle}
    /\ deleted = NoFile
    /\ sender = "none" /\ file = NoFile /\ sent = <<>> /\ unsent = {}

\* main: new pipes and an empty directory, then the other two threads.
Boot ==
    /\ ~booted
    /\ booted' = TRUE
    /\ UNCHANGED <<motionVars, eventPipe, cameraVars, sem, grabberVars, lock,
                   queue, dequeuerVars, donePipe, senderVars>>

(* Motion. *)

MotionDetected(e) ==
    /\ booted
    /\ script[e] = "none" /\ \A d \in Events : d < e => script[d] # "none"
    /\ images' = images \cup {e}
    /\ script' = [script EXCEPT ![e] = "open1"]
    /\ UNCHANGED <<booted, eventPipe, cameraVars, sem, grabberVars, lock, queue,
                   dequeuerVars, donePipe, senderVars>>

EventScript(e) ==
    /\ \E to \in ScriptSteps :
          /\ Script(eventPipe, eventPipe', e, script[e], to)
          /\ script' = [script EXCEPT ![e] = to]
    /\ UNCHANGED <<booted, images, cameraVars, sem, grabberVars, lock, queue,
                   dequeuerVars, donePipe, senderVars>>

(* CameraThread. *)

CameraFrame == UNCHANGED <<booted, motionVars, grabberVars, lock, queue,
                           dequeuerVars, donePipe, senderVars>>

CameraOpen ==
    /\ booted /\ camera = "open"
    /\ camera' = "read"
    /\ eventPipe' = OpenToRead(eventPipe, CameraEnd)
    /\ CameraFrame /\ UNCHANGED <<motionFound, posts, sem>>

CameraRead ==
    /\ camera = "read"
    /\ camera' = "close"
    /\ ReadByte(eventPipe, eventPipe', CameraEnd, motionFound, motionFound')
    /\ CameraFrame /\ UNCHANGED <<posts, sem>>

\* (Fault: any byte but \x42 counts as motion.)
CameraPostsUnlessSettled ==
    /\ camera = "close"
    /\ camera' = "open"
    /\ eventPipe' = CloseEnd(eventPipe, CameraEnd)
    /\ \/ motionFound # Settle /\ sem' = sem + 1 /\ posts' = posts + 1
       \/ motionFound = Settle /\ UNCHANGED <<sem, posts>>
    /\ CameraFrame /\ UNCHANGED motionFound

CameraClose ==
    /\ camera = "close"
    /\ camera' = "open"
    /\ eventPipe' = CloseEnd(eventPipe, CameraEnd)
    /\ \/ motionFound = Motion /\ sem' = sem + 1 /\ posts' = posts + 1
       \/ motionFound # Motion /\ UNCHANGED <<sem, posts>>
    /\ CameraFrame /\ UNCHANGED motionFound

(* sendimage, started by system() under the lock. *)

StartSender(f) ==
    sender = "none" /\ sender' = "read" /\ file' = f /\ UNCHANGED <<sent, unsent>>

SenderEnds == sender' = "none" /\ file' = NoFile

SenderFrame == UNCHANGED <<booted, motionVars, eventPipe, cameraVars, sem,
                           grabberVars, lock, queue, dequeuerVars>>

\* A picture that cannot be read ends sendimage before the done script.
ReadImage ==
    /\ sender = "read"
    /\ \/ file \in images /\ sender' = "send" /\ UNCHANGED file
       \/ file \notin images /\ SenderEnds
    /\ SenderFrame /\ UNCHANGED <<sent, unsent, donePipe>>

\* main looks neither at the result of tcp_open (-1 is then the socket) nor at
\* that of sendImageByteArray: the done script runs after a failure as well.
SendImage ==
    /\ sender = "send"
    /\ \/ sender' = "open1" /\ sent' = Append(sent, file) /\ UNCHANGED <<file, unsent>>
       \/ /\ SendFails
          /\ sender' = "open1" /\ unsent' = unsent \cup {file} /\ UNCHANGED <<file, sent>>
       \/ SenderDies /\ SenderEnds /\ UNCHANGED <<sent, unsent>>
    /\ SenderFrame /\ UNCHANGED donePipe

DoneScript ==
    /\ \E to \in ScriptSteps :
          /\ Script(donePipe, donePipe', "sender", sender, to)
          /\ \/ to = "exit" /\ SenderEnds
             \/ to # "exit" /\ sender' = to /\ UNCHANGED file
    /\ SenderFrame /\ UNCHANGED <<sent, unsent>>

(* MotionHandlerThread and GrabImage. *)

GrabberFrame == UNCHANGED <<booted, motionVars, eventPipe, cameraVars,
                            dequeuerVars, donePipe>>

AwaitMotion ==
    /\ booted /\ grabber = "wait" /\ sem > 0
    /\ sem' = sem - 1
    /\ grabber' = "list"
    /\ GrabberFrame /\ UNCHANGED <<grabbed, lock, queue, senderVars>>

ListImages ==               \* ls -1rt | tail -1
    /\ grabber = "list"
    /\ grabber' = "lock"
    /\ grabbed' = IF images = {} THEN NoFile ELSE Max(images)
    /\ GrabberFrame /\ UNCHANGED <<sem, lock, queue, senderVars>>

\* (Fault: every image is sent at once, queue or not.)
PushAndSend ==
    /\ grabber = "lock" /\ lock = "none"
    /\ lock' = "grabber"
    /\ queue' = Append(queue, grabbed)
    /\ grabbed' = NoFile
    /\ StartSender(grabbed) /\ grabber' = "system"
    /\ GrabberFrame /\ UNCHANGED sem

PushImage ==
    /\ grabber = "lock" /\ lock = "none"
    /\ lock' = "grabber"
    /\ queue' = Append(queue, grabbed)
    /\ grabbed' = NoFile
    /\ \/ queue = <<>> /\ StartSender(grabbed) /\ grabber' = "system"
       \/ queue # <<>> /\ grabber' = "unlock" /\ UNCHANGED senderVars
    /\ GrabberFrame /\ UNCHANGED sem

GrabberUnlock ==
    /\ grabber = "unlock" \/ (grabber = "system" /\ sender = "none")
    /\ grabber' = "wait"
    /\ lock' = "none"
    /\ GrabberFrame /\ UNCHANGED <<sem, grabbed, queue, senderVars>>

(* DequeueImagesThread. *)

DequeuerFrame == UNCHANGED <<booted, script, eventPipe, cameraVars, sem,
                             grabberVars>>

\* Before Init ran, the path names nothing (never made, or just unlinked) or
\* an old pipe about to be unlinked: the thread ends, or waits on a pipe that
\* nobody can open any more.
DequeuerOpen ==
    /\ dequeuer = "open"
    /\ \/ /\ booted
          /\ dequeuer' = "read"
          /\ donePipe' = OpenToRead(donePipe, "dequeuer")
       \/ /\ ~booted /\ EagerDequeue
          /\ \/ dequeuer' = "ended"
             \/ BootPath = "stale" /\ dequeuer' = "lost"
          /\ UNCHANGED donePipe
    /\ DequeuerFrame
    /\ UNCHANGED <<images, doneByte, deleted, lock, queue, senderVars>>

DequeuerRead ==
    /\ dequeuer = "read"
    /\ dequeuer' = "close"
    /\ ReadByte(donePipe, donePipe', "dequeuer", doneByte, doneByte')
    /\ DequeuerFrame
    /\ UNCHANGED <<images, deleted, lock, queue, senderVars>>

\* The second read, into NULL, sleeps on an open pipe without data.
DequeuerClose ==
    /\ dequeuer = "close"
    /\ donePipe.data # <<>> \/ donePipe.writers = {}
    /\ dequeuer' = IF doneByte = Motion /\ queue # <<>> THEN "delete" ELSE "open"
    /\ donePipe' = CloseEnd(donePipe, "dequeuer")
    /\ DequeuerFrame
    /\ UNCHANGED <<images, doneByte, deleted, lock, queue, senderVars>>

\* (Fault: the image queued last is deleted.)
DeleteLast ==
    /\ dequeuer = "delete"
    /\ dequeuer' = "lock"
    /\ deleted' = queue[Len(queue)]
    /\ images' = images \ {queue[Len(queue)]}
    /\ DequeuerFrame
    /\ UNCHANGED <<doneByte, lock, queue, donePipe, senderVars>>

DeleteImage ==              \* image_queue.front() without the lock
    /\ dequeuer = "delete"
    /\ dequeuer' = "lock"
    /\ deleted' = Head(queue)
    /\ images' = images \ {Head(queue)}
    /\ DequeuerFrame
    /\ UNCHANGED <<doneByte, lock, queue, donePipe, senderVars>>

PopImage ==
    /\ dequeuer = "lock" /\ lock = "none"
    /\ lock' = "dequeuer"
    /\ queue' = Tail(queue)
    /\ \/ /\ Tail(queue) # <<>> /\ StartSender(Head(Tail(queue)))
          /\ dequeuer' = "system"
       \/ Tail(queue) = <<>> /\ dequeuer' = "unlock" /\ UNCHANGED senderVars
    /\ deleted' = NoFile
    /\ DequeuerFrame /\ UNCHANGED <<images, doneByte, donePipe>>

DequeuerUnlock ==
    /\ dequeuer = "unlock" \/ (dequeuer = "system" /\ sender = "none")
    /\ dequeuer' = "open"
    /\ lock' = "none"
    /\ DequeuerFrame
    /\ UNCHANGED <<images, doneByte, deleted, queue, donePipe, senderVars>>
------------------------------------------------------------------------------
Camera == CameraOpen \/ CameraRead \/ CameraClose
Sender == ReadImage \/ SendImage \/ DoneScript
Grabber == AwaitMotion \/ ListImages \/ PushImage \/ GrabberUnlock
Dequeuer == \/ DequeuerOpen \/ DequeuerRead \/ DequeuerClose
            \/ DeleteImage \/ PopImage \/ DequeuerUnlock

Next ==
    \/ Boot
    \/ \E e \in Events : MotionDetected(e) \/ EventScript(e)
    \/ Camera \/ Sender \/ Grabber \/ Dequeuer

Spec == Init /\ [][Next]_vars
------------------------------------------------------------------------------
(* Properties.                                                             *)

Images == Events \cup {NoFile}
PipeOK(p, ends) ==
    /\ p.readers \subseteq ends /\ p.writers \subseteq ends
    /\ p.asleep \subseteq p.readers \cup p.writers
    /\ p.data \in Seq({Motion, Newline, Settle})

\* Types; whoever sleeps in an open() is counted as an end of that pipe.
TypeOK ==
    /\ booted \in BOOLEAN
    /\ script \in [Events -> ScriptSteps \cup {"none"}]
    /\ images \subseteq Events
    /\ PipeOK(eventPipe, {CameraEnd} \cup Events)
    /\ PipeOK(donePipe, {"dequeuer", "sender"})
    /\ camera \in {"open", "read", "close"}
    /\ {motionFound, doneByte} \subseteq {Motion, Newline, Settle}
    /\ sem \in Nat /\ posts \in Nat
    /\ grabber \in {"wait", "list", "lock", "system", "unlock"}
    /\ {grabbed, deleted, file} \subseteq Images
    /\ lock \in {"none", "grabber", "dequeuer"}
    /\ queue \in Seq(Images)
    /\ dequeuer \in {"open", "read", "close", "delete", "lock", "system",
                     "unlock", "ended", "lost"}
    /\ sender \in ScriptSteps \cup {"none", "read", "send"}
    /\ sent \in Seq(Events) /\ unsent \subseteq Events

\* Whoever works on an image works on the front of the queue: sendimage,
\* whichever thread started it, sends it, and pop() takes out the very image
\* that was deleted, although the size is tested and the front is read without
\* the lock (image_handler.cpp:76 and 115-133).
FrontIsInHand ==
    /\ sender # "none" => queue # <<>> /\ file = Head(queue)
    /\ dequeuer = "lock" => queue # <<>> /\ Head(queue) = deleted

Tried(e) == e \in unsent \/ \E i \in DOMAIN sent : sent[i] = e

\* The files of an image go only after the sendimage that was started with it
\* has sent it, or failed to: never those of an image that is still to be read,
\* although processing_done starts uninitialised and keeps its value at an end
\* of file (image_handler.cpp:94-113). That sendimage says done after a failed
\* connection or send as well (sendimage.cpp:35, 68 and 73) loses the image.
DeletedAfterTried ==
    [][\A e \in images \ images' : Tried(e)]_vars

\* Motion is never invented: sem_post is called at most once for each event,
\* although motion_found keeps its old value at an end of file and starts
\* uninitialised (motion_handler.cpp:59-82).
NoPhantomMotion ==
    posts <= Cardinality({e \in Events : script[e] # "none"})

(* Statements of the repository the code does not live up to.              *)

\* image_handler.cpp:100 "Always use open instead of fopen for named pipes to
\* avoid deadlocks": the done script never sleeps in open() while the only
\* reader of its pipe waits for that script, or for the thread that does.
DoneScriptHasReader ==
    ~ /\ "sender" \in donePipe.asleep
      /\ dequeuer \in {"lock", "system"}
=============================================================================
