----------------------------- MODULE MotionLoop -----------------------------
(***************************************************************************)
(* One detection thread of the motion engine: motion_loop of motion.c, the *)
(* image ring it fills, the three preview pictures CyPRUS added, and the   *)
(* event handlers of event.c and picture.c it calls.                       *)
(*                                                                         *)
(* Every captured image carries the number of its capture as identity;     *)
(* its pixels are left out.  `score' stands for what the detection found:  *)
(* the changed pixels (output_pictures best) or the distance from the      *)
(* centre (output_pictures center), 0 when diffs does not exceed the       *)
(* threshold.  Seconds pass between two iterations as the environment      *)
(* likes, so each test of a time against an option is a choice.  As in the *)
(* motion.conf of the board, tracking, lightswitch and snapshots are off.  *)
(***************************************************************************)
EXTENDS Naturals, Sequences, FiniteSets

CONSTANTS
  Confs,          \* the option records the thread may start with or be given
  Scores,         \* scores of an image with motion
  MaxCaptures,    \* bound: captures in a behaviour
  MaxOrders,      \* bound: orders from outside in a behaviour
  StartupFrames,  \* conf.frame_limit * 2 in motion_init
  MovedFrames,    \* 8 in motion_init: frames in which no motion counts
  Overs,          \* the values of `shot >= frame_limit' an image may have
  Orders          \* what the control interface and the signals may do

ASSUME LoopAssumption ==
  /\ Scores \subseteq Nat \ {0}
  /\ {MaxCaptures, MaxOrders, StartupFrames, MovedFrames} \subseteq Nat
  /\ Overs \subseteq BOOLEAN
  /\ Orders \subseteq {"makemovie", "finish", "quit", "config", "restart"}
  /\ \A c \in Confs :
       /\ {c.pre_capture, c.minimum_motion_frames, c.event_gap,
           c.post_capture} \subseteq Nat
       /\ c.minimum_motion_frames > 0
       /\ {c.useextpipe, c.emulate_motion, c.max_movie_time} \subseteq BOOLEAN
       /\ c.output_pictures \in {"on", "off", "first", "best", "center"}

VARIABLES
  pc,             \* "start", "top", "frame" or "exit": where motion_loop is
  conf,           \* cnt->conf, written by the control interface at any time
  new_img,        \* output_pictures as of the last full second
  image_ring, image_ring_in, image_ring_out,
  current_image,  \* "null", "live" or "freed": what cnt->current_image is
  captured,       \* captures so far
  in_event,       \* event_nr = prev_event
  detecting_motion, postcap, startup_frames, moved,
  makemovie, cnt_finish,
  extpipe,        \* NULL, or a pipe that was opened and maybe closed since
  extpipe_open,
  preview,        \* preview_image, preview_image2 and preview_image3
  loopLog         \* history: what the last iteration sent, saved and broke

loopVars == <<pc, conf, new_img, image_ring, image_ring_in, image_ring_out,
              current_image, captured, in_event, detecting_motion, postcap,
              startup_frames, moved, makemovie, cnt_finish, extpipe,
              extpipe_open, preview, loopLog>>

-----------------------------------------------------------------------------
(* Images and the ring *)

\* A slot as mymalloc returns it, and as memset leaves it.
Cleared ==
  [id |-> 0, diffs |-> 0, cent_dist |-> 0, motion |-> FALSE,
   trigger |-> FALSE, save |-> FALSE, saved |-> FALSE, over |-> FALSE]

SizeOf(ring) == Cardinality(DOMAIN ring)
Wrap(ring, i) == IF i >= SizeOf(ring) THEN 0 ELSE i
\* (Fault: the slot before the first is the first.)
BeforeUnwrapped(ring, i) == IF i = 0 THEN 0 ELSE i - 1
Before(ring, i) == IF i = 0 THEN SizeOf(ring) - 1 ELSE i - 1
After(ring, i) == IF i < SizeOf(ring) - 1 THEN i + 1 ELSE 0

Least(a, b) == IF a < b THEN a ELSE b

\* The frame_buffer_size the options ask for.
BufferSize(c) == c.pre_capture + c.minimum_motion_frames + 2

\* (Fault: the ring is resized in an event, and wherever the last image is.)
AlwaysResize(new_size) == new_size # SizeOf(image_ring)
\* Only outside an event, and only when the last image went into the last
\* slot of the smaller of the two buffers.
MayResize(new_size) ==
  LET smallest == Least(new_size, SizeOf(image_ring)) IN
  /\ new_size # SizeOf(image_ring)
  /\ ~in_event
  /\ smallest = 0 \/ image_ring_in = smallest - 1

image_ring_resize(new_size) ==
  IF MayResize(new_size)
  THEN [i \in 0 .. new_size - 1 |->
          IF i \in DOMAIN image_ring THEN image_ring[i] ELSE Cleared]
  ELSE image_ring

-----------------------------------------------------------------------------
(* Preview pictures *)

Snap(img1, img2, img3) ==
  [by |-> new_img, ids |-> <<img1.id, img2.id, img3.id>>, diffs |-> img1.diffs,
   cent_dist |-> img1.cent_dist, trigger |-> img1.trigger]

\* save_three_preview of slot i with the slots before and after it.  A ring
\* has pre_capture + minimum_motion_frames + 2 slots, three or more, but one
\* right after motion_init.
ThreePreview(ring, i) ==
  IF SizeOf(ring) >= 3
  THEN Snap(ring[i], ring[Before(ring, i)], ring[After(ring, i)])
  ELSE Snap(ring[i], ring[i], ring[After(ring, i)])

\* image_save_as_preview keeps the second and third picture of the event.
SaveAsPreview(img, old) ==
  [by |-> new_img, ids |-> [old.ids EXCEPT ![1] = img.id],
   diffs |-> IF img.diffs = 0 THEN 1 ELSE img.diffs,
   cent_dist |-> img.cent_dist, trigger |-> img.trigger]

\* Of the slots S, sent in the order of `rank', the one whose picture ends up
\* as the preview: the first of those that beat all others and the old one.
Better(ring, a, b) ==
  IF new_img = "best" THEN ring[a].diffs > ring[b].diffs
                      ELSE ring[a].cent_dist < ring[b].cent_dist
BeatsPreview(img, old) ==
  CASE new_img = "best"   -> img.diffs > old.diffs
    [] new_img = "center" -> img.cent_dist < old.cent_dist
    [] OTHER              -> FALSE

PreviewAfter(ring, slots, old) ==
  LET winners == {k \in DOMAIN slots :
                    /\ ring[slots[k]].motion
                    /\ BeatsPreview(ring[slots[k]], old)}
      first == CHOOSE k \in winners :
                 \A j \in winners : ~Better(ring, slots[j], slots[k])
                                    /\ (j < k => Better(ring, slots[k], slots[j]))
  IN IF winners = {} THEN old
     ELSE IF new_img = "best" THEN SaveAsPreview(ring[slots[first]], old)
     ELSE ThreePreview(ring, slots[first])

-----------------------------------------------------------------------------
(* process_image_ring *)

\* What the thread works on while it ends an iteration.
Work(ring, out, pv) ==
  [ring |-> ring, out |-> out, preview |-> pv, sent |-> <<>>, oob |-> FALSE]

Pending(img) == img.save /\ ~img.saved

\* (Fault: IMAGE_SAVED is forgotten.)
NothingMarked(ring, slots) == ring
\* Mark the images as saved, and increment to the image after the last sent.
MarkSaved(ring, slots) ==
  [i \in DOMAIN ring |-> [ring[i] EXCEPT !.saved = @ \/ i \in slots]]
NextOut(ring, out, count) == (out + count) % SizeOf(ring)

\* As many images from image_ring_out on, at most `max', as are to be saved and not
\* saved yet, until out has caught up with in.  The test comes after the first image,
\* so an empty ring (out = in) is a full one.
SlotAt(ring, out, k) == (out + k) % SizeOf(ring)
Ahead(ring, out) == IF out = image_ring_in THEN SizeOf(ring)
                    ELSE (image_ring_in + SizeOf(ring) - out) % SizeOf(ring)
InARow(ring, out, max) ==
  LET counts == {c \in 0 .. Least(max, Ahead(ring, out)) :
                   \A k \in 0 .. c - 1 : Pending(ring[SlotAt(ring, out, k)])}
  IN CHOOSE c \in counts : \A d \in counts : d <= c

\* The image that is put into the movie or on the disk: none, for 0, of an empty slot
\* or from an image beyond frame_limit.
Put(img) == IF img.over THEN 0 ELSE img.id

process_image_ring(w, max) ==
  LET slots == [k \in 1 .. InARow(w.ring, w.out, max) |-> SlotAt(w.ring, w.out, k - 1)]
  IN IF w.out >= SizeOf(w.ring) THEN [w EXCEPT !.oob = TRUE]
     ELSE [ring    |-> MarkSaved(w.ring, {slots[k] : k \in DOMAIN slots}),
           out     |-> NextOut(w.ring, w.out, Len(slots)),
           preview |-> PreviewAfter(w.ring, slots, w.preview),
           sent    |-> w.sent \o [k \in DOMAIN slots |-> Put(w.ring[slots[k]])],
           oob     |-> w.oob]

-----------------------------------------------------------------------------
(* The thread starts, leaves and is started again *)

NoPreview == [by |-> "off", ids |-> <<0, 0, 0>>, diffs |-> 0, cent_dist |-> 0, trigger |-> FALSE]
NoImages == [i \in {} |-> Cleared]
NewLog == [orders |-> 0, sent |-> <<>>, last |-> 0, saved |-> <<>>, quit |-> FALSE,
           cut |-> FALSE, oob |-> FALSE, left |-> FALSE, mixed |-> FALSE]

LoopInit ==
  /\ pc = "start" /\ conf \in Confs /\ new_img = "off"
  /\ image_ring = NoImages /\ image_ring_in = 0 /\ image_ring_out = 0
  /\ current_image = "null" /\ captured = 0 /\ in_event = FALSE
  /\ detecting_motion = FALSE /\ postcap = 0 /\ startup_frames = 0
  /\ moved = 0 /\ makemovie = FALSE /\ cnt_finish = FALSE
  /\ extpipe = FALSE /\ extpipe_open = FALSE
  /\ preview = NoPreview /\ loopLog = NewLog

\* Something from outside the loop may still happen; it is counted.
MayOrder(order) == order \in Orders /\ loopLog.orders < MaxOrders
Ordered(entry) == [entry EXCEPT !.orders = @ + 1]

\* motion_init: a ring of one image, no event, and a stream server whose
\* port may be taken.  The indices of the ring, the pipe, postcap and the
\* previews are what an earlier run of the thread left.
motion_init ==
  /\ pc = "start"
  /\ image_ring' = [i \in {0} |-> Cleared]
  /\ in_event' = FALSE /\ detecting_motion' = FALSE /\ makemovie' = FALSE
  /\ moved' = MovedFrames /\ startup_frames' = StartupFrames
  /\ cnt_finish' \in {cnt_finish, TRUE}
  /\ pc' = "top"
  /\ UNCHANGED <<conf, new_img, image_ring_in, image_ring_out, current_image,
                 captured, postcap, extpipe, extpipe_open, preview, loopLog>>

\* The ring goes; its indices, the image last pointed to and the pipe stay.
motion_cleanup ==
  /\ image_ring' = NoImages
  /\ current_image' = IF current_image = "null" THEN "null" ELSE "freed"

\* err:
Leave(entry) ==
  /\ pc' = "exit" /\ motion_cleanup /\ cnt_finish' = FALSE
  /\ loopLog' = [entry EXCEPT !.sent = <<>>, !.saved = <<>>]
  /\ UNCHANGED <<conf, new_img, image_ring_in, image_ring_out, captured,
                 in_event, detecting_motion, postcap, startup_frames, moved,
                 makemovie, extpipe, extpipe_open, preview>>

\* motion_init gives up: the frame size is not one it takes.
LoopInitFails == pc = "start" /\ Leave(loopLog)

Continues == ~cnt_finish \/ makemovie

\* The test of the main loop fails.
LoopLeaves == pc = "top" /\ ~Continues /\ Leave(loopLog)

\* break: the camera has, or wants, other dimensions than the buffers.
CameraChanged ==
  pc = "top" /\ Continues /\ MayOrder("restart") /\ Leave(Ordered([loopLog EXCEPT !.left = TRUE]))

\* main starts the thread again, with the context it had.
Restarted ==
  /\ pc = "exit" /\ loopLog.left /\ captured < MaxCaptures
  /\ pc' = "start"
  /\ UNCHANGED <<conf, new_img, image_ring, image_ring_in, image_ring_out,
                 current_image, captured, in_event, detecting_motion, postcap,
                 startup_frames, moved, makemovie, cnt_finish, extpipe,
                 extpipe_open, preview, loopLog>>

-----------------------------------------------------------------------------
(* First half of an iteration: a slot, an image, the detection *)

\* What `current_image = old_image' copies when this frame is not processed:
\* the image before, or, after the ring was moved or freed, any flags.
OldImage(ring, slot) ==
  CASE current_image = "null" -> {ring[slot]}
    [] current_image = "live" /\ ring = image_ring -> {ring[image_ring_in]}
    [] OTHER -> {[Cleared EXCEPT !.save = any] : any \in BOOLEAN}

\* The changed pixels of the new image: those of the image before when this
\* frame is not processed, none while the camera is taken to be moving.
Diffs(processed, score, old) ==
  IF moved > 0 THEN 0 ELSE IF processed THEN score ELSE old

\* The image that goes into the next slot, and the oldest image, which is thrown
\* away when the ring is full.
NewImage(old, processed, score, over) ==
  [old EXCEPT !.id = captured + 1, !.over = over, !.diffs = Diffs(processed, score, @)]
Oldest(ring, slot) ==
  IF slot = image_ring_out THEN Wrap(ring, image_ring_out + 1) ELSE image_ring_out

Capture ==
  /\ pc = "top" /\ Continues /\ captured < MaxCaptures
  /\ \E processed \in BOOLEAN, score \in Scores \cup {0}, over \in Overs :
       LET ring == image_ring_resize(BufferSize(conf))
           slot == Wrap(ring, image_ring_in + 1)
       IN \E old \in IF processed THEN {Cleared} ELSE OldImage(ring, slot) :
            /\ processed \/ score = 0
            /\ image_ring' = [ring EXCEPT ![slot] = NewImage(old, processed, score, over)]
            /\ image_ring_in' = slot /\ image_ring_out' = Oldest(ring, slot)
  /\ loopLog' = [loopLog EXCEPT !.sent = <<>>, !.saved = <<>>]
  /\ captured' = captured + 1 /\ current_image' = "live"
  /\ moved' = IF moved > 0 THEN moved - 1 ELSE 0
  /\ startup_frames' = IF startup_frames > 0 THEN startup_frames - 1 ELSE 0
  /\ pc' = "frame"
  /\ UNCHANGED <<conf, new_img, in_event, detecting_motion, postcap, makemovie,
                 cnt_finish, extpipe, extpipe_open, preview>>

-----------------------------------------------------------------------------
(* Second half: is it motion, is the event over, what is to be sent *)

Moving(img) == img.motion \/ img.diffs > 0

\* Images with motion among the last minimum_motion_frames of the ring.
frame_count ==
  LET n == SizeOf(image_ring)
      back(k) == (image_ring_in + n * conf.minimum_motion_frames - k) % n
  IN Cardinality({k \in 0 .. conf.minimum_motion_frames - 1 :
       image_ring[back(k)].motion \/ (back(k) = image_ring_in
                                        /\ Moving(image_ring[back(k)]))})

Recording == conf.useextpipe /\ extpipe

\* The four ways the flags of the new image are decided.
Emulated  == conf.emulate_motion /\ startup_frames = 0
WithMotion == ~Emulated /\ startup_frames = 0 /\ Moving(image_ring[image_ring_in])
Sustained == WithMotion /\ frame_count >= conf.minimum_motion_frames
PostCapture == ~Emulated /\ ~Sustained /\ postcap > 0 /\ Recording
Trigger == Emulated \/ Sustained

\* Flags and cent_dist as motion_detected and its caller leave them.
Flagged ==
  LET cur  == image_ring[image_ring_in]
      dist == IF (Emulated \/ WithMotion) /\ new_img = "center"
              THEN cur.diffs ELSE cur.cent_dist
  IN [i \in DOMAIN image_ring |->
        IF i = image_ring_in
        THEN [cur EXCEPT !.motion = Moving(cur), !.cent_dist = dist,
                !.trigger = @ \/ Trigger, !.save = @ \/ Trigger \/ PostCapture]
        ELSE [image_ring[i] EXCEPT !.save = @ \/ Sustained]]

\* EVENT_FIRSTMOTION
FirstMotion == Trigger /\ ~in_event
\* popen may fail, and then the event has no movie.
event_create_extpipe == {FALSE, FirstMotion /\ conf.useextpipe}

\* "always save first motion frame as preview-shot"
Detected(ring) ==
  IF FirstMotion /\ new_img \in {"first", "best", "center"}
  THEN LET img == ring[image_ring_in] IN Snap(img, img, img)
  ELSE preview

\* (Fault: the preview is not reset.)
PreviewKept(w) == w
\* preview_save writes the preview; its diffs say there is nothing more to save.
preview_save(w) == [w EXCEPT !.preview.diffs = 0]

\* put_picture three times: only the third one tells on_picture_save, and
\* "denied" ends the thread.
Outcomes == {"ok", "denied", "unavailable"}

\* Without event_gap the event ends with the first image that shows no motion.
Gapless == /\ ~Emulated /\ ~WithMotion /\ ~PostCapture
           /\ conf.event_gap = 0 /\ detecting_motion

\* `long': more than max_movie_time in this event; `gap': event_gap or more since
\* the last image to be saved.
Overdue(long) == makemovie \/ Gapless \/ long
EventEnds(long, gap) == (Overdue(long) \/ gap) /\ (in_event \/ FirstMotion \/ Overdue(long))

\* The flush of an event leaves the newest image; the images after it are sent after
\* EVENT_ENDMOTION.
Begun == Work(Flagged, image_ring_out, Detected(Flagged))
Flushed(ends) == IF ends THEN process_image_ring(Begun, SizeOf(image_ring)) ELSE Begun
Shoots(ends, flush) == ends /\ flush.preview.diffs > 0
Done(flush, shoots) == process_image_ring(IF shoots THEN preview_save(flush) ELSE flush, 2)

\* The last image that was put.
LastPut(sent, last) ==
  LET put == {k \in DOMAIN sent : sent[k] # 0}
  IN IF put = {} THEN last ELSE sent[CHOOSE k \in put : \A j \in put : j <= k]

LogAfter(ends, flush, shoots, done, third) ==
  [loopLog EXCEPT
     !.sent = done.sent, !.last = LastPut(done.sent, @),
     !.saved = IF shoots THEN <<flush.preview, third = "ok">> ELSE <<>>,
     !.cut = @ \/ (ends /\ \E i \in DOMAIN flush.ring : Pending(flush.ring[i])),
     !.oob = @ \/ done.oob]

postcap_next(ends) ==
  IF ends THEN 0
  ELSE IF Sustained \/ (Emulated /\ Recording) THEN conf.post_capture
  ELSE IF PostCapture THEN postcap - 1 ELSE postcap

Finish(ends, make, flush, shoots, done, opened, third, other) ==
  /\ image_ring' = done.ring /\ image_ring_out' = done.out /\ preview' = done.preview
  /\ in_event' = ((in_event \/ FirstMotion) /\ ~ends)
  /\ detecting_motion' = (Trigger \/ (detecting_motion /\ (WithMotion \/ PostCapture)))
  /\ postcap' = postcap_next(ends)
  /\ makemovie' = (make /\ ~ends)
  /\ cnt_finish' = (cnt_finish \/ "denied" \in {third, other})
  /\ extpipe' = (extpipe \/ opened) /\ extpipe_open' = ((extpipe_open \/ opened) /\ ~ends)
  /\ loopLog' = LogAfter(ends, flush, shoots, done, third)

\* Once in a second: output_pictures may have been changed.
Updated == {new_img, conf.output_pictures}

\* The rest of the iteration, from the flags to the next test of the loop.
Act ==
  /\ pc = "frame" /\ pc' = "top"
  /\ \E long \in {FALSE, conf.max_movie_time /\ in_event},
        gap \in {FALSE, conf.event_gap > 0 /\ ~Flagged[image_ring_in].save} :
       LET ends   == EventEnds(long, gap)
           flush  == Flushed(ends)
           shoots == Shoots(ends, flush)
           done   == Done(flush, shoots)
       IN \E opened \in event_create_extpipe, third, other \in IF shoots THEN Outcomes ELSE {"ok"} :
            Finish(ends, Overdue(long), flush, shoots, done, opened, third, other)
  /\ new_img' \in Updated
  /\ UNCHANGED <<conf, image_ring_in, current_image, captured, startup_frames, moved>>

-----------------------------------------------------------------------------
(* What the control interface, the signals and the watchdog do meanwhile *)

Order(order) == pc \in {"top", "frame"} /\ MayOrder(order)
Untouched == <<pc, new_img, image_ring, image_ring_in, image_ring_out, current_image,
          captured, in_event, detecting_motion, postcap, startup_frames, moved,
          extpipe, extpipe_open, preview>>

\* action/makemovie, and SIGUSR1.
OrderMovie ==
  /\ Order("makemovie") /\ makemovie' = TRUE /\ loopLog' = Ordered(loopLog)
  /\ UNCHANGED <<Untouched, conf, cnt_finish>>

\* (Fault: the thread is told to finish, the movie is not.)
QuitWithoutMovie ==
  /\ Order("quit") /\ makemovie' = makemovie /\ cnt_finish' = TRUE
  /\ loopLog' = Ordered([loopLog EXCEPT !.quit = TRUE])
  /\ UNCHANGED <<Untouched, conf>>
\* SIGTERM and action/quit: makemovie and finish, in adjacent stores.
OrderQuit ==
  /\ Order("quit") /\ makemovie' = TRUE /\ cnt_finish' = TRUE
  /\ loopLog' = Ordered([loopLog EXCEPT !.quit = TRUE])
  /\ UNCHANGED <<Untouched, conf>>

\* The watchdog of main asks the thread to end.
OrderFinish ==
  /\ Order("finish") /\ cnt_finish' = TRUE /\ loopLog' = Ordered(loopLog)
  /\ UNCHANGED <<Untouched, conf, makemovie>>

\* What is a preview, or what starts an event, becomes another.
Mixes(new) == \/ new.output_pictures # conf.output_pictures
              \/ new.emulate_motion # conf.emulate_motion
\* config/set
OrderConfig ==
  /\ Order("config") /\ conf' \in Confs \ {conf}
  /\ loopLog' = Ordered([loopLog EXCEPT !.mixed = @ \/ Mixes(conf')])
  /\ UNCHANGED <<Untouched, makemovie, cnt_finish>>

Loop == motion_init \/ LoopInitFails \/ LoopLeaves \/ Capture \/ Act
Orderly == OrderMovie \/ OrderQuit \/ OrderFinish \/ OrderConfig
LoopNext == Loop \/ CameraChanged \/ Restarted \/ Orderly
LoopSpec == LoopInit /\ [][LoopNext]_loopVars

-----------------------------------------------------------------------------
(* Properties *)

\* Images go to the movie and the disk in the order of their capture, each
\* of them once.
Rising(seq, last) ==
  /\ \A k \in DOMAIN seq : seq[k] # 0 => seq[k] > last
  /\ \A j, k \in DOMAIN seq : j < k /\ seq[j] # 0 /\ seq[k] # 0 => seq[j] < seq[k]
SentInOrder == [][loopLog'.sent # loopLog.sent => Rising(loopLog'.sent, loopLog.last)]_loopVars

\* No capture takes an image the loop has marked IMAGE_SAVE out of the ring before it
\* was sent, as long as image_ring_out is in the ring: neither the image that comes into
\* a full ring does, nor, during an event, the size the options ask for.
SaveIsSent ==
  [][Capture /\ ~loopLog.oob /\ (in_event \/ DOMAIN image_ring' = DOMAIN image_ring) =>
       \A i \in DOMAIN image_ring :
         Pending(image_ring[i]) /\ image_ring[i].id > 0 =>
           i \in DOMAIN image_ring' /\ image_ring'[i].id = image_ring[i].id]_loopVars

\* After SIGTERM the actual movie is finished before the thread ends.
QuitEndsMovie == pc = "exit" /\ loopLog.quit /\ ~loopLog.left => ~extpipe_open

\* "Set idx2 to the image before idx1", "Set idx3 to the image after idx1":
\* with output_pictures center the three pictures of an event are one, or were
\* captured in a row.
Adjacent(saved) ==
  saved # <<>> /\ saved[1].by = "center" =>
    LET ids == saved[1].ids IN
    ids \in {<<ids[1], ids[1], ids[1]>>, <<ids[1], ids[1] - 1, ids[1] + 1>>}

\* They are, when the first picture triggered, no event was ended on an image that was
\* still to be sent, and neither output_pictures nor emulate_motion was changed meanwhile.
TriggerNeighbours ==
  loopLog.saved # <<>> /\ loopLog.saved[1].trigger =>
    loopLog.cut \/ loopLog.left \/ loopLog.mixed \/ Adjacent(loopLog.saved)

\* Between two events nothing is left of the preview of the first, unless the
\* event was ended on an image with motion or the thread left in its middle.
NoStalePreview ==
  pc = "top" /\ ~in_event /\ ~loopLog.cut /\ ~loopLog.left => preview.diffs = 0
=============================================================================
