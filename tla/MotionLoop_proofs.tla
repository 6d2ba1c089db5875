-------------------------- MODULE MotionLoop_proofs --------------------------
(***************************************************************************)
(* The detection thread, for every configuration, every score and any      *)
(* number of captures and of orders from outside: the movie a quitting     *)
(* thread still finishes, the order of the images that leave the ring, the *)
(* marked ones that stay until they are sent, the preview between two      *)
(* events, and the neighbours of the image that triggered.                 *)
(***************************************************************************)
EXTENDS MotionLoop, Integers, FiniteSetTheorems, SequenceTheorems,
        WellFoundedInduction, TLAPS

LogFields == {"orders", "sent", "last", "saved", "quit", "cut", "oob", "left", "mixed"}
Places == {"start", "top", "frame", "exit"}

-----------------------------------------------------------------------------
(* The last movie *)

\* As long as the movie is open, a thread that is told to quit has it still to make.
MovieInv ==
  /\ pc \in Places
  /\ DOMAIN loopLog = LogFields
  /\ loopLog.quit /\ ~loopLog.left =>
       /\ pc = "top" => cnt_finish /\ (makemovie \/ ~extpipe_open)
       /\ pc = "frame" => cnt_finish /\ makemovie
       /\ pc = "exit" => ~extpipe_open
       /\ pc # "start"

\* After SIGTERM or action/quit the actual movie is finished before the thread
\* ends: `makemovie' keeps the loop going until EVENT_ENDMOTION closed the pipe.
THEOREM MovieIsEnded == LoopSpec => []QuitEndsMovie
<1>1. LoopInit => MovieInv
  BY DEF LoopInit, NewLog, MovieInv, LogFields, Places
<1>2. MovieInv /\ [LoopNext]_loopVars => MovieInv'
  <2> SUFFICES ASSUME MovieInv, [LoopNext]_loopVars PROVE MovieInv'
    OBVIOUS
  <2> USE DEF MovieInv, LogFields, Places
  <2>1. CASE motion_init
    BY <2>1 DEF motion_init
  <2>2. CASE LoopInitFails
    BY <2>2 DEF LoopInitFails, Leave
  <2>3. CASE LoopLeaves
    BY <2>3 DEF LoopLeaves, Leave, Continues
  <2>4. CASE CameraChanged
    BY <2>4 DEF CameraChanged, Leave, Ordered
  <2>5. CASE Capture
    <3>1. /\ pc = "top" /\ Continues /\ pc' = "frame"
          /\ UNCHANGED <<makemovie, cnt_finish, extpipe_open>>
          /\ loopLog' = [loopLog EXCEPT !.sent = <<>>, !.saved = <<>>]
      BY <2>5 DEF Capture
    <3>2. loopLog'.quit = loopLog.quit /\ loopLog'.left = loopLog.left /\ DOMAIN loopLog' = LogFields
      BY <3>1
    <3> QED BY <3>1, <3>2 DEF Continues
  <2>6. CASE Act
    <3>1. pc = "frame" /\ pc' = "top"
      BY <2>6 DEF Act
    <3>2. PICK long \in {FALSE, conf.max_movie_time /\ in_event},
                 gap \in {FALSE, conf.event_gap > 0 /\ ~Flagged[image_ring_in].save} :
            \E opened \in event_create_extpipe,
               third, other \in IF Shoots(EventEnds(long, gap), Flushed(EventEnds(long, gap))) THEN Outcomes ELSE {"ok"} :
              Finish(EventEnds(long, gap), Overdue(long), Flushed(EventEnds(long, gap)),
                     Shoots(EventEnds(long, gap), Flushed(EventEnds(long, gap))),
                     Done(Flushed(EventEnds(long, gap)), Shoots(EventEnds(long, gap), Flushed(EventEnds(long, gap)))),
                     opened, third, other)
      BY <2>6 DEF Act
    <3> DEFINE ends == EventEnds(long, gap)
               make == Overdue(long)
               flush == Flushed(ends)
               shoots == Shoots(ends, flush)
               done == Done(flush, shoots)
    <3>2a. PICK opened, third, other :
             Finish(ends, make, flush, shoots, done, opened, third, other)
      BY <3>2
    <3>2b. make => ends
      BY DEF EventEnds
    <3>2c. makemovie => make
      BY DEF Overdue
    <3> HIDE DEF ends, make, flush, shoots, done
    <3>3. loopLog'.quit = loopLog.quit /\ loopLog'.left = loopLog.left /\ DOMAIN loopLog' = LogFields
      BY <3>2a, <3>2b, <3>2c DEF Finish, LogAfter
    <3>4. cnt_finish => cnt_finish'
      BY <3>2a, <3>2b, <3>2c DEF Finish
    <3>5. makemovie => ~extpipe_open'
      BY <3>2a, <3>2b, <3>2c DEF Finish
    <3> QED BY <3>1, <3>3, <3>4, <3>5
  <2>7. CASE Restarted
    BY <2>7 DEF Restarted
  <2>8. CASE OrderMovie
    BY <2>8 DEF OrderMovie, Order, Ordered, Untouched
  <2>9. CASE OrderQuit
    BY <2>9 DEF OrderQuit, Order, Ordered, Untouched
  <2>10. CASE OrderFinish
    BY <2>10 DEF OrderFinish, Order, Ordered, Untouched
  <2>11. CASE OrderConfig
    BY <2>11 DEF OrderConfig, Order, Ordered, Untouched
  <2>12. CASE UNCHANGED loopVars
    BY <2>12 DEF loopVars
  <2> QED BY <2>1, <2>2, <2>3, <2>4, <2>5, <2>6, <2>7, <2>8, <2>9, <2>10, <2>11, <2>12
          DEF LoopNext, Loop, Orderly
<1>3. MovieInv => QuitEndsMovie
  BY DEF MovieInv, QuitEndsMovie
<1> QED BY <1>1, <1>2, <1>3, PTL DEF LoopSpec

-----------------------------------------------------------------------------
(* Arithmetic of the ring *)

\* A bounded set of numbers that is not empty has a greatest one.
LEMMA MaxExists ==
  ASSUME NEW m \in Nat, NEW S, S \subseteq 0 .. m, S # {}
  PROVE  \E c \in S : \A d \in S : d <= c
<1> DEFINE T == {c .. m : c \in S}
<1>1. T \subseteq FiniteSubsetsOf(Nat) /\ T # {}
  <2>1. \A c \in S : c \in Nat /\ IsFiniteSet(c .. m) /\ (c .. m) \subseteq Nat
    BY FS_Interval
  <2> QED BY <2>1 DEF FiniteSubsetsOf
<1>2. PICK x \in T : \A y \in T : <<y, x>> \notin StrictSubsetOrdering(Nat)
  BY <1>1, FS_StrictSubsetOrderingWellFounded, WFMin
<1>3. PICK c \in S : x = c..m
  OBVIOUS
<1>4. \A d \in S : d <= c
  <2> SUFFICES ASSUME NEW d \in S, d > c PROVE FALSE
    OBVIOUS
  <2>1. d..m \subseteq Nat /\ c..m \subseteq Nat /\ d..m \subseteq c..m /\ d..m # c..m
    OBVIOUS
  <2>2. <<d..m, c..m>> \in StrictSubsetOrdering(Nat)
    BY <2>1 DEF StrictSubsetOrdering
  <2> QED BY <1>2, <1>3, <2>2
<1> QED BY <1>4

\* A remainder of less than twice the size takes at most one subtraction.
LEMMA Mod ==
  ASSUME NEW n \in Nat, n > 0, NEW a \in 0 .. 2 * n - 1
  PROVE  a % n = IF a < n THEN a ELSE a - n
OBVIOUS

Image == [id : Nat, diffs : Nat, cent_dist : Nat, motion : BOOLEAN, trigger : BOOLEAN,
          save : BOOLEAN, saved : BOOLEAN, over : BOOLEAN]

RingOf(ring, n) == n \in Nat /\ ring \in [0 .. n - 1 -> Image]

\* image_ring_size is the number of slots.
LEMMA SizeIs ==
  ASSUME NEW n, NEW ring, RingOf(ring, n)
  PROVE  SizeOf(ring) = n
BY FS_Interval DEF RingOf, SizeOf

\* The slot k after `out' in a ring of n.
Around(n, out, k) == IF out + k < n THEN out + k ELSE out + k - n

\* The image in slot i was captured before the one in slot j.
Older(in, i, j) == (i > in /\ j <= in) \/ ((i > in <=> j > in) /\ i < j)

\* Images are in the ring in the order of their capture.
Aged(ring, in) ==
  \A i, j \in DOMAIN ring :
    Older(in, i, j) /\ ring[i].id > 0 /\ ring[j].id > 0 => ring[i].id < ring[j].id

\* Slot i is one of those from image_ring_out to image_ring_in.
Held(in, out, i) == IF out <= in THEN out <= i /\ i <= in ELSE i >= out \/ i <= in

\* The slots process_image_ring steps through are those of the ring.
LEMMA SlotIsAround ==
  ASSUME NEW n \in Nat, n > 0, NEW ring, RingOf(ring, n), NEW out \in 0 .. n - 1, NEW k \in 0 .. n
  PROVE  SlotAt(ring, out, k) = Around(n, out, k) /\ Around(n, out, k) \in 0 .. n - 1
<1>1. SizeOf(ring) = n
  BY SizeIs
<1>2. (out + k) % n = IF out + k < n THEN out + k ELSE out + k - n
  <2> out + k \in 0 .. 2 * n - 1
    OBVIOUS
  <2> HIDE DEF Around
  <2> QED BY Mod
<1> QED BY <1>1, <1>2 DEF SlotAt, Around

\* A run of slots from image_ring_out on is older than the rest that is held.
LEMMA RunIsOld ==
  ASSUME NEW n \in Nat, n > 0, NEW in \in 0 .. n - 1, NEW out \in 0 .. n - 1, out # in,
         NEW c \in Nat, c <= (IF in > out THEN in - out ELSE in + n - out)
  PROVE  /\ \A j, k \in 0 .. c - 1 : j < k => Older(in, Around(n, out, j), Around(n, out, k))
         /\ \A i \in 0 .. n - 1 : Held(in, out, i) /\ (\A k \in 0 .. c - 1 : i # Around(n, out, k)) =>
              /\ Held(in, Around(n, out, c), i)
              /\ \A k \in 0 .. c - 1 : Older(in, Around(n, out, k), i)
<1>1. \A j, k \in 0 .. c - 1 : j < k => Older(in, Around(n, out, j), Around(n, out, k))
  BY DEF Older, Around
<1>2. ASSUME NEW i \in 0 .. n - 1, Held(in, out, i), \A k \in 0 .. c - 1 : i # Around(n, out, k)
      PROVE  /\ Held(in, Around(n, out, c), i)
             /\ \A k \in 0 .. c - 1 : Older(in, Around(n, out, k), i)
  <2> DEFINE d == IF i >= out THEN i - out ELSE i + n - out
  <2>1. d \in 0 .. n - 1 /\ i = Around(n, out, d)
    BY DEF Around
  <2>2. d >= c
    BY <2>1, <1>2
  <2>3. Held(in, Around(n, out, c), i)
    BY <1>2, <2>2 DEF Held, Around
  <2>4. \A k \in 0 .. c - 1 : Older(in, Around(n, out, k), i)
    BY <1>2, <2>2 DEF Held, Around, Older
  <2> QED BY <2>3, <2>4
<1> QED BY <1>1, <1>2

\* InARow finds pending images only, no further than image_ring_in.
LEMMA RunIs ==
  ASSUME NEW n \in Nat, n > 0, NEW ring, RingOf(ring, n), NEW out \in 0 .. n - 1,
         image_ring_in \in 0 .. n - 1, NEW max \in Nat
  PROVE  /\ InARow(ring, out, max) \in 0 .. max
         /\ InARow(ring, out, max) <= Ahead(ring, out)
         /\ \A k \in 0 .. InARow(ring, out, max) - 1 : Pending(ring[SlotAt(ring, out, k)])
         /\ Ahead(ring, out) = IF out = image_ring_in THEN n
                               ELSE IF image_ring_in > out THEN image_ring_in - out
                               ELSE image_ring_in + n - out
<1>1. SizeOf(ring) = n
  BY SizeIs
<1>2. Ahead(ring, out) = IF out = image_ring_in THEN n
                         ELSE IF image_ring_in > out THEN image_ring_in - out
                         ELSE image_ring_in + n - out
  <2>1. image_ring_in + n - out \in 0 .. 2 * n - 1
    OBVIOUS
  <2>2. (image_ring_in + n - out) % n = IF image_ring_in + n - out < n THEN image_ring_in + n - out
                                        ELSE image_ring_in + n - out - n
    BY <2>1, Mod
  <2> QED BY <1>1, <2>2 DEF Ahead
<1>3. Least(max, Ahead(ring, out)) \in Nat /\ Least(max, Ahead(ring, out)) <= max
      /\ Least(max, Ahead(ring, out)) <= Ahead(ring, out)
  BY <1>2 DEF Least
<1> DEFINE m == Least(max, Ahead(ring, out))
           counts == {c \in 0 .. m : \A k \in 0 .. c - 1 : Pending(ring[SlotAt(ring, out, k)])}
<1>4. 0 \in counts /\ counts \subseteq 0 .. m
  BY <1>3
<1>5. \E c \in counts : \A d \in counts : d <= c
  <2> HIDE DEF counts, m
  <2> QED BY <1>4, <1>3, MaxExists DEF m
<1>6. InARow(ring, out, max) \in counts
  BY <1>5 DEF InARow
<1> QED BY <1>2, <1>3, <1>6
\* An image that was captured and that process_image_ring has not reached.
Unsent(img) == img.id > 0 /\ ~img.saved
WorkFields == {"ring", "out", "preview", "sent", "oob"}

\* The part of an iteration's work that is in order: what was sent rises from
\* `last' on, and what is not sent yet is newer and between out and in.
InWork(w, n, last) ==
  /\ DOMAIN w = WorkFields
  /\ RingOf(w.ring, n) /\ w.out \in Nat /\ w.sent \in Seq(Nat)
  /\ Aged(w.ring, image_ring_in)
  /\ \A i \in 0 .. n - 1 : w.ring[i].id <= captured
  /\ Rising(w.sent, last)
  /\ \A k \in DOMAIN w.sent : w.sent[k] <= captured
  /\ \A i \in 0 .. n - 1 : Unsent(w.ring[i]) =>
       /\ w.ring[i].id > last
       /\ \A k \in DOMAIN w.sent : w.sent[k] < w.ring[i].id
       /\ w.out < n => Held(image_ring_in, w.out, i)

\* Where the items of a concatenation come from.
LEMMA Joined ==
  ASSUME NEW s \in Seq(Nat), NEW t \in Seq(Nat)
  PROVE  /\ s \in Seq(Nat) /\ s \o t \in Seq(Nat) /\ Len(s \o t) = Len(s) + Len(t)
         /\ DOMAIN s = 1 .. Len(s)
         /\ DOMAIN (s \o t) = 1 .. Len(s) + Len(t)
         /\ \A k \in 1 .. Len(s) : (s \o t)[k] = s[k]
         /\ \A k \in 0 .. Len(t) - 1 : (s \o t)[Len(s) + k + 1] = t[k + 1]
         /\ \A k \in DOMAIN (s \o t) :
              \/ k \in 1 .. Len(s) /\ (s \o t)[k] = s[k]
              \/ \E j \in 0 .. Len(t) - 1 : k = Len(s) + j + 1 /\ (s \o t)[k] = t[j + 1]
<1>1. s \o t \in Seq(Nat) /\ Len(s \o t) = Len(s) + Len(t) /\ Len(s) \in Nat /\ Len(t) \in Nat
  OBVIOUS
<1>2. DOMAIN (s \o t) = 1 .. Len(s) + Len(t) /\ DOMAIN s = 1 .. Len(s)
  BY <1>1
<1>3. \A k \in 1 .. Len(s) + Len(t) : (s \o t)[k] = IF k <= Len(s) THEN s[k] ELSE t[k - Len(s)]
  BY ConcatProperties
<1>4. \A k \in 1 .. Len(s) : (s \o t)[k] = s[k]
  BY <1>1, <1>3
<1>5. ASSUME NEW k \in 0 .. Len(t) - 1 PROVE (s \o t)[Len(s) + k + 1] = t[k + 1]
  <2>1. /\ Len(s) + k + 1 \in 1 .. Len(s) + Len(t) /\ ~(Len(s) + k + 1 <= Len(s))
        /\ Len(s) + k + 1 - Len(s) = k + 1
    BY <1>1
  <2>2. (s \o t)[Len(s) + k + 1] = t[Len(s) + k + 1 - Len(s)]
    BY <2>1, <1>3
  <2> QED BY <2>1, <2>2
<1>6. ASSUME NEW k \in DOMAIN (s \o t), ~(k \in 1 .. Len(s))
      PROVE  \E j \in 0 .. Len(t) - 1 : k = Len(s) + j + 1 /\ (s \o t)[k] = t[j + 1]
  <2>1. k \in 1 .. Len(s) + Len(t)
    BY <1>2
  <2>2. k - Len(s) - 1 \in 0 .. Len(t) - 1 /\ k = Len(s) + (k - Len(s) - 1) + 1
    BY <2>1, <1>1, <1>6
  <2> QED BY <2>2, <1>5
<1> QED BY <1>1, <1>2, <1>4, <1>5, <1>6

\* process_image_ring keeps the work in order.
LEMMA ProcessKeepsOrder ==
  ASSUME NEW n \in Nat, n > 0, image_ring_in \in 0 .. n - 1, captured \in Nat, NEW last \in Nat,
         NEW max \in Nat, NEW w, InWork(w, n, last)
  PROVE  InWork(process_image_ring(w, max), n, last)
<1> DEFINE ring == w.ring
           out == w.out
           c == InARow(ring, out, max)
           At(k) == Around(n, out, k)
           slots == [k \in 1 .. c |-> SlotAt(ring, out, k - 1)]
           S == {slots[k] : k \in DOMAIN slots}
           add == [k \in DOMAIN slots |-> Put(ring[slots[k]])]
           v == process_image_ring(w, max)
<1>1. /\ RingOf(ring, n) /\ SizeOf(ring) = n /\ out \in Nat
      /\ \A i \in 0 .. n - 1 : ring[i] \in Image
      /\ DOMAIN ring = 0 .. n - 1
  BY SizeIs DEF InWork, RingOf
<1>2. CASE out >= n
  <2>1. v = [w EXCEPT !.oob = TRUE]
    BY <1>1, <1>2 DEF process_image_ring
  <2>2. v.ring = w.ring /\ v.out = w.out /\ v.sent = w.sent /\ DOMAIN v = WorkFields
    BY <2>1 DEF InWork, WorkFields
  <2>3. InWork(v, n, last)
    <3> HIDE DEF v
    <3> QED BY <2>2 DEF InWork
  <2> QED BY <2>3
<1>3. CASE out < n
  <2>0. out \in 0 .. n - 1 /\ RingOf(ring, n)
    BY <1>1, <1>3
  <2>1. /\ c \in Nat
        /\ c <= IF out = image_ring_in THEN n ELSE IF image_ring_in > out THEN image_ring_in - out
                ELSE image_ring_in + n - out
        /\ \A k \in 0 .. c - 1 : Pending(ring[SlotAt(ring, out, k)])
    <3> HIDE DEF ring, out, v, slots, S, add, At
    <3>1. c \in 0 .. max /\ c <= Ahead(ring, out)
      BY <2>0, RunIs
    <3>2. Ahead(ring, out) = IF out = image_ring_in THEN n ELSE IF image_ring_in > out THEN image_ring_in - out
                ELSE image_ring_in + n - out
      BY <2>0, RunIs
    <3>3. \A k \in 0 .. c - 1 : Pending(ring[SlotAt(ring, out, k)])
      BY <2>0, RunIs
    <3> HIDE DEF c
    <3> QED BY <3>1, <3>2, <3>3
  <2> HIDE DEF c
  <2>2. c <= n
    <3> HIDE DEF ring, out, v, slots, S, add, At
    <3> QED BY <2>1, <2>0
  <2>3. /\ \A k \in 0 .. n : SlotAt(ring, out, k) = At(k) /\ At(k) \in 0 .. n - 1
        /\ DOMAIN slots = 1 .. c
        /\ \A k \in 1 .. c : slots[k] = At(k - 1) /\ slots[k] \in 0 .. n - 1
    <3>1. \A k \in 0 .. n : SlotAt(ring, out, k) = At(k) /\ At(k) \in 0 .. n - 1
      <4> HIDE DEF ring, out, v, slots, S, add
      <4> QED BY <2>0, SlotIsAround
    <3>2. DOMAIN slots = 1 .. c /\ \A k \in 1 .. c : slots[k] = SlotAt(ring, out, k - 1)
      OBVIOUS
    <3>3. \A k \in 1 .. c : k - 1 \in 0 .. n
      BY <2>1, <2>2
    <3> HIDE DEF At, slots
    <3> QED BY <3>1, <3>2, <3>3
  <2>4. /\ v = [ring |-> MarkSaved(ring, S), out |-> NextOut(ring, out, Len(slots)),
                preview |-> PreviewAfter(ring, slots, w.preview),
                sent |-> w.sent \o add, oob |-> w.oob]
        /\ Len(slots) = c
    <3>1. Len(slots) = c
      BY <2>1
    <3>2. ~(w.out >= SizeOf(w.ring))
      BY <1>1, <1>3
    <3>3. v = [ring |-> MarkSaved(ring, S), out |-> NextOut(ring, out, Len(slots)),
                preview |-> PreviewAfter(ring, slots, w.preview),
                sent |-> w.sent \o add, oob |-> w.oob]
      BY <3>2, Zenon DEF process_image_ring, c
    <3> QED BY <3>1, <3>3
  <2> HIDE DEF v
  <2>5. v.out = At(c) /\ v.out \in 0 .. n - 1
    <3>1. v.out = SlotAt(ring, out, c)
      <4> HIDE DEF slots, S, add
      <4> QED BY <2>4 DEF NextOut, SlotAt
    <3> QED BY <3>1, <2>1, <2>2, <2>3
  <2>6. /\ v.ring = MarkSaved(ring, S) /\ v.sent = w.sent \o add /\ DOMAIN v = WorkFields
    <3> HIDE DEF slots, S, add
    <3> QED BY <2>4 DEF WorkFields
  <2>7. /\ DOMAIN v.ring = 0 .. n - 1
        /\ \A i \in 0 .. n - 1 : /\ v.ring[i] = [ring[i] EXCEPT !.saved = @ \/ i \in S]
    BY <2>6, <1>1 DEF MarkSaved
  <2>8. \A i \in 0 .. n - 1 : v.ring[i] \in Image /\ v.ring[i].id = ring[i].id
                              /\ v.ring[i].saved = (ring[i].saved \/ i \in S)
    <3> HIDE DEF S, ring, slots, add, At
    <3> SUFFICES ASSUME NEW i \in 0 .. n - 1
                 PROVE  v.ring[i] \in Image /\ v.ring[i].id = ring[i].id
                        /\ v.ring[i].saved = (ring[i].saved \/ i \in S)
      OBVIOUS
    <3>1. v.ring[i] = [ring[i] EXCEPT !.saved = ring[i].saved \/ i \in S] /\ ring[i] \in Image
      BY <2>7, <1>1
    <3>2. (ring[i].saved \/ i \in S) \in BOOLEAN
      OBVIOUS
    <3> QED BY <3>1, <3>2 DEF Image
  <2>9. RingOf(v.ring, n)
    <3>1. v.ring = [i \in 0 .. n - 1 |-> v.ring[i]]
      BY <2>6, <1>1 DEF MarkSaved
    <3> QED BY <3>1, <2>7, <2>8 DEF RingOf
  <2>10. Aged(v.ring, image_ring_in) /\ \A i \in 0 .. n - 1 : v.ring[i].id <= captured
    BY <2>7, <2>8, <1>1 DEF Aged, InWork
  <2>11. /\ add \in Seq(Nat) /\ Len(add) = c /\ DOMAIN add = 1 .. c
         /\ \A k \in 0 .. c - 1 : add[k + 1] # 0 =>
              Unsent(ring[At(k)]) /\ add[k + 1] = ring[At(k)].id
    <3>1. \A k \in 1 .. c : add[k] = Put(ring[At(k - 1)]) /\ ring[At(k - 1)] \in Image
      BY <2>3, <1>1
    <3>2. \A k \in 1 .. c : add[k] \in Nat
      BY <3>1 DEF Put, Image
    <3>3. add \in Seq(Nat) /\ Len(add) = c /\ DOMAIN add = 1 .. c
      <4> DEFINE f == add
      <4>1. DOMAIN add = 1 .. c
        BY <2>3
      <4> HIDE DEF slots
      <4>2. add = [k \in 1 .. c |-> add[k]]
        BY <4>1
      <4> HIDE DEF add
      <4> QED BY <4>1, <4>2, <3>2, <2>1, SeqDef
    <3>4. \A k \in 0 .. c - 1 : Pending(ring[At(k)])
      BY <2>1, <2>2, <2>3
    <3>5. ASSUME NEW k \in 0 .. c - 1, add[k + 1] # 0
          PROVE  Unsent(ring[At(k)]) /\ add[k + 1] = ring[At(k)].id
      <4>1. add[k + 1] = Put(ring[At(k)]) /\ ring[At(k)] \in Image
        <5> HIDE DEF add, At, ring
        <5> QED BY <3>1, <2>1
      <4> HIDE DEF add, At, ring
      <4> QED BY <4>1, <3>4, <3>5 DEF Put, Pending, Unsent, Image
    <3> QED BY <3>3, <3>5
  <2>12. \A i \in 0 .. n - 1 : Unsent(ring[i]) =>
           ring[i].id > last /\ (\A k \in DOMAIN w.sent : w.sent[k] < ring[i].id) /\ Held(image_ring_in, out, i)
    BY <1>3 DEF InWork
  <2>13. \A j, k \in 0 .. c - 1 : j < k /\ add[j + 1] # 0 /\ add[k + 1] # 0 => add[j + 1] < add[k + 1]
    <3> SUFFICES ASSUME NEW j \in 0 .. c - 1, NEW k \in 0 .. c - 1, j < k, add[j + 1] # 0, add[k + 1] # 0
                 PROVE  add[j + 1] < add[k + 1]
      OBVIOUS
    <3>1. /\ Unsent(ring[At(j)]) /\ add[j + 1] = ring[At(j)].id
          /\ Unsent(ring[At(k)]) /\ add[k + 1] = ring[At(k)].id
          /\ At(j) \in 0 .. n - 1 /\ At(k) \in 0 .. n - 1
      <4>1. j \in 0 .. n /\ k \in 0 .. n
        BY <2>2, <2>1
      <4>2. At(j) \in 0 .. n - 1 /\ At(k) \in 0 .. n - 1
        BY <4>1, <2>3
      <4> HIDE DEF At, slots, S, add, ring
      <4> QED BY <4>2, <2>11
    <3>2. CASE out = image_ring_in
      <4>1. At(j) = out /\ At(k) = out
        <5> HIDE DEF At, ring
        <5> QED BY <3>1, <2>12, <3>2 DEF Held
      <4> QED BY <4>1, <2>1, <2>2, <1>1, <1>3 DEF Around
    <3>3. CASE out # image_ring_in
      <4>1. Older(image_ring_in, At(j), At(k))
        <5>1. c <= IF image_ring_in > out THEN image_ring_in - out ELSE image_ring_in + n - out
          BY <2>1, <3>3
        <5> HIDE DEF ring, out
        <5> QED BY <5>1, <2>1, <1>1, <1>3, <3>3, RunIsOld
      <4> HIDE DEF At
      <4> QED BY <4>1, <3>1, <1>1 DEF Aged, InWork, Unsent
    <3> QED BY <3>2, <3>3
  <2>14. \A i \in 0 .. n - 1 : Unsent(v.ring[i]) =>
           /\ i \notin S /\ Unsent(ring[i])
           /\ Held(image_ring_in, v.out, i)
           /\ \A k \in 0 .. c - 1 : add[k + 1] # 0 => add[k + 1] < ring[i].id
    <3> SUFFICES ASSUME NEW i \in 0 .. n - 1, Unsent(v.ring[i])
                 PROVE  /\ i \notin S /\ Unsent(ring[i])
                        /\ Held(image_ring_in, v.out, i)
                        /\ \A k \in 0 .. c - 1 : add[k + 1] # 0 => add[k + 1] < ring[i].id
      OBVIOUS
    <3>1. i \notin S /\ Unsent(ring[i])
      <4> HIDE DEF S, ring
      <4> QED BY <2>8 DEF Unsent
    <3>2. \A k \in 0 .. c - 1 : i # At(k)
      <4> SUFFICES ASSUME NEW k \in 0 .. c - 1, i = At(k) PROVE FALSE
        OBVIOUS
      <4>0. i = At(k)
        OBVIOUS
      <4>1. k + 1 \in DOMAIN slots /\ slots[k + 1] = i
        <5> HIDE DEF At, slots
        <5>1. k + 1 \in 1 .. c /\ k + 1 - 1 = k
          BY <2>1
        <5>2. slots[k + 1] = At(k + 1 - 1)
          BY <5>1, <2>3
        <5> QED BY <5>1, <5>2, <2>3, <4>0
      <4> QED BY <4>1, <3>1
    <3>3. Held(image_ring_in, out, i)
      BY <3>1, <2>12
    <3>4. CASE out = image_ring_in
      <4>1. i = out
        BY <3>3, <3>4, <1>1 DEF Held
      <4>2. At(0) = out
        BY <1>1, <1>3 DEF Around
      <4>3. c = 0
        <5> HIDE DEF At
        <5> QED BY <4>1, <4>2, <3>2, <2>1
      <4>4. v.out = out
        BY <4>3, <4>2, <2>5
      <4> QED BY <3>1, <3>3, <4>3, <4>4
    <3>5. CASE out # image_ring_in
      <4>1. /\ Held(image_ring_in, At(c), i)
            /\ \A k \in 0 .. c - 1 : Older(image_ring_in, At(k), i)
        <5>1. c <= IF image_ring_in > out THEN image_ring_in - out ELSE image_ring_in + n - out
          BY <2>1, <3>5
        <5>2. \A x \in 0 .. n - 1 : Held(image_ring_in, out, x) /\ (\A k \in 0 .. c - 1 : x # At(k)) =>
              /\ Held(image_ring_in, At(c), x)
              /\ \A k \in 0 .. c - 1 : Older(image_ring_in, At(k), x)
          <6> HIDE DEF ring, out
          <6> QED BY <5>1, <2>1, <1>1, <1>3, <3>5, RunIsOld
        <5> HIDE DEF At
        <5> QED BY <5>2, <3>3, <3>2
      <4>2. ASSUME NEW k \in 0 .. c - 1, add[k + 1] # 0 PROVE add[k + 1] < ring[i].id
        <5>1. Unsent(ring[At(k)]) /\ add[k + 1] = ring[At(k)].id /\ At(k) \in 0 .. n - 1
          <6> HIDE DEF At, slots, S, add, ring
          <6> QED BY <4>2, <2>11, <2>3, <2>2, <2>1
        <5>2. Older(image_ring_in, At(k), i)
          BY <4>1
        <5> HIDE DEF At
        <5> QED BY <5>1, <5>2, <3>1, <1>1 DEF Aged, InWork, Unsent
      <4> HIDE DEF At
      <4> QED BY <3>1, <4>1, <4>2, <2>5
    <3> QED BY <3>4, <3>5
  <2> HIDE DEF add, S, At, slots
  <2>15. /\ w.sent \in Seq(Nat) /\ w.sent \o add \in Seq(Nat) /\ Len(w.sent \o add) = Len(w.sent) + c
         /\ DOMAIN w.sent = 1 .. Len(w.sent)
         /\ DOMAIN (w.sent \o add) = 1 .. Len(w.sent) + c
         /\ \A k \in 1 .. Len(w.sent) : (w.sent \o add)[k] = w.sent[k]
         /\ \A k \in 0 .. c - 1 : (w.sent \o add)[Len(w.sent) + k + 1] = add[k + 1]
    <3>1. w.sent \in Seq(Nat)
      BY DEF InWork
    <3>2. add \in Seq(Nat) /\ Len(add) = c
      BY <2>11
    <3> QED BY <3>1, <3>2, Joined
  <2>16. \A k \in DOMAIN v.sent :
           \/ k \in 1 .. Len(w.sent) /\ v.sent[k] = w.sent[k]
           \/ \E j \in 0 .. c - 1 : k = Len(w.sent) + j + 1 /\ v.sent[k] = add[j + 1]
    <3>1. w.sent \in Seq(Nat)
      BY DEF InWork
    <3>2. add \in Seq(Nat) /\ Len(add) = c
      BY <2>11
    <3>3. v.sent = w.sent \o add
      BY <2>6
    <3> DEFINE s == w.sent
               t == v.sent
    <3>4. \A k \in DOMAIN (s \o add) :
           \/ k \in 1 .. Len(s) /\ (s \o add)[k] = s[k]
           \/ \E j \in 0 .. Len(add) - 1 : k = Len(s) + j + 1 /\ (s \o add)[k] = add[j + 1]
      <4> HIDE DEF s
      <4> QED BY <3>1, <3>2, Joined DEF s
    <3>5. t = s \o add
      BY <3>3
    <3> HIDE DEF s, t
    <3>6. \A k \in DOMAIN t :
           \/ k \in 1 .. Len(s) /\ t[k] = s[k]
           \/ \E j \in 0 .. Len(add) - 1 : k = Len(s) + j + 1 /\ t[k] = add[j + 1]
      BY <3>4, <3>5
    <3> QED BY <3>6, <3>2 DEF s, t
  <2>17. ASSUME NEW k \in DOMAIN v.sent, v.sent[k] # 0 PROVE v.sent[k] > last /\ v.sent[k] <= captured
    <3>1. CASE k \in 1 .. Len(w.sent) /\ v.sent[k] = w.sent[k]
      BY <3>1, <2>17, <2>15 DEF InWork, Rising
    <3>2. CASE \E j \in 0 .. c - 1 : k = Len(w.sent) + j + 1 /\ v.sent[k] = add[j + 1]
      <4>1. PICK j \in 0 .. c - 1 : v.sent[k] = add[j + 1]
        BY <3>2
      <4>2. Unsent(ring[At(j)]) /\ v.sent[k] = ring[At(j)].id /\ At(j) \in 0 .. n - 1
        BY <4>1, <2>17, <2>11, <2>3, <2>2, <2>1
      <4> QED BY <4>2, <2>12 DEF InWork
    <3> QED BY <3>1, <3>2, <2>16
  <2>18. ASSUME NEW i \in DOMAIN v.sent, NEW j \in DOMAIN v.sent, i < j, v.sent[i] # 0, v.sent[j] # 0
         PROVE  v.sent[i] < v.sent[j]
    <3>1. CASE j \in 1 .. Len(w.sent)
      <4>1. i \in 1 .. Len(w.sent)
        BY <2>18, <3>1, <2>15, <2>6, <2>1
      <4> QED BY <4>1, <3>1, <2>18, <2>15, <2>6 DEF InWork, Rising
    <3>2. CASE \E b \in 0 .. c - 1 : j = Len(w.sent) + b + 1 /\ v.sent[j] = add[b + 1]
      <4>1. PICK b \in 0 .. c - 1 : j = Len(w.sent) + b + 1 /\ v.sent[j] = add[b + 1]
        BY <3>2
      <4>2. Unsent(ring[At(b)]) /\ v.sent[j] = ring[At(b)].id /\ At(b) \in 0 .. n - 1
        BY <4>1, <2>18, <2>11, <2>3, <2>2, <2>1
      <4>3. CASE i \in 1 .. Len(w.sent) /\ v.sent[i] = w.sent[i]
        BY <4>2, <4>3, <2>12, <2>15
      <4>4. CASE \E a \in 0 .. c - 1 : i = Len(w.sent) + a + 1 /\ v.sent[i] = add[a + 1]
        <5>1. PICK a \in 0 .. c - 1 : i = Len(w.sent) + a + 1 /\ v.sent[i] = add[a + 1]
          BY <4>4
        <5>2. a < b
          BY <5>1, <4>1, <2>18, <2>15, <2>1
        <5> QED BY <5>1, <5>2, <4>1, <2>13, <2>18
      <4> QED BY <4>3, <4>4, <2>16
    <3> QED BY <3>1, <3>2, <2>16
  <2>19. Rising(v.sent, last) /\ v.sent \in Seq(Nat) /\ \A k \in DOMAIN v.sent : v.sent[k] <= captured
    <3>1. v.sent \in Seq(Nat)
      BY <2>15, <2>6
    <3>2. \A k \in DOMAIN v.sent : v.sent[k] <= captured
      BY <2>17
    <3> QED BY <3>1, <3>2, <2>17, <2>18 DEF Rising
  <2>20. ASSUME NEW i \in 0 .. n - 1, Unsent(v.ring[i])
         PROVE  /\ v.ring[i].id > last
                /\ \A k \in DOMAIN v.sent : v.sent[k] < v.ring[i].id
                /\ v.out < n => Held(image_ring_in, v.out, i)
    <3>1. /\ v.ring[i].id = ring[i].id /\ Unsent(ring[i]) /\ ring[i].id > last /\ ring[i].id > 0
          /\ Held(image_ring_in, v.out, i)
          /\ \A k \in DOMAIN w.sent : w.sent[k] < ring[i].id
          /\ \A k \in 0 .. c - 1 : add[k + 1] # 0 => add[k + 1] < ring[i].id
      BY <2>20, <2>14, <2>12, <2>8 DEF Unsent
    <3>2. \A k \in DOMAIN v.sent : v.sent[k] < v.ring[i].id
      <4> SUFFICES ASSUME NEW k \in DOMAIN v.sent PROVE v.sent[k] < ring[i].id
        BY <3>1
      <4>1. CASE k \in 1 .. Len(w.sent) /\ v.sent[k] = w.sent[k]
        BY <4>1, <3>1, <2>15
      <4>2. CASE \E j \in 0 .. c - 1 : k = Len(w.sent) + j + 1 /\ v.sent[k] = add[j + 1]
        <5>1. PICK j \in 0 .. c - 1 : v.sent[k] = add[j + 1]
          BY <4>2
        <5> QED BY <5>1, <3>1
      <4> QED BY <4>1, <4>2, <2>16
    <3> QED BY <3>1, <3>2
  <2>21. InWork(v, n, last)
    <3>1. v.out \in Nat /\ DOMAIN v = WorkFields
      BY <2>5, <2>6
    <3>2. \A i \in 0 .. n - 1 : Unsent(v.ring[i]) =>
            /\ v.ring[i].id > last
            /\ \A k \in DOMAIN v.sent : v.sent[k] < v.ring[i].id
            /\ v.out < n => Held(image_ring_in, v.out, i)
      BY <2>20
    <3> HIDE DEF ring, out
    <3> QED BY <3>1, <3>2, <2>9, <2>10, <2>19, Zenon DEF InWork
  <2> QED BY <2>21 DEF v
<1> QED BY <1>1, <1>2, <1>3

-----------------------------------------------------------------------------
(* The ring over an iteration *)

\* What the ring holds at any moment.
InRing(ring, n, in, out, last, seen) ==
  /\ RingOf(ring, n) /\ Aged(ring, in)
  /\ \A i \in 0 .. n - 1 :
       /\ ring[i].id <= seen
       /\ Unsent(ring[i]) => ring[i].id > last /\ (out < n => Held(in, out, i))

\* image_ring_resize, when it may, loses none of the order.
LEMMA ResizeKeeps ==
  ASSUME NEW n \in Nat, n > 0, NEW new \in Nat, new > 0,
         image_ring_in \in Nat, image_ring_out \in Nat, NEW last \in Nat, captured \in Nat,
         InRing(image_ring, n, image_ring_in, image_ring_out, last, captured)
  PROVE  \/ image_ring_resize(new) = image_ring
         \/ /\ image_ring_in < new
            /\ image_ring_in < n
            /\ InRing(image_ring_resize(new), new, image_ring_in, image_ring_out, last, captured)
<1>1. SizeOf(image_ring) = n /\ DOMAIN image_ring = 0 .. n - 1
      /\ \A i \in 0 .. n - 1 : image_ring[i] \in Image
  BY SizeIs DEF InRing, RingOf
<1>2. CASE ~MayResize(new)
  BY <1>2 DEF image_ring_resize
<1>3. CASE MayResize(new)
  <2>1. (new < n /\ image_ring_in = new - 1) \/ (n < new /\ image_ring_in = n - 1)
    BY <1>1, <1>3 DEF MayResize, Least
  <2> DEFINE r == image_ring_resize(new)
  <2>2. r = [i \in 0 .. new - 1 |-> IF i \in DOMAIN image_ring THEN image_ring[i] ELSE Cleared]
    BY <1>3 DEF image_ring_resize
  <2> HIDE DEF r
  <2>3. Cleared \in Image /\ Cleared.id = 0
    BY DEF Cleared, Image
  <2>4. \A i \in 0 .. new - 1 : r[i] = IF i < n THEN image_ring[i] ELSE Cleared
    BY <2>2, <1>1
  <2>5. RingOf(r, new) /\ DOMAIN r = 0 .. new - 1
    BY <2>2, <2>3, <1>1 DEF RingOf
  <2>6. \A i \in 0 .. new - 1 : r[i].id <= captured
    BY <2>4, <2>3, <1>1 DEF InRing
  <2>7. \A i \in 0 .. new - 1 : r[i].id > 0 => i \in 0 .. n - 1 /\ r[i] = image_ring[i]
    BY <2>4, <2>3, <1>1
  <2>8. Aged(r, image_ring_in)
    BY <2>5, <2>7, <1>1 DEF InRing, Aged
  <2>9. ASSUME NEW i \in 0 .. new - 1, Unsent(r[i])
        PROVE  r[i].id > last /\ (image_ring_out < new => Held(image_ring_in, image_ring_out, i))
    <3>1. i \in 0 .. n - 1 /\ r[i] = image_ring[i]
      BY <2>7, <2>9 DEF Unsent
    <3>2. r[i].id > last /\ (image_ring_out < n => Held(image_ring_in, image_ring_out, i))
      BY <3>1, <2>9 DEF InRing
    <3> QED BY <3>1, <3>2, <2>1 DEF Held
  <2> QED BY <2>1, <2>5, <2>6, <2>8, <2>9 DEF InRing, r
<1> QED BY <1>2, <1>3

\* A new image is newer than all others, and only the oldest one is thrown away.
LEMMA NewImageKeeps ==
  ASSUME NEW n \in Nat, n > 0, NEW in \in Nat, NEW out \in Nat, NEW last \in Nat, NEW seen \in Nat,
         NEW ring, InRing(ring, n, in, out, last, seen), last <= seen,
         in < n \/ n = 1,
         NEW img \in Image, img.id = seen + 1
  PROVE  LET slot == Wrap(ring, in + 1)
             next == IF slot = out THEN Wrap(ring, out + 1) ELSE out
         IN /\ slot \in 0 .. n - 1 /\ next \in Nat
            /\ InRing([ring EXCEPT ![slot] = img], n, slot, next, last, seen + 1)
<1> DEFINE slot == Wrap(ring, in + 1)
           next == IF slot = out THEN Wrap(ring, out + 1) ELSE out
           r == [ring EXCEPT ![slot] = img]
<1>1. SizeOf(ring) = n /\ DOMAIN ring = 0 .. n - 1 /\ ring \in [0 .. n - 1 -> Image]
      /\ (\A i \in 0 .. n - 1 : ring[i] \in Image /\ ring[i].id \in Nat)
  BY SizeIs DEF InRing, RingOf, Image
<1>2. /\ slot = IF in + 1 >= n THEN 0 ELSE in + 1
      /\ next = IF slot = out THEN (IF out + 1 >= n THEN 0 ELSE out + 1) ELSE out
      /\ slot \in 0 .. n - 1 /\ next \in Nat
  BY <1>1 DEF Wrap
<1> HIDE DEF slot, next
<1>3. /\ r \in [0 .. n - 1 -> Image] /\ RingOf(r, n) /\ DOMAIN r = 0 .. n - 1
      /\ \A i \in 0 .. n - 1 : r[i] = IF i = slot THEN img ELSE ring[i]
  BY <1>1, <1>2 DEF RingOf
<1> HIDE DEF r
<1>4. \A i \in 0 .. n - 1 : r[i].id <= seen + 1 /\ (i # slot => r[i].id <= seen)
  BY <1>1, <1>3 DEF InRing
<1>5. Aged(r, slot)
  <2> SUFFICES ASSUME NEW i \in 0 .. n - 1, NEW j \in 0 .. n - 1, Older(slot, i, j), r[i].id > 0, r[j].id > 0
               PROVE  r[i].id < r[j].id
    BY <1>3 DEF Aged
  <2>1. i # slot
    BY <1>2 DEF Older
  <2>2. CASE j = slot
    BY <2>1, <2>2, <1>1, <1>3 DEF InRing
  <2>3. CASE j # slot
    <3>1. Older(in, i, j)
      BY <2>1, <2>3, <1>2 DEF Older
    <3>2. r[i] = ring[i] /\ r[j] = ring[j]
      BY <2>1, <2>3, <1>3
    <3> QED BY <3>1, <3>2, <1>1 DEF InRing, Aged
  <2> QED BY <2>2, <2>3
<1>6. ASSUME NEW i \in 0 .. n - 1, Unsent(r[i])
      PROVE  r[i].id > last /\ (next < n => Held(slot, next, i))
  <2>1. CASE i = slot
    <3>1. r[i].id = seen + 1
      BY <2>1, <1>3
    <3> QED BY <3>1, <2>1, <1>2 DEF Held
  <2>2. CASE i # slot
    <3>1. r[i] = ring[i]
      BY <2>2, <1>3
    <3>2. ring[i].id > last /\ (out < n => Held(in, out, i))
      BY <3>1, <1>6 DEF InRing
    <3>3. next < n => Held(slot, next, i)
      BY <3>2, <2>2, <1>2 DEF Held
    <3> QED BY <3>1, <3>2, <3>3
  <2> QED BY <2>1, <2>2
<1>7. InRing(r, n, slot, next, last, seen + 1)
  BY <1>3, <1>4, <1>5, <1>6 DEF InRing
<1> QED BY <1>2, <1>7 DEF slot, next, r

\* LastPut is the greatest of what was put.
LEMMA LastIsLast ==
  ASSUME NEW sent \in Seq(Nat), NEW last \in Nat, Rising(sent, last), NEW seen \in Nat,
         \A k \in DOMAIN sent : sent[k] <= seen, last <= seen
  PROVE  /\ LastPut(sent, last) \in Nat /\ LastPut(sent, last) <= seen
         /\ \A x \in Nat : x > last /\ (\A k \in DOMAIN sent : sent[k] < x) => x > LastPut(sent, last)
<1> DEFINE put == {k \in DOMAIN sent : sent[k] # 0}
           newest == CHOOSE k \in put : \A j \in put : j <= k
<1>1. CASE put = {}
  <2>1. LastPut(sent, last) = last
    BY <1>1 DEF LastPut
  <2> QED BY <2>1
<1>2. CASE put # {}
  <2>1. put \subseteq 0 .. Len(sent) /\ Len(sent) \in Nat
    OBVIOUS
  <2>2. newest \in put
    <3> HIDE DEF put
    <3>1. \E k \in put : \A j \in put : j <= k
      BY <1>2, <2>1, MaxExists
    <3> QED BY <3>1
  <2>3. LastPut(sent, last) = sent[newest]
    BY <1>2 DEF LastPut
  <2>4. newest \in DOMAIN sent /\ sent[newest] \in Nat
    BY <2>2
  <2> HIDE DEF newest, put
  <2> QED BY <2>3, <2>4
<1> QED BY <1>1, <1>2

\* The ring of motion_init.
Fresh == [i \in {0} |-> Cleared]

\* The ring is in the order of the captures, and what is still to be sent in it is
\* newer than what was sent and lies between image_ring_out and image_ring_in.
OrderInv ==
  /\ conf \in Confs
  /\ captured \in Nat /\ image_ring_in \in Nat /\ image_ring_out \in Nat
  /\ DOMAIN loopLog = LogFields
  /\ loopLog.last \in Nat /\ loopLog.last <= captured
  /\ pc \in {"start", "exit"} => current_image # "live"
  /\ pc \in {"top", "frame"} =>
       \E n \in Nat :
         /\ n > 0
         /\ InRing(image_ring, n, image_ring_in, image_ring_out, loopLog.last, captured)
         /\ image_ring_in < n \/ (pc = "top" /\ n = 1 /\ current_image # "live")

\* The ring motion_init allocates holds nothing to be sent.
LEMMA FreshInRing ==
  ASSUME NEW in, NEW out, NEW last, NEW seen \in Nat
  PROVE  InRing(Fresh, 1, in, out, last, seen)
<1>1. Fresh \in [0 .. 0 -> Image] /\ DOMAIN Fresh = 0 .. 0
  BY DEF Fresh, Cleared, Image
<1>2. \A i \in 0 .. 0 : Fresh[i] = Cleared
  BY DEF Fresh
<1> HIDE DEF Fresh
<1>3. Cleared.id = 0
  BY DEF Cleared
<1> QED BY <1>1, <1>2, <1>3 DEF InRing, RingOf, Aged, Unsent

\* The first half of an iteration keeps the order.
LEMMA CaptureKeepsOrder ==
  ASSUME OrderInv, Capture
  PROVE  OrderInv' /\ Rising(loopLog'.sent, loopLog.last)
<1>1. PICK n \in Nat :
        /\ n > 0
        /\ InRing(image_ring, n, image_ring_in, image_ring_out, loopLog.last, captured)
        /\ image_ring_in < n \/ (n = 1 /\ current_image # "live")
  BY DEF OrderInv, Capture
<1> DEFINE ring == image_ring_resize(BufferSize(conf))
           slot == Wrap(ring, image_ring_in + 1)
           out == Oldest(ring, slot)
<1>2. PICK processed \in BOOLEAN, score \in Scores \cup {0}, over \in Overs :
        \E old \in IF processed THEN {Cleared} ELSE OldImage(ring, slot) :
            /\ processed \/ score = 0
            /\ image_ring' = [ring EXCEPT ![slot] = NewImage(old, processed, score, over)]
            /\ image_ring_in' = slot /\ image_ring_out' = Oldest(ring, slot)
  BY DEF Capture
<1>3. PICK old \in IF processed THEN {Cleared} ELSE OldImage(ring, slot) :
            /\ image_ring' = [ring EXCEPT ![slot] = NewImage(old, processed, score, over)]
            /\ image_ring_in' = slot /\ image_ring_out' = out
  BY <1>2
<1>4. /\ loopLog' = [loopLog EXCEPT !.sent = <<>>, !.saved = <<>>]
      /\ captured' = captured + 1 /\ current_image' = "live" /\ pc' = "frame" /\ conf' = conf
  BY DEF Capture
<1>5. /\ loopLog'.sent = <<>> /\ loopLog'.last = loopLog.last /\ DOMAIN loopLog' = LogFields
  BY <1>4 DEF OrderInv, LogFields
<1>6. BufferSize(conf) \in Nat /\ BufferSize(conf) > 0
  BY LoopAssumption DEF OrderInv, BufferSize
<1>7. captured \in Nat /\ image_ring_in \in Nat /\ image_ring_out \in Nat
      /\ loopLog.last \in Nat /\ loopLog.last <= captured
  BY DEF OrderInv
<1>8. \/ ring = image_ring
      \/ /\ image_ring_in < BufferSize(conf) /\ image_ring_in < n
         /\ InRing(ring, BufferSize(conf), image_ring_in, image_ring_out, loopLog.last, captured)
  BY <1>1, <1>6, <1>7, ResizeKeeps
<1> HIDE DEF ring
<1>9. PICK size \in Nat :
        /\ size > 0
        /\ image_ring_in < size \/ size = 1
        /\ InRing(ring, size, image_ring_in, image_ring_out, loopLog.last, captured)
  <2>1. CASE ring = image_ring
    BY <1>1, <2>1
  <2>2. CASE ring # image_ring
    BY <1>8, <2>2, <1>6
  <2> QED BY <2>1, <2>2
<1>10. size > 0
  BY <1>9
<1> DEFINE new == NewImage(old, processed, score, over)
<1>11. slot \in 0 .. size - 1
  <2>1. SizeOf(ring) = size
    BY <1>9, SizeIs DEF InRing
  <2> QED BY <2>1, <1>7, <1>10 DEF Wrap
<1>12. old \in Image
  <2>1. Cleared \in Image
    BY DEF Cleared, Image
  <2>2. ring[slot] \in Image
    BY <1>9, <1>11 DEF InRing, RingOf
  <2>3. ASSUME current_image = "live" PROVE image_ring[image_ring_in] \in Image
    <3>1. image_ring_in \in 0 .. n - 1
      BY <1>1, <2>3, <1>7
    <3> QED BY <3>1, <1>1 DEF InRing, RingOf
  <2>4. \A any \in BOOLEAN : [Cleared EXCEPT !.save = any] \in Image
    BY DEF Cleared, Image
  <2>5. CASE processed
    BY <2>5, <2>1
  <2>6. CASE ~processed
    <3>1. old \in OldImage(ring, slot)
      BY <2>6
    <3> HIDE DEF slot
    <3>2. CASE current_image = "null"
      <4>1. OldImage(ring, slot) = {ring[slot]}
        BY <3>2 DEF OldImage
      <4> QED BY <4>1, <3>1, <2>2
    <3>3. CASE current_image = "live" /\ ring = image_ring
      <4>1. OldImage(ring, slot) = {ring[image_ring_in]}
        BY <3>3 DEF OldImage
      <4> QED BY <4>1, <3>1, <3>3, <2>3
    <3>4. CASE current_image # "null" /\ ~(current_image = "live" /\ ring = image_ring)
      <4>1. OldImage(ring, slot) = {[Cleared EXCEPT !.save = any] : any \in BOOLEAN}
        BY <3>4 DEF OldImage
      <4> QED BY <4>1, <3>1, <2>4
    <3> QED BY <3>2, <3>3, <3>4
  <2> QED BY <2>5, <2>6
<1>13. new \in Image /\ new.id = captured + 1
  <2>1. Diffs(processed, score, old.diffs) \in Nat
    BY <1>12, LoopAssumption DEF Diffs, Image
  <2>2. over \in BOOLEAN
    BY LoopAssumption
  <2> DEFINE d == Diffs(processed, score, old.diffs)
             id == captured + 1
  <2>3. id \in Nat /\ d \in Nat
    BY <2>1, <1>7
  <2>4. new = [old EXCEPT !.id = id, !.over = over, !.diffs = d]
    BY DEF NewImage
  <2> HIDE DEF d, id, new
  <2>5. new \in Image /\ new.id = id
    BY <2>2, <2>3, <2>4, <1>12 DEF Image
  <2> QED BY <2>5 DEF id
<1> HIDE DEF new
<1>14. /\ slot \in 0 .. size - 1 /\ out \in Nat
       /\ InRing([ring EXCEPT ![slot] = new], size, slot, out, loopLog.last, captured + 1)
  <2> HIDE DEF ring
  <2> QED BY <1>7, <1>9, <1>10, <1>13, NewImageKeeps DEF Oldest
<1>15. image_ring' = [ring EXCEPT ![slot] = new] /\ image_ring_in' = slot /\ image_ring_out' = out
  BY <1>3 DEF new
<1> HIDE DEF slot, out
<1>16. /\ InRing(image_ring, size, image_ring_in, image_ring_out, loopLog.last, captured)'
       /\ image_ring_in' \in Nat /\ image_ring_out' \in Nat /\ image_ring_in' < size
  <2>1. InRing(image_ring', size, image_ring_in', image_ring_out', loopLog'.last, captured')
    BY <1>14, <1>15, <1>4, <1>5
  <2> QED BY <2>1, <1>14, <1>15, <1>10
<1>17. Rising(loopLog'.sent, loopLog.last)
  BY <1>5 DEF Rising
<1> QED BY <1>16, <1>17, <1>4, <1>5, <1>7, <1>10 DEF OrderInv

\* The flags of the new image change no order.
LEMMA BegunInOrder ==
  ASSUME NEW n \in Nat, image_ring_in \in 0 .. n - 1, image_ring_out \in Nat,
         InRing(image_ring, n, image_ring_in, image_ring_out, loopLog.last, captured)
  PROVE  InWork(Begun, n, loopLog.last)
<1>1. /\ RingOf(image_ring, n) /\ DOMAIN image_ring = 0 .. n - 1
      /\ \A i \in 0 .. n - 1 : image_ring[i] \in Image
  BY DEF InRing, RingOf
<1>2. /\ Begun.ring = Flagged /\ Begun.out = image_ring_out /\ Begun.sent = <<>> /\ DOMAIN Begun = WorkFields
  BY DEF Begun, Work, WorkFields
<1>3. \A b \in BOOLEAN : \A i \in 0 .. n - 1 :
        [image_ring[i] EXCEPT !.save = b] \in Image
        /\ [image_ring[i] EXCEPT !.save = b].id = image_ring[i].id
        /\ [image_ring[i] EXCEPT !.save = b].saved = image_ring[i].saved
  BY <1>1 DEF Image
<1>4. DOMAIN Flagged = 0 .. n - 1 /\ Flagged = [i \in 0 .. n - 1 |-> Flagged[i]]
  BY <1>1 DEF Flagged
<1>5. ASSUME NEW i \in 0 .. n - 1
      PROVE  Flagged[i] \in Image /\ Flagged[i].id = image_ring[i].id /\ Flagged[i].saved = image_ring[i].saved
  <2>1. CASE i # image_ring_in
    <3>1. Flagged[i] = [image_ring[i] EXCEPT !.save = image_ring[i].save \/ Sustained]
      BY <2>1, <1>1 DEF Flagged
    <3>2. (image_ring[i].save \/ Sustained) \in BOOLEAN
      OBVIOUS
    <3> QED BY <3>1, <3>2, <1>3
  <2>2. CASE i = image_ring_in
    <3> DEFINE cur == image_ring[i]
               dist == IF (Emulated \/ WithMotion) /\ new_img = "center" THEN cur.diffs ELSE cur.cent_dist
               a == Moving(cur)
               b == cur.trigger \/ Trigger
               c == cur.save \/ Trigger \/ PostCapture
    <3>1. Flagged[i] = [cur EXCEPT !.motion = a, !.cent_dist = dist, !.trigger = b, !.save = c]
      BY <2>2, <1>1 DEF Flagged
    <3>2. a \in BOOLEAN /\ b \in BOOLEAN /\ c \in BOOLEAN
      BY DEF Moving
    <3>3. cur \in Image
      BY <1>1
    <3>4. dist \in Nat
      BY <3>3 DEF Image
    <3> HIDE DEF a, b, c, dist, cur
    <3>5. Flagged[i] \in Image /\ Flagged[i].id = cur.id /\ Flagged[i].saved = cur.saved
      BY <3>1, <3>2, <3>3, <3>4 DEF Image
    <3> QED BY <3>5 DEF cur
  <2> QED BY <2>1, <2>2
<1>6. RingOf(Flagged, n)
  BY <1>4, <1>5 DEF RingOf
<1>7. Aged(Flagged, image_ring_in)
  BY <1>4, <1>5, <1>1 DEF InRing, Aged
<1>8. Rising(<<>>, loopLog.last)
  BY DEF Rising
<1>9. \A i \in 0 .. n - 1 :
        /\ Flagged[i].id <= captured
        /\ Unsent(Flagged[i]) => Flagged[i].id > loopLog.last
             /\ (image_ring_out < n => Held(image_ring_in, image_ring_out, i))
  BY <1>5 DEF InRing, Unsent
<1>10. <<>> \in Seq(Nat) /\ DOMAIN <<>> = {}
  OBVIOUS
<1> HIDE DEF Flagged
<1> QED BY <1>2, <1>6, <1>7, <1>8, <1>9, <1>10 DEF InWork

\* The second half sends in order, and keeps it.
LEMMA ActKeepsOrder ==
  ASSUME OrderInv, Act
  PROVE  OrderInv' /\ Rising(loopLog'.sent, loopLog.last)
<1>1. PICK n \in Nat :
        /\ n > 0
        /\ InRing(image_ring, n, image_ring_in, image_ring_out, loopLog.last, captured)
        /\ image_ring_in < n
  BY DEF OrderInv, Act
<1>2. /\ captured \in Nat /\ image_ring_in \in 0 .. n - 1 /\ image_ring_out \in Nat
      /\ loopLog.last \in Nat /\ loopLog.last <= captured /\ n > 0
  BY <1>1 DEF OrderInv
<1>3. PICK long \in {FALSE, conf.max_movie_time /\ in_event},
           gap \in {FALSE, conf.event_gap > 0 /\ ~Flagged[image_ring_in].save} :
        \E opened \in event_create_extpipe,
           third, other \in IF Shoots(EventEnds(long, gap), Flushed(EventEnds(long, gap)))
                            THEN Outcomes ELSE {"ok"} :
          Finish(EventEnds(long, gap), Overdue(long), Flushed(EventEnds(long, gap)),
                 Shoots(EventEnds(long, gap), Flushed(EventEnds(long, gap))),
                 Done(Flushed(EventEnds(long, gap)), Shoots(EventEnds(long, gap), Flushed(EventEnds(long, gap)))),
                 opened, third, other)
  BY DEF Act
<1> DEFINE ends == EventEnds(long, gap)
           flush == Flushed(ends)
           shoots == Shoots(ends, flush)
           done == Done(flush, shoots)
<1>4. PICK opened, third, other : Finish(ends, Overdue(long), flush, shoots, done, opened, third, other)
  BY <1>3
<1> HIDE DEF ends
<1>5. InWork(Begun, n, loopLog.last)
  BY <1>1, <1>2, BegunInOrder
<1>6. InWork(flush, n, loopLog.last)
  <2>1. SizeOf(image_ring) \in Nat
    BY <1>1, SizeIs DEF InRing
  <2>2. flush = Begun \/ flush = process_image_ring(Begun, SizeOf(image_ring))
    BY DEF Flushed
  <2> HIDE DEF flush
  <2> QED BY <2>1, <2>2, <1>2, <1>5, ProcessKeepsOrder
<1> HIDE DEF flush, shoots
<1>7. InWork(done, n, loopLog.last)
  <2>1. InWork(preview_save(flush), n, loopLog.last)
    <3> DEFINE w == preview_save(flush)
    <3>1. w = [flush EXCEPT !.preview.diffs = 0]
      BY DEF preview_save
    <3>2. w.ring = flush.ring /\ w.out = flush.out /\ w.sent = flush.sent /\ DOMAIN w = WorkFields
      BY <3>1, <1>6 DEF InWork, WorkFields
    <3> HIDE DEF w
    <3>3. InWork(w, n, loopLog.last)
      BY <3>2, <1>6 DEF InWork
    <3> QED BY <3>3 DEF w
  <2>2. done = process_image_ring(flush, 2) \/ done = process_image_ring(preview_save(flush), 2)
    BY DEF Done
  <2> HIDE DEF done
  <2> QED BY <2>1, <2>2, <1>2, <1>6, ProcessKeepsOrder
<1> HIDE DEF done
<1>8. /\ image_ring' = done.ring /\ image_ring_out' = done.out
      /\ loopLog' = LogAfter(ends, flush, shoots, done, third)
  BY <1>4 DEF Finish
<1>9. /\ loopLog'.sent = done.sent /\ loopLog'.last = LastPut(done.sent, loopLog.last)
      /\ DOMAIN loopLog' = LogFields
  BY <1>8 DEF LogAfter, LogFields, OrderInv
<1>10. /\ pc' = "top" /\ conf' = conf /\ image_ring_in' = image_ring_in /\ captured' = captured
       /\ current_image' = current_image
  BY DEF Act
<1>11. /\ done.sent \in Seq(Nat) /\ Rising(done.sent, loopLog.last)
       /\ \A k \in DOMAIN done.sent : done.sent[k] <= captured
       /\ done.out \in Nat
  BY <1>7 DEF InWork
<1>12. /\ loopLog'.last \in Nat /\ loopLog'.last <= captured
       /\ \A x \in Nat : x > loopLog.last /\ (\A k \in DOMAIN done.sent : done.sent[k] < x) => x > loopLog'.last
  BY <1>2, <1>9, <1>11, LastIsLast
<1>13. InRing(done.ring, n, image_ring_in, done.out, loopLog'.last, captured)
  <2>1. RingOf(done.ring, n) /\ Aged(done.ring, image_ring_in)
        /\ \A i \in 0 .. n - 1 : done.ring[i].id <= captured /\ done.ring[i].id \in Nat
    BY <1>7 DEF InWork, RingOf, Image
  <2>2. \A i \in 0 .. n - 1 : Unsent(done.ring[i]) => done.ring[i].id > loopLog'.last
    BY <2>1, <1>7, <1>12 DEF InWork
  <2>3. \A i \in 0 .. n - 1 : Unsent(done.ring[i]) => (done.out < n => Held(image_ring_in, done.out, i))
    BY <1>7 DEF InWork
  <2> QED BY <2>1, <2>2, <2>3 DEF InRing
<1>14. InRing(image_ring, n, image_ring_in, image_ring_out, loopLog.last, captured)'
  BY <1>13, <1>8, <1>10
<1>15. conf' \in Confs /\ captured' \in Nat /\ image_ring_in' \in Nat /\ image_ring_out' \in Nat
       /\ image_ring_in' < n
  BY <1>2, <1>8, <1>10, <1>11 DEF OrderInv
<1> QED BY <1>2, <1>9, <1>10, <1>11, <1>12, <1>14, <1>15 DEF OrderInv

\* Every step keeps the order.
LEMMA OrderKept ==
  ASSUME OrderInv, [LoopNext]_loopVars
  PROVE  OrderInv' /\ (loopLog'.sent # loopLog.sent => Rising(loopLog'.sent, loopLog.last))
<1> DEFINE Kept == /\ UNCHANGED <<image_ring, image_ring_in, image_ring_out, captured, current_image>>
                   /\ conf' \in Confs /\ DOMAIN loopLog' = LogFields
                   /\ loopLog'.sent = loopLog.sent /\ loopLog'.last = loopLog.last
<1>1. ASSUME motion_init PROVE OrderInv' /\ loopLog'.sent = loopLog.sent
  <2>1. /\ pc' = "top" /\ pc = "start" /\ image_ring' = Fresh
        /\ UNCHANGED <<conf, captured, current_image, image_ring_in, image_ring_out, loopLog>>
    BY <1>1 DEF motion_init, Fresh
  <2>2. InRing(Fresh, 1, image_ring_in, image_ring_out, loopLog.last, captured)
    BY FreshInRing DEF OrderInv
  <2>3. InRing(image_ring, 1, image_ring_in, image_ring_out, loopLog.last, captured)'
    BY <2>1, <2>2
  <2> QED BY <2>1, <2>3 DEF OrderInv
<1>2. ASSUME NEW entry, Leave(entry), DOMAIN entry = LogFields, entry.last = loopLog.last
      PROVE OrderInv' /\ Rising(loopLog'.sent, loopLog.last)
  <2>1. /\ pc' = "exit" /\ current_image' # "live"
        /\ loopLog' = [entry EXCEPT !.sent = <<>>, !.saved = <<>>]
        /\ UNCHANGED <<conf, captured, image_ring_in, image_ring_out>>
    BY <1>2 DEF Leave, motion_cleanup
  <2>2. loopLog'.sent = <<>> /\ loopLog'.last = loopLog.last /\ DOMAIN loopLog' = LogFields
    BY <1>2, <2>1 DEF LogFields
  <2>3. Rising(<<>>, loopLog.last)
    BY DEF Rising
  <2> QED BY <2>1, <2>2, <2>3 DEF OrderInv
<1>3. CASE LoopInitFails \/ LoopLeaves
  BY <1>3, <1>2 DEF LoopInitFails, LoopLeaves, OrderInv
<1>4. CASE CameraChanged
  <2> DEFINE entry == Ordered([loopLog EXCEPT !.left = TRUE])
  <2>1. entry.last = loopLog.last /\ DOMAIN entry = LogFields
    BY DEF Ordered, OrderInv, LogFields
  <2>2. Leave(entry)
    BY <1>4 DEF CameraChanged
  <2> HIDE DEF entry
  <2> QED BY <2>1, <2>2, <1>2
<1>5. CASE Capture
  BY <1>5, CaptureKeepsOrder
<1>6. CASE Act
  BY <1>6, ActKeepsOrder
<1>7. CASE Restarted
  BY <1>7 DEF Restarted, OrderInv
<1>8. ASSUME pc \in {"top", "frame"}, Kept, pc' = pc PROVE OrderInv' /\ loopLog'.sent = loopLog.sent
  <2>1. PICK n \in Nat :
         /\ n > 0
         /\ InRing(image_ring, n, image_ring_in, image_ring_out, loopLog.last, captured)
         /\ image_ring_in < n \/ (pc = "top" /\ n = 1 /\ current_image # "live")
    BY <1>8 DEF OrderInv
  <2>2. InRing(image_ring, n, image_ring_in, image_ring_out, loopLog.last, captured)'
    BY <2>1, <1>8
  <2> QED BY <1>8, <2>1, <2>2 DEF OrderInv
<1>9. CASE Orderly
  <2>1. pc \in {"top", "frame"} /\ UNCHANGED Untouched /\ conf' \in Confs
    BY <1>9 DEF Orderly, OrderMovie, OrderQuit, OrderFinish, OrderConfig, Order, Untouched, OrderInv
  <2>2. \/ loopLog' = Ordered(loopLog)
        \/ loopLog' = Ordered([loopLog EXCEPT !.quit = TRUE])
        \/ \E b : loopLog' = Ordered([loopLog EXCEPT !.mixed = b])
    BY <1>9 DEF Orderly, OrderMovie, OrderQuit, OrderFinish, OrderConfig
  <2>3. loopLog'.sent = loopLog.sent /\ loopLog'.last = loopLog.last /\ DOMAIN loopLog' = LogFields
    BY <2>2 DEF Ordered, OrderInv, LogFields
  <2> QED BY <2>1, <2>3, <1>8 DEF Untouched
<1>10. CASE UNCHANGED loopVars
  <2>1. UNCHANGED <<pc, conf, image_ring, image_ring_in, image_ring_out, captured, current_image, loopLog>>
    BY <1>10 DEF loopVars
  <2>2. CASE pc \in {"top", "frame"}
    BY <2>1, <2>2, <1>8 DEF OrderInv
  <2>3. CASE pc \notin {"top", "frame"}
    BY <2>1, <2>3 DEF OrderInv
  <2> QED BY <2>2, <2>3
<1> QED BY <1>1, <1>3, <1>4, <1>5, <1>6, <1>7, <1>9, <1>10 DEF LoopNext, Loop

\* What process_image_ring puts, in each iteration, rises from the last image that
\* was put: in the order of the captures and each of them once, whatever the
\* options, resizes and restarts.
THEOREM ImagesInOrder == LoopSpec => SentInOrder
<1>1. LoopInit => OrderInv
  BY DEF LoopInit, OrderInv, NewLog, LogFields
<1>2. OrderInv /\ [LoopNext]_loopVars =>
        OrderInv' /\ (loopLog'.sent # loopLog.sent => Rising(loopLog'.sent, loopLog.last))
  BY OrderKept
<1> QED BY <1>1, <1>2, PTL DEF LoopSpec, SentInOrder

-----------------------------------------------------------------------------
(* The preview *)

PreviewFields == {"by", "ids", "diffs", "cent_dist", "trigger"}
IsPreview(pv) == DOMAIN pv = PreviewFields /\ pv.diffs \in Nat

\* No image that is still to be sent shows motion.
Quiet(ring) == \A i \in DOMAIN ring : Pending(ring[i]) => ~Moving(ring[i])

\* Of finitely many slots one comes first among those with the greatest value.
LEMMA BestFirst ==
  ASSUME NEW c \in Nat, NEW S, S \subseteq 1 .. c, S # {}, NEW v \in [S -> Int]
  PROVE  \E k \in S : \A j \in S : v[j] <= v[k] /\ (j < k => v[j] < v[k])
<1> DEFINE T(k) == {j \in S : v[j] > v[k] \/ (v[j] = v[k] /\ j <= k)}
           Ts == {T(k) : k \in S}
<1>1. IsFiniteSet(S)
  <2>1. IsFiniteSet(1 .. c)
    BY FS_Interval
  <2> QED BY <2>1, FS_Subset
<1>2. Ts \subseteq FiniteSubsetsOf(S) /\ Ts # {}
  <2>1. \A k \in S : T(k) \subseteq S /\ IsFiniteSet(T(k))
    BY <1>1, FS_Subset
  <2> QED BY <2>1 DEF FiniteSubsetsOf
<1>3. PICK x \in Ts : \A y \in Ts : <<y, x>> \notin StrictSubsetOrdering(S)
  <2> HIDE DEF Ts
  <2> QED BY <1>2, FS_StrictSubsetOrderingWellFounded, WFMin
<1>4. PICK k \in S : x = T(k)
  OBVIOUS
<1>5. ASSUME NEW j \in S, ~(v[j] <= v[k] /\ (j < k => v[j] < v[k])) PROVE FALSE
  <2>1. j \in Int /\ k \in Int /\ v[j] \in Int /\ v[k] \in Int
    OBVIOUS
  <2>2. v[j] > v[k] \/ (v[j] = v[k] /\ j < k)
    BY <1>5, <2>1
  <2>3. k \in T(k) /\ k \notin T(j)
    BY <2>1, <2>2
  <2>4. T(j) \subseteq T(k)
    <3> SUFFICES ASSUME NEW i \in T(j) PROVE i \in T(k)
      OBVIOUS
    <3>1. i \in S /\ i \in Int /\ v[i] \in Int /\ (v[i] > v[j] \/ (v[i] = v[j] /\ i <= j))
      OBVIOUS
    <3> QED BY <2>1, <2>2, <3>1
  <2>5. T(j) \in Ts /\ T(j) \subseteq S /\ T(k) \subseteq S
    OBVIOUS
  <2> HIDE DEF T, Ts
  <2>6. <<T(j), T(k)>> \in StrictSubsetOrdering(S)
    BY <2>3, <2>4, <2>5 DEF StrictSubsetOrdering
  <2> QED BY <1>3, <1>4, <2>5, <2>6
<1> QED BY <1>5

\* The picture of slot i as the preview after `old'.
Chosen(ring, i, old) == IF new_img = "best" THEN SaveAsPreview(ring[i], old) ELSE ThreePreview(ring, i)

\* Only an image with motion replaces the preview.
LEMMA PreviewAfterIs ==
  ASSUME NEW n \in Nat, NEW ring, RingOf(ring, n), NEW c \in Nat, NEW slots \in [1 .. c -> 0 .. n - 1],
         NEW old, IsPreview(old)
  PROVE  /\ IsPreview(PreviewAfter(ring, slots, old))
         /\ (\A k \in 1 .. c : ~ring[slots[k]].motion) => PreviewAfter(ring, slots, old) = old
         /\ \/ PreviewAfter(ring, slots, old) = old
            \/ \E k \in 1 .. c : PreviewAfter(ring, slots, old) = Chosen(ring, slots[k], old)
<1> DEFINE winners == {k \in DOMAIN slots : ring[slots[k]].motion /\ BeatsPreview(ring[slots[k]], old)}
           first == CHOOSE k \in winners : \A j \in winners : ~Better(ring, slots[j], slots[k])
                                    /\ (j < k => Better(ring, slots[k], slots[j]))
<1>1. winners \subseteq 1 .. c /\ \A k \in winners : slots[k] \in 0 .. n - 1 /\ ring[slots[k]] \in Image
  BY DEF RingOf
<1>2. CASE winners = {}
  BY <1>2 DEF PreviewAfter
<1>3. CASE winners # {}
  <2>1. PreviewAfter(ring, slots, old) =
          IF new_img = "best" THEN SaveAsPreview(ring[slots[first]], old) ELSE ThreePreview(ring, slots[first])
    BY <1>3, Zenon DEF PreviewAfter
  <2>2. \E k \in winners : \A j \in winners : ~Better(ring, slots[j], slots[k])
                                    /\ (j < k => Better(ring, slots[k], slots[j]))
    <3>1. CASE new_img = "best"
      <4> DEFINE v == [k \in winners |-> ring[slots[k]].diffs]
      <4>1. \A k \in winners : ring[slots[k]].diffs \in Nat
        BY <1>1 DEF Image
      <4>2. v \in [winners -> Int] /\ \A k \in winners : v[k] = ring[slots[k]].diffs
        <5> HIDE DEF winners
        <5> QED BY <4>1
      <4> HIDE DEF winners, v
      <4>3. \E k \in winners : \A j \in winners : v[j] <= v[k] /\ (j < k => v[j] < v[k])
        BY <1>1, <1>3, <4>2, BestFirst
      <4>4. PICK k \in winners : \A j \in winners : v[j] <= v[k] /\ (j < k => v[j] < v[k])
        BY <4>3
      <4>5. ASSUME NEW j \in winners
            PROVE  ~Better(ring, slots[j], slots[k]) /\ (j < k => Better(ring, slots[k], slots[j]))
        BY <3>1, <4>1, <4>2, <4>4 DEF Better
      <4> QED BY <4>5
    <3>2. CASE new_img # "best"
      <4> DEFINE v == [k \in winners |-> 0 - ring[slots[k]].cent_dist]
      <4>1. \A k \in winners : ring[slots[k]].cent_dist \in Nat
        BY <1>1 DEF Image
      <4>2. v \in [winners -> Int] /\ \A k \in winners : v[k] = 0 - ring[slots[k]].cent_dist
        <5> HIDE DEF winners
        <5> QED BY <4>1
      <4> HIDE DEF winners, v
      <4>3. \E k \in winners : \A j \in winners : v[j] <= v[k] /\ (j < k => v[j] < v[k])
        BY <1>1, <1>3, <4>2, BestFirst
      <4>4. PICK k \in winners : \A j \in winners : v[j] <= v[k] /\ (j < k => v[j] < v[k])
        BY <4>3
      <4>5. ASSUME NEW j \in winners
            PROVE  ~Better(ring, slots[j], slots[k]) /\ (j < k => Better(ring, slots[k], slots[j]))
        <5>1. /\ v[j] = 0 - ring[slots[j]].cent_dist /\ v[k] = 0 - ring[slots[k]].cent_dist
              /\ ring[slots[j]].cent_dist \in Nat /\ ring[slots[k]].cent_dist \in Nat
          BY <4>1, <4>2
        <5>2. v[j] <= v[k] /\ (j < k => v[j] < v[k])
          BY <4>4
        <5>3. /\ ~(ring[slots[j]].cent_dist < ring[slots[k]].cent_dist)
              /\ j < k => ring[slots[k]].cent_dist < ring[slots[j]].cent_dist
          BY <5>1, <5>2
        <5> QED BY <5>3, <3>2 DEF Better
      <4> QED BY <4>5
    <3> QED BY <3>1, <3>2
  <2>3. first \in winners
    <3> HIDE DEF winners
    <3> QED BY <2>2
  <2> HIDE DEF first
  <2>4. slots[first] \in 0 .. n - 1 /\ ring[slots[first]] \in Image /\ ring[slots[first]].motion
        /\ first \in 1 .. c
    BY <1>1, <2>3
  <2>5. ring[slots[first]].diffs \in Nat
    BY <2>4 DEF Image
  <2>6. IsPreview(SaveAsPreview(ring[slots[first]], old))
    BY <2>5 DEF IsPreview, SaveAsPreview, PreviewFields
  <2>7. IsPreview(ThreePreview(ring, slots[first]))
    BY <2>5 DEF IsPreview, ThreePreview, Snap, PreviewFields
  <2>8. \E k \in 1 .. c : PreviewAfter(ring, slots, old) = Chosen(ring, slots[k], old)
    BY <2>1, <2>4 DEF Chosen
  <2> HIDE DEF winners
  <2> QED BY <2>1, <2>4, <2>6, <2>7, <2>8
<1> QED BY <1>2, <1>3

\* With no motion left to be sent, process_image_ring leaves the preview alone.
LEMMA ProcessKeepsPreview ==
  ASSUME NEW n \in Nat, n > 0, image_ring_in \in 0 .. n - 1, NEW last,
         NEW max \in Nat, NEW w, InWork(w, n, last), IsPreview(w.preview)
  PROVE  /\ IsPreview(process_image_ring(w, max).preview)
         /\ Quiet(w.ring) => /\ process_image_ring(w, max).preview = w.preview
                             /\ Quiet(process_image_ring(w, max).ring)
<1> DEFINE ring == w.ring
           out == w.out
           c == InARow(ring, out, max)
           slots == [k \in 1 .. c |-> SlotAt(ring, out, k - 1)]
           S == {slots[k] : k \in DOMAIN slots}
           add == [k \in DOMAIN slots |-> Put(ring[slots[k]])]
           v == process_image_ring(w, max)
<1>1. /\ RingOf(ring, n) /\ SizeOf(ring) = n /\ out \in Nat
      /\ \A i \in 0 .. n - 1 : ring[i] \in Image
      /\ DOMAIN ring = 0 .. n - 1
  BY SizeIs DEF InWork, RingOf
<1>2. CASE out >= n
  <2>1. v = [w EXCEPT !.oob = TRUE]
    BY <1>1, <1>2 DEF process_image_ring
  <2>2. v.ring = w.ring /\ v.preview = w.preview
    BY <2>1 DEF InWork, WorkFields
  <2> QED BY <2>2
<1>3. CASE out < n
  <2>0. out \in 0 .. n - 1 /\ RingOf(ring, n)
    BY <1>1, <1>3
  <2>1. /\ c \in Nat /\ c <= n
        /\ \A k \in 0 .. c - 1 : Pending(ring[SlotAt(ring, out, k)])
    <3> HIDE DEF ring, out, v, slots, S, add
    <3>1. c \in 0 .. max /\ c <= Ahead(ring, out)
      BY <2>0, RunIs
    <3>2. Ahead(ring, out) = IF out = image_ring_in THEN n ELSE IF image_ring_in > out THEN image_ring_in - out
                ELSE image_ring_in + n - out
      BY <2>0, RunIs
    <3>3. \A k \in 0 .. c - 1 : Pending(ring[SlotAt(ring, out, k)])
      BY <2>0, RunIs
    <3> HIDE DEF c
    <3> QED BY <3>1, <3>2, <3>3, <2>0
  <2>2. v = [ring |-> MarkSaved(ring, S), out |-> NextOut(ring, out, Len(slots)),
             preview |-> PreviewAfter(ring, slots, w.preview),
             sent |-> w.sent \o add, oob |-> w.oob]
    <3>1. ~(w.out >= SizeOf(w.ring))
      BY <1>1, <1>3
    <3> QED BY <3>1, Zenon DEF process_image_ring
  <2> HIDE DEF c, v
  <2>3. slots \in [1 .. c -> 0 .. n - 1] /\ \A k \in 1 .. c : Pending(ring[slots[k]])
    <3>1. \A k \in 0 .. n : SlotAt(ring, out, k) \in 0 .. n - 1
      <4> HIDE DEF ring, out, S, add, slots
      <4>1. \A k \in 0 .. n : SlotAt(ring, out, k) = Around(n, out, k) /\ Around(n, out, k) \in 0 .. n - 1
        BY <2>0, SlotIsAround
      <4> QED BY <4>1
    <3>2. DOMAIN slots = 1 .. c /\ \A k \in 1 .. c : slots[k] = SlotAt(ring, out, k - 1)
      OBVIOUS
    <3>3. \A k \in 1 .. c : k - 1 \in 0 .. n /\ k - 1 \in 0 .. c - 1
      BY <2>1
    <3>4. \A k \in 1 .. c : SlotAt(ring, out, k - 1) \in 0 .. n - 1 /\ Pending(ring[SlotAt(ring, out, k - 1)])
      <4> HIDE DEF slots, ring, out
      <4> QED BY <3>1, <3>3, <2>1
    <3>5. \A k \in 1 .. c : slots[k] \in 0 .. n - 1 /\ Pending(ring[slots[k]])
      <4> HIDE DEF slots, ring, out
      <4> QED BY <3>2, <3>4
    <3>6. slots = [k \in 1 .. c |-> slots[k]]
      OBVIOUS
    <3> HIDE DEF slots, ring, out
    <3> QED BY <3>5, <3>6
  <2> HIDE DEF slots, S, add, ring, out
  <2>4. v.ring = MarkSaved(ring, S) /\ v.preview = PreviewAfter(ring, slots, w.preview)
    BY <2>2
  <2>5. IsPreview(v.preview)
    <3>1. IsPreview(PreviewAfter(ring, slots, w.preview))
      BY <2>0, <2>1, <2>3, PreviewAfterIs
    <3> QED BY <3>1, <2>4
  <2>6. ASSUME Quiet(ring) PROVE v.preview = w.preview /\ Quiet(v.ring)
    <3>1. \A k \in 1 .. c : ~ring[slots[k]].motion
      BY <2>3, <2>6, <1>1 DEF Quiet, Moving
    <3>2. v.preview = w.preview
      BY <3>1, <2>0, <2>1, <2>3, <2>4, PreviewAfterIs
    <3>3. DOMAIN v.ring = 0 .. n - 1
          /\ \A i \in 0 .. n - 1 : v.ring[i] = [ring[i] EXCEPT !.saved = ring[i].saved \/ i \in S]
      BY <2>4, <1>1 DEF MarkSaved
    <3>4. ASSUME NEW i \in 0 .. n - 1, Pending(v.ring[i]) PROVE ~Moving(v.ring[i])
      <4>1. /\ v.ring[i].save = ring[i].save /\ v.ring[i].motion = ring[i].motion
            /\ v.ring[i].diffs = ring[i].diffs /\ v.ring[i].saved = (ring[i].saved \/ i \in S)
        BY <3>3, <1>1 DEF Image
      <4>2. Pending(ring[i])
        BY <4>1, <3>4 DEF Pending
      <4>3. ~Moving(ring[i])
        BY <4>2, <2>6, <1>1 DEF Quiet
      <4> QED BY <4>1, <4>3 DEF Moving
    <3> QED BY <3>2, <3>3, <3>4 DEF Quiet
  <2> QED BY <2>5, <2>6 DEF v, ring
<1> QED BY <1>1, <1>2, <1>3

\* Outside an event the preview is empty and no image that is to be sent shows motion.
StaleInv ==
  /\ OrderInv /\ IsPreview(preview)
  /\ ~loopLog.left =>
       /\ pc = "start" => postcap = 0 /\ preview.diffs = 0
       /\ pc \in {"top", "frame"} =>
            /\ postcap > 0 => in_event
            /\ ~in_event /\ ~loopLog.cut => preview.diffs = 0 /\ Quiet(image_ring)

\* A new image that is pending at once, a copy of its predecessor, shows no motion.
LEMMA CaptureStaysQuiet ==
  ASSUME OrderInv, Capture, Quiet(image_ring)
  PROVE  Quiet(image_ring')
<1>1. PICK n \in Nat :
        /\ n > 0
        /\ InRing(image_ring, n, image_ring_in, image_ring_out, loopLog.last, captured)
        /\ image_ring_in < n \/ (n = 1 /\ current_image # "live")
  BY DEF OrderInv, Capture
<1> DEFINE ring == image_ring_resize(BufferSize(conf))
           slot == Wrap(ring, image_ring_in + 1)
<1>2. PICK processed \in BOOLEAN, score \in Scores \cup {0}, over \in Overs :
        \E old \in IF processed THEN {Cleared} ELSE OldImage(ring, slot) :
            /\ processed \/ score = 0
            /\ image_ring' = [ring EXCEPT ![slot] = NewImage(old, processed, score, over)]
            /\ image_ring_in' = slot /\ image_ring_out' = Oldest(ring, slot)
  BY DEF Capture
<1>3. PICK old \in IF processed THEN {Cleared} ELSE OldImage(ring, slot) :
            image_ring' = [ring EXCEPT ![slot] = NewImage(old, processed, score, over)]
  BY <1>2
<1>4. DOMAIN image_ring = 0 .. n - 1 /\ RingOf(image_ring, n)
  BY <1>1 DEF InRing, RingOf
<1>5. ~Pending(Cleared) /\ \A any \in BOOLEAN : ~Moving([Cleared EXCEPT !.save = any])
  BY DEF Pending, Moving, Cleared
<1>6. Quiet(ring)
  <2>1. CASE ring = image_ring
    BY <2>1
  <2>2. CASE ring # image_ring
    <3>1. ring = [i \in 0 .. BufferSize(conf) - 1 |->
                    IF i \in DOMAIN image_ring THEN image_ring[i] ELSE Cleared]
      BY <2>2 DEF image_ring_resize
    <3> HIDE DEF ring
    <3> QED BY <3>1, <1>5 DEF Quiet
  <2> QED BY <2>1, <2>2
<1>7. /\ DOMAIN image_ring' = DOMAIN ring
      /\ \A i \in DOMAIN ring :
           image_ring'[i] = IF i = slot THEN NewImage(old, processed, score, over) ELSE ring[i]
  <2> HIDE DEF ring, slot
  <2> QED BY <1>3
<1> HIDE DEF ring, slot
<1>8. ASSUME slot \in DOMAIN ring, Pending(NewImage(old, processed, score, over))
      PROVE  ~Moving(NewImage(old, processed, score, over))
  <2> DEFINE new == NewImage(old, processed, score, over)
  <2>1. new = [old EXCEPT !.id = captured + 1, !.over = over, !.diffs = Diffs(processed, score, old.diffs)]
    BY DEF NewImage
  <2>2. new.save = old.save /\ new.saved = old.saved /\ new.motion = old.motion
    BY <2>1
  <2> HIDE DEF new
  <2>3. Pending(old)
    BY <2>2, <1>8 DEF Pending, new
  <2>4. ~processed
    BY <2>3, <1>5
  <2>5. "diffs" \in DOMAIN old /\ ~Moving(old)
    <3>1. old \in OldImage(ring, slot)
      BY <2>4
    <3>2. CASE current_image = "null"
      <4>1. old = ring[slot]
        BY <3>1, <3>2 DEF OldImage
      <4>2. "diffs" \in DOMAIN ring[slot]
        <5>1. CASE ring = image_ring
          BY <5>1, <1>4, <1>8 DEF RingOf, Image
        <5>2. CASE ring # image_ring
          <6>1. ring = [i \in 0 .. BufferSize(conf) - 1 |->
                          IF i \in DOMAIN image_ring THEN image_ring[i] ELSE Cleared]
            BY <5>2 DEF image_ring_resize, ring
          <6>2. ring[slot] = Cleared \/ (slot \in DOMAIN image_ring /\ ring[slot] = image_ring[slot])
            BY <6>1, <1>8
          <6> QED BY <6>2, <1>4 DEF RingOf, Image, Cleared
        <5> QED BY <5>1, <5>2
      <4> QED BY <4>1, <4>2, <2>3, <1>6, <1>8 DEF Quiet
    <3>3. CASE current_image = "live" /\ ring = image_ring
      <4>1. old = image_ring[image_ring_in]
        BY <3>1, <3>3 DEF OldImage
      <4>2. image_ring_in \in DOMAIN image_ring
        BY <3>3, <1>1, <1>4 DEF OrderInv
      <4> QED BY <4>1, <4>2, <2>3, <1>4 DEF Quiet, RingOf, Image
    <3>4. CASE current_image # "null" /\ ~(current_image = "live" /\ ring = image_ring)
      <4>1. OldImage(ring, slot) = {[Cleared EXCEPT !.save = any] : any \in BOOLEAN}
        BY <3>4 DEF OldImage
      <4>2. PICK any \in BOOLEAN : old = [Cleared EXCEPT !.save = any]
        BY <4>1, <3>1
      <4>3. "diffs" \in DOMAIN old
        BY <4>2 DEF Cleared
      <4> QED BY <4>2, <4>3, <1>5
    <3> QED BY <3>2, <3>3, <3>4
  <2>6. new.diffs = 0 \/ new.diffs = old.diffs
    BY <2>1, <2>4, <2>5 DEF Diffs
  <2>7. ~Moving(new)
    BY <2>2, <2>5, <2>6 DEF Moving
  <2> QED BY <2>7 DEF new
<1> QED BY <1>6, <1>7, <1>8 DEF Quiet

\* After EVENT_ENDMOTION, and without an event, no motion is left to be sent.
LEMMA ActStaysQuiet ==
  ASSUME StaleInv, Act
  PROVE  /\ IsPreview(preview')
         /\ loopLog'.left = loopLog.left
         /\ ~loopLog.left => /\ postcap' > 0 => in_event'
                             /\ ~in_event' /\ ~loopLog'.cut => preview'.diffs = 0 /\ Quiet(image_ring')
<1>1. PICK n \in Nat :
        /\ n > 0
        /\ InRing(image_ring, n, image_ring_in, image_ring_out, loopLog.last, captured)
        /\ image_ring_in < n
  BY DEF StaleInv, OrderInv, Act
<1>2. /\ captured \in Nat /\ image_ring_in \in 0 .. n - 1 /\ image_ring_out \in Nat
      /\ loopLog.last \in Nat /\ n > 0 /\ pc = "frame"
  BY <1>1 DEF StaleInv, OrderInv, Act
<1>3. PICK long \in {FALSE, conf.max_movie_time /\ in_event},
           gap \in {FALSE, conf.event_gap > 0 /\ ~Flagged[image_ring_in].save} :
        \E opened \in event_create_extpipe,
           third, other \in IF Shoots(EventEnds(long, gap), Flushed(EventEnds(long, gap)))
                            THEN Outcomes ELSE {"ok"} :
          Finish(EventEnds(long, gap), Overdue(long), Flushed(EventEnds(long, gap)),
                 Shoots(EventEnds(long, gap), Flushed(EventEnds(long, gap))),
                 Done(Flushed(EventEnds(long, gap)), Shoots(EventEnds(long, gap), Flushed(EventEnds(long, gap)))),
                 opened, third, other)
  BY DEF Act
<1> DEFINE ends == EventEnds(long, gap)
           flush == Flushed(ends)
           shoots == Shoots(ends, flush)
           done == Done(flush, shoots)
<1>4. PICK opened, third, other : Finish(ends, Overdue(long), flush, shoots, done, opened, third, other)
  BY <1>3
<1> HIDE DEF ends
<1>5. InWork(Begun, n, loopLog.last) /\ Begun.ring = Flagged /\ Begun.preview = Detected(Flagged)
  <2>1. InWork(Begun, n, loopLog.last)
    BY <1>1, <1>2, BegunInOrder
  <2> QED BY <2>1 DEF Begun, Work
<1>6. IsPreview(Begun.preview) /\ (~FirstMotion => Begun.preview = preview)
  <2>1. Flagged[image_ring_in].diffs \in Nat
    BY <1>2, <1>5 DEF InWork, RingOf, Image
  <2>2. IsPreview(Snap(Flagged[image_ring_in], Flagged[image_ring_in], Flagged[image_ring_in]))
    BY <2>1 DEF IsPreview, Snap, PreviewFields
  <2>3. IsPreview(preview)
    BY DEF StaleInv
  <2> QED BY <2>2, <2>3, <1>5 DEF Detected
<1>7. /\ InWork(flush, n, loopLog.last) /\ IsPreview(flush.preview)
      /\ ~ends => flush = Begun
  <2>1. SizeOf(image_ring) \in Nat
    BY <1>1, SizeIs DEF InRing
  <2>2. flush = Begun \/ flush = process_image_ring(Begun, SizeOf(image_ring))
    BY DEF Flushed
  <2>3. ~ends => flush = Begun
    BY DEF Flushed
  <2> HIDE DEF flush
  <2>4. InWork(flush, n, loopLog.last)
    BY <2>1, <2>2, <1>2, <1>5, ProcessKeepsOrder
  <2>5. IsPreview(flush.preview)
    BY <2>1, <2>2, <1>2, <1>5, <1>6, ProcessKeepsPreview
  <2> QED BY <2>3, <2>4, <2>5
<1> HIDE DEF flush
<1>8. shoots <=> (ends /\ flush.preview.diffs > 0)
  BY DEF Shoots
<1> HIDE DEF shoots
<1> DEFINE shown == IF shoots THEN preview_save(flush) ELSE flush
<1>9. /\ InWork(shown, n, loopLog.last) /\ IsPreview(shown.preview) /\ shown.ring = flush.ring
      /\ shown.preview.diffs = IF shoots THEN 0 ELSE flush.preview.diffs
  <2> DEFINE w == preview_save(flush)
  <2>1. w = [flush EXCEPT !.preview.diffs = 0]
    BY DEF preview_save
  <2>2. w.ring = flush.ring /\ w.out = flush.out /\ w.sent = flush.sent /\ DOMAIN w = WorkFields
        /\ w.preview = [flush.preview EXCEPT !.diffs = 0]
    BY <2>1, <1>7 DEF InWork, WorkFields
  <2> HIDE DEF w
  <2>3. InWork(w, n, loopLog.last)
    BY <2>2, <1>7 DEF InWork
  <2>4. IsPreview(w.preview) /\ w.preview.diffs = 0
    BY <2>2, <1>7 DEF IsPreview, PreviewFields
  <2>5. shown = IF shoots THEN w ELSE flush
    BY DEF w
  <2> HIDE DEF shown
  <2> QED BY <2>2, <2>3, <2>4, <2>5, <1>7
<1>10. done = process_image_ring(shown, 2)
  BY DEF Done
<1> HIDE DEF shown, done
<1>11. /\ IsPreview(done.preview)
       /\ Quiet(shown.ring) => done.preview = shown.preview /\ Quiet(done.ring)
  BY <1>2, <1>9, <1>10, ProcessKeepsPreview
<1>12. /\ image_ring' = done.ring /\ preview' = done.preview
       /\ in_event' = ((in_event \/ FirstMotion) /\ ~ends)
       /\ postcap' = postcap_next(ends)
       /\ loopLog' = LogAfter(ends, flush, shoots, done, third)
  BY <1>4 DEF Finish
<1>13. /\ loopLog'.left = loopLog.left
       /\ loopLog'.cut = (loopLog.cut \/ (ends /\ \E i \in DOMAIN flush.ring : Pending(flush.ring[i])))
  BY <1>12 DEF LogAfter, LogFields, StaleInv, OrderInv
<1>14. ASSUME ~loopLog.left, postcap' > 0 PROVE in_event'
  <2>1. ~ends
    BY <1>12, <1>14 DEF postcap_next
  <2>2. (Sustained \/ Emulated) => in_event \/ FirstMotion
    BY DEF FirstMotion, Trigger
  <2>3. postcap > 0 => in_event
    BY <1>2, <1>14 DEF StaleInv
  <2>4. Sustained \/ Emulated \/ postcap > 0
    BY <1>12, <1>14, <2>1 DEF postcap_next, PostCapture
  <2> QED BY <2>1, <2>2, <2>3, <2>4, <1>12
<1>15. ASSUME ~loopLog.left, ~in_event', ~loopLog'.cut
       PROVE  preview'.diffs = 0 /\ Quiet(image_ring')
  <2>1. CASE ends
    <3>1. Quiet(shown.ring)
      BY <1>9, <1>13, <1>15, <2>1 DEF Quiet
    <3>2. flush.preview.diffs \in Nat
      BY <1>7 DEF IsPreview
    <3>3. shown.preview.diffs = 0
      <4>1. CASE shoots
        BY <1>9, <4>1
      <4>2. CASE ~shoots
        BY <1>8, <1>9, <2>1, <3>2, <4>2
      <4> QED BY <4>1, <4>2
    <3> QED BY <3>1, <3>3, <1>11, <1>12
  <2>2. CASE ~ends
    <3>1. ~in_event /\ ~FirstMotion /\ ~loopLog.cut
      BY <1>12, <1>13, <1>15, <2>2
    <3>2. ~Trigger /\ ~Sustained
      BY <3>1 DEF FirstMotion, Trigger
    <3>3. preview.diffs = 0 /\ Quiet(image_ring) /\ ~(postcap > 0)
      BY <3>1, <1>2, <1>15 DEF StaleInv
    <3>4. ~PostCapture
      BY <3>3 DEF PostCapture
    <3>5. Quiet(Flagged)
      <4>1. DOMAIN Flagged = DOMAIN image_ring /\ DOMAIN image_ring = 0 .. n - 1
            /\ \A i \in 0 .. n - 1 : image_ring[i] \in Image
        BY <1>1 DEF Flagged, InRing, RingOf
      <4> SUFFICES ASSUME NEW i \in 0 .. n - 1, Pending(Flagged[i]) PROVE ~Moving(Flagged[i])
        BY <4>1 DEF Quiet
      <4>2. CASE i # image_ring_in
        <5>1. Flagged[i] = [image_ring[i] EXCEPT !.save = image_ring[i].save \/ Sustained]
          BY <4>1, <4>2 DEF Flagged
        <5>2. /\ Flagged[i].save = (image_ring[i].save \/ Sustained) /\ Flagged[i].saved = image_ring[i].saved
              /\ Flagged[i].motion = image_ring[i].motion /\ Flagged[i].diffs = image_ring[i].diffs
          BY <5>1, <4>1 DEF Image
        <5>3. Pending(image_ring[i])
          BY <5>2, <3>2 DEF Pending
        <5> QED BY <5>2, <5>3, <3>3, <4>1 DEF Quiet, Moving
      <4>3. CASE i = image_ring_in
        <5> DEFINE cur == image_ring[i]
                   dist == IF (Emulated \/ WithMotion) /\ new_img = "center" THEN cur.diffs ELSE cur.cent_dist
                   a == Moving(cur)
                   b == cur.trigger \/ Trigger
                   c == cur.save \/ Trigger \/ PostCapture
        <5>1. Flagged[i] = [cur EXCEPT !.motion = a, !.cent_dist = dist, !.trigger = b, !.save = c]
          BY <4>1, <4>3 DEF Flagged
        <5>2. cur \in Image
          BY <4>1
        <5> HIDE DEF a, b, c, dist, cur
        <5>3. /\ Flagged[i].save = c /\ Flagged[i].saved = cur.saved
              /\ Flagged[i].motion = a /\ Flagged[i].diffs = cur.diffs
          BY <5>1, <5>2 DEF Image
        <5>4. Pending(cur)
          BY <5>3, <3>2, <3>4 DEF Pending, c
        <5>5. ~Moving(cur)
          BY <5>4, <3>3, <4>1 DEF Quiet, cur
        <5>6. ~a /\ ~(cur.diffs > 0)
          BY <5>5 DEF a, Moving
        <5> QED BY <5>3, <5>6 DEF Moving
      <4> QED BY <4>2, <4>3
    <3>6. shown.ring = Flagged /\ shown.preview.diffs = 0
      BY <1>5, <1>6, <1>7, <1>8, <1>9, <2>2, <3>1, <3>3
    <3> QED BY <3>5, <3>6, <1>11, <1>12
  <2> QED BY <2>1, <2>2
<1> QED BY <1>11, <1>12, <1>13, <1>14, <1>15

\* Every step keeps the preview and the ring so.
LEMMA StaleKept ==
  ASSUME StaleInv, [LoopNext]_loopVars
  PROVE  StaleInv'
<1>1. OrderInv'
  BY OrderKept DEF StaleInv
<1>2. CASE motion_init
  <2>1. /\ pc = "start" /\ pc' = "top" /\ image_ring' = Fresh
        /\ UNCHANGED <<postcap, preview, loopLog>>
    BY <1>2 DEF motion_init, Fresh
  <2>2. Quiet(Fresh)
    BY DEF Quiet, Fresh, Cleared, Pending
  <2> QED BY <1>1, <2>1, <2>2 DEF StaleInv
<1>3. ASSUME NEW entry, Leave(entry) PROVE StaleInv'
  <2>1. pc' = "exit" /\ preview' = preview
    BY <1>3 DEF Leave
  <2> QED BY <1>1, <2>1 DEF StaleInv
<1>4. CASE LoopInitFails \/ LoopLeaves \/ CameraChanged
  BY <1>3, <1>4 DEF LoopInitFails, LoopLeaves, CameraChanged
<1>5. CASE Capture
  <2>1. /\ pc = "top" /\ pc' = "frame" /\ UNCHANGED <<postcap, preview, in_event>>
        /\ loopLog' = [loopLog EXCEPT !.sent = <<>>, !.saved = <<>>]
    BY <1>5 DEF Capture
  <2>2. loopLog'.left = loopLog.left /\ loopLog'.cut = loopLog.cut
    BY <2>1 DEF StaleInv, OrderInv, LogFields
  <2>3. Quiet(image_ring) => Quiet(image_ring')
    BY <1>5, CaptureStaysQuiet DEF StaleInv
  <2> QED BY <1>1, <2>1, <2>2, <2>3 DEF StaleInv
<1>6. CASE Act
  <2>1. pc' = "top"
    BY <1>6 DEF Act
  <2> QED BY <1>1, <1>6, <2>1, ActStaysQuiet DEF StaleInv
<1>7. CASE Restarted
  <2>1. loopLog.left /\ UNCHANGED <<loopLog, preview>>
    BY <1>7 DEF Restarted
  <2> QED BY <1>1, <2>1 DEF StaleInv
<1>8. CASE Orderly
  <2>1. /\ pc \in {"top", "frame"}
        /\ UNCHANGED <<pc, preview, postcap, in_event, image_ring>>
    BY <1>8 DEF Orderly, OrderMovie, OrderQuit, OrderFinish, OrderConfig, Order, Untouched
  <2>2. \/ loopLog' = Ordered(loopLog)
      \/ loopLog' = Ordered([loopLog EXCEPT !.quit = TRUE])
      \/ \E b : loopLog' = Ordered([loopLog EXCEPT !.mixed = b])
    BY <1>8 DEF Orderly, OrderMovie, OrderQuit, OrderFinish, OrderConfig
  <2>3. loopLog'.left = loopLog.left /\ loopLog'.cut = loopLog.cut
    BY <2>2 DEF Ordered, StaleInv, OrderInv, LogFields
  <2> QED BY <1>1, <2>1, <2>3 DEF StaleInv
<1>9. CASE UNCHANGED loopVars
  BY <1>1, <1>9 DEF StaleInv, loopVars
<1> QED BY <1>2, <1>4, <1>5, <1>6, <1>7, <1>8, <1>9 DEF LoopNext, Loop

\* Between two events nothing is left of the preview of the first: the flush at
\* EVENT_ENDMOTION leaves no image with motion to be sent, and outside an event no
\* other comes to be.
THEOREM PreviewsAreFresh == LoopSpec => []NoStalePreview
<1>1. LoopInit => StaleInv
  <2>1. LoopInit => OrderInv
    BY DEF LoopInit, OrderInv, NewLog, LogFields
  <2>2. LoopInit => IsPreview(preview) /\ preview.diffs = 0 /\ postcap = 0 /\ pc = "start"
    BY DEF LoopInit, NoPreview, IsPreview, PreviewFields
  <2> QED BY <2>1, <2>2 DEF StaleInv
<1>2. StaleInv /\ [LoopNext]_loopVars => StaleInv'
  BY StaleKept
<1>3. StaleInv => NoStalePreview
  BY DEF StaleInv, NoStalePreview
<1> QED BY <1>1, <1>2, <1>3, PTL DEF LoopSpec

-----------------------------------------------------------------------------
(* What is marked stays until it is sent *)

\* A pass of process_image_ring begins with the image at image_ring_out, when it is
\* to be sent.
LEMMA FirstIsSent ==
  ASSUME NEW n \in Nat, n > 0, NEW ring, RingOf(ring, n), NEW out \in 0 .. n - 1,
         image_ring_in \in 0 .. n - 1, NEW max \in Nat, max > 0, Pending(ring[out])
  PROVE  InARow(ring, out, max) \in Nat /\ InARow(ring, out, max) >= 1 /\ SlotAt(ring, out, 0) = out
<1>1. SlotAt(ring, out, 0) = out
  BY SlotIsAround DEF Around
<1> DEFINE m == Least(max, Ahead(ring, out))
           counts == {c \in 0 .. m : \A k \in 0 .. c - 1 : Pending(ring[SlotAt(ring, out, k)])}
<1>2. m \in Nat /\ m >= 1
  <2>1. Ahead(ring, out) = IF out = image_ring_in THEN n
                           ELSE IF image_ring_in > out THEN image_ring_in - out
                           ELSE image_ring_in + n - out
    BY RunIs
  <2> QED BY <2>1 DEF Least
<1> HIDE DEF m
<1>3. 1 \in counts /\ counts \subseteq 0 .. m /\ counts # {}
  <2>1. \A k \in 0 .. 0 : Pending(ring[SlotAt(ring, out, k)])
    BY <1>1
  <2> QED BY <1>2, <2>1
<1>4. \E c \in counts : \A d \in counts : d <= c
  <2> HIDE DEF counts
  <2> QED BY <1>2, <1>3, MaxExists
<1>5. InARow(ring, out, max) \in counts /\ \A d \in counts : d <= InARow(ring, out, max)
  <2>1. InARow(ring, out, max) = CHOOSE c \in counts : \A d \in counts : d <= c
    BY DEF InARow, m
  <2> HIDE DEF counts
  <2> QED BY <1>4, <2>1
<1>6. InARow(ring, out, max) >= 1 /\ InARow(ring, out, max) \in Nat
  <2> DEFINE c == InARow(ring, out, max)
  <2> HIDE DEF counts, c
  <2>1. c \in 0 .. m /\ 1 <= c
    BY <1>3, <1>5 DEF c
  <2>2. c >= 1 /\ c \in Nat
    BY <1>2, <2>1
  <2> QED BY <2>2 DEF c
<1> QED BY <1>1, <1>6

\* Where the next image goes, nothing is left to be sent after a pass.
NextIsFree(ring) == ~(Pending(ring[Wrap(ring, image_ring_in + 1)]) /\ ring[Wrap(ring, image_ring_in + 1)].id > 0)

LEMMA PassFreesNext ==
  ASSUME NEW n \in Nat, n > 0, image_ring_in \in 0 .. n - 1, captured \in Nat, NEW last \in Nat,
         NEW max \in Nat, max > 0, NEW w, InWork(w, n, last), w.out < n
  PROVE  NextIsFree(process_image_ring(w, max).ring)
<1> DEFINE ring == w.ring
           out == w.out
           c == InARow(ring, out, max)
           slots == [k \in 1 .. c |-> SlotAt(ring, out, k - 1)]
           S == {slots[k] : k \in DOMAIN slots}
           v == process_image_ring(w, max)
           s == Wrap(ring, image_ring_in + 1)
<1>1. /\ RingOf(ring, n) /\ SizeOf(ring) = n /\ out \in 0 .. n - 1
      /\ DOMAIN ring = 0 .. n - 1 /\ \A i \in 0 .. n - 1 : ring[i] \in Image
  <2>1. RingOf(ring, n) /\ out \in Nat
    BY DEF InWork
  <2> HIDE DEF ring, out
  <2>2. SizeOf(ring) = n
    BY <2>1, SizeIs
  <2>3. DOMAIN ring = 0 .. n - 1 /\ \A i \in 0 .. n - 1 : ring[i] \in Image
    BY <2>1 DEF RingOf
  <2>4. out < n
    BY DEF out
  <2> QED BY <2>1, <2>2, <2>3, <2>4
<1>2. s \in 0 .. n - 1 /\ s = IF image_ring_in + 1 = n THEN 0 ELSE image_ring_in + 1
  <2>1. s = IF image_ring_in + 1 >= n THEN 0 ELSE image_ring_in + 1
    BY <1>1 DEF Wrap
  <2> HIDE DEF s
  <2> QED BY <2>1
<1>3. v.ring = MarkSaved(ring, S)
  <2>1. ~(w.out >= SizeOf(w.ring))
    BY <1>1
  <2>2. v = [ring |-> MarkSaved(ring, S), out |-> NextOut(ring, out, Len(slots)),
             preview |-> PreviewAfter(ring, slots, w.preview),
             sent |-> w.sent \o [k \in DOMAIN slots |-> Put(ring[slots[k]])], oob |-> w.oob]
    BY <2>1, Zenon DEF process_image_ring, c
  <2> HIDE DEF v, S, slots
  <2> QED BY <2>2
<1>4. /\ DOMAIN v.ring = 0 .. n - 1
      /\ \A i \in 0 .. n - 1 : v.ring[i] = [ring[i] EXCEPT !.saved = @ \/ i \in S]
  <2> HIDE DEF v, S
  <2> QED BY <1>1, <1>3 DEF MarkSaved
<1> HIDE DEF v, S
<1>5. /\ v.ring[s].saved = (ring[s].saved \/ s \in S)
      /\ v.ring[s].save = ring[s].save /\ v.ring[s].id = ring[s].id
  <2> HIDE DEF s, ring
  <2>1. v.ring[s] = [ring[s] EXCEPT !.saved = ring[s].saved \/ s \in S] /\ ring[s] \in Image
    BY <1>1, <1>2, <1>4
  <2> QED BY <2>1 DEF Image
<1>6. SizeOf(v.ring) = n
  BY <1>1, <1>4 DEF SizeOf
<1>7. ASSUME Pending(v.ring[s]), v.ring[s].id > 0 PROVE FALSE
  <2>1. s \notin S /\ Pending(ring[s]) /\ Unsent(ring[s])
    <3> HIDE DEF s, ring
    <3>1. ring[s] \in Image
      BY <1>1, <1>2
    <3> QED BY <3>1, <1>5, <1>7 DEF Pending, Unsent, Image
  <2>2. Held(image_ring_in, out, s)
    BY <2>1, <1>1, <1>2 DEF InWork
  <2>3. s = out
    <3> HIDE DEF s, ring, out
    <3> QED BY <2>2, <1>1, <1>2 DEF Held
  <2>4. c \in Nat /\ c >= 1 /\ SlotAt(ring, out, 0) = out
    <3> HIDE DEF s, c, ring, out
    <3>1. Pending(ring[out])
      BY <2>1, <2>3
    <3> QED BY <1>1, <3>1, FirstIsSent DEF c
  <2>5. slots[1] = out /\ 1 \in DOMAIN slots
    <3> HIDE DEF c, ring, out
    <3> QED BY <2>4
  <2>6. out \in S
    BY <2>5 DEF S
  <2> QED BY <2>1, <2>3, <2>6
<1> QED BY <1>1, <1>6, <1>7 DEF NextIsFree, v, Wrap

\* At the start of an iteration the slot the next image goes into is free.
SaveInv == OrderInv /\ (pc = "top" /\ ~loopLog.oob => NextIsFree(image_ring))

\* The pass that ends an iteration frees the slot of the next image.
LEMMA ActFreesNext ==
  ASSUME OrderInv, Act
  PROVE  ~loopLog'.oob => NextIsFree(image_ring)'
<1> SUFFICES ASSUME ~loopLog'.oob PROVE NextIsFree(image_ring)'
  OBVIOUS
<1>1. PICK n \in Nat :
        /\ n > 0
        /\ InRing(image_ring, n, image_ring_in, image_ring_out, loopLog.last, captured)
        /\ image_ring_in < n
  BY DEF OrderInv, Act
<1>2. /\ captured \in Nat /\ image_ring_in \in 0 .. n - 1 /\ image_ring_out \in Nat
      /\ loopLog.last \in Nat /\ n > 0
  BY <1>1 DEF OrderInv
<1>3. PICK long \in {FALSE, conf.max_movie_time /\ in_event},
           gap \in {FALSE, conf.event_gap > 0 /\ ~Flagged[image_ring_in].save} :
        \E opened \in event_create_extpipe,
           third, other \in IF Shoots(EventEnds(long, gap), Flushed(EventEnds(long, gap)))
                            THEN Outcomes ELSE {"ok"} :
          Finish(EventEnds(long, gap), Overdue(long), Flushed(EventEnds(long, gap)),
                 Shoots(EventEnds(long, gap), Flushed(EventEnds(long, gap))),
                 Done(Flushed(EventEnds(long, gap)), Shoots(EventEnds(long, gap), Flushed(EventEnds(long, gap)))),
                 opened, third, other)
  BY DEF Act
<1> DEFINE ends == EventEnds(long, gap)
           flush == Flushed(ends)
           shoots == Shoots(ends, flush)
           w == IF shoots THEN preview_save(flush) ELSE flush
           done == Done(flush, shoots)
<1>4. PICK opened, third, other : Finish(ends, Overdue(long), flush, shoots, done, opened, third, other)
  BY <1>3
<1> HIDE DEF ends
<1>5. InWork(Begun, n, loopLog.last)
  BY <1>1, <1>2, BegunInOrder
<1>6. InWork(flush, n, loopLog.last)
  <2>1. SizeOf(image_ring) \in Nat
    BY <1>1, SizeIs DEF InRing
  <2>2. flush = Begun \/ flush = process_image_ring(Begun, SizeOf(image_ring))
    BY DEF Flushed
  <2> HIDE DEF flush
  <2> QED BY <2>1, <2>2, <1>2, <1>5, ProcessKeepsOrder
<1> HIDE DEF flush, shoots
<1>7. InWork(w, n, loopLog.last)
  <2> DEFINE saved == preview_save(flush)
  <2>1. saved = [flush EXCEPT !.preview.diffs = 0]
    BY DEF preview_save
  <2>2. saved.ring = flush.ring /\ saved.out = flush.out /\ saved.sent = flush.sent /\ DOMAIN saved = WorkFields
    BY <2>1, <1>6 DEF InWork, WorkFields
  <2> HIDE DEF saved
  <2>3. InWork(saved, n, loopLog.last)
    BY <2>2, <1>6 DEF InWork
  <2> QED BY <2>3, <1>6 DEF saved
<1>8. done = process_image_ring(w, 2)
  BY DEF Done
<1> HIDE DEF w, done
<1>9. /\ image_ring' = done.ring /\ image_ring_in' = image_ring_in
      /\ loopLog' = LogAfter(ends, flush, shoots, done, third)
  BY <1>4 DEF Finish, Act
<1>10. loopLog'.oob = (loopLog.oob \/ done.oob)
  BY <1>9 DEF LogAfter, OrderInv, LogFields
<1>11. w.out < n
  <2> SUFFICES ASSUME ~(w.out < n) PROVE FALSE
    OBVIOUS
  <2>1. w.out >= SizeOf(w.ring) /\ DOMAIN w = WorkFields
    BY <1>7, <1>2, SizeIs DEF InWork
  <2>2. done = [w EXCEPT !.oob = TRUE]
    BY <1>8, <2>1 DEF process_image_ring
  <2> QED BY <2>1, <2>2, <1>10 DEF WorkFields
<1>12. NextIsFree(done.ring)
  BY <1>2, <1>7, <1>8, <1>11, PassFreesNext
<1> QED BY <1>9, <1>12 DEF NextIsFree

\* No capture takes an image that is still to be sent out of the ring: each iteration
\* ends with a pass that sends the image the next one would throw away, and in an event
\* the ring keeps its size.
THEOREM MarkedAreSent == LoopSpec => SaveIsSent
<1> DEFINE Kept == \A i \in DOMAIN image_ring :
                     Pending(image_ring[i]) /\ image_ring[i].id > 0 =>
                       i \in DOMAIN image_ring' /\ image_ring'[i].id = image_ring[i].id
           Asked == Capture /\ ~loopLog.oob /\ (in_event \/ DOMAIN image_ring' = DOMAIN image_ring)
<1>1. LoopInit => SaveInv
  BY DEF LoopInit, OrderInv, NewLog, LogFields, SaveInv
<1>2. ASSUME SaveInv, [LoopNext]_loopVars PROVE SaveInv'
  <2>1. OrderInv'
    BY <1>2, OrderKept DEF SaveInv
  <2> SUFFICES ASSUME pc' = "top", ~loopLog'.oob PROVE NextIsFree(image_ring)'
    BY <2>1 DEF SaveInv
  <2>2. CASE motion_init
    <3>1. image_ring' = Fresh /\ image_ring_in' = image_ring_in /\ image_ring_in \in Nat
      BY <2>2, <1>2 DEF motion_init, Fresh, SaveInv, OrderInv
    <3>2. Wrap(Fresh, image_ring_in + 1) = 0
      <4>1. RingOf(Fresh, 1)
        BY FreshInRing, 0 \in Nat DEF InRing
      <4>2. SizeOf(Fresh) = 1
        BY <4>1, SizeIs
      <4> QED BY <3>1, <4>2 DEF Wrap
    <3>3. Fresh[0].id = 0
      BY DEF Fresh, Cleared
    <3> QED BY <3>1, <3>2, <3>3 DEF NextIsFree
  <2>3. CASE LoopInitFails \/ LoopLeaves \/ CameraChanged
    BY <2>3 DEF LoopInitFails, LoopLeaves, CameraChanged, Leave
  <2>4. CASE Capture \/ Restarted
    BY <2>4 DEF Capture, Restarted
  <2>5. CASE Act
    BY <2>5, <1>2, ActFreesNext DEF SaveInv
  <2>6. CASE Orderly
    <3>1. pc = pc' /\ UNCHANGED <<image_ring, image_ring_in>>
      BY <2>6 DEF Orderly, OrderMovie, OrderQuit, OrderFinish, OrderConfig, Order, Untouched
    <3>2. \/ loopLog' = Ordered(loopLog)
        \/ loopLog' = Ordered([loopLog EXCEPT !.quit = TRUE])
        \/ \E b : loopLog' = Ordered([loopLog EXCEPT !.mixed = b])
      BY <2>6 DEF Orderly, OrderMovie, OrderQuit, OrderFinish, OrderConfig
    <3>3. loopLog'.oob = loopLog.oob
      BY <3>2, <1>2 DEF Ordered, SaveInv, OrderInv, LogFields
    <3> QED BY <3>1, <3>3, <1>2 DEF SaveInv, NextIsFree
  <2>7. CASE UNCHANGED loopVars
    BY <2>7, <1>2 DEF loopVars, SaveInv, NextIsFree
  <2> QED BY <1>2, <2>2, <2>3, <2>4, <2>5, <2>6, <2>7 DEF LoopNext, Loop
<1>3. ASSUME SaveInv, Asked PROVE Kept
  <2>1. PICK n \in Nat : n > 0 /\ RingOf(image_ring, n) /\ SizeOf(image_ring) = n /\ DOMAIN image_ring = 0 .. n - 1
    BY <1>3, SizeIs DEF SaveInv, OrderInv, Capture, InRing, RingOf
  <2> DEFINE new == BufferSize(conf)
             ring == image_ring_resize(new)
             slot == Wrap(ring, image_ring_in + 1)
  <2>2. PICK img : image_ring' = [ring EXCEPT ![slot] = img]
    BY <1>3 DEF Capture
  <2>3. new \in Nat
    BY <1>3, LoopAssumption DEF SaveInv, OrderInv, BufferSize
  <2>4. ring = image_ring
    <3> SUFFICES ASSUME MayResize(new) PROVE FALSE
      BY DEF image_ring_resize
    <3>1. new # n /\ ~in_event
      BY <2>1 DEF MayResize
    <3>2. DOMAIN ring = 0 .. new - 1
      BY DEF image_ring_resize
    <3> HIDE DEF new, ring, slot
    <3>3. DOMAIN image_ring' = 0 .. new - 1
      BY <2>2, <3>2
    <3>4. 0 .. new - 1 = 0 .. n - 1
      BY <1>3, <2>1, <3>1, <3>3
    <3> QED BY <2>3, <2>1, <3>1, <3>4
  <2>5. NextIsFree(image_ring)
    BY <1>3 DEF SaveInv, Capture
  <2> HIDE DEF ring, new
  <2> QED BY <2>2, <2>4, <2>5 DEF NextIsFree
<1>4. SaveInv /\ [LoopNext]_loopVars => SaveInv' /\ (Asked => Kept)
  BY <1>2, <1>3
<1> QED BY <1>1, <1>4, PTL DEF LoopSpec, SaveIsSent

-----------------------------------------------------------------------------
(* The neighbours of the image that triggered *)

\* How many slots slot i is after `out', and the slots before and after i, in a ring of n.
Dist(n, out, i) == IF i >= out THEN i - out ELSE (i + n) - out
Prev(n, i) == IF i = 0 THEN n - 1 ELSE i - 1
Succ(n, i) == IF i < n - 1 THEN i + 1 ELSE 0

\* An image that triggered and was not sent.
Waits(img) == img.trigger /\ ~img.saved

\* Nothing that was sent is between image_ring_out and image_ring_in.
Behind(ring, n, in, out) ==
  \A i \in 0 .. n - 1 : (out < n => Dist(n, out, i) <= Dist(n, out, in)) => ~ring[i].saved

\* An image that triggered and was not sent will be, with all the older ones, and before the
\* ring comes round to its neighbours, which are the captures before and after it.
InLine(ring, n, in, out, i) ==
  /\ Dist(n, out, i) <= Dist(n, out, in)
  /\ \A j \in 0 .. n - 1 : Dist(n, out, j) <= Dist(n, out, i) => Pending(ring[j])
  /\ ring[i].id = ring[Prev(n, i)].id + 1
  /\ i # in => ring[Succ(n, i)].id = ring[i].id + 1
Lined(ring, n, in, out, room) ==
  \A i \in 0 .. n - 1 : Waits(ring[i]) =>
    /\ ring[i].save
    /\ out < n => Dist(n, out, in) + room <= n /\ InLine(ring, n, in, out, i)

LEMMA DistIs ==
  ASSUME NEW n \in Nat, n > 0, NEW out \in 0 .. n - 1
  PROVE  /\ \A i \in 0 .. n - 1 : Dist(n, out, i) \in 0 .. n - 1 /\ Around(n, out, Dist(n, out, i)) = i
         /\ \A k \in 0 .. n - 1 : Around(n, out, k) \in 0 .. n - 1 /\ Dist(n, out, Around(n, out, k)) = k
<1>1. ASSUME NEW i \in 0 .. n - 1
      PROVE  Dist(n, out, i) \in 0 .. n - 1 /\ Around(n, out, Dist(n, out, i)) = i
  BY DEF Dist, Around
<1>2. ASSUME NEW k \in 0 .. n - 1
      PROVE  Around(n, out, k) \in 0 .. n - 1 /\ Dist(n, out, Around(n, out, k)) = k
  BY DEF Dist, Around
<1> QED BY <1>1, <1>2

\* The distances after c slots more.
LEMMA DistFrom ==
  ASSUME NEW n \in Nat, n > 0, NEW out \in 0 .. n - 1, NEW c \in 0 .. n - 1, NEW i \in 0 .. n - 1
  PROVE  Dist(n, Around(n, out, c), i) = IF Dist(n, out, i) >= c THEN Dist(n, out, i) - c
                                         ELSE (Dist(n, out, i) + n) - c
BY DEF Dist, Around

\* The neighbours of a slot.
LEMMA NeighboursAre ==
  ASSUME NEW n \in Nat, n >= 3, NEW i \in 0 .. n - 1
  PROVE  /\ Succ(n, i) \in 0 .. n - 1 /\ Succ(n, i) # i /\ Prev(n, Succ(n, i)) = i
         /\ Prev(n, i) \in 0 .. n - 1 /\ Prev(n, i) # i /\ Succ(n, Prev(n, i)) = i
         /\ \A out \in 0 .. n - 1 :
              Dist(n, out, Succ(n, i)) = IF Dist(n, out, i) = n - 1 THEN 0 ELSE Dist(n, out, i) + 1
BY DEF Succ, Prev, Dist

\* Different slots are at different distances.
LEMMA DistDiffers ==
  ASSUME NEW n \in Nat, n > 0, NEW out \in 0 .. n - 1, NEW i \in 0 .. n - 1, NEW j \in 0 .. n - 1,
         Dist(n, out, i) = Dist(n, out, j)
  PROVE  i = j
BY DEF Dist

\* InARow stops at an image that is not to be sent.
LEMMA RunIsLongest ==
  ASSUME NEW n \in Nat, n > 0, NEW ring, RingOf(ring, n), NEW out \in 0 .. n - 1,
         image_ring_in \in 0 .. n - 1, NEW max \in Nat,
         InARow(ring, out, max) < max, InARow(ring, out, max) < Ahead(ring, out)
  PROVE  ~Pending(ring[SlotAt(ring, out, InARow(ring, out, max))])
<1> DEFINE c == InARow(ring, out, max)
           m == Least(max, Ahead(ring, out))
           counts == {d \in 0 .. m : \A k \in 0 .. d - 1 : Pending(ring[SlotAt(ring, out, k)])}
<1>1. /\ c \in 0 .. max /\ \A k \in 0 .. c - 1 : Pending(ring[SlotAt(ring, out, k)])
      /\ Ahead(ring, out) \in Nat
  <2> HIDE DEF counts, m
  <2>1. Ahead(ring, out) = IF out = image_ring_in THEN n
                               ELSE IF image_ring_in > out THEN image_ring_in - out
                               ELSE image_ring_in + n - out
    BY RunIs
  <2>2. Ahead(ring, out) \in Nat
    BY <2>1
  <2>3. InARow(ring, out, max) \in 0 .. max
    BY RunIs
  <2>4. \A k \in 0 .. InARow(ring, out, max) - 1 : Pending(ring[SlotAt(ring, out, k)])
    BY RunIs
  <2> QED BY <2>2, <2>3, <2>4
<1>2. m \in Nat /\ c < m
  BY <1>1 DEF Least
<1>3. 0 \in counts /\ counts \subseteq 0 .. m
  BY <1>2
<1>4. \E d \in counts : \A e \in counts : e <= d
  <2> HIDE DEF counts, m
  <2> QED BY <1>2, <1>3, MaxExists
<1>5. \A e \in counts : e <= c
  <2>1. c = CHOOSE d \in counts : \A e \in counts : e <= d
    BY DEF InARow
  <2> HIDE DEF counts, c
  <2> QED BY <1>4, <2>1
<1> HIDE DEF c, m
<1>6. c + 1 \notin counts
  <2> HIDE DEF counts
  <2> QED BY <1>1, <1>5
<1>7. c + 1 \in 0 .. m /\ \A k \in 0 .. c : k = c \/ k \in 0 .. c - 1
  BY <1>1, <1>2
<1>8. ASSUME Pending(ring[SlotAt(ring, out, c)]) PROVE FALSE
  <2>1. \A k \in 0 .. (c + 1) - 1 : Pending(ring[SlotAt(ring, out, k)])
    BY <1>1, <1>7, <1>8
  <2>2. c + 1 \in counts
    <3> HIDE DEF counts
    <3> QED BY <1>7, <2>1 DEF counts
  <2> QED BY <1>6, <2>2
<1> QED BY <1>8 DEF c

\* A pass of process_image_ring over the first c slots.
Sends(w, v, n, max, c) ==
  /\ c \in 0 .. Dist(n, w.out, image_ring_in) /\ c <= max
  /\ v.out = Around(n, w.out, c)
  /\ DOMAIN v.ring = 0 .. n - 1
  /\ \A i \in 0 .. n - 1 :
       /\ v.ring[i].saved <=> (w.ring[i].saved \/ Dist(n, w.out, i) < c)
       /\ v.ring[i].id = w.ring[i].id /\ v.ring[i].trigger = w.ring[i].trigger
       /\ v.ring[i].save = w.ring[i].save
       /\ Dist(n, w.out, i) < c => Pending(w.ring[i])
       /\ Dist(n, w.out, i) = c => c >= max \/ i = image_ring_in \/ ~Pending(w.ring[i])
  /\ \/ v.preview = w.preview
     \/ \E i \in 0 .. n - 1 : Dist(n, w.out, i) < c /\ v.preview = Chosen(w.ring, i, w.preview)

\* Such a pass is what happens while image_ring_out is behind image_ring_in.
LEMMA PassSends ==
  ASSUME NEW n \in Nat, n > 0, image_ring_in \in 0 .. n - 1, NEW last, NEW max \in Nat,
         NEW w, InWork(w, n, last), IsPreview(w.preview), w.out < n, w.out # image_ring_in
  PROVE  \E c : Sends(w, process_image_ring(w, max), n, max, c)
<1> DEFINE ring == w.ring
           out == w.out
           c == InARow(ring, out, max)
           slots == [k \in 1 .. c |-> SlotAt(ring, out, k - 1)]
           S == {slots[k] : k \in DOMAIN slots}
           add == [k \in DOMAIN slots |-> Put(ring[slots[k]])]
           v == process_image_ring(w, max)
           D(i) == Dist(n, out, i)
<1>1. /\ RingOf(ring, n) /\ SizeOf(ring) = n /\ out \in 0 .. n - 1
      /\ \A i \in 0 .. n - 1 : ring[i] \in Image
      /\ DOMAIN ring = 0 .. n - 1
  <2>1. RingOf(ring, n) /\ out \in Nat
    BY DEF InWork
  <2>2. out \in 0 .. n - 1
    BY <2>1
  <2> HIDE DEF ring, out
  <2>3. SizeOf(ring) = n
    BY <2>1, SizeIs
  <2>4. DOMAIN ring = 0 .. n - 1 /\ \A i \in 0 .. n - 1 : ring[i] \in Image
    BY <2>1 DEF RingOf
  <2> QED BY <2>1, <2>2, <2>3, <2>4
<1>2. /\ c \in Nat /\ c <= max /\ c <= D(image_ring_in) /\ D(image_ring_in) \in 0 .. n - 1
      /\ \A k \in 0 .. c - 1 : Pending(ring[SlotAt(ring, out, k)])
      /\ c < max /\ c < D(image_ring_in) => ~Pending(ring[SlotAt(ring, out, c)])
  <2> HIDE DEF ring, v, slots, S, add
  <2>1. c \in 0 .. max /\ c <= Ahead(ring, out)
    BY <1>1, RunIs
  <2>2. Ahead(ring, out) = IF out = image_ring_in THEN n ELSE IF image_ring_in > out THEN image_ring_in - out
              ELSE image_ring_in + n - out
    BY <1>1, RunIs
  <2>3. \A k \in 0 .. c - 1 : Pending(ring[SlotAt(ring, out, k)])
    BY <1>1, RunIs
  <2>4. c < max /\ c < Ahead(ring, out) => ~Pending(ring[SlotAt(ring, out, c)])
    BY <1>1, RunIsLongest
  <2>5. D(image_ring_in) \in 0 .. n - 1
    BY <1>1, DistIs
  <2> HIDE DEF c
  <2>6. Ahead(ring, out) = D(image_ring_in)
    BY <2>2, <1>1 DEF Dist
  <2> QED BY <2>1, <2>3, <2>4, <2>5, <2>6
<1>3. v = [ring |-> MarkSaved(ring, S), out |-> NextOut(ring, out, Len(slots)),
           preview |-> PreviewAfter(ring, slots, w.preview),
           sent |-> w.sent \o add, oob |-> w.oob]
  <2>1. ~(w.out >= SizeOf(w.ring))
    BY <1>1
  <2> QED BY <2>1, Zenon DEF process_image_ring
<1> HIDE DEF c, v
<1>4. \A k \in 0 .. n - 1 : /\ SlotAt(ring, out, k) = Around(n, out, k)
                            /\ SlotAt(ring, out, k) \in 0 .. n - 1
                            /\ D(SlotAt(ring, out, k)) = k
  <2> HIDE DEF ring, out, slots, S, add
  <2>1. \A k \in 0 .. n : SlotAt(ring, out, k) = Around(n, out, k)
    BY <1>1, SlotIsAround
  <2>2. \A k \in 0 .. n - 1 : Around(n, out, k) \in 0 .. n - 1 /\ Dist(n, out, Around(n, out, k)) = k
    BY <1>1, DistIs
  <2>3. \A k \in 0 .. n - 1 : k \in 0 .. n
    OBVIOUS
  <2> QED BY <2>1, <2>2, <2>3
<1>5. \A k \in 0 .. c : k \in 0 .. n - 1
  BY <1>2
<1>6. /\ DOMAIN slots = 1 .. c /\ slots = [k \in 1 .. c |-> slots[k]]
      /\ \A k \in 1 .. c : slots[k] = SlotAt(ring, out, k - 1) /\ k - 1 \in 0 .. c - 1 /\ k - 1 \in 0 .. c
      /\ Len(slots) = c
  <2> HIDE DEF ring, out
  <2>1. DOMAIN slots = 1 .. c /\ slots = [k \in 1 .. c |-> slots[k]]
    OBVIOUS
  <2>2. \A k \in 1 .. c : slots[k] = SlotAt(ring, out, k - 1)
    OBVIOUS
  <2>3. \A k \in 1 .. c : k - 1 \in 0 .. c - 1 /\ k - 1 \in 0 .. c
    BY <1>2
  <2>4. Len(slots) = c
    BY <1>2
  <2> QED BY <2>1, <2>2, <2>3, <2>4
<1>7. \A k \in 1 .. c : slots[k] \in 0 .. n - 1 /\ D(slots[k]) = k - 1 /\ Pending(ring[slots[k]])
  <2> HIDE DEF slots, ring, out, D
  <2> QED BY <1>2, <1>4, <1>5, <1>6
<1>8. \A i \in 0 .. n - 1 : i \in S <=> D(i) < c
  <2> SUFFICES ASSUME NEW i \in 0 .. n - 1 PROVE i \in S <=> D(i) < c
    OBVIOUS
  <2>1. ASSUME i \in S PROVE D(i) < c
    <3>1. PICK k \in 1 .. c : i = slots[k]
      BY <2>1, <1>6
    <3>2. D(i) = k - 1
      BY <3>1, <1>7
    <3> HIDE DEF D
    <3> QED BY <3>1, <3>2, <1>2
  <2>2. ASSUME D(i) < c PROVE i \in S
    <3>1. D(i) \in 0 .. n - 1 /\ Around(n, out, D(i)) = i
      BY <1>1, DistIs
    <3> HIDE DEF D
    <3>2. D(i) + 1 \in 1 .. c /\ (D(i) + 1) - 1 = D(i)
      BY <3>1, <2>2, <1>2
    <3>3. slots[D(i) + 1] = SlotAt(ring, out, D(i))
      <4> HIDE DEF slots
      <4> QED BY <3>2, <1>6
    <3>4. slots[D(i) + 1] = i
      <4> HIDE DEF slots
      <4> QED BY <3>1, <3>3, <1>4
    <3> HIDE DEF slots
    <3> QED BY <3>2, <3>4, <1>6
  <2> QED BY <2>1, <2>2
<1> HIDE DEF slots, S, add
<1>9. /\ v.ring = MarkSaved(ring, S) /\ v.out = NextOut(ring, out, Len(slots))
      /\ v.preview = PreviewAfter(ring, slots, w.preview)
  BY <1>3
<1>10. v.out = Around(n, out, c)
  <2>1. v.out = SlotAt(ring, out, c)
    BY <1>6, <1>9 DEF NextOut, SlotAt
  <2>2. c \in 0 .. n - 1
    BY <1>2
  <2> QED BY <2>1, <2>2, <1>4
<1>11. /\ DOMAIN v.ring = 0 .. n - 1
       /\ \A i \in 0 .. n - 1 : v.ring[i] = [ring[i] EXCEPT !.saved = ring[i].saved \/ i \in S]
  BY <1>1, <1>9 DEF MarkSaved
<1>12. ASSUME NEW i \in 0 .. n - 1
       PROVE  /\ v.ring[i].saved <=> (ring[i].saved \/ D(i) < c)
              /\ v.ring[i].id = ring[i].id /\ v.ring[i].trigger = ring[i].trigger
              /\ v.ring[i].save = ring[i].save
  <2> HIDE DEF ring, D
  <2>1. v.ring[i] = [ring[i] EXCEPT !.saved = ring[i].saved \/ i \in S] /\ ring[i] \in Image
    BY <1>1, <1>11
  <2>2. /\ v.ring[i].saved = (ring[i].saved \/ i \in S) /\ v.ring[i].id = ring[i].id
        /\ v.ring[i].trigger = ring[i].trigger /\ v.ring[i].save = ring[i].save
    BY <2>1 DEF Image
  <2> QED BY <2>2, <1>8
<1>13. ASSUME NEW i \in 0 .. n - 1, D(i) < c PROVE Pending(ring[i])
  <2>1. i \in S
    BY <1>8, <1>13
  <2>2. PICK k \in 1 .. c : i = slots[k]
    BY <2>1, <1>6 DEF S
  <2> QED BY <2>2, <1>7
<1>14. ASSUME NEW i \in 0 .. n - 1, D(i) = c PROVE c >= max \/ i = image_ring_in \/ ~Pending(ring[i])
  <2>1. Around(n, out, D(i)) = i
    BY <1>1, DistIs
  <2>2. SlotAt(ring, out, c) = i
    <3> HIDE DEF D
    <3> QED BY <2>1, <1>14, <1>2, <1>4
  <2>3. CASE c < D(image_ring_in)
    BY <2>2, <2>3, <1>2
  <2>4. CASE c = D(image_ring_in)
    BY <2>4, <1>1, <1>14, DistDiffers
  <2> HIDE DEF D
  <2> QED BY <2>3, <2>4, <1>2
<1>15. \/ v.preview = w.preview
       \/ \E i \in 0 .. n - 1 : D(i) < c /\ v.preview = Chosen(ring, i, w.preview)
  <2>1. slots \in [1 .. c -> 0 .. n - 1]
    BY <1>6, <1>7
  <2>2. \/ PreviewAfter(ring, slots, w.preview) = w.preview
        \/ \E k \in 1 .. c : PreviewAfter(ring, slots, w.preview) = Chosen(ring, slots[k], w.preview)
    <3> DEFINE old == w.preview
    <3> HIDE DEF old, ring
    <3>1. IsPreview(old)
      BY DEF old
    <3>2. /\ IsPreview(PreviewAfter(ring, slots, old))
          /\ (\A k \in 1 .. c : ~ring[slots[k]].motion) => PreviewAfter(ring, slots, old) = old
          /\ \/ PreviewAfter(ring, slots, old) = old
             \/ \E k \in 1 .. c : PreviewAfter(ring, slots, old) = Chosen(ring, slots[k], old)
      BY <1>1, <1>2, <2>1, <3>1, PreviewAfterIs
    <3> QED BY <3>2 DEF old
  <2>3. CASE \E k \in 1 .. c : PreviewAfter(ring, slots, w.preview) = Chosen(ring, slots[k], w.preview)
    <3>1. PICK k \in 1 .. c : PreviewAfter(ring, slots, w.preview) = Chosen(ring, slots[k], w.preview)
      BY <2>3
    <3>2. slots[k] \in 0 .. n - 1 /\ D(slots[k]) = k - 1
      BY <1>7
    <3>3. D(slots[k]) < c
      <4> HIDE DEF D
      <4> QED BY <3>2, <1>2
    <3> QED BY <3>1, <3>2, <3>3, <1>9
  <2> QED BY <2>2, <2>3, <1>9
<1>16. c \in 0 .. D(image_ring_in)
  <2> HIDE DEF D
  <2> QED BY <1>2
<1> HIDE DEF D
<1>17. Sends(w, v, n, max, c)
  BY <1>2, <1>10, <1>11, <1>12, <1>13, <1>14, <1>15, <1>16, Zenon DEF Sends, D, ring, out
<1> QED BY <1>17 DEF v

\* With nothing to be sent, or image_ring_out outside the ring, a pass changes nothing.
LEMMA PassIdles ==
  ASSUME NEW n \in Nat, n > 0, image_ring_in \in 0 .. n - 1, NEW last, NEW max \in Nat,
         NEW w, InWork(w, n, last), IsPreview(w.preview),
         w.out >= n \/ \A i \in 0 .. n - 1 : ~Pending(w.ring[i])
  PROVE  /\ process_image_ring(w, max).ring = w.ring /\ process_image_ring(w, max).out = w.out
         /\ process_image_ring(w, max).preview = w.preview
<1> DEFINE ring == w.ring
           out == w.out
           c == InARow(ring, out, max)
           slots == [k \in 1 .. c |-> SlotAt(ring, out, k - 1)]
           S == {slots[k] : k \in DOMAIN slots}
           add == [k \in DOMAIN slots |-> Put(ring[slots[k]])]
           v == process_image_ring(w, max)
<1>1. /\ RingOf(ring, n) /\ SizeOf(ring) = n /\ out \in Nat
      /\ \A i \in 0 .. n - 1 : ring[i] \in Image
      /\ DOMAIN ring = 0 .. n - 1
  BY SizeIs DEF InWork, RingOf
<1>2. CASE out >= n
  <2>1. v = [w EXCEPT !.oob = TRUE]
    BY <1>1, <1>2 DEF process_image_ring
  <2>2. v.ring = w.ring /\ v.preview = w.preview /\ v.out = w.out
    BY <2>1 DEF InWork, WorkFields
  <2> QED BY <2>2
<1>3. CASE out < n /\ \A i \in 0 .. n - 1 : ~Pending(ring[i])
  <2>1. out \in 0 .. n - 1
    BY <1>1, <1>3
  <2>2. /\ c \in Nat /\ c <= n
        /\ \A k \in 0 .. c - 1 : Pending(ring[SlotAt(ring, out, k)])
    <3> HIDE DEF ring, out, v, slots, S, add
    <3>1. c \in 0 .. max /\ c <= Ahead(ring, out)
      BY <1>1, <2>1, RunIs
    <3>2. Ahead(ring, out) = IF out = image_ring_in THEN n ELSE IF image_ring_in > out THEN image_ring_in - out
                ELSE image_ring_in + n - out
      BY <1>1, <2>1, RunIs
    <3>3. \A k \in 0 .. c - 1 : Pending(ring[SlotAt(ring, out, k)])
      BY <1>1, <2>1, RunIs
    <3> HIDE DEF c
    <3> QED BY <3>1, <3>2, <3>3, <2>1
  <2>3. v = [ring |-> MarkSaved(ring, S), out |-> NextOut(ring, out, Len(slots)),
             preview |-> PreviewAfter(ring, slots, w.preview),
             sent |-> w.sent \o add, oob |-> w.oob]
    <3>1. ~(w.out >= SizeOf(w.ring))
      BY <1>1, <1>3
    <3> QED BY <3>1, Zenon DEF process_image_ring
  <2> HIDE DEF c, v
  <2>4. SlotAt(ring, out, 0) = out
    <3> HIDE DEF ring, out, slots, S, add
    <3>1. RingOf(ring, n) /\ n \in Nat /\ n > 0 /\ out \in 0 .. n - 1 /\ 0 \in 0 .. n
      BY <1>1, <2>1
    <3>2. SlotAt(ring, out, 0) = Around(n, out, 0)
      BY ONLY <3>1, SlotIsAround
    <3> QED BY <3>1, <3>2 DEF Around
  <2>5. c = 0
    <3> HIDE DEF ring, out, slots, S, add
    <3> SUFFICES ASSUME c > 0 PROVE FALSE
      BY <2>2
    <3>1. Pending(ring[out])
      BY <2>2, <2>4
    <3> QED BY <3>1, <2>1, <1>3
  <2>6. DOMAIN slots = {} /\ S = {} /\ slots \in [1 .. c -> 0 .. n - 1] /\ Len(slots) = 0
    BY <2>5
  <2> HIDE DEF slots, S, add
  <2>7. /\ v.ring = MarkSaved(ring, S) /\ v.out = NextOut(ring, out, Len(slots))
        /\ v.preview = PreviewAfter(ring, slots, w.preview)
    BY <2>3
  <2>8. v.out = out
    BY <2>4, <2>6, <2>7 DEF NextOut, SlotAt
  <2>9. v.preview = w.preview
    <3> DEFINE old == w.preview
    <3> HIDE DEF old, ring
    <3>1. IsPreview(old)
      BY DEF old
    <3>2. /\ IsPreview(PreviewAfter(ring, slots, old))
          /\ (\A k \in 1 .. c : ~ring[slots[k]].motion) => PreviewAfter(ring, slots, old) = old
          /\ \/ PreviewAfter(ring, slots, old) = old
             \/ \E k \in 1 .. c : PreviewAfter(ring, slots, old) = Chosen(ring, slots[k], old)
      <4>1. slots \in [1 .. c -> 0 .. n - 1] /\ RingOf(ring, n) /\ c \in Nat
        BY <1>1, <2>2, <2>6
      <4> QED BY ONLY n \in Nat, <4>1, <3>1, PreviewAfterIs
    <3> QED BY <3>2, <2>5, <2>7 DEF old
  <2>10. v.ring = ring
    <3>1. v.ring = [i \in 0 .. n - 1 |-> [ring[i] EXCEPT !.saved = ring[i].saved \/ i \in S]]
      BY <2>7, <1>1 DEF MarkSaved
    <3> HIDE DEF ring
    <3>2. \A i \in 0 .. n - 1 : [ring[i] EXCEPT !.saved = ring[i].saved \/ i \in S] = ring[i]
      BY <1>1, <2>6 DEF Image
    <3>3. ring = [i \in 0 .. n - 1 |-> ring[i]]
      BY <1>1 DEF RingOf
    <3>4. [i \in 0 .. n - 1 |-> [ring[i] EXCEPT !.saved = ring[i].saved \/ i \in S]] = [i \in 0 .. n - 1 |-> ring[i]]
      BY <3>2
    <3> QED BY <3>1, <3>3, <3>4
  <2> QED BY <2>8, <2>9, <2>10 DEF v
<1> QED BY <1>1, <1>2, <1>3

\* The image img comes after the one at in, and when it meets out the oldest one goes.
Comes(n, in, out, ring, img, slot, next, r) ==
  /\ n \in Nat /\ n >= 3 /\ in \in 0 .. n - 1 /\ out \in Nat
  /\ RingOf(ring, n) /\ Behind(ring, n, in, out)
  /\ img \in Image /\ img.id = ring[in].id + 1 /\ ~img.saved
  /\ slot = Succ(n, in) /\ next = IF slot = out THEN Succ(n, out) ELSE out
  /\ r = [ring EXCEPT ![slot] = img]

\* It keeps the line: there is room for it.
LEMMA NextInLine ==
  ASSUME NEW n, NEW in, NEW out, NEW ring, NEW img, NEW slot, NEW next, NEW r,
         Comes(n, in, out, ring, img, slot, next, r)
  PROVE  /\ Behind(r, n, slot, next) /\ next # slot
         /\ r[slot] = img /\ r[Prev(n, slot)] = ring[in]
         /\ Lined(ring, n, in, out, 3) /\ (img.trigger => Waits(ring[in]) /\ img.save = ring[in].save)
              => Lined(r, n, slot, next, 2)
<1> SUFFICES ASSUME n \in Nat, n >= 3, in \in 0 .. n - 1, out \in Nat, RingOf(ring, n),
                    Behind(ring, n, in, out), img \in Image, img.id = ring[in].id + 1, ~img.saved,
                    slot = Succ(n, in), next = (IF slot = out THEN Succ(n, out) ELSE out),
                    r = [ring EXCEPT ![slot] = img]
             PROVE  /\ Behind(r, n, slot, next) /\ next # slot
                    /\ r[slot] = img /\ r[Prev(n, slot)] = ring[in]
                    /\ Lined(ring, n, in, out, 3)
                         /\ (img.trigger => Waits(ring[in]) /\ img.save = ring[in].save)
                       => Lined(r, n, slot, next, 2)
  BY DEF Comes
<1>1. /\ slot \in 0 .. n - 1 /\ slot # in /\ Prev(n, slot) = in
      /\ \A i \in 0 .. n - 1 : r[i] = IF i = slot THEN img ELSE ring[i]
      /\ \A i \in 0 .. n - 1 : ring[i] \in Image
  <2>1. slot \in 0 .. n - 1 /\ slot # in /\ Prev(n, slot) = in
    BY NeighboursAre
  <2> QED BY <2>1 DEF RingOf
<1>2. next # slot
  BY <1>1, NeighboursAre
<1>3. CASE out >= n
  <2>1. next = out /\ next >= n
    BY <1>1, <1>3
  <2>2. Behind(r, n, slot, next)
    BY <1>1, <1>3, <2>1 DEF Behind
  <2>3. ASSUME Lined(ring, n, in, out, 3), img.trigger => Waits(ring[in]) /\ img.save = ring[in].save
        PROVE  Lined(r, n, slot, next, 2)
    <3> SUFFICES ASSUME NEW i \in 0 .. n - 1, Waits(r[i]) PROVE r[i].save
      BY <2>1 DEF Lined
    <3>1. CASE i # slot
      BY <1>1, <2>3, <3>1 DEF Lined
    <3>2. CASE i = slot
      <4>1. Waits(ring[in]) /\ img.save = ring[in].save
        BY <1>1, <2>3, <3>2 DEF Waits
      <4> QED BY <1>1, <2>3, <3>2, <4>1 DEF Lined
    <3> QED BY <3>1, <3>2
  <2> QED BY <1>1, <1>2, <2>2, <2>3
<1>4. CASE out < n
  <2>0. out \in 0 .. n - 1
    BY <1>4
  <2>1. Dist(n, out, in) \in 0 .. n - 1
        /\ Dist(n, out, slot) = IF Dist(n, out, in) = n - 1 THEN 0 ELSE Dist(n, out, in) + 1
    <3>1. Dist(n, out, in) \in 0 .. n - 1
      BY <2>0, DistIs
    <3>2. \A o \in 0 .. n - 1 :
            Dist(n, o, Succ(n, in)) = IF Dist(n, o, in) = n - 1 THEN 0 ELSE Dist(n, o, in) + 1
      BY NeighboursAre
    <3> QED BY <3>1, <3>2, <2>0
  <2>2. \A i \in 0 .. n - 1 : Dist(n, out, i) \in 0 .. n - 1
    BY <2>0, DistIs
  <2>3. \A i \in 0 .. n - 1 : Dist(n, out, i) = Dist(n, out, slot) => i = slot
    BY <2>0, <1>1, DistDiffers
  <2>4. slot = out <=> Dist(n, out, slot) = 0
    BY <2>0, <1>1 DEF Dist
  <2>5. ASSUME NEW i \in 0 .. n - 1, next < n => Dist(n, next, i) <= Dist(n, next, slot)
        PROVE  ~r[i].saved
    <3>1. CASE i = slot
      BY <3>1, <1>1
    <3>2. CASE i # slot /\ slot = out
      <4>1. Dist(n, out, in) = n - 1
        BY <2>1, <2>4, <3>2
      <4>2. Dist(n, out, i) <= Dist(n, out, in)
        BY <4>1, <2>2
      <4> QED BY <4>2, <3>2, <1>1 DEF Behind
    <3>3. CASE i # slot /\ slot # out
      <4>1. Dist(n, out, i) <= Dist(n, out, slot) /\ Dist(n, out, i) # Dist(n, out, slot)
        BY <2>3, <2>5, <3>3, <1>4
      <4>2. Dist(n, out, i) <= Dist(n, out, in)
        BY <4>1, <2>1, <2>2
      <4> QED BY <4>2, <3>3, <1>1 DEF Behind
    <3> QED BY <3>1, <3>2, <3>3
  <2>6. Behind(r, n, slot, next)
    BY <2>5 DEF Behind
  <2>7. ASSUME Lined(ring, n, in, out, 3), img.trigger => Waits(ring[in]) /\ img.save = ring[in].save
        PROVE  Lined(r, n, slot, next, 2)
    <3> SUFFICES ASSUME NEW i \in 0 .. n - 1, Waits(r[i])
                 PROVE  /\ r[i].save
                        /\ next < n => Dist(n, next, slot) + 2 <= n /\ InLine(r, n, slot, next, i)
      BY DEF Lined
    <3> DEFINE old == IF i = slot THEN in ELSE i
    <3>1. old \in 0 .. n - 1 /\ Waits(ring[old]) /\ r[i].save = ring[old].save
      BY <1>1, <2>7 DEF Waits
    <3>2. ring[old].save /\ Dist(n, out, in) + 3 <= n /\ InLine(ring, n, in, out, old)
      <4> HIDE DEF old
      <4> QED BY <1>4, <3>1, <2>7 DEF Lined
    <3>3. Dist(n, out, slot) = Dist(n, out, in) + 1 /\ slot # out /\ next = out
      BY <3>2, <2>1, <2>4
    <3>4. \A j \in 0 .. n - 1 : Dist(n, out, j) <= Dist(n, out, old) => Pending(ring[j]) /\ j # slot
      <4> SUFFICES ASSUME NEW j \in 0 .. n - 1, Dist(n, out, j) <= Dist(n, out, old)
                   PROVE  Pending(ring[j]) /\ j # slot
        OBVIOUS
      <4>1. Pending(ring[j]) /\ Dist(n, out, old) <= Dist(n, out, in)
        BY <3>2 DEF InLine
      <4> HIDE DEF old
      <4>2. Dist(n, out, j) # Dist(n, out, slot)
        BY <4>1, <3>1, <3>3, <2>1, <2>2
      <4> QED BY <4>1, <4>2
    <3>5. Dist(n, out, i) <= Dist(n, out, slot)
      BY <3>2, <3>3, <2>1, <2>2 DEF InLine
    <3>6. \A j \in 0 .. n - 1 : Dist(n, out, j) <= Dist(n, out, i) => Pending(r[j])
      <4> SUFFICES ASSUME NEW j \in 0 .. n - 1, Dist(n, out, j) <= Dist(n, out, i) PROVE Pending(r[j])
        OBVIOUS
      <4>1. CASE i # slot
        BY <4>1, <3>4, <1>1
      <4>2. CASE i = slot /\ j = slot
        BY <4>2, <3>1, <3>2, <1>1 DEF Pending
      <4>3. CASE i = slot /\ j # slot
        <5>1. Dist(n, out, j) # Dist(n, out, slot)
          BY <4>3, <2>3
        <5>2. Dist(n, out, j) <= Dist(n, out, in)
          BY <4>3, <5>1, <3>3, <2>1, <2>2
        <5> QED BY <4>3, <5>2, <3>4, <1>1
      <4> QED BY <4>1, <4>2, <4>3
    <3>7. r[i].id = r[Prev(n, i)].id + 1
      <4>1. CASE i = slot
        BY <4>1, <1>1
      <4>2. CASE i # slot
        <5>1. Prev(n, i) \in 0 .. n - 1 /\ Succ(n, Prev(n, i)) = i
          BY NeighboursAre
        <5>2. Prev(n, i) # slot
          <6> SUFFICES ASSUME Prev(n, i) = slot PROVE FALSE
            OBVIOUS
          <6>1. Dist(n, out, i) = IF Dist(n, out, slot) = n - 1 THEN 0 ELSE Dist(n, out, slot) + 1
            BY <5>1, <1>1, <2>0, NeighboursAre
          <6>2. Dist(n, out, i) <= Dist(n, out, in)
            BY <3>2, <4>2 DEF InLine
          <6> QED BY <6>1, <6>2, <3>2, <3>3, <2>1
        <5>3. ring[i].id = ring[Prev(n, i)].id + 1
          BY <3>2, <4>2 DEF InLine
        <5> QED BY <4>2, <5>1, <5>2, <5>3, <1>1
      <4> QED BY <4>1, <4>2
    <3>8. ASSUME i # slot PROVE r[Succ(n, i)].id = r[i].id + 1
      <4>1. CASE i = in
        BY <4>1, <1>1
      <4>2. CASE i # in
        <5>1. Succ(n, i) \in 0 .. n - 1 /\ Prev(n, Succ(n, i)) = i
          BY NeighboursAre
        <5>2. Succ(n, i) # slot
          BY <5>1, <4>2, <1>1
        <5>3. ring[Succ(n, i)].id = ring[i].id + 1
          BY <3>2, <3>8, <4>2 DEF InLine
        <5> QED BY <5>1, <5>2, <5>3, <3>8, <1>1
      <4> QED BY <4>1, <4>2
    <3>9. InLine(r, n, slot, out, i)
      BY <3>5, <3>6, <3>7, <3>8 DEF InLine
    <3> HIDE DEF old
    <3>10. Dist(n, next, slot) + 2 <= n
      BY <3>2, <3>3, <2>1
    <3>11. InLine(r, n, slot, next, i)
      BY <3>3, <3>9
    <3> QED BY <3>1, <3>2, <3>10, <3>11
  <2> QED BY <1>1, <1>2, <2>6, <2>7
<1> QED BY <1>3, <1>4

\* A ring that is resized has nothing between image_ring_out and image_ring_in that was sent.
LEMMA ResizedBehind ==
  ASSUME NEW n \in Nat, NEW new \in Nat, new > 0, RingOf(image_ring, n), image_ring_in \in 0 .. n - 1,
         image_ring_out \in Nat, Behind(image_ring, n, image_ring_in, image_ring_out), MayResize(new)
  PROVE  /\ image_ring_in \in 0 .. new - 1
         /\ Behind(image_ring_resize(new), new, image_ring_in, image_ring_out)
         /\ image_ring_resize(new)[image_ring_in] = image_ring[image_ring_in]
         /\ \A i \in 0 .. new - 1 : image_ring_resize(new)[i] = Cleared
                                    \/ (i \in 0 .. n - 1 /\ image_ring_resize(new)[i] = image_ring[i])
<1>1. SizeOf(image_ring) = n /\ DOMAIN image_ring = 0 .. n - 1
  BY SizeIs DEF RingOf
<1>2. (new < n /\ image_ring_in = new - 1) \/ (n < new /\ image_ring_in = n - 1)
  BY <1>1 DEF MayResize, Least
<1> DEFINE r == image_ring_resize(new)
<1>3. r = [i \in 0 .. new - 1 |-> IF i \in DOMAIN image_ring THEN image_ring[i] ELSE Cleared]
  BY DEF image_ring_resize
<1> HIDE DEF r
<1>4. \A i \in 0 .. new - 1 : r[i] = IF i < n THEN image_ring[i] ELSE Cleared
  BY <1>1, <1>3
<1>5. ASSUME NEW i \in 0 .. new - 1,
             image_ring_out < new => Dist(new, image_ring_out, i) <= Dist(new, image_ring_out, image_ring_in)
      PROVE  ~r[i].saved
  <2>1. CASE i >= n
    BY <2>1, <1>4 DEF Cleared
  <2>2. CASE i < n
    <3>1. image_ring_out < n => Dist(n, image_ring_out, i) <= Dist(n, image_ring_out, image_ring_in)
      BY <1>2, <1>5, <2>2 DEF Dist
    <3>2. ~image_ring[i].saved
      BY <3>1, <2>2 DEF Behind
    <3> QED BY <3>2, <2>2, <1>4
  <2> QED BY <2>1, <2>2
<1>6. Behind(r, new, image_ring_in, image_ring_out)
  BY <1>5 DEF Behind
<1>7. image_ring_in \in 0 .. new - 1 /\ r[image_ring_in] = image_ring[image_ring_in]
  BY <1>2, <1>4
<1>8. \A i \in 0 .. new - 1 : r[i] = Cleared \/ (i \in 0 .. n - 1 /\ r[i] = image_ring[i])
  BY <1>4
<1> QED BY <1>6, <1>7, <1>8 DEF r

\* What the second half of an iteration marks.
LEMMA FlaggedIs ==
  ASSUME NEW n \in Nat, RingOf(image_ring, n), image_ring_in \in 0 .. n - 1
  PROVE  \A i \in 0 .. n - 1 :
           /\ Flagged[i].id = image_ring[i].id /\ Flagged[i].saved = image_ring[i].saved
           /\ i # image_ring_in => /\ Flagged[i].trigger = image_ring[i].trigger
                                   /\ Flagged[i].save <=> (image_ring[i].save \/ Sustained)
           /\ i = image_ring_in => /\ Flagged[i].trigger <=> (image_ring[i].trigger \/ Trigger)
                                   /\ Flagged[i].save <=> (image_ring[i].save \/ Trigger \/ PostCapture)
<1>1. DOMAIN image_ring = 0 .. n - 1 /\ \A i \in 0 .. n - 1 : image_ring[i] \in Image
  BY DEF RingOf
<1> SUFFICES ASSUME NEW i \in 0 .. n - 1
             PROVE /\ Flagged[i].id = image_ring[i].id /\ Flagged[i].saved = image_ring[i].saved
                   /\ i # image_ring_in => /\ Flagged[i].trigger = image_ring[i].trigger
                                           /\ Flagged[i].save <=> (image_ring[i].save \/ Sustained)
                   /\ i = image_ring_in => /\ Flagged[i].trigger <=> (image_ring[i].trigger \/ Trigger)
                                           /\ Flagged[i].save <=> (image_ring[i].save \/ Trigger \/ PostCapture)
  OBVIOUS
<1>2. CASE i # image_ring_in
  <2>1. Flagged[i] = [image_ring[i] EXCEPT !.save = image_ring[i].save \/ Sustained]
    BY <1>1, <1>2 DEF Flagged
  <2> QED BY <1>1, <1>2, <2>1 DEF Image
<1>3. CASE i = image_ring_in
  <2> DEFINE cur == image_ring[i]
             dist == IF (Emulated \/ WithMotion) /\ new_img = "center" THEN cur.diffs ELSE cur.cent_dist
             a == Moving(cur)
             b == cur.trigger \/ Trigger
             c == cur.save \/ Trigger \/ PostCapture
  <2>1. Flagged[i] = [cur EXCEPT !.motion = a, !.cent_dist = dist, !.trigger = b, !.save = c]
    BY <1>1, <1>3 DEF Flagged
  <2>2. cur \in Image
    BY <1>1
  <2> HIDE DEF a, b, c, dist, cur
  <2>3. /\ Flagged[i].save = c /\ Flagged[i].saved = cur.saved
        /\ Flagged[i].trigger = b /\ Flagged[i].id = cur.id
    BY <2>1, <2>2 DEF Image
  <2>4. (b <=> (cur.trigger \/ Trigger)) /\ (c <=> (cur.save \/ Trigger \/ PostCapture))
    BY DEF b, c
  <2> HIDE DEF Flagged
  <2> QED BY <1>3, <2>3, <2>4 DEF cur
<1> QED BY <1>2, <1>3

\* The image that triggers joins the line: motion marks the whole ring.
LEMMA FlaggedLined ==
  ASSUME NEW n \in Nat, n >= 3, RingOf(image_ring, n), image_ring_in \in 0 .. n - 1, image_ring_out \in Nat,
         image_ring_out # image_ring_in, Behind(image_ring, n, image_ring_in, image_ring_out)
  PROVE  /\ Behind(Flagged, n, image_ring_in, image_ring_out)
         /\ ~Emulated /\ Lined(image_ring, n, image_ring_in, image_ring_out, 2)
            /\ image_ring[image_ring_in].id = image_ring[Prev(n, image_ring_in)].id + 1
              => Lined(Flagged, n, image_ring_in, image_ring_out, 1)
<1> DEFINE D(i) == Dist(n, image_ring_out, i)
           flagged == Flagged
<1>1. \A i \in 0 .. n - 1 :
           /\ flagged[i].id = image_ring[i].id /\ flagged[i].saved = image_ring[i].saved
           /\ i # image_ring_in => /\ flagged[i].trigger = image_ring[i].trigger
                                   /\ flagged[i].save <=> (image_ring[i].save \/ Sustained)
           /\ i = image_ring_in => /\ flagged[i].trigger <=> (image_ring[i].trigger \/ Trigger)
                                   /\ flagged[i].save <=> (image_ring[i].save \/ Trigger \/ PostCapture)
  BY FlaggedIs
<1> HIDE DEF flagged
<1>2. Behind(flagged, n, image_ring_in, image_ring_out)
  BY <1>1 DEF Behind
<1>3. ASSUME ~Emulated, Lined(image_ring, n, image_ring_in, image_ring_out, 2),
             image_ring[image_ring_in].id = image_ring[Prev(n, image_ring_in)].id + 1
      PROVE  Lined(flagged, n, image_ring_in, image_ring_out, 1)
  <2>1. Trigger <=> Sustained
    BY <1>3 DEF Trigger
  <2> SUFFICES ASSUME NEW i \in 0 .. n - 1, Waits(flagged[i])
               PROVE  /\ flagged[i].save
                      /\ image_ring_out < n => /\ D(image_ring_in) + 1 <= n
                                               /\ InLine(flagged, n, image_ring_in, image_ring_out, i)
    BY DEF Lined
  <2>2. CASE Waits(image_ring[i])
    <3>1. flagged[i].save
      BY <2>2, <1>1, <1>3 DEF Lined
    <3>2. ASSUME image_ring_out < n
          PROVE  D(image_ring_in) + 1 <= n /\ InLine(flagged, n, image_ring_in, image_ring_out, i)
      <4>1. /\ D(image_ring_in) + 2 <= n /\ D(image_ring_in) \in Nat
            /\ InLine(image_ring, n, image_ring_in, image_ring_out, i)
        <5>1. D(image_ring_in) + 2 <= n /\ InLine(image_ring, n, image_ring_in, image_ring_out, i)
          BY <2>2, <3>2, <1>3 DEF Lined
        <5> QED BY <5>1, <3>2, DistIs
      <4>2. Prev(n, i) \in 0 .. n - 1 /\ Succ(n, i) \in 0 .. n - 1
        BY NeighboursAre
      <4>3. \A j \in 0 .. n - 1 : Pending(image_ring[j]) => Pending(flagged[j])
        BY <1>1 DEF Pending
      <4> HIDE DEF D
      <4>4. D(image_ring_in) + 1 <= n
        BY <4>1
      <4>5. InLine(flagged, n, image_ring_in, image_ring_out, i)
        BY <4>1, <4>2, <4>3, <1>1 DEF InLine
      <4> QED BY <4>4, <4>5
    <3> QED BY <3>1, <3>2
  <2>3. CASE ~Waits(image_ring[i])
    <3>1. i = image_ring_in /\ Trigger
      BY <2>3, <1>1 DEF Waits
    <3>2. flagged[i].save
      BY <3>1, <1>1
    <3>3. ASSUME image_ring_out < n
          PROVE  D(image_ring_in) + 1 <= n /\ InLine(flagged, n, image_ring_in, image_ring_out, i)
      <4>1. D(image_ring_in) \in 0 .. n - 1
        BY <3>3, DistIs
      <4>2. Prev(n, i) \in 0 .. n - 1
        BY NeighboursAre
      <4>3. \A j \in 0 .. n - 1 : D(j) <= D(image_ring_in) => Pending(flagged[j])
        BY <3>1, <2>1, <1>1 DEF Behind, Pending
      <4>4. InLine(flagged, n, image_ring_in, image_ring_out, i)
        <5>1. flagged[i].id = flagged[Prev(n, i)].id + 1
          BY <3>1, <4>2, <1>1, <1>3
        <5>2. D(i) <= D(image_ring_in)
          <6> HIDE DEF D
          <6> QED BY <3>1, <4>1
        <5> QED BY <3>1, <4>3, <5>1, <5>2 DEF InLine
      <4> HIDE DEF D
      <4> QED BY <4>1, <4>4
    <3> QED BY <3>2, <3>3
  <2> QED BY <2>2, <2>3
<1> QED BY <1>2, <1>3 DEF flagged

\* What a pass leaves begins where the pass ended.
LEMMA SentLeaves ==
  ASSUME NEW n \in Nat, n > 0, image_ring_in \in 0 .. n - 1, NEW w, w.out \in 0 .. n - 1,
         NEW v, NEW max, NEW c, Sends(w, v, n, max, c)
  PROVE  /\ v.out \in 0 .. n - 1
         /\ Dist(n, v.out, image_ring_in) = Dist(n, w.out, image_ring_in) - c
         /\ \A i \in 0 .. n - 1 : Dist(n, v.out, i) = IF Dist(n, w.out, i) >= c THEN Dist(n, w.out, i) - c
                                                      ELSE (Dist(n, w.out, i) + n) - c
<1>1. \A i \in 0 .. n - 1 : Dist(n, w.out, i) \in 0 .. n - 1
  BY DistIs
<1>2. c \in 0 .. Dist(n, w.out, image_ring_in) /\ v.out = Around(n, w.out, c)
  BY DEF Sends
<1>3. c \in 0 .. n - 1
  BY <1>1, <1>2
<1>4. v.out \in 0 .. n - 1
  BY <1>2, <1>3, DistIs
<1>5. \A i \in 0 .. n - 1 : Dist(n, v.out, i) = IF Dist(n, w.out, i) >= c THEN Dist(n, w.out, i) - c
                                                ELSE (Dist(n, w.out, i) + n) - c
  BY <1>2, <1>3, DistFrom
<1> QED BY <1>1, <1>2, <1>4, <1>5

LEMMA SentBehind ==
  ASSUME NEW n \in Nat, n > 0, image_ring_in \in 0 .. n - 1, NEW w, w.out \in 0 .. n - 1,
         Behind(w.ring, n, image_ring_in, w.out),
         NEW v, NEW max, NEW c, Sends(w, v, n, max, c)
  PROVE  Behind(v.ring, n, image_ring_in, v.out)
<1> DEFINE D(i) == Dist(n, w.out, i)
<1>1. /\ \A i \in 0 .. n - 1 : D(i) \in 0 .. n - 1
      /\ c \in 0 .. D(image_ring_in)
      /\ \A i \in 0 .. n - 1 : v.ring[i].saved <=> (w.ring[i].saved \/ D(i) < c)
  BY DistIs DEF Sends
<1>2. /\ v.out \in 0 .. n - 1
      /\ Dist(n, v.out, image_ring_in) = D(image_ring_in) - c
      /\ \A i \in 0 .. n - 1 : Dist(n, v.out, i) = IF D(i) >= c THEN D(i) - c ELSE (D(i) + n) - c
  BY SentLeaves
<1>3. \A i \in 0 .. n - 1 : D(i) <= D(image_ring_in) => ~w.ring[i].saved
  BY DEF Behind
<1> HIDE DEF D
<1> SUFFICES ASSUME NEW i \in 0 .. n - 1, Dist(n, v.out, i) <= Dist(n, v.out, image_ring_in)
             PROVE  ~v.ring[i].saved
  BY <1>2 DEF Behind
<1>4. D(i) >= c /\ D(i) <= D(image_ring_in)
  BY <1>1, <1>2
<1> QED BY <1>1, <1>3, <1>4

\* Two images a pass make room for what a capture adds.
LEMMA SentLined ==
  ASSUME NEW n \in Nat, n >= 3, image_ring_in \in 0 .. n - 1, NEW w, w.out \in 0 .. n - 1,
         Lined(w.ring, n, image_ring_in, w.out, 1), NEW v, NEW c, Sends(w, v, n, 2, c)
  PROVE  Lined(v.ring, n, image_ring_in, v.out, 3)
<1> DEFINE D(i) == Dist(n, w.out, i)
<1>0. n > 0
  OBVIOUS
<1>1. /\ \A i \in 0 .. n - 1 : D(i) \in 0 .. n - 1
      /\ c \in 0 .. D(image_ring_in)
      /\ \A i \in 0 .. n - 1 :
           /\ v.ring[i].saved <=> (w.ring[i].saved \/ D(i) < c)
           /\ v.ring[i].id = w.ring[i].id /\ v.ring[i].trigger = w.ring[i].trigger
           /\ v.ring[i].save = w.ring[i].save
           /\ D(i) = c => c >= 2 \/ i = image_ring_in \/ ~Pending(w.ring[i])
  <2>1. \A i \in 0 .. n - 1 : D(i) \in 0 .. n - 1
    BY <1>0, DistIs
  <2> QED BY <2>1 DEF Sends
<1>2. /\ v.out \in 0 .. n - 1
      /\ Dist(n, v.out, image_ring_in) = D(image_ring_in) - c
      /\ \A i \in 0 .. n - 1 : Dist(n, v.out, i) = IF D(i) >= c THEN D(i) - c ELSE (D(i) + n) - c
  BY SentLeaves
<1>3. \A k \in 0 .. n - 1 : \E i \in 0 .. n - 1 : D(i) = k
  <2>1. \A k \in 0 .. n - 1 : Around(n, w.out, k) \in 0 .. n - 1 /\ D(Around(n, w.out, k)) = k
    BY <1>0, DistIs
  <2> HIDE DEF D
  <2> QED BY <2>1
<1> SUFFICES ASSUME NEW i \in 0 .. n - 1, Waits(v.ring[i])
             PROVE  /\ v.ring[i].save
                    /\ Dist(n, v.out, image_ring_in) + 3 <= n
                    /\ InLine(v.ring, n, image_ring_in, v.out, i)
  BY DEF Lined
<1>4. Waits(w.ring[i]) /\ D(i) >= c
  <2>1. Waits(w.ring[i]) /\ ~(D(i) < c)
    BY <1>1 DEF Waits
  <2> HIDE DEF D
  <2> QED BY <2>1, <1>1
<1>5. w.ring[i].save /\ D(image_ring_in) + 1 <= n /\ InLine(w.ring, n, image_ring_in, w.out, i)
  BY <1>4 DEF Lined
<1>6. /\ D(i) <= D(image_ring_in)
      /\ \A j \in 0 .. n - 1 : D(j) <= D(i) => Pending(w.ring[j])
      /\ w.ring[i].id = w.ring[Prev(n, i)].id + 1
      /\ i # image_ring_in => w.ring[Succ(n, i)].id = w.ring[i].id + 1
  BY <1>5 DEF InLine
<1> HIDE DEF D
<1>7. c >= 2 \/ c = D(image_ring_in)
  <2>1. c \in 0 .. n - 1
    BY <1>1
  <2>2. PICK j \in 0 .. n - 1 : D(j) = c
    BY <1>3, <2>1
  <2>3. Pending(w.ring[j])
    BY <1>4, <1>6, <2>2
  <2> QED BY <1>1, <2>2, <2>3
<1>8. Dist(n, v.out, image_ring_in) + 3 <= n
  BY <1>1, <1>2, <1>5, <1>7
<1>9. Dist(n, v.out, i) <= Dist(n, v.out, image_ring_in)
  BY <1>1, <1>2, <1>4, <1>6
<1>10. ASSUME NEW j \in 0 .. n - 1, Dist(n, v.out, j) <= Dist(n, v.out, i) PROVE Pending(v.ring[j])
  <2>1. D(j) >= c /\ D(j) <= D(i)
    BY <1>1, <1>2, <1>4, <1>10
  <2>2. Pending(w.ring[j]) /\ ~(D(j) < c)
    BY <2>1, <1>1, <1>6
  <2> QED BY <2>2, <1>1 DEF Pending
<1>11. Prev(n, i) \in 0 .. n - 1 /\ Succ(n, i) \in 0 .. n - 1
  BY NeighboursAre
<1>12. InLine(v.ring, n, image_ring_in, v.out, i)
  BY <1>1, <1>6, <1>9, <1>10, <1>11 DEF InLine
<1> QED BY <1>1, <1>5, <1>8, <1>12

\* One picture three times, or three that were captured in a row.
Near(ids) == ids \in {<<ids[1], ids[1], ids[1]>>, <<ids[1], ids[1] - 1, ids[1] + 1>>}
Fits(pv) == pv.by = "center" /\ pv.trigger => Near(pv.ids)

\* The preview a pass leaves.
LEMMA SentFits ==
  ASSUME NEW n \in Nat, n >= 3, image_ring_in \in 0 .. n - 1, NEW w, w.out \in 0 .. n - 1,
         RingOf(w.ring, n), NEW v, NEW max, NEW c, Sends(w, v, n, max, c)
  PROVE  /\ Fits(w.preview) /\ Lined(w.ring, n, image_ring_in, w.out, 1) => Fits(v.preview)
         /\ ~w.preview.trigger /\ (\A i \in 0 .. n - 1 : ~w.ring[i].trigger) => ~v.preview.trigger
<1>1. CASE v.preview = w.preview
  BY <1>1
<1>2. CASE \E i \in 0 .. n - 1 : Dist(n, w.out, i) < c /\ v.preview = Chosen(w.ring, i, w.preview)
  <2>1. PICK i \in 0 .. n - 1 : Dist(n, w.out, i) < c /\ v.preview = Chosen(w.ring, i, w.preview)
    BY <1>2
  <2> DEFINE ring == w.ring
             pv == Chosen(ring, i, w.preview)
  <2>2. SizeOf(ring) = n
    BY SizeIs
  <2>3. pv.trigger = ring[i].trigger
    BY <2>2 DEF Chosen, SaveAsPreview, ThreePreview, Snap
  <2>4. ASSUME Lined(ring, n, image_ring_in, w.out, 1), pv.by = "center", pv.trigger
        PROVE  Near(pv.ids)
    <3>1. new_img # "best" /\ pv = Snap(ring[i], ring[Before(ring, i)], ring[After(ring, i)])
      <4>1. new_img # "best"
        BY <2>4 DEF Chosen, SaveAsPreview
      <4> QED BY <4>1, <2>2 DEF Chosen, ThreePreview
    <3>2. Waits(ring[i])
      <4>1. Pending(ring[i])
        BY <2>1 DEF Sends
      <4> QED BY <4>1, <2>3, <2>4 DEF Pending, Waits
    <3>3. /\ ring[i].id = ring[Prev(n, i)].id + 1
          /\ i # image_ring_in => ring[Succ(n, i)].id = ring[i].id + 1
      BY <2>4, <3>2 DEF Lined, InLine
    <3>4. i # image_ring_in
      <4>1. Dist(n, w.out, i) # Dist(n, w.out, image_ring_in)
        <5>1. Dist(n, w.out, i) \in 0 .. n - 1 /\ Dist(n, w.out, image_ring_in) \in 0 .. n - 1
          <6>1. n > 0
            OBVIOUS
          <6> QED BY <6>1, DistIs
        <5>2. c \in 0 .. Dist(n, w.out, image_ring_in)
          BY DEF Sends
        <5> QED BY <5>1, <5>2, <2>1
      <4> QED BY <4>1
    <3>5. Before(ring, i) = Prev(n, i) /\ After(ring, i) = Succ(n, i)
      BY <2>2 DEF Before, After, Prev, Succ
    <3>6. Prev(n, i) \in 0 .. n - 1 /\ ring[Prev(n, i)].id \in Nat
      <4>1. Prev(n, i) \in 0 .. n - 1
        BY NeighboursAre
      <4> QED BY <4>1 DEF RingOf, Image
    <3>7. ring[Prev(n, i)].id = ring[i].id - 1
      <4> DEFINE a == ring[i].id
                 b == ring[Prev(n, i)].id
      <4>1. a = b + 1 /\ b \in Nat
        BY <3>3, <3>6
      <4> HIDE DEF a, b
      <4>2. b = a - 1
        BY <4>1
      <4> QED BY <4>2 DEF a, b
    <3>8. pv.ids = <<ring[i].id, ring[i].id - 1, ring[i].id + 1>>
      <4>1. pv.ids = <<ring[i].id, ring[Prev(n, i)].id, ring[Succ(n, i)].id>>
        <5> HIDE DEF pv
        <5> QED BY <3>1, <3>5 DEF Snap
      <4> HIDE DEF pv
      <4> QED BY <4>1, <3>3, <3>4, <3>7
    <3> HIDE DEF pv
    <3> QED BY <3>8 DEF Near
  <2> HIDE DEF pv
  <2>5. v.preview = pv
    BY <2>1 DEF pv
  <2> QED BY <2>3, <2>4, <2>5 DEF Fits
<1> QED BY <1>1, <1>2 DEF Sends

\* No event was cut off, the thread did not leave, and what starts an event is what it was.
Undisturbed == ~loopLog.cut /\ ~loopLog.left /\ ~loopLog.mixed

\* The ring motion_init allocated, or one of three slots or more.
FirstRing == /\ pc = "top" /\ current_image = "null" /\ captured = 0 /\ ~in_event
             /\ image_ring = Fresh /\ image_ring_in = 0 /\ image_ring_out = 0

\* The newest image is at image_ring_in, and until it is decided about, the one before it
\* in the slot before.
NewestIn(n) ==
  /\ image_ring[image_ring_in].id = captured
  /\ pc = "frame" => /\ image_ring_out # image_ring_in
                     /\ image_ring[image_ring_in].id = image_ring[Prev(n, image_ring_in)].id + 1

\* Until the first frames have passed, nothing triggers when motion is emulated.
Untriggered(n, ring, pv) == ~pv.trigger /\ \A i \in 0 .. n - 1 : ~ring[i].trigger

InTurn(n) ==
  /\ (n = 1 /\ FirstRing) \/ (n >= 3 /\ current_image = "live")
  /\ RingOf(image_ring, n) /\ image_ring_in \in 0 .. n - 1
  /\ NewestIn(n)
  /\ Behind(image_ring, n, image_ring_in, image_ring_out)
  /\ conf.emulate_motion /\ startup_frames # 0 => Untriggered(n, image_ring, preview)
  /\ ~conf.emulate_motion =>
       /\ Lined(image_ring, n, image_ring_in, image_ring_out, IF pc = "top" THEN 3 ELSE 2)
       /\ ~in_event => \A i \in 0 .. n - 1 : ~Waits(image_ring[i])
       /\ Fits(preview)

\* The pass that follows the detection.
LEMMA BegunSends ==
  ASSUME NEW n \in Nat, n >= 3, StaleInv, pc = "frame", InTurn(n), InWork(Begun, n, loopLog.last),
         NEW max \in Nat, NEW v, v = process_image_ring(Begun, max)
  PROVE  /\ Behind(v.ring, n, image_ring_in, v.out)
         /\ \A i \in 0 .. n - 1 : v.ring[i].id = image_ring[i].id
         /\ v.ring[image_ring_in].save = Flagged[image_ring_in].save /\ ~v.ring[image_ring_in].saved
         /\ conf.emulate_motion /\ startup_frames # 0 => Untriggered(n, v.ring, v.preview)
         /\ ~conf.emulate_motion =>
              /\ Fits(v.preview)
              /\ max = 2 => Lined(v.ring, n, image_ring_in, v.out, 3)
              /\ \A i \in 0 .. n - 1 : Waits(v.ring[i]) => v.ring[i].save /\ (in_event \/ FirstMotion)
<1> DEFINE flagged == Flagged
<1>1. /\ n > 0 /\ image_ring_in \in 0 .. n - 1 /\ image_ring_out \in Nat /\ image_ring_out # image_ring_in
      /\ RingOf(image_ring, n) /\ Behind(image_ring, n, image_ring_in, image_ring_out)
      /\ image_ring[image_ring_in].id = image_ring[Prev(n, image_ring_in)].id + 1
  BY DEF InTurn, NewestIn, StaleInv, OrderInv
<1>2. /\ Begun.ring = flagged /\ Begun.out = image_ring_out /\ Begun.preview = Detected(flagged)
  BY DEF Begun, Work
<1>3. \A i \in 0 .. n - 1 :
           /\ flagged[i].id = image_ring[i].id /\ flagged[i].saved = image_ring[i].saved
           /\ i # image_ring_in => /\ flagged[i].trigger = image_ring[i].trigger
                                   /\ flagged[i].save <=> (image_ring[i].save \/ Sustained)
           /\ i = image_ring_in => /\ flagged[i].trigger <=> (image_ring[i].trigger \/ Trigger)
                                   /\ flagged[i].save <=> (image_ring[i].save \/ Trigger \/ PostCapture)
  BY <1>1, FlaggedIs
<1>4. Behind(flagged, n, image_ring_in, image_ring_out)
  BY <1>1, FlaggedLined
<1>5. RingOf(flagged, n)
  BY <1>2 DEF InWork
<1> HIDE DEF flagged
<1>6. ~flagged[image_ring_in].saved
  <2>1. image_ring_out < n => Dist(n, image_ring_out, image_ring_in) <= Dist(n, image_ring_out, image_ring_in)
    BY <1>1, DistIs
  <2> QED BY <2>1, <1>1, <1>4 DEF Behind
<1>7. IsPreview(Begun.preview) /\ (~FirstMotion => Begun.preview = preview)
      /\ (Begun.preview # preview => Begun.preview.ids = <<flagged[image_ring_in].id, flagged[image_ring_in].id, flagged[image_ring_in].id>>)
  <2> DEFINE img == flagged[image_ring_in]
  <2>1. img.diffs \in Nat
    BY <1>1, <1>5 DEF RingOf, Image
  <2> HIDE DEF img
  <2>2. IsPreview(Snap(img, img, img)) /\ Snap(img, img, img).ids = <<img.id, img.id, img.id>>
    BY <2>1 DEF IsPreview, Snap, PreviewFields
  <2>3. IsPreview(preview)
    BY DEF StaleInv
  <2>4. Begun.preview = IF FirstMotion /\ new_img \in {"first", "best", "center"} THEN Snap(img, img, img) ELSE preview
    BY <1>2 DEF Detected, img
  <2> QED BY <2>2, <2>3, <2>4 DEF img
<1>8. ASSUME conf.emulate_motion, startup_frames # 0
      PROVE  Untriggered(n, flagged, Begun.preview)
  <2>1. ~Trigger
    BY <1>8 DEF Trigger, Emulated, Sustained, WithMotion
  <2>2. Begun.preview = preview
    BY <2>1, <1>7 DEF FirstMotion
  <2>3. Untriggered(n, image_ring, preview)
    BY <1>8 DEF InTurn
  <2> QED BY <2>1, <2>2, <2>3, <1>1, <1>3 DEF Untriggered
<1>9. ASSUME ~conf.emulate_motion
      PROVE  /\ Lined(flagged, n, image_ring_in, image_ring_out, 1) /\ Fits(Begun.preview)
             /\ \A i \in 0 .. n - 1 : Waits(flagged[i]) => in_event \/ FirstMotion
  <2>1. /\ Lined(image_ring, n, image_ring_in, image_ring_out, 2) /\ Fits(preview)
        /\ ~in_event => \A i \in 0 .. n - 1 : ~Waits(image_ring[i])
    BY <1>9 DEF InTurn
  <2>2. ~Emulated
    BY <1>9 DEF Emulated
  <2>3. Lined(flagged, n, image_ring_in, image_ring_out, 1)
    BY <1>1, <2>1, <2>2, FlaggedLined DEF flagged
  <2>4. Fits(Begun.preview)
    <3>1. CASE Begun.preview = preview
      BY <3>1, <2>1
    <3>2. CASE Begun.preview # preview
      <4> DEFINE a == flagged[image_ring_in].id
                 ids == <<a, a, a>>
      <4>1. Begun.preview.ids = ids
        BY <3>2, <1>7
      <4> HIDE DEF a
      <4>2. Near(ids)
        BY DEF Near
      <4> QED BY <4>1, <4>2 DEF Fits
    <3> QED BY <3>1, <3>2
  <2>5. ASSUME NEW i \in 0 .. n - 1, Waits(flagged[i]), ~in_event PROVE FirstMotion
    <3>1. ~Waits(image_ring[i])
      BY <2>1, <2>5
    <3>2. Trigger
      BY <3>1, <2>5, <1>1, <1>3 DEF Waits
    <3> QED BY <3>2, <2>5 DEF FirstMotion
  <2> QED BY <2>3, <2>4, <2>5
<1>10. CASE image_ring_out >= n
  <2>1. v.ring = flagged /\ v.out = image_ring_out /\ v.preview = Begun.preview
    BY <1>1, <1>2, <1>7, <1>10, PassIdles
  <2>2. Lined(flagged, n, image_ring_in, image_ring_out, 1) =>
          /\ Lined(flagged, n, image_ring_in, image_ring_out, 3)
          /\ \A i \in 0 .. n - 1 : Waits(flagged[i]) => flagged[i].save
    BY <1>10, <1>1 DEF Lined
  <2> QED BY <2>1, <2>2, <1>1, <1>3, <1>4, <1>6, <1>8, <1>9 DEF flagged
<1>11. CASE image_ring_out < n
  <2>1. PICK c : Sends(Begun, v, n, max, c)
    BY <1>1, <1>2, <1>7, <1>11, PassSends
  <2>2. /\ Begun.out \in 0 .. n - 1 /\ RingOf(Begun.ring, n)
        /\ Behind(Begun.ring, n, image_ring_in, Begun.out)
    BY <1>1, <1>2, <1>4, <1>5, <1>11
  <2>3. Behind(v.ring, n, image_ring_in, v.out)
    BY <1>1, <2>1, <2>2, SentBehind
  <2>4. /\ \A i \in 0 .. n - 1 :
             /\ v.ring[i].saved <=> (flagged[i].saved \/ Dist(n, image_ring_out, i) < c)
             /\ v.ring[i].id = flagged[i].id /\ v.ring[i].trigger = flagged[i].trigger
             /\ v.ring[i].save = flagged[i].save
        /\ c \in 0 .. Dist(n, image_ring_out, image_ring_in)
    BY <2>1, <1>2 DEF Sends
  <2>5. ~v.ring[image_ring_in].saved
    <3>1. Dist(n, image_ring_out, image_ring_in) \in 0 .. n - 1
      BY <1>1, <1>11, DistIs
    <3>2. ~(Dist(n, image_ring_out, image_ring_in) < c)
      BY <3>1, <2>4
    <3> QED BY <3>2, <2>4, <1>1, <1>6
  <2>6. /\ Fits(Begun.preview) /\ Lined(flagged, n, image_ring_in, image_ring_out, 1) => Fits(v.preview)
        /\ Untriggered(n, flagged, Begun.preview) => ~v.preview.trigger
    BY <1>1, <1>2, <2>1, <2>2, SentFits DEF Untriggered
  <2>7. Untriggered(n, flagged, Begun.preview) => Untriggered(n, v.ring, v.preview)
    BY <2>4, <2>6 DEF Untriggered
  <2>8. ASSUME max = 2, Lined(flagged, n, image_ring_in, image_ring_out, 1)
        PROVE  Lined(v.ring, n, image_ring_in, v.out, 3)
    BY <2>8, <1>1, <1>2, <2>1, <2>2, SentLined
  <2>9. ASSUME NEW i \in 0 .. n - 1, Waits(v.ring[i]), Lined(flagged, n, image_ring_in, image_ring_out, 1)
        PROVE  v.ring[i].save /\ Waits(flagged[i])
    <3>1. Waits(flagged[i])
      BY <2>4, <2>9 DEF Waits
    <3> QED BY <3>1, <2>4, <2>9 DEF Lined
  <2> QED BY <2>3, <2>4, <2>5, <2>6, <2>7, <2>8, <2>9, <1>1, <1>3, <1>8, <1>9 DEF flagged
<1> QED BY <1>1, <1>10, <1>11

\* Two descriptions of a ring agree on its size.
LEMMA SameSize ==
  ASSUME NEW n \in Nat, NEW m \in Nat, NEW ring, RingOf(ring, n), RingOf(ring, m)
  PROVE  n = m
<1>1. SizeOf(ring) = n
  BY SizeIs
<1>2. SizeOf(ring) = m
  BY SizeIs
<1> QED BY <1>1, <1>2

\* An iteration keeps the line, and the pictures of an event it ends are neighbours.
LEMMA ActKeepsLine ==
  ASSUME StaleInv, Act, NEW n \in Nat, InTurn(n), Undisturbed'
  PROVE  InTurn(n)' /\ TriggerNeighbours'
<1>1. PICK m \in Nat :
        /\ m > 0
        /\ InRing(image_ring, m, image_ring_in, image_ring_out, loopLog.last, captured)
        /\ image_ring_in < m
  BY DEF StaleInv, OrderInv, Act
<1>2. m = n
  BY <1>1, SameSize DEF InRing, InTurn
<1>3. /\ captured \in Nat /\ image_ring_in \in 0 .. n - 1 /\ image_ring_out \in Nat
      /\ loopLog.last \in Nat /\ n > 0 /\ n >= 3 /\ current_image = "live" /\ pc = "frame"
      /\ image_ring_out # image_ring_in
  BY <1>1, <1>2 DEF StaleInv, OrderInv, Act, InTurn, NewestIn, FirstRing
<1>4. PICK long \in {FALSE, conf.max_movie_time /\ in_event},
           gap \in {FALSE, conf.event_gap > 0 /\ ~Flagged[image_ring_in].save} :
        \E opened \in event_create_extpipe,
           third, other \in IF Shoots(EventEnds(long, gap), Flushed(EventEnds(long, gap)))
                            THEN Outcomes ELSE {"ok"} :
          Finish(EventEnds(long, gap), Overdue(long), Flushed(EventEnds(long, gap)),
                 Shoots(EventEnds(long, gap), Flushed(EventEnds(long, gap))),
                 Done(Flushed(EventEnds(long, gap)), Shoots(EventEnds(long, gap), Flushed(EventEnds(long, gap)))),
                 opened, third, other)
  BY DEF Act
<1> DEFINE ends == EventEnds(long, gap)
           flush == Flushed(ends)
           shoots == Shoots(ends, flush)
           done == Done(flush, shoots)
<1>5. PICK opened, third, other : Finish(ends, Overdue(long), flush, shoots, done, opened, third, other)
  BY <1>4
<1> HIDE DEF ends
<1>6. InWork(Begun, n, loopLog.last) /\ Begun.preview = Detected(Flagged)
  <2>1. InWork(Begun, n, loopLog.last)
    BY <1>1, <1>2, <1>3, BegunInOrder
  <2> QED BY <2>1 DEF Begun, Work
<1>7. IsPreview(Begun.preview)
  <2>1. Flagged[image_ring_in].diffs \in Nat
    BY <1>3, <1>6 DEF InWork, RingOf, Image, Begun, Work
  <2>2. IsPreview(Snap(Flagged[image_ring_in], Flagged[image_ring_in], Flagged[image_ring_in]))
    BY <2>1 DEF IsPreview, Snap, PreviewFields
  <2>3. IsPreview(preview)
    BY DEF StaleInv
  <2> QED BY <2>2, <2>3, <1>6 DEF Detected
<1>8. /\ ~ends => flush = Begun /\ ~shoots
      /\ ends => flush = process_image_ring(Begun, n)
  <2>1. SizeOf(image_ring) = n
    BY <1>1, <1>2, SizeIs DEF InRing
  <2> QED BY <2>1 DEF Flushed, Shoots
<1> HIDE DEF flush
<1>9. InWork(flush, n, loopLog.last) /\ IsPreview(flush.preview)
  BY <1>3, <1>6, <1>7, <1>8, ProcessKeepsOrder, ProcessKeepsPreview
<1> HIDE DEF shoots
<1> DEFINE shown == IF shoots THEN preview_save(flush) ELSE flush
<1>10. /\ InWork(shown, n, loopLog.last) /\ IsPreview(shown.preview)
       /\ shown.ring = flush.ring /\ shown.out = flush.out
       /\ shown.preview.by = flush.preview.by /\ shown.preview.ids = flush.preview.ids
       /\ shown.preview.trigger = flush.preview.trigger
       /\ ~shoots => shown = flush
  <2> DEFINE w == preview_save(flush)
  <2>1. w = [flush EXCEPT !.preview.diffs = 0]
    BY DEF preview_save
  <2>2. w.ring = flush.ring /\ w.out = flush.out /\ w.sent = flush.sent /\ DOMAIN w = WorkFields
        /\ w.preview = [flush.preview EXCEPT !.diffs = 0]
    BY <2>1, <1>9 DEF InWork, WorkFields
  <2> HIDE DEF w
  <2>3. InWork(w, n, loopLog.last)
    BY <2>2, <1>9 DEF InWork
  <2>4. IsPreview(w.preview) /\ w.preview.by = flush.preview.by /\ w.preview.ids = flush.preview.ids
        /\ w.preview.trigger = flush.preview.trigger
    BY <2>2, <1>9 DEF IsPreview, PreviewFields
  <2>5. shown = IF shoots THEN w ELSE flush
    BY DEF w
  <2> HIDE DEF shown
  <2> QED BY <2>2, <2>3, <2>4, <2>5, <1>9
<1>11. done = process_image_ring(shown, 2)
  BY DEF Done
<1> HIDE DEF shown, done
<1>12. RingOf(done.ring, n)
  <2>1. InWork(done, n, loopLog.last)
    BY <1>3, <1>10, <1>11, ProcessKeepsOrder
  <2> QED BY <2>1 DEF InWork
<1>13. /\ image_ring' = done.ring /\ image_ring_out' = done.out /\ preview' = done.preview
       /\ in_event' = ((in_event \/ FirstMotion) /\ ~ends)
       /\ loopLog' = LogAfter(ends, flush, shoots, done, third)
       /\ pc' = "top" /\ UNCHANGED <<conf, image_ring_in, current_image, captured, startup_frames>>
  BY <1>5 DEF Finish, Act
<1>14. /\ loopLog'.saved = IF shoots THEN <<flush.preview, third = "ok">> ELSE <<>>
       /\ loopLog'.cut = (loopLog.cut \/ (ends /\ \E i \in DOMAIN flush.ring : Pending(flush.ring[i])))
  BY <1>13 DEF LogAfter, LogFields, StaleInv, OrderInv
<1>15. DOMAIN flush.ring = 0 .. n - 1
  BY <1>9 DEF InWork, RingOf
<1> DEFINE Kept ==
      /\ Behind(done.ring, n, image_ring_in, done.out)
      /\ done.ring[image_ring_in].id = image_ring[image_ring_in].id
      /\ conf.emulate_motion /\ startup_frames # 0 => Untriggered(n, done.ring, done.preview)
      /\ ~conf.emulate_motion =>
           /\ Lined(done.ring, n, image_ring_in, done.out, 3)
           /\ ~in_event' => \A i \in 0 .. n - 1 : ~Waits(done.ring[i])
           /\ Fits(done.preview)
<1>16. CASE ~ends
  <2>1. done = process_image_ring(Begun, 2) /\ loopLog'.saved = <<>>
    BY <1>8, <1>10, <1>11, <1>14, <1>16
  <2>2. /\ Behind(done.ring, n, image_ring_in, done.out)
        /\ \A i \in 0 .. n - 1 : done.ring[i].id = image_ring[i].id
        /\ conf.emulate_motion /\ startup_frames # 0 => Untriggered(n, done.ring, done.preview)
        /\ ~conf.emulate_motion =>
              /\ Fits(done.preview)
              /\ Lined(done.ring, n, image_ring_in, done.out, 3)
              /\ \A i \in 0 .. n - 1 : Waits(done.ring[i]) => done.ring[i].save /\ (in_event \/ FirstMotion)
    <3> HIDE DEF Kept
    <3> QED BY <2>1, <1>3, <1>6, BegunSends
  <2>3. Kept
    BY <2>2, <1>3, <1>13, <1>16
  <2>4. TriggerNeighbours'
    BY <2>1 DEF TriggerNeighbours
  <2> QED BY <2>3, <2>4, <1>3, <1>12, <1>13 DEF InTurn, NewestIn
<1>17. CASE ends
  <2>1. \A i \in 0 .. n - 1 : ~Pending(flush.ring[i])
    BY <1>14, <1>15, <1>17 DEF Undisturbed
  <2>2. /\ Behind(flush.ring, n, image_ring_in, flush.out)
        /\ \A i \in 0 .. n - 1 : flush.ring[i].id = image_ring[i].id
        /\ flush.ring[image_ring_in].save = Flagged[image_ring_in].save /\ ~flush.ring[image_ring_in].saved
        /\ conf.emulate_motion /\ startup_frames # 0 => Untriggered(n, flush.ring, flush.preview)
        /\ ~conf.emulate_motion =>
              /\ Fits(flush.preview)
              /\ \A i \in 0 .. n - 1 : Waits(flush.ring[i]) => flush.ring[i].save /\ (in_event \/ FirstMotion)
    <3>1. flush = process_image_ring(Begun, n)
      BY <1>8, <1>17
    <3> HIDE DEF Kept
    <3> QED BY <3>1, <1>3, <1>6, BegunSends
  <2>3. done.ring = flush.ring /\ done.out = flush.out /\ done.preview = shown.preview
    <3> HIDE DEF Kept
    <3>1. \A i \in 0 .. n - 1 : ~Pending(shown.ring[i])
      BY <2>1, <1>10
    <3>2. InWork(shown, n, loopLog.last) /\ image_ring_in \in 0 .. n - 1
      BY <1>3, <1>10
    <3>3. shown.out >= n \/ \A i \in 0 .. n - 1 : ~Pending(shown.ring[i])
      BY <3>1
    <3>4. n > 0 /\ n \in Nat /\ 2 \in Nat /\ IsPreview(shown.preview)
      BY <1>3, <1>10
    <3>5. process_image_ring(shown, 2).ring = shown.ring /\ process_image_ring(shown, 2).out = shown.out
          /\ process_image_ring(shown, 2).preview = shown.preview
      BY ONLY <3>2, <3>3, <3>4, PassIdles
    <3> QED BY <3>5, <1>10, <1>11
  <2>4. ~conf.emulate_motion => \A i \in 0 .. n - 1 : ~Waits(flush.ring[i])
    BY <2>1, <2>2 DEF Waits, Pending
  <2>5. Fits(flush.preview) => Fits(done.preview)
    BY <2>3, <1>10 DEF Fits
  <2>6. Kept
    <3>1. ~conf.emulate_motion => Lined(done.ring, n, image_ring_in, done.out, 3)
      BY <2>3, <2>4 DEF Lined
    <3>2. Untriggered(n, flush.ring, flush.preview) => Untriggered(n, done.ring, done.preview)
      BY <2>3, <1>10 DEF Untriggered
    <3> QED BY <3>1, <3>2, <2>2, <2>3, <2>4, <2>5, <1>3
  <2>7. ~Emulated
    <3> SUFFICES ASSUME Emulated PROVE FALSE
      OBVIOUS
    <3>1. RingOf(image_ring, n)
      BY DEF InTurn
    <3>2. Flagged[image_ring_in].save <=> (image_ring[image_ring_in].save \/ Trigger \/ PostCapture)
      BY <3>1, <1>3, FlaggedIs
    <3>3. Flagged[image_ring_in].save
      BY <3>2 DEF Trigger
    <3>4. Pending(flush.ring[image_ring_in])
      BY <3>3, <2>2 DEF Pending
    <3> QED BY <3>4, <2>1, <1>3
  <2>8. TriggerNeighbours'
    <3> SUFFICES ASSUME shoots, flush.preview.trigger
                 PROVE  Adjacent(loopLog'.saved)
      BY <1>14 DEF TriggerNeighbours
    <3>1. loopLog'.saved # <<>> /\ loopLog'.saved[1] = flush.preview
      BY <1>14
    <3>2. Fits(flush.preview)
      <4>1. CASE conf.emulate_motion
        BY <4>1, <2>2, <2>7 DEF Emulated, Untriggered
      <4>2. CASE ~conf.emulate_motion
        BY <4>2, <2>2
      <4> QED BY <4>1, <4>2
    <3> QED BY <3>1, <3>2 DEF Adjacent, Fits, Near
  <2> QED BY <2>6, <2>8, <1>3, <1>12, <1>13 DEF InTurn, NewestIn
<1> QED BY <1>16, <1>17

\* A capture keeps the line: where the ring may be resized, none is waiting in it.
LEMMA CaptureKeepsLine ==
  ASSUME StaleInv, Capture, NEW n \in Nat, InTurn(n)
  PROVE  \E m \in Nat : InTurn(m)'
<1> DEFINE size == BufferSize(conf)
           ring == image_ring_resize(size)
           slot == Wrap(ring, image_ring_in + 1)
<1>1. PICK processed \in BOOLEAN, score \in Scores \cup {0}, over \in Overs :
        \E old \in IF processed THEN {Cleared} ELSE OldImage(ring, slot) :
            /\ processed \/ score = 0
            /\ image_ring' = [ring EXCEPT ![slot] = NewImage(old, processed, score, over)]
            /\ image_ring_in' = slot /\ image_ring_out' = Oldest(ring, slot)
  BY DEF Capture
<1>2. PICK old \in IF processed THEN {Cleared} ELSE OldImage(ring, slot) :
            /\ image_ring' = [ring EXCEPT ![slot] = NewImage(old, processed, score, over)]
            /\ image_ring_in' = slot /\ image_ring_out' = Oldest(ring, slot)
  BY <1>1
<1> DEFINE new == NewImage(old, processed, score, over)
<1>3. /\ pc = "top" /\ pc' = "frame" /\ captured' = captured + 1 /\ current_image' = "live"
      /\ UNCHANGED <<conf, in_event, preview>>
      /\ startup_frames' # 0 => startup_frames # 0
  BY DEF Capture
<1>4. /\ captured \in Nat /\ image_ring_in \in 0 .. n - 1 /\ image_ring_out \in Nat
      /\ RingOf(image_ring, n) /\ DOMAIN image_ring = 0 .. n - 1 /\ SizeOf(image_ring) = n
      /\ Behind(image_ring, n, image_ring_in, image_ring_out)
      /\ image_ring[image_ring_in].id = captured
      /\ (n = 1 /\ FirstRing) \/ (n >= 3 /\ current_image = "live")
  BY SizeIs DEF InTurn, NewestIn, StaleInv, OrderInv, RingOf
<1>5. size \in Nat /\ size >= 3
  BY LoopAssumption DEF StaleInv, OrderInv, BufferSize
<1>6. ASSUME n = 1 PROVE MayResize(size) /\ FirstRing
  <2>1. FirstRing
    BY <1>4, <1>6
  <2> QED BY <2>1, <1>4, <1>5, <1>6 DEF MayResize, Least, FirstRing
<1> DEFINE Sized(m) == /\ m >= 3 /\ image_ring_in \in 0 .. m - 1 /\ DOMAIN ring = 0 .. m - 1
                       /\ Behind(ring, m, image_ring_in, image_ring_out)
                       /\ ring[image_ring_in] = image_ring[image_ring_in]
                       /\ \A i \in 0 .. m - 1 : ring[i] = Cleared \/ (i \in 0 .. n - 1 /\ ring[i] = image_ring[i])
<1>7. PICK m \in Nat : Sized(m) /\ (MayResize(size) => ring # image_ring)
                       /\ (~MayResize(size) => ring = image_ring /\ m = n)
  <2>1. CASE MayResize(size)
    <3>1. size # n
      BY <2>1, <1>4 DEF MayResize
    <3>2. DOMAIN ring = 0 .. size - 1
      BY <2>1 DEF image_ring_resize
    <3>3. ring # image_ring
      <4> HIDE DEF ring, size
      <4> QED BY <3>1, <3>2, <1>4, <1>5
    <3>4. /\ image_ring_in \in 0 .. size - 1
          /\ Behind(ring, size, image_ring_in, image_ring_out)
          /\ ring[image_ring_in] = image_ring[image_ring_in]
          /\ \A i \in 0 .. size - 1 : ring[i] = Cleared \/ (i \in 0 .. n - 1 /\ ring[i] = image_ring[i])
      <4> HIDE DEF size
      <4>1. size > 0
        BY <1>5
      <4> QED BY <4>1, <2>1, <1>4, <1>5, ResizedBehind
    <3>5. Sized(size)
      BY <3>2, <3>4, <1>5
    <3> HIDE DEF ring, size, Sized
    <3> QED BY <2>1, <3>3, <3>5, <1>5
  <2>2. CASE ~MayResize(size)
    <3>1. ring = image_ring /\ n >= 3
      BY <2>2, <1>4, <1>6 DEF image_ring_resize
    <3>2. Sized(n)
      BY <3>1, <1>4
    <3> HIDE DEF ring, size, Sized
    <3> QED BY <2>2, <3>1, <3>2
  <2> QED BY <2>1, <2>2
<1>8. Sized(m)
  BY <1>7
<1> HIDE DEF ring, size
<1>9. slot = Succ(m, image_ring_in) /\ SizeOf(ring) = m /\ slot \in 0 .. m - 1
  <2>1. SizeOf(ring) = m
    <3>1. 0 .. m - 1 = DOMAIN ring
      BY <1>8
    <3>2. Cardinality(0 .. m - 1) = m
      BY <1>8, FS_Interval
    <3> QED BY <3>1, <3>2 DEF SizeOf
  <2> QED BY <2>1, <1>8 DEF Wrap, Succ
<1>10. image_ring_out' = IF slot = image_ring_out THEN Succ(m, image_ring_out) ELSE image_ring_out
  <2>1. image_ring_out' = IF slot = image_ring_out THEN Wrap(ring, image_ring_out + 1) ELSE image_ring_out
    BY <1>2 DEF Oldest
  <2>2. slot = image_ring_out => Wrap(ring, image_ring_out + 1) = Succ(m, image_ring_out)
    <3> HIDE DEF slot
    <3> QED BY <1>8, <1>9 DEF Wrap, Succ
  <2> HIDE DEF slot
  <2> QED BY <2>1, <2>2
<1>11. image_ring' = [ring EXCEPT ![slot] = new] /\ image_ring_in' = slot
  BY <1>2
<1>12. /\ ~old.saved
       /\ old.trigger => ~MayResize(size) /\ old = image_ring[image_ring_in]
  <2>1. ~Cleared.saved /\ ~Cleared.trigger
        /\ \A any \in BOOLEAN : ~[Cleared EXCEPT !.save = any].saved /\ ~[Cleared EXCEPT !.save = any].trigger
    BY DEF Cleared
  <2>2. CASE processed
    BY <2>1, <2>2
  <2>3. CASE ~processed
    <3>1. old \in OldImage(ring, slot)
      BY <2>3
    <3> HIDE DEF slot
    <3>2. CASE current_image = "null"
      <4>1. OldImage(ring, slot) = {ring[slot]}
        BY <3>2 DEF OldImage
      <4>2. n = 1 /\ image_ring = Fresh
        BY <3>2, <1>4 DEF FirstRing
      <4>3. ring[slot] = Cleared
        <5>1. \A i \in 0 .. 0 : Fresh[i] = Cleared
          BY DEF Fresh
        <5>2. ring[slot] = Cleared \/ (slot \in 0 .. n - 1 /\ ring[slot] = image_ring[slot])
          BY <1>8, <1>9
        <5> HIDE DEF Fresh
        <5> QED BY <5>1, <5>2, <4>2
      <4> QED BY <4>1, <4>3, <3>1, <2>1
    <3>3. CASE current_image = "live" /\ ring = image_ring
      <4>1. old = image_ring[image_ring_in]
        BY <3>1, <3>3 DEF OldImage
      <4>2. ~image_ring[image_ring_in].saved
        <5>1. n > 0
          BY <1>4
        <5>2. image_ring_out < n =>
                Dist(n, image_ring_out, image_ring_in) <= Dist(n, image_ring_out, image_ring_in)
          BY <5>1, <1>4, DistIs
        <5> QED BY <5>2, <1>4 DEF Behind
      <4> QED BY <4>1, <4>2, <3>3, <1>7
    <3>4. CASE current_image # "null" /\ ~(current_image = "live" /\ ring = image_ring)
      <4>1. OldImage(ring, slot) = {[Cleared EXCEPT !.save = any] : any \in BOOLEAN}
        BY <3>4 DEF OldImage
      <4> QED BY <4>1, <3>1, <2>1
    <3> QED BY <3>2, <3>3, <3>4
  <2> QED BY <2>2, <2>3
<1>13. RingOf(image_ring', m) /\ new \in Image
  <2>1. OrderInv'
    BY CaptureKeepsOrder DEF StaleInv
  <2>2. PICK k \in Nat : RingOf(image_ring', k)
    BY <2>1, <1>3 DEF OrderInv, InRing
  <2>3. DOMAIN image_ring' = 0 .. m - 1
    BY <1>8, <1>11
  <2>4. k = m
    <3>1. SizeOf(image_ring') = k
      BY <2>2, SizeIs
    <3>2. Cardinality(0 .. m - 1) = m
      BY <1>8, FS_Interval
    <3> QED BY <3>1, <3>2, <2>3 DEF SizeOf
  <2>5. image_ring'[slot] = new
    <3> HIDE DEF slot, new
    <3> QED BY <1>8, <1>9, <1>11
  <2> HIDE DEF slot, new
  <2> QED BY <2>2, <2>4, <2>5, <1>9 DEF RingOf
<1>14. new.id = captured + 1 /\ new.save = old.save /\ new.saved = old.saved /\ new.trigger = old.trigger
  <2>1. new = [old EXCEPT !.id = captured + 1, !.over = over, !.diffs = Diffs(processed, score, old.diffs)]
    BY DEF NewImage
  <2>2. DOMAIN old = DOMAIN new
    BY <2>1
  <2>3. {"id", "save", "saved", "trigger"} \subseteq DOMAIN new
    <3> HIDE DEF new
    <3> QED BY <1>13 DEF Image
  <2> DEFINE d == Diffs(processed, score, old.diffs)
             a == captured + 1
  <2>4. new = [old EXCEPT !.id = a, !.over = over, !.diffs = d]
    BY <2>1
  <2> HIDE DEF new, d, a
  <2>5. new.id = a /\ new.save = old.save /\ new.saved = old.saved /\ new.trigger = old.trigger
    BY <2>2, <2>3, <2>4
  <2> QED BY <2>5 DEF a
<1> HIDE DEF new, slot
<1>15. \A i \in 0 .. m - 1 : image_ring'[i] = IF i = slot THEN new ELSE ring[i]
  BY <1>8, <1>11
<1>16. RingOf(ring, m)
  <2>1. Cleared \in Image
    BY DEF Cleared, Image
  <2>2. \A i \in 0 .. m - 1 : ring[i] \in Image
    BY <2>1, <1>4, <1>8 DEF RingOf
  <2>3. ring = [i \in DOMAIN ring |-> ring[i]]
    <3>1. CASE MayResize(size)
      BY <3>1 DEF image_ring_resize, ring
    <3>2. CASE ~MayResize(size)
      BY <3>2, <1>4, <1>7 DEF RingOf
    <3> QED BY <3>1, <3>2
  <2> QED BY <2>2, <2>3, <1>8 DEF RingOf
<1>17. /\ Behind(image_ring', m, slot, image_ring_out') /\ image_ring_out' # slot
       /\ image_ring'[slot] = new /\ image_ring'[Prev(m, slot)] = ring[image_ring_in]
       /\ Lined(ring, m, image_ring_in, image_ring_out, 3)
            /\ (new.trigger => Waits(ring[image_ring_in]) /\ new.save = ring[image_ring_in].save)
          => Lined(image_ring', m, slot, image_ring_out', 2)
  <2>1. new.id = ring[image_ring_in].id + 1 /\ ~new.saved
    BY <1>4, <1>8, <1>12, <1>14
  <2>2. /\ m >= 3 /\ image_ring_in \in 0 .. m - 1 /\ image_ring_out \in Nat
        /\ Behind(ring, m, image_ring_in, image_ring_out)
    BY <1>4, <1>8
  <2>3. PICK r, next, in, out : /\ r = image_ring' /\ next = image_ring_out'
                                /\ in = image_ring_in /\ out = image_ring_out
    OBVIOUS
  <2>4. /\ m \in Nat /\ m >= 3 /\ in \in 0 .. m - 1 /\ out \in Nat /\ RingOf(ring, m)
        /\ Behind(ring, m, in, out) /\ new \in Image /\ new.id = ring[in].id + 1 /\ ~new.saved
        /\ slot = Succ(m, in)
    BY <2>1, <2>2, <2>3, <1>9, <1>13, <1>16
  <2>5. r = [ring EXCEPT ![slot] = new] /\ next = IF slot = out THEN Succ(m, out) ELSE out
    BY <2>3, <1>10, <1>11
  <2> HIDE DEF Sized
  <2>6. Comes(m, in, out, ring, new, slot, next, r)
    BY <2>4, <2>5 DEF Comes
  <2>7. /\ Behind(r, m, slot, next) /\ next # slot
        /\ r[slot] = new /\ r[Prev(m, slot)] = ring[in]
        /\ Lined(ring, m, in, out, 3) /\ (new.trigger => Waits(ring[in]) /\ new.save = ring[in].save)
           => Lined(r, m, slot, next, 2)
    BY <2>6, NextInLine
  <2> QED BY <2>3, <2>7
<1>18. ASSUME conf.emulate_motion, startup_frames # 0 PROVE Untriggered(m, image_ring', preview)
  <2>1. Untriggered(n, image_ring, preview)
    BY <1>18 DEF InTurn
  <2>2. ~new.trigger
    BY <2>1, <1>4, <1>12, <1>14 DEF Untriggered
  <2>3. \A i \in 0 .. m - 1 : ~ring[i].trigger
    BY <2>1, <1>8 DEF Untriggered, Cleared
  <2> QED BY <2>1, <2>2, <2>3, <1>15 DEF Untriggered
<1>19. ASSUME ~conf.emulate_motion
       PROVE  /\ Lined(image_ring', m, slot, image_ring_out', 2)
              /\ ~in_event => \A i \in 0 .. m - 1 : ~Waits(image_ring'[i])
              /\ Fits(preview)
  <2>1. /\ Lined(image_ring, n, image_ring_in, image_ring_out, 3) /\ Fits(preview)
        /\ ~in_event => \A i \in 0 .. n - 1 : ~Waits(image_ring[i])
    BY <1>19, <1>3 DEF InTurn
  <2>2. ~in_event => \A i \in 0 .. m - 1 : ~Waits(ring[i])
    BY <2>1, <1>8 DEF Waits, Cleared
  <2>3. Lined(ring, m, image_ring_in, image_ring_out, 3)
    <3>1. CASE MayResize(size)
      <4>1. ~in_event
        BY <3>1 DEF MayResize
      <4> QED BY <4>1, <2>2 DEF Lined
    <3>2. CASE ~MayResize(size)
      BY <3>2, <2>1, <1>7
    <3> QED BY <3>1, <3>2
  <2>4. new.trigger => Waits(ring[image_ring_in]) /\ new.save = ring[image_ring_in].save
    BY <1>8, <1>12, <1>14 DEF Waits
  <2>5. ~in_event => ~Waits(new)
    BY <2>2, <2>4, <1>8 DEF Waits
  <2> QED BY <2>1, <2>2, <2>3, <2>4, <2>5, <1>15, <1>17
<1>20. NewestIn(m)'
  <2>1. image_ring'[slot].id = captured' /\ image_ring'[Prev(m, slot)].id = captured
    BY <1>3, <1>4, <1>8, <1>14, <1>17
  <2> QED BY <2>1, <1>3, <1>4, <1>11, <1>17 DEF NewestIn
<1>21. InTurn(m)'
  BY <1>3, <1>8, <1>9, <1>11, <1>13, <1>17, <1>18, <1>19, <1>20 DEF InTurn
<1> QED BY <1>21

\* The context of a thread that was not started yet.
Unbegun == image_ring_in = 0 /\ image_ring_out = 0 /\ captured = 0 /\ current_image = "null" /\ ~preview.trigger

\* As long as nothing disturbs them, the images that wait to be sent are in line.
NearInv ==
  /\ StaleInv /\ TriggerNeighbours
  /\ Undisturbed => /\ pc = "start" => Unbegun
                    /\ pc \in {"top", "frame"} => \E n \in Nat : InTurn(n)

\* motion_init begins the line, with one image that nothing was captured into.
LEMMA InitBegins ==
  ASSUME motion_init, Unbegun
  PROVE  InTurn(1)'
<1>1. /\ pc' = "top" /\ image_ring' = Fresh /\ ~in_event' /\ current_image' = "null" /\ captured' = 0
      /\ image_ring_in' = 0 /\ image_ring_out' = 0 /\ preview' = preview /\ ~preview.trigger
      /\ in_event' = FALSE
  BY DEF motion_init, Fresh, Unbegun
<1>2. /\ DOMAIN Fresh = 0 .. 0 /\ Fresh[0] = Cleared /\ Fresh = [i \in 0 .. 0 |-> Fresh[i]]
      /\ \A i \in 0 .. 0 : i = 0 /\ Fresh[i] = Cleared
  BY DEF Fresh
<1>3. Cleared \in Image /\ ~Cleared.saved /\ ~Cleared.trigger /\ Cleared.id = 0
  BY DEF Cleared, Image
<1>4. RingOf(Fresh, 1)
  BY <1>2, <1>3 DEF RingOf
<1>5. FirstRing' /\ NewestIn(1)'
  BY <1>1, <1>2, <1>3 DEF FirstRing, NewestIn
<1>6. /\ Behind(Fresh, 1, 0, 0) /\ Untriggered(1, Fresh, preview) /\ Lined(Fresh, 1, 0, 0, 3)
      /\ \A i \in 0 .. 0 : ~Waits(Fresh[i])
  <2>1. 0 .. 1 - 1 = 0 .. 0
    OBVIOUS
  <2> HIDE DEF Fresh
  <2> QED BY <2>1, <1>1, <1>2, <1>3 DEF Behind, Untriggered, Lined, Waits
<1>7. Fits(preview)
  BY <1>1 DEF Fits
<1> QED BY <1>1, <1>4, <1>5, <1>6, <1>7 DEF InTurn

\* What does not touch the loop keeps the line.
LEMMA OrderKeepsLine ==
  ASSUME Orderly, NEW n \in Nat, InTurn(n), StaleInv, Undisturbed'
  PROVE  InTurn(n)' /\ Undisturbed
<1>1. /\ UNCHANGED <<pc, image_ring, image_ring_in, image_ring_out, current_image, captured,
                     in_event, startup_frames, preview>>
  BY DEF Orderly, OrderMovie, OrderQuit, OrderFinish, OrderConfig, Untouched
<1>2. Undisturbed /\ conf'.emulate_motion = conf.emulate_motion
  <2>1. DOMAIN loopLog = LogFields
    BY DEF StaleInv, OrderInv
  <2>2. CASE OrderMovie \/ OrderQuit \/ OrderFinish
    <3>1. UNCHANGED conf
      BY <2>2 DEF OrderMovie, OrderQuit, OrderFinish
    <3>2. loopLog' = Ordered(loopLog) \/ loopLog' = Ordered([loopLog EXCEPT !.quit = TRUE])
      BY <2>2 DEF OrderMovie, OrderQuit, OrderFinish
    <3> QED BY <3>1, <3>2, <2>1 DEF Ordered, LogFields, Undisturbed
  <2>3. CASE OrderConfig
    <3>1. loopLog' = Ordered([loopLog EXCEPT !.mixed = @ \/ Mixes(conf')])
      BY <2>3 DEF OrderConfig
    <3>2. loopLog'.mixed = (loopLog.mixed \/ Mixes(conf')) /\ loopLog'.cut = loopLog.cut /\ loopLog'.left = loopLog.left
      BY <3>1, <2>1 DEF Ordered, LogFields
    <3> QED BY <3>2 DEF Undisturbed, Mixes
  <2> QED BY <2>2, <2>3 DEF Orderly
<1>3. NewestIn(n)' /\ (FirstRing => FirstRing')
  BY <1>1 DEF NewestIn, FirstRing, InTurn
<1> QED BY <1>1, <1>2, <1>3 DEF InTurn

LEMMA NearKept ==
  ASSUME NearInv, [LoopNext]_loopVars
  PROVE  NearInv'
<1>1. StaleInv /\ StaleInv'
  BY StaleKept DEF NearInv
<1>2. DOMAIN loopLog = LogFields
  BY <1>1 DEF StaleInv, OrderInv
<1>3. CASE motion_init
  <2>1. pc = "start" /\ pc' = "top" /\ loopLog' = loopLog
    BY <1>3 DEF motion_init
  <2>2. Undisturbed' => Undisturbed
    BY <2>1 DEF Undisturbed
  <2>3. Undisturbed => InTurn(1)'
    BY <2>1, <1>3, InitBegins DEF NearInv
  <2>4. TriggerNeighbours'
    BY <2>1 DEF NearInv, TriggerNeighbours
  <2> QED BY <1>1, <2>1, <2>2, <2>3, <2>4 DEF NearInv
<1>4. ASSUME NEW entry, Leave(entry), DOMAIN entry = LogFields PROVE NearInv'
  <2>1. pc' = "exit" /\ loopLog' = [entry EXCEPT !.sent = <<>>, !.saved = <<>>]
    BY <1>4 DEF Leave
  <2>2. loopLog'.saved = <<>>
    BY <2>1, <1>4 DEF LogFields
  <2> QED BY <1>1, <2>1, <2>2 DEF NearInv, TriggerNeighbours
<1>5. CASE LoopInitFails \/ LoopLeaves \/ CameraChanged
  <2>1. DOMAIN Ordered([loopLog EXCEPT !.left = TRUE]) = LogFields
    BY <1>2 DEF Ordered
  <2> QED BY <1>2, <1>4, <1>5, <2>1 DEF LoopInitFails, LoopLeaves, CameraChanged
<1>6. CASE Capture
  <2>1. pc = "top" /\ pc' = "frame" /\ loopLog' = [loopLog EXCEPT !.sent = <<>>, !.saved = <<>>]
    BY <1>6 DEF Capture
  <2>2. loopLog'.saved = <<>> /\ (Undisturbed' => Undisturbed)
    BY <2>1, <1>2 DEF LogFields, Undisturbed
  <2>3. Undisturbed => \E n \in Nat : InTurn(n)'
    BY <2>1, <1>1, <1>6, CaptureKeepsLine DEF NearInv
  <2> QED BY <1>1, <2>1, <2>2, <2>3 DEF NearInv, TriggerNeighbours
<1>7. CASE Act
  <2>1. pc = "frame" /\ pc' = "top"
    BY <1>7 DEF Act
  <2>2. CASE Undisturbed'
    <3>1. Undisturbed
      <4>1. \E ends, flush, shoots, done, third : loopLog' = LogAfter(ends, flush, shoots, done, third)
        BY <1>7 DEF Act, Finish
      <4>2. PICK ends, flush, shoots, done, third : loopLog' = LogAfter(ends, flush, shoots, done, third)
        BY <4>1
      <4>3. loopLog'.left = loopLog.left /\ loopLog'.mixed = loopLog.mixed /\ (loopLog.cut => loopLog'.cut)
        BY <4>2, <1>2 DEF LogAfter, LogFields
      <4> QED BY <4>3, <2>2 DEF Undisturbed
    <3>2. PICK n \in Nat : InTurn(n)
      BY <3>1, <2>1 DEF NearInv
    <3>3. InTurn(n)' /\ TriggerNeighbours'
      BY <3>2, <2>2, <1>1, <1>7, ActKeepsLine
    <3> QED BY <1>1, <2>1, <3>3 DEF NearInv
  <2>3. CASE ~Undisturbed'
    <3>1. loopLog'.cut \/ loopLog'.left \/ loopLog'.mixed
      BY <2>3 DEF Undisturbed
    <3> QED BY <1>1, <2>3, <3>1 DEF NearInv, TriggerNeighbours
  <2> QED BY <2>2, <2>3
<1>8. CASE Restarted
  <2>1. loopLog.left /\ loopLog' = loopLog
    BY <1>8 DEF Restarted
  <2> QED BY <1>1, <2>1 DEF NearInv, Undisturbed, TriggerNeighbours
<1>9. CASE Orderly
  <2>1. pc \in {"top", "frame"} /\ pc' = pc
    BY <1>9 DEF Orderly, OrderMovie, OrderQuit, OrderFinish, OrderConfig, Order, Untouched
  <2>2. \/ loopLog' = Ordered(loopLog)
        \/ loopLog' = Ordered([loopLog EXCEPT !.quit = TRUE])
        \/ loopLog' = Ordered([loopLog EXCEPT !.mixed = @ \/ Mixes(conf')])
    BY <1>9 DEF Orderly, OrderMovie, OrderQuit, OrderFinish, OrderConfig
  <2>3. /\ loopLog'.saved = loopLog.saved /\ loopLog'.cut = loopLog.cut /\ loopLog'.left = loopLog.left
        /\ loopLog.mixed => loopLog'.mixed
    BY <2>2, <1>2 DEF Ordered, LogFields
  <2>4. TriggerNeighbours' /\ (Undisturbed' => Undisturbed)
    BY <2>3 DEF NearInv, TriggerNeighbours, Undisturbed
  <2>5. ASSUME Undisturbed' PROVE \E n \in Nat : InTurn(n)'
    <3>1. PICK n \in Nat : InTurn(n)
      BY <2>1, <2>4, <2>5 DEF NearInv
    <3> QED BY <3>1, <2>5, <1>1, <1>9, OrderKeepsLine
  <2> QED BY <1>1, <2>1, <2>4, <2>5 DEF NearInv
<1>10. CASE UNCHANGED loopVars
  <2>1. Undisturbed' <=> Undisturbed
    BY <1>10 DEF Undisturbed, loopVars
  <2>2. TriggerNeighbours' /\ (Unbegun => Unbegun') /\ pc' = pc
    BY <1>10 DEF NearInv, TriggerNeighbours, Unbegun, loopVars
  <2>3. ASSUME NEW n \in Nat, InTurn(n) PROVE InTurn(n)'
    BY <2>3, <1>10 DEF InTurn, NewestIn, FirstRing, loopVars
  <2> QED BY <1>1, <2>1, <2>2, <2>3 DEF NearInv
<1> QED BY <1>3, <1>5, <1>6, <1>7, <1>8, <1>9, <1>10 DEF LoopNext, Loop

\* With output_pictures center the three pictures of an event that triggered are one, or the
\* one that triggered, the one captured before it and the one captured after: unless an event
\* was ended on an image still to be sent, the thread left, or an option was changed meanwhile,
\* process_image_ring reaches an image before the ring comes round to its neighbours.
THEOREM PicturesAreNeighbours == LoopSpec => []TriggerNeighbours
<1>1. LoopInit => NearInv
  <2> SUFFICES ASSUME LoopInit PROVE NearInv
    OBVIOUS
  <2>1. StaleInv
    <3>1. OrderInv
      BY DEF LoopInit, OrderInv, NewLog, LogFields
    <3>2. IsPreview(preview) /\ preview.diffs = 0 /\ postcap = 0 /\ pc = "start"
      BY DEF LoopInit, NoPreview, IsPreview, PreviewFields
    <3> QED BY <3>1, <3>2 DEF StaleInv
  <2>2. pc = "start" /\ Unbegun /\ loopLog.saved = <<>>
    BY DEF LoopInit, Unbegun, NoPreview, NewLog
  <2> QED BY <2>1, <2>2 DEF NearInv, TriggerNeighbours
<1>2. NearInv /\ [LoopNext]_loopVars => NearInv'
  BY NearKept
<1>3. NearInv => TriggerNeighbours
  BY DEF NearInv
<1> QED BY <1>1, <1>2, <1>3, PTL DEF LoopSpec
=============================================================================
