------------------------- MODULE MotionHandler_proofs -------------------------
(***************************************************************************)
(* The board's process_motion, for any number of events, any state of the  *)
(* pipes at boot and whether or not sendimage dies or cannot send: whoever *)
(* works on an image works on the front of the queue, an image is deleted  *)
(* after it was tried to send it, and no motion is posted that no script   *)
(* reported.                                                               *)
(***************************************************************************)
EXTENDS MotionHandler, SequenceTheorems, FiniteSetTheorems, TLAPS

(* What is in the queue: what `ls | tail -1' can name.                     *)
Listed == {NoFile} \cup {Max(x) : x \in SUBSET Events}

QueueTyped ==
    /\ images \subseteq Events
    /\ grabbed \in Listed
    /\ queue \in Seq(Listed)

(* image_queue_lock is held where the two threads say so, by one of them.  *)
LockHeld ==
    /\ grabber \in {"system", "unlock"} <=> lock = "grabber"
    /\ dequeuer \in {"system", "unlock"} <=> lock = "dequeuer"

(* sendimage runs only inside the system() call of a holder of the lock.   *)
SenderHasCaller ==
    sender # "none" => grabber = "system" \/ dequeuer = "system"

(* Nobody but the dequeuer takes an image out, so what it saw is still     *)
(* there when it takes the lock.                                           *)
NothingVanishes ==
    dequeuer \in {"delete", "lock"} => queue # <<>>

HandInv ==
    /\ QueueTyped
    /\ LockHeld
    /\ SenderHasCaller
    /\ NothingVanishes
    /\ FrontIsInHand

handVars == <<images, grabbed, queue, grabber, dequeuer, lock, sender, file,
              deleted>>
------------------------------------------------------------------------------
(* Putting an image behind a non-empty queue leaves the front, and the     *)
(* queue is never empty afterwards.                                        *)
LEMMA AppendKeepsFront ==
    ASSUME NEW S, NEW s \in Seq(S), NEW e \in S
    PROVE  /\ Append(s, e) \in Seq(S)
           /\ Append(s, e) # <<>>
           /\ s # <<>> => Head(Append(s, e)) = Head(s)
           /\ s = <<>> => Head(Append(s, e)) = e
OBVIOUS

(* Init.                                                                   *)
LEMMA HandInit == Init => HandInv
  BY DEF Init, HandInv, QueueTyped, LockHeld, SenderHasCaller,
         NothingVanishes, FrontIsInHand, Listed

(* A step that touches nothing of the queue.                               *)
LEMMA HandStutter == HandInv /\ UNCHANGED handVars => HandInv'
  BY DEF HandInv, QueueTyped, LockHeld, SenderHasCaller, NothingVanishes,
         FrontIsInHand, handVars

(* Motion and CameraThread: new images at most.                            *)
LEMMA HandMotion ==
    ASSUME HandInv,
           \/ Boot
           \/ \E e \in Events : MotionDetected(e) \/ EventScript(e)
           \/ Camera
    PROVE  HandInv'
<1>1. CASE Boot
  BY <1>1, HandStutter DEF Boot, handVars, motionVars, grabberVars, dequeuerVars, senderVars
<1>2. ASSUME NEW e \in Events, MotionDetected(e) PROVE HandInv'
  BY <1>2 DEF MotionDetected, HandInv, QueueTyped, LockHeld, SenderHasCaller,
       NothingVanishes, FrontIsInHand, grabberVars, dequeuerVars, senderVars
<1>3. ASSUME NEW e \in Events, EventScript(e) PROVE HandInv'
  BY <1>3, HandStutter DEF EventScript, handVars, grabberVars, dequeuerVars, senderVars
<1>4. CASE Camera
  BY <1>4, HandStutter DEF Camera, CameraOpen, CameraRead, CameraClose, CameraFrame,
       handVars, motionVars, grabberVars, dequeuerVars, senderVars
<1>5. QED
  BY <1>1, <1>2, <1>3, <1>4

(* sendimage: it keeps its file until it ends.                             *)
LEMMA HandSender ==
    ASSUME HandInv, Sender
    PROVE  HandInv'
<1>1. /\ UNCHANGED <<images, grabbed, queue, grabber, dequeuer, lock, deleted>>
      /\ sender # "none"
      /\ sender' = "none" \/ file' = file
  <2>1. CASE ReadImage
    BY <2>1 DEF ReadImage, SenderEnds, SenderFrame, motionVars, grabberVars, dequeuerVars
  <2>2. CASE SendImage
    BY <2>2 DEF SendImage, SenderEnds, SenderFrame, motionVars, grabberVars, dequeuerVars
  <2>3. CASE DoneScript
    BY <2>3 DEF DoneScript, Script, SenderEnds, SenderFrame, motionVars, grabberVars, dequeuerVars
  <2>4. QED
    BY <2>1, <2>2, <2>3 DEF Sender
<1>2. QED
  BY <1>1 DEF HandInv, QueueTyped, LockHeld, SenderHasCaller, NothingVanishes, FrontIsInHand

(* MotionHandlerThread puts images behind the front, under the lock.       *)
LEMMA HandGrabber ==
    ASSUME HandInv, Grabber
    PROVE  HandInv'
<1> USE DEF HandInv, QueueTyped, LockHeld, SenderHasCaller, NothingVanishes,
            FrontIsInHand, GrabberFrame, motionVars, dequeuerVars, senderVars
<1>1. CASE AwaitMotion
  BY <1>1 DEF AwaitMotion
<1>2. CASE ListImages
  <2>1. grabbed' \in Listed
    BY <1>2 DEF ListImages, Listed
  <2>2. QED
    BY <1>2, <2>1 DEF ListImages
<1>3. CASE PushImage
  <2>1. /\ lock = "none" /\ lock' = "grabber"
        /\ grabber' \in {"system", "unlock"}
        /\ grabbed' \in Listed
        /\ queue' = Append(queue, grabbed)
        /\ UNCHANGED <<images, dequeuer, deleted>>
        /\ \/ queue = <<>> /\ file' = grabbed /\ grabber' = "system"
           \/ queue # <<>> /\ UNCHANGED <<sender, file>>
    BY <1>3 DEF PushImage, StartSender, Listed
  <2>2. /\ queue' \in Seq(Listed) /\ queue' # <<>>
        /\ queue # <<>> => Head(queue') = Head(queue)
        /\ queue = <<>> => Head(queue') = grabbed
    BY <2>1, AppendKeepsFront
  <2>3. sender = "none"
    BY <2>1
  <2>4. QED
    BY <2>1, <2>2, <2>3
<1>4. CASE GrabberUnlock
  BY <1>4 DEF GrabberUnlock
<1>5. QED
  BY <1>1, <1>2, <1>3, <1>4 DEF Grabber

(* DequeueImagesThread, the only one to take an image out.                 *)
LEMMA HandDequeuer ==
    ASSUME HandInv, Dequeuer
    PROVE  HandInv'
<1> USE DEF HandInv, QueueTyped, LockHeld, SenderHasCaller, NothingVanishes,
            FrontIsInHand, DequeuerFrame, grabberVars, senderVars
<1>1. CASE DequeuerOpen
  BY <1>1 DEF DequeuerOpen
<1>2. CASE DequeuerRead
  BY <1>2 DEF DequeuerRead
<1>3. CASE DequeuerClose
  BY <1>3 DEF DequeuerClose
<1>4. CASE DeleteImage
  BY <1>4 DEF DeleteImage
<1>5. CASE PopImage
  <2>1. /\ dequeuer = "lock" /\ lock = "none" /\ lock' = "dequeuer"
        /\ queue' = Tail(queue)
        /\ UNCHANGED <<images, grabbed, grabber>>
        /\ \/ /\ queue' # <<>> /\ file' = Head(queue')
              /\ dequeuer' = "system"
           \/ dequeuer' = "unlock" /\ UNCHANGED <<sender, file>>
    BY <1>5 DEF PopImage, StartSender
  <2>2. sender = "none"
    BY <2>1
  <2>3. queue' \in Seq(Listed)
    BY <2>1
  <2>4. QED
    BY <2>1, <2>2, <2>3
<1>6. CASE DequeuerUnlock
  BY <1>6 DEF DequeuerUnlock
<1>7. QED
  BY <1>1, <1>2, <1>3, <1>4, <1>5, <1>6 DEF Dequeuer

LEMMA HandStep == HandInv /\ [Next]_vars => HandInv'
<1> SUFFICES ASSUME HandInv, [Next]_vars PROVE HandInv'
  OBVIOUS
<1>1. CASE UNCHANGED vars
  BY <1>1, HandStutter DEF vars, handVars, motionVars, grabberVars, dequeuerVars, senderVars
<1>2. CASE Next
  BY <1>2, HandMotion, HandSender, HandGrabber, HandDequeuer DEF Next
<1>3. QED
  BY <1>1, <1>2

(* Whoever works on an image works on the front of the queue: sendimage,   *)
(* whichever of the two threads started it, sends the front, and pop()     *)
(* takes out the image that was deleted, although size and front are read  *)
(* without the lock (image_handler.cpp:76 and 115-133).                    *)
THEOREM FrontStaysInHand == Spec => []FrontIsInHand
<1>1. HandInv => FrontIsInHand
  BY DEF HandInv
<1>2. QED
  BY <1>1, HandInit, HandStep, PTL DEF Spec
------------------------------------------------------------------------------
(* The files of an image go only after it was sent, or its sending failed. *)

FrontTried == queue # <<>> /\ Tried(Head(queue))

Bytes == {Motion, Newline, Settle}
BeforeScript == {"none", "read", "send", "open1"}
Writing == {"write1", "close1", "write2", "close2"}

(* Who holds an end of processing_done_pipe, and that a pipe nobody holds  *)
(* is empty.                                                               *)
DoneEnds ==
    /\ donePipe \in [readers : SUBSET {"dequeuer"}, writers : SUBSET {"sender"},
                     asleep : SUBSET {"dequeuer", "sender"}, data : Seq(Bytes)]
    /\ "dequeuer" \in donePipe.readers <=> dequeuer \in {"read", "close"}
    /\ "sender" \in donePipe.writers <=> sender \in Writing
    /\ donePipe.readers = {} /\ donePipe.writers = {} => donePipe.data = <<>>

(* The done script runs after its image was sent, or its sending failed.   *)
ScriptAfterSend ==
    /\ sent \in Seq(Listed) /\ unsent \subseteq Listed
    /\ sender \in ScriptSteps => Tried(file)

(* Until the dequeuer is woken, the script it waits for has not got beyond *)
(* its first open(): so the first byte it reads is that script's \x01, and *)
(* the end of file that would leave an old processing_done never comes.    *)
WokenBySender ==
    /\ dequeuer = "open" => sender \in BeforeScript \cup {"write1"} /\ donePipe.data = <<>>
    /\ "dequeuer" \in donePipe.asleep =>
          dequeuer = "read" /\ sender \in BeforeScript /\ donePipe.data = <<>>
    /\ dequeuer = "read" /\ "dequeuer" \notin donePipe.asleep =>
          /\ FrontTried
          /\ \/ donePipe.data # <<>> /\ Head(donePipe.data) = Motion
             \/ donePipe.data = <<>> /\ sender = "write1"
    /\ dequeuer = "close" => FrontTried /\ doneByte = Motion
    /\ dequeuer \in {"delete", "lock"} => FrontTried

DoneInv ==
    /\ DoneEnds
    /\ ScriptAfterSend
    /\ WokenBySender

doneVars == <<donePipe, dequeuer, sender, file, sent, unsent, queue, doneByte>>
------------------------------------------------------------------------------
(* Writing behind what is in a pipe leaves the byte to be read first.      *)
LEMMA PutKeepsFirst ==
    ASSUME NEW s \in Seq(Bytes), NEW a \in Bytes, NEW b \in Bytes
    PROVE  /\ s \o <<a, b>> \in Seq(Bytes)
           /\ s \o <<a, b>> # <<>>
           /\ s # <<>> => Head(s \o <<a, b>>) = Head(s)
           /\ s = <<>> => Head(s \o <<a, b>>) = a
<1> DEFINE t == <<a, b>>
<1>1. t \in Seq(Bytes) /\ Len(t) = 2 /\ t[1] = a
  OBVIOUS
<1> HIDE DEF t
<1>2. /\ s \o t \in Seq(Bytes) /\ Len(s \o t) = Len(s) + 2
      /\ \A i \in 1..Len(s) + 2 : (s \o t)[i] = IF i <= Len(s) THEN s[i] ELSE t[i - Len(s)]
  <2>1. /\ s \o t \in Seq(Bytes) /\ Len(s \o t) = Len(s) + Len(t)
        /\ \A i \in 1..Len(s) + Len(t) : (s \o t)[i] = IF i <= Len(s) THEN s[i] ELSE t[i - Len(s)]
    BY <1>1, ConcatProperties, Zenon
  <2>2. QED
    BY <1>1, <2>1
<1>3. Len(s) \in Nat /\ (s = <<>> <=> Len(s) = 0)
  OBVIOUS
<1>4. s \o t # <<>> /\ Head(s \o t) = (s \o t)[1]
  BY <1>2, <1>3
<1>5. (s \o t)[1] = IF 1 <= Len(s) THEN s[1] ELSE t[1 - Len(s)]
  BY <1>2, <1>3
<1>6. s # <<>> => 1 <= Len(s) /\ Head(s) = s[1]
  BY <1>3
<1>7. s = <<>> => Len(s) = 0 /\ t[1 - Len(s)] = t[1]
  BY <1>3
<1>8. QED
  BY <1>1, <1>2, <1>3, <1>4, <1>5, <1>6, <1>7 DEF t

(* Closing an end leaves a pipe, and an empty one when nobody is left.     *)
LEMMA Closing ==
    ASSUME DoneEnds, NEW x \in {"dequeuer", "sender"}, donePipe' = CloseEnd(donePipe, x)
    PROVE  /\ donePipe'.readers = donePipe.readers \ {x}
           /\ donePipe'.writers = donePipe.writers \ {x}
           /\ donePipe'.asleep = donePipe.asleep
           /\ donePipe'.data = IF donePipe'.readers = {} /\ donePipe'.writers = {}
                               THEN <<>> ELSE donePipe.data
           /\ donePipe' \in [readers : SUBSET {"dequeuer"}, writers : SUBSET {"sender"},
                             asleep : SUBSET {"dequeuer", "sender"}, data : Seq(Bytes)]
<1> DEFINE q == [donePipe EXCEPT !.readers = @ \ {x}, !.writers = @ \ {x}]
<1>1. /\ q \in [readers : SUBSET {"dequeuer"}, writers : SUBSET {"sender"},
                asleep : SUBSET {"dequeuer", "sender"}, data : Seq(Bytes)]
      /\ q.readers = donePipe.readers \ {x} /\ q.writers = donePipe.writers \ {x}
      /\ q.asleep = donePipe.asleep /\ q.data = donePipe.data
  BY DEF DoneEnds
<1>2. donePipe' = IF q.readers = {} /\ q.writers = {} THEN [q EXCEPT !.data = <<>>] ELSE q
  BY DEF CloseEnd
<1> HIDE DEF q
<1>3. CASE q.readers = {} /\ q.writers = {}
  <2>1. <<>> \in Seq(Bytes)
    OBVIOUS
  <2>2. QED
    BY <1>1, <1>2, <1>3, <2>1
<1>4. CASE ~(q.readers = {} /\ q.writers = {})
  BY <1>1, <1>2, <1>4
<1>5. QED
  BY <1>3, <1>4

(* What was tried stays tried, and what is sent or not is added to it.     *)
LEMMA TriedGrows ==
    ASSUME sent \in Seq(Listed), NEW f \in Listed,
           sent' = Append(sent, f), unsent' = unsent
    PROVE  /\ sent' \in Seq(Listed)
           /\ \A e : Tried(e) => Tried(e)'
           /\ Tried(f)'
<1>1. sent' \in Seq(Listed) /\ Len(sent') = Len(sent) + 1 /\ Len(sent) \in Nat
  OBVIOUS
<1>2. \A i \in DOMAIN sent : i \in DOMAIN sent' /\ sent'[i] = sent[i]
  OBVIOUS
<1>3. Len(sent) + 1 \in DOMAIN sent' /\ sent'[Len(sent) + 1] = f
  OBVIOUS
<1>4. QED
  BY <1>1, <1>2, <1>3 DEF Tried

(* Init.                                                                   *)
LEMMA DoneInit == Init => DoneInv
  BY DEF Init, NewPipe, DoneInv, DoneEnds, ScriptAfterSend, WokenBySender,
         BeforeScript, Writing, ScriptSteps, Bytes

(* A step that touches nothing the dequeuer waits for.                     *)
LEMMA DoneStutter == DoneInv /\ UNCHANGED doneVars => DoneInv'
  BY DEF DoneInv, DoneEnds, ScriptAfterSend, WokenBySender, FrontTried, Tried, doneVars

LEMMA DoneOthers ==
    ASSUME DoneInv,
           \/ Boot
           \/ \E e \in Events : MotionDetected(e) \/ EventScript(e)
           \/ Camera
    PROVE  DoneInv'
<1>1. UNCHANGED doneVars
  BY DEF Boot, MotionDetected, EventScript, Camera, CameraOpen, CameraRead, CameraClose,
     CameraFrame, doneVars, dequeuerVars, senderVars
<1>2. QED
  BY <1>1, DoneStutter

(* sendimage up to its script.                                             *)
LEMMA DoneSender ==
    ASSUME HandInv, DoneInv, ReadImage \/ SendImage
    PROVE  DoneInv'
<1> USE DEF BeforeScript, Writing, ScriptSteps, SenderFrame, SenderEnds, dequeuerVars
<1>1. CASE ReadImage
  BY <1>1 DEF ReadImage, DoneInv, DoneEnds, ScriptAfterSend, WokenBySender, FrontTried, Tried
<1>2. CASE SendImage /\ sender' = "none"
  BY <1>2 DEF SendImage, DoneInv, DoneEnds, ScriptAfterSend, WokenBySender, FrontTried, Tried
<1>3. CASE SendImage /\ sender' # "none"
  <2>1. /\ sender = "send" /\ sender' = "open1"
        /\ \/ sent' = Append(sent, file) /\ unsent' = unsent
           \/ sent' = sent /\ unsent' = unsent \cup {file}
        /\ UNCHANGED <<file, donePipe, dequeuer, queue, doneByte>>
    BY <1>3 DEF SendImage
  <2>2. file \in Listed
    BY <2>1 DEF HandInv, FrontIsInHand, QueueTyped
  <2>3. /\ sent' \in Seq(Listed) /\ unsent' \subseteq Listed
        /\ \A e : Tried(e) => Tried(e)'
        /\ Tried(file)'
    <3>1. CASE sent' = Append(sent, file) /\ unsent' = unsent
      <4>1. sent \in Seq(Listed) /\ unsent' \subseteq Listed
        BY <3>1 DEF DoneInv, ScriptAfterSend
      <4>2. /\ sent' \in Seq(Listed)
            /\ \A e : Tried(e) => Tried(e)'
            /\ Tried(file)'
        BY <2>1, <3>1, <2>2, <4>1, TriedGrows
      <4>3. QED
        BY <4>1, <4>2
    <3>2. CASE sent' = sent /\ unsent' = unsent \cup {file}
      BY <3>2, <2>1, <2>2 DEF DoneInv, ScriptAfterSend, Tried
    <3>3. QED
      BY <2>1, <3>1, <3>2
  <2>4. FrontTried => FrontTried'
    BY <2>1, <2>3 DEF FrontTried
  <2>5. ScriptAfterSend'
    BY <2>1, <2>3 DEF ScriptAfterSend
  <2>6. DoneEnds'
    BY <2>1 DEF DoneInv, DoneEnds
  <2>7. WokenBySender'
    BY <2>1, <2>4 DEF DoneInv, WokenBySender
  <2>8. QED
    BY <2>5, <2>6, <2>7 DEF DoneInv
<1>4. QED
  BY <1>1, <1>2, <1>3 DEF SendImage

(* The script: opening wakes the dequeuer, the first write is the \x01 it  *)
(* will read, and closing leaves the pipe to whoever still holds it.       *)
LEMMA DoneScripted ==
    ASSUME HandInv, DoneInv, DoneScript
    PROVE  DoneInv'
<1> USE DEF BeforeScript, Writing, ScriptSteps
<1>1. PICK to \in ScriptSteps :
        /\ Script(donePipe, donePipe', "sender", sender, to)
        /\ \/ to = "exit" /\ sender' = "none"
           \/ to # "exit" /\ sender' = to /\ UNCHANGED file
  BY DEF DoneScript, SenderEnds
<1>2. UNCHANGED <<sent, unsent, dequeuer, queue, doneByte>>
  BY DEF DoneScript, SenderFrame, dequeuerVars
<1>3. FrontTried' <=> FrontTried
  BY <1>2 DEF FrontTried, Tried
<1>4. sender \in ScriptSteps /\ sender # "exit"
  BY <1>1 DEF Script
<1>5. FrontTried
  <2>1. Tried(file)
    BY <1>4 DEF DoneInv, ScriptAfterSend
  <2>2. queue # <<>> /\ file = Head(queue)
    BY <1>4 DEF HandInv, FrontIsInHand
  <2>3. QED
    BY <2>1, <2>2 DEF FrontTried
<1>6. ScriptAfterSend'
  BY <1>1, <1>2, <1>4 DEF DoneInv, ScriptAfterSend, Tried
<1>7. CASE donePipe' = OpenToWrite(donePipe, "sender") /\ sender \in {"open1", "open2"}
            /\ sender' \in {"write1", "write2"} /\ (sender = "open1" => sender' = "write1")
  <2>1. /\ donePipe'.readers = donePipe.readers /\ donePipe'.data = donePipe.data
        /\ donePipe'.writers = donePipe.writers \cup {"sender"}
        /\ donePipe'.asleep \subseteq {"dequeuer", "sender"}
        /\ donePipe'.asleep = IF donePipe.readers = {} THEN donePipe.asleep \cup {"sender"}
                              ELSE donePipe.asleep \ donePipe.readers
    BY <1>7 DEF DoneInv, DoneEnds, OpenToWrite
  <2>2. donePipe' \in [readers : SUBSET {"dequeuer"}, writers : SUBSET {"sender"},
                       asleep : SUBSET {"dequeuer", "sender"}, data : Seq(Bytes)]
    BY <1>7 DEF DoneInv, DoneEnds, OpenToWrite
  <2>3. DoneEnds'
    BY <1>2, <1>7, <2>1, <2>2 DEF DoneInv, DoneEnds
  <2>4. WokenBySender'
    BY <1>2, <1>3, <1>5, <1>7, <2>1 DEF DoneInv, DoneEnds, WokenBySender
  <2>5. QED
    BY <1>6, <2>3, <2>4 DEF DoneInv
<1>8. CASE /\ sender \in {"write1", "write2"} /\ donePipe.readers # {}
           /\ sender' \in {"close1", "close2"}
           /\ \E b \in {Motion, Settle} :
                /\ sender = "write1" => b = Motion
                /\ donePipe' = Put(donePipe, <<b, Newline>>)
  <2>1. PICK b \in {Motion, Settle} :
          /\ sender = "write1" => b = Motion
          /\ donePipe' = Put(donePipe, <<b, Newline>>)
    BY <1>8
  <2>2. donePipe.data \in Seq(Bytes)
    BY DEF DoneInv, DoneEnds
  <2>3. /\ donePipe'.readers = donePipe.readers /\ donePipe'.writers = donePipe.writers
        /\ donePipe'.asleep = donePipe.asleep
        /\ donePipe'.data = donePipe.data \o <<b, Newline>>
    BY <2>1 DEF DoneInv, DoneEnds, Put
  <2> HIDE DEF BeforeScript, Writing, ScriptSteps
  <2>a. b \in Bytes /\ Newline \in Bytes
    BY <2>1 DEF Bytes
  <2>4. /\ donePipe'.data \in Seq(Bytes) /\ donePipe'.data # <<>>
        /\ donePipe.data # <<>> => Head(donePipe'.data) = Head(donePipe.data)
        /\ donePipe.data = <<>> => Head(donePipe'.data) = b
    <3> DEFINE d == donePipe.data
    <3>1. /\ d \o <<b, Newline>> \in Seq(Bytes) /\ d \o <<b, Newline>> # <<>>
          /\ d # <<>> => Head(d \o <<b, Newline>>) = Head(d)
          /\ d = <<>> => Head(d \o <<b, Newline>>) = b
      <4> HIDE DEF d
      <4>1. d \in Seq(Bytes)
        BY <2>2 DEF d
      <4>2. QED
        BY <4>1, <2>a, PutKeepsFirst
    <3>2. QED
      BY <3>1, <2>3
  <2>5. donePipe' \in [readers : SUBSET {"dequeuer"}, writers : SUBSET {"sender"},
                       asleep : SUBSET {"dequeuer", "sender"}, data : Seq(Bytes)]
    BY <2>1, <2>3, <2>4 DEF DoneInv, DoneEnds, Put
  <2>6. DoneEnds'
    BY <1>2, <1>8, <2>3, <2>4, <2>5 DEF DoneInv, DoneEnds, Writing
  <2>7. dequeuer \in {"read", "close"} /\ "dequeuer" \notin donePipe.asleep
    BY <1>8 DEF DoneInv, DoneEnds, WokenBySender, BeforeScript
  <2>8. WokenBySender'
    BY <1>2, <1>3, <1>8, <2>1, <2>3, <2>4, <2>7 DEF DoneInv, WokenBySender, BeforeScript
  <2>9. QED
    BY <1>6, <2>6, <2>8 DEF DoneInv
<1>9. CASE /\ donePipe' = CloseEnd(donePipe, "sender")
           /\ sender' \in {"none", "open2"} /\ sender \in Writing
           /\ sender' = "open2" => sender = "close1"
           /\ sender = "write1" => donePipe.readers = {}
  <2>1. /\ donePipe'.readers = donePipe.readers /\ donePipe'.writers = {}
        /\ donePipe'.asleep = donePipe.asleep
        /\ donePipe'.data = IF donePipe.readers = {} THEN <<>> ELSE donePipe.data
    BY <1>9, Closing DEF DoneInv, DoneEnds
  <2>2. donePipe' \in [readers : SUBSET {"dequeuer"}, writers : SUBSET {"sender"},
                       asleep : SUBSET {"dequeuer", "sender"}, data : Seq(Bytes)]
    BY <1>9, Closing DEF DoneInv
  <2>3. DoneEnds'
    BY <1>2, <1>9, <2>1, <2>2 DEF DoneInv, DoneEnds
  <2>4. WokenBySender'
    BY <1>2, <1>3, <1>9, <2>1 DEF DoneInv, DoneEnds, WokenBySender
  <2>5. QED
    BY <1>6, <2>3, <2>4 DEF DoneInv
<1>10. QED
  BY <1>1, <1>7, <1>8, <1>9 DEF Script

(* MotionHandlerThread: a new sendimage only on an empty queue, when the   *)
(* dequeuer sleeps or has not opened the pipe.                             *)
LEMMA DoneGrabber ==
    ASSUME HandInv, DoneInv, Grabber
    PROVE  DoneInv'
<1> USE DEF GrabberFrame, dequeuerVars, senderVars
<1>1. CASE AwaitMotion \/ ListImages \/ GrabberUnlock
  BY <1>1, DoneStutter DEF AwaitMotion, ListImages, GrabberUnlock, doneVars
<1>2. CASE PushImage
  <2>1. /\ queue' = Append(queue, grabbed)
        /\ UNCHANGED <<donePipe, dequeuer, doneByte, sent, unsent>>
        /\ \/ queue = <<>> /\ sender = "none" /\ sender' = "read"
           \/ queue # <<>> /\ UNCHANGED <<sender, file>>
    BY <1>2 DEF PushImage, StartSender
  <2>2. queue # <<>> => queue' # <<>> /\ Head(queue') = Head(queue)
    BY <2>1, AppendKeepsFront DEF HandInv, QueueTyped
  <2>3. FrontTried => queue # <<>> /\ FrontTried'
    BY <2>1, <2>2 DEF FrontTried, Tried
  <2>4. ScriptAfterSend'
    BY <2>1 DEF DoneInv, ScriptAfterSend, Tried, ScriptSteps
  <2>5. DoneEnds'
    BY <2>1 DEF DoneInv, DoneEnds, Writing
  <2>6. WokenBySender'
    BY <2>1, <2>3 DEF DoneInv, WokenBySender, BeforeScript
  <2>7. QED
    BY <2>4, <2>5, <2>6 DEF DoneInv
<1>3. QED
  BY <1>1, <1>2 DEF Grabber

(* DequeueImagesThread.                                                    *)
LEMMA DoneDequeuer ==
    ASSUME HandInv, DoneInv, Dequeuer
    PROVE  DoneInv'
<1> DEFINE Pipes == [readers : SUBSET {"dequeuer"}, writers : SUBSET {"sender"},
                     asleep : SUBSET {"dequeuer", "sender"}, data : Seq(Bytes)]
<1> USE DEF DequeuerFrame, grabberVars, senderVars
<1>1. CASE DequeuerOpen /\ booted
  <2>1. /\ dequeuer = "open" /\ dequeuer' = "read"
        /\ donePipe' = OpenToRead(donePipe, "dequeuer")
        /\ UNCHANGED <<sender, file, sent, unsent, queue, doneByte>>
    BY <1>1 DEF DequeuerOpen
  <2>2. /\ donePipe'.readers = donePipe.readers \cup {"dequeuer"}
        /\ donePipe'.writers = donePipe.writers /\ donePipe'.data = donePipe.data
        /\ donePipe'.asleep = IF donePipe.writers = {} THEN donePipe.asleep \cup {"dequeuer"}
                              ELSE donePipe.asleep \ donePipe.writers
        /\ donePipe' \in Pipes
    BY <2>1 DEF DoneInv, DoneEnds, OpenToRead
  <2>3. /\ sender \in BeforeScript \cup {"write1"} /\ donePipe.data = <<>>
        /\ "dequeuer" \notin donePipe.asleep
    BY <2>1 DEF DoneInv, WokenBySender
  <2>4. DoneEnds'
    BY <2>1, <2>2 DEF DoneInv, DoneEnds
  <2>5. ScriptAfterSend'
    BY <2>1 DEF DoneInv, ScriptAfterSend, Tried
  <2>6. CASE donePipe.writers = {}
    <3>1. sender \in BeforeScript
      BY <2>3, <2>6 DEF DoneInv, DoneEnds, Writing
    <3>2. WokenBySender'
      BY <2>1, <2>2, <2>3, <2>6, <3>1 DEF WokenBySender
    <3>3. QED
      BY <2>4, <2>5, <3>2 DEF DoneInv
  <2>7. CASE donePipe.writers # {}
    <3>1. sender = "write1"
      BY <2>3, <2>7 DEF DoneInv, DoneEnds, Writing, BeforeScript
    <3>2. FrontTried
      BY <3>1 DEF HandInv, FrontIsInHand, DoneInv, ScriptAfterSend, ScriptSteps, FrontTried
    <3>3. FrontTried'
      BY <2>1, <3>2 DEF FrontTried, Tried
    <3>4. WokenBySender'
      BY <2>1, <2>2, <2>3, <2>7, <3>1, <3>3 DEF WokenBySender
    <3>5. QED
      BY <2>4, <2>5, <3>4 DEF DoneInv
  <2>8. QED
    BY <2>6, <2>7
<1>2. CASE DequeuerOpen /\ ~booted
  <2>1. /\ dequeuer = "open" /\ dequeuer' \in {"ended", "lost"}
        /\ UNCHANGED <<donePipe, sender, file, sent, unsent, queue, doneByte>>
    BY <1>2 DEF DequeuerOpen
  <2>2. QED
    BY <2>1 DEF DoneInv, DoneEnds, ScriptAfterSend, WokenBySender, Tried
<1>3. CASE DequeuerRead
  <2>1. /\ dequeuer = "read" /\ dequeuer' = "close"
        /\ ReadByte(donePipe, donePipe', "dequeuer", doneByte, doneByte')
        /\ UNCHANGED <<sender, file, sent, unsent, queue>>
    BY <1>3 DEF DequeuerRead
  <2>2. /\ "dequeuer" \notin donePipe.asleep /\ FrontTried
        /\ \/ donePipe.data # <<>> /\ Head(donePipe.data) = Motion
           \/ donePipe.data = <<>> /\ sender = "write1"
    BY <2>1 DEF DoneInv, WokenBySender, ReadByte
  <2>3. /\ donePipe.data # <<>> /\ doneByte' = Motion
        /\ donePipe' = [donePipe EXCEPT !.data = Tail(@)]
    BY <2>1, <2>2 DEF DoneInv, DoneEnds, ReadByte, Writing
  <2>4. /\ donePipe'.readers = donePipe.readers /\ donePipe'.writers = donePipe.writers
        /\ donePipe'.asleep = donePipe.asleep /\ donePipe' \in Pipes
    <3>1. donePipe.data \in Seq(Bytes)
      BY DEF DoneInv, DoneEnds
    <3>2. Tail(donePipe.data) \in Seq(Bytes)
      BY <2>3, <3>1
    <3>3. QED
      BY <2>3, <3>2 DEF DoneInv, DoneEnds
  <2>5. "dequeuer" \in donePipe.readers
    BY <2>1 DEF DoneInv, DoneEnds
  <2>6. DoneEnds'
    BY <2>1, <2>4, <2>5 DEF DoneInv, DoneEnds
  <2>7. ScriptAfterSend'
    BY <2>1 DEF DoneInv, ScriptAfterSend, Tried
  <2>8. FrontTried'
    BY <2>1, <2>2 DEF FrontTried, Tried
  <2>9. WokenBySender'
    BY <2>1, <2>2, <2>3, <2>4, <2>8 DEF WokenBySender
  <2>10. QED
    BY <2>6, <2>7, <2>9 DEF DoneInv
<1>4. CASE DequeuerClose
  <2>1. FrontTried /\ doneByte = Motion
    BY <1>4 DEF DequeuerClose, DoneInv, WokenBySender
  <2>2. /\ dequeuer = "close" /\ dequeuer' = "delete"
        /\ donePipe' = CloseEnd(donePipe, "dequeuer")
        /\ UNCHANGED <<sender, file, sent, unsent, queue, doneByte>>
    BY <1>4, <2>1 DEF DequeuerClose, FrontTried
  <2>3. /\ donePipe'.readers = {} /\ donePipe'.writers = donePipe.writers
        /\ donePipe'.asleep = donePipe.asleep
        /\ donePipe'.data = IF donePipe.writers = {} THEN <<>> ELSE donePipe.data
        /\ donePipe' \in Pipes
    BY <2>2, Closing DEF DoneInv, DoneEnds
  <2>4. DoneEnds'
    BY <2>2, <2>3 DEF DoneInv, DoneEnds
  <2>5. ScriptAfterSend'
    BY <2>2 DEF DoneInv, ScriptAfterSend, Tried
  <2>6. FrontTried'
    BY <2>1, <2>2 DEF FrontTried, Tried
  <2>7. "dequeuer" \notin donePipe.asleep
    BY <2>2 DEF DoneInv, WokenBySender
  <2>8. WokenBySender'
    BY <2>2, <2>3, <2>6, <2>7 DEF WokenBySender
  <2>9. QED
    BY <2>4, <2>5, <2>8 DEF DoneInv
<1>5. CASE DeleteImage
  BY <1>5 DEF DeleteImage, DoneInv, DoneEnds, ScriptAfterSend, WokenBySender, FrontTried, Tried
<1>6. CASE PopImage
  <2>1. /\ dequeuer = "lock" /\ dequeuer' \in {"system", "unlock"}
        /\ UNCHANGED <<donePipe, sent, unsent, doneByte>>
        /\ \/ sender = "none" /\ sender' = "read"
           \/ UNCHANGED <<sender, file>>
    BY <1>6 DEF PopImage, StartSender
  <2>2. QED
    BY <2>1 DEF DoneInv, DoneEnds, ScriptAfterSend, WokenBySender, Tried, ScriptSteps, Writing
<1>7. CASE DequeuerUnlock
  <2>1. /\ dequeuer \in {"system", "unlock"} /\ dequeuer' = "open"
        /\ UNCHANGED <<donePipe, sender, file, sent, unsent, queue, doneByte>>
    BY <1>7 DEF DequeuerUnlock
  <2>2. sender = "none"
    BY <1>7 DEF DequeuerUnlock, HandInv, LockHeld, SenderHasCaller
  <2>3. donePipe.data = <<>>
    BY <2>1, <2>2 DEF DoneInv, DoneEnds, Writing
  <2>4. "dequeuer" \notin donePipe.asleep
    BY <2>1 DEF DoneInv, WokenBySender
  <2>5. QED
    BY <2>1, <2>2, <2>3, <2>4
       DEF DoneInv, DoneEnds, ScriptAfterSend, WokenBySender, Tried, BeforeScript
<1>8. QED
  BY <1>1, <1>2, <1>3, <1>4, <1>5, <1>6, <1>7 DEF Dequeuer

LEMMA DoneStep == HandInv /\ DoneInv /\ [Next]_vars => DoneInv'
<1> SUFFICES ASSUME HandInv, DoneInv, [Next]_vars PROVE DoneInv'
  OBVIOUS
<1>1. CASE UNCHANGED vars
  BY <1>1, DoneStutter DEF vars, doneVars, dequeuerVars, senderVars
<1>2. CASE Next
  BY <1>2, DoneOthers, DoneSender, DoneScripted, DoneGrabber, DoneDequeuer DEF Next, Sender
<1>3. QED
  BY <1>1, <1>2

(* The files of an image go only after the sendimage started with it has    *)
(* sent it, or failed to, although processing_done starts uninitialised and *)
(* keeps its value at an end of file (image_handler.cpp:94-113).            *)
THEOREM TriedBeforeDeleted == Spec => DeletedAfterTried
<1> DEFINE Safe == \A e \in images \ images' : Tried(e)
<1>1. HandInv /\ DoneInv /\ [Next]_vars => [Safe]_vars
  <2> SUFFICES ASSUME HandInv, DoneInv, [Next]_vars, vars' # vars, NEW e \in images \ images'
               PROVE  Tried(e)
    OBVIOUS
  <2>1. DeleteImage
    BY DEF Next, Boot, MotionDetected, EventScript, Camera, CameraOpen, CameraRead,
       CameraClose, CameraFrame, Sender, ReadImage, SendImage, DoneScript, SenderFrame,
       Grabber, AwaitMotion, ListImages, PushImage, GrabberUnlock, GrabberFrame,
       Dequeuer, DequeuerOpen, DequeuerRead, DequeuerClose, PopImage, DequeuerUnlock,
       motionVars
  <2>2. e = Head(queue) /\ FrontTried
    BY <2>1 DEF DeleteImage, DoneInv, WokenBySender
  <2>3. QED
    BY <2>2 DEF FrontTried
<1>2. QED
  BY <1>1, HandInit, DoneInit, HandStep, DoneStep, PTL DEF Spec, DeletedAfterTried
------------------------------------------------------------------------------
(* CameraThread posts no motion that no script wrote.                      *)

Opened == {"write1", "close1", "write2", "close2"}
Marks(s) == {i \in DOMAIN s : s[i] = Motion}
Motions(s) == Cardinality(Marks(s))

(* echo ends with a newline: no \x01 is the last byte.                     *)
NewlineFollows(s) == \A i \in Marks(s) : i + 1 \in DOMAIN s

(* The events whose script has written its \x01, or ended.                 *)
Written == {e \in Events : script[e] \notin {"none", "open1", "write1"}}

(* Who holds an end of image_ready_pipe.                                   *)
EventEnds ==
    /\ eventPipe \in [readers : SUBSET {CameraEnd}, writers : SUBSET Events,
                      asleep : SUBSET ({CameraEnd} \cup Events), data : Seq(Bytes)]
    /\ script \in [Events -> ScriptSteps \cup {"none"}]
    /\ motionFound \in Bytes /\ posts \in Nat
    /\ CameraEnd \in eventPipe.readers <=> camera # "open"
    /\ \A e \in Events : e \in eventPipe.writers <=> script[e] \in Opened

(* While motion_found is \x01, the newline behind it, or what a script is  *)
(* about to write, is still to be read: no end of file leaves it alone.    *)
NewlineIsNext ==
    motionFound = Motion =>
        /\ \/ eventPipe.data # <<>>
           \/ \A e \in eventPipe.writers : script[e] \in {"write1", "write2"}
        /\ camera = "read" /\ CameraEnd \notin eventPipe.asleep =>
               eventPipe.data # <<>> \/ eventPipe.writers # {}

AboutToPost == camera = "close" /\ motionFound = Motion

(* Each post, and each \x01 that is to be one, has its event.              *)
PostsCounted ==
    posts + Motions(eventPipe.data) + (IF AboutToPost THEN 1 ELSE 0) <= Cardinality(Written)

PostInv ==
    /\ EventEnds
    /\ NewlineFollows(eventPipe.data)
    /\ NewlineIsNext
    /\ PostsCounted

postVars == <<eventPipe, script, motionFound, posts, camera>>

LEMMA MotionsOfEmpty == Motions(<<>>) = 0 /\ NewlineFollows(<<>>)
<1>1. Marks(<<>>) = {}
  BY DEF Marks
<1>2. QED
  BY <1>1, FS_EmptySet DEF Motions, NewlineFollows

LEMMA MotionsAreNat ==
    ASSUME NEW s \in Seq(Bytes)
    PROVE  IsFiniteSet(Marks(s)) /\ Motions(s) \in Nat /\ Marks(s) \subseteq 1 .. Len(s)
<1>1. Marks(s) \subseteq 1 .. Len(s) /\ Len(s) \in Nat
  BY DEF Marks
<1>2. IsFiniteSet(1 .. Len(s))
  BY <1>1, FS_Interval
<1>3. IsFiniteSet(Marks(s))
  BY <1>1, <1>2, FS_Subset
<1>4. QED
  BY <1>1, <1>3, FS_CardinalityType DEF Motions

(* One byte is read.                                                       *)
LEMMA ReadingOne ==
    ASSUME NEW s \in Seq(Bytes), s # <<>>, NewlineFollows(s)
    PROVE  /\ Tail(s) \in Seq(Bytes) /\ Head(s) \in Bytes
           /\ NewlineFollows(Tail(s))
           /\ Head(s) = Motion => Tail(s) # <<>>
           /\ Motions(s) = Motions(Tail(s)) + IF Head(s) = Motion THEN 1 ELSE 0
<1> DEFINE t == Tail(s)
           n == Len(s)
<1>1. /\ n \in Nat /\ n > 0 /\ t \in Seq(Bytes) /\ Len(t) = n - 1
      /\ DOMAIN s = 1 .. n /\ DOMAIN t = 1 .. n - 1 /\ Head(s) = s[1] /\ Head(s) \in Bytes
      /\ \A i \in 1 .. n - 1 : t[i] = s[i + 1]
  BY EmptySeq, HeadTailProperties
<1> HIDE DEF t, n
<1>2. \A i \in 1 .. n - 1 : i \in Nat /\ i + 1 \in 1 .. n
  BY <1>1
<1>3. \A i \in 1 .. n : i = 1 \/ (i - 1 \in 1 .. n - 1 /\ i = (i - 1) + 1)
  BY <1>1
<1>4. \A i \in Marks(t) : i \in 1 .. n - 1 /\ i + 1 \in Marks(s)
  BY <1>1, <1>2 DEF Marks
<1>5. \A i \in Marks(s) : i = 1 \/ (i - 1 \in Marks(t) /\ i = (i - 1) + 1)
  BY <1>1, <1>3 DEF Marks
<1>6. NewlineFollows(t)
  <2> SUFFICES ASSUME NEW i \in Marks(t) PROVE i + 1 \in DOMAIN t
    BY DEF NewlineFollows
  <2>1. i \in 1 .. n - 1 /\ (i + 1) + 1 \in 1 .. n
    BY <1>1, <1>4 DEF NewlineFollows
  <2>2. QED
    BY <1>1, <2>1
<1>7. Head(s) = Motion => t # <<>>
  <2> SUFFICES ASSUME Head(s) = Motion PROVE t # <<>>
    OBVIOUS
  <2>1. 1 \in 1 .. n /\ s[1] = Motion
    BY <1>1
  <2>2. 1 + 1 \in 1 .. n
    BY <1>1, <2>1 DEF NewlineFollows, Marks
  <2>3. Len(t) > 0
    BY <1>1, <2>2
  <2>4. QED
    BY <2>3
<1>8. IsFiniteSet(Marks(t)) /\ Cardinality(Marks(t)) \in Nat
  BY <1>1, MotionsAreNat DEF Motions
<1> DEFINE Moved == {i + 1 : i \in Marks(t)}
           f == [i \in Marks(t) |-> i + 1]
<1>9. IsFiniteSet(Moved) /\ Cardinality(Moved) = Cardinality(Marks(t)) /\ 1 \notin Moved
  <2>1. \A i, j \in Marks(t) : i + 1 = j + 1 => i = j
    BY <1>2, <1>4
  <2>2. f \in Bijection(Marks(t), Moved)
    <3>1. f \in [Marks(t) -> Moved]
      OBVIOUS
    <3>2. \A i, j \in Marks(t) : f[i] = f[j] => i = j
      BY <2>1
    <3>3. \A j \in Moved : \E i \in Marks(t) : f[i] = j
      OBVIOUS
    <3> HIDE DEF f, Moved
    <3>4. QED
      BY <3>1, <3>2, <3>3 DEF Bijection, Injection, Surjection, IsInjective
  <2>3. ExistsBijection(Marks(t), Moved)
    BY <2>2 DEF ExistsBijection
  <2>4. 1 \notin Moved
    BY <1>2, <1>4
  <2> HIDE DEF Moved
  <2>5. QED
    BY <2>3, <2>4, <1>8, FS_Bijection
<1>10. Marks(s) = IF Head(s) = Motion THEN Moved \cup {1} ELSE Moved
  <2>1. Moved \subseteq Marks(s)
    BY <1>4
  <2>2. Marks(s) \subseteq Moved \cup {1}
    BY <1>5
  <2>3. 1 \in Marks(s) <=> Head(s) = Motion
    BY <1>1 DEF Marks
  <2> HIDE DEF Moved
  <2>4. CASE Head(s) = Motion
    BY <2>1, <2>2, <2>3, <2>4, Zenon
  <2>5. CASE Head(s) # Motion
    <3>1. \A i \in Marks(s) : i \in Moved
      BY <2>2, <2>3, <2>5
    <3>2. Marks(s) = Moved
      BY <2>1, <3>1
    <3>3. QED
      BY <2>5, <3>2
  <2>6. QED
    BY <2>4, <2>5
<1> HIDE DEF Moved
<1>11. Motions(s) = Motions(t) + IF Head(s) = Motion THEN 1 ELSE 0
  <2>1. Cardinality(Moved \cup {1}) = Cardinality(Moved) + 1
    BY <1>9, FS_AddElement
  <2>2. QED
    BY <1>8, <1>9, <1>10, <2>1 DEF Motions
<1>12. QED
  BY <1>1, <1>6, <1>7, <1>11 DEF t

(* One echo is written.                                                    *)
LEMMA WritingTwo ==
    ASSUME NEW s \in Seq(Bytes), NewlineFollows(s), NEW a \in Bytes
    PROVE  /\ s \o <<a, Newline>> \in Seq(Bytes)
           /\ s \o <<a, Newline>> # <<>>
           /\ NewlineFollows(s \o <<a, Newline>>)
           /\ Motions(s \o <<a, Newline>>) = Motions(s) + IF a = Motion THEN 1 ELSE 0
<1> DEFINE two == <<a, Newline>>
           t == s \o two
           n == Len(s)
<1>1. two \in Seq(Bytes) /\ Len(two) = 2 /\ two[1] = a /\ two[2] = Newline
  BY DEF Bytes
<1> HIDE DEF two
<1>2. /\ t \in Seq(Bytes) /\ n \in Nat /\ DOMAIN t = 1 .. n + 2 /\ DOMAIN s = 1 .. n
      /\ \A i \in 1 .. n + 2 : t[i] = IF i <= n THEN s[i] ELSE two[i - n]
      /\ Len(t) = n + 2
  <2>1. /\ s \o two \in Seq(Bytes) /\ Len(s \o two) = Len(s) + Len(two)
        /\ \A i \in 1..Len(s) + Len(two) : (s \o two)[i] = IF i <= Len(s) THEN s[i] ELSE two[i - Len(s)]
    BY <1>1, ConcatProperties, Zenon
  <2>2. QED
    BY <1>1, <2>1
<1>3. (n + 1) - n = 1 /\ (n + 2) - n = 2
  BY <1>2
<1>4. t[n + 1] = a /\ t[n + 2] = Newline /\ \A i \in 1 .. n : t[i] = s[i]
  <2>1. /\ n + 1 \in 1 .. n + 2 /\ n + 2 \in 1 .. n + 2 /\ ~(n + 1 <= n) /\ ~(n + 2 <= n)
        /\ \A i \in 1 .. n : i \in 1 .. n + 2 /\ i <= n
    BY <1>2
  <2> HIDE DEF t, n
  <2>2. QED
    BY <1>1, <1>2, <1>3, <2>1
<1> HIDE DEF t, n
<1>5. Newline # Motion
  BY DEF Newline, Motion
<1>6. \A i \in 1 .. n + 2 : i \in 1 .. n \/ i = n + 1 \/ i = n + 2
  BY <1>2
<1>7. Marks(t) = IF a = Motion THEN Marks(s) \cup {n + 1} ELSE Marks(s)
  <2>1. n + 1 \in 1 .. n + 2 /\ \A i \in 1 .. n : i \in 1 .. n + 2
    BY <1>2
  <2>2. QED
    BY <1>2, <1>4, <1>5, <1>6, <2>1 DEF Marks
<1>8. n + 1 \notin Marks(s) /\ IsFiniteSet(Marks(s)) /\ Cardinality(Marks(s)) \in Nat
  <2>1. IsFiniteSet(Marks(s)) /\ Cardinality(Marks(s)) \in Nat
    BY MotionsAreNat DEF Motions
  <2>2. Marks(s) \subseteq 1 .. n /\ n + 1 \notin 1 .. n
    BY <1>2 DEF Marks
  <2>3. QED
    BY <2>1, <2>2
<1>9. Motions(t) = Motions(s) + IF a = Motion THEN 1 ELSE 0
  <2>1. Cardinality(Marks(s) \cup {n + 1}) = Cardinality(Marks(s)) + 1
    BY <1>8, FS_AddElement
  <2>2. QED
    BY <1>7, <1>8, <2>1 DEF Motions
<1>10. NewlineFollows(t)
  <2> SUFFICES ASSUME NEW i \in Marks(t) PROVE i + 1 \in 1 .. n + 2
    BY <1>2 DEF NewlineFollows
  <2>1. i \in Marks(s) \/ i = n + 1
    BY <1>7
  <2>2. i \in Marks(s) => i + 1 \in 1 .. n
    BY <1>2 DEF NewlineFollows
  <2>3. QED
    BY <1>2, <2>1, <2>2
<1>11. t # <<>>
  BY <1>2
<1>12. QED
  BY <1>2, <1>9, <1>10, <1>11 DEF t, two

(* Init.                                                                   *)
LEMMA PostInit == Init => PostInv
<1> SUFFICES ASSUME Init PROVE PostInv
  OBVIOUS
<1>1. /\ eventPipe = NewPipe /\ posts = 0 /\ camera = "open" /\ motionFound \in Bytes
      /\ script = [e \in Events |-> "none"]
  BY DEF Init, Bytes
<1>2. /\ eventPipe.readers = {} /\ eventPipe.writers = {} /\ eventPipe.data = <<>>
      /\ eventPipe \in [readers : SUBSET {CameraEnd}, writers : SUBSET Events,
                        asleep : SUBSET ({CameraEnd} \cup Events), data : Seq(Bytes)]
  BY <1>1 DEF NewPipe
<1>3. EventEnds
  BY <1>1, <1>2 DEF EventEnds, Opened
<1>4. NewlineIsNext
  BY <1>1, <1>2 DEF NewlineIsNext
<1>5. PostsCounted
  <2>1. Written \subseteq 1 .. MaxEvents /\ IsFiniteSet(1 .. MaxEvents)
    BY HandlerAssumption, FS_Interval DEF Written, Events
  <2>2. Cardinality(Written) \in Nat
    BY <2>1, FS_Subset, FS_CardinalityType
  <2>3. QED
    BY <1>1, <1>2, <2>2, MotionsOfEmpty DEF PostsCounted, AboutToPost
<1>6. QED
  BY <1>2, <1>3, <1>4, <1>5, MotionsOfEmpty DEF PostInv

LEMMA PostStutter == PostInv /\ UNCHANGED postVars => PostInv'
<1> SUFFICES ASSUME PostInv, UNCHANGED postVars PROVE PostInv'
  OBVIOUS
<1>1. eventPipe' = eventPipe /\ script' = script /\ motionFound' = motionFound /\ posts' = posts /\ camera' = camera
  BY DEF postVars
<1>2. QED
  BY <1>1 DEF PostInv, EventEnds, NewlineIsNext, PostsCounted, AboutToPost, Written

(* The written events grow by those whose script goes on.                  *)
LEMMA WrittenGrows ==
    ASSUME script \in [Events -> ScriptSteps \cup {"none"}], NEW e \in Events,
           NEW to \in ScriptSteps \cup {"none"}, script' = [script EXCEPT ![e] = to]
    PROVE  /\ Cardinality(Written) \in Nat /\ Cardinality(Written') \in Nat
           /\ e \notin Written \/ e \in Written' => Cardinality(Written) <= Cardinality(Written')
           /\ e \notin Written /\ e \in Written' => Cardinality(Written') = Cardinality(Written) + 1
<1>1. Written \subseteq 1 .. MaxEvents /\ Written' \subseteq 1 .. MaxEvents /\ IsFiniteSet(1 .. MaxEvents)
  BY HandlerAssumption, FS_Interval DEF Written, Events
<1>2. IsFiniteSet(Written) /\ IsFiniteSet(Written')
  BY <1>1, FS_Subset
<1>3. Cardinality(Written) \in Nat /\ Cardinality(Written') \in Nat
  BY <1>2, FS_CardinalityType
<1>4. \A d \in Events : d # e => (d \in Written' <=> d \in Written)
  BY DEF Written
<1>5. Written \subseteq Events /\ Written' \subseteq Events
  BY DEF Written
<1>6. ASSUME e \notin Written \/ e \in Written' PROVE Cardinality(Written) <= Cardinality(Written')
  <2>1. Written \subseteq Written'
    BY <1>4, <1>5, <1>6
  <2>2. QED
    BY <1>2, <2>1, FS_Subset
<1>7. ASSUME e \notin Written, e \in Written' PROVE Cardinality(Written') = Cardinality(Written) + 1
  <2>1. Written' = Written \cup {e}
    BY <1>4, <1>5, <1>7
  <2>2. QED
    BY <1>2, <1>7, <2>1, FS_AddElement
<1>8. QED
  BY <1>3, <1>6, <1>7

EventPipes == [readers : SUBSET {CameraEnd}, writers : SUBSET Events,
               asleep : SUBSET ({CameraEnd} \cup Events), data : Seq(Bytes)]

LEMMA CameraIsNoEvent == CameraEnd \notin Events
BY DEF CameraEnd, Events

(* Closing an end of image_ready_pipe.                                     *)
LEMMA ClosingEvent ==
    ASSUME eventPipe \in EventPipes, NEW x \in {CameraEnd} \cup Events,
           eventPipe' = CloseEnd(eventPipe, x)
    PROVE  /\ eventPipe'.readers = eventPipe.readers \ {x}
           /\ eventPipe'.writers = eventPipe.writers \ {x}
           /\ eventPipe'.asleep = eventPipe.asleep
           /\ eventPipe'.data = IF eventPipe'.readers = {} /\ eventPipe'.writers = {}
                                THEN <<>> ELSE eventPipe.data
           /\ eventPipe' \in EventPipes
<1> DEFINE q == [eventPipe EXCEPT !.readers = @ \ {x}, !.writers = @ \ {x}]
<1>1. /\ q \in EventPipes
      /\ q.readers = eventPipe.readers \ {x} /\ q.writers = eventPipe.writers \ {x}
      /\ q.asleep = eventPipe.asleep /\ q.data = eventPipe.data
  BY DEF EventPipes
<1>2. eventPipe' = IF q.readers = {} /\ q.writers = {} THEN [q EXCEPT !.data = <<>>] ELSE q
  BY DEF CloseEnd
<1> HIDE DEF q
<1>3. CASE q.readers = {} /\ q.writers = {}
  <2>1. <<>> \in Seq(Bytes)
    OBVIOUS
  <2>2. QED
    BY <1>1, <1>2, <1>3, <2>1 DEF EventPipes
<1>4. CASE ~(q.readers = {} /\ q.writers = {})
  BY <1>1, <1>2, <1>4
<1>5. QED
  BY <1>3, <1>4

(* The script of an event moves the event among the writers.               *)
LEMMA PostScripted ==
    ASSUME PostInv, NEW e \in Events, EventScript(e)
    PROVE  PostInv'
<1>1. PICK to \in ScriptSteps :
        Script(eventPipe, eventPipe', e, script[e], to) /\ script' = [script EXCEPT ![e] = to]
  BY DEF EventScript
<1>2. /\ eventPipe \in EventPipes /\ script \in [Events -> ScriptSteps \cup {"none"}]
      /\ motionFound \in Bytes /\ posts \in Nat
      /\ CameraEnd \in eventPipe.readers <=> camera # "open"
      /\ \A d \in Events : d \in eventPipe.writers <=> script[d] \in Opened
      /\ NewlineFollows(eventPipe.data) /\ eventPipe.data \in Seq(Bytes)
  BY DEF PostInv, EventEnds, EventPipes
<1>3. UNCHANGED <<motionFound, posts, camera>>
  BY DEF EventScript, cameraVars
<1>4. /\ script' \in [Events -> ScriptSteps \cup {"none"}] /\ script'[e] = to
      /\ \A d \in Events : d # e => script'[d] = script[d]
  BY <1>1, <1>2
<1>5. /\ Cardinality(Written) \in Nat /\ Cardinality(Written') \in Nat
      /\ e \notin Written \/ e \in Written' => Cardinality(Written) <= Cardinality(Written')
      /\ e \notin Written /\ e \in Written' => Cardinality(Written') = Cardinality(Written) + 1
  BY <1>1, <1>2, WrittenGrows
<1>6. Motions(eventPipe.data) \in Nat
  BY <1>2, MotionsAreNat
<1>7. CASE /\ script[e] \in {"open1", "open2"} /\ to \in {"write1", "write2"}
           /\ script[e] = "open1" => to = "write1"
           /\ script[e] = "open2" => to = "write2"
           /\ eventPipe' = OpenToWrite(eventPipe, e)
  <2>1. /\ eventPipe' \in EventPipes /\ eventPipe'.readers = eventPipe.readers
        /\ eventPipe'.writers = eventPipe.writers \cup {e} /\ eventPipe'.data = eventPipe.data
        /\ CameraEnd \in eventPipe'.asleep => eventPipe'.writers # {}
    BY <1>2, <1>7 DEF OpenToWrite, EventPipes
  <2>2. EventEnds'
    BY <1>2, <1>3, <1>4, <1>7, <2>1 DEF EventEnds, EventPipes, Opened
  <2>3. NewlineIsNext'
    <3>1. \A d \in eventPipe.writers : d \in Events
      BY <1>2 DEF EventPipes
    <3>2. \A d \in eventPipe'.writers : d = e \/ (d \in eventPipe.writers /\ script'[d] = script[d])
      BY <1>4, <2>1, <3>1
    <3>3. script'[e] \in {"write1", "write2"} /\ eventPipe'.writers # {}
      BY <1>4, <1>7, <2>1
    <3>4. QED
      BY <1>3, <2>1, <3>2, <3>3 DEF PostInv, NewlineIsNext
  <2>4. PostsCounted'
    <3>1. Cardinality(Written) <= Cardinality(Written')
      BY <1>4, <1>5, <1>7 DEF Written
    <3>2. AboutToPost' <=> AboutToPost
      BY <1>3 DEF AboutToPost
    <3>3. QED
      BY <1>2, <1>3, <1>5, <1>6, <2>1, <3>1, <3>2 DEF PostInv, PostsCounted
  <2>5. QED
    BY <1>2, <2>1, <2>2, <2>3, <2>4 DEF PostInv
<1>8. CASE \E byte \in {Motion, Settle} :
             /\ IF byte = Motion THEN script[e] = "write1" /\ to = "close1"
                                 ELSE script[e] = "write2" /\ to = "close2"
             /\ eventPipe' = Put(eventPipe, <<byte, Newline>>)
  <2>1. PICK byte \in {Motion, Settle} :
             /\ IF byte = Motion THEN script[e] = "write1" /\ to = "close1"
                                 ELSE script[e] = "write2" /\ to = "close2"
             /\ eventPipe' = Put(eventPipe, <<byte, Newline>>)
    BY <1>8
  <2> DEFINE new == eventPipe.data \o <<byte, Newline>>
  <2>2. /\ new \in Seq(Bytes) /\ new # <<>> /\ NewlineFollows(new)
        /\ Motions(new) = Motions(eventPipe.data) + IF byte = Motion THEN 1 ELSE 0
    BY <1>2, WritingTwo DEF Bytes
  <2>3. eventPipe' = [eventPipe EXCEPT !.data = new]
    BY <2>1 DEF Put
  <2> HIDE DEF new
  <2>4. /\ eventPipe' \in EventPipes /\ eventPipe'.readers = eventPipe.readers
        /\ eventPipe'.writers = eventPipe.writers /\ eventPipe'.data = new
    BY <1>2, <2>2, <2>3 DEF EventPipes
  <2>5. EventEnds'
    BY <1>2, <1>3, <1>4, <2>1, <2>4 DEF EventEnds, EventPipes, Opened
  <2>6. NewlineIsNext'
    BY <2>2, <2>4 DEF NewlineIsNext
  <2>7. PostsCounted'
    <3>1. Cardinality(Written') >= Cardinality(Written) + IF byte = Motion THEN 1 ELSE 0
      <4>1. CASE byte = Motion
        BY <1>4, <1>5, <2>1, <4>1 DEF Written
      <4>2. CASE byte # Motion
        BY <1>4, <1>5, <2>1, <4>2 DEF Written
      <4>3. QED
        BY <4>1, <4>2
    <3>2. AboutToPost' <=> AboutToPost
      BY <1>3 DEF AboutToPost
    <3>3. QED
      BY <1>2, <1>3, <1>5, <1>6, <2>2, <2>4, <3>1, <3>2 DEF PostInv, PostsCounted
  <2>8. QED
    BY <2>2, <2>4, <2>5, <2>6, <2>7 DEF PostInv
<1>9. CASE /\ eventPipe' = CloseEnd(eventPipe, e) /\ to \in {"open2", "exit"}
           /\ \/ script[e] \in {"write1", "write2"} /\ eventPipe.readers = {}
              \/ script[e] \in {"close1", "close2"}
  <2>1. /\ eventPipe' \in EventPipes /\ eventPipe'.readers = eventPipe.readers
        /\ eventPipe'.writers = eventPipe.writers \ {e}
        /\ eventPipe'.asleep = eventPipe.asleep
        /\ eventPipe'.data = IF eventPipe'.readers = {} /\ eventPipe'.writers = {}
                             THEN <<>> ELSE eventPipe.data
    <3>1. eventPipe'.readers = eventPipe.readers \ {e} /\ eventPipe.readers \subseteq {CameraEnd}
      BY <1>2, <1>9, ClosingEvent DEF EventPipes
    <3>2. eventPipe.readers \ {e} = eventPipe.readers
      BY <3>1, CameraIsNoEvent
    <3>3. QED
      BY <1>2, <1>9, <3>1, <3>2, ClosingEvent
  <2>2. EventEnds'
    BY <1>2, <1>3, <1>4, <1>9, <2>1 DEF EventEnds, EventPipes, Opened
  <2>3. NewlineIsNext'
    <3>1. \A d \in eventPipe'.writers : d \in Events /\ d # e /\ d \in eventPipe.writers /\ script'[d] = script[d]
      BY <1>2, <1>4, <2>1 DEF EventPipes
    <3>2. e \in eventPipe.writers
      BY <1>2, <1>9 DEF Opened
    <3>3. CASE eventPipe.readers = {}
      BY <1>2, <1>3, <2>1, <3>1, <3>3 DEF PostInv, NewlineIsNext
    <3>4. CASE eventPipe.readers # {} /\ script[e] \in {"close1", "close2"}
      BY <1>2, <1>3, <2>1, <3>1, <3>2, <3>4 DEF PostInv, NewlineIsNext
    <3>5. QED
      BY <1>9, <3>3, <3>4
  <2>4. NewlineFollows(eventPipe'.data) /\ Motions(eventPipe'.data) \in Nat
        /\ Motions(eventPipe'.data) <= Motions(eventPipe.data)
    BY <1>2, <1>6, <2>1, MotionsOfEmpty
  <2>5. PostsCounted'
    <3>1. Cardinality(Written) <= Cardinality(Written')
      BY <1>4, <1>5, <1>9 DEF Written
    <3>2. AboutToPost' <=> AboutToPost
      BY <1>3 DEF AboutToPost
    <3>3. QED
      BY <1>2, <1>3, <1>5, <1>6, <2>4, <3>1, <3>2 DEF PostInv, PostsCounted
  <2>6. QED
    BY <2>2, <2>3, <2>4, <2>5 DEF PostInv
<1>10. QED
  BY <1>1, <1>7, <1>8, <1>9 DEF Script, Motion, Settle

(* CameraThread: a post takes the \x01 it is about.                        *)
LEMMA PostCamera ==
    ASSUME PostInv, Camera
    PROVE  PostInv'
<1>1. /\ eventPipe \in EventPipes /\ script \in [Events -> ScriptSteps \cup {"none"}]
      /\ motionFound \in Bytes /\ posts \in Nat
      /\ CameraEnd \in eventPipe.readers <=> camera # "open"
      /\ \A d \in Events : d \in eventPipe.writers <=> script[d] \in Opened
      /\ NewlineFollows(eventPipe.data) /\ eventPipe.data \in Seq(Bytes)
  BY DEF PostInv, EventEnds, EventPipes
<1>2. UNCHANGED script /\ Written' = Written
  BY DEF Camera, CameraOpen, CameraRead, CameraClose, CameraFrame, motionVars, Written
<1>3. Cardinality(Written) \in Nat
  <2>1. Written \subseteq 1 .. MaxEvents /\ IsFiniteSet(1 .. MaxEvents)
    BY HandlerAssumption, FS_Interval DEF Written, Events
  <2>2. QED
    BY <2>1, FS_Subset, FS_CardinalityType
<1>4. Motions(eventPipe.data) \in Nat
  BY <1>1, MotionsAreNat
<1>5. CASE CameraOpen
  <2>1. /\ camera = "open" /\ camera' = "read" /\ UNCHANGED <<motionFound, posts>>
        /\ eventPipe' = OpenToRead(eventPipe, CameraEnd)
    BY <1>5 DEF CameraOpen
  <2>2. /\ eventPipe' \in EventPipes /\ eventPipe'.readers = eventPipe.readers \cup {CameraEnd}
        /\ eventPipe'.writers = eventPipe.writers /\ eventPipe'.data = eventPipe.data
        /\ eventPipe.writers = {} => CameraEnd \in eventPipe'.asleep
    BY <1>1, <2>1 DEF OpenToRead, EventPipes
  <2>3. EventEnds'
    BY <1>1, <1>2, <2>1, <2>2 DEF EventEnds, EventPipes
  <2>4. NewlineIsNext'
    BY <1>2, <2>1, <2>2 DEF PostInv, NewlineIsNext
  <2>5. PostsCounted'
    BY <1>2, <2>1, <2>2 DEF PostInv, PostsCounted, AboutToPost
  <2>6. QED
    BY <1>1, <2>2, <2>3, <2>4, <2>5 DEF PostInv
<1>6. CASE CameraRead /\ eventPipe.data # <<>>
  <2>1. /\ camera = "read" /\ camera' = "close" /\ UNCHANGED posts
        /\ motionFound' = Head(eventPipe.data)
        /\ eventPipe' = [eventPipe EXCEPT !.data = Tail(eventPipe.data)]
    BY <1>6 DEF CameraRead, ReadByte
  <2> DEFINE rest == Tail(eventPipe.data)
  <2>2. /\ rest \in Seq(Bytes) /\ motionFound' \in Bytes /\ NewlineFollows(rest)
        /\ motionFound' = Motion => rest # <<>>
        /\ Motions(eventPipe.data) = Motions(rest) + IF motionFound' = Motion THEN 1 ELSE 0
    BY <1>1, <1>6, <2>1, ReadingOne
  <2>3. Motions(rest) \in Nat
    BY <2>2, MotionsAreNat
  <2>4. eventPipe' = [eventPipe EXCEPT !.data = rest]
    BY <2>1
  <2> HIDE DEF rest
  <2>5. /\ eventPipe' \in EventPipes /\ eventPipe'.readers = eventPipe.readers
        /\ eventPipe'.writers = eventPipe.writers /\ eventPipe'.data = rest
    BY <1>1, <2>2, <2>4 DEF EventPipes
  <2>6. EventEnds'
    BY <1>1, <1>2, <2>1, <2>2, <2>5 DEF EventEnds, EventPipes
  <2>7. NewlineIsNext'
    BY <2>1, <2>2, <2>5 DEF NewlineIsNext
  <2>8. PostsCounted'
    <3>1. ~AboutToPost /\ (AboutToPost' <=> motionFound' = Motion)
      BY <2>1 DEF AboutToPost
    <3>2. posts + Motions(eventPipe.data) <= Cardinality(Written)
      BY <1>1, <1>4, <3>1 DEF PostInv, PostsCounted
    <3>3. posts' + Motions(rest) + (IF AboutToPost' THEN 1 ELSE 0) <= Cardinality(Written)
      BY <1>1, <1>3, <2>1, <2>2, <2>3, <3>1, <3>2
    <3>4. QED
      BY <1>2, <2>5, <3>3 DEF PostsCounted
  <2>9. QED
    BY <2>2, <2>5, <2>6, <2>7, <2>8 DEF PostInv
<1>7. CASE CameraRead /\ eventPipe.data = <<>>
  <2>1. /\ camera = "read" /\ camera' = "close" /\ UNCHANGED posts
        /\ CameraEnd \notin eventPipe.asleep /\ eventPipe.writers = {}
        /\ UNCHANGED <<motionFound, eventPipe>>
    BY <1>7 DEF CameraRead, ReadByte
  <2>2. motionFound # Motion
    BY <1>7, <2>1 DEF PostInv, NewlineIsNext
  <2>3. EventEnds'
    BY <1>1, <1>2, <2>1 DEF EventEnds, EventPipes
  <2>4. NewlineIsNext'
    BY <2>1, <2>2 DEF NewlineIsNext
  <2>5. PostsCounted'
    BY <1>2, <2>1, <2>2 DEF PostInv, PostsCounted, AboutToPost
  <2>6. QED
    BY <1>1, <2>1, <2>3, <2>4, <2>5 DEF PostInv
<1>8. CASE CameraClose
  <2>1. /\ camera = "close" /\ camera' = "open" /\ UNCHANGED motionFound
        /\ eventPipe' = CloseEnd(eventPipe, CameraEnd)
        /\ posts' = IF motionFound = Motion THEN posts + 1 ELSE posts
    BY <1>8 DEF CameraClose
  <2>2. /\ eventPipe' \in EventPipes /\ eventPipe'.readers = eventPipe.readers \ {CameraEnd}
        /\ eventPipe'.writers = eventPipe.writers \ {CameraEnd}
        /\ eventPipe'.data = IF eventPipe'.readers = {} /\ eventPipe'.writers = {}
                             THEN <<>> ELSE eventPipe.data
    BY <1>1, <2>1, ClosingEvent
  <2>3. eventPipe'.writers = eventPipe.writers /\ CameraEnd \notin eventPipe'.readers
    BY <1>1, <2>2, CameraIsNoEvent DEF EventPipes
  <2>4. EventEnds'
    BY <1>1, <1>2, <2>1, <2>2, <2>3 DEF EventEnds, EventPipes
  <2>5. NewlineIsNext'
    BY <1>2, <2>1, <2>2, <2>3 DEF PostInv, NewlineIsNext
  <2>6. NewlineFollows(eventPipe'.data) /\ Motions(eventPipe'.data) \in Nat
        /\ Motions(eventPipe'.data) <= Motions(eventPipe.data)
    BY <1>1, <1>4, <2>2, MotionsOfEmpty
  <2>7. PostsCounted'
    <3>1. ~AboutToPost' /\ (AboutToPost <=> motionFound = Motion)
      BY <2>1 DEF AboutToPost
    <3>2. posts + Motions(eventPipe.data) + (IF motionFound = Motion THEN 1 ELSE 0) <= Cardinality(Written)
      BY <3>1 DEF PostInv, PostsCounted
    <3>3. posts' + Motions(eventPipe'.data) + 0 <= Cardinality(Written)
      BY <1>1, <1>3, <1>4, <2>1, <2>6, <3>2
    <3>4. QED
      BY <1>2, <3>1, <3>3 DEF PostsCounted
  <2>8. QED
    BY <2>4, <2>5, <2>6, <2>7 DEF PostInv
<1>9. QED
  BY <1>5, <1>6, <1>7, <1>8 DEF Camera

LEMMA PostStep == PostInv /\ [Next]_vars => PostInv'
<1> SUFFICES ASSUME PostInv, [Next]_vars PROVE PostInv'
  OBVIOUS
<1>1. ASSUME NEW e \in Events, MotionDetected(e) PROVE PostInv'
  <2>1. /\ script[e] = "none" /\ script' = [script EXCEPT ![e] = "open1"]
        /\ UNCHANGED <<eventPipe, motionFound, posts, camera>>
    BY <1>1 DEF MotionDetected, cameraVars
  <2>2. /\ script \in [Events -> ScriptSteps \cup {"none"}] /\ "open1" \in ScriptSteps
        /\ e \notin eventPipe.writers /\ eventPipe.writers \subseteq Events
    BY <2>1 DEF PostInv, EventEnds, Opened, ScriptSteps
  <2>3. EventEnds'
    BY <2>1, <2>2 DEF PostInv, EventEnds, Opened
  <2>4. NewlineIsNext'
    <3>1. \A d \in eventPipe.writers : script'[d] = script[d]
      BY <2>1, <2>2
    <3>2. QED
      BY <2>1, <3>1 DEF PostInv, NewlineIsNext
  <2>5. Written' = Written
    BY <2>1, <2>2 DEF Written
  <2>6. QED
    BY <2>1, <2>3, <2>4, <2>5 DEF PostInv, PostsCounted, AboutToPost
<1>2. CASE Boot \/ Sender \/ Grabber \/ Dequeuer
  <2>1. UNCHANGED postVars
    BY <1>2 DEF postVars, Boot, motionVars, cameraVars, Sender, ReadImage, SendImage, DoneScript,
       SenderFrame, Grabber, AwaitMotion, ListImages, PushImage, GrabberUnlock, GrabberFrame,
       Dequeuer, DequeuerOpen, DequeuerRead, DequeuerClose, DeleteImage, PopImage, DequeuerUnlock,
       DequeuerFrame
  <2>2. QED
    BY <2>1, PostStutter
<1>3. CASE UNCHANGED vars
  BY <1>3, PostStutter DEF vars, postVars, motionVars, cameraVars
<1>4. QED
  BY <1>1, <1>2, <1>3, PostScripted, PostCamera DEF Next

(* sem_post is called at most once for each event that made Motion run its *)
(* script: motion_found, which starts uninitialised and keeps its value at *)
(* an end of file, is never a \x01 that was posted before                  *)
(* (motion_handler.cpp:59-82).                                             *)
THEOREM MotionIsReal == Spec => []NoPhantomMotion
<1>1. PostInv => NoPhantomMotion
  <2> SUFFICES ASSUME PostInv PROVE NoPhantomMotion
    OBVIOUS
  <2> DEFINE Begun == {e \in Events : script[e] # "none"}
  <2>1. IsFiniteSet(1 .. MaxEvents) /\ Begun \subseteq 1 .. MaxEvents /\ Written \subseteq Begun
    BY HandlerAssumption, FS_Interval DEF Events, Written
  <2>2. IsFiniteSet(Begun)
    BY <2>1, FS_Subset
  <2>3. Cardinality(Written) <= Cardinality(Begun) /\ IsFiniteSet(Written)
    BY <2>1, <2>2, FS_Subset
  <2>4. Cardinality(Written) \in Nat /\ Cardinality(Begun) \in Nat
    BY <2>2, <2>3, FS_CardinalityType
  <2>5. posts \in Nat /\ Motions(eventPipe.data) \in Nat
    BY MotionsAreNat DEF PostInv, EventEnds
  <2>6. posts <= Cardinality(Written)
    BY <2>4, <2>5 DEF PostInv, PostsCounted
  <2>7. posts <= Cardinality(Begun)
    BY <2>3, <2>4, <2>5, <2>6
  <2>8. QED
    BY <2>7 DEF NoPhantomMotion
<1>2. QED
  BY <1>1, PostInit, PostStep, PTL DEF Spec
=============================================================================
