--------------------------- MODULE Cameras_proofs ---------------------------
(***************************************************************************)
(* The pictures of the cameras, from where they come and to where they go: *)
(* a network camera with its handler thread, a video device that several   *)
(* cameras share, for every number of cameras, buffers, failures and       *)
(* killed threads; and the stream server, whose buffers are counted, for   *)
(* every set of clients, every limit and any number of restarts and        *)
(* changes of the configuration.                                           *)
(***************************************************************************)
EXTENDS Netcam, VideoDevice, Stream, FunctionTheorems, FiniteSetTheorems,
        SequenceTheorems, TLAPS

-----------------------------------------------------------------------------
(* Netcam *)

\* The newest image is fresh until motion takes it, and not seen before.
SeenInv ==
  /\ DOMAIN buffer = {"latest", "receiving", "jpegbuf"}
  /\ DOMAIN netcam = DOMAIN NoNetcam
  /\ netcam.fresh => ~buffer.latest.seen
  /\ loop = "decode" => ~buffer.jpegbuf.seen

LEMMA PublishKeeps ==
  ASSUME SeenInv, NEW image \in {NoImage, Part, Whole}, NEW sock, Publish(image, sock)
  PROVE  SeenInv'
<1>1. ~image.seen
  BY DEF NoImage, Part, Whole
<1>2. buffer' = [buffer EXCEPT !.latest = image, !.receiving = NoImage] /\ loop' = loop
  BY DEF Publish, Goto, HandlerFrame
<1>3. DOMAIN netcam' = DOMAIN netcam
  BY DEF Publish, netcam_disconnect
<1> QED BY <1>1, <1>2, <1>3 DEF SeenInv

\* The motion loop decodes only images it has not seen (netcam_init_jpeg
\* and the exchange of the three buffers), whatever the camera does.
THEOREM DecodesOnlyNew == NetcamSpec => []DecodesNew
<1>1. NetcamInit => SeenInv
  BY DEF NetcamInit, SeenInv, NoBuffers, NoNetcam, NoImage
<1>2. SeenInv /\ [NetcamNext]_netcamVars => SeenInv'
  <2> SUFFICES ASSUME SeenInv, [NetcamNext]_netcamVars PROVE SeenInv'
    OBVIOUS
  <2> USE DEF SeenInv
  <2>1. CASE netcam_start
    <3>1. /\ loop' = "next" /\ ~netcam'.fresh /\ DOMAIN netcam' = DOMAIN NoNetcam
      BY <2>1 DEF netcam_start, NoNetcam
    <3>2. DOMAIN buffer' = DOMAIN buffer
      BY <2>1 DEF netcam_start, NoBuffers
    <3> QED BY <3>1, <3>2
  <2>2. CASE netcam_next
    BY <2>2 DEF netcam_next, NoNetcam
  <2>3. CASE Taken
    BY <2>3 DEF Taken, NoNetcam
  <2>4. CASE NothingNew \/ Decoded
    BY <2>4 DEF NothingNew, Decoded
  <2>5. CASE netcam_cleanup
    BY <2>5 DEF netcam_cleanup, NoNetcam
  <2>6. CASE Cleaned \/ CleanupTimeout
    BY <2>6 DEF Cleaned, CleanupTimeout, NoNetcam, NoBuffers
  <2>7. CASE get_image
    <3>1. CASE \E image \in {NoImage, Part, Whole} : \E sock \in {"broken", netcam.sock} : Publish(image, sock)
      BY <3>1, PublishKeeps
    <3>2. CASE buffer' = buffer /\ loop' = loop /\ netcam'.fresh = netcam.fresh /\ DOMAIN netcam' = DOMAIN netcam
      BY <3>2
    <3>3. ASSUME netcam_http_request
          PROVE  buffer' = buffer /\ loop' = loop /\ netcam'.fresh = netcam.fresh /\ DOMAIN netcam' = DOMAIN netcam
      BY <3>3 DEF netcam_http_request, Goto, HandlerFrame, Kept, Warned, NoNetcam
    <3>4. CASE netcam_read_html_jpeg
      <4>1. CASE BoundaryCut
        BY <3>2, <4>1 DEF BoundaryCut, HeaderCut, Goto, HandlerFrame, NoNetcam
      <4> QED BY <3>1, <3>4, <4>1 DEF netcam_read_html_jpeg
    <3>5. CASE netcam_read_mjpg_jpeg
      BY <3>1, <3>2, <3>3, <3>5 DEF netcam_read_mjpg_jpeg, Goto, HandlerFrame, NoNetcam
    <3>6. CASE netcam_read_ftp_jpeg \/ netcam_read_file_jpeg
      BY <3>1, <3>2, <3>6 DEF netcam_read_ftp_jpeg, netcam_read_file_jpeg, Goto, HandlerFrame
    <3> QED BY <2>7, <3>4, <3>5, <3>6 DEF get_image
  <2>8. CASE Top
    BY <2>8 DEF Top, HandlerFrame, NoNetcam, netcam_disconnect
  <2>9. CASE netcam_connect
    BY <2>9 DEF netcam_connect, Goto, HandlerFrame, NoNetcam, netcam_disconnect
  <2>10. CASE netcam_read_first_header
    <3> DEFINE Typed == [netcam EXCEPT !.streaming = log.mode,
                                       !.boundary = @ \/ log.mode = "multipart"]
    <3>1. \A n, alive, close : DOMAIN n = DOMAIN NoNetcam =>
            DOMAIN Kept(n, alive, close) = DOMAIN n /\ Kept(n, alive, close).fresh = n.fresh
      BY DEF Kept, Warned, NoNetcam
    <3>2. CASE \E alive, close \in BOOLEAN : netcam' = Kept(Typed, alive, close)
      <4>1. PICK alive, close \in BOOLEAN : netcam' = Kept(Typed, alive, close)
        BY <3>2
      <4>2. DOMAIN Typed = DOMAIN NoNetcam /\ Typed.fresh = netcam.fresh
        BY DEF NoNetcam
      <4>3. DOMAIN netcam' = DOMAIN NoNetcam /\ netcam'.fresh = netcam.fresh
        <5> HIDE DEF Typed
        <5> QED BY <3>1, <4>1, <4>2
      <4> QED BY <2>10, <4>3 DEF netcam_read_first_header, Goto, HandlerFrame
    <3>3. CASE netcam' \in {[netcam EXCEPT !.keepalive = FALSE], HeaderCut(netcam), netcam}
      BY <2>10, <3>3 DEF netcam_read_first_header, HeaderCut, Goto, HandlerFrame, NoNetcam
    <3> QED BY <2>10, <3>2, <3>3 DEF netcam_read_first_header
  <2>11. CASE netcam_read_next_header
    BY <2>11 DEF netcam_read_next_header, HeaderCut, Goto, HandlerFrame, NoNetcam
  <2>12. CASE Idle \/ Woken
    BY <2>12 DEF Idle, Woken, Goto, HandlerFrame, NoNetcam
  <2>13. CASE Exit \/ Signal \/ ModeChanges \/ OrphanEnds \/ UNCHANGED netcamVars
    BY <2>13 DEF Exit, Signal, ModeChanges, OrphanEnds, Goto, HandlerFrame, netcamVars
  <2> QED BY <2>1, <2>2, <2>3, <2>4, <2>5, <2>6, <2>7, <2>8, <2>9, <2>10, <2>11, <2>12, <2>13
          DEF NetcamNext, Loop, Close, netcam_handler_loop
<1>3. SeenInv => DecodesNew
  BY DEF SeenInv, DecodesNew
<1> QED BY <1>1, <1>2, <1>3, PTL DEF NetcamSpec

-----------------------------------------------------------------------------
(* VideoDevice *)

Freeing == {"free", "free, end"}
Users == {c \in Cameras : camera[c].open /\ camera[c].at \notin Freeing}

DeviceFields == {"linked", "usage", "v4l2", "owner", "frames", "locked", "input", "queue",
                 "index", "pframe"}
CameraFields == {"open", "at", "skipped", "picture"}
VideoTyped ==
  /\ DOMAIN device = DeviceFields
  /\ DOMAIN camera = Cameras
  /\ \A c \in Cameras : DOMAIN camera[c] = CameraFields
  /\ DOMAIN videoLog = {"round", "faults", "killed", "revived", "spoiled"}

\* Who has the device open, and who not.
Placed(c) ==
  /\ camera[c].at \in {"found", "read", "skip", "next", "close", "free", "free, end"} => camera[c].open
  /\ camera[c].at = "ended" => ~camera[c].open

\* A user of the device is counted in it, though more may be counted than there are
\* after a thread was killed; ...
UsageCounts == device.usage \in Int /\ device.usage >= Cardinality(Users)
\* ... who frees the device was the last.
LastFrees ==
  /\ \A c \in Cameras : camera[c].at \in Freeing => device.linked /\ device.usage = 0
  /\ \A c, x \in Cameras : camera[c].at \in Freeing /\ camera[x].at \in Freeing => c = x

UsersInv ==
  /\ VideoTyped
  /\ \A c \in Cameras : Placed(c)
  /\ UsageCounts
  /\ LastFrees
  /\ ~device.linked => Users = {}

DeviceInv == ~videoLog.revived => UsersInv

LEMMA UsersFinite ==
  /\ IsFiniteSet(Users) /\ Cardinality(Users) \in Nat
  /\ Cardinality(Users) = 0 <=> Users = {}
<1>1. IsFiniteSet(Users)
  BY VideoAssumption, FS_Subset DEF Users
<1> QED BY <1>1, FS_CardinalityType, FS_EmptySet

\* A step of one camera changes its own place among the users.
LEMMA OneMoves ==
  ASSUME NEW c \in Cameras,
         \A x \in Cameras \ {c} : camera'[x] = camera[x]
  PROVE  Cardinality(Users') = Cardinality(Users) + (IF c \in Users' THEN 1 ELSE 0)
                                                  - (IF c \in Users THEN 1 ELSE 0)
<1>1. IsFiniteSet(Users) /\ Cardinality(Users) \in Nat
  BY UsersFinite
<1>2. \A x : x # c => (x \in Users' <=> x \in Users)
  BY DEF Users
<1>3. CASE c \in Users' /\ c \in Users
  <2>1. Users' = Users
    BY <1>2, <1>3
  <2> QED BY <1>1, <1>3, <2>1
<1>4. CASE c \notin Users' /\ c \notin Users
  <2>1. Users' = Users
    BY <1>2, <1>4
  <2> QED BY <1>1, <1>4, <2>1
<1>5. CASE c \in Users' /\ c \notin Users
  <2>1. Users' = Users \cup {c}
    BY <1>2, <1>5
  <2>2. Cardinality(Users \cup {c}) = Cardinality(Users) + 1
    BY <1>1, <1>5, FS_AddElement
  <2> QED BY <1>1, <1>5, <2>1, <2>2
<1>6. CASE c \notin Users' /\ c \in Users
  <2>1. Users' = Users \ {c}
    BY <1>2, <1>6
  <2>2. Cardinality(Users \ {c}) = Cardinality(Users) - 1
    BY <1>1, <1>6, FS_RemoveElement
  <2> QED BY <1>1, <1>6, <2>1, <2>2
<1> QED BY <1>3, <1>4, <1>5, <1>6

\* v4l2_next exchanges buffers with the driver, no more.
SameUse(d, e) == DOMAIN e = DOMAIN d /\ e.usage = d.usage /\ e.linked = d.linked
LEMMA NextKeepsUse ==
  ASSUME NEW d, DOMAIN d = DeviceFields, NEW r \in v4l2_next(d)
  PROVE  SameUse(d, r.dev)
<1> DEFINE q == [d EXCEPT !.queue = IF d.pframe = Nobody THEN @ ELSE Append(@, EmptyBuffer(d.index))]
           first == Head(q.queue)
           taken == [q EXCEPT !.queue = Tail(@), !.index = first.buf, !.pframe = first.buf]
           Lost(p) == {Result([q EXCEPT !.index = p, !.pframe = p], 1, NoFrame, TRUE),
                       Result([q EXCEPT !.index = 1], 1, NoFrame, TRUE),
                       Result([q EXCEPT !.index = 1], -1, NoFrame, TRUE)}
<1>1. DOMAIN q = DOMAIN d /\ q.usage = d.usage /\ q.linked = d.linked
  BY DEF NoDevice
<1> HIDE DEF q
<1>2. /\ SameUse(d, d) /\ SameUse(d, taken)
      /\ \A p : SameUse(d, [q EXCEPT !.index = p])
      /\ \A p : SameUse(d, [q EXCEPT !.index = p, !.pframe = p])
  BY <1>1 DEF SameUse, NoDevice
<1>4. CASE ~d.v4l2 \/ (d.pframe # Nobody /\ Queued(d.queue, d.index))
  <2>1. r = Result(d, -2, NoFrame, FALSE) \/ r = Result(d, -1, NoFrame, FALSE)
    BY <1>4 DEF v4l2_next
  <2>2. r = Result(d, -2, NoFrame, FALSE) => r.dev = d
    BY DEF Result
  <2>3. r = Result(d, -1, NoFrame, FALSE) => r.dev = d
    BY DEF Result
  <2> QED BY <1>2, <2>1, <2>2, <2>3
<1>5. CASE d.v4l2 /\ ~(d.pframe # Nobody /\ Queued(d.queue, d.index))
  <2> DEFINE p == IF d.pframe = Nobody THEN 1 ELSE (d.pframe % MmapBuffers) + 1
  <2>1. r \in (IF first.of = Empty THEN {} ELSE {Result(taken, 0, first, FALSE)})
             \cup (IF ~DriverFails THEN {} ELSE Lost(p) \cup Undecodable(taken, first))
    BY <1>5 DEF v4l2_next, q
  <2> HIDE DEF p, taken
  <2>2. r \in Lost(p) \/ r = Result(taken, 0, first, FALSE) \/ r = Result(taken, 2, first, TRUE)
    BY <2>1 DEF Undecodable
  <2>3. CASE r \in Lost(p)
    <3>1. \/ r = Result([q EXCEPT !.index = p, !.pframe = p], 1, NoFrame, TRUE)
          \/ r = Result([q EXCEPT !.index = 1], 1, NoFrame, TRUE)
          \/ r = Result([q EXCEPT !.index = 1], -1, NoFrame, TRUE)
      BY <2>3
    <3>2. CASE r = Result([q EXCEPT !.index = p, !.pframe = p], 1, NoFrame, TRUE)
      <4>1. r.dev = [q EXCEPT !.index = p, !.pframe = p]
        BY <3>2 DEF Result
      <4> QED BY <1>2, <4>1
    <3>3. CASE r = Result([q EXCEPT !.index = 1], 1, NoFrame, TRUE)
      <4>1. r.dev = [q EXCEPT !.index = 1]
        BY <3>3 DEF Result
      <4> QED BY <1>2, <4>1
    <3>4. CASE r = Result([q EXCEPT !.index = 1], -1, NoFrame, TRUE)
      <4>1. r.dev = [q EXCEPT !.index = 1]
        BY <3>4 DEF Result
      <4> QED BY <1>2, <4>1
    <3> QED BY <3>1, <3>2, <3>3, <3>4
  <2>4. CASE r = Result(taken, 0, first, FALSE)
    <3>1. r.dev = taken
      BY <2>4 DEF Result
    <3> QED BY <1>2, <3>1
  <2>5. CASE r = Result(taken, 2, first, TRUE)
    <3>1. r.dev = taken
      BY <2>5 DEF Result
    <3> QED BY <1>2, <3>1
  <2> QED BY <2>2, <2>3, <2>4, <2>5
<1> QED BY <1>4, <1>5

\* The conjuncts, one by one.
LEMMA UserFacts ==
  ASSUME UsersInv
  PROVE  /\ VideoTyped /\ UsageCounts /\ LastFrees /\ \A c \in Cameras : Placed(c)
         /\ ~device.linked => Users = {}
         /\ device.usage \in Int /\ Cardinality(Users) \in Nat /\ device.usage >= Cardinality(Users)
         /\ Users # {} => device.usage > 0 /\ device.linked
<1>1. UsageCounts /\ (~device.linked => Users = {})
  BY DEF UsersInv
<1>2. device.usage \in Int /\ device.usage >= Cardinality(Users)
  BY <1>1 DEF UsageCounts
<1>3. Users # {} => Cardinality(Users) > 0
  BY UsersFinite
<1>4. Users # {} => device.usage > 0
  BY <1>2, <1>3, UsersFinite
<1> QED BY <1>1, <1>2, <1>4, UsersFinite DEF UsersInv

LEMMA NobodyFrees ==
  ASSUME UsersInv, ~device.linked \/ device.usage # 0
  PROVE  \A x \in Cameras : camera[x].at \notin Freeing
BY DEF UsersInv, LastFrees

\* A camera that goes on in its loop without a change of what it has.
LEMMA MovesOn ==
  ASSUME UsersInv, NEW c \in Cameras, SameUse(device, device'),
         DOMAIN videoLog' = DOMAIN videoLog,
         DOMAIN camera' = Cameras, \A x \in Cameras \ {c} : camera'[x] = camera[x],
         DOMAIN camera'[c] = DOMAIN camera[c], camera'[c].open,
         camera[c].at \notin Freeing, camera'[c].at \notin Freeing \cup {"ended"}, camera[c].open
  PROVE  UsersInv'
<1>1. Users' = Users
  BY DEF Users
<1>2. VideoTyped'
  BY UserFacts DEF VideoTyped, SameUse
<1>3. \A x \in Cameras : Placed(x)'
  <2>1. \A x \in Cameras : Placed(x)
    BY UserFacts
  <2>2. \A x \in Cameras \ {c} : Placed(x)'
    BY <2>1 DEF Placed
  <2>3. Placed(c)'
    BY DEF Placed
  <2> QED BY <2>2, <2>3
<1>4. UsageCounts'
  <2>1. device'.usage = device.usage
    BY DEF SameUse
  <2> QED BY <1>1, <2>1, UserFacts DEF UsageCounts
<1>5. LastFrees'
  <2>1. device'.usage = device.usage /\ device'.linked = device.linked
    BY DEF SameUse
  <2> QED BY <2>1, UserFacts DEF LastFrees
<1>6. ~device'.linked => Users' = {}
  BY <1>1, UserFacts DEF SameUse
<1> QED BY <1>2, <1>3, <1>4, <1>5, <1>6 DEF UsersInv

LEMMA StartKeeps ==
  ASSUME NEW c \in Cameras, UsersInv, ~videoLog.revived, vid_start(c), ~videoLog'.revived
  PROVE  UsersInv'
<1>0. /\ DOMAIN device = DeviceFields /\ DOMAIN camera = Cameras
      /\ \A x \in Cameras : DOMAIN camera[x] = CameraFields
      /\ DOMAIN videoLog = {"round", "faults", "killed", "revived", "spoiled"}
      /\ "revived" \in DOMAIN videoLog
  BY UserFacts DEF VideoTyped
<1>1. /\ camera[c].at = "loop" /\ ~camera[c].open
      /\ camera' = [camera EXCEPT ![c].open = TRUE]
      /\ DOMAIN videoLog' = DOMAIN videoLog
  BY DEF vid_start, Failure
<1>2. /\ DOMAIN device' = DeviceFields /\ device'.linked /\ device'.usage \in Int
      /\ device'.usage >= Cardinality(Users) + 1
      /\ \A x \in Cameras : camera[x].at \notin Freeing
  <2>1. CASE device.linked
    <3>1. device' = [device EXCEPT !.usage = @ + 1]
      BY <2>1 DEF vid_start
    <3>2. videoLog' = [videoLog EXCEPT !.revived = @ \/ device.usage <= 0]
      BY <2>1 DEF vid_start
    <3>3. ~(device.usage <= 0)
      BY <1>0, <3>2
    <3>4. device'.usage = device.usage + 1 /\ device'.linked /\ DOMAIN device' = DOMAIN device
      BY <1>0, <2>1, <3>1 DEF DeviceFields
    <3>5. device.usage # 0
      BY <3>3
    <3>6. \A x \in Cameras : camera[x].at \notin Freeing
      BY <3>5, NobodyFrees
    <3>7. device.usage \in Int /\ Cardinality(Users) \in Nat /\ device.usage >= Cardinality(Users)
      BY UserFacts
    <3>8. device'.usage \in Int /\ device'.usage >= Cardinality(Users) + 1
      BY <3>4, <3>7
    <3> QED BY <1>0, <3>4, <3>6, <3>8
  <2>2. CASE ~device.linked
    <3>1. Cardinality(Users) = 0
      BY <2>2, UserFacts, UsersFinite
    <3>2. device' = Started(c, TRUE) \/ device' = Started(c, FALSE)
      BY <2>2 DEF vid_start
    <3>3. DOMAIN device' = DeviceFields /\ device'.usage = 1 /\ device'.linked
      BY <3>2 DEF Started, Selected, NoDevice, DeviceFields
    <3>4. device'.usage >= Cardinality(Users) + 1 /\ device'.usage \in Int
      BY <3>1, <3>3
    <3> QED BY <2>2, <3>3, <3>4, NobodyFrees
  <2> QED BY <2>1, <2>2
<1>3. /\ \A x \in Cameras \ {c} : camera'[x] = camera[x]
      /\ camera'[c].open /\ camera'[c].at = "loop"
      /\ DOMAIN camera' = Cameras /\ \A x \in Cameras : DOMAIN camera'[x] = CameraFields
  BY <1>0, <1>1 DEF CameraFields
<1>4. Cardinality(Users') = Cardinality(Users) + 1
  <2>1. c \in Users' /\ c \notin Users
    BY <1>1, <1>3 DEF Users, Freeing
  <2> QED BY <1>3, <2>1, OneMoves, UsersFinite
<1>5. VideoTyped'
  BY <1>0, <1>1, <1>2, <1>3 DEF VideoTyped
<1>6. UsageCounts'
  BY <1>2, <1>4 DEF UsageCounts
<1>7. \A x \in Cameras : Placed(x)'
  <2>1. \A x \in Cameras \ {c} : Placed(x)'
    BY <1>3, UserFacts DEF Placed
  <2>2. Placed(c)'
    BY <1>3 DEF Placed
  <2> QED BY <2>1, <2>2
<1>8. LastFrees'
  BY <1>2, <1>3 DEF LastFrees, Freeing
<1> QED BY <1>2, <1>5, <1>6, <1>7, <1>8 DEF UsersInv

\* vid_close: the last one goes on to free the device, another only counts itself out.
LEMMA CloseKeeps ==
  ASSUME NEW c \in Cameras, UsersInv, camera[c].open, camera[c].at \in {"loop", "close"},
         NEW next \in {"loop", "ended"}, CloseBy(c, next)
  PROVE  UsersInv'
<1>0. /\ DOMAIN device = DeviceFields /\ DOMAIN camera = Cameras
      /\ \A x \in Cameras : DOMAIN camera[x] = CameraFields
      /\ DOMAIN videoLog = {"round", "faults", "killed", "revived", "spoiled"}
      /\ device.usage \in Int /\ Cardinality(Users) \in Nat /\ device.usage >= Cardinality(Users)
  BY UserFacts DEF VideoTyped
<1>1. c \in Users /\ videoLog' = videoLog
  BY DEF Users, Freeing, CloseBy
<1>2. device.linked /\ device.usage > 0
  BY <1>1, UserFacts
<1>3. \A x \in Cameras : camera[x].at \notin Freeing
  BY <1>2, NobodyFrees
<1> DEFINE counted == [device EXCEPT !.usage = @ - 1]
<1>4. counted.usage = device.usage - 1 /\ counted.linked /\ DOMAIN counted = DeviceFields
  BY <1>0, <1>2 DEF DeviceFields
<1>5. /\ DOMAIN device' = DeviceFields /\ device'.usage = device.usage - 1
      /\ device'.linked
  <2>1. device' = counted \/ device' = GivesTurn(counted, c)
    BY <1>2 DEF CloseBy
  <2> HIDE DEF counted
  <2>2. SameUse(counted, GivesTurn(counted, c)) /\ SameUse(counted, counted)
    BY <1>4 DEF GivesTurn, SameUse, DeviceFields
  <2> QED BY <1>4, <2>1, <2>2 DEF SameUse
<1> DEFINE then == IF next = "ended" THEN "free, end" ELSE "free"
<1>6. /\ DOMAIN camera' = Cameras /\ \A x \in Cameras : DOMAIN camera'[x] = CameraFields
      /\ \A x \in Cameras \ {c} : camera'[x] = camera[x]
      /\ \/ device.usage = 1 /\ camera'[c].open /\ camera'[c].at = then
         \/ ~camera'[c].open /\ camera'[c].at = next
  <2>1. CASE device.usage = 1
    <3>1. camera' = [camera EXCEPT ![c].at = then]
      BY <1>2, <2>1 DEF CloseBy, At, Last
    <3> QED BY <1>0, <2>1, <3>1 DEF CameraFields
  <2>2. CASE device.usage # 1
    <3>1. camera' = [camera EXCEPT ![c].open = FALSE, ![c].at = next]
      BY <2>2 DEF CloseBy, Last
    <3> QED BY <1>0, <3>1 DEF CameraFields
  <2> QED BY <2>1, <2>2
<1>7. then \in Freeing
  BY DEF Freeing
<1> HIDE DEF then, counted
<1>8. Cardinality(Users') = Cardinality(Users) - 1
  <2>1. c \notin Users'
    BY <1>6, <1>7 DEF Users
  <2> QED BY <1>1, <1>6, <2>1, OneMoves, UsersFinite
<1>9. VideoTyped'
  BY <1>0, <1>1, <1>5, <1>6 DEF VideoTyped
<1>10. UsageCounts'
  BY <1>0, <1>5, <1>8 DEF UsageCounts
<1>11. \A x \in Cameras : Placed(x)'
  <2>1. \A x \in Cameras \ {c} : Placed(x)'
    BY <1>6, UserFacts DEF Placed
  <2>2. Placed(c)'
    BY <1>6, <1>7 DEF Placed, Freeing
  <2> QED BY <2>1, <2>2
<1>12. LastFrees'
  <2>1. \A x \in Cameras \ {c} : camera'[x].at \notin Freeing
    BY <1>3, <1>6
  <2>2. camera'[c].at \in Freeing => device'.usage = 0
    <3>1. next \notin Freeing
      BY DEF Freeing
    <3> QED BY <1>0, <1>5, <1>6, <3>1
  <2> QED BY <1>5, <2>1, <2>2 DEF LastFrees
<1> QED BY <1>5, <1>9, <1>10, <1>11, <1>12 DEF UsersInv

\* The last one frees the device: nobody is left who uses it.
LEMMA FreeKeeps == ASSUME NEW c \in Cameras, UsersInv, Free(c) PROVE UsersInv'
<1>0. /\ DOMAIN camera = Cameras /\ \A x \in Cameras : DOMAIN camera[x] = CameraFields
      /\ DOMAIN videoLog = {"round", "faults", "killed", "revived", "spoiled"}
  BY UserFacts DEF VideoTyped
<1>1. /\ camera[c].at \in Freeing /\ videoLog' = videoLog /\ device' = NoDevice
      /\ camera' = [camera EXCEPT ![c].open = FALSE, ![c].at = IF @ = "free" THEN "loop" ELSE "ended"]
  BY DEF Free, Freeing
<1>2. Users = {}
  <2>1. device.usage = 0
    BY <1>1 DEF UsersInv, LastFrees
  <2> QED BY <2>1, UserFacts
<1>3. /\ DOMAIN camera' = Cameras /\ \A x \in Cameras : DOMAIN camera'[x] = CameraFields
      /\ \A x \in Cameras \ {c} : camera'[x] = camera[x]
      /\ ~camera'[c].open /\ camera'[c].at \in {"loop", "ended"}
  BY <1>0, <1>1 DEF CameraFields
<1>4. Users' = {}
  BY <1>2, <1>3 DEF Users
<1>5. DOMAIN device' = DeviceFields /\ device'.usage = 0
  BY <1>1 DEF NoDevice, DeviceFields
<1>6. VideoTyped'
  BY <1>0, <1>1, <1>3, <1>5 DEF VideoTyped
<1>7. UsageCounts'
  BY <1>4, <1>5, FS_EmptySet DEF UsageCounts
<1>8. \A x \in Cameras : Placed(x)'
  <2>1. \A x \in Cameras \ {c} : Placed(x)'
    BY <1>3, UserFacts DEF Placed
  <2>2. Placed(c)'
    BY <1>3 DEF Placed
  <2> QED BY <2>1, <2>2
<1>9. \A x \in Cameras : camera'[x].at \notin Freeing
  <2>1. \A x \in Cameras \ {c} : camera[x].at \notin Freeing
    BY <1>1 DEF UsersInv, LastFrees
  <2> QED BY <1>3, <2>1 DEF Freeing
<1> QED BY <1>4, <1>6, <1>7, <1>8, <1>9 DEF UsersInv, LastFrees

\* Until one camera comes to a device that is about to go, its users are counted.
LEMMA DeviceKept == VideoSpec => []DeviceInv
<1>1. VideoInit => DeviceInv
  <2> SUFFICES ASSUME VideoInit PROVE UsersInv
    BY DEF DeviceInv
  <2>1. /\ DOMAIN camera = Cameras
        /\ \A c \in Cameras : /\ DOMAIN camera[c] = CameraFields
                               /\ ~camera[c].open /\ camera[c].at = "loop"
    BY DEF VideoInit, CameraFields
  <2>2. DOMAIN device = DeviceFields /\ device.usage = 0
    BY DEF VideoInit, NoDevice, DeviceFields
  <2>3. DOMAIN videoLog = {"round", "faults", "killed", "revived", "spoiled"}
    BY DEF VideoInit
  <2>4. VideoTyped
    BY <2>1, <2>2, <2>3 DEF VideoTyped
  <2>5. Users = {}
    BY <2>1 DEF Users
  <2>6. UsageCounts
    BY <2>2, <2>5, FS_EmptySet DEF UsageCounts
  <2> QED BY <2>1, <2>4, <2>5, <2>6 DEF UsersInv, Placed, LastFrees, Freeing
<1>2. DeviceInv /\ [VideoNext]_videoVars => DeviceInv'
  <2> SUFFICES ASSUME DeviceInv, [VideoNext]_videoVars, ~videoLog'.revived PROVE UsersInv'
    BY DEF DeviceInv
  <2>1. CASE UNCHANGED videoVars
    BY <2>1 DEF videoVars, DeviceInv, UsersInv, VideoTyped, UsageCounts, LastFrees, Placed, Users
  <2>2. CASE VideoNext
    <3>0. ~videoLog.revived /\ UsersInv
      BY <2>2 DEF VideoNext, DeviceInv
    <3>t. /\ DOMAIN camera = Cameras /\ DOMAIN device = DeviceFields
          /\ \A c \in Cameras : DOMAIN camera[c] = CameraFields
          /\ DOMAIN videoLog = {"round", "faults", "killed", "revived", "spoiled"}
      BY <3>0, UserFacts DEF VideoTyped
    <3>o. \A c \in Cameras : InUse(c) \/ camera[c].at \in {"close", "free", "free, end"} => camera[c].open
      BY <3>0, UserFacts DEF Placed, InUse
    <3>s. \A c \in Cameras : \A at : /\ DOMAIN [camera EXCEPT ![c].at = at] = Cameras
                                     /\ [camera EXCEPT ![c].at = at][c].at = at
                                     /\ camera[c].open => [camera EXCEPT ![c].at = at][c].open
                                     /\ DOMAIN [camera EXCEPT ![c].at = at][c] = CameraFields
                                     /\ \A x \in Cameras \ {c} : [camera EXCEPT ![c].at = at][x] = camera[x]
      BY <3>t DEF CameraFields
    <3>1. CASE Capture
      <4>1. /\ DOMAIN device' = DeviceFields /\ device'.usage = device.usage /\ device'.linked = device.linked
            /\ UNCHANGED <<camera, videoLog>>
        BY <3>t, <3>1 DEF Capture, DeviceFields
      <4> QED BY <3>0, <4>1 DEF UsersInv, VideoTyped, UsageCounts, LastFrees, Placed, Users
    <3>2. ASSUME NEW c \in Cameras, CameraLoop(c) PROVE UsersInv'
      <4>1. CASE vid_start(c)
        BY <3>0, <4>1, StartKeeps
      <4>2. CASE Find(c)
        <5> DEFINE at == IF device.linked THEN "found" ELSE "close"
        <5>1. /\ UNCHANGED <<device, videoLog>> /\ camera[c].at = "loop" /\ camera[c].open
              /\ camera' = [camera EXCEPT ![c].at = at]
          BY <4>2 DEF Find, At
        <5>2. at \in {"found", "close"} /\ SameUse(device, device')
          BY <5>1 DEF SameUse
        <5> HIDE DEF at
        <5> QED BY <3>0, <3>t, <3>s, <5>1, <5>2, MovesOn DEF Freeing
      <4>3. CASE Own(c)
        <5>1. /\ videoLog' = videoLog /\ camera[c].at = "found"
              /\ camera' = [camera EXCEPT ![c].at = "read"]
          BY <4>3 DEF Own, At
        <5>2. SameUse(device, device')
          BY <3>t, <4>3 DEF Own, SameUse, DeviceFields
        <5>3. camera[c].open
          BY <3>o, <5>1 DEF InUse
        <5> QED BY <3>0, <3>t, <3>s, <5>1, <5>2, <5>3, MovesOn DEF Freeing
      <4>4. CASE v4l2_set_input(c)
        <5>1. /\ DOMAIN videoLog' = DOMAIN videoLog /\ camera[c].at = "read"
              /\ camera' = [camera EXCEPT ![c].at = "skip"]
          BY <4>4 DEF v4l2_set_input, At, Failure
        <5>2. SameUse(device, device')
          BY <3>t, <4>4 DEF v4l2_set_input, Selected, SameUse, DeviceFields
        <5>3. camera[c].open
          BY <3>o, <5>1 DEF InUse
        <5> QED BY <3>0, <3>t, <3>s, <5>1, <5>2, <5>3, MovesOn DEF Freeing
      <4>5. CASE Skip(c)
        <5>1. camera[c].at = "skip" /\ camera[c].open
          BY <3>o, <4>5 DEF Skip, InUse
        <5>2. DOMAIN videoLog' = DOMAIN videoLog
          BY <4>5 DEF Skip, Failure
        <5>3. SameUse(device, device')
          <6>1. CASE device' = device
            BY <6>1 DEF SameUse
          <6>2. CASE \E r \in v4l2_next(device) : device' = r.dev
            BY <3>t, <6>2, NextKeepsUse
          <6> QED BY <4>5, <6>1, <6>2 DEF Skip
        <5>4. \/ camera' = [camera EXCEPT ![c].at = "next", ![c].skipped = 0]
              \/ camera' = [camera EXCEPT ![c].skipped = @ + 1]
          BY <4>5 DEF Skip
        <5>5. /\ DOMAIN camera' = Cameras /\ DOMAIN camera'[c] = CameraFields /\ camera'[c].open
              /\ camera'[c].at \in {"next", "skip"}
              /\ \A x \in Cameras \ {c} : camera'[x] = camera[x]
          BY <3>t, <5>1, <5>4 DEF CameraFields
        <5> QED BY <3>0, <3>t, <5>1, <5>2, <5>3, <5>5, MovesOn DEF Freeing
      <4>6. CASE vid_next(c)
        <5>1. camera[c].at \in {"next", "read"} /\ camera[c].open
          BY <3>o, <4>6 DEF vid_next, InUse
        <5>2. PICK r \in v4l2_next(device) :
                /\ videoLog' = IF r.fails THEN Failure(FALSE) ELSE videoLog
                /\ device' = Turn(r.dev)
                /\ \/ r.ret = 0 /\ camera' = [camera EXCEPT ![c].at = "loop", ![c].picture = r.frame.of]
                   \/ r.ret < 0 /\ At(c, "close")
                   \/ r.ret > 0 /\ \E at \in Missed : At(c, at)
          BY <4>6 DEF vid_next
        <5>3. SameUse(device, r.dev)
          BY <3>t, NextKeepsUse
        <5>4. DOMAIN videoLog' = DOMAIN videoLog
          BY <5>2 DEF Failure
        <5>5. SameUse(device, device')
          <6>1. SameUse(r.dev, Turn(r.dev))
            BY <3>t, <5>3 DEF Turn, SameUse, DeviceFields
          <6> QED BY <5>2, <5>3, <6>1 DEF SameUse
        <5>6. \/ camera' = [camera EXCEPT ![c].at = "loop", ![c].picture = r.frame.of]
              \/ camera' = [camera EXCEPT ![c].at = "close"]
              \/ camera' = [camera EXCEPT ![c].at = "loop"]
          BY <5>2 DEF At, Missed
        <5>7. /\ DOMAIN camera' = Cameras /\ DOMAIN camera'[c] = CameraFields /\ camera'[c].open
              /\ camera'[c].at \in {"loop", "close"}
              /\ \A x \in Cameras \ {c} : camera'[x] = camera[x]
          BY <3>t, <5>1, <5>6 DEF CameraFields
        <5> QED BY <3>0, <3>t, <5>1, <5>4, <5>5, <5>7, MovesOn DEF Freeing
      <4>7. CASE vid_close(c)
        <5>1. camera[c].at = "close" /\ camera[c].open /\ CloseBy(c, "loop")
          BY <3>o, <4>7 DEF vid_close
        <5> QED BY <3>0, <5>1, CloseKeeps
      <4>8. CASE Free(c)
        BY <3>0, <4>8, FreeKeeps
      <4> QED BY <3>2, <4>1, <4>2, <4>3, <4>4, <4>5, <4>6, <4>7, <4>8 DEF CameraLoop
    <3>3. ASSUME NEW c \in Cameras, EndCamera(c) PROVE UsersInv'
      <4>1. CASE camera[c].open
        <5>1. camera[c].at = "loop" /\ CloseBy(c, "ended")
          BY <3>3, <4>1 DEF EndCamera
        <5> QED BY <3>0, <4>1, <5>1, CloseKeeps
      <4>2. CASE ~camera[c].open
        <5>1. /\ UNCHANGED <<device, videoLog>> /\ camera[c].at = "loop"
              /\ camera' = [camera EXCEPT ![c].at = "ended"]
          BY <3>3, <4>2 DEF EndCamera, At
        <5>2. /\ DOMAIN camera' = Cameras /\ \A x \in Cameras \ {c} : camera'[x] = camera[x]
              /\ ~camera'[c].open /\ camera'[c].at = "ended"
              /\ \A x \in Cameras : DOMAIN camera'[x] = CameraFields
          BY <3>t, <4>2, <5>1 DEF CameraFields
        <5>3. Users' = Users
          BY <4>2, <5>2 DEF Users
        <5>4. VideoTyped'
          BY <3>t, <5>1, <5>2 DEF VideoTyped
        <5>5. \A x \in Cameras : Placed(x)'
          <6>1. Placed(c)'
            BY <5>2 DEF Placed
          <6> QED BY <3>0, <5>2, <6>1, UserFacts DEF Placed
        <5>6. LastFrees'
          <6>1. \A x \in Cameras : camera'[x].at \in Freeing => x # c /\ camera[x].at \in Freeing
            BY <5>2 DEF Freeing
          <6>2. LastFrees
            BY <3>0, UserFacts
          <6> QED BY <5>1, <6>1, <6>2 DEF LastFrees
        <5> QED BY <3>0, <5>1, <5>3, <5>4, <5>5, <5>6 DEF UsersInv, UsageCounts
      <4> QED BY <4>1, <4>2
    <3>4. ASSUME NEW c \in Cameras, Kill(c) PROVE UsersInv'
      <4>1. /\ InUse(c) /\ device' = device /\ DOMAIN videoLog' = DOMAIN videoLog
            /\ camera' = [camera EXCEPT ![c].open = FALSE, ![c].at = "loop", ![c].skipped = 0]
        BY <3>4 DEF Kill
      <4>2. /\ DOMAIN camera' = Cameras /\ \A x \in Cameras \ {c} : camera'[x] = camera[x]
            /\ ~camera'[c].open /\ camera'[c].at = "loop"
            /\ \A x \in Cameras : DOMAIN camera'[x] = CameraFields
        BY <3>t, <4>1 DEF CameraFields
      <4>3. Cardinality(Users') <= Cardinality(Users) /\ Users' \subseteq Users
            /\ Cardinality(Users') \in Nat
        <5>1. Users' \subseteq Users
          BY <4>2 DEF Users
        <5> QED BY <5>1, UsersFinite, FS_Subset, FS_CardinalityType
      <4>4. VideoTyped'
        BY <3>t, <4>1, <4>2 DEF VideoTyped
      <4>5. UsageCounts'
        <5>1. device'.usage = device.usage
          BY <4>1
        <5> QED BY <3>0, <4>3, <5>1, UserFacts DEF UsageCounts
      <4>6. \A x \in Cameras : Placed(x)'
        <5>1. Placed(c)'
          BY <4>2 DEF Placed
        <5> QED BY <3>0, <4>2, <5>1, UserFacts DEF Placed
      <4>7. LastFrees'
        <5>1. \A x \in Cameras : camera'[x].at \in Freeing => x # c /\ camera[x].at \in Freeing
          BY <4>2 DEF Freeing
        <5>2. LastFrees
          BY <3>0, UserFacts
        <5> QED BY <4>1, <5>1, <5>2 DEF LastFrees
      <4>8. ~device'.linked => Users' = {}
        BY <3>0, <4>1, <4>3, UserFacts
      <4> QED BY <4>4, <4>5, <4>6, <4>7, <4>8 DEF UsersInv
    <3> QED BY <2>2, <3>1, <3>2, <3>3, <3>4 DEF VideoNext
  <2> QED BY <2>1, <2>2
<1> QED BY <1>1, <1>2, PTL DEF VideoSpec

\* Whoever waits for a device or reads from it is counted among its users
\* (vid_start, vid_next, vid_close), so that nobody frees it meanwhile, with any
\* number of cameras and killed threads: until one comes to a device whose
\* last user has counted itself out and is about to unlink it.
THEOREM UsersAreCounted == VideoSpec => []UsedIsLive
<1>1. DeviceInv => UsedIsLive
  <2> SUFFICES ASSUME UsersInv, NEW c \in Cameras, InUse(c) PROVE device.usage > 0
    BY DEF DeviceInv, UsedIsLive
  <2>1. c \in Users
    <3>1. camera[c].open
      BY UserFacts DEF InUse, Placed
    <3> QED BY <3>1 DEF Users, InUse, Freeing
  <2> QED BY <2>1, UserFacts
<1> QED BY <1>1, DeviceKept, PTL

-----------------------------------------------------------------------------
(* The pictures in the buffers *)

\* The buffers the driver has, each once: those it has filled are first, among them
\* those from before the input was switched, and the others are from this input.
QueueIs(q, input) ==
  /\ q \in Seq([buf : Buffers, of : Cameras \cup {Empty}, old : BOOLEAN])
  /\ \A j, k \in DOMAIN q : q[j].buf = q[k].buf => j = k
  /\ \E m \in 0 .. Len(q) : \A k \in DOMAIN q : q[k].of # Empty <=> k <= m
  /\ \A j, k \in DOMAIN q : q[j].old /\ k <= j => q[k].old
  /\ \A k \in DOMAIN q : q[k].old => q[k].of # Empty
  /\ \A k \in DOMAIN q : q[k].of # Empty /\ ~q[k].old => q[k].of = input
DeviceIs(d) ==
  /\ QueueIs(d.queue, d.input)
  /\ d.index \in Buffers /\ d.pframe \in Buffers \cup {Nobody}
  /\ d.v4l2 => d.input \in Cameras
  /\ d.v4l2 /\ d.pframe = Nobody => d.queue # <<>>
NoneOld(q) == \A k \in DOMAIN q : ~q[k].old

\* VIDIOC_QBUF of a buffer the driver does not have.
LEMMA QueueingBuffer ==
  ASSUME NEW q, NEW input, QueueIs(q, input), NEW i \in Buffers, ~Queued(q, i)
  PROVE  /\ QueueIs(Append(q, EmptyBuffer(i)), input)
         /\ \A k \in DOMAIN Append(q, EmptyBuffer(i)) :
              Append(q, EmptyBuffer(i))[k].old => k \in DOMAIN q /\ q[k].old
<1> DEFINE B == [buf : Buffers, of : Cameras \cup {Empty}, old : BOOLEAN]
           e == EmptyBuffer(i)
           a == Append(q, e)
<1>1. q \in Seq(B) /\ e \in B /\ e.buf = i /\ e.of = Empty /\ e.old = FALSE
  BY DEF QueueIs, EmptyBuffer
<1> HIDE DEF B, e
<1>2. \A k \in DOMAIN q : q[k] \in B
  BY <1>1
<1>3. /\ a \in Seq(B) /\ Len(q) \in Nat /\ Len(a) = Len(q) + 1
      /\ DOMAIN q = 1 .. Len(q) /\ DOMAIN a = 1 .. Len(q) + 1
      /\ \A k \in DOMAIN q : a[k] = q[k]
      /\ a[Len(q) + 1] = e
  BY <1>1
<1> HIDE DEF a
<1>4. \A j, k \in DOMAIN a : a[j].buf = a[k].buf => j = k
  <2>1. \A k \in DOMAIN q : q[k].buf # i
    BY DEF Queued
  <2>2. \A j, k \in DOMAIN q : q[j].buf = q[k].buf => j = k
    BY DEF QueueIs
  <2> QED BY <1>1, <1>3, <2>1, <2>2
<1>5. \E m \in 0 .. Len(a) : \A k \in DOMAIN a : a[k].of # Empty <=> k <= m
  <2>1. PICK m \in 0 .. Len(q) : \A k \in DOMAIN q : q[k].of # Empty <=> k <= m
    BY DEF QueueIs
  <2>2. m \in 0 .. Len(a) /\ \A k \in DOMAIN a : a[k].of # Empty <=> k <= m
    BY <1>1, <1>3, <2>1
  <2> QED BY <2>2
<1>6. \A k \in DOMAIN a : a[k].old => k \in DOMAIN q /\ q[k].old
  BY <1>1, <1>3
<1>7. \A j, k \in DOMAIN a : a[j].old /\ k <= j => a[k].old
  <2>1. \A j, k \in DOMAIN q : q[j].old /\ k <= j => q[k].old
    BY DEF QueueIs
  <2> QED BY <1>3, <1>6, <2>1
<1>8. \A k \in DOMAIN a : a[k].old => a[k].of # Empty
  <2>1. \A k \in DOMAIN q : q[k].old => q[k].of # Empty
    BY DEF QueueIs
  <2> QED BY <1>3, <1>6, <2>1
<1>9. \A k \in DOMAIN a : a[k].of # Empty /\ ~a[k].old => a[k].of = input
  <2>1. \A k \in DOMAIN q : q[k].of # Empty /\ ~q[k].old => q[k].of = input
    BY DEF QueueIs
  <2> QED BY <1>1, <1>3, <2>1
<1>10. QueueIs(a, input)
  BY <1>3, <1>4, <1>5, <1>7, <1>8, <1>9 DEF QueueIs, B
<1> QED BY <1>6, <1>10 DEF a, e

\* VIDIOC_DQBUF takes the first buffer: if that is not an old one, none is.
LEMMA TakingBuffer ==
  ASSUME NEW q, NEW input, QueueIs(q, input), q # <<>>
  PROVE  /\ QueueIs(Tail(q), input)
         /\ \A k \in DOMAIN Tail(q) : Tail(q)[k].old => k + 1 \in DOMAIN q /\ q[k + 1].old
         /\ ~Head(q).old => NoneOld(Tail(q))
         /\ Head(q).buf \in Buffers /\ Head(q).old \in BOOLEAN
         /\ Head(q).of # Empty /\ ~Head(q).old => Head(q).of = input
         /\ Head(q).old <=> 1 \in DOMAIN q /\ q[1].old
<1> DEFINE B == [buf : Buffers, of : Cameras \cup {Empty}, old : BOOLEAN]
           t == Tail(q)
<1>1. q \in Seq(B)
  BY DEF QueueIs
<1>b. \A b \in B : b.buf \in Buffers /\ b.old \in BOOLEAN
  OBVIOUS
<1> HIDE DEF B
<1>2. \A k \in DOMAIN q : q[k] \in B
  BY <1>1
<1>3. /\ t \in Seq(B) /\ Len(q) \in Nat /\ Len(q) > 0 /\ Len(t) = Len(q) - 1
      /\ DOMAIN q = 1 .. Len(q) /\ DOMAIN t = 1 .. Len(q) - 1
      /\ \A k \in DOMAIN t : t[k] = q[k + 1] /\ k + 1 \in DOMAIN q
      /\ Head(q) = q[1] /\ 1 \in DOMAIN q
  BY <1>1
<1> HIDE DEF t
<1>4. \A j, k \in DOMAIN t : t[j].buf = t[k].buf => j = k
  <2>1. \A j, k \in DOMAIN q : q[j].buf = q[k].buf => j = k
    BY DEF QueueIs
  <2> QED BY <1>3, <2>1
<1>5. \E m \in 0 .. Len(t) : \A k \in DOMAIN t : t[k].of # Empty <=> k <= m
  <2>1. PICK m \in 0 .. Len(q) : \A k \in DOMAIN q : q[k].of # Empty <=> k <= m
    BY DEF QueueIs
  <2> DEFINE n == IF m = 0 THEN 0 ELSE m - 1
  <2>2. n \in 0 .. Len(t) /\ \A k \in DOMAIN t : k <= n <=> k + 1 <= m
    BY <1>3
  <2>3. \A k \in DOMAIN t : t[k].of # Empty <=> k <= n
    <3> HIDE DEF n
    <3> QED BY <1>3, <2>1, <2>2
  <2> HIDE DEF n
  <2> QED BY <2>2, <2>3
<1>6. \A k \in DOMAIN t : t[k].old => k + 1 \in DOMAIN q /\ q[k + 1].old
  BY <1>3
<1>o. \A j, k \in DOMAIN q : q[j].old /\ k <= j => q[k].old
  BY DEF QueueIs
<1>7. \A j, k \in DOMAIN t : t[j].old /\ k <= j => t[k].old
  BY <1>3, <1>o
<1>8. \A k \in DOMAIN t : t[k].old => t[k].of # Empty
  <2>1. \A k \in DOMAIN q : q[k].old => q[k].of # Empty
    BY DEF QueueIs
  <2> QED BY <1>3, <2>1
<1>n. \A k \in DOMAIN q : q[k].of # Empty /\ ~q[k].old => q[k].of = input
  BY DEF QueueIs
<1>9. \A k \in DOMAIN t : t[k].of # Empty /\ ~t[k].old => t[k].of = input
  BY <1>3, <1>n
<1>10. QueueIs(t, input)
  BY <1>3, <1>4, <1>5, <1>7, <1>8, <1>9 DEF QueueIs, B
<1>11. ~Head(q).old => NoneOld(t)
  BY <1>3, <1>o, <1>6 DEF NoneOld
<1> QED BY <1>2, <1>b, <1>3, <1>6, <1>10, <1>11, <1>n DEF t

\* What v4l2_next leaves in the device, and what it answers with.
Keeps(d, e) == /\ DOMAIN e = DOMAIN d
               /\ e.input = d.input /\ e.v4l2 = d.v4l2 /\ e.owner = d.owner /\ e.locked = d.locked
LEMMA NextKeepsDevice ==
  ASSUME NEW d, DOMAIN d = DeviceFields, DeviceIs(d), NEW r \in v4l2_next(d)
  PROVE  /\ DeviceIs(r.dev) /\ Keeps(d, r.dev) /\ DOMAIN r = {"dev", "ret", "frame", "fails"}
         /\ NoneOld(d.queue) => NoneOld(r.dev.queue)
         /\ r.ret = 0 =>
              /\ d.v4l2 /\ r.frame.old \in BOOLEAN
              /\ ~r.frame.old => r.frame.of = d.input /\ NoneOld(r.dev.queue)
              /\ r.frame.old => ~NoneOld(d.queue)
              /\ \A k \in DOMAIN r.dev.queue : r.dev.queue[k].old => k + 1 \in DOMAIN d.queue /\ d.queue[k + 1].old
<1> DEFINE q == [d EXCEPT !.queue = IF d.pframe = Nobody THEN @ ELSE Append(@, EmptyBuffer(d.index))]
           first == Head(q.queue)
           taken == [q EXCEPT !.queue = Tail(@), !.index = first.buf, !.pframe = first.buf]
           p == IF d.pframe = Nobody THEN 1 ELSE (d.pframe % MmapBuffers) + 1
           eio == [q EXCEPT !.index = p, !.pframe = p]
           again == [q EXCEPT !.index = 1]
<1>0. /\ QueueIs(d.queue, d.input) /\ d.index \in Buffers /\ d.pframe \in Buffers \cup {Nobody}
      /\ d.v4l2 => d.input \in Cameras
      /\ d.v4l2 /\ d.pframe = Nobody => d.queue # <<>>
  BY DEF DeviceIs
<1>1. CASE ~d.v4l2 \/ (d.pframe # Nobody /\ Queued(d.queue, d.index))
  <2>1. r = Result(d, -2, NoFrame, FALSE) \/ r = Result(d, -1, NoFrame, FALSE)
    BY <1>1 DEF v4l2_next
  <2>2. r.dev = d /\ r.ret # 0 /\ DOMAIN r = {"dev", "ret", "frame", "fails"}
    BY <2>1 DEF Result
  <2> QED BY <2>2 DEF Keeps
<1>2. CASE d.v4l2 /\ ~(d.pframe # Nobody /\ Queued(d.queue, d.index))
  <2>1. r \in (IF first.of = Empty THEN {} ELSE {Result(taken, 0, first, FALSE)})
              \cup (IF ~DriverFails THEN {} ELSE {Result(eio, 1, NoFrame, TRUE), Result(again, 1, NoFrame, TRUE),
                                                  Result(again, -1, NoFrame, TRUE)}
                                                 \cup Undecodable(taken, first))
    BY <1>2 DEF v4l2_next
  <2>2. /\ DOMAIN q = DeviceFields /\ Keeps(d, q) /\ q.index = d.index /\ q.pframe = d.pframe
        /\ q.queue = IF d.pframe = Nobody THEN d.queue ELSE Append(d.queue, EmptyBuffer(d.index))
    BY DEF Keeps, DeviceFields
  <2> HIDE DEF q
  <2>3. /\ QueueIs(q.queue, q.input) /\ q.queue # <<>>
        /\ \A k \in DOMAIN q.queue : q.queue[k].old => k \in DOMAIN d.queue /\ d.queue[k].old
    <3>1. CASE d.pframe = Nobody
      BY <1>0, <1>2, <2>2, <3>1 DEF Keeps
    <3>2. CASE d.pframe # Nobody
      <4>1. d.queue \in Seq([buf : Buffers, of : Cameras \cup {Empty}, old : BOOLEAN])
        BY <1>0 DEF QueueIs
      <4>2. Append(d.queue, EmptyBuffer(d.index)) # <<>>
        BY <4>1
      <4>3. q.queue = Append(d.queue, EmptyBuffer(d.index)) /\ q.input = d.input
        BY <2>2, <3>2 DEF Keeps
      <4>4. ~Queued(d.queue, d.index)
        BY <1>2, <3>2
      <4> QED BY <1>0, <4>2, <4>3, <4>4, QueueingBuffer
    <3> QED BY <3>1, <3>2
  <2>4. NoneOld(d.queue) => NoneOld(q.queue)
    BY <2>3 DEF NoneOld
  <2>p. p \in Buffers /\ 1 \in Buffers /\ Nobody \notin Buffers
    BY <1>0, VideoAssumption DEF Buffers, Nobody
  <2> HIDE DEF p
  <2>5. DeviceIs(eio) /\ Keeps(d, eio) /\ eio.queue = q.queue
    <3>1. Keeps(d, eio) /\ eio.queue = q.queue /\ eio.index = p /\ eio.pframe = p
      BY <2>2 DEF Keeps, DeviceFields
    <3> HIDE DEF eio
    <3> QED BY <1>0, <2>2, <2>3, <2>p, <3>1 DEF DeviceIs, Keeps
  <2>6. DeviceIs(again) /\ Keeps(d, again) /\ again.queue = q.queue
    <3>1. Keeps(d, again) /\ again.queue = q.queue /\ again.index = 1 /\ again.pframe = q.pframe
      BY <2>2 DEF Keeps, DeviceFields
    <3> HIDE DEF again
    <3> QED BY <1>0, <2>2, <2>3, <2>p, <3>1 DEF DeviceIs, Keeps
  <2>7. /\ QueueIs(Tail(q.queue), q.input)
        /\ \A k \in DOMAIN Tail(q.queue) : Tail(q.queue)[k].old => k + 1 \in DOMAIN q.queue /\ q.queue[k + 1].old
        /\ ~first.old => NoneOld(Tail(q.queue))
        /\ first.buf \in Buffers /\ first.old \in BOOLEAN
        /\ first.of # Empty /\ ~first.old => first.of = q.input
        /\ first.old => 1 \in DOMAIN q.queue /\ q.queue[1].old
    BY <2>3, TakingBuffer
  <2> HIDE DEF first
  <2>8. DeviceIs(taken) /\ Keeps(d, taken) /\ taken.queue = Tail(q.queue)
    <3>1. Keeps(d, taken) /\ taken.queue = Tail(q.queue) /\ taken.index = first.buf /\ taken.pframe = first.buf
      BY <2>2 DEF Keeps, DeviceFields
    <3> HIDE DEF taken
    <3> QED BY <1>0, <2>2, <2>7, <2>p, <3>1 DEF DeviceIs, Keeps
  <2>9. \A k \in DOMAIN taken.queue : taken.queue[k].old => k + 1 \in DOMAIN d.queue /\ d.queue[k + 1].old
    BY <2>3, <2>7, <2>8
  <2>10. NoneOld(d.queue) => NoneOld(taken.queue)
    BY <2>9 DEF NoneOld
  <2>11. first.old => ~NoneOld(d.queue)
    BY <2>3, <2>7 DEF NoneOld
  <2> HIDE DEF taken, eio, again
  <2>12. CASE \/ r = Result(eio, 1, NoFrame, TRUE) \/ r = Result(again, 1, NoFrame, TRUE)
              \/ r = Result(again, -1, NoFrame, TRUE)
    <3>1. r.dev \in {eio, again} /\ r.ret # 0 /\ DOMAIN r = {"dev", "ret", "frame", "fails"}
      BY <2>12 DEF Result
    <3> QED BY <2>4, <2>5, <2>6, <3>1
  <2>13. CASE r = Result(taken, 2, first, TRUE)
    <3>1. r.dev = taken /\ r.ret # 0 /\ DOMAIN r = {"dev", "ret", "frame", "fails"}
      BY <2>13 DEF Result
    <3> QED BY <2>8, <2>10, <3>1
  <2>14. CASE r = Result(taken, 0, first, FALSE) /\ first.of # Empty
    <3>1. r.dev = taken /\ r.frame = first /\ DOMAIN r = {"dev", "ret", "frame", "fails"}
      BY <2>14 DEF Result
    <3>2. ~first.old => first.of = d.input /\ NoneOld(taken.queue)
      BY <2>2, <2>7, <2>8, <2>14 DEF Keeps
    <3> QED BY <1>2, <2>7, <2>8, <2>9, <2>10, <2>11, <3>1, <3>2
  <2>15. \/ r = Result(eio, 1, NoFrame, TRUE) \/ r = Result(again, 1, NoFrame, TRUE)
         \/ r = Result(again, -1, NoFrame, TRUE) \/ r = Result(taken, 2, first, TRUE)
         \/ r = Result(taken, 0, first, FALSE) /\ first.of # Empty
    BY <2>1 DEF Undecodable
  <2> QED BY <2>12, <2>13, <2>14, <2>15
<1> QED BY <1>1, <1>2

\* Not more buffers than there are.
LEMMA QueueIsShort ==
  ASSUME NEW q, NEW input, QueueIs(q, input)
  PROVE  Len(q) <= MmapBuffers
<1> DEFINE B == [buf : Buffers, of : Cameras \cup {Empty}, old : BOOLEAN]
           f == [k \in 1 .. Len(q) |-> q[k].buf]
<1>2. q \in Seq(B)
  BY DEF QueueIs
<1>3. \A b \in B : b.buf \in 1 .. MmapBuffers
  BY DEF Buffers
<1>4. \A j, k \in DOMAIN q : q[j].buf = q[k].buf => j = k
  BY DEF QueueIs
<1> HIDE DEF B
<1>5. Len(q) \in Nat /\ DOMAIN q = 1 .. Len(q) /\ \A k \in 1 .. Len(q) : q[k] \in B
  BY <1>2
<1>6. f \in [1 .. Len(q) -> 1 .. MmapBuffers]
  BY <1>3, <1>5
<1>7. \A j, k \in 1 .. Len(q) : f[j] = f[k] => j = k
  BY <1>4, <1>5
<1> HIDE DEF f
<1>8. ExistsInjection(1 .. Len(q), 1 .. MmapBuffers)
  BY <1>6, <1>7, Fun_IsInj DEF ExistsInjection
<1>9. MmapBuffers \in Nat
  BY VideoAssumption
<1> QED BY <1>5, <1>8, <1>9, Fun_NatInjLeq

Reading == {"read", "skip", "next"}

\* Who reads owns the device and, past the switch, has selected its input.  Buffers
\* from before the switch are left only while somebody skips them: with those that
\* were skipped they are not more than there are buffers.
TurnInv ==
  /\ \A c \in Cameras : camera[c].at \in Reading => device.owner = c
  /\ \A c \in Cameras : camera[c].at \in {"skip", "next"} /\ device.v4l2 /\ ~videoLog.spoiled => device.input = c
  /\ \A c \in Cameras : camera[c].skipped \in Nat /\ (camera[c].at # "skip" => camera[c].skipped = 0)
  /\ device.owner # Nobody => device.locked
  /\ ~videoLog.spoiled =>
       \A k \in DOMAIN device.queue : device.queue[k].old =>
         \E c \in Cameras : camera[c].at = "skip" /\ k + camera[c].skipped <= MmapBuffers

PicturesInv == DeviceIs(device) /\ TurnInv

SameBuffers(d, e) == /\ e.queue = d.queue /\ e.index = d.index /\ e.pframe = d.pframe
                     /\ e.input = d.input /\ e.v4l2 = d.v4l2

\* A camera that does not read any more, or does not yet.
LEMMA Elsewhere ==
  ASSUME PicturesInv, NEW c \in Cameras, SameBuffers(device, device'),
         \A x \in Cameras \ {c} : camera'[x] = camera[x],
         camera'[c].at \notin Reading, camera'[c].skipped = 0,
         device'.owner = device.owner \/ (device.owner = c /\ device'.owner = Nobody),
         device'.owner # Nobody => device'.locked,
         videoLog.spoiled \/ camera[c].at = "skip" => videoLog'.spoiled
  PROVE  PicturesInv'
<1>1. DeviceIs(device')
  BY DEF PicturesInv, DeviceIs, SameBuffers
<1>2. \A x \in Cameras : camera'[x].at \in Reading => x # c /\ camera[x].at \in Reading
  OBVIOUS
<1>3. \A x \in Cameras : camera'[x].at \in Reading => device'.owner = x
  BY <1>2 DEF PicturesInv, TurnInv
<1>4. \A x \in Cameras : camera'[x].at \in {"skip", "next"} /\ device'.v4l2 /\ ~videoLog'.spoiled => device'.input = x
  BY DEF PicturesInv, TurnInv, SameBuffers, Reading
<1>5. \A x \in Cameras : camera'[x].skipped \in Nat /\ (camera'[x].at # "skip" => camera'[x].skipped = 0)
  BY DEF PicturesInv, TurnInv
<1>6. ~videoLog'.spoiled =>
         \A k \in DOMAIN device'.queue : device'.queue[k].old =>
           \E x \in Cameras : camera'[x].at = "skip" /\ k + camera'[x].skipped <= MmapBuffers
  <2> SUFFICES ASSUME ~videoLog'.spoiled, NEW k \in DOMAIN device'.queue, device'.queue[k].old
               PROVE  \E x \in Cameras : camera'[x].at = "skip" /\ k + camera'[x].skipped <= MmapBuffers
    OBVIOUS
  <2>1. ~videoLog.spoiled /\ camera[c].at # "skip"
    OBVIOUS
  <2>2. k \in DOMAIN device.queue /\ device.queue[k].old
    BY DEF SameBuffers
  <2>3. PICK x \in Cameras : camera[x].at = "skip" /\ k + camera[x].skipped <= MmapBuffers
    BY <2>1, <2>2 DEF PicturesInv, TurnInv
  <2> QED BY <2>1, <2>3
<1> QED BY <1>1, <1>3, <1>4, <1>5, <1>6 DEF PicturesInv, TurnInv

\* Nobody reads from a device that is not open, or that its last user frees.
LEMMA NobodyReads ==
  ASSUME UsersInv, ~device.linked \/ \E c \in Cameras : camera[c].at \in Freeing
  PROVE  \A x \in Cameras : camera[x].at \notin Reading
<1>1. Users = {}
  <2>1. CASE ~device.linked
    BY <2>1, UserFacts
  <2>2. ASSUME NEW c \in Cameras, camera[c].at \in Freeing PROVE Users = {}
    <3>1. device.usage = 0
      BY <2>2 DEF UsersInv, LastFrees
    <3> QED BY <3>1, UserFacts
  <2> QED BY <2>1, <2>2
<1>2. \A x \in Cameras : camera[x].at \in Reading => x \in Users
  BY UserFacts DEF Placed, Reading, Users, Freeing
<1> QED BY <1>1, <1>2

\* A new device, or none.
LEMMA NewDevice ==
  ASSUME PicturesInv, NEW c \in Cameras, \A x \in Cameras : camera'[x].at \notin Reading,
         \A x \in Cameras : camera'[x].skipped = 0,
         device' \in {NoDevice, Started(c, TRUE), Started(c, FALSE)}
  PROVE  PicturesInv'
<1>0. MmapBuffers \in Nat /\ 1 \in Buffers /\ Nobody \notin Cameras
  BY VideoAssumption DEF Buffers, Nobody
<1>1. /\ device'.index = 1 /\ device'.pframe = Nobody /\ device'.owner = Nobody
      /\ device'.v4l2 => device'.input = c /\ device'.queue = AllQueued
      /\ ~device'.v4l2 => device'.queue = <<>>
  <2>1. CASE device' = NoDevice
    BY <2>1 DEF NoDevice
  <2>2. CASE device' = Started(c, TRUE)
    BY <2>2 DEF NoDevice, Started, Selected
  <2>3. CASE device' = Started(c, FALSE)
    BY <2>3 DEF NoDevice, Started, Selected
  <2> QED BY <2>1, <2>2, <2>3
<1>2. \A input : QueueIs(<<>>, input) /\ NoneOld(<<>>)
  <2>1. DOMAIN <<>> = {} /\ Len(<<>>) = 0
    OBVIOUS
  <2> QED BY <2>1 DEF QueueIs, NoneOld
<1>3. \A input : QueueIs(AllQueued, input) /\ NoneOld(AllQueued) /\ AllQueued # <<>>
  <2> DEFINE B == [buf : Buffers, of : Cameras \cup {Empty}, old : BOOLEAN]
             q == AllQueued
  <2>1. DOMAIN q = 1 .. MmapBuffers /\ \A k \in DOMAIN q : q[k] = EmptyBuffer(k)
    BY DEF AllQueued, Buffers
  <2>2. \A k \in Buffers : /\ EmptyBuffer(k) \in B /\ EmptyBuffer(k).buf = k
                           /\ EmptyBuffer(k).of = Empty /\ ~EmptyBuffer(k).old
    BY DEF EmptyBuffer
  <2>3. q \in [1 .. MmapBuffers -> B]
    BY <2>1, <2>2 DEF AllQueued, Buffers
  <2> HIDE DEF B
  <2>4. q \in Seq(B) /\ Len(q) = MmapBuffers
    BY <1>0, <2>3, <2>1
  <2> HIDE DEF q
  <2>5. 0 \in 0 .. Len(q) /\ \A k \in DOMAIN q : (q[k].of # Empty <=> k <= 0)
    BY <1>0, <2>1, <2>2, <2>4 DEF Buffers
  <2>6. q # <<>>
    BY <1>0, <2>4, VideoAssumption
  <2>7. \A k \in DOMAIN q : q[k].buf = k /\ ~q[k].old /\ q[k].of = Empty
    BY <2>1, <2>2 DEF Buffers
  <2>8. \A input : QueueIs(q, input)
    BY <2>4, <2>5, <2>7 DEF QueueIs, B
  <2> QED BY <2>6, <2>7, <2>8 DEF NoneOld, q
<1>4. DeviceIs(device') /\ NoneOld(device'.queue)
  BY <1>0, <1>1, <1>2, <1>3 DEF DeviceIs
<1>5. device'.owner = Nobody /\ \A x \in Cameras : camera'[x].at \notin {"skip", "next"}
  BY <1>1 DEF Reading
<1> QED BY <1>4, <1>5 DEF PicturesInv, TurnInv, NoneOld

\* The driver fills the first buffer that is empty.
LEMMA CaptureFills == ASSUME PicturesInv, DOMAIN device = DeviceFields, Capture PROVE PicturesInv'
<1> DEFINE q == device.queue
           n == Cardinality(Filled(q)) + 1
           B == [buf : Buffers, of : Cameras \cup {Empty}, old : BOOLEAN]
           r == device'.queue
<1>1. /\ device.v4l2 /\ Filled(q) # DOMAIN q /\ UNCHANGED <<camera, videoLog>>
      /\ device' = [device EXCEPT !.queue[n].of = device.input]
  BY DEF Capture
<1>2. QueueIs(q, device.input) /\ device.input \in Cameras
  BY <1>1 DEF PicturesInv, DeviceIs
<1>3. /\ r = [q EXCEPT ![n].of = device.input]
      /\ device'.index = device.index /\ device'.pframe = device.pframe
      /\ device'.input = device.input /\ device'.v4l2 = device.v4l2
      /\ device'.owner = device.owner /\ device'.locked = device.locked
  BY <1>1 DEF DeviceFields
<1>4. PICK m \in 0 .. Len(q) : \A k \in DOMAIN q : q[k].of # Empty <=> k <= m
  BY <1>2 DEF QueueIs
<1>5. q \in Seq(B)
  BY <1>2 DEF QueueIs
<1>e. \A b \in B : /\ [b EXCEPT !.of = device.input] \in B
                   /\ [b EXCEPT !.of = device.input].of = device.input
                   /\ [b EXCEPT !.of = device.input].old = b.old
                   /\ [b EXCEPT !.of = device.input].buf = b.buf
  BY <1>2
<1>i. device.input # Empty
  BY <1>2, VideoAssumption DEF Empty, Nobody
<1> HIDE DEF q, r, B
<1>6. Len(q) \in Nat /\ DOMAIN q = 1 .. Len(q) /\ \A k \in DOMAIN q : q[k] \in B
  BY <1>5
<1>7. n = m + 1 /\ n \in DOMAIN q
  <2>1. Filled(q) = 1 .. m
    BY <1>4, <1>6 DEF Filled
  <2>2. Cardinality(1 .. m) = m
    BY <1>4, <1>6, FS_Interval
  <2>3. m # Len(q)
    BY <1>1, <1>6, <2>1
  <2>4. m \in Nat /\ m < Len(q)
    <3>1. Len(q) \in Nat /\ m \in 0 .. Len(q)
      BY <1>4, <1>6
    <3> QED BY <2>3, <3>1
  <2>5. n = m + 1
    BY <2>1, <2>2
  <2> QED BY <1>6, <2>4, <2>5
<1> HIDE DEF n
<1>8. /\ r \in Seq(B) /\ Len(r) = Len(q) /\ DOMAIN r = DOMAIN q
      /\ \A k \in DOMAIN q : k # n => r[k] = q[k]
      /\ r[n].of = device.input /\ r[n].old = q[n].old /\ r[n].buf = q[n].buf
  <2>1. /\ DOMAIN r = DOMAIN q /\ \A k \in DOMAIN q : k # n => r[k] = q[k]
        /\ r[n] = [q[n] EXCEPT !.of = device.input]
    BY <1>3, <1>6, <1>7
  <2>2. r[n] \in B /\ r[n].of = device.input /\ r[n].old = q[n].old /\ r[n].buf = q[n].buf
    BY <1>e, <1>6, <1>7, <2>1
  <2>3. r \in [1 .. Len(q) -> B]
    BY <1>3, <1>6, <2>1, <2>2
  <2> QED BY <1>6, <2>1, <2>2, <2>3
<1>9. \A k \in DOMAIN q : r[k].old = q[k].old /\ r[k].buf = q[k].buf
  BY <1>8
<1>10. QueueIs(r, device.input)
  <2>1. \A j, k \in DOMAIN r : r[j].buf = r[k].buf => j = k
    BY <1>2, <1>8, <1>9 DEF QueueIs
  <2>2. m + 1 \in 0 .. Len(r) /\ \A k \in DOMAIN r : (r[k].of # Empty <=> k <= m + 1)
    <3>1. \A k \in DOMAIN q : (k <= m + 1 <=> k <= m \/ k = n)
      BY <1>4, <1>6, <1>7
    <3> QED BY <1>4, <1>6, <1>7, <1>8, <1>i, <3>1
  <2>3. \A j, k \in DOMAIN r : r[j].old /\ k <= j => r[k].old
    BY <1>2, <1>8, <1>9 DEF QueueIs
  <2>4. \A k \in DOMAIN r : r[k].old => r[k].of # Empty
    <3>1. \A k \in DOMAIN q : q[k].old => q[k].of # Empty
      BY <1>2 DEF QueueIs
    <3> QED BY <1>8, <1>9, <1>i, <3>1
  <2>5. \A k \in DOMAIN r : r[k].of # Empty /\ ~r[k].old => r[k].of = device.input
    <3>1. \A k \in DOMAIN q : q[k].of # Empty /\ ~q[k].old => q[k].of = device.input
      BY <1>2 DEF QueueIs
    <3> QED BY <1>8, <3>1
  <2> QED BY <1>8, <2>1, <2>2, <2>3, <2>4, <2>5 DEF QueueIs, B
<1>11. q # <<>> => r # <<>>
  BY <1>6, <1>8
<1>12. DeviceIs(device')
  BY <1>3, <1>10, <1>11 DEF PicturesInv, DeviceIs, q, r
<1>13. TurnInv'
  <2>1. TurnInv
    BY DEF PicturesInv
  <2>2. /\ camera' = camera /\ videoLog' = videoLog
        /\ DOMAIN device'.queue = DOMAIN device.queue
        /\ \A k \in DOMAIN device.queue : device'.queue[k].old = device.queue[k].old
    BY <1>1, <1>8, <1>9 DEF q, r
  <2> QED BY <1>3, <2>1, <2>2 DEF TurnInv
<1> QED BY <1>12, <1>13 DEF PicturesInv

\* v4l2_set_input: what was captured before is old, whatever is selected next.
LEMMA SwitchIs ==
  ASSUME NEW q, NEW old, QueueIs(q, old), NEW input
  PROVE  QueueIs(Before(q), input) /\ (q # <<>> => Before(q) # <<>>) /\ Len(Before(q)) = Len(q)
<1> DEFINE B == [buf : Buffers, of : Cameras \cup {Empty}, old : BOOLEAN]
           b == Before(q)
<1>1. q \in Seq(B)
  BY DEF QueueIs
<1>2. \A x \in B : \A o \in BOOLEAN : /\ [x EXCEPT !.old = o] \in B /\ [x EXCEPT !.old = o].old = o
                                      /\ [x EXCEPT !.old = o].of = x.of /\ [x EXCEPT !.old = o].buf = x.buf
  OBVIOUS
<1> HIDE DEF B
<1>3. Len(q) \in Nat /\ DOMAIN q = 1 .. Len(q) /\ \A k \in DOMAIN q : q[k] \in B
  BY <1>1
<1>4. DOMAIN b = DOMAIN q /\ \A k \in DOMAIN q : b[k] = [q[k] EXCEPT !.old = q[k].of # Empty]
  BY DEF Before
<1>5. \A k \in DOMAIN q : b[k] \in B /\ (b[k].old <=> q[k].of # Empty) /\ b[k].of = q[k].of /\ b[k].buf = q[k].buf
  <2> TAKE k \in DOMAIN q
  <2>1. (q[k].of # Empty) \in BOOLEAN /\ q[k] \in B
    BY <1>3
  <2> QED BY <1>2, <1>4, <2>1
<1>6. b = [k \in DOMAIN q |-> b[k]]
  BY DEF Before
<1> HIDE DEF b
<1>7. b \in Seq(B) /\ Len(b) = Len(q)
  <2>1. b \in [1 .. Len(q) -> B]
    BY <1>3, <1>5, <1>6
  <2> QED BY <1>3, <1>4, <2>1
<1>8. \A j, k \in DOMAIN b : b[j].buf = b[k].buf => j = k
  BY <1>4, <1>5 DEF QueueIs
<1>9. PICK m \in 0 .. Len(q) : \A k \in DOMAIN q : q[k].of # Empty <=> k <= m
  BY DEF QueueIs
<1>10. m \in 0 .. Len(b) /\ \A k \in DOMAIN b : (b[k].of # Empty <=> k <= m)
  BY <1>4, <1>5, <1>7, <1>9
<1>11. \A j, k \in DOMAIN b : b[j].old /\ k <= j => b[k].old
  <2>1. m \in Nat /\ DOMAIN q \subseteq Nat
    BY <1>3, <1>9
  <2>2. \A k \in DOMAIN q : b[k].old <=> k <= m
    BY <1>5, <1>9
  <2> QED BY <1>4, <2>1, <2>2
<1>12. \A k \in DOMAIN b : b[k].old <=> b[k].of # Empty
  BY <1>4, <1>5
<1>13. QueueIs(b, input)
  BY <1>7, <1>8, <1>10, <1>11, <1>12 DEF QueueIs, B
<1>14. q # <<>> => b # <<>>
  BY <1>3, <1>4
<1> QED BY <1>7, <1>13, <1>14 DEF b

\* Who owns the device is the only one that reads.
LEMMA OwnerReads ==
  ASSUME TurnInv, NEW c \in Cameras, camera[c].at \in Reading
  PROVE  device.owner = c /\ \A x \in Cameras \ {c} : camera[x].at \notin Reading
BY DEF TurnInv

LEMMA SwitchKeeps ==
  ASSUME UsersInv, PicturesInv, NEW c \in Cameras, v4l2_set_input(c)
  PROVE  PicturesInv'
<1>0. /\ DOMAIN camera = Cameras /\ DOMAIN device = DeviceFields
      /\ \A x \in Cameras : DOMAIN camera[x] = CameraFields
      /\ DOMAIN videoLog = {"round", "faults", "killed", "revived", "spoiled"}
  BY UserFacts DEF VideoTyped
<1>1. /\ camera[c].at = "read" /\ device.v4l2 /\ camera' = [camera EXCEPT ![c].at = "skip"]
      /\ \/ /\ device' = Selected([device EXCEPT !.queue = Before(@)], c)
            /\ videoLog' = [videoLog EXCEPT !.spoiled = FALSE]
         \/ /\ device' = [device EXCEPT !.queue = Before(@)]
            /\ videoLog' = Failure(TRUE)
  BY DEF v4l2_set_input, At
<1>2. TurnInv /\ DeviceIs(device) /\ device.input \in Cameras /\ QueueIs(device.queue, device.input)
  BY <1>1 DEF PicturesInv, DeviceIs
<1>3. device.owner = c /\ \A x \in Cameras \ {c} : camera[x].at \notin Reading
  BY <1>1, <1>2, OwnerReads DEF Reading
<1>4. /\ device'.queue = Before(device.queue) /\ device'.index = device.index
      /\ device'.pframe = device.pframe /\ device'.v4l2 = device.v4l2
      /\ device'.owner = device.owner /\ device'.locked = device.locked
      /\ device'.input \in {c, device.input}
      /\ device'.input = c \/ videoLog'.spoiled
  <2>1. CASE /\ device' = Selected([device EXCEPT !.queue = Before(@)], c)
             /\ videoLog' = [videoLog EXCEPT !.spoiled = FALSE]
    BY <1>0, <2>1 DEF Selected, DeviceFields
  <2>2. CASE /\ device' = [device EXCEPT !.queue = Before(@)]
             /\ videoLog' = Failure(TRUE)
    BY <1>0, <2>2 DEF Failure, DeviceFields
  <2> QED BY <1>1, <2>1, <2>2
<1>5. /\ camera'[c].at = "skip" /\ camera'[c].skipped = camera[c].skipped
      /\ \A x \in Cameras \ {c} : camera'[x] = camera[x]
  BY <1>0, <1>1 DEF CameraFields
<1>6. camera'[c].skipped = 0
  BY <1>1, <1>2, <1>5 DEF TurnInv
<1>7. /\ QueueIs(device'.queue, device'.input) /\ Len(device'.queue) <= MmapBuffers
      /\ device.queue # <<>> => device'.queue # <<>>
  <2>1. \A input : QueueIs(Before(device.queue), input)
    BY <1>2, SwitchIs
  <2>2. Len(device.queue) <= MmapBuffers /\ Len(Before(device.queue)) = Len(device.queue)
    BY <1>2, QueueIsShort, SwitchIs
  <2>3. device.queue # <<>> => Before(device.queue) # <<>>
    BY <1>2, SwitchIs
  <2> QED BY <1>4, <2>1, <2>2, <2>3
<1>8. DeviceIs(device')
  BY <1>2, <1>4, <1>7 DEF DeviceIs
<1>9. \A k \in DOMAIN device'.queue : k + camera'[c].skipped <= MmapBuffers
  <2> DEFINE q == device'.queue
  <2>1. q \in Seq([buf : Buffers, of : Cameras \cup {Empty}, old : BOOLEAN])
    BY <1>7 DEF QueueIs
  <2> HIDE DEF q
  <2>2. \A k \in DOMAIN q : k \in Nat /\ k <= Len(q) /\ Len(q) \in Nat
    BY <2>1
  <2>3. MmapBuffers \in Nat /\ Len(q) <= MmapBuffers
    BY <1>7, VideoAssumption DEF q
  <2>4. \A k \in DOMAIN q : k + 0 <= MmapBuffers
    BY <2>2, <2>3
  <2> QED BY <1>6, <2>4 DEF q
<1>10. TurnInv'
  <2>1. \A x \in Cameras : camera'[x].at \in Reading => x = c
    BY <1>3, <1>5
  <2>2. \A x \in Cameras : camera'[x].at \in {"skip", "next"} => x = c
    BY <2>1 DEF Reading
  <2>3. \A x \in Cameras : camera'[x].skipped \in Nat /\ (camera'[x].at # "skip" => camera'[x].skipped = 0)
    BY <1>2, <1>5, <1>6 DEF TurnInv
  <2>4. device'.owner # Nobody => device'.locked
    BY <1>2, <1>4 DEF TurnInv
  <2> QED BY <1>3, <1>4, <1>5, <1>9, <2>1, <2>2, <2>3, <2>4 DEF TurnInv
<1> QED BY <1>8, <1>10 DEF PicturesInv

\* Old buffers are skipped until there are none.
LEMMA SkipKeeps ==
  ASSUME UsersInv, PicturesInv, NEW c \in Cameras, Skip(c)
  PROVE  PicturesInv'
<1>0. /\ DOMAIN camera = Cameras /\ DOMAIN device = DeviceFields
      /\ \A x \in Cameras : DOMAIN camera[x] = CameraFields
      /\ DOMAIN videoLog = {"round", "faults", "killed", "revived", "spoiled"}
  BY UserFacts DEF VideoTyped
<1>1. camera[c].at = "skip" /\ TurnInv /\ DeviceIs(device)
  BY DEF Skip, PicturesInv
<1>2. device.owner = c /\ \A x \in Cameras \ {c} : camera[x].at \notin Reading
  BY <1>1, OwnerReads DEF Reading
<1>3. camera[c].skipped \in Nat /\ MmapBuffers \in Nat
  BY <1>1, VideoAssumption DEF TurnInv
<1>4. ~videoLog.spoiled =>
         /\ device.v4l2 => device.input = c
         /\ \A k \in DOMAIN device.queue : device.queue[k].old => k + camera[c].skipped <= MmapBuffers
  <2>1. \A x \in Cameras : camera[x].at = "skip" => x = c
    BY <1>2 DEF Reading
  <2> QED BY <1>1, <2>1 DEF TurnInv
<1>d. DOMAIN device.queue \subseteq Nat \ {0}
  <2>1. device.queue \in Seq([buf : Buffers, of : Cameras \cup {Empty}, old : BOOLEAN])
    BY <1>1 DEF DeviceIs, QueueIs
  <2> QED BY <2>1
\* Of the next state, what TurnInv needs.
<1>5. ASSUME DeviceIs(device'), Keeps(device, device'), ~videoLog'.spoiled => ~videoLog.spoiled,
             \A x \in Cameras \ {c} : camera'[x] = camera[x], camera'[c].skipped \in Nat,
             \/ /\ camera'[c].at = "next" /\ camera'[c].skipped = 0
                /\ ~videoLog'.spoiled => NoneOld(device'.queue)
             \/ /\ camera'[c].at = "skip"
                /\ ~videoLog'.spoiled => \A k \in DOMAIN device'.queue : device'.queue[k].old =>
                                           k + camera'[c].skipped <= MmapBuffers
      PROVE  PicturesInv'
  <2>1. \A x \in Cameras : camera'[x].at \in Reading => x = c
    BY <1>2, <1>5
  <2>2. \A x \in Cameras : camera'[x].at \in {"skip", "next"} => x = c
    BY <2>1 DEF Reading
  <2>3. \A x \in Cameras : camera'[x].skipped \in Nat /\ (camera'[x].at # "skip" => camera'[x].skipped = 0)
    BY <1>1, <1>5 DEF TurnInv
  <2>4. device'.owner # Nobody => device'.locked
    BY <1>1, <1>5 DEF TurnInv, Keeps
  <2>5. device'.owner = c /\ (device'.v4l2 /\ ~videoLog'.spoiled => device'.input = c)
    BY <1>2, <1>4, <1>5 DEF Keeps
  <2>6. ~videoLog'.spoiled =>
         \A k \in DOMAIN device'.queue : device'.queue[k].old =>
           camera'[c].at = "skip" /\ k + camera'[c].skipped <= MmapBuffers
    BY <1>5 DEF NoneOld
  <2> QED BY <1>5, <2>1, <2>2, <2>3, <2>4, <2>5, <2>6 DEF PicturesInv, TurnInv
<1>6. CASE SkippedAll(camera[c].skipped)
  <2>1. /\ camera' = [camera EXCEPT ![c].at = "next", ![c].skipped = 0]
        /\ UNCHANGED <<device, videoLog>>
    BY <1>6 DEF Skip
  <2>2. /\ camera'[c].at = "next" /\ camera'[c].skipped = 0
        /\ \A x \in Cameras \ {c} : camera'[x] = camera[x]
    BY <1>0, <2>1 DEF CameraFields
  <2>3. ~videoLog.spoiled => NoneOld(device.queue)
    <3>1. camera[c].skipped >= MmapBuffers
      BY <1>6 DEF SkippedAll
    <3>2. \A k \in Nat \ {0} : ~(k + camera[c].skipped <= MmapBuffers)
      BY <1>3, <3>1
    <3> QED BY <1>4, <1>d, <3>2 DEF NoneOld
  <2>4. Keeps(device, device') /\ DeviceIs(device') /\ videoLog' = videoLog
    BY <1>1, <2>1 DEF Keeps
  <2>5. ~videoLog'.spoiled => ~videoLog.spoiled /\ NoneOld(device'.queue)
    BY <2>1, <2>3
  <2>6. camera'[c].skipped \in Nat
    BY <2>2
  <2> QED BY <1>5, <2>2, <2>4, <2>5, <2>6
<1>7. CASE ~SkippedAll(camera[c].skipped)
  <2>1. PICK r \in v4l2_next(device) :
          /\ device' = r.dev
          /\ videoLog' = IF r.fails THEN Failure(TRUE) ELSE [videoLog EXCEPT !.spoiled = @ \/ r.ret # 0]
          /\ camera' = IF r.ret = 0 /\ r.frame.old THEN [camera EXCEPT ![c].skipped = @ + 1]
                       ELSE [camera EXCEPT ![c].at = "next", ![c].skipped = 0]
    BY <1>7 DEF Skip
  <2>2. /\ DeviceIs(device') /\ Keeps(device, device')
        /\ r.ret = 0 =>
              /\ ~r.frame.old => NoneOld(device'.queue)
              /\ \A k \in DOMAIN device'.queue : device'.queue[k].old => k + 1 \in DOMAIN device.queue /\ device.queue[k + 1].old
    BY <1>0, <1>1, <2>1, NextKeepsDevice
  <2>3. ~videoLog'.spoiled => ~videoLog.spoiled /\ r.ret = 0
    <3>1. CASE r.fails
      BY <1>0, <2>1, <3>1 DEF Failure
    <3>2. CASE ~r.fails
      BY <1>0, <2>1, <3>2
    <3> QED BY <3>1, <3>2
  <2>4. CASE r.ret = 0 /\ r.frame.old
    <3>1. camera' = [camera EXCEPT ![c].skipped = @ + 1]
      BY <2>1, <2>4
    <3>2. /\ camera'[c].at = "skip" /\ camera'[c].skipped = camera[c].skipped + 1
          /\ \A x \in Cameras \ {c} : camera'[x] = camera[x]
      BY <1>0, <1>1, <3>1 DEF CameraFields
    <3>3. camera'[c].skipped \in Nat
      BY <1>3, <3>2
    <3>4. ASSUME ~videoLog'.spoiled, NEW k \in DOMAIN device'.queue, device'.queue[k].old
          PROVE  k + camera'[c].skipped <= MmapBuffers
      <4>1. k + 1 \in DOMAIN device.queue /\ device.queue[k + 1].old
        BY <2>2, <2>4, <3>4
      <4>2. (k + 1) + camera[c].skipped <= MmapBuffers
        BY <1>4, <2>3, <3>4, <4>1
      <4>3. k \in Nat
        <5>1. device'.queue \in Seq([buf : Buffers, of : Cameras \cup {Empty}, old : BOOLEAN])
          BY <2>2 DEF DeviceIs, QueueIs
        <5> QED BY <5>1
      <4> QED BY <1>3, <3>2, <4>2, <4>3
    <3> QED BY <1>5, <2>2, <2>3, <3>2, <3>3, <3>4
  <2>5. CASE ~(r.ret = 0 /\ r.frame.old)
    <3>1. camera' = [camera EXCEPT ![c].at = "next", ![c].skipped = 0]
      BY <2>1, <2>5
    <3>2. /\ camera'[c].at = "next" /\ camera'[c].skipped = 0
          /\ \A x \in Cameras \ {c} : camera'[x] = camera[x]
      BY <1>0, <3>1 DEF CameraFields
    <3>3. ~videoLog'.spoiled => NoneOld(device'.queue)
      BY <2>2, <2>3, <2>5
    <3> QED BY <1>5, <2>2, <2>3, <3>2, <3>3
  <2> QED BY <2>4, <2>5
<1> QED BY <1>6, <1>7

\* A picture is taken from the front: after the switch that is one of this camera.
LEMMA PictureKeeps ==
  ASSUME UsersInv, PicturesInv, NEW c \in Cameras, vid_next(c)
  PROVE  /\ PicturesInv'
         /\ \A x \in Cameras : camera'[x].picture \in {x, camera[x].picture} \/ videoLog.spoiled
<1>0. /\ DOMAIN camera = Cameras /\ DOMAIN device = DeviceFields
      /\ \A x \in Cameras : DOMAIN camera[x] = CameraFields
      /\ DOMAIN videoLog = {"round", "faults", "killed", "revived", "spoiled"}
  BY UserFacts DEF VideoTyped
<1>1. PICK r \in v4l2_next(device) :
        /\ videoLog' = IF r.fails THEN Failure(FALSE) ELSE videoLog
        /\ device' = Turn(r.dev)
        /\ \/ r.ret = 0 /\ camera' = [camera EXCEPT ![c].at = "loop", ![c].picture = r.frame.of]
           \/ r.ret < 0 /\ At(c, "close")
           \/ r.ret > 0 /\ \E at \in Missed : At(c, at)
  BY DEF vid_next
<1>2. /\ camera[c].at \in {"next", "read"} /\ TurnInv /\ DeviceIs(device)
      /\ camera[c].at = "read" => (device.v4l2 => device.input = c)
  BY DEF vid_next, PicturesInv
<1>3. device.owner = c /\ \A x \in Cameras \ {c} : camera[x].at \notin Reading
  BY <1>2, OwnerReads DEF Reading
<1>4. /\ DeviceIs(r.dev) /\ Keeps(device, r.dev)
      /\ NoneOld(device.queue) => NoneOld(r.dev.queue)
      /\ r.ret = 0 => /\ device.v4l2 /\ (r.frame.old => ~NoneOld(device.queue))
                      /\ ~r.frame.old => r.frame.of = device.input
  BY <1>0, <1>2, NextKeepsDevice
<1>5. ~videoLog.spoiled => NoneOld(device.queue) /\ (device.v4l2 => device.input = c)
  <2>1. \A x \in Cameras : camera[x].at # "skip"
    BY <1>2, <1>3 DEF Reading
  <2> QED BY <1>2, <2>1 DEF TurnInv, NoneOld
<1>6. ~videoLog.spoiled /\ r.ret = 0 => r.frame.of = c
  BY <1>4, <1>5
<1>7. /\ \A x \in Cameras \ {c} : camera'[x] = camera[x]
      /\ camera'[c].at \notin Reading /\ camera'[c].skipped = camera[c].skipped
      /\ camera'[c].picture = camera[c].picture \/ (r.ret = 0 /\ camera'[c].picture = r.frame.of)
  <2>1. CASE r.ret = 0 /\ camera' = [camera EXCEPT ![c].at = "loop", ![c].picture = r.frame.of]
    BY <1>0, <2>1 DEF CameraFields, Reading
  <2>2. ASSUME NEW at \in {"loop", "close"}, camera' = [camera EXCEPT ![c].at = at]
        PROVE  /\ \A x \in Cameras \ {c} : camera'[x] = camera[x]
               /\ camera'[c].at \notin Reading /\ camera'[c].skipped = camera[c].skipped
               /\ camera'[c].picture = camera[c].picture
    BY <1>0, <2>2 DEF CameraFields, Reading
  <2> QED BY <1>1, <2>1, <2>2 DEF At, Missed
<1>8. \A x \in Cameras : camera'[x].picture \in {x, camera[x].picture} \/ videoLog.spoiled
  BY <1>6, <1>7
<1>9. ~videoLog'.spoiled => ~videoLog.spoiled
  BY <1>0, <1>1 DEF Failure
<1>10. /\ device'.queue = r.dev.queue /\ device'.index = r.dev.index /\ device'.pframe = r.dev.pframe
       /\ device'.input = r.dev.input /\ device'.v4l2 = r.dev.v4l2
       /\ \/ device'.owner = r.dev.owner /\ device'.locked = r.dev.locked
          \/ device'.owner = Nobody
  <2>1. DOMAIN r.dev = DeviceFields
    BY <1>0, <1>4 DEF Keeps
  <2> HIDE <1>1
  <2>2. device' = Turn(r.dev)
    BY <1>1
  <2> QED BY <2>1, <2>2 DEF Turn, DeviceFields
<1>11. DeviceIs(device')
  BY <1>4, <1>10 DEF DeviceIs
<1>12. TurnInv'
  <2>1. \A x \in Cameras : camera'[x].at \notin Reading
    BY <1>3, <1>7
  <2>2. \A x \in Cameras : camera'[x].at \notin {"skip", "next"}
    BY <2>1 DEF Reading
  <2>3. \A x \in Cameras : camera'[x].skipped \in Nat /\ (camera'[x].at # "skip" => camera'[x].skipped = 0)
    BY <1>2, <1>7 DEF TurnInv
  <2>4. device'.owner # Nobody => device'.locked
    BY <1>2, <1>4, <1>10 DEF TurnInv, Keeps
  <2>5. ~videoLog'.spoiled => NoneOld(device'.queue)
    BY <1>4, <1>5, <1>9, <1>10
  <2> QED BY <2>1, <2>2, <2>3, <2>4, <2>5 DEF TurnInv, NoneOld
<1> QED BY <1>8, <1>11, <1>12 DEF PicturesInv

LEMMA OwnKeeps ==
  ASSUME UsersInv, PicturesInv, NEW c \in Cameras, Own(c)
  PROVE  PicturesInv'
<1>0. DOMAIN camera = Cameras /\ DOMAIN device = DeviceFields /\ \A x \in Cameras : DOMAIN camera[x] = CameraFields
  BY UserFacts DEF VideoTyped
<1>1. /\ camera[c].at = "found" /\ camera' = [camera EXCEPT ![c].at = "read"] /\ videoLog' = videoLog
      /\ \/ device.owner = c /\ device' = device
         \/ /\ device.owner # c /\ ~device.locked
            /\ device' = [device EXCEPT !.locked = TRUE, !.owner = c, !.frames = videoLog.round]
  BY DEF Own, At
<1>2. TurnInv /\ DeviceIs(device)
  BY DEF PicturesInv
<1>3. SameBuffers(device, device') /\ device'.owner = c /\ device'.locked
  <2>1. CASE device.owner = c /\ device' = device
    <3>1. c # Nobody
      BY VideoAssumption DEF Nobody
    <3> QED BY <1>2, <2>1, <3>1 DEF TurnInv, SameBuffers
  <2>2. CASE /\ device.owner # c /\ ~device.locked
             /\ device' = [device EXCEPT !.locked = TRUE, !.owner = c, !.frames = videoLog.round]
    BY <1>0, <2>2 DEF SameBuffers, DeviceFields
  <2> QED BY <1>1, <2>1, <2>2
<1>4. \A x \in Cameras \ {c} : camera[x].at \notin Reading
  <2>1. device.owner \in {c, Nobody}
    BY <1>1, <1>2 DEF TurnInv
  <2>2. Nobody \notin Cameras
    BY VideoAssumption DEF Nobody
  <2> QED BY <1>2, <2>1, <2>2 DEF TurnInv
<1>5. /\ camera'[c].at = "read" /\ camera'[c].skipped = camera[c].skipped
      /\ \A x \in Cameras \ {c} : camera'[x] = camera[x]
  BY <1>0, <1>1 DEF CameraFields
<1>6. DeviceIs(device')
  BY <1>2, <1>3 DEF DeviceIs, SameBuffers
<1>7. \A x \in Cameras : camera'[x].at \notin {"skip", "next"} /\ camera[x].at # "skip"
  BY <1>1, <1>4, <1>5 DEF Reading
<1>8. \A x \in Cameras : camera'[x].at \in Reading => device'.owner = x
  BY <1>3, <1>4, <1>5
<1>9. \A x \in Cameras : camera'[x].skipped \in Nat /\ (camera'[x].at # "skip" => camera'[x].skipped = 0)
  BY <1>1, <1>2, <1>5 DEF TurnInv
<1>10. ~videoLog'.spoiled => NoneOld(device'.queue)
  BY <1>1, <1>2, <1>3, <1>7 DEF TurnInv, SameBuffers, NoneOld
<1> QED BY <1>3, <1>6, <1>7, <1>8, <1>9, <1>10 DEF PicturesInv, TurnInv, NoneOld

\* The steps in which nobody reads leave the buffers and the pictures.
LEMMA OthersKeep ==
  ASSUME UsersInv, PicturesInv, NEW c \in Cameras,
         vid_start(c) \/ Find(c) \/ vid_close(c) \/ EndCamera(c) \/ Free(c) \/ Kill(c)
  PROVE  PicturesInv' /\ \A x \in Cameras : camera'[x].picture = camera[x].picture
<1>0. /\ DOMAIN camera = Cameras /\ DOMAIN device = DeviceFields
      /\ \A x \in Cameras : DOMAIN camera[x] = CameraFields
      /\ DOMAIN videoLog = {"round", "faults", "killed", "revived", "spoiled"}
  BY UserFacts DEF VideoTyped
<1>t. TurnInv
  BY DEF PicturesInv
<1>o. /\ device.owner # Nobody => device.locked
      /\ \A x \in Cameras : camera[x].at # "skip" => camera[x].skipped = 0
  BY <1>t DEF TurnInv
<1>m. \A open, at : /\ [camera EXCEPT ![c].open = open, ![c].at = at][c].at = at
                    /\ [camera EXCEPT ![c].open = open, ![c].at = at][c].skipped = camera[c].skipped
                    /\ [camera EXCEPT ![c].open = open, ![c].at = at][c].picture = camera[c].picture
                    /\ [camera EXCEPT ![c].at = at][c].at = at
                    /\ [camera EXCEPT ![c].at = at][c].skipped = camera[c].skipped
                    /\ [camera EXCEPT ![c].at = at][c].picture = camera[c].picture
                    /\ \A x \in Cameras \ {c} : /\ [camera EXCEPT ![c].open = open, ![c].at = at][x] = camera[x]
                                                /\ [camera EXCEPT ![c].at = at][x] = camera[x]
  BY <1>0 DEF CameraFields
<1>1. CASE vid_start(c) /\ device.linked
  <2>1. /\ camera' = [camera EXCEPT ![c].open = TRUE] /\ camera[c].at = "loop"
        /\ device' = [device EXCEPT !.usage = @ + 1]
        /\ videoLog' = [videoLog EXCEPT !.revived = @ \/ device.usage <= 0]
    BY <1>1 DEF vid_start
  <2>2. /\ camera'[c].at = "loop" /\ camera'[c].skipped = 0 /\ camera'[c].picture = camera[c].picture
        /\ \A x \in Cameras \ {c} : camera'[x] = camera[x]
    BY <1>0, <1>o, <2>1 DEF CameraFields
  <2>3. SameBuffers(device, device') /\ device'.owner = device.owner /\ device'.locked = device.locked
    BY <1>0, <2>1 DEF SameBuffers, DeviceFields
  <2>4. videoLog'.spoiled <=> videoLog.spoiled
    BY <1>0, <2>1
  <2>5. camera'[c].at \notin Reading /\ camera[c].at # "skip"
    BY <2>1, <2>2 DEF Reading
  <2>6. PicturesInv'
    BY <1>o, <2>2, <2>3, <2>4, <2>5, Elsewhere
  <2> QED BY <2>2, <2>6
<1>2. CASE vid_start(c) /\ ~device.linked
  <2>1. /\ camera' = [camera EXCEPT ![c].open = TRUE] /\ camera[c].at = "loop"
        /\ device' = Started(c, TRUE) \/ device' = Started(c, FALSE)
    BY <1>2 DEF vid_start
  <2>2. \A x \in Cameras : /\ camera'[x].at = camera[x].at /\ camera'[x].skipped = camera[x].skipped
                           /\ camera'[x].picture = camera[x].picture
    BY <1>0, <2>1 DEF CameraFields
  <2>3. \A x \in Cameras : camera[x].at \notin Reading
    BY <1>2, NobodyReads
  <2>4. \A x \in Cameras : camera'[x].at \notin Reading /\ camera'[x].skipped = 0
    BY <1>o, <2>2, <2>3 DEF Reading
  <2> QED BY <2>1, <2>2, <2>4, NewDevice
<1>3. CASE Find(c)
  <2>1. PICK at \in {"found", "close"} :
          /\ camera[c].at = "loop" /\ camera' = [camera EXCEPT ![c].at = at]
          /\ UNCHANGED <<device, videoLog>>
    BY <1>3 DEF Find, At
  <2>2. /\ camera'[c].at = at /\ camera'[c].skipped = 0 /\ camera'[c].picture = camera[c].picture
        /\ \A x \in Cameras \ {c} : camera'[x] = camera[x]
    BY <1>m, <1>o, <2>1
  <2>3. camera'[c].at \notin Reading /\ camera[c].at # "skip" /\ SameBuffers(device, device')
    BY <2>1, <2>2 DEF Reading, SameBuffers
  <2>4. PicturesInv'
    BY <1>o, <2>1, <2>2, <2>3, Elsewhere
  <2> QED BY <2>2, <2>4
<1>4. ASSUME NEW next \in {"loop", "ended"}, camera[c].at \in {"loop", "close"}, CloseBy(c, next)
      PROVE  PicturesInv' /\ \A x \in Cameras : camera'[x].picture = camera[x].picture
  <2> DEFINE then == IF next = "ended" THEN "free, end" ELSE "free"
             counted == [device EXCEPT !.usage = @ - 1]
  <2>1. /\ videoLog' = videoLog
        /\ device' \in {device, counted, GivesTurn(counted, c)}
        /\ \/ camera' = [camera EXCEPT ![c].at = then]
           \/ camera' = [camera EXCEPT ![c].open = FALSE, ![c].at = next]
    BY <1>4 DEF CloseBy, At
  <2>2. /\ camera'[c].at \in {then, next} /\ camera'[c].skipped = 0 /\ camera'[c].picture = camera[c].picture
        /\ \A x \in Cameras \ {c} : camera'[x] = camera[x]
    <3>1. camera[c].skipped = 0
      BY <1>o, <1>4
    <3> HIDE DEF then
    <3>2. CASE camera' = [camera EXCEPT ![c].at = then]
      BY <1>m, <3>1, <3>2
    <3>3. CASE camera' = [camera EXCEPT ![c].open = FALSE, ![c].at = next]
      BY <1>0, <3>1, <3>3 DEF CameraFields
    <3> QED BY <2>1, <3>2, <3>3
  <2>3. camera'[c].at \notin Reading /\ camera[c].at # "skip"
    BY <1>4, <2>2 DEF Reading
  <2>4. /\ SameBuffers(device, counted) /\ counted.owner = device.owner /\ counted.locked = device.locked
        /\ DOMAIN counted = DeviceFields
    BY <1>0 DEF SameBuffers, DeviceFields
  <2>5. /\ SameBuffers(device, device')
        /\ \/ device'.owner = device.owner /\ device'.locked = device.locked
           \/ device.owner = c /\ device'.owner = Nobody
    <3>1. CASE device' = device
      BY <3>1 DEF SameBuffers
    <3>2. CASE device' = counted
      BY <2>4, <3>2
    <3>3. CASE device' = GivesTurn(counted, c)
      <4> HIDE DEF counted
      <4>1. CASE counted.owner = c
        <5>1. device' = [counted EXCEPT !.frames = 0, !.owner = Nobody, !.locked = FALSE]
          BY <3>3, <4>1 DEF GivesTurn
        <5> QED BY <2>4, <4>1, <5>1 DEF SameBuffers, DeviceFields
      <4>2. CASE counted.owner # c
        BY <2>4, <3>3, <4>2 DEF GivesTurn
      <4> QED BY <4>1, <4>2
    <3> QED BY <2>1, <3>1, <3>2, <3>3
  <2>6. PicturesInv'
    BY <1>o, <2>1, <2>2, <2>3, <2>5, Elsewhere
  <2> QED BY <2>2, <2>6
<1>5. CASE vid_close(c)
  BY <1>4, <1>5 DEF vid_close
<1>6. CASE EndCamera(c)
  <2>1. CASE camera[c].open
    BY <1>4, <1>6, <2>1 DEF EndCamera
  <2>2. CASE ~camera[c].open
    <3>1. /\ camera[c].at = "loop" /\ camera' = [camera EXCEPT ![c].at = "ended"]
          /\ UNCHANGED <<device, videoLog>>
      BY <1>6, <2>2 DEF EndCamera, At
    <3>2. /\ camera'[c].at = "ended" /\ camera'[c].skipped = 0 /\ camera'[c].picture = camera[c].picture
          /\ \A x \in Cameras \ {c} : camera'[x] = camera[x]
      BY <1>m, <1>o, <3>1
    <3>3. camera'[c].at \notin Reading /\ camera[c].at # "skip" /\ SameBuffers(device, device')
      BY <3>1, <3>2 DEF Reading, SameBuffers
    <3>4. PicturesInv'
      BY <1>o, <3>1, <3>2, <3>3, Elsewhere
    <3> QED BY <3>2, <3>4
  <2> QED BY <2>1, <2>2
<1>7. CASE Free(c)
  <2>1. /\ camera[c].at \in Freeing /\ device' = NoDevice
        /\ camera' = [camera EXCEPT ![c].open = FALSE, ![c].at = IF @ = "free" THEN "loop" ELSE "ended"]
    BY <1>7 DEF Free, Freeing
  <2>2. /\ camera'[c].at \in {"loop", "ended"} /\ camera'[c].skipped = camera[c].skipped
        /\ camera'[c].picture = camera[c].picture
        /\ \A x \in Cameras \ {c} : camera'[x] = camera[x]
    BY <1>0, <2>1 DEF CameraFields
  <2>3. \A x \in Cameras : camera[x].at \notin Reading
    BY <2>1, NobodyReads
  <2>4. \A x \in Cameras : camera'[x].at \notin Reading /\ camera'[x].skipped = 0
    BY <1>o, <2>2, <2>3 DEF Reading
  <2> QED BY <2>1, <2>2, <2>4, NewDevice
<1>8. CASE Kill(c)
  <2>1. /\ camera' = [camera EXCEPT ![c].open = FALSE, ![c].at = "loop", ![c].skipped = 0]
        /\ videoLog' = [videoLog EXCEPT !.killed = @ \cup {c}, !.spoiled = @ \/ camera[c].at = "skip"]
        /\ device' = device
    BY <1>8 DEF Kill
  <2>2. /\ camera'[c].at = "loop" /\ camera'[c].skipped = 0 /\ camera'[c].picture = camera[c].picture
        /\ \A x \in Cameras \ {c} : camera'[x] = camera[x]
    BY <1>0, <2>1 DEF CameraFields
  <2>3. videoLog.spoiled \/ camera[c].at = "skip" => videoLog'.spoiled
    BY <1>0, <2>1
  <2>4. camera'[c].at \notin Reading /\ SameBuffers(device, device')
    BY <2>1, <2>2 DEF Reading, SameBuffers
  <2>5. PicturesInv'
    BY <1>o, <2>1, <2>2, <2>3, <2>4, Elsewhere
  <2> QED BY <2>2, <2>5
<1> QED BY <1>1, <1>2, <1>3, <1>5, <1>6, <1>7, <1>8

PicturesOk == ~videoLog.revived => PicturesInv

LEMMA PicturesStep ==
  ASSUME DeviceInv, PicturesOk, [VideoNext]_videoVars
  PROVE  /\ PicturesOk'
         /\ \A c \in Cameras : camera'[c].picture \in {c, camera[c].picture} \/ videoLog.spoiled
<1>1. CASE UNCHANGED videoVars
  BY <1>1 DEF videoVars, PicturesOk, PicturesInv, TurnInv
<1>2. CASE VideoNext
  <2>1. UsersInv /\ PicturesInv
    BY <1>2 DEF VideoNext, DeviceInv, PicturesOk
  <2>2. CASE Capture
    <3>1. DOMAIN device = DeviceFields /\ camera' = camera
      BY <2>1, <2>2, UserFacts DEF VideoTyped, Capture
    <3> QED BY <2>1, <2>2, <3>1, CaptureFills DEF PicturesOk
  <2>3. ASSUME NEW c \in Cameras, CameraLoop(c) \/ EndCamera(c) \/ Kill(c)
        PROVE  /\ PicturesInv'
               /\ \A x \in Cameras : camera'[x].picture \in {x, camera[x].picture} \/ videoLog.spoiled
    <3>0. /\ DOMAIN camera = Cameras /\ \A x \in Cameras : DOMAIN camera[x] = CameraFields
      BY <2>1, UserFacts DEF VideoTyped
    <3>1. CASE vid_start(c) \/ Find(c) \/ vid_close(c) \/ EndCamera(c) \/ Free(c) \/ Kill(c)
      BY <2>1, <3>1, OthersKeep
    <3>2. CASE Own(c)
      <4>1. \A x \in Cameras : camera'[x].picture = camera[x].picture
        BY <3>0, <3>2 DEF Own, At, CameraFields
      <4> QED BY <2>1, <3>2, <4>1, OwnKeeps
    <3>3. CASE v4l2_set_input(c)
      <4>1. \A x \in Cameras : camera'[x].picture = camera[x].picture
        BY <3>0, <3>3 DEF v4l2_set_input, At, CameraFields
      <4> QED BY <2>1, <3>3, <4>1, SwitchKeeps
    <3>4. CASE Skip(c)
      <4>1. \/ camera' = camera
            \/ camera' = [camera EXCEPT ![c].at = "next", ![c].skipped = 0]
            \/ camera' = [camera EXCEPT ![c].skipped = @ + 1]
        BY <3>4 DEF Skip
      <4>2. \A x \in Cameras : camera'[x].picture = camera[x].picture
        BY <3>0, <4>1 DEF CameraFields
      <4> QED BY <2>1, <3>4, <4>2, SkipKeeps
    <3>5. CASE vid_next(c)
      BY <2>1, <3>5, PictureKeeps
    <3> QED BY <2>3, <3>1, <3>2, <3>3, <3>4, <3>5 DEF CameraLoop
  <2> QED BY <1>2, <2>2, <2>3 DEF VideoNext, PicturesOk
<1> QED BY <1>1, <1>2

\* A camera gets no picture from the input of another, with any number of cameras,
\* buffers and killed threads: v4l2_set_input (video2.c) skips what was captured before
\* the switch, and who reads holds dev->mutex meanwhile.
THEOREM PicturesAreOwn == VideoSpec => OwnPictures
<1>1. VideoInit => PicturesOk
  <2> SUFFICES ASSUME VideoInit PROVE PicturesInv
    BY DEF PicturesOk
  <2>1. device = NoDevice /\ camera = [c \in Cameras |-> [open |-> FALSE, at |-> "loop", skipped |-> 0, picture |-> c]]
    BY DEF VideoInit
  <2>2. /\ device.queue = <<>> /\ device.index = 1 /\ device.pframe = Nobody /\ ~device.v4l2
        /\ device.owner = Nobody
    BY <2>1 DEF NoDevice
  <2>3. QueueIs(device.queue, device.input)
    <3>1. DOMAIN <<>> = {} /\ Len(<<>>) = 0
      OBVIOUS
    <3> QED BY <2>2, <3>1 DEF QueueIs
  <2>4. DeviceIs(device)
    BY <2>2, <2>3, VideoAssumption DEF DeviceIs, Buffers
  <2>5. \A c \in Cameras : camera[c].at = "loop" /\ camera[c].skipped = 0
    BY <2>1
  <2>6. DOMAIN device.queue = {}
    BY <2>2
  <2> QED BY <2>2, <2>4, <2>5, <2>6 DEF PicturesInv, TurnInv, Reading
<1>2. DeviceInv /\ PicturesOk /\ [VideoNext]_videoVars => PicturesOk'
  BY PicturesStep
<1>3. DeviceInv /\ PicturesOk /\ [VideoNext]_videoVars =>
        [\A c \in Cameras : camera'[c].picture \in {c, camera[c].picture} \/ videoLog.spoiled]_videoVars
  BY PicturesStep
<1> QED BY <1>1, <1>2, <1>3, DeviceKept, PTL DEF VideoSpec, OwnPictures

-----------------------------------------------------------------------------
(* The stream server *)

StreamBuffers == Pictures \cup Headers
Listable == Sockets \cup {NoSocket}

\* The list and the counters, whatever their values.
Listed(l) == /\ DOMAIN l \subseteq Listable
             /\ l = [s \in DOMAIN l |-> l[s]]
             /\ \A s \in DOMAIN l : l[s] \in [tmpbuffer : StreamBuffers \cup {NoBuffer}, nr : Nat]
Counters(r) == /\ DOMAIN r \subseteq StreamBuffers
               /\ r = [b \in DOMAIN r |-> r[b]]
               /\ \A b \in DOMAIN r : r[b] \in Nat

\* A picture has the number of its clients, the header of a client is its own.
Counted(l, r) ==
  /\ \A s \in DOMAIN l : l[s].tmpbuffer \in DOMAIN r \cup {NoBuffer}
  /\ \A b \in DOMAIN r : Holders(l, b) # {}
  /\ \A b \in DOMAIN r \cap Pictures : r[b] = Cardinality(Holders(l, b))
  /\ \A x \in Listable : Header(x) \in DOMAIN r =>
       Holders(l, Header(x)) = {x} /\ r[Header(x)] = 0

LEMMA Disjoint ==
  /\ IsFiniteSet(Listable) /\ Cardinality(Listable) = Cardinality(Sockets) + 1
  /\ Cardinality(Sockets) \in Nat
  /\ NoBuffer \notin StreamBuffers
  /\ \A b \in Headers : b \notin Pictures /\ \E x \in Listable : b = Header(x)
  /\ \A x \in Listable : Header(x) \in Headers
  /\ \A x, y \in Listable : Header(x) = Header(y) => x = y
<1>1. IsFiniteSet(Sockets) /\ NoSocket \notin Sockets /\ NoBuffer \notin StreamBuffers
  BY StreamAssumption DEF StreamBuffers
<1>2. /\ IsFiniteSet(Listable) /\ Cardinality(Listable) = Cardinality(Sockets) + 1
  BY <1>1, FS_AddElement DEF Listable
<1>3. Cardinality(Sockets) \in Nat
  BY <1>1, FS_CardinalityType
<1>4. \A b \in Headers : \E x \in Listable : b = Header(x)
  BY DEF Headers, Listable
<1>5. \A x \in Listable : Header(x) \in Headers /\ Header(x) \notin Pictures
  BY DEF Headers, Listable, Header, Pictures
<1>6. \A x, y \in Listable : Header(x) = Header(y) => x = y
  BY DEF Header
<1> QED BY <1>1, <1>2, <1>3, <1>4, <1>5, <1>6

LEMMA HoldersFinite ==
  ASSUME NEW l, NEW b, Listed(l)
  PROVE  /\ IsFiniteSet(Holders(l, b)) /\ Holders(l, b) \subseteq Listable
         /\ Cardinality(Holders(l, b)) \in Nat
BY Disjoint, FS_Subset, FS_CardinalityType DEF Holders, Listed

\* There is a picture that is not in use: each has a client, no client two.
LEMMA FreshPicture ==
  ASSUME NEW l, NEW r, Listed(l), Counters(r), Counted(l, r)
  PROVE  LET new == CHOOSE b \in Pictures : b \notin DOMAIN r
         IN new \in Pictures /\ new \notin DOMAIN r
<1> DEFINE D == DOMAIN r
           f == [b \in D |-> CHOOSE s \in Holders(l, b) : TRUE]
<1>1. \A b \in D : f[b] \in Listable /\ l[f[b]].tmpbuffer = b
  <2>1. \A b \in D : f[b] \in Holders(l, b)
    BY DEF Counted
  <2> QED BY <2>1 DEF Holders, Listed
<1>2. f \in Injection(D, Listable)
  <2>1. f \in [D -> Listable]
    BY <1>1
  <2>2. \A a, b \in D : f[a] = f[b] => a = b
    BY <1>1
  <2> QED BY <2>1, <2>2 DEF Injection, IsInjective
<1> HIDE DEF f
<1>3. IsFiniteSet(D) /\ Cardinality(D) <= Cardinality(Sockets) + 1
  BY <1>2, FS_Injection, Disjoint
<1>4. Cardinality(Pictures) = Cardinality(Sockets) + 2
  <2> DEFINE n == Cardinality(Sockets) + 2
  <2>1. n \in Nat /\ IsFiniteSet(1..n) /\ Cardinality(1..n) = n
    BY Disjoint, FS_Interval
  <2>2. IsFiniteSet({"picture"}) /\ Cardinality({"picture"}) = 1
    BY FS_Singleton
  <2>3. Cardinality({"picture"} \X (1..n)) = 1 * n
    BY <2>1, <2>2, FS_Product
  <2> QED BY <2>1, <2>3 DEF Pictures
<1>5. ~(Pictures \subseteq D)
  <2>1. SUFFICES ASSUME Pictures \subseteq D PROVE FALSE
    OBVIOUS
  <2>2. Cardinality(Pictures) <= Cardinality(D) /\ Cardinality(D) \in Nat
    BY <1>3, <2>1, FS_Subset, FS_CardinalityType
  <2> QED BY <2>2, <1>3, <1>4, Disjoint
<1> QED BY <1>5

-----------------------------------------------------------------------------
(* What the three changes of the list make of the counters *)

\* A client that is added has a header of its own.
LEMMA AddedCounts ==
  ASSUME NEW l, NEW r, NEW s \in Listable, Listed(l), Counters(r)
  PROVE  /\ Listed(Added(l, s)) /\ Counters(WithHeader(r, s))
         /\ DOMAIN Added(l, s) = DOMAIN l \cup {s}
         /\ Added(l, s)[s].tmpbuffer # NoBuffer
         /\ \A x \in DOMAIN l \ {s} : Added(l, s)[x] = l[x]
         /\ s \notin DOMAIN l /\ Counted(l, r) => Counted(Added(l, s), WithHeader(r, s))
<1> DEFINE m == Added(l, s)
           q == WithHeader(r, s)
           h == Header(s)
<1>1. /\ DOMAIN m = DOMAIN l \cup {s} /\ m[s].tmpbuffer = h
      /\ \A x \in DOMAIN l : x # s => m[x] = l[x]
      /\ m = [x \in DOMAIN m |-> m[x]]
  BY DEF Added
<1>2. m[s] \in [tmpbuffer : StreamBuffers \cup {NoBuffer}, nr : Nat]
  BY Disjoint DEF Added, StreamBuffers
<1>3. /\ DOMAIN q = DOMAIN r \cup {h} /\ q[h] = 0
      /\ \A b \in DOMAIN r : b # h => q[b] = r[b]
      /\ q = [b \in DOMAIN q |-> q[b]]
  BY DEF WithHeader
<1>4. h \in Headers /\ h \notin Pictures /\ h # NoBuffer /\ h \in StreamBuffers
  BY Disjoint DEF StreamBuffers
<1> HIDE DEF m, q, h
<1>5. Listed(m)
  BY <1>1, <1>2 DEF Listed
<1>6. Counters(q)
  BY <1>3, <1>4 DEF Counters
<1>7. ASSUME s \notin DOMAIN l, Counted(l, r) PROVE Counted(m, q)
  <2>1. \A b : b # h => Holders(m, b) = Holders(l, b)
    BY <1>1, <1>7 DEF Holders
  <2>2. h \notin DOMAIN r
    BY <1>7 DEF Counted, Holders, h
  <2>3. Holders(m, h) = {s}
    <3>1. \A x \in DOMAIN l : l[x].tmpbuffer # h
      BY <1>4, <1>7, <2>2 DEF Counted
    <3> QED BY <1>1, <1>7, <3>1 DEF Holders
  <2>4. \A x \in DOMAIN m : m[x].tmpbuffer \in DOMAIN q \cup {NoBuffer}
    BY <1>1, <1>3, <1>7 DEF Counted
  <2>5. \A b \in DOMAIN q : Holders(m, b) # {}
    BY <1>3, <1>7, <2>1, <2>3 DEF Counted
  <2>6. \A b \in DOMAIN q \cap Pictures : q[b] = Cardinality(Holders(m, b))
    BY <1>3, <1>4, <1>7, <2>1 DEF Counted
  <2>7. \A x \in Listable : Header(x) \in DOMAIN q =>
          Holders(m, Header(x)) = {x} /\ q[Header(x)] = 0
    <3>1. SUFFICES ASSUME NEW x \in Listable, Header(x) \in DOMAIN q
                   PROVE  Holders(m, Header(x)) = {x} /\ q[Header(x)] = 0
      OBVIOUS
    <3>2. CASE x = s
      BY <1>3, <2>3, <3>2 DEF h
    <3>3. CASE x # s
      <4>1. Header(x) # h
        BY <3>3, Disjoint DEF h
      <4>2. Header(x) \in DOMAIN r
        BY <1>3, <3>1, <4>1
      <4> QED BY <1>3, <1>7, <2>1, <4>1, <4>2 DEF Counted
    <3> QED BY <3>2, <3>3
  <2> QED BY <2>4, <2>5, <2>6, <2>7 DEF Counted
<1> QED BY <1>1, <1>4, <1>5, <1>6, <1>7 DEF m, q, h

\* The new picture is counted once for each client that takes it.
LEMMA SharedCounts ==
  ASSUME NEW l, NEW r, NEW takers, NEW new \in Pictures,
         Listed(l), Counters(r), Counted(l, r), new \notin DOMAIN r,
         takers \subseteq DOMAIN l \ Sending(l)
  PROVE  /\ Listed(Written(l, takers, new)) /\ DOMAIN Written(l, takers, new) = DOMAIN l
         /\ Counters(Shared(r, takers, new))
         /\ Counted(Written(l, takers, new), Shared(r, takers, new))
<1> DEFINE m == Written(l, takers, new)
           q == Shared(r, takers, new)
<1>0. /\ IsFiniteSet(takers) /\ Cardinality(takers) \in Nat
      /\ takers \subseteq DOMAIN l /\ \A s \in takers : l[s].tmpbuffer = NoBuffer
  <2>1. takers \subseteq Listable
    BY DEF Listed
  <2> QED BY <2>1, Disjoint, FS_Subset, FS_CardinalityType DEF Sending
<1>a. new \in StreamBuffers /\ new # NoBuffer /\ new \notin Headers
  BY Disjoint DEF StreamBuffers
<1>1. /\ DOMAIN m = DOMAIN l /\ m = [s \in DOMAIN m |-> m[s]]
      /\ \A s \in DOMAIN l \ takers : m[s] = l[s]
      /\ \A s \in takers : m[s] = [l[s] EXCEPT !.tmpbuffer = new]
  BY <1>0 DEF Written
<1>2. \A s \in takers : m[s].tmpbuffer = new /\ m[s] \in [tmpbuffer : StreamBuffers \cup {NoBuffer}, nr : Nat]
  <2> TAKE s \in takers
  <2>1. l[s] \in [tmpbuffer : StreamBuffers \cup {NoBuffer}, nr : Nat] /\ new \in StreamBuffers \cup {NoBuffer}
    BY <1>0, <1>a DEF Listed
  <2>2. m[s] = [l[s] EXCEPT !.tmpbuffer = new]
    BY <1>1
  <2> QED BY ONLY <2>1, <2>2
<1>3. Listed(m)
  <2>1. \A s \in DOMAIN m : m[s] \in [tmpbuffer : StreamBuffers \cup {NoBuffer}, nr : Nat]
    BY <1>1, <1>2 DEF Listed
  <2> QED BY <1>1, <2>1 DEF Listed
<1>4. /\ takers = {} => q = r
      /\ takers # {} => /\ DOMAIN q = DOMAIN r \cup {new} /\ q[new] = Cardinality(takers)
                        /\ \A b \in DOMAIN r : q[b] = r[b]
                        /\ q = [b \in DOMAIN q |-> q[b]]
  BY DEF Shared
<1> HIDE DEF m, q
<1>5. Counters(q)
  BY <1>0, <1>4, <1>a DEF Counters
<1>6. Counted(m, q)
  <2>1. \A b \in DOMAIN r : Holders(m, b) = Holders(l, b)
    <3>1. NoBuffer \notin DOMAIN r
      BY Disjoint DEF Counters
    <3> QED BY <1>0, <1>1, <1>2, <3>1 DEF Holders
  <2>2. Holders(m, new) = takers
    <3>1. \A s \in DOMAIN l : l[s].tmpbuffer # new
      BY <1>a DEF Counted
    <3> QED BY <1>0, <1>1, <1>2, <3>1 DEF Holders
  <2>3. \A s \in DOMAIN m : m[s].tmpbuffer \in DOMAIN q \cup {NoBuffer}
    BY <1>0, <1>1, <1>2, <1>4 DEF Counted
  <2>4. \A b \in DOMAIN q : Holders(m, b) # {}
    BY <1>4, <2>1, <2>2 DEF Counted
  <2>5. \A b \in DOMAIN q \cap Pictures : q[b] = Cardinality(Holders(m, b))
    BY <1>4, <2>1, <2>2 DEF Counted
  <2>6. \A x \in Listable : Header(x) \in DOMAIN q => Header(x) \in DOMAIN r
    BY <1>4, <1>a, Disjoint
  <2>7. \A x \in Listable : Header(x) \in DOMAIN q =>
          Holders(m, Header(x)) = {x} /\ q[Header(x)] = 0
    <3>1. SUFFICES ASSUME NEW x \in Listable, Header(x) \in DOMAIN r
                   PROVE  Holders(m, Header(x)) = {x} /\ q[Header(x)] = 0
      BY <2>6
    <3>2. q[Header(x)] = r[Header(x)]
      BY <1>4, <3>1
    <3> QED BY <2>1, <3>1, <3>2 DEF Counted
  <2> QED BY <2>3, <2>4, <2>5, <2>7 DEF Counted
<1> QED BY <1>1, <1>3, <1>5, <1>6 DEF m, q

\* stream_flush: a buffer that somebody still needs is kept, with the number of those.
LEMMA FlushCounts ==
  ASSUME NEW l, NEW r, NEW out \in Outcomes(l), Listed(l), Counters(r), Counted(l, r),
         stream.limit \in Nat
  PROVE  /\ Listed(Served(l, out)) /\ Counters(BuffersAfter(r, l, out))
         /\ Counted(Served(l, out), BuffersAfter(r, l, out))
         /\ DOMAIN Served(l, out) \subseteq DOMAIN l \ Dropped(l, out)
         /\ NoSocket \notin DOMAIN Served(l, out) \/ l[NoSocket].tmpbuffer = NoBuffer
<1> DEFINE R == Released(out)
           m == Served(l, out)
           q == BuffersAfter(r, l, out)
           n(b) == Cardinality(Holders(l, b) \cap R)
<1>0. /\ R \subseteq DOMAIN l /\ Dropped(l, out) \subseteq R
      /\ \A s \in R : l[s].tmpbuffer # NoBuffer
      /\ NoSocket \in DOMAIN l /\ l[NoSocket].tmpbuffer # NoBuffer => NoSocket \in Dropped(l, out)
  BY DEF Released, Dropped, Outcomes, Sending
<1>1. /\ DOMAIN m = DOMAIN l \ Dropped(l, out) /\ m = [s \in DOMAIN m |-> m[s]]
      /\ \A s \in DOMAIN m : s \in R => m[s].tmpbuffer = NoBuffer
      /\ \A s \in DOMAIN m : s \notin R => m[s] = l[s]
  BY DEF Served
<1>2. \A s \in DOMAIN m : m[s] \in [tmpbuffer : StreamBuffers \cup {NoBuffer}, nr : Nat]
  BY <1>0, <1>1 DEF Served, Listed
<1>3. Listed(m)
  BY <1>1, <1>2 DEF Listed
<1>4. \A b : /\ IsFiniteSet(Holders(l, b)) /\ Cardinality(Holders(l, b)) \in Nat
             /\ n(b) \in Nat
             /\ n(b) = 0 <=> Holders(l, b) \cap R = {}
             /\ Cardinality(Holders(l, b) \ R) = Cardinality(Holders(l, b)) - n(b)
             /\ Cardinality(Holders(l, b) \ R) = 0 => Holders(l, b) \ R = {}
  <2> SUFFICES ASSUME NEW b
               PROVE  /\ IsFiniteSet(Holders(l, b)) /\ Cardinality(Holders(l, b)) \in Nat
                      /\ n(b) \in Nat
                      /\ n(b) = 0 <=> Holders(l, b) \cap R = {}
                      /\ Cardinality(Holders(l, b) \ R) = Cardinality(Holders(l, b)) - n(b)
                      /\ Cardinality(Holders(l, b) \ R) = 0 => Holders(l, b) \ R = {}
    OBVIOUS
  <2> DEFINE H == Holders(l, b)
  <2>1. IsFiniteSet(H) /\ Cardinality(H) \in Nat
    BY HoldersFinite
  <2> HIDE DEF H, R
  <2>2. IsFiniteSet(H \cap R) /\ IsFiniteSet(H \ R)
    BY <2>1, FS_Subset
  <2>3. Cardinality(H \cap R) \in Nat
    BY <2>2, FS_CardinalityType
  <2>4. (Cardinality(H \cap R) = 0 <=> H \cap R = {}) /\ (Cardinality(H \ R) = 0 => H \ R = {})
    BY <2>2, FS_EmptySet
  <2>5. Cardinality(H \ R) = Cardinality(H) - Cardinality(H \cap R)
    BY <2>1, FS_Difference
  <2> QED BY <2>1, <2>3, <2>4, <2>5 DEF H
<1>5. /\ DOMAIN q = {c \in DOMAIN r : n(c) = 0 \/ r[c] - n(c) > 0}
      /\ \A b \in DOMAIN q : q[b] = r[b] - n(b)
      /\ q = [b \in DOMAIN q |-> q[b]]
  BY DEF BuffersAfter
<1>6. \A b : b # NoBuffer => Holders(m, b) = Holders(l, b) \ R
  BY <1>0, <1>1 DEF Holders
<1> HIDE DEF n, m, q, R
<1>7. Counters(q)
  <2>1. \A b \in DOMAIN q : q[b] \in Nat
    <3> SUFFICES ASSUME NEW b \in DOMAIN q PROVE q[b] \in Nat
      OBVIOUS
    <3>1. n(b) \in Nat
      BY <1>4
    <3>2. b \in DOMAIN r /\ (n(b) = 0 \/ r[b] - n(b) > 0) /\ q[b] = r[b] - n(b)
      BY <1>5
    <3>3. r[b] \in Nat
      BY <3>2 DEF Counters
    <3> QED BY <3>1, <3>2, <3>3
  <2>2. DOMAIN q \subseteq DOMAIN r
    BY <1>5
  <2> QED BY <1>5, <2>1, <2>2 DEF Counters
<1>8. \A b \in DOMAIN r : b # NoBuffer /\ r[b] \in Nat
                          /\ (b \in Pictures \/ \E x \in Listable : b = Header(x))
  BY Disjoint DEF Counters, StreamBuffers
<1>9. \A b \in DOMAIN r \cap Pictures :
        /\ b \in DOMAIN q <=> Holders(l, b) \ R # {}
        /\ b \in DOMAIN q => q[b] = Cardinality(Holders(m, b))
  <2> SUFFICES ASSUME NEW b \in DOMAIN r \cap Pictures
               PROVE  /\ b \in DOMAIN q <=> Holders(l, b) \ R # {}
                      /\ b \in DOMAIN q => q[b] = Cardinality(Holders(m, b))
    OBVIOUS
  <2>1. r[b] = Cardinality(Holders(l, b)) /\ Holders(l, b) # {} /\ b # NoBuffer
    BY <1>8 DEF Counted
  <2>2. r[b] - n(b) = Cardinality(Holders(l, b) \ R) /\ r[b] \in Nat /\ n(b) \in Nat
    BY <1>4, <2>1
  <2>3. b \in DOMAIN q <=> n(b) = 0 \/ r[b] - n(b) > 0
    BY <1>5
  <2>4. n(b) = 0 => Holders(l, b) \ R # {}
    BY <1>4, <2>1
  <2>5. r[b] - n(b) > 0 => Holders(l, b) \ R # {}
    <3>1. Holders(l, b) \ R = {} => Cardinality(Holders(l, b) \ R) = 0
      BY FS_EmptySet
    <3> QED BY <2>2, <3>1
  <2>6. Holders(l, b) \ R # {} => r[b] - n(b) > 0
    <3>1. Cardinality(Holders(l, b) \ R) # 0 \/ Holders(l, b) \ R = {}
      BY <1>4
    <3>2. IsFiniteSet(Holders(l, b) \ R)
      BY <1>4, FS_Subset
    <3>3. Cardinality(Holders(l, b) \ R) \in Nat
      BY <3>2, FS_CardinalityType
    <3> QED BY <2>2, <3>1, <3>3
  <2>7. b \in DOMAIN q <=> Holders(l, b) \ R # {}
    BY <2>3, <2>4, <2>5, <2>6
  <2>8. b \in DOMAIN q => q[b] = Cardinality(Holders(m, b))
    BY <1>5, <1>6, <2>1, <2>2
  <2> QED BY <2>7, <2>8
<1>10. \A x \in Listable : Header(x) \in DOMAIN r =>
         /\ Holders(l, Header(x)) = {x} /\ r[Header(x)] = 0
         /\ Header(x) \in DOMAIN q <=> x \notin R
         /\ Header(x) \in DOMAIN q => q[Header(x)] = 0
  <2> SUFFICES ASSUME NEW x \in Listable, Header(x) \in DOMAIN r
               PROVE  /\ Holders(l, Header(x)) = {x} /\ r[Header(x)] = 0
                      /\ Header(x) \in DOMAIN q <=> x \notin R
                      /\ Header(x) \in DOMAIN q => q[Header(x)] = 0
    OBVIOUS
  <2> DEFINE h == Header(x)
  <2>1. Holders(l, h) = {x} /\ r[h] = 0
    BY DEF Counted
  <2>2. n(h) \in Nat /\ (n(h) = 0 <=> x \notin R)
    BY <1>4, <2>1
  <2> HIDE DEF h
  <2>3. h \in DOMAIN q <=> n(h) = 0
    BY <1>5, <2>1, <2>2 DEF h
  <2>4. h \in DOMAIN q => q[h] = 0
    BY <1>5, <2>1, <2>2, <2>3
  <2> QED BY <2>1, <2>2, <2>3, <2>4 DEF h
<1>11. \A b \in DOMAIN r : b \in DOMAIN q <=> Holders(l, b) \ R # {}
  BY <1>8, <1>9, <1>10
<1>12. DOMAIN q \subseteq DOMAIN r
  BY <1>5
<1>13. \A s \in DOMAIN m : m[s].tmpbuffer \in DOMAIN q \cup {NoBuffer}
  <2> SUFFICES ASSUME NEW s \in DOMAIN m, m[s].tmpbuffer # NoBuffer
               PROVE  m[s].tmpbuffer \in DOMAIN q
    OBVIOUS
  <2>1. s \in DOMAIN l /\ s \notin R /\ m[s] = l[s]
    BY <1>1
  <2>2. m[s].tmpbuffer \in DOMAIN r /\ s \in Holders(l, m[s].tmpbuffer)
    BY <2>1 DEF Counted, Holders
  <2> QED BY <1>11, <2>1, <2>2
<1>14. \A b \in DOMAIN q : Holders(m, b) # {}
  BY <1>6, <1>8, <1>11, <1>12
<1>15. \A x \in Listable : Header(x) \in DOMAIN q =>
         Holders(m, Header(x)) = {x} /\ q[Header(x)] = 0
  <2> SUFFICES ASSUME NEW x \in Listable, Header(x) \in DOMAIN q
               PROVE  Holders(m, Header(x)) = {x} /\ q[Header(x)] = 0
    OBVIOUS
  <2>1. /\ Header(x) \in DOMAIN r /\ Header(x) # NoBuffer
        /\ Holders(l, Header(x)) = {x} /\ x \notin R /\ q[Header(x)] = 0
    BY <1>8, <1>10, <1>12
  <2> QED BY <1>6, <2>1
<1>16. Counted(m, q)
  BY <1>9, <1>12, <1>13, <1>14, <1>15 DEF Counted
<1> QED BY <1>0, <1>1, <1>3, <1>7, <1>16 DEF m, q
-----------------------------------------------------------------------------
(* The invariant *)

Puts == {"idle", "accepted", "section", "flushed"}
Stays == {"away", "queued", "auth", "listed", "lost"}

StreamTyped ==
  /\ client \in [Sockets -> Stays] /\ backlog \in Seq(Sockets)
  /\ Listed(list) /\ Counters(ref) /\ put \in Puts
  /\ stream \in [open : BOOLEAN, count : Int, auth : BOOLEAN, limit : Nat, locked : BOOLEAN]

\* Each connection waits once, and has no place in the list.
Waiting(q, c) ==
  /\ \A i \in DOMAIN q : c[q[i]] = "queued"
  /\ \A i, j \in DOMAIN q : q[i] = q[j] => i = j

StreamInv ==
  /\ StreamTyped
  /\ Waiting(backlog, client)
  /\ ~stream.open => put = "idle"
  /\ stream.open => \A s \in DOMAIN list \ {NoSocket} : client[s] = "listed"
  \* An accept that failed is in the list until it is flushed.
  /\ NoSocket \in DOMAIN list =>
       put \in {"accepted", "section"} /\ list[NoSocket].tmpbuffer # NoBuffer
  /\ stream.open => Counted(list, ref)

LEMMA CountedSuffices == StreamInv => BuffersCounted
BY DEF StreamInv, BuffersCounted, Counted

LEMMA EmptyCounts ==
  /\ Listed(<<>>) /\ Counters(<<>>) /\ Counted(<<>>, <<>>) /\ DOMAIN <<>> = {}
<1>1. DOMAIN <<>> = {} /\ <<>> = [x \in DOMAIN <<>> |-> <<>>[x]]
  OBVIOUS
<1> QED BY <1>1 DEF Listed, Counters, Counted

LEMMA StreamInitially == StreamInit => StreamInv
<1> SUFFICES ASSUME StreamInit PROVE StreamInv
  OBVIOUS
<1>1. list = <<>> /\ ref = <<>> /\ backlog = <<>> /\ put = "idle"
  BY DEF StreamInit
<1>2. stream \in [open : BOOLEAN, count : Int, auth : BOOLEAN, limit : Nat, locked : BOOLEAN]
  BY StreamAssumption DEF StreamInit
<1>3. client \in [Sockets -> Stays]
  BY DEF StreamInit, Stays
<1>4. Waiting(backlog, client)
  BY <1>1 DEF Waiting
<1>5. backlog \in Seq(Sockets)
  BY <1>1
<1> QED BY <1>1, <1>2, <1>3, <1>4, <1>5, EmptyCounts DEF StreamInv, StreamTyped, Puts

\* The queue of the connections: one joins, the first is taken.
LEMMA Joins ==
  ASSUME NEW q \in Seq(Sockets), NEW c \in [Sockets -> Stays], Waiting(q, c),
         NEW s \in Sockets, c[s] = "away"
  PROVE  /\ Append(q, s) \in Seq(Sockets)
         /\ Waiting(Append(q, s), [c EXCEPT ![s] = "queued"])
<1> DEFINE p == Append(q, s)
           d == [c EXCEPT ![s] = "queued"]
<1>1. /\ p \in Seq(Sockets) /\ Len(p) = Len(q) + 1
      /\ \A i \in 1..Len(q) : p[i] = q[i]
      /\ p[Len(q) + 1] = s
  BY AppendProperties
<1>2. /\ DOMAIN p = 1..Len(q) + 1 /\ DOMAIN q = 1..Len(q) /\ Len(q) \in Nat
      /\ \A i \in DOMAIN q : q[i] \in Sockets /\ q[i] # s
  BY <1>1 DEF Waiting
<1>3. d[s] = "queued" /\ \A x \in Sockets : x # s => d[x] = c[x]
  OBVIOUS
<1> HIDE DEF p, d
<1>4. \A i \in DOMAIN p : (i \in DOMAIN q /\ p[i] = q[i]) \/ (i = Len(q) + 1 /\ p[i] = s)
  BY <1>1, <1>2
<1>5. \A i \in DOMAIN p : d[p[i]] = "queued"
  BY <1>2, <1>3, <1>4 DEF Waiting
<1>6. \A i, j \in DOMAIN p : p[i] = p[j] => i = j
  BY <1>2, <1>4 DEF Waiting
<1> QED BY <1>1, <1>5, <1>6 DEF p, d, Waiting

LEMMA FirstTaken ==
  ASSUME NEW q \in Seq(Sockets), NEW c \in [Sockets -> Stays], Waiting(q, c), q # <<>>,
         NEW v \in Stays
  PROVE  /\ Head(q) \in Sockets /\ c[Head(q)] = "queued" /\ Tail(q) \in Seq(Sockets)
         /\ Waiting(Tail(q), [c EXCEPT ![Head(q)] = v])
<1> DEFINE p == Tail(q)
           s == Head(q)
           d == [c EXCEPT ![Head(q)] = v]
<1>1. /\ p \in Seq(Sockets) /\ Len(p) = Len(q) - 1
      /\ \A i \in 1..Len(p) : p[i] = q[i + 1]
      /\ Len(q) \in Nat /\ Len(q) > 0 /\ s = q[1] /\ s \in Sockets
  BY HeadTailProperties, EmptySeq
<1>2. DOMAIN p = 1..Len(p) /\ DOMAIN q = 1..Len(q)
  BY <1>1
<1>3. d[s] = v /\ \A x \in Sockets : x # s => d[x] = c[x]
  BY <1>1
<1> HIDE DEF p, s, d
<1>4. \A i \in DOMAIN p : i + 1 \in DOMAIN q /\ i + 1 # 1 /\ p[i] = q[i + 1]
  BY <1>1, <1>2
<1>5. c[s] = "queued" /\ 1 \in DOMAIN q
  BY <1>1, <1>2 DEF Waiting
<1>6. \A i \in DOMAIN p : p[i] \in Sockets /\ p[i] # s /\ c[p[i]] = "queued"
  <2> SUFFICES ASSUME NEW i \in DOMAIN p
               PROVE  p[i] \in Sockets /\ p[i] # s /\ c[p[i]] = "queued"
    OBVIOUS
  <2>1. i + 1 \in DOMAIN q /\ i + 1 # 1 /\ p[i] = q[i + 1]
    BY <1>4
  <2>2. q[i + 1] # q[1] /\ c[q[i + 1]] = "queued"
    BY <2>1, <1>5 DEF Waiting
  <2>3. q[i + 1] \in Sockets
    BY <2>1, <1>2
  <2> QED BY <1>1, <2>1, <2>2, <2>3
<1>7. \A i \in DOMAIN p : d[p[i]] = "queued"
  BY <1>3, <1>6
<1>8. \A i, j \in DOMAIN p : p[i] = p[j] => i = j
  <2> SUFFICES ASSUME NEW i \in DOMAIN p, NEW j \in DOMAIN p, p[i] = p[j] PROVE i = j
    OBVIOUS
  <2>1. i + 1 = j + 1
    BY <1>4 DEF Waiting
  <2> QED BY <2>1, <1>1, <1>2
<1> QED BY <1>1, <1>5, <1>7, <1>8 DEF p, s, d, Waiting

\* Who is not in the queue may change his state.
LEMMA QueueKept ==
  ASSUME NEW q \in Seq(Sockets), NEW c \in [Sockets -> Stays], NEW d \in [Sockets -> Stays],
         Waiting(q, c), \A s \in Sockets : c[s] = "queued" => d[s] = "queued"
  PROVE  Waiting(q, d)
<1>1. \A i \in DOMAIN q : q[i] \in Sockets
  OBVIOUS
<1> QED BY <1>1 DEF Waiting

-----------------------------------------------------------------------------
(* One lemma for each step that touches the list *)

LEMMA AcceptKeeps == StreamInv /\ http_acceptsock => StreamInv'
<1> SUFFICES ASSUME StreamInv, http_acceptsock PROVE StreamInv'
  OBVIOUS
<1> USE DEF StreamInv, StreamTyped
<1>0. /\ put = "idle" /\ stream.open /\ put' = "accepted"
      /\ NoSocket \notin DOMAIN list /\ put' \in Puts
  BY DEF http_acceptsock, Puts
<1>1. CASE UNCHANGED <<client, backlog, list, ref, stream>>
  BY <1>0, <1>1 DEF Waiting
<1>2. CASE /\ backlog # <<>> /\ backlog' = Tail(backlog)
           /\ \E is \in {"listed", "away"} :
                IF stream.auth
                THEN /\ client' = [client EXCEPT ![Head(backlog)] = IF is = "away" THEN is ELSE "auth"]
                     /\ UNCHANGED <<list, ref, stream>>
                ELSE /\ client' = [client EXCEPT ![Head(backlog)] = is]
                     /\ stream_add_client(IF is = "away" THEN NoSocket ELSE Head(backlog))
  <2>1. PICK is \in {"listed", "away"} :
          IF stream.auth
          THEN /\ client' = [client EXCEPT ![Head(backlog)] = IF is = "away" THEN is ELSE "auth"]
               /\ UNCHANGED <<list, ref, stream>>
          ELSE /\ client' = [client EXCEPT ![Head(backlog)] = is]
               /\ stream_add_client(IF is = "away" THEN NoSocket ELSE Head(backlog))
    BY <1>2
  <2> DEFINE s == Head(backlog)
             v == IF stream.auth /\ is = "listed" THEN "auth" ELSE is
  <2>2. v \in Stays /\ client' = [client EXCEPT ![s] = v]
    BY <2>1 DEF Stays
  <2>3. /\ s \in Sockets /\ client[s] = "queued" /\ backlog' \in Seq(Sockets)
        /\ Waiting(backlog', client')
    BY <1>2, <2>2, FirstTaken
  <2>4. client' \in [Sockets -> Stays]
    BY <2>2, <2>3
  <2>5. \A x \in DOMAIN list : x \in Sockets /\ client[x] = "listed" /\ x # s
    BY <1>0, <2>3 DEF Listed, Listable
  <2>6. \A x \in DOMAIN list : client'[x] = "listed"
    BY <2>2, <2>5
  <2>7. CASE stream.auth
    BY <1>0, <2>1, <2>3, <2>4, <2>6, <2>7
  <2>8. CASE ~stream.auth
    <3> DEFINE t == IF is = "away" THEN NoSocket ELSE s
    <3>1. /\ t \in Listable /\ t \notin DOMAIN list
          /\ list' = Added(list, t) /\ ref' = WithHeader(ref, t)
          /\ stream' = [stream EXCEPT !.count = @ + 1]
      BY <1>0, <2>1, <2>3, <2>5, <2>8 DEF stream_add_client, Listable
    <3> HIDE DEF t
    <3>2. /\ Listed(list') /\ Counters(ref') /\ Counted(list', ref')
          /\ DOMAIN list' = DOMAIN list \cup {t} /\ list'[t].tmpbuffer # NoBuffer
      <4>1. /\ Listed(Added(list, t)) /\ Counters(WithHeader(ref, t))
            /\ DOMAIN Added(list, t) = DOMAIN list \cup {t}
            /\ Added(list, t)[t].tmpbuffer # NoBuffer
            /\ t \notin DOMAIN list /\ Counted(list, ref)
                 => Counted(Added(list, t), WithHeader(ref, t))
        <5>1. Listed(list) /\ Counters(ref) /\ t \in Listable
          BY <3>1
        <5> HIDE DEF StreamInv, StreamTyped
        <5> QED BY <5>1, AddedCounts
      <4> QED BY <1>0, <3>1, <4>1
    <3>3. \A x \in DOMAIN list' \ {NoSocket} : client'[x] = "listed"
      BY <2>2, <2>3, <2>6, <2>8, <3>2 DEF t
    <3>4. /\ stream' \in [open : BOOLEAN, count : Int, auth : BOOLEAN, limit : Nat, locked : BOOLEAN]
          /\ stream'.open = stream.open
      BY <3>1
    <3>5. NoSocket \in DOMAIN list' => NoSocket = t
      BY <1>0, <3>2
    <3> QED BY <1>0, <2>3, <2>4, <3>2, <3>3, <3>4, <3>5
  <2> QED BY <2>7, <2>8
<1> QED BY <1>1, <1>2 DEF http_acceptsock

LEMMA AuthKeeps == ASSUME NEW s \in Sockets PROVE StreamInv /\ do_client_auth(s) => StreamInv'
<1> SUFFICES ASSUME StreamInv, do_client_auth(s) PROVE StreamInv'
  OBVIOUS
<1> USE DEF StreamInv, StreamTyped
<1>0. client[s] = "auth" /\ backlog' = backlog /\ put' = put
  BY DEF do_client_auth, AuthFails, AuthSucceeds
<1>1. PICK v \in {"away", "listed"} : client' = [client EXCEPT ![s] = v]
  BY DEF do_client_auth, AuthFails, AuthSucceeds
<1>2. client' \in [Sockets -> Stays]
  BY <1>1 DEF Stays
<1>3. Waiting(backlog', client')
  BY <1>0, <1>1, <1>2, QueueKept
<1>4. CASE AuthFails(s)
  <2>1. UNCHANGED <<list, ref, stream>> /\ client' = [client EXCEPT ![s] = "away"]
    BY <1>4 DEF AuthFails
  <2>2. stream.open => s \notin DOMAIN list
    BY <1>0, Disjoint, StreamAssumption
  <2> QED BY <1>0, <1>2, <1>3, <2>1, <2>2, StreamAssumption
<1>5. CASE AuthSucceeds(s)
  <2>1. /\ client' = [client EXCEPT ![s] = "listed"]
        /\ list' = Added(list, s) /\ ref' = WithHeader(ref, s)
        /\ stream' = [stream EXCEPT !.count = @ + 1]
    BY <1>5 DEF AuthSucceeds, stream_add_client
  <2>2. s \in Listable /\ s # NoSocket
    BY StreamAssumption DEF Listable
  <2>3. stream.open => s \notin DOMAIN list
    BY <1>0, <2>2
  <2>4. /\ DOMAIN list' = DOMAIN list \cup {s}
        /\ Listed(list') /\ Counters(ref')
        /\ \A x \in DOMAIN list \ {s} : list'[x] = list[x]
    <3>1. Listed(list) /\ Counters(ref)
      OBVIOUS
    <3> HIDE DEF StreamInv, StreamTyped
    <3>2. /\ Listed(Added(list, s)) /\ Counters(WithHeader(ref, s))
          /\ DOMAIN Added(list, s) = DOMAIN list \cup {s}
          /\ \A x \in DOMAIN list \ {s} : Added(list, s)[x] = list[x]
      BY <2>2, <3>1, AddedCounts
    <3> QED BY <2>1, <3>2
  <2>5. stream.open => Counted(list', ref')
    BY <2>1, <2>2, <2>3, AddedCounts
  <2>6. stream.open => \A x \in DOMAIN list' \ {NoSocket} : client'[x] = "listed"
    BY <2>1, <2>4 DEF Listed, Listable
  <2>7. /\ stream' \in [open : BOOLEAN, count : Int, auth : BOOLEAN, limit : Nat, locked : BOOLEAN]
        /\ stream'.open = stream.open
    BY <2>1
  <2> QED BY <1>0, <1>2, <1>3, <2>2, <2>4, <2>5, <2>6, <2>7
<1> QED BY <1>4, <1>5 DEF do_client_auth

\* What stream_flush makes of a list whose buffers are counted.
LEMMA FlushKeeps ==
  ASSUME StreamInv, stream.open,
         NEW l, NEW r, NEW out \in Outcomes(l), NEW st,
         Listed(l), Counters(r), Counted(l, r), DOMAIN l = DOMAIN list,
         NoSocket \in DOMAIN l => l[NoSocket].tmpbuffer # NoBuffer,
         Flush(l, r, out), st \in {stream, Unlocked}, stream' = After(st, l, out),
         backlog' = backlog, put' \in Puts
  PROVE  StreamInv'
<1> USE DEF StreamInv, StreamTyped
<1> DEFINE gone == Dropped(l, out)
<1>1. stream.limit \in Nat
  OBVIOUS
<1>2. /\ list' = Served(l, out) /\ ref' = BuffersAfter(r, l, out)
      /\ client' = [s \in Sockets |-> IF s \in gone THEN "away" ELSE client[s]]
  BY DEF Flush
<1>3. /\ Listed(list') /\ Counters(ref') /\ Counted(list', ref')
      /\ DOMAIN list' \subseteq DOMAIN list \ gone /\ NoSocket \notin DOMAIN list'
  BY <1>1, <1>2, FlushCounts
<1>4. gone \subseteq DOMAIN list
  BY DEF Dropped, Released, Outcomes, Sending
<1>5. client' \in [Sockets -> Stays]
  BY <1>2 DEF Stays
<1>6. \A s \in Sockets : client[s] = "queued" => client'[s] = "queued"
  BY <1>2, <1>4, StreamAssumption
<1>7. Waiting(backlog', client')
  BY <1>5, <1>6, QueueKept
<1>8. \A s \in DOMAIN list' \ {NoSocket} : client'[s] = "listed"
  BY <1>2, <1>3 DEF Listed, Listable
<1>9. /\ stream' \in [open : BOOLEAN, count : Int, auth : BOOLEAN, limit : Nat, locked : BOOLEAN]
      /\ stream'.open
  <2>1. IsFiniteSet(gone)
    <3>1. gone \subseteq Listable
      BY <1>4 DEF Listed
    <3> QED BY <3>1, Disjoint, FS_Subset
  <2>2. Cardinality(gone) \in Nat
    BY <2>1, FS_CardinalityType
  <2>3. /\ st \in [open : BOOLEAN, count : Int, auth : BOOLEAN, limit : Nat, locked : BOOLEAN]
        /\ st.open
    BY DEF Unlocked
  <2> HIDE DEF gone
  <2>4. stream' = [st EXCEPT !.count = @ - Cardinality(gone)]
    BY DEF After, CountWithout, gone
  <2> QED BY <2>2, <2>3, <2>4
<1> QED BY <1>3, <1>5, <1>7, <1>8, <1>9

LEMMA SectionKeeps == StreamInv /\ StreamFlush => StreamInv'
<1> SUFFICES ASSUME StreamInv, StreamFlush PROVE StreamInv'
  OBVIOUS
<1>1. /\ put = "section" /\ put' = "flushed" /\ backlog' = backlog
      /\ stream.open /\ Listed(list) /\ Counters(ref) /\ Counted(list, ref) /\ put' \in Puts
  BY DEF StreamFlush, StreamInv, StreamTyped, Puts
<1>2. PICK out \in Outcomes(list) : Flush(list, ref, out) /\ stream' = After(stream, list, out)
  BY DEF StreamFlush
<1>3. NoSocket \in DOMAIN list => list[NoSocket].tmpbuffer # NoBuffer
  BY DEF StreamInv
<1> QED BY <1>1, <1>2, <1>3, FlushKeeps

LEMMA PutKeeps == StreamInv /\ StreamPut => StreamInv'
<1> SUFFICES ASSUME StreamInv, StreamPut PROVE StreamInv'
  OBVIOUS
<1> DEFINE new == CHOOSE b \in Pictures : b \notin DOMAIN ref
<1>1. /\ put = "flushed" /\ put' = "idle" /\ backlog' = backlog
      /\ stream.open /\ Listed(list) /\ Counters(ref) /\ Counted(list, ref) /\ put' \in Puts
      /\ NoSocket \notin DOMAIN list
  BY DEF StreamPut, StreamInv, StreamTyped, Puts
<1>2. new \in Pictures /\ new \notin DOMAIN ref
  BY <1>1, FreshPicture
<1>3. PICK takers \in SUBSET (DOMAIN list \ Sending(list)) :
        \E out \in Outcomes(Written(list, takers, new)) :
          /\ Flush(Written(list, takers, new), Shared(ref, takers, new), out)
          /\ stream' = After(Unlocked, Written(list, takers, new), out)
  BY DEF StreamPut
<1> DEFINE l == Written(list, takers, new)
           r == Shared(ref, takers, new)
<1>4. Listed(l) /\ Counters(r) /\ Counted(l, r) /\ DOMAIN l = DOMAIN list
  BY <1>1, <1>2, SharedCounts
<1>5. PICK out \in Outcomes(l) : Flush(l, r, out) /\ stream' = After(Unlocked, l, out)
  BY <1>3
<1> HIDE DEF l, r
<1> QED BY <1>1, <1>4, <1>5, FlushKeeps

-----------------------------------------------------------------------------
(* A buffer is freed with its last client and not before: the counter of a *)
(* picture is the number of clients that are still to get it (the buffers  *)
(* of stream_flush and stream_add_write), for every number of clients, any *)
(* limits, restarts and changes of the configuration.                      *)
THEOREM BuffersAreCounted == StreamSpec => []BuffersCounted
<1>1. StreamInit => StreamInv
  BY StreamInitially
<1>2. StreamInv /\ [StreamNext]_streamVars => StreamInv'
  <2> SUFFICES ASSUME StreamInv, [StreamNext]_streamVars PROVE StreamInv'
    OBVIOUS
  <2>1. CASE http_acceptsock
    BY <2>1, AcceptKeeps
  <2>2. CASE StreamLock
    <3>1. /\ UNCHANGED <<client, backlog, list, ref>> /\ put = "accepted" /\ put' = "section"
          /\ stream' = [stream EXCEPT !.locked = @ \/ stream.auth]
      BY <2>2 DEF StreamLock
    <3>2. /\ stream' \in [open : BOOLEAN, count : Int, auth : BOOLEAN, limit : Nat, locked : BOOLEAN]
          /\ stream'.open = stream.open
      BY <3>1 DEF StreamInv, StreamTyped
    <3> QED BY <3>1, <3>2 DEF StreamInv, StreamTyped, Puts, Waiting
  <2>3. CASE StreamFlush
    BY <2>3, SectionKeeps
  <2>4. CASE StreamPut
    BY <2>4, PutKeeps
  <2>5. CASE StreamStop
    <3>1. /\ put = "idle" /\ put' = put /\ stream' = [stream EXCEPT !.open = FALSE]
          /\ client' = [s \in Sockets |-> IF client[s] \in {"listed", "queued"} THEN "away" ELSE client[s]]
          /\ ref' = <<>> /\ backlog' = <<>> /\ list' = list
      BY <2>5 DEF StreamStop
    <3>2. client' \in [Sockets -> Stays]
      BY <3>1 DEF StreamInv, StreamTyped, Stays
    <3>3. /\ stream' \in [open : BOOLEAN, count : Int, auth : BOOLEAN, limit : Nat, locked : BOOLEAN]
          /\ ~stream'.open
      BY <3>1 DEF StreamInv, StreamTyped
    <3>4. Waiting(backlog', client') /\ backlog' \in Seq(Sockets)
      BY <3>1 DEF Waiting
    <3> QED BY <3>1, <3>2, <3>3, <3>4, EmptyCounts DEF StreamInv, StreamTyped
  <2>6. CASE StreamStart
    <3>1. /\ ~stream.open /\ stream' = [stream EXCEPT !.open = TRUE]
          /\ list' = <<>> /\ ref' = <<>> /\ UNCHANGED <<backlog, put>>
          /\ client' = [s \in Sockets |-> IF client[s] = "listed" THEN "lost" ELSE client[s]]
      BY <2>6 DEF StreamStart
    <3>2. client' \in [Sockets -> Stays]
      BY <3>1 DEF StreamInv, StreamTyped, Stays
    <3>3. stream' \in [open : BOOLEAN, count : Int, auth : BOOLEAN, limit : Nat, locked : BOOLEAN]
      BY <3>1 DEF StreamInv, StreamTyped
    <3>4. Waiting(backlog', client')
      BY <3>1, <3>2, QueueKept DEF StreamInv, StreamTyped
    <3>5. DOMAIN list' = {}
      BY <3>1, EmptyCounts
    <3> QED BY <3>1, <3>2, <3>3, <3>4, <3>5, EmptyCounts DEF StreamInv, StreamTyped
  <2>7. CASE ConfigAuth
    <3>1. UNCHANGED <<client, backlog, list, ref, put>> /\ stream' = [stream EXCEPT !.auth = ~@]
      BY <2>7 DEF ConfigAuth
    <3>2. /\ stream' \in [open : BOOLEAN, count : Int, auth : BOOLEAN, limit : Nat, locked : BOOLEAN]
          /\ stream'.open = stream.open
      BY <3>1 DEF StreamInv, StreamTyped
    <3> QED BY <3>1, <3>2 DEF StreamInv, StreamTyped, Waiting
  <2>8. ASSUME NEW s \in Sockets, StreamConnect(s) PROVE StreamInv'
    <3>1. /\ client[s] = "away" /\ stream.open /\ UNCHANGED <<list, ref, stream, put>>
          /\ client' = [client EXCEPT ![s] = "queued"] /\ backlog' = Append(backlog, s)
      BY <2>8 DEF StreamConnect
    <3>2. client' \in [Sockets -> Stays]
      BY <3>1 DEF StreamInv, StreamTyped, Stays
    <3>3. backlog' \in Seq(Sockets) /\ Waiting(backlog', client')
      BY <3>1, Joins DEF StreamInv, StreamTyped
    <3>4. \A x \in DOMAIN list \ {NoSocket} : client'[x] = "listed"
      BY <3>1 DEF StreamInv, StreamTyped, Listed, Listable
    <3> QED BY <3>1, <3>2, <3>3, <3>4 DEF StreamInv, StreamTyped
  <2>9. ASSUME NEW s \in Sockets, do_client_auth(s) PROVE StreamInv'
    BY <2>9, AuthKeeps
  <2>10. CASE UNCHANGED streamVars
    BY <2>10 DEF streamVars, StreamInv, StreamTyped, Waiting
  <2> QED BY <2>1, <2>2, <2>3, <2>4, <2>5, <2>6, <2>7, <2>8, <2>9, <2>10 DEF StreamNext, stream_put
<1> QED BY <1>1, <1>2, CountedSuffices, PTL DEF StreamSpec
=============================================================================
