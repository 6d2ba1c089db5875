------------------------------- MODULE Netcam -------------------------------
(***************************************************************************)
(* A network camera: the handler thread of netcam.c, that reads images     *)
(* into three buffers, and the motion loop that starts it, asks it for     *)
(* images, decodes them and cleans it up.                                  *)
(*                                                                         *)
(* The camera is external: it sends single pictures or a multipart stream, *)
(* and at any moment may fail to answer, cut an image or drop the          *)
(* connection.  The sections under netcam->mutex are one step each.  An    *)
(* image is what its buffer holds: nothing, a part or the whole of one.    *)
(***************************************************************************)
EXTENDS Integers

CONSTANTS
  Kinds,       \* services of netcam_url in use
  Keepalives,  \* values of netcam_keepalive: TRUE for force and on
  MaxFaults,   \* bound: failures of the camera in a behaviour
  MaxCloses    \* bound: times the motion loop gives up the camera

ASSUME NetcamAssumption ==
  /\ Kinds \subseteq {"html", "mjpg", "ftp", "file"} /\ Keepalives \subseteq BOOLEAN
  /\ MaxFaults \in Nat /\ MaxCloses \in Nat

VARIABLES
  loop,      \* the motion loop: closed, next, take, decode, closing
  netcam,    \* struct netcam_context
  buffer,    \* what the latest, receiving and jpegbuf hold, and if motion has seen it
  handler,   \* where the handler thread is
  threads_running,
  log        \* the camera, bounds and history

netcamVars == <<loop, netcam, buffer, handler, threads_running, log>>

-----------------------------------------------------------------------------
NoImage == [used |-> "none", seen |-> FALSE]
Whole == [used |-> "whole", seen |-> FALSE]
Part  == [used |-> "part", seen |-> FALSE]

NoNetcam == [kind |-> "none", up |-> FALSE, finish |-> FALSE, streaming |-> "unsupported",
             keepalive |-> FALSE, keepalive_thisconn |-> FALSE, keepalive_timeup |-> FALSE,
             sock |-> "none", boundary |-> FALSE, warning_count |-> 0,
             start_capture |-> FALSE, fresh |-> FALSE]

NoBuffers == [latest |-> NoImage, receiving |-> NoImage, jpegbuf |-> NoImage]

Http == netcam.kind \in {"html", "mjpg"}
Single == netcam.streaming = "unsupported"

NetcamInit ==
  /\ loop = "closed" /\ netcam = NoNetcam /\ handler = "gone" /\ threads_running = 0
  /\ buffer = NoBuffers
  /\ \E mode \in {"unsupported", "multipart"} :
       log = [mode |-> mode, faults |-> 0, closes |-> 0, slow |-> FALSE, late |-> FALSE, orphans |-> 0]

NetcamFails == log.faults < MaxFaults /\ log' = [log EXCEPT !.faults = @ + 1]

-----------------------------------------------------------------------------
(* The motion loop *)

\* netcam_setup_html, _mjpg, _ftp and _file: how the images will come.
StreamingOf(kind) == CASE kind = "html" -> log.mode [] kind = "mjpg" -> "block" [] OTHER -> "unsupported"

\* netcam_start: the first image was read and decoded for its size.  An attempt
\* that fails is undone by netcam_cleanup, and made again 10 seconds later.
netcam_start ==
  /\ loop = "closed" /\ loop' = "next" /\ handler' = "top"
  /\ \E kind \in Kinds, keepalive \in Keepalives, off \in BOOLEAN :
       LET streaming == StreamingOf(kind)
           stays == streaming # "unsupported" \/ (keepalive /\ ~off)
       IN netcam' = [NoNetcam EXCEPT !.kind = kind, !.up = TRUE, !.streaming = streaming,
                       !.boundary = streaming = "multipart", !.keepalive = keepalive /\ ~off,
                       !.sock = IF kind \in {"html", "mjpg"} /\ stays THEN "open" ELSE "none"]
  /\ buffer' = [NoBuffers EXCEPT !.jpegbuf = [Whole EXCEPT !.seen = TRUE]]
  /\ threads_running' = threads_running + 1
  /\ log' = [log EXCEPT !.slow = FALSE]

\* (Fault: the condition is not signalled.)
SignalLost == handler
\* pthread_cond_signal of cap_cond, for a camera of single pictures.
Signalled == IF Single /\ handler = "waiting" THEN "woken" ELSE handler

\* netcam_next: a camera of single pictures is told to start the next capture.
netcam_next ==
  /\ loop = "next" /\ buffer.latest.used # "none" /\ loop' = "take"
  /\ netcam' = [netcam EXCEPT !.start_capture = @ \/ Single]
  /\ handler' = Signalled
  /\ UNCHANGED <<buffer, threads_running, log>>

\* (Fault: the image taken is not remembered.)
TakenForgotten ==
  /\ loop = "take" /\ netcam.fresh /\ loop' = "decode"
  /\ buffer' = [buffer EXCEPT !.latest = buffer.jpegbuf, !.jpegbuf = buffer.latest]
  /\ UNCHANGED <<netcam, handler, threads_running, log>>
\* netcam_init_jpeg: the newest image, when there is one motion has not seen, ...
Taken ==
  /\ loop = "take" /\ netcam.fresh /\ loop' = "decode"
  /\ netcam' = [netcam EXCEPT !.fresh = FALSE]
  /\ buffer' = [buffer EXCEPT !.latest = buffer.jpegbuf, !.jpegbuf = buffer.latest]
  /\ UNCHANGED <<handler, threads_running, log>>
\* ... or none arrives within half a second.
NothingNew ==
  /\ loop = "take" /\ ~netcam.fresh /\ loop' = "next"
  /\ UNCHANGED <<netcam, buffer, handler, threads_running, log>>

\* netcam_proc_jpeg decodes without the lock.
Decoded ==
  /\ loop = "decode" /\ loop' = "next"
  /\ buffer' = [buffer EXCEPT !.jpegbuf.seen = TRUE]
  /\ UNCHANGED <<netcam, handler, threads_running, log>>

\* Steps of the handler that may take longer than the 8 seconds of netcam_cleanup.
Slow == handler \in {"connect", "first", "next", "image", "preamble", "stuck"}

\* netcam_cleanup, called from vid_close: the loop ends, or restarts because the
\* image has another size, ...
netcam_cleanup ==
  /\ loop \in {"next", "decode"} /\ log.closes < MaxCloses
  /\ loop' = "closing" /\ handler' = Signalled
  /\ netcam' = [netcam EXCEPT !.up = FALSE, !.finish = TRUE]
  /\ log' = [log EXCEPT !.closes = @ + 1, !.slow = Slow]
  /\ UNCHANGED <<buffer, threads_running>>
\* (Fault: a handler that answered is counted out again.)
CleanedTwice ==
  /\ loop = "closing" /\ handler = "gone" /\ loop' = "closed" /\ netcam' = NoNetcam
  /\ buffer' = NoBuffers /\ threads_running' = threads_running - 1 /\ UNCHANGED <<handler, log>>
\* ... and waits for the handler,
Cleaned ==
  /\ loop = "closing" /\ handler = "gone" /\ loop' = "closed" /\ netcam' = NoNetcam
  /\ buffer' = NoBuffers /\ UNCHANGED <<handler, threads_running, log>>
\* but no longer than 8 seconds: it counts the handler out and frees what the
\* handler still uses.
CleanupTimeout ==
  /\ loop = "closing" /\ handler # "gone" /\ log.slow
  /\ loop' = "closed" /\ netcam' = NoNetcam /\ handler' = "gone"
  /\ threads_running' = threads_running - 1
  /\ log' = [log EXCEPT !.late = TRUE, !.orphans = IF handler = "exiting" THEN @ ELSE @ + 1]
  /\ buffer' = NoBuffers

Loop == netcam_next \/ Taken \/ NothingNew \/ Decoded
Close == netcam_cleanup \/ Cleaned \/ CleanupTimeout

-----------------------------------------------------------------------------
(* The handler thread *)

HandlerFrame == UNCHANGED <<loop, threads_running>>
Goto(pc) == handler' = pc /\ HandlerFrame
netcam_disconnect(n) == [n EXCEPT !.sock = "none"]

\* The head of netcam_handler_loop.  A connection that is kept alive is used again
\* unless its time is up.
Reconnects == ~netcam.keepalive \/ netcam.keepalive_timeup
Top ==
  /\ handler = "top" /\ HandlerFrame /\ UNCHANGED <<buffer, log>>
  /\ \/ netcam.finish /\ handler' = "exit" /\ UNCHANGED netcam
     \/ /\ ~netcam.finish /\ Http /\ Single /\ Reconnects /\ handler' = "connect"
        /\ netcam' = IF netcam.keepalive
                     THEN [netcam_disconnect(netcam) EXCEPT !.keepalive_timeup = FALSE] ELSE netcam
     \/ /\ ~netcam.finish /\ UNCHANGED netcam
        /\ \/ Http /\ Single /\ ~Reconnects /\ handler' = "first"
           \/ Http /\ netcam.streaming = "multipart" /\ handler' = "next"
           \/ (~Http \/ netcam.streaming = "block") /\ handler' = "image"

\* header_get and netcam_recv report the end of the data, an error and 5 silent
\* seconds alike; the socket is left as it is.
HeaderCut(n) == [n EXCEPT !.sock = "broken"]

\* netcam_connect: a socket that is still connected cannot be connected again.
Connectable == ~netcam.keepalive \/ netcam.sock = "none"
netcam_connect ==
  /\ handler = "connect" /\ UNCHANGED buffer
  /\ \/ /\ Connectable /\ Goto("first") /\ UNCHANGED log
        /\ netcam' = [netcam EXCEPT !.sock = "open",
                        !.keepalive_thisconn = @ /\ ~netcam.keepalive]
     \/ /\ netcam' = netcam_disconnect(netcam) /\ Goto("top")
        /\ IF Connectable THEN NetcamFails ELSE UNCHANGED log

\* What the Keep-Alive and Connection: close headers of a single picture say of
\* the connection; after three warnings keep-alive is given up.
Warned(n) == IF n.warning_count < 3 THEN [n EXCEPT !.warning_count = @ + 1]
             ELSE [n EXCEPT !.warning_count = 0, !.keepalive = FALSE]
Kept(n, alive, close) ==
  LET m == [n EXCEPT !.keepalive_thisconn = @ \/ alive] IN
  CASE ~n.keepalive \/ n.streaming # "unsupported" -> m
    [] alive = close                                 -> Warned(m)
    [] alive /\ ~close                               -> m
    [] OTHER -> IF m.keepalive_thisconn THEN [m EXCEPT !.keepalive_timeup = TRUE]
                                        ELSE [m EXCEPT !.keepalive = FALSE]

\* netcam_read_first_header, and what the loop does with the type it found (the
\* boundary of a stream is kept when single pictures follow): of a
\* stream that was connected again the boundary and the headers are read as an image.
netcam_read_first_header ==
  /\ handler = "first" /\ UNCHANGED buffer
  /\ \/ \E alive, close \in BOOLEAN :
          /\ netcam.sock = "open" /\ UNCHANGED log
          /\ netcam' = Kept([netcam EXCEPT !.streaming = log.mode,
                                            !.boundary = @ \/ log.mode = "multipart"], alive, close)
          /\ Goto(IF netcam.streaming # log.mode THEN "top" ELSE IF Single THEN "image" ELSE "preamble")
     \/ /\ netcam.sock = "open" /\ NetcamFails /\ Goto("top")      \* not 200, or a header is cut
        /\ netcam' \in {[netcam EXCEPT !.keepalive = FALSE], HeaderCut(netcam)}
     \/ netcam.sock # "open" /\ Goto("top") /\ UNCHANGED <<netcam, log>>    \* send fails

netcam_read_next_header ==
  /\ handler = "next" /\ UNCHANGED buffer
  /\ \/ netcam.sock = "open" /\ Goto("image") /\ UNCHANGED <<netcam, log>>
     \/ netcam.sock = "open" /\ NetcamFails /\ Goto("connect") /\ netcam' = HeaderCut(netcam)
     \/ netcam.sock # "open" /\ Goto("connect") /\ UNCHANGED <<netcam, log>>

\* The end of the functions behind get_image: the buffers are exchanged (the old
\* one is emptied before it is read into), and a connection for one picture is closed.
Publish(image, sock) ==
  /\ buffer' = [buffer EXCEPT !.latest = image, !.receiving = NoImage]
  /\ LET n == [netcam EXCEPT !.fresh = TRUE, !.sock = sock]
     IN  netcam' = IF netcam.kind = "html" /\ Single /\ ~netcam.keepalive
                   THEN netcam_disconnect(n) ELSE n
  /\ Goto(IF Single THEN "idle" ELSE "top")

\* The connection ends behind what may be the beginning of the boundary.
BoundaryCut ==
  netcam.boundary /\ Goto("top") /\ netcam' = HeaderCut(netcam) /\ UNCHANGED buffer
\* netcam_read_html_jpeg publishes what it has when the connection ends elsewhere.
netcam_read_html_jpeg ==
  /\ handler \in {"image", "preamble"} /\ netcam.kind = "html"
  /\ \/ handler = "image" /\ Publish(Whole, netcam.sock) /\ UNCHANGED log
     \/ handler = "preamble" /\ Publish(Part, netcam.sock) /\ UNCHANGED log
     \/ NetcamFails /\ ((\E image \in {NoImage, Part} : Publish(image, "broken")) \/ BoundaryCut)

\* Up to five attempts to connect and to read a first header.
netcam_http_request ==
  /\ netcam.sock = "none" /\ Goto("image") /\ UNCHANGED <<buffer, log>>
  /\ \E alive, close \in BOOLEAN : netcam' = Kept([netcam EXCEPT !.sock = "open"], alive, close)

\* netcam_read_mjpg_jpeg: when the data ends netcam_mjpg_buffer_refill connects again.
netcam_read_mjpg_jpeg ==
  /\ handler = "image" /\ netcam.kind = "mjpg"
  /\ \/ netcam.sock = "open" /\ Publish(Whole, netcam.sock) /\ UNCHANGED log
     \/ NetcamFails /\ Goto("top") /\ UNCHANGED buffer
        /\ netcam' = [netcam EXCEPT !.sock = "none"]
     \/ netcam_http_request

\* netcam_read_ftp_jpeg: a transfer that fails opens the control connection again;
\* an answer that is lost after RETR gives an empty image; a server that falls
\* silent keeps the handler in a recv or accept that has no timeout.
netcam_read_ftp_jpeg ==
  /\ handler = "image" /\ netcam.kind = "ftp"
  /\ \/ Publish(Whole, netcam.sock) /\ UNCHANGED log
     \/ NetcamFails /\ Goto("top") /\ UNCHANGED <<netcam, buffer>>
     \/ NetcamFails /\ Publish(NoImage, netcam.sock)
     \/ NetcamFails /\ Goto("stuck") /\ UNCHANGED <<netcam, buffer>>

\* netcam_read_file_jpeg: the file did not change for some seconds, or is gone.
netcam_read_file_jpeg ==
  /\ handler = "image" /\ netcam.kind = "file"
  /\ \/ Publish(Whole, netcam.sock) /\ UNCHANGED log
     \/ NetcamFails /\ Goto("top") /\ UNCHANGED <<netcam, buffer>>

get_image == \/ netcam_read_html_jpeg \/ netcam_read_mjpg_jpeg
             \/ netcam_read_ftp_jpeg \/ netcam_read_file_jpeg

\* A camera of single pictures waits for the next request.
Idle ==
  /\ handler = "idle" /\ HandlerFrame /\ UNCHANGED <<buffer, log>>
  /\ \/ netcam.finish /\ handler' = "exit" /\ UNCHANGED netcam
     \/ ~netcam.finish /\ ~netcam.start_capture /\ handler' = "waiting" /\ UNCHANGED netcam
     \/ ~netcam.finish /\ netcam.start_capture /\ handler' = "top"
        /\ netcam' = [netcam EXCEPT !.start_capture = FALSE]
Woken ==
  /\ handler = "woken" /\ Goto("top")
  /\ netcam' = [netcam EXCEPT !.start_capture = FALSE]
  /\ UNCHANGED <<buffer, log>>

\* The camera turns from single pictures to a stream, or back.
ModeChanges ==
  /\ netcam.kind = "html" /\ log.faults < MaxFaults
  /\ log' = [log EXCEPT !.faults = @ + 1,
               !.mode = IF @ = "multipart" THEN "unsupported" ELSE "multipart"]
  /\ UNCHANGED <<loop, netcam, buffer, handler, threads_running>>

Exit ==
  /\ handler = "exit" /\ handler' = "exiting" /\ threads_running' = threads_running - 1
  /\ UNCHANGED <<loop, netcam, buffer, log>>
Signal ==
  /\ handler = "exiting" /\ Goto("gone") /\ UNCHANGED <<netcam, buffer, log>>

\* A handler that outlived its context finds some value for `finish', and ends.
OrphanEnds ==
  /\ log.orphans > 0 /\ log' = [log EXCEPT !.orphans = @ - 1]
  /\ threads_running' = threads_running - 1
  /\ UNCHANGED <<loop, netcam, buffer, handler>>

netcam_handler_loop ==
  \/ Top \/ netcam_connect \/ netcam_read_first_header \/ netcam_read_next_header
  \/ get_image \/ Idle \/ Woken \/ Exit \/ Signal

NetcamNext == netcam_start \/ Loop \/ Close \/ netcam_handler_loop \/ ModeChanges \/ OrphanEnds

\* Both threads run, and pthread_cond_timedwait ends; nothing has to fail, to be closed or to be opened again.
NetcamFairness == WF_netcamVars(Loop) /\ WF_netcamVars(Cleaned \/ CleanupTimeout) /\ WF_netcamVars(netcam_handler_loop)
NetcamSpec == NetcamInit /\ [][NetcamNext]_netcamVars /\ NetcamFairness

-----------------------------------------------------------------------------
(* Properties *)

\* The motion loop decodes only images it has not seen.
DecodesNew == loop = "decode" => ~buffer.jpegbuf.seen

\* A camera that is closed is gone in the end, even when its handler waits for a
\* request or for an ftp server that has fallen silent.
CleanupEnds == loop = "closing" ~> loop = "closed"

\* An empty image was published and the handler waits for a request that
\* netcam_next does not make as long as the image is empty; or a connection that
\* was kept alive is lost and used again and again.
Starved == handler = "waiting" /\ buffer.latest.used = "none"
NetcamSpins == Http /\ Single /\ ~Reconnects /\ netcam.sock # "open"

\* As long as the camera is open, images keep coming; but for an ftp server that falls
\* silent, for which nothing has a timeout (netcam_ftp.c:168, 764 and 849).
Delivers ==
  netcam.up /\ loop = "next" ~>
    loop = "decode" \/ ~netcam.up \/ Starved \/ NetcamSpins \/ handler = "stuck"
=============================================================================
