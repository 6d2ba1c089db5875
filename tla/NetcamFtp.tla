------------------------------ MODULE NetcamFtp ------------------------------
(***************************************************************************)
(* A camera behind an ftp server: the dialogue of netcam_ftp.c, one        *)
(* command and its answer a step, as netcam_read_ftp_jpeg and the handler  *)
(* of netcam.c use it.  An answer is its first digit, -1 for none.         *)
(*                                                                         *)
(* The server is external.  It answers each command, not always as hoped   *)
(* for, may close the control connection, may send the answer that ends a  *)
(* transfer together with the one that begins it, and may fall silent: of  *)
(* what the handler waits for only the last answer has a timeout.          *)
(***************************************************************************)
EXTENDS Integers

CONSTANT MaxFtpFaults  \* bound: answers that are not those hoped for, and silences

VARIABLES
  ftp,     \* struct ftp_context: control and data descriptors, the rest of the buffer
  ftpAt,   \* where the handler is: connect, hello, user, pass, type, ready, retr, read, failed, blocked, spinning
  server   \* the type of transfers, the picture of this turn, and the bound

ftpVars == <<ftp, ftpAt, server>>

-----------------------------------------------------------------------------
\* ftp_new_context: passive is 0, and nothing in the program ever makes it 1.
FtpInit ==
  /\ ftp = [control |-> "none", data |-> FALSE, rest |-> "nothing"]
  /\ ftpAt = "connect"
  /\ server = [type |-> "A", started |-> FALSE, picture |-> "none", faults |-> 0]

Misbehaves == server.faults < MaxFtpFaults
Faulty(n) == [server EXCEPT !.faults = @ + n]

\* ftp_get_more reads to the start of the buffer, over what is left of the last
\* answer: the new answer is found, and as many bytes are left, of no use.
Overwritten == IF ftp.rest = "nothing" THEN "nothing" ELSE "garbage"

\* ftp_get_response, with the answer hoped for.  Nothing more comes from a
\* connection that is closed, and what is left is taken for the answer; if it is
\* none it is read for ever.
Answer(res, control, rest, n) == [res |-> res, control |-> control, rest |-> rest, faults |-> n]
Answers(want) ==
  CASE ftp.control = "none" -> {Answer(-1, "none", ftp.rest, 0)}
    [] ftp.control = "closed" /\ ftp.rest = "answer" -> {Answer(2, "closed", "nothing", 0)}
    [] ftp.control = "closed" /\ ftp.rest = "garbage" -> {Answer(0, "closed", "garbage", 0)}
    [] ftp.control = "closed" /\ ftp.rest = "nothing" -> {Answer(-1, "closed", "nothing", 0)}
    [] OTHER -> {Answer(want, "open", Overwritten, 0)} \cup
                (IF ~Misbehaves THEN {}
                 ELSE {Answer(r, "open", Overwritten, 1) : r \in 1..5 \ {want}} \cup
                      {Answer(-1, "none", ftp.rest, 1)})       \* recv fails: closed by ftp_get_more

\* After an answer: the context, and where the handler goes.
Spins(a) == a.res = 0
Go(a, next) == /\ ftpAt' = IF Spins(a) THEN "spinning" ELSE next
               /\ server' = Faulty(a.faults)
With(a) == [ftp EXCEPT !.control = a.control, !.rest = a.rest]
Closed(f) == [f EXCEPT !.control = "none"]
NoData(f) == [f EXCEPT !.data = FALSE]

\* The server gives up the control connection.
ServerCloses ==
  /\ ftp.control = "open" /\ Misbehaves /\ ftpAt \notin {"spinning", "blocked"}
  /\ ftp' = [ftp EXCEPT !.control = "closed"] /\ server' = Faulty(1) /\ UNCHANGED ftpAt

\* The server falls silent for good, with its connections open.  The recv of an
\* answer, the accept behind RETR and the recv of the data wait for ever.
Awaits == \/ ftpAt \in {"hello", "user", "pass", "type", "ready", "retr"} /\ ftp.control = "open"
          \/ ftpAt = "read" /\ ftp.data
ServerSilent ==
  /\ Awaits /\ Misbehaves
  /\ ftpAt' = "blocked" /\ server' = Faulty(1) /\ UNCHANGED ftp

-----------------------------------------------------------------------------
(* ftp_connect, and ftp_send_type for the first connection *)

Connected == IF server.started THEN "ready" ELSE "type"

ftp_connect ==
  /\ ftpAt = "connect"
  /\ \/ /\ ftp' = [ftp EXCEPT !.control = "open"] /\ ftpAt' = "hello"
        /\ server' = [server EXCEPT !.type = "A"]
     \/ /\ Misbehaves /\ ftp' = Closed(ftp) /\ server' = Faulty(1)
        /\ ftpAt' = IF server.started THEN "ready" ELSE "connect"

\* The greeting, USER and PASS: another answer than hoped for closes the connection.
Login(at, want, next) ==
  /\ ftpAt = at
  /\ \E a \in Answers(want) :
       IF a.res \in {want, 2} \/ Spins(a)
       THEN ftp' = With(a) /\ Go(a, IF a.res = want THEN next ELSE Connected)
       ELSE ftp' = Closed(With(a)) /\ Go(a, IF server.started THEN "ready" ELSE "connect")
ftp_login == Login("hello", 2, "user") \/ Login("user", 3, "pass") \/ Login("pass", 2, Connected)

\* No answer counts as success; else the camera is given up, and tried again later.
ftp_send_type ==
  /\ ftpAt = "type"
  /\ \E a \in Answers(2) :
       /\ ftpAt' = CASE Spins(a) -> "spinning" [] a.res \in {-1, 2} -> "ready" [] OTHER -> "connect"
       /\ IF a.res > 2 \/ a.res = 1 THEN ftp' = [NoData(Closed(With(a))) EXCEPT !.rest = "nothing"]
                                    ELSE ftp' = NoData(With(a))
       /\ server' = [Faulty(a.faults) EXCEPT !.started = a.res \in {-1, 2},
                       !.type = IF a.res = 2 THEN "I" ELSE @]

-----------------------------------------------------------------------------
(* netcam_read_ftp_jpeg: ftp_get_socket, and ftp_read to the end *)

Fails(a) == Go(a, "failed")

\* A listening socket and the PORT command: the branch for PASV is never taken.
ftp_get_connection ==
  /\ ftpAt = "ready"
  /\ \E a \in Answers(2) :
       IF a.res = 2 THEN ftp' = [With(a) EXCEPT !.data = TRUE] /\ Go(a, "retr")
       ELSE ftp' = NoData(With(a)) /\ Fails(a)

Refused(f) == NoData(f)
\* RETR: an answer that refuses fails, but no answer is returned as 1 and counts as
\* a socket.  accept waits for the server to connect, and may fail.
ftp_get_socket ==
  /\ ftpAt = "retr"
  /\ \E a \in Answers(1) :
       CASE a.res = 1 /\ ftp.control = "open" ->
              \/ ftp' = With(a) /\ Go(a, "read")
              \/ ftp' = [With(a) EXCEPT !.rest = "answer"] /\ Go(a, "read")   \* both answers at once
              \/ /\ Misbehaves /\ a.faults = 0
                 /\ ftp' = NoData(With(a)) /\ server' = Faulty(1) /\ ftpAt' = "failed"
         [] a.res = -1 -> ftp' = Refused(With(a)) /\ Go(a, "read")
         [] OTHER -> ftp' = Refused(With(a)) /\ Fails(a)

\* ftp_close_connection waits 15 seconds for the last answer, and does not find one
\* that has been read already.
LastAnswers == IF ftp.rest = "answer" /\ ftp.control = "open"
               THEN {Answer(-1, "none", "answer", 0)} ELSE Answers(2)
ftp_close_connection(a) ==
  ftp' = IF a.res = 2 \/ Spins(a) THEN NoData(With(a)) ELSE Closed(NoData(With(a)))

\* ftp_read until the data ends or breaks off.
ftp_read ==
  /\ ftpAt = "read"
  /\ \/ /\ ~ftp.data /\ ftpAt' = "ready" /\ UNCHANGED ftp
        /\ server' = [server EXCEPT !.picture = "empty"]
     \/ /\ ftp.data
        /\ \E a \in LastAnswers :
             /\ ftp_close_connection(a)
             /\ \/ /\ ftpAt' = IF Spins(a) THEN "spinning" ELSE "ready"
                   /\ server' = [Faulty(a.faults) EXCEPT !.picture = "whole"]
                \/ Misbehaves /\ a.faults = 0 /\ server' = Faulty(1)
                   /\ ftpAt' = IF Spins(a) THEN "spinning" ELSE "failed"

\* (Fault: a failed transfer is tried again on the same connection.)
RetriedAsIs ==
  ftpAt = "failed" /\ ftpAt' = "ready" /\ UNCHANGED <<ftp, server>>
\* netcam_handler_loop: after a failure a new control connection is made.
Reconnected ==
  /\ ftpAt = "failed" /\ ftpAt' = "connect" /\ ftp' = Closed(ftp) /\ UNCHANGED server

FtpSteps == \/ ftp_connect \/ ftp_login \/ ftp_send_type \/ ftp_get_connection
            \/ ftp_get_socket \/ ftp_read \/ Reconnected
FtpNext == FtpSteps \/ ServerCloses \/ ServerSilent
FtpFairness == WF_ftpVars(FtpSteps)

-----------------------------------------------------------------------------
(* Properties *)

\* A transfer that failed is followed by a whole picture, once the server behaves;
\* unless an answer that came too early, and a control connection that is closed
\* later, make ftp_get_response read the same bytes for ever, or the server falls
\* silent with its connections open: recv and accept (netcam_ftp.c:168, 764 and 849)
\* have no timeout, and nobody wakes the handler.
FtpRecovers ==
  ftpAt = "failed" ~> \/ ftpAt \in {"spinning", "blocked"}
                      \/ ftpAt = "read" /\ ftp.data
=============================================================================
