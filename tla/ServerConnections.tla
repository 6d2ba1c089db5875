-------------------------- MODULE ServerConnections --------------------------
(***************************************************************************)
(* The connections of the CyPRUS server: the thread that accepts clients,  *)
(* the reader and the writer thread of each client, the one thread that    *)
(* handles all messages, and main, which shuts the server down.  They      *)
(* share the list of clients, which is iterated without its lock: an add   *)
(* during an iteration is a ConcurrentModificationException in the thread  *)
(* that iterates.                                                          *)
(*                                                                         *)
(* Messages to the clients are numbered in the order the message thread    *)
(* handles what causes them; what they say is left to VehicleTracking.     *)
(***************************************************************************)
EXTENDS Naturals, Sequences, FiniteSets

CONSTANTS
    Clients,        \* connections a board or a user interface may open
    Nobody,
    MaxSockets,     \* how many client sockets the process can have open
    Sends,          \* bound: what may be sent, as <<client, kind, which one>>
    Leaving         \* bound: the clients that may hang up

ASSUME ConnectionsAssumption ==
    /\ Nobody \notin Clients
    /\ MaxSockets \in Nat
    /\ Sends \subseteq Clients \X {"image", "request"} \X Nat
    /\ Leaving \subseteq Clients

VARIABLES
    socket,         \* the server's end of each connection
    peerUp,         \* has the other end not been closed?
    wire,           \* messages from the client that were not read yet
    received,       \* messages that reached the client
    messages,       \* the messages sent to the server so far
    connected,      \* Server.connected
    listening,      \* is Server.server, the ServerSocket, open?
    acceptor,       \* where Server.start is
    accepted,       \* its serverClient
    clients,        \* Server.clients
    ownerSet,       \* is ServerClient.server assigned?
    reader,         \* where each MessageReader is
    readerOn,       \* MessageReader.connected
    writer,         \* where each MessageWriter is
    writerOn,       \* MessageWriter.connected
    queue,          \* MessageWriter.queue
    writing,        \* the message taken off it
    pool,           \* the work queue of MessageReader.POOL
    worker,         \* where its thread is
    serial,         \* number of the message it handles
    cursor, size,   \* the iterator of its broadcast: next index, modCount
    cut,            \* the broadcasts that ended in an exception
    main,           \* where Main is in setConnected(false)
    mainCursor, mainSize    \* its iterator

peers     == <<peerUp, wire, received, messages>>
accepting == <<acceptor, accepted>>
readers   == <<reader, readerOn>>
writers   == <<writer, writerOn, queue, writing>>
working   == <<pool, worker, serial, cursor, size, cut>>
stopping  == <<main, mainCursor, mainSize>>
vars == <<socket, peers, connected, listening, accepting, clients, ownerSet,
          readers, writers, working, stopping>>

Kinds == {"image", "request"}
None == 0           \* no message in hand
Open == {c \in Clients : socket[c] = "open"}
------------------------------------------------------------------------------
Init ==
    /\ socket = [c \in Clients |-> "none"]
    /\ peerUp = [c \in Clients |-> FALSE]
    /\ wire = [c \in Clients |-> <<>>]
    /\ received = [c \in Clients |-> <<>>]
    /\ messages = {}
    /\ connected = TRUE /\ listening = TRUE
    /\ acceptor = "check" /\ accepted = Nobody
    /\ clients = <<>>
    /\ ownerSet = [c \in Clients |-> FALSE]
    /\ reader = [c \in Clients |-> "none"]
    /\ readerOn = [c \in Clients |-> TRUE]
    /\ writer = [c \in Clients |-> "none"]
    /\ writerOn = [c \in Clients |-> TRUE]
    /\ queue = [c \in Clients |-> <<>>]
    /\ writing = [c \in Clients |-> None]
    /\ pool = <<>> /\ worker = "idle" /\ serial = 0
    /\ cursor = 0 /\ size = 0 /\ cut = {}
    /\ main = "menu" /\ mainCursor = 0 /\ mainSize = 0

(* The other ends. *)

\* The connection is made by the kernel and waits for accept().
Connect(c) ==
    /\ socket[c] = "none" /\ listening
    /\ socket' = [socket EXCEPT ![c] = "pending"]
    /\ peerUp' = [peerUp EXCEPT ![c] = TRUE]
    /\ UNCHANGED <<wire, received, messages, connected, listening, accepting,
                   clients, ownerSet, readers, writers, working, stopping>>

Send(c) ==
    /\ peerUp[c]
    /\ \E msg \in Sends \ messages :
          /\ msg[1] = c
          /\ messages' = messages \cup {msg}
          /\ wire' = [wire EXCEPT ![c] = Append(@, msg[2])]
    /\ UNCHANGED <<socket, peerUp, received, connected, listening, accepting,
                   clients, ownerSet, readers, writers, working, stopping>>

HangUp(c) ==
    /\ c \in Leaving /\ peerUp[c]
    /\ peerUp' = [peerUp EXCEPT ![c] = FALSE]
    /\ UNCHANGED <<socket, wire, received, messages, connected, listening,
                   accepting, clients, ownerSet, readers, writers, working,
                   stopping>>

(* Server.start. *)

AcceptorFrame == UNCHANGED <<peers, connected, listening, readerOn, writerOn,
                             queue, writing, working, stopping>>

CheckConnected ==       \* line 113; isBound() stays true after close()
    /\ acceptor = "check"
    /\ acceptor' = IF connected THEN "accept" ELSE "ended"
    /\ AcceptorFrame /\ UNCHANGED <<socket, accepted, clients, ownerSet, reader,
                                    writer>>

Accept ==               \* line 114
    /\ acceptor = "accept"
    /\ listening /\ Cardinality(Open) < MaxSockets
    /\ \E c \in Clients :
          /\ socket[c] = "pending"
          /\ socket' = [socket EXCEPT ![c] = "open"]
          /\ accepted' = c
    /\ acceptor' = "construct"
    /\ AcceptorFrame /\ UNCHANGED <<clients, ownerSet, reader, writer>>

\* A closed server socket and a process without file descriptors look alike:
\* a SocketException, "do nothing", the thread ends.
AcceptFails ==          \* line 120
    /\ acceptor = "accept"
    /\ ~listening \/ Cardinality(Open) >= MaxSockets
    /\ acceptor' = "ended"
    /\ AcceptorFrame /\ UNCHANGED <<socket, accepted, clients, ownerSet, reader,
                                    writer>>

StartThreads ==         \* BaseMessageClient.java:41
    /\ acceptor = "construct"
    /\ acceptor' = "own"
    /\ reader' = [reader EXCEPT ![accepted] = "read"]
    /\ writer' = [writer EXCEPT ![accepted] = "check"]
    /\ AcceptorFrame /\ UNCHANGED <<socket, accepted, clients, ownerSet>>

SetOwner ==             \* ServerClient.java:43
    /\ acceptor = "own"
    /\ acceptor' = "add"
    /\ ownerSet' = [ownerSet EXCEPT ![accepted] = TRUE]
    /\ AcceptorFrame /\ UNCHANGED <<socket, accepted, clients, reader, writer>>

AddClient ==            \* line 117
    /\ acceptor = "add"
    /\ acceptor' = "check"
    /\ clients' = Append(clients, accepted)
    /\ accepted' = Nobody
    /\ AcceptorFrame /\ UNCHANGED <<socket, ownerSet, reader, writer>>

(* MessageReader.run. *)

ReaderFrame == UNCHANGED <<socket, peerUp, received, messages, connected,
                           listening, accepting, clients, ownerSet, readerOn,
                           writers, worker, serial, cursor, size, cut, stopping>>

\* `connected' is tested after each message; it is not volatile, so a reader
\* may go on although it was set to false.
ReadMessage(c) ==
    /\ reader[c] = "read" /\ socket[c] = "open" /\ wire[c] # <<>>
    /\ pool' = Append(pool, [from |-> c, kind |-> Head(wire[c])])
    /\ wire' = [wire EXCEPT ![c] = Tail(@)]
    /\ \/ ~readerOn[c] /\ reader' = [reader EXCEPT ![c] = "ended"]
       \/ UNCHANGED reader
    /\ ReaderFrame

\* End of file, or the socket was closed under the read: an IOException.
\* `connected' stays true and the socket stays open.
ReadFails(c) ==
    /\ reader[c] = "read"
    /\ socket[c] = "closed" \/ (wire[c] = <<>> /\ ~peerUp[c])
    /\ reader' = [reader EXCEPT ![c] = "ended"]
    /\ ReaderFrame /\ UNCHANGED <<wire, pool>>

(* MessageWriter.run. *)

WriterFrame == UNCHANGED <<socket, peerUp, wire, messages, connected, listening,
                           accepting, clients, ownerSet, readers, working,
                           stopping>>

WriterEnds(c) ==
    /\ writer[c] = "check" /\ ~writerOn[c]
    /\ writer' = [writer EXCEPT ![c] = "ended"]
    /\ WriterFrame /\ UNCHANGED <<received, writerOn, queue, writing>>

\* (Fault: the message queued last is taken first.)
TakeNewest(c) ==
    /\ writer[c] = "check" /\ writerOn[c] /\ queue[c] # <<>>
    /\ writing' = [writing EXCEPT ![c] = queue[c][Len(queue[c])]]
    /\ queue' = [queue EXCEPT ![c] = SubSeq(@, 1, Len(@) - 1)]
    /\ writer' = [writer EXCEPT ![c] = "write"]
    /\ WriterFrame /\ UNCHANGED <<received, writerOn>>

TakeMessage(c) ==       \* poll(1, SECONDS); an empty poll starts over
    /\ writer[c] = "check" /\ writerOn[c] /\ queue[c] # <<>>
    /\ writing' = [writing EXCEPT ![c] = Head(queue[c])]
    /\ queue' = [queue EXCEPT ![c] = Tail(@)]
    /\ writer' = [writer EXCEPT ![c] = "write"]
    /\ WriterFrame /\ UNCHANGED <<received, writerOn>>

\* What is written to a client that has hung up is lost or fails.
WriteMessage(c) ==
    /\ writer[c] = "write"
    /\ writer' = [writer EXCEPT ![c] = "check"]
    /\ writing' = [writing EXCEPT ![c] = None]
    /\ \/ /\ socket[c] = "open"
          /\ received' = IF peerUp[c]
                         THEN [received EXCEPT ![c] = Append(@, writing[c])]
                         ELSE received
          /\ UNCHANGED writerOn
       \/ /\ socket[c] = "closed" \/ ~peerUp[c]
          /\ writerOn' = [writerOn EXCEPT ![c] = FALSE]
          /\ UNCHANGED received
    /\ WriterFrame /\ UNCHANGED queue

(* The thread of MessageReader.POOL. *)

WorkerFrame == UNCHANGED <<socket, peers, connected, listening, accepting,
                           clients, ownerSet, readers, writer, writerOn,
                           writing, stopping>>

Offer(c, n) == queue' = [queue EXCEPT ![c] = Append(@, n)]

\* Before the field `server' is set both handlers meet null: the exception is
\* caught, or ends this thread and POOL starts another.  Tracking may decide
\* to tell nobody, and there may be no vehicle to answer with.
HandleMessage ==
    /\ worker = "idle" /\ pool # <<>>
    /\ pool' = Tail(pool)
    /\ serial' = serial + 1
    /\ \/ /\ Head(pool).kind = "image" /\ ownerSet[Head(pool).from]
          /\ worker' = "iterate"
          /\ cursor' = 0 /\ size' = Len(clients)
          /\ UNCHANGED queue
       \/ /\ Head(pool).kind = "request" /\ ownerSet[Head(pool).from]
          /\ Offer(Head(pool).from, serial')
          /\ UNCHANGED <<worker, cursor, size>>
       \/ UNCHANGED <<worker, cursor, size, queue>>
    /\ WorkerFrame /\ UNCHANGED cut

BroadcastEnds == worker' = "idle" /\ cursor' = 0 /\ size' = 0

TellNext ==             \* Server.java:179-182
    /\ worker = "iterate" /\ cursor < Len(clients) /\ size = Len(clients)
    /\ LET c == clients[cursor + 1] IN
       IF writerOn[c] /\ readerOn[c] THEN Offer(c, serial) ELSE UNCHANGED queue
    /\ cursor' = cursor + 1
    /\ WorkerFrame /\ UNCHANGED <<pool, worker, serial, size, cut>>

\* hasNext() compares with the size of now, next() with the size of then.
TellFails ==
    /\ worker = "iterate" /\ cursor # Len(clients) /\ size # Len(clients)
    /\ BroadcastEnds
    /\ cut' = cut \cup {serial}
    /\ WorkerFrame /\ UNCHANGED <<pool, serial, queue>>

\* (Fault: the loop ends one client early.)
TellDoneEarly ==
    /\ worker = "iterate" /\ cursor + 1 >= Len(clients)
    /\ BroadcastEnds
    /\ WorkerFrame /\ UNCHANGED <<pool, serial, queue, cut>>

TellDone ==
    /\ worker = "iterate" /\ cursor = Len(clients)
    /\ BroadcastEnds
    /\ WorkerFrame /\ UNCHANGED <<pool, serial, queue, cut>>

(* Server.setConnected(false), called by main. *)

MainFrame == UNCHANGED <<peers, accepting, clients, ownerSet, reader, writer,
                         queue, writing, working>>

Exit ==                 \* lines 83-88
    /\ main = "menu"
    /\ connected' = FALSE
    /\ main' = "iterate" /\ mainCursor' = 0 /\ mainSize' = Len(clients)
    /\ MainFrame /\ UNCHANGED <<socket, listening, readerOn, writerOn>>

\* (Fault: the writer is not told.)
DisconnectReader ==
    /\ main = "iterate"
    /\ mainCursor < Len(clients) /\ mainSize = Len(clients)
    /\ readerOn' = [readerOn EXCEPT ![clients[mainCursor + 1]] = FALSE]
    /\ main' = "sleep"
    /\ MainFrame /\ UNCHANGED <<socket, connected, listening, writerOn,
                                mainCursor, mainSize>>

Disconnect ==           \* BaseMessageClient.java:98-101
    /\ main = "iterate"
    /\ mainCursor < Len(clients) /\ mainSize = Len(clients)
    /\ LET c == clients[mainCursor + 1] IN
          /\ readerOn' = [readerOn EXCEPT ![c] = FALSE]
          /\ writerOn' = [writerOn EXCEPT ![c] = FALSE]
    /\ main' = "sleep"
    /\ MainFrame /\ UNCHANGED <<socket, connected, listening, mainCursor, mainSize>>

CloseSocket ==          \* BaseMessageClient.java:102, after a second
    /\ main = "sleep"
    /\ socket' = [socket EXCEPT ![clients[mainCursor + 1]] = "closed"]
    /\ main' = "iterate" /\ mainCursor' = mainCursor + 1
    /\ MainFrame /\ UNCHANGED <<connected, listening, readerOn, writerOn, mainSize>>

\* A ConcurrentModificationException is no IOException: it ends main.
IterationFails ==
    /\ main = "iterate"
    /\ mainCursor # Len(clients) /\ mainSize # Len(clients)
    /\ main' = "thrown" /\ mainCursor' = 0 /\ mainSize' = 0
    /\ MainFrame /\ UNCHANGED <<socket, connected, listening, readerOn, writerOn>>

\* (Fault: the server socket is left open.)
SayGoodbye ==
    /\ main = "iterate" /\ mainCursor = Len(clients)
    /\ main' = "done" /\ mainCursor' = 0 /\ mainSize' = 0
    /\ MainFrame /\ UNCHANGED <<socket, connected, listening, readerOn, writerOn>>

CloseServer ==          \* lines 92-98; who still waits is refused
    /\ main = "iterate" /\ mainCursor = Len(clients)
    /\ listening' = FALSE
    /\ socket' = [c \in Clients |->
                     IF socket[c] = "pending" THEN "refused" ELSE socket[c]]
    /\ main' = "done" /\ mainCursor' = 0 /\ mainSize' = 0
    /\ MainFrame /\ UNCHANGED <<connected, readerOn, writerOn>>
------------------------------------------------------------------------------
Acceptor == \/ CheckConnected \/ Accept \/ AcceptFails
            \/ StartThreads \/ SetOwner \/ AddClient
Reader(c) == ReadMessage(c) \/ ReadFails(c)
Writer(c) == WriterEnds(c) \/ TakeMessage(c) \/ WriteMessage(c)
Worker == HandleMessage \/ TellNext \/ TellFails \/ TellDone
ShutDown == Disconnect \/ CloseSocket \/ IterationFails \/ CloseServer

Next ==
    \/ \E c \in Clients : Connect(c) \/ Send(c) \/ HangUp(c)
    \/ Acceptor
    \/ \E c \in Clients : Reader(c) \/ Writer(c)
    \/ Worker
    \/ Exit \/ ShutDown

Spec == Init /\ [][Next]_vars

\* Every thread of the server is scheduled.  Nothing is assumed of the other
\* ends, but that those which do not hang up take what is written to them;
\* and nobody needs to choose Exit.
Fairness ==
    /\ WF_vars(Acceptor) /\ WF_vars(Worker) /\ WF_vars(ShutDown)
    /\ \A c \in Clients : WF_vars(Reader(c)) /\ WF_vars(Writer(c))

FairSpec == Spec /\ Fairness
------------------------------------------------------------------------------
(* Properties.                                                             *)

\* What is on its way to a client: received, being written, queued.
OnTheWay(c) == received[c]
               \o (IF writing[c] = None THEN <<>> ELSE <<writing[c]>>) \o queue[c]

\* Each client gets its messages in the order they were handled, none twice,
\* though broadcasts and answers share its queue and every thread of the
\* server may be between any two steps (MessageWriter.java:53 and 62).
InOrder ==
    \A c \in Clients : \A i, j \in DOMAIN OnTheWay(c) :
       i < j => OnTheWay(c)[i] < OnTheWay(c)[j]

\* Server.java:178 "send data to all clients": a broadcast reaches everyone
\* on the list, but for those that hang up, unless a client is added while it
\* runs or the server is shut down.
BroadcastsReachAll ==
    \A c \in Clients, n \in 1..Cardinality(Sends) :
       worker = "iterate" /\ serial = n /\ (\E i \in DOMAIN clients : clients[i] = c)
       ~> \/ \E i \in DOMAIN received[c] : received[c][i] = n
          \/ ~peerUp[c] \/ n \in cut \/ ~connected

\* A shutdown that finds its way through the list ends the accepting thread,
\* wherever that is, a blocking accept() included (Server.java:94).
ShutdownStopsAcceptor == main = "iterate" ~> acceptor = "ended" \/ main = "thrown"

\* Closing the socket of a client ends both of its threads, whether they were
\* blocked in a read, writing, or polling (BaseMessageClient.java:95).
DisconnectEndsThreads ==
    \A c \in Clients :
       socket[c] = "closed" ~> reader[c] = "ended" /\ writer[c] = "ended"
=============================================================================
