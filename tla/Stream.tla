------------------------------- MODULE Stream -------------------------------
(***************************************************************************)
(* The stream server of one camera, stream.c: the motion loop calls        *)
(* stream_put for each picture, which accepts one waiting client and sends *)
(* the picture to those that have got the last one.  A buffer is shared by *)
(* the clients it is written to and freed by the last.  When clients are   *)
(* authenticated, a thread for each adds it to the list, and both sides    *)
(* take stream_auth_mutex.                                                 *)
(*                                                                         *)
(* The order of the list decides nothing, so it is a function from the     *)
(* sockets in it.  How far a buffer is written is left to the outcome of   *)
(* stream_flush: all of it, not all, or the connection is broken.          *)
(***************************************************************************)
EXTENDS FiniteSets, Integers, Sequences

CONSTANTS
  Sockets,      \* connections of clients
  NoSocket,     \* the -1 of an accept that fails
  NoBuffer,         \* no buffer
  StreamAuths,  \* values of stream_auth_method # 0 when motion starts
  StreamLimits, \* values of stream_limit, 0 for none
  MaxStreams,   \* DEF_MAXSTREAMS
  MaxRestarts,  \* bound: restarts of the thread of the camera
  MaxConfigs    \* bound: changes of stream_auth_method while motion runs

VARIABLES
  client,       \* for each socket: away, queued, auth, listed, lost
  backlog,      \* the connections that wait to be accepted
  list,         \* the list of struct stream, by socket
  ref,          \* the reference counts of the buffers that are not freed
  stream,       \* listening socket, stream_count, conf, and the mutex
  put,          \* where the motion loop is in stream_put
  streamLog     \* bounds and history

streamVars == <<client, backlog, list, ref, stream, put, streamLog>>

-----------------------------------------------------------------------------
Pictures == {"picture"} \X (1..(Cardinality(Sockets) + 2))
Header(s) == <<"header", s>>
Headers == {Header(s) : s \in Sockets \cup {NoSocket}}

ASSUME StreamAssumption ==
  /\ IsFiniteSet(Sockets) /\ NoSocket \notin Sockets
  /\ NoBuffer \notin Pictures \cup Headers
  /\ StreamAuths \subseteq BOOLEAN /\ StreamLimits \subseteq Nat
  /\ MaxStreams \in Nat /\ MaxRestarts \in Nat /\ MaxConfigs \in Nat

Holders(l, b) == {s \in DOMAIN l : l[s].tmpbuffer = b}

StreamInit ==
  /\ client = [s \in Sockets |-> "away"] /\ backlog = <<>> /\ list = <<>> /\ ref = <<>> /\ put = "idle"
  /\ \E auth \in StreamAuths, limit \in StreamLimits :
       stream = [open |-> TRUE, count |-> 0, auth |-> auth, limit |-> limit, locked |-> FALSE]
  /\ streamLog = [restarts |-> 0, configs |-> 0, harm |-> {}]

Harm(h) == [streamLog EXCEPT !.harm = @ \cup h]

-----------------------------------------------------------------------------
(* The clients *)

StreamConnect(s) ==
  /\ client[s] = "away" /\ stream.open
  /\ client' = [client EXCEPT ![s] = "queued"] /\ backlog' = Append(backlog, s)
  /\ UNCHANGED <<list, ref, stream, put, streamLog>>

\* stream_add_client: the HTTP header is the first thing to be sent.
Added(l, s) == [x \in DOMAIN l \cup {s} |->
                  IF x = s THEN [tmpbuffer |-> Header(s), nr |-> 0] ELSE l[x]]
WithHeader(r, s) == [b \in DOMAIN r \cup {Header(s)} |-> IF b = Header(s) THEN 0 ELSE r[b]]
stream_add_client(s) ==
  /\ list' = Added(list, s) /\ ref' = WithHeader(ref, s)
  /\ stream' = [stream EXCEPT !.count = @ + 1]

-----------------------------------------------------------------------------
(* stream_put *)

\* One client is accepted, when there is room and one is waiting.
HasRoom == stream.count < MaxStreams
http_acceptsock ==
  /\ put = "idle" /\ stream.open /\ put' = "accepted" /\ UNCHANGED streamLog
  /\ IF ~HasRoom \/ backlog = <<>> THEN UNCHANGED <<client, backlog, list, ref, stream>>
     ELSE LET s == Head(backlog) IN
          /\ backlog' = Tail(backlog)
          /\ \E is \in {"listed", "away"} :    \* away: the connection is gone again
               IF stream.auth
               THEN /\ client' = [client EXCEPT ![s] = IF is = "away" THEN is ELSE "auth"]
                    /\ UNCHANGED <<list, ref, stream>>
               ELSE /\ client' = [client EXCEPT ![s] = is]
                    /\ stream_add_client(IF is = "away" THEN NoSocket ELSE s)

\* stream_auth_method is read again for the lock, and once more to unlock.
StreamLock ==
  /\ put = "accepted" /\ (stream.auth => ~stream.locked)
  /\ put' = "section" /\ stream' = [stream EXCEPT !.locked = @ \/ stream.auth]
  /\ UNCHANGED <<client, backlog, list, ref, streamLog>>
Unlocked == [stream EXCEPT !.locked = @ /\ ~stream.auth]

\* What stream_flush makes of the clients that have something to be sent.
Sending(l) == {s \in DOMAIN l : l[s].tmpbuffer # NoBuffer}
Outcomes(l) == {out \in [Sending(l) -> {"written", "blocked", "broken"}] :
                  NoSocket \in Sending(l) => out[NoSocket] = "broken"}
Released(out) == {s \in DOMAIN out : out[s] # "blocked"}

Dropped(l, out) ==
  {s \in Released(out) : out[s] = "broken" \/ (stream.limit > 0 /\ l[s].nr >= stream.limit)}
Served(l, out) ==
  [s \in DOMAIN l \ Dropped(l, out) |->
     IF s \in Released(out)
     THEN [tmpbuffer |-> NoBuffer, nr |-> IF stream.limit = 0 THEN 0 ELSE l[s].nr + 1] ELSE l[s]]

\* (Fault: a connection that breaks does not give its buffer back.)
ReleasedWritten(r, l, out) ==
  LET n(b) == Cardinality({s \in Holders(l, b) \cap Released(out) : out[s] = "written"})
  IN [b \in {c \in DOMAIN r : n(c) = 0 \/ r[c] - n(c) > 0} |-> r[b] - n(b)]
\* The last client of a buffer frees it.
BuffersAfter(r, l, out) ==
  LET n(b) == Cardinality(Holders(l, b) \cap Released(out))
  IN [b \in {c \in DOMAIN r : n(c) = 0 \/ r[c] - n(c) > 0} |-> r[b] - n(b)]

\* (Fault: a client that is dropped stays counted.)
CountKept(n, gone) == n
CountWithout(n, gone) == n - Cardinality(gone)

\* stream_add_write: the picture goes to some of the clients that wait for one, as
\* stream_maxrate allows.
Written(l, takers, b) == [s \in DOMAIN l |-> IF s \in takers THEN [l[s] EXCEPT !.tmpbuffer = b] ELSE l[s]]
\* A picture nobody takes is freed at once.
Shared(r, takers, new) ==
  IF takers = {} THEN r
  ELSE [b \in DOMAIN r \cup {new} |-> IF b = new THEN Cardinality(takers) ELSE r[b]]

\* stream_flush, and what becomes of the clients.
Flush(l, r, out) ==
  /\ list' = Served(l, out) /\ ref' = BuffersAfter(r, l, out)
  /\ client' = [s \in Sockets |-> IF s \in Dropped(l, out) THEN "away" ELSE client[s]]
After(st, l, out) == [st EXCEPT !.count = CountWithout(@, Dropped(l, out))]

\* Under the lock, if there is one, what is left of the last pictures is sent; ...
StreamFlush ==
  /\ put = "section" /\ put' = "flushed" /\ UNCHANGED <<backlog, streamLog>>
  /\ \E out \in Outcomes(list) : Flush(list, ref, out) /\ stream' = After(stream, list, out)

\* ... stream_check_write with a new buffer and stream_add_write, and stream_flush again.
StreamPut ==
  /\ put = "flushed" /\ put' = "idle" /\ UNCHANGED <<backlog, streamLog>>
  /\ LET new == CHOOSE b \in Pictures : b \notin DOMAIN ref IN
     \E takers \in SUBSET (DOMAIN list \ Sending(list)) :
       LET l == Written(list, takers, new) IN
       \E out \in Outcomes(l) :
         Flush(l, Shared(ref, takers, new), out) /\ stream' = After(Unlocked, l, out)

-----------------------------------------------------------------------------
(* do_client_auth: the thread of one client *)

\* handle_basic_auth, handle_md5_digest: the request is refused, cut or too late.
AuthFails(s) ==
  /\ client[s] = "auth" /\ client' = [client EXCEPT ![s] = "away"]
  /\ UNCHANGED <<backlog, list, ref, stream, put, streamLog>>

\* The client is added, whatever the number of clients is by now.
AuthSucceeds(s) ==
  /\ client[s] = "auth" /\ ~stream.locked
  /\ client' = [client EXCEPT ![s] = "listed"] /\ stream_add_client(s)
  /\ streamLog' = Harm((IF put \in {"section", "flushed"} THEN {"race"} ELSE {})
                       \cup (IF stream.open THEN {} ELSE {"stale_list"}))
  /\ UNCHANGED <<backlog, put>>

-----------------------------------------------------------------------------
(* The life of the camera's thread, and the control interface *)

\* stream_stop frees the buffer of each client, also one that two clients share; it
\* leaves the list and the count as they are.
StreamStop ==
  /\ put = "idle" /\ stream.open /\ streamLog.restarts < MaxRestarts
  /\ stream' = [stream EXCEPT !.open = FALSE]
  /\ client' = [s \in Sockets |-> IF client[s] \in {"listed", "queued"} THEN "away" ELSE client[s]]
  /\ ref' = <<>> /\ backlog' = <<>>
  /\ streamLog' = [Harm(IF \E b \in DOMAIN ref : Cardinality(Holders(list, b)) > 1
                        THEN {"double_free"} ELSE {})
                   EXCEPT !.restarts = @ + 1]
  /\ UNCHANGED <<list, put>>

\* stream_init: an empty list; a client that was added meanwhile is lost.
StreamStart ==
  /\ ~stream.open /\ stream' = [stream EXCEPT !.open = TRUE]
  /\ list' = <<>> /\ ref' = <<>>
  /\ client' = [s \in Sockets |-> IF client[s] = "listed" THEN "lost" ELSE client[s]]
  /\ UNCHANGED <<backlog, put, streamLog>>

\* The option is set through the control interface.
ConfigAuth ==
  /\ streamLog.configs < MaxConfigs
  /\ streamLog' = [streamLog EXCEPT !.configs = @ + 1]
  /\ stream' = [stream EXCEPT !.auth = ~@]
  /\ UNCHANGED <<client, backlog, list, ref, put>>

stream_put == http_acceptsock \/ StreamLock \/ StreamFlush \/ StreamPut
do_client_auth(s) == AuthFails(s) \/ AuthSucceeds(s)

StreamNext ==
  \/ stream_put \/ StreamStop \/ StreamStart \/ ConfigAuth
  \/ \E s \in Sockets : StreamConnect(s) \/ do_client_auth(s)

\* The motion loop calls stream_put again and again, and starts again when it ended.
\* No client has to answer.
StreamFairness == WF_streamVars(stream_put) /\ WF_streamVars(StreamStart)

StreamSpec == StreamInit /\ [][StreamNext]_streamVars /\ StreamFairness

-----------------------------------------------------------------------------
(* Properties *)

\* What the code leaves undefined: a client is added to the list while stream_put
\* works on it without the lock, or a shared buffer is freed twice by stream_stop.
Undefined == {"race", "double_free"}

\* A buffer is freed with its last client and not before: what a client has is not
\* freed, and the counter of a picture is the number of its clients, as long as
\* nothing undefined has happened.
BuffersCounted ==
  stream.open /\ streamLog.harm \cap Undefined = {} =>
    /\ \A s \in DOMAIN list : list[s].tmpbuffer \in DOMAIN ref \cup {NoBuffer}
    /\ \A b \in DOMAIN ref : /\ Holders(list, b) # {}
                             /\ b \in Pictures => ref[b] = Cardinality(Holders(list, b))

\* A client that waits is accepted, or the list is full of others.  A restart leaves
\* the clients of before in the count, and a change of stream_auth_method may leave
\* the mutex locked.
Full == Cardinality(DOMAIN list) >= MaxStreams
ClientsServed ==
  \A s \in Sockets : client[s] = "queued" ~>
    client[s] # "queued" \/ Full \/ streamLog.restarts > 0 \/ streamLog.configs > 0
=============================================================================
