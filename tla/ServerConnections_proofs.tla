---------------------- MODULE ServerConnections_proofs ----------------------
(***************************************************************************)
(* The order of the messages on their way to each client, for every set of *)
(* clients, every set of messages and any number of sockets.               *)
(***************************************************************************)
EXTENDS ServerConnections, SequenceTheorems, TLAPS

USE DEF None

\* Numbers in a queue: they grow, and all of them are less than n.
Rising(s) == \A i, j \in DOMAIN s : i < j => s[i] < s[j]
Below(s, n) == \A i \in DOMAIN s : s[i] < n

\* What a client has received, the message in the hand of its writer (None when
\* there is none), and what is queued, in this order.
Sorted(r, w, q) ==
    /\ Rising(r) /\ Rising(q)
    /\ \A j \in DOMAIN q : q[j] > 0 /\ Below(r, q[j])
    /\ w > 0 => Below(r, w) /\ \A j \in DOMAIN q : w < q[j]

\* None of it has a number from n on.
Before(r, w, q, n) == Below(r, n) /\ w < n /\ Below(q, n)

------------------------------------------------------------------------------
(* The three steps of a message: into the queue, into the hand of the      *)
(* writer, to the client.                                                  *)

LEMMA Queueing ==
    ASSUME NEW r \in Seq(Nat), NEW w \in Nat, NEW q \in Seq(Nat), NEW n \in Nat,
           n > 0, Sorted(r, w, q), Before(r, w, q, n)
    PROVE  /\ Append(q, n) \in Seq(Nat)
           /\ Sorted(r, w, Append(q, n))
           /\ Before(r, w, Append(q, n), n + 1)
<1> DEFINE p == Append(q, n)
<1>1. /\ p \in Seq(Nat)
      /\ Len(p) = Len(q) + 1
      /\ \A i \in 1..Len(q) : p[i] = q[i]
      /\ p[Len(q) + 1] = n
  BY AppendProperties
<1>2. /\ DOMAIN p = 1..Len(q) + 1 /\ DOMAIN q = 1..Len(q) /\ Len(q) \in Nat
      /\ DOMAIN r = 1..Len(r) /\ \A i \in DOMAIN q : q[i] \in Nat
      /\ \A i \in DOMAIN r : r[i] \in Nat
  BY <1>1
<1> HIDE DEF p
<1>3. \A i \in DOMAIN p : (i \in DOMAIN q /\ p[i] = q[i]) \/ (i = Len(q) + 1 /\ p[i] = n)
  BY <1>1, <1>2
<1>4. Rising(p)
  BY <1>2, <1>3 DEF Rising, Sorted, Before, Below
<1>5. \A j \in DOMAIN p : p[j] > 0 /\ Below(r, p[j])
  BY <1>3 DEF Sorted, Before
<1>6. w > 0 => \A j \in DOMAIN p : w < p[j]
  BY <1>3 DEF Sorted, Before
<1>7. Below(p, n + 1) /\ Below(r, n + 1) /\ w < n + 1
  BY <1>2, <1>3 DEF Before, Below
<1> QED BY <1>1, <1>4, <1>5, <1>6, <1>7 DEF p, Sorted, Before

LEMMA Taking ==
    ASSUME NEW r \in Seq(Nat), NEW w \in Nat, NEW q \in Seq(Nat), q # <<>>,
           Sorted(r, w, q)
    PROVE  /\ Head(q) \in Nat /\ Head(q) > 0 /\ Tail(q) \in Seq(Nat)
           /\ Sorted(r, Head(q), Tail(q))
           /\ \A n \in Nat : Before(r, w, q, n) => Before(r, Head(q), Tail(q), n)
<1> DEFINE t == Tail(q)
<1>1. /\ Head(q) \in Nat /\ t \in Seq(Nat) /\ Len(t) = Len(q) - 1
      /\ \A i \in 1..Len(t) : t[i] = q[i + 1]
  BY HeadTailProperties
<1>2. Head(q) = q[1] /\ Len(q) \in Nat /\ Len(q) > 0
  BY EmptySeq
<1>3. DOMAIN t = 1..Len(q) - 1 /\ DOMAIN q = 1..Len(q) /\ 1 \in DOMAIN q
  BY <1>1, <1>2
<1> HIDE DEF t
<1>4. \A i \in DOMAIN t : i + 1 \in DOMAIN q /\ i > 0 /\ t[i] = q[i + 1] /\ i \in Nat
  <2> DEFINE n == Len(q)
  <2>1. n \in Nat /\ Len(t) = n - 1 /\ DOMAIN t = 1..n - 1 /\ DOMAIN q = 1..n
    BY <1>1, <1>2, <1>3
  <2> HIDE DEF n
  <2>2. \A i \in DOMAIN t : i \in Nat /\ i > 0 /\ i + 1 \in 1..n /\ i \in 1..Len(t)
    BY <2>1
  <2> QED BY <1>1, <2>1, <2>2
<1>5. Rising(t) /\ \A j \in DOMAIN t : Head(q) < t[j]
  <2>1. \A i, j \in DOMAIN q : i < j => q[i] < q[j]
    BY DEF Sorted, Rising
  <2>2. ASSUME NEW i \in DOMAIN t, NEW j \in DOMAIN t, i < j
        PROVE  t[i] < t[j]
    <3>1. i + 1 < j + 1 /\ i + 1 \in DOMAIN q /\ j + 1 \in DOMAIN q
      BY <1>4, <2>2
    <3> QED BY <1>4, <2>1, <3>1
  <2>3. ASSUME NEW j \in DOMAIN t
        PROVE  Head(q) < t[j]
    <3>1. 1 < j + 1 /\ j + 1 \in DOMAIN q
      BY <1>4
    <3> QED BY <1>2, <1>3, <1>4, <2>1, <3>1
  <2> QED BY <2>2, <2>3 DEF Rising
<1>6. /\ Head(q) > 0 /\ Below(r, Head(q))
      /\ \A j \in DOMAIN t : t[j] > 0 /\ Below(r, t[j])
  BY <1>2, <1>3, <1>4 DEF Sorted
<1>7. ASSUME NEW n \in Nat, Before(r, w, q, n)
      PROVE  Before(r, Head(q), t, n)
  BY <1>2, <1>3, <1>4, <1>7 DEF Before, Below
<1> QED BY <1>1, <1>5, <1>6, <1>7 DEF t, Sorted

LEMMA Writing ==
    ASSUME NEW r \in Seq(Nat), NEW w \in Nat, NEW q \in Seq(Nat), w > 0,
           Sorted(r, w, q)
    PROVE  /\ Append(r, w) \in Seq(Nat)
           /\ Sorted(Append(r, w), 0, q) /\ Sorted(r, 0, q)
           /\ \A n \in Nat : Before(r, w, q, n) =>
                 Before(Append(r, w), 0, q, n) /\ Before(r, 0, q, n)
<1> DEFINE p == Append(r, w)
<1>1. /\ p \in Seq(Nat)
      /\ Len(p) = Len(r) + 1
      /\ \A i \in 1..Len(r) : p[i] = r[i]
      /\ p[Len(r) + 1] = w
  BY AppendProperties
<1>2. /\ DOMAIN p = 1..Len(r) + 1 /\ DOMAIN r = 1..Len(r) /\ Len(r) \in Nat
      /\ \A i \in DOMAIN r : r[i] \in Nat
      /\ \A i \in DOMAIN q : q[i] \in Nat
  BY <1>1
<1> HIDE DEF p
<1>3. \A i \in DOMAIN p : (i \in DOMAIN r /\ p[i] = r[i]) \/ (i = Len(r) + 1 /\ p[i] = w)
  BY <1>1, <1>2
<1>4. Rising(p)
  BY <1>2, <1>3 DEF Rising, Sorted, Below
<1>5. \A j \in DOMAIN q : Below(p, q[j])
  BY <1>3 DEF Sorted, Below
<1>6. ASSUME NEW n \in Nat, Before(r, w, q, n)
      PROVE  Before(p, 0, q, n) /\ Before(r, 0, q, n)
  BY <1>3, <1>6 DEF Before, Below
<1> QED BY <1>1, <1>4, <1>5, <1>6 DEF p, Sorted

LEMMA Later ==
    ASSUME NEW r \in Seq(Nat), NEW w \in Nat, NEW q \in Seq(Nat), NEW n \in Nat,
           Before(r, w, q, n)
    PROVE  Before(r, w, q, n + 1)
  BY DEF Before, Below

\* Two growing sequences, one below the other, are one growing sequence.
LEMMA JoiningTwo ==
    ASSUME NEW a \in Seq(Nat), NEW b \in Seq(Nat), Rising(a), Rising(b),
           \A j \in DOMAIN b : Below(a, b[j])
    PROVE  /\ a \o b \in Seq(Nat)
           /\ Rising(a \o b)
           /\ \A n \in Nat : Below(a, n) /\ Below(b, n) => Below(a \o b, n)
<1> DEFINE s == a \o b
           At(i) == \/ i \in DOMAIN a /\ s[i] = a[i]
                    \/ i - Len(a) \in DOMAIN b /\ s[i] = b[i - Len(a)] /\ i > Len(a)
<1>1. /\ s \in Seq(Nat)
      /\ Len(s) = Len(a) + Len(b)
      /\ \A i \in 1..Len(a) + Len(b) : s[i] = IF i <= Len(a) THEN a[i] ELSE b[i - Len(a)]
  BY ConcatProperties
<1>2. /\ Len(a) \in Nat /\ Len(b) \in Nat /\ DOMAIN s = 1..Len(s)
      /\ DOMAIN a = 1..Len(a) /\ DOMAIN b = 1..Len(b)
  BY <1>1
<1> HIDE DEF s
<1>3. \A i \in DOMAIN s : i \in Nat /\ At(i)
  BY <1>1, <1>2
<1>4. ASSUME NEW i \in DOMAIN s, NEW j \in DOMAIN s, i < j
      PROVE  s[i] < s[j]
  <2>1. CASE j \in DOMAIN a /\ s[j] = a[j]
    BY <1>2, <1>3, <1>4, <2>1 DEF Rising
  <2>2. CASE i \in DOMAIN a /\ s[i] = a[i] /\ j - Len(a) \in DOMAIN b /\ s[j] = b[j - Len(a)]
    BY <2>2 DEF Below
  <2>3. CASE /\ i - Len(a) \in DOMAIN b /\ s[i] = b[i - Len(a)] 
             /\ j - Len(a) \in DOMAIN b /\ s[j] = b[j - Len(a)]
    <3>1. i - Len(a) < j - Len(a)
      BY <1>2, <1>3, <1>4
    <3> QED BY <2>3, <3>1 DEF Rising
  <2> QED BY <1>3, <2>1, <2>2, <2>3
<1>5. ASSUME NEW n \in Nat, Below(a, n), Below(b, n)
      PROVE  Below(s, n)
  BY <1>3, <1>5 DEF Below
<1> QED BY <1>1, <1>4, <1>5 DEF Rising, s

\* Joined, the three parts are one growing sequence.
LEMMA Joining ==
    ASSUME NEW r \in Seq(Nat), NEW w \in Nat, NEW q \in Seq(Nat), Sorted(r, w, q)
    PROVE  Rising(r \o (IF w = 0 THEN <<>> ELSE <<w>>) \o q)
<1> DEFINE h == IF w = 0 THEN <<>> ELSE <<w>>
<1>1. /\ h \in Seq(Nat)
      /\ \A j \in DOMAIN h : w > 0 /\ h[j] = w
      /\ Rising(h)
  BY DEF Rising
<1> HIDE DEF h
<1>2. \A j \in DOMAIN h : Below(r, h[j])
  BY <1>1 DEF Sorted
<1>3. /\ r \o h \in Seq(Nat) /\ Rising(r \o h)
      /\ \A n \in Nat : Below(r, n) /\ Below(h, n) => Below(r \o h, n)
  BY <1>1, <1>2, JoiningTwo DEF Sorted
<1>4. ASSUME NEW j \in DOMAIN q
      PROVE  Below(r \o h, q[j])
  <2>1. q[j] \in Nat /\ Below(r, q[j])
    BY DEF Sorted
  <2>2. Below(h, q[j])
    BY <1>1 DEF Sorted, Below
  <2> QED BY <1>3, <2>1, <2>2
<1>5. Rising((r \o h) \o q)
  BY <1>3, <1>4, JoiningTwo DEF Sorted
<1> QED BY <1>5 DEF h
------------------------------------------------------------------------------
(* The inductive invariant.                                                *)

TypesInv ==
    /\ socket \in [Clients -> {"none", "pending", "refused", "open", "closed"}]
    /\ wire \in [Clients -> Seq(Kinds)]
    /\ received \in [Clients -> Seq(Nat)]
    /\ queue \in [Clients -> Seq(Nat)]
    /\ writing \in [Clients -> Nat]
    /\ writer \in [Clients -> {"none", "check", "write", "ended"}]
    /\ clients \in Seq(Clients)
    /\ pool \in Seq([from : Clients, kind : Kinds])
    /\ serial \in Nat

\* The accepted client of a connection under construction, and those listed, have
\* been accepted, and none of them twice.
Accepted(c) == socket[c] \in {"open", "closed"}
DistinctInv ==
    /\ \A i \in DOMAIN clients : Accepted(clients[i])
    /\ \A i, j \in DOMAIN clients : clients[i] = clients[j] => i = j
    /\ acceptor \in {"construct", "own", "add"} =>
          /\ accepted \in Clients /\ Accepted(accepted)
          /\ \A i \in DOMAIN clients : clients[i] # accepted

\* What is on its way to a client is in order and not from the future.
OrderInv ==
    \A c \in Clients :
       /\ Sorted(received[c], writing[c], queue[c])
       /\ Before(received[c], writing[c], queue[c], serial + 1)
       /\ writer[c] = "write" => writing[c] > 0

\* A broadcast has reached nobody but the clients its iterator has passed.
Untold(c) == \A i \in 1..cursor : clients[i] # c
TellInv ==
    worker = "iterate" =>
       /\ cursor \in 0..Len(clients)
       /\ \A c \in Clients :
             Untold(c) => Before(received[c], writing[c], queue[c], serial)

IInv == TypesInv /\ DistinctInv /\ OrderInv /\ TellInv

------------------------------------------------------------------------------
LEMMA InitIInv == Init => IInv
<1> SUFFICES ASSUME Init PROVE IInv
  OBVIOUS
<1>1. <<>> \in Seq(Nat) /\ <<>> \in Seq(Kinds) /\ <<>> \in Seq(Clients)
      /\ <<>> \in Seq([from : Clients, kind : Kinds])
  OBVIOUS
<1>2. TypesInv
  BY <1>1 DEF Init, TypesInv
<1>3. DistinctInv /\ TellInv
  BY DEF Init, DistinctInv, TellInv
<1>4. OrderInv
  BY DEF Init, OrderInv, Sorted, Before, Rising, Below
<1> QED BY <1>2, <1>3, <1>4 DEF IInv

\* Steps that concern none of what the invariant speaks of.
LEMMA OthersKeep ==
    ASSUME IInv,
           UNCHANGED <<socket, wire, received, queue, writing, writer, clients,
                       pool, serial, worker, cursor>>,
           \/ UNCHANGED <<acceptor, accepted>>
           \/ acceptor' \notin {"construct", "own", "add"}
           \/ acceptor \in {"construct", "own"} /\ accepted' = accepted
    PROVE  IInv'
<1>1. TypesInv'
  BY DEF IInv, TypesInv
<1>2. DistinctInv'
  BY DEF IInv, DistinctInv, Accepted
<1>3. OrderInv' /\ TellInv'
  BY DEF IInv, OrderInv, TellInv, Untold
<1> QED BY <1>1, <1>2, <1>3 DEF IInv

\* Connecting, accepting and closing: an accepted client stays accepted.
LEMMA SocketsKeep ==
    ASSUME IInv, \/ \E c \in Clients : Connect(c)
                 \/ Accept \/ CloseSocket \/ CloseServer
    PROVE  IInv'
<1>1. /\ UNCHANGED <<wire, received, queue, writing, writer, clients, pool,
                     serial, worker, cursor>>
      /\ socket' \in [Clients -> {"none", "pending", "refused", "open", "closed"}]
      /\ \A c \in Clients : Accepted(c) => Accepted(c)'
  BY DEF IInv, TypesInv, Accepted, Connect, Accept, CloseSocket, CloseServer,
         accepting, readers, writers, working, stopping, peers, AcceptorFrame, MainFrame
<1>2. \A i \in DOMAIN clients : clients[i] \in Clients
  BY DEF IInv, TypesInv
<1>3. TypesInv'
  BY <1>1 DEF IInv, TypesInv
<1>4. OrderInv' /\ TellInv'
  BY <1>1 DEF IInv, OrderInv, TellInv, Untold
<1>5. DistinctInv'
  <2>1. CASE Accept
    <3>1. PICK c \in Clients : /\ socket[c] = "pending"
                               /\ socket' = [socket EXCEPT ![c] = "open"]
                               /\ accepted' = c
      BY <2>1 DEF Accept
    <3>2. Accepted(c)' /\ ~Accepted(c)
      BY <3>1 DEF IInv, TypesInv, Accepted
    <3> QED BY <1>1, <1>2, <3>1, <3>2 DEF IInv, DistinctInv
  <2>2. CASE UNCHANGED accepting
    BY <1>1, <1>2, <2>2 DEF IInv, DistinctInv, accepting
  <2> QED
    BY <2>1, <2>2 DEF Connect, CloseSocket, CloseServer, MainFrame
<1> QED BY <1>3, <1>4, <1>5 DEF IInv

LEMMA ListingKeeps ==
    ASSUME IInv, AddClient
    PROVE  IInv'
<1>1. /\ accepted \in Clients /\ Accepted(accepted)
      /\ \A i \in DOMAIN clients : clients[i] # accepted
  BY DEF IInv, DistinctInv, AddClient
<1>2. /\ clients' \in Seq(Clients)
      /\ Len(clients') = Len(clients) + 1
      /\ \A i \in 1..Len(clients) : clients'[i] = clients[i]
      /\ clients'[Len(clients) + 1] = accepted
  BY <1>1, AppendProperties DEF IInv, TypesInv, AddClient
<1>3. /\ DOMAIN clients = 1..Len(clients) /\ Len(clients) \in Nat
      /\ DOMAIN clients' = 1..Len(clients) + 1
  BY <1>2 DEF IInv, TypesInv
<1>4. UNCHANGED <<socket, wire, received, queue, writing, writer, pool, serial,
                  worker, cursor>> /\ acceptor' = "check"
  BY DEF AddClient, AcceptorFrame, peers, working, writers
<1>5. TypesInv'
  BY <1>2, <1>4 DEF IInv, TypesInv
<1>6. DistinctInv'
  BY <1>1, <1>2, <1>3, <1>4 DEF IInv, DistinctInv, Accepted
<1>7. OrderInv'
  BY <1>4 DEF IInv, OrderInv
<1>8. TellInv'
  BY <1>2, <1>3, <1>4 DEF IInv, TellInv, Untold
<1> QED BY <1>5, <1>6, <1>7, <1>8 DEF IInv

LEMMA ReadingKeeps ==
    ASSUME IInv, NEW c \in Clients, Send(c) \/ ReadMessage(c)
    PROVE  IInv'
<1>1. UNCHANGED <<socket, acceptor, accepted, received, queue, writing, writer,
                  clients, serial, worker, cursor>>
  BY DEF Send, ReadMessage, ReaderFrame, accepting, writers, working
<1>2. wire' \in [Clients -> Seq(Kinds)] /\ pool' \in Seq([from : Clients, kind : Kinds])
  <2>1. CASE Send(c)
    <3>1. PICK msg \in Sends : wire' = [wire EXCEPT ![c] = Append(@, msg[2])]
      BY <2>1 DEF Send
    <3>2. msg[2] \in Kinds
      BY ConnectionsAssumption DEF Kinds
    <3>3. Append(wire[c], msg[2]) \in Seq(Kinds)
      BY <3>2, AppendProperties DEF IInv, TypesInv
    <3> QED BY <2>1, <3>1, <3>3 DEF IInv, TypesInv, Send, working
  <2>2. CASE ReadMessage(c)
    <3>1. wire[c] \in Seq(Kinds) /\ wire[c] # <<>>
      BY <2>2 DEF IInv, TypesInv, ReadMessage
    <3>2. Head(wire[c]) \in Kinds /\ Tail(wire[c]) \in Seq(Kinds)
      BY <3>1, HeadTailProperties
    <3>3. [from |-> c, kind |-> Head(wire[c])] \in [from : Clients, kind : Kinds]
      BY <3>2
    <3>4. Append(pool, [from |-> c, kind |-> Head(wire[c])])
             \in Seq([from : Clients, kind : Kinds])
      BY <3>3, AppendProperties DEF IInv, TypesInv
    <3> QED BY <2>2, <3>2, <3>4 DEF IInv, TypesInv, ReadMessage
  <2> QED BY <2>1, <2>2
<1>3. TypesInv'
  BY <1>1, <1>2 DEF IInv, TypesInv
<1>4. DistinctInv'
  BY <1>1 DEF IInv, DistinctInv, Accepted
<1>5. OrderInv' /\ TellInv'
  BY <1>1 DEF IInv, OrderInv, TellInv, Untold
<1> QED BY <1>3, <1>4, <1>5 DEF IInv

\* The thread of a writer starts, takes a message, writes it or ends.
LEMMA WritingKeeps ==
    ASSUME IInv, \/ StartThreads
                 \/ \E c \in Clients : Writer(c)
    PROVE  IInv'
<1>1. /\ UNCHANGED <<socket, wire, clients, pool, serial, worker, cursor>>
      /\ \/ UNCHANGED <<acceptor, accepted>>
         \/ acceptor = "construct" /\ UNCHANGED accepted
  BY DEF StartThreads, Writer, WriterEnds, TakeMessage, WriteMessage, WriterFrame,
         AcceptorFrame, accepting, peers, working
<1>2. DistinctInv'
  BY <1>1 DEF IInv, DistinctInv, Accepted
<1>3. ASSUME StartThreads
      PROVE  IInv'
  <2>1. /\ accepted \in Clients
        /\ writer' = [writer EXCEPT ![accepted] = "check"]
        /\ UNCHANGED <<received, queue, writing>>
    BY <1>3 DEF IInv, DistinctInv, StartThreads, AcceptorFrame, peers
  <2>2. TypesInv'
    BY <1>1, <2>1 DEF IInv, TypesInv
  <2>3. OrderInv' /\ TellInv'
    BY <1>1, <2>1 DEF IInv, TypesInv, OrderInv, TellInv, Untold
  <2> QED BY <1>2, <2>2, <2>3 DEF IInv
<1>4. ASSUME NEW c \in Clients, WriterEnds(c)
      PROVE  IInv'
  <2>1. writer' = [writer EXCEPT ![c] = "ended"] /\ UNCHANGED <<received, queue, writing>>
    BY <1>4 DEF WriterEnds
  <2>2. TypesInv'
    BY <1>1, <2>1 DEF IInv, TypesInv
  <2>3. OrderInv' /\ TellInv'
    BY <1>1, <2>1 DEF IInv, TypesInv, OrderInv, TellInv, Untold
  <2> QED BY <1>2, <2>2, <2>3 DEF IInv
<1>5. ASSUME NEW c \in Clients, TakeMessage(c)
      PROVE  IInv'
  <2>1. /\ received[c] \in Seq(Nat) /\ writing[c] \in Nat /\ queue[c] \in Seq(Nat)
        /\ queue[c] # <<>> /\ Sorted(received[c], writing[c], queue[c])
    BY <1>5 DEF IInv, TypesInv, OrderInv, TakeMessage
  <2>2. /\ Head(queue[c]) \in Nat /\ Head(queue[c]) > 0 /\ Tail(queue[c]) \in Seq(Nat)
        /\ Sorted(received[c], Head(queue[c]), Tail(queue[c]))
        /\ \A n \in Nat : Before(received[c], writing[c], queue[c], n)
                             => Before(received[c], Head(queue[c]), Tail(queue[c]), n)
    BY <2>1, Taking
  <2>3. /\ writing' = [writing EXCEPT ![c] = Head(queue[c])]
        /\ queue' = [queue EXCEPT ![c] = Tail(queue[c])]
        /\ writer' = [writer EXCEPT ![c] = "write"] /\ received' = received
    BY <1>5 DEF TakeMessage
  <2>4. TypesInv'
    BY <1>1, <2>2, <2>3 DEF IInv, TypesInv
  <2>5. /\ writing'[c] = Head(queue[c]) /\ queue'[c] = Tail(queue[c])
        /\ \A d \in Clients \ {c} : /\ writing'[d] = writing[d] /\ queue'[d] = queue[d]
                                    /\ writer'[d] = writer[d]
    BY <2>3 DEF IInv, TypesInv
  <2>6. serial \in Nat /\ serial + 1 \in Nat
    BY DEF IInv, TypesInv
  <2>7. ASSUME NEW d \in Clients
        PROVE  /\ Sorted(received'[d], writing'[d], queue'[d])
               /\ \A n \in Nat : Before(received[d], writing[d], queue[d], n)
                                    => Before(received'[d], writing'[d], queue'[d], n)
               /\ writer'[d] = "write" => writing'[d] > 0
    BY <2>2, <2>3, <2>5 DEF IInv, OrderInv
  <2>8. OrderInv'
    BY <1>1, <2>6, <2>7 DEF IInv, OrderInv
  <2>9. TellInv'
    BY <1>1, <2>6, <2>7 DEF IInv, TellInv, Untold
  <2> QED BY <1>2, <2>4, <2>8, <2>9 DEF IInv
<1>6. ASSUME NEW c \in Clients, WriteMessage(c)
      PROVE  IInv'
  <2>1. /\ received[c] \in Seq(Nat) /\ writing[c] \in Nat /\ queue[c] \in Seq(Nat)
        /\ writing[c] > 0 /\ Sorted(received[c], writing[c], queue[c])
    BY <1>6 DEF IInv, TypesInv, OrderInv, WriteMessage
  <2>2. /\ Append(received[c], writing[c]) \in Seq(Nat)
        /\ Sorted(Append(received[c], writing[c]), 0, queue[c])
        /\ Sorted(received[c], 0, queue[c])
        /\ \A n \in Nat : Before(received[c], writing[c], queue[c], n) =>
              /\ Before(Append(received[c], writing[c]), 0, queue[c], n)
              /\ Before(received[c], 0, queue[c], n)
    BY <2>1, Writing
  <2>3. /\ writing' = [writing EXCEPT ![c] = 0] /\ queue' = queue
        /\ writer' = [writer EXCEPT ![c] = "check"]
        /\ \/ received' = received
           \/ received' = [received EXCEPT ![c] = Append(received[c], writing[c])]
    BY <1>6 DEF WriteMessage
  <2>4. TypesInv'
    BY <1>1, <2>2, <2>3 DEF IInv, TypesInv
  <2>5. /\ writing'[c] = 0 /\ queue'[c] = queue[c] /\ writer'[c] = "check"
        /\ received'[c] \in {received[c], Append(received[c], writing[c])}
        /\ \A d \in Clients \ {c} : /\ writing'[d] = writing[d] /\ queue'[d] = queue[d]
                                    /\ writer'[d] = writer[d] /\ received'[d] = received[d]
    BY <2>3 DEF IInv, TypesInv
  <2>6. serial \in Nat /\ serial + 1 \in Nat
    BY DEF IInv, TypesInv
  <2>7. ASSUME NEW d \in Clients
        PROVE  /\ Sorted(received'[d], writing'[d], queue'[d])
               /\ \A n \in Nat : Before(received[d], writing[d], queue[d], n)
                                    => Before(received'[d], writing'[d], queue'[d], n)
               /\ writer'[d] = "write" => writing'[d] > 0
    BY <2>2, <2>5 DEF IInv, OrderInv
  <2>8. OrderInv'
    BY <1>1, <2>6, <2>7 DEF IInv, OrderInv
  <2>9. TellInv'
    BY <1>1, <2>6, <2>7 DEF IInv, TellInv, Untold
  <2> QED BY <1>2, <2>4, <2>8, <2>9 DEF IInv
<1> QED BY <1>3, <1>4, <1>5, <1>6 DEF Writer

\* A message with the current number goes to a client that has nothing of it yet.
LEMMA OfferKeeps ==
    ASSUME IInv, NEW c \in Clients, NEW n \in Nat, n > 0,
           Before(received[c], writing[c], queue[c], n), Offer(c, n)
    PROVE  /\ queue' \in [Clients -> Seq(Nat)]
           /\ Sorted(received[c], writing[c], queue'[c])
           /\ Before(received[c], writing[c], queue'[c], n + 1)
           /\ \A d \in Clients \ {c} : queue'[d] = queue[d]
<1>1. /\ received[c] \in Seq(Nat) /\ writing[c] \in Nat /\ queue[c] \in Seq(Nat)
      /\ Sorted(received[c], writing[c], queue[c])
  BY DEF IInv, TypesInv, OrderInv
<1>2. /\ Append(queue[c], n) \in Seq(Nat)
      /\ Sorted(received[c], writing[c], Append(queue[c], n))
      /\ Before(received[c], writing[c], Append(queue[c], n), n + 1)
  BY <1>1, Queueing
<1>3. queue' = [queue EXCEPT ![c] = Append(queue[c], n)]
  BY DEF Offer
<1> QED BY <1>2, <1>3 DEF IInv, TypesInv

\* The numbers that are under way stay below a greater bound.
LEMMA StillBefore ==
    ASSUME IInv, NEW c \in Clients, NEW n \in Nat,
           Before(received[c], writing[c], queue[c], n)
    PROVE  Before(received[c], writing[c], queue[c], n + 1)
  BY Later DEF IInv, TypesInv

LEMMA HandlingKeeps ==
    ASSUME IInv, HandleMessage
    PROVE  IInv'
<1>1. /\ UNCHANGED <<socket, wire, received, writing, writer, clients, acceptor, accepted>>
      /\ serial' = serial + 1 /\ pool' = Tail(pool) /\ worker = "idle"
      /\ pool \in Seq([from : Clients, kind : Kinds]) /\ pool # <<>>
      /\ serial \in Nat
  BY DEF IInv, TypesInv, HandleMessage, WorkerFrame, peers, accepting
<1>2. /\ pool' \in Seq([from : Clients, kind : Kinds])
      /\ Head(pool).from \in Clients
  <2>1. /\ Head(pool) \in [from : Clients, kind : Kinds]
        /\ Tail(pool) \in Seq([from : Clients, kind : Kinds])
    BY ONLY <1>1, HeadTailProperties
  <2> QED BY <1>1, <2>1
<1>3. \A c \in Clients :
         /\ Sorted(received[c], writing[c], queue[c])
         /\ Before(received[c], writing[c], queue[c], serial')
         /\ Before(received[c], writing[c], queue[c], serial' + 1)
         /\ writer[c] = "write" => writing[c] > 0
  <2> SUFFICES ASSUME NEW c \in Clients
               PROVE  Before(received[c], writing[c], queue[c], serial' + 1)
    BY <1>1 DEF IInv, OrderInv
  <2>1. Before(received[c], writing[c], queue[c], serial + 1) /\ serial + 1 \in Nat
    BY <1>1 DEF IInv, OrderInv
  <2> QED BY <1>1, <2>1, StillBefore
<1>4. DistinctInv'
  BY <1>1 DEF IInv, DistinctInv, Accepted
<1>5. CASE UNCHANGED queue
  <2>1. TypesInv'
    <3>1. TypesInv /\ serial' \in Nat
      BY <1>1 DEF IInv
    <3> QED BY ONLY <1>1, <1>2, <1>5, <3>1 DEF TypesInv
  <2>2. OrderInv'
    BY <1>1, <1>3, <1>5 DEF OrderInv
  <2>3. worker' = "iterate" => cursor' = 0
    BY <1>1 DEF HandleMessage
  <2>4. Len(clients) \in Nat
    BY DEF IInv, TypesInv
  <2>5. TellInv'
    BY <1>1, <1>3, <1>5, <2>3, <2>4 DEF TellInv
  <2> QED BY <1>4, <2>1, <2>2, <2>5 DEF IInv
<1>6. CASE Offer(Head(pool).from, serial') /\ UNCHANGED worker
  <2> DEFINE c == Head(pool).from
  <2>1. serial' \in Nat /\ serial' > 0
    BY <1>1
  <2>2. /\ queue' \in [Clients -> Seq(Nat)]
        /\ Sorted(received[c], writing[c], queue'[c])
        /\ Before(received[c], writing[c], queue'[c], serial' + 1)
        /\ \A d \in Clients \ {c} : queue'[d] = queue[d]
    BY <1>2, <1>3, <1>6, <2>1, OfferKeeps
  <2>3. TypesInv'
    BY <1>1, <1>2, <2>1, <2>2 DEF IInv, TypesInv
  <2>4. OrderInv'
    BY <1>1, <1>3, <2>2 DEF OrderInv
  <2>5. TellInv'
    BY <1>1, <1>6 DEF TellInv
  <2> QED BY <1>4, <2>3, <2>4, <2>5 DEF IInv
<1> QED BY <1>5, <1>6 DEF HandleMessage

\* The list names nobody twice: the next client has got nothing of this broadcast.
LEMMA TellingKeeps ==
    ASSUME IInv, TellNext
    PROVE  IInv'
<1> DEFINE c == clients[cursor + 1]
<1>1. /\ UNCHANGED <<socket, wire, received, writing, writer, clients, acceptor,
                     accepted, pool, worker, serial>>
      /\ worker = "iterate" /\ cursor' = cursor + 1 /\ cursor < Len(clients)
      /\ Offer(c, serial) \/ UNCHANGED queue
  BY DEF TellNext, WorkerFrame, peers, accepting
<1>2. /\ Len(clients) \in Nat /\ cursor \in 0..Len(clients) /\ cursor + 1 \in DOMAIN clients
      /\ DOMAIN clients = 1..Len(clients) /\ c \in Clients /\ serial \in Nat
  BY <1>1 DEF IInv, TypesInv, TellInv
<1>3. Untold(c)
  BY <1>1, <1>2 DEF IInv, DistinctInv, Untold
<1>4. Before(received[c], writing[c], queue[c], serial) /\ serial > 0
  <2>1. Before(received[c], writing[c], queue[c], serial)
    BY <1>1, <1>2, <1>3 DEF IInv, TellInv
  <2>2. writing[c] \in Nat /\ writing[c] < serial
    BY <1>2, <2>1 DEF IInv, TypesInv, Before
  <2> QED BY <1>2, <2>1, <2>2
<1>5. /\ queue' \in [Clients -> Seq(Nat)]
      /\ Sorted(received[c], writing[c], queue'[c])
      /\ Before(received[c], writing[c], queue'[c], serial + 1)
      /\ \A d \in Clients \ {c} : queue'[d] = queue[d]
  <2>1. CASE Offer(c, serial)
    BY <1>2, <1>4, <2>1, OfferKeeps
  <2>2. CASE UNCHANGED queue
    BY <1>2, <2>2 DEF IInv, TypesInv, OrderInv
  <2> QED BY <1>1, <2>1, <2>2
<1> HIDE DEF c
<1>6. TypesInv'
  BY <1>1, <1>5 DEF IInv, TypesInv
<1>7. DistinctInv'
  BY <1>1 DEF IInv, DistinctInv, Accepted
<1>8. OrderInv'
  BY <1>1, <1>5 DEF IInv, OrderInv
<1>9. TellInv'
  <2>1. cursor' \in 0..Len(clients) /\ cursor \in Nat
    BY <1>1, <1>2
  <2>2. ASSUME NEW d \in Clients, Untold(d)'
        PROVE  Before(received[d], writing[d], queue'[d], serial)
    <3>1. Untold(d) /\ d # c
      BY <1>1, <1>2, <2>1, <2>2 DEF Untold, c
    <3> QED BY <1>1, <1>5, <3>1 DEF IInv, TellInv
  <2> QED BY <1>1, <2>1, <2>2 DEF TellInv
<1> QED BY <1>6, <1>7, <1>8, <1>9 DEF IInv

LEMMA TellingEndsKeeps ==
    ASSUME IInv, TellFails \/ TellDone
    PROVE  IInv'
<1>1. /\ UNCHANGED <<socket, wire, received, writing, writer, clients, acceptor,
                     accepted, pool, serial, queue>>
      /\ worker' = "idle"
  BY DEF TellFails, TellDone, BroadcastEnds, WorkerFrame, peers, accepting
<1>2. TypesInv'
  BY <1>1 DEF IInv, TypesInv
<1>3. DistinctInv'
  BY <1>1 DEF IInv, DistinctInv, Accepted
<1>4. OrderInv' /\ TellInv'
  BY <1>1 DEF IInv, OrderInv, TellInv
<1> QED BY <1>2, <1>3, <1>4 DEF IInv

LEMMA NextIInv == IInv /\ [Next]_vars => IInv'
<1> SUFFICES ASSUME IInv, [Next]_vars PROVE IInv'
  OBVIOUS
<1> USE DEF peers, accepting, readers, writers, working, stopping
<1>1. CASE \E c \in Clients : Connect(c) \/ Send(c) \/ HangUp(c)
  <2>1. CASE \E c \in Clients : HangUp(c)
    BY <2>1, OthersKeep DEF HangUp
  <2> QED BY <1>1, <2>1, SocketsKeep, ReadingKeeps
<1>2. CASE Acceptor
  <2>1. CASE CheckConnected \/ AcceptFails \/ SetOwner
    BY <2>1, OthersKeep DEF CheckConnected, AcceptFails, SetOwner, AcceptorFrame
  <2> QED BY <1>2, <2>1, SocketsKeep, ListingKeeps, WritingKeeps DEF Acceptor
<1>3. CASE \E c \in Clients : Reader(c) \/ Writer(c)
  <2>1. CASE \E c \in Clients : ReadFails(c)
    BY <2>1, OthersKeep DEF ReadFails, ReaderFrame
  <2> QED BY <1>3, <2>1, ReadingKeeps, WritingKeeps DEF Reader
<1>4. CASE Worker
  BY <1>4, HandlingKeeps, TellingKeeps, TellingEndsKeeps DEF Worker
<1>5. CASE Exit \/ ShutDown
  <2>1. CASE Exit \/ Disconnect \/ IterationFails
    BY <2>1, OthersKeep DEF Exit, Disconnect, IterationFails, MainFrame
  <2> QED BY <1>5, <2>1, SocketsKeep DEF ShutDown
<1>6. CASE UNCHANGED vars
  BY <1>6, OthersKeep DEF vars
<1> QED BY <1>1, <1>2, <1>3, <1>4, <1>5, <1>6 DEF Next

LEMMA IInvInOrder == IInv => InOrder
<1> SUFFICES ASSUME IInv, NEW c \in Clients
             PROVE  Rising(OnTheWay(c))
  BY DEF InOrder, Rising
<1>1. /\ received[c] \in Seq(Nat) /\ writing[c] \in Nat /\ queue[c] \in Seq(Nat)
      /\ Sorted(received[c], writing[c], queue[c])
  BY DEF IInv, TypesInv, OrderInv
<1> QED BY <1>1, Joining DEF OnTheWay

\* Each client gets its messages in the order they were handled, none twice,
\* however the writers, the broadcasts and the answers interleave, with any number
\* of clients that come and go and any messages (MessageWriter.java:53 and 62).
THEOREM MessagesInOrder == Spec => []InOrder
<1>1. Spec => []IInv
  BY InitIInv, NextIInv, PTL DEF Spec
<1> QED BY <1>1, IInvInOrder, PTL
=============================================================================
