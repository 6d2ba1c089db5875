----------------------------- MODULE MonitorGui -----------------------------
(***************************************************************************)
(* The monitoring GUI, from its connection to the tables it shows.  One    *)
(* reader thread hands the messages of the connection to a pool of         *)
(* threads, each of which posts what it decoded to the event queue of      *)
(* Swing; the one thread of that queue also runs the buttons, the settings *)
(* dialog and the timer of the pending table.  A packet that waits in the  *)
(* event queue is taken for one that waits in the pool: either is out of   *)
(* order already and outlives its connection.                              *)
(*                                                                         *)
(* Of the server there is what a GUI sees: one thread that toggles a       *)
(* vehicle and broadcasts it, or answers a request, and the grace tasks,   *)
(* which tell nobody.  VehicleTracking has their detail.                   *)
(***************************************************************************)
EXTENDS Integers, SequencesExt

CONSTANTS
  Grace,        \* Vehicle.GraceQuantumMillis
  Threads,      \* size of the pool
  RecentRows,   \* the cap of the table of recent violations
  MaxNow,       \* bound: when the last photograph is taken
  Budgets       \* bound: the vehicles (plate and lot, which is all that equals()
                \* compares) and the numbers of photographs, clicks on a button
                \* and uses of the settings dialog of a behaviour

ASSUME GuiAssumption ==
  /\ Grace \in Nat /\ MaxNow \in Nat
  /\ Threads \in Nat \ {0} /\ RecentRows \in Nat \ {0}
  /\ \A budget \in Budgets :
       /\ budget \in [vehicles : SUBSET budget.vehicles,
                      captures : Nat, clicks : Nat, settings : Nat]
       /\ {"active", "recent"} \cap budget.vehicles = {}

VARIABLES
  now,
  server,       \* activeVehicles and recentVehicles
  link,         \* the GUI's client, and how far the server has accepted it
  requests,     \* commands on their way to the server
  packets,      \* packets sent to the GUI, in that order, and not yet handled
  table,        \* rows of the three tables
  edt,          \* what the event thread is doing
  guiLog        \* bounds and history

guiVars == <<now, server, link, requests, packets, table, edt, guiLog>>

-----------------------------------------------------------------------------
Row(v) == [vehicle |-> v, end |-> now + Grace]
Packets(command, rows) == [i \in DOMAIN rows |-> [command |-> command, row |-> rows[i]]]

Vehicle(row) == row.vehicle
In(v, rows) == \E i \in DOMAIN rows : Vehicle(rows[i]) = v
\* ArrayList.remove(Object): the first that is equal.
Without(rows, v) == RemoveFirstMatch(rows, LAMBDA row : Vehicle(row) = v)

Flying(command) == \E i \in DOMAIN packets : packets[i].command = command
Listing == "active" \in {requests[i] : i \in DOMAIN requests} \/ Flying("active")
Quiet == requests = <<>> /\ packets = <<>>
Attached == link.client = "open" /\ link.server = "listed"

Muddled(m) == [guiLog EXCEPT !.muddled = @ \/ m]

GuiInit ==
  /\ now = 0 /\ server = [active |-> <<>>, recent |-> <<>>]
  /\ link = [client |-> "null", server |-> "none"]
  /\ requests = <<>> /\ packets = <<>>
  /\ table = [pending |-> <<>>, recent |-> <<>>, search |-> <<>>]
  /\ edt = "start"
  /\ \E budget \in Budgets : guiLog = [left |-> budget, muddled |-> FALSE]

-----------------------------------------------------------------------------
(* The server *)

\* A photograph toggles the vehicle, and each listed client is told.  The list of
\* clients is gone through without its lock: where another client is accepted
\* meanwhile, and each run of sendimage is one, that ends in an exception, which
\* may come before this client's turn.
processReceivedData(v) == \E told \in {FALSE, Attached} :
  /\ guiLog.left.captures > 0 /\ now <= MaxNow
  /\ server' = [server EXCEPT !.active = IF In(v, @) THEN Without(@, v) ELSE Append(@, Row(v))]
  /\ packets' = IF told THEN packets \o Packets("captured", <<Row(v)>>) ELSE packets
  /\ guiLog' = [Muddled(Listing \/ (edt # "start" /\ ~told)) EXCEPT !.left.captures = @ - 1]
  /\ UNCHANGED <<now, link, requests, table, edt>>

\* The task of a vehicle whose grace period is over: no client is told.
GraceEnds ==
  /\ \E i \in DOMAIN server.active :
       /\ server.active[i].end <= now
       /\ server' = [active |-> Without(server.active, Vehicle(server.active[i])),
                     recent |-> Append(server.recent, server.active[i])]
  /\ guiLog' = Muddled(TRUE)
  /\ UNCHANGED <<now, link, requests, packets, table, edt>>

\* Server.start: the client's threads run before it is in the list.
Accept ==
  /\ \/ link.server = "backlog" /\ link' = [link EXCEPT !.server = "reading"]
     \/ link.server = "reading" /\ link' = [link EXCEPT !.server = "listed"]
  /\ UNCHANGED <<now, server, requests, packets, table, edt, guiLog>>

\* In whatever order the database finds them: the query asks for none.
Violations(v) ==
  LET found == SetToSeq({i \in DOMAIN server.recent : Vehicle(server.recent[i]) = v})
  IN  [k \in DOMAIN found |-> server.recent[found[k]]]
Answer(request) ==
  CASE request = "active" -> Packets("active", server.active)
    [] request = "recent" -> Packets("recent", server.recent)
    [] OTHER -> Packets("search", Violations(request))

\* One packet for each row, in the order of the list, which is locked meanwhile.
AnswerRequest ==
  /\ link.server \in {"reading", "listed"} /\ requests # <<>>
  /\ requests' = Tail(requests)
  /\ packets' = packets \o Answer(Head(requests))
  /\ guiLog' = Muddled(/\ Head(requests) = "active"
                       /\ table.pending # <<>> \/ Flying("captured") \/ Flying("active"))
  /\ UNCHANGED <<now, server, link, table, edt>>

-----------------------------------------------------------------------------
(* The tables *)

\* RecentVehicleDataModel.addRow: at the cap, the row that goes is the first
\* that equals the last.
AddRecent(rows, row) ==
  <<row>> \o IF Len(rows) >= RecentRows THEN Without(rows, Vehicle(rows[Len(rows)])) ELSE rows

AddPending(t, row) == [t EXCEPT !.pending = Append(@, row)]
\* PendingVehicleDataModel.removeRow: what leaves goes to the other table.
RemovePending(t, row) ==
  [t EXCEPT !.pending = Without(@, Vehicle(row)), !.recent = AddRecent(@, row)]

\* (Fault: a photograph always adds a row.)
AddAlways(t, packet) == AddPending(t, packet.row)
\* MainForm.onPacketReceived, run by the event thread.
Shown(t, packet) ==
  CASE packet.command = "captured" -> IF In(Vehicle(packet.row), t.pending)
                                      THEN RemovePending(t, packet.row)
                                      ELSE AddPending(t, packet.row)
    [] packet.command = "active" -> AddPending(t, packet.row)
    [] packet.command = "search" -> [t EXCEPT !.search = <<packet.row>> \o @]
    [] packet.command = "recent" -> [t EXCEPT !.recent = AddRecent(@, packet.row)]

-----------------------------------------------------------------------------
(* The reader and its pool *)

\* Any thread of the pool may be the first to be done with its packet, which
\* the event thread then handles when it is idle.  While the form has not
\* registered as a listener nobody gets it.
Listening == edt \notin {"start", "opening"}
Busy == IF Len(packets) < Threads THEN DOMAIN packets ELSE 1..Threads
onMessage(i) ==
  /\ packets' = RemoveAt(packets, i)
  /\ \/ ~Listening /\ guiLog' = Muddled(TRUE) /\ UNCHANGED table
     \/ edt = "idle" /\ table' = Shown(table, packets[i]) /\ UNCHANGED guiLog
  /\ UNCHANGED <<now, server, link, requests, edt>>

\* (Fault: the timer looks for a row that ends at this very moment.)
OverNow(row) == row.end = now
Over(row) == row.end <= now
\* Every 250 ms, the first row only.
TimerFires ==
  /\ edt = "idle" /\ table.pending # <<>> /\ Over(Head(table.pending))
  /\ table' = [table EXCEPT !.pending = Tail(@), !.recent = AddRecent(@, Head(table.pending))]
  /\ guiLog' = Muddled(TRUE)
  /\ UNCHANGED <<now, server, link, requests, packets, edt>>

-----------------------------------------------------------------------------
(* The window, its buttons and the settings *)

\* A request is queued at the client there is: without one it is not sent,
\* and the queue of a client that was closed is never emptied.
Requested(commands) == IF link.client = "open" THEN requests \o commands ELSE requests

\* new Client(ip, port): it connects, or the client stays what it was.
Connects(made) ==
  IF made THEN link' = [client |-> "open", server |-> "backlog"] ELSE UNCHANGED link

\* formWindowOpened: the connection is made before the form is a listener.
OpenWindow ==
  /\ edt = "start" /\ edt' = "opening"
  /\ \E made \in BOOLEAN : Connects(made) /\ guiLog' = Muddled(~made)
  /\ UNCHANGED <<now, server, requests, packets, table>>

RegisterAndRequest ==
  /\ edt = "opening" /\ edt' = "idle"
  /\ requests' = Requested(<<"active", "recent">>)
  /\ UNCHANGED <<now, server, link, packets, table, guiLog>>

Click == edt = "idle" /\ guiLog.left.clicks > 0
Clicked == [guiLog EXCEPT !.left.clicks = @ - 1]

\* The table is emptied and asked for.  With nothing under way, it and the
\* server then agree again.
RefreshPending ==
  /\ Click
  /\ table' = [table EXCEPT !.pending = <<>>] /\ requests' = Requested(<<"active">>)
  /\ guiLog' = [Clicked EXCEPT !.muddled = ~(Quiet /\ Attached)]
  /\ UNCHANGED <<now, server, link, packets, edt>>

RefreshRecent ==
  /\ Click
  /\ table' = [table EXCEPT !.recent = <<>>] /\ requests' = Requested(<<"recent">>)
  /\ guiLog' = Clicked
  /\ UNCHANGED <<now, server, link, packets, edt>>

Search(v) ==
  /\ Click
  /\ table' = [table EXCEPT !.search = <<>>] /\ requests' = Requested(<<v>>)
  /\ guiLog' = Clicked
  /\ UNCHANGED <<now, server, link, packets, edt>>

\* The dialog disconnects, which sleeps for a second in the event thread and
\* loses the packets that are not read ...
SettingsOk ==
  /\ edt = "idle" /\ guiLog.left.settings > 0
  /\ edt' = IF link.client = "null" THEN "closed" ELSE "disconnecting"
  /\ guiLog' = [Muddled(TRUE) EXCEPT !.left.settings = @ - 1]
  /\ UNCHANGED <<now, server, link, requests, packets, table>>
Disconnected ==
  /\ edt = "disconnecting" /\ edt' = "closed"
  /\ link' = [client |-> "closed", server |-> "none"]
  /\ requests' = <<>> /\ \E read \in 0..Len(packets) : packets' = SubSeq(packets, 1, read)
  /\ UNCHANGED <<now, server, table, guiLog>>
\* ... and connects again, with what the old connection left still in the
\* tables, the pool and the event queue.
Reconnect ==
  /\ edt = "closed" /\ edt' = "idle"
  /\ \E made \in BOOLEAN :
       /\ Connects(made)
       /\ requests' = IF made THEN <<"active", "recent">> ELSE <<>>
  /\ UNCHANGED <<now, server, packets, table, guiLog>>

-----------------------------------------------------------------------------
Tick == /\ now < MaxNow + Grace /\ now' = now + 1
        /\ UNCHANGED <<server, link, requests, packets, table, edt, guiLog>>

EventThread == TimerFires \/ OpenWindow \/ RegisterAndRequest \/ Disconnected \/ Reconnect
Buttons == RefreshPending \/ RefreshRecent \/ (\E v \in guiLog.left.vehicles : Search(v)) \/ SettingsOk
PoolThread == \E i \in Busy : onMessage(i)
Network == Accept \/ AnswerRequest

GuiNext == \/ EventThread \/ Buttons \/ PoolThread \/ Network
           \/ (\E v \in guiLog.left.vehicles : processReceivedData(v)) \/ GraceEnds \/ Tick

\* The threads of the GUI and of the server run, and the clock goes on.  The
\* timer is not starved by the events, nor they by it, as both wait in one queue.
GuiSpec == /\ GuiInit /\ [][GuiNext]_guiVars
           /\ WF_guiVars(Tick) /\ WF_guiVars(Network) /\ WF_guiVars(PoolThread)
           /\ WF_guiVars(TimerFires)
           /\ WF_guiVars(OpenWindow \/ RegisterAndRequest \/ Disconnected \/ Reconnect)

-----------------------------------------------------------------------------
\* However the pool reorders the photographs of a vehicle, the table shows what
\* is active once all packets are handled, each vehicle once: the rule of
\* onPacketReceived (MainForm.java:475) commutes.  That needs what `muddled'
\* excludes: a photograph while a listing is under way or that the client is not
\* told of (it is not in the server's list, or the broadcast is cut short, see
\* processReceivedData), a listing added to rows or photographs that came before
\* it, and grace periods that end, at one side or the other.  A refresh with
\* nothing under way makes up for all of it.
TogglesCommute ==
  Quiet /\ ~guiLog.muddled /\ edt = "idle" =>
    /\ {Vehicle(table.pending[i]) : i \in DOMAIN table.pending} =
       {Vehicle(server.active[i]) : i \in DOMAIN server.active}
    /\ Len(table.pending) = Len(server.active)

\* The timer looks at the first row only (PendingVehicleDataModel.java:44), and
\* rows come in any order, twice, or after their time; still each of them leaves
\* the pending table in the end.
PendingRowsEnd == <>[](table.pending = <<>>)

\* A vehicle that is photographed again in time leaves "the list without
\* violation" (MainForm.java:481): what the table of recent violations shows has
\* stayed longer than its grace period.
RecentAreViolations == \A i \in DOMAIN table.recent : table.recent[i].end <= now
=============================================================================
