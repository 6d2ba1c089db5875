---------------------------- MODULE MotionProcess ----------------------------
(***************************************************************************)
(* The motion process: main with its watchdog, the detection threads seen  *)
(* from outside, the control interface of webhttpd.c and the signals.      *)
(*                                                                         *)
(* Context 0 is the one of motion.conf; with thread files the threads have *)
(* contexts 1 .. N, without them context 0 is the one thread.  A thread    *)
(* may hang in a call of its camera, and one that was cancelled runs on    *)
(* until it meets a cancellation point.  Time is bound to the threads in   *)
(* two places: a second is enough for a new thread to set `running', and   *)
(* only a thread that hangs lets its watchdog run down.  The stores of the *)
(* signal handler are one step.                                            *)
(***************************************************************************)
EXTENDS Integers, FiniteSets

CONSTANTS
  N,              \* thread files named in motion.conf
  Slots,          \* identities of detection threads, used again
  WATCHDOG_TMO, WATCHDOG_KILL, WATCHDOG_OFF,   \* 30, -60 and -127
  Signals,        \* signals that may arrive
  Requests,       \* commands of the control interface in use
  MaxSignals,     \* bound: signals in a behaviour
  MaxRequests,    \* bound: requests in a behaviour
  MaxFaults       \* bound: hangs, failing starts and breaks in a behaviour

ASSUME ProcessAssumption ==
  /\ N \in Nat /\ Slots \subseteq Nat /\ {WATCHDOG_TMO, MaxSignals, MaxRequests, MaxFaults} \subseteq Nat
  /\ {WATCHDOG_KILL, WATCHDOG_OFF} \subseteq Int
  /\ WATCHDOG_TMO > 1 /\ WATCHDOG_KILL < 0 /\ WATCHDOG_OFF < WATCHDOG_KILL
  /\ Signals \subseteq {"SIGALRM", "SIGUSR1", "SIGHUP", "SIGTERM"}
  /\ Requests \subseteq {"makemovie", "snapshot", "restart", "quit", "start", "pause"}

VARIABLES
  main,             \* where main is, and the context it is at
  finish, restart,  \* the two global flags
  threads_running,
  cnt,              \* cnt_list: a context per index, or <<>> when NULL
  threads,          \* the detection threads
  web,              \* the control thread, and the cnt_list it was given
  log               \* history and bounds

processVars == <<main, finish, restart, threads_running, cnt, threads, web, log>>

-----------------------------------------------------------------------------
Contexts == 0 .. N
First == IF N > 0 THEN 1 ELSE 0
Detectors == First .. N
NullList == <<>>

\* context_init: memset, and what the configuration adds.
NewContext ==
  [running |-> FALSE, restart |-> FALSE, finish |-> FALSE, makemovie |-> FALSE,
   snapshot |-> FALSE, pause |-> FALSE, watchdog |-> 0, thread_id |-> 0]

Gone == [of |-> 0, pc |-> "gone", hangs |-> FALSE, cancelled |-> FALSE]
Live(t) == threads[t].pc # "gone"
Free == {t \in Slots : ~Live(t)}

ProcessInit ==
  /\ main = [pc |-> "start", at |-> First]
  /\ finish = FALSE /\ restart = FALSE /\ threads_running = 0
  /\ cnt = [c \in Contexts |-> NewContext]
  /\ threads = [t \in Slots |-> Gone]
  /\ web = [pc |-> "none", list |-> 0]
  /\ log = [list |-> 0, signals |-> 0, requests |-> 0, faults |-> 0,
            quit |-> FALSE, again |-> FALSE, off |-> FALSE, late |-> FALSE]

May(bound) == CASE bound = "fault"   -> log.faults < MaxFaults
                [] bound = "signal"  -> log.signals < MaxSignals
                [] bound = "request" -> log.requests < MaxRequests
Fault == log' = [log EXCEPT !.faults = @ + 1]

-----------------------------------------------------------------------------
(* A detection thread *)

At(t, pc) == threads[t].pc = pc /\ ~threads[t].hangs
Goto(t, pc) == threads' = [threads EXCEPT ![t].pc = pc]
Mine(t) == cnt # NullList /\ threads[t].of \in DOMAIN cnt
Context(t) == cnt[threads[t].of]
ThreadFrame == UNCHANGED <<main, finish, restart, web>>

\* The first lines of motion_loop.
Begin(t) ==
  /\ At(t, "created") /\ Mine(t) /\ Goto(t, "init")
  /\ cnt' = [cnt EXCEPT ![threads[t].of].running = TRUE]
  /\ ThreadFrame /\ UNCHANGED <<threads_running, log>>

\* motion_init: any movie asked for is forgotten; finish is set when the port
\* of the stream server is taken.
Initialised(t) ==
  /\ At(t, "init") /\ Mine(t) /\ Goto(t, "top")
  /\ \E taken \in {FALSE, May("fault")} :
       /\ cnt' = [cnt EXCEPT ![threads[t].of].makemovie = FALSE,
                             ![threads[t].of].finish = @ \/ taken]
       /\ IF taken THEN Fault ELSE UNCHANGED log
  /\ ThreadFrame /\ UNCHANGED threads_running

InitFails(t) ==
  /\ At(t, "init") /\ Goto(t, "left") /\ May("fault") /\ Fault
  /\ ThreadFrame /\ UNCHANGED <<threads_running, cnt>>

Looping(t) == ~Context(t).finish \/ Context(t).makemovie

\* One pass of the loop.  The event, if one is asked to end, ends.  A whole
\* pass has a cancellation point.
Passes(t) == At(t, "top") /\ Mine(t) /\ Looping(t) /\ ~threads[t].cancelled
Iterate(t) ==
  /\ Passes(t)
  /\ cnt' = [cnt EXCEPT ![threads[t].of].watchdog = WATCHDOG_TMO,
                        ![threads[t].of].makemovie = FALSE,
                        ![threads[t].of].snapshot = FALSE]
  /\ ThreadFrame /\ UNCHANGED <<threads_running, threads, log>>

\* The camera has, or wants, another size.
Break(t) ==
  /\ Passes(t) /\ Goto(t, "left") /\ May("fault") /\ Fault
  /\ cnt' = [cnt EXCEPT ![threads[t].of].watchdog = WATCHDOG_TMO]
  /\ ThreadFrame /\ UNCHANGED threads_running

\* vid_start, vid_next or vid_close does not come back, or does after all.
Hang(t) ==
  /\ At(t, "init") \/ Passes(t) \/ At(t, "left")
  /\ May("fault") /\ Fault
  /\ threads' = [threads EXCEPT ![t].hangs = TRUE]
  /\ cnt' = IF Passes(t) THEN [cnt EXCEPT ![threads[t].of].watchdog = WATCHDOG_TMO] ELSE cnt
  /\ ThreadFrame /\ UNCHANGED threads_running
Unhang(t) ==
  /\ threads[t].hangs
  /\ threads' = [threads EXCEPT ![t].hangs = FALSE]
  /\ ThreadFrame /\ UNCHANGED <<threads_running, cnt, log>>

LoopEnds(t) ==
  /\ At(t, "top") /\ Mine(t) /\ ~Looping(t) /\ Goto(t, "left")
  /\ ThreadFrame /\ UNCHANGED <<threads_running, cnt, log>>

\* err: motion_cleanup, and the count under its lock.
Uncount(t) ==
  /\ At(t, "left") /\ Goto(t, "uncounted")
  /\ threads_running' = threads_running - 1
  /\ log' = [log EXCEPT !.late = @ \/ threads[t].cancelled]
  /\ ThreadFrame /\ UNCHANGED cnt

Exit(t) ==
  /\ At(t, "uncounted") /\ Mine(t)
  /\ cnt' = [cnt EXCEPT ![threads[t].of].watchdog =
                           IF Context(t).restart THEN Context(t).watchdog ELSE WATCHDOG_OFF,
                         ![threads[t].of].running = FALSE,
                         ![threads[t].of].finish = FALSE]
  /\ threads' = [threads EXCEPT ![t] = Gone]
  /\ ThreadFrame /\ UNCHANGED <<threads_running, log>>

\* pthread_cancel takes effect at the next cancellation point, if there is one.
Cancelled(t) ==
  /\ Live(t) /\ threads[t].cancelled
  /\ threads' = [threads EXCEPT ![t] = Gone]
  /\ ThreadFrame /\ UNCHANGED <<threads_running, cnt, log>>

Thread(t) == \/ Begin(t) \/ Initialised(t) \/ InitFails(t) \/ Iterate(t) \/ Break(t)
             \/ LoopEnds(t) \/ Uncount(t) \/ Exit(t)

-----------------------------------------------------------------------------
(* main *)

MainFrame == UNCHANGED <<finish, restart, web>>
Step(pc) == main' = [main EXCEPT !.pc = pc]
\* To the next context of the list, or on to `pc' after the last.
NextContext(pc, last) ==
  main' = IF main.at < N THEN [pc |-> pc, at |-> main.at + 1]
                         ELSE [pc |-> last, at |-> First]

\* start_motion_thread; the check of the stream ports is left out.
Started(c) ==
  \E t \in Free :
    /\ \A u \in Free : t <= u
    /\ threads_running' = threads_running + 1
    /\ cnt' = [cnt EXCEPT ![c].restart = TRUE, ![c].watchdog = WATCHDOG_TMO,
                          ![c].thread_id = t]
    /\ threads' = [threads EXCEPT ![t] = [of |-> c, pc |-> "created", hangs |-> FALSE,
                                                 cancelled |-> FALSE]]

StartThreads ==
  /\ main.pc = "start" /\ Started(main.at) /\ NextContext("start", "web")
  /\ MainFrame /\ UNCHANGED log

\* pthread_create of motion_web_control.  httpd_run gives up when the control
\* thread of an earlier list still holds the port.
StartWeb ==
  /\ main.pc = "web" /\ Step("sleep")
  /\ web' = IF web.pc = "run" THEN web ELSE [pc |-> "run", list |-> log.list]
  /\ UNCHANGED <<finish, restart, threads_running, cnt, threads, log>>

motion_threads_running ==
  Cardinality({c \in Detectors : cnt[c].running \/ cnt[c].restart})

\* A second may pass for the thread.
Prompt(t) ==
  /\ ~At(t, "created")
  /\ Live(t) /\ ~threads[t].hangs /\ ~threads[t].cancelled =>
       Context(t).watchdog \notin {1, WATCHDOG_KILL + 1}

\* A second later: count, and break out when nothing runs or wants to.
Wake ==
  /\ main.pc = "sleep" /\ \A t \in Slots : Prompt(t)
  /\ IF motion_threads_running = 0 /\ (finish \/ threads_running = 0)
     THEN Step(IF restart THEN "rest" ELSE "end") /\ finish' = FALSE
     ELSE Step("check") /\ UNCHANGED finish
  /\ UNCHANGED <<restart, threads_running, cnt, threads, web, log>>

\* (Fault: a thread that wants to be restarted is, although it still runs.)
WantsRestartAlways(c) == cnt[c].restart
WantsRestart(c) == ~cnt[c].running /\ cnt[c].restart

CheckRestart ==
  /\ main.pc = "check" /\ Step("watch")
  /\ IF WantsRestart(main.at) THEN Started(main.at)
     ELSE UNCHANGED <<threads_running, cnt, threads>>
  /\ MainFrame /\ UNCHANGED log

\* The thread the watchdog is about to kill is gone, or going by itself; its
\* identity may be that of a newer thread.
Stale(c) == LET t == cnt[c].thread_id IN threads[t].of # c \/ ~Live(t) \/ At(t, "uncounted")

\* pthread_cancel, the count, motion_cleanup; `restart' stays as it was.
Kill(c, watchdog) ==
  LET t == cnt[c].thread_id IN
  /\ threads' = [threads EXCEPT ![t].cancelled = Live(t)]
  /\ threads_running' = threads_running - 1
  /\ cnt' = [cnt EXCEPT ![c].watchdog = watchdog, ![c].running = FALSE, ![c].finish = FALSE]
  /\ log' = [log EXCEPT !.late = @ \/ Stale(c)]

\* (Fault: the watchdog stops at zero.)
WatchNoFurther ==
  LET c == main.at
      watchdog == cnt[c].watchdog - 1
  IN /\ main.pc = "watch" /\ NextContext("check", "sleep") /\ MainFrame
     /\ IF watchdog >= 0
        THEN cnt' = [cnt EXCEPT ![c].watchdog = watchdog, ![c].finish = @ \/ watchdog = 0]
        ELSE UNCHANGED cnt
     /\ UNCHANGED <<threads_running, threads, log>>
Watch ==
  LET c == main.at
      watchdog == cnt[c].watchdog - 1
  IN /\ main.pc = "watch" /\ NextContext("check", "sleep") /\ MainFrame
     /\ IF cnt[c].watchdog <= WATCHDOG_OFF
        THEN UNCHANGED <<cnt, threads, threads_running, log>>
        ELSE IF watchdog = WATCHDOG_KILL THEN Kill(c, watchdog)
        ELSE /\ cnt' = [cnt EXCEPT ![c].watchdog = watchdog,
                                   ![c].finish = @ \/ watchdog = 0]
             /\ UNCHANGED <<threads, threads_running, log>>

\* motion_shutdown, the cameras rest, motion_startup reads the files again.
Shutdown ==
  /\ main.pc = "rest" /\ Step("down")
  /\ cnt' = NullList /\ restart' = FALSE
  /\ UNCHANGED <<finish, threads_running, threads, web, log>>
Startup ==
  /\ main.pc = "down" /\ Step("start")
  /\ cnt' = [c \in Contexts |-> NewContext]
  /\ log' = [log EXCEPT !.list = @ + 1]
  /\ UNCHANGED <<finish, restart, threads_running, threads, web>>

\* "Be sure that http control exits fine"; a second later the process ends.
End ==
  /\ main.pc = "end" /\ Step("ending")
  /\ cnt' = [cnt EXCEPT ![0].finish = TRUE]
  /\ UNCHANGED <<finish, restart, threads_running, threads, web, log>>
Ended ==
  /\ main.pc = "ending" /\ Step("done")
  /\ cnt' = NullList /\ threads' = [t \in Slots |-> Gone] /\ web' = [web EXCEPT !.pc = "none"]
  /\ UNCHANGED <<finish, restart, threads_running, log>>

Main == \/ StartThreads \/ StartWeb \/ Wake \/ CheckRestart \/ Watch
        \/ Shutdown \/ Startup \/ End \/ Ended

-----------------------------------------------------------------------------
(* Signals *)

\* (Fault: the threads are left to be restarted.)
ToldToFinish(c) == [c EXCEPT !.makemovie = TRUE, !.finish = TRUE]
\* Every context is told, and the process; with no list only the process is.
Told(c) == [c EXCEPT !.makemovie = TRUE, !.finish = TRUE, !.restart = FALSE]

sig_handler(signo) ==
  /\ cnt' = IF cnt = NullList THEN cnt
            ELSE CASE signo = "SIGALRM" -> [c \in Contexts |-> [cnt[c] EXCEPT !.snapshot = TRUE]]
                   [] signo = "SIGUSR1" -> [c \in Contexts |-> [cnt[c] EXCEPT !.makemovie = TRUE]]
                   [] OTHER             -> [c \in Contexts |-> Told(cnt[c])]
  /\ finish' = (finish \/ signo \in {"SIGHUP", "SIGTERM"})
  /\ restart' = (restart \/ signo = "SIGHUP")

\* A quit that reaches a process that only waits.
Plain(signo) == signo = "SIGTERM" /\ main.pc = "sleep" /\ ~restart

Noted(entry, signo) ==
  [entry EXCEPT !.quit = @ \/ Plain(signo),
                !.again = @ \/ (log.quit /\ signo = "SIGHUP")]

Signal(signo) ==
  /\ main.pc # "done" /\ May("signal") /\ sig_handler(signo)
  /\ log' = Noted([log EXCEPT !.signals = @ + 1], signo)
  /\ UNCHANGED <<main, threads_running, threads, web>>

-----------------------------------------------------------------------------
(* The control interface *)

\* Thread 0 stands for all the contexts after the first, or for all of them.
Rest(thread) == IF thread = 0 THEN 1 .. N ELSE {thread}
All(thread) == IF thread = 0 THEN Contexts ELSE {thread}
Every(set, change(_)) == cnt' = [c \in Contexts |-> IF c \in set THEN change(cnt[c]) ELSE cnt[c]]

MakeMovie(c) == [c EXCEPT !.makemovie = TRUE]
Snapshot(c) == [c EXCEPT !.snapshot = TRUE]
RestartThread(c) == [c EXCEPT !.restart = TRUE, !.makemovie = @ \/ c.running,
                              !.finish = @ \/ c.running]
QuitThread(c) == [c EXCEPT !.restart = FALSE, !.makemovie = TRUE, !.finish = TRUE,
                           !.watchdog = WATCHDOG_OFF]
Active(c) == [c EXCEPT !.pause = FALSE]
Paused(c) == [c EXCEPT !.pause = TRUE]

Served == web.pc = "run" /\ web.list = log.list /\ cnt # NullList /\ May("request")
Counted(entry) == [entry EXCEPT !.requests = @ + 1]
WebFrame == UNCHANGED <<main, finish, restart, threads_running, threads, web>>

\* action/makemovie, action/snapshot, detection/start, detection/pause.
Ask(thread, request) ==
  /\ Served /\ log' = Counted(log) /\ WebFrame
  /\ CASE request = "makemovie" -> Every(Rest(thread), MakeMovie)
       [] request = "snapshot"  -> Every(Rest(thread) \cup {thread}, Snapshot)
       [] request = "start"     -> Every(All(thread), Active)
       [] request = "pause"     -> Every(All(thread), Paused)

\* action/restart and action/quit of one thread.
AskRestart(thread) ==
  /\ Served /\ thread > 0 /\ WebFrame /\ Every({thread}, RestartThread)
  /\ log' = Counted([log EXCEPT !.again = log.quit])
AskQuit(thread) ==
  /\ Served /\ thread > 0 /\ WebFrame /\ Every({thread}, QuitThread)
  /\ log' = Counted([log EXCEPT !.off = TRUE])

\* The same for thread 0: a signal to the process, and httpd_run returns.
AskProcess(signo) ==
  /\ Served /\ sig_handler(signo) /\ web' = [web EXCEPT !.pc = "none"]
  /\ log' = Noted(Counted(log), signo)
  /\ UNCHANGED <<main, threads_running, threads>>

\* A second without a client; a list that was freed reads as anything.
WebPoll ==
  /\ web.pc = "run" /\ web' = [web EXCEPT !.pc = "none"]
  /\ web.list = log.list /\ cnt # NullList => cnt[0].finish
  /\ UNCHANGED <<main, finish, restart, threads_running, cnt, threads, log>>

Control ==
  \/ \E thread \in Contexts :
       \/ \E request \in Requests \ {"restart", "quit"} : Ask(thread, request)
       \/ "restart" \in Requests /\ AskRestart(thread)
       \/ "quit" \in Requests /\ AskQuit(thread)
  \/ "restart" \in Requests /\ AskProcess("SIGHUP")
  \/ "quit" \in Requests /\ AskProcess("SIGTERM")
  \/ WebPoll

Outside == (\E signo \in Signals : Signal(signo)) \/ Control
ProcessNext == Main \/ Outside \/ \E t \in Slots : Thread(t) \/ Hang(t) \/ Unhang(t) \/ Cancelled(t)

\* The threads run when they can, main wakes up from its naps; a driver that
\* hangs, signals, clients and cancellation points are owed nothing.
Fairness == WF_processVars(Main) /\ \A t \in Slots : WF_processVars(Thread(t))
ProcessSpec == ProcessInit /\ [][ProcessNext]_processVars /\ Fairness

-----------------------------------------------------------------------------
(* Properties *)

\* Two threads work on one context only when the watchdog killed one of them
\* and it has not ended yet.
OneLoop ==
  ~log.late => \A t, u \in Slots : t # u /\ Live(t) /\ Live(u) /\ threads[t].of = threads[u].of
                 => threads[t].cancelled \/ threads[u].cancelled

\* A quit that reaches a waiting process ends it, unless a restart was asked for
\* later, a thread was quit by hand, which turns its watchdog off, or the kill of
\* the watchdog and the exit of the thread crossed: the later one clears the
\* flags of the thread that was started in between, and the count is wrong.
QuitEnds == log.quit ~> main.pc = "done" \/ log.again \/ log.off \/ log.late

\* A thread that hangs while its watchdog is on is replaced or told to go.
Hangs(c) == cnt # NullList /\ cnt[c].running /\ cnt[c].restart /\ threads[cnt[c].thread_id].hangs
StuckReplaced ==
  \A c \in Detectors :
    Hangs(c) ~> ~Hangs(c) \/ log.off \/ log.late
=============================================================================
