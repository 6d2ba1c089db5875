------------------------- MODULE MotionProcess_proofs -------------------------
(***************************************************************************)
(* The theorems about the threads of the motion process and the options    *)
(* they run with.  The watchdog and the restarts never give a context two  *)
(* detection threads, unless the kill of the watchdog and the exit of a    *)
(* thread crossed: for any number of contexts, thread identities, signals, *)
(* requests and faults.  The options that the control interface sets and   *)
(* writes are read again: for every set of options, files, defaults and    *)
(* any command line.                                                       *)
(***************************************************************************)
EXTENDS MotionProcess, Configuration, FiniteSetTheorems, SequenceTheorems,
        TLAPS

-----------------------------------------------------------------------------
(* The threads *)

ContextType ==
  [running : BOOLEAN, restart : BOOLEAN, finish : BOOLEAN, makemovie : BOOLEAN,
   snapshot : BOOLEAN, pause : BOOLEAN, watchdog : Int, thread_id : Slots \cup {0}]
ThreadType ==
  [of : Contexts, hangs : BOOLEAN, cancelled : BOOLEAN,
   pc : {"gone", "created", "init", "top", "left", "uncounted"}]
LogType ==
  [list : Nat, signals : Nat, requests : Nat, faults : Nat,
   quit : BOOLEAN, again : BOOLEAN, off : BOOLEAN, late : BOOLEAN]
MainSteps ==
  {"start", "web", "sleep", "check", "watch", "rest", "down", "end", "ending", "done"}

(* Where main goes through the list of contexts.                           *)
ListSteps == {"start", "check", "watch"}

(* There is a list of contexts but for the time between motion_shutdown and *)
(* motion_startup, and after the end.                                      *)
Listless == {"down", "done"}

TypeInv ==
  /\ main \in [pc : MainSteps, at : Detectors]
  /\ main.pc \notin ListSteps => main.at = First
  /\ main.pc \in Listless => cnt = NullList
  /\ main.pc \notin Listless => cnt \in [Contexts -> ContextType]
  /\ threads \in [Slots -> ThreadType]
  /\ \A t \in Slots : Live(t) => threads[t].of \in Detectors
  /\ log \in LogType

(* main knows the thread of every context it watches.                      *)
KnowsThreads ==
  \A c \in Detectors :
    \/ main.pc \in {"web", "sleep", "check", "watch"}
    \/ main.pc = "start" /\ c < main.at
    => cnt[c].thread_id \in Slots

(* A new thread sets `running' before main wakes up again, so main meets   *)
(* in its list no thread that has not, but those it has just started.      *)
NewAreBehind ==
  \A t \in Slots :
    /\ threads[t].hangs => threads[t].pc \in {"init", "top", "left"}
    /\ threads[t].pc = "created" =>
         /\ main.pc = "check" => threads[t].of < main.at
         /\ main.pc = "watch" => threads[t].of <= main.at
         /\ main.pc # "rest" /\ main.pc # "down"

Works(t) == Live(t) /\ ~threads[t].cancelled
Quiet(c) == \A t \in Slots : Works(t) => threads[t].of # c

(* As long as no kill and no exit crossed: the one thread that works for a *)
(* context is the one its `thread_id' names, and has set `running' when it *)
(* is past its first lines; and there is none where one is about to be     *)
(* started.                                                                *)
Orderly ==
  /\ \A t \in Slots : Works(t) => main.pc \notin Listless /\ cnt[threads[t].of].thread_id = t
  /\ \A t \in Slots : Works(t) /\ threads[t].pc # "created" =>
       main.pc \notin Listless /\ cnt[threads[t].of].running
  /\ \A t \in Slots : threads[t].pc = "uncounted" => ~threads[t].cancelled
  /\ main.pc \in {"rest", "down"} => \A c \in Detectors : Quiet(c)
  /\ main.pc = "start" => \A c \in Detectors : c >= main.at => Quiet(c)

LoopInv ==
  /\ TypeInv
  /\ KnowsThreads
  /\ NewAreBehind
  /\ ~log.late => Orderly
-----------------------------------------------------------------------------
LEMMA Bounds ==
  /\ N \in Nat /\ First \in Detectors /\ Detectors \subseteq Contexts
  /\ \A c \in Detectors : First <= c /\ c <= N /\ c \in Int /\ (c < N => c + 1 \in Detectors)
  /\ WATCHDOG_TMO \in Int
BY ProcessAssumption DEF Detectors, Contexts, First

(* Init.                                                                   *)
LEMMA LoopInit == ProcessInit => LoopInv
<1> SUFFICES ASSUME ProcessInit PROVE LoopInv
  OBVIOUS
<1>1. NewContext \in ContextType /\ Gone \in ThreadType
  BY Bounds DEF NewContext, ContextType, Gone, ThreadType, Contexts
<1>2. TypeInv
  BY <1>1, Bounds DEF ProcessInit, TypeInv, LogType, MainSteps, ListSteps, Listless, Live, Gone
<1>3. KnowsThreads
  <2>1. main.pc = "start" /\ main.at = First
    BY DEF ProcessInit
  <2>2. \A d \in Detectors : d \in Int /\ First \in Int /\ First <= d
    BY Bounds
  <2>3. \A d \in Detectors : ~(d < First)
    BY <2>2
  <2> QED BY <2>1, <2>3 DEF KnowsThreads
<1>4. NewAreBehind
  BY DEF ProcessInit, NewAreBehind, Gone
<1>5. Orderly
  BY DEF ProcessInit, Orderly, Works, Quiet, Live, Gone
<1>6. QED
  BY <1>2, <1>3, <1>4, <1>5 DEF LoopInv

(* A step that keeps the threads and main, what the contexts say of them,  *)
(* and the history.                                                        *)
SameContexts ==
  /\ main.pc \in Listless => cnt' = NullList
  /\ main.pc \notin Listless =>
       /\ cnt' \in [Contexts -> ContextType]
       /\ \A c \in Contexts : cnt'[c].running = cnt[c].running
                              /\ cnt'[c].thread_id = cnt[c].thread_id
LogKept == log' \in LogType /\ log'.late = log.late

LEMMA LoopFlags ==
  ASSUME LoopInv, UNCHANGED <<main, threads>>, SameContexts, LogKept
  PROVE  LoopInv'
<1>1. TypeInv'
  BY DEF LoopInv, TypeInv, SameContexts, LogKept, Live
<1>2. KnowsThreads'
  BY Bounds DEF LoopInv, KnowsThreads, SameContexts, Listless
<1>3. NewAreBehind'
  BY DEF LoopInv, NewAreBehind
<1>4. ~log'.late => Orderly'
  BY DEF LoopInv, TypeInv, LogKept, SameContexts, Orderly, Works, Quiet, Live, ThreadType
<1>5. QED
  BY <1>1, <1>2, <1>3, <1>4 DEF LoopInv

(* What a signal or a command does to a context.                           *)
SameThread(c, d) == d \in ContextType /\ d.running = c.running /\ d.thread_id = c.thread_id

LEMMA ContextFlags ==
  ASSUME NEW c \in ContextType
  PROVE  /\ SameThread(c, MakeMovie(c)) /\ SameThread(c, Snapshot(c))
         /\ SameThread(c, RestartThread(c)) /\ SameThread(c, QuitThread(c))
         /\ SameThread(c, Active(c)) /\ SameThread(c, Paused(c)) /\ SameThread(c, Told(c))
<1> USE DEF SameThread, ContextType
<1>1. SameThread(c, MakeMovie(c)) /\ SameThread(c, Snapshot(c))
  BY DEF MakeMovie, Snapshot
<1>2. SameThread(c, RestartThread(c))
  BY DEF RestartThread
<1>3. SameThread(c, QuitThread(c))
  BY ProcessAssumption DEF QuitThread
<1>4. SameThread(c, Active(c)) /\ SameThread(c, Paused(c))
  BY DEF Active, Paused
<1>5. SameThread(c, Told(c))
  BY DEF Told
<1>6. QED
  BY <1>1, <1>2, <1>3, <1>4, <1>5

SameLate(l, m) == m \in LogType /\ m.late = l.late

LEMMA LogFlags ==
  ASSUME NEW l \in LogType, NEW signo
  PROVE  /\ SameLate(l, Noted(l, signo))
         /\ SameLate(l, Counted(l))
         /\ SameLate(l, [l EXCEPT !.signals = @ + 1])
         /\ SameLate(l, [l EXCEPT !.off = TRUE])
         /\ log \in LogType => SameLate(l, [l EXCEPT !.again = log.quit])
<1> USE DEF SameLate, LogType
<1>1. SameLate(l, Noted(l, signo))
  BY DEF Noted
<1>2. SameLate(l, Counted(l))
  BY DEF Counted
<1>3. SameLate(l, [l EXCEPT !.signals = @ + 1])
  OBVIOUS
<1>4. SameLate(l, [l EXCEPT !.off = TRUE])
  OBVIOUS
<1>5. log \in LogType => SameLate(l, [l EXCEPT !.again = log.quit])
  OBVIOUS
<1>6. QED
  BY <1>1, <1>2, <1>3, <1>4, <1>5

(* Signals and the control interface only set flags.                       *)
LEMMA LoopOutside ==
  ASSUME LoopInv, Outside
  PROVE  LoopInv'
<1>1. /\ main.pc \in Listless => cnt = NullList
      /\ main.pc \notin Listless => cnt \in [Contexts -> ContextType]
      /\ log \in LogType
  BY DEF LoopInv, TypeInv, LogType
<1>2. ASSUME NEW signo, sig_handler(signo) PROVE SameContexts
  <2>1. CASE cnt = NullList
    BY <1>1, <1>2, <2>1 DEF sig_handler, SameContexts
  <2>2. CASE cnt # NullList /\ signo = "SIGALRM"
    BY <1>1, <1>2, <2>2, ContextFlags DEF sig_handler, SameContexts, SameThread, Snapshot
  <2>3. CASE cnt # NullList /\ signo = "SIGUSR1"
    BY <1>1, <1>2, <2>3, ContextFlags DEF sig_handler, SameContexts, SameThread, MakeMovie
  <2>4. CASE cnt # NullList /\ signo \notin {"SIGALRM", "SIGUSR1"}
    BY <1>1, <1>2, <2>4, ContextFlags DEF sig_handler, SameContexts, SameThread
  <2>5. QED
    BY <2>1, <2>2, <2>3, <2>4
<1>3. ASSUME NEW signo, Signal(signo)
      PROVE  UNCHANGED <<main, threads>> /\ SameContexts /\ LogKept
  <2>1. SameLate(log, log')
    BY <1>1, <1>3, LogFlags DEF Signal, SameLate
  <2>2. QED
    BY <1>2, <1>3, <2>1 DEF Signal, SameLate, LogKept, LogType
<1>4. ASSUME NEW signo, AskProcess(signo)
      PROVE  UNCHANGED <<main, threads>> /\ SameContexts /\ LogKept
  <2>1. SameLate(log, log')
    BY <1>1, <1>4, LogFlags DEF AskProcess, SameLate
  <2>2. QED
    BY <1>2, <1>4, <2>1 DEF AskProcess, SameLate, LogKept, LogType
<1>5. ASSUME NEW thread, NEW request, Ask(thread, request),
             request \in {"makemovie", "snapshot", "start", "pause"}
      PROVE  UNCHANGED <<main, threads>> /\ SameContexts /\ LogKept
  <2>1. SameLate(log, log')
    BY <1>1, <1>5, LogFlags DEF Ask, SameLate
  <2>2. SameContexts
    <3>1. \E set :
            \/ cnt' = [c \in Contexts |-> IF c \in set THEN MakeMovie(cnt[c]) ELSE cnt[c]]
            \/ cnt' = [c \in Contexts |-> IF c \in set THEN Snapshot(cnt[c]) ELSE cnt[c]]
            \/ cnt' = [c \in Contexts |-> IF c \in set THEN Active(cnt[c]) ELSE cnt[c]]
            \/ cnt' = [c \in Contexts |-> IF c \in set THEN Paused(cnt[c]) ELSE cnt[c]]
      <4>1. CASE request = "makemovie"
        BY <1>5, <4>1 DEF Ask, Every
      <4>2. CASE request = "snapshot"
        BY <1>5, <4>2 DEF Ask, Every
      <4>3. CASE request = "start"
        BY <1>5, <4>3 DEF Ask, Every
      <4>4. CASE request = "pause"
        BY <1>5, <4>4 DEF Ask, Every
      <4>5. QED
        BY <1>5, <4>1, <4>2, <4>3, <4>4
    <3>2. QED
      BY <1>1, <1>5, <3>1, ContextFlags DEF Ask, Served, SameContexts, SameThread
  <2>3. QED
    BY <1>5, <2>1, <2>2 DEF Ask, WebFrame, SameLate, LogKept, LogType
<1>6. ASSUME NEW thread, AskRestart(thread) \/ AskQuit(thread)
      PROVE  UNCHANGED <<main, threads>> /\ SameContexts /\ LogKept
  <2>1. SameLate(log, log')
    BY <1>1, <1>6, LogFlags DEF AskRestart, AskQuit, SameLate
  <2>2. SameContexts
    BY <1>1, <1>6, ContextFlags DEF AskRestart, AskQuit, Served, Every, SameContexts, SameThread
  <2>3. QED
    BY <1>6, <2>1, <2>2 DEF AskRestart, AskQuit, WebFrame, SameLate, LogKept, LogType
<1>7. ASSUME WebPoll PROVE UNCHANGED <<main, threads>> /\ SameContexts /\ LogKept
  BY <1>1, <1>7 DEF WebPoll, SameContexts, LogKept, LogType
<1>8. UNCHANGED <<main, threads>> /\ SameContexts /\ LogKept
  BY <1>3, <1>4, <1>5, <1>6, <1>7, ProcessAssumption DEF Outside, Control
<1>9. QED
  BY <1>8, LoopFlags
-----------------------------------------------------------------------------
(* What the steps of one thread have in common: it goes on, or is gone, as *)
(* the thread of its context, and touches no other context.                *)
LEMMA LoopThreadMoves ==
  ASSUME LoopInv, NEW t \in Slots, NEW r \in ThreadType, UNCHANGED main, Live(t),
         threads' = [threads EXCEPT ![t] = r],
         r.pc # "gone" => r.of = threads[t].of /\ r.cancelled = threads[t].cancelled,
         r.pc # "created",
         r.hangs => r.pc \in {"init", "top", "left"},
         main.pc \in Listless => cnt' = NullList,
         main.pc \notin Listless =>
           /\ cnt' \in [Contexts -> ContextType]
           /\ \A c \in Contexts :
                /\ cnt'[c].thread_id = cnt[c].thread_id
                /\ \/ cnt'[c].running = cnt[c].running
                   \/ /\ c = threads[t].of
                      /\ cnt'[c].running \/ (r.pc = "gone" /\ (Works(t) \/ log'.late)),
         threads[t].pc = "created" /\ r.pc # "gone" =>
           main.pc \notin Listless /\ cnt'[threads[t].of].running,
         r.pc # "gone" /\ cnt' # cnt => main.pc \notin Listless /\
           (cnt[threads[t].of].running => cnt'[threads[t].of].running),
         r.pc = "uncounted" /\ r.cancelled => log'.late,
         log' \in LogType, log.late => log'.late
  PROVE  LoopInv'
<1>1. TypeInv'
  BY DEF LoopInv, TypeInv, Live
<1>2. KnowsThreads'
  BY Bounds DEF LoopInv, KnowsThreads, Listless
<1>3. NewAreBehind'
  BY DEF LoopInv, TypeInv, NewAreBehind, ThreadType
<1>4. ASSUME ~log'.late PROVE Orderly'
  <2>1. Orderly
    BY <1>4 DEF LoopInv
  <2>2. threads'[t] = r /\ \A u \in Slots : u # t => threads'[u] = threads[u]
    BY DEF LoopInv, TypeInv
  <2>3. \A u \in Slots : Works(u)' => Works(u) /\ threads'[u].of = threads[u].of
    BY <2>2 DEF Works, Live
  <2>4. \A u \in Slots : Works(u)' => main.pc \notin Listless /\ cnt'[threads'[u].of].thread_id = u
    BY <2>1, <2>3 DEF Orderly, LoopInv, TypeInv, ThreadType
  <2>5. ASSUME NEW u \in Slots, Works(u)', threads'[u].pc # "created"
        PROVE  main'.pc \notin Listless /\ cnt'[threads'[u].of].running
    <3>1. CASE u # t
      <4>1. Works(u) /\ threads[u].pc # "created" /\ threads[u].of \in Contexts
            /\ threads'[u].of = threads[u].of
        BY <2>2, <2>3, <2>5, <3>1 DEF LoopInv, TypeInv, ThreadType
      <4>2. main.pc \notin Listless /\ cnt[threads[u].of].running
        BY <2>1, <4>1 DEF Orderly
      <4>3. Works(t) => threads[t].of # threads[u].of
        BY <2>1, <3>1, <4>1 DEF Orderly
      <4>4. QED
        BY <1>4, <4>1, <4>2, <4>3
    <3>2. CASE u = t
      <4>1. r.pc # "gone" /\ Works(t) /\ threads'[u].of = threads[t].of
            /\ threads[t].of \in Contexts
        BY <2>2, <2>3, <2>5, <3>2 DEF Works, Live, LoopInv, TypeInv, ThreadType
      <4>2. threads[t].pc # "created" => main.pc \notin Listless /\ cnt[threads[t].of].running
        BY <2>1, <4>1 DEF Orderly
      <4>3. QED
        BY <4>1, <4>2
    <3>3. QED
      BY <3>1, <3>2
  <2>6. \A u \in Slots : threads'[u].pc = "uncounted" => ~threads'[u].cancelled
    BY <1>4, <2>1, <2>2 DEF Orderly
  <2>7. \A c : Quiet(c) => Quiet(c)'
    BY <2>3 DEF Quiet
  <2>8. QED
    BY <2>1, <2>4, <2>5, <2>6, <2>7 DEF Orderly
<1>5. QED
  BY <1>1, <1>2, <1>3, <1>4 DEF LoopInv

(* What the steps of threads and of main do to one context of the list.    *)
Only(c) ==
  /\ cnt' \in [Contexts -> ContextType]
  /\ \A d \in Contexts : d # c => cnt'[d] = cnt[d]

LEMMA ContextSteps ==
  ASSUME cnt \in [Contexts -> ContextType], NEW c \in Contexts
  PROVE  /\ cnt' = [cnt EXCEPT ![c].running = TRUE]
             => Only(c) /\ cnt'[c].running /\ cnt'[c].thread_id = cnt[c].thread_id
         /\ \A b \in BOOLEAN : cnt' = [cnt EXCEPT ![c].makemovie = FALSE, ![c].finish = @ \/ b]
             => Only(c) /\ cnt'[c].running = cnt[c].running /\ cnt'[c].thread_id = cnt[c].thread_id
         /\ \A w \in Int : cnt' = [cnt EXCEPT ![c].watchdog = w, ![c].makemovie = FALSE, ![c].snapshot = FALSE]
             => Only(c) /\ cnt'[c].running = cnt[c].running /\ cnt'[c].thread_id = cnt[c].thread_id
         /\ \A w \in Int : cnt' = [cnt EXCEPT ![c].watchdog = w]
             => Only(c) /\ cnt'[c].running = cnt[c].running /\ cnt'[c].thread_id = cnt[c].thread_id
         /\ \A w \in Int, b \in BOOLEAN : cnt' = [cnt EXCEPT ![c].watchdog = w, ![c].finish = @ \/ b]
             => Only(c) /\ cnt'[c].running = cnt[c].running /\ cnt'[c].thread_id = cnt[c].thread_id
         /\ cnt' = [cnt EXCEPT ![c].finish = TRUE]
             => Only(c) /\ cnt'[c].running = cnt[c].running /\ cnt'[c].thread_id = cnt[c].thread_id
         /\ \A w \in Int, t \in Slots : cnt' = [cnt EXCEPT ![c].restart = TRUE, ![c].watchdog = w, ![c].thread_id = t]
             => Only(c) /\ cnt'[c].running = cnt[c].running /\ cnt'[c].thread_id = t
         /\ \A w \in Int : cnt' = [cnt EXCEPT ![c].watchdog = w, ![c].running = FALSE, ![c].finish = FALSE]
             => Only(c) /\ ~cnt'[c].running /\ cnt'[c].thread_id = cnt[c].thread_id
<1>1. cnt' = [cnt EXCEPT ![c].running = TRUE]
        => Only(c) /\ cnt'[c].running /\ cnt'[c].thread_id = cnt[c].thread_id
  BY DEF Only, ContextType
<1>2. \A b \in BOOLEAN : cnt' = [cnt EXCEPT ![c].makemovie = FALSE, ![c].finish = @ \/ b]
        => Only(c) /\ cnt'[c].running = cnt[c].running /\ cnt'[c].thread_id = cnt[c].thread_id
  <2> SUFFICES ASSUME NEW b \in BOOLEAN, cnt' = [cnt EXCEPT ![c].makemovie = FALSE, ![c].finish = @ \/ b]
               PROVE  Only(c) /\ cnt'[c].running = cnt[c].running /\ cnt'[c].thread_id = cnt[c].thread_id
    OBVIOUS
  <2> DEFINE d == [cnt[c] EXCEPT !.makemovie = FALSE, !.finish = @ \/ b]
  <2>1. d \in ContextType /\ d.running = cnt[c].running /\ d.thread_id = cnt[c].thread_id
    BY DEF ContextType
  <2>2. cnt' = [cnt EXCEPT ![c] = d]
    OBVIOUS
  <2> HIDE DEF d
  <2>3. QED
    BY <2>1, <2>2 DEF Only
<1>3. \A w \in Int : cnt' = [cnt EXCEPT ![c].watchdog = w, ![c].makemovie = FALSE, ![c].snapshot = FALSE]
        => Only(c) /\ cnt'[c].running = cnt[c].running /\ cnt'[c].thread_id = cnt[c].thread_id
  <2> SUFFICES ASSUME NEW w \in Int, cnt' = [cnt EXCEPT ![c].watchdog = w, ![c].makemovie = FALSE, ![c].snapshot = FALSE]
               PROVE  Only(c) /\ cnt'[c].running = cnt[c].running /\ cnt'[c].thread_id = cnt[c].thread_id
    OBVIOUS
  <2> DEFINE d == [cnt[c] EXCEPT !.watchdog = w, !.makemovie = FALSE, !.snapshot = FALSE]
  <2>1. d \in ContextType /\ d.running = cnt[c].running /\ d.thread_id = cnt[c].thread_id
    BY DEF ContextType
  <2>2. cnt' = [cnt EXCEPT ![c] = d]
    OBVIOUS
  <2> HIDE DEF d
  <2>3. QED
    BY <2>1, <2>2 DEF Only
<1>4. \A w \in Int : cnt' = [cnt EXCEPT ![c].watchdog = w]
        => Only(c) /\ cnt'[c].running = cnt[c].running /\ cnt'[c].thread_id = cnt[c].thread_id
  BY DEF Only, ContextType
<1>5. \A w \in Int, b \in BOOLEAN : cnt' = [cnt EXCEPT ![c].watchdog = w, ![c].finish = @ \/ b]
        => Only(c) /\ cnt'[c].running = cnt[c].running /\ cnt'[c].thread_id = cnt[c].thread_id
  <2> SUFFICES ASSUME NEW w \in Int, NEW b \in BOOLEAN, cnt' = [cnt EXCEPT ![c].watchdog = w, ![c].finish = @ \/ b]
               PROVE  Only(c) /\ cnt'[c].running = cnt[c].running /\ cnt'[c].thread_id = cnt[c].thread_id
    OBVIOUS
  <2> DEFINE d == [cnt[c] EXCEPT !.watchdog = w, !.finish = @ \/ b]
  <2>1. d \in ContextType /\ d.running = cnt[c].running /\ d.thread_id = cnt[c].thread_id
    BY DEF ContextType
  <2>2. cnt' = [cnt EXCEPT ![c] = d]
    OBVIOUS
  <2> HIDE DEF d
  <2>3. QED
    BY <2>1, <2>2 DEF Only
<1>6. cnt' = [cnt EXCEPT ![c].finish = TRUE]
        => Only(c) /\ cnt'[c].running = cnt[c].running /\ cnt'[c].thread_id = cnt[c].thread_id
  BY DEF Only, ContextType
<1>7. \A w \in Int, t \in Slots : cnt' = [cnt EXCEPT ![c].restart = TRUE, ![c].watchdog = w, ![c].thread_id = t]
        => Only(c) /\ cnt'[c].running = cnt[c].running /\ cnt'[c].thread_id = t
  <2> SUFFICES ASSUME NEW w \in Int, NEW t \in Slots, cnt' = [cnt EXCEPT ![c].restart = TRUE, ![c].watchdog = w, ![c].thread_id = t]
               PROVE  Only(c) /\ cnt'[c].running = cnt[c].running /\ cnt'[c].thread_id = t
    OBVIOUS
  <2> DEFINE d == [cnt[c] EXCEPT !.restart = TRUE, !.watchdog = w, !.thread_id = t]
  <2>1. d \in ContextType /\ d.running = cnt[c].running /\ d.thread_id = t
    BY DEF ContextType
  <2>2. cnt' = [cnt EXCEPT ![c] = d]
    OBVIOUS
  <2> HIDE DEF d
  <2>3. QED
    BY <2>1, <2>2 DEF Only
<1>8. \A w \in Int : cnt' = [cnt EXCEPT ![c].watchdog = w, ![c].running = FALSE, ![c].finish = FALSE]
        => Only(c) /\ ~cnt'[c].running /\ cnt'[c].thread_id = cnt[c].thread_id
  <2> SUFFICES ASSUME NEW w \in Int, cnt' = [cnt EXCEPT ![c].watchdog = w, ![c].running = FALSE, ![c].finish = FALSE]
               PROVE  Only(c) /\ ~cnt'[c].running /\ cnt'[c].thread_id = cnt[c].thread_id
    OBVIOUS
  <2> DEFINE d == [cnt[c] EXCEPT !.watchdog = w, !.running = FALSE, !.finish = FALSE]
  <2>1. d \in ContextType /\ ~d.running /\ d.thread_id = cnt[c].thread_id
    BY DEF ContextType
  <2>2. cnt' = [cnt EXCEPT ![c] = d]
    OBVIOUS
  <2> HIDE DEF d
  <2>3. QED
    BY <2>1, <2>2 DEF Only
<1>9. QED
  BY <1>1, <1>2, <1>3, <1>4, <1>5, <1>6, <1>7, <1>8

(* The steps of a thread.                                                  *)
LEMMA LoopThread ==
  ASSUME LoopInv, NEW t \in Slots, Thread(t) \/ Hang(t) \/ Unhang(t) \/ Cancelled(t)
  PROVE  LoopInv'
<1> DEFINE c == threads[t].of
<1>1. /\ threads \in [Slots -> ThreadType] /\ threads[t] \in ThreadType /\ c \in Contexts
      /\ main.pc \in Listless => cnt = NullList
      /\ main.pc \notin Listless => cnt \in [Contexts -> ContextType]
      /\ log \in LogType
      /\ threads[t].hangs => threads[t].pc \in {"init", "top", "left"}
  BY DEF LoopInv, TypeInv, NewAreBehind, ThreadType
<1>2. ASSUME NEW pc \in {"init", "top", "left", "uncounted"}
      PROVE  LET r == [threads[t] EXCEPT !.pc = pc]
             IN  /\ r \in ThreadType /\ r.pc = pc /\ r.of = threads[t].of
                 /\ r.cancelled = threads[t].cancelled /\ r.hangs = threads[t].hangs
                 /\ Goto(t, pc) => threads' = [threads EXCEPT ![t] = r]
  BY <1>1 DEF ThreadType, Goto
<1>3. Gone \in ThreadType /\ Gone.pc = "gone" /\ ~Gone.hangs
  BY Bounds DEF Gone, ThreadType, Contexts
<1>4. Fault => SameLate(log, log')
  BY <1>1 DEF Fault, SameLate, LogType
<1> HIDE DEF c
<1>5. CASE Begin(t)
  <2>1. /\ main.pc \notin Listless /\ Live(t) /\ ~threads[t].hangs /\ Goto(t, "init")
        /\ cnt' = [cnt EXCEPT ![c].running = TRUE]
        /\ UNCHANGED <<main, log>>
    BY <1>1, <1>5 DEF Begin, At, Mine, ThreadFrame, Live, c
  <2>2. Only(c) /\ cnt'[c].running /\ cnt'[c].thread_id = cnt[c].thread_id
    BY <1>1, <2>1, ContextSteps, ProcessAssumption
  <2>3. PICK r \in ThreadType :
          /\ threads' = [threads EXCEPT ![t] = r]
          /\ r.pc = "init" /\ r.of = threads[t].of /\ r.cancelled = threads[t].cancelled /\ ~r.hangs
    BY <1>2, <2>1
  <2>4. QED
    BY <1>1, <2>1, <2>2, <2>3, LoopThreadMoves DEF Only, c
<1>6. CASE Initialised(t)
  <2>1. PICK taken \in BOOLEAN :
          /\ main.pc \notin Listless /\ Live(t) /\ ~threads[t].hangs /\ Goto(t, "top")
          /\ threads[t].pc = "init"
          /\ cnt' = [cnt EXCEPT ![c].makemovie = FALSE, ![c].finish = @ \/ taken]
          /\ UNCHANGED main
    BY <1>1, <1>6 DEF Initialised, At, Mine, ThreadFrame, Live, c, May
  <2>2. Only(c) /\ cnt'[c].running = cnt[c].running /\ cnt'[c].thread_id = cnt[c].thread_id
    BY <1>1, <2>1, ContextSteps
  <2>3. SameLate(log, log')
    BY <1>1, <1>4, <1>6 DEF Initialised, SameLate
  <2>4. PICK r \in ThreadType :
          /\ threads' = [threads EXCEPT ![t] = r]
          /\ r.pc = "top" /\ r.of = threads[t].of /\ r.cancelled = threads[t].cancelled /\ ~r.hangs
    BY <1>2, <2>1
  <2>5. QED
    BY <1>1, <2>1, <2>2, <2>3, <2>4, LoopThreadMoves DEF Only, c, SameLate
<1>7. CASE InitFails(t) \/ LoopEnds(t)
  <2>1. /\ Live(t) /\ ~threads[t].hangs /\ Goto(t, "left")
        /\ threads[t].pc \in {"init", "top"} /\ UNCHANGED <<main, cnt>>
    BY <1>1, <1>7 DEF InitFails, LoopEnds, At, ThreadFrame, Live
  <2>2. SameLate(log, log')
    BY <1>1, <1>4, <1>7 DEF InitFails, LoopEnds, SameLate
  <2>3. PICK r \in ThreadType :
          /\ threads' = [threads EXCEPT ![t] = r]
          /\ r.pc = "left" /\ r.of = threads[t].of /\ r.cancelled = threads[t].cancelled /\ ~r.hangs
    BY <1>2, <2>1
  <2>4. QED
    BY <1>1, <2>1, <2>2, <2>3, LoopThreadMoves DEF SameLate
<1>8. CASE Iterate(t)
  <2>1. /\ main.pc \notin Listless
        /\ cnt' = [cnt EXCEPT ![c].watchdog = WATCHDOG_TMO, ![c].makemovie = FALSE,
                              ![c].snapshot = FALSE]
        /\ UNCHANGED <<main, threads, log>>
    BY <1>1, <1>8 DEF Iterate, Passes, Mine, ThreadFrame, c
  <2>2. Only(c) /\ cnt'[c].running = cnt[c].running /\ cnt'[c].thread_id = cnt[c].thread_id
    BY <1>1, <2>1, ContextSteps, Bounds
  <2>3. SameContexts /\ LogKept
    BY <1>1, <2>1, <2>2 DEF Only, SameContexts, LogKept
  <2>4. QED
    BY <2>1, <2>3, LoopFlags
<1>9. CASE Break(t)
  <2>1. /\ main.pc \notin Listless /\ Live(t) /\ ~threads[t].hangs /\ Goto(t, "left")
        /\ threads[t].pc = "top"
        /\ cnt' = [cnt EXCEPT ![c].watchdog = WATCHDOG_TMO]
        /\ UNCHANGED main
    BY <1>1, <1>9 DEF Break, Passes, At, Mine, ThreadFrame, Live, c
  <2>2. Only(c) /\ cnt'[c].running = cnt[c].running /\ cnt'[c].thread_id = cnt[c].thread_id
    BY <1>1, <2>1, ContextSteps, Bounds
  <2>3. SameLate(log, log')
    BY <1>4, <1>9 DEF Break
  <2>4. PICK r \in ThreadType :
          /\ threads' = [threads EXCEPT ![t] = r]
          /\ r.pc = "left" /\ r.of = threads[t].of /\ r.cancelled = threads[t].cancelled /\ ~r.hangs
    BY <1>2, <2>1
  <2>5. QED
    BY <1>1, <2>1, <2>2, <2>3, <2>4, LoopThreadMoves DEF Only, c, SameLate
<1>10. CASE Hang(t) \/ Unhang(t)
  <2> DEFINE r == [threads[t] EXCEPT !.hangs = threads'[t].hangs]
  <2>1. /\ threads[t].pc \in {"init", "top", "left"} /\ Live(t) /\ UNCHANGED main
        /\ threads' = [threads EXCEPT ![t] = r]
        /\ r \in ThreadType /\ r.pc = threads[t].pc /\ r.of = threads[t].of
        /\ r.cancelled = threads[t].cancelled
    BY <1>1, <1>10 DEF Hang, Unhang, Passes, At, ThreadFrame, Live, ThreadType
  <2>2. \/ UNCHANGED cnt
        \/ main.pc \notin Listless /\ cnt' = [cnt EXCEPT ![c].watchdog = WATCHDOG_TMO]
    BY <1>1, <1>10 DEF Hang, Unhang, Passes, Mine, ThreadFrame, c
  <2>3. /\ main.pc \in Listless => cnt' = NullList
        /\ main.pc \notin Listless =>
             /\ Only(c)
             /\ cnt'[c].running = cnt[c].running /\ cnt'[c].thread_id = cnt[c].thread_id
        /\ main.pc \in Listless => cnt' = cnt
    BY <1>1, <2>2, ContextSteps, Bounds DEF Only
  <2>4. SameLate(log, log')
    BY <1>1, <1>4, <1>10 DEF Hang, Unhang, SameLate
  <2> HIDE DEF r
  <2>5. QED
    BY <1>1, <2>1, <2>3, <2>4, LoopThreadMoves DEF Only, c, SameLate
<1>11. CASE Uncount(t)
  <2>1. /\ Live(t) /\ ~threads[t].hangs /\ Goto(t, "uncounted")
        /\ threads[t].pc = "left" /\ UNCHANGED <<main, cnt>>
    BY <1>1, <1>11 DEF Uncount, At, ThreadFrame, Live
  <2>2. log' \in LogType /\ log'.late = (log.late \/ threads[t].cancelled)
    BY <1>1, <1>11 DEF Uncount, LogType, ThreadType
  <2>3. PICK r \in ThreadType :
          /\ threads' = [threads EXCEPT ![t] = r]
          /\ r.pc = "uncounted" /\ r.of = threads[t].of /\ r.cancelled = threads[t].cancelled /\ ~r.hangs
    BY <1>2, <2>1
  <2>4. QED
    BY <1>1, <2>1, <2>2, <2>3, LoopThreadMoves
<1>12. CASE Exit(t)
  <2>1. /\ main.pc \notin Listless /\ Live(t) /\ threads[t].pc = "uncounted"
        /\ threads' = [threads EXCEPT ![t] = Gone] /\ UNCHANGED <<main, log>>
    BY <1>1, <1>12 DEF Exit, At, Mine, ThreadFrame, Live
  <2>2. \E w \in Int : cnt' = [cnt EXCEPT ![c].watchdog = w, ![c].running = FALSE, ![c].finish = FALSE]
    <3>1. Context(t).watchdog \in Int /\ WATCHDOG_OFF \in Int
      BY <1>1, <2>1, ProcessAssumption DEF ContextType, Context, c
    <3>2. QED
      BY <1>12, <3>1 DEF Exit, c
  <2>3. Only(c) /\ cnt'[c].thread_id = cnt[c].thread_id
    BY <1>1, <2>1, <2>2, ContextSteps
  <2>4. Works(t) \/ log'.late
    BY <2>1 DEF LoopInv, Orderly, Works
  <2>5. QED
    BY <1>1, <1>3, <2>1, <2>3, <2>4, LoopThreadMoves DEF Only, c
<1>13. CASE Cancelled(t)
  <2>1. /\ Live(t) /\ threads' = [threads EXCEPT ![t] = Gone] /\ UNCHANGED <<main, cnt, log>>
    BY <1>13 DEF Cancelled, ThreadFrame
  <2>2. QED
    BY <1>1, <1>3, <2>1, LoopThreadMoves
<1>14. QED
  BY <1>5, <1>6, <1>7, <1>8, <1>9, <1>10, <1>11, <1>12, <1>13 DEF Thread
-----------------------------------------------------------------------------
(* start_motion_thread, in main's first loop or for a thread to restart.   *)
LEMMA LoopStarted ==
  ASSUME LoopInv, main.pc \in {"start", "check"}, Started(main.at), UNCHANGED log,
         ~log.late => Quiet(main.at),
         main.pc = "start" => NextContext("start", "web"),
         main.pc = "check" => Step("watch")
  PROVE  LoopInv'
<1> DEFINE c == main.at
<1>1. /\ c \in Detectors /\ c \in Contexts /\ main.pc \notin Listless
      /\ main \in [pc : MainSteps, at : Detectors]
      /\ cnt \in [Contexts -> ContextType] /\ threads \in [Slots -> ThreadType]
  BY Bounds DEF LoopInv, TypeInv, Listless
<1>2. /\ main' \in [pc : MainSteps, at : Detectors] /\ main'.pc \in {"start", "web", "watch"}
      /\ main'.pc = "start" => main.pc = "start" /\ main'.at = c + 1
      /\ main'.pc = "web" => main.pc = "start" /\ c = N /\ main'.at = First
      /\ main'.pc = "watch" => main.pc = "check" /\ main'.at = c
  BY <1>1, Bounds DEF NextContext, Step, MainSteps
<1>3. PICK t \in Slots :
        /\ ~Live(t)
        /\ cnt' = [cnt EXCEPT ![c].restart = TRUE, ![c].watchdog = WATCHDOG_TMO,
                              ![c].thread_id = t]
        /\ threads' = [threads EXCEPT ![t] = [of |-> c, pc |-> "created", hangs |-> FALSE,
                                                     cancelled |-> FALSE]]
  BY DEF Started, Free
<1> HIDE DEF c
<1>4. Only(c) /\ cnt'[c].running = cnt[c].running /\ cnt'[c].thread_id = t
  <2>1. c \in Contexts /\ cnt \in [Contexts -> ContextType]
    BY <1>1
  <2>2. \A w \in Int, u \in Slots :
          cnt' = [cnt EXCEPT ![c].restart = TRUE, ![c].watchdog = w, ![c].thread_id = u]
          => Only(c) /\ cnt'[c].running = cnt[c].running /\ cnt'[c].thread_id = u
    BY <2>1, ContextSteps
  <2>3. QED
    BY <1>3, <2>2, Bounds
<1>5. /\ threads' \in [Slots -> ThreadType]
      /\ threads'[t].of = c /\ threads'[t].pc = "created" /\ ~threads'[t].hangs
      /\ ~threads'[t].cancelled
      /\ \A u \in Slots : u # t => threads'[u] = threads[u]
  BY <1>1, <1>3 DEF ThreadType
<1>6. TypeInv'
  BY <1>1, <1>2, <1>4, <1>5 DEF LoopInv, TypeInv, Only, Live, ListSteps, Listless
<1>7. KnowsThreads'
  <2> SUFFICES ASSUME NEW d \in Detectors,
                      \/ main'.pc \in {"web", "sleep", "check", "watch"}
                      \/ main'.pc = "start" /\ d < main'.at
               PROVE  cnt'[d].thread_id \in Slots
    BY DEF KnowsThreads
  <2>1. d \in Contexts /\ d \in Int /\ c \in Int /\ d <= N
    BY <1>1, Bounds
  <2>2. d = c \/ main.pc = "check" \/ (main.pc = "start" /\ d < c)
    BY <1>2, <2>1
  <2>3. d # c => cnt[d].thread_id \in Slots
    BY <2>2 DEF LoopInv, KnowsThreads, c
  <2>4. QED
    BY <1>4, <2>1, <2>3 DEF Only
<1>8. NewAreBehind'
  <2>1. c \in Int /\ \A u \in Slots : threads[u].of \in Int
    BY <1>1, Bounds DEF ThreadType, Contexts
  <2>2. ASSUME NEW u \in Slots, u # t, threads[u].pc = "created", main'.pc = "watch"
        PROVE  threads[u].of <= main'.at
    BY <1>2, <2>1, <2>2 DEF LoopInv, NewAreBehind, c
  <2>3. QED
    BY <1>2, <1>5, <2>1, <2>2 DEF LoopInv, NewAreBehind
<1>9. ASSUME ~log.late PROVE Orderly'
  <2>1. Orderly /\ Quiet(c)
    BY <1>9 DEF LoopInv, c
  <2>2. \A u \in Slots : Works(u)' => u = t \/ (Works(u) /\ threads'[u] = threads[u] /\ threads[u].of # c
                                            /\ threads[u].of \in Contexts)
    BY <1>1, <1>5, <2>1 DEF Works, Live, Quiet, ThreadType
  <2>3. main'.pc \notin Listless /\ main'.pc # "rest" /\ main'.pc # "down"
    BY <1>2 DEF Listless
  <2>4. \A u \in Slots : Works(u)' => cnt'[threads'[u].of].thread_id = u
    BY <1>4, <1>5, <2>1, <2>2 DEF Orderly, Only
  <2>5. \A u \in Slots : Works(u)' /\ threads'[u].pc # "created" => cnt'[threads'[u].of].running
    BY <1>4, <1>5, <2>1, <2>2 DEF Orderly, Only
  <2>6. \A u \in Slots : threads'[u].pc = "uncounted" => ~threads'[u].cancelled
    BY <1>5, <2>1 DEF Orderly
  <2>7. ASSUME main'.pc = "start", NEW d \in Detectors, d >= main'.at PROVE Quiet(d)'
    <3>1. d \in Int /\ c \in Int /\ d >= c /\ d # c
      <4>1. d \in Int /\ c \in Int
        BY <1>1, Bounds
      <4>2. QED
        BY <1>2, <2>7, <4>1
    <3>2. Quiet(d)
      BY <1>2, <2>1, <2>7, <3>1 DEF Orderly, c
    <3>3. QED
      BY <1>5, <2>2, <3>1, <3>2 DEF Quiet
  <2>8. QED
    BY <2>3, <2>4, <2>5, <2>6, <2>7 DEF Orderly
<1>10. QED
  BY <1>6, <1>7, <1>8, <1>9 DEF LoopInv

(* A step of main that leaves the threads and their contexts alone.        *)
LEMMA LoopMainMoves ==
  ASSUME LoopInv, UNCHANGED <<threads, log>>, main.pc \notin Listless,
         main' \in [pc : MainSteps, at : Detectors], main'.pc \notin Listless,
         main'.pc \notin ListSteps => main'.at = First,
         cnt' \in [Contexts -> ContextType],
         \A c \in Contexts : cnt'[c].running = cnt[c].running /\ cnt'[c].thread_id = cnt[c].thread_id,
         main'.pc # "start",
         main'.pc \in {"web", "sleep", "check", "watch"} =>
           main.pc \in {"web", "sleep", "check", "watch"},
         \A t \in Slots : threads[t].pc = "created" =>
           /\ main'.pc = "check" => threads[t].of < main'.at
           /\ main'.pc = "watch" => threads[t].of <= main'.at
           /\ main'.pc # "rest",
         ~log.late /\ main'.pc = "rest" => \A c \in Detectors : Quiet(c)
  PROVE  LoopInv'
<1>1. TypeInv'
  BY DEF LoopInv, TypeInv, Live
<1>2. KnowsThreads'
  BY Bounds DEF LoopInv, KnowsThreads
<1>3. NewAreBehind'
  BY DEF LoopInv, NewAreBehind, Listless
<1>4. ASSUME ~log.late PROVE Orderly'
  <2>1. Orderly
    BY <1>4 DEF LoopInv
  <2>2. \A t \in Slots : threads[t].of \in Contexts
    BY DEF LoopInv, TypeInv, ThreadType
  <2>3. \A t \in Slots : Works(t)' <=> Works(t)
    BY DEF Works, Live
  <2>4. \A c : Quiet(c)' <=> Quiet(c)
    BY DEF Works, Live, Quiet
  <2>5. QED
    BY <1>4, <2>1, <2>2, <2>3, <2>4 DEF Orderly, Listless
<1>5. QED
  BY <1>1, <1>2, <1>3, <1>4 DEF LoopInv

(* main wakes up to nothing that runs or wants to: then nothing works.     *)
LEMMA NothingRuns ==
  ASSUME LoopInv, ~log.late, main.pc = "sleep", \A t \in Slots : Prompt(t),
         motion_threads_running = 0, NEW c \in Detectors
  PROVE  Quiet(c)
<1> DEFINE Running == {d \in Detectors : cnt[d].running \/ cnt[d].restart}
<1>1. Running = {}
  <2>1. IsFiniteSet(Running)
    <3>1. IsFiniteSet(First .. N)
      <4>1. First \in Int /\ N \in Int
        BY Bounds
      <4>2. QED
        BY <4>1, FS_Interval
    <3>2. QED
      BY <3>1, FS_Subset DEF Detectors
  <2>2. Cardinality(Running) = 0
    BY DEF motion_threads_running
  <2>3. QED
    BY <2>1, <2>2, FS_EmptySet
<1>2. ASSUME NEW t \in Slots, Works(t), threads[t].of = c PROVE FALSE
  <2>1. threads[t].pc # "created"
    BY DEF LoopInv, NewAreBehind, Prompt, At
  <2>2. cnt[c].running
    BY <1>2, <2>1 DEF LoopInv, Orderly
  <2>3. QED
    BY <1>1, <2>2
<1>3. QED
  BY <1>2 DEF Quiet

(* The watchdog: the thread it cancels is the one that works for the       *)
(* context, or the kill came late.                                         *)
LEMMA LoopKill ==
  ASSUME LoopInv, main.pc = "watch", NextContext("check", "sleep"),
         NEW w \in Int, Kill(main.at, w)
  PROVE  LoopInv'
<1> DEFINE c == main.at
           t == cnt[c].thread_id
<1>1. /\ c \in Detectors /\ c \in Contexts /\ c \in Int /\ main.pc \notin Listless
      /\ main \in [pc : MainSteps, at : Detectors]
      /\ cnt \in [Contexts -> ContextType] /\ threads \in [Slots -> ThreadType]
      /\ t \in Slots
  BY Bounds DEF LoopInv, TypeInv, Listless, KnowsThreads
<1>2. /\ main' \in [pc : MainSteps, at : Detectors] /\ main'.pc \in {"check", "sleep"}
      /\ main'.pc = "sleep" => main'.at = First
      /\ main'.pc = "check" => main'.at = c + 1
  BY <1>1, Bounds DEF NextContext, MainSteps
<1>3. /\ cnt' = [cnt EXCEPT ![c].watchdog = w, ![c].running = FALSE, ![c].finish = FALSE]
      /\ threads' = [threads EXCEPT ![t].cancelled = Live(t)]
      /\ log' = [log EXCEPT !.late = @ \/ Stale(c)]
  BY DEF Kill
<1>4. log' \in LogType /\ log'.late = (log.late \/ Stale(c))
  <2>1. Stale(c) \in BOOLEAN
    BY DEF Stale
  <2>2. log \in LogType
    BY DEF LoopInv, TypeInv
  <2>3. QED
    BY <1>3, <2>1, <2>2 DEF LogType
<1>5. /\ threads' \in [Slots -> ThreadType]
      /\ \A u \in Slots : /\ threads'[u].of = threads[u].of /\ threads'[u].pc = threads[u].pc
                          /\ threads'[u].hangs = threads[u].hangs
                          /\ u # t => threads'[u] = threads[u]
      /\ Live(t) => threads'[t].cancelled
  <2> DEFINE r == [threads[t] EXCEPT !.cancelled = Live(t)]
  <2>1. Live(t) \in BOOLEAN
    BY DEF Live
  <2>2. /\ r \in ThreadType /\ r.of = threads[t].of /\ r.pc = threads[t].pc
        /\ r.hangs = threads[t].hangs /\ (Live(t) => r.cancelled)
    BY <1>1, <2>1 DEF ThreadType
  <2>3. threads' = [threads EXCEPT ![t] = r]
    BY <1>3
  <2> HIDE DEF r, t
  <2>4. QED
    BY <1>1, <2>2, <2>3
<1> HIDE DEF c
<1>6. Only(c) /\ cnt'[c].thread_id = cnt[c].thread_id
  BY <1>1, <1>3, ContextSteps
<1>7. TypeInv'
  BY <1>1, <1>2, <1>4, <1>5, <1>6 DEF LoopInv, TypeInv, Only, Live, ListSteps, Listless
<1>8. KnowsThreads'
  BY <1>1, <1>2, <1>6, Bounds DEF LoopInv, KnowsThreads, Only
<1>9. NewAreBehind'
  <2>1. \A u \in Slots : threads[u].of \in Int
    BY <1>1 DEF ThreadType, Contexts
  <2>2. QED
    BY <1>1, <1>2, <1>5, <2>1 DEF LoopInv, NewAreBehind, c
<1>10. ASSUME ~log'.late PROVE Orderly'
  <2>1. /\ Orderly /\ threads[t].of = c /\ Live(t) /\ ~At(t, "uncounted")
    BY <1>4, <1>10 DEF LoopInv, Stale
  <2>2. threads[t].pc # "uncounted"
    BY <1>1, <2>1 DEF LoopInv, NewAreBehind, At
  <2>3. \A u \in Slots : Works(u)' => Works(u) /\ u # t /\ threads[u].of # c /\ threads[u].of \in Contexts
    BY <1>1, <1>5, <2>1 DEF Works, Live, Orderly, ThreadType
  <2>4. \A u \in Slots : Works(u)' =>
          /\ cnt'[threads'[u].of].thread_id = u
          /\ threads'[u].pc # "created" => cnt'[threads'[u].of].running
    BY <1>5, <1>6, <2>1, <2>3 DEF Orderly, Only
  <2>5. \A u \in Slots : threads'[u].pc = "uncounted" => ~threads'[u].cancelled
    BY <1>5, <2>1, <2>2 DEF Orderly
  <2>6. QED
    BY <1>2, <2>4, <2>5 DEF Orderly, Listless
<1>11. QED
  BY <1>7, <1>8, <1>9, <1>10 DEF LoopInv

(* The steps of main.                                                      *)
LEMMA LoopMain ==
  ASSUME LoopInv, Main
  PROVE  LoopInv'
<1>1. /\ main.at \in Detectors /\ main.at \in Contexts /\ main.at \in Int
      /\ main \in [pc : MainSteps, at : Detectors]
      /\ main.pc \notin ListSteps => main.at = First
      /\ main.pc \in Listless => cnt = NullList
      /\ main.pc \notin Listless => cnt \in [Contexts -> ContextType]
      /\ threads \in [Slots -> ThreadType] /\ log \in LogType
      /\ \A t \in Slots : threads[t].of \in Int
  <2>1. \A t \in Slots : threads[t].of \in Contexts
    BY DEF LoopInv, TypeInv, ThreadType
  <2>2. \A c \in Contexts : c \in Int
    BY DEF Contexts
  <2>3. QED
    BY <2>1, <2>2, Bounds DEF LoopInv, TypeInv
<1>2. CASE StartThreads
  <2>1. ~log.late => Quiet(main.at)
    BY <1>1, <1>2 DEF StartThreads, LoopInv, Orderly
  <2>2. QED
    BY <1>2, <2>1, LoopStarted DEF StartThreads
<1>3. CASE StartWeb
  BY <1>1, <1>3, LoopMainMoves DEF StartWeb, Step, MainSteps, ListSteps, Listless
<1>4. CASE Wake
  <2>1. ~log.late /\ motion_threads_running = 0 => \A c \in Detectors : Quiet(c)
    BY <1>4, NothingRuns DEF Wake
  <2>2. \A t \in Slots : threads[t].pc # "created"
    BY <1>4 DEF Wake, Prompt, At, LoopInv, NewAreBehind
  <2>3. /\ main' \in [pc : MainSteps, at : Detectors] /\ main'.pc \in {"rest", "end", "check"}
        /\ main'.at = First
        /\ main'.pc = "rest" => motion_threads_running = 0
        /\ UNCHANGED <<threads, log, cnt>> /\ main.pc = "sleep"
    BY <1>1, <1>4 DEF Wake, Step, MainSteps, ListSteps
  <2>4. QED
    BY <1>1, <2>1, <2>2, <2>3, LoopMainMoves DEF ListSteps, Listless
<1>5. CASE CheckRestart /\ WantsRestart(main.at)
  <2>1. ASSUME ~log.late PROVE Quiet(main.at)
    <3>1. ASSUME NEW t \in Slots, Works(t), threads[t].of = main.at PROVE FALSE
      <4>1. threads[t].pc # "created"
        BY <1>1, <1>5, <3>1 DEF CheckRestart, LoopInv, NewAreBehind
      <4>2. QED
        BY <1>5, <2>1, <3>1, <4>1 DEF WantsRestart, LoopInv, Orderly
    <3>2. QED
      BY <3>1 DEF Quiet
  <2>2. QED
    BY <1>5, <2>1, LoopStarted DEF CheckRestart
<1>6. CASE CheckRestart /\ ~WantsRestart(main.at)
  <2>1. /\ main.pc = "check" /\ main' = [main EXCEPT !.pc = "watch"]
        /\ UNCHANGED <<threads, cnt, log>>
    BY <1>6 DEF CheckRestart, Step
  <2>2. \A t \in Slots : threads[t].pc = "created" => threads[t].of <= main.at
    BY <1>1, <2>1 DEF LoopInv, NewAreBehind
  <2>3. QED
    BY <1>1, <2>1, <2>2, LoopMainMoves DEF MainSteps, ListSteps, Listless
<1>7. CASE Watch
  <2>1. /\ main.pc = "watch" /\ main.pc \notin Listless /\ NextContext("check", "sleep")
        /\ cnt[main.at].watchdog - 1 \in Int
    BY <1>1, <1>7 DEF Watch, Listless, ContextType
  <2>2. CASE Kill(main.at, cnt[main.at].watchdog - 1)
    BY <2>1, <2>2, LoopKill
  <2>3. CASE ~Kill(main.at, cnt[main.at].watchdog - 1)
    <3>1. /\ UNCHANGED <<threads, log>>
          /\ \/ UNCHANGED cnt
             \/ \E b \in BOOLEAN :
                  cnt' = [cnt EXCEPT ![main.at].watchdog = cnt[main.at].watchdog - 1,
                                     ![main.at].finish = @ \/ b]
      BY <1>7, <2>3 DEF Watch
    <3>2. /\ cnt' \in [Contexts -> ContextType]
          /\ \A c \in Contexts : cnt'[c].running = cnt[c].running
                                 /\ cnt'[c].thread_id = cnt[c].thread_id
      <4>1. CASE UNCHANGED cnt
        BY <1>1, <2>1, <4>1
      <4>2. CASE ~UNCHANGED cnt
        <5>1. \A w \in Int, b \in BOOLEAN :
                cnt' = [cnt EXCEPT ![main.at].watchdog = w, ![main.at].finish = @ \/ b]
                => /\ Only(main.at) /\ cnt'[main.at].running = cnt[main.at].running
                   /\ cnt'[main.at].thread_id = cnt[main.at].thread_id
          BY <1>1, <2>1, ContextSteps
        <5>2. QED
          BY <2>1, <3>1, <4>2, <5>1 DEF Only
      <4>3. QED
        BY <4>1, <4>2
    <3>3. /\ main' \in [pc : MainSteps, at : Detectors] /\ main'.pc \in {"check", "sleep"}
          /\ main'.pc = "sleep" => main'.at = First
          /\ main'.pc = "check" => main'.at = main.at + 1
      BY <1>1, <2>1, Bounds DEF NextContext, MainSteps
    <3>4. \A t \in Slots : threads[t].pc = "created" => threads[t].of <= main.at
      BY <2>1 DEF LoopInv, NewAreBehind
    <3>5. QED
      <4>1. \A t \in Slots : threads[t].pc = "created" =>
              /\ main'.pc = "check" => threads[t].of < main'.at
              /\ main'.pc # "watch" /\ main'.pc # "rest"
        BY <1>1, <3>3, <3>4
      <4>2. QED
        BY <1>1, <2>1, <3>1, <3>2, <3>3, <4>1, LoopMainMoves DEF ListSteps, Listless
  <2>4. QED
    BY <2>2, <2>3
<1>8. CASE End
  <2>1. /\ main.pc = "end" /\ main' = [main EXCEPT !.pc = "ending"] /\ UNCHANGED <<threads, log>>
        /\ cnt' = [cnt EXCEPT ![0].finish = TRUE]
    BY <1>8 DEF End, Step
  <2>2. Only(0) /\ cnt'[0].running = cnt[0].running /\ cnt'[0].thread_id = cnt[0].thread_id
    <3>1. 0 \in Contexts /\ cnt \in [Contexts -> ContextType]
      BY <1>1, <2>1, Bounds DEF Contexts, Listless
    <3>2. QED
      BY <2>1, <3>1, ContextSteps
  <2>3. QED
    BY <1>1, <2>1, <2>2, LoopMainMoves DEF MainSteps, ListSteps, Listless, Only
<1>9. CASE Shutdown
  <2>1. /\ main.pc = "rest" /\ main' = [main EXCEPT !.pc = "down"] /\ cnt' = NullList
        /\ UNCHANGED <<threads, log>>
    BY <1>9 DEF Shutdown, Step
  <2>2. TypeInv' /\ KnowsThreads' /\ NewAreBehind'
    BY <1>1, <2>1 DEF LoopInv, TypeInv, KnowsThreads, NewAreBehind, MainSteps, ListSteps, Listless, Live
  <2>3. ~log.late => Orderly'
    BY <1>1, <2>1 DEF LoopInv, TypeInv, Orderly, Quiet, Works, Live, Listless
  <2>4. QED
    BY <2>1, <2>2, <2>3 DEF LoopInv
<1>10. CASE Startup
  <2>1. /\ main.pc = "down" /\ main' = [main EXCEPT !.pc = "start"]
        /\ cnt' = [c \in Contexts |-> NewContext]
        /\ UNCHANGED threads /\ log' = [log EXCEPT !.list = @ + 1]
    BY <1>10 DEF Startup, Step
  <2>2. log' \in LogType /\ log'.late = log.late
    BY <1>1, <2>1 DEF LogType
  <2>3. NewContext \in ContextType
    BY DEF NewContext, ContextType
  <2>4. TypeInv'
    BY <1>1, <2>1, <2>2, <2>3 DEF LoopInv, TypeInv, MainSteps, ListSteps, Listless, Live
  <2>5. main'.at = First
    BY <1>1, <2>1 DEF ListSteps
  <2>6. KnowsThreads' /\ NewAreBehind'
    BY <1>1, <2>1, <2>5, Bounds DEF LoopInv, KnowsThreads, NewAreBehind
  <2>7. ~log.late => Orderly'
    BY <1>1, <2>1 DEF LoopInv, TypeInv, Orderly, Quiet, Works, Live, Listless
  <2>8. QED
    BY <2>1, <2>2, <2>4, <2>6, <2>7 DEF LoopInv
<1>11. CASE Ended
  <2>1. /\ main.pc = "ending" /\ main' = [main EXCEPT !.pc = "done"] /\ cnt' = NullList
        /\ threads' = [t \in Slots |-> Gone] /\ UNCHANGED log
    BY <1>11 DEF Ended, Step
  <2>2. Gone \in ThreadType
    BY Bounds DEF Gone, ThreadType, Contexts
  <2>3. TypeInv' /\ KnowsThreads' /\ NewAreBehind'
    BY <1>1, <2>1, <2>2 DEF LoopInv, TypeInv, KnowsThreads, NewAreBehind, MainSteps, ListSteps, Listless, Live, Gone
  <2>4. Orderly'
    BY <1>1, <2>1 DEF Orderly, Quiet, Works, Live, Listless, Gone
  <2>5. QED
    BY <2>1, <2>3, <2>4 DEF LoopInv
<1>12. QED
  BY <1>2, <1>3, <1>4, <1>5, <1>6, <1>7, <1>8, <1>9, <1>10, <1>11 DEF Main

LEMMA LoopStep == LoopInv /\ [ProcessNext]_processVars => LoopInv'
<1> SUFFICES ASSUME LoopInv, [ProcessNext]_processVars PROVE LoopInv'
  OBVIOUS
<1>1. CASE UNCHANGED processVars
  <2>1. UNCHANGED <<main, threads, cnt, log>>
    BY <1>1 DEF processVars
  <2>2. SameContexts /\ LogKept
    BY <2>1 DEF LoopInv, TypeInv, SameContexts, LogKept
  <2>3. QED
    BY <2>1, <2>2, LoopFlags
<1>2. CASE ProcessNext
  BY <1>2, LoopMain, LoopOutside, LoopThread DEF ProcessNext
<1>3. QED
  BY <1>1, <1>2

(* Two threads work on one context only when the watchdog killed one of    *)
(* them and it has not ended yet (motion.c:2686-2760), as long as the kill *)
(* of the watchdog and the exit of the thread do not cross.                *)
THEOREM OneLoopPerContext == ProcessSpec => []OneLoop
<1>1. LoopInv => OneLoop
  BY DEF LoopInv, Orderly, OneLoop, Works
<1>2. QED
  BY <1>1, LoopInit, LoopStep, PTL DEF ProcessSpec

-----------------------------------------------------------------------------
(* The options: set, written and read again *)

Names == {MotionConf} \cup Cameras
(* A context holds values of the types of its options.                     *)
IsConf(c) == DOMAIN c = Options /\ \A o \in Options : c[o] \in Values(o)

\* What a file that was written holds: a line for each option that is printed.
LinesOf(c, f) == Generated(c, f).lines

\* What a context holds is of its type; a file has lines for options, with texts.
TypedInv ==
  /\ confLog \in [sets : Nat, writes : Nat, loads : Nat, missed : SUBSET Names]
  /\ DOMAIN files = Names /\ MotionConf \in DOMAIN confs /\ DOMAIN confs \subseteq Names
  /\ \A f \in DOMAIN confs : IsConf(confs[f])
IsLines(lines) ==
  /\ DOMAIN lines \subseteq Options
  /\ \A o \in DOMAIN lines : TypeOf[o] = "string" => lines[o] \in Text \cup {NULL}
IsFile(file) == IsLines(file.lines) /\ file.late \subseteq Options /\ file.threads \subseteq Cameras
FilesInv == \A f \in Names : IsFile(files[f])
\* The files in `saved' still hold what conf_print wrote of those contexts, and
\* motion.conf is one of them and names the others.
SavedInv ==
  /\ DOMAIN saved \subseteq Names
  /\ \A f \in DOMAIN saved :
       /\ IsConf(saved[f])
       /\ MotionConf \in DOMAIN saved
       /\ files[f].lines = LinesOf(saved, f)
       /\ files[f].late = {}
       /\ f # MotionConf => f \in files[MotionConf].threads
WrittenInv == TypedInv /\ FilesInv /\ SavedInv

LEMMA CopiedIsValue ==
  ASSUME NEW o \in Options, NEW text, NEW old \in Values(o),
         TypeOf[o] = "string" => text \in Text \cup {NULL}
  PROVE  conf_cmdparse(o, text, old) \in Values(o)
<1>1. TypeOf[o] \in {"bool", "int", "string"}
  BY ConfigurationAssumption
<1>2. CASE text = NULL
  BY <1>1, <1>2 DEF conf_cmdparse, Values
<1>3. CASE text # NULL
  <2>1. conf_cmdparse(o, text, old) = Copied(o, text)
    BY <1>3 DEF conf_cmdparse
  <2>2. CASE TypeOf[o] = "bool"
    BY <2>1, <2>2 DEF Copied, Values
  <2>3. CASE TypeOf[o] = "int"
    BY <2>1, <2>3, ConfigurationAssumption DEF Copied, Values
  <2>4. CASE TypeOf[o] = "string"
    BY <1>3, <2>1, <2>4 DEF Copied, Values
  <2> QED
    BY <1>1, <2>2, <2>3, <2>4
<1> QED
  BY <1>2, <1>3

LEMMA TrimmedIsText ==
  ASSUME NEW text \in Text \cup {NULL}
  PROVE  Trimmed(text) \in Text \cup {NULL}
BY DEF Trimmed, Text, Around

LEMMA LineIsText ==
  ASSUME NEW o, NEW text \in Text
  PROVE  AsLine(o, text) \in Text
BY DEF AsLine, Text, Around

\* A value that a file can hold is read back as it was printed.
LEMMA PrintedIsRead ==
  ASSUME NEW o \in Options, NEW v \in Values(o), v # NULL, Holds(o, v), NEW old
  PROVE  conf_cmdparse(o, Trimmed(AsLine(o, v)), old) = v
<1>1. TypeOf[o] \in {"bool", "int", "string"}
  BY ConfigurationAssumption
<1>2. CASE TypeOf[o] # "string"
  <2>1. \E b : v = Bare(b) /\ (TypeOf[o] = "bool" => b \in {"on", "off"})
                           /\ (TypeOf[o] = "int" => b \in Numerals)
    <3>1. CASE TypeOf[o] = "bool"
      BY <3>1 DEF Values
    <3>2. CASE TypeOf[o] = "int"
      BY <3>2 DEF Values
    <3> QED
      BY <1>1, <1>2, <3>1, <3>2
  <2>2. PICK b : v = Bare(b) /\ (TypeOf[o] = "bool" => b \in {"on", "off"})
                            /\ (TypeOf[o] = "int" => b \in Numerals)
    BY <2>1
  <2>3. v.around = "none" /\ v.body = b
    BY <2>2 DEF Bare
  <2>4. AsLine(o, v) = v
    BY <2>3 DEF AsLine
  <2>5. Trimmed(v) = v
    BY <2>2, <2>3 DEF Trimmed, Bare
  <2>6. conf_cmdparse(o, v, old) = Copied(o, v)
    BY DEF conf_cmdparse
  <2>7. Copied(o, v) = v
    <3>1. CASE TypeOf[o] = "bool"
      BY <2>2, <2>3, <3>1 DEF Copied, Bare
    <3>2. CASE TypeOf[o] = "int"
      BY <2>2, <2>3, <3>2 DEF Copied, Bare
    <3> QED
      BY <1>1, <1>2, <3>1, <3>2
  <2> QED
    BY <2>4, <2>5, <2>6, <2>7
<1>3. CASE TypeOf[o] = "string"
  <2>1. v \in Text
    BY <1>3 DEF Values
  <2>2. PICK b \in STRING, a \in Around : v = [body |-> b, around |-> a]
    BY <2>1 DEF Text
  <2>3. v.around = a /\ v.body = b
    BY <2>2
  <2>4. a = "none" \/ (o \in TextOptions /\ a = "before")
    BY <2>3 DEF Holds
  <2>5. Trimmed(AsLine(o, v)) = v
    <3>1. CASE a = "none"
      <4>1. AsLine(o, v) = v
        BY <2>3, <3>1 DEF AsLine
      <4> QED
        BY <2>2, <2>3, <3>1, <4>1 DEF Trimmed
    <3>2. CASE o \in TextOptions /\ a = "before"
      <4>1. AsLine(o, v) = [body |-> b, around |-> "quoted"]
        BY <2>2, <2>3, <3>2 DEF AsLine
      <4>2. [body |-> b, around |-> "quoted"] \in Text
        BY DEF Text, Around
      <4>3. [body |-> b, around |-> "quoted"] # NULL
        BY <4>2, ConfigurationAssumption
      <4> QED
        BY <2>2, <3>2, <4>1, <4>3 DEF Trimmed
    <3> QED
      BY <2>4, <3>1, <3>2
  <2>6. v # Bare("")
    BY <1>3 DEF Values
  <2> QED
    BY <1>3, <2>5, <2>6 DEF conf_cmdparse, Copied
<1> QED
  BY <1>2, <1>3

LEMMA ProcessIsConf ==
  ASSUME NEW lines, IsLines(lines), NEW before, IsConf(before)
  PROVE  IsConf(conf_process(lines, before))
<1> SUFFICES ASSUME NEW o \in Options PROVE conf_process(lines, before)[o] \in Values(o)
  BY DEF IsConf, conf_process
<1>1. before[o] \in Values(o)
  BY DEF IsConf
<1>2. CASE o \in DOMAIN lines
  <2>1. TypeOf[o] = "string" => Trimmed(lines[o]) \in Text \cup {NULL}
    BY <1>2, TrimmedIsText DEF IsLines
  <2>2. conf_process(lines, before)[o] = conf_cmdparse(o, Trimmed(lines[o]), before[o])
    BY <1>2 DEF conf_process
  <2> QED
    BY <1>1, <2>1, <2>2, CopiedIsValue
<1>3. CASE o \notin DOMAIN lines
  BY <1>1, <1>3 DEF conf_process
<1> QED
  BY <1>2, <1>3

LEMMA SomeLinesAreLines ==
  ASSUME NEW file, IsFile(file), NEW some
  PROVE  IsLines(Lines(file, some))
BY DEF IsFile, IsLines, Lines

\* Loading gives a context for motion.conf and one for each camera that is found.
LEMMA LoadIsConf ==
  ASSUME NEW fs, NEW missed, \A f \in Names : IsFile(fs[f])
  PROVE  /\ MotionConf \in DOMAIN conf_load(fs, missed)
         /\ DOMAIN conf_load(fs, missed) \subseteq Names
         /\ \A f \in DOMAIN conf_load(fs, missed) : IsConf(conf_load(fs, missed)[f])
<1> DEFINE base == IF MotionConf \in missed THEN NoFile ELSE fs[MotionConf]
           early == conf_process(Lines(base, Options \ base.late), conf_template)
           camera(f) == config_thread(base, fs[f].lines)
           first == conf_process(base.lines, conf_template)
           load == [f \in {MotionConf} \cup (base.threads \ missed) |->
                      IF f = MotionConf THEN conf_cmdline(first) ELSE camera(f)]
<1>1. conf_load(fs, missed) = load
  BY DEF conf_load
<1>2. IsFile(NoFile)
  BY DEF IsFile, IsLines, NoFile
<1>3. IsFile(base)
  BY <1>2 DEF Names
<1>4. IsConf(conf_template)
  BY ConfigurationAssumption DEF IsConf
<1>5. IsConf(early)
  BY <1>3, <1>4, SomeLinesAreLines, ProcessIsConf
<1>6. IsConf(first)
  BY <1>3, <1>4, ProcessIsConf DEF IsFile
<1>7. IsConf(conf_cmdline(first))
  BY <1>6, ConfigurationAssumption DEF IsConf, conf_cmdline
<1>8. ASSUME NEW f \in Cameras PROVE IsConf(camera(f))
  <2>1. IsFile(fs[f])
    BY DEF Names
  <2>2. IsConf(conf_process(fs[f].lines, early))
    BY <1>5, <2>1, ProcessIsConf DEF IsFile
  <2> QED
    BY <1>3, <2>2, SomeLinesAreLines, ProcessIsConf DEF config_thread
<1>9. base.threads \subseteq Cameras
  BY <1>3 DEF IsFile
<1> HIDE DEF base, early, camera, first
<1> QED
  BY <1>1, <1>7, <1>8, <1>9, ConfigurationAssumption DEF Names

\* The value that the lines of a written file give: the one that was printed, or,
\* where nothing was printed, the one before.
LEMMA WrittenLine ==
  ASSUME NEW c, NEW f, NEW o \in Options, NEW before,
         IsConf(c[f]), Printed(c, f, o) # NULL => Holds(o, c[f][o])
  PROVE  conf_process(LinesOf(c, f), before)[o] =
           IF Printed(c, f, o) = NULL THEN before[o] ELSE c[f][o]
<1>1. LinesOf(c, f) = [p \in {p \in Options : Printed(c, f, p) # NULL} |-> AsLine(p, Printed(c, f, p))]
  BY DEF LinesOf, Generated
<1>2. CASE Printed(c, f, o) = NULL
  BY <1>1, <1>2 DEF conf_process
<1>3. CASE Printed(c, f, o) # NULL
  <2>1. Printed(c, f, o) = c[f][o]
    BY <1>3 DEF Printed
  <2>2. conf_process(LinesOf(c, f), before)[o] = conf_cmdparse(o, Trimmed(AsLine(o, c[f][o])), before[o])
    BY <1>1, <1>3, <2>1 DEF conf_process
  <2> QED
    BY <1>3, <2>1, <2>2, PrintedIsRead DEF IsConf
<1> QED
  BY <1>2, <1>3

\* What is loaded of a file that was written with motion.conf.
LEMMA SavedIsRead ==
  ASSUME WrittenInv, NEW missed, MotionConf \notin missed,
         NEW f \in DOMAIN saved \ missed, NEW o \in Options, Keeps(f, o)
  PROVE  LET load == conf_load(files, missed) IN
         /\ f \in DOMAIN load
         /\ saved[f][o] # NULL => load[f][o] = saved[f][o]
         /\ o \notin DOMAIN CommandLine /\ saved[MotionConf][o] # NULL =>
              Shown(load, f, o) = Shown(saved, f, o)
<1> DEFINE base == files[MotionConf]
           early == conf_process(Lines(base, Options \ base.late), conf_template)
           camera(g) == config_thread(base, files[g].lines)
           first == conf_process(base.lines, conf_template)
           load == [g \in {MotionConf} \cup (base.threads \ missed) |->
                      IF g = MotionConf THEN conf_cmdline(first) ELSE camera(g)]
           common == saved[MotionConf][o]
<1>1. conf_load(files, missed) = load
  BY DEF conf_load
<1>2. /\ MotionConf \in DOMAIN saved /\ IsConf(saved[f]) /\ IsConf(saved[MotionConf])
      /\ files[f].lines = LinesOf(saved, f) /\ base.lines = LinesOf(saved, MotionConf)
      /\ base.late = {} /\ DOMAIN base.lines \subseteq Options
      /\ f # MotionConf => f \in base.threads
  BY DEF WrittenInv, SavedInv, FilesInv, IsFile, IsLines, Names
<1>3. /\ Holds(o, saved[f][o]) /\ Holds(o, common)
      /\ f = MotionConf => o \notin DOMAIN CommandLine
  BY DEF Keeps
<1>4. Printed(saved, MotionConf, o) = common
  BY DEF Printed
<1>5. f \in DOMAIN load
  BY <1>2
<1>6. first[o] = IF common = NULL THEN conf_template[o] ELSE common
  BY <1>2, <1>3, <1>4, WrittenLine
<1>7. o \notin DOMAIN CommandLine => load[MotionConf][o] = first[o]
  BY DEF conf_cmdline
<1>8. CASE f = MotionConf
  <2>1. Shown(load, f, o) = load[f][o] /\ Shown(saved, f, o) = common
    BY <1>8 DEF Shown, Printed
  <2> QED
    BY <1>1, <1>3, <1>5, <1>6, <1>7, <1>8, <2>1
<1>9. CASE f # MotionConf
  <2>1. Lines(base, Options \ base.late) = base.lines
    BY <1>2 DEF Lines, LinesOf, Generated
  <2>2. early[o] = first[o]
    BY <2>1
  <2>3. camera(f)[o] = conf_process(files[f].lines, early)[o]
    BY <1>2 DEF config_thread, conf_process, Lines
  <2>4. conf_process(files[f].lines, early)[o] =
          IF Printed(saved, f, o) = NULL THEN early[o] ELSE saved[f][o]
    BY <1>2, <1>3, WrittenLine
  <2>5. load[f][o] = IF Printed(saved, f, o) = NULL THEN first[o] ELSE saved[f][o]
    BY <1>2, <1>9, <2>2, <2>3, <2>4
  <2>6. Printed(saved, f, o) = IF saved[f][o] = common THEN NULL ELSE saved[f][o]
    BY <1>9 DEF Printed
  <2>7. saved[f][o] # NULL => load[f][o] = saved[f][o]
    BY <1>6, <2>5, <2>6
  <2>8. ASSUME o \notin DOMAIN CommandLine, common # NULL
        PROVE  Shown(load, f, o) = Shown(saved, f, o)
    <3>1. load[MotionConf][o] = common
      BY <1>6, <1>7, <2>8
    <3>2. load[f][o] = IF saved[f][o] = NULL THEN common ELSE saved[f][o]
      BY <1>6, <2>5, <2>6, <2>8
    <3>3. Shown(load, f, o) = IF load[f][o] = NULL THEN common ELSE load[f][o]
      BY <1>9, <3>1, <2>8 DEF Shown, Printed
    <3>4. Shown(saved, f, o) = IF saved[f][o] = NULL THEN common ELSE saved[f][o]
      BY <1>9, <2>8 DEF Shown, Printed
    <3> QED
      BY <3>2, <3>3, <3>4, <2>8
  <2> QED
    BY <1>1, <1>5, <2>7, <2>8
<1> QED
  BY <1>8, <1>9

LEMMA WrittenInit == ConfInit => WrittenInv
<1> SUFFICES ASSUME ConfInit PROVE WrittenInv
  OBVIOUS
<1>1. files \in FirstFiles /\ confs = conf_load(files, {}) /\ DOMAIN saved = {}
  BY DEF ConfInit
<1>2. DOMAIN files = Names /\ FilesInv
  BY <1>1, ConfigurationAssumption DEF Names, FilesInv, IsFile, IsLines
<1>3. TypedInv
  <2>1. confLog \in [sets : Nat, writes : Nat, loads : Nat, missed : SUBSET Names]
    BY DEF ConfInit
  <2> QED
    BY <1>1, <1>2, <2>1, LoadIsConf DEF TypedInv, FilesInv
<1> QED
  BY <1>1, <1>2, <1>3 DEF WrittenInv, SavedInv

LEMMA SetKeeps == WrittenInv /\ ConfigSet => WrittenInv'
<1> SUFFICES ASSUME WrittenInv, ConfigSet PROVE WrittenInv'
  OBVIOUS
<1> USE DEF WrittenInv
<1>1. UNCHANGED <<files, saved>>
  BY DEF ConfigSet
<1>2. PICK f \in DOMAIN confs : \E o \in Settable(f), text \in Texts \cup {NULL} :
        confs' = [g \in DOMAIN confs |->
                    IF g \in Reached(f)
                    THEN [confs[g] EXCEPT ![o] = conf_cmdparse(o, Asked(o, text), @)] ELSE confs[g]]
  BY DEF ConfigSet
<1>3. PICK o \in Settable(f), text \in Texts \cup {NULL} :
        confs' = [g \in DOMAIN confs |->
                    IF g \in Reached(f)
                    THEN [confs[g] EXCEPT ![o] = conf_cmdparse(o, Asked(o, text), @)] ELSE confs[g]]
  BY <1>2
<1> DEFINE value == Asked(o, text)
<1>4. o \in Options
  BY DEF Settable
<1>5. TypeOf[o] = "string" => value \in Text \cup {NULL}
  BY ConfigurationAssumption DEF Asked
<1>6. ASSUME NEW g \in DOMAIN confs PROVE IsConf(confs'[g])
  <2>1. IsConf(confs[g])
    BY DEF TypedInv
  <2>2. conf_cmdparse(o, value, confs[g][o]) \in Values(o)
    BY <1>4, <1>5, <2>1, CopiedIsValue DEF IsConf
  <2>3. confs'[g] = confs[g] \/ confs'[g] = [confs[g] EXCEPT ![o] = conf_cmdparse(o, value, confs[g][o])]
    BY <1>3
  <2> DEFINE new == conf_cmdparse(o, value, confs[g][o])
  <2> HIDE DEF new
  <2>4. CASE confs'[g] = [confs[g] EXCEPT ![o] = new]
    BY <2>1, <2>2, <2>4 DEF IsConf, new
  <2> QED
    BY <2>1, <2>3, <2>4 DEF new
<1>7. DOMAIN confs' = DOMAIN confs
  BY <1>3
<1>8. TypedInv'
  <2>1. confLog' = [confLog EXCEPT !.sets = @ + 1]
    BY DEF ConfigSet
  <2>2. confLog' \in [sets : Nat, writes : Nat, loads : Nat, missed : SUBSET Names]
    BY <2>1 DEF TypedInv
  <2> QED
    BY <1>1, <1>6, <1>7, <2>2 DEF TypedInv
<1> QED
  BY <1>1, <1>8 DEF FilesInv, SavedInv

LEMMA ReloadKeeps == WrittenInv /\ Reload => WrittenInv'
<1> SUFFICES ASSUME WrittenInv, Reload PROVE WrittenInv'
  OBVIOUS
<1>1. PICK missed \in SUBSET DOMAIN files :
        /\ confs' = conf_load(files, missed)
        /\ confLog' = [confLog EXCEPT !.loads = @ + 1, !.missed = missed]
  BY DEF Reload
<1>2. UNCHANGED <<files, saved>>
  BY DEF Reload
<1>3. \A f \in Names : IsFile(files[f])
  BY DEF WrittenInv, FilesInv
<1>4. TypedInv'
  <2>1. confLog' \in [sets : Nat, writes : Nat, loads : Nat, missed : SUBSET Names]
    <3>1. missed \in SUBSET Names
      BY DEF WrittenInv, TypedInv
    <3>2. confLog \in [sets : Nat, writes : Nat, loads : Nat, missed : SUBSET Names]
      BY DEF WrittenInv, TypedInv
    <3>3. confLog' = [sets |-> confLog.sets, writes |-> confLog.writes,
                      loads |-> confLog.loads + 1, missed |-> missed]
      BY <1>1, <3>2
    <3> QED
      BY <3>1, <3>2, <3>3
  <2> QED
    BY <1>1, <1>2, <1>3, <2>1, LoadIsConf DEF WrittenInv, TypedInv
<1> QED
  BY <1>2, <1>4 DEF WrittenInv, FilesInv, SavedInv

\* What is printed of contexts in order is a file.
LEMMA GeneratedIsFile ==
  ASSUME NEW c, NEW f, DOMAIN c \subseteq Names, IsConf(c[f])
  PROVE  IsFile(Generated(c, f))
<1> DEFINE file == Generated(c, f)
           printed == {o \in Options : Printed(c, f, o) # NULL}
<1>1. /\ file.lines = [o \in printed |-> AsLine(o, Printed(c, f, o))]
      /\ file.late = {} /\ file.threads \subseteq Cameras
  BY DEF Generated, Names
<1>2. ASSUME NEW o \in printed, TypeOf[o] = "string"
      PROVE  AsLine(o, Printed(c, f, o)) \in Text
  <2>1. Printed(c, f, o) = c[f][o] /\ c[f][o] # NULL
    BY DEF Printed
  <2>2. c[f][o] \in Text
    BY <1>2, <2>1 DEF IsConf, Values
  <2> QED
    BY <2>1, <2>2, LineIsText
<1> HIDE DEF file
<1> QED
  BY <1>1, <1>2 DEF IsFile, IsLines, file

LEMMA WriteKeeps == WrittenInv /\ ConfigWrite => WrittenInv'
<1> SUFFICES ASSUME WrittenInv, ConfigWrite PROVE WrittenInv'
  OBVIOUS
<1>1. PICK wrote \in SUBSET DOMAIN confs :
        /\ files' = conf_print(wrote)
        /\ saved' = [f \in IF MotionConf \in wrote THEN wrote ELSE DOMAIN saved \ wrote |->
                       IF f \in wrote THEN confs[f] ELSE saved[f]]
  BY DEF ConfigWrite
<1>2. UNCHANGED confs
  BY DEF ConfigWrite
<1>3. /\ DOMAIN files = Names /\ DOMAIN confs \subseteq Names
      /\ \A f \in DOMAIN confs : IsConf(confs[f])
  BY DEF WrittenInv, TypedInv
<1>4. files' = [f \in Names |-> IF f \in wrote THEN Generated(confs, f) ELSE files[f]]
  BY <1>1, <1>3 DEF conf_print
<1>5. TypedInv'
  <2>1. confLog' = [confLog EXCEPT !.writes = @ + 1]
    BY DEF ConfigWrite
  <2>2. confLog' \in [sets : Nat, writes : Nat, loads : Nat, missed : SUBSET Names]
    BY <2>1 DEF WrittenInv, TypedInv
  <2> QED
    BY <1>2, <1>4, <2>2 DEF WrittenInv, TypedInv
<1>6. FilesInv'
  <2> SUFFICES ASSUME NEW f \in Names PROVE IsFile(files'[f])
    BY DEF FilesInv
  <2>1. CASE f \in wrote
    <3>1. files'[f] = Generated(confs, f)
      BY <1>4, <2>1
    <3> QED
      BY <1>3, <2>1, <3>1, GeneratedIsFile
  <2>2. CASE f \notin wrote
    BY <1>4, <2>2 DEF WrittenInv, FilesInv
  <2> QED
    BY <2>1, <2>2
<1>7. SavedInv'
  <2>1. CASE MotionConf \in wrote
    <3>1. DOMAIN saved' = wrote /\ \A f \in wrote : saved'[f] = confs[f]
      BY <1>1, <2>1
    <3>2. ASSUME NEW f \in wrote
          PROVE  /\ IsConf(saved'[f]) /\ files'[f].lines = LinesOf(saved', f)
                 /\ files'[f].late = {}
                 /\ f # MotionConf => f \in files'[MotionConf].threads
      <4>1. files'[f] = Generated(confs, f) /\ files'[MotionConf] = Generated(confs, MotionConf)
        BY <1>3, <1>4, <2>1
      <4>2. LinesOf(saved', f) = LinesOf(confs, f)
        <5>1. \A o \in Options : Printed(saved', f, o) = Printed(confs, f, o)
          BY <2>1, <3>1 DEF Printed
        <5> QED
          BY <5>1 DEF LinesOf, Generated
      <4> QED
        BY <1>3, <3>1, <4>1, <4>2 DEF LinesOf, Generated
    <3> QED
      BY <1>3, <2>1, <3>1, <3>2 DEF SavedInv
  <2>2. CASE MotionConf \notin wrote
    <3>1. DOMAIN saved' = DOMAIN saved \ wrote /\ \A f \in DOMAIN saved' : saved'[f] = saved[f]
      BY <1>1, <2>2
    <3>2. ASSUME NEW f \in DOMAIN saved'
          PROVE  /\ IsConf(saved'[f]) /\ files'[f].lines = LinesOf(saved', f)
                 /\ files'[f].late = {} /\ MotionConf \in DOMAIN saved'
                 /\ f # MotionConf => f \in files'[MotionConf].threads
      <4>1. /\ f \in DOMAIN saved /\ f \in Names
            /\ IsConf(saved[f]) /\ MotionConf \in DOMAIN saved
            /\ files[f].lines = LinesOf(saved, f) /\ files[f].late = {}
            /\ f # MotionConf => f \in files[MotionConf].threads
        BY <3>1 DEF WrittenInv, SavedInv
      <4>2. files'[f] = files[f] /\ files'[MotionConf] = files[MotionConf]
        BY <1>4, <2>2, <3>1, <4>1 DEF Names
      <4>3. MotionConf \in DOMAIN saved'
        BY <2>2, <3>1, <4>1
      <4>4. \A o \in Options : Printed(saved', f, o) = Printed(saved, f, o)
        BY <3>1, <4>3 DEF Printed
      <4>5. LinesOf(saved', f) = LinesOf(saved, f)
        BY <4>4 DEF LinesOf, Generated
      <4> QED
        BY <3>1, <4>1, <4>2, <4>3, <4>5
    <3> QED
      BY <3>1, <3>2 DEF SavedInv, WrittenInv
  <2> QED
    BY <2>1, <2>2
<1> QED
  BY <1>5, <1>6, <1>7 DEF WrittenInv

LEMMA WrittenKeeps == WrittenInv /\ [ConfNext]_confVars => WrittenInv'
<1>1. WrittenInv /\ UNCHANGED confVars => WrittenInv'
  BY DEF WrittenInv, TypedInv, FilesInv, SavedInv, confVars
<1> QED
  BY <1>1, SetKeeps, WriteKeeps, ReloadKeeps DEF ConfNext

\* After a restart, a camera whose file was written with motion.conf is there with the
\* options it had: what conf_print leaves out, quotes or comments out, conf_load puts
\* back (SavedIsLoaded), for any options, files, defaults and command line.
THEOREM WrittenIsRead == ConfSpec => SavedIsLoaded
<1> DEFINE Read ==
      confLog'.loads # confLog.loads /\ MotionConf \notin confLog'.missed =>
        \A f \in DOMAIN saved \ confLog'.missed :
          /\ f \in DOMAIN confs'
          /\ \A o \in Options : Keeps(f, o) =>
               /\ saved[f][o] # NULL => confs'[f][o] = saved[f][o]
               /\ o \notin DOMAIN CommandLine /\ saved[MotionConf][o] # NULL =>
                    Shown(confs', f, o) = Shown(saved, f, o)
<1>1. ASSUME WrittenInv, ConfNext PROVE Read
  <2>1. CASE Reload
    <3>1. PICK missed \in SUBSET DOMAIN files :
            /\ confs' = conf_load(files, missed)
            /\ confLog' = [confLog EXCEPT !.loads = @ + 1, !.missed = missed]
      BY <2>1 DEF Reload
    <3>2. confLog'.missed = missed
      BY <1>1, <3>1 DEF WrittenInv, TypedInv
    <3>3. ASSUME NEW f \in DOMAIN saved \ missed, MotionConf \notin missed
          PROVE  f \in DOMAIN confs'
      <4>1. f \in DOMAIN conf_load(files, missed)
        BY <1>1, <3>3 DEF WrittenInv, SavedInv, FilesInv, conf_load
      <4> QED
        BY <3>1, <4>1
    <3>4. ASSUME NEW f \in DOMAIN saved \ missed, MotionConf \notin missed,
                 NEW o \in Options, Keeps(f, o)
          PROVE  /\ saved[f][o] # NULL => confs'[f][o] = saved[f][o]
                 /\ o \notin DOMAIN CommandLine /\ saved[MotionConf][o] # NULL =>
                      Shown(confs', f, o) = Shown(saved, f, o)
      BY <1>1, <3>1, <3>4, SavedIsRead
    <3> QED
      BY <3>2, <3>3, <3>4
  <2>2. CASE ConfigSet \/ ConfigWrite
    <3>1. confLog'.loads = confLog.loads
      BY <1>1, <2>2 DEF ConfigSet, ConfigWrite, WrittenInv, TypedInv
    <3> QED
      BY <3>1
  <2> QED
    BY <1>1, <2>1, <2>2 DEF ConfNext
<1> QED
  BY <1>1, WrittenInit, WrittenKeeps, PTL DEF ConfSpec, SavedIsLoaded
=============================================================================
