------------------------------ MODULE MCMotion ------------------------------
(***************************************************************************)
(* The parts of the motion process, for TLC: a behaviour runs the pictures *)
(* and events of one motion loop, or the threads of the process around it, *)
(* or its configuration, and the other parts stay as they begin.           *)
(***************************************************************************)
EXTENDS MotionLoop, MotionProcess, Configuration

VARIABLE runs

motionVars == <<loopVars, processVars, confVars, runs>>

-----------------------------------------------------------------------------
\* The motion.conf the board is shipped with.
Deployed == [pre_capture |-> 0, minimum_motion_frames |-> 1, event_gap |-> 0,
         post_capture |-> 0, useextpipe |-> FALSE, emulate_motion |-> FALSE,
         max_movie_time |-> FALSE, output_pictures |-> "center"]
\* Movies through a pipe, events with a gap, two frames to trigger.
Movies == [pre_capture |-> 0, minimum_motion_frames |-> 2, event_gap |-> 1,
         post_capture |-> 1, useextpipe |-> TRUE, emulate_motion |-> FALSE,
         max_movie_time |-> TRUE, output_pictures |-> "best"]
Emulate == [Deployed EXCEPT !.emulate_motion = TRUE, !.useextpipe = TRUE, !.post_capture = 1]
MCConfs == {Deployed, Movies, Emulate}

\* The 60 and 127 seconds below zero of motion.h, in proportion.
MCKill == -1
MCOff == -2

\* A string with a default and in quotation marks, one without, a bool, and an int
\* that is also given on the command line.
MCTypes == [text_right |-> "string", on_event_end |-> "string", noise_tune |-> "bool", log_level |-> "int"]
MCTemplate == [text_right |-> Bare("time"), on_event_end |-> NULL,
               noise_tune |-> Bare("on"), log_level |-> Bare("6")]
MCCommandLine == [log_level |-> Bare("5")]
MCTexts == {Bare("on")}

\* Two cameras, with the thread lines at the end of motion.conf or before an option.
MCLines(f) ==
  CASE f = "motion.conf"  -> [noise_tune |-> Bare("off"), on_event_end |-> [body |-> "7", around |-> "quoted"]]
    [] f = "thread1.conf" -> [noise_tune |-> Bare("yes"), text_right |-> [body |-> "7", around |-> "quoted"]]
    [] f = "thread2.conf" -> NoFile.lines
MCFirstFiles ==
  {[f \in {"motion.conf", "thread1.conf", "thread2.conf"} |->
      [lines   |-> MCLines(f),
       late    |-> IF f = "motion.conf" THEN late ELSE {},
       threads |-> IF f = "motion.conf" THEN {"thread1.conf", "thread2.conf"} ELSE {}]] :
   late \in {{}, {"noise_tune"}}}

-----------------------------------------------------------------------------
MotionInit == /\ runs \in {"loop", "process", "configuration"}
              /\ IF runs = "loop" THEN LoopInit ELSE LoopInit /\ conf = Deployed
              /\ ProcessInit
              /\ ConfInit
              /\ runs # "configuration" => files[MotionConf].late = {}

MotionNext == /\ UNCHANGED runs
              /\ \/ runs = "loop" /\ LoopNext /\ UNCHANGED <<processVars, confVars>>
                 \/ runs = "process" /\ ProcessNext /\ UNCHANGED <<loopVars, confVars>>
                 \/ runs = "configuration" /\ ConfNext /\ UNCHANGED <<loopVars, processVars>>

MotionSpec == /\ MotionInit /\ [][MotionNext]_motionVars
              /\ WF_processVars(runs = "process" /\ Main)
              /\ \A t \in Slots : WF_processVars(runs = "process" /\ Thread(t))
=============================================================================
