---------------------------- MODULE Configuration ----------------------------
(***************************************************************************)
(* The options of the motion engine: how conf_load of conf.c reads them    *)
(* from motion.conf, from one file per camera and from the command line,   *)
(* how the control interface of webhttpd.c sets and shows them, and how    *)
(* conf_print writes the files again.  A context is named by its file.     *)
(*                                                                         *)
(* Of two lines for an option in a file the last one counts, so a file is  *)
(* a text per option.  What may be lost of a text is in `around': a blank  *)
(* before or after it, quotation marks, or both.  NULL is an undefined     *)
(* string, or a line or request without a value.  A camera has one file    *)
(* and one thread line.  The option `thread' is not set at run time here.  *)
(***************************************************************************)
EXTENDS Naturals

CONSTANTS
  Options,        \* config_params, without `thread'
  TypeOf,         \* config_type: "bool", "int" or "string"
  TextOptions,    \* those whose names begin with text
  MainOptions,    \* main_thread = 1
  conf_template,  \* the defaults
  CommandLine,    \* values given with -d, -k, -p and -l, for motion.conf's context
  Numerals,       \* bodies atoi understands
  Texts,          \* values a request may carry
  MotionConf, Cameras,   \* the name of motion.conf, and of the files of the cameras
  FirstFiles,     \* what the files may be when the engine starts
  NULL,
  MaxSets, MaxWrites, MaxLoads   \* bounds: requests and restarts in a behaviour

Around == {"none", "before", "after", "quotes", "quoted"}
Text == [body : STRING, around : Around]
Bare(body) == [body |-> body, around |-> "none"]
Zero == [bool |-> Bare("off"), int |-> Bare("0")]

\* What an option may hold.
Values(o) ==
  CASE TypeOf[o] = "bool"   -> {Bare("on"), Bare("off")}
    [] TypeOf[o] = "int"    -> {Bare(n) : n \in Numerals}
    [] TypeOf[o] = "string" -> (Text \ {Bare("")}) \cup {NULL}

ASSUME ConfigurationAssumption ==
  /\ TypeOf \in [Options -> {"bool", "int", "string"}]
  /\ Numerals \subseteq STRING /\ "0" \in Numerals
  /\ NULL \notin Text /\ Texts \subseteq Text
  /\ MotionConf \notin Cameras
  /\ DOMAIN conf_template = Options
  /\ \A o \in Options : conf_template[o] \in Values(o)
  /\ \A o \in DOMAIN CommandLine \cap Options : CommandLine[o] \in Values(o)
  /\ \A fs \in FirstFiles :
       /\ DOMAIN fs = {MotionConf} \cup Cameras
       /\ \A f \in DOMAIN fs :
            /\ DOMAIN fs[f].lines \subseteq Options /\ fs[f].late \subseteq Options
            /\ fs[f].threads \subseteq Cameras
            /\ \A o \in DOMAIN fs[f].lines : fs[f].lines[o] \in Text \cup {NULL}

VARIABLES
  confs,     \* cnt[i]->conf of each context
  files,     \* the files
  saved,     \* history: the options that were written, by files that have them still
  confLog    \* history: requests, restarts, and the files the last load missed

confVars == <<confs, files, saved, confLog>>

-----------------------------------------------------------------------------
(* Reading *)

\* copy_bool, copy_int (atoi passes over blanks) and copy_string (no empty strings).
Copied(o, text) ==
  CASE TypeOf[o] = "bool" -> IF text \in {Bare("1"), Bare("yes"), Bare("on")}
                             THEN Bare("on") ELSE Bare("off")
    [] TypeOf[o] = "int" -> IF text.body \in Numerals /\ text.around \in {"none", "before", "after"}
                            THEN Bare(text.body) ELSE Bare("0")
    [] TypeOf[o] = "string" -> IF text = Bare("") THEN NULL ELSE text

\* Only a string can be set to nothing.
conf_cmdparse(o, text, old) ==
  IF text # NULL THEN Copied(o, text)
  ELSE IF TypeOf[o] = "string" THEN NULL ELSE old

\* The blanks and then the quotation marks around an argument are discarded.
Trimmed(text) ==
  IF text = NULL THEN NULL
  ELSE [body |-> text.body, around |-> IF text.around = "quoted" THEN "before" ELSE "none"]

conf_process(lines, before) ==
  [o \in Options |-> IF o \in DOMAIN lines
                     THEN conf_cmdparse(o, Trimmed(lines[o]), before[o]) ELSE before[o]]

NoFile == [lines |-> [o \in {} |-> NULL], late |-> {}, threads |-> {}]
Lines(file, some) == [o \in DOMAIN file.lines \cap some |-> file.lines[o]]
conf_cmdline(conf) == [o \in Options |-> IF o \in DOMAIN CommandLine THEN CommandLine[o] ELSE conf[o]]

\* The clone of the first context as it is at the thread line, with the lines of the
\* camera's file.  The options of motion.conf after that line (`late') are then set in
\* all contexts.
config_thread(main, lines) ==
  LET early == conf_process(Lines(main, Options \ main.late), conf_template)
  IN conf_process(Lines(main, main.late), conf_process(lines, early))

conf_load(fs, missed) ==
  LET main == IF MotionConf \in missed THEN NoFile ELSE fs[MotionConf]
  IN [f \in {MotionConf} \cup (main.threads \ missed) |->
        IF f = MotionConf THEN conf_cmdline(conf_process(main.lines, conf_template))
        ELSE config_thread(main, fs[f].lines)]

-----------------------------------------------------------------------------
(* Printing *)

\* (Fault: a camera's option is left out when it has the default.)
PrintedUnlessDefault(c, f, o) ==
  IF f # MotionConf /\ c[f][o] = conf_template[o] THEN NULL ELSE c[f][o]
\* print_bool, print_int and print_string: NULL for a camera that is like the rest.
Printed(c, f, o) ==
  IF f # MotionConf /\ c[f][o] = c[MotionConf][o] THEN NULL ELSE c[f][o]

\* What config/list and config/get tell of the option.
Shown(c, f, o) == IF Printed(c, f, o) = NULL THEN c[MotionConf][o] ELSE Printed(c, f, o)

\* A text_* that begins with a blank is put in quotation marks.
AsLine(o, text) ==
  IF o \in TextOptions /\ text.around = "before" THEN [text EXCEPT !.around = "quoted"] ELSE text

\* The thread lines are last.
Generated(c, f) ==
  [lines   |-> [o \in {o \in Options : Printed(c, f, o) # NULL} |-> AsLine(o, Printed(c, f, o))],
   late    |-> {},
   threads |-> IF f = MotionConf THEN DOMAIN c \ {MotionConf} ELSE {}]
conf_print(wrote) == [f \in DOMAIN files |-> IF f \in wrote THEN Generated(confs, f) ELSE files[f]]

-----------------------------------------------------------------------------
(* The requests, and the restart *)

ConfInit ==
  /\ files \in FirstFiles
  /\ confs = conf_load(files, {})
  /\ saved = [f \in {} |-> NULL]
  /\ confLog = [sets |-> 0, writes |-> 0, loads |-> 0, missed |-> {}]

Settable(f) == IF f = MotionConf THEN Options ELSE Options \ MainOptions
\* copy_*: the context of motion.conf stands for all.
Reached(f) == IF f = MotionConf THEN DOMAIN confs ELSE {f}

\* A request without a value sets a bool to off and an int to 0.
Asked(o, text) == IF text = NULL /\ TypeOf[o] # "string" THEN Zero[TypeOf[o]] ELSE text

\* config/set
ConfigSet ==
  /\ confLog.sets < MaxSets
  /\ \E f \in DOMAIN confs : \E o \in Settable(f), text \in Texts \cup {NULL} :
       confs' = [g \in DOMAIN confs |->
                   IF g \in Reached(f)
                   THEN [confs[g] EXCEPT ![o] = conf_cmdparse(o, Asked(o, text), @)] ELSE confs[g]]
  /\ confLog' = [confLog EXCEPT !.sets = @ + 1]
  /\ UNCHANGED <<files, saved>>

\* config/write and config/writeyes.  A file that cannot be opened is passed over.
ConfigWrite ==
  /\ confLog.writes < MaxWrites
  /\ \E wrote \in SUBSET DOMAIN confs :
       /\ files' = conf_print(wrote)
       /\ saved' = [f \in IF MotionConf \in wrote THEN wrote ELSE DOMAIN saved \ wrote |->
                      IF f \in wrote THEN confs[f] ELSE saved[f]]
  /\ confLog' = [confLog EXCEPT !.writes = @ + 1]
  /\ UNCHANGED confs

\* SIGHUP or action/restart; or the process ended, between two files of a write at
\* the earliest, and is started anew.  A file that cannot be opened is passed over.
Reload ==
  /\ confLog.loads < MaxLoads
  /\ \E missed \in SUBSET DOMAIN files :
       /\ confs' = conf_load(files, missed)
       /\ confLog' = [confLog EXCEPT !.loads = @ + 1, !.missed = missed]
  /\ UNCHANGED <<files, saved>>

ConfNext == ConfigSet \/ ConfigWrite \/ Reload
ConfSpec == ConfInit /\ [][ConfNext]_confVars

-----------------------------------------------------------------------------
(* Property *)

\* Options that come from the command line again, and texts the files cannot hold:
\* with quotation marks, or with blanks around them that nobody quotes.
Holds(o, text) ==
  text # NULL => text.around = "none" \/ (o \in TextOptions /\ text.around = "before")
Keeps(f, o) ==
  /\ f = MotionConf => o \notin DOMAIN CommandLine
  /\ Holds(o, saved[f][o]) /\ Holds(o, saved[MotionConf][o])

\* What was written is read again (motion_guide.html:689, "motion will overwrite
\* motion.conf and all the thread.conf files"): after a restart every camera whose
\* file was written with motion.conf is there and has the options it had, though the
\* files leave out what is common and the cameras' files may have been missed before.
\* A string that was set to nothing is not written: there the camera takes that of
\* motion.conf, as the control interface said it had, and motion.conf the default.
SavedIsLoaded ==
  [][confLog'.loads # confLog.loads /\ MotionConf \notin confLog'.missed =>
       \A f \in DOMAIN saved \ confLog'.missed :
         /\ f \in DOMAIN confs'
         /\ \A o \in Options : Keeps(f, o) =>
              /\ saved[f][o] # NULL => confs'[f][o] = saved[f][o]
              /\ o \notin DOMAIN CommandLine /\ saved[MotionConf][o] # NULL =>
                   Shown(confs', f, o) = Shown(saved, f, o)]_confVars
=============================================================================
