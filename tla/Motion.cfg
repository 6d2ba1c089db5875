SPECIFICATION MotionSpec
CONSTANTS
  Confs <- MCConfs
  Scores = {1, 2}
  MaxCaptures = 5
  MaxOrders = 1
  StartupFrames = 2
  MovedFrames = 1
  Overs = {FALSE}
  Orders = {"makemovie", "quit", "finish", "config", "restart"}
  N = 1
  Slots = {1, 2, 3}
  WATCHDOG_TMO = 2
  WATCHDOG_KILL <- MCKill
  WATCHDOG_OFF <- MCOff
  Signals = {"SIGTERM"}
  Requests = {"restart", "quit", "makemovie"}
  MaxSignals = 1
  MaxRequests = 1
  MaxFaults = 1
  Options = {"text_right", "on_event_end", "noise_tune", "log_level"}
  TypeOf <- MCTypes
  TextOptions = {"text_right"}
  MainOptions = {"log_level"}
  conf_template <- MCTemplate
  CommandLine <- MCCommandLine
  Numerals = {"0", "5", "6", "7"}
  Texts <- MCTexts
  MotionConf = "motion.conf"
  Cameras = {"thread1.conf", "thread2.conf"}
  FirstFiles <- MCFirstFiles
  NULL = NULL
  MaxSets = 2
  MaxWrites = 2
  MaxLoads = 2
INVARIANTS QuitEndsMovie TriggerNeighbours NoStalePreview OneLoop
PROPERTIES SentInOrder SaveIsSent SavedIsLoaded QuitEnds StuckReplaced
CHECK_DEADLOCK FALSE
