SPECIFICATION NetcamSpec
CONSTANTS
  Kinds = {"html", "mjpg", "ftp", "file"}
  Keepalives = {TRUE, FALSE}
  MaxFaults = 3
  MaxCloses = 2
INVARIANTS DecodesNew
PROPERTIES CleanupEnds Delivers
CHECK_DEADLOCK FALSE
