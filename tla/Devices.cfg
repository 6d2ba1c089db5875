SPECIFICATION Spec
CONSTANTS
  Sockets = {s1, s2, s3}
  NoSocket = NoSocket
  NoBuffer = NoBuffer
  StreamAuths = {TRUE, FALSE}
  StreamLimits = {0, 1}
  MaxStreams = 2
  MaxRestarts = 1
  MaxConfigs = 1
  MaxFtpFaults = 3
  Cameras = {1, 2}
  MmapBuffers = 2
  Rounds = {2}
  MaxVideoFaults = 2
  MaxKills = 1
INVARIANTS BuffersCounted UsedIsLive
PROPERTIES ClientsServed FtpRecovers TurnsEnd OwnPictures
CHECK_DEADLOCK FALSE
