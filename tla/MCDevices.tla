----------------------------- MODULE MCDevices -----------------------------
(***************************************************************************)
(* Three components of the motion engine that meet only in the motion      *)
(* loop, each on its own: a behaviour runs one of them, and the two others *)
(* stay as they begin.                                                     *)
(***************************************************************************)
EXTENDS Stream, NetcamFtp, VideoDevice

VARIABLE runs

vars == <<streamVars, ftpVars, videoVars, runs>>

Init == /\ runs \in {"stream", "ftp", "video"}
        /\ FtpInit
        /\ IF runs = "stream" THEN StreamInit ELSE StreamInit /\ stream.auth /\ stream.limit = 0
        /\ IF runs = "video" THEN VideoInit ELSE VideoInit /\ videoLog.round = 2

Next == /\ UNCHANGED runs
        /\ \/ runs = "stream" /\ StreamNext /\ UNCHANGED <<ftpVars, videoVars>>
           \/ runs = "ftp" /\ FtpNext /\ UNCHANGED <<streamVars, videoVars>>
           \/ runs = "video" /\ VideoNext /\ UNCHANGED <<streamVars, ftpVars>>

Of(component, action) == runs = component /\ action
Spec == /\ Init /\ [][Next]_vars
        /\ WF_streamVars(Of("stream", stream_put)) /\ WF_streamVars(Of("stream", StreamStart))
        /\ WF_ftpVars(Of("ftp", FtpSteps))
        /\ WF_videoVars(Of("video", ~videoLog.revived /\ Capture))
        /\ \A c \in Cameras : WF_videoVars(Of("video", ~videoLog.revived /\ CameraLoop(c)))
=============================================================================
