------------------------- MODULE MCServerConnections -------------------------
(***************************************************************************)
(* ServerConnections with a board and a user interface, for TLC.           *)
(***************************************************************************)
EXTENDS ServerConnections

CONSTANTS c1, c2

MCSends == {<<c1, "image", 1>>, <<c2, "request", 1>>}
=============================================================================
