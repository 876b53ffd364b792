--------------------------- MODULE MCCommandLog ---------------------------
(* A small instance of CommandLog.  Nothing happens any more when every    *)
(* command and every event has arrived or is lost.                         *)
EXTENDS CommandLog
=============================================================================
