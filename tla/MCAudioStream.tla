--------------------------- MODULE MCAudioStream ---------------------------
(* AudioStream for TLC.  The state space is finite without any bound but   *)
(* the length of the command queue.                                        *)
EXTENDS AudioStream

=============================================================================
