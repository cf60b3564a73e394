--------------------------- MODULE MCSpeechStream ---------------------------
(***************************************************************************)
(* SpeechStream for TLC: speeches of up to three messages, of which the    *)
(* longest is over the size limit.                                         *)
(***************************************************************************)
EXTENDS SpeechStream

=============================================================================
