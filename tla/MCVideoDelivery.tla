--------------------------- MODULE MCVideoDelivery ---------------------------
(***************************************************************************)
(* Small instances of VideoDelivery for TLC.  As in the code the limit is  *)
(* a multiple of the block; the videos range from empty to longer than     *)
(* the limit, on and off block boundaries.                                 *)
(***************************************************************************)
EXTENDS VideoDelivery

MCSizes == 0..9
OnlyOminiLink == {"ominilink"}
=============================================================================
