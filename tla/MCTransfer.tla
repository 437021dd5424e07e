---------------------------- MODULE MCTransfer ----------------------------
(* Instances of Transfer for TLC: the payloads copied.                     *)
EXTENDS Transfer

\* Longer than the window and than the sequence numbers' range; shorter than both; too long.
Different == <<4, 2, 5>>
===========================================================================
