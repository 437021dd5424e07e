---------------------------- MODULE MCClipSync ----------------------------
(* Instances of ClipSync for TLC: the contents copied.                     *)
EXTENDS ClipSync
CONSTANTS A, B, F, G
===========================================================================
