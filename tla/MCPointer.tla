---------------------------- MODULE MCPointer -----------------------------
(* Instances of Pointer for TLC: two screens of different sizes.           *)
EXTENDS Pointer

Wide == [t \in Targets |-> IF t = "local" THEN 3 ELSE 4]
Tall == [t \in Targets |-> IF t = "local" THEN 4 ELSE 2]
Steps == {-1, 2}
Ys == {-1, 1, 4}
Some == {-1, 2}
Notches == {-1, 4}
===========================================================================
