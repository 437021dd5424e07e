----------------------------- MODULE MCBridge -----------------------------
(* Instances of Bridge for TLC: what the clients send in each run.         *)
EXTENDS Bridge

CONSTANTS a, b, shift, L

Key(t, u) == [t |-> t, usage |-> u]
Plain(ts) == [t : ts]

\* Every pointer message, a modifier to leave held, and the question for the status.
PointerFrames == [t : {"abs"}, pos : Coord] \cup [t : {"button"}, bits : {{}, {L, "high"}}]
                   \cup Plain({"hello", "wheel", "status", "malformed"}) \cup {Key("down", shift)}

\* Every key message, with the duplicates a KEY_STATE may put into the slots, and every way a
\* session begins and ends.
SessionFrames == {Key("down", a), Key("up", a),
                  [t |-> "state", mods |-> {}, keys |-> [s \in Slots |-> a]]}
                   \cup Plain({"hello", "release", "malformed"})
===========================================================================
