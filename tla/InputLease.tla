---------------------------- MODULE InputLease ----------------------------
(***************************************************************************)
(* What the bridge daemon promises the target machine: input on the target *)
(* is held on a lease.  Keys, modifiers and buttons are down only while    *)
(* one client's session is open, a session starts with nothing down, and   *)
(* however it ends, it gives back a target on which nothing is down.       *)
(***************************************************************************)
CONSTANTS Conns,     \* the connections a client may open
          NoConn,    \* no session
          Inputs     \* keys, modifiers and buttons of the target

VARIABLES holder,    \* the connection whose session is open, or NoConn
          down       \* the inputs the target believes are down

leaseVars == <<holder, down>>

LeaseInit == holder = NoConn /\ down = {}

Grant(c) == /\ holder = NoConn
            /\ holder' = c
            /\ UNCHANGED down

\* The session moves the target's inputs one report at a time.
Use == /\ holder # NoConn
       /\ down' \in SUBSET Inputs
       /\ UNCHANGED holder

GiveBack == /\ holder # NoConn
            /\ holder' = NoConn
            /\ down' = {}

LeaseNext == (\E c \in Conns : Grant(c)) \/ Use \/ GiveBack

LeaseSpec == LeaseInit /\ [][LeaseNext]_leaseVars
===========================================================================
