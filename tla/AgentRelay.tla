---------------------------- MODULE AgentRelay ----------------------------
(***************************************************************************)
(* The connection between the Linux clipboard agent (clipboard.rs) and the *)
(* data relay on the Pi (beaglewing-data.rs).  The agent's main loop opens *)
(* a connection, a reader thread per connection turns what arrives into    *)
(* events of one inbox, and a ticker sends PINGs.  The relay serves one    *)
(* connection at a time, answers PINGs and passes other frames to the      *)
(* host.  The network may fail and come back, the Pi may lose power, the   *)
(* relay or the agent may be restarted, the host may stop draining.        *)
(***************************************************************************)
EXTENDS Integers, Sequences, FiniteSets

CONSTANTS Conns,      \* TCP connections (bound: reused once both ends have closed)
          NoConn,
          MaxInbox,   \* most events in the agent's inbox, beside disconnected (bound)
          MaxFrames,  \* most frames in flight one way on a connection (bound)
          Faults,     \* which of power, network, relay, host, restart happen
          MaxFaults   \* most of them (bound)

ASSUME AgentRelayAssumption ==
    /\ NoConn \notin Conns /\ IsFiniteSet(Conns)
    /\ MaxInbox \in Nat /\ MaxFrames \in Nat /\ MaxFaults \in Nat
    /\ Faults \subseteq {"power", "network", "relay", "host", "restart"}

VARIABLES writer,    \* the connection of the agent's session, NoConn while it reconnects
          readers,   \* connections whose reader thread runs: each holds its socket open
          inbox,     \* rx: tick, local, pong, data, disconnected
          silent,    \* last_rx is more than 30 s ago
          conn,      \* free, queued (not yet accepted), served, closed by the agent,
           \* reset by the Pi, or a zombie: alive for the agent, forgotten by the Pi
          up,        \* frames in flight to the relay: ping, data
          back,      \* frames in flight to the agent: pong, data
          serving,   \* the connection the relay's accept loop is in
          current,   \* the client the relay's pump writes to
          backlog,   \* connections the relay has yet to accept
          relay,     \* the relay process runs
          netUp, drains,
          faults,
          restarted  \* the agent was restarted, and the host was awake
agent == <<writer, readers, inbox, silent>>
tcp == <<conn, up, back>>
server == <<serving, current, backlog>>
world == <<relay, netUp, drains, faults, restarted>>
vars == <<agent, tcp, server, world>>

Init == /\ writer = NoConn /\ readers = {} /\ inbox = << >> /\ silent = FALSE
        /\ conn = [c \in Conns |-> "free"]
        /\ up = [c \in Conns |-> << >>] /\ back = [c \in Conns |-> << >>]
        /\ serving = NoConn /\ current = NoConn /\ backlog = << >>
        /\ relay = TRUE /\ netUp = TRUE /\ drains = TRUE /\ faults = 0 /\ restarted = FALSE

Free == {c \in Conns : conn[c] = "free"}
-----------------------------------------------------------------------------
(* The agent's main loop. *)

\* TcpStream::connect succeeds as soon as the Pi's kernel queues the connection.  It comes 2 s
\* after the last session: the readers of connections that were reset have reported by then.
Connect == /\ writer = NoConn /\ relay /\ netUp
           /\ \A c \in readers : conn[c] # "reset"
           /\ \E c \in Free :
                /\ writer' = c /\ readers' = readers \cup {c}
                /\ conn' = [conn EXCEPT ![c] = "queued"]
                /\ up' = [up EXCEPT ![c] = << >>] /\ back' = [back EXCEPT ![c] = << >>]
                /\ backlog' = Append(backlog, c)
           /\ silent' = FALSE
           /\ UNCHANGED <<inbox, serving, current, world>>

\* Bound: with Conns used up, the last connection in the backlog stands for one more behind it.
ConnectMore == /\ writer = NoConn /\ relay /\ netUp /\ Free = {} /\ backlog # << >>
               /\ \A c \in readers : conn[c] # "reset"
               /\ conn[backlog[Len(backlog)]] = "queued" /\ writer' = backlog[Len(backlog)]
               /\ silent' = FALSE
               /\ UNCHANGED <<readers, inbox, tcp, server, world>>

Handle(kind) == /\ writer # NoConn /\ inbox # << >> /\ Head(inbox) = kind
                /\ inbox' = Tail(inbox)
                /\ UNCHANGED <<readers, server, world>>

\* break 'session: only the writer is dropped.  Its reader keeps the socket open.
Break == writer' = NoConn /\ UNCHANGED <<silent, tcp>>

\* A write to a connection that is not reset is in flight.  Bound: what is in flight beyond
\* MaxFrames is left out, and the loop goes on.  With a window (256 KB) unacknowledged the send
\* buffer may be full: write_all then waits for room, or for the kernel to give the connection up.
WriteFails == conn[writer] = "reset"
Write(f) == /\ up' = IF Len(up[writer]) < MaxFrames
                     THEN [up EXCEPT ![writer] = Append(@, f)] ELSE up
            /\ UNCHANGED <<writer, conn, back>>

TickSilent == Handle("tick") /\ silent /\ Break
TickPing == Handle("tick") /\ ~silent /\ ~WriteFails /\ Write("ping") /\ UNCHANGED silent
TickFails == Handle("tick") /\ ~silent /\ WriteFails /\ Break

\* A transfer, an offer or a pull is written.  Bound: a transfer takes less than 30 s.
Send == ~WriteFails /\ Write("data") /\ UNCHANGED silent
LocalSend == Handle("local") /\ Send
LocalFails == Handle("local") /\ WriteFails /\ Break

\* Any frame, whichever connection it came on, refreshes last_rx.  A PULL is answered with a
\* transfer, a PING of the helper's with a PONG, anything else with nothing.
PongArrives == Handle("pong") /\ silent' = FALSE /\ UNCHANGED <<writer, tcp>>
DataArrives == Handle("data") /\ silent' = FALSE /\ UNCHANGED <<writer, tcp>>
PullArrives == Handle("data") /\ Send
PullFails == Handle("data") /\ WriteFails /\ writer' = NoConn /\ silent' = FALSE /\ UNCHANGED tcp

\* The event does not say whose reader sent it.
Disconnected == Handle("disconnected") /\ Break
-----------------------------------------------------------------------------
(* Its threads: readers, the ticker, the clipboard watcher, the clock. *)

Posted == {inbox[i] : i \in DOMAIN inbox}
Post(kind) == Len(inbox) < MaxInbox /\ inbox' = Append(inbox, kind)

Read(c) == /\ c \in readers /\ netUp /\ conn[c] = "served" /\ back[c] # << >>
           /\ Post(Head(back[c])) /\ back' = [back EXCEPT ![c] = Tail(@)]
           /\ UNCHANGED <<writer, readers, silent, conn, up, server, world>>

\* read_exact fails: the thread ends, and with it the last handle if the session is over.
ReadFails(c) == /\ c \in readers /\ conn[c] = "reset"
                /\ inbox' = Append(inbox, "disconnected") /\ readers' = readers \ {c}
                /\ conn' = IF writer = c THEN conn ELSE [conn EXCEPT ![c] = "free"]
                /\ UNCHANGED <<writer, silent, up, back, server, world>>

\* Mutant: the link has no heartbeat
NoTicker == FALSE
Ticker == /\ "tick" \notin Posted /\ Post("tick")
          /\ UNCHANGED <<writer, readers, silent, tcp, server, world>>
Watcher == /\ inbox = << >> /\ Post("local")
           /\ UNCHANGED <<writer, readers, silent, tcp, server, world>>

\* A socket is closed with its last handle: the session is over and the reader has ended.  A
\* zombie with nothing to retransmit blocks its reader for good: it is taken out of the model.
Close(c) == /\ writer # c
            /\ \/ conn[c] = "reset" /\ c \notin readers
               \/ conn[c] = "zombie" /\ up[c] = << >>
            /\ conn' = [conn EXCEPT ![c] = "free"] /\ readers' = readers \ {c}
            /\ UNCHANGED <<writer, inbox, silent, up, back, server, world>>

\* The relay gets to a connection within seconds: it serves it, or all before it are closed.
Answered(c) ==
    LET queue == <<serving>> \o backlog
    IN /\ relay /\ netUp
       /\ \E i \in DOMAIN queue : /\ queue[i] = c
                               /\ \A j \in 1..(i - 1) : queue[j] = NoConn \/ conn[queue[j]] = "closed"
       /\ drains \/ "data" \notin {up[c][i] : i \in DOMAIN up[c]}

\* 30 s pass without a frame only when no PONG comes.
Silence == /\ writer # NoConn /\ ~silent /\ ~Answered(writer)
           /\ Posted \cap {"pong", "data"} = {}
           /\ silent' = TRUE
           /\ UNCHANGED <<writer, readers, inbox, tcp, server, world>>
-----------------------------------------------------------------------------
(* The relay: the accept loop is in one connection until its read fails. *)

\* Mutant: the pump's client is set only when there is none
AcceptKeepsPump == /\ relay /\ serving = NoConn /\ backlog # << >>
                   /\ LET c == Head(backlog)
                      IN /\ serving' = c /\ backlog' = Tail(backlog)
                         /\ current' = IF current = NoConn THEN c ELSE current
                         /\ conn' = IF conn[c] = "queued" THEN [conn EXCEPT ![c] = "served"] ELSE conn
                   /\ UNCHANGED <<agent, up, back, world>>
Accept == /\ relay /\ serving = NoConn /\ backlog # << >>
          /\ LET c == Head(backlog)
             IN /\ serving' = c /\ current' = c /\ backlog' = Tail(backlog)
                /\ conn' = IF conn[c] = "queued" THEN [conn EXCEPT ![c] = "served"] ELSE conn
          /\ UNCHANGED <<agent, up, back, world>>

Serve == relay /\ netUp /\ serving # NoConn /\ conn[serving] = "served" /\ up[serving] # << >>
Frame == Head(up[serving])
Served == up' = [up EXCEPT ![serving] = Tail(@)] /\ UNCHANGED <<agent, conn, server, world>>

AnswerPing == /\ Serve /\ Frame = "ping" /\ Len(back[serving]) < MaxFrames
              /\ Served /\ back' = [back EXCEPT ![serving] = Append(@, "pong")]

\* write_frame: into the IN endpoint.  A host that does not drain holds the accept loop for
\* 10 s per frame, then the frame is dropped: as long as frames come, it is held.
ToHost == Serve /\ Frame = "data" /\ drains /\ Served /\ UNCHANGED back

\* The pump: a frame of the host's goes to the current client, or nowhere.
FromHost == /\ relay /\ current # NoConn /\ conn[current] = "served" /\ back[current] = << >>
            /\ back' = [back EXCEPT ![current] = << "data" >>]
            /\ UNCHANGED <<agent, conn, up, server, world>>

\* A write to a client that has closed ends in an error.
PumpFails == /\ relay /\ current # NoConn /\ conn[current] # "served"
             /\ current' = NoConn
             /\ UNCHANGED <<agent, tcp, serving, backlog, world>>

\* Mutant: the read error is retried
HangupRetried == FALSE
\* read_exact fails once the agent's end is closed: clean-up, and the next client.  A socket
\* that was reset has no peer address any more: the pump then keeps it until it is replaced.
Hangup == /\ relay /\ netUp /\ serving # NoConn /\ conn[serving] = "closed"
          /\ serving' = NoConn
          /\ current' \in IF current = serving THEN {NoConn, current} ELSE {current}
          /\ conn' = [conn EXCEPT ![serving] = "free"]
          /\ UNCHANGED <<agent, up, back, backlog, world>>
-----------------------------------------------------------------------------
(* Faults and recovery. *)

Fault(f) == f \in Faults /\ faults < MaxFaults /\ faults' = faults + 1
Forget == serving' = NoConn /\ current' = NoConn /\ backlog' = << >>

\* The Pi loses power: no FIN; it comes back knowing no connection.
PowerCut == /\ Fault("power") /\ relay /\ relay' = FALSE /\ Forget
            /\ conn' = [c \in Conns |-> IF conn[c] \in {"queued", "served"} THEN "zombie"
                                        ELSE IF conn[c] = "closed" THEN "free" ELSE conn[c]]
            /\ UNCHANGED <<agent, up, back, netUp, drains, restarted>>
\* The relay process ends and systemd starts it again: the kernel closes its connections.
RelayDies == /\ Fault("relay") /\ relay /\ netUp /\ relay' = FALSE /\ Forget
             /\ conn' = [c \in Conns |-> IF conn[c] \in {"queued", "served"} THEN "reset"
                                         ELSE IF conn[c] = "closed" THEN "free" ELSE conn[c]]
             /\ UNCHANGED <<agent, up, back, netUp, drains, restarted>>
Boot == /\ ~relay /\ relay' = TRUE
        /\ UNCHANGED <<agent, tcp, server, netUp, drains, faults, restarted>>

\* A retransmitted segment meets a kernel that knows no such connection.
ZombieReset(c) == /\ relay /\ netUp /\ conn[c] = "zombie" /\ up[c] # << >>
                  /\ conn' = [conn EXCEPT ![c] = "reset"]
                  /\ UNCHANGED <<agent, up, back, server, world>>

NetworkFails == /\ Fault("network") /\ netUp /\ netUp' = FALSE
                /\ UNCHANGED <<agent, tcp, server, relay, drains, restarted>>
NetworkBack == /\ ~netUp /\ netUp' = TRUE
               /\ UNCHANGED <<agent, tcp, server, relay, drains, faults, restarted>>

HostSleeps == /\ Fault("host") /\ drains /\ drains' = FALSE
              /\ UNCHANGED <<agent, tcp, server, relay, netUp, restarted>>
HostWakes == /\ ~drains /\ drains' = TRUE
             /\ UNCHANGED <<agent, tcp, server, relay, netUp, faults, restarted>>

\* systemctl restart beaglewing-clipboard: every socket of the agent is closed.  This is the
\* last fault: what follows it is the new process.
Restart == /\ "restart" \in Faults /\ ~restarted /\ restarted' = drains /\ faults' = MaxFaults
           /\ writer' = NoConn /\ readers' = {} /\ inbox' = << >> /\ silent' = FALSE
           /\ conn' = [c \in Conns |-> IF conn[c] \in {"queued", "served", "closed"} THEN "closed" ELSE "free"]
           /\ UNCHANGED <<up, back, server, relay, netUp, drains>>
-----------------------------------------------------------------------------
Main == Connect \/ ConnectMore \/ TickSilent \/ TickPing \/ TickFails \/ LocalSend \/ LocalFails
          \/ PongArrives \/ DataArrives \/ PullArrives \/ PullFails \/ Disconnected
Threads == \E c \in Conns : Read(c) \/ ReadFails(c) \/ Close(c)
Relay == Accept \/ AnswerPing \/ ToHost \/ Hangup
World == \/ FromHost \/ PumpFails \/ Watcher \/ PowerCut \/ RelayDies \/ NetworkFails \/ HostSleeps \/ Restart
         \/ Boot \/ NetworkBack \/ HostWakes \/ \E c \in Conns : ZombieReset(c)

Next == Main \/ Threads \/ Ticker \/ Silence \/ Relay \/ World
Spec == Init /\ [][Next]_vars

\* Every thread runs, time passes, what failed comes back, and TCP retransmits.
Fairness == /\ WF_vars(Main) /\ WF_vars(Ticker) /\ WF_vars(Silence)
            /\ \A c \in Conns : WF_vars(Read(c)) /\ WF_vars(ReadFails(c) \/ Close(c) \/ ZombieReset(c))
            /\ WF_vars(Relay) /\ WF_vars(Boot) /\ WF_vars(NetworkBack) /\ WF_vars(HostWakes)
FairSpec == Spec /\ Fairness
-----------------------------------------------------------------------------
(* Properties *)

\* The type invariant of the agent, the relay and what is between them.
TypeOK == /\ writer \in Conns \cup {NoConn} /\ readers \subseteq Conns
          /\ inbox \in Seq({"tick", "local", "pong", "data", "disconnected"})
          /\ conn \in [Conns -> {"free", "queued", "served", "closed", "reset", "zombie"}]
          /\ \A c \in Conns : up[c] \in Seq({"ping", "data"}) /\ back[c] \in Seq({"pong", "data"})
          /\ {serving, current} \subseteq Conns \cup {NoConn} /\ backlog \in Seq(Conns)
          /\ {silent, relay, netUp, drains, restarted} \subseteq BOOLEAN /\ faults \in 0..MaxFaults

\* The pump and the accept loop agree: while a client is served, the host's frames go to it,
\* whatever the clean-up after the client before it left in the pump's place.
PumpFollowsServed == serving # NoConn /\ conn[serving] = "served" => current = serving

\* "The agent reconnects after 30s of silence" (docs/clipboard.md:127): a session on a
\* connection the Pi has forgotten comes to an end.
SilenceDetected == \A c \in Conns : (writer = c /\ conn[c] = "zombie") ~> writer # c

\* "Clipboard stopped syncing in both directions.  Restart the Linux agent" (README.md:168):
\* whatever happened before it, an agent restarted while the host is awake comes to be served
\* and stays so.
RestartRecovers == restarted ~> [](writer # NoConn /\ serving = writer)

\* "It now detects a rebooted Pi within 30s" (README.md:169): once the faults are over, the
\* agent has a session that the relay serves.
Recovers == <>[](writer # NoConn /\ serving = writer)
===========================================================================
