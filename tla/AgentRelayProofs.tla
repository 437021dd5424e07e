------------------------- MODULE AgentRelayProofs -------------------------
(***************************************************************************)
(* The relay's pump and its accept loop agree on the client, and the relay *)
(* loses sight of no connection, for every number of connections and every *)
(* sequence of faults.                                                     *)
(***************************************************************************)
EXTENDS AgentRelay, TLAPS

Kinds == {"tick", "local", "pong", "data", "disconnected"}
States == {"free", "queued", "served", "closed", "reset", "zombie"}

\* The type invariant with the domains of up and back
Typed == /\ TypeOK
         /\ up \in [Conns -> Seq({"ping", "data"})] /\ back \in [Conns -> Seq({"pong", "data"})]

LEMMA AppendSeq ==
    ASSUME NEW S, NEW s \in Seq(S), NEW e \in S
    PROVE  Append(s, e) \in Seq(S)
  OBVIOUS

LEMMA TailSeq ==
    ASSUME NEW S, NEW s \in Seq(S), s # << >>
    PROVE  /\ Tail(s) \in Seq(S) /\ Head(s) \in S
           /\ Len(s) \in 1..Len(s) /\ s[Len(s)] \in S
  OBVIOUS

LEMMA InitTyped == Init => Typed
  <1> SUFFICES ASSUME Init PROVE Typed
    OBVIOUS
  <1>1. {silent, relay, netUp, drains, restarted} \subseteq BOOLEAN
    BY Zenon DEF Init
  <1> QED BY <1>1, AgentRelayAssumption DEF Init, Typed, TypeOK

-----------------------------------------------------------------------------
(* Types, one group of actions after the other. *)

LEMMA MainTyped ==
    ASSUME Typed, Main
    PROVE  Typed'
  <1> USE DEF Typed, TypeOK
  <1>1. UNCHANGED <<relay, netUp, drains, restarted, faults>>
    BY DEF Main, Connect, ConnectMore, TickSilent, TickPing, TickFails, LocalSend, LocalFails, Send,
           PongArrives, DataArrives, PullArrives, PullFails, Disconnected, Handle, world
  <1>2. silent' \in BOOLEAN
    <2>1. silent' = silent \/ silent' = FALSE
      BY DEF Main, Connect, ConnectMore, TickSilent, TickPing, TickFails, LocalSend, LocalFails, Send,
           PongArrives, DataArrives, PullArrives, PullFails, Disconnected, Write, Break
    <2> QED BY <2>1, Zenon
  <1>3. {silent, relay, netUp, drains, restarted}' \subseteq BOOLEAN
    BY <1>1, <1>2, Zenon
  <1>4. CASE Connect
    <2>1. PICK c \in Free : /\ writer' = c /\ readers' = readers \cup {c}
                            /\ conn' = [conn EXCEPT ![c] = "queued"]
                            /\ up' = [up EXCEPT ![c] = << >>] /\ back' = [back EXCEPT ![c] = << >>]
                            /\ backlog' = Append(backlog, c)
      BY <1>4 DEF Connect
    <2>2. c \in Conns BY DEF Free
    <2>3. backlog' \in Seq(Conns) BY <2>1, <2>2, AppendSeq
    <2>4. up' \in [Conns -> Seq({"ping", "data"})] /\ back' \in [Conns -> Seq({"pong", "data"})]
      BY <2>1, <2>2
    <2> QED BY <1>1, <1>3, <1>4, <2>1, <2>2, <2>3, <2>4 DEF Connect
  <1>5. CASE ConnectMore
    <2>1. writer' \in Conns BY <1>5, TailSeq DEF ConnectMore
    <2> QED BY <1>1, <1>3, <1>5, <2>1 DEF ConnectMore, tcp, server
  <1>6. ASSUME NEW kind, Handle(kind)
        PROVE  inbox' \in Seq(Kinds) /\ writer \in Conns /\ UNCHANGED <<readers, server>>
    BY <1>6, TailSeq DEF Handle, Kinds
  <1>7. ASSUME NEW f \in {"ping", "data"}, Write(f), writer \in Conns
        PROVE  up' \in [Conns -> Seq({"ping", "data"})] /\ UNCHANGED <<writer, conn, back>>
    <2>1. Append(up[writer], f) \in Seq({"ping", "data"}) BY <1>7, AppendSeq
    <2> QED BY <1>7, <2>1 DEF Write
  <1>8. CASE TickPing
    <2>1. Handle("tick") /\ Write("ping") BY <1>8 DEF TickPing
    <2> QED BY <1>1, <1>3, <1>6, <1>7, <2>1 DEF server, Kinds
  <1>9. CASE LocalSend \/ PullArrives
    <2>1. PICK kind : Handle(kind) BY <1>9 DEF LocalSend, PullArrives
    <2>2. Write("data") BY <1>9 DEF LocalSend, PullArrives, Send
    <2> QED BY <1>1, <1>3, <1>6, <1>7, <2>1, <2>2 DEF server, Kinds
  <1>10. CASE TickSilent \/ TickFails \/ LocalFails \/ PullFails \/ Disconnected \/ PongArrives \/ DataArrives
    <2>1. PICK kind : Handle(kind)
      BY <1>10 DEF TickSilent, TickFails, LocalFails, PullFails, Disconnected, PongArrives, DataArrives
    <2>2. writer' \in {writer, NoConn} /\ UNCHANGED tcp
      BY <1>10 DEF TickSilent, TickFails, LocalFails, PullFails, Disconnected, PongArrives, DataArrives, Break
    <2> QED BY <1>1, <1>3, <1>6, <2>1, <2>2 DEF server, tcp, Kinds
  <1> QED BY <1>4, <1>5, <1>8, <1>9, <1>10 DEF Main

LEMMA ThreadsTyped ==
    ASSUME Typed, Threads \/ Ticker \/ Silence
    PROVE  Typed'
  <1> USE DEF Typed, TypeOK
  <1>1. ASSUME NEW kind \in Kinds, Post(kind) PROVE inbox' \in Seq(Kinds)
    BY <1>1, AppendSeq DEF Post, Kinds
  <1>2. CASE Threads
    <2>1. PICK c \in Conns : Read(c) \/ ReadFails(c) \/ Close(c)
      BY <1>2 DEF Threads
    <2>2. UNCHANGED <<silent, relay, netUp, drains, restarted, faults>>
      BY <2>1 DEF Read, ReadFails, Close, world
    <2>3. {silent, relay, netUp, drains, restarted}' \subseteq BOOLEAN BY <2>2, Zenon
    <2>4. CASE Read(c)
      <3>1. Head(back[c]) \in {"pong", "data"} /\ Tail(back[c]) \in Seq({"pong", "data"})
        BY <2>4, TailSeq DEF Read
      <3>2. inbox' \in Seq(Kinds) BY <1>1, <2>4, <3>1 DEF Read, Kinds
      <3> QED BY <2>2, <2>3, <2>4, <3>1, <3>2 DEF Read, server, Kinds
    <2>5. CASE ReadFails(c)
      <3>1. inbox' \in Seq(Kinds) BY <2>5, AppendSeq DEF ReadFails, Kinds
      <3>2. conn' \in [Conns -> States] BY <2>5 DEF ReadFails, States
      <3> QED BY <2>2, <2>3, <2>5, <3>1, <3>2 DEF ReadFails, server, Kinds, States
    <2>6. CASE Close(c)
      BY <2>2, <2>3, <2>6 DEF Close, server
    <2> QED BY <2>1, <2>4, <2>5, <2>6
  <1>3. CASE Ticker
    <2>1. inbox' \in Seq(Kinds) BY <1>1, <1>3 DEF Ticker, Kinds
    <2>2. UNCHANGED <<silent, relay, netUp, drains, restarted, faults>> BY <1>3 DEF Ticker, world
    <2>3. {silent, relay, netUp, drains, restarted}' \subseteq BOOLEAN BY <2>2, Zenon
    <2> QED BY <1>3, <2>1, <2>2, <2>3 DEF Ticker, tcp, server, Kinds
  <1>4. CASE Silence
    <2>1. silent' = TRUE /\ UNCHANGED <<relay, netUp, drains, restarted, faults>> BY <1>4 DEF Silence, world
    <2>2. {silent, relay, netUp, drains, restarted}' \subseteq BOOLEAN BY <2>1, Zenon
    <2> QED BY <1>4, <2>1, <2>2 DEF Silence, tcp, server
  <1> QED BY <1>2, <1>3, <1>4

LEMMA RelayTyped ==
    ASSUME Typed, Relay \/ FromHost \/ PumpFails
    PROVE  Typed'
  <1> USE DEF Typed, TypeOK
  <1>1. UNCHANGED <<silent, relay, netUp, drains, restarted, faults>>
    BY DEF Relay, Accept, AnswerPing, ToHost, Hangup, Served, FromHost, PumpFails, agent, world
  <1>2. {silent, relay, netUp, drains, restarted}' \subseteq BOOLEAN BY <1>1, Zenon
  <1>3. CASE Accept
    <2>1. Head(backlog) \in Conns /\ Tail(backlog) \in Seq(Conns)
      BY <1>3, TailSeq DEF Accept
    <2> QED BY <1>1, <1>2, <1>3, <2>1 DEF Accept, agent
  <1>4. ASSUME Served, Serve
        PROVE  /\ up' \in [Conns -> Seq({"ping", "data"})]
               /\ serving \in Conns /\ UNCHANGED <<agent, conn, server>>
    <2>1. Tail(up[serving]) \in Seq({"ping", "data"}) BY <1>4, TailSeq DEF Serve
    <2> QED BY <1>4, <2>1 DEF Served, Serve
  <1>5. CASE AnswerPing
    <2>1. Serve /\ Served BY <1>5 DEF AnswerPing
    <2>2. Append(back[serving], "pong") \in Seq({"pong", "data"}) BY <1>4, <2>1, AppendSeq
    <2>3. back' \in [Conns -> Seq({"pong", "data"})] BY <1>5, <2>2 DEF AnswerPing
    <2> QED BY <1>1, <1>2, <1>4, <2>1, <2>3 DEF agent, server
  <1>6. CASE ToHost
    BY <1>1, <1>2, <1>4, <1>6 DEF ToHost, agent, server
  <1>7. CASE Hangup
    BY <1>1, <1>2, <1>7 DEF Hangup, agent
  <1>8. CASE FromHost
    <2>1. << "data" >> \in Seq({"pong", "data"}) OBVIOUS
    <2> QED BY <1>1, <1>2, <1>8, <2>1 DEF FromHost, agent, server
  <1>9. CASE PumpFails
    BY <1>1, <1>2, <1>9 DEF PumpFails, agent, tcp
  <1> QED BY <1>3, <1>5, <1>6, <1>7, <1>8, <1>9 DEF Relay

LEMMA WorldTyped ==
    ASSUME Typed, Watcher \/ PowerCut \/ RelayDies \/ NetworkFails \/ HostSleeps \/ Restart \/ Boot
                    \/ NetworkBack \/ HostWakes \/ \E c \in Conns : ZombieReset(c)
    PROVE  Typed'
  <1> USE DEF Typed, TypeOK
  <1>1. {silent, relay, netUp, drains, restarted}' \subseteq BOOLEAN
    <2>1. CASE Watcher \/ \E c \in Conns : ZombieReset(c)
      <3>1. UNCHANGED <<silent, relay, netUp, drains, restarted>> BY <2>1 DEF Watcher, ZombieReset, agent, world
      <3> QED BY <3>1, Zenon
    <2>2. CASE PowerCut \/ RelayDies
      <3>1. relay' = FALSE /\ UNCHANGED <<silent, netUp, drains, restarted>>
        BY <2>2 DEF PowerCut, RelayDies, agent
      <3> QED BY <3>1, Zenon
    <2>3. CASE NetworkFails \/ HostSleeps \/ Boot \/ NetworkBack \/ HostWakes
      <3>1. /\ silent' = silent /\ restarted' = restarted
            /\ relay' = relay \/ relay' = TRUE
            /\ netUp' = netUp \/ netUp' = TRUE \/ netUp' = FALSE
            /\ drains' = drains \/ drains' = TRUE \/ drains' = FALSE
        BY <2>3 DEF NetworkFails, HostSleeps, Boot, NetworkBack, HostWakes, agent
      <3> QED BY <3>1, Zenon
    <2>4. CASE Restart
      <3>1. silent' = FALSE /\ restarted' = drains /\ UNCHANGED <<relay, netUp, drains>> BY <2>4 DEF Restart
      <3> QED BY <3>1, Zenon
    <2> QED BY <2>1, <2>2, <2>3, <2>4
  <1>2. faults' \in 0..MaxFaults
    BY AgentRelayAssumption DEF Watcher, PowerCut, RelayDies, NetworkFails, HostSleeps, Restart, Boot,
         NetworkBack, HostWakes, ZombieReset, Fault, world
  <1>3. inbox' \in Seq(Kinds)
    <2>1. CASE Watcher
      BY <2>1, AppendSeq DEF Watcher, Post, Kinds
    <2>2. CASE ~Watcher
      <3>1. inbox' = inbox \/ inbox' = << >>
        BY <2>2 DEF PowerCut, RelayDies, NetworkFails, HostSleeps, Restart, Boot, NetworkBack, HostWakes,
             ZombieReset, agent
      <3>2. << >> \in Seq(Kinds) OBVIOUS
      <3> QED BY <3>1, <3>2 DEF Kinds
    <2> QED BY <2>1, <2>2
  <1>4. conn' \in [Conns -> States]
    BY DEF Watcher, PowerCut, RelayDies, NetworkFails, HostSleeps, Restart, Boot, NetworkBack, HostWakes,
           ZombieReset, tcp, States
  <1>5. UNCHANGED <<up, back>>
    BY DEF Watcher, PowerCut, RelayDies, NetworkFails, HostSleeps, Restart, Boot, NetworkBack, HostWakes,
           ZombieReset, tcp
  <1>6. writer' \in {writer, NoConn} /\ readers' \in {readers, {}}
    BY DEF Watcher, PowerCut, RelayDies, NetworkFails, HostSleeps, Restart, Boot, NetworkBack, HostWakes,
           ZombieReset, agent
  <1>7. {serving, current}' \subseteq Conns \cup {NoConn} /\ backlog' \in Seq(Conns)
    <2>1. serving' \in {serving, NoConn} /\ current' \in {current, NoConn} /\ backlog' \in {backlog, << >>}
      BY DEF Watcher, PowerCut, RelayDies, NetworkFails, HostSleeps, Restart, Boot, NetworkBack, HostWakes,
             ZombieReset, server, Forget
    <2>2. << >> \in Seq(Conns) OBVIOUS
    <2>3. backlog' = backlog \/ backlog' = << >> BY <2>1
    <2>4. backlog' \in Seq(Conns) BY <2>2, <2>3
    <2> QED BY <2>1, <2>4
  <1> QED BY <1>1, <1>2, <1>3, <1>4, <1>5, <1>6, <1>7 DEF Kinds, States

LEMMA NextTyped == Typed /\ [Next]_vars => Typed'
  <1>1. CASE UNCHANGED vars
    BY <1>1 DEF vars, agent, tcp, server, world, Typed, TypeOK
  <1> QED BY <1>1, MainTyped, ThreadsTyped, RelayTyped, WorldTyped DEF Next, World

\* The types, for every set of connections and every bound.
THEOREM TypeCorrect == Spec => []TypeOK
  <1>1. Typed => TypeOK BY DEF Typed
  <1> QED BY <1>1, InitTyped, NextTyped, PTL DEF Spec

-----------------------------------------------------------------------------
(* The pump.  Only Accept makes a connection served, and it sets the pump's client; the   *)
(* pump drops its client only when that is no longer served.                              *)

LEMMA NextFollows ==
    ASSUME Typed, PumpFollowsServed, [Next]_vars
    PROVE  PumpFollowsServed'
  <1> USE DEF Typed, TypeOK
  <1> DEFINE NoneServed == \A c \in Conns : conn'[c] = "served" => conn[c] = "served"
  <1>1. CASE Main
    <2>1. UNCHANGED <<serving, current>>
      BY <1>1 DEF Main, Connect, ConnectMore, TickSilent, TickPing, TickFails, LocalSend, LocalFails,
           PongArrives, DataArrives, PullArrives, PullFails, Disconnected, Handle, server
    <2>2. NoneServed
      BY <1>1 DEF Main, Connect, ConnectMore, TickSilent, TickPing, TickFails, LocalSend, LocalFails, Send,
           PongArrives, DataArrives, PullArrives, PullFails, Disconnected, Write, Break, tcp, Free
    <2> QED BY <2>1, <2>2 DEF PumpFollowsServed, server
  <1>2. CASE Threads \/ Ticker \/ Silence
    <2>1. UNCHANGED server
      BY <1>2 DEF Threads, Read, ReadFails, Close, Ticker, Silence
    <2>2. NoneServed
      BY <1>2 DEF Threads, Read, ReadFails, Close, Ticker, Silence, tcp
    <2> QED BY <2>1, <2>2 DEF PumpFollowsServed, server
  <1>3. CASE Accept
    BY <1>3 DEF Accept, PumpFollowsServed
  <1>4. CASE AnswerPing \/ ToHost \/ FromHost
    BY <1>4 DEF AnswerPing, ToHost, FromHost, Served, server, PumpFollowsServed
  <1>5. CASE Hangup
    BY <1>5 DEF Hangup, PumpFollowsServed
  <1>6. CASE PumpFails
    BY <1>6, AgentRelayAssumption DEF PumpFails, tcp, PumpFollowsServed
  <1>7. CASE PowerCut \/ RelayDies
    BY <1>7 DEF PowerCut, RelayDies, Forget, PumpFollowsServed
  <1>8. CASE Watcher \/ NetworkFails \/ HostSleeps \/ Boot \/ NetworkBack \/ HostWakes
    BY <1>8 DEF Watcher, NetworkFails, HostSleeps, Boot, NetworkBack, HostWakes, tcp, server, PumpFollowsServed
  <1>9. CASE Restart \/ \E c \in Conns : ZombieReset(c)
    <2>1. UNCHANGED server /\ NoneServed
      BY <1>9 DEF Restart, ZombieReset
    <2> QED BY <2>1 DEF PumpFollowsServed, server
  <1>10. CASE UNCHANGED vars
    BY <1>10 DEF vars, tcp, server, PumpFollowsServed
  <1> QED BY <1>1, <1>2, <1>3, <1>4, <1>5, <1>6, <1>7, <1>8, <1>9, <1>10 DEF Next, Relay, World

\* Whatever fails: while a client is served, what the host sends goes to it.
THEOREM PumpFollows == Spec => []PumpFollowsServed
  <1>1. Init => PumpFollowsServed BY DEF Init, PumpFollowsServed
  <1>2. Typed /\ PumpFollowsServed /\ [Next]_vars => Typed' /\ PumpFollowsServed'
    BY NextTyped, NextFollows
  <1> QED BY <1>1, <1>2, InitTyped, PTL DEF Spec
-----------------------------------------------------------------------------
(* Connections.  One that lives at the Pi is the one served or one still to  *)
(* be accepted, and one the agent has closed is held by none of its threads. *)
(* (That the agent closes what it no longer uses is another matter: it does  *)
(* not, which is what run AgentReboot finds.)                                *)

InBacklog(c) == \E i \in 1..Len(backlog) : backlog[i] = c
Distinct == \A i, j \in 1..Len(backlog) : i # j => backlog[i] # backlog[j]
AtPi(c) == /\ conn[c] = "queued" => InBacklog(c)
           /\ conn[c] = "served" => c = serving
           /\ conn[c] = "closed" => c = serving \/ InBacklog(c)
           /\ c = serving => conn[c] \in {"served", "closed"} /\ ~InBacklog(c)
           /\ InBacklog(c) => conn[c] \in {"queued", "closed"}
AtAgent(c) == conn[c] \in {"free", "closed"} => c \notin readers /\ c # writer
OwnedInv == Distinct /\ \A c \in Conns : AtPi(c) /\ AtAgent(c)

\* The relay serves one connection at a time; one that the agent has closed is the one served
\* or one it gets to, so that its end is read; and none is used again before both have let go.
NoneForgotten ==
    /\ \A c, d \in Conns : conn[c] = "served" /\ conn[d] = "served" => c = d
    /\ \A c \in Conns : conn[c] = "closed" => c = serving \/ InBacklog(c)
    /\ \A c \in Conns : conn[c] = "free" => c \notin readers \cup {writer, serving} /\ ~InBacklog(c)

LEMMA Queued ==
    ASSUME backlog \in Seq(Conns), NEW c \in Conns, backlog' = Append(backlog, c), Distinct, ~InBacklog(c)
    PROVE  Distinct' /\ \A d \in Conns : InBacklog(d)' <=> (d = c \/ InBacklog(d))
  <1>1. /\ Len(backlog) \in Nat /\ Len(backlog') = Len(backlog) + 1 /\ backlog'[Len(backlog')] = c
        /\ \A i \in 1..Len(backlog) : backlog'[i] = backlog[i]
    OBVIOUS
  <1>2. \A i \in 1..Len(backlog') : i = Len(backlog') \/ i \in 1..Len(backlog) BY <1>1
  <1>3. \A i \in 1..Len(backlog) : i \in 1..Len(backlog') BY <1>1
  <1>4. Len(backlog') \in 1..Len(backlog') BY <1>1
  <1>5. \A d \in Conns : InBacklog(d)' <=> (d = c \/ InBacklog(d))
    BY <1>1, <1>2, <1>3, <1>4 DEF InBacklog
  <1>6. Distinct' BY <1>1, <1>2 DEF Distinct, InBacklog
  <1> QED BY <1>5, <1>6

LEMMA Accepted ==
    ASSUME backlog \in Seq(Conns), backlog # << >>, backlog' = Tail(backlog), Distinct
    PROVE  /\ Head(backlog) \in Conns /\ InBacklog(Head(backlog)) /\ Distinct'
           /\ \A d \in Conns : InBacklog(d)' <=> (d # Head(backlog) /\ InBacklog(d))
  <1>1. PICK s \in Seq(Conns), t \in Seq(Conns) : s = backlog /\ t = backlog' OBVIOUS
  <1>2. /\ Len(s) \in Nat \ {0} /\ Len(t) = Len(s) - 1 /\ Head(s) = s[1] /\ s[1] \in Conns
        /\ \A i \in 1..Len(t) : t[i] = s[i + 1]
    BY <1>1
  <1>3. \A i \in 2..Len(s) : i - 1 \in 1..Len(t) /\ t[i - 1] = s[i]
    <2> SUFFICES ASSUME NEW i \in 2..Len(s) PROVE i - 1 \in 1..Len(t) /\ t[i - 1] = s[i]
      OBVIOUS
    <2>1. i - 1 \in 1..Len(t) /\ (i - 1) + 1 = i BY <1>2
    <2> QED BY <1>2, <2>1
  <1>4. \A i, j \in 1..Len(s) : i # j => s[i] # s[j] BY <1>1 DEF Distinct
  <1>5. \A i, j \in 1..Len(t) : i # j => t[i] # t[j]
    <2> SUFFICES ASSUME NEW i \in 1..Len(t), NEW j \in 1..Len(t), i # j PROVE t[i] # t[j]
      OBVIOUS
    <2>1. i + 1 \in 1..Len(s) /\ j + 1 \in 1..Len(s) /\ i + 1 # j + 1 BY <1>2
    <2> QED BY <1>2, <1>4, <2>1
  <1>6. ASSUME NEW d \in Conns
        PROVE  (\E i \in 1..Len(t) : t[i] = d) <=> (d # s[1] /\ \E i \in 1..Len(s) : s[i] = d)
    <2>1. ASSUME NEW i \in 1..Len(t), t[i] = d PROVE d # s[1] /\ \E k \in 1..Len(s) : s[k] = d
      <3>1. i + 1 \in 1..Len(s) /\ i + 1 # 1 /\ 1 \in 1..Len(s) /\ s[i + 1] = d BY <1>2, <2>1
      <3> QED BY <1>4, <3>1
    <2>2. ASSUME d # s[1], NEW k \in 1..Len(s), s[k] = d PROVE \E i \in 1..Len(t) : t[i] = d
      <3>1. k \in 2..Len(s) BY <1>2, <2>2
      <3> QED BY <1>3, <2>2, <3>1
    <2> QED BY <2>1, <2>2
  <1>7. 1 \in 1..Len(s) BY <1>2
  <1> QED BY <1>1, <1>2, <1>5, <1>6, <1>7 DEF InBacklog, Distinct

LEMMA NextOwned ==
    ASSUME Typed, OwnedInv, [Next]_vars
    PROVE  OwnedInv'
  <1>0. /\ backlog \in Seq(Conns) /\ conn \in [Conns -> States] /\ readers \subseteq Conns
        /\ serving \in Conns \cup {NoConn} /\ writer \in Conns \cup {NoConn} /\ NoConn \notin Conns
    BY AgentRelayAssumption DEF Typed, TypeOK, States
  <1>1. ASSUME UNCHANGED <<conn, server>>, readers' \subseteq readers,
               writer' \in {writer, NoConn} PROVE OwnedInv'
    BY <1>0, <1>1 DEF OwnedInv, AtPi, AtAgent, Distinct, InBacklog, server
  <1>2. CASE Connect
    <2>1. PICK c \in Conns : /\ conn[c] = "free" /\ writer' = c /\ readers' = readers \cup {c}
                             /\ conn' = [conn EXCEPT ![c] = "queued"] /\ backlog' = Append(backlog, c)
      BY <1>2 DEF Connect, Free
    <2>2. serving' = serving /\ writer = NoConn BY <1>2 DEF Connect
    <2>3. ~InBacklog(c) /\ c # serving BY <2>1 DEF OwnedInv, AtPi
    <2>4. Distinct' /\ \A d \in Conns : InBacklog(d)' <=> (d = c \/ InBacklog(d))
      BY <1>0, <2>1, <2>3, Queued DEF OwnedInv
    <2>5. ASSUME NEW d \in Conns PROVE AtPi(d)' /\ AtAgent(d)'
      <3>1. CASE d = c BY <1>0, <2>1, <2>2, <2>3, <2>4, <3>1 DEF AtPi, AtAgent
      <3>2. CASE d # c
        <4>1. conn'[d] = conn[d] BY <1>0, <2>1, <3>2
        <4> QED BY <1>0, <2>1, <2>2, <2>4, <3>2, <4>1 DEF OwnedInv, AtPi, AtAgent
      <3> QED BY <3>1, <3>2
    <2> QED BY <2>4, <2>5 DEF OwnedInv
  <1>3. CASE ConnectMore
    <2>1. PICK c \in Conns : conn[c] = "queued" /\ writer' = c
      <3>1. backlog[Len(backlog)] \in Conns BY <1>0, <1>3, TailSeq DEF ConnectMore
      <3> QED BY <1>3, <3>1 DEF ConnectMore
    <2> QED BY <1>0, <1>3, <2>1 DEF ConnectMore, OwnedInv, AtPi, AtAgent, Distinct, InBacklog, tcp, server
  <1>4. CASE Main /\ ~Connect /\ ~ConnectMore
    <2>1. UNCHANGED <<conn, server, readers>> /\ writer' \in {writer, NoConn}
      BY <1>4 DEF Main, TickSilent, TickPing, TickFails, LocalSend, LocalFails, Send, Write, Break,
         PongArrives, DataArrives, PullArrives, PullFails, Disconnected, Handle, tcp
    <2> QED BY <1>1, <2>1
  <1>5. CASE Threads
    <2>1. PICK c \in Conns : Read(c) \/ ReadFails(c) \/ Close(c) BY <1>5 DEF Threads
    <2>2. CASE Read(c) BY <1>1, <2>2 DEF Read
    <2>3. CASE ReadFails(c) \/ Close(c)
      <3>1. /\ conn[c] \in {"reset", "zombie"} /\ readers' = readers \ {c} /\ UNCHANGED <<writer, server>>
            /\ conn' = conn \/ (writer # c /\ conn' = [conn EXCEPT ![c] = "free"])
        BY <2>3 DEF ReadFails, Close
      <3>2. CASE conn' = conn BY <1>1, <3>1, <3>2
      <3>3. CASE writer # c /\ conn' = [conn EXCEPT ![c] = "free"]
        <4>1. \A d \in Conns : InBacklog(d)' <=> InBacklog(d) BY <3>1 DEF InBacklog, server
        <4>2. Distinct' BY <3>1 DEF Distinct, OwnedInv, server
        <4>3. ASSUME NEW d \in Conns PROVE AtPi(d)' /\ AtAgent(d)'
          <5>1. CASE d = c
            <6>1. d # serving /\ ~InBacklog(d) BY <3>1, <5>1 DEF OwnedInv, AtPi
            <6>2. conn'[d] = "free" BY <1>0, <3>3, <5>1
            <6> QED BY <3>1, <3>3, <4>1, <5>1, <6>1, <6>2 DEF AtPi, AtAgent, server
          <5>2. CASE d # c
            <6>1. conn'[d] = conn[d] BY <1>0, <3>3, <5>2
            <6> QED BY <3>1, <4>1, <6>1 DEF OwnedInv, AtPi, AtAgent, server
          <5> QED BY <5>1, <5>2
        <4> QED BY <4>2, <4>3 DEF OwnedInv
      <3> QED BY <3>1, <3>2, <3>3
    <2> QED BY <2>1, <2>2, <2>3
  <1>6. CASE Accept
    <2>1. PICK c : c = Head(backlog) OBVIOUS
    <2>2. /\ serving = NoConn /\ serving' = c /\ backlog # << >> /\ backlog' = Tail(backlog)
          /\ conn' = IF conn[c] = "queued" THEN [conn EXCEPT ![c] = "served"] ELSE conn
          /\ UNCHANGED <<readers, writer>>
      BY <1>6, <2>1 DEF Accept, agent
    <2>3. /\ c \in Conns /\ InBacklog(c) /\ Distinct'
          /\ \A d \in Conns : InBacklog(d)' <=> (d # c /\ InBacklog(d))
      BY <1>0, <2>1, <2>2, Accepted DEF OwnedInv
    <2>4. ASSUME NEW d \in Conns PROVE AtPi(d)' /\ AtAgent(d)'
      <3>1. CASE d = c
        <4>1. conn[d] \in {"queued", "closed"} BY <2>3, <3>1 DEF OwnedInv, AtPi
        <4>2. conn'[d] = IF conn[d] = "queued" THEN "served" ELSE "closed" BY <1>0, <2>2, <2>3, <3>1, <4>1
        <4> QED BY <2>2, <2>3, <3>1, <4>1, <4>2 DEF OwnedInv, AtPi, AtAgent
      <3>2. CASE d # c
        <4>1. conn'[d] = conn[d] BY <1>0, <2>2, <3>2
        <4> QED BY <1>0, <2>2, <2>3, <3>2, <4>1 DEF OwnedInv, AtPi, AtAgent
      <3> QED BY <3>1, <3>2
    <2> QED BY <2>3, <2>4 DEF OwnedInv
  <1>7. CASE Hangup
    <2>1. /\ serving \in Conns /\ conn[serving] = "closed" /\ serving' = NoConn
          /\ conn' = [conn EXCEPT ![serving] = "free"] /\ UNCHANGED <<backlog, readers, writer>>
      BY <1>0, <1>7 DEF Hangup, agent
    <2>2. \A d \in Conns : InBacklog(d)' <=> InBacklog(d) BY <2>1 DEF InBacklog
    <2>3. Distinct' BY <2>1 DEF Distinct, OwnedInv
    <2>4. ASSUME NEW d \in Conns PROVE AtPi(d)' /\ AtAgent(d)'
      <3>1. CASE d = serving
        <4>1. conn'[d] = "free" BY <1>0, <2>1, <3>1
        <4> QED BY <1>0, <2>1, <2>2, <3>1, <4>1 DEF OwnedInv, AtPi, AtAgent
      <3>2. CASE d # serving
        <4>1. conn'[d] = conn[d] BY <1>0, <2>1, <3>2
        <4> QED BY <1>0, <2>1, <2>2, <3>2, <4>1 DEF OwnedInv, AtPi, AtAgent
      <3> QED BY <3>1, <3>2
    <2> QED BY <2>3, <2>4 DEF OwnedInv
  <1>8. CASE PowerCut \/ RelayDies
    <2>1. /\ serving' = NoConn /\ backlog' = << >> /\ UNCHANGED <<readers, writer>>
          /\ \A c \in Conns : conn'[c] = IF conn[c] \in {"queued", "served"}
                                         THEN IF PowerCut THEN "zombie" ELSE "reset"
                                         ELSE IF conn[c] = "closed" THEN "free" ELSE conn[c]
      BY <1>8 DEF PowerCut, RelayDies, Forget, agent
    <2>2. \A d \in Conns : ~InBacklog(d)' BY <2>1 DEF InBacklog
    <2>3. Distinct' BY <2>1 DEF Distinct
    <2>4. ASSUME NEW d \in Conns PROVE AtPi(d)' /\ AtAgent(d)'
      <3>1. conn'[d] \notin {"queued", "served", "closed"} BY <2>1
      <3>2. conn'[d] = "free" => conn[d] \in {"free", "closed"} BY <2>1
      <3> QED BY <1>0, <2>1, <2>2, <3>1, <3>2 DEF OwnedInv, AtPi, AtAgent
    <2> QED BY <2>3, <2>4 DEF OwnedInv
  <1>9. CASE Restart
    <2>1. /\ writer' = NoConn /\ readers' = {} /\ UNCHANGED server
          /\ \A c \in Conns : conn'[c] = IF conn[c] \in {"queued", "served", "closed"} THEN "closed" ELSE "free"
      BY <1>9 DEF Restart
    <2>2. \A d \in Conns : InBacklog(d)' <=> InBacklog(d) BY <2>1 DEF InBacklog, server
    <2>3. Distinct' BY <2>1 DEF Distinct, OwnedInv, server
    <2>4. ASSUME NEW d \in Conns PROVE AtPi(d)' /\ AtAgent(d)'
      BY <1>0, <2>1, <2>2 DEF OwnedInv, AtPi, AtAgent, server
    <2> QED BY <2>3, <2>4 DEF OwnedInv
  <1>10. CASE \E c \in Conns : ZombieReset(c)
    <2>1. PICK c \in Conns : conn[c] = "zombie" /\ conn' = [conn EXCEPT ![c] = "reset"] /\ UNCHANGED <<agent, server>>
      BY <1>10 DEF ZombieReset
    <2>2. \A d \in Conns : InBacklog(d)' <=> InBacklog(d) BY <2>1 DEF InBacklog, server
    <2>3. Distinct' BY <2>1 DEF Distinct, OwnedInv, server
    <2>4. ASSUME NEW d \in Conns PROVE AtPi(d)' /\ AtAgent(d)'
      <3>1. CASE d = c BY <1>0, <2>1, <2>2, <3>1 DEF OwnedInv, AtPi, AtAgent, server
      <3>2. CASE d # c
        <4>1. conn'[d] = conn[d] BY <1>0, <2>1, <3>2
        <4> QED BY <2>1, <2>2, <4>1 DEF OwnedInv, AtPi, AtAgent, agent, server
      <3> QED BY <3>1, <3>2
    <2> QED BY <2>3, <2>4 DEF OwnedInv
  <1>11. CASE \/ Ticker \/ Silence \/ AnswerPing \/ ToHost \/ FromHost \/ PumpFails \/ Watcher \/ NetworkFails
              \/ HostSleeps \/ Boot \/ NetworkBack \/ HostWakes \/ UNCHANGED vars
    <2>1. UNCHANGED <<conn, serving, backlog, readers, writer>>
      BY <1>11 DEF Ticker, Silence, AnswerPing, ToHost, Served, FromHost, PumpFails, Watcher, NetworkFails,
         HostSleeps, Boot, NetworkBack, HostWakes, vars, agent, tcp, server
    <2> QED BY <1>0, <2>1 DEF OwnedInv, AtPi, AtAgent, Distinct, InBacklog
  <1> QED BY <1>2, <1>3, <1>4, <1>5, <1>6, <1>7, <1>8, <1>9, <1>10, <1>11 DEF Next, Relay, World

\* Whatever fails, and however often agent and relay are restarted: the relay never serves two
\* connections, and loses none whose end it has yet to read.
THEOREM NoneIsForgotten == Spec => []NoneForgotten
  <1>1. Init => OwnedInv
    BY AgentRelayAssumption DEF Init, OwnedInv, AtPi, AtAgent, Distinct, InBacklog
  <1>2. Typed /\ OwnedInv /\ [Next]_vars => Typed' /\ OwnedInv'
    BY NextTyped, NextOwned
  <1>3. Typed /\ OwnedInv => NoneForgotten
    BY AgentRelayAssumption DEF OwnedInv, AtPi, AtAgent, NoneForgotten
  <1> QED BY <1>1, <1>2, <1>3, InitTyped, PTL DEF Spec
===========================================================================
