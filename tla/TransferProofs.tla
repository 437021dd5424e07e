-------------------------- MODULE TransferProofs --------------------------
(***************************************************************************)
(* Two results, for every sequence of payloads, every window and ACK       *)
(* period.  The window protects the receiver's queue: with room for the    *)
(* window, a START and an END, no frame is lost until a send is disturbed, *)
(* and every payload that is not too long arrives, once and in order.  And *)
(* whatever is lost: of payloads that differ in length, none longer than   *)
(* the range of the sequence numbers, what arrives is one of them, whole,  *)
(* at most once, and never after a later one.                              *)
(***************************************************************************)
EXTENDS Transfer, FiniteSetTheorems, TLAPS

-----------------------------------------------------------------------------
(* Sequences. *)

LEMMA AppendSeq ==
    ASSUME NEW S, NEW s \in Seq(S), NEW e \in S
    PROVE  /\ Append(s, e) \in Seq(S) /\ Len(Append(s, e)) = Len(s) + 1
           /\ Append(s, e)[Len(s) + 1] = e
           /\ \A x \in 1..Len(s) : Append(s, e)[x] = s[x]
  OBVIOUS

LEMMA TailSeq ==
    ASSUME NEW S, NEW s \in Seq(S), s # << >>
    PROVE  /\ Tail(s) \in Seq(S) /\ Len(Tail(s)) = Len(s) - 1 /\ Len(s) \in Nat \ {0}
           /\ Head(s) \in S /\ Head(s) = s[1]
           /\ \A x \in 1..Len(Tail(s)) : Tail(s)[x] = s[x + 1]
  OBVIOUS

-----------------------------------------------------------------------------
(* Types. *)

\* What is being sent is one of the payloads.
Sending == pc # "idle" => n <= Len(Lengths)
Typed == TypeOK /\ Sending

LEMMA EncodedType ==
    ASSUME NEW k \in DOMAIN Lengths, NEW j \in Nat
    PROVE  Encoded(k, j) \in Frames
  <1>1. Lengths[k] \in Nat /\ SeqMod \in Nat \ {0}
    BY TransferAssumption
  <1>2. j % SeqMod \in 0..(SeqMod - 1)
    BY <1>1
  <1> QED BY <1>1, <1>2 DEF Encoded, Frames, Last

\* Whatever is put, the queue stays within its capacity.
LEMMA PutType ==
    ASSUME queue \in Seq(Frames), Len(queue) <= Queue, lost \in BOOLEAN,
           NEW f \in Frames, Put(f)
    PROVE  queue' \in Seq(Frames) /\ Len(queue') <= Queue /\ lost' \in BOOLEAN
  <1> DEFINE q == Append(queue, f)
  <1>0. Queue \in Nat \ {0} BY TransferAssumption
  <1>1. q \in Seq(Frames) /\ Len(q) = Len(queue) + 1
    BY AppendSeq
  <1>2. queue' = (IF Len(q) > Queue THEN Tail(q) ELSE q)
    BY DEF Put
  <1>3. lost' \in BOOLEAN
    BY DEF Put
  <1> HIDE DEF q
  <1>4. q # << >> BY <1>1
  <1>5. Tail(q) \in Seq(Frames) /\ Len(Tail(q)) = Len(q) - 1
    BY <1>1, <1>4, TailSeq
  <1> QED BY <1>0, <1>1, <1>2, <1>3, <1>5

LEMMA InitTyped == Init => Typed
  <1> SUFFICES ASSUME Init PROVE Typed
    OBVIOUS
  <1>1. NoTransfer \in [total : Nat, seq : 0..(SeqMod - 1), data : Seq(Pieces), on : BOOLEAN]
    BY TransferAssumption DEF NoTransfer
  <1>2. lost \in BOOLEAN /\ disturbed \in BOOLEAN
    BY Zenon DEF Init
  <1> QED BY <1>1, <1>2, TransferAssumption DEF Init, Typed, TypeOK, Sending

LEMMA SendTyped ==
    ASSUME Typed, Send
    PROVE  Typed'
  <1> USE DEF Typed, TypeOK, Sending
  <1>0. Abort \in Frames BY DEF Frames
  <1>1. CASE Start
    BY <1>1, TransferAssumption DEF Start, receiver
  <1>2. CASE SendFrame
    <2>1. n \in DOMAIN Lengths BY <1>2, TransferAssumption DEF SendFrame
    <2>2. Encoded(n, i) \in Frames BY <2>1, EncodedType
    <2>3. queue' \in Seq(Frames) /\ Len(queue') <= Queue /\ lost' \in BOOLEAN
      BY <1>2, <2>2, PutType DEF SendFrame
    <2>4. /\ pc' \in {"idle", "send"} /\ n' \in 1..(Len(Lengths) + 1) /\ attempt' = attempt /\ i' \in Nat
          /\ pc' # "idle" => n' <= Len(Lengths)
      <3>1. n \in 1..Len(Lengths) /\ Len(Lengths) \in Nat BY <2>1, TransferAssumption
      <3>2. CASE i = Last(n)
        BY <1>2, <3>1, <3>2 DEF SendFrame, Done
      <3>3. CASE i # Last(n)
        BY <1>2, <3>1, <3>3 DEF SendFrame
      <3> QED BY <3>2, <3>3
    <2> QED BY <1>2, <2>3, <2>4 DEF SendFrame, receiver
  <1>3. CASE Stall
    <2>1. queue' \in Seq(Frames) /\ Len(queue') <= Queue /\ lost' \in BOOLEAN
      BY <1>0, <1>3, PutType DEF Stall
    <2>2. disturbed' \in BOOLEAN BY <1>3, Zenon DEF Stall
    <2>3. /\ pc' \in {"idle", "backoff"} /\ n' \in 1..(Len(Lengths) + 1) /\ attempt' = attempt /\ i' = i
          /\ pc' # "idle" => n' <= Len(Lengths)
      <3>1. n \in 1..Len(Lengths) /\ Len(Lengths) \in Nat BY <1>3, TransferAssumption DEF Stall
      <3>2. CASE attempt = 0
        BY <1>3, <3>1, <3>2 DEF Stall
      <3>3. CASE attempt # 0
        BY <1>3, <3>1, <3>3 DEF Stall, Done
      <3> QED BY <3>2, <3>3
    <2> QED BY <1>3, <2>1, <2>2, <2>3 DEF Stall, receiver
  <1>4. CASE Retry
    BY <1>4, TransferAssumption DEF Retry, receiver
  <1>5. CASE Break
    <2>1. disturbed' \in BOOLEAN BY <1>5, Zenon DEF Break
    <2>2. acks' \in Seq(Nat)
      <3>1. acks' = acks \/ acks' = << >> BY <1>5 DEF Break
      <3>2. << >> \in Seq(Nat) OBVIOUS
      <3> QED BY <3>1, <3>2
    <2>3. /\ pc' = "idle" /\ n' \in 1..(Len(Lengths) + 1) /\ attempt' = attempt /\ i' = i
      BY <1>5, TransferAssumption DEF Break, Done
    <2> QED BY <1>5, <2>1, <2>2, <2>3 DEF Break, receiver
  <1> QED BY <1>1, <1>2, <1>3, <1>4, <1>5 DEF Send

LEMMA ReceiveTyped ==
    ASSUME Typed, Receive
    PROVE  Typed'
  <1> DEFINE Actives == [total : Nat, seq : 0..(SeqMod - 1), data : Seq(Pieces), on : BOOLEAN]
  <1>0. NoTransfer \in Actives BY TransferAssumption DEF NoTransfer
  <1>1. queue # << >> /\ queue' = Tail(queue) /\ UNCHANGED <<sender, acked, lost, disturbed>>
    BY DEF Receive, FeedStart, RefuseStart, FeedData, RefuseData, FeedEnd, RefuseEnd, FeedAbort, Feed
  <1>2. queue' \in Seq(Frames) /\ Len(queue') <= Queue /\ Frame \in Frames
    <2>1. Tail(queue) \in Seq(Frames) /\ Len(Tail(queue)) = Len(queue) - 1 /\ Head(queue) \in Frames
          /\ Len(queue) \in Nat
      BY <1>1, TailSeq DEF Typed, TypeOK
    <2> QED BY <1>1, <2>1, TransferAssumption DEF Typed, TypeOK, Frame
  <1>3. active' \in Actives /\ dataFrames' \in Nat /\ acks' \in Seq(Nat) /\ delivered' \in Seq(Seq(Pieces))
    <2>1. active \in Actives /\ dataFrames \in Nat /\ acks \in Seq(Nat) /\ delivered \in Seq(Seq(Pieces))
      BY DEF Typed, TypeOK
    <2>2. CASE FeedStart
      <3>1. Frame.total \in Nat /\ Frame.seq \in 0..(SeqMod - 1)
        BY <1>2, <2>2 DEF FeedStart, Feed, Frames, Abort
      <3> HIDE DEF Frame
      <3> QED BY <2>1, <2>2, <3>1 DEF FeedStart
    <2>3. CASE FeedData
      <3>1. Frame.part \in Pieces /\ Frame.seq \in 0..(SeqMod - 1)
        BY <1>2, <2>3 DEF FeedData, Feed, Frames, Abort, Pieces
      <3>2. Append(active.data, Frame.part) \in Seq(Pieces)
        BY <2>1, <3>1, AppendSeq
      <3> HIDE DEF Frame
      <3>3. active' \in Actives
        BY <2>1, <2>3, <3>1, <3>2 DEF FeedData
      <3>4. dataFrames' \in Nat /\ UNCHANGED delivered
        BY <2>1, <2>3 DEF FeedData
      <3>5. acks' \in Seq(Nat)
        BY <2>1, <2>3, <3>4, AppendSeq DEF FeedData
      <3> QED BY <2>1, <3>3, <3>4, <3>5
    <2>4. CASE FeedEnd
      BY <1>0, <2>1, <2>4 DEF FeedEnd
    <2>5. CASE RefuseStart \/ RefuseData \/ RefuseEnd \/ FeedAbort
      BY <1>0, <2>1, <2>5 DEF RefuseStart, RefuseData, RefuseEnd, FeedAbort, Drop
    <2> QED BY <2>2, <2>3, <2>4, <2>5 DEF Receive
  <1> QED BY <1>1, <1>2, <1>3 DEF Typed, TypeOK, Sending, sender

LEMMA NextTyped == Typed /\ [Next]_vars => Typed'
  <1> SUFFICES ASSUME Typed, [Next]_vars PROVE Typed'
    OBVIOUS
  <1>1. CASE AckArrives
    <2>1. Head(acks) \in Nat /\ Tail(acks) \in Seq(Nat)
      BY <1>1, TailSeq DEF Typed, TypeOK, AckArrives
    <2> QED BY <1>1, <2>1 DEF AckArrives, Typed, TypeOK, Sending, sender, receiver
  <1>2. CASE UNCHANGED vars
    BY <1>2 DEF vars, sender, receiver, Typed, TypeOK, Sending
  <1> QED BY <1>1, <1>2, SendTyped, ReceiveTyped DEF Next

LEMMA TypedAlways == Spec => []Typed
  BY InitTyped, NextTyped, PTL DEF Spec

\* The types, for every window, queue and sequence range.
THEOREM TypeCorrect == Spec => []TypeOK
  <1>1. Typed => TypeOK BY DEF Typed
  <1> QED BY <1>1, InitTyped, NextTyped, PTL DEF Spec

-----------------------------------------------------------------------------
(* The window.  As long as nothing is disturbed, the queue holds frames of the one transfer *)
(* being sent, or the rest of the one just sent; every count is of frames already read.     *)

Read == i - Len(queue)
Counted(c, r) == c = 0 \/ c <= r - 1

Midway == /\ i <= Last(n) /\ Len(queue) <= i /\ Len(queue) <= Window + 1
          /\ active.on => Read >= 1 /\ dataFrames <= Read - 1
          /\ Counted(acked, Read)
          /\ \A a \in DOMAIN acks : Counted(acks[a], Read)
Sent == /\ Len(queue) <= Window + 2
        /\ queue # << >> => queue[Len(queue)].t = "end"
        /\ queue = << >> => ~active.on
Calm == ~disturbed => /\ ~lost /\ pc # "backoff"
                      /\ pc = "send" => Midway
                      /\ pc = "idle" => Sent

LEMMA InitCalm == Init => Calm
  BY TransferAssumption DEF Init, Calm, Sent, NoTransfer

\* There is room for what the window lets through: nothing is dropped.
LEMMA PutRoom ==
    ASSUME Typed, NEW f \in Frames, Put(f), ~lost, Len(queue) + 1 <= Queue
    PROVE  /\ queue' = Append(queue, f) /\ ~lost'
           /\ Len(queue') = Len(queue) + 1 /\ queue'[Len(queue')] = f
  <1> DEFINE q == Append(queue, f)
  <1>0. queue \in Seq(Frames) BY DEF Typed, TypeOK
  <1>1. Len(q) = Len(queue) + 1 /\ q[Len(queue) + 1] = f
    BY <1>0, AppendSeq
  <1>2. ~(Len(q) > Queue)
    BY <1>0, <1>1, TransferAssumption
  <1>3. queue' = q
    BY <1>2 DEF Put
  <1>4. ~lost'
    BY <1>2 DEF Put
  <1> QED BY <1>1, <1>3, <1>4

LEMMA StartCalm ==
    ASSUME Typed, Calm, Start
    PROVE  Calm'
  <1> SUFFICES ASSUME ~disturbed' PROVE Calm'
    BY DEF Calm
  <1>1. ~disturbed /\ queue = << >> /\ acks = << >>
    BY DEF Start
  <1>2. ~lost' /\ pc' = "send" /\ i' = 0 /\ acked' = 0 /\ queue' = << >> /\ acks' = << >>
        /\ n' = n /\ active' = active
    BY <1>1 DEF Start, Calm, receiver
  <1>3. ~active.on
    BY <1>1 DEF Start, Calm, Sent
  <1>4. Last(n) \in Nat
    <2>1. n \in DOMAIN Lengths BY TransferAssumption DEF Start, Typed, TypeOK
    <2> QED BY <2>1, TransferAssumption DEF Last
  <1> QED BY <1>2, <1>3, <1>4, TransferAssumption DEF Calm, Midway, Counted, Read, Last

LEMMA SendCalm ==
    ASSUME Window + 2 <= Queue, Typed, Calm, SendFrame
    PROVE  Calm'
  <1> SUFFICES ASSUME ~disturbed' PROVE Calm'
    BY DEF Calm
  <1>1. ~disturbed /\ ~lost /\ Midway /\ pc = "send"
    BY DEF SendFrame, Calm
  <1>2. /\ n \in DOMAIN Lengths /\ Last(n) \in Nat \ {0} /\ i \in Nat /\ acked \in Nat
        /\ queue \in Seq(Frames) /\ Len(queue) \in Nat /\ Window \in Nat \ {0}
    BY <1>1, TransferAssumption DEF Typed, TypeOK, Sending, Last
  <1>3. Len(queue) + 1 <= Queue
    BY <1>1, <1>2, TransferAssumption DEF Midway
  <1>4. Encoded(n, i) \in Frames /\ Put(Encoded(n, i))
    BY <1>2, EncodedType DEF SendFrame
  <1>5. /\ ~lost' /\ Len(queue') = Len(queue) + 1 /\ queue'[Len(queue')] = Encoded(n, i)
        /\ queue' # << >>
    <2>1. /\ queue' = Append(queue, Encoded(n, i)) /\ ~lost' /\ Len(queue') = Len(queue) + 1
          /\ queue'[Len(queue')] = Encoded(n, i)
      BY <1>1, <1>3, <1>4, PutRoom
    <2>2. queue' # << >>
      BY <2>1, <1>2
    <2> QED BY <2>1, <2>2
  <1>6. active' = active /\ dataFrames' = dataFrames /\ acks' = acks /\ acked' = acked
    BY DEF SendFrame, receiver
  <1>7. CASE i = Last(n)
    <2>1. pc' = "idle" BY <1>7 DEF SendFrame, Done
    <2>2. queue'[Len(queue')].t = "end" BY <1>2, <1>5, <1>7 DEF Encoded
    <2>3. Len(queue') <= Window + 2 BY <1>1, <1>2, <1>5 DEF Midway
    <2> QED BY <1>5, <2>1, <2>2, <2>3 DEF Calm, Sent
  <1>8. CASE i # Last(n)
    <2>1. pc' = "send" /\ i' = i + 1 /\ n' = n BY <1>8 DEF SendFrame
    <2>2. Len(queue) <= Window
      <3>1. CASE i = 0
        BY <1>1, <1>2, <3>1 DEF Midway
      <3>2. CASE i # 0
        <4>1. IsData BY <1>1, <1>2, <1>8, <3>2 DEF IsData, Midway
        <4>2. ~(Unacked >= Window) BY <4>1 DEF SendFrame, WindowFull
        <4>3. i - 1 - acked < Window
          BY <1>2, <4>2 DEF Unacked
        <4> QED BY <1>1, <1>2, <4>3 DEF Midway, Counted, Read
      <3> QED BY <3>1, <3>2
    <2>3. Read' = Read
      BY <1>2, <1>5, <2>1 DEF Read
    <2>4. i' <= Last(n') /\ Len(queue') <= i' /\ Len(queue') <= Window + 1
      <3>1. Last(n') = Last(n) BY <2>1 DEF Last
      <3> QED BY <1>1, <1>2, <1>5, <1>8, <2>1, <2>2, <3>1 DEF Midway
    <2>5. Midway'
      BY <1>1, <1>6, <2>3, <2>4 DEF Midway, Counted
    <2> QED BY <1>5, <2>1, <2>5 DEF Calm
  <1> QED BY <1>7, <1>8

\* A frame read: what was counted stays counted, and one more frame has been read.
LEMMA ReceiveCalm ==
    ASSUME Typed, Calm, Receive
    PROVE  Calm'
  <1> SUFFICES ASSUME ~disturbed' PROVE Calm'
    BY DEF Calm
  <1>1. queue # << >> /\ queue' = Tail(queue) /\ UNCHANGED <<sender, acked, lost, disturbed>>
    BY DEF Receive, FeedStart, RefuseStart, FeedData, RefuseData, FeedEnd, RefuseEnd, FeedAbort, Feed
  <1>2. ~disturbed /\ ~lost' /\ pc' = pc /\ pc # "backoff" /\ i' = i /\ n' = n /\ acked' = acked
    BY <1>1, Zenon DEF Calm, sender
  <1>3. /\ Len(queue') = Len(queue) - 1 /\ Len(queue) \in Nat \ {0} /\ Len(queue') \in Nat
        /\ Frame = queue[1]
        /\ \A x \in 1..Len(queue') : queue'[x] = queue[x + 1]
    BY <1>1, TailSeq DEF Typed, TypeOK, Frame
  <1>4. i \in Nat /\ Window \in Nat /\ acked \in Nat /\ dataFrames \in Nat /\ acks \in Seq(Nat)
    BY TransferAssumption DEF Typed, TypeOK
  <1>5. Read' = Read + 1 /\ Read \in Int
    BY <1>2, <1>3, <1>4 DEF Read
  <1>6. CASE pc = "send"
    <2>1. Midway BY <1>2, <1>6 DEF Calm
    <2>2. i' <= Last(n') /\ Len(queue') <= i' /\ Len(queue') <= Window + 1
      <3>1. Last(n') = Last(n) BY <1>2 DEF Last
      <3> QED BY <1>2, <1>3, <1>4, <2>1, <3>1, TransferAssumption DEF Midway
    <2>3. Counted(acked', Read')
      BY <1>2, <1>4, <1>5, <2>1 DEF Midway, Counted
    <2>4. Read' >= 1
      BY <1>4, <1>3, <2>1, <1>5 DEF Midway, Read
    <2>5. /\ active'.on => Read' >= 1 /\ dataFrames' <= Read' - 1
          /\ \A a \in DOMAIN acks' : Counted(acks'[a], Read')
      <3>1. CASE FeedStart
        <4>1. dataFrames' = 0 /\ acks' = acks BY <3>1 DEF FeedStart
        <4> QED BY <1>4, <1>5, <2>1, <2>4, <4>1 DEF Midway, Counted
      <3>2. CASE FeedData
        <4>1. active.on /\ dataFrames' = dataFrames + 1 BY <3>2 DEF FeedData, Accepts
        <4>2. dataFrames' <= Read' - 1 /\ dataFrames' \in Nat BY <1>4, <1>5, <2>1, <4>1 DEF Midway
        <4>3. \A a \in DOMAIN acks : acks[a] \in Nat /\ Counted(acks[a], Read')
          BY <1>4, <1>5, <2>1 DEF Midway, Counted
        <4>4. acks' = acks \/ acks' = Append(acks, dataFrames') BY <3>2 DEF FeedData
        <4>5. CASE acks' = Append(acks, dataFrames')
          <5>1. /\ Len(acks') = Len(acks) + 1 /\ acks'[Len(acks) + 1] = dataFrames' /\ acks' \in Seq(Nat)
                /\ \A x \in 1..Len(acks) : acks'[x] = acks[x]
            BY <1>4, <4>2, <4>5, AppendSeq
          <5>2. Counted(dataFrames', Read') BY <4>2 DEF Counted
          <5>3. ASSUME NEW a \in DOMAIN acks' PROVE Counted(acks'[a], Read')
            <6>1. a \in 1..Len(acks) \/ a = Len(acks) + 1 BY <1>4, <5>1
            <6>2. CASE a \in 1..Len(acks)
              <7>1. acks'[a] = acks[a] /\ a \in DOMAIN acks BY <1>4, <5>1, <6>2
              <7> QED BY <4>3, <7>1
            <6> QED BY <5>1, <5>2, <6>1, <6>2
          <5> QED BY <2>4, <4>2, <5>3
        <4> QED BY <2>4, <4>2, <4>3, <4>4, <4>5
      <3>3. CASE RefuseStart \/ RefuseData \/ FeedEnd \/ RefuseEnd \/ FeedAbort
        <4>1. ~active'.on /\ acks' = acks
          BY <3>3 DEF RefuseStart, RefuseData, FeedEnd, RefuseEnd, FeedAbort, Drop, NoTransfer
        <4> QED BY <1>4, <1>5, <2>1, <4>1 DEF Midway, Counted
      <3> QED BY <3>1, <3>2, <3>3 DEF Receive
    <2>6. Midway' BY <2>2, <2>3, <2>5 DEF Midway
    <2> QED BY <1>2, <1>6, <2>6 DEF Calm
  <1>7. CASE pc = "idle"
    <2>1. Sent BY <1>2, <1>7 DEF Calm
    <2>2. Len(queue') <= Window + 2 BY <1>3, <1>4, <2>1 DEF Sent
    <2>3. ASSUME queue' # << >> PROVE queue'[Len(queue')].t = "end"
      <3>1. Len(queue') \in 1..Len(queue')
        BY <1>1, <1>3, <2>3, TailSeq DEF Typed, TypeOK
      <3>2. queue'[Len(queue')] = queue[Len(queue)] BY <1>3, <3>1
      <3> QED BY <1>1, <2>1, <3>2 DEF Sent
    <2>4. ASSUME queue' = << >> PROVE ~active'.on
      <3>1. Len(queue) = 1 BY <1>3, <2>4
      <3>2. Frame.t = "end" BY <1>1, <1>3, <2>1, <3>1 DEF Sent
      <3>3. FeedEnd \/ RefuseEnd
        BY <3>2 DEF Receive, FeedStart, RefuseStart, FeedData, RefuseData, FeedAbort, Feed
      <3> QED BY <3>3 DEF FeedEnd, RefuseEnd, Drop, NoTransfer
    <2> QED BY <1>2, <1>7, <2>2, <2>3, <2>4 DEF Calm, Sent
  <1> QED BY <1>2, <1>6, <1>7 DEF Typed, TypeOK

LEMMA NextCalm ==
    ASSUME Window + 2 <= Queue, Typed, Calm, [Next]_vars
    PROVE  Calm'
  <1>1. CASE Stall \/ Break
    BY <1>1 DEF Stall, Break, Calm
  <1>2. CASE Retry
    BY <1>2 DEF Retry, Calm
  <1>3. CASE AckArrives
    <2>1. /\ UNCHANGED <<sender, queue, receiver, lost, disturbed>> /\ acks # << >>
          /\ acked' = Head(acks) /\ acks' = Tail(acks)
      BY <1>3 DEF AckArrives
    <2>2. /\ Head(acks) = acks[1] /\ Len(acks) \in Nat \ {0} /\ Len(acks') = Len(acks) - 1
          /\ \A x \in 1..Len(acks') : acks'[x] = acks[x + 1]
          /\ DOMAIN acks' = 1..Len(acks') /\ DOMAIN acks = 1..Len(acks)
      BY <2>1, TailSeq DEF Typed, TypeOK
    <2>3. Midway => Midway'
      BY <2>1, <2>2 DEF Midway, Counted, Read, Last, sender, receiver
    <2>4. Sent => Sent'
      BY <2>1 DEF Sent, receiver
    <2> QED BY <2>1, <2>3, <2>4 DEF Calm, sender
  <1>4. CASE UNCHANGED vars
    BY <1>4 DEF vars, sender, receiver, Calm, Midway, Sent, Counted, Read, Last
  <1> QED BY <1>1, <1>2, <1>3, <1>4, StartCalm, SendCalm, ReceiveCalm DEF Next, Send

\* Whatever the payloads: with room for the window, a START and an END, no frame is lost.
THEOREM WindowProtects == Window + 2 <= Queue => (Spec => []NothingLost)
  <1> SUFFICES ASSUME Window + 2 <= Queue PROVE Spec => []NothingLost
    OBVIOUS
  <1>1. Typed /\ Calm /\ [Next]_vars => Typed' /\ Calm'
    BY NextTyped, NextCalm
  <1>2. Calm => NothingLost BY DEF Calm, NothingLost
  <1> QED BY <1>1, <1>2, InitTyped, InitCalm, PTL DEF Spec

-----------------------------------------------------------------------------
(* Sequence numbers that wrap, and the rank of a payload among those that fit. *)

LEMMA Remainder ==
    ASSUME NEW m \in Nat \ {0}, NEW a \in Int
    PROVE  a % m \in 0..(m-1) /\ a \div m \in Int /\ a = (m * (a \div m)) + (a % m)
  OBVIOUS

LEMMA RemainderIs ==
    ASSUME NEW m \in Nat \ {0}, NEW q \in Int, NEW r \in 0..(m - 1)
    PROVE  ((m * q) + r) % m = r
  OBVIOUS

LEMMA ModNext ==
    ASSUME NEW m \in Nat \ {0}, NEW a \in Nat
    PROVE  ((a % m) + 1) % m = (a + 1) % m
  <1> DEFINE q == a \div m
             r == a % m
  <1>1. r \in 0..(m - 1) /\ q \in Int /\ a = (m * q) + r BY Remainder
  <1> HIDE DEF q, r
  <1>2. CASE r + 1 < m
    <2>1. r + 1 \in 0..(m - 1) BY <1>1, <1>2
    <2>2. a + 1 = (m * q) + (r + 1) BY <1>1
    <2>3. (a + 1) % m = r + 1 BY <1>1, <2>1, <2>2, RemainderIs
    <2>4. (r + 1) % m = r + 1
      <3>1. (r + 1) = (m * 0) + (r + 1) BY <1>1
      <3> QED BY <2>1, <3>1, RemainderIs
    <2> QED BY <2>3, <2>4 DEF r
  <1>3. CASE r + 1 = m
    <2>1. a + 1 = (m * (q + 1)) + 0 BY <1>1, <1>3
    <2>2. q + 1 \in Int /\ 0 \in 0..(m - 1) BY <1>1
    <2>3. (a + 1) % m = 0 BY <2>1, <2>2, RemainderIs
    <2>4. (r + 1) % m = 0
      <3>1. r + 1 = (m * 1) + 0 BY <1>1, <1>3
      <3> QED BY <2>2, <3>1, RemainderIs
    <2> QED BY <2>3, <2>4 DEF r
  <1> QED BY <1>1, <1>2, <1>3

LEMMA RankType ==
    ASSUME NEW k \in Nat
    PROVE  IsFiniteSet({j \in 1..k : Fits(j)}) /\ Rank(k) \in Nat
  <1>1. IsFiniteSet(1..k) BY FS_Interval
  <1>2. IsFiniteSet({j \in 1..k : Fits(j)}) BY <1>1, FS_Subset
  <1> QED BY <1>2, FS_CardinalityType DEF Rank

LEMMA RankNext ==
    ASSUME NEW k \in Nat
    PROVE  Rank(k + 1) = IF Fits(k + 1) THEN Rank(k) + 1 ELSE Rank(k)
  <1> DEFINE S(x) == {j \in 1..x : Fits(j)}
  <1>0. IsFiniteSet(S(k)) BY RankType
  <1>1. CASE Fits(k + 1)
    <2>1. S(k + 1) = S(k) \cup {k + 1} /\ k + 1 \notin S(k) BY <1>1
    <2> QED BY <1>0, <1>1, <2>1, FS_AddElement DEF Rank
  <1>2. CASE ~Fits(k + 1)
    <2>1. S(k + 1) = S(k) BY <1>2
    <2> QED BY <1>2, <2>1 DEF Rank
  <1> QED BY <1>1, <1>2

LEMMA RankBelow ==
    ASSUME NEW k \in Nat, NEW j \in 1..k, Fits(j)
    PROVE  Rank(j) \in 1..Rank(k)
  <1> DEFINE S(x) == {y \in 1..x : Fits(y)}
  <1>0. IsFiniteSet(S(k)) /\ IsFiniteSet(S(j)) /\ Rank(j) \in Nat /\ Rank(k) \in Nat BY RankType
  <1>1. S(j) \in SUBSET S(k) OBVIOUS
  <1>2. Cardinality(S(j)) <= Cardinality(S(k)) BY <1>0, <1>1, FS_Subset
  <1>3. j \in S(j) OBVIOUS
  <1>4. Cardinality(S(j)) # 0 BY <1>0, <1>3, FS_EmptySet
  <1> QED BY <1>0, <1>2, <1>4 DEF Rank

\* One payload more has been dealt with.
LEMMA ArrivedNext ==
    ASSUME NEW k \in Nat, k + 1 \in DOMAIN Lengths, delivered \in Seq(Seq(Pieces)), Arrived(k),
           delivered' = IF Fits(k + 1) THEN Append(delivered, Payload(k + 1)) ELSE delivered
    PROVE  Arrived(k + 1)'
  <1>0. Payload(k + 1) \in Seq(Pieces)
    <2>1. Lengths[k + 1] \in Nat BY TransferAssumption
    <2>2. \A j \in 1..Lengths[k + 1] : <<k + 1, j>> \in Pieces BY <2>1 DEF Pieces
    <2> QED BY <2>1, <2>2 DEF Payload
  <1>1. Rank(k) \in Nat /\ Rank(k + 1) = (IF Fits(k + 1) THEN Rank(k) + 1 ELSE Rank(k))
    BY RankType, RankNext
  <1>2. Len(delivered) = Rank(k) BY DEF Arrived
  <1>3. \A j \in 1..k : Fits(j) => delivered[Rank(j)] = Payload(j) /\ Rank(j) \in 1..Rank(k)
    BY RankBelow DEF Arrived
  <1>4. CASE Fits(k + 1)
    <2>1. /\ Len(delivered') = Rank(k) + 1 /\ delivered'[Rank(k) + 1] = Payload(k + 1)
          /\ \A x \in 1..Rank(k) : delivered'[x] = delivered[x]
      BY <1>0, <1>2, <1>4, AppendSeq
    <2>2. ASSUME NEW j \in 1..(k + 1), Fits(j) PROVE delivered'[Rank(j)] = Payload(j)
      <3>1. CASE j = k + 1 BY <1>1, <1>4, <2>1, <3>1
      <3>2. CASE j \in 1..k BY <1>3, <2>1, <2>2, <3>2
      <3>3. j = k + 1 \/ j \in 1..k OBVIOUS
      <3> QED BY <3>1, <3>2, <3>3
    <2> QED BY <1>1, <1>4, <2>1, <2>2 DEF Arrived
  <1>5. CASE ~Fits(k + 1)
    <2>1. delivered' = delivered BY <1>5
    <2>2. ASSUME NEW j \in 1..(k + 1), Fits(j) PROVE delivered'[Rank(j)] = Payload(j)
      <3>1. j \in 1..k BY <1>5, <2>2
      <3> QED BY <1>3, <2>1, <2>2, <3>1
    <2> QED BY <1>1, <1>2, <1>5, <2>1, <2>2 DEF Arrived
  <1> QED BY <1>4, <1>5

-----------------------------------------------------------------------------
(* Delivery.  Of payload k, p frames have been put and r of them read: the queue holds those *)
(* between, and the Reassembler has assembled what it has read.                              *)

Assembled(k, r) ==
    IF Fits(k) THEN active = [total |-> Lengths[k], seq |-> (r - 1) % SeqMod,
                              data |-> [j \in 1..(r - 1) |-> <<k, j>>], on |-> TRUE]
    ELSE ~active.on
Progress(k, r) == /\ r = 0 \/ r > Last(k) => ~active.on
                  /\ 1 <= r /\ r <= Last(k) => Assembled(k, r)
                  /\ r <= Last(k) => Arrived(k - 1)
                  /\ r > Last(k) => Arrived(k)
Stream(k, p) == /\ k \in DOMAIN Lengths /\ p \in 0..(Last(k) + 1) /\ Len(queue) <= p
                /\ \A x \in 1..Len(queue) : queue[x] = Encoded(k, p - Len(queue) + x - 1)
                /\ Progress(k, p - Len(queue))
Flow == ~disturbed => /\ pc = "send" => Stream(n, i)
                      /\ pc = "idle" /\ n > 1 => Stream(n - 1, Last(n - 1) + 1)
                      /\ pc = "idle" /\ n = 1 => queue = << >> /\ ~active.on /\ Arrived(0)

LEMMA InitFlow == Init => Flow
  <1> SUFFICES ASSUME Init PROVE Flow OBVIOUS
  <1>1. Rank(0) = 0
    <2>1. {j \in 1..0 : Fits(j)} = {} OBVIOUS
    <2> QED BY <2>1, FS_EmptySet DEF Rank
  <1>2. Arrived(0) BY <1>1 DEF Init, Arrived
  <1> QED BY <1>2 DEF Init, Flow, NoTransfer

\* The Reassembler takes the frame that follows, and no other comes.
LEMMA ReadsNext ==
    ASSUME Typed, Receive, NEW k, NEW p, Stream(k, p)
    PROVE  Stream(k, p)'
  <1>r. PICK r : r = p - Len(queue) OBVIOUS
  <1>0. /\ queue # << >> /\ queue' = Tail(queue)
        /\ active \in [total : Nat, seq : 0..(SeqMod - 1), data : Seq(Pieces), on : BOOLEAN]
        /\ delivered \in Seq(Seq(Pieces)) /\ queue \in Seq(Frames)
    BY DEF Typed, TypeOK, Receive, FeedStart, RefuseStart, FeedData, RefuseData, FeedEnd, RefuseEnd, FeedAbort, Feed
  <1>1. /\ Len(queue') = Len(queue) - 1 /\ Len(queue) \in Nat \ {0} /\ Frame = queue[1]
        /\ \A x \in 1..Len(queue') : queue'[x] = queue[x + 1]
    BY <1>0, TailSeq DEF Frame
  <1>2. /\ k \in DOMAIN Lengths /\ Lengths[k] \in Nat /\ Last(k) = Lengths[k] + 1 /\ SeqMod \in Nat \ {0}
        /\ p \in 0..(Last(k) + 1) /\ Len(queue) <= p /\ MaxTotal \in Nat /\ k \in Nat \ {0}
    BY TransferAssumption DEF Stream, Last
  <1>3. r \in 0..Last(k) /\ p - Len(queue') = r + 1 BY <1>r, <1>1, <1>2
  <1>4. Progress(k, r) BY <1>r DEF Stream
  <1>5. Frame = Encoded(k, r)
    <2>1. queue[1] = Encoded(k, p - Len(queue) + 1 - 1) BY <1>1 DEF Stream
    <2>2. p - Len(queue) + 1 - 1 = r BY <1>r, <1>1, <1>2
    <2> QED BY <1>1, <2>1, <2>2
  <1>6. \A x \in 1..Len(queue') : queue'[x] = Encoded(k, (p - Len(queue')) + x - 1)
    <2> SUFFICES ASSUME NEW x \in 1..Len(queue') PROVE queue'[x] = Encoded(k, (p - Len(queue')) + x - 1)
      OBVIOUS
    <2>1. x + 1 \in 1..Len(queue) /\ queue'[x] = queue[x + 1] BY <1>1
    <2>2. queue[x + 1] = Encoded(k, p - Len(queue) + (x + 1) - 1) BY <2>1 DEF Stream
    <2>3. p - Len(queue) + (x + 1) - 1 = (p - Len(queue')) + x - 1 BY <1>1, <1>2
    <2> QED BY <2>1, <2>2, <2>3
  <1>7. /\ Frame.seq = r % SeqMod /\ Frame.total = Lengths[k] /\ Frame.part = <<k, r>>
        /\ r = 0 => Frame.t = "start"
        /\ r = Last(k) => Frame.t = "end"
        /\ r # 0 /\ r # Last(k) => Frame.t = "data"
    BY <1>2, <1>3, <1>5 DEF Encoded
  <1>8. Progress(k, r + 1)'
    <2> HIDE DEF Frame
    <2>1. CASE r = 0
      <3>1. FeedStart \/ RefuseStart
        BY <1>7, <2>1 DEF Receive, RefuseData, FeedData, FeedEnd, RefuseEnd, FeedAbort, Feed
      <3>2. delivered' = delivered /\ Arrived(k - 1)
        BY <1>2, <1>4, <2>1, <3>1 DEF FeedStart, RefuseStart, Drop, Progress
      <3>3. Assembled(k, 1)'
        <4>1. CASE FeedStart
          <5>1. Frame.total <= MaxTotal /\ active' = [total |-> Frame.total, seq |-> Frame.seq, data |-> << >>, on |-> TRUE]
            BY <4>1 DEF FeedStart
          <5>2. [j \in 1..(1 - 1) |-> <<k, j>>] = << >> OBVIOUS
          <5> QED BY <1>2, <1>7, <2>1, <5>1, <5>2 DEF Assembled, Fits
        <4>2. CASE RefuseStart
          BY <1>2, <1>7, <4>2 DEF RefuseStart, Drop, NoTransfer, Assembled, Fits
        <4> QED BY <3>1, <4>1, <4>2
      <3> QED BY <1>2, <2>1, <3>2, <3>3 DEF Progress, Arrived, Last
    <2>2. CASE r # 0 /\ r # Last(k)
      <3>1. FeedData \/ RefuseData
        BY <1>7, <2>2 DEF Receive, FeedStart, RefuseStart, FeedEnd, RefuseEnd, FeedAbort, Feed
      <3>2. delivered' = delivered /\ Arrived(k - 1) /\ Assembled(k, r)
        BY <1>3, <1>4, <2>2, <3>1 DEF FeedData, RefuseData, Drop, Progress
      <3>3. Assembled(k, r + 1)'
        <4>1. CASE Fits(k)
          <5>1. active = [total |-> Lengths[k], seq |-> (r - 1) % SeqMod,
                          data |-> [j \in 1..(r - 1) |-> <<k, j>>], on |-> TRUE]
            BY <3>2, <4>1 DEF Assembled
          <5>2. Len(active.data) = r - 1 BY <1>3, <2>2, <5>1
          <5>3. Follows
            <6>1. (((r - 1) % SeqMod) + 1) % SeqMod = ((r - 1) + 1) % SeqMod
              <7>1. r - 1 \in Nat BY <1>3, <2>2
              <7> QED BY <1>2, <7>1, ModNext
            <6>2. (r - 1) + 1 = r BY <1>3
            <6> QED BY <1>7, <5>1, <6>1, <6>2 DEF Follows
          <5>4. Accepts BY <1>2, <1>3, <2>2, <5>1, <5>2, <5>3 DEF Accepts
          <5>5. active' = [active EXCEPT !.seq = Frame.seq, !.data = Append(@, Frame.part)]
            BY <3>1, <5>4 DEF FeedData, RefuseData
          <5>6. Append(active.data, Frame.part) = [j \in 1..r |-> <<k, j>>]
            BY <1>3, <1>7, <2>2, <5>1
          <5>7. (r + 1) - 1 = r BY <1>3
          <5> QED BY <1>7, <4>1, <5>1, <5>5, <5>6, <5>7 DEF Assembled
        <4>2. CASE ~Fits(k)
          <5>1. ~active.on BY <3>2, <4>2 DEF Assembled
          <5>2. RefuseData BY <3>1, <5>1 DEF FeedData, Accepts
          <5> QED BY <4>2, <5>2 DEF RefuseData, Drop, NoTransfer, Assembled
        <4> QED BY <4>1, <4>2
      <3> QED BY <1>2, <1>3, <2>2, <3>2, <3>3 DEF Progress, Arrived, Last
    <2>3. CASE r = Last(k)
      <3>1. FeedEnd \/ RefuseEnd
        BY <1>2, <1>7, <2>3 DEF Receive, FeedStart, RefuseStart, FeedData, RefuseData, FeedAbort, Feed
      <3>2. Arrived(k - 1) /\ Assembled(k, r)
        BY <1>2, <1>3, <1>4, <2>3 DEF Progress
      <3>3. ~active'.on BY <3>1 DEF FeedEnd, RefuseEnd, Drop, NoTransfer
      <3>4. delivered' = IF Fits(k) THEN Append(delivered, Payload(k)) ELSE delivered
        <4>1. CASE Fits(k)
          <5>1. active = [total |-> Lengths[k], seq |-> (r - 1) % SeqMod,
                          data |-> [j \in 1..(r - 1) |-> <<k, j>>], on |-> TRUE]
            BY <3>2, <4>1 DEF Assembled
          <5>2. active.data = Payload(k) /\ Len(active.data) = active.total
            <6>1. r - 1 = Lengths[k] BY <1>2, <2>3
            <6> QED BY <1>2, <5>1, <6>1 DEF Payload
          <5>3. Follows
            <6>1. (((r - 1) % SeqMod) + 1) % SeqMod = ((r - 1) + 1) % SeqMod
              <7>1. r - 1 \in Nat BY <1>2, <2>3
              <7> QED BY <1>2, <7>1, ModNext
            <6>2. (r - 1) + 1 = r BY <1>3
            <6> QED BY <1>7, <5>1, <6>1, <6>2 DEF Follows
          <5>4. Completes BY <1>7, <5>1, <5>2, <5>3 DEF Completes
          <5> QED BY <3>1, <4>1, <5>2, <5>4 DEF FeedEnd, RefuseEnd
        <4>2. CASE ~Fits(k)
          <5>1. ~Completes BY <3>2, <4>2 DEF Assembled, Completes
          <5> QED BY <3>1, <4>2, <5>1 DEF FeedEnd, RefuseEnd, Drop
        <4> QED BY <4>1, <4>2
      <3>5. Arrived(k)'
        <4>1. k - 1 \in Nat /\ (k - 1) + 1 = k BY <1>2
        <4>2. Arrived((k - 1) + 1)' BY <1>0, <1>2, <3>2, <3>4, <4>1, ArrivedNext
        <4> QED BY <4>1, <4>2 DEF Arrived
      <3> QED BY <1>2, <2>3, <3>3, <3>5 DEF Progress, Last
    <2> QED BY <2>1, <2>2, <2>3
  <1>9. Progress(k, p - Len(queue))' BY <1>3, <1>8
  <1> QED BY <1>1, <1>2, <1>6, <1>9 DEF Stream, Last

\* A frame put is the next of its transfer; the frames read stay what they were.
LEMMA PutsNext ==
    ASSUME Window + 2 <= Queue, Typed, Calm, Flow, SendFrame, ~disturbed, NEW k, NEW p, k = n, p = i
    PROVE  Stream(k, p + 1)'
  <1>1. ~lost /\ Midway /\ pc = "send" /\ Stream(k, p) BY DEF SendFrame, Calm, Flow
  <1>2. /\ k \in DOMAIN Lengths /\ Last(k) \in Nat \ {0} /\ p \in 0..(Last(k) + 1) /\ p <= Last(k)
        /\ queue \in Seq(Frames) /\ Len(queue) \in Nat /\ Len(queue) <= p /\ Window \in Nat \ {0}
    <2>1. k \in DOMAIN Lengths /\ p \in 0..(Last(k) + 1) /\ Len(queue) <= p BY <1>1 DEF Stream
    <2>2. Last(k) \in Nat \ {0} BY <2>1, TransferAssumption DEF Last
    <2>3. p <= Last(k) BY <1>1 DEF Midway
    <2> QED BY <2>1, <2>2, <2>3, TransferAssumption DEF Typed, TypeOK
  <1>3. Len(queue) + 1 <= Queue BY <1>1, <1>2, TransferAssumption DEF Midway
  <1>4. Encoded(k, p) \in Frames /\ Put(Encoded(k, p)) BY <1>2, EncodedType DEF SendFrame
  <1>5. queue' = Append(queue, Encoded(k, p)) BY <1>1, <1>3, <1>4, PutRoom
  <1>6. /\ Len(queue') = Len(queue) + 1 /\ queue'[Len(queue) + 1] = Encoded(k, p)
        /\ \A x \in 1..Len(queue) : queue'[x] = queue[x]
    BY <1>2, <1>4, <1>5, AppendSeq
  <1>7. UNCHANGED <<active, delivered>> BY DEF SendFrame, receiver
  <1>8. (p + 1) - Len(queue') = p - Len(queue) BY <1>2, <1>6
  <1>9. Progress(k, (p + 1) - Len(queue))'
    <2>1. Progress(k, p - Len(queue)) BY <1>1 DEF Stream
    <2> QED BY <1>7, <1>8, <2>1 DEF Progress, Assembled, Arrived
  <1>10. ASSUME NEW x \in 1..Len(queue') PROVE queue'[x] = Encoded(k, (p + 1) - Len(queue') + x - 1)
    <2>1. CASE x \in 1..Len(queue)
      <3>1. queue[x] = Encoded(k, p - Len(queue) + x - 1) BY <1>1, <2>1 DEF Stream
      <3> QED BY <1>6, <1>8, <2>1, <3>1
    <2>2. CASE x = Len(queue) + 1
      <3>1. (p + 1) - Len(queue') + x - 1 = p BY <1>2, <1>6, <2>2
      <3> QED BY <1>6, <2>2, <3>1
    <2> QED BY <1>2, <1>6, <2>1, <2>2
  <1>11. Last(k)' = Last(k) /\ p + 1 \in 0..(Last(k) + 1) /\ Len(queue') <= p + 1
    BY <1>2, <1>6 DEF Last
  <1> QED BY <1>2, <1>9, <1>10, <1>11 DEF Stream

LEMMA NextFlow ==
    ASSUME Window + 2 <= Queue, Typed, Calm, Flow, [Next]_vars
    PROVE  Flow'
  <1> SUFFICES ASSUME ~disturbed' PROVE Flow' BY DEF Flow
  <1>1. CASE Start
    <2>0. /\ ~disturbed /\ queue = << >> /\ UNCHANGED <<queue, active, delivered, n>>
          /\ pc = "idle" /\ pc' = "send" /\ i' = 0
      BY <1>1 DEF Start, receiver
    <2>1. n \in DOMAIN Lengths /\ n \in Nat \ {0}
      <3>1. Len(Lengths) \in Nat /\ DOMAIN Lengths = 1..Len(Lengths) BY TransferAssumption
      <3> QED BY <1>1, <3>1 DEF Start, Typed, TypeOK
    <2>2. ~active.on /\ Arrived(n - 1)
      <3>1. CASE n = 1 BY <2>0, <2>1, <3>1 DEF Flow
      <3>2. CASE n > 1
        <4>1. Progress(n - 1, Last(n - 1) + 1 - Len(queue)) BY <2>0, <2>1, <3>2 DEF Flow, Stream
        <4>2. Last(n - 1) \in Nat /\ Len(queue) = 0
          <5>1. n - 1 \in DOMAIN Lengths BY <2>0, <2>1, <3>2, TransferAssumption
          <5> QED BY <2>0, <2>1, <5>1, TransferAssumption DEF Last
        <4> QED BY <4>1, <4>2 DEF Progress
      <3> QED BY <2>0, <2>1, <3>1, <3>2
    <2>3. Last(n) \in Nat \ {0} BY <2>0, <2>1, TransferAssumption DEF Last
    <2>4. Stream(n, i)'
      <3>1. Len(queue') = 0 /\ Len(queue') \in Nat BY <2>0, <2>1
      <3> QED BY <2>0, <2>1, <2>2, <2>3, <3>1 DEF Stream, Progress, Arrived, Last
    <2> QED BY <2>0, <2>1, <2>4 DEF Flow
  <1>2. CASE SendFrame
    <2>1. ~disturbed /\ pc = "send" /\ n \in DOMAIN Lengths /\ n \in Nat \ {0}
      BY <1>2, TransferAssumption DEF SendFrame, Typed, TypeOK, Sending
    <2>2. PICK k, p : k = n /\ p = i OBVIOUS
    <2>3. Stream(k, p + 1)' BY <1>2, <2>1, <2>2, PutsNext
    <2>4. CASE i = Last(n)
      <3>1. pc' = "idle" /\ n' - 1 = k /\ n' > 1 BY <1>2, <2>1, <2>2, <2>4 DEF SendFrame, Done
      <3>2. Last(k) + 1 = p + 1 BY <2>2, <2>4
      <3>3. Stream(n - 1, Last(n - 1) + 1)' BY <2>3, <3>1, <3>2 DEF Last
      <3> QED BY <3>1, <3>3 DEF Flow
    <2>5. CASE i # Last(n)
      <3>1. pc' = "send" /\ n' = k /\ i' = p + 1 BY <1>2, <2>1, <2>2, <2>5 DEF SendFrame
      <3>2. Stream(n, i)' BY <2>3, <3>1
      <3> QED BY <3>1, <3>2 DEF Flow
    <2> QED BY <2>4, <2>5
  <1>3. CASE Receive
    <2>1. queue # << >> /\ UNCHANGED <<pc, n, i, disturbed>>
      BY <1>3 DEF Receive, FeedStart, RefuseStart, FeedData, RefuseData, FeedEnd, RefuseEnd, FeedAbort, Feed, sender
    <2>2. CASE pc = "send"
      <3>1. PICK k, p : k = n /\ p = i OBVIOUS
      <3>2. Stream(k, p) BY <2>1, <2>2, <3>1 DEF Flow
      <3>3. Stream(k, p)' BY <1>3, <3>2, ReadsNext
      <3>4. Stream(n, i)' BY <2>1, <3>1, <3>3
      <3> QED BY <2>1, <2>2, <3>4 DEF Flow
    <2>3. CASE pc = "idle"
      <3>1. n > 1 BY <2>1, <2>3 DEF Flow, Typed, TypeOK
      <3>2. PICK k, p : k = n - 1 /\ p = Last(n - 1) + 1 OBVIOUS
      <3>3. Stream(k, p) BY <2>1, <2>3, <3>1, <3>2 DEF Flow
      <3>4. Stream(k, p)' BY <1>3, <3>3, ReadsNext
      <3>5. Stream(n - 1, Last(n - 1) + 1)' BY <2>1, <3>2, <3>4 DEF Last
      <3> QED BY <2>1, <2>3, <3>1, <3>5 DEF Flow
    <2> QED BY <2>1, <2>2, <2>3 DEF Calm, Typed, TypeOK
  <1>4. CASE AckArrives \/ UNCHANGED vars
    <2>1. UNCHANGED <<pc, n, i, queue, active, delivered, disturbed>>
      BY <1>4 DEF AckArrives, vars, sender, receiver
    <2> QED BY <2>1 DEF Flow, Stream, Progress, Assembled, Arrived, Last
  <1>5. CASE Retry
    BY <1>5 DEF Retry, Calm
  <1>6. CASE Stall \/ Break
    BY <1>6 DEF Stall, Break
  <1> QED BY <1>1, <1>2, <1>3, <1>4, <1>5, <1>6 DEF Next, Send

\* Until a send is disturbed every payload that is not too long arrives, once and in order, as
\* soon as its frames are read: sequence numbers that wrap and refused payloads included.
THEOREM Delivery == Window + 2 <= Queue => (Spec => []AllArrive)
  <1> SUFFICES ASSUME Window + 2 <= Queue PROVE Spec => []AllArrive
    OBVIOUS
  <1>1. Typed /\ Calm /\ Flow /\ [Next]_vars => Typed' /\ Calm' /\ Flow'
    BY NextTyped, NextCalm, NextFlow
  <1>2. Typed /\ Calm /\ Flow => AllArrive
    <2> SUFFICES ASSUME Typed, Calm, Flow, ~disturbed, queue = << >> PROVE Arrived(n - 1)
      BY DEF AllArrive
    <2>1. n \in Nat \ {0} /\ Len(queue) = 0 /\ pc \in {"idle", "send"}
      BY TransferAssumption DEF Typed, TypeOK, Calm
    <2>2. CASE pc = "send"
      <3>1. Stream(n, i) /\ i <= Last(n) /\ i \in Nat BY <2>2 DEF Flow, Calm, Midway, Typed, TypeOK
      <3> QED BY <2>1, <3>1 DEF Stream, Progress
    <2>3. CASE pc = "idle" /\ n > 1
      <3>1. Stream(n - 1, Last(n - 1) + 1) BY <2>3 DEF Flow
      <3>2. Last(n - 1) \in Nat BY <3>1, TransferAssumption DEF Stream, Last
      <3> QED BY <2>1, <3>1, <3>2 DEF Stream, Progress
    <2>4. CASE pc = "idle" /\ n = 1 BY <2>1, <2>4 DEF Flow
    <2> QED BY <2>1, <2>2, <2>3, <2>4
  <1> QED BY <1>1, <1>2, InitTyped, InitCalm, InitFlow, PTL DEF Spec
-----------------------------------------------------------------------------
(* Integrity.  Nothing is assumed of losses, stalls, retries or broken connections here: the  *)
(* queue keeps the order in which frames were put, so the payloads in it only go forward, and *)
(* what the Reassembler has taken since its START lies between the two in that order.         *)

IsFrame(f) == f.t # "abort"
Owner(f) == f.part[1]

\* Everything under way is a frame of a payload that has been taken up, in order.
Ordered == /\ \A x \in 1..Len(queue) : IsFrame(queue[x]) =>
                 \E k \in DOMAIN Lengths : /\ k <= n
                                           /\ \E j \in 0..Last(k) : queue[x] = Encoded(k, j)
           /\ \A x, y \in 1..Len(queue) :
                 x <= y /\ IsFrame(queue[x]) /\ IsFrame(queue[y]) => Owner(queue[x]) <= Owner(queue[y])

\* The pieces of s come from the payloads lo to hi, and each from where its sequence number may be.
Pieced(s, lo, hi) == \A x \in 1..Len(s) : /\ s[x][1] \in lo..hi
                                          /\ s[x][2] \in 1..Lengths[s[x][1]]
                                          /\ s[x][2] % SeqMod = x % SeqMod
\* No frame to come is of a payload before b.
Ahead(b) == b <= n /\ \A x \in 1..Len(queue) : IsFrame(queue[x]) => b <= Owner(queue[x])
Assembling == active.on => \E lo, hi \in DOMAIN Lengths :
                  /\ lo <= hi /\ Ahead(hi) /\ Pieced(active.data, lo, hi)
                  /\ Fits(lo) /\ active.total = Lengths[lo]
                  /\ active.seq = Len(active.data) % SeqMod

\* Begun by the START of lo and ended by the END of hi, of the same length
Between(s, lo, hi) == /\ lo <= hi /\ Fits(lo) /\ Lengths[lo] = Lengths[hi]
                      /\ Len(s) = Lengths[lo] /\ Pieced(s, lo, hi)
InSequence == \A d \in DOMAIN delivered : \E lo, hi \in DOMAIN Lengths : Between(delivered[d], lo, hi)
Upto == pc = "send" => i <= Last(n)
Whole == Upto /\ Ordered /\ Assembling /\ InSequence

LEMMA InitWhole == Init => Whole
  <1> SUFFICES ASSUME Init PROVE Whole OBVIOUS
  <1>1. queue = << >> /\ Len(queue) = 0 /\ ~active.on /\ delivered = << >> /\ DOMAIN delivered = {}
    BY DEF Init, NoTransfer
  <1>2. Upto BY DEF Init, Upto
  <1> QED BY <1>1, <1>2 DEF Whole, Ordered, Assembling, InSequence

LEMMA EncodedOwner ==
    ASSUME NEW k, NEW j
    PROVE  IsFrame(Encoded(k, j)) /\ Owner(Encoded(k, j)) = k
  BY DEF IsFrame, Owner, Encoded

\* Whatever the head loses and whatever of the payload being sent is put at the end, the queue
\* stays in order.
LEMMA OrderKept ==
    ASSUME Ordered, n \in Nat, n' \in Nat, n <= n', Len(queue) \in Nat, Len(queue') \in Nat, NEW h \in Nat,
           \A x \in 1..Len(queue') :
              \/ x + h \in 1..Len(queue) /\ queue'[x] = queue[x + h]
              \/ /\ x = Len(queue')
                 /\ IsFrame(queue'[x]) => n \in DOMAIN Lengths /\ \E j \in 0..Last(n) : queue'[x] = Encoded(n, j)
    PROVE  Ordered' /\ \A b \in Nat : Ahead(b) => Ahead(b)'
  <1> DEFINE New(x) == /\ x = Len(queue') /\ n \in DOMAIN Lengths /\ Owner(queue'[x]) = n
                       /\ \E j \in 0..Last(n) : queue'[x] = Encoded(n, j)
             Old(x) == x + h \in 1..Len(queue) /\ queue'[x] = queue[x + h]
  <1>1. \A x \in 1..Len(queue') : IsFrame(queue'[x]) => Old(x) \/ New(x)
    BY EncodedOwner
  <1>2. ASSUME NEW x \in 1..Len(queue'), IsFrame(queue'[x]), Old(x)
        PROVE  /\ Owner(queue'[x]) = Owner(queue[x + h]) /\ Owner(queue'[x]) \in DOMAIN Lengths
               /\ Owner(queue'[x]) <= n
               /\ \E j \in 0..Last(Owner(queue'[x])) : queue'[x] = Encoded(Owner(queue'[x]), j)
    <2>1. IsFrame(queue[x + h]) BY <1>2
    <2>2. PICK k \in DOMAIN Lengths : k <= n /\ \E j \in 0..Last(k) : queue[x + h] = Encoded(k, j)
      BY <1>2, <2>1 DEF Ordered
    <2>3. Owner(queue[x + h]) = k BY <2>2, EncodedOwner
    <2> QED BY <1>2, <2>2, <2>3
  <1> HIDE DEF Old, New
  <1>3. ASSUME NEW x \in 1..Len(queue'), IsFrame(queue'[x])
        PROVE  \E k \in DOMAIN Lengths : k <= n' /\ \E j \in 0..Last(k) : queue'[x] = Encoded(k, j)
    <2>1. CASE Old(x)
      <3>1. Owner(queue'[x]) \in Nat BY <1>2, <1>3, <2>1, TransferAssumption
      <3>2. Owner(queue'[x]) <= n' BY <1>2, <1>3, <2>1, <3>1
      <3> QED BY <1>2, <1>3, <2>1, <3>2
    <2>2. CASE New(x) BY <2>2 DEF New
    <2> QED BY <1>1, <1>3, <2>1, <2>2
  <1>4. ASSUME NEW x \in 1..Len(queue'), NEW y \in 1..Len(queue'), x <= y,
               IsFrame(queue'[x]), IsFrame(queue'[y])
        PROVE  Owner(queue'[x]) <= Owner(queue'[y])
    <2>1. CASE Old(x) /\ Old(y)
      <3>1. /\ x + h \in 1..Len(queue) /\ y + h \in 1..Len(queue) /\ x + h <= y + h
            /\ queue'[x] = queue[x + h] /\ queue'[y] = queue[y + h]
        BY <1>4, <2>1 DEF Old
      <3> QED BY <1>4, <3>1 DEF Ordered
    <2>2. CASE Old(x) /\ New(y)
      <3>1. Owner(queue'[x]) <= n BY <1>2, <1>4, <2>2
      <3> QED BY <2>2, <3>1 DEF New
    <2>3. CASE New(x)
      <3>1. x = y BY <1>4, <2>3 DEF New
      <3> QED BY <2>3, <3>1 DEF New
    <2> QED BY <1>1, <1>4, <2>1, <2>2, <2>3
  <1>5. ASSUME NEW b \in Nat, Ahead(b) PROVE Ahead(b)'
    <2>1. b <= n' BY <1>5 DEF Ahead
    <2>2. ASSUME NEW x \in 1..Len(queue'), IsFrame(queue'[x]) PROVE b <= Owner(queue'[x])
      <3>1. CASE Old(x)
        <4>1. x + h \in 1..Len(queue) /\ queue'[x] = queue[x + h] BY <3>1 DEF Old
        <4> QED BY <1>5, <2>2, <4>1 DEF Ahead
      <3>2. CASE New(x)
        BY <1>5, <3>2 DEF New, Ahead
      <3> QED BY <1>1, <2>2, <3>1, <3>2
    <2> QED BY <2>1, <2>2 DEF Ahead, IsFrame, Owner
  <1>6. Ordered' BY <1>3, <1>4 DEF Ordered, IsFrame, Owner, Last, Encoded
  <1> QED BY <1>5, <1>6

\* A frame is put at the end, with or without the loss of the oldest.
LEMMA PutShape ==
    ASSUME Typed, NEW f \in Frames, Put(f)
    PROVE  /\ Len(queue) \in Nat /\ Len(queue') \in Nat
           /\ \E h \in Nat : \A x \in 1..Len(queue') : \/ x + h \in 1..Len(queue) /\ queue'[x] = queue[x + h]
                                                       \/ x = Len(queue') /\ queue'[x] = f
  <1> DEFINE q == Append(queue, f)
  <1>0. queue \in Seq(Frames) /\ Len(queue) \in Nat BY DEF Typed, TypeOK
  <1>1. /\ q \in Seq(Frames) /\ Len(q) = Len(queue) + 1 /\ q[Len(queue) + 1] = f
        /\ \A x \in 1..Len(queue) : q[x] = queue[x]
    BY <1>0, AppendSeq
  <1>2. queue' = q \/ queue' = Tail(q) BY DEF Put
  <1> HIDE DEF q
  <1>3. CASE queue' = q
    <2>1. \A x \in 1..Len(queue') : \/ x + 0 \in 1..Len(queue) /\ queue'[x] = queue[x + 0]
                                    \/ x = Len(queue') /\ queue'[x] = f
      BY <1>0, <1>1, <1>3
    <2>2. Len(queue') \in Nat BY <1>0, <1>1, <1>3
    <2>4. Len(queue) \in Nat /\ Len(queue') \in Nat BY <1>0, <1>1, <2>2
    <2>5. \E h \in Nat : \A x \in 1..Len(queue') : \/ x + h \in 1..Len(queue) /\ queue'[x] = queue[x + h]
                                                   \/ x = Len(queue') /\ queue'[x] = f
      <3> WITNESS 0 \in Nat
      <3> QED BY <2>1
    <2> QED BY <2>4, <2>5
  <1>4. CASE queue' = Tail(q)
    <2>1. q # << >> BY <1>0, <1>1
    <2>2. /\ Len(queue') = Len(queue)
          /\ \A x \in 1..Len(queue') : queue'[x] = q[x + 1]
      BY <1>0, <1>1, <1>4, <2>1, TailSeq
    <2>3. \A x \in 1..Len(queue') : \/ x + 1 \in 1..Len(queue) /\ queue'[x] = queue[x + 1]
                                    \/ x = Len(queue') /\ queue'[x] = f
      <3> SUFFICES ASSUME NEW x \in 1..Len(queue')
                   PROVE  \/ x + 1 \in 1..Len(queue) /\ queue'[x] = queue[x + 1]
                          \/ x = Len(queue') /\ queue'[x] = f
        OBVIOUS
      <3>1. queue'[x] = q[x + 1] BY <2>2
      <3>2. CASE x + 1 \in 1..Len(queue) BY <1>1, <3>1, <3>2
      <3>3. CASE x = Len(queue) BY <1>1, <2>2, <3>1, <3>3
      <3> QED BY <1>0, <2>2, <3>2, <3>3
    <2>4. Len(queue) \in Nat /\ Len(queue') \in Nat BY <1>0, <1>1, <2>2
    <2>5. \E h \in Nat : \A x \in 1..Len(queue') : \/ x + h \in 1..Len(queue) /\ queue'[x] = queue[x + h]
                                                   \/ x = Len(queue') /\ queue'[x] = f
      <3> WITNESS 1 \in Nat
      <3> QED BY <2>3
    <2> QED BY <2>4, <2>5
  <1> QED BY <1>2, <1>3, <1>4

LEMMA PutOrder ==
    ASSUME Typed, Ordered, n' \in Nat, n <= n', NEW f \in Frames, Put(f),
           IsFrame(f) => n \in DOMAIN Lengths /\ \E j \in 0..Last(n) : f = Encoded(n, j)
    PROVE  Ordered' /\ \A b \in Nat : Ahead(b) => Ahead(b)'
  <1>0. n \in Nat BY TransferAssumption DEF Typed, TypeOK
  <1>1. /\ Len(queue) \in Nat /\ Len(queue') \in Nat
        /\ \E h \in Nat : \A x \in 1..Len(queue') : \/ x + h \in 1..Len(queue) /\ queue'[x] = queue[x + h]
                                                    \/ x = Len(queue') /\ queue'[x] = f
    BY PutShape
  <1>2. PICK h \in Nat : \A x \in 1..Len(queue') : \/ x + h \in 1..Len(queue) /\ queue'[x] = queue[x + h]
                                                   \/ x = Len(queue') /\ queue'[x] = f
    BY <1>1
  <1> QED BY <1>0, <1>1, <1>2, OrderKept

\* Nothing is put.
LEMMA SameOrder ==
    ASSUME Typed, Ordered, n' \in Nat, n <= n', queue' = queue
    PROVE  Ordered' /\ \A b \in Nat : Ahead(b) => Ahead(b)'
  <1>0. queue \in Seq(Frames) /\ Len(queue) \in Nat /\ Len(queue') \in Nat /\ n \in Nat
    BY TransferAssumption DEF Typed, TypeOK
  <1>1. \A x \in 1..Len(queue') : x + 0 \in 1..Len(queue) /\ queue'[x] = queue[x + 0] BY <1>0
  <1> QED BY <1>0, <1>1, OrderKept

LEMMA SendWhole ==
    ASSUME Typed, Whole, Send \/ AckArrives
    PROVE  Whole'
  <1> USE DEF Whole
  <1>0. n \in Nat /\ n' \in Nat /\ n <= n' /\ UNCHANGED <<active, delivered>>
    <2>1. n \in Nat /\ (n' = n \/ n' = n + 1)
      BY TransferAssumption DEF Typed, TypeOK, Send, Start, SendFrame, Stall, Retry, Break, Done, AckArrives, sender
    <2>2. UNCHANGED <<active, delivered>>
      BY DEF Send, Start, SendFrame, Stall, Retry, Break, AckArrives, receiver
    <2> QED BY <2>1, <2>2
  <1>1. Ordered' /\ \A b \in Nat : Ahead(b) => Ahead(b)'
    <2>1. CASE SendFrame
      <3>1. n \in DOMAIN Lengths /\ i \in Nat
        BY <2>1, TransferAssumption DEF SendFrame, Typed, TypeOK, Sending
      <3>2. Put(Encoded(n, i)) /\ Encoded(n, i) \in Frames
        BY <2>1, <3>1, EncodedType DEF SendFrame
      <3>3. i \in 0..Last(n)
        <4>1. i <= Last(n) /\ Last(n) \in Nat BY <2>1, <3>1, TransferAssumption DEF SendFrame, Upto, Last
        <4> QED BY <3>1, <4>1
      <3> QED BY <1>0, <3>1, <3>2, <3>3, PutOrder
    <2>2. CASE Stall
      <3>1. Abort \in Frames /\ ~IsFrame(Abort) BY DEF Frames, Abort, IsFrame
      <3> QED BY <1>0, <2>2, <3>1, PutOrder DEF Stall
    <2>3. CASE Start \/ Retry \/ Break \/ AckArrives
      <3>1. queue' = queue BY <2>3 DEF Start, Retry, Break, AckArrives
      <3> QED BY <1>0, <3>1, SameOrder
    <2> QED BY <2>1, <2>2, <2>3 DEF Send
  <1>2. Assembling'
    <2> SUFFICES ASSUME active.on
                 PROVE  \E lo, hi \in DOMAIN Lengths :
                            /\ lo <= hi /\ Ahead(hi)' /\ Pieced(active.data, lo, hi)
                            /\ Fits(lo) /\ active.total = Lengths[lo]
                            /\ active.seq = Len(active.data) % SeqMod
      BY <1>0 DEF Assembling, Pieced, Fits
    <2>1. \A b \in DOMAIN Lengths : b \in Nat BY TransferAssumption
    <2> QED BY <1>1, <2>1 DEF Assembling
  <1>3. InSequence'
    <2>1. delivered' = delivered BY <1>0
    <2> QED BY <2>1 DEF InSequence, Between, Pieced, Fits
  <1>4. Upto'
    <2>1. CASE Start \/ Retry
      <3>1. n' = n /\ i' = 0 /\ n \in DOMAIN Lengths
        <4>1. n <= Len(Lengths) /\ n \in Nat \ {0} BY <2>1 DEF Start, Retry, Typed, TypeOK, Sending
        <4> QED BY <2>1, <4>1, TransferAssumption DEF Start, Retry
      <3>2. Last(n)' = Last(n) /\ Last(n) \in Nat BY <3>1, TransferAssumption DEF Last
      <3> QED BY <3>1, <3>2 DEF Upto
    <2>2. CASE SendFrame
      <3>1. CASE i = Last(n) BY <2>2, <3>1 DEF SendFrame, Done, Upto
      <3>2. CASE i # Last(n)
        <4>1. /\ i <= Last(n) /\ i' = i + 1 /\ n' = n /\ i \in Nat /\ n \in DOMAIN Lengths
          BY <2>2, <3>2, TransferAssumption DEF SendFrame, Upto, Typed, TypeOK, Sending
        <4>2. Last(n)' = Last(n) /\ Last(n) \in Nat BY <4>1, TransferAssumption DEF Last
        <4> QED BY <3>2, <4>1, <4>2 DEF Upto
      <3> QED BY <3>1, <3>2
    <2>3. CASE Stall \/ Break
      BY <2>3 DEF Stall, Break, Done, Upto
    <2>4. CASE AckArrives
      BY <2>4 DEF AckArrives, sender, Upto, Last
    <2> QED BY <2>1, <2>2, <2>3, <2>4 DEF Send
  <1> QED BY <1>1, <1>2, <1>3, <1>4

\* What is read is of a payload that nothing before it in the transfer comes after.
LEMMA ReceiveWhole ==
    ASSUME Typed, Whole, Receive
    PROVE  Whole'
  <1> USE DEF Whole
  <1>0. /\ queue # << >> /\ queue' = Tail(queue) /\ n' = n /\ n \in Nat /\ UNCHANGED <<pc, i>>
        /\ active \in [total : Nat, seq : 0..(SeqMod - 1), data : Seq(Pieces), on : BOOLEAN]
        /\ delivered \in Seq(Seq(Pieces)) /\ queue \in Seq(Frames)
    <2>1. queue # << >> /\ queue' = Tail(queue) /\ UNCHANGED sender
      BY DEF Receive, FeedStart, RefuseStart, FeedData, RefuseData, FeedEnd, RefuseEnd, FeedAbort, Feed
    <2> QED BY <2>1, TransferAssumption DEF Typed, TypeOK, sender
  <1>1. /\ Len(queue') = Len(queue) - 1 /\ Len(queue) \in Nat \ {0} /\ Len(queue') \in Nat /\ Frame = queue[1]
        /\ \A x \in 1..Len(queue') : queue'[x] = queue[x + 1]
    BY <1>0, TailSeq DEF Frame
  <1>2. Ordered' /\ \A b \in Nat : Ahead(b) => Ahead(b)'
    <2>1. \A x \in 1..Len(queue') : x + 1 \in 1..Len(queue) /\ queue'[x] = queue[x + 1] BY <1>1
    <2>2. n <= n' BY <1>0
    <2> QED BY <1>0, <1>1, <2>1, <2>2, OrderKept
  <1>u. Upto' BY <1>0 DEF Upto, Last
  <1>3. \A b \in DOMAIN Lengths : b \in Nat /\ Lengths[b] \in Nat BY TransferAssumption
  <1>4. ASSUME IsFrame(Frame)
        PROVE  \E o \in DOMAIN Lengths : /\ Ahead(o)' /\ \A b \in Nat : Ahead(b) => b <= o
                                         /\ \E j \in 0..Last(o) : Frame = Encoded(o, j)
    <2>1. IsFrame(queue[1]) /\ 1 \in 1..Len(queue) BY <1>1, <1>4
    <2>2. PICK o \in DOMAIN Lengths : o <= n /\ \E j \in 0..Last(o) : queue[1] = Encoded(o, j)
      BY <2>1 DEF Ordered
    <2>3. Owner(queue[1]) = o BY <2>2, EncodedOwner
    <2>4. ASSUME NEW x \in 1..Len(queue'), IsFrame(queue'[x]) PROVE o <= Owner(queue'[x])
      <3>1. x + 1 \in 1..Len(queue) /\ queue'[x] = queue[x + 1] /\ 1 <= x + 1 BY <1>1
      <3> QED BY <2>1, <2>3, <2>4, <3>1 DEF Ordered
    <2>5. Ahead(o)' BY <1>0, <2>2, <2>4 DEF Ahead, IsFrame, Owner
    <2>6. \A b \in Nat : Ahead(b) => b <= o BY <2>1, <2>3 DEF Ahead
    <2> QED BY <1>1, <2>2, <2>5, <2>6
  <1> HIDE DEF Frame
  <1>5. CASE FeedStart
    <2>1. Frame.t = "start" /\ IsFrame(Frame) BY <1>5 DEF FeedStart, Feed, IsFrame
    <2>2. PICK o \in DOMAIN Lengths : Ahead(o)' /\ \E j \in 0..Last(o) : Frame = Encoded(o, j)
      BY <1>4, <2>1
    <2>3. PICK j \in 0..Last(o) : Frame = Encoded(o, j) BY <2>2
    <2>4. j = 0 BY <2>1, <2>3 DEF Encoded
    <2>5. Frame.total = Lengths[o] /\ Frame.seq = 0 % SeqMod BY <2>3, <2>4 DEF Encoded
    <2>6. active' = [total |-> Lengths[o], seq |-> 0 % SeqMod, data |-> << >>, on |-> TRUE] /\ Fits(o)
      BY <1>5, <2>5 DEF FeedStart, Fits
    <2>7. Pieced(<< >>, o, o) /\ Len(<< >>) = 0 BY DEF Pieced
    <2>8. Assembling'
      <3>1. active'.total = Lengths[o] /\ active'.seq = Len(active'.data) % SeqMod /\ active'.data = << >>
        BY <2>6, <2>7
      <3>2. Pieced(active'.data, o, o) /\ o <= o BY <1>3, <2>7, <3>1
      <3> QED BY <2>2, <2>6, <3>1, <3>2 DEF Assembling, Pieced, Fits
    <2>9. InSequence' BY <1>5 DEF FeedStart, InSequence, Between, Pieced, Fits
    <2> QED BY <1>2, <1>u, <2>8, <2>9
  <1>6. CASE FeedData
    <2>1. Frame.t = "data" /\ IsFrame(Frame) /\ active.on /\ Follows BY <1>6 DEF FeedData, Feed, Accepts, IsFrame
    <2>2. PICK o \in DOMAIN Lengths : /\ Ahead(o)' /\ \A b \in Nat : Ahead(b) => b <= o
                                      /\ \E j \in 0..Last(o) : Frame = Encoded(o, j)
      BY <1>4, <2>1
    <2>3. PICK j \in 0..Last(o) : Frame = Encoded(o, j) BY <2>2
    <2>4. PICK lo, hi \in DOMAIN Lengths :
             /\ lo <= hi /\ Ahead(hi) /\ Pieced(active.data, lo, hi)
             /\ Fits(lo) /\ active.total = Lengths[lo]
             /\ active.seq = Len(active.data) % SeqMod
      BY <2>1 DEF Assembling
    <2>5. hi <= o /\ lo <= o BY <1>3, <2>2, <2>4
    <2>6. j \in 1..Lengths[o] /\ Frame.part = <<o, j>> /\ Frame.seq = j % SeqMod
      <3>1. Last(o) = Lengths[o] + 1 /\ Lengths[o] \in Nat BY <1>3 DEF Last
      <3>2. j # 0 /\ j # Last(o) BY <2>1, <2>3 DEF Encoded
      <3>3. Frame.part = <<o, j>> /\ Frame.seq = j % SeqMod BY <2>3 DEF Encoded
      <3> QED BY <3>1, <3>2, <3>3
    <2> DEFINE m == Len(active.data)
               data == Append(active.data, <<o, j>>)
    <2>7. active.data \in Seq(Pieces) /\ m \in Nat /\ <<o, j>> \in Pieces BY <1>0, <2>6 DEF Pieces
    <2>8. /\ Len(data) = m + 1 /\ data[m + 1] = <<o, j>>
          /\ \A x \in 1..m : data[x] = active.data[x]
      BY <2>7, AppendSeq
    <2>9. j % SeqMod = (m + 1) % SeqMod
      <3>1. SeqMod \in Nat \ {0} BY TransferAssumption
      <3>2. ((m % SeqMod) + 1) % SeqMod = (m + 1) % SeqMod BY <2>7, <3>1, ModNext
      <3> QED BY <2>1, <2>4, <2>6, <3>2 DEF Follows
    <2>10. /\ active'.data = data /\ active'.seq = j % SeqMod /\ active'.total = active.total
           /\ delivered' = delivered
      BY <1>0, <1>6, <2>6 DEF FeedData
    <2> HIDE DEF m, data
    <2>11. Pieced(data, lo, o)
      <3> SUFFICES ASSUME NEW x \in 1..Len(data)
                   PROVE  /\ data[x][1] \in lo..o /\ data[x][2] \in 1..Lengths[data[x][1]]
                          /\ data[x][2] % SeqMod = x % SeqMod
        BY DEF Pieced
      <3>1. CASE x \in 1..m
        <4>1. /\ active.data[x][1] \in lo..hi /\ active.data[x][2] \in 1..Lengths[active.data[x][1]]
              /\ active.data[x][2] % SeqMod = x % SeqMod
          BY <2>4, <3>1 DEF Pieced, m
        <4>2. data[x] = active.data[x] BY <2>8, <3>1
        <4>3. lo..hi \subseteq lo..o BY <1>3, <2>5
        <4> QED BY <4>1, <4>2, <4>3
      <3>2. CASE x = m + 1
        <4>1. data[x][1] = o /\ data[x][2] = j BY <2>8, <3>2
        <4>2. o \in lo..o BY <1>3, <2>5
        <4> QED BY <2>6, <2>9, <3>2, <4>1, <4>2
      <3> QED BY <2>7, <2>8, <3>1, <3>2
    <2>12. Assembling'
      BY <2>2, <2>4, <2>5, <2>8, <2>9, <2>10, <2>11 DEF Assembling, Pieced, Fits
    <2>13. InSequence' BY <2>10 DEF InSequence, Between, Pieced, Fits
    <2> QED BY <1>2, <1>u, <2>12, <2>13
  <1>7. CASE FeedEnd
    <2>1. Frame.t = "end" /\ IsFrame(Frame) /\ active.on /\ Frame.total = active.total
          /\ Len(active.data) = active.total
      BY <1>7 DEF FeedEnd, Feed, Completes, IsFrame
    <2>2. PICK o \in DOMAIN Lengths : /\ Ahead(o)' /\ \A b \in Nat : Ahead(b) => b <= o
                                      /\ \E j \in 0..Last(o) : Frame = Encoded(o, j)
      BY <1>4, <2>1
    <2>3. Frame.total = Lengths[o] BY <2>2 DEF Encoded
    <2>4. PICK lo, hi \in DOMAIN Lengths :
             /\ lo <= hi /\ Ahead(hi) /\ Pieced(active.data, lo, hi)
             /\ Fits(lo) /\ active.total = Lengths[lo]
      BY <2>1 DEF Assembling
    <2>5. hi <= o /\ lo <= o BY <1>3, <2>2, <2>4
    <2>6. Between(active.data, lo, o)
      <3>1. lo..hi \subseteq lo..o BY <1>3, <2>5
      <3>2. Pieced(active.data, lo, o) BY <2>4, <3>1 DEF Pieced
      <3> QED BY <2>1, <2>3, <2>4, <2>5, <3>2 DEF Between
    <2>7. delivered' = Append(delivered, active.data) /\ ~active'.on
      BY <1>7 DEF FeedEnd, NoTransfer
    <2>8. InSequence'
      <3>1. /\ delivered \in Seq(Seq(Pieces)) /\ active.data \in Seq(Pieces) /\ Len(delivered) \in Nat
        BY <1>0
      <3>2. /\ delivered' \in Seq(Seq(Pieces)) /\ Len(delivered') = Len(delivered) + 1
            /\ delivered'[Len(delivered) + 1] = active.data
            /\ \A x \in 1..Len(delivered) : delivered'[x] = delivered[x]
        BY <2>7, <3>1, AppendSeq
      <3>3. ASSUME NEW d \in DOMAIN delivered'
            PROVE  \E a, b \in DOMAIN Lengths : Between(delivered'[d], a, b)
        <4>1. d \in 1..Len(delivered) \/ d = Len(delivered) + 1 BY <3>1, <3>2
        <4>2. CASE d \in 1..Len(delivered)
          <5>1. d \in DOMAIN delivered /\ delivered'[d] = delivered[d] BY <3>1, <3>2, <4>2
          <5> QED BY <5>1 DEF InSequence
        <4>3. CASE d = Len(delivered) + 1 BY <2>6, <3>2, <4>3
        <4> QED BY <4>1, <4>2, <4>3
      <3> QED BY <3>3 DEF InSequence, Between, Pieced, Fits
    <2>9. Assembling' BY <2>7 DEF Assembling
    <2> QED BY <1>2, <1>u, <2>8, <2>9
  <1>8. CASE RefuseStart \/ RefuseData \/ RefuseEnd \/ FeedAbort
    <2>1. ~active'.on /\ delivered' = delivered
      BY <1>8 DEF RefuseStart, RefuseData, RefuseEnd, FeedAbort, Drop, NoTransfer
    <2> QED BY <1>2, <1>u, <2>1 DEF Assembling, InSequence, Between, Pieced, Fits
  <1> QED BY <1>5, <1>6, <1>7, <1>8 DEF Receive

LEMMA NextWhole ==
    ASSUME Typed, Whole, [Next]_vars
    PROVE  Whole'
  <1>1. CASE UNCHANGED vars
    <2>1. UNCHANGED <<pc, n, i, queue, active, delivered>> BY <1>1 DEF vars, sender, receiver
    <2>2. Upto' BY <2>1 DEF Whole, Upto, Last
    <2>3. Ordered' BY <2>1 DEF Whole, Ordered, Owner, IsFrame, Encoded, Last
    <2>4. Assembling' BY <2>1 DEF Whole, Assembling, Ahead, Pieced, Owner, IsFrame, Fits
    <2>5. InSequence' BY <2>1 DEF Whole, InSequence, Between, Pieced, Fits
    <2> QED BY <2>2, <2>3, <2>4, <2>5 DEF Whole
  <1> QED BY <1>1, SendWhole, ReceiveWhole DEF Next

\* Whatever is lost, stalls or breaks off, and whatever is copied: what reaches the clipboard
\* begins with one payload, ends with one of the same length, has all its frames' worth, and
\* every piece of it comes from a payload between the two, from where its sequence number says.
THEOREM Framed == Spec => []InSequence
  <1>1. Typed /\ Whole /\ [Next]_vars => Typed' /\ Whole' BY NextTyped, NextWhole
  <1>2. Whole => InSequence BY DEF Whole
  <1> QED BY <1>1, <1>2, InitTyped, InitWhole, PTL DEF Spec

\* The payloads not too long to be received can be told apart by their lengths.
Distinct == \A j, k \in DOMAIN Lengths : Fits(j) /\ Lengths[j] = Lengths[k] => j = k
\* No payload that is received is longer than the range of the sequence numbers, so that a
\* number is that of one frame: 65536 of 1018 bytes, 384 KiB less than MAX_TRANSFER.
InRange == \A k \in DOMAIN Lengths : Fits(k) => Lengths[k] <= SeqMod

LEMMA SameResidue ==
    ASSUME NEW m \in Nat \ {0}, NEW a \in 1..m, NEW b \in 1..m, a % m = b % m
    PROVE  a = b
  <1>1. ASSUME NEW x \in 1..m PROVE x % m = IF x = m THEN 0 ELSE x
    <2>1. CASE x = m
      <3>1. x = (m * 1) + 0 /\ 0 \in 0..(m - 1) BY <2>1
      <3> QED BY <2>1, <3>1, RemainderIs
    <2>2. CASE x # m
      <3>1. x = (m * 0) + x /\ x \in 0..(m - 1) BY <2>2
      <3> QED BY <2>2, <3>1, RemainderIs
    <2> QED BY <2>1, <2>2
  <1>2. a % m = (IF a = m THEN 0 ELSE a) /\ b % m = (IF b = m THEN 0 ELSE b) BY <1>1
  <1> QED BY <1>2

\* Payloads of different lengths: what reaches the clipboard is of one payload alone.
LEMMA OfOne ==
    ASSUME Distinct, InSequence, NEW d \in DOMAIN delivered
    PROVE  \E k \in DOMAIN Lengths : Fits(k) /\ Len(delivered[d]) = Lengths[k] /\ Pieced(delivered[d], k, k)
  <1>1. PICK lo, hi \in DOMAIN Lengths : Between(delivered[d], lo, hi) BY DEF InSequence
  <1>2. lo = hi BY <1>1 DEF Between, Distinct
  <1> QED BY <1>1, <1>2 DEF Between

\* Where payloads differ in length and the sequence numbers are enough for each, every content
\* that reaches the clipboard is one of them, whole: frames lost, sends that stall, retries
\* and broken connections included.
THEOREM NoMixture == Distinct /\ InRange => (Spec => []Integrity)
  <1> SUFFICES ASSUME Distinct, InRange PROVE Spec => []Integrity
    OBVIOUS
  <1>1. Typed /\ InSequence => Integrity
    <2> SUFFICES ASSUME Typed, InSequence, NEW d \in DOMAIN delivered
                 PROVE  \E k \in DOMAIN Lengths : delivered[d] = Payload(k)
      BY DEF Integrity
    <2>1. PICK k \in DOMAIN Lengths : Fits(k) /\ Len(delivered[d]) = Lengths[k] /\ Pieced(delivered[d], k, k)
      BY OfOne
    <2>2. PICK s : s = delivered[d] OBVIOUS
    <2>3. s \in Seq(Pieces) /\ Len(s) = Lengths[k] /\ Pieced(s, k, k)
      BY <2>1, <2>2 DEF Typed, TypeOK
    <2>4. /\ Lengths[k] \in Nat /\ SeqMod \in Nat \ {0} /\ Lengths[k] <= SeqMod /\ k \in Nat
          /\ DOMAIN s = 1..Lengths[k]
      BY <2>1, <2>3, TransferAssumption DEF InRange
    <2>5. ASSUME NEW x \in 1..Lengths[k] PROVE s[x] = <<k, x>>
      <3>1. s[x] \in Pieces BY <2>3, <2>4
      <3>2. s[x][1] = k /\ s[x][2] \in 1..Lengths[k] /\ s[x][2] % SeqMod = x % SeqMod
        <4>1. x \in 1..Len(s) BY <2>3
        <4>2. s[x][1] \in k..k /\ s[x][2] \in 1..Lengths[s[x][1]] /\ s[x][2] % SeqMod = x % SeqMod
          BY <2>3, <4>1 DEF Pieced
        <4> QED BY <2>4, <4>2
      <3>3. s[x][2] = x
        <4>1. s[x][2] \in 1..SeqMod /\ x \in 1..SeqMod BY <2>4, <3>2
        <4> QED BY <2>4, <3>2, <4>1, SameResidue
      <3>4. s[x] = <<s[x][1], s[x][2]>> BY <3>1 DEF Pieces
      <3> QED BY <3>2, <3>3, <3>4
    <2>6. s = Payload(k)
      <3>1. s = [x \in 1..Lengths[k] |-> s[x]] BY <2>3, <2>4
      <3> QED BY <2>5, <3>1 DEF Payload
    <2> QED BY <2>2, <2>6
  <1> QED BY <1>1, TypedAlways, Framed, PTL
-----------------------------------------------------------------------------
(* Order.  The END of a payload is put once, and last: a send that stalls does so before it.   *)
(* So whatever has arrived came before all that is under way.                                  *)

Ended == \A x \in 1..Len(queue) : queue[x].t = "end" =>
            /\ Owner(queue[x]) < n
            /\ \A y \in 1..Len(queue) : x < y /\ IsFrame(queue[y]) => Owner(queue[x]) < Owner(queue[y])
Gone(k) == k < n /\ \A x \in 1..Len(queue) : IsFrame(queue[x]) => k < Owner(queue[x])
Passed == \A d \in DOMAIN delivered : \A k \in DOMAIN Lengths : Fits(k) /\ Len(delivered[d]) = Lengths[k] =>
             /\ Gone(k)
             /\ active.on => \A lo \in DOMAIN Lengths : Fits(lo) /\ active.total = Lengths[lo] => k < lo

\* Whatever the head loses and whatever of the payload being sent is put at the end
LEMMA EndKept ==
    ASSUME Ended, n \in Nat, n' \in Nat, n <= n', Len(queue) \in Nat, Len(queue') \in Nat, NEW h \in Nat,
           \A x \in 1..Len(queue) : IsFrame(queue[x]) => Owner(queue[x]) \in Nat,
           \A x \in 1..Len(queue') :
              \/ x + h \in 1..Len(queue) /\ queue'[x] = queue[x + h]
              \/ /\ x = Len(queue')
                 /\ IsFrame(queue'[x]) => Owner(queue'[x]) = n
                 /\ queue'[x].t = "end" => n < n'
    PROVE  Ended' /\ \A k \in Nat : Gone(k) => Gone(k)'
  <1> DEFINE New(x) == /\ x = Len(queue')
                       /\ IsFrame(queue'[x]) => Owner(queue'[x]) = n
                       /\ queue'[x].t = "end" => n < n'
             Old(x) == x + h \in 1..Len(queue) /\ queue'[x] = queue[x + h]
  <1>1. \A x \in 1..Len(queue') : Old(x) \/ New(x) OBVIOUS
  <1>2. \A f : f.t = "end" => IsFrame(f) BY DEF IsFrame
  <1>3. ASSUME NEW x \in 1..Len(queue'), queue'[x].t = "end"
        PROVE  /\ Owner(queue'[x]) < n'
               /\ \A y \in 1..Len(queue') : x < y /\ IsFrame(queue'[y]) => Owner(queue'[x]) < Owner(queue'[y])
    <2>1. CASE Old(x)
      <3>1. /\ x + h \in 1..Len(queue) /\ queue'[x] = queue[x + h] /\ Owner(queue[x + h]) < n
            /\ Owner(queue[x + h]) \in Nat
        BY <1>2, <1>3, <2>1 DEF Ended
      <3>2. ASSUME NEW y \in 1..Len(queue'), x < y, IsFrame(queue'[y]) PROVE Owner(queue'[x]) < Owner(queue'[y])
        <4>1. CASE Old(y)
          <5>1. y + h \in 1..Len(queue) /\ queue'[y] = queue[y + h] /\ x + h < y + h BY <3>2, <4>1
          <5>2. PICK a, b : a = x + h /\ b = y + h OBVIOUS
          <5>3. /\ a \in 1..Len(queue) /\ b \in 1..Len(queue) /\ a < b
                /\ queue'[x] = queue[a] /\ queue'[y] = queue[b]
            BY <3>1, <5>1, <5>2
          <5>4. queue[a].t = "end" /\ IsFrame(queue[b]) BY <1>3, <3>2, <5>3
          <5>5. Owner(queue[a]) < Owner(queue[b]) BY <5>3, <5>4 DEF Ended
          <5> QED BY <5>3, <5>5 DEF Owner
        <4>2. CASE New(y)
          <5>1. Owner(queue'[y]) = n BY <3>2, <4>2
          <5> QED BY <3>1, <5>1
        <4> QED BY <1>1, <4>1, <4>2
      <3> QED BY <3>1, <3>2
    <2>2. CASE New(x)
      BY <1>2, <1>3, <2>2
    <2> QED BY <1>1, <2>1, <2>2
  <1>4. ASSUME NEW k \in Nat, Gone(k) PROVE Gone(k)'
    <2>1. k < n' BY <1>4 DEF Gone
    <2>2. ASSUME NEW x \in 1..Len(queue'), IsFrame(queue'[x]) PROVE k < Owner(queue'[x])
      <3>1. CASE Old(x) BY <1>4, <2>2, <3>1 DEF Gone
      <3>2. CASE New(x) BY <1>4, <2>2, <3>2 DEF Gone
      <3> QED BY <1>1, <3>1, <3>2
    <2> QED BY <2>1, <2>2 DEF Gone, IsFrame, Owner
  <1>5. Ended' BY <1>3 DEF Ended, IsFrame, Owner
  <1> QED BY <1>4, <1>5

LEMMA OwnersIn == ASSUME Ordered PROVE \A x \in 1..Len(queue) : IsFrame(queue[x]) => Owner(queue[x]) \in Nat
  <1> SUFFICES ASSUME NEW x \in 1..Len(queue), IsFrame(queue[x]) PROVE Owner(queue[x]) \in Nat OBVIOUS
  <1>1. PICK k \in DOMAIN Lengths : \E j \in 0..Last(k) : queue[x] = Encoded(k, j) BY DEF Ordered
  <1>2. Owner(queue[x]) = k BY <1>1, EncodedOwner
  <1> QED BY <1>2, TransferAssumption

LEMMA SendPassed ==
    ASSUME Typed, Whole, Ended, Passed, Send \/ AckArrives
    PROVE  Ended' /\ Passed'
  <1>0. n \in Nat /\ n' \in Nat /\ n <= n' /\ UNCHANGED <<active, delivered>>
    <2>1. n \in Nat /\ (n' = n \/ n' = n + 1)
      BY TransferAssumption DEF Typed, TypeOK, Send, Start, SendFrame, Stall, Retry, Break, Done, AckArrives, sender
    <2>2. UNCHANGED <<active, delivered>>
      BY DEF Send, Start, SendFrame, Stall, Retry, Break, AckArrives, receiver
    <2> QED BY <2>1, <2>2
  <1>1. \A x \in 1..Len(queue) : IsFrame(queue[x]) => Owner(queue[x]) \in Nat BY OwnersIn DEF Whole
  <1>2. ASSUME NEW f \in Frames, Put(f), IsFrame(f) => Owner(f) = n, f.t = "end" => n < n'
        PROVE  Ended' /\ \A k \in Nat : Gone(k) => Gone(k)'
    <2>1. /\ Len(queue) \in Nat /\ Len(queue') \in Nat
          /\ \E h \in Nat : \A x \in 1..Len(queue') : \/ x + h \in 1..Len(queue) /\ queue'[x] = queue[x + h]
                                                      \/ x = Len(queue') /\ queue'[x] = f
      BY <1>2, PutShape
    <2>2. PICK h \in Nat : \A x \in 1..Len(queue') : \/ x + h \in 1..Len(queue) /\ queue'[x] = queue[x + h]
                                                     \/ x = Len(queue') /\ queue'[x] = f
      BY <2>1
    <2>3. \A x \in 1..Len(queue') : \/ x + h \in 1..Len(queue) /\ queue'[x] = queue[x + h]
                                    \/ /\ x = Len(queue')
                                       /\ IsFrame(queue'[x]) => Owner(queue'[x]) = n
                                       /\ queue'[x].t = "end" => n < n'
      BY <1>2, <2>2
    <2> QED BY <1>0, <1>1, <2>1, <2>3, EndKept
  <1>3. Ended' /\ \A k \in Nat : Gone(k) => Gone(k)'
    <2>1. CASE SendFrame
      <3>1. n \in DOMAIN Lengths /\ i \in Nat
        BY <2>1, TransferAssumption DEF SendFrame, Typed, TypeOK, Sending
      <3>2. PICK f \in Frames : f = Encoded(n, i) /\ Put(f) BY <2>1, <3>1, EncodedType DEF SendFrame
      <3>3. IsFrame(f) /\ Owner(f) = n BY <3>2, EncodedOwner
      <3>4. f.t = "end" => n < n'
        <4>1. f.t = "end" => i = Last(n) BY <3>2 DEF Encoded
        <4> QED BY <1>0, <2>1, <4>1 DEF SendFrame, Done
      <3> QED BY <1>2, <3>2, <3>3, <3>4
    <2>2. CASE Stall
      <3>1. Abort \in Frames /\ ~IsFrame(Abort) /\ Abort.t # "end" BY DEF Frames, Abort, IsFrame
      <3> QED BY <1>2, <2>2, <3>1 DEF Stall
    <2>3. CASE Start \/ Retry \/ Break \/ AckArrives
      <3>1. queue' = queue BY <2>3 DEF Start, Retry, Break, AckArrives
      <3>2. Len(queue) \in Nat BY DEF Typed, TypeOK
      <3>3. \A x \in 1..Len(queue') : x + 0 \in 1..Len(queue) /\ queue'[x] = queue[x + 0] BY <3>1, <3>2
      <3> QED BY <1>0, <1>1, <3>1, <3>2, <3>3, EndKept
    <2> QED BY <2>1, <2>2, <2>3 DEF Send
  <1>4. \A k \in DOMAIN Lengths : k \in Nat BY TransferAssumption
  <1>5. Passed' BY <1>0, <1>3, <1>4 DEF Passed, Fits
  <1> QED BY <1>3, <1>5

LEMMA ReceivePassed ==
    ASSUME Distinct, Typed, Whole, Ended, Passed, Receive
    PROVE  Ended' /\ Passed'
  <1>0. /\ queue # << >> /\ queue' = Tail(queue) /\ n' = n /\ n \in Nat /\ queue \in Seq(Frames)
        /\ active \in [total : Nat, seq : 0..(SeqMod - 1), data : Seq(Pieces), on : BOOLEAN]
        /\ delivered \in Seq(Seq(Pieces))
    <2>1. queue # << >> /\ queue' = Tail(queue) /\ UNCHANGED sender
      BY DEF Receive, FeedStart, RefuseStart, FeedData, RefuseData, FeedEnd, RefuseEnd, FeedAbort, Feed
    <2> QED BY <2>1, TransferAssumption DEF Typed, TypeOK, sender
  <1>1. /\ Len(queue') = Len(queue) - 1 /\ Len(queue) \in Nat \ {0} /\ Len(queue') \in Nat /\ Frame = queue[1]
        /\ \A x \in 1..Len(queue') : queue'[x] = queue[x + 1]
    BY <1>0, TailSeq DEF Frame
  <1>2. Ended' /\ \A k \in Nat : Gone(k) => Gone(k)'
    <2>1. \A x \in 1..Len(queue) : IsFrame(queue[x]) => Owner(queue[x]) \in Nat BY OwnersIn DEF Whole
    <2>2. \A x \in 1..Len(queue') : x + 1 \in 1..Len(queue) /\ queue'[x] = queue[x + 1] BY <1>1
    <2>3. n <= n' BY <1>0
    <2> QED BY <1>0, <1>1, <2>1, <2>2, <2>3, EndKept
  <1>3. \A b \in DOMAIN Lengths : b \in Nat /\ Lengths[b] \in Nat BY TransferAssumption
  <1>4. ASSUME IsFrame(Frame)
        PROVE  \E o \in DOMAIN Lengths : Frame.total = Lengths[o] /\ Owner(Frame) = o
    <2>1. IsFrame(queue[1]) /\ 1 \in 1..Len(queue) BY <1>1, <1>4
    <2>2. PICK o \in DOMAIN Lengths : \E j \in 0..Last(o) : queue[1] = Encoded(o, j)
      BY <2>1 DEF Whole, Ordered
    <2> QED BY <1>1, <2>2, EncodedOwner DEF Encoded
  <1> HIDE DEF Frame
  <1>5. CASE FeedStart
    <2>1. Frame.t = "start" /\ IsFrame(Frame) /\ Frame.total <= MaxTotal
      BY <1>5 DEF FeedStart, Feed, IsFrame
    <2>2. PICK o \in DOMAIN Lengths : Frame.total = Lengths[o] /\ Owner(Frame) = o BY <1>4, <2>1
    <2>3. active'.total = Lengths[o] /\ delivered' = delivered BY <1>5, <2>2 DEF FeedStart
    <2>4. 1 \in 1..Len(queue) /\ IsFrame(queue[1]) BY <1>1, <2>1
    <2>5. \A k : Gone(k) => k < o BY <1>1, <2>2, <2>4 DEF Gone
    <2>6. \A lo \in DOMAIN Lengths : Fits(lo) /\ Lengths[o] = Lengths[lo] => lo = o BY DEF Distinct
    <2> QED BY <1>2, <1>3, <2>3, <2>5, <2>6 DEF Passed, Fits
  <1>6. CASE FeedData
    <2>1. active.on /\ active'.total = active.total /\ delivered' = delivered
      BY <1>0, <1>6 DEF FeedData, Accepts
    <2> QED BY <1>2, <1>3, <2>1 DEF Passed, Fits
  <1>7. CASE FeedEnd
    <2>1. Frame.t = "end" /\ IsFrame(Frame) /\ active.on /\ Frame.total = active.total
          /\ Len(active.data) = active.total /\ ~active'.on
      BY <1>7 DEF FeedEnd, Feed, Completes, IsFrame, NoTransfer
    <2>2. PICK o \in DOMAIN Lengths : Frame.total = Lengths[o] /\ Owner(Frame) = o BY <1>4, <2>1
    <2>3. \A k \in DOMAIN Lengths : Fits(k) /\ Len(active.data) = Lengths[k] => k = o
      BY <2>1, <2>2 DEF Distinct
    <2>4. Gone(o)'
      <3>1. 1 \in 1..Len(queue) /\ queue[1].t = "end" /\ Owner(queue[1]) = o BY <1>1, <2>1, <2>2
      <3>2. o < n' BY <1>0, <3>1 DEF Ended
      <3>3. ASSUME NEW x \in 1..Len(queue'), IsFrame(queue'[x]) PROVE o < Owner(queue'[x])
        <4>1. x + 1 \in 1..Len(queue) /\ queue'[x] = queue[x + 1] /\ 1 < x + 1 BY <1>1
        <4> QED BY <3>1, <3>3, <4>1 DEF Ended
      <3> QED BY <3>2, <3>3 DEF Gone, IsFrame, Owner
    <2>5. /\ delivered' \in Seq(Seq(Pieces)) /\ Len(delivered') = Len(delivered) + 1 /\ Len(delivered) \in Nat
          /\ delivered'[Len(delivered) + 1] = active.data
          /\ \A x \in 1..Len(delivered) : delivered'[x] = delivered[x]
      <3>1. delivered' = Append(delivered, active.data) BY <1>7 DEF FeedEnd
      <3>2. active.data \in Seq(Pieces) BY <1>0
      <3> QED BY <1>0, <3>1, <3>2, AppendSeq
    <2>6. ASSUME NEW d \in DOMAIN delivered', NEW k \in DOMAIN Lengths, Fits(k), Len(delivered'[d]) = Lengths[k]
          PROVE  Gone(k)'
      <3>1. d \in 1..Len(delivered) \/ d = Len(delivered) + 1 BY <2>5
      <3>2. CASE d \in 1..Len(delivered)
        <4>1. d \in DOMAIN delivered /\ delivered'[d] = delivered[d] BY <1>0, <2>5, <3>2
        <4> QED BY <1>2, <1>3, <2>6, <4>1 DEF Passed
      <3>3. CASE d = Len(delivered) + 1
        <4>1. k = o BY <2>3, <2>5, <2>6, <3>3
        <4> QED BY <2>4, <4>1
      <3> QED BY <3>1, <3>2, <3>3
    <2> QED BY <1>2, <2>1, <2>6 DEF Passed, Fits
  <1>8. CASE RefuseStart \/ RefuseData \/ RefuseEnd \/ FeedAbort
    <2>1. ~active'.on /\ delivered' = delivered
      BY <1>8 DEF RefuseStart, RefuseData, RefuseEnd, FeedAbort, Drop, NoTransfer
    <2> QED BY <1>2, <1>3, <2>1 DEF Passed, Fits
  <1> QED BY <1>5, <1>6, <1>7, <1>8 DEF Receive

LEMMA NextPassed ==
    ASSUME Distinct, Typed, Whole, Ended, Passed, [Next]_vars
    PROVE  Ended' /\ Passed'
  <1>1. CASE UNCHANGED vars
    <2>1. UNCHANGED <<n, queue, active, delivered>> BY <1>1 DEF vars, sender, receiver
    <2> QED BY <2>1 DEF Ended, Passed, Gone, Owner, IsFrame, Fits
  <1> QED BY <1>1, SendPassed, ReceivePassed DEF Next

\* A payload arrives: one taken up, and later than all that have arrived.
LEMMA ArrivesNext ==
    ASSUME Distinct, Typed, Whole, Ended, Passed, Integrity', FeedEnd
    PROVE  Mail!MailNext
  <1>0. /\ active \in [total : Nat, seq : 0..(SeqMod - 1), data : Seq(Pieces), on : BOOLEAN]
        /\ delivered \in Seq(Seq(Pieces)) /\ n \in Nat /\ queue \in Seq(Frames)
    BY TransferAssumption DEF Typed, TypeOK
  <1>1. Frame.t = "end" /\ IsFrame(Frame) /\ active.on /\ Frame.total = active.total
        /\ Len(active.data) = active.total /\ queue # << >> /\ UNCHANGED sender
        /\ delivered' = Append(delivered, active.data)
    BY DEF FeedEnd, Feed, Completes, IsFrame
  <1>2. 1 \in 1..Len(queue) /\ Frame = queue[1] BY <1>0, <1>1, TailSeq DEF Frame
  <1>3. PICK o \in DOMAIN Lengths : Frame.total = Lengths[o] /\ Owner(Frame) = o
    <2>1. PICK o \in DOMAIN Lengths : \E j \in 0..Last(o) : queue[1] = Encoded(o, j)
      BY <1>1, <1>2 DEF Whole, Ordered
    <2> QED BY <1>2, <2>1, EncodedOwner DEF Encoded
  <1>4. Fits(o)
    <2>1. PICK lo \in DOMAIN Lengths : Fits(lo) /\ active.total = Lengths[lo] BY <1>1 DEF Whole, Assembling
    <2> QED BY <1>1, <1>3, <2>1 DEF Fits
  <1>5. o < n BY <1>1, <1>2, <1>3 DEF Ended
  <1>6. active.data = Payload(o)
    <2>1. Len(delivered) + 1 \in DOMAIN delivered' /\ delivered'[Len(delivered) + 1] = active.data
      <3>1. active.data \in Seq(Pieces) BY <1>0
      <3>2. /\ delivered' \in Seq(Seq(Pieces)) /\ Len(delivered') = Len(delivered) + 1 /\ Len(delivered) \in Nat
            /\ delivered'[Len(delivered) + 1] = active.data
        BY <1>0, <1>1, <3>1, AppendSeq
      <3> QED BY <3>2
    <2>2. PICK k \in DOMAIN Lengths : active.data = Payload(k) BY <2>1 DEF Integrity, Payload
    <2>3. Len(Payload(k)) = Lengths[k] BY TransferAssumption DEF Payload
    <2>4. k = o BY <1>1, <1>3, <1>4, <2>2, <2>3 DEF Distinct
    <2> QED BY <2>2, <2>4
  <1>7. o \in {k \in DOMAIN Lengths : Fits(k)} BY <1>4
  <1>8. o <= Taken /\ UNCHANGED Taken
    <2>1. o \in Nat BY TransferAssumption
    <2> QED BY <1>0, <1>1, <1>5, <2>1 DEF Taken, sender
  <1>9. ASSUME NEW d \in DOMAIN delivered, NEW j \in DOMAIN Lengths, Fits(j), delivered[d] = Payload(j)
        PROVE  j < o
    <2>1. Len(Payload(j)) = Lengths[j] BY TransferAssumption DEF Payload
    <2> QED BY <1>1, <1>3, <1>4, <1>9, <2>1 DEF Passed
  <1>10. Mail!Before(o) BY <1>9 DEF Mail!Before
  <1>11. delivered' = Append(delivered, [k \in DOMAIN Lengths |-> Payload(k)][o]) BY <1>1, <1>6
  <1>12. Mail!Arrive(o) BY <1>8, <1>10, <1>11 DEF Mail!Arrive
  <1> QED BY <1>7, <1>12 DEF Mail!MailNext

LEMMA MailStep ==
    ASSUME Distinct, Typed, Whole, Ended, Passed, Integrity', [Next]_vars
    PROVE  [Mail!MailNext]_(Mail!mailVars)
  <1> SUFFICES Mail!MailNext \/ (Taken' = Taken /\ delivered' = delivered) BY DEF Mail!mailVars
  <1>0. n \in Nat BY TransferAssumption DEF Typed, TypeOK
  <1>1. CASE Start
    <2>1. Taken' = n /\ Taken = n - 1 /\ delivered' = delivered BY <1>1 DEF Start, Taken, receiver
    <2>2. n <= Len(Lengths) /\ Len([k \in DOMAIN Lengths |-> Payload(k)]) = Len(Lengths)
      BY <1>1, TransferAssumption DEF Start
    <2>3. Mail!TakeUp BY <1>0, <2>1, <2>2, TransferAssumption DEF Mail!TakeUp
    <2> QED BY <2>3 DEF Mail!MailNext
  <1>2. CASE SendFrame \/ Stall \/ Retry \/ Break \/ AckArrives
    <2>1. delivered' = delivered BY <1>2 DEF SendFrame, Stall, Retry, Break, AckArrives, receiver
    <2>2. Taken' = Taken BY <1>0, <1>2 DEF SendFrame, Stall, Retry, Break, AckArrives, Done, Taken, sender
    <2> QED BY <2>1, <2>2
  <1>3. CASE FeedEnd BY <1>3, ArrivesNext
  <1>4. CASE FeedStart \/ RefuseStart \/ FeedData \/ RefuseData \/ RefuseEnd \/ FeedAbort
    <2>1. delivered' = delivered /\ UNCHANGED sender
      BY <1>4 DEF FeedStart, RefuseStart, FeedData, RefuseData, RefuseEnd, FeedAbort, Feed, Drop
    <2> QED BY <2>1 DEF Taken, sender
  <1>5. CASE UNCHANGED vars BY <1>5 DEF vars, sender, receiver, Taken
  <1> QED BY <1>1, <1>2, <1>3, <1>4, <1>5 DEF Next, Send, Receive

\* Under the same conditions a direction of the channel is a mailbox: what arrives is what was
\* copied, at most once although a payload may be sent twice, and never after a later one, so
\* that no stale content ever replaces a newer one.
THEOREM ImplementsMailbox == Distinct /\ InRange => (Spec => ArrivesInOrder)
  <1> SUFFICES ASSUME Distinct, InRange PROVE Spec => ArrivesInOrder
    OBVIOUS
  <1>1. Init => Mail!MailInit
    BY DEF Init, Mail!MailInit, Taken
  <1>2. Init => Ended /\ Passed
    <2> SUFFICES ASSUME Init PROVE Ended /\ Passed OBVIOUS
    <2>1. Len(queue) = 0 /\ DOMAIN delivered = {} BY DEF Init
    <2> QED BY <2>1 DEF Ended, Passed
  <1>3. Typed /\ Whole /\ Ended /\ Passed /\ [Next]_vars => Typed' /\ Whole' /\ Ended' /\ Passed'
    BY NextTyped, NextWhole, NextPassed
  <1>4. Typed /\ Whole /\ Ended /\ Passed /\ Integrity' /\ [Next]_vars => [Mail!MailNext]_(Mail!mailVars)
    BY MailStep
  <1>5. Spec => []Integrity BY NoMixture
  <1> QED BY <1>1, <1>2, <1>3, <1>4, <1>5, InitTyped, InitWhole, PTL DEF Spec, ArrivesInOrder, Mail!MailSpec
===========================================================================
