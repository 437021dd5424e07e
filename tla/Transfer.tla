----------------------------- MODULE Transfer -----------------------------
(***************************************************************************)
(* One direction of the clipboard channel: the windowed sender             *)
(* (clipboard.rs send_with_retry, send_transfer; the same algorithm is the *)
(* Windows helper's send_frames), the input queue in front of the receiver,*)
(* which drops its oldest report when it is full, and the receiver's       *)
(* Reassembler (clipframe) with its ACKs.                                  *)
(*                                                                         *)
(* A payload is its number of DATA frames: lengths are counted in them.    *)
(***************************************************************************)
EXTENDS Integers, Sequences, FiniteSets

CONSTANTS Lengths,    \* the payloads copied, one after the other: their lengths
          AckEvery,   \* ACK_EVERY
          Window,     \* ACK_WINDOW
          Queue,      \* capacity of the receiver's input queue
          SeqMod,     \* the sequence number's range (2^16 in the code)
          MaxTotal,   \* MAX_TRANSFER, in DATA frames
          Breaks      \* the connection may break while sending

ASSUME TransferAssumption ==
    /\ Lengths \in Seq(Nat) /\ AckEvery \in Nat \ {0} /\ Window \in Nat \ {0}
    /\ Queue \in Nat \ {0} /\ SeqMod \in Nat \ {0} /\ MaxTotal \in Nat
    /\ Breaks \in BOOLEAN

VARIABLES pc,         \* the sender: idle, send, backoff
          n,          \* the payload being sent, or the next one
          attempt,    \* 0, 1
          i,          \* the next frame of it
          acked,      \* the latest ACK count its reader thread has stored
          queue,      \* frames waiting for the receiver
          active,     \* the Reassembler's transfer in progress, or none
          dataFrames, \* data_frames
          acks,       \* ACKs on their way back
          delivered,  \* ghost: what the receiver put on its clipboard
          lost,       \* ghost: the queue has dropped a frame
          disturbed   \* ghost: a send has stalled or broken off, or begun on top of another
sender == <<pc, n, attempt, i>>
receiver == <<active, dataFrames, delivered>>
vars == <<sender, acked, queue, receiver, acks, lost, disturbed>>

NoTransfer == [total |-> 0, seq |-> 0, data |-> << >>, on |-> FALSE]

Init == /\ pc = "idle" /\ n = 1 /\ attempt = 0 /\ i = 0 /\ acked = 0
        /\ queue = << >> /\ active = NoTransfer /\ dataFrames = 0
        /\ acks = << >> /\ delivered = << >> /\ lost = FALSE /\ disturbed = FALSE
-----------------------------------------------------------------------------
(* Encoding: START, the DATA frames, END, numbered from 0. *)

Payload(k) == [j \in 1..Lengths[k] |-> <<k, j>>]
Last(k) == Lengths[k] + 1

\* Mutant: the sequence number does not wrap
EncodedWide(k, j) == [t |-> IF j = 0 THEN "start" ELSE IF j = Last(k) THEN "end" ELSE "data",
                      seq |-> j, total |-> Lengths[k], part |-> <<k, j>>]
Encoded(k, j) == [t |-> IF j = 0 THEN "start" ELSE IF j = Last(k) THEN "end" ELSE "data",
                  seq |-> j % SeqMod, total |-> Lengths[k], part |-> <<k, j>>]
Abort == [t |-> "abort"]

\* The queue holds what the window lets through; beyond its capacity the oldest is dropped.
Put(f) == LET q == Append(queue, f)
          IN /\ queue' = IF Len(q) > Queue THEN Tail(q) ELSE q
             /\ lost' = (lost \/ Len(q) > Queue)
-----------------------------------------------------------------------------
(* The sender. *)

IsData == i > 0 /\ i < Last(n)
Unacked == IF i - 1 > acked THEN i - 1 - acked ELSE 0     \* saturating_sub

\* Mutant: one frame too many
WindowOffByOne == IsData /\ Unacked > Window
WindowFull == IsData /\ Unacked >= Window

\* A local copy is taken up, whatever is still in flight of the one before.
Start == /\ pc = "idle" /\ n <= Len(Lengths)
         /\ pc' = "send" /\ attempt' = 0 /\ i' = 0 /\ acked' = 0
         /\ disturbed' = (disturbed \/ queue # << >> \/ acks # << >>)
         /\ UNCHANGED <<n, queue, receiver, acks, lost>>

Done == pc' = "idle" /\ n' = n + 1 /\ UNCHANGED <<attempt, i>>

SendFrame == /\ pc = "send" /\ ~WindowFull
             /\ Put(Encoded(n, i))
             /\ IF i = Last(n) THEN Done ELSE i' = i + 1 /\ UNCHANGED <<pc, n, attempt>>
             /\ UNCHANGED <<acked, receiver, acks, disturbed>>

\* Mutant: the retry has no last attempt
StallRetries == /\ pc = "send" /\ WindowFull /\ Put(Abort) /\ disturbed' = TRUE
                /\ pc' = "backoff" /\ UNCHANGED <<n, attempt, i, acked, receiver, acks>>
\* Five seconds with the window full: ABORT; one retry, then the payload is given up.
Stall == /\ pc = "send" /\ WindowFull
         /\ Put(Abort) /\ disturbed' = TRUE
         /\ IF attempt = 0 THEN pc' = "backoff" /\ UNCHANGED <<n, attempt, i>> ELSE Done
         /\ UNCHANGED <<acked, receiver, acks>>

\* Two seconds later everything is sent again.
Retry == /\ pc = "backoff"
         /\ pc' = "send" /\ attempt' = 1 /\ i' = 0 /\ acked' = 0
         /\ UNCHANGED <<n, queue, receiver, acks, lost, disturbed>>

\* A write fails: no ABORT.  The next connection counts its ACKs afresh; the device that
\* Windows reopens does not.
Break == /\ Breaks /\ pc = "send" /\ Done /\ disturbed' = TRUE
         /\ acks' \in {acks, << >>}
         /\ UNCHANGED <<acked, queue, receiver, lost>>

\* The reader thread stores the count, whichever transfer it counts for.
AckArrives == /\ acks # << >>
              /\ acked' = Head(acks) /\ acks' = Tail(acks)
              /\ UNCHANGED <<sender, queue, receiver, lost, disturbed>>
-----------------------------------------------------------------------------
(* The receiver: feed, one frame at a time. *)

Frame == Head(queue)
Feed(kind) == /\ queue # << >> /\ Frame.t = kind /\ queue' = Tail(queue)
              /\ UNCHANGED <<sender, acked, lost, disturbed>>
Follows == Frame.seq = (active.seq + 1) % SeqMod
Drop == active' = NoTransfer /\ UNCHANGED <<dataFrames, acks, delivered>>

\* A START replaces whatever was in progress; one too large only ends it.
FeedStart == /\ Feed("start") /\ Frame.total <= MaxTotal
             /\ active' = [total |-> Frame.total, seq |-> Frame.seq, data |-> << >>, on |-> TRUE]
             /\ dataFrames' = 0
             /\ UNCHANGED <<acks, delivered>>
RefuseStart == Feed("start") /\ Frame.total > MaxTotal /\ Drop

\* Mutants: the sequence number is not compared; the last frame counts as an overrun
AcceptsAny == active.on /\ Len(active.data) < active.total
AcceptsShort == active.on /\ Follows /\ Len(active.data) + 1 < active.total
\* The next frame of the transfer in progress, within its length
Accepts == active.on /\ Follows /\ Len(active.data) < active.total

FeedData == /\ Feed("data") /\ Accepts
            /\ active' = [active EXCEPT !.seq = Frame.seq, !.data = Append(@, Frame.part)]
            /\ dataFrames' = dataFrames + 1
            /\ acks' = IF dataFrames' % AckEvery = 0 THEN Append(acks, dataFrames') ELSE acks
            /\ UNCHANGED delivered

\* DATA without START, a sequence gap, an overrun
RefuseData == Feed("data") /\ ~Accepts /\ Drop

Completes == active.on /\ Follows /\ Frame.total = active.total /\ Len(active.data) = active.total
FeedEnd == /\ Feed("end") /\ Completes
           /\ delivered' = Append(delivered, active.data)
           /\ active' = NoTransfer /\ UNCHANGED <<dataFrames, acks>>
RefuseEnd == Feed("end") /\ ~Completes /\ Drop

FeedAbort == Feed("abort") /\ Drop
-----------------------------------------------------------------------------
Send == Start \/ SendFrame \/ Stall \/ Retry \/ Break
Receive == FeedStart \/ RefuseStart \/ FeedData \/ RefuseData \/ FeedEnd \/ RefuseEnd \/ FeedAbort
Next == Send \/ Receive \/ AckArrives
Spec == Init /\ [][Next]_vars

\* The sender's thread runs.
SendFair == WF_vars(Start) /\ WF_vars(SendFrame \/ Stall \/ Retry)
SenderSpec == Spec /\ SendFair
-----------------------------------------------------------------------------
(* Properties *)

Frames == [t : {"start", "data", "end"}, seq : 0..(SeqMod - 1), total : Nat,
           part : (DOMAIN Lengths) \X Nat] \cup {Abort}
Pieces == (DOMAIN Lengths) \X Nat

\* The type invariant of the two ends and of what is between them.
TypeOK == /\ pc \in {"idle", "send", "backoff"} /\ n \in 1..(Len(Lengths) + 1)
          /\ attempt \in {0, 1} /\ i \in Nat /\ acked \in Nat
          /\ queue \in Seq(Frames) /\ Len(queue) <= Queue
          /\ active \in [total : Nat, seq : 0..(SeqMod - 1), data : Seq(Pieces), on : BOOLEAN]
          /\ dataFrames \in Nat /\ acks \in Seq(Nat) /\ delivered \in Seq(Seq(Pieces))
          /\ lost \in BOOLEAN /\ disturbed \in BOOLEAN

\* What reaches the clipboard is a payload as it was copied, however many frames are lost
\* and however sends are broken off and repeated: none is mixed from two of them.  (Given
\* payloads of different lengths, none longer than the range of the sequence numbers: a
\* frame is told apart by its number and the two lengths, and by nothing else.)
Integrity == \A d \in DOMAIN delivered : \E k \in DOMAIN Lengths : delivered[d] = Payload(k)

\* "So a bursty transfer cannot overflow the Windows HID input queue" (clipboard.rs:314): as
\* long as no send stalls, breaks off or begins before the last has been read and its ACKs
\* have come, no frame is lost.
NothingLost == lost => disturbed

\* Until then every copy has arrived, in order and once, as soon as its frames are read;
\* but for those too large, which the receiver refuses (lib.rs:195).
Fits(k) == Lengths[k] <= MaxTotal
Rank(k) == Cardinality({j \in 1..k : Fits(j)})
Arrived(k) == /\ Len(delivered) = Rank(k)
              /\ \A j \in 1..k : Fits(j) => delivered[Rank(j)] = Payload(j)
AllArrive == ~disturbed /\ queue = << >> => Arrived(n - 1)

\* Whatever is lost or broken off, the channel is a mailbox: each payload arrives whole, at
\* most once, and none after a later one, though one that stalled is sent a second time.
Taken == IF pc = "idle" THEN n - 1 ELSE n
Mail == INSTANCE Mailbox WITH Mails <- [k \in DOMAIN Lengths |-> Payload(k)],
                              Accepted <- {k \in DOMAIN Lengths : Fits(k)},
                              taken <- Taken, got <- delivered
ArrivesInOrder == Mail!MailSpec

\* A send ends, sent or given up, whatever the receiver does.
SenderReturns == \A k \in DOMAIN Lengths : (n = k /\ pc # "idle") ~> n > k
===========================================================================
