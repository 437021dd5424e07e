-------------------------- MODULE ClipSyncProofs --------------------------
(***************************************************************************)
(* For all contents and any number of copies and crossings: the last copy  *)
(* wins; files move when they are asked for and only then, and none is     *)
(* taken for another; no request is forgotten.                             *)
(***************************************************************************)
EXTENDS ClipSync, TLAPS

-----------------------------------------------------------------------------
(* Types. *)

Maybe == Contents \cup {None}
Offers == [of : Maybe, requested : BOOLEAN]
RxEvents == Messages \cup [t : {"copied"}, of : Contents] \cup [t : Moving, of : {None}]

Held == /\ clip \in [Sides -> Maybe] /\ lastSent \in [Sides -> Maybe]
        /\ lastSet \in [Sides -> Maybe] /\ localOffer \in [Sides -> Maybe]
LinuxTyped == /\ prev \in Maybe /\ rx \in Seq(RxEvents) /\ remoteOffer \in Offers
              /\ link \in {"up", "broken", "down"}
WindowsTyped == /\ polled \in Maybe /\ pullRequest \in Maybe /\ sending \in Maybe
                /\ applyQueue \in Seq(Contents) /\ applied \in Maybe
WireTyped == toWindows \in Seq(Messages) /\ toLinux \in Seq(Messages)
UserTyped == asked \in [Files -> {"no", "copied", "yes"}]
Flags == fresh \in BOOLEAN /\ excused \in BOOLEAN
Data == Held /\ LinuxTyped /\ WindowsTyped /\ WireTyped /\ UserTyped
Typed == Data /\ Flags

LEMMA AppendSeq ==
    ASSUME NEW S, NEW s \in Seq(S), NEW e \in S
    PROVE  /\ Append(s, e) \in Seq(S) /\ Len(Append(s, e)) = Len(s) + 1
           /\ Append(s, e)[Len(s) + 1] = e /\ Len(s) \in Nat
           /\ \A x \in 1..Len(s) : Append(s, e)[x] = s[x]
  OBVIOUS

LEMMA TailSeq ==
    ASSUME NEW S, NEW s \in Seq(S), s # << >>
    PROVE  /\ Tail(s) \in Seq(S) /\ Len(Tail(s)) = Len(s) - 1 /\ Len(s) \in Nat \ {0}
           /\ Head(s) \in S /\ Head(s) = s[1]
           /\ \A x \in 1..Len(Tail(s)) : Tail(s)[x] = s[x + 1]
  OBVIOUS

LEMMA ConcatSeq ==
    ASSUME NEW S, NEW s \in Seq(S), NEW u \in Seq(S)
    PROVE  s \o u \in Seq(S)
  OBVIOUS

LEMMA OnType == \A s \in Sides : \A n \in Names : On(s, n) \in Contents /\ On(s, n).name = n
  BY DEF On, Contents

LEMMA MsgType ==
    /\ \A k \in {"data", "offer", "pull"} : \A c \in Contents : Msg(k, c) \in Messages /\ Msg(k, c) \in RxEvents
    /\ \A c \in Contents : Msg("copied", c) \in RxEvents
    /\ \A m \in Moving : Msg(m, None) \in RxEvents
    /\ Messages \subseteq RxEvents
  BY DEF Msg, Messages, RxEvents

LEMMA TypedOK == Typed => TypeOK
  <1> SUFFICES ASSUME Typed PROVE TypeOK OBVIOUS
  <1>1. \A f \in {clip, lastSent, lastSet, localOffer} : f \in [Sides -> Contents \cup {None}]
    BY DEF Typed, Data, Held, Maybe
  <1>2. {prev, polled, pullRequest, sending, applied, remoteOffer.of} \subseteq Contents \cup {None}
    BY DEF Typed, Data, LinuxTyped, WindowsTyped, Offers, Maybe
  <1>3. remoteOffer.requested \in BOOLEAN
    BY DEF Typed, Data, LinuxTyped, Offers
  <1>4. {fresh, remoteOffer.requested, excused} \subseteq BOOLEAN
    BY <1>3, Zenon DEF Typed, Flags
  <1> QED BY <1>1, <1>2, <1>4 DEF Typed, Data, LinuxTyped, WindowsTyped, WireTyped, RxEvents, TypeOK

LEMMA InitTyped == Init => Typed
  <1> SUFFICES ASSUME Init PROVE Typed OBVIOUS
  <1>1. Flags BY Zenon DEF Init, Flags
  <1>2. None \in Maybe BY DEF Maybe
  <1>3. Held /\ WindowsTyped /\ WireTyped /\ UserTyped
    BY <1>2 DEF Init, Held, WindowsTyped, WireTyped, UserTyped
  <1>4. LinuxTyped BY <1>2 DEF Init, LinuxTyped, NoOffer, Offers
  <1> QED BY <1>1, <1>3, <1>4 DEF Typed, Data

\* What is taken from the Linux agent's events is one of them.
LEMMA HandleData ==
    ASSUME Typed, NEW kind, Handle(kind)
    PROVE  /\ rx' \in Seq(RxEvents) /\ Head(rx) \in RxEvents /\ Head(rx).t = kind /\ rx # << >>
           /\ rx' = Tail(rx) /\ UNCHANGED <<prev, windows, toLinux, user>>
           /\ kind \in {"copied", "data", "offer"} => Event \in Contents /\ Event.name \in Names
  <1>1. /\ rx' \in Seq(RxEvents) /\ Head(rx) \in RxEvents /\ Head(rx).t = kind /\ rx # << >>
        /\ rx' = Tail(rx) /\ UNCHANGED <<prev, windows, toLinux, user>>
    BY TailSeq DEF Handle, Typed, Data, LinuxTyped
  <1>2. kind \in {"copied", "data", "offer"} => Event \in Contents
    BY <1>1 DEF RxEvents, Messages, Moving, Event
  <1> QED BY <1>1, <1>2 DEF Contents

LEMMA WriteTyped ==
    ASSUME Typed, NEW ms \in Seq(Messages), Write(ms)
    PROVE  toWindows' \in Seq(Messages) /\ link' = link
  <1>1. toWindows \o ms \in Seq(Messages) BY ConcatSeq DEF Typed, Data, WireTyped
  <1> QED BY <1>1 DEF Write, Typed, Data, WireTyped

-----------------------------------------------------------------------------
(* Flags. *)

Bit(old, new) == new = old \/ new = TRUE \/ new = FALSE
LEMMA BitType == ASSUME NEW old \in BOOLEAN, NEW new, Bit(old, new) PROVE new \in BOOLEAN
  BY Zenon DEF Bit

LEMMA MovesFlag ==
    ASSUME Flags, NEW s, NEW c, Calm \/ Moves(s, c) \/ \E f : Fault(f)
    PROVE  excused' \in BOOLEAN
  <1>1. CASE Calm BY <1>1 DEF Calm, Flags
  <1>2. CASE Moves(s, c) BY <1>2, Zenon DEF Moves, Flags
  <1>3. CASE \E f : Fault(f) BY <1>3 DEF Fault
  <1> QED BY <1>1, <1>2, <1>3

LEMMA FlagsNext == ASSUME Flags, Next PROVE Flags'
  <1>1. excused' \in BOOLEAN
    <2>1. CASE \E s \in Sides, n \in Names : Copy(s, n)
      <3>1. PICK s \in Sides, n \in Names : excused' = (~Idle \/ Unnoticed(s, On(s, n))) BY <2>1 DEF Copy
      <3> QED BY <3>1, Zenon
    <2>2. CASE Main
      <3>1. Calm \/ (\E s, c : Moves(s, c)) \/ (\E f : Fault(f))
        BY <2>2 DEF Main, Skip, OfferFiles, SendText, LocalFails, LocalGone, DataArrives, DataFails, OfferArrives,
           SessionEnds, Reconnect, Crossed, CrossedFails, GivenUp
      <3> QED BY <3>1, MovesFlag
    <2>3. CASE Loop
      <3>1. Calm \/ (\E s, c : Moves(s, c)) \/ (\E f : Fault(f))
        BY <2>3 DEF Loop, TakePull, Poll, SendLoop, FilesSent, FilesGivenUp, Stale, OfferPolled, SendPolled
      <3> QED BY <3>1, MovesFlag
    <2>4. CASE Watch \/ Receive \/ Reader \/ Applier \/ (\E m \in Moving : Move(m)) \/ LinkLost
      <3>1. Calm \/ (\E f : Fault(f))
        BY <2>4 DEF Watch, Receive, Reader, ReadData, ReadOffer, ReadPull, Read, Applier, ApplySet, ApplyRecord,
           ApplyFails, Move, LinkLost
      <3> QED BY <3>1, MovesFlag
    <2> QED BY <2>1, <2>2, <2>3, <2>4 DEF Next, User
  <1>2. Bit(fresh, fresh')
    <2>1. CASE Main
      <3>1. UNCHANGED windows
        BY <2>1 DEF Main, Skip, NewLocal, OfferFiles, SendText, LocalFails, LocalGone, DataArrives, DataFails,
           OfferArrives, SessionEnds, Reconnect, Crossed, CrossedFails, Control, Handle
      <3> QED BY <3>1 DEF windows, Bit
    <2>2. CASE Watch \/ Receive \/ Reader \/ Applier
      BY <2>2 DEF Watch, Receive, Reader, ReadData, ReadOffer, ReadPull, Read, Applier, ApplySet, ApplyRecord,
         ApplyFails, windows, Bit
    <2>3. CASE Loop
      BY <2>3 DEF Loop, TakePull, Poll, FilesSent, FilesGivenUp, Sending, Stale, OfferPolled, SendPolled, Decide, Bit
    <2>4. CASE User
      BY <2>4 DEF User, Copy, Move, LinkLost, windows, Bit
    <2> QED BY <2>1, <2>2, <2>3, <2>4 DEF Next
  <1> QED BY <1>1, <1>2, BitType DEF Flags

-----------------------------------------------------------------------------
(* The rest of the state. *)

LEMMA DataMain == ASSUME Typed, Main PROVE Data'
  <1> USE DEF Data
  <1>0. /\ "linux" \in Sides /\ None \in Maybe /\ Contents \subseteq Maybe /\ NoOffer \in Offers
        /\ clip \in [Sides -> Maybe] /\ lastSent \in [Sides -> Maybe] /\ lastSet \in [Sides -> Maybe]
        /\ localOffer \in [Sides -> Maybe] /\ remoteOffer \in Offers
    BY DEF Sides, Maybe, NoOffer, Offers, Typed, Held, LinuxTyped
  <1>1. CASE SessionEnds \/ Reconnect
    BY <1>1 DEF SessionEnds, Reconnect, windows, user, Typed, Held, LinuxTyped, WindowsTyped, WireTyped, UserTyped
  <1>2. ASSUME NEW kind, Handle(kind), Held', link' \in {"up", "broken", "down"}, remoteOffer' \in Offers,
               toWindows' \in Seq(Messages)
        PROVE  Data'
    BY <1>2, HandleData DEF windows, user, Typed, LinuxTyped, WindowsTyped, WireTyped, UserTyped
  <1>3. ASSUME WriteFails \/ (\E ms \in Seq(Messages) : Write(ms)) \/ UNCHANGED <<toWindows, link>>
        PROVE  toWindows' \in Seq(Messages) /\ link' \in {"up", "broken", "down"}
    BY <1>3, WriteTyped DEF WriteFails, Typed, LinuxTyped, WireTyped
  <1>4. CASE Skip \/ OfferFiles \/ SendText \/ LocalFails \/ LocalGone
    <2>1. Handle("copied") BY <1>4 DEF Skip, NewLocal, OfferFiles, SendText, LocalFails, LocalGone
    <2>2. Event \in Contents BY <2>1, HandleData
    <2>3. WriteFails \/ (\E ms \in Seq(Messages) : Write(ms)) \/ UNCHANGED <<toWindows, link>>
      <3>1. <<Msg("data", Event)>> \in Seq(Messages) /\ <<Msg("offer", Event)>> \in Seq(Messages)
        BY <2>2, MsgType
      <3>2. CASE OfferFiles BY <3>1, <3>2 DEF OfferFiles
      <3>3. CASE SendText BY <3>1, <3>3 DEF SendText, GivenUp
      <3>4. CASE Skip \/ LocalFails \/ LocalGone BY <3>4 DEF Skip, LocalFails, LocalGone
      <3> QED BY <1>4, <3>2, <3>3, <3>4
    <2>4. Held' /\ remoteOffer' \in Offers
      <3> HIDE DEF Event
      <3> QED BY <1>0, <1>4, <2>2 DEF Skip, NewLocal, OfferFiles, SendText, LocalFails, LocalGone, Held
    <2> QED BY <1>2, <1>3, <2>1, <2>3, <2>4
  <1>5. CASE DataArrives \/ DataFails
    <2>1. Handle("data") BY <1>5 DEF DataArrives, DataFails
    <2>2. On("linux", Event.name) \in Contents BY <1>0, <2>1, HandleData, OnType
    <2>3. Held' /\ remoteOffer' \in Offers
      BY <1>0, <1>5, <2>2 DEF DataArrives, DataFails, Recorded, Arrival, Held
    <2>4. UNCHANGED <<toWindows, link>> BY <1>5 DEF DataArrives, DataFails
    <2> QED BY <1>2, <1>3, <2>1, <2>3, <2>4
  <1>6. CASE OfferArrives
    <2>1. Handle("offer") BY <1>6 DEF OfferArrives
    <2>2. Event \in Contents BY <2>1, HandleData
    <2>3. Held' /\ remoteOffer' \in Offers
      <3> HIDE DEF Event
      <3> QED BY <1>0, <1>6, <2>2 DEF OfferArrives, Held, Offers
    <2>4. UNCHANGED <<toWindows, link>> BY <1>6 DEF OfferArrives
    <2> QED BY <1>2, <1>3, <2>1, <2>3, <2>4
  <1>7. ASSUME NEW m \in Moving, Crossed(m) \/ CrossedFails(m) PROVE Data'
    <2>1. Handle(m) /\ UNCHANGED <<clip, lastSent, lastSet>> BY <1>7 DEF Crossed, CrossedFails, Control
    <2>2. Requested(m) \in Offers BY <1>0 DEF Requested, Offers
    <2>3. remoteOffer' \in Offers BY <1>0, <1>7, <2>2 DEF Crossed, CrossedFails
    <2>4. Held'
      <3>1. localOffer' = localOffer \/ localOffer' = [localOffer EXCEPT !["linux"] = None]
        BY <1>7 DEF Crossed, CrossedFails
      <3> QED BY <1>0, <2>1, <3>1 DEF Held
    <2>5. PullFor(m) \in Seq(Messages)
      <3>1. CASE Pulls(m)
        <4>1. remoteOffer.of \in Contents BY <1>0, <3>1 DEF Pulls, Offers, Maybe
        <4>2. Msg("pull", remoteOffer.of) \in Messages BY <4>1, MsgType
        <4> QED BY <3>1, <4>2 DEF PullFor
      <3>2. CASE ~Pulls(m) BY <3>2 DEF PullFor
      <3> QED BY <3>1, <3>2
    <2>6. Pushes(m) => <<Msg("data", localOffer["linux"])>> \o PullFor(m) \in Seq(Messages)
      <3> SUFFICES ASSUME Pushes(m) PROVE <<Msg("data", localOffer["linux"])>> \o PullFor(m) \in Seq(Messages)
        OBVIOUS
      <3>1. localOffer["linux"] \in Contents BY <1>0 DEF Pushes, Maybe
      <3>2. <<Msg("data", localOffer["linux"])>> \in Seq(Messages) BY <3>1, MsgType
      <3> QED BY <2>5, <3>2, ConcatSeq
    <2>7. WriteFails \/ \E ms \in Seq(Messages) : Write(ms)
      BY <1>7, <2>5, <2>6 DEF Crossed, CrossedFails
    <2> QED BY <1>2, <1>3, <2>1, <2>3, <2>4, <2>7
  <1> QED BY <1>1, <1>4, <1>5, <1>6, <1>7 DEF Main

LEMMA DataThreads == ASSUME Typed, Watch \/ Receive \/ Reader \/ Applier PROVE Data'
  <1> USE DEF Data
  <1>0. /\ "linux" \in Sides /\ "windows" \in Sides /\ None \in Maybe /\ Contents \subseteq Maybe
        /\ clip \in [Sides -> Maybe]
    BY DEF Sides, Maybe, Typed, Held
  <1>1. CASE Watch
    <2>1. clip["linux"] \in Contents BY <1>0, <1>1 DEF Watch, Maybe
    <2>2. Msg("copied", clip["linux"]) \in RxEvents BY <2>1, MsgType
    <2>3. rx' \in Seq(RxEvents) BY <1>1, <2>2, AppendSeq DEF Watch, Typed, LinuxTyped
    <2> QED BY <1>0, <1>1, <2>1, <2>3 DEF Watch, windows, user, Typed, Held, LinuxTyped, WindowsTyped, WireTyped, UserTyped
  <1>2. CASE Receive
    <2>1. Head(toLinux) \in Messages /\ Tail(toLinux) \in Seq(Messages)
      BY <1>2, TailSeq DEF Receive, Typed, WireTyped
    <2>2. Head(toLinux) \in RxEvents BY <2>1, MsgType
    <2>3. rx' \in Seq(RxEvents) BY <1>2, <2>2, AppendSeq DEF Receive, Typed, LinuxTyped
    <2> QED BY <1>2, <2>1, <2>3 DEF Receive, windows, user, Typed, Held, LinuxTyped, WindowsTyped, WireTyped, UserTyped
  <1>3. CASE Reader
    <2>1. PICK kind \in {"data", "offer", "pull"} : Read(kind)
      BY <1>3 DEF Reader, ReadData, ReadOffer, ReadPull
    <2>2. Head(toWindows) \in Messages /\ Tail(toWindows) \in Seq(Messages) /\ Head(toWindows).of \in Contents
      <3>1. Head(toWindows) \in Messages /\ Tail(toWindows) \in Seq(Messages)
        BY <2>1, TailSeq DEF Read, Typed, WireTyped
      <3> QED BY <3>1 DEF Messages
    <2>3. applyQueue' \in Seq(Contents)
      <3>1. Append(applyQueue, Head(toWindows).of) \in Seq(Contents) BY <2>2, AppendSeq DEF Typed, WindowsTyped
      <3> QED BY <1>3, <3>1 DEF Reader, ReadData, ReadOffer, ReadPull, Typed, WindowsTyped
    <2>4. pullRequest' \in Maybe
      BY <1>0, <1>3, <2>2 DEF Reader, ReadData, ReadOffer, ReadPull, Typed, WindowsTyped
    <2> QED BY <2>1, <2>2, <2>3, <2>4 DEF Read, near, linux, user, Typed, Held, LinuxTyped, WindowsTyped, WireTyped, UserTyped
  <1>4. CASE Applier
    <2>1. CASE ApplySet
      <3>1. Head(applyQueue) \in Contents /\ Tail(applyQueue) \in Seq(Contents)
        BY <2>1, TailSeq DEF ApplySet, Typed, WindowsTyped
      <3>2. On("windows", Head(applyQueue).name) \in Contents BY <1>0, <3>1, OnType DEF Contents
      <3> QED BY <1>0, <2>1, <3>1, <3>2 DEF ApplySet, near, linux, user, Typed, Held, LinuxTyped, WindowsTyped,
             WireTyped, UserTyped
    <2>2. CASE ApplyRecord
      BY <1>0, <2>2 DEF ApplyRecord, near, linux, user, Typed, Held, LinuxTyped, WindowsTyped, WireTyped, UserTyped
    <2>3. CASE ApplyFails
      <3>1. Tail(applyQueue) \in Seq(Contents) BY <2>3, TailSeq DEF ApplyFails, Typed, WindowsTyped
      <3> QED BY <2>3, <3>1 DEF ApplyFails, near, linux, user, Typed, Held, LinuxTyped, WindowsTyped, WireTyped, UserTyped
    <2> QED BY <1>4, <2>1, <2>2, <2>3 DEF Applier
  <1> QED BY <1>1, <1>2, <1>3, <1>4

LEMMA DataLoop == ASSUME Typed, Loop PROVE Data'
  <1> USE DEF Data
  <1>0. "windows" \in Sides /\ None \in Maybe /\ Contents \subseteq Maybe /\ clip \in [Sides -> Maybe]
    BY DEF Sides, Maybe, Typed, Held
  <1>1. UNCHANGED <<near, clip, lastSet, applyQueue, applied, toWindows>>
    BY DEF Loop, TakePull, Poll, SendLoop, FilesSent, FilesGivenUp, Sending, Stale, OfferPolled, SendPolled, Decide
  <1>2. ASSUME NEW m \in Messages, ToLinux(m) PROVE toLinux' \in Seq(Messages)
    <2>1. Append(toLinux, m) \in Seq(Messages) BY AppendSeq DEF Typed, WireTyped
    <2> QED BY <1>2, <2>1 DEF ToLinux, Typed, WireTyped
  <1>3. toLinux' \in Seq(Messages)
    <2>1. CASE FilesSent
      <3>1. sending \in Contents BY <2>1 DEF FilesSent, Sending, Typed, WindowsTyped, Maybe
      <3> QED BY <1>2, <2>1, <3>1, MsgType DEF FilesSent
    <2>2. CASE OfferPolled \/ SendPolled
      <3>1. polled \in Contents BY <2>2 DEF OfferPolled, SendPolled, Decide, Typed, WindowsTyped, Maybe
      <3>2. ToLinux(Msg("offer", polled)) \/ ToLinux(Msg("data", polled)) \/ UNCHANGED toLinux
        BY <2>2 DEF OfferPolled, SendPolled
      <3> QED BY <1>2, <3>1, <3>2, MsgType DEF Typed, WireTyped
    <2>3. CASE TakePull \/ Poll \/ FilesGivenUp \/ Stale
      BY <2>3 DEF TakePull, Poll, SendLoop, FilesGivenUp, Stale, Typed, WireTyped
    <2> QED BY <2>1, <2>2, <2>3 DEF Loop
  <1>4. polled' \in Maybe /\ pullRequest' \in Maybe /\ sending' \in Maybe
    BY <1>0 DEF Loop, TakePull, Poll, SendLoop, FilesSent, FilesGivenUp, Sending, Stale, OfferPolled, SendPolled, Decide,
       Typed, WindowsTyped
  <1>5. lastSent' \in [Sides -> Maybe] /\ localOffer' \in [Sides -> Maybe]
    <2>1. \/ UNCHANGED <<lastSent, localOffer>>
          \/ UNCHANGED lastSent /\ localOffer' = [localOffer EXCEPT !["windows"] = None]
          \/ \E c \in Maybe : /\ localOffer' = [localOffer EXCEPT !["windows"] = c]
                              /\ lastSent' = [lastSent EXCEPT !["windows"] = polled]
      BY <1>0 DEF Loop, TakePull, Poll, SendLoop, FilesSent, FilesGivenUp, Sending, Stale, OfferPolled, SendPolled, Decide,
         Typed, WindowsTyped
    <2> QED BY <1>0, <2>1 DEF Typed, Held, WindowsTyped
  <1> QED BY <1>1, <1>3, <1>4, <1>5 DEF near, linux, user, Typed, Held, LinuxTyped, WindowsTyped, WireTyped, UserTyped

LEMMA DataUser == ASSUME Typed, User PROVE Data'
  <1> USE DEF Data
  <1>1. ASSUME NEW s \in Sides, NEW n \in Names, Copy(s, n) PROVE Data'
    <2>1. On(s, n) \in Maybe BY OnType DEF Maybe
    <2>2. clip' \in [Sides -> Maybe] BY <1>1, <2>1 DEF Copy, Typed, Held
    <2>3. asked' \in [Files -> {"no", "copied", "yes"}] BY <1>1 DEF Copy, Typed, UserTyped
    <2> QED BY <1>1, <2>2, <2>3 DEF Copy, linux, Typed, Held, LinuxTyped, WindowsTyped, WireTyped, UserTyped
  <1>2. ASSUME NEW m \in Moving, Move(m) PROVE Data'
    <2>1. rx' \in Seq(RxEvents) BY <1>2, MsgType, AppendSeq DEF Move, Typed, LinuxTyped
    <2>2. asked' \in [Files -> {"no", "copied", "yes"}] BY <1>2 DEF Move, Typed, UserTyped
    <2> QED BY <1>2, <2>1, <2>2 DEF Move, windows, Typed, Held, LinuxTyped, WindowsTyped, WireTyped, UserTyped
  <1>3. CASE LinkLost
    <2>1. << >> \in Seq(Messages) OBVIOUS
    <2>2. toLinux' = << >> /\ (toWindows' = toWindows \/ toWindows' = << >>) BY <1>3 DEF LinkLost
    <2>3. WireTyped' BY <2>1, <2>2 DEF Typed, WireTyped
    <2> QED BY <1>3, <2>3 DEF LinkLost, windows, user, Typed, Held, LinuxTyped, WindowsTyped, UserTyped
  <1> QED BY <1>1, <1>2, <1>3 DEF User

LEMMA NextTyped == Typed /\ [Next]_vars => Typed'
  <1> SUFFICES ASSUME Typed, [Next]_vars PROVE Typed' OBVIOUS
  <1>1. CASE UNCHANGED vars
    BY <1>1 DEF vars, linux, windows, user, Typed, Data, Held, LinuxTyped, WindowsTyped, WireTyped, UserTyped, Flags
  <1>2. CASE Next
    <2>1. Data' BY <1>2, DataMain, DataThreads, DataLoop, DataUser DEF Next
    <2> QED BY <1>2, <2>1, FlagsNext DEF Typed
  <1> QED BY <1>1, <1>2

\* The types, for all contents, bounds and faults.
THEOREM TypeCorrect == Spec => []TypeOK
  BY InitTyped, NextTyped, TypedOK, PTL DEF Spec

-----------------------------------------------------------------------------
(* Files move only when asked for.                                         *)
(*                                                                         *)
(* OnlyAsked is not inductive: a batch is sent because a crossing or a     *)
(* PULL was taken, long after the user made it.  The invariant follows the *)
(* batch and the request: whatever an agent holds or a queue carries has   *)
(* been copied, a PULL and what serves it have been wanted, and behind a   *)
(* crossing that waits nothing is held out that it does not cover.         *)

Copied(a, c) == Lazy(c) => a[c.name] # "no"
Wanted(a, c) == Lazy(c) => a[c.name] = "yes"
OnWire(a) == {m \in Messages : Copied(a, m.of) /\ (m.t # "offer" => Wanted(a, m.of))}
InRx(a) == {m \in RxEvents : Copied(a, m.of)}
Taken(a) == {c \in Contents : Copied(a, c)}

Shown == \A s \in Sides : Copied(asked, clip[s])
OnLinux == /\ Copied(asked, localOffer["linux"]) /\ Copied(asked, remoteOffer.of)
           /\ rx \in Seq(InRx(asked))
OnWindows == /\ Copied(asked, polled) /\ Wanted(asked, pullRequest) /\ Wanted(asked, sending)
             /\ applyQueue \in Seq(Taken(asked))
Between == toWindows \in Seq(OnWire(asked)) /\ toLinux \in Seq(OnWire(asked))
Crossing == \A j \in 1..Len(rx) : rx[j].t \in Moving =>
                /\ Wanted(asked, localOffer["linux"]) /\ Wanted(asked, remoteOffer.of)
                /\ \A i \in 1..(j - 1) : Wanted(asked, rx[i].of)
AskedInv == Shown /\ OnLinux /\ OnWindows /\ Between /\ Crossing

LEMMA Nothing == \A a : Copied(a, None) /\ Wanted(a, None)
  <1>1. None.name \notin Files BY ClipSyncAssumption DEF None
  <1> QED BY <1>1 DEF Copied, Wanted, Lazy

LEMMA WantedCopied == \A a, c : Wanted(a, c) => Copied(a, c)
  BY DEF Wanted, Copied

LEMMA WiderSeq == ASSUME NEW S, NEW T, S \subseteq T, NEW s \in Seq(S) PROVE s \in Seq(T)
  OBVIOUS

LEMMA OnWireIn == \A a : OnWire(a) \subseteq Messages /\ OnWire(a) \subseteq InRx(a)
  BY MsgType DEF OnWire, InRx

LEMMA SameName ==
    ASSUME NEW a, NEW c, NEW s \in Sides, c.name \in Names
    PROVE  /\ Copied(a, c) => Copied(a, On(s, c.name))
           /\ Wanted(a, c) => Wanted(a, On(s, c.name))
  BY OnType DEF Copied, Wanted, Lazy

LEMMA InitAsked == Init => AskedInv
  <1> SUFFICES ASSUME Init PROVE AskedInv OBVIOUS
  <1>1. \A S : << >> \in Seq(S) /\ Len(<< >>) = 0 OBVIOUS
  <1>2. remoteOffer.of = None BY DEF Init, NoOffer
  <1> QED BY <1>1, <1>2, Nothing DEF Init, AskedInv, Shown, OnLinux, OnWindows, Between, Crossing, Sides

\* The Linux main loop takes an event: what it holds out afterwards it held out before, or had
\* from the event.
LEMMA TakesEvent ==
    ASSUME Typed, AskedInv, NEW kind, Handle(kind), Shown',
           localOffer'["linux"] \in {localOffer["linux"], Head(rx).of, None},
           remoteOffer'.of \in {remoteOffer.of, Head(rx).of, None},
           toWindows' \in Seq(OnWire(asked))
    PROVE  AskedInv'
  <1>1. UNCHANGED <<windows, toLinux, asked>> BY HandleData DEF user
  <1>2. /\ rx' \in Seq(InRx(asked)) /\ Head(rx) \in InRx(asked) /\ Head(rx) = rx[1]
        /\ Len(rx') = Len(rx) - 1 /\ Len(rx) \in Nat \ {0}
        /\ \A x \in 1..Len(rx') : rx'[x] = rx[x + 1]
    BY TailSeq DEF AskedInv, OnLinux, Handle
  <1>3. OnWindows' /\ Between' BY <1>1 DEF AskedInv, OnWindows, Between, windows
  <1>4. Copied(asked, Head(rx).of) BY <1>2 DEF InRx
  <1>5. OnLinux' BY <1>1, <1>2, <1>4, Nothing DEF AskedInv, OnLinux
  <1>6. Crossing'
    <2> SUFFICES ASSUME NEW j \in 1..Len(rx'), rx'[j].t \in Moving
                 PROVE  /\ Wanted(asked, localOffer'["linux"]) /\ Wanted(asked, remoteOffer'.of)
                        /\ \A i \in 1..(j - 1) : Wanted(asked, rx'[i].of)
      BY <1>1 DEF Crossing
    <2>1. j + 1 \in 1..Len(rx) /\ rx[j + 1].t \in Moving BY <1>2
    <2>2. /\ Wanted(asked, localOffer["linux"]) /\ Wanted(asked, remoteOffer.of)
          /\ \A i \in 1..((j + 1) - 1) : Wanted(asked, rx[i].of)
      BY <2>1 DEF AskedInv, Crossing
    <2>3. Wanted(asked, Head(rx).of) BY <1>2, <2>2
    <2>4. ASSUME NEW i \in 1..(j - 1) PROVE Wanted(asked, rx'[i].of)
      <3>1. rx'[i] = rx[i + 1] /\ i + 1 \in 1..((j + 1) - 1) BY <1>2
      <3> QED BY <2>2, <3>1
    <2> QED BY <2>2, <2>3, <2>4, Nothing
  <1> QED BY <1>3, <1>5, <1>6 DEF AskedInv

LEMMA WritesWire ==
    ASSUME Typed, AskedInv,
           WriteFails \/ UNCHANGED toWindows \/ \E ms \in Seq(OnWire(asked)) : Write(ms)
    PROVE  toWindows' \in Seq(OnWire(asked))
  <1>1. CASE WriteFails \/ UNCHANGED toWindows BY <1>1 DEF WriteFails, AskedInv, Between
  <1>2. ASSUME NEW ms \in Seq(OnWire(asked)), Write(ms) PROVE toWindows' \in Seq(OnWire(asked))
    <2>1. toWindows \o ms \in Seq(OnWire(asked)) BY ConcatSeq DEF AskedInv, Between
    <2> QED BY <1>2, <2>1 DEF Write, AskedInv, Between
  <1> QED BY <1>1, <1>2

LEMMA OneMessage ==
    ASSUME NEW a, NEW c \in Contents, Copied(a, c)
    PROVE  /\ Msg("offer", c) \in OnWire(a) /\ <<Msg("offer", c)>> \in Seq(OnWire(a))
           /\ Wanted(a, c) => /\ Msg("data", c) \in OnWire(a) /\ <<Msg("data", c)>> \in Seq(OnWire(a))
                              /\ Msg("pull", c) \in OnWire(a) /\ <<Msg("pull", c)>> \in Seq(OnWire(a))
  <1>1. \A k \in {"data", "offer", "pull"} : Msg(k, c) \in Messages /\ Msg(k, c).t = k /\ Msg(k, c).of = c
    BY MsgType DEF Msg
  <1>2. \A m \in OnWire(a) : <<m>> \in Seq(OnWire(a)) OBVIOUS
  <1>3. Msg("offer", c) \in OnWire(a) BY <1>1 DEF OnWire
  <1>4. Wanted(a, c) => Msg("data", c) \in OnWire(a) /\ Msg("pull", c) \in OnWire(a) BY <1>1 DEF OnWire
  <1> QED BY <1>2, <1>3, <1>4

LEMMA AskedMain == ASSUME Typed, AskedInv, Main PROVE AskedInv'
  <1>0. /\ "linux" \in Sides /\ clip \in [Sides -> Maybe] /\ localOffer \in [Sides -> Maybe]
        /\ remoteOffer \in Offers
    BY DEF Sides, Typed, Data, Held, LinuxTyped
  <1>1. CASE SessionEnds \/ Reconnect
    BY <1>1 DEF SessionEnds, Reconnect, windows, user, AskedInv, Shown, OnLinux, OnWindows, Between, Crossing
  <1>2. ASSUME UNCHANGED clip, NEW kind, Handle(kind) PROVE Shown'
    BY <1>2, HandleData DEF user, AskedInv, Shown
  <1>3. CASE Skip \/ OfferFiles \/ SendText \/ LocalFails \/ LocalGone
    <2>1. Handle("copied") /\ UNCHANGED <<clip, remoteOffer>>
      BY <1>3 DEF Skip, NewLocal, OfferFiles, SendText, LocalFails, LocalGone
    <2>2. Event \in Contents /\ Copied(asked, Event)
      <3>1. Head(rx) \in InRx(asked) BY <2>1, TailSeq DEF Handle, AskedInv, OnLinux
      <3> QED BY <2>1, <3>1, HandleData DEF InRx, Event
    <2>3. WriteFails \/ UNCHANGED toWindows \/ \E ms \in Seq(OnWire(asked)) : Write(ms)
      <3>1. CASE OfferFiles BY <2>2, <3>1, OneMessage DEF OfferFiles
      <3>2. CASE SendText
        <4>1. Wanted(asked, Event) BY <3>2 DEF SendText, Wanted
        <4> QED BY <2>2, <3>2, <4>1, OneMessage DEF SendText, GivenUp
      <3>3. CASE Skip \/ LocalFails \/ LocalGone BY <3>3 DEF Skip, LocalFails, LocalGone
      <3> QED BY <1>3, <3>1, <3>2, <3>3
    <2>4. localOffer'["linux"] \in {localOffer["linux"], Event, None}
      <3> HIDE DEF Event
      <3> QED BY <1>0, <1>3 DEF Skip, NewLocal, OfferFiles, SendText, LocalFails, LocalGone
    <2>5. Shown' BY <1>2, <2>1
    <2> QED BY <2>1, <2>3, <2>4, <2>5, WritesWire, TakesEvent DEF Event
  <1>4. CASE DataArrives \/ DataFails
    <2>1. Handle("data") /\ UNCHANGED <<localOffer, toWindows>> BY <1>4 DEF DataArrives, DataFails
    <2>2. Event.name \in Names /\ Copied(asked, Event)
      <3>1. Head(rx) \in InRx(asked) BY <2>1, TailSeq DEF Handle, AskedInv, OnLinux
      <3> QED BY <2>1, <3>1, HandleData DEF InRx, Event
    <2>3. Copied(asked, On("linux", Event.name)) BY <1>0, <2>2, SameName
    <2>4. UNCHANGED asked BY <2>1, HandleData DEF user
    <2>5. Shown' BY <1>0, <1>4, <2>3, <2>4 DEF DataArrives, DataFails, Arrival, AskedInv, Shown
    <2>6. remoteOffer'.of \in {remoteOffer.of, None} BY <1>4 DEF DataArrives, DataFails, Recorded, NoOffer
    <2> QED BY <2>1, <2>5, <2>6, WritesWire, TakesEvent
  <1>5. CASE OfferArrives
    <2>1. Handle("offer") /\ UNCHANGED <<clip, localOffer, toWindows>> /\ remoteOffer'.of = Event
      BY <1>5 DEF OfferArrives
    <2>2. Shown' BY <1>2, <2>1
    <2> QED BY <2>1, <2>2, WritesWire, TakesEvent DEF Event
  <1>6. ASSUME NEW m \in Moving, Crossed(m) \/ CrossedFails(m) PROVE AskedInv'
    <2>1. Handle(m) /\ UNCHANGED clip BY <1>6 DEF Crossed, CrossedFails, Control
    <2>2. /\ Wanted(asked, localOffer["linux"]) /\ Wanted(asked, remoteOffer.of)
          /\ Copied(asked, localOffer["linux"]) /\ Copied(asked, remoteOffer.of)
      <3>1. rx[1].t \in Moving /\ 1 \in 1..Len(rx) BY <2>1, TailSeq DEF Handle, Typed, Data, LinuxTyped
      <3> QED BY <3>1 DEF AskedInv, Crossing, OnLinux
    <2>3. Shown' BY <1>2, <2>1
    <2>4. localOffer'["linux"] \in {localOffer["linux"], None} BY <1>0, <1>6 DEF Crossed, CrossedFails
    <2>5. remoteOffer'.of = remoteOffer.of BY <1>0, <1>6 DEF Crossed, CrossedFails, Requested, Offers
    <2>6. PullFor(m) \in Seq(OnWire(asked))
      <3>1. CASE Pulls(m)
        <4>1. remoteOffer.of \in Contents BY <1>0, <3>1 DEF Pulls, Offers, Maybe
        <4>2. <<Msg("pull", remoteOffer.of)>> \in Seq(OnWire(asked)) BY <2>2, <4>1, OneMessage
        <4> QED BY <3>1, <4>2 DEF PullFor
      <3>2. CASE ~Pulls(m) BY <3>2 DEF PullFor
      <3> QED BY <3>1, <3>2
    <2>7. Pushes(m) => <<Msg("data", localOffer["linux"])>> \o PullFor(m) \in Seq(OnWire(asked))
      <3> SUFFICES ASSUME Pushes(m)
                   PROVE  <<Msg("data", localOffer["linux"])>> \o PullFor(m) \in Seq(OnWire(asked))
        OBVIOUS
      <3>1. localOffer["linux"] \in Contents BY <1>0 DEF Pushes, Maybe
      <3>2. <<Msg("data", localOffer["linux"])>> \in Seq(OnWire(asked)) BY <2>2, <3>1, OneMessage
      <3> QED BY <2>6, <3>2, ConcatSeq
    <2>8. WriteFails \/ UNCHANGED toWindows \/ \E ms \in Seq(OnWire(asked)) : Write(ms)
      BY <1>6, <2>6, <2>7 DEF Crossed, CrossedFails
    <2> QED BY <2>1, <2>3, <2>4, <2>5, <2>8, WritesWire, TakesEvent
  <1> QED BY <1>1, <1>3, <1>4, <1>5, <1>6 DEF Main

\* An event comes last, so that no crossing waits behind it.
LEMMA PostsEvent ==
    ASSUME Typed, AskedInv, NEW e \in InRx(asked), e.t \notin Moving, rx' = Append(rx, e),
           UNCHANGED <<clip, localOffer, remoteOffer, asked, windows, toWindows>>,
           toLinux' \in Seq(OnWire(asked))
    PROVE  AskedInv'
  <1>1. /\ rx' \in Seq(InRx(asked)) /\ Len(rx') = Len(rx) + 1 /\ rx'[Len(rx) + 1] = e
        /\ Len(rx) \in Nat /\ \A x \in 1..Len(rx) : rx'[x] = rx[x]
    BY AppendSeq DEF AskedInv, OnLinux
  <1>2. Crossing'
    <2> SUFFICES ASSUME NEW j \in 1..Len(rx'), rx'[j].t \in Moving
                 PROVE  /\ Wanted(asked, localOffer["linux"]) /\ Wanted(asked, remoteOffer.of)
                        /\ \A i \in 1..(j - 1) : Wanted(asked, rx'[i].of)
      BY DEF Crossing
    <2>1. j \in 1..Len(rx) /\ rx[j].t \in Moving BY <1>1
    <2> QED BY <1>1, <2>1 DEF AskedInv, Crossing
  <1> QED BY <1>1, <1>2 DEF windows, AskedInv, Shown, OnLinux, OnWindows, Between

LEMMA AskedThreads == ASSUME Typed, AskedInv, Watch \/ Receive \/ Reader \/ Applier PROVE AskedInv'
  <1>0. "linux" \in Sides /\ "windows" \in Sides /\ clip \in [Sides -> Maybe]
    BY DEF Sides, Typed, Data, Held
  <1>1. CASE Watch
    <2>1. clip["linux"] \in Contents /\ Copied(asked, clip["linux"])
      BY <1>0, <1>1 DEF Watch, Maybe, AskedInv, Shown
    <2>2. Msg("copied", clip["linux"]) \in InRx(asked) /\ Msg("copied", clip["linux"]).t \notin Moving
      BY <2>1, MsgType DEF InRx, Msg, Moving
    <2> QED BY <1>1, <2>2, PostsEvent DEF Watch, user, AskedInv, Between
  <1>2. CASE Receive
    <2>1. Head(toLinux) \in OnWire(asked) /\ Tail(toLinux) \in Seq(OnWire(asked))
      BY <1>2, TailSeq DEF Receive, AskedInv, Between
    <2>2. Head(toLinux) \in InRx(asked) /\ Head(toLinux).t \notin Moving
      BY <2>1, OnWireIn DEF Messages, Moving
    <2> QED BY <1>2, <2>1, <2>2, PostsEvent DEF Receive, user
  <1>3. CASE Reader
    <2>1. PICK kind \in {"data", "offer", "pull"} : Read(kind)
      BY <1>3 DEF Reader, ReadData, ReadOffer, ReadPull
    <2>2. Head(toWindows) \in OnWire(asked) /\ Tail(toWindows) \in Seq(OnWire(asked))
      BY <2>1, TailSeq DEF Read, AskedInv, Between
    <2>3. Head(toWindows).of \in Taken(asked) BY <2>2 DEF OnWire, Taken, Messages
    <2>4. applyQueue' \in Seq(Taken(asked))
      <3>1. Append(applyQueue, Head(toWindows).of) \in Seq(Taken(asked))
        BY <2>3, AppendSeq DEF AskedInv, OnWindows
      <3> QED BY <1>3, <3>1 DEF Reader, ReadData, ReadOffer, ReadPull, AskedInv, OnWindows
    <2>5. Wanted(asked, pullRequest')
      <3>1. CASE ReadPull
        <4>1. Head(toWindows).t # "offer" BY <3>1 DEF ReadPull, Read
        <4> QED BY <2>2, <3>1, <4>1 DEF ReadPull, OnWire
      <3>2. CASE ReadData \/ ReadOffer BY <3>2 DEF ReadData, ReadOffer, AskedInv, OnWindows
      <3> QED BY <1>3, <3>1, <3>2 DEF Reader
    <2> QED BY <2>1, <2>2, <2>4, <2>5 DEF Read, near, linux, user, AskedInv, Shown, OnLinux, OnWindows, Between, Crossing
  <1>4. CASE Applier
    <2>1. CASE ApplySet
      <3>1. Head(applyQueue) \in Taken(asked) /\ Tail(applyQueue) \in Seq(Taken(asked))
        BY <2>1, TailSeq DEF ApplySet, AskedInv, OnWindows
      <3>2. Copied(asked, On("windows", Head(applyQueue).name))
        BY <1>0, <3>1, SameName DEF Taken, Contents
      <3> QED BY <1>0, <2>1, <3>1, <3>2 DEF ApplySet, near, linux, user, AskedInv, Shown, OnLinux, OnWindows,
             Between, Crossing
    <2>2. CASE ApplyRecord
      BY <2>2 DEF ApplyRecord, near, linux, user, AskedInv, Shown, OnLinux, OnWindows, Between, Crossing
    <2>3. CASE ApplyFails
      <3>1. Tail(applyQueue) \in Seq(Taken(asked)) BY <2>3, TailSeq DEF ApplyFails, AskedInv, OnWindows
      <3> QED BY <2>3, <3>1 DEF ApplyFails, near, linux, user, AskedInv, Shown, OnLinux, OnWindows, Between, Crossing
    <2> QED BY <1>4, <2>1, <2>2, <2>3 DEF Applier
  <1> QED BY <1>1, <1>2, <1>3, <1>4

LEMMA AskedLoop == ASSUME Typed, AskedInv, Loop PROVE AskedInv'
  <1>0. "windows" \in Sides /\ "linux" # "windows" /\ localOffer \in [Sides -> Maybe]
    BY DEF Sides, Typed, Data, Held
  <1>1. UNCHANGED <<near, clip, applyQueue, toWindows>>
    BY DEF Loop, TakePull, Poll, SendLoop, FilesSent, FilesGivenUp, Sending, Stale, OfferPolled, SendPolled, Decide
  <1>2. localOffer'["linux"] = localOffer["linux"]
    <2>1. localOffer' = localOffer \/ \E c : localOffer' = [localOffer EXCEPT !["windows"] = c]
      BY DEF Loop, TakePull, Poll, SendLoop, FilesSent, FilesGivenUp, Sending, Stale, OfferPolled, SendPolled, Decide
    <2> QED BY <1>0, <2>1 DEF Sides
  <1>3. ASSUME NEW m \in OnWire(asked), ToLinux(m) PROVE toLinux' \in Seq(OnWire(asked))
    <2>1. Append(toLinux, m) \in Seq(OnWire(asked)) BY AppendSeq DEF AskedInv, Between
    <2> QED BY <1>3, <2>1 DEF ToLinux, AskedInv, Between
  <1>4. toLinux' \in Seq(OnWire(asked))
    <2>1. CASE FilesSent
      <3>1. sending \in Contents /\ Wanted(asked, sending)
        BY <2>1 DEF FilesSent, Sending, Typed, Data, WindowsTyped, Maybe, AskedInv, OnWindows
      <3> QED BY <1>3, <2>1, <3>1, WantedCopied, OneMessage DEF FilesSent
    <2>2. CASE OfferPolled \/ SendPolled
      <3>1. polled \in Contents /\ Copied(asked, polled)
        BY <2>2 DEF OfferPolled, SendPolled, Decide, Typed, Data, WindowsTyped, Maybe, AskedInv, OnWindows
      <3>2. SendPolled => Wanted(asked, polled) BY DEF SendPolled, Wanted
      <3>3. \/ ToLinux(Msg("offer", polled)) \/ UNCHANGED toLinux
            \/ ToLinux(Msg("data", polled)) /\ SendPolled
        BY <2>2 DEF OfferPolled, SendPolled
      <3> QED BY <1>3, <3>1, <3>2, <3>3, OneMessage DEF AskedInv, Between
    <2>3. CASE TakePull \/ Poll \/ FilesGivenUp \/ Stale
      BY <2>3 DEF TakePull, Poll, SendLoop, FilesGivenUp, Stale, AskedInv, Between
    <2> QED BY <2>1, <2>2, <2>3 DEF Loop
  <1>5. Copied(asked, polled') /\ Wanted(asked, pullRequest') /\ Wanted(asked, sending')
    BY <1>0, Nothing DEF Loop, TakePull, Poll, SendLoop, FilesSent, FilesGivenUp, Sending, Stale, OfferPolled, SendPolled,
       Decide, AskedInv, OnWindows, Shown
  <1> QED BY <1>1, <1>2, <1>4, <1>5 DEF near, linux, user, AskedInv, Shown, OnLinux, OnWindows, Between, Crossing

\* A batch once copied or wanted stays so.
LEMMA Stays ==
    ASSUME AskedInv, NEW b,
           \A c : (Copied(asked, c) => Copied(b, c)) /\ (Wanted(asked, c) => Wanted(b, c))
    PROVE  /\ rx \in Seq(InRx(b)) /\ applyQueue \in Seq(Taken(b))
           /\ toWindows \in Seq(OnWire(b)) /\ toLinux \in Seq(OnWire(b))
  <1>1. InRx(asked) \subseteq InRx(b) /\ Taken(asked) \subseteq Taken(b) /\ OnWire(asked) \subseteq OnWire(b)
    BY DEF InRx, Taken, OnWire
  <1> QED BY <1>1, WiderSeq DEF AskedInv, OnLinux, OnWindows, Between

LEMMA AskedUser == ASSUME Typed, AskedInv, User PROVE AskedInv'
  <1>0. asked \in [Files -> {"no", "copied", "yes"}] /\ clip \in [Sides -> Maybe]
    BY DEF Typed, Data, UserTyped, Held
  <1>1. ASSUME NEW s \in Sides, NEW n \in Names, Copy(s, n) PROVE AskedInv'
    <2>1. asked' = [f \in Files |-> IF f = n /\ asked[f] = "no" THEN "copied" ELSE asked[f]] BY <1>1 DEF Copy
    <2>2. \A c : (Copied(asked, c) => Copied(asked', c)) /\ (Wanted(asked, c) => Wanted(asked', c))
      BY <1>0, <2>1 DEF Copied, Wanted, Lazy
    <2>3. Copied(asked', On(s, n)) BY <1>0, <2>1, OnType DEF Copied, Lazy
    <2>4. Shown' BY <1>0, <1>1, <2>2, <2>3 DEF Copy, AskedInv, Shown
    <2>5. UNCHANGED <<localOffer, linux, polled, pullRequest, sending, applyQueue, toWindows, toLinux>>
      BY <1>1 DEF Copy
    <2>6. OnLinux' /\ OnWindows' /\ Between'
      BY <2>2, <2>5, Stays DEF linux, AskedInv, OnLinux, OnWindows, Between
    <2>7. Crossing' BY <2>2, <2>5 DEF linux, AskedInv, Crossing
    <2> QED BY <2>4, <2>6, <2>7 DEF AskedInv
  <1>2. ASSUME NEW m \in Moving, Move(m) PROVE AskedInv'
    <2>1. asked' = [f \in Files |-> IF asked[f] = "copied" THEN "yes" ELSE asked[f]] BY <1>2 DEF Move
    <2>2. \A c : Copied(asked, c) => Wanted(asked', c)
      BY <1>0, <2>1 DEF Copied, Wanted, Lazy
    <2>3. \A c : (Copied(asked, c) => Copied(asked', c)) /\ (Wanted(asked, c) => Wanted(asked', c))
      BY <2>2, WantedCopied
    <2>4. UNCHANGED <<clip, localOffer, remoteOffer, windows, toWindows, toLinux>> /\ rx' = Append(rx, Msg(m, None))
      BY <1>2 DEF Move
    <2>5. Shown' BY <2>3, <2>4 DEF AskedInv, Shown
    <2>6. OnWindows' /\ Between' BY <2>3, <2>4, Stays DEF windows, AskedInv, OnWindows, Between
    <2>7. /\ rx' \in Seq(InRx(asked')) /\ Len(rx') = Len(rx) + 1 /\ rx'[Len(rx) + 1] = Msg(m, None)
          /\ Len(rx) \in Nat /\ \A x \in 1..Len(rx) : rx'[x] = rx[x]
      <3>1. Msg(m, None) \in InRx(asked') BY MsgType, Nothing DEF InRx, Msg
      <3>2. rx \in Seq(InRx(asked')) BY <2>3, Stays
      <3> QED BY <2>4, <3>1, <3>2, AppendSeq
    <2>8. OnLinux' BY <2>3, <2>4, <2>7 DEF AskedInv, OnLinux
    <2>9. \A i \in 1..Len(rx) : Copied(asked, rx[i].of) BY DEF AskedInv, OnLinux, InRx
    <2>10. Crossing'
      <3> SUFFICES ASSUME NEW j \in 1..Len(rx'), NEW i \in 1..(j - 1)
                   PROVE  /\ Wanted(asked', localOffer'["linux"]) /\ Wanted(asked', remoteOffer'.of)
                          /\ Wanted(asked', rx'[i].of)
        <4>1. Wanted(asked', localOffer'["linux"]) /\ Wanted(asked', remoteOffer'.of)
          BY <2>2, <2>4 DEF AskedInv, OnLinux
        <4> QED BY <4>1 DEF Crossing
      <3>1. i \in 1..Len(rx) /\ rx'[i] = rx[i] BY <2>7
      <3> QED BY <2>2, <2>4, <2>9, <3>1 DEF AskedInv, OnLinux
    <2> QED BY <2>5, <2>6, <2>8, <2>10 DEF AskedInv
  <1>3. CASE LinkLost
    <2>1. \A S : << >> \in Seq(S) OBVIOUS
    <2>2. toLinux' = << >> /\ (toWindows' = toWindows \/ toWindows' = << >>) BY <1>3 DEF LinkLost
    <2>3. UNCHANGED asked BY <1>3 DEF LinkLost, user
    <2>4. Between' BY <2>1, <2>2, <2>3 DEF AskedInv, Between
    <2> QED BY <1>3, <2>3, <2>4 DEF LinkLost, windows, AskedInv, Shown, OnLinux, OnWindows, Crossing
  <1> QED BY <1>1, <1>2, <1>3 DEF User

LEMMA NextAsked == Typed /\ AskedInv /\ [Next]_vars => AskedInv'
  <1> SUFFICES ASSUME Typed, AskedInv, [Next]_vars PROVE AskedInv' OBVIOUS
  <1>1. CASE UNCHANGED vars
    BY <1>1 DEF vars, linux, windows, user, AskedInv, Shown, OnLinux, OnWindows, Between, Crossing
  <1> QED BY <1>1, AskedMain, AskedThreads, AskedLoop, AskedUser DEF Next

\* Whatever is copied and however crossings, pulls, transfers and faults interleave: a batch
\* that is on its way to the other machine was asked for after it was copied.
THEOREM MovedOnRequest == Spec => []OnlyAsked
  <1>1. AskedInv => OnlyAsked
    BY DEF AskedInv, Between, OnWire, Wanted, OnlyAsked, InFlight
  <1> QED BY <1>1, InitTyped, NextTyped, InitAsked, NextAsked, PTL DEF Spec

-----------------------------------------------------------------------------
(* A batch that arrives is the one on offer.                               *)
(*                                                                         *)
(* Offers and batches reach the Linux main loop in the order the send loop *)
(* sent them in, through toLinux and rx.  So it is enough that each batch  *)
(* on the way follows its own offer, and that the batch the send loop has  *)
(* on offer is the one it offered last.                                    *)

Quiet(s, a, b) == \A z \in a..(b - 1) : s[z].t # "offer"
\* The last offer before place x of s, if there is one, is of c.
Newest(s, x, c) == \A y \in 1..(x - 1) : s[y].t = "offer" /\ Quiet(s, y + 1, x) => s[y].of = c
Behind(x, c) == Newest(rx, x, c) /\ (Quiet(rx, 1, x) => remoteOffer.of \in {c, None})
Follows(x, c) == Newest(toLinux, x, c) /\ (Quiet(toLinux, 1, x) => Behind(Len(rx) + 1, c))
Batch(m) == m.t = "data" /\ Lazy(m.of)

Order == /\ \A x \in 1..Len(rx) : Batch(rx[x]) => Behind(x, rx[x].of)
         /\ \A x \in 1..Len(toLinux) : Batch(toLinux[x]) => Follows(x, toLinux[x].of)
         /\ localOffer["windows"] # None => Follows(Len(toLinux) + 1, localOffer["windows"])
         /\ sending # None => polled = None /\ sending = localOffer["windows"]
Right == faults \in Nat /\ (faults = 0 => link = "up" /\ Order)

LEMMA AppendNewest ==
    ASSUME NEW S, NEW s \in Seq(S), NEW e \in S, NEW u, u = Append(s, e)
    PROVE  /\ \A c : \A x \in 1..(Len(s) + 1) : Newest(s, x, c) => Newest(u, x, c)
           /\ \A x \in 1..(Len(s) + 1) : Quiet(u, 1, x) => Quiet(s, 1, x)
           /\ e.t # "offer" => /\ \A c : Newest(s, Len(s) + 1, c) => Newest(u, Len(u) + 1, c)
                               /\ Quiet(u, 1, Len(u) + 1) => Quiet(s, 1, Len(s) + 1)
           /\ e.t = "offer" => Newest(u, Len(u) + 1, e.of) /\ ~Quiet(u, 1, Len(u) + 1)
  <1>1. /\ Len(u) = Len(s) + 1 /\ u[Len(s) + 1] = e /\ Len(s) \in Nat
        /\ \A x \in 1..Len(s) : u[x] = s[x]
    BY AppendSeq
  <1>2. \A x \in 1..(Len(s) + 1) : Quiet(u, 1, x) => Quiet(s, 1, x) BY <1>1 DEF Quiet
  <1>3. ASSUME NEW c, NEW x \in 1..(Len(s) + 1), Newest(s, x, c) PROVE Newest(u, x, c)
    <2> SUFFICES ASSUME NEW y \in 1..(x - 1), u[y].t = "offer", Quiet(u, y + 1, x) PROVE u[y].of = c
      BY DEF Newest
    <2>1. u[y] = s[y] /\ Quiet(s, y + 1, x) BY <1>1 DEF Quiet
    <2> QED BY <1>3, <2>1 DEF Newest
  <1>4. ASSUME e.t # "offer", NEW c, Newest(s, Len(s) + 1, c) PROVE Newest(u, Len(u) + 1, c)
    <2> SUFFICES ASSUME NEW y \in 1..Len(u), u[y].t = "offer", Quiet(u, y + 1, Len(u) + 1) PROVE u[y].of = c
      BY <1>1 DEF Newest
    <2>1. y \in 1..Len(s) BY <1>1, <1>4
    <2>2. u[y] = s[y] /\ Quiet(s, y + 1, Len(s) + 1) BY <1>1, <2>1 DEF Quiet
    <2> QED BY <1>1, <1>4, <2>1, <2>2 DEF Newest
  <1>5. ASSUME e.t # "offer", Quiet(u, 1, Len(u) + 1) PROVE Quiet(s, 1, Len(s) + 1)
    BY <1>1, <1>5 DEF Quiet
  <1>6. ASSUME e.t = "offer" PROVE Newest(u, Len(u) + 1, e.of) /\ ~Quiet(u, 1, Len(u) + 1)
    <2>1. Len(s) + 1 \in 1..((Len(u) + 1) - 1) BY <1>1
    <2>2. ~Quiet(u, 1, Len(u) + 1) BY <1>1, <1>6, <2>1 DEF Quiet
    <2>3. ASSUME NEW y \in 1..Len(s) PROVE ~Quiet(u, y + 1, Len(u) + 1)
      <3>1. Len(s) + 1 \in (y + 1)..((Len(u) + 1) - 1) BY <1>1
      <3> QED BY <1>1, <1>6, <3>1 DEF Quiet
    <2>4. \A y \in 1..((Len(u) + 1) - 1) : y \in 1..Len(s) \/ u[y] = e BY <1>1
    <2> QED BY <2>2, <2>3, <2>4 DEF Newest
  <1> QED BY <1>2, <1>3, <1>4, <1>5, <1>6

LEMMA TailNewest ==
    ASSUME NEW S, NEW s \in Seq(S), s # << >>, NEW u, u = Tail(s), NEW x \in 1..Len(s)
    PROVE  /\ \A c : Newest(s, x + 1, c) => Newest(u, x, c)
           /\ s[1].t # "offer" /\ Quiet(u, 1, x) => Quiet(s, 1, x + 1)
           /\ \A c : s[1].t = "offer" /\ Quiet(u, 1, x) /\ Newest(s, x + 1, c) => s[1].of = c
  <1>1. /\ Len(u) = Len(s) - 1 /\ Len(s) \in Nat \ {0}
        /\ \A y \in 1..Len(u) : u[y] = s[y + 1]
    BY TailSeq
  <1>2. ASSUME NEW a \in 1..x, Quiet(u, a, x) PROVE Quiet(s, a + 1, x + 1)
    <2> SUFFICES ASSUME NEW z \in (a + 1)..x PROVE s[z].t # "offer" BY DEF Quiet
    <2>1. z - 1 \in a..(x - 1) /\ z - 1 \in 1..Len(u) /\ (z - 1) + 1 = z BY <1>1
    <2> QED BY <1>1, <1>2, <2>1 DEF Quiet
  <1>3. ASSUME NEW c, Newest(s, x + 1, c) PROVE Newest(u, x, c)
    <2> SUFFICES ASSUME NEW y \in 1..(x - 1), u[y].t = "offer", Quiet(u, y + 1, x) PROVE u[y].of = c
      BY DEF Newest
    <2>1. u[y] = s[y + 1] /\ y + 1 \in 1..x /\ y + 1 \in 1..((x + 1) - 1) BY <1>1
    <2>2. Quiet(s, (y + 1) + 1, x + 1) BY <1>2, <2>1
    <2> QED BY <1>3, <2>1, <2>2 DEF Newest
  <1>4. ASSUME Quiet(u, 1, x) PROVE Quiet(s, 1 + 1, x + 1) BY <1>2, <1>4
  <1>5. ASSUME s[1].t # "offer", Quiet(u, 1, x) PROVE Quiet(s, 1, x + 1)
    <2>1. \A z \in 1..((x + 1) - 1) : z = 1 \/ z \in (1 + 1)..((x + 1) - 1) OBVIOUS
    <2> QED BY <1>4, <1>5, <2>1 DEF Quiet
  <1>6. ASSUME NEW c, s[1].t = "offer", Quiet(u, 1, x), Newest(s, x + 1, c) PROVE s[1].of = c
    <2>1. 1 \in 1..((x + 1) - 1) OBVIOUS
    <2> QED BY <1>4, <1>6, <2>1 DEF Newest
  <1> QED BY <1>3, <1>5, <1>6

LEMMA InitRight == Init => Right
  <1> SUFFICES ASSUME Init PROVE Right OBVIOUS
  <1>1. Len(rx) = 0 /\ Len(toLinux) = 0 BY DEF Init
  <1>2. localOffer["windows"] = None BY DEF Init, Sides
  <1> QED BY <1>1, <1>2 DEF Init, Right, Order

\* The Linux main loop takes an event.
LEMMA OrderTaken ==
    ASSUME Typed, Order, NEW kind, Handle(kind),
           \/ kind = "offer" /\ remoteOffer'.of = Event
           \/ kind # "offer" /\ remoteOffer'.of \in {remoteOffer.of, None},
           localOffer'["windows"] = localOffer["windows"]
    PROVE  Order'
  <1>1. /\ UNCHANGED <<sending, polled, toLinux>> /\ rx' = Tail(rx) /\ rx # << >> /\ rx \in Seq(RxEvents)
        /\ Head(rx) = rx[1] /\ rx[1].t = kind /\ Len(rx') = Len(rx) - 1 /\ Len(rx) \in Nat \ {0}
        /\ \A y \in 1..Len(rx') : rx'[y] = rx[y + 1]
    BY HandleData, TailSeq DEF windows, Typed, Data, LinuxTyped
  <1>2. ASSUME NEW x \in 1..Len(rx), NEW c, Behind(x + 1, c) PROVE Behind(x, c)'
    <2>1. Newest(rx', x, c) BY <1>1, <1>2, TailNewest DEF Behind
    <2>2. ASSUME Quiet(rx', 1, x) PROVE remoteOffer'.of \in {c, None}
      <3>1. CASE kind = "offer"
        <4>1. Newest(rx, x + 1, c) BY <1>2 DEF Behind
        <4>2. rx[1].of = c BY <1>1, <2>2, <3>1, <4>1, TailNewest
        <4>3. Event = rx[1].of BY <1>1 DEF Event
        <4> QED BY <3>1, <4>2, <4>3
      <3>2. CASE kind # "offer"
        <4>1. Quiet(rx, 1, x + 1) BY <1>1, <2>2, <3>2, TailNewest
        <4> QED BY <1>2, <3>2, <4>1 DEF Behind
      <3> QED BY <3>1, <3>2
    <2> QED BY <2>1, <2>2 DEF Behind, Newest, Quiet
  <1>3. ASSUME NEW x \in 1..Len(rx'), Batch(rx'[x]), NEW c, c = rx'[x].of PROVE Behind(x, c)'
    <2>1. x + 1 \in 1..Len(rx) /\ x \in 1..Len(rx) /\ rx'[x] = rx[x + 1] BY <1>1
    <2>2. Behind(x + 1, c) BY <1>3, <2>1 DEF Order
    <2> QED BY <1>2, <2>1, <2>2
  <1>4. ASSUME NEW x, NEW c, Follows(x, c) PROVE Follows(x, c)'
    <2>1. Newest(toLinux', x, c) /\ (Quiet(toLinux', 1, x) => Behind(Len(rx) + 1, c))
      BY <1>1, <1>4 DEF Follows
    <2>2. PICK l : l = Len(rx) OBVIOUS
    <2>3. l \in 1..Len(rx) /\ l = Len(rx') + 1 BY <1>1, <2>2
    <2>4. Behind(l + 1, c) => Behind(l, c)' BY <1>2, <2>3
    <2> QED BY <2>1, <2>2, <2>3, <2>4 DEF Follows, Newest, Quiet
  <1>5. ASSUME NEW x \in 1..Len(toLinux'), Batch(toLinux'[x]), NEW c, c = toLinux'[x].of PROVE Follows(x, c)'
    BY <1>1, <1>4, <1>5 DEF Order
  <1>6. ASSUME localOffer'["windows"] # None PROVE Follows(Len(toLinux) + 1, localOffer["windows"])'
    <2>1. PICK x, c : x = Len(toLinux) + 1 /\ c = localOffer["windows"] OBVIOUS
    <2>2. Follows(x, c) BY <1>6, <2>1 DEF Order
    <2>3. Follows(x, c)' BY <1>4, <2>2
    <2> QED BY <1>1, <2>1, <2>3
  <1> QED BY <1>1, <1>3, <1>5, <1>6 DEF Order

\* A copy or a crossing is posted behind what waits.
LEMMA OrderPosted ==
    ASSUME Typed, Order, NEW e \in RxEvents, e.t # "offer", ~Batch(e), rx' = Append(rx, e),
           UNCHANGED <<remoteOffer, localOffer, sending, polled, toLinux>>
    PROVE  Order'
  <1>1. /\ rx \in Seq(RxEvents) /\ Len(rx') = Len(rx) + 1 /\ rx'[Len(rx) + 1] = e /\ Len(rx) \in Nat
        /\ \A y \in 1..Len(rx) : rx'[y] = rx[y]
    BY AppendSeq DEF Typed, Data, LinuxTyped
  <1>2. ASSUME NEW x \in 1..(Len(rx) + 1), NEW c, Behind(x, c) PROVE Behind(x, c)'
    <2>1. Newest(rx', x, c) /\ (Quiet(rx', 1, x) => Quiet(rx, 1, x))
      BY <1>1, <1>2, AppendNewest DEF Behind
    <2> QED BY <1>2, <2>1 DEF Behind, Newest, Quiet
  <1>3. ASSUME NEW x \in 1..Len(rx'), Batch(rx'[x]), NEW c, c = rx'[x].of PROVE Behind(x, c)'
    <2>1. x \in 1..Len(rx) /\ x \in 1..(Len(rx) + 1) /\ rx'[x] = rx[x]
      <3>1. x # Len(rx) + 1 BY <1>1, <1>3
      <3> QED BY <1>1, <3>1
    <2>2. Behind(x, c) BY <1>3, <2>1 DEF Order
    <2> QED BY <1>2, <2>1, <2>2
  <1>4. ASSUME NEW c, Behind(Len(rx) + 1, c) PROVE Behind(Len(rx) + 1, c)'
    <2>1. PICK x : x = Len(rx) + 1 OBVIOUS
    <2>2. Newest(rx', Len(rx') + 1, c) /\ (Quiet(rx', 1, Len(rx') + 1) => Quiet(rx, 1, Len(rx) + 1))
      BY <1>1, <1>4, AppendNewest DEF Behind
    <2> QED BY <1>4, <2>2 DEF Behind, Newest, Quiet
  <1>5. ASSUME NEW x, NEW c, Follows(x, c) PROVE Follows(x, c)'
    BY <1>4, <1>5 DEF Follows, Newest, Quiet
  <1>6. ASSUME NEW x \in 1..Len(toLinux'), Batch(toLinux'[x]), NEW c, c = toLinux'[x].of PROVE Follows(x, c)'
    BY <1>5, <1>6 DEF Order
  <1>7. ASSUME localOffer'["windows"] # None PROVE Follows(Len(toLinux) + 1, localOffer["windows"])'
    <2>1. PICK x, c : x = Len(toLinux) + 1 /\ c = localOffer["windows"] OBVIOUS
    <2>2. Follows(x, c) BY <1>7, <2>1 DEF Order
    <2>3. Follows(x, c)' BY <1>5, <2>2
    <2> QED BY <2>1, <2>3
  <1> QED BY <1>3, <1>6, <1>7 DEF Order

\* A message leaves one queue for the end of the other.
LEMMA OrderReceived == ASSUME Typed, Order, Receive PROVE Order'
  <1>0. /\ toLinux # << >> /\ rx' = Append(rx, Head(toLinux)) /\ toLinux' = Tail(toLinux)
        /\ UNCHANGED <<remoteOffer, localOffer, sending, polled>>
    BY DEF Receive, windows
  <1>1. /\ Head(toLinux) = toLinux[1] /\ toLinux \in Seq(Messages) /\ Head(toLinux) \in RxEvents
        /\ Len(toLinux') = Len(toLinux) - 1 /\ Len(toLinux) \in Nat \ {0}
        /\ \A y \in 1..Len(toLinux') : toLinux'[y] = toLinux[y + 1]
    BY <1>0, TailSeq, MsgType DEF Typed, Data, WireTyped
  <1>2. /\ rx \in Seq(RxEvents) /\ Len(rx') = Len(rx) + 1 /\ rx'[Len(rx) + 1] = toLinux[1] /\ Len(rx) \in Nat
        /\ \A y \in 1..Len(rx) : rx'[y] = rx[y]
    BY <1>0, <1>1, AppendSeq DEF Typed, Data, LinuxTyped
  <1>8. /\ toLinux[1].t # "offer" =>
              /\ \A c : Newest(rx, Len(rx) + 1, c) => Newest(rx', Len(rx') + 1, c)
              /\ Quiet(rx', 1, Len(rx') + 1) => Quiet(rx, 1, Len(rx) + 1)
        /\ toLinux[1].t = "offer" =>
              Newest(rx', Len(rx') + 1, toLinux[1].of) /\ ~Quiet(rx', 1, Len(rx') + 1)
    <2>1. PICK e \in RxEvents : e = Head(toLinux) BY <1>1
    <2>2. rx' = Append(rx, e) /\ e = toLinux[1] BY <1>0, <1>1, <2>1
    <2>3. PICK r, u : r = rx /\ u = rx' OBVIOUS
    <2>4. r \in Seq(RxEvents) /\ u = Append(r, e) BY <1>2, <2>2, <2>3
    <2>5. /\ e.t # "offer" => /\ \A c : Newest(r, Len(r) + 1, c) => Newest(u, Len(u) + 1, c)
                              /\ Quiet(u, 1, Len(u) + 1) => Quiet(r, 1, Len(r) + 1)
          /\ e.t = "offer" => Newest(u, Len(u) + 1, e.of) /\ ~Quiet(u, 1, Len(u) + 1)
      BY <2>4, AppendNewest
    <2> QED BY <2>2, <2>3, <2>5
  <1>3. ASSUME NEW x \in 1..(Len(rx) + 1), NEW c, Behind(x, c) PROVE Behind(x, c)'
    <2>1. Newest(rx', x, c) /\ (Quiet(rx', 1, x) => Quiet(rx, 1, x))
      BY <1>0, <1>1, <1>2, <1>3, AppendNewest DEF Behind
    <2> QED BY <1>0, <1>3, <2>1 DEF Behind, Newest, Quiet
  <1>4. ASSUME NEW x \in 1..Len(rx'), Batch(rx'[x]), NEW c, c = rx'[x].of PROVE Behind(x, c)'
    <2>1. CASE x \in 1..Len(rx)
      <3>1. rx'[x] = rx[x] /\ x \in 1..(Len(rx) + 1) BY <1>2, <2>1
      <3>2. Behind(x, c) BY <1>4, <2>1, <3>1 DEF Order
      <3> QED BY <1>3, <3>1, <3>2
    <2>2. CASE x = Len(rx) + 1
      <3>1. 1 \in 1..Len(toLinux) /\ Batch(toLinux[1]) /\ c = toLinux[1].of BY <1>1, <1>2, <1>4, <2>2
      <3>2. Follows(1, c) BY <3>1 DEF Order
      <3>3. Behind(x, c) BY <2>2, <3>2 DEF Follows, Quiet
      <3> QED BY <1>2, <1>3, <2>2, <3>3
    <2> QED BY <1>2, <2>1, <2>2
  <1>5. ASSUME NEW x \in 1..Len(toLinux), NEW c, Follows(x + 1, c) PROVE Follows(x, c)'
    <2>1. Newest(toLinux', x, c) BY <1>0, <1>1, <1>5, TailNewest DEF Follows
    <2>2. ASSUME Quiet(toLinux', 1, x) PROVE Behind(Len(rx) + 1, c)'
      <3>1. CASE toLinux[1].t = "offer"
        <4>1. toLinux[1].of = c BY <1>0, <1>1, <1>5, <2>2, <3>1, TailNewest DEF Follows
        <4>2. Newest(rx', Len(rx') + 1, c) /\ ~Quiet(rx', 1, Len(rx') + 1)
          BY <1>8, <3>1, <4>1
        <4> QED BY <4>2 DEF Behind, Newest, Quiet
      <3>2. CASE toLinux[1].t # "offer"
        <4>1. Quiet(toLinux, 1, x + 1) BY <1>0, <1>1, <2>2, <3>2, TailNewest
        <4>2. Behind(Len(rx) + 1, c) BY <1>5, <4>1 DEF Follows
        <4>3. Newest(rx', Len(rx') + 1, c) /\ (Quiet(rx', 1, Len(rx') + 1) => Quiet(rx, 1, Len(rx) + 1))
          BY <1>8, <3>2, <4>2 DEF Behind
        <4> QED BY <1>0, <4>2, <4>3 DEF Behind, Newest, Quiet
      <3> QED BY <3>1, <3>2
    <2> QED BY <2>1, <2>2 DEF Follows, Newest, Quiet
  <1>6. ASSUME NEW x \in 1..Len(toLinux'), Batch(toLinux'[x]), NEW c, c = toLinux'[x].of PROVE Follows(x, c)'
    <2>1. x + 1 \in 1..Len(toLinux) /\ x \in 1..Len(toLinux) /\ toLinux'[x] = toLinux[x + 1] BY <1>1
    <2>2. Follows(x + 1, c) BY <1>6, <2>1 DEF Order
    <2> QED BY <1>5, <2>1, <2>2
  <1>7. ASSUME localOffer'["windows"] # None PROVE Follows(Len(toLinux) + 1, localOffer["windows"])'
    <2>1. PICK x, c : x = Len(toLinux) /\ c = localOffer["windows"] OBVIOUS
    <2>2. x \in 1..Len(toLinux) /\ x = Len(toLinux') + 1 BY <1>1, <2>1
    <2>3. Follows(x + 1, c) BY <1>0, <1>7, <2>1 DEF Order
    <2>4. Follows(x, c)' BY <1>5, <2>2, <2>3
    <2> QED BY <1>0, <2>1, <2>2, <2>4
  <1> QED BY <1>0, <1>4, <1>6, <1>7 DEF Order

\* The send loop appends what it offers, and the batch it has on offer.
LEMMA OrderLoop == ASSUME Typed, Order, Loop, link = "up", UNCHANGED faults, faults \in Nat PROVE Order'
  <1>0. "windows" \in Sides /\ localOffer \in [Sides -> Maybe] /\ toLinux \in Seq(Messages) /\ Len(toLinux) \in Nat
    BY DEF Sides, Typed, Data, Held, WireTyped
  <1>1. UNCHANGED <<rx, remoteOffer>>
    BY DEF Loop, TakePull, Poll, SendLoop, FilesSent, FilesGivenUp, Sending, Stale, OfferPolled, SendPolled, Decide,
       near, linux
  <1>2. \A f : ~Fault(f) BY DEF Fault
  <1>3. ASSUME NEW x, NEW c, Behind(x, c) PROVE Behind(x, c)'
    BY <1>1, <1>3 DEF Behind, Newest, Quiet
  <1>4. ASSUME UNCHANGED toLinux, NEW x, NEW c, Follows(x, c) PROVE Follows(x, c)'
    BY <1>1, <1>4 DEF Follows, Behind, Newest, Quiet
  <1>5. ASSUME NEW m \in Messages, ToLinux(m), NEW x \in 1..(Len(toLinux) + 1), NEW c, Follows(x, c)
        PROVE  Follows(x, c)'
    <2>1. toLinux' = Append(toLinux, m) BY <1>5 DEF ToLinux
    <2>2. Newest(toLinux', x, c) /\ (Quiet(toLinux', 1, x) => Quiet(toLinux, 1, x))
      BY <1>0, <1>5, <2>1, AppendNewest DEF Follows
    <2> QED BY <1>1, <1>5, <2>2 DEF Follows, Behind, Newest, Quiet
  <1>6. CASE TakePull \/ Poll \/ FilesGivenUp \/ Stale
    <2>1. UNCHANGED <<toLinux, localOffer>>
      BY <1>6 DEF TakePull, Poll, SendLoop, FilesGivenUp, Stale
    <2>2. sending' # None => polled' = None /\ sending' = localOffer'["windows"]
      BY <1>6 DEF TakePull, Poll, SendLoop, FilesGivenUp, Stale, Sending, Decide, Order
    <2>3. ASSUME NEW x \in 1..Len(toLinux'), Batch(toLinux'[x]), NEW c, c = toLinux'[x].of PROVE Follows(x, c)'
      BY <1>4, <2>1, <2>3 DEF Order
    <2>4. ASSUME localOffer'["windows"] # None PROVE Follows(Len(toLinux) + 1, localOffer["windows"])'
      <3>1. PICK x, c : x = Len(toLinux) + 1 /\ c = localOffer["windows"] OBVIOUS
      <3>2. Follows(x, c) BY <2>1, <2>4, <3>1 DEF Order
      <3>3. Follows(x, c)' BY <1>4, <2>1, <3>2
      <3> QED BY <2>1, <3>1, <3>3
    <2> QED BY <1>1, <1>3, <2>2, <2>3, <2>4 DEF Order
  <1>7. CASE FilesSent \/ OfferPolled \/ SendPolled
    <2>1. PICK m \in Messages :
             /\ ToLinux(m)
             /\ \/ m.t = "data" /\ m.of = sending /\ sending # None /\ localOffer'["windows"] = None
                \/ ~Batch(m) /\ m.t # "offer" /\ localOffer'["windows"] = None
                \/ m.t = "offer" /\ localOffer'["windows"] = m.of
      <3>1. CASE FilesSent
        <4>1. sending \in Contents BY <3>1 DEF FilesSent, Sending, Typed, Data, WindowsTyped, Maybe
        <4>2. Msg("data", sending) \in Messages BY <4>1, MsgType
        <4> QED BY <1>0, <3>1, <4>2 DEF FilesSent, Sending, Msg
      <3>2. CASE OfferPolled \/ SendPolled
        <4>1. polled \in Contents BY <3>2 DEF OfferPolled, SendPolled, Decide, Typed, Data, WindowsTyped, Maybe
        <4>2. Msg("offer", polled) \in Messages /\ Msg("data", polled) \in Messages BY <4>1, MsgType
        <4>3. CASE OfferPolled BY <1>0, <1>2, <4>2, <4>3 DEF OfferPolled, Msg
        <4>4. CASE SendPolled BY <1>0, <1>2, <4>2, <4>4 DEF SendPolled, Msg, Batch
        <4> QED BY <3>2, <4>3, <4>4
      <3> QED BY <1>7, <3>1, <3>2
    <2>2. sending' = None
      BY <1>7 DEF FilesSent, Sending, OfferPolled, SendPolled, Decide, Order
    <2>3. /\ toLinux' = Append(toLinux, m) /\ Len(toLinux') = Len(toLinux) + 1 /\ toLinux'[Len(toLinux) + 1] = m
          /\ \A y \in 1..Len(toLinux) : toLinux'[y] = toLinux[y]
      BY <1>0, <2>1, AppendSeq DEF ToLinux
    <2>4. ASSUME NEW x \in 1..Len(toLinux'), Batch(toLinux'[x]), NEW c, c = toLinux'[x].of PROVE Follows(x, c)'
      <3>1. CASE x \in 1..Len(toLinux)
        <4>1. Follows(x, c) /\ x \in 1..(Len(toLinux) + 1) BY <1>0, <2>3, <2>4, <3>1 DEF Order
        <4> QED BY <1>5, <2>1, <4>1
      <3>2. CASE x = Len(toLinux) + 1
        <4>1. m.t = "data" /\ c = sending /\ sending # None BY <2>1, <2>3, <2>4, <3>2 DEF Batch
        <4>2. Follows(x, c) BY <3>2, <4>1 DEF Order
        <4> QED BY <1>0, <1>5, <2>1, <3>2, <4>2
      <3> QED BY <1>0, <2>3, <3>1, <3>2
    <2>5. ASSUME localOffer'["windows"] # None PROVE Follows(Len(toLinux) + 1, localOffer["windows"])'
      <3>1. m.t = "offer" /\ localOffer'["windows"] = m.of BY <2>1, <2>5
      <3>2. Newest(toLinux', Len(toLinux') + 1, m.of) /\ ~Quiet(toLinux', 1, Len(toLinux') + 1)
        BY <1>0, <2>3, <3>1, AppendNewest
      <3> QED BY <3>1, <3>2 DEF Follows, Newest, Quiet
    <2> QED BY <1>1, <1>3, <2>2, <2>4, <2>5 DEF Order
  <1> QED BY <1>6, <1>7 DEF Loop

LEMMA OrderMain == ASSUME Typed, Order, Main, link = "up", UNCHANGED faults, faults \in Nat PROVE link' = "up" /\ Order'
  <1>0. /\ "windows" # "linux" /\ localOffer \in [Sides -> Maybe] /\ remoteOffer \in Offers /\ "windows" \in Sides
    BY DEF Sides, Typed, Data, Held, LinuxTyped
  <1>1. \A f : ~Fault(f) BY DEF Fault
  <1>2. /\ ~LocalFails /\ ~SessionEnds /\ ~Reconnect /\ \A m \in Moving : ~CrossedFails(m)
    BY DEF LocalFails, SessionEnds, Reconnect, CrossedFails, WriteFails
  <1>3. localOffer'["windows"] = localOffer["windows"]
    <2>1. localOffer' = localOffer \/ \E c : localOffer' = [localOffer EXCEPT !["linux"] = c]
      BY <1>2 DEF Main, Skip, NewLocal, OfferFiles, SendText, LocalGone, DataArrives, DataFails, OfferArrives, Crossed
    <2> QED BY <1>0, <2>1
  <1>4. CASE Skip \/ OfferFiles \/ SendText \/ LocalGone
    <2>1. Handle("copied") /\ UNCHANGED <<remoteOffer, link>>
      BY <1>1, <1>4 DEF Skip, NewLocal, OfferFiles, SendText, LocalGone, Write, GivenUp
    <2> QED BY <1>3, <2>1, OrderTaken
  <1>5. CASE DataArrives \/ DataFails
    <2>1. Handle("data") /\ UNCHANGED link /\ remoteOffer'.of \in {remoteOffer.of, None}
      BY <1>5 DEF DataArrives, DataFails, Recorded, NoOffer
    <2> QED BY <1>3, <2>1, OrderTaken
  <1>6. CASE OfferArrives
    <2>1. Handle("offer") /\ UNCHANGED link /\ remoteOffer'.of = Event BY <1>6 DEF OfferArrives
    <2> QED BY <1>3, <2>1, OrderTaken
  <1>7. ASSUME NEW m \in Moving, Crossed(m) PROVE link' = "up" /\ Order'
    <2>1. Handle(m) /\ m # "offer" /\ UNCHANGED link BY <1>1, <1>7 DEF Crossed, Control, Write, Moving
    <2>2. remoteOffer'.of = remoteOffer.of BY <1>0, <1>7 DEF Crossed, Requested, Offers
    <2> QED BY <1>3, <2>1, <2>2, OrderTaken
  <1> QED BY <1>2, <1>4, <1>5, <1>6, <1>7 DEF Main

LEMMA FaultsGrow == ASSUME [Next]_vars PROVE faults' \in {faults, faults + 1}
  BY DEF Next, Watch, Receive, Main, Skip, NewLocal, OfferFiles, SendText, LocalFails, LocalGone, DataArrives, DataFails,
     OfferArrives, SessionEnds, Reconnect, Crossed, CrossedFails, GivenUp, Reader, ReadData, ReadOffer, ReadPull, Read,
     Applier, ApplySet, ApplyRecord, ApplyFails, Loop, TakePull, Poll, SendLoop, FilesSent, FilesGivenUp, Stale,
     OfferPolled, SendPolled, Moves, Calm, Fault, User, Copy, Move, LinkLost, vars

LEMMA NextRight == Typed /\ Right /\ [Next]_vars => Right'
  <1> SUFFICES ASSUME Typed, Right, [Next]_vars PROVE Right' OBVIOUS
  <1>0. faults \in Nat BY DEF Right
  <1>1. faults' \in {faults, faults + 1} BY FaultsGrow
  <1> SUFFICES ASSUME faults' = 0 PROVE link' = "up" /\ Order'
    BY <1>0, <1>1 DEF Right
  <1>2. UNCHANGED faults /\ faults = 0 /\ link = "up" /\ Order BY <1>0, <1>1 DEF Right
  <1>3. \A f : ~Fault(f) BY <1>0, <1>2 DEF Fault
  <1>4. CASE Watch \/ \E m \in Moving : Move(m)
    <2>1. PICK e \in RxEvents : e.t # "offer" /\ ~Batch(e) /\ rx' = Append(rx, e)
      <3>1. CASE Watch
        <4>1. clip["linux"] \in Contents BY <3>1 DEF Watch, Typed, Data, Held, Sides, Maybe
        <4> QED BY <3>1, <4>1, MsgType DEF Watch, Msg, Batch
      <3>2. CASE \E m \in Moving : Move(m)
        BY <3>2, MsgType DEF Move, Msg, Batch, Moving
      <3> QED BY <1>4, <3>1, <3>2
    <2>2. UNCHANGED <<remoteOffer, localOffer, sending, polled, toLinux, link>>
      BY <1>4 DEF Watch, Move, windows
    <2> QED BY <1>2, <2>1, <2>2, OrderPosted
  <1>5. CASE Receive BY <1>2, <1>5, OrderReceived DEF Receive
  <1>6. CASE Main BY <1>0, <1>2, <1>6, OrderMain
  <1>7. CASE Loop
    <2>1. UNCHANGED link
      BY <1>7 DEF Loop, TakePull, Poll, SendLoop, FilesSent, FilesGivenUp, Sending, Stale, OfferPolled, SendPolled, Decide,
         near, linux
    <2> QED BY <1>0, <1>2, <1>7, <2>1, OrderLoop
  <1>8. CASE Reader \/ Applier \/ (\E s \in Sides, f \in Names : Copy(s, f)) \/ UNCHANGED vars
    <2>1. UNCHANGED <<rx, toLinux, remoteOffer, localOffer, sending, polled, link>>
      BY <1>8 DEF Reader, ReadData, ReadOffer, ReadPull, Read, Applier, ApplySet, ApplyRecord, ApplyFails, Copy,
         near, linux, windows, vars
    <2> QED BY <1>2, <2>1 DEF Order, Follows, Behind, Newest, Quiet
  <1>9. ~LinkLost BY <1>3 DEF LinkLost
  <1> QED BY <1>4, <1>5, <1>6, <1>7, <1>8, <1>9 DEF Next, User

\* Unless a connection or a transfer fails: whatever is copied and pulled meanwhile, a batch that
\* arrives is the one on offer.
THEOREM RightOneArrives == Spec => RightBatch
  <1>1. Typed /\ Right => (DataArrives /\ Lazy(Event) /\ faults = 0 => remoteOffer.of \in {Event, None})
    <2> SUFFICES ASSUME Typed, Right, DataArrives, Lazy(Event), faults = 0
                 PROVE  remoteOffer.of \in {Event, None}
      OBVIOUS
    <2>1. rx # << >> /\ rx[1].t = "data" /\ Event = rx[1].of /\ 1 \in 1..Len(rx)
      BY TailSeq DEF DataArrives, Handle, Event, Typed, Data, LinuxTyped
    <2>2. Behind(1, rx[1].of) BY <2>1 DEF Right, Order, Batch
    <2> QED BY <2>1, <2>2 DEF Behind, Quiet
  <1>2. Typed /\ Right /\ [Next]_vars
            => [DataArrives /\ Lazy(Event) /\ faults = 0 => remoteOffer.of \in {Event, None}]_vars
    BY <1>1
  <1> QED BY <1>2, InitTyped, NextTyped, InitRight, NextRight, PTL DEF Spec, RightBatch

-----------------------------------------------------------------------------
(* Pulls are answered.  While the offer that was requested still stands on   *)
(* both sides, with no other on the way, the newest PULL is for it: in       *)
(* flight, left for the send loop, or taken by it.                           *)

NoPull(s) == \A z \in 1..Len(s) : s[z].t # "pull"
NewestPull(s, c) == \E y \in 1..Len(s) : /\ s[y].t = "pull" /\ s[y].of = c
                                         /\ \A z \in (y + 1)..Len(s) : s[z].t # "pull"
Coming(c) == \/ NewestPull(toWindows, c)
             \/ NoPull(toWindows) /\ IF pullRequest # None THEN pullRequest = c ELSE sending = c
Standing == /\ remoteOffer.of = localOffer["windows"]
            /\ Quiet(rx, 1, Len(rx) + 1) /\ Quiet(toLinux, 1, Len(toLinux) + 1)
Answer == remoteOffer.requested => remoteOffer.of # None /\ (Standing => Coming(remoteOffer.of))
AnswerInv == faults = 0 => Answer

LEMMA ConcatPull ==
    ASSUME NEW S, NEW s \in Seq(S), NEW u \in Seq(S), NEW v, v = s \o u, NEW c
    PROVE  /\ NoPull(u) /\ NewestPull(s, c) => NewestPull(v, c)
           /\ NoPull(u) /\ NoPull(s) => NoPull(v)
           /\ NewestPull(u, c) => NewestPull(v, c)
  <1>1. /\ Len(v) = Len(s) + Len(u) /\ Len(s) \in Nat /\ Len(u) \in Nat
        /\ \A x \in 1..Len(s) : v[x] = s[x]
        /\ \A x \in 1..Len(u) : v[Len(s) + x] = u[x]
    OBVIOUS
  <1>2. \A x \in 1..Len(v) : x \in 1..Len(s) \/ (x - Len(s) \in 1..Len(u) /\ v[x] = u[x - Len(s)])
    <2> SUFFICES ASSUME NEW x \in 1..Len(v), x \notin 1..Len(s)
                 PROVE  x - Len(s) \in 1..Len(u) /\ v[x] = u[x - Len(s)]
      OBVIOUS
    <2>1. x - Len(s) \in 1..Len(u) /\ Len(s) + (x - Len(s)) = x BY <1>1
    <2> QED BY <1>1, <2>1
  <1>3. ASSUME NoPull(u), NewestPull(s, c) PROVE NewestPull(v, c)
    <2>1. PICK y \in 1..Len(s) : s[y].t = "pull" /\ s[y].of = c /\ \A z \in (y + 1)..Len(s) : s[z].t # "pull"
      BY <1>3 DEF NewestPull
    <2>2. ASSUME NEW z \in (y + 1)..Len(v) PROVE v[z].t # "pull"
      <3>1. z \in 1..Len(v) BY <1>1
      <3>2. CASE z \in 1..Len(s)
        <4>1. z \in (y + 1)..Len(s) BY <3>2
        <4> QED BY <1>1, <2>1, <3>2, <4>1
      <3>3. CASE z - Len(s) \in 1..Len(u) /\ v[z] = u[z - Len(s)] BY <1>3, <3>3 DEF NoPull
      <3> QED BY <1>2, <3>1, <3>2, <3>3
    <2>3. y \in 1..Len(v) /\ v[y] = s[y] BY <1>1
    <2> QED BY <2>1, <2>2, <2>3 DEF NewestPull
  <1>4. ASSUME NoPull(u), NoPull(s) PROVE NoPull(v)
    BY <1>1, <1>2, <1>4 DEF NoPull
  <1>5. ASSUME NewestPull(u, c) PROVE NewestPull(v, c)
    <2>1. PICK y \in 1..Len(u) : u[y].t = "pull" /\ u[y].of = c /\ \A z \in (y + 1)..Len(u) : u[z].t # "pull"
      BY <1>5 DEF NewestPull
    <2>2. PICK x : x = Len(s) + y OBVIOUS
    <2>3. x \in 1..Len(v) /\ v[x] = u[y] /\ x \in Nat BY <1>1, <2>2
    <2>4. ASSUME NEW z \in (x + 1)..Len(v) PROVE v[z].t # "pull"
      <3>1. z \in 1..Len(v) /\ z \notin 1..Len(s) /\ z - Len(s) \in (y + 1)..Len(u) BY <1>1, <2>2, <2>3
      <3> QED BY <1>2, <2>1, <3>1
    <2> QED BY <2>1, <2>3, <2>4 DEF NewestPull
  <1> QED BY <1>3, <1>4, <1>5

LEMMA TailPull ==
    ASSUME NEW S, NEW s \in Seq(S), s # << >>, NEW u, u = Tail(s), NEW c
    PROVE  /\ s[1].t # "pull" /\ NewestPull(s, c) => NewestPull(u, c)
           /\ NoPull(s) => NoPull(u)
           /\ NewestPull(s, c) => NewestPull(u, c) \/ (NoPull(u) /\ s[1].of = c)
  <1>1. /\ Len(u) = Len(s) - 1 /\ Len(s) \in Nat \ {0}
        /\ \A x \in 1..Len(u) : u[x] = s[x + 1]
    BY TailSeq
  <1>2. NoPull(s) => NoPull(u)
    <2>1. \A x \in 1..Len(u) : x + 1 \in 1..Len(s) BY <1>1
    <2> QED BY <1>1, <2>1 DEF NoPull
  <1>3. ASSUME NEW y \in 1..Len(s), s[y].t = "pull", s[y].of = c, \A z \in (y + 1)..Len(s) : s[z].t # "pull"
        PROVE  IF y = 1 THEN NoPull(u) ELSE NewestPull(u, c)
    <2>1. \A z \in y..Len(u) : u[z] = s[z + 1] /\ z + 1 \in (y + 1)..Len(s) BY <1>1
    <2>2. \A z \in y..Len(u) : u[z].t # "pull" BY <1>3, <2>1
    <2>3. CASE y = 1 BY <2>2, <2>3 DEF NoPull
    <2>4. CASE y # 1
      <3>1. PICK x : x = y - 1 OBVIOUS
      <3>2. x \in 1..Len(u) /\ u[x] = s[y] /\ x + 1 = y BY <1>1, <2>4, <3>1
      <3>3. NewestPull(u, c) BY <1>3, <2>2, <3>2 DEF NewestPull
      <3> QED BY <2>4, <3>3
    <2> QED BY <2>3, <2>4
  <1>4. NewestPull(s, c) => NewestPull(u, c) \/ (NoPull(u) /\ s[1].t = "pull" /\ s[1].of = c)
    BY <1>3 DEF NewestPull
  <1> QED BY <1>2, <1>4

\* With the same PULLs on the way, an answer is still coming.
LEMMA ComingKept ==
    ASSUME NEW c, Coming(c), NewestPull(toWindows, c) => NewestPull(toWindows, c)',
           NoPull(toWindows) => NoPull(toWindows)', UNCHANGED <<pullRequest, sending>>
    PROVE  Coming(c)'
  BY DEF Coming

\* The Linux main loop takes an event other than an offer.
LEMMA StandingTaken ==
    ASSUME Typed, NEW kind, Handle(kind), kind # "offer", remoteOffer'.of = remoteOffer.of,
           localOffer'["windows"] = localOffer["windows"], Standing'
    PROVE  Standing
  <1>1. /\ UNCHANGED toLinux /\ rx' = Tail(rx) /\ rx # << >> /\ rx \in Seq(RxEvents)
        /\ Head(rx) = rx[1] /\ rx[1].t = kind /\ Len(rx') = Len(rx) - 1 /\ Len(rx) \in Nat \ {0}
        /\ Len(rx) \in 1..Len(rx)
    BY HandleData, TailSeq DEF Typed, Data, LinuxTyped
  <1>2. PICK l : l = Len(rx) /\ Len(rx') + 1 = l BY <1>1
  <1>3. Quiet(rx', 1, l) BY <1>2 DEF Standing, Quiet
  <1>4. Quiet(rx, 1, l + 1) BY <1>1, <1>2, <1>3, TailNewest
  <1> QED BY <1>1, <1>2, <1>4 DEF Standing, Quiet

LEMMA AnswerMain == ASSUME Typed, Answer, Main, link = "up", UNCHANGED faults, faults \in Nat PROVE Answer'
  <1>0. /\ "windows" # "linux" /\ localOffer \in [Sides -> Maybe] /\ remoteOffer \in Offers /\ "windows" \in Sides
        /\ toWindows \in Seq(Messages)
    BY DEF Sides, Typed, Data, Held, LinuxTyped, WireTyped
  <1>1. \A f : ~Fault(f) BY DEF Fault
  <1>2. /\ ~LocalFails /\ ~SessionEnds /\ ~Reconnect /\ ~LocalGone /\ ~DataFails /\ \A m \in Moving : ~CrossedFails(m)
    BY <1>1 DEF LocalFails, SessionEnds, Reconnect, CrossedFails, WriteFails, LocalGone, DataFails
  <1>3. localOffer'["windows"] = localOffer["windows"]
    <2>1. localOffer' = localOffer \/ \E c : localOffer' = [localOffer EXCEPT !["linux"] = c]
      BY <1>2 DEF Main, Skip, NewLocal, OfferFiles, SendText, DataArrives, OfferArrives, Crossed
    <2> QED BY <1>0, <2>1
  <1>4. ASSUME NEW kind, Handle(kind), kind # "offer", UNCHANGED remoteOffer,
               NEW u \in Seq(Messages), NoPull(u), toWindows' = toWindows \o u
        PROVE  Answer'
    <2> SUFFICES ASSUME remoteOffer.requested, Standing' PROVE Coming(remoteOffer.of)'
      BY <1>4 DEF Answer
    <2>1. Standing BY <1>3, <1>4, StandingTaken
    <2>2. UNCHANGED <<pullRequest, sending>> BY <1>4 DEF Handle, windows
    <2>3. PICK c : c = remoteOffer.of OBVIOUS
    <2>4. Coming(c) BY <2>1, <2>3 DEF Answer
    <2>5. Coming(c)' BY <1>0, <1>4, <2>2, <2>4, ConcatPull, ComingKept
    <2> QED BY <1>4, <2>3, <2>5
  <1>5. << >> \in Seq(Messages) /\ NoPull(<< >>) /\ toWindows \o << >> = toWindows BY <1>0 DEF NoPull
  <1>6. ASSUME NEW m \in Messages, m.t # "pull" PROVE <<m>> \in Seq(Messages) /\ NoPull(<<m>>) BY <1>6 DEF NoPull
  <1>7. CASE Skip BY <1>4, <1>5, <1>7 DEF Skip
  <1>8. CASE OfferFiles \/ SendText
    <2>1. Handle("copied") /\ UNCHANGED remoteOffer BY <1>8 DEF NewLocal, OfferFiles, SendText
    <2>2. Msg("offer", Event) \in Messages /\ Msg("data", Event) \in Messages BY <2>1, HandleData, MsgType
    <2>3. PICK m \in Messages : m.t # "pull" /\ Write(<<m>>) BY <1>1, <1>8, <2>2 DEF OfferFiles, SendText, Msg, GivenUp
    <2>4. toWindows' = toWindows \o <<m>> BY <2>3 DEF Write
    <2> QED BY <1>4, <1>6, <2>1, <2>3, <2>4
  <1>9. CASE DataArrives
    <2>1. Handle("data") /\ UNCHANGED toWindows BY <1>9 DEF DataArrives
    <2>2. CASE UNCHANGED remoteOffer BY <1>4, <1>5, <2>1, <2>2
    <2>3. CASE remoteOffer' = NoOffer BY <2>3 DEF Answer, NoOffer
    <2> QED BY <1>9, <2>2, <2>3 DEF DataArrives, Recorded
  <1>10. CASE OfferArrives BY <1>10 DEF OfferArrives, Answer
  <1>11. ASSUME NEW m \in Moving, Crossed(m) PROVE Answer'
    <2>0. Handle(m) /\ m # "offer" /\ remoteOffer' = Requested(m) BY <1>11 DEF Crossed, Control, Moving
    <2>1. PICK u \in Seq(Messages) : NoPull(u) /\ toWindows' = toWindows \o (u \o PullFor(m))
      <3>1. CASE Pushes(m)
        <4>1. localOffer["linux"] \in Contents BY <1>0, <3>1 DEF Pushes, Maybe, Sides
        <4>2. Msg("data", localOffer["linux"]) \in Messages /\ Msg("data", localOffer["linux"]).t # "pull"
          BY <4>1, MsgType DEF Msg
        <4>3. Write(<<Msg("data", localOffer["linux"])>> \o PullFor(m)) BY <1>1, <1>11, <3>1 DEF Crossed
        <4> QED BY <1>6, <4>2, <4>3 DEF Write
      <3>2. CASE ~Pushes(m)
        <4>1. Write(PullFor(m)) BY <1>11, <3>2 DEF Crossed
        <4>2. PullFor(m) \in Seq(Messages)
          <5>1. remoteOffer.of \in Maybe BY <1>0 DEF Offers
          <5>2. Pulls(m) => Msg("pull", remoteOffer.of) \in Messages BY <5>1, MsgType DEF Pulls, Maybe
          <5> QED BY <5>2 DEF PullFor
        <4>3. << >> \o PullFor(m) = PullFor(m) BY <4>2
        <4> QED BY <1>5, <4>1, <4>3 DEF Write
      <3> QED BY <3>1, <3>2
    <2>2. CASE Pulls(m)
      <3>1. remoteOffer'.of = remoteOffer.of /\ remoteOffer.of # None BY <1>0, <2>0, <2>2 DEF Requested, Pulls, Offers
      <3>2. PICK c \in Contents : c = remoteOffer.of BY <1>0, <3>1 DEF Offers, Maybe
      <3>3. PICK p \in Messages : p = Msg("pull", c) BY MsgType
      <3>4. p.t = "pull" /\ p.of = c /\ PullFor(m) = <<p>> BY <2>2, <3>2, <3>3 DEF PullFor, Msg
      <3>5. <<p>> \in Seq(Messages) /\ NewestPull(<<p>>, c)
        <4>1. Len(<<p>>) = 1 /\ <<p>>[1] = p /\ 1 \in 1..Len(<<p>>) /\ \A z \in (1 + 1)..Len(<<p>>) : FALSE OBVIOUS
        <4> QED BY <3>4, <4>1 DEF NewestPull
      <3>6. u \o <<p>> \in Seq(Messages) /\ NewestPull(u \o <<p>>, c) BY <3>5, ConcatSeq, ConcatPull
      <3>7. NewestPull(toWindows', c)
        <4>1. PICK v \in Seq(Messages) : v = u \o <<p>> /\ NewestPull(v, c) BY <3>6
        <4>2. toWindows' = toWindows \o v BY <2>1, <3>4, <4>1
        <4> QED BY <1>0, <4>1, <4>2, ConcatPull
      <3> QED BY <3>1, <3>2, <3>7 DEF Answer, Coming, NewestPull
    <2>3. CASE ~Pulls(m)
      <3>1. UNCHANGED remoteOffer /\ PullFor(m) = << >> BY <2>0, <2>3 DEF Requested, PullFor
      <3>2. u \o << >> = u OBVIOUS
      <3> QED BY <1>4, <2>0, <2>1, <3>1, <3>2
    <2> QED BY <2>2, <2>3
  <1> QED BY <1>2, <1>7, <1>8, <1>9, <1>10, <1>11 DEF Main

\* The reader takes the PULLs in order, and leaves the last one for the send loop.
LEMMA AnswerReader == ASSUME Typed, Answer, Reader PROVE Answer'
  <1>1. PICK kind : Read(kind) /\ (kind # "pull" => UNCHANGED pullRequest)
                    /\ (kind = "pull" => pullRequest' = Head(toWindows).of)
                    /\ (kind = "pull" => ~Blocked) /\ kind \in {"data", "offer", "pull"}
    BY DEF Reader, ReadData, ReadOffer, ReadPull
  <1>2. /\ UNCHANGED <<remoteOffer, localOffer, rx, toLinux, sending>>
        /\ toWindows # << >> /\ toWindows' = Tail(toWindows) /\ Head(toWindows).t = kind
    BY <1>1 DEF Read, near, linux
  <1>3. toWindows \in Seq(Messages) /\ Head(toWindows) = toWindows[1] /\ Head(toWindows) \in Messages
        /\ Len(toWindows) \in Nat \ {0}
    BY <1>2, TailSeq DEF Typed, Data, WireTyped
  <1> SUFFICES ASSUME remoteOffer.requested, remoteOffer.of # None, Standing, NEW c, c = remoteOffer.of, Coming(c)
               PROVE  Coming(c)'
    BY <1>2 DEF Answer, Standing, Quiet
  <1>4. CASE kind # "pull"
    BY <1>1, <1>2, <1>3, <1>4, TailPull, ComingKept
  <1>5. CASE kind = "pull"
    <2>1. ~NoPull(toWindows) BY <1>2, <1>3, <1>5 DEF NoPull
    <2>2. NewestPull(toWindows, c) BY <2>1 DEF Coming
    <2>3. NewestPull(toWindows', c) \/ (NoPull(toWindows') /\ toWindows[1].of = c)
      BY <1>2, <1>3, <2>2, TailPull
    <2> QED BY <1>1, <1>3, <1>5, <2>3 DEF Coming, NewestPull, NoPull
  <1> QED BY <1>4, <1>5

LEMMA AnswerLoop == ASSUME Typed, Answer, Loop, link = "up", UNCHANGED faults, faults \in Nat PROVE Answer'
  <1>0. "windows" \in Sides /\ localOffer \in [Sides -> Maybe] /\ toLinux \in Seq(Messages) /\ Len(toLinux) \in Nat
    BY DEF Sides, Typed, Data, Held, WireTyped
  <1>1. UNCHANGED <<rx, remoteOffer, toWindows>>
    BY DEF Loop, TakePull, Poll, SendLoop, FilesSent, FilesGivenUp, Sending, Stale, OfferPolled, SendPolled, Decide,
       near, linux
  <1>2. \A f : ~Fault(f) BY DEF Fault
  <1>3. CASE FilesSent \/ SendPolled
    <2>1. localOffer'["windows"] = None BY <1>0, <1>3 DEF FilesSent, SendPolled
    <2> QED BY <1>1, <2>1 DEF Answer, Standing
  <1>4. CASE OfferPolled
    <2>1. PICK m \in Messages : m.t = "offer" /\ ToLinux(m)
      <3>1. polled \in Contents BY <1>4 DEF OfferPolled, Decide, Typed, Data, WindowsTyped, Maybe
      <3> QED BY <1>2, <1>4, <3>1, MsgType DEF OfferPolled, Msg
    <2>2. toLinux' = Append(toLinux, m) BY <2>1 DEF ToLinux
    <2>3. ~Quiet(toLinux', 1, Len(toLinux') + 1) BY <1>0, <2>1, <2>2, AppendNewest
    <2>4. ~Standing' BY <2>3 DEF Standing, Quiet
    <2> QED BY <1>1, <2>4 DEF Answer
  <1>5. CASE Poll \/ Stale
    <2>1. UNCHANGED <<localOffer, toLinux, pullRequest, sending>> BY <1>5 DEF Poll, SendLoop, Stale, Decide
    <2> QED BY <1>1, <2>1 DEF Answer, Standing, Coming, NewestPull, NoPull, Quiet
  <1>6. CASE TakePull
    <2>1. UNCHANGED <<localOffer, toLinux>> /\ pullRequest # None /\ pullRequest' = None
          /\ sending' = IF pullRequest = localOffer["windows"] THEN pullRequest ELSE None
      BY <1>6 DEF TakePull, SendLoop
    <2> SUFFICES ASSUME remoteOffer.requested, remoteOffer.of # None, Standing, NEW c, c = remoteOffer.of, Coming(c)
                 PROVE  Coming(c)'
      BY <1>1, <2>1 DEF Answer, Standing, Quiet
    <2>2. CASE NewestPull(toWindows, c) BY <1>1, <2>2 DEF Coming, NewestPull
    <2>3. CASE NoPull(toWindows) /\ pullRequest = c
      <3>1. sending' = c BY <2>1, <2>3 DEF Standing
      <3> QED BY <1>1, <2>1, <2>3, <3>1 DEF Coming, NoPull
    <2> QED BY <2>1, <2>2, <2>3 DEF Coming
  <1>7. CASE FilesGivenUp
    <2>1. UNCHANGED <<localOffer, toLinux, pullRequest>> /\ Blocked
      BY <1>2, <1>7 DEF FilesGivenUp, Sending
    <2>2. ~NoPull(toWindows)
      <3>1. toWindows # << >> /\ toWindows \in Seq(Messages) BY <2>1 DEF Blocked, Typed, Data, WireTyped
      <3>2. 1 \in 1..Len(toWindows) /\ toWindows[1] = Head(toWindows) BY <3>1, TailSeq
      <3> QED BY <2>1, <3>2 DEF NoPull, Blocked
    <2> QED BY <1>1, <2>1, <2>2 DEF Answer, Standing, Coming, NewestPull, NoPull, Quiet
  <1> QED BY <1>3, <1>4, <1>5, <1>6, <1>7 DEF Loop

\* Events that are posted, and frames that are read, hide no offer.
LEMMA AnswerPosted ==
    ASSUME Typed, Answer, UNCHANGED <<remoteOffer, localOffer, sending, pullRequest, toWindows>>,
           NEW e \in RxEvents, rx' = Append(rx, e),
           \/ UNCHANGED toLinux /\ e.t # "offer"
           \/ toLinux # << >> /\ e = toLinux[1] /\ toLinux' = Tail(toLinux)
    PROVE  Answer'
  <1>1. rx \in Seq(RxEvents) /\ toLinux \in Seq(Messages) /\ Len(toLinux) \in Nat
    BY DEF Typed, Data, LinuxTyped, WireTyped
  <1>2. PICK r, u : r = rx /\ u = rx' OBVIOUS
  <1>3. /\ e.t # "offer" /\ Quiet(u, 1, Len(u) + 1) => Quiet(r, 1, Len(r) + 1)
        /\ e.t = "offer" => ~Quiet(u, 1, Len(u) + 1)
    BY <1>1, <1>2, AppendNewest
  <1>4. Standing' => Standing
    <2> SUFFICES ASSUME Standing' PROVE Standing OBVIOUS
    <2>1. Quiet(u, 1, Len(u) + 1) BY <1>2 DEF Standing, Quiet
    <2>2. e.t # "offer" /\ Quiet(rx, 1, Len(rx) + 1) BY <1>2, <1>3, <2>1
    <2>3. CASE UNCHANGED toLinux BY <2>2, <2>3 DEF Standing, Quiet
    <2>4. CASE toLinux # << >> /\ e = toLinux[1] /\ toLinux' = Tail(toLinux)
      <3>1. PICK l : l = Len(toLinux) OBVIOUS
      <3>2. l \in 1..Len(toLinux) /\ Len(toLinux') + 1 = l BY <1>1, <2>4, <3>1, TailSeq
      <3>3. Quiet(toLinux', 1, l) BY <3>2 DEF Standing, Quiet
      <3>4. Quiet(toLinux, 1, l + 1) BY <1>1, <2>2, <2>4, <3>2, <3>3, TailNewest
      <3> QED BY <2>2, <3>1, <3>4 DEF Standing
    <2> QED BY <2>3, <2>4
  <1> QED BY <1>4 DEF Answer, Coming, NewestPull, NoPull

LEMMA NextAnswer == Typed /\ Right /\ AnswerInv /\ [Next]_vars => AnswerInv'
  <1> SUFFICES ASSUME Typed, Right, AnswerInv, [Next]_vars, faults' = 0 PROVE Answer' BY DEF AnswerInv
  <1>1. UNCHANGED faults /\ faults = 0 /\ faults \in Nat /\ link = "up" /\ Answer
    <2>1. faults' \in {faults, faults + 1} BY FaultsGrow
    <2> QED BY <2>1 DEF Right, AnswerInv
  <1>2. \A f : ~Fault(f) BY <1>1 DEF Fault
  <1>3. CASE Watch \/ \E m \in Moving : Move(m)
    <2>1. PICK e \in RxEvents : e.t # "offer" /\ rx' = Append(rx, e)
      <3>1. CASE Watch
        <4>1. clip["linux"] \in Contents BY <3>1 DEF Watch, Typed, Data, Held, Sides, Maybe
        <4> QED BY <3>1, <4>1, MsgType DEF Watch, Msg
      <3>2. CASE \E m \in Moving : Move(m)
        BY <3>2, MsgType DEF Move, Msg, Moving
      <3> QED BY <1>3, <3>1, <3>2
    <2>2. UNCHANGED <<remoteOffer, localOffer, sending, pullRequest, toWindows, toLinux>>
      BY <1>3 DEF Watch, Move, windows
    <2> QED BY <1>1, <2>1, <2>2, AnswerPosted
  <1>4. CASE Receive
    <2>1. /\ toLinux # << >> /\ rx' = Append(rx, toLinux[1]) /\ toLinux' = Tail(toLinux)
          /\ UNCHANGED <<remoteOffer, localOffer, sending, pullRequest, toWindows>>
      BY <1>4, TailSeq DEF Receive, windows, Typed, Data, WireTyped
    <2>2. toLinux[1] \in RxEvents BY <2>1, TailSeq, MsgType DEF Typed, Data, WireTyped
    <2> QED BY <1>1, <2>1, <2>2, AnswerPosted
  <1>5. CASE Main BY <1>1, <1>5, AnswerMain
  <1>6. CASE Reader BY <1>1, <1>6, AnswerReader
  <1>7. CASE Loop BY <1>1, <1>7, AnswerLoop
  <1>8. CASE Applier \/ (\E s \in Sides, f \in Names : Copy(s, f)) \/ UNCHANGED vars
    <2>1. UNCHANGED <<rx, toLinux, toWindows, remoteOffer, localOffer, sending, pullRequest>>
      BY <1>8 DEF Applier, ApplySet, ApplyRecord, ApplyFails, Copy, near, linux, windows, vars
    <2> QED BY <1>1, <2>1 DEF Answer, Standing, Coming, NewestPull, NoPull, Quiet
  <1>9. ~LinkLost BY <1>2 DEF LinkLost
  <1> QED BY <1>3, <1>4, <1>5, <1>6, <1>7, <1>8, <1>9 DEF Next, User

\* Unless a connection or a transfer fails: when nothing is under way, no batch is both
\* requested and still on offer, however pulls, offers and new copies crossed.
THEOREM EveryPullAnswered == Spec => []PullAnswered
  <1>1. Init => AnswerInv BY DEF Init, NoOffer, AnswerInv, Answer
  <1>2. AnswerInv => PullAnswered
    <2> SUFFICES ASSUME Answer, Idle, remoteOffer.requested, localOffer["windows"] = remoteOffer.of PROVE FALSE
      BY DEF AnswerInv, PullAnswered
    <2>1. Len(rx) = 0 /\ Len(toLinux) = 0 /\ Len(toWindows) = 0 /\ pullRequest = None /\ sending = None BY DEF Idle
    <2>2. Standing BY <2>1 DEF Standing, Quiet
    <2>3. Coming(remoteOffer.of) /\ remoteOffer.of # None BY <2>2 DEF Answer
    <2> QED BY <2>1, <2>3 DEF Coming, NewestPull
  <1> QED BY <1>1, <1>2, InitTyped, NextTyped, InitRight, NextRight, NextAnswer, PTL DEF Spec
-----------------------------------------------------------------------------
(* The last copy wins.                                                     *)
(*                                                                         *)
(* A copy that its agent notices, made when nothing was under way, is     *)
(* followed through its stages: not yet looked at, on its way or arrived,  *)
(* or a batch on offer.  Meanwhile everything that moves between the two   *)
(* machines is of this copy: a batch of another that is sent excuses.      *)

RxOf(n) == {m \in RxEvents : /\ m.t = "data" => m.of.name = n
                             /\ m.t = "copied" => m.of = On("linux", n)
                             /\ m.t = "offer" => m.of = On("windows", n)}
ToLinuxOf(n) == Messages \cap RxOf(n)
ToWindowsOf(n) == {m \in Messages : m.t = "data" => m.of.name = n}
FormsOf(n) == {c \in Contents : c.name = n}

\* Everything under way is of the content named n.
Pure(n) == /\ rx \in Seq(RxOf(n)) /\ toLinux \in Seq(ToLinuxOf(n))
           /\ toWindows \in Seq(ToWindowsOf(n)) /\ applyQueue \in Seq(FormsOf(n))
           /\ clip["linux"] \in {None, prev, On("linux", n)}
           /\ polled \in {None, On("windows", n)}
           /\ fresh => clip["windows"] = On("windows", n)

\* What an agent holds out is what it sent or offered last.
OfferKept == \A s \in Sides : localOffer[s] \in {None, lastSent[s]}

\* Copied on Linux: the watcher or the main loop has yet to take it up, and nothing has come
\* back of it ...
NewOnLinux(c) == /\ clip["linux"] # prev \/ Has(rx, "copied")
                 /\ ~Known("linux", c) /\ ~owed
                 /\ ~Has(rx, "data") /\ ~Has(toLinux, "data") /\ ~Has(toWindows, "data")
                 /\ applyQueue = << >> /\ polled = None /\ ~fresh
\* ... or it is on its way or has arrived ...
GoneToWindows(c) == Has(toWindows, "data") \/ applyQueue # << >> \/ clip["windows"].name = c.name
\* ... or it is a batch held out, and a crossing that asks for it is still to be taken.
HeldOnLinux(c) == /\ Lazy(c) /\ localOffer["linux"] = c
                  /\ owed => Has(rx, "remote") \/ Has(rx, "both")

\* Copied on Windows, the same; but the offer must reach Linux before it can be pulled.
NewOnWindows(c) == /\ fresh \/ polled # None
                   /\ ~Known("windows", c) /\ ~owed
                   /\ ~Has(toWindows, "data") /\ applyQueue = << >> /\ applied = None
                   /\ ~Has(rx, "copied") /\ clip["linux"] \in {None, prev}
GoneToLinux(c) == Has(toLinux, "data") \/ Has(rx, "data") \/ clip["linux"].name = c.name
HeldOnWindows(c) == /\ Lazy(c) /\ localOffer["windows"] = c /\ lastSent["windows"] = c
                    /\ Offering \/ remoteOffer.of = c
                    /\ remoteOffer.requested /\ ~Offering => Coming(c)
                    /\ owed => ~Offering /\ (Has(rx, "local") \/ Has(rx, "both") \/ Coming(c))

Stage(s, c) == IF s = "linux" THEN NewOnLinux(c) \/ GoneToWindows(c) \/ HeldOnLinux(c)
               ELSE NewOnWindows(c) \/ GoneToLinux(c) \/ HeldOnWindows(c)
\* The copy of n on machine s is the last, and can be accounted for.
Following(s, n) == /\ last = [side |-> s, of |-> On(s, n)] /\ clip[s] = On(s, n) /\ link = "up"
                   /\ Pure(n) /\ Stage(s, On(s, n))
Accounted == last.of = None \/ \E s \in Sides, n \in Names : last = [side |-> s, of |-> On(s, n)]
WinsInv == Accounted /\ (~excused /\ last.of # None => \E s \in Sides, n \in Names : Following(s, n))

LEMMA Apart ==
    /\ None \notin Contents
    /\ \A s \in Sides : \A n \in Names : On(s, n) \in Contents /\ On(s, n).name = n /\ On(s, n) # None
  <1>1. None.name \notin Names BY ClipSyncAssumption DEF None, Names
  <1>2. None \notin Contents BY <1>1 DEF Contents
  <1> QED BY <1>2, OnType

LEMMA HasAppend ==
    ASSUME NEW S, NEW s \in Seq(S), NEW e \in S, NEW u, u = Append(s, e), NEW t
    PROVE  Has(u, t) <=> Has(s, t) \/ e.t = t
  <1>1. /\ Len(u) = Len(s) + 1 /\ u[Len(s) + 1] = e /\ Len(s) \in Nat
        /\ \A x \in 1..Len(s) : u[x] = s[x]
    BY AppendSeq
  <1>2. Len(s) + 1 \in 1..Len(u) /\ \A x \in 1..Len(u) : x \in 1..Len(s) \/ x = Len(s) + 1 BY <1>1
  <1>3. \A x \in 1..Len(s) : x \in 1..Len(u) BY <1>1
  <1> QED BY <1>1, <1>2, <1>3 DEF Has

LEMMA HasTail ==
    ASSUME NEW S, NEW s \in Seq(S), s # << >>, NEW u, u = Tail(s), NEW t
    PROVE  /\ Has(u, t) => Has(s, t)
           /\ Has(s, t) => Has(u, t) \/ Head(s).t = t
           /\ Head(s).t = t => Has(s, t)
  <1>1. /\ Len(u) = Len(s) - 1 /\ Len(s) \in Nat \ {0} /\ Head(s) = s[1]
        /\ \A x \in 1..Len(u) : u[x] = s[x + 1]
    BY TailSeq
  <1>2. \A x \in 1..Len(u) : x + 1 \in 1..Len(s) BY <1>1
  <1>3. \A x \in 1..Len(s) : x = 1 \/ (x - 1 \in 1..Len(u) /\ (x - 1) + 1 = x) BY <1>1
  <1>4. 1 \in 1..Len(s) BY <1>1
  <1>5. ASSUME NEW x \in 1..Len(s), s[x].t = t PROVE Has(u, t) \/ Head(s).t = t
    <2>1. CASE x = 1 BY <1>1, <1>5, <2>1
    <2>2. CASE x # 1
      <3>1. PICK y : y = x - 1 OBVIOUS
      <3>2. y \in 1..Len(u) /\ u[y] = s[x] BY <1>1, <1>3, <2>2, <3>1
      <3> QED BY <1>5, <3>2 DEF Has
    <2> QED BY <2>1, <2>2
  <1> QED BY <1>1, <1>2, <1>4, <1>5 DEF Has

LEMMA HasConcat ==
    ASSUME NEW S, NEW s \in Seq(S), NEW w \in Seq(S), NEW u, u = s \o w, NEW t
    PROVE  Has(u, t) <=> Has(s, t) \/ Has(w, t)
  <1>1. /\ Len(u) = Len(s) + Len(w) /\ Len(s) \in Nat /\ Len(w) \in Nat
        /\ \A x \in 1..Len(s) : u[x] = s[x]
        /\ \A x \in 1..Len(w) : u[Len(s) + x] = w[x]
    OBVIOUS
  <1>2. ASSUME Has(w, t) PROVE Has(u, t)
    <2>1. PICK x \in 1..Len(w) : w[x].t = t BY <1>2 DEF Has
    <2>2. PICK y : y = Len(s) + x OBVIOUS
    <2>3. y \in 1..Len(u) /\ u[y].t = t BY <1>1, <2>1, <2>2
    <2> QED BY <2>3 DEF Has
  <1>3. ASSUME Has(s, t) PROVE Has(u, t)
    <2>1. PICK x \in 1..Len(s) : s[x].t = t BY <1>3 DEF Has
    <2>2. x \in 1..Len(u) /\ u[x].t = t BY <1>1, <2>1
    <2> QED BY <2>2 DEF Has
  <1>4. ASSUME Has(u, t) PROVE Has(s, t) \/ Has(w, t)
    <2>1. PICK x \in 1..Len(u) : u[x].t = t BY <1>4 DEF Has
    <2>2. CASE x \in 1..Len(s) BY <1>1, <2>1, <2>2 DEF Has
    <2>3. CASE x \notin 1..Len(s)
      <3>1. PICK y : y = x - Len(s) OBVIOUS
      <3>2. y \in 1..Len(w) /\ x = Len(s) + y BY <1>1, <2>3, <3>1
      <3>3. w[y].t = t BY <1>1, <2>1, <3>2
      <3> QED BY <3>2, <3>3 DEF Has
    <2> QED BY <2>2, <2>3
  <1> QED BY <1>2, <1>3, <1>4

LEMMA HasOne ==
    /\ \A t : ~Has(<< >>, t)
    /\ \A m, t : Has(<<m>>, t) <=> m.t = t
  <1>1. \A m : Len(<<m>>) = 1 /\ <<m>>[1] = m /\ 1..Len(<<m>>) = {1} OBVIOUS
  <1> QED BY <1>1 DEF Has

\* No fault, no batch of another copy: then neither is there anything excused before.
LEMMA Undisturbed ==
    ASSUME Typed, [Next]_vars, ~excused', \A s \in Sides, n \in Names : ~Copy(s, n)
    PROVE  last' = last /\ ~excused /\ \A f : ~Fault(f)
  <1>1. \A f : ~Fault(f) BY DEF Fault
  <1>2. last' = last /\ (Calm \/ \E s, c : Moves(s, c))
    <2>1. CASE Main
      BY <1>1, <2>1 DEF Main, Skip, NewLocal, OfferFiles, SendText, LocalFails, LocalGone, DataArrives, DataFails,
         OfferArrives, SessionEnds, Reconnect, Crossed, CrossedFails, Control, Handle, GivenUp, user
    <2>2. CASE Watch \/ Receive \/ Reader \/ Applier
      BY <1>1, <2>2 DEF Watch, Receive, Reader, ReadData, ReadOffer, ReadPull, Read, Applier, ApplySet, ApplyRecord,
         ApplyFails, near, user
    <2>3. CASE Loop
      BY <1>1, <2>3 DEF Loop, TakePull, Poll, SendLoop, FilesSent, FilesGivenUp, Sending, Stale, OfferPolled, SendPolled,
         Decide, near, user
    <2>4. CASE User
      BY <1>1, <2>4 DEF User, Move, LinkLost
    <2>5. CASE UNCHANGED vars
      BY <2>5 DEF vars, user, Calm
    <2> QED BY <2>1, <2>2, <2>3, <2>4, <2>5 DEF Next
  <1>3. ~excused
    <2>1. CASE Calm BY <2>1 DEF Calm
    <2>2. CASE \E s, c : Moves(s, c) BY <2>2 DEF Moves
    <2> QED BY <1>2, <2>1, <2>2
  <1> QED BY <1>1, <1>2, <1>3

\* The Linux main loop takes an event.
LEMMA Takes ==
    ASSUME Typed, NEW n \in Names, Pure(n), NEW kind, Handle(kind)
    PROVE  /\ rx' \in Seq(RxOf(n)) /\ Head(rx) \in RxOf(n) /\ Head(rx).t = kind /\ Has(rx, kind)
           /\ \A t : Has(rx', t) => Has(rx, t)
           /\ \A t : Has(rx, t) => Has(rx', t) \/ t = kind
           /\ UNCHANGED <<prev, windows, toLinux, user>>
  <1>1. rx \in Seq(RxOf(n)) /\ rx # << >> /\ rx' = Tail(rx) /\ Head(rx).t = kind BY DEF Pure, Handle
  <1>2. Tail(rx) \in Seq(RxOf(n)) /\ Head(rx) \in RxOf(n) BY <1>1, TailSeq
  <1>3. PICK r, u : r = rx /\ u = rx' OBVIOUS
  <1>4. \A t : /\ Has(u, t) => Has(r, t)
               /\ Has(r, t) => Has(u, t) \/ Head(r).t = t
               /\ Head(r).t = t => Has(r, t)
    BY <1>1, <1>3, HasTail
  <1> QED BY <1>1, <1>2, <1>3, <1>4 DEF Handle

LEMMA Writes ==
    ASSUME Typed, NEW n \in Names, Pure(n), link = "up", NEW ms \in Seq(ToWindowsOf(n)), Write(ms)
    PROVE  /\ toWindows' \in Seq(ToWindowsOf(n)) /\ toWindows' = toWindows \o ms /\ link' = "up"
           /\ \A t : Has(toWindows', t) <=> Has(toWindows, t) \/ Has(ms, t)
  <1>1. toWindows \in Seq(ToWindowsOf(n)) /\ toWindows' = toWindows \o ms /\ link' = "up" BY DEF Pure, Write
  <1>2. toWindows \o ms \in Seq(ToWindowsOf(n)) BY <1>1, ConcatSeq
  <1>3. PICK s, u : s = toWindows /\ u = toWindows' OBVIOUS
  <1>4. \A t : Has(u, t) <=> Has(s, t) \/ Has(ms, t) BY <1>1, <1>3, HasConcat
  <1> QED BY <1>1, <1>2, <1>3, <1>4

\* What holds of a batch on offer by Windows as long as offers, PULLs and crossings stay.
LEMMA HeldKept ==
    ASSUME NEW c, HeldOnWindows(c), localOffer'["windows"] = localOffer["windows"],
           lastSent'["windows"] = lastSent["windows"], UNCHANGED <<remoteOffer, owed>>,
           Offering' <=> Offering, Coming(c) => Coming(c)',
           Has(rx, "local") => Has(rx', "local") \/ Coming(c)' \/ Offering,
           Has(rx, "both") => Has(rx', "both") \/ Coming(c)' \/ Offering
    PROVE  HeldOnWindows(c)'
  BY DEF HeldOnWindows, Has

LEMMA Follows2 ==
    ASSUME NEW s \in Sides, NEW n \in Names, Following(s, n), last' = last, clip'[s] = clip[s],
           link' = "up", Pure(n)', Stage(s, On(s, n))'
    PROVE  Following(s, n)'
  BY DEF Following, On

\* Linux looks at what was copied there.
LEMMA FollowLocal ==
    ASSUME Typed, NEW s \in Sides, NEW n \in Names, Following(s, n), \A f : ~Fault(f), last' = last,
           Skip \/ OfferFiles \/ SendText
    PROVE  Following(s, n)'
  <1>0. /\ Pure(n) /\ Stage(s, On(s, n)) /\ link = "up" /\ last = [side |-> s, of |-> On(s, n)]
        /\ "linux" \in Sides /\ "windows" \in Sides /\ "linux" # "windows"
        /\ lastSent \in [Sides -> Maybe] /\ localOffer \in [Sides -> Maybe] /\ toWindows \in Seq(Messages)
    BY DEF Following, Sides, Typed, Data, Held, WireTyped
  <1>1. Handle("copied") /\ UNCHANGED <<clip, lastSet, remoteOffer>>
    BY DEF Skip, OfferFiles, SendText, NewLocal
  <1>2. /\ rx' \in Seq(RxOf(n)) /\ Head(rx) \in RxOf(n) /\ Has(rx, "copied")
        /\ \A t : Has(rx', t) => Has(rx, t)
        /\ \A t : Has(rx, t) => Has(rx', t) \/ t = "copied"
        /\ UNCHANGED <<prev, windows, toLinux, user>> /\ Head(rx).t = "copied"
    BY <1>0, <1>1, Takes
  <1>3. Event = On("linux", n) /\ Event \in Contents /\ Event.name = n
    BY <1>0, <1>2, Apart DEF Event, RxOf
  <1>4. PICK ms \in Seq(ToWindowsOf(n)) :
           /\ toWindows' \in Seq(ToWindowsOf(n)) /\ link' = "up"
           /\ \A t : Has(toWindows', t) <=> Has(toWindows, t) \/ Has(ms, t)
           /\ SendText => Has(ms, "data")
           /\ ~SendText => ~Has(ms, "data")
           /\ \A c : Coming(c) => Coming(c)'
    <2>1. UNCHANGED <<pullRequest, sending>> BY <1>2 DEF windows
    <2>2. CASE Skip
      <3>1. UNCHANGED <<toWindows, link>> BY <2>2 DEF Skip
      <3>2. << >> \in Seq(ToWindowsOf(n)) /\ \A t : ~Has(<< >>, t) BY HasOne
      <3>3. \A c : Coming(c) => Coming(c)' BY <2>1, <3>1 DEF Coming, NewestPull, NoPull
      <3>4. ~SendText BY <2>2 DEF Skip, SendText, NewLocal
      <3>5. \A t : Has(toWindows', t) <=> Has(toWindows, t) BY <3>1
      <3> QED BY <1>0, <3>1, <3>2, <3>3, <3>4, <3>5 DEF Pure
    <2>3. ASSUME NEW m \in Messages, m.t # "pull", m.t = "data" => m.of.name = n, Write(<<m>>)
          PROVE  /\ <<m>> \in Seq(ToWindowsOf(n))
                 /\ toWindows' \in Seq(ToWindowsOf(n)) /\ link' = "up"
                 /\ \A t : Has(toWindows', t) <=> Has(toWindows, t) \/ m.t = t
                 /\ \A c : Coming(c) => Coming(c)'
      <3>1. <<m>> \in Seq(ToWindowsOf(n)) BY <2>3 DEF ToWindowsOf
      <3>2. PICK w : w = <<m>> OBVIOUS
      <3>3. /\ toWindows' \in Seq(ToWindowsOf(n)) /\ toWindows' = toWindows \o w /\ link' = "up"
            /\ \A t : Has(toWindows', t) <=> Has(toWindows, t) \/ Has(w, t)
        BY <1>0, <2>3, <3>1, <3>2, Writes
      <3>4. w \in Seq(Messages) /\ NoPull(w) BY <2>3, <3>2 DEF NoPull
      <3>5. \A c : Coming(c) => Coming(c)' BY <1>0, <2>1, <3>3, <3>4, ConcatPull, ComingKept
      <3>6. \A t : Has(w, t) <=> m.t = t BY <3>2, HasOne
      <3> QED BY <3>1, <3>3, <3>5, <3>6
    <2>4. CASE OfferFiles
      <3>1. PICK m \in Messages : m = Msg("offer", Event) /\ m.t = "offer" BY <1>3, MsgType DEF Msg
      <3>2. Write(<<m>>) BY <2>4, <3>1 DEF OfferFiles
      <3>3. ~SendText BY <2>4 DEF OfferFiles, SendText
      <3>4. \A t : Has(<<m>>, t) <=> m.t = t BY HasOne
      <3> QED BY <2>3, <3>1, <3>2, <3>3, <3>4
    <2>5. CASE SendText
      <3>1. PICK m \in Messages : m = Msg("data", Event) /\ m.t = "data" /\ m.of = Event BY <1>3, MsgType DEF Msg
      <3>2. Write(<<m>>) BY <2>5, <3>1 DEF SendText, GivenUp
      <3>4. \A t : Has(<<m>>, t) <=> m.t = t BY HasOne
      <3> QED BY <1>3, <2>3, <2>5, <3>1, <3>2, <3>4
    <2> QED BY <2>2, <2>4, <2>5
  <1>5. Pure(n)' BY <1>0, <1>1, <1>2, <1>4 DEF Pure, windows
  <1>6. localOffer'["windows"] = localOffer["windows"] /\ lastSent'["windows"] = lastSent["windows"]
    BY <1>0 DEF Skip, OfferFiles, SendText
  <1>7. CASE s = "linux"
    <2>1. PICK c : c = On("linux", n) /\ c.name = n BY <1>0, <1>3
    <2>2. CASE NewOnLinux(c)
      <3>1. ~Skip BY <1>3, <2>1, <2>2 DEF Skip, NewOnLinux
      <3>2. SendText => GoneToWindows(c)' BY <1>4 DEF GoneToWindows, Has
      <3>3. ASSUME OfferFiles PROVE HeldOnLinux(c)'
        <4>1. Lazy(c) /\ localOffer'["linux"] = c BY <1>0, <1>3, <2>1, <3>3 DEF OfferFiles
        <4>2. ~owed' BY <1>2, <2>2 DEF user, NewOnLinux
        <4> QED BY <4>1, <4>2 DEF HeldOnLinux, Lazy
      <3> QED BY <1>5, <1>7, <2>1, <3>1, <3>2, <3>3, <1>0, <1>1, <1>4, Follows2 DEF Stage
    <2>3. CASE GoneToWindows(c)
      <3>1. GoneToWindows(c)' BY <1>1, <1>2, <1>4, <2>3 DEF GoneToWindows, windows, Has
      <3> QED BY <1>5, <1>7, <2>1, <3>1, <1>0, <1>1, <1>4, Follows2 DEF Stage
    <2>4. CASE HeldOnLinux(c)
      <3>1. ~SendText BY <1>3, <2>1, <2>4 DEF SendText, HeldOnLinux
      <3>2. localOffer'["linux"] = c BY <1>0, <1>3, <2>1, <2>4, <3>1 DEF Skip, OfferFiles, HeldOnLinux
      <3>3. owed' = owed BY <1>2 DEF user
      <3>4. HeldOnLinux(c)' BY <1>2, <2>4, <3>2, <3>3 DEF HeldOnLinux, Has, Lazy
      <3> QED BY <1>5, <1>7, <2>1, <3>4, <1>0, <1>1, <1>4, Follows2 DEF Stage
    <2> QED BY <1>0, <1>7, <2>1, <2>2, <2>3, <2>4 DEF Stage
  <1>8. CASE s = "windows"
    <2>1. PICK c : c = On("windows", n) BY <1>0
    <2>2. ~NewOnWindows(c) BY <1>2 DEF NewOnWindows
    <2>3. CASE GoneToLinux(c)
      <3>1. GoneToLinux(c)' BY <1>1, <1>2, <2>3 DEF GoneToLinux, Has
      <3> QED BY <1>5, <1>8, <2>1, <3>1, <1>0, <1>1, <1>4, Follows2 DEF Stage
    <2>4. CASE HeldOnWindows(c)
      <3>1. Offering' <=> Offering BY <1>2 DEF Offering, Has
      <3>2. UNCHANGED <<remoteOffer, owed>> BY <1>1, <1>2 DEF user
      <3>3. HeldOnWindows(c)' BY <1>2, <1>4, <1>6, <2>4, <3>1, <3>2, HeldKept
      <3> QED BY <1>5, <1>8, <2>1, <3>3, <1>0, <1>1, <1>4, Follows2 DEF Stage
    <2> QED BY <1>0, <1>8, <2>1, <2>2, <2>3, <2>4 DEF Stage
  <1> QED BY <1>7, <1>8 DEF Sides

\* A transfer arrives on Linux: it is of the last copy.
LEMMA FollowArrival ==
    ASSUME Typed, NEW s \in Sides, NEW n \in Names, Following(s, n), last' = last, DataArrives
    PROVE  Following(s, n)'
  <1>0. /\ Pure(n) /\ Stage(s, On(s, n)) /\ link = "up" /\ last = [side |-> s, of |-> On(s, n)]
        /\ "linux" \in Sides /\ "windows" \in Sides /\ "linux" # "windows" /\ clip[s] = On(s, n)
        /\ clip \in [Sides -> Maybe] /\ lastSet \in [Sides -> Maybe]
    BY DEF Following, Sides, Typed, Data, Held
  <1>1. Handle("data") /\ UNCHANGED <<lastSent, localOffer, link, toWindows>> BY DEF DataArrives
  <1>2. /\ rx' \in Seq(RxOf(n)) /\ Head(rx) \in RxOf(n) /\ Has(rx, "data") /\ Head(rx).t = "data"
        /\ \A t : Has(rx', t) => Has(rx, t)
        /\ \A t : Has(rx, t) => Has(rx', t) \/ t = "data"
        /\ UNCHANGED <<prev, windows, toLinux, user>>
    BY <1>0, <1>1, Takes
  <1>3. Event.name = n BY <1>2 DEF Event, RxOf
  <1>4. clip'["linux"] = On("linux", n) /\ clip'["windows"] = clip["windows"]
    BY <1>0, <1>3 DEF DataArrives, Arrival
  <1>5. Pure(n)' BY <1>0, <1>1, <1>2, <1>4 DEF Pure, windows
  <1>6. clip'[s] = clip[s] BY <1>0, <1>4 DEF Sides
  <1>7. CASE s = "linux"
    <2>1. PICK c : c = On("linux", n) BY <1>0
    <2>2. ~NewOnLinux(c) BY <1>2 DEF NewOnLinux
    <2>3. CASE GoneToWindows(c)
      <3>1. GoneToWindows(c)' BY <1>1, <1>2, <1>4, <2>3 DEF GoneToWindows, windows, Has
      <3> QED BY <1>0, <1>1, <1>5, <1>6, <1>7, <2>1, <3>1, Follows2 DEF Stage
    <2>4. CASE HeldOnLinux(c)
      <3>1. owed' = owed BY <1>2 DEF user
      <3>2. HeldOnLinux(c)' BY <1>1, <1>2, <2>4, <3>1 DEF HeldOnLinux, Has, Lazy
      <3> QED BY <1>0, <1>1, <1>5, <1>6, <1>7, <2>1, <3>2, Follows2 DEF Stage
    <2> QED BY <1>0, <1>7, <2>1, <2>2, <2>3, <2>4 DEF Stage
  <1>8. CASE s = "windows"
    <2>1. PICK c : c = On("windows", n) /\ c.name = n BY <1>0, Apart
    <2>2. clip'["linux"].name = c.name BY <1>0, <1>4, <2>1, Apart
    <2>3. GoneToLinux(c)' BY <2>2 DEF GoneToLinux
    <2> QED BY <1>0, <1>1, <1>5, <1>6, <1>8, <2>1, <2>3, Follows2 DEF Stage
  <1> QED BY <1>7, <1>8 DEF Sides

\* An offer arrives: it is of the last copy, and nothing has asked for it yet.
LEMMA FollowOffer ==
    ASSUME Typed, NEW s \in Sides, NEW n \in Names, Following(s, n), last' = last, OfferArrives
    PROVE  Following(s, n)'
  <1>0. /\ Pure(n) /\ Stage(s, On(s, n)) /\ link = "up" /\ last = [side |-> s, of |-> On(s, n)]
        /\ clip[s] = On(s, n)
    BY DEF Following
  <1>1. Handle("offer") /\ UNCHANGED <<clip, lastSent, lastSet, localOffer, link, toWindows>>
        /\ remoteOffer' = [of |-> Event, requested |-> FALSE]
    BY DEF OfferArrives
  <1>2. /\ rx' \in Seq(RxOf(n)) /\ Head(rx) \in RxOf(n) /\ Has(rx, "offer") /\ Head(rx).t = "offer"
        /\ \A t : Has(rx', t) => Has(rx, t)
        /\ \A t : Has(rx, t) => Has(rx', t) \/ t = "offer"
        /\ UNCHANGED <<prev, windows, toLinux, user>>
    BY <1>0, <1>1, Takes
  <1>3. Event = On("windows", n) BY <1>2 DEF Event, RxOf
  <1>4. Pure(n)' BY <1>0, <1>1, <1>2 DEF Pure, windows
  <1>5. UNCHANGED <<fresh, polled, applyQueue, applied, owed>> BY <1>2 DEF windows, user
  <1>6. CASE s = "linux"
    <2>1. PICK c : c = On("linux", n) BY <1>0
    <2>2. NewOnLinux(c) => NewOnLinux(c)' BY <1>1, <1>2, <1>5 DEF NewOnLinux, Known, Has
    <2>3. GoneToWindows(c) => GoneToWindows(c)' BY <1>1, <1>5 DEF GoneToWindows, Has
    <2>4. HeldOnLinux(c) => HeldOnLinux(c)' BY <1>1, <1>2, <1>5 DEF HeldOnLinux, Has, Lazy
    <2> QED BY <1>0, <1>1, <1>4, <1>6, <2>1, <2>2, <2>3, <2>4, Follows2 DEF Stage
  <1>7. CASE s = "windows"
    <2>1. PICK c : c = On("windows", n) BY <1>0
    <2>2. NewOnWindows(c) => NewOnWindows(c)' BY <1>1, <1>2, <1>5 DEF NewOnWindows, Known, Has
    <2>3. GoneToLinux(c) => GoneToLinux(c)' BY <1>1, <1>2 DEF GoneToLinux, Has
    <2>4. ASSUME HeldOnWindows(c) PROVE HeldOnWindows(c)'
      <3>1. ~owed' BY <1>2, <1>5, <2>4 DEF HeldOnWindows, Offering
      <3>2. remoteOffer'.of = c /\ ~remoteOffer'.requested BY <1>1, <1>3, <2>1
      <3> QED BY <1>1, <2>4, <3>1, <3>2 DEF HeldOnWindows, Lazy
    <2> QED BY <1>0, <1>1, <1>4, <1>7, <2>1, <2>2, <2>3, <2>4, Follows2 DEF Stage
  <1> QED BY <1>6, <1>7 DEF Sides

\* A crossing, or a pull asked for: a batch that is pushed is the last copy, or excuses.
LEMMA FollowCrossing ==
    ASSUME Typed, NEW s \in Sides, NEW n \in Names, Following(s, n), ~excused', \A f : ~Fault(f), last' = last,
           NEW m \in Moving, Crossed(m)
    PROVE  Following(s, n)'
  <1>0. /\ Pure(n) /\ Stage(s, On(s, n)) /\ link = "up" /\ last = [side |-> s, of |-> On(s, n)]
        /\ "linux" \in Sides /\ "windows" \in Sides /\ "linux" # "windows" /\ clip[s] = On(s, n)
        /\ localOffer \in [Sides -> Maybe] /\ remoteOffer \in Offers /\ toWindows \in Seq(Messages)
    BY DEF Following, Sides, Typed, Data, Held, LinuxTyped, WireTyped
  <1>1. Handle(m) /\ UNCHANGED <<clip, lastSent, lastSet>> /\ remoteOffer' = Requested(m)
        /\ m \notin {"data", "copied", "offer"}
    BY DEF Crossed, Control, Moving
  <1>2. /\ rx' \in Seq(RxOf(n))
        /\ \A t : Has(rx', t) => Has(rx, t)
        /\ \A t : Has(rx, t) => Has(rx', t) \/ t = m
        /\ UNCHANGED <<prev, windows, toLinux, user>>
    BY <1>0, <1>1, Takes
  <1>3. UNCHANGED <<fresh, polled, pullRequest, sending, applyQueue, applied, owed>> BY <1>2 DEF windows, user
  <1>4. Pushes(m) => s = "linux" /\ localOffer["linux"] = On(s, n) /\ localOffer'["linux"] = None
    <2> SUFFICES ASSUME Pushes(m) PROVE s = "linux" /\ localOffer["linux"] = On(s, n) /\ localOffer'["linux"] = None
      OBVIOUS
    <2>1. Moves("linux", localOffer["linux"]) /\ localOffer' = [localOffer EXCEPT !["linux"] = None]
      BY DEF Crossed
    <2>2. last = [side |-> "linux", of |-> localOffer["linux"]] BY <2>1 DEF Moves
    <2> QED BY <1>0, <2>1, <2>2
  <1>5. ~Pushes(m) => UNCHANGED localOffer BY DEF Crossed
  <1>6. localOffer'["windows"] = localOffer["windows"] BY <1>0 DEF Crossed
  <1>7. PICK ms \in Seq(Messages) : ms = PullFor(m)
    <2>1. ASSUME Pulls(m) PROVE PullFor(m) \in Seq(Messages)
      <3>1. PICK p \in Messages : p = Msg("pull", remoteOffer.of)
        BY <1>0, <2>1, MsgType DEF Pulls, Offers, Maybe
      <3> QED BY <2>1, <3>1 DEF PullFor
    <2>2. ~Pulls(m) => PullFor(m) = << >> BY DEF PullFor
    <2>3. << >> \in Seq(Messages) OBVIOUS
    <2>4. PullFor(m) \in Seq(Messages) BY <2>1, <2>2, <2>3
    <2> QED BY <2>4
  <1>8. /\ \A t : Has(ms, t) => t = "pull"
        /\ ~Pulls(m) => NoPull(ms)
        /\ Pulls(m) => NewestPull(ms, remoteOffer.of)
        /\ ms \in Seq(ToWindowsOf(n))
    <2>1. CASE Pulls(m)
      <3>1. PICK p \in Messages : p = Msg("pull", remoteOffer.of)
        BY <1>0, <2>1, MsgType DEF Pulls, Offers, Maybe
      <3>2. p.t = "pull" /\ p.of = remoteOffer.of /\ ms = <<p>> BY <1>7, <2>1, <3>1 DEF PullFor, Msg
      <3>3. p \in ToWindowsOf(n) BY <3>2 DEF ToWindowsOf
      <3>4. Len(<<p>>) = 1 /\ <<p>>[1] = p /\ 1 \in 1..Len(<<p>>) /\ \A z \in (1 + 1)..Len(<<p>>) : FALSE OBVIOUS
      <3>5. NewestPull(<<p>>, remoteOffer.of) BY <3>2, <3>4 DEF NewestPull
      <3> QED BY <2>1, <3>2, <3>3, <3>5, HasOne
    <2>2. CASE ~Pulls(m)
      <3>1. ms = << >> BY <1>7, <2>2 DEF PullFor
      <3> QED BY <2>2, <3>1, HasOne DEF NoPull
    <2> QED BY <2>1, <2>2
  <1>9. /\ toWindows' \in Seq(ToWindowsOf(n)) /\ link' = "up"
        /\ Has(toWindows, "data") \/ Pushes(m) => Has(toWindows', "data")
        /\ ~Pushes(m) => /\ toWindows' = toWindows \o ms
                         /\ ~Has(toWindows, "data") => ~Has(toWindows', "data")
    <2>1. CASE Pushes(m)
      <3>1. Write(<<Msg("data", localOffer["linux"])>> \o ms) BY <1>7, <2>1 DEF Crossed
      <3>2. PICK d \in Messages : d = Msg("data", localOffer["linux"]) /\ d.t = "data" /\ d.of.name = n
        BY <1>0, <1>4, <2>1, Apart, MsgType DEF Msg
      <3>3. <<d>> \in Seq(ToWindowsOf(n)) /\ Has(<<d>>, "data") BY <3>2, HasOne DEF ToWindowsOf
      <3>4. PICK e, w : e = <<d>> /\ w = e \o ms OBVIOUS
      <3>5. w \in Seq(ToWindowsOf(n)) BY <1>8, <3>3, <3>4, ConcatSeq
      <3>6. Has(w, "data") BY <1>8, <3>3, <3>4, HasConcat
      <3>7. Write(w) BY <3>1, <3>2, <3>4
      <3> QED BY <1>0, <2>1, <3>5, <3>6, <3>7, Writes
    <2>2. CASE ~Pushes(m)
      <3>1. Write(ms) BY <1>7, <2>2 DEF Crossed
      <3>2. ~Has(ms, "data") BY <1>8
      <3> QED BY <1>0, <1>8, <2>2, <3>1, <3>2, Writes
    <2> QED BY <2>1, <2>2
  <1>10. Pure(n)' BY <1>0, <1>1, <1>2, <1>3, <1>9 DEF Pure
  <1>11. CASE s = "linux"
    <2>1. PICK c : c = On("linux", n) BY <1>0
    <2>2. Pushes(m) => GoneToWindows(c)' BY <1>9 DEF GoneToWindows, Has
    <2>3. ~Pushes(m) /\ NewOnLinux(c) => NewOnLinux(c)'
      BY <1>1, <1>2, <1>3, <1>9 DEF NewOnLinux, Known, Has
    <2>4. GoneToWindows(c) => GoneToWindows(c)' BY <1>1, <1>3, <1>9 DEF GoneToWindows, Has
    <2>5. ASSUME ~Pushes(m), HeldOnLinux(c) PROVE HeldOnLinux(c)'
      <3>1. c # None BY <2>1, <1>0, Apart
      <3>2. m = "local" /\ UNCHANGED localOffer BY <1>5, <2>5, <3>1 DEF Pushes, HeldOnLinux
      <3> QED BY <1>2, <1>3, <2>5, <3>2 DEF HeldOnLinux, Has, Lazy
    <2> QED BY <1>0, <1>1, <1>9, <1>10, <1>11, <2>1, <2>2, <2>3, <2>4, <2>5, Follows2 DEF Stage
  <1>12. CASE s = "windows"
    <2>1. PICK c : c = On("windows", n) /\ c # None BY <1>0, Apart
    <2>2. ~Pushes(m) BY <1>4, <1>12
    <2>3. NewOnWindows(c) => NewOnWindows(c)'
      BY <1>1, <1>2, <1>3, <1>9, <2>2 DEF NewOnWindows, Known, Has
    <2>4. GoneToLinux(c) => GoneToLinux(c)' BY <1>1, <1>2 DEF GoneToLinux, Has
    <2>5. ASSUME HeldOnWindows(c) PROVE HeldOnWindows(c)'
      <3>1. Offering' <=> Offering BY <1>1, <1>2 DEF Offering, Has
      <3>2. toWindows' = toWindows \o ms BY <1>9, <2>2
      <3>3. CASE Pulls(m)
        <4>1. remoteOffer' = [remoteOffer EXCEPT !.requested = TRUE] BY <1>1, <3>3 DEF Requested
        <4>2. remoteOffer'.of = remoteOffer.of BY <1>0, <4>1 DEF Offers
        <4>3. NewestPull(toWindows', remoteOffer.of) BY <1>0, <1>8, <3>2, <3>3, ConcatPull
        <4>4. remoteOffer.of = c => Coming(c)' BY <4>3 DEF Coming, NewestPull
        <4>5. Offering \/ remoteOffer.of = c BY <2>5 DEF HeldOnWindows
        <4> QED BY <1>1, <1>3, <1>6, <2>5, <3>1, <4>2, <4>4, <4>5 DEF HeldOnWindows, Lazy
      <3>4. CASE ~Pulls(m)
        <4>1. remoteOffer' = remoteOffer BY <1>1, <3>4 DEF Requested
        <4>2. Coming(c) => Coming(c)' BY <1>0, <1>3, <1>8, <3>2, <3>4, ConcatPull, ComingKept
        <4>3. m # "remote" => Offering \/ Coming(c)
          BY <2>1, <2>5, <3>4 DEF HeldOnWindows, Pulls
        <4> QED BY <1>1, <1>2, <1>3, <1>6, <2>5, <3>1, <4>1, <4>2, <4>3, HeldKept
      <3> QED BY <3>3, <3>4
    <2> QED BY <1>0, <1>1, <1>9, <1>10, <1>12, <2>1, <2>3, <2>4, <2>5, Follows2 DEF Stage
  <1> QED BY <1>11, <1>12 DEF Sides

\* The watcher and the Linux reader post what they have seen.
LEMMA FollowPosted ==
    ASSUME Typed, NEW s \in Sides, NEW n \in Names, Following(s, n), last' = last, Watch \/ Receive
    PROVE  Following(s, n)'
  <1>0. /\ Pure(n) /\ Stage(s, On(s, n)) /\ link = "up" /\ last = [side |-> s, of |-> On(s, n)]
        /\ clip[s] = On(s, n) /\ toLinux \in Seq(ToLinuxOf(n)) /\ rx \in Seq(RxOf(n))
        /\ clip \in [Sides -> Maybe] /\ "linux" \in Sides
    BY DEF Following, Pure, Typed, Data, Held, Sides
  <1>1. UNCHANGED <<clip, lastSent, lastSet, localOffer, remoteOffer, link, windows, toWindows, user>>
    BY DEF Watch, Receive
  <1>2. UNCHANGED <<fresh, polled, pullRequest, sending, applyQueue, applied, owed>> BY <1>1 DEF windows, user
  <1>3. \A c : Coming(c) => Coming(c)' BY <1>1, <1>2 DEF Coming, NewestPull, NoPull
  <1>4. PICK e \in RxOf(n) : /\ rx' = Append(rx, e)
                             /\ Watch => e.t = "copied"
                             /\ Receive => toLinux # << >> /\ e = Head(toLinux) /\ e.t \in {"data", "offer", "pull"}
    <2>1. CASE Watch
      <3>1. clip["linux"] = On("linux", n) BY <1>0, <2>1 DEF Watch, Pure
      <3>2. clip["linux"] \in Contents BY <1>0, <2>1 DEF Watch, Maybe
      <3>3. PICK e \in RxEvents : e = Msg("copied", clip["linux"]) BY <3>2, MsgType
      <3>4. e \in RxOf(n) /\ e.t = "copied" /\ rx' = Append(rx, e) BY <2>1, <3>1, <3>3 DEF Watch, Msg, RxOf
      <3>5. ~Receive
        <4>1. Receive => prev' = prev BY DEF Receive
        <4>2. prev' # prev BY <2>1 DEF Watch
        <4> QED BY <4>1, <4>2
      <3> QED BY <3>4, <3>5
    <2>2. CASE Receive
      <3>1. toLinux # << >> /\ rx' = Append(rx, Head(toLinux)) BY <2>2 DEF Receive
      <3>2. Head(toLinux) \in ToLinuxOf(n) BY <1>0, <3>1, TailSeq
      <3>3. Head(toLinux) \in RxOf(n) /\ Head(toLinux).t \in {"data", "offer", "pull"}
        BY <3>2 DEF ToLinuxOf, Messages
      <3>4. ~Watch
        <4>1. prev' = prev BY <2>2 DEF Receive
        <4>2. Watch => prev' # prev BY DEF Watch
        <4> QED BY <4>1, <4>2
      <3> QED BY <3>1, <3>3, <3>4
    <2> QED BY <2>1, <2>2
  <1>5. rx' \in Seq(RxOf(n)) /\ \A t : Has(rx', t) <=> Has(rx, t) \/ e.t = t
    <2>1. rx' \in Seq(RxOf(n)) BY <1>0, <1>4, AppendSeq
    <2>2. PICK r, u : r = rx /\ u = rx' OBVIOUS
    <2>3. \A t : Has(u, t) <=> Has(r, t) \/ e.t = t BY <1>0, <1>4, <2>2, HasAppend
    <2> QED BY <2>1, <2>2, <2>3
  <1>6. /\ toLinux' \in Seq(ToLinuxOf(n))
        /\ \A t : Has(toLinux', t) => Has(toLinux, t)
        /\ \A t : Has(toLinux, t) => Has(toLinux', t) \/ e.t = t
        /\ Receive => \A t : e.t = t => Has(toLinux, t)
        /\ Watch => toLinux' = toLinux
    <2>1. CASE Watch
      <3>1. toLinux' = toLinux BY <2>1 DEF Watch
      <3>2. ~Receive
        <4>1. Receive => prev' = prev BY DEF Receive
        <4>2. prev' # prev BY <2>1 DEF Watch
        <4> QED BY <4>1, <4>2
      <3> QED BY <1>0, <3>1, <3>2 DEF Has
    <2>2. CASE Receive
      <3>1. toLinux' = Tail(toLinux) /\ toLinux # << >> /\ e = Head(toLinux) BY <1>4, <2>2 DEF Receive
      <3>2. toLinux' \in Seq(ToLinuxOf(n)) BY <1>0, <3>1, TailSeq
      <3>3. PICK r, u : r = toLinux /\ u = toLinux' OBVIOUS
      <3>4. \A t : /\ Has(u, t) => Has(r, t)
                   /\ Has(r, t) => Has(u, t) \/ Head(r).t = t
                   /\ Head(r).t = t => Has(r, t)
        BY <1>0, <3>1, <3>3, HasTail
      <3>5. ~Watch
        <4>1. prev' = prev BY <2>2 DEF Receive
        <4>2. Watch => prev' # prev BY DEF Watch
        <4> QED BY <4>1, <4>2
      <3> QED BY <3>1, <3>2, <3>3, <3>4, <3>5
    <2> QED BY <2>1, <2>2
  <1>7. prev' = prev \/ (Watch /\ prev' = clip["linux"]) BY DEF Watch, Receive
  <1>8. Pure(n)'
    <2>1. clip'["linux"] \in {None, prev', On("linux", n)} BY <1>0, <1>1, <1>7 DEF Pure
    <2> QED BY <1>0, <1>1, <1>2, <1>5, <1>6, <2>1 DEF Pure
  <1>9. CASE s = "linux"
    <2>1. PICK c : c = On("linux", n) BY <1>0
    <2>2. ASSUME NewOnLinux(c) PROVE NewOnLinux(c)'
      <3>1. clip'["linux"] # prev' \/ Has(rx', "copied") BY <1>1, <1>4, <1>5, <1>7, <2>2 DEF NewOnLinux
      <3>2. ~Has(rx', "data") /\ ~Has(toLinux', "data") BY <1>4, <1>5, <1>6, <2>2 DEF NewOnLinux
      <3> QED BY <1>1, <1>2, <2>2, <3>1, <3>2 DEF NewOnLinux, Known, Has
    <2>3. GoneToWindows(c) => GoneToWindows(c)' BY <1>1, <1>2 DEF GoneToWindows, Has
    <2>4. HeldOnLinux(c) => HeldOnLinux(c)' BY <1>1, <1>2, <1>5 DEF HeldOnLinux, Has, Lazy
    <2> QED BY <1>0, <1>1, <1>8, <1>9, <2>1, <2>2, <2>3, <2>4, Follows2 DEF Stage
  <1>10. CASE s = "windows"
    <2>1. PICK c : c = On("windows", n) BY <1>0
    <2>2. ASSUME NewOnWindows(c) PROVE NewOnWindows(c)'
      <3>1. ~Watch
        <4>1. Watch => clip["linux"] # None /\ clip["linux"] # prev BY DEF Watch
        <4> QED BY <2>2, <4>1 DEF NewOnWindows
      <3>2. e.t # "copied" BY <1>4, <3>1
      <3>3. prev' = prev BY <1>7, <3>1
      <3> QED BY <1>1, <1>2, <1>5, <2>2, <3>2, <3>3 DEF NewOnWindows, Known, Has
    <2>3. GoneToLinux(c) => GoneToLinux(c)' BY <1>1, <1>5, <1>6 DEF GoneToLinux, Has
    <2>4. ASSUME HeldOnWindows(c) PROVE HeldOnWindows(c)'
      <3>1. Offering' <=> Offering BY <1>4, <1>5, <1>6 DEF Offering, Has
      <3> QED BY <1>1, <1>2, <1>3, <1>5, <2>4, <3>1, HeldKept
    <2> QED BY <1>0, <1>1, <1>8, <1>10, <2>1, <2>2, <2>3, <2>4, Follows2 DEF Stage
  <1> QED BY <1>9, <1>10 DEF Sides

\* The Windows reader takes a message.
LEMMA FollowReader ==
    ASSUME Typed, NEW s \in Sides, NEW n \in Names, Following(s, n), last' = last, Reader
    PROVE  Following(s, n)'
  <1>0. /\ Pure(n) /\ Stage(s, On(s, n)) /\ link = "up" /\ last = [side |-> s, of |-> On(s, n)]
        /\ clip[s] = On(s, n) /\ toWindows \in Seq(ToWindowsOf(n)) /\ applyQueue \in Seq(FormsOf(n))
        /\ toWindows \in Seq(Messages)
    BY DEF Following, Pure, Typed, Data, WireTyped
  <1>1. PICK kind \in {"data", "offer", "pull"} :
           /\ Read(kind) /\ (kind # "pull" => UNCHANGED pullRequest)
           /\ (kind = "pull" => pullRequest' = Head(toWindows).of)
           /\ (kind = "data" => applyQueue' = Append(applyQueue, Head(toWindows).of))
           /\ (kind # "data" => UNCHANGED applyQueue)
    BY DEF Reader, ReadData, ReadOffer, ReadPull
  <1>2. /\ UNCHANGED <<clip, lastSent, lastSet, localOffer, fresh, polled, sending, applied, toLinux, near>>
        /\ toWindows # << >> /\ toWindows' = Tail(toWindows) /\ Head(toWindows).t = kind
    BY <1>1 DEF Read
  <1>3. UNCHANGED <<prev, rx, remoteOffer, link, owed>> BY <1>2 DEF near, linux, user
  <1>4. /\ toWindows' \in Seq(ToWindowsOf(n)) /\ Head(toWindows) \in ToWindowsOf(n)
        /\ Head(toWindows) = toWindows[1] /\ Len(toWindows) \in Nat \ {0}
    BY <1>0, <1>2, TailSeq
  <1>5. /\ \A t : Has(toWindows', t) => Has(toWindows, t)
        /\ \A t : Has(toWindows, t) => Has(toWindows', t) \/ t = kind
        /\ Has(toWindows, kind)
    <2>1. PICK r, u : r = toWindows /\ u = toWindows' OBVIOUS
    <2>2. \A t : /\ Has(u, t) => Has(r, t)
                 /\ Has(r, t) => Has(u, t) \/ Head(r).t = t
                 /\ Head(r).t = t => Has(r, t)
      BY <1>0, <1>2, <2>1, HasTail
    <2> QED BY <1>2, <2>1, <2>2
  <1>6. applyQueue' \in Seq(FormsOf(n)) /\ (kind = "data" => applyQueue' # << >>)
    <2>1. CASE kind = "data"
      <3>1. Head(toWindows).of \in FormsOf(n) BY <1>2, <1>4, <2>1 DEF ToWindowsOf, Messages, FormsOf
      <3>2. applyQueue' = Append(applyQueue, Head(toWindows).of) BY <1>1, <2>1
      <3>3. /\ applyQueue' \in Seq(FormsOf(n)) /\ Len(applyQueue') = Len(applyQueue) + 1
            /\ Len(applyQueue) \in Nat
        BY <1>0, <3>1, <3>2, AppendSeq
      <3>4. applyQueue' # << >> BY <3>3
      <3> QED BY <3>3, <3>4
    <2>2. CASE kind # "data" BY <1>0, <1>1, <2>2
    <2> QED BY <2>1, <2>2
  <1>7. Pure(n)' BY <1>0, <1>2, <1>3, <1>4, <1>6 DEF Pure
  <1>8. ASSUME NEW c, Coming(c) PROVE Coming(c)'
    <2>1. CASE kind # "pull"
      BY <1>0, <1>1, <1>2, <1>4, <1>8, <2>1, TailPull, ComingKept
    <2>2. CASE kind = "pull"
      <3>1. ~NoPull(toWindows) BY <1>2, <1>4, <2>2 DEF NoPull
      <3>2. NewestPull(toWindows, c) BY <1>8, <3>1 DEF Coming
      <3>3. NewestPull(toWindows', c) \/ (NoPull(toWindows') /\ toWindows[1].of = c)
        BY <1>0, <1>2, <3>2, TailPull
      <3>4. toWindows[1].of # None
        <4>1. toWindows[1] \in Messages BY <1>4 DEF ToWindowsOf
        <4> QED BY <4>1, Apart DEF Messages
      <3> QED BY <1>1, <1>4, <2>2, <3>3, <3>4 DEF Coming, NewestPull, NoPull
    <2> QED BY <2>1, <2>2
  <1>9. CASE s = "linux"
    <2>1. PICK c : c = On("linux", n) BY <1>0
    <2>2. ASSUME NewOnLinux(c) PROVE NewOnLinux(c)'
      <3>1. kind # "data" BY <1>5, <2>2 DEF NewOnLinux
      <3> QED BY <1>1, <1>2, <1>3, <1>5, <2>2, <3>1 DEF NewOnLinux, Known, Has
    <2>3. ASSUME GoneToWindows(c) PROVE GoneToWindows(c)'
      <3>1. CASE kind = "data" BY <1>6, <3>1 DEF GoneToWindows, Has
      <3>2. CASE kind # "data" BY <1>1, <1>2, <1>5, <2>3, <3>2 DEF GoneToWindows, Has
      <3> QED BY <3>1, <3>2
    <2>4. HeldOnLinux(c) => HeldOnLinux(c)' BY <1>2, <1>3 DEF HeldOnLinux, Has, Lazy
    <2> QED BY <1>0, <1>2, <1>3, <1>7, <1>9, <2>1, <2>2, <2>3, <2>4, Follows2 DEF Stage
  <1>10. CASE s = "windows"
    <2>1. PICK c : c = On("windows", n) BY <1>0
    <2>2. ASSUME NewOnWindows(c) PROVE NewOnWindows(c)'
      <3>1. kind # "data" BY <1>5, <2>2 DEF NewOnWindows
      <3> QED BY <1>1, <1>2, <1>3, <1>5, <2>2, <3>1 DEF NewOnWindows, Known, Has
    <2>3. GoneToLinux(c) => GoneToLinux(c)' BY <1>2, <1>3 DEF GoneToLinux, Has
    <2>4. ASSUME HeldOnWindows(c) PROVE HeldOnWindows(c)'
      <3>1. Offering' <=> Offering BY <1>2, <1>3 DEF Offering, Has
      <3> QED BY <1>2, <1>3, <1>8, <2>4, <3>1, HeldKept
    <2> QED BY <1>0, <1>2, <1>3, <1>7, <1>10, <2>1, <2>2, <2>3, <2>4, Follows2 DEF Stage
  <1> QED BY <1>9, <1>10 DEF Sides

\* The applier sets the Windows clipboard, and records it.
LEMMA FollowApplier ==
    ASSUME Typed, NEW s \in Sides, NEW n \in Names, Following(s, n), last' = last, ApplySet \/ ApplyRecord
    PROVE  Following(s, n)'
  <1>0. /\ Pure(n) /\ Stage(s, On(s, n)) /\ link = "up" /\ last = [side |-> s, of |-> On(s, n)]
        /\ clip[s] = On(s, n) /\ applyQueue \in Seq(FormsOf(n)) /\ clip \in [Sides -> Maybe]
        /\ "linux" \in Sides /\ "windows" \in Sides /\ "linux" # "windows" /\ lastSet \in [Sides -> Maybe]
    BY DEF Following, Pure, Typed, Data, Held, Sides
  <1>1. /\ UNCHANGED <<lastSent, localOffer, polled, pullRequest, sending, toWindows, toLinux, near>>
        /\ UNCHANGED <<prev, rx, remoteOffer, link, owed>>
    BY DEF ApplySet, ApplyRecord, near, linux, user
  <1>2. CASE ApplySet
    <2>1. Head(applyQueue) \in FormsOf(n) /\ applyQueue' = Tail(applyQueue) /\ applyQueue' \in Seq(FormsOf(n))
          /\ applyQueue # << >>
      BY <1>0, <1>2, TailSeq DEF ApplySet
    <2>2. clip'["windows"] = On("windows", n) /\ clip'["linux"] = clip["linux"] /\ UNCHANGED lastSet
      BY <1>0, <1>2, <2>1 DEF ApplySet, FormsOf
    <2>3. Pure(n)' BY <1>0, <1>1, <2>1, <2>2 DEF Pure
    <2>4. clip'[s] = clip[s] BY <1>0, <2>2 DEF Sides
    <2>5. CASE s = "linux"
      <3>1. PICK c : c = On("linux", n) /\ c.name = n BY <1>0, Apart
      <3>2. GoneToWindows(c)' BY <1>0, <2>2, <3>1, Apart DEF GoneToWindows
      <3> QED BY <1>0, <1>1, <2>3, <2>4, <2>5, <3>1, <3>2, Follows2 DEF Stage
    <2>6. CASE s = "windows"
      <3>1. PICK c : c = On("windows", n) BY <1>0
      <3>2. ~NewOnWindows(c) BY <2>1 DEF NewOnWindows
      <3>3. GoneToLinux(c) => GoneToLinux(c)' BY <1>1, <2>2 DEF GoneToLinux, Has
      <3>4. HeldOnWindows(c) => HeldOnWindows(c)'
        BY <1>1 DEF HeldOnWindows, Offering, Coming, NewestPull, NoPull, Has, Lazy
      <3> QED BY <1>0, <1>1, <2>3, <2>4, <2>6, <3>1, <3>2, <3>3, <3>4, Follows2 DEF Stage
    <2> QED BY <2>5, <2>6 DEF Sides
  <1>3. CASE ApplyRecord
    <2>1. UNCHANGED <<clip, fresh, applyQueue>> /\ applied # None /\ lastSet'["linux"] = lastSet["linux"]
      BY <1>0, <1>3 DEF ApplyRecord
    <2>2. Pure(n)' BY <1>0, <1>1, <2>1 DEF Pure
    <2>3. CASE s = "linux"
      <3>1. PICK c : c = On("linux", n) BY <1>0
      <3>2. NewOnLinux(c) => NewOnLinux(c)' BY <1>1, <2>1 DEF NewOnLinux, Known, Has
      <3>3. GoneToWindows(c) => GoneToWindows(c)' BY <1>1, <2>1 DEF GoneToWindows, Has
      <3>4. HeldOnLinux(c) => HeldOnLinux(c)' BY <1>1 DEF HeldOnLinux, Has, Lazy
      <3> QED BY <1>0, <1>1, <2>1, <2>2, <2>3, <3>1, <3>2, <3>3, <3>4, Follows2 DEF Stage
    <2>4. CASE s = "windows"
      <3>1. PICK c : c = On("windows", n) BY <1>0
      <3>2. ~NewOnWindows(c) BY <2>1 DEF NewOnWindows
      <3>3. GoneToLinux(c) => GoneToLinux(c)' BY <1>1, <2>1 DEF GoneToLinux, Has
      <3>4. HeldOnWindows(c) => HeldOnWindows(c)'
        BY <1>1 DEF HeldOnWindows, Offering, Coming, NewestPull, NoPull, Has, Lazy
      <3> QED BY <1>0, <1>1, <2>1, <2>2, <2>4, <3>1, <3>2, <3>3, <3>4, Follows2 DEF Stage
    <2> QED BY <2>3, <2>4 DEF Sides
  <1> QED BY <1>2, <1>3

\* The Windows send loop passes a message to Linux.
LEMMA Passes ==
    ASSUME Typed, NEW n \in Names, Pure(n), link = "up", NEW e \in ToLinuxOf(n), ToLinux(e)
    PROVE  /\ toLinux' \in Seq(ToLinuxOf(n))
           /\ \A t : Has(toLinux', t) <=> Has(toLinux, t) \/ e.t = t
  <1>1. toLinux \in Seq(ToLinuxOf(n)) /\ toLinux' = Append(toLinux, e) BY DEF Pure, ToLinux
  <1>2. toLinux' \in Seq(ToLinuxOf(n)) BY <1>1, AppendSeq
  <1>3. PICK s, u : s = toLinux /\ u = toLinux' OBVIOUS
  <1>4. \A t : Has(u, t) <=> Has(s, t) \/ e.t = t BY <1>1, <1>3, HasAppend
  <1> QED BY <1>2, <1>3, <1>4

\* The Windows send loop: what it polls is the last copy, or what was set from Linux of it; a
\* batch it sends is the last copy, or excuses.
LEMMA FollowLoop ==
    ASSUME Typed, NEW s \in Sides, NEW n \in Names, Following(s, n), ~excused', \A f : ~Fault(f), last' = last, Loop
    PROVE  Following(s, n)'
  <1>0. /\ Pure(n) /\ Stage(s, On(s, n)) /\ link = "up" /\ last = [side |-> s, of |-> On(s, n)]
        /\ clip[s] = On(s, n) /\ toLinux \in Seq(ToLinuxOf(n))
        /\ localOffer \in [Sides -> Maybe] /\ lastSent \in [Sides -> Maybe] /\ toWindows \in Seq(Messages)
        /\ "linux" \in Sides /\ "windows" \in Sides /\ "linux" # "windows"
    BY DEF Following, Pure, Typed, Data, Held, WireTyped, Sides
  <1>1. UNCHANGED <<clip, lastSet, applyQueue, applied, toWindows, prev, rx, remoteOffer, link, owed>>
    BY DEF Loop, TakePull, Poll, SendLoop, FilesSent, FilesGivenUp, Sending, Stale, OfferPolled, SendPolled, Decide,
       near, linux, user
  <1>2. localOffer'["linux"] = localOffer["linux"] /\ lastSent'["linux"] = lastSent["linux"]
    BY <1>0 DEF Loop, TakePull, Poll, SendLoop, FilesSent, FilesGivenUp, Sending, Stale, OfferPolled, SendPolled, Decide
  <1>3. PICK w : w = On("windows", n) /\ w \in Contents /\ w.name = n /\ w # None BY <1>0, Apart
  <1>4. polled # None => polled = w BY <1>0, <1>3 DEF Pure
  <1>5. fresh => clip["windows"] = w BY <1>0, <1>3 DEF Pure
  \* Either nothing is passed, or a message of this copy.
  <1>6. /\ toLinux' \in Seq(ToLinuxOf(n))
        /\ \A t : Has(toLinux, t) => Has(toLinux', t)
        /\ FilesSent => s = "windows" /\ Has(toLinux', "data")
        /\ SendPolled => Has(toLinux', "data")
        /\ OfferPolled => Has(toLinux', "offer") /\ (Has(toLinux', "data") => Has(toLinux, "data"))
        /\ ~FilesSent /\ ~SendPolled /\ ~OfferPolled => UNCHANGED toLinux
    <2>1. CASE FilesSent
      <3>1. last = [side |-> "windows", of |-> sending] BY <2>1 DEF FilesSent, Moves
      <3>2. s = "windows" /\ sending = w BY <1>0, <1>3, <3>1
      <3>3. PICK e \in Messages : e = Msg("data", w) /\ e.t = "data" /\ e.of = w BY <1>3, MsgType DEF Msg
      <3>4. e \in ToLinuxOf(n) BY <1>3, <3>3 DEF ToLinuxOf, RxOf, RxEvents
      <3>5. ToLinux(e) BY <2>1, <3>2, <3>3 DEF FilesSent
      <3>6. toLinux' \in Seq(ToLinuxOf(n)) /\ \A t : Has(toLinux', t) <=> Has(toLinux, t) \/ e.t = t
        BY <1>0, <3>4, <3>5, Passes
      <3>7. ~SendPolled /\ ~OfferPolled
        <4>1. sending # None /\ sending' = None BY <2>1 DEF FilesSent, Sending
        <4>2. SendPolled \/ OfferPolled => UNCHANGED sending BY DEF SendPolled, OfferPolled, Decide
        <4> QED BY <4>1, <4>2
      <3> QED BY <2>1, <3>2, <3>3, <3>6, <3>7
    <2>2. CASE SendPolled
      <3>1. polled = w BY <1>4, <2>2 DEF SendPolled, Decide
      <3>3. PICK e \in Messages : e = Msg("data", w) /\ e.t = "data" /\ e.of = w BY <1>3, MsgType DEF Msg
      <3>4. e \in ToLinuxOf(n) BY <1>3, <3>3 DEF ToLinuxOf, RxOf, RxEvents
      <3>5. ToLinux(e) BY <2>2, <3>1, <3>3 DEF SendPolled
      <3>6. toLinux' \in Seq(ToLinuxOf(n)) /\ \A t : Has(toLinux', t) <=> Has(toLinux, t) \/ e.t = t
        BY <1>0, <3>4, <3>5, Passes
      <3>7. ~FilesSent /\ ~OfferPolled
        <4>1. sending' = sending /\ ~Lazy(polled) BY <2>2 DEF SendPolled, Decide
        <4>2. FilesSent => sending' # sending BY DEF FilesSent, Sending
        <4> QED BY <4>1, <4>2 DEF OfferPolled
      <3> QED BY <2>2, <3>3, <3>6, <3>7
    <2>3. CASE OfferPolled
      <3>1. polled = w BY <1>4, <2>3 DEF OfferPolled, Decide
      <3>3. PICK e \in Messages : e = Msg("offer", w) /\ e.t = "offer" /\ e.of = w BY <1>3, MsgType DEF Msg
      <3>4. e \in ToLinuxOf(n) BY <1>3, <3>3 DEF ToLinuxOf, RxOf, RxEvents
      <3>5. ToLinux(e) BY <2>3, <3>1, <3>3 DEF OfferPolled
      <3>6. toLinux' \in Seq(ToLinuxOf(n)) /\ \A t : Has(toLinux', t) <=> Has(toLinux, t) \/ e.t = t
        BY <1>0, <3>4, <3>5, Passes
      <3>7. ~FilesSent /\ ~SendPolled
        <4>1. sending' = sending /\ Lazy(polled) BY <2>3 DEF OfferPolled, Decide
        <4>2. FilesSent => sending' # sending BY DEF FilesSent, Sending
        <4> QED BY <4>1, <4>2 DEF SendPolled
      <3> QED BY <2>3, <3>3, <3>6, <3>7
    <2>4. CASE ~FilesSent /\ ~SendPolled /\ ~OfferPolled
      <3>1. UNCHANGED toLinux
        BY <2>4 DEF Loop, TakePull, Poll, SendLoop, FilesGivenUp, Sending, Stale, Decide
      <3> QED BY <1>0, <2>4, <3>1 DEF Has
    <2> QED BY <2>1, <2>2, <2>3, <2>4
  <1>7. polled' \in {None, w} /\ (fresh' => fresh)
    BY <1>0, <1>3, <1>4, <1>5 DEF Loop, TakePull, Poll, SendLoop, FilesSent, FilesGivenUp, Sending, Stale, OfferPolled,
       SendPolled, Decide, Pure
  <1>8. Pure(n)' BY <1>0, <1>1, <1>3, <1>6, <1>7 DEF Pure
  <1>9. CASE s = "linux"
    <2>1. PICK c : c = On("linux", n) BY <1>0
    <2>2. ASSUME NewOnLinux(c) PROVE NewOnLinux(c)'
      <3>1. ~Poll /\ ~Stale /\ ~OfferPolled /\ ~SendPolled /\ ~FilesSent
        BY <1>6, <1>9, <2>2 DEF NewOnLinux, Poll, Stale, OfferPolled, SendPolled, Decide
      <3>2. UNCHANGED <<fresh, polled, toLinux>>
        BY <1>6, <3>1 DEF Loop, TakePull, SendLoop, FilesGivenUp, Sending
      <3> QED BY <1>1, <1>2, <2>2, <3>2 DEF NewOnLinux, Known, Has
    <2>3. GoneToWindows(c) => GoneToWindows(c)' BY <1>1 DEF GoneToWindows, Has
    <2>4. HeldOnLinux(c) => HeldOnLinux(c)' BY <1>1, <1>2 DEF HeldOnLinux, Has, Lazy
    <2> QED BY <1>0, <1>1, <1>8, <1>9, <2>1, <2>2, <2>3, <2>4, Follows2 DEF Stage
  <1>10. CASE s = "windows"
    <2>1. clip["windows"] = w BY <1>0, <1>3, <1>10
    <2>2. GoneToLinux(w) => GoneToLinux(w)' BY <1>1, <1>6 DEF GoneToLinux, Has
    <2>3. FilesSent \/ SendPolled => GoneToLinux(w)' BY <1>6 DEF GoneToLinux
    <2>4. ASSUME NewOnWindows(w), ~FilesSent, ~SendPolled PROVE NewOnWindows(w)' \/ HeldOnWindows(w)'
      <3>1. ~Stale BY <1>4, <2>4 DEF NewOnWindows, Stale, Decide
      <3>2. CASE OfferPolled
        <4>1. polled = w BY <1>4, <3>2 DEF OfferPolled, Decide
        <4>2. Lazy(w) /\ localOffer'["windows"] = w /\ lastSent'["windows"] = w
          BY <1>0, <3>2, <4>1 DEF OfferPolled
        <4>3. Offering' /\ ~owed' BY <1>1, <1>6, <2>4, <3>2 DEF Offering, NewOnWindows
        <4> QED BY <4>2, <4>3 DEF HeldOnWindows, Lazy
      <3>3. CASE Poll
        <4>1. polled' # None /\ UNCHANGED lastSent BY <1>3, <2>1, <3>3 DEF Poll, SendLoop
        <4> QED BY <1>1, <2>4, <4>1 DEF NewOnWindows, Known, Has
      <3>4. CASE TakePull \/ FilesGivenUp
        <4>1. UNCHANGED <<fresh, polled, lastSent>> BY <3>4 DEF TakePull, SendLoop, FilesGivenUp, Sending
        <4> QED BY <1>1, <2>4, <4>1 DEF NewOnWindows, Known, Has
      <3> QED BY <2>4, <3>1, <3>2, <3>3, <3>4 DEF Loop
    <2>5. ASSUME HeldOnWindows(w), ~FilesSent, ~SendPolled PROVE HeldOnWindows(w)'
      <3>1. Known("windows", w) /\ ~OfferPolled
        BY <1>4, <2>5 DEF HeldOnWindows, Known, OfferPolled, Decide
      <3>2. UNCHANGED <<localOffer, lastSent, toLinux>>
        BY <1>6, <2>5, <3>1 DEF Loop, TakePull, Poll, SendLoop, FilesGivenUp, Sending, Stale, Decide
      <3>3. Coming(w) => Coming(w)'
        <4> SUFFICES ASSUME Coming(w) PROVE Coming(w)' OBVIOUS
        <4>1. CASE Poll \/ Stale
          <5>1. UNCHANGED <<pullRequest, sending>> BY <4>1 DEF Poll, SendLoop, Stale, Decide
          <5> QED BY <1>1, <5>1 DEF Coming, NewestPull, NoPull
        <4>2. CASE TakePull
          <5>1. /\ pullRequest # None /\ pullRequest' = None
                /\ sending' = IF pullRequest = localOffer["windows"] THEN pullRequest ELSE None
            BY <4>2 DEF TakePull
          <5>2. pullRequest = w => sending' = w BY <2>5, <5>1 DEF HeldOnWindows
          <5> QED BY <1>1, <5>1, <5>2 DEF Coming, NewestPull, NoPull
        <4>3. CASE FilesGivenUp
          <5>1. Blocked BY <4>3 DEF FilesGivenUp
          <5>2. toWindows # << >> /\ Head(toWindows).t = "pull" BY <5>1 DEF Blocked
          <5>3. 1 \in 1..Len(toWindows) /\ toWindows[1] = Head(toWindows) BY <1>0, <5>2, TailSeq
          <5>4. ~NoPull(toWindows) BY <5>2, <5>3 DEF NoPull
          <5> QED BY <1>1, <5>4 DEF Coming, NewestPull, NoPull
        <4> QED BY <2>5, <3>1, <4>1, <4>2, <4>3 DEF Loop
      <3>4. Offering' <=> Offering BY <1>1, <3>2 DEF Offering, Has
      <3> QED BY <1>1, <2>5, <3>2, <3>3, <3>4, HeldKept
    <2> QED BY <1>0, <1>1, <1>3, <1>8, <1>10, <2>2, <2>3, <2>4, <2>5, Follows2 DEF Stage
  <1> QED BY <1>9, <1>10 DEF Sides

\* A crossing is asked for: of a batch on offer it is owed from here on, and an event says so.
LEMMA FollowMove ==
    ASSUME Typed, OfferKept, NEW s \in Sides, NEW n \in Names, Following(s, n), last' = last,
           NEW m \in Moving, Move(m)
    PROVE  Following(s, n)'
  <1>0. /\ Pure(n) /\ Stage(s, On(s, n)) /\ link = "up" /\ last = [side |-> s, of |-> On(s, n)]
        /\ clip[s] = On(s, n) /\ rx \in Seq(RxOf(n))
    BY DEF Following, Pure
  <1>1. /\ UNCHANGED <<clip, lastSent, lastSet, localOffer, prev, remoteOffer, link, toWindows, toLinux>>
        /\ UNCHANGED <<fresh, polled, pullRequest, sending, applyQueue, applied>>
        /\ rx' = Append(rx, Msg(m, None)) /\ m \notin {"data", "copied", "offer"}
        /\ owed' = (owed \/ (OnOffer /\ ~Offering /\ m # (IF last.side = "linux" THEN "local" ELSE "remote")))
    BY DEF Move, windows, Moving
  <1>2. PICK e \in RxOf(n) : e = Msg(m, None) /\ e.t = m
    BY <1>1, MsgType DEF Msg, RxOf
  <1>3. rx' \in Seq(RxOf(n)) /\ \A t : Has(rx', t) <=> Has(rx, t) \/ m = t
    <2>1. rx' = Append(rx, e) BY <1>1, <1>2
    <2>2. PICK r, u : r = rx /\ u = rx' OBVIOUS
    <2>3. \A t : Has(u, t) <=> Has(r, t) \/ e.t = t BY <1>0, <2>1, <2>2, HasAppend
    <2> QED BY <1>0, <1>2, <2>1, <2>2, <2>3, AppendSeq
  <1>4. Pure(n)' BY <1>0, <1>1, <1>3 DEF Pure
  <1>5. \A c : Coming(c)' <=> Coming(c) BY <1>1 DEF Coming, NewestPull, NoPull
  <1>6. owed' => owed \/ (OnOffer /\ ~Offering /\ m # (IF s = "linux" THEN "local" ELSE "remote")) BY <1>0, <1>1
  <1>7. OnOffer => Known(s, On(s, n))
    <2>1. OnOffer => localOffer[s] = On(s, n) /\ On(s, n) # None BY <1>0, Apart DEF OnOffer
    <2> QED BY <2>1 DEF OfferKept, Known
  <1>8. CASE s = "linux"
    <2>1. PICK c : c = On("linux", n) /\ c # None /\ clip["linux"] = c BY <1>0, <1>8, Apart
    <2>2. ASSUME NewOnLinux(c) PROVE NewOnLinux(c)'
      <3>1. ~OnOffer BY <1>7, <1>8, <2>1, <2>2 DEF NewOnLinux
      <3>2. ~owed' BY <1>6, <2>2, <3>1 DEF NewOnLinux
      <3> QED BY <1>1, <1>3, <2>2, <3>2 DEF NewOnLinux, Known, Has
    <2>3. GoneToWindows(c) => GoneToWindows(c)' BY <1>1 DEF GoneToWindows, Has
    <2>4. ASSUME HeldOnLinux(c) PROVE HeldOnLinux(c)'
      <3>1. owed' => Has(rx', "remote") \/ Has(rx', "both")
        BY <1>3, <1>6, <1>8, <2>4 DEF HeldOnLinux, Moving
      <3> QED BY <1>1, <2>4, <3>1 DEF HeldOnLinux, Lazy
    <2> QED BY <1>0, <1>1, <1>4, <1>8, <2>1, <2>2, <2>3, <2>4, Follows2 DEF Stage
  <1>9. CASE s = "windows"
    <2>1. PICK c : c = On("windows", n) BY <1>0
    <2>2. ASSUME NewOnWindows(c) PROVE NewOnWindows(c)'
      <3>1. ~OnOffer BY <1>7, <1>9, <2>1, <2>2 DEF NewOnWindows
      <3>2. ~owed' BY <1>6, <2>2, <3>1 DEF NewOnWindows
      <3> QED BY <1>1, <1>3, <2>2, <3>2 DEF NewOnWindows, Known, Has
    <2>3. GoneToLinux(c) => GoneToLinux(c)' BY <1>1, <1>3 DEF GoneToLinux, Has
    <2>4. ASSUME HeldOnWindows(c) PROVE HeldOnWindows(c)'
      <3>1. Offering' <=> Offering BY <1>1, <1>3 DEF Offering, Has
      <3>2. owed' => ~Offering /\ (Has(rx', "local") \/ Has(rx', "both") \/ Coming(c))
        BY <1>3, <1>6, <1>9, <2>4 DEF HeldOnWindows, Moving
      <3> QED BY <1>1, <1>5, <2>4, <3>1, <3>2 DEF HeldOnWindows, Lazy
    <2> QED BY <1>0, <1>1, <1>4, <1>9, <2>1, <2>2, <2>3, <2>4, Follows2 DEF Stage
  <1> QED BY <1>8, <1>9 DEF Sides

\* A copy made when nothing is under way, which its agent will notice.
LEMMA FollowCopy ==
    ASSUME Typed, NEW s \in Sides, NEW n \in Names, Copy(s, n), ~excused'
    PROVE  Following(s, n)'
  <1>0. /\ clip \in [Sides -> Maybe] /\ "linux" \in Sides /\ "windows" \in Sides /\ "linux" # "windows"
        /\ fresh \in BOOLEAN
    BY DEF Typed, Data, Held, Flags, Sides
  <1>1. PICK c : c = On(s, n) /\ c \in Contents /\ c.name = n /\ c # None BY Apart
  <1>2. Idle /\ ~Unnoticed(s, c) BY <1>1 DEF Copy
  <1>3. /\ clip'[s] = c /\ (s = "linux" => clip'["windows"] = clip["windows"])
        /\ (s = "windows" => clip'["linux"] = clip["linux"])
        /\ (s = "windows" => fresh') /\ (s = "linux" => fresh' = fresh)
        /\ last' = [side |-> s, of |-> c] /\ ~owed'
    BY <1>0, <1>1 DEF Copy
  <1>4. UNCHANGED <<lastSent, lastSet, prev, rx, link, polled, applyQueue, applied, toWindows, toLinux>>
    BY DEF Copy, linux
  <1>5. /\ rx = << >> /\ toWindows = << >> /\ toLinux = << >> /\ applyQueue = << >> /\ ~fresh
        /\ polled = None /\ applied = None /\ clip["linux"] \in {None, prev} /\ link = "up"
    BY <1>2 DEF Idle
  <1>6. \A t : ~Has(rx', t) /\ ~Has(toWindows', t) /\ ~Has(toLinux', t) BY <1>4, <1>5, HasOne
  <1>7. Pure(n)'
    <2>1. /\ << >> \in Seq(RxOf(n)) /\ << >> \in Seq(ToLinuxOf(n)) /\ << >> \in Seq(ToWindowsOf(n))
          /\ << >> \in Seq(FormsOf(n))
      OBVIOUS
    <2>2. clip'["linux"] \in {None, prev', On("linux", n)} BY <1>1, <1>3, <1>4, <1>5 DEF Sides
    <2>3. fresh' => clip'["windows"] = On("windows", n) BY <1>1, <1>3, <1>5 DEF Sides
    <2> QED BY <1>4, <1>5, <2>1, <2>2, <2>3 DEF Pure
  <1>8. ~Known(s, c)' BY <1>2, <1>4 DEF Unnoticed, Known
  <1>9. s = "linux" => NewOnLinux(c)'
    <2> SUFFICES ASSUME s = "linux" PROVE NewOnLinux(c)' OBVIOUS
    <2>1. clip'["linux"] # prev' BY <1>2, <1>3, <1>4 DEF Unnoticed
    <2>2. ~fresh' BY <1>3, <1>5
    <2> QED BY <1>3, <1>4, <1>5, <1>6, <1>8, <2>1, <2>2 DEF NewOnLinux, Known, Has
  <1>10. s = "windows" => NewOnWindows(c)'
    <2> SUFFICES ASSUME s = "windows" PROVE NewOnWindows(c)' OBVIOUS
    <2>1. clip'["linux"] \in {None, prev'} BY <1>3, <1>4, <1>5
    <2> QED BY <1>3, <1>4, <1>5, <1>6, <1>8, <2>1 DEF NewOnWindows, Known, Has
  <1>11. Stage(s, c)' BY <1>9, <1>10 DEF Stage, Sides
  <1> QED BY <1>1, <1>3, <1>4, <1>5, <1>7, <1>11 DEF Following, On

LEMMA NextKept == Typed /\ OfferKept /\ [Next]_vars => OfferKept'
  <1> SUFFICES ASSUME Typed, OfferKept, [Next]_vars PROVE OfferKept' OBVIOUS
  <1>0. localOffer \in [Sides -> Maybe] /\ lastSent \in [Sides -> Maybe] /\ Sides = {"linux", "windows"}
    BY DEF Sides, Typed, Data, Held
  <1>1. \/ UNCHANGED <<localOffer, lastSent>>
        \/ UNCHANGED lastSent /\ \E s \in Sides : localOffer' = [localOffer EXCEPT ![s] = None]
        \/ \E s \in Sides : \E c : /\ localOffer' = [localOffer EXCEPT ![s] = c] \/ localOffer' = [localOffer EXCEPT ![s] = None]
                                   /\ lastSent' = [lastSent EXCEPT ![s] = c]
    <2>1. CASE Main
      <3>1. CASE OfferFiles \/ SendText BY <1>0, <3>1 DEF OfferFiles, SendText
      <3>2. CASE ~OfferFiles /\ ~SendText
        BY <1>0, <2>1, <3>2 DEF Main, Skip, NewLocal, LocalFails, LocalGone, DataArrives, DataFails,
           OfferArrives, SessionEnds, Reconnect, Crossed, CrossedFails, Control
      <3> QED BY <3>1, <3>2
    <2>2. CASE Watch \/ Receive \/ Reader \/ Applier \/ User \/ UNCHANGED vars
      BY <2>2 DEF Watch, Receive, Reader, ReadData, ReadOffer, ReadPull, Read, Applier, ApplySet, ApplyRecord,
         ApplyFails, User, Copy, Move, LinkLost, vars
    <2>3. CASE Loop
      <3>1. CASE OfferPolled \/ SendPolled BY <1>0, <3>1 DEF OfferPolled, SendPolled
      <3>2. CASE TakePull \/ Poll \/ FilesSent \/ FilesGivenUp \/ Stale
        BY <1>0, <3>2 DEF TakePull, Poll, SendLoop, FilesSent, FilesGivenUp, Sending, Stale, Decide
      <3> QED BY <2>3, <3>1, <3>2 DEF Loop
    <2> QED BY <2>1, <2>2, <2>3 DEF Next
  <1> QED BY <1>0, <1>1 DEF OfferKept

LEMMA NextWins == Typed /\ OfferKept /\ WinsInv /\ [Next]_vars => WinsInv'
  <1> SUFFICES ASSUME Typed, OfferKept, WinsInv, [Next]_vars PROVE WinsInv' OBVIOUS
  <1>1. CASE \E s \in Sides, n \in Names : Copy(s, n)
    <2>1. PICK s \in Sides, n \in Names : Copy(s, n) BY <1>1
    <2>2. last' = [side |-> s, of |-> On(s, n)] BY <2>1 DEF Copy
    <2>3. Accounted' BY <2>2 DEF Accounted, On
    <2>4. ~excused' => Following(s, n)' BY <2>1, FollowCopy
    <2> QED BY <2>3, <2>4 DEF WinsInv
  <1>2. CASE \A s \in Sides, n \in Names : ~Copy(s, n)
    <2>1. last' = last
      BY <1>2 DEF Next, vars, user, near, Watch, Receive, Main, Skip, NewLocal, OfferFiles, SendText, LocalFails,
         LocalGone, DataArrives, DataFails, OfferArrives, SessionEnds, Reconnect, Crossed, CrossedFails, Control,
         Handle, Reader, ReadData, ReadOffer, ReadPull, Read, Applier, ApplySet, ApplyRecord, ApplyFails, Loop,
         TakePull, Poll, SendLoop, FilesSent, FilesGivenUp, Sending, Stale, OfferPolled, SendPolled, Decide, User,
         Move, LinkLost
    <2>2. Accounted' BY <2>1 DEF WinsInv, Accounted, On
    <2> SUFFICES ASSUME ~excused', last'.of # None PROVE \E s \in Sides, n \in Names : Following(s, n)'
      BY <2>2 DEF WinsInv
    <2>3. ~excused /\ \A f : ~Fault(f) BY <1>2, Undisturbed
    <2>4. PICK s \in Sides, n \in Names : Following(s, n) BY <2>1, <2>3 DEF WinsInv
    <2>5. link = "up" BY <2>4 DEF Following
    <2>6. CASE Main
      <3>1. /\ ~LocalFails /\ ~SessionEnds /\ ~Reconnect /\ ~LocalGone /\ ~DataFails
            /\ \A m \in Moving : ~CrossedFails(m)
        BY <2>3, <2>5 DEF LocalFails, SessionEnds, Reconnect, CrossedFails, WriteFails, LocalGone, DataFails
      <3> QED BY <2>1, <2>3, <2>4, <2>6, <3>1, FollowLocal, FollowArrival, FollowOffer, FollowCrossing DEF Main
    <2>7. CASE Watch \/ Receive BY <2>1, <2>4, <2>7, FollowPosted
    <2>8. CASE Reader BY <2>1, <2>4, <2>8, FollowReader
    <2>9. CASE Applier
      <3>1. ~ApplyFails BY <2>3 DEF ApplyFails
      <3> QED BY <2>1, <2>4, <2>9, <3>1, FollowApplier DEF Applier
    <2>10. CASE Loop BY <2>1, <2>3, <2>4, <2>10, FollowLoop
    <2>11. CASE User
      <3>1. ~LinkLost BY <2>3 DEF LinkLost
      <3> QED BY <1>2, <2>1, <2>4, <2>11, <3>1, FollowMove DEF User
    <2>12. CASE UNCHANGED vars
      <3>1. UNCHANGED <<clip, lastSent, lastSet, localOffer, prev, rx, remoteOffer, link, fresh, polled, pullRequest,
                        sending, applyQueue, applied, toWindows, toLinux, last, owed>>
        BY <2>12 DEF vars, linux, windows, user
      <3> QED BY <2>4, <3>1 DEF Following, Pure, Stage, NewOnLinux, GoneToWindows, HeldOnLinux, NewOnWindows,
             GoneToLinux, HeldOnWindows, Offering, Coming, NewestPull, NoPull, Known, Has, Lazy, On
    <2> QED BY <2>6, <2>7, <2>8, <2>9, <2>10, <2>11, <2>12 DEF Next
  <1> QED BY <1>1, <1>2

\* The last copy wins (clipboard.rs:4-7): unless it was made while something was under way, was one
\* its agent does not notice, or a fault or the sending of an older batch disturbed it, both
\* machines end up with it, or it is a batch on offer that nobody has crossed over for since it
\* has been on offer.
THEOREM LastWins == Spec => []LastCopyWins
  <1>1. Init => WinsInv /\ OfferKept BY DEF Init, WinsInv, Accounted, OfferKept
  <1>2. Typed /\ WinsInv => LastCopyWins
    <2> SUFFICES ASSUME Typed, WinsInv, Idle, ~excused, last.of # None PROVE Alike \/ (OnOffer /\ ~owed)
      BY DEF LastCopyWins
    <2>1. PICK s \in Sides, n \in Names : Following(s, n) BY DEF WinsInv
    <2>2. PICK c : c = On(s, n) /\ c.name = n /\ c # None BY Apart
    <2>3. Pure(n) /\ Stage(s, c) /\ last = [side |-> s, of |-> c] /\ clip[s] = c BY <2>1, <2>2 DEF Following
    <2>4. /\ rx = << >> /\ toWindows = << >> /\ toLinux = << >> /\ applyQueue = << >> /\ ~fresh
          /\ polled = None /\ sending = None /\ pullRequest = None /\ clip["linux"] \in {None, prev}
      BY DEF Idle
    <2>5. \A t : ~Has(rx, t) /\ ~Has(toWindows, t) /\ ~Has(toLinux, t) BY <2>4, HasOne
    <2>6. CASE s = "linux"
      <3>1. ~NewOnLinux(c) BY <2>2, <2>3, <2>4, <2>5, <2>6 DEF NewOnLinux
      <3>2. GoneToWindows(c) => Alike BY <2>3, <2>4, <2>5, <2>6 DEF GoneToWindows, Alike
      <3>3. HeldOnLinux(c) => OnOffer /\ ~owed BY <2>3, <2>5, <2>6 DEF HeldOnLinux, OnOffer
      <3> QED BY <2>2, <2>3, <2>6, <3>1, <3>2, <3>3 DEF Stage
    <2>7. CASE s = "windows"
      <3>1. ~NewOnWindows(c) BY <2>4 DEF NewOnWindows
      <3>2. GoneToLinux(c) => Alike BY <2>3, <2>5, <2>7 DEF GoneToLinux, Alike
      <3>3. ~Coming(c)
        <4>1. Len(toWindows) = 0 BY <2>4
        <4>2. ~NewestPull(toWindows, c) BY <4>1 DEF NewestPull
        <4> QED BY <2>2, <2>4, <4>2 DEF Coming
      <3>4. HeldOnWindows(c) => OnOffer /\ ~owed BY <2>3, <2>5, <2>7, <3>3 DEF HeldOnWindows, Offering, OnOffer
      <3> QED BY <2>2, <2>3, <2>7, <3>1, <3>2, <3>4 DEF Stage
    <2> QED BY <2>6, <2>7 DEF Sides
  <1> QED BY <1>1, <1>2, InitTyped, NextTyped, NextKept, NextWins, PTL DEF Spec

-----------------------------------------------------------------------------
(* What was set is not sent back.  Once the last copy has crossed over, the  *)
(* agent that set it has recorded it before its own watcher can see it; the  *)
(* helper's applier may have set it and not recorded it yet.                 *)

SetBefore(n) == Has(rx, "copied") \/ clip["linux"] \notin {None, prev} => lastSet["linux"] = On("linux", n)
SetOrSetting(n) == fresh \/ polled # None => On("windows", n) \in {lastSet["windows"], applied}
Silent(s, n) == /\ applied \in {None, On("windows", n)}
                /\ IF s = "linux" THEN SetOrSetting(n) ELSE SetBefore(n)
EchoInv == \A s \in Sides, n \in Names :
               ~excused /\ last = [side |-> s, of |-> On(s, n)] => Silent(s, n)

\* The copy that is followed is the last one.
LEMMA FollowedIsLast ==
    ASSUME WinsInv, ~excused, NEW s \in Sides, NEW n \in Names, last = [side |-> s, of |-> On(s, n)]
    PROVE  Pure(n)
  <1>1. last.of = On(s, n) /\ last.of # None BY Apart
  <1>2. PICK s2 \in Sides, n2 \in Names : Following(s2, n2) BY <1>1 DEF WinsInv
  <1>3. last.of = On(s2, n2) /\ On(s2, n2).name = n2 /\ On(s, n).name = n BY <1>2, Apart DEF Following
  <1> QED BY <1>1, <1>2, <1>3 DEF Following

LEMMA SilentLinux ==
    ASSUME Typed, NEW n \in Names, Pure(n), SetBefore(n), [Next]_vars, \A f : ~Fault(f),
           \A s \in Sides, m \in Names : ~Copy(s, m)
    PROVE  SetBefore(n)'
  <1>0. /\ clip \in [Sides -> Maybe] /\ lastSet \in [Sides -> Maybe] /\ rx \in Seq(RxEvents)
        /\ "linux" \in Sides /\ "windows" \in Sides /\ "linux" # "windows"
    BY DEF Typed, Data, Held, LinuxTyped, Sides
  <1>1. ASSUME UNCHANGED prev, clip'["linux"] = clip["linux"], lastSet'["linux"] = lastSet["linux"],
               Has(rx, "copied")' => Has(rx, "copied")
        PROVE  SetBefore(n)'
    BY <1>1 DEF SetBefore, On
  <1>2. CASE Watch
    <2>1. clip["linux"] \notin {None, prev} /\ UNCHANGED <<clip, lastSet>> BY <1>2 DEF Watch
    <2> QED BY <2>1 DEF SetBefore, On
  <1>3. CASE Receive
    <2>1. UNCHANGED <<prev, clip, lastSet>> /\ rx' = Append(rx, Head(toLinux)) /\ toLinux # << >>
      BY <1>3 DEF Receive
    <2>2. Head(toLinux) \in RxEvents /\ Head(toLinux).t # "copied"
      <3>1. Head(toLinux) \in Messages BY <2>1, TailSeq DEF Typed, Data, WireTyped
      <3> QED BY <3>1, MsgType DEF Messages
    <2>3. PICK r, u : r = rx /\ u = rx' OBVIOUS
    <2>4. Has(u, "copied") => Has(r, "copied") BY <1>0, <2>1, <2>2, <2>3, HasAppend
    <2> QED BY <1>1, <2>1, <2>3, <2>4
  <1>4. CASE Main
    <2>1. CASE DataArrives
      <3>1. Handle("data") BY <2>1 DEF DataArrives
      <3>2. Head(rx) \in RxOf(n) /\ Head(rx).t = "data" BY <3>1, Takes
      <3>3. Event.name = n BY <3>2 DEF Event, RxOf
      <3>4. lastSet'["linux"] = On("linux", n) BY <1>0, <2>1, <3>3 DEF DataArrives, Recorded, Arrival
      <3> QED BY <3>4 DEF SetBefore, On
    <2>2. CASE SessionEnds \/ Reconnect
      <3>1. UNCHANGED <<prev, rx, clip, lastSet>> BY <2>2 DEF SessionEnds, Reconnect
      <3> QED BY <1>1, <3>1
    <2>3. CASE ~DataArrives /\ ~SessionEnds /\ ~Reconnect
      <3>1. UNCHANGED <<clip, lastSet>> /\ \E kind : Handle(kind)
        BY <1>4, <2>3 DEF Main, Skip, NewLocal, OfferFiles, SendText, LocalFails, LocalGone, DataFails, OfferArrives,
           Crossed, CrossedFails, Control
      <3>2. UNCHANGED prev /\ (Has(rx, "copied")' => Has(rx, "copied"))
        <4>1. PICK kind : Handle(kind) BY <3>1
        <4>2. rx' = Tail(rx) /\ rx # << >> /\ UNCHANGED prev BY <4>1 DEF Handle
        <4>3. PICK r, u : r = rx /\ u = rx' OBVIOUS
        <4>4. Has(u, "copied") => Has(r, "copied") BY <1>0, <4>2, <4>3, HasTail
        <4> QED BY <4>2, <4>3, <4>4
      <3> QED BY <1>1, <3>1, <3>2
    <2> QED BY <2>1, <2>2, <2>3
  <1>5. CASE Reader \/ Applier \/ Loop \/ UNCHANGED vars
    <2>1. UNCHANGED <<prev, rx>>
      BY <1>5 DEF Reader, ReadData, ReadOffer, ReadPull, Read, Applier, ApplySet, ApplyRecord, ApplyFails, Loop,
         TakePull, Poll, SendLoop, FilesSent, FilesGivenUp, Sending, Stale, OfferPolled, SendPolled, Decide,
         near, linux, vars
    <2>2. clip'["linux"] = clip["linux"] /\ lastSet'["linux"] = lastSet["linux"]
      BY <1>0, <1>5 DEF Reader, ReadData, ReadOffer, ReadPull, Read, Applier, ApplySet, ApplyRecord, ApplyFails, Loop,
         TakePull, Poll, SendLoop, FilesSent, FilesGivenUp, Sending, Stale, OfferPolled, SendPolled, Decide, vars
    <2> QED BY <1>1, <2>1, <2>2
  <1>6. CASE User
    <2>1. PICK m \in Moving : Move(m) BY <1>6 DEF User, LinkLost
    <2>2. UNCHANGED <<prev, clip, lastSet>> /\ rx' = Append(rx, Msg(m, None)) BY <2>1 DEF Move
    <2>3. PICK e \in RxEvents : e = Msg(m, None) /\ e.t # "copied" BY MsgType DEF Msg, Moving
    <2>4. PICK r, u : r = rx /\ u = rx' OBVIOUS
    <2>5. Has(u, "copied") => Has(r, "copied") BY <1>0, <2>2, <2>3, <2>4, HasAppend
    <2> QED BY <1>1, <2>2, <2>4, <2>5
  <1> QED BY <1>2, <1>3, <1>4, <1>5, <1>6 DEF Next

LEMMA SilentWindows ==
    ASSUME Typed, NEW n \in Names, Pure(n), applied \in {None, On("windows", n)}, [Next]_vars,
           \A s \in Sides, m \in Names : ~Copy(s, m)
    PROVE  /\ applied' \in {None, On("windows", n)}
           /\ SetOrSetting(n) => SetOrSetting(n)'
  <1>0. /\ lastSet \in [Sides -> Maybe] /\ "linux" \in Sides /\ "windows" \in Sides /\ "linux" # "windows"
        /\ On("windows", n) # None
    BY Apart DEF Typed, Data, Held, Sides
  <1>1. ASSUME lastSet'["windows"] = lastSet["windows"], applied' = applied, fresh' \/ polled' # None => fresh \/ polled # None
        PROVE  /\ applied' \in {None, On("windows", n)}
               /\ SetOrSetting(n) => SetOrSetting(n)'
    BY <1>1 DEF SetOrSetting, On
  <1>2. CASE ApplySet
    <2>1. applyQueue # << >> /\ applied' = On("windows", Head(applyQueue).name) BY <1>2 DEF ApplySet
    <2>2. Head(applyQueue) \in FormsOf(n) BY <2>1, TailSeq DEF Pure
    <2>3. applied' = On("windows", n) BY <2>1, <2>2 DEF FormsOf
    <2> QED BY <2>3 DEF SetOrSetting, On
  <1>3. CASE ApplyRecord
    <2>1. applied = On("windows", n) /\ lastSet'["windows"] = applied /\ applied' = None
      BY <1>0, <1>3 DEF ApplyRecord
    <2> QED BY <2>1 DEF SetOrSetting, On
  <1>4. CASE Loop
    <2>1. UNCHANGED <<lastSet, applied>> /\ (fresh' \/ polled' # None => fresh \/ polled # None)
      BY <1>4 DEF Loop, TakePull, Poll, SendLoop, FilesSent, FilesGivenUp, Sending, Stale, OfferPolled, SendPolled, Decide
    <2> QED BY <1>1, <2>1
  <1>5. CASE Main
    <2>1. UNCHANGED windows
      BY <1>5 DEF Main, Skip, NewLocal, OfferFiles, SendText, LocalFails, LocalGone, DataArrives, DataFails,
         OfferArrives, SessionEnds, Reconnect, Crossed, CrossedFails, Control, Handle
    <2>2. lastSet'["windows"] = lastSet["windows"]
      BY <1>0, <1>5 DEF Main, Skip, NewLocal, OfferFiles, SendText, LocalFails, LocalGone, DataArrives, DataFails,
         Recorded, OfferArrives, SessionEnds, Reconnect, Crossed, CrossedFails, Control
    <2> QED BY <1>1, <2>1, <2>2 DEF windows
  <1>6. CASE Watch \/ Receive \/ Reader \/ ApplyFails \/ User \/ UNCHANGED vars
    <2>1. UNCHANGED <<lastSet, applied, fresh, polled>>
      BY <1>6 DEF Watch, Receive, Reader, ReadData, ReadOffer, ReadPull, Read, ApplyFails, User, Move, LinkLost,
         windows, vars
    <2> QED BY <1>1, <2>1
  <1> QED BY <1>2, <1>3, <1>4, <1>5, <1>6 DEF Next, Applier

LEMMA NextEcho == Typed /\ WinsInv /\ EchoInv /\ [Next]_vars => EchoInv'
  <1> SUFFICES ASSUME Typed, WinsInv, EchoInv, [Next]_vars, ~excused',
                      NEW s \in Sides, NEW n \in Names, last' = [side |-> s, of |-> On(s, n)]
               PROVE  Silent(s, n)'
    BY DEF EchoInv, On
  <1>1. CASE \E s2 \in Sides, n2 \in Names : Copy(s2, n2)
    <2>1. PICK s2 \in Sides, n2 \in Names : Copy(s2, n2) BY <1>1
    <2>2. last' = [side |-> s2, of |-> On(s2, n2)] BY <2>1 DEF Copy
    <2>3. s2 = s
      <3>1. last'.side = s BY <1>1
      <3>2. last'.side = s2 BY <2>2
      <3> QED BY <3>1, <3>2
    <2>4. Idle BY <2>1 DEF Copy
    <2>5. /\ clip \in [Sides -> Maybe] /\ "linux" \in Sides /\ "windows" \in Sides /\ "linux" # "windows"
          /\ rx = << >> /\ applied = None /\ polled = None /\ ~fresh /\ clip["linux"] \in {None, prev}
      BY <2>4 DEF Idle, Typed, Data, Held, Sides
    <2>6. UNCHANGED <<rx, applied, polled, prev>> BY <2>1 DEF Copy, linux
    <2>7. ~Has(rx', "copied") BY <2>5, <2>6, HasOne
    <2>8. s = "linux" => ~fresh' BY <2>1, <2>3, <2>5 DEF Copy
    <2>9. s = "windows" => clip'["linux"] \in {None, prev'} BY <2>1, <2>3, <2>5, <2>6 DEF Copy
    <2> QED BY <2>5, <2>6, <2>7, <2>8, <2>9 DEF Silent, SetBefore, SetOrSetting, Has, Sides
  <1>2. CASE \A s2 \in Sides, n2 \in Names : ~Copy(s2, n2)
    <2>1. last' = last /\ ~excused /\ \A f : ~Fault(f) BY <1>2, Undisturbed
    <2>2. Silent(s, n) BY <2>1 DEF EchoInv
    <2>3. Pure(n) BY <2>1, FollowedIsLast
    <2>4. SetBefore(n) => SetBefore(n)' BY <1>2, <2>1, <2>3, SilentLinux
    <2>5. /\ applied' \in {None, On("windows", n)}
          /\ SetOrSetting(n) => SetOrSetting(n)'
      BY <1>2, <2>2, <2>3, SilentWindows DEF Silent
    <2> QED BY <2>2, <2>4, <2>5 DEF Silent, On
  <1> QED BY <1>1, <1>2

\* Echo loops are broken (clipboard.rs:13-14): as long as copies do not overlap and nothing fails,
\* no agent sends or offers what it has set itself, whatever moves between the machines; but the
\* helper may, between the setting of a content and the record of it.
THEOREM NotEchoed == Spec => NotSentBack
  <1>1. Init => WinsInv /\ OfferKept /\ EchoInv
    <2> SUFFICES ASSUME Init PROVE WinsInv /\ OfferKept /\ EchoInv OBVIOUS
    <2>1. last.of = None BY DEF Init
    <2>2. EchoInv BY <2>1, Apart DEF EchoInv
    <2> QED BY <2>2 DEF Init, WinsInv, Accounted, OfferKept
  <1>2. Typed /\ WinsInv /\ EchoInv /\ ~excused /\ last.of # None =>
            /\ SendText \/ OfferFiles => last = [side |-> "linux", of |-> Event]
            /\ SendPolled \/ OfferPolled => last = [side |-> "windows", of |-> polled] \/ polled = applied
    <2> SUFFICES ASSUME Typed, WinsInv, EchoInv, ~excused, last.of # None
                 PROVE  /\ SendText \/ OfferFiles => last = [side |-> "linux", of |-> Event]
                        /\ SendPolled \/ OfferPolled => last = [side |-> "windows", of |-> polled] \/ polled = applied
      OBVIOUS
    <2>1. PICK s \in Sides, n \in Names : Following(s, n) BY DEF WinsInv
    <2>2. last = [side |-> s, of |-> On(s, n)] /\ Pure(n) /\ Silent(s, n) BY <2>1 DEF Following, EchoInv
    <2>3. ASSUME SendText \/ OfferFiles PROVE s = "linux" /\ Event = On("linux", n)
      <3>1. Handle("copied") /\ ~Known("linux", Event) BY <2>3 DEF SendText, OfferFiles, NewLocal
      <3>2. Head(rx) \in RxOf(n) /\ Head(rx).t = "copied" /\ Has(rx, "copied") BY <2>2, <3>1, Takes
      <3>3. Event = On("linux", n) BY <3>2 DEF Event, RxOf
      <3>4. lastSet["linux"] # Event BY <3>1 DEF Known
      <3> QED BY <2>2, <3>2, <3>3, <3>4 DEF Silent, SetBefore, Sides
    <2>4. ASSUME SendPolled \/ OfferPolled PROVE polled = On("windows", n) /\ (s = "windows" \/ polled = applied)
      <3>1. polled # None /\ ~Known("windows", polled) BY <2>4 DEF SendPolled, OfferPolled, Decide
      <3>2. polled = On("windows", n) BY <2>2, <3>1 DEF Pure
      <3>3. lastSet["windows"] # polled BY <3>1 DEF Known
      <3> QED BY <2>2, <3>1, <3>2, <3>3 DEF Silent, SetOrSetting, Sides
    <2> QED BY <2>2, <2>3, <2>4
  <1>3. Typed /\ WinsInv /\ EchoInv /\ [Next]_vars => [~excused /\ last.of # None =>
            /\ SendText \/ OfferFiles => last = [side |-> "linux", of |-> Event]
            /\ SendPolled \/ OfferPolled => last = [side |-> "windows", of |-> polled] \/ polled = applied]_vars
    BY <1>2
  <1> QED BY <1>1, <1>3, InitTyped, NextTyped, NextKept, NextWins, NextEcho, PTL DEF Spec, NotSentBack
===========================================================================
