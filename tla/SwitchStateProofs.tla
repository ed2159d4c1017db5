-------------------------- MODULE SwitchStateProofs --------------------------
(***************************************************************************)
(* SwitchState keeps the promise of SwitchFeed, for any number of bits,    *)
(* any layout of bytes and any boards: an invariant that ties the events,  *)
(* the bitmap and the two threads' private copies together, and the step   *)
(* simulation that follows from it.                                        *)
(***************************************************************************)
EXTENDS SwitchState, Integers, TLAPS

\* What the bus thread is in the middle of changing.
Moving(s) == bus \in Applying /\ Owner[s] = board

\* A call of SetVirtualSwitchState has flipped the state and not yet told of
\* it; its bit follows under the lock.
VirtualAnnounced ==
  \A v \in Switches \ Real :
    announced[v] = IF host # "idle" /\ v = target THEN ~vstate[v] ELSE vstate[v]

VirtualBit ==
  \A v \in Switches \ (Real \cup reverted) :
    ~(host \in {"read", "write"} /\ v = target) => bitmap[v] = vstate[v]

HostTarget == host # "idle" => target \in Switches \ Real

RealAtRest ==
  \A s \in Real \ reverted :
    ~Moving(s) => announced[s] = reported[s] /\ bitmap[s] = reported[s]

\* The first loop has announced what lies before the position it is at.
RealInDiff ==
  bus = "diff" => \A s \in Real \ reverted : Owner[s] = board =>
    /\ s < position => announced[s] = incoming[s]
    /\ s >= position => announced[s] = bitmap[s]

\* The second loop has replaced what lies before the byte it is at.
RealInMerge ==
  bus \in {"mergeRead", "mergeWrite"} =>
    \A s \in Real \ reverted : Owner[s] = board =>
      /\ announced[s] = incoming[s]
      /\ ByteOf[s] < position => bitmap[s] = incoming[s]

FrameIsReported ==
  bus \in Applying =>
    /\ board \in Boards \ Virtual
    /\ \A s \in Switches : Owner[s] = board => reported[s] = incoming[s]

\* Only a byte the host writes, too, can change under the second loop.
ByteIsCurrent ==
  bus = "mergeWrite" =>
    \A s \in Real \ Exposed : ByteOf[s] = position => busByte[s] = bitmap[s]

FeedInv ==
  /\ VirtualAnnounced /\ VirtualBit /\ HostTarget
  /\ RealAtRest /\ RealInDiff /\ RealInMerge
  /\ FrameIsReported /\ ByteIsCurrent

-----------------------------------------------------------------------------

LEMMA RealSwitches == Real \subseteq Switches /\ Exposed \subseteq Real
  BY DEF Real, Exposed

LEMMA InitType == Init => TypeOK
  <1> SUFFICES ASSUME Init
               PROVE  TypeOK
    OBVIOUS
  <1>1. Clear \in Bitmap /\ 0 \in Switches
    BY LayoutAssumption DEF Clear, Bitmap, Switches
  <1>2. bitmap \in Bitmap /\ vstate \in Bitmap /\ hostByte \in Bitmap
        /\ incoming \in Bitmap /\ busByte \in Bitmap /\ announced \in Bitmap
        /\ reported \in Bitmap /\ told \in Bitmap
    BY <1>1 DEF Init
  <1>3. queue \in Seq(Event) /\ dirty \in [Boards -> BOOLEAN]
    BY DEF Init
  <1>4. position \in 0..(IF bus = "diff" THEN Bits ELSE Bytes)
    BY LayoutAssumption DEF Init
  <1>5. QED
    BY <1>1, <1>2, <1>3, <1>4 DEF Init, TypeOK, Replying

\* Pushing an event keeps queue and announced in type.
LEMMA PushType ==
  ASSUME TypeOK, NEW s \in Switches, NEW on \in BOOLEAN, Push(s, on)
  PROVE  queue' \in Seq(Event) /\ announced' \in Bitmap
  BY DEF TypeOK, Push, Event, Bitmap

LEMMA HostStepType ==
  ASSUME TypeOK, HostThread
  PROVE  TypeOK'
  <1>1. ASSUME NEW v \in Switches, NEW on \in BOOLEAN, SetVirtualSwitchState(v, on)
        PROVE  TypeOK'
    BY <1>1, BoardAssumption
    DEF TypeOK, SetVirtualSwitchState, Bitmap, busTurn
  <1>2. CASE SetBitRead
    BY <1>2 DEF TypeOK, SetBitRead, ReadByte, Bitmap, busTurn, replies
  <1>3. CASE SetBitWrite
    <2>1. bitmap' \in Bitmap
      BY <1>3 DEF TypeOK, SetBitWrite, Bitmap
    <2>2. reverted' \subseteq Switches
      BY <1>3 DEF TypeOK, SetBitWrite
    <2>3. QED
      BY <1>3, <2>1, <2>2 DEF TypeOK, SetBitWrite, Clear, Bitmap, busTurn, replies
  <1>4. CASE SetPush
    <2>1. queue' \in Seq(Event) /\ announced' \in Bitmap
      BY <1>4, PushType DEF SetPush, TypeOK, Bitmap
    <2>2. QED
      BY <1>4, <2>1 DEF TypeOK, SetPush, busTurn, replies
  <1>5. CASE GetNextSwitchState
    BY <1>5 DEF TypeOK, GetNextSwitchState, hostCall, busTurn, replies
  <1>6. QED
    BY <1>1, <1>2, <1>3, <1>4, <1>5 DEF HostThread

LEMMA ApplyStepType ==
  ASSUME TypeOK, DiffBit \/ DiffEnd \/ MergeRead \/ MergeWrite \/ MergeEnd
  PROVE  TypeOK'
  <1> USE DEF Applying, Replying
  <1>1. CASE DiffBit
    <2>1. position \in Switches /\ position + 1 \in 0..Bits
      BY <1>1, LayoutAssumption DEF TypeOK, DiffBit, Switches
    <2>2. queue' \in Seq(Event) /\ announced' \in Bitmap
      BY <1>1, <2>1, PushType DEF DiffBit, TypeOK, Bitmap
    <2>3. QED
      BY <1>1, <2>1, <2>2 DEF TypeOK, DiffBit, hostCall, replies
  <1>2. CASE DiffEnd
    BY <1>2, LayoutAssumption DEF TypeOK, DiffEnd, hostCall, replies, Applying
  <1>3. CASE MergeRead
    BY <1>3 DEF TypeOK, MergeRead, ReadByte, Bitmap, hostCall, replies, Applying
  <1>4. CASE MergeWrite
    <2>1. bitmap' \in Bitmap /\ reverted' \subseteq Switches
      BY <1>4 DEF TypeOK, MergeWrite, Bitmap
    <2>2. position + 1 \in 0..Bytes
      BY <1>4, LayoutAssumption DEF TypeOK, MergeWrite
    <2>3. QED
      BY <1>4, <2>1, <2>2 DEF TypeOK, MergeWrite, Clear, Bitmap, hostCall, replies, Applying
  <1>5. CASE MergeEnd
    BY <1>5, LayoutAssumption DEF TypeOK, MergeEnd, Clear, Bitmap, hostCall, replies
  <1>6. QED
    BY <1>1, <1>2, <1>3, <1>4, <1>5

LEMMA ReplyStepType ==
  ASSUME TypeOK,
         \/ \E b \in Boards, frame \in Bitmap : ReceiveState(b, frame)
         \/ \E b \in Boards : ReplyBegin(b)
         \/ ReplyCopy \/ ReplyWrite \/ ReplyFails \/ ReplyClear
  PROVE  TypeOK'
  <1> USE DEF Applying, Replying
  <1>1. ASSUME NEW b \in Boards, NEW frame \in Bitmap, ReceiveState(b, frame)
        PROVE  TypeOK'
    BY <1>1, LayoutAssumption
    DEF TypeOK, ReceiveState, Bitmap, hostCall, replies, Applying
  <1>2. ASSUME NEW b \in Boards, ReplyBegin(b)
        PROVE  TypeOK'
    BY <1>2 DEF TypeOK, ReplyBegin, hostCall, Replying, Applying
  <1>3. CASE ReplyCopy
    BY <1>3 DEF TypeOK, ReplyCopy, hostCall, replies, Replying
  <1>4. CASE ReplyWrite
    <2>1. told' \in Bitmap
      BY <1>4 DEF TypeOK, ReplyWrite, Bitmap
    <2>2. QED
      BY <1>4, <2>1 DEF TypeOK, ReplyWrite, Clear, Bitmap, hostCall, Replying
  <1>5. CASE ReplyFails
    BY <1>5 DEF TypeOK, ReplyFails, Clear, Bitmap, hostCall
  <1>6. CASE ReplyClear
    <2>1. raced' \subseteq Virtual
      BY <1>6 DEF TypeOK, ReplyClear
    <2>2. QED
      BY <1>6, <2>1 DEF TypeOK, ReplyClear, hostCall
  <1>7. QED
    BY <1>1, <1>2, <1>3, <1>4, <1>5, <1>6

LEMMA NextType == TypeOK /\ [Next]_vars => TypeOK'
  <1> SUFFICES ASSUME TypeOK, [Next]_vars
               PROVE  TypeOK'
    OBVIOUS
  <1>1. CASE Next
    BY <1>1, HostStepType, ApplyStepType, ReplyStepType DEF Next, BusThread, Apply
  <1>2. CASE UNCHANGED vars
    BY <1>2 DEF TypeOK, vars, hostCall, busTurn, replies
  <1>3. QED
    BY <1>1, <1>2

\* Every variable keeps its type; in particular both loops of
\* ApplySwitchBitmapDiff stay within their bits and bytes.
THEOREM TypeCorrect == Spec => []TypeOK
  BY InitType, NextType, PTL DEF Spec

-----------------------------------------------------------------------------

LEMMA InitFeed == Init => FeedInv
  BY RealSwitches DEF Init, FeedInv, VirtualAnnounced, VirtualBit, HostTarget, RealAtRest,
     RealInDiff, RealInMerge, FrameIsReported, ByteIsCurrent, Clear, Applying

LEMMA SetFeed ==
  ASSUME TypeOK, FeedInv, NEW v \in Switches, NEW on \in BOOLEAN,
         SetVirtualSwitchState(v, on)
  PROVE  FeedInv'
  <1> USE DEF SetVirtualSwitchState, busTurn, FeedInv
  <1>1. v \in Switches \ Real /\ vstate'[v] = ~vstate[v] /\ announced[v] = vstate[v]
        /\ \A w \in Switches : w # v => vstate'[w] = vstate[w]
    BY DEF TypeOK, Bitmap, VirtualAnnounced
  <1>2. VirtualAnnounced'
    BY <1>1 DEF VirtualAnnounced, TypeOK, Bitmap
  <1>3. VirtualBit' /\ HostTarget'
    BY <1>1 DEF VirtualBit, HostTarget
  <1>4. RealAtRest' /\ RealInDiff' /\ RealInMerge' /\ FrameIsReported' /\ ByteIsCurrent'
    BY DEF RealAtRest, RealInDiff, RealInMerge, FrameIsReported, ByteIsCurrent, Moving
  <1>5. QED
    BY <1>2, <1>3, <1>4

LEMMA SetBitReadFeed ==
  ASSUME TypeOK, FeedInv, SetBitRead
  PROVE  FeedInv'
  BY DEF SetBitRead, busTurn, FeedInv, VirtualAnnounced, VirtualBit, HostTarget,
     RealAtRest, RealInDiff, RealInMerge, FrameIsReported, ByteIsCurrent, Moving

\* A bit the write changes is the target's, or becomes a reverted one.
LEMMA SetBitWriteFeed ==
  ASSUME TypeOK, FeedInv, SetBitWrite
  PROVE  FeedInv'
  <1> USE DEF SetBitWrite, busTurn, FeedInv
  <1>1. target \in Switches \ Real
    BY DEF HostTarget
  <1>2. ASSUME NEW s \in Switches \ reverted', s # target
        PROVE  s \notin reverted /\ bitmap'[s] = bitmap[s]
    BY <1>2
  <1>3. bitmap'[target] = vstate[target]
    BY <1>1
  <1>4. VirtualAnnounced' /\ HostTarget'
    BY DEF VirtualAnnounced, HostTarget
  <1>5. VirtualBit'
    BY <1>2, <1>3 DEF VirtualBit
  <1>6. RealAtRest' /\ RealInDiff' /\ RealInMerge'
    BY <1>1, <1>2, RealSwitches DEF RealAtRest, RealInDiff, RealInMerge, Moving
  <1>7. FrameIsReported'
    BY DEF FrameIsReported
  <1>8. ByteIsCurrent'
    <2> SUFFICES ASSUME bus = "mergeWrite", NEW s \in Real \ Exposed,
                        ByteOf[s] = position
                 PROVE  busByte[s] = bitmap'[s]
      BY DEF ByteIsCurrent
    <2>1. ByteOf[s] # ByteOf[target] /\ s \in Switches
      BY <1>1, RealSwitches DEF Exposed
    <2>2. bitmap'[s] = bitmap[s]
      BY <2>1
    <2>3. QED
      BY <2>2 DEF ByteIsCurrent
  <1>9. QED
    BY <1>4, <1>5, <1>6, <1>7, <1>8

LEMMA SetPushFeed ==
  ASSUME TypeOK, FeedInv, SetPush
  PROVE  FeedInv'
  <1> USE DEF SetPush, Push, busTurn, FeedInv
  <1>1. target \in Switches \ Real /\ announced'[target] = vstate[target]
        /\ \A s \in Switches : s # target => announced'[s] = announced[s]
    BY DEF HostTarget, TypeOK, Bitmap
  <1>2. VirtualAnnounced' /\ VirtualBit' /\ HostTarget'
    BY <1>1 DEF VirtualAnnounced, VirtualBit, HostTarget
  <1>3. RealAtRest' /\ RealInDiff' /\ RealInMerge' /\ FrameIsReported' /\ ByteIsCurrent'
    BY <1>1, RealSwitches
    DEF RealAtRest, RealInDiff, RealInMerge, FrameIsReported, ByteIsCurrent, Moving
  <1>4. QED
    BY <1>2, <1>3

LEMMA ReceiveFeed ==
  ASSUME TypeOK, FeedInv, NEW b \in Boards, NEW new \in Bitmap, ReceiveState(b, new)
  PROVE  FeedInv'
  <1> USE DEF ReceiveState, hostCall, FeedInv, Applying
  <1>1. ASSUME NEW s \in Real \ reverted
        PROVE  announced[s] = bitmap[s] /\ bitmap[s] = reported[s] /\ s \in Switches
    BY RealSwitches DEF RealAtRest, Moving
  <1>2. VirtualAnnounced' /\ VirtualBit' /\ HostTarget'
    BY DEF VirtualAnnounced, VirtualBit, HostTarget
  <1>3. RealAtRest'
    BY <1>1 DEF RealAtRest, Moving
  <1>4. RealInDiff' /\ RealInMerge' /\ ByteIsCurrent'
    BY <1>1, LayoutAssumption DEF RealInDiff, RealInMerge, ByteIsCurrent, Switches
  <1>5. FrameIsReported'
    BY DEF FrameIsReported
  <1>6. QED
    BY <1>2, <1>3, <1>4, <1>5

LEMMA DiffBitFeed ==
  ASSUME TypeOK, FeedInv, DiffBit
  PROVE  FeedInv'
  <1> USE DEF DiffBit, hostCall, FeedInv, Applying
  <1>1. position \in Switches
    BY LayoutAssumption DEF TypeOK, Switches
  <1>2. \A s \in Switches : s # position => announced'[s] = announced[s]
    BY <1>1 DEF Push, TypeOK, Bitmap
  <1>3. Owner[position] = board => position \in Real
    BY <1>1 DEF FrameIsReported, Real
  <1>4. Owner[position] # board => announced' = announced
    OBVIOUS
  <1>5. VirtualAnnounced'
    BY <1>2, <1>3, <1>4 DEF VirtualAnnounced
  <1>6. VirtualBit' /\ HostTarget' /\ FrameIsReported' /\ ByteIsCurrent' /\ RealInMerge'
    BY DEF VirtualBit, HostTarget, FrameIsReported, ByteIsCurrent, RealInMerge
  <1>7. RealAtRest'
    BY <1>2, <1>4, RealSwitches DEF RealAtRest, Moving
  <1>8. RealInDiff'
    <2> SUFFICES ASSUME NEW s \in Real \ reverted, Owner[s] = board
                 PROVE  /\ s < position + 1 => announced'[s] = incoming[s]
                        /\ s >= position + 1 => announced'[s] = bitmap[s]
      BY DEF RealInDiff
    <2>1. s \in Switches /\ s \in Int /\ position \in Int
      <3>1. s \in Switches
        BY RealSwitches
      <3>2. QED
        BY <1>1, <3>1, LayoutAssumption DEF Switches
    <2>2. CASE s # position
      <3>1. /\ s < position => announced[s] = incoming[s]
            /\ s >= position => announced[s] = bitmap[s]
        BY DEF RealInDiff
      <3>2. /\ s < position + 1 => s < position
            /\ s >= position + 1 => s >= position
        BY <2>1, <2>2
      <3>3. announced'[s] = announced[s]
        BY <2>1, <2>2, <1>2
      <3>4. QED
        BY <3>1, <3>2, <3>3
    <2>3. CASE s = position
      <3>1. announced[s] = bitmap[s]
        BY <2>1, <2>3 DEF RealInDiff
      <3>2. announced'[s] = incoming[s]
        BY <2>3, <3>1, <1>1 DEF Push, TypeOK, Bitmap
      <3>3. QED
        BY <2>1, <2>3, <3>2
    <2>4. QED
      BY <2>2, <2>3
  <1>9. QED
    BY <1>5, <1>6, <1>7, <1>8

LEMMA DiffEndFeed ==
  ASSUME TypeOK, FeedInv, DiffEnd
  PROVE  FeedInv'
  <1> USE DEF DiffEnd, hostCall, FeedInv, Applying
  <1>1. VirtualAnnounced' /\ VirtualBit' /\ HostTarget' /\ FrameIsReported'
        /\ ByteIsCurrent' /\ RealInDiff'
    BY DEF VirtualAnnounced, VirtualBit, HostTarget, FrameIsReported, ByteIsCurrent,
       RealInDiff
  <1>2. RealAtRest'
    BY DEF RealAtRest, Moving
  <1>3. RealInMerge'
    <2> SUFFICES ASSUME NEW s \in Real \ reverted, Owner[s] = board
                 PROVE  announced[s] = incoming[s] /\ ~(ByteOf[s] < 0)
      BY DEF RealInMerge
    <2>1. s < position /\ ByteOf[s] \in Nat
      BY RealSwitches, LayoutAssumption DEF Switches
    <2>2. QED
      BY <2>1 DEF RealInDiff
  <1>4. QED
    BY <1>1, <1>2, <1>3

LEMMA MergeReadFeed ==
  ASSUME TypeOK, FeedInv, MergeRead
  PROVE  FeedInv'
  <1> USE DEF MergeRead, hostCall, FeedInv, Applying
  <1>1. VirtualAnnounced' /\ VirtualBit' /\ HostTarget' /\ FrameIsReported'
        /\ RealInDiff' /\ RealInMerge' /\ RealAtRest'
    BY DEF VirtualAnnounced, VirtualBit, HostTarget, FrameIsReported, RealInDiff,
       RealInMerge, RealAtRest, Moving
  <1>2. ByteIsCurrent'
    BY RealSwitches DEF ByteIsCurrent, ReadByte, TypeOK, Bitmap
  <1>3. QED
    BY <1>1, <1>2

\* A bit the write changes is the board's own, or becomes a reverted one.
LEMMA MergeWriteFeed ==
  ASSUME TypeOK, FeedInv, MergeWrite
  PROVE  FeedInv'
  <1> USE DEF MergeWrite, hostCall, FeedInv, Applying
  <1>1. ASSUME NEW s \in Switches \ reverted'
        PROVE  /\ s \notin reverted
               /\ bitmap'[s] = IF ByteOf[s] = position /\ Owner[s] = board
                               THEN incoming[s] ELSE bitmap[s]
    BY <1>1
  <1>2. VirtualAnnounced' /\ HostTarget' /\ FrameIsReported' /\ ByteIsCurrent' /\ RealInDiff'
    BY DEF VirtualAnnounced, HostTarget, FrameIsReported, ByteIsCurrent, RealInDiff
  <1>3. VirtualBit'
    <2> SUFFICES ASSUME NEW v \in Switches \ (Real \cup reverted'),
                        ~(host \in {"read", "write"} /\ v = target)
                 PROVE  bitmap'[v] = vstate[v]
      BY DEF VirtualBit
    <2>1. Owner[v] # board
      BY DEF FrameIsReported, Real
    <2>2. QED
      BY <2>1, <1>1 DEF VirtualBit
  <1>4. RealAtRest'
    BY <1>1, RealSwitches DEF RealAtRest, Moving
  <1>5. RealInMerge'
    <2> SUFFICES ASSUME NEW s \in Real \ reverted', Owner[s] = board
                 PROVE  /\ announced[s] = incoming[s]
                        /\ ByteOf[s] < position + 1 => bitmap'[s] = incoming[s]
      BY DEF RealInMerge
    <2>1. s \in Switches \ reverted' /\ s \notin reverted /\ ByteOf[s] \in Int
          /\ position \in Int
      BY <1>1, RealSwitches, LayoutAssumption DEF TypeOK
    <2>2. announced[s] = incoming[s] /\ (ByteOf[s] < position => bitmap[s] = incoming[s])
      BY <2>1 DEF RealInMerge
    <2>3. QED
      BY <2>1, <2>2, <1>1
  <1>6. QED
    BY <1>2, <1>3, <1>4, <1>5

LEMMA MergeEndFeed ==
  ASSUME TypeOK, FeedInv, MergeEnd
  PROVE  FeedInv'
  <1> USE DEF MergeEnd, hostCall, FeedInv, Applying
  <1>1. VirtualAnnounced' /\ VirtualBit' /\ HostTarget' /\ FrameIsReported'
        /\ ByteIsCurrent' /\ RealInDiff' /\ RealInMerge'
    BY DEF VirtualAnnounced, VirtualBit, HostTarget, FrameIsReported, ByteIsCurrent,
       RealInDiff, RealInMerge
  <1>2. RealAtRest'
    <2> SUFFICES ASSUME NEW s \in Real \ reverted, Owner[s] = board
                 PROVE  announced[s] = reported[s] /\ bitmap[s] = reported[s]
      BY DEF RealAtRest, Moving
    <2>1. s \in Switches /\ ByteOf[s] < Bytes
      BY RealSwitches, LayoutAssumption
    <2>2. QED
      BY <2>1 DEF RealInMerge, FrameIsReported
  <1>3. QED
    BY <1>1, <1>2

\* A reply, or the host's fetching, touches nothing FeedInv speaks of.
LEMMA OtherFeed ==
  ASSUME TypeOK, FeedInv,
         \/ \E b \in Boards : ReplyBegin(b)
         \/ ReplyCopy \/ ReplyWrite \/ ReplyFails \/ ReplyClear
         \/ GetNextSwitchState \/ UNCHANGED vars
  PROVE  FeedInv'
  <1>1. /\ UNCHANGED << bitmap, vstate, host, target, announced, reported, reverted >>
        /\ \/ UNCHANGED << bus, board, incoming, position, busByte >>
           \/ bus \notin Applying /\ bus' \notin Applying
    BY DEF ReplyBegin, ReplyCopy, ReplyWrite, ReplyFails, ReplyClear,
       GetNextSwitchState, vars, hostCall, busTurn, Applying
  <1>2. QED
    BY <1>1 DEF FeedInv, VirtualAnnounced, VirtualBit, HostTarget, RealAtRest,
       RealInDiff, RealInMerge, FrameIsReported, ByteIsCurrent, Moving, Applying

LEMMA NextFeed == TypeOK /\ FeedInv /\ [Next]_vars => FeedInv'
  BY SetFeed, SetBitReadFeed, SetBitWriteFeed, SetPushFeed, ReceiveFeed, DiffBitFeed,
     DiffEndFeed, MergeReadFeed, MergeWriteFeed, MergeEndFeed, OtherFeed
  DEF Next, HostThread, BusThread, Apply

LEMMA FeedInvariant == Spec => []FeedInv
  BY InitFeed, NextFeed, TypeCorrect, PTL DEF Spec

\* Between calls the events given to the host add up to m_switchBitmap, for
\* every switch whose bit was not overwritten by the other thread.
THEOREM EventsMatchBitmapHolds == Spec => []EventsMatchBitmap
  <1>1. FeedInv => EventsMatchBitmap
    BY RealSwitches DEF FeedInv, EventsMatchBitmap, VirtualAnnounced, VirtualBit, RealAtRest, Moving
  <1>2. QED
    BY <1>1, FeedInvariant, PTL

-----------------------------------------------------------------------------
(* The step simulation.                                                    *)

LEMMA InitSimulation == Init => Feed!Init
  BY RealSwitches DEF Init, Feed!Init, Clear, Actual

LEMMA SetSimulation ==
  ASSUME TypeOK, FeedInv, NEW v \in Switches, NEW on \in BOOLEAN,
         SetVirtualSwitchState(v, on)
  PROVE  Feed!Learn({v})
  <1>1. v \notin Real /\ announced[v] = vstate[v]
    BY DEF SetVirtualSwitchState, FeedInv, VirtualAnnounced
  <1>2. vstate'[v] = ~vstate[v] /\ \A w \in Switches : w # v => vstate'[w] = vstate[w]
    BY DEF SetVirtualSwitchState, TypeOK, Bitmap
  <1>3. UNCHANGED << reported, announced, queue, reverted >>
    BY DEF SetVirtualSwitchState
  <1>4. QED
    BY <1>1, <1>2, <1>3 DEF Feed!Learn, Actual

\* What a frame says that differs from the board's last one is learnt at once.
LEMMA ReceiveSimulation ==
  ASSUME TypeOK, FeedInv, NEW b \in Boards, NEW new \in Bitmap, ReceiveState(b, new)
  PROVE  \E C \in SUBSET Switches : Feed!Learn(C)
  <1> PICK C : C = {s \in Real : Owner[s] = b /\ new[s] # reported[s]}
    OBVIOUS
  <1>1. UNCHANGED << vstate, announced, queue, reverted >>
    BY DEF ReceiveState
  <1>2. ASSUME NEW s \in C \ (reverted \cap Real)
        PROVE  announced[s] = reported[s]
    BY <1>2 DEF ReceiveState, FeedInv, RealAtRest, Moving, Applying
  <1>3. ASSUME NEW s \in Switches
        PROVE  (IF s \in Real THEN reported'[s] ELSE vstate'[s])
                 = IF s \in C THEN ~(IF s \in Real THEN reported[s] ELSE vstate[s])
                   ELSE IF s \in Real THEN reported[s] ELSE vstate[s]
    <2>1. CASE s \in C
      <3>1. reported'[s] = new[s] /\ s \in Real
        BY <2>1 DEF ReceiveState
      <3>2. new[s] \in BOOLEAN /\ reported[s] \in BOOLEAN /\ new[s] # reported[s]
        BY <2>1 DEF TypeOK, Bitmap
      <3>3. QED
        BY <2>1, <3>1, <3>2
    <2>2. CASE s \notin C
      BY <1>1, <2>2 DEF ReceiveState
    <2>3. QED
      BY <2>1, <2>2
  <1>4. C \subseteq Switches
    BY RealSwitches
  <1>5. Feed!Learn(C)
    BY <1>1, <1>2, <1>3, <1>4 DEF Feed!Learn, Actual
  <1>6. QED
    BY <1>4, <1>5

LEMMA DiffBitSimulation ==
  ASSUME TypeOK, FeedInv, DiffBit
  PROVE  Feed!Announce(position) \/ UNCHANGED Feed!vars
  <1>1. UNCHANGED << vstate, reported, reverted >>
    BY DEF DiffBit
  <1>2. CASE Owner[position] = board /\ bitmap[position] # incoming[position]
    <2>1. position \in Real /\ reported[position] = incoming[position]
      BY <1>2, LayoutAssumption
      DEF DiffBit, FeedInv, FrameIsReported, Applying, Real, Switches, TypeOK
    <2>2. position \notin reverted => announced[position] # reported[position]
      <3>1. position \notin reverted => announced[position] = bitmap[position]
        BY <1>2, <2>1 DEF DiffBit, FeedInv, RealInDiff, TypeOK
      <3>2. QED
        BY <3>1, <1>2, <2>1
    <2>3. Push(position, incoming[position])
      BY <1>2 DEF DiffBit
    <2>4. QED
      BY <1>1, <2>1, <2>2, <2>3, RealSwitches DEF Feed!Announce, Push, Actual
  <1>3. CASE ~(Owner[position] = board /\ bitmap[position] # incoming[position])
    BY <1>1, <1>3 DEF DiffBit, Feed!vars, Actual
  <1>4. QED
    BY <1>2, <1>3

LEMMA SetPushSimulation ==
  ASSUME TypeOK, FeedInv, SetPush
  PROVE  Feed!Announce(target)
  <1>1. target \in Switches \ Real /\ announced[target] = ~vstate[target]
    BY DEF SetPush, FeedInv, HostTarget, VirtualAnnounced
  <1>2. announced[target] # vstate[target]
    BY <1>1 DEF TypeOK, Bitmap
  <1>3. UNCHANGED << vstate, reported, reverted >> /\ Push(target, vstate[target])
    BY DEF SetPush
  <1>4. QED
    BY <1>1, <1>2, <1>3 DEF Feed!Announce, Push, Actual

\* What the host's write of a byte undoes are real switches in that byte.
LEMMA SetBitWriteSimulation ==
  ASSUME TypeOK, FeedInv, SetBitWrite
  PROVE  \E S \in SUBSET Exposed : Feed!Spoil(S)
  <1> DEFINE S == {s \in Real : /\ s # target /\ ByteOf[s] = ByteOf[target]
                                /\ hostByte[s] # bitmap[s]}
  <1>1. target \in Switches \ Real
    BY DEF SetBitWrite, FeedInv, HostTarget
  <1>2. S \in SUBSET Exposed
    BY <1>1 DEF Exposed
  <1>3. reverted' \cap Real = (reverted \cap Real) \cup S
    BY <1>1, RealSwitches DEF SetBitWrite
  <1>4. UNCHANGED << vstate, reported, announced, queue >>
    BY DEF SetBitWrite
  <1>5. Feed!Spoil(S)
    BY <1>2, <1>3, <1>4 DEF Feed!Spoil, Actual
  <1>6. QED
    BY <1>2, <1>5

\* What the bus thread's write of a byte undoes are virtual switches, and real
\* ones the host has just undone.
LEMMA MergeWriteSimulation ==
  ASSUME TypeOK, FeedInv, MergeWrite
  PROVE  \E S \in SUBSET Exposed : Feed!Spoil(S)
  <1> DEFINE S == {s \in Real : /\ ByteOf[s] = position /\ Owner[s] # board
                                /\ busByte[s] # bitmap[s]}
  <1>1. S \in SUBSET Exposed
    BY DEF MergeWrite, FeedInv, ByteIsCurrent
  <1>2. reverted' \cap Real = (reverted \cap Real) \cup S
    BY RealSwitches DEF MergeWrite
  <1>3. UNCHANGED << vstate, reported, announced, queue >>
    BY DEF MergeWrite
  <1>4. Feed!Spoil(S)
    BY <1>1, <1>2, <1>3 DEF Feed!Spoil, Actual
  <1>5. QED
    BY <1>1, <1>4

LEMMA FetchSimulation ==
  ASSUME GetNextSwitchState
  PROVE  Feed!Fetch
  BY DEF GetNextSwitchState, Feed!Fetch, Actual

\* All other steps change nothing the host program can tell.
LEMMA OtherSimulation ==
  ASSUME \/ SetBitRead \/ DiffEnd \/ MergeRead \/ MergeEnd
         \/ \E b \in Boards : ReplyBegin(b)
         \/ ReplyCopy \/ ReplyWrite \/ ReplyFails \/ ReplyClear
         \/ UNCHANGED vars
  PROVE  UNCHANGED Feed!vars
  <1>1. UNCHANGED << vstate, reported, announced, queue, reverted >>
    BY DEF SetBitRead, DiffEnd, MergeRead, MergeEnd, ReplyBegin, ReplyCopy, ReplyWrite,
       ReplyFails, ReplyClear, vars, busTurn, replies
  <1>2. QED
    BY <1>1 DEF Feed!vars, Actual

LEMMA NextSimulation ==
  TypeOK /\ FeedInv /\ [Next]_vars => [Feed!Next]_(Feed!vars)
  <1> SUFFICES ASSUME TypeOK, FeedInv, [Next]_vars
               PROVE  Feed!Next \/ UNCHANGED Feed!vars
    OBVIOUS
  <1>1. ASSUME NEW v \in Switches, NEW on \in BOOLEAN, SetVirtualSwitchState(v, on)
        PROVE  Feed!Next
    <2>1. Feed!Learn({v})
      BY <1>1, SetSimulation
    <2>2. QED
      BY <2>1 DEF Feed!Next
  <1>2. ASSUME NEW b \in Boards, NEW new \in Bitmap, ReceiveState(b, new)
        PROVE  Feed!Next
    BY <1>2, ReceiveSimulation DEF Feed!Next
  <1>3. CASE DiffBit
    <2>1. position \in Switches
      BY <1>3, LayoutAssumption DEF DiffBit, TypeOK, Switches
    <2>2. QED
      BY <1>3, <2>1, DiffBitSimulation DEF Feed!Next
  <1>4. CASE SetPush
    <2>1. target \in Switches
      BY DEF TypeOK
    <2>2. QED
      BY <1>4, <2>1, SetPushSimulation DEF Feed!Next
  <1>5. CASE SetBitWrite \/ MergeWrite
    BY <1>5, SetBitWriteSimulation, MergeWriteSimulation DEF Feed!Next
  <1>6. CASE GetNextSwitchState
    BY <1>6, FetchSimulation DEF Feed!Next
  <1>7. CASE \/ SetBitRead \/ DiffEnd \/ MergeRead \/ MergeEnd
             \/ \E b \in Boards : ReplyBegin(b)
             \/ ReplyCopy \/ ReplyWrite \/ ReplyFails \/ ReplyClear
             \/ UNCHANGED vars
    BY <1>7, OtherSimulation
  <1>8. QED
    BY <1>1, <1>2, <1>3, <1>4, <1>5, <1>6, <1>7 DEF Next, HostThread, BusThread, Apply

\* The bitmap, its two writers and the event queue implement SwitchFeed: every
\* change the library learns of becomes exactly one event before the switch's
\* next change, for all switches but real ones that share a byte with a
\* virtual switch.
THEOREM PromiseKept == Spec => KeepsPromise
  BY InitSimulation, NextSimulation, TypeCorrect, FeedInvariant, PTL
  DEF Spec, KeepsPromise, Feed!Spec

-----------------------------------------------------------------------------
(* What the boards are told of virtual switches.                           *)

InCall(b) == host \in {"read", "write"} /\ Owner[target] = b

\* A call under way has set dirty; if a reply has cleared it since, the board
\* is one of the raced.
CallIsMarked ==
  host \in {"read", "write"} => dirty[Owner[target]] \/ Owner[target] \in raced

\* The state of a reply that no call has overlapped.
ReplyIsClean ==
  bus \in Replying =>
    /\ InCall(board) => overlap
    /\ bus = "copy" => sendState
    /\ sendState => dirty[board]
    /\ ~sendState /\ ~overlap => ~dirty[board]

ReplyIsCurrent ==
  sendState /\ ~overlap =>
    \A v \in Switches \ (Real \cup reverted) : Owner[v] = board =>
      /\ bus = "write" => incoming[v] = vstate[v]
      /\ bus = "clear" => told[v] = vstate[v]

ToldInv == ChangesToldUnlessRaced /\ CallIsMarked /\ ReplyIsClean /\ ReplyIsCurrent

LEMMA InitTold == Init => ToldInv
  BY DEF Init, ToldInv, ChangesToldUnlessRaced, CallIsMarked, ReplyIsClean, ReplyIsCurrent,
     Clear, Replying

LEMMA SetTold ==
  ASSUME TypeOK, ToldInv, NEW v \in Switches, NEW on \in BOOLEAN,
         SetVirtualSwitchState(v, on)
  PROVE  ToldInv'
  <1> USE DEF SetVirtualSwitchState, busTurn, ToldInv
  <1>1. /\ dirty'[Owner[v]] = TRUE
        /\ \A b \in Boards : b # Owner[v] => dirty'[b] = dirty[b]
        /\ \A w \in Switches : Owner[w] # Owner[v] => vstate'[w] = vstate[w]
    BY BoardAssumption DEF TypeOK, Bitmap
  <1>2. ChangesToldUnlessRaced' /\ CallIsMarked'
    BY <1>1, BoardAssumption DEF ChangesToldUnlessRaced, CallIsMarked
  <1>3. ReplyIsClean'
    BY <1>1, BoardAssumption DEF ReplyIsClean, InCall, TypeOK
  <1>4. ReplyIsCurrent'
    BY <1>1, BoardAssumption DEF ReplyIsCurrent, Replying
  <1>5. QED
    BY <1>2, <1>3, <1>4

\* The write of a bit makes its switch good again, and its board is marked.
LEMMA SetBitWriteTold ==
  ASSUME TypeOK, FeedInv, ToldInv, SetBitWrite
  PROVE  ToldInv'
  <1> USE DEF SetBitWrite, busTurn, replies, ToldInv
  <1>1. target \in Switches
    BY DEF TypeOK
  <1>2. \A v \in Switches \ reverted' : v = target \/ v \notin reverted
    OBVIOUS
  <1>3. ChangesToldUnlessRaced'
    BY <1>1, <1>2 DEF ChangesToldUnlessRaced, CallIsMarked
  <1>4. CallIsMarked' /\ ReplyIsClean'
    BY DEF CallIsMarked, ReplyIsClean, InCall
  <1>5. ReplyIsCurrent'
    BY <1>1, <1>2 DEF ReplyIsCurrent, ReplyIsClean, InCall, Replying
  <1>6. QED
    BY <1>3, <1>4, <1>5

LEMMA ReplyBeginTold ==
  ASSUME TypeOK, ToldInv, NEW b \in Boards, ReplyBegin(b)
  PROVE  ToldInv'
  <1> USE DEF ReplyBegin, hostCall, ToldInv
  <1>1. ChangesToldUnlessRaced' /\ CallIsMarked'
    BY DEF ChangesToldUnlessRaced, CallIsMarked
  <1>2. ReplyIsClean'
    BY DEF ReplyIsClean, InCall, TypeOK
  <1>3. ReplyIsCurrent'
    BY DEF ReplyIsCurrent, TypeOK
  <1>4. QED
    BY <1>1, <1>2, <1>3

\* Nobody is writing a switch of the board, so its bits are the states.
LEMMA ReplyCopyTold ==
  ASSUME TypeOK, FeedInv, ToldInv, ReplyCopy
  PROVE  ToldInv'
  <1> USE DEF ReplyCopy, hostCall, replies, ToldInv
  <1>1. ChangesToldUnlessRaced' /\ CallIsMarked' /\ ReplyIsClean'
    BY DEF ChangesToldUnlessRaced, CallIsMarked, ReplyIsClean, InCall, Replying
  <1>2. ReplyIsCurrent'
    BY DEF ReplyIsCurrent, ReplyIsClean, InCall, Replying, FeedInv, VirtualBit
  <1>3. QED
    BY <1>1, <1>2

LEMMA ReplyWriteTold ==
  ASSUME TypeOK, ToldInv, ReplyWrite
  PROVE  ToldInv'
  <1> USE DEF ReplyWrite, hostCall, ToldInv
  <1>1. CallIsMarked' /\ ReplyIsClean'
    BY DEF CallIsMarked, ReplyIsClean, InCall, Replying
  <1>2. ReplyIsCurrent'
    BY DEF ReplyIsCurrent
  <1>3. ChangesToldUnlessRaced'
    BY DEF ChangesToldUnlessRaced, ReplyIsClean, Replying
  <1>4. QED
    BY <1>1, <1>2, <1>3

LEMMA ReplyClearTold ==
  ASSUME TypeOK, ToldInv, ReplyClear
  PROVE  ToldInv'
  <1> USE DEF ReplyClear, hostCall, ToldInv
  <1>1. /\ dirty'[board] = FALSE
        /\ \A b \in Boards : b # board => dirty'[b] = dirty[b]
        /\ \A b \in Boards : b # board => (b \in raced' <=> b \in raced)
    BY DEF TypeOK
  <1>2. CASE overlap
    <2>1. board \in raced'
      BY <1>2
    <2>2. ChangesToldUnlessRaced' /\ CallIsMarked'
      BY <1>1, <2>1, BoardAssumption DEF ChangesToldUnlessRaced, CallIsMarked, TypeOK
    <2>3. QED
      BY <2>2 DEF ReplyIsClean, ReplyIsCurrent, Replying
  <1>3. CASE ~overlap
    <2>1. ~InCall(board)
      BY <1>3 DEF ReplyIsClean, Replying
    <2>2. CallIsMarked'
      BY <1>1, <2>1, BoardAssumption DEF CallIsMarked, InCall, TypeOK
    <2>3. ChangesToldUnlessRaced'
      <3> SUFFICES ASSUME NEW v \in Switches \ (Real \cup reverted),
                          ~dirty'[Owner[v]], Owner[v] \notin raced'
                   PROVE  told[v] = vstate[v]
        BY DEF ChangesToldUnlessRaced
      <3>1. CASE Owner[v] # board
        BY <1>1, <3>1, BoardAssumption DEF ChangesToldUnlessRaced
      <3>2. CASE Owner[v] = board /\ sendState
        BY <1>3, <3>2 DEF ReplyIsCurrent
      <3>3. CASE Owner[v] = board /\ ~sendState
        BY <1>3, <3>3 DEF ChangesToldUnlessRaced, ReplyIsClean, Replying
      <3>4. QED
        BY <3>1, <3>2, <3>3
    <2>4. QED
      BY <2>2, <2>3 DEF ReplyIsClean, ReplyIsCurrent, Replying
  <1>4. QED
    BY <1>2, <1>3 DEF TypeOK

\* The bus thread's write of a byte takes switches out of the claim, and no
\* other step touches a virtual board.
LEMMA OtherTold ==
  ASSUME TypeOK, ToldInv,
         \/ \E b \in Boards, new \in Bitmap : ReceiveState(b, new)
         \/ DiffBit \/ DiffEnd \/ MergeRead \/ MergeWrite \/ MergeEnd
         \/ SetBitRead \/ SetPush \/ GetNextSwitchState \/ ReplyFails
         \/ UNCHANGED vars
  PROVE  ToldInv'
  <1>1. /\ UNCHANGED << vstate, dirty, target, told, raced >> /\ reverted \subseteq reverted'
        /\ host' \in {"read", "write"} => host \in {"read", "write"}
        /\ \/ bus' \notin Replying
           \/ /\ UNCHANGED << bus, board, incoming, sendState, overlap >>
    BY DEF ReceiveState, DiffBit, DiffEnd, MergeRead, MergeWrite, MergeEnd, SetBitRead,
       SetPush, GetNextSwitchState, ReplyFails, vars, hostCall, busTurn, replies, Replying
  <1>2. ChangesToldUnlessRaced' /\ CallIsMarked'
    BY <1>1 DEF ToldInv, ChangesToldUnlessRaced, CallIsMarked
  <1>3. ReplyIsClean' /\ ReplyIsCurrent'
    BY <1>1 DEF ToldInv, ReplyIsClean, ReplyIsCurrent, InCall, Replying
  <1>4. QED
    BY <1>2, <1>3 DEF ToldInv

LEMMA NextTold == TypeOK /\ FeedInv /\ ToldInv /\ [Next]_vars => ToldInv'
  BY SetTold, SetBitWriteTold, ReplyBeginTold, ReplyCopyTold, ReplyWriteTold,
     ReplyClearTold, OtherTold
  DEF Next, HostThread, BusThread, Apply

\* A virtual board that is not dirty has been told its switches' states, unless
\* a call overlapped its last reply or the other thread undid the bit.
THEOREM ChangesToldHolds == Spec => []ChangesToldUnlessRaced
  <1>1. ToldInv => ChangesToldUnlessRaced
    BY DEF ToldInv
  <1>2. QED
    BY <1>1, InitTold, NextTold, TypeCorrect, FeedInvariant, PTL DEF Spec
=============================================================================
