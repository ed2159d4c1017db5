----------------------------- MODULE SwitchState -----------------------------
(***************************************************************************)
(* The host's view of the switches: m_switchBitmap, the queue of switch    *)
(* events m_switches, and the states and dirty flags of virtual boards.    *)
(* Two threads work on them.  The host's thread sets virtual switches      *)
(* (SetVirtualSwitchState) and fetches events (GetNextSwitchState); the    *)
(* bus thread applies the state frames of real boards                      *)
(* (ApplySwitchBitmapDiff) and plays the virtual ones                      *)
(* (SendVirtualSwitchReply).                                               *)
(*                                                                         *)
(* m_stateMutex protects the host's write of a bit and the copy for a      *)
(* reply; ApplySwitchBitmapDiff does not take it, and the flag dirty and   *)
(* the states of virtual switches are read and written without any lock.   *)
(* A bit is written by reading its byte and writing it back, so two such   *)
(* writes can undo each other.                                             *)
(*                                                                         *)
(* The order of the boards and lost replies are in SwitchSession; here any *)
(* board may be next.  A switch number and its bit are the same.  Every    *)
(* board has an ownership mask, as those below RS485_COMM_MAX_BOARDS do;   *)
(* of a board without one ApplySwitchBitmapDiff compares and copies all    *)
(* bits, and that is not modelled.                                         *)
(***************************************************************************)
EXTENDS Naturals, Sequences

CONSTANTS
  Bits,       \* m_runtimeConfig.switchBits
  Bytes,      \* the bytes they take
  ByteOf,     \* the byte each bit is in
  Boards,
  Owner,      \* the board each switch belongs to: the ownership masks
  Virtual,    \* the keys of m_virtualSwitchBoards
  MaxQueue    \* bound: the host fetches before more events than this wait

Switches == 0..(Bits - 1)

Real == {s \in Switches : Owner[s] \notin Virtual}

\* Real switches whose byte the host writes, too.
Exposed == {s \in Real : \E v \in Switches \ Real : ByteOf[v] = ByteOf[s]}

ASSUME LayoutAssumption ==
  /\ Bits \in Nat \ {0} /\ Bytes \in Nat \ {0}
  /\ ByteOf \in [Switches -> 0..(Bytes - 1)]
ASSUME BoardAssumption ==
  /\ Owner \in [Switches -> Boards] /\ Virtual \subseteq Boards /\ Boards # {}
ASSUME QueueAssumption == MaxQueue \in Nat

VARIABLES
  bitmap,     \* m_switchBitmap
  queue,      \* m_switches
  vstate,     \* switchStates of the virtual boards
  dirty,      \* their dirty flags
  host,       \* where the host is in SetVirtualSwitchState
  target,     \* the switch it sets
  hostByte,   \* the byte it has read and is about to write
  bus,        \* where the bus thread is
  board,      \* the board whose turn it is
  incoming,   \* the bitmap of its frame, or the copy for its reply
  position,   \* the bit, or the byte, ApplySwitchBitmapDiff is at
  busByte,    \* the byte it has read and is about to write
  sendState,  \* sendState of the reply
  announced,  \* history: what the last event of each switch said
  reported,   \* history: what the last frame of its board said of a switch
  told,       \* history: what the last reply said of a virtual switch
  overlap,    \* history: a switch of the board was set during its reply
  raced,      \* history: boards whose last such reply is not made good
  reverted    \* history: switches whose bit was overwritten with an old value

hostCall == << host, target, hostByte >>
busTurn  == << bus, board, incoming, position, busByte, sendState >>
replies  == << told, overlap, raced >>
vars == << bitmap, queue, vstate, dirty, hostCall, busTurn, announced,
           reported, replies, reverted >>

Bitmap == [Switches -> BOOLEAN]
Clear  == [s \in Switches |-> FALSE]
Event  == [switch : Switches, on : BOOLEAN]

Applying == {"diff", "mergeRead", "mergeWrite"}
Replying == {"copy", "write", "clear"}

TypeOK ==
  /\ bitmap \in Bitmap /\ queue \in Seq(Event)
  /\ vstate \in Bitmap /\ dirty \in [Boards -> BOOLEAN]
  /\ host \in {"idle", "read", "write", "push"}
  /\ target \in Switches /\ hostByte \in Bitmap
  /\ bus \in {"poll"} \cup Applying \cup Replying
  /\ board \in Boards /\ (bus \in Replying => board \in Virtual)
  /\ incoming \in Bitmap
  /\ position \in 0..(IF bus = "diff" THEN Bits ELSE Bytes)
  /\ bus = "mergeWrite" => position < Bytes
  /\ busByte \in Bitmap
  /\ sendState \in BOOLEAN
  /\ announced \in Bitmap /\ reported \in Bitmap /\ told \in Bitmap
  /\ overlap \in BOOLEAN /\ raced \subseteq Virtual
  /\ reverted \subseteq Switches

Init ==
  /\ bitmap = Clear /\ queue = << >>
  /\ vstate = Clear /\ dirty = [b \in Boards |-> FALSE]
  /\ host = "idle" /\ target = 0 /\ hostByte = Clear
  /\ bus = "poll" /\ board \in Boards /\ incoming = Clear
  /\ position = 0 /\ busByte = Clear /\ sendState = FALSE
  /\ announced = Clear /\ reported = Clear /\ told = Clear
  /\ overlap = FALSE /\ raced = {} /\ reverted = {}

Push(s, on) ==
  /\ queue' = Append(queue, [switch |-> s, on |-> on])
  /\ announced' = [announced EXCEPT ![s] = on]

\* The bits of one byte, as a thread reads it.
ReadByte(i) == [s \in Switches |-> ByteOf[s] = i /\ bitmap[s]]

----------------------------------------------------------------------------
(* The host's thread.                                                      *)

\* SetVirtualSwitchState up to the lock.  Calls for real switches, or with the
\* state the switch has, change nothing.
SetVirtualSwitchState(v, on) ==
  /\ host = "idle" /\ v \notin Real /\ Len(queue) < MaxQueue
  /\ vstate[v] # on
  /\ vstate' = [vstate EXCEPT ![v] = on]
  /\ dirty' = [dirty EXCEPT ![Owner[v]] = TRUE]
  /\ overlap' = (overlap \/ (bus \in Replying /\ board = Owner[v]))
  /\ host' = "read" /\ target' = v
  /\ UNCHANGED << bitmap, queue, hostByte, busTurn, announced, reported, told,
                  raced, reverted >>

\* SetBitmapBit, under m_stateMutex: the byte is read ...
SetBitRead ==
  /\ host = "read"
  /\ host' = "write" /\ hostByte' = ReadByte(ByteOf[target])
  /\ UNCHANGED << bitmap, queue, vstate, dirty, target, busTurn, announced,
                  reported, replies, reverted >>

\* ... and written back.
SetBitWrite ==
  /\ host = "write"
  /\ LET written(s) == ByteOf[s] = ByteOf[target]
     IN  /\ bitmap' = [s \in Switches |->
                         CASE s = target                 -> vstate[target]
                           [] written(s) /\ s # target   -> hostByte[s]
                           [] OTHER                      -> bitmap[s]]
         /\ reverted' = (reverted \ {target}) \cup
              {s \in Switches \ {target} : written(s) /\ hostByte[s] # bitmap[s]}
  /\ host' = "push" /\ hostByte' = Clear
  /\ UNCHANGED << queue, vstate, dirty, target, busTurn, announced, reported,
                  replies >>

SetPush ==
  /\ host = "push"
  /\ Push(target, vstate[target])
  /\ host' = "idle"
  /\ UNCHANGED << bitmap, vstate, dirty, target, hostByte, busTurn, reported,
                  replies, reverted >>

GetNextSwitchState ==
  /\ queue # << >>
  /\ queue' = Tail(queue)
  /\ UNCHANGED << bitmap, vstate, dirty, hostCall, busTurn, announced,
                  reported, replies, reverted >>

----------------------------------------------------------------------------
(* The bus thread: a state frame of a real board.                          *)

\* The frame's bits of other boards' switches may be anything.
ReceiveState(b, frame) ==
  /\ bus = "poll" /\ b \notin Virtual /\ Len(queue) < MaxQueue
  /\ bus' = "diff" /\ board' = b /\ incoming' = frame /\ position' = 0
  /\ reported' = [s \in Switches |->
                    IF Owner[s] = b THEN frame[s] ELSE reported[s]]
  /\ UNCHANGED << bitmap, queue, vstate, dirty, hostCall, busByte, sendState,
                  announced, replies, reverted >>

\* Mutant: the first loop does not ask whose switch it is.
DiffBitUnowned ==
  /\ bus = "diff" /\ position < Bits
  /\ IF bitmap[position] # incoming[position]
       THEN Push(position, incoming[position])
       ELSE UNCHANGED << queue, announced >>
  /\ position' = position + 1
  /\ UNCHANGED << bitmap, vstate, dirty, hostCall, bus, board, incoming,
                  busByte, sendState, reported, replies, reverted >>

\* Mutant: the first loop stops one bit early.
DiffEndEarly ==
  /\ bus = "diff" /\ position >= Bits - 1
  /\ bus' = "mergeRead" /\ position' = 0
  /\ UNCHANGED << bitmap, queue, vstate, dirty, hostCall, board, incoming,
                  busByte, sendState, announced, reported, replies, reverted >>

\* The first loop of ApplySwitchBitmapDiff, one bit: an event for an owned
\* switch that has changed.
DiffBit ==
  /\ bus = "diff" /\ position < Bits
  /\ IF Owner[position] = board /\ bitmap[position] # incoming[position]
       THEN Push(position, incoming[position])
       ELSE UNCHANGED << queue, announced >>
  /\ position' = position + 1
  /\ UNCHANGED << bitmap, vstate, dirty, hostCall, bus, board, incoming,
                  busByte, sendState, reported, replies, reverted >>

DiffEnd ==
  /\ bus = "diff" /\ position = Bits
  /\ bus' = "mergeRead" /\ position' = 0
  /\ UNCHANGED << bitmap, queue, vstate, dirty, hostCall, board, incoming,
                  busByte, sendState, announced, reported, replies, reverted >>

\* Mutant: the loop over the bytes goes one too far.
MergeReadPastEnd ==
  /\ bus = "mergeRead" /\ position <= Bytes
  /\ bus' = "mergeWrite" /\ busByte' = ReadByte(position)
  /\ UNCHANGED << bitmap, queue, vstate, dirty, hostCall, board, incoming,
                  position, sendState, announced, reported, replies, reverted >>

\* The second loop, one byte: the owned bits are replaced, without the lock.
MergeRead ==
  /\ bus = "mergeRead" /\ position < Bytes
  /\ bus' = "mergeWrite" /\ busByte' = ReadByte(position)
  /\ UNCHANGED << bitmap, queue, vstate, dirty, hostCall, board, incoming,
                  position, sendState, announced, reported, replies, reverted >>

\* Mutant: the ownership mask is not applied.
MergeWriteUnmasked ==
  /\ bus = "mergeWrite"
  /\ bitmap' = [s \in Switches |->
                  IF ByteOf[s] = position THEN incoming[s] ELSE bitmap[s]]
  /\ reverted' = reverted \cup
       {s \in Switches : /\ ByteOf[s] = position /\ Owner[s] # board
                         /\ busByte[s] # bitmap[s]}
  /\ bus' = "mergeRead" /\ position' = position + 1 /\ busByte' = Clear
  /\ UNCHANGED << queue, vstate, dirty, hostCall, board, incoming, sendState,
                  announced, reported, replies >>

MergeWrite ==
  /\ bus = "mergeWrite"
  /\ LET kept(s) == ByteOf[s] = position /\ Owner[s] # board
     IN  /\ bitmap' = [s \in Switches |->
                         CASE ByteOf[s] = position /\ ~kept(s) -> incoming[s]
                           [] kept(s)                          -> busByte[s]
                           [] OTHER                            -> bitmap[s]]
         /\ reverted' = reverted \cup
              {s \in Switches : kept(s) /\ busByte[s] # bitmap[s]}
  /\ bus' = "mergeRead" /\ position' = position + 1 /\ busByte' = Clear
  /\ UNCHANGED << queue, vstate, dirty, hostCall, board, incoming, sendState,
                  announced, reported, replies >>

MergeEnd ==
  /\ bus = "mergeRead" /\ position = Bytes
  /\ bus' = "poll" /\ position' = 0 /\ incoming' = Clear
  /\ UNCHANGED << bitmap, queue, vstate, dirty, hostCall, board, busByte,
                  sendState, announced, reported, replies, reverted >>

----------------------------------------------------------------------------
(* The bus thread: the reply of a virtual board, SendVirtualSwitchReply.   *)

ReplyBegin(b) ==
  /\ bus = "poll" /\ b \in Virtual
  /\ board' = b /\ sendState' = dirty[b]
  /\ bus' = IF dirty[b] THEN "copy" ELSE "write"
  /\ overlap' = (host \in {"read", "write"} /\ Owner[target] = b)
  /\ UNCHANGED << bitmap, queue, vstate, dirty, hostCall, incoming, position,
                  busByte, announced, reported, told, raced, reverted >>

\* Under m_stateMutex, which the host holds while it writes a bit.
ReplyCopy ==
  /\ bus = "copy" /\ host # "write"
  /\ bus' = "write" /\ incoming' = bitmap
  /\ UNCHANGED << bitmap, queue, vstate, dirty, hostCall, board, position,
                  busByte, sendState, announced, reported, replies, reverted >>

\* After the reply delay.  A reply without state tells the boards nothing.
ReplyWrite ==
  /\ bus = "write"
  /\ bus' = "clear" /\ incoming' = Clear
  /\ told' = [s \in Switches |-> IF sendState /\ Owner[s] = board
                                 THEN incoming[s] ELSE told[s]]
  /\ UNCHANGED << bitmap, queue, vstate, dirty, hostCall, board, position,
                  busByte, sendState, announced, reported, overlap, raced,
                  reverted >>

\* Mutant: a reply that could not be written clears dirty all the same.
ReplyFailsYetClears ==
  /\ bus = "write"
  /\ bus' = "poll" /\ incoming' = Clear /\ sendState' = FALSE
  /\ overlap' = FALSE /\ dirty' = [dirty EXCEPT ![board] = FALSE]
  /\ UNCHANGED << bitmap, queue, vstate, hostCall, board, position, busByte,
                  announced, reported, told, raced, reverted >>

ReplyFails ==
  /\ bus = "write"
  /\ bus' = "poll" /\ incoming' = Clear /\ sendState' = FALSE
  /\ overlap' = FALSE
  /\ UNCHANGED << bitmap, queue, vstate, dirty, hostCall, board, position,
                  busByte, announced, reported, told, raced, reverted >>

ReplyClear ==
  /\ bus = "clear"
  /\ dirty' = [dirty EXCEPT ![board] = FALSE]
  /\ raced' = CASE overlap                -> raced \cup {board}
                [] ~overlap /\ sendState  -> raced \ {board}
                [] OTHER                  -> raced
  /\ bus' = "poll" /\ sendState' = FALSE /\ overlap' = FALSE
  /\ UNCHANGED << bitmap, queue, vstate, hostCall, board, incoming, position,
                  busByte, announced, reported, told, reverted >>

----------------------------------------------------------------------------
HostThread ==
  \/ \E v \in Switches, on \in BOOLEAN : SetVirtualSwitchState(v, on)
  \/ SetBitRead \/ SetBitWrite \/ SetPush
  \/ GetNextSwitchState

\* The bus thread inside ApplySwitchBitmapDiff, which waits for nothing.
Apply == DiffBit \/ DiffEnd \/ MergeRead \/ MergeWrite \/ MergeEnd

BusThread ==
  \/ \E b \in Boards, frame \in Bitmap : ReceiveState(b, frame)
  \/ Apply
  \/ \E b \in Boards : ReplyBegin(b)
  \/ ReplyCopy \/ ReplyWrite \/ ReplyFails \/ ReplyClear

Next == HostThread \/ BusThread

Spec == Init /\ [][Next]_vars

\* Each thread goes on with the call, or the frame, it has begun.  No board need
\* send a frame or get a turn, and no reply need be written.
Fairness ==
  /\ WF_vars(SetBitRead \/ SetBitWrite \/ SetPush)
  /\ WF_vars(Apply)

FairSpec == Spec /\ Fairness

----------------------------------------------------------------------------
(* Properties.                                                             *)

\* Between calls the events a host has been given add up to the bitmap, for
\* every switch whose bit was not overwritten with an old value.
EventsMatchBitmap ==
  host = "idle" /\ bus \notin Applying =>
    \A s \in Switches \ reverted : announced[s] = bitmap[s]

\* When a virtual board is not dirty, the boards have been told the states of
\* its switches, except where a call of SetVirtualSwitchState overlapped the
\* board's reply: SendVirtualSwitchReply then clears the flag the call has set.
ChangesToldUnlessRaced ==
  \A v \in Switches \ (Real \cup reverted) :
    ~dirty[Owner[v]] /\ Owner[v] \notin raced => told[v] = vstate[v]

\* The last state the library has learnt of a switch, from its board or the host.
Actual == [s \in Switches |-> IF s \in Real THEN reported[s] ELSE vstate[s]]

\* A change the library has learnt of becomes an event in the end, unless another
\* thread's write undid the bit.
ChangesBecomeEvents ==
  \A s \in Switches :
    announced[s] # Actual[s] ~> (announced[s] = Actual[s] \/ s \in reverted)

\* The promise to the host.  ApplySwitchBitmapDiff and SetVirtualSwitchState
\* keep it for all switches but the real ones that share a byte with a
\* virtual switch.
Feed == INSTANCE SwitchFeed WITH
  actual <- Actual,
  spoilt <- reverted \cap Real

KeepsPromise == Feed!Spec
=============================================================================
