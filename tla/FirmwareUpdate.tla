---------------------------- MODULE FirmwareUpdate ----------------------------
(***************************************************************************)
(* Sending a firmware image to a board: UpdateBoardFirmware with the       *)
(* version query in front of it and AwaitAdminReply under it, on the       *)
(* host's thread, while the bus thread of RS485Comm::Run uses the same     *)
(* port and other threads of the host start and stop the runtime.          *)
(*                                                                         *)
(* A transfer is a version query, a begin, the chunks of the image one at  *)
(* a time, and a commit.  Every step waits for the board's answer.  The    *)
(* code tells answers apart by their command and, for chunks, their offset;*)
(* nothing in them says which call they answer.                            *)
(*                                                                         *)
(* The board's firmware is not part of the library.  The board here takes  *)
(* the frames in their order at any speed, refuses a chunk that is not the *)
(* next one, and installs only a complete image whose CRC is the announced *)
(* one, if the flash lets it.  Frames and answers may be lost.             *)
(***************************************************************************)
EXTENDS Naturals, Sequences

CONSTANTS
  Chunks,       \* chunks of an image
  Attempts,     \* how often a chunk is sent: 3 in the code
  RepeatOk,     \* the board acknowledges a repeat of the chunk it took last
  Mappings,     \* mapping frames of a resync
  Replies,      \* virtual boards in the chain of switch replies
  Overlapping,  \* a call may begin while the board still has frames to answer
  MaxCalls,     \* bound on the calls of UpdateBoardFirmware
  MaxBuffered   \* bound on the frames, and the answers, under way

ASSUME SizeAssumption ==
  /\ Chunks \in Nat \ {0} /\ Attempts \in Nat \ {0} /\ RepeatOk \in BOOLEAN
  /\ Mappings \in Nat /\ Replies \in Nat /\ Overlapping \in BOOLEAN
  /\ MaxCalls \in Nat /\ MaxBuffered \in Nat

VARIABLES
  pc,        \* where the host's call stands
  call,      \* number of the call; it also stands for its image
  sent,      \* chunks acknowledged
  attempt,   \* attempts spent on the chunk at hand
  result,    \* what the last call returned
  runtime,   \* m_runtimeEnabled
  loop,      \* where the bus thread's iteration stands
  left,      \* frames left of the mapping, or of the chain
  need,      \* m_needSessionResync
  trigger,   \* m_events holds a trigger
  toBoard,   \* frames under way to the board
  toHost,    \* answers in the host's input buffer
  staging,   \* the board: announced image and content so far, or nothing
  installed, \* the board: the image it runs, 0 at first
  intruders, \* history: frames of iterations written into the transfer
  restarted  \* history: the runtime was started during the transfer

transfer == << pc, call, sent, attempt, result >>
turn     == << loop, left, need >>
thread   == << runtime, trigger, turn >>
medium   == << toBoard, toHost >>
board    == << staging, installed >>
history  == << intruders, restarted >>
vars     == << transfer, thread, medium, board, history >>

Calls   == 1..MaxCalls
Images  == 0..MaxCalls
NoStage == [image |-> 0, content |-> << >>]

Waiting  == {"query", "begin", "chunk", "commit"}
States   == Waiting \cup {"idle", "check", "next"}
Transfer == {"begin", "next", "chunk", "commit"}

\* Past the gate an iteration is "gated", in a resync it is "mapping" until the
\* mapping frames are out and then "held", and it ends in the "chain".
Turns == {"top", "gated", "mapping", "held", "chain"}

\* The longest iteration: setup, mapping and output frame, or an output frame
\* and the replies of the virtual boards.
Longest == IF Mappings + 1 > Replies THEN Mappings + 2 ELSE Replies + 1

Ask    == [kind : Waiting, image : Calls, offset : 0..Chunks]
Answer == [kind : Waiting, ok : BOOLEAN, offset : 0..Chunks]

TypeOK ==
  /\ pc \in States /\ call \in Images
  /\ sent \in 0..Chunks /\ attempt \in 0..Attempts
  /\ result \in {"none", "ok", "error"}
  /\ runtime \in BOOLEAN
  /\ loop \in Turns /\ left \in 0..Longest /\ need \in BOOLEAN
  /\ trigger \in BOOLEAN
  /\ toBoard \in Seq(Ask) /\ toHost \in Seq(Answer)
  /\ staging \in [image : Images, content : Seq(Calls)]
  /\ installed \in Images
  /\ intruders \in 0..(Longest + 1) /\ restarted \in BOOLEAN

Init ==
  /\ pc = "idle" /\ call = 0 /\ sent = 0 /\ attempt = 0 /\ result = "none"
  /\ runtime \in BOOLEAN /\ trigger = FALSE
  /\ loop = "top" /\ left = 0 /\ need \in BOOLEAN
  /\ toBoard = << >> /\ toHost = << >>
  /\ staging = NoStage /\ installed = 0
  /\ intruders = 0 /\ restarted = FALSE

----------------------------------------------------------------------------
(* The host's thread.                                                      *)

\* WriteBytes: the frame gets onto the bus, where it may be lost.
Send(kind, offset) ==
  \/ toBoard' = toBoard
  \/ /\ Len(toBoard) < MaxBuffered
     /\ toBoard' = Append(toBoard, [kind |-> kind, image |-> call',
                                    offset |-> offset])

Return(r) ==
  /\ pc' = "idle" /\ result' = r
  /\ UNCHANGED << call, sent, attempt >>

\* StartUpdates, StopUpdates and a queued trigger, from this thread between the
\* calls and from any other at any time.
Command ==
  /\ \/ runtime' \in BOOLEAN /\ trigger' = trigger
     \/ trigger' = TRUE /\ runtime' = runtime
  /\ restarted' = (restarted \/ (pc \in Transfer /\ runtime'))
  /\ UNCHANGED << transfer, turn, medium, board, intruders >>

\* UpdateBoardFirmware is called and sends a version query.
UpdateBoardFirmware ==
  /\ pc = "idle" /\ call < MaxCalls
  /\ Overlapping \/ toBoard = << >>
  /\ call' = call + 1 /\ pc' = "query" /\ result' = "none"
  /\ sent' = 0 /\ attempt' = 0 /\ intruders' = 0 /\ restarted' = FALSE
  /\ toHost' = << >>
  /\ Send("query", 0)
  /\ UNCHANGED << thread, board >>

\* AwaitAdminReply and QueryBoardVersion: an answer with another command is
\* skipped.
Received(kind) == toHost # << >> /\ Head(toHost).kind = kind

SkipAnswer ==
  /\ pc \in Waiting /\ toHost # << >> /\ Head(toHost).kind # pc
  /\ toHost' = Tail(toHost)
  /\ UNCHANGED << transfer, thread, toBoard, board, history >>

\* The board is of the image's type or it is not.
VersionReport ==
  /\ pc = "query" /\ Received("query")
  /\ toHost' = Tail(toHost)
  /\ \/ pc' = "check" /\ UNCHANGED << call, sent, attempt, result >>
     \/ Return("error")
  /\ UNCHANGED << thread, toBoard, board, history >>

\* Mutant: m_runtimeEnabled is not asked.
BeginUnchecked ==
  /\ pc = "check"
  /\ pc' = "begin" /\ toHost' = << >>
  /\ UNCHANGED << call, sent, attempt, result, thread, board, history >>
  /\ Send("begin", 0)

\* The runtime must be off, now.  What is in the input buffer is flushed and
\* UpdateBegin sent.
Begin ==
  /\ pc = "check" /\ ~runtime
  /\ pc' = "begin" /\ toHost' = << >>
  /\ UNCHANGED << call, sent, attempt, result, thread, board, history >>
  /\ Send("begin", 0)

StillRunning ==
  /\ pc = "check" /\ runtime
  /\ Return("error")
  /\ UNCHANGED << thread, medium, board, history >>

BeginAck ==
  /\ pc = "begin" /\ Received("begin")
  /\ toHost' = Tail(toHost)
  /\ IF Head(toHost).ok
       THEN pc' = "next" /\ UNCHANGED << call, sent, attempt, result >>
       ELSE Return("error")
  /\ UNCHANGED << thread, toBoard, board, history >>

\* Mutant: a chunk is repeated for as long as it takes.
SendChunkForever ==
  /\ pc = "next" /\ sent < Chunks
  /\ pc' = "chunk"
  /\ UNCHANGED << call, sent, attempt, result, toHost, thread, board, history >>
  /\ Send("chunk", sent)

\* Mutant: one attempt too many.
SendChunkOnceMore ==
  /\ pc = "next" /\ sent < Chunks /\ attempt <= Attempts
  /\ pc' = "chunk" /\ attempt' = attempt + 1
  /\ UNCHANGED << call, sent, result, toHost, thread, board, history >>
  /\ Send("chunk", sent)

\* A chunk is sent, for the first time or again.
SendChunk ==
  /\ pc = "next" /\ sent < Chunks /\ attempt < Attempts
  /\ pc' = "chunk" /\ attempt' = attempt + 1
  /\ UNCHANGED << call, sent, result, toHost, thread, board, history >>
  /\ Send("chunk", sent)

\* The attempts are used up.
ChunkFails ==
  /\ pc = "next" /\ sent < Chunks /\ attempt = Attempts
  /\ Return("error")
  /\ UNCHANGED << thread, medium, board, history >>

\* Mutant: any answer that says ok is taken for the chunk's.
ChunkAckAnyOffset ==
  /\ pc = "chunk" /\ Received("chunk")
  /\ toHost' = Tail(toHost)
  /\ IF Head(toHost).ok
       THEN /\ pc' = "next" /\ sent' = sent + 1 /\ attempt' = 0
            /\ UNCHANGED << call, result >>
       ELSE Return("error")
  /\ UNCHANGED << thread, toBoard, board, history >>

\* The answer to a chunk.  A refusal ends the call whatever its offset; an
\* answer to another chunk spends the attempt.
ChunkAck ==
  /\ pc = "chunk" /\ Received("chunk")
  /\ toHost' = Tail(toHost)
  /\ LET ack == Head(toHost)
     IN  \/ /\ ack.ok /\ ack.offset = sent
            /\ pc' = "next" /\ sent' = sent + 1 /\ attempt' = 0
            /\ UNCHANGED << call, result >>
         \/ /\ ack.ok /\ ack.offset # sent
            /\ pc' = "next" /\ UNCHANGED << call, sent, attempt, result >>
         \/ ~ack.ok /\ Return("error")
  /\ UNCHANGED << thread, toBoard, board, history >>

Commit ==
  /\ pc = "next" /\ sent = Chunks
  /\ pc' = "commit"
  /\ UNCHANGED << call, sent, attempt, result, toHost, thread, board, history >>
  /\ Send("commit", 0)

\* Mutant: that the board answered at all is good enough.
UpdateResultUnread ==
  /\ pc = "commit" /\ Received("commit")
  /\ toHost' = Tail(toHost)
  /\ Return("ok")
  /\ UNCHANGED << thread, toBoard, board, history >>

UpdateResult ==
  /\ pc = "commit" /\ Received("commit")
  /\ toHost' = Tail(toHost)
  /\ Return(IF Head(toHost).ok THEN "ok" ELSE "error")
  /\ UNCHANGED << thread, toBoard, board, history >>

\* No answer in time: a chunk is tried again, everything else fails the call.
AwaitTimeout ==
  /\ pc \in Waiting
  /\ IF pc = "chunk"
       THEN pc' = "next" /\ UNCHANGED << call, sent, attempt, result >>
       ELSE Return("error")
  /\ UNCHANGED << thread, medium, board, history >>

\* A frame cannot be written.
WriteFails ==
  /\ pc \in {"check", "next"}
  /\ Return("error")
  /\ UNCHANGED << thread, medium, board, history >>

----------------------------------------------------------------------------
(* The bus thread, as far as it concerns the port.                         *)

\* A queued trigger goes out whether the runtime is on or not.
BusTrigger ==
  /\ loop = "top" /\ trigger
  /\ trigger' = FALSE
  /\ UNCHANGED << transfer, runtime, turn, medium, board, history >>

BusGate ==
  /\ loop = "top" /\ runtime
  /\ loop' = "gated"
  /\ UNCHANGED << transfer, runtime, trigger, left, need, medium, board, history >>

\* A frame of the iteration goes out.  In a transfer it is an intruder.
Intrude ==
  /\ intruders' = IF pc \in Transfer /\ intruders <= Longest
                  THEN intruders + 1 ELSE intruders
  /\ UNCHANGED << transfer, runtime, trigger, board, restarted >>

\* ResyncSession: the setup frame, the mapping frames one at a time, and the
\* flush behind them.
BusSetup ==
  /\ loop = "gated" /\ need
  /\ loop' = "mapping" /\ left' = Mappings
  /\ Intrude
  /\ UNCHANGED << need, medium >>

BusMapping ==
  /\ loop = "mapping" /\ left > 0
  /\ left' = left - 1
  /\ Intrude
  /\ UNCHANGED << loop, need, medium >>

BusResynced ==
  /\ loop = "mapping" /\ left = 0
  /\ loop' = "held" /\ need' = FALSE /\ toHost' = << >>
  /\ UNCHANGED << transfer, runtime, trigger, left, toBoard, board, history >>

\* The output frame, with the first board to poll if one is due.  After a resync
\* none is, for a while.
BusSend ==
  /\ \/ loop = "gated" /\ ~need /\ loop' \in {"chain", "top"}
     \/ loop = "held" /\ loop' = "top"
  /\ left' = IF loop' = "chain" THEN Replies ELSE 0
  /\ Intrude
  /\ UNCHANGED << need, medium >>

\* The port rejects the frame and the iteration is over.
BusFails ==
  /\ loop \in {"gated", "mapping", "held"}
  /\ loop' = "top" /\ left' = 0
  /\ UNCHANGED << transfer, runtime, trigger, need, medium, board, history >>

\* The reply of a virtual board, which the bus thread writes itself.
BusReply ==
  /\ loop = "chain" /\ left > 0
  /\ left' = left - 1
  /\ Intrude
  /\ UNCHANGED << loop, need, medium >>

\* Waiting for the switch replies the bus thread reads whatever comes in.
BusReads ==
  /\ loop = "chain" /\ toHost # << >>
  /\ toHost' = Tail(toHost)
  /\ UNCHANGED << transfer, thread, toBoard, board, history >>

\* The chain is through, or it is missed, once too often perhaps.
BusChainEnds ==
  /\ loop = "chain"
  /\ loop' = "top" /\ left' = 0 /\ need' \in {need, TRUE}
  /\ UNCHANGED << transfer, runtime, trigger, medium, board, history >>

----------------------------------------------------------------------------
(* The board.                                                              *)

\* The answer arrives or is lost.
Respond(kind, ok, offset) ==
  \/ toHost' = toHost
  \/ /\ Len(toHost) < MaxBuffered
     /\ toHost' = Append(toHost, [kind |-> kind, ok |-> ok, offset |-> offset])

Complete ==
  /\ staging.image # 0
  /\ staging.content = [k \in 1..Chunks |-> staging.image]

\* What the board does with a frame, and its answer.
Take(ask) ==
  LET next == staging.image # 0 /\ ask.offset = Len(staging.content)
      last == /\ RepeatOk /\ staging.image # 0
              /\ ask.offset + 1 = Len(staging.content)
  IN  \/ /\ ask.kind = "query"
         /\ UNCHANGED board /\ Respond("query", TRUE, 0)
      \/ /\ ask.kind = "begin"
         /\ \E ok \in BOOLEAN :
              /\ staging' = IF ok THEN [image |-> ask.image, content |-> << >>]
                            ELSE staging
              /\ Respond("begin", ok, 0)
         /\ UNCHANGED installed
      \/ /\ ask.kind = "chunk"
         /\ staging' = IF next /\ Len(staging.content) < Chunks
                       THEN [staging EXCEPT !.content = Append(@, ask.image)]
                       ELSE staging
         /\ UNCHANGED installed /\ Respond("chunk", next \/ last, ask.offset)
      \/ /\ ask.kind = "commit"
         /\ staging' = NoStage
         /\ \E ok \in {FALSE, Complete} :
              /\ installed' = IF ok THEN staging.image ELSE installed
              /\ Respond("commit", ok, 0)

BoardStep ==
  /\ toBoard # << >>
  /\ toBoard' = Tail(toBoard)
  /\ Take(Head(toBoard))
  /\ UNCHANGED << transfer, thread, history >>

----------------------------------------------------------------------------
HostStep ==
  \/ SkipAnswer \/ VersionReport \/ Begin \/ StillRunning \/ BeginAck
  \/ SendChunk \/ ChunkFails \/ ChunkAck \/ Commit \/ UpdateResult
  \/ AwaitTimeout \/ WriteFails

BusStep ==
  \/ BusTrigger \/ BusGate \/ BusSetup \/ BusMapping \/ BusResynced \/ BusSend
  \/ BusFails \/ BusReply \/ BusReads \/ BusChainEnds

Next == Command \/ UpdateBoardFirmware \/ HostStep \/ BusStep \/ BoardStep

Spec == Init /\ [][Next]_vars

\* The host's thread runs on; the board and the bus thread need not.
FairSpec == Spec /\ WF_vars(HostStep)

----------------------------------------------------------------------------
(* Properties.                                                             *)

\* As long as the board has dealt with the frames of the calls before (see
\* Overlapping), an update is all or nothing and its result is to be relied on:
\* the board takes the image of the call, whole, only when the host has had
\* every chunk acknowledged, and a call that reports success has installed it.
\* A board that falls behind "stops the transfer instead of silently losing the
\* middle of its own firmware" (RS485Comm.h).
Image == INSTANCE ImageInstall WITH
  calling   <- pc # "idle",
  delivered <- sent = Chunks

KeepsPromise == Image!Spec

\* A chunk counts as acknowledged only when the board holds it, with all the
\* chunks before it (RS485Comm.h: "every chunk is acknowledged before the next
\* is sent").  The same condition applies.
AckedMeansStaged ==
  pc \in {"next", "chunk"} =>
    /\ sent > 0 => staging.image = call
    /\ sent <= Len(staging.content)

\* The check of m_runtimeEnabled lets no more into a transfer than the iteration
\* under way has still to write: an output frame with the replies of virtual
\* boards, or a whole resync with its output frame.  (RS485Comm.cpp says of the
\* check: "The runtime loop must not be sending output frames into the middle of
\* a transfer".)  Triggers are not gated and not counted; and the check is made
\* once, so nothing is said of a call in which another thread starts the runtime.
IntrusionBounded == ~restarted => intruders <= Longest

\* Whatever the board answers and the bus thread reads away, the call returns.
UpdateReturns == (pc # "idle") ~> (pc = "idle")
=============================================================================
