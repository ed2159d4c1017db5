------------------------- MODULE FirmwareUpdateProofs -------------------------
(***************************************************************************)
(* UpdateBoardFirmware for any number of chunks, attempts and calls: what  *)
(* the check of m_runtimeEnabled keeps out of a transfer, and what the     *)
(* acknowledgements and the result say of the board.                       *)
(***************************************************************************)
EXTENDS FirmwareUpdate, TLAPS

USE DEF transfer, turn, thread, medium, board, history, vars, Waiting, Transfer

\* What the bus thread does to the port: it writes, and it takes answers away.
LEMMA BusFacts ==
  ASSUME BusStep
  PROVE  /\ UNCHANGED << transfer, toBoard, board, restarted >>
         /\ \/ toHost' = toHost \/ toHost' = << >>
            \/ toHost # << >> /\ toHost' = Tail(toHost)
BY DEF BusStep, BusTrigger, BusGate, BusSetup, BusMapping, BusResynced, BusSend,
       BusFails, BusReply, BusReads, BusChainEnds, Intrude

----------------------------------------------------------------------------
(* Types.                                                                  *)

\* A frame that is sent is under way, or it is lost.
LEMMA SendType ==
  ASSUME toBoard \in Seq(Ask), call' \in Calls,
         NEW kind \in Waiting, NEW offset \in 0..Chunks, Send(kind, offset)
  PROVE  toBoard' \in Seq(Ask)
<1>1. [kind |-> kind, image |-> call', offset |-> offset] \in Ask
  BY DEF Ask
<1> QED
  BY <1>1 DEF Send

\* The same for an answer.
LEMMA RespondType ==
  ASSUME toHost \in Seq(Answer), NEW kind \in Waiting, NEW ok \in BOOLEAN,
         NEW offset \in 0..Chunks, Respond(kind, ok, offset)
  PROVE  toHost' \in Seq(Answer)
<1>1. [kind |-> kind, ok |-> ok, offset |-> offset] \in Answer
  BY DEF Answer
<1> QED
  BY <1>1 DEF Respond

\* The call on the host's thread has a number, and a chunk that awaits its
\* acknowledgement is one of the image.
TypeInv ==
  /\ TypeOK
  /\ pc # "idle" => call \in Calls
  /\ pc = "chunk" => sent < Chunks

LEMMA HostType ==
  ASSUME TypeInv, HostStep PROVE TypeInv'
<1> USE SizeAssumption DEF TypeInv, TypeOK, States, Calls, Images
<1>0. toHost # << >> => Tail(toHost) \in Seq(Answer)
  OBVIOUS
<1>1. CASE SkipAnswer BY <1>0, <1>1 DEF SkipAnswer
<1>2. CASE VersionReport BY <1>0, <1>2 DEF VersionReport, Received, Return
<1>3. CASE Begin
  <2>1. toBoard' \in Seq(Ask)
    BY <1>3, SendType DEF Begin
  <2> QED BY <1>3, <2>1 DEF Begin
<1>4. CASE StillRunning BY <1>4 DEF StillRunning, Return
<1>5. CASE BeginAck BY <1>0, <1>5 DEF BeginAck, Received, Return
<1>6. CASE SendChunk
  <2>1. toBoard' \in Seq(Ask)
    BY <1>6, SendType DEF SendChunk
  <2> QED BY <1>6, <2>1 DEF SendChunk
<1>7. CASE ChunkFails BY <1>7 DEF ChunkFails, Return
<1>8. CASE ChunkAck
  <2>1. Head(toHost) \in Answer
    BY <1>8 DEF ChunkAck, Received
  <2>2. sent + 1 \in 0..Chunks
    BY <1>8 DEF ChunkAck
  <2>3. /\ toHost' \in Seq(Answer)
        /\ UNCHANGED << thread, toBoard, board, history, call >>
    BY <1>0, <1>8 DEF ChunkAck, Received, Return
  <2>4. /\ pc' \in {"idle", "next"} /\ sent' \in 0..Chunks
        /\ attempt' \in 0..Attempts /\ result' \in {result, "error"}
    BY <1>8, <2>2 DEF ChunkAck, Return
  <2> QED BY <1>8, <2>3, <2>4 DEF ChunkAck
<1>9. CASE Commit
  <2>1. toBoard' \in Seq(Ask)
    BY <1>9, SendType DEF Commit
  <2> QED BY <1>9, <2>1 DEF Commit
<1>10. CASE UpdateResult BY <1>0, <1>10 DEF UpdateResult, Received, Return
<1>11. CASE AwaitTimeout BY <1>11 DEF AwaitTimeout, Return
<1>12. CASE WriteFails BY <1>12 DEF WriteFails, Return
<1> QED BY <1>1, <1>2, <1>3, <1>4, <1>5, <1>6, <1>7, <1>8, <1>9, <1>10, <1>11,
           <1>12 DEF HostStep

\* What the board answers and keeps has its type.
LEMMA TakeType ==
  ASSUME TypeInv, NEW ask \in Ask, Take(ask)
  PROVE  /\ toHost' \in Seq(Answer) /\ installed' \in Images
         /\ staging' \in [image : Images, content : Seq(Calls)]
<1> USE DEF TypeInv, TypeOK, Images
<1>1. /\ ask.kind \in Waiting /\ ask.image \in Calls /\ ask.image \in Images
      /\ ask.offset \in 0..Chunks /\ 0 \in 0..Chunks
  BY SizeAssumption DEF Ask, Calls
<1>2. NoStage \in [image : Images, content : Seq(Calls)]
  BY SizeAssumption DEF NoStage
<1>3. CASE ask.kind = "query"
  BY <1>1, <1>3, RespondType DEF Take
<1>4. CASE ask.kind = "begin"
  <2>1. PICK ok \in BOOLEAN :
          /\ staging' = IF ok THEN [image |-> ask.image, content |-> << >>]
                        ELSE staging
          /\ Respond("begin", ok, 0)
    BY <1>4 DEF Take
  <2>2. installed' = installed
    BY <1>4 DEF Take
  <2> QED
    BY <1>1, <2>1, <2>2, RespondType
<1>5. CASE ask.kind = "chunk"
  <2>1. /\ \/ staging' = staging
           \/ staging' = [staging EXCEPT !.content = Append(@, ask.image)]
        /\ installed' = installed
        /\ \E ok \in BOOLEAN : Respond("chunk", ok, ask.offset)
    BY <1>5 DEF Take
  <2>2. toHost' \in Seq(Answer)
    BY <1>1, <2>1, RespondType
  <2>3. staging' \in [image : Images, content : Seq(Calls)]
    <3>1. staging.content \in Seq(Calls)
      OBVIOUS
    <3>2. Append(staging.content, ask.image) \in Seq(Calls)
      BY <1>1, <3>1
    <3> QED
      BY <2>1, <3>2
  <2> QED
    BY <2>1, <2>2, <2>3
<1>6. CASE ask.kind = "commit"
  <2>1. PICK ok \in BOOLEAN : /\ installed' = IF ok THEN staging.image ELSE installed
                              /\ Respond("commit", ok, 0)
    BY <1>6 DEF Take, Complete
  <2>2. staging' = NoStage
    BY <1>6 DEF Take
  <2>3. installed' \in Images
    BY <2>1
  <2>4. toHost' \in Seq(Answer)
    BY <1>1, <2>1, RespondType
  <2> QED
    BY <1>2, <2>2, <2>3, <2>4
<1> QED
  BY <1>1, <1>3, <1>4, <1>5, <1>6

LEMMA LongestIs ==
  /\ Mappings \in Nat /\ Replies \in Nat /\ Longest \in Nat
  /\ Mappings + 2 <= Longest /\ Replies + 1 <= Longest
BY SizeAssumption DEF Longest

LEMMA IntrudeType ==
  ASSUME intruders \in 0..(Longest + 1), Intrude
  PROVE  intruders' \in 0..(Longest + 1)
BY LongestIs DEF Intrude

LEMMA BusType ==
  ASSUME TypeInv, BusStep PROVE TypeInv'
<1>1. /\ pc' \in States /\ call' \in Images
      /\ sent' \in 0..Chunks /\ attempt' \in 0..Attempts
      /\ result' \in {"none", "ok", "error"}
      /\ toBoard' \in Seq(Ask) /\ restarted' \in BOOLEAN
      /\ staging' \in [image : Images, content : Seq(Calls)]
      /\ installed' \in Images
      /\ pc' # "idle" => call' \in Calls
      /\ pc' = "chunk" => sent' < Chunks
  BY BusFacts DEF TypeInv, TypeOK
<1>2. toHost' \in Seq(Answer)
  <2>1. toHost \in Seq(Answer)
    BY DEF TypeInv, TypeOK
  <2>2. toHost # << >> => Tail(toHost) \in Seq(Answer)
    BY <2>1
  <2>3. << >> \in Seq(Answer)
    OBVIOUS
  <2>4. \/ toHost' = toHost \/ toHost' = << >>
        \/ toHost # << >> /\ toHost' = Tail(toHost)
    BY DEF BusStep, BusTrigger, BusGate, BusSetup, BusMapping, BusResynced, BusSend,
           BusFails, BusReply, BusReads, BusChainEnds, medium
  <2> QED BY <2>1, <2>2, <2>3, <2>4
<1>3. /\ runtime' \in BOOLEAN /\ trigger' \in BOOLEAN
      /\ loop' \in Turns /\ need' \in BOOLEAN
  BY DEF TypeInv, TypeOK, Turns, BusStep, BusTrigger, BusGate, BusSetup, BusMapping,
         BusResynced, BusSend, BusFails, BusReply, BusReads, BusChainEnds, Intrude
<1>4. left' \in 0..Longest
  <2>1. left \in 0..Longest /\ 0 \in 0..Longest /\ Mappings \in 0..Longest
        /\ Replies \in 0..Longest /\ (left > 0 => left - 1 \in 0..Longest)
    BY LongestIs DEF TypeInv, TypeOK
  <2> QED
    BY <2>1
    DEF BusStep, BusTrigger, BusGate, BusSetup, BusMapping, BusResynced, BusSend,
        BusFails, BusReply, BusReads, BusChainEnds, Intrude
<1>5. intruders' \in 0..(Longest + 1)
  <2>1. intruders' = intruders \/ Intrude
    BY DEF BusStep, BusTrigger, BusGate, BusSetup, BusMapping, BusResynced, BusSend,
           BusFails, BusReply, BusReads, BusChainEnds
  <2> QED BY <2>1, IntrudeType DEF TypeInv, TypeOK
<1> QED BY <1>1, <1>2, <1>3, <1>4, <1>5 DEF TypeInv, TypeOK

LEMMA TypeInductive ==
  ASSUME TypeInv, [Next]_vars PROVE TypeInv'
<1> USE SizeAssumption DEF TypeInv, TypeOK, States, Calls, Images
<1>1. CASE Command BY <1>1 DEF Command
<1>2. CASE UpdateBoardFirmware
  <2>1. call' \in Calls
    BY <1>2 DEF UpdateBoardFirmware
  <2>2. toBoard' \in Seq(Ask)
    BY <1>2, <2>1, SendType DEF UpdateBoardFirmware
  <2>3. /\ 0 \in 0..Chunks /\ 0 \in 0..Attempts /\ 0 \in 0..(Longest + 1)
        /\ << >> \in Seq(Answer) /\ Longest' = Longest
    BY LongestIs DEF Longest
  <2>4. /\ sent' = 0 /\ attempt' = 0 /\ intruders' = 0 /\ toHost' = << >>
        /\ pc' = "query" /\ result' = "none" /\ restarted' = FALSE
    BY <1>2 DEF UpdateBoardFirmware
  <2>5. /\ sent' \in 0..Chunks /\ attempt' \in 0..Attempts
        /\ intruders' \in 0..(Longest + 1) /\ toHost' \in Seq(Answer)
    BY <2>3, <2>4
  <2>6. call' \in Images
    BY <2>1
  <2>7. UNCHANGED << runtime, loop, left, need, trigger, staging, installed >>
    BY <1>2 DEF UpdateBoardFirmware, thread, turn, board
  <2> QED BY <2>1, <2>2, <2>3, <2>4, <2>5, <2>6, <2>7
<1>3. CASE HostStep BY <1>3, HostType
<1>4. CASE BusStep BY <1>4, BusType
<1>5. CASE BoardStep
  <2>1. Head(toBoard) \in Ask /\ Tail(toBoard) \in Seq(Ask)
    BY <1>5 DEF BoardStep
  <2>2. /\ toHost' \in Seq(Answer) /\ installed' \in Images
        /\ staging' \in [image : Images, content : Seq(Calls)]
    BY <1>5, <2>1, TakeType DEF BoardStep
  <2> QED BY <1>5, <2>1, <2>2 DEF BoardStep
<1>6. CASE UNCHANGED vars BY <1>6
<1> QED BY <1>1, <1>2, <1>3, <1>4, <1>5, <1>6 DEF Next

LEMMA TypeInit == Init => TypeInv
<1> SUFFICES ASSUME Init PROVE TypeInv
  OBVIOUS
<1>1. /\ 0 \in 0..Chunks /\ 0 \in 0..Attempts /\ 0 \in Images
      /\ << >> \in Seq(Ask) /\ << >> \in Seq(Answer) /\ << >> \in Seq(Calls)
  BY SizeAssumption DEF Images
<1>2. NoStage \in [image : Images, content : Seq(Calls)]
  BY <1>1 DEF NoStage
<1>3. /\ toBoard \in Seq(Ask) /\ toHost \in Seq(Answer)
      /\ call \in Images /\ installed \in Images
      /\ sent \in 0..Chunks /\ attempt \in 0..Attempts
  BY <1>1 DEF Init
<1>4. /\ pc = "idle" /\ result = "none" /\ loop = "top" /\ trigger = FALSE
      /\ runtime \in BOOLEAN /\ need \in BOOLEAN /\ restarted = FALSE
      /\ staging = NoStage
  BY DEF Init
<1>5. left \in 0..Longest /\ intruders \in 0..(Longest + 1)
  BY LongestIs DEF Init
<1> QED
  BY <1>2, <1>3, <1>4, <1>5 DEF TypeInv, TypeOK, States, Turns

\* Every variable keeps its type: the attempts at a chunk are bounded, no chunk
\* is acknowledged past the end of the image.
THEOREM TypeCorrect == Spec => []TypeOK
<1>1. TypeInv => TypeOK
  BY DEF TypeInv
<1> QED BY <1>1, TypeInit, TypeInductive, PTL DEF Spec

----------------------------------------------------------------------------
(* What gets into a transfer.                                              *)

\* Frames that the iteration under way has still to write.
Remaining ==
  CASE loop = "gated"   -> IF need THEN Mappings + 2 ELSE Replies + 1
    [] loop = "mapping" -> left + 1
    [] loop = "held"    -> 1
    [] loop = "chain"   -> left
    [] OTHER            -> 0

RemainingTable ==
  /\ loop = "gated" => Remaining = IF need THEN Mappings + 2 ELSE Replies + 1
  /\ loop = "mapping" => Remaining = left + 1
  /\ loop = "held" => Remaining = 1
  /\ loop = "chain" => Remaining = left
  /\ loop = "top" => Remaining = 0

LEMMA RemainingIs == RemainingTable
<1>1. loop = "gated" => Remaining = IF need THEN Mappings + 2 ELSE Replies + 1
  BY DEF Remaining
<1>2. loop = "mapping" => Remaining = left + 1
  BY DEF Remaining
<1>3. loop = "held" => Remaining = 1
  BY DEF Remaining
<1>4. loop = "chain" => Remaining = left
  BY DEF Remaining
<1>5. loop = "top" => Remaining = 0
  BY DEF Remaining
<1> QED BY <1>1, <1>2, <1>3, <1>4, <1>5 DEF RemainingTable

LEMMA RemainingWillBe == RemainingTable'
  BY RemainingIs, PTL

\* During a transfer the runtime stays off, so the bus thread passes its gate no
\* more: what came into the transfer and what is still to come is together no
\* more than one iteration.
GateInv ==
  /\ loop = "mapping" => left <= Mappings
  /\ loop = "chain" => left <= Replies
  /\ ~restarted => intruders <= Longest
  /\ pc \in Transfer /\ ~restarted => ~runtime /\ intruders + Remaining <= Longest
  /\ pc \in {"query", "check"} => intruders = 0 /\ ~restarted

\* An iteration has no more to write than the longest one.
LEMMA RemainingBounded ==
  ASSUME TypeInv, GateInv PROVE Remaining \in Nat /\ Remaining <= Longest
<1>1. left \in Nat /\ left <= Longest /\ loop \in Turns /\ need \in BOOLEAN
  BY LongestIs DEF TypeInv, TypeOK
<1>2. CASE loop = "gated" BY <1>1, <1>2, LongestIs, RemainingIs DEF RemainingTable
<1>3. CASE loop = "mapping"
  BY <1>1, <1>3, LongestIs, RemainingIs DEF RemainingTable, GateInv
<1>4. CASE loop \in {"held", "chain", "top"}
  BY <1>1, <1>4, LongestIs, RemainingIs DEF RemainingTable
<1> QED BY <1>1, <1>2, <1>3, <1>4 DEF Turns

LEMMA OneLess ==
  ASSUME NEW more \in Nat, NEW come \in Nat, NEW new \in Nat, NEW all \in Nat,
         come + more <= all, new + 1 <= more
  PROVE  come + 1 + new <= all /\ come + 1 <= all
OBVIOUS

LEMMA NoneLess ==
  ASSUME NEW more \in Nat, NEW come \in Nat, NEW new \in Nat, NEW all \in Nat,
         come + more <= all, new <= more
  PROVE  come + new <= all
OBVIOUS

\* A frame that goes out is one less to come, or it was the last one.
LEMMA OneIntruderMore ==
  ASSUME TypeInv, GateInv, Intrude, Remaining' + 1 <= Remaining, Remaining' \in Nat,
         loop' = "mapping" => left' <= Mappings, loop' = "chain" => left' <= Replies
  PROVE  GateInv'
<1>1. /\ intruders \in Nat /\ Longest \in Nat /\ Remaining \in Nat
  BY LongestIs, RemainingBounded DEF TypeInv, TypeOK
<1>2. UNCHANGED << pc, runtime, restarted, Longest >>
  BY DEF Intrude, Longest
<1>3. CASE pc \in Transfer
  <2>1. ASSUME ~restarted
        PROVE  /\ intruders' = intruders + 1 /\ ~runtime
               /\ intruders' + Remaining' <= Longest /\ intruders' <= Longest
    <3>1. ~runtime /\ intruders + Remaining <= Longest /\ intruders <= Longest
      BY <1>3, <2>1 DEF GateInv
    <3>2. intruders' = intruders + 1
      BY <1>3, <3>1 DEF Intrude
    <3>3. intruders + 1 + Remaining' <= Longest /\ intruders + 1 <= Longest
      BY <1>1, <3>1, OneLess
    <3> QED BY <3>1, <3>2, <3>3
  <2> QED BY <1>2, <1>3, <2>1 DEF GateInv
<1>4. CASE pc \notin Transfer
  <2>1. intruders' = intruders
    BY <1>4 DEF Intrude
  <2> QED BY <1>2, <1>4, <2>1 DEF GateInv
<1> QED BY <1>3, <1>4

\* A step of the bus thread without a frame leaves no more to come.
LEMMA NoIntruder ==
  ASSUME TypeInv, GateInv, UNCHANGED << pc, runtime, restarted, intruders >>,
         Remaining' \in Nat, Remaining' <= Remaining \/ runtime,
         loop' = "mapping" => left' <= Mappings, loop' = "chain" => left' <= Replies
  PROVE  GateInv'
<1>1. intruders \in Nat /\ Longest \in Nat /\ Remaining \in Nat /\ Longest' = Longest
  BY LongestIs, RemainingBounded DEF TypeInv, TypeOK, Longest
<1>2. ASSUME pc \in Transfer, ~restarted
      PROVE  ~runtime /\ intruders + Remaining' <= Longest
  <2>1. ~runtime /\ intruders + Remaining <= Longest
    BY <1>2 DEF GateInv
  <2>2. Remaining' <= Remaining
    BY <2>1
  <2> QED BY <1>1, <2>1, <2>2, NoneLess
<1> QED BY <1>1, <1>2 DEF GateInv

LEMMA BusKeepsGate ==
  ASSUME TypeInv, GateInv, BusStep PROVE GateInv'
<1>1. /\ left \in Nat /\ RemainingTable /\ RemainingTable'
      /\ Mappings \in Nat /\ Replies \in Nat
      /\ Remaining \in Nat
  BY LongestIs, RemainingIs, RemainingWillBe, RemainingBounded DEF TypeInv, TypeOK
<1>2. CASE BusTrigger
  <2>1. UNCHANGED << loop, left, need >>
    BY <1>2 DEF BusTrigger
  <2>2. Remaining' = Remaining
    BY <2>1 DEF Remaining
  <2> QED BY <1>1, <1>2, <2>1, <2>2, NoIntruder DEF BusTrigger, GateInv
<1>3. CASE BusGate
  <2>1. Remaining' \in Nat
    BY <1>1, <1>3 DEF BusGate, RemainingTable
  <2> QED BY <1>3, <2>1, NoIntruder DEF BusGate
<1>4. CASE BusSetup
  <2>1. Remaining = Mappings + 2 /\ Remaining' = Mappings + 1 /\ left' = Mappings
    BY <1>1, <1>4 DEF BusSetup, RemainingTable
  <2>2. Remaining' + 1 <= Remaining /\ Remaining' \in Nat /\ left' <= Mappings
    BY <1>1, <2>1
  <2> QED BY <1>4, <2>2, OneIntruderMore DEF BusSetup
<1>5. CASE BusMapping
  <2>1. Remaining = left + 1 /\ Remaining' = left' + 1 /\ left' = left - 1 /\ left > 0
        /\ left <= Mappings
    BY <1>1, <1>5 DEF BusMapping, RemainingTable, GateInv
  <2>2. Remaining' + 1 <= Remaining /\ Remaining' \in Nat /\ left' <= Mappings
    BY <1>1, <2>1
  <2> QED BY <1>5, <2>2, OneIntruderMore DEF BusMapping
<1>6. CASE BusResynced
  <2>1. Remaining = 1 /\ Remaining' = 1 /\ loop' = "held"
    BY <1>1, <1>6 DEF BusResynced, RemainingTable
  <2> QED BY <1>6, <2>1, NoIntruder DEF BusResynced
<1>7. CASE BusSend
  <2>1. CASE loop' = "chain"
    <3>1. Remaining = Replies + 1 /\ Remaining' = Replies /\ left' = Replies
      BY <1>1, <1>7, <2>1 DEF BusSend, RemainingTable
    <3>2. Remaining' + 1 <= Remaining /\ Remaining' \in Nat /\ left' <= Replies
      BY <1>1, <3>1
    <3> QED BY <1>7, <2>1, <3>2, OneIntruderMore DEF BusSend
  <2>2. CASE loop = "held" /\ loop' = "top"
    <3>1. Remaining = 1 /\ Remaining' = 0
      BY <1>1, <1>7, <2>2 DEF RemainingTable
    <3> QED BY <1>7, <2>2, <3>1, OneIntruderMore DEF BusSend
  <2>3. CASE loop = "gated" /\ loop' = "top"
    <3>1. Remaining \in Nat /\ Remaining >= 1 /\ Remaining' = 0
      BY <1>1, <1>7, <2>3 DEF BusSend, RemainingTable
    <3> QED BY <1>7, <2>3, <3>1, OneIntruderMore DEF BusSend
  <2> QED BY <1>7, <2>1, <2>2, <2>3 DEF BusSend
<1>8. CASE BusFails
  <2>1. Remaining' = 0 /\ loop' = "top"
    BY <1>1, <1>8 DEF BusFails, RemainingTable
  <2> QED BY <1>1, <1>8, <2>1, NoIntruder DEF BusFails
<1>9. CASE BusReply
  <2>1. /\ Remaining = left /\ Remaining' = left' /\ left' = left - 1 /\ left > 0
        /\ left <= Replies
    BY <1>1, <1>9 DEF BusReply, RemainingTable, GateInv
  <2>2. Remaining' + 1 <= Remaining /\ Remaining' \in Nat /\ left' <= Replies
    BY <1>1, <2>1
  <2> QED BY <1>9, <2>2, OneIntruderMore DEF BusReply
<1>10. CASE BusReads
  <2>1. UNCHANGED << loop, left, need >>
    BY <1>10 DEF BusReads
  <2>2. Remaining' = Remaining
    BY <2>1 DEF Remaining
  <2> QED BY <1>1, <1>10, <2>1, <2>2, NoIntruder DEF BusReads, GateInv
<1>11. CASE BusChainEnds
  <2>1. Remaining' = 0 /\ loop' = "top"
    BY <1>1, <1>11 DEF BusChainEnds, RemainingTable
  <2> QED BY <1>1, <1>11, <2>1, NoIntruder DEF BusChainEnds
<1> QED BY <1>2, <1>3, <1>4, <1>5, <1>6, <1>7, <1>8, <1>9, <1>10, <1>11 DEF BusStep

\* A step of the host's thread that ends no check.
LEMMA GateStays ==
  ASSUME GateInv, UNCHANGED << thread, history >>,
         pc' \in Transfer => pc \in Transfer,
         pc' \in {"query", "check"} => pc \in {"query", "check"}
  PROVE  GateInv'
<1>1. Remaining' = Remaining /\ Longest' = Longest
  BY DEF Remaining, Longest
<1> QED BY <1>1 DEF GateInv

\* The host's thread enters the transfer only through the check.
LEMMA HostKeepsGate ==
  ASSUME TypeInv, GateInv, HostStep PROVE GateInv'
<1>1. CASE Begin
  <2>1. /\ intruders = 0 /\ ~runtime /\ pc' = "begin" /\ UNCHANGED << thread, history >>
    BY <1>1 DEF Begin, GateInv
  <2>2. Remaining' = Remaining /\ Longest' = Longest
    BY <2>1 DEF Remaining, Longest
  <2>3. 0 + Remaining <= Longest /\ 0 <= Longest
    BY RemainingBounded, LongestIs
  <2> QED BY <2>1, <2>2, <2>3 DEF GateInv
<1>2. CASE ~Begin
  <2>1. /\ UNCHANGED << thread, history >>
        /\ pc' \in Transfer => pc \in Transfer
        /\ pc' \in {"query", "check"} => pc \in {"query", "check"}
    BY <1>2
    DEF HostStep, SkipAnswer, VersionReport, StillRunning, BeginAck, SendChunk,
        ChunkFails, ChunkAck, Commit, UpdateResult, AwaitTimeout, WriteFails, Return
  <2> QED BY <2>1, GateStays
<1> QED BY <1>1, <1>2

\* Another thread may stop the runtime; once it starts it nothing is said.
LEMMA CommandKeepsGate ==
  ASSUME TypeInv, GateInv, Command PROVE GateInv'
<1>1. /\ UNCHANGED << pc, loop, left, need, intruders >>
      /\ restarted' = (restarted \/ (pc \in Transfer /\ runtime'))
  BY DEF Command
<1>2. Remaining' = Remaining /\ Longest' = Longest
  BY <1>1 DEF Remaining, Longest
<1>3. ~restarted' => ~restarted /\ (pc \in Transfer => ~runtime')
  BY <1>1
<1>4. pc \in {"query", "check"} => restarted' = restarted
  BY <1>1 DEF TypeInv, TypeOK
<1> QED BY <1>1, <1>2, <1>3, <1>4 DEF GateInv

LEMMA GateInductive ==
  ASSUME TypeInv, GateInv, [Next]_vars PROVE GateInv'
<1>1. CASE Command BY <1>1, CommandKeepsGate
<1>2. CASE UpdateBoardFirmware
  <2>1. /\ pc' = "query" /\ intruders' = 0 /\ restarted' = FALSE
        /\ UNCHANGED << loop, left >> /\ Longest' = Longest
    BY <1>2 DEF UpdateBoardFirmware, Longest
  <2> QED BY <2>1, LongestIs DEF GateInv
<1>3. CASE HostStep BY <1>3, HostKeepsGate
<1>4. CASE BusStep BY <1>4, BusKeepsGate
<1>5. CASE BoardStep BY <1>5, GateStays DEF BoardStep
<1>6. CASE UNCHANGED vars BY <1>6, GateStays
<1> QED BY <1>1, <1>2, <1>3, <1>4, <1>5, <1>6 DEF Next

\* Into a transfer comes no more than the iteration under way at the check of
\* m_runtimeEnabled (RS485Comm.cpp:1654) has still to write, a resync and the
\* replies of virtual boards included, unless another thread starts the runtime
\* during the call; for any number of chunks, attempts, mapping frames, virtual
\* boards and calls.
THEOREM IntrusionBoundedHolds == Spec => []IntrusionBounded
<1>1. Init => GateInv
  BY LongestIs DEF Init, GateInv
<1>2. TypeInv /\ GateInv /\ [Next]_vars => GateInv'
  BY GateInductive
<1>3. GateInv => IntrusionBounded
  BY DEF GateInv, IntrusionBounded
<1> QED BY <1>1, <1>2, <1>3, TypeInit, TypeInductive, PTL DEF Spec

----------------------------------------------------------------------------
(* Acknowledgement and result.                                             *)

\* What the frames and answers under way are of, by the place of the call.
\* Begin and commit are sent once, so their answer comes when no frame is left
\* behind; UpdateBoardFirmware and Begin flush what is older.
InstallInv ==
  ~Overlapping =>
    /\ \A i \in DOMAIN toBoard :
         /\ toBoard[i].image = call
         /\ toBoard[i].kind = "chunk" => toBoard[i].offset < Chunks
    /\ pc # "idle" => result = "none"
    /\ pc \in {"query", "check", "begin"} => sent = 0
    /\ pc \in {"query", "check"} =>
         \A i \in DOMAIN toBoard : toBoard[i].kind = "query"
    /\ pc = "begin" =>
         /\ \A i \in DOMAIN toBoard :
              /\ toBoard[i].kind \in {"query", "begin"}
              /\ toBoard[i].kind = "begin" => i = Len(toBoard)
         /\ \A i \in DOMAIN toHost :
              /\ toHost[i].kind \in {"query", "begin"}
              /\ toHost[i].kind = "begin" =>
                   toBoard = << >> /\ (toHost[i].ok => staging.image = call)
    /\ pc \in {"next", "chunk"} =>
         /\ staging.image = call /\ sent <= Len(staging.content)
         /\ \A i \in DOMAIN toBoard : toBoard[i].kind = "chunk"
         /\ \A i \in DOMAIN toHost :
              /\ toHost[i].kind # "commit"
              /\ toHost[i].kind = "chunk" /\ toHost[i].ok =>
                   toHost[i].offset < Len(staging.content)
    /\ pc = "commit" =>
         /\ \A i \in DOMAIN toBoard :
              /\ toBoard[i].kind \in {"chunk", "commit"}
              /\ toBoard[i].kind = "commit" =>
                   i = Len(toBoard) /\ staging.image = call
         /\ \A i \in DOMAIN toHost :
              toHost[i].kind = "commit" =>
                toBoard = << >> /\ (toHost[i].ok => installed = call)
    /\ result = "ok" => installed = call /\ toBoard = << >>

\* The sequences of frames and answers: what leaves at the front, what comes
\* behind.
LEMMA TailKeeps ==
  ASSUME NEW S, NEW s \in Seq(S), s # << >>
  PROVE  /\ Len(Tail(s)) = Len(s) - 1 /\ DOMAIN Tail(s) = 1..(Len(s) - 1)
         /\ \A i \in DOMAIN Tail(s) : i + 1 \in DOMAIN s /\ Tail(s)[i] = s[i + 1]
         /\ 1 \in DOMAIN s /\ Head(s) = s[1]
  OBVIOUS

LEMMA AppendKeeps ==
  ASSUME NEW S, NEW s \in Seq(S), NEW e \in S
  PROVE  /\ DOMAIN Append(s, e) = 1..(Len(s) + 1)
         /\ Len(Append(s, e)) = Len(s) + 1
         /\ \A i \in DOMAIN Append(s, e) :
              \/ i \in DOMAIN s /\ Append(s, e)[i] = s[i]
              \/ i = Len(s) + 1 /\ Append(s, e)[i] = e
  OBVIOUS

\* A frame that is sent comes behind those under way.
LEMMA SendKeeps ==
  ASSUME toBoard \in Seq(Ask), call' \in Calls,
         NEW kind \in Waiting, NEW offset \in 0..Chunks, Send(kind, offset)
  PROVE  \A i \in DOMAIN toBoard' :
           \/ i \in DOMAIN toBoard /\ toBoard'[i] = toBoard[i]
              /\ (toBoard' = toBoard \/ i < Len(toBoard'))
           \/ i = Len(toBoard') /\ toBoard'[i].kind = kind
              /\ toBoard'[i].image = call' /\ toBoard'[i].offset = offset
<1> DEFINE e == [kind |-> kind, image |-> call', offset |-> offset]
<1>1. e \in Ask /\ e.kind = kind /\ e.image = call' /\ e.offset = offset
  BY DEF Ask
<1>2. CASE toBoard' = toBoard
  BY <1>2
<1>3. CASE toBoard' = Append(toBoard, e)
  BY <1>1, <1>3, AppendKeeps
<1> QED
  BY <1>2, <1>3 DEF Send

\* An answer comes behind those in the input buffer.
LEMMA RespondKeeps ==
  ASSUME toHost \in Seq(Answer), NEW kind \in Waiting, NEW ok \in BOOLEAN,
         NEW offset \in 0..Chunks, Respond(kind, ok, offset)
  PROVE  \A i \in DOMAIN toHost' :
           \/ i \in DOMAIN toHost /\ toHost'[i] = toHost[i]
           \/ toHost'[i] = [kind |-> kind, ok |-> ok, offset |-> offset]
<1> DEFINE e == [kind |-> kind, ok |-> ok, offset |-> offset]
<1>1. e \in Answer
  BY DEF Answer
<1> QED
  BY <1>1, AppendKeeps DEF Respond

\* The host's thread.  Every answer is taken from the front of the buffer.
LEMMA HostKeepsInstall ==
  ASSUME TypeInv, InstallInv, ~Overlapping, HostStep PROVE InstallInv'
<1> USE DEF TypeInv, TypeOK
<1>0. /\ toHost # << >> =>
           /\ \A i \in DOMAIN Tail(toHost) :
                i + 1 \in DOMAIN toHost /\ Tail(toHost)[i] = toHost[i + 1]
           /\ 1 \in DOMAIN toHost /\ Head(toHost) = toHost[1]
      /\ DOMAIN << >> = {}
  BY TailKeeps
<1>1. CASE SkipAnswer BY <1>0, <1>1 DEF SkipAnswer, InstallInv
<1>2. CASE VersionReport
  BY <1>0, <1>2 DEF VersionReport, Received, Return, InstallInv
<1>3. CASE Begin
  <2>1. /\ pc = "check" /\ pc' = "begin" /\ toHost' = << >> /\ call' = call
        /\ call \in Calls /\ UNCHANGED << result, sent, board >>
    BY <1>3 DEF Begin
  <2>2. \A i \in DOMAIN toBoard' :
          /\ toBoard'[i].image = call
          /\ \/ toBoard'[i].kind = "query"
             \/ toBoard'[i].kind = "begin" /\ i = Len(toBoard')
    <3>1. Send("begin", 0) /\ 0 \in 0..Chunks
      BY <1>3, SizeAssumption DEF Begin
    <3> QED
      BY <2>1, <3>1, SendKeeps DEF InstallInv
  <2> QED
    BY <1>0, <2>1, <2>2 DEF InstallInv
<1>4. CASE StillRunning BY <1>4 DEF StillRunning, Return, InstallInv
<1>5. CASE BeginAck
  <2>1. CASE Head(toHost).ok
    <3>1. pc' = "next" /\ toBoard = << >> /\ staging.image = call
      BY <1>0, <1>5, <2>1 DEF BeginAck, Received, InstallInv
    <3>2. \A i \in DOMAIN toHost' : toHost'[i].kind \in {"query", "begin"}
      BY <1>0, <1>5 DEF BeginAck, Received, InstallInv
    <3>3. sent = 0 /\ sent <= Len(staging.content)
      BY <1>5 DEF BeginAck, InstallInv
    <3>4. UNCHANGED << toBoard, board, call, sent, result >>
      BY <1>5, <2>1 DEF BeginAck
    <3>5. DOMAIN toBoard = {} /\ result = "none"
      BY <1>5, <3>1 DEF BeginAck, InstallInv
    <3> QED
      BY <3>1, <3>2, <3>3, <3>4, <3>5 DEF InstallInv
  <2>2. CASE ~Head(toHost).ok
    BY <1>0, <1>5, <2>2 DEF BeginAck, Received, Return, InstallInv
  <2> QED BY <2>1, <2>2
<1>6. CASE SendChunk
  <2>1. /\ pc = "next" /\ pc' = "chunk" /\ call' = call /\ call \in Calls
        /\ UNCHANGED << sent, result, toHost, board >>
    BY <1>6 DEF SendChunk
  <2>2. \A i \in DOMAIN toBoard' :
          /\ toBoard'[i].image = call /\ toBoard'[i].kind = "chunk"
          /\ toBoard'[i].offset < Chunks
    <3>1. Send("chunk", sent) /\ sent \in 0..Chunks /\ sent < Chunks
      BY <1>6 DEF SendChunk
    <3> QED
      BY <2>1, <3>1, SendKeeps DEF InstallInv
  <2> QED
    BY <2>1, <2>2 DEF InstallInv
<1>7. CASE ChunkFails BY <1>7 DEF ChunkFails, Return, InstallInv
<1>8. CASE ChunkAck
  <2>1. /\ pc = "chunk" /\ toHost # << >> /\ Head(toHost).kind = "chunk"
        /\ toHost' = Tail(toHost) /\ call' = call
        /\ UNCHANGED << toBoard, board >>
        /\ \/ /\ Head(toHost).ok /\ Head(toHost).offset = sent
              /\ pc' = "next" /\ sent' = sent + 1 /\ result' = result
           \/ pc' = "next" /\ sent' = sent /\ result' = result
           \/ pc' = "idle" /\ result' = "error"
    BY <1>8 DEF ChunkAck, Received, Return
  <2>2. /\ staging.image = call /\ sent <= Len(staging.content)
        /\ Head(toHost).ok => Head(toHost).offset < Len(staging.content)
    BY <1>0, <2>1 DEF InstallInv
  <2>3. Len(staging.content) \in Nat /\ sent \in Nat
    BY <2>1
  <2>4. pc' = "next" => sent' <= Len(staging.content)
    BY <2>1, <2>2, <2>3
  <2> QED
    BY <1>0, <2>1, <2>2, <2>4 DEF InstallInv
<1>9. CASE Commit
  <2>1. /\ pc = "next" /\ pc' = "commit" /\ call' = call /\ call \in Calls
        /\ UNCHANGED << result, toHost, board >>
    BY <1>9 DEF Commit
  <2>2. \A i \in DOMAIN toBoard' :
          /\ toBoard'[i].image = call
          /\ \/ toBoard'[i].kind = "chunk" /\ toBoard'[i].offset < Chunks
             \/ toBoard'[i].kind = "commit" /\ i = Len(toBoard')
    <3>1. Send("commit", 0) /\ 0 \in 0..Chunks
      BY <1>9, SizeAssumption DEF Commit
    <3> QED
      BY <2>1, <3>1, SendKeeps DEF InstallInv
  <2> QED
    BY <2>1, <2>2 DEF InstallInv
<1>10. CASE UpdateResult
  BY <1>0, <1>10 DEF UpdateResult, Received, Return, InstallInv
<1>11. CASE AwaitTimeout BY <1>11 DEF AwaitTimeout, Return, InstallInv
<1>12. CASE WriteFails BY <1>12 DEF WriteFails, Return, InstallInv
<1> QED BY <1>1, <1>2, <1>3, <1>4, <1>5, <1>6, <1>7, <1>8, <1>9, <1>10, <1>11,
           <1>12 DEF HostStep

\* The board.  It takes the frames in their order; begin and commit are the
\* last ones.
LEMMA BoardKeepsInstall ==
  ASSUME TypeInv, InstallInv, ~Overlapping, BoardStep PROVE InstallInv'
<1> USE DEF TypeInv, TypeOK
<1> DEFINE ask == Head(toBoard)
<1>1. /\ toBoard # << >> /\ toBoard' = Tail(toBoard) /\ Take(ask)
      /\ UNCHANGED << transfer, thread, history >>
  BY DEF BoardStep
<1>2. /\ ask \in Ask /\ 1 \in DOMAIN toBoard /\ ask = toBoard[1]
      /\ DOMAIN toBoard' = 1..(Len(toBoard) - 1)
      /\ Len(toBoard') = Len(toBoard) - 1
      /\ \A i \in DOMAIN toBoard' :
           i + 1 \in DOMAIN toBoard /\ toBoard'[i] = toBoard[i + 1]
  BY <1>1, TailKeeps
<1>3. /\ ask.kind \in Waiting /\ ask.offset \in 0..Chunks
      /\ 0 \in 0..Chunks /\ Len(toBoard) \in Nat
  BY <1>2, SizeAssumption DEF Ask
<1>10. ask.image = call /\ (ask.kind = "chunk" => ask.offset < Chunks)
  BY <1>2 DEF InstallInv
<1>4. result # "ok"
  BY <1>1 DEF InstallInv
<1> HIDE DEF ask
<1>5. CASE ask.kind = "query"
  <2>1. UNCHANGED board /\ \E ok \in BOOLEAN : Respond("query", ok, 0)
    BY <1>1, <1>5 DEF Take
  <2>2. \A i \in DOMAIN toHost' :
          \/ i \in DOMAIN toHost /\ toHost'[i] = toHost[i]
          \/ toHost'[i].kind = "query"
    BY <1>3, <2>1, RespondKeeps
  <2>3. pc \notin {"next", "chunk", "commit"}
    BY <1>2, <1>5 DEF InstallInv
  <2>4. toBoard = << >> => FALSE
    BY <1>1
  <2> QED
    BY <1>1, <1>2, <1>3, <1>4, <1>10, <2>1, <2>2, <2>3, <2>4 DEF InstallInv
<1>6. CASE ask.kind = "begin"
  <2>1. PICK ok \in BOOLEAN :
          /\ staging' = IF ok THEN [image |-> ask.image, content |-> << >>]
                        ELSE staging
          /\ Respond("begin", ok, 0)
    BY <1>1, <1>6 DEF Take
  <2>2. \A i \in DOMAIN toHost' :
          \/ i \in DOMAIN toHost /\ toHost'[i] = toHost[i]
          \/ toHost'[i].kind = "begin" /\ toHost'[i].ok = ok
    BY <1>3, <2>1, RespondKeeps
  <2>3. pc \in {"idle", "begin"} /\ (pc = "begin" => 1 = Len(toBoard))
    BY <1>2, <1>6 DEF InstallInv, States
  <2>4. /\ pc = "begin" => toBoard' = << >>
        /\ ok => staging'.image = call
    <3>1. Len(toBoard') = 0 => toBoard' = << >>
      BY <1>1
    <3> QED BY <1>2, <1>3, <1>10, <2>1, <2>3, <3>1
  <2>5. UNCHANGED << pc, call, sent, result >>
    BY <1>1 DEF transfer
  <2>6. \A i \in DOMAIN toBoard' :
          /\ toBoard'[i].image = call
          /\ toBoard'[i].kind = "chunk" => toBoard'[i].offset < Chunks
    BY <1>2 DEF InstallInv
  <2>7. ASSUME pc = "begin"
        PROVE  /\ sent = 0 /\ result = "none" /\ toBoard' = << >>
               /\ \A i \in DOMAIN toHost' :
                    /\ toHost'[i].kind \in {"query", "begin"}
                    /\ toHost'[i].kind = "begin" =>
                         (toHost'[i].ok => staging'.image = call)
    <3>1. /\ sent = 0 /\ result = "none" /\ toBoard' = << >>
      BY <2>4, <2>7 DEF InstallInv
    <3>2. \A i \in DOMAIN toHost : toHost[i].kind = "query"
      BY <1>1, <2>7 DEF InstallInv
    <3> QED BY <2>2, <2>4, <3>1, <3>2
  <2>8. toBoard' = << >> => DOMAIN toBoard' = {}
    OBVIOUS
  <2> QED
    BY <1>4, <2>3, <2>5, <2>6, <2>7, <2>8 DEF InstallInv
<1>7. CASE ask.kind = "chunk"
  <2>1. /\ installed' = installed
        /\ staging'.image = staging.image
        /\ Len(staging'.content) >= Len(staging.content)
        /\ \E ok \in BOOLEAN :
             /\ Respond("chunk", ok, ask.offset)
             /\ ok => ask.offset < Len(staging'.content)
    <3> DEFINE next == staging.image # 0 /\ ask.offset = Len(staging.content)
               last == /\ RepeatOk /\ staging.image # 0
                       /\ ask.offset + 1 = Len(staging.content)
    <3>1. /\ installed' = installed /\ Respond("chunk", next \/ last, ask.offset)
          /\ staging' = IF next /\ Len(staging.content) < Chunks
                         THEN [staging EXCEPT !.content = Append(@, ask.image)]
                         ELSE staging
      BY <1>1, <1>7 DEF Take
    <3>2. /\ next \in BOOLEAN /\ last \in BOOLEAN /\ ask.offset < Chunks
          /\ ask.offset \in Nat /\ Chunks \in Nat /\ Len(staging.content) \in Nat
          /\ ask.image \in Calls /\ staging.content \in Seq(Calls)
          /\ staging = [image |-> staging.image, content |-> staging.content]
      BY <1>2, <1>3, <1>7, <1>10, SizeAssumption DEF Ask
    <3>3. next => ask.offset = Len(staging.content)
      OBVIOUS
    <3>4. last => ask.offset + 1 = Len(staging.content)
      OBVIOUS
    <3> DEFINE good == next \/ last
    <3>5. good \in BOOLEAN /\ Respond("chunk", good, ask.offset)
      BY <3>1, <3>2
    <3>6. good = (next \/ last)
      OBVIOUS
    <3> HIDE DEF next, last, good
    <3>7. /\ staging'.image = staging.image
          /\ Len(staging'.content) =
               IF next THEN Len(staging.content) + 1 ELSE Len(staging.content)
      <4>1. CASE next
        <5>1. staging' = [staging EXCEPT !.content = Append(@, ask.image)]
          BY <3>1, <3>2, <3>3, <4>1
        <5> QED
          BY <3>2, <4>1, <5>1
      <4>2. CASE ~next
        BY <3>1, <4>2
      <4> QED
        BY <4>1, <4>2
    <3>8. Len(staging'.content) >= Len(staging.content)
      BY <3>2, <3>7
    <3>9. good => ask.offset < Len(staging'.content)
      BY <3>2, <3>3, <3>4, <3>6, <3>7
    <3> QED
      BY <3>1, <3>5, <3>7, <3>8, <3>9
  <2>2. PICK ok \in BOOLEAN : /\ Respond("chunk", ok, ask.offset)
                              /\ ok => ask.offset < Len(staging'.content)
    BY <2>1
  <2>3. \A i \in DOMAIN toHost' :
          \/ i \in DOMAIN toHost /\ toHost'[i] = toHost[i]
          \/ /\ toHost'[i].kind = "chunk" /\ toHost'[i].ok = ok
             /\ toHost'[i].offset = ask.offset
    BY <1>3, <2>2, RespondKeeps
  <2>4. pc \in {"idle", "next", "chunk", "commit"}
    BY <1>2, <1>7 DEF InstallInv, States
  <2>5. \A i \in DOMAIN toHost :
          /\ pc \in {"next", "chunk"} /\ toHost[i].kind = "chunk" /\ toHost[i].ok
               => toHost[i].offset < Len(staging'.content)
          /\ pc = "commit" => toHost[i].kind # "commit"
    <3>1. \A i \in DOMAIN toHost : toHost[i].offset \in Nat
      <4>1. \A i \in DOMAIN toHost : toHost[i] \in Answer
        OBVIOUS
      <4>2. \A a \in Answer : a.offset \in 0..Chunks
        BY DEF Answer
      <4> QED
        BY <4>1, <4>2, SizeAssumption
    <3>2. Len(staging.content) \in Nat /\ Len(staging'.content) \in Nat
      BY <1>1, <1>2, TakeType
    <3> QED
      BY <1>1, <2>1, <3>1, <3>2 DEF InstallInv
  <2>6. pc \in {"next", "chunk"} => sent <= Len(staging'.content)
    <3>1. Len(staging.content) \in Nat /\ Len(staging'.content) \in Nat /\ sent \in Nat
      BY <1>1, <1>2, TakeType
    <3> QED
      BY <2>1, <3>1 DEF InstallInv
  <2>7. UNCHANGED << pc, call, sent, result >>
    BY <1>1
  <2>8. \A i \in DOMAIN toBoard' :
          /\ toBoard'[i].image = call
          /\ toBoard'[i].kind = "chunk" => toBoard'[i].offset < Chunks
          /\ pc \in {"next", "chunk"} => toBoard'[i].kind = "chunk"
          /\ pc = "commit" =>
               /\ toBoard'[i].kind \in {"chunk", "commit"}
               /\ toBoard'[i].kind = "commit" =>
                    i = Len(toBoard') /\ staging.image = call
    BY <1>2, <1>3 DEF InstallInv
  <2> QED
    BY <1>4, <2>1, <2>2, <2>3, <2>4, <2>5, <2>6, <2>7, <2>8 DEF InstallInv
<1>8. CASE ask.kind = "commit"
  <2>1. PICK ok \in BOOLEAN :
          /\ installed' = IF ok THEN staging.image ELSE installed
          /\ Respond("commit", ok, 0)
    BY <1>1, <1>8 DEF Take, Complete
  <2>2. \A i \in DOMAIN toHost' :
          \/ i \in DOMAIN toHost /\ toHost'[i] = toHost[i]
          \/ toHost'[i].kind = "commit" /\ toHost'[i].ok = ok
    BY <1>3, <2>1, RespondKeeps
  <2>3. /\ pc \in {"idle", "commit"}
        /\ pc = "commit" => 1 = Len(toBoard) /\ staging.image = call
    BY <1>2, <1>8 DEF InstallInv, States
  <2>4. /\ pc = "commit" => toBoard' = << >> /\ (ok => installed' = call)
    <3>1. Len(toBoard') = 0 => toBoard' = << >>
      BY <1>1
    <3> QED BY <1>2, <1>3, <1>10, <2>1, <2>3, <3>1
  <2> QED
    BY <1>1, <1>2, <1>3, <1>4, <1>10, <2>2, <2>3, <2>4 DEF InstallInv
<1> QED
  BY <1>3, <1>5, <1>6, <1>7, <1>8

LEMMA InstallInductive ==
  ASSUME TypeInv, InstallInv, [Next]_vars PROVE InstallInv'
<1> SUFFICES ASSUME ~Overlapping PROVE InstallInv'
  BY DEF InstallInv
<1> USE DEF TypeInv, TypeOK
<1>1. CASE Command BY <1>1 DEF Command, InstallInv
<1>2. CASE UpdateBoardFirmware
  <2>1. /\ toBoard = << >> /\ call' \in Calls /\ Send("query", 0)
        /\ 0 \in 0..Chunks
    BY <1>2, SizeAssumption DEF UpdateBoardFirmware, Calls, Images
  <2>2. \A i \in DOMAIN toBoard' :
          toBoard'[i].image = call' /\ toBoard'[i].kind = "query"
    BY <2>1, SendKeeps
  <2> QED
    BY <1>2, <2>2 DEF UpdateBoardFirmware, InstallInv
<1>3. CASE HostStep BY <1>3, HostKeepsInstall
<1>4. CASE BusStep
  <2>1. UNCHANGED << transfer, toBoard, board >>
    BY <1>4, BusFacts
  <2>2. \/ toHost' = toHost
        \/ \A i \in DOMAIN toHost' :
             i + 1 \in DOMAIN toHost /\ toHost'[i] = toHost[i + 1]
    <3>1. DOMAIN << >> = {}
      OBVIOUS
    <3> QED BY <1>4, <3>1, BusFacts, TailKeeps
  <2> QED BY <2>1, <2>2 DEF InstallInv
<1>9. CASE BoardStep BY <1>9, BoardKeepsInstall
<1>10. CASE UNCHANGED vars BY <1>10 DEF InstallInv
<1> QED BY <1>1, <1>2, <1>3, <1>4, <1>9, <1>10 DEF Next

LEMMA InstallInit == Init => InstallInv
<1>1. DOMAIN << >> = {}
  OBVIOUS
<1> QED
  BY <1>1 DEF Init, InstallInv

\* A chunk counts as acknowledged only when the board holds it and all before
\* it, as long as calls do not overlap in the board (UpdateBoardFirmware).
THEOREM AckedMeansStagedHolds == Spec => [](~Overlapping => AckedMeansStaged)
<1>1. InstallInv => (~Overlapping => AckedMeansStaged)
  BY DEF InstallInv, AckedMeansStaged
<1> QED
  BY <1>1, TypeInit, TypeInductive, InstallInit, InstallInductive, PTL DEF Spec

----------------------------------------------------------------------------
(* All or nothing: ImageInstall.                                           *)

\* A commit is the last frame of its call, sent when every chunk has been
\* acknowledged, to a board that stages the image of the call.
CommitInv ==
  ~Overlapping =>
    /\ pc = "commit" => sent = Chunks
    /\ \A i \in DOMAIN toBoard :
         toBoard[i].kind = "commit" =>
           /\ pc \in {"commit", "idle"}
           /\ i = Len(toBoard) /\ sent = Chunks /\ staging.image = call
           /\ \A j \in DOMAIN toBoard : toBoard[j].kind \in {"chunk", "commit"}

\* The host's thread sends nothing behind a commit.
LEMMA HostKeepsCommit ==
  ASSUME TypeInv, InstallInv, CommitInv, ~Overlapping, HostStep
  PROVE  CommitInv'
<1> USE DEF TypeInv, TypeOK
<1>1. CASE SkipAnswer BY <1>1 DEF SkipAnswer, CommitInv
<1>2. CASE VersionReport BY <1>2 DEF VersionReport, Return, CommitInv
<1>3. CASE Begin
  <2>1. /\ Send("begin", 0) /\ 0 \in 0..Chunks /\ call' \in Calls
        /\ pc = "check" /\ pc' = "begin"
    BY <1>3, SizeAssumption DEF Begin
  <2>2. \A i \in DOMAIN toBoard' : toBoard'[i].kind # "commit"
    BY <2>1, SendKeeps DEF CommitInv
  <2> QED BY <2>1, <2>2 DEF CommitInv
<1>4. CASE StillRunning BY <1>4 DEF StillRunning, Return, CommitInv
<1>5. CASE BeginAck BY <1>5 DEF BeginAck, Return, CommitInv
<1>6. CASE SendChunk
  <2>1. /\ Send("chunk", sent) /\ sent \in 0..Chunks /\ call' \in Calls
        /\ pc = "next" /\ pc' = "chunk"
    BY <1>6 DEF SendChunk
  <2>2. \A i \in DOMAIN toBoard' : toBoard'[i].kind # "commit"
    BY <2>1, SendKeeps DEF CommitInv
  <2> QED BY <2>1, <2>2 DEF CommitInv
<1>7. CASE ChunkFails BY <1>7 DEF ChunkFails, Return, CommitInv
<1>8. CASE ChunkAck
  <2>1. \A i \in DOMAIN toBoard : toBoard[i].kind # "commit"
    BY <1>8 DEF ChunkAck, CommitInv
  <2>2. pc' \in {"next", "idle"} /\ toBoard' = toBoard
    BY <1>8 DEF ChunkAck, Return
  <2> QED BY <2>1, <2>2 DEF CommitInv
<1>9. CASE Commit
  <2>1. /\ Send("commit", 0) /\ 0 \in 0..Chunks /\ call' \in Calls
        /\ call' = call /\ sent' = sent /\ sent = Chunks
        /\ staging' = staging /\ pc = "next" /\ pc' = "commit"
    BY <1>9, SizeAssumption DEF Commit
  <2>2. /\ staging.image = call
        /\ \A i \in DOMAIN toBoard : toBoard[i].kind = "chunk"
    BY <2>1 DEF InstallInv
  <2>3. \A i \in DOMAIN toBoard' :
          /\ toBoard'[i].kind \in {"chunk", "commit"}
          /\ toBoard'[i].kind = "commit" => i = Len(toBoard')
    BY <2>1, <2>2, SendKeeps
  <2> QED BY <2>1, <2>2, <2>3 DEF CommitInv
<1>10. CASE UpdateResult BY <1>10 DEF UpdateResult, Return, CommitInv
<1>11. CASE AwaitTimeout BY <1>11 DEF AwaitTimeout, Return, CommitInv
<1>12. CASE WriteFails BY <1>12 DEF WriteFails, Return, CommitInv
<1> QED BY <1>1, <1>2, <1>3, <1>4, <1>5, <1>6, <1>7, <1>8, <1>9, <1>10, <1>11,
           <1>12 DEF HostStep

\* Nothing the board takes in front of a commit makes it stage another image.
LEMMA BoardKeepsCommit ==
  ASSUME TypeInv, CommitInv, ~Overlapping, BoardStep PROVE CommitInv'
<1> USE DEF TypeInv, TypeOK
<1>1. /\ toBoard # << >> /\ toBoard' = Tail(toBoard) /\ Take(Head(toBoard))
      /\ UNCHANGED << pc, call, sent >>
  BY DEF BoardStep
<1>2. /\ 1 \in DOMAIN toBoard /\ Head(toBoard) = toBoard[1]
      /\ DOMAIN toBoard' = 1..(Len(toBoard) - 1)
      /\ Len(toBoard') = Len(toBoard) - 1 /\ Len(toBoard) \in Nat
      /\ \A i \in DOMAIN toBoard' :
           i + 1 \in DOMAIN toBoard /\ toBoard'[i] = toBoard[i + 1]
  BY <1>1, TailKeeps
<1>3. ASSUME NEW i \in DOMAIN toBoard', toBoard'[i].kind = "commit"
      PROVE  /\ pc' \in {"commit", "idle"}
             /\ i = Len(toBoard') /\ sent' = Chunks /\ staging'.image = call'
             /\ \A j \in DOMAIN toBoard' : toBoard'[j].kind \in {"chunk", "commit"}
  <2>1. i + 1 \in DOMAIN toBoard /\ toBoard[i + 1].kind = "commit"
    BY <1>2, <1>3
  <2>2. /\ pc \in {"commit", "idle"} /\ sent = Chunks /\ staging.image = call
        /\ i + 1 = Len(toBoard)
        /\ \A j \in DOMAIN toBoard : toBoard[j].kind \in {"chunk", "commit"}
    BY <2>1 DEF CommitInv
  <2>3. Head(toBoard).kind = "chunk"
    <3>1. 1 # Len(toBoard)
      BY <1>2, <2>2
    <3> QED BY <1>2, <2>2, <3>1 DEF CommitInv
  <2>4. staging'.image = staging.image
    BY <1>1, <2>3 DEF Take
  <2> QED BY <1>1, <1>2, <2>2, <2>4
<1>4. pc' = "commit" => sent' = Chunks
  BY <1>1 DEF CommitInv
<1> QED BY <1>3, <1>4 DEF CommitInv

LEMMA CommitInductive ==
  ASSUME TypeInv, InstallInv, CommitInv, [Next]_vars PROVE CommitInv'
<1> SUFFICES ASSUME ~Overlapping PROVE CommitInv'
  BY DEF CommitInv
<1>1. CASE Command BY <1>1 DEF Command, CommitInv
<1>2. CASE UpdateBoardFirmware
  <2>1. /\ toBoard = << >> /\ call' \in Calls /\ Send("query", 0)
        /\ 0 \in 0..Chunks /\ toBoard \in Seq(Ask) /\ pc' = "query"
    BY <1>2, SizeAssumption
    DEF UpdateBoardFirmware, TypeInv, TypeOK, Calls, Images
  <2>2. \A i \in DOMAIN toBoard' : toBoard'[i].kind = "query"
    BY <2>1, SendKeeps
  <2> QED BY <2>1, <2>2 DEF CommitInv
<1>3. CASE HostStep BY <1>3, HostKeepsCommit
<1>4. CASE BusStep BY <1>4, BusFacts DEF CommitInv
<1>9. CASE BoardStep BY <1>9, BoardKeepsCommit
<1>10. CASE UNCHANGED vars BY <1>10 DEF CommitInv
<1> QED BY <1>1, <1>2, <1>3, <1>4, <1>9, <1>10 DEF Next

\* What the steps of the two specifications have in common is in these values.
ImageStays == UNCHANGED << pc, call, sent, installed, result >>

LEMMA StayIsStutter == ImageStays => UNCHANGED Image!vars
  BY DEF ImageStays, Image!vars

LEMMA ReturnIsFail ==
  ASSUME pc # "idle", Return("error"), installed' = installed
  PROVE  Image!Fail
  BY DEF Return, Image!Fail

\* The steps of the host's call.
LEMMA HostSimulates ==
  ASSUME TypeInv, InstallInv, CommitInv, ~Overlapping, HostStep
  PROVE  [Image!Next]_(Image!vars)
<1> USE DEF TypeInv, TypeOK
<1>1. CASE SkipAnswer BY <1>1, StayIsStutter DEF SkipAnswer, ImageStays
<1>2. CASE VersionReport
  <2>1. CASE pc' = "check"
    BY <1>2, <2>1 DEF VersionReport, Return, Image!vars
  <2>2. CASE Return("error")
    BY <1>2, <2>2, ReturnIsFail DEF VersionReport, Image!Next
  <2> QED BY <1>2, <2>1, <2>2 DEF VersionReport
<1>3. CASE Begin BY <1>3 DEF Begin, Image!vars
<1>4. CASE StillRunning
  BY <1>4, ReturnIsFail DEF StillRunning, Image!Next
<1>5. CASE BeginAck
  <2>1. CASE Head(toHost).ok
    BY <1>5, <2>1 DEF BeginAck, Image!vars
  <2>2. CASE ~Head(toHost).ok
    BY <1>5, <2>2, ReturnIsFail DEF BeginAck, Image!Next
  <2> QED BY <2>1, <2>2
<1>6. CASE SendChunk BY <1>6 DEF SendChunk, Image!vars
<1>7. CASE ChunkFails
  BY <1>7, ReturnIsFail DEF ChunkFails, Image!Next
<1>8. CASE ChunkAck
  <2>1. pc = "chunk" /\ sent < Chunks /\ sent \in Nat /\ Chunks \in Nat
        /\ UNCHANGED << call, installed >>
    BY <1>8, SizeAssumption DEF ChunkAck, Return
  <2>2. CASE pc' = "next" /\ sent' = sent + 1 /\ result' = result
    <3>1. CASE sent' = Chunks
      BY <2>1, <2>2, <3>1 DEF Image!Deliver, Image!Next
    <3>2. CASE sent' # Chunks
      BY <2>1, <2>2, <3>2 DEF Image!vars
    <3> QED BY <3>1, <3>2
  <2>3. CASE pc' = "next" /\ sent' = sent /\ result' = result
    BY <2>1, <2>3 DEF Image!vars
  <2>4. CASE Return("error")
    BY <2>1, <2>4, ReturnIsFail DEF Image!Next
  <2> QED BY <1>8, <2>2, <2>3, <2>4 DEF ChunkAck
<1>9. CASE Commit BY <1>9 DEF Commit, Image!vars
<1>10. CASE UpdateResult
  <2>1. pc = "commit" /\ toHost # << >> /\ Head(toHost).kind = "commit"
        /\ installed' = installed
    BY <1>10 DEF UpdateResult, Received
  <2>2. CASE Head(toHost).ok
    <3>1. installed = call /\ sent = Chunks
      BY <2>1, <2>2, TailKeeps DEF InstallInv, CommitInv
    <3>2. pc' = "idle" /\ result' = "ok" /\ UNCHANGED << call, sent >>
      BY <1>10, <2>2 DEF UpdateResult, Return
    <3> QED BY <2>1, <3>1, <3>2 DEF Image!Succeed, Image!Next
  <2>3. CASE ~Head(toHost).ok
    BY <1>10, <2>1, <2>3, ReturnIsFail DEF UpdateResult, Image!Next
  <2> QED BY <2>2, <2>3
<1>11. CASE AwaitTimeout
  <2>1. CASE pc = "chunk"
    BY <1>11, <2>1 DEF AwaitTimeout, Image!vars
  <2>2. CASE pc # "chunk"
    BY <1>11, <2>2, ReturnIsFail DEF AwaitTimeout, Image!Next
  <2> QED BY <2>1, <2>2
<1>12. CASE WriteFails
  BY <1>12, ReturnIsFail DEF WriteFails, Image!Next
<1> QED BY <1>1, <1>2, <1>3, <1>4, <1>5, <1>6, <1>7, <1>8, <1>9, <1>10, <1>11,
           <1>12 DEF HostStep

\* The board's only step that counts is the one that installs.
LEMMA BoardSimulates ==
  ASSUME TypeInv, CommitInv, ~Overlapping, BoardStep
  PROVE  [Image!Next]_(Image!vars)
<1>1. /\ toBoard # << >> /\ Take(Head(toBoard)) /\ toBoard \in Seq(Ask)
      /\ UNCHANGED << pc, call, sent, result >>
  BY DEF BoardStep, TypeInv, TypeOK
<1>2. 1 \in DOMAIN toBoard /\ Head(toBoard) = toBoard[1]
  BY <1>1, TailKeeps
<1>3. CASE installed' = installed
  BY <1>1, <1>3, StayIsStutter DEF ImageStays
<1>4. CASE installed' # installed
  <2>1. Head(toBoard).kind = "commit" /\ installed' = staging.image
    BY <1>1, <1>4 DEF Take
  <2>2. sent = Chunks /\ staging.image = call
    BY <1>2, <2>1 DEF CommitInv
  <2> QED BY <1>1, <2>1, <2>2 DEF Image!Install, Image!Next
<1> QED BY <1>3, <1>4

LEMMA NextSimulates ==
  ASSUME TypeInv, InstallInv, CommitInv, ~Overlapping, [Next]_vars
  PROVE  [Image!Next]_(Image!vars)
<1>1. CASE UpdateBoardFirmware
  <2>1. /\ pc = "idle" /\ call < MaxCalls /\ call' = call + 1 /\ pc' = "query"
        /\ result' = "none" /\ sent' = 0 /\ installed' = installed
        /\ Chunks # 0
    BY <1>1, SizeAssumption DEF UpdateBoardFirmware
  <2> QED BY <2>1 DEF Image!Update, Image!Next
<1>2. CASE HostStep BY <1>2, HostSimulates
<1>3. CASE BoardStep BY <1>3, BoardSimulates
<1>4. CASE Command BY <1>4, StayIsStutter DEF Command, ImageStays
<1>5. CASE BusStep
  BY <1>5, BusFacts, StayIsStutter DEF ImageStays
<1>6. CASE UNCHANGED vars BY <1>6, StayIsStutter DEF ImageStays
<1> QED BY <1>1, <1>2, <1>3, <1>4, <1>5, <1>6 DEF Next

\* UpdateBoardFirmware implements ImageInstall: the board changes its image in
\* one step to that of the call, not before every chunk is acknowledged, and
\* success means that it has.
THEOREM PromiseKept == ~Overlapping => (Spec => KeepsPromise)
<1>1. Init => CommitInv
  <2>1. DOMAIN << >> = {}
    OBVIOUS
  <2> QED BY <2>1 DEF Init, CommitInv
<1>2. Init => Image!Init
  BY SizeAssumption DEF Init, Image!Init
<1>3. ~Overlapping /\ TypeInv /\ InstallInv /\ CommitInv /\ [Next]_vars
        => [Image!Next]_(Image!vars)
  BY NextSimulates
<1>4. SUFFICES ASSUME ~Overlapping PROVE Spec => KeepsPromise
  OBVIOUS
<1>5. TypeInv /\ InstallInv /\ CommitInv /\ [Next]_vars
        => [Image!Next]_(Image!vars)
  BY <1>3, <1>4
<1> QED
  BY <1>1, <1>2, <1>5, TypeInit, TypeInductive, InstallInit, InstallInductive,
     CommitInductive, PTL
  DEF Spec, KeepsPromise, Image!Spec

----------------------------------------------------------------------------
(* How long a call can take.  That it returns is a matter of fairness; what *)
(* is proved is that something is used up by every step of the host's      *)
(* thread and not given back by anybody else's.                            *)

\* Frames the call may still send.
FramesLeft ==
  CASE pc \in {"query", "check"} -> 2 + Attempts * Chunks
    [] pc = "begin"              -> 1 + Attempts * Chunks
    [] pc \in {"next", "chunk"}  -> 1 + Attempts * (Chunks - sent) - attempt
    [] OTHER                     -> 0

\* The wait at hand.  That for a chunk's answer does not end the call.
Standing == CASE pc = "idle" -> 0 [] pc = "chunk" -> 2 [] OTHER -> 1

\* What the call still has to do: a frame to send is worth its way to the board,
\* the way of the answer back, and the wait for it.
Work == 4 * FramesLeft + 2 * Len(toBoard) + Len(toHost) + Standing

\* Attempts are counted anew with every chunk.
WorkInv ==
  /\ pc \in {"query", "check", "begin"} => sent = 0 /\ attempt = 0
  /\ sent = Chunks => attempt = 0

LEMMA Product ==
  ASSUME NEW m \in Nat, NEW n \in Nat
  PROVE  /\ m * n \in Nat
         /\ n > 0 => m * n = m * (n - 1) + m /\ m * n >= m
         /\ m * 0 = 0
<1>1. m * n \in Nat /\ m * 0 = 0
  OBVIOUS
<1>2. ASSUME n > 0 PROVE m * n = m * (n - 1) + m /\ m * n >= m
  <2>1. n - 1 \in Nat
    BY <1>2
  <2>2. m * n = m * (n - 1) + m
    BY <2>1
  <2>3. m * (n - 1) \in Nat
    BY <2>1
  <2> QED BY <1>1, <2>2, <2>3
<1> QED BY <1>1, <1>2

\* The chunks that are not acknowledged, each with all its attempts.
ChunksLeft == Attempts * (Chunks - sent)

LEMMA ChunksLeftIs ==
  ASSUME TypeInv
  PROVE  /\ ChunksLeft \in Nat /\ Attempts * Chunks \in Nat
         /\ sent = 0 => ChunksLeft = Attempts * Chunks
         /\ sent = Chunks => ChunksLeft = 0
         /\ sent < Chunks =>
              /\ ChunksLeft >= Attempts
              /\ ChunksLeft = Attempts * (Chunks - (sent + 1)) + Attempts
<1>1. /\ sent \in Nat /\ Chunks \in Nat /\ Attempts \in Nat /\ sent <= Chunks
      /\ Chunks - sent \in Nat
  BY SizeAssumption DEF TypeInv, TypeOK
<1>2. sent < Chunks => Chunks - sent > 0 /\ Chunks - (sent + 1) = Chunks - sent - 1
  BY <1>1
<1>3. /\ Attempts * (Chunks - sent) \in Nat /\ Attempts * Chunks \in Nat
      /\ Chunks - sent > 0 =>
           /\ Attempts * (Chunks - sent) >= Attempts
           /\ Attempts * (Chunks - sent)
                = Attempts * (Chunks - sent - 1) + Attempts
      /\ Attempts * 0 = 0
  BY <1>1, Product
<1>4. (sent = 0 => Chunks - sent = Chunks) /\ (sent = Chunks => Chunks - sent = 0)
  BY <1>1
<1> QED BY <1>2, <1>3, <1>4 DEF ChunksLeft

LEMMA WorkInvInductive ==
  ASSUME TypeInv, WorkInv, [Next]_vars PROVE WorkInv'
<1> USE SizeAssumption DEF TypeInv, TypeOK, WorkInv
<1>1. CASE Command BY <1>1 DEF Command
<1>2. CASE UpdateBoardFirmware BY <1>2 DEF UpdateBoardFirmware
<1>3. CASE HostStep
  <2>1. CASE ChunkAck BY <2>1 DEF ChunkAck, Return
  <2>2. CASE SkipAnswer \/ VersionReport \/ Begin \/ StillRunning \/ BeginAck
    BY <2>2 DEF SkipAnswer, VersionReport, Begin, StillRunning, BeginAck, Return
  <2>3. CASE SendChunk \/ ChunkFails \/ Commit \/ UpdateResult \/ AwaitTimeout
             \/ WriteFails
    BY <2>3
    DEF SendChunk, ChunkFails, Commit, UpdateResult, AwaitTimeout, WriteFails,
        Return
  <2> QED BY <1>3, <2>1, <2>2, <2>3 DEF HostStep
<1>4. CASE BusStep BY <1>4, BusFacts
<1>5. CASE BoardStep BY <1>5 DEF BoardStep
<1>6. CASE UNCHANGED vars BY <1>6
<1> QED BY <1>1, <1>2, <1>3, <1>4, <1>5, <1>6 DEF Next

\* What is left to send is a number, and how it goes down.
FramesAre ==
  /\ FramesLeft \in Nat
  /\ ChunksLeft \in Nat /\ Attempts * Chunks \in Nat
  /\ sent = 0 => ChunksLeft = Attempts * Chunks
  /\ pc \in {"query", "check"} => FramesLeft = 2 + ChunksLeft
  /\ pc = "begin" => FramesLeft = 1 + ChunksLeft
  /\ pc \in {"next", "chunk"} => FramesLeft = 1 + ChunksLeft - attempt
  /\ pc \in {"commit", "idle"} => FramesLeft = 0

LEMMA FramesLeftIs == TypeInv /\ WorkInv => FramesAre
<1> SUFFICES ASSUME TypeInv, WorkInv PROVE FramesAre
  OBVIOUS
<1>1. /\ sent \in Nat /\ attempt \in Nat /\ attempt <= Attempts
      /\ Attempts \in Nat /\ sent <= Chunks /\ Chunks \in Nat /\ pc \in States
  BY SizeAssumption DEF TypeInv, TypeOK
<1>2. /\ pc \in {"query", "check"} => FramesLeft = 2 + ChunksLeft
      /\ pc = "begin" => FramesLeft = 1 + ChunksLeft
  BY ChunksLeftIs DEF FramesLeft, WorkInv
<1>3. pc \in {"next", "chunk"} => FramesLeft = 1 + ChunksLeft - attempt
  BY DEF FramesLeft, ChunksLeft
<1>4. pc \in {"commit", "idle"} => FramesLeft = 0
  BY DEF FramesLeft
<1>5. attempt <= ChunksLeft
  BY <1>1, ChunksLeftIs DEF WorkInv
<1>6. ChunksLeft \in Nat
  BY ChunksLeftIs
<1> QED
  BY <1>1, <1>2, <1>3, <1>4, <1>5, <1>6, ChunksLeftIs DEF States, FramesAre

LEMMA FramesWillBe == TypeInv' /\ WorkInv' => FramesAre'
  BY FramesLeftIs, PTL

\* The lengths of what is under way.
LEMMA SendGrows ==
  ASSUME toBoard \in Seq(Ask), NEW kind, NEW offset, Send(kind, offset)
  PROVE  Len(toBoard') \in Nat /\ Len(toBoard') <= Len(toBoard) + 1
<1>1. Len(toBoard) \in Nat
  OBVIOUS
<1>2. \A e : Len(Append(toBoard, e)) = Len(toBoard) + 1
  OBVIOUS
<1> QED BY <1>1, <1>2 DEF Send

LEMMA RespondGrows ==
  ASSUME toHost \in Seq(Answer), NEW kind, NEW ok, NEW offset,
         Respond(kind, ok, offset)
  PROVE  Len(toHost') <= Len(toHost) + 1
<1>1. Len(toHost) \in Nat
  OBVIOUS
<1>2. \A e : Len(Append(toHost, e)) = Len(toHost) + 1
  OBVIOUS
<1> QED BY <1>1, <1>2 DEF Respond

LEMMA TakeGrows ==
  ASSUME TypeInv, NEW ask \in Ask, Take(ask)
  PROVE  Len(toHost') <= Len(toHost) + 1
<1>1. \E kind, ok, offset : Respond(kind, ok, offset)
  BY DEF Take
<1> QED BY <1>1, RespondGrows DEF TypeInv, TypeOK

\* Every step of the host's thread sends a frame, reads an answer or gives up a
\* wait.
LEMMA HostWorks ==
  ASSUME TypeInv, WorkInv, HostStep PROVE Work' < Work
<1>1. FramesAre /\ FramesAre' /\ TypeInv' /\ WorkInv'
  BY FramesLeftIs, FramesWillBe, HostType, WorkInvInductive DEF Next
<1>2. /\ FramesLeft \in Nat /\ ChunksLeft \in Nat
      /\ FramesLeft' \in Nat /\ ChunksLeft' \in Nat
      /\ Len(toBoard) \in Nat /\ Len(toBoard') \in Nat
      /\ Len(toHost) \in Nat /\ Len(toHost') \in Nat
      /\ attempt \in Nat /\ attempt' \in Nat /\ Attempts \in Nat
      /\ attempt <= Attempts /\ attempt' <= Attempts
      /\ toBoard \in Seq(Ask) /\ toHost \in Seq(Answer)
      /\ Standing \in Nat /\ Standing' \in Nat
  <2>1. /\ FramesLeft \in Nat /\ ChunksLeft \in Nat
        /\ FramesLeft' \in Nat /\ ChunksLeft' \in Nat
    BY <1>1 DEF FramesAre
  <2>2. /\ toBoard \in Seq(Ask) /\ toHost \in Seq(Answer)
        /\ toBoard' \in Seq(Ask) /\ toHost' \in Seq(Answer)
    BY <1>1 DEF TypeInv, TypeOK
  <2>3. /\ Len(toBoard) \in Nat /\ Len(toBoard') \in Nat
        /\ Len(toHost) \in Nat /\ Len(toHost') \in Nat
    BY <2>2
  <2>4. /\ attempt \in 0..Attempts /\ attempt' \in 0..Attempts
        /\ Attempts \in Nat
    BY <1>1, SizeAssumption DEF TypeInv, TypeOK
  <2>5. /\ attempt \in Nat /\ attempt' \in Nat
        /\ attempt <= Attempts /\ attempt' <= Attempts
    BY <2>4
  <2>6. Standing \in Nat /\ Standing' \in Nat
    BY DEF Standing
  <2> QED BY <2>1, <2>2, <2>3, <2>4, <2>5, <2>6
<1>3. /\ Work = 4 * FramesLeft + 2 * Len(toBoard) + Len(toHost) + Standing
      /\ Work' = 4 * FramesLeft' + 2 * Len(toBoard') + Len(toHost') + Standing'
  BY DEF Work
<1>4. /\ toHost # << >> => Len(Tail(toHost)) = Len(toHost) - 1
      /\ Len(<< >>) = 0
  BY <1>2
<1>5. CASE SkipAnswer
  <2>1. /\ Len(toHost') = Len(toHost) - 1 /\ toBoard' = toBoard
        /\ FramesLeft' = FramesLeft /\ Standing' = Standing
    BY <1>4, <1>5 DEF SkipAnswer, FramesLeft, Standing
  <2> QED BY <1>2, <1>3, <2>1
<1>6. CASE pc # "idle" /\ Return("error") /\ toBoard' = toBoard
           /\ Len(toHost') <= Len(toHost)
  <2>1. FramesLeft' = 0 /\ Standing' = 0 /\ Standing >= 1
    BY <1>1, <1>6 DEF Return, FramesAre, Standing
  <2> QED BY <1>2, <1>3, <1>6, <2>1 DEF Standing
<1>7. CASE VersionReport
  <2>1. pc = "query" /\ Len(toHost') = Len(toHost) - 1 /\ toBoard' = toBoard
    BY <1>4, <1>7 DEF VersionReport, Received
  <2>2. CASE pc' = "check" /\ UNCHANGED << call, sent, attempt, result >>
    <3>1. FramesLeft' = FramesLeft /\ Standing' = Standing
      BY <2>1, <2>2 DEF FramesLeft, Standing
    <3> QED BY <1>2, <1>3, <2>1, <3>1
  <2>3. CASE Return("error")
    BY <1>2, <1>6, <2>1, <2>3
  <2> QED BY <1>7, <2>2, <2>3 DEF VersionReport
<1>8. CASE Begin
  <2>1. /\ pc = "check" /\ pc' = "begin" /\ sent' = sent /\ toHost' = << >>
        /\ Len(toBoard') <= Len(toBoard) + 1
    BY <1>2, <1>8, SendGrows DEF Begin
  <2>2. FramesLeft' = FramesLeft - 1 /\ Standing' = 1 /\ Standing = 1
    BY <1>1, <1>2, <2>1 DEF FramesAre, Standing, ChunksLeft
  <2> QED BY <1>2, <1>3, <1>4, <2>1, <2>2
<1>9. CASE StillRunning
  BY <1>2, <1>6, <1>9 DEF StillRunning
<1>10. CASE BeginAck
  <2>1. pc = "begin" /\ Len(toHost') = Len(toHost) - 1 /\ toBoard' = toBoard
    BY <1>4, <1>10 DEF BeginAck, Received
  <2>2. CASE pc' = "next" /\ UNCHANGED << call, sent, attempt, result >>
    <3>1. ChunksLeft' = ChunksLeft /\ attempt' = 0
      BY <2>1, <2>2 DEF ChunksLeft, WorkInv
    <3>2. FramesLeft' = FramesLeft /\ Standing' = 1 /\ Standing = 1
      BY <1>1, <1>2, <2>1, <2>2, <3>1 DEF FramesAre, Standing
    <3> QED BY <1>2, <1>3, <2>1, <3>2
  <2>3. CASE Return("error")
    BY <1>2, <1>6, <2>1, <2>3
  <2> QED BY <1>10, <2>2, <2>3 DEF BeginAck
<1>11. CASE SendChunk
  <2>1. /\ pc = "next" /\ pc' = "chunk" /\ sent' = sent
        /\ attempt' = attempt + 1 /\ toHost' = toHost
        /\ Len(toBoard') <= Len(toBoard) + 1
    BY <1>2, <1>11, SendGrows DEF SendChunk
  <2>2. FramesLeft' = FramesLeft - 1 /\ Standing' = 2 /\ Standing = 1
    BY <1>1, <1>2, <2>1 DEF FramesAre, Standing, ChunksLeft
  <2> QED BY <1>2, <1>3, <2>1, <2>2
<1>12. CASE ChunkFails
  BY <1>2, <1>6, <1>12 DEF ChunkFails
<1>13. CASE ChunkAck
  <2>1. pc = "chunk" /\ Len(toHost') = Len(toHost) - 1 /\ toBoard' = toBoard
    BY <1>4, <1>13 DEF ChunkAck, Received
  <2>2. CASE pc' = "next" /\ sent' = sent + 1 /\ attempt' = 0
    <3>1. ChunksLeft = ChunksLeft' + Attempts
      BY <2>1, <2>2, ChunksLeftIs DEF ChunksLeft, TypeInv
    <3>2. FramesLeft' <= FramesLeft /\ Standing' = 1 /\ Standing = 2
      BY <1>1, <1>2, <2>1, <2>2, <3>1 DEF FramesAre, Standing
    <3> QED BY <1>2, <1>3, <2>1, <3>2
  <2>3. CASE pc' = "next" /\ UNCHANGED << call, sent, attempt, result >>
    <3>1. FramesLeft' = FramesLeft /\ Standing' = 1 /\ Standing = 2
      BY <2>1, <2>3 DEF FramesLeft, Standing
    <3> QED BY <1>2, <1>3, <2>1, <3>1
  <2>4. CASE Return("error")
    BY <1>2, <1>6, <2>1, <2>4
  <2> QED BY <1>13, <2>2, <2>3, <2>4 DEF ChunkAck
<1>14. CASE Commit
  <2>1. /\ pc = "next" /\ pc' = "commit" /\ sent = Chunks /\ toHost' = toHost
        /\ Len(toBoard') <= Len(toBoard) + 1
    BY <1>2, <1>14, SendGrows DEF Commit
  <2>2. FramesLeft' = 0 /\ FramesLeft = 1 /\ Standing' = 1 /\ Standing = 1
    BY <1>1, <1>2, <2>1, ChunksLeftIs DEF FramesAre, Standing, WorkInv
  <2> QED BY <1>2, <1>3, <2>1, <2>2
<1>15. CASE UpdateResult
  <2>1. /\ pc = "commit" /\ pc' = "idle" /\ Len(toHost') = Len(toHost) - 1
        /\ toBoard' = toBoard
    BY <1>4, <1>15 DEF UpdateResult, Received, Return
  <2>2. FramesLeft' = 0 /\ FramesLeft = 0 /\ Standing' = 0 /\ Standing = 1
    BY <1>1, <2>1 DEF FramesAre, Standing
  <2> QED BY <1>2, <1>3, <2>1, <2>2
<1>16. CASE AwaitTimeout
  <2>1. pc # "idle" /\ toBoard' = toBoard /\ toHost' = toHost
    BY <1>16 DEF AwaitTimeout
  <2>2. CASE pc = "chunk"
    <3>1. FramesLeft' = FramesLeft /\ Standing' = 1 /\ Standing = 2
      BY <1>16, <2>2 DEF AwaitTimeout, FramesLeft, Standing
    <3> QED BY <1>2, <1>3, <2>1, <3>1
  <2>3. CASE pc # "chunk"
    BY <1>2, <1>6, <1>16, <2>1, <2>3 DEF AwaitTimeout
  <2> QED BY <2>2, <2>3
<1>17. CASE WriteFails
  BY <1>2, <1>6, <1>17 DEF WriteFails
<1> QED BY <1>5, <1>7, <1>8, <1>9, <1>10, <1>11, <1>12, <1>13, <1>14, <1>15,
           <1>16, <1>17 DEF HostStep

\* Nobody else gives the host anything to do: the board answers a frame once,
\* the bus thread only takes answers away.
LEMMA OthersAddNoWork ==
  ASSUME TypeInv, WorkInv, [Next]_vars, ~HostStep, ~UpdateBoardFirmware
  PROVE  Work' <= Work
<1>1. FramesLeft \in Nat /\ toBoard \in Seq(Ask) /\ toHost \in Seq(Answer)
  BY FramesLeftIs DEF FramesAre, TypeInv, TypeOK
<1>2. /\ FramesLeft' = FramesLeft /\ Standing' = Standing
  BY BusFacts DEF Next, Command, BoardStep, FramesLeft, Standing
<1>3. /\ Work = 4 * FramesLeft + 2 * Len(toBoard) + Len(toHost) + Standing
      /\ Work' = 4 * FramesLeft' + 2 * Len(toBoard') + Len(toHost') + Standing'
      /\ Standing \in Nat
  BY DEF Work, Standing
<1>4. CASE UNCHANGED medium
  BY <1>1, <1>2, <1>3, <1>4
<1>5. CASE BusStep
  <2>1. toBoard' = toBoard /\ Len(toHost') <= Len(toHost) /\ Len(toHost') \in Nat
    <3>1. toHost # << >> => Len(Tail(toHost)) = Len(toHost) - 1 /\ Len(toHost) # 0
      BY <1>1
    <3>2. Len(<< >>) = 0 /\ Len(toHost) \in Nat
      BY <1>1
    <3> QED BY <1>5, <3>1, <3>2, BusFacts
  <2> QED BY <1>1, <1>2, <1>3, <2>1
<1>6. CASE BoardStep
  <2>1. Head(toBoard) \in Ask /\ Len(toBoard') = Len(toBoard) - 1
    BY <1>1, <1>6 DEF BoardStep
  <2>2. Len(toHost') <= Len(toHost) + 1 /\ toHost' \in Seq(Answer)
    BY <1>6, <2>1, TakeGrows, TakeType DEF BoardStep
  <2> QED BY <1>1, <1>2, <1>3, <2>1, <2>2
<1> QED
  BY <1>4, <1>5, <1>6
  DEF Next, Command

LEMMA WorkIsNumber == TypeInv /\ WorkInv => Work \in Nat
<1> SUFFICES ASSUME TypeInv, WorkInv PROVE Work \in Nat
  OBVIOUS
<1>1. FramesLeft \in Nat /\ Len(toBoard) \in Nat /\ Len(toHost) \in Nat
  BY FramesLeftIs DEF FramesAre, TypeInv, TypeOK
<1> QED BY <1>1 DEF Work, Standing

LEMMA WorkWillBeNumber == TypeInv' /\ WorkInv' => Work' \in Nat
<1>1. (TypeInv /\ WorkInv => Work \in Nat)'
  BY WorkIsNumber, PTL
<1> QED BY <1>1

\* A call brings a bounded amount of work.
LEMMA CallWork ==
  ASSUME TypeInv, WorkInv, UpdateBoardFirmware
  PROVE  Work' <= 11 + 4 * (Attempts * Chunks) + 2 * Len(toBoard)
<1>1. TypeInv' /\ WorkInv' /\ toBoard \in Seq(Ask)
  BY TypeInductive, WorkInvInductive DEF Next, TypeInv, TypeOK
<1>2. /\ pc' = "query" /\ toHost' = << >> /\ sent' = 0
      /\ Len(toBoard') \in Nat /\ Len(toBoard') <= Len(toBoard) + 1
  BY <1>1, SendGrows DEF UpdateBoardFirmware
<1>3. /\ FramesLeft' = 2 + Attempts * Chunks /\ Len(toHost') = 0
      /\ Attempts * Chunks \in Nat
  <2>1. FramesLeft' = 2 + ChunksLeft' /\ ChunksLeft' = Attempts * Chunks
    BY <1>1, <1>2, FramesWillBe DEF FramesAre
  <2>2. Attempts * Chunks \in Nat
    BY ChunksLeftIs
  <2>3. Len(<< >>) = 0
    OBVIOUS
  <2> QED BY <1>2, <2>1, <2>2, <2>3
<1>4. Work' = 4 * FramesLeft' + 2 * Len(toBoard') + Len(toHost') + 1
  BY <1>2 DEF Work, Standing
<1>5. Len(toBoard) \in Nat
  BY <1>1
<1>6. ASSUME NEW all \in Nat, NEW old \in Nat, NEW new \in Nat, new <= old + 1
      PROVE  4 * (2 + all) + 2 * new + 0 + 1 <= 11 + 4 * all + 2 * old
  BY <1>6
<1>7. Work' = 4 * (2 + Attempts * Chunks) + 2 * Len(toBoard') + 0 + 1
  BY <1>3, <1>4
<1> QED BY <1>2, <1>3, <1>5, <1>6, <1>7

\* What a step does to the work: the host's thread reduces it, nobody adds to it.
WorkRunsOut ==
  /\ HostStep => Work' < Work
  /\ ~UpdateBoardFirmware => Work' <= Work
  /\ UpdateBoardFirmware =>
       Work' <= 11 + 4 * (Attempts * Chunks) + 2 * Len(toBoard)

\* A call of UpdateBoardFirmware takes a bounded number of steps of the host's
\* thread, whatever the board answers and the bus thread reads away: Work is a
\* number, bounded when the call begins, that every step of the thread makes
\* smaller and no other step makes larger.  (UpdateReturns follows where the
\* thread is scheduled.)
THEOREM UpdateIsBounded == Spec => [](Work \in Nat) /\ [][WorkRunsOut]_vars
<1>1. TypeInv /\ WorkInv => Work \in Nat
  BY WorkIsNumber
<1>2. TypeInv /\ WorkInv /\ [Next]_vars => [WorkRunsOut]_vars
  <2> SUFFICES ASSUME TypeInv, WorkInv, [Next]_vars PROVE WorkRunsOut
    OBVIOUS
  <2>1. HostStep => ~UpdateBoardFirmware
    BY DEF HostStep, UpdateBoardFirmware, SkipAnswer, VersionReport, Begin,
       StillRunning, BeginAck, SendChunk, ChunkFails, ChunkAck, Commit,
       UpdateResult, AwaitTimeout, WriteFails
  <2>2. HostStep => Work' < Work /\ Work' <= Work
    <3>1. HostStep => TypeInv' /\ WorkInv'
      BY HostType, WorkInvInductive DEF Next
    <3> QED BY <3>1, HostWorks, WorkIsNumber, WorkWillBeNumber
  <2>3. ~HostStep /\ ~UpdateBoardFirmware => Work' <= Work
    BY OthersAddNoWork
  <2>4. UpdateBoardFirmware =>
          Work' <= 11 + 4 * (Attempts * Chunks) + 2 * Len(toBoard)
    BY CallWork
  <2> QED BY <2>1, <2>2, <2>3, <2>4 DEF WorkRunsOut
<1>3. Init => WorkInv
  BY SizeAssumption DEF Init, WorkInv
<1> QED
  BY <1>1, <1>2, <1>3, TypeInit, TypeInductive, WorkInvInductive, PTL DEF Spec
=============================================================================
