---------------------------- MODULE ConfigStartup ----------------------------
(***************************************************************************)
(* Bringing the boards up: one call of PPUC::Connect with its startup      *)
(* attempt, and the acknowledged configuration frames under it             *)
(* (RS485Comm::SendConfigEvent, ReceiveConfigAck,                          *)
(* FinalizeConfiguredBoardPresence).                                       *)
(*                                                                         *)
(* The configuration is a fixed list of frames, sent one at a time.  A     *)
(* frame is repeated until the board acknowledges it or the attempts are   *)
(* used up; the acknowledgement names board, topic, index and key ("key"   *)
(* here) but neither sequence number nor value.  What a frame configures   *)
(* is left out: a board has applied the frames that are in "applied".      *)
(*                                                                         *)
(* The boards' firmware is not part of the library.  A board here takes    *)
(* the frames it hears in their order, applies each or rejects it, and     *)
(* answers it, at any speed; frames and answers may be lost.  Whatever     *)
(* else the bus brings while the host waits for an answer is a stray.      *)
(***************************************************************************)
EXTENDS Naturals, Sequences, FiniteSets

CONSTANTS
  Boards,         \* the configured boards
  Counted,        \* those whose number is below RS485_COMM_MAX_BOARDS
  Skipped,        \* m_skippedBoards
  None,           \* ppuc::v2::kNoBoard
  Script,         \* the board-local configuration: [board, key] in order
  Polled,         \* the boards with pollEvents, in their configured order
  Retries,        \* RS485_COMM_CONFIG_ACK_RETRIES
  Window,         \* RS485_COMM_CONFIG_ACK_TIMEOUT_US, in strays that fit into it
  MissThreshold,  \* RS485_COMM_INITIAL_CONFIG_ACK_MISS_THRESHOLD
  WritesMayFail,  \* the serial port may reject a write
  MaxBuffered     \* bound on what a board, and the host, has yet to read

\* switchBoards: the loop over the boards leaves the skipped ones out.
SwitchBoards == SelectSeq(Polled, LAMBDA b : b \notin Skipped)

\* The two frames that tell a board its place in the chain of switch replies.
ChainScript ==
  [j \in 1..(2 * Len(SwitchBoards)) |->
     [board |-> SwitchBoards[(j + 1) \div 2],
      key   |-> IF j % 2 = 1 THEN "next" ELSE "delay"]]

Frames == Script \o ChainScript

ASSUME BoardsAssumption ==
  /\ IsFiniteSet(Boards) /\ Skipped \subseteq Boards /\ None \notin Boards
  /\ Counted \subseteq Boards
  /\ Polled \in Seq(Boards) /\ SwitchBoards \in Seq(Boards)
  /\ Script \in Seq([board : Boards, key : STRING])
ASSUME LimitAssumption ==
  /\ Retries \in Nat \ {0} /\ MissThreshold \in Nat \ {0}
  /\ Window \in Nat /\ MaxBuffered \in Nat /\ WritesMayFail \in BOOLEAN

\* Every board that is not skipped is sent something, and an answer to a frame
\* can be told from the answers to the board's frames just before and after
\* it, as in every list the code sends.
ASSUME ScriptAssumption ==
  /\ \A b \in Boards \ Skipped : \E j \in DOMAIN Script : Script[j].board = b
  /\ \A j, k \in DOMAIN Frames :
       /\ j < k /\ Frames[j].board = Frames[k].board
       /\ \A n \in (j + 1)..(k - 1) : Frames[n].board # Frames[j].board
       => Frames[j].key # Frames[k].key

VARIABLES
  pc,          \* where the startup stands
  i,           \* the frame at hand
  attempt,     \* how often it was sent before
  present,     \* m_presentBoards
  failed,      \* m_configFailed
  streak,      \* m_initialConfigAckMissStreak
  missesBy,    \* m_initialConfigAckMissesByBoard
  abortBoard,  \* m_configEarlyAbortBoard
  virtual,     \* the keys of m_virtualSwitchBoards
  waited,      \* how much of the window for an answer strays have used up
  input,       \* answers waiting in the host's input buffer
  heard,       \* frames each board has heard and not answered yet
  applied,     \* frames applied by their board since Connect
  givenUp,     \* history: frames SendConfigEvent gave up on
  rejected     \* history: the port rejected a frame

misses  == << streak, missesBy, abortBoard >>
outcome == << present, failed, misses, virtual >>
bus     == << waited, input, heard, applied >>
vars    == << pc, i, attempt, outcome, bus, givenUp, rejected >>

States == {"idle", "event", "write", "await", "spent", "finalize", "setup",
           "running", "failed"}

\* An answer names board and key of its frame; which frame it was is not in it
\* and not read by the host.
Ack == [frame : DOMAIN Frames, accepted : BOOLEAN]

TypeOK ==
  /\ pc \in States
  /\ i \in 1..(Len(Frames) + 1) /\ attempt \in 0..(Retries - 1)
  /\ present \in SUBSET (Boards \ Skipped) /\ failed \in BOOLEAN
  /\ streak \in 0..MissThreshold
  /\ missesBy \in [Boards -> 0..MissThreshold]
  /\ abortBoard \in Boards \cup {None}
  /\ virtual \in SUBSET Boards /\ waited \in 0..Window
  /\ input \in Seq(Ack) /\ heard \in [Boards -> Seq(DOMAIN Frames)]
  /\ applied \in SUBSET DOMAIN Frames /\ givenUp \in SUBSET DOMAIN Frames
  /\ rejected \in BOOLEAN

Init ==
  /\ pc = "idle" /\ i = 1 /\ attempt = 0
  /\ present = {} /\ failed = FALSE
  /\ streak = 0 /\ missesBy = [b \in Boards |-> 0] /\ abortBoard = None
  /\ virtual = {} /\ waited = 0
  /\ input = << >> /\ heard = [b \in Boards |-> << >>]
  /\ applied = {} /\ givenUp = {} /\ rejected = FALSE

Board == Frames[i].board

\* One board, or all of them, left the first frames unanswered.
ShouldAbortConfigurationEarly ==
  \/ abortBoard # None
  \/ present = {} /\ streak >= MissThreshold

----------------------------------------------------------------------------
(* The host: PPUC::Connect.                                                *)

\* The port is opened and flushed, the boards restarted; either may fail.
Restart ==
  /\ pc = "idle"
  /\ pc' \in {IF Script = << >> THEN "finalize" ELSE "event", "failed"}
  /\ UNCHANGED << i, attempt, outcome, bus, givenUp, rejected >>

\* What the startup attempt does after frame i.
NextFrame ==
  /\ i' = i + 1 /\ attempt' = 0
  /\ pc' = CASE i = Len(Script)                    -> "finalize"
             [] i = Len(Frames) /\ i # Len(Script) -> "setup"
             [] OTHER                              -> "event"

Abandon ==
  /\ pc \in {"event", "finalize", "setup"}
  /\ \/ ShouldAbortConfigurationEarly
     \/ pc \in {"finalize", "setup"} /\ failed
  /\ pc' = "failed"
  /\ UNCHANGED << i, attempt, outcome, bus, givenUp, rejected >>

\* SendConfigEvent up to its first write.  A frame for a skipped board counts
\* as sent; a board that did not turn up is not put into the chain.
BeginFrame ==
  /\ pc = "event" /\ ~ShouldAbortConfigurationEarly
  /\ IF Board \in Skipped \/ (i > Len(Script) /\ Board \notin present)
       THEN NextFrame
       ELSE pc' = "write" /\ UNCHANGED << i, attempt >>
  /\ UNCHANGED << outcome, bus, givenUp, rejected >>

\* The frame goes out; the board hears it or does not.
WriteFrame ==
  /\ pc = "write"
  /\ pc' = "await" /\ waited' = 0
  /\ \/ heard' = heard
     \/ /\ Len(heard[Board]) < MaxBuffered
        /\ heard' = [heard EXCEPT ![Board] = Append(@, i)]
  /\ UNCHANGED << i, attempt, outcome, input, applied, givenUp, rejected >>

\* The port rejects the frame: SendConfigEvent returns false with no further
\* trace, and none of its callers looks at what it returns.
WriteFails ==
  /\ pc = "write" /\ WritesMayFail
  /\ NextFrame /\ rejected' = TRUE
  /\ UNCHANGED << outcome, bus, givenUp >>

\* Mutant: an answer is matched by its board alone.
MatchesBoard(ack) == Frames[ack.frame].board = Board

\* ReceiveConfigAck reads one answer.  One that names another frame is
\* dropped, a rejection ends the attempt, an acceptance ends the frame.
Matches(ack) ==
  Frames[ack.frame].board = Board /\ Frames[ack.frame].key = Frames[i].key

ReceiveAck ==
  /\ pc = "await" /\ input # << >>
  /\ input' = Tail(input)
  /\ LET ack == Head(input)
     IN  \/ /\ ~Matches(ack)
            /\ UNCHANGED << pc, i, attempt, outcome >>
         \/ /\ Matches(ack) /\ ~ack.accepted
            /\ pc' = "spent"
            /\ UNCHANGED << i, attempt, outcome >>
         \/ /\ Matches(ack) /\ ack.accepted
            /\ NextFrame
            /\ streak' = 0
            /\ missesBy' = IF Board \in Counted
                           THEN [missesBy EXCEPT ![Board] = 0] ELSE missesBy
            /\ present' = present \cup {Board}
            /\ UNCHANGED << failed, abortBoard, virtual >>
  /\ UNCHANGED << waited, heard, applied, givenUp, rejected >>

\* Mutant: the wait for the answer begins anew now and then.
StrayRestartsWait ==
  /\ pc = "await"
  /\ waited' = IF waited < Window THEN waited + 1 ELSE 0
  /\ UNCHANGED << pc, i, attempt, outcome, input, heard, applied, givenUp, rejected >>

\* Noise, a frame with a wrong checksum or of another known type: it is read
\* to its end and the wait goes on, but only for what is left of the time.  An
\* answer it swallows is one that was lost.
ReceiveStray ==
  /\ pc = "await" /\ waited < Window
  /\ waited' = waited + 1
  /\ UNCHANGED << pc, i, attempt, outcome, input, heard, applied, givenUp, rejected >>

\* The time is up, or a frame of an unknown type ends the wait.
AckTimeout ==
  /\ pc = "await"
  /\ pc' = "spent"
  /\ UNCHANGED << i, attempt, outcome, bus, givenUp, rejected >>

\* Mutant: one attempt too many.
RetryOnceMore ==
  /\ pc = "spent" /\ attempt + 1 <= Retries
  /\ pc' = "write" /\ attempt' = attempt + 1 /\ input' = << >>
  /\ UNCHANGED << i, outcome, waited, heard, applied, givenUp, rejected >>

\* The input is flushed and the frame repeated.
Retry ==
  /\ pc = "spent" /\ attempt + 1 < Retries
  /\ pc' = "write" /\ attempt' = attempt + 1 /\ input' = << >>
  /\ UNCHANGED << i, outcome, waited, heard, applied, givenUp, rejected >>

\* Mutant: a board is blamed although it answered before.
BlameAnyBoard ==
  IF Board \in Counted /\ missesBy[Board] < MissThreshold
  THEN /\ missesBy' = [missesBy EXCEPT ![Board] = @ + 1]
       /\ abortBoard' = IF missesBy[Board] + 1 >= MissThreshold THEN Board ELSE abortBoard
  ELSE UNCHANGED << missesBy, abortBoard >>

\* The misses of each board are counted, and the startup is to end with the
\* board that has never answered.  There is a counter only for the boards with
\* a number below RS485_COMM_MAX_BOARDS; PPUC.cpp accepts numbers up to 255.
BlameBoard ==
  IF Board \in Counted /\ missesBy[Board] < MissThreshold
  THEN /\ missesBy' = [missesBy EXCEPT ![Board] = @ + 1]
       /\ abortBoard' = IF Board \notin present /\ missesBy[Board] + 1 >= MissThreshold
                        THEN Board ELSE abortBoard
  ELSE UNCHANGED << missesBy, abortBoard >>

\* The last attempt is spent: the configuration has failed.
GiveUp ==
  /\ pc = "spent" /\ attempt + 1 >= Retries
  /\ input' = << >> /\ failed' = TRUE /\ givenUp' = givenUp \cup {i}
  /\ streak' = IF present = {} /\ streak < MissThreshold THEN streak + 1 ELSE streak
  /\ BlameBoard
  /\ NextFrame
  /\ UNCHANGED << present, virtual, waited, heard, applied, rejected >>

\* Mutant: boards that did not answer are virtualized like skipped ones.
FinalizeAnyway ==
  /\ pc = "finalize" /\ ~ShouldAbortConfigurationEarly
  /\ virtual' = Boards \ present
  /\ pc' = IF ChainScript = << >> THEN "setup" ELSE "event"
  /\ UNCHANGED << i, attempt, present, failed, misses, bus, givenUp, rejected >>

\* FinalizeConfiguredBoardPresence, once all frames of Script are through.
Finalize ==
  /\ pc = "finalize" /\ ~ShouldAbortConfigurationEarly /\ ~failed
  /\ virtual' = Boards \ present
  /\ pc' = IF ChainScript = << >> THEN "setup" ELSE "event"
  /\ UNCHANGED << i, attempt, present, failed, misses, bus, givenUp, rejected >>

\* SendSetupFrame and SendMappingFrames, then Run; nobody answers them.
Setup ==
  /\ pc = "setup" /\ ~ShouldAbortConfigurationEarly /\ ~failed
  /\ \/ pc' = "running"
     \/ WritesMayFail /\ pc' = "failed"
  /\ UNCHANGED << i, attempt, outcome, bus, givenUp, rejected >>

----------------------------------------------------------------------------
(* The boards.                                                             *)

\* A board takes the next frame it heard, applies or rejects it and answers;
\* the answer arrives or is lost.
BoardAnswers(b) ==
  /\ pc \notin {"running", "failed"} /\ heard[b] # << >>
  /\ heard' = [heard EXCEPT ![b] = Tail(@)]
  /\ \E accepted \in BOOLEAN :
       LET j == Head(heard[b])
       IN  /\ applied' = IF accepted THEN applied \cup {j} ELSE applied
           /\ \/ input' = input
              \/ /\ Len(input) < MaxBuffered
                 /\ input' = Append(input, [frame |-> j, accepted |-> accepted])
  /\ UNCHANGED << pc, i, attempt, outcome, waited, givenUp, rejected >>

Host ==
  \/ Restart \/ Abandon \/ BeginFrame \/ WriteFrame \/ WriteFails
  \/ ReceiveAck \/ ReceiveStray \/ AckTimeout \/ Retry \/ GiveUp
  \/ Finalize \/ Setup

Next == Host \/ \E b \in Boards : BoardAnswers(b)

Spec == Init /\ [][Next]_vars

\* Connect runs on the caller's thread, which nothing stops for good.  What
\* the boards do is left to them.
FairSpec == Spec /\ WF_vars(Host)

----------------------------------------------------------------------------
(* Properties.                                                             *)

\* The runtime starts only after every board that is not skipped applied all
\* of its configuration (PPUC.cpp: "Start the V2 runtime only after all
\* board-local config was applied").  An answer names its frame only by board,
\* topic, index and key, which recur, so a late answer to an earlier attempt
\* could pass for one to a frame the board never heard.  It holds as long as
\* the port takes every frame.
StartedMeansApplied ==
  pc = "running" /\ ~rejected =>
    \A j \in DOMAIN Frames : Frames[j].board \notin Skipped => j \in applied

\* A board is virtualized, its switches then played by the host, only when the
\* user said so: a board that fails to answer stops the startup instead.
VirtualByChoice ==
  virtual # {} /\ ~rejected => virtual = Skipped

\* The same of a port that rejects frames, too.
StartedMeansAppliedAlways ==
  pc = "running" =>
    \A j \in DOMAIN Frames : Frames[j].board \notin Skipped => j \in applied

\* The startup is cut short exactly when its message is true: a board that
\* never acknowledged anything left its first MissThreshold frames
\* unanswered, or all boards together did.  Of one board this is said only
\* where its misses are counted: a silent board with a number of
\* RS485_COMM_MAX_BOARDS or more does not cut the startup short by itself.
SilentOn(S) == Cardinality({j \in givenUp : Frames[j].board \in S}) >= MissThreshold

EarlyAbortIsExact ==
  ShouldAbortConfigurationEarly <=>
    \/ \E b \in Counted \ present : SilentOn({b})
    \/ present = {} /\ SilentOn(Boards)

\* Whatever the boards answer, the bus loses and strays bring, Connect returns.
StartupEnds == <>(pc \in {"running", "failed"})

\* PPUC.cpp says of the chain of switch replies that it spans "the full logical
\* switch-board order, including virtualized boards".
ChainSpansVirtualBoards ==
  pc = "running" =>
    \A j \in DOMAIN Polled : Polled[j] \in virtual =>
      \E k \in DOMAIN SwitchBoards : SwitchBoards[k] = Polled[j]
=============================================================================
