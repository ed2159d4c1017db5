---------------------------- MODULE SwitchSession ----------------------------
(***************************************************************************)
(* A runtime session on the bus: the host's frames, the chain of switch    *)
(* replies that follows each of them, and the resync that repairs the      *)
(* session (the second half of RS485Comm::Run, ReceiveSwitchStateChain,    *)
(* ReceiveSwitchStateFrame, ApplySwitchBitmapDiff and ResyncSession).      *)
(*                                                                         *)
(* A frame of the host names the first board of the chain; each board's    *)
(* reply names the next one.  A reply says nothing of its sender: the host *)
(* takes it for the reply of the board it expects.  It does carry the      *)
(* epoch and the last host sequence number the board has seen, and status  *)
(* flags; of these the host only asks whether they are what it expects.    *)
(* Hence a board is "synced" (its reply would be as expected) or not, and  *)
(* a reply is "ok" until the host sends its next frame.                    *)
(*                                                                         *)
(* The boards' firmware is not part of the library.  The boards here do    *)
(* what the host's code relies on: they reply when it is their turn, they  *)
(* report a frame they missed, a setup makes them synced again, and a turn *)
(* that was not taken lapses with the next host frame they hear.           *)
(***************************************************************************)
EXTENDS Naturals, Sequences, SequencesExt

CONSTANTS
  Chain,          \* m_switchBoards: the boards in the order of their turns
  Virtual,        \* m_virtualSwitchBoards: boards the host replies for
  None,           \* ppuc::v2::kNoBoard
  MaxBoards,      \* RS485_COMM_MAX_BOARDS, the longest chain that is read
  MissThreshold,  \* RS485_COMM_SWITCH_REPLY_MISS_THRESHOLD
  MissMod,        \* 2^8 in the code, where m_switchReplyMisses is a uint8_t
  RefreshIdle,    \* m_switchRefreshIdleMs > 0
  SharedMedium,   \* what the host misses of a reply the next board misses too
  MaxInput        \* bound on the replies waiting in the host's input buffer

Boards == ToSet(Chain)
Real   == Boards \ Virtual

ASSUME ChainAssumption ==
  /\ Chain \in Seq(Boards) /\ Chain # << >> /\ IsInjective(Chain)
  /\ None \notin Boards
  /\ MaxBoards \in Nat /\ Len(Chain) <= MaxBoards
ASSUME VirtualAssumption == Virtual \subseteq Boards
ASSUME MissAssumption ==
  MissThreshold \in Nat \ {0} /\ MissMod \in Nat /\ MissThreshold < MissMod
ASSUME MediumAssumption ==
  RefreshIdle \in BOOLEAN /\ SharedMedium \in BOOLEAN /\ MaxInput \in Nat

VARIABLES
  pc,        \* "top" of the loop of Run or inside the "chain"
  expected,  \* the board whose reply is awaited
  hops,      \* replies taken in this chain
  success,   \* nothing went wrong in this chain
  need,      \* m_needSessionResync
  misses,    \* m_switchReplyMisses
  hold,      \* m_nextSwitchPollAt has not come yet
  view,      \* m_switchBitmap, one switch per board
  input,     \* the host's input buffer
  synced,    \* the board's next reply would be as the host expects
  turn,      \* boards that have been given their turn
  sw,        \* the switch as it is
  dirty,     \* the board has something to report
  noisy,     \* the bus may still lose and damage frames
  fails      \* history: chains missed since the last clean one or resync

host   == << pc, expected, hops, success, need, misses, hold, view >>
boards == << synced, turn, sw, dirty >>
vars   == << host, input, boards, noisy, fails >>

Replies == [from : Real, state : BOOLEAN, value : BOOLEAN, ok : BOOLEAN,
            intact : BOOLEAN]

TypeOK ==
  /\ pc \in {"top", "chain"}
  /\ expected \in Boards \cup {None}
  /\ hops \in 0..MaxBoards
  /\ success \in BOOLEAN /\ need \in BOOLEAN /\ hold \in BOOLEAN
  /\ misses \in 0..(MissMod - 1)
  /\ view \in [Real -> BOOLEAN]
  /\ input \in Seq(Replies)
  /\ synced \in [Real -> BOOLEAN]
  /\ turn \in SUBSET Real
  /\ sw \in [Real -> BOOLEAN] /\ dirty \in [Real -> BOOLEAN]
  /\ noisy \in BOOLEAN
  /\ fails \in Nat

\* GetLogicalNextSwitchBoard; the boards were configured with the same order.
NextBoard(b) ==
  LET i == CHOOSE i \in DOMAIN Chain : Chain[i] = b
  IN  IF i < Len(Chain) THEN Chain[i + 1] ELSE None

Init ==
  /\ pc = "top" /\ expected = None /\ hops = 0 /\ success = TRUE
  /\ need = FALSE /\ misses = 0 /\ hold = TRUE
  /\ view = [b \in Real |-> FALSE]
  /\ input = << >>
  /\ synced = [b \in Real |-> TRUE]
  /\ turn = {}
  /\ sw = [b \in Real |-> FALSE] /\ dirty = [b \in Real |-> FALSE]
  /\ noisy = TRUE
  /\ fails = 0

----------------------------------------------------------------------------
(* The bus.                                                                *)

\* The boards that hear a frame: all of them, once the bus is quiet.
Hearing == IF noisy THEN SUBSET Real ELSE {Real}

\* Replies under way when the host sends a frame are out of date.
Outdated == [i \in DOMAIN input |-> [input[i] EXCEPT !.ok = FALSE]]

\* A host frame reaches the boards in heard and gives the turn to first.
\* A board that missed it will report the gap.
Broadcast(heard, first) ==
  /\ synced' = [b \in Real |-> synced[b] /\ b \in heard]
  /\ turn' = (turn \ heard) \cup ({first} \cap heard)
  /\ input' = Outdated

----------------------------------------------------------------------------
(* The host.                                                               *)

\* ResyncSession: a new epoch, setup and mapping frames, a flushed input
\* buffer.  A board is synced when it heard all of them.
ResyncSession ==
  /\ pc = "top" /\ need
  /\ \E heard \in Hearing :
       /\ synced' = [b \in Real |-> b \in heard]
       /\ turn' = turn \ heard
  /\ input' = << >>
  /\ need' = FALSE /\ hold' = TRUE /\ fails' = 0
  /\ UNCHANGED << pc, expected, hops, success, misses, view, sw, dirty,
                  noisy >>

\* A setup or mapping frame could not be written.  The epoch has moved all the
\* same, so no board is synced.
ResyncFails ==
  /\ pc = "top" /\ need /\ noisy
  /\ synced' = [b \in Real |-> FALSE]
  /\ \E heard \in SUBSET Real : turn' = turn \ heard
  /\ input' = Outdated
  /\ UNCHANGED << host, sw, dirty, noisy, fails >>

\* A frame without a turn in it, until the hold after Run or a resync is over.
HoldFrame ==
  /\ pc = "top" /\ ~need /\ hold
  /\ \E heard \in Hearing : Broadcast(heard, None)
  /\ UNCHANGED << host, sw, dirty, noisy, fails >>

\* SendEvent: a trigger goes out before the runtime and resync checks.
TriggerFrame ==
  /\ pc = "top"
  /\ \E heard \in Hearing : Broadcast(heard, None)
  /\ UNCHANGED << host, sw, dirty, noisy, fails >>

HoldOver ==
  /\ pc = "top" /\ hold
  /\ hold' = FALSE
  /\ UNCHANGED << pc, expected, hops, success, need, misses, view, input,
                  boards, noisy, fails >>

\* Mutant: a refresh is sent like any output frame.
PollWithoutRefresh(refresh) ==
  /\ pc = "top" /\ ~need /\ ~hold
  /\ refresh => RefreshIdle
  /\ \E heard \in Hearing : Broadcast(heard, Chain[1])
  /\ pc' = "chain" /\ expected' = Chain[1] /\ hops' = 0 /\ success' = TRUE
  /\ UNCHANGED << need, misses, hold, view, sw, dirty, noisy, fails >>

\* An output frame or a switch refresh with the first board's turn in it.  A
\* refresh asks every board for its state, changed or not.
Poll(refresh) ==
  /\ pc = "top" /\ ~need /\ ~hold
  /\ refresh => RefreshIdle
  /\ \E heard \in Hearing :
       /\ Broadcast(heard, Chain[1])
       /\ dirty' = [b \in Real |-> dirty[b] \/ (refresh /\ b \in heard)]
  /\ pc' = "chain" /\ expected' = Chain[1] /\ hops' = 0 /\ success' = TRUE
  /\ UNCHANGED << need, misses, hold, view, sw, noisy, fails >>

\* The frame could not be written.  Its sequence number is used up.
PollFails ==
  /\ pc = "top" /\ ~need /\ noisy
  /\ synced' = [b \in Real |-> FALSE]
  /\ input' = Outdated
  /\ UNCHANGED << host, turn, sw, dirty, noisy, fails >>

\* Mutant: a chain is followed however long it gets.
AwaitingUnbounded == pc = "chain" /\ success /\ expected # None

Awaiting == pc = "chain" /\ success /\ expected # None /\ hops < MaxBoards

\* SendVirtualSwitchReply: the host takes the turn of a virtual board.
SendVirtualSwitchReply ==
  /\ Awaiting /\ expected \in Virtual
  /\ expected' = NextBoard(expected)
  /\ hops' = hops + 1
  /\ \E heard \in Hearing : turn' = turn \cup ({NextBoard(expected)} \cap heard)
  /\ UNCHANGED << pc, success, need, misses, hold, view, input, synced, sw,
                  dirty, noisy, fails >>

VirtualReplyFails ==
  /\ Awaiting /\ expected \in Virtual /\ noisy
  /\ success' = FALSE
  /\ UNCHANGED << pc, expected, hops, need, misses, hold, view, input, boards,
                  noisy, fails >>

\* ApplySwitchBitmapDiff under the mask of the expected board: of its own
\* switch another board's bitmap says nothing reliable.
ApplySwitchBitmapDiff(board, reply) ==
  IF ~reply.state THEN view' = view
  ELSE \E bit \in BOOLEAN :
         /\ reply.from = board => bit = reply.value
         /\ view' = [view EXCEPT ![board] = bit]

\* Mutant: epoch, sequence and status of a reply are not looked at.
ReceiveUnchecked ==
  /\ Awaiting /\ expected \in Real /\ input # << >>
  /\ LET reply == Head(input)
     IN  /\ reply.intact
         /\ ApplySwitchBitmapDiff(expected, reply)
         /\ expected' = NextBoard(reply.from)
  /\ hops' = hops + 1
  /\ input' = Tail(input)
  /\ UNCHANGED << pc, success, need, misses, hold, boards, noisy, fails >>

\* ReceiveSwitchStateFrame, a complete frame: the mismatch asks for a resync,
\* and the bitmap is applied nevertheless.
ReceiveReply ==
  /\ Awaiting /\ expected \in Real /\ input # << >>
  /\ LET reply == Head(input)
     IN  /\ reply.intact
         /\ need' = (need \/ ~reply.ok)
         /\ ApplySwitchBitmapDiff(expected, reply)
         /\ expected' = NextBoard(reply.from)
  /\ hops' = hops + 1
  /\ input' = Tail(input)
  /\ UNCHANGED << pc, success, misses, hold, boards, noisy, fails >>

\* The CRC is checked last: what a damaged frame says of epoch, sequence and
\* status has asked for a resync already.
ReceiveDamaged ==
  /\ Awaiting /\ expected \in Real /\ input # << >>
  /\ ~Head(input).intact
  /\ need' \in {need, TRUE}
  /\ success' = FALSE
  /\ input' = Tail(input)
  /\ UNCHANGED << pc, expected, hops, misses, hold, view, boards, noisy,
                  fails >>

\* The reply window closes.  It is long enough for a board that has its turn
\* and is not disturbed.
ReplyTimeout ==
  /\ Awaiting /\ expected \in Real /\ input = << >>
  /\ noisy \/ turn = {}
  /\ success' = FALSE
  /\ UNCHANGED << pc, expected, hops, need, misses, hold, view, input, boards,
                  noisy, fails >>

\* The end of ReceiveSwitchStateChain when nothing went wrong, or when the
\* chain was cut at MaxBoards.
ChainClean ==
  /\ pc = "chain" /\ success
  /\ expected = None \/ hops = MaxBoards
  /\ pc' = "top"
  /\ misses' = 0 /\ fails' = 0
  /\ UNCHANGED << expected, hops, success, need, hold, view, input, boards,
                  noisy >>

\* Mutant: one more miss is tolerated.
ChainMissedLate ==
  /\ pc = "chain" /\ ~success
  /\ pc' = "top"
  /\ misses' = (misses + 1) % MissMod
  /\ need' = (need \/ misses' > MissThreshold)
  /\ fails' = fails + 1
  /\ UNCHANGED << expected, hops, success, hold, view, input, boards, noisy >>

\* And when something did.  The streak is not reset by a resync.
ChainMissed ==
  /\ pc = "chain" /\ ~success
  /\ pc' = "top"
  /\ misses' = (misses + 1) % MissMod
  /\ need' = (need \/ misses' >= MissThreshold)
  /\ fails' = fails + 1
  /\ UNCHANGED << expected, hops, success, hold, view, input, boards, noisy >>

----------------------------------------------------------------------------
(* The boards.                                                             *)

SwitchChanges(b) ==
  /\ noisy
  /\ sw' = [sw EXCEPT ![b] = ~@]
  /\ dirty' = [dirty EXCEPT ![b] = TRUE]
  /\ UNCHANGED << host, input, synced, turn, noisy, fails >>

\* The reply reaches the host intact, damaged or not at all, and the next
\* board hears its turn in it or not.
Reply(b) ==
  /\ b \in turn /\ Len(input) < MaxInput
  /\ \E arrives, intact, passed \in BOOLEAN :
       /\ ~noisy => arrives /\ intact /\ passed
       /\ SharedMedium => passed = (arrives /\ intact)
       /\ input' = IF arrives
                   THEN Append(input, [from |-> b, state |-> dirty[b],
                                       value |-> sw[b], ok |-> synced[b],
                                       intact |-> intact])
                   ELSE input
       /\ turn' = (turn \ {b})
                    \cup (IF passed THEN {NextBoard(b)} \cap Real ELSE {})
  /\ dirty' = [dirty EXCEPT ![b] = FALSE]
  /\ UNCHANGED << host, synced, sw, noisy, fails >>

\* From here on the bus is quiet and no switch moves.
BusQuiet ==
  /\ noisy /\ noisy' = FALSE
  /\ UNCHANGED << host, input, boards, fails >>

----------------------------------------------------------------------------
HostStep ==
  \/ ResyncSession \/ ResyncFails
  \/ HoldFrame \/ HoldOver
  \/ \E refresh \in BOOLEAN : Poll(refresh)
  \/ PollFails
  \/ SendVirtualSwitchReply \/ VirtualReplyFails
  \/ ReceiveReply \/ ReceiveDamaged \/ ReplyTimeout
  \/ ChainClean \/ ChainMissed

Next ==
  \/ HostStep
  \/ TriggerFrame
  \/ \E b \in Real : SwitchChanges(b) \/ Reply(b)
  \/ BusQuiet

Spec == Init /\ [][Next]_vars

\* The bus thread runs, the hold ends, the refresh interval passes when the
\* switches rest, boards take their turns, and at some time the bus is quiet.
Fairness ==
  /\ WF_vars(HostStep)
  /\ SF_vars(HoldOver)
  /\ SF_vars(Poll(TRUE))
  /\ \A b \in Real : WF_vars(Reply(b))
  /\ WF_vars(BusQuiet)

FairSpec == Spec /\ Fairness

----------------------------------------------------------------------------
(* Properties                                                              *)

\* A reply that was taken for another board's never goes unnoticed: the
\* session is resynced before the next poll.  This needs a medium on which a
\* reply the host misses does not reach the next board either.
MisattributionNoticed ==
  [][SharedMedium /\ ReceiveReply /\ Head(input).from # expected
       => need']_vars

\* A poll is never sent on a session that is known to be broken: not after
\* MissThreshold chains were missed in a row, or one more when the eight-bit
\* streak counter wraps in between.
BrokenSessionNotPolled ==
  [][pc = "top" /\ pc' = "chain" => ~need /\ fails <= MissThreshold]_vars

\* Once the bus is quiet the session is repaired for good, and the host's view
\* of every switch becomes right and stays so, whatever was lost, damaged or
\* misattributed before.  The view needs the refresh: a change whose only report
\* was lost is not reported again.
SessionHeals ==
  <>[](~need /\ (\A b \in Real : synced[b]) /\ view = sw)
=============================================================================
