------------------------- MODULE SwitchSessionProofs -------------------------
(***************************************************************************)
(* The switch session for any chain of boards, any of them virtual, and    *)
(* any bus: types, the streak of missed chains, and why a reply that is    *)
(* taken for another board's never goes unnoticed.                         *)
(***************************************************************************)
EXTENDS SwitchSession, TLAPS

USE DEF host, boards, vars

----------------------------------------------------------------------------
(* The chain.                                                              *)

\* Where a board is in the chain; None is behind all boards.
Place(b) ==
  IF b = None THEN Len(Chain) + 1
  ELSE CHOOSE i \in DOMAIN Chain : Chain[i] = b

\* A turn goes from place to place (GetLogicalNextSwitchBoard).
LEMMA NextPlace ==
  ASSUME NEW b \in Boards
  PROVE  /\ NextBoard(b) \in Boards \cup {None}
         /\ Place(b) \in 1..Len(Chain) /\ Place(NextBoard(b)) = Place(b) + 1
<1> DEFINE i == CHOOSE i \in DOMAIN Chain : Chain[i] = b
           n == IF i < Len(Chain) THEN Chain[i + 1] ELSE None
<1>1. DOMAIN Chain = 1..Len(Chain) /\ Len(Chain) \in Nat
  BY ChainAssumption
<1>2. i \in DOMAIN Chain /\ Chain[i] = b
  BY DEF Boards, ToSet
<1>3. NextBoard(b) = n /\ Place(b) = i
  BY ChainAssumption DEF NextBoard, Place
<1> HIDE DEF i
<1>4. CASE i < Len(Chain)
  <2>1. n = Chain[i + 1] /\ i + 1 \in DOMAIN Chain
    BY <1>1, <1>2, <1>4
  <2>2. n \in Boards
    BY <2>1 DEF Boards, ToSet
  <2>3. \A j \in DOMAIN Chain : Chain[j] = n => j = i + 1
    BY <2>1, ChainAssumption DEF IsInjective
  <2>4. Place(n) = i + 1
    BY <2>1, <2>2, <2>3, ChainAssumption DEF Place
  <2> QED
    BY <1>1, <1>2, <1>3, <2>2, <2>4
<1>5. CASE ~(i < Len(Chain))
  <2>1. i = Len(Chain) /\ n = None
    BY <1>1, <1>2, <1>5
  <2>2. Place(n) = Len(Chain) + 1
    BY <2>1 DEF Place
  <2> QED
    BY <1>1, <1>2, <1>3, <2>1, <2>2
<1> QED
  BY <1>4, <1>5

\* The first board of the chain has the first place, and places differ.
LEMMA FirstPlace ==
  /\ Chain[1] \in Boards /\ Place(Chain[1]) = 1
  /\ \A b \in Boards \cup {None} : Place(b) \in Nat
  /\ \A b, c \in Boards \cup {None} : Place(b) = Place(c) => b = c
<1>1. DOMAIN Chain = 1..Len(Chain) /\ Len(Chain) \in Nat /\ 1 \in DOMAIN Chain
  BY ChainAssumption
<1>2. Chain[1] \in Boards
  BY <1>1 DEF Boards, ToSet
<1>3. \A b \in Boards : Place(b) \in DOMAIN Chain /\ Chain[Place(b)] = b
  BY ChainAssumption DEF Place, Boards, ToSet
<1>4. Place(Chain[1]) = 1
  BY <1>1, <1>2, <1>3, ChainAssumption DEF IsInjective
<1>5. Place(None) = Len(Chain) + 1
  BY DEF Place
<1> QED
  BY <1>1, <1>2, <1>3, <1>4, <1>5

----------------------------------------------------------------------------
(* Types.                                                                  *)

LEMMA OutdatedReplies ==
  ASSUME input \in Seq(Replies)
  PROVE  /\ Outdated \in Seq(Replies)
         /\ DOMAIN Outdated = DOMAIN input
         /\ \A i \in DOMAIN Outdated : ~Outdated[i].ok
<1>1. \A i \in DOMAIN input :
        /\ [input[i] EXCEPT !.ok = FALSE] \in Replies
        /\ ~[input[i] EXCEPT !.ok = FALSE].ok
  <2>1. \A r \in Replies : /\ [r EXCEPT !.ok = FALSE] \in Replies
                            /\ ~[r EXCEPT !.ok = FALSE].ok
    BY DEF Replies
  <2> QED
    BY <2>1
<1>2. DOMAIN input = 1..Len(input) /\ Len(input) \in Nat
  OBVIOUS
<1>3. Outdated \in [1..Len(input) -> Replies]
  BY <1>1, <1>2 DEF Outdated
<1>4. Outdated \in Seq(Replies)
  BY <1>2, <1>3
<1> QED
  BY <1>1, <1>4 DEF Outdated

\* A frame of the host: what it does to the boards and to the replies under way.
LEMMA BroadcastType ==
  ASSUME TypeOK, NEW heard \in SUBSET Real, NEW first, Broadcast(heard, first)
  PROVE  /\ synced' \in [Real -> BOOLEAN] /\ turn' \in SUBSET Real
         /\ input' \in Seq(Replies)
  BY OutdatedReplies DEF TypeOK, Broadcast

LEMMA HearingType == Hearing \subseteq SUBSET Real
  BY DEF Hearing

\* The state of the bus after a frame of the host is what the frame made of it.
LEMMA TypeInit == Init => TypeOK
<1> SUFFICES ASSUME Init PROVE TypeOK
  OBVIOUS
<1>1. 0 \in 0..MaxBoards /\ 0 \in 0..(MissMod - 1)
  BY ChainAssumption, MissAssumption
<1>2. input \in Seq(Replies) /\ fails \in Nat
  BY DEF Init
<1>3. hops \in 0..MaxBoards /\ misses \in 0..(MissMod - 1)
  BY <1>1 DEF Init
<1> QED
  BY <1>2, <1>3 DEF Init, TypeOK

\* The eight-bit streak.
LEMMA StreakWraps ==
  ASSUME misses \in 0..(MissMod - 1)
  PROVE  (misses + 1) % MissMod =
           IF misses + 1 = MissMod THEN 0 ELSE misses + 1
<1>1. \A d \in Nat \ {0} : \A n \in 0..d :
        n % d = IF n = d THEN 0 ELSE n
  OBVIOUS
<1> QED
  BY <1>1, MissAssumption

LEMMA TypeInductive ==
  ASSUME TypeOK, [Next]_vars PROVE TypeOK'
<1> USE DEF TypeOK
<1>1. CASE ResyncSession
  <2>1. synced' \in [Real -> BOOLEAN] /\ turn' \in SUBSET Real
    BY <1>1, HearingType DEF ResyncSession
  <2>2. input' \in Seq(Replies) /\ fails' \in Nat
    BY <1>1 DEF ResyncSession
  <2> QED
    BY <1>1, <2>1, <2>2 DEF ResyncSession
<1>2. CASE ResyncFails
  BY <1>2, OutdatedReplies DEF ResyncFails
<1>3. CASE HoldFrame \/ TriggerFrame
  <2>1. /\ synced' \in [Real -> BOOLEAN] /\ turn' \in SUBSET Real
        /\ input' \in Seq(Replies)
    BY <1>3, HearingType, BroadcastType DEF HoldFrame, TriggerFrame
  <2> QED
    BY <1>3, <2>1 DEF HoldFrame, TriggerFrame
<1>4. CASE HoldOver BY <1>4 DEF HoldOver
<1>5. ASSUME NEW refresh \in BOOLEAN, Poll(refresh) PROVE TypeOK'
  <2>1. PICK heard \in Hearing :
          /\ Broadcast(heard, Chain[1])
          /\ dirty' = [b \in Real |-> dirty[b] \/ (refresh /\ b \in heard)]
    BY <1>5 DEF Poll
  <2>3. /\ synced' \in [Real -> BOOLEAN] /\ turn' \in SUBSET Real
        /\ input' \in Seq(Replies)
    BY <2>1, HearingType, BroadcastType
  <2>4. dirty' \in [Real -> BOOLEAN]
    BY <2>1
  <2>2. expected' \in Boards /\ hops' \in 0..MaxBoards
    BY <1>5, FirstPlace, ChainAssumption DEF Poll
  <2> QED
    BY <1>5, <2>2, <2>3, <2>4 DEF Poll
<1>6. CASE PollFails
  BY <1>6, OutdatedReplies DEF PollFails
<1>7. Awaiting => /\ expected \in Boards
                  /\ NextBoard(expected) \in Boards \cup {None}
                  /\ hops + 1 \in 0..MaxBoards
  BY NextPlace, ChainAssumption DEF Awaiting
<1>8. CASE SendVirtualSwitchReply
  <2>1. turn' \in SUBSET Real
    BY <1>8, HearingType DEF SendVirtualSwitchReply
  <2> QED
    BY <1>7, <1>8, <2>1 DEF SendVirtualSwitchReply
<1>9. CASE VirtualReplyFails BY <1>9 DEF VirtualReplyFails
<1>10. CASE ReceiveReply
  <2>1. Head(input) \in Replies /\ Tail(input) \in Seq(Replies)
    BY <1>10 DEF ReceiveReply
  <2>2. Head(input).from \in Real /\ Head(input).ok \in BOOLEAN
    BY <2>1 DEF Replies
  <2>3. expected' \in Boards \cup {None}
    BY <1>10, <2>2, NextPlace DEF ReceiveReply, Real
  <2>4. view' \in [Real -> BOOLEAN]
    BY <1>10 DEF ReceiveReply, ApplySwitchBitmapDiff
  <2>5. hops' \in 0..MaxBoards /\ need' \in BOOLEAN
    BY <1>7, <1>10 DEF ReceiveReply
  <2>6. input' \in Seq(Replies)
    BY <1>10, <2>1 DEF ReceiveReply
  <2>7. UNCHANGED << pc, success, misses, hold, boards, noisy, fails >>
    BY <1>10 DEF ReceiveReply
  <2> QED
    BY <2>3, <2>4, <2>5, <2>6, <2>7
<1>11. CASE ReceiveDamaged
  <2>1. need' \in BOOLEAN
    <3>1. need' \in {need, TRUE} /\ {need, TRUE} \subseteq BOOLEAN
      BY <1>11 DEF ReceiveDamaged
    <3> QED
      BY <3>1
  <2>2. success' \in BOOLEAN /\ input' \in Seq(Replies)
    <3>1. success' = FALSE /\ input # << >> /\ input' = Tail(input)
      BY <1>11 DEF ReceiveDamaged
    <3>2. Tail(input) \in Seq(Replies)
      BY <3>1
    <3> QED
      BY <3>1, <3>2
  <2>3. UNCHANGED << pc, expected, hops, misses, hold, view, boards, noisy,
                     fails >>
    BY <1>11 DEF ReceiveDamaged
  <2> QED
    BY <2>1, <2>2, <2>3
<1>12. CASE ReplyTimeout BY <1>12 DEF ReplyTimeout
<1>13. CASE ChainClean
  BY <1>13, MissAssumption DEF ChainClean
<1>14. CASE ChainMissed
  <2>1. misses' \in 0..(MissMod - 1)
    BY <1>14, StreakWraps, MissAssumption DEF ChainMissed
  <2>2. need' \in BOOLEAN /\ fails' \in Nat
    BY <1>14 DEF ChainMissed
  <2> QED
    BY <1>14, <2>1, <2>2 DEF ChainMissed
<1>15. ASSUME NEW b \in Real, SwitchChanges(b) PROVE TypeOK'
  BY <1>15 DEF SwitchChanges
<1>16. ASSUME NEW b \in Real, Reply(b) PROVE TypeOK'
  <2>1. PICK arrives \in BOOLEAN, intact \in BOOLEAN, passed \in BOOLEAN :
          /\ input' = IF arrives
                      THEN Append(input, [from |-> b, state |-> dirty[b],
                                          value |-> sw[b], ok |-> synced[b],
                                          intact |-> intact])
                      ELSE input
          /\ turn' = (turn \ {b})
                       \cup (IF passed THEN {NextBoard(b)} \cap Real ELSE {})
    BY <1>16 DEF Reply
  <2>2. [from |-> b, state |-> dirty[b], value |-> sw[b], ok |-> synced[b],
         intact |-> intact] \in Replies
    BY DEF Replies
  <2>3. input' \in Seq(Replies) /\ turn' \in SUBSET Real
    BY <2>1, <2>2
  <2> QED
    BY <1>16, <2>3 DEF Reply
<1>17. CASE BusQuiet BY <1>17 DEF BusQuiet
<1>18. CASE UNCHANGED vars BY <1>18
<1> QED
  BY <1>1, <1>2, <1>3, <1>4, <1>5, <1>6, <1>8, <1>9, <1>10, <1>11, <1>12,
     <1>13, <1>14, <1>15, <1>16, <1>17, <1>18 DEF Next, HostStep

\* Every variable of the session keeps its type; the chain is never followed
\* past the longest one that fits (ReceiveSwitchStateChain).
THEOREM TypeCorrect == Spec => []TypeOK
<1> QED BY TypeInit, TypeInductive, PTL DEF Spec

----------------------------------------------------------------------------
(* The streak of missed chains.                                            *)

\* As long as no resync is due, the streak counter is at most one behind the
\* chains missed, or they were all forgiven by a resync, which leaves the
\* counter as it is.
StreakInv ==
  ~need => IF misses < MissThreshold THEN fails <= misses + 1 ELSE fails = 0

LEMMA StreakInductive ==
  ASSUME TypeOK, StreakInv, [Next]_vars PROVE StreakInv'
<1> USE DEF StreakInv
<1>1. CASE ResyncSession
  BY <1>1 DEF ResyncSession, TypeOK
<1>2. CASE ReceiveReply \/ ReceiveDamaged
  <2>1. UNCHANGED << misses, fails >>
    BY <1>2 DEF ReceiveReply, ReceiveDamaged
  <2>2. need => need'
    BY <1>2 DEF ReceiveReply, ReceiveDamaged, TypeOK
  <2> QED
    BY <2>1, <2>2
<1>3. CASE ChainClean BY <1>3, MissAssumption DEF ChainClean
<1>4. CASE ChainMissed
  <2>1. misses' = IF misses + 1 = MissMod THEN 0 ELSE misses + 1
    BY <1>4, StreakWraps DEF ChainMissed, TypeOK
  <2>2. fails' = fails + 1 /\ misses \in 0..(MissMod - 1) /\ fails \in Nat
    BY <1>4 DEF ChainMissed, TypeOK
  <2>3. ~need' => ~need /\ ~(misses' >= MissThreshold)
    BY <1>4 DEF ChainMissed, TypeOK
  <2>5. ~need' => misses' < MissThreshold /\ fails' <= misses' + 1
    BY <2>1, <2>2, <2>3, MissAssumption
  <2> QED
    BY <2>5
<1>5. CASE UNCHANGED << need, misses, fails >>
  BY <1>5
<1>6. \/ ResyncFails \/ HoldFrame \/ HoldOver \/ (\E r \in BOOLEAN : Poll(r))
      \/ PollFails \/ SendVirtualSwitchReply \/ VirtualReplyFails
      \/ ReplyTimeout \/ TriggerFrame \/ BusQuiet \/ UNCHANGED vars
      \/ (\E b \in Real : SwitchChanges(b) \/ Reply(b))
      => UNCHANGED << need, misses, fails >>
  BY DEF ResyncFails, HoldFrame, HoldOver, Poll, PollFails, ReplyTimeout,
         SendVirtualSwitchReply, VirtualReplyFails, TriggerFrame, BusQuiet,
         SwitchChanges, Reply
<1> QED
  BY <1>1, <1>2, <1>3, <1>4, <1>5, <1>6 DEF Next, HostStep

\* A poll is never sent on a session that is known to be broken
\* (RS485Comm::Run, ReceiveSwitchStateChain).
THEOREM BrokenSessionNotPolledHolds == Spec => BrokenSessionNotPolled
<1> DEFINE Step == pc = "top" /\ pc' = "chain" => ~need /\ fails <= MissThreshold
<1>1. Init => StreakInv
  BY MissAssumption DEF Init, StreakInv
<1>2. TypeOK /\ StreakInv /\ [Next]_vars => [Step]_vars
  <2> SUFFICES ASSUME TypeOK, StreakInv, Next, pc = "top", pc' = "chain"
               PROVE  ~need /\ fails <= MissThreshold
    OBVIOUS
  <2>1. \E r \in BOOLEAN : Poll(r)
    BY DEF Next, HostStep, ResyncSession, ResyncFails, HoldFrame, HoldOver,
           PollFails, SendVirtualSwitchReply, VirtualReplyFails, ReceiveReply,
           ReceiveDamaged, ReplyTimeout, ChainClean, ChainMissed, Awaiting,
           TriggerFrame, SwitchChanges, Reply, BusQuiet
  <2> QED
    BY <2>1, MissAssumption DEF Poll, StreakInv, TypeOK
<1>3. TypeOK /\ StreakInv /\ [Next]_vars => (TypeOK /\ StreakInv)'
  BY TypeInductive, StreakInductive
<1> QED
  BY <1>1, <1>2, <1>3, TypeInit, PTL DEF Spec, BrokenSessionNotPolled
----------------------------------------------------------------------------
(* Replies and their senders.                                              *)

\* The first n replies in the host's buffer are as the host expects.
Good(n) == \A i \in 1..n : input[i].ok /\ input[i].intact

\* While a chain goes well, replies come in the order of the chain as long as
\* they are as expected, and of the boards that heard the host's frame only
\* the next one has its turn.  After a reply that is not as expected anything
\* may follow.
LineInv ==
  SharedMedium /\ pc = "chain" /\ success /\ ~need =>
    /\ \A i \in DOMAIN input :
         Good(i - 1) /\ input[i].ok =>
           Place(input[i].from) = Place(expected) + (i - 1)
    /\ Good(Len(input)) =>
         \A b \in turn : synced[b] => Place(b) = Place(expected) + Len(input)

\* A frame of the host starts a chain.  Older replies are out of date, and a
\* board that heard the frame has no older turn.
LEMMA PollStartsLine ==
  ASSUME TypeOK, NEW refresh \in BOOLEAN, Poll(refresh) PROVE LineInv'
<1>1. PICK heard \in SUBSET Real : Broadcast(heard, Chain[1])
  BY HearingType DEF Poll
<1>2. expected' = Chain[1] /\ Place(expected') = 1
  BY FirstPlace DEF Poll
<1>3. /\ input' \in Seq(Replies) /\ Len(input') \in Nat
      /\ DOMAIN input' = 1..Len(input')
      /\ \A i \in DOMAIN input' : ~input'[i].ok
  BY <1>1, OutdatedReplies DEF TypeOK, Broadcast
<1>4. Good(Len(input))' => Len(input') = 0
  BY <1>3 DEF Good
<1>5. \A b \in turn' : synced'[b] => b = Chain[1]
  BY <1>1 DEF Broadcast, TypeOK
<1> QED
  BY <1>2, <1>3, <1>4, <1>5 DEF LineInv

\* The host takes the turn of a virtual board.  Then no reply that is as
\* expected can be waiting, and no other board that is synced has its turn.
LEMMA VirtualKeepsLine ==
  ASSUME TypeOK, LineInv, SendVirtualSwitchReply PROVE LineInv'
<1> USE DEF TypeOK
<1> SUFFICES ASSUME SharedMedium, ~need
             PROVE  LineInv'
  BY DEF LineInv, SendVirtualSwitchReply
<1>1. /\ expected \in Boards /\ expected \notin Real
      /\ Place(expected) \in Nat /\ Place(expected') = Place(expected) + 1
      /\ expected' = NextBoard(expected)
      /\ UNCHANGED << input, synced >>
  BY NextPlace, ChainAssumption DEF SendVirtualSwitchReply, Awaiting, Real
<1>2. /\ \A i \in DOMAIN input :
           Good(i - 1) /\ input[i].ok =>
             Place(input[i].from) = Place(expected) + (i - 1)
      /\ Good(Len(input)) =>
           \A b \in turn : synced[b] => Place(b) = Place(expected) + Len(input)
  BY DEF LineInv, SendVirtualSwitchReply, Awaiting
<1>3. \A b \in Real : b \in Boards /\ Place(b) # Place(expected)
  BY <1>1, FirstPlace DEF Real
<1>4. /\ \A i \in DOMAIN input : input[i].from \in Real
      /\ DOMAIN input = 1..Len(input) /\ Len(input) \in Nat
  <2>1. \A i \in DOMAIN input : input[i] \in Replies
    OBVIOUS
  <2>2. \A r \in Replies : r.from \in Real
    BY DEF Replies
  <2> QED
    BY <2>1, <2>2
<1>5. Len(input) >= 1 => ~input[1].ok
  <2>1. Good(0)
    BY DEF Good
  <2> QED
    BY <1>1, <1>2, <1>3, <1>4, <2>1
<1>6. \A n \in 1..Len(input) : ~Good(n)
  BY <1>4, <1>5 DEF Good
<1>7. \A i \in DOMAIN input' : ~(Good(i - 1)' /\ input'[i].ok)
  <2> SUFFICES ASSUME NEW i \in DOMAIN input, Good(i - 1), input[i].ok
               PROVE  FALSE
    BY <1>1 DEF Good
  <2>1. i - 1 \in Nat /\ (i - 1 = 0 => i = 1)
    BY <1>4
  <2> QED
    BY <1>4, <1>5, <1>6, <2>1
<1>8. Good(Len(input))' => \A b \in turn' : synced'[b] => b = expected'
  <2> SUFFICES ASSUME Good(Len(input)), NEW b \in turn', synced'[b]
               PROVE  b = expected'
    BY <1>1 DEF Good
  <2>1. Len(input) = 0
    BY <1>4, <1>6
  <2>2. b \notin turn
    BY <1>1, <1>2, <1>3, <2>1
  <2> QED
    BY <1>1, <2>2 DEF SendVirtualSwitchReply
<1>9. Good(Len(input))' => Len(input') = 0
  BY <1>1, <1>4, <1>6 DEF Good
<1> QED
  BY <1>1, <1>7, <1>8, <1>9 DEF LineInv

\* The host takes a reply.  One that is as expected is of the expected board,
\* and the rest of the line moves up.
LEMMA ReceiveKeepsLine ==
  ASSUME TypeOK, LineInv, ReceiveReply PROVE LineInv'
<1> USE DEF TypeOK
<1> SUFFICES ASSUME SharedMedium, ~need' PROVE LineInv'
  BY DEF LineInv
<1> DEFINE reply == Head(input)
<1>1. /\ input # << >> /\ DOMAIN input = 1..Len(input) /\ Len(input) \in Nat
      /\ input' = Tail(input) /\ Len(input') = Len(input) - 1
      /\ DOMAIN input' = 1..(Len(input) - 1)
      /\ \A i \in DOMAIN input' : input'[i] = input[i + 1]
      /\ reply = input[1] /\ reply \in Replies
  BY DEF ReceiveReply
<1>2. ~need /\ reply.ok /\ reply.intact
  BY DEF ReceiveReply
<1>3. /\ pc = "chain" /\ success /\ expected \in Real
      /\ expected' = NextBoard(reply.from)
      /\ UNCHANGED << synced, turn >>
  BY DEF ReceiveReply, Awaiting
<1>4. /\ \A i \in DOMAIN input :
           Good(i - 1) /\ input[i].ok =>
             Place(input[i].from) = Place(expected) + (i - 1)
      /\ Good(Len(input)) =>
           \A b \in turn : synced[b] => Place(b) = Place(expected) + Len(input)
  BY <1>2, <1>3 DEF LineInv
<1>5. reply.from \in Boards /\ expected \in Boards
  BY <1>1, <1>3 DEF Replies, Real
<1>6. Place(expected) \in Nat
  BY <1>5, NextPlace
<1> HIDE DEF reply
<1>7. reply.from = expected
  <2>1. Good(0)
    BY DEF Good
  <2>2. 1 \in DOMAIN input
    BY <1>1
  <2> QED
    BY <1>1, <1>2, <1>4, <1>5, <1>6, <2>1, <2>2, FirstPlace
<1>8. Place(expected') = Place(expected) + 1
  BY <1>3, <1>5, <1>7, NextPlace
<1>9. \A n \in 0..Len(input') : Good(n)' => Good(n + 1)
  <2> SUFFICES ASSUME NEW n \in 0..Len(input'), Good(n)', NEW i \in 1..(n + 1)
               PROVE  input[i].ok /\ input[i].intact
    BY DEF Good
  <2>1. CASE i = 1
    BY <1>1, <1>2, <2>1
  <2>2. CASE i # 1
    <3>1. i - 1 \in 1..n /\ i - 1 \in DOMAIN input' /\ (i - 1) + 1 = i
      BY <1>1, <2>2
    <3>2. input'[i - 1] = input[i]
      BY <1>1, <3>1
    <3> QED
      BY <3>1, <3>2 DEF Good
  <2> QED
    BY <2>1, <2>2
<1>10. \A i \in DOMAIN input' :
         Good(i - 1)' /\ input'[i].ok =>
           Place(input'[i].from) = Place(expected') + (i - 1)
  <2> SUFFICES ASSUME NEW i \in DOMAIN input', Good(i - 1)', input'[i].ok
               PROVE  Place(input'[i].from) = Place(expected') + (i - 1)
    OBVIOUS
  <2>1. i - 1 \in 0..Len(input') /\ (i - 1) + 1 = i /\ (i + 1) - 1 = i
        /\ i + 1 \in DOMAIN input /\ i \in Nat
    BY <1>1
  <2>2. Good(i)
    BY <1>9, <2>1
  <2>3. Place(input[i + 1].from) = Place(expected) + i
    BY <1>1, <1>4, <2>1, <2>2
  <2> QED
    BY <1>1, <1>6, <1>8, <2>1, <2>3
<1>11. Good(Len(input))' =>
         \A b \in turn' : synced'[b] => Place(b) = Place(expected') + Len(input')
  <2>1. Len(input') \in 0..Len(input') /\ Len(input') + 1 = Len(input)
    BY <1>1
  <2>2. Good(Len(input))' => Good(Len(input))
    BY <1>9, <2>1
  <2> QED
    BY <1>1, <1>3, <1>4, <1>6, <1>8, <2>1, <2>2
<1> QED
  BY <1>10, <1>11 DEF LineInv
\* A board takes its turn.  What the host does not hear intact the next board
\* does not hear either, so that it gets its turn only when the reply is in
\* the line.
LEMMA ReplyKeepsLine ==
  ASSUME TypeOK, LineInv, NEW b \in Real, Reply(b) PROVE LineInv'
<1>0. /\ input \in Seq(Replies) /\ expected \in Boards \cup {None}
      /\ turn \subseteq Real /\ synced[b] \in BOOLEAN /\ dirty[b] \in BOOLEAN
      /\ sw[b] \in BOOLEAN
  BY DEF TypeOK
<1> SUFFICES ASSUME SharedMedium, pc = "chain", success, ~need PROVE LineInv'
  BY DEF LineInv, Reply
<1>1. /\ b \in turn /\ b \in Boards
      /\ UNCHANGED << expected, synced, pc, success, need >>
  BY DEF Reply, Real
<1>2. /\ \A i \in DOMAIN input :
           Good(i - 1) /\ input[i].ok =>
             Place(input[i].from) = Place(expected) + (i - 1)
      /\ Good(Len(input)) =>
           \A c \in turn : synced[c] => Place(c) = Place(expected) + Len(input)
  BY DEF LineInv
<1>3. DOMAIN input = 1..Len(input) /\ Len(input) \in Nat
  BY <1>0
<1>4. PICK arrives \in BOOLEAN, intact \in BOOLEAN, passed \in BOOLEAN :
        /\ passed = (arrives /\ intact)
        /\ input' = IF arrives
                    THEN Append(input, [from |-> b, state |-> dirty[b],
                                        value |-> sw[b], ok |-> synced[b],
                                        intact |-> intact])
                    ELSE input
        /\ turn' = (turn \ {b})
                     \cup (IF passed THEN {NextBoard(b)} \cap Real ELSE {})
  BY DEF Reply
<1>5. CASE ~arrives
  <2>1. input' = input /\ turn' \subseteq turn
    BY <1>4, <1>5
  <2> QED
    BY <1>1, <1>2, <2>1 DEF LineInv, Good
<1>6. CASE arrives
  <2> DEFINE e == [from |-> b, state |-> dirty[b], value |-> sw[b],
                   ok |-> synced[b], intact |-> intact]
  <2>0. PICK n \in Nat : n = Len(input)
    BY <1>3
  <2>8. n \in Nat
    BY <2>0
  <2>1. input' = Append(input, e)
    BY <1>4, <1>6
  <2>2. e \in Replies /\ e.from = b /\ e.ok = synced[b] /\ e.intact = intact
    BY <1>0 DEF Replies
  <2> HIDE DEF e
  <2>3. /\ Len(input') = n + 1 /\ DOMAIN input' = 1..(n + 1)
        /\ input'[n + 1] = e
        /\ \A i \in 1..n : input'[i] = input[i]
    BY <1>0, <1>3, <2>0, <2>1, <2>2
  <2>4. \A i \in 0..n : Good(i)' <=> Good(i)
    BY <2>8, <2>3 DEF Good
  <2>5. Good(n + 1)' => Good(n) /\ synced[b] /\ intact
    <3>1. Good(n + 1)' => Good(n)'
      BY <2>8 DEF Good
    <3>2. Good(n + 1)' => e.ok /\ e.intact
      BY <2>8, <2>3 DEF Good
    <3> QED
      BY <2>8, <2>2, <2>4, <3>1, <3>2
  <2>6. ASSUME NEW i \in DOMAIN input', Good(i - 1)', input'[i].ok
        PROVE  Place(input'[i].from) = Place(expected) + (i - 1)
    <3>1. i - 1 \in 0..n /\ Good(i - 1)
      BY <1>3, <2>0, <2>3, <2>4, <2>6
    <3>2. CASE i \in 1..n
      BY <1>2, <1>3, <2>0, <2>3, <2>6, <3>1, <3>2
    <3>3. CASE i = n + 1
      <4>1. input'[i] = e /\ i - 1 = n /\ synced[b] /\ Good(n)
        BY <1>3, <2>0, <2>2, <2>3, <2>6, <3>1, <3>3
      <4> QED
        BY <1>1, <1>2, <2>0, <2>2, <4>1
    <3> QED
      BY <1>3, <2>0, <2>3, <3>2, <3>3
  <2>7. ASSUME Good(n + 1)', NEW c \in turn', synced[c]
        PROVE  Place(c) = Place(expected) + (n + 1)
    <3>1. Good(n) /\ synced[b] /\ Place(b) = Place(expected) + n
      BY <1>1, <1>2, <2>0, <2>5, <2>7
    <3>2. c \notin turn \ {b}
      <4>1. c \in turn => c = b
        <5> SUFFICES ASSUME c \in turn PROVE c = b
          OBVIOUS
        <5>1. c \in Boards /\ Place(c) = Place(b)
          BY <1>0, <1>2, <2>0, <2>7, <3>1 DEF Real
        <5> QED
          BY <1>1, <5>1, FirstPlace
      <4> QED
        BY <4>1
    <3>3. c = NextBoard(b)
      BY <1>4, <3>2
    <3>4. Place(c) = Place(b) + 1
      BY <1>1, <3>3, NextPlace
    <3>5. Place(expected) \in Nat
      BY <1>0, FirstPlace
    <3> QED
      BY <2>8, <3>1, <3>4, <3>5
  <2> QED
    BY <1>1, <2>0, <2>3, <2>6, <2>7 DEF LineInv
<1> QED
  BY <1>5, <1>6

LEMMA LineInductive ==
  ASSUME TypeOK, LineInv, [Next]_vars PROVE LineInv'
<1>1. ASSUME NEW refresh \in BOOLEAN, Poll(refresh) PROVE LineInv'
  BY <1>1, PollStartsLine
<1>2. CASE SendVirtualSwitchReply BY <1>2, VirtualKeepsLine
<1>3. CASE ReceiveReply BY <1>3, ReceiveKeepsLine
<1>4. ASSUME NEW b \in Real, Reply(b) PROVE LineInv'
  BY <1>4, ReplyKeepsLine
<1>5. CASE pc' = "top" \/ ~success'
  BY <1>5 DEF LineInv
<1>6. CASE UNCHANGED << pc, expected, success, need, input, synced, turn >>
  BY <1>6 DEF LineInv, Good
<1>7. \/ ResyncSession \/ ResyncFails \/ HoldFrame \/ PollFails \/ TriggerFrame
      \/ VirtualReplyFails \/ ReceiveDamaged \/ ReplyTimeout
      \/ ChainClean \/ ChainMissed
      => pc' = "top" \/ ~success'
  BY DEF ResyncSession, ResyncFails, HoldFrame, PollFails, TriggerFrame,
         VirtualReplyFails, ReceiveDamaged, ReplyTimeout, ChainClean, ChainMissed
<1>8. HoldOver \/ BusQuiet \/ (\E b \in Real : SwitchChanges(b)) \/ UNCHANGED vars
      => UNCHANGED << pc, expected, success, need, input, synced, turn >>
  BY DEF HoldOver, BusQuiet, SwitchChanges
<1> QED
  BY <1>1, <1>2, <1>3, <1>4, <1>5, <1>6, <1>7, <1>8 DEF Next, HostStep

\* On a shared medium a reply that is taken for another board's asks for a
\* resync, for any chain and whatever is lost, late or damaged
\* (ReceiveSwitchStateFrame).
THEOREM MisattributionNoticedHolds == Spec => MisattributionNoticed
<1> DEFINE Step == /\ SharedMedium /\ ReceiveReply /\ Head(input).from # expected
                   => need'
<1>1. Init => LineInv
  BY DEF Init, LineInv
<1>2. TypeOK /\ LineInv /\ [Next]_vars => [Step]_vars
  <2> SUFFICES ASSUME TypeOK, LineInv, SharedMedium, ReceiveReply,
                      Head(input).from # expected, ~need'
               PROVE  FALSE
    OBVIOUS
  <2>1. /\ 1 \in DOMAIN input /\ Head(input) = input[1] /\ input[1] \in Replies
        /\ pc = "chain" /\ success /\ expected \in Real
    BY DEF ReceiveReply, Awaiting, TypeOK
  <2>6. ~need /\ Head(input).ok
    BY DEF ReceiveReply
  <2>2. Good(0) /\ 1 - 1 = 0
    BY DEF Good
  <2>3. Place(input[1].from) = Place(expected) + 0
    BY <2>1, <2>2, <2>6 DEF LineInv
  <2>4. input[1].from \in Boards /\ expected \in Boards
    BY <2>1 DEF Replies, Real
  <2>5. Place(expected) \in Nat
    BY <2>4, NextPlace
  <2> QED
    BY <2>1, <2>3, <2>4, <2>5, FirstPlace
<1>3. TypeOK /\ LineInv /\ [Next]_vars => (TypeOK /\ LineInv)'
  BY TypeInductive, LineInductive
<1> QED
  BY <1>1, <1>2, <1>3, TypeInit, PTL DEF Spec, MisattributionNoticed

----------------------------------------------------------------------------
(* How long a chain can take.                                              *)

\* Steps the bus thread can still take in this chain: the replies up to the
\* longest chain, one that goes wrong, and the end.
HopsLeft ==
  IF pc = "top" THEN 0
  ELSE MaxBoards - hops + (IF success THEN 2 ELSE 1)

HopsRunOut ==
  pc = "chain" =>
    IF HostStep THEN HopsLeft' < HopsLeft ELSE HopsLeft' = HopsLeft

LEMMA HopsUsed ==
  ASSUME TypeOK, pc = "chain", HostStep PROVE HopsLeft' < HopsLeft
<1>1. MaxBoards \in Nat /\ hops \in Nat /\ hops <= MaxBoards /\ success \in BOOLEAN
  BY ChainAssumption DEF TypeOK
<1>2. HopsLeft = MaxBoards - hops + (IF success THEN 2 ELSE 1)
  BY DEF HopsLeft
<1>3. CASE pc' = "top"
  BY <1>1, <1>2, <1>3 DEF HopsLeft
<1>4. CASE pc' = "chain" /\ hops' = hops + 1 /\ success' = success
  BY <1>1, <1>2, <1>4 DEF HopsLeft
<1>5. CASE pc' = "chain" /\ hops' = hops /\ success /\ ~success'
  BY <1>1, <1>2, <1>5 DEF HopsLeft
<1>6. \/ pc' = "top"
      \/ pc' = "chain" /\ hops' = hops + 1 /\ success' = success
      \/ pc' = "chain" /\ hops' = hops /\ success /\ ~success'
  BY DEF HostStep, ResyncSession, ResyncFails, HoldFrame, HoldOver, Poll,
         PollFails, SendVirtualSwitchReply, VirtualReplyFails, ReceiveReply,
         ReceiveDamaged, ReplyTimeout, ChainClean, ChainMissed, Awaiting
<1> QED
  BY <1>3, <1>4, <1>5, <1>6

\* After a poll the bus thread is back at the top of its loop within MaxBoards + 2
\* steps, whatever comes in, and also when replies lead round in circles
\* (ReceiveSwitchStateChain).  Boards and host threads have no part in this.
THEOREM ChainIsBounded == Spec => [](HopsLeft \in Nat) /\ [][HopsRunOut]_vars
<1>1. TypeOK => HopsLeft \in Nat
  BY ChainAssumption DEF TypeOK, HopsLeft
<1>2. TypeOK /\ [Next]_vars => [HopsRunOut]_vars
  <2> SUFFICES ASSUME TypeOK, Next, pc = "chain"
               PROVE  IF HostStep THEN HopsLeft' < HopsLeft
                      ELSE HopsLeft' = HopsLeft
    BY DEF HopsRunOut
  <2>1. HostStep => HopsLeft' < HopsLeft
    BY HopsUsed
  <2>2. ~HostStep => UNCHANGED << pc, hops, success >>
    BY DEF Next, TriggerFrame, SwitchChanges, Reply, BusQuiet
  <2>3. ~HostStep => HopsLeft' = HopsLeft
    BY <2>2 DEF HopsLeft
  <2> QED
    BY <2>1, <2>3
<1> QED
  BY <1>1, <1>2, TypeInit, TypeInductive, PTL DEF Spec

----------------------------------------------------------------------------
(* A session that has healed.                                              *)

\* The replies of a chain that goes well, once nothing is lost any more: in the
\* line are the boards that had their turn, in their order, and only the one
\* after them has its turn.
InLine ==
  /\ success /\ hops + 1 = Place(expected)
  /\ \A i \in DOMAIN input :
       /\ input[i].ok /\ input[i].intact /\ input[i].value = sw[input[i].from]
       /\ Place(input[i].from) = Place(expected) + (i - 1)
  /\ turn = {b \in Real : Place(b) = Place(expected) + Len(input)}

\* The bus is quiet and the host has nothing to repair and nothing to learn.
Healed ==
  /\ ~noisy /\ ~need /\ view = sw
  /\ \A b \in Real : synced[b]
  /\ pc = "top" => input = << >> /\ turn = {}
  /\ pc = "chain" => InLine

LEMMA Quiet == ~noisy => Hearing = {Real}
  BY DEF Hearing

LEMMA LineTypes ==
  ASSUME TypeOK
  PROVE  /\ DOMAIN input = 1..Len(input) /\ Len(input) \in Nat
         /\ \A i \in DOMAIN input : input[i] \in Replies /\ input[i].from \in Real
         /\ expected \in Boards \cup {None} /\ Place(expected) \in Nat
         /\ \A b \in Real : b \in Boards /\ Place(b) \in Nat
<1>1. \A r \in Replies : r.from \in Real
  BY DEF Replies
<1>2. \A i \in DOMAIN input : input[i] \in Replies
  BY DEF TypeOK
<1> QED
  BY <1>1, <1>2, FirstPlace DEF TypeOK, Real

\* A frame of the host outside a chain finds no reply waiting.
LEMMA HostFrame ==
  ASSUME TypeOK, Healed, pc = "top", NEW first,
         NEW heard \in Hearing, Broadcast(heard, first)
  PROVE  /\ input' = << >> /\ turn' = {first} \cap Real
         /\ \A b \in Real : synced'[b]
<1>1. heard = Real /\ input = << >> /\ turn = {}
  BY Quiet DEF Healed
<1>2. \A b \in Real : synced[b]
  BY DEF Healed
<1>3. Outdated = << >>
  BY <1>1 DEF Outdated
<1> QED
  BY <1>1, <1>2, <1>3 DEF Broadcast

LEMMA PollStaysHealed ==
  ASSUME TypeOK, Healed, NEW refresh \in BOOLEAN, Poll(refresh) PROVE Healed'
<1>1. /\ pc = "top" /\ pc' = "chain" /\ expected' = Chain[1] /\ hops' = 0
      /\ success' = TRUE /\ UNCHANGED << need, view, sw, noisy >>
  BY DEF Poll
<1>2. PICK heard \in Hearing : Broadcast(heard, Chain[1])
  BY DEF Poll
<1>3. /\ input' = << >> /\ turn' = {Chain[1]} \cap Real
      /\ \A b \in Real : synced'[b]
  BY <1>1, <1>2, HostFrame
<1>4. Place(expected') = 1 /\ Len(input') = 0 /\ DOMAIN input' = {}
  BY <1>1, <1>3, FirstPlace
<1>5. turn' = {b \in Real : Place(b) = 1}
  BY <1>3, FirstPlace DEF Real
<1>6. InLine'
  BY <1>1, <1>4, <1>5 DEF InLine
<1> QED
  BY <1>1, <1>3, <1>6 DEF Healed

\* The turn of a virtual board: no reply can be waiting.
LEMMA VirtualStaysHealed ==
  ASSUME TypeOK, Healed, SendVirtualSwitchReply PROVE Healed'
<1>1. /\ pc = "chain" /\ pc' = "chain" /\ expected \in Boards
      /\ expected \notin Real /\ expected' = NextBoard(expected)
      /\ hops' = hops + 1
      /\ UNCHANGED << success, need, view, input, synced, sw, noisy >>
  BY ChainAssumption DEF SendVirtualSwitchReply, Awaiting, TypeOK, Real
<1>2. InLine /\ ~noisy
  BY <1>1 DEF Healed
<1>3. Place(expected') = Place(expected) + 1 /\ expected' \in Boards \cup {None}
  BY <1>1, NextPlace
<1>4. \A b \in Real : Place(b) # Place(expected)
  BY <1>1, FirstPlace DEF Real
<1>5. Len(input) = 0 /\ DOMAIN input = {}
  <2>1. ASSUME 1 \in DOMAIN input PROVE FALSE
    <3>1. Place(input[1].from) = Place(expected) + (1 - 1) /\ input[1].from \in Real
      BY <1>2, <2>1, LineTypes DEF InLine
    <3> QED
      BY <1>4, <3>1, LineTypes
  <2> QED
    BY <2>1, LineTypes
<1>6. turn = {}
  BY <1>2, <1>4, <1>5, LineTypes DEF InLine
<1>7. turn' = {NextBoard(expected)} \cap Real
  BY <1>2, <1>6, Quiet DEF SendVirtualSwitchReply
<1>8. turn' = {b \in Real : Place(b) = Place(expected')}
  BY <1>1, <1>3, <1>7, FirstPlace DEF Real
<1>9. turn' = {b \in Real : Place(b) = Place(expected') + Len(input')}
  BY <1>1, <1>5, <1>3, <1>8, LineTypes
<1>10. hops' + 1 = Place(expected')
  BY <1>1, <1>2, <1>3 DEF InLine
<1>11. InLine'
  BY <1>1, <1>2, <1>5, <1>9, <1>10 DEF InLine
<1> QED
  BY <1>1, <1>11 DEF Healed

\* A reply is taken for what it is, and says what the host knows or should.
LEMMA ReceiveStaysHealed ==
  ASSUME TypeOK, Healed, ReceiveReply PROVE Healed'
<1> DEFINE reply == Head(input)
<1>1. /\ input # << >> /\ DOMAIN input = 1..Len(input) /\ Len(input) \in Nat
      /\ input' = Tail(input) /\ Len(input') = Len(input) - 1
      /\ DOMAIN input' = 1..(Len(input) - 1)
      /\ \A i \in DOMAIN input' : input'[i] = input[i + 1]
      /\ reply = input[1] /\ reply \in Replies
  BY DEF ReceiveReply, TypeOK
<1>2. /\ pc = "chain" /\ pc' = "chain" /\ success' = success /\ expected \in Real
      /\ expected' = NextBoard(reply.from) /\ hops' = hops + 1
      /\ need' = (need \/ ~reply.ok)
      /\ ApplySwitchBitmapDiff(expected, reply)
      /\ UNCHANGED << synced, turn, sw, noisy >>
  BY DEF ReceiveReply, Awaiting
<1>3. InLine /\ ~need /\ view = sw
  BY <1>2 DEF Healed
<1>4. 1 \in DOMAIN input
  BY <1>1
<1> HIDE DEF reply
<1>5. reply.ok /\ reply.value = sw[reply.from] /\ reply.from = expected
  <2>1. Place(reply.from) = Place(expected) + (1 - 1)
    BY <1>1, <1>3, <1>4 DEF InLine
  <2>2. reply.from \in Boards /\ expected \in Boards
    BY <1>1, <1>2 DEF Replies, Real
  <2>3. reply.from = expected
    BY <2>1, <2>2, FirstPlace
  <2> QED
    BY <1>1, <1>3, <1>4, <2>3 DEF InLine
<1>6. view' = view
  <2>1. view \in [Real -> BOOLEAN]
    BY DEF TypeOK
  <2> QED
    BY <1>2, <1>3, <1>5, <2>1 DEF ApplySwitchBitmapDiff
<1>7. Place(expected') = Place(expected) + 1 /\ Place(expected) \in Nat
  BY <1>2, <1>5, NextPlace, LineTypes DEF Real
<1>8. ASSUME NEW i \in DOMAIN input'
      PROVE  /\ input'[i].ok /\ input'[i].intact
             /\ input'[i].value = sw[input'[i].from]
             /\ Place(input'[i].from) = Place(expected') + (i - 1)
  <2>1. i + 1 \in DOMAIN input /\ input'[i] = input[i + 1] /\ i \in Nat
    BY <1>1
  <2>2. Place(input[i + 1].from) = Place(expected) + ((i + 1) - 1)
    BY <1>3, <2>1 DEF InLine
  <2> QED
    BY <1>3, <1>7, <2>1, <2>2 DEF InLine
<1>9. Place(expected') + Len(input') = Place(expected) + Len(input)
  BY <1>1, <1>7
<1>10. turn' = {b \in Real : Place(b) = Place(expected') + Len(input')}
  BY <1>2, <1>3, <1>9 DEF InLine
<1>11. hops' + 1 = Place(expected') /\ success'
  BY <1>2, <1>3, <1>7 DEF InLine
<1>12. InLine'
  BY <1>2, <1>8, <1>10, <1>11 DEF InLine
<1>13. ~need' /\ view' = sw'
  BY <1>2, <1>3, <1>5, <1>6
<1> QED
  BY <1>2, <1>12, <1>13 DEF Healed

\* The board at the end of the line takes its turn and hands it on.
LEMMA ReplyStaysHealed ==
  ASSUME TypeOK, Healed, NEW b \in Real, Reply(b) PROVE Healed'
<1>1. /\ b \in turn /\ b \in Boards
      /\ UNCHANGED << pc, expected, hops, success, need, view, synced, sw, noisy >>
  BY DEF Reply, Real
<1>2. pc = "chain"
  BY <1>1 DEF Healed, TypeOK
<1>3. InLine /\ ~noisy /\ synced[b]
  BY <1>2 DEF Healed
<1> DEFINE e == [from |-> b, state |-> dirty[b], value |-> sw[b],
                 ok |-> synced[b], intact |-> TRUE]
<1>4. input' = Append(input, e)
      /\ turn' = (turn \ {b}) \cup ({NextBoard(b)} \cap Real)
  BY <1>3 DEF Reply
<1>5. e \in Replies /\ e.from = b /\ e.ok /\ e.intact /\ e.value = sw[b]
  BY <1>3 DEF Replies, TypeOK
<1> HIDE DEF e
<1>6. PICK n \in Nat : n = Len(input)
  BY LineTypes
<1>7. /\ Len(input') = n + 1 /\ DOMAIN input' = 1..(n + 1)
      /\ input'[n + 1] = e
      /\ \A i \in 1..n : input'[i] = input[i]
  BY <1>4, <1>5, <1>6 DEF TypeOK
<1>8. Place(b) = Place(expected) + n /\ Place(expected) \in Nat
  BY <1>1, <1>3, <1>6, LineTypes DEF InLine
<1>9. ASSUME NEW i \in DOMAIN input'
      PROVE  /\ input'[i].ok /\ input'[i].intact
             /\ input'[i].value = sw[input'[i].from]
             /\ Place(input'[i].from) = Place(expected) + (i - 1)
  <2>1. CASE i \in 1..n
    <3>1. i \in DOMAIN input /\ input'[i] = input[i]
      BY <1>6, <1>7, <2>1, LineTypes
    <3> QED
      BY <1>3, <3>1 DEF InLine
  <2>2. CASE i = n + 1
    <3>1. i - 1 = n /\ input'[i] = e
      BY <1>6, <1>7, <2>2
    <3> QED
      BY <1>5, <1>8, <3>1
  <2> QED
    BY <1>6, <1>7, <2>1, <2>2
<1>10. turn \subseteq {b}
  <2>1. ASSUME NEW c \in turn PROVE c = b
    <3>1. c \in Boards /\ Place(c) = Place(b)
      BY <1>3, <1>6, <1>8, <2>1, LineTypes DEF InLine
    <3> QED
      BY <1>1, <3>1, FirstPlace
  <2> QED
    BY <2>1
<1>11. turn' = {NextBoard(b)} \cap Real
  BY <1>4, <1>10
<1>12. Place(NextBoard(b)) = Place(expected) + (n + 1)
       /\ NextBoard(b) \in Boards \cup {None}
  BY <1>1, <1>6, <1>8, NextPlace
<1>13. turn' = {c \in Real : Place(c) = Place(expected) + (n + 1)}
  BY <1>11, <1>12, FirstPlace DEF Real
<1>14. InLine'
  BY <1>1, <1>3, <1>7, <1>9, <1>13 DEF InLine
<1> QED
  BY <1>1, <1>2, <1>14 DEF Healed

\* A chain of a healed session ends clean, with every reply read.
LEMMA ChainStaysHealed ==
  ASSUME TypeOK, Healed, ChainClean PROVE Healed'
<1>1. /\ pc = "chain" /\ pc' = "top"
      /\ expected = None \/ hops = MaxBoards
      /\ UNCHANGED << need, view, input, synced, turn, sw, noisy >>
  BY DEF ChainClean
<1>2. InLine /\ Len(Chain) \in Nat /\ MaxBoards \in Nat /\ Len(Chain) <= MaxBoards
  BY <1>1, ChainAssumption DEF Healed
<1>3. \A b \in Boards : Place(b) <= Len(Chain)
  BY NextPlace, ChainAssumption
<1>4. Place(None) = Len(Chain) + 1
  BY DEF Place
<1>5. Place(expected) > Len(Chain)
  <2>1. CASE expected = None
    BY <1>2, <1>4, <2>1
  <2>2. CASE hops = MaxBoards
    BY <1>2, <2>2 DEF InLine
  <2> QED
    BY <1>1, <2>1, <2>2
<1>6. \A b \in Real : Place(b) < Place(expected)
  BY <1>2, <1>3, <1>5, LineTypes
<1>7. turn = {}
  <2> SUFFICES ASSUME NEW b \in turn PROVE FALSE
    OBVIOUS
  <2>1. b \in Real /\ Place(b) = Place(expected) + Len(input)
    BY <1>2 DEF InLine
  <2> QED
    BY <1>6, <2>1, LineTypes
<1>8. input = << >>
  <2>1. ASSUME 1 \in DOMAIN input PROVE FALSE
    <3>1. Place(input[1].from) = Place(expected) + (1 - 1) /\ input[1].from \in Real
      BY <1>2, <2>1, LineTypes DEF InLine
    <3> QED
      BY <1>6, <3>1, LineTypes
  <2>2. Len(input) = 0
    BY <2>1, LineTypes
  <2> QED
    BY <2>2 DEF TypeOK
<1> QED
  BY <1>1, <1>7, <1>8 DEF Healed

\* Nothing goes wrong in a chain of a healed session.
LEMMA NothingGoesWrong ==
  ASSUME TypeOK, Healed
  PROVE  /\ ~ResyncSession /\ ~ResyncFails /\ ~PollFails /\ ~VirtualReplyFails
         /\ ~ReceiveDamaged /\ ~ReplyTimeout /\ ~ChainMissed /\ ~BusQuiet
         /\ \A b \in Real : ~SwitchChanges(b)
<1>1. ~noisy /\ ~need /\ (pc = "chain" => InLine)
  BY DEF Healed
<1>2. ASSUME ReceiveDamaged PROVE FALSE
  <2>1. pc = "chain" /\ input # << >> /\ ~Head(input).intact
    BY <1>2 DEF ReceiveDamaged, Awaiting
  <2>2. 1 \in DOMAIN input /\ Head(input) = input[1]
    BY <2>1 DEF TypeOK
  <2> QED
    BY <1>1, <2>1, <2>2 DEF InLine
<1>3. ASSUME ReplyTimeout PROVE FALSE
  <2>1. pc = "chain" /\ expected \in Real /\ Len(input) = 0 /\ turn = {}
    BY <1>1, <1>3 DEF ReplyTimeout, Awaiting
  <2>2. Place(expected) = Place(expected) + Len(input)
    BY <2>1, LineTypes
  <2>3. expected \in turn
    BY <1>1, <2>1, <2>2 DEF InLine
  <2> QED
    BY <2>1, <2>3
<1>4. ~ChainMissed
  BY <1>1 DEF ChainMissed, InLine
<1> QED
  BY <1>1, <1>2, <1>3, <1>4
  DEF ResyncSession, ResyncFails, PollFails, VirtualReplyFails, BusQuiet,
      SwitchChanges

LEMMA HealedInductive ==
  ASSUME TypeOK, Healed, [Next]_vars PROVE Healed'
<1>1. CASE HoldFrame \/ TriggerFrame
  <2>1. /\ pc = "top" /\ UNCHANGED << pc, need, view, sw, noisy >>
        /\ \E heard \in Hearing : Broadcast(heard, None)
    BY <1>1 DEF HoldFrame, TriggerFrame
  <2>2. input' = << >> /\ turn' = {None} \cap Real /\ \A b \in Real : synced'[b]
    BY <2>1, HostFrame
  <2>3. turn' = {}
    BY <2>2, ChainAssumption DEF Real
  <2> QED
    BY <2>1, <2>2, <2>3 DEF Healed
<1>2. CASE HoldOver
  BY <1>2 DEF HoldOver, Healed
<1>3. ASSUME NEW refresh \in BOOLEAN, Poll(refresh) PROVE Healed'
  BY <1>3, PollStaysHealed
<1>4. ASSUME NEW b \in Real, Reply(b) PROVE Healed'
  BY <1>4, ReplyStaysHealed
<1>5. CASE UNCHANGED vars
  BY <1>5 DEF Healed, InLine
<1> QED
  BY <1>1, <1>2, <1>3, <1>4, <1>5, NothingGoesWrong, VirtualStaysHealed,
     ReceiveStaysHealed, ChainStaysHealed DEF Next, HostStep

\* What has healed stays healed, for any chain with any virtual boards in it:
\* once the bus is quiet, no chain of a healed session misses a reply, asks for a
\* resync or puts a switch back to an old state.
THEOREM HealedSessionStays == Spec => [][Healed => Healed']_vars
<1>1. TypeOK /\ [Next]_vars => [Healed => Healed']_vars
  BY HealedInductive
<1> QED
  BY <1>1, TypeInit, TypeInductive, PTL DEF Spec
=============================================================================
