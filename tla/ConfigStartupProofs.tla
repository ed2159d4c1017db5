------------------------- MODULE ConfigStartupProofs -------------------------
(***************************************************************************)
(* The startup for any configuration, with any number of attempts and any  *)
(* threshold: when the runtime starts, the configuration has been applied. *)
(***************************************************************************)
EXTENDS ConfigStartup, SequenceTheorems, FiniteSetTheorems, TLAPS

\* Where in the list each phase of the startup stands.
PhaseInv ==
  /\ pc = "idle" => i = 1
  /\ pc \in {"event", "write", "await", "spent"} => i \in DOMAIN Frames
  /\ pc \in {"write", "await", "spent"} => Board \notin Skipped
  /\ pc = "finalize" => i = Len(Script) + 1
  /\ pc \in {"setup", "running"} => i = Len(Frames) + 1
  /\ pc = "running" => ~failed

\* Nothing of the frames behind is missing.
ProgressInv ==
  \A j \in 1..(i - 1) :
    Frames[j].board \notin Skipped => j \in applied /\ Frames[j].board \in present

\* A frame, or the answer to it, that may still be under way: the one at hand
\* or the last one before it that went to the same board.
Recent(j) ==
  /\ j \in DOMAIN Frames /\ j <= i
  /\ Frames[j].board \notin Skipped
  /\ \A n \in (j + 1)..(i - 1) : Frames[n].board # Frames[j].board

FlightInv ==
  /\ \A p \in DOMAIN input :
       /\ Recent(input[p].frame)
       /\ input[p].accepted => input[p].frame \in applied
  /\ \A b \in Boards : \A p \in DOMAIN heard[b] :
       Recent(heard[b][p]) /\ Frames[heard[b][p]].board = b

\* What is under way from one board is in the order it was sent.
OrderInv ==
  /\ \A p, q \in DOMAIN input :
       p < q /\ Frames[input[p].frame].board = Frames[input[q].frame].board
       => input[p].frame <= input[q].frame
  /\ \A p \in DOMAIN input : \A b \in Boards : \A q \in DOMAIN heard[b] :
       Frames[input[p].frame].board = b => input[p].frame <= heard[b][q]
  /\ \A b \in Boards : \A p, q \in DOMAIN heard[b] :
       p < q => heard[b][p] <= heard[b][q]

ApplyInv == ~failed /\ ~rejected => ProgressInv /\ FlightInv /\ OrderInv

USE DEF States, misses, outcome, bus, vars

----------------------------------------------------------------------------
(* The list of frames.                                                     *)

\* Two frames go to every board of the chain.
LEMMA Halved ==
  ASSUME NEW n \in Nat, NEW j \in 1..(2 * n) PROVE (j + 1) \div 2 \in 1..n
<1>1. j \in Int /\ j >= 1 /\ j <= 2 * n
  OBVIOUS
<1>2. PICK k \in Int : k = (j + 1) \div 2
  OBVIOUS
<1>3. 2 * k <= j + 1 /\ j + 1 < 2 * k + 2
  BY <1>1, <1>2, SMT
<1> QED BY <1>1, <1>2, <1>3

\* A sequence is empty when its length is zero.
LEMMA Emptiness ==
  ASSUME NEW S, NEW s \in Seq(S) PROVE s = << >> <=> Len(s) = 0
<1>1. ASSUME Len(s) = 0 PROVE s = << >>
  BY <1>1
<1>2. Len(<< >>) = 0
  OBVIOUS
<1> QED BY <1>1, <1>2

\* The head and the tail of a sequence.
LEMMA TailFacts ==
  ASSUME NEW S, NEW s \in Seq(S), s # << >>
  PROVE  /\ Head(s) = s[1] /\ Head(s) \in S /\ Tail(s) \in Seq(S)
         /\ 1 \in DOMAIN s
         /\ \A p \in DOMAIN Tail(s) : p + 1 \in DOMAIN s /\ Tail(s)[p] = s[p + 1]
         /\ DOMAIN Tail(s) \subseteq Nat
OBVIOUS

\* One more element.
LEMMA AppendFacts ==
  ASSUME NEW S, NEW s \in Seq(S), NEW e \in S
  PROVE  /\ Append(s, e) \in Seq(S)
         /\ DOMAIN s \subseteq Nat
         /\ \A p \in DOMAIN Append(s, e) :
              \/ p \in DOMAIN s /\ Append(s, e)[p] = s[p]
              \/ p = Len(s) + 1 /\ Append(s, e)[p] = e
         /\ \A p \in DOMAIN s : p < Len(s) + 1
OBVIOUS

\* The frames of the chain follow those of the boards' own configuration.
LEMMA FrameFacts ==
  /\ Len(Script) \in Nat /\ Len(Frames) \in Nat /\ Len(Script) <= Len(Frames)
  /\ DOMAIN Frames = 1..Len(Frames) /\ DOMAIN Script = 1..Len(Script)
  /\ \A j \in DOMAIN Frames : Frames[j].board \in Boards
  /\ \A j \in DOMAIN Script : Frames[j] = Script[j]
  /\ ChainScript = << >> <=> Len(Frames) = Len(Script)
  /\ Script = << >> <=> Len(Script) = 0
<1> DEFINE K == STRING \cup {"next", "delay"}
           Item == [board : Boards, key : K]
           M == Len(SwitchBoards)
<1>1. M \in Nat /\ \A k \in 1..M : SwitchBoards[k] \in Boards
  BY BoardsAssumption
<1>2. ChainScript \in Seq(Item)
  <2>1. ASSUME NEW j \in 1..(2 * M) PROVE ChainScript[j] \in Item
    <3>1. SwitchBoards[(j + 1) \div 2] \in Boards
      BY <1>1, Halved
    <3>2. (IF j % 2 = 1 THEN "next" ELSE "delay") \in K
      OBVIOUS
    <3>3. ChainScript[j] = [board |-> SwitchBoards[(j + 1) \div 2],
                            key |-> IF j % 2 = 1 THEN "next" ELSE "delay"]
      BY DEF ChainScript
    <3>4. ASSUME NEW b \in Boards, NEW k \in K
          PROVE  [board |-> b, key |-> k] \in Item
      OBVIOUS
    <3> HIDE DEF Item, K
    <3> QED BY <3>1, <3>2, <3>3, <3>4, Zenon
  <2>2. ChainScript = [j \in 1..(2 * M) |-> ChainScript[j]]
    BY DEF ChainScript
  <2>3. 2 * M \in Nat
    BY <1>1
  <2> HIDE DEF M, Item, K
  <2>4. ChainScript \in [1..(2 * M) -> Item]
    BY <2>1, <2>2, Zenon
  <2> QED BY <2>3, <2>4, SMT
<1>3. Script \in Seq(Item)
  <2>1. Script \in Seq([board : Boards, key : STRING])
    BY BoardsAssumption
  <2>2. [board : Boards, key : STRING] \subseteq Item
    OBVIOUS
  <2> HIDE DEF Item
  <2> QED BY <2>1, <2>2, SeqMonotonic
<1>4. ASSUME NEW e \in Item PROVE e.board \in Boards
  OBVIOUS
<1> HIDE DEF Item, M, K
<1>5. /\ Frames \in Seq(Item)
      /\ Len(Frames) = Len(Script) + Len(ChainScript)
      /\ \A j \in 1..Len(Script) : Frames[j] = Script[j]
  BY <1>2, <1>3 DEF Frames
<1>6. /\ Len(Script) \in Nat /\ Len(ChainScript) \in Nat /\ Len(Frames) \in Nat
      /\ DOMAIN Script = 1..Len(Script) /\ DOMAIN Frames = 1..Len(Frames)
  BY <1>2, <1>3, <1>5
<1>7. \A j \in DOMAIN Frames : Frames[j].board \in Boards
  <2>1. \A j \in DOMAIN Frames : Frames[j] \in Item
    BY <1>5
  <2> QED BY <2>1, <1>4
<1>8. ChainScript = << >> <=> Len(ChainScript) = 0
  BY <1>2, Emptiness
<1>9. Script = << >> <=> Len(Script) = 0
  BY <1>3, Emptiness
<1>10. /\ Len(Script) <= Len(Frames)
       /\ Len(ChainScript) = 0 <=> Len(Frames) = Len(Script)
  <2>1. Len(Frames) = Len(Script) + Len(ChainScript)
    BY <1>5
  <2>2. Len(Script) <= Len(Frames)
    BY <1>6, <2>1
  <2>3. Len(ChainScript) = 0 => Len(Frames) = Len(Script)
    BY <1>6, <2>1
  <2>4. Len(Frames) = Len(Script) => Len(ChainScript) = 0
    BY <1>6, <2>1
  <2> QED BY <2>2, <2>3, <2>4
<1>11. \A j \in DOMAIN Script : Frames[j] = Script[j]
  BY <1>5, <1>6
<1> QED BY <1>6, <1>7, <1>8, <1>9, <1>10, <1>11

LEMMA PlacesAreNumbers == DOMAIN Frames \subseteq Nat
<1>1. DOMAIN Frames = 1..Len(Frames) /\ Len(Frames) \in Nat
  BY FrameFacts
<1> QED BY <1>1

----------------------------------------------------------------------------
(* Types and phases.                                                       *)

TypeInv == TypeOK /\ PhaseInv

\* Where the startup goes after frame i is where the list has it go.
LEMMA NextFrameFacts ==
  ASSUME TypeOK, i \in DOMAIN Frames, NextFrame
  PROVE  /\ i \in Nat /\ i' = i + 1 /\ i' \in 1..(Len(Frames) + 1)
         /\ attempt' = 0 /\ attempt' \in 0..(Retries - 1)
         /\ \/ pc' = "event" /\ i' \in DOMAIN Frames
            \/ pc' = "finalize" /\ i' = Len(Script) + 1
            \/ pc' = "setup" /\ i' = Len(Frames) + 1
<1>1. i \in 1..Len(Frames) /\ Len(Frames) \in Nat /\ i' = i + 1 /\ attempt' = 0
  BY FrameFacts DEF NextFrame
<1>2. i \in Nat /\ i' \in 1..(Len(Frames) + 1)
  BY <1>1
<1>3. attempt' \in 0..(Retries - 1)
  BY <1>1, LimitAssumption
<1>4. CASE i = Len(Script)
  <2>1. pc' = "finalize"
    BY <1>4 DEF NextFrame
  <2> QED BY <1>1, <1>2, <1>3, <1>4, <2>1
<1>5. CASE i # Len(Script) /\ i = Len(Frames)
  <2>1. pc' = "setup"
    BY <1>5 DEF NextFrame
  <2> QED BY <1>1, <1>2, <1>3, <1>5, <2>1
<1>6. CASE i # Len(Script) /\ i # Len(Frames)
  <2>1. pc' = "event"
    BY <1>6 DEF NextFrame
  <2>2. i' \in 1..Len(Frames)
    BY <1>1, <1>6
  <2> QED BY <1>1, <1>2, <1>3, <2>1, <2>2, FrameFacts
<1> QED BY <1>4, <1>5, <1>6

LEMMA TypeInit == Init => TypeInv
<1> SUFFICES ASSUME Init PROVE TypeInv
  OBVIOUS
<1>1. Len(Frames) \in Nat /\ Retries \in Nat \ {0} /\ MissThreshold \in Nat \ {0}
  BY FrameFacts, LimitAssumption
<1>3. TypeOK
  <2>1. pc \in States /\ i \in 1..(Len(Frames) + 1) /\ attempt \in 0..(Retries - 1)
    BY <1>1 DEF Init
  <2>2. /\ present \in SUBSET (Boards \ Skipped) /\ failed \in BOOLEAN
        /\ abortBoard \in Boards \cup {None} /\ virtual \in SUBSET Boards
        /\ applied \in SUBSET DOMAIN Frames /\ givenUp \in SUBSET DOMAIN Frames
    BY DEF Init
  <2>3. /\ streak \in 0..MissThreshold /\ missesBy \in [Boards -> 0..MissThreshold]
    BY <1>1 DEF Init
  <2>4. input \in Seq(Ack) /\ heard \in [Boards -> Seq(DOMAIN Frames)]
    BY DEF Init
  <2>5. rejected \in BOOLEAN
    BY DEF Init
  <2>6. waited \in 0..Window
    BY LimitAssumption DEF Init
  <2> QED BY <2>1, <2>2, <2>3, <2>4, <2>5, <2>6 DEF TypeOK
<1>4. PhaseInv
  BY DEF Init, PhaseInv
<1> QED BY <1>3, <1>4 DEF TypeInv

\* The host's steps keep the types, and the phase fits the place in the list.
LEMMA HostTypes ==
  ASSUME TypeInv, Host PROVE TypeInv'
<1> USE DEF TypeInv
<1>0. /\ Len(Script) \in Nat /\ Len(Frames) \in Nat /\ Len(Script) <= Len(Frames)
      /\ DOMAIN Frames = 1..Len(Frames)
      /\ Retries \in Nat \ {0} /\ MissThreshold \in Nat \ {0}
  BY FrameFacts, LimitAssumption
<1>b. i \in DOMAIN Frames => Board \in Boards
  BY FrameFacts DEF Board
<1>1. CASE Restart
  <2>1. TypeOK' BY <1>1 DEF Restart, TypeOK
  <2>2. i' = 1 /\ UNCHANGED failed
    BY <1>1 DEF Restart, PhaseInv
  <2>3. CASE Script = << >>
    <3>1. Len(Script) = 0 /\ pc' \in {"finalize", "failed"}
      BY <1>1, <2>3, FrameFacts DEF Restart
    <3> QED BY <2>1, <2>2, <3>1 DEF PhaseInv
  <2>4. CASE Script # << >>
    <3>1. Len(Script) # 0 /\ pc' \in {"event", "failed"}
      BY <1>1, <2>4, FrameFacts DEF Restart
    <3>2. 1 \in DOMAIN Frames
      BY <1>0, <3>1
    <3> QED BY <2>1, <2>2, <3>1, <3>2 DEF PhaseInv
  <2> QED BY <2>3, <2>4
<1>2. CASE Abandon
  BY <1>2 DEF Abandon, TypeOK, PhaseInv
<1>3. CASE BeginFrame
  <2>1. i \in DOMAIN Frames BY <1>3 DEF BeginFrame, PhaseInv
  <2>2. CASE NextFrame
    <3>1. TypeOK' BY <1>3, <2>1, <2>2, NextFrameFacts DEF BeginFrame, TypeOK
    <3>2. PhaseInv' BY <1>3, <2>1, <2>2, NextFrameFacts, <1>0 DEF BeginFrame, PhaseInv
    <3> QED BY <3>1, <3>2
  <2>3. CASE Board \notin Skipped /\ pc' = "write" /\ UNCHANGED << i, attempt >>
    BY <1>3, <2>1, <2>3 DEF BeginFrame, TypeOK, PhaseInv, Board
  <2> QED BY <1>3, <2>2, <2>3 DEF BeginFrame
<1>4. CASE WriteFrame
  <2>1. i \in DOMAIN Frames BY <1>4 DEF WriteFrame, PhaseInv
  <2>2. heard \in [Boards -> Seq(DOMAIN Frames)]
    BY DEF TypeOK
  <2>3. Board \in Boards => Append(heard[Board], i) \in Seq(DOMAIN Frames)
    BY <2>1, <2>2, AppendFacts
  <2>4. heard' \in [Boards -> Seq(DOMAIN Frames)]
    BY <1>4, <2>2, <2>3 DEF WriteFrame
  <2>5. waited' \in 0..Window
    BY <1>4, LimitAssumption DEF WriteFrame
  <2> QED BY <1>4, <2>1, <2>4, <2>5 DEF WriteFrame, TypeOK, PhaseInv, Board
<1>5. CASE WriteFails
  <2>1. i \in DOMAIN Frames BY <1>5 DEF WriteFails, PhaseInv
  <2>2. NextFrame BY <1>5 DEF WriteFails
  <2>3. TypeOK' BY <1>5, <2>1, <2>2, NextFrameFacts DEF WriteFails, TypeOK
  <2>4. PhaseInv' BY <1>5, <2>1, <2>2, NextFrameFacts, <1>0 DEF WriteFails, PhaseInv
  <2> QED BY <2>3, <2>4
<1>6. CASE ReceiveAck
  <2>1. i \in DOMAIN Frames /\ Board \notin Skipped
    BY <1>6 DEF ReceiveAck, PhaseInv
  <2>2. input' \in Seq(Ack)
    BY <1>6, TailFacts DEF ReceiveAck, TypeOK
  <2>3. CASE UNCHANGED << pc, i, attempt, outcome >>
    BY <1>6, <2>2, <2>3 DEF ReceiveAck, TypeOK, PhaseInv, Board
  <2>4. CASE pc' = "spent" /\ UNCHANGED << i, attempt, outcome >>
    BY <1>6, <2>1, <2>2, <2>4 DEF ReceiveAck, TypeOK, PhaseInv, Board
  <2>5. CASE /\ NextFrame
             /\ streak' = 0
             /\ missesBy' = IF Board \in Counted
                            THEN [missesBy EXCEPT ![Board] = 0] ELSE missesBy
             /\ present' = present \cup {Board}
             /\ UNCHANGED << failed, abortBoard, virtual >>
    <3>1. present' \in SUBSET (Boards \ Skipped)
      BY <2>1, <2>5, <1>b DEF TypeOK
    <3>2. streak' \in 0..MissThreshold /\ missesBy' \in [Boards -> 0..MissThreshold]
      <4>1. missesBy \in [Boards -> 0..MissThreshold] /\ 0 \in 0..MissThreshold
        BY <1>0 DEF TypeOK
      <4> QED BY <2>5, <4>1
    <3>3. TypeOK'
      BY <1>6, <2>1, <2>2, <2>5, <3>1, <3>2, NextFrameFacts DEF ReceiveAck, TypeOK
    <3>4. PhaseInv'
      BY <1>6, <2>1, <2>5, NextFrameFacts, <1>0 DEF ReceiveAck, PhaseInv
    <3> QED BY <3>3, <3>4
  <2> QED BY <1>6, <2>3, <2>4, <2>5 DEF ReceiveAck
<1>7. CASE AckTimeout
  BY <1>7 DEF AckTimeout, TypeOK, PhaseInv, Board
<1>8. CASE ReceiveStray
  <2>1. waited' \in 0..Window
    BY <1>8, LimitAssumption DEF ReceiveStray, TypeOK
  <2> QED BY <1>8, <2>1 DEF ReceiveStray, TypeOK, PhaseInv, Board
<1>9. CASE Retry
  <2>1. attempt' \in 0..(Retries - 1)
    BY <1>9, <1>0 DEF Retry, TypeOK
  <2>2. input' \in Seq(Ack)
    BY <1>9 DEF Retry
  <2> QED BY <1>9, <2>1, <2>2 DEF Retry, TypeOK, PhaseInv, Board
<1>10. CASE GiveUp
  <2>1. i \in DOMAIN Frames /\ Board \in Boards
    BY <1>10, <1>b DEF GiveUp, PhaseInv
  <2>2. NextFrame BY <1>10 DEF GiveUp
  <2>3. streak' \in 0..MissThreshold
    BY <1>10, <1>0 DEF GiveUp, TypeOK
  <2>4. missesBy' \in [Boards -> 0..MissThreshold]
    <3>1. missesBy \in [Boards -> 0..MissThreshold]
          /\ missesBy[Board] \in 0..MissThreshold
      BY <2>1 DEF TypeOK
    <3>2. missesBy[Board] < MissThreshold => missesBy[Board] + 1 \in 0..MissThreshold
      BY <3>1, <1>0
    <3> QED BY <1>10, <2>1, <3>1, <3>2 DEF GiveUp, BlameBoard
  <2>5. abortBoard' \in Boards \cup {None}
    BY <1>10, <2>1 DEF GiveUp, BlameBoard, TypeOK
  <2>6. input' \in Seq(Ack) /\ givenUp' \in SUBSET DOMAIN Frames /\ failed' \in BOOLEAN
    BY <1>10, <2>1 DEF GiveUp, TypeOK
  <2>7. TypeOK'
    BY <1>10, <2>1, <2>2, <2>3, <2>4, <2>5, <2>6, NextFrameFacts DEF GiveUp, TypeOK
  <2>8. PhaseInv'
    BY <1>10, <2>1, <2>2, NextFrameFacts, <1>0 DEF GiveUp, PhaseInv
  <2> QED BY <2>7, <2>8
<1>11. CASE Finalize
  <2>1. TypeOK' BY <1>11 DEF Finalize, TypeOK
  <2>2. i' = Len(Script) + 1 /\ UNCHANGED failed
    BY <1>11 DEF Finalize, PhaseInv
  <2>3. CASE ChainScript = << >>
    <3>1. Len(Frames) = Len(Script) /\ pc' = "setup"
      BY <1>11, <2>3, FrameFacts DEF Finalize
    <3> QED BY <2>1, <2>2, <3>1 DEF PhaseInv
  <2>4. CASE ChainScript # << >>
    <3>1. Len(Frames) # Len(Script) /\ pc' = "event"
      BY <1>11, <2>4, FrameFacts DEF Finalize
    <3>2. Len(Script) + 1 \in DOMAIN Frames
      BY <1>0, <3>1
    <3> QED BY <2>1, <2>2, <3>1, <3>2 DEF PhaseInv
  <2> QED BY <2>3, <2>4
<1>12. CASE Setup
  BY <1>12 DEF Setup, TypeOK, PhaseInv
<1> QED BY <1>1, <1>2, <1>3, <1>4, <1>5, <1>6, <1>7, <1>8, <1>9, <1>10, <1>11,
           <1>12 DEF Host

\* A board's step.
LEMMA BoardTypes ==
  ASSUME TypeInv, NEW b \in Boards, BoardAnswers(b) PROVE TypeInv'
<1> USE DEF TypeInv
<1>1. heard[b] \in Seq(DOMAIN Frames) /\ heard[b] # << >>
  BY DEF BoardAnswers, TypeOK
<1>2. Head(heard[b]) \in DOMAIN Frames /\ Tail(heard[b]) \in Seq(DOMAIN Frames)
  BY <1>1, TailFacts
<1>3. heard' \in [Boards -> Seq(DOMAIN Frames)]
  BY <1>2 DEF BoardAnswers, TypeOK
<1>4. applied' \in SUBSET DOMAIN Frames
  BY <1>2 DEF BoardAnswers, TypeOK
<1>5. input' \in Seq(Ack)
  <2>1. PICK accepted \in BOOLEAN :
          \/ input' = input
          \/ input' = Append(input, [frame |-> Head(heard[b]), accepted |-> accepted])
    BY DEF BoardAnswers
  <2>2. [frame |-> Head(heard[b]), accepted |-> accepted] \in Ack
    BY <1>2 DEF Ack
  <2>3. input \in Seq(Ack)
    BY DEF TypeOK
  <2> QED BY <2>1, <2>2, <2>3, AppendFacts
<1> QED BY <1>3, <1>4, <1>5 DEF BoardAnswers, TypeOK, PhaseInv, Board

LEMMA TypeInductive == TypeInv /\ [Next]_vars => TypeInv'
<1>1. ASSUME TypeInv, UNCHANGED vars PROVE TypeInv'
  BY <1>1 DEF TypeInv, TypeOK, PhaseInv, Board
<1> QED BY <1>1, HostTypes, BoardTypes DEF Next

\* Every variable keeps its type, for any configuration and any limits.
THEOREM TypeCorrect == Spec => []TypeOK
<1>1. TypeInv => TypeOK
  BY DEF TypeInv
<1> QED BY <1>1, TypeInit, TypeInductive, PTL DEF Spec

----------------------------------------------------------------------------
(* What was applied.                                                       *)

\* Moving on to the next frame leaves the frames under way recent, unless one
\* of them went to the board of the frame now behind.
LEMMA RecentMoves ==
  ASSUME TypeInv, i \in DOMAIN Frames, i' = i + 1, NEW j \in DOMAIN Frames, Recent(j),
         Frames[j].board = Board => j = i
  PROVE  Recent(j)'
<1>1. i \in Nat /\ j \in Nat /\ j <= i
  BY PlacesAreNumbers DEF Recent
<1>2. j <= i'
  BY <1>1
<1>3. ASSUME NEW n \in (j + 1)..(i' - 1) PROVE Frames[n].board # Frames[j].board
  <2>1. CASE n = i
    BY <1>1, <1>3, <2>1 DEF Board
  <2>2. CASE n # i
    BY <1>1, <1>3, <2>2 DEF Recent
  <2> QED BY <2>1, <2>2
<1> QED BY <1>2, <1>3 DEF Recent

\* A step to the next frame with the one behind skipped or applied.
LEMMA ProgressMoves ==
  ASSUME TypeInv, ProgressInv, i \in DOMAIN Frames, i' = i + 1,
         applied \subseteq applied', present \subseteq present',
         Board \notin Skipped => i \in applied' /\ Board \in present'
  PROVE  ProgressInv'
<1>1. i \in Nat
  BY PlacesAreNumbers
<1> SUFFICES ASSUME NEW j \in 1..(i' - 1), Frames[j].board \notin Skipped
             PROVE  j \in applied' /\ Frames[j].board \in present'
  BY DEF ProgressInv
<1>2. CASE j = i
  BY <1>2 DEF Board
<1>3. CASE j # i
  <2>1. j \in 1..(i - 1)
    BY <1>1, <1>3
  <2> QED BY <2>1 DEF ProgressInv
<1> QED BY <1>2, <1>3

\* Past the boards' own configuration nothing is missing of it, so every board
\* that is not skipped is present.
LEMMA AllPresent ==
  ASSUME TypeInv, ProgressInv, i > Len(Script) PROVE present = Boards \ Skipped
<1>1. i \in Nat
  <2>1. i \in 1..(Len(Frames) + 1)
    BY DEF TypeInv, TypeOK
  <2>2. Len(Frames) \in Nat
    BY FrameFacts
  <2> QED BY <2>1, <2>2
<1>s. Len(Script) \in Nat /\ DOMAIN Script = 1..Len(Script)
  BY FrameFacts
<1>2. ASSUME NEW b \in Boards \ Skipped PROVE b \in present
  <2>1. PICK j \in DOMAIN Script : Script[j].board = b
    BY ScriptAssumption
  <2>2. j \in 1..(i - 1)
    BY <1>1, <1>s
  <2>3. Frames[j] = Script[j]
    BY FrameFacts
  <2> QED BY <2>1, <2>2, <2>3 DEF ProgressInv
<1> QED BY <1>2 DEF TypeInv, TypeOK

\* A frame under way to a board that is answered for the frame at hand is that
\* frame: the keys of the frames next to each other differ.
LEMMA MatchIsExact ==
  ASSUME i \in DOMAIN Frames, NEW j, Recent(j),
         Frames[j].board = Board, Frames[j].key = Frames[i].key
  PROVE  j = i
<1>1. j \in DOMAIN Frames /\ j <= i /\ i \in Nat /\ j \in Nat
  BY PlacesAreNumbers DEF Recent
<1>2. ASSUME j < i PROVE FALSE
  BY <1>1, <1>2, ScriptAssumption DEF Recent, Board
<1> QED BY <1>1, <1>2

LEMMA ApplyInit == Init => ApplyInv
  BY DEF Init, ApplyInv, ProgressInv, FlightInv, OrderInv

\* Steps that touch neither the place in the list nor what is under way.
LEMMA ApplyStays ==
  ASSUME TypeInv, ApplyInv,
         UNCHANGED << i, heard, applied, present, failed, rejected >>,
         \/ input' = input
         \/ input' = << >>
         \/ input # << >> /\ input' = Tail(input)
  PROVE  ApplyInv'
<1> SUFFICES ASSUME ~failed, ~rejected PROVE ProgressInv' /\ FlightInv' /\ OrderInv'
  BY DEF ApplyInv
<1>1. ProgressInv /\ FlightInv /\ OrderInv
  BY DEF ApplyInv
<1>2. ProgressInv'
  BY <1>1 DEF ProgressInv
<1>3. CASE input' = input
  BY <1>1, <1>2, <1>3 DEF FlightInv, OrderInv, Recent
<1>4. CASE input' = << >>
  BY <1>1, <1>2, <1>4 DEF FlightInv, OrderInv, Recent
<1>5. CASE input # << >> /\ input' = Tail(input)
  <2>1. /\ DOMAIN input' \subseteq Nat /\ DOMAIN input \subseteq Nat
        /\ \A p \in DOMAIN input' : p + 1 \in DOMAIN input /\ input'[p] = input[p + 1]
    BY <1>5, TailFacts DEF TypeInv, TypeOK
  <2>2. FlightInv'
    BY <1>1, <2>1 DEF FlightInv, Recent
  <2>3. \A p, q \in DOMAIN input' :
          p < q => p + 1 \in DOMAIN input /\ q + 1 \in DOMAIN input /\ p + 1 < q + 1
    BY <2>1
  <2>4. OrderInv'
    <3>1. \A p, q \in DOMAIN input' :
            p < q /\ Frames[input'[p].frame].board = Frames[input'[q].frame].board
            => input'[p].frame <= input'[q].frame
      BY <1>1, <2>1, <2>3 DEF OrderInv
    <3>2. \A p \in DOMAIN input' : \A b \in Boards : \A q \in DOMAIN heard[b] :
            Frames[input'[p].frame].board = b => input'[p].frame <= heard[b][q]
      BY <1>1, <2>1 DEF OrderInv
    <3> QED BY <1>1, <3>1, <3>2 DEF OrderInv
  <2> QED BY <1>2, <2>2, <2>4
<1> QED BY <1>3, <1>4, <1>5

\* SendConfigEvent leaves a frame unsent only for a skipped board; a board of
\* the chain that is not present is skipped as well by then.
LEMMA ApplySkips ==
  ASSUME TypeInv, ApplyInv, BeginFrame, NextFrame PROVE ApplyInv'
<1>1. i \in DOMAIN Frames /\ UNCHANGED << outcome, bus, givenUp, rejected >>
  BY DEF BeginFrame, TypeInv, PhaseInv
<1> SUFFICES ASSUME ~failed, ~rejected PROVE ProgressInv' /\ FlightInv' /\ OrderInv'
  BY <1>1 DEF ApplyInv
<1>2. ProgressInv /\ FlightInv /\ OrderInv /\ i' = i + 1
  BY DEF ApplyInv, NextFrame
<1>3. Board \in Skipped
  <2>1. ASSUME Board \notin Skipped PROVE FALSE
    <3>1. i' # i
      BY <1>1, <1>2, PlacesAreNumbers
    <3>2. i > Len(Script) /\ Board \notin present
      BY <2>1, <3>1 DEF BeginFrame
    <3>3. Board \in Boards
      BY <1>1, FrameFacts DEF Board
    <3> QED BY <1>2, <2>1, <3>2, <3>3, AllPresent
  <2> QED BY <2>1
<1>4. ProgressInv'
  BY <1>1, <1>2, <1>3, ProgressMoves
<1>5. ASSUME NEW j, Recent(j) PROVE Recent(j)'
  BY <1>1, <1>2, <1>3, <1>5, RecentMoves DEF Recent
<1>6. FlightInv'
  BY <1>1, <1>2, <1>5 DEF FlightInv
<1>7. OrderInv'
  BY <1>1, <1>2 DEF OrderInv
<1> QED BY <1>4, <1>6, <1>7

\* An acceptance that matches is the answer to the frame at hand, which its
\* board then applied; all that is still under way from that board is for the
\* same frame.
LEMMA ApplyAccepts ==
  ASSUME TypeInv, ApplyInv, i \in DOMAIN Frames, Board \notin Skipped, NextFrame,
         input # << >>, input' = Tail(input),
         Matches(Head(input)), Head(input).accepted,
         present' = present \cup {Board}, UNCHANGED << failed, rejected, heard, applied >>
  PROVE  ApplyInv'
<1> SUFFICES ASSUME ~failed, ~rejected PROVE ProgressInv' /\ FlightInv' /\ OrderInv'
  BY DEF ApplyInv
<1>1. ProgressInv /\ FlightInv /\ OrderInv /\ i' = i + 1
  BY DEF ApplyInv, NextFrame
<1>2. /\ DOMAIN input' \subseteq Nat /\ 1 \in DOMAIN input /\ Head(input) = input[1]
      /\ \A p \in DOMAIN input' : p + 1 \in DOMAIN input /\ input'[p] = input[p + 1]
  BY TailFacts DEF TypeInv, TypeOK
<1>3. \A p \in DOMAIN input' : p \in Nat /\ 1 < p + 1
  <2>1. \A p \in DOMAIN input' : p # 0
    BY TailFacts DEF TypeInv, TypeOK
  <2> QED BY <1>2, <2>1
<1>4. input[1].frame = i
  BY <1>1, <1>2, MatchIsExact DEF Matches, FlightInv
<1>5. i \in applied
  BY <1>1, <1>2, <1>4 DEF FlightInv
<1>6. ProgressInv'
  BY <1>1, <1>5, ProgressMoves
<1>7. ASSUME NEW j, Recent(j), Frames[j].board = Board => i <= j PROVE Recent(j)'
  <2>1. j \in DOMAIN Frames /\ j <= i /\ i \in Nat /\ j \in Nat
    BY <1>7, PlacesAreNumbers DEF Recent
  <2>2. Frames[j].board = Board => j = i
    BY <1>7, <2>1
  <2> QED BY <1>1, <1>7, <2>1, <2>2, RecentMoves
<1> DEFINE RecentNext(j) ==
             /\ j \in DOMAIN Frames /\ j <= i'
             /\ Frames[j].board \notin Skipped
             /\ \A n \in (j + 1)..(i' - 1) : Frames[n].board # Frames[j].board
<1>n. \A j : Recent(j) /\ (Frames[j].board = Board => i <= j) => RecentNext(j)
  BY <1>7 DEF Recent
<1> HIDE DEF RecentNext
<1>8. \A p \in DOMAIN input' :
        Frames[input'[p].frame].board = Board => i <= input'[p].frame
  BY <1>1, <1>2, <1>3, <1>4 DEF OrderInv, Board
<1>9. \A b \in Boards : \A p \in DOMAIN heard[b] :
        b = Board => i <= heard[b][p]
  BY <1>1, <1>2, <1>4 DEF OrderInv, Board
<1>10. FlightInv'
  <2>1. \A p \in DOMAIN input' :
          /\ Recent(input'[p].frame)
          /\ input'[p].accepted => input'[p].frame \in applied
    BY <1>1, <1>2 DEF FlightInv
  <2>2. \A b \in Boards : \A p \in DOMAIN heard[b] :
          Recent(heard[b][p]) /\ Frames[heard[b][p]].board = b
    BY <1>1 DEF FlightInv
  <2>3. \A p \in DOMAIN input' : RecentNext(input'[p].frame)
    BY <2>1, <1>n, <1>8
  <2>4. \A b \in Boards : \A p \in DOMAIN heard[b] : RecentNext(heard[b][p])
    BY <2>2, <1>n, <1>9
  <2> QED BY <2>1, <2>2, <2>3, <2>4 DEF FlightInv, Recent, RecentNext
<1>11. OrderInv'
  <2>1. \A p, q \in DOMAIN input' :
          p < q => p + 1 \in DOMAIN input /\ q + 1 \in DOMAIN input /\ p + 1 < q + 1
    BY <1>2
  <2> QED BY <1>1, <1>2, <2>1 DEF OrderInv
<1> QED BY <1>6, <1>10, <1>11

\* A frame goes out to a board: it is the last one under way.
LEMMA ApplyWrites ==
  ASSUME TypeInv, ApplyInv, WriteFrame PROVE ApplyInv'
<1>1. i \in DOMAIN Frames /\ i \in Nat /\ Board \notin Skipped /\ Board \in Boards
  BY PlacesAreNumbers, FrameFacts DEF WriteFrame, TypeInv, PhaseInv, Board
<1> SUFFICES ASSUME ~failed, ~rejected, heard' # heard PROVE ProgressInv' /\ FlightInv' /\ OrderInv'
  BY ApplyStays DEF ApplyInv, WriteFrame
<1>2. ProgressInv /\ FlightInv /\ OrderInv
  BY DEF ApplyInv
<1>3. UNCHANGED << i, input, applied, present >>
  BY DEF WriteFrame
<1>4. /\ heard' = [heard EXCEPT ![Board] = Append(heard[Board], i)]
      /\ heard \in [Boards -> Seq(DOMAIN Frames)]
  BY DEF WriteFrame, TypeInv, TypeOK
<1>5. /\ \A b \in Boards : DOMAIN heard[b] \subseteq Nat
      /\ \A b \in Boards \ {Board} : heard'[b] = heard[b]
      /\ \A p \in DOMAIN heard'[Board] :
           \/ p \in DOMAIN heard[Board] /\ heard'[Board][p] = heard[Board][p]
           \/ p = Len(heard[Board]) + 1 /\ heard'[Board][p] = i
      /\ \A p \in DOMAIN heard[Board] : p < Len(heard[Board]) + 1
      /\ Len(heard[Board]) \in Nat
  BY <1>1, <1>4, AppendFacts
<1>6. Recent(i)
  BY <1>1 DEF Recent, Board
<1>7. \A j : Recent(j) => j <= i
  BY DEF Recent
<1>8. ProgressInv'
  BY <1>2, <1>3 DEF ProgressInv
<1>9. FlightInv'
  <2>1. ASSUME NEW b \in Boards, NEW p \in DOMAIN heard'[b]
        PROVE  Recent(heard'[b][p]) /\ Frames[heard'[b][p]].board = b
    BY <1>2, <1>5, <1>6, <2>1 DEF FlightInv, Board
  <2> QED BY <1>2, <1>3, <2>1 DEF FlightInv, Recent
<1>10. OrderInv'
  <2>1. ASSUME NEW b \in Boards, NEW p \in DOMAIN input, NEW q \in DOMAIN heard'[b],
               Frames[input[p].frame].board = b
        PROVE  input[p].frame <= heard'[b][q]
    <3>1. input[p].frame <= i
      BY <1>2, <1>7 DEF FlightInv
    <3> QED BY <1>2, <1>5, <2>1, <3>1 DEF OrderInv
  <2>2. ASSUME NEW b \in Boards, NEW p \in DOMAIN heard'[b], NEW q \in DOMAIN heard'[b],
               p < q
        PROVE  heard'[b][p] <= heard'[b][q]
    <3>1. CASE b # Board
      BY <1>2, <1>5, <2>2, <3>1 DEF OrderInv
    <3>2. CASE b = Board
      <4>1. heard'[b][p] <= i
        BY <1>1, <1>2, <1>5, <1>7, <3>2 DEF FlightInv
      <4>2. CASE heard'[b][q] = i
        BY <4>1, <4>2
      <4>3. CASE q \in DOMAIN heard[b] /\ heard'[b][q] = heard[b][q]
        <5>1. p \in DOMAIN heard[b] /\ heard'[b][p] = heard[b][p]
          BY <1>5, <2>2, <3>2, <4>3
        <5> QED BY <1>2, <2>2, <4>3, <5>1 DEF OrderInv
      <4> QED BY <1>5, <3>2, <4>2, <4>3
    <3> QED BY <3>1, <3>2
  <2> QED BY <1>2, <1>3, <2>1, <2>2 DEF OrderInv
<1> QED BY <1>8, <1>9, <1>10

\* A board takes the first frame it heard; its answer is the last under way.
LEMMA BoardApplies ==
  ASSUME TypeInv, ApplyInv, NEW b \in Boards, BoardAnswers(b) PROVE ApplyInv'
<1> SUFFICES ASSUME ~failed, ~rejected PROVE ProgressInv' /\ FlightInv' /\ OrderInv'
  BY DEF ApplyInv, BoardAnswers
<1> DEFINE j == heard[b][1]
<1>1. ProgressInv /\ FlightInv /\ OrderInv /\ UNCHANGED << i, present >>
  BY DEF ApplyInv, BoardAnswers
<1>2. /\ heard[b] \in Seq(DOMAIN Frames) /\ heard[b] # << >> /\ input \in Seq(Ack)
      /\ heard' = [heard EXCEPT ![b] = Tail(heard[b])]
      /\ heard \in [Boards -> Seq(DOMAIN Frames)]
  BY DEF BoardAnswers, TypeInv, TypeOK
<1>3. /\ Head(heard[b]) = j /\ j \in DOMAIN Frames /\ 1 \in DOMAIN heard[b]
      /\ \A c \in Boards \ {b} : heard'[c] = heard[c]
      /\ DOMAIN heard'[b] \subseteq Nat
      /\ \A p \in DOMAIN heard'[b] :
           p + 1 \in DOMAIN heard[b] /\ heard'[b][p] = heard[b][p + 1]
  BY <1>2, TailFacts
<1>4. \A p \in DOMAIN heard'[b] : 1 < p + 1
  <2>1. \A p \in DOMAIN heard'[b] : p \in Nat /\ p # 0
    BY <1>2
  <2> QED BY <2>1
<1>5. PICK accepted \in BOOLEAN :
        /\ applied' = IF accepted THEN applied \cup {j} ELSE applied
        /\ \/ input' = input
           \/ input' = Append(input, [frame |-> j, accepted |-> accepted])
  BY <1>3 DEF BoardAnswers
<1> DEFINE ack == [frame |-> j, accepted |-> accepted]
<1>6. Recent(j) /\ Frames[j].board = b /\ ack.frame = j /\ (ack.accepted => j \in applied')
  BY <1>1, <1>3, <1>5 DEF FlightInv
<1>7. /\ DOMAIN input \subseteq Nat /\ Len(input) \in Nat
      /\ \A p \in DOMAIN input : p < Len(input) + 1
      /\ \A p \in DOMAIN input' :
           \/ p \in DOMAIN input /\ input'[p] = input[p]
           \/ p = Len(input) + 1 /\ input'[p] = ack
  <2>1. ack \in Ack
    BY <1>3 DEF Ack
  <2>2. input' = input \/ input' = Append(input, ack)
    BY <1>5
  <2>3. input \in Seq(Ack)
    BY <1>2
  <2>4. Len(input) \in Nat
    BY <2>3
  <2> HIDE DEF ack
  <2>5. CASE input' = input
    BY <2>1, <2>3, <2>4, <2>5, AppendFacts
  <2>6. CASE input' = Append(input, ack)
    BY <2>1, <2>3, <2>4, <2>6, AppendFacts
  <2> QED BY <2>2, <2>5, <2>6
<1> HIDE DEF ack, j
<1>8. ProgressInv'
  BY <1>1, <1>5 DEF ProgressInv
<1>9. FlightInv'
  <2>1. ASSUME NEW p \in DOMAIN input'
        PROVE  /\ Recent(input'[p].frame)
               /\ input'[p].accepted => input'[p].frame \in applied'
    BY <1>1, <1>5, <1>6, <1>7 DEF FlightInv
  <2>2. ASSUME NEW c \in Boards, NEW p \in DOMAIN heard'[c]
        PROVE  Recent(heard'[c][p]) /\ Frames[heard'[c][p]].board = c
    <3>1. CASE c = b
      BY <1>1, <1>3, <3>1 DEF FlightInv
    <3>2. CASE c # b
      BY <1>1, <1>3, <3>2 DEF FlightInv
    <3> QED BY <3>1, <3>2
  <2> QED BY <1>1, <2>1, <2>2 DEF FlightInv, Recent
<1>10. OrderInv'
  <2>1. ASSUME NEW c \in Boards, NEW p \in DOMAIN heard'[c], NEW q \in DOMAIN heard'[c],
               p < q
        PROVE  heard'[c][p] <= heard'[c][q]
    <3>1. CASE c = b
      <4>1. p + 1 \in DOMAIN heard[b] /\ q + 1 \in DOMAIN heard[b] /\ p + 1 < q + 1
        BY <1>3, <2>1, <3>1
      <4> QED BY <1>1, <1>3, <3>1, <4>1 DEF OrderInv
    <3>2. CASE c # b
      BY <1>1, <1>3, <2>1, <3>2 DEF OrderInv
    <3> QED BY <3>1, <3>2
  <2>2. ASSUME NEW c \in Boards, NEW p \in DOMAIN input', NEW q \in DOMAIN heard'[c],
               Frames[input'[p].frame].board = c
        PROVE  input'[p].frame <= heard'[c][q]
    <3>1. CASE input'[p] = ack
      <4>1. c = b /\ q + 1 \in DOMAIN heard[b] /\ heard'[c][q] = heard[b][q + 1]
        BY <1>3, <1>6, <2>2, <3>1
      <4> QED BY <1>1, <1>3, <1>4, <1>6, <3>1, <4>1 DEF OrderInv, j
    <3>2. CASE p \in DOMAIN input /\ input'[p] = input[p]
      <4>1. CASE c = b
        BY <1>1, <1>3, <2>2, <3>2, <4>1 DEF OrderInv
      <4>2. CASE c # b
        BY <1>1, <1>3, <2>2, <3>2, <4>2 DEF OrderInv
      <4> QED BY <4>1, <4>2
    <3> QED BY <1>7, <3>1, <3>2
  <2>3. ASSUME NEW p \in DOMAIN input', NEW q \in DOMAIN input', p < q,
               Frames[input'[p].frame].board = Frames[input'[q].frame].board
        PROVE  input'[p].frame <= input'[q].frame
    <3>1. p \in DOMAIN input /\ input'[p] = input[p]
      <4>1. q \in DOMAIN input \/ q = Len(input) + 1
        BY <1>7
      <4>2. p # Len(input) + 1
        BY <1>7, <2>3, <4>1
      <4> QED BY <1>7, <4>2
    <3>2. CASE q \in DOMAIN input /\ input'[q] = input[q]
      BY <1>1, <2>3, <3>1, <3>2 DEF OrderInv
    <3>3. CASE input'[q] = ack
      BY <1>1, <1>3, <1>6, <2>3, <3>1, <3>3 DEF OrderInv, j
    <3> QED BY <1>7, <3>2, <3>3
  <2> QED BY <2>1, <2>2, <2>3 DEF OrderInv
<1> QED BY <1>8, <1>9, <1>10

\* Every step keeps the invariant.
LEMMA ApplyInductive ==
  ASSUME TypeInv, ApplyInv, [Next]_vars PROVE ApplyInv'
<1>1. CASE BeginFrame
  <2>1. CASE NextFrame BY <1>1, <2>1, ApplySkips
  <2>2. CASE UNCHANGED << i, attempt >>
    BY <1>1, <2>2, ApplyStays DEF BeginFrame
  <2> QED BY <1>1, <2>1, <2>2 DEF BeginFrame
<1>2. CASE WriteFrame BY <1>2, ApplyWrites
<1>3. CASE ReceiveAck
  <2>1. i \in DOMAIN Frames /\ Board \notin Skipped
    BY <1>3 DEF ReceiveAck, TypeInv, PhaseInv
  <2>2. CASE UNCHANGED << i, attempt, outcome >>
    BY <1>3, <2>2, ApplyStays DEF ReceiveAck
  <2>3. CASE /\ NextFrame /\ Matches(Head(input)) /\ Head(input).accepted
             /\ present' = present \cup {Board} /\ UNCHANGED << failed, rejected >>
    BY <1>3, <2>1, <2>3, ApplyAccepts DEF ReceiveAck
  <2> QED BY <1>3, <2>2, <2>3 DEF ReceiveAck
<1>4. CASE GiveUp BY <1>4 DEF GiveUp, ApplyInv
<1>5. CASE \/ Restart \/ Abandon \/ ReceiveStray \/ AckTimeout \/ Retry
           \/ Finalize \/ Setup
  <2>1. /\ UNCHANGED << i, heard, applied, present, failed, rejected >>
        /\ input' = input \/ input' = << >>
    BY <1>5 DEF Restart, Abandon, ReceiveStray, AckTimeout, Retry, Finalize, Setup
  <2> QED BY <2>1, ApplyStays
<1>6. CASE UNCHANGED vars
  BY <1>6, ApplyStays
<1>7. ASSUME NEW b \in Boards, BoardAnswers(b) PROVE ApplyInv'
  BY <1>7, BoardApplies
<1>8. CASE WriteFails BY <1>8 DEF WriteFails, ApplyInv
<1> QED BY <1>1, <1>2, <1>3, <1>4, <1>5, <1>6, <1>7, <1>8 DEF Next, Host

\* As long as the port takes every write the runtime starts only on boards
\* that applied all of their configuration, whatever the bus loses, repeats or
\* delays (PPUC::Connect, RS485Comm::ReceiveConfigAck).
THEOREM StartedMeansAppliedHolds == Spec => []StartedMeansApplied
<1>1. Init => TypeInv /\ ApplyInv
  BY TypeInit, ApplyInit
<1>2. TypeInv /\ ApplyInv /\ [Next]_vars => (TypeInv /\ ApplyInv)'
  BY TypeInductive, ApplyInductive
<1>3. TypeInv /\ ApplyInv => StartedMeansApplied
  <2> SUFFICES ASSUME TypeInv, ApplyInv, pc = "running", ~rejected,
                      NEW j \in DOMAIN Frames, Frames[j].board \notin Skipped
               PROVE  j \in applied
    BY DEF StartedMeansApplied
  <2>1. i = Len(Frames) + 1 /\ ProgressInv
    BY DEF TypeInv, PhaseInv, ApplyInv
  <2>2. j \in 1..(i - 1)
    <3>1. DOMAIN Frames = 1..Len(Frames) /\ Len(Frames) \in Nat
      BY FrameFacts
    <3> QED BY <2>1, <3>1
  <2> QED BY <2>1, <2>2 DEF ProgressInv
<1> QED BY <1>1, <1>2, <1>3, PTL DEF Spec

\* And only the boards the user skipped are played by the host
\* (RS485Comm::FinalizeConfiguredBoardPresence).
THEOREM VirtualByChoiceHolds == Spec => []VirtualByChoice
<1> DEFINE Inv == TypeInv /\ ApplyInv /\ VirtualByChoice
<1>1. Init => Inv
  BY TypeInit, ApplyInit DEF Init, VirtualByChoice
<1>2. ASSUME Inv, [Next]_vars PROVE Inv'
  <2>1. TypeInv' /\ ApplyInv'
    BY <1>2, TypeInductive, ApplyInductive
  <2>2. VirtualByChoice'
    <3>1. CASE Finalize /\ ~rejected
      <4>1. i > Len(Script) /\ ProgressInv
        <5>1. i = Len(Script) + 1 /\ Len(Script) \in Nat /\ ProgressInv
          BY <1>2, <3>1, FrameFacts DEF Finalize, TypeInv, PhaseInv, ApplyInv
        <5> QED BY <5>1
      <4>2. virtual' = Boards \ (Boards \ Skipped)
        BY <1>2, <3>1, <4>1, AllPresent DEF Finalize
      <4> QED BY <4>2, BoardsAssumption DEF VirtualByChoice
    <3>2. CASE rejected'
      BY <3>2 DEF VirtualByChoice
    <3>3. CASE virtual' = virtual /\ (rejected => rejected')
      BY <1>2, <3>3 DEF VirtualByChoice
    <3>4. Finalize \/ (virtual' = virtual /\ (rejected => rejected'))
      BY <1>2 DEF Next, Host, Restart, Abandon, BeginFrame, WriteFrame, WriteFails,
                  ReceiveAck, ReceiveStray, AckTimeout, Retry, GiveUp, Setup,
                  BoardAnswers
    <3>5. Finalize => UNCHANGED rejected
      BY DEF Finalize
    <3> QED BY <3>1, <3>2, <3>3, <3>4, <3>5
  <2> QED BY <2>1, <2>2
<1> QED BY <1>1, <1>2, PTL DEF Spec
----------------------------------------------------------------------------
(* The early abort.                                                        *)

Missed(S) == {j \in givenUp : Frames[j].board \in S}

Capped(n) == IF n < MissThreshold THEN n ELSE MissThreshold

\* The counters count the frames given up, up to the threshold, as long as it
\* matters; and once they call for an abort nothing is counted any more.
CountInv ==
  /\ \A j \in givenUp : j < i
  /\ present = {} => streak = Capped(Cardinality(Missed(Boards)))
  /\ \A b \in Counted \ present : missesBy[b] = Capped(Cardinality(Missed({b})))
  /\ abortBoard # None <=> \E b \in Counted \ present : missesBy[b] = MissThreshold
  /\ ShouldAbortConfigurationEarly => pc \in {"event", "finalize", "setup", "failed"}

LEMMA PlaceIsNumber == ASSUME TypeOK PROVE i \in Nat /\ givenUp \subseteq Nat
<1>1. i \in 1..(Len(Frames) + 1) /\ Len(Frames) \in Nat
  BY FrameFacts DEF TypeOK
<1> QED BY <1>1, PlacesAreNumbers DEF TypeOK

LEMMA MissesAreCountable ==
  ASSUME TypeOK, NEW S
  PROVE  IsFiniteSet(Missed(S)) /\ Cardinality(Missed(S)) \in Nat
<1>1. IsFiniteSet(DOMAIN Frames)
  <2>1. DOMAIN Frames = 1..Len(Frames) /\ Len(Frames) \in Nat
    BY FrameFacts
  <2>2. Len(Frames) \in Int
    BY <2>1
  <2> QED BY <2>1, <2>2, FS_Interval
<1>2. Missed(S) \in SUBSET DOMAIN Frames
  BY DEF TypeOK, Missed
<1>3. IsFiniteSet(Missed(S))
  BY <1>1, <1>2, FS_Subset
<1> QED BY <1>3, FS_CardinalityType

\* One frame more is given up.
LEMMA OneMoreMissed ==
  ASSUME TypeOK, CountInv, i \in DOMAIN Frames, givenUp' = givenUp \cup {i}, NEW S
  PROVE  Cardinality(Missed(S)') = IF Board \in S THEN Cardinality(Missed(S)) + 1
                                   ELSE Cardinality(Missed(S))
<1>1. i \notin Missed(S) /\ IsFiniteSet(Missed(S))
  <2>1. i \in Nat /\ ~(i < i)
    BY PlacesAreNumbers
  <2>2. i \notin Missed(S)
    BY <2>1 DEF CountInv, Missed
  <2> QED BY <2>2, MissesAreCountable
<1>2. CASE Board \in S
  <2>1. Missed(S)' = Missed(S) \cup {i}
    BY <1>2 DEF Missed, Board
  <2> QED BY <1>1, <1>2, <2>1, FS_AddElement
<1>3. CASE Board \notin S
  <2>1. Missed(S)' = Missed(S)
    BY <1>3 DEF Missed, Board
  <2> QED BY <1>3, <2>1
<1> QED BY <1>2, <1>3

LEMMA CountInit == ASSUME Init PROVE CountInv
<1>1. Missed(Boards) = {} /\ \A b \in Boards : Missed({b}) = {}
  BY DEF Init, Missed
<1>2. MissThreshold \in Nat \ {0} /\ Capped(Cardinality({})) = 0
  BY LimitAssumption, FS_EmptySet DEF Capped
<1>3. streak = 0 /\ ~(0 >= MissThreshold) /\ abortBoard = None /\ givenUp = {}
  BY <1>2 DEF Init
<1>4. \A b \in Counted : missesBy[b] = 0
  BY BoardsAssumption DEF Init
<1>5. ~ShouldAbortConfigurationEarly
  BY <1>3 DEF ShouldAbortConfigurationEarly
<1> QED BY <1>1, <1>2, <1>3, <1>4, <1>5, BoardsAssumption DEF CountInv

\* Steps that count nothing.
LEMMA CountStays ==
  ASSUME TypeOK, CountInv, i' \in Nat, i <= i',
         UNCHANGED << present, streak, missesBy, abortBoard, givenUp >>,
         ~ShouldAbortConfigurationEarly \/ pc' \in {"event", "finalize", "setup", "failed"}
  PROVE  CountInv'
<1>1. \A S : Missed(S)' = Missed(S)
  BY DEF Missed
<1>2. \A j \in givenUp' : j < i'
  <2>1. givenUp \subseteq Nat /\ i \in Nat
    BY PlaceIsNumber
  <2> QED BY <2>1 DEF CountInv
<1>3. ShouldAbortConfigurationEarly' <=> ShouldAbortConfigurationEarly
  BY DEF ShouldAbortConfigurationEarly
<1>4. present = {} => streak' = Capped(Cardinality(Missed(Boards)'))
  BY <1>1 DEF CountInv
<1>5. \A b \in Counted \ present : missesBy'[b] = Capped(Cardinality(Missed({b})'))
  BY <1>1 DEF CountInv
<1> QED BY <1>2, <1>3, <1>4, <1>5 DEF CountInv, Capped

\* An acknowledgement: a board that answered is blamed no more.
LEMMA CountAccepts ==
  ASSUME TypeInv, CountInv, pc = "await", NextFrame,
         missesBy' = IF Board \in Counted
                     THEN [missesBy EXCEPT ![Board] = 0] ELSE missesBy,
         present' = present \cup {Board}, UNCHANGED << abortBoard, givenUp >>
  PROVE  CountInv'
<1>1. i \in DOMAIN Frames /\ TypeOK
  BY DEF TypeInv, PhaseInv
<1>2. ~ShouldAbortConfigurationEarly /\ abortBoard = None
  BY DEF CountInv, ShouldAbortConfigurationEarly
<1>3. \A j \in givenUp' : j < i'
  <2>1. givenUp \subseteq Nat /\ i \in Nat /\ i' = i + 1
    BY <1>1, PlacesAreNumbers, NextFrameFacts DEF TypeOK
  <2> QED BY <2>1 DEF CountInv
<1>4. \A b \in Counted \ present' : b \notin present /\ missesBy'[b] = missesBy[b]
  BY <1>1, BoardsAssumption DEF TypeOK
<1>5. \A S : Missed(S)' = Missed(S)
  BY DEF Missed
<1>6. \A b \in Counted \ present' : missesBy'[b] = Capped(Cardinality(Missed({b})'))
  BY <1>4, <1>5 DEF CountInv
<1>7. present' # {} /\ abortBoard' = None
  BY <1>2
<1>8. ~\E b \in Counted \ present' : missesBy'[b] = MissThreshold
  BY <1>2, <1>4 DEF CountInv
<1> QED BY <1>3, <1>6, <1>7, <1>8 DEF CountInv, ShouldAbortConfigurationEarly, Capped

\* A frame given up: the counters follow, and the board that reaches the
\* threshold is named.
LEMMA CountGivesUp == ASSUME TypeInv, CountInv, GiveUp PROVE CountInv'
<1>1. /\ i \in DOMAIN Frames /\ TypeOK /\ Board \in Boards
      /\ MissThreshold \in Nat \ {0}
  BY FrameFacts, LimitAssumption DEF TypeInv, PhaseInv, GiveUp, Board
<1>2. ~ShouldAbortConfigurationEarly /\ abortBoard = None
  BY DEF CountInv, ShouldAbortConfigurationEarly, GiveUp
<1>3. \A j \in givenUp' : j < i'
  <2>1. givenUp \subseteq Nat /\ i \in Nat /\ i' = i + 1
    BY <1>1, PlacesAreNumbers, NextFrameFacts DEF TypeOK, GiveUp
  <2> QED BY <2>1 DEF CountInv, GiveUp
<1>4. \A n \in Nat : Capped(n + 1) = IF Capped(n) < MissThreshold
                                     THEN Capped(n) + 1 ELSE Capped(n)
  BY <1>1 DEF Capped
<1>5. present' = {} => streak' = Capped(Cardinality(Missed(Boards)'))
  <2> SUFFICES ASSUME present = {} PROVE streak' = Capped(Cardinality(Missed(Boards)'))
    BY DEF GiveUp
  <2>1. streak' = IF streak < MissThreshold THEN streak + 1 ELSE streak
    BY DEF GiveUp
  <2>2. streak = Capped(Cardinality(Missed(Boards)))
    BY DEF CountInv
  <2>3. Cardinality(Missed(Boards)') = Cardinality(Missed(Boards)) + 1
    BY <1>1, OneMoreMissed DEF GiveUp
  <2> QED BY <1>1, <1>4, <2>1, <2>2, <2>3, MissesAreCountable
<1>6. /\ \A b \in Counted \ {Board} : missesBy'[b] = missesBy[b]
      /\ Board \in Counted =>
           missesBy'[Board] = IF missesBy[Board] < MissThreshold
                              THEN missesBy[Board] + 1 ELSE missesBy[Board]
  BY <1>1, BoardsAssumption DEF GiveUp, BlameBoard, TypeOK
<1>7. \A b \in Counted \ present' : missesBy'[b] = Capped(Cardinality(Missed({b})'))
  <2> SUFFICES ASSUME NEW b \in Counted \ present
               PROVE  missesBy'[b] = Capped(Cardinality(Missed({b})'))
    BY DEF GiveUp
  <2>1. missesBy[b] = Capped(Cardinality(Missed({b})))
    BY DEF CountInv
  <2>2. CASE b = Board
    <3>1. Cardinality(Missed({b})') = Cardinality(Missed({b})) + 1
      BY <1>1, <2>2, OneMoreMissed DEF GiveUp
    <3> QED BY <1>1, <1>4, <1>6, <2>1, <2>2, <3>1, MissesAreCountable
  <2>3. CASE b # Board
    <3>1. Cardinality(Missed({b})') = Cardinality(Missed({b}))
      BY <1>1, <2>3, OneMoreMissed DEF GiveUp
    <3> QED BY <1>6, <2>1, <2>3, <3>1
  <2> QED BY <2>2, <2>3
<1>8. abortBoard' # None <=> \E b \in Counted \ present' : missesBy'[b] = MissThreshold
  <2>1. \A b \in Counted \ present : missesBy[b] # MissThreshold
    BY <1>2 DEF CountInv
  <2>2. missesBy[Board] \in 0..MissThreshold /\ Board # None
    BY <1>1, BoardsAssumption DEF TypeOK
  <2>3. CASE Board \in present \/ Board \notin Counted
    <3>1. abortBoard' = None
      BY <1>2, <2>3 DEF GiveUp, BlameBoard
    <3> QED BY <1>6, <2>1, <2>3, <3>1 DEF GiveUp
  <2>4. CASE Board \in Counted \ present
    <3>1. missesBy[Board] < MissThreshold
      BY <1>1, <2>1, <2>2, <2>4
    <3>2. missesBy'[Board] = MissThreshold <=> missesBy[Board] + 1 >= MissThreshold
      BY <1>1, <1>6, <2>2, <2>4, <3>1
    <3>3. abortBoard' = IF missesBy[Board] + 1 >= MissThreshold THEN Board ELSE None
      BY <1>2, <2>4, <3>1 DEF GiveUp, BlameBoard
    <3> QED BY <1>1, <1>6, <2>1, <2>2, <2>4, <3>2, <3>3 DEF GiveUp
  <2> QED BY <2>3, <2>4
<1>9. pc' \in {"event", "finalize", "setup", "failed"}
  BY <1>1, NextFrameFacts DEF GiveUp
<1> QED BY <1>3, <1>5, <1>7, <1>8, <1>9 DEF CountInv, Capped

LEMMA CountInductive == TypeInv /\ CountInv /\ [Next]_vars => CountInv'
<1> SUFFICES ASSUME TypeInv, CountInv, [Next]_vars PROVE CountInv'
  OBVIOUS
<1>1. TypeOK /\ PhaseInv /\ i \in Nat /\ i <= i
  BY PlaceIsNumber DEF TypeInv
<1>2. CASE GiveUp
  BY <1>2, CountGivesUp
<1>3. CASE ReceiveAck
  <2>1. pc = "await" /\ UNCHANGED givenUp
    BY <1>3 DEF ReceiveAck
  <2>2. ~ShouldAbortConfigurationEarly
    BY <2>1 DEF CountInv
  <2>3. CASE UNCHANGED << i, outcome >>
    BY <1>1, <2>1, <2>2, <2>3, CountStays
  <2>4. CASE ~UNCHANGED << i, outcome >>
    <3>1. /\ NextFrame
          /\ missesBy' = IF Board \in Counted
                         THEN [missesBy EXCEPT ![Board] = 0] ELSE missesBy
          /\ present' = present \cup {Board} /\ UNCHANGED abortBoard
      BY <1>3, <2>4 DEF ReceiveAck
    <3> QED BY <2>1, <3>1, CountAccepts
  <2> QED BY <2>3, <2>4
<1>4. CASE BeginFrame \/ WriteFails
  <2>1. /\ ~ShouldAbortConfigurationEarly
        /\ UNCHANGED << present, streak, missesBy, abortBoard, givenUp >>
    BY <1>4 DEF BeginFrame, WriteFails, CountInv
  <2>2. i \in DOMAIN Frames
    BY <1>1, <1>4 DEF BeginFrame, WriteFails, PhaseInv
  <2>3. i' \in Nat /\ i <= i'
    <3>1. i' = i \/ NextFrame
      BY <1>4 DEF BeginFrame, WriteFails
    <3>2. i' = i \/ i' = i + 1
      BY <1>1, <2>2, <3>1, NextFrameFacts
    <3> QED BY <1>1, <3>2
  <2> QED BY <1>1, <2>1, <2>3, CountStays
<1>5. CASE \/ Restart \/ Abandon \/ WriteFrame \/ ReceiveStray \/ AckTimeout
           \/ Retry \/ Finalize \/ Setup
  <2>1. UNCHANGED << i, present, streak, missesBy, abortBoard, givenUp >>
    BY <1>5 DEF Restart, Abandon, WriteFrame, ReceiveStray, AckTimeout, Retry,
                Finalize, Setup
  <2>2. ~ShouldAbortConfigurationEarly \/ pc' = "failed"
    BY <1>5 DEF Restart, Abandon, WriteFrame, ReceiveStray, AckTimeout, Retry,
                Finalize, Setup, CountInv
  <2> QED BY <1>1, <2>1, <2>2, CountStays
<1>6. CASE (\E b \in Boards : BoardAnswers(b)) \/ UNCHANGED vars
  <2>1. UNCHANGED << pc, i, present, streak, missesBy, abortBoard, givenUp >>
    BY <1>6 DEF BoardAnswers
  <2>2. ~ShouldAbortConfigurationEarly \/ pc' \in {"event", "finalize", "setup", "failed"}
    BY <2>1 DEF CountInv
  <2> QED BY <1>1, <2>1, <2>2, CountStays
<1> QED BY <1>2, <1>3, <1>4, <1>5, <1>6 DEF Next, Host

\* The startup is cut short exactly when a board whose misses are counted (its
\* number is below RS485_COMM_MAX_BOARDS), or all boards together, left the
\* first MissThreshold frames unanswered (RS485Comm::SendConfigEvent,
\* ShouldAbortConfigurationEarly), for any boards, frames and thresholds.
THEOREM EarlyAbortIsExactHolds == Spec => []EarlyAbortIsExact
<1>1. Init => TypeInv /\ CountInv
  BY TypeInit, CountInit
<1>2. TypeInv /\ CountInv /\ [Next]_vars => (TypeInv /\ CountInv)'
  BY TypeInductive, CountInductive
<1>3. TypeInv /\ CountInv => EarlyAbortIsExact
  <2> SUFFICES ASSUME TypeInv, CountInv PROVE EarlyAbortIsExact
    OBVIOUS
  <2>1. TypeOK /\ MissThreshold \in Nat \ {0}
    BY LimitAssumption DEF TypeInv
  <2>2. \A S : Capped(Cardinality(Missed(S))) = MissThreshold <=> SilentOn(S)
    BY <2>1, MissesAreCountable DEF Capped, SilentOn, Missed
  <2>3. abortBoard # None <=> \E b \in Counted \ present : SilentOn({b})
    BY <2>2 DEF CountInv
  <2>4. present = {} => (streak >= MissThreshold <=> SilentOn(Boards))
    <3>1. streak \in 0..MissThreshold
      BY <2>1 DEF TypeOK
    <3>2. streak >= MissThreshold <=> streak = MissThreshold
      BY <2>1, <3>1
    <3> QED BY <2>2, <3>2 DEF CountInv
  <2> QED BY <2>3, <2>4 DEF EarlyAbortIsExact, ShouldAbortConfigurationEarly
<1> QED BY <1>1, <1>2, <1>3, PTL DEF Spec

----------------------------------------------------------------------------
(* How long the startup can take.                                          *)

\* Steps that an attempt, all attempts and a frame can take: the writing, the
\* wait with its strays, the board's answer and the reading of it.
TurnCost == Window + 5
FullCost == TurnCost * Retries
FrameCost == FullCost + 3

\* Steps left of the attempts.
AttemptCost == TurnCost * (Retries - attempt)

\* Steps left for the frame, or the stage of the startup, at hand.
StageCost ==
  CASE pc = "idle"     -> FullCost + 3
    [] pc = "finalize" -> FullCost + 2
    [] pc = "event"    -> FullCost + 1
    [] pc = "write"    -> AttemptCost
    [] pc = "await"    -> AttemptCost - 3 - waited
    [] pc = "spent"    -> AttemptCost - 4 - Window
    [] pc = "setup"    -> 1
    [] OTHER           -> 0

FramesAhead == Len(Frames) + 1 - i

\* Frames, by board and place in line, that boards have heard and not answered.
Unanswered == {w \in Boards \X Nat : w[2] \in DOMAIN heard[w[1]]}

\* A frame under way is worth the step of its board and the reading of its
\* answer.
Effort ==
  FrameCost * FramesAhead + StageCost + Len(input) + 2 * Cardinality(Unanswered)

StageTable ==
  /\ pc = "idle" => StageCost = FullCost + 3
  /\ pc = "finalize" => StageCost = FullCost + 2
  /\ pc = "event" => StageCost = FullCost + 1
  /\ pc = "write" => StageCost = AttemptCost
  /\ pc = "await" => StageCost = AttemptCost - 3 - waited
  /\ pc = "spent" => StageCost = AttemptCost - 4 - Window
  /\ pc = "setup" => StageCost = 1
  /\ pc \in {"running", "failed"} => StageCost = 0

LEMMA StageCostIs == StageTable
<1>1. pc = "idle" => StageCost = FullCost + 3
  BY DEF StageCost
<1>2. pc = "finalize" => StageCost = FullCost + 2
  BY DEF StageCost
<1>3. pc = "event" => StageCost = FullCost + 1
  BY DEF StageCost
<1>4. pc = "write" => StageCost = AttemptCost
  BY DEF StageCost
<1>5. pc = "await" => StageCost = AttemptCost - 3 - waited
  BY DEF StageCost
<1>6. pc = "spent" => StageCost = AttemptCost - 4 - Window
  BY DEF StageCost
<1>7. pc = "setup" => StageCost = 1
  BY DEF StageCost
<1>8. pc \in {"running", "failed"} => StageCost = 0
  BY DEF StageCost
<1> QED
  BY <1>1, <1>2, <1>3, <1>4, <1>5, <1>6, <1>7, <1>8
  DEF StageTable

LEMMA StageCostWillBe == StageTable'
  BY StageCostIs, PTL

\* The attempts that are left.
AttemptFacts ==
  /\ Window \in Nat /\ waited \in Nat /\ waited <= Window
  /\ TurnCost = Window + 5 /\ TurnCost \in Nat
  /\ FullCost \in Nat /\ AttemptCost \in Nat
  /\ TurnCost <= AttemptCost /\ AttemptCost <= FullCost
  /\ attempt = 0 => AttemptCost = FullCost

LEMMA AttemptsAre == ASSUME TypeOK PROVE AttemptFacts
<1>1. /\ Retries \in Nat /\ attempt \in Nat /\ attempt + 1 <= Retries
      /\ Window \in Nat /\ waited \in Nat /\ waited <= Window
  BY LimitAssumption DEF TypeOK
<1>2. TurnCost = Window + 5 /\ TurnCost \in Nat
  BY <1>1 DEF TurnCost
<1>3. PICK left \in Nat : Retries = attempt + left + 1 /\ Retries - attempt = left + 1
  <2>1. Retries - attempt - 1 \in Nat
    BY <1>1
  <2> QED BY <1>1, <2>1
<1>4. ASSUME NEW t \in Nat, NEW a \in Nat, NEW l \in Nat
      PROVE  /\ t * (l + 1) \in Nat /\ t * (a + l + 1) \in Nat
             /\ t <= t * (l + 1) /\ t * (l + 1) <= t * (a + l + 1)
  <2>1. t * (l + 1) = t * l + t /\ t * (a + l + 1) = t * a + t * l + t
    OBVIOUS
  <2>2. t * l \in Nat /\ t * a \in Nat
    OBVIOUS
  <2>3. ASSUME NEW x \in Nat, NEW y \in Nat
        PROVE  /\ x + t \in Nat /\ y + x + t \in Nat
               /\ t <= x + t /\ x + t <= y + x + t
    OBVIOUS
  <2> QED BY <2>1, <2>2, <2>3
<1> HIDE DEF TurnCost
<1>5. FullCost \in Nat /\ AttemptCost \in Nat
  BY <1>1, <1>2, <1>3, <1>4 DEF FullCost, AttemptCost
<1>6. TurnCost <= AttemptCost /\ AttemptCost <= FullCost
  BY <1>1, <1>2, <1>3, <1>4 DEF FullCost, AttemptCost
<1>7. attempt = 0 => AttemptCost = FullCost
  <2>1. Retries - 0 = Retries
    BY <1>1
  <2> QED BY <2>1 DEF FullCost, AttemptCost
<1> QED BY <1>1, <1>2, <1>5, <1>6, <1>7 DEF AttemptFacts

LEMMA AttemptsWillBe == TypeOK' => AttemptFacts'
<1>1. TypeOK => AttemptFacts
  BY AttemptsAre
<1> QED BY <1>1, PTL

\* An attempt more costs what one attempt costs.
LEMMA AttemptsMove ==
  ASSUME TypeOK
  PROVE  /\ attempt' = attempt => AttemptCost' = AttemptCost
         /\ attempt' = attempt + 1 => AttemptCost' = AttemptCost - TurnCost
         /\ FullCost' = FullCost
<1>1. Retries \in Nat /\ attempt \in Nat /\ TurnCost \in Nat
  BY AttemptsAre, LimitAssumption DEF AttemptFacts, TypeOK
<1>2. ASSUME NEW t \in Nat, NEW r \in Nat, NEW a \in Nat
      PROVE  t * (r - (a + 1)) = t * (r - a) - t
  OBVIOUS
<1> QED BY <1>1, <1>2 DEF AttemptCost, FullCost, TurnCost

\* A frame, or the end of the list, is begun with the first attempt.
EffortInv ==
  /\ pc \in {"idle", "event", "finalize"} => attempt = 0
  /\ IsFiniteSet(Unanswered)

\* What the terms of Effort are.
Amounts ==
  /\ FrameCost \in Nat /\ FramesAhead \in Nat /\ FrameCost * FramesAhead \in Nat
  /\ StageCost \in Nat /\ StageCost <= FrameCost
  /\ pc \notin {"idle"} => StageCost + 1 <= FrameCost
  /\ Len(input) \in Nat /\ Cardinality(Unanswered) \in Nat

LEMMA AmountsAre == TypeInv /\ EffortInv => Amounts
<1> SUFFICES ASSUME TypeInv, EffortInv PROVE Amounts
  OBVIOUS
<1>1. /\ Retries \in Nat \ {0} /\ attempt \in Nat /\ attempt <= Retries - 1
      /\ Len(Frames) \in Nat /\ i \in 1..(Len(Frames) + 1) /\ pc \in States
      /\ input \in Seq(Ack)
  <2>1. /\ pc \in States /\ i \in 1..(Len(Frames) + 1) /\ input \in Seq(Ack)
        /\ attempt \in 0..(Retries - 1)
    BY DEF TypeInv, TypeOK
  <2>2. Retries \in Nat \ {0} /\ Len(Frames) \in Nat
    BY LimitAssumption, FrameFacts
  <2> HIDE DEF States
  <2> QED BY <2>1, <2>2
<1>2. FrameCost \in Nat /\ FrameCost = FullCost + 3 /\ FramesAhead \in Nat
  BY <1>1, AttemptsAre DEF FrameCost, FramesAhead, AttemptFacts, TypeInv
<1>3. FrameCost * FramesAhead \in Nat
  <2>1. ASSUME NEW m \in Nat, NEW n \in Nat PROVE m * n \in Nat
    OBVIOUS
  <2> QED BY <1>2, <2>1
<1>4. /\ StageCost \in Nat /\ StageCost <= FrameCost
      /\ pc # "idle" => StageCost + 1 <= FrameCost
  <2>1. AttemptFacts
    BY AttemptsAre DEF TypeInv
  <2> HIDE DEF States
  <2>2. CASE pc \in {"idle", "finalize", "event"}
    BY <1>2, <2>1, <2>2, StageCostIs DEF StageTable, AttemptFacts
  <2>3. CASE pc \in {"write", "await", "spent"}
    BY <1>2, <2>1, <2>3, StageCostIs DEF StageTable, AttemptFacts
  <2>4. CASE pc \in {"setup", "running", "failed"}
    BY <1>2, <2>1, <2>4, StageCostIs DEF StageTable, AttemptFacts
  <2> QED BY <1>1, <2>2, <2>3, <2>4 DEF States
<1>5. Len(input) \in Nat
  BY <1>1
<1>6. Cardinality(Unanswered) \in Nat
  BY FS_CardinalityType DEF EffortInv
<1> QED BY <1>2, <1>3, <1>4, <1>5, <1>6 DEF Amounts

LEMMA AmountsWillBe == TypeInv' /\ EffortInv' => Amounts'
  BY AmountsAre, PTL

\* A frame more in front of a board is one more to answer, a frame taken one
\* less.
LEMMA OneMoreHeard ==
  ASSUME TypeInv, EffortInv, NEW b \in Boards, NEW e,
         heard' = [heard EXCEPT ![b] = Append(@, e)]
  PROVE  /\ IsFiniteSet(Unanswered')
         /\ Cardinality(Unanswered') <= Cardinality(Unanswered) + 1
<1>1. heard \in [Boards -> Seq(DOMAIN Frames)]
  BY DEF TypeInv, TypeOK
<1> DEFINE w == << b, Len(heard[b]) + 1 >>
<1>2. /\ DOMAIN heard'[b] = DOMAIN heard[b] \cup {Len(heard[b]) + 1}
      /\ Len(heard[b]) + 1 \in Nat
  <2>1. heard[b] \in Seq(DOMAIN Frames) /\ heard'[b] = Append(heard[b], e)
    BY <1>1
  <2> QED BY <2>1
<1>3. \A c \in Boards \ {b} : heard'[c] = heard[c]
  BY <1>1
<1>4. Unanswered' = Unanswered \cup {w}
  BY <1>2, <1>3 DEF Unanswered
<1>5. IsFiniteSet(Unanswered) /\ Cardinality(Unanswered) \in Nat
  BY FS_CardinalityType DEF EffortInv
<1> HIDE DEF w
<1>6. /\ IsFiniteSet(Unanswered \cup {w})
      /\ \/ Cardinality(Unanswered \cup {w}) = Cardinality(Unanswered)
         \/ Cardinality(Unanswered \cup {w}) = Cardinality(Unanswered) + 1
  BY <1>5, FS_AddElement
<1> QED BY <1>4, <1>5, <1>6

LEMMA OneAnswered ==
  ASSUME TypeInv, EffortInv, NEW b \in Boards, heard[b] # << >>,
         heard' = [heard EXCEPT ![b] = Tail(@)]
  PROVE  /\ IsFiniteSet(Unanswered')
         /\ Cardinality(Unanswered') = Cardinality(Unanswered) - 1
<1>1. heard \in [Boards -> Seq(DOMAIN Frames)]
  BY DEF TypeInv, TypeOK
<1> DEFINE w == << b, Len(heard[b]) >>
<1>2. /\ DOMAIN heard'[b] = DOMAIN heard[b] \ {Len(heard[b])}
      /\ Len(heard[b]) \in DOMAIN heard[b] /\ Len(heard[b]) \in Nat
  <2>1. heard[b] \in Seq(DOMAIN Frames) /\ heard'[b] = Tail(heard[b])
    BY <1>1
  <2>2. Len(heard[b]) # 0 /\ Len(heard[b]) \in Nat
    BY <2>1, Emptiness
  <2>3. DOMAIN heard'[b] = 1..(Len(heard[b]) - 1)
    <3>1. ASSUME NEW S, NEW s \in Seq(S), s # << >>
          PROVE  Tail(s) \in Seq(S) /\ Len(Tail(s)) = Len(s) - 1
      BY <3>1
    <3>2. heard'[b] \in Seq(DOMAIN Frames) /\ Len(heard'[b]) = Len(heard[b]) - 1
      BY <2>1, <3>1
    <3> QED BY <3>2
  <2>4. DOMAIN heard[b] = 1..Len(heard[b])
    BY <2>1
  <2>5. ASSUME NEW n \in Nat, n # 0
        PROVE  1..(n - 1) = (1..n) \ {n} /\ n \in 1..n
    BY <2>5
  <2> QED BY <2>2, <2>3, <2>4, <2>5
<1>3. \A c \in Boards \ {b} : heard'[c] = heard[c]
  BY <1>1
<1>4. Unanswered' = Unanswered \ {w} /\ w \in Unanswered
  BY <1>2, <1>3 DEF Unanswered
<1>5. IsFiniteSet(Unanswered)
  BY DEF EffortInv
<1> QED BY <1>4, <1>5, FS_RemoveElement

\* Nothing heard and nothing answered.
LEMMA NothingHeard ==
  ASSUME UNCHANGED heard PROVE Unanswered' = Unanswered
  BY DEF Unanswered

LEMMA EffortInvInductive ==
  ASSUME TypeInv, EffortInv, [Next]_vars PROVE EffortInv'
<1>1. CASE UNCHANGED vars
  BY <1>1, NothingHeard DEF EffortInv
<1>2. ASSUME NEW b \in Boards, BoardAnswers(b) PROVE EffortInv'
  BY <1>2, OneAnswered DEF BoardAnswers, EffortInv
<1>3. CASE Host
  <2>1. pc' \in {"idle", "event", "finalize"} => attempt' = 0
    BY <1>3 DEF Host, Restart, Abandon, BeginFrame, WriteFrame, WriteFails, ReceiveAck,
       ReceiveStray, AckTimeout, Retry, GiveUp, Finalize, Setup, NextFrame, EffortInv
  <2>2. IsFiniteSet(Unanswered')
    <3>1. CASE heard' = heard
      BY <3>1, NothingHeard DEF EffortInv
    <3>2. CASE heard' # heard
      <4>1. /\ WriteFrame /\ pc = "write"
            /\ heard' = [heard EXCEPT ![Board] = Append(@, i)]
        BY <1>3, <3>2
        DEF Host, Restart, Abandon, BeginFrame, WriteFrame, WriteFails, ReceiveAck,
            ReceiveStray, AckTimeout, Retry, GiveUp, Finalize, Setup
      <4>2. Board \in Boards
        BY <4>1, FrameFacts DEF Board, TypeInv, PhaseInv
      <4> QED BY <4>1, <4>2, OneMoreHeard
    <3> QED BY <3>1, <3>2
  <2> QED BY <2>1, <2>2 DEF EffortInv
<1> QED BY <1>1, <1>2, <1>3 DEF Next

\* A step with the frame at hand, and one that goes on to the next frame.
LEMMA EffortHere ==
  ASSUME Amounts, Amounts', i' = i,
         StageCost' + Len(input') + 2 * Cardinality(Unanswered')
           < StageCost + Len(input) + 2 * Cardinality(Unanswered)
  PROVE  Effort' < Effort
<1>1. ASSUME NEW a \in Nat, NEW s \in Nat, NEW l \in Nat, NEW u \in Nat,
             NEW t \in Nat, NEW m \in Nat, NEW v \in Nat,
             t + m + 2 * v < s + l + 2 * u
      PROVE  a + t + m + 2 * v < a + s + l + 2 * u
  BY <1>1
<1>2. FrameCost' * FramesAhead' = FrameCost * FramesAhead
  BY DEF FrameCost, FullCost, TurnCost, FramesAhead
<1> QED BY <1>1, <1>2 DEF Amounts, Effort

LEMMA EffortNext ==
  ASSUME TypeInv, Amounts, Amounts', i' = i + 1, pc' # "idle",
         Len(input') <= Len(input), UNCHANGED heard
  PROVE  Effort' < Effort
<1>1. ASSUME NEW f \in Nat, NEW a \in Nat, NEW s \in Nat, NEW l \in Nat, NEW u \in Nat,
             NEW c \in Nat, NEW t \in Nat, NEW m \in Nat,
             a = c + f, t + 1 <= f, m <= l
      PROVE  c + t + m + 2 * u < a + s + l + 2 * u
  BY <1>1
<1>2. FrameCost * FramesAhead = FrameCost * FramesAhead' + FrameCost
  <2>1. ASSUME NEW m \in Nat, NEW n \in Nat PROVE m * (n + 1) = m * n + m
    OBVIOUS
  <2>2. FramesAhead = FramesAhead' + 1
    <3>1. Len(Frames) \in Nat
      BY FrameFacts
    <3>2. i \in Nat
      BY PlaceIsNumber DEF TypeInv
    <3> QED BY <3>1, <3>2 DEF FramesAhead
  <2> QED BY <2>1, <2>2 DEF Amounts
<1>3. FrameCost' = FrameCost /\ Cardinality(Unanswered') = Cardinality(Unanswered)
  BY NothingHeard DEF FrameCost, FullCost, TurnCost
<1> QED BY <1>1, <1>2, <1>3 DEF Amounts, Effort

\* The host's steps.
LEMMA HostEffort ==
  ASSUME TypeInv, EffortInv, Host PROVE Effort' < Effort
<1>1. TypeInv' /\ EffortInv' /\ Amounts /\ Amounts'
  BY HostTypes, EffortInvInductive, AmountsAre, AmountsWillBe DEF Next
<1>2. /\ AttemptFacts /\ AttemptFacts' /\ input \in Seq(Ack)
      /\ attempt' = attempt => AttemptCost' = AttemptCost
      /\ attempt' = attempt + 1 => AttemptCost' = AttemptCost - TurnCost
      /\ FullCost' = FullCost
  <2>1. AttemptFacts /\ input \in Seq(Ack)
    BY AttemptsAre DEF TypeInv, TypeOK
  <2>2. AttemptFacts'
    BY <1>1, AttemptsWillBe DEF TypeInv
  <2> QED BY <2>1, <2>2, AttemptsMove DEF TypeInv
<1>3. StageTable /\ StageTable'
  BY StageCostIs, StageCostWillBe
<1>4. /\ input # << >> => Len(Tail(input)) = Len(input) - 1
      /\ Len(<< >>) = 0 /\ Len(input) \in Nat
  BY <1>2
<1>5. ASSUME i' = i, UNCHANGED << input, heard >>, StageCost' < StageCost
      PROVE  Effort' < Effort
  <2>1. Cardinality(Unanswered') = Cardinality(Unanswered)
    BY <1>5, NothingHeard
  <2>2. ASSUME NEW s \in Nat, NEW l \in Nat, NEW u \in Nat, NEW t \in Nat, t < s
        PROVE  t + l + 2 * u < s + l + 2 * u
    BY <2>2
  <2>3. StageCost' + Len(input') + 2 * Cardinality(Unanswered')
          < StageCost + Len(input) + 2 * Cardinality(Unanswered)
    BY <1>1, <1>5, <2>1, <2>2 DEF Amounts
  <2> QED BY <1>1, <1>5, <2>3, EffortHere
<1>6. CASE Restart
  <2>1. StageCost' < StageCost
    BY <1>2, <1>3, <1>6 DEF Restart, StageTable, AttemptFacts
  <2> QED BY <1>5, <1>6, <2>1 DEF Restart
<1>7. CASE Abandon
  <2>1. StageCost' < StageCost
    BY <1>2, <1>3, <1>7 DEF Abandon, StageTable, AttemptFacts
  <2> QED BY <1>5, <1>7, <2>1 DEF Abandon
<1>8. CASE i \in DOMAIN Frames /\ NextFrame /\ Len(input') <= Len(input)
           /\ UNCHANGED heard
  <2>1. i' = i + 1 /\ pc' # "idle"
    BY <1>8, NextFrameFacts DEF TypeInv
  <2> QED BY <1>1, <1>8, <2>1, EffortNext
<1>9. CASE BeginFrame
  <2>1. pc = "event" /\ i \in DOMAIN Frames /\ attempt = 0
    BY <1>9 DEF BeginFrame, TypeInv, PhaseInv, EffortInv
  <2>2. CASE NextFrame
    BY <1>4, <1>8, <1>9, <2>1, <2>2 DEF BeginFrame
  <2>3. CASE pc' = "write" /\ UNCHANGED << i, attempt >>
    <3>1. StageCost' < StageCost
      BY <1>2, <1>3, <2>1, <2>3 DEF StageTable, AttemptFacts
    <3> QED BY <1>5, <1>9, <2>3, <3>1 DEF BeginFrame
  <2> QED BY <1>9, <2>2, <2>3 DEF BeginFrame
<1>10. CASE WriteFrame
  <2>1. /\ pc = "write" /\ pc' = "await" /\ UNCHANGED << i, attempt, input >>
        /\ waited' = 0
        /\ \/ heard' = heard
           \/ heard' = [heard EXCEPT ![Board] = Append(@, i)]
    BY <1>10 DEF WriteFrame
  <2>2. StageCost' = StageCost - 3
    BY <1>2, <1>3, <2>1 DEF StageTable, AttemptFacts
  <2>3. Cardinality(Unanswered') <= Cardinality(Unanswered) + 1
    <3>1. CASE heard' = heard
      BY <1>1, <3>1, NothingHeard DEF Amounts
    <3>2. CASE heard' = [heard EXCEPT ![Board] = Append(@, i)]
      <4>1. Board \in Boards
        BY <2>1, FrameFacts DEF Board, TypeInv, PhaseInv
      <4> QED BY <3>2, <4>1, OneMoreHeard
    <3> QED BY <2>1, <3>1, <3>2
  <2>4. ASSUME NEW s \in Nat, NEW l \in Nat, NEW u \in Nat, NEW t \in Nat, NEW v \in Nat,
               t = s - 3, v <= u + 1
        PROVE  t + l + 2 * v < s + l + 2 * u
    BY <2>4
  <2>5. StageCost' + Len(input') + 2 * Cardinality(Unanswered')
          < StageCost + Len(input) + 2 * Cardinality(Unanswered)
    BY <1>1, <2>1, <2>2, <2>3, <2>4 DEF Amounts
  <2> QED BY <1>1, <2>1, <2>5, EffortHere
<1>11. CASE WriteFails
  <2>1. i \in DOMAIN Frames
    BY <1>11 DEF WriteFails, TypeInv, PhaseInv
  <2> QED BY <1>4, <1>8, <1>11, <2>1 DEF WriteFails
<1>12. ASSUME i' = i, UNCHANGED heard, StageCost' <= StageCost, Len(input') < Len(input)
       PROVE  Effort' < Effort
  <2>1. Cardinality(Unanswered') = Cardinality(Unanswered)
    BY <1>12, NothingHeard
  <2>2. ASSUME NEW s \in Nat, NEW l \in Nat, NEW u \in Nat, NEW t \in Nat, NEW m \in Nat,
               t <= s, m < l
        PROVE  t + m + 2 * u < s + l + 2 * u
    BY <2>2
  <2>3. StageCost' + Len(input') + 2 * Cardinality(Unanswered')
          < StageCost + Len(input) + 2 * Cardinality(Unanswered)
    BY <1>1, <1>12, <2>1, <2>2 DEF Amounts
  <2> QED BY <1>1, <1>12, <2>3, EffortHere
<1>13. CASE ReceiveAck
  <2>1. /\ pc = "await" /\ i \in DOMAIN Frames /\ UNCHANGED << heard, waited >>
        /\ Len(input') = Len(input) - 1
    BY <1>4, <1>13 DEF ReceiveAck, TypeInv, PhaseInv
  <2>2. Len(input') < Len(input) /\ Len(input') <= Len(input)
    BY <1>4, <2>1
  <2>3. CASE NextFrame
    BY <1>8, <2>1, <2>2, <2>3
  <2>4. CASE UNCHANGED << pc, i, attempt >>
    <3>1. StageCost' = StageCost /\ StageCost' <= StageCost
      <4>1. StageCost' = StageCost
        BY <1>2, <1>3, <2>1, <2>4 DEF StageTable
      <4>2. StageCost \in Nat
        BY <1>1 DEF Amounts
      <4> QED BY <4>1, <4>2
    <3> QED BY <1>12, <2>1, <2>2, <2>4, <3>1
  <2>5. CASE pc' = "spent" /\ UNCHANGED << i, attempt >>
    <3>1. StageCost' <= StageCost
      BY <1>2, <1>3, <2>1, <2>5 DEF StageTable, AttemptFacts
    <3> QED BY <1>12, <2>1, <2>2, <2>5, <3>1
  <2> QED BY <1>13, <2>3, <2>4, <2>5 DEF ReceiveAck
<1>14. CASE AckTimeout
  <2>1. StageCost' < StageCost
    BY <1>2, <1>3, <1>14 DEF AckTimeout, StageTable, AttemptFacts
  <2> QED BY <1>5, <1>14, <2>1 DEF AckTimeout
<1>19. CASE ReceiveStray
  <2>1. StageCost' < StageCost
    BY <1>2, <1>3, <1>19 DEF ReceiveStray, StageTable, AttemptFacts
  <2> QED BY <1>5, <1>19, <2>1 DEF ReceiveStray
<1>15. CASE Retry
  <2>1. /\ pc = "spent" /\ pc' = "write" /\ attempt' = attempt + 1
        /\ i' = i /\ input' = << >> /\ UNCHANGED heard
    BY <1>15 DEF Retry
  <2>2. StageCost' < StageCost
    BY <1>2, <1>3, <2>1 DEF StageTable, AttemptFacts
  <2>3. Cardinality(Unanswered') = Cardinality(Unanswered)
    BY <2>1, NothingHeard
  <2>4. ASSUME NEW s \in Nat, NEW l \in Nat, NEW u \in Nat, NEW t \in Nat, t < s
        PROVE  t + 0 + 2 * u < s + l + 2 * u
    BY <2>4
  <2>5. StageCost' + Len(input') + 2 * Cardinality(Unanswered')
          < StageCost + Len(input) + 2 * Cardinality(Unanswered)
    BY <1>1, <1>4, <2>1, <2>2, <2>3, <2>4 DEF Amounts
  <2> QED BY <1>1, <2>1, <2>5, EffortHere
<1>16. CASE GiveUp
  <2>1. i \in DOMAIN Frames /\ NextFrame /\ UNCHANGED heard /\ input' = << >>
    BY <1>16 DEF GiveUp, TypeInv, PhaseInv
  <2>2. Len(input') <= Len(input)
    BY <1>4, <2>1
  <2> QED BY <1>8, <2>1, <2>2
<1>17. CASE Finalize
  <2>1. StageCost' < StageCost
    BY <1>2, <1>3, <1>17 DEF Finalize, StageTable, AttemptFacts
  <2> QED BY <1>5, <1>17, <2>1 DEF Finalize
<1>18. CASE Setup
  <2>1. StageCost' < StageCost
    BY <1>2, <1>3, <1>18 DEF Setup, StageTable, AttemptFacts
  <2> QED BY <1>5, <1>18, <2>1 DEF Setup
<1> QED BY <1>6, <1>7, <1>9, <1>10, <1>11, <1>13, <1>14, <1>15, <1>16, <1>17,
           <1>18, <1>19 DEF Host

\* A board gives at most one answer to each frame it heard.
LEMMA BoardEffort ==
  ASSUME TypeInv, EffortInv, NEW b \in Boards, BoardAnswers(b) PROVE Effort' < Effort
<1>1. TypeInv' /\ EffortInv' /\ Amounts /\ Amounts'
  BY BoardTypes, EffortInvInductive, AmountsAre, AmountsWillBe DEF Next
<1>2. UNCHANGED << pc, i, attempt >>
  BY DEF BoardAnswers
<1>3. StageCost' = StageCost
  BY <1>2 DEF StageCost
<1>4. Cardinality(Unanswered') = Cardinality(Unanswered) - 1
  BY OneAnswered DEF BoardAnswers
<1>5. Len(input') <= Len(input) + 1
  <2>1. input' = input \/ \E a : input' = Append(input, a)
    BY DEF BoardAnswers
  <2>2. input \in Seq(Ack) /\ Len(input) \in Nat
    BY DEF TypeInv, TypeOK
  <2>3. \A a : Len(Append(input, a)) = Len(input) + 1
    BY <2>2
  <2> QED BY <2>1, <2>2, <2>3
<1>6. ASSUME NEW s \in Nat, NEW l \in Nat, NEW u \in Nat, NEW m \in Nat, NEW v \in Nat,
             v = u - 1, m <= l + 1
      PROVE  s + m + 2 * v < s + l + 2 * u
  BY <1>6
<1>7. StageCost' + Len(input') + 2 * Cardinality(Unanswered')
        < StageCost + Len(input) + 2 * Cardinality(Unanswered)
  BY <1>1, <1>3, <1>4, <1>5, <1>6 DEF Amounts
<1> QED BY <1>1, <1>2, <1>7, EffortHere

LEMMA UnansweredAtFirst == Init => Unanswered = {}
<1>1. DOMAIN << >> = {}
  OBVIOUS
<1> QED BY <1>1 DEF Init, Unanswered

LEMMA EffortAtFirst == Init => Effort = FrameCost * (Len(Frames) + 1)
<1> SUFFICES ASSUME Init PROVE Effort = FrameCost * (Len(Frames) + 1)
  OBVIOUS
<1>1. Len(Frames) \in Nat /\ FrameCost \in Nat
  <2>1. Len(Frames) \in Nat
    BY FrameFacts
  <2>2. FullCost \in Nat
    BY TypeInit, AttemptsAre DEF AttemptFacts, TypeInv
  <2>3. FrameCost \in Nat
    BY <2>2 DEF FrameCost
  <2> QED BY <2>1, <2>3
<1>2. FramesAhead = Len(Frames)
  BY <1>1 DEF Init, FramesAhead
<1>3. StageCost = FrameCost
  BY StageCostIs DEF Init, StageTable, FrameCost
<1>4. Len(input) = 0 /\ Cardinality(Unanswered) = 0
  BY UnansweredAtFirst, FS_EmptySet DEF Init
<1>5. ASSUME NEW m \in Nat, NEW n \in Nat PROVE m * n + m + 0 + 2 * 0 = m * (n + 1)
  OBVIOUS
<1> QED BY <1>1, <1>2, <1>3, <1>4, <1>5 DEF Effort

\* Connect is over after a bounded number of steps, the boards' included,
\* whatever the boards answer, the port rejects and the bus loses: every step
\* uses up some of Effort, which is a number and at first proportional to the
\* attempts, with the strays that fit into each, and the frames.  (StartupEnds follows where the caller's thread is
\* scheduled.)
THEOREM StartupIsBounded ==
  Spec => /\ Effort = FrameCost * (Len(Frames) + 1)
          /\ [](Effort \in Nat) /\ [][Effort' < Effort]_vars
<1>1. Init => TypeInv /\ EffortInv
  <2>1. Init => IsFiniteSet(Unanswered)
    BY FS_EmptySet, UnansweredAtFirst
  <2> QED BY <2>1, TypeInit DEF Init, EffortInv
<1>2. TypeInv /\ EffortInv /\ [Next]_vars => (TypeInv /\ EffortInv)'
  BY TypeInductive, EffortInvInductive
<1>3. TypeInv /\ EffortInv => Effort \in Nat
  <2>1. ASSUME NEW a \in Nat, NEW s \in Nat, NEW l \in Nat, NEW u \in Nat
        PROVE  a + s + l + 2 * u \in Nat
    OBVIOUS
  <2> QED BY <2>1, AmountsAre DEF Amounts, Effort
<1>4. TypeInv /\ EffortInv /\ [Next]_vars => [Effort' < Effort]_vars
  BY HostEffort, BoardEffort DEF Next
<1>5. Init => Effort = FrameCost * (Len(Frames) + 1)
  BY EffortAtFirst
<1> QED BY <1>1, <1>2, <1>3, <1>4, <1>5, PTL DEF Spec
=============================================================================
