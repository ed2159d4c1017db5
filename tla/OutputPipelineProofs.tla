------------------------ MODULE OutputPipelineProofs ------------------------
(***************************************************************************)
(* What OutputPipeline promises for every number of coils, every queue     *)
(* size, every holdover and every interleaving of the host with the bus    *)
(* thread.                                                                 *)
(***************************************************************************)
EXTENDS OutputPipeline, TLAPS

\* Between joining the bus thread and the next Run there is no bus thread.
Joined == host \notin {"running", "joining"} => bus = "stopped"

\* The frame in hand shows every coil whose copied holdover was not used up.
FrameShowsHeld ==
  bus \in {"send", "consume"}
    => \A c \in Coils : heldBack[c] > 0 => c \in frame.coils

\* A coil switched on while a frame is under way has its holdover complete.
FreshIsComplete ==
  bus \in {"send", "consume"}
    => \A c \in since : hold[c] = HoldFrameCount /\ shown[c] = 0

\* Without such a command the iteration's copy is still accurate.
CopyIsAccurate ==
  bus \in {"send", "consume"}
    => \A c \in Coils \ since : heldBack[c] = hold[c]

\* This coil's frame has been written and its holdover is not consumed yet.
Unsettled(c) == bus = "consume" /\ c \notin since /\ heldBack[c] > 0

\* Holdover left and frames shown make up HoldFrameCount, give or take the
\* frame that is being accounted for and the one the race can lose.
HoldAccount ==
  \A c \in Coils :
    /\ hold[c] + shown[c] + 1 >= HoldFrameCount
    /\ hold[c] + shown[c] <= HoldFrameCount + 1
    /\ Unsettled(c) => hold[c] + shown[c] >= HoldFrameCount
    /\ ~Unsettled(c) => hold[c] + shown[c] <= HoldFrameCount

HoldInv == /\ Joined /\ FrameShowsHeld /\ FreshIsComplete
           /\ CopyIsAccurate /\ HoldAccount

\* An iteration that passed the gate before StopUpdates has written nothing
\* since.
StopInv ==
  ~enabled => /\ afterStop <= 1
              /\ bus \in {"decide", "pop", "compose", "send"} => afterStop = 0

USE DEF HostStates, BusStates, hostState, iteration, history

----------------------------------------------------------------------------
\* ApplyCoilHoldover changes nothing of a frame but its coils.
LEMMA HoldoverType ==
  ASSUME NEW f \in Frames, NEW h \in [Coils -> 0..HoldFrameCount]
  PROVE  /\ ApplyCoilHoldover(f, h) \in Frames
         /\ ApplyCoilHoldover(f, h).ver = f.ver
         /\ ApplyCoilHoldover(f, h).overtook = f.overtook
         /\ ApplyCoilHoldover(f, h).coils = f.coils \cup {c \in Coils : h[c] > 0}
         /\ ApplyCoilHoldover(f, h).lamps = f.lamps
         /\ ApplyCoilHoldover(f, h).gi = f.gi
BY DEF ApplyCoilHoldover, Frames

LEMMA LiveFrameType == TypeOK => LiveFrame \in Frames
BY DEF TypeOK, LiveFrame, Frames

\* Queueing a snapshot keeps the queue a bounded sequence of frames.
LEMMA QueueType ==
  ASSUME TypeOK, NEW cs \in SUBSET Coils, QueueOutputSnapshotLocked(cs)
  PROVE  queue' \in Seq(Frames) /\ Len(queue') <= QueueMax
<1> DEFINE kept == IF Len(queue) >= QueueMax THEN Tail(queue) ELSE queue
           snap == [coils |-> cs, lamps |-> lamps, gi |-> gi,
                    ver |-> ver + 1, overtook |-> FALSE]
<1>1. snap \in Frames
  BY DEF TypeOK, Frames
<1>2. kept \in Seq(Frames) /\ Len(kept) <= QueueMax - 1
  BY QueueAssumption DEF TypeOK
<1>3. queue' = Append(kept, snap)
  BY DEF QueueOutputSnapshotLocked
<1> QED
  BY <1>1, <1>2, <1>3, QueueAssumption

----------------------------------------------------------------------------
LEMMA InitType == Init => TypeOK
<1> SUFFICES ASSUME Init PROVE TypeOK
  OBVIOUS
<1> USE HoldAssumption, QueueAssumption, BurstAssumption, GiAssumption DEF Init
<1>1. gi \in [GiStrings -> 0..MaxGiLevel]
  BY DEF Dark
<1>2. frame \in Frames /\ wire \in Frames
  BY <1>1 DEF Frames
<1>3. /\ hold \in [Coils -> 0..HoldFrameCount]
      /\ heldBack \in [Coils -> 0..HoldFrameCount]
      /\ shown \in [Coils -> 0..HoldFrameCount]
  OBVIOUS
<1>4. /\ queue \in Seq(Frames) /\ Len(queue) <= QueueMax
      /\ snapshot \in Seq(Frames) /\ Len(snapshot) <= 1
  OBVIOUS
<1>5. /\ coils \in SUBSET Coils /\ lamps \in SUBSET Lamps
      /\ since \in SUBSET Coils
      /\ events \in 0..EventsMax /\ eventsSent \in 0..EventsToSend
      /\ ver \in Nat /\ afterStop \in 0..2
  OBVIOUS
<1>6. /\ enabled \in BOOLEAN /\ stop \in BOOLEAN /\ refresh \in BOOLEAN
      /\ host \in HostStates /\ bus \in BusStates
  OBVIOUS
<1> QED
  BY ONLY <1>1, <1>2, <1>3, <1>4, <1>5, <1>6 DEF TypeOK

LEMMA NextType == TypeOK /\ [Next]_vars => TypeOK'
<1> SUFFICES ASSUME TypeOK, [Next]_vars PROVE TypeOK'
  OBVIOUS
<1> USE HoldAssumption, QueueAssumption, BurstAssumption, GiAssumption
<1>1. ASSUME NEW c \in Coils, SolenoidOn(c) PROVE TypeOK'
  <2>1. QueueOutputSnapshotLocked(coils \cup {c}) /\ coils \cup {c} \in SUBSET Coils
    BY <1>1 DEF SolenoidOn, TypeOK
  <2>2. queue' \in Seq(Frames) /\ Len(queue') <= QueueMax
    BY <2>1, QueueType
  <2> QED
    BY <1>1, <2>2 DEF TypeOK, SolenoidOn, CountCommand
<1>2. ASSUME NEW c \in Coils, SolenoidOff(c) PROVE TypeOK'
  <2>1. QueueOutputSnapshotLocked(coils \ {c}) /\ coils \ {c} \in SUBSET Coils
    BY <1>2 DEF SolenoidOff, TypeOK
  <2>2. queue' \in Seq(Frames) /\ Len(queue') <= QueueMax
    BY <2>1, QueueType
  <2> QED
    BY <1>2, <2>2 DEF TypeOK, SolenoidOff, CountCommand
<1>3. ASSUME NEW l \in Lamps, NEW on \in BOOLEAN, Lamp(l, on) PROVE TypeOK'
  BY <1>3 DEF TypeOK, Lamp, CountCommand
<1>4. ASSUME NEW s \in GiStrings, NEW level \in 0..(MaxGiLevel + 1),
             Gi(s, level)
      PROVE TypeOK'
  BY <1>4 DEF TypeOK, Gi, CountCommand, AtMost
<1>5. CASE Effect
  BY <1>5 DEF TypeOK, Effect, AtMost
<1>6. ASSUME NEW on \in BOOLEAN, RunEvent(on) PROVE TypeOK'
  BY <1>6 DEF TypeOK, RunEvent
<1>7. CASE Connect
  BY <1>7 DEF TypeOK, Connect
<1>8. CASE Run
  BY <1>8 DEF TypeOK, Run
<1>9. CASE DisconnectBegin
  BY <1>9 DEF TypeOK, DisconnectBegin
<1>10. CASE Disconnect
  <2>1. CASE DisconnectJoin
    BY <2>1 DEF TypeOK, DisconnectJoin
  <2>2. CASE ClearQueuedEvents
    BY <2>2 DEF TypeOK, ClearQueuedEvents
  <2>3. CASE ClearQueuedOutputSnapshots
    BY <2>3 DEF TypeOK, ClearQueuedOutputSnapshots
  <2>4. CASE ClearOutputState
    <3>1. gi' \in [GiStrings -> 0..MaxGiLevel]
      BY <2>4 DEF ClearOutputState, Dark
    <3>2. hold' \in [Coils -> 0..HoldFrameCount]
          /\ shown' \in [Coils -> 0..HoldFrameCount]
      BY <2>4 DEF ClearOutputState
    <3> QED
      BY <2>4, <3>1, <3>2 DEF TypeOK, ClearOutputState
  <2>5. ASSUME NEW here \in HostStates, NEW there \in HostStates,
               SendOutputsOffFrame(here, there)
        PROVE TypeOK'
    <3>1. LiveFrame \in Frames /\ hold \in [Coils -> 0..HoldFrameCount]
      BY LiveFrameType DEF TypeOK
    <3>2. ApplyCoilHoldover(LiveFrame, hold) \in Frames
      BY <3>1, HoldoverType
    <3>3. wire' \in Frames
      BY <2>5, <3>2 DEF TypeOK, SendOutputsOffFrame
    <3> QED
      BY <2>5, <3>3 DEF TypeOK, SendOutputsOffFrame
  <2>6. CASE DisconnectEnd
    BY <2>6 DEF TypeOK, DisconnectEnd
  <2> QED
    BY <1>10, <2>1, <2>2, <2>3, <2>4, <2>5, <2>6 DEF Disconnect
<1>11. CASE BusThread
  <2> USE DEF BusOnly
  <2>1. CASE LoopTest
    BY <2>1 DEF TypeOK, LoopTest
  <2>2. CASE PopTrigger
    BY <2>2 DEF TypeOK, PopTrigger
  <2>3. CASE SendTrigger \/ DrainDone \/ GateClosed \/ GateOpen \/ ResyncFails
    BY <2>3 DEF TypeOK, SendTrigger, DrainDone, GateClosed, GateOpen,
                ResyncFails
  <2>4. ASSUME NEW due \in BOOLEAN, Decide(due) PROVE TypeOK'
    BY <2>4 DEF TypeOK, Decide
  <2>5. CASE PopSnapshot
    <3>1. CASE ~refresh /\ queue # << >>
      <4>1. Head(queue) \in Frames /\ Tail(queue) \in Seq(Frames)
            /\ Len(Tail(queue)) <= QueueMax
        BY <3>1 DEF TypeOK
      <4>2. snapshot' = << Head(queue) >> /\ queue' = Tail(queue)
        BY <2>5, <3>1 DEF PopSnapshot
      <4>3. snapshot' \in Seq(Frames) /\ Len(snapshot') <= 1
        BY <4>1, <4>2
      <4> QED
        BY <2>5, <4>1, <4>2, <4>3 DEF TypeOK, PopSnapshot
    <3>2. CASE ~(~refresh /\ queue # << >>)
      <4>1. snapshot' = << >> /\ queue' = queue
        BY <2>5, <3>2 DEF PopSnapshot
      <4>2. snapshot' \in Seq(Frames) /\ Len(snapshot') <= 1
        BY <4>1
      <4> QED
        BY <2>5, <4>1, <4>2 DEF TypeOK, PopSnapshot
    <3> QED
      BY <3>1, <3>2
  <2>6. CASE Compose
    <3> DEFINE copied == IF snapshot # << >> THEN Head(snapshot) ELSE LiveFrame
    <3>1. copied \in Frames
      BY LiveFrameType DEF TypeOK
    <3>2. hold \in [Coils -> 0..HoldFrameCount]
      BY DEF TypeOK
    <3>3. ApplyCoilHoldover(copied, hold) \in Frames
      BY <3>1, <3>2, HoldoverType
    <3>4. frame' \in Frames
      BY <2>6, <3>3 DEF Compose
    <3> QED
      BY <2>6, <3>4 DEF TypeOK, Compose
  <2>7. CASE SendOutput
    BY <2>7 DEF TypeOK, SendOutput, AtMost
  <2>8. CASE SendRefresh
    BY <2>8 DEF TypeOK, SendRefresh, AtMost
  <2>9. CASE SendFails
    BY <2>9 DEF TypeOK, SendFails
  <2>10. CASE ConsumeCoilHoldoverLocked
    BY <2>10 DEF TypeOK, ConsumeCoilHoldoverLocked
  <2> QED
    BY <1>11, <2>1, <2>2, <2>3, <2>4, <2>5, <2>6, <2>7, <2>8, <2>9, <2>10
       DEF BusThread
<1>12. CASE UNCHANGED vars
  BY <1>12 DEF TypeOK, vars
<1> QED
  BY <1>1, <1>2, <1>3, <1>4, <1>5, <1>6, <1>7, <1>8, <1>9, <1>10, <1>11,
     <1>12 DEF Next, Command

\* Every variable of the pipeline stays in its type: in particular the
\* snapshot queue never grows beyond QueueMax and no holdover beyond its count.
THEOREM TypeCorrect == Spec => []TypeOK
<1>1. Init => TypeOK
  BY InitType
<1>2. TypeOK /\ [Next]_vars => TypeOK'
  BY NextType
<1> QED
  BY <1>1, <1>2, PTL DEF Spec

----------------------------------------------------------------------------
(* The holdover account.                                                   *)

LEMMA InitHold == Init => HoldInv
BY HoldAssumption
   DEF Init, HoldInv, Joined, FrameShowsHeld, FreshIsComplete, CopyIsAccurate,
       HoldAccount, Unsettled

\* What the account is made of, unchanged while the bus thread moves outside
\* the steps that touch it.
holdVars == << hold, shown, since, heldBack, frame, bus, host >>

LEMMA HoldFrame == HoldInv /\ UNCHANGED holdVars => HoldInv'
BY DEF HoldInv, holdVars, Joined, FrameShowsHeld, FreshIsComplete,
       CopyIsAccurate, HoldAccount, Unsettled

LEMMA NextHold == TypeOK /\ HoldInv /\ [Next]_vars => HoldInv'
<1> SUFFICES ASSUME TypeOK, HoldInv, [Next]_vars PROVE HoldInv'
  OBVIOUS
<1> USE HoldAssumption
<1>1. ASSUME NEW c \in Coils, SolenoidOn(c) PROVE HoldInv'
  <2>0. hold' = [hold EXCEPT ![c] = HoldFrameCount] /\ shown' = [shown EXCEPT ![c] = 0]
        /\ since' = since \cup {c}
        /\ UNCHANGED << heldBack, frame, bus, host >>
    BY <1>1 DEF SolenoidOn
  <2>1. Joined' /\ FrameShowsHeld'
    BY <2>0 DEF HoldInv, Joined, FrameShowsHeld
  <2>2. FreshIsComplete' /\ CopyIsAccurate'
    BY <2>0 DEF HoldInv, FreshIsComplete, CopyIsAccurate, TypeOK
  <2>3. HoldAccount'
    BY <2>0 DEF HoldInv, HoldAccount, Unsettled, TypeOK
  <2> QED
    BY <2>1, <2>2, <2>3 DEF HoldInv
<1>2. ASSUME NEW c \in Coils, SolenoidOff(c) PROVE HoldInv'
  BY <1>2, HoldFrame DEF SolenoidOff, holdVars
<1>3. ASSUME NEW l \in Lamps, NEW on \in BOOLEAN, Lamp(l, on) PROVE HoldInv'
  BY <1>3, HoldFrame DEF Lamp, holdVars
<1>4. ASSUME NEW s \in GiStrings, NEW level \in 0..(MaxGiLevel + 1),
             Gi(s, level)
      PROVE HoldInv'
  BY <1>4, HoldFrame DEF Gi, holdVars
<1>5. CASE Effect
  BY <1>5, HoldFrame DEF Effect, holdVars
<1>6. ASSUME NEW on \in BOOLEAN, RunEvent(on) PROVE HoldInv'
  BY <1>6, HoldFrame DEF RunEvent, holdVars
<1>7. CASE Connect \/ Run \/ DisconnectBegin
  BY <1>7 DEF Connect, Run, DisconnectBegin, HoldInv, Joined, FrameShowsHeld,
              FreshIsComplete, CopyIsAccurate, HoldAccount, Unsettled
<1>8. CASE Disconnect
  <2>1. CASE ClearOutputState
    <3>1. bus = "stopped" /\ bus' = "stopped"
      BY <2>1 DEF ClearOutputState, HoldInv, Joined
    <3>2. hold' = [c \in Coils |-> 0] /\ shown' = [c \in Coils |-> HoldFrameCount]
      BY <2>1 DEF ClearOutputState
    <3> QED
      BY <3>1, <3>2 DEF HoldInv, Joined, FrameShowsHeld, FreshIsComplete,
                        CopyIsAccurate, HoldAccount, Unsettled
  <2>2. CASE ~ClearOutputState
    <3>1. UNCHANGED << hold, shown, since, heldBack, frame, bus >>
          /\ (host' \notin {"running", "joining"} => bus = "stopped")
      BY <1>8, <2>2 DEF Disconnect, DisconnectJoin, ClearQueuedEvents,
         ClearQueuedOutputSnapshots, SendOutputsOffFrame, DisconnectEnd,
         HoldInv, Joined
    <3> QED
      BY <3>1 DEF HoldInv, Joined, FrameShowsHeld, FreshIsComplete,
                  CopyIsAccurate, HoldAccount, Unsettled
  <2> QED
    BY <2>1, <2>2
<1>9. CASE BusThread
  <2> USE DEF BusOnly
  <2>1. CASE \/ LoopTest \/ PopTrigger \/ SendTrigger \/ DrainDone
             \/ GateClosed \/ GateOpen \/ ResyncFails \/ PopSnapshot
             \/ SendFails \/ \E due \in BOOLEAN : Decide(due)
    <3>1. /\ UNCHANGED << hold, shown, since, heldBack, frame, host >>
          /\ bus # "stopped" /\ bus # "consume"
          /\ bus' \notin {"send", "consume"}
      BY <2>1 DEF LoopTest, PopTrigger, SendTrigger, DrainDone, GateClosed,
         GateOpen, ResyncFails, PopSnapshot, SendFails, Decide
    <3> QED
      BY <3>1 DEF HoldInv, Joined, FrameShowsHeld, FreshIsComplete,
                  CopyIsAccurate, HoldAccount, Unsettled
  <2>2. CASE Compose
    <3> DEFINE copied == IF snapshot # << >> THEN Head(snapshot) ELSE LiveFrame
    <3>1. /\ copied \in Frames
          /\ hold \in [Coils -> 0..HoldFrameCount]
      BY LiveFrameType DEF TypeOK
    <3>2. frame' = ApplyCoilHoldover(copied, hold)
      BY <2>2 DEF Compose
    <3>3. frame'.coils = copied.coils \cup {c \in Coils : hold[c] > 0}
      BY <3>1, <3>2, HoldoverType
    <3>4. /\ heldBack' = hold /\ since' = {} /\ bus = "compose" /\ bus' = "send"
          /\ UNCHANGED << hold, shown, host >>
      BY <2>2 DEF Compose
    <3> QED
      BY <3>3, <3>4 DEF HoldInv, Joined, FrameShowsHeld, FreshIsComplete,
         CopyIsAccurate, HoldAccount, Unsettled
  <2>3. CASE SendOutput
    <3>1. /\ bus = "send" /\ bus' = "consume"
          /\ UNCHANGED << hold, since, heldBack, frame, host >>
          /\ shown' = [c \in Coils |-> IF c \in frame.coils \ since
                                       THEN AtMost(shown[c] + 1, HoldFrameCount)
                                       ELSE shown[c]]
      BY <2>3 DEF SendOutput
    <3>2. Joined' /\ FrameShowsHeld' /\ CopyIsAccurate' /\ FreshIsComplete'
      BY <3>1 DEF HoldInv, Joined, FrameShowsHeld, CopyIsAccurate,
                  FreshIsComplete, TypeOK
    <3>3. ASSUME NEW c \in Coils
          PROVE  /\ hold[c] + shown'[c] + 1 >= HoldFrameCount
                 /\ hold[c] + shown'[c] <= HoldFrameCount + 1
                 /\ Unsettled(c)' => hold[c] + shown'[c] >= HoldFrameCount
                 /\ ~Unsettled(c)' => hold[c] + shown'[c] <= HoldFrameCount
      <4>1. hold[c] \in 0..HoldFrameCount /\ shown[c] \in 0..HoldFrameCount
        BY DEF TypeOK
      <4>2. /\ hold[c] + shown[c] + 1 >= HoldFrameCount
            /\ hold[c] + shown[c] <= HoldFrameCount
        BY <3>1 DEF HoldInv, HoldAccount, Unsettled
      <4>3. CASE c \in since
        BY <3>1, <4>1, <4>2, <4>3 DEF Unsettled
      <4>4. CASE c \notin since /\ heldBack[c] > 0
        <5>1. c \in frame.coils
          BY <3>1, <4>4 DEF HoldInv, FrameShowsHeld
        <5>2. shown'[c] = AtMost(shown[c] + 1, HoldFrameCount)
          BY <3>1, <4>4, <5>1
        <5>3. Unsettled(c)'
          BY <3>1, <4>4 DEF Unsettled
        <5> QED
          BY <4>1, <4>2, <5>2, <5>3 DEF AtMost
      <4>5. CASE c \notin since /\ ~(heldBack[c] > 0)
        <5>1. hold[c] = 0
          BY <3>1, <4>1, <4>5 DEF HoldInv, CopyIsAccurate
        <5>2. ~Unsettled(c)'
          BY <3>1, <4>5 DEF Unsettled
        <5>3. \/ shown'[c] = shown[c]
              \/ shown'[c] = AtMost(shown[c] + 1, HoldFrameCount)
          BY <3>1
        <5> QED
          BY <4>1, <4>2, <5>1, <5>2, <5>3 DEF AtMost
      <4> QED
        BY <4>3, <4>4, <4>5
    <3>4. HoldAccount'
      BY <3>1, <3>3 DEF HoldAccount
    <3> QED
      BY <3>2, <3>4 DEF HoldInv
  <2>4. CASE SendRefresh
    <3>1. /\ UNCHANGED << hold, shown, since, heldBack, frame, host >>
          /\ bus = "send" /\ bus' = "loop"
      BY <2>4 DEF SendRefresh
    <3> QED
      BY <3>1 DEF HoldInv, Joined, FrameShowsHeld, FreshIsComplete,
                  CopyIsAccurate, HoldAccount, Unsettled
  <2>5. CASE ConsumeCoilHoldoverLocked
    <3>1. /\ bus = "consume" /\ bus' = "loop"
          /\ UNCHANGED << shown, since, heldBack, frame, host >>
          /\ hold' = [c \in Coils |-> IF heldBack[c] > 0 /\ hold[c] > 0
                                      THEN hold[c] - 1 ELSE hold[c]]
      BY <2>5 DEF ConsumeCoilHoldoverLocked
    <3>2. Joined' /\ FrameShowsHeld' /\ FreshIsComplete' /\ CopyIsAccurate'
      BY <3>1 DEF HoldInv, Joined, FrameShowsHeld, FreshIsComplete,
                  CopyIsAccurate
    <3>3. ASSUME NEW c \in Coils
          PROVE  /\ hold'[c] + shown[c] + 1 >= HoldFrameCount
                 /\ hold'[c] + shown[c] <= HoldFrameCount
                 /\ hold'[c] + shown[c] <= HoldFrameCount + 1
      <4>1. /\ hold[c] \in 0..HoldFrameCount /\ shown[c] \in 0..HoldFrameCount
            /\ heldBack[c] \in 0..HoldFrameCount
        BY DEF TypeOK
      <4>2. /\ hold[c] + shown[c] + 1 >= HoldFrameCount
            /\ Unsettled(c) => hold[c] + shown[c] >= HoldFrameCount
            /\ ~Unsettled(c) => hold[c] + shown[c] <= HoldFrameCount
        BY DEF HoldInv, HoldAccount
      <4>3. CASE c \in since
        <5>1. hold[c] = HoldFrameCount /\ shown[c] = 0
          BY <3>1, <4>3 DEF HoldInv, FreshIsComplete
        <5> QED
          BY <3>1, <4>1, <5>1
      <4>4. CASE c \notin since /\ heldBack[c] > 0
        <5>1. Unsettled(c) /\ hold[c] = heldBack[c]
          BY <3>1, <4>4 DEF Unsettled, HoldInv, CopyIsAccurate
        <5>2. hold'[c] = hold[c] - 1
          BY <3>1, <4>4, <5>1
        <5>3. hold[c] + shown[c] <= HoldFrameCount + 1
          BY DEF HoldInv, HoldAccount
        <5> QED
          BY <4>1, <4>2, <5>1, <5>2, <5>3
      <4>5. CASE c \notin since /\ ~(heldBack[c] > 0)
        <5>1. ~Unsettled(c) /\ hold'[c] = hold[c]
          BY <3>1, <4>5 DEF Unsettled
        <5> QED
          BY <4>1, <4>2, <5>1
      <4> QED
        BY <4>3, <4>4, <4>5
    <3>4. HoldAccount'
      <4>1. \A c \in Coils : ~Unsettled(c)'
        BY <3>1 DEF Unsettled
      <4> QED
        BY <3>1, <3>3, <4>1 DEF HoldAccount
    <3> QED
      BY <3>2, <3>4 DEF HoldInv
  <2> QED
    BY <1>9, <2>1, <2>2, <2>3, <2>4, <2>5 DEF BusThread
<1>10. CASE UNCHANGED vars
  BY <1>10, HoldFrame DEF vars, holdVars
<1> QED
  BY <1>1, <1>2, <1>3, <1>4, <1>5, <1>6, <1>7, <1>8, <1>9, <1>10
     DEF Next, Command

LEMMA HoldInvariant == Spec => [](TypeOK /\ HoldInv)
<1>1. Init => TypeOK /\ HoldInv
  BY InitType, InitHold
<1>2. TypeOK /\ HoldInv /\ [Next]_vars => (TypeOK /\ HoldInv)'
  BY NextType, NextHold
<1> QED
  BY <1>1, <1>2, PTL DEF Spec

\* A coil's holdover runs out only after at least HoldFrameCount - 1 frames
\* composed after the last command that switched it on have shown it.
THEOREM MinimumPulseHolds == Spec => []MinimumPulse
<1>1. TypeOK /\ HoldInv => MinimumPulse
  BY HoldAssumption DEF TypeOK, HoldInv, HoldAccount, MinimumPulse
<1> QED
  BY <1>1, HoldInvariant, PTL

\* Holdover never keeps a coil on for more than HoldFrameCount such frames.
THEOREM BoundedPulseHolds == Spec => []BoundedPulse
<1>1. TypeOK /\ HoldInv => BoundedPulse
  BY DEF HoldInv, HoldAccount, BoundedPulse, Unsettled
<1> QED
  BY <1>1, HoldInvariant, PTL

----------------------------------------------------------------------------
(* Stopping.                                                               *)

LEMMA NextStop == TypeOK /\ StopInv /\ [Next]_vars => StopInv'
<1> SUFFICES ASSUME TypeOK, StopInv, [Next]_vars PROVE StopInv'
  OBVIOUS
<1> USE DEF StopInv
<1>1. CASE \E c \in Coils : SolenoidOn(c) \/ SolenoidOff(c)
  BY <1>1 DEF SolenoidOn, SolenoidOff
<1>2. ASSUME NEW l \in Lamps, NEW on \in BOOLEAN, Lamp(l, on) PROVE StopInv'
  BY <1>2 DEF Lamp
<1>3. ASSUME NEW s \in GiStrings, NEW level \in 0..(MaxGiLevel + 1),
             Gi(s, level)
      PROVE StopInv'
  BY <1>3 DEF Gi
<1>4. CASE Effect
  BY <1>4 DEF Effect
<1>5. ASSUME NEW on \in BOOLEAN, RunEvent(on) PROVE StopInv'
  BY <1>5 DEF RunEvent, TypeOK
<1>6. CASE Connect \/ Run \/ DisconnectBegin
  BY <1>6 DEF Connect, Run, DisconnectBegin
<1>7. CASE Disconnect
  BY <1>7 DEF Disconnect, DisconnectJoin, ClearQueuedEvents,
     ClearQueuedOutputSnapshots, ClearOutputState, SendOutputsOffFrame,
     DisconnectEnd
<1>8. CASE BusThread
  BY <1>8 DEF BusThread, BusOnly, LoopTest, PopTrigger, SendTrigger, DrainDone,
     GateClosed, GateOpen, ResyncFails, Decide, PopSnapshot, Compose,
     SendOutput, SendRefresh, SendFails, ConsumeCoilHoldoverLocked, AtMost
<1>9. CASE UNCHANGED vars
  BY <1>9 DEF vars
<1> QED
  BY <1>1, <1>2, <1>3, <1>4, <1>5, <1>6, <1>7, <1>8, <1>9 DEF Next, Command

\* StopUpdates lets through at most the frame of the iteration under way.
THEOREM StopSettlesHolds == Spec => []StopSettles
<1>1. Init => TypeOK /\ StopInv
  BY InitType DEF Init, StopInv
<1>2. TypeOK /\ StopInv /\ [Next]_vars => (TypeOK /\ StopInv)'
  BY NextType, NextStop
<1>3. StopInv => StopSettles
  BY DEF StopInv, StopSettles
<1> QED
  BY <1>1, <1>2, <1>3, PTL DEF Spec

----------------------------------------------------------------------------
(* Disconnecting.                                                          *)

\* While Disconnect sends its last frames there is nothing left to show.
OffInv ==
  host \in {"off1", "off2"}
    => coils = {} /\ lamps = {} /\ gi = Dark /\ (\A c \in Coils : hold[c] = 0)

\* A host that is inside Disconnect issues no command.
LEMMA NextOff ==
  ASSUME OneHostThread PROVE HoldInv /\ OffInv /\ [Next]_vars => OffInv'
<1> SUFFICES ASSUME HoldInv, OffInv, [Next]_vars PROVE OffInv'
  OBVIOUS
<1>1. CASE Command
  <2>1. host \notin {"off1", "off2"} /\ host' = host
    BY <1>1 DEF Command, HostIsFree, SolenoidOn, SolenoidOff, Lamp, Gi, Effect,
       RunEvent
  <2> QED
    BY <2>1 DEF OffInv
<1>2. CASE Connect \/ Run \/ DisconnectBegin
  BY <1>2 DEF Connect, Run, DisconnectBegin, OffInv
<1>3. CASE Disconnect
  <2>1. CASE ClearOutputState
    BY <2>1 DEF ClearOutputState, OffInv
  <2>2. CASE DisconnectJoin \/ ClearQueuedEvents
             \/ ClearQueuedOutputSnapshots \/ DisconnectEnd
    BY <2>2 DEF DisconnectJoin, ClearQueuedEvents, DisconnectEnd,
       ClearQueuedOutputSnapshots, OffInv
  <2>3. CASE \/ SendOutputsOffFrame("off1", "off2")
             \/ SendOutputsOffFrame("off2", "closing")
    BY <2>3 DEF SendOutputsOffFrame, OffInv
  <2> QED
    BY <1>3, <2>1, <2>2, <2>3 DEF Disconnect
<1>4. CASE BusThread
  <2>1. host \in {"running", "joining"} /\ host' = host
    BY <1>4 DEF HoldInv, Joined, BusThread, BusOnly, LoopTest, PopTrigger,
       SendTrigger, DrainDone, GateClosed, GateOpen, ResyncFails, Decide,
       PopSnapshot, Compose, SendOutput, SendRefresh, SendFails,
       ConsumeCoilHoldoverLocked
  <2> QED
    BY <2>1 DEF OffInv
<1>5. CASE UNCHANGED vars
  BY <1>5 DEF vars, OffInv
<1> QED
  BY <1>1, <1>2, <1>3, <1>4, <1>5 DEF Next

\* With one host thread, the only frame that reaches the bus between the end
\* of the bus thread and the next Run is all-off.
THEOREM QuietAfterJoinHolds == ASSUME OneHostThread PROVE Spec => QuietAfterJoin
<1> DEFINE Inv == TypeOK /\ HoldInv /\ OffInv
<1>1. Init => Inv
  BY InitType, InitHold DEF Init, OffInv
<1>2. Inv /\ [Next]_vars => Inv'
  BY NextType, NextHold, NextOff
<1>3. Inv /\ [Next]_vars
        => [host \notin {"running", "joining"} /\ wire' # wire
              => IsAllOff(wire')]_vars
  <2> SUFFICES ASSUME Inv, Next, host \notin {"running", "joining"},
                      wire' # wire
               PROVE  IsAllOff(wire')
    BY DEF vars
  <2>1. ~BusThread
    BY DEF HoldInv, Joined, BusThread, LoopTest, PopTrigger,
       SendTrigger, DrainDone, GateClosed, GateOpen, ResyncFails, Decide,
       PopSnapshot, Compose, SendOutput, SendRefresh, SendFails,
       ConsumeCoilHoldoverLocked
  <2>2. \/ SendOutputsOffFrame("off1", "off2")
        \/ SendOutputsOffFrame("off2", "closing")
    BY <2>1 DEF Next, Command, SolenoidOn, SolenoidOff, Lamp, Gi, Effect,
       RunEvent, Connect, Run, DisconnectBegin, Disconnect, DisconnectJoin,
       ClearQueuedEvents, ClearQueuedOutputSnapshots, ClearOutputState,
       DisconnectEnd
  <2>3. host \in {"off1", "off2"} /\ wire' = ApplyCoilHoldover(LiveFrame, hold)
    BY <2>2 DEF SendOutputsOffFrame
  <2>4. LiveFrame \in Frames /\ hold \in [Coils -> 0..HoldFrameCount]
    BY LiveFrameType DEF TypeOK
  <2>5. /\ wire'.coils = LiveFrame.coils \cup {c \in Coils : hold[c] > 0}
        /\ wire'.lamps = LiveFrame.lamps /\ wire'.gi = LiveFrame.gi
    BY <2>3, <2>4, HoldoverType
  <2>6. /\ {c \in Coils : hold[c] > 0} = {}
        /\ LiveFrame.coils = {} /\ LiveFrame.lamps = {} /\ LiveFrame.gi = Dark
    BY <2>3 DEF OffInv, LiveFrame
  <2> QED
    BY <2>5, <2>6 DEF IsAllOff
<1> QED
  BY <1>1, <1>2, <1>3, PTL DEF Spec, QuietAfterJoin

----------------------------------------------------------------------------
(* The order on the bus.                                                   *)

\* No snapshot waiting is older than version n of the host's state.
WaitingFrom(n) == \A p \in DOMAIN queue : n <= queue[p].ver

\* Snapshots wait in the order of their commands.
QueueInOrder ==
  \A p \in DOMAIN queue :
    /\ queue[p].ver <= ver
    /\ \A q \in DOMAIN queue : p < q => queue[p].ver <= queue[q].ver

\* The snapshot in hand is older than those waiting.
SnapshotIsNext ==
  bus = "compose" /\ snapshot # << >>
    => snapshot[1].ver <= ver /\ WaitingFrom(snapshot[1].ver)

\* So is the frame in hand, unless it has overtaken them.
FrameIsNext ==
  bus = "send" => /\ frame.ver <= ver
                  /\ frame.overtook \/ WaitingFrom(frame.ver)

\* And the frame on the bus is older than all of these.
WireIsBehind ==
  /\ wire.ver <= ver
  /\ \/ wire.overtook
     \/ /\ WaitingFrom(wire.ver)
        /\ bus = "compose" /\ snapshot # << >> => wire.ver <= snapshot[1].ver
        /\ bus = "send" => wire.ver <= frame.ver

OrderInv == QueueInOrder /\ SnapshotIsNext /\ FrameIsNext /\ WireIsBehind

LEMMA InitOrder == Init => OrderInv
BY DEF Init, OrderInv, QueueInOrder, SnapshotIsNext, FrameIsNext, WireIsBehind,
   WaitingFrom

\* Versions are numbers.
LEMMA Versions ==
  ASSUME TypeOK
  PROVE  /\ ver \in Nat /\ wire.ver \in Nat /\ frame.ver \in Nat
         /\ \A p \in DOMAIN queue : queue[p].ver \in Nat
         /\ snapshot # << >> => snapshot[1].ver \in Nat /\ snapshot[1] \in Frames
<1>1. \A f \in Frames : f.ver \in Nat
  BY DEF Frames
<1>2. \A p \in DOMAIN queue : queue[p] \in Frames
  BY DEF TypeOK
<1>3. snapshot # << >> => snapshot[1] \in Frames
  BY DEF TypeOK
<1> QED BY <1>1, <1>2, <1>3 DEF TypeOK

\* A command's snapshot comes last, and none of the others changes places.
LEMMA QueueGrows ==
  ASSUME TypeOK, QueueInOrder, NEW cs \in SUBSET Coils,
         QueueOutputSnapshotLocked(cs), ver' = ver + 1
  PROVE  /\ QueueInOrder'
         /\ \A n \in Nat : n <= ver /\ WaitingFrom(n) => WaitingFrom(n)'
<1> DEFINE drop == IF Len(queue) >= QueueMax THEN 1 ELSE 0
           snap == [coils |-> cs, lamps |-> lamps, gi |-> gi,
                    ver |-> ver + 1, overtook |-> FALSE]
           kept == IF Len(queue) >= QueueMax THEN Tail(queue) ELSE queue
<1>1. queue \in Seq(Frames) /\ Len(queue) \in Nat /\ ver \in Nat
  BY DEF TypeOK
<1>2. /\ kept \in Seq(Frames) /\ Len(kept) = Len(queue) - drop
      /\ \A p \in 1..Len(kept) : p + drop \in DOMAIN queue /\ kept[p] = queue[p + drop]
  BY <1>1, QueueAssumption
<1>3. snap \in Frames /\ snap.ver = ver + 1
  BY DEF TypeOK, Frames
<1>4. queue' = Append(kept, snap)
  BY DEF QueueOutputSnapshotLocked
<1>5. drop \in {0, 1}
  OBVIOUS
<1> HIDE DEF snap, kept, drop
<1>6. /\ DOMAIN queue' = 1..(Len(kept) + 1) /\ Len(kept) \in Nat
      /\ \A p \in 1..Len(kept) : queue'[p] = kept[p]
      /\ queue'[Len(kept) + 1] = snap
  BY <1>2, <1>3, <1>4
<1>7. \A p \in DOMAIN queue' :
        \/ /\ p \in 1..Len(kept) /\ p + drop \in DOMAIN queue
           /\ queue'[p].ver = queue[p + drop].ver
        \/ p = Len(kept) + 1 /\ queue'[p].ver = ver + 1
  <2> TAKE p \in DOMAIN queue'
  <2>1. p \in 1..Len(kept) \/ p = Len(kept) + 1
    BY <1>6
  <2> QED BY <1>2, <1>3, <1>6, <2>1
<1>8. \A q \in DOMAIN queue : queue[q].ver \in Nat
  BY Versions
<1>9. \A p \in DOMAIN queue' : queue'[p].ver \in Nat /\ queue'[p].ver <= ver + 1
  <2> TAKE p \in DOMAIN queue'
  <2>1. CASE p + drop \in DOMAIN queue /\ queue'[p].ver = queue[p + drop].ver
    BY <1>1, <1>8, <2>1 DEF QueueInOrder
  <2>2. CASE queue'[p].ver = ver + 1
    BY <1>1, <2>2
  <2> QED BY <1>7, <2>1, <2>2
<1>10. \A p, q \in DOMAIN queue' : p < q => queue'[p].ver <= queue'[q].ver
  <2> SUFFICES ASSUME NEW p \in DOMAIN queue', NEW q \in DOMAIN queue', p < q
               PROVE  queue'[p].ver <= queue'[q].ver
    OBVIOUS
  <2>0. p \in Nat /\ q \in Nat /\ Len(kept) \in Nat
    BY <1>6
  <2>1. CASE q = Len(kept) + 1 /\ queue'[q].ver = ver + 1
    BY <1>9, <2>1
  <2>2. CASE q \in 1..Len(kept) /\ q + drop \in DOMAIN queue
             /\ queue'[q].ver = queue[q + drop].ver
    <3>1. p # Len(kept) + 1
      BY <2>0, <2>2
    <3>2. p + drop \in DOMAIN queue /\ queue'[p].ver = queue[p + drop].ver
      BY <1>7, <3>1
    <3>3. p + drop < q + drop
      BY <1>5, <2>0
    <3> QED BY <2>2, <3>2, <3>3 DEF QueueInOrder
  <2> QED BY <1>7, <2>1, <2>2
<1>11. QueueInOrder'
  BY <1>9, <1>10 DEF QueueInOrder
<1>12. ASSUME NEW n \in Nat, n <= ver, WaitingFrom(n) PROVE WaitingFrom(n)'
  <2> SUFFICES ASSUME NEW p \in DOMAIN queue' PROVE n <= queue'[p].ver
    BY DEF WaitingFrom
  <2>1. CASE p + drop \in DOMAIN queue /\ queue'[p].ver = queue[p + drop].ver
    BY <1>12, <2>1 DEF WaitingFrom
  <2>2. CASE queue'[p].ver = ver + 1
    BY <1>1, <1>12, <2>2
  <2> QED BY <1>7, <2>1, <2>2
<1> QED BY <1>11, <1>12

\* The host's commands are newer than all that is under way.
LEMMA CommandOrder == TypeOK /\ OrderInv /\ Command => OrderInv'
<1> SUFFICES ASSUME TypeOK, OrderInv, Command PROVE OrderInv'
  OBVIOUS
<1>1. UNCHANGED << bus, snapshot, frame, wire >>
  BY DEF Command, SolenoidOn, SolenoidOff, Lamp, Gi, Effect, RunEvent
<1>2. ver' \in Nat /\ ver <= ver'
  <2>1. ver' = ver \/ ver' = ver + 1
    BY DEF Command, SolenoidOn, SolenoidOff, Lamp, Gi, Effect, RunEvent,
       CountCommand
  <2>2. ver \in Nat
    BY Versions
  <2> QED BY <2>1, <2>2
<1>3. /\ QueueInOrder'
      /\ \A n \in Nat : n <= ver /\ WaitingFrom(n) => WaitingFrom(n)'
  <2>1. ASSUME NEW c \in Coils, SolenoidOn(c) \/ SolenoidOff(c)
        PROVE  \E cs \in SUBSET Coils : QueueOutputSnapshotLocked(cs) /\ ver' = ver + 1
    <3>1. coils \cup {c} \in SUBSET Coils /\ coils \ {c} \in SUBSET Coils
      BY DEF TypeOK
    <3> QED BY <2>1, <3>1 DEF SolenoidOn, SolenoidOff, CountCommand
  <2>2. CASE \E c \in Coils : SolenoidOn(c) \/ SolenoidOff(c)
    BY <2>1, <2>2, QueueGrows DEF OrderInv
  <2>3. CASE UNCHANGED queue
    <3>1. \A p \in DOMAIN queue : queue[p].ver <= ver'
      BY <1>2, Versions DEF OrderInv, QueueInOrder
    <3> QED BY <2>3, <3>1 DEF OrderInv, QueueInOrder, WaitingFrom
  <2>4. (\E c \in Coils : SolenoidOn(c) \/ SolenoidOff(c)) \/ UNCHANGED queue
    BY DEF Command, Lamp, Gi, Effect, RunEvent
  <2> QED BY <2>2, <2>3, <2>4
<1>4. SnapshotIsNext'
  BY <1>1, <1>2, <1>3, Versions DEF OrderInv, SnapshotIsNext
<1>5. FrameIsNext'
  BY <1>1, <1>2, <1>3, Versions DEF OrderInv, FrameIsNext
<1>6. WireIsBehind'
  BY <1>1, <1>2, <1>3, Versions DEF OrderInv, WireIsBehind
<1> QED BY <1>3, <1>4, <1>5, <1>6 DEF OrderInv

\* The bus thread takes the oldest snapshot.
LEMMA PopOrder == TypeOK /\ OrderInv /\ PopSnapshot => OrderInv'
<1> SUFFICES ASSUME TypeOK, OrderInv, PopSnapshot PROVE OrderInv'
  OBVIOUS
<1>1. bus' = "compose" /\ UNCHANGED << ver, frame, wire >>
  BY DEF PopSnapshot
<1>2. queue \in Seq(Frames)
  BY DEF TypeOK
<1>3. CASE ~refresh /\ queue # << >>
  <2>1. snapshot' = << Head(queue) >> /\ queue' = Tail(queue)
    BY <1>3 DEF PopSnapshot
  <2>2. /\ 1 \in DOMAIN queue /\ snapshot'[1] = queue[1]
        /\ \A p \in DOMAIN queue' : /\ p \in Nat /\ 1 < p + 1 /\ p + 1 \in DOMAIN queue
                                    /\ queue'[p] = queue[p + 1]
    BY <1>2, <1>3, <2>1
  <2>3. \A p, q \in DOMAIN queue' : p < q => p + 1 < q + 1
    BY <2>2
  <2>4. QueueInOrder'
    BY <1>1, <2>2, <2>3 DEF OrderInv, QueueInOrder
  <2>5. SnapshotIsNext'
    BY <1>1, <2>2 DEF OrderInv, QueueInOrder, SnapshotIsNext, WaitingFrom
  <2>6. WireIsBehind'
    BY <1>1, <2>2 DEF OrderInv, WireIsBehind, WaitingFrom
  <2> QED BY <1>1, <2>4, <2>5, <2>6 DEF OrderInv, FrameIsNext
<1>4. CASE ~(~refresh /\ queue # << >>)
  <2>1. snapshot' = << >> /\ queue' = queue
    BY <1>4 DEF PopSnapshot
  <2> QED BY <1>1, <2>1 DEF OrderInv, QueueInOrder, SnapshotIsNext, FrameIsNext,
             WireIsBehind, WaitingFrom
<1> QED BY <1>3, <1>4

\* A frame is of the snapshot's version, or of the newest.
LEMMA ComposeOrder == TypeOK /\ OrderInv /\ Compose => OrderInv'
<1> SUFFICES ASSUME TypeOK, OrderInv, Compose PROVE OrderInv'
  OBVIOUS
<1> DEFINE copied == IF snapshot # << >> THEN Head(snapshot) ELSE LiveFrame
<1>1. bus = "compose" /\ bus' = "send" /\ UNCHANGED << ver, queue, snapshot, wire >>
  BY DEF Compose
<1>2. snapshot # << >> => Head(snapshot) = snapshot[1] /\ snapshot[1] \in Frames
  BY Versions DEF TypeOK
<1>3. copied \in Frames /\ hold \in [Coils -> 0..HoldFrameCount]
  BY <1>2, LiveFrameType DEF TypeOK
<1>4. frame'.ver = copied.ver /\ frame'.overtook = copied.overtook
  <2>1. frame' = ApplyCoilHoldover(copied, hold)
    BY DEF Compose
  <2> HIDE DEF copied
  <2> QED BY <1>3, <2>1, HoldoverType
<1>5. CASE snapshot # << >>
  <2>1. frame'.ver = snapshot[1].ver
    BY <1>2, <1>4, <1>5
  <2> QED BY <1>1, <1>5, <2>1 DEF OrderInv, QueueInOrder, SnapshotIsNext,
             FrameIsNext, WireIsBehind, WaitingFrom
<1>6. CASE snapshot = << >>
  <2>1. frame'.ver = ver /\ frame'.overtook = (queue # << >>)
    BY <1>4, <1>6 DEF LiveFrame
  <2>2. ver <= ver
    BY Versions
  <2>3. queue = << >> => WaitingFrom(ver)
    BY DEF WaitingFrom
  <2>4. FrameIsNext'
    BY <1>1, <2>1, <2>2, <2>3 DEF FrameIsNext, WaitingFrom
  <2>5. WireIsBehind'
    BY <1>1, <2>1 DEF OrderInv, WireIsBehind, WaitingFrom
  <2> QED BY <1>1, <2>4, <2>5 DEF OrderInv, QueueInOrder, SnapshotIsNext
<1> QED BY <1>5, <1>6

\* Disconnect's frames are of the newest version, and the bus thread has ended.
LEMMA DisconnectOrder ==
  TypeOK /\ HoldInv /\ OrderInv /\ Disconnect => OrderInv'
<1> SUFFICES ASSUME TypeOK, HoldInv, OrderInv, Disconnect PROVE OrderInv'
  OBVIOUS
<1>1. UNCHANGED << bus, snapshot, frame, ver >>
  BY DEF Disconnect, DisconnectJoin, ClearQueuedEvents, ClearQueuedOutputSnapshots,
     ClearOutputState, SendOutputsOffFrame, DisconnectEnd
<1>2. CASE UNCHANGED wire /\ (queue' = queue \/ queue' = << >>)
  BY <1>1, <1>2 DEF OrderInv, QueueInOrder, SnapshotIsNext, FrameIsNext,
     WireIsBehind, WaitingFrom
<1>3. CASE \/ SendOutputsOffFrame("off1", "off2")
           \/ SendOutputsOffFrame("off2", "closing")
  <2>1. bus = "stopped" /\ UNCHANGED queue
    BY <1>3 DEF SendOutputsOffFrame, HoldInv, Joined
  <2>2. CASE UNCHANGED wire
    BY <1>2, <2>1, <2>2
  <2>3. CASE wire' = ApplyCoilHoldover(LiveFrame, hold)
    <3>1. wire'.ver = LiveFrame.ver /\ wire'.overtook = LiveFrame.overtook
      BY <2>3, HoldoverType, LiveFrameType DEF TypeOK
    <3>2. wire'.ver = ver /\ wire'.overtook = (queue # << >>) /\ ver <= ver
      BY <3>1, Versions DEF LiveFrame
    <3>3. queue = << >> => WaitingFrom(wire'.ver)
      BY DEF WaitingFrom
    <3>4. wire'.overtook \/ WaitingFrom(wire.ver)'
      BY <2>1, <3>2, <3>3 DEF WaitingFrom
    <3>5. WireIsBehind'
      BY <1>1, <2>1, <3>2, <3>4 DEF WireIsBehind
    <3> QED BY <1>1, <2>1, <3>5 DEF OrderInv, QueueInOrder, SnapshotIsNext,
               FrameIsNext
  <2> QED BY <1>3, <2>2, <2>3 DEF SendOutputsOffFrame
<1>4. \/ UNCHANGED wire /\ (queue' = queue \/ queue' = << >>)
      \/ SendOutputsOffFrame("off1", "off2") \/ SendOutputsOffFrame("off2", "closing")
  BY DEF Disconnect, DisconnectJoin, ClearQueuedEvents, ClearQueuedOutputSnapshots,
     ClearOutputState, DisconnectEnd
<1> QED BY <1>2, <1>3, <1>4

\* The rest of the bus thread's steps move no frame but the one in hand.
LEMMA BusOrder == TypeOK /\ OrderInv /\ BusThread => OrderInv'
<1> SUFFICES ASSUME TypeOK, OrderInv, BusThread PROVE OrderInv'
  OBVIOUS
<1>1. CASE PopSnapshot
  BY <1>1, PopOrder
<1>2. CASE Compose
  BY <1>2, ComposeOrder
<1>3. CASE SendOutput
  <2>1. bus = "send" /\ bus' = "consume" /\ wire' = frame /\ UNCHANGED << ver, queue >>
    BY <1>3 DEF SendOutput
  <2> QED BY <2>1 DEF OrderInv, QueueInOrder, SnapshotIsNext, FrameIsNext,
             WireIsBehind, WaitingFrom
<1>4. CASE \/ LoopTest \/ PopTrigger \/ SendTrigger \/ DrainDone \/ GateClosed
           \/ GateOpen \/ ResyncFails \/ (\E due \in BOOLEAN : Decide(due))
           \/ SendRefresh \/ SendFails \/ ConsumeCoilHoldoverLocked
  <2>1. bus' \notin {"compose", "send"} /\ UNCHANGED << ver, queue, wire >>
    BY <1>4 DEF LoopTest, PopTrigger, SendTrigger, DrainDone, GateClosed, GateOpen,
       ResyncFails, Decide, SendRefresh, SendFails, ConsumeCoilHoldoverLocked, BusOnly
  <2> QED BY <2>1 DEF OrderInv, QueueInOrder, SnapshotIsNext, FrameIsNext,
             WireIsBehind, WaitingFrom
<1> QED BY <1>1, <1>2, <1>3, <1>4 DEF BusThread

LEMMA NextOrder == TypeOK /\ HoldInv /\ OrderInv /\ [Next]_vars => OrderInv'
<1> SUFFICES ASSUME TypeOK, HoldInv, OrderInv, [Next]_vars PROVE OrderInv'
  OBVIOUS
<1>1. CASE Command
  BY <1>1, CommandOrder
<1>2. CASE Connect \/ Run \/ DisconnectBegin
  <2>1. /\ bus' = bus \/ bus' = "loop"
        /\ UNCHANGED << ver, queue, snapshot, frame, wire >>
    BY <1>2 DEF Connect, Run, DisconnectBegin
  <2> QED BY <2>1 DEF OrderInv, QueueInOrder, SnapshotIsNext, FrameIsNext,
             WireIsBehind, WaitingFrom
<1>3. CASE Disconnect
  BY <1>3, DisconnectOrder
<1>4. CASE BusThread
  BY <1>4, BusOrder
<1>5. CASE UNCHANGED vars
  BY <1>5 DEF vars, OrderInv, QueueInOrder, SnapshotIsNext, FrameIsNext,
     WireIsBehind, WaitingFrom
<1> QED BY <1>1, <1>2, <1>3, <1>4, <1>5 DEF Next

\* The bus goes back to an older host state only after a frame that overtook
\* snapshots waiting (RS485Comm::Run, RS485Comm::QueueOutputSnapshotLocked).
THEOREM WireOrderHolds == Spec => WireOrder
<1> DEFINE Inv == TypeOK /\ HoldInv /\ OrderInv
<1>1. Init => Inv
  BY InitType, InitHold, InitOrder
<1>2. Inv /\ [Next]_vars => Inv'
  BY NextType, NextHold, NextOrder
<1>3. Inv /\ [Next]_vars => [wire'.ver < wire.ver => wire.overtook]_vars
  <2> SUFFICES ASSUME Inv, Next PROVE wire'.ver < wire.ver => wire.overtook
    BY DEF vars
  <2>1. CASE SendOutput
    <3>1. bus = "send" /\ wire' = frame
      BY <2>1 DEF SendOutput
    <3>2. wire.overtook \/ wire.ver <= frame.ver
      BY <3>1 DEF OrderInv, WireIsBehind
    <3>3. wire.ver \in Nat /\ frame.ver \in Nat
      BY Versions
    <3> QED BY <3>1, <3>2, <3>3
  <2>2. CASE wire' = ApplyCoilHoldover(LiveFrame, hold)
    <3>1. wire'.ver = LiveFrame.ver
      BY <2>2, HoldoverType, LiveFrameType DEF TypeOK
    <3>2. wire'.ver = ver /\ wire.ver <= ver /\ wire.ver \in Nat /\ ver \in Nat
      BY <3>1, Versions DEF LiveFrame, OrderInv, WireIsBehind
    <3> QED BY <3>2
  <2>3. CASE UNCHANGED wire
    BY <2>3, Versions
  <2>4. SendOutput \/ wire' = ApplyCoilHoldover(LiveFrame, hold) \/ UNCHANGED wire
    BY DEF Next, Command, SolenoidOn, SolenoidOff, Lamp, Gi, Effect,
       RunEvent, Connect, Run, DisconnectBegin, Disconnect, DisconnectJoin,
       ClearQueuedEvents, ClearQueuedOutputSnapshots, ClearOutputState,
       SendOutputsOffFrame, DisconnectEnd, BusThread, BusOnly, LoopTest,
       PopTrigger, SendTrigger, DrainDone, GateClosed, GateOpen, ResyncFails,
       Decide, PopSnapshot, Compose, SendRefresh, SendFails,
       ConsumeCoilHoldoverLocked
  <2> QED BY <2>1, <2>2, <2>3, <2>4
<1> QED
  BY <1>1, <1>2, <1>3, PTL DEF Spec, WireOrder

----------------------------------------------------------------------------
(* How long Disconnect can take.  That it returns is a matter of fairness;  *)
(* what is proved is that every step of the two threads uses something up. *)

Disconnecting == host \notin {"closed", "open", "running"}

\* Nothing takes m_stopRequested back before the port is closed.
StopStands == Disconnecting => stop

\* Steps the bus thread may still take once it has been told to stop: the rest
\* of its burst of triggers and of its iteration.
BusLeft ==
  CASE bus = "stopped" -> 0
    [] bus = "loop"    -> 1
    [] bus = "consume" -> 2
    [] bus = "send"    -> 3
    [] bus = "compose" -> 4
    [] bus = "pop"     -> 5
    [] bus = "decide"  -> 6
    [] bus = "gate"    -> 7
    [] bus = "drain"   -> 8 + 2 * (EventsToSend - eventsSent)
    [] bus = "trigger" -> 9 + 2 * (EventsToSend - eventsSent)

\* Steps of Disconnect itself.
HostLeft ==
  CASE host = "joining"     -> 7
    [] host = "clearEvents" -> 6
    [] host = "clearQueue"  -> 5
    [] host = "clearState"  -> 4
    [] host = "off1"        -> 3
    [] host = "off2"        -> 2
    [] host = "closing"     -> 1
    [] OTHER                -> 0

StepsLeft == BusLeft + HostLeft

BusLeftTable ==
  /\ bus = "stopped" => BusLeft = 0
  /\ bus = "loop" => BusLeft = 1
  /\ bus = "consume" => BusLeft = 2
  /\ bus = "send" => BusLeft = 3
  /\ bus = "compose" => BusLeft = 4
  /\ bus = "pop" => BusLeft = 5
  /\ bus = "decide" => BusLeft = 6
  /\ bus = "gate" => BusLeft = 7
  /\ bus = "drain" => BusLeft = 8 + 2 * (EventsToSend - eventsSent)
  /\ bus = "trigger" => BusLeft = 9 + 2 * (EventsToSend - eventsSent)

LEMMA BusLeftIs == BusLeftTable
<1>1. bus = "stopped" => BusLeft = 0
  BY DEF BusLeft
<1>2. bus = "loop" => BusLeft = 1
  BY DEF BusLeft
<1>3. bus = "consume" => BusLeft = 2
  BY DEF BusLeft
<1>4. bus = "send" => BusLeft = 3
  BY DEF BusLeft
<1>5. bus = "compose" => BusLeft = 4
  BY DEF BusLeft
<1>6. bus = "pop" => BusLeft = 5
  BY DEF BusLeft
<1>7. bus = "decide" => BusLeft = 6
  BY DEF BusLeft
<1>8. bus = "gate" => BusLeft = 7
  BY DEF BusLeft
<1>9. bus = "drain" => BusLeft = 8 + 2 * (EventsToSend - eventsSent)
  BY DEF BusLeft
<1>10. bus = "trigger" => BusLeft = 9 + 2 * (EventsToSend - eventsSent)
  BY DEF BusLeft
<1> QED
  BY <1>1, <1>2, <1>3, <1>4, <1>5, <1>6, <1>7, <1>8, <1>9, <1>10
  DEF BusLeftTable

LEMMA BusLeftWillBe == BusLeftTable'
  BY BusLeftIs, PTL

LEMMA StepsLeftIs ==
  TypeOK => /\ BusLeft \in 0..(9 + 2 * EventsToSend)
            /\ HostLeft \in 0..7
            /\ StepsLeft \in Nat
<1> SUFFICES ASSUME TypeOK
             PROVE  /\ BusLeft \in 0..(9 + 2 * EventsToSend)
                    /\ HostLeft \in 0..7 /\ StepsLeft \in Nat
  OBVIOUS
<1>1. /\ EventsToSend \in Nat /\ eventsSent \in Nat /\ eventsSent <= EventsToSend
      /\ bus \in BusStates
  BY BurstAssumption DEF TypeOK
<1>2. BusLeft \in 0..(9 + 2 * EventsToSend)
  BY <1>1, BusLeftIs DEF BusLeftTable, BusStates
<1>3. HostLeft \in 0..7
  BY DEF HostLeft
<1> QED BY <1>1, <1>2, <1>3 DEF StepsLeft

LEMMA StepsWillBe ==
  TypeOK' => BusLeft' \in 0..(9 + 2 * EventsToSend) /\ HostLeft' \in 0..7
<1>1. (TypeOK => BusLeft \in 0..(9 + 2 * EventsToSend) /\ HostLeft \in 0..7)'
  <2>1. TypeOK => BusLeft \in 0..(9 + 2 * EventsToSend) /\ HostLeft \in 0..7
    BY StepsLeftIs
  <2> QED BY <2>1, PTL
<1> QED BY <1>1

LEMMA StopStaysSet == StopStands /\ [Next]_vars => StopStands'
<1> SUFFICES ASSUME StopStands, [Next]_vars PROVE StopStands'
  OBVIOUS
<1>1. CASE Command
  BY <1>1 DEF Command, SolenoidOn, SolenoidOff, Lamp, Gi, Effect, RunEvent,
     StopStands, Disconnecting
<1>2. CASE Connect \/ Run \/ DisconnectBegin
  BY <1>2 DEF Connect, Run, DisconnectBegin, StopStands, Disconnecting
<1>3. CASE Disconnect
  BY <1>3 DEF Disconnect, DisconnectJoin, ClearQueuedEvents,
     ClearQueuedOutputSnapshots, ClearOutputState, SendOutputsOffFrame,
     DisconnectEnd, StopStands, Disconnecting
<1>4. CASE BusThread
  BY <1>4 DEF BusThread, BusOnly, LoopTest, PopTrigger, SendTrigger, DrainDone,
     GateClosed, GateOpen, ResyncFails, Decide, PopSnapshot, Compose,
     SendOutput, SendRefresh, SendFails, ConsumeCoilHoldoverLocked,
     StopStands, Disconnecting
<1>5. CASE UNCHANGED vars
  BY <1>5 DEF vars, StopStands, Disconnecting
<1> QED BY <1>1, <1>2, <1>3, <1>4, <1>5 DEF Next

\* The bus thread: every step brings it nearer to the test of m_stopRequested.
LEMMA BusNearsItsEnd ==
  ASSUME TypeOK, StopStands, Disconnecting, BusThread
  PROVE  BusLeft' < BusLeft /\ HostLeft' = HostLeft
<1>1. /\ EventsToSend \in Nat /\ eventsSent \in Nat /\ eventsSent <= EventsToSend
      /\ stop
  BY BurstAssumption DEF TypeOK, StopStands
<1>2. HostLeft' = HostLeft
  BY DEF BusThread, BusOnly, LoopTest, PopTrigger, SendTrigger, DrainDone,
     GateClosed, GateOpen, ResyncFails, Decide, PopSnapshot, Compose,
     SendOutput, SendRefresh, SendFails, ConsumeCoilHoldoverLocked, HostLeft
<1>9. BusLeftTable /\ BusLeftTable'
  BY BusLeftIs, BusLeftWillBe
<1> USE DEF BusLeftTable
<1>3. CASE LoopTest
  BY <1>1, <1>2, <1>9, <1>3 DEF LoopTest
<1>4. CASE PopTrigger
  BY <1>1, <1>2, <1>9, <1>4 DEF PopTrigger
<1>5. CASE SendTrigger
  BY <1>1, <1>2, <1>9, <1>5 DEF SendTrigger, iteration
<1>6. CASE DrainDone
  BY <1>1, <1>2, <1>9, <1>6 DEF DrainDone
<1>7. CASE GateClosed \/ GateOpen \/ ResyncFails \/ \E due \in BOOLEAN : Decide(due)
  BY <1>2, <1>7, <1>9 DEF GateClosed, GateOpen, ResyncFails, Decide
<1>8. CASE PopSnapshot \/ Compose \/ SendOutput \/ SendRefresh \/ SendFails
           \/ ConsumeCoilHoldoverLocked
  BY <1>2, <1>8, <1>9 DEF PopSnapshot, Compose, SendOutput, SendRefresh, SendFails,
     ConsumeCoilHoldoverLocked
<1> QED BY <1>2, <1>3, <1>4, <1>5, <1>6, <1>7, <1>8 DEF BusThread

LEMMA HostNearsItsEnd ==
  ASSUME Disconnect PROVE HostLeft' < HostLeft /\ BusLeft' = BusLeft
<1>1. BusLeft' = BusLeft
  BY DEF Disconnect, DisconnectJoin, ClearQueuedEvents,
     ClearQueuedOutputSnapshots, ClearOutputState, SendOutputsOffFrame,
     DisconnectEnd, iteration, BusLeft
<1>2. HostLeft' < HostLeft
  BY DEF Disconnect, DisconnectJoin, ClearQueuedEvents,
     ClearQueuedOutputSnapshots, ClearOutputState, SendOutputsOffFrame,
     DisconnectEnd, HostLeft
<1> QED BY <1>1, <1>2

\* What a step does to the steps left: the two threads reduce them; commands and
\* triggers, which other threads go on issuing, add none.
StepsRunOut ==
  /\ Disconnecting =>
       /\ BusThread \/ Disconnect => StepsLeft' < StepsLeft
       /\ StepsLeft' <= StepsLeft
  /\ DisconnectBegin => StepsLeft' <= 16 + 2 * EventsToSend

LEMMA LessThan ==
  ASSUME NEW x \in Nat, NEW y \in Nat, NEW z \in Nat, x < y
  PROVE  x + z < y + z /\ z + x < z + y
  OBVIOUS

LEMMA StepRunsOut ==
  ASSUME TypeOK, StopStands, Next PROVE StepsRunOut
<1>1. /\ BusLeft \in Nat /\ HostLeft \in Nat /\ EventsToSend \in Nat
      /\ StepsLeft = BusLeft + HostLeft /\ StepsLeft' = BusLeft' + HostLeft'
  BY StepsLeftIs, BurstAssumption DEF StepsLeft
<1>2. /\ BusLeft' \in Nat /\ BusLeft' <= 9 + 2 * EventsToSend
      /\ HostLeft' \in Nat /\ HostLeft' <= 7
  BY <1>1, NextType, StepsWillBe
<1>3. ASSUME Disconnecting, BusThread \/ Disconnect PROVE StepsLeft' < StepsLeft
  <2>1. CASE BusThread
    <3>1. BusLeft' < BusLeft /\ HostLeft' = HostLeft
      BY <1>3, <2>1, BusNearsItsEnd
    <3> QED BY <1>1, <1>2, <3>1, LessThan
  <2>2. CASE Disconnect
    <3>1. HostLeft' < HostLeft /\ BusLeft' = BusLeft
      BY <2>2, HostNearsItsEnd
    <3> QED BY <1>1, <1>2, <3>1, LessThan
  <2> QED BY <1>3, <2>1, <2>2
<1>4. ASSUME Disconnecting PROVE StepsLeft' <= StepsLeft
  <2>1. CASE BusThread \/ Disconnect
    <3>1. ASSUME NEW x \in Nat, NEW y \in Nat, x < y PROVE x <= y
      BY <3>1
    <3>2. StepsLeft \in Nat /\ StepsLeft' \in Nat
      <4>1. ASSUME NEW x \in Nat, NEW y \in Nat PROVE x + y \in Nat
        OBVIOUS
      <4> QED BY <1>1, <1>2, <4>1
    <3> QED BY <1>3, <1>4, <2>1, <3>1, <3>2
  <2>2. CASE Command
    <3>1. BusLeft' = BusLeft /\ HostLeft' = HostLeft
      BY <2>2 DEF Command, SolenoidOn, SolenoidOff, Lamp, Gi, Effect, RunEvent,
         iteration, BusLeft, HostLeft
    <3> QED BY <1>1, <3>1
  <2>3. CASE Connect \/ Run \/ DisconnectBegin
    BY <1>4, <2>3 DEF Connect, Run, DisconnectBegin, Disconnecting
  <2> QED BY <2>1, <2>2, <2>3 DEF Next
<1>5. DisconnectBegin => StepsLeft' <= 16 + 2 * EventsToSend
  <2>1. ASSUME NEW x \in Nat, NEW y \in Nat, NEW n \in Nat,
               x <= 9 + 2 * n, y <= 7
        PROVE  x + y <= 16 + 2 * n
    BY <2>1
  <2> QED BY <1>1, <1>2, <2>1
<1> QED BY <1>3, <1>4, <1>5 DEF StepsRunOut

\* Disconnect, once called, is over after at most 16 + 2 * EventsToSend steps of
\* the bus thread and of the thread that waits for it, however many triggers and
\* commands other threads queue meanwhile.  (DisconnectReturns follows where the
\* two are scheduled.)
THEOREM DisconnectIsBounded == Spec => [](StepsLeft \in Nat) /\ [][StepsRunOut]_vars
<1>1. Init => TypeOK /\ StopStands
  BY InitType DEF Init, StopStands, Disconnecting
<1>2. TypeOK /\ StopStands /\ [Next]_vars => (TypeOK /\ StopStands)'
  BY NextType, StopStaysSet
<1>3. TypeOK => StepsLeft \in Nat
  BY StepsLeftIs
<1>4. TypeOK /\ StopStands /\ [Next]_vars => [StepsRunOut]_vars
  BY StepRunsOut
<1> QED
  BY <1>1, <1>2, <1>3, <1>4, PTL DEF Spec
=============================================================================
