--------------------------- MODULE OutputPipeline ---------------------------
(***************************************************************************)
(* The way of an output command from the host program to the RS485 bus:    *)
(* RS485Comm::QueueEvent on the host's threads, the loop of RS485Comm::Run *)
(* on the bus thread, and RS485Comm::Disconnect, which ends that thread    *)
(* and switches everything off.                                            *)
(*                                                                         *)
(* A coil command changes the live bitmap, arms the coil's holdover and    *)
(* queues a snapshot of the live state; lamp and GI commands change the    *)
(* live state only.  The bus thread sends one frame per iteration: the     *)
(* oldest snapshot or, when there was none, the live state at the time the *)
(* frame is put together.  Every coil with holdover left is forced on in   *)
(* the frame, and loses one frame of holdover when the frame was written.  *)
(*                                                                         *)
(* The steps of the bus thread are cut where it takes or releases a mutex  *)
(* or performs I/O, so the host's commands interleave wherever they can in *)
(* the code.  Sequence numbers, epochs and the switch replies that follow  *)
(* a frame are in SwitchSession; here a resync either works or fails.      *)
(***************************************************************************)
EXTENDS Naturals, Sequences

CONSTANTS
  Coils,            \* indices of m_coilBitmap
  Lamps,            \* indices of m_lampBitmap
  GiStrings,        \* ppuc::v2::kGiStrings
  MaxGiLevel,       \* the largest level ppuc::v2::ClampGiLevel lets through
  HoldFrameCount,   \* m_coilHoldFrameCount
  QueueMax,         \* RS485_COMM_OUTPUT_QUEUE_SIZE_MAX
  EventsMax,        \* RS485_COMM_QUEUE_SIZE_MAX
  EventsToSend,     \* RS485_COMM_MAX_EVENTS_TO_SEND
  OneHostThread,    \* the host makes all its calls from one thread
  MaxCommands       \* bound on the number of output commands

ASSUME HoldAssumption == HoldFrameCount \in Nat
ASSUME QueueAssumption == QueueMax \in Nat \ {0} /\ EventsMax \in Nat
ASSUME BurstAssumption == EventsToSend \in Nat \ {0}
ASSUME GiAssumption == MaxGiLevel \in Nat
ASSUME HostAssumption == OneHostThread \in BOOLEAN /\ MaxCommands \in Nat

VARIABLES
  coils, lamps, gi,  \* m_coilBitmap, m_lampBitmap, m_giLevels (m_stateMutex)
  hold,              \* m_coilHoldFrames (m_stateMutex)
  queue,             \* m_outputSnapshots (m_outputQueueMutex)
  events,            \* how many triggers m_events holds (m_eventQueueMutex)
  enabled,           \* m_runtimeEnabled
  stop,              \* m_stopRequested
  host,              \* where Connect, Run and Disconnect stand
  bus,               \* where the bus thread stands
  eventsSent,        \* triggers sent in this iteration of the bus thread
  refresh,           \* sendSwitchRefresh of this iteration
  snapshot,          \* the snapshot popped in this iteration, << >> if none
  frame,             \* the buffers of this iteration
  heldBack,          \* holdFrames, the iteration's copy of hold
  wire,              \* the last output frame written completely
  ver,               \* history: output commands so far
  since,             \* history: coils switched on since frame was composed
  shown,             \* history: frames written with the coil on, of those
                     \* composed after the last command that switched it on
  afterStop          \* history: frames written since updates were stopped

hostState == << coils, lamps, gi, hold, queue, events, enabled >>
iteration == << eventsSent, refresh, snapshot, frame, heldBack >>
history   == << ver, since, shown, afterStop >>
vars == << hostState, stop, host, bus, iteration, wire, history >>

HostStates == {"closed", "open", "running", "joining", "clearEvents",
               "clearQueue", "clearState", "off1", "off2", "closing"}
BusStates  == {"stopped", "loop", "drain", "trigger", "gate", "decide",
               "pop", "compose", "send", "consume"}

\* A frame's content; ver counts the commands it reflects, live tells whether
\* it was copied from the live state although snapshots were waiting.
Frames == [coils : SUBSET Coils, lamps : SUBSET Lamps,
           gi : [GiStrings -> 0..MaxGiLevel], ver : Nat, overtook : BOOLEAN]

Dark == [i \in GiStrings |-> 0]

AtMost(a, b) == IF a <= b THEN a ELSE b

\* The content of a frame copied from the live state.
LiveFrame == [coils |-> coils, lamps |-> lamps, gi |-> gi, ver |-> ver,
              overtook |-> queue # << >>]

\* ApplyCoilHoldover: every coil with holdover left is forced on.
ApplyCoilHoldover(f, h) ==
  [f EXCEPT !.coils = @ \cup {c \in Coils : h[c] > 0}]

IsAllOff(f) == f.coils = {} /\ f.lamps = {} /\ f.gi = Dark

TypeOK ==
  /\ coils \in SUBSET Coils
  /\ lamps \in SUBSET Lamps
  /\ gi \in [GiStrings -> 0..MaxGiLevel]
  /\ hold \in [Coils -> 0..HoldFrameCount]
  /\ queue \in Seq(Frames)
  /\ Len(queue) <= QueueMax
  /\ events \in 0..EventsMax
  /\ enabled \in BOOLEAN
  /\ stop \in BOOLEAN
  /\ host \in HostStates
  /\ bus \in BusStates
  /\ eventsSent \in 0..EventsToSend
  /\ refresh \in BOOLEAN
  /\ snapshot \in Seq(Frames) /\ Len(snapshot) <= 1
  /\ frame \in Frames
  /\ heldBack \in [Coils -> 0..HoldFrameCount]
  /\ wire \in Frames
  /\ ver \in Nat
  /\ since \in SUBSET Coils
  /\ shown \in [Coils -> 0..HoldFrameCount]
  /\ afterStop \in 0..2

Init ==
  /\ coils = {} /\ lamps = {} /\ gi = Dark
  /\ hold = [c \in Coils |-> 0]
  /\ queue = << >> /\ events = 0
  /\ enabled = TRUE
  /\ stop = FALSE
  /\ host = "closed" /\ bus = "stopped"
  /\ eventsSent = 0 /\ refresh = FALSE /\ snapshot = << >>
  /\ frame = [coils |-> {}, lamps |-> {}, gi |-> Dark, ver |-> 0,
              overtook |-> FALSE]
  /\ heldBack = [c \in Coils |-> 0]
  /\ wire = frame
  /\ ver = 0 /\ since = {} /\ afterStop = 0
  /\ shown = [c \in Coils |-> HoldFrameCount]

----------------------------------------------------------------------------
(* The host's commands: one QueueEvent each.  Numbers that are not mapped  *)
(* change nothing and are left out.                                        *)

\* A host with one thread makes no other call while it is inside Disconnect.
HostIsFree == OneHostThread => host \in {"closed", "open", "running"}

CountCommand == ver < MaxCommands /\ ver' = ver + 1

\* Mutant: the queue is not bounded.
QueueWithoutDrop(cs) ==
  queue' = Append(queue, [coils |-> cs, lamps |-> lamps, gi |-> gi,
                          ver |-> ver + 1, overtook |-> FALSE])

\* QueueOutputSnapshotLocked: a full queue gives up its oldest snapshot.
QueueOutputSnapshotLocked(cs) ==
  LET kept == IF Len(queue) >= QueueMax THEN Tail(queue) ELSE queue
  IN  queue' = Append(kept, [coils |-> cs, lamps |-> lamps, gi |-> gi,
                             ver |-> ver + 1, overtook |-> FALSE])

SolenoidOn(c) ==
  /\ HostIsFree /\ CountCommand
  /\ coils' = coils \cup {c}
  /\ hold' = [hold EXCEPT ![c] = HoldFrameCount]
  /\ QueueOutputSnapshotLocked(coils \cup {c})
  /\ since' = since \cup {c}
  /\ shown' = [shown EXCEPT ![c] = 0]
  /\ UNCHANGED << lamps, gi, events, enabled, stop, host, bus, iteration,
                  wire, afterStop >>

SolenoidOff(c) ==
  /\ HostIsFree /\ CountCommand
  /\ coils' = coils \ {c}
  /\ QueueOutputSnapshotLocked(coils \ {c})
  /\ UNCHANGED << lamps, gi, hold, events, enabled, stop, host, bus,
                  iteration, wire, since, shown, afterStop >>

Lamp(l, on) ==
  /\ HostIsFree /\ CountCommand
  /\ lamps' = IF on THEN lamps \cup {l} ELSE lamps \ {l}
  /\ UNCHANGED << coils, gi, hold, queue, events, enabled, stop, host, bus,
                  iteration, wire, since, shown, afterStop >>

\* The host may ask for any level; ClampGiLevel cuts it.
Gi(s, level) ==
  /\ HostIsFree /\ CountCommand
  /\ gi' = [gi EXCEPT ![s] = AtMost(level, MaxGiLevel)]
  /\ UNCHANGED << coils, lamps, hold, queue, events, enabled, stop, host,
                  bus, iteration, wire, since, shown, afterStop >>

\* A trigger for an effect; a full queue turns the newest away.
Effect ==
  /\ HostIsFree
  /\ events' = AtMost(events + 1, EventsMax)
  /\ UNCHANGED << coils, lamps, gi, hold, queue, enabled, stop, host, bus,
                  iteration, wire, history >>

\* StartUpdates and StopUpdates.
RunEvent(on) ==
  /\ HostIsFree
  /\ enabled' = on
  /\ afterStop' = IF on = enabled THEN afterStop ELSE 0
  /\ UNCHANGED << coils, lamps, gi, hold, queue, events, stop, host, bus,
                  iteration, wire, ver, since, shown >>

Command ==
  \/ \E c \in Coils : SolenoidOn(c) \/ SolenoidOff(c)
  \/ \E l \in Lamps, on \in BOOLEAN : Lamp(l, on)
  \/ \E s \in GiStrings, level \in 0..(MaxGiLevel + 1) : Gi(s, level)
  \/ Effect
  \/ \E on \in BOOLEAN : RunEvent(on)

----------------------------------------------------------------------------
(* The life of the port.  The command state survives Connect: what was     *)
(* queued while the port was closed is still there.                        *)

Connect ==
  /\ host = "closed"
  /\ host' = "open" /\ stop' = FALSE
  /\ UNCHANGED << hostState, bus, iteration, wire, history >>

Run ==
  /\ host = "open"
  /\ host' = "running" /\ stop' = FALSE /\ bus' = "loop"
  /\ UNCHANGED << hostState, iteration, wire, history >>

\* Disconnect: the first statement, then join.
DisconnectBegin ==
  /\ host \in {"open", "running"}
  /\ stop' = TRUE /\ host' = "joining"
  /\ UNCHANGED << hostState, bus, iteration, wire, history >>

DisconnectJoin ==
  /\ host = "joining" /\ bus = "stopped"
  /\ host' = "clearEvents"
  /\ UNCHANGED << hostState, stop, bus, iteration, wire, history >>

ClearQueuedEvents ==
  /\ host = "clearEvents"
  /\ events' = 0
  /\ host' = "clearQueue"
  /\ UNCHANGED << coils, lamps, gi, hold, queue, enabled, stop, bus,
                  iteration, wire, history >>

ClearQueuedOutputSnapshots ==
  /\ host = "clearQueue"
  /\ queue' = << >>
  /\ host' = "clearState"
  /\ UNCHANGED << coils, lamps, gi, hold, events, enabled, stop, bus,
                  iteration, wire, history >>

\* Mutant: the holdover counters are not cleared.
ClearStateKeepsHoldover ==
  /\ host = "clearState"
  /\ coils' = {} /\ lamps' = {} /\ gi' = Dark
  /\ host' = "off1"
  /\ UNCHANGED << hold, queue, events, enabled, stop, bus, iteration, wire,
                  history >>

\* What was promised to the coils is withdrawn here, on purpose.
ClearOutputState ==
  /\ host = "clearState"
  /\ coils' = {} /\ lamps' = {} /\ gi' = Dark
  /\ hold' = [c \in Coils |-> 0]
  /\ shown' = [c \in Coils |-> HoldFrameCount]
  /\ host' = "off1"
  /\ UNCHANGED << queue, events, enabled, stop, bus, iteration, wire, ver,
                  since, afterStop >>

\* SendOutputsOffFrame sends whatever the live state is, holdover included.
SendOutputsOffFrame(here, there) ==
  /\ host = here
  /\ host' = there
  /\ \/ wire' = ApplyCoilHoldover(LiveFrame, hold)
     \/ wire' = wire                                \* the write failed
  /\ UNCHANGED << hostState, stop, bus, iteration, history >>

\* The port is restored and closed.
DisconnectEnd ==
  /\ host = "closing"
  /\ host' = "closed"
  /\ UNCHANGED << hostState, stop, bus, iteration, wire, history >>

Disconnect ==
  \/ DisconnectJoin
  \/ ClearQueuedEvents
  \/ ClearQueuedOutputSnapshots
  \/ ClearOutputState
  \/ SendOutputsOffFrame("off1", "off2")
  \/ SendOutputsOffFrame("off2", "closing")
  \/ DisconnectEnd

----------------------------------------------------------------------------
(* The bus thread: the loop of RS485Comm::Run.                             *)

BusOnly == UNCHANGED << hostState, stop, host, wire, history >>

LoopTest ==
  /\ bus = "loop"
  /\ bus' = IF stop THEN "stopped" ELSE "drain"
  /\ eventsSent' = 0
  /\ UNCHANGED << refresh, snapshot, frame, heldBack >>
  /\ BusOnly

\* Mutant: triggers are sent as long as there are any.
PopTriggerUnlimited ==
  /\ bus = "drain" /\ events > 0
  /\ events' = events - 1
  /\ eventsSent' = AtMost(eventsSent + 1, EventsToSend)
  /\ bus' = "trigger"
  /\ UNCHANGED << coils, lamps, gi, hold, queue, enabled, stop, host,
                  refresh, snapshot, frame, heldBack, wire, history >>

PopTrigger ==
  /\ bus = "drain"
  /\ eventsSent < EventsToSend /\ events > 0
  /\ events' = events - 1
  /\ eventsSent' = eventsSent + 1
  /\ bus' = "trigger"
  /\ UNCHANGED << coils, lamps, gi, hold, queue, enabled, stop, host,
                  refresh, snapshot, frame, heldBack, wire, history >>

\* SendEvent: nothing depends on whether the trigger could be written.
SendTrigger ==
  /\ bus = "trigger"
  /\ bus' = "drain"
  /\ UNCHANGED iteration
  /\ BusOnly

DrainDone ==
  /\ bus = "drain"
  /\ eventsSent = EventsToSend \/ events = 0
  /\ bus' = "gate"
  /\ UNCHANGED iteration
  /\ BusOnly

\* m_runtimeEnabled is read once per iteration.
GateClosed ==
  /\ bus = "gate" /\ ~enabled
  /\ bus' = "loop"
  /\ UNCHANGED iteration
  /\ BusOnly

\* Mutant: m_runtimeEnabled is not consulted.
GateIgnoresRuntime ==
  /\ bus = "gate"
  /\ bus' = "decide"
  /\ UNCHANGED iteration
  /\ BusOnly

GateOpen ==
  /\ bus = "gate" /\ enabled
  /\ bus' = "decide"
  /\ UNCHANGED iteration
  /\ BusOnly

\* A session resync was due and could not be sent.
ResyncFails ==
  /\ bus = "gate" /\ enabled
  /\ bus' = "loop"
  /\ UNCHANGED iteration
  /\ BusOnly

Decide(due) ==
  /\ bus = "decide"
  /\ refresh' = due
  /\ bus' = "pop"
  /\ UNCHANGED << eventsSent, snapshot, frame, heldBack >>
  /\ BusOnly

\* Mutant: the newest snapshot is taken.
PopNewest ==
  /\ bus = "pop"
  /\ LET take == ~refresh /\ queue # << >>
     IN  /\ snapshot' = IF take THEN << queue[Len(queue)] >> ELSE << >>
         /\ queue' = IF take THEN SubSeq(queue, 1, Len(queue) - 1) ELSE queue
  /\ bus' = "compose"
  /\ UNCHANGED << coils, lamps, gi, hold, events, enabled, stop, host,
                  eventsSent, refresh, frame, heldBack, wire, history >>

\* Takes the oldest snapshot; without one the thread sleeps before it goes on.
PopSnapshot ==
  /\ bus = "pop"
  /\ LET take == ~refresh /\ queue # << >>
     IN  /\ snapshot' = IF take THEN << Head(queue) >> ELSE << >>
         /\ queue' = IF take THEN Tail(queue) ELSE queue
  /\ bus' = "compose"
  /\ UNCHANGED << coils, lamps, gi, hold, events, enabled, stop, host,
                  eventsSent, refresh, frame, heldBack, wire, history >>

\* Mutant: the frame carries the bitmaps without the holdover.
ComposeWithoutHoldover ==
  /\ bus = "compose"
  /\ frame' = IF snapshot # << >> THEN Head(snapshot) ELSE LiveFrame
  /\ heldBack' = hold
  /\ since' = {}
  /\ bus' = "send"
  /\ UNCHANGED << hostState, stop, host, eventsSent, refresh, snapshot, wire,
                  ver, shown, afterStop >>

Compose ==
  /\ bus = "compose"
  /\ LET copied == IF snapshot # << >> THEN Head(snapshot) ELSE LiveFrame
     IN  frame' = ApplyCoilHoldover(copied, hold)
  /\ heldBack' = hold
  /\ since' = {}
  /\ bus' = "send"
  /\ UNCHANGED << hostState, stop, host, eventsSent, refresh, snapshot, wire,
                  ver, shown, afterStop >>

SendOutput ==
  /\ bus = "send" /\ ~refresh
  /\ wire' = frame
  /\ shown' = [c \in Coils |-> IF c \in frame.coils \ since
                               THEN AtMost(shown[c] + 1, HoldFrameCount)
                               ELSE shown[c]]
  /\ afterStop' = IF enabled THEN 0 ELSE AtMost(afterStop + 1, 2)
  /\ bus' = "consume"
  /\ UNCHANGED << hostState, stop, host, iteration, ver, since >>

\* A poll without output; its switch replies are read before the next loop.
SendRefresh ==
  /\ bus = "send" /\ refresh
  /\ afterStop' = IF enabled THEN 0 ELSE AtMost(afterStop + 1, 2)
  /\ bus' = "loop"
  /\ UNCHANGED << hostState, stop, host, iteration, wire, ver, since, shown >>

\* Mutant: a failed write consumes holdover like a successful one.
SendFailsYetConsumes ==
  /\ bus = "send"
  /\ bus' = "consume"
  /\ UNCHANGED iteration
  /\ BusOnly

\* The write failed: a popped snapshot is gone with it.
SendFails ==
  /\ bus = "send"
  /\ bus' = "loop"
  /\ UNCHANGED iteration
  /\ BusOnly

\* Mutant: holdover is never consumed.
ConsumeNothing ==
  /\ bus = "consume"
  /\ bus' = "loop"
  /\ UNCHANGED iteration
  /\ BusOnly

\* Works on the live counters but asks the iteration's copy who was held.
ConsumeCoilHoldoverLocked ==
  /\ bus = "consume"
  /\ hold' = [c \in Coils |-> IF heldBack[c] > 0 /\ hold[c] > 0
                              THEN hold[c] - 1 ELSE hold[c]]
  /\ bus' = "loop"
  /\ UNCHANGED << coils, lamps, gi, queue, events, enabled, stop, host,
                  iteration, wire, history >>

BusThread ==
  \/ LoopTest
  \/ PopTrigger \/ SendTrigger \/ DrainDone
  \/ GateClosed \/ GateOpen \/ ResyncFails
  \/ \E due \in BOOLEAN : Decide(due)
  \/ PopSnapshot \/ Compose
  \/ SendOutput \/ SendRefresh \/ SendFails
  \/ ConsumeCoilHoldoverLocked

----------------------------------------------------------------------------
Next == Command \/ Connect \/ Run \/ DisconnectBegin \/ Disconnect \/ BusThread

Spec == Init /\ [][Next]_vars

\* The bus thread runs and Disconnect, once called, goes on.  Writes, resyncs
\* and output turns do not fail for ever, which is what strong fairness says;
\* nothing obliges the host to issue commands, connect or disconnect.
Fairness ==
  /\ WF_vars(BusThread)
  /\ WF_vars(Disconnect)
  /\ SF_vars(GateOpen)
  /\ SF_vars(Decide(FALSE))
  /\ SF_vars(SendOutput)

FairSpec == Spec /\ Fairness

----------------------------------------------------------------------------
(* Properties                                                              *)

\* A coil whose holdover has run out was shown on the bus in at least
\* HoldFrameCount - 1 frames composed after the command that switched it on,
\* whatever happened to its snapshot: dropped by a full queue, lost with a
\* failed write, or overtaken by an off command.  (One frame can be missing:
\* the bus thread may take a command's fresh holdover for the one it copied
\* before, and consume it for a frame that was composed too early.)
MinimumPulse ==
  \A c \in Coils : hold[c] = 0 => shown[c] + 1 >= HoldFrameCount

\* Holdover ends: outside the step that consumes it, a coil has no more
\* holdover left than the frames it still has to be shown in.
BoundedPulse ==
  bus # "consume" => \A c \in Coils : hold[c] + shown[c] <= HoldFrameCount

\* After StopUpdates the bus thread finishes the iteration it is in: at most
\* one more output or refresh frame is written.
StopSettles == ~enabled => afterStop <= 1

\* The bus never goes back to an older host state, with one exception: after a
\* frame that was copied from the live state while snapshots were waiting (the
\* commands came in during the idle sleep) those snapshots are still sent.
WireOrder == [][wire'.ver < wire.ver => wire.overtook]_vars

\* Once Disconnect has joined the bus thread, and until the next Run, the only
\* output frame that reaches the bus is all-off.
QuietAfterJoin ==
  [][host \notin {"running", "joining"} /\ wire' # wire => IsAllOff(wire')]_vars

\* Disconnect returns: the bus thread sees m_stopRequested however many
\* triggers the host keeps queueing, because a burst of them is limited.
DisconnectReturns == (host = "joining") ~> (host = "closed")

\* A coil command is shown on the bus, unless updates are off or stopping.
PulseServed ==
  \A c \in Coils : (hold[c] > 0 /\ shown[c] = 0 /\ host = "running")
                   ~> (shown[c] > 0 \/ ~enabled \/ host # "running")

\* When the host falls silent while the runtime is on, the bus ends up showing
\* the host's state, and no coil stays on that the host has switched off.
WireSettles ==
  <>[](host = "running" /\ enabled)
    => <>[](wire.coils = coils /\ wire.lamps = lamps /\ wire.gi = gi)
=============================================================================
