# Verification of libppuc

libppuc is the host side of a pinball machine whose coils, lamps, LEDs and
switches hang on I/O boards on one RS-485 bus. A host program (PinMAME, for
example) hands it coil, lamp and GI commands and fetches switch events; the
library configures the boards at startup and then keeps a bus thread that sends
output frames and collects the boards' switch replies. This directory holds the
TLA+ models of that code, the TLC configurations that check them on small
instances, and proofs of their main properties for every size.

Run it in this directory: `tlc -config X.cfg M` for a row of the table of runs,
`tlapm OutputPipelineProofs.tla` for the proofs. `PROJECT.json` lists runs,
mutants, findings, hazards and the source lines of every definition.

## Inventory

| Component | State | Operations | Talks to |
|---|---|---|---|
| Public facade (`PPUC.cpp`) | coils, lamps, switches, options | `Set*State`, `StartUpdates`, `StopUpdates`, `Connect`, `Disconnect`, accessors | everything below, on the caller's threads |
| Output pipeline (`RS485Comm`) | coil, lamp and GI bitmaps, coil holdover, output snapshots, trigger queue, `m_runtimeEnabled`, `m_stopRequested` | `QueueEvent`, the output half of `Run`, `Disconnect` | host threads and the bus thread share it under `m_stateMutex`, `m_outputQueueMutex` and `m_eventQueueMutex` |
| Switch session | reply chain, `m_switchReplyMisses`, `m_needSessionResync`, epoch, sequence, `m_switchBitmap` | poll, `ReceiveSwitchStateChain`, `ReceiveSwitchStateFrame`, `ResyncSession` | bus thread and boards |
| Startup and configuration | presence, miss counters, `m_configFailed`, early abort | `Connect`, `SendConfigEvent`, `ReceiveConfigAck`, `FinalizeConfiguredBoardPresence` | caller's thread and boards, before the bus thread exists |
| Firmware update, version query | transfer in progress | `UpdateBoardFirmware`, `QueryBoardVersion`, `AwaitAdminReply` | caller's thread and one board; shares the port with the bus thread |
| Virtual switches | states and dirty flags of boards that are not there | `SetVirtualSwitchState`, `SendVirtualSwitchReply` | host thread and bus thread |
| Switch event queue | `m_switches` | `GetNextSwitchState` | bus thread to host |
| Anomaly log and bus health | ring of messages, rate limiter, counters | `ReportAnomaly`, `GetRecentAnomalies`, `GetBusHealth` | all threads |
| Runtime configuration and mappings | numbers to bit positions | `SetRuntimeConfig`, `SetMappings`, number collection in `Connect` | startup |
| Loading and validation | configuration, switch groups, skipped boards | `LoadConfiguration`, `ValidatePpucConfiguration`, thermal warnings, GI strings | YAML tree |
| Serial port | one handle | open, set up, restore, close, reads and writes with timeouts | the kernel |
| Legacy events | none | `receiveEvent`, `PollEvents` | no callers |

Hard behaviours: two or more threads over shared queues and flags; a bus that
loses, damages and delays frames; replies that carry no sender; timeouts that
race late answers; retries of what was already done; partial write failures;
bounded queues that drop; counters of eight bits. What makes each part correct:

* Output: a coil pulse is neither lost nor stretched, the bus follows the host's
  commands in their order, stopping stops, and after a disconnect all is off.
* Session: a misread reply is never accepted for good, a broken session is
  repaired, and the host's view of the switches becomes right.
* Startup: the runtime starts only on boards that have their configuration, no
  board is virtualized behind the user's back, boards that are not there cut it
  short, the startup ends.
* Firmware: success means installed; the runtime stays out of a transfer.
* Switch state: the events a host fetches are the changes there were, in their
  order, and every change becomes one; a virtual board with nothing to tell has
  told its switches, unless a call overlapped its reply.
* Configuration: whatever was loaded, skipped or tried before, in a session all
  tables, lists and owners are those of the configuration at hand.
* Logs and counters: what they say is what happened.

## Modules

### OutputPipeline

Host threads issue commands (`Command`, one action per `QueueEvent` branch:
`SolenoidOn`, `SolenoidOff`, `Lamp`, `Gi`, `Effect`, `RunEvent`) and walk through
`Disconnect` step by step; the bus thread walks through one iteration of `Run`,
one action per critical section or system call (`PopTrigger`, `SendTrigger`,
`GateOpen`, `Decide`, `PopSnapshot`, `Compose`, `SendOutput`,
`ConsumeCoilHoldoverLocked`). Actions end where the code gives up a lock, so
commands fall between any two of them, as in the code. `SendFails` is a rejected
write. A frame is the set of coils and lamps that are on and the GI levels; `ver`
numbers the commands and lets the properties speak about order. Board effects and
number mapping are left out: an unmapped number changes nothing.

The history variables `shown`, `since`, `afterStop` and `ver` are read by no guard
of the code's actions (`ver` also bounds the commands).

### SwitchSession

The chain of replies after each host frame. A reply says nothing of its sender:
the host takes whatever comes in for the reply of the board it expects. The host
sees epoch, last sequence and status of a reply only as "as expected" or not, so a
board is `synced` or not, and a reply stays `ok` until the host sends again. The
boards are external: they answer when they have the turn, report a frame they
missed, and are repaired by a setup. Loss and damage happen while `noisy`; the
liveness runs let the bus become quiet eventually (`BusQuiet`). `SharedMedium`
says that a reply the host does not hear intact does not pass the turn either, as
on one pair of wires. Boards the host plays (`Virtual`) take their turn in
`SendVirtualSwitchReply`.

### ConfigStartup

One call of `Connect`. The list of frames is a constant, each frame a board and a
key; `ChainScript` adds the frames of the reply chain. `BeginFrame`, `WriteFrame`,
`WriteFails`, `ReceiveAck`, `ReceiveStray`, `AckTimeout`, `Retry` and `GiveUp` are
the paths through `SendConfigEvent` and `ReceiveConfigAck`. `ReceiveStray` reads
what is no acknowledgement, single bytes and other frames, which
`ReceiveConfigAck` throws away while its time lasts; the time an attempt waits is
`Window`, counted in such strays. `Counted` are the boards with numbers below
`RS485_COMM_MAX_BOARDS`: misses of the others, which the validation lets pass, are
counted only in the streak of all boards, and `EarlyAbortIsExact` says so.
`Finalize`, `Setup` and
`Abandon` are the end of the startup attempt with all its early returns, which
the model takes in one place: after an abort every further `SendConfigEvent`
returns without effect. A board answers what it hears in order and at any speed,
and applies or rejects a frame. Which keys recur is an assumption about the list,
`ScriptAssumption`: a board's frames are distinguishable from their neighbours,
which every loop of `PPUC::Connect` provides (index or key changes between two
consecutive frames), although keys do recur (each switch starts again at index
0 with `CONFIG_TOPIC_PORT`). `WritesMayFail` lets the port reject frames, which the
history variable `rejected` remembers.

### FirmwareUpdate and ImageInstall

`ImageInstall` is the abstract specification of an update: a board runs one image
and goes to that of a call in one step, only after every chunk has been
acknowledged; success means that it has; a call that fails late may still see its
image installed, as long as no other begins. `FirmwareUpdate` is the transfer.
`KeepsPromise` is the refinement: a call is under way while the host's thread is in
one (`calling <- pc # "idle"`), its image is delivered when the last chunk is
acknowledged (`delivered <- sent = Chunks`), the image of the board, the number of
the call and its result are the same variables in both.

A call of `UpdateBoardFirmware` on the host's thread, the bus thread, and a board
that accepts chunks in order and installs a complete image with the right CRC. Of
the bus thread there is what it does to the port: the gate (`BusGate`), the resync
that may come first, with its setup frame, mapping frames and flush (`BusSetup`,
`BusMapping`, `BusResynced`), the output frame (`BusSend`), the replies of virtual
boards (`BusReply`) and the reading of whatever comes in (`BusReads`) in the chain
that follows, a rejected write (`BusFails`), the end of the chain
(`BusChainEnds`), and triggers, which pass no gate (`BusTrigger`). Other threads
start and stop the runtime and queue triggers at any time (`Command`).
`Overlapping` says whether a call may begin while the board still has frames
of earlier calls to answer. Two calls of `UpdateBoardFirmware` at the same time are
not modelled.

`IntrusionBounded` counts the frames that get into a transfer. The bound, `Longest`,
is one iteration: a resync with its output frame, or an output frame with the
replies of virtual boards. `m_runtimeEnabled` is checked once, so a call during
which another thread starts the runtime (`restarted`) is left out; the bus thread
then runs through the transfer.

### SwitchState and SwitchFeed

`SwitchFeed` is the abstract specification of what a host is promised: every
change the library learns of becomes one event, before the switch changes again,
and events are fetched in order. `SwitchState` is how the code keeps it:
`m_switchBitmap`, `m_switches`, and the states and dirty flags of virtual boards,
under the host's thread (`SetVirtualSwitchState`, `SetBitRead`, `SetBitWrite`,
`SetPush`, `GetNextSwitchState`) and the bus thread (`ReceiveState`, `DiffBit`,
`MergeRead`, `MergeWrite` for `ApplySwitchBitmapDiff`; `ReplyBegin`, `ReplyCopy`,
`ReplyWrite`, `ReplyFails`, `ReplyClear` for `SendVirtualSwitchReply`). A byte of the
bitmap is read in one step and written back in another, because
`ApplySwitchBitmapDiff` does not take `m_stateMutex`. `KeepsPromise` is the
refinement: `actual` is what a switch's board reported last, or the host set last.
Its price is explicit: `Exposed`, real switches that share a byte with a virtual
one, may have a bit put back to an old value (`reverted`) and then lose or repeat an
event.

Every board of the model has an ownership mask, as the boards with numbers below
`RS485_COMM_MAX_BOARDS` have; of others, which never get into the chain,
`ApplySwitchBitmapDiff` would copy all bits. Which board has the turn is free. In
the program a virtual board hardly ever gets one (see `startup_chain`), so nothing
is claimed about when its changes are told, only about what a reply says and what
its flag means (`ChangesToldUnlessRaced`). `ChangesBecomeEvents` is the progress
there is: a change that a thread has begun to enter reaches the queue.

### BusHealth

`ReportAnomaly` in its two parts (count; under `m_anomalyMutex` record or fold),
from any finite set of threads, the ring, `GetRecentAnomalies` as the operator `Recent`, the
counters at the end of `ReceiveSwitchStateChain` and the field by field reads of
`GetBusHealth`. Time is a counter; entries have no text.

### Configuration

What a `PPUC` object carries from one call to the next: `LoadConfiguration`,
`SetSkippedBoardsCsv`, `Connect` in its steps (`Open`, `OpenFails`,
`ConfigureBoard`, `Collect`, `ConfigureDevices`, `GiveUp`, `SetUpChain`, `Start`),
`Disconnect`, and questions of the host that settle presence (`HostAsks`).
`settings` is the configuration that the serial device and the platform are from,
both used by the next `Connect`: `LoadConfiguration` reads them after the GI
mappings and keeps the old ones when those throw. `OpenFails` is every failure of
`RS485Comm::Connect`; all of them leave `m_pSerialPort` NULL, and what becomes of
the handles is not modelled. The
configurations of `MCConfiguration` are chosen for their trouble: `Pair` is plain,
`Crowd` fills the tables and has GI mappings that do not parse, `Reserved` takes the
name of the group "buttons", `Wide` has numbers the validation lets pass and
`Connect` does not, `Far` has a board number past the chain. `Send` stands for all
frames of a phase, of which some may be lost or rejected. The host is assumed to
call from one thread, to load and skip only between sessions, and to disconnect
after a session.

`SwitchSources` says where the bits of a switch come from: from its board alone, if
that is present and in the chain, from the host if it is virtual, and never from
both. A switch of a present board that is not polled, or has no place in the chain,
comes from nowhere.

`ChainAgrees` is about boards with different numbers below the size of the chain,
which the validation does not ask for. `SetActiveSwitchBoards` ends the chain at
the first number past it, and a board listed twice is polled in its first place but
told, by the later of its two frames, the successor of its last (`NextBoard`).

The `MC*` modules only give values to the constants, and the `*Proofs` modules hold
the theorems.

| Composition | How the code's parts meet |
|---|---|
| `SwitchSession` with `SwitchState` | the order and loss of replies is in the first, what one reply does to bytes, flags and events in the second; both have `SendVirtualSwitchReply` |
| `Configuration` with `ConfigStartup` | the first has what survives a `Connect`, the second the frames within one |
| `FirmwareUpdate` with `OutputPipeline` | `BusGate` and `BusSend` are `GateOpen` and `SendOutput` |
| `FirmwareUpdate` with `SwitchSession` | `BusSetup` to `BusResynced` are `ResyncSession`, whose effect on the boards is in the second |

## Runs

| Run | Question | Bounds |
|---|---|---|
| `output` | Is every pulse shown, in at least `HoldFrameCount - 1` and at most `HoldFrameCount` frames? Does `StopUpdates` stop, `Disconnect` return, the bus settle? | one coil, a queue of one snapshot so that it overflows at once, three commands by several host threads, triggers without end |
| `output_order` | Does the bus ever go back in time? Is it dark after the join? | coil, lamp and GI, queue of two, three commands, reconnects |
| `session_safety` | Is a misattributed reply always noticed, a broken session never polled? | two boards, streak counter modulo 4 so that it wraps, two replies in flight |
| `session_heals` | Does the session, and the view of the switches, heal? | three boards, the middle one virtual |
| `startup` | Does a started runtime imply applied configuration, is only a skipped board virtual, is the early abort exact for the boards it counts, does `Connect` return? | two boards by turns, of which one is counted, and a skipped one; two attempts with time for one stray, threshold two, a key that recurs, rejected writes, two answers in flight |
| `firmware` | Is an update all or nothing and its result to be relied on (`ImageInstall`), is what is acknowledged staged, is it no more than one iteration of the runtime that gets into a transfer, and does the call return? | four calls, two chunks, two attempts, three frames under way; one mapping frame and two virtual boards, so that both kinds of iteration are equally long |
| `switch_state` | Are events an exact account of the changes (`SwitchFeed`), does every change become one, has a virtual board that is not dirty told its switches? | a real and a virtual switch in one byte, a real one in another; one event waiting |
| `bus_health` | Is every occurrence accounted for, is the ring read right, does the rate limit hold, do the health counters add up? | two kinds, two threads, a ring of three, interval two, time up to four, five reports or chains |
| `configuration` | Do tables, sources of switches, chain, buttons, serial device, platform and board settings fit the configuration, whatever failed before? | five configurations, three boards, a chain of two, three lists of skipped boards, two `Connect`s, tables of three and two entries |

The code's limits (256 snapshots, 32 triggers in a burst, three missed chains, ten
missed config acknowledgements, three attempts, 32 anomalies) are constants. Small
values reach every branch: the properties compare counters with the limit or with each other, and each limit is reached and passed in the
runs. Two actors of a kind suffice for the properties that speak of "another"
one (a reply taken for another board's, a key that recurs); three boards are used
where one stands between two others. Each property is also run against a mutated
definition (`mutants` in `PROJECT.json`) and fails there.

Two `Connect`s are enough for what one leaves behind to meet the next; what holds
over any number of them is proved. Five reports let a ring of three wrap and a
kind be folded, and still leave one for the interval after.

The deadlock check is off in the runs of `ConfigStartup`, because `Connect` really
ends, and in `bus_health`, where time and reports are bounded.

### What the runs that end in a violation show

* `startup_writes`: a config frame the port rejects leaves no trace.
  `SendConfigEvent` returns false and nobody looks; the runtime starts.
* `startup_chain`: the comment in `Connect` wants virtualized boards in the reply
  chain; a skipped board leaves the loop before it is put on the list. In
  practice a virtual board is therefore never in the chain, unless all of its
  frames were rejected writes (see `startup_writes`). `SwitchSession` covers what
  `RS485Comm` does with one.
* `configuration_again`: `Connect` hands the list of skipped boards to `RS485Comm`
  only after the board loop. A board taken off the list between two sessions gets
  none of its board settings, and the runtime starts.

Smaller disagreements between what the code says and what it does, which no run
is spent on: `switchReplyChainsClean` ("completed intact") also counts a chain in
which a reply was taken for another board's, when the bus does not lose the turn
with the reply; `configAckTimeouts` counts attempts, not "config frames never
acknowledged"; `sessionResyncs` counts every miss at or past the threshold; and
"(+N more in the last 5s)" speaks of the five seconds after the entry before,
however long ago they were (`RateLimited` says this). Against the comment at the
check of `m_runtimeEnabled` the iteration under way can still write into a firmware
transfer when `StopUpdates` was called first, a whole resync with its output frame
or an output frame with virtual replies (`IntrusionBounded`); and nothing keeps
another thread from starting the runtime after the check.

Behaviours the properties had to make room for, and that no comment denies:
`StopSettles` counts output and refresh frames, while the setup and mapping frames of
a resync under way go out after `StopUpdates` as well;
commands that arrive in the bus thread's idle sleep are sent with the live state
first and then once more from their snapshots, so the bus goes back in time
(`WireOrder` names this exception); and a coil switched on while the bus thread
consumes the holdover copied before loses one of its frames (`MinimumPulse` says
`HoldFrameCount - 1`). With more than one host thread a command issued during
`Disconnect` can be sent after the join, hence `OneHostThread` in
`QuietAfterJoin`. In `SwitchState`, a call of `SetVirtualSwitchState` that overlaps
the board's reply can have its change marked as told when it was not (`raced`): the
flag is cleared after the write, also by a reply that carried no state.

## Fairness

* The bus thread and a thread inside `Disconnect`, `Connect` or
  `UpdateBoardFirmware` keep running (weak fairness): nothing in the code blocks
  them for good, all reads and writes have timeouts.
* `output` assumes strong fairness of three steps: the gate is passed again and
  again while the runtime is on (a resync that is due is sent in the end), output
  frames are chosen again and again (a refresh is not always due), and writes succeed
  again and again. Of the host it assumes only that `Disconnect` goes on.
* `session_heals` assumes boards that take their turn, a bus that becomes quiet, a
  hold that ends, and that the refresh is sent again and again. The last is
  strong fairness on `Poll(TRUE)`: it is disabled within a chain, and the refresh
  interval comes round while switches rest.
* `startup` and `firmware` assume nothing of the boards, not even that
  they answer.
* `switch_state` assumes that each thread goes on with the call, or the frame, it
  has begun. No board need send anything or get a turn, and no write need succeed.

## Proofs

`OutputPipelineProofs` proves, for any sets of coils, lamps and GI strings, any
queue length, holdover and number of commands:

| Theorem | Property | Argument |
|---|---|---|
| `TypeCorrect` | `TypeOK` | inductive as it stands |
| `MinimumPulseHolds` | `MinimumPulse` | `HoldInv` |
| `BoundedPulseHolds` | `BoundedPulse` | `HoldInv` |
| `StopSettlesHolds` | `StopSettles` | `StopInv`: what the bus thread may still send, by its place in the loop |
| `QuietAfterJoinHolds` | `QuietAfterJoin` | `OffInv`: state and holdover are cleared when `Disconnect` sends its last frames; for one host thread |
| `WireOrderHolds` | `WireOrder` | `OrderInv`: frame on the bus, frame in hand, snapshot in hand and snapshots waiting are in the order of their commands, unless one overtook |
| `DisconnectIsBounded` | | `StepsLeft`, see below |

Neither pulse property is inductive, because the number of frames shown and the
holdover left change in different steps: the bus thread copies the holdover when
it composes a frame and consumes it after sending. `HoldInv` accounts for the
iteration under way: the composed frame shows every coil that was held
(`FrameShowsHeld`), a coil switched on since then has its full holdover
(`FreshIsComplete`), the copy agrees with the live counter for all others
(`CopyIsAccurate`), and `HoldAccount` adds up frames shown and holdover left, with
one frame of slack for a coil whose frame is written and not yet consumed.
`Joined` (no bus thread between the join and the next `Run`) keeps `Disconnect`,
which clears the counters, out of an iteration.

The assumptions are those of the module: natural numbers for the limits, at least
one snapshot and one trigger per burst.

`ConfigStartupProofs` proves, for any boards (counted or not), any list of frames, any
number of attempts, any time to wait and any miss threshold:

| Theorem | Property | Argument |
|---|---|---|
| `TypeCorrect` | `TypeOK` | with `PhaseInv`: where in the list each phase stands; with rejected writes too |
| `StartedMeansAppliedHolds` | `StartedMeansApplied` | `ApplyInv`; if no write is rejected |
| `VirtualByChoiceHolds` | `VirtualByChoice` | `ApplyInv`; if no write is rejected |
| `EarlyAbortIsExactHolds` | `EarlyAbortIsExact` | `CountInv`: the streak counts the frames given up, and the counter of a counted board those to it, as long as all boards, or this one, are silent |
| `StartupIsBounded` | | `Effort`, see below |

The condition is the one `startup_writes` shows to be needed. What has to
be excluded is an old answer that passes for a new one. `FlightInv` says that all
frames and answers under way are `Recent`: for the frame at hand or for the last
one before it that went to the same board. The keys of these two differ
(`ScriptAssumption`), so an answer that matches is the answer to the frame at hand
(`MatchIsExact`). Moving on keeps this true only because what one board has heard
and answered is in order (`OrderInv`): when the answer to frame i arrives, nothing
older is left behind it. All of it holds only until the first frame is given up,
after which the startup cannot succeed. Boards that drop a frame and boards that
answer late are covered, boards that reorder frames are not.

`FirmwareUpdateProofs` proves, for any number of chunks, attempts, calls, mapping frames
and virtual boards:

| Theorem | Property | Argument |
|---|---|---|
| `TypeCorrect` | `TypeOK` | `TypeInv`: a chunk that is awaited is one of the image |
| `IntrusionBoundedHolds` | `IntrusionBounded` | `GateInv`: as long as nobody starts the runtime again, it is off during a transfer, and the intruders so far and the frames the iteration under way can still write (`Remaining`) are together no more than `Longest` |
| `AckedMeansStagedHolds` | `AckedMeansStaged` | `InstallInv`; unless calls overlap |
| `PromiseKept` | `KeepsPromise` | `InstallInv` and `CommitInv`; unless calls overlap; every step maps to a step of `ImageInstall` or to a stutter |
| `UpdateIsBounded` | | `Work`, see below |

Chunks are repeated and answered late, begin and commit are sent once. `InstallInv`
says that all frames under way are of this call, in the order they were sent, and
that the answer to begin, or to commit, comes when nothing is behind it; what the
board has staged is then the image up to the chunk at hand, or one more. Success
alone would follow from this. For the refinement the board's own step counts, which
may come after the call has given up: `CommitInv` says that a commit under way is
the last frame of its call and is sent only when every chunk was acknowledged, so the
step that installs is `Install` and the image is whole.

`SwitchSessionProofs` proves, for any chain and any virtual boards in it:

| Theorem | Property | Argument |
|---|---|---|
| `TypeCorrect` | `TypeOK` | inductive with the phases of a chain |
| `BrokenSessionNotPolledHolds` | `BrokenSessionNotPolled` | `StreakInv`: while no resync is due, the chains missed in a row are at most one more than the counted ones, or none at all after a resync, which leaves the counter as it is |
| `MisattributionNoticedHolds` | `MisattributionNoticed` | `LineInv`; on a shared medium |
| `HealedSessionStays` | | `Healed` is closed under every step |
| `ChainIsBounded` | | `HopsLeft`, see below |

`LineInv` uses the place of a board in the chain. A board that is in step and has
its turn is the one the host expects next, and so is the sender of a reply that
would be accepted; when a reply is lost the turn is lost with it, so a later board
cannot fill the gap.

`Healed` is what a repaired session comes to on a quiet bus: nothing to repair, every
board in step, the host's view right, no stale reply waiting between chains, and
within a chain the replies in line in the order of the chain, with only the board
behind them having its turn. No step leads out of it, so what is left of
`SessionHeals` is that a session gets there, a matter of fairness. Every disturbing action (timeout, damaged reply, missed
chain, resync) is shown to be impossible there (`NothingGoesWrong`).

`SwitchStateProofs` proves, for any bits, bytes, boards and frames:

| Theorem | Property | Argument |
|---|---|---|
| `TypeCorrect` | `TypeOK` | inductive as it stands |
| `EventsMatchBitmapHolds` | `EventsMatchBitmap` | `FeedInv` |
| `PromiseKept` | `KeepsPromise` | `FeedInv`; every step maps to a step of `SwitchFeed` or to a stutter |
| `ChangesToldHolds` | `ChangesToldUnlessRaced` | `ToldInv`: the copy for a reply holds the states the board is about to tell |

`FeedInv` ties events, bitmap, reports and the private copies of the two threads
together, position by position within the two loops of `ApplySwitchBitmapDiff`; a
byte that only the bus thread writes cannot change between its read and its write
(`ByteIsCurrent`).

`BusHealthProofs` proves, for any kinds, threads, ring and interval:

| Theorem | Property | Argument |
|---|---|---|
| `TypeCorrect` | `TypeOK` | inductive as it stands |
| `RecentIsTailHolds` | `RecentIsTail` | `RingInv`: slot by slot, what the ring holds of the entries written |
| `RateLimitedHolds` | `RateLimited` | `StampInv`, `LimitInv`: `lastRecord` is the time of the kind's last entry, and folded occurrences lie within an interval of it |
| `HealthAddsUpHolds` | `HealthAddsUp` | `CounterInv`: counters only grow, and those read later are read no smaller |
| `AccountingHolds` | `Accounting` | `AccountInv`, `ReporterInv` |

`Entered`, the occurrences that the log speaks of, is a sum over a sequence,
defined as a recursive function. The prover cannot do the induction that says what
such a function computes, and does not have to: `AccountInv` speaks of every
function that adds up the log step by step (`Adds`) and of the existence of one.
Appending an entry extends each by one value, and the function in `Entered` is one
of them. A thread that has counted and not yet recorded is in `InFlight`, one by
one (`ReporterInv`).

`ConfigurationProofs` proves, for any configurations, lists of skipped boards, sizes
of tables and numbers of calls:

| Theorem | Property | Argument |
|---|---|---|
| `TypeCorrect` | `TypeOK` | `TypeInv`, `PhaseInv` |
| `NothingIsStaleHolds` | `NothingIsStale` | `LoadInv`: a configuration that would pass has its groups parsed, and one whose GI mappings parse its settings too; `CollectInv` |
| `NumbersAreServedHolds` | `NumbersAreServed` | `ServedInv`: from `Collect` on the tables are those of the configuration |
| `SwitchSourcesHolds` | `SwitchSources` | `ListsInv`, `OwnerInv`: masks, lists and owners belong together |
| `SettingsTakenHolds` | `SettingsTaken` | `SettledInv`; if the port took every frame and no board was taken off the list |
| `ChainAgreesHolds` | `ChainAgrees` | `GatherInv`: as the loop goes over the boards, `switchBoards` is what any function that gathers them has so far; `ChainInv`: the chain is the longest part of it that fits, and each board was told its `NextBoard` |

The numbering needs the order of a set's elements without induction: a number's
index is how many of its set are smaller, this grows with the number (`RankGrows`),
so every index up to the size of the set is taken exactly once (`Ranks`), and a list
cut short keeps the smallest (`AscendingTakesLeast`).

How long three of the calls and a chain can take is proved as a number that every step uses up
and that is a natural number throughout:

| Theorem | Number | What it bounds |
|---|---|---|
| `DisconnectIsBounded` | `StepsLeft` | at most 16 + 2 `EventsToSend` steps of the host's and the bus thread from the call of `Disconnect` on, whatever is queued; needs `StopStands`: nothing takes `m_stopRequested` back |
| `StartupIsBounded` | `Effort` | at most ((`Window` + 5) `Retries` + 3) (`Len(Frames)` + 1) steps of `Connect` and the boards together, whatever is answered, lost or rejected |
| `UpdateIsBounded` | `Work` | steps of a firmware call, in which strays of earlier calls are read away too; the board and the bus thread take what they like and add nothing |
| `ChainIsBounded` | `HopsLeft` | at most `MaxBoards` + 2 steps of the bus thread from a poll to the top of its loop, also when a mistaken reply leads the chain round in circles |

They hold without any fairness. `DisconnectReturns`, `StartupEnds` and
`UpdateReturns` are these bounds and, under fairness, that a step is possible as
long as the call is not over; the second half stays with the model checker.

Only model-checked are the liveness properties `DisconnectReturns`, `PulseServed`,
`WireSettles`, `SessionHeals`, `StartupEnds`, `UpdateReturns` and `ChangesBecomeEvents`
(the prover does not handle fairness and `ENABLED` here). All invariants and action
properties of the passing runs and both refinements are proved. No module uses a
recursive operator.

## What is not modelled

Frame layout, CRC and epochs as numbers (the protocol headers are in the
io-boards submodule), serial port attributes, YAML parsing, anomaly texts, timing in
milliseconds, thermal warnings and LED and PWM effect fields (read and passed on),
accessors, counters that only count (config retries and timeouts), the legacy event
functions, which have no callers. The boards are modelled only from what the host
code relies on. `ConfigStartup` covers one `Connect`, with the restart assumed to reach
the boards. `FirmwareUpdate` assumes for its safety properties that the board has
dealt with the frames of earlier calls: answers name no call, and with several calls'
frames waiting in a board a late answer passes for a new one.

Handles of serial ports are not modelled either: `RS485Comm::Connect` closes what it
opened on every path that fails, but a startup that fails after it leaves the port
open, and a second `Connect` then overwrites the handle.

Eight hazards have no property. For some nothing in the code or its documentation
says what should happen: the limit `m_switches` does not have, a chain cut at a board
number that is too large, the game-on solenoid when every board is skipped, switches
that stay on from one session to the next, commands issued after `Disconnect`, and the
handle just named. A lost answer that turns into a failed update, because the board
does not acknowledge the repeated chunk, is allowed by `ImageInstall`. The last is
the late answer of an earlier firmware call. They are in `PROJECT.json` with their
notes.

## Plan

1. Done: `OutputPipeline`, `ConfigStartup` and `FirmwareUpdate` with proofs, and
   `SwitchSession`.
2. Done: `SwitchState` with the abstract `SwitchFeed` and the refinement, `BusHealth`,
   `Configuration` (numbering, ownership, chain, skipped boards, settings over several
   loads and `Connect`s), each with proofs.
3. Done: all safety properties proved; `ImageInstall`, implemented by
   `FirmwareUpdate` when calls do not overlap; bounds on `Disconnect`, `Connect`,
   `UpdateBoardFirmware` and a chain; a healed session stays healed.
4. Next: a coil driver that promises pulses (implemented by `OutputPipeline`), and a
   reliable configuration transfer (implemented by `ConfigStartup` when writes do not
   fail).
