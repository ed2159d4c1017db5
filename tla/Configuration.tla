---------------------------- MODULE Configuration ----------------------------
(***************************************************************************)
(* What a PPUC object carries from one configuration and one Connect to    *)
(* the next: LoadConfiguration and the list of skipped boards, the port,   *)
(* the numbering of coils, lamps and switches, the ownership of switches,  *)
(* the virtualized boards and the chain of switch boards, over any number  *)
(* of failed and successful startups.                                      *)
(*                                                                         *)
(* A configuration is a record of what these parts read in the YAML tree.  *)
(* The acknowledged frames are ConfigStartup's subject; here each board    *)
(* simply answers, stays silent, or is not reached because the port        *)
(* rejects the write.  The host makes its calls from one thread, loads and *)
(* skips between sessions, and disconnects before it connects again after  *)
(* a session; it may load, skip and connect again after a failure.  What   *)
(* becomes of the handles of serial ports is not modelled.                 *)
(***************************************************************************)
EXTENDS Naturals, Sequences, FiniteSets

CONSTANTS
  Configs,     \* the configuration files the host may load
  SkipLists,   \* the lists of boards it may skip
  BoardNumbers,\* the boards they name
  MaxBoards,   \* RS485_COMM_MAX_BOARDS
  MaxBits,     \* kMaxCoilBits, kMaxLampBits, kMaxSwitchBits
  MaxByte,     \* 255: the largest number that is read as a byte
  MaxNumber,   \* 65535: the largest number that is read as 16 bits
  MaxConnects, \* bound on the calls of Connect
  None         \* ppuc::v2::kNoBoard, and nothing loaded

Kinds == {"coil", "lamp", "switch"}

\* The required fields are there and have their types ("complete"), which
\* bounds boards and gameOn but not the numbers of switches and outputs.
ConfigType(c) ==
  /\ c.complete \in BOOLEAN /\ c.giFits \in BOOLEAN
  /\ c.boards \in Seq([number : BoardNumbers, polled : BOOLEAN])
  /\ c.switches \in Seq([number : Nat, board : BoardNumbers, button : BOOLEAN])
  /\ c.outputs \in SUBSET [kind : {"coil", "lamp"}, number : Nat,
                           board : BoardNumbers]
  /\ c.gameOn \in 0..MaxByte
  /\ \A g \in DOMAIN c.named : c.named[g] \in SUBSET (0..MaxNumber)

ASSUME ConfigAssumption ==
  /\ \A c \in Configs : ConfigType(c)
  /\ IsFiniteSet(BoardNumbers) /\ BoardNumbers \subseteq 0..MaxByte
  /\ SkipLists \subseteq SUBSET BoardNumbers /\ {} \in SkipLists
  /\ None \notin BoardNumbers /\ None \notin Configs
ASSUME BoundAssumption ==
  /\ MaxBoards \in Nat \ {0} /\ MaxBits \in [Kinds -> Nat \ {0}]
  /\ MaxByte \in Nat /\ MaxNumber \in Nat /\ MaxByte <= MaxNumber
  /\ MaxConnects \in Nat

VARIABLES
  \* PPUC
  config,       \* m_ppucConfig, None before the first load
  groups,       \* m_switchGroups; a group that is not there has no switches
  settings,     \* the configuration m_serial and m_platform are from
  skips,        \* m_skippedBoards
  gameOn,       \* m_gameOnSolenoid, which no constructor sets
  \* RS485Comm
  port,         \* m_pSerialPort is set
  commSkips,    \* m_skippedBoards
  numbers,      \* m_coilIndexToNumber, m_lampIndexToNumber, ...
  bits,         \* m_runtimeConfig
  configured,   \* m_configuredBoards
  byBoard,      \* m_switchNumbersByBoard: the pairs in it
  mask,         \* m_switchOwnershipMaskByBoard
  buttons,      \* m_buttonSwitchNumbers
  present,      \* m_presentBoards
  failed,       \* m_configFailed
  finalized,    \* m_boardPresenceFinalized
  virtual,      \* m_virtualSwitchBoards
  owner,        \* m_virtualSwitchOwnerByNumber: the pairs in it
  chain,        \* m_switchBoards up to m_switchBoardCounter
  \* inside Connect
  pc,           \* how far it is; "idle" between calls, "running" after success
  index,        \* the next of the configured boards
  switchBoards, \* the polled boards so far
  \* history
  told,         \* board -> the next board its last frame names
  settled,      \* boards that took their board settings in this Connect
  rejected,     \* the port rejected a write in this Connect
  staleSkips,   \* in this Connect RS485Comm began by skipping other boards, too
  connects      \* the calls of Connect

file    == << config, groups, settings, skips >>
tables  == << commSkips, numbers, bits, configured, byBoard, mask, buttons >>
heard   == << present, failed, rejected, settled >>
virtuals == << finalized, virtual, owner >>
serial  == << port, connects >>
attempt == << pc, index, switchBoards, told, staleSkips >>

vars == << file, gameOn, tables, heard, virtuals, chain, serial, attempt >>

Elements(s) == {s[i] : i \in DOMAIN s}

----------------------------------------------------------------------------
(* Loading.                                                                *)

Buttons(c) == {s.number : s \in {t \in Elements(c.switches) : t.button}}

\* ValidatePpucConfiguration
Validates(c) == c.complete /\ "buttons" \notin DOMAIN c.named

\* ParseSwitchGroups; the vectors are sorted and without doubles, so sets.
ParseSwitchGroups(c) ==
  [g \in DOMAIN c.named \cup {"buttons"} |->
     IF g \in DOMAIN c.named THEN c.named[g] ELSE Buttons(c)]

ButtonsParse(c) == \A n \in Buttons(c) : n <= MaxNumber

\* Mutant: the coil GI mappings are parsed before the switch groups.
LoadGiFirst(c) ==
  /\ pc = "idle"
  /\ config' = c
  /\ groups' = IF Validates(c) /\ c.giFits /\ ButtonsParse(c)
               THEN ParseSwitchGroups(c) ELSE groups
  /\ settings' = IF Validates(c) /\ c.giFits /\ ButtonsParse(c)
                 THEN c ELSE settings
  /\ UNCHANGED << skips, gameOn, tables, heard, virtuals, chain, serial,
                  attempt >>

\* The tree is replaced before it is validated; what throws leaves the rest
\* as it was.  The coil GI mappings (giFits) come after the switch groups; behind
\* them are the serial device, which Connect opens, and the platform, which it
\* sends to the boards.
LoadConfiguration(c) ==
  /\ pc = "idle"
  /\ config' = c
  /\ groups' = IF Validates(c) /\ ButtonsParse(c)
               THEN ParseSwitchGroups(c) ELSE groups
  /\ settings' = IF Validates(c) /\ ButtonsParse(c) /\ c.giFits
                 THEN c ELSE settings
  /\ UNCHANGED << skips, gameOn, tables, heard, virtuals, chain, serial,
                  attempt >>

\* Tokens that are no byte are left out.
SetSkippedBoardsCsv(boards) ==
  /\ pc = "idle"
  /\ skips' = boards
  /\ UNCHANGED << config, groups, settings, gameOn, tables, heard, virtuals,
                  chain, serial, attempt >>

----------------------------------------------------------------------------
(* Virtual boards.                                                         *)

\* Where a board comes last in the configured ones.
Last(b) ==
  CHOOSE i \in DOMAIN configured :
    /\ configured[i] = b
    /\ \A j \in DOMAIN configured : configured[j] = b => j <= i

\* FinalizeConfiguredBoardPresence: a board that never answered is virtual,
\* and a number on two of them belongs to the one that comes last.
FinalizeConfiguredBoardPresence ==
  LET absent == Elements(configured) \ present
      served == {p \in byBoard : p.board \in absent}
  IN  /\ finalized' = TRUE
      /\ virtual' = IF finalized THEN virtual ELSE absent
      /\ owner' = IF finalized THEN owner
                  ELSE {p \in served :
                          \A q \in served :
                            q.number = p.number /\ q.board # p.board
                              => Last(q.board) < Last(p.board)}

\* EnsureConfiguredBoardPresenceKnown, under SetVirtualSwitchState,
\* IsSwitchVirtualized and IsBoardVirtualized, between the other calls.
HostAsks ==
  /\ pc \in {"idle", "running"}
  /\ FinalizeConfiguredBoardPresence
  /\ UNCHANGED << file, gameOn, tables, heard, chain, serial,
                  attempt >>

----------------------------------------------------------------------------
(* Numbering and ownership.                                                *)

\* The elements of a std::set in a vector.
Ascending(S) ==
  [i \in 1..Cardinality(S) |->
     CHOOSE n \in S : Cardinality({m \in S : m < n}) = i - 1]

\* resize fills up with 0.
Resize(s, n) == [i \in 1..n |-> IF i <= Len(s) THEN s[i] ELSE 0]

\* Mutant: outputs of skipped boards are numbered, too.
CollectedOfAll(k) ==
  IF k = "switch" THEN {s.number : s \in Elements(config.switches)}
  ELSE {o.number : o \in {p \in config.outputs : p.kind = k}}
       \cup (IF k = "coil" THEN {gameOn} ELSE {})

\* coilNumbers, lampNumbers, switchNumbers: the outputs of skipped boards are
\* left out, their switches are not; the game-on solenoid is always a coil.
Collected(k) ==
  IF k = "switch" THEN {s.number : s \in Elements(config.switches)}
  ELSE {o.number : o \in {p \in config.outputs :
                            p.kind = k /\ p.board \notin skips}}
       \cup (IF k = "coil" THEN {gameOn} ELSE {})

Least(m, n) == IF m < n THEN m ELSE n
Most(m, n) == IF m < n THEN n ELSE m

BitsFor(k) == Least(MaxBits[k], Most(1, Cardinality(Collected(k))))

\* IsValidRuntimeConfig; SetRuntimeConfig keeps the old one otherwise.
IsValidRuntimeConfig(r) == \A k \in Kinds : r[k] \in 1..MaxBits[k]

\* The tables of SetMappings from a number to its index.
NumberToIndex(s) ==
  [n \in Elements(s) |->
     CHOOSE i \in DOMAIN s : s[i] = n /\ \A j \in DOMAIN s : s[j] = n => j <= i]

\* Mutant: the lists of the last session are used again.
MasksOfLastLists(switches, lists) ==
  [b \in BoardNumbers |->
     IF b >= MaxBoards THEN {}
     ELSE {NumberToIndex(switches)[p.number] :
             p \in {q \in byBoard : q.board = b /\ q.number \in Elements(switches)}}]

\* RebuildSwitchOwnershipMasks, at the end of SetMappings with the lists of
\* the last session, and again in SetSwitchNumbersByBoard.
OwnershipMasks(switches, lists) ==
  [b \in BoardNumbers |->
     IF b >= MaxBoards THEN {}
     ELSE {NumberToIndex(switches)[p.number] :
             p \in {q \in lists : q.board = b /\ q.number \in Elements(switches)}}]

\* as<uint16_t>() throws; numbers of skipped outputs are not read.
NumbersParse ==
  /\ \A s \in Elements(config.switches) : s.number <= MaxNumber
  /\ \A o \in config.outputs : o.board \notin skips => o.number <= MaxNumber

\* PPUC::Connect from the board loop to SetSkippedBoards.
Collect ==
  /\ pc = "boards" /\ index > Len(config.boards)
  /\ IF ~NumbersParse
     THEN pc' = "idle" /\ UNCHANGED << tables, finalized >>
     ELSE LET r == [k \in Kinds |-> BitsFor(k)]
              lists == {[board |-> s.board, number |-> s.number] :
                          s \in Elements(config.switches)}
          IN  /\ numbers' = [k \in Kinds |->
                               Resize(Ascending(Collected(k)), r[k])]
              /\ bits' = IF IsValidRuntimeConfig(r) THEN r ELSE bits
              /\ configured' = [i \in DOMAIN config.boards |->
                                  config.boards[i].number]
              /\ byBoard' = lists
              /\ mask' = OwnershipMasks(numbers'["switch"], lists)
              /\ buttons' = Buttons(config)
              /\ commSkips' = skips
              /\ finalized' = FALSE
              /\ pc' = "devices"
  /\ UNCHANGED << file, gameOn, heard, virtual, owner, chain, serial, index,
                  switchBoards, told, staleSkips >>

----------------------------------------------------------------------------
(* Connect, step by step.                                                  *)

\* The part of Connect that is common to all its outcomes.
Connect ==
  /\ pc = "idle" /\ config # None /\ Validates(config)
  /\ connects < MaxConnects /\ connects' = connects + 1

\* RS485Comm::Connect fails, with m_pSerialPort NULL in each of its ways.
OpenFails ==
  /\ Connect
  /\ port' = FALSE
  /\ UNCHANGED << file, gameOn, tables, heard, virtuals, chain, attempt >>

\* RS485Comm::Connect, the restart or reset of the boards after it, whose frame
\* may be rejected, and the beginning of the startup attempt.  m_switchBoards
\* and the tables stay.
Open ==
  /\ Connect
  /\ port' = TRUE
  /\ present' = {} /\ failed' = FALSE /\ rejected' = FALSE /\ settled' = {}
  /\ finalized' = FALSE
  /\ pc' \in {"boards", "idle"}
  /\ index' = 1 /\ switchBoards' = << >> /\ told' = << >>
  /\ staleSkips' = ~(commSkips \subseteq skips)
  /\ UNCHANGED << file, gameOn, tables, virtual, owner, chain >>

\* SendConfigEvent for frames to these boards: some boards acknowledge, and
\* frames may be lost however often they are repeated, or rejected by the port.
\* A board the communication layer skips is sent nothing, and that counts as
\* success.
Send(boards) ==
  \E acked \in SUBSET (boards \ commSkips), lost \in BOOLEAN, denied \in BOOLEAN :
    /\ lost \/ denied \/ acked = boards \ commSkips
    /\ present' = present \cup acked
    /\ failed' = (failed \/ lost)
    /\ rejected' = (rejected \/ denied)
    /\ settled' = IF pc = "boards" /\ ~lost /\ ~denied
                  THEN settled \cup acked ELSE settled

\* Mutant: a board number too large for the chain takes a place in it.
RegisterAnyBoard(b) ==
  chain' = IF Len(chain) < MaxBoards THEN Append(chain, b) ELSE chain

RegisterSwitchBoard(b) ==
  chain' = IF Len(chain) < MaxBoards /\ b < MaxBoards
           THEN Append(chain, b) ELSE chain

\* One turn of the loop over the boards.
ConfigureBoard ==
  /\ pc = "boards" /\ index <= Len(config.boards)
  /\ LET b == config.boards[index].number IN
       IF b \in skips
       THEN UNCHANGED << gameOn, heard, chain, switchBoards >>
       ELSE /\ Send({b})
            /\ gameOn' = config.gameOn
            /\ IF config.boards[index].polled
               THEN /\ RegisterSwitchBoard(b)
                    /\ switchBoards' = Append(switchBoards, b)
               ELSE UNCHANGED << chain, switchBoards >>
  /\ index' = index + 1
  /\ UNCHANGED << file, tables, virtuals, serial, pc, told, staleSkips >>

\* The boards of the switches and outputs; a matrix or a stripe is at the board of
\* its items.
DeviceBoards ==
  ({s.board : s \in Elements(config.switches)}
     \cup {o.board : o \in config.outputs}) \ skips

\* The lists of the facade hold the numbers of switches, and of the outputs
\* that are configured, as bytes; a switch number that is none throws.
SwitchesAreBytes ==
  \A s \in Elements(config.switches) : s.number <= MaxByte

\* The frames of switches, outputs, LEDs and effects.
ConfigureDevices ==
  /\ pc = "devices"
  /\ Send(DeviceBoards)
  /\ pc' = IF SwitchesAreBytes THEN "presence" ELSE "idle"
  /\ UNCHANGED << file, gameOn, tables, virtuals, chain, serial, index,
                  switchBoards, told, staleSkips >>

\* An early abort or, before the runtime starts, any frame that was not
\* acknowledged; how early is ConfigStartup's subject.
GiveUp ==
  /\ pc \in {"boards", "devices", "presence", "setup"} /\ failed
  /\ pc' = "idle"
  /\ UNCHANGED << file, gameOn, tables, heard, virtuals, chain, serial, index,
                  switchBoards, told, staleSkips >>

\* Mutant: boards that do not answer matter only when none does.
NobodyAnswered == failed /\ present = {}

HadConfigurationFailure == failed

\* Mutant: the boards are appended to those registered so far.
SetActiveSwitchBoardsAfter(boards) ==
  chain' = SubSeq(chain \o boards, 1, Least(MaxBoards, Len(chain \o boards)))

\* The first number that is too large ends the chain.
SetActiveSwitchBoards(boards) ==
  LET fits == {n \in 0..Least(MaxBoards, Len(boards)) :
                 \A i \in 1..n : boards[i] < MaxBoards}
  IN  \E n \in fits :
        /\ \A m \in fits : m <= n
        /\ chain' = SubSeq(boards, 1, n)

\* The board a board passes the turn on to; with several places, the one after its
\* last, which the last of its frames names.
NextBoard(b) ==
  LET i == CHOOSE j \in DOMAIN switchBoards :
             /\ switchBoards[j] = b
             /\ \A l \in DOMAIN switchBoards : switchBoards[l] = b => l <= j
  IN  IF i < Len(switchBoards) THEN switchBoards[i + 1] ELSE None

\* Presence is settled, then each present board is told its successor.
SetUpChain ==
  /\ pc = "presence" /\ ~HadConfigurationFailure
  /\ FinalizeConfiguredBoardPresence
  /\ SetActiveSwitchBoards(switchBoards)
  /\ Send(Elements(switchBoards) \cap present)
  /\ told' = [b \in Elements(switchBoards) \cap present |-> NextBoard(b)]
  /\ pc' = "setup"
  /\ UNCHANGED << file, gameOn, tables, serial, index, switchBoards,
                  staleSkips >>

\* Setup and mapping frames; Run, or failure when the port rejects one.
Start ==
  /\ pc = "setup" /\ ~HadConfigurationFailure
  /\ pc' \in {"running", "idle"}
  /\ UNCHANGED << file, gameOn, tables, heard, virtuals, chain, serial, index,
                  switchBoards, told, staleSkips >>

Disconnect ==
  /\ pc \in {"idle", "running"} /\ port
  /\ port' = FALSE /\ pc' = "idle"
  /\ UNCHANGED << connects, file, gameOn, tables, heard, virtuals, chain, index,
                  switchBoards, told, staleSkips >>

----------------------------------------------------------------------------
NoTables == [k \in Kinds |-> << >>]

Init ==
  /\ config = None /\ groups = [g \in {"buttons"} |-> {}] /\ settings = None
  /\ skips = {}
  /\ gameOn \in 0..MaxByte
  /\ port = FALSE /\ commSkips = {} /\ numbers = NoTables
  /\ bits = [k \in Kinds |-> MaxBits[k]]
  /\ configured = << >> /\ byBoard = {} /\ buttons = {}
  /\ mask = [b \in BoardNumbers |-> {}]
  /\ present = {} /\ failed = FALSE /\ settled = {} /\ rejected = FALSE
  /\ finalized = FALSE /\ virtual = {} /\ owner = {} /\ chain = << >>
  /\ pc = "idle" /\ index = 1 /\ switchBoards = << >> /\ told = << >>
  /\ staleSkips = FALSE /\ connects = 0

Next ==
  \/ \E c \in Configs : LoadConfiguration(c)
  \/ \E boards \in SkipLists : SetSkippedBoardsCsv(boards)
  \/ HostAsks
  \/ OpenFails \/ Open \/ ConfigureBoard \/ Collect \/ ConfigureDevices
  \/ GiveUp \/ SetUpChain \/ Start
  \/ Disconnect

Spec == Init /\ [][Next]_vars

----------------------------------------------------------------------------
(* Properties.                                                             *)

\* The types of the state.
TypeOK ==
  /\ config \in Configs \cup {None} /\ settings \in Configs \cup {None}
  /\ "buttons" \in DOMAIN groups
  /\ \A g \in DOMAIN groups : groups[g] \in SUBSET (0..MaxNumber)
  /\ skips \in SkipLists /\ commSkips \in SkipLists
  /\ gameOn \in 0..MaxByte
  /\ numbers \in [Kinds -> Seq(0..MaxNumber)]
  /\ bits \in [Kinds -> Nat]
  /\ configured \in Seq(BoardNumbers)
  /\ byBoard \in SUBSET [board : BoardNumbers, number : 0..MaxNumber]
  /\ mask \in [BoardNumbers -> SUBSET Nat]
  /\ buttons \in SUBSET (0..MaxNumber)
  /\ present \in SUBSET BoardNumbers /\ settled \in SUBSET BoardNumbers
  /\ failed \in BOOLEAN /\ rejected \in BOOLEAN
  /\ finalized \in BOOLEAN /\ virtual \in SUBSET BoardNumbers
  /\ owner \in SUBSET [board : BoardNumbers, number : 0..MaxNumber]
  /\ chain \in Seq(0..(MaxBoards - 1)) /\ Len(chain) <= MaxBoards
  /\ pc \in {"idle", "boards", "devices", "presence", "setup", "running"}
  /\ index \in Nat /\ switchBoards \in Seq(BoardNumbers)
  /\ \A b \in DOMAIN told : told[b] \in BoardNumbers \cup {None}
  /\ staleSkips \in BOOLEAN /\ port \in BOOLEAN /\ connects \in 0..MaxConnects

Running == pc = "running"

\* In a session nothing is left of a configuration loaded before, also when
\* LoadConfiguration threw and Connect was called all the same: the group
\* "buttons" that the game reads and the switches whose activity keeps the idle
\* refresh away (Connect) are the same, and the serial device and the platform
\* are those of the configuration, unless its GI mappings did not parse: then
\* they are the old ones.
NothingIsStale ==
  Running =>
    /\ groups["buttons"] = buttons
    /\ config.giFits => settings = config

\* In a session the setup frame's sizes are those of the number tables, and an
\* index leads to a number that leads back to the index.
TablesAgree ==
  Running =>
    \A k \in Kinds :
      /\ Len(numbers[k]) = bits[k] /\ bits[k] \in 1..MaxBits[k]
      /\ \A i \in DOMAIN numbers[k] : NumberToIndex(numbers[k])[numbers[k][i]] = i

Wanted(k) ==
  IF k = "switch" THEN {s.number : s \in Elements(config.switches)}
  ELSE {o.number : o \in {p \in config.outputs :
                            p.kind = k /\ p.board \notin skips}}
       \cup (IF k = "coil" THEN {config.gameOn} ELSE {})

SomeBoardIsConfigured == \E b \in Elements(config.boards) : b.number \notin skips

\* In a session what has a number in the configuration, and is not on a skipped
\* board, can be commanded, and nothing else but the 0 of an empty table; a
\* full table has the smallest numbers.  (When every board is skipped the
\* game-on solenoid is that of an earlier configuration or an arbitrary byte.)
ConfiguredIsServed ==
  Running /\ SomeBoardIsConfigured =>
    \A k \in Kinds :
      LET served == Elements(numbers[k]) IN
        /\ served \subseteq Wanted(k) \/ (Wanted(k) = {} /\ served = {0})
        /\ \A n \in Wanted(k) \ served :
             Len(numbers[k]) = MaxBits[k] /\ \A m \in served : m < n

\* The tables are consistent, and they are those of the configuration.
NumbersAreServed == TablesAgree /\ ConfiguredIsServed

\* In a session the bits of a switch are taken from the frames of its own board
\* alone, when that board is present and in the chain, and the host may set it
\* when its board is virtual, and never both.  A switch on a present board that is
\* not polled, or has no place in the chain, is fed by nobody.  (For a switch the
\* table has, with a number on one board only.)
SwitchSources ==
  Running =>
    \A s \in Elements(config.switches) :
      /\ \A t \in Elements(config.switches) : t.number = s.number => t.board = s.board
      /\ s.number \in Elements(numbers["switch"])
      => LET i == NumberToIndex(numbers["switch"])[s.number]
             heads    == present \cap Elements(chain)
             fromBus  == {b \in heads : i \in mask[b]}
             fromHost == {p.board : p \in {q \in owner : q.number = s.number}}
         IN  /\ fromBus = {s.board} \cap heads
             /\ fromHost = {s.board} \cap virtual
             /\ fromBus = {} \/ fromHost = {}

\* The polled boards of the configuration that are not skipped, in their order.
Polled ==
  LET polled[i \in 0..Len(config.boards)] ==
        IF i = 0 THEN << >>
        ELSE IF config.boards[i].polled /\ config.boards[i].number \notin skips
             THEN Append(polled[i - 1], config.boards[i].number)
             ELSE polled[i - 1]
  IN  polled[Len(config.boards)]

\* In a session the host expects the replies in the order the boards were told
\* to hand on the turn, from the polled boards of this configuration and from
\* no other.  (With different board numbers below MaxBoards, which
\* SetActiveSwitchBoards ends the chain at; and of what boards were told, unless
\* the port rejected a frame.)
ChainAgrees ==
  /\ Running
  /\ \A i \in DOMAIN Polled : Polled[i] < MaxBoards
  /\ \A i, j \in DOMAIN Polled : Polled[i] = Polled[j] => i = j
  => /\ chain = Polled
     /\ ~rejected =>
          \A i \in DOMAIN chain :
            chain[i] \in present =>
              told[chain[i]] = IF i < Len(chain) THEN chain[i + 1] ELSE None

\* A session begins only with boards that took their board settings, and the
\* virtual boards are the skipped ones.  (Unless the port rejected a frame, and
\* when no board is taken off the list of skipped boards between sessions.)
SettingsTaken ==
  Running /\ ~rejected /\ ~staleSkips =>
    /\ Elements(configured) \ skips \subseteq settled
    /\ virtual = Elements(configured) \cap skips

\* PPUC.cpp:1792: "Start the V2 runtime only after all board-local config was
\* applied."  Not so when a board is taken off the list of skipped boards
\* between sessions: RS485Comm gets the new list after the board loop, until
\* then it drops the frames for that board and reports success.
SettingsTakenAlways ==
  Running /\ ~rejected => Elements(configured) \ skips \subseteq settled
=============================================================================
