------------------------------ MODULE SwitchFeed ------------------------------
(***************************************************************************)
(* What the library promises a host program about switch events: every     *)
(* change of a switch it learns of becomes one event, before the switch's  *)
(* next change is learnt, and the events are fetched in their order.  The  *)
(* promise ends for a switch that is spoilt, which can only happen to the  *)
(* exposed ones.                                                           *)
(***************************************************************************)
EXTENDS Sequences

CONSTANTS
  Switches,
  Exposed      \* those whose events may become unreliable

VARIABLES
  actual,      \* the last state of each switch the library has learnt of
  announced,   \* what the last event of each switch said
  queue,       \* the events the host has yet to fetch
  spoilt       \* switches whose events are no longer to be relied on

vars == << actual, announced, queue, spoilt >>

Init ==
  /\ actual = [s \in Switches |-> FALSE]
  /\ announced = actual /\ queue = << >> /\ spoilt = {}

\* The switches of C turn out to have changed.
Learn(C) ==
  /\ \A s \in C \ spoilt : announced[s] = actual[s]
  /\ actual' = [s \in Switches |-> IF s \in C THEN ~actual[s] ELSE actual[s]]
  /\ UNCHANGED << announced, queue, spoilt >>

Announce(s) ==
  /\ s \notin spoilt => announced[s] # actual[s]
  /\ announced' = [announced EXCEPT ![s] = actual[s]]
  /\ queue' = Append(queue, [switch |-> s, on |-> actual[s]])
  /\ UNCHANGED << actual, spoilt >>

Fetch ==
  /\ queue # << >>
  /\ queue' = Tail(queue)
  /\ UNCHANGED << actual, announced, spoilt >>

Spoil(S) ==
  /\ S \subseteq Exposed
  /\ spoilt' = spoilt \cup S
  /\ UNCHANGED << actual, announced, queue >>

Next ==
  \/ \E C \in SUBSET Switches : Learn(C)
  \/ \E s \in Switches : Announce(s)
  \/ Fetch
  \/ \E S \in SUBSET Exposed : Spoil(S)

Spec == Init /\ [][Next]_vars
=============================================================================
