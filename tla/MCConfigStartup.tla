--------------------------- MODULE MCConfigStartup ---------------------------
EXTENDS ConfigStartup

CONSTANTS a, b, s

\* Two boards and a skipped one.  Board a gets the same key twice, as a board
\* with two switches does (PPUC.cpp: index and key start over for each item).
Recurring ==
  << [board |-> a, key |-> "port"], [board |-> a, key |-> "number"],
     [board |-> a, key |-> "port"], [board |-> s, key |-> "port"],
     [board |-> b, key |-> "port"] >>

\* Both boards from the beginning, so that each of them, or both together, can
\* miss enough frames, with a recurring key again.
Alternating ==
  << [board |-> a, key |-> "port"], [board |-> b, key |-> "port"],
     [board |-> a, key |-> "number"], [board |-> b, key |-> "number"],
     [board |-> a, key |-> "port"], [board |-> s, key |-> "port"] >>

PolledAll  == << a, s, b >>
PolledOne  == << b >>
=============================================================================
