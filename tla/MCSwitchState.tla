---------------------------- MODULE MCSwitchState ----------------------------
EXTENDS SwitchState

CONSTANTS r, v

\* A real and a virtual switch in one byte, another real one in a second.
TwoPerByte == [s \in 0..2 |-> s \div 2]
ByTurns    == [s \in 0..2 |-> IF s = 1 THEN v ELSE r]
=============================================================================
