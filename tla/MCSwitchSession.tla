-------------------------- MODULE MCSwitchSession --------------------------
(* Instances of SwitchSession for TLC.                                     *)
EXTENDS SwitchSession

CONSTANTS b1, b2, b3

TwoBoards == << b1, b2 >>
ThreeBoards == << b1, b2, b3 >>
=============================================================================
