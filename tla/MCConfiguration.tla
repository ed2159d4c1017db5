--------------------------- MODULE MCConfiguration ---------------------------
EXTENDS Configuration

Switch(n, b, isButton) == [number |-> n, board |-> b, button |-> isButton]
Output(k, n, b) == [kind |-> k, number |-> n, board |-> b]
Board(b, isPolled) == [number |-> b, polled |-> isPolled]

\* Two polled boards, a button on each, and a named group.
Pair == [complete |-> TRUE, giFits |-> TRUE,
         boards |-> << Board(1, TRUE), Board(0, TRUE) >>,
         switches |-> << Switch(2, 0, TRUE), Switch(1, 1, TRUE) >>,
         outputs |-> {Output("coil", 2, 0), Output("coil", 3, 1)},
         gameOn |-> 1, named |-> [ramps |-> {1}]]

\* More switches and lamps than fit, no dedicated coil, a board that is not
\* polled, another game-on solenoid; the GI mappings do not parse.
Crowd == [complete |-> TRUE, giFits |-> FALSE,
          boards |-> << Board(0, TRUE), Board(1, FALSE) >>,
          switches |-> << Switch(1, 1, FALSE), Switch(2, 0, FALSE),
                          Switch(3, 0, TRUE) >>,
          outputs |-> {Output("lamp", n, 1) : n \in 1..3},
          gameOn |-> 2, named |-> << >>]

\* A group takes the reserved name.
Reserved == [Pair EXCEPT !.named = [buttons |-> {2}]]

\* Numbers that the validation lets pass and Connect does not: a coil's of more
\* than 16 bits, unless its board is skipped, and a switch's of more than 8.
Wide == [Pair EXCEPT !.outputs = {Output("coil", 5, 1)},
                     !.switches = << Switch(4, 0, TRUE) >>]

\* A board number past the end of the chain, and a switch on it.
Far == [Pair EXCEPT !.boards = << Board(1, TRUE), Board(2, TRUE), Board(0, TRUE) >>,
                    !.switches = << Switch(1, 2, FALSE), Switch(2, 0, FALSE) >>]

MCConfigs == {Pair, Crowd, Reserved, Wide, Far}
MCSkipLists == {{}, {1}, {0, 1}}
MCMaxBits == [k \in Kinds |-> IF k = "coil" THEN 3 ELSE 2]
=============================================================================
