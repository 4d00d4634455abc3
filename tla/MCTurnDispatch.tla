--------------------------- MODULE MCTurnDispatch ---------------------------
(* Two files in one directory, and the calls that can be made on them. *)
EXTENDS TurnDispatch

CONSTANTS kReadA, kReadB, kWriteA, kShell

File(name) == [abs |-> FALSE, comps |-> <<name>>]

MCNames == {"w", "a", "b"}
MCBase == <<"w">>
MCSpellings == {File("a"), File("b")}

ReadA == [acc |-> ReadOnly({File("a")}, FALSE), direct |-> TRUE, key |-> kReadA]
\* reads like ReadA's neighbour, but policy asks the user first
AskReadB == [acc |-> ReadOnly({File("b")}, FALSE), direct |-> FALSE, key |-> kReadB]
WriteA == [acc |-> WriteOnly({File("a")}), direct |-> TRUE, key |-> kWriteA]
Shell == [acc |-> AllAccesses, direct |-> FALSE, key |-> kShell]

MCCalls == {ReadA, AskReadB, WriteA, Shell}
=============================================================================
