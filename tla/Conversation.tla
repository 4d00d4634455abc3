---------------------------- MODULE Conversation ----------------------------
(***************************************************************************)
(* What the steer queue promises its users, without the loop that keeps    *)
(* the promise: a message that is pushed waits, in the order of the        *)
(* pushes, until it is said, that is, becomes part of the conversation.    *)
(* Messages are said from the front of the line: all of a part of it, or   *)
(* all of that part but the messages marked Later, which keep their place  *)
(* before every newer one.                                                 *)
(***************************************************************************)
EXTENDS Naturals, Sequences, Selection

VARIABLES
    word,       \* the messages pushed: id -> priority
    waiting,    \* the ids not yet said
    said        \* the ids said, in order

conversation == <<word, waiting, said>>

Silence == word = <<>> /\ waiting = <<>> /\ said = <<>>

Push ==
    /\ \E p \in {"Now", "Next", "Later"} : word' = Append(word, p)
    /\ waiting' = Append(waiting, Len(word) + 1)
    /\ UNCHANGED said

Say(urgentOnly) ==
    \E n \in 1..Len(waiting) :
        LET front == SubSeq(waiting, 1, n)
            later == {i \in 1..n : urgentOnly /\ word[front[i]] = "Later"}
        IN  /\ said' = said \o At(front, (1..n) \ later)
            /\ waiting' = At(front, later) \o SubSeq(waiting, n + 1, Len(waiting))
            /\ UNCHANGED word

Converses == Silence /\ [][Push \/ \E u \in BOOLEAN : Say(u)]_conversation
=============================================================================
