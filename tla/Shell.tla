------------------------------- MODULE Shell --------------------------------
(***************************************************************************)
(* The working directory of a session: the shell tool runs each command    *)
(* from it, appends a line that prints the final directory behind a        *)
(* marker, and takes marker and directory off the output again             *)
(* (execute_sandboxed_in of palaces/qian_permission/mod.rs;                *)
(* update_session_cwd of zhen_tool/builtin/exec/shell.rs); then, what is   *)
(* kept of an output on disk, and what of it is shown to the model.        *)
(***************************************************************************)
EXTENDS Sequences, FiniteSets, SequencesExt, Integers

CONSTANTS
    Dirs,           \* directories
    Boundary,       \* those under the workspace root or an allowed path
    Blocked,        \* those whose path holds a blocked prefix
    Root,           \* the workspace root
    Printed         \* what commands print: sequences of words

ASSUME ShellCwdAssumption ==
    Root \in Boundary \ Blocked /\ Boundary \cup Blocked \subseteq Dirs

VARIABLES
    existing,   \* the directories that exist
    cwd,        \* the working directory of the session
    last        \* the last command, and what was shown of it

shellVars == <<existing, cwd, last>>

CWD_MARKER == "marker"

(* A command prints, goes to a directory, may remove directories, and may  *)
(* leave the shell with exit before the appended line runs.                *)
Commands == [prints : Printed, to : Dirs, removes : SUBSET (Dirs \ {Root}), exits : BOOLEAN]

ShellCwdInit ==
    /\ existing = Dirs /\ cwd = Root
    /\ last = [cmd |-> [prints |-> <<>>, to |-> Root, removes |-> {}, exits |-> FALSE],
               shown |-> <<>>]

stdout(cmd) == IF cmd.exits THEN cmd.prints ELSE cmd.prints \o <<"nl", CWD_MARKER, cmd.to>>

(* Mutant: the first marker is taken.                                      *)
MarkerAt_First(out) ==
    LET at == {i \in 1..Len(out) : out[i] = CWD_MARKER}
    IN  IF at = {} THEN 0 ELSE CHOOSE i \in at : \A j \in at : i <= j

(* rfind.                                                                  *)
MarkerAt(out) ==
    LET at == {i \in 1..Len(out) : out[i] = CWD_MARKER}
    IN  IF at = {} THEN 0 ELSE CHOOSE i \in at : \A j \in at : j <= i

(* What is shown: without the marker and the newline before it.            *)
Visible(out) ==
    IF MarkerAt(out) = 0 THEN out
    ELSE LET head == SubSeq(out, 1, MarkerAt(out) - 1)
         IN  IF head # <<>> /\ Last(head) = "nl" THEN Front(head) ELSE head

(* The text behind the marker, which names a directory if it is one word.  *)
FinalCwd(out) ==
    IF MarkerAt(out) = 0 THEN <<>> ELSE SubSeq(out, MarkerAt(out) + 1, Len(out))

(* Mutant: only that the directory exists is asked.                        *)
verify_path_Exists(d) == d \in existing'

(* The directory can be resolved, lies inside the boundary and in no       *)
(* blocked place of it.                                                    *)
verify_path(d) == d \in existing' /\ d \in Boundary /\ d \notin Blocked

(* A command cannot be started from a directory that is gone.              *)
Shell(cmd) ==
    IF cwd \notin existing
    THEN /\ last' = [cmd |-> cmd, shown |-> <<"spawn error">>]
         /\ UNCHANGED <<existing, cwd>>
    ELSE /\ existing' = existing \ cmd.removes
         /\ last' = [cmd |-> cmd, shown |-> Visible(stdout(cmd))]
         /\ LET dir == FinalCwd(stdout(cmd))
            IN  cwd' = IF Len(dir) = 1 /\ verify_path(dir[1]) THEN dir[1] ELSE cwd

ShellCwdNext == \E cmd \in Commands : Shell(cmd)

ShellCwdSpec == ShellCwdInit /\ [][ShellCwdNext]_shellVars

-----------------------------------------------------------------------------
(* Type invariant.                                                         *)
ShellCwdTypeOK == existing \subseteq Dirs /\ Root \in existing /\ cwd \in Dirs

(* Whatever commands print and wherever they go, the session works inside  *)
(* its boundary and in no blocked place of it.                             *)
CwdInside == cwd \in Boundary \ Blocked

(* The model reads exactly what a command printed that ran to its end,     *)
(* the words of the marker included.                                       *)
ShownExactly ==
    (~last.cmd.exits /\ last.shown # <<"spawn error">>) => last.shown = last.cmd.prints

-----------------------------------------------------------------------------
(***************************************************************************)
(* Output kept on disk (zhen_tool/builtin/exec/disk_output.rs): a file     *)
(* that grows up to a cap, and readers that page through it with the       *)
(* offset they were given (read_task_output_delta, retrieve_tool_result).  *)
(*                                                                         *)
(* A byte is <<i, w>>: byte i of a character of w bytes; the notice of the *)
(* cap is one character.                                                   *)
(***************************************************************************)

CONSTANTS OutputCap,   \* MAX_TASK_OUTPUT_BYTES
          Chunks,      \* what is appended: sequences of widths
          PageSizes,   \* max_bytes of a reader, clamped to 1..MaxPage
          MaxPage, MaxAppends

VARIABLES output, offset, pages, appends, notices

outputVars == <<output, offset, pages, appends, notices>>

Bytes(chunk) == FlattenSeq([k \in DOMAIN chunk |-> [i \in 1..chunk[k] |-> <<i, chunk[k]>>]])
Notice == <<<<1, 1>>>>
smaller(a, b) == IF a < b THEN a ELSE b

(* Mutant: the characters that fit are taken one too far.                  *)
Fitting_More(chunk, available) ==
    LET Start(k) == Len(Bytes(SubSeq(chunk, 1, k - 1)))
    IN  SubSeq(chunk, 1, Len(SelectSeq([k \in DOMAIN chunk |-> k], LAMBDA k : Start(k) <= available)))

(* The characters that start before the space ends.                        *)
Fitting(chunk, available) ==
    LET Start(k) == Len(Bytes(SubSeq(chunk, 1, k - 1)))
    IN  SubSeq(chunk, 1, Len(SelectSeq([k \in DOMAIN chunk |-> k], LAMBDA k : Start(k) < available)))

append_task_output(chunk) ==
    LET size == Len(output)
    IN  /\ appends < MaxAppends /\ appends' = appends + 1
        /\ output' = CASE size >= OutputCap -> output
                       [] size < OutputCap /\ size + Len(Bytes(chunk)) > OutputCap ->
                            output \o Bytes(Fitting(chunk, OutputCap - size)) \o Notice
                       [] OTHER -> output \o Bytes(chunk)
        /\ notices' = IF size < OutputCap /\ size + Len(Bytes(chunk)) > OutputCap THEN notices + 1 ELSE notices
        /\ UNCHANGED <<offset, pages>>

Clamped(max) == IF max < 1 THEN 1 ELSE smaller(max, MaxPage)

(* Mutant: the next offset is where a full read would have ended.          *)
ReadPage_Asked(max, n) ==
    LET asked == smaller(Clamped(max), Len(output) - offset)
    IN  /\ offset < Len(output) /\ n <= asked
        /\ pages' = pages \o SubSeq(output, offset + 1, offset + n)
        /\ offset' = offset + asked
        /\ UNCHANGED <<output, appends, notices>>

(* A read of n bytes, which may be fewer than were asked for.              *)
ReadPage(max, n) ==
    LET asked == smaller(Clamped(max), Len(output) - offset)
    IN  /\ offset < Len(output) /\ n <= asked
        /\ pages' = pages \o SubSeq(output, offset + 1, offset + n)
        /\ offset' = offset + n
        /\ UNCHANGED <<output, appends, notices>>

OutputInit == output = <<>> /\ offset = 0 /\ pages = <<>> /\ appends = 0 /\ notices = 0

OutputNext ==
    \/ \E c \in Chunks : append_task_output(c)
    \/ \E max \in PageSizes, n \in 1..MaxPage : ReadPage(max, n)

OutputSpec == OutputInit /\ [][OutputNext]_outputVars

-----------------------------------------------------------------------------
(* Paging loses and repeats no byte, whatever sizes are asked for and      *)
(* however short the reads are, while the file grows.                      *)
PagesCoverOutput == pages = SubSeq(output, 1, offset)

(* The cap is passed by less than one character and one notice, and the    *)
(* notice is written once.                                                 *)
CapHolds ==
    /\ notices <= 1
    /\ Len(output) <= OutputCap + 2 + notices * Len(Notice)

-----------------------------------------------------------------------------
(***************************************************************************)
(* What of an output goes into the context (xun_context/mod.rs,            *)
(* ToolOutputBudget): all of it, or its head and its tail around a note of *)
(* what is left out.  Numbers of tokens; a token has a byte or more.       *)
(***************************************************************************)
CONSTANTS MaxTokenCount,        \* bound: tokens and bytes of an output, budgets
          NoteTokens,           \* the note
          GuideTokens, GuideAt  \* with advice, and the budget from which on it has some

VARIABLES shownOf   \* the output last shown, its budget, and what was shown of it

previewVars == <<shownOf>>

FastPath == 2
less(a, b) == IF a > b THEN a - b ELSE 0        \* saturating_sub
atLeastOne(n) == IF n > 1 THEN n ELSE 1

(* Mutant: the tail gets what the head has left, and the head again.       *)
TailTokens_Whole(content, head) == atLeastOne(content)
TailTokens(content, head) == atLeastOne(less(content, head))

truncate_output(bytes, tokens, budget) ==
    LET note == IF budget >= GuideAt THEN GuideTokens ELSE NoteTokens
        content == less(budget, note)
        head == atLeastOne(content \div 2)
    IN  IF bytes < budget * FastPath \/ tokens <= budget
        THEN [head |-> tokens, note |-> 0, tail |-> 0]
        ELSE [head |-> smaller(head, tokens), note |-> note,
              tail |-> smaller(TailTokens(content, head), tokens)]

PreviewInit == shownOf = [tokens |-> 0, budget |-> 2, head |-> 0, note |-> 0, tail |-> 0]

(* A tool returns; budgets are configured, and none is below 2.            *)
PreviewNext ==
    \E bytes \in 1..MaxTokenCount : \E tokens \in 1..bytes, budget \in 2..MaxTokenCount :
        LET p == truncate_output(bytes, tokens, budget)
        IN  shownOf' = [tokens |-> tokens, budget |-> budget, head |-> p.head, note |-> p.note,
                        tail |-> p.tail]

(* At every budget, next to that of the note too: what is shown is the     *)
(* whole output, of less than twice the budget, or a head and a tail that  *)
(* do not overlap, with the note within the budget or two tokens beyond    *)
(* the note.                                                               *)
PreviewFits ==
    LET p == shownOf
    IN  IF p.note = 0 THEN p.head = p.tokens /\ p.tokens < FastPath * p.budget
        ELSE /\ p.head + p.tail <= p.tokens /\ p.head > 0 /\ p.tail > 0
             /\ p.head + p.note + p.tail <= p.budget \/ p.head + p.tail <= 2
=============================================================================
