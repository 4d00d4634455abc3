------------------------------- MODULE Search -------------------------------
(***************************************************************************)
(* The search tools grep and glob (zhen_tool/builtin/fs): rg runs as a     *)
(* child that writes to two pipes, each drained by a task under a byte cap *)
(* and all of it under one deadline (rg.rs); grep answers a page of the    *)
(* lines and names the offset of the next one, glob answers paths.  When   *)
(* rg is not installed a walker of the program's own takes its place.      *)
(*                                                                         *)
(* A line is <<f, i>>: match i of file f, and <<f, 0>> the path of f.      *)
(***************************************************************************)
EXTENDS Integers, Sequences, FiniteSets, SequencesExt

CONSTANTS SearchFiles,   \* the files that match, in the order of the walker
          Trees,         \* how many lines of each file match: functions on the files
          Sensitive,     \* files is_sensitive_path holds of
          HeadLimit,     \* head_limit, and max_results of glob
          Offsets,       \* offsets that a call of grep may begin with
          CaptureCap,    \* MAX_OUTPUT_BYTES, in lines
          PipeSize       \* what the operating system keeps of a pipe, in lines

ASSUME SearchAssumption == HeadLimit > 0 /\ PipeSize > 0 /\ Offsets \subseteq Nat

VARIABLES tree,    \* [matches, only]: what there is to find, and the one file searched
          child,   \* rg: [state, todo, warnings, sorted, stalled, lost]
          pipes,   \* [out, err]: written and not yet read
          drained, \* [out, err, truncated]: what the two tasks have kept
          lookup,  \* [tool, first, offset]: the call, and the offset the pages began with
          reply,   \* the last answer
          paged    \* the pages of the walker so far, following the offsets

searchVars == <<tree, child, pipes, drained, lookup, reply, paged>>

Files == ToSet(SearchFiles)
Whole == ""        \* the search is of a directory
OnlyFile == tree.only # Whole
Walked == IF OnlyFile THEN <<tree.only>> ELSE SearchFiles
LinesOf(f) == [i \in 1..tree.matches[f] |-> <<f, i>>]
is_sensitive_path(f) == f \in Sensitive
Plain(lines) == SelectSeq(lines, LAMBDA l : ~is_sensitive_path(l[1]))
AllLines(order) == FlattenSeq([k \in DOMAIN order |-> LinesOf(order[k])])
Paths(order) == [k \in DOMAIN order |-> <<order[k], 0>>]

NoChild == [state |-> "none", todo |-> <<>>, warnings |-> <<>>,
            sorted |-> TRUE, stalled |-> FALSE, lost |-> 0]
NoReply == [tool |-> "none", offset |-> 0, page |-> <<>>, more |-> FALSE, filtered |-> 0,
            truncated |-> FALSE, timedOut |-> FALSE, failed |-> FALSE, walker |-> FALSE,
            cut |-> FALSE]
Nothing == [out |-> <<>>, err |-> <<>>, truncated |-> FALSE]

-----------------------------------------------------------------------------
(* rg, in whatever order its threads find the files; a file that vanishes  *)
(* during the walk is an IO error on stderr.                               *)
Orders == {o \in [1..Len(Walked) -> ToSet(Walked)] : ToSet(o) = ToSet(Walked)}

Spawn(order, gone, bad) ==
    LET here == SelectSeq(order, LAMBDA f : f \notin gone)
        lines == IF lookup.tool = "grep" THEN AllLines(here) ELSE Paths(here)
        rejects == bad = "sortr"
    IN  /\ child.state = "spawning"
        /\ rejects => lookup.tool = "glob" /\ child.sorted /\ gone = {}
        /\ child' = [child EXCEPT !.state = "running",
                       !.todo = IF rejects THEN <<>> ELSE lines,
                       !.warnings = IF rejects THEN <<"sortr">>
                                    ELSE [k \in 1..Cardinality(gone) |-> "io"]
                                         \o (IF bad = "fatal" THEN <<"fatal">> ELSE <<>>),
                       !.lost = Len(Plain(AllLines(SetToSeq(gone))))]
        /\ UNCHANGED <<tree, pipes, drained, lookup, reply, paged>>

Working == child.state = "running" /\ ~child.stalled

RgWrites ==
    /\ Working /\ child.todo # <<>> /\ Len(pipes.out) < PipeSize
    /\ pipes' = [pipes EXCEPT !.out = Append(@, Head(child.todo))]
    /\ child' = [child EXCEPT !.todo = Tail(@)]
    /\ UNCHANGED <<tree, drained, lookup, reply, paged>>

RgWarns ==
    /\ Working /\ child.warnings # <<>> /\ Len(pipes.err) < PipeSize
    /\ pipes' = [pipes EXCEPT !.err = Append(@, Head(child.warnings))]
    /\ child' = [child EXCEPT !.warnings = Tail(@)]
    /\ UNCHANGED <<tree, drained, lookup, reply, paged>>

RgExits ==
    /\ Working /\ child.todo = <<>> /\ child.warnings = <<>>
    /\ child' = [child EXCEPT !.state = "exited"]
    /\ UNCHANGED <<tree, pipes, drained, lookup, reply, paged>>

(* A slow disk: rg makes no progress.                                      *)
RgStalls ==
    /\ Working
    /\ child' = [child EXCEPT !.stalled = TRUE]
    /\ UNCHANGED <<tree, pipes, drained, lookup, reply, paged>>

-----------------------------------------------------------------------------
(* The two tasks that drain the pipes.                                     *)

(* Mutant: the task stops at the cap and leaves the rest in the pipe.      *)
read_capped_Stops ==
    /\ pipes.out # <<>> /\ Len(drained.out) < CaptureCap
    /\ pipes' = [pipes EXCEPT !.out = Tail(@)]
    /\ drained' = [drained EXCEPT !.out = Append(@, Head(pipes.out))]
    /\ UNCHANGED <<tree, child, lookup, reply, paged>>

(* Mutant: what is beyond the cap is drained and not noted.                *)
read_capped_Silent ==
    /\ pipes.out # <<>>
    /\ pipes' = [pipes EXCEPT !.out = Tail(@)]
    /\ drained' = IF Len(drained.out) < CaptureCap
                  THEN [drained EXCEPT !.out = Append(@, Head(pipes.out))]
                  ELSE drained
    /\ UNCHANGED <<tree, child, lookup, reply, paged>>

(* Mutant: the comparison with the cap is off by one.                      *)
read_capped_OneMore ==
    /\ pipes.out # <<>>
    /\ pipes' = [pipes EXCEPT !.out = Tail(@)]
    /\ drained' = IF Len(drained.out) <= CaptureCap
                  THEN [drained EXCEPT !.out = Append(@, Head(pipes.out))]
                  ELSE [drained EXCEPT !.truncated = TRUE]
    /\ UNCHANGED <<tree, child, lookup, reply, paged>>

read_capped ==
    /\ pipes.out # <<>>
    /\ pipes' = [pipes EXCEPT !.out = Tail(@)]
    /\ drained' = IF Len(drained.out) < CaptureCap
                  THEN [drained EXCEPT !.out = Append(@, Head(pipes.out))]
                  ELSE [drained EXCEPT !.truncated = TRUE]
    /\ UNCHANGED <<tree, child, lookup, reply, paged>>

(* The cap of stderr, 64 KiB, is beyond the warnings of the instance.      *)
ReadErr ==
    /\ pipes.err # <<>>
    /\ pipes' = [pipes EXCEPT !.err = Tail(@)]
    /\ drained' = [drained EXCEPT !.err = Append(@, Head(pipes.err))]
    /\ UNCHANGED <<tree, child, lookup, reply, paged>>

Stuck == ~ENABLED (RgWrites \/ RgWarns \/ RgExits \/ read_capped \/ ReadErr)

(* Mutant: the child is waited for without a deadline.                     *)
DeadlinePasses_Never == FALSE

(* RG_TIMEOUT passes while rg does nothing, of itself or because its pipe  *)
(* is full and nobody reads; rg is killed and what was captured is kept.   *)
DeadlinePasses ==
    /\ child.state = "running" /\ (child.stalled \/ Stuck)
    /\ child' = [child EXCEPT !.state = "killed", !.todo = <<>>, !.warnings = <<>>]
    /\ UNCHANGED <<tree, pipes, drained, lookup, reply, paged>>

-----------------------------------------------------------------------------
Ended == child.state \in {"exited", "killed"} /\ pipes.out = <<>> /\ pipes.err = <<>>

(* partition_stderr: exit code 2 comes of IO errors too, which are only    *)
(* transient.  A killed rg has no exit code.                               *)
IsFatal == child.state = "exited" /\ \E k \in DOMAIN drained.err : drained.err[k] # "io"

Answered(r) ==
    /\ reply' = [r EXCEPT !.tool = lookup.tool, !.offset = lookup.offset]
    /\ child' = [child EXCEPT !.state = "none"]
    /\ pipes' = [out |-> <<>>, err |-> <<>>] /\ drained' = Nothing
    /\ UNCHANGED <<tree, lookup>>

MoreAfter(lines, offset) == Len(lines) - offset > HeadLimit
PageAt(lines, offset) == SubSeq(lines, offset + 1, IF MoreAfter(lines, offset) THEN offset + HeadLimit ELSE Len(lines))

(* An empty page of a search that ran to its end says only that nothing,   *)
(* or nothing that may be shown, was found, even if the offset is beyond   *)
(* what was captured of more (cut).                                        *)
search_via_rg ==
    LET lines == Plain(drained.out)
        filtered == Len(drained.out) - Len(lines)
        page == PageAt(lines, lookup.offset)
        killed == child.state = "killed"
    IN  /\ lookup.tool = "grep" /\ Ended
        /\ Answered(IF IsFatal THEN [NoReply EXCEPT !.failed = TRUE]
                  ELSE [NoReply EXCEPT
                          !.page = page, !.more = MoreAfter(lines, lookup.offset), !.filtered = filtered,
                          !.truncated = drained.truncated /\ (page # <<>> \/ killed), !.timedOut = killed,
                          !.cut = drained.truncated])
        /\ UNCHANGED paged

(* An rg that does not know --sortr is run once more without it.           *)
Retry ==
    /\ lookup.tool = "glob" /\ Ended /\ child.state = "exited"
    /\ child.sorted /\ "sortr" \in ToSet(drained.err)
    /\ child' = [NoChild EXCEPT !.state = "spawning", !.sorted = FALSE]
    /\ drained' = Nothing
    /\ UNCHANGED <<tree, pipes, lookup, reply, paged>>

(* Neither the deadline nor the cap shows in the answer.                   *)
glob_via_rg ==
    LET paths == Plain(drained.out)
    IN  /\ lookup.tool = "glob" /\ Ended
        /\ ~(child.sorted /\ child.state = "exited" /\ "sortr" \in ToSet(drained.err))
        /\ Answered(IF IsFatal THEN [NoReply EXCEPT !.failed = TRUE]
                  ELSE [NoReply EXCEPT !.page = PageAt(paths, 0), !.more = MoreAfter(paths, 0)])
        /\ UNCHANGED paged

-----------------------------------------------------------------------------
(* The walker, which stops at offset + head_limit matches; its own notice  *)
(* is a line <<"...", 0>> more, which a search of one file does not have.  *)
Note == <<"...", 0>>

(* Mutant: the walker stops at head_limit, whatever the offset.            *)
search_dir_Limit(max) ==
    LET lines == Plain(AllLines(Walked))
    IN  IF Len(lines) >= HeadLimit THEN Append(SubSeq(lines, 1, HeadLimit), Note) ELSE lines

search_dir(max) ==
    LET lines == Plain(AllLines(Walked))
    IN  IF Len(lines) >= max THEN Append(SubSeq(lines, 1, max), Note) ELSE lines

(* A file that is named is searched, sensitive or not.                     *)
search_single_file(f, max) ==
    LET lines == LinesOf(f)
    IN  SubSeq(lines, 1, IF Len(lines) < max THEN Len(lines) ELSE max)

execute_grep ==
    LET max == lookup.offset + HeadLimit
        found == IF OnlyFile THEN search_single_file(tree.only, max) ELSE search_dir(max)
        page == SubSeq(found, lookup.offset + 1, Len(found))
        matches == SelectSeq(page, LAMBDA l : l # Note)
    IN  /\ child.state = "spawning" /\ lookup.tool = "grep"
        /\ Answered([NoReply EXCEPT !.page = matches, !.more = matches # page, !.walker = TRUE])
        /\ paged' = paged \o matches

glob_fallback ==
    LET paths == Plain(Paths(Walked))
    IN  /\ child.state = "spawning" /\ lookup.tool = "glob"
        /\ Answered([NoReply EXCEPT !.page = PageAt(paths, 0), !.more = MoreAfter(paths, 0), !.walker = TRUE])
        /\ UNCHANGED paged

CannotStart ==
    /\ child.state = "spawning"
    /\ Answered([NoReply EXCEPT !.failed = TRUE])
    /\ UNCHANGED paged

-----------------------------------------------------------------------------
SearchInit ==
    /\ tree \in [matches : Trees, only : {Whole} \cup Files]
    /\ child = [NoChild EXCEPT !.state = "spawning"]
    /\ pipes = [out |-> <<>>, err |-> <<>>] /\ drained = Nothing
    /\ lookup \in {[tool |-> "glob", first |-> 0, offset |-> 0]}
                 \cup {[tool |-> "grep", first |-> o, offset |-> o] : o \in Offsets}
    /\ OnlyFile => lookup.tool = "grep"
    /\ reply = NoReply /\ paged = <<>>

(* A call begins at any offset.  Then the model asks for the page the      *)
(* answer named; of a search of one file, which names none, for the next   *)
(* one when the page was full.                                             *)
NextPage ==
    /\ child.state = "none" /\ lookup.tool = "grep" /\ ~reply.failed
    /\ reply.more \/ (reply.walker /\ Len(reply.page) = HeadLimit)
    /\ lookup' = [lookup EXCEPT !.offset = @ + HeadLimit]
    /\ child' = [NoChild EXCEPT !.state = "spawning"]
    /\ reply' = IF reply.walker THEN reply ELSE NoReply
    /\ UNCHANGED <<tree, pipes, drained, paged>>

Walks == (reply.walker \/ lookup.offset = lookup.first) /\ (execute_grep \/ glob_fallback)
Runs == ~reply.walker
        /\ \E order \in Orders, gone \in {{}} \cup {{f} : f \in ToSet(Walked)},
              bad \in {"none", "fatal", "sortr"} : Spawn(order, gone, bad)

SearchFair == RgWrites \/ RgWarns \/ RgExits \/ read_capped \/ ReadErr \/ DeadlinePasses
              \/ search_via_rg \/ Retry \/ glob_via_rg \/ Walks \/ Runs
SearchNext == SearchFair \/ RgStalls \/ CannotStart \/ NextPage

SearchSpec == SearchInit /\ [][SearchNext]_searchVars
SearchFairSpec == SearchSpec /\ WF_searchVars(SearchFair)

-----------------------------------------------------------------------------
(* Type invariant; what is captured never exceeds the cap.                 *)
SearchTypeOK ==
    /\ child.state \in {"none", "spawning", "running", "exited", "killed"}
    /\ Len(pipes.out) <= PipeSize /\ Len(pipes.err) <= PipeSize
    /\ Len(drained.out) <= CaptureCap
    /\ lookup.tool \in {"grep", "glob"} /\ lookup.offset \in Nat

(* What matches and may be shown, less the files that vanished.            *)
Present == Len(Plain(AllLines(Walked))) - child.lost

OfRg == reply.tool = "grep" /\ ~reply.failed /\ ~reply.walker
Announced == reply.more \/ reply.truncated \/ reply.timedOut
Reaches == reply.offset + Len(reply.page) >= Present

(* A page of grep with lines that does not reach the last line that may be *)
(* shown says so: more lines, output truncated or timed out; and an empty  *)
(* page at any offset comes silently before that line only if the output   *)
(* was cut at the cap or lines of it were sensitive (grep.rs               *)
(* search_via_rg).                                                         *)
RestAnnounced ==
    OfRg /\ (reply.page # <<>> \/ ~(reply.cut \/ reply.filtered > 0)) => Announced \/ Reaches

(* rg is killed only when it is slow of itself: because both pipes are     *)
(* drained beyond the cap, it never waits on a full pipe until RG_TIMEOUT. *)
KilledOnlyIfSlow == child.state = "killed" => child.stalled

(* Following the offsets from the first one, the pages of the walker are   *)
(* the matches of the tree from there on, each once and in order, and a    *)
(* page that names no next one is the last (grep.rs execute, search_dir).  *)
WalkerPagesCover ==
    LET all == IF OnlyFile THEN LinesOf(tree.only) ELSE Plain(AllLines(Walked))
        rest == SubSeq(all, lookup.first + 1, Len(all))
    IN  reply.walker /\ reply.tool = "grep"
          => /\ IsPrefix(paged, rest)
             /\ ~reply.more /\ ~OnlyFile => paged = rest
             /\ OnlyFile /\ Len(reply.page) < HeadLimit => paged = rest

(* Every search is answered, whatever rg does (rg.rs run).                 *)
SearchReturns == []<>(child.state = "none")
=============================================================================
