------------------------------ MODULE Accesses ------------------------------
(***************************************************************************)
(* What a tool call touches (ToolAccesses, zhen_tool/base.rs) and the      *)
(* pure part of the tool scheduler                                         *)
(* (kernel/src/plates/tian_heaven/tool_scheduler.rs): lexical path         *)
(* normalisation, the conflict matrix, and the batch planner.              *)
(*                                                                         *)
(* A spelled path is [abs, comps]: whether it is absolute and the sequence *)
(* of its components, "." and ".." included.                               *)
(***************************************************************************)
EXTENDS Integers, Sequences, FiniteSets, SequencesExt

CONSTANTS
    Names,       \* ordinary path components
    Spellings,   \* the spelled paths that tool calls use
    Base         \* components of the directory that resolves relative paths

ASSUME NamesAssumption == "." \notin Names /\ ".." \notin Names
ASSUME BaseAssumption == Base \in Seq(Names)
ASSUME SpellingsAssumption ==
    Spellings \subseteq [abs : BOOLEAN, comps : Seq(Names \cup {".", ".."})]

-----------------------------------------------------------------------------
(* Lexical normalisation. *)

PushComponent(out, c) ==
    IF c = "." THEN out
    ELSE IF c = ".." THEN (IF out = <<>> THEN out ELSE Front(out))
    ELSE Append(out, c)

normalize_path_lexical(p) ==
    FoldLeft(PushComponent, <<>>, IF p.abs THEN p.comps ELSE Base \o p.comps)

normalize_accesses(a) ==
    [a EXCEPT !.reads = {normalize_path_lexical(p) : p \in @},
              !.writes = {normalize_path_lexical(p) : p \in @}]

-----------------------------------------------------------------------------
(* Access declarations (base.rs) and the conflict matrix. *)

AccessesOf(P) ==
    [reads : SUBSET P, writes : SUBSET P, recursive : BOOLEAN, all : BOOLEAN]

AllAccesses == [reads |-> {}, writes |-> {}, recursive |-> FALSE, all |-> TRUE]
ReadOnly(reads, recursive) ==
    [reads |-> reads, writes |-> {}, recursive |-> recursive, all |-> FALSE]
WriteOnly(writes) ==
    [reads |-> {}, writes |-> writes, recursive |-> FALSE, all |-> FALSE]

(* Mutant: directory access is not recursive.                              *)
paths_intersect_Exact(a, aRecursive, b, bRecursive) == a = b

paths_intersect(a, aRecursive, b, bRecursive) ==
    \/ a = b
    \/ aRecursive /\ IsPrefix(a, b)
    \/ bRecursive /\ IsPrefix(b, a)

(* Mutant: two readers of one path conflict.                               *)
accesses_conflict_ReadRead(a, b) ==
    \/ a.all
    \/ b.all
    \/ \E p \in a.writes \cup a.reads, q \in b.writes \cup b.reads :
            paths_intersect(p, a.recursive, q, b.recursive)

accesses_conflict(a, b) ==
    \/ a.all
    \/ b.all
    \/ \E p \in a.writes, q \in b.writes \cup b.reads :
            paths_intersect(p, a.recursive, q, b.recursive)
    \/ \E p \in a.reads, q \in b.writes :
            paths_intersect(p, a.recursive, q, b.recursive)

-----------------------------------------------------------------------------
(* plan_batches.  A plan in progress holds the finished batches, the       *)
(* pending batch (both as call indices) and the declarations of the        *)
(* pending members; PlanCall is one iteration of the loop over the calls.  *)

EmptyPlan == [batches |-> <<>>, pending |-> <<>>, accesses |-> <<>>]

Flush(plan) ==
    IF plan.pending = <<>> THEN plan
    ELSE [batches |-> Append(plan.batches, plan.pending),
          pending |-> <<>>, accesses |-> <<>>]

(* Mutant: the barrier is entered under a zero-based index.                *)
PlanBarrier_ZeroBased(plan, i) ==
    [Flush(plan) EXCEPT !.batches = Append(@, <<i - 1>>)]

(* Mutant: a barrier does not flush the pending batch.                     *)
PlanBarrier_NoFlush(plan, i) ==
    [plan EXCEPT !.batches = Append(@, <<i>>)]

PlanBarrier(plan, i) ==
    [Flush(plan) EXCEPT !.batches = Append(@, <<i>>)]

ConflictsWithPending(plan, acc) ==
    \E k \in DOMAIN plan.accesses : accesses_conflict(plan.accesses[k], acc)

AddPending(plan, i, acc) ==
    [[plan EXCEPT !.pending = Append(@, i)] EXCEPT !.accesses = Append(@, acc)]

PlanEligible(plan, i, acc) ==
    AddPending(IF ConflictsWithPending(plan, acc) THEN Flush(plan) ELSE plan, i, acc)

PlanCall(plan, i, declared) ==
    LET acc == normalize_accesses(declared)
    IN  IF acc.all THEN PlanBarrier(plan, i) ELSE PlanEligible(plan, i, acc)

(* Mutant: the whole turn is one batch.                                    *)
plan_batches_OneBatch(declared) == <<[i \in 1..Len(declared) |-> i]>>

(* The loop as a function of the declarations, for the modules that use it *)
plan_batches(declared) ==
    LET plan[n \in 0..Len(declared)] ==
            IF n = 0 THEN EmptyPlan ELSE PlanCall(plan[n - 1], n, declared[n])
    IN  Flush(plan[Len(declared)]).batches

(* What the calls declare: file readers, directory readers (grep, glob),   *)
(* writers, tools that touch no path (web_fetch), and barriers (shell,     *)
(* enter_worktree, an unknown tool).                                       *)
Declarations ==
    {AllAccesses, ReadOnly({}, FALSE)}
        \cup {ReadOnly({p}, FALSE) : p \in Spellings} \cup {ReadOnly({p}, TRUE) : p \in Spellings}
        \cup {WriteOnly({p}) : p \in Spellings}
=============================================================================
