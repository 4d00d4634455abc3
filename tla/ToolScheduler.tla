--------------------------- MODULE ToolScheduler ---------------------------
(***************************************************************************)
(* plan_batches (kernel/src/plates/tian_heaven/tool_scheduler.rs): the     *)
(* tool calls of a turn are grouped, in declaration order, into batches    *)
(* whose members run concurrently, while the batches run one after the     *)
(* other.  Each iteration of the planner's loop is one step here.          *)
(***************************************************************************)
EXTENDS Accesses

CONSTANT MaxCalls     \* bound: tool calls in one turn

ASSUME MaxCallsAssumption == MaxCalls \in Nat

VARIABLES
    calls,   \* the declarations of the turn's calls, in declaration order
    cursor,  \* calls the loop has placed
    plan     \* the plan in progress

vars == <<calls, cursor, plan>>

Init ==
    /\ calls \in UNION {[1..n -> Declarations] : n \in 0..MaxCalls}
    /\ cursor = 0
    /\ plan = EmptyPlan

Place ==
    /\ cursor < Len(calls)
    /\ cursor' = cursor + 1
    /\ plan' = PlanCall(plan, cursor + 1, calls[cursor + 1])
    /\ UNCHANGED calls

Finish ==
    /\ cursor = Len(calls)
    /\ plan.pending # <<>>
    /\ plan' = Flush(plan)
    /\ UNCHANGED <<calls, cursor>>

Next == Place \/ Finish

Spec == Init /\ [][Next]_vars

-----------------------------------------------------------------------------
(* Properties. *)

TypeOK ==
    /\ calls \in Seq(Declarations)
    /\ cursor \in 0..Len(calls)
    /\ plan.batches \in Seq(Seq(1..Len(calls)))
    /\ plan.pending \in Seq(1..Len(calls))
    /\ plan.accesses \in Seq(AccessesOf(Seq(Names)))

AllBatches == IF plan.pending = <<>> THEN plan.batches
              ELSE Append(plan.batches, plan.pending)

(* The scheduler neither loses, repeats nor reorders a call: read one      *)
(* after the other, the batches are the calls placed so far.               *)
OrderPreserved == FlattenSeq(AllBatches) = [i \in 1..cursor |-> i]

(* The files of a small tree that a declaration really touches: the        *)
(* meaning of a spelled path, computed by walking it from the root, and    *)
(* independent of the lexical comparison the scheduler makes.              *)
Walk[comps \in Seq(Names \cup {".", ".."})] ==
    IF comps = <<>> THEN <<>>
    ELSE LET dir == Walk[Front(comps)]
         IN  CASE Last(comps) = "."  -> dir
               [] Last(comps) = ".." -> IF dir = <<>> THEN dir ELSE Front(dir)
               [] OTHER -> Append(dir, Last(comps))

Target(p) == Walk[IF p.abs THEN p.comps ELSE Base \o p.comps]
Tree == {Target(p) : p \in Spellings}
Touched(paths, recursive) ==
    {f \in Tree : \E p \in paths :
        f = Target(p) \/ (recursive /\ IsPrefix(Target(p), f))}
Races(a, b) ==
    LET wa == Touched(a.writes, a.recursive)
        wb == Touched(b.writes, b.recursive)
        ra == Touched(a.reads, a.recursive)
        rb == Touched(b.reads, b.recursive)
    IN  wa \cap (wb \cup rb) # {} \/ ra \cap wb # {}

(* Two calls that run concurrently never race on a file, however their     *)
(* paths are spelled, and a call of unknown reach runs alone.              *)
BatchesRaceFree ==
    \A b \in Range(AllBatches) : \A i, j \in Range(b) :
        i # j => /\ ~Races(calls[i], calls[j])
                 /\ ~calls[i].all

(* The planner never serialises for nothing: where one batch ends and the  *)
(* next begins, the first call of the next one is a barrier, follows a     *)
(* barrier, or races with a member of the batch it was kept out of.        *)
SplitsJustified ==
    \A k \in 1..(Len(AllBatches) - 1) :
        LET i == Head(AllBatches[k + 1])
        IN  \/ calls[i].all
            \/ \E j \in Range(AllBatches[k]) :
                    calls[j].all \/ Races(calls[j], calls[i])
=============================================================================
