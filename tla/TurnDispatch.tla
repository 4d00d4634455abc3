---------------------------- MODULE TurnDispatch ----------------------------
(***************************************************************************)
(* The tool calls of one turn, from the LLM stream that declares them to   *)
(* the history entries they leave (kernel/src/plates/tian_heaven/loop.rs   *)
(* and loop_dispatch.rs, the native tools path).  A call is gated as soon  *)
(* as the stream has declared it; a read-only call that needs no           *)
(* confirmation runs at once, beside the stream; the others wait for the   *)
(* batches that plan_batches makes of the whole turn.  Tasks run           *)
(* concurrently and end when they please, the first failure aborts its     *)
(* siblings, the user cancels, the stream fails and is retried.            *)
(*                                                                         *)
(* A call is [acc, direct, key]: what it declares to access, whether it is *)
(* dispatched without confirmation (GeJu Direct and a passing policy       *)
(* chain), and its name with parameters, which the repeat guard compares.  *)
(***************************************************************************)
EXTENDS Accesses, Selection

CONSTANTS
    Calls,        \* the calls the model may make
    NoKey,        \* the repeat guard before the first call
    ForceStop,    \* REPEAT_FORCE_STOP
    MaxConc,      \* max_tool_concurrency
    MaxRetries,   \* MAX_LLM_RETRIES
    MaxCalls      \* bound: calls in one stream

Keys == {c.key : c \in Calls}

ASSUME CallsAssumption ==
    /\ \A c \in Calls : c.acc \in Declarations /\ c.direct \in BOOLEAN
    /\ NoKey \notin Keys
ASSUME LimitsAssumption ==
    /\ ForceStop \in Nat /\ ForceStop > 1
    /\ MaxConc \in Nat /\ MaxConc > 0
    /\ MaxRetries \in Nat /\ MaxCalls \in Nat

VARIABLES
    pc,
    calls,       \* the calls declared by this stream attempt
    slot,        \* per call: EarlySlot, or "none" after a forced stop
    task,        \* per call: its execution
    joined,      \* calls whose task has been joined
    out,         \* per call: its CallOutcome
    aborted,     \* the stream, then the batch, has aborted its siblings
    guard,       \* RepeatGuard: the last call and how often in a row
    checkpoint,  \* the guard before the stream
    repeatStop,
    retries,
    cancelled,
    batches,     \* the batches still to run, the first one in progress
    waiting,     \* prepared calls of the batch outside the window
    history,     \* calls with a card in the history, in order
    emitted,     \* calls whose ToolResult has been sent, in order
    started,     \* history variable: the calls, in the order they began
    discarded    \* history variable: calls begun and left without account

vars == <<pc, calls, slot, task, joined, out, aborted, guard, checkpoint,
          repeatStop, retries, cancelled, batches, waiting, history, emitted,
          started, discarded>>

attempt == <<calls, slot>>
turn == <<checkpoint, retries, cancelled>>
ledger == <<history, emitted>>

Acc(i) == normalize_accesses(calls[i].acc)
Indices == 1..Len(calls)
Live == {i \in Indices : task[i] \in {"running", "aborting"}}
Ended == {i \in Indices : task[i] \in {"ok", "err", "cut"}}
InOrder(S) == At([i \in Indices |-> i], S)

Init ==
    /\ pc = "stream"
    /\ calls = <<>> /\ slot = <<>> /\ task = <<>> /\ out = <<>>
    /\ joined = {}
    /\ aborted = FALSE /\ repeatStop = FALSE /\ cancelled = FALSE
    /\ guard \in [key : Keys, streak : 1..(ForceStop - 1)]
                   \cup {[key |-> NoKey, streak |-> 0]}
    /\ checkpoint = guard
    /\ retries = 0
    /\ batches = <<>> /\ waiting = <<>>
    /\ history = <<>> /\ emitted = <<>> /\ started = <<>>
    /\ discarded = {}

-----------------------------------------------------------------------------
(* Tasks. *)

(* The calls of the batch in progress that passed prepare.                 *)
Prepared == {i \in Range(Head(batches)) : slot[i] = "gated" /\ out[i] = "none"}

(* A task that panics is cut, like one that is aborted in time; a call     *)
(* that is alone in its batch has no task that could panic.                *)
TaskEnds(i, result) ==
    /\ \/ task[i] = "running" /\ (result = "cut" /\ pc = "execute" => Prepared # {i})
       \/ task[i] = "aborting"
    /\ task' = [task EXCEPT ![i] = result]
    /\ UNCHANGED <<attempt, turn, ledger, pc, joined, out, aborted, guard,
                   repeatStop, batches, waiting, started, discarded>>

(* abort_all: a task that has not ended is stopped at its next await, and  *)
(* may still end before it.                                                *)
AbortAll(t) == [i \in DOMAIN t |-> IF t[i] = "running" THEN "aborting" ELSE t[i]]

-----------------------------------------------------------------------------
(* The stream. *)

track(key) ==
    [key |-> key, streak |-> IF guard.key = key THEN guard.streak + 1 ELSE 1]

(* EarlyDispatch::poll joins the tasks that have ended. *)
FailureSeen == \E i \in Ended \ joined : task[i] = "err"
PolledTasks == IF FailureSeen /\ ~aborted THEN AbortAll(task) ELSE task

(* Mutant: writers are dispatched beside the stream.                       *)
eligible_Writers(c) ==
    LET acc == normalize_accesses(c.acc)
    IN  /\ ~aborted /\ ~FailureSeen
        /\ ~acc.all
        /\ c.direct
        /\ Cardinality(Live) < MaxConc
        /\ \A i \in Live : ~accesses_conflict(Acc(i), acc)

eligible(c) ==
    LET acc == normalize_accesses(c.acc)
    IN  /\ ~aborted /\ ~FailureSeen
        /\ ~acc.all
        /\ acc.writes = {}
        /\ c.direct
        /\ Cardinality(Live) < MaxConc
        /\ \A i \in Live : ~accesses_conflict(Acc(i), acc)

AddCall(c, s, t, o) ==
    /\ calls' = Append(calls, c)
    /\ slot' = Append(slot, s)
    /\ out' = Append(out, o)
    /\ task' = Append(t, IF s = "running" THEN "running" ELSE "none")
    /\ started' = IF s = "running" THEN Append(started, Len(calls) + 1)
                  ELSE started

(* Mutant: the guard counts on beyond the forced stop.                     *)
DeclareStopped_KeepsCounting(c) ==
    /\ pc = "stream"
    /\ Len(calls) < MaxCalls
    /\ repeatStop \/ track(c.key).streak >= ForceStop
    /\ guard' = track(c.key)
    /\ repeatStop' = TRUE
    /\ AddCall(c, "none", task, "none")
    /\ UNCHANGED <<turn, ledger, pc, joined, aborted, batches, waiting, discarded>>

(* A call beyond a forced stop is noted and neither gated nor dispatched. *)
DeclareStopped(c) ==
    /\ pc = "stream"
    /\ Len(calls) < MaxCalls
    /\ \/ repeatStop /\ UNCHANGED <<guard, repeatStop>>
       \/ /\ ~repeatStop
          /\ track(c.key).streak >= ForceStop
          /\ guard' = track(c.key)
          /\ repeatStop' = TRUE
    /\ AddCall(c, "none", task, "none")
    /\ UNCHANGED <<turn, ledger, pc, joined, aborted, batches, waiting, discarded>>

Gate(c) ==
    /\ pc = "stream"
    /\ Len(calls) < MaxCalls
    /\ ~repeatStop
    /\ track(c.key).streak < ForceStop
    /\ guard' = track(c.key)
    /\ UNCHANGED <<turn, history, pc, repeatStop, batches, waiting, discarded>>

(* gate_one_tool refuses: a failure streak, plan mode, a hook.             *)
DeclareRefused(c) ==
    /\ Gate(c)
    /\ AddCall(c, "done", task, "denied")
    /\ emitted' = Append(emitted, Len(calls) + 1)
    /\ UNCHANGED <<joined, aborted>>

early_gate_dispatch(c) ==
    /\ Gate(c)
    /\ aborted' = (aborted \/ FailureSeen)
    /\ joined' = joined \cup Ended
    /\ AddCall(c, IF eligible(c) THEN "running" ELSE "gated", PolledTasks, "none")
    /\ UNCHANGED emitted

(* A retryable error: the attempt is discarded, its tasks are aborted and  *)
(* awaited, the guard returns to its checkpoint.                           *)
RetryStream ==
    /\ pc = "stream"
    /\ retries < MaxRetries
    /\ ~cancelled
    /\ retries' = retries + 1
    /\ guard' = checkpoint
    /\ discarded' = discarded \cup {calls[i] : i \in Range(started)}
    /\ calls' = <<>> /\ slot' = <<>> /\ task' = <<>> /\ out' = <<>>
    /\ joined' = {} /\ started' = <<>> /\ emitted' = <<>>
    /\ aborted' = FALSE
    /\ UNCHANGED <<pc, checkpoint, cancelled, repeatStop, batches, waiting,
                   history>>

(* Any other error, and a cancelled retry: the run returns, and dropping   *)
(* the task set aborts what is in flight.                                  *)
StreamFailed ==
    /\ pc = "stream"
    /\ pc' = "returned"
    /\ task' = [i \in Indices |-> IF task[i] \in {"running", "aborting"}
                                  THEN "cut" ELSE task[i]]
    /\ discarded' = discarded \cup {calls[i] : i \in Range(started)}
    /\ UNCHANGED <<attempt, turn, ledger, joined, out, aborted, guard, repeatStop,
                   batches, waiting, started>>

(* wind_down_early, when a cancelled stream is cut or ends: what was       *)
(* dispatched is reported as cancelled, whether or not it had ended.       *)
wind_down_early ==
    LET running == {i \in Indices : slot[i] = "running"}
    IN  /\ pc = "stream"
        /\ cancelled
        /\ pc' = "returned"
        /\ task' = [i \in Indices |-> IF task[i] \in {"running", "aborting"}
                                      THEN "cut" ELSE task[i]]
        /\ out' = [i \in Indices |-> IF i \in running THEN "cut" ELSE out[i]]
        /\ emitted' = emitted \o InOrder(running)
        /\ discarded' = discarded \cup {calls[i] : i \in Range(started)}
        /\ UNCHANGED <<attempt, turn, joined, aborted, guard, repeatStop, batches,
                       waiting, history, started>>

StreamEnds ==
    /\ pc = "stream"
    /\ ~cancelled
    /\ calls # <<>>
    /\ pc' = "drain"
    /\ UNCHANGED <<attempt, turn, ledger, task, joined, out, aborted, guard,
                   repeatStop, batches, waiting, started, discarded>>

-----------------------------------------------------------------------------
(* EarlyDispatch::drain joins the tasks one by one as they end; the token  *)
(* is looked at after each.                                                *)
Joins(i) ==
    /\ i \in Ended \ joined
    /\ joined' = joined \cup {i}
    /\ aborted' = (aborted \/ task[i] = "err" \/ cancelled)
    /\ task' = IF aborted' /\ ~aborted THEN AbortAll(task) ELSE task

drain(i) ==
    /\ pc = "drain"
    /\ Joins(i)
    /\ UNCHANGED <<attempt, turn, ledger, pc, out, guard, repeatStop, batches,
                   waiting, started, discarded>>

(* Cards for the outcomes there are of some calls, in declaration order; a *)
(* call that was cut leaves none.                                          *)
absorb_outcome(batch, o) ==
    history' = history \o At(batch, {k \in DOMAIN batch : o[batch[k]] \notin {"none", "cut"}})

(* Mutant: once siblings are aborted, every result but a failure is cut.   *)
Outcomes_AbortedAreCut(S) ==
    [i \in Indices |-> IF i \in S
                       THEN (IF task[i] = "none" \/ (aborted /\ task[i] = "ok")
                             THEN "cut" ELSE task[i])
                       ELSE out[i]]

Outcomes(S) == [i \in Indices |-> IF i \in S
                                  THEN (IF task[i] = "none" THEN "cut" ELSE task[i])
                                  ELSE out[i]]

(* drain_early_finalize; a forced stop then closes the turn's accounts.    *)
drain_early_finalize ==
    LET running == {i \in Indices : slot[i] = "running"}
    IN  /\ pc = "drain"
        /\ Live = {} /\ Ended \subseteq joined
        /\ out' = Outcomes(running)
        /\ slot' = [i \in Indices |-> IF i \in running THEN "done" ELSE slot[i]]
        /\ emitted' = emitted \o InOrder(running)
        /\ IF repeatStop
           THEN /\ absorb_outcome([i \in Indices |-> i], out')
                /\ pc' = "end"
                /\ UNCHANGED batches
           ELSE /\ batches' = plan_batches([i \in Indices |-> calls[i].acc])
                /\ pc' = "prepare"
                /\ UNCHANGED history
        /\ UNCHANGED <<turn, calls, task, joined, aborted, guard, repeatStop,
                       waiting, started, discarded>>

-----------------------------------------------------------------------------
(* The batches. *)

Spawn(t, S) == [i \in DOMAIN t |-> IF i \in S THEN "running" ELSE t[i]]
Window(q, n) == SubSeq(q, 1, IF n < Len(q) THEN n ELSE Len(q))
Beyond(q, n) == SubSeq(q, n + 1, Len(q))

(* Phases 1 and 2: every call that waited goes through prepare, which may  *)
(* refuse it; then the window is filled.                                   *)
prepare_batch(refused) ==
    LET batch == Head(batches)
        gated == {k \in DOMAIN batch : slot[batch[k]] = "gated"}
        ready == At(batch, {k \in gated : batch[k] \notin refused})
    IN  /\ pc = "prepare"
        /\ batches # <<>>
        /\ refused \subseteq {batch[k] : k \in gated}
        /\ out' = [i \in Indices |-> IF i \in refused THEN "denied" ELSE out[i]]
        /\ emitted' = emitted \o InOrder(refused)
        /\ task' = Spawn(task, Range(Window(ready, MaxConc)))
        /\ started' = started \o Window(ready, MaxConc)
        /\ waiting' = Beyond(ready, MaxConc)
        /\ aborted' = FALSE
        /\ pc' = "execute"
        /\ UNCHANGED <<attempt, turn, joined, guard, repeatStop, batches, history,
                       discarded>>

(* What the join set holds once i is joined: tasks that run, and tasks     *)
(* that have ended and are still to be joined.                             *)
InFlight(i) == (Live \cup (Ended \ joined)) \ {i}

(* The places left in the window.                                          *)
Room(i) ==
    IF aborted' \/ Cardinality(InFlight(i)) >= MaxConc
    THEN 0 ELSE MaxConc - Cardinality(InFlight(i))

(* Mutant: a task that was aborted or has panicked is never joined.        *)
join_next_NotCut(i) ==
    LET next == Window(waiting, Room(i))
    IN  /\ pc = "execute"
        /\ i \in Ended \ joined /\ task[i] # "cut"
        /\ joined' = joined \cup {i}
        /\ aborted' = (aborted \/ task[i] = "err" \/ cancelled)
        /\ task' = Spawn(IF aborted' THEN AbortAll(task) ELSE task, Range(next))
        /\ started' = started \o next
        /\ waiting' = IF aborted' THEN <<>> ELSE Beyond(waiting, Room(i))
        /\ UNCHANGED <<attempt, turn, ledger, pc, out, guard, repeatStop, batches,
                       discarded>>

(* Phase 3: a join, the sibling abort, and the refill of the window. *)
join_next(i) ==
    LET next == Window(waiting, Room(i))
    IN  /\ pc = "execute"
        /\ i \in Ended \ joined
        /\ joined' = joined \cup {i}
        /\ aborted' = (aborted \/ task[i] = "err" \/ cancelled)
        /\ task' = Spawn(IF aborted' THEN AbortAll(task) ELSE task, Range(next))
        /\ started' = started \o next
        /\ waiting' = IF aborted' THEN <<>> ELSE Beyond(waiting, Room(i))
        /\ UNCHANGED <<attempt, turn, ledger, pc, out, guard, repeatStop, batches,
                       discarded>>

(* The barrier: results in the order of a hash map's keys, then phase 4 in *)
(* declaration order.                                                      *)
Barrier(order) ==
    /\ pc = "execute"
    /\ Live = {} /\ Ended \subseteq joined
    /\ order \in SetToSeqs(Prepared)
    /\ out' = Outcomes(Prepared)
    /\ emitted' = emitted \o order
    /\ absorb_outcome(Head(batches), out')
    /\ batches' = Tail(batches)
    /\ pc' = IF Len(batches) = 1 THEN "end" ELSE "prepare"
    /\ UNCHANGED <<attempt, turn, task, joined, aborted, guard, repeatStop,
                   waiting, started, discarded>>

Cancel ==
    /\ pc \notin {"end", "returned"}
    /\ ~cancelled
    /\ cancelled' = TRUE
    /\ UNCHANGED <<attempt, ledger, pc, task, joined, out, aborted, guard,
                   checkpoint, repeatStop, retries, batches, waiting, started,
                   discarded>>

LoopStep ==
    \/ RetryStream \/ StreamFailed \/ wind_down_early \/ StreamEnds
    \/ \E i \in Indices : drain(i)
    \/ drain_early_finalize
    \/ \E R \in SUBSET Indices : prepare_batch(R)
    \/ \E i \in Indices : join_next(i)
    \/ pc = "execute" /\ \E order \in SetToSeqs(Prepared) : Barrier(order)

Next ==
    \/ LoopStep
    \/ \E c \in Calls : DeclareStopped(c) \/ DeclareRefused(c)
                            \/ early_gate_dispatch(c)
    \/ \E i \in Indices, r \in {"ok", "err", "cut"} : TaskEnds(i, r)
    \/ Cancel

Spec == Init /\ [][Next]_vars

(* The loop's task is polled, and every tool ends by itself, by its own    *)
(* timeout or by being aborted.                                            *)
FairSpec ==
    /\ Spec
    /\ WF_vars(LoopStep)
    /\ WF_vars(\E i \in Indices, r \in {"ok", "err", "cut"} : TaskEnds(i, r))

-----------------------------------------------------------------------------
(* Properties. *)

TypeOK ==
    /\ pc \in {"stream", "drain", "prepare", "execute", "end", "returned"}
    /\ calls \in Seq(Calls) /\ Len(calls) <= MaxCalls
    /\ slot \in [Indices -> {"none", "gated", "running", "done"}]
    /\ task \in [Indices -> {"none", "running", "aborting", "ok", "err", "cut"}]
    /\ out \in [Indices -> {"none", "denied", "ok", "err", "cut"}]
    /\ joined \subseteq Indices
    /\ aborted \in BOOLEAN /\ repeatStop \in BOOLEAN /\ cancelled \in BOOLEAN
    /\ {guard, checkpoint} \subseteq [key : Keys \cup {NoKey}, streak : 0..ForceStop]
    /\ retries \in 0..MaxRetries
    /\ batches \in Seq(Seq(Indices)) /\ waiting \in Seq(Indices)
    /\ history \in Seq(Indices) /\ emitted \in Seq(Indices)
    /\ started \in Seq(Indices)
    /\ discarded \subseteq Calls

(* No two executions that overlap in time conflict, whether they run       *)
(* beside the stream or in a batch, and however their siblings are         *)
(* aborted; nor are there ever more of them than the window allows.        *)
ConcurrencySafe ==
    /\ \A i, j \in Live : i # j => ~accesses_conflict(Acc(i), Acc(j))
    /\ Cardinality(Live) <= MaxConc

(* When the turn has been accounted for, the history holds exactly the     *)
(* calls that were refused or ran to an end, each once and in declaration  *)
(* order: one that ended although a sibling's failure was aborting it is   *)
(* there, one that was cut short or never begun is not.  The client has    *)
(* been sent one ToolResult for each of them, and never two for a call.    *)
TurnAccounted ==
    /\ pc = "end" =>
          /\ history = InOrder({i \in Indices : task[i] \in {"ok", "err"}
                                                 \/ out[i] = "denied"})
          /\ Range(history) \subseteq Range(emitted)
    /\ \A m, n \in 1..Len(emitted) : emitted[m] = emitted[n] => m = n

(* An attempt that is thrown away, by a retry, an error or a cancellation, *)
(* has run nothing that writes: there is no effect without an account.     *)
DiscardedReadOnly ==
    \A c \in discarded : ~c.acc.all /\ c.acc.writes = {} /\ c.direct

(* Every turn comes to its end. *)
TurnEnds == <>(pc \in {"end", "returned"})

(* Nothing is done in a turn without an account of it: the history and the *)
(* client learn of every call that ran, and what is thrown away has only   *)
(* read.                                                                   *)
WorkAccounted == TypeOK /\ TurnAccounted /\ DiscardedReadOnly
=============================================================================
