----------------------------- MODULE Subagents -----------------------------
(***************************************************************************)
(* Sub-agents: delegate and send_message (zhen_tool/builtin/delegate.rs),  *)
(* run_subagent (tian_heaven/spawn.rs), the permits of SubagentBatch and   *)
(* the sessions that are kept in memory and, for a restart, in the store.  *)
(*                                                                         *)
(* A call c is one run of a sub-agent; a session is named by the call that *)
(* created it, and so is a worktree.  A history is the set of calls whose  *)
(* messages it holds.                                                      *)
(***************************************************************************)
EXTENDS Integers, Sequences, FiniteSets, Selection

CONSTANTS
    MaxCalls,       \* bound: sub-agent runs
    AgentKinds,     \* kinds in use, of "Explore" (and Plan), "Coder", "Verifier"
    InitialPermits, \* permits of the semaphore (5)
    MaxConcurrency, \* what it may grow to (8)
    MaxMultiplier,  \* ceiling of backoff_multiplier (16)
    Capacity,       \* sessions kept in memory (64)
    MaxRestarts     \* bound: crashes

ASSUME SubagentsAssumption ==
    /\ MaxCalls \in Nat /\ InitialPermits \in Nat \ {0} /\ MaxConcurrency \in Nat
    /\ MaxMultiplier \in Nat \ {0} /\ Capacity \in Nat \ {0} /\ MaxRestarts \in Nat
    /\ AgentKinds \subseteq {"Explore", "Coder", "Verifier"}

Calls == 1..MaxCalls
NoTree == 0
NoSession == [kind |-> "none"]

VARIABLES
    run,        \* call -> the run of its sub-agent
    mem,        \* session_bus.subagent_sessions
    recent,     \* its keys, least recently used first
    db,         \* table subagent_sessions
    trees,      \* worktrees on disk
    permits,    \* available permits
    multiplier,
    parent,     \* the tool call that waits: its calls, and what it heard
    restarts

subVars == <<run, mem, recent, db, trees, permits, multiplier, parent, restarts>>

NoRun == [pc |-> "none", kind |-> "none", sid |-> 0, hist |-> {}, tree |-> NoTree,
          guarded |-> FALSE, detached |-> FALSE, verdict |-> "none", says |-> FALSE]
NoParent == [state |-> "idle", calls |-> {}, cancelled |-> FALSE, failed |-> FALSE]

SubInit ==
    /\ run = [c \in Calls |-> NoRun]
    /\ mem = [c \in Calls |-> NoSession]
    /\ recent = <<>>
    /\ db = [c \in Calls |-> NoSession]
    /\ trees = {}
    /\ permits = InitialPermits
    /\ multiplier = 1
    /\ parent = NoParent
    /\ restarts = 0

Holders == {c \in Calls : run[c].pc \in {"admitted", "running"}}
Ended == {"failed", "aborted", "done", "dead"}
Fresh == {c \in Calls : run[c].pc = "none"}
NextCallId == CHOOSE c \in Fresh : \A d \in Fresh : c <= d
Without(seq, x) == At(seq, {i \in 1..Len(seq) : seq[i] # x})
rest == <<mem, recent, db, trees, multiplier, restarts>>

-----------------------------------------------------------------------------
(* The tools.                                                              *)

NewRun(c, kind, guarded, detached) ==
    [NoRun EXCEPT !.pc = "waiting", !.kind = kind, !.sid = c,
                  !.guarded = guarded, !.detached = detached]

(* delegate with one task or several: all are started, the parent waits.   *)
delegate(kinds, guarded) ==
    LET first == NextCallId
        started == first..(first + Len(kinds) - 1)
    IN  /\ parent.state = "idle" /\ Fresh # {} /\ started \subseteq Calls
        /\ run' = [c \in Calls |-> IF c \in started
                        THEN NewRun(c, kinds[c - first + 1], guarded, FALSE) ELSE run[c]]
        /\ parent' = [NoParent EXCEPT !.state = "waits", !.calls = started]
        /\ UNCHANGED <<rest, permits>>

(* run_in_background: a task of its own, out of reach of the parent's      *)
(* cancellation.                                                           *)
delegate_background(kind) ==
    /\ Fresh # {}
    /\ run' = [run EXCEPT ![NextCallId] = NewRun(NextCallId, kind, FALSE, TRUE)]
    /\ UNCHANGED <<rest, permits, parent>>

(* Mutant: a resumed session runs with the kind the caller asks for.       *)
Bound_Requested(c, sid) ==
    [NewRun(c, "Explore", mem[sid].guarded, FALSE)
        EXCEPT !.sid = sid, !.hist = mem[sid].hist, !.tree = mem[sid].tree]

(* send_message restores kind, authorisation and worktree of the session.  *)
Bound(c, sid) ==
    [NewRun(c, mem[sid].kind, mem[sid].guarded, FALSE)
        EXCEPT !.sid = sid, !.hist = mem[sid].hist, !.tree = mem[sid].tree]

(* A turn may send several messages at once: send_message declares itself  *)
(* safe to run concurrently.                                               *)
send_message(sid) ==
    /\ Fresh # {} /\ mem[sid] # NoSession
    /\ run[sid].detached \/ run[sid].pc \in Ended \* its id is known
    /\ parent.state \in {"idle", "waits"} /\ ~parent.cancelled
    /\ run' = [run EXCEPT ![NextCallId] = Bound(NextCallId, sid)]
    /\ recent' = Append(Without(recent, sid), sid)
    /\ parent' = [parent EXCEPT !.state = "waits", !.calls = @ \cup {NextCallId}]
    /\ UNCHANGED <<mem, db, trees, permits, multiplier, restarts>>

-----------------------------------------------------------------------------
(* run_subagent.                                                           *)

IsAt(c, pc) == run[c].pc = pc
MoveOn(c, pc) == run' = [run EXCEPT ![c].pc = pc]

Acquire(c) ==
    /\ IsAt(c, "waiting") /\ permits > 0
    /\ permits' = permits - 1
    /\ MoveOn(c, "admitted")
    /\ UNCHANGED <<rest, parent>>

(* 300 s without a permit.                                                 *)
AcquireTimeout(c) ==
    /\ IsAt(c, "waiting")
    /\ MoveOn(c, "failed")
    /\ UNCHANGED <<rest, permits, parent>>

(* Mutant: a Coder whose worktree could not be created goes on without.    *)
EnterFails_GoesOn(c) ==
    /\ IsAt(c, "admitted") /\ run[c].kind = "Coder"
    /\ run[c].tree = NoTree \/ run[c].tree \notin trees
    /\ MoveOn(c, "running")
    /\ UNCHANGED <<rest, permits, parent>>

(* enter_worktree fails, or the session's worktree is gone.                *)
EnterFails(c) ==
    /\ IsAt(c, "admitted") /\ run[c].kind = "Coder"
    /\ run[c].tree = NoTree \/ run[c].tree \notin trees
    /\ permits' = permits + 1
    /\ MoveOn(c, "failed")
    /\ UNCHANGED <<rest, parent>>

(* A new Coder enters a worktree, a resumed one goes back to its own.      *)
Enter(c) ==
    /\ IsAt(c, "admitted")
    /\ run[c].kind = "Coder" => run[c].tree \in trees \cup {NoTree}
    /\ LET tree == IF run[c].kind # "Coder" THEN NoTree
                   ELSE IF run[c].tree # NoTree THEN run[c].tree ELSE c
       IN  /\ run' = [run EXCEPT ![c].pc = "running", ![c].tree = tree]
           /\ trees' = trees \cup ({tree} \ {NoTree})
    /\ UNCHANGED <<mem, recent, db, permits, multiplier, parent, restarts>>

(* The user merges a worktree and removes it.                              *)
RemoveTree(t) ==
    /\ t \in trees /\ \A c \in Holders : run[c].tree # t
    /\ trees' = trees \ {t}
    /\ UNCHANGED <<run, mem, recent, db, permits, multiplier, parent, restarts>>

(* A 429 in the sub-agent's loop; the semaphore is left as it is.          *)
on_rate_limited(c) ==
    /\ IsAt(c, "running") /\ multiplier < MaxMultiplier
    /\ multiplier' = IF 2 * multiplier < MaxMultiplier THEN 2 * multiplier ELSE MaxMultiplier
    /\ UNCHANGED <<run, mem, recent, db, trees, permits, parent, restarts>>

(* A permit is returned, and one more is added if recover says so.  The    *)
(* available permits are compared with the maximum, while this run still   *)
(* holds its own.                                                          *)
Release(recover) ==
    IF recover /\ multiplier > 1
    THEN /\ multiplier' = multiplier - 1
         /\ permits' = permits + 1 + (IF permits < MaxConcurrency THEN 1 ELSE 0)
    ELSE permits' = permits + 1 /\ UNCHANGED multiplier

(* The calls of the delegate that the parent waits for.                    *)
Batch == {d \in parent.calls : run[d].sid = d}

ParentCancelled(c) == parent.cancelled /\ c \in parent.calls

(* The run was cancelled with its parent: what it produced is no report.   *)
FinishCancelled(c) ==
    /\ IsAt(c, "running") /\ ParentCancelled(c)
    /\ permits' = permits + 1
    /\ MoveOn(c, "failed")
    /\ UNCHANGED <<rest, parent>>

(* No output, or none but an error.  recover: three quiet minutes.         *)
FinishEmpty(c, recover) ==
    /\ IsAt(c, "running") /\ ~ParentCancelled(c)
    /\ Release(recover)
    /\ MoveOn(c, "failed")
    /\ UNCHANGED <<mem, recent, db, trees, parent, restarts>>

(* Verdicts: parse_verdict takes the last line of a Verifier's answer.     *)
(* says: the text of the report has "Verdict: FAIL" somewhere; what other  *)
(* texts than a delegate's own have makes no difference.                   *)
FinishReport(c, recover, verdict, says) ==
    /\ IsAt(c, "running") /\ ~ParentCancelled(c)
    /\ verdict = "none" <=> run[c].kind # "Verifier"
    /\ verdict = "FAIL" => says
    /\ says => verdict = "FAIL" \/ c \in Batch
    /\ Release(recover)
    /\ run' = [run EXCEPT ![c].pc = "reported", ![c].hist = @ \cup {c},
                          ![c].verdict = verdict, ![c].says = says]
    /\ UNCHANGED <<mem, recent, db, trees, parent, restarts>>

-----------------------------------------------------------------------------
(* Reports and sessions.                                                   *)

(* A batch is aggregated when all of it has ended; a single call, a        *)
(* continuation or a background task as soon as it has reported.           *)

(* Mutant: a report of a batch waits until the others are stored.          *)
Joined_OthersDone(c) == \A d \in Batch \ {c} : run[d].pc \in Ended

Joined(c) ==
    \/ run[c].detached \/ run[c].sid # c \/ Cardinality(Batch) < 2
    \/ \A d \in Batch : run[d].pc \in Ended \cup {"reported", "stored"}

SessionOf(c) == [kind |-> run[c].kind, hist |-> run[c].hist, tree |-> run[c].tree,
                 guarded |-> run[c].guarded]

(* Mutant: the session is kept in memory only.                             *)
Stored_MemoryOnly == "done"

Stored == "stored"

(* persist_session: memory first, with the least recently used dropped at  *)
(* the limit, then the store.                                              *)
persist_session(c) ==
    LET sid == run[c].sid
        full == Len(recent) >= Capacity /\ mem[sid] = NoSession
        kept == IF full THEN Tail(recent) ELSE recent
    IN  /\ IsAt(c, "reported") /\ Joined(c)
        /\ mem' = [s \in Calls |->
                    CASE s = sid -> SessionOf(c)
                      [] full /\ s = Head(recent) -> NoSession
                      [] OTHER -> mem[s]]
        /\ recent' = Append(Without(kept, sid), sid)
        /\ MoveOn(c, Stored)
        /\ UNCHANGED <<db, trees, permits, multiplier, parent, restarts>>

save_subagent_session(c) ==
    /\ IsAt(c, "stored")
    /\ db' = [db EXCEPT ![run[c].sid] = SessionOf(c)]
    /\ MoveOn(c, "done")
    /\ UNCHANGED <<mem, recent, trees, permits, multiplier, parent, restarts>>

(* What the loop makes of the output of a delegate that asked for a        *)
(* Verifier: the first verdict line of the aggregated text decides, in the *)
(* order of the tasks; if it says UNPARSEABLE, or there is none, a FAIL    *)
(* anywhere in the text does, be it in the report of another sub-agent.    *)
Reports(calls) == {c \in calls : run[c].pc = "done"}
Verdicts(calls) == {c \in Reports(calls) : run[c].verdict # "none"}

(* Mutant: an unparseable verdict counts as a failure.                     *)
verifier_failed_Unparseable(calls) ==
    \E c \in Verdicts(calls) : run[c].verdict # "PASS"

verifier_failed(calls) ==
    LET vs == Verdicts(calls)
        first == CHOOSE c \in vs : \A d \in vs : c <= d
    IN  /\ \E c \in calls : run[c].kind = "Verifier"
        /\ IF vs # {} /\ run[first].verdict # "unparseable"
           THEN run[first].verdict = "FAIL"
           ELSE \E c \in Reports(calls) : run[c].says

(* Mutant: the cancelled batch is left without waiting for its tasks.      *)
Return_AtOnce ==
    /\ parent.state = "waits"
    /\ parent.cancelled \/ \A c \in parent.calls : run[c].pc \in Ended
    /\ parent' = [parent EXCEPT !.state = "returned", !.failed = verifier_failed(Batch)]
    /\ UNCHANGED <<run, rest, permits>>

Return ==
    /\ parent.state = "waits"
    /\ \A c \in parent.calls : run[c].pc \in Ended
    /\ parent' = [parent EXCEPT !.state = "returned", !.failed = verifier_failed(Batch)]
    /\ UNCHANGED <<run, rest, permits>>

(* The next tool call.                                                     *)
NextCall == parent.state = "returned" /\ parent' = NoParent /\ UNCHANGED <<run, rest, permits>>

CancelParent ==
    /\ parent.state = "waits" /\ ~parent.cancelled
    /\ parent' = [parent EXCEPT !.cancelled = TRUE]
    /\ UNCHANGED <<run, rest, permits>>

(* Mutant: what an aborted run held is not given back.                     *)
AbortAll_Keeps ==
    LET hit == {c \in Batch : run[c].pc \in {"waiting", "admitted", "running"}}
    IN  /\ parent.state = "waits" /\ parent.cancelled
        /\ Cardinality(Batch) > 1 /\ hit # {}
        /\ run' = [c \in Calls |-> IF c \in hit THEN [run[c] EXCEPT !.pc = "aborted"] ELSE run[c]]
        /\ UNCHANGED <<rest, parent, permits>>

(* abort_all of a cancelled batch drops the runs where they are; permits   *)
(* return with them.                                                       *)
AbortAll ==
    LET hit == {c \in Batch : run[c].pc \in {"waiting", "admitted", "running"}}
    IN  /\ parent.state = "waits" /\ parent.cancelled
        /\ Cardinality(Batch) > 1 /\ hit # {}
        /\ run' = [c \in Calls |-> IF c \in hit THEN [run[c] EXCEPT !.pc = "aborted"] ELSE run[c]]
        /\ permits' = permits + Cardinality(hit \cap Holders)
        /\ UNCHANGED <<rest, parent>>

(* The daemon dies and comes back with what the table holds, without       *)
(* regard to the capacity.                                                 *)
SubRestart ==
    /\ restarts < MaxRestarts
    /\ restarts' = restarts + 1
    /\ run' = [c \in Calls |-> IF run[c].pc \in {"none"} \cup Ended THEN run[c]
                               ELSE [run[c] EXCEPT !.pc = "dead"]]
    /\ mem' = db
    /\ recent' = At([i \in Calls |-> i], {s \in Calls : db[s] # NoSession})
    /\ permits' = InitialPermits
    /\ multiplier' = 1
    /\ parent' = NoParent
    /\ UNCHANGED <<db, trees>>

Step(c) ==
    \/ Acquire(c) \/ AcquireTimeout(c) \/ EnterFails(c) \/ Enter(c)
    \/ FinishCancelled(c)
    \/ \E recover \in {FALSE, multiplier > 1} :
        \/ FinishEmpty(c, recover)
        \/ \E v \in {"none", "PASS", "FAIL", "unparseable"}, s \in BOOLEAN :
                FinishReport(c, recover, v, s)
    \/ persist_session(c) \/ save_subagent_session(c)

SubNext ==
    \/ \E k \in AgentKinds, g \in BOOLEAN : delegate(<<k>>, g)
    \/ \E k, l \in AgentKinds : delegate(<<k, l>>, FALSE)
    \/ \E k \in AgentKinds : delegate_background(k)
    \/ \E c \in Calls :
        \/ send_message(c) \/ Step(c) \/ on_rate_limited(c) \/ RemoveTree(c)
    \/ Return \/ NextCall \/ CancelParent \/ AbortAll \/ SubRestart

SubSpec == SubInit /\ [][SubNext]_subVars

(* What the runtime schedules; whoever is ready, someone moves.            *)
SubFair == Return \/ AbortAll \/ \E c \in Calls : Step(c)

-----------------------------------------------------------------------------
(* Type invariant of runs, permits and sessions.                           *)
SubTypeOK ==
    /\ permits \in Nat /\ multiplier \in 1..MaxMultiplier
    /\ \A c \in Calls :
        /\ run[c].pc \in {"none", "waiting", "admitted", "running", "reported", "stored"} \cup Ended
        /\ run[c].tree \in 0..MaxCalls
    /\ \A s \in Calls : mem[s] # NoSession <=> \E i \in DOMAIN recent : recent[i] = s

(* A Coder that runs does so in a worktree of its session that exists, be  *)
(* it new, resumed or resumed after a restart: never in the main checkout. *)
CoderIsolated ==
    \A c \in Calls : IsAt(c, "running") /\ run[c].kind = "Coder" =>
        run[c].tree \in trees /\ run[c].tree # NoTree

(* Kind and authorisation are those the session was created with, however  *)
(* often it is resumed, evicted or reloaded: a read-only sub-agent never   *)
(* becomes one that writes.                                                *)
BindingsKept ==
    \A c \in Calls : run[c].pc # "none" =>
        run[c].kind = run[run[c].sid].kind /\ run[c].guarded = run[run[c].sid].guarded

(* When a tool call has returned, none of its sub-agents is at work any    *)
(* more or holds a permit.                                                 *)
NoneLeftBehind ==
    parent.state = "returned" => parent.calls \cap Holders = {}

(* A sub-agent whose report was delivered can be continued after a crash.  *)
ReportedSurvives == \A c \in Calls : IsAt(c, "done") => db[run[c].sid] # NoSession

(* The FAIL of a Verifier is noticed, unless the PASS of one that comes    *)
(* before it in the batch hides it.  Nothing passes for a failure unless   *)
(* a report of the batch says so, and none does after a PASS that comes    *)
(* first.                                                                  *)
FailHeard ==
    LET batch == Batch
        vs == Verdicts(batch)
    IN  parent.state = "returned" =>
        /\ \A c \in vs : run[c].verdict = "FAIL" /\ ~parent.failed =>
                \E d \in vs : d < c /\ run[d].verdict = "PASS"
        /\ parent.failed =>
                /\ \E c \in Reports(batch) : run[c].says
                /\ \A c \in vs : run[c].verdict = "PASS" => \E d \in vs : d < c

(* No permit is lost: whatever is aborted, times out, fails or is rate     *)
(* limited, as many sub-agents can run as at the start, or more.           *)
PermitsKept == permits + Cardinality(Holders) >= InitialPermits

(* Every sub-agent ends, although there are more of them than permits.     *)
SubagentsEnd == \A c \in Calls : IsAt(c, "waiting") ~> run[c].pc \in Ended

(* Sub-agents keep what they were given and give back what they took: a    *)
(* Coder works in a worktree, a session keeps its binding, one that        *)
(* reported can be continued after a crash, none is at work or holds a     *)
(* permit when its tool call has returned, and the FAIL of a Verifier is   *)
(* heard unless a PASS hides it (delegate.rs, subagent_batch.rs).          *)
SubagentsKept ==
    SubTypeOK /\ CoderIsolated /\ BindingsKept /\ NoneLeftBehind /\ ReportedSurvives /\ FailHeard
=============================================================================
