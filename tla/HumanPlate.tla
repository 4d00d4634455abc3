----------------------------- MODULE HumanPlate -----------------------------
(***************************************************************************)
(* The human plate (kernel/src/plates/ren_human/mod.rs): the permission    *)
(* boundary every tool call crosses before it runs.  Each agent run has a  *)
(* plate of its own (the gates it has closed) and takes its calls through  *)
(* prepare one at a time; all plates share the session bus, which holds    *)
(* the confirmations that wait for the user and the approvals each session *)
(* remembers.  The gateway resolves confirmations, and sweeps a session    *)
(* when its client disconnects or the session is deleted.                  *)
(*                                                                         *)
(* A call is a record: tool, ceremony and palace (the stems GeJu weighs),  *)
(* destructive, verdict (the policy chain's), key (its approval key),      *)
(* boxable (sandbox_input accepts it), allowed (the Verifier's command     *)
(* allowlist accepts it).  The walk along an approval chain is one step    *)
(* per gate.                                                               *)
(***************************************************************************)
EXTENDS GeJu, FiniteSets

CONSTANTS
    Runs,              \* agent runs, each with its plate
    Sessions,
    SessionOf,         \* the session of each run
    Calls,             \* the tool calls a run may make
    NoCall,            \* a run between two calls
    Keys,              \* approval keys: tool name and exact input
    Learned,           \* the sets of principles a run may have loaded
    VerifierRuns,      \* runs of Verifier sub-agents (verifier_shell_only)
    HumanGates,        \* the gates the loop may close
    LongTimeout,       \* confirmation_timeout exceeds the 30 min stale cutoff
    MaxConfirmations,  \* bound: confirmation requests
    MaxPlates          \* bound: runs that follow another in its slot

CallRecord ==
    [tool : STRING, ceremony : Ceremonies, palace : Stems, destructive : BOOLEAN,
     verdict : {"Pass", "Ask", "Deny"}, key : Keys, boxable : BOOLEAN,
     allowed : BOOLEAN]

(* The ceremony of each tool and the palace it is sent to: its own by      *)
(* default; skill, namarupa (saving, deleting) and delegate choose others. *)
DeclaredPairs ==
    {<<c, c>> : c \in Ceremonies}
        \cup {<<"Ren", "Geng">>, <<"Gui", "Xin">>, <<"Wu", "Ren">>, <<"Wu", "Ji">>}

Principles == [on : GeJuKeys,
               constraint : {EscalateToSandbox, AddPermission, RequireAudit}]

ASSUME SessionAssumption == SessionOf \in [Runs -> Sessions]
ASSUME CallsAssumption == Calls \subseteq CallRecord /\ NoCall \notin Calls
ASSUME PairsAssumption ==
    \A c \in Calls : <<c.ceremony, c.palace>> \in DeclaredPairs
ASSUME LearnedAssumption == Learned \subseteq SUBSET Principles
ASSUME BoundsAssumption ==
    /\ MaxConfirmations \in Nat
    /\ MaxPlates \in Nat
    /\ LongTimeout \in BOOLEAN
    /\ VerifierRuns \subseteq Runs
    /\ HumanGates \subseteq {"ShengMen", "ShangMen", "KaiMen"}

VARIABLES
    sandboxOff,   \* the configured sandbox mode is Disabled
    principles,   \* per run: the principles loaded at its start
    closed,       \* per run: closed_by_principle
    stage,        \* per run: where its current call is
    call,         \* per run: the current call
    chain,        \* per run: gates still to pass
    ticket,       \* per run: id of the confirmation it awaits
    reply,        \* per run: what the awaited channel holds
    cancelled,    \* per run: its cancel token
    plates,       \* runs that have followed another in its slot
    pending,      \* pending_confirmations: records [id, run, stale]
    approvals,    \* session_approvals
    nextId,
    consented     \* history, per session: keys a user approved

vars == <<sandboxOff, principles, closed, stage, call, chain, ticket, reply,
          cancelled, plates, pending, approvals, nextId, consented>>

plate == <<sandboxOff, principles, closed, plates>>
walk == <<stage, call, chain>>
question == <<ticket, reply>>

Stages == {"idle", "walking", "waiting", "cleared", "boxed", "denied"}
Replies == {"none", "yes", "no", "dropped"}

Init ==
    /\ sandboxOff \in BOOLEAN
    /\ principles \in [Runs -> Learned]
    /\ closed = [r \in Runs |-> {}]
    /\ stage = [r \in Runs |-> "idle"]
    /\ call = [r \in Runs |-> NoCall]
    /\ chain = [r \in Runs |-> <<>>]
    /\ ticket = [r \in Runs |-> 0]
    /\ reply = [r \in Runs |-> "none"]
    /\ cancelled = [r \in Runs |-> FALSE]
    /\ plates = 0
    /\ pending = {}
    /\ approvals = [s \in Sessions |-> {}]
    /\ nextId = 1
    /\ consented = [s \in Sessions |-> {}]

-----------------------------------------------------------------------------
(* What a call's evaluation is, and what prepare makes of it before the    *)
(* chain is walked: a stage, and the gates still to pass.                  *)

gate_is_open(r, gate) == gate \notin closed[r]

Evaluated(r, c, openToCorrection) ==
    LET learned == {x \in {EscalateToSandbox, AddPermission, RequireAudit} :
                      [on |-> geju_key(c.ceremony, c.palace), constraint |-> x]
                          \in principles[r]}
    IN  Layer4(IF openToCorrection THEN learned ELSE {},
               evaluate(c.ceremony, c.palace))

GatesBlock(r, c) ==
    \/ ~gate_is_open(r, "ShangMen") /\ c.destructive
    \/ ~gate_is_open(r, "KaiMen") /\ c.ceremony = "Ren"
    \/ ~gate_is_open(r, "ShengMen") /\ c.tool = "skill"

Outcome(s, gates) == [stage |-> s, chain |-> gates]

prepare_guarded(r, c, gates) ==
    IF GatesBlock(r, c) THEN Outcome("denied", <<>>)
    ELSE Outcome("walking", gates)

(* Mutant: the sandbox's mode and the tool's support are not looked at.    *)
prepare_sandbox_Unchecked(r, c) == Outcome("boxed", <<>>)

prepare_sandbox(r, c) ==
    IF sandboxOff THEN prepare_guarded(r, c, <<"UserConfirmation">>)
    ELSE Outcome(IF c.boxable THEN "boxed" ELSE "denied", <<>>)

WithConfirmation(gates) ==
    IF \E i \in DOMAIN gates : gates[i] = "UserConfirmation" THEN gates
    ELSE Append(gates, "UserConfirmation")

Forbidden(r, c) ==
    \/ r \in VerifierRuns /\ c.tool = "shell" /\ ~c.allowed
    \/ c.verdict = "Deny"

prepare(r, c, result) ==
    IF Forbidden(r, c) THEN Outcome("denied", <<>>)
    ELSE IF c.verdict = "Ask" /\ result.execution_mode # "Denied"
         THEN prepare_guarded(r, c, WithConfirmation(result.approval_chain))
         ELSE CASE result.execution_mode = "Direct" -> Outcome("cleared", <<>>)
                [] result.execution_mode = "Guarded" ->
                      prepare_guarded(r, c, result.approval_chain)
                [] result.execution_mode = "Sandbox" -> prepare_sandbox(r, c)
                [] result.execution_mode = "Denied" ->
                      IF gate_is_open(r, "ShangMen")
                      THEN prepare_guarded(r, c, <<"UserConfirmation">>)
                      ELSE Outcome("denied", <<>>)

-----------------------------------------------------------------------------
(* Actions of a run. *)

Begin(r, c, openToCorrection) ==
    LET o == prepare(r, c, Evaluated(r, c, openToCorrection))
    IN  /\ stage[r] = "idle"
        /\ call' = [call EXCEPT ![r] = c]
        /\ stage' = [stage EXCEPT ![r] = o.stage]
        /\ chain' = [chain EXCEPT ![r] = o.chain]
        /\ UNCHANGED <<plate, question, cancelled, pending, approvals, nextId,
                       consented>>

(* A gate of the chain is reached.  There is no step for SandboxIsolation: *)
(* the pairs the tools declare put none into a chain (WalkNeverIsolates).  *)
AtGate(r, gates) ==
    stage[r] = "walking" /\ chain[r] # <<>> /\ Head(chain[r]) \in gates

PassGate(r) == chain' = [chain EXCEPT ![r] = Tail(@)]

(* A Permission rule that does not deny, and CodeReview (auto-approved). *)
PassRule(r) ==
    /\ AtGate(r, {"Permission", "CodeReview"})
    /\ PassGate(r)
    /\ UNCHANGED <<plate, stage, call, question, cancelled, pending, approvals,
                   nextId, consented>>

ChainPassed(r) ==
    /\ stage[r] = "walking"
    /\ chain[r] = <<>>
    /\ stage' = [stage EXCEPT ![r] = "cleared"]
    /\ UNCHANGED <<plate, call, chain, question, cancelled, pending, approvals,
                   nextId, consented>>

(* UserConfirmation, the session having approved this very call before. *)
RememberedApproval(r) ==
    /\ AtGate(r, {"UserConfirmation"})
    /\ call[r].key \in approvals[SessionOf[r]]
    /\ PassGate(r)
    /\ UNCHANGED <<plate, stage, call, question, cancelled, pending, approvals,
                   nextId, consented>>

(* request_confirmation drops the entries older than 30 minutes, whose     *)
(* waiters then see a closed channel, and stores its own.                  *)
request_confirmation(r) ==
    LET dropped == {p \in pending : p.stale}
    IN  /\ AtGate(r, {"UserConfirmation"})
        /\ call[r].key \notin approvals[SessionOf[r]]
        /\ nextId <= MaxConfirmations
        /\ nextId' = nextId + 1
        /\ pending' = (pending \ dropped)
                        \cup {[id |-> nextId, run |-> r, stale |-> FALSE]}
        /\ ticket' = [ticket EXCEPT ![r] = nextId]
        /\ reply' = [x \in Runs |->
                        IF x = r THEN "none"
                        ELSE IF \E p \in dropped : p.run = x THEN "dropped"
                        ELSE reply[x]]
        /\ stage' = [stage EXCEPT ![r] = "waiting"]
        /\ UNCHANGED <<plate, call, chain, cancelled, approvals, consented>>

StopWaiting(r) ==
    /\ ticket' = [ticket EXCEPT ![r] = 0]
    /\ reply' = [reply EXCEPT ![r] = "none"]

(* Mutant: the approval is remembered under the tool's name.               *)
Approve_ByTool(r) ==
    /\ stage[r] = "waiting"
    /\ reply[r] = "yes"
    /\ approvals' = [approvals EXCEPT ![SessionOf[r]] = @ \cup {call[r].tool}]
    /\ stage' = [stage EXCEPT ![r] = "walking"]
    /\ PassGate(r)
    /\ StopWaiting(r)
    /\ UNCHANGED <<plate, call, cancelled, pending, nextId, consented>>

Approve(r) ==
    /\ stage[r] = "waiting"
    /\ reply[r] = "yes"
    /\ approvals' = [approvals EXCEPT ![SessionOf[r]] = @ \cup {call[r].key}]
    /\ stage' = [stage EXCEPT ![r] = "walking"]
    /\ PassGate(r)
    /\ StopWaiting(r)
    /\ UNCHANGED <<plate, call, cancelled, pending, nextId, consented>>

Refuse(r) ==
    /\ stage[r] = "waiting"
    /\ reply[r] \in {"no", "dropped"}
    /\ stage' = [stage EXCEPT ![r] = "denied"]
    /\ StopWaiting(r)
    /\ UNCHANGED <<plate, call, chain, cancelled, pending, approvals, nextId,
                   consented>>

(* Mutant: the timeout leaves its entry in pending_confirmations.          *)
GiveUp_Leaks(r) ==
    /\ stage[r] = "waiting"
    /\ reply[r] = "none" \/ cancelled[r]
    /\ stage' = [stage EXCEPT ![r] = "denied"]
    /\ StopWaiting(r)
    /\ UNCHANGED <<plate, call, chain, cancelled, pending, approvals, nextId,
                   consented>>

(* Mutant: only a cancellation ends the wait, no timeout does.             *)
GiveUp_NoTimeout(r) ==
    /\ stage[r] = "waiting"
    /\ cancelled[r]
    /\ pending' = {p \in pending : p.id # ticket[r]}
    /\ stage' = [stage EXCEPT ![r] = "denied"]
    /\ StopWaiting(r)
    /\ UNCHANGED <<plate, call, chain, cancelled, approvals, nextId, consented>>

(* The wait ends without an answer: the timeout, which looks at the        *)
(* channel first, or the cancel token, which races with an answer.         *)
GiveUp(r) ==
    /\ stage[r] = "waiting"
    /\ reply[r] = "none" \/ cancelled[r]
    /\ pending' = {p \in pending : p.id # ticket[r]}
    /\ stage' = [stage EXCEPT ![r] = "denied"]
    /\ StopWaiting(r)
    /\ UNCHANGED <<plate, call, chain, cancelled, approvals, nextId, consented>>

(* The call has run, or its refusal has been reported to the model. *)
Conclude(r) ==
    /\ stage[r] \in {"cleared", "boxed", "denied"}
    /\ stage' = [stage EXCEPT ![r] = "idle"]
    /\ call' = [call EXCEPT ![r] = NoCall]
    /\ chain' = [chain EXCEPT ![r] = <<>>]
    /\ UNCHANGED <<plate, question, cancelled, pending, approvals, nextId,
                   consented>>

(* Between two batches the loop closes a gate whose tools keep failing. *)
close_gate(r, gate) ==
    /\ stage[r] = "idle"
    /\ gate_is_open(r, gate)
    /\ closed' = [closed EXCEPT ![r] = @ \cup {gate}]
    /\ UNCHANGED <<sandboxOff, principles, plates, walk, question, cancelled,
                   pending, approvals, nextId, consented>>

(* The next message of the session is a new run, with a new plate. *)
with_state(r) ==
    /\ stage[r] = "idle"
    /\ plates < MaxPlates
    /\ plates' = plates + 1
    /\ closed' = [closed EXCEPT ![r] = {}]
    /\ cancelled' = [cancelled EXCEPT ![r] = FALSE]
    /\ \E P \in Learned : principles' = [principles EXCEPT ![r] = P]
    /\ UNCHANGED <<sandboxOff, walk, question, pending, approvals, nextId,
                   consented>>

-----------------------------------------------------------------------------
(* Actions of the gateway, the user and the clock. *)

(* Mutant: the answer counts although its token does not match.            *)
handle_confirm_AnyToken(p, tokenMatches, approved) ==
    /\ p \in pending
    /\ pending' = pending \ {p}
    /\ reply' = [reply EXCEPT ![p.run] = IF approved THEN "yes" ELSE "no"]
    /\ LET s == SessionOf[p.run]
           granted == IF tokenMatches /\ approved THEN {call[p.run].key} ELSE {}
       IN  consented' = [consented EXCEPT ![s] = @ \cup granted]
    /\ UNCHANGED <<plate, walk, ticket, cancelled, approvals, nextId>>

handle_confirm(p, tokenMatches, approved) ==
    /\ p \in pending
    /\ pending' = pending \ {p}
    /\ reply' = [reply EXCEPT ![p.run] =
                    IF ~tokenMatches THEN "dropped"
                    ELSE IF approved THEN "yes" ELSE "no"]
    /\ LET s == SessionOf[p.run]
           granted == IF tokenMatches /\ approved THEN {call[p.run].key} ELSE {}
       IN  consented' = [consented EXCEPT ![s] = @ \cup granted]
    /\ UNCHANGED <<plate, walk, ticket, cancelled, approvals, nextId>>

Cancel(r) ==
    /\ ~cancelled[r]
    /\ cancelled' = [cancelled EXCEPT ![r] = TRUE]
    /\ UNCHANGED <<plate, walk, question, pending, approvals, nextId, consented>>

(* sweep_pending_for_sessions, when the client of the session goes away. *)
Disconnect(s) ==
    LET swept == {p \in pending : SessionOf[p.run] = s}
    IN  /\ pending' = pending \ swept
        /\ reply' = [r \in Runs |-> IF \E p \in swept : p.run = r THEN "dropped"
                                    ELSE reply[r]]
        /\ approvals' = [approvals EXCEPT ![s] = {}]
        /\ UNCHANGED <<plate, walk, ticket, cancelled, nextId, consented>>

(* Deleting a session forgets its approvals and leaves its questions. *)
sweep_destroyed_sessions(s) ==
    /\ approvals' = [approvals EXCEPT ![s] = {}]
    /\ UNCHANGED <<plate, walk, question, cancelled, pending, nextId, consented>>

GrowStale(p) ==
    /\ LongTimeout
    /\ p \in pending
    /\ ~p.stale
    /\ pending' = (pending \ {p}) \cup {[p EXCEPT !.stale = TRUE]}
    /\ UNCHANGED <<plate, walk, question, cancelled, approvals, nextId,
                   consented>>

RunStep(r) ==
    \/ \E c \in Calls, open \in BOOLEAN : Begin(r, c, open)
    \/ PassRule(r)
    \/ ChainPassed(r)
    \/ RememberedApproval(r)
    \/ request_confirmation(r)
    \/ Approve(r)
    \/ Refuse(r)
    \/ GiveUp(r)
    \/ Conclude(r)

Next ==
    \/ \E r \in Runs : RunStep(r)
    \/ \E r \in Runs, g \in HumanGates : close_gate(r, g)
    \/ \E r \in Runs : with_state(r)
    \/ \E p \in pending, t, a \in BOOLEAN : handle_confirm(p, t, a)
    \/ \E r \in Runs : Cancel(r)
    \/ \E s \in Sessions : Disconnect(s)
    \/ \E s \in Sessions : sweep_destroyed_sessions(s)
    \/ \E p \in pending : GrowStale(p)

Spec == Init /\ [][Next]_vars

(* A run that can take its next step does: the tokio scheduler polls every *)
(* ready task, and the timeout of a confirmation always fires.  No fairness*)
(* is asked of the user, the client or the choice of calls.                *)
Fairness ==
    \A r \in Runs : WF_vars(PassRule(r) \/ ChainPassed(r) \/ RememberedApproval(r)
                            \/ request_confirmation(r) \/ Approve(r)
                            \/ Refuse(r) \/ GiveUp(r))

FairSpec == Spec /\ Fairness

-----------------------------------------------------------------------------
(* Properties. *)

Confirmations == [id : 1..MaxConfirmations, run : Runs, stale : BOOLEAN]

TypeOK ==
    /\ sandboxOff \in BOOLEAN
    /\ principles \in [Runs -> SUBSET Principles]
    /\ closed \in [Runs -> SUBSET HumanGates]
    /\ stage \in [Runs -> Stages]
    /\ call \in [Runs -> Calls \cup {NoCall}]
    /\ chain \in [Runs -> Seq(Gates)]
    /\ ticket \in [Runs -> 0..MaxConfirmations]
    /\ reply \in [Runs -> Replies]
    /\ cancelled \in [Runs -> BOOLEAN]
    /\ plates \in Nat
    /\ pending \subseteq Confirmations
    /\ approvals \in [Sessions -> SUBSET Keys]
    /\ nextId \in 1..(MaxConfirmations + 1)
    /\ consented \in [Sessions -> SUBSET Keys]

(* The calls that nobody may run unasked: a sensitive file that the policy *)
(* chain wants asked about, and a pattern GeJu denies outright.            *)
MustAsk(c) ==
    \/ c.verdict = "Ask"
    \/ evaluate(c.ceremony, c.palace).execution_mode = "Denied"

(* A call that must be asked about is cleared only if a user of the        *)
(* session has approved this very tool and input: a timeout, a cancelled   *)
(* run, a lost client, a forged token or an approval of another session    *)
(* never lets it through.                                                  *)
NeverUnasked ==
    \A r \in Runs : stage[r] \in {"cleared", "boxed"} /\ MustAsk(call[r])
                        => call[r].key \in consented[SessionOf[r]]

(* Every stored confirmation has exactly one run waiting for it, and a run *)
(* that waits with no answer can still be answered: no entry leaks and no  *)
(* waiter is forgotten by the sweeps, the timeout or the stale cleanup.    *)
QuestionsAnswerable ==
    /\ \A p \in pending : /\ stage[p.run] = "waiting"
                          /\ ticket[p.run] = p.id
                          /\ reply[p.run] = "none"
    /\ \A r \in Runs : stage[r] = "waiting" /\ reply[r] = "none" =>
            \E p \in pending : p.run = r

(* What is refused stays refused: no approval, escalation or downgrade     *)
(* lets through a call a deny rule matches, a command off the Verifier's   *)
(* list, or a call that GeJu denies while the gate that may escalate it is *)
(* closed; and only what a working sandbox takes is run as sandboxed.      *)
RefusalsHold ==
    \A r \in Runs : stage[r] \in {"cleared", "boxed"} =>
        LET c == call[r]
        IN  /\ c.verdict # "Deny"
            /\ r \in VerifierRuns /\ c.tool = "shell" => c.allowed
            /\ evaluate(c.ceremony, c.palace).execution_mode = "Denied"
                    => gate_is_open(r, "ShangMen")
            /\ stage[r] = "boxed" => c.boxable /\ ~sandboxOff

(* Every question is settled: the run never waits for the user forever. *)
QuestionsSettle ==
    \A r \in Runs : stage[r] = "waiting" ~> stage[r] # "waiting"

(* Principles tighten and never loosen: no call is cleared that the        *)
(* evaluation without principles would have refused in this gate state.    *)
NeverLoosened ==
    \A r \in Runs : stage[r] \in {"cleared", "boxed"} =>
        prepare(r, call[r], evaluate(call[r].ceremony, call[r].palace)).stage
            # "denied"
=============================================================================
