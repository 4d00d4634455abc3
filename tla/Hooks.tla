------------------------------- MODULE Hooks --------------------------------
(***************************************************************************)
(* The hooks around a tool call: the user's pre-tool commands              *)
(* (stems/hooks.rs), then the registry of the spirit plate and the hooks   *)
(* of it that guard tool calls (plates/shen_spirit/hook.rs).  Events that  *)
(* are only observed change nothing of a run and are left out.             *)
(***************************************************************************)
EXTENDS Integers, FiniteSets, Sequences, SequencesExt, TLC

CONSTANTS
    HookTools,      \* names of tools
    Priorities,     \* priorities of registered hooks
    MaxUserHooks,   \* bound: configured commands
    MaxHooks        \* bound: registered hooks

ASSUME HooksAssumption ==
    /\ MaxUserHooks \in Nat /\ MaxHooks \in Nat
    /\ Priorities \subseteq Int

VARIABLES
    configured, \* the compiled user hooks, in the order of the configuration
    registry,   \* hooks of the spirit of tool calls, with their registration number
    gate,       \* the call at the gates: tool, mode of its GeJu, stage, position
    heard       \* what every hook that was asked about the call said

hookVars == <<configured, registry, gate, heard>>

UserHook == [event : {"pre_tool_use", "post_tool_use"},
             tools : SUBSET HookTools, block_on_exit : BOOLEAN]

Hook == [priority : Priorities, tools : SUBSET HookTools,
         block_on_failure : BOOLEAN]

HookInit ==
    /\ configured \in BoundedSeq(UserHook, MaxUserHooks)
    /\ registry = << >>
    /\ gate = [stage |-> "assembly"]
    /\ heard = << >>

-----------------------------------------------------------------------------
(* Mutant: the new hook goes to the front of its priority.                 *)
register_Front(reg, h) ==
    LET before == SelectSeq(reg, LAMBDA x : x.priority > h.priority)
    IN  before \o <<h>> \o SelectSeq(reg, LAMBDA x : x.priority <= h.priority)

(* HookRegistry::register pushes, then sorts by falling priority; the sort *)
(* is stable.                                                              *)
register(reg, h) ==
    SelectSeq(reg, LAMBDA x : x.priority >= h.priority) \o <<h>>
        \o SelectSeq(reg, LAMBDA x : x.priority < h.priority)

Register(h) ==
    /\ gate.stage = "assembly" /\ Len(registry) < MaxHooks
    /\ registry' = register(registry, [number |-> Len(registry) + 1] @@ h)
    /\ UNCHANGED <<configured, gate, heard>>

(* A call comes to the gates; a call that its GeJu denies is asked about   *)
(* by no user hook, and is denied later.  hook_denied: the GeJu of the     *)
(* spirit plate itself lets no hook run.                                   *)
Gate(tool, mode, hook_denied) ==
    /\ gate.stage \in {"assembly", "cleared", "blocked"}
    /\ gate' = [stage |-> IF mode = "Denied" THEN "guard" ELSE "user", tool |-> tool,
                mode |-> mode, hook_denied |-> hook_denied, at |-> 1]
    /\ heard' = << >>
    /\ UNCHANGED <<configured, registry>>

HookDue(stage, seq) ==
    gate.stage = stage /\ gate.at <= Len(seq)

Advance(stage) ==
    gate' = [gate EXCEPT !.stage = stage, !.at = IF stage = gate.stage THEN @ + 1 ELSE 1]

matches_tool(h) == gate.tool \in h.tools

(* Mutant: the first hook that is not for this call ends the round.        *)
Skip_Rest(h) ==
    Advance("guard") /\ UNCHANGED heard

Skip(h) ==
    Advance(gate.stage) /\ UNCHANGED heard

(* run_pre_tool_hooks, one command: it exits with 0 or not, cannot be      *)
(* spawned (which does not block), or its thread dies (which does).        *)
run_pre_tool_hook ==
    /\ HookDue("user", configured)
    /\ LET h == configured[gate.at]
       IN  IF h.event # "pre_tool_use" \/ ~matches_tool(h) THEN Skip(h)
           ELSE \E said \in {"zero", "nonzero", "unspawned", "join error"} :
               /\ heard' = Append(heard, <<"user", gate.at, said>>)
               /\ Advance(IF said = "join error" \/ (said = "nonzero" /\ h.block_on_exit)
                          THEN "blocked" ELSE "user")
    /\ UNCHANGED <<configured, registry>>

UserHooksDone ==
    /\ gate.stage = "user" /\ gate.at > Len(configured)
    /\ Advance("guard")
    /\ UNCHANGED <<configured, registry, heard>>

(* fire_guarding_hooks, one hook: a blocking one is awaited, and a panic   *)
(* lets the call pass; any other is spawned and forgotten.                 *)
fire_guarding_hook ==
    /\ HookDue("guard", registry) /\ ~gate.hook_denied
    /\ LET h == registry[gate.at]
       IN  IF ~matches_tool(h) \/ ~h.block_on_failure THEN Skip(h)
           ELSE \E said \in {"Ok", "Cancel", "panic"} :
               /\ heard' = Append(heard, <<"guard", h.number, said>>)
               /\ Advance(IF said = "Cancel" THEN "blocked" ELSE "guard")
    /\ UNCHANGED <<configured, registry>>

Unblocked ==
    /\ gate.stage = "guard" /\ (gate.at > Len(registry) \/ gate.hook_denied)
    /\ Advance("cleared")
    /\ UNCHANGED <<configured, registry, heard>>

GateNext ==
    \/ \E h \in Hook : Register(h)
    \/ \E t \in HookTools, m \in {"Free", "Denied"}, d \in BOOLEAN : Gate(t, m, d)
    \/ run_pre_tool_hook \/ UserHooksDone \/ fire_guarding_hook \/ Unblocked

HookSpec == HookInit /\ [][GateNext]_hookVars

-----------------------------------------------------------------------------
(* Type invariant.                                                         *)
HookTypeOK ==
    /\ \A i \in DOMAIN configured : configured[i] \in UserHook
    /\ gate.stage \in {"assembly", "user", "guard", "cleared", "blocked"}

(* A call goes on to the human plate only if every pre-tool command and    *)
(* every blocking hook for its tool was asked and none of them refused;    *)
(* what hooks do not match, panic or cannot be started changes nothing.    *)
VetoHeeded ==
    gate.stage = "cleared" =>
        /\ gate.mode # "Denied" =>
             \A i \in DOMAIN configured :
                 (configured[i].event = "pre_tool_use" /\ matches_tool(configured[i])) =>
                     \E said \in {"zero", "nonzero", "unspawned"} :
                         /\ <<"user", i, said>> \in ToSet(heard)
                         /\ said = "nonzero" => ~configured[i].block_on_exit
        /\ ~gate.hook_denied =>
             \A i \in DOMAIN registry :
                 (registry[i].block_on_failure /\ matches_tool(registry[i])) =>
                     \E said \in {"Ok", "panic"} :
                         <<"guard", registry[i].number, said>> \in ToSet(heard)

(* Hooks are asked by falling priority, and those of one priority in the   *)
(* order in which they were registered.                                    *)
RegistryOrdered ==
    \A i, j \in DOMAIN registry : i < j =>
        \/ registry[i].priority > registry[j].priority
        \/ /\ registry[i].priority = registry[j].priority
           /\ registry[i].number < registry[j].number
=============================================================================
