-------------------------------- MODULE GeJu --------------------------------
(***************************************************************************)
(* The GeJu engine (kernel/src/geju/) and the learned principles           *)
(* (kernel/src/principles/mod.rs): the stem of a tool's intent laid over   *)
(* the stem of the palace it targets decides how a call is executed, and   *)
(* the principles derived from earlier failures may then tighten the       *)
(* decision.  Pure operators; wording and retry counts are left out.       *)
(***************************************************************************)
EXTENDS Integers, Sequences

Ceremonies == {"Wu", "Ji", "Geng", "Xin", "Ren", "Gui"}
Marvels    == {"Yi", "Bing", "Ding"}
Stems      == Ceremonies \cup Marvels \cup {"Jia"}

Modes == {"Direct", "Guarded", "Sandbox", "Denied"}

(* Gates of an approval chain.  A Permission rule refuses only if its text *)
(* says "deny", which no rule of the patterns or the principles does.      *)
Gates == {"Permission", "UserConfirmation", "SandboxIsolation", "CodeReview"}

Result(mode, audit, chain) ==
    [execution_mode |-> mode, requires_audit |-> audit, approval_chain |-> chain]

Results == [execution_mode : Modes, requires_audit : BOOLEAN,
            approval_chain : Seq(Gates)]

Direct  == Result("Direct", FALSE, <<>>)
Guarded == Result("Guarded", FALSE, <<>>)
Isolated == Result("Sandbox", TRUE, <<"SandboxIsolation">>)
Permitted(audit) == Result("Guarded", audit, <<"Permission">>)
Confirmed == Result("Guarded", TRUE, <<"UserConfirmation">>)

(* Layer 1: the named patterns. *)
IsNamed(heaven, earth) ==
    \/ heaven = earth /\ heaven \in Ceremonies
    \/ <<heaven, earth>> \in
         {<<"Bing", "Wu">>, <<"Wu", "Bing">>, <<"Yi", "Wu">>, <<"Ding", "Bing">>,
          <<"Geng", "Bing">>, <<"Bing", "Geng">>, <<"Xin", "Ding">>,
          <<"Ren", "Geng">>, <<"Ding", "Gui">>, <<"Gui", "Ding">>,
          <<"Ji", "Bing">>, <<"Ding", "Ji">>, <<"Wu", "Ji">>}

named_pattern(heaven, earth) ==
    CASE <<heaven, earth>> \in {<<"Geng", "Bing">>, <<"Ding", "Gui">>} -> Isolated
      [] <<heaven, earth>> = <<"Bing", "Geng">> -> Permitted(TRUE)
      [] <<heaven, earth>> = <<"Ren", "Geng">> ->
            Result("Denied", TRUE, <<"Permission">>)
      [] <<heaven, earth>> = <<"Gui", "Ding">> -> Confirmed
      [] <<heaven, earth>> = <<"Ji", "Bing">> -> Result("Direct", TRUE, <<>>)
      [] <<heaven, earth>> = <<"Geng", "Geng">> -> Guarded
      [] OTHER -> Direct

(* Layer 2: the marvels, then the ceremonies, as intents. *)
marvels_semantic(heaven, earth) ==
    CASE heaven = "Yi"   /\ earth = "Geng" -> Permitted(TRUE)
      [] heaven = "Bing" /\ earth = "Gui"  -> Result("Guarded", TRUE, <<>>)
      [] heaven = "Ding" /\ earth = "Ding" -> Confirmed
      [] heaven = "Ding" /\ earth = "Geng" -> Isolated
      [] heaven = "Ding" /\ earth \notin {"Ding", "Geng"} -> Guarded
      [] OTHER -> Direct

ceremony_semantic(heaven, earth) ==
    CASE heaven = "Ji" /\ earth = "Geng" -> Permitted(FALSE)
      [] heaven = "Ji" /\ earth = "Ren" -> Permitted(TRUE)
      [] heaven = "Ji" /\ earth = "Bing" -> Result("Guarded", TRUE, <<>>)
      [] heaven = "Ji" /\ earth \notin {"Ji", "Geng", "Ren", "Bing"} -> Guarded
      [] heaven = "Geng" /\ earth = "Ji" -> Isolated
      [] heaven = "Geng" /\ earth = "Gui" -> Result("Guarded", TRUE, <<>>)
      [] heaven = "Geng" /\ earth \notin {"Geng", "Ji", "Gui"} -> Guarded
      [] heaven = "Ren" /\ earth = "Ji" ->
            Result("Guarded", TRUE, <<"Permission", "UserConfirmation">>)
      [] heaven = "Gui" /\ earth \notin {"Gui", "Wu"} -> Guarded
      [] OTHER -> Direct

(* Layer 3, the baseline, is reached by the hidden stem Jia only. *)
evaluate(heaven, earth) ==
    CASE IsNamed(heaven, earth) -> named_pattern(heaven, earth)
      [] ~IsNamed(heaven, earth) /\ heaven \in Marvels ->
            marvels_semantic(heaven, earth)
      [] ~IsNamed(heaven, earth) /\ heaven \in Ceremonies ->
            ceremony_semantic(heaven, earth)
      [] OTHER -> Guarded

(* The pattern's name, by which principles are matched: the semantic       *)
(* patterns that no pair spells out share one name per intent.             *)
geju_key(heaven, earth) ==
    IF IsNamed(heaven, earth)
         \/ <<heaven, earth>> \in
               {<<"Ji", "Geng">>, <<"Ji", "Ren">>, <<"Geng", "Ji">>,
                <<"Geng", "Wu">>, <<"Geng", "Gui">>, <<"Xin", "Wu">>,
                <<"Ren", "Ji">>, <<"Gui", "Wu">>}
    THEN <<heaven, earth>>
    ELSE <<heaven, "X">>

GeJuKeys == {geju_key(h, e) : h \in Ceremonies, e \in Stems}

SafetyLevels == [Direct |-> 0, Guarded |-> 1, Sandbox |-> 2, Denied |-> 3]

safety_level(result) == SafetyLevels[result.execution_mode]

is_stricter_than(a, b) ==
    \/ safety_level(a) > safety_level(b)
    \/ /\ safety_level(a) = safety_level(b)
       /\ \/ a.requires_audit /\ ~b.requires_audit
          \/ Len(a.approval_chain) > Len(b.approval_chain)

-----------------------------------------------------------------------------
(* Layer 4: a principle holds for one intent and palace; "open" is an      *)
(* atma_graha below 0.50, when the agent accepts self-correction.          *)

Constraints ==
    [type : {"EscalateTo"}, mode : {"Guarded", "Sandbox", "Denied"}]
        \cup [type : {"AddGuard"}, gate : Gates]
        \cup [type : {"RequireAudit"}]

EscalateTo(result, mode) ==
    LET candidate == [result EXCEPT !.execution_mode = mode]
    IN  IF is_stricter_than(candidate, result) THEN candidate ELSE result

AddGuard(result, gate) ==
    IF \E i \in DOMAIN result.approval_chain : result.approval_chain[i] = gate
    THEN result
    ELSE [result EXCEPT !.approval_chain = Append(@, gate)]

tighten(result, constraint) ==
    CASE constraint.type = "EscalateTo" -> EscalateTo(result, constraint.mode)
      [] constraint.type = "AddGuard" -> AddGuard(result, constraint.gate)
      [] OTHER -> [result EXCEPT !.requires_audit = TRUE]

(* SystemPrinciple::derive on the snapshots a run left for one pattern: n  *)
(* calls, errors of them failed, atma_graha in hundredths.                 *)
EscalateToSandbox == [type |-> "EscalateTo", mode |-> "Sandbox"]
AddPermission == [type |-> "AddGuard", gate |-> "Permission"]
RequireAudit == [type |-> "RequireAudit"]

derive(n, errors, atma) ==
    LET byErrorRate ==
            CASE 10 * errors >= 7 * n /\ atma < 40 -> {EscalateToSandbox}
              [] 10 * errors >= 4 * n /\ ~(10 * errors >= 7 * n /\ atma < 40) ->
                    {AddPermission}
              [] OTHER -> {}
    IN  CASE n < 3 -> {}
          [] n \in 3..5 -> byErrorRate
          [] n > 5 -> IF byErrorRate # {} THEN {EscalateToSandbox}
                      ELSE {RequireAudit}

(* What the agent loop applies to a call: the derived constraints of the   *)
(* pattern, which touch different fields, so their order does not matter.  *)
ApplyIf(present, result, constraint) ==
    IF present THEN tighten(result, constraint) ELSE result

Layer4(constraints, result) ==
    ApplyIf(RequireAudit \in constraints,
        ApplyIf(AddPermission \in constraints,
            ApplyIf(EscalateToSandbox \in constraints, result, EscalateToSandbox),
            AddPermission),
        RequireAudit)
=============================================================================
