---------------------------- MODULE MCHumanPlate ----------------------------
EXTENDS HumanPlate

CONSTANTS r1, r2, s1, kRead, kShell, kSkill

(* One call per path through prepare, with the stems the tools declare. *)
Tool(name, ceremony, palace, destructive, verdict, key) ==
    [tool |-> name, ceremony |-> ceremony, palace |-> palace,
     destructive |-> destructive, verdict |-> verdict, key |-> key,
     boxable |-> TRUE, allowed |-> FALSE]

ReadSecret == Tool("read_file", "Wu", "Wu", FALSE, "Ask", kRead)
Shell == Tool("shell", "Geng", "Geng", TRUE, "Pass", kShell)
ShellAllowed == [Shell EXCEPT !.allowed = TRUE]
ShellUnboxable == [Shell EXCEPT !.boxable = FALSE]
Skill == Tool("skill", "Ren", "Geng", TRUE, "Pass", kSkill)
DeniedShell == [Shell EXCEPT !.verdict = "Deny"]

Write == Tool("write_file", "Ji", "Ji", TRUE, "Pass", kRead)
SaveSkill == Tool("namarupa", "Gui", "Xin", TRUE, "Pass", kSkill)

MCKeys == {kRead, kShell, kSkill}
TwoRuns == [r \in {r1, r2} |-> s1]
OneRun == [r \in {r1} |-> s1]

(* One call for each way through prepare and the chain, and, for one run,  *)
(* the calls that tell the other gates apart.                              *)
AskedAndRefused == {ReadSecret, ShellAllowed, ShellUnboxable, Skill, SaveSkill,
                    DeniedShell}
EveryPath == AskedAndRefused \cup {Shell, Write}

(* What a run that left n calls of a pattern, errors of them failed, makes *)
(* the next one learn about the shell and about reading.                   *)
LearnedFrom(key, n, errors, atma) ==
    {[on |-> key, constraint |-> x] : x \in derive(n, errors, atma)}

ShellFailures == {LearnedFrom(<<"Geng", "Geng">>, 4, 3, 30)
                    \cup LearnedFrom(<<"Wu", "Wu">>, 3, 3, 80)}
=============================================================================
