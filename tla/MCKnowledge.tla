---------------------------- MODULE MCKnowledge ----------------------------
(***************************************************************************)
(* What the agent keeps in mind: its memories and their graph (Memory),    *)
(* its skills, the diffs of their revisions and its principles (Skills),   *)
(* its tasks and what is still to be verified (TaskList), and the calls it *)
(* reads in an answer (ToolParse).                                         *)
(* They share no state, so that a behaviour has the steps of one of them,  *)
(* named by part; the others stay as they start.                           *)
(***************************************************************************)
EXTENDS Memory, Skills, TaskList, ToolParse, TLC

VARIABLE part

MCMessages == {<<[kind |-> "role", x |-> "web", verb |-> "do web"]>>, <<[kind |-> "dislike", x |-> "vim"]>>,
               <<[kind |-> "like", x |-> "vim"], [kind |-> "project", x |-> "jia"]>>}

(* Seeds of earlier sessions: weak or strong, rarely or often recalled.    *)
Old(nature, source, strength, count, tier) ==
    [NewSeed(nature, source, "fact", "fact") EXCEPT !.strength = strength, !.count = count, !.tier = tier, !.old = TRUE]
WeakSeeds == <<Old("Inference", "ToolObservation", 160, 0, "Archive"), Old("Fact", "Handoff", 120, 0, "Archive")>>
MCOldSeeds == {WeakSeeds,
               <<Old("Inference", "ToolObservation", 300, 0, "OnDemand"), Old("Procedure", "Consolidation", 160, 7, "OnDemand")>>,
               <<Old("Procedure", "Handoff", 1000, 4, "OnDemand"), Old("Fact", "Consolidation", 1000, 9, "Always")>>}

(* What earlier sessions thought of the skill.                             *)
Reflected(t, c) == [type |-> t, confidence |-> c]
MCEarlier == {<<>>, <<Reflected("Discovery", 60), Reflected("Optimization", 60)>>}
SessionsAlike == Permutations(SkillSessions)

(* A criterion whose text is part of another's.                            *)
MCIncludes == [t \in Texts |-> IF t = "unit tests" THEN {"unit tests", "tests"} ELSE {t}]

restVars == <<graphVars, diffVars, principleVars, taskVars, verVars, parseVars>>
knowledgeVars == <<part, memVars, skillVars, restVars>>

(* A part that is idle starts in one way only.                             *)
KnowledgeInit ==
    /\ part \in {"memory", "graph", "skills", "diff", "principles", "tasks", "verification", "answers"}
    /\ DiffInit /\ PrinciplesInit /\ TaskInit /\ VerInit /\ ParseInit
    /\ IF part = "memory" THEN TRUE ELSE seeds = [i \in SeedIds |-> IF i \in DOMAIN WeakSeeds THEN WeakSeeds[i] ELSE NoSeed]
    /\ MemInit
    /\ SkillInit
    /\ part # "skills" => file.min = 60 /\ \A s \in SkillSessions : reflections[s] = <<>>
    /\ IF part = "graph" THEN TRUE
       ELSE /\ triples = [i \in 1..MaxTriples |-> CHOOSE t \in Triple : TRUE]
            /\ search = [limit |-> 1, filter |-> NoFilter, hop |-> 0, found |-> {}, anchors |-> Anchors, seen |-> Anchors]
    /\ GraphInit

KnowledgeNext ==
    /\ UNCHANGED part
    /\ \/ part = "memory" /\ MemNext /\ UNCHANGED <<skillVars, restVars>>
       \/ part = "skills" /\ SkillNext /\ UNCHANGED <<memVars, restVars>>
       \/ /\ UNCHANGED <<memVars, skillVars>>
          /\ \/ part = "graph" /\ GraphNext /\ UNCHANGED <<diffVars, principleVars, taskVars, verVars, parseVars>>
             \/ part = "diff" /\ DiffNext /\ UNCHANGED <<graphVars, principleVars, taskVars, verVars, parseVars>>
             \/ part = "principles" /\ PrinciplesNext /\ UNCHANGED <<graphVars, diffVars, taskVars, verVars, parseVars>>
             \/ part = "tasks" /\ TaskNext /\ UNCHANGED <<graphVars, diffVars, principleVars, verVars, parseVars>>
             \/ part = "verification" /\ VerNext /\ UNCHANGED <<graphVars, diffVars, principleVars, taskVars, parseVars>>
             \/ part = "answers" /\ ParseNext /\ UNCHANGED <<graphVars, diffVars, principleVars, taskVars, verVars>>

KnowledgeSpec == KnowledgeInit /\ [][KnowledgeNext]_knowledgeVars

(* A stated preference whose row was written keeps a value under its key   *)
(* through concurrent sessions, dissolution spares what is protected,      *)
(* budgets hold, and the graph finds what is near and what contradicts     *)
(* itself (vijnana, zuowang, gen_store).                                   *)
MemoriesKept ==
    [](MemTypeOK /\ KeyNeverLost /\ HopsAreDistances /\ ConflictsFound) /\ ProtectedKept /\ BudgetsHold

(* Skills change within their limits: what a user disabled or set survives *)
(* reloads and revisions, the registry follows the file, a session revises *)
(* no more and no sooner than allowed, and the diff kept with a revision   *)
(* tells what it changed (li_skill).  A revision overwrites the text that  *)
(* a user edited meanwhile: nothing is claimed of it.                      *)
SkillsKept ==
    /\ [](SkillTypeOK /\ ChangesLoaded /\ RevisionsLimited /\ CooldownKept /\ SettingsFromUser)
    /\ [](DiffFaithful /\ DiffMinimal)
    /\ DisabledKept

(* The principles of a session are replaced as a whole or not at all, and  *)
(* nobody else's with them (gen_store/principles.rs).                      *)
PrinciplesKept == [](PrinciplesTypeOK /\ SavedWhole) /\ OthersKept

(* What is still to be verified is neither forgotten nor asked for twice:  *)
(* named criteria are ticked, failures remind once, and a checklist goes   *)
(* only when the table is crowded (task.rs, completion_check.rs).          *)
ChecksKept ==
    /\ [](TaskTypeOK /\ VerTypeOK /\ NamedAreChecked /\ VectorsBounded /\ RemindedOnce)
    /\ ForgottenOnlyIfCrowded

(* What is called and what is shown are different parts of an answer, and  *)
(* a well-formed answer is read as it was meant, with every argument of a  *)
(* call (stems/tool_parse.rs).                                             *)
CallsParsed == CalledOrShown /\ CallsFound /\ ArgumentsKept
=============================================================================
