------------------------------- MODULE Skills -------------------------------
(***************************************************************************)
(* A skill (palaces/li_skill): its SKILL.md, the registry that the watcher *)
(* and the gateway rebuild from disk, and the evolution that rewrites the  *)
(* file after a run, from reflections of the session and two calls of the  *)
(* model.  One skill, used twice by each run (fewer uses are not eligible).*)
(*                                                                         *)
(* A text is its number; a tick of the clock is an hour (the cooldown).    *)
(* Confidences are in hundredths.  The settings of evolution are one       *)
(* switch and the confidence asked of a revision.                          *)
(*                                                                         *)
(* And the principles that a run leaves behind, in the store.              *)
(***************************************************************************)
EXTENDS Integers, Sequences, FiniteSets, SequencesExt

CONSTANTS
    SkillSessions,
    Confidences,      \* of reflections and as settings, in 0..100
    ReflectionTypes, EarlierReflections,
    MaxRevisions,     \* evolve_max_revisions_per_session
    Threshold,        \* evolve_reflection_threshold
    MaxSkillInputs    \* bound: runs, edits, requests, hours, restarts

ASSUME SkillAssumption == MaxRevisions \in Nat /\ Threshold \in Nat \ {0} /\ MaxSkillInputs \in Nat

VARIABLES
    file,        \* SKILL.md: [there, front(matter), text, auto, min]
    registry,    \* [skill, disabled]
    changed,     \* events of the directory that the watcher has not flushed
    loads,       \* watcher and gateway: a reload under way
    evolving,    \* session -> EvolutionEngine::run under way
    reflections, \* session -> its reflections, oldest first
    revisions,   \* the table skill_revisions
    clock, skillInputs,
    skillLog     \* [writes, sets, newest, behind, settings]: of the file and of the registry,
                 \* the newest file read, whether an older or a failed load came in after
                 \* it, the confidences the user asked for

skillVars == <<file, registry, changed, loads, evolving, reflections, revisions, clock, skillInputs, skillLog>>

Gone == [there |-> FALSE, front |-> FALSE, text |-> 0, auto |-> FALSE, min |-> 0]
Loaders == {"watcher", "gateway"}
NoLoad == [pc |-> "idle", skill |-> Gone, disabled |-> FALSE, loaded |-> 0, copied |-> 0]
NoRun == [pc |-> "idle", skill |-> Gone, old |-> Gone, new |-> Gone, seen |-> 0]

SkillInit ==
    /\ file \in {[there |-> TRUE, front |-> TRUE, text |-> 1, auto |-> TRUE, min |-> c] : c \in Confidences}
    /\ registry = [skill |-> file, disabled |-> FALSE]
    /\ changed = FALSE /\ loads = [l \in Loaders |-> NoLoad]
    /\ evolving = [s \in SkillSessions |-> NoRun]
    /\ \E rs \in EarlierReflections : reflections = [s \in SkillSessions |-> rs]
    /\ revisions = <<>> /\ clock = 0 /\ skillInputs = 0
    /\ skillLog = [writes |-> 1, sets |-> 0, newest |-> 1, behind |-> FALSE, settings |-> {file.min}]

SkillInput == skillInputs < MaxSkillInputs /\ skillInputs' = skillInputs + 1

(* What a load makes of the file: without frontmatter it has the defaults. *)
parse_skill(f) == IF f.there /\ ~f.front THEN [f EXCEPT !.auto = FALSE, !.min = 70] ELSE f

(* A write of SKILL.md; the watcher is told.                               *)
WriteFile(content) ==
    /\ file' = content /\ changed' = TRUE
    /\ skillLog' = [skillLog EXCEPT !.writes = @ + 1]

-----------------------------------------------------------------------------
(* Reloads: the directory is read, then the set of disabled skills of the  *)
(* old registry, then the registry is swapped; locks are held for one of   *)
(* these at a time.                                                        *)

evolution == <<evolving, reflections, revisions, clock>>

load_directory_sync(l) ==
    /\ loads[l].pc = "load" \/ (l = "watcher" /\ loads[l].pc = "idle" /\ changed)
    /\ changed' = IF l = "watcher" THEN FALSE ELSE changed
    /\ loads' = [loads EXCEPT ![l] =
         [NoLoad EXCEPT !.pc = "loaded", !.skill = parse_skill(file), !.loaded = skillLog.writes]]
    /\ UNCHANGED <<file, registry, evolution, skillInputs, skillLog>>

(* The directory cannot be read: the registry stays as it is, except after *)
(* a toggle, whose reload goes on with an empty one.                       *)
LoadFails(l, toggled) ==
    /\ loads[l].pc = "load" \/ (l = "watcher" /\ loads[l].pc = "idle" /\ changed)
    /\ toggled <=> loads[l].skill.there
    /\ changed' = IF l = "watcher" THEN FALSE ELSE changed
    /\ loads' = [loads EXCEPT ![l] = IF toggled THEN [NoLoad EXCEPT !.pc = "loaded"] ELSE NoLoad]
    /\ skillLog' = [skillLog EXCEPT !.behind = TRUE, !.newest = skillLog.writes]
    /\ UNCHANGED <<file, registry, evolution, skillInputs>>

(* Mutant: the new registry starts with every skill enabled.               *)
CopyDisabled_Fresh(l) ==
    /\ loads[l].pc = "loaded"
    /\ loads' = [loads EXCEPT ![l].pc = "copied", ![l].disabled = FALSE, ![l].copied = skillLog.sets]
    /\ UNCHANGED <<file, registry, changed, evolution, skillInputs, skillLog>>

CopyDisabled(l) ==
    /\ loads[l].pc = "loaded"
    /\ loads' = [loads EXCEPT ![l].pc = "copied", ![l].disabled = registry.disabled,
                              ![l].copied = skillLog.sets]
    /\ UNCHANGED <<file, registry, changed, evolution, skillInputs, skillLog>>

SwapLogged(l) ==
    LET loaded == loads[l].loaded
    IN  skillLog' = [skillLog EXCEPT !.sets = @ + 1, !.behind = loaded < skillLog.newest,
                                     !.newest = IF loaded > @ THEN loaded ELSE @]

(* Mutant: the events that came while it loaded are dropped.               *)
SwapRegistry_Drain(l) ==
    /\ loads[l].pc = "copied"
    /\ registry' = [skill |-> loads[l].skill, disabled |-> loads[l].disabled]
    /\ SwapLogged(l)
    /\ loads' = [loads EXCEPT ![l] = NoLoad]
    /\ changed' = IF l = "watcher" THEN FALSE ELSE changed
    /\ UNCHANGED <<file, evolution, skillInputs>>

SwapRegistry(l) ==
    /\ loads[l].pc = "copied"
    /\ registry' = [skill |-> loads[l].skill, disabled |-> loads[l].disabled]
    /\ SwapLogged(l)
    /\ loads' = [loads EXCEPT ![l] = NoLoad]
    /\ UNCHANGED <<file, changed, evolution, skillInputs>>

handle_skills_reload ==
    /\ SkillInput /\ loads["gateway"].pc = "idle"
    /\ loads' = [loads EXCEPT !["gateway"].pc = "load"]
    /\ UNCHANGED <<file, registry, changed, evolution, skillLog>>

(* Enabling drops the name even if the skill is gone.                      *)
handle_skills_toggle(disable) ==
    /\ SkillInput
    /\ IF disable THEN registry.skill.there ELSE registry.disabled
    /\ registry' = [registry EXCEPT !.disabled = disable]
    /\ skillLog' = [skillLog EXCEPT !.sets = @ + 1]
    /\ UNCHANGED <<file, changed, loads, evolution>>

(* handle_skills_evolve_toggle: read, write, reload.                       *)
EvolveToggle(enable) ==
    /\ SkillInput /\ loads["gateway"].pc = "idle" /\ registry.skill.there /\ file.front
    /\ loads' = [loads EXCEPT !["gateway"] =
                   [NoLoad EXCEPT !.pc = "rewrite", !.skill = [file EXCEPT !.auto = enable]]]
    /\ UNCHANGED <<file, registry, changed, evolution, skillLog>>

toggle_frontmatter_auto_evolve ==
    /\ loads["gateway"].pc = "rewrite"
    /\ WriteFile(loads["gateway"].skill)
    /\ loads' = [loads EXCEPT !["gateway"].pc = "load"]
    /\ UNCHANGED <<registry, evolution, skillInputs>>

(* The user edits the file, drops its frontmatter or deletes the skill.    *)
UserEdit(edited) ==
    /\ SkillInput
    /\ file' = edited /\ changed' = TRUE
    /\ skillLog' = [skillLog EXCEPT !.writes = @ + 1, !.settings = IF edited.there THEN @ \cup {edited.min} ELSE @]
    /\ UNCHANGED <<registry, loads, evolution>>

-----------------------------------------------------------------------------
(* EvolutionEngine::run.                                                   *)

Applied(s) == SelectSeq(revisions, LAMBDA r : r.applied /\ (s = r.session \/ s = "any"))

last_revision_cools ==
    Applied("any") # <<>> /\ clock - Last(Applied("any")).at < 1

Evolve(s, run) ==
    /\ evolving' = [evolving EXCEPT ![s] = run]
    /\ UNCHANGED <<registry, loads, clock>>

(* Mutant: revisions that were not applied count, the applied do not.      *)
check_eligibility_Logged(s) ==
    /\ registry.skill.there /\ ~registry.disabled /\ registry.skill.auto
    /\ Cardinality({i \in DOMAIN revisions : revisions[i].session = s /\ ~revisions[i].applied}) < MaxRevisions
    /\ ~last_revision_cools

check_eligibility(s) ==
    /\ registry.skill.there /\ ~registry.disabled /\ registry.skill.auto
    /\ Len(Applied(s)) < MaxRevisions
    /\ ~last_revision_cools

RunEnds(s) ==
    /\ SkillInput /\ evolving[s].pc = "idle" /\ check_eligibility(s)
    /\ Evolve(s, [NoRun EXCEPT !.pc = "reflect", !.skill = registry.skill])
    /\ UNCHANGED <<file, changed, reflections, revisions, skillLog>>

(* No error to reflect on, or no usable answer.                            *)
NoReflection(s) ==
    /\ evolving[s].pc = "reflect" /\ Evolve(s, NoRun)
    /\ UNCHANGED <<file, changed, reflections, revisions, skillInputs, skillLog>>

should_trigger_revision(rs) ==
    \/ \E i \in DOMAIN rs : rs[i].confidence >= 85
    \/ \E i \in DOMAIN rs : Cardinality({j \in DOMAIN rs : rs[j].type = rs[i].type}) >= Threshold
    \/ Len(rs) >= (IF Threshold * 2 > 4 THEN Threshold * 2 ELSE 4)

Reflect(s, type, confidence) ==
    LET now == Append(reflections[s], [type |-> type, confidence |-> confidence])
    IN  /\ evolving[s].pc = "reflect"
        /\ reflections' = [reflections EXCEPT ![s] = now]
        /\ Evolve(s, IF should_trigger_revision(now) THEN [evolving[s] EXCEPT !.pc = "revise"] ELSE NoRun)
        /\ UNCHANGED <<file, changed, revisions, skillInputs, skillLog>>

(* revise: the cooldown again, then the file is read.                      *)
(* Mutant: the check when the run ended is trusted.                        *)
StartRevision_Once(s) ==
    /\ evolving[s].pc = "revise"
    /\ Evolve(s, IF ~file.there THEN NoRun
                 ELSE [evolving[s] EXCEPT !.pc = "answer", !.old = file, !.seen = Len(revisions)])
    /\ UNCHANGED <<file, changed, reflections, revisions, skillInputs, skillLog>>

StartRevision(s) ==
    /\ evolving[s].pc = "revise"
    /\ Evolve(s, IF last_revision_cools \/ ~file.there THEN NoRun
                 ELSE [evolving[s] EXCEPT !.pc = "answer", !.old = file, !.seen = Len(revisions)])
    /\ UNCHANGED <<file, changed, reflections, revisions, skillInputs, skillLog>>

(* The batch leaves out the reflection just made.                          *)
Batch(s) == Front(reflections[s])
AverageConfident(s, min) ==
    Batch(s) # <<>> /\ FoldSeq(LAMBDA r, sum : r.confidence + sum, 0, Batch(s)) >= min * Len(Batch(s))

(* The newest applied revision without a later error rate gets one.        *)
Backfilled(s) ==
    LET open == {i \in DOMAIN revisions : revisions[i].applied /\ ~revisions[i].rated}
    IN  IF Batch(s) = <<>> \/ open = {} THEN revisions
        ELSE [revisions EXCEPT ![CHOOSE i \in open : \A j \in open : j <= i].rated = TRUE]

save_skill_revision(s, applied) ==
    Append(Backfilled(s),
           [session |-> s, applied |-> applied, at |-> clock, rated |-> FALSE, seen |-> evolving[s].seen])

(* No answer in time, or an empty one.                                     *)
NoRevision(s) ==
    /\ evolving[s].pc = "answer" /\ Evolve(s, NoRun)
    /\ UNCHANGED <<file, changed, reflections, revisions, skillInputs, skillLog>>

(* The answer has no usable frontmatter.                                   *)
BadRevision(s) ==
    /\ evolving[s].pc = "answer" /\ Evolve(s, NoRun)
    /\ revisions' = save_skill_revision(s, FALSE)
    /\ UNCHANGED <<file, changed, reflections, skillInputs, skillLog>>

(* Mutant: the settings in the answer are kept.                            *)
protect_frontmatter_Trusting(new, skill) == new

protect_frontmatter(new, skill) == [new EXCEPT !.auto = skill.auto, !.min = skill.min]

Revision(s, text, auto, min) ==
    LET run == evolving[s]
        new == protect_frontmatter([there |-> TRUE, front |-> TRUE, text |-> text, auto |-> auto, min |-> min], run.skill)
    IN  /\ run.pc = "answer"
        /\ Evolve(s, [run EXCEPT !.new = new,
                        !.pc = IF ~AverageConfident(s, run.skill.min) THEN "log"
                               ELSE IF run.skill.min >= 85 THEN "audit" ELSE "write"])
        /\ UNCHANGED <<file, changed, reflections, revisions, skillInputs, skillLog>>

(* A timeout passes.                                                       *)
independent_audit(s, pass) ==
    /\ evolving[s].pc = "audit"
    /\ Evolve(s, IF pass THEN [evolving[s] EXCEPT !.pc = "write"] ELSE NoRun)
    /\ revisions' = IF pass THEN revisions ELSE save_skill_revision(s, FALSE)
    /\ UNCHANGED <<file, changed, reflections, skillInputs, skillLog>>

revision_semantically_equal(run) == run.old.text = run.new.text

(* A revision that changes nothing is dropped.                             *)
Unchanged(s) ==
    /\ evolving[s].pc \in {"write", "log"} /\ revision_semantically_equal(evolving[s])
    /\ revisions' = Backfilled(s) /\ Evolve(s, NoRun)
    /\ UNCHANGED <<file, changed, reflections, skillInputs, skillLog>>

(* Temporary file and rename; the directory may be gone.                   *)
WriteRevision(s) ==
    LET run == evolving[s]
    IN  /\ run.pc = "write" /\ ~revision_semantically_equal(run)
        /\ IF file.there
           THEN WriteFile(run.new) /\ Evolve(s, [run EXCEPT !.pc = "record"])
           ELSE Evolve(s, [run EXCEPT !.pc = "log"]) /\ UNCHANGED <<file, changed, skillLog>>
        /\ UNCHANGED <<reflections, revisions, skillInputs>>

(* The record; the check of the revised skill after it only logs.          *)
RecordRevision(s) ==
    /\ \/ evolving[s].pc = "record"
       \/ evolving[s].pc = "log" /\ ~revision_semantically_equal(evolving[s])
    /\ revisions' = save_skill_revision(s, evolving[s].pc = "record")
    /\ Evolve(s, NoRun)
    /\ UNCHANGED <<file, changed, reflections, skillInputs, skillLog>>

Hour ==
    /\ SkillInput /\ clock' = clock + 1
    /\ UNCHANGED <<file, registry, changed, loads, evolving, reflections, revisions, skillLog>>

(* The program is restarted: skills that were disabled are enabled again.  *)
SkillRestart ==
    /\ SkillInput
    /\ registry' = [skill |-> parse_skill(file), disabled |-> FALSE]
    /\ changed' = FALSE /\ loads' = [l \in Loaders |-> NoLoad]
    /\ evolving' = [s \in SkillSessions |-> NoRun]
    /\ skillLog' = [skillLog EXCEPT !.newest = skillLog.writes, !.behind = FALSE, !.sets = @ + 1]
    /\ UNCHANGED <<file, reflections, revisions, clock>>

EvolveStep(s) ==
    \/ NoReflection(s) \/ StartRevision(s) \/ NoRevision(s) \/ BadRevision(s)
    \/ \E type \in ReflectionTypes, c \in Confidences : Reflect(s, type, c)
    \/ \E text \in {evolving[s].old.text, skillLog.writes + 1}, min \in {0, 85} :
            Revision(s, text, FALSE, min)
    \/ \E pass \in BOOLEAN : independent_audit(s, pass)
    \/ Unchanged(s) \/ WriteRevision(s) \/ RecordRevision(s)

SkillNext ==
    \/ Hour \/ SkillRestart \/ handle_skills_reload \/ toggle_frontmatter_auto_evolve
    \/ \E b \in BOOLEAN : handle_skills_toggle(b) \/ EvolveToggle(b)
    \/ file.there /\ UserEdit(Gone)
    \/ file.front /\ UserEdit([file EXCEPT !.front = FALSE])
    \/ \E min \in Confidences :
            UserEdit([there |-> TRUE, front |-> TRUE, text |-> skillLog.writes + 1, auto |-> TRUE, min |-> min])
    \/ \E l \in Loaders : load_directory_sync(l) \/ LoadFails(l, TRUE) \/ LoadFails(l, FALSE)
            \/ CopyDisabled(l) \/ SwapRegistry(l)
    \/ \E s \in SkillSessions : RunEnds(s) \/ EvolveStep(s)

SkillSpec == SkillInit /\ [][SkillNext]_skillVars

-----------------------------------------------------------------------------
SkillTypeOK ==
    /\ registry.disabled \in BOOLEAN /\ changed \in BOOLEAN
    /\ \A s \in SkillSessions : evolving[s].pc # "idle" => evolving[s].skill.there
    /\ skillLog.newest <= skillLog.writes

(* A skill that the user disabled or enabled stays so: a reload changes it *)
(* only if the registry was set between its copy of the set and its swap.  *)
DisabledKept ==
    [][\A l \in Loaders :
        LET swapped == loads[l].pc = "copied" /\ loads'[l].pc = "idle" /\ skillInputs' = skillInputs
        IN  swapped /\ loads[l].copied = skillLog.sets => registry'.disabled = registry.disabled]_skillVars

(* When all is quiet the registry holds the SKILL.md that is on disk,      *)
(* although files change while the directory is read, unless a load failed *)
(* or a reload swapped in what it had read before a newer one did.         *)
ChangesLoaded ==
    ~changed /\ ~skillLog.behind /\ (\A l \in Loaders : loads[l].pc = "idle")
        => registry.skill = parse_skill(file)

(* A session applies no more revisions than the skill allows it.           *)
RevisionsLimited == \A s \in SkillSessions : Len(Applied(s)) <= MaxRevisions

(* Revisions are an hour apart unless the later one was already being      *)
(* written when the earlier was recorded, so never in one session.         *)
CooldownKept ==
    \A i, j \in DOMAIN revisions :
        i < j /\ revisions[i].applied /\ revisions[j].applied /\ revisions[j].at - revisions[i].at < 1
            => i > revisions[j].seen /\ revisions[i].session # revisions[j].session

(* The confidence asked of a revision is always one the user set: the      *)
(* model, whose answers become the file, cannot lower it for the next.     *)
SettingsFromUser == file.there => file.min \in skillLog.settings

-----------------------------------------------------------------------------
(***************************************************************************)
(* The diff kept with a revision of a skill (li_skill/evolution/diff.rs):  *)
(* a table of longest common subsequences, a walk back through it, and the *)
(* lines it prints.  Two texts grow line by line.                          *)
(***************************************************************************)

CONSTANTS TextLines, MaxLines

VARIABLES before, after      \* old and new text, sequences of lines

diffVars == <<before, after>>

greater(a, b) == IF a < b THEN b ELSE a

lcs_table(old, new) ==
    LET dp[i \in 0..Len(old), j \in 0..Len(new)] ==
            IF i = 0 \/ j = 0 THEN 0
            ELSE IF old[i] = new[j] THEN dp[i - 1, j - 1] + 1
            ELSE greater(dp[i - 1, j], dp[i, j - 1])
    IN  dp

(* Mutant: rows and columns are compared the other way round at the edge.  *)
backtrack_Edge(old, new) ==
    LET dp == lcs_table(old, new)
        walk[i \in 0..Len(old), j \in 0..Len(new)] ==
            IF i = 0 \/ j = 0 THEN <<>>
            ELSE IF old[i] = new[j] THEN Append(walk[i - 1, j - 1], <<i, j>>)
            ELSE IF dp[i, j - 1] <= dp[i - 1, j] /\ j > 1 THEN walk[i, j - 1]
            ELSE walk[i - 1, j]
    IN  walk[Len(old), Len(new)]

(* The pairs of lines kept, ascending.                                     *)
backtrack(old, new) ==
    LET dp == lcs_table(old, new)
        walk[i \in 0..Len(old), j \in 0..Len(new)] ==
            IF i = 0 /\ j = 0 THEN <<>>
            ELSE IF i > 0 /\ j > 0 /\ old[i] = new[j] THEN Append(walk[i - 1, j - 1], <<i, j>>)
            ELSE IF j > 0 /\ (i = 0 \/ dp[i, j - 1] >= dp[i - 1, j]) THEN walk[i, j - 1]
            ELSE walk[i - 1, j]
    IN  walk[Len(old), Len(new)]

Marked(sign, text, from, to) == [k \in 1..(to - from) |-> <<sign, text[from + k]>>]

(* Mutant: the last removed and added lines are not printed.               *)
compute_diff_NoTail(old, new) ==
    LET edits == backtrack(old, new)
        From(k) == IF k = 1 THEN <<0, 0>> ELSE edits[k - 1]
    IN  FlattenSeq([k \in DOMAIN edits |->
            Marked("-", old, From(k)[1], edits[k][1] - 1) \o Marked("+", new, From(k)[2], edits[k][2] - 1)
            \o <<<<" ", old[edits[k][1]]>>>>])

compute_diff(old, new) ==
    LET edits == backtrack(old, new)
        From(k) == IF k = 1 THEN <<0, 0>> ELSE edits[k - 1]
        end == From(Len(edits) + 1)
    IN  FlattenSeq([k \in DOMAIN edits |->
            Marked("-", old, From(k)[1], edits[k][1] - 1) \o Marked("+", new, From(k)[2], edits[k][2] - 1)
            \o <<<<" ", old[edits[k][1]]>>>>])
        \o Marked("-", old, end[1], Len(old)) \o Marked("+", new, end[2], Len(new))

DiffInit == before = <<>> /\ after = <<>>
DiffNext ==
    \E l \in TextLines :
        \/ Len(before) < MaxLines /\ before' = Append(before, l) /\ UNCHANGED after
        \/ Len(after) < MaxLines /\ after' = Append(after, l) /\ UNCHANGED before

DiffSpec == DiffInit /\ [][DiffNext]_diffVars

-----------------------------------------------------------------------------
Side(diff, signs) == [k \in 1..Len(SelectSeq(diff, LAMBDA d : d[1] \in signs)) |->
                        SelectSeq(diff, LAMBDA d : d[1] \in signs)[k][2]]

(* A diff printed by compute_diff loses nothing: its unchanged and removed *)
(* lines are the old text, its unchanged and added lines the new one.      *)
DiffFaithful ==
    LET diff == compute_diff(before, after)
    IN  Side(diff, {" ", "-"}) = before /\ Side(diff, {" ", "+"}) = after

(* What two texts share: the subsequences of one that the other has too.   *)
Subsequences(text) ==
    {[k \in 1..Cardinality(S) |-> text[SetToSortSeq(S, <)[k]]] : S \in SUBSET DOMAIN text}

(* The edit script is minimal: no common subsequence is longer than the    *)
(* lines it keeps.                                                         *)
DiffMinimal ==
    \A common \in Subsequences(before) \cap Subsequences(after) :
        Len(common) <= Len(backtrack(before, after))

-----------------------------------------------------------------------------
(* The learned principles as the store keeps them (gen_store/principles.rs,*)
(* dui_gateway/principles.rs, loop_post.rs): the end of a run replaces     *)
(* those of its session in one transaction, and users archive and restore  *)
(* them through the gateway.                                               *)
CONSTANTS
    Learners,       \* sessions
    Keys,           \* GeJu keys that a principle may be about
    MaxSaves        \* bound: runs that derive principles

VARIABLES
    principles, \* the committed rows
    save,       \* the transaction under way
    saves,
    derived     \* history: the keys each session last derived and stored

principleVars == <<principles, save, saves, derived>>

NoSave == [session |-> "none", rows |-> {}, todo |-> {}, all |-> {}]

PrinciplesInit ==
    /\ principles = {} /\ save = NoSave /\ saves = 0
    /\ derived = [s \in Learners |-> {}]

(* Mutant: the principles of every session go.                             *)
Cleared_All(s) == {}

(* DELETE of the session's own rows.                                       *)
Cleared(s) == {r \in principles : r.session # s}

(* save_principles, BEGIN IMMEDIATE: one writer at a time; a run that      *)
(* derived nothing saves nothing.                                          *)
BeginSave(s, keys) ==
    /\ save = NoSave /\ saves < MaxSaves /\ keys # {} /\ saves' = saves + 1
    /\ save' = [session |-> s, rows |-> Cleared(s), todo |-> keys, all |-> keys]
    /\ UNCHANGED <<principles, derived>>

InsertRow(k) ==
    /\ k \in save.todo
    /\ save' = [save EXCEPT !.todo = @ \ {k},
                            !.rows = @ \cup {[id |-> <<saves, k>>, session |-> save.session,
                                              key |-> k, archived |-> FALSE]}]
    /\ UNCHANGED <<principles, saves, derived>>

(* Mutant: what was inserted so far stays.                                 *)
RolledBack_Partial == save.rows

(* A statement failed, or the daemon died: the rows are as before.         *)
RolledBack == principles

Rollback ==
    /\ save # NoSave /\ save' = NoSave /\ principles' = RolledBack
    /\ UNCHANGED <<saves, derived>>

Commit ==
    /\ save # NoSave /\ save.todo = {}
    /\ principles' = save.rows /\ save' = NoSave
    /\ derived' = [derived EXCEPT ![save.session] = save.all]
    /\ UNCHANGED saves

(* A writer waits for the transaction.                                     *)
SetArchived(i, flag) ==
    /\ save = NoSave /\ \E r \in principles : r.id = i /\ r.archived # flag
    /\ principles' = {IF r.id = i THEN [r EXCEPT !.archived = flag] ELSE r : r \in principles}
    /\ UNCHANGED <<save, saves, derived>>

archive_principle(i) == SetArchived(i, TRUE)
unarchive_principle(i) == SetArchived(i, FALSE)

PrinciplesNext ==
    \/ \E s \in Learners : \E keys \in SUBSET Keys : BeginSave(s, keys)
    \/ \E k \in Keys : InsertRow(k)
    \/ Rollback \/ Commit
    \/ \E r \in principles : archive_principle(r.id) \/ unarchive_principle(r.id)

PrinciplesSpec == PrinciplesInit /\ [][PrinciplesNext]_principleVars

-----------------------------------------------------------------------------
(* Type invariant.                                                         *)
PrinciplesTypeOK ==
    /\ \A r \in principles : r.session \in Learners /\ r.key \in Keys
    /\ save.session \in Learners \cup {"none"}

KeysOf(rows, s) == {r.key : r \in {x \in rows : x.session = s}}

(* Whatever fails between the statements of a save, a session's stored     *)
(* principles are exactly those of its last derivation that was saved,     *)
(* never a half of them, whichever of them the user archived.              *)
SavedWhole == \A s \in Learners : KeysOf(principles, s) = derived[s]

(* A save changes no other session's principles, and none that the user    *)
(* archived comes back except by the user or by its own session's save.    *)
OthersKept ==
    [][\A r \in principles : r \notin principles' =>
          \/ \E x \in principles' : x.id = r.id
          \/ save.session = r.session]_principleVars
=============================================================================
