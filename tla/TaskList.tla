------------------------------ MODULE TaskList ------------------------------
(***************************************************************************)
(* The task tool (palaces/zhen_tool/builtin/exec/task.rs) and what a run   *)
(* makes of it: the task list shared by all sessions, the completion       *)
(* criteria that the session bus keeps for a session, and the VerifyTracker*)
(* of its run (plates/tian_heaven/loop.rs), which asks for a verification  *)
(* after a streak of tasks completed without one.                          *)
(***************************************************************************)
EXTENDS Naturals, FiniteSets, Sequences, FiniteSetsExt, SequencesExt

CONSTANTS
    TaskSessions,   \* sessions
    NudgeStreak,    \* VERIFY_NUDGE_STREAK
    MaxTasks,       \* MAX_TASKS
    Texts,          \* texts of criteria
    Includes,       \* Includes[t]: the texts that t contains, letter case aside
    MaxUpdates      \* bound: completions per run

ASSUME TaskListAssumption ==
    /\ NudgeStreak \in Nat \ {0} /\ MaxTasks \in Nat /\ MaxUpdates \in Nat
    /\ \A t \in Texts : t \in Includes[t]

VARIABLES
    tasks,      \* the statuses of the tasks, in the order of creation
    criteria,   \* completion_criteria: the list of every session
    tracker,    \* VerifyTracker of the run of every session
    named       \* criteria named by check_criterion since they were declared

taskVars == <<tasks, criteria, tracker, named>>

Statuses == {"pending", "in_progress", "completed", "deleted"}

NewTracker == [completions |-> 0, nudge |-> FALSE, done |-> 0]

TaskInit ==
    /\ tasks = << >>
    /\ criteria = [s \in TaskSessions |-> << >>]
    /\ tracker = [s \in TaskSessions |-> NewTracker]
    /\ named = [s \in TaskSessions |-> {}]

-----------------------------------------------------------------------------
(* create.  Deleted tasks keep their place in the list.                    *)
create ==
    /\ Len(tasks) < MaxTasks
    /\ tasks' = Append(tasks, "pending")
    /\ UNCHANGED <<criteria, tracker, named>>

(* Mutant: the streak goes on after the nudge.                             *)
note_task_completion_NoReset(t) ==
    [t EXCEPT !.completions = @ + 1, !.nudge = @ \/ t.completions + 1 >= NudgeStreak,
              !.done = @ + 1]

note_task_completion(t) ==
    LET n == t.completions + 1
    IN  [completions |-> IF n >= NudgeStreak THEN 0 ELSE n,
         nudge |-> t.nudge \/ n >= NudgeStreak,
         done |-> t.done + 1]

(* update, of any task of the daemon, by any session; the loop counts the  *)
(* calls that complete one.                                                *)
update_status(s, i, status) ==
    /\ tasks' = [tasks EXCEPT ![i] = status]
    /\ IF status # "completed" THEN UNCHANGED tracker
       ELSE /\ tracker[s].done < MaxUpdates
            /\ tracker' = [tracker EXCEPT ![s] = note_task_completion(@)]
    /\ UNCHANGED <<criteria, named>>

(* A test command, or a delegated Verifier; a nudge that waits stays.      *)
note_verification(s) ==
    /\ tracker' = [tracker EXCEPT ![s].completions = 0]
    /\ UNCHANGED <<tasks, criteria, named>>

(* The next request of the run takes the nudge.                            *)
TakeNudge(s) ==
    /\ tracker[s].nudge
    /\ tracker' = [tracker EXCEPT ![s].nudge = FALSE]
    /\ UNCHANGED <<tasks, criteria, named>>

-----------------------------------------------------------------------------
(* set_criteria replaces the list; every one is unchecked.                 *)
set_criteria(s, list) ==
    /\ criteria' = [criteria EXCEPT ![s] =
           [i \in DOMAIN list |-> [text |-> list[i], checked |-> FALSE]]]
    /\ named' = [named EXCEPT ![s] = {}]
    /\ UNCHANGED <<tasks, tracker>>

Unchecked(list) == {i \in DOMAIN list : ~list[i].checked}

(* Mutant: whatever contains the text is ticked, exact or not.             *)
MatchingTasks_Contains(list, t) ==
    {i \in Unchecked(list) : t \in Includes[list[i].text]}

(* check_criterion ticks the first unchecked criterion with this very      *)
(* text, else the first unchecked one that contains it.                    *)
MatchingTasks(list, t) ==
    LET exact == {i \in Unchecked(list) : list[i].text = t}
    IN  IF exact # {} THEN exact
        ELSE {i \in Unchecked(list) : t \in Includes[list[i].text]}

check_criterion(s, t) ==
    LET found == MatchingTasks(criteria[s], t)
    IN  /\ criteria' = IF found = {} THEN criteria
                       ELSE [criteria EXCEPT ![s][Min(found)].checked = TRUE]
        /\ named' = [named EXCEPT ![s] = @ \cup {t}]
        /\ UNCHANGED <<tasks, tracker>>

(* The sweep when the client goes; a later run has a new tracker.          *)
clear_criteria(s) ==
    /\ criteria' = [criteria EXCEPT ![s] = << >>]
    /\ named' = [named EXCEPT ![s] = {}]
    /\ tracker' = [tracker EXCEPT ![s] = [NewTracker EXCEPT !.done = tracker[s].done]]
    /\ UNCHANGED tasks

Lists == {<<t>> : t \in Texts} \cup {<<t, u>> : t \in Texts, u \in Texts}

TaskNext ==
    \/ create
    \/ \E s \in TaskSessions :
        \/ \E i \in DOMAIN tasks, st \in Statuses : update_status(s, i, st)
        \/ note_verification(s) \/ TakeNudge(s) \/ clear_criteria(s)
        \/ \E list \in Lists : set_criteria(s, list)
        \/ \E t \in Texts : check_criterion(s, t)

TaskSpec == TaskInit /\ [][TaskNext]_taskVars

-----------------------------------------------------------------------------
(* Type invariant.                                                         *)
TaskTypeOK ==
    /\ tasks \in Seq(Statuses) /\ Len(tasks) <= MaxTasks
    /\ tracker \in [TaskSessions -> [completions : 0..(NudgeStreak - 1),
                                     nudge : BOOLEAN, done : 0..MaxUpdates]]
    /\ \A s \in TaskSessions : named[s] \subseteq Texts

(* A criterion that was named in its own words is checked off: naming it   *)
(* never ticks another one in its place.                                   *)
NamedAreChecked ==
    \A s \in TaskSessions : \A i \in DOMAIN criteria[s] :
        (criteria[s][i].text \in named[s]) =>
            \E j \in DOMAIN criteria[s] :
                criteria[s][j].text = criteria[s][i].text /\ criteria[s][j].checked

-----------------------------------------------------------------------------
(***************************************************************************)
(* CompletionChecklist (plates/shen_spirit/completion_check.rs): the       *)
(* failed tests and the anomalies that the runs of all sessions observe,   *)
(* in buckets by session of which the daemon keeps a bounded number.       *)
(*                                                                         *)
(* The bucket of the hook (HOOK_BUCKET), assess and reset are left out:    *)
(* the hook that would fill it listens to a spirit to which the loop sends *)
(* no tool events, and nothing but the tests calls the other two.          *)
(***************************************************************************)

CONSTANTS
    VSessions,      \* sessions with a run
    MaxBuckets,     \* MAX_SESSION_VECTORS
    FailureLimit     \* bound: failed tests

ASSUME VerificationAssumption ==
    MaxBuckets \in Nat \ {0} /\ FailureLimit \in Nat

VARIABLES
    buckets,    \* map: session -> its CompletionVector
    order,      \* order: sessions, the longest untouched first
    failures,   \* the session of every failed test so far
    told,       \* the reminders put before the model, by session
    since       \* for every session: the others touched after it

verVars == <<buckets, order, failures, told, since>>

NewVector == [test_failures |-> << >>, anomaly_pending |-> FALSE]

VerInit ==
    /\ buckets = << >> /\ order = << >>
    /\ failures = << >>
    /\ told = [s \in VSessions |-> << >>]
    /\ since = [s \in VSessions |-> {}]

-----------------------------------------------------------------------------
(* Mutant: a bucket that is already there does not move to the end.        *)
touch_First(ord, s) == IF s \in ToSet(ord) THEN ord ELSE Append(ord, s)

(* SessionVectors: the map and the order in which it was touched.          *)
touch(ord, s) == Append(Remove(ord, s), s)

Touch(s) ==
    /\ order' = touch(order, s)
    /\ since' = [x \in VSessions |-> IF x = s THEN {} ELSE since[x] \cup {s}]

(* The keys that go when a bucket is made for s.                           *)
Evicted(s) ==
    IF s \in DOMAIN buckets \/ Len(order) < MaxBuckets THEN << >>
    ELSE SubSeq(order, 1, Len(order) - MaxBuckets + 1)

VectorOf(s) == IF s \in DOMAIN buckets THEN buckets[s] ELSE NewVector

(* The write path: the bucket of s, made if need be, becomes v.            *)
bucket(s, v) ==
    LET kept == DOMAIN buckets \ ToSet(Evicted(s))
    IN  /\ buckets' = [x \in kept \cup {s} |-> IF x = s THEN v ELSE buckets[x]]
        /\ order' = touch(SubSeq(order, Len(Evicted(s)) + 1, Len(order)), s)
        /\ since' = [x \in VSessions |-> IF x = s THEN {} ELSE since[x] \cup {s}]

(* The read path makes no bucket.                                          *)
bucket_if_present(s, v) ==
    IF s \in DOMAIN buckets
    THEN buckets' = [buckets EXCEPT ![s] = v] /\ Touch(s)
    ELSE UNCHANGED <<buckets, order, since>>

-----------------------------------------------------------------------------
(* What a settled shell call can be: no test command, or a test command    *)
(* whose output names failed cases, or names none and has an exit code     *)
(* other than 0 (or an error of the tool), or none of these.               *)
detect_test_command == {"cases", "exit code", "passed"}
parse_failed_cases(o) == o = "cases"
Failed(o) == parse_failed_cases(o) \/ o = "exit code"

(* The loop settles a call.  A test command that failed is remembered; one *)
(* that passed leaves no mark.                                             *)
ingest_test_command(s, o) ==
    /\ o \in detect_test_command /\ Failed(o)
    /\ Len(failures) < FailureLimit
    /\ failures' = Append(failures, s)
    /\ bucket(s, [VectorOf(s) EXCEPT !.anomaly_pending = TRUE,
                                     !.test_failures = Append(@, Len(failures) + 1)])
    /\ UNCHANGED told

(* The report of a Verifier says that the work fails.                      *)
note_verification_anomaly(s) ==
    /\ bucket(s, [VectorOf(s) EXCEPT !.anomaly_pending = TRUE])
    /\ UNCHANGED <<failures, told>>

(* Mutant: the reminders are read, and not drained.                        *)
Drained_Kept(v) == v

Drained(v) == [v EXCEPT !.test_failures = << >>]

Pending(s) == IF s \in DOMAIN buckets THEN buckets[s].test_failures ELSE << >>

(* Before it asks the model the loop takes the reminders of its session,   *)
(* and after the answer the anomaly.                                       *)
take_test_failure_reminders(s) ==
    /\ bucket_if_present(s, Drained(VectorOf(s)))
    /\ told' = [told EXCEPT ![s] = @ \o Pending(s)]
    /\ UNCHANGED failures

take_verification_anomaly(s) ==
    /\ bucket_if_present(s, [VectorOf(s) EXCEPT !.anomaly_pending = FALSE])
    /\ UNCHANGED <<failures, told>>

(* Mutant: the key stays in the order.                                     *)
end_session_KeepsOrder(s) ==
    /\ buckets' = [x \in DOMAIN buckets \ {s} |-> buckets[x]]
    /\ UNCHANGED <<order, failures, told, since>>

(* The sweep when the client goes.                                         *)
end_session(s) ==
    /\ buckets' = [x \in DOMAIN buckets \ {s} |-> buckets[x]]
    /\ order' = Remove(order, s)
    /\ UNCHANGED <<failures, told, since>>

VerNext ==
    \E s \in VSessions :
        \/ \E o \in {"none"} \cup detect_test_command : ingest_test_command(s, o)
        \/ note_verification_anomaly(s)
        \/ take_test_failure_reminders(s) \/ take_verification_anomaly(s)
        \/ end_session(s)

VerSpec == VerInit /\ [][VerNext]_verVars

-----------------------------------------------------------------------------
(* Type invariant.                                                         *)
VerTypeOK ==
    /\ DOMAIN buckets \subseteq VSessions
    /\ \A s \in DOMAIN buckets :
           /\ ToSet(buckets[s].test_failures) \subseteq DOMAIN failures
           /\ buckets[s].anomaly_pending \in BOOLEAN
    /\ order \in Seq(VSessions)

(* completion_check.rs says that the map and the order always agree: no    *)
(* eviction can miss, which bounds the memory of a long-lived daemon.      *)
VectorsBounded ==
    /\ ToSet(order) = DOMAIN buckets
    /\ Len(order) = Cardinality(DOMAIN buckets)
    /\ Len(order) <= MaxBuckets

(* The failures of one session never reach another, and the model is       *)
(* reminded of each one once at most, in the order in which they happened. *)
RemindedOnce ==
    \A s \in VSessions :
        LET seen == told[s] \o Pending(s)
        IN  /\ \A i \in DOMAIN seen : failures[seen[i]] = s
            /\ \A i, j \in DOMAIN seen : i < j => seen[i] < seen[j]

(* A failure is forgotten only with its session, or when as many other     *)
(* sessions as there are buckets were heard of after it.                   *)
ForgottenOnlyIfCrowded ==
    [][\A s \in DOMAIN buckets :
           s \in DOMAIN buckets' \/ Cardinality(since'[s]) >= MaxBuckets
               \/ end_session(s)]_verVars
=============================================================================
