-------------------------------- MODULE Cron --------------------------------
(***************************************************************************)
(* Scheduled jobs: the store in memory with one file per job               *)
(* (zhen_tool/builtin/cron/mod.rs), the runner that looks at the jobs      *)
(* every 15 seconds (cron_runner.rs), the operations of tool and gateway,  *)
(* edits of the files by hand, and the agent a job starts                  *)
(* (tian_heaven/spawn.rs).                                                 *)
(*                                                                         *)
(* One unit of time is a tick of the runner.  A schedule is its minute     *)
(* field, or the time of a one-shot job; an update may replace it by       *)
(* another, "other", that is not due within the bound on time.            *)
(***************************************************************************)
EXTENDS Integers, Sequences, FiniteSets, Selection

CONSTANTS
    Wanted,      \* job name -> [trigger, field or at, cooldown, jitter]
    Minute,      \* ticks of a minute (4)
    Dedup,       \* ticks in which a job does not fire again (3)
    Grace,       \* ticks a one-shot job may be late at a start (8)
    Horizon,     \* bound: ticks
    MaxChanges,  \* bound: operations and edits
    MaxReboots   \* bound: crashes

ASSUME CronAssumption ==
    /\ Minute \in Nat \ {0} /\ Dedup \in Nat /\ Grace \in Nat /\ Horizon \in Nat
    /\ MaxChanges \in Nat /\ MaxReboots \in Nat
    /\ IsFiniteSet(DOMAIN Wanted)
    /\ \A n \in DOMAIN Wanted :
          /\ Wanted[n].cooldown \in Nat /\ Wanted[n].jitter \in Nat
          /\ Wanted[n].trigger = "once" => Wanted[n].at \in Int

JobNames == DOMAIN Wanted
Never == -1
NoJob == [there |-> FALSE]

VARIABLES
    jobs,      \* CronStore.jobs
    files,     \* the file of each job
    cached,    \* mtimes: "none", "same" as the file's, or "older"
    clock,
    runner,    \* the runner's loop
    agents,    \* job -> the agent it started last
    credit,    \* history: firings a one-shot job is still owed
    spawned,   \* history: when the job last started an agent in this life
    changes, reboots

cronVars == <<jobs, files, cached, clock, runner, agents, credit, spawned, changes, reboots>>
storeVars == <<jobs, files, cached>>

NewJob == [there |-> TRUE, enabled |-> TRUE, fired |-> Never, schedule |-> "asked"]
IdleRunner == [pc |-> "idle", ticked |-> Never, todo |-> <<>>, wake |-> 0]
NoAgent == [pc |-> "none", text |-> <<>>, anchor |-> 0]

CronInit ==
    /\ jobs \in [JobNames -> {NoJob, NewJob}] /\ files = jobs
    /\ cached = [n \in JobNames |-> IF jobs[n].there THEN "same" ELSE "none"]
    /\ clock = 0
    /\ runner = IdleRunner
    /\ agents = [n \in JobNames |-> NoAgent]
    /\ credit = [n \in JobNames |-> IF jobs[n].there THEN 1 ELSE 0]
    /\ spawned = [n \in JobNames |-> Never]
    /\ changes = 0 /\ reboots = 0

-----------------------------------------------------------------------------
(* When a job is due.                                                      *)

Once(n) == Wanted[n].trigger = "once"

field_matches(field, current) ==
    CASE field.kind = "any" -> TRUE
      [] field.kind = "step" -> field.n > 0 /\ current % field.n = 0
      [] field.kind = "exact" -> field.n = current

(* The jitter of a one-shot job lets it fire early, never late.            *)
once_matches(n) == clock >= Wanted[n].at - Wanted[n].jitter

matches_now(n, seen) ==
    /\ seen.schedule = "asked"
    /\ IF Once(n) THEN once_matches(n) ELSE field_matches(Wanted[n].field, clock \div Minute)

(* The ticks of one minute, and the cooldown of a recurring job.           *)
Held(n, seen) ==
    /\ seen.fired # Never
    /\ \/ runner.ticked - seen.fired < Dedup
       \/ ~Once(n) /\ runner.ticked - seen.fired < Wanted[n].cooldown

-----------------------------------------------------------------------------
(* The store: memory under its lock, then the file and its mtime.          *)

persist_one(n, job) ==
    /\ files' = [files EXCEPT ![n] = job]
    /\ cached' = [cached EXCEPT ![n] = "same"]

Change == changes < MaxChanges /\ changes' = changes + 1
Owed(n) == credit' = [credit EXCEPT ![n] = @ + 1]

add(n) ==
    /\ Change /\ Owed(n)
    /\ jobs' = [jobs EXCEPT ![n] = NewJob] /\ persist_one(n, NewJob)
    /\ spawned' = [spawned EXCEPT ![n] = Never]
    /\ UNCHANGED <<clock, runner, agents, reboots>>

remove(n) ==
    /\ Change /\ jobs[n].there
    /\ jobs' = [jobs EXCEPT ![n] = NoJob]
    /\ files' = [files EXCEPT ![n] = NoJob]
    /\ cached' = [cached EXCEPT ![n] = "none"]
    /\ spawned' = [spawned EXCEPT ![n] = Never]
    /\ UNCHANGED <<clock, runner, agents, credit, reboots>>

set_enabled(n, enabled) ==
    LET job == [jobs[n] EXCEPT !.enabled = enabled]
    IN  jobs' = [jobs EXCEPT ![n] = job] /\ persist_one(n, job)

Switch(n, enabled) ==
    /\ Change /\ jobs[n].there /\ set_enabled(n, enabled)
    /\ IF enabled THEN Owed(n) ELSE UNCHANGED credit
    /\ UNCHANGED <<clock, runner, agents, spawned, reboots>>

(* A new schedule must have five fields, for a one-shot job too, which is  *)
(* then never due: it is no date.                                          *)
update(n, schedule) ==
    LET job == [jobs[n] EXCEPT !.schedule = schedule]
    IN  /\ Change /\ jobs[n].there
        /\ schedule \in {jobs[n].schedule, "other"} \cup (IF Once(n) THEN {} ELSE {"asked"})
        /\ jobs' = [jobs EXCEPT ![n] = job] /\ persist_one(n, job)
        /\ UNCHANGED <<clock, runner, agents, credit, spawned, reboots>>

(* What the agent's tool may do, and what a user may do besides.           *)
execute(n) == add(n) \/ remove(n) \/ \E b \in BOOLEAN : Switch(n, b)
handle_cron_manage(n) == execute(n) \/ \E s \in {"asked", "other"} : update(n, s)

(* A file is written by hand, from a copy whose last_fired_at may be old.  *)
(* In the second of the last write the change of mtime goes unnoticed.     *)
EditFile(n, enabled, fired, noticed) ==
    /\ Change
    /\ fired \in {Never} \cup (IF files[n].there THEN {files[n].fired} ELSE {})
    /\ files' = [files EXCEPT ![n] = [NewJob EXCEPT !.enabled = enabled, !.fired = fired]]
    /\ cached' = [cached EXCEPT ![n] = IF @ = "same" /\ noticed THEN "older" ELSE @]
    /\ IF enabled THEN Owed(n) ELSE UNCHANGED credit
    /\ UNCHANGED <<jobs, clock, runner, agents, spawned, reboots>>

DeleteFile(n) ==
    /\ Change /\ files[n].there
    /\ files' = [files EXCEPT ![n] = NoJob]
    /\ UNCHANGED <<jobs, cached, clock, runner, agents, credit, spawned, reboots>>

(* Mutant: a changed file replaces the job, last_fired_at included.        *)
upsert_Replace(n) == files[n]

(* into_job and upsert: a job in memory keeps its last_fired_at.           *)
upsert(n) == IF jobs[n].there THEN [files[n] EXCEPT !.fired = jobs[n].fired] ELSE files[n]

-----------------------------------------------------------------------------
(* The runner.                                                             *)

(* scan_changes_sync and what the runner makes of it.                      *)
Scan ==
    /\ runner.pc = "idle" /\ runner.ticked < clock
    /\ jobs' = [n \in JobNames |->
         CASE ~files[n].there /\ cached[n] # "none" -> NoJob
           [] files[n].there /\ cached[n] # "same" -> upsert(n)
           [] OTHER -> jobs[n]]
    /\ cached' = [n \in JobNames |-> IF files[n].there THEN "same" ELSE "none"]
    /\ runner' = [runner EXCEPT !.pc = "scanned", !.ticked = clock]
    /\ spawned' = [n \in JobNames |-> IF jobs'[n].there THEN spawned[n] ELSE Never]
    /\ UNCHANGED <<files, clock, agents, credit, changes, reboots>>

(* enabled_jobs: a copy, in the order of the store.                        *)
enabled_jobs(order) ==
    /\ runner.pc = "scanned"
    /\ runner' = [runner EXCEPT !.pc = "list",
         !.todo = At([i \in DOMAIN order |-> [name |-> order[i], job |-> jobs[order[i]]]],
                     {i \in DOMAIN order : jobs[order[i]].there /\ jobs[order[i]].enabled})]
    /\ UNCHANGED <<storeVars, clock, agents, credit, spawned, changes, reboots>>

Due == runner.todo # <<>> /\ matches_now(Head(runner.todo).name, Head(runner.todo).job)
                          /\ ~Held(Head(runner.todo).name, Head(runner.todo).job)

Skip ==
    /\ runner.pc = "list" /\ ~Due
    /\ runner' = IF runner.todo = <<>> THEN [runner EXCEPT !.pc = "idle"]
                 ELSE [runner EXCEPT !.todo = Tail(@)]
    /\ UNCHANGED <<storeVars, clock, agents, credit, spawned, changes, reboots>>

(* The firing is recorded before the jitter delays it; a job that was      *)
(* removed meanwhile is fired without a record.                            *)
record_fired ==
    LET n == Head(runner.todo).name
        job == [jobs[n] EXCEPT !.fired = clock]
    IN  /\ runner.pc = "list" /\ Due
        /\ IF jobs[n].there THEN jobs' = [jobs EXCEPT ![n] = job] /\ persist_one(n, job)
                            ELSE UNCHANGED storeVars
        /\ runner' = [runner EXCEPT !.pc = "fires",
                        !.wake = clock + (IF Once(n) THEN 0 ELSE Wanted[n].jitter)]
        /\ UNCHANGED <<clock, agents, credit, spawned, changes, reboots>>

(* Mutant: a one-shot job stays enabled.                                   *)
Disabled_Not(n) == FALSE

Disabled(n) == Once(n) /\ jobs[n].there

SpawnAgent ==
    LET n == Head(runner.todo).name
    IN  /\ runner.pc = "fires" /\ clock >= runner.wake
        /\ agents[n].pc \in {"none", "ended"}    \* bound: one agent of a job
        /\ agents' = [agents EXCEPT ![n] = [NoAgent EXCEPT !.pc = "runs"]]
        /\ spawned' = [spawned EXCEPT ![n] =
             IF jobs[n].there /\ jobs[n].fired # Never THEN clock ELSE Never]
        /\ credit' = [credit EXCEPT ![n] = @ - 1]
        /\ IF Disabled(n) THEN set_enabled(n, FALSE) ELSE UNCHANGED storeVars
        /\ runner' = [runner EXCEPT !.pc = "list", !.todo = Tail(@)]
        /\ UNCHANGED <<clock, changes, reboots>>

(* The runner is on time: a tick is not missed while it is idle.           *)
Pass ==
    /\ clock < Horizon
    /\ \/ runner.pc = "idle" /\ runner.ticked = clock
       \/ runner.pc = "fires" /\ clock < runner.wake
    /\ clock' = clock + 1
    /\ UNCHANGED <<storeVars, runner, agents, credit, spawned, changes, reboots>>

-----------------------------------------------------------------------------
(* Crash and start: the files are loaded, and one-shot jobs whose time has *)
(* passed are disabled before the first tick.                              *)

Missed(n, later) == Once(n) /\ files[n].schedule = "asked" /\ Wanted[n].at + Grace < later

detect_and_notify_missed(n, later) ==
    IF files[n].there /\ files[n].enabled /\ Missed(n, later)
    THEN [files[n] EXCEPT !.enabled = FALSE] ELSE files[n]

Reboot(later) ==
    /\ reboots < MaxReboots /\ reboots' = reboots + 1
    /\ later \in clock..Horizon /\ clock' = later
    /\ jobs' = [n \in JobNames |-> detect_and_notify_missed(n, later)]
    /\ files' = jobs'
    /\ cached' = [n \in JobNames |-> IF files[n].there THEN "same" ELSE "none"]
    /\ runner' = [IdleRunner EXCEPT !.ticked = later - 1]
    /\ agents' = [n \in JobNames |-> NoAgent]
    /\ credit' = [n \in JobNames |-> IF files[n].there /\ files[n].enabled
                                       /\ (Once(n) => later <= Wanted[n].at + Grace)
                                     THEN 1 ELSE 0]
    /\ spawned' = [n \in JobNames |-> Never]
    /\ UNCHANGED changes

-----------------------------------------------------------------------------
(* spawn_cron_agent: the collector of the agent's events, and its end.     *)
(* The text is the sequence of its attempts: 0 one that failed, 2 an error.*)

agentRest == <<storeVars, clock, runner, credit, spawned, changes, reboots>>

(* Mutant: a retry leaves the text of the failed attempt.                  *)
Rollback_Keep(a) == a.text

(* Mutant: one delta too many is taken back.                               *)
Rollback_OneMore(a) == SubSeq(a.text, 1, a.anchor - 1)

Rollback(a) == SubSeq(a.text, 1, a.anchor)

CronStream(n, good) ==
    LET a == agents[n]
        text == Append(a.text, IF good THEN 1 ELSE 0)
    IN  /\ a.pc = "runs" /\ (good => Len(a.text) < 1)    \* bound: its text
        /\ agents' = [agents EXCEPT ![n] =
             IF good THEN [a EXCEPT !.text = text, !.anchor = Len(text)]
             ELSE [a EXCEPT !.text = Rollback([a EXCEPT !.text = text])]]
        /\ UNCHANGED agentRest

(* Done, or an Error that takes the place of the text; the response is     *)
(* stored with the job, written to a file and announced.                   *)
CronEnd(n, error) ==
    /\ agents[n].pc = "runs"
    /\ agents' = [agents EXCEPT ![n] = [pc |-> "ended", anchor |-> 0,
                     text |-> IF error THEN <<2>> ELSE @.text]]
    /\ UNCHANGED agentRest

(* Mutant: an agent may run for ever.                                      *)
CronTimeout_None(n) == FALSE /\ UNCHANGED cronVars

(* After ten minutes the run is dropped, without a word.                   *)
CronTimeout(n) ==
    /\ agents[n].pc = "runs"
    /\ agents' = [agents EXCEPT ![n] = [NoAgent EXCEPT !.pc = "ended"]]
    /\ UNCHANGED agentRest

CronOps(n) ==
    \/ handle_cron_manage(n) \/ DeleteFile(n)
    \/ \E b, c \in BOOLEAN, f \in {Never} \cup 0..Horizon : EditFile(n, b, f, c)

Runner ==
    \/ Scan \/ Skip \/ record_fired \/ SpawnAgent \/ Pass
    \/ \E order \in {o \in [1..Cardinality(JobNames) -> JobNames] :
                        \A i, j \in DOMAIN o : o[i] = o[j] => i = j} : enabled_jobs(order)

CronNext ==
    \/ Runner
    \/ \E later \in 0..Horizon : Reboot(later)
    \/ \E n \in JobNames :
        \/ CronOps(n) \/ CronTimeout(n)
        \/ \E b \in BOOLEAN : CronStream(n, b) \/ CronEnd(n, b)

CronSpec == CronInit /\ [][CronNext]_cronVars

(* What time alone brings about.                                           *)
CronFair == Runner \/ \E n \in JobNames : CronTimeout(n)

-----------------------------------------------------------------------------
(* Type invariant of store, runner and agents.                             *)
CronTypeOK ==
    /\ \A n \in JobNames :
        /\ jobs[n] # NoJob => jobs[n].fired \in Never..Horizon /\ jobs[n].enabled \in BOOLEAN
        /\ cached[n] \in {"none", "same", "older"}
        /\ agents[n].pc \in {"none", "runs", "ended"} /\ agents[n].anchor <= Len(agents[n].text)
    /\ runner.pc \in {"idle", "scanned", "list", "fires"}

(* A job never starts a second agent within the ticks of one minute, nor,  *)
(* when it recurs, within its cooldown: whatever is edited, reloaded,      *)
(* switched off and on or delayed by jitter in between.                    *)
FiringsApart ==
    [][\A n \in JobNames : SpawnAgent /\ spawned'[n] # spawned[n] /\ spawned[n] # Never =>
        clock - spawned[n] >= (IF Once(n) THEN Dedup
                               ELSE IF Dedup > Wanted[n].cooldown THEN Dedup
                               ELSE Wanted[n].cooldown)]_cronVars

(* A one-shot job fires once for each time that it was added or switched   *)
(* on, and not at all when its time passed while the daemon was down.      *)
OneShotOnce == \A n \in JobNames : Once(n) => credit[n] >= 0

(* What an agent leaves holds no text of an attempt that failed.           *)
FailedTextGone == \A n \in JobNames : \A i \in DOMAIN agents[n].text : agents[n].text[i] # 0

(* Every agent of a job ends, and the runner comes back to its jobs.       *)
CronAgentsEnd == \A n \in JobNames : agents[n].pc = "runs" ~> agents[n].pc # "runs"

(* Jobs fire as they were asked to: a one-shot once, the others no closer  *)
(* than their cooldown allows, through reloads and restarts; and what an   *)
(* agent leaves is from the attempt that succeeded.                        *)
JobsFireRight == [](CronTypeOK /\ OneShotOnce /\ FailedTextGone) /\ FiringsApart
=============================================================================
