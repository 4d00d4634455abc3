-------------------------- MODULE BackgroundTasks --------------------------
(***************************************************************************)
(* Background tasks: the store of zhen_tool/builtin/exec/background_task,  *)
(* the shell tool and delegate that put tasks into it, the loops that tell *)
(* the model of tasks that ended, and the snapshot by which a daemon finds *)
(* the tasks it lost in a crash.                                           *)
(***************************************************************************)
EXTENDS Integers, Sequences, FiniteSets

CONSTANTS
    TaskIds,      \* ids of tasks
    Loops,        \* agent loops that look for finished tasks
    MaxCrashes    \* bound: crashes of the daemon

ASSUME BackgroundAssumption == MaxCrashes \in Nat

VARIABLES
    bg,        \* the store: id -> status and notified flag, status "absent"
    process,   \* id -> what the task's command or sub-agent does
    snapshot,  \* background_tasks.json: ids, on disk
    unsaved,   \* somebody changed the store and has not yet persisted it
    seen,      \* loop -> tasks its list of finished tasks still holds
    told,      \* id -> statuses of which a loop has told the model
    crashes,
    command    \* a foreground shell command: its own state and how often it
               \* has been started

bgVars == <<bg, process, snapshot, unsaved, seen, told, crashes, command>>

Terminal == {"completed", "failed", "killed", "lost"}
is_terminal(t) == bg[t].status \in Terminal
Absent == [status |-> "absent", notified |-> FALSE]
Running == {t \in TaskIds : bg[t].status = "running"}

BgInit ==
    /\ bg = [t \in TaskIds |-> Absent]
    /\ process = [t \in TaskIds |-> "none"]
    /\ snapshot = {}
    /\ unsaved = FALSE
    /\ seen = [l \in Loops |-> {}]
    /\ told = [t \in TaskIds |-> <<>>]
    /\ crashes = 0
    /\ command = [state |-> "idle", starts |-> 0]

-----------------------------------------------------------------------------
(* The store.  A change is made under the lock, persist_snapshot follows   *)
(* in a step of its own and writes what the store then holds.              *)

(* Mutant: the snapshot is taken of the tasks that ended.                  *)
persist_snapshot_Ended ==
    /\ unsaved
    /\ snapshot' = {t \in TaskIds : bg[t].status \in {"completed", "failed"}}
    /\ unsaved' = FALSE
    /\ UNCHANGED <<bg, process, seen, told, crashes, command>>

persist_snapshot ==
    /\ unsaved
    /\ snapshot' = Running
    /\ unsaved' = FALSE
    /\ UNCHANGED <<bg, process, seen, told, crashes, command>>

register(t) ==
    /\ bg[t].status = "absent" /\ process[t] = "none" /\ told[t] = <<>>
    /\ bg' = [bg EXCEPT ![t] = [status |-> "running", notified |-> FALSE]]
    /\ process' = [process EXCEPT ![t] = "running"]
    /\ unsaved' = TRUE

(* spawn_shell_background, and delegate with run_in_background.            *)
Spawn(t) == register(t) /\ UNCHANGED <<snapshot, seen, told, crashes, command>>

(* Mutant: a task that was killed is overwritten when its process ends.    *)
update_status_Always(t, status) ==
    IF bg[t].status # "absent"
    THEN bg' = [bg EXCEPT ![t].status = status] /\ unsaved' = TRUE
    ELSE UNCHANGED <<bg, unsaved>>

update_status(t, status) ==
    IF bg[t].status # "absent" /\ ~is_terminal(t)
    THEN bg' = [bg EXCEPT ![t].status = status] /\ unsaved' = TRUE
    ELSE UNCHANGED <<bg, unsaved>>

(* The command or the sub-agent ends: its output is written, then the      *)
(* status.                                                                 *)
Exit(t, status) ==
    /\ process[t] = "running"
    /\ process' = [process EXCEPT ![t] = "ended"]
    /\ update_status(t, status)
    /\ UNCHANGED <<snapshot, seen, told, crashes, command>>

(* kill marks the task; its process is not touched.  Whoever kills it      *)
(* knows: no loop tells of it.                                             *)
kill(t) ==
    /\ bg[t].status = "running"
    /\ bg' = [bg EXCEPT ![t] = [status |-> "killed", notified |-> TRUE]]
    /\ unsaved' = TRUE
    /\ told' = [told EXCEPT ![t] = Append(@, "killed")]
    /\ UNCHANGED <<process, snapshot, seen, crashes, command>>

-----------------------------------------------------------------------------
(* Before each LLM call a loop lists the finished tasks nobody was told    *)
(* of, claims them one by one, and then evicts what is done.               *)

Unnotified == {t \in TaskIds : is_terminal(t) /\ ~bg[t].notified}

unnotified_terminal_tasks(l) ==
    /\ seen[l] = {} /\ Unnotified # {}
    /\ seen' = [seen EXCEPT ![l] = Unnotified]
    /\ UNCHANGED <<bg, process, snapshot, unsaved, told, crashes, command>>

(* Mutant: the claim does not look at the flag.                            *)
Claimed_Always(t) == bg[t].status # "absent"

(* mark_notified returns whether this loop won.                            *)
Claimed(t) == bg[t].status # "absent" /\ ~bg[t].notified

mark_notified(l, t) ==
    /\ t \in seen[l]
    /\ seen' = [seen EXCEPT ![l] = @ \ {t}]
    /\ IF Claimed(t)
       THEN /\ bg' = [bg EXCEPT ![t].notified = TRUE]
            /\ told' = [told EXCEPT ![t] = Append(@, bg[t].status)]
       ELSE UNCHANGED <<bg, told>>
    /\ UNCHANGED <<process, snapshot, unsaved, crashes, command>>

(* Mutant: every finished task is evicted, told of or not.                 *)
Evictable_Terminal == {t \in TaskIds : is_terminal(t)}

Evictable == {t \in TaskIds : is_terminal(t) /\ bg[t].notified}

(* After its last claim the loop evicts; another loop may be in between    *)
(* its list and its claims.                                                *)
evict(l) ==
    /\ seen[l] = {} /\ Evictable # {}
    /\ bg' = [t \in TaskIds |-> IF t \in Evictable THEN Absent ELSE bg[t]]
    /\ UNCHANGED <<process, snapshot, unsaved, seen, told, crashes, command>>

-----------------------------------------------------------------------------
(* A crash loses the store; the next start finds the snapshot, marks its   *)
(* tasks lost and removes the file.                                        *)

hydrate_and_mark_lost ==
    bg' = [t \in TaskIds |-> IF t \in snapshot
                             THEN [status |-> "lost", notified |-> FALSE] ELSE Absent]

CrashAndRestart ==
    /\ crashes < MaxCrashes
    /\ crashes' = crashes + 1
    /\ hydrate_and_mark_lost
    /\ snapshot' = {}
    /\ unsaved' = FALSE
    /\ seen' = [l \in Loops |-> {}]
    /\ process' = [t \in TaskIds |-> IF process[t] = "none" THEN "none" ELSE "ended"]
    /\ command' = [command EXCEPT !.state = "idle"]
    /\ UNCHANGED told

-----------------------------------------------------------------------------
(* A command that the shell tool runs in the foreground.  After            *)
(* AUTO_BACKGROUND_SECS its handle is dropped, which leaves it running,    *)
(* and the command is spawned once more as a background task.              *)

Foreground ==
    /\ command.state = "idle" /\ command.starts = 0
    /\ command' = [state |-> "running", starts |-> 1]
    /\ UNCHANGED <<bg, process, snapshot, unsaved, seen, told, crashes>>

ForegroundEnds ==
    /\ command.state \in {"running", "detached"}
    /\ command' = [command EXCEPT !.state = "ended"]
    /\ UNCHANGED <<bg, process, snapshot, unsaved, seen, told, crashes>>

AutoBackground(t) ==
    /\ command.state = "running"
    /\ command' = [state |-> "detached", starts |-> command.starts + 1]
    /\ register(t)
    /\ UNCHANGED <<snapshot, seen, told, crashes>>

BgNext ==
    \/ persist_snapshot
    \/ \E t \in TaskIds :
        \/ Spawn(t) \/ kill(t) \/ AutoBackground(t)
        \/ \E status \in {"completed", "failed"} : Exit(t, status)
    \/ \E l \in Loops :
        \/ unnotified_terminal_tasks(l) \/ evict(l)
        \/ \E t \in TaskIds : mark_notified(l, t)
    \/ CrashAndRestart
    \/ Foreground \/ ForegroundEnds

BgSpec == BgInit /\ [][BgNext]_bgVars

-----------------------------------------------------------------------------
(* Type invariant of the task store.                                       *)
BgTypeOK ==
    /\ bg \in [TaskIds -> [status : Terminal \cup {"absent", "running"}, notified : BOOLEAN]]
    /\ process \in [TaskIds -> {"none", "running", "ended"}]
    /\ snapshot \subseteq TaskIds /\ unsaved \in BOOLEAN
    /\ seen \in [Loops -> SUBSET TaskIds]

(* Two loops that find the same finished task tell the model of it once;   *)
(* after a crash that came between the change and its snapshot the task is *)
(* reported once more, as lost, and never again.                           *)
ToldOnce ==
    \A t \in TaskIds : Len(told[t]) <= 1 \/ (Len(told[t]) = 2 /\ told[t][2] = "lost")

(* While the daemon does not crash, a task that ended waits in the store   *)
(* until a loop has told of it (or somebody has killed it).                *)
NotForgotten ==
    crashes = 0 =>
        \A t \in TaskIds : process[t] = "ended" =>
            told[t] # <<>> \/ (is_terminal(t) /\ ~bg[t].notified)

(* What runs is on disk, or about to be written: a crash finds it.         *)
RunningOnDisk == unsaved \/ Running = snapshot

(* A task that ended stays as it ended: neither a late exit after a kill   *)
(* nor a kill after the exit changes its status (update_status and kill).  *)
EndedStaysEnded ==
    [][\A t \in TaskIds : is_terminal(t) =>
            bg'[t].status = bg[t].status \/ bg'[t].status = "absent"
            \/ crashes' # crashes]_bgVars

(* The end of a background task is told, once, and is final; the snapshot  *)
(* on disk names the tasks that a crash would lose.                        *)
TasksTold == [](BgTypeOK /\ ToldOnce /\ NotForgotten /\ RunningOnDisk) /\ EndedStaysEnded
=============================================================================
