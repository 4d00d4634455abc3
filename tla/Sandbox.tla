------------------------------ MODULE Sandbox -------------------------------
(***************************************************************************)
(* The execution sandboxes of palaces/qian_permission: which backend is    *)
(* chosen and built (mod.rs), and how a backend runs one shell command     *)
(* with a deadline over a group of processes (sandbox_process.rs,          *)
(* sandbox_landlock.rs, sandbox_seatbelt.rs).  What a backend restricts is *)
(* left to the kernel.                                                     *)
(***************************************************************************)
EXTENDS Naturals, FiniteSets

CONSTANTS
    Leader,         \* the shell
    Children,       \* processes that it may start
    RunTimeout,        \* ticks of timeout
    Grace           \* ticks between SIGTERM and SIGKILL

ASSUME SandboxAssumption ==
    Leader \notin Children /\ RunTimeout \in Nat /\ Grace \in Nat

VARIABLES
    host,       \* platform, what is installed and built, the preference
    backend,    \* the backend that runs commands
    procs,      \* the processes: alive, in the group, holding the pipes, stubborn
    done,       \* the flag that the waiting thread sets
    run,        \* the place of run_sandboxed, and the ticks that passed
    outcome     \* what the run returned

sandboxVars == <<host, backend, procs, done, run, outcome>>

Hosts == [platform : {"linux", "macos"}, docker_up : BOOLEAN, docker_built : BOOLEAN,
          os_sandbox : BOOLEAN, preferred : {"Docker", "Landlock", "Seatbelt", "Process"}]

docker_available(h) == h.docker_up
landlock_available(h) == h.platform = "linux" /\ h.os_sandbox
seatbelt_available(h) == h.platform = "macos" /\ h.os_sandbox

(* Mutant: a preference that is not available ends the search.             *)
Fallback_None(h) == "Process"

(* Docker, then the sandbox of the platform, then rlimits only.            *)
Fallback(h) ==
    CASE h.docker_built /\ docker_available(h) -> "Docker"
      [] ~(h.docker_built /\ docker_available(h)) /\ landlock_available(h) -> "Landlock"
      [] ~(h.docker_built /\ docker_available(h)) /\ seatbelt_available(h) -> "Seatbelt"
      [] OTHER -> "Process"

auto_select(h) ==
    IF \/ h.preferred = "Docker" /\ docker_available(h)
       \/ h.preferred = "Landlock" /\ landlock_available(h)
       \/ h.preferred = "Seatbelt" /\ seatbelt_available(h)
    THEN h.preferred ELSE Fallback(h)

(* A backend that was chosen and is not built is replaced by Process.      *)
with_sandbox(h) ==
    IF auto_select(h) = "Docker" /\ ~h.docker_built THEN "Process" ELSE auto_select(h)

-----------------------------------------------------------------------------
All == {Leader} \cup Children
Absent == [alive |-> FALSE, grouped |-> TRUE, pipe |-> FALSE, stubborn |-> FALSE]

SandboxInit ==
    /\ host \in Hosts
    /\ backend = with_sandbox(host)
    /\ \E stubborn \in BOOLEAN :
           procs = [p \in All |-> IF p = Leader
                        THEN [alive |-> TRUE, grouped |-> TRUE, pipe |-> TRUE,
                              stubborn |-> stubborn]
                        ELSE Absent]
    /\ done = FALSE
    /\ run = [at |-> "poll", ticks |-> 0]
    /\ outcome = "none"

(* The command: children inherit the group and the pipes; one may turn     *)
(* its output elsewhere, leave the group, or end.                          *)
Fork(p, c) ==
    /\ procs[p].alive /\ c \in Children /\ procs[c] = Absent
    /\ \E stubborn \in BOOLEAN : procs' = [procs EXCEPT ![c] = [procs[p] EXCEPT !.stubborn = stubborn]]
    /\ UNCHANGED <<host, backend, done, run, outcome>>

Redirect(p) ==
    /\ procs[p].alive /\ procs[p].pipe
    /\ procs' = [procs EXCEPT ![p].pipe = FALSE]
    /\ UNCHANGED <<host, backend, done, run, outcome>>

Setsid(p) ==
    /\ procs[p].alive /\ p # Leader
    /\ procs' = [procs EXCEPT ![p].grouped = FALSE]
    /\ UNCHANGED <<host, backend, done, run, outcome>>

Dead(q) == [q EXCEPT !.alive = FALSE, !.pipe = FALSE]

Exit(p) ==
    /\ procs[p].alive
    /\ procs' = [procs EXCEPT ![p] = Dead(@)]
    /\ UNCHANGED <<host, backend, done, run, outcome>>

(* The thread of wait_with_output: both pipes are at their end and the     *)
(* shell was waited for.                                                   *)
Finished == ~procs[Leader].alive /\ \A p \in All : ~procs[p].pipe

WaitWithOutput ==
    /\ ~done /\ Finished
    /\ done' = TRUE
    /\ UNCHANGED <<host, backend, procs, run, outcome>>

-----------------------------------------------------------------------------
(* Mutant: the signal goes to the shell alone.                             *)
Signalled_Leader == {Leader}

(* kill(-pgid): whoever is in the group.                                   *)
Signalled == {p \in All : procs[p].alive /\ procs[p].grouped}

(* The polling loop: the flag is looked at first, then the clock.          *)
Poll ==
    /\ run.at = "poll"
    /\ IF done THEN outcome' = "output" /\ run' = [run EXCEPT !.at = "returned"]
       ELSE run.ticks < RunTimeout /\ run' = [run EXCEPT !.ticks = @ + 1] /\ UNCHANGED outcome
    /\ UNCHANGED <<host, backend, procs, done>>

Expired == run.at = "poll" /\ ~done /\ run.ticks = RunTimeout

Killed == [p \in All |-> IF p \in Signalled THEN Dead(procs[p]) ELSE procs[p]]

(* run_sandboxed: SIGTERM, and a grace period.                             *)
Terminate ==
    /\ Expired /\ backend = "Process"
    /\ procs' = [p \in All |-> IF procs[p].stubborn THEN procs[p] ELSE Killed[p]]
    /\ run' = [at |-> "grace", ticks |-> 0]
    /\ UNCHANGED <<host, backend, done, outcome>>

(* run_landlock and run_seatbelt: SIGKILL at once.                         *)
Kill ==
    /\ Expired /\ backend \in {"Landlock", "Seatbelt"}
    /\ procs' = Killed
    /\ run' = [run EXCEPT !.at = "join"]
    /\ outcome' = "timed out"
    /\ UNCHANGED <<host, backend, done>>

(* DockerSandbox: the wait is given up, and nothing is told to the         *)
(* container or its client.                                                *)
Abandon ==
    /\ Expired /\ backend = "Docker"
    /\ run' = [run EXCEPT !.at = "returned"]
    /\ outcome' = "timed out"
    /\ UNCHANGED <<host, backend, procs, done>>

(* Mutant: no SIGKILL after the grace period.                              *)
AfterGrace_Nothing == procs' = procs

AfterGrace == procs' = Killed

GracePeriod ==
    /\ run.at = "grace"
    /\ IF done THEN run' = [run EXCEPT !.at = "join"] /\ outcome' = "terminated"
                    /\ UNCHANGED procs
       ELSE IF run.ticks < Grace
       THEN run' = [run EXCEPT !.ticks = @ + 1] /\ UNCHANGED <<procs, outcome>>
       ELSE run' = [run EXCEPT !.at = "join"] /\ outcome' = "timed out" /\ AfterGrace
    /\ UNCHANGED <<host, backend, done>>

(* handle.join waits for the thread, without a deadline.                   *)
Join ==
    /\ run.at = "join" /\ done
    /\ run' = [run EXCEPT !.at = "returned"]
    /\ UNCHANGED <<host, backend, procs, done, outcome>>

SandboxStep ==
    WaitWithOutput \/ Poll \/ Terminate \/ Kill \/ Abandon \/ GracePeriod \/ Join

SandboxNext ==
    \/ SandboxStep
    \/ \E p \in All : Redirect(p) \/ Setsid(p) \/ Exit(p) \/ \E c \in Children : Fork(p, c)

(* The threads of the sandbox run; the command may do nothing for ever.    *)
SandboxFair == SandboxStep

SandboxSpec == SandboxInit /\ [][SandboxNext]_sandboxVars /\ WF_sandboxVars(SandboxFair)

-----------------------------------------------------------------------------
(* Type invariant.                                                         *)
SandboxTypeOK ==
    /\ backend \in {"Docker", "Landlock", "Seatbelt", "Process"}
    /\ procs \in [All -> [alive : BOOLEAN, grouped : BOOLEAN, pipe : BOOLEAN,
                          stubborn : BOOLEAN]]
    /\ run.at \in {"poll", "grace", "join", "returned"}
    /\ outcome \in {"none", "output", "terminated", "timed out"}

(* Where the platform can isolate, commands do not run with rlimits only;  *)
(* the exception is a Docker that answers and was not built in.            *)
IsolatedIfPossible ==
    (host.os_sandbox /\ (host.docker_built \/ host.preferred # "Docker" \/ ~host.docker_up))
        => backend # "Process"

(* When a run outside of Docker reports a timeout after SIGKILL, what it   *)
(* started is gone, but for what left its group.                           *)
NothingSurvivesKill ==
    (run.at = "returned" /\ outcome = "timed out" /\ backend # "Docker") =>
        \A p \in All : procs[p].alive => ~procs[p].grouped

(* Every run returns, whatever the command does and however it takes       *)
(* SIGTERM, unless a process that left the group keeps the pipes open.     *)
RunReturns ==
    []<>(run.at = "returned" \/ \E p \in All : procs[p].pipe /\ ~procs[p].grouped)
=============================================================================
