------------------------------- MODULE MCWork -------------------------------
(***************************************************************************)
(* The work a run leaves to others: commands in the background             *)
(* (BackgroundTasks), sub-agents (Subagents) and scheduled jobs (Cron).    *)
(* They share no state, so that a behaviour has the steps of one of them,  *)
(* named by part; the others stay as they start.                           *)
(***************************************************************************)
EXTENDS BackgroundTasks, Subagents, Cron

VARIABLE part

workVars == <<part, bgVars, subVars, cronVars>>

(* A job of every minute with a cooldown, and a one-shot job.              *)
MCWanted ==
    [hourly |-> [trigger |-> "schedule", field |-> [kind |-> "step", n |-> 1],
                 cooldown |-> 4, jitter |-> 1],
     other  |-> [trigger |-> "once", at |-> 2, jitter |-> 1, cooldown |-> 0]]

WorkInit ==
    /\ part \in {"background", "subagents", "cron"}
    /\ BgInit /\ SubInit /\ CronInit
    /\ part # "cron" => \A n \in JobNames : jobs[n] = NoJob

WorkNext ==
    /\ UNCHANGED part
    /\ \/ part = "background" /\ BgNext /\ UNCHANGED <<subVars, cronVars>>
       \/ part = "subagents" /\ SubNext /\ UNCHANGED <<bgVars, cronVars>>
       \/ part = "cron" /\ CronNext /\ UNCHANGED <<bgVars, subVars>>

(* Whoever is ready among the sub-agents, or in the scheduler of jobs, is  *)
(* scheduled: nothing is said of whose step is taken.                      *)
WorkFair ==
    \/ part = "subagents" /\ SubFair /\ UNCHANGED <<part, bgVars, cronVars>>
    \/ part = "cron" /\ CronFair /\ UNCHANGED <<part, bgVars, subVars>>

WorkSpec == WorkInit /\ [][WorkNext]_workVars /\ WF_workVars(WorkFair)

(* Sub-agents and the agents of jobs come to their end, whatever permits   *)
(* and restarts do to them, and no permit is lost on the way.              *)
WorkEnds == SubagentsEnd /\ CronAgentsEnd /\ []PermitsKept
=============================================================================
