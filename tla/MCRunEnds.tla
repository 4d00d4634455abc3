----------------------------- MODULE MCRunEnds ------------------------------
(***************************************************************************)
(* How a run comes to its end (AgentLoop), and the connection over which a *)
(* terminal client is told of it (RinSocket).  They share no state, so     *)
(* that a behaviour has the steps of one of them, named by part; the other *)
(* stays as it starts.                                                     *)
(***************************************************************************)
EXTENDS AgentLoop, RinSocket

VARIABLE part

endsVars == <<part, vars, rinVars>>

(* What the client may send.                                               *)
MCUses == {{"hello", "confirm"}, {"hello", "agent"}, {"agent", "long"}}

EndsInit ==
    /\ part \in {"run", "connection"}
    /\ Init /\ RinInit
    /\ part = "run" => unsent = [c \in Clients |-> {"hello", "confirm"}]

EndsNext ==
    /\ UNCHANGED part
    /\ \/ part = "run" /\ Next /\ UNCHANGED rinVars
       \/ part = "connection" /\ RinNext /\ UNCHANGED vars

(* The steps of the run, and of the tasks of the connection, are taken.    *)
EndsFair ==
    \/ part = "run" /\ RunStep /\ UNCHANGED <<part, rinVars>>
    \/ part = "connection" /\ RinFair /\ UNCHANGED <<part, vars>>

EndsSpec == EndsInit /\ [][EndsNext]_endsVars /\ WF_endsVars(EndsFair)
=============================================================================
