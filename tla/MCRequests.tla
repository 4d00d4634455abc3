----------------------------- MODULE MCRequests -----------------------------
(***************************************************************************)
(* What is sent to the model and what comes back: the history and what     *)
(* compaction makes of it (Compaction), and the requests of two turns over *)
(* the router of providers (ModelCore).                                    *)
(* They share no state, so that a behaviour has the steps of one of them,  *)
(* named by part; the other stays as it starts.                            *)
(***************************************************************************)
EXTENDS Compaction, ModelCore

VARIABLE part

ChatKinds == {"user", "assistant"}

(* Two runs share a router of two providers, or use one of gemini alone.   *)
MCKindLists == {<<"anthropic", "openai">>, <<"gemini">>}
MCMaxEvents == <<2, 0>>

RequestsInit ==
    /\ part \in {"context", "model"}
    /\ Init /\ CoreInit
    /\ part = "context" => Len(kinds) = 1

RequestsNext ==
    /\ UNCHANGED part
    /\ \/ part = "context" /\ Next /\ UNCHANGED coreVars
       \/ part = "model" /\ CoreNext /\ UNCHANGED vars

RequestsSpec == RequestsInit /\ [][RequestsNext]_<<part, vars, coreVars>> /\ CoreFairness
=============================================================================
