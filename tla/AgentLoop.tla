----------------------------- MODULE AgentLoop -----------------------------
(***************************************************************************)
(* The agent loop (Agent::run, kernel/src/plates/tian_heaven/loop.rs) of   *)
(* one session, with the session's steer queue and completion criteria     *)
(* (kernel/src/plates/ren_human/session_bus.rs).  A run takes turns: steer *)
(* checkpoint, compaction, LLM call with retries, then either the stop     *)
(* gates or the tools.  Users push steer messages and cancel at any time;  *)
(* every await of the loop is a place where they may.                      *)
(*                                                                         *)
(* "stored" is what the sessions table holds, so what a crash would leave. *)
(* A run starts from it.  What the tools of a turn do is in TurnDispatch,  *)
(* how compaction rewrites the history in Compaction.                      *)
(***************************************************************************)
EXTENDS Integers, Sequences, Selection

CONSTANTS
    MaxTurns,        \* max_turns of a run
    MaxRetries,      \* MAX_LLM_RETRIES
    MaxNudges,       \* Verifier reminders per run: 1, or 2 if verify_on_stop
    HistoryCap,      \* HISTORY_CAP
    MaxSteers,       \* bound: steer messages pushed
    MaxRuns,         \* bound: runs of the session
    MaxCriteria      \* bound: completion criteria

ASSUME BoundsAssumption ==
    /\ MaxTurns \in Nat /\ MaxRetries \in Nat /\ MaxNudges \in 1..2
    /\ HistoryCap \in Nat \ {0}
    /\ MaxSteers \in Nat /\ MaxRuns \in Nat /\ MaxCriteria \in Nat

Priorities == {"Now", "Next", "Later"}

VARIABLES
    \* session bus
    queue,      \* steer_queues: ids of the messages not yet taken
    unchecked,  \* criteria still to be checked off
    \* the run
    pc,
    hand,       \* messages a checkpoint has drained and not yet placed
    turn,       \* turn_count
    retries,    \* retry_count
    cancelled,  \* the run's cancel token
    touched,    \* the run has changed files
    nudges,     \* verifier_nudges
    history,
    stored,     \* the history in the sessions table
    runs,
    \* history variables
    priority,   \* the messages pushed: id -> priority
    folded,     \* the ids folded into the conversation, in order
    seen,       \* messages pushed before the run last drained the queue
    completed   \* turns of this run whose stream ended normally

steer == <<queue, hand, priority, folded, seen>>
gates == <<unchecked, touched, nudges>>
vars == <<queue, unchecked, pc, hand, turn, retries, cancelled, touched, nudges,
          history, stored, runs, priority, folded, seen, completed>>

User(r) == [type |-> "user", run |-> r, n |-> 0]
Steer(id) == [type |-> "steer", run |-> 0, n |-> id]
Assistant(r, t) == [type |-> "assistant", run |-> r, n |-> t]
Tools(r, t) == [type |-> "tools", run |-> r, n |-> t]
Note == [type |-> "note", run |-> 0, n |-> 0]

IsMessage(e) == e.type # "tools"
IsUser(e) == e.type \in {"user", "steer"}

Init ==
    /\ queue = <<>> /\ hand = <<>> /\ priority = <<>> /\ folded = <<>>
    /\ seen = 0
    /\ pc = "idle"
    /\ turn = 0 /\ retries = 0 /\ nudges = 0 /\ runs = 0 /\ unchecked = 0
    /\ cancelled = FALSE /\ touched = FALSE
    /\ history = <<>> /\ stored = <<>>
    /\ completed = {}

-----------------------------------------------------------------------------
(* Steer messages, folded into the history as user messages. *)

Folded(h, ids) == h \o [i \in 1..Len(ids) |-> Steer(ids[i])]

OfPriority(ids, P) == At(ids, {i \in 1..Len(ids) : priority[ids[i]] \in P})

push_steer(p) ==
    /\ Len(priority) < MaxSteers
    /\ priority' = Append(priority, p)
    /\ queue' = Append(queue, Len(priority) + 1)
    /\ UNCHANGED <<gates, pc, hand, turn, retries, cancelled, history, stored,
                   runs, folded, seen, completed>>

(* fold_all_steer: everything queued goes into the history; the history is *)
(* the one the caller has built so far.                                    *)
fold_all_steer(h) ==
    /\ history' = Folded(h, queue)
    /\ folded' = folded \o queue
    /\ queue' = <<>>
    /\ seen' = Len(priority)
    /\ UNCHANGED <<hand, priority>>

save_history_now == stored' = history'

Leave(exit) == pc' = exit

-----------------------------------------------------------------------------
(* The run. *)

Start ==
    /\ pc = "idle"
    /\ runs < MaxRuns
    /\ runs' = runs + 1
    /\ history' = Append(stored, User(runs + 1))
    /\ save_history_now
    /\ turn' = 0 /\ retries' = 0 /\ nudges' = 0
    /\ cancelled' = FALSE /\ touched' = FALSE
    /\ completed' = {}
    /\ Leave("top")
    /\ UNCHANGED <<steer, unchecked>>

(* Mutant: one turn more than max_turns.                                   *)
NextTurn_OneMore ==
    /\ pc = "top"
    /\ turn <= MaxTurns
    /\ turn' = turn + 1
    /\ Leave("checkpoint")
    /\ UNCHANGED <<steer, gates, retries, cancelled, history, stored, runs,
                   completed>>

NextTurn ==
    /\ pc = "top"
    /\ turn < MaxTurns
    /\ turn' = turn + 1
    /\ Leave("checkpoint")
    /\ UNCHANGED <<steer, gates, retries, cancelled, history, stored, runs,
                   completed>>

HitMaxTurns ==
    /\ pc = "top"
    /\ turn >= MaxTurns
    /\ turn' = turn + 1
    /\ fold_all_steer(history)
    /\ IF queue = <<>> THEN UNCHANGED stored ELSE save_history_now
    /\ Leave("broke")
    /\ UNCHANGED <<gates, retries, cancelled, runs, completed>>

(* fold_steer_at_checkpoint takes the queue under one lock ...             *)
drain_steer ==
    /\ pc = "checkpoint"
    /\ hand' = queue
    /\ queue' = <<>>
    /\ seen' = Len(priority)
    /\ Leave(IF queue = <<>> THEN "compact" ELSE "place")
    /\ UNCHANGED <<gates, turn, retries, cancelled, history, stored, runs,
                   priority, folded, completed>>

(* Mutant: what was pushed since the drain is overwritten.                 *)
requeue_steer_Overwrites(msgs) == queue' = msgs

(* Mutant: the messages go back behind newer ones.                         *)
requeue_steer_AtTail(msgs) == queue' = queue \o msgs

(* ... and gives the Later messages back under another, at the head of the *)
(* queue, where newer ones may have arrived meanwhile.                     *)
requeue_steer(msgs) == queue' = msgs \o queue

(* Mutant: Next messages are given back like Later ones.                   *)
PlaceNext_Defers ==
    /\ pc = "place"
    /\ OfPriority(hand, {"Now"}) = <<>>
    /\ requeue_steer(hand)
    /\ hand' = <<>>
    /\ Leave("compact")
    /\ UNCHANGED <<gates, turn, retries, cancelled, history, stored, runs,
                   priority, folded, seen, completed>>

PlaceNext ==
    LET next == OfPriority(hand, {"Next"})
    IN  /\ pc = "place"
        /\ OfPriority(hand, {"Now"}) = <<>>
        /\ requeue_steer(OfPriority(hand, {"Later"}))
        /\ history' = Folded(history, next)
        /\ folded' = folded \o next
        /\ hand' = <<>>
        /\ Leave("compact")
        /\ UNCHANGED <<gates, turn, retries, cancelled, stored, runs, priority,
                       seen, completed>>

PlaceNow ==
    /\ pc = "place"
    /\ OfPriority(hand, {"Now"}) # <<>>
    /\ history' = Folded(history, hand)
    /\ folded' = folded \o hand
    /\ hand' = <<>>
    /\ cancelled' = TRUE
    /\ save_history_now
    /\ Leave("returned")
    /\ UNCHANGED <<gates, turn, retries, runs, queue, priority, seen, completed>>

(* Compaction, when the context is under pressure: a summary replaces a    *)
(* prefix, of which the user's first words stay, and the later ones but    *)
(* for a middle part that does not fit (the note stands for the marker in  *)
(* its place too); a failed summary leaves the leading messages that the   *)
(* token limit allows; one cut by cancellation ends the run at once.       *)
EnterInference ==
    /\ retries' = 0
    /\ Leave("infer")

NoCompaction ==
    /\ pc = "compact"
    /\ EnterInference
    /\ UNCHANGED <<steer, gates, turn, cancelled, history, stored, runs,
                   completed>>

Summarised ==
    /\ pc = "compact"
    /\ \E k \in 1..Len(history) :
          LET users == {i \in 1..k : IsUser(history[i])}
          IN  \E kept \in SUBSET users \ {1..k} :
                 /\ \A i \in users : \E j \in kept : j <= i
                 /\ \A i, j \in users \ kept : i..j \cap kept = {}
                 /\ history' = <<Note>> \o At(history, kept \cup (k + 1)..Len(history))
    /\ EnterInference
    /\ UNCHANGED <<steer, gates, turn, cancelled, stored, runs, completed>>

FitInstead ==
    LET messages == {i \in 1..Len(history) : IsMessage(history[i])}
    IN  /\ pc = "compact"
        /\ ~cancelled
        /\ \E last \in messages :
              history' = At(history, {i \in 1..Len(history) : i <= last \/ ~IsMessage(history[i])})
        /\ EnterInference
        /\ UNCHANGED <<steer, gates, turn, cancelled, stored, runs, completed>>

CompactionCancelled ==
    /\ pc = "compact"
    /\ cancelled
    /\ Leave("returned")
    /\ UNCHANGED <<steer, gates, turn, retries, cancelled, history, stored, runs,
                   completed>>

(* The LLM call.  Every way out of it but a normal end folds the queue,    *)
(* saves and returns.                                                      *)
SaveAndReturn(h) ==
    /\ fold_all_steer(h)
    /\ save_history_now
    /\ Leave("returned")

StreamTruncated ==
    /\ pc = "infer"
    /\ cancelled
    /\ SaveAndReturn(history)
    /\ UNCHANGED <<gates, turn, retries, cancelled, runs, completed>>

(* Mutant: a retry starts over before the place that resets the counter.   *)
RetryStream_FromCompaction ==
    /\ pc = "infer"
    /\ retries < MaxRetries
    /\ ~cancelled
    /\ retries' = retries + 1
    /\ Leave("compact")
    /\ UNCHANGED <<steer, gates, turn, cancelled, history, stored, runs,
                   completed>>

RetryStream ==
    /\ pc = "infer"
    /\ retries < MaxRetries
    /\ ~cancelled
    /\ retries' = retries + 1
    /\ UNCHANGED <<steer, gates, pc, turn, cancelled, history, stored, runs,
                   completed>>

RetryCancelled ==
    /\ pc = "infer"
    /\ retries < MaxRetries
    /\ cancelled
    /\ SaveAndReturn(history)
    /\ UNCHANGED <<gates, turn, retries, cancelled, runs, completed>>

StreamFailed ==
    /\ pc = "infer"
    /\ SaveAndReturn(history)
    /\ UNCHANGED <<gates, turn, retries, cancelled, runs, completed>>

(* Mutant: a late cancellation is honoured before the response is kept.    *)
StreamEnded_CancelFirst(response) ==
    /\ pc = "infer"
    /\ retries' = 0
    /\ IF cancelled
       THEN UNCHANGED history
       ELSE history' = Append(history, Assistant(runs, turn))
    /\ completed' = IF response = "empty" /\ cancelled THEN completed
                    ELSE completed \cup {turn}
    /\ Leave(IF response = "calls" THEN "endedCalls" ELSE "endedText")
    /\ UNCHANGED <<steer, gates, turn, cancelled, stored, runs>>

(* A normal end.  The response goes into the history, unless it is empty   *)
(* and the run is cancelled; a late cancel is honoured only afterwards.    *)
StreamEnded(response) ==
    /\ pc = "infer"
    /\ retries' = 0
    /\ IF response = "empty" /\ cancelled
       THEN UNCHANGED <<history, completed>>
       ELSE /\ history' = Append(history, Assistant(runs, turn))
            /\ completed' = completed \cup {turn}
    /\ Leave(IF response = "calls" THEN "endedCalls" ELSE "endedText")
    /\ UNCHANGED <<steer, gates, turn, cancelled, stored, runs>>

EndedCancelled ==
    /\ pc \in {"endedCalls", "endedText"}
    /\ cancelled
    /\ SaveAndReturn(history)
    /\ UNCHANGED <<gates, turn, retries, cancelled, runs, completed>>

Proceed ==
    /\ pc \in {"endedCalls", "endedText"}
    /\ ~cancelled
    /\ Leave(IF pc = "endedCalls" THEN "tools" ELSE "stop")
    /\ UNCHANGED <<steer, gates, turn, retries, cancelled, history, stored, runs,
                   completed>>

(* The stop gates: criteria first, then the Verifier reminders, then the   *)
(* steer messages that are still queued.                                   *)
CriteriaReminder ==
    /\ pc = "stop"
    /\ unchecked > 0
    /\ Leave("top")
    /\ UNCHANGED <<steer, gates, turn, retries, cancelled, history, stored, runs,
                   completed>>

VerifierReminder ==
    /\ pc = "stop"
    /\ unchecked = 0
    /\ touched
    /\ nudges < MaxNudges
    /\ nudges' = nudges + 1
    /\ Leave("top")
    /\ UNCHANGED <<steer, unchecked, touched, turn, retries, cancelled,
                   history, stored, runs, completed>>

WrapUp ==
    /\ pc = "stop"
    /\ unchecked = 0
    /\ ~(touched /\ nudges < MaxNudges)
    /\ fold_all_steer(history)
    /\ Leave(IF queue = <<>> THEN "broke" ELSE "top")
    /\ UNCHANGED <<gates, turn, retries, cancelled, stored, runs, completed>>

(* The tools of a turn: they may change files, run tests, and set or check *)
(* criteria.  Calls that a cancellation cut leave no card.  A call that is *)
(* repeated too often ends the run, with the cards of what had run.  Only  *)
(* the normal end drops the oldest entries beyond the cap.                 *)
Capped(h) == IF Len(h) > HistoryCap
             THEN SubSeq(h, Len(h) - HistoryCap + 1, Len(h))
             ELSE h

ToolsDone(cards) ==
    /\ cards = <<>> => cancelled
    /\ history' = Capped(history \o cards)
    /\ save_history_now
    /\ Leave("top")
    /\ UNCHANGED steer

RepeatStopped(cards) ==
    /\ fold_all_steer(history \o cards)
    /\ save_history_now
    /\ Leave("broke")

RunTools(wrote, criteria) ==
    /\ pc = "tools"
    /\ touched' = (touched \/ wrote)
    /\ unchecked' = criteria
    /\ \E cards \in {<<>>, <<Tools(runs, turn)>>} :
          ToolsDone(cards) \/ RepeatStopped(cards)
    /\ UNCHANGED <<nudges, turn, retries, cancelled, runs, completed>>

post_loop ==
    /\ pc \in {"broke", "returned"}
    /\ stored' = history
    /\ Leave("idle")
    /\ UNCHANGED <<steer, gates, turn, retries, cancelled, history, runs,
                   completed>>

(* Cancel buttons, a Now steer over the socket, a dropped client. *)
Cancel ==
    /\ pc # "idle"
    /\ ~cancelled
    /\ cancelled' = TRUE
    /\ UNCHANGED <<steer, gates, pc, turn, retries, history, stored, runs,
                   completed>>

(* clear_criteria, when the client disconnects or deletes the session. *)
clear_criteria ==
    /\ unchecked > 0
    /\ unchecked' = 0
    /\ UNCHANGED <<steer, touched, nudges, pc, turn, retries, cancelled,
                   history, stored, runs, completed>>

RunStep ==
    \/ NextTurn \/ HitMaxTurns
    \/ drain_steer \/ PlaceNext \/ PlaceNow
    \/ NoCompaction \/ Summarised \/ FitInstead \/ CompactionCancelled
    \/ StreamTruncated \/ RetryStream \/ RetryCancelled \/ StreamFailed
    \/ \E r \in {"text", "calls", "empty"} : StreamEnded(r)
    \/ EndedCancelled \/ Proceed
    \/ CriteriaReminder \/ VerifierReminder \/ WrapUp
    \/ \E w \in BOOLEAN, c \in 0..MaxCriteria : RunTools(w, c)
    \/ post_loop

Next ==
    \/ Start
    \/ RunStep
    \/ \E p \in Priorities : push_steer(p)
    \/ Cancel
    \/ clear_criteria

Spec == Init /\ [][Next]_vars

(* A started run is driven on: its task is polled, tools return, summaries *)
(* and streams end (ModelCore says which reads have a timeout; one has     *)
(* none and depends on the provider).                                      *)
FairSpec == Spec /\ WF_vars(RunStep)

-----------------------------------------------------------------------------
(* Properties. *)

Entries == [type : {"user", "steer", "assistant", "tools", "note"},
            run : 0..MaxRuns, n : Nat]

TypeOK ==
    /\ pc \in {"idle", "top", "checkpoint", "place", "compact", "infer",
               "endedCalls", "endedText", "stop", "tools", "broke", "returned"}
    /\ priority \in Seq(Priorities)
    /\ Len(priority) <= MaxSteers
    /\ queue \in Seq(1..Len(priority))
    /\ hand \in Seq(1..Len(priority))
    /\ folded \in Seq(1..Len(priority))
    /\ seen \in 0..Len(priority)
    /\ unchecked \in 0..MaxCriteria
    /\ turn \in 0..(MaxTurns + 1)
    /\ retries \in 0..MaxRetries
    /\ nudges \in 0..MaxNudges
    /\ runs \in 0..MaxRuns
    /\ cancelled \in BOOLEAN /\ touched \in BOOLEAN
    /\ history \in Seq(Entries) /\ stored \in Seq(Entries)
    /\ completed \subseteq 1..MaxTurns

(* The messages in the order in which the conversation has, or would, take *)
(* them if the queue were folded now.                                      *)
Line == folded \o hand \o queue

(* A steer message is a user's word and is never lost or doubled: whatever *)
(* exit a run takes, each one is folded, in the checkpoint's hand, or      *)
(* queued for the next run, exactly once.                                  *)
SteerConserved ==
    /\ Len(Line) = Len(priority)
    /\ \A id \in 1..Len(priority) : \E i \in 1..Len(Line) : Line[i] = id

(* Messages of one priority enter the conversation in the order they were  *)
(* pushed, although a checkpoint gives Later messages back after newer     *)
(* ones may have been queued.                                              *)
SteerInOrder ==
    \A i, j \in 1..Len(Line) :
        i < j /\ priority[Line[i]] = priority[Line[j]] => Line[i] < Line[j]

(* The LLM is never called while a Next or Now message that was queued at  *)
(* the turn's checkpoint is missing from the conversation.                 *)
CheckpointComplete ==
    pc = "infer" =>
        \A id \in 1..seen : priority[id] # "Later"
                                => \E i \in 1..Len(folded) : folded[i] = id

(* A response whose stream ended normally is in the stored history when an *)
(* early return ends the run, however late the cancellation came; the      *)
(* partial output of a cut or failed stream is not.                        *)
ResponseKept ==
    pc = "returned" =>
        (turn \in completed <=> \E i \in 1..Len(stored) :
                                    stored[i] = Assistant(runs, turn))

(* Whatever a run does with its drains, hands and requeues, and however it *)
(* ends, the session's users see a conversation: the steer queue, with     *)
(* what a checkpoint has in its hand before it, is the line of messages.   *)
Talk == INSTANCE Conversation WITH word <- priority, waiting <- hand \o queue, said <- folded
ImplementsConversation == Talk!Converses

(* The run ends: turns, retries and reminders are bounded whatever the     *)
(* model answers and however often the user steers.                        *)
RunEnds == pc # "idle" ~> pc = "idle"

(* A message pushed to a run in progress is handled: none is lost or       *)
(* doubled, those of one priority stay in order, and the LLM is not called *)
(* before the checkpoint has folded what it found.                         *)
SteerHandled == TypeOK /\ SteerConserved /\ SteerInOrder /\ CheckpointComplete
=============================================================================
