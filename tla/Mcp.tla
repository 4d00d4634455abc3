-------------------------------- MODULE Mcp ---------------------------------
(***************************************************************************)
(* One connection to an MCP server (zhen_tool/mcp/connection.rs,           *)
(* manager.rs, tool.rs): tool calls of concurrent agents share a map of    *)
(* pending requests with the task that reads the answers.  The server      *)
(* answers late, out of order, twice, or never, and may die at any time.   *)
(***************************************************************************)
EXTENDS Naturals, FiniteSets

CONSTANTS
    Callers,        \* tool calls
    Handshake,      \* the initialize request
    MaxReplies      \* bound: answers of the server

ASSUME McpAssumption == Handshake \notin Callers /\ MaxReplies \in Nat

VARIABLES
    link,       \* "initializing", "ready" or "failed"
    caller,     \* each request: its place, id and result
    next_id,    \* the next request id
    pending,    \* ids of the map of pending requests
    sent,       \* ids the server was sent
    replies,    \* answers on their way: ids
    answered,   \* answers given so far
    alive,      \* the server runs
    closed,     \* the flag that the reader sets
    reader,     \* "reading", "closing" or "ended"
    writer      \* whether the writer task still takes requests

mcpVars == <<link, caller, next_id, pending, sent, replies, answered, alive, closed, reader, writer>>

Requests == Callers \cup {Handshake}

(* The result of a request: nothing yet, the answer to an id, or an error. *)
Failure == {0}

McpInit ==
    /\ link = "initializing"
    /\ caller = [c \in Requests |-> [at |-> "idle", id |-> 0, got |-> {}]]
    /\ next_id = 1
    /\ pending = {} /\ sent = {} /\ replies = {} /\ answered = 0
    /\ alive = TRUE /\ closed = FALSE /\ reader = "reading" /\ writer = TRUE

Ready(c) == IF c = Handshake THEN link = "initializing" ELSE link = "ready"

(* send_request: the flag is read, and an id is taken.                     *)
BeginCall(c) ==
    /\ caller[c].at = "idle" /\ Ready(c)
    /\ IF closed THEN caller' = [caller EXCEPT ![c] = [@ EXCEPT !.at = "returned", !.got = Failure]]
                      /\ UNCHANGED next_id
       ELSE /\ caller' = [caller EXCEPT ![c] = [@ EXCEPT !.at = "begun", !.id = next_id]]
            /\ next_id' = next_id + 1
    /\ UNCHANGED <<link, pending, sent, replies, answered, alive, closed, reader, writer>>

Insert(c) ==
    /\ caller[c].at = "begun"
    /\ pending' = pending \cup {caller[c].id}
    /\ caller' = [caller EXCEPT ![c].at = "inserted"]
    /\ UNCHANGED <<link, next_id, sent, replies, answered, alive, closed, reader, writer>>

(* The request goes to the writer, unless the writer has ended.            *)
Send(c) ==
    /\ caller[c].at = "inserted"
    /\ IF writer
       THEN /\ sent' = sent \cup {caller[c].id}
            /\ caller' = [caller EXCEPT ![c].at = "waiting"]
            /\ UNCHANGED pending
       ELSE /\ pending' = pending \ {caller[c].id}
            /\ caller' = [caller EXCEPT ![c] = [@ EXCEPT !.at = "returned", !.got = Failure]]
            /\ UNCHANGED sent
    /\ UNCHANGED <<link, next_id, replies, answered, alive, closed, reader, writer>>

(* The channel of the request holds what was sent into it.                 *)
Delivered(c) == caller[c].at = "waiting" /\ caller[c].got # {}

Receive(c) ==
    /\ Delivered(c)
    /\ caller' = [caller EXCEPT ![c].at = "returned"]
    /\ UNCHANGED <<link, next_id, pending, sent, replies, answered, alive, closed, reader, writer>>

(* Mutant: a request waits without a deadline.                             *)
Elapsed_Never(c) == FALSE

Elapsed(c) == caller[c].at = "waiting" /\ caller[c].got = {}

(* The timeout passes; the channel is gone before the entry is.            *)
TimeOut(c) ==
    /\ Elapsed(c)
    /\ caller' = [caller EXCEPT ![c].at = "expiring"]
    /\ UNCHANGED <<link, next_id, pending, sent, replies, answered, alive, closed, reader, writer>>

(* Mutant: the entry stays.                                                *)
TimedOut_Kept(c) == pending

TimedOut(c) == pending \ {caller[c].id}

Expire(c) ==
    /\ caller[c].at = "expiring"
    /\ pending' = TimedOut(c)
    /\ caller' = [caller EXCEPT ![c] = [@ EXCEPT !.at = "returned", !.got = Failure]]
    /\ UNCHANGED <<link, next_id, sent, replies, answered, alive, closed, reader, writer>>

(* The future of a tool call is dropped: its run was cancelled.            *)
GiveUp(c) ==
    /\ c # Handshake /\ caller[c].at = "waiting"
    /\ caller' = [caller EXCEPT ![c].at = "abandoned"]
    /\ UNCHANGED <<link, next_id, pending, sent, replies, answered, alive, closed, reader, writer>>

(* Mutant: whoever waits takes an answer.                                  *)
Addressee_First(i) == {c \in Requests : caller[c].at = "waiting"}

(* The request an answer is for.                                           *)
Addressee(i) == {c \in Requests : caller[c].id = i /\ caller[c].at = "waiting"}

(* run_reader: an answer to a pending id is handed over, others are        *)
(* dropped.                                                                *)
Read(i) ==
    /\ reader = "reading" /\ i \in replies
    /\ replies' = replies \ {i}
    /\ pending' = pending \ {i}
    /\ caller' = [c \in Requests |-> IF i \in pending /\ c \in Addressee(i)
                                     THEN [caller[c] EXCEPT !.got = {i}] ELSE caller[c]]
    /\ UNCHANGED <<link, next_id, sent, answered, alive, closed, reader, writer>>

(* End of the stream: the flag, and then every pending request fails.      *)
Close ==
    /\ reader = "reading" /\ ~alive /\ replies = {}
    /\ reader' = "closing" /\ closed' = TRUE
    /\ UNCHANGED <<link, caller, next_id, pending, sent, replies, answered, alive, writer>>

fail_all_pending ==
    [c \in Requests |-> IF caller[c].at \in {"inserted", "waiting"} /\ caller[c].id \in pending
                        THEN [caller[c] EXCEPT !.got = Failure] ELSE caller[c]]

Drain ==
    /\ reader = "closing"
    /\ caller' = fail_all_pending /\ pending' = {}
    /\ reader' = "ended"
    /\ UNCHANGED <<link, next_id, sent, replies, answered, alive, closed, writer>>

(* connect: the handshake was answered, or the server is killed; an answer *)
(* may itself be an error.                                                 *)
Connect(refused) ==
    /\ link = "initializing" /\ caller[Handshake].at = "returned"
    /\ IF refused \/ caller[Handshake].got = Failure
       THEN /\ link' = "failed" /\ alive' = FALSE
            /\ caller' = fail_all_pending /\ pending' = {}
       ELSE link' = "ready" /\ UNCHANGED <<alive, caller, pending>>
    /\ UNCHANGED <<next_id, sent, replies, answered, closed, reader, writer>>

-----------------------------------------------------------------------------
(* The server.                                                             *)
Reply(i) ==
    /\ alive /\ i \in sent /\ answered < MaxReplies
    /\ replies' = replies \cup {i} /\ answered' = answered + 1
    /\ UNCHANGED <<link, caller, next_id, pending, sent, alive, closed, reader, writer>>

ServerDies ==
    /\ alive /\ alive' = FALSE
    /\ UNCHANGED <<link, caller, next_id, pending, sent, replies, answered, closed, reader, writer>>

(* The writer meets the broken pipe.                                       *)
WriterEnds ==
    /\ writer /\ ~alive /\ sent # {}
    /\ writer' = FALSE
    /\ UNCHANGED <<link, caller, next_id, pending, sent, replies, answered, alive, closed, reader>>

McpStep ==
    \/ \E c \in Requests : Insert(c) \/ Send(c) \/ Receive(c) \/ TimeOut(c) \/ Expire(c)
    \/ \E i \in 1..next_id : Read(i)
    \/ Close \/ Drain \/ \E refused \in BOOLEAN : Connect(refused)

McpNext ==
    \/ McpStep
    \/ \E c \in Requests : BeginCall(c) \/ GiveUp(c)
    \/ \E i \in 1..next_id : Reply(i)
    \/ ServerDies \/ WriterEnds

(* Tasks run and timers fire; the server owes nothing.                     *)
McpFair == McpStep

McpSpec == McpInit /\ [][McpNext]_mcpVars /\ WF_mcpVars(McpFair)

-----------------------------------------------------------------------------
(* Type invariant.                                                         *)
McpTypeOK ==
    /\ link \in {"initializing", "ready", "failed"}
    /\ \A c \in Requests : caller[c].at \in {"idle", "begun", "inserted", "waiting", "expiring",
                                            "returned", "abandoned"}
    /\ pending \subseteq 1..next_id /\ replies \subseteq sent
    /\ closed = (reader # "reading")

(* However late and in whichever order the server answers, a call returns  *)
(* the answer to its own request or an error.                              *)
OwnAnswer ==
    \A c \in Requests : caller[c].at = "returned" => caller[c].got \in {Failure, {caller[c].id}}

(* An entry of the map belongs to a request that is under way, or to one   *)
(* whose run was cancelled: requests that returned leave none behind.      *)
PendingOwned ==
    \A i \in pending : \E c \in Requests : caller[c].id = i /\ caller[c].at # "returned"

(* Every call returns or is dropped, and so the start of the daemon passes *)
(* the handshake, whatever the server does, also when the call was         *)
(* inserted after the reader had failed the pending ones.                  *)
CallsReturn ==
    \A c \in Requests : []<>(caller[c].at \in {"idle", "returned", "abandoned"})
=============================================================================
