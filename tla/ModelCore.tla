----------------------------- MODULE ModelCore -----------------------------
(***************************************************************************)
(* The model core (palaces/zhong_core): providers that stream a response   *)
(* as chunks, the router with a circuit breaker per provider, and the      *)
(* retry loop of the agent loop that reads the streams.                    *)
(*                                                                         *)
(* The turns of several runs share the router.  A stream is produced by a  *)
(* task of its own (Wire actions) into a channel that the turn reads (Read *)
(* actions).  A response is a sequence of text and tool calls; of a call's *)
(* arguments the model keeps how much has arrived.                         *)
(***************************************************************************)
EXTENDS Integers, Sequences, FiniteSets, Selection

CONSTANTS
    KindLists,     \* configurations: sequences of provider kinds
    Turns,         \* turns of concurrent runs
    Cancellable,   \* those of them that a user may cancel
    Threshold,     \* failures that open a breaker (3 in the code)
    Cooldown,      \* ticks until an open breaker may be probed (30 s)
    MaxRetries,    \* MAX_LLM_RETRIES (3)
    MaxEvents,     \* bound: turn -> events of one of its streams
    MaxLag,        \* bound: unread chunks behind which a stream goes on
    Statuses       \* HTTP statuses of refused requests

ASSUME ModelCoreAssumption ==
    /\ KindLists \subseteq Seq({"anthropic", "openai", "gemini"}) \ {<<>>}
    /\ Cancellable \subseteq Turns
    /\ Threshold \in Nat \ {0} /\ Cooldown \in Nat \ {0}
    /\ MaxRetries \in Nat /\ MaxEvents \in [Turns -> Nat] /\ MaxLag \in Nat
    /\ Statuses \subseteq Nat


VARIABLES
    kinds,    \* the router's list of providers
    breaker,  \* provider -> state, failures (up to Threshold), age of the last
    active,   \* the provider that requests go to
    asking,     \* the retry loop of each run's turn
    wire,     \* the task that produces the turn's stream
    chan      \* chunks sent and not yet read

coreVars == <<kinds, breaker, active, asking, wire, chan>>

Providers == DOMAIN kinds

-----------------------------------------------------------------------------
(* Circuit breaker.                                                        *)

NewBreaker == [state |-> "closed", failures |-> 0, age |-> 0]

(* is_open also moves a breaker that has cooled down to half-open.         *)
Cooled(b) == b.state = "open" /\ b.age >= Cooldown
is_open(b) == b.state = "open" /\ ~Cooled(b)
Probed(b) == IF Cooled(b) THEN [b EXCEPT !.state = "halfopen"] ELSE b

(* Failures are counted up to the threshold: beyond it they make no        *)
(* difference.                                                             *)
OneMore(b) == IF b.failures < Threshold THEN b.failures + 1 ELSE Threshold

(* Mutant: a failed probe leaves the breaker half-open.                    *)
record_failure_KeepsProbe(b) ==
    [state |-> IF OneMore(b) >= Threshold /\ b.state = "closed"
               THEN "open" ELSE b.state,
     failures |-> OneMore(b), age |-> 0]

record_failure(b) ==
    [state |-> IF OneMore(b) >= Threshold \/ b.state = "halfopen"
               THEN "open" ELSE b.state,
     failures |-> OneMore(b), age |-> 0]

(* Router.                                                                 *)

record_success == breaker' = [breaker EXCEPT ![active] = NewBreaker]

(* The providers in the order try_failover tries them; active is last.     *)
AfterActive == [i \in Providers |-> ((active - 1 + i) % Len(kinds)) + 1]

(* Mutant: the search skips the next provider.                             *)
Candidates_SkipNext(bs) == {i \in Providers \ {1} : ~is_open(bs[AfterActive[i]])}

Candidates(bs) == {i \in Providers : ~is_open(bs[AfterActive[i]])}

try_failover ==
    LET failed == [breaker EXCEPT ![active] = record_failure(@)]
        found == Candidates(failed)
        first == CHOOSE i \in found : \A j \in found : i <= j
        next == AfterActive[first]
    IN  IF found = {}
        THEN breaker' = failed /\ UNCHANGED active
        ELSE /\ active' = next
             /\ breaker' = [failed EXCEPT ![next] = Probed(@)]

-----------------------------------------------------------------------------
(* Errors.                                                                 *)

classify_http_error(status) ==
    CASE status = 429 -> "RateLimited"
      [] status \in {401, 403} -> "AuthFailed"
      [] status \in 500..599 -> "ServerError"
      [] status \in (400..499) \ {401, 403, 429} -> "ClientError"
      [] OTHER -> "Provider"

is_retryable(e) ==
    e \in {"RateLimited", "ServerError", "Network", "StreamStalled", "AuthFailed"}

(* Chunks and wires.  part is how much of a call's arguments a chunk has:  *)
(* a call without parameters ends with "none", another with "whole"; "cut" *)
(* is what had arrived when the provider said that the call was over.      *)
Text(n) == [type |-> "text", n |-> n, part |-> "none"]
Call(i, part) == [type |-> "call", n |-> i, part |-> part]
Err(e) == [type |-> e, n |-> 0, part |-> "none"]
End == Err("end")

NoWire == [kind |-> "none", open |-> FALSE, events |-> 0, opened |-> 0, pend |-> <<>>,
           sent |-> <<>>, cut |-> FALSE]
NewWire(p) == [NoWire EXCEPT !.kind = kinds[p]]

NewTurn == [pc |-> "idle", retries |-> 0, response |-> <<>>, cancelled |-> FALSE]

CoreInit ==
    /\ kinds \in KindLists
    /\ breaker = [p \in Providers |-> NewBreaker]
    /\ active = 1
    /\ asking = [r \in Turns |-> NewTurn]
    /\ wire = [r \in Turns |-> NoWire]
    /\ chan = [r \in Turns |-> <<>>]

(* Time passes; ages matter up to the cooldown.                            *)
Aged(b) == [b EXCEPT !.age = IF b.failures > 0 /\ @ < Cooldown THEN @ + 1 ELSE @]
Tick ==
    /\ \E p \in Providers : Aged(breaker[p]) # breaker[p]
    /\ breaker' = [p \in Providers |-> Aged(breaker[p])]
    /\ UNCHANGED <<kinds, active, asking, wire, chan>>

-----------------------------------------------------------------------------
(* The producing task.  It is alive while wire[r].kind is not "none", and  *)
(* reads chunks once the head of a good response has arrived (open).       *)

router == <<kinds, breaker, active>>

Alive(r) == wire[r].kind # "none"
Streams(r) == Alive(r) /\ wire[r].open
More(r) == Streams(r) /\ wire[r].events < MaxEvents[r] /\ Len(chan[r]) <= MaxLag
Progress(r) == wire[r].events + 1

(* Chunks are sent, the wire goes on as w.                                 *)
Send(r, chunks, w) ==
    /\ chan' = [chan EXCEPT ![r] = @ \o chunks]
    /\ wire' = [wire EXCEPT ![r] = [w EXCEPT !.events = Progress(r),
                                             !.sent = @ \o chunks]]
    /\ UNCHANGED <<router, asking>>

(* The last chunk is sent and the task returns.                            *)
Close(r, chunk) ==
    /\ chan' = [chan EXCEPT ![r] = Append(@, chunk)]
    /\ wire' = [wire EXCEPT ![r] = [NoWire EXCEPT !.sent = Append(wire[r].sent, chunk)]]
    /\ UNCHANGED <<router, asking>>

(* The request is accepted, is refused, or does not arrive.  Nothing       *)
(* bounds send().await and, of a refusal, text().await.                    *)
Respond(r) ==
    /\ Alive(r) /\ ~wire[r].open
    /\ wire' = [wire EXCEPT ![r].open = TRUE]
    /\ UNCHANGED <<router, asking, chan>>
HttpError(r, status) ==
    /\ Alive(r) /\ ~wire[r].open
    /\ Close(r, Err(classify_http_error(status)))
NetworkError(r) == Alive(r) /\ ~wire[r].open /\ Close(r, Err("Network"))

Delta(r) == More(r) /\ Send(r, <<Text(Progress(r))>>, wire[r])

(* Mutant: every earlier call is sealed, complete or not.                  *)
Sealed_All(pend) == pend

(* push_fragment of the OpenAI assembler: a fragment of a later call seals *)
(* those before it whose arguments are whole or empty.  A server starts    *)
(* calls in order, and sends no arguments for one it has left empty.       *)
Sealed(pend) == At(pend, {i \in 1..Len(pend) : pend[i].part # "half"})
Unsealed(pend) == At(pend, {i \in 1..Len(pend) : pend[i].part = "half"})

(* A call starts: OpenAI's first fragment, Anthropic's block start.        *)
CallStart(r, part) ==
    LET w == wire[r] IN
    /\ More(r) /\ w.opened < 3
    /\ \/ w.kind = "openai"
       \/ w.kind = "anthropic" /\ w.pend = <<>> /\ part = "none"
    /\ Send(r, Sealed(w.pend),
            [w EXCEPT !.opened = @ + 1,
                      !.pend = Append(Unsealed(@), Call(w.opened + 1, part))])

(* More arguments for the k-th open call; on the wire of OpenAI fragments  *)
(* seal the calls before theirs.                                           *)
CallArguments(r, k) ==
    LET w == wire[r]
        c == w.pend[k]
        grown == [c EXCEPT !.part = IF c.part = "none" THEN "half" ELSE "whole"]
        before == SubSeq(w.pend, 1, k - 1)
        after == SubSeq(w.pend, k + 1, Len(w.pend))
    IN  /\ More(r) /\ (c.part = "half" \/ (c.part = "none" /\ c.n = w.opened))
        /\ Send(r, Sealed(before),
                [w EXCEPT !.pend = Unsealed(before) \o <<grown>> \o after])

(* The provider says that the open calls are over: they are emitted as     *)
(* they are, incomplete arguments included.                                *)
Over(pend) ==
    [i \in 1..Len(pend) |->
        IF pend[i].part = "half" THEN [pend[i] EXCEPT !.part = "cut"] ELSE pend[i]]

Finish(r) ==
    /\ More(r) /\ wire[r].pend # <<>>
    /\ Send(r, Over(wire[r].pend), [wire[r] EXCEPT !.pend = <<>>])

(* Anthropic: content_block_stop emits the block's call.                   *)
BlockStop(r) == wire[r].kind = "anthropic" /\ Finish(r)

(* OpenAI: finish_reason tool_calls emits what is left.                    *)
FinishReason(r) == wire[r].kind = "openai" /\ Finish(r)

(* Gemini sends a call in one piece.                                       *)
FunctionCall(r) ==
    /\ More(r) /\ wire[r].kind = "gemini" /\ wire[r].opened < 3
    /\ Send(r, <<Call(wire[r].opened + 1, "whole")>>, [wire[r] EXCEPT !.opened = @ + 1])

(* An error event of the API, or the connection breaks.                    *)
StreamError(r) == More(r) /\ Close(r, Err("Stream"))

(* The body ends; calls that are still open are dropped.                   *)
StreamEnds(r) == Streams(r) /\ Close(r, End)

(* Mutant: Gemini's stream is read without a timeout.                      *)
Stalled_NotGemini(r) == Streams(r) /\ wire[r].kind = "openai" /\ Close(r, Err("StreamStalled"))

(* 30 s without a chunk of the body.  stream_anthropic_response, which     *)
(* serves the turns of the agent loop, has no such timeout.                *)
Stalled(r) == Streams(r) /\ wire[r].kind # "anthropic" /\ Close(r, Err("StreamStalled"))

(* run_or_cancel: the token drops the producer and leaves the sentinel.    *)
CutWith(r, chunk) ==
    /\ Alive(r) /\ asking[r].cancelled
    /\ chan' = [chan EXCEPT ![r] = Append(@, chunk)]
    /\ wire' = [wire EXCEPT ![r] = [NoWire EXCEPT !.cut = TRUE,
                                        !.sent = Append(wire[r].sent, chunk)]]
    /\ UNCHANGED <<router, asking>>

(* Mutant: a cancelled stream just ends.                                   *)
Cut_AsEnd(r) == CutWith(r, End)

Cut(r) == CutWith(r, Err("Cancelled"))

-----------------------------------------------------------------------------
(* The turn.                                                               *)

(* Mutant: the response of the failed attempt is kept.                     *)
Issue_Keep(r) ==
    /\ asking' = [asking EXCEPT ![r].pc = "reading"]
    /\ wire' = [wire EXCEPT ![r] = NewWire(active)]
    /\ chan' = [chan EXCEPT ![r] = <<>>]
    /\ UNCHANGED router

(* infer_with_system on the active provider, whatever its breaker says; a  *)
(* previous attempt's output is cleared.                                   *)
Issue(r) ==
    /\ asking' = [asking EXCEPT ![r].pc = "reading", ![r].response = <<>>]
    /\ wire' = [wire EXCEPT ![r] = NewWire(active)]
    /\ chan' = [chan EXCEPT ![r] = <<>>]
    /\ UNCHANGED router

(* The next turn, of this run or another, starts with a fresh budget.      *)
Ask(r) == asking[r].pc \in {"idle", "answered", "failed", "cancelled"} /\ Issue(r)
Retry(r) == asking[r].pc = "backoff" /\ Issue(r)

Cancel(r) ==
    /\ r \in Cancellable
    /\ asking[r].pc \in {"reading", "backoff"} /\ ~asking[r].cancelled
    /\ asking' = [asking EXCEPT ![r].cancelled = TRUE]
    /\ UNCHANGED <<router, wire, chan>>

Reading(r, types) ==
    asking[r].pc = "reading" /\ chan[r] # <<>> /\ Head(chan[r]).type \in types
Consume(r) == chan' = [chan EXCEPT ![r] = Tail(@)] /\ UNCHANGED kinds
Ends(r, pc) ==
    /\ asking' = [asking EXCEPT ![r] = [NewTurn EXCEPT !.pc = pc]]
    /\ wire' = [wire EXCEPT ![r] = NoWire]

ReadChunk(r) ==
    /\ Reading(r, {"text", "call"}) /\ Consume(r)
    /\ asking' = [asking EXCEPT ![r].response = Append(@, Head(chan[r]))]
    /\ UNCHANGED <<breaker, active, wire>>

ReadCancelled(r) ==
    /\ Reading(r, {"Cancelled"}) /\ Consume(r) /\ Ends(r, "cancelled")
    /\ UNCHANGED <<breaker, active>>

Failure(r) == asking[r].pc = "reading" /\ chan[r] # <<>>
              /\ Head(chan[r]).type \notin {"text", "call", "end", "Cancelled"}

(* Mutant: the budget is compared with <=.                                 *)
WillRetry_OneMore(r) == is_retryable(Head(chan[r]).type) /\ asking[r].retries <= MaxRetries

WillRetry(r) == is_retryable(Head(chan[r]).type) /\ asking[r].retries < MaxRetries

ReadRetryable(r) ==
    /\ Failure(r) /\ WillRetry(r) /\ Consume(r)
    /\ \/ /\ asking[r].cancelled
          /\ Ends(r, "cancelled") /\ UNCHANGED <<breaker, active>>
       \/ /\ ~asking[r].cancelled
          /\ try_failover
          /\ asking' = [asking EXCEPT ![r].pc = "backoff", ![r].retries = @ + 1]
          /\ wire' = [wire EXCEPT ![r] = NoWire]

ReadFatal(r) ==
    /\ Failure(r) /\ ~WillRetry(r) /\ Consume(r) /\ Ends(r, "failed")
    /\ UNCHANGED <<breaker, active>>

(* The channel is closed: success, also when a cancel came meanwhile.      *)
ReadEnd(r) ==
    /\ Reading(r, {"end"}) /\ Consume(r)
    /\ record_success /\ UNCHANGED active
    /\ asking' = [asking EXCEPT ![r] = [NewTurn EXCEPT !.pc = "answered"]]
    /\ wire' = [wire EXCEPT ![r] = [NoWire EXCEPT !.cut = wire[r].cut]]

Wire(r) ==
    \/ \E s \in Statuses : HttpError(r, s)
    \/ Respond(r) \/ NetworkError(r) \/ Delta(r)
    \/ \E part \in {"none", "half"} : CallStart(r, part)
    \/ \E k \in DOMAIN wire[r].pend : CallArguments(r, k)
    \/ BlockStop(r) \/ FinishReason(r) \/ FunctionCall(r)
    \/ StreamError(r) \/ StreamEnds(r)

Read(r) == ReadChunk(r) \/ ReadCancelled(r) \/ ReadRetryable(r) \/ ReadFatal(r) \/ ReadEnd(r)

CoreNext ==
    \/ Tick
    \/ \E r \in Turns :
        \/ Wire(r) \/ Stalled(r) \/ Cut(r)
        \/ Ask(r) \/ Retry(r) \/ Cancel(r) \/ Read(r)

CoreSpec == CoreInit /\ [][CoreNext]_coreVars

-----------------------------------------------------------------------------
(* Type invariant of breakers, turns and wires.                            *)
CoreTypeOK ==
    /\ breaker \in [Providers -> [state : {"closed", "open", "halfopen"},
                                  failures : 0..Threshold, age : 0..Cooldown]]
    /\ active \in Providers
    /\ \A r \in Turns :
        /\ asking[r].pc \in {"idle", "reading", "backoff", "answered", "failed", "cancelled"}
        /\ asking[r].retries \in 0..MaxRetries

(* Whatever the interleaving of two runs' failures and successes, only the *)
(* provider that requests go to is on probation: a half-open breaker never *)
(* belongs to a provider that nobody asks (CircuitBreaker::is_open is      *)
(* consulted only by try_failover).                                        *)
ProbeIsActive == \A p \in Providers : breaker[p].state = "halfopen" => p = active

(* Requests go to a provider whose breaker is open only when every breaker *)
(* is: try_failover never leaves a usable provider aside.                  *)
OpenOnlyIfAllOpen ==
    breaker[active].state = "open" => \A p \in Providers : breaker[p].state = "open"

(* A call reaches the agent loop once, however its fragments were cut and  *)
(* wherever the stream ended.  It has all of its arguments, or what had    *)
(* arrived when the provider itself said that it was over (finish_reason,  *)
(* content_block_stop); neither a fragment of another call nor the end of  *)
(* the stream passes an incomplete call on.                                *)
Whole(response) ==
    \A i, j \in 1..Len(response) :
        response[i].type = "call" =>
            /\ response[i].part # "half"
            /\ response[j].type = "call" /\ i # j => response[i].n # response[j].n

CallsWhole == \A r \in Turns : Whole(asking[r].response)

(* What a turn has read and what it has yet to read is what its stream has *)
(* sent: nothing of the attempts that failed before is in the response.    *)
ResponseIsOneStream ==
    \A r \in Turns : asking[r].pc = "reading" =>
        asking[r].response \o chan[r] = wire[r].sent

(* A stream that was cut by the cancellation token never counts as an      *)
(* answer, and so resets no breaker.                                       *)
CutNeverAnswers == \A r \in Turns : asking[r].pc = "answered" => ~wire[r].cut

(* A provider that is waited for without a deadline: no response has       *)
(* begun, or the stream is one of kind anthropic.                          *)
Unbounded(r) ==
    /\ Alive(r) /\ ~asking[r].cancelled
    /\ ~wire[r].open \/ wire[r].kind = "anthropic"

(* A turn that has asked comes to an end, through stalls, errors, retries  *)
(* and cancellation, unless a provider that is waited for without a        *)
(* deadline is silent for ever.                                            *)
TurnSettles ==
    \A r \in Turns :
        \/ asking[r].pc = "reading" ~> asking[r].pc \in {"answered", "failed", "cancelled"}
        \/ <>[]Unbounded(r)

(* The producing task and the turn are scheduled; nothing is assumed of    *)
(* the server and of the user.                                             *)
CoreFairness == \A r \in Turns : WF_coreVars(Read(r) \/ Retry(r) \/ Stalled(r) \/ Cut(r))
CoreFairSpec == CoreSpec /\ CoreFairness

(* The breakers that turns share agree with the router: the provider on    *)
(* probe is the active one, and an open one is used only if all are.       *)
BreakersSound == CoreTypeOK /\ ProbeIsActive /\ OpenOnlyIfAllOpen

(* An answer is what one attempt streamed to its end: its calls are as the *)
(* provider ended them, nothing of an earlier attempt is in it, and a      *)
(* stream that was cut is no answer.                                       *)
AnswersWhole == CallsWhole /\ ResponseIsOneStream /\ CutNeverAnswers
=============================================================================
