--------------------------- MODULE SessionGateway ---------------------------
(***************************************************************************)
(* How runs are started, queued, cancelled and ended: the rin socket       *)
(* (dui_gateway/rin.rs), HTTP /agent (agent.rs, events.rs, auth.rs), the   *)
(* IO consumer of bots and webhooks (tian_heaven/spawn.rs), the registry   *)
(* of cancellation tokens and the map of per-session locks.                *)
(*                                                                         *)
(* A request is one message that starts a run; r is also the name of its   *)
(* cancellation token and of the lock it may create.  The inside of a run  *)
(* is in AgentLoop: here it loads the session, saves, and returns, having  *)
(* sent Done or Error unless it was cancelled.                             *)
(***************************************************************************)
EXTENDS Integers, FiniteSets

CONSTANTS
    Sessions,
    Kinds,       \* "rin", "http", "io": how requests arrive
    IoPermits,   \* permits of the IO consumer's semaphore
    MaxRequests, \* bound: requests
    MaxSteers    \* bound: steer messages of priority Now

ASSUME GatewayAssumption ==
    /\ Sessions # {}
    /\ Kinds \subseteq {"rin", "http", "io"}
    /\ IoPermits \in Nat \ {0}
    /\ MaxRequests \in Nat /\ MaxSteers \in Nat

Requests == 1..MaxRequests
None == 0

VARIABLES
    arrived,   \* requests so far
    kind, session,
    isNew,     \* a rin request that made its session
    pc,
    cancelled, \* the request's cancellation token
    tokens,    \* SessionTokens: session -> request whose token is registered
    lockOf,    \* session_locks: session -> lock
    ref,       \* the lock (Arc) a request's task holds a reference to
    holder,    \* lock -> request that holds it
    now,       \* steer queue: whether a Now message waits
    steers,
    row,       \* sessions in the table
    stored,    \* session -> requests whose messages its row holds
    loaded,    \* the history a run works on, likewise
    finished   \* Done or Error was sent to the collector of an IO input

arrival == <<arrived, kind, session, isNew>>
locks == <<lockOf, ref, holder>>
store == <<row, stored, loaded>>
vars == <<arrived, kind, session, isNew, pc, cancelled, tokens, lockOf, ref,
          holder, now, steers, row, stored, loaded, finished>>

Init ==
    /\ arrived = 0
    /\ kind = [r \in Requests |-> "none"]
    /\ session = [r \in Requests |-> CHOOSE s \in Sessions : TRUE]
    /\ isNew = [r \in Requests |-> FALSE]
    /\ pc = [r \in Requests |-> "none"]
    /\ cancelled = [r \in Requests |-> FALSE]
    /\ tokens = [s \in Sessions |-> None]
    /\ lockOf = [s \in Sessions |-> None]
    /\ ref = [r \in Requests |-> None]
    /\ holder = [l \in Requests |-> None]
    /\ now = [s \in Sessions |-> FALSE]
    /\ steers = 0
    /\ row = {}
    /\ stored = [s \in Sessions |-> {}]
    /\ loaded = [r \in Requests |-> {}]
    /\ finished = [r \in Requests |-> FALSE]

Goto(r, to) == pc' = [pc EXCEPT ![r] = to]

-----------------------------------------------------------------------------
(* The registry of tokens.                                                 *)

(* Mutant: the session's id is registered in place of the token.           *)
register_SessionId(s, r) == tokens' = [tokens EXCEPT ![s] = s]

register(s, r) == tokens' = [tokens EXCEPT ![s] = r]
remove(s) == tokens' = [tokens EXCEPT ![s] = None]

cancel(s) ==
    /\ cancelled' = IF tokens[s] = None THEN cancelled
                    ELSE [cancelled EXCEPT ![tokens[s]] = TRUE]
    /\ remove(s)

(* Mutant: strong_count > 2: a lock with one user is dropped from the map. *)
session_lock_DropsHeld(r, s) ==
    LET live == [t \in Sessions |->
                   IF Cardinality({q \in Requests : ref[q] = lockOf[t]}) > 1
                   THEN lockOf[t] ELSE None]
        l == IF live[s] = None THEN r ELSE live[s]
    IN  /\ lockOf' = [live EXCEPT ![s] = l]
        /\ ref' = [ref EXCEPT ![r] = l]

(* A task looks its session's lock up: entries that only the map refers to *)
(* are dropped, then the entry is found or made.                           *)
session_lock(r, s) ==
    LET live == [t \in Sessions |->
                   IF \E q \in Requests : ref[q] = lockOf[t] THEN lockOf[t] ELSE None]
        l == IF live[s] = None THEN r ELSE live[s]
    IN  /\ lockOf' = [live EXCEPT ![s] = l]
        /\ ref' = [ref EXCEPT ![r] = l]

(* The task ends: its guard and its reference to the lock are dropped.     *)
Released(r) ==
    /\ holder' = [l \in Requests |-> IF holder[l] = r THEN None ELSE holder[l]]
    /\ ref' = [ref EXCEPT ![r] = None]
    /\ UNCHANGED lockOf

-----------------------------------------------------------------------------
(* Requests arrive.                                                        *)

Arrive(r, k, s, new) ==
    /\ r = arrived + 1
    /\ k \in Kinds
    /\ arrived' = r
    /\ kind' = [kind EXCEPT ![r] = k]
    /\ session' = [session EXCEPT ![r] = s]
    /\ isNew' = [isNew EXCEPT ![r] = new]

(* A new session gets a fresh id and its row, before the token; an id that *)
(* the request names is taken as it is, with a row or without one.         *)
CreateRow(s, new) ==
    /\ new => s \notin row /\ tokens[s] = None /\ stored[s] = {}
              /\ \A q \in 1..arrived : session[q] # s
    /\ row' = IF new THEN row \cup {s} ELSE row

(* The session line is written to the socket before the lock is looked up. *)
RinAgent(r, s, new) ==
    /\ Arrive(r, "rin", s, new)
    /\ CreateRow(s, new)
    /\ register(s, r)
    /\ Goto(r, "spawned")
    /\ UNCHANGED <<cancelled, locks, now, steers, stored, loaded, finished>>

handle_agent(r, s, new) ==
    /\ Arrive(r, "http", s, FALSE)
    /\ CreateRow(s, new)
    /\ register(s, r)
    /\ Goto(r, "spawned")
    /\ UNCHANGED <<cancelled, locks, now, steers, stored, loaded, finished>>

GetLock(r) ==
    /\ pc[r] = "spawned"
    /\ session_lock(r, session[r])
    /\ Goto(r, "waiting")
    /\ UNCHANGED <<arrival, cancelled, tokens, holder, now, steers, store, finished>>

Active(r) == kind[r] = "io" /\ pc[r] # "ended"

(* One input per source is worked on at a time: others are dropped.        *)
IoInput(r, s) ==
    /\ Arrive(r, "io", s, FALSE)
    /\ ~ \E q \in 1..arrived : Active(q) /\ session[q] = s
    /\ Goto(r, "permit")
    /\ UNCHANGED <<cancelled, tokens, locks, now, steers, store, finished>>

AcquirePermit(r) ==
    /\ pc[r] = "permit"
    /\ Cardinality({q \in Requests : Active(q) /\ pc[q] # "permit"}) < IoPermits
    /\ session_lock(r, session[r])
    /\ Goto(r, "waiting")
    /\ UNCHANGED <<arrival, cancelled, tokens, holder, now, steers, store, finished>>

-----------------------------------------------------------------------------
(* The rows of the sessions table.                                         *)

delete_session(s) ==
    /\ row' = row \ {s}
    /\ stored' = [stored EXCEPT ![s] = {}]

save_session(s, messages) ==
    /\ row' = row \cup {s}
    /\ stored' = [stored EXCEPT ![s] = messages]

-----------------------------------------------------------------------------
(* A task gets the lock, or sees that it is cancelled.                     *)

LockFree(r) == pc[r] = "waiting" /\ holder[ref[r]] = None

(* Mutant: the run starts from an empty history.                           *)
Begin_WithoutHistory(r) ==
    /\ LockFree(r)
    /\ kind[r] = "rin" => ~cancelled[r]
    /\ holder' = [holder EXCEPT ![ref[r]] = r]
    /\ row' = IF kind[r] = "io" THEN row \cup {session[r]} ELSE row
    /\ loaded' = [loaded EXCEPT ![r] = {}]
    /\ Goto(r, "running")
    /\ UNCHANGED <<arrival, cancelled, tokens, lockOf, ref, now, steers, stored,
                   finished>>

Begin(r) ==
    /\ LockFree(r)
    /\ kind[r] = "rin" => ~cancelled[r]
    /\ holder' = [holder EXCEPT ![ref[r]] = r]
    /\ row' = IF kind[r] = "io" THEN row \cup {session[r]} ELSE row
    /\ loaded' = [loaded EXCEPT ![r] = stored[session[r]]]
    /\ Goto(r, "running")
    /\ UNCHANGED <<arrival, cancelled, tokens, lockOf, ref, now, steers, stored,
                   finished>>

(* Mutant: a rejected request does not release the session's lock.         *)
Reject_KeepsLock(r) ==
    /\ LockFree(r)
    /\ kind[r] # "io"
    /\ kind[r] = "rin" => ~cancelled[r]
    /\ holder' = [holder EXCEPT ![ref[r]] = r]
    /\ remove(session[r])
    /\ Goto(r, "ended")
    /\ UNCHANGED <<arrival, cancelled, lockOf, ref, now, steers, store, finished>>

(* No valid project directory: Error and Done, nothing is run.             *)
Reject(r) ==
    /\ LockFree(r)
    /\ kind[r] # "io"
    /\ kind[r] = "rin" => ~cancelled[r]
    /\ remove(session[r])
    /\ Released(r)
    /\ Goto(r, "ended")
    /\ UNCHANGED <<arrival, cancelled, now, steers, store, finished>>

(* Mutant: a request that is cancelled while it waits stays registered.    *)
BailOut_KeepsToken(r) ==
    /\ pc[r] = "waiting"
    /\ kind[r] # "io"
    /\ cancelled[r]
    /\ Released(r)
    /\ Goto(r, "ended")
    /\ UNCHANGED <<arrival, cancelled, tokens, now, steers, store, finished>>

(* The cancelled branch of the select, or the re-check behind the lock,    *)
(* which leaves the row of a new session behind.                           *)
BailOut(r) ==
    /\ pc[r] = "waiting"
    /\ kind[r] # "io"
    /\ cancelled[r]
    /\ \/ /\ isNew[r] /\ kind[r] = "rin"
          /\ delete_session(session[r])
       \/ /\ isNew[r] /\ kind[r] = "rin" => LockFree(r)
          /\ UNCHANGED <<row, stored>>
    /\ remove(session[r])
    /\ Released(r)
    /\ Goto(r, "ended")
    /\ UNCHANGED <<arrival, cancelled, now, steers, loaded, finished>>

-----------------------------------------------------------------------------
(* The run.                                                                *)

Save(r) ==
    /\ loaded' = [loaded EXCEPT ![r] = loaded[r] \cup {r}]
    /\ save_session(session[r], loaded[r] \cup {r})

save_history_now(r) ==
    /\ pc[r] = "running"
    /\ r \notin stored[session[r]]
    /\ Save(r)
    /\ UNCHANGED <<arrival, pc, cancelled, tokens, locks, now, steers, finished>>

(* A checkpoint finds a Now message: it cancels the run itself.            *)
Checkpoint(r) ==
    /\ pc[r] = "running"
    /\ now[session[r]]
    /\ now' = [now EXCEPT ![session[r]] = FALSE]
    /\ cancelled' = [cancelled EXCEPT ![r] = TRUE]
    /\ Save(r)
    /\ Goto(r, "post")
    /\ UNCHANGED <<arrival, tokens, locks, steers, finished>>

RunReturns(r) ==
    /\ pc[r] = "running"
    /\ \E sent \in BOOLEAN :
          /\ ~cancelled[r] => sent
          /\ finished' = [finished EXCEPT ![r] = sent /\ kind[r] = "io"]
    /\ now' = [now EXCEPT ![session[r]] = FALSE]
    /\ Goto(r, "post")
    /\ UNCHANGED <<arrival, cancelled, tokens, locks, steers, store>>

(* post_loop saves; then rin and HTTP requests end, an IO one waits for    *)
(* the collector of its events.                                            *)
PostLoop(r) ==
    /\ pc[r] = "post"
    /\ Save(r)
    /\ IF kind[r] = "io"
       THEN Goto(r, "collect") /\ UNCHANGED <<tokens, locks>>
       ELSE Goto(r, "ended") /\ remove(session[r]) /\ Released(r)
    /\ UNCHANGED <<arrival, cancelled, now, steers, finished>>

(* The collector stops at Done or Error; the other end of its channel is   *)
(* held by the waiting task itself.                                        *)
Collected(r) ==
    /\ pc[r] = "collect"
    /\ finished[r]
    /\ Released(r)
    /\ Goto(r, "ended")
    /\ UNCHANGED <<arrival, cancelled, tokens, now, steers, store, finished>>

(* IO_SESSION_TIMEOUT_SECS *)
IoTimeout(r) ==
    /\ pc[r] = "running"
    /\ kind[r] = "io"
    /\ cancelled' = [cancelled EXCEPT ![r] = TRUE]
    /\ finished' = [finished EXCEPT ![r] = TRUE]
    /\ Released(r)
    /\ Goto(r, "ended")
    /\ UNCHANGED <<arrival, tokens, now, steers, store>>

-----------------------------------------------------------------------------
(* What clients do meanwhile.                                              *)

handle_cancel(s) ==
    /\ tokens[s] # None
    /\ cancel(s)
    /\ UNCHANGED <<arrival, pc, locks, now, steers, store, finished>>

handle_steer(s) ==
    /\ steers < MaxSteers
    /\ s \in row
    /\ steers' = steers + 1
    /\ now' = [now EXCEPT ![s] = TRUE]
    /\ cancel(s)
    /\ UNCHANGED <<arrival, pc, locks, store, finished>>

(* The SSE stream of an HTTP request is dropped: CancelOnDropStream.       *)
Disconnect(r) ==
    /\ kind[r] = "http"
    /\ pc[r] \in {"spawned", "waiting", "running", "post"}
    /\ ~cancelled[r]
    /\ cancelled' = [cancelled EXCEPT ![r] = TRUE]
    /\ UNCHANGED <<arrival, pc, tokens, locks, now, steers, store, finished>>

handle_delete_session(s) ==
    /\ s \in row
    /\ delete_session(s)
    /\ UNCHANGED <<arrival, pc, cancelled, tokens, locks, now, steers, loaded,
                   finished>>

TaskStep(r) ==
    \/ GetLock(r) \/ AcquirePermit(r) \/ Begin(r) \/ Reject(r) \/ BailOut(r)
    \/ RunReturns(r) \/ PostLoop(r) \/ Collected(r)

Next ==
    \/ \E r \in Requests, s \in Sessions, new \in BOOLEAN :
          RinAgent(r, s, new) \/ handle_agent(r, s, new)
    \/ \E r \in Requests, s \in Sessions : IoInput(r, s)
    \/ \E r \in Requests : TaskStep(r)
    \/ \E r \in Requests : save_history_now(r) \/ Checkpoint(r) \/ IoTimeout(r)
                           \/ Disconnect(r)
    \/ \E s \in Sessions :
          handle_cancel(s) \/ handle_steer(s) \/ handle_delete_session(s)

Spec == Init /\ [][Next]_vars

(* Spawned tasks are polled until they end; a run returns (AgentLoop).     *)
FairSpec == Spec /\ \A r \in Requests : WF_vars(TaskStep(r))

-----------------------------------------------------------------------------
(* Properties.                                                             *)

InRun(r) == pc[r] \in {"running", "post", "collect"}

TypeOK ==
    /\ arrived \in 0..MaxRequests
    /\ kind \in [Requests -> Kinds \cup {"none"}]
    /\ session \in [Requests -> Sessions]
    /\ isNew \in [Requests -> BOOLEAN]
    /\ pc \in [Requests -> {"none", "spawned", "permit", "waiting", "running",
                            "post", "collect", "ended"}]
    /\ cancelled \in [Requests -> BOOLEAN]
    /\ tokens \in [Sessions -> Requests \cup {None}]
    /\ lockOf \in [Sessions -> Requests \cup {None}]
    /\ ref \in [Requests -> Requests \cup {None}]
    /\ holder \in [Requests -> Requests \cup {None}]
    /\ now \in [Sessions -> BOOLEAN]
    /\ steers \in 0..MaxSteers
    /\ row \subseteq Sessions
    /\ stored \in [Sessions -> SUBSET Requests]
    /\ loaded \in [Requests -> SUBSET Requests]
    /\ finished \in [Requests -> BOOLEAN]

(* Runs of one session never overlap, whichever door they came through and *)
(* whatever lock entries are dropped and made again in between.            *)
RunsSerialised ==
    \A q, r \in Requests :
        q # r /\ InRun(q) /\ InRun(r) => session[q] # session[r]

(* A save never overwrites what another run of the session has saved: only *)
(* deleting the session removes messages.                                  *)
NoLostWrite ==
    [][\A s \in Sessions : s \in row' => stored[s] \subseteq stored'[s]]_vars

(* The registry lists no ghosts: the token it holds for a session belongs  *)
(* to a request that has not ended.                                        *)
NoGhosts == \A s \in Sessions : tokens[s] # None => pc[tokens[s]] # "ended"

(* An input that was cancelled before Done or Error was sent: nobody tells *)
(* its collector, whose channel stays open.                                *)
Stranded(q) == pc[q] = "collect" /\ ~finished[q]

(* Every request is served or refused, unless an input of a bot or a       *)
(* webhook is stranded, which keeps its session's lock and its permit.     *)
(* Requests are finitely many here, so that each one ends if and only if a *)
(* time comes when none is left.                                           *)
Served ==
    (\E r \in Requests : pc[r] \notin {"none", "ended"})
        ~> \/ \A r \in Requests : pc[r] \in {"none", "ended"}
           \/ \E q \in Requests : Stranded(q)

(* Requests of a session stay apart: their runs do not overlap and none    *)
(* leaves its token to another.                                            *)
RunsApart == TypeOK /\ RunsSerialised /\ NoGhosts
=============================================================================
