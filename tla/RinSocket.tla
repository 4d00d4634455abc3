----------------------------- MODULE RinSocket ------------------------------
(***************************************************************************)
(* The daemon's side of the terminal clients' connections.                 *)
(*                                                                         *)
(* A connection has one writer, behind a tokio mutex, and several tasks    *)
(* that write lines to it: the reader loop, which answers requests in      *)
(* place, the forwarder of a run's events, the forwarder of cron notices,  *)
(* and the tasks of hello, which ask the user about the directory and      *)
(* report what came of it.  A line is written in two pieces.  The order in *)
(* which waiting tasks get the mutex is left open.  Notices come over a    *)
(* broadcast channel that keeps the last Retained of them.                 *)
(***************************************************************************)
EXTENDS Naturals, Sequences, FiniteSets

CONSTANTS Clients,      \* connections
          Uses,         \* sets of requests: what a client may send, once each
          Retained,     \* capacity of the broadcast channel: 64
          Room,         \* pieces the socket holds until the client reads
          MaxNotices,   \* cron jobs that complete
          MaxRunEvents  \* events of a run

ASSUME RinAssumption == Retained \in Nat \ {0} /\ Room \in Nat \ {0}

VARIABLES
    socket,     \* per client: none, open or closed (by the client)
    inbox,      \* requests the daemon has not read
    unsent,     \* requests the client has not sent
    writer,     \* per client and task: [pc, item], item the line it is at
    owner,      \* per client, the task that has the mutex
    notices,    \* notices sent to the broadcast channel
    passed,     \* per client, how many of them its receiver has passed
    joined,     \* how many there were when it subscribed
    emitted,    \* events of the client's run
    asked,      \* clients whose hello waits in pending_confirmations
    wire,       \* per client, the pieces written
    taken       \* how many of them the client has read

clientVars == <<socket, unsent, taken>>
noticeVars == <<notices, joined>>
rinVars == <<clientVars, noticeVars, inbox, writer, owner, passed, emitted, asked, wire>>

Writers == {"reader", "cron", "run", "ask", "hello"}

(* A line is named by what it is and, for events, its number.              *)
Stage(pc, what, n) == [pc |-> pc, item |-> <<what, n>>]
Awaits(n) == Stage("idle", "event", n)
NotYet == Stage("off", "none", 0)
Left == Stage("over", "none", 0)
OfLine(what, n) == Stage("lock", what, n)

RinInit ==
    /\ socket = [c \in Clients |-> "none"]
    /\ inbox = [c \in Clients |-> <<>>]
    /\ unsent \in [Clients -> Uses]
    /\ writer = [c \in Clients |-> [t \in Writers |-> NotYet]]
    /\ owner = [c \in Clients |-> "none"]
    /\ notices = 0
    /\ passed = [c \in Clients |-> 0] /\ joined = passed
    /\ emitted = passed
    /\ asked = {}
    /\ wire = [c \in Clients |-> <<>>] /\ taken = passed

-----------------------------------------------------------------------------
(* Clients.                                                                *)

(* The connection is accepted: its forwarder subscribes to the notices.    *)
handle_rin_connection(c) ==
    /\ socket[c] = "none"
    /\ socket' = [socket EXCEPT ![c] = "open"]
    /\ writer' = [writer EXCEPT ![c]["reader"] = Awaits(0), ![c]["cron"] = Awaits(0)]
    /\ passed' = [passed EXCEPT ![c] = notices] /\ joined' = [joined EXCEPT ![c] = notices]
    /\ UNCHANGED <<unsent, taken, notices, inbox, owner, emitted, asked, wire>>

Piece(c, t, part) == [line |-> writer[c][t].item, by |-> t, part |-> part]

(* A client sends each of its requests once, and answers the question of   *)
(* hello when it has read it.                                              *)
Request(c, m) ==
    /\ socket[c] = "open" /\ m \in unsent[c] \ {"long"}
    /\ m = "confirm" =>
        \E i \in 1..taken[c] : wire[c][i].by = "ask" /\ wire[c][i].part = "newline"
    /\ inbox' = [inbox EXCEPT ![c] = Append(@, m)]
    /\ unsent' = [unsent EXCEPT ![c] = @ \ {m}]
    /\ UNCHANGED <<socket, taken, noticeVars, writer, owner, passed, emitted, asked, wire>>

ClientReads(c) ==
    /\ socket[c] = "open" /\ taken[c] < Len(wire[c])
    /\ taken' = [taken EXCEPT ![c] = @ + 1]
    /\ UNCHANGED <<socket, unsent, noticeVars, inbox, writer, owner, passed, emitted, asked, wire>>

ClientCloses(c) ==
    /\ socket[c] = "open"
    /\ socket' = [socket EXCEPT ![c] = "closed"]
    /\ UNCHANGED <<unsent, taken, noticeVars, inbox, writer, owner, passed, emitted, asked, wire>>

-----------------------------------------------------------------------------
(* Writing a line.                                                         *)

(* A line is written: the forwarders and the reader wait for what is next, *)
(* the line of a session starts the forwarder of its run, and the tasks of *)
(* hello are over.                                                         *)
Written(c, t) ==
    IF t \in {"ask", "hello"} THEN [writer[c] EXCEPT ![t] = Left]
    ELSE [writer[c] EXCEPT ![t] = Awaits(@.item[2]),
                           !["run"] = IF writer[c][t].item = <<"agent", 0>> THEN Awaits(0) ELSE @]

(* Mutant: the forwarder of notices does not look at a write's result.     *)
Broken_Ignored(c, t) == IF t = "run" THEN [writer[c] EXCEPT ![t] = Left] ELSE Written(c, t)

(* A line cannot be written: forwarders leave, the others do not look.     *)
Broken(c, t) == IF t \in {"cron", "run"} THEN [writer[c] EXCEPT ![t] = Left] ELSE Written(c, t)

(* Mutant: the mutex is given up between the two pieces of a line.         *)
HoldsOn_Unlocks(t) == "none"

(* The guard lives to the end of its block, over both calls of write_all.  *)
HoldsOn(t) == t

(* Mutant: the socket takes a piece more than it has room for.             *)
Fits_OneMore(c) == Len(wire[c]) - taken[c] <= Room

Fits(c) == Len(wire[c]) - taken[c] < Room

WriteJson(c, t) ==
    /\ writer[c][t].pc = "lock" /\ owner[c] = "none" /\ socket[c] = "open" /\ Fits(c)
    /\ wire' = [wire EXCEPT ![c] = Append(@, Piece(c, t, "json"))]
    /\ writer' = [writer EXCEPT ![c][t].pc = "newline"]
    /\ owner' = [owner EXCEPT ![c] = HoldsOn(t)]
    /\ UNCHANGED <<clientVars, noticeVars, inbox, passed, emitted, asked>>

WriteNewline(c, t) ==
    /\ writer[c][t].pc = "newline" /\ socket[c] = "open" /\ Fits(c)
    /\ wire' = [wire EXCEPT ![c] = Append(@, Piece(c, t, "newline"))]
    /\ writer' = [writer EXCEPT ![c] = Written(c, t)]
    /\ owner' = [owner EXCEPT ![c] = "none"]
    /\ UNCHANGED <<clientVars, noticeVars, inbox, passed, emitted, asked>>

WriteFails(c, t) ==
    /\ socket[c] = "closed"
    /\ writer[c][t].pc = "newline" \/ (writer[c][t].pc = "lock" /\ owner[c] = "none")
    /\ writer' = [writer EXCEPT ![c] = Broken(c, t)]
    /\ owner' = [owner EXCEPT ![c] = "none"]
    /\ UNCHANGED <<clientVars, noticeVars, inbox, passed, emitted, asked, wire>>

-----------------------------------------------------------------------------
(* Notices of cron jobs.                                                   *)

(* A job completes; the forwarder of the daemon broadcasts it.             *)
spawn_cron_forwarder ==
    /\ notices < MaxNotices /\ notices' = notices + 1
    /\ UNCHANGED <<clientVars, joined, inbox, writer, owner, passed, emitted, asked, wire>>

(* Mutant: after a lag the receiver goes on with what comes next.          *)
CatchUp_Newest(c) == notices

(* What a receiver that lags receives next is the oldest retained.         *)
CatchUp(c) == notices - Retained

spawn_conn_cron_forwarder(c) ==
    /\ writer[c]["cron"].pc = "idle" /\ passed[c] < notices
    /\ IF notices - passed[c] > Retained
       THEN passed' = [passed EXCEPT ![c] = CatchUp(c)] /\ UNCHANGED writer
       ELSE /\ passed' = [passed EXCEPT ![c] = @ + 1]
            /\ writer' = [writer EXCEPT ![c]["cron"] = OfLine("event", passed[c] + 1)]
    /\ UNCHANGED <<clientVars, noticeVars, inbox, owner, emitted, asked, wire>>

-----------------------------------------------------------------------------
(* The reader loop.                                                        *)

Takes(c) ==
    /\ writer[c]["reader"].pc = "idle" /\ inbox[c] # <<>>
    /\ inbox' = [inbox EXCEPT ![c] = Tail(@)]

(* Mutant: the forwarder starts before the session's line is written.      *)
Started_Early(c, m) == IF m = "agent" THEN [writer[c] EXCEPT !["run"] = Awaits(0)] ELSE writer[c]

Started(c, m) == writer[c]

(* A request that is answered in place; a confirmation is resolved first.  *)
Answer(c) ==
    LET m == Head(inbox[c]) IN
    /\ Takes(c) /\ m # "hello"
    /\ writer' = [writer EXCEPT ![c] = [Started(c, m) EXCEPT !["reader"] = OfLine(m, 0)]]
    /\ asked' = IF m = "confirm" THEN asked \ {c} ELSE asked
    /\ UNCHANGED <<clientVars, noticeVars, owner, passed, emitted, wire>>

(* In a task of its own resolve_workspace finds a project, or asks whether *)
(* to make one and waits.                                                  *)
Hello(c, known) ==
    /\ Takes(c) /\ Head(inbox[c]) = "hello"
    /\ IF known
       THEN writer' = [writer EXCEPT ![c]["hello"] = OfLine("resolved", 0)] /\ UNCHANGED asked
       ELSE /\ writer' = [writer EXCEPT ![c]["ask"] = OfLine("question", 0),
                                        ![c]["hello"] = Stage("waits", "none", 0)]
            /\ asked' = asked \cup {c}
    /\ UNCHANGED <<clientVars, noticeVars, owner, passed, emitted, wire>>

(* Mutant: a question waits for its answer without a limit.                *)
WaitOver_Unlimited(c) == c \notin asked

(* The wait ends when the question is answered, or after 120 s.            *)
WaitOver(c) == TRUE

resolve_workspace(c) ==
    /\ writer[c]["hello"].pc = "waits" /\ WaitOver(c)
    /\ asked' = asked \ {c}
    /\ writer' = [writer EXCEPT ![c]["hello"] = OfLine("resolved", 0)]
    /\ UNCHANGED <<clientVars, noticeVars, inbox, owner, passed, emitted, wire>>

(* The end of the input, or a line of more than 1 MB: the loop returns.    *)
(* The writer lives on in the forwarders, so that the socket stays open.   *)
ReaderEnds(c) ==
    /\ writer[c]["reader"].pc = "idle"
    /\ (socket[c] = "closed" /\ inbox[c] = <<>>) \/ (socket[c] = "open" /\ "long" \in unsent[c])
    /\ writer' = [writer EXCEPT ![c]["reader"] = Left]
    /\ UNCHANGED <<clientVars, noticeVars, inbox, owner, passed, emitted, asked, wire>>

-----------------------------------------------------------------------------
(* The events of a run, which has its own channel without a bound.         *)

Emit(c) ==
    /\ writer[c]["run"].pc \in {"idle", "lock", "newline"} /\ emitted[c] < MaxRunEvents
    /\ emitted' = [emitted EXCEPT ![c] = @ + 1]
    /\ UNCHANGED <<clientVars, noticeVars, inbox, writer, owner, passed, asked, wire>>

ForwardEvent(c) ==
    /\ writer[c]["run"].pc = "idle" /\ writer[c]["run"].item[2] < emitted[c]
    /\ writer' = [writer EXCEPT ![c]["run"] = OfLine("event", @.item[2] + 1)]
    /\ UNCHANGED <<clientVars, noticeVars, inbox, owner, passed, emitted, asked, wire>>

-----------------------------------------------------------------------------
RinTask(c) ==
    \/ \E t \in Writers : WriteJson(c, t) \/ WriteNewline(c, t) \/ WriteFails(c, t)
    \/ spawn_conn_cron_forwarder(c) \/ Answer(c) \/ resolve_workspace(c) \/ ReaderEnds(c)
    \/ ForwardEvent(c) \/ \E known \in BOOLEAN : Hello(c, known)

RinNext ==
    \/ spawn_cron_forwarder
    \/ \E c \in Clients :
        \/ handle_rin_connection(c) \/ ClientReads(c) \/ ClientCloses(c) \/ Emit(c)
        \/ \E m \in UNION Uses : Request(c, m)
        \/ RinTask(c)

(* The tasks of the daemon are scheduled; clients need not read.           *)
RinFair == \E c \in Clients : RinTask(c)

RinSpec == RinInit /\ [][RinNext]_rinVars /\ WF_rinVars(RinFair)

-----------------------------------------------------------------------------
(* Type invariant of connections and their tasks.                          *)
RinTypeOK ==
    \A c \in Clients :
        /\ socket[c] \in {"none", "open", "closed"} /\ passed[c] \in joined[c]..notices
        /\ \A t \in Writers : writer[c][t].pc \in {"off", "idle", "lock", "newline", "waits", "over"}
        /\ taken[c] \in 0..Len(wire[c]) /\ Len(wire[c]) - taken[c] <= Room

(* Whatever tasks write to one connection at once, the client reads whole  *)
(* lines: the end of a line follows its text, and nothing comes between    *)
(* (the writer's mutex is held over both calls of write_all).              *)
LinesWhole ==
    \A c \in Clients : \A i \in DOMAIN wire[c] :
        IF i % 2 = 1 THEN wire[c][i].part = "json"
        ELSE wire[c][i] = [wire[c][i - 1] EXCEPT !.part = "newline"]

Text(c, t) == {i \in DOMAIN wire[c] : wire[c][i].part = "json" /\ wire[c][i].by = t}

(* A client learns of a run's session before the first of its events, and  *)
(* of its events in the order of the run, without a gap (the reader spawns *)
(* the forwarder when the session's line is written).                      *)
RunTold ==
    \A c \in Clients : \A i \in DOMAIN wire[c] :
        wire[c][i].by = "run" =>
            /\ \E j \in 1..(i - 1) : wire[c][j].line = <<"agent", 0>> /\ wire[c][j].part = "newline"
            /\ \A n \in 1..(wire[c][i].line[2] - 1) : \E j \in 1..(i - 1) :
                wire[c][j].by = "run" /\ wire[c][j].line[2] = n /\ wire[c][j].part = "newline"

(* A notice sent while a client is connected is written to it, or about to *)
(* be, unless Retained newer ones came before its forwarder had the time;  *)
(* none is written twice.                                                  *)
NoticesKept ==
    \A c \in Clients : writer[c]["cron"].pc \in {"idle", "lock", "newline"} =>
        /\ \A i, j \in Text(c, "cron") : i < j => wire[c][i].line[2] < wire[c][j].line[2]
        /\ \A n \in (joined[c] + 1)..passed[c] :
            \/ n = writer[c]["cron"].item[2]
            \/ \E i \in Text(c, "cron") : wire[c][i].line[2] = n
            \/ n <= notices - Retained

(* The forwarder of a connection that was closed ends with the next notice *)
(* and is not left behind for as long as the daemon lives.                 *)
ForwardersLeave ==
    \A c \in Clients :
        (socket[c] = "closed" /\ passed[c] < notices) ~> writer[c]["cron"].pc = "over"

(* The question of hello is withdrawn although its client has gone, which  *)
(* no sweep of sessions does for it (it has no session).                   *)
HelloLetGo == \A c \in Clients : c \in asked ~> c \notin asked

(* What a client reads makes sense: whole lines, of which those of a run   *)
(* follow the session they belong to without a gap, and cron notices that  *)
(* are lost to nothing but a lag.                                          *)
ClientTold == RinTypeOK /\ LinesWhole /\ RunTold /\ NoticesKept

(* Nothing waits for a client that has gone: neither the forwarders of its *)
(* connection nor the question of its hello.                               *)
ClientsLetGo == ForwardersLeave /\ HelloLetGo
=============================================================================
