--------------------------- MODULE LanguageServer ---------------------------
(***************************************************************************)
(* LspManager (palaces/zhen_tool/builtin/exec/lsp.rs): one long-lived      *)
(* language server, spoken to over pipes by the threads of navigation      *)
(* calls and of the diagnostics after an edit.  The lock of the manager is *)
(* held for a whole operation.  Navigation waits for ever; diagnostics     *)
(* carry a deadline, which may pass between the two halves of a message    *)
(* and leaves in the pipe whatever the server says later.  The deadline is *)
(* looked at before a read, and not in it, nor in a write.                 *)
(*                                                                         *)
(* The server is external: it answers requests in order when it wants to,  *)
(* refuses a second initialize, publishes diagnostics of what was opened,  *)
(* may stop in the middle of a line or a body, and may die.                *)
(***************************************************************************)
EXTENDS Naturals, Sequences, FiniteSets

CONSTANTS
    LspThreads,     \* blocking threads
    LspFiles,       \* files of one language
    MessageBudget,  \* messages read while waiting for publishDiagnostics: 200
    StdinHolds,     \* messages in the server's stdin that leave room for a text
    MaxOperations,  \* bound: operations begun
    MaxPublished    \* bound: notifications of the server

None == "none"

ASSUME LspAssumption ==
    /\ None \notin LspThreads \cup LspFiles
    /\ MessageBudget \in Nat /\ StdinHolds \in Nat /\ MaxOperations \in Nat /\ MaxPublished \in Nat

VARIABLES
    server,     \* the process: spawned, alive, ..., halves not yet all written
    handle,     \* LspServerHandle: present, initialized, pull_diagnostics, next_id
    lspLock,    \* the lock of servers
    inbox,      \* messages on the server's stdin
    outbox,     \* halves of messages on its stdout
    thread,     \* every thread: operation, place, id it waits for, ...
    operations  \* operations begun

lspVars == <<server, handle, lspLock, inbox, outbox, thread, operations>>

(* A file, and the operation that opens it.                                *)
NoDoc == <<None, 0>>

Idle == [pc |-> "idle", op |-> None, doc |-> NoDoc, id |-> 0, body |-> FALSE, blocked |-> FALSE,
         budget |-> 0, got |-> 0, about |-> NoDoc]

LspInit ==
    /\ server = [spawned |-> 0, alive |-> FALSE, inits |-> 0, pull |-> FALSE, published |-> 0, held |-> 0]
    /\ handle = [present |-> FALSE, initialized |-> FALSE, pull |-> FALSE, next_id |-> 1]
    /\ lspLock = None
    /\ inbox = << >> /\ outbox = << >>
    /\ thread = [t \in LspThreads |-> Idle]
    /\ operations = 0

Reading(t) == thread[t].pc \in {"initialize", "request", "publish"}

-----------------------------------------------------------------------------
(* run_operation and fetch_diagnostics read the file, then take the lock.  *)
Begin(t, op, f) ==
    /\ thread[t].pc = "idle" /\ operations < MaxOperations
    /\ operations' = operations + 1
    /\ thread' = [thread EXCEPT ![t] = [Idle EXCEPT !.pc = "lock", !.op = op, !.doc = <<f, operations + 1>>]]
    /\ UNCHANGED <<server, handle, lspLock, inbox, outbox>>

(* An error gives the lock back; the handle stays in the map.              *)
Fail(t) ==
    /\ lspLock' = None
    /\ thread' = [thread EXCEPT ![t] = Idle]

(* request_with_deadline takes the next id and writes the request; a write *)
(* to a dead server fails, and so does the operation.                      *)
Ask(t, id, alive, method, pc) ==
    IF ~alive THEN Fail(t) /\ UNCHANGED inbox
    ELSE /\ inbox' = Append(inbox, [method |-> method, id |-> id, doc |-> thread[t].doc])
         /\ thread' = [thread EXCEPT ![t].pc = pc, ![t].id = id, ![t].body = FALSE]
         /\ lspLock' = t

(* spawn_server: it is not installed, or a process is started.             *)
spawn_server(t) ==
    /\ thread[t].pc = "lock" /\ lspLock = None /\ ~handle.present
    /\ \/ /\ thread' = [thread EXCEPT ![t] = Idle]
          /\ UNCHANGED <<server, handle, lspLock, inbox>>
       \/ \E pull \in BOOLEAN :
          /\ server' = [server EXCEPT !.spawned = @ + 1, !.alive = TRUE, !.pull = pull]
          /\ handle' = [present |-> TRUE, initialized |-> FALSE, pull |-> FALSE, next_id |-> 2]
          /\ Ask(t, 1, TRUE, "initialize", "initialize")
    /\ UNCHANGED <<outbox, operations>>

(* The lock is taken with a server in the map: initialize again unless it  *)
(* was done, else did_open.                                                *)
Acquire(t) ==
    /\ thread[t].pc = "lock" /\ lspLock = None /\ handle.present
    /\ IF handle.initialized
       THEN /\ lspLock' = t
            /\ thread' = [thread EXCEPT ![t].pc = "open"]
            /\ UNCHANGED <<handle, inbox>>
       ELSE /\ handle' = [handle EXCEPT !.next_id = @ + 1]
            /\ Ask(t, handle.next_id, server.alive, "initialize", "initialize")
    /\ UNCHANGED <<server, outbox, operations>>

(* The text of a file is written to a pipe that the server does not read.  *)
WriteBlocks(t) == thread[t].pc = "open" /\ server.alive /\ Len(inbox) > StdinHolds

(* did_open, then what the operation is about: a request of its own, the   *)
(* pull of diagnostics, or waiting for the notification.                   *)
did_open(t) ==
    /\ thread[t].pc = "open" /\ ~WriteBlocks(t)
    /\ IF ~server.alive THEN Fail(t) /\ UNCHANGED <<handle, inbox>>
       ELSE IF thread[t].op = "diagnostics" /\ ~handle.pull
       THEN /\ inbox' = Append(inbox, [method |-> "didOpen", id |-> 0, doc |-> thread[t].doc])
            /\ thread' = [thread EXCEPT ![t].pc = "publish", ![t].budget = MessageBudget,
                                        ![t].body = FALSE]
            /\ UNCHANGED <<handle, lspLock>>
       ELSE /\ handle' = [handle EXCEPT !.next_id = @ + 1]
            /\ inbox' = inbox \o <<[method |-> "didOpen", id |-> 0, doc |-> thread[t].doc],
                                   [method |-> thread[t].op, id |-> handle.next_id, doc |-> thread[t].doc]>>
            /\ thread' = [thread EXCEPT ![t].pc = "request", ![t].id = handle.next_id,
                                        ![t].body = FALSE]
            /\ UNCHANGED lspLock
    /\ UNCHANGED <<server, outbox, operations>>

-----------------------------------------------------------------------------
(* The body of a message whose header was read before an earlier deadline. *)
LeftOver(t) == ~thread[t].body /\ Head(outbox).half = "body"

(* What a read takes is in the pipe to its end; a body left over does not  *)
(* end a line, and only the header after it does.                          *)
Readable(t) ==
    outbox # << >> /\ Len(outbox) - server.held >= (IF LeftOver(t) THEN 2 ELSE 1)

(* read_message: the header, up to its empty line, then the body.  What is *)
(* left over is taken for a header together with the one that follows: an  *)
(* error.                                                                  *)
ReadHeader(t) ==
    /\ Reading(t) /\ ~thread[t].body /\ Readable(t)
    /\ IF LeftOver(t)
       THEN /\ outbox' = Tail(Tail(outbox))
            /\ Fail(t)
       ELSE /\ thread' = [thread EXCEPT ![t].body = TRUE, ![t].blocked = FALSE]
            /\ outbox' = Tail(outbox)
            /\ UNCHANGED lspLock
    /\ UNCHANGED <<server, handle, inbox, operations>>

(* wait_readable sees bytes, and the read waits for the rest of them.      *)
ReadBlocks(t) ==
    /\ Reading(t) /\ ~thread[t].blocked /\ server.alive
    /\ outbox # << >> /\ ~Readable(t)
    /\ thread' = [thread EXCEPT ![t].blocked = TRUE]
    /\ UNCHANGED <<server, handle, lspLock, inbox, outbox, operations>>

(* Mutant: any answer will do.                                             *)
Mine_Any(t, m) == m.id # 0

(* The response that the request waits for.                                *)
Mine(t, m) == m.id = thread[t].id

(* Mutant: the notification of any file will do.                           *)
Published_Any(t, m) == m.method = "publishDiagnostics"

(* The notification of the file.                                           *)
Published(t, m) == m.method = "publishDiagnostics" /\ m.doc[1] = thread[t].doc[1]

(* The end of an operation, with what it got: the response with an id, or  *)
(* the notification about a file.                                          *)
Return(t, id, about) ==
    /\ lspLock' = None
    /\ thread' = [thread EXCEPT ![t] = [Idle EXCEPT !.op = thread[t].op, !.doc = thread[t].doc,
                                                    !.id = thread[t].id, !.got = id, !.about = about]]

ReadBody(t) ==
    /\ Reading(t) /\ thread[t].body /\ Readable(t)
    /\ outbox' = Tail(outbox)
    /\ LET m == Head(outbox)
           Go(budget) == thread' = [thread EXCEPT ![t].body = FALSE, ![t].blocked = FALSE,
                                                  ![t].budget = budget]
       IN  CASE thread[t].pc = "publish" /\ Published(t, m) ->
                    Return(t, 0, m.doc) /\ UNCHANGED handle
             [] thread[t].pc = "publish" /\ ~Published(t, m) ->
                    /\ IF thread[t].budget > 1 THEN Go(thread[t].budget - 1) /\ UNCHANGED lspLock
                       ELSE Fail(t)
                    /\ UNCHANGED handle
             [] thread[t].pc # "publish" /\ ~Mine(t, m) ->
                    Go(0) /\ UNCHANGED <<lspLock, handle>>
             [] thread[t].pc # "publish" /\ Mine(t, m) /\ m.error ->
                    Fail(t) /\ UNCHANGED handle
             [] thread[t].pc = "initialize" /\ Mine(t, m) /\ ~m.error ->
                    /\ handle' = [handle EXCEPT !.initialized = TRUE, !.pull = server.pull]
                    /\ thread' = [thread EXCEPT ![t].pc = "open", ![t].blocked = FALSE]
                    /\ UNCHANGED lspLock
             [] thread[t].pc = "request" /\ Mine(t, m) /\ ~m.error ->
                    Return(t, m.id, NoDoc) /\ UNCHANGED handle
    /\ UNCHANGED <<server, inbox, operations>>

(* The pipe of a dead server is closed when what it wrote is read.         *)
Closed(t) ==
    /\ Reading(t) /\ ~server.alive /\ ~Readable(t)
    /\ outbox' = << >>
    /\ Fail(t)
    /\ UNCHANGED <<server, handle, inbox, operations>>

(* Mutant: the handshake has no deadline.                                  *)
Bounded_NotInit(t) == thread[t].op = "diagnostics" /\ thread[t].pc # "initialize"

(* The deadline: only diagnostics have one.                                *)
Bounded(t) == thread[t].op = "diagnostics"

Timeout(t) ==
    /\ Reading(t) /\ ~thread[t].blocked /\ Bounded(t)
    /\ Fail(t)
    /\ UNCHANGED <<server, handle, inbox, outbox, operations>>

-----------------------------------------------------------------------------
Message(method, id, error, doc) ==
    <<[half |-> "header"], [half |-> "body", method |-> method, id |-> id, error |-> error, doc |-> doc]>>

(* The server takes the next message; it may keep silent about it, and of  *)
(* what it says the last halves may not yet be in the pipe to their end.   *)
Serve ==
    /\ server.alive /\ inbox # << >> /\ server.held = 0
    /\ inbox' = Tail(inbox)
    /\ \E held \in 0..2 :
       LET m == Head(inbox)
       IN  \/ held = 0 /\ outbox' = outbox /\ UNCHANGED server
           \/ /\ m.method = "initialize"
              /\ outbox' = outbox \o Message("response", m.id, server.inits > 0, m.doc)
              /\ server' = [server EXCEPT !.inits = @ + 1, !.held = held]
           \/ /\ m.method = "didOpen" /\ server.published < MaxPublished
              /\ outbox' = outbox \o Message("publishDiagnostics", 0, FALSE, m.doc)
              /\ server' = [server EXCEPT !.published = @ + 1, !.held = held]
           \/ /\ m.method \in {"navigate", "diagnostics"}
              /\ \E error \in BOOLEAN : outbox' = outbox \o Message("response", m.id, error, m.doc)
              /\ server' = [server EXCEPT !.held = held]
    /\ UNCHANGED <<handle, lspLock, thread, operations>>

(* The server writes the rest of a half.                                   *)
WriteRest ==
    /\ server.alive /\ server.held > 0
    /\ server' = [server EXCEPT !.held = @ - 1]
    /\ UNCHANGED <<handle, lspLock, inbox, outbox, thread, operations>>

Die ==
    /\ server.alive
    /\ server' = [server EXCEPT !.alive = FALSE]
    /\ UNCHANGED <<handle, lspLock, inbox, outbox, thread, operations>>

LspStep(t) ==
    \/ spawn_server(t) \/ Acquire(t) \/ did_open(t)
    \/ ReadHeader(t) \/ ReadBody(t) \/ ReadBlocks(t) \/ Closed(t) \/ Timeout(t)

LspNext ==
    \/ \E t \in LspThreads : \/ \E op \in {"navigate", "diagnostics"}, f \in LspFiles : Begin(t, op, f)
                             \/ LspStep(t)
    \/ Serve \/ WriteRest \/ Die

(* The threads run and the deadline passes.  Nothing is said of the server.*)
LspFair == \E t \in LspThreads : LspStep(t)

LspSpec == LspInit /\ [][LspNext]_lspVars /\ WF_lspVars(LspFair)

-----------------------------------------------------------------------------
(* Type invariant.                                                         *)
LspTypeOK ==
    /\ lspLock \in LspThreads \cup {None}
    /\ \A t \in LspThreads : thread[t].pc \in
           {"idle", "lock", "open", "initialize", "request", "publish"}
    /\ handle.next_id \in Nat /\ server.spawned \in 0..1

(* A response is the answer to the very request, and diagnostics that were *)
(* published are about the file: what came after the deadline of an        *)
(* earlier operation, and stayed in the pipe, is passed over; but not what *)
(* was published about the same file before it was edited.                 *)
AnswersMatch ==
    \A t \in LspThreads : thread[t].pc = "idle" =>
        /\ thread[t].got # 0 => thread[t].got = thread[t].id
        /\ thread[t].about # NoDoc => thread[t].about[1] = thread[t].doc[1]

(* No thread of the diagnostics outlives its deadline with the lock,       *)
(* however silent the server is, unless the server has stopped in the      *)
(* middle of what it writes, or reads nothing more.                        *)
DiagnosticsLetGo ==
    \A t \in LspThreads :
        \/ []<>(lspLock # t \/ thread[t].op # "diagnostics")
        \/ <>[](thread[t].blocked \/ WriteBlocks(t))
=============================================================================
