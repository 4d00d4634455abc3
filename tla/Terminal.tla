------------------------------ MODULE Terminal ------------------------------
(***************************************************************************)
(* The terminal client (src/tui): its input modes, the lines of the active *)
(* turn, what of them is in the scrollback, the rollback of a retried      *)
(* stream, and the loss of the connection; with the runs of the daemon     *)
(* that its messages start (dui_gateway/rin.rs, ask_user.rs), as the       *)
(* client sees them.                                                       *)
(*                                                                         *)
(* A message is sent by a task of its own, so that messages may arrive in  *)
(* another order; an event of the daemon is handled when it arrives.       *)
(* A line has one row.  The text of an assistant line is a sequence of     *)
(* pieces <<run, stream, attempt, i>>; a session is named by the run that  *)
(* created it.                                                             *)
(***************************************************************************)
EXTENDS Integers, Sequences, FiniteSets, SequencesExt

CONSTANTS MaxRuns, MaxStreams, MaxAttempts, MaxDeltas, MaxAsks, MaxNotes, MaxKeys,
          NumOptions, Viewport,
          Chars, MaxInput, MaxHistory, Columns, InputRows,  \* of the input line: see below
          Words, MaxWords, RowWidth              \* of the rows of a line: see below

(* No character is wider than the screen.                                  *)
ASSUME WrappingAssumption == \A w \in Words : \A i \in 1..Len(w) : w[i] <= RowWidth

VARIABLES app,      \* App
          pc,       \* of run_app: "wait", "keys" (more are queued), "top"
          outbox,   \* messages not read by the daemon
          echoes,   \* answers to confirm and to late answers, not handled by the client
          runs, modes, asks, notes, keys,
          sent,     \* of each stream the attempt and the number of its pieces
          spoilt,   \* streams whose lines the user or another run interfered with
          cut       \* lines were removed that were in the scrollback

tuiVars == <<app, pc, outbox, echoes, runs, modes, asks, notes, keys, sent, spoilt, cut>>

daemon == <<outbox, echoes, runs, modes, asks, notes, sent>>

-----------------------------------------------------------------------------
Runs == 1..MaxRuns
Streams == Runs \X (1..MaxStreams)
Line(plain, text, option) == [plain |-> plain, text |-> text, option |-> option, pushed |-> 0]
Blank == Line(TRUE, <<>>, 0)
Note == Line(FALSE, <<>>, 0)
Normal == [kind |-> "Normal", id |-> 0, options |-> 0, selected |-> 0, first |-> 0]
NoAnchor == [kind |-> "None", line |-> 0, len |-> 0, of |-> <<0, 0>>]   \* of: the stream that set it

App(project) ==
    [mode |-> IF project THEN Normal ELSE [Normal EXCEPT !.kind = "Welcome"],
     lines |-> <<>>, history |-> <<>>, inserted |-> 0, finalize |-> FALSE, resize |-> FALSE,
     session |-> 0, status |-> "Done", planning |-> FALSE, connected |-> TRUE,
     allowed |-> project, anchor |-> NoAnchor, quit |-> FALSE]

TuiInit ==
    /\ \E project \in BOOLEAN : app = App(project)
    /\ pc = "top" /\ outbox = {} /\ echoes = {}
    /\ runs = [r \in Runs |-> [st |-> "none", session |-> 0, stream |-> 0, plan |-> FALSE, ask |-> 0]]
    /\ modes = [s \in Runs |-> "none"]
    /\ asks = 0 /\ notes = 0 /\ keys = 0
    /\ sent = [p \in Streams |-> [attempt |-> 1, n |-> 0]] /\ spoilt = {} /\ cut = FALSE

Texts(ls) == FlattenSeq([i \in DOMAIN ls |-> ls[i].text])
StreamsIn(ls) == {<<t[1], t[2]>> : t \in Range(Texts(ls))}
Streaming == {<<r, runs[r].stream>> : r \in {x \in Runs : runs[x].st = "stream"}}
Removed(ls, from, to) == SubSeq(ls, 1, from - 1) \o SubSeq(ls, to + 1, Len(ls))

-----------------------------------------------------------------------------
(* The loop of run_app: before it waits, rows that left the viewport go to *)
(* the scrollback, a resize rebuilds it, and a finished turn is moved to   *)
(* the history.                                                            *)
Push(ls, from, to) ==
    [i \in DOMAIN ls |-> IF i \in from..to THEN [ls[i] EXCEPT !.pushed = @ + 1] ELSE ls[i]]

flush_streaming_overflow(a) ==
    LET n == Len(a.lines) - Viewport
    IN  IF n > a.inserted
          THEN [a EXCEPT !.lines = Push(@, a.inserted + 1, n), !.inserted = n]
          ELSE a

reflow_on_resize(a) ==
    [a EXCEPT !.lines = [i \in DOMAIN @ |-> [@[i] EXCEPT !.pushed = 0]],
              !.history = [i \in DOMAIN @ |-> [@[i] EXCEPT !.pushed = 1]],
              !.inserted = 0, !.resize = FALSE]

finalize_active_turn(a) ==
    IF a.finalize /\ a.lines # <<>>
      THEN [a EXCEPT !.history = @ \o Push(a.lines, a.inserted + 1, Len(a.lines)),
                     !.lines = <<>>, !.inserted = 0, !.finalize = FALSE]
      ELSE [a EXCEPT !.finalize = FALSE]

LoopTop ==
    /\ pc = "top" /\ ~app.quit /\ pc' = "wait"
    /\ \E due \in {FALSE, app.resize} :
         LET flushed == flush_streaming_overflow(app)
         IN  app' = finalize_active_turn(IF due THEN reflow_on_resize(flushed) ELSE flushed)
    /\ UNCHANGED <<outbox, echoes, runs, modes, asks, notes, keys, sent, spoilt, cut>>

-----------------------------------------------------------------------------
(* Keys.  All that are queued are handled before the next turn of the loop.*)
Key == /\ pc \in {"wait", "keys"} /\ ~app.quit /\ keys < MaxKeys
       /\ keys' = keys + 1 /\ pc' \in {"keys", "top"}

KeepsLines == UNCHANGED <<spoilt, cut>>
Sends(msgs) == outbox' = IF app.connected THEN outbox \cup msgs ELSE outbox

Quit == /\ Key /\ app' = [app EXCEPT !.quit = TRUE] /\ KeepsLines /\ UNCHANGED daemon

WelcomeEnter(approve) ==
    /\ Key /\ app.mode.kind = "Welcome"
    /\ app' = IF approve THEN [app EXCEPT !.mode = Normal, !.allowed = TRUE]
                         ELSE [app EXCEPT !.quit = TRUE]
    /\ KeepsLines /\ UNCHANGED daemon

Resize == Key /\ app' = [app EXCEPT !.resize = TRUE] /\ KeepsLines /\ UNCHANGED daemon

send_set_mode(plan) == Sends({[type |-> "set_mode", session |-> app.session, plan |-> plan]})

BackTab ==
    /\ Key /\ app.mode = Normal
    /\ app' = [app EXCEPT !.planning = ~@] /\ send_set_mode(~app.planning)
    /\ KeepsLines /\ UNCHANGED <<echoes, runs, modes, asks, notes, sent>>

(* Mutant: what is in the scrollback is still counted.                     *)
ClearLines_KeepRows ==
    /\ Key /\ app.mode = Normal
    /\ app' = [app EXCEPT !.lines = <<>>]
    /\ spoilt' = spoilt \cup StreamsIn(app.lines) \cup Streaming
    /\ UNCHANGED <<cut, daemon>>

(* Ctrl+L.                                                                 *)
ClearLines ==
    /\ Key /\ app.mode = Normal
    /\ app' = [app EXCEPT !.lines = <<>>, !.inserted = 0]
    /\ spoilt' = spoilt \cup StreamsIn(app.lines) \cup Streaming
    /\ UNCHANGED <<cut, daemon>>

(* The view is reset at once: the daemon sends no Done for what it cancels.*)
Reset(a) == [a EXCEPT !.status = "Done", !.allowed = TRUE, !.anchor = NoAnchor]

send_cancel == Sends(IF app.session = 0 THEN {} ELSE {[type |-> "cancel", session |-> app.session]})

Escape ==
    /\ Key /\ app.mode = Normal /\ app.status = "Working"
    /\ app' = [Reset(app) EXCEPT !.lines = Append(@, Note)] /\ send_cancel
    /\ spoilt' = spoilt \cup Streaming /\ UNCHANGED <<cut, echoes, runs, modes, asks, notes, sent>>

send_agent_message ==
    \E r \in Runs :
        /\ runs[r].st = "none" /\ \A x \in 1..(r - 1) : runs[x].st # "none"
        /\ runs' = [runs EXCEPT ![r].st = "sent"]
        /\ Sends({[type |-> "agent", run |-> r, session |-> app.session]})
        /\ app' = [app EXCEPT !.lines = @ \o <<Blank, Note>>, !.status = "Working", !.allowed = FALSE]

Submit ==
    /\ Key /\ app.mode = Normal /\ app.allowed
    /\ \/ app.connected /\ send_agent_message /\ UNCHANGED notes
       \/ /\ ~app.connected /\ notes < MaxNotes /\ notes' = notes + 1
          /\ app' = [app EXCEPT !.lines = Append(@, Note)] /\ UNCHANGED <<outbox, runs>>
    /\ KeepsLines /\ UNCHANGED <<echoes, modes, asks, sent>>

PlanCommand(plan) ==
    /\ Key /\ app.mode = Normal /\ app.allowed /\ notes < MaxNotes /\ notes' = notes + 1
    /\ app' = [app EXCEPT !.lines = Append(@, Note)] /\ send_set_mode(plan)
    /\ KeepsLines /\ UNCHANGED <<echoes, runs, modes, asks, sent>>

(* A message typed while the agent works; only one that interrupts has an  *)
(* effect on what is modelled here.  Without a session nothing is sent and *)
(* nothing said; the text stays.                                           *)
SteerDropped ==
    /\ Key /\ app.mode = Normal /\ ~app.allowed /\ app.status = "Working" /\ app.session = 0
    /\ UNCHANGED <<app, spoilt, cut, daemon>>

send_steer(now) ==
    /\ Key /\ app.mode = Normal /\ ~app.allowed /\ app.status = "Working" /\ app.session # 0
    /\ notes < MaxNotes /\ notes' = notes + 1
    /\ app' = [(IF now THEN Reset(app) ELSE app) EXCEPT !.lines = Append(@, Note)]
    /\ Sends(IF now THEN {[type |-> "cancel", session |-> app.session]} ELSE {})
    /\ spoilt' = IF now THEN spoilt \cup Streaming ELSE spoilt
    /\ UNCHANGED <<cut, echoes, runs, modes, asks, sent>>

send_confirm ==
    /\ Key /\ app.mode.kind = "Confirm"
    /\ Sends({[type |-> "confirm", id |-> app.mode.id]}) /\ app' = [app EXCEPT !.mode = Normal]
    /\ KeepsLines /\ UNCHANGED <<echoes, runs, modes, asks, notes, sent>>

(* The lines of the panel, by the position that was noted when it came: an *)
(* index out of range ends the program.                                    *)
PanelFits == app.mode.first + NumOptions - 1 <= Len(app.lines)

Drain(a) == [a EXCEPT !.lines = Removed(@, app.mode.first - 1, app.mode.first + NumOptions - 1)]
Drained == /\ spoilt' = spoilt \cup Streaming \cup StreamsIn(SubSeq(app.lines, app.mode.first - 1, app.mode.first + NumOptions - 1))
           /\ cut' = (cut \/ app.mode.first - 1 <= app.inserted)

SelectOption(i) ==
    /\ Key /\ app.mode.kind = "Question" /\ app.mode.options > 0
    /\ i \in 0..(NumOptions - 1) /\ i # app.mode.selected
    /\ LET restyled == {app.mode.first + i, app.mode.first + app.mode.selected}
       IN  app' = IF restyled \subseteq DOMAIN app.lines
                    THEN [app EXCEPT !.mode.selected = i,
                            !.lines = [j \in DOMAIN @ |-> [@[j] EXCEPT !.plain = @ /\ j \notin restyled]]]
                    ELSE [app EXCEPT !.quit = TRUE]
    /\ KeepsLines /\ UNCHANGED daemon

send_answer == Sends({[type |-> "answer", id |-> app.mode.id]})

(* Enter or Esc on the options: the last one turns to free text.           *)
CloseOptions(esc) ==
    LET free == ~esc /\ app.mode.selected = NumOptions - 1
    IN  /\ Key /\ app.mode.kind = "Question" /\ app.mode.options > 0
        /\ \/ /\ PanelFits /\ Drained
              /\ app' = IF free THEN [Drain(app) EXCEPT !.mode.options = 0]
                        ELSE [Drain(app) EXCEPT !.mode = Normal, !.lines = Append(@, Note)]
              /\ IF free THEN UNCHANGED outbox ELSE send_answer
           \/ /\ ~PanelFits /\ app' = [app EXCEPT !.quit = TRUE] /\ KeepsLines
              /\ IF free THEN UNCHANGED outbox ELSE send_answer
        /\ UNCHANGED <<echoes, runs, modes, asks, notes, sent>>

(* Free text removes the last line that starts with a question mark sign,  *)
(* which any text may; Esc removes none.                                   *)
AnswerText ==
    /\ Key /\ app.mode.kind = "Question" /\ app.mode.options = 0
    /\ send_answer
    /\ \E marked \in {0} \cup {i \in DOMAIN app.lines : app.lines[i].text # <<>> \/ ~app.lines[i].plain} :
        /\ app' = [app EXCEPT !.mode = Normal, !.lines = Append(Removed(@, marked, marked), Note)]
        /\ spoilt' = IF marked = 0 THEN spoilt
                     ELSE spoilt \cup Streaming \cup StreamsIn(<<app.lines[marked]>>)
        /\ cut' = (cut \/ marked \in 1..app.inserted)
    /\ UNCHANGED <<echoes, runs, modes, asks, notes, sent>>

Keys ==
    \/ Quit \/ Resize \/ BackTab \/ ClearLines \/ Escape \/ Submit \/ SteerDropped \/ send_confirm \/ AnswerText
    \/ \E b \in BOOLEAN : WelcomeEnter(b) \/ PlanCommand(b) \/ send_steer(b) \/ CloseOptions(b)
    \/ \E i \in 0..(NumOptions - 1) : SelectOption(i)

-----------------------------------------------------------------------------
(* Messages that the daemon reads.                                         *)
Reads(m) == m \in outbox /\ outbox' = outbox \ {m}

(* A run is registered; its session is told to the client.                 *)
Accept ==
    \E m \in outbox :
        /\ m.type = "agent" /\ Reads(m) /\ pc = "wait" /\ pc' = "top" /\ app.connected
        /\ LET s == IF m.session = 0 THEN m.run ELSE m.session
           IN  /\ runs' = [runs EXCEPT ![m.run] = [@ EXCEPT !.st = "accepted", !.session = s]]
               /\ app' = [app EXCEPT !.session = s]
        /\ KeepsLines /\ UNCHANGED <<echoes, modes, asks, notes, keys, sent>>

Active == {"turn", "stream", "asking", "confirming", "ending"}

Start(r) ==
    /\ runs[r].st = "accepted" /\ ~\E x \in Runs : runs[x].session = runs[r].session /\ runs[x].st \in Active
    /\ runs' = [runs EXCEPT ![r].st = "turn", ![r].plan = modes[runs[r].session] = "plan"]
    /\ UNCHANGED <<app, pc, outbox, echoes, modes, asks, notes, keys, sent, spoilt, cut>>

Cancel ==
    \E m \in outbox, r \in Runs :
        /\ m.type = "cancel" /\ Reads(m)
        /\ runs' = IF runs[r].session = m.session /\ runs[r].st \in Active \cup {"accepted"}
                     THEN [runs EXCEPT ![r].st = "over"] ELSE runs
        /\ UNCHANGED <<app, pc, echoes, modes, asks, notes, keys, sent, spoilt, cut>>

(* Without a session there is nothing to set, and no echo.                 *)
SetMode ==
    \E m \in outbox :
        /\ m.type = "set_mode" /\ Reads(m) /\ pc = "wait" /\ pc' = "top" /\ app.connected
        /\ IF m.session = 0 THEN UNCHANGED <<modes, app>>
           ELSE /\ modes' = [modes EXCEPT ![m.session] = IF m.plan THEN "plan" ELSE "auto"]
                /\ app' = [app EXCEPT !.planning = m.plan]
        /\ KeepsLines /\ UNCHANGED <<echoes, runs, asks, notes, keys, sent>>

(* The client is told of every confirmation; of an answer it makes nothing *)
(* unless it came too late.                                                *)
Resolve(kind, st) ==
    \E m \in outbox :
        /\ m.type = kind /\ Reads(m)
        /\ runs' = [r \in Runs |-> IF runs[r].st = st /\ runs[r].ask = m.id
                                     THEN [runs[r] EXCEPT !.st = "turn"] ELSE runs[r]]
        /\ echoes' = IF kind = "confirm" \/ runs' = runs
                     THEN echoes \cup {[of |-> kind, id |-> m.id, resolved |-> runs' # runs]} ELSE echoes
        /\ UNCHANGED <<app, pc, modes, asks, notes, keys, sent, spoilt, cut>>

(* A wait for the user ends by itself: the client is not told.             *)
Expire(r) ==
    /\ runs[r].st \in {"asking", "confirming"} /\ runs' = [runs EXCEPT ![r].st = "turn"]
    /\ UNCHANGED <<app, pc, outbox, echoes, modes, asks, notes, keys, sent, spoilt, cut>>

Daemon == \/ Accept \/ Cancel \/ SetMode \/ Resolve("confirm", "confirming") \/ Resolve("answer", "asking")
          \/ \E r \in Runs : Start(r) \/ Expire(r)

-----------------------------------------------------------------------------
(* Events of a run, as the client handles them.                            *)
Event(r, from) ==
    /\ pc = "wait" /\ pc' = "top" /\ app.connected /\ ~app.quit /\ runs[r].st \in from
    /\ UNCHANGED <<outbox, keys>>

Others(r) == Streaming \ {<<r, runs[r].stream>>}
Foreign(r, p) == Others(r) \cup ({app.anchor.of} \ {p, NoAnchor.of})   \* other streams that share the anchor
LastPlain(a) == a.lines # <<>> /\ Last(a.lines).plain
LastBlank(a) == a.lines = <<>> \/ Last(a.lines) = [Note EXCEPT !.plain = TRUE, !.pushed = Last(a.lines).pushed]

Anchored(a, p) ==
    IF a.anchor # NoAnchor THEN a
    ELSE [a EXCEPT !.anchor =
            [kind |-> IF LastPlain(a) THEN "AppendInto" ELSE "NewLines", line |-> Len(a.lines),
             len |-> IF LastPlain(a) THEN Len(Last(a.lines).text) ELSE 0, of |-> p]]

Written(a, piece) ==
    IF LastPlain(a) THEN [a EXCEPT !.lines[Len(a.lines)].text = @ \o piece]
    ELSE [a EXCEPT !.lines = @ \o (IF piece = <<>> THEN <<Blank>> ELSE <<Blank, Line(TRUE, piece, 0)>>)]

(* Text, white space, or what looks like the JSON of a call.               *)
Delta(r, content) ==
    LET new == runs[r].st = "turn"
        p == <<r, IF new THEN runs[r].stream + 1 ELSE runs[r].stream>>
        piece == IF content = "text" THEN <<<<r, p[2], sent[p].attempt, sent[p].n + 1>>>> ELSE <<>>
        skip == content = "json" \/ (content = "space" /\ (LastBlank(app) \/ ~LastPlain(app)))
    IN  /\ Event(r, {"turn", "stream"}) /\ p[2] <= MaxStreams /\ sent[p].n < MaxDeltas
        /\ content # "text" => notes < MaxNotes
        /\ notes' = IF content = "text" THEN notes ELSE notes + 1
        /\ runs' = [runs EXCEPT ![r].st = "stream", ![r].stream = p[2]]
        /\ app' = [(IF skip THEN app ELSE Written(Anchored(app, p), piece)) EXCEPT !.status = "Working"]
        /\ sent' = [sent EXCEPT ![p].n = @ + Len(piece)]
        /\ spoilt' = spoilt \cup Foreign(r, p) \cup (IF Foreign(r, p) = {} THEN {} ELSE {p})
        /\ UNCHANGED <<echoes, modes, asks, cut>>

(* Mutant: text that was added to a line stays there.                      *)
RolledBack_Lines(a) ==
    [a EXCEPT !.anchor = NoAnchor,
              !.lines = IF a.anchor = NoAnchor \/ Len(@) <= a.anchor.line THEN @ ELSE SubSeq(@, 1, a.anchor.line)]

RolledBack(a) ==
    LET kept == IF a.anchor = NoAnchor \/ Len(a.lines) <= a.anchor.line THEN a.lines
                ELSE SubSeq(a.lines, 1, a.anchor.line)
    IN  [a EXCEPT !.anchor = NoAnchor,
                  !.lines = IF a.anchor.kind # "AppendInto" \/ a.anchor.line > Len(kept) THEN kept
                            ELSE [kept EXCEPT ![a.anchor.line].text =
                                    SubSeq(@, 1, IF a.anchor.len < Len(@) THEN a.anchor.len ELSE Len(@))]]

(* Once a stream had MaxAttempts attempts none is retried: a bound.        *)
Retrying(r) ==
    LET p == <<r, runs[r].stream>>
    IN  /\ Event(r, {"stream"}) /\ \A q \in Streams : sent[q].attempt < MaxAttempts
        /\ sent' = [sent EXCEPT ![p] = [attempt |-> @.attempt + 1, n |-> 0]]
        /\ app' = RolledBack(app)
        /\ cut' = (cut \/ Len(RolledBack(app).lines) < app.inserted)
        /\ spoilt' = IF Foreign(r, p) = {} THEN spoilt
                     ELSE spoilt \cup Foreign(r, p) \cup {p} \cup StreamsIn(app.lines)
        /\ UNCHANGED <<echoes, runs, modes, asks, notes>>

StreamEnd(r) ==
    /\ Event(r, {"stream"}) /\ runs' = [runs EXCEPT ![r].st = "turn"]
    /\ app' = [app EXCEPT !.anchor = NoAnchor] /\ spoilt' = spoilt \cup Others(r)
    /\ UNCHANGED <<cut, echoes, modes, asks, notes, sent>>

(* A tool card; also the notices of sub-agents and steering.               *)
Card(r) ==
    /\ Event(r, {"turn"}) /\ notes < MaxNotes /\ notes' = notes + 1
    /\ app' = [app EXCEPT !.lines = @ \o (IF LastBlank(app) THEN <<Note>> ELSE <<Blank, Note>>)]
    /\ KeepsLines /\ UNCHANGED <<echoes, runs, modes, asks, sent>>

ConfirmationRequest(r) ==
    /\ Event(r, {"turn"}) /\ asks < MaxAsks /\ asks' = asks + 1
    /\ runs' = [runs EXCEPT ![r].st = "confirming", ![r].ask = asks + 1]
    /\ app' = [app EXCEPT !.mode = [Normal EXCEPT !.kind = "Confirm", !.id = asks + 1]]
    /\ KeepsLines /\ UNCHANGED <<echoes, modes, notes, sent>>

UserQuestion(r, options) ==
    /\ Event(r, {"turn"}) /\ asks < MaxAsks /\ asks' = asks + 1
    /\ runs' = [runs EXCEPT ![r].st = "asking", ![r].ask = asks + 1]
    /\ app' = [app EXCEPT
         !.lines = IF options THEN @ \o <<Blank>> \o [i \in 1..NumOptions |-> Line(FALSE, <<>>, asks + 1)] ELSE @,
         !.mode = [kind |-> "Question", id |-> asks + 1, options |-> IF options THEN NumOptions ELSE 0,
                   selected |-> 0, first |-> IF options THEN Len(app.lines) + 2 ELSE 0]]
    /\ KeepsLines /\ UNCHANGED <<echoes, modes, notes, sent>>

(* enter_plan_mode and exit_plan_mode.                                     *)
InteractionModeChanged(r) ==
    /\ Event(r, {"turn"}) /\ notes < MaxNotes /\ notes' = notes + 1
    /\ runs' = [runs EXCEPT ![r].plan = ~@]
    /\ modes' = [modes EXCEPT ![runs[r].session] = IF runs[r].plan THEN "auto" ELSE "plan"]
    /\ app' = [app EXCEPT !.planning = ~runs[r].plan]
    /\ KeepsLines /\ UNCHANGED <<echoes, asks, sent>>

Done(r) ==
    /\ Event(r, {"turn", "ending"}) /\ runs' = [runs EXCEPT ![r].st = "over"]
    /\ app' = [Reset(app) EXCEPT !.finalize = TRUE]
    /\ spoilt' = spoilt \cup Others(r) /\ UNCHANGED <<cut, echoes, modes, asks, notes, sent>>

RunError(r) ==
    /\ Event(r, {"turn", "stream"}) /\ runs' = [runs EXCEPT ![r].st = "ending"]
    /\ app' = [Reset(app) EXCEPT !.status = "Error", !.lines = Append(@, Note)]
    /\ spoilt' = spoilt \cup Streaming /\ UNCHANGED <<cut, echoes, modes, asks, notes, sent>>

(* ConfirmResolved and AnswerResolved; only the former leaves a mode.      *)
Resolved(e) ==
    /\ pc = "wait" /\ pc' = "top" /\ app.connected /\ ~app.quit /\ echoes' = echoes \ {e}
    /\ app' = [app EXCEPT !.mode = IF e.of = "confirm" /\ @.kind = "Confirm" THEN Normal ELSE @,
                          !.lines = IF e.resolved THEN @ ELSE Append(@, Note)]
    /\ KeepsLines /\ UNCHANGED <<outbox, runs, modes, asks, notes, keys, sent>>

(* CronNotification, and the list of sessions that was asked for: a line   *)
(* at any time, amid a stream too.                                         *)
Notification ==
    /\ pc = "wait" /\ pc' = "top" /\ app.connected /\ ~app.quit /\ notes < MaxNotes /\ notes' = notes + 1
    /\ Streaming # {}        \* bound: elsewhere it is a line like any other
    /\ app' = [app EXCEPT !.lines = Append(@, Note)]
    /\ KeepsLines /\ UNCHANGED <<outbox, echoes, runs, modes, asks, keys, sent>>

(* Mutant: the gate is left as it was.                                     *)
Lost_Gate(a) == [a EXCEPT !.connected = FALSE, !.status = "Disconnected", !.anchor = NoAnchor,
                          !.lines = @ \o <<Blank, Note>>]

Lost(a) == [a EXCEPT !.connected = FALSE, !.status = "Disconnected", !.allowed = TRUE,
                     !.anchor = NoAnchor, !.lines = @ \o <<Blank, Note>>]

(* The socket closes: what was sent is lost, the daemon forgets what its   *)
(* sessions were set to, and the client sees nothing more of their runs.   *)
Disconnect ==
    /\ pc = "wait" /\ pc' = "top" /\ app.connected /\ ~app.quit /\ notes < MaxNotes /\ notes' = notes + 1
    /\ app' = Lost(app) /\ spoilt' = spoilt \cup Streaming
    /\ outbox' = {} /\ echoes' = {} /\ modes' = [s \in Runs |-> "none"]
    /\ runs' = [r \in Runs |-> IF runs[r].st = "none" THEN runs[r] ELSE [runs[r] EXCEPT !.st = "over"]]
    /\ UNCHANGED <<cut, asks, keys, sent>>

Reconnect(ok) ==
    /\ pc = "wait" /\ pc' = "top" /\ ~app.connected /\ ~app.quit /\ (~ok => notes < MaxNotes)
    /\ notes' = IF ok THEN notes ELSE notes + 1
    /\ app' = IF ok THEN [app EXCEPT !.connected = TRUE, !.status = "Done", !.allowed = TRUE,
                                     !.lines = Append(@, Note)]
              ELSE [app EXCEPT !.lines = Append(@, Note)]
    /\ KeepsLines /\ UNCHANGED <<outbox, echoes, runs, modes, asks, keys, sent>>

Events ==
    \/ Disconnect \/ \E ok \in BOOLEAN : Reconnect(ok)
    \/ Notification \/ \E e \in echoes : Resolved(e)
    \/ \E r \in Runs :
         \/ \E content \in {"text", "space", "json"} : Delta(r, content)
         \/ Retrying(r) \/ StreamEnd(r) \/ Card(r) \/ ConfirmationRequest(r)
         \/ InteractionModeChanged(r) \/ Done(r) \/ RunError(r)
         \/ \E options \in BOOLEAN : UserQuestion(r, options)

TuiNext == LoopTop \/ Keys \/ Daemon \/ Events

TuiSpec == TuiInit /\ [][TuiNext]_tuiVars

-----------------------------------------------------------------------------
(* The input line (composer.rs): a text with a cursor that is a byte       *)
(* offset, the recall of earlier inputs, and the rows that the line takes. *)
(* It has a state of its own.  A character is its number of bytes; one of  *)
(* three bytes is two columns wide.                                        *)
VARIABLES input, caret, inputs_sent, history_pos, draft,
          typed      \* what the user last edited: the text without recalls

composerVars == <<input, caret, inputs_sent, history_pos, draft, typed>>

Size(s) == FoldLeft(LAMBDA n, c : n + c, 0, s)
Boundaries(s) == {Size(SubSeq(s, 1, k)) : k \in 0..Len(s)}
Before(s, b) == SubSeq(s, 1, CHOOSE k \in 0..Len(s) : Size(SubSeq(s, 1, k)) = b)
After(s, b) == SubSeq(s, Len(Before(s, b)) + 1, Len(s))

LargestIn(S) == CHOOSE x \in S : \A y \in S : x >= y
SmallestIn(S) == CHOOSE x \in S : \A y \in S : x <= y

clamp_byte == LargestIn({b \in Boundaries(input) : b <= caret})

ComposerInit == /\ input = <<>> /\ caret = 0 /\ inputs_sent = <<>> /\ history_pos = -1
                /\ draft = <<>> /\ typed = <<>>

Moves(to) == caret' = to /\ UNCHANGED <<input, inputs_sent, history_pos, draft, typed>>

(* Mutant: one byte to the left.                                           *)
cursor_left_Byte == Moves(IF clamp_byte > 0 THEN clamp_byte - 1 ELSE caret)

cursor_left == Moves(IF clamp_byte > 0 THEN LargestIn({b \in Boundaries(input) : b < clamp_byte}) ELSE caret)
cursor_right == Moves(IF clamp_byte < Size(input) THEN SmallestIn({b \in Boundaries(input) : b > clamp_byte}) ELSE caret)
cursor_home == Moves(0)
cursor_end == Moves(Size(input))

Edits(new, at) ==
    /\ input' = new /\ caret' = at /\ typed' = new
    /\ history_pos' = -1 /\ draft' = <<>> /\ UNCHANGED inputs_sent

Backspace ==
    LET prev == LargestIn({b \in Boundaries(input) : b < clamp_byte})
    IN  IF clamp_byte = 0 THEN Edits(input, caret)
        ELSE Edits(Before(input, prev) \o After(input, clamp_byte), prev)

Delete == IF clamp_byte = Size(input) THEN Edits(input, caret)
          ELSE Edits(Before(input, clamp_byte) \o Tail(After(input, clamp_byte)), caret)

Type(c) == /\ Len(input) < MaxInput
           /\ Edits(Before(input, clamp_byte) \o <<c>> \o After(input, clamp_byte), clamp_byte + c)

(* Mutant: the draft is kept whenever an entry is recalled.                *)
history_prev_Draft ==
    LET pos == IF inputs_sent # <<>> /\ history_pos = -1 THEN Len(inputs_sent) - 1
               ELSE IF history_pos > 0 THEN history_pos - 1 ELSE history_pos
    IN  /\ history_pos' = pos /\ draft' = input
        /\ input' = IF pos >= 0 THEN inputs_sent[pos + 1] ELSE input
        /\ caret' = IF pos >= 0 THEN Size(input') ELSE caret
        /\ UNCHANGED <<inputs_sent, typed>>

history_prev ==
    LET pos == IF inputs_sent # <<>> /\ history_pos = -1 THEN Len(inputs_sent) - 1
               ELSE IF history_pos > 0 THEN history_pos - 1 ELSE history_pos
    IN  /\ history_pos' = pos
        /\ draft' = IF inputs_sent # <<>> /\ history_pos = -1 THEN input ELSE draft
        /\ input' = IF pos >= 0 THEN inputs_sent[pos + 1] ELSE input
        /\ caret' = IF pos >= 0 THEN Size(input') ELSE caret
        /\ UNCHANGED <<inputs_sent, typed>>

history_next ==
    LET back == history_pos + 1 >= Len(inputs_sent)
    IN  /\ history_pos >= 0
        /\ input' = IF back THEN draft ELSE inputs_sent[history_pos + 2]
        /\ history_pos' = IF back THEN -1 ELSE history_pos + 1
        /\ draft' = IF back THEN <<>> ELSE draft
        /\ caret' = Size(input') /\ UNCHANGED <<inputs_sent, typed>>

(* Enter, when what was typed is sent: add_to_history and clear.           *)
Sent == /\ input # <<>> /\ Len(inputs_sent) < MaxHistory
        /\ inputs_sent' = Append(inputs_sent, input) /\ history_pos' = -1 /\ draft' = <<>>
        /\ input' = <<>> /\ caret' = 0 /\ typed' = <<>>

(* A question that is answered from its options clears the text only.      *)
Cleared == /\ input' = <<>> /\ caret' = 0 /\ typed' = IF history_pos = -1 THEN <<>> ELSE typed
           /\ UNCHANGED <<inputs_sent, history_pos, draft>>

ComposerNext == \/ cursor_left \/ cursor_right \/ cursor_home \/ cursor_end \/ Backspace \/ Delete
                \/ history_prev \/ history_next \/ Sent \/ Cleared
                \/ \E c \in Chars : Type(c)

ComposerSpec == ComposerInit /\ [][ComposerNext]_composerVars

(* Rows and columns of a text, a character that does not fit on a row      *)
(* starting the next one.                                                  *)
Wide(c) == IF c = 3 THEN 2 ELSE 1
Wrapped(s) == FoldLeft(LAMBDA at, c : IF at.col + Wide(c) > Columns - 2
                                        THEN [row |-> at.row + 1, col |-> Wide(c)]
                                        ELSE [at EXCEPT !.col = @ + Wide(c)],
                       [row |-> 0, col |-> 0], s)

(* Mutant: rows are counted for the whole width, the prompt's included.    *)
line_count_Whole == Len(input) \div Columns + 1
line_count == Wrapped(input).row + 1

(* Where render puts the cursor, before it is kept within the area.        *)
CursorAt == Wrapped(Before(input, clamp_byte))

-----------------------------------------------------------------------------
(* How a line is broken into rows (wrapping.rs).  A text is a sequence of  *)
(* words and newlines, a word the sequence of the widths of its            *)
(* characters, some of which are 0; <<i, j>> is the j-th character of the  *)
(* i-th word.  Spans and white space matter only as they end words.        *)
VARIABLES spans, rendered

wrapVars == <<spans, rendered>>

NewLine == <<>>
WrapInit == spans \in SeqOf(Words \cup {NewLine}, MaxWords) /\ rendered = <<>>

Chart(i) == [j \in 1..Len(spans[i]) |-> <<i, j>>]
Width(chars) == Size([k \in 1..Len(chars) |-> spans[chars[k][1]][chars[k][2]]])

(* Mutant: a row is full one column early.                                 *)
Room_Less(row, chars) == Width(row) + Width(chars) < RowWidth
Room(row, chars) == Width(row) + Width(chars) <= RowWidth

flush_row(at) == [done |-> Append(at.done, at.cur), cur |-> <<>>]
Broken(at) == IF at.cur = <<>> THEN at ELSE flush_row(at)
Placed(at, chars) == [at EXCEPT !.cur = @ \o chars]

(* A newline; a word that fits on the row; one that is wider than a row,   *)
(* broken anywhere; one that starts the next row.                          *)
Wrap(at, i) ==
    IF spans[i] = NewLine THEN flush_row(at)
    ELSE IF Room(at.cur, Chart(i)) THEN Placed(at, Chart(i))
    ELSE IF Width(Chart(i)) > RowWidth
      THEN FoldLeft(LAMBDA a, c : Placed(IF Room(a.cur, <<c>>) THEN a ELSE Broken(a), <<c>>), at, Chart(i))
    ELSE Placed(Broken(at), Chart(i))

wrap_styled_lines ==
    /\ rendered = <<>>
    /\ LET end == FoldLeft(Wrap, [done |-> <<>>, cur |-> <<>>], [i \in 1..Len(spans) |-> i])
       IN  rendered' = IF end.cur = <<>> /\ end.done # <<>> THEN end.done ELSE Append(end.done, end.cur)
    /\ UNCHANGED spans

-----------------------------------------------------------------------------
(* Type invariant.                                                         *)
TuiTypeOK ==
    /\ app.mode.kind \in {"Welcome", "Normal", "Confirm", "Question"}
    /\ app.status \in {"Done", "Working", "Error", "Disconnected"}
    /\ {app.allowed, app.connected, app.quit, app.planning, cut} \subseteq BOOLEAN
    /\ app.inserted \in Nat /\ app.session \in 0..MaxRuns
    /\ \A r \in Runs : runs[r].st \in {"none", "sent", "accepted", "over"} \cup Active

(* What the user submits is taken as a message, or goes to the agent that  *)
(* works, also after the connection was lost in the middle of a run (the   *)
(* send gate, state.rs and app.rs).  It is silently refused only until the *)
(* daemon has read the client's first message and named the session.       *)
EnterHeeded ==
    app.mode = Normal =>
        \/ app.allowed
        \/ app.status = "Working" /\ (app.session # 0 \/ \E m \in outbox : m.type = "agent")

(* What is shown of a stream is the text of its last attempt, all of it    *)
(* and in order: nothing of an attempt that was given up, nothing lost to  *)
(* the rollback of another stream (StreamAnchor).                          *)
BubbleIsLastAttempt ==
    \A p \in Streams \ spoilt :
        SelectSeq(Texts(app.history \o app.lines), LAMBDA t : <<t[1], t[2]>> = p) =
            [i \in 1..sent[p].n |-> <<p[1], p[2], sent[p].attempt, i>>]

(* Every line of a finished turn is in the scrollback, once, and no line   *)
(* is there twice, however much of it was pushed while it streamed, unless *)
(* lines were taken back that were there already (inserted_rows).          *)
ScrollbackExact ==
    \/ cut
    \/ /\ \A i \in DOMAIN app.history : app.history[i].pushed = 1
       /\ \A i \in DOMAIN app.lines : app.lines[i].pushed <= 1

(* The cursor is between two characters of the text, also after a shorter  *)
(* text was recalled over it: no key has to be made up for (and a removal  *)
(* at another offset would end the program).                               *)
CursorBetween == caret \in Boundaries(input)

(* Leafing through the history and back loses nothing of what was typed.   *)
DraftKept == IF history_pos = -1 THEN input = typed ELSE draft = typed

(* A text that fits the rows an input line may have (six) is given the row *)
(* that the cursor is on: what asks for the rows (line_count) and what     *)
(* places the cursor (render) count alike.  A longer text has its cursor   *)
(* on the last row, and that the widget breaks the text between words is   *)
(* outside both counts.                                                    *)
CursorShown == line_count <= InputRows => CursorAt.row < line_count

(* What a line shows is its text, all of it and in order, on rows no wider *)
(* than the screen; a word that fits on a row is on one row, and a row     *)
(* ends only at a newline or where the next word, or of a word wider than  *)
(* a row the next character, would not fit (wrap_styled_lines).            *)
RowsExact ==
    rendered # <<>> =>
      /\ FlattenSeq(rendered) = FlattenSeq([i \in 1..Len(spans) |-> Chart(i)])
      /\ \A k \in 1..Len(rendered) : Width(rendered[k]) <= RowWidth
      /\ \A i \in 1..Len(spans) :
             Width(Chart(i)) <= RowWidth => \E k \in 1..Len(rendered) : Range(Chart(i)) \subseteq Range(rendered[k])
      /\ \A k \in 1..(Len(rendered) - 1) :
             LET here == rendered[k]
                 next == rendered[k + 1]
                 word == Chart(next[1][1])
             IN  \/ here = <<>> \/ next = <<>>
                 \/ \E i \in Last(here)[1]..next[1][1] : spans[i] = NewLine
                 \/ Width(here) + Width(IF Width(word) <= RowWidth THEN word ELSE <<next[1]>>) > RowWidth

=============================================================================
