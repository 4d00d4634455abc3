------------------------------- MODULE MCDesk -------------------------------
(***************************************************************************)
(* The tools at hand and the terminal: which calls run together            *)
(* (ToolScheduler), the files they edit and how a patch is found (Files),  *)
(* the shell's directory and what is kept of its output (Shell), the hooks *)
(* around them (Hooks), the terminal client (Terminal), the workspaces     *)
(* (Workspaces), and starting and stopping the daemon with what stands     *)
(* before its HTTP endpoints (Daemon).                                     *)
(* They share no state, so that a behaviour has the steps of one of them,  *)
(* named by part; the others stay as they start.                           *)
(***************************************************************************)
EXTENDS ToolScheduler, Files, Shell, Hooks, Terminal, Workspaces, Daemon

VARIABLE part

Rel(comps) == [abs |-> FALSE, comps |-> comps]
Abs(comps) == [abs |-> TRUE, comps |-> comps]

(* a, ./a, b/../a and /w/a are one file; b is a directory holding b/a; /a  *)
(* is outside the workspace and ../../a climbs past the root to it.        *)
MCNames == {"w", "a", "b"}
MCBase == <<"w">>
MCSpellings == {Rel(<<"a">>), Rel(<<".", "a">>), Rel(<<"b", "..", "a">>), Rel(<<"b">>), Rel(<<"b", "a">>),
                Abs(<<"w", "a">>), Rel(<<"..", "..", "a">>)}

(* Texts to replace: absent, once, twice, overlapping, across line ends.   *)
MCOlds == {<<"a">>, <<"n">>, <<"q">>, <<"a", "a">>, <<"a", "n">>, <<"r", "n">>, <<"c", "a">>}
MCNews == {<<>>, <<"a">>, <<"r", "n">>, <<"n">>}

(* Output of characters of one and of three bytes.                         *)
MCChunks == {<<1>>, <<3>>, <<1, 3>>, <<3, 1, 3>>}

(* What a command prints before the marker, a marker of its own included.  *)
MCPrinted == {<<>>, <<"x", "nl">>, <<"marker", "out">>, <<"nl", "marker", "sub">>, <<"x", "marker">>}

(* Words of narrow, wide and combining characters, one wider than a row.   *)
MCWords == {<<1>>, <<2>>, <<1, 1>>, <<2, 0>>, <<1, 2>>, <<2, 2>>, <<1, 1, 1, 1>>}

(* What a proxy on this host may say of whom a request is from.            *)
MCHeaders == {[forwarded |-> "p", real |-> "q"], [forwarded |-> "", real |-> "p"], [forwarded |-> "", real |-> ""]}

smallVars == <<vars, patchVars, outputVars, shellVars, composerVars, previewVars, wrapVars>>
hostVars == <<wsVars, daemonVars, startVars, httpVars, storeVars>>
deskVars == <<part, fileVars, tuiVars, hookVars, hostVars, smallVars>>

(* A part that is idle starts in one way only.                             *)
DeskInit ==
    /\ part \in {"schedule", "files", "patch", "output", "preview", "shell", "gate", "terminal", "composer", "rows",
                "workspaces", "daemon", "startup", "store", "limit", "feed"}
    /\ FilesInit /\ OutputInit /\ PreviewInit /\ ShellCwdInit /\ ComposerInit /\ WorkspacesInit /\ DaemonInit
    /\ IF part = "startup" THEN TRUE ELSE toml = NoConf /\ keysSet = {}
    /\ StartInit
    /\ IF part = "store" THEN TRUE ELSE db = [version |-> 0, schema |-> {}]
    /\ StoreInit
    /\ IF part \in {"limit", "feed"} THEN TRUE ELSE keyed = FALSE
    /\ HttpInit
    /\ TuiInit /\ (part # "terminal" => app = App(FALSE))
    /\ IF part = "rows" THEN TRUE ELSE spans = <<>>
    /\ WrapInit
    /\ IF part = "gate" THEN TRUE ELSE configured = <<>>
    /\ HookInit
    /\ IF part = "patch" THEN TRUE ELSE raw = <<>> /\ old = <<"a">> /\ new = <<>>
    /\ PatchInit
    /\ IF part = "schedule" THEN TRUE ELSE calls = <<>>
    /\ Init

DeskNext ==
    /\ UNCHANGED part
    /\ \/ part = "files" /\ FilesNext /\ UNCHANGED <<tuiVars, hookVars, hostVars, smallVars>>
       \/ part = "terminal" /\ TuiNext /\ UNCHANGED <<fileVars, hookVars, hostVars, smallVars>>
       \/ part = "gate" /\ GateNext /\ UNCHANGED <<fileVars, tuiVars, hostVars, smallVars>>
       \/ /\ UNCHANGED <<fileVars, tuiVars, hookVars, smallVars>>
          /\ \/ part = "workspaces" /\ WorkspacesNext /\ UNCHANGED <<daemonVars, startVars, httpVars, storeVars>>
             \/ part = "daemon" /\ DaemonNext /\ UNCHANGED <<wsVars, startVars, httpVars, storeVars>>
             \/ part = "startup" /\ StartNext /\ UNCHANGED <<wsVars, daemonVars, httpVars, storeVars>>
             \/ part = "store" /\ StoreNext /\ UNCHANGED <<wsVars, daemonVars, startVars, httpVars>>
             \/ part = "limit" /\ LimitNext /\ UNCHANGED <<wsVars, daemonVars, startVars, storeVars>>
             \/ part = "feed" /\ FeedNext /\ UNCHANGED <<wsVars, daemonVars, startVars, storeVars>>
       \/ /\ UNCHANGED <<fileVars, tuiVars, hookVars, hostVars>>
          /\ \/ part = "schedule" /\ Next /\ UNCHANGED <<patchVars, outputVars, shellVars, composerVars, previewVars, wrapVars>>
             \/ part = "patch" /\ Patch /\ UNCHANGED <<vars, outputVars, shellVars, composerVars, previewVars, wrapVars>>
             \/ part = "output" /\ OutputNext /\ UNCHANGED <<vars, patchVars, shellVars, composerVars, previewVars, wrapVars>>
             \/ part = "composer" /\ ComposerNext /\ UNCHANGED <<vars, patchVars, outputVars, shellVars, previewVars, wrapVars>>
             \/ part = "shell" /\ ShellCwdNext /\ UNCHANGED <<vars, patchVars, outputVars, composerVars, previewVars, wrapVars>>
             \/ part = "rows" /\ wrap_styled_lines /\ UNCHANGED <<vars, patchVars, outputVars, shellVars, composerVars, previewVars>>
             \/ part = "preview" /\ PreviewNext /\ UNCHANGED <<vars, patchVars, outputVars, shellVars, composerVars, wrapVars>>

DeskSpec == DeskInit /\ [][DeskNext]_deskVars

(* The planner of batches is right: calls that conflict are never in one   *)
(* batch and keep their order, and calls are parted only if they conflict, *)
(* by a definition that walks the file tree instead of comparing paths     *)
(* (tool_scheduler.rs).                                                    *)
PlanCorrect == TypeOK /\ OrderPreserved /\ BatchesRaceFree /\ SplitsJustified

(* Files are changed as the model asked and knowing what is there: what it *)
(* overwrites it has seen, a revert can be reverted, a patch replaces one  *)
(* place and keeps the line endings (builtin/fs).                          *)
FilesKept == [](FilesTypeOK /\ GateMeansSeen /\ OnePlaceReplaced /\ EndingsKept) /\ RevertUndoable

(* Around a command: a hook that vetoes is heeded and hooks run in order,  *)
(* its output is paged without a gap or an excess and shown within its     *)
(* budget, it leaves the shell inside the boundary, and what is shown is   *)
(* what it printed (hook.rs, disk_output.rs, xun_context,                  *)
(* qian_permission).                                                       *)
CommandsSeen ==
    /\ HookTypeOK /\ VetoHeeded /\ RegistryOrdered
    /\ PagesCoverOutput /\ CapHolds /\ PreviewFits
    /\ ShellCwdTypeOK /\ CwdInside /\ ShownExactly

(* The terminal shows what happened: what the user submits is taken, once  *)
(* the session is known, also after the connection was lost, a bubble      *)
(* holds the last attempt only, a line reaches the scrollback once, and    *)
(* the input line keeps its cursor between characters, on a row it counted *)
(* with, and what was typed through any recall of earlier inputs; rows     *)
(* hold all of a line and are as wide as they may be (src/tui).            *)
TerminalExact ==
    /\ TuiTypeOK /\ EnterHeeded /\ BubbleIsLastAttempt /\ ScrollbackExact
    /\ CursorBetween /\ DraftKept /\ CursorShown /\ RowsExact

(* A directory has one workspace; sessions and memories follow it through  *)
(* moves, merges and archives, and what its user wrote does so too, but    *)
(* for a row that a merge deletes (workspaces.rs).                         *)
WorkspacesKept == [](WorkspacesTypeOK /\ OneWorkspacePerDirectory /\ MemoriesFollow) /\ UserStateKept

(* Starts that race end with a daemon that serves, unless a pid file was   *)
(* left torn, and a daemon that serves alone keeps its socket; a           *)
(* configuration that loads is one it can start with, and the store is     *)
(* brought up to date wherever a start dies; its endpoints serve who may   *)
(* be served, as often as they may, and tell each feed what concerns it    *)
(* (cli/start.rs, kun_config, di_earth, gen_store, dui_gateway).           *)
DaemonServes ==
    /\ DaemonTypeOK /\ StartServes /\ SocketKeptAlone /\ LoadedStarts /\ SchemaWhole /\ SealedWhole
    /\ HttpTypeOK /\ RateHeld /\ RefusedOnlyIfSpent /\ OnlyKeyHolders /\ FeedExact
=============================================================================
