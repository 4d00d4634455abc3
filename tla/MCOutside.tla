----------------------------- MODULE MCOutside ------------------------------
(***************************************************************************)
(* What the agent meets outside its own process: language servers          *)
(* (LanguageServer), commands in a sandbox (Sandbox), messages of other    *)
(* services (Channels), the login of a bot (Channels), tool servers (Mcp), *)
(* a browser (Browser) and the search program (Search).                    *)
(* They share no state, so that a behaviour has the steps of one of them,  *)
(* named by part; the others stay as they start.                           *)
(***************************************************************************)
EXTENDS LanguageServer, Sandbox, Channels, Mcp, Browser, Search

VARIABLE part

(* Files with one or two matches, none, and a sensitive one last.          *)
MCFiles == <<"a", "b", "e">>
MCTrees == {[a |-> 2, b |-> 2, e |-> 1], [a |-> 1, b |-> 0, e |-> 2], [a |-> 0, b |-> 2, e |-> 0]}

(* The tools that each of two concurrent calls of the browser may be.      *)
MCMayCall ==
    [c \in BrowserCalls |-> IF c = "c1"
        THEN {"snapshot", "click", "type", "press", "scroll", "screenshot", "dialog",
              "execute_js", "navigate", "console"}
        ELSE {"dialog", "navigate"}]

someVars == <<lspVars, sandboxVars, channelVars, mcpVars>>
otherVars == <<browserVars, searchVars, loginVars>>
outsideVars == <<part, someVars, otherVars>>

(* No command runs, and nothing is searched.                               *)
NoCommand ==
    /\ host = [platform |-> "linux", docker_up |-> FALSE, docker_built |-> FALSE,
               os_sandbox |-> FALSE, preferred |-> "Process"]
    /\ backend = with_sandbox(host)
    /\ procs = [p \in All |-> Absent] /\ done = TRUE
    /\ run = [at |-> "returned", ticks |-> 0] /\ outcome = "output"

NoSearch ==
    /\ tree = [matches |-> CHOOSE t \in Trees : TRUE, only |-> Whole]
    /\ child = NoChild /\ pipes = [out |-> <<>>, err |-> <<>>] /\ drained = Nothing
    /\ lookup = [tool |-> "grep", first |-> 0, offset |-> 0] /\ reply = NoReply /\ paged = <<>>

(* A part that is idle starts in one way only.                             *)
OutsideInit ==
    /\ part \in {"lsp", "sandbox", "channels", "mcp", "browser", "search", "login"}
    /\ IF part = "sandbox" THEN SandboxInit ELSE NoCommand
    /\ IF part = "search" THEN SearchInit ELSE NoSearch
    /\ IF part = "channels" THEN TRUE ELSE kind = "telegram"
    /\ LspInit /\ ChannelsInit /\ McpInit /\ BrowserInit /\ LoginInit

OutsideNext ==
    /\ UNCHANGED part
    /\ \/ /\ UNCHANGED otherVars
          /\ \/ part = "lsp" /\ LspNext /\ UNCHANGED <<sandboxVars, channelVars, mcpVars>>
             \/ part = "sandbox" /\ SandboxNext /\ UNCHANGED <<lspVars, channelVars, mcpVars>>
             \/ part = "channels" /\ ChannelsNext /\ UNCHANGED <<lspVars, sandboxVars, mcpVars>>
             \/ part = "mcp" /\ McpNext /\ UNCHANGED <<lspVars, sandboxVars, channelVars>>
       \/ /\ UNCHANGED someVars
          /\ \/ part = "browser" /\ BrowserNext /\ UNCHANGED <<searchVars, loginVars>>
             \/ part = "search" /\ SearchNext /\ UNCHANGED <<browserVars, loginVars>>
             \/ part = "login" /\ LoginNext /\ UNCHANGED <<browserVars, searchVars>>

(* Threads and tasks that are ready are scheduled and deadlines pass.  The *)
(* steps of the other side are not fair, so that a server may stay silent, *)
(* a browser unreached and a service without an answer; fair are only a    *)
(* command that was killed and dies, and rg, which runs unless it stalls.  *)
OutsideFair ==
    \/ part = "lsp" /\ LspFair /\ UNCHANGED <<part, sandboxVars, channelVars, mcpVars, otherVars>>
    \/ part = "sandbox" /\ SandboxFair /\ UNCHANGED <<part, lspVars, channelVars, mcpVars, otherVars>>
    \/ part = "channels" /\ ChannelsFair /\ UNCHANGED <<part, lspVars, sandboxVars, mcpVars, otherVars>>
    \/ part = "mcp" /\ McpFair /\ UNCHANGED <<part, lspVars, sandboxVars, channelVars, otherVars>>
    \/ part = "browser" /\ BrowserFair /\ UNCHANGED <<part, someVars, searchVars, loginVars>>
    \/ part = "search" /\ SearchFair /\ UNCHANGED <<part, someVars, browserVars, loginVars>>

FileWatchFair ==
    part = "channels" /\ WatchFair /\ UNCHANGED <<part, lspVars, sandboxVars, mcpVars, otherVars>>

OutsideSpec ==
    /\ OutsideInit /\ [][OutsideNext]_outsideVars
    /\ WF_outsideVars(OutsideFair) /\ WF_outsideVars(FileWatchFair)

(* An answer from outside is taken by the call it answers, diagnostics by  *)
(* a call about their file, and what a call of the browser asked for is    *)
(* done at most once, or is missed where the code looks at no exception:   *)
(* language servers, MCP servers and the browser (lsp.rs,                  *)
(* mcp/connection.rs, browser_cdp.rs).                                     *)
OwnAnswers ==
    /\ LspTypeOK /\ AnswersMatch
    /\ McpTypeOK /\ OwnAnswer /\ PendingOwned
    /\ BrowserTypeOK /\ ActedOnce /\ AnswersInStep

(* A program that was started is contained: it runs in the best sandbox    *)
(* there is, nothing of it survives a kill, a search is killed only if it  *)
(* was slow, and what is left out of its output is announced               *)
(* (qian_permission, rg.rs, grep.rs).                                      *)
ProgramsContained ==
    /\ SandboxTypeOK /\ IsolatedIfPossible /\ NothingSurvivesKill
    /\ SearchTypeOK /\ KilledOnlyIfSlow /\ RestAnnounced /\ WalkerPagesCover

(* The cursor of a bot never passes a message that was not handed on, and  *)
(* a message that carries an id is handed on once although it is delivered *)
(* again; the login of a bot follows the code that the user sees           *)
(* (src/channels).                                                         *)
FeedsFollowed == ChannelsTypeOK /\ NothingSkipped /\ OncePerWindow /\ LoginFollowsScreen

(* Whatever the other side answers, a call to it ends and a bot goes on:   *)
(* commands and searches return, calls of MCP servers return, calls of the *)
(* browser return once it is connected, a bot polls again, and diagnostics *)
(* give the language server's lock back unless the thread stays blocked in *)
(* a write or inside half a message, where lsp.rs has no deadline.         *)
CallsOutsideEnd ==
    DiagnosticsLetGo /\ RunReturns /\ MessagesArrive /\ CallsReturn /\ BrowserCallsEnd /\ SearchReturns
=============================================================================
