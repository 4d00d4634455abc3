# A TLA+ model of jia

jia is an agent runtime: it takes messages from a terminal client, from HTTP and
from chat bots, runs a language model in a loop over a set of tools, and keeps
the conversation, what was learned and the user's approvals. The modules here
model the parts of it whose correctness is decided by orderings, failures,
restarts and limits: who may run a tool call and when, how messages reach a run
in progress, what a compaction removes, how providers fail over, how sub-agents,
background commands and scheduled jobs survive a crash, what the memory keeps,
and how the program deals with processes and services that answer late or never.

Paths below are relative to `src/kernel/src` unless they start with `src/`.

## 1. Inventory

| Part | State | Operations | Module |
|---|---|---|---|
| Tool scheduler (`plates/tian_heaven/tool_scheduler.rs`, `palaces/zhen_tool/base.rs`) | a plan being built | normalise paths, conflict matrix, plan batches | `Accesses`, `ToolScheduler` |
| GeJu and principles (`geju/`, `principles/`) | none | evaluate a pair of stems, derive and apply principles | `GeJu` |
| Human plate and session bus (`plates/ren_human/`) | closed gates, pending confirmations, approval memory | prepare, walk the approval chain, ask, answer, time out, sweep | `HumanPlate` |
| Agent loop (`plates/tian_heaven/loop.rs`, `loop_post.rs`) | history, turn counter, steer queue, trackers, cancellation | checkpoint, compaction, stream with retry, stop gates, tools, exits | `AgentLoop`, `Conversation` |
| Turn dispatch (`loop.rs`, `loop_dispatch.rs`) | slots, join set, batch, repeat guard | gate and spawn while streaming, drain, batches, barrier | `TurnDispatch` |
| Tool call parser (`stems/tool_parse.rs`) | none | find calls in text | `ToolParse` |
| Context compaction (`palaces/xun_context/`) | history, failures | victim range, preserved users, splice, fallback | `Compaction` |
| Model core (`palaces/zhong_core/`) | active provider, breakers, streams | route, stream, retry, fail over, cancel | `ModelCore` |
| Session gateway (`palaces/dui_gateway/`, `plates/tian_heaven/spawn.rs`) | token registry, session locks, permits | start, queue, steer, cancel, disconnect, delete | `SessionGateway` |
| HTTP gateway (`dui_gateway/auth.rs`, `events.rs`, `mod.rs`) | who has the key, token buckets, feeds | authenticate, limit, subscribe, forward | `Daemon` |
| Terminal connection (`palaces/dui_gateway/rin.rs`) | writer mutex, forwarders, notices, hello's question | accept, read, answer, forward, disconnect | `RinSocket` |
| Session store (`palaces/gen_store/`) | rows, schema version | load, save (upsert), delete, migrate | in `SessionGateway`, `AgentLoop`, `Workspaces`, `Daemon` |
| Principle persistence (`gen_store/principles.rs`) | rows | replace in a transaction, archive, restore | `Skills` |
| Background tasks (`builtin/exec/background_task.rs`, `shell.rs`, `disk_output.rs`) | table, snapshot on disk, output files | register, end, kill, evict, tell, restore, page, preview | `BackgroundTasks`, `Shell` |
| Sub-agents (`builtin/delegate.rs`, `subagent_batch.rs`, `spawn.rs`) | sessions in memory and database, permits, worktrees | delegate, send, cancel, report, verdict | `Subagents` |
| Cron (`builtin/cron/`, `cron_runner.rs`) | jobs in memory and files | add, update, scan, fire, reload, one-shots, catch up | `Cron` |
| Permissions and sandboxes (`palaces/qian_permission/`) | backend, process group, shell directory | choose, run, signal, reap, read the directory | `Sandbox`, `Shell` |
| Spirit plate (`plates/shen_spirit/`, `stems/hooks.rs`) | registry, audit counts, checklists | register, emit, veto, count, remind | `Hooks`, `TaskList` |
| Task list and criteria (`builtin/exec/task.rs`, `session_bus.rs`) | tasks, criteria | create, update, tick | `TaskList` |
| Memory and zuowang (`vijnana/`, `zuowang/`, `gen_store/seeds.rs`, `graph.rs`) | seeds, triples | detect, reinforce, dissolve, tier, search, scan | `Memory` |
| Skills (`palaces/li_skill/`) | registry, files, reflections | reload, disable, reflect, revise, diff | `Skills` |
| File tools (`builtin/fs/`, `stems/action.rs`) | read times, cache, backups | read, write, patch, revert, prune | `Files` |
| Search tools (`builtin/fs/grep.rs`, `glob.rs`, `rg.rs`) | child, pipes | spawn, drain, cut, page, fall back | `Search` |
| Language servers (`builtin/exec/lsp.rs`) | pipe, open files, lock | start, initialize, open, diagnose | `LanguageServer` |
| MCP (`palaces/zhen_tool/mcp/`) | pending requests | handshake, call, answer, time out, die | `Mcp` |
| Browser (`browser_cdp.rs`, `builtin/browser/`) | connection, page, dialogs | the commands of each tool | `Browser` |
| IO channels (`src/channels/`, `palaces/kan_io/`) | cursor, window of duplicates, backoff, login | log in, poll, push, save, restart | `Channels` |
| Workspaces (`gen_store/workspaces.rs`, `dui_gateway/workspaces.rs`) | rows, configuration files | resolve, move, merge, archive, rename | `Workspaces` |
| Daemon (`src/src/cli/start.rs`, `main.rs`, `kun_config/`, `gen_store/mod.rs`) | pid file, socket, port, configuration, database | load, migrate, start, stop, restart, query | `Daemon` |
| Terminal client (`src/tui/`) | modes, lines, scrollback, prompts, input line | events, keys, retry, reconnect, edit, recall, wrap | `Terminal` |
| Context reset, manas and mano, computer use, plugins, telemetry | | | outside, section 8 |

How they interact. The gateway (or the IO consumer) takes a message, registers a
cancellation token for its session, waits for the session's lock and starts a
run. The run loads the session's history from the store and loops: at a
checkpoint it folds the messages users pushed to the session bus meanwhile, it
compacts when the context is full, asks the model core for a stream, gates each
call through its human plate while the stream goes on, executes calls (some of
them already during the stream), and saves. The human plate puts questions on
the session bus; the gateway resolves them from the client's answers, or drops
them when the client disconnects. Tools start processes, sub-agents, background
commands and scheduled jobs, which report back through tables that every loop
reads. After a run, signals, reflections and principles go to the store. All of
it runs as tokio tasks: every `await` is a point at which another task may step in.

Hard behaviours, listed with their lines under `hazards` in `PROJECT.json`:
answers, timeouts, cancellation and sweeps that race for one question; a dozen
exits of the loop that each must fold and save; retried streams that inherit
state from the failed attempt; concurrent calls written back at a barrier; text
comparison of paths; two requests of a session that share one registry entry; a
save that overwrites what somebody else saved; a task that waits for a channel
it keeps open itself; tables written to disk after they changed; a snapshot that
is acted upon after a sleep; a check that is followed by a call of the model
before its conclusion is used; ids that are reused on a connection; deadlines
that pass in the middle of a message; pipes that fill while their writer is
waited for.

## 2. Modules and how they correspond to the code

Every definition that models code has an entry under `map` in `PROJECT.json`
with its file and lines. Names are those of the source where TLA+ allows it.

### The permission boundary

**`Accesses`** holds `normalize_path_lexical`, `normalize_accesses`, `paths_intersect`,
`accesses_conflict` and `plan_batches` as operators. A path is a flag and a
sequence of components. **`ToolScheduler`** runs the planner over every sequence of
calls and compares it with a reference definition that does not normalise but
walks the file tree (`Walk`, `Target`, `Touched`, `Races`).

**`GeJu`** has `named_pattern`, `ceremony_semantic`, `marvels_semantic`,
`evaluate`, `derive` and `tighten`. A result is its execution mode, audit level and
approval chain.

**`HumanPlate`** extends `GeJu`. A run slot takes its calls through `prepare` one at
a time; `stage` says where the call is (`walking` along its chain, `waiting` for
the user, `cleared`, `boxed`, `denied`), `pending` and `approvals` are the bus.
`Begin` evaluates and prepares; `PassRule`, `RememberedApproval`, `request_confirmation`,
`Approve`, `Refuse` and `GiveUp` are the steps of a walk between two awaits;
`handle_confirm`, `Disconnect`, `sweep_destroyed_sessions`, `Cancel` and `GrowStale`
belong to the gateway, the user and the clock. `consented` is a history variable.

### The loop

**`AgentLoop`** is one session's runs, one at a time. A message is a steer id or a
record of its kind; `folded`, `hand` and `queue` follow a steer message from the
user to the conversation. The actions follow the loop from top to bottom, and
each `return` of `run` is an action of its own. **`Conversation`** is what this
promises a user: messages wait in line until they are said, from the front, only
those marked Later may be left in their place. `ImplementsConversation` states
that the loop refines it, with `waiting <- hand \o queue` and `said <- folded`.

**`TurnDispatch`** extends `Accesses` and is one turn: calls stream in and are gated,
the eligible ones are spawned at once, the rest wait for batches; `task` is the
life of each call's task, `slot` the early slots, `out` what was recorded. `Cancel` and the
failure of a task may come at any step; a retry voids the attempt. It is the path of
native tool calls; that of models without them differs in its repeat guard (section 8).

**`ToolParse`** is the parser for models without native calls: a text is a sequence
of tags and words, what is called and what is shown are positions in it. Calls in
Markdown fences and the repair of their JSON are read with the same operators.

**`Compaction`** is the history as entries with sizes. `Say` adds a message,
`Summarise` and `FallBackToFit` are the two ways a compaction ends.

**`ModelCore`** is the router with a breaker per provider, shared by the turns of
several runs. A task of its own produces each stream into a channel; a turn reads
it, retries, or is cancelled. The three kinds of providers differ in when they
send a call on, how they end and whether a stall is noticed. A call whose fragments
had not all arrived when its provider closed it is sent on as it is (`cut`), as the
code does.

### Sessions and connections

**`SessionGateway`** is requests of the three kinds through registry, lock map,
semaphore and store; the inside of a run is reduced to load, save, return.

**`RinSocket`** is the daemon's side of a terminal's connection: one writer behind a
mutex, the reader loop, the forwarders of a run's events and of cron notices, and
hello with its question. A line is written in two pieces.

**`Workspaces`** has directories with an id in a file, rows with id and directory,
and the sessions and seeds that name them; users move directories at any time.
**`Daemon`** has commands of several terminals at the pid file, the socket and the
port; each check of a file and the change that follows are separate steps. It also
has the configuration that is loaded and checked before, and the migrations of the
database, which may be cut short by a crash or a failing statement; and what stands
before the HTTP endpoints: the key a request must show, the token bucket of each
client, and the feeds of `/events`. `tornMet` is a history variable.
**`Terminal`** is the client: modes, the lines of the active turn, what of them is in
the scrollback, the rollback of a retried stream and the loss of the connection;
the input line with its cursor, its history and its draft; the wrapping of rows.

### Work left to others

**`BackgroundTasks`** has the table, the snapshot by which a restarted daemon finds
the tasks it lost, and the loops that tell their model. **`Subagents`** has delegation
and `send_message`, the permits of a batch under rate limits, sessions in memory
and in the store, worktrees, verdicts and restarts. **`Cron`** has the store with a
file per job, the runner's tick, snapshot, jitter and firing, edits by hand and
through the tool, and the agent of a job. **`Shell`** is the output file of a command,
its pages and its preview, and the directory read off a command's output.

### Knowledge

**`Memory`** is the table of seeds under signals, tools, consolidation and the
cleaning at the end of a run; each transaction is a step, what was read before may
be stale. Its second half is the breadth-first search over triples and the scan for
contradictions, compared with distances defined on the graph. **`Skills`** is a
skill's file, the registry that watcher and gateway rebuild, evolution, and the
diff kept with a revision, compared with all common subsequences; the transaction
that replaces a session's principles is in it too. **`TaskList`** has the tasks with their criteria and the checklists of
failed tests.

### Tools and the outside

**`Files`** has the freshness gate, the cache of reads, backups and reverts, with a
user who edits meanwhile, and how a patch finds its place. **`Hooks`** has
the user's commands and the spirits' hooks. **`Sandbox`**, **`Search`**, **`LanguageServer`**, **`Mcp`**, **`Browser`**
and **`Channels`** each model the program's side as code and the other side as
nondeterminism: it answers late, wrongly, twice or never, and may die.

### Composition

By abstraction: `SessionGateway` uses a run as `AgentLoop` specifies it (it
returns, with or without `Done`), `AgentLoop` a turn as `TurnDispatch` and a
compaction as `Compaction` do, `HumanPlate` gives `TurnDispatch` the verdict `direct`
or not, `Subagents` and `Cron` use a loop that ends.

By module: `MCRunEnds`, `MCRequests`, `MCWork`, `MCKnowledge`, `MCDesk` and `MCOutside`
put parts that share no state next to each other. A behaviour has the steps of
one part, which the variable `part` names; the others stay as they start, so that
the instance is the union and not the product of theirs. `MCHumanPlate` and
`MCTurnDispatch` give constants their values; `AgentLoop` and `SessionGateway` are
checked as they are.

**`Selection`** is the part of a sequence at some of its positions, which is what
`retain`, `filter` and `partition` leave of a `Vec`. `AgentLoop` (the messages a
checkpoint folds and gives back), `ModelCore` (the calls a fragment seals),
`TurnDispatch` (what a turn records), `Subagents` (the sessions used recently) and
`Cron` (the jobs of a scan) use it; it is a recursive function, with lemmas about
what it returns.

The proofs are in modules of their own, one per run: `HumanPlateProofs`,
`RunEndsProofs` (`AgentLoop` and `RinSocket`), `RequestProofs` (`SessionGateway` and
`ModelCore`), `TurnDispatchProofs`, `WorkProofs` (`Subagents`, `BackgroundTasks`, `Cron`),
`DeskProofs` (`Workspaces`, `Daemon`) and `OutsideProofs` (`Mcp`, `LanguageServer`, `Browser`,
`Channels`, `Sandbox`).

## 3. Runs that pass

A property that is a conjunction is named for what its parts say together; each
part is a definition of the module of its component, with a comment of its own.

| Run | Property | Parts |
|---|---|---|
| `confirmations` | `TypeOK`, `NeverUnasked`, `QuestionsAnswerable`, `RefusalsHold`, `QuestionsSettle` | |
| `steering` | `SteerHandled` | `SteerConserved`, `SteerInOrder`, `CheckpointComplete` |
| | `ResponseKept`, `ImplementsConversation` | |
| `run_ends` | `RunEnds` | |
| | `ClientTold` | `LinesWhole`, `RunTold`, `NoticesKept` |
| | `ClientsLetGo` | `ForwardersLeave`, `HelloLetGo` |
| `dispatch` | `ConcurrencySafe`, `TurnEnds` | |
| | `WorkAccounted` | `TurnAccounted`, `DiscardedReadOnly` |
| `gateway` | `RunsApart` | `RunsSerialised`, `NoGhosts` |
| | `NoLostWrite`, `Served` | |
| `requests` | `HistoryKept` | `NothingForgotten`, `HistoryInOrder`, `OpeningKept` |
| | `BreakersSound` | `ProbeIsActive`, `OpenOnlyIfAllOpen` |
| | `AnswersWhole` | `CallsWhole`, `ResponseIsOneStream`, `CutNeverAnswers` |
| | `TurnSettles` | |
| `work` | `TasksTold` | `ToldOnce`, `NotForgotten`, `RunningOnDisk`, `EndedStaysEnded` |
| | `SubagentsKept` | `CoderIsolated`, `BindingsKept`, `NoneLeftBehind`, `ReportedSurvives`, `FailHeard` |
| | `JobsFireRight` | `OneShotOnce`, `FailedTextGone`, `FiringsApart` |
| | `WorkEnds` | `SubagentsEnd`, `CronAgentsEnd`, `PermitsKept` |
| `knowledge` | `MemoriesKept` | `KeyNeverLost`, `ProtectedKept`, `BudgetsHold`, `HopsAreDistances`, `ConflictsFound` |
| | `SkillsKept` | `DisabledKept`, `ChangesLoaded`, `RevisionsLimited`, `CooldownKept`, `SettingsFromUser`, `DiffFaithful`, `DiffMinimal` |
| | `PrinciplesKept` | `SavedWhole`, `OthersKept` |
| | `ChecksKept` | `NamedAreChecked`, `VectorsBounded`, `RemindedOnce`, `ForgottenOnlyIfCrowded` |
| | `CallsParsed` | `CalledOrShown`, `CallsFound`, `ArgumentsKept` |
| `desk` | `PlanCorrect` | `OrderPreserved`, `BatchesRaceFree`, `SplitsJustified` |
| | `FilesKept` | `GateMeansSeen`, `RevertUndoable`, `OnePlaceReplaced`, `EndingsKept` |
| | `CommandsSeen` | `VetoHeeded`, `RegistryOrdered`, `PagesCoverOutput`, `CapHolds`, `PreviewFits`, `CwdInside`, `ShownExactly` |
| | `TerminalExact` | `EnterHeeded`, `BubbleIsLastAttempt`, `ScrollbackExact`, `CursorBetween`, `DraftKept`, `CursorShown`, `RowsExact` |
| | `WorkspacesKept` | `OneWorkspacePerDirectory`, `MemoriesFollow`, `UserStateKept` |
| | `DaemonServes` | `StartServes`, `SocketKeptAlone`, `LoadedStarts`, `SchemaWhole`, `SealedWhole`, `RateHeld`, `RefusedOnlyIfSpent`, `OnlyKeyHolders`, `FeedExact` |
| `outside` | `OwnAnswers` | `AnswersMatch`, `OwnAnswer`, `PendingOwned`, `ActedOnce`, `AnswersInStep` |
| | `ProgramsContained` | `IsolatedIfPossible`, `NothingSurvivesKill`, `KilledOnlyIfSlow`, `RestAnnounced`, `WalkerPagesCover` |
| | `FeedsFollowed` | `NothingSkipped`, `OncePerWindow`, `LoginFollowsScreen` |
| | `CallsOutsideEnd` | `DiagnosticsLetGo`, `RunReturns`, `MessagesArrive`, `CallsReturn`, `BrowserCallsEnd`, `SearchReturns` |

The type invariants of the components are further parts of these properties.

What the runs show:

* `confirmations`: two runs of a session, one a Verifier's, with learned
  principles, a gate that may close, the sandbox on or off and a timeout longer
  than the stale cutoff: no answer, timeout, sweep or cleanup lets an unasked or
  refused call through, strands a waiter or leaves it waiting.
* `steering`: steer messages pushed at any await are neither lost, doubled nor
  reordered within their priority, through all exits; the loop implements the
  abstract conversation.
* `run_ends`: a run ends whatever the model answers; over the connection the client
  reads whole lines, a run's events after its session and without a gap; nothing
  waits for a client that has gone.
* `dispatch`: three streamed calls with early dispatch, failure, retry, repeat
  guard and cancellation: conflicting calls never run together, every call that
  ran is accounted for, every task is joined and every batch worked off.
* `gateway`: three requests of any kind on one session with cancel, steer,
  disconnect and delete.
* `requests`: conversations without tool cards lose nothing the summary did not see,
  or that was not knowingly left out after failures; two turns on one router see
  one attempt's stream, each call of it once and as its provider sent it, and settle.
* `work`: the end of a background command is told once and is final; sub-agents and
  jobs keep their promises over crashes and restarts; no permit of the batch is lost
  to a call that is aborted, fails or is rate limited; the FAIL of a Verifier is heard
  unless the PASS of an earlier one hides it.
* `knowledge`: memories, skills, principles and checklists under concurrent
  sessions; the pure algorithms (graph search, diff, parser) against definitions.
* `desk`: the scheduler against the file tree, files and patches, hooks, output
  and directory of commands, the terminal and its input line, workspaces, the
  daemon's start with its configuration and migrations, and the HTTP gateway.
* `outside`: calls to other programs get their own answers, programs are contained,
  and bots skip nothing; calls to programs that answer late, or not at all, come to an
  end.

Exceptions that a property states are behaviours of the code, described in
section 4: `Served` excepts the stranded input of a bot, `TurnSettles` a provider that
stays silent where nothing bounds the wait (before its response begins, and in a
stream of kind anthropic), `RunReturns` a descendant that left its process
group and keeps a pipe, `DiagnosticsLetGo` a thread blocked in half a message or in
a write, `BrowserCallsEnd` a connection that is not made, `ActedOnce` effects that
failed without being told so, `RestAnnounced` an empty page behind a cut or
sensitive lines, `OncePerWindow` messages without an id, `KeyNeverLost` a statement
that wrote nothing, `ChangesLoaded` a load that failed or was overtaken, `GateMeansSeen`
a read that failed behind its record, `EnterHeeded` the time before the session is
named, `UserStateKept` the row a merge deletes, `StartServes` a start that gave up at a pid file without a pid, `SocketKeptAlone` commands
that were at the pid file at the same time, `SealedWhole` a database whose second
migration failed in part, `ToldOnce` and `NotForgotten` what a crash
between two writes does.

`PROJECT.json` gives mutants for every property, one per part where it has parts: a
definition of the model changed as a slip in the code would change it (a
forgotten removal, a swapped order, an off-by-one), under which the same run
reports the property violated.

## 4. Where code and documentation disagree

Two runs each check one statement the repository makes and find a behaviour of the
code that does not satisfy it. `findings` quotes the lines.

| Run | Property | What happens |
|---|---|---|
| `principles_loosen` | `NeverLoosened` | a principle that escalates a guarded call to the sandbox takes it past closed gates: principles were to "tighten (never loosen)" |
| `cdp_response` | `MatchingResponse` | an evaluation that timed out is forgiven; its late answer is taken for that of the next one, which has the same id |

Other behaviours met while modelling. They are behaviours of the modules, or were
left out of them, and have no run of their own.

Human plate and loop:

* an answer in flight when the client disconnects is remembered after the sweep
  of the session's approvals (`ren_human/mod.rs` 401-420);
* gates closed "for the remainder of this session" are open in its next run,
  which has a new plate (`ren_human/mod.rs` 108, `loop.rs` 2161);
* the return for a cancelled compaction leaves messages folded at this turn's
  checkpoint unsaved (`loop.rs` 1064);
* the second Verifier reminder is sent although tests ran after the changes
  (`loop.rs` 1657); `exit_plan_mode` changes to Auto without asking (`loop.rs` 2207);
* a streamed read runs before an earlier, deferred write of the same file
  (`loop_dispatch.rs` 539 against `tool_scheduler.rs` 138); results of a batch are
  finalised in the order of a hash map (`loop.rs` 2080); a force stop raised in a
  failed attempt ends the retried one (`loop.rs` 1426);
* with tool cards the compacted range is computed over messages and applied to
  entries (`loop.rs` 895); the fallback keeps entries from the front although `fit`
  trimmed the oldest (`loop.rs` 1040); elided user messages are not in the note the
  marker refers to (`handoff.rs` 83);
* a call with malformed JSON vanishes from an answer, and a dangling `<tool_call>`
  turns later calls into text (`stems/tool_parse.rs`).

Model core:

* a success is recorded for the active provider, not for the one that served
  (`loop.rs` 1475); an open breaker rejects nothing; the backoff's sleep is not
  cancellable;
* the cached path of anthropic (352-487) has no timeout per chunk, although
  349-351 call it identical to the other; `send()` and `text()` have no deadline with
  any provider (`openai.rs` 150-156, `gemini.rs` 119-124), only the chunks of openai and
  gemini do;
* a call whose arguments have not all arrived at the finish reason or at
  `content_block_stop` is emitted with what is there (`openai.rs` 90-101,
  `anthropic.rs` 438-447), and arguments that do not parse become `Null`
  (`loop.rs` 1289-1290).

Gateway and connection:

* a bot's run ended by a Now steer waits for its own collector for ever
  (`spawn.rs` 384);
* a second message of a session takes the first one's token out of the registry,
  so that cancel does not reach it (`rin.rs` 577); a run that saves after its
  session was deleted creates the row again (`gen_store/sessions.rs` 8);
* hello's question is not withdrawn when its client goes, as the comment at
  `rin.rs` 315 expects, but times out; an over-long line ends the reader while the
  forwarders keep the socket open; `rin.rs` 33 says that ask_user has no timeout,
  `ask_user.rs` 156 has one.

Background tasks, sub-agents, cron:

* a slow command is killed and run again in the background (`shell.rs` 259-264); a
  loop may be told of a task another session started; the marks of lost tasks
  vanish at a second crash;
* the capacity of a batch is not enforced (`subagent_batch.rs` 56), and the shrinking
  under rate limits that 88-90 announce does not happen; of two concurrent `send_message` to one sub-agent one
  context is lost;
* with two Verifiers a first PASS hides a later FAIL; a verdict that cannot be read
  makes the whole text of the batch be searched for one (`delegate.rs` 328), so that
  the words of any sub-agent count; the answers of `send_message` are not examined.
  A report that quotes the line of the marker is not modelled;
* a matching minute may be missed between ticks; a job removed or disabled during
  the jitter still fires; an edit between the scan and `record_fired` is
  overwritten; edits in one second are not seen; an agent that times out leaves no
  completion; a one-shot may fire twice when a crash comes before it is disabled;
  `update()` takes only five fields for a one-shot too, which is then never due
  (`cron/mod.rs` 476-478);
  `*/N` with N over 31 in the day field never matches.

Memory, skills, principles:

* the global cap of zuowang (5000) is not implemented; dissolution acts on a
  snapshot and may delete a seed touched meanwhile; one key may get two values;
  "不喜欢X" yields a dislike and a like; `graph.rs` 25 documents one hop where
  callers pass 0; the limit per hop counts triples already seen;
* a stated preference equal to an inferred one writes nothing (`signal.rs` 215-221), and
  the inferred one may be dissolved; a replacement whose insert fails has already
  deleted the value before (`signal.rs` 233, 250);
* one confident reflection is to trigger a revision at once (`revise.rs` 70), the
  batch leaves it out; a revision that fails its check is only logged; users'
  edits during a revision are lost, because it writes the file as it read it; two
  sessions may both pass the cooldown; the
  disabled set is lost at a restart and between copy and swap; a slower reload swaps
  an older file in (`dui_gateway/skills.rs` 112-140), and a failed one behind the switch
  of evolution leaves an empty registry (214-227);
* the next derivation deletes archived principles; a COMMIT that fails returns a
  connection with an open transaction.

Tools, hooks, terminal:

* a read that fails has recorded the file's time before (`read_file.rs` 112-132), and
  one that is truncated records it too: the next write passes the gate; backups of
  equal file names share a name, where `write_file.rs` 73-77 says that disjoint targets
  keep disjoint ones;
* a revert by file name may take another directory's backup; two edits in one
  second overwrite the backup; a user's edit between a tool's write and its stat
  passes the gate; reading more lines than before may answer "unchanged";
  overlapping matches count as one; pages cut characters of several bytes;
* the completion hook gets no tool events, and no event of BaiHu's is ever fired;
  CompactionTriggered is fired for the hooks of JiuDi (`loop.rs` 1073-1085), so that
  XuanWu's, which is to count what compactions drop (`xuanwu.rs` 4, 30-31; `hook.rs`
  124-130), counts nothing; PostToolUse hooks never run; pre-tool hooks have no timeout and a hook that cannot be spawned lets the call pass;
* Esc before the session is known cancels nothing, and Enter is refused without a word
  (`state.rs` 279-288, 995-997); an input line of more than six rows, or one the widget
  breaks between words, has its cursor on another row than counted (`composer.rs`
  246-249, `app.rs` 101); taking back a question's line may take one of the
  model's own that begins alike (`state.rs` 432-438);
* a late delta after Esc re-arms
  the anchor; Retrying drops notes pushed during the stream; a ConfirmResolved of
  an earlier question closes a newer prompt; a second question replaces the first.

Processes and services:

* a language server that died is never replaced; a timed-out initialize is sent
  again and refused; a deadline between header and body puts the framing out of
  step; navigation on a silent server waits for ever with the lock held
  (`lsp.rs` 193-197, 304-310), and so does a diagnostics call inside half a message or
  in a write to a full pipe (559-575, 629-651); diagnostics after an edit may be those
  published for the text before it, because only the URI is compared (348-359);
* joining the readers of a sandboxed command has no deadline; docker that answers
  but was not built leads to the plain process although Landlock is there; a
  directory that was removed makes later commands fail;
* messages handed on are lost if the daemon dies after the cursor was saved; a
  batch that cannot be processed is retried for ever; answers to a group go to the
  sender; a WeChat message without an id is never recognised as a duplicate
  (`bot.rs` 170-172), and an answer without `get_updates_buf` does not move the cursor
  (159), so that it is delivered again;
* an MCP call that is dropped leaves its pending entry; a connection that closed
  is not opened again; browser clicks report an error although they acted, and what the page throws within
  a click or while text is typed comes in `exceptionDetails` of an answer that counts as
  success (`browser_type.rs` 184-202, `browser_click.rs` 198-208); the
  console keeps its oldest entries; scrolling always fails, its script returns at top
  level; connecting to Chrome has no deadline (`browser_cdp.rs` 94-99);
* ripgrep is run without `--sort`, so that pages may skip or repeat lines; an offset
  beyond the captured part of a cut output answers "No matches found" (`grep.rs`
  251-257), although the notice of the cut says to page on; glob
  ignores that its output was cut; one unreadable file fails the fallback, which
  shows the lines of a sensitive file that is named itself (`grep.rs` 139-140,
  286-307);
* the socket of a live daemon can be removed by a start that races with it
  (`start.rs` 416-421); a crash between creating and writing the pid file leaves an
  empty one; a recycled pid counts as alive;
* sessions may be created without a workspace (`rin.rs` 399-400); a copied directory
  takes its workspace over; PATCH is read, modify, write; a merge deletes the row of
  the workspace that was at the directory, with its description and tags
  (`workspaces.rs` 45-64); seeds of the user's profile have no workspace
  (`user_profile.rs` 87).

Configuration, store and HTTP:

* an evicted bucket of the rate limiter comes back full;
* a database of version 0 is sealed as version 2 although statements of the second
  migration failed, where `gen_store/mod.rs` 72 says that a half migration is not
  to be sealed; `security.allow_unauthenticated` is only in a comment
  (`auth.rs` 131);
* the default provider is not first in the router (`zhong_core/mod.rs` 309-310);
  `default_aux_model_provider` is not validated.

## 5. Bounds and fairness

Bounds are CONSTANTS, guard the actions that count, and are given in the `.cfg`
files. The theorems of section 6 hold for every value of them.

* `confirmations`: two runs and two questions, so that one can wait while the other
  is dropped as stale, swept or answered; one further plate, so that gates and
  approvals meet a second run.
* `steering`: two steers, two runs of two turns, `HistoryCap = 3`: one message is given
  back while another arrives or a run ends, a later checkpoint or the next run
  inherits the queue, and the history cap trims. `run_ends`: three turns, two reminders, one criterion;
  one client that sends two requests, two notices against a channel that keeps
  one, two events of a run.
* `dispatch`: three calls of four kinds, a window of two, one retry, force stop at
  two; the window is exceeded, a batch has a failing and an aborted call.
* `gateway`: three requests on one session: one holds the lock, one waits, one
  ends, which is what the clean-up of lock map and registry depends on.
* `requests`: eight entries of sizes 2 and 5 against a limit of 12 give several
  compactions in a row, with the proportions of the code's budgets; two turns on
  two providers (and one alone on gemini), a breaker that opens at two failures,
  one retry.
* `work`: two tasks, two loops, two crashes (the second meets the marks of the
  first); two sub-agents on one permit, a table of one, one restart; two jobs over a
  horizon of five ticks, one of them one-shot, one change, one restart.
* `knowledge`: four seeds, two sessions, budgets of one; three triples over three
  entities and two hops; two sessions that revise one skill, one revision each;
  texts of four lines; two learners; two task sessions and three of verification
  against two buckets; answers of four tokens.
* `desk`: three calls over seven spellings (`./a`, `b/../a`, an absolute path, a
  directory, one that climbs over the root); three files of one name, two calls that
  may be under way together and four operations; texts of four characters; output of six bytes in characters of one
  and three; two runs of two streams and one retried stream in the terminal, an input
  line of three characters of one and three bytes over five columns and two rows
  (`InputRows` stands for six), so that a text may be longer than they hold; rows of three
  columns and four words; four directories for the shell, one of them blocked and one
  outside; two directories, two clients, one move; three processes
  at the pid file, two deaths; two providers and three mishaps of a migration; three
  peers, two tokens a minute, one bucket before eviction, a bus that keeps one event.
* `outside`: two threads at a language server, two operations; a shell and one child;
  two messages and two faults of a service, a login whose code expires; two callers and four answers of an MCP
  server; two browser calls over every tool; pipes of one line and a cap of three;
  pages asked for at offsets 0, 1 and 3, which is past the cap (`Offsets`).

`knowledge` uses the symmetry of the two sessions of `Skills`, which the model never
tells apart; its properties are invariants and action properties.

Deadlock checking is on for the human plate, whose runs can always be cancelled
or begin again, and off where the bounded number of messages, runs or requests
is used up and the system has nothing left to do.

Fairness is weak fairness of the program's own tasks and timers, which the tokio
runtime, the operating system's threads and their clocks give: a ready task is polled,
a deadline passes. Nothing is asked of users, clients, models, servers, Chrome or chat
services: that they answer is never assumed, and where a wait for them has no
deadline the property says so (section 3).
`HumanPlate` asks it of a waiting run too, because the wait is under
`tokio::time::timeout`; `AgentLoop` of the run; `TurnDispatch` of the loop and of the
tools, which run under timeouts; `SessionGateway` of each request's task; `ModelCore` of
each turn and its producer. `EndsFair`, `WorkFair` and `OutsideFair` ask only that
someone who is ready moves, without saying who, which is weaker and suffices
because the parts have finitely many steps between two inputs. In `Search` the
program ripgrep is taken to write while its pipe has room, unless it stalls, and is
then overtaken by the deadline; a process that gets SIGKILL dies. Streams of openai and
gemini have a timeout per chunk once the response has begun, which is why `TurnSettles`
excepts the time before and the streams of anthropic.

## 6. Proofs

Every theorem holds for all values of the constants that satisfy the ASSUMEs of
the module it is about, which TLC evaluates in the runs. Each proof follows the
same pattern: an invariant that implies the property and is inductive, which TLC
checked on an instance first; one step per action, and under it one per conjunct
that the action can disturb.

| Module | Theorem | States |
|---|---|---|
| `HumanPlateProofs` | `TypeCorrect` | the state is well typed |
| | `QuestionsAreAnswerable` | pending confirmations and waiting runs match |
| | `NothingRunsUnasked` | what must be asked about runs only with consent |
| | `RefusalsAreFinal` | what is refused stays refused |
| | `WalkNeverIsolates` | no chain contains `SandboxIsolation` |
| `RunEndsProofs` | `SteersAreHandled` | no steer message is lost, doubled or overtaken |
| | `ResponsesAreKept` | a completed response is saved before the run returns |
| | `LoopConverses` | the loop implements `Conversation` |
| | `ClientsAreTold` | whole lines, events after their session without a gap, notices |
| `TurnDispatchProofs` | `ConcurrencyIsSafe` | calls that overlap in time do not conflict and fit the window |
| | `WorkIsAccounted` | history and client learn of every call that ran, once and in order |
| `RequestProofs` | `RequestsStayApart` | runs of a session are apart, no token outlives its request |
| | `WritesAreKept` | a save never drops what another run saved |
| | `BreakersStaySound` | probation and open breakers agree with the router |
| | `AnswersStayWhole` | a turn has one attempt's stream, each call once and as its provider closed it, and none that was cut by a cancellation |
| `WorkProofs` | `SubagentsAreKept` | sub-agents keep worktree, kind and report, and are not left behind; the FAIL of a Verifier is heard unless an earlier PASS hides it |
| | `TasksAreTold` | the end of a background task is told once and is final |
| | `JobsAreFiredRight` | one-shots fire as often as they were asked for, agents start apart |
| | `WorkIsKept` | the three for `WorkSpec`, the specification of the run |
| `DeskProofs` | `WorkspacesAreKept` | one workspace per directory, and what follows it, but for a row that a merge deletes |
| | `DaemonIsServed` | starts, sockets, configuration, schema, the key, the limit and the feeds |
| `OutsideProofs` | `AnswersAreOwn` | answers of language servers and MCP servers are taken by the calls they answer; what a browser call reports as done reached the page once |
| | `FeedsAreFollowed` | a bot skips no message and takes none with an id twice; its login |
| | `SandboxesContain` | the best sandbox, and nothing of a group survives its kill |

**The human plate.** Assumptions: `SessionAssumption` (every run has a session),
`CallsAssumption` (calls are records of their type), `PairsAssumption` (ceremony and
palace are among the pairs the tools declare), `LearnedAssumption` (principles have
a shape `derive` produces) and `BoundsAssumption`. `IInv` is `QuestionInv` and `ConsentInv`:

* `QuestionInv` adds to `TypeOK` and `QuestionsAnswerable` that a run that is not idle
  holds a call and, when it waits, the gate it waits at (`CallHeld`,
  `ChainHeld`), that ids of questions are below `nextId`, and that an id belongs to
  one run and a run to one question (`OneQuestion`). The last is needed because a
  timeout and an answer remove an entry by its id: were ids shared, one run's
  timeout would strand another.
* `ConsentInv` says where consent is: for a call that must be asked about, the
  question is still ahead on its chain or the user has consented
  (`AskedOrConsented`); a `yes` that has not been read yet is consent already
  (`YesIsConsent`); and what the bus remembers was consented to (`MemoryIsConsent`).

`PrepareOutcome` is the lemma behind it: whatever GeJu and the principles make of
a call, `prepare` refuses it or puts the question on its chain. `RefusalInv` does
the same for refusals (what is on its way was admitted by the gates that are
open now), and `NoIsolation` rests on `DeclaredChains` and `TightenedChains`.
`WalkNeverIsolates` means that the arm of `walk_approval_chain` that returns into the
sandbox path, past the gates behind it, is dead, and that the model, which has no
step for it, loses no behaviour.

**The agent loop.** Assumption: `BoundsAssumption`. `LoopInv` is the type invariant,
`TurnCounted`, `SteerInv` and `ResponseInv`. `SteerInv` follows a message from the
queue through the hand of a checkpoint to the history: every message is in one of
the three places (`SteerConserved`), in order within its priority, only the step
between drain and fold has a hand (`HandPlaced`), and what a checkpoint saw it
has folded unless it is marked Later (`Drained`, `Placed`). `MovedApart` is the lemma
about the partition of the hand. `ResponseInv` says that a response in a history,
in memory or stored, belongs to a turn that was completed, and that each way out
of the loop saves after it. `LoopConverses` maps every step to one of the abstract
conversation or to a stutter: `Push`, or `Say` with the choice whether urgent
messages were taken.

**The gateway.** `GatewayAssumption` asks for a session and for permits. `GatewayInv`
has `OneLock` (all tasks that wait for a session or run in it hold the lock that is
in the map: an entry in use is never dropped), `Held` (the holder of a lock is in a
run and a run holds the lock), `Registered` and `UpToDate` (what a run works on is
no older than what is stored). The last two rest on the first two.

**The terminal's connection.** `RinAssumption` says that channels hold something.
`RinInv` has for each client `Mutex` (the owner of the writer is the task between
the two pieces of its line, and the wire ends with the first of them), `Once`
(a request is handled once), `RunKnown` and `RunLines` (what was told before an event),
`Forwarded` and `Counts` (the notices a forwarder has passed, up to a lag).

**The model core.** Assumption: `ModelCoreAssumption`. `CoreInv` is `RouterInv` and
`StreamInv`. The first is inductive once the types are known, because
`try_failover` looks at every provider (`AfterActiveOnto`) and no failure leaves a
breaker half-open (`FailureRecorded`). The second says, for a turn, its producer and
the channel between them, that response and channel make up what was sent, that
only a reading turn has a producer, that no end was sent by one that is alive or
was cut, and `Fit`: every call that was started has a number of its own, among
those sent or those still open, and those sent are closed: complete, empty, or cut
short by the provider's own finish. `FitSend` shows this for
any division of the open calls into sent and kept ones; `FitStart` and `FitGrow` say which
division a fragment makes, `FitFinish` that at a finish every open call goes out as it
is (`Over`).

**A turn.** Assumptions: `CallsAssumption`, `LimitsAssumption`, and of `Accesses` that
names are neither `.` nor `..` and that paths are spelled with them. `DispatchInv` is
the types, `GuardInv` (the streaks of the repeat guard stay below the stop), `Reported`
(each result was sent once) and `PhaseInv`, which has one part for each phase:
`StreamInv` (what runs beside the stream was eligible: it only reads), `PrepareInv`
and `ExecuteInv` (the calls before a position are settled, those behind it
untouched, and `BatchInv` holds: the batches divide the calls in order, and no two
of a batch conflict). That the planner makes such batches is shown for any
declarations: `plan_batches` is a function of the position, and `PlanOK`, that the
batches so far divide the positions so far, grows by one position at a time. What
was spawned beside the stream only reads and has been drained before the first
batch, which is why no batch needs to know of it.

**Sub-agents.** `SubagentsAssumption` bounds the counters. `SubInv` adds to
`SubagentsKept` that calls begin in order (`Numbered`), that a run agrees with its
session on kind and authorisation, and so does what is kept of the session in
memory and in the database (`RunsBound`, `KeptOf`), and that the list of recently used sessions names
each session in memory once (`RecentOnce`). The last is what eviction needs: were an
entry of the list without a session, the oldest would not be evicted. `FailHeard` follows
from how `verifier_failed` reads a batch, its fallback to the whole text included.

**Background tasks.** `BackgroundAssumption` bounds the crashes. `BgInv` says of each
task (`TaskKept`) how its entry in the store, its process, what was told of it, the
snapshot on disk and the lists of the loops fit together: one that runs was not
told of; one that ended and is not marked was not told of either, unless it is the
mark of a lost task, which only a crash writes; what the snapshot names was told of
at most once, so that the second telling, as lost, is the last.

**Scheduled jobs.** `CronAssumption`: finitely many jobs, natural cooldowns and
jitters, Minute at least 1. `CronInv` has `RunnerKept` (the list of a scan names a job
once, and time does not pass the wake of the job that fires), `CreditKnown` (a
one-shot that is enabled in memory or in its file, or waits in the list, is owed a
firing; two, when it was removed while it was in the list and its file was written
again), `SpawnKnown` (an agent starts its jitter after the recorded firing, which
memory and the copy in the list both know) and `AgentsKept`. Trying to prove it showed
that two history variables were wrong: `credit` was set and not counted, and
`spawned` outlived the removal of a job, so that the property failed for two or
more changes although the code behaved. The run had one change; now `credit` counts
each adding and switching on, and the property was checked with four.

**Workspaces.** `WorkspacesAssumption`: there is a directory, and the bounds are numbers.
`WsInv`: no two rows share an id or a directory (`RowsApart`), a session names a row
that is there and one that is deleted names none (`Linked`), and a stored memory names
the workspace of its session unless a merge came between reading and storing it
(`Followed`). `TablesRelinked` is the lemma about a merge: whatever row a
directory is given, the sessions and memories of the row that goes name the one that
stays. `UserStateKept` is an action property, shown from the same invariant step by step:
a description stays with its id or its directory, unless its row is one that a merge
deletes (`Superseded`), and an archived session returns only by name.

**The daemon.** `DaemonAssumption`: no process is called as an absent file is.
`DmInv` has `PortHeld` and `FileWritten` (who serves has the port; the pid in the file is
its creator's), `SomeSecure` (a start that is wanted has a process that will serve
unless something is done to it, or one gave up at a torn file), `FailingNamed` (if the
daemon that the file names is failing, another has the port: without it a start could
give up for the sake of one that gives up itself) and `Exclusive` (while no commands
overlapped, whoever starts is alone, and the file and the socket are those of the
daemon that serves). Looking for it showed that `StartServes` was wrong as it had
been stated, with an exception for a torn file that is still there: with two deaths a
slow status query removes the torn file after a start has given up at it, which one
death could not show. The exception is now that a start gave up at one
(`tornMet`). The run has two deaths, and the invariant was checked with four processes.

**The configuration and the store.** `StartupAssumption`. `SuInv` is what `load` has checked
(`Sound`) and that the cores chosen from it are among its providers. `StInv` says which
statements are left to execute (`In002`, `In003`) and which part of the schema is there
by then, and what each version promises (`Versions`).

**The limit.** `HttpAssumption`: rate, minute and capacities are positive. `LiInv` gives each
bucket an account (`Account`): what is in it is what a full bucket and the time since
some request allow beyond the requests since then (`Exactly`), and no more than for
any other request (`AtMost`); for a bucket that was dropped as stale, any span allows
a full bucket again (`StaleIsFull`, from five minutes). Passing and refusing keep
it, and the two properties are its two halves. The products of rate and time are
linear for the prover only one at a time (`RatesAdd`, `MinutesAdd`).

**The key and the feeds.** `FeInv`: a feed with prompts is one of a peer that showed the key
(`Fed`), and what it got is what was due up to its position, in order (`InStep`).

**MCP, language servers, browser.** `McpAssumption`, `LspAssumption` (no thread is
called `None`) and `BrowserAssumption`. `McpInv`: ids are owned by one request each and are
below `next_id` (`McpIds`), what a request holds is the answer to its id or a failure,
and then its entry is gone from the map (`McpGot`, `McpPending`). `LspInv`: who is between
locking and returning holds the lock (`LspHeld`), and headers and bodies alternate in
the pipe, a body being in front for a thread that has read its header (`LspPipe`);
without the second a result could be taken from half a message. `BrowserInv` is about
each call alone, because each has a connection of its own: it has not begun, is
over, or is under way, and then what is on the connection belongs to its step
(`Outstanding`, `Acts`); the exception is navigation past the evaluation that may be
forgiven, of which only the queue is known (`LateQueue`). `EffectAt` says at which command each tool acts, and
`ScriptLike` that no other command of its script does.

**Bots and logins.** `ChannelsAssumption` bounds messages and faults. `ChannelInv`: what a
cursor has passed, in memory, on disk or at the service, was handed on if it was
wanted (`ChannelPassed`); what the batch will pass was handed on or is still in it
(`ChannelBatch`, ascending with Telegram, whose cursor moves within the batch); what
the window of duplicates names was handed on (`ChannelSeen`). `LoginInv`: every code but
the one on the screen has expired, and the account is that of the confirmed one.

**Sandboxes.** `SandboxInv`: the backend is the one chosen for the host, and after
SIGKILL who is alive has left the group (`GroupGone`); its children inherit that. The
rest of `ProgramsContained`, the search program, is only model-checked.

`WorkParts`, `PartsStep`, `WorkspacesOfDesk` and `DaemonOfDesk` take the proofs of the parts
to the specifications the runs check: a step of `MCWork`, `MCOutside` or `MCDesk` is a
step or a stutter of every part.

**Induction.** The library's induction theorems take an operator and cannot be
used. `Selection` proves from `WFMin` that a set of numbers has a least element
(`LeastNumber`) and from that `Induction`, a fact about a set: one that holds 0 and
with n - 1 also n, up to N, holds all numbers up to N. With it `AtPlaces` shows that
the part of a sequence at given positions has each of their elements once and in
order, which is all that the other proofs use of `retain`, `filter` and `partition`, and
the planner's batches are followed position by position.

Only model-checked:

* the liveness properties, which need fairness and ENABLED: `QuestionsSettle`, `RunEnds`,
  `ClientsLetGo`, `TurnEnds`, `Served`, `TurnSettles`, `WorkEnds` (with `PermitsKept`, which counts
  permits and their holders), `CallsOutsideEnd`;
* the properties that compare an algorithm with a definition, which is induction
  over data through recursive operators, folds or `SelectSeq`: `PlanCorrect` (paths
  against the file tree; `ConcurrencyIsSafe` has the planner against
  `accesses_conflict`), `CallsParsed`, `HistoryKept` (token sums), parts of `MemoriesKept` (search
  over triples), of `SkillsKept` (the diff), of `FilesKept` (patches), of `CommandsSeen` (pages) and of
  `TerminalExact` (cursor and rows);
* `KilledOnlyIfSlow`, whose model of a deadline uses ENABLED, and with it the search part
  of `ProgramsContained`;
* the rest of `MemoriesKept`, `SkillsKept`, `PrinciplesKept`, `ChecksKept`, `FilesKept`,
  `CommandsSeen` and `TerminalExact`: the components of `knowledge`, the tools at hand and
  the terminal have no proofs yet.

## 7. Plan

Done: the permission boundary; the loop, its turns and its compaction; the
gateway; the model core; sub-agents, background tasks and cron; principles,
memory, zuowang and skills; the tools with state of their own; the terminal, its
connection, the daemon with configuration and migrations, the HTTP gateway; the
abstract conversation and its refinement; the proofs of section 6.

Left, in this order:

1. Proofs about the principles and the checklists, about hooks and files (`VetoHeeded`,
   `GateMeansSeen`) and the terminal (`EnterHeeded`); `HistoryInOrder` of `Compaction`.
2. A session lock as a mutex and `SessionGateway`'s map of locks as its
   implementation; a turn as a sequential execution up to commuting calls, for
   turns without deferred calls.
3. Full cron expressions; navigation requests of language servers.

## 8. What is not modelled, and why

* Context reset: counts against thresholds, which nothing constructs.
* Turns of models without native calls: their repeat guard is consulted when the batch
  is prepared (`loop.rs` 1820-1843) and a forced stop there drops calls of the batch
  that were prepared already; `TurnDispatch` is the path of native calls.
* The daemon's own forwarder of cron notices may lag behind as well (`rin.rs` 229):
  what it misses no client gets. `RinSocket` has the lag of each client's forwarder.
* `MAX_JOBS` (`cron/mod.rs` 421) and the cooldown over a restart: the record of agents
  starts anew with the daemon. The start of a job's agent and the disabling of a
  one-shot behind it are one step.
* A version of the database that cannot be read counts as 0 (`gen_store/mod.rs` 63-65),
  so that the migrations run again; `Daemon` has no failing read.
* A session that was deleted stays so in `Workspaces`; that a later save brings its row
  back is in `SessionGateway`.
* `head_limit` 0 of the search tools, whose page is always empty.
* Prompt assembly, plan mode and event formatting in `loop.rs`: they add inputs to
  the loop and no new interleaving.
* The gates XiuMen, DuMen and JingXiangMen: only tests close them. AddGuard and
  audit levels on a direct result are kept in `GeJu`, and have no effect in
  `prepare`, as in the code.
* Manas, mano and coactivation, entropy, embeddings: floating point weights and
  prompt texts. Strengths that decide what is kept are integers in `Memory`.
* Computer use, WASM plugins, other single-call tools: one call of the operating
  system or of code of others; their verdicts and failures are nondeterministic.
* What sandboxes enforce, SQLite (a statement or a transaction is atomic), HTTP and
  JSON of the providers, pages of the browser, matching of ripgrep, chat services:
  external, modelled as the code uses them.
* TOML parsing and the assembly of the plates, the terminal's layout and colours,
  telemetry: values, arithmetic and presentation without interleaving.
