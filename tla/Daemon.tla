------------------------------- MODULE Daemon -------------------------------
(***************************************************************************)
(* The life of the daemon (src/src/cli/start.rs, cli/tui.rs, main.rs and   *)
(* spawn_rin_listener of dui_gateway/rin.rs): commands of several          *)
(* terminals start, stop and query it through a pid file, a Unix socket    *)
(* and a TCP port.  Each check of a file and the change that follows it    *)
(* are separate steps; a daemon may die between any two of its own.        *)
(* And what a daemon does first: the configuration is read                 *)
(* (kun_config/mod.rs AppConfig::load) and the earth plate assembles the   *)
(* model core from it (di_earth/mod.rs EarthPlate::assemble); the store    *)
(* brings its schema up to date (gen_store/mod.rs Store::open).            *)
(* And what stands before its HTTP endpoints (dui_gateway): the key that a *)
(* request must show (auth.rs auth_middleware, mod.rs handle_auth_session),*)
(* the limit on requests to /agent and /webhook (auth.rs RateLimiter: one  *)
(* token bucket per client, refilled with the time that has gone by,       *)
(* dropped when it was not used for long and evicted when there are too    *)
(* many), and the feed of GET /events (events.rs), a task per client that  *)
(* copies from the bus of events.  A token is Minute units, so that a tick *)
(* of time refills Rate units: the floating point arithmetic of the code   *)
(* without its rounding.                                                   *)
(***************************************************************************)
EXTENDS Integers, Sequences, FiniteSets

CONSTANTS
    Procs,      \* daemon processes, in the order they may be started
    MaxQueries, \* bound: status queries
    MaxDeaths,  \* bound: crashes
    ProviderNames, ProviderKinds,
    ProviderRanks, Unset   \* priorities, and none: u32::MAX

ASSUME DaemonAssumption == Procs \cap {"absent", "empty", "free"} = {}

VARIABLES
    pidfile,    \* the file: who created it ("absent" if it does not exist), what it says
    socket,     \* rin.sock: whose listener it leads to
    port,       \* who holds the TCP port
    proc,       \* each process: where it is
    listener,   \* each process: its task that serves rin.sock
    signalled,  \* processes that were sent SIGTERM
    query,      \* a status or a stop command that is to remove the pid file
    queries, deaths,
    wanted,     \* history: a start that nothing has undone since
    overlapped, \* history: two commands worked on the pid file at once
    tornMet     \* history: a start gave up at a torn file, and none was created since

daemonVars == <<pidfile, socket, port, proc, listener, signalled, query, queries, deaths,
                wanted, overlapped, tornMet>>

NoFile == [by |-> "absent", pid |-> "absent"]

DaemonInit ==
    /\ pidfile = NoFile /\ socket = "absent" /\ port = "free"
    /\ proc = [p \in Procs |-> "unborn"] /\ listener = [p \in Procs |-> "none"]
    /\ signalled = {} /\ query = "none" /\ queries = 0 /\ deaths = 0
    /\ wanted = FALSE /\ overlapped = FALSE /\ tornMet = FALSE

Alive(p) == p \in Procs /\ proc[p] \notin {"unborn", "dead"}
Serving(p) == proc[p] = "serving"
Starting(p) == Alive(p) /\ ~Serving(p)

(* Mutant: files of earlier daemons are left alone.                        *)
Stale_Never == FALSE

(* kill(pid, 0) of what the file says; what does not parse is no pid.      *)
Claimed == Alive(pidfile.pid)
Stale == pidfile.pid \in Procs /\ ~Alive(pidfile.pid)

Goto(p, where) == proc' = [proc EXCEPT ![p] = where]

(* A process that exits gives back its port and its listener.              *)
ExitProc(p) ==
    /\ Goto(p, "dead") /\ listener' = [listener EXCEPT ![p] = "none"]
    /\ port' = IF port = p THEN "free" ELSE port

Overlap(p) == overlapped' = (overlapped \/ query # "none" \/ \E q \in Procs \ {p} : Starting(q))

-----------------------------------------------------------------------------
(* start, restart, tui and web: a daemon is spawned unless the file names  *)
(* a live one.                                                             *)
spawn_daemon(p) ==
    /\ proc[p] = "unborn" /\ ~Claimed
    /\ Goto(p, "checking") /\ wanted' = TRUE /\ Overlap(p)
    /\ UNCHANGED <<pidfile, socket, port, listener, signalled, query, queries, deaths, tornMet>>

(* is_daemon_running: a stale file is removed, some time after it was read.*)
is_daemon_running(p) ==
    /\ proc[p] = "checking"
    /\ IF Claimed THEN ExitProc(p)
       ELSE Goto(p, IF Stale THEN "clearing" ELSE "creating") /\ UNCHANGED <<listener, port>>
    /\ UNCHANGED <<pidfile, socket, signalled, query, queries, deaths, wanted, overlapped, tornMet>>

RemovePid(p, from, to) ==
    /\ proc[p] = from /\ pidfile' = NoFile /\ Goto(p, to)
    /\ UNCHANGED <<socket, port, listener, signalled, query, queries, deaths, wanted, overlapped, tornMet>>

Clear(p) == RemovePid(p, "clearing", "creating")

(* The file of a daemon that died between creating it and writing its pid. *)
Torn == pidfile.pid = "empty" /\ ~Alive(pidfile.by)

NewFile(p) ==
    /\ pidfile = NoFile /\ pidfile' = [by |-> p, pid |-> "empty"]
    /\ Goto(p, "writing") /\ tornMet' = FALSE /\ UNCHANGED <<listener, port>>

Create(p) ==
    /\ proc[p] = "creating"
    /\ \/ NewFile(p)
       \/ pidfile # NoFile /\ Goto(p, "reading") /\ UNCHANGED <<pidfile, listener, port, tornMet>>
    /\ UNCHANGED <<socket, signalled, query, queries, deaths, wanted, overlapped>>

(* create_new failed, and some time after the file is read: a live daemon  *)
(* ends the start, a dead one makes room, and where there is no pid, or no *)
(* file any more, nothing is done.                                         *)
IfTaken(p) ==
    /\ proc[p] = "reading"
    /\ IF Claimed THEN ExitProc(p)
       ELSE Goto(p, IF Stale THEN "removing" ELSE "recreating") /\ UNCHANGED <<listener, port>>
    /\ UNCHANGED <<pidfile, socket, signalled, query, queries, deaths, wanted, overlapped, tornMet>>

Unlink(p) == RemovePid(p, "removing", "recreating")

(* The second create_new; a file that is still or again there ends the     *)
(* start.                                                                  *)
Recreate(p) ==
    /\ proc[p] = "recreating"
    /\ \/ NewFile(p)
       \/ pidfile # NoFile /\ ExitProc(p) /\ tornMet' = (tornMet \/ Torn) /\ UNCHANGED pidfile
    /\ UNCHANGED <<socket, signalled, query, queries, deaths, wanted, overlapped>>

(* The pid is written to the open file, whatever has become of its name.   *)
WritePid(p) ==
    /\ proc[p] = "writing" /\ Goto(p, "listening")
    /\ pidfile' = IF pidfile.by = p THEN [pidfile EXCEPT !.pid = p] ELSE pidfile
    /\ UNCHANGED <<socket, port, listener, signalled, query, queries, deaths, wanted, overlapped, tornMet>>

(* spawn_rin_listener: the old socket goes, and a task binds the new one.  *)
spawn_rin_listener(p) ==
    /\ proc[p] = "listening" /\ Goto(p, "binding")
    /\ socket' = "absent" /\ listener' = [listener EXCEPT ![p] = "spawned"]
    /\ UNCHANGED <<pidfile, port, signalled, query, queries, deaths, wanted, overlapped, tornMet>>

BindSocket(p) ==
    /\ listener[p] = "spawned"
    /\ IF socket = "absent" THEN socket' = p /\ listener' = [listener EXCEPT ![p] = "bound"]
       ELSE UNCHANGED socket /\ listener' = [listener EXCEPT ![p] = "none"]
    /\ UNCHANGED <<pidfile, port, proc, signalled, query, queries, deaths, wanted, overlapped, tornMet>>

BindPort(p) ==
    /\ proc[p] = "binding"
    /\ IF port = "free" THEN port' = p /\ Goto(p, "serving")
       ELSE UNCHANGED port /\ Goto(p, "failing")
    /\ UNCHANGED <<pidfile, socket, listener, signalled, query, queries, deaths, wanted, overlapped, tornMet>>

(* The port is taken: the socket, the file, and the process go.            *)
RemoveSocket(p) ==
    /\ proc[p] = "failing" /\ Goto(p, "leaving") /\ socket' = "absent"
    /\ UNCHANGED <<pidfile, port, listener, signalled, query, queries, deaths, wanted, overlapped, tornMet>>

Leave(p) ==
    /\ proc[p] = "leaving" /\ pidfile' = NoFile /\ ExitProc(p)
    /\ UNCHANGED <<socket, signalled, query, queries, deaths, wanted, overlapped, tornMet>>

(* SIGINT of a daemon that serves: the file is removed, the socket is not. *)
Shutdown(p) ==
    /\ Serving(p) /\ pidfile' = NoFile /\ ExitProc(p) /\ wanted' = FALSE /\ Overlap(p)
    /\ UNCHANGED <<socket, signalled, query, queries, deaths, tornMet>>

(* Mutant: the signal is not sent.                                         *)
Stopped_None == {}

Stopped == {p \in {pidfile.pid} : Alive(p)}

(* stop_running_instance: a signal; QueryClears removes the file then,     *)
(* whichever process it names.                                             *)
stop_running_instance ==
    /\ pidfile.pid \in Procs
    /\ signalled' = signalled \cup Stopped
    /\ query = "none" /\ query' = "stopping" /\ wanted' = FALSE
    /\ overlapped' = (overlapped \/ \E q \in Procs : Starting(q))
    /\ UNCHANGED <<pidfile, socket, port, proc, listener, queries, deaths, tornMet>>

Dies(p) ==
    /\ Alive(p)
    /\ \/ p \in signalled /\ UNCHANGED deaths
       \/ p \notin signalled /\ deaths < MaxDeaths /\ deaths' = deaths + 1
    /\ ExitProc(p) /\ wanted' = FALSE
    /\ UNCHANGED <<pidfile, socket, signalled, query, queries, overlapped, tornMet>>

(* gateway_status, and a client that looks for the daemon: the file of a   *)
(* dead process is removed, some time after it was read.                   *)
gateway_status ==
    /\ query = "none" /\ queries < MaxQueries /\ queries' = queries + 1
    /\ query' = IF Stale THEN "stale" ELSE "none"
    /\ overlapped' = (overlapped \/ (Stale /\ \E q \in Procs : Starting(q)))
    /\ UNCHANGED <<pidfile, socket, port, proc, listener, signalled, deaths, wanted, tornMet>>

QueryClears ==
    /\ query # "none" /\ query' = "none" /\ pidfile' = NoFile
    /\ UNCHANGED <<socket, port, proc, listener, signalled, queries, deaths, wanted, overlapped, tornMet>>

DaemonStep(p) ==
    \/ is_daemon_running(p) \/ Clear(p) \/ Create(p) \/ IfTaken(p) \/ Unlink(p) \/ Recreate(p)
    \/ WritePid(p) \/ spawn_rin_listener(p) \/ BindSocket(p) \/ BindPort(p) \/ RemoveSocket(p) \/ Leave(p)

DaemonNext ==
    \/ \E p \in Procs : DaemonStep(p) \/ spawn_daemon(p) \/ Shutdown(p) \/ Dies(p)
    \/ stop_running_instance \/ gateway_status \/ QueryClears

DaemonSpec == DaemonInit /\ [][DaemonNext]_daemonVars

-----------------------------------------------------------------------------
(* The configuration and the model core: all providers in a router, for    *)
(* failover, and the properties of the default one beside it.  It has a    *)
(* state of its own.  A provider's name is a number, in alphabetical       *)
(* order; 0 is no name.                                                    *)
ASSUME StartupAssumption == ProviderNames \subseteq Nat \ {0} /\ \A p \in ProviderRanks : p <= Unset

VARIABLES phase,    \* "file", "loaded", "refused", "running" or "panicked"
          toml,     \* [providers, main, aux]: the file
          keysSet,  \* the providers with a <NAME>_API_KEY in the environment
          conf,     \* [providers, main, aux]: the configuration
          core      \* [order, kind, model, aux]: main_core and aux_core

startVars == <<phase, toml, keysSet, conf, core>>

Profiles == [kind : ProviderKinds, models : 0..1, priority : ProviderRanks \cup {Unset}, key : {"file"}]
NoConf == [providers |-> <<>>, main |-> 0, aux |-> 0]
NoCore == [order |-> <<>>, kind |-> "", model |-> 0, aux |-> 0]

(* Mutant: the name of the default provider is not looked up.              *)
Valid_Unchecked(t) ==
    /\ DOMAIN t.providers # {}
    /\ \A n \in DOMAIN t.providers : t.providers[n].models > 0
Valid(t) ==
    /\ DOMAIN t.providers # {}
    /\ \A n \in DOMAIN t.providers : t.providers[n].models > 0
    /\ t.main # 0 => t.main \in DOMAIN t.providers

(* The environment wins over the file.                                     *)
load ==
    /\ phase = "file"
    /\ \/ /\ ~Valid(toml)
          /\ phase' = "refused" /\ UNCHANGED conf
       \/ /\ Valid(toml)
          /\ phase' = "loaded"
          /\ conf' = [toml EXCEPT !.providers =
                        [n \in DOMAIN @ |-> IF n \in keysSet THEN [@[n] EXCEPT !.key = "env"] ELSE @[n]]]
    /\ UNCHANGED <<toml, keysSet, core>>

default_main_provider_name(c) ==
    IF c.main # 0 THEN c.main
    ELSE CHOOSE n \in DOMAIN c.providers : \A o \in DOMAIN c.providers : n <= o

(* The provider of that name, or else the default one; 0 when neither is.  *)
provider(c, name) == IF name \in DOMAIN c.providers THEN name
                     ELSE IF default_main_provider_name(c) \in DOMAIN c.providers
                          THEN default_main_provider_name(c) ELSE 0

(* The map of providers is walked in any order and the sort is stable, so  *)
(* providers of equal priority come in any order.                          *)
Sorted(c) == {s \in [1..Cardinality(DOMAIN c.providers) -> DOMAIN c.providers] :
                 /\ \A i, j \in DOMAIN s : i # j => s[i] # s[j]
                 /\ \A i, j \in DOMAIN s : i < j => c.providers[s[i]].priority <= c.providers[s[j]].priority}

assemble ==
    LET main == provider(conf, default_main_provider_name(conf))
    IN  /\ phase = "loaded"
        /\ \/ /\ main = 0 /\ phase' = "panicked" /\ UNCHANGED core
           \/ /\ main # 0 /\ phase' = "running"
              /\ \E order \in Sorted(conf) :
                   core' = [order |-> order, kind |-> conf.providers[main].kind, model |-> main,
                            aux |-> IF conf.aux = 0 THEN 0 ELSE provider(conf, conf.aux)]
        /\ UNCHANGED <<toml, keysSet, conf>>

StartInit ==
    /\ phase = "file" /\ conf = NoConf /\ core = NoCore
    /\ toml \in [providers : UNION {[S -> Profiles] : S \in SUBSET ProviderNames}, main : ProviderNames \cup {0}, aux : ProviderNames \cup {0}]
    /\ keysSet \in SUBSET ProviderNames

StartNext == load \/ assemble
StartSpec == StartInit /\ [][StartNext]_startVars

-----------------------------------------------------------------------------
(* Store::open (gen_store/mod.rs, migrations/*.sql): the schema of the     *)
(* database is brought up to date, statement by statement, each on its     *)
(* own.  Of the schema: the base tables, a column that old databases have, *)
(* one they lack, the table of workspaces and the column that refers to    *)
(* it, both called projects at version 1.                                  *)
VARIABLES
    db,         \* the file: user_version and the schema
    opening,    \* this start: the version it read, what is left of the migration under way
    denied,     \* whether the database refused this start a statement (locked, disk full)
    mishaps,    \* refusals and crashes so far
    halfSealed  \* history: version 2 was set in spite of a refusal

storeVars == <<db, opening, denied, mishaps, halfSealed>>

MaxMishaps == 3

Needed == {"base", "title", "workspaces", "workspace_id"}

(* A statement takes and gives parts of the schema; it fails if what it    *)
(* needs is not there, or what it must not find is.                        *)
Statement(needs, forbids, gives) == [needs |-> needs, forbids |-> forbids, gives |-> gives]
ALTERS_SQL ==
    <<Statement({"tool_events"}, {}, {}),
      Statement({}, {"title"}, {"title"}),
      Statement({}, {}, {"workspaces"}),
      Statement({}, {"workspace_id"}, {"workspace_id"})>>
RENAME_SQL ==
    <<Statement({"projects"}, {"workspaces"}, {"workspaces"}),
      Statement({"project_id"}, {"workspace_id"}, {"workspace_id"})>>

Closed == [at |-> "closed", from |-> 0, todo |-> <<>>, failures |-> 0]

(* A new database, one of before the versions, and one of version 1.       *)
StoreInit ==
    /\ db \in {[version |-> 0, schema |-> {}], [version |-> 0, schema |-> {"base", "tool_events"}],
               [version |-> 1, schema |-> {"base", "title", "projects", "project_id"}]}
    /\ opening = Closed /\ denied = FALSE /\ mishaps = 0 /\ halfSealed = FALSE

(* 001 in one batch: a failure is a panic, as if the daemon died after it.  *)
open ==
    /\ opening.at = "closed" /\ denied' = FALSE
    /\ \/ /\ db.version = 0
          /\ db' = [db EXCEPT !.schema = @ \cup {"base"}]
          /\ opening' = [at |-> "002", from |-> 0, todo |-> ALTERS_SQL, failures |-> 0]
       \/ /\ db.version = 1
          /\ opening' = [at |-> "003", from |-> 1, todo |-> RENAME_SQL, failures |-> 0]
          /\ UNCHANGED db
       \/ /\ db.version = 2
          /\ opening' = [Closed EXCEPT !.at = "open"] /\ UNCHANGED db
    /\ UNCHANGED <<mishaps, halfSealed>>

(* Mutant: the first statement that fails ends the migration.              *)
Rest_Stops(todo, ok) == IF ok THEN Tail(todo) ELSE <<>>

(* What is left to execute.                                                *)
Rest(todo, ok) == Tail(todo)

exec_tolerated ==
    /\ opening.todo # <<>>
    /\ \E refuses \in BOOLEAN :
          LET s == Head(opening.todo)
              ok == s.needs \subseteq db.schema /\ s.forbids \cap db.schema = {} /\ ~refuses
          IN  /\ refuses => mishaps < MaxMishaps
              /\ db' = IF ok THEN [db EXCEPT !.schema = (@ \ s.needs) \cup s.gives] ELSE db
              /\ opening' = [opening EXCEPT !.todo = Rest(@, ok),
                                            !.failures = IF ok THEN @ ELSE @ + 1]
              /\ denied' = (denied \/ refuses)
              /\ mishaps' = IF refuses THEN mishaps + 1 ELSE mishaps
    /\ UNCHANGED halfSealed

(* After 002: version 1 if all went well; 003 follows either way.          *)
Seal1 ==
    /\ opening.at = "002" /\ opening.todo = <<>>
    /\ db' = IF opening.failures = 0 THEN [db EXCEPT !.version = 1] ELSE db
    /\ opening' = [opening EXCEPT !.at = "003", !.todo = RENAME_SQL, !.failures = 0]
    /\ UNCHANGED <<denied, mishaps, halfSealed>>

(* After 003: a failure keeps back version 2 only if version 1 was read.   *)
Seal2 ==
    /\ opening.at = "003" /\ opening.todo = <<>>
    /\ LET seals == ~(opening.from = 1 /\ opening.failures > 0)
       IN  /\ db' = IF seals THEN [db EXCEPT !.version = 2] ELSE db
           /\ halfSealed' = (halfSealed \/ (seals /\ denied))
    /\ opening' = [opening EXCEPT !.at = "open"]
    /\ UNCHANGED <<denied, mishaps>>

(* The daemon dies, here or while it runs.                                 *)
StoreDies ==
    /\ opening.at # "closed" /\ mishaps < MaxMishaps
    /\ mishaps' = mishaps + 1 /\ opening' = Closed /\ denied' = FALSE
    /\ UNCHANGED <<db, halfSealed>>

StoreNext == open \/ exec_tolerated \/ Seal1 \/ Seal2 \/ StoreDies

-----------------------------------------------------------------------------
(* Type invariant.                                                         *)
DaemonTypeOK ==
    /\ pidfile.by \in Procs \cup {"absent"} /\ pidfile.pid \in Procs \cup {"absent", "empty"}
    /\ socket \in Procs \cup {"absent"} /\ port \in Procs \cup {"free"}
    /\ \A p \in Procs : Serving(p) = (port = p)

(* However starts race with each other, with status queries and with what  *)
(* earlier daemons left behind, they never all give up: once the last of   *)
(* them is through, a daemon serves, unless one was stopped or died, or    *)
(* one gave up at a file that a death mid-way had left without a pid.      *)
StartServes ==
    wanted /\ (\A p \in Procs : ~Starting(p)) => tornMet \/ \E p \in Procs : Serving(p)

(* The mutual exclusion that the pid file is for: a daemon that serves and *)
(* was not stopped keeps rin.sock, as long as no two commands were at the  *)
(* pid file at the same time.                                              *)
SocketKeptAlone ==
    \A p \in Procs : Serving(p) /\ listener[p] = "bound" /\ p \notin signalled /\ ~overlapped
                     => socket = p

(* A configuration that load accepts never ends in the panic of assemble   *)
(* and leaves every core a provider with a model: what load checks is all  *)
(* that assemble expects.                                                  *)
LoadedStarts ==
    /\ phase # "panicked"
    /\ phase = "running" =>
         /\ conf.providers[core.model].models > 0
         /\ conf.aux # 0 => core.aux # 0 /\ conf.providers[core.aux].models > 0

(* A store that is open has the whole schema, wherever earlier starts died *)
(* or were refused a statement: what failed is made up for by the next     *)
(* start, except where a new database was sealed in spite of a refusal.    *)
SchemaWhole ==
    opening.at = "open" /\ ~denied /\ ~halfSealed =>
        Needed \subseteq db.schema /\ {"projects", "project_id"} \cap db.schema = {}

(* Only a refusal while a database of version 0 is migrated seals a half:  *)
(* from version 1, version 2 means that nothing is missing.                *)
SealedWhole == db.version = 2 /\ ~halfSealed => Needed \subseteq db.schema

-----------------------------------------------------------------------------
(* The HTTP endpoints: the key, the limit and the feed.                    *)
CONSTANTS Peers,         \* addresses that connect; Loopback is this host
          GivenKey,      \* the peers whose user was given the key
          Headers,       \* [forwarded, real]: what a request says, "" where it does not
          Rate,          \* rate_limit_per_minute, the capacity of a bucket too; 0 would be no limit
          Minute,        \* ticks of a minute
          CleanEvery,    \* checks between two cleanups: 100
          LimitBuckets,  \* max_buckets: 10 000
          Pauses, MaxTime, MaxRequests,
          EventSessions, \* sessions that cron jobs run in
          BusRoom,       \* events the bus holds for a slow reader: 1024
          MaxEmits

Loopback == "127.0.0.1"

ASSUME HttpAssumption ==
    /\ {Rate, Minute, CleanEvery, LimitBuckets, BusRoom} \subseteq Nat \ {0}
    /\ {MaxTime, MaxRequests} \subseteq Nat /\ Pauses \subseteq Nat /\ GivenKey \subseteq Peers

VARIABLES keyed,      \* api_key is configured
          holders,    \* the peers that have the key
          served,     \* [peer, path] that got past auth_middleware
          time, buckets, checks,
          allowed,    \* per client, when its requests were let through
          refused,    \* the refusal that was just given: <<client, when>>
          bus,        \* all events so far, a session or "" for one that is not of a cron job
          feeds       \* per peer, the feed of /events: Feed

httpVars == <<keyed, holders, served, time, buckets, checks, allowed, refused, bus, feeds>>

-----------------------------------------------------------------------------
(* The key.                                                                *)
PublicPaths == {"/", "/health", "/auth/session"}

(* Mutant: /events is let through whether or not there is a key.           *)
auth_middleware_Events(peer, path, shows) ==
    \/ path \in PublicPaths \cup {"/events"}
    \/ ~keyed /\ peer = Loopback
    \/ keyed /\ shows

(* /events cannot send a header and checks the key by itself, if there is  *)
(* one.  Without one, only this host is served.                            *)
auth_middleware(peer, path, shows) ==
    \/ path \in PublicPaths
    \/ path = "/events" /\ keyed
    \/ ~keyed /\ peer = Loopback
    \/ keyed /\ shows

Shows(peer) == {FALSE, (peer \in holders)}
Serves(peer, path) == served' = served \cup {[peer |-> peer, path |-> path]}

handle_auth_session(peer) ==
    /\ holders' = IF peer = Loopback /\ keyed THEN holders \cup {peer} ELSE holders
    /\ Serves(peer, "/auth/session")
    /\ UNCHANGED <<keyed, time, buckets, checks, allowed, refused, bus, feeds>>

-----------------------------------------------------------------------------
(* The limit.                                                              *)
(* The address of the connection, or what a proxy on this host says.       *)
ClientOf(peer, h) == CASE peer # Loopback -> peer
                       [] peer = Loopback /\ h.forwarded # "" -> h.forwarded
                       [] peer = Loopback /\ h.forwarded = "" /\ h.real # "" -> h.real
                       [] OTHER -> Loopback
LimitClients == {ClientOf(p, h) : p \in Peers, h \in Headers}
NoBucket == [tokens |-> -1, last |-> 0]
Full == Rate * Minute
Counted(b) == {c \in LimitClients : b[c] # NoBucket}

(* Mutant: a bucket is stale after a tick, long before it is full again.   *)
StaleAfter_Tick == 1
StaleAfter == 5 * Minute

CleanedUp(b) == IF (checks + 1) % CleanEvery = 0
            THEN [c \in LimitClients |-> IF b[c] # NoBucket /\ time - b[c].last < StaleAfter THEN b[c] ELSE NoBucket]
            ELSE b

Evictable(b, c) == IF Cardinality(Counted(b)) >= LimitBuckets /\ c \notin Counted(b)
                   THEN {{e} : e \in {e \in Counted(b) : \A o \in Counted(b) : b[e].last <= b[o].last}}
                   ELSE {{}}

(* Mutant: only whole tokens are refilled and the rest of the time is lost.*)
Refilled_Whole(b) == LET t == b.tokens + (((time - b.last) * Rate) \div Minute) * Minute
                     IN  IF t < Full THEN t ELSE Full
Refilled(b) == LET t == b.tokens + (time - b.last) * Rate
               IN  IF t < Full THEN t ELSE Full

(* The whole check, under the lock of the buckets.  Of several buckets     *)
(* equally old the one evicted is the first the map happens to yield.      *)
check(c) ==
    LET kept == CleanedUp(buckets)
    IN  \E evicted \in Evictable(kept, c) :
          LET b == IF c \in Counted(kept) THEN kept[c] ELSE [tokens |-> Full, last |-> time]
              tokens == Refilled(b)
              passes == tokens >= Minute
          IN  /\ checks < MaxRequests /\ checks' = checks + 1
              /\ buckets' = [o \in LimitClients |->
                               CASE o = c -> [tokens |-> IF passes THEN tokens - Minute ELSE tokens, last |-> time]
                                 [] o # c /\ o \in evicted -> NoBucket
                                 [] OTHER -> kept[o]]
              /\ allowed' = [o \in LimitClients |->
                               CASE o = c /\ passes -> Append(allowed[o], time)
                                 [] o # c /\ o \in evicted -> <<>>
                                 [] OTHER -> allowed[o]]
              /\ refused' = IF passes THEN <<>> ELSE <<c, time>>

(* POST /agent and /webhook: the key first, then the limit.  A request     *)
(* without the key is answered 401 and not counted.                        *)
Limited(peer, h) ==
    /\ \E shows \in Shows(peer) :
         auth_middleware(peer, "/agent", shows) /\ Serves(peer, "/agent")
    /\ check(ClientOf(peer, h))
    /\ UNCHANGED <<keyed, holders, time, bus, feeds>>

Pause(d) ==
    /\ time + d <= MaxTime
    /\ time' = time + d /\ refused' = <<>>
    /\ UNCHANGED <<keyed, holders, served, buckets, checks, allowed, bus, feeds>>

-----------------------------------------------------------------------------
(* The feed.                                                               *)
NoFeed == [st |-> "none", from |-> 0, next |-> 0, filter |-> "", plain |-> FALSE, got |-> <<>>, missed |-> {}]

(* The task is there as soon as the request is answered.  With a wrong key *)
(* the answer is a stream that ends at once.                               *)
handle_events(peer, filter, shows) ==
    /\ feeds[peer].st = "none" /\ auth_middleware(peer, "/events", shows)
    /\ IF keyed /\ ~shows THEN UNCHANGED <<feeds, served>>
       ELSE /\ Serves(peer, "/events")
            /\ feeds' = [feeds EXCEPT ![peer] =
                  [NoFeed EXCEPT !.st = "open", !.from = Len(bus) + 1, !.next = Len(bus) + 1,
                                 !.filter = filter, !.plain = keyed]]
    /\ UNCHANGED <<keyed, holders, time, buckets, checks, allowed, refused, bus>>

(* Any run or job that emits an event.                                     *)
EmitEvent(session) ==
    /\ Len(bus) < MaxEmits /\ bus' = Append(bus, session)
    /\ UNCHANGED <<keyed, holders, served, time, buckets, checks, allowed, refused, feeds>>

(* Mutant: what is not of a cron job is filtered by session too.           *)
Concerns_All(f, session) == f.filter \in {"", session}

(* Only the notices of cron jobs are filtered by session.                  *)
Concerns(f, session) == session = "" \/ f.filter \in {"", session}

Oldest == IF Len(bus) > BusRoom THEN Len(bus) - BusRoom + 1 ELSE 1

(* A step of the task: what it has lost is skipped; an event that concerns *)
(* the client is sent, its prompt only if the client showed a key.  A send *)
(* to a client that has gone ends the task.                                *)
Forward(peer) ==
    LET f == feeds[peer]
        concerns == Concerns(f, bus[f.next])
    IN  /\ f.st \in {"open", "left"} /\ f.next <= Len(bus)
        /\ feeds' = [feeds EXCEPT ![peer] =
             IF f.next < Oldest
               THEN [f EXCEPT !.next = Oldest, !.missed = @ \cup (f.next..(Oldest - 1))]
             ELSE IF f.st = "left" /\ concerns THEN NoFeed
             ELSE [f EXCEPT !.next = @ + 1,
                            !.got = IF concerns THEN Append(@, [event |-> f.next, prompt |-> f.plain]) ELSE @]]
        /\ UNCHANGED <<keyed, holders, served, time, buckets, checks, allowed, refused, bus>>

(* The browser closes the stream.                                          *)
FeedCloses(peer) ==
    /\ feeds[peer].st = "open" /\ feeds' = [feeds EXCEPT ![peer].st = "left"]
    /\ UNCHANGED <<keyed, holders, served, time, buckets, checks, allowed, refused, bus>>

-----------------------------------------------------------------------------
HttpInit ==
    /\ keyed \in BOOLEAN /\ holders = GivenKey /\ served = {}
    /\ time = 0 /\ checks = 0 /\ refused = <<>>
    /\ buckets = [c \in LimitClients |-> NoBucket] /\ allowed = [c \in LimitClients |-> <<>>]
    /\ bus = <<>> /\ feeds = [p \in Peers |-> NoFeed]

LimitNext ==
    \/ \E p \in Peers, h \in Headers : Limited(p, h)
    \/ \E d \in Pauses : Pause(d)

FeedNext ==
    \/ \E p \in Peers :
         \/ handle_auth_session(p) \/ Forward(p) \/ FeedCloses(p)
         \/ \E filter \in EventSessions \cup {""}, shows \in Shows(p) : handle_events(p, filter, shows)
    \/ \E s \in EventSessions \cup {""} : EmitEvent(s)

HttpSpec == HttpInit /\ [][LimitNext \/ FeedNext]_httpVars

-----------------------------------------------------------------------------
(* Type invariant.                                                         *)
HttpTypeOK ==
    /\ keyed \in BOOLEAN /\ holders \subseteq Peers
    /\ time \in 0..MaxTime /\ checks \in 0..MaxRequests
    /\ \A c \in LimitClients : buckets[c] = NoBucket \/ (buckets[c].tokens \in 0..Full /\ buckets[c].last \in 0..time)
    /\ Cardinality(Counted(buckets)) <= LimitBuckets

(* However requests and pauses fall, no client is let through more often   *)
(* in a span of time than a full bucket and what that span refills (since  *)
(* its bucket was last evicted).  Dropping stale buckets gives nothing     *)
(* away: by then they are full (auth.rs RateLimiter::check).               *)
RateHeld ==
    \A c \in LimitClients : \A i, j \in DOMAIN allowed[c] :
        i <= j => (j - i + 1) * Minute <= Full + (allowed[c][j] - allowed[c][i]) * Rate

(* A client is refused only if some span up to now has used up all that a  *)
(* full bucket and the span allow: the fractions of a token that are left  *)
(* by a refusal are never lost.                                            *)
RefusedOnlyIfSpent ==
    refused # <<>> =>
        LET log == allowed[refused[1]]
        IN  \E i \in DOMAIN log : (Len(log) - i + 2) * Minute > Full + (refused[2] - log[i]) * Rate

(* The middleware and the handler of /events, which check the key in turn, *)
(* leave no gap between them: beyond the public pages only those are       *)
(* served that were given the key, and this host; and no prompt of a job   *)
(* is sent where no key was shown (auth.rs, events.rs).                    *)
OnlyKeyHolders ==
    /\ \A s \in served : s.path \in PublicPaths \/ s.peer \in GivenKey \cup {Loopback}
    /\ \A p \in Peers : \A i \in DOMAIN feeds[p].got : feeds[p].got[i].prompt => keyed /\ p \in holders

(* A feed is every event since it was opened that concerns its client,     *)
(* once and in order, but for those that the bus dropped before the task   *)
(* came to them (events.rs handle_events).                                 *)
FeedExact ==
    \A p \in Peers :
        LET f == feeds[p]
            due == {i \in f.from..(f.next - 1) : bus[i] = "" \/ f.filter \in {"", bus[i]}} \ f.missed
        IN  f.st # "none" =>
              /\ {f.got[i].event : i \in DOMAIN f.got} = due
              /\ \A i, j \in DOMAIN f.got : i < j => f.got[i].event < f.got[j].event
=============================================================================
