----------------------------- MODULE Workspaces -----------------------------
(***************************************************************************)
(* Workspaces: a directory with an id in its .jia/config.toml, a row of    *)
(* the store with that id and directory, and the sessions and memory seeds *)
(* that name it (gen_store/workspaces.rs, gen_store/sessions.rs,           *)
(* dui_gateway/workspaces.rs, dui_gateway/sessions.rs, resolve_workspace   *)
(* of dui_gateway/rin.rs).  Directories are moved by their user at any     *)
(* time.  0 stands for no workspace.                                       *)
(***************************************************************************)
EXTENDS Naturals, FiniteSets

CONSTANTS
    WsDirs,         \* directories
    WsClients,      \* clients of the daemon: terminals and HTTP
    WsSessions,     \* sessions
    MaxIds,         \* bound: workspace ids
    MaxMoves        \* bound: directories moved

ASSUME WorkspacesAssumption == WsDirs # {} /\ MaxIds \in Nat /\ MaxMoves \in Nat

VARIABLES
    config,     \* the id in the config of each directory
    rows,       \* the table of workspaces
    client,     \* each client: where it stands with its directory
    session,    \* the table of sessions
    seed,       \* per session: a memory being written, or written
    spent        \* ids and moves used up

wsVars == <<config, rows, client, session, seed, spent>>

NoSession == [at |-> "none", ws |-> 0, archived |-> FALSE]
NoSeed == [at |-> "none", ws |-> 0, profile |-> FALSE, raced |-> FALSE]

WorkspacesInit ==
    /\ config = [d \in WsDirs |-> 0]
    /\ rows = {}
    /\ client = [c \in WsClients |-> [at |-> "new", cwd |-> CHOOSE d \in WsDirs : TRUE, ws |-> 0]]
    /\ session = [s \in WsSessions |-> NoSession]
    /\ seed = [s \in WsSessions |-> NoSeed]
    /\ spent = [ids |-> 0, moves |-> 0]

Relink(table, old, new) ==
    [s \in WsSessions |-> IF table[s].at = "stored" /\ table[s].ws = old
                          THEN [table[s] EXCEPT !.ws = new] ELSE table[s]]

(* Mutant: the memories of the old id are left behind.                     *)
RelinkSeeds_Not(old, new) == seed

RelinkSeeds(old, new) == Relink(seed, old, new)

(* Mutant: keeping the identity writes the whole row.                      *)
Renamed_Whole(row, id, cwd) == [id |-> id, cwd |-> cwd, desc |-> "", archived |-> FALSE]

(* What keeping the identity writes: id and directory.                     *)
Renamed(row, id, cwd) == [row EXCEPT !.id = id, !.cwd = cwd]

(* Mutant: the row that stood for the new directory stays.                 *)
Occupied_Kept(id, cwd) == {}

(* Another row that stands for the directory.                              *)
Occupied(id, cwd) == {r \in rows : r.cwd = cwd /\ r.id # id}

(* ensure_workspace, one immediate transaction: a new workspace; one that  *)
(* moved, over the row that stood for its new directory; or a directory    *)
(* whose id drifted.                                                       *)
ensure_workspace(id, cwd) ==
    LET byId == {r \in rows : r.id = id}
        byCwd == {r \in rows : r.cwd = cwd}
        stale == Occupied(id, cwd)
    IN  \/ /\ byId = {} /\ byCwd = {}
           /\ rows' = rows \cup {[id |-> id, cwd |-> cwd, desc |-> "", archived |-> FALSE]}
           /\ UNCHANGED <<session, seed>>
        \/ \E r \in byId :
               /\ rows' = (rows \ (byId \cup stale)) \cup {Renamed(r, id, cwd)}
               /\ IF stale = {} THEN UNCHANGED <<session, seed>>
                  ELSE LET old == (CHOOSE o \in stale : TRUE).id
                       IN  session' = Relink(session, old, id) /\ seed' = RelinkSeeds(old, id)
        \/ \E r \in byCwd :
               /\ byId = {}
               /\ rows' = (rows \ {r}) \cup {Renamed(r, id, cwd)}
               /\ session' = Relink(session, r.id, id)
               /\ seed' = RelinkSeeds(r.id, id)

(* hello: the id of the directory, or a question to the user.              *)
Hello(c, d) ==
    /\ client[c].at \in {"new", "known"}
    /\ IF config[d] # 0
       THEN /\ ensure_workspace(config[d], d)
            /\ client' = [client EXCEPT ![c] = [at |-> "known", cwd |-> d, ws |-> config[d]]]
       ELSE /\ client' = [client EXCEPT ![c] = [at |-> "asking", cwd |-> d, ws |-> 0]]
            /\ UNCHANGED <<rows, session, seed>>
    /\ UNCHANGED <<config, spent>>

(* The user declines, or does not answer for 120 s.                        *)
Decline(c) ==
    /\ client[c].at = "asking"
    /\ client' = [client EXCEPT ![c].at = "known"]
    /\ UNCHANGED <<config, rows, session, seed, spent>>

(* The user agrees, or POST /workspaces finds no config: a new id goes     *)
(* into the config, and then into the store.                               *)
WriteConfig(c, d) ==
    /\ \/ client[c].at = "asking" /\ client[c].cwd = d
       \/ client[c].at = "new" /\ config[d] = 0
    /\ spent.ids < MaxIds
    /\ spent' = [spent EXCEPT !.ids = @ + 1]
    /\ config' = [config EXCEPT ![d] = spent.ids + 1]
    /\ client' = [client EXCEPT ![c] = [at |-> "writing", cwd |-> d, ws |-> spent.ids + 1]]
    /\ UNCHANGED <<rows, session, seed>>

RegisterRow(c) ==
    /\ client[c].at = "writing"
    /\ ensure_workspace(client[c].ws, client[c].cwd)
    /\ client' = [client EXCEPT ![c].at = "known"]
    /\ UNCHANGED <<config, spent>>

(* The foreign key refuses an id that is gone; the failure is dropped, and *)
(* the run saves the session without a workspace.                          *)
create_session(c, s) ==
    /\ client[c].at \in {"asking", "known"} /\ session[s].at = "none"
    /\ session' = [session EXCEPT ![s] =
                       [at |-> "stored", archived |-> FALSE,
                        ws |-> IF \E r \in rows : r.id = client[c].ws THEN client[c].ws ELSE 0]]
    /\ UNCHANGED <<config, rows, client, seed, spent>>

delete_session(s) ==
    /\ session[s].at = "stored"
    /\ session' = [session EXCEPT ![s] = [NoSession EXCEPT !.at = "deleted"]]
    /\ UNCHANGED <<config, rows, client, seed, spent>>

(* A memory is stamped with the workspace of its session, one about the    *)
(* user with none, and stored after the model was asked.                   *)
Stamp(s, profile) ==
    /\ session[s].at = "stored" /\ seed[s].at = "none"
    /\ seed' = [seed EXCEPT ![s] = [NoSeed EXCEPT !.at = "stamped", !.profile = profile,
                                                  !.ws = IF profile THEN 0 ELSE session[s].ws]]
    /\ UNCHANGED <<config, rows, client, session, spent>>

insert_seed(s) ==
    /\ seed[s].at = "stamped"
    /\ seed' = [seed EXCEPT ![s].at = "stored", ![s].raced = ~seed[s].profile /\ seed[s].ws # session[s].ws]
    /\ UNCHANGED <<config, rows, client, session, spent>>

-----------------------------------------------------------------------------
unarchive_workspace(i) ==
    /\ \E r \in rows : r.id = i /\ r.archived
                       /\ rows' = (rows \ {r}) \cup {[r EXCEPT !.archived = FALSE]}
    /\ UNCHANGED <<config, client, session, seed, spent>>

archive_workspace(i) ==
    /\ \E r \in rows : r.id = i /\ ~r.archived
                       /\ rows' = (rows \ {r}) \cup {[r EXCEPT !.archived = TRUE]}
    /\ session' = [s \in WsSessions |->
                      IF session[s].at = "stored" /\ session[s].ws = i
                      THEN [session[s] EXCEPT !.archived = TRUE] ELSE session[s]]
    /\ UNCHANGED <<config, client, seed, spent>>

archive_session(s, archived) ==
    /\ session[s].at = "stored" /\ session[s].archived # archived
    /\ session' = [session EXCEPT ![s].archived = archived]
    /\ UNCHANGED <<config, rows, client, seed, spent>>

(* PATCH writes the description, of a row that is still there.             *)
update_workspace_metadata(i) ==
    /\ \E r \in rows : r.id = i /\ r.desc = ""
                       /\ rows' = (rows \ {r}) \cup {[r EXCEPT !.desc = "described"]}
    /\ UNCHANGED <<config, client, session, seed, spent>>

(* The user moves a directory, its config with it.                         *)
MoveDirectory(d, to) ==
    /\ config[d] # 0 /\ config[to] = 0 /\ spent.moves < MaxMoves
    /\ spent' = [spent EXCEPT !.moves = @ + 1]
    /\ config' = [config EXCEPT ![to] = config[d], ![d] = 0]
    /\ UNCHANGED <<rows, client, session, seed>>

WorkspacesNext ==
    \/ \E c \in WsClients :
          \/ Decline(c) \/ RegisterRow(c)
          \/ \E d \in WsDirs : Hello(c, d) \/ WriteConfig(c, d)
          \/ \E s \in WsSessions : create_session(c, s)
    \/ \E s \in WsSessions :
          \/ delete_session(s) \/ insert_seed(s)
          \/ \E profile \in BOOLEAN : Stamp(s, profile)
          \/ \E archived \in BOOLEAN : archive_session(s, archived)
    \/ \E i \in 1..MaxIds :
          archive_workspace(i) \/ unarchive_workspace(i) \/ update_workspace_metadata(i)
    \/ \E d, to \in WsDirs : MoveDirectory(d, to)

WorkspacesSpec == WorkspacesInit /\ [][WorkspacesNext]_wsVars

-----------------------------------------------------------------------------
(* Type invariant.                                                         *)
WorkspacesTypeOK ==
    /\ config \in [WsDirs -> 0..MaxIds]
    /\ \A r \in rows : r.id \in 1..MaxIds /\ r.cwd \in WsDirs
    /\ \A c \in WsClients : client[c].at \in {"new", "asking", "writing", "known"}
    /\ \A s \in WsSessions : session[s].ws \in 0..MaxIds /\ seed[s].ws \in 0..MaxIds

(* One directory, one workspace, whatever is moved, merged or drifts; and  *)
(* no session names a workspace that is gone.                              *)
OneWorkspacePerDirectory ==
    /\ \A r, q \in rows : (r.id = q.id \/ r.cwd = q.cwd) => r = q
    /\ \A s \in WsSessions : session[s].ws # 0 => \E r \in rows : r.id = session[s].ws

(* A memory is found in the workspace of its session, through every merge  *)
(* and drift of ids, and what is known of the user is bound to none; the   *)
(* exception is a memory stamped before a drift and stored after it.       *)
MemoriesFollow ==
    \A s \in WsSessions :
        (session[s].at = "stored" /\ seed[s].at = "stored" /\ ~seed[s].raced)
            => seed[s].ws = IF seed[s].profile THEN 0 ELSE session[s].ws

(* Another workspace with a row of its own took over the directory of r,   *)
(* with its own description: the row of r is deleted with what the user    *)
(* wrote there.                                                            *)
Superseded(r) ==
    \E o \in rows, q \in rows' :
        o.id # r.id /\ q.id = o.id /\ q.cwd = r.cwd /\ q.desc = o.desc

DescriptionsKept ==
    \A r \in rows : \/ r.desc = "" \/ Superseded(r)
                    \/ \E q \in rows' : (q.id = r.id \/ q.cwd = r.cwd) /\ q.desc = r.desc

(* What the user wrote about a workspace stays with its id, or its         *)
(* directory, through moves and drifts of ids, and is lost only in a merge *)
(* with a workspace that moved into the directory; and a session that was  *)
(* archived returns only by name.                                          *)
UserStateKept ==
    [][/\ DescriptionsKept
       /\ \A s \in WsSessions :
              (session[s].archived /\ session'[s].at = "stored" /\ ~session'[s].archived)
                  => archive_session(s, FALSE)]_wsVars
=============================================================================
