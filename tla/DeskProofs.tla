----------------------------- MODULE DeskProofs -----------------------------
(***************************************************************************)
(* Proofs about two parts of MCDesk.  The workspaces: WorkspacesKept for   *)
(* any directories, clients and sessions, and any number of ids and moves, *)
(* from WsInv.  The daemon and what stands before its endpoints:           *)
(* DaemonServes for any processes, providers, clients and bounds, from an  *)
(* inductive invariant for each of its machines: DmInv (starting and       *)
(* stopping), StInv (the store), SuInv (the configuration), LiInv (the     *)
(* limit) and FeInv (the key and the feeds).                               *)
(***************************************************************************)
EXTENDS MCDesk, Selection, FiniteSetTheorems

-----------------------------------------------------------------------------
(* Workspaces.  Rows are apart, sessions name rows that are there, and     *)
(* the memories of a session follow it.                                    *)

WsIds == 0..MaxIds
RowRecords == [id : 1..MaxIds, cwd : WsDirs, desc : {"", "described"}, archived : BOOLEAN]
WsClientRecords == [at : {"new", "asking", "writing", "known"}, cwd : WsDirs, ws : WsIds]
WsSessionRecords == [at : {"none", "stored", "deleted"}, ws : WsIds, archived : BOOLEAN]
SeedRecords == [at : {"none", "stamped", "stored"}, ws : WsIds, profile : BOOLEAN, raced : BOOLEAN]

RowsApart(R) ==
    /\ R \subseteq RowRecords
    /\ \A r, q \in R : (r.id = q.id \/ r.cwd = q.cwd) => r = q

Linked(R, x) ==
    /\ x \in WsSessionRecords
    /\ x.ws # 0 => \E r \in R : r.id = x.ws
    /\ x.at # "stored" => x.ws = 0 /\ ~x.archived

Followed(x, m) ==
    /\ m \in SeedRecords
    /\ x.at = "none" => m.at = "none"
    /\ m.profile => m.ws = 0
    /\ x.at = "stored" /\ m.at = "stored" /\ ~m.raced /\ ~m.profile => m.ws = x.ws

ClientsKept ==
    /\ client \in [WsClients -> WsClientRecords]
    /\ \A c \in WsClients : client[c].at = "writing" => client[c].ws # 0

WsInv ==
    /\ config \in [WsDirs -> WsIds]
    /\ ClientsKept
    /\ spent \in [ids : WsIds, moves : Nat]
    /\ RowsApart(rows)
    /\ DOMAIN session = WsSessions /\ session = [s \in WsSessions |-> session[s]]
    /\ DOMAIN seed = WsSessions /\ seed = [s \in WsSessions |-> seed[s]]
    /\ \A s \in WsSessions : Linked(rows, session[s]) /\ Followed(session[s], seed[s])

(* What the table of sessions promises of most steps.                      *)
ArchivedKept ==
    \A s \in WsSessions : session[s].archived /\ session'[s].at = "stored" => session'[s].archived

(* A row is put in the place of some others: rows stay apart, and what its *)
(* user wrote stays.                                                       *)
LEMMA RowPlaced ==
    ASSUME NEW R, RowsApart(R), NEW O \in SUBSET R, NEW r \in RowRecords,
           \A q \in R \ O : q.id # r.id /\ q.cwd # r.cwd
    PROVE  RowsApart((R \ O) \cup {r})
BY DEF RowsApart

(* The name of a workspace in a session and in its memory changes.         *)
LEMMA Relinked ==
    ASSUME WsInv, NEW was \in 1..MaxIds, NEW id \in 1..MaxIds, NEW s \in WsSessions,
           NEW x, x = Relink(session, was, id)[s], NEW m, m = Relink(seed, was, id)[s]
    PROVE  /\ x \in WsSessionRecords /\ x.at = session[s].at /\ x.archived = session[s].archived
           /\ x.ws = IF session[s].at = "stored" /\ session[s].ws = was THEN id ELSE session[s].ws
           /\ Followed(x, m)
<1>0. /\ session[s] \in WsSessionRecords /\ seed[s] \in SeedRecords /\ Followed(session[s], seed[s])
      /\ id \in WsIds
  BY WorkspacesAssumption DEF WsInv, Linked, Followed, WsIds
<1>1. /\ x \in WsSessionRecords /\ x.at = session[s].at /\ x.archived = session[s].archived
      /\ x.ws = IF session[s].at = "stored" /\ session[s].ws = was THEN id ELSE session[s].ws
  BY <1>0 DEF Relink, WsSessionRecords
<1>2. /\ m \in SeedRecords /\ m.at = seed[s].at /\ m.raced = seed[s].raced /\ m.profile = seed[s].profile
      /\ m.ws = IF seed[s].at = "stored" /\ seed[s].ws = was THEN id ELSE seed[s].ws
  BY <1>0 DEF Relink, SeedRecords
<1>3. Followed(x, m)
  BY <1>0, <1>1, <1>2 DEF Followed
<1> QED BY <1>1, <1>3

(* The tables after a row r took the place of the rows O, all of them with *)
(* the name was or the name of r.                                          *)
LEMMA TablesRelinked ==
    ASSUME WsInv, NEW O \in SUBSET rows, NEW r \in RowRecords, NEW was \in 1..MaxIds,
           rows' = (rows \ O) \cup {r}, \A q \in rows \ O : q.id # r.id /\ q.cwd # r.cwd,
           \A q \in O : q.id \in {was, r.id},
           session' = Relink(session, was, r.id), seed' = RelinkSeeds(was, r.id)
    PROVE  /\ RowsApart(rows') /\ ArchivedKept
           /\ DOMAIN session' = WsSessions /\ session' = [s \in WsSessions |-> session'[s]]
           /\ DOMAIN seed' = WsSessions /\ seed' = [s \in WsSessions |-> seed'[s]]
           /\ \A s \in WsSessions : Linked(rows', session'[s]) /\ Followed(session'[s], seed'[s])
<1>0. r.id \in 1..MaxIds
  BY DEF RowRecords
<1>1. RowsApart(rows')
  BY RowPlaced DEF WsInv
<1>2. /\ DOMAIN session' = WsSessions /\ session' = [s \in WsSessions |-> session'[s]]
      /\ DOMAIN seed' = WsSessions /\ seed' = [s \in WsSessions |-> seed'[s]]
  BY DEF Relink, RelinkSeeds
<1>3. ASSUME NEW s \in WsSessions
      PROVE  /\ Linked(rows', session'[s]) /\ Followed(session'[s], seed'[s])
             /\ session'[s].archived = session[s].archived
  <2>1. PICK x, m : x = session'[s] /\ m = seed'[s]
    OBVIOUS
  <2>2. /\ x \in WsSessionRecords /\ x.at = session[s].at /\ x.archived = session[s].archived
        /\ x.ws = IF session[s].at = "stored" /\ session[s].ws = was THEN r.id ELSE session[s].ws
        /\ Followed(x, m)
    BY <1>0, <2>1, Relinked DEF RelinkSeeds
  <2>3. Linked(rows, session[s])
    BY DEF WsInv
  <2>4. ASSUME x.ws # 0 PROVE \E q \in rows' : q.id = x.ws
    <3>1. CASE x.ws = r.id
      BY <3>1
    <3>2. CASE x.ws # r.id
      <4>1. x.ws = session[s].ws /\ x.ws # was /\ session[s].at = "stored"
        BY <2>2, <2>3, <2>4, <3>2 DEF Linked
      <4>2. PICK q \in rows : q.id = x.ws
        BY <2>3, <2>4, <4>1 DEF Linked
      <4>3. q \notin O
        BY <3>2, <4>1, <4>2
      <4> QED BY <4>2, <4>3
    <3> QED BY <3>1, <3>2
  <2>5. x.at # "stored" => x.ws = 0 /\ ~x.archived
    BY <2>2, <2>3 DEF Linked
  <2> QED BY <2>1, <2>2, <2>4, <2>5 DEF Linked
<1> QED BY <1>1, <1>2, <1>3 DEF ArchivedKept

LEMMA EnsureKeeps ==
    ASSUME WsInv, NEW id \in 1..MaxIds, NEW dir \in WsDirs, ensure_workspace(id, dir)
    PROVE  /\ RowsApart(rows') /\ ArchivedKept /\ DescriptionsKept
           /\ DOMAIN session' = WsSessions /\ session' = [s \in WsSessions |-> session'[s]]
           /\ DOMAIN seed' = WsSessions /\ seed' = [s \in WsSessions |-> seed'[s]]
           /\ \A s \in WsSessions : Linked(rows', session'[s]) /\ Followed(session'[s], seed'[s])
<1> DEFINE byId == {r \in rows : r.id = id}
           byCwd == {r \in rows : r.cwd = dir}
           stale == Occupied(id, dir)
<1>0. /\ RowsApart(rows) /\ rows \subseteq RowRecords
      /\ \A r, q \in rows : (r.id = q.id \/ r.cwd = q.cwd) => r = q
      /\ \A r \in rows : r.id \in 1..MaxIds
  BY DEF WsInv, RowsApart, RowRecords
<1>1. CASE /\ byId = {} /\ byCwd = {}
           /\ rows' = rows \cup {[id |-> id, cwd |-> dir, desc |-> "", archived |-> FALSE]}
           /\ UNCHANGED <<session, seed>>
  <2>0. PICK n : n = [id |-> id, cwd |-> dir, desc |-> "", archived |-> FALSE]
    OBVIOUS
  <2>1. n \in RowRecords /\ n.id = id /\ n.cwd = dir
    BY <2>0 DEF RowRecords
  <2>2. rows' = (rows \ {}) \cup {n} /\ \A q \in rows : q.id # n.id /\ q.cwd # n.cwd
    BY <1>1, <2>0, <2>1
  <2>3. RowsApart(rows')
    BY <1>0, <2>1, <2>2, RowPlaced
  <2>4. DescriptionsKept
    BY <1>0, <2>2 DEF DescriptionsKept
  <2>5. \A s \in WsSessions : Linked(rows', session'[s]) /\ Followed(session'[s], seed'[s])
    BY <1>1, <2>2 DEF WsInv, Linked
  <2>6. ArchivedKept
    BY <1>1 DEF ArchivedKept
  <2> QED BY <1>1, <2>3, <2>4, <2>5, <2>6 DEF WsInv
<1>2. ASSUME NEW r \in byId,
             rows' = (rows \ (byId \cup stale)) \cup {Renamed(r, id, dir)},
             IF stale = {} THEN UNCHANGED <<session, seed>>
             ELSE LET was == (CHOOSE o \in stale : TRUE).id
                  IN  session' = Relink(session, was, id) /\ seed' = RelinkSeeds(was, id)
      PROVE  /\ RowsApart(rows') /\ ArchivedKept /\ DescriptionsKept
             /\ DOMAIN session' = WsSessions /\ session' = [s \in WsSessions |-> session'[s]]
             /\ DOMAIN seed' = WsSessions /\ seed' = [s \in WsSessions |-> seed'[s]]
             /\ \A s \in WsSessions : Linked(rows', session'[s]) /\ Followed(session'[s], seed'[s])
  <2>0. PICK n : n = Renamed(r, id, dir)
    OBVIOUS
  <2>1. n = Renamed(r, id, dir) /\ n \in RowRecords /\ n.id = id /\ n.cwd = dir /\ n.desc = r.desc
    <3>1. r \in RowRecords
      BY <1>0, <1>2
    <3> QED BY <2>0, <3>1 DEF Renamed, RowRecords
  <2>2. PICK O : O = byId \cup stale
    OBVIOUS
  <2>3. /\ O \in SUBSET rows /\ rows' = (rows \ O) \cup {n}
        /\ \A q \in rows \ O : q.id # n.id /\ q.cwd # n.cwd
    BY <1>2, <2>1, <2>2 DEF Occupied
  <2>4. DescriptionsKept
    <3> SUFFICES ASSUME NEW p \in rows
                 PROVE  \/ Superseded(p)
                        \/ \E q \in rows' : (q.id = p.id \/ q.cwd = p.cwd) /\ q.desc = p.desc
      BY DEF DescriptionsKept
    <3>1. CASE p \notin O
      BY <2>3, <3>1
    <3>2. CASE p.id = id
      BY <1>0, <1>2, <2>1, <2>3, <3>2
    <3>3. CASE p \in O /\ p.id # id
      BY <1>0, <1>2, <2>1, <2>2, <2>3, <3>3 DEF Superseded, Occupied
    <3> QED BY <3>1, <3>2, <3>3
  <2>5. CASE stale = {}
    <3>1. O = {r}
      BY <1>0, <1>2, <2>2, <2>5
    <3>2. \A s \in WsSessions : Linked(rows', session'[s]) /\ Followed(session'[s], seed'[s])
      <4> SUFFICES ASSUME NEW s \in WsSessions PROVE Linked(rows', session[s]) /\ Followed(session[s], seed[s])
        BY <1>2, <2>5
      <4>1. Linked(rows, session[s]) /\ Followed(session[s], seed[s])
        BY DEF WsInv
      <4>2. ASSUME NEW q \in rows PROVE \E p \in rows' : p.id = q.id
        <5>1. CASE q = r
          BY <1>2, <2>1, <2>3, <5>1
        <5>2. CASE q # r
          BY <2>3, <3>1, <5>2
        <5> QED BY <5>1, <5>2
      <4> QED BY <4>1, <4>2 DEF Linked
    <3>3. RowsApart(rows')
      BY <1>0, <2>1, <2>3, RowPlaced
    <3>4. ArchivedKept
      BY <1>2, <2>5 DEF ArchivedKept
    <3> QED BY <1>2, <2>4, <2>5, <3>2, <3>3, <3>4 DEF WsInv
  <2>6. CASE stale # {}
    <3>1. PICK o \in stale : /\ session' = Relink(session, o.id, id) /\ seed' = RelinkSeeds(o.id, id)
      BY <1>2, <2>6
    <3>2. o \in rows /\ o.id \in 1..MaxIds
      BY <1>0 DEF Occupied
    <3>3. \A q \in O : q.id \in {o.id, n.id}
      BY <1>0, <2>1, <2>2 DEF Occupied
    <3>4. session' = Relink(session, o.id, n.id) /\ seed' = RelinkSeeds(o.id, n.id)
      BY <2>1, <3>1
    <3> HIDE DEF byId, byCwd, stale
    <3> QED BY <2>1, <2>3, <2>4, <3>2, <3>3, <3>4, TablesRelinked
  <2> QED BY <2>5, <2>6
<1>3. ASSUME NEW r \in byCwd, byId = {}, rows' = (rows \ {r}) \cup {Renamed(r, id, dir)},
             session' = Relink(session, r.id, id), seed' = RelinkSeeds(r.id, id)
      PROVE  /\ RowsApart(rows') /\ ArchivedKept /\ DescriptionsKept
             /\ DOMAIN session' = WsSessions /\ session' = [s \in WsSessions |-> session'[s]]
             /\ DOMAIN seed' = WsSessions /\ seed' = [s \in WsSessions |-> seed'[s]]
             /\ \A s \in WsSessions : Linked(rows', session'[s]) /\ Followed(session'[s], seed'[s])
  <2>0. PICK n : n = Renamed(r, id, dir)
    OBVIOUS
  <2>1. n = Renamed(r, id, dir) /\ n \in RowRecords /\ n.id = id /\ n.cwd = dir /\ n.desc = r.desc
    <3>1. r \in RowRecords
      BY <1>0, <1>3
    <3> QED BY <2>0, <3>1 DEF Renamed, RowRecords
  <2>2. PICK O : O = {r}
    OBVIOUS
  <2>3. /\ O \in SUBSET rows /\ rows' = (rows \ O) \cup {n}
        /\ \A q \in rows \ O : q.id # n.id /\ q.cwd # n.cwd
    BY <1>0, <1>3, <2>1, <2>2
  <2>4. DescriptionsKept
    <3> SUFFICES ASSUME NEW p \in rows
                 PROVE  \E q \in rows' : (q.id = p.id \/ q.cwd = p.cwd) /\ q.desc = p.desc
      BY DEF DescriptionsKept
    <3>1. CASE p = r
      BY <1>3, <2>1, <2>3, <3>1
    <3>2. CASE p # r
      BY <2>2, <2>3, <3>2
    <3> QED BY <3>1, <3>2
  <2>5. r \in rows /\ r.id \in 1..MaxIds /\ (\A q \in O : q.id \in {r.id, n.id})
    BY <1>0, <1>3, <2>2
  <2>6. session' = Relink(session, r.id, n.id) /\ seed' = RelinkSeeds(r.id, n.id)
    BY <1>3, <2>1
  <2> HIDE DEF byId, byCwd, stale
  <2> QED BY <2>1, <2>3, <2>4, <2>5, <2>6, TablesRelinked
<1> QED BY <1>1, <1>2, <1>3 DEF ensure_workspace

(* A client moves on.                                                      *)
LEMMA ClientMoved ==
    ASSUME ClientsKept, NEW c \in WsClients, NEW x \in WsClientRecords, x.at = "writing" => x.ws # 0,
           client' = [client EXCEPT ![c] = x]
    PROVE  ClientsKept'
<1>1. client' \in [WsClients -> WsClientRecords]
  BY DEF ClientsKept
<1>2. ASSUME NEW a \in WsClients PROVE client'[a] = IF a = c THEN x ELSE client[a]
  BY DEF ClientsKept
<1> QED BY <1>1, <1>2 DEF ClientsKept

(* One session or one memory is written.                                   *)
LEMMA SessionWritten ==
    ASSUME WsInv, NEW s \in WsSessions, NEW x, Linked(rows, x), Followed(x, seed[s]),
           session' = [session EXCEPT ![s] = x], UNCHANGED <<config, rows, client, seed, spent>>
    PROVE  WsInv' /\ DescriptionsKept
<1>1. DOMAIN session' = WsSessions /\ session' = [a \in WsSessions |-> session'[a]]
  BY DEF WsInv
<1>2. ASSUME NEW a \in WsSessions PROVE session'[a] = IF a = s THEN x ELSE session[a]
  BY DEF WsInv
<1>3. ASSUME NEW a \in WsSessions PROVE Linked(rows', session'[a]) /\ Followed(session'[a], seed'[a])
  <2>1. Linked(rows, session[a]) /\ Followed(session[a], seed[a])
    BY DEF WsInv
  <2>2. Linked(rows, session'[a]) /\ Followed(session'[a], seed[a])
    BY <1>2, <2>1
  <2> QED BY <2>2
<1>4. DescriptionsKept
  BY DEF WsInv, RowsApart, DescriptionsKept
<1> QED BY <1>1, <1>3, <1>4 DEF WsInv, ClientsKept

LEMMA SeedWritten ==
    ASSUME WsInv, NEW s \in WsSessions, NEW m, Followed(session[s], m),
           seed' = [seed EXCEPT ![s] = m], UNCHANGED <<config, rows, client, session, spent>>
    PROVE  WsInv' /\ DescriptionsKept /\ ArchivedKept
<1>1. DOMAIN seed' = WsSessions /\ seed' = [a \in WsSessions |-> seed'[a]]
  BY DEF WsInv
<1>2. ASSUME NEW a \in WsSessions PROVE seed'[a] = IF a = s THEN m ELSE seed[a]
  BY DEF WsInv
<1>3. ASSUME NEW a \in WsSessions PROVE Linked(rows', session'[a]) /\ Followed(session'[a], seed'[a])
  <2>1. Linked(rows, session[a]) /\ Followed(session[a], seed[a])
    BY DEF WsInv
  <2>2. Followed(session[a], seed'[a])
    BY <1>2, <2>1
  <2> QED BY <2>1, <2>2
<1>4. DescriptionsKept /\ ArchivedKept
  BY DEF WsInv, RowsApart, DescriptionsKept, ArchivedKept
<1> QED BY <1>1, <1>3, <1>4 DEF WsInv, ClientsKept

(* One row is written, its name and directory as they were.                *)
LEMMA RowWritten ==
    ASSUME WsInv, NEW r \in rows, NEW n \in RowRecords, n.id = r.id, n.cwd = r.cwd,
           n.desc = r.desc \/ r.desc = "", rows' = (rows \ {r}) \cup {n}
    PROVE  /\ RowsApart(rows') /\ DescriptionsKept
           /\ \A x : Linked(rows, x) => Linked(rows', x)
<1>0. RowsApart(rows) /\ \A p, q \in rows : (p.id = q.id \/ p.cwd = q.cwd) => p = q
  BY DEF WsInv, RowsApart
<1>1. \A q \in rows \ {r} : q.id # n.id /\ q.cwd # n.cwd
  BY <1>0
<1>2. RowsApart(rows')
  BY <1>0, <1>1, RowPlaced
<1>3. DescriptionsKept
  <2> SUFFICES ASSUME NEW p \in rows, p.desc # ""
               PROVE  \E q \in rows' : (q.id = p.id \/ q.cwd = p.cwd) /\ q.desc = p.desc
    BY DEF DescriptionsKept
  <2>1. CASE p = r
    BY <2>1
  <2>2. CASE p # r
    BY <2>2
  <2> QED BY <2>1, <2>2
<1>4. ASSUME NEW q \in rows PROVE \E p \in rows' : p.id = q.id
  <2>1. CASE q = r
    BY <2>1
  <2>2. CASE q # r
    BY <2>2
  <2> QED BY <2>1, <2>2
<1>5. ASSUME NEW x, Linked(rows, x) PROVE Linked(rows', x)
  BY <1>4, <1>5 DEF Linked
<1> QED BY <1>2, <1>3, <1>5

LEMMA WsInitInv == ASSUME WorkspacesInit PROVE WsInv
<1>0. 0 \in WsIds /\ (CHOOSE d \in WsDirs : TRUE) \in WsDirs
  BY WorkspacesAssumption DEF WsIds
<1>1. config \in [WsDirs -> WsIds] /\ spent \in [ids : WsIds, moves : Nat]
  BY <1>0 DEF WorkspacesInit
<1>2. PICK x : x = [at |-> "new", cwd |-> CHOOSE d \in WsDirs : TRUE, ws |-> 0]
  OBVIOUS
<1>3. x \in WsClientRecords /\ x.at = "new"
  BY <1>0, <1>2 DEF WsClientRecords
<1>4. client = [c \in WsClients |-> x]
  BY <1>2 DEF WorkspacesInit
<1>5. RowsApart(rows)
  BY DEF WorkspacesInit, RowsApart
<1>6. NoSession \in WsSessionRecords /\ NoSession.at = "none" /\ NoSession.ws = 0 /\ ~NoSession.archived
  BY <1>0 DEF NoSession, WsSessionRecords
<1>7. NoSeed \in SeedRecords /\ NoSeed.at = "none" /\ ~NoSeed.profile
  BY <1>0 DEF NoSeed, SeedRecords
<1>8. ASSUME NEW s \in WsSessions PROVE Linked(rows, session[s]) /\ Followed(session[s], seed[s])
  BY <1>6, <1>7 DEF WorkspacesInit, Linked, Followed
<1>9. /\ DOMAIN session = WsSessions /\ session = [s \in WsSessions |-> session[s]]
      /\ DOMAIN seed = WsSessions /\ seed = [s \in WsSessions |-> seed[s]]
  BY DEF WorkspacesInit
<1>10. \A c \in WsClients : client[c].at = "writing" => client[c].ws # 0
  BY <1>3, <1>4
<1>11. client \in [WsClients -> WsClientRecords]
  BY <1>3, <1>4
<1> QED BY <1>1, <1>5, <1>8, <1>9, <1>10, <1>11 DEF WsInv, ClientsKept

(* The steps of clients and of their directories.                          *)
LEMMA HelloKeeps ==
    ASSUME WsInv, NEW c \in WsClients, NEW d \in WsDirs, Hello(c, d)
    PROVE  WsInv' /\ DescriptionsKept /\ ArchivedKept
<1>0. config[d] \in WsIds /\ 0 \in WsIds /\ ClientsKept
  BY WorkspacesAssumption DEF WsInv, WsIds
<1>1. CASE config[d] # 0
  <2>1. ensure_workspace(config[d], d) /\ config[d] \in 1..MaxIds
    BY <1>0, <1>1, WorkspacesAssumption DEF Hello, WsIds
  <2>2. PICK x : x = [at |-> "known", cwd |-> d, ws |-> config[d]]
    OBVIOUS
  <2>3. x \in WsClientRecords /\ x.at = "known"
    BY <1>0, <2>2 DEF WsClientRecords
  <2>4. client' = [client EXCEPT ![c] = x]
    BY <1>1, <2>2 DEF Hello
  <2>5. ClientsKept'
    BY <1>0, <2>3, <2>4, ClientMoved
  <2>6. UNCHANGED <<config, spent>>
    BY DEF Hello
  <2> QED BY <2>1, <2>5, <2>6, EnsureKeeps DEF WsInv
<1>2. CASE config[d] = 0
  <2>2. PICK x : x = [at |-> "asking", cwd |-> d, ws |-> 0]
    OBVIOUS
  <2>3. x \in WsClientRecords /\ x.at = "asking"
    BY <1>0, <2>2 DEF WsClientRecords
  <2>4. client' = [client EXCEPT ![c] = x] /\ UNCHANGED <<config, spent, rows, session, seed>>
    BY <1>2, <2>2 DEF Hello
  <2>5. ClientsKept'
    BY <1>0, <2>3, <2>4, ClientMoved
  <2>6. DescriptionsKept /\ ArchivedKept
    BY <2>4 DEF WsInv, RowsApart, DescriptionsKept, ArchivedKept
  <2> QED BY <2>4, <2>5, <2>6 DEF WsInv
<1> QED BY <1>1, <1>2

LEMMA DeclineKeeps ==
    ASSUME WsInv, NEW c \in WsClients, Decline(c)
    PROVE  WsInv' /\ DescriptionsKept /\ ArchivedKept
<1>1. PICK x : x = [client[c] EXCEPT !.at = "known"]
  OBVIOUS
<1>2. ClientsKept /\ client[c] \in WsClientRecords
  BY DEF WsInv, ClientsKept
<1>3. x \in WsClientRecords /\ x.at = "known"
  BY <1>1, <1>2 DEF WsClientRecords
<1>4. client' = [client EXCEPT ![c] = x] /\ UNCHANGED <<config, rows, session, seed, spent>>
  BY <1>1, <1>2 DEF Decline, ClientsKept
<1>5. ClientsKept'
  BY <1>2, <1>3, <1>4, ClientMoved
<1>6. DescriptionsKept /\ ArchivedKept
  BY <1>4 DEF WsInv, RowsApart, DescriptionsKept, ArchivedKept
<1> QED BY <1>4, <1>5, <1>6 DEF WsInv

LEMMA WriteConfigKeeps ==
    ASSUME WsInv, NEW c \in WsClients, NEW d \in WsDirs, WriteConfig(c, d)
    PROVE  WsInv' /\ DescriptionsKept /\ ArchivedKept
<1>0. /\ spent.ids \in WsIds /\ spent \in [ids : WsIds, moves : Nat] /\ spent.ids < MaxIds
      /\ ClientsKept /\ config \in [WsDirs -> WsIds]
  BY DEF WsInv, WriteConfig
<1>1. PICK i : i = spent.ids + 1
  OBVIOUS
<1>2. i \in WsIds /\ i # 0
  BY <1>0, <1>1, WorkspacesAssumption DEF WsIds
<1>3. PICK x : x = [at |-> "writing", cwd |-> d, ws |-> i]
  OBVIOUS
<1>4. x \in WsClientRecords /\ x.ws # 0
  BY <1>2, <1>3 DEF WsClientRecords
<1>5. /\ client' = [client EXCEPT ![c] = x] /\ config' = [config EXCEPT ![d] = i]
      /\ spent' = [spent EXCEPT !.ids = i] /\ UNCHANGED <<rows, session, seed>>
  BY <1>0, <1>1, <1>3 DEF WriteConfig
<1>6. ClientsKept'
  BY <1>0, <1>4, <1>5, ClientMoved
<1>7. spent' \in [ids : WsIds, moves : Nat] /\ config' \in [WsDirs -> WsIds]
  BY <1>0, <1>2, <1>5
<1>8. DescriptionsKept /\ ArchivedKept
  BY <1>5 DEF WsInv, RowsApart, DescriptionsKept, ArchivedKept
<1> QED BY <1>5, <1>6, <1>7, <1>8 DEF WsInv

LEMMA RegisterRowKeeps ==
    ASSUME WsInv, NEW c \in WsClients, RegisterRow(c)
    PROVE  WsInv' /\ DescriptionsKept /\ ArchivedKept
<1>1. PICK x : x = [client[c] EXCEPT !.at = "known"]
  OBVIOUS
<1>2. ClientsKept /\ client[c] \in WsClientRecords /\ client[c].at = "writing" /\ client[c].ws # 0
  BY DEF WsInv, ClientsKept, RegisterRow
<1>3. x \in WsClientRecords /\ x.at = "known" /\ client[c].ws \in WsIds /\ client[c].cwd \in WsDirs
  BY <1>1, <1>2 DEF WsClientRecords
<1>4. client' = [client EXCEPT ![c] = x] /\ UNCHANGED <<config, spent>>
  BY <1>1, <1>2 DEF RegisterRow, ClientsKept
<1>5. ClientsKept'
  BY <1>2, <1>3, <1>4, ClientMoved
<1>6. client[c].ws \in 1..MaxIds /\ ensure_workspace(client[c].ws, client[c].cwd)
  BY <1>2, <1>3, WorkspacesAssumption DEF RegisterRow, WsIds
<1> QED BY <1>3, <1>4, <1>5, <1>6, EnsureKeeps DEF WsInv

LEMMA MoveDirectoryKeeps ==
    ASSUME WsInv, NEW d \in WsDirs, NEW to \in WsDirs, MoveDirectory(d, to)
    PROVE  WsInv' /\ DescriptionsKept /\ ArchivedKept
<1>1. spent' \in [ids : WsIds, moves : Nat]
  BY DEF WsInv, MoveDirectory
<1>2. config' \in [WsDirs -> WsIds]
  BY WorkspacesAssumption DEF WsInv, MoveDirectory, WsIds
<1>3. UNCHANGED <<rows, client, session, seed>>
  BY DEF MoveDirectory
<1>4. DescriptionsKept /\ ArchivedKept
  BY <1>3 DEF WsInv, RowsApart, DescriptionsKept, ArchivedKept
<1> QED BY <1>1, <1>2, <1>3, <1>4 DEF WsInv, ClientsKept

(* The steps of sessions and memories.                                     *)
LEMMA CreateSessionKeeps ==
    ASSUME WsInv, NEW c \in WsClients, NEW s \in WsSessions, create_session(c, s)
    PROVE  WsInv' /\ DescriptionsKept /\ ArchivedKept
<1>0. Linked(rows, session[s]) /\ Followed(session[s], seed[s]) /\ session[s].at = "none" /\ 0 \in WsIds
  BY WorkspacesAssumption DEF WsInv, create_session, WsIds
<1>1. PICK w : w = IF \E r \in rows : r.id = client[c].ws THEN client[c].ws ELSE 0
  OBVIOUS
<1>2. PICK x : x = [at |-> "stored", archived |-> FALSE, ws |-> w]
  OBVIOUS
<1>3. w \in WsIds /\ (w # 0 => \E r \in rows : r.id = w)
  BY <1>0, <1>1 DEF WsInv, ClientsKept, WsClientRecords
<1>4. x \in WsSessionRecords /\ x.at = "stored" /\ x.ws = w /\ ~x.archived
  BY <1>2, <1>3 DEF WsSessionRecords
<1>5. Linked(rows, x)
  BY <1>3, <1>4 DEF Linked
<1>6. seed[s] \in SeedRecords /\ seed[s].at = "none"
  BY <1>0 DEF Followed
<1>7. Followed(x, seed[s])
  BY <1>0, <1>4, <1>6 DEF Followed
<1>8. session' = [session EXCEPT ![s] = x] /\ UNCHANGED <<config, rows, client, seed, spent>>
  BY <1>1, <1>2 DEF create_session
<1>9. WsInv' /\ DescriptionsKept
  BY <1>5, <1>7, <1>8, SessionWritten
<1>10. ASSUME NEW a \in WsSessions, session[a].archived PROVE session'[a] = session[a]
  BY <1>0, <1>8, <1>10 DEF WsInv, Linked
<1> QED BY <1>9, <1>10 DEF ArchivedKept

LEMMA DeleteSessionKeeps ==
    ASSUME WsInv, NEW s \in WsSessions, delete_session(s)
    PROVE  WsInv' /\ DescriptionsKept /\ ArchivedKept
<1>0. Followed(session[s], seed[s]) /\ 0 \in WsIds
  BY WorkspacesAssumption DEF WsInv, WsIds
<1>1. PICK x : x = [NoSession EXCEPT !.at = "deleted"]
  OBVIOUS
<1>2. x \in WsSessionRecords /\ x.at = "deleted" /\ x.ws = 0 /\ ~x.archived
  BY <1>0, <1>1 DEF NoSession, WsSessionRecords
<1>3. Linked(rows, x) /\ Followed(x, seed[s])
  BY <1>0, <1>2 DEF Linked, Followed
<1>4. session' = [session EXCEPT ![s] = x] /\ UNCHANGED <<config, rows, client, seed, spent>>
  BY <1>1 DEF delete_session
<1>5. WsInv' /\ DescriptionsKept
  BY <1>3, <1>4, SessionWritten
<1>6. ASSUME NEW a \in WsSessions PROVE session'[a] = IF a = s THEN x ELSE session[a]
  BY <1>4 DEF WsInv
<1>7. ArchivedKept
  BY <1>2, <1>6 DEF ArchivedKept
<1> QED BY <1>5, <1>7

(* The one step after which an archived session is there again.            *)
LEMMA ArchiveSessionKeeps ==
    ASSUME WsInv, NEW s \in WsSessions, NEW b \in BOOLEAN, archive_session(s, b)
    PROVE  /\ WsInv' /\ DescriptionsKept
           /\ b \/ \A a \in WsSessions \ {s} : session'[a] = session[a]
           /\ b => ArchivedKept
<1>0. /\ Linked(rows, session[s]) /\ Followed(session[s], seed[s])
      /\ session[s].at = "stored" /\ session[s] \in WsSessionRecords
  BY DEF WsInv, archive_session, Linked
<1>1. PICK x : x = [session[s] EXCEPT !.archived = b]
  OBVIOUS
<1>2. /\ x \in WsSessionRecords /\ x.at = session[s].at /\ x.ws = session[s].ws /\ x.archived = b
  BY <1>0, <1>1 DEF WsSessionRecords
<1>3. Linked(rows, x) /\ Followed(x, seed[s])
  BY <1>0, <1>2 DEF Linked, Followed
<1>4. session' = [session EXCEPT ![s] = x] /\ UNCHANGED <<config, rows, client, seed, spent>>
  BY <1>1 DEF archive_session, WsInv
<1>5. WsInv' /\ DescriptionsKept
  BY <1>3, <1>4, SessionWritten
<1>6. ASSUME NEW a \in WsSessions PROVE session'[a] = IF a = s THEN x ELSE session[a]
  BY <1>4 DEF WsInv
<1>7. b => ArchivedKept
  BY <1>2, <1>6 DEF ArchivedKept
<1> QED BY <1>5, <1>6, <1>7

LEMMA StampKeeps ==
    ASSUME WsInv, NEW s \in WsSessions, NEW p \in BOOLEAN, Stamp(s, p)
    PROVE  WsInv' /\ DescriptionsKept /\ ArchivedKept
<1>0. session[s].ws \in WsIds /\ session[s].at = "stored" /\ 0 \in WsIds
  BY WorkspacesAssumption DEF WsInv, Stamp, Linked, WsSessionRecords, WsIds
<1>1. PICK m : m = [NoSeed EXCEPT !.at = "stamped", !.profile = p, !.ws = IF p THEN 0 ELSE session[s].ws]
  OBVIOUS
<1>2. m \in SeedRecords /\ m.at = "stamped" /\ (m.profile => m.ws = 0)
  <2>1. CASE p
    BY <1>0, <1>1, <2>1 DEF NoSeed, SeedRecords
  <2>2. CASE ~p
    BY <1>0, <1>1, <2>2 DEF NoSeed, SeedRecords
  <2> QED BY <2>1, <2>2
<1>3. Followed(session[s], m)
  BY <1>0, <1>2 DEF Followed
<1>4. seed' = [seed EXCEPT ![s] = m] /\ UNCHANGED <<config, rows, client, session, spent>>
  BY <1>1 DEF Stamp
<1> QED BY <1>3, <1>4, SeedWritten

LEMMA InsertSeedKeeps ==
    ASSUME WsInv, NEW s \in WsSessions, insert_seed(s)
    PROVE  WsInv' /\ DescriptionsKept /\ ArchivedKept
<1>0. Followed(session[s], seed[s]) /\ seed[s] \in SeedRecords /\ seed[s].at = "stamped"
  BY DEF WsInv, insert_seed, Followed
<1>1. PICK m : m = [seed[s] EXCEPT !.at = "stored", !.raced = ~seed[s].profile /\ seed[s].ws # session[s].ws]
  OBVIOUS
<1>2. /\ m \in SeedRecords /\ m.at = "stored" /\ m.ws = seed[s].ws /\ m.profile = seed[s].profile
      /\ ~m.raced /\ ~m.profile => m.ws = session[s].ws
  BY <1>0, <1>1 DEF SeedRecords
<1>3. session[s].at # "none"
  BY <1>0 DEF Followed
<1>4. Followed(session[s], m)
  BY <1>0, <1>2, <1>3 DEF Followed
<1>5. seed' = [seed EXCEPT ![s] = m] /\ UNCHANGED <<config, rows, client, session, spent>>
  BY <1>1 DEF insert_seed, WsInv
<1> QED BY <1>4, <1>5, SeedWritten

(* The steps of rows.                                                      *)
LEMMA UnarchiveWorkspaceKeeps ==
    ASSUME WsInv, NEW i, unarchive_workspace(i)
    PROVE  WsInv' /\ DescriptionsKept /\ ArchivedKept
<1>1. PICK r \in rows : rows' = (rows \ {r}) \cup {[r EXCEPT !.archived = FALSE]}
  BY DEF unarchive_workspace
<1>2. PICK n : n = [r EXCEPT !.archived = FALSE]
  OBVIOUS
<1>3. n \in RowRecords /\ n.id = r.id /\ n.cwd = r.cwd /\ n.desc = r.desc
  <2>1. r \in RowRecords
    BY DEF WsInv, RowsApart
  <2> QED BY <1>2, <2>1 DEF RowRecords
<1>4. rows' = (rows \ {r}) \cup {n} /\ UNCHANGED <<config, client, session, seed, spent>>
  BY <1>1, <1>2 DEF unarchive_workspace
<1>5. RowsApart(rows') /\ DescriptionsKept /\ \A x : Linked(rows, x) => Linked(rows', x)
  BY <1>3, <1>4, RowWritten
<1>6. ArchivedKept
  BY <1>4 DEF ArchivedKept
<1> QED BY <1>4, <1>5, <1>6 DEF WsInv, ClientsKept

LEMMA UpdateWorkspaceKeeps ==
    ASSUME WsInv, NEW i, update_workspace_metadata(i)
    PROVE  WsInv' /\ DescriptionsKept /\ ArchivedKept
<1>1. PICK r \in rows : r.desc = "" /\ rows' = (rows \ {r}) \cup {[r EXCEPT !.desc = "described"]}
  BY DEF update_workspace_metadata
<1>2. PICK n : n = [r EXCEPT !.desc = "described"]
  OBVIOUS
<1>3. n \in RowRecords /\ n.id = r.id /\ n.cwd = r.cwd
  <2>1. r \in RowRecords
    BY DEF WsInv, RowsApart
  <2> QED BY <1>2, <2>1 DEF RowRecords
<1>4. rows' = (rows \ {r}) \cup {n} /\ UNCHANGED <<config, client, session, seed, spent>>
  BY <1>1, <1>2 DEF update_workspace_metadata
<1>5. RowsApart(rows') /\ DescriptionsKept /\ \A x : Linked(rows, x) => Linked(rows', x)
  BY <1>1, <1>3, <1>4, RowWritten
<1>6. ArchivedKept
  BY <1>4 DEF ArchivedKept
<1> QED BY <1>4, <1>5, <1>6 DEF WsInv, ClientsKept

LEMMA ArchiveWorkspaceKeeps ==
    ASSUME WsInv, NEW i, archive_workspace(i)
    PROVE  WsInv' /\ DescriptionsKept /\ ArchivedKept
<1>1. PICK r \in rows : rows' = (rows \ {r}) \cup {[r EXCEPT !.archived = TRUE]}
  BY DEF archive_workspace
<1>2. PICK n : n = [r EXCEPT !.archived = TRUE]
  OBVIOUS
<1>3. n \in RowRecords /\ n.id = r.id /\ n.cwd = r.cwd /\ n.desc = r.desc
  <2>1. r \in RowRecords
    BY DEF WsInv, RowsApart
  <2> QED BY <1>2, <2>1 DEF RowRecords
<1>4. rows' = (rows \ {r}) \cup {n} /\ UNCHANGED <<config, client, seed, spent>>
  BY <1>1, <1>2 DEF archive_workspace
<1>5. RowsApart(rows') /\ DescriptionsKept /\ \A x : Linked(rows, x) => Linked(rows', x)
  BY <1>3, <1>4, RowWritten
<1>6. DOMAIN session' = WsSessions /\ session' = [s \in WsSessions |-> session'[s]]
  BY DEF archive_workspace
<1>7. ASSUME NEW s \in WsSessions
      PROVE  /\ Linked(rows, session'[s]) /\ Followed(session'[s], seed[s])
             /\ session[s].archived => session'[s].archived
  <2>0. Linked(rows, session[s]) /\ Followed(session[s], seed[s]) /\ session[s] \in WsSessionRecords
    BY DEF WsInv, Linked
  <2>1. CASE session[s].at = "stored" /\ session[s].ws = i
    <3>1. PICK x : x = [session[s] EXCEPT !.archived = TRUE]
      OBVIOUS
    <3>2. x \in WsSessionRecords /\ x.at = session[s].at /\ x.ws = session[s].ws /\ x.archived
      BY <2>0, <3>1 DEF WsSessionRecords
    <3>3. session'[s] = x
      BY <2>1, <3>1 DEF archive_workspace
    <3>4. Linked(rows, x) /\ Followed(x, seed[s])
      BY <2>0, <2>1, <3>2 DEF Linked, Followed
    <3> QED BY <3>2, <3>3, <3>4
  <2>2. CASE ~(session[s].at = "stored" /\ session[s].ws = i)
    <3>1. session'[s] = session[s]
      BY <2>2 DEF archive_workspace
    <3> QED BY <2>0, <3>1
  <2> QED BY <2>1, <2>2
<1>8. ArchivedKept
  BY <1>7 DEF ArchivedKept
<1>9. \A s \in WsSessions : Linked(rows', session'[s]) /\ Followed(session'[s], seed'[s])
  BY <1>4, <1>5, <1>7
<1> QED BY <1>4, <1>5, <1>6, <1>8, <1>9 DEF WsInv, ClientsKept
-----------------------------------------------------------------------------
(* A row keeps its text unless another takes its directory, and an         *)
(* archived session returns by name only.                                  *)
UserStateStep ==
    /\ DescriptionsKept
    /\ \A s \in WsSessions :
           (session[s].archived /\ session'[s].at = "stored" /\ ~session'[s].archived)
               => archive_session(s, FALSE)

LEMMA WsStepInv == ASSUME WsInv, WorkspacesNext PROVE WsInv' /\ UserStateStep
<1> DEFINE Kept == WsInv' /\ DescriptionsKept /\ ArchivedKept
<1>1. Kept => WsInv' /\ UserStateStep
  BY DEF ArchivedKept, UserStateStep
<1> HIDE DEF Kept
<1>2. ASSUME NEW s \in WsSessions, NEW b \in BOOLEAN, archive_session(s, b) PROVE WsInv' /\ UserStateStep
  <2>1. CASE b
    BY <1>1, <1>2, <2>1, ArchiveSessionKeeps DEF Kept
  <2>2. CASE ~b
    <3>1. b = FALSE
      BY <2>2
    <3>2. WsInv' /\ DescriptionsKept /\ \A a \in WsSessions \ {s} : session'[a] = session[a]
      BY <1>2, <2>2, ArchiveSessionKeeps
    <3>3. archive_session(s, FALSE)
      BY <1>2, <3>1
    <3> QED BY <3>2, <3>3 DEF UserStateStep
  <2> QED BY <2>1, <2>2
<1>3. ASSUME NEW c \in WsClients, Decline(c) PROVE Kept
  BY <1>3, DeclineKeeps DEF Kept
<1>4. ASSUME NEW c \in WsClients, RegisterRow(c) PROVE Kept
  BY <1>4, RegisterRowKeeps DEF Kept
<1>5. ASSUME NEW c \in WsClients, NEW d \in WsDirs, Hello(c, d) PROVE Kept
  BY <1>5, HelloKeeps DEF Kept
<1>6. ASSUME NEW c \in WsClients, NEW d \in WsDirs, WriteConfig(c, d) PROVE Kept
  BY <1>6, WriteConfigKeeps DEF Kept
<1>7. ASSUME NEW c \in WsClients, NEW s \in WsSessions, create_session(c, s) PROVE Kept
  BY <1>7, CreateSessionKeeps DEF Kept
<1>8. ASSUME NEW s \in WsSessions, delete_session(s) PROVE Kept
  BY <1>8, DeleteSessionKeeps DEF Kept
<1>9. ASSUME NEW s \in WsSessions, NEW p \in BOOLEAN, Stamp(s, p) PROVE Kept
  BY <1>9, StampKeeps DEF Kept
<1>10. ASSUME NEW s \in WsSessions, insert_seed(s) PROVE Kept
  BY <1>10, InsertSeedKeeps DEF Kept
<1>11. ASSUME NEW i \in 1..MaxIds, archive_workspace(i) PROVE Kept
  BY <1>11, ArchiveWorkspaceKeeps DEF Kept
<1>12. ASSUME NEW i \in 1..MaxIds, unarchive_workspace(i) PROVE Kept
  BY <1>12, UnarchiveWorkspaceKeeps DEF Kept
<1>13. ASSUME NEW i \in 1..MaxIds, update_workspace_metadata(i) PROVE Kept
  BY <1>13, UpdateWorkspaceKeeps DEF Kept
<1>14. ASSUME NEW d \in WsDirs, NEW to \in WsDirs, MoveDirectory(d, to) PROVE Kept
  BY <1>14, MoveDirectoryKeeps DEF Kept
<1> QED BY <1>1, <1>2, <1>3, <1>4, <1>5, <1>6, <1>7, <1>8, <1>9, <1>10, <1>11, <1>12, <1>13, <1>14
        DEF WorkspacesNext

LEMMA WsInvSays == ASSUME WsInv PROVE WorkspacesTypeOK /\ OneWorkspacePerDirectory /\ MemoriesFollow
<1>1. WorkspacesTypeOK
  <2>1. config \in [WsDirs -> 0..MaxIds]
    BY DEF WsInv, WsIds
  <2>2. \A r \in rows : r.id \in 1..MaxIds /\ r.cwd \in WsDirs
    BY DEF WsInv, RowsApart, RowRecords
  <2>3. \A c \in WsClients : client[c].at \in {"new", "asking", "writing", "known"}
    BY DEF WsInv, ClientsKept, WsClientRecords
  <2>4. ASSUME NEW s \in WsSessions PROVE session[s].ws \in 0..MaxIds /\ seed[s].ws \in 0..MaxIds
    BY DEF WsInv, Linked, Followed, WsSessionRecords, SeedRecords, WsIds
  <2> QED BY <2>1, <2>2, <2>3, <2>4 DEF WorkspacesTypeOK
<1>2. OneWorkspacePerDirectory
  BY DEF WsInv, RowsApart, Linked, OneWorkspacePerDirectory
<1>3. MemoriesFollow
  BY DEF WsInv, Followed, MemoriesFollow
<1> QED BY <1>1, <1>2, <1>3

LEMMA WorkspacesOfDesk ==
    /\ DeskInit => WorkspacesInit
    /\ [DeskNext]_deskVars => [WorkspacesNext]_wsVars
<1>1. DeskInit => WorkspacesInit
  BY DEF DeskInit
<1>2. UNCHANGED hostVars => UNCHANGED wsVars
  BY DEF hostVars
<1>3. DeskNext => WorkspacesNext \/ UNCHANGED wsVars
  BY <1>2 DEF DeskNext
<1>4. UNCHANGED deskVars => UNCHANGED wsVars
  BY <1>2 DEF deskVars
<1> QED BY <1>1, <1>3, <1>4

(* A directory has one workspace however it is moved, merged or drifts; no *)
(* session names a workspace that is gone; memories are found where their  *)
(* session is; what the user wrote about a workspace is lost only when one *)
(* that moved takes over its directory; and no merge brings back an        *)
(* archived session (ensure_workspace and its callers).                    *)
THEOREM WorkspacesAreKept == DeskSpec => WorkspacesKept
<1>1. WorkspacesInit => WsInv
  BY WsInitInv
<1>2. WsInv /\ [WorkspacesNext]_wsVars => WsInv'
  <2>1. WsInv /\ UNCHANGED wsVars => WsInv'
    BY DEF WsInv, ClientsKept, wsVars
  <2> QED BY <2>1, WsStepInv
<1>3. WsInv => WorkspacesTypeOK /\ OneWorkspacePerDirectory /\ MemoriesFollow
  BY WsInvSays
<1>4. WsInv /\ [WorkspacesNext]_wsVars => [UserStateStep]_wsVars
  BY WsStepInv
<1>5. DeskSpec => []WsInv
  BY <1>1, <1>2, WorkspacesOfDesk, PTL DEF DeskSpec
<1>6. DeskSpec => UserStateKept
  <2>1. DeskSpec => [][UserStateStep]_wsVars
    BY <1>4, <1>5, WorkspacesOfDesk, PTL DEF DeskSpec
  <2> QED BY <2>1 DEF UserStateStep, UserStateKept
<1> QED BY <1>3, <1>5, <1>6, PTL DEF WorkspacesKept

-----------------------------------------------------------------------------
(* The daemon.  A start that is wanted has a process that can still serve, *)
(* or met a torn file; while no two commands overlap, the one process that *)
(* starts or serves is the one that the pid file names.                    *)

ProcPlaces == {"unborn", "checking", "clearing", "creating", "reading", "removing", "recreating", "writing",
               "listening", "binding", "serving", "failing", "leaving", "dead"}
DmTypes ==
    /\ pidfile \in [by : Procs \cup {"absent"}, pid : Procs \cup {"absent", "empty"}]
    /\ socket \in Procs \cup {"absent"} /\ port \in Procs \cup {"free"}
    /\ proc \in [Procs -> ProcPlaces] /\ listener \in [Procs -> {"none", "spawned", "bound"}]
    /\ signalled \in SUBSET {p \in Procs : proc[p] # "unborn"} /\ query \in {"none", "stale", "stopping"}
    /\ wanted \in BOOLEAN /\ overlapped \in BOOLEAN /\ tornMet \in BOOLEAN

(* Who holds the port serves, and who created the file may write to it.    *)
PortHeld == \A p \in Procs : proc[p] = "serving" <=> port = p
FileWritten ==
    /\ pidfile.by = "absent" <=> pidfile.pid = "absent"
    /\ pidfile.pid = "empty" => proc[pidfile.by] \in {"writing", "dead"}
    /\ pidfile.pid \in Procs =>
          /\ pidfile.by = pidfile.pid
          /\ proc[pidfile.pid] \in {"listening", "binding", "serving", "failing", "leaving", "dead"}

(* A process that will serve if nothing is done to it: a failure to bind   *)
(* the port would mean that another serves.  One that tries the file again *)
(* is one only while there is none, or a torn one, which it will report.   *)
Secure(p) ==
    \/ proc[p] \in {"checking", "clearing", "creating", "reading", "removing", "writing", "listening", "binding",
                    "serving"}
    \/ proc[p] = "recreating" /\ (pidfile = NoFile \/ Torn)
SomeSecure == wanted => tornMet \/ \E p \in Procs : Secure(p)
(* A start that gives up because the file names a live daemon may rely on  *)
(* it: if that one is failing itself, another holds the port.              *)
FailingNamed ==
    wanted /\ pidfile.pid \in Procs /\ proc[pidfile.pid] \in {"failing", "leaving"} => port \in Procs
(* As long as no two commands overlapped.                                  *)
Exclusive ==
    ~overlapped =>
      \A p \in Procs :
        /\ Starting(p) => query = "none" /\ (\A q \in Procs : Starting(q) => q = p) /\ p \notin signalled
        /\ proc[p] = "writing" => pidfile = [by |-> p, pid |-> "empty"]
        /\ proc[p] \in {"listening", "binding"} => pidfile.pid = p
        /\ Serving(p) /\ p \notin signalled =>
              pidfile.pid = p /\ query = "none" /\ (\A q \in Procs : ~Starting(q))
        /\ proc[p] \in {"binding", "serving"} /\ p \notin signalled /\ listener[p] = "bound" => socket = p
DmInv == DmTypes /\ PortHeld /\ FileWritten /\ SomeSecure /\ FailingNamed /\ Exclusive

LEMMA ProcMoves ==
    ASSUME DmTypes, NEW p \in Procs, NEW w \in ProcPlaces, Goto(p, w)
    PROVE  /\ proc' \in [Procs -> ProcPlaces]
           /\ \A q \in Procs : proc'[q] = IF q = p THEN w ELSE proc[q]
BY DEF DmTypes, Goto

LEMMA ProcExits ==
    ASSUME DmTypes, NEW p \in Procs, ExitProc(p)
    PROVE  /\ proc' \in [Procs -> ProcPlaces]
           /\ \A q \in Procs : proc'[q] = IF q = p THEN "dead" ELSE proc[q]
           /\ listener' \in [Procs -> {"none", "spawned", "bound"}]
           /\ \A q \in Procs : listener'[q] = IF q = p THEN "none" ELSE listener[q]
           /\ port' = IF port = p THEN "free" ELSE port
BY DEF DmTypes, ExitProc, Goto, ProcPlaces

LEMMA Overlaps ==
    ASSUME NEW p \in Procs, Overlap(p)
    PROVE  /\ overlapped' \in BOOLEAN
           /\ ~overlapped' => ~overlapped /\ query = "none" /\ \A q \in Procs \ {p} : ~Starting(q)
BY DEF Overlap

LEMMA SpawnKeeps ==
    ASSUME DmInv, NEW p \in Procs, spawn_daemon(p)
    PROVE  DmInv'
<1>0. DmTypes /\ PortHeld /\ FileWritten /\ SomeSecure /\ FailingNamed /\ Exclusive
  BY DEF DmInv
<1>1. proc[p] = "unborn" /\ ~Claimed /\ wanted' = TRUE
      /\ UNCHANGED <<pidfile, socket, port, listener, signalled, query, tornMet>>
  BY DEF spawn_daemon
<1>2. /\ proc' \in [Procs -> ProcPlaces]
      /\ \A q \in Procs : proc'[q] = IF q = p THEN "checking" ELSE proc[q]
  BY <1>0, ProcMoves DEF spawn_daemon, ProcPlaces
<1>3. /\ overlapped' \in BOOLEAN
      /\ ~overlapped' => ~overlapped /\ query = "none" /\ \A q \in Procs \ {p} : ~Starting(q)
  BY Overlaps DEF spawn_daemon
<1>4. DmTypes'
  BY <1>0, <1>1, <1>2, <1>3, DaemonAssumption DEF DmTypes, ProcPlaces, NoFile
<1>5. PortHeld'
  BY <1>0, <1>1, <1>2, <1>3, DaemonAssumption DEF DmTypes, PortHeld, ProcPlaces
<1>6. FileWritten'
  BY <1>0, <1>1, <1>2, <1>3, DaemonAssumption DEF DmTypes, FileWritten, ProcPlaces, NoFile, Stale, Claimed, Alive
<1>7. SomeSecure'
  BY <1>0, <1>1, <1>2, <1>3, DaemonAssumption DEF DmTypes, SomeSecure, Secure, FileWritten, FailingNamed, PortHeld,
     NoFile, Torn, Alive, Stale, Claimed, ProcPlaces
<1>8. FailingNamed'
  BY <1>0, <1>1, <1>2, <1>3, DaemonAssumption DEF DmTypes, FailingNamed, FileWritten, PortHeld, NoFile, Alive,
     Claimed, Stale, ProcPlaces
<1>9. Exclusive'
  BY <1>0, <1>1, <1>2, <1>3, DaemonAssumption DEF DmTypes, Exclusive, FileWritten, PortHeld, Starting, Serving,
     Alive, NoFile, Stale, Claimed, ProcPlaces
<1> QED BY <1>4, <1>5, <1>6, <1>7, <1>8, <1>9 DEF DmInv

LEMMA StartGoesOn ==
    ASSUME DmInv, NEW p \in Procs, proc[p] \in {"checking", "creating", "reading"},
           NEW w \in {"clearing", "creating", "reading", "removing"}, Goto(p, w),
           UNCHANGED <<pidfile, socket, port, listener, signalled, query, wanted, overlapped, tornMet>>
    PROVE  DmInv'
<1>0. DmTypes /\ PortHeld /\ FileWritten /\ SomeSecure /\ FailingNamed /\ Exclusive
  BY DEF DmInv
<1>1. /\ proc' \in [Procs -> ProcPlaces]
      /\ \A q \in Procs : proc'[q] = IF q = p THEN w ELSE proc[q]
  BY <1>0, ProcMoves DEF ProcPlaces
<1>2. DmTypes'
  BY <1>0, <1>1, DaemonAssumption DEF DmTypes, ProcPlaces, NoFile
<1>3. PortHeld'
  BY <1>0, <1>1, DaemonAssumption DEF DmTypes, PortHeld, ProcPlaces
<1>4. FileWritten'
  BY <1>0, <1>1, DaemonAssumption DEF DmTypes, FileWritten, ProcPlaces, NoFile, Stale, Claimed, Alive
<1>5. SomeSecure'
  BY <1>0, <1>1, DaemonAssumption DEF DmTypes, SomeSecure, Secure, FileWritten, FailingNamed, PortHeld, NoFile, Torn,
     Alive, Stale, Claimed, ProcPlaces
<1>6. FailingNamed'
  BY <1>0, <1>1, DaemonAssumption DEF DmTypes, FailingNamed, FileWritten, PortHeld, NoFile, Alive, Claimed, Stale,
     ProcPlaces
<1>7. Exclusive'
  BY <1>0, <1>1, DaemonAssumption DEF DmTypes, Exclusive, FileWritten, PortHeld, Starting, Serving, Alive, NoFile,
     Stale, Claimed, ProcPlaces
<1> QED BY <1>2, <1>3, <1>4, <1>5, <1>6, <1>7 DEF DmInv

LEMMA TriesAgain ==
    ASSUME DmInv, NEW p \in Procs, proc[p] = "reading", ~Claimed, ~Stale, Goto(p, "recreating"),
           UNCHANGED <<pidfile, socket, port, listener, signalled, query, wanted, overlapped, tornMet>>
    PROVE  DmInv'
<1>0. DmTypes /\ PortHeld /\ FileWritten /\ SomeSecure /\ FailingNamed /\ Exclusive
  BY DEF DmInv
<1>1. /\ proc' \in [Procs -> ProcPlaces]
      /\ \A q \in Procs : proc'[q] = IF q = p THEN "recreating" ELSE proc[q]
  BY <1>0, ProcMoves DEF ProcPlaces
<1>2. DmTypes'
  BY <1>0, <1>1, DaemonAssumption DEF DmTypes, ProcPlaces, NoFile
<1>3. PortHeld'
  BY <1>0, <1>1, DaemonAssumption DEF DmTypes, PortHeld, ProcPlaces
<1>4. FileWritten'
  BY <1>0, <1>1, DaemonAssumption DEF DmTypes, FileWritten, ProcPlaces, NoFile, Stale, Claimed, Alive
<1>5. SomeSecure'
  BY <1>0, <1>1, DaemonAssumption DEF DmTypes, SomeSecure, Secure, FileWritten, FailingNamed, PortHeld, NoFile, Torn,
     Alive, Stale, Claimed, ProcPlaces
<1>6. FailingNamed'
  BY <1>0, <1>1, DaemonAssumption DEF DmTypes, FailingNamed, FileWritten, PortHeld, NoFile, Alive, Claimed, Stale,
     ProcPlaces
<1>7. Exclusive'
  BY <1>0, <1>1, DaemonAssumption DEF DmTypes, Exclusive, FileWritten, PortHeld, Starting, Serving, Alive, NoFile,
     Stale, Claimed, ProcPlaces
<1> QED BY <1>2, <1>3, <1>4, <1>5, <1>6, <1>7 DEF DmInv

LEMMA StartGivesUp ==
    ASSUME DmInv, NEW p \in Procs, proc[p] \in {"checking", "reading"}, Claimed, ExitProc(p),
           UNCHANGED <<pidfile, socket, signalled, query, wanted, overlapped, tornMet>>
    PROVE  DmInv'
<1>0. DmTypes /\ PortHeld /\ FileWritten /\ SomeSecure /\ FailingNamed /\ Exclusive
  BY DEF DmInv
<1>1. /\ proc' \in [Procs -> ProcPlaces]
      /\ \A q \in Procs : proc'[q] = IF q = p THEN "dead" ELSE proc[q]
      /\ listener' \in [Procs -> {"none", "spawned", "bound"}]
      /\ \A q \in Procs : listener'[q] = IF q = p THEN "none" ELSE listener[q]
      /\ port' = IF port = p THEN "free" ELSE port
  BY <1>0, ProcExits
<1>2. DmTypes'
  BY <1>0, <1>1, DaemonAssumption DEF DmTypes, ProcPlaces, NoFile
<1>3. PortHeld'
  BY <1>0, <1>1, DaemonAssumption DEF DmTypes, PortHeld, ProcPlaces
<1>4. FileWritten'
  BY <1>0, <1>1, DaemonAssumption DEF DmTypes, FileWritten, ProcPlaces, NoFile, Stale, Claimed, Alive
<1>5. SomeSecure'
  BY <1>0, <1>1, DaemonAssumption DEF DmTypes, SomeSecure, Secure, FileWritten, FailingNamed, PortHeld, NoFile, Torn,
     Alive, Stale, Claimed, ProcPlaces
<1>6. FailingNamed'
  BY <1>0, <1>1, DaemonAssumption DEF DmTypes, FailingNamed, FileWritten, PortHeld, NoFile, Alive, Claimed, Stale,
     ProcPlaces
<1>7. Exclusive'
  BY <1>0, <1>1, DaemonAssumption DEF DmTypes, Exclusive, FileWritten, PortHeld, Starting, Serving, Alive, NoFile,
     Stale, Claimed, ProcPlaces
<1> QED BY <1>2, <1>3, <1>4, <1>5, <1>6, <1>7 DEF DmInv

LEMMA ClearKeeps ==
    ASSUME DmInv, NEW p \in Procs, Clear(p)
    PROVE  DmInv'
<1>0. DmTypes /\ PortHeld /\ FileWritten /\ SomeSecure /\ FailingNamed /\ Exclusive
  BY DEF DmInv
<1>1. proc[p] = "clearing" /\ pidfile' = NoFile
      /\ UNCHANGED <<socket, port, listener, signalled, query, wanted, overlapped, tornMet>>
  BY DEF Clear, RemovePid
<1>2. /\ proc' \in [Procs -> ProcPlaces]
      /\ \A q \in Procs : proc'[q] = IF q = p THEN "creating" ELSE proc[q]
  BY <1>0, ProcMoves DEF Clear, RemovePid, ProcPlaces
<1>3. DmTypes'
  BY <1>0, <1>1, <1>2, DaemonAssumption DEF DmTypes, ProcPlaces, NoFile
<1>4. PortHeld'
  BY <1>0, <1>1, <1>2, DaemonAssumption DEF DmTypes, PortHeld, ProcPlaces
<1>5. FileWritten'
  BY <1>0, <1>1, <1>2, DaemonAssumption DEF DmTypes, FileWritten, ProcPlaces, NoFile, Stale, Claimed, Alive
<1>6. SomeSecure'
  BY <1>0, <1>1, <1>2, DaemonAssumption DEF DmTypes, SomeSecure, Secure, FileWritten, FailingNamed, PortHeld, NoFile,
     Torn, Alive, Stale, Claimed, ProcPlaces
<1>7. FailingNamed'
  BY <1>0, <1>1, <1>2, DaemonAssumption DEF DmTypes, FailingNamed, FileWritten, PortHeld, NoFile, Alive, Claimed,
     Stale, ProcPlaces
<1>8. Exclusive'
  BY <1>0, <1>1, <1>2, DaemonAssumption DEF DmTypes, Exclusive, FileWritten, PortHeld, Starting, Serving, Alive,
     NoFile, Stale, Claimed, ProcPlaces
<1> QED BY <1>3, <1>4, <1>5, <1>6, <1>7, <1>8 DEF DmInv

LEMMA UnlinkKeeps ==
    ASSUME DmInv, NEW p \in Procs, Unlink(p)
    PROVE  DmInv'
<1>0. DmTypes /\ PortHeld /\ FileWritten /\ SomeSecure /\ FailingNamed /\ Exclusive
  BY DEF DmInv
<1>1. proc[p] = "removing" /\ pidfile' = NoFile
      /\ UNCHANGED <<socket, port, listener, signalled, query, wanted, overlapped, tornMet>>
  BY DEF Unlink, RemovePid
<1>2. /\ proc' \in [Procs -> ProcPlaces]
      /\ \A q \in Procs : proc'[q] = IF q = p THEN "recreating" ELSE proc[q]
  BY <1>0, ProcMoves DEF Unlink, RemovePid, ProcPlaces
<1>3. DmTypes'
  BY <1>0, <1>1, <1>2, DaemonAssumption DEF DmTypes, ProcPlaces, NoFile
<1>4. PortHeld'
  BY <1>0, <1>1, <1>2, DaemonAssumption DEF DmTypes, PortHeld, ProcPlaces
<1>5. FileWritten'
  BY <1>0, <1>1, <1>2, DaemonAssumption DEF DmTypes, FileWritten, ProcPlaces, NoFile, Stale, Claimed, Alive
<1>6. SomeSecure'
  BY <1>0, <1>1, <1>2, DaemonAssumption DEF DmTypes, SomeSecure, Secure, FileWritten, FailingNamed, PortHeld, NoFile,
     Torn, Alive, Stale, Claimed, ProcPlaces
<1>7. FailingNamed'
  BY <1>0, <1>1, <1>2, DaemonAssumption DEF DmTypes, FailingNamed, FileWritten, PortHeld, NoFile, Alive, Claimed,
     Stale, ProcPlaces
<1>8. Exclusive'
  BY <1>0, <1>1, <1>2, DaemonAssumption DEF DmTypes, Exclusive, FileWritten, PortHeld, Starting, Serving, Alive,
     NoFile, Stale, Claimed, ProcPlaces
<1> QED BY <1>3, <1>4, <1>5, <1>6, <1>7, <1>8 DEF DmInv

LEMMA NewFileKeeps ==
    ASSUME DmInv, NEW p \in Procs, proc[p] \in {"creating", "recreating"}, NewFile(p),
           UNCHANGED <<socket, signalled, query, wanted, overlapped>>
    PROVE  DmInv'
<1>0. DmTypes /\ PortHeld /\ FileWritten /\ SomeSecure /\ FailingNamed /\ Exclusive
  BY DEF DmInv
<1>1. pidfile' = [by |-> p, pid |-> "empty"] /\ pidfile = NoFile /\ tornMet' = FALSE /\ UNCHANGED <<listener, port>>
  BY DEF NewFile
<1>2. /\ proc' \in [Procs -> ProcPlaces]
      /\ \A q \in Procs : proc'[q] = IF q = p THEN "writing" ELSE proc[q]
  BY <1>0, ProcMoves DEF NewFile, ProcPlaces
<1>3. DmTypes'
  BY <1>0, <1>1, <1>2, DaemonAssumption DEF DmTypes, ProcPlaces, NoFile
<1>4. PortHeld'
  BY <1>0, <1>1, <1>2, DaemonAssumption DEF DmTypes, PortHeld, ProcPlaces
<1>5. FileWritten'
  BY <1>0, <1>1, <1>2, DaemonAssumption DEF DmTypes, FileWritten, ProcPlaces, NoFile, Stale, Claimed, Alive
<1>6. SomeSecure'
  BY <1>0, <1>1, <1>2, DaemonAssumption DEF DmTypes, SomeSecure, Secure, FileWritten, FailingNamed, PortHeld, NoFile,
     Torn, Alive, Stale, Claimed, ProcPlaces
<1>7. FailingNamed'
  BY <1>0, <1>1, <1>2, DaemonAssumption DEF DmTypes, FailingNamed, FileWritten, PortHeld, NoFile, Alive, Claimed,
     Stale, ProcPlaces
<1>8. Exclusive'
  <2> SUFFICES ASSUME ~overlapped, NEW q \in Procs
               PROVE  /\ Starting(q)' =>
                            query = "none" /\ (\A o \in Procs : Starting(o)' => o = q) /\ q \notin signalled
                      /\ proc'[q] = "writing" => pidfile' = [by |-> q, pid |-> "empty"]
                      /\ proc'[q] \in {"listening", "binding"} => pidfile'.pid = q
                      /\ Serving(q)' /\ q \notin signalled =>
                            pidfile'.pid = q /\ query = "none" /\ (\A o \in Procs : ~Starting(o)')
                      /\ proc'[q] \in {"binding", "serving"} /\ q \notin signalled /\ listener[q] = "bound" =>
                            socket = q
    BY <1>1 DEF Exclusive
  <2>1. Starting(p) /\ (\A o \in Procs : Starting(o)' <=> Starting(o))
    BY <1>2 DEF Starting, Serving, Alive
  <2>2. /\ query = "none" /\ p \notin signalled
        /\ \A o \in Procs : (Starting(o) => o = p) /\ (Serving(o) => o \in signalled)
    BY <1>0, <2>1 DEF Exclusive
  <2>3. CASE q = p
    BY <1>1, <1>2, <2>1, <2>2, <2>3 DEF Serving
  <2>4. CASE q # p
    <3>1. proc'[q] = proc[q] /\ ~Starting(q)
      BY <1>2, <2>2, <2>4
    <3>2. proc[q] \in {"unborn", "dead", "serving"}
      BY <3>1 DEF Starting, Serving, Alive
    <3> QED BY <2>1, <2>2, <3>1, <3>2 DEF Serving
  <2> QED BY <2>3, <2>4
<1> QED BY <1>3, <1>4, <1>5, <1>6, <1>7, <1>8 DEF DmInv

LEMMA RecreateGivesUp ==
    ASSUME DmInv, NEW p \in Procs, proc[p] = "recreating", pidfile # NoFile, ExitProc(p),
           tornMet' = (tornMet \/ Torn),
           UNCHANGED <<pidfile, socket, signalled, query, wanted, overlapped>>
    PROVE  DmInv'
<1>0. DmTypes /\ PortHeld /\ FileWritten /\ SomeSecure /\ FailingNamed /\ Exclusive
  BY DEF DmInv
<1>1. tornMet' \in BOOLEAN /\ (tornMet' <=> tornMet \/ Torn)
  BY <1>0 DEF DmTypes
<1>2. /\ proc' \in [Procs -> ProcPlaces]
      /\ \A q \in Procs : proc'[q] = IF q = p THEN "dead" ELSE proc[q]
      /\ listener' \in [Procs -> {"none", "spawned", "bound"}]
      /\ \A q \in Procs : listener'[q] = IF q = p THEN "none" ELSE listener[q]
      /\ port' = IF port = p THEN "free" ELSE port
  BY <1>0, ProcExits
<1>3. DmTypes'
  BY <1>0, <1>1, <1>2, DaemonAssumption DEF DmTypes, ProcPlaces, NoFile
<1>4. PortHeld'
  BY <1>0, <1>1, <1>2, DaemonAssumption DEF DmTypes, PortHeld, ProcPlaces
<1>5. FileWritten'
  BY <1>0, <1>1, <1>2, DaemonAssumption DEF DmTypes, FileWritten, ProcPlaces, NoFile, Stale, Claimed, Alive
<1>6. SomeSecure'
  BY <1>0, <1>1, <1>2, DaemonAssumption DEF DmTypes, SomeSecure, Secure, FileWritten, FailingNamed, PortHeld, NoFile,
     Torn, Alive, Stale, Claimed, ProcPlaces
<1>7. FailingNamed'
  BY <1>0, <1>1, <1>2, DaemonAssumption DEF DmTypes, FailingNamed, FileWritten, PortHeld, NoFile, Alive, Claimed,
     Stale, ProcPlaces
<1>8. Exclusive'
  BY <1>0, <1>1, <1>2, DaemonAssumption DEF DmTypes, Exclusive, FileWritten, PortHeld, Starting, Serving, Alive,
     NoFile, Stale, Claimed, ProcPlaces
<1> QED BY <1>3, <1>4, <1>5, <1>6, <1>7, <1>8 DEF DmInv

LEMMA WritePidKeeps ==
    ASSUME DmInv, NEW p \in Procs, WritePid(p)
    PROVE  DmInv'
<1>0. DmTypes /\ PortHeld /\ FileWritten /\ SomeSecure /\ FailingNamed /\ Exclusive
  BY DEF DmInv
<1>1. proc[p] = "writing" /\ UNCHANGED <<socket, port, listener, signalled, query, wanted, overlapped, tornMet>>
  BY DEF WritePid
<1>2. pidfile' = IF pidfile.by = p THEN [by |-> p, pid |-> p] ELSE pidfile
  BY <1>0 DEF WritePid, DmTypes
<1>3. /\ proc' \in [Procs -> ProcPlaces]
      /\ \A q \in Procs : proc'[q] = IF q = p THEN "listening" ELSE proc[q]
  BY <1>0, ProcMoves DEF WritePid, ProcPlaces
<1>4. DmTypes'
  BY <1>0, <1>1, <1>2, <1>3, DaemonAssumption DEF DmTypes, ProcPlaces, NoFile
<1>5. PortHeld'
  BY <1>0, <1>1, <1>2, <1>3, DaemonAssumption DEF DmTypes, PortHeld, ProcPlaces
<1>6. FileWritten'
  BY <1>0, <1>1, <1>2, <1>3, DaemonAssumption DEF DmTypes, FileWritten, ProcPlaces, NoFile, Stale, Claimed, Alive
<1>7. SomeSecure'
  BY <1>0, <1>1, <1>2, <1>3, DaemonAssumption DEF DmTypes, SomeSecure, Secure, FileWritten, FailingNamed, PortHeld,
     NoFile, Torn, Alive, Stale, Claimed, ProcPlaces
<1>8. FailingNamed'
  BY <1>0, <1>1, <1>2, <1>3, DaemonAssumption DEF DmTypes, FailingNamed, FileWritten, PortHeld, NoFile, Alive,
     Claimed, Stale, ProcPlaces
<1>9. Exclusive'
  BY <1>0, <1>1, <1>2, <1>3, DaemonAssumption DEF DmTypes, Exclusive, FileWritten, PortHeld, Starting, Serving,
     Alive, NoFile, Stale, Claimed, ProcPlaces
<1> QED BY <1>4, <1>5, <1>6, <1>7, <1>8, <1>9 DEF DmInv

LEMMA ListenKeeps ==
    ASSUME DmInv, NEW p \in Procs, spawn_rin_listener(p)
    PROVE  DmInv'
<1>0. DmTypes /\ PortHeld /\ FileWritten /\ SomeSecure /\ FailingNamed /\ Exclusive
  BY DEF DmInv
<1>1. proc[p] = "listening" /\ socket' = "absent"
      /\ UNCHANGED <<pidfile, port, signalled, query, wanted, overlapped, tornMet>>
  BY DEF spawn_rin_listener
<1>2. /\ listener' \in [Procs -> {"none", "spawned", "bound"}]
      /\ \A q \in Procs : listener'[q] = IF q = p THEN "spawned" ELSE listener[q]
  BY <1>0 DEF spawn_rin_listener, DmTypes
<1>3. /\ proc' \in [Procs -> ProcPlaces]
      /\ \A q \in Procs : proc'[q] = IF q = p THEN "binding" ELSE proc[q]
  BY <1>0, ProcMoves DEF spawn_rin_listener, ProcPlaces
<1>4. DmTypes'
  BY <1>0, <1>1, <1>2, <1>3, DaemonAssumption DEF DmTypes, ProcPlaces, NoFile
<1>5. PortHeld'
  BY <1>0, <1>1, <1>2, <1>3, DaemonAssumption DEF DmTypes, PortHeld, ProcPlaces
<1>6. FileWritten'
  BY <1>0, <1>1, <1>2, <1>3, DaemonAssumption DEF DmTypes, FileWritten, ProcPlaces, NoFile, Stale, Claimed, Alive
<1>7. SomeSecure'
  BY <1>0, <1>1, <1>2, <1>3, DaemonAssumption DEF DmTypes, SomeSecure, Secure, FileWritten, FailingNamed, PortHeld,
     NoFile, Torn, Alive, Stale, Claimed, ProcPlaces
<1>8. FailingNamed'
  BY <1>0, <1>1, <1>2, <1>3, DaemonAssumption DEF DmTypes, FailingNamed, FileWritten, PortHeld, NoFile, Alive,
     Claimed, Stale, ProcPlaces
<1>9. Exclusive'
  BY <1>0, <1>1, <1>2, <1>3, DaemonAssumption DEF DmTypes, Exclusive, FileWritten, PortHeld, Starting, Serving,
     Alive, NoFile, Stale, Claimed, ProcPlaces
<1> QED BY <1>4, <1>5, <1>6, <1>7, <1>8, <1>9 DEF DmInv

LEMMA BindSocketKeeps ==
    ASSUME DmInv, NEW p \in Procs, BindSocket(p)
    PROVE  DmInv'
<1>0. DmTypes /\ PortHeld /\ FileWritten /\ SomeSecure /\ FailingNamed /\ Exclusive
  BY DEF DmInv
<1>1. listener[p] = "spawned" /\ UNCHANGED <<pidfile, port, proc, signalled, query, wanted, overlapped, tornMet>>
  BY DEF BindSocket
<1>2. socket' = IF socket = "absent" THEN p ELSE socket
  BY <1>0 DEF BindSocket, DmTypes
<1>3. /\ listener' \in [Procs -> {"none", "spawned", "bound"}]
      /\ \A q \in Procs : listener'[q] = IF q = p THEN IF socket = "absent" THEN "bound" ELSE "none" ELSE listener[q]
  BY <1>0 DEF BindSocket, DmTypes
<1>4. DmTypes'
  BY <1>0, <1>1, <1>2, <1>3, DaemonAssumption DEF DmTypes, ProcPlaces, NoFile
<1>5. PortHeld'
  BY <1>0, <1>1, <1>2, <1>3, DaemonAssumption DEF DmTypes, PortHeld, ProcPlaces
<1>6. FileWritten'
  BY <1>0, <1>1, <1>2, <1>3, DaemonAssumption DEF DmTypes, FileWritten, ProcPlaces, NoFile, Stale, Claimed, Alive
<1>7. SomeSecure'
  BY <1>0, <1>1, <1>2, <1>3, DaemonAssumption DEF DmTypes, SomeSecure, Secure, FileWritten, FailingNamed, PortHeld,
     NoFile, Torn, Alive, Stale, Claimed, ProcPlaces
<1>8. FailingNamed'
  BY <1>0, <1>1, <1>2, <1>3, DaemonAssumption DEF DmTypes, FailingNamed, FileWritten, PortHeld, NoFile, Alive,
     Claimed, Stale, ProcPlaces
<1>9. Exclusive'
  BY <1>0, <1>1, <1>2, <1>3, DaemonAssumption DEF DmTypes, Exclusive, FileWritten, PortHeld, Starting, Serving,
     Alive, NoFile, Stale, Claimed, ProcPlaces
<1> QED BY <1>4, <1>5, <1>6, <1>7, <1>8, <1>9 DEF DmInv

LEMMA BindPortServes ==
    ASSUME DmInv, NEW p \in Procs, proc[p] = "binding", port = "free", port' = p, Goto(p, "serving"),
           UNCHANGED <<pidfile, socket, listener, signalled, query, wanted, overlapped, tornMet>>
    PROVE  DmInv'
<1>0. DmTypes /\ PortHeld /\ FileWritten /\ SomeSecure /\ FailingNamed /\ Exclusive
  BY DEF DmInv
<1>1. /\ proc' \in [Procs -> ProcPlaces]
      /\ \A q \in Procs : proc'[q] = IF q = p THEN "serving" ELSE proc[q]
  BY <1>0, ProcMoves DEF ProcPlaces
<1>2. DmTypes'
  BY <1>0, <1>1, DaemonAssumption DEF DmTypes, ProcPlaces, NoFile
<1>3. PortHeld'
  BY <1>0, <1>1, DaemonAssumption DEF DmTypes, PortHeld, ProcPlaces
<1>4. FileWritten'
  BY <1>0, <1>1, DaemonAssumption DEF DmTypes, FileWritten, ProcPlaces, NoFile, Stale, Claimed, Alive
<1>5. SomeSecure'
  BY <1>0, <1>1, DaemonAssumption DEF DmTypes, SomeSecure, Secure, FileWritten, FailingNamed, PortHeld, NoFile, Torn,
     Alive, Stale, Claimed, ProcPlaces
<1>6. FailingNamed'
  BY <1>0, <1>1, DaemonAssumption DEF DmTypes, FailingNamed, FileWritten, PortHeld, NoFile, Alive, Claimed, Stale,
     ProcPlaces
<1>7. Exclusive'
  BY <1>0, <1>1, DaemonAssumption DEF DmTypes, Exclusive, FileWritten, PortHeld, Starting, Serving, Alive, NoFile,
     Stale, Claimed, ProcPlaces
<1> QED BY <1>2, <1>3, <1>4, <1>5, <1>6, <1>7 DEF DmInv

LEMMA BindPortFails ==
    ASSUME DmInv, NEW p \in Procs, proc[p] = "binding", port # "free", Goto(p, "failing"),
           UNCHANGED <<pidfile, socket, port, listener, signalled, query, wanted, overlapped, tornMet>>
    PROVE  DmInv'
<1>0. DmTypes /\ PortHeld /\ FileWritten /\ SomeSecure /\ FailingNamed /\ Exclusive
  BY DEF DmInv
<1>1. /\ proc' \in [Procs -> ProcPlaces]
      /\ \A q \in Procs : proc'[q] = IF q = p THEN "failing" ELSE proc[q]
  BY <1>0, ProcMoves DEF ProcPlaces
<1>2. DmTypes'
  BY <1>0, <1>1, DaemonAssumption DEF DmTypes, ProcPlaces, NoFile
<1>3. PortHeld'
  BY <1>0, <1>1, DaemonAssumption DEF DmTypes, PortHeld, ProcPlaces
<1>4. FileWritten'
  BY <1>0, <1>1, DaemonAssumption DEF DmTypes, FileWritten, ProcPlaces, NoFile, Stale, Claimed, Alive
<1>5. SomeSecure'
  BY <1>0, <1>1, DaemonAssumption DEF DmTypes, SomeSecure, Secure, FileWritten, FailingNamed, PortHeld, NoFile, Torn,
     Alive, Stale, Claimed, ProcPlaces
<1>6. FailingNamed'
  BY <1>0, <1>1, DaemonAssumption DEF DmTypes, FailingNamed, FileWritten, PortHeld, NoFile, Alive, Claimed, Stale,
     ProcPlaces
<1>7. Exclusive'
  BY <1>0, <1>1, DaemonAssumption DEF DmTypes, Exclusive, FileWritten, PortHeld, Starting, Serving, Alive, NoFile,
     Stale, Claimed, ProcPlaces
<1> QED BY <1>2, <1>3, <1>4, <1>5, <1>6, <1>7 DEF DmInv

LEMMA RemoveSocketKeeps ==
    ASSUME DmInv, NEW p \in Procs, RemoveSocket(p)
    PROVE  DmInv'
<1>0. DmTypes /\ PortHeld /\ FileWritten /\ SomeSecure /\ FailingNamed /\ Exclusive
  BY DEF DmInv
<1>1. proc[p] = "failing" /\ socket' = "absent"
      /\ UNCHANGED <<pidfile, port, listener, signalled, query, wanted, overlapped, tornMet>>
  BY DEF RemoveSocket
<1>2. /\ proc' \in [Procs -> ProcPlaces]
      /\ \A q \in Procs : proc'[q] = IF q = p THEN "leaving" ELSE proc[q]
  BY <1>0, ProcMoves DEF RemoveSocket, ProcPlaces
<1>3. DmTypes'
  BY <1>0, <1>1, <1>2, DaemonAssumption DEF DmTypes, ProcPlaces, NoFile
<1>4. PortHeld'
  BY <1>0, <1>1, <1>2, DaemonAssumption DEF DmTypes, PortHeld, ProcPlaces
<1>5. FileWritten'
  BY <1>0, <1>1, <1>2, DaemonAssumption DEF DmTypes, FileWritten, ProcPlaces, NoFile, Stale, Claimed, Alive
<1>6. SomeSecure'
  BY <1>0, <1>1, <1>2, DaemonAssumption DEF DmTypes, SomeSecure, Secure, FileWritten, FailingNamed, PortHeld, NoFile,
     Torn, Alive, Stale, Claimed, ProcPlaces
<1>7. FailingNamed'
  BY <1>0, <1>1, <1>2, DaemonAssumption DEF DmTypes, FailingNamed, FileWritten, PortHeld, NoFile, Alive, Claimed,
     Stale, ProcPlaces
<1>8. Exclusive'
  BY <1>0, <1>1, <1>2, DaemonAssumption DEF DmTypes, Exclusive, FileWritten, PortHeld, Starting, Serving, Alive,
     NoFile, Stale, Claimed, ProcPlaces
<1> QED BY <1>3, <1>4, <1>5, <1>6, <1>7, <1>8 DEF DmInv

LEMMA LeaveKeeps ==
    ASSUME DmInv, NEW p \in Procs, Leave(p)
    PROVE  DmInv'
<1>0. DmTypes /\ PortHeld /\ FileWritten /\ SomeSecure /\ FailingNamed /\ Exclusive
  BY DEF DmInv
<1>1. proc[p] = "leaving" /\ pidfile' = NoFile /\ UNCHANGED <<socket, signalled, query, wanted, overlapped, tornMet>>
  BY DEF Leave
<1>2. /\ proc' \in [Procs -> ProcPlaces]
      /\ \A q \in Procs : proc'[q] = IF q = p THEN "dead" ELSE proc[q]
      /\ listener' \in [Procs -> {"none", "spawned", "bound"}]
      /\ \A q \in Procs : listener'[q] = IF q = p THEN "none" ELSE listener[q]
      /\ port' = IF port = p THEN "free" ELSE port
  BY <1>0, ProcExits DEF Leave
<1>3. DmTypes'
  BY <1>0, <1>1, <1>2, DaemonAssumption DEF DmTypes, ProcPlaces, NoFile
<1>4. PortHeld'
  BY <1>0, <1>1, <1>2, DaemonAssumption DEF DmTypes, PortHeld, ProcPlaces
<1>5. FileWritten'
  BY <1>0, <1>1, <1>2, DaemonAssumption DEF DmTypes, FileWritten, ProcPlaces, NoFile, Stale, Claimed, Alive
<1>6. SomeSecure'
  BY <1>0, <1>1, <1>2, DaemonAssumption DEF DmTypes, SomeSecure, Secure, FileWritten, FailingNamed, PortHeld, NoFile,
     Torn, Alive, Stale, Claimed, ProcPlaces
<1>7. FailingNamed'
  BY <1>0, <1>1, <1>2, DaemonAssumption DEF DmTypes, FailingNamed, FileWritten, PortHeld, NoFile, Alive, Claimed,
     Stale, ProcPlaces
<1>8. Exclusive'
  BY <1>0, <1>1, <1>2, DaemonAssumption DEF DmTypes, Exclusive, FileWritten, PortHeld, Starting, Serving, Alive,
     NoFile, Stale, Claimed, ProcPlaces
<1> QED BY <1>3, <1>4, <1>5, <1>6, <1>7, <1>8 DEF DmInv

LEMMA ShutdownKeeps ==
    ASSUME DmInv, NEW p \in Procs, Shutdown(p)
    PROVE  DmInv'
<1>0. DmTypes /\ PortHeld /\ FileWritten /\ SomeSecure /\ FailingNamed /\ Exclusive
  BY DEF DmInv
<1>1. proc[p] = "serving" /\ pidfile' = NoFile /\ wanted' = FALSE /\ UNCHANGED <<socket, signalled, query, tornMet>>
  BY DEF Shutdown, Serving
<1>2. /\ overlapped' \in BOOLEAN
      /\ ~overlapped' => ~overlapped /\ query = "none" /\ \A q \in Procs \ {p} : ~Starting(q)
  BY Overlaps DEF Shutdown
<1>3. /\ proc' \in [Procs -> ProcPlaces]
      /\ \A q \in Procs : proc'[q] = IF q = p THEN "dead" ELSE proc[q]
      /\ listener' \in [Procs -> {"none", "spawned", "bound"}]
      /\ \A q \in Procs : listener'[q] = IF q = p THEN "none" ELSE listener[q]
      /\ port' = IF port = p THEN "free" ELSE port
  BY <1>0, ProcExits DEF Shutdown
<1>4. DmTypes'
  BY <1>0, <1>1, <1>2, <1>3, DaemonAssumption DEF DmTypes, ProcPlaces, NoFile
<1>5. PortHeld'
  BY <1>0, <1>1, <1>2, <1>3, DaemonAssumption DEF DmTypes, PortHeld, ProcPlaces
<1>6. FileWritten'
  BY <1>0, <1>1, <1>2, <1>3, DaemonAssumption DEF DmTypes, FileWritten, ProcPlaces, NoFile, Stale, Claimed, Alive
<1>7. SomeSecure'
  BY <1>0, <1>1, <1>2, <1>3, DaemonAssumption DEF DmTypes, SomeSecure, Secure, FileWritten, FailingNamed, PortHeld,
     NoFile, Torn, Alive, Stale, Claimed, ProcPlaces
<1>8. FailingNamed'
  BY <1>0, <1>1, <1>2, <1>3, DaemonAssumption DEF DmTypes, FailingNamed, FileWritten, PortHeld, NoFile, Alive,
     Claimed, Stale, ProcPlaces
<1>9. Exclusive'
  BY <1>0, <1>1, <1>2, <1>3, DaemonAssumption DEF DmTypes, Exclusive, FileWritten, PortHeld, Starting, Serving,
     Alive, NoFile, Stale, Claimed, ProcPlaces
<1> QED BY <1>4, <1>5, <1>6, <1>7, <1>8, <1>9 DEF DmInv

LEMMA DiesKeeps ==
    ASSUME DmInv, NEW p \in Procs, Dies(p)
    PROVE  DmInv'
<1>0. DmTypes /\ PortHeld /\ FileWritten /\ SomeSecure /\ FailingNamed /\ Exclusive
  BY DEF DmInv
<1>1. Alive(p) /\ wanted' = FALSE /\ UNCHANGED <<pidfile, socket, signalled, query, overlapped, tornMet>>
  BY DEF Dies
<1>2. /\ proc' \in [Procs -> ProcPlaces]
      /\ \A q \in Procs : proc'[q] = IF q = p THEN "dead" ELSE proc[q]
      /\ listener' \in [Procs -> {"none", "spawned", "bound"}]
      /\ \A q \in Procs : listener'[q] = IF q = p THEN "none" ELSE listener[q]
      /\ port' = IF port = p THEN "free" ELSE port
  BY <1>0, ProcExits DEF Dies
<1>3. DmTypes'
  BY <1>0, <1>1, <1>2, DaemonAssumption DEF DmTypes, ProcPlaces, NoFile
<1>4. PortHeld'
  BY <1>0, <1>1, <1>2, DaemonAssumption DEF DmTypes, PortHeld, ProcPlaces
<1>5. FileWritten'
  BY <1>0, <1>1, <1>2, DaemonAssumption DEF DmTypes, FileWritten, ProcPlaces, NoFile, Stale, Claimed, Alive
<1>6. SomeSecure'
  BY <1>0, <1>1, <1>2, DaemonAssumption DEF DmTypes, SomeSecure, Secure, FileWritten, FailingNamed, PortHeld, NoFile,
     Torn, Alive, Stale, Claimed, ProcPlaces
<1>7. FailingNamed'
  BY <1>0, <1>1, <1>2, DaemonAssumption DEF DmTypes, FailingNamed, FileWritten, PortHeld, NoFile, Alive, Claimed,
     Stale, ProcPlaces
<1>8. Exclusive'
  BY <1>0, <1>1, <1>2, DaemonAssumption DEF DmTypes, Exclusive, FileWritten, PortHeld, Starting, Serving, Alive,
     NoFile, Stale, Claimed, ProcPlaces
<1> QED BY <1>3, <1>4, <1>5, <1>6, <1>7, <1>8 DEF DmInv

LEMMA StopKeeps ==
    ASSUME DmInv, stop_running_instance
    PROVE  DmInv'
<1>0. DmTypes /\ PortHeld /\ FileWritten /\ SomeSecure /\ FailingNamed /\ Exclusive
  BY DEF DmInv
<1>1. pidfile.pid \in Procs /\ query = "none" /\ query' = "stopping" /\ wanted' = FALSE
      /\ UNCHANGED <<pidfile, socket, port, proc, listener, tornMet>>
  BY DEF stop_running_instance
<1>2. signalled' = signalled \cup {q \in {pidfile.pid} : Alive(q)}
  BY DEF stop_running_instance, Stopped
<1>3. overlapped' \in BOOLEAN /\ (~overlapped' => ~overlapped /\ \A q \in Procs : ~Starting(q))
  BY DEF stop_running_instance
<1>4. DmTypes'
  BY <1>0, <1>1, <1>2, <1>3, DaemonAssumption DEF DmTypes, ProcPlaces, NoFile, Alive
<1>5. PortHeld'
  BY <1>0, <1>1, <1>2, <1>3, DaemonAssumption DEF DmTypes, PortHeld, ProcPlaces
<1>6. FileWritten'
  BY <1>0, <1>1, <1>2, <1>3, DaemonAssumption DEF DmTypes, FileWritten, ProcPlaces, NoFile, Stale, Claimed, Alive
<1>7. SomeSecure'
  BY <1>0, <1>1, <1>2, <1>3, DaemonAssumption DEF DmTypes, SomeSecure, Secure, FileWritten, FailingNamed, PortHeld,
     NoFile, Torn, Alive, Stale, Claimed, ProcPlaces
<1>8. FailingNamed'
  BY <1>0, <1>1, <1>2, <1>3, DaemonAssumption DEF DmTypes, FailingNamed, FileWritten, PortHeld, NoFile, Alive,
     Claimed, Stale, ProcPlaces
<1>9. Exclusive'
  BY <1>0, <1>1, <1>2, <1>3, DaemonAssumption DEF DmTypes, Exclusive, FileWritten, PortHeld, Starting, Serving,
     Alive, NoFile, Stale, Claimed, ProcPlaces
<1> QED BY <1>4, <1>5, <1>6, <1>7, <1>8, <1>9 DEF DmInv

LEMMA StatusKeeps ==
    ASSUME DmInv, gateway_status
    PROVE  DmInv'
<1>0. DmTypes /\ PortHeld /\ FileWritten /\ SomeSecure /\ FailingNamed /\ Exclusive
  BY DEF DmInv
<1>1. query = "none" /\ UNCHANGED <<pidfile, socket, port, proc, listener, signalled, wanted, tornMet>>
  BY DEF gateway_status
<1>2. query' = IF Stale THEN "stale" ELSE "none"
  BY DEF gateway_status
<1>3. overlapped' \in BOOLEAN /\ (~overlapped' => ~overlapped /\ (Stale => \A q \in Procs : ~Starting(q)))
  BY DEF gateway_status
<1>4. DmTypes'
  BY <1>0, <1>1, <1>2, <1>3, DaemonAssumption DEF DmTypes, ProcPlaces, NoFile
<1>5. PortHeld'
  BY <1>0, <1>1, <1>2, <1>3, DaemonAssumption DEF DmTypes, PortHeld, ProcPlaces
<1>6. FileWritten'
  BY <1>0, <1>1, <1>2, <1>3, DaemonAssumption DEF DmTypes, FileWritten, ProcPlaces, NoFile, Stale, Claimed, Alive
<1>7. SomeSecure'
  BY <1>0, <1>1, <1>2, <1>3, DaemonAssumption DEF DmTypes, SomeSecure, Secure, FileWritten, FailingNamed, PortHeld,
     NoFile, Torn, Alive, Stale, Claimed, ProcPlaces
<1>8. FailingNamed'
  BY <1>0, <1>1, <1>2, <1>3, DaemonAssumption DEF DmTypes, FailingNamed, FileWritten, PortHeld, NoFile, Alive,
     Claimed, Stale, ProcPlaces
<1>9. Exclusive'
  BY <1>0, <1>1, <1>2, <1>3, DaemonAssumption DEF DmTypes, Exclusive, FileWritten, PortHeld, Starting, Serving,
     Alive, NoFile, Stale, Claimed, ProcPlaces
<1> QED BY <1>4, <1>5, <1>6, <1>7, <1>8, <1>9 DEF DmInv

LEMMA QueryKeeps ==
    ASSUME DmInv, QueryClears
    PROVE  DmInv'
<1>0. DmTypes /\ PortHeld /\ FileWritten /\ SomeSecure /\ FailingNamed /\ Exclusive
  BY DEF DmInv
<1>1. query # "none" /\ query' = "none" /\ pidfile' = NoFile
      /\ UNCHANGED <<socket, port, proc, listener, signalled, wanted, overlapped, tornMet>>
  BY DEF QueryClears
<1>2. DmTypes'
  BY <1>0, <1>1, DaemonAssumption DEF DmTypes, ProcPlaces, NoFile
<1>3. PortHeld'
  BY <1>0, <1>1, DaemonAssumption DEF DmTypes, PortHeld, ProcPlaces
<1>4. FileWritten'
  BY <1>0, <1>1, DaemonAssumption DEF DmTypes, FileWritten, ProcPlaces, NoFile, Stale, Claimed, Alive
<1>5. SomeSecure'
  BY <1>0, <1>1, DaemonAssumption DEF DmTypes, SomeSecure, Secure, FileWritten, FailingNamed, PortHeld, NoFile, Torn,
     Alive, Stale, Claimed, ProcPlaces
<1>6. FailingNamed'
  BY <1>0, <1>1, DaemonAssumption DEF DmTypes, FailingNamed, FileWritten, PortHeld, NoFile, Alive, Claimed, Stale,
     ProcPlaces
<1>7. Exclusive'
  BY <1>0, <1>1, DaemonAssumption DEF DmTypes, Exclusive, FileWritten, PortHeld, Starting, Serving, Alive, NoFile,
     Stale, Claimed, ProcPlaces
<1> QED BY <1>2, <1>3, <1>4, <1>5, <1>6, <1>7 DEF DmInv

LEMMA DmInitInv == ASSUME DaemonInit PROVE DmInv
<1>1. DmTypes
  BY DEF DaemonInit, DmTypes, ProcPlaces, NoFile
<1>2. PortHeld /\ FileWritten /\ FailingNamed
  BY DaemonAssumption DEF DaemonInit, PortHeld, FileWritten, FailingNamed, NoFile
<1>3. SomeSecure
  BY DEF DaemonInit, SomeSecure
<1>4. Exclusive
  BY DEF DaemonInit, Exclusive, Starting, Serving, Alive
<1> QED BY <1>1, <1>2, <1>3, <1>4 DEF DmInv

LEMMA DmStepInv == ASSUME DmInv, DaemonNext PROVE DmInv'
<1>1. ASSUME NEW p \in Procs, is_daemon_running(p) \/ IfTaken(p) PROVE DmInv'
  <2>1. CASE Claimed
    BY <1>1, <2>1, StartGivesUp DEF is_daemon_running, IfTaken
  <2>2. CASE ~Claimed /\ is_daemon_running(p)
    <3>1. PICK w \in {"clearing", "creating"} : Goto(p, w)
      BY <2>2 DEF is_daemon_running
    <3> QED BY <2>2, <3>1, StartGoesOn DEF is_daemon_running
  <2>3. CASE ~Claimed /\ IfTaken(p) /\ Stale
    BY <2>3, StartGoesOn DEF IfTaken
  <2>4. CASE ~Claimed /\ IfTaken(p) /\ ~Stale
    BY <2>4, TriesAgain DEF IfTaken
  <2> QED BY <1>1, <2>1, <2>2, <2>3, <2>4
<1>2. ASSUME NEW p \in Procs, Create(p) PROVE DmInv'
  <2>1. CASE NewFile(p)
    BY <1>2, <2>1, NewFileKeeps DEF Create
  <2>2. CASE pidfile # NoFile /\ Goto(p, "reading") /\ UNCHANGED <<pidfile, listener, port, tornMet>>
    BY <1>2, <2>2, StartGoesOn DEF Create
  <2> QED BY <1>2, <2>1, <2>2 DEF Create
<1>3. ASSUME NEW p \in Procs, Recreate(p) PROVE DmInv'
  <2>1. CASE NewFile(p)
    BY <1>3, <2>1, NewFileKeeps DEF Recreate
  <2>2. CASE pidfile # NoFile /\ ExitProc(p) /\ tornMet' = (tornMet \/ Torn) /\ UNCHANGED pidfile
    BY <1>3, <2>2, RecreateGivesUp DEF Recreate
  <2> QED BY <1>3, <2>1, <2>2 DEF Recreate
<1>4. ASSUME NEW p \in Procs, BindPort(p) PROVE DmInv'
  <2>1. CASE port = "free"
    BY <1>4, <2>1, BindPortServes DEF BindPort
  <2>2. CASE port # "free"
    BY <1>4, <2>2, BindPortFails DEF BindPort
  <2> QED BY <2>1, <2>2
<1>5. ASSUME NEW p \in Procs, DaemonStep(p) PROVE DmInv'
  BY <1>1, <1>2, <1>3, <1>4, <1>5, ClearKeeps, UnlinkKeeps, WritePidKeeps, ListenKeeps, BindSocketKeeps,
     RemoveSocketKeeps, LeaveKeeps DEF DaemonStep
<1> QED BY <1>5, SpawnKeeps, ShutdownKeeps, DiesKeeps, StopKeeps, StatusKeeps, QueryKeeps DEF DaemonNext

LEMMA DmInvSays == ASSUME DmInv PROVE DaemonTypeOK /\ StartServes /\ SocketKeptAlone
<1>1. DaemonTypeOK
  BY DEF DmInv, DmTypes, PortHeld, DaemonTypeOK, Serving
<1>2. StartServes
  BY DEF DmInv, SomeSecure, Secure, StartServes, Starting, Serving, Alive
<1>3. SocketKeptAlone
  BY DEF DmInv, Exclusive, SocketKeptAlone, Serving
<1> QED BY <1>1, <1>2, <1>3

-----------------------------------------------------------------------------
(* The store.  What an open still has to execute, and what of the schema   *)
(* is missing by then.                                                     *)

SchemaParts == {"base", "title", "workspaces", "workspace_id", "tool_events", "projects", "project_id"}
Whole(schema) == Needed \subseteq schema /\ "projects" \notin schema /\ "project_id" \notin schema

(* A database of version 1: each table and column under one of its names.  *)
Halfway(schema) ==
    /\ "base" \in schema /\ "title" \in schema
    /\ "projects" \in schema <=> "workspaces" \notin schema
    /\ "project_id" \in schema <=> "workspace_id" \notin schema

(* What is left of 002 and of 003 as their statements are executed.        *)
Alters(n) ==
    CASE n = 4 -> ALTERS_SQL
      [] n = 3 -> <<ALTERS_SQL[2], ALTERS_SQL[3], ALTERS_SQL[4]>>
      [] n = 2 -> <<ALTERS_SQL[3], ALTERS_SQL[4]>>
      [] n = 1 -> <<ALTERS_SQL[4]>>
      [] n = 0 -> <<>>
Renames(n) == CASE n = 2 -> RENAME_SQL [] n = 1 -> <<RENAME_SQL[2]>> [] n = 0 -> <<>>

LEMMA AltersLeft ==
    /\ Head(Alters(4)) = Statement({"tool_events"}, {}, {}) /\ Tail(Alters(4)) = Alters(3)
    /\ Head(Alters(3)) = Statement({}, {"title"}, {"title"}) /\ Tail(Alters(3)) = Alters(2)
    /\ Head(Alters(2)) = Statement({}, {}, {"workspaces"}) /\ Tail(Alters(2)) = Alters(1)
    /\ Head(Alters(1)) = Statement({}, {"workspace_id"}, {"workspace_id"}) /\ Tail(Alters(1)) = Alters(0)
    /\ ALTERS_SQL = Alters(4) /\ Alters(0) = <<>>
BY SMT DEF Alters, ALTERS_SQL

LEMMA AltersApart == \A m, n \in 0..4 : Alters(m) = Alters(n) => m = n
BY SMT DEF Alters, ALTERS_SQL

LEMMA RenamesLeft ==
    /\ Head(Renames(2)) = Statement({"projects"}, {"workspaces"}, {"workspaces"}) /\ Tail(Renames(2)) = Renames(1)
    /\ Head(Renames(1)) = Statement({"project_id"}, {"workspace_id"}, {"workspace_id"}) /\ Tail(Renames(1)) = Renames(0)
    /\ RENAME_SQL = Renames(2) /\ Renames(0) = <<>>
BY SMT DEF Renames, RENAME_SQL

LEMMA RenamesApart == \A m, n \in 0..2 : Renames(m) = Renames(n) => m = n
BY SMT DEF Renames, RENAME_SQL

Todos == {Alters(n) : n \in 0..4} \cup {Renames(n) : n \in 0..2}
OpeningRecords == [at : {"closed", "002", "003", "open"}, from : 0..1, todo : Todos, failures : Nat]

LEMMA TodosLeft == ALTERS_SQL \in Todos /\ RENAME_SQL \in Todos /\ <<>> \in Todos
<1>1. Alters(4) \in Todos /\ Alters(0) \in Todos /\ Renames(2) \in Todos
  BY DEF Todos
<1> QED BY <1>1, AltersLeft, RenamesLeft

StTypes ==
    /\ db \in [version : 0..2, schema : SUBSET SchemaParts]
    /\ opening \in OpeningRecords
    /\ denied \in BOOLEAN /\ halfSealed \in BOOLEAN

(* What a version promises.                                                *)
Versions ==
    /\ db.version = 0 => "projects" \notin db.schema /\ "project_id" \notin db.schema
    /\ db.version = 1 => Halfway(db.schema)
    /\ db.version = 2 /\ ~halfSealed => Whole(db.schema)

(* How far a start has come, and what it has by then.                      *)
In002(n) ==
    /\ opening.todo = Alters(n) /\ opening.from = 0 /\ db.version = 0 /\ "base" \in db.schema
    /\ opening.failures = 0 => ~denied
    /\ ~denied => /\ n <= 2 => "title" \in db.schema
                  /\ n <= 1 => "workspaces" \in db.schema
                  /\ n = 0 => "workspace_id" \in db.schema
In003(n) ==
    /\ opening.todo = Renames(n)
    /\ opening.from = 0 => /\ db.version \in {0, 1} /\ "projects" \notin db.schema /\ "project_id" \notin db.schema
                           /\ ~denied => Needed \subseteq db.schema
    /\ opening.from = 1 => /\ db.version = 1
                           /\ opening.failures = 0 => ~denied
                           /\ ~denied => /\ n <= 1 => "workspaces" \in db.schema
                                         /\ n = 0 => "workspace_id" \in db.schema
Opened ==
    /\ opening.at \in {"closed", "open"} => opening.todo = <<>>
    /\ opening.at = "002" => \E n \in 0..4 : In002(n)
    /\ opening.at = "003" => \E n \in 0..2 : In003(n)
    /\ opening.at = "open" /\ ~denied /\ ~halfSealed => Whole(db.schema)

StInv == StTypes /\ Versions /\ Opened

LEMMA StTypesHold ==
    ASSUME db' \in [version : 0..2, schema : SUBSET SchemaParts], opening' \in OpeningRecords,
           denied' \in BOOLEAN, halfSealed' \in BOOLEAN
    PROVE  StTypes'
BY DEF StTypes

LEMMA StInitInv == ASSUME StoreInit PROVE StInv
<1>1. StTypes
  <2>1. opening \in OpeningRecords
    <3>1. opening = [at |-> "closed", from |-> 0, todo |-> <<>>, failures |-> 0]
      BY DEF StoreInit, Closed
    <3> QED BY <3>1, TodosLeft DEF OpeningRecords
  <2>2. db \in [version : 0..2, schema : SUBSET SchemaParts]
    BY DEF StoreInit, SchemaParts
  <2>3. denied \in BOOLEAN /\ halfSealed \in BOOLEAN
    BY DEF StoreInit
  <2> QED BY <2>1, <2>2, <2>3 DEF StTypes
<1>2. Versions
  BY DEF StoreInit, Versions, Halfway
<1>3. Opened
  BY DEF StoreInit, Opened, Closed
<1> QED BY <1>1, <1>2, <1>3 DEF StInv

LEMMA OpenKeeps == ASSUME StInv, open PROVE StInv'
<1>0. StTypes /\ Versions /\ Opened /\ UNCHANGED halfSealed /\ denied' = FALSE
  BY DEF StInv, open
<1>1. CASE /\ db.version = 0 /\ db' = [db EXCEPT !.schema = @ \cup {"base"}]
           /\ opening' = [at |-> "002", from |-> 0, todo |-> ALTERS_SQL, failures |-> 0]
  <2>1. /\ db' \in [version : 0..2, schema : SUBSET SchemaParts]
        /\ db'.version = 0 /\ db'.schema = db.schema \cup {"base"}
    BY <1>0, <1>1 DEF StTypes, SchemaParts
  <2>2. StTypes'
    <3>1. opening' \in OpeningRecords
      BY <1>1, TodosLeft DEF OpeningRecords
    <3>2. denied' \in BOOLEAN /\ halfSealed' \in BOOLEAN
      BY <1>0 DEF StTypes
    <3> QED BY <2>1, <3>1, <3>2, StTypesHold
  <2>3. Versions'
    BY <1>0, <1>1, <2>1 DEF Versions
  <2>4. In002(4)'
    BY <1>0, <1>1, <2>1, AltersLeft DEF In002
  <2>5. Opened'
    BY <1>1, <2>4 DEF Opened
  <2> QED BY <2>2, <2>3, <2>5 DEF StInv
<1>2. CASE /\ db.version = 1 /\ UNCHANGED db
           /\ opening' = [at |-> "003", from |-> 1, todo |-> RENAME_SQL, failures |-> 0]
  <2>2. StTypes'
    <3>1. opening' \in OpeningRecords
      BY <1>2, TodosLeft DEF OpeningRecords
    <3>2. denied' \in BOOLEAN /\ halfSealed' \in BOOLEAN
      BY <1>0 DEF StTypes
    <3>3. db' \in [version : 0..2, schema : SUBSET SchemaParts]
      BY <1>0, <1>2 DEF StTypes
    <3> QED BY <3>1, <3>2, <3>3, StTypesHold
  <2>3. Versions'
    BY <1>0, <1>2 DEF Versions
  <2>4. In003(2)'
    BY <1>0, <1>2, RenamesLeft DEF In003
  <2>5. Opened'
    BY <1>2, <2>4 DEF Opened
  <2> QED BY <2>2, <2>3, <2>5 DEF StInv
<1>3. CASE db.version = 2 /\ UNCHANGED db /\ opening' = [Closed EXCEPT !.at = "open"]
  <2>1. opening' = [at |-> "open", from |-> 0, todo |-> <<>>, failures |-> 0]
    BY <1>3 DEF Closed
  <2>2. StTypes'
    <3>1. opening' \in OpeningRecords
      BY <2>1, TodosLeft DEF OpeningRecords
    <3>2. denied' \in BOOLEAN /\ halfSealed' \in BOOLEAN
      BY <1>0 DEF StTypes
    <3>3. db' \in [version : 0..2, schema : SUBSET SchemaParts]
      BY <1>0, <1>3 DEF StTypes
    <3> QED BY <3>1, <3>2, <3>3, StTypesHold
  <2>3. Versions'
    BY <1>0, <1>3 DEF Versions
  <2>5. Opened'
    BY <1>0, <1>3, <2>1 DEF Opened, Versions
  <2> QED BY <2>2, <2>3, <2>5 DEF StInv
<1> QED BY <1>1, <1>2, <1>3 DEF open

(* A statement is executed, and refused or not.                            *)
LEMMA Executed ==
    ASSUME StInv, exec_tolerated
    PROVE  \E s : \E ok, refuses \in BOOLEAN :
              /\ s = Head(opening.todo) /\ opening.todo # <<>>
              /\ ok <=> s.needs \subseteq db.schema /\ s.forbids \cap db.schema = {} /\ ~refuses
              /\ db' = IF ok THEN [db EXCEPT !.schema = (@ \ s.needs) \cup s.gives] ELSE db
              /\ opening' = [opening EXCEPT !.todo = Tail(@), !.failures = IF ok THEN @ ELSE @ + 1]
              /\ denied' \in BOOLEAN /\ (denied' <=> denied \/ refuses)
              /\ UNCHANGED halfSealed
<1>1. PICK s : s = Head(opening.todo)
  OBVIOUS
<1>2. PICK refuses \in BOOLEAN :
          LET ok == s.needs \subseteq db.schema /\ s.forbids \cap db.schema = {} /\ ~refuses
          IN  /\ db' = IF ok THEN [db EXCEPT !.schema = (@ \ s.needs) \cup s.gives] ELSE db
              /\ opening' = [opening EXCEPT !.todo = Tail(@), !.failures = IF ok THEN @ ELSE @ + 1]
              /\ denied' = (denied \/ refuses)
  BY <1>1 DEF exec_tolerated, Rest
<1>3. PICK ok \in BOOLEAN : ok = (s.needs \subseteq db.schema /\ s.forbids \cap db.schema = {} /\ ~refuses)
  OBVIOUS
<1>4. denied' \in BOOLEAN /\ (denied' <=> denied \/ refuses)
  BY <1>2
<1>5. opening.todo # <<>> /\ UNCHANGED halfSealed
  BY DEF exec_tolerated
<1>6. /\ db' = IF ok THEN [db EXCEPT !.schema = (@ \ s.needs) \cup s.gives] ELSE db
      /\ opening' = [opening EXCEPT !.todo = Tail(@), !.failures = IF ok THEN @ ELSE @ + 1]
  BY <1>2, <1>3
<1> QED BY <1>1, <1>3, <1>4, <1>5, <1>6

LEMMA ExecKeeps == ASSUME StInv, exec_tolerated PROVE StInv'
<1>0. StTypes /\ Versions /\ Opened
  BY DEF StInv
<1>01. PICK s : \E ok, refuses \in BOOLEAN :
              /\ s = Head(opening.todo) /\ opening.todo # <<>>
              /\ ok <=> s.needs \subseteq db.schema /\ s.forbids \cap db.schema = {} /\ ~refuses
              /\ db' = IF ok THEN [db EXCEPT !.schema = (@ \ s.needs) \cup s.gives] ELSE db
              /\ opening' = [opening EXCEPT !.todo = Tail(@), !.failures = IF ok THEN @ ELSE @ + 1]
              /\ denied' \in BOOLEAN /\ (denied' <=> denied \/ refuses)
              /\ UNCHANGED halfSealed
  BY Executed
<1>1. PICK ok \in BOOLEAN, refuses \in BOOLEAN :
              /\ s = Head(opening.todo) /\ opening.todo # <<>>
              /\ ok <=> s.needs \subseteq db.schema /\ s.forbids \cap db.schema = {} /\ ~refuses
              /\ db' = IF ok THEN [db EXCEPT !.schema = (@ \ s.needs) \cup s.gives] ELSE db
              /\ opening' = [opening EXCEPT !.todo = Tail(@), !.failures = IF ok THEN @ ELSE @ + 1]
              /\ denied' \in BOOLEAN /\ (denied' <=> denied \/ refuses)
              /\ UNCHANGED halfSealed
  BY <1>01
<1>2. /\ opening'.at = opening.at /\ opening'.from = opening.from /\ opening'.todo = Tail(opening.todo)
      /\ opening'.failures = IF ok THEN opening.failures ELSE opening.failures + 1
      /\ opening'.failures \in Nat /\ opening.failures \in Nat
  BY <1>0, <1>1 DEF StTypes, OpeningRecords
<1>3. /\ db'.version = db.version
      /\ db'.schema = IF ok THEN (db.schema \ s.needs) \cup s.gives ELSE db.schema
  BY <1>0, <1>1 DEF StTypes
<1>4. ASSUME s.gives \subseteq SchemaParts, Tail(opening.todo) \in Todos PROVE StTypes'
  <2>1. db' \in [version : 0..2, schema : SUBSET SchemaParts]
    BY <1>0, <1>1, <1>4 DEF StTypes
  <2>2. PICK t : t = Tail(opening.todo)
    OBVIOUS
  <2>3. PICK f : f = IF ok THEN opening.failures ELSE opening.failures + 1
    OBVIOUS
  <2>4. opening' = [opening EXCEPT !.todo = t, !.failures = f] /\ t \in Todos /\ f \in Nat
    BY <1>1, <1>2, <1>4, <2>2, <2>3
  <2>5. opening' \in OpeningRecords
    BY <1>0, <2>4 DEF StTypes, OpeningRecords
  <2>6. denied' \in BOOLEAN /\ halfSealed' \in BOOLEAN
    BY <1>0, <1>1 DEF StTypes
  <2> QED BY <2>1, <2>5, <2>6, StTypesHold
<1>5. CASE opening.at = "002"
  <2>1. PICK n \in 0..4 : In002(n)
    BY <1>0, <1>5 DEF Opened
  <2>2. opening.todo = Alters(n) /\ n # 0
    BY <1>1, <2>1, AltersLeft DEF In002
  <2>3. /\ s = CASE n = 4 -> Statement({"tool_events"}, {}, {}) [] n = 3 -> Statement({}, {"title"}, {"title"})
                 [] n = 2 -> Statement({}, {}, {"workspaces"})
                 [] n = 1 -> Statement({}, {"workspace_id"}, {"workspace_id"})
        /\ Tail(opening.todo) = Alters(n - 1) /\ n - 1 \in 0..4
    <3>1. n \in {1, 2, 3, 4}
      BY <2>2
    <3>2. CASE n = 4
      BY <1>1, <2>2, <3>2, AltersLeft
    <3>3. CASE n = 3
      BY <1>1, <2>2, <3>3, AltersLeft
    <3>4. CASE n = 2
      BY <1>1, <2>2, <3>4, AltersLeft
    <3>5. CASE n = 1
      BY <1>1, <2>2, <3>5, AltersLeft
    <3> QED BY <3>1, <3>2, <3>3, <3>4, <3>5
  <2>4. StTypes'
    <3>1. Tail(opening.todo) \in Todos
      BY <2>2, <2>3 DEF Todos
    <3>2. s.gives \subseteq SchemaParts
      BY <2>2, <2>3 DEF Statement, SchemaParts
    <3> QED BY <1>4, <3>1, <3>2
  <2>5. Versions'
    BY <1>0, <1>1, <1>3, <2>1, <2>2, <2>3 DEF Versions, In002, Statement
  <2>6. In002(n - 1)'
    <3>1. opening'.todo = Alters(n - 1) /\ opening'.from = 0 /\ db'.version = 0 /\ "base" \in db'.schema
      BY <1>2, <1>3, <2>1, <2>2, <2>3 DEF In002, Statement
    <3>2. opening'.failures = 0 => ~denied'
      BY <1>1, <1>2, <2>1 DEF In002
    <3>3. ASSUME ~denied'
          PROVE  /\ n - 1 <= 2 => "title" \in db'.schema
                 /\ n - 1 <= 1 => "workspaces" \in db'.schema
                 /\ n - 1 = 0 => "workspace_id" \in db'.schema
      <4>1. /\ ~denied /\ ~refuses
            /\ n <= 2 => "title" \in db.schema
            /\ n <= 1 => "workspaces" \in db.schema
        BY <1>1, <2>1, <3>3 DEF In002
      <4>2. CASE n = 4
        BY <4>2
      <4>3. CASE n = 3
        BY <1>1, <1>3, <2>3, <4>1, <4>3 DEF Statement
      <4>4. CASE n = 2
        BY <1>1, <1>3, <2>3, <4>1, <4>4 DEF Statement
      <4>5. CASE n = 1
        BY <1>1, <1>3, <2>3, <4>1, <4>5 DEF Statement
      <4> QED BY <2>2, <4>2, <4>3, <4>4, <4>5
    <3> QED BY <3>1, <3>2, <3>3 DEF In002
  <2>7. Opened'
    <3>1. opening'.at = "002" /\ n - 1 \in 0..4
      BY <1>2, <1>5, <2>2
    <3> QED BY <2>6, <3>1 DEF Opened
  <2> QED BY <2>4, <2>5, <2>7 DEF StInv
<1>6. CASE opening.at = "003"
  <2>1. PICK n \in 0..2 : In003(n)
    BY <1>0, <1>6 DEF Opened
  <2>2. opening.todo = Renames(n) /\ n # 0
    BY <1>1, <2>1, RenamesLeft DEF In003
  <2>3. /\ s = CASE n = 2 -> Statement({"projects"}, {"workspaces"}, {"workspaces"})
                 [] n = 1 -> Statement({"project_id"}, {"workspace_id"}, {"workspace_id"})
        /\ Tail(opening.todo) = Renames(n - 1) /\ n - 1 \in 0..2
    <3>1. CASE n = 2
      BY <1>1, <2>2, <3>1, RenamesLeft
    <3>2. CASE n = 1
      BY <1>1, <2>2, <3>2, RenamesLeft
    <3> QED BY <2>2, <3>1, <3>2
  <2>4. StTypes'
    <3>1. Tail(opening.todo) \in Todos
      BY <2>2, <2>3 DEF Todos
    <3>2. s.gives \subseteq SchemaParts
      BY <2>2, <2>3 DEF Statement, SchemaParts
    <3> QED BY <1>4, <3>1, <3>2
  <2>5. opening.from \in {0, 1}
    BY <1>0 DEF StTypes, OpeningRecords
  <2>6. opening.from = 0 => db'.schema = db.schema
    BY <1>1, <1>3, <2>1, <2>2, <2>3 DEF In003, Statement
  <2>7. Versions'
    <3>1. CASE opening.from = 0
      BY <1>0, <1>1, <1>3, <2>6, <3>1 DEF Versions
    <3>2. CASE opening.from = 1
      <4>1. db.version = 1 /\ Halfway(db.schema)
        BY <1>0, <2>1, <3>2 DEF Versions, In003
      <4>2. Halfway(db'.schema)
        BY <1>1, <1>3, <2>2, <2>3, <4>1 DEF Halfway, Statement
      <4> QED BY <1>3, <4>1, <4>2 DEF Versions
    <3> QED BY <2>5, <3>1, <3>2
  <2>8. In003(n - 1)'
    <3>1. CASE opening.from = 0
      BY <1>1, <1>2, <1>3, <2>1, <2>2, <2>3, <2>6, <3>1 DEF In003
    <3>2. CASE opening.from = 1
      <4>1. db.version = 1 /\ Halfway(db.schema) /\ (opening.failures = 0 => ~denied)
        BY <1>0, <2>1, <3>2 DEF Versions, In003
      <4>2. opening'.failures = 0 => ~denied'
        BY <1>1, <1>2, <4>1
      <4>3. ASSUME ~denied'
            PROVE  /\ n - 1 <= 1 => "workspaces" \in db'.schema
                   /\ n - 1 = 0 => "workspace_id" \in db'.schema
        <5>1. ~denied /\ ~refuses /\ (n <= 1 => "workspaces" \in db.schema)
          BY <1>1, <2>1, <3>2, <4>3 DEF In003
        <5>2. CASE n = 2
          BY <1>1, <1>3, <2>3, <4>1, <5>1, <5>2 DEF Statement, Halfway
        <5>3. CASE n = 1
          BY <1>1, <1>3, <2>3, <4>1, <5>1, <5>3 DEF Statement, Halfway
        <5> QED BY <2>2, <5>2, <5>3
      <4> QED BY <1>2, <1>3, <2>2, <2>3, <3>2, <4>1, <4>2, <4>3 DEF In003
    <3> QED BY <2>5, <3>1, <3>2
  <2>9. Opened'
    <3>1. opening'.at = "003" /\ n - 1 \in 0..2
      BY <1>2, <1>6, <2>2
    <3> QED BY <2>8, <3>1 DEF Opened
  <2> QED BY <2>4, <2>7, <2>9 DEF StInv
<1>7. opening.at \in {"002", "003"}
  BY <1>0, <1>1 DEF StTypes, OpeningRecords, Opened
<1> QED BY <1>5, <1>6, <1>7

LEMMA Seal1Keeps == ASSUME StInv, Seal1 PROVE StInv'
<1>0. StTypes /\ Versions /\ Opened /\ opening.at = "002" /\ opening.todo = <<>> /\ UNCHANGED <<denied, halfSealed>>
  BY DEF StInv, Seal1
<1>1. PICK n \in 0..4 : In002(n)
  BY <1>0 DEF Opened
<1>2. In002(0)
  BY <1>0, <1>1, AltersLeft, AltersApart DEF In002
<1>3. /\ opening' \in OpeningRecords /\ opening'.at = "003" /\ opening'.todo = Renames(2)
      /\ opening'.from = 0
  <2>1. opening' = [opening EXCEPT !.at = "003", !.todo = RENAME_SQL, !.failures = 0]
    BY DEF Seal1
  <2> QED BY <1>0, <1>2, <2>1, TodosLeft, RenamesLeft DEF StTypes, OpeningRecords, In002
<1>4. /\ db' \in [version : 0..2, schema : SUBSET SchemaParts] /\ db'.schema = db.schema
      /\ db'.version = IF opening.failures = 0 THEN 1 ELSE 0
  BY <1>0, <1>2 DEF Seal1, StTypes, In002
<1>5. StTypes'
  BY <1>0, <1>3, <1>4 DEF StTypes
<1>6. /\ "projects" \notin db.schema /\ "project_id" \notin db.schema /\ "base" \in db.schema
      /\ ~denied => "title" \in db.schema /\ "workspaces" \in db.schema /\ "workspace_id" \in db.schema
      /\ opening.failures = 0 => ~denied
  BY <1>0, <1>2 DEF Versions, In002
<1>7. Versions'
  BY <1>4, <1>6 DEF Versions, Halfway
<1>8. In003(2)'
  BY <1>0, <1>3, <1>4, <1>6 DEF In003, Needed
<1>9. Opened'
  BY <1>3, <1>8 DEF Opened
<1> QED BY <1>5, <1>7, <1>9 DEF StInv

LEMMA Seal2Keeps == ASSUME StInv, Seal2 PROVE StInv'
<1>0. StTypes /\ Versions /\ Opened /\ opening.at = "003" /\ opening.todo = <<>> /\ UNCHANGED denied
  BY DEF StInv, Seal2
<1>1. PICK n \in 0..2 : In003(n)
  BY <1>0 DEF Opened
<1>2. In003(0)
  BY <1>0, <1>1, RenamesLeft, RenamesApart DEF In003
<1>3. opening' \in OpeningRecords /\ opening'.at = "open" /\ opening'.todo = <<>> /\ opening.from \in {0, 1}
  BY <1>0 DEF Seal2, StTypes, OpeningRecords
<1>4. PICK seals \in BOOLEAN : seals <=> ~(opening.from = 1 /\ opening.failures > 0)
  OBVIOUS
<1>5. /\ db' \in [version : 0..2, schema : SUBSET SchemaParts] /\ db'.schema = db.schema
      /\ db'.version = IF seals THEN 2 ELSE db.version
  BY <1>0, <1>4 DEF Seal2, StTypes
<1>6. halfSealed' \in BOOLEAN /\ (halfSealed' <=> halfSealed \/ (seals /\ denied))
  BY <1>0, <1>4 DEF Seal2, StTypes
<1>7. StTypes'
  BY <1>0, <1>3, <1>5, <1>6 DEF StTypes
<1>8. ~denied => Whole(db.schema)
  <2>1. CASE opening.from = 0
    BY <1>2, <2>1 DEF In003, Whole
  <2>2. CASE opening.from = 1
    BY <1>0, <1>2, <2>2 DEF In003, Versions, Halfway, Whole, Needed
  <2> QED BY <1>3, <2>1, <2>2
<1>9. ~seals => ~denied \/ db.version = 1
  BY <1>2, <1>4 DEF In003
<1>10. Versions'
  <2>1. CASE seals
    BY <1>5, <1>6, <1>8, <2>1 DEF Versions
  <2>2. CASE ~seals
    <3>1. db.version = 1
      BY <1>2, <1>4, <2>2 DEF In003
    <3> QED BY <1>0, <1>5, <2>2, <3>1 DEF Versions
  <2> QED BY <2>1, <2>2
<1>11. Opened'
  BY <1>0, <1>3, <1>5, <1>8 DEF Opened
<1> QED BY <1>7, <1>10, <1>11 DEF StInv

LEMMA StoreDiesKeeps == ASSUME StInv, StoreDies PROVE StInv'
<1>0. StTypes /\ Versions /\ Opened /\ UNCHANGED <<db, halfSealed>> /\ denied' = FALSE /\ opening' = Closed
  BY DEF StInv, StoreDies
<1>1. Closed \in OpeningRecords /\ Closed.at = "closed" /\ Closed.todo = <<>>
  BY TodosLeft DEF Closed, OpeningRecords
<1>2. StTypes'
  BY <1>0, <1>1 DEF StTypes
<1>3. Versions'
  BY <1>0 DEF Versions
<1>4. Opened'
  BY <1>0, <1>1 DEF Opened
<1> QED BY <1>2, <1>3, <1>4 DEF StInv

LEMMA StInvSays == ASSUME StInv PROVE SchemaWhole /\ SealedWhole
BY DEF StInv, Versions, Opened, Whole, SchemaWhole, SealedWhole

-----------------------------------------------------------------------------
(* The configuration.                                                      *)

(* A configuration with a provider, each with a model, and a default among *)
(* them if one is named.                                                   *)
Sound(c) ==
    /\ DOMAIN c.providers # {} /\ DOMAIN c.providers \subseteq ProviderNames
    /\ \A n \in DOMAIN c.providers : c.providers[n].models > 0
    /\ c.main # 0 => c.main \in DOMAIN c.providers

SuInv ==
    /\ phase \in {"file", "loaded", "refused", "running"}
    /\ toml \in [providers : UNION {[S -> Profiles] : S \in SUBSET ProviderNames},
                 main : ProviderNames \cup {0}, aux : ProviderNames \cup {0}]
    /\ phase \in {"loaded", "running"} => Sound(conf)
    /\ phase = "running" => /\ core.model \in DOMAIN conf.providers
                            /\ conf.aux # 0 => core.aux \in DOMAIN conf.providers

LEMMA DefaultIsThere ==
    ASSUME NEW c, Sound(c)
    PROVE  default_main_provider_name(c) \in DOMAIN c.providers
<1>1. CASE c.main # 0
  BY <1>1 DEF Sound, default_main_provider_name
<1>2. CASE c.main = 0
  <2>1. PICK D : D = DOMAIN c.providers
    OBVIOUS
  <2>2. D \in SUBSET Nat /\ D # {}
    BY <2>1, StartupAssumption DEF Sound
  <2>3. \E n \in D : \A o \in D : n <= o
    BY <2>2, LeastNumber
  <2>4. default_main_provider_name(c) = CHOOSE n \in D : \A o \in D : n <= o
    BY <1>2, <2>1 DEF default_main_provider_name
  <2> QED BY <2>1, <2>3, <2>4
<1> QED BY <1>1, <1>2

LEMMA ProviderIsThere ==
    ASSUME NEW c, Sound(c), NEW name
    PROVE  provider(c, name) \in DOMAIN c.providers /\ provider(c, name) # 0
<1>1. provider(c, name) \in DOMAIN c.providers
  BY DefaultIsThere DEF provider
<1> QED BY <1>1, StartupAssumption DEF Sound

LEMMA SuInitInv == ASSUME StartInit PROVE SuInv
BY DEF StartInit, SuInv

LEMMA LoadKeeps == ASSUME SuInv, load PROVE SuInv'
<1>0. phase = "file" /\ UNCHANGED <<toml, keysSet, core>>
  BY DEF load
<1>1. CASE phase' = "refused"
  BY <1>0, <1>1 DEF SuInv
<1>2. CASE /\ Valid(toml) /\ phase' = "loaded"
           /\ conf' = [toml EXCEPT !.providers =
                         [n \in DOMAIN @ |-> IF n \in keysSet THEN [@[n] EXCEPT !.key = "env"] ELSE @[n]]]
  <2>1. PICK S \in SUBSET ProviderNames : toml.providers \in [S -> Profiles]
    BY DEF SuInv
  <2>2. PICK F : F = [n \in S |-> IF n \in keysSet THEN [toml.providers[n] EXCEPT !.key = "env"] ELSE toml.providers[n]]
    OBVIOUS
  <2>3. conf' = [toml EXCEPT !.providers = F]
    BY <1>2, <2>1, <2>2
  <2>4. conf'.providers = F /\ conf'.main = toml.main
    BY <2>3 DEF SuInv
  <2>5. ASSUME NEW n \in S PROVE F[n].models = toml.providers[n].models
    BY <2>1, <2>2 DEF Profiles
  <2>6. DOMAIN F = S /\ DOMAIN toml.providers = S
    BY <2>1, <2>2
  <2>7. Sound(conf')
    BY <1>2, <2>4, <2>5, <2>6 DEF Sound, Valid
  <2> QED BY <1>0, <1>2, <2>7 DEF SuInv
<1> QED BY <1>1, <1>2 DEF load

LEMMA AssembleKeeps == ASSUME SuInv, assemble PROVE SuInv'
<1>0. phase = "loaded" /\ UNCHANGED <<toml, keysSet, conf>> /\ Sound(conf)
  BY DEF assemble, SuInv
<1>1. PICK main : main = provider(conf, default_main_provider_name(conf))
  OBVIOUS
<1>2. main \in DOMAIN conf.providers /\ main # 0
  BY <1>0, <1>1, ProviderIsThere
<1>3. PICK order : core' = [order |-> order, kind |-> conf.providers[main].kind, model |-> main,
                            aux |-> IF conf.aux = 0 THEN 0 ELSE provider(conf, conf.aux)]
  BY <1>1, <1>2 DEF assemble
<1>4. phase' = "running"
  BY <1>1, <1>2 DEF assemble
<1>5. core'.model = main /\ (conf.aux # 0 => core'.aux \in DOMAIN conf.providers)
  BY <1>0, <1>3, ProviderIsThere
<1> QED BY <1>0, <1>2, <1>4, <1>5 DEF SuInv

LEMMA SuInvSays == ASSUME SuInv PROVE LoadedStarts
<1>1. ASSUME phase = "running", conf.aux # 0 PROVE core.aux # 0
  BY <1>1, StartupAssumption DEF SuInv, Sound
<1> QED BY <1>1 DEF SuInv, Sound, LoadedStarts

-----------------------------------------------------------------------------
(* The limit.                                                              *)

(* A bucket and the log of what it let through, at time t: no span of the  *)
(* log has more than a full bucket and the span allow; what is in the      *)
(* bucket is what they allow beyond the log, and a bucket that was dropped *)
(* would be full.                                                          *)
AtMost(n, log, t) ==
    \A i \in DOMAIN log : (Len(log) - i + 1) * Minute + n <= Full + (t - log[i]) * Rate
Exactly(n, log, t) ==
    \E i \in DOMAIN log : (Len(log) - i + 1) * Minute + n = Full + (t - log[i]) * Rate
Counts(b, log, t) ==
    /\ b.tokens \in 0..Full /\ b.last \in 0..t /\ \A i \in DOMAIN log : log[i] <= b.last
    /\ AtMost(b.tokens, log, b.last) /\ Exactly(b.tokens, log, b.last)
Account(b, log, t) ==
    /\ log \in Seq(Nat) /\ \A i \in DOMAIN log : log[i] <= t
    /\ \A i, j \in DOMAIN log : i <= j => (j - i + 1) * Minute <= Full + (log[j] - log[i]) * Rate
    /\ \/ Counts(b, log, t)
       \/ /\ b = NoBucket
          /\ \A i \in DOMAIN log : (Len(log) - i + 1) * Minute <= (t - log[i]) * Rate

LEMMA LimitNumbers ==
    /\ Rate \in Nat /\ Rate > 0 /\ Minute \in Nat /\ Minute > 0 /\ Full \in Nat /\ Full >= Minute
    /\ Full = Rate * Minute /\ LimitBuckets \in Nat /\ LimitBuckets > 0 /\ MaxTime \in Nat /\ MaxRequests \in Nat
    /\ StaleAfter = 5 * Minute /\ CleanEvery \in Nat /\ CleanEvery > 0
BY HttpAssumption DEF Full, StaleAfter

LEMMA RatesAdd == \A a, b \in Int : (a + b) * Rate = a * Rate + b * Rate
BY LimitNumbers

LEMMA RatesGrow == \A a, b \in Int : a <= b => a * Rate <= b * Rate
BY LimitNumbers

LEMMA MinutesAdd == \A a \in Int : (a + 1) * Minute = a * Minute + Minute /\ a * Minute \in Int
BY LimitNumbers

LEMMA Products == \A a \in Int : a * Rate \in Int /\ a * Minute \in Int
BY LimitNumbers

LEMMA FullHolds == Full \in Nat /\ Minute \in Nat /\ Full >= Minute /\ Minute > 0
BY LimitNumbers

LEMMA TimePasses ==
    ASSUME NEW b, NEW log, NEW t \in Nat, NEW u \in Nat, t <= u, Account(b, log, t)
    PROVE  Account(b, log, u)
<1>1. \A i \in DOMAIN log : log[i] \in Nat /\ log[i] <= t /\ log[i] <= u /\ i \in Nat
  BY DEF Account
<1>2. CASE Counts(b, log, t)
  <2>1. Counts(b, log, u)
    BY <1>2 DEF Counts
  <2> QED BY <1>1, <2>1 DEF Account
<1>3. CASE /\ b = NoBucket
           /\ \A i \in DOMAIN log : (Len(log) - i + 1) * Minute <= (t - log[i]) * Rate
  <2>1. ASSUME NEW i \in DOMAIN log PROVE (Len(log) - i + 1) * Minute <= (u - log[i]) * Rate
    <3>1. (t - log[i]) * Rate <= (u - log[i]) * Rate
      BY <1>1, RatesGrow
    <3>2. (Len(log) - i + 1) * Minute \in Int /\ (t - log[i]) * Rate \in Int /\ (u - log[i]) * Rate \in Int
      BY <1>1, LimitNumbers DEF Account
    <3>3. (Len(log) - i + 1) * Minute <= (t - log[i]) * Rate
      BY <1>3
    <3> HIDE DEF Account
    <3> QED BY <3>1, <3>2, <3>3
  <2> QED BY <1>1, <1>3, <2>1 DEF Account
<1> QED BY <1>2, <1>3 DEF Account

(* A bucket that was not used for five minutes is full by then.            *)
LEMMA StaleIsFull ==
    ASSUME NEW b, NEW log, NEW t \in Nat, Account(b, log, t), b # NoBucket, t - b.last >= StaleAfter
    PROVE  Account(NoBucket, log, t)
<1>1. Counts(b, log, t)
  BY DEF Account
<1>2. ASSUME NEW i \in DOMAIN log PROVE (Len(log) - i + 1) * Minute <= (t - log[i]) * Rate
  <2>1. PICK a, k : a = log[i] /\ k = Len(log) - i + 1
    OBVIOUS
  <2>2. a \in Nat /\ k \in Int
    BY <2>1 DEF Account
  <2>3. PICK l, n : l = b.last /\ n = b.tokens
    OBVIOUS
  <2>4. l \in Nat /\ n \in Nat
    BY <1>1, <2>3, LimitNumbers DEF Counts
  <2>5. k * Minute + n <= Full + (l - a) * Rate
    BY <1>1, <2>1, <2>3 DEF Counts, AtMost
  <2>6. t - a = (t - l) + (l - a) /\ t - l \in Int /\ l - a \in Int
    BY <2>2, <2>4
  <2>7. (t - a) * Rate = (t - l) * Rate + (l - a) * Rate
    BY <2>6, RatesAdd
  <2>8. (5 * Minute) * Rate <= (t - l) * Rate
    BY <2>3, <2>4, LimitNumbers, RatesGrow
  <2>9. (5 * Minute) * Rate = 5 * Full
    BY LimitNumbers
  <2>10. k * Minute \in Int /\ (l - a) * Rate \in Int /\ (t - l) * Rate \in Int
    BY <2>2, <2>4, LimitNumbers
  <2>11. k * Minute <= (t - a) * Rate
    BY <2>4, <2>5, <2>7, <2>8, <2>9, <2>10, LimitNumbers
  <2> QED BY <2>1, <2>11
<1> QED BY <1>2 DEF Account

LEMMA EmptyAccount == ASSUME NEW t \in Nat PROVE Account(NoBucket, <<>>, t)
BY DEF Account

(* The bucket is refilled: full, or with all that the time gave.           *)
LEMMA RefillHolds ==
    ASSUME NEW b, NEW log, NEW t \in Nat, t = time, Account(b, log, t),
           NEW c, c = IF b # NoBucket THEN b ELSE [tokens |-> Full, last |-> t], NEW n, n = Refilled(c)
    PROVE  n \in 0..Full /\ AtMost(n, log, t) /\ (n = Full \/ Exactly(n, log, t))
<1>0. /\ Len(log) \in Nat /\ \A i \in DOMAIN log : log[i] \in Nat /\ log[i] <= t /\ Len(log) - i + 1 \in Int
  BY DEF Account
<1>1. CASE b = NoBucket
  <2>1. c.tokens = Full /\ c.last = t
    BY <1>1
  <2>2. n = Full
    <3>1. Full + (t - t) * Rate = Full
      BY LimitNumbers
    <3> QED BY <2>1, <3>1, LimitNumbers DEF Refilled
  <2>3. \A i \in DOMAIN log : (Len(log) - i + 1) * Minute <= (t - log[i]) * Rate
    BY <1>1, LimitNumbers DEF Account, Counts, NoBucket
  <2>4. ASSUME NEW i \in DOMAIN log PROVE (Len(log) - i + 1) * Minute + Full <= Full + (t - log[i]) * Rate
    <3>1. PICK x, y : x = (Len(log) - i + 1) * Minute /\ y = (t - log[i]) * Rate
      OBVIOUS
    <3>2. x \in Int /\ y \in Int /\ x <= y
      BY <1>0, <2>3, <3>1, LimitNumbers
    <3>3. x + Full <= Full + y
      BY <3>2, LimitNumbers
    <3> QED BY <3>1, <3>3
  <2>5. AtMost(n, log, t)
    BY <2>2, <2>4 DEF AtMost
  <2> QED BY <2>2, <2>5, LimitNumbers
<1>2. CASE b # NoBucket
  <2>1. Counts(b, log, t) /\ c = b
    BY <1>2 DEF Account
  <2>2. PICK l, m : l = b.last /\ m = b.tokens
    OBVIOUS
  <2>3. l \in Nat /\ m \in Nat /\ m <= Full /\ l <= t /\ AtMost(m, log, l) /\ Exactly(m, log, l)
    BY <2>1, <2>2, LimitNumbers DEF Counts
  <2>4. PICK g : g = (t - l) * Rate
    OBVIOUS
  <2>5. g \in Nat
    BY <2>3, <2>4, LimitNumbers
  <2>6. n = IF m + g < Full THEN m + g ELSE Full
    BY <2>1, <2>2, <2>4 DEF Refilled
  <2>7. n \in 0..Full /\ n <= m + g
    BY <2>3, <2>5, <2>6, LimitNumbers
  <2>8. ASSUME NEW i \in DOMAIN log PROVE (t - log[i]) * Rate = g + (l - log[i]) * Rate
    <3>1. t - log[i] = (t - l) + (l - log[i]) /\ t - l \in Int /\ l - log[i] \in Int
      BY <1>0, <2>3
    <3> QED BY <2>4, <3>1, RatesAdd
  <2>9. ASSUME NEW i \in DOMAIN log PROVE (Len(log) - i + 1) * Minute \in Int /\ (l - log[i]) * Rate \in Int
    BY <1>0, <2>3, LimitNumbers
  <2>10. AtMost(n, log, t)
    <3> SUFFICES ASSUME NEW i \in DOMAIN log
                 PROVE  (Len(log) - i + 1) * Minute + n <= Full + (t - log[i]) * Rate
      BY DEF AtMost
    <3>1. PICK x, y : x = (Len(log) - i + 1) * Minute /\ y = (l - log[i]) * Rate
      OBVIOUS
    <3>2. x \in Int /\ y \in Int /\ x + m <= Full + y
      BY <2>3, <2>9, <3>1 DEF AtMost
    <3>3. x + n <= Full + (g + y)
      BY <2>3, <2>5, <2>7, <3>2, LimitNumbers
    <3> QED BY <2>8, <3>1, <3>3
  <2>11. ASSUME n # Full PROVE Exactly(n, log, t)
    <3>0. n = m + g
      BY <2>6, <2>11
    <3>1. PICK i \in DOMAIN log : (Len(log) - i + 1) * Minute + m = Full + (l - log[i]) * Rate
      BY <2>3 DEF Exactly
    <3>2. PICK x, y : x = (Len(log) - i + 1) * Minute /\ y = (l - log[i]) * Rate
      OBVIOUS
    <3>3. x \in Int /\ y \in Int /\ x + m = Full + y
      BY <2>9, <3>1, <3>2
    <3>4. x + n = Full + (g + y)
      BY <2>3, <2>5, <3>0, <3>3, FullHolds
    <3>5. (Len(log) - i + 1) * Minute + n = Full + (t - log[i]) * Rate
      BY <2>8, <3>2, <3>4
    <3> QED BY <3>5 DEF Exactly
  <2> QED BY <2>7, <2>10, <2>11
<1> QED BY <1>1, <1>2

(* A request is let through.                                               *)
LEMMA PassKeeps ==
    ASSUME NEW b, NEW log, NEW t \in Nat, Account(b, log, t), NEW n \in 0..Full, n >= Minute,
           AtMost(n, log, t), n = Full \/ Exactly(n, log, t),
           NEW c, c = [tokens |-> n - Minute, last |-> t], NEW more, more = Append(log, t)
    PROVE  Account(c, more, t)
<1>0. /\ Len(log) \in Nat /\ DOMAIN log = 1..Len(log)
      /\ \A i \in DOMAIN log : log[i] \in Nat /\ log[i] <= t /\ Len(log) - i + 1 \in Int
  BY DEF Account
<1>1. /\ more \in Seq(Nat) /\ Len(more) = Len(log) + 1 /\ DOMAIN more = 1..(Len(log) + 1)
      /\ (\A i \in DOMAIN log : more[i] = log[i]) /\ more[Len(log) + 1] = t
  BY DEF Account
<1>2. \A i \in DOMAIN more : i \in DOMAIN log \/ i = Len(log) + 1
  BY <1>0, <1>1
<1>3. c.tokens = n - Minute /\ c.last = t /\ n - Minute \in 0..Full
  BY LimitNumbers
<1>4. ASSUME NEW i \in DOMAIN more
      PROVE  (Len(more) - i + 1) * Minute + (n - Minute) <= Full + (t - more[i]) * Rate
  <2>1. CASE i \in DOMAIN log
    <3>1. PICK x, y : x = (Len(log) - i + 1) * Minute /\ y = (t - log[i]) * Rate
      OBVIOUS
    <3>2. x \in Int /\ y \in Int /\ x + n <= Full + y
      <4>1. t - log[i] \in Int /\ Len(log) - i + 1 \in Int
        BY <1>0, <2>1
      <4>2. x + n <= Full + y
        BY <2>1, <3>1 DEF AtMost
      <4> QED BY <3>1, <4>1, <4>2, Products
    <3>3. (Len(more) - i + 1) * Minute = x + Minute
      <4>1. Len(more) - i + 1 = (Len(log) - i + 1) + 1
        BY <1>0, <1>1, <2>1
      <4> QED BY <1>0, <2>1, <3>1, <4>1, MinutesAdd
    <3>4. (x + Minute) + (n - Minute) <= Full + y
      BY <3>2, LimitNumbers
    <3> QED BY <1>1, <2>1, <3>1, <3>3, <3>4
  <2>2. CASE i = Len(log) + 1
    <3>1. Len(more) - i + 1 = 1 /\ more[i] = t
      BY <1>0, <1>1, <2>2
    <3>2. 1 * Minute + (n - Minute) <= Full + (t - t) * Rate
      BY LimitNumbers
    <3> QED BY <3>1, <3>2
  <2> QED BY <1>2, <2>1, <2>2
<1>5. AtMost(c.tokens, more, c.last)
  BY <1>3, <1>4 DEF AtMost
<1>6. Exactly(c.tokens, more, c.last)
  <2>1. CASE n = Full
    <3>1. Len(more) - (Len(log) + 1) + 1 = 1 /\ Len(log) + 1 \in DOMAIN more
      BY <1>0, <1>1
    <3>2. 1 * Minute + (n - Minute) = Full + (t - t) * Rate
      BY <2>1, LimitNumbers
    <3> QED BY <1>1, <1>3, <3>1, <3>2 DEF Exactly
  <2>2. CASE Exactly(n, log, t)
    <3>0. PICK i \in DOMAIN log : (Len(log) - i + 1) * Minute + n = Full + (t - log[i]) * Rate
      BY <2>2 DEF Exactly
    <3>1. PICK x, y : x = (Len(log) - i + 1) * Minute /\ y = (t - log[i]) * Rate
      OBVIOUS
    <3>2. x \in Int /\ y \in Int /\ x + n = Full + y
      <4>1. t - log[i] \in Int /\ Len(log) - i + 1 \in Int
        BY <1>0
      <4> QED BY <3>0, <3>1, <4>1, Products
    <3>3. (Len(more) - i + 1) * Minute = x + Minute
      <4>1. Len(more) - i + 1 = (Len(log) - i + 1) + 1
        BY <1>0, <1>1
      <4> QED BY <1>0, <3>1, <4>1, MinutesAdd
    <3>4. (x + Minute) + (n - Minute) = Full + y
      BY <3>2, LimitNumbers
    <3>5. i \in DOMAIN more /\ more[i] = log[i]
      BY <1>0, <1>1
    <3> QED BY <1>3, <3>1, <3>3, <3>4, <3>5 DEF Exactly
  <2> QED BY <2>1, <2>2
<1>7. \A i \in DOMAIN more : more[i] <= t
  BY <1>0, <1>1, <1>2
<1>8. Counts(c, more, t)
  BY <1>3, <1>5, <1>6, <1>7 DEF Counts
<1>9. ASSUME NEW i \in DOMAIN more, NEW j \in DOMAIN more, i <= j
      PROVE  (j - i + 1) * Minute <= Full + (more[j] - more[i]) * Rate
  <2>1. CASE j \in DOMAIN log
    <3>1. i \in DOMAIN log
      BY <1>0, <1>1, <1>9, <2>1
    <3> QED BY <1>1, <1>9, <2>1, <3>1 DEF Account
  <2>2. CASE j = Len(log) + 1
    <3>1. more[j] = t /\ j = Len(more)
      BY <1>1, <2>2
    <3>2. PICK x, y : x = (j - i + 1) * Minute /\ y = (more[j] - more[i]) * Rate
      OBVIOUS
    <3>3. x \in Int /\ y \in Int
      <4>1. more[j] - more[i] \in Int /\ j - i + 1 \in Int
        BY <1>1
      <4> QED BY <3>2, <4>1, Products
    <3>4. x + (n - Minute) <= Full + y
      BY <1>4, <3>1, <3>2
    <3>5. x <= Full + y
      BY <3>3, <3>4, LimitNumbers
    <3> QED BY <3>2, <3>5
  <2> QED BY <1>2, <2>1, <2>2
<1> QED BY <1>1, <1>7, <1>8, <1>9 DEF Account

(* A request is refused.                                                   *)
LEMMA RefuseKeeps ==
    ASSUME NEW b, NEW log, NEW t \in Nat, Account(b, log, t), NEW n \in 0..Full, n < Minute,
           AtMost(n, log, t), n = Full \/ Exactly(n, log, t),
           NEW c, c = [tokens |-> n, last |-> t]
    PROVE  /\ Account(c, log, t)
           /\ \E i \in DOMAIN log : (Len(log) - i + 2) * Minute > Full + (t - log[i]) * Rate
<1>0. /\ Len(log) \in Nat /\ \A i \in DOMAIN log : log[i] \in Nat /\ log[i] <= t /\ Len(log) - i + 1 \in Int
  BY DEF Account
<1>1. Exactly(n, log, t) /\ c.tokens = n /\ c.last = t
  BY LimitNumbers
<1>2. Counts(c, log, t)
  BY <1>0, <1>1 DEF Counts
<1>3. PICK i \in DOMAIN log : (Len(log) - i + 1) * Minute + n = Full + (t - log[i]) * Rate
  BY <1>1 DEF Exactly
<1>4. PICK x, y : x = (Len(log) - i + 1) * Minute /\ y = (t - log[i]) * Rate
  OBVIOUS
<1>5. x \in Int /\ y \in Int /\ x + n = Full + y
  <2>1. t - log[i] \in Int /\ Len(log) - i + 1 \in Int
    BY <1>0
  <2> QED BY <1>3, <1>4, <2>1, Products
<1>6. (Len(log) - i + 2) * Minute = x + Minute
  <2>1. Len(log) - i + 2 = (Len(log) - i + 1) + 1
    BY <1>0
  <2> QED BY <1>0, <1>4, <2>1, MinutesAdd
<1>7. x + Minute > Full + y
  BY <1>5, LimitNumbers
<1>8. (Len(log) - i + 2) * Minute > Full + (t - log[i]) * Rate
  BY <1>4, <1>6, <1>7
<1> QED BY <1>2, <1>8 DEF Account

LiInv ==
    /\ time \in 0..MaxTime /\ checks \in 0..MaxRequests
    /\ DOMAIN buckets = LimitClients /\ DOMAIN allowed = LimitClients
    /\ \A c \in LimitClients : Account(buckets[c], allowed[c], time)
    /\ IsFiniteSet(Counted(buckets)) /\ Cardinality(Counted(buckets)) <= LimitBuckets
    /\ RefusedOnlyIfSpent

LEMMA LiInitInv == ASSUME HttpInit PROVE LiInv
<1>1. time \in 0..MaxTime /\ checks \in 0..MaxRequests
  BY LimitNumbers DEF HttpInit
<1>2. /\ DOMAIN buckets = LimitClients /\ DOMAIN allowed = LimitClients
      /\ \A c \in LimitClients : buckets[c] = NoBucket /\ allowed[c] = <<>>
  BY DEF HttpInit
<1>3. \A c \in LimitClients : Account(buckets[c], allowed[c], time)
  BY <1>1, <1>2, EmptyAccount
<1>4. Counted(buckets) = {}
  BY <1>2 DEF Counted
<1>5. IsFiniteSet(Counted(buckets)) /\ Cardinality(Counted(buckets)) <= LimitBuckets
  BY <1>4, FS_EmptySet, LimitNumbers
<1>6. RefusedOnlyIfSpent
  BY DEF HttpInit, RefusedOnlyIfSpent
<1> QED BY <1>1, <1>2, <1>3, <1>5, <1>6 DEF LiInv

LEMMA PauseKeeps == ASSUME LiInv, NEW d \in Pauses, Pause(d) PROVE LiInv'
<1>1. d \in Nat /\ time \in Nat /\ time' \in 0..MaxTime /\ time <= time'
  BY HttpAssumption, LimitNumbers DEF LiInv, Pause
<1>2. UNCHANGED <<buckets, checks, allowed>> /\ refused' = <<>>
  BY DEF Pause
<1>3. ASSUME NEW c \in LimitClients PROVE Account(buckets[c], allowed[c], time')
  BY <1>1, TimePasses DEF LiInv
<1>4. RefusedOnlyIfSpent'
  BY <1>2 DEF RefusedOnlyIfSpent
<1>5. Counted(buckets') = Counted(buckets)
  BY <1>2
<1> QED BY <1>1, <1>2, <1>3, <1>4, <1>5 DEF LiInv

(* What the cleanup leaves.                                                *)
LEMMA CleanupKeeps ==
    ASSUME LiInv, NEW kept, kept = CleanedUp(buckets)
    PROVE  /\ DOMAIN kept = LimitClients
           /\ \A c \in LimitClients : Account(kept[c], allowed[c], time)
           /\ IsFiniteSet(Counted(kept)) /\ Cardinality(Counted(kept)) <= LimitBuckets
<1>0. time \in Nat
  BY LimitNumbers DEF LiInv
<1>1. CASE (checks + 1) % CleanEvery = 0
  <2>1. kept = [c \in LimitClients |-> IF buckets[c] # NoBucket /\ time - buckets[c].last < StaleAfter
                                       THEN buckets[c] ELSE NoBucket]
    BY <1>1 DEF CleanedUp
  <2>2. ASSUME NEW c \in LimitClients PROVE Account(kept[c], allowed[c], time)
    <3>0. Account(buckets[c], allowed[c], time)
      BY DEF LiInv
    <3>1. CASE buckets[c] # NoBucket /\ time - buckets[c].last < StaleAfter
      BY <2>1, <3>0, <3>1
    <3>2. CASE buckets[c] = NoBucket
      BY <2>1, <3>0, <3>2
    <3>3. CASE buckets[c] # NoBucket /\ ~(time - buckets[c].last < StaleAfter)
      <4>1. buckets[c].last \in Nat
        BY <3>0, <3>3 DEF Account, Counts
      <4>2. time - buckets[c].last >= StaleAfter
        BY <1>0, <3>3, <4>1, LimitNumbers
      <4>3. Account(NoBucket, allowed[c], time)
        BY <1>0, <3>0, <3>3, <4>2, StaleIsFull
      <4> QED BY <2>1, <3>3, <4>3
    <3> QED BY <3>1, <3>2, <3>3
  <2>3. Counted(kept) \subseteq Counted(buckets)
    BY <2>1 DEF Counted
  <2>4. /\ IsFiniteSet(Counted(kept)) /\ Cardinality(Counted(kept)) <= Cardinality(Counted(buckets))
        /\ Cardinality(Counted(kept)) \in Nat /\ Cardinality(Counted(buckets)) \in Nat
    BY <2>3, FS_Subset, FS_CardinalityType DEF LiInv
  <2>5. Cardinality(Counted(kept)) <= LimitBuckets
    BY <2>4, LimitNumbers DEF LiInv
  <2> QED BY <2>1, <2>2, <2>4, <2>5
<1>2. CASE ~((checks + 1) % CleanEvery = 0)
  BY <1>2 DEF CleanedUp, LiInv
<1> QED BY <1>1, <1>2

LEMMA CheckKeeps ==
    ASSUME LiInv, NEW c \in LimitClients, check(c), UNCHANGED time
    PROVE  LiInv'
<1>0. time \in Nat
  BY LimitNumbers DEF LiInv
<1>1. PICK kept : kept = CleanedUp(buckets)
  OBVIOUS
<1>2. /\ DOMAIN kept = LimitClients
      /\ \A o \in LimitClients : Account(kept[o], allowed[o], time)
      /\ IsFiniteSet(Counted(kept)) /\ Cardinality(Counted(kept)) <= LimitBuckets
  BY <1>1, CleanupKeeps
<1>3. PICK evicted \in Evictable(kept, c) :
          LET b == IF c \in Counted(kept) THEN kept[c] ELSE [tokens |-> Full, last |-> time]
              filled == Refilled(b)
              passes == filled >= Minute
          IN  /\ checks < MaxRequests /\ checks' = checks + 1
              /\ buckets' = [o \in LimitClients |->
                               CASE o = c -> [tokens |-> IF passes THEN filled - Minute ELSE filled, last |-> time]
                                 [] o # c /\ o \in evicted -> NoBucket
                                 [] OTHER -> kept[o]]
              /\ allowed' = [o \in LimitClients |->
                               CASE o = c /\ passes -> Append(allowed[o], time)
                                 [] o # c /\ o \in evicted -> <<>>
                                 [] OTHER -> allowed[o]]
              /\ refused' = IF passes THEN <<>> ELSE <<c, time>>
  BY <1>1 DEF check
<1>4. PICK b : b = IF kept[c] # NoBucket THEN kept[c] ELSE [tokens |-> Full, last |-> time]
  OBVIOUS
<1>5. b = IF c \in Counted(kept) THEN kept[c] ELSE [tokens |-> Full, last |-> time]
  BY <1>4 DEF Counted
<1>6. PICK n : n = Refilled(b)
  OBVIOUS
<1>7. n \in 0..Full /\ AtMost(n, allowed[c], time) /\ (n = Full \/ Exactly(n, allowed[c], time))
  BY <1>0, <1>2, <1>4, <1>6, RefillHolds
<1>8. PICK passes \in BOOLEAN : passes <=> n >= Minute
  <2>1. CASE n >= Minute
    BY <2>1
  <2>2. CASE ~(n >= Minute)
    BY <2>2
  <2> QED BY <2>1, <2>2
<1>9. PICK fresh : fresh = [tokens |-> IF passes THEN n - Minute ELSE n, last |-> time]
  OBVIOUS
<1>10. /\ checks < MaxRequests /\ checks' = checks + 1
       /\ buckets' = [o \in LimitClients |-> CASE o = c -> fresh
                                               [] o # c /\ o \in evicted -> NoBucket
                                               [] OTHER -> kept[o]]
       /\ allowed' = [o \in LimitClients |-> CASE o = c /\ passes -> Append(allowed[o], time)
                                               [] o # c /\ o \in evicted -> <<>>
                                               [] OTHER -> allowed[o]]
       /\ refused' = IF passes THEN <<>> ELSE <<c, time>>
  BY <1>3, <1>5, <1>6, <1>8, <1>9
<1>11. evicted \in SUBSET Counted(kept) /\ c \notin evicted
  BY <1>3 DEF Evictable
<1>12. fresh.tokens \in Nat
  <2>1. fresh.tokens = IF passes THEN n - Minute ELSE n
    BY <1>9
  <2>2. CASE passes
    BY <1>7, <1>8, <2>1, <2>2, FullHolds
  <2>3. CASE ~passes
    BY <1>7, <2>1, <2>3, FullHolds
  <2> QED BY <2>2, <2>3
<1>13. fresh # NoBucket
  BY <1>12 DEF NoBucket
<1>14. /\ DOMAIN buckets' = LimitClients /\ DOMAIN allowed' = LimitClients
       /\ buckets'[c] = fresh /\ allowed'[c] = IF passes THEN Append(allowed[c], time) ELSE allowed[c]
       /\ \A o \in LimitClients \ {c} : o \in evicted => buckets'[o] = NoBucket /\ allowed'[o] = <<>>
       /\ \A o \in LimitClients \ {c} : o \notin evicted => buckets'[o] = kept[o] /\ allowed'[o] = allowed[o]
  BY <1>10, <1>11
<1>15. Account(fresh, allowed'[c], time) /\ RefusedOnlyIfSpent'
  <2>1. CASE passes
    <3>1. fresh = [tokens |-> n - Minute, last |-> time] /\ allowed'[c] = Append(allowed[c], time) /\ n >= Minute
      BY <1>8, <1>9, <1>14, <2>1
    <3>2. Account(fresh, allowed'[c], time)
      BY <1>0, <1>2, <1>7, <3>1, PassKeeps
    <3> QED BY <1>10, <2>1, <3>2 DEF RefusedOnlyIfSpent
  <2>2. CASE ~passes
    <3>1. fresh = [tokens |-> n, last |-> time] /\ allowed'[c] = allowed[c] /\ n < Minute
      <4>1. n < Minute
        BY <1>7, <1>8, <2>2, FullHolds
      <4> QED BY <1>9, <1>14, <2>2, <4>1
    <3>2. /\ Account(fresh, allowed[c], time)
          /\ \E i \in DOMAIN allowed[c] : (Len(allowed[c]) - i + 2) * Minute > Full + (time - allowed[c][i]) * Rate
      BY <1>0, <1>2, <1>7, <3>1, RefuseKeeps
    <3>3. refused' = <<c, time>> /\ refused'[1] = c /\ refused'[2] = time
      BY <1>10, <2>2
    <3>4. RefusedOnlyIfSpent'
      BY <3>1, <3>2, <3>3 DEF RefusedOnlyIfSpent
    <3> QED BY <3>1, <3>2, <3>4
  <2> QED BY <2>1, <2>2
<1>16. ASSUME NEW o \in LimitClients PROVE Account(buckets'[o], allowed'[o], time)
  <2>1. CASE o = c
    BY <1>14, <1>15, <2>1
  <2>2. CASE o # c /\ o \in evicted
    BY <1>0, <1>14, <2>2, EmptyAccount
  <2>3. CASE o # c /\ o \notin evicted
    BY <1>2, <1>14, <2>3
  <2> QED BY <2>1, <2>2, <2>3
<1>17. Counted(buckets') = (Counted(kept) \ evicted) \cup {c}
  BY <1>13, <1>14 DEF Counted
<1>18. IsFiniteSet(Counted(buckets')) /\ Cardinality(Counted(buckets')) <= LimitBuckets
  <2>0. PICK K, N : K = Counted(kept) /\ N = Counted(buckets')
    OBVIOUS
  <2>1. IsFiniteSet(K) /\ Cardinality(K) \in Nat /\ Cardinality(K) <= LimitBuckets /\ N = (K \ evicted) \cup {c}
    BY <1>2, <1>17, <2>0, FS_CardinalityType
  <2>2. CASE c \in K
    <3>1. N \subseteq K
      BY <2>1, <2>2
    <3>2. IsFiniteSet(N) /\ Cardinality(N) <= Cardinality(K) /\ Cardinality(N) \in Nat
      BY <2>1, <3>1, FS_Subset, FS_CardinalityType
    <3> QED BY <2>0, <2>1, <3>2, LimitNumbers
  <2>3. CASE c \notin K /\ Cardinality(K) < LimitBuckets
    <3>1. N \subseteq K \cup {c}
      BY <2>1
    <3>2. IsFiniteSet(K \cup {c}) /\ Cardinality(K \cup {c}) = Cardinality(K) + 1
      BY <2>1, <2>3, FS_AddElement
    <3>3. IsFiniteSet(N) /\ Cardinality(N) <= Cardinality(K \cup {c}) /\ Cardinality(N) \in Nat
      BY <3>1, <3>2, FS_Subset, FS_CardinalityType
    <3> QED BY <2>0, <2>1, <2>3, <3>2, <3>3, LimitNumbers
  <2>4. CASE c \notin K /\ ~(Cardinality(K) < LimitBuckets)
    <3>1. PICK e \in K : evicted = {e}
      <4>1. Cardinality(K) >= LimitBuckets
        BY <2>1, <2>4, LimitNumbers
      <4> QED BY <1>3, <2>0, <2>4, <4>1 DEF Evictable
    <3>2. IsFiniteSet(K \ {e}) /\ Cardinality(K \ {e}) = Cardinality(K) - 1
      BY <2>1, <3>1, FS_RemoveElement
    <3>3. c \notin K \ {e}
      BY <2>4
    <3>4. IsFiniteSet((K \ {e}) \cup {c}) /\ Cardinality((K \ {e}) \cup {c}) = Cardinality(K \ {e}) + 1
      BY <3>2, <3>3, FS_AddElement
    <3>5. N = (K \ {e}) \cup {c}
      BY <2>1, <3>1
    <3>6. Cardinality(N) = Cardinality(K)
      <4>1. PICK k, l : k = Cardinality(K) /\ l = Cardinality(K \ {e})
        OBVIOUS
      <4>2. k \in Nat /\ l = k - 1
        BY <2>1, <3>2, <4>1
      <4>3. Cardinality(N) = l + 1
        BY <3>4, <3>5, <4>1
      <4>4. l + 1 = k
        BY <4>2
      <4> QED BY <4>1, <4>3, <4>4
    <3> QED BY <2>0, <2>1, <3>4, <3>5, <3>6
  <2> QED BY <2>2, <2>3, <2>4
<1>19. checks' \in 0..MaxRequests /\ time' \in 0..MaxTime
  BY <1>10, LimitNumbers DEF LiInv
<1> QED BY <1>14, <1>15, <1>16, <1>18, <1>19 DEF LiInv

LEMMA LimitedKeeps ==
    ASSUME LiInv, NEW p \in Peers, NEW h \in Headers, Limited(p, h)
    PROVE  LiInv'
<1>1. ClientOf(p, h) \in LimitClients
  BY DEF LimitClients
<1> QED BY <1>1, CheckKeeps DEF Limited

LEMMA LimitUntouched ==
    ASSUME LiInv, UNCHANGED <<time, buckets, checks, allowed, refused>>
    PROVE  LiInv'
BY DEF LiInv, RefusedOnlyIfSpent, Counted

LEMMA LiInvSays ==
    ASSUME LiInv
    PROVE  /\ RateHeld /\ RefusedOnlyIfSpent /\ Cardinality(Counted(buckets)) <= LimitBuckets
           /\ time \in 0..MaxTime /\ checks \in 0..MaxRequests
           /\ \A c \in LimitClients :
                  buckets[c] = NoBucket \/ (buckets[c].tokens \in 0..Full /\ buckets[c].last \in 0..time)
<1>1. RateHeld
  BY DEF LiInv, Account, RateHeld
<1>2. \A c \in LimitClients :
          buckets[c] = NoBucket \/ (buckets[c].tokens \in 0..Full /\ buckets[c].last \in 0..time)
  BY DEF LiInv, Account, Counts
<1> QED BY <1>1, <1>2 DEF LiInv

-----------------------------------------------------------------------------
(* The key and the feeds.                                                  *)

BusSessions == EventSessions \cup {""}
SentEvents == [event : Nat, prompt : BOOLEAN]
FeedRecords == [st : {"none", "open", "left"}, from : Nat, next : Nat, filter : BusSessions, plain : BOOLEAN,
                got : Seq(SentEvents), missed : SUBSET Nat]

(* What a feed owes its client so far.                                     *)
Due(f, b) == {i \in f.from..(f.next - 1) : b[i] = "" \/ f.filter \in {"", b[i]}} \ f.missed

InStep(f, b) ==
    /\ 1 <= f.from /\ f.from <= f.next /\ f.next <= Len(b) + 1
    /\ \A i \in f.missed : i < f.next
    /\ {f.got[i].event : i \in DOMAIN f.got} = Due(f, b)
    /\ \A i, j \in DOMAIN f.got : i < j => f.got[i].event < f.got[j].event
Fed(p, f, b) ==
    /\ f \in FeedRecords
    /\ f.plain => keyed /\ p \in holders
    /\ \A i \in DOMAIN f.got : f.got[i].prompt => f.plain
    /\ f.st # "none" => InStep(f, b)

FeInv ==
    /\ keyed \in BOOLEAN /\ holders \subseteq Peers /\ holders \subseteq GivenKey \cup {Loopback}
    /\ \A s \in served : s.path \in PublicPaths \/ s.peer \in GivenKey \cup {Loopback}
    /\ bus \in Seq(BusSessions) /\ DOMAIN feeds = Peers
    /\ \A p \in Peers : Fed(p, feeds[p], bus)

LEMMA NoFeedFed == ASSUME NEW p, NEW b PROVE Fed(p, NoFeed, b)
<1>1. NoFeed \in FeedRecords
  BY DEF NoFeed, FeedRecords, BusSessions
<1>2. NoFeed.st = "none" /\ NoFeed.plain = FALSE /\ NoFeed.got = <<>>
  BY DEF NoFeed
<1>3. \A i \in DOMAIN NoFeed.got : NoFeed.got[i].prompt => NoFeed.plain
  BY <1>2
<1> QED BY <1>1, <1>2, <1>3 DEF Fed

LEMMA FeInitInv == ASSUME HttpInit PROVE FeInv
<1>1. \A p \in Peers : Fed(p, feeds[p], bus)
  BY NoFeedFed DEF HttpInit
<1>2. bus \in Seq(BusSessions)
  BY DEF HttpInit
<1>3. keyed \in BOOLEAN /\ holders \subseteq Peers /\ holders \subseteq GivenKey \cup {Loopback}
  BY HttpAssumption DEF HttpInit
<1> QED BY <1>1, <1>2, <1>3 DEF HttpInit, FeInv

(* Who is let through, beyond the public pages.                            *)
LEMMA LetThrough ==
    ASSUME FeInv, NEW p \in Peers, NEW path, NEW shows \in Shows(p), auth_middleware(p, path, shows),
           path \notin PublicPaths, path # "/events" \/ ~(keyed /\ ~shows)
    PROVE  p \in GivenKey \cup {Loopback} /\ (keyed => p \in holders)
<1>0. shows = FALSE \/ shows = (p \in holders)
  BY DEF Shows
<1>1. shows => p \in holders
  BY <1>0
<1>2. (~keyed /\ p = Loopback) \/ (keyed /\ shows)
  BY Zenon DEF auth_middleware
<1> QED BY <1>1, <1>2 DEF FeInv

LEMMA ServesKeeps ==
    ASSUME FeInv, NEW p, NEW path, Serves(p, path), path \in PublicPaths \/ p \in GivenKey \cup {Loopback}
    PROVE  \A s \in served' : s.path \in PublicPaths \/ s.peer \in GivenKey \cup {Loopback}
<1>1. PICK r : r = [peer |-> p, path |-> path]
  OBVIOUS
<1>2. r.peer = p /\ r.path = path /\ served' = served \cup {r}
  BY <1>1 DEF Serves
<1> QED BY <1>2 DEF FeInv

LEMMA AuthSessionKeeps == ASSUME FeInv, NEW p \in Peers, handle_auth_session(p) PROVE FeInv'
<1>1. UNCHANGED <<keyed, bus, feeds>>
  BY DEF handle_auth_session
<1>2. holders \subseteq holders' /\ holders' \subseteq Peers /\ holders' \subseteq GivenKey \cup {Loopback}
  BY DEF handle_auth_session, FeInv
<1>3. \A s \in served' : s.path \in PublicPaths \/ s.peer \in GivenKey \cup {Loopback}
  BY ServesKeeps DEF handle_auth_session, PublicPaths
<1>4. ASSUME NEW q \in Peers PROVE Fed(q, feeds[q], bus)'
  <2>1. Fed(q, feeds[q], bus)
    BY DEF FeInv
  <2> QED BY <1>1, <1>2, <2>1 DEF Fed
<1> QED BY <1>1, <1>2, <1>3, <1>4 DEF FeInv

(* One feed changes.                                                       *)
LEMMA FeedMoves ==
    ASSUME FeInv, NEW p \in Peers, NEW g, Fed(p, g, bus), feeds' = [feeds EXCEPT ![p] = g],
           UNCHANGED <<keyed, holders, bus>>,
           \A s \in served' : s.path \in PublicPaths \/ s.peer \in GivenKey \cup {Loopback}
    PROVE  FeInv'
<1>1. DOMAIN feeds' = Peers
  BY DEF FeInv
<1>2. ASSUME NEW q \in Peers PROVE Fed(q, feeds[q], bus)'
  <2>1. Fed(q, feeds[q], bus) /\ feeds'[q] = IF q = p THEN g ELSE feeds[q]
    BY DEF FeInv
  <2>2. Fed(q, feeds'[q], bus)
    BY <2>1
  <2> QED BY <2>2 DEF Fed
<1> QED BY <1>1, <1>2 DEF FeInv

LEMMA EventsKeeps ==
    ASSUME FeInv, NEW p \in Peers, NEW filter \in BusSessions, NEW shows \in Shows(p), handle_events(p, filter, shows)
    PROVE  FeInv'
<1>0. UNCHANGED <<keyed, holders, bus>> /\ auth_middleware(p, "/events", shows)
  BY DEF handle_events
<1>1. CASE keyed /\ ~shows
  <2>1. UNCHANGED <<feeds, served>>
    BY <1>1 DEF handle_events
  <2> QED BY <1>0, <2>1 DEF FeInv, Fed
<1>2. CASE ~(keyed /\ ~shows)
  <2>1. Serves(p, "/events")
    BY <1>2 DEF handle_events
  <2>2. p \in GivenKey \cup {Loopback} /\ (keyed => p \in holders)
    BY <1>0, <1>2, LetThrough DEF PublicPaths
  <2>3. \A s \in served' : s.path \in PublicPaths \/ s.peer \in GivenKey \cup {Loopback}
    BY <2>1, <2>2, ServesKeeps
  <2>4. PICK n : n = Len(bus) + 1
    OBVIOUS
  <2>5. n \in Nat /\ n >= 1 /\ n <= Len(bus) + 1
    BY <2>4 DEF FeInv
  <2>6. PICK g : g = [NoFeed EXCEPT !.st = "open", !.from = n, !.next = n, !.filter = filter, !.plain = keyed]
    OBVIOUS
  <2>7. g = [st |-> "open", from |-> n, next |-> n, filter |-> filter, plain |-> keyed, got |-> <<>>, missed |-> {}]
    BY <2>6 DEF NoFeed
  <2>8. g \in FeedRecords
    BY <2>5, <2>7 DEF FeedRecords, FeInv
  <2>9. g.from = n /\ g.next = n /\ g.got = <<>> /\ g.missed = {}
    BY <2>7
  <2>10. InStep(g, bus)
    <3>1. n..(n - 1) = {}
      BY <2>5
    <3>2. Due(g, bus) = {}
      BY <2>9, <3>1 DEF Due
    <3>3. DOMAIN g.got = {}
      BY <2>9
    <3>4. {g.got[i].event : i \in DOMAIN g.got} = Due(g, bus)
      BY <3>2, <3>3
    <3> QED BY <2>5, <2>9, <3>3, <3>4 DEF InStep
  <2>11. Fed(p, g, bus)
    BY <2>2, <2>7, <2>8, <2>10 DEF Fed
  <2>12. feeds' = [feeds EXCEPT ![p] = g]
    BY <1>2, <2>4, <2>6 DEF handle_events
  <2> QED BY <1>0, <2>3, <2>11, <2>12, FeedMoves
<1> QED BY <1>1, <1>2

LEMMA EmitKeeps == ASSUME FeInv, NEW s \in BusSessions, EmitEvent(s) PROVE FeInv'
<1>0. UNCHANGED <<keyed, holders, served, feeds>> /\ bus' = Append(bus, s) /\ bus \in Seq(BusSessions)
  BY DEF EmitEvent, FeInv
<1>1. /\ bus' \in Seq(BusSessions) /\ Len(bus') = Len(bus) + 1 /\ Len(bus) \in Nat
      /\ \A i \in 1..Len(bus) : bus'[i] = bus[i]
  BY <1>0
<1>2. ASSUME NEW p \in Peers PROVE Fed(p, feeds[p], bus)'
  <2>1. PICK f : f = feeds[p]
    OBVIOUS
  <2>2. Fed(p, f, bus) /\ f.from \in Nat /\ f.next \in Nat
    BY <2>1 DEF FeInv, Fed, FeedRecords
  <2>3. ASSUME InStep(f, bus) PROVE InStep(f, bus')
    <3>1. \A i \in f.from..(f.next - 1) : bus'[i] = bus[i]
      BY <1>1, <2>2, <2>3 DEF InStep
    <3>2. Due(f, bus') = Due(f, bus)
      BY <3>1 DEF Due
    <3>3. f.next <= Len(bus') + 1
      BY <1>1, <2>2, <2>3 DEF InStep
    <3> QED BY <2>3, <3>2, <3>3 DEF InStep
  <2> QED BY <1>0, <2>1, <2>2, <2>3 DEF Fed
<1> QED BY <1>0, <1>1, <1>2 DEF FeInv

LEMMA FeedClosesKeeps == ASSUME FeInv, NEW p \in Peers, FeedCloses(p) PROVE FeInv'
<1>1. PICK f : f = feeds[p]
  OBVIOUS
<1>2. Fed(p, f, bus) /\ f \in FeedRecords /\ f.st = "open"
  BY <1>1 DEF FeInv, Fed, FeedCloses
<1>3. PICK g : g = [f EXCEPT !.st = "left"]
  OBVIOUS
<1>4. /\ g \in FeedRecords /\ g.st = "left" /\ g.from = f.from /\ g.next = f.next /\ g.filter = f.filter
      /\ g.plain = f.plain /\ g.got = f.got /\ g.missed = f.missed
  BY <1>2, <1>3 DEF FeedRecords
<1>5. Fed(p, g, bus)
  <2>1. InStep(f, bus)
    BY <1>2 DEF Fed
  <2>2. Due(g, bus) = Due(f, bus)
    BY <1>4 DEF Due
  <2>3. InStep(g, bus)
    BY <1>4, <2>1, <2>2 DEF InStep
  <2> QED BY <1>2, <1>4, <2>3 DEF Fed
<1>6. feeds' = [feeds EXCEPT ![p] = g] /\ UNCHANGED <<keyed, holders, served, bus>>
  BY <1>1, <1>3 DEF FeedCloses, FeInv
<1>7. \A s \in served' : s.path \in PublicPaths \/ s.peer \in GivenKey \cup {Loopback}
  BY <1>6 DEF FeInv
<1> QED BY <1>5, <1>6, <1>7, FeedMoves

LEMMA ForwardKeeps == ASSUME FeInv, NEW p \in Peers, Forward(p) PROVE FeInv'
<1>1. PICK f : f = feeds[p]
  OBVIOUS
<1>2. /\ Fed(p, f, bus) /\ f \in FeedRecords /\ f.st \in {"open", "left"} /\ f.next <= Len(bus)
      /\ UNCHANGED <<keyed, holders, served, bus>>
  BY <1>1 DEF FeInv, Fed, Forward
<1>3. InStep(f, bus)
  BY <1>2 DEF Fed
<1>4. /\ f.from \in Nat /\ f.next \in Nat /\ f.filter \in BusSessions /\ f.plain \in BOOLEAN
      /\ f.got \in Seq(SentEvents)
      /\ f.missed \in SUBSET Nat /\ Len(bus) \in Nat /\ 1 <= f.from /\ f.from <= f.next
      /\ \A i \in f.missed : i < f.next
  BY <1>2, <1>3 DEF FeedRecords, FeInv, InStep
<1>5. PICK x : x = bus[f.next]
  OBVIOUS
<1>6. \A s \in served' : s.path \in PublicPaths \/ s.peer \in GivenKey \cup {Loopback}
  BY <1>2 DEF FeInv
<1>7. CASE f.next < Oldest
  <2>1. PICK o : o = Oldest
    OBVIOUS
  <2>2. o \in Nat /\ f.next < o /\ o <= Len(bus) + 1
    BY <1>4, <1>7, <2>1, HttpAssumption DEF Oldest
  <2>3. PICK g : g = [f EXCEPT !.next = o, !.missed = @ \cup (f.next..(o - 1))]
    OBVIOUS
  <2>4. feeds' = [feeds EXCEPT ![p] = g]
    BY <1>1, <1>7, <2>1, <2>3 DEF Forward
  <2>5. f.next..(o - 1) \subseteq Nat
    BY <1>4, <2>2
  <2>6. /\ g \in FeedRecords /\ g.st = f.st /\ g.from = f.from /\ g.next = o /\ g.filter = f.filter
        /\ g.plain = f.plain /\ g.got = f.got /\ g.missed = f.missed \cup (f.next..(o - 1))
    BY <1>2, <1>4, <2>2, <2>3, <2>5 DEF FeedRecords
  <2>7. Due(g, bus) = Due(f, bus)
    <3>1. \A i : i \in f.from..(o - 1) /\ i \notin f.next..(o - 1) <=> i \in f.from..(f.next - 1)
      BY <1>4, <2>2
    <3> QED BY <2>6, <3>1 DEF Due
  <2>8. \A i \in g.missed : i < g.next
    BY <1>4, <2>2, <2>6
  <2>9. 1 <= g.from /\ g.from <= g.next /\ g.next <= Len(bus) + 1
    BY <1>4, <2>2, <2>6
  <2>10. InStep(g, bus)
    BY <1>3, <2>6, <2>7, <2>8, <2>9 DEF InStep
  <2>11. Fed(p, g, bus)
    BY <1>2, <2>6, <2>10 DEF Fed
  <2> QED BY <1>2, <1>6, <2>4, <2>11, FeedMoves
<1>8. CASE ~(f.next < Oldest) /\ f.st = "left" /\ Concerns(f, x)
  <2>1. feeds' = [feeds EXCEPT ![p] = NoFeed]
    BY <1>1, <1>5, <1>8 DEF Forward
  <2> QED BY <1>2, <1>6, <2>1, NoFeedFed, FeedMoves
<1>9. CASE ~(f.next < Oldest) /\ ~(f.st = "left" /\ Concerns(f, x))
  <2>1. PICK e : e = [event |-> f.next, prompt |-> f.plain]
    OBVIOUS
  <2>2. PICK log : log = IF Concerns(f, x) THEN Append(f.got, e) ELSE f.got
    OBVIOUS
  <2>3. PICK g : g = [f EXCEPT !.next = f.next + 1, !.got = log]
    OBVIOUS
  <2>4. feeds' = [feeds EXCEPT ![p] = g]
    BY <1>1, <1>5, <1>9, <2>1, <2>2, <2>3 DEF Forward
  <2>5. e \in SentEvents /\ e.event = f.next /\ e.prompt = f.plain
    BY <1>4, <2>1 DEF SentEvents
  <2>6. log \in Seq(SentEvents)
    BY <1>4, <2>2, <2>5
  <2>7. /\ g \in FeedRecords /\ g.st = f.st /\ g.from = f.from /\ g.next = f.next + 1 /\ g.filter = f.filter
        /\ g.plain = f.plain /\ g.got = log /\ g.missed = f.missed
    <3>1. f.next + 1 \in Nat
      BY <1>4
    <3>2. PICK n \in Nat : n = f.next + 1
      BY <3>1
    <3>3. g = [f EXCEPT !.next = n, !.got = log]
      BY <2>3, <3>2
    <3>4. /\ g \in FeedRecords /\ g.st = f.st /\ g.from = f.from /\ g.next = n /\ g.filter = f.filter
          /\ g.plain = f.plain /\ g.got = log /\ g.missed = f.missed
      BY <1>2, <2>6, <3>3 DEF FeedRecords
    <3> QED BY <3>2, <3>4
  <2>8. \A i : i \in f.from..f.next <=> i \in f.from..(f.next - 1) \/ i = f.next
    BY <1>4
  <2>9. f.next \notin f.missed /\ f.next \notin f.from..(f.next - 1) /\ (f.next + 1) - 1 = f.next
    BY <1>4
  <2>10. Due(g, bus) = IF Concerns(f, x) THEN Due(f, bus) \cup {f.next} ELSE Due(f, bus)
    BY <1>5, <2>7, <2>8, <2>9 DEF Due, Concerns
  <2>11. \A i \in DOMAIN f.got : f.got[i].event \in Due(f, bus)
    BY <1>3 DEF InStep
  <2>12. \A i \in DOMAIN f.got : f.got[i].event < f.next
    <3>1. \A i \in Due(f, bus) : i < f.next
      <4>1. Due(f, bus) \subseteq f.from..(f.next - 1)
        BY DEF Due
      <4>2. \A i \in f.from..(f.next - 1) : i < f.next
        BY <1>4
      <4> QED BY <4>1, <4>2
    <3> QED BY <2>11, <3>1
  <2>13. /\ {log[i].event : i \in DOMAIN log} = Due(g, bus)
         /\ \A i, j \in DOMAIN log : i < j => log[i].event < log[j].event
         /\ \A i \in DOMAIN log : log[i].prompt => f.plain
    <3>1. CASE Concerns(f, x)
      <4>1. PICK m : m = Len(f.got)
        OBVIOUS
      <4>2. /\ m \in Nat /\ DOMAIN f.got = 1..m /\ DOMAIN log = 1..(m + 1) /\ log[m + 1] = e
            /\ \A i \in 1..m : log[i] = f.got[i]
        BY <1>4, <2>2, <2>5, <3>1, <4>1
      <4>3. \A i : i \in 1..(m + 1) <=> i \in 1..m \/ i = m + 1
        BY <4>2
      <4>4. {log[i].event : i \in DOMAIN log} = {f.got[i].event : i \in DOMAIN f.got} \cup {f.next}
        BY <2>5, <4>2, <4>3
      <4>5. {log[i].event : i \in DOMAIN log} = Due(g, bus)
        BY <1>3, <2>10, <3>1, <4>4 DEF InStep
      <4>6. ASSUME NEW i \in DOMAIN log, NEW j \in DOMAIN log, i < j PROVE log[i].event < log[j].event
        <5>1. i \in 1..m
          BY <4>2, <4>6
        <5>2. CASE j \in 1..m
          BY <1>3, <4>2, <4>6, <5>1, <5>2 DEF InStep
        <5>3. CASE j = m + 1
          BY <2>5, <2>12, <4>2, <5>1, <5>3
        <5> QED BY <4>2, <4>3, <5>2, <5>3
      <4>7. ASSUME NEW i \in DOMAIN log, log[i].prompt PROVE f.plain
        <5>1. CASE i \in 1..m
          BY <1>2, <4>2, <4>7, <5>1 DEF Fed
        <5>2. CASE i = m + 1
          BY <2>5, <4>2, <4>7, <5>2
        <5> QED BY <4>2, <4>3, <5>1, <5>2
      <4> QED BY <4>5, <4>6, <4>7
    <3>2. CASE ~Concerns(f, x)
      <4>1. log = f.got /\ Due(g, bus) = Due(f, bus)
        BY <2>2, <2>10, <3>2
      <4>2. \A i \in DOMAIN log : log[i].prompt => f.plain
        BY <1>2, <4>1 DEF Fed
      <4> QED BY <1>3, <4>1, <4>2 DEF InStep
    <3> QED BY <3>1, <3>2
  <2>14. \A i \in g.missed : i < g.next
    BY <1>4, <2>7
  <2>15. 1 <= g.from /\ g.from <= g.next /\ g.next <= Len(bus) + 1
    BY <1>2, <1>4, <2>7
  <2>16. InStep(g, bus)
    BY <2>7, <2>13, <2>14, <2>15 DEF InStep
  <2>17. \A i \in DOMAIN g.got : g.got[i].prompt => g.plain
    BY <2>7, <2>13
  <2>18. g.plain => keyed /\ p \in holders
    BY <1>2, <2>7 DEF Fed
  <2>19. Fed(p, g, bus)
    BY <2>7, <2>16, <2>17, <2>18 DEF Fed
  <2> QED BY <1>2, <1>6, <2>4, <2>19, FeedMoves
<1> QED BY <1>7, <1>8, <1>9

LEMMA FeedUntouched ==
    ASSUME FeInv, UNCHANGED <<keyed, holders, bus, feeds>>,
           \A s \in served' : s.path \in PublicPaths \/ s.peer \in GivenKey \cup {Loopback}
    PROVE  FeInv'
<1>1. ASSUME NEW q \in Peers PROVE Fed(q, feeds[q], bus)'
  <2>1. Fed(q, feeds[q], bus)
    BY DEF FeInv
  <2> QED BY <2>1 DEF Fed
<1> QED BY <1>1 DEF FeInv

LEMMA LimitedFeeds == ASSUME FeInv, NEW p \in Peers, NEW h, Limited(p, h) PROVE FeInv'
<1>1. PICK shows \in Shows(p) : auth_middleware(p, "/agent", shows) /\ Serves(p, "/agent")
  BY DEF Limited
<1>2. p \in GivenKey \cup {Loopback}
  BY <1>1, LetThrough DEF PublicPaths
<1>3. \A s \in served' : s.path \in PublicPaths \/ s.peer \in GivenKey \cup {Loopback}
  BY <1>1, <1>2, ServesKeeps
<1> QED BY <1>3, FeedUntouched DEF Limited

LEMMA PauseFeeds == ASSUME FeInv, NEW d, Pause(d) PROVE FeInv'
BY FeedUntouched DEF Pause, FeInv

LEMMA FeInvSays == ASSUME FeInv PROVE OnlyKeyHolders /\ FeedExact /\ keyed \in BOOLEAN /\ holders \subseteq Peers
<1>1. \A p \in Peers : \A i \in DOMAIN feeds[p].got : feeds[p].got[i].prompt => keyed /\ p \in holders
  BY DEF FeInv, Fed
<1>2. FeedExact
  BY DEF FeInv, Fed, InStep, Due, FeedExact
<1> QED BY <1>1, <1>2 DEF FeInv, OnlyKeyHolders
-----------------------------------------------------------------------------
(* The desk.                                                               *)

LEMMA DaemonOfDesk ==
    /\ DeskInit => DaemonInit /\ StartInit /\ StoreInit /\ HttpInit
    /\ [DeskNext]_deskVars => /\ [DaemonNext]_daemonVars /\ [StartNext]_startVars
                              /\ [StoreNext]_storeVars /\ [LimitNext \/ FeedNext]_httpVars
<1>1. DeskInit => DaemonInit /\ StartInit /\ StoreInit /\ HttpInit
  BY DEF DeskInit
<1>2. UNCHANGED hostVars => UNCHANGED daemonVars /\ UNCHANGED startVars /\ UNCHANGED storeVars /\ UNCHANGED httpVars
  BY DEF hostVars
<1>3. DeskNext => DaemonNext \/ UNCHANGED daemonVars
  BY <1>2 DEF DeskNext
<1>4. DeskNext => StartNext \/ UNCHANGED startVars
  BY <1>2 DEF DeskNext
<1>5. DeskNext => StoreNext \/ UNCHANGED storeVars
  BY <1>2 DEF DeskNext
<1>6. DeskNext => LimitNext \/ FeedNext \/ UNCHANGED httpVars
  BY <1>2 DEF DeskNext
<1>7. UNCHANGED deskVars => UNCHANGED daemonVars /\ UNCHANGED startVars /\ UNCHANGED storeVars /\ UNCHANGED httpVars
  BY <1>2 DEF deskVars
<1> QED BY <1>1, <1>3, <1>4, <1>5, <1>6, <1>7

LEMMA DaemonStays == DmInv /\ [DaemonNext]_daemonVars => DmInv'
<1>1. ASSUME DmInv, UNCHANGED daemonVars PROVE DmInv'
  <2>1. UNCHANGED <<pidfile, socket, port, proc, listener, signalled, query, wanted, overlapped, tornMet>>
    BY <1>1 DEF daemonVars
  <2>2. DmTypes' /\ PortHeld' /\ FileWritten'
    BY <1>1, <2>1 DEF DmInv, DmTypes, PortHeld, FileWritten
  <2>3. SomeSecure' /\ FailingNamed'
    BY <1>1, <2>1 DEF DmInv, SomeSecure, Secure, FailingNamed, Torn, Alive, NoFile
  <2>4. Exclusive'
    BY <1>1, <2>1 DEF DmInv, Exclusive, Starting, Serving, Alive
  <2> QED BY <2>2, <2>3, <2>4 DEF DmInv
<1> QED BY <1>1, DmStepInv

LEMMA StoreStays == StInv /\ [StoreNext]_storeVars => StInv'
<1>1. ASSUME StInv, UNCHANGED storeVars PROVE StInv'
  BY <1>1 DEF StInv, StTypes, Versions, Opened, In002, In003, storeVars
<1>2. StInv /\ StoreNext => StInv'
  BY OpenKeeps, ExecKeeps, Seal1Keeps, Seal2Keeps, StoreDiesKeeps DEF StoreNext
<1> QED BY <1>1, <1>2

LEMMA StartStays == SuInv /\ [StartNext]_startVars => SuInv'
<1>1. ASSUME SuInv, UNCHANGED startVars PROVE SuInv'
  BY <1>1 DEF SuInv, startVars
<1>2. SuInv /\ StartNext => SuInv'
  BY LoadKeeps, AssembleKeeps DEF StartNext
<1> QED BY <1>1, <1>2

LEMMA LimitStays == LiInv /\ [LimitNext \/ FeedNext]_httpVars => LiInv'
<1>1. ASSUME LiInv, UNCHANGED httpVars PROVE LiInv'
  BY <1>1, LimitUntouched DEF httpVars
<1>2. ASSUME LiInv, LimitNext PROVE LiInv'
  BY <1>2, LimitedKeeps, PauseKeeps DEF LimitNext
<1>3. ASSUME LiInv, FeedNext PROVE LiInv'
  <2>1. UNCHANGED <<time, buckets, checks, allowed, refused>>
    BY <1>3 DEF FeedNext, handle_auth_session, Forward, FeedCloses, handle_events, EmitEvent
  <2> QED BY <1>3, <2>1, LimitUntouched
<1> QED BY <1>1, <1>2, <1>3

LEMMA FeedsStay == FeInv /\ [LimitNext \/ FeedNext]_httpVars => FeInv'
<1>1. ASSUME FeInv, UNCHANGED httpVars PROVE FeInv'
  <2>1. UNCHANGED <<keyed, holders, bus, feeds, served>>
    BY <1>1 DEF httpVars
  <2> QED BY <1>1, <2>1, FeedUntouched DEF FeInv
<1>2. ASSUME FeInv, LimitNext PROVE FeInv'
  BY <1>2, LimitedFeeds, PauseFeeds DEF LimitNext
<1>3. ASSUME FeInv, FeedNext PROVE FeInv'
  BY <1>3, AuthSessionKeeps, ForwardKeeps, FeedClosesKeeps, EventsKeeps, EmitKeeps DEF FeedNext, BusSessions
<1> QED BY <1>1, <1>2, <1>3

(* However many starts race and wherever daemons die, a start that was     *)
(* wanted ends with a daemon that serves or met a torn pid file, and a     *)
(* daemon alone at the pid file keeps its socket (cli/start.rs run_start); *)
(* what load accepts assembles (kun_config, di_earth); a store that opens  *)
(* has its whole schema (gen_store Store::open); and the endpoints serve   *)
(* the holders of the key alone, within the limit and never refusing short *)
(* of it, and feed each client all that concerns it, once and in order     *)
(* (dui_gateway auth.rs, events.rs).                                       *)
THEOREM DaemonIsServed == DeskSpec => []DaemonServes
<1>1. DaemonInit => DmInv
  BY DmInitInv
<1>2. StartInit => SuInv
  BY SuInitInv
<1>3. StoreInit => StInv
  BY StInitInv
<1>4. HttpInit => LiInv /\ FeInv
  BY LiInitInv, FeInitInv
<1>5. DeskSpec => []DmInv
  BY <1>1, DaemonOfDesk, DaemonStays, PTL DEF DeskSpec
<1>6. DeskSpec => []SuInv
  BY <1>2, DaemonOfDesk, StartStays, PTL DEF DeskSpec
<1>7. DeskSpec => []StInv
  BY <1>3, DaemonOfDesk, StoreStays, PTL DEF DeskSpec
<1>8. DeskSpec => []LiInv
  BY <1>4, DaemonOfDesk, LimitStays, PTL DEF DeskSpec
<1>9. DeskSpec => []FeInv
  BY <1>4, DaemonOfDesk, FeedsStay, PTL DEF DeskSpec
<1>10. DmInv /\ SuInv /\ StInv /\ LiInv /\ FeInv => DaemonServes
  BY DmInvSays, SuInvSays, StInvSays, LiInvSays, FeInvSays DEF DaemonServes, HttpTypeOK
<1> QED BY <1>5, <1>6, <1>7, <1>8, <1>9, <1>10, PTL

=============================================================================
