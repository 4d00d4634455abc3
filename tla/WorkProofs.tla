------------------------------ MODULE WorkProofs ----------------------------
(***************************************************************************)
(* Proofs about the work a run leaves to others: sub-agents, for any       *)
(* number of calls, kinds, permits and sessions kept; background tasks,    *)
(* for any tasks and loops; scheduled jobs, for any jobs and cooldowns;    *)
(* and any number of crashes of each.                                      *)
(***************************************************************************)
EXTENDS MCWork, FiniteSetTheorems

-----------------------------------------------------------------------------
(* Sub-agents.  The inductive invariant: SubagentsKept, and what it needs. *)

RunRecords ==
    {r \in [pc : {"none", "waiting", "admitted", "running", "reported", "stored"} \cup Ended,
            kind : AgentKinds \cup {"none"}, sid : 0..MaxCalls, hist : SUBSET Calls,
            tree : 0..MaxCalls, guarded : BOOLEAN, detached : BOOLEAN,
            verdict : {"none", "PASS", "FAIL", "unparseable"}, says : BOOLEAN] :
        /\ r.verdict = "FAIL" => r.says
        /\ r.verdict # "none" => r.kind = "Verifier"}
Sessions ==
    [kind : AgentKinds, hist : SUBSET Calls, tree : 0..MaxCalls, guarded : BOOLEAN]
ParentRecords ==
    [state : {"idle", "waits", "returned"}, calls : SUBSET Calls,
     cancelled : BOOLEAN, failed : BOOLEAN]

Typed ==
    /\ run \in [Calls -> RunRecords]
    /\ mem \in [Calls -> Sessions \cup {NoSession}]
    /\ db \in [Calls -> Sessions \cup {NoSession}]
    /\ recent \in Seq(Calls)
    /\ trees \subseteq Calls
    /\ permits \in Nat
    /\ multiplier \in 1..MaxMultiplier
    /\ parent \in ParentRecords
    /\ restarts \in Nat

Begun(c) == run[c].pc # "none"

(* Calls are numbered in the order in which they begin.                    *)
Numbered == \A c, d \in Calls : Begun(d) /\ c <= d => Begun(c)

(* A run that has begun belongs to a session that has, and shares its kind *)
(* and authorisation.                                                      *)
RunsBound ==
    \A c \in Calls : Begun(c) =>
        /\ run[c].sid \in Calls /\ Begun(run[c].sid)
        /\ run[c].kind \in AgentKinds
        /\ run[c].kind = run[run[c].sid].kind
        /\ run[c].guarded = run[run[c].sid].guarded

(* So does what is kept of a session, in memory and in the store.          *)
KeptOf(table) ==
    \A s \in Calls : table[s] # NoSession =>
        Begun(s) /\ table[s].kind = run[s].kind /\ table[s].guarded = run[s].guarded

(* The list of keys holds each session in memory once.                     *)
RecentOnce ==
    /\ \A i, j \in 1..Len(recent) : recent[i] = recent[j] => i = j
    /\ \A s \in Calls : mem[s] # NoSession <=> \E i \in 1..Len(recent) : recent[i] = s

(* When a tool call has returned, its runs have ended.                     *)
Returned ==
    parent.state = "returned" => \A c \in parent.calls : run[c].pc \in Ended

SubInv ==
    /\ Typed /\ Numbered /\ RunsBound /\ KeptOf(mem) /\ KeptOf(db) /\ RecentOnce
    /\ CoderIsolated /\ Returned /\ ReportedSurvives /\ FailHeard

LEMMA SubTypes ==
    ASSUME Typed
    PROVE  /\ \A c \in Calls :
                /\ c \in Nat /\ c # 0 /\ c \in 0..MaxCalls
                /\ run[c] \in RunRecords
                /\ mem[c] \in Sessions \cup {NoSession} /\ db[c] \in Sessions \cup {NoSession}
           /\ NoRun \in RunRecords /\ NoParent \in ParentRecords
           /\ MaxCalls \in Nat /\ IsFiniteSet(Calls) /\ "none" \notin AgentKinds
           /\ NoSession.kind = "none" /\ \A s \in Sessions : s # NoSession
<1>1. /\ MaxCalls \in Nat /\ IsFiniteSet(1..MaxCalls)
      /\ "none" \notin AgentKinds
  BY SubagentsAssumption, FS_Interval
<1>2. NoRun \in RunRecords
  BY <1>1 DEF NoRun, RunRecords, NoTree
<1>3. NoParent \in ParentRecords
  BY DEF NoParent, ParentRecords
<1>4. NoSession.kind = "none" /\ \A s \in Sessions : s # NoSession
  BY <1>1 DEF NoSession, Sessions
<1>5. \A c \in Calls : c \in Nat /\ c # 0 /\ c \in 0..MaxCalls
  BY <1>1 DEF Calls
<1>6. \A c \in Calls : /\ run[c] \in RunRecords /\ mem[c] \in Sessions \cup {NoSession}
                       /\ db[c] \in Sessions \cup {NoSession}
  BY DEF Typed
<1> QED BY <1>1, <1>2, <1>3, <1>4, <1>5, <1>6 DEF Calls

(* What is selected of a sequence without repetitions has none, and holds  *)
(* the elements at the selected places.                                    *)
Picked(t, s, I) ==
    /\ \A i, j \in 1..Len(t) : t[i] = t[j] => i = j
    /\ \A i \in 1..Len(t) : \E k \in 1..Len(s) : k \in I /\ t[i] = s[k]
    /\ \A k \in 1..Len(s) : k \in I => \E i \in 1..Len(t) : t[i] = s[k]

LEMMA PickedAt ==
    ASSUME NEW S, NEW s \in Seq(S), NEW I,
           \A i, j \in 1..Len(s) : s[i] = s[j] => i = j
    PROVE  At(s, I) \in Seq(S) /\ Picked(At(s, I), s, I)
<1>1. PICK t : t = At(s, I)
  OBVIOUS
<1>2. t \in Seq(S) /\ \E f : Places(f, t, s, I, Len(s))
  BY <1>1, AtPlaces
<1>3. PICK f : Places(f, t, s, I, Len(s))
  BY <1>2
<1>4. /\ Len(t) \in Nat /\ Len(s) \in Nat
      /\ \A i \in 1..Len(t) : f[i] \in 1..Len(s) /\ f[i] \in I /\ t[i] = s[f[i]]
      /\ \A k \in 1..Len(s) : k \in I => \E j \in 1..Len(t) : f[j] = k
      /\ \A i, j \in 1..Len(t) : i < j => f[i] < f[j]
  BY <1>2, <1>3 DEF Places
<1>5. \A i, j \in 1..Len(t) : i < j => t[i] # t[j]
  BY <1>4, SMTT(40)
<1>6. \A i, j \in 1..Len(t) : t[i] = t[j] => i = j
  BY <1>4, <1>5, SMTT(40)
<1>7. \A i \in 1..Len(t) : \E k \in 1..Len(s) : k \in I /\ t[i] = s[k]
  BY <1>4
<1>8. \A k \in 1..Len(s) : k \in I => \E i \in 1..Len(t) : t[i] = s[k]
  BY <1>4
<1> QED BY <1>1, <1>2, <1>6, <1>7, <1>8 DEF Picked

(* Moving x to the end: the others stay, once each, and x is there once.   *)
Moved(t, s, x) ==
    /\ \A i, j \in 1..Len(t) : t[i] = t[j] => i = j
    /\ \A y : (\E i \in 1..Len(t) : t[i] = y) <=> y = x \/ \E i \in 1..Len(s) : s[i] = y

LEMMA MovedToEnd ==
    ASSUME NEW S, NEW s \in Seq(S), NEW x \in S,
           \A i, j \in 1..Len(s) : s[i] = s[j] => i = j
    PROVE  Append(Without(s, x), x) \in Seq(S) /\ Moved(Append(Without(s, x), x), s, x)
<1> DEFINE I == {i \in 1..Len(s) : s[i] # x}
<1>1. PICK t : t = Without(s, x)
  OBVIOUS
<1>2. t = At(s, I)
  BY <1>1 DEF Without
<1> HIDE DEF I
<1>3. t \in Seq(S) /\ Picked(t, s, I)
  BY <1>2, PickedAt
<1>4. PICK u : u = Append(t, x)
  OBVIOUS
<1>5. /\ u \in Seq(S) /\ Len(t) \in Nat /\ Len(u) = Len(t) + 1 /\ u[Len(t) + 1] = x
      /\ \A i \in 1..Len(t) : u[i] = t[i]
  BY <1>3, <1>4
<1>6. \A k \in 1..Len(s) : k \in I <=> s[k] # x
  BY DEF I
<1>7. \A i \in 1..Len(t) : t[i] # x
  BY <1>3, <1>6 DEF Picked
<1>8. \A i, j \in 1..Len(u) : u[i] = u[j] => i = j
  <2> SUFFICES ASSUME NEW i \in 1..Len(u), NEW j \in 1..Len(u), u[i] = u[j] PROVE i = j
    OBVIOUS
  <2>1. (i \in 1..Len(t) \/ i = Len(t) + 1) /\ (j \in 1..Len(t) \/ j = Len(t) + 1)
    BY <1>5
  <2>2. CASE i \in 1..Len(t) /\ j \in 1..Len(t)
    BY <1>3, <1>5, <2>2 DEF Picked
  <2> QED BY <1>5, <1>7, <2>1, <2>2
<1>9. ASSUME NEW y PROVE (\E i \in 1..Len(u) : u[i] = y) <=> y = x \/ \E i \in 1..Len(s) : s[i] = y
  <2>1. ASSUME NEW i \in 1..Len(u), u[i] = y PROVE y = x \/ \E k \in 1..Len(s) : s[k] = y
    <3>1. i \in 1..Len(t) \/ i = Len(t) + 1
      BY <1>5
    <3>2. CASE i \in 1..Len(t)
      BY <1>3, <1>5, <2>1, <3>2 DEF Picked
    <3> QED BY <1>5, <2>1, <3>1, <3>2
  <2>2. CASE y = x
    <3>1. Len(t) + 1 \in 1..Len(u)
      BY <1>5
    <3> QED BY <1>5, <2>2, <3>1
  <2>3. ASSUME NEW k \in 1..Len(s), s[k] = y, y # x PROVE \E i \in 1..Len(u) : u[i] = y
    <3>1. PICK i \in 1..Len(t) : t[i] = s[k]
      BY <1>3, <1>6, <2>3 DEF Picked
    <3>2. i \in 1..Len(u)
      BY <1>5
    <3> QED BY <1>5, <2>3, <3>1, <3>2
  <2> QED BY <2>1, <2>2, <2>3
<1>10. Moved(u, s, x)
  BY <1>8, <1>9 DEF Moved
<1> QED BY <1>1, <1>4, <1>5, <1>10

LEMMA NextFresh ==
    ASSUME Typed, Fresh # {}
    PROVE  /\ NextCallId \in Calls /\ ~Begun(NextCallId)
           /\ \A d \in Calls : d < NextCallId => Begun(d)
<1>1. Fresh \in SUBSET Nat /\ \A c \in Calls : c \in Fresh <=> ~Begun(c)
  BY DEF Fresh, Calls, Begun
<1>2. \E m \in Fresh : \A n \in Fresh : m <= n
  BY <1>1, LeastNumber
<1>3. PICK m : m = NextCallId
  OBVIOUS
<1>4. m \in Fresh /\ \A n \in Fresh : m <= n
  BY <1>2, <1>3 DEF NextCallId
<1>5. m \in Calls /\ ~Begun(m)
  BY <1>4 DEF Fresh, Begun
<1>6. \A d \in Calls : d < m => Begun(d)
  <2> SUFFICES ASSUME NEW d \in Calls, d < m, ~Begun(d) PROVE FALSE
    OBVIOUS
  <2>1. m <= d /\ m \in Nat /\ d \in Nat
    BY <1>1, <1>4
  <2> QED BY <2>1
<1> QED BY <1>3, <1>5, <1>6

(* Most steps neither begin a run nor change what it is bound to.          *)
Carried ==
    \A c \in Calls :
        /\ Begun(c)' <=> Begun(c)
        /\ Begun(c) => /\ run'[c].kind = run[c].kind /\ run'[c].sid = run[c].sid
                       /\ run'[c].guarded = run[c].guarded

LEMMA CarriedKeeps ==
    ASSUME SubInv, Carried
    PROVE  /\ Numbered' /\ RunsBound'
           /\ mem' = mem => KeptOf(mem)'
           /\ db' = db => KeptOf(db)'
<1>1. Numbered'
  BY DEF SubInv, Numbered, Carried
<1>2. RunsBound'
  BY DEF SubInv, RunsBound, Carried
<1>3. ASSUME mem' = mem PROVE KeptOf(mem)'
  BY <1>3 DEF SubInv, KeptOf, Carried
<1>4. ASSUME db' = db PROVE KeptOf(db)'
  BY <1>4 DEF SubInv, KeptOf, Carried
<1> QED BY <1>1, <1>2, <1>3, <1>4

(* A run that has ended is never changed again.                            *)
EndedStays == \A c \in Calls : run[c].pc \in Ended => run'[c] = run[c]

(* Whether a FAIL was heard depends on the runs of the tool call.          *)
LEMMA SameVerdicts ==
    ASSUME parent' = parent, \A c \in parent.calls : run'[c] = run[c], FailHeard
    PROVE  FailHeard'
<1> DEFINE B == Batch
           R == Reports(B)
           V == Verdicts(B)
<1>1. B' = B /\ \A c \in B : run'[c] = run[c]
  BY DEF Batch
<1>2. R' = R /\ \A c \in R : run'[c] = run[c]
  BY <1>1 DEF Reports, Batch
<1>3. V' = V /\ \A c \in V : run'[c] = run[c]
  BY <1>1, <1>2 DEF Verdicts
<1>4. parent.state = "returned" =>
        /\ \A c \in V : run[c].verdict = "FAIL" /\ ~parent.failed =>
                \E d \in V : d < c /\ run[d].verdict = "PASS"
        /\ parent.failed =>
                /\ \E c \in R : run[c].says
                /\ \A c \in V : run[c].verdict = "PASS" => \E d \in V : d < c
  BY DEF FailHeard
<1> HIDE DEF B, R, V
<1>5. parent'.state = "returned" =>
        /\ \A c \in V' : run'[c].verdict = "FAIL" /\ ~parent'.failed =>
                \E d \in V' : d < c /\ run'[d].verdict = "PASS"
        /\ parent'.failed =>
                /\ \E c \in R' : run'[c].says
                /\ \A c \in V' : run'[c].verdict = "PASS" => \E d \in V' : d < c
  BY <1>2, <1>3, <1>4
<1> QED BY <1>5 DEF FailHeard, B, R, V

LEMMA ReturnedKeeps ==
    ASSUME SubInv, EndedStays, parent' = parent
    PROVE  Returned' /\ FailHeard'
<1>1. CASE parent.state # "returned"
  BY <1>1 DEF Returned, FailHeard
<1>2. CASE parent.state = "returned"
  <2>1. /\ parent.calls \in SUBSET Calls
        /\ \A c \in parent.calls : c \in Calls /\ run[c].pc \in Ended
    BY <1>2 DEF SubInv, Typed, ParentRecords, Returned
  <2>2. \A c \in parent.calls : run'[c] = run[c]
    BY <2>1 DEF EndedStays
  <2>5. Returned'
    BY <2>1, <2>2 DEF Returned
  <2>6. FailHeard'
    BY <1>2, <2>2, SameVerdicts DEF SubInv
  <2> QED BY <2>5, <2>6
<1> QED BY <1>1, <1>2

LEMMA ElsewhereKeeps ==
    ASSUME parent'.state # "returned"
    PROVE  Returned' /\ FailHeard'
BY DEF Returned, FailHeard

(* The runs of T begin, in the order of their numbers, bound to sessions   *)
(* of their own or to sessions that are there.                             *)
Starts(T) ==
    /\ T \subseteq Calls /\ \A c \in T : ~Begun(c)
    /\ \A c \in Calls, d \in T : c <= d => Begun(c) \/ c \in T
    /\ \A c \in Calls : c \notin T => run'[c] = run[c]
    /\ \A c \in T :
        /\ run'[c] \in RunRecords /\ run'[c].pc = "waiting" /\ run'[c].kind \in AgentKinds
        /\ run'[c].sid \in Calls
        /\ run'[c].sid # c => /\ Begun(run'[c].sid) /\ run'[c].kind = run[run'[c].sid].kind
                              /\ run'[c].guarded = run[run'[c].sid].guarded

LEMMA StartsKeeps ==
    ASSUME SubInv, NEW T, Starts(T), mem' = mem, db' = db, trees' = trees
    PROVE  /\ Numbered' /\ RunsBound' /\ KeptOf(mem)' /\ KeptOf(db)'
           /\ CoderIsolated' /\ ReportedSurvives' /\ EndedStays
<1>1. \A c \in Calls : Begun(c)' <=> Begun(c) \/ c \in T
  BY DEF Starts, Begun
<1>2. \A c \in Calls : Begun(c) => c \notin T /\ run'[c] = run[c]
  BY DEF Starts
<1>3. Numbered'
  <2> SUFFICES ASSUME NEW c \in Calls, NEW d \in Calls, Begun(d)', c <= d PROVE Begun(c)'
    BY DEF Numbered
  <2>1. CASE d \in T
    BY <1>1, <2>1 DEF Starts
  <2>2. CASE d \notin T
    BY <1>1, <2>2 DEF SubInv, Numbered
  <2> QED BY <2>1, <2>2
<1>4. RunsBound'
  <2> SUFFICES ASSUME NEW c \in Calls, Begun(c)'
               PROVE  /\ run'[c].sid \in Calls /\ Begun(run[c].sid)'
                      /\ run'[c].kind \in AgentKinds
                      /\ run'[c].kind = run'[run'[c].sid].kind
                      /\ run'[c].guarded = run'[run'[c].sid].guarded
    BY DEF RunsBound
  <2>1. CASE c \in T
    <3>1. PICK s \in Calls : s = run'[c].sid
      BY <2>1 DEF Starts
    <3>2. CASE s = c
      BY <1>1, <2>1, <3>1, <3>2 DEF Starts, Begun
    <3>3. CASE s # c
      <4>1. Begun(s) /\ run'[c].kind = run[s].kind /\ run'[c].guarded = run[s].guarded
        BY <2>1, <3>1, <3>3 DEF Starts
      <4>2. run'[s] = run[s] /\ run'[c].kind \in AgentKinds
        BY <1>2, <2>1, <4>1 DEF Starts
      <4> QED BY <3>1, <4>1, <4>2 DEF Begun
    <3> QED BY <3>2, <3>3
  <2>2. CASE c \notin T
    <3>1. Begun(c) /\ run'[c] = run[c]
      BY <1>1, <1>2, <2>2
    <3>2. /\ run[c].sid \in Calls /\ Begun(run[c].sid) /\ run[c].kind \in AgentKinds
          /\ run[c].kind = run[run[c].sid].kind /\ run[c].guarded = run[run[c].sid].guarded
      BY <3>1 DEF SubInv, RunsBound
    <3>3. run'[run[c].sid] = run[run[c].sid]
      BY <1>2, <3>2
    <3> QED BY <3>1, <3>2, <3>3 DEF Begun
  <2> QED BY <2>1, <2>2
<1>5. KeptOf(mem)' /\ KeptOf(db)'
  BY <1>1, <1>2 DEF SubInv, KeptOf
<1>6. CoderIsolated'
  <2> SUFFICES ASSUME NEW c \in Calls, run'[c].pc = "running", run'[c].kind = "Coder"
               PROVE  run'[c].tree \in trees /\ run'[c].tree # NoTree
    BY DEF CoderIsolated, IsAt
  <2>1. c \notin T
    BY DEF Starts
  <2>2. run'[c] = run[c]
    BY <2>1 DEF Starts
  <2> QED BY <2>2 DEF SubInv, CoderIsolated, IsAt
<1>7. ReportedSurvives'
  <2> SUFFICES ASSUME NEW c \in Calls, run'[c].pc = "done" PROVE db[run'[c].sid] # NoSession
    BY DEF ReportedSurvives, IsAt
  <2>1. c \notin T
    BY DEF Starts
  <2>2. run'[c] = run[c]
    BY <2>1 DEF Starts
  <2> QED BY <2>2 DEF SubInv, ReportedSurvives, IsAt
<1>8. EndedStays
  BY <1>2 DEF EndedStays, Begun, Ended
<1> QED BY <1>3, <1>4, <1>5, <1>6, <1>7, <1>8

LEMMA DelegateKeeps ==
    ASSUME SubInv, NEW kinds \in Seq(AgentKinds), NEW guarded \in BOOLEAN, delegate(kinds, guarded)
    PROVE  SubInv'
<1>1. /\ Typed /\ Fresh # {} /\ Len(kinds) \in Nat
      /\ mem' = mem /\ db' = db /\ trees' = trees /\ recent' = recent
      /\ permits' = permits /\ multiplier' = multiplier /\ restarts' = restarts
  BY DEF SubInv, delegate, rest
<1>2. PICK f : f = NextCallId
  OBVIOUS
<1>3. f \in Calls /\ ~Begun(f) /\ \A d \in Calls : d < f => Begun(d)
  BY <1>1, <1>2, NextFresh
<1>4. PICK T : T = f..(f + Len(kinds) - 1)
  OBVIOUS
<1>5. /\ T \subseteq Calls
      /\ run' = [c \in Calls |-> IF c \in T THEN NewRun(c, kinds[c - f + 1], guarded, FALSE)
                                 ELSE run[c]]
      /\ parent' = [NoParent EXCEPT !.state = "waits", !.calls = T]
  BY <1>2, <1>4 DEF delegate
<1>6. \A c \in Calls : c \in Nat /\ c \in 0..MaxCalls /\ run[c] \in RunRecords
  BY <1>1, SubTypes
<1>7. NoRun \in RunRecords /\ NoParent \in ParentRecords
  BY <1>1, SubTypes
<1>8. ASSUME NEW c \in T
      PROVE  /\ run'[c] \in RunRecords /\ run'[c].pc = "waiting" /\ run'[c].kind \in AgentKinds
             /\ run'[c].sid = c
  <2>1. PICK k : k = kinds[c - f + 1]
    OBVIOUS
  <2>2. k \in AgentKinds
    <3>1. c - f + 1 \in 1..Len(kinds)
      BY <1>1, <1>3, <1>4, <1>6
    <3> QED BY <2>1, <3>1
  <2>3. run'[c] = NewRun(c, k, guarded, FALSE)
    BY <1>5, <2>1
  <2>4. c \in 0..MaxCalls
    BY <1>5, <1>6
  <2> QED BY <1>7, <2>2, <2>3, <2>4 DEF NewRun, NoRun, RunRecords
<1>9. Starts(T)
  <2>1. \A c \in Calls, d \in T : c <= d => Begun(c) \/ c \in T
    BY <1>1, <1>3, <1>4, <1>5, <1>6
  <2>2. \A c \in T : ~Begun(c)
    <3> SUFFICES ASSUME NEW c \in T, Begun(c) PROVE FALSE
      OBVIOUS
    <3>1. c \in Calls /\ f <= c
      BY <1>4, <1>5
    <3> QED BY <1>3, <3>1 DEF SubInv, Numbered
  <2>3. \A c \in Calls : c \notin T => run'[c] = run[c]
    BY <1>5
  <2>4. \A c \in T :
            /\ run'[c] \in RunRecords /\ run'[c].pc = "waiting" /\ run'[c].kind \in AgentKinds
            /\ run'[c].sid \in Calls
            /\ run'[c].sid # c =>
                /\ Begun(run'[c].sid) /\ run'[c].kind = run[run'[c].sid].kind
                /\ run'[c].guarded = run[run'[c].sid].guarded
    BY <1>5, <1>8
  <2> QED BY <1>5, <2>1, <2>2, <2>3, <2>4 DEF Starts
<1>10. Typed'
  <2>1. run' \in [Calls -> RunRecords]
    BY <1>5, <1>6, <1>8
  <2>2. parent' \in ParentRecords
    BY <1>5, <1>7 DEF ParentRecords
  <2> QED BY <1>1, <2>1, <2>2 DEF Typed
<1>11. parent'.state # "returned"
  BY <1>5 DEF NoParent
<1>12. RecentOnce'
  BY <1>1 DEF SubInv, RecentOnce
<1> QED BY <1>1, <1>9, <1>10, <1>11, <1>12, StartsKeeps, ElsewhereKeeps DEF SubInv

LEMMA BackgroundKeeps ==
    ASSUME SubInv, NEW kind \in AgentKinds, delegate_background(kind)
    PROVE  SubInv'
<1>1. /\ Typed /\ Fresh # {}
      /\ mem' = mem /\ db' = db /\ trees' = trees /\ recent' = recent /\ parent' = parent
      /\ permits' = permits /\ multiplier' = multiplier /\ restarts' = restarts
  BY DEF SubInv, delegate_background, rest
<1>2. PICK f : f = NextCallId
  OBVIOUS
<1>3. f \in Calls /\ ~Begun(f) /\ \A d \in Calls : d < f => Begun(d)
  BY <1>1, <1>2, NextFresh
<1>4. run' = [run EXCEPT ![f] = NewRun(f, kind, FALSE, TRUE)]
  BY <1>2 DEF delegate_background
<1>5. \A c \in Calls : c \in Nat /\ c \in 0..MaxCalls /\ run[c] \in RunRecords
  BY <1>1, SubTypes
<1>6. NoRun \in RunRecords
  BY <1>1, SubTypes
<1>7. run \in [Calls -> RunRecords]
  BY <1>1 DEF Typed
<1>8. PICK r : r = NewRun(f, kind, FALSE, TRUE)
  OBVIOUS
<1>9. /\ r \in RunRecords /\ r.pc = "waiting" /\ r.kind \in AgentKinds /\ r.sid = f
  BY <1>3, <1>5, <1>6, <1>8 DEF NewRun, NoRun, RunRecords
<1>10. run'[f] = r /\ \A c \in Calls : c # f => run'[c] = run[c]
  BY <1>3, <1>4, <1>7, <1>8
<1>11. Starts({f})
  <2>1. \A c \in Calls : c <= f => Begun(c) \/ c = f
    BY <1>3, <1>5
  <2> QED BY <1>3, <1>9, <1>10, <2>1 DEF Starts
<1>12. Typed'
  <2>1. run' \in [Calls -> RunRecords]
    BY <1>4, <1>7, <1>8, <1>9
  <2> QED BY <1>1, <2>1 DEF Typed
<1>13. RecentOnce'
  BY <1>1 DEF SubInv, RecentOnce
<1>14. /\ Numbered' /\ RunsBound' /\ KeptOf(mem)' /\ KeptOf(db)'
       /\ CoderIsolated' /\ ReportedSurvives' /\ EndedStays
  BY <1>1, <1>11, StartsKeeps
<1>15. Returned' /\ FailHeard'
  BY <1>1, <1>14, ReturnedKeeps
<1> QED BY <1>12, <1>13, <1>14, <1>15 DEF SubInv

LEMMA SendKeeps ==
    ASSUME SubInv, NEW s \in Calls, send_message(s)
    PROVE  SubInv'
<1>1. /\ Typed /\ Fresh # {} /\ mem[s] # NoSession
      /\ mem' = mem /\ db' = db /\ trees' = trees
      /\ permits' = permits /\ multiplier' = multiplier /\ restarts' = restarts
  BY DEF SubInv, send_message
<1>2. PICK f : f = NextCallId
  OBVIOUS
<1>3. f \in Calls /\ ~Begun(f) /\ \A d \in Calls : d < f => Begun(d)
  BY <1>1, <1>2, NextFresh
<1>4. /\ run' = [run EXCEPT ![f] = Bound(f, s)]
      /\ recent' = Append(Without(recent, s), s)
      /\ parent' = [parent EXCEPT !.state = "waits", !.calls = @ \cup {f}]
  BY <1>2 DEF send_message
<1>5. \A c \in Calls : c \in Nat /\ c \in 0..MaxCalls /\ run[c] \in RunRecords
  BY <1>1, SubTypes
<1>6. NoRun \in RunRecords
  BY <1>1, SubTypes
<1>7. run \in [Calls -> RunRecords] /\ parent \in ParentRecords /\ recent \in Seq(Calls)
  BY <1>1 DEF Typed
<1>8. PICK r, m : r = Bound(f, s) /\ m = mem[s]
  OBVIOUS
<1>9. /\ m \in Sessions /\ Begun(s) /\ m.kind = run[s].kind /\ m.guarded = run[s].guarded
  <2>1. m \in Sessions \cup {NoSession}
    BY <1>1, <1>8, SubTypes
  <2> QED BY <1>1, <1>8, <2>1 DEF SubInv, KeptOf
<1>10. /\ r \in RunRecords /\ r.pc = "waiting" /\ r.kind = m.kind /\ r.guarded = m.guarded
       /\ r.sid = s
  <2>1. r = [NewRun(f, m.kind, m.guarded, FALSE)
                EXCEPT !.sid = s, !.hist = m.hist, !.tree = m.tree]
    BY <1>8 DEF Bound
  <2>2. PICK n : n = NewRun(f, m.kind, m.guarded, FALSE)
    OBVIOUS
  <2>3. m.kind \in AgentKinds /\ m.hist \in SUBSET Calls /\ m.tree \in 0..MaxCalls /\ m.guarded \in BOOLEAN
    BY <1>9 DEF Sessions
  <2>4. n \in RunRecords /\ n.pc = "waiting" /\ n.kind = m.kind /\ n.guarded = m.guarded
    BY <1>3, <1>5, <1>6, <2>2, <2>3 DEF NewRun, NoRun, RunRecords
  <2> QED BY <1>5, <2>1, <2>2, <2>3, <2>4 DEF RunRecords
<1>11. run'[f] = r /\ \A c \in Calls : c # f => run'[c] = run[c]
  BY <1>3, <1>4, <1>7, <1>8
<1>12. r.kind \in AgentKinds
  BY <1>9, <1>10 DEF Sessions
<1>13. Starts({f})
  <2>1. \A c \in Calls : c <= f => Begun(c) \/ c = f
    BY <1>3, <1>5
  <2> QED BY <1>3, <1>9, <1>10, <1>11, <1>12, <2>1 DEF Starts
<1>14. recent' \in Seq(Calls) /\ Moved(recent', recent, s)
  BY <1>4, <1>7, MovedToEnd DEF SubInv, RecentOnce
<1>15. RecentOnce'
  <2>1. \A i, j \in 1..Len(recent') : recent'[i] = recent'[j] => i = j
    BY <1>14 DEF Moved
  <2>2. ASSUME NEW x \in Calls PROVE mem[x] # NoSession <=> \E i \in 1..Len(recent') : recent'[i] = x
    <3>1. mem[x] # NoSession <=> \E i \in 1..Len(recent) : recent[i] = x
      BY DEF SubInv, RecentOnce
    <3>2. (\E i \in 1..Len(recent') : recent'[i] = x) <=> x = s \/ \E i \in 1..Len(recent) : recent[i] = x
      BY <1>14 DEF Moved
    <3> QED BY <1>1, <3>1, <3>2
  <2> QED BY <1>1, <2>1, <2>2 DEF RecentOnce
<1>16. Typed'
  <2>1. run' \in [Calls -> RunRecords]
    BY <1>4, <1>7, <1>8, <1>10
  <2>2. parent' \in ParentRecords
    BY <1>3, <1>4, <1>7 DEF ParentRecords
  <2> QED BY <1>1, <1>14, <2>1, <2>2 DEF Typed
<1>17. parent'.state # "returned"
  BY <1>4, <1>7 DEF ParentRecords
<1> QED BY <1>1, <1>13, <1>15, <1>16, <1>17, StartsKeeps, ElsewhereKeeps DEF SubInv

(* A run at work moves: it keeps its binding, and the tables stay.         *)
Moves(c) ==
    /\ c \in Calls /\ Begun(c) /\ run[c].pc \notin Ended
    /\ run'[c] \in RunRecords /\ Begun(c)'
    /\ run'[c].kind = run[c].kind /\ run'[c].sid = run[c].sid /\ run'[c].guarded = run[c].guarded
    /\ \A d \in Calls : d # c => run'[d] = run[d]
    /\ run'[c].pc = "done" => run[c].pc = "stored"
    /\ run' = [run EXCEPT ![c] = run'[c]]

LEMMA MovesKeeps ==
    ASSUME SubInv, NEW c, Moves(c)
    PROVE  Carried /\ EndedStays /\ run' \in [Calls -> RunRecords]
<1>1. Carried
  BY DEF Moves, Carried, Begun
<1>2. EndedStays
  BY DEF Moves, EndedStays
<1>3. run' \in [Calls -> RunRecords]
  <2>1. run \in [Calls -> RunRecords]
    BY DEF SubInv, Typed
  <2> QED BY <2>1 DEF Moves
<1> QED BY <1>1, <1>2, <1>3

LEMMA WorkKeeps ==
    ASSUME SubInv, NEW c, Moves(c), run'[c].pc # "done",
           mem' = mem, db' = db, recent' = recent, parent' = parent, restarts' = restarts,
           trees \subseteq trees', trees' \subseteq Calls,
           permits' \in Nat, multiplier' \in 1..MaxMultiplier,
           run'[c].pc = "running" /\ run'[c].kind = "Coder" =>
                run'[c].tree \in trees' /\ run'[c].tree # NoTree
    PROVE  SubInv'
<1>1. Carried /\ EndedStays /\ run' \in [Calls -> RunRecords]
  BY MovesKeeps
<1>2. Typed'
  BY <1>1 DEF SubInv, Typed
<1>3. RecentOnce'
  BY DEF SubInv, RecentOnce
<1>4. CoderIsolated'
  <2> SUFFICES ASSUME NEW d \in Calls, run'[d].pc = "running", run'[d].kind = "Coder"
               PROVE  run'[d].tree \in trees' /\ run'[d].tree # NoTree
    BY DEF CoderIsolated, IsAt
  <2>1. CASE d = c
    BY <2>1
  <2>2. CASE d # c
    <3>1. run'[d] = run[d]
      BY <2>2 DEF Moves
    <3> QED BY <3>1 DEF SubInv, CoderIsolated, IsAt
  <2> QED BY <2>1, <2>2
<1>5. ReportedSurvives'
  <2> SUFFICES ASSUME NEW d \in Calls, run'[d].pc = "done" PROVE db[run'[d].sid] # NoSession
    BY DEF ReportedSurvives, IsAt
  <2>1. run'[d] = run[d]
    BY DEF Moves
  <2> QED BY <2>1 DEF SubInv, ReportedSurvives, IsAt
<1>6. Numbered' /\ RunsBound' /\ KeptOf(mem)' /\ KeptOf(db)'
  BY <1>1, CarriedKeeps
<1>7. Returned' /\ FailHeard'
  BY <1>1, ReturnedKeeps
<1> QED BY <1>2, <1>3, <1>4, <1>5, <1>6, <1>7 DEF SubInv

(* The run of c goes to another place and nothing else of it changes.      *)
LEMMA MoveOnMoves ==
    ASSUME SubInv, NEW c \in Calls, NEW pc \in {"admitted", "running", "stored", "done"} \cup Ended,
           MoveOn(c, pc), Begun(c), run[c].pc \notin Ended, pc = "done" => run[c].pc = "stored"
    PROVE  Moves(c) /\ run'[c] = [run[c] EXCEPT !.pc = pc] /\ run'[c].pc = pc
<1>1. run \in [Calls -> RunRecords] /\ run[c] \in RunRecords
  BY DEF SubInv, Typed
<1>2. PICK r : r = [run[c] EXCEPT !.pc = pc]
  OBVIOUS
<1>3. run' = [run EXCEPT ![c] = r] /\ run'[c] = r
  BY <1>1, <1>2 DEF MoveOn
<1>4. r \in RunRecords /\ r.pc = pc /\ r.kind = run[c].kind /\ r.sid = run[c].sid /\ r.guarded = run[c].guarded
  BY <1>1, <1>2 DEF RunRecords, Ended
<1>5. pc # "none"
  BY DEF Ended
<1>6. \A d \in Calls : d # c => run'[d] = run[d]
  BY <1>1, <1>3
<1> QED BY <1>2, <1>3, <1>4, <1>5, <1>6 DEF Moves, Begun

LEMMA AcquireKeeps ==
    ASSUME SubInv, NEW c \in Calls, Acquire(c) \/ AcquireTimeout(c) \/ EnterFails(c) \/ FinishCancelled(c)
    PROVE  SubInv'
<1>1. /\ mem' = mem /\ db' = db /\ recent' = recent /\ parent' = parent /\ restarts' = restarts
      /\ trees' = trees /\ multiplier' = multiplier
  BY DEF Acquire, AcquireTimeout, EnterFails, FinishCancelled, rest
<1>2. permits \in Nat /\ multiplier \in 1..MaxMultiplier /\ trees \subseteq Calls
  BY DEF SubInv, Typed
<1>3. permits' \in Nat
  BY <1>2 DEF Acquire, AcquireTimeout, EnterFails, FinishCancelled
<1>4. run[c].pc \in {"waiting", "admitted", "running"}
  BY DEF Acquire, AcquireTimeout, EnterFails, FinishCancelled, IsAt
<1>5. Begun(c) /\ run[c].pc \notin Ended
  BY <1>4 DEF Begun, Ended
<1>6. MoveOn(c, "admitted") \/ MoveOn(c, "failed")
  BY DEF Acquire, AcquireTimeout, EnterFails, FinishCancelled
<1>7. PICK pc \in {"admitted", "failed"} : MoveOn(c, pc)
  BY <1>6
<1>8. Moves(c) /\ run'[c].pc = pc
  BY <1>5, <1>7, MoveOnMoves DEF Ended
<1> QED BY <1>1, <1>2, <1>3, <1>7, <1>8, WorkKeeps

LEMMA EnterKeeps ==
    ASSUME SubInv, NEW c \in Calls, Enter(c)
    PROVE  SubInv'
<1>1. /\ mem' = mem /\ db' = db /\ recent' = recent /\ parent' = parent /\ restarts' = restarts
      /\ permits' = permits /\ multiplier' = multiplier /\ run[c].pc = "admitted"
      /\ run[c].kind = "Coder" => run[c].tree \in trees \cup {NoTree}
  BY DEF Enter, IsAt
<1>2. permits \in Nat /\ multiplier \in 1..MaxMultiplier /\ trees \subseteq Calls
  BY DEF SubInv, Typed
<1>3. run \in [Calls -> RunRecords] /\ run[c] \in RunRecords
  BY DEF SubInv, Typed
<1>4. c \in Nat /\ c # 0 /\ c \in 0..MaxCalls
  BY SubTypes DEF SubInv
<1>5. PICK tree :
        /\ tree = IF run[c].kind # "Coder" THEN NoTree
                  ELSE IF run[c].tree # NoTree THEN run[c].tree ELSE c
        /\ run' = [run EXCEPT ![c].pc = "running", ![c].tree = tree]
        /\ trees' = trees \cup ({tree} \ {NoTree})
  BY DEF Enter
<1>6. /\ run[c].kind # "Coder" => tree = NoTree
      /\ run[c].kind = "Coder" => tree # NoTree /\ (tree = c \/ tree \in trees)
  <2>1. CASE run[c].kind # "Coder"
    BY <1>5, <2>1
  <2>2. CASE run[c].kind = "Coder" /\ run[c].tree # NoTree
    BY <1>1, <1>5, <2>2
  <2>3. CASE run[c].kind = "Coder" /\ run[c].tree = NoTree
    BY <1>4, <1>5, <2>3 DEF NoTree
  <2> QED BY <2>1, <2>2, <2>3
<1>7. tree \in 0..MaxCalls
  <2>1. \A d \in Calls : d \in 0..MaxCalls
    BY SubTypes DEF SubInv
  <2>2. 0 \in 0..MaxCalls
    BY SubagentsAssumption
  <2> QED BY <1>2, <1>6, <2>1, <2>2 DEF NoTree
<1>8. trees \subseteq trees' /\ trees' \subseteq Calls /\ tree \in trees' \cup {NoTree}
  BY <1>2, <1>5, <1>6
<1>9. PICK r : r = [run[c] EXCEPT !.pc = "running", !.tree = tree]
  OBVIOUS
<1>10. run' = [run EXCEPT ![c] = r]
  <2>1. run' = [run EXCEPT ![c] = [[@ EXCEPT !.pc = "running"] EXCEPT !.tree = tree]]
    BY <1>5
  <2>2. r = [[run[c] EXCEPT !.pc = "running"] EXCEPT !.tree = tree]
    BY <1>3, <1>9 DEF RunRecords
  <2> QED BY <2>1, <2>2
<1>11. /\ r \in RunRecords /\ r.pc = "running" /\ r.tree = tree /\ r.kind = run[c].kind
       /\ r.sid = run[c].sid /\ r.guarded = run[c].guarded
  BY <1>3, <1>7, <1>9 DEF RunRecords
<1>12. run'[c] = r /\ \A d \in Calls : d # c => run'[d] = run[d]
  BY <1>3, <1>10
<1>13. Moves(c)
  BY <1>1, <1>10, <1>11, <1>12 DEF Moves, Begun, Ended
<1>14. run'[c].pc = "running" /\ (run'[c].kind = "Coder" => run'[c].tree \in trees' /\ run'[c].tree # NoTree)
  BY <1>6, <1>8, <1>11, <1>12
<1> QED BY <1>1, <1>2, <1>8, <1>13, <1>14, WorkKeeps

LEMMA ReleaseFacts ==
    ASSUME SubInv, NEW recover, Release(recover)
    PROVE  permits' \in Nat /\ multiplier' \in 1..MaxMultiplier
<1>1. permits \in Nat /\ multiplier \in 1..MaxMultiplier /\ MaxMultiplier \in Nat
  BY SubagentsAssumption DEF SubInv, Typed
<1>2. CASE recover /\ multiplier > 1
  BY <1>1, <1>2 DEF Release
<1>3. CASE ~(recover /\ multiplier > 1)
  BY <1>1, <1>3 DEF Release
<1> QED BY <1>2, <1>3

LEMMA FinishKeeps ==
    ASSUME SubInv, NEW c \in Calls, NEW recover, FinishEmpty(c, recover)
    PROVE  SubInv'
<1>1. /\ mem' = mem /\ db' = db /\ recent' = recent /\ parent' = parent /\ restarts' = restarts
      /\ trees' = trees /\ run[c].pc = "running" /\ Release(recover) /\ MoveOn(c, "failed")
  BY DEF FinishEmpty, IsAt
<1>2. permits' \in Nat /\ multiplier' \in 1..MaxMultiplier
  BY <1>1, ReleaseFacts
<1>3. Moves(c) /\ run'[c].pc = "failed"
  BY <1>1, MoveOnMoves DEF Begun, Ended
<1>4. trees \subseteq Calls
  BY DEF SubInv, Typed
<1> QED BY <1>1, <1>2, <1>3, <1>4, WorkKeeps

LEMMA ReportKeeps ==
    ASSUME SubInv, NEW c \in Calls, NEW recover,
           NEW v \in {"none", "PASS", "FAIL", "unparseable"}, NEW s \in BOOLEAN,
           FinishReport(c, recover, v, s)
    PROVE  SubInv'
<1>1. /\ mem' = mem /\ db' = db /\ recent' = recent /\ parent' = parent /\ restarts' = restarts
      /\ trees' = trees /\ run[c].pc = "running" /\ Release(recover)
      /\ run' = [run EXCEPT ![c].pc = "reported", ![c].hist = @ \cup {c}, ![c].verdict = v,
                            ![c].says = s]
      /\ v = "FAIL" => s
      /\ v # "none" => run[c].kind = "Verifier"
  BY DEF FinishReport, IsAt
<1>2. permits' \in Nat /\ multiplier' \in 1..MaxMultiplier
  BY <1>1, ReleaseFacts
<1>3. run \in [Calls -> RunRecords] /\ run[c] \in RunRecords /\ trees \subseteq Calls
  BY DEF SubInv, Typed
<1>4. PICK r : r = [run[c] EXCEPT !.pc = "reported", !.hist = @ \cup {c}, !.verdict = v,
                                  !.says = s]
  OBVIOUS
<1>5. run' = [run EXCEPT ![c] = r]
  BY <1>1, <1>3, <1>4
<1>6. /\ r \in RunRecords /\ r.pc = "reported" /\ r.kind = run[c].kind
      /\ r.sid = run[c].sid /\ r.guarded = run[c].guarded
  BY <1>1, <1>3, <1>4 DEF RunRecords
<1>7. run'[c] = r /\ \A d \in Calls : d # c => run'[d] = run[d]
  BY <1>3, <1>5
<1>8. Moves(c)
  BY <1>1, <1>5, <1>6, <1>7 DEF Moves, Begun, Ended
<1> QED BY <1>1, <1>2, <1>3, <1>6, <1>7, <1>8, WorkKeeps

(* The runs stay where they are.                                           *)
LEMMA SameRunsKeeps ==
    ASSUME SubInv, run' = run, mem' = mem, db' = db, recent' = recent, restarts' = restarts,
           trees' \subseteq Calls, permits' \in Nat, multiplier' \in 1..MaxMultiplier,
           parent' \in ParentRecords, CoderIsolated', Returned', FailHeard'
    PROVE  SubInv'
<1>1. Typed'
  BY DEF SubInv, Typed
<1>2. Numbered' /\ RunsBound' /\ KeptOf(mem)' /\ KeptOf(db)'
  BY DEF SubInv, Numbered, RunsBound, KeptOf, Begun
<1>3. RecentOnce' /\ ReportedSurvives'
  BY DEF SubInv, RecentOnce, ReportedSurvives, IsAt
<1> QED BY <1>1, <1>2, <1>3 DEF SubInv

LEMMA RemoveTreeKeeps ==
    ASSUME SubInv, NEW t, RemoveTree(t)
    PROVE  SubInv'
<1>1. /\ run' = run /\ mem' = mem /\ db' = db /\ recent' = recent /\ restarts' = restarts
      /\ permits' = permits /\ multiplier' = multiplier /\ parent' = parent /\ trees' = trees \ {t}
      /\ \A c \in Holders : run[c].tree # t
  BY DEF RemoveTree
<1>2. /\ permits \in Nat /\ multiplier \in 1..MaxMultiplier /\ trees \subseteq Calls
      /\ parent \in ParentRecords
  BY DEF SubInv, Typed
<1>3. CoderIsolated'
  <2> SUFFICES ASSUME NEW c \in Calls, run[c].pc = "running", run[c].kind = "Coder"
               PROVE  run[c].tree \in trees' /\ run[c].tree # NoTree
    BY <1>1 DEF CoderIsolated, IsAt
  <2>1. run[c].tree \in trees /\ run[c].tree # NoTree
    BY DEF SubInv, CoderIsolated, IsAt
  <2>2. c \in Holders
    BY DEF Holders
  <2> QED BY <1>1, <2>1, <2>2
<1>4. Returned' /\ FailHeard'
  BY <1>1, ReturnedKeeps DEF EndedStays
<1> QED BY <1>1, <1>2, <1>3, <1>4, SameRunsKeeps

LEMMA RateLimitedKeeps ==
    ASSUME SubInv, NEW c \in Calls, on_rate_limited(c)
    PROVE  SubInv'
<1>1. /\ run' = run /\ mem' = mem /\ db' = db /\ recent' = recent /\ restarts' = restarts
      /\ permits' = permits /\ trees' = trees /\ parent' = parent
      /\ multiplier' = IF 2 * multiplier < MaxMultiplier THEN 2 * multiplier ELSE MaxMultiplier
  BY DEF on_rate_limited
<1>2. /\ permits \in Nat /\ multiplier \in 1..MaxMultiplier /\ trees \subseteq Calls
      /\ parent \in ParentRecords /\ MaxMultiplier \in Nat \ {0}
  BY SubagentsAssumption DEF SubInv, Typed
<1>3. multiplier' \in 1..MaxMultiplier
  BY <1>1, <1>2
<1>4. CoderIsolated'
  BY <1>1 DEF SubInv, CoderIsolated, IsAt
<1>5. Returned' /\ FailHeard'
  BY <1>1, ReturnedKeeps DEF EndedStays
<1> QED BY <1>1, <1>2, <1>3, <1>4, <1>5, SameRunsKeeps

LEMMA ReturnKeeps ==
    ASSUME SubInv, Return
    PROVE  SubInv'
<1>1. /\ run' = run /\ mem' = mem /\ db' = db /\ recent' = recent /\ restarts' = restarts
      /\ permits' = permits /\ multiplier' = multiplier /\ trees' = trees
      /\ \A c \in parent.calls : run[c].pc \in Ended
      /\ parent' = [parent EXCEPT !.state = "returned", !.failed = verifier_failed(Batch)]
  BY DEF Return, rest
<1>2. /\ permits \in Nat /\ multiplier \in 1..MaxMultiplier /\ trees \subseteq Calls
      /\ parent \in ParentRecords
  BY DEF SubInv, Typed
<1>4. PICK vf : vf = verifier_failed(Batch)
  OBVIOUS
<1>5. vf \in BOOLEAN
  BY <1>4 DEF verifier_failed
<1>6. parent' \in ParentRecords /\ parent'.calls = parent.calls /\ parent'.failed = vf
  BY <1>1, <1>2, <1>4, <1>5 DEF ParentRecords
<1>7. CoderIsolated'
  BY <1>1 DEF SubInv, CoderIsolated, IsAt
<1>8. Returned'
  BY <1>1, <1>6 DEF Returned
<1> DEFINE B == Batch
           R == Reports(B)
           V == Verdicts(B)
           first == CHOOSE c \in V : \A d \in V : c <= d
<1>3. B' = B /\ R' = R /\ V' = V
  BY <1>1, <1>6 DEF Batch, Reports, Verdicts
<1>9. /\ V \subseteq R /\ V \subseteq Calls /\ V \subseteq Nat
      /\ \A c \in V : run[c].verdict \in {"PASS", "FAIL", "unparseable"}
      /\ \A c \in V : /\ run[c].verdict = "FAIL" => run[c].says
                      /\ run[c].kind = "Verifier"
  <2>1. V \subseteq R /\ V \subseteq Calls /\ \A c \in V : run[c].verdict # "none"
    BY <1>2 DEF Verdicts, Reports, Batch, ParentRecords
  <2>2. \A c \in V : c \in Nat /\ run[c] \in RunRecords
    BY <2>1, SubTypes DEF SubInv
  <2> QED BY <2>1, <2>2 DEF RunRecords
<1>10. V # {} => first \in V /\ \A d \in V : first <= d
  BY <1>9, LeastNumber
<1>12. vf => IF V # {} /\ run[first].verdict # "unparseable" THEN run[first].verdict = "FAIL"
             ELSE \E c \in R : run[c].says
  BY <1>4 DEF verifier_failed
<1>13. V # {} => \E c \in B : run[c].kind = "Verifier"
  BY <1>9 DEF Verdicts, Reports
<1>14. (\E c \in B : run[c].kind = "Verifier") =>
          (vf <=> IF V # {} /\ run[first].verdict # "unparseable" THEN run[first].verdict = "FAIL"
                  ELSE \E c \in R : run[c].says)
  BY <1>4 DEF verifier_failed
<1> HIDE DEF B, R, V, first
<1>15. ASSUME NEW c \in V, run[c].verdict = "FAIL", ~vf
       PROVE  \E d \in V : d < c /\ run[d].verdict = "PASS"
  <2>1. V # {} /\ c \in R /\ run[c].says
    BY <1>9, <1>15
  <2>2. first \in V /\ first <= c /\ run[first].verdict = "PASS"
    BY <1>9, <1>10, <1>13, <1>14, <1>15, <2>1
  <2> QED BY <1>9, <1>15, <2>2
<1>16. ASSUME vf
       PROVE  /\ \E c \in R : run[c].says
              /\ \A c \in V : run[c].verdict = "PASS" => \E d \in V : d < c
  <2>1. \E c \in R : run[c].says
    BY <1>9, <1>10, <1>12, <1>16
  <2>2. ASSUME NEW c \in V, run[c].verdict = "PASS" PROVE \E d \in V : d < c
    <3>1. first \in V /\ first <= c /\ run[first].verdict # "PASS"
      BY <1>10, <1>12, <1>16
    <3> QED BY <1>9, <2>2, <3>1
  <2> QED BY <2>1, <2>2
<1>11. FailHeard'
  <2>1. /\ \A c \in V' : run'[c].verdict = "FAIL" /\ ~parent'.failed =>
                \E d \in V' : d < c /\ run'[d].verdict = "PASS"
        /\ parent'.failed =>
                /\ \E c \in R' : run'[c].says
                /\ \A c \in V' : run'[c].verdict = "PASS" => \E d \in V' : d < c
    BY <1>1, <1>3, <1>5, <1>6, <1>15, <1>16
  <2> QED BY <2>1 DEF FailHeard, V, R, B
<1> QED BY <1>1, <1>2, <1>6, <1>7, <1>8, <1>11, SameRunsKeeps

LEMMA ParentKeeps ==
    ASSUME SubInv, NextCall \/ CancelParent
    PROVE  SubInv'
<1>1. /\ run' = run /\ mem' = mem /\ db' = db /\ recent' = recent /\ restarts' = restarts
      /\ permits' = permits /\ multiplier' = multiplier /\ trees' = trees
  BY DEF NextCall, CancelParent, rest
<1>2. /\ permits \in Nat /\ multiplier \in 1..MaxMultiplier /\ trees \subseteq Calls
      /\ parent \in ParentRecords
  BY DEF SubInv, Typed
<1>3. parent' \in ParentRecords /\ parent'.state # "returned"
  <2>1. CASE NextCall
    BY <2>1 DEF NextCall, NoParent, ParentRecords
  <2>2. CASE CancelParent
    <3>1. parent.state = "waits" /\ parent' = [parent EXCEPT !.cancelled = TRUE]
      BY <2>2 DEF CancelParent
    <3> QED BY <1>2, <3>1 DEF ParentRecords
  <2> QED BY <2>1, <2>2
<1>4. CoderIsolated'
  BY <1>1 DEF SubInv, CoderIsolated, IsAt
<1>5. Returned' /\ FailHeard'
  BY <1>3, ElsewhereKeeps
<1> QED BY <1>1, <1>2, <1>3, <1>4, <1>5, SameRunsKeeps

(* The least recently used key is dropped.                                 *)
LEMMA TailOnce ==
    ASSUME NEW S, NEW s \in Seq(S), s # <<>>,
           \A i, j \in 1..Len(s) : s[i] = s[j] => i = j
    PROVE  /\ Tail(s) \in Seq(S) /\ Head(s) \in S
           /\ \A i, j \in 1..Len(Tail(s)) : Tail(s)[i] = Tail(s)[j] => i = j
           /\ \A y : (\E i \in 1..Len(Tail(s)) : Tail(s)[i] = y)
                        <=> y # Head(s) /\ \E i \in 1..Len(s) : s[i] = y
<1>1. PICK t : t = Tail(s)
  OBVIOUS
<1>2. /\ Len(s) \in Nat /\ Len(s) # 0 /\ t \in Seq(S) /\ Len(t) = Len(s) - 1
      /\ \A i \in 1..Len(t) : t[i] = s[i + 1]
      /\ Head(s) = s[1] /\ 1 \in 1..Len(s) /\ Head(s) \in S
  BY <1>1
<1>3. \A i \in 1..Len(t) : i + 1 \in 1..Len(s) /\ i + 1 # 1
  BY <1>2
<1>4. \A i, j \in 1..Len(t) : t[i] = t[j] => i = j
  <2> SUFFICES ASSUME NEW i \in 1..Len(t), NEW j \in 1..Len(t), t[i] = t[j] PROVE i = j
    OBVIOUS
  <2>1. i + 1 = j + 1
    BY <1>2, <1>3
  <2> QED BY <2>1
<1>5. ASSUME NEW y
      PROVE  (\E i \in 1..Len(t) : t[i] = y) <=> y # Head(s) /\ \E i \in 1..Len(s) : s[i] = y
  <2>1. ASSUME NEW i \in 1..Len(t), t[i] = y PROVE y # Head(s) /\ \E k \in 1..Len(s) : s[k] = y
    <3>1. i + 1 \in 1..Len(s) /\ i + 1 # 1 /\ s[i + 1] = y
      BY <1>2, <1>3, <2>1
    <3> QED BY <1>2, <3>1
  <2>2. ASSUME NEW k \in 1..Len(s), s[k] = y, y # Head(s) PROVE \E i \in 1..Len(t) : t[i] = y
    <3>1. k # 1
      BY <1>2, <2>2
    <3>2. k - 1 \in 1..Len(t) /\ (k - 1) + 1 = k
      BY <1>2, <3>1
    <3>3. t[k - 1] = s[k]
      BY <1>2, <3>2
    <3> QED BY <2>2, <3>2, <3>3
  <2> QED BY <2>1, <2>2
<1> QED BY <1>1, <1>2, <1>4, <1>5, SMTT(40)

LEMMA SessionFacts ==
    ASSUME SubInv, NEW c \in Calls, Begun(c)
    PROVE  /\ SessionOf(c) \in Sessions /\ SessionOf(c) # NoSession
           /\ SessionOf(c).kind = run[c].kind /\ SessionOf(c).guarded = run[c].guarded
           /\ run[c].sid \in Calls
<1>1. run[c] \in RunRecords /\ run[c].kind \in AgentKinds /\ run[c].sid \in Calls
  BY SubTypes DEF SubInv, RunsBound
<1>2. SessionOf(c) \in Sessions
  BY <1>1 DEF SessionOf, Sessions, RunRecords
<1>3. SessionOf(c).kind = run[c].kind /\ SessionOf(c).guarded = run[c].guarded
  BY DEF SessionOf
<1>4. SessionOf(c) # NoSession
  BY <1>2, SubTypes DEF SubInv
<1> QED BY <1>1, <1>2, <1>3, <1>4

LEMMA PersistKeeps ==
    ASSUME SubInv, NEW c \in Calls, persist_session(c)
    PROVE  SubInv'
<1> DEFINE sid == run[c].sid
           full == Len(recent) >= Capacity /\ mem[sid] = NoSession
           kept == IF full THEN Tail(recent) ELSE recent
<1>1. /\ sid = run[c].sid
      /\ full <=> Len(recent) >= Capacity /\ mem[sid] = NoSession
      /\ kept = IF full THEN Tail(recent) ELSE recent
      /\ mem' = [s \in Calls |-> CASE s = sid -> SessionOf(c)
                                   [] full /\ s = Head(recent) -> NoSession
                                   [] OTHER -> mem[s]]
      /\ recent' = Append(Without(kept, sid), sid)
  BY DEF persist_session
<1> HIDE DEF sid, full, kept
<1>2. /\ run[c].pc = "reported" /\ MoveOn(c, "stored")
      /\ db' = db /\ trees' = trees /\ permits' = permits /\ multiplier' = multiplier
      /\ parent' = parent /\ restarts' = restarts
  BY DEF persist_session, IsAt, Stored
<1>3. Begun(c) /\ run[c].pc \notin Ended
  BY <1>2 DEF Begun, Ended
<1>4. /\ SessionOf(c) \in Sessions /\ SessionOf(c) # NoSession /\ sid \in Calls
      /\ SessionOf(c).kind = run[c].kind /\ SessionOf(c).guarded = run[c].guarded
  BY <1>1, <1>3, SessionFacts
<1>5. Moves(c) /\ run'[c].pc = "stored"
  BY <1>2, <1>3, MoveOnMoves
<1>6. Carried /\ EndedStays /\ run' \in [Calls -> RunRecords]
  BY <1>5, MovesKeeps
<1>7. /\ recent \in Seq(Calls)
      /\ \A i, j \in 1..Len(recent) : recent[i] = recent[j] => i = j
      /\ \A s \in Calls : mem[s] # NoSession <=> \E i \in 1..Len(recent) : recent[i] = s
  BY DEF SubInv, Typed, RecentOnce
<1>8. ASSUME full PROVE recent # <<>> /\ Head(recent) \in Calls /\ Head(recent) # sid
  <2>1. Len(recent) # 0
    BY <1>1, <1>7, <1>8, SubagentsAssumption
  <2>2. recent # <<>> /\ Head(recent) = recent[1] /\ 1 \in 1..Len(recent) /\ Head(recent) \in Calls
    BY <1>7, <2>1
  <2>3. mem[Head(recent)] # NoSession
    BY <1>7, <2>2
  <2> QED BY <1>1, <1>8, <2>2, <2>3
<1>9. /\ kept \in Seq(Calls)
      /\ \A i, j \in 1..Len(kept) : kept[i] = kept[j] => i = j
      /\ \A y : (\E i \in 1..Len(kept) : kept[i] = y)
                    <=> ~(full /\ y = Head(recent)) /\ \E i \in 1..Len(recent) : recent[i] = y
  <2>1. CASE full
    <3>1. kept = Tail(recent)
      BY <1>1, <2>1
    <3> QED BY <1>7, <1>8, <2>1, <3>1, TailOnce
  <2>2. CASE ~full
    <3>1. kept = recent
      BY <1>1, <2>2
    <3> QED BY <1>7, <2>2, <3>1
  <2> QED BY <2>1, <2>2
<1>10. recent' \in Seq(Calls) /\ Moved(recent', kept, sid)
  <2>1. sid \in Calls /\ kept \in Seq(Calls) /\ \A i, j \in 1..Len(kept) : kept[i] = kept[j] => i = j
    BY <1>4, <1>9
  <2>2. Append(Without(kept, sid), sid) \in Seq(Calls) /\ Moved(Append(Without(kept, sid), sid), kept, sid)
    BY <2>1, MovedToEnd
  <2>3. recent' = Append(Without(kept, sid), sid)
    BY <1>1
  <2> QED BY <2>2, <2>3
<1>11. ASSUME NEW s \in Calls
       PROVE  /\ s = sid => mem'[s] = SessionOf(c)
              /\ s # sid /\ full /\ s = Head(recent) => mem'[s] = NoSession
              /\ s # sid /\ ~(full /\ s = Head(recent)) => mem'[s] = mem[s]
  <2>1. mem'[s] = CASE s = sid -> SessionOf(c)
                    [] full /\ s = Head(recent) -> NoSession
                    [] OTHER -> mem[s]
    BY <1>1
  <2>2. CASE s = sid
    BY <1>8, <2>1, <2>2
  <2>3. CASE s # sid /\ full /\ s = Head(recent)
    BY <2>1, <2>3
  <2>4. CASE s # sid /\ ~(full /\ s = Head(recent))
    BY <2>1, <2>4
  <2> QED BY <2>2, <2>3, <2>4
<1>12. mem' \in [Calls -> Sessions \cup {NoSession}]
  <2>1. ASSUME NEW s \in Calls PROVE mem'[s] \in Sessions \cup {NoSession}
    <3>1. mem[s] \in Sessions \cup {NoSession}
      BY SubTypes DEF SubInv
    <3> QED BY <1>4, <1>11, <3>1
  <2>2. PICK g : g = [s \in Calls |-> mem'[s]]
    OBVIOUS
  <2>3. mem' = g
    BY <1>1, <2>2
  <2> QED BY <2>1, <2>2, <2>3
<1>13. Typed'
  BY <1>2, <1>6, <1>10, <1>12 DEF SubInv, Typed
<1>14. KeptOf(mem)'
  <2> SUFFICES ASSUME NEW s \in Calls, mem'[s] # NoSession
               PROVE  Begun(s)' /\ mem'[s].kind = run'[s].kind /\ mem'[s].guarded = run'[s].guarded
    BY DEF KeptOf
  <2>1. CASE s = sid
    <3>1. Begun(s) /\ run[c].kind = run[s].kind /\ run[c].guarded = run[s].guarded
      BY <1>1, <1>3, <2>1 DEF SubInv, RunsBound
    <3> QED BY <1>4, <1>6, <1>11, <2>1, <3>1 DEF Carried
  <2>2. CASE s # sid
    <3>1. mem'[s] = mem[s]
      BY <1>11, <2>2
    <3>2. Begun(s) /\ mem[s].kind = run[s].kind /\ mem[s].guarded = run[s].guarded
      BY <3>1 DEF SubInv, KeptOf
    <3> QED BY <1>6, <3>1, <3>2 DEF Carried
  <2> QED BY <2>1, <2>2
<1>15. RecentOnce'
  <2>1. \A i, j \in 1..Len(recent') : recent'[i] = recent'[j] => i = j
    BY <1>10 DEF Moved
  <2>2. ASSUME NEW x \in Calls PROVE mem'[x] # NoSession <=> \E i \in 1..Len(recent') : recent'[i] = x
    <3>1. (\E i \in 1..Len(recent') : recent'[i] = x) <=> x = sid \/ \E i \in 1..Len(kept) : kept[i] = x
      BY <1>10 DEF Moved
    <3>2. (\E i \in 1..Len(kept) : kept[i] = x)
            <=> ~(full /\ x = Head(recent)) /\ \E i \in 1..Len(recent) : recent[i] = x
      BY <1>9
    <3>3. mem[x] # NoSession <=> \E i \in 1..Len(recent) : recent[i] = x
      BY <1>7
    <3> QED BY <1>4, <1>11, <3>1, <3>2, <3>3
  <2> QED BY <2>1, <2>2 DEF RecentOnce
<1>16. CoderIsolated'
  <2> SUFFICES ASSUME NEW d \in Calls, run'[d].pc = "running", run'[d].kind = "Coder"
               PROVE  run'[d].tree \in trees /\ run'[d].tree # NoTree
    BY <1>2 DEF CoderIsolated, IsAt
  <2>1. run'[d] = run[d]
    BY <1>5 DEF Moves
  <2> QED BY <2>1 DEF SubInv, CoderIsolated, IsAt
<1>17. ReportedSurvives'
  <2> SUFFICES ASSUME NEW d \in Calls, run'[d].pc = "done" PROVE db[run'[d].sid] # NoSession
    BY <1>2 DEF ReportedSurvives, IsAt
  <2>1. run'[d] = run[d]
    BY <1>5 DEF Moves
  <2> QED BY <2>1 DEF SubInv, ReportedSurvives, IsAt
<1>18. Numbered' /\ RunsBound' /\ KeptOf(db)'
  BY <1>2, <1>6, CarriedKeeps
<1>19. Returned' /\ FailHeard'
  BY <1>2, <1>6, ReturnedKeeps
<1> QED BY <1>13, <1>14, <1>15, <1>16, <1>17, <1>18, <1>19 DEF SubInv

LEMMA SaveKeeps ==
    ASSUME SubInv, NEW c \in Calls, save_subagent_session(c)
    PROVE  SubInv'
<1>1. /\ run[c].pc = "stored" /\ MoveOn(c, "done") /\ db' = [db EXCEPT ![run[c].sid] = SessionOf(c)]
      /\ mem' = mem /\ recent' = recent /\ trees' = trees /\ permits' = permits
      /\ multiplier' = multiplier /\ parent' = parent /\ restarts' = restarts
  BY DEF save_subagent_session, IsAt
<1>2. Begun(c) /\ run[c].pc \notin Ended
  BY <1>1 DEF Begun, Ended
<1>3. PICK sid, new : sid = run[c].sid /\ new = SessionOf(c)
  OBVIOUS
<1>4. /\ new \in Sessions /\ new # NoSession /\ sid \in Calls
      /\ new.kind = run[c].kind /\ new.guarded = run[c].guarded
  BY <1>2, <1>3, SessionFacts
<1>5. Moves(c) /\ run'[c].pc = "done"
  BY <1>1, <1>2, MoveOnMoves DEF Ended
<1>6. Carried /\ EndedStays /\ run' \in [Calls -> RunRecords]
  BY <1>5, MovesKeeps
<1>7. db \in [Calls -> Sessions \cup {NoSession}]
  BY DEF SubInv, Typed
<1>8. /\ db' \in [Calls -> Sessions \cup {NoSession}] /\ db'[sid] = new
      /\ \A s \in Calls : s # sid => db'[s] = db[s]
  BY <1>1, <1>3, <1>4, <1>7
<1>9. Typed'
  BY <1>1, <1>6, <1>8 DEF SubInv, Typed
<1>10. KeptOf(db)'
  <2> SUFFICES ASSUME NEW s \in Calls, db'[s] # NoSession
               PROVE  Begun(s)' /\ db'[s].kind = run'[s].kind /\ db'[s].guarded = run'[s].guarded
    BY DEF KeptOf
  <2>1. CASE s = sid
    <3>1. Begun(s) /\ run[c].kind = run[s].kind /\ run[c].guarded = run[s].guarded
      BY <1>2, <1>3, <2>1 DEF SubInv, RunsBound
    <3> QED BY <1>4, <1>6, <1>8, <2>1, <3>1 DEF Carried
  <2>2. CASE s # sid
    <3>1. db'[s] = db[s]
      BY <1>8, <2>2
    <3>2. Begun(s) /\ db[s].kind = run[s].kind /\ db[s].guarded = run[s].guarded
      BY <3>1 DEF SubInv, KeptOf
    <3> QED BY <1>6, <3>1, <3>2 DEF Carried
  <2> QED BY <2>1, <2>2
<1>11. RecentOnce'
  BY <1>1 DEF SubInv, RecentOnce
<1>12. CoderIsolated'
  <2> SUFFICES ASSUME NEW d \in Calls, run'[d].pc = "running", run'[d].kind = "Coder"
               PROVE  run'[d].tree \in trees /\ run'[d].tree # NoTree
    BY <1>1 DEF CoderIsolated, IsAt
  <2>1. run'[d] = run[d]
    BY <1>5 DEF Moves
  <2> QED BY <2>1 DEF SubInv, CoderIsolated, IsAt
<1>13. ReportedSurvives'
  <2> SUFFICES ASSUME NEW d \in Calls, run'[d].pc = "done" PROVE db'[run'[d].sid] # NoSession
    BY DEF ReportedSurvives, IsAt
  <2>1. CASE d = c
    BY <1>3, <1>4, <1>5, <1>8, <2>1 DEF Moves
  <2>2. CASE d # c
    <3>1. run'[d] = run[d]
      BY <1>5, <2>2 DEF Moves
    <3>2. db[run[d].sid] # NoSession
      BY <3>1 DEF SubInv, ReportedSurvives, IsAt
    <3>3. run[d].sid \in Calls
      BY <3>1 DEF SubInv, RunsBound, Begun
    <3> QED BY <1>4, <1>8, <3>1, <3>2, <3>3
  <2> QED BY <2>1, <2>2
<1>14. Numbered' /\ RunsBound' /\ KeptOf(mem)'
  BY <1>1, <1>6, CarriedKeeps
<1>15. Returned' /\ FailHeard'
  BY <1>1, <1>6, ReturnedKeeps
<1> QED BY <1>9, <1>10, <1>11, <1>12, <1>13, <1>14, <1>15 DEF SubInv

LEMMA AbortKeeps ==
    ASSUME SubInv, AbortAll
    PROVE  SubInv'
<1> DEFINE hit == {c \in Batch : run[c].pc \in {"waiting", "admitted", "running"}}
<1>1. /\ run' = [c \in Calls |-> IF c \in hit THEN [run[c] EXCEPT !.pc = "aborted"] ELSE run[c]]
      /\ permits' = permits + Cardinality(hit \cap Holders)
      /\ mem' = mem /\ db' = db /\ recent' = recent /\ trees' = trees
      /\ multiplier' = multiplier /\ parent' = parent /\ restarts' = restarts
  BY DEF AbortAll, rest
<1>2. \A c \in hit : run[c].pc \in {"waiting", "admitted", "running"}
  OBVIOUS
<1> HIDE DEF hit
<1>3. run \in [Calls -> RunRecords] /\ permits \in Nat
  BY DEF SubInv, Typed
<1>4. ASSUME NEW c \in Calls
      PROVE  /\ c \notin hit => run'[c] = run[c]
             /\ c \in hit => /\ run'[c].pc = "aborted" /\ run'[c].kind = run[c].kind
                             /\ run'[c].sid = run[c].sid /\ run'[c].guarded = run[c].guarded
             /\ run'[c] \in RunRecords
  <2>1. run[c] \in RunRecords
    BY <1>3
  <2>2. CASE c \in hit
    <3>1. run'[c] = [run[c] EXCEPT !.pc = "aborted"]
      BY <1>1, <2>2
    <3> QED BY <2>1, <2>2, <3>1 DEF RunRecords, Ended
  <2>3. CASE c \notin hit
    BY <1>1, <2>1, <2>3
  <2> QED BY <2>2, <2>3
<1>5. Carried
  BY <1>2, <1>4 DEF Carried, Begun
<1>6. EndedStays
  BY <1>2, <1>4 DEF EndedStays, Ended
<1>7. run' \in [Calls -> RunRecords]
  <2>1. PICK g : g = [c \in Calls |-> run'[c]]
    OBVIOUS
  <2>2. run' = g
    BY <1>1, <2>1
  <2> QED BY <1>4, <2>1, <2>2
<1>8. permits' \in Nat
  <2>1. Holders \subseteq Calls /\ IsFiniteSet(Calls)
    BY SubTypes DEF SubInv, Holders
  <2>2. IsFiniteSet(hit \cap Holders)
    BY <2>1, FS_Subset
  <2>3. Cardinality(hit \cap Holders) \in Nat
    BY <2>2, FS_CardinalityType
  <2> QED BY <1>1, <1>3, <2>3
<1>9. Typed'
  BY <1>1, <1>7, <1>8 DEF SubInv, Typed
<1>10. RecentOnce'
  BY <1>1 DEF SubInv, RecentOnce
<1>11. CoderIsolated' /\ ReportedSurvives'
  BY <1>1, <1>4 DEF SubInv, CoderIsolated, ReportedSurvives, IsAt
<1>12. Numbered' /\ RunsBound' /\ KeptOf(mem)' /\ KeptOf(db)'
  BY <1>1, <1>5, CarriedKeeps
<1>13. Returned' /\ FailHeard'
  BY <1>1, <1>6, ReturnedKeeps
<1> QED BY <1>9, <1>10, <1>11, <1>12, <1>13 DEF SubInv

LEMMA RestartKeeps ==
    ASSUME SubInv, SubRestart
    PROVE  SubInv'
<1>1. /\ run' = [c \in Calls |-> IF run[c].pc \in {"none"} \cup Ended THEN run[c]
                                 ELSE [run[c] EXCEPT !.pc = "dead"]]
      /\ mem' = db /\ db' = db /\ trees' = trees /\ permits' = InitialPermits
      /\ multiplier' = 1 /\ parent' = NoParent /\ restarts' = restarts + 1
      /\ recent' = At([i \in Calls |-> i], {s \in Calls : db[s] # NoSession})
  BY DEF SubRestart
<1>2. run \in [Calls -> RunRecords] /\ restarts \in Nat /\ db \in [Calls -> Sessions \cup {NoSession}]
  BY DEF SubInv, Typed
<1>3. ASSUME NEW c \in Calls
      PROVE  /\ run[c].pc \in {"none"} \cup Ended => run'[c] = run[c]
             /\ run[c].pc \notin {"none"} \cup Ended =>
                    /\ run'[c].pc = "dead" /\ run'[c].kind = run[c].kind
                    /\ run'[c].sid = run[c].sid /\ run'[c].guarded = run[c].guarded
             /\ run'[c] \in RunRecords
  <2>1. run[c] \in RunRecords
    BY <1>2
  <2>2. CASE run[c].pc \in {"none"} \cup Ended
    BY <1>1, <2>1, <2>2
  <2>3. CASE run[c].pc \notin {"none"} \cup Ended
    <3>1. run'[c] = [run[c] EXCEPT !.pc = "dead"]
      BY <1>1, <2>3
    <3> QED BY <2>1, <2>3, <3>1 DEF RunRecords, Ended
  <2> QED BY <2>2, <2>3
<1>4. Carried
  BY <1>3 DEF Carried, Begun
<1>5. run' \in [Calls -> RunRecords]
  <2>1. PICK g : g = [c \in Calls |-> run'[c]]
    OBVIOUS
  <2>2. run' = g
    BY <1>1, <2>1
  <2> QED BY <1>3, <2>1, <2>2
<1>6. PICK all : all = [i \in Calls |-> i]
  OBVIOUS
<1>7. PICK I : I = {s \in Calls : db[s] # NoSession}
  OBVIOUS
<1>8. /\ all \in Seq(Calls) /\ 1..Len(all) = Calls /\ \A i \in Calls : all[i] = i
  <2>1. MaxCalls \in Nat
    BY SubTypes DEF SubInv
  <2> QED BY <1>6, <2>1 DEF Calls
<1>9. \A i, j \in 1..Len(all) : all[i] = all[j] => i = j
  BY <1>8
<1>10. recent' \in Seq(Calls) /\ Picked(recent', all, I)
  <2>1. At(all, I) \in Seq(Calls) /\ Picked(At(all, I), all, I)
    BY <1>8, <1>9, PickedAt
  <2>2. recent' = At(all, I)
    BY <1>1, <1>6, <1>7
  <2> QED BY <2>1, <2>2
<1>11. RecentOnce'
  <2>1. \A i, j \in 1..Len(recent') : recent'[i] = recent'[j] => i = j
    BY <1>10 DEF Picked
  <2>2. ASSUME NEW x \in Calls PROVE db[x] # NoSession <=> \E i \in 1..Len(recent') : recent'[i] = x
    <3>1. x \in I <=> db[x] # NoSession
      BY <1>7
    <3>2. ASSUME x \in I PROVE \E i \in 1..Len(recent') : recent'[i] = x
      <4>1. x \in 1..Len(all) /\ all[x] = x
        BY <1>8
      <4> QED BY <1>10, <3>2, <4>1 DEF Picked
    <3>3. ASSUME NEW i \in 1..Len(recent'), recent'[i] = x PROVE x \in I
      <4>1. PICK k \in 1..Len(all) : k \in I /\ recent'[i] = all[k]
        BY <1>10 DEF Picked
      <4> QED BY <1>8, <3>3, <4>1
    <3> QED BY <3>1, <3>2, <3>3
  <2> QED BY <1>1, <2>1, <2>2 DEF RecentOnce
<1>12. Typed'
  <2>1. NoParent \in ParentRecords
    BY SubTypes DEF SubInv
  <2>2. permits' \in Nat /\ multiplier' \in 1..MaxMultiplier /\ restarts' \in Nat
    BY <1>1, <1>2, SubagentsAssumption
  <2>3. trees \subseteq Calls
    BY DEF SubInv, Typed
  <2> QED BY <1>1, <1>2, <1>5, <1>10, <2>1, <2>2, <2>3 DEF Typed
<1>13. Numbered' /\ RunsBound' /\ KeptOf(db)'
  BY <1>1, <1>4, CarriedKeeps
<1>14. KeptOf(mem)'
  BY <1>1, <1>13 DEF KeptOf
<1>15. CoderIsolated' /\ ReportedSurvives'
  <2>1. \A c \in Calls : run'[c].pc \in {"running", "done"} => run'[c] = run[c]
    BY <1>3
  <2> QED BY <1>1, <2>1 DEF SubInv, CoderIsolated, ReportedSurvives, IsAt
<1>16. Returned' /\ FailHeard'
  BY <1>1, ElsewhereKeeps DEF NoParent
<1> QED BY <1>11, <1>12, <1>13, <1>14, <1>15, <1>16 DEF SubInv

LEMMA SubInitInv == SubInit => SubInv
<1> SUFFICES ASSUME SubInit PROVE SubInv
  OBVIOUS
<1>1. MaxCalls \in Nat /\ 0 \in 0..MaxCalls /\ NoRun \in RunRecords /\ NoParent \in ParentRecords
  BY SubagentsAssumption DEF NoRun, NoTree, NoParent, RunRecords, ParentRecords
<1>2. /\ run = [c \in Calls |-> NoRun] /\ mem = [c \in Calls |-> NoSession]
      /\ db = [c \in Calls |-> NoSession] /\ recent = <<>> /\ trees = {}
      /\ permits = InitialPermits /\ multiplier = 1 /\ parent = NoParent /\ restarts = 0
  BY DEF SubInit
<1>3. /\ run \in [Calls -> RunRecords] /\ mem \in [Calls -> Sessions \cup {NoSession}]
      /\ db \in [Calls -> Sessions \cup {NoSession}] /\ parent \in ParentRecords
  BY <1>1, <1>2
<1>4. permits \in Nat /\ multiplier \in 1..MaxMultiplier /\ restarts \in Nat
  BY <1>2, SubagentsAssumption
<1>5. Typed
  BY <1>2, <1>3, <1>4 DEF Typed
<1>6. \A c \in Calls : ~Begun(c) /\ run[c].pc = "none" /\ mem[c] = NoSession /\ db[c] = NoSession
  BY <1>2 DEF Begun, NoRun
<1>7. Numbered /\ RunsBound /\ KeptOf(mem) /\ KeptOf(db)
  BY <1>6 DEF Numbered, RunsBound, KeptOf
<1>8. RecentOnce
  BY <1>2, <1>6 DEF RecentOnce
<1>9. CoderIsolated /\ ReportedSurvives
  BY <1>6 DEF CoderIsolated, ReportedSurvives, IsAt
<1>10. Returned /\ FailHeard
  BY <1>2 DEF Returned, FailHeard, NoParent
<1> QED BY <1>5, <1>7, <1>8, <1>9, <1>10 DEF SubInv

LEMMA SubStutterKeeps ==
    ASSUME SubInv, UNCHANGED subVars
    PROVE  SubInv'
<1>1. /\ run' = run /\ mem' = mem /\ db' = db /\ recent' = recent /\ restarts' = restarts
      /\ permits' = permits /\ multiplier' = multiplier /\ trees' = trees /\ parent' = parent
  BY DEF subVars
<1>2. /\ permits \in Nat /\ multiplier \in 1..MaxMultiplier /\ trees \subseteq Calls
      /\ parent \in ParentRecords
  BY DEF SubInv, Typed
<1>3. CoderIsolated'
  BY <1>1 DEF SubInv, CoderIsolated, IsAt
<1>4. Returned' /\ FailHeard'
  BY <1>1, ReturnedKeeps DEF EndedStays
<1> QED BY <1>1, <1>2, <1>3, <1>4, SameRunsKeeps

LEMMA StepKeeps ==
    ASSUME SubInv, NEW c \in Calls, Step(c)
    PROVE  SubInv'
<1>1. CASE Acquire(c) \/ AcquireTimeout(c) \/ EnterFails(c) \/ FinishCancelled(c)
  BY <1>1, AcquireKeeps
<1>2. CASE Enter(c)
  BY <1>2, EnterKeeps
<1>3. ASSUME NEW recover \in {FALSE, multiplier > 1}, FinishEmpty(c, recover) PROVE SubInv'
  BY <1>3, FinishKeeps
<1>4. ASSUME NEW recover \in {FALSE, multiplier > 1},
             NEW v \in {"none", "PASS", "FAIL", "unparseable"},
             NEW s \in BOOLEAN, FinishReport(c, recover, v, s)
      PROVE SubInv'
  BY <1>4, ReportKeeps
<1>5. CASE persist_session(c)
  BY <1>5, PersistKeeps
<1>6. CASE save_subagent_session(c)
  BY <1>6, SaveKeeps
<1> QED BY <1>1, <1>2, <1>3, <1>4, <1>5, <1>6 DEF Step

LEMMA SubNextKeeps == SubInv /\ [SubNext]_subVars => SubInv'
<1> SUFFICES ASSUME SubInv, [SubNext]_subVars PROVE SubInv'
  OBVIOUS
<1>1. ASSUME NEW k \in AgentKinds, NEW g \in BOOLEAN, delegate(<<k>>, g) PROVE SubInv'
  <2>1. <<k>> \in Seq(AgentKinds)
    OBVIOUS
  <2> QED BY <1>1, <2>1, DelegateKeeps
<1>2. ASSUME NEW k \in AgentKinds, NEW l \in AgentKinds, delegate(<<k, l>>, FALSE) PROVE SubInv'
  <2>1. <<k, l>> \in Seq(AgentKinds)
    OBVIOUS
  <2> QED BY <1>2, <2>1, DelegateKeeps
<1>3. ASSUME NEW k \in AgentKinds, delegate_background(k) PROVE SubInv'
  BY <1>3, BackgroundKeeps
<1>4. ASSUME NEW c \in Calls, send_message(c) \/ Step(c) \/ on_rate_limited(c) \/ RemoveTree(c)
      PROVE  SubInv'
  BY <1>4, SendKeeps, StepKeeps, RateLimitedKeeps, RemoveTreeKeeps
<1>5. CASE Return
  BY <1>5, ReturnKeeps
<1>6. CASE NextCall \/ CancelParent
  BY <1>6, ParentKeeps
<1>7. CASE AbortAll
  BY <1>7, AbortKeeps
<1>8. CASE SubRestart
  BY <1>8, RestartKeeps
<1>9. CASE UNCHANGED subVars
  BY <1>9, SubStutterKeeps
<1> QED BY <1>1, <1>2, <1>3, <1>4, <1>5, <1>6, <1>7, <1>8, <1>9 DEF SubNext

LEMMA SubInvKept == SubInv => SubagentsKept
<1> SUFFICES ASSUME SubInv PROVE SubagentsKept
  OBVIOUS
<1>1. SubTypeOK
  <2>1. permits \in Nat /\ multiplier \in 1..MaxMultiplier /\ recent \in Seq(Calls)
    BY DEF SubInv, Typed
  <2>2. \A c \in Calls : run[c] \in RunRecords
    BY SubTypes DEF SubInv
  <2>3. \A s \in Calls : mem[s] # NoSession <=> \E i \in DOMAIN recent : recent[i] = s
    <3>1. DOMAIN recent = 1..Len(recent)
      BY <2>1
    <3> QED BY <3>1 DEF SubInv, RecentOnce
  <2> QED BY <2>1, <2>2, <2>3 DEF SubTypeOK, RunRecords
<1>2. BindingsKept
  BY DEF SubInv, RunsBound, BindingsKept, Begun
<1>3. NoneLeftBehind
  BY DEF SubInv, Returned, NoneLeftBehind, Holders, Ended
<1> QED BY <1>1, <1>2, <1>3 DEF SubInv, SubagentsKept

(* For any number of calls, permits, sessions kept in memory and restarts: *)
(* a Coder works in a worktree of its session, a session that is resumed,  *)
(* evicted or reloaded keeps its kind and authorisation, one that reported *)
(* is in the store, no sub-agent is at work or holds a permit when its     *)
(* tool call has returned, the FAIL of a Verifier is heard unless a PASS   *)
(* comes before it in the batch, nothing that no report says passes for a  *)
(* FAIL, and the list of recently used sessions agrees with the table      *)
(* (delegate.rs, spawn.rs).                                                *)
THEOREM SubagentsAreKept == SubSpec => []SubagentsKept
<1>1. SubInv /\ [SubNext]_subVars => SubInv'
  BY SubNextKeeps
<1> QED BY <1>1, SubInitInv, SubInvKept, PTL DEF SubSpec

-----------------------------------------------------------------------------
(* Background tasks.  What is known of one task, by its entry b in the     *)
(* store, its process p, what was told of it, whether the snapshot names   *)
(* it and whether a loop has it in its list.                               *)

TaskKept(b, p, d, onDisk, listed) ==
    /\ p = "none" => b = Absent /\ d = <<>> /\ ~onDisk /\ ~listed
    /\ b.status = "running" => p = "running" /\ ~b.notified /\ d = <<>> /\ ~listed
    /\ b.status \in {"completed", "failed"} /\ ~b.notified => d = <<>>
    /\ b.status = "killed" => b.notified
    /\ b.status = "lost" => ~onDisk /\ p = "ended" /\ (~b.notified => Len(d) <= 1)
    /\ b.notified => d # <<>>
    /\ onDisk => Len(d) <= 1
    /\ b.status = "absent" /\ p = "running" => d # <<>>
    /\ Len(d) <= 1 \/ (Len(d) = 2 /\ d[2] = "lost")

Listed(t) == \E l \in Loops : t \in seen[l]

BgInv ==
    /\ BgTypeOK /\ told \in [TaskIds -> Seq(Terminal)] /\ crashes \in Nat
    /\ \A t \in TaskIds : TaskKept(bg[t], process[t], told[t], t \in snapshot, Listed(t))
    /\ NotForgotten /\ RunningOnDisk

LEMMA BgFacts ==
    ASSUME BgInv, NEW t \in TaskIds
    PROVE  /\ bg[t] \in [status : Terminal \cup {"absent", "running"}, notified : BOOLEAN]
           /\ process[t] \in {"none", "running", "ended"} /\ told[t] \in Seq(Terminal)
           /\ bg[t].status \in Terminal \cup {"absent", "running"} /\ bg[t].notified \in BOOLEAN
           /\ TaskKept(bg[t], process[t], told[t], t \in snapshot, Listed(t))
<1>1. /\ bg[t] \in [status : Terminal \cup {"absent", "running"}, notified : BOOLEAN]
      /\ process[t] \in {"none", "running", "ended"} /\ told[t] \in Seq(Terminal)
  BY DEF BgInv, BgTypeOK
<1>2. bg[t].status \in Terminal \cup {"absent", "running"} /\ bg[t].notified \in BOOLEAN
  BY <1>1
<1>3. TaskKept(bg[t], process[t], told[t], t \in snapshot, Listed(t))
  BY DEF BgInv
<1> QED BY <1>1, <1>2, <1>3

(* What is told of a task.                                                 *)
LEMMA ToldAppend ==
    ASSUME NEW d \in Seq(Terminal), NEW s \in Terminal
    PROVE  /\ Append(d, s) \in Seq(Terminal) /\ Append(d, s) # <<>>
           /\ d = <<>> => Len(Append(d, s)) = 1
           /\ s = "lost" /\ Len(d) <= 1 =>
                 Len(Append(d, s)) <= 1 \/ (Len(Append(d, s)) = 2 /\ Append(d, s)[2] = "lost")
<1>1. /\ Append(d, s) \in Seq(Terminal) /\ Len(Append(d, s)) = Len(d) + 1 /\ Len(d) \in Nat
      /\ Append(d, s)[Len(d) + 1] = s
  BY AppendProperties
<1>2. Append(d, s) # <<>>
  BY <1>1
<1>3. d = <<>> => Len(Append(d, s)) = 1
  BY <1>1
<1> QED BY <1>1, <1>2, <1>3

(* A step that leaves the tables typed and changes the entry of one task.  *)
LEMMA OneTaskKeeps ==
    ASSUME BgInv, NEW u \in TaskIds,
           NEW b \in [status : Terminal \cup {"absent", "running"}, notified : BOOLEAN],
           NEW p \in {"none", "running", "ended"}, NEW d \in Seq(Terminal),
           bg' = [bg EXCEPT ![u] = b], process' = [process EXCEPT ![u] = p],
           told' = [told EXCEPT ![u] = d], snapshot' = snapshot, crashes' = crashes,
           unsaved' \in BOOLEAN, seen' \in [Loops -> SUBSET TaskIds],
           \A l \in Loops : seen'[l] \subseteq seen[l],
           unsaved' \/ (unsaved' = unsaved /\ (b.status = "running" <=> bg[u].status = "running")),
           TaskKept(b, p, d, u \in snapshot, Listed(u)),
           p = "ended" /\ crashes = 0 => d # <<>> \/ (b.status \in Terminal /\ ~b.notified)
    PROVE  BgInv'
<1>1. bg'[u] = b /\ process'[u] = p /\ told'[u] = d
  BY DEF BgInv, BgTypeOK
<1>2. \A t \in TaskIds : t # u => bg'[t] = bg[t] /\ process'[t] = process[t] /\ told'[t] = told[t]
  BY DEF BgInv, BgTypeOK
<1>3. \A t \in TaskIds : Listed(t)' => Listed(t)
  BY DEF Listed
<1>4. BgTypeOK' /\ told' \in [TaskIds -> Seq(Terminal)] /\ crashes' \in Nat
  BY DEF BgInv, BgTypeOK
<1>5. ASSUME NEW t \in TaskIds
      PROVE  TaskKept(bg'[t], process'[t], told'[t], t \in snapshot', Listed(t)')
  <2>1. TaskKept(bg'[t], process'[t], told'[t], t \in snapshot', Listed(t))
    BY <1>1, <1>2, BgFacts
  <2> QED BY <1>3, <2>1 DEF TaskKept
<1>6. NotForgotten'
  <2> SUFFICES ASSUME crashes' = 0, NEW t \in TaskIds, process'[t] = "ended"
               PROVE  told'[t] # <<>> \/ (bg'[t].status \in Terminal /\ ~bg'[t].notified)
    BY DEF NotForgotten, is_terminal
  <2>1. CASE t = u
    BY <1>1, <2>1
  <2>2. CASE t # u
    BY <1>2, <2>2 DEF BgInv, NotForgotten, is_terminal
  <2> QED BY <2>1, <2>2
<1>7. RunningOnDisk'
  <2>1. CASE unsaved'
    BY <2>1 DEF RunningOnDisk
  <2>2. CASE ~unsaved'
    <3>1. \A t \in TaskIds : bg'[t].status = "running" <=> bg[t].status = "running"
      BY <1>1, <1>2, <2>2
    <3>2. Running' = Running
      BY <3>1 DEF Running
    <3> QED BY <2>2, <3>2 DEF BgInv, RunningOnDisk
  <2> QED BY <2>1, <2>2
<1> QED BY <1>4, <1>5, <1>6, <1>7 DEF BgInv

LEMMA RegisterKeeps ==
    ASSUME BgInv, NEW u \in TaskIds, register(u), UNCHANGED <<snapshot, seen, told, crashes>>
    PROVE  BgInv'
<1>1. PICK b : b = [status |-> "running", notified |-> FALSE]
  OBVIOUS
<1>2. /\ b \in [status : Terminal \cup {"absent", "running"}, notified : BOOLEAN]
      /\ b.status = "running" /\ ~b.notified
  BY <1>1
<1>3. /\ bg' = [bg EXCEPT ![u] = b] /\ process' = [process EXCEPT ![u] = "running"]
      /\ process[u] = "none" /\ told[u] = <<>> /\ unsaved' = TRUE
  BY <1>1 DEF register
<1>4. told' = [told EXCEPT ![u] = told[u]]
  BY DEF BgInv
<1>5. u \notin snapshot /\ ~Listed(u)
  BY <1>3, BgFacts DEF TaskKept
<1>6. told[u] \in Seq(Terminal) /\ Len(told[u]) = 0
  BY <1>3, BgFacts
<1>7. TaskKept(b, "running", told[u], u \in snapshot, Listed(u))
  BY <1>2, <1>3, <1>5, <1>6 DEF TaskKept
<1>8. seen' \in [Loops -> SUBSET TaskIds] /\ \A l \in Loops : seen'[l] \subseteq seen[l]
  BY DEF BgInv, BgTypeOK
<1> QED BY <1>2, <1>3, <1>4, <1>6, <1>7, <1>8, OneTaskKeeps

LEMMA TaskExitKeeps ==
    ASSUME BgInv, NEW u \in TaskIds, NEW status \in {"completed", "failed"}, Exit(u, status)
    PROVE  BgInv'
<1>0. /\ bg[u] \in [status : Terminal \cup {"absent", "running"}, notified : BOOLEAN]
      /\ told[u] \in Seq(Terminal) /\ process[u] = "running" /\ process' = [process EXCEPT ![u] = "ended"]
      /\ TaskKept(bg[u], process[u], told[u], u \in snapshot, Listed(u))
  BY BgFacts DEF Exit
<1>1. told' = [told EXCEPT ![u] = told[u]]
  BY DEF BgInv, Exit
<1>2. /\ seen' \in [Loops -> SUBSET TaskIds] /\ \A l \in Loops : seen'[l] \subseteq seen[l]
      /\ snapshot' = snapshot /\ crashes' = crashes
  BY DEF BgInv, BgTypeOK, Exit
<1>3. CASE bg[u].status = "running"
  <2>1. PICK b : b = [bg[u] EXCEPT !.status = status]
    OBVIOUS
  <2>2. /\ b \in [status : Terminal \cup {"absent", "running"}, notified : BOOLEAN]
        /\ b.status = status /\ b.notified = bg[u].notified
    BY <1>0, <2>1 DEF Terminal
  <2>3. bg' = [bg EXCEPT ![u] = b] /\ unsaved' = TRUE
    BY <1>3, <2>1 DEF Exit, update_status, is_terminal, Terminal
  <2>4. ~b.notified /\ told[u] = <<>>
    BY <1>0, <1>3, <2>2 DEF TaskKept
  <2>5. TaskKept(b, "ended", told[u], u \in snapshot, Listed(u))
    BY <1>0, <2>2, <2>4 DEF TaskKept
  <2> QED BY <1>0, <1>1, <1>2, <2>2, <2>3, <2>4, <2>5, OneTaskKeeps DEF Terminal
<1>4. CASE bg[u].status # "running"
  <2>1. bg[u].status \in Terminal \cup {"absent"}
    BY <1>4, BgFacts
  <2>2. unsaved' = unsaved /\ bg' = [bg EXCEPT ![u] = bg[u]] /\ unsaved \in BOOLEAN
    BY <2>1 DEF Exit, update_status, is_terminal, BgInv, BgTypeOK
  <2>3. TaskKept(bg[u], "ended", told[u], u \in snapshot, Listed(u))
    BY <1>0, <1>4 DEF TaskKept
  <2>4. told[u] # <<>> \/ (bg[u].status \in Terminal /\ ~bg[u].notified)
    BY <1>0, <1>4, <2>1 DEF TaskKept
  <2> QED BY <1>0, <1>1, <1>2, <2>2, <2>3, <2>4, OneTaskKeeps
<1> QED BY <1>3, <1>4

LEMMA KillKeeps ==
    ASSUME BgInv, NEW u \in TaskIds, kill(u)
    PROVE  BgInv'
<1>0. /\ told[u] \in Seq(Terminal) /\ process[u] = "running" /\ told[u] = <<>> /\ "killed" \in Terminal
      /\ TaskKept(bg[u], process[u], told[u], u \in snapshot, Listed(u))
  BY BgFacts DEF kill, TaskKept, Terminal
<1>1. process' = [process EXCEPT ![u] = "running"]
  BY <1>0 DEF BgInv, BgTypeOK, kill
<1>2. /\ seen' \in [Loops -> SUBSET TaskIds] /\ \A l \in Loops : seen'[l] \subseteq seen[l]
      /\ snapshot' = snapshot /\ crashes' = crashes
  BY DEF BgInv, BgTypeOK, kill
<1>3. PICK b, d : b = [status |-> "killed", notified |-> TRUE] /\ d = Append(told[u], "killed")
  OBVIOUS
<1>4. /\ b \in [status : Terminal \cup {"absent", "running"}, notified : BOOLEAN]
      /\ b.status = "killed" /\ b.notified
  BY <1>3 DEF Terminal
<1>5. d \in Seq(Terminal) /\ d # <<>> /\ Len(d) = 1
  BY <1>0, <1>3, ToldAppend
<1>6. bg' = [bg EXCEPT ![u] = b] /\ told' = [told EXCEPT ![u] = d] /\ unsaved' = TRUE
  BY <1>3 DEF kill
<1>7. TaskKept(b, "running", d, u \in snapshot, Listed(u))
  BY <1>0, <1>4, <1>5 DEF TaskKept
<1> QED BY <1>1, <1>2, <1>4, <1>5, <1>6, <1>7, OneTaskKeeps

LEMMA MarkKeeps ==
    ASSUME BgInv, NEW l \in Loops, NEW u \in TaskIds, mark_notified(l, u)
    PROVE  BgInv'
<1>0. /\ bg[u] \in [status : Terminal \cup {"absent", "running"}, notified : BOOLEAN]
      /\ bg[u].status \in Terminal \cup {"absent", "running"}
      /\ told[u] \in Seq(Terminal) /\ process[u] \in {"none", "running", "ended"}
      /\ TaskKept(bg[u], process[u], told[u], u \in snapshot, Listed(u)) /\ Listed(u)
  BY BgFacts DEF mark_notified, Listed
<1>1. process' = [process EXCEPT ![u] = process[u]]
  BY DEF BgInv, BgTypeOK, mark_notified
<1>2. /\ seen' \in [Loops -> SUBSET TaskIds] /\ \A k \in Loops : seen'[k] \subseteq seen[k]
      /\ snapshot' = snapshot /\ crashes' = crashes /\ unsaved' = unsaved /\ unsaved \in BOOLEAN
  BY DEF BgInv, BgTypeOK, mark_notified
<1>3. CASE Claimed(u)
  <2>1. bg[u].status \in Terminal /\ ~bg[u].notified
    BY <1>0, <1>3 DEF Claimed, TaskKept
  <2>2. PICK b, d : b = [bg[u] EXCEPT !.notified = TRUE] /\ d = Append(told[u], bg[u].status)
    OBVIOUS
  <2>3. /\ b \in [status : Terminal \cup {"absent", "running"}, notified : BOOLEAN]
        /\ b.status = bg[u].status /\ b.notified
    BY <1>0, <2>2
  <2>4. /\ d \in Seq(Terminal) /\ d # <<>>
        /\ bg[u].status \in {"completed", "failed"} => Len(d) = 1
        /\ bg[u].status = "lost" => Len(d) <= 1 \/ (Len(d) = 2 /\ d[2] = "lost")
    BY <1>0, <2>1, <2>2, ToldAppend DEF TaskKept
  <2>5. bg' = [bg EXCEPT ![u] = b] /\ told' = [told EXCEPT ![u] = d]
    BY <1>3, <2>2 DEF mark_notified
  <2>6. bg[u].status \in {"completed", "failed", "lost"}
    BY <1>0, <2>1 DEF TaskKept, Terminal
  <2>7. TaskKept(b, process[u], d, u \in snapshot, Listed(u))
    <3>1. process[u] # "none"
      BY <1>0, <2>6 DEF TaskKept, Absent
    <3>2. b.status = "lost" => u \notin snapshot /\ process[u] = "ended"
      BY <1>0, <2>3 DEF TaskKept
    <3>3. u \in snapshot => Len(d) <= 1
      <4>1. b.status = bg[u].status
        BY <2>3
      <4>2. u \in snapshot => bg[u].status \in {"completed", "failed"}
        BY <2>6, <3>2, <4>1
      <4>3. Len(d) = 1 => Len(d) <= 1
        OBVIOUS
      <4> QED BY <2>4, <4>2, <4>3
    <3>4. Len(d) <= 1 \/ (Len(d) = 2 /\ d[2] = "lost")
      BY <2>4, <2>6
    <3>5. b.status \notin {"running", "killed", "absent"}
      BY <2>3, <2>6
    <3> QED BY <2>3, <2>4, <3>1, <3>2, <3>3, <3>4, <3>5 DEF TaskKept
  <2> QED BY <1>0, <1>1, <1>2, <2>3, <2>4, <2>5, <2>7, OneTaskKeeps
<1>4. CASE ~Claimed(u)
  <2>1. bg' = [bg EXCEPT ![u] = bg[u]] /\ told' = [told EXCEPT ![u] = told[u]]
    BY <1>4 DEF mark_notified, BgInv, BgTypeOK
  <2>2. process[u] = "ended" /\ crashes = 0 => told[u] # <<>> \/ (bg[u].status \in Terminal /\ ~bg[u].notified)
    BY DEF BgInv, NotForgotten, is_terminal
  <2>3. PICK b, p, d : b = bg[u] /\ p = process[u] /\ d = told[u]
    OBVIOUS
  <2>4. /\ bg' = [bg EXCEPT ![u] = b] /\ process' = [process EXCEPT ![u] = p]
        /\ told' = [told EXCEPT ![u] = d]
    BY <1>1, <2>1, <2>3
  <2>5. /\ b \in [status : Terminal \cup {"absent", "running"}, notified : BOOLEAN]
        /\ p \in {"none", "running", "ended"} /\ d \in Seq(Terminal)
        /\ TaskKept(b, p, d, u \in snapshot, Listed(u))
        /\ b.status = "running" <=> bg[u].status = "running"
        /\ p = "ended" /\ crashes = 0 => d # <<>> \/ (b.status \in Terminal /\ ~b.notified)
    BY <1>0, <2>2, <2>3
  <2> QED BY <1>2, <2>4, <2>5, OneTaskKeeps
<1> QED BY <1>3, <1>4

LEMMA ListKeeps ==
    ASSUME BgInv, NEW l \in Loops, unnotified_terminal_tasks(l)
    PROVE  BgInv'
<1>1. /\ bg' = bg /\ process' = process /\ snapshot' = snapshot /\ unsaved' = unsaved /\ told' = told
      /\ crashes' = crashes /\ seen' = [seen EXCEPT ![l] = Unnotified]
  BY DEF unnotified_terminal_tasks
<1>2. BgTypeOK' /\ told' \in [TaskIds -> Seq(Terminal)] /\ crashes' \in Nat
  BY <1>1 DEF BgInv, BgTypeOK, Unnotified
<1>3. ASSUME NEW t \in TaskIds
      PROVE  TaskKept(bg'[t], process'[t], told'[t], t \in snapshot', Listed(t)')
  <2>1. Listed(t)' => Listed(t) \/ bg[t].status \in Terminal
    BY <1>1 DEF Listed, Unnotified, is_terminal, BgInv, BgTypeOK
  <2>2. TaskKept(bg[t], process[t], told[t], t \in snapshot, Listed(t))
    BY BgFacts
  <2>3. bg[t].status \in Terminal => process[t] # "none" /\ bg[t].status # "running"
    BY <2>2 DEF TaskKept, Absent, Terminal
  <2>4. TaskKept(bg[t], process[t], told[t], t \in snapshot, Listed(t)')
    BY <2>1, <2>2, <2>3 DEF TaskKept
  <2> QED BY <1>1, <2>4
<1>4. NotForgotten' /\ RunningOnDisk'
  BY <1>1 DEF BgInv, NotForgotten, RunningOnDisk, is_terminal, Running
<1> QED BY <1>2, <1>3, <1>4 DEF BgInv

LEMMA EvictKeeps ==
    ASSUME BgInv, NEW l \in Loops, evict(l)
    PROVE  BgInv'
<1>1. /\ process' = process /\ snapshot' = snapshot /\ unsaved' = unsaved /\ told' = told
      /\ crashes' = crashes /\ seen' = seen
      /\ bg' = [t \in TaskIds |-> IF t \in Evictable THEN Absent ELSE bg[t]]
  BY DEF evict
<1>2. Absent \in [status : Terminal \cup {"absent", "running"}, notified : BOOLEAN]
      /\ Absent.status = "absent" /\ ~Absent.notified
  BY DEF Absent
<1>3. \A t \in TaskIds : bg[t] \in [status : Terminal \cup {"absent", "running"}, notified : BOOLEAN]
  BY DEF BgInv, BgTypeOK
<1>4. BgTypeOK' /\ told' \in [TaskIds -> Seq(Terminal)] /\ crashes' \in Nat
  BY <1>1, <1>2, <1>3 DEF BgInv, BgTypeOK
<1>5. \A t \in TaskIds : bg'[t] = bg[t] \/ (bg'[t] = Absent /\ bg[t].status \in Terminal /\ bg[t].notified)
  BY <1>1 DEF Evictable, is_terminal
<1>6. ASSUME NEW t \in TaskIds
      PROVE  TaskKept(bg'[t], process'[t], told'[t], t \in snapshot', Listed(t)')
  <2>1. TaskKept(bg[t], process[t], told[t], t \in snapshot, Listed(t))
    BY BgFacts
  <2>2. TaskKept(bg'[t], process[t], told[t], t \in snapshot, Listed(t))
    BY <1>2, <1>5, <2>1 DEF TaskKept
  <2>3. Listed(t)' <=> Listed(t)
    BY <1>1 DEF Listed
  <2> QED BY <1>1, <2>2, <2>3 DEF TaskKept
<1>7. NotForgotten'
  <2> SUFFICES ASSUME crashes = 0, NEW t \in TaskIds, process[t] = "ended"
               PROVE  told[t] # <<>> \/ (bg'[t].status \in Terminal /\ ~bg'[t].notified)
    BY <1>1 DEF NotForgotten, is_terminal
  <2>1. bg[t].notified => told[t] # <<>>
    BY BgFacts DEF TaskKept
  <2> QED BY <1>5, <2>1 DEF BgInv, NotForgotten, is_terminal
<1>8. RunningOnDisk'
  <2>1. \A t \in TaskIds : bg'[t].status = "running" <=> bg[t].status = "running"
    BY <1>2, <1>5 DEF Terminal
  <2>2. Running' = Running
    BY <2>1 DEF Running
  <2> QED BY <1>1, <2>2 DEF BgInv, RunningOnDisk
<1> QED BY <1>4, <1>6, <1>7, <1>8 DEF BgInv

LEMMA PersistTaskKeeps ==
    ASSUME BgInv, persist_snapshot
    PROVE  BgInv'
<1>1. /\ process' = process /\ snapshot' = Running /\ unsaved' = FALSE /\ told' = told
      /\ crashes' = crashes /\ seen' = seen /\ bg' = bg
  BY DEF persist_snapshot
<1>2. BgTypeOK' /\ told' \in [TaskIds -> Seq(Terminal)] /\ crashes' \in Nat
  BY <1>1 DEF BgInv, BgTypeOK, Running
<1>3. ASSUME NEW t \in TaskIds
      PROVE  TaskKept(bg'[t], process'[t], told'[t], t \in snapshot', Listed(t)')
  <2>1. TaskKept(bg[t], process[t], told[t], t \in snapshot, Listed(t)) /\ told[t] \in Seq(Terminal)
    BY BgFacts
  <2>2. t \in Running => bg[t].status = "running" /\ told[t] = <<>> /\ process[t] = "running"
    BY <2>1 DEF Running, TaskKept
  <2>3. told[t] = <<>> => Len(told[t]) = 0
    BY <2>1
  <2>4. TaskKept(bg[t], process[t], told[t], t \in Running, Listed(t))
    BY <2>1, <2>2, <2>3 DEF TaskKept
  <2>5. Listed(t)' <=> Listed(t)
    BY <1>1 DEF Listed
  <2> QED BY <1>1, <2>4, <2>5 DEF TaskKept
<1>4. NotForgotten' /\ RunningOnDisk'
  BY <1>1 DEF BgInv, NotForgotten, RunningOnDisk, is_terminal, Running
<1> QED BY <1>2, <1>3, <1>4 DEF BgInv

LEMMA CrashKeeps ==
    ASSUME BgInv, CrashAndRestart
    PROVE  BgInv'
<1>1. /\ process' = [t \in TaskIds |-> IF process[t] = "none" THEN "none" ELSE "ended"]
      /\ snapshot' = {} /\ unsaved' = FALSE /\ told' = told /\ crashes' = crashes + 1
      /\ seen' = [l \in Loops |-> {}]
      /\ bg' = [t \in TaskIds |-> IF t \in snapshot THEN [status |-> "lost", notified |-> FALSE] ELSE Absent]
  BY DEF CrashAndRestart, hydrate_and_mark_lost
<1>2. PICK b : b = [status |-> "lost", notified |-> FALSE]
  OBVIOUS
<1>3. /\ Absent \in [status : Terminal \cup {"absent", "running"}, notified : BOOLEAN]
      /\ b \in [status : Terminal \cup {"absent", "running"}, notified : BOOLEAN]
      /\ Absent.status = "absent" /\ ~Absent.notified /\ b.status = "lost" /\ ~b.notified
  BY <1>2 DEF Absent, Terminal
<1>4. \A t \in TaskIds : /\ bg'[t] = IF t \in snapshot THEN b ELSE Absent
                         /\ process'[t] = IF process[t] = "none" THEN "none" ELSE "ended"
  BY <1>1, <1>2
<1>5. BgTypeOK' /\ told' \in [TaskIds -> Seq(Terminal)]
  <2>1. bg' \in [TaskIds -> [status : Terminal \cup {"absent", "running"}, notified : BOOLEAN]]
    BY <1>1, <1>2, <1>3
  <2> QED BY <1>1, <2>1 DEF BgInv, BgTypeOK
<1>6. crashes' \in Nat /\ crashes' # 0
  BY <1>1 DEF BgInv
<1>7. ASSUME NEW t \in TaskIds
      PROVE  TaskKept(bg'[t], process'[t], told'[t], t \in snapshot', Listed(t)')
  <2>1. TaskKept(bg[t], process[t], told[t], t \in snapshot, Listed(t)) /\ told[t] \in Seq(Terminal)
    BY BgFacts
  <2>2. ~Listed(t)' /\ t \notin snapshot' /\ told'[t] = told[t]
    BY <1>1 DEF Listed
  <2>3. CASE t \in snapshot
    <3>1. bg'[t] = b /\ process'[t] = "ended" /\ Len(told[t]) <= 1
      BY <1>4, <2>1, <2>3 DEF TaskKept
    <3> QED BY <1>3, <2>1, <2>2, <3>1 DEF TaskKept
  <2>4. CASE t \notin snapshot
    <3>1. bg'[t] = Absent /\ process'[t] \in {"none", "ended"} /\ (process'[t] = "none" => told[t] = <<>>)
      BY <1>4, <2>1, <2>4 DEF TaskKept
    <3> QED BY <1>3, <2>1, <2>2, <3>1 DEF TaskKept
  <2> QED BY <2>3, <2>4
<1>8. NotForgotten'
  BY <1>6 DEF NotForgotten
<1>9. RunningOnDisk'
  BY <1>1, <1>3, <1>4 DEF RunningOnDisk, Running
<1> QED BY <1>5, <1>6, <1>7, <1>8, <1>9 DEF BgInv

LEMMA BgNextKeeps == BgInv /\ [BgNext]_bgVars => BgInv'
<1> SUFFICES ASSUME BgInv, [BgNext]_bgVars PROVE BgInv'
  OBVIOUS
<1>1. ASSUME NEW t \in TaskIds, Spawn(t) PROVE BgInv'
  BY <1>1, RegisterKeeps DEF Spawn
<1>2. ASSUME NEW t \in TaskIds, AutoBackground(t) PROVE BgInv'
  BY <1>2, RegisterKeeps DEF AutoBackground
<1>3. ASSUME NEW t \in TaskIds, kill(t) PROVE BgInv'
  BY <1>3, KillKeeps
<1>4. ASSUME NEW t \in TaskIds, NEW s \in {"completed", "failed"}, Exit(t, s) PROVE BgInv'
  BY <1>4, TaskExitKeeps
<1>5. ASSUME NEW l \in Loops, unnotified_terminal_tasks(l) PROVE BgInv'
  BY <1>5, ListKeeps
<1>6. ASSUME NEW l \in Loops, evict(l) PROVE BgInv'
  BY <1>6, EvictKeeps
<1>7. ASSUME NEW l \in Loops, NEW t \in TaskIds, mark_notified(l, t) PROVE BgInv'
  BY <1>7, MarkKeeps
<1>8. CASE persist_snapshot
  BY <1>8, PersistTaskKeeps
<1>9. CASE CrashAndRestart
  BY <1>9, CrashKeeps
<1>10. CASE UNCHANGED <<bg, process, snapshot, unsaved, seen, told, crashes>>
  BY <1>10 DEF BgInv, BgTypeOK, TaskKept, Listed, NotForgotten, RunningOnDisk, Running, is_terminal
<1>11. CASE Foreground \/ ForegroundEnds \/ UNCHANGED bgVars
  BY <1>10, <1>11 DEF Foreground, ForegroundEnds, bgVars
<1> QED
  BY <1>1, <1>2, <1>3, <1>4, <1>5, <1>6, <1>7, <1>8, <1>9, <1>11 DEF BgNext

LEMMA BgInitInv == BgInit => BgInv
<1> SUFFICES ASSUME BgInit PROVE BgInv
  OBVIOUS
<1>1. /\ Absent \in [status : Terminal \cup {"absent", "running"}, notified : BOOLEAN]
      /\ Absent.status = "absent" /\ ~Absent.notified
  BY DEF Absent
<1>2. \A t \in TaskIds : bg[t] = Absent /\ process[t] = "none" /\ told[t] = <<>> /\ t \notin snapshot /\ ~Listed(t)
  BY DEF BgInit, Listed
<1>3. \A t \in TaskIds : TaskKept(bg[t], process[t], told[t], t \in snapshot, Listed(t))
  BY <1>1, <1>2 DEF TaskKept
<1>4. BgTypeOK /\ told \in [TaskIds -> Seq(Terminal)] /\ crashes \in Nat
  <2>1. bg \in [TaskIds -> [status : Terminal \cup {"absent", "running"}, notified : BOOLEAN]]
    BY <1>1 DEF BgInit
  <2>2. told \in [TaskIds -> Seq(Terminal)] /\ crashes \in Nat
    BY DEF BgInit
  <2> QED BY <2>1, <2>2 DEF BgInit, BgTypeOK
<1>5. NotForgotten
  BY <1>2 DEF NotForgotten
<1>6. RunningOnDisk
  BY <1>1, <1>2 DEF RunningOnDisk, Running, BgInit
<1> QED BY <1>3, <1>4, <1>5, <1>6 DEF BgInv

(* A task that ended stays as it ended.                                    *)
LEMMA EndedTaskStays ==
    ASSUME BgInv, [BgNext]_bgVars, NEW t \in TaskIds, is_terminal(t)
    PROVE  bg'[t].status = bg[t].status \/ bg'[t].status = "absent" \/ crashes' # crashes
<1>0. bg \in [TaskIds -> [status : Terminal \cup {"absent", "running"}, notified : BOOLEAN]] /\ crashes \in Nat
  BY DEF BgInv, BgTypeOK
<1>1. ASSUME NEW u \in TaskIds, register(u) \/ kill(u) PROVE bg'[t] = bg[t]
  BY <1>0, <1>1 DEF register, kill, is_terminal, Terminal
<1>2. ASSUME NEW u \in TaskIds, NEW s \in {"completed", "failed"}, Exit(u, s) PROVE bg'[t] = bg[t]
  BY <1>0, <1>2 DEF Exit, update_status, is_terminal
<1>3. ASSUME NEW l \in Loops, evict(l) PROVE bg'[t] = bg[t] \/ bg'[t].status = "absent"
  BY <1>3 DEF evict, Absent
<1>4. ASSUME NEW l \in Loops, NEW u \in TaskIds, mark_notified(l, u) PROVE bg'[t].status = bg[t].status
  BY <1>0, <1>4 DEF mark_notified
<1>5. CASE CrashAndRestart
  BY <1>0, <1>5 DEF CrashAndRestart
<1>6. CASE bg' = bg
  BY <1>6
<1>7. ASSUME NEW l \in Loops, unnotified_terminal_tasks(l) PROVE bg' = bg
  BY <1>7 DEF unnotified_terminal_tasks
<1>8. CASE persist_snapshot \/ Foreground \/ ForegroundEnds \/ UNCHANGED bgVars
  BY <1>6, <1>8 DEF persist_snapshot, Foreground, ForegroundEnds, bgVars
<1> QED
  BY <1>1, <1>2, <1>3, <1>4, <1>5, <1>6, <1>7, <1>8 DEF BgNext, Spawn, AutoBackground

LEMMA BgInvKept == BgInv => BgTypeOK /\ ToldOnce /\ NotForgotten /\ RunningOnDisk
  BY DEF BgInv, TaskKept, ToldOnce

(* For any tasks, loops and number of crashes: the end of a background     *)
(* task is told once (once more, as lost, after a crash that came before   *)
(* the snapshot), waits in the store until it is told, and is final; and   *)
(* the snapshot on disk, or the one about to be written, names the tasks   *)
(* that a crash would lose (background_task).                              *)
THEOREM TasksAreTold == BgSpec => TasksTold
<1>1. BgInv /\ [BgNext]_bgVars => BgInv'
  BY BgNextKeeps
<1>2. BgInv /\ [BgNext]_bgVars =>
        [\A t \in TaskIds : is_terminal(t) =>
            bg'[t].status = bg[t].status \/ bg'[t].status = "absent" \/ crashes' # crashes]_bgVars
  BY EndedTaskStays
<1> QED BY <1>1, <1>2, BgInitInv, BgInvKept, PTL DEF BgSpec, TasksTold, EndedStaysEnded

-----------------------------------------------------------------------------
(* Scheduled jobs.                                                         *)

PresentJobs == [there : {TRUE}, enabled : BOOLEAN, fired : Never..Horizon, schedule : {"asked", "other"}]
JobRecords == PresentJobs \cup {NoJob}
TodoEntries == [name : JobNames, job : PresentJobs]
RunnerRecords ==
    [pc : {"idle", "scanned", "list", "fires"}, ticked : Never..Horizon, todo : Seq(TodoEntries), wake : Nat]
AgentRecords == [pc : {"none", "runs", "ended"}, text : Seq({1, 2}), anchor : Nat]

CronTypes ==
    /\ jobs \in [JobNames -> JobRecords] /\ files \in [JobNames -> JobRecords]
    /\ cached \in [JobNames -> {"none", "same", "older"}]
    /\ clock \in 0..Horizon /\ runner \in RunnerRecords
    /\ credit \in [JobNames -> Int] /\ spawned \in [JobNames -> Never..Horizon]

(* The runner's list names a job once; time waits for the one that fires.  *)
RunnerKept ==
    /\ runner.ticked <= clock
    /\ \A i, j \in 1..Len(runner.todo) : runner.todo[i].name = runner.todo[j].name => i = j
    /\ runner.pc \in {"idle", "scanned"} => runner.todo = <<>>
    /\ runner.pc = "fires" =>
          runner.todo # <<>> /\ clock <= runner.wake /\ runner.todo[1].job.schedule = "asked"

(* The delay of the jitter, and how far apart the agents of a job start.   *)
Delay(n) == IF Once(n) THEN 0 ELSE Wanted[n].jitter
Apart(n) ==
    IF Once(n) THEN Dedup ELSE IF Dedup > Wanted[n].cooldown THEN Dedup ELSE Wanted[n].cooldown

(* A one-shot job that may fire, from memory, its file or the list of the  *)
(* runner, is owed a firing; two, if it was removed after it was listed    *)
(* and its file was written anew.                                          *)
Live(j) == j.there /\ j.enabled /\ j.schedule = "asked"
Waits(r, n) == \E i \in 1..Len(r.todo) : r.todo[i].name = n /\ r.todo[i].job.schedule = "asked"

CreditKnown(c, j, f, waits) ==
    /\ c >= 0
    /\ Live(j) \/ Live(f) \/ waits => c >= 1
    /\ waits /\ ~j.there /\ Live(f) => c >= 2

(* The agent of a job starts its delay after the record of its firing, of  *)
(* which memory and the copy in the list know.                             *)
Firing(r, n) == r.pc = "fires" /\ r.todo[1].name = n

SpawnKnown(n, r, w, j) ==
    /\ w # Never /\ ~Firing(r, n) => j.there /\ j.fired # Never /\ w = j.fired + Delay(n)
    /\ Firing(r, n) /\ j.there /\ j.fired # Never => r.wake = j.fired + Delay(n)
    /\ Firing(r, n) /\ w # Never => r.wake >= w + Apart(n)
    /\ w # Never /\ ~Firing(r, n) =>
          \A i \in 1..Len(r.todo) : r.todo[i].name = n =>
              r.todo[i].job.fired # Never /\ w = r.todo[i].job.fired + Delay(n)

AgentsKept ==
    /\ agents \in [JobNames -> AgentRecords]
    /\ \A n \in JobNames : agents[n].anchor <= Len(agents[n].text)

CronInv ==
    /\ CronTypes /\ RunnerKept /\ AgentsKept
    /\ \A n \in JobNames : SpawnKnown(n, runner, spawned[n], jobs[n])
    /\ \A n \in JobNames : Once(n) => CreditKnown(credit[n], jobs[n], files[n], Waits(runner, n))

LEMMA CronConstants ==
    /\ Minute \in Nat \ {0} /\ Dedup \in Nat /\ Grace \in Nat /\ Horizon \in Nat
    /\ IsFiniteSet(JobNames)
    /\ \A n \in JobNames : Delay(n) \in Nat /\ Apart(n) \in Nat /\ (Once(n) => Wanted[n].at \in Int)
    /\ \A n \in JobNames : Apart(n) >= Dedup
BY CronAssumption DEF JobNames, Delay, Apart, Once

LEMMA JobFacts ==
    /\ NoJob \in JobRecords /\ NoJob.there = FALSE
    /\ NewJob \in PresentJobs /\ NewJob.there = TRUE /\ NewJob.enabled = TRUE
    /\ NewJob.fired = Never /\ NewJob.schedule = "asked"
    /\ \A j \in PresentJobs : /\ j.there = TRUE /\ j.enabled \in BOOLEAN /\ j.fired \in Never..Horizon
                              /\ j.schedule \in {"asked", "other"}
    /\ \A j \in JobRecords : j.there \in BOOLEAN /\ (j.there => j \in PresentJobs)
<1>1. NoJob \in JobRecords /\ NoJob.there = FALSE
  BY DEF NoJob, JobRecords
<1>2. Never \in Never..Horizon
  BY CronConstants DEF Never
<1>3. /\ NewJob \in PresentJobs /\ NewJob.there = TRUE /\ NewJob.enabled = TRUE
      /\ NewJob.fired = Never /\ NewJob.schedule = "asked"
  BY <1>2 DEF NewJob, PresentJobs
<1>4. \A j \in PresentJobs : /\ j.there = TRUE /\ j.enabled \in BOOLEAN /\ j.fired \in Never..Horizon
                             /\ j.schedule \in {"asked", "other"}
  BY DEF PresentJobs
<1>5. \A j \in JobRecords : j.there \in BOOLEAN /\ (j.there => j \in PresentJobs)
  BY <1>1, <1>4 DEF JobRecords
<1> QED BY <1>1, <1>3, <1>4, <1>5

LEMMA CronFacts ==
    ASSUME CronInv, NEW n \in JobNames
    PROVE  /\ jobs[n] \in JobRecords /\ files[n] \in JobRecords /\ credit[n] \in Int
           /\ spawned[n] \in Never..Horizon /\ cached[n] \in {"none", "same", "older"}
           /\ SpawnKnown(n, runner, spawned[n], jobs[n])
           /\ Once(n) => CreditKnown(credit[n], jobs[n], files[n], Waits(runner, n))
BY DEF CronInv, CronTypes

(* Memory and file of one job change, and what is known of it is kept.     *)
LEMMA StoreKeeps ==
    ASSUME CronInv, NEW m \in JobNames, NEW j \in JobRecords, NEW f \in JobRecords,
           NEW g \in {"none", "same", "older"}, NEW c \in Int, NEW w \in {Never, spawned[m]},
           jobs' = [jobs EXCEPT ![m] = j], files' = [files EXCEPT ![m] = f],
           cached' = [cached EXCEPT ![m] = g], credit' = [credit EXCEPT ![m] = c],
           spawned' = [spawned EXCEPT ![m] = w],
           runner' = runner, clock' = clock, agents' = agents,
           Once(m) => CreditKnown(c, j, f, Waits(runner, m)),
           j.there /\ j.fired # Never => jobs[m].there /\ jobs[m].fired = j.fired,
           w # Never /\ jobs[m].there => j.there /\ j.fired = jobs[m].fired
    PROVE  CronInv'
<1>1. w \in Never..Horizon
  BY CronFacts, JobFacts DEF PresentJobs
<1>2. CronTypes'
  BY <1>1 DEF CronInv, CronTypes
<1>3. RunnerKept' /\ AgentsKept'
  BY DEF CronInv, RunnerKept, AgentsKept
<1>4. /\ jobs'[m] = j /\ files'[m] = f /\ credit'[m] = c /\ spawned'[m] = w
      /\ \A n \in JobNames : n # m =>
            jobs'[n] = jobs[n] /\ files'[n] = files[n] /\ credit'[n] = credit[n] /\ spawned'[n] = spawned[n]
  BY DEF CronInv, CronTypes
<1>5. SpawnKnown(m, runner, w, j)
  BY CronFacts DEF SpawnKnown
<1>6. ASSUME NEW n \in JobNames PROVE SpawnKnown(n, runner', spawned'[n], jobs'[n])
  <2>1. CASE n = m
    BY <1>4, <1>5, <2>1
  <2>2. CASE n # m
    BY <1>4, <2>2, CronFacts
  <2> QED BY <2>1, <2>2
<1>7. ASSUME NEW n \in JobNames, Once(n)
      PROVE  CreditKnown(credit'[n], jobs'[n], files'[n], Waits(runner', n))
  <2>1. CASE n = m
    BY <1>4, <1>7, <2>1
  <2>2. CASE n # m
    BY <1>4, <1>7, <2>2, CronFacts
  <2> QED BY <2>1, <2>2
<1> QED BY <1>2, <1>3, <1>6, <1>7 DEF CronInv

LEMMA CreditGrows ==
    ASSUME CronInv, NEW m \in JobNames, Once(m), NEW j \in JobRecords, NEW f \in JobRecords,
           j.there \/ ~jobs[m].there
    PROVE  /\ credit[m] + 1 \in Int /\ CreditKnown(credit[m] + 1, j, f, Waits(runner, m))
<1>1. credit[m] \in Int /\ CreditKnown(credit[m], jobs[m], files[m], Waits(runner, m))
  BY CronFacts
<1>2. PICK c : c = credit[m]
  OBVIOUS
<1>3. c >= 0 /\ (Waits(runner, m) => c >= 1)
  BY <1>1, <1>2 DEF CreditKnown
<1>4. c \in Int /\ c + 1 >= 0 /\ c + 1 >= 1
  BY <1>1, <1>2, <1>3
<1>5. Waits(runner, m) => c + 1 >= 2
  BY <1>3, <1>4
<1> QED BY <1>2, <1>4, <1>5 DEF CreditKnown

LEMMA AddKeeps ==
    ASSUME CronInv, NEW m \in JobNames, add(m)
    PROVE  CronInv'
<1>1. /\ jobs' = [jobs EXCEPT ![m] = NewJob] /\ files' = [files EXCEPT ![m] = NewJob]
      /\ cached' = [cached EXCEPT ![m] = "same"] /\ credit' = [credit EXCEPT ![m] = credit[m] + 1]
      /\ spawned' = [spawned EXCEPT ![m] = Never]
      /\ runner' = runner /\ clock' = clock /\ agents' = agents
  BY DEF add, Owed, persist_one
<1>2. NewJob \in JobRecords /\ NewJob.there /\ NewJob.fired = Never
  BY JobFacts DEF JobRecords
<1>3. Once(m) => CreditKnown(credit[m] + 1, NewJob, NewJob, Waits(runner, m))
  BY <1>2, CreditGrows
<1>4. credit[m] + 1 \in Int
  BY CronFacts
<1> QED BY <1>1, <1>2, <1>3, <1>4, StoreKeeps

LEMMA RemoveKeeps ==
    ASSUME CronInv, NEW m \in JobNames, remove(m)
    PROVE  CronInv'
<1>1. /\ jobs' = [jobs EXCEPT ![m] = NoJob] /\ files' = [files EXCEPT ![m] = NoJob]
      /\ cached' = [cached EXCEPT ![m] = "none"] /\ spawned' = [spawned EXCEPT ![m] = Never]
      /\ runner' = runner /\ clock' = clock /\ agents' = agents /\ credit' = credit
  BY DEF remove
<1>2. NoJob \in JobRecords /\ ~NoJob.there
  BY JobFacts
<1>3. credit' = [credit EXCEPT ![m] = credit[m]] /\ credit[m] \in Int
  BY <1>1 DEF CronInv, CronTypes
<1>4. Once(m) => CreditKnown(credit[m], NoJob, NoJob, Waits(runner, m))
  BY <1>2, CronFacts DEF CreditKnown, Live
<1> QED BY <1>1, <1>2, <1>3, <1>4, StoreKeeps

LEMMA SwitchKeeps ==
    ASSUME CronInv, NEW m \in JobNames, NEW b \in BOOLEAN, Switch(m, b)
    PROVE  CronInv'
<1>0. jobs[m].there /\ jobs[m] \in JobRecords /\ credit[m] \in Int
  BY CronFacts DEF Switch
<1>1. PICK j : j = [jobs[m] EXCEPT !.enabled = b]
  OBVIOUS
<1>2. j \in JobRecords /\ j.there /\ j.fired = jobs[m].fired /\ j.enabled = b
  <2>1. j \in PresentJobs /\ j.fired = jobs[m].fired /\ j.enabled = b
    <3>1. jobs[m] \in PresentJobs
      BY <1>0, JobFacts
    <3> QED BY <1>1, <3>1 DEF PresentJobs
  <2> QED BY <2>1, JobFacts DEF JobRecords
<1>3. /\ jobs' = [jobs EXCEPT ![m] = j] /\ files' = [files EXCEPT ![m] = j]
      /\ cached' = [cached EXCEPT ![m] = "same"]
      /\ runner' = runner /\ clock' = clock /\ agents' = agents
      /\ IF b THEN credit' = [credit EXCEPT ![m] = credit[m] + 1] ELSE credit' = credit
  BY <1>1 DEF Switch, set_enabled, persist_one, Owed
<1>4. spawned' = [spawned EXCEPT ![m] = spawned[m]]
  BY DEF Switch, CronInv, CronTypes
<1>5. CASE b
  <2>1. Once(m) => CreditKnown(credit[m] + 1, j, j, Waits(runner, m))
    BY <1>2, CreditGrows
  <2>2. credit[m] + 1 \in Int
    BY <1>0
  <2> QED BY <1>0, <1>2, <1>3, <1>4, <1>5, <2>1, <2>2, StoreKeeps
<1>6. CASE ~b
  <2>1. credit' = [credit EXCEPT ![m] = credit[m]]
    BY <1>3, <1>6 DEF CronInv, CronTypes
  <2>2. Once(m) => CreditKnown(credit[m], j, j, Waits(runner, m))
    BY <1>2, <1>6, CronFacts DEF CreditKnown, Live
  <2> QED BY <1>0, <1>2, <1>3, <1>4, <2>1, <2>2, StoreKeeps
<1> QED BY <1>5, <1>6

LEMMA UpdateKeeps ==
    ASSUME CronInv, NEW m \in JobNames, NEW s \in {"asked", "other"}, update(m, s)
    PROVE  CronInv'
<1>0. /\ jobs[m].there /\ jobs[m] \in JobRecords /\ credit[m] \in Int
      /\ Once(m) => s = "other" \/ s = jobs[m].schedule
  BY CronFacts DEF update
<1>1. PICK j : j = [jobs[m] EXCEPT !.schedule = s]
  OBVIOUS
<1>2. j \in JobRecords /\ j.there /\ j.fired = jobs[m].fired /\ j.enabled = jobs[m].enabled /\ j.schedule = s
  <2>1. j \in PresentJobs /\ j.fired = jobs[m].fired /\ j.enabled = jobs[m].enabled /\ j.schedule = s
    <3>1. jobs[m] \in PresentJobs
      BY <1>0, JobFacts
    <3> QED BY <1>1, <3>1 DEF PresentJobs
  <2> QED BY <2>1, JobFacts DEF JobRecords
<1>3. /\ jobs' = [jobs EXCEPT ![m] = j] /\ files' = [files EXCEPT ![m] = j]
      /\ cached' = [cached EXCEPT ![m] = "same"]
      /\ runner' = runner /\ clock' = clock /\ agents' = agents
  BY <1>1 DEF update, persist_one
<1>4. spawned' = [spawned EXCEPT ![m] = spawned[m]] /\ credit' = [credit EXCEPT ![m] = credit[m]]
  BY DEF update, CronInv, CronTypes
<1>5. Once(m) => (Live(j) => Live(jobs[m]))
  BY <1>0, <1>2 DEF Live
<1>6. Once(m) => CreditKnown(credit[m], j, j, Waits(runner, m))
  BY <1>2, <1>5, CronFacts DEF CreditKnown
<1> QED BY <1>0, <1>2, <1>3, <1>4, <1>6, StoreKeeps

LEMMA EditKeeps ==
    ASSUME CronInv, NEW m \in JobNames, NEW b \in BOOLEAN, NEW noticed \in BOOLEAN, NEW t, EditFile(m, b, t, noticed)
    PROVE  CronInv'
<1>0. jobs[m] \in JobRecords /\ files[m] \in JobRecords /\ credit[m] \in Int /\ cached[m] \in {"none", "same", "older"}
  BY CronFacts
<1>1. t \in Never..Horizon
  <2>1. t = Never \/ (files[m].there /\ t = files[m].fired)
    BY DEF EditFile
  <2>2. files[m].there => files[m].fired \in Never..Horizon
    BY <1>0, JobFacts
  <2>3. Never \in Never..Horizon
    BY CronConstants DEF Never
  <2> QED BY <2>1, <2>2, <2>3
<1>2. PICK f : f = [NewJob EXCEPT !.enabled = b, !.fired = t]
  OBVIOUS
<1>3. f \in JobRecords /\ f.there /\ f.enabled = b
  BY <1>1, <1>2, JobFacts DEF JobRecords, PresentJobs, NewJob
<1>4. PICK g \in {"none", "same", "older"} : cached' = [cached EXCEPT ![m] = g]
  BY <1>0 DEF EditFile
<1>5. /\ files' = [files EXCEPT ![m] = f] /\ runner' = runner /\ clock' = clock /\ agents' = agents
      /\ IF b THEN credit' = [credit EXCEPT ![m] = credit[m] + 1] ELSE credit' = credit
  BY <1>2 DEF EditFile, Owed
<1>6. spawned' = [spawned EXCEPT ![m] = spawned[m]] /\ jobs' = [jobs EXCEPT ![m] = jobs[m]]
  BY DEF EditFile, CronInv, CronTypes
<1>7. CASE b
  <2>1. jobs[m].there \/ ~jobs[m].there
    OBVIOUS
  <2>2. Once(m) => CreditKnown(credit[m] + 1, jobs[m], f, Waits(runner, m))
    BY <1>0, <1>3, <2>1, CreditGrows
  <2>3. credit[m] + 1 \in Int
    BY <1>0
  <2> QED BY <1>0, <1>3, <1>4, <1>5, <1>6, <1>7, <2>2, <2>3, StoreKeeps
<1>8. CASE ~b
  <2>1. credit' = [credit EXCEPT ![m] = credit[m]]
    BY <1>5, <1>8 DEF CronInv, CronTypes
  <2>2. Once(m) => CreditKnown(credit[m], jobs[m], f, Waits(runner, m))
    BY <1>3, <1>8, CronFacts DEF CreditKnown, Live
  <2> QED BY <1>0, <1>3, <1>4, <1>5, <1>6, <2>1, <2>2, StoreKeeps
<1> QED BY <1>7, <1>8

LEMMA DeleteKeeps ==
    ASSUME CronInv, NEW m \in JobNames, DeleteFile(m)
    PROVE  CronInv'
<1>0. jobs[m] \in JobRecords /\ credit[m] \in Int /\ cached[m] \in {"none", "same", "older"}
  BY CronFacts
<1>1. files' = [files EXCEPT ![m] = NoJob] /\ runner' = runner /\ clock' = clock /\ agents' = agents
  BY DEF DeleteFile
<1>2. /\ spawned' = [spawned EXCEPT ![m] = spawned[m]] /\ jobs' = [jobs EXCEPT ![m] = jobs[m]]
      /\ credit' = [credit EXCEPT ![m] = credit[m]] /\ cached' = [cached EXCEPT ![m] = cached[m]]
  BY DEF DeleteFile, CronInv, CronTypes
<1>3. NoJob \in JobRecords /\ ~NoJob.there
  BY JobFacts
<1>4. Once(m) => CreditKnown(credit[m], jobs[m], NoJob, Waits(runner, m))
  BY <1>3, CronFacts DEF CreditKnown, Live
<1> QED BY <1>0, <1>1, <1>2, <1>3, <1>4, StoreKeeps

(* The store and the credit stay, and so does what the list says of them.  *)
LEMMA RunnerFacts ==
    ASSUME CronInv
    PROVE  /\ runner \in RunnerRecords /\ runner.todo \in Seq(TodoEntries) /\ runner.ticked \in Never..Horizon
           /\ runner.wake \in Nat /\ runner.pc \in {"idle", "scanned", "list", "fires"}
           /\ clock \in 0..Horizon /\ runner.ticked <= clock /\ Len(runner.todo) \in Nat
           /\ \A i \in 1..Len(runner.todo) : runner.todo[i] \in TodoEntries
<1>1. runner \in RunnerRecords /\ clock \in 0..Horizon /\ runner.ticked <= clock
  BY DEF CronInv, CronTypes, RunnerKept
<1>2. /\ runner.todo \in Seq(TodoEntries) /\ runner.ticked \in Never..Horizon
      /\ runner.wake \in Nat /\ runner.pc \in {"idle", "scanned", "list", "fires"}
  BY <1>1 DEF RunnerRecords
<1> QED BY <1>1, <1>2

LEMMA EntryFacts ==
    \A e \in TodoEntries : /\ e.name \in JobNames /\ e.job \in PresentJobs
                           /\ e.job.fired \in Never..Horizon /\ e.job.schedule \in {"asked", "other"}
BY JobFacts DEF TodoEntries

(* The first entry is dropped.                                             *)
LEMMA TailFacts ==
    ASSUME CronInv, runner.todo # <<>>, NEW t, t = Tail(runner.todo)
    PROVE  /\ t \in Seq(TodoEntries) /\ Len(t) \in Nat /\ Len(runner.todo) = Len(t) + 1
           /\ \A i \in 1..Len(t) : t[i] = runner.todo[i + 1] /\ i + 1 \in 1..Len(runner.todo)
           /\ runner.todo[1] \in TodoEntries /\ Head(runner.todo) = runner.todo[1] /\ 1 \in 1..Len(runner.todo)
           /\ \A i, k \in 1..Len(t) : t[i].name = t[k].name => i = k
           /\ \A i \in 1..Len(t) : t[i].name # runner.todo[1].name
<1>1. PICK s : s = runner.todo
  OBVIOUS
<1>2. s \in Seq(TodoEntries) /\ s # <<>> /\ t = Tail(s) /\ Len(s) \in Nat
  BY <1>1, RunnerFacts
<1>3. /\ t \in Seq(TodoEntries) /\ Len(t) = Len(s) - 1 /\ \A i \in 1..Len(t) : t[i] = s[i + 1]
      /\ Len(s) # 0
  BY <1>2, HeadTailProperties, EmptySeq
<1>4. Len(t) \in Nat /\ Len(s) = Len(t) + 1 /\ 1 \in 1..Len(s) /\ s[1] \in TodoEntries /\ Head(s) = s[1]
  BY <1>2, <1>3
<1>5. \A i \in 1..Len(t) : i + 1 \in 1..Len(s) /\ i + 1 # 1
  BY <1>4
<1>6. \A i, k \in 1..Len(s) : s[i].name = s[k].name => i = k
  BY <1>1 DEF CronInv, RunnerKept
<1>7. \A i \in 1..Len(t) : t[i].name # s[1].name
  BY <1>3, <1>4, <1>5, <1>6
<1>8. \A i, k \in 1..Len(t) : t[i].name = t[k].name => i = k
  <2> SUFFICES ASSUME NEW i \in 1..Len(t), NEW k \in 1..Len(t), t[i].name = t[k].name PROVE i = k
    OBVIOUS
  <2>1. i + 1 = k + 1
    BY <1>3, <1>5, <1>6
  <2> QED BY <1>4, <2>1
<1> QED BY <1>1, <1>3, <1>4, <1>5, <1>7, <1>8

(* The runner moves on; the store and what is owed stay.                   *)
LEMMA RunnerMoves ==
    ASSUME CronInv, NEW r \in RunnerRecords, runner' = r, NEW k \in 0..Horizon, clock' = k,
           UNCHANGED <<storeVars, agents, credit, spawned>>,
           r.ticked <= k,
           \A i, l \in 1..Len(r.todo) : r.todo[i].name = r.todo[l].name => i = l,
           r.pc \in {"idle", "scanned"} => r.todo = <<>>,
           r.pc = "fires" => r.todo # <<>> /\ k <= r.wake /\ r.todo[1].job.schedule = "asked",
           \A n \in JobNames : SpawnKnown(n, r, spawned[n], jobs[n]),
           \A n \in JobNames : Waits(r, n) => Waits(runner, n) \/ (jobs[n].there /\ Live(jobs[n]))
    PROVE  CronInv'
<1>1. jobs' = jobs /\ files' = files /\ cached' = cached /\ agents' = agents /\ credit' = credit /\ spawned' = spawned
  BY DEF storeVars
<1>2. CronTypes'
  BY <1>1 DEF CronInv, CronTypes
<1>3. RunnerKept'
  BY DEF RunnerKept
<1>4. AgentsKept'
  BY <1>1 DEF CronInv, AgentsKept
<1>5. \A n \in JobNames : SpawnKnown(n, runner', spawned'[n], jobs'[n])
  BY <1>1
<1>6. ASSUME NEW n \in JobNames, Once(n)
      PROVE  CreditKnown(credit'[n], jobs'[n], files'[n], Waits(runner', n))
  <2>1. CreditKnown(credit[n], jobs[n], files[n], Waits(runner, n))
    BY <1>6, CronFacts
  <2>2. CreditKnown(credit[n], jobs[n], files[n], Waits(r, n))
    BY <2>1 DEF CreditKnown
  <2> QED BY <1>1, <2>2
<1> QED BY <1>2, <1>3, <1>4, <1>5, <1>6 DEF CronInv

LEMMA PassKeeps ==
    ASSUME CronInv, Pass
    PROVE  CronInv'
<1>1. /\ runner' = runner /\ clock' = clock + 1 /\ clock < Horizon
      /\ UNCHANGED <<storeVars, agents, credit, spawned>> /\ (runner.pc = "fires" => clock < runner.wake)
  BY DEF Pass
<1>2. /\ runner \in RunnerRecords /\ runner.ticked \in Never..Horizon /\ runner.wake \in Nat
      /\ clock \in 0..Horizon /\ runner.ticked <= clock
  BY RunnerFacts
<1>3. PICK k : k = clock + 1
  OBVIOUS
<1>4. k \in 0..Horizon /\ runner.ticked <= k /\ (runner.pc = "fires" => k <= runner.wake)
  BY <1>1, <1>2, <1>3, CronConstants DEF Never
<1>5. \A n \in JobNames : SpawnKnown(n, runner, spawned[n], jobs[n])
  BY DEF CronInv
<1>6. /\ \A i, l \in 1..Len(runner.todo) : runner.todo[i].name = runner.todo[l].name => i = l
      /\ runner.pc \in {"idle", "scanned"} => runner.todo = <<>>
      /\ runner.pc = "fires" => runner.todo # <<>> /\ runner.todo[1].job.schedule = "asked"
  BY DEF CronInv, RunnerKept
<1> QED BY <1>1, <1>2, <1>3, <1>4, <1>5, <1>6, RunnerMoves

LEMMA SkipKeeps ==
    ASSUME CronInv, Skip
    PROVE  CronInv'
<1>1. UNCHANGED <<storeVars, agents, credit, spawned>> /\ clock' = clock /\ runner.pc = "list"
  BY DEF Skip
<1>2. /\ runner \in RunnerRecords /\ runner.ticked <= clock /\ clock \in 0..Horizon
      /\ runner.todo \in Seq(TodoEntries)
  BY RunnerFacts
<1>3. CASE runner.todo = <<>>
  <2>1. PICK r : r = [runner EXCEPT !.pc = "idle"]
    OBVIOUS
  <2>2. r \in RunnerRecords /\ r.pc = "idle" /\ r.todo = <<>> /\ r.ticked = runner.ticked /\ runner' = r
    BY <1>2, <1>3, <2>1 DEF RunnerRecords, Skip
  <2>3. Len(r.todo) = 0 /\ Len(runner.todo) = 0
    BY <1>3, <2>2
  <2>4. ASSUME NEW n \in JobNames PROVE SpawnKnown(n, r, spawned[n], jobs[n])
    <3>1. SpawnKnown(n, runner, spawned[n], jobs[n]) /\ ~Firing(runner, n) /\ ~Firing(r, n)
      BY <1>1, <2>2, CronFacts DEF Firing
    <3> QED BY <2>3, <3>1 DEF SpawnKnown
  <2>5. \A n \in JobNames : ~Waits(r, n)
    BY <2>3 DEF Waits
  <2>6. \A i, l \in 1..Len(r.todo) : r.todo[i].name = r.todo[l].name => i = l
    BY <2>3
  <2> QED BY <1>1, <1>2, <2>2, <2>4, <2>5, <2>6, RunnerMoves
<1>4. CASE runner.todo # <<>>
  <2>1. PICK t : t = Tail(runner.todo)
    OBVIOUS
  <2>2. /\ t \in Seq(TodoEntries) /\ \A i \in 1..Len(t) : t[i] = runner.todo[i + 1] /\ i + 1 \in 1..Len(runner.todo)
        /\ \A i, k \in 1..Len(t) : t[i].name = t[k].name => i = k
    BY <1>4, <2>1, TailFacts
  <2>3. PICK r : r = [runner EXCEPT !.todo = t]
    OBVIOUS
  <2>4. r \in RunnerRecords /\ r.pc = "list" /\ r.todo = t /\ r.ticked = runner.ticked /\ runner' = r
    BY <1>1, <1>2, <1>4, <2>1, <2>2, <2>3 DEF RunnerRecords, Skip
  <2>5. ASSUME NEW n \in JobNames PROVE SpawnKnown(n, r, spawned[n], jobs[n])
    <3>1. SpawnKnown(n, runner, spawned[n], jobs[n]) /\ ~Firing(runner, n) /\ ~Firing(r, n)
      BY <1>1, <2>4, CronFacts DEF Firing
    <3> QED BY <2>2, <2>4, <3>1 DEF SpawnKnown
  <2>6. \A n \in JobNames : Waits(r, n) => Waits(runner, n)
    BY <2>2, <2>4 DEF Waits
  <2> QED BY <1>1, <1>2, <2>2, <2>4, <2>5, <2>6, RunnerMoves
<1> QED BY <1>3, <1>4

LEMMA ListJobsKeeps ==
    ASSUME CronInv, NEW order \in [1..Cardinality(JobNames) -> JobNames],
           \A i, k \in DOMAIN order : order[i] = order[k] => i = k, enabled_jobs(order)
    PROVE  CronInv'
<1> DEFINE N == Cardinality(JobNames)
           All == [name : JobNames, job : JobRecords]
           s == [i \in 1..N |-> [name |-> order[i], job |-> jobs[order[i]]]]
           I == {i \in 1..N : jobs[order[i]].there /\ jobs[order[i]].enabled}
           t == At(s, I)
<1>1. N \in Nat /\ DOMAIN order = 1..N
  <2>1. N \in Nat
    BY CronConstants, FS_CardinalityType
  <2> QED BY <2>1
<1> HIDE DEF N
<1>2. \A i \in 1..N : order[i] \in JobNames /\ jobs[order[i]] \in JobRecords
  BY <1>1, CronFacts DEF N
<1>3. s \in Seq(All) /\ Len(s) = N /\ \A i \in 1..N : s[i].name = order[i] /\ s[i].job = jobs[order[i]]
  <2>1. \A i \in 1..N : [name |-> order[i], job |-> jobs[order[i]]] \in All
    BY <1>2
  <2>2. s \in [1..N -> All]
    BY <2>1
  <2>3. s \in Seq(All) /\ Len(s) = N
    BY <1>1, <2>2
  <2> QED BY <2>3
<1>4. /\ runner.pc = "scanned" /\ UNCHANGED <<storeVars, clock, agents, credit, spawned>>
      /\ runner' = [runner EXCEPT !.pc = "list", !.todo = t]
  BY <1>1 DEF enabled_jobs
<1> HIDE DEF s
<1>5. t \in Seq(All) /\ \E f : Places(f, t, s, I, Len(s))
  BY <1>3, AtPlaces
<1> HIDE DEF t
<1>6. PICK f : Places(f, t, s, I, N)
  BY <1>3, <1>5
<1>7. /\ \A i \in 1..Len(t) : f[i] \in 1..N /\ jobs[order[f[i]]].there /\ jobs[order[f[i]]].enabled
      /\ \A i \in 1..Len(t) : t[i].name = order[f[i]] /\ t[i].job = jobs[order[f[i]]]
      /\ \A i, k \in 1..Len(t) : i < k => f[i] < f[k]
  BY <1>3, <1>6 DEF Places
<1>8. Len(t) \in Nat /\ \A i \in 1..Len(t) : t[i] \in All
  <2> HIDE DEF All
  <2> QED BY <1>5
<1>9. \A i \in 1..Len(t) : t[i].name \in JobNames /\ t[i].job = jobs[t[i].name] /\ t[i].job.there /\ t[i].job.enabled
  <2> SUFFICES ASSUME NEW i \in 1..Len(t)
               PROVE  t[i].name \in JobNames /\ t[i].job = jobs[t[i].name] /\ t[i].job.there /\ t[i].job.enabled
    OBVIOUS
  <2>1. PICK x \in 1..N : x = f[i]
    BY <1>7
  <2>2. /\ t[i].name = order[x] /\ t[i].job = jobs[order[x]] /\ order[x] \in JobNames
        /\ jobs[order[x]].there /\ jobs[order[x]].enabled
    BY <1>2, <1>7, <2>1
  <2> QED BY <2>2
<1>10. t \in Seq(TodoEntries)
  <2>1. \A i \in 1..Len(t) : t[i] \in TodoEntries
    <3> SUFFICES ASSUME NEW i \in 1..Len(t) PROVE t[i] \in TodoEntries
      OBVIOUS
    <3>1. t[i].job \in PresentJobs
      BY <1>8, <1>9, JobFacts
    <3> QED BY <1>8, <3>1 DEF TodoEntries
  <2>2. t = [i \in 1..Len(t) |-> t[i]]
    BY <1>5
  <2> QED BY <1>8, <2>1, <2>2
<1>11. \A i, k \in 1..Len(t) : t[i].name = t[k].name => i = k
  <2> SUFFICES ASSUME NEW i \in 1..Len(t), NEW k \in 1..Len(t), t[i].name = t[k].name PROVE i = k
    OBVIOUS
  <2>1. f[i] = f[k] /\ f[i] \in Nat
    BY <1>1, <1>7
  <2>2. ~(i < k) /\ ~(k < i)
    BY <1>7, <2>1
  <2> QED BY <1>8, <2>2
<1>12. PICK r : r = [runner EXCEPT !.pc = "list", !.todo = t]
  OBVIOUS
<1>13. r \in RunnerRecords /\ r.pc = "list" /\ r.todo = t /\ r.ticked = runner.ticked /\ runner' = r
  <2>1. runner \in RunnerRecords
    BY RunnerFacts
  <2> QED BY <1>4, <1>10, <1>12, <2>1 DEF RunnerRecords
<1>14. ASSUME NEW n \in JobNames PROVE SpawnKnown(n, r, spawned[n], jobs[n])
  <2>1. SpawnKnown(n, runner, spawned[n], jobs[n]) /\ ~Firing(runner, n) /\ ~Firing(r, n)
    BY <1>4, <1>13, CronFacts DEF Firing
  <2>2. spawned[n] # Never => jobs[n].there /\ jobs[n].fired # Never /\ spawned[n] = jobs[n].fired + Delay(n)
    BY <2>1 DEF SpawnKnown
  <2> QED BY <1>9, <1>13, <2>1, <2>2 DEF SpawnKnown
<1>15. \A n \in JobNames : Waits(r, n) => jobs[n].there /\ Live(jobs[n])
  BY <1>9, <1>13 DEF Waits, Live
<1>16. clock \in 0..Horizon /\ runner.ticked <= clock /\ clock' = clock /\ UNCHANGED <<storeVars, agents, credit, spawned>>
  BY <1>4, RunnerFacts
<1> QED BY <1>11, <1>13, <1>14, <1>15, <1>16, RunnerMoves

LEMMA ScanKeeps ==
    ASSUME CronInv, Scan
    PROVE  CronInv'
<1>1. /\ runner.pc = "idle" /\ files' = files /\ clock' = clock /\ agents' = agents /\ credit' = credit
      /\ runner' = [runner EXCEPT !.pc = "scanned", !.ticked = clock]
      /\ cached' = [n \in JobNames |-> IF files[n].there THEN "same" ELSE "none"]
      /\ spawned' = [n \in JobNames |-> IF jobs'[n].there THEN spawned[n] ELSE Never]
  BY DEF Scan
<1>2. runner \in RunnerRecords /\ runner.todo = <<>> /\ clock \in 0..Horizon
  BY <1>1, RunnerFacts DEF CronInv, RunnerKept
<1>3. PICK r : r = [runner EXCEPT !.pc = "scanned", !.ticked = clock]
  OBVIOUS
<1>4. /\ r \in RunnerRecords /\ r.pc = "scanned" /\ r.todo = <<>> /\ r.ticked = clock /\ runner' = r
      /\ Len(r.todo) = 0
  <2>1. clock \in Never..Horizon
    BY <1>2, CronConstants DEF Never
  <2> QED BY <1>1, <1>2, <1>3, <2>1 DEF RunnerRecords
<1>5. jobs' = [n \in JobNames |->
         CASE ~files[n].there /\ cached[n] # "none" -> NoJob
           [] files[n].there /\ cached[n] # "same" -> upsert(n)
           [] OTHER -> jobs[n]]
  BY DEF Scan
<1>6. ASSUME NEW n \in JobNames
      PROVE  /\ jobs'[n] \in JobRecords
             /\ jobs'[n].there /\ jobs[n].there => jobs'[n].fired = jobs[n].fired
             /\ Live(jobs'[n]) => Live(jobs[n]) \/ Live(files[n])
  <2>0. jobs[n] \in JobRecords /\ files[n] \in JobRecords
    BY CronFacts
  <2>1. CASE files[n].there /\ jobs[n].there /\ jobs'[n] = upsert(n)
    <3>1. PICK f, g, t : f = files[n] /\ t = jobs[n].fired /\ g = [f EXCEPT !.fired = t]
      OBVIOUS
    <3>2. f \in PresentJobs /\ t \in Never..Horizon
      BY <2>0, <2>1, <3>1, JobFacts
    <3>3. g \in PresentJobs /\ g.fired = t /\ g.there = f.there /\ g.enabled = f.enabled /\ g.schedule = f.schedule
      BY <3>1, <3>2 DEF PresentJobs
    <3>4. jobs'[n] = g
      BY <2>1, <3>1 DEF upsert
    <3> QED BY <3>1, <3>3, <3>4 DEF Live, JobRecords
  <2>2. CASE files[n].there /\ ~jobs[n].there /\ jobs'[n] = upsert(n)
    BY <2>0, <2>2 DEF upsert
  <2>3. CASE jobs'[n] = NoJob
    BY <2>3, JobFacts DEF Live
  <2>4. CASE jobs'[n] = jobs[n]
    BY <2>0, <2>4
  <2> QED BY <1>5, <2>1, <2>2, <2>3, <2>4
<1>7. ASSUME NEW n \in JobNames
      PROVE  /\ spawned'[n] = IF jobs'[n].there THEN spawned[n] ELSE Never
             /\ spawned'[n] \in Never..Horizon
  BY <1>1, CronFacts, CronConstants DEF Never
<1>8. CronTypes'
  <2>1. jobs' \in [JobNames -> JobRecords]
    BY <1>5, <1>6
  <2>2. spawned' \in [JobNames -> Never..Horizon]
    BY <1>1, <1>7
  <2> QED BY <1>1, <1>2, <1>4, <2>1, <2>2 DEF CronInv, CronTypes
<1>9. RunnerKept' /\ AgentsKept'
  BY <1>1, <1>2, <1>4 DEF CronInv, RunnerKept, AgentsKept
<1>10. ASSUME NEW n \in JobNames PROVE SpawnKnown(n, runner', spawned'[n], jobs'[n])
  <2>1. SpawnKnown(n, runner, spawned[n], jobs[n]) /\ ~Firing(runner, n) /\ ~Firing(r, n)
    BY <1>1, <1>4, CronFacts DEF Firing
  <2>2. spawned[n] # Never => jobs[n].there /\ jobs[n].fired # Never /\ spawned[n] = jobs[n].fired + Delay(n)
    BY <2>1 DEF SpawnKnown
  <2>3. spawned'[n] # Never =>
          jobs'[n].there /\ jobs'[n].fired # Never /\ spawned'[n] = jobs'[n].fired + Delay(n)
    BY <1>6, <1>7, <2>2
  <2> QED BY <1>4, <2>1, <2>3 DEF SpawnKnown
<1>11. ASSUME NEW n \in JobNames, Once(n)
       PROVE  CreditKnown(credit'[n], jobs'[n], files'[n], Waits(runner', n))
  <2>1. CreditKnown(credit[n], jobs[n], files[n], Waits(runner, n))
    BY <1>11, CronFacts
  <2>2. ~Waits(r, n)
    BY <1>4 DEF Waits
  <2>3. CreditKnown(credit[n], jobs'[n], files[n], Waits(r, n))
    BY <1>6, <2>1, <2>2 DEF CreditKnown
  <2> QED BY <1>1, <1>4, <2>3
<1> QED BY <1>8, <1>9, <1>10, <1>11 DEF CronInv

LEMMA RecordKeeps ==
    ASSUME CronInv, record_fired
    PROVE  CronInv'
<1>0. runner.pc = "list" /\ Due /\ runner.todo # <<>>
  BY DEF record_fired, Due
<1>1. PICK e, m, T : e = runner.todo[1] /\ m = e.name /\ T = runner.todo
  OBVIOUS
<1>2. /\ e \in TodoEntries /\ Head(runner.todo) = e /\ m \in JobNames /\ 1 \in 1..Len(T) /\ T \in Seq(TodoEntries)
      /\ e.job \in PresentJobs /\ e.job.fired \in Never..Horizon
  <2>1. PICK t : t = Tail(runner.todo)
    OBVIOUS
  <2>2. e \in TodoEntries /\ Head(runner.todo) = e /\ 1 \in 1..Len(T)
    BY <1>0, <1>1, <2>1, TailFacts
  <2> QED BY <1>1, <2>2, EntryFacts, RunnerFacts
<1>3. /\ clock \in 0..Horizon /\ runner.ticked \in Never..Horizon /\ runner.ticked <= clock /\ runner \in RunnerRecords
      /\ jobs[m] \in JobRecords
  BY <1>2, RunnerFacts, CronFacts
<1>4. e.job.schedule = "asked" /\ (e.job.fired # Never => runner.ticked - e.job.fired >= Apart(m))
  <2>1. matches_now(m, e.job) /\ ~Held(m, e.job)
    BY <1>0, <1>1, <1>2 DEF Due
  <2>2. e.job.schedule = "asked"
    BY <2>1 DEF matches_now
  <2>3. e.job.fired # Never => /\ ~(runner.ticked - e.job.fired < Dedup)
                               /\ ~Once(m) => ~(runner.ticked - e.job.fired < Wanted[m].cooldown)
    BY <2>1 DEF Held
  <2>4. PICK a, b : a = runner.ticked /\ b = e.job.fired
    OBVIOUS
  <2>5. a \in Int /\ b \in Int /\ a - b \in Int
    BY <1>2, <1>3, <2>4, CronConstants DEF Never
  <2>6. Dedup \in Nat /\ Wanted[m].cooldown \in Nat
    BY <1>2, CronAssumption DEF JobNames
  <2>7. b # Never => a - b >= Apart(m)
    BY <2>3, <2>4, <2>5, <2>6 DEF Apart
  <2> QED BY <2>2, <2>4, <2>7
<1>5. Delay(m) \in Nat /\ Apart(m) \in Nat
  BY <1>2, CronConstants
<1>6. PICK k, w : k = clock /\ w = k + Delay(m)
  OBVIOUS
<1>7. k \in 0..Horizon /\ k \in Never..Horizon /\ w \in Nat /\ k <= w /\ k # Never
  BY <1>3, <1>5, <1>6, CronConstants DEF Never
<1>8. PICK r : r = [runner EXCEPT !.pc = "fires", !.wake = w]
  OBVIOUS
<1>9. /\ r \in RunnerRecords /\ r.pc = "fires" /\ r.todo = T /\ r.ticked = runner.ticked /\ r.wake = w
  BY <1>1, <1>3, <1>7, <1>8 DEF RunnerRecords
<1>10. runner' = r
  BY <1>1, <1>2, <1>6, <1>8 DEF record_fired, Delay
<1>11. UNCHANGED <<clock, agents, credit, spawned>>
  BY DEF record_fired
<1>12. spawned[m] # Never => w >= spawned[m] + Apart(m)
  <2>1. spawned[m] # Never => e.job.fired # Never /\ spawned[m] = e.job.fired + Delay(m)
    BY <1>0, <1>1, <1>2, CronFacts DEF SpawnKnown, Firing
  <2>2. PICK a, b, c, d, x : a = runner.ticked /\ b = e.job.fired /\ c = spawned[m] /\ d = Delay(m) /\ x = Apart(m)
    OBVIOUS
  <2>3. a \in Int /\ b \in Int /\ d \in Nat /\ x \in Nat /\ a <= k /\ k \in Int
    BY <1>2, <1>3, <1>5, <1>6, <2>2, CronConstants DEF Never
  <2>4. c # Never => c = b + d /\ a - b >= x
    BY <1>4, <2>1, <2>2
  <2>5. w = k + d
    BY <1>6, <2>2
  <2>6. c # Never => w >= c + x
    BY <2>3, <2>4, <2>5
  <2> QED BY <2>2, <2>6
<1>13. \A n \in JobNames : Firing(r, n) <=> n = m
  BY <1>1, <1>9 DEF Firing
<1>14. ASSUME NEW n \in JobNames, n # m PROVE SpawnKnown(n, r, spawned[n], jobs[n])
  <2>1. SpawnKnown(n, runner, spawned[n], jobs[n]) /\ ~Firing(runner, n) /\ ~Firing(r, n)
    BY <1>0, <1>13, <1>14, CronFacts DEF Firing
  <2> QED BY <1>1, <1>9, <2>1 DEF SpawnKnown
<1>15. \A n \in JobNames : Waits(r, n) <=> Waits(runner, n)
  BY <1>1, <1>9 DEF Waits
<1>16. \A i, l \in 1..Len(T) : T[i].name = T[l].name => i = l
  BY <1>1 DEF CronInv, RunnerKept
<1>17. CASE jobs[m].there
  <2>1. PICK j : j = [jobs[m] EXCEPT !.fired = k]
    OBVIOUS
  <2>2. jobs[m] \in PresentJobs
    BY <1>3, <1>17, JobFacts
  <2>3. /\ j \in PresentJobs /\ j.there = TRUE /\ j.fired = k
        /\ j.enabled = jobs[m].enabled /\ j.schedule = jobs[m].schedule
    BY <1>7, <2>1, <2>2 DEF PresentJobs
  <2>4. /\ jobs' = [jobs EXCEPT ![m] = j] /\ files' = [files EXCEPT ![m] = j]
        /\ cached' = [cached EXCEPT ![m] = "same"]
    BY <1>1, <1>2, <1>6, <1>17, <2>1 DEF record_fired, persist_one
  <2>5. j \in JobRecords /\ (Live(j) <=> Live(jobs[m]))
    BY <1>17, <2>3 DEF JobRecords, Live
  <2>6. /\ jobs'[m] = j /\ files'[m] = j
        /\ \A n \in JobNames : n # m => jobs'[n] = jobs[n] /\ files'[n] = files[n]
    BY <1>2, <2>4 DEF CronInv, CronTypes
  <2>7. CronTypes'
    BY <1>2, <1>9, <1>10, <1>11, <2>4, <2>5 DEF CronInv, CronTypes
  <2>8. RunnerKept'
    BY <1>0, <1>1, <1>3, <1>4, <1>6, <1>7, <1>9, <1>10, <1>11, <1>16 DEF RunnerKept
  <2>9. AgentsKept'
    BY <1>11 DEF CronInv, AgentsKept
  <2>10. SpawnKnown(m, r, spawned[m], j)
    BY <1>2, <1>6, <1>9, <1>12, <1>13, <2>3 DEF SpawnKnown
  <2>11. ASSUME NEW n \in JobNames PROVE SpawnKnown(n, runner', spawned'[n], jobs'[n])
    BY <1>10, <1>11, <1>14, <2>6, <2>10
  <2>12. ASSUME NEW n \in JobNames, Once(n)
         PROVE  CreditKnown(credit'[n], jobs'[n], files'[n], Waits(runner', n))
    <3>1. CreditKnown(credit[n], jobs[n], files[n], Waits(runner, n))
      BY <2>12, CronFacts
    <3>2. CASE n = m
      <4>1. CreditKnown(credit[m], j, j, Waits(r, m))
        BY <1>2, <1>15, <2>3, <2>5, <3>1, <3>2 DEF CreditKnown
      <4> QED BY <1>10, <1>11, <2>6, <3>2, <4>1
    <3>3. CASE n # m
      <4>1. CreditKnown(credit[n], jobs[n], files[n], Waits(r, n))
        BY <1>15, <3>1 DEF CreditKnown
      <4> QED BY <1>10, <1>11, <2>6, <3>3, <4>1
    <3> QED BY <3>2, <3>3
  <2> QED BY <2>7, <2>8, <2>9, <2>11, <2>12 DEF CronInv
<1>18. CASE ~jobs[m].there
  <2>1. UNCHANGED <<storeVars, agents, credit, spawned>> /\ clock' = clock
    BY <1>1, <1>2, <1>11, <1>18 DEF record_fired
  <2>2. SpawnKnown(m, r, spawned[m], jobs[m])
    BY <1>2, <1>9, <1>12, <1>13, <1>18 DEF SpawnKnown
  <2>3. \A n \in JobNames : SpawnKnown(n, r, spawned[n], jobs[n])
    BY <1>14, <2>2
  <2>4. r.pc = "fires" => r.todo # <<>> /\ clock <= r.wake /\ r.todo[1].job.schedule = "asked"
    BY <1>0, <1>1, <1>4, <1>6, <1>7, <1>9
  <2>5. /\ r.ticked <= clock /\ (r.pc \in {"idle", "scanned"} => r.todo = <<>>)
        /\ \A i, l \in 1..Len(r.todo) : r.todo[i].name = r.todo[l].name => i = l
    BY <1>3, <1>9, <1>16
  <2> QED BY <1>3, <1>9, <1>10, <1>15, <2>1, <2>3, <2>4, <2>5, RunnerMoves
<1> QED BY <1>17, <1>18

LEMMA AgentStarts ==
    \A p \in {"none", "runs", "ended"} :
        /\ [NoAgent EXCEPT !.pc = p] \in AgentRecords
        /\ [NoAgent EXCEPT !.pc = p].anchor <= Len([NoAgent EXCEPT !.pc = p].text)
<1> SUFFICES ASSUME NEW p \in {"none", "runs", "ended"}
             PROVE  /\ [NoAgent EXCEPT !.pc = p] \in AgentRecords
                    /\ [NoAgent EXCEPT !.pc = p].anchor <= Len([NoAgent EXCEPT !.pc = p].text)
  OBVIOUS
<1>1. PICK a : a = [NoAgent EXCEPT !.pc = p]
  OBVIOUS
<1>2. a = [pc |-> p, text |-> <<>>, anchor |-> 0]
  BY <1>1 DEF NoAgent
<1>0. PICK e : e = <<>>
  OBVIOUS
<1>3. e = <<>> /\ e \in Seq({1, 2}) /\ Len(e) = 0
  BY <1>0
<1>4. a = [pc |-> p, text |-> e, anchor |-> 0]
  BY <1>2, <1>3
<1>5. a \in AgentRecords /\ a.anchor = 0 /\ a.text = e
  BY <1>3, <1>4 DEF AgentRecords
<1>6. a.anchor <= Len(a.text)
  BY <1>3, <1>5
<1> QED BY <1>1, <1>5, <1>6

LEMMA SpawnKeeps ==
    ASSUME CronInv, SpawnAgent
    PROVE  /\ CronInv'
           /\ \A n \in JobNames : spawned'[n] # spawned[n] /\ spawned[n] # Never => clock - spawned[n] >= Apart(n)
<1>0. runner.pc = "fires" /\ runner.todo # <<>> /\ clock <= runner.wake /\ runner.todo[1].job.schedule = "asked"
  BY DEF SpawnAgent, CronInv, RunnerKept
<1>1. PICK e, m, T, t : e = runner.todo[1] /\ m = e.name /\ T = runner.todo /\ t = Tail(T)
  OBVIOUS
<1>2. /\ e \in TodoEntries /\ Head(runner.todo) = e /\ t \in Seq(TodoEntries) /\ Len(t) \in Nat /\ 1 \in 1..Len(T)
      /\ \A i \in 1..Len(t) : t[i] = T[i + 1] /\ i + 1 \in 1..Len(T)
      /\ \A i, k \in 1..Len(t) : t[i].name = t[k].name => i = k
      /\ \A i \in 1..Len(t) : t[i].name # m
  BY <1>0, <1>1, TailFacts
<1>3. m \in JobNames
  BY <1>1, <1>2, EntryFacts
<1>4. /\ clock \in 0..Horizon /\ runner.ticked <= clock /\ runner \in RunnerRecords /\ runner.wake \in Nat
      /\ jobs[m] \in JobRecords /\ files[m] \in JobRecords /\ credit[m] \in Int /\ spawned[m] \in Never..Horizon
  BY <1>3, RunnerFacts, CronFacts
<1>5. /\ clock >= runner.wake /\ UNCHANGED clock
      /\ agents' = [agents EXCEPT ![m] = [NoAgent EXCEPT !.pc = "runs"]]
      /\ spawned' = [spawned EXCEPT ![m] = IF jobs[m].there /\ jobs[m].fired # Never THEN clock ELSE Never]
      /\ credit' = [credit EXCEPT ![m] = credit[m] - 1]
      /\ IF Disabled(m) THEN set_enabled(m, FALSE) ELSE UNCHANGED storeVars
      /\ runner' = [runner EXCEPT !.pc = "list", !.todo = t]
  BY <1>1, <1>2 DEF SpawnAgent
<1>6. clock = runner.wake
  BY <1>0, <1>4, <1>5
<1>7. PICK r, w, c : /\ r = [runner EXCEPT !.pc = "list", !.todo = t] /\ c = credit[m] - 1
                     /\ w = IF jobs[m].there /\ jobs[m].fired # Never THEN clock ELSE Never
  OBVIOUS
<1>8. r \in RunnerRecords /\ r.pc = "list" /\ r.todo = t /\ r.ticked = runner.ticked /\ runner' = r
  BY <1>2, <1>4, <1>5, <1>7 DEF RunnerRecords
<1>9. w \in Never..Horizon /\ c \in Int
  BY <1>4, <1>7, CronConstants DEF Never
<1>10. spawned' = [spawned EXCEPT ![m] = w] /\ credit' = [credit EXCEPT ![m] = c]
  BY <1>5, <1>7
<1>11. \A n \in JobNames : Firing(runner, n) <=> n = m
  BY <1>0, <1>1 DEF Firing
<1>12. \A n \in JobNames : ~Firing(r, n)
  BY <1>8 DEF Firing
<1>13. /\ SpawnKnown(m, runner, spawned[m], jobs[m])
       /\ jobs[m].there /\ jobs[m].fired # Never => clock = jobs[m].fired + Delay(m)
       /\ spawned[m] # Never => clock >= spawned[m] + Apart(m)
  BY <1>3, <1>6, <1>11, CronFacts DEF SpawnKnown
<1>14. PICK j, f : /\ j \in JobRecords /\ f \in JobRecords
                   /\ jobs' = [jobs EXCEPT ![m] = j] /\ files' = [files EXCEPT ![m] = f]
                   /\ cached' \in [JobNames -> {"none", "same", "older"}]
                   /\ jobs[m].there => j.there /\ j.fired = jobs[m].fired
                   /\ Once(m) => ~Live(j) /\ (Live(f) => ~jobs[m].there /\ f = files[m])
  <2>1. CASE Disabled(m)
    <3>1. PICK j : j = [jobs[m] EXCEPT !.enabled = FALSE]
      OBVIOUS
    <3>2. jobs[m] \in PresentJobs /\ jobs[m].there
      BY <1>4, <2>1, JobFacts DEF Disabled
    <3>3. j \in PresentJobs /\ j.there = TRUE /\ j.fired = jobs[m].fired /\ j.enabled = FALSE
      BY <3>1, <3>2 DEF PresentJobs
    <3>4. /\ jobs' = [jobs EXCEPT ![m] = j] /\ files' = [files EXCEPT ![m] = j]
          /\ cached' = [cached EXCEPT ![m] = "same"]
      BY <1>5, <2>1, <3>1 DEF set_enabled, persist_one
    <3>5. cached' \in [JobNames -> {"none", "same", "older"}] /\ j \in JobRecords /\ ~Live(j)
      BY <3>3, <3>4 DEF CronInv, CronTypes, JobRecords, Live
    <3> QED BY <3>3, <3>4, <3>5
  <2>2. CASE ~Disabled(m)
    <3>1. jobs' = [jobs EXCEPT ![m] = jobs[m]] /\ files' = [files EXCEPT ![m] = files[m]] /\ cached' = cached
      BY <1>5, <2>2 DEF storeVars, CronInv, CronTypes
    <3>2. Once(m) => ~jobs[m].there /\ ~Live(jobs[m])
      BY <2>2 DEF Disabled, Live
    <3> QED BY <1>4, <3>1, <3>2 DEF CronInv, CronTypes
  <2> QED BY <2>1, <2>2
<1>15. /\ jobs'[m] = j /\ files'[m] = f /\ spawned'[m] = w /\ credit'[m] = c
       /\ \A n \in JobNames : n # m =>
             jobs'[n] = jobs[n] /\ files'[n] = files[n] /\ spawned'[n] = spawned[n] /\ credit'[n] = credit[n]
  BY <1>3, <1>10, <1>14 DEF CronInv, CronTypes
<1>16. CronTypes'
  BY <1>3, <1>5, <1>8, <1>9, <1>10, <1>14 DEF CronInv, CronTypes
<1>17. RunnerKept'
  BY <1>2, <1>4, <1>5, <1>8 DEF RunnerKept
<1>18. AgentsKept'
  <2>1. [NoAgent EXCEPT !.pc = "runs"] \in AgentRecords
        /\ [NoAgent EXCEPT !.pc = "runs"].anchor <= Len([NoAgent EXCEPT !.pc = "runs"].text)
    BY AgentStarts
  <2>2. PICK a : a = [NoAgent EXCEPT !.pc = "runs"]
    OBVIOUS
  <2>3. agents' = [agents EXCEPT ![m] = a] /\ a \in AgentRecords /\ a.anchor <= Len(a.text)
    BY <1>5, <2>1, <2>2
  <2> QED BY <1>3, <2>3 DEF CronInv, AgentsKept
<1>19. SpawnKnown(m, r, w, j)
  BY <1>2, <1>3, <1>7, <1>8, <1>12, <1>13, <1>14 DEF SpawnKnown
<1>20. ASSUME NEW n \in JobNames, n # m PROVE SpawnKnown(n, r, spawned[n], jobs[n])
  <2>1. SpawnKnown(n, runner, spawned[n], jobs[n]) /\ ~Firing(runner, n) /\ ~Firing(r, n)
    BY <1>11, <1>12, <1>20, CronFacts
  <2> QED BY <1>1, <1>2, <1>8, <2>1 DEF SpawnKnown
<1>21. \A n \in JobNames : SpawnKnown(n, runner', spawned'[n], jobs'[n])
  BY <1>8, <1>15, <1>19, <1>20
<1>22. Waits(runner, m) /\ ~Waits(r, m) /\ \A n \in JobNames : Waits(r, n) => Waits(runner, n)
  BY <1>0, <1>1, <1>2, <1>8 DEF Waits
<1>23. ASSUME NEW n \in JobNames, Once(n)
       PROVE  CreditKnown(credit'[n], jobs'[n], files'[n], Waits(runner', n))
  <2>1. CreditKnown(credit[n], jobs[n], files[n], Waits(runner, n))
    BY <1>23, CronFacts
  <2>2. CASE n = m
    <3>1. credit[m] >= 1 /\ (~jobs[m].there /\ Live(files[m]) => credit[m] >= 2)
      BY <1>22, <2>1, <2>2 DEF CreditKnown
    <3>2. Live(f) => credit[m] >= 2
      BY <1>14, <1>23, <2>2, <3>1
    <3>3. c >= 0 /\ (Live(f) => c >= 1)
      BY <1>4, <1>7, <3>1, <3>2
    <3>4. CreditKnown(c, j, f, Waits(r, m))
      BY <1>14, <1>22, <1>23, <2>2, <3>3 DEF CreditKnown
    <3> QED BY <1>8, <1>15, <2>2, <3>4
  <2>3. CASE n # m
    <3>1. CreditKnown(credit[n], jobs[n], files[n], Waits(r, n))
      BY <1>22, <2>1 DEF CreditKnown
    <3> QED BY <1>8, <1>15, <2>3, <3>1
  <2> QED BY <2>2, <2>3
<1>24. ASSUME NEW n \in JobNames, spawned'[n] # spawned[n], spawned[n] # Never PROVE clock - spawned[n] >= Apart(n)
  <2>1. n = m
    BY <1>15, <1>24
  <2>2. Apart(m) \in Nat /\ clock \in Int /\ spawned[m] \in Int
    BY <1>3, <1>4, CronConstants DEF Never
  <2>3. clock >= spawned[m] + Apart(m)
    BY <1>13, <1>24, <2>1
  <2>4. clock - spawned[m] >= Apart(m)
    BY <2>2, <2>3
  <2> QED BY <2>1, <2>4
<1> QED BY <1>16, <1>17, <1>18, <1>21, <1>23, <1>24 DEF CronInv

LEMMA RebootKeeps ==
    ASSUME CronInv, NEW later \in 0..Horizon, Reboot(later)
    PROVE  CronInv'
<1>1. /\ later \in clock..Horizon /\ clock' = later
      /\ jobs' = [n \in JobNames |-> detect_and_notify_missed(n, later)] /\ files' = jobs'
      /\ cached' = [n \in JobNames |-> IF files[n].there THEN "same" ELSE "none"]
      /\ runner' = [IdleRunner EXCEPT !.ticked = later - 1]
      /\ agents' = [n \in JobNames |-> NoAgent]
      /\ credit' = [n \in JobNames |-> IF files[n].there /\ files[n].enabled
                                         /\ (Once(n) => later <= Wanted[n].at + Grace) THEN 1 ELSE 0]
      /\ spawned' = [n \in JobNames |-> Never]
  BY DEF Reboot
<1>2. clock \in 0..Horizon
  BY RunnerFacts
<1>3. PICK k, r : k = later - 1 /\ r = [IdleRunner EXCEPT !.ticked = k]
  OBVIOUS
<1>4. k \in Never..Horizon /\ k <= later
  BY <1>3, CronConstants DEF Never
<1>5. r \in RunnerRecords /\ r.pc = "idle" /\ r.todo = <<>> /\ r.ticked = k /\ runner' = r
  <2>1. PICK e : e = <<>>
    OBVIOUS
  <2>2. e \in Seq(TodoEntries)
    BY <2>1
  <2>3. r = [pc |-> "idle", ticked |-> k, todo |-> e, wake |-> 0]
    BY <1>3, <2>1 DEF IdleRunner
  <2>4. r \in RunnerRecords /\ r.pc = "idle" /\ r.todo = e /\ r.ticked = k
    BY <1>4, <2>2, <2>3 DEF RunnerRecords
  <2>5. runner' = r
    BY <1>1, <1>3
  <2> QED BY <2>1, <2>4, <2>5
<1>6. ASSUME NEW n \in JobNames
      PROVE  /\ jobs'[n] \in JobRecords
             /\ Once(n) /\ Live(jobs'[n]) =>
                   files[n].there /\ files[n].enabled /\ later <= Wanted[n].at + Grace
  <2>0. files[n] \in JobRecords
    BY CronFacts
  <2>1. jobs'[n] = detect_and_notify_missed(n, later)
    BY <1>1
  <2>2. CASE files[n].there /\ files[n].enabled /\ Missed(n, later)
    <3>1. PICK f, j : f = files[n] /\ j = [f EXCEPT !.enabled = FALSE]
      OBVIOUS
    <3>2. f \in PresentJobs
      BY <2>0, <2>2, <3>1, JobFacts
    <3>3. j \in PresentJobs /\ j.enabled = FALSE
      BY <3>1, <3>2 DEF PresentJobs
    <3>4. jobs'[n] = j
      BY <2>1, <2>2, <3>1 DEF detect_and_notify_missed
    <3> QED BY <3>3, <3>4 DEF JobRecords, Live
  <2>3. CASE ~(files[n].there /\ files[n].enabled /\ Missed(n, later))
    <3>1. jobs'[n] = files[n]
      BY <2>1, <2>3 DEF detect_and_notify_missed
    <3>2. Once(n) /\ Live(files[n]) => ~(Wanted[n].at + Grace < later)
      BY <2>3 DEF Missed, Live
    <3>3. Once(n) => Wanted[n].at + Grace \in Int
      BY CronConstants
    <3>4. later \in Int
      BY CronConstants
    <3>5. Once(n) /\ Live(files[n]) => later <= Wanted[n].at + Grace
      BY <3>2, <3>3, <3>4
    <3> QED BY <2>0, <3>1, <3>5 DEF Live
  <2> QED BY <2>2, <2>3
<1>7. CronTypes'
  <2>1. jobs' \in [JobNames -> JobRecords] /\ files' \in [JobNames -> JobRecords]
    BY <1>1, <1>6
  <2>2. spawned' \in [JobNames -> Never..Horizon] /\ credit' \in [JobNames -> Int]
    BY <1>1, CronConstants DEF Never
  <2>3. cached' \in [JobNames -> {"none", "same", "older"}] /\ clock' \in 0..Horizon
    BY <1>1
  <2> QED BY <1>5, <2>1, <2>2, <2>3 DEF CronTypes
<1>8. Len(r.todo) = 0
  BY <1>5
<1>9. RunnerKept'
  <2>1. clock' = later /\ runner' = r /\ r.ticked <= later /\ r.pc = "idle" /\ r.todo = <<>>
    BY <1>1, <1>4, <1>5
  <2>2. \A i, l \in 1..Len(r.todo) : r.todo[i].name = r.todo[l].name => i = l
    BY <1>8
  <2> QED BY <2>1, <2>2 DEF RunnerKept
<1>10. AgentsKept'
  <2>1. NoAgent \in AgentRecords /\ NoAgent.anchor <= Len(NoAgent.text)
    <3>1. PICK a : a = [NoAgent EXCEPT !.pc = "none"]
      OBVIOUS
    <3>2. a \in AgentRecords /\ a.anchor <= Len(a.text)
      BY <3>1, AgentStarts
    <3>3. a = NoAgent
      BY <3>1 DEF NoAgent
    <3> QED BY <3>2, <3>3
  <2> QED BY <1>1, <2>1 DEF AgentsKept
<1>11. \A n \in JobNames : SpawnKnown(n, runner', spawned'[n], jobs'[n])
  <2>1. \A n \in JobNames : ~Firing(r, n) /\ spawned'[n] = Never
    BY <1>1, <1>5 DEF Firing
  <2> QED BY <1>5, <2>1 DEF SpawnKnown
<1>12. ASSUME NEW n \in JobNames, Once(n)
       PROVE  CreditKnown(credit'[n], jobs'[n], files'[n], Waits(runner', n))
  <2>1. ~Waits(r, n)
    BY <1>8 DEF Waits
  <2>2. files'[n] = jobs'[n]
    BY <1>1
  <2>3. credit'[n] \in {0, 1} /\ (Live(jobs'[n]) => credit'[n] = 1)
    BY <1>1, <1>6, <1>12
  <2> QED BY <1>5, <2>1, <2>2, <2>3 DEF CreditKnown
<1> QED BY <1>7, <1>9, <1>10, <1>11, <1>12 DEF CronInv

(* The agents of the jobs.                                                 *)
LEMMA AgentStepKeeps ==
    ASSUME CronInv, NEW n \in JobNames, NEW a \in AgentRecords, a.anchor <= Len(a.text),
           agents' = [agents EXCEPT ![n] = a], UNCHANGED agentRest
    PROVE  CronInv'
<1>1. UNCHANGED <<jobs, files, cached, clock, runner, credit, spawned>>
  BY DEF agentRest, storeVars
<1>2. AgentsKept'
  BY DEF CronInv, AgentsKept
<1>3. CronTypes' /\ RunnerKept'
  BY <1>1 DEF CronInv, CronTypes, RunnerKept
<1>4. \A m \in JobNames : SpawnKnown(m, runner', spawned'[m], jobs'[m])
  BY <1>1 DEF CronInv
<1>5. \A m \in JobNames : Once(m) => CreditKnown(credit'[m], jobs'[m], files'[m], Waits(runner', m))
  BY <1>1 DEF CronInv
<1> QED BY <1>2, <1>3, <1>4, <1>5 DEF CronInv

LEMMA StreamKeeps ==
    ASSUME CronInv, NEW n \in JobNames, NEW good \in BOOLEAN, CronStream(n, good)
    PROVE  CronInv'
<1>1. PICK a : a = agents[n]
  OBVIOUS
<1>2. a \in AgentRecords /\ a.anchor <= Len(a.text)
  BY <1>1 DEF CronInv, AgentsKept
<1>3. PICK s, k : s = a.text /\ k = a.anchor
  OBVIOUS
<1>4. s \in Seq({1, 2}) /\ k \in Nat /\ k <= Len(s) /\ Len(s) \in Nat
  <2>1. s \in Seq({1, 2}) /\ k \in Nat
    BY <1>2, <1>3 DEF AgentRecords
  <2>2. k <= Len(s)
    BY <1>2, <1>3
  <2> QED BY <2>1, <2>2
<1>5. UNCHANGED agentRest
  BY DEF CronStream
<1>6. CASE good
  <2>1. PICK t, l : t = Append(s, 1) /\ l = Len(t)
    OBVIOUS
  <2>2. t \in Seq({1, 2}) /\ l \in Nat
    BY <1>4, <2>1, AppendProperties
  <2>3. PICK b : b = [a EXCEPT !.text = t, !.anchor = l]
    OBVIOUS
  <2>4. b \in AgentRecords /\ b.text = t /\ b.anchor = l
    BY <1>2, <2>2, <2>3 DEF AgentRecords
  <2>5. agents' = [agents EXCEPT ![n] = b]
    BY <1>1, <1>3, <1>6, <2>1, <2>3 DEF CronStream
  <2>6. b.anchor <= Len(b.text)
    BY <2>1, <2>2, <2>4
  <2> QED BY <1>5, <2>4, <2>5, <2>6, AgentStepKeeps
<1>7. CASE ~good
  <2>1. PICK t, u : t = Append(s, 0) /\ u = SubSeq(t, 1, k)
    OBVIOUS
  <2>2. t \in Seq(Nat) /\ Len(t) = Len(s) + 1 /\ \A i \in 1..Len(s) : t[i] = s[i]
    <3>1. s \in Seq(Nat)
      BY <1>4
    <3> QED BY <2>1, <3>1, AppendProperties
  <2>3. u \in Seq(Nat) /\ Len(u) = k /\ \A i \in 1..k : u[i] = t[i]
    BY <1>4, <2>1, <2>2
  <2>4. \A i \in 1..Len(u) : u[i] \in {1, 2}
    <3> SUFFICES ASSUME NEW i \in 1..Len(u) PROVE u[i] \in {1, 2}
      OBVIOUS
    <3>1. i \in 1..k /\ i \in 1..Len(s)
      BY <1>4, <2>3
    <3>2. u[i] = s[i]
      BY <2>2, <2>3, <3>1
    <3>3. s[i] \in {1, 2}
      BY <1>4, <3>1
    <3> QED BY <3>2, <3>3
  <2>5. u \in Seq({1, 2})
    <3>1. u = [i \in 1..Len(u) |-> u[i]] /\ Len(u) \in Nat
      BY <2>3
    <3> QED BY <2>4, <3>1
  <2>6. PICK b : b = [a EXCEPT !.text = u]
    OBVIOUS
  <2>7. b \in AgentRecords /\ b.text = u /\ b.anchor = k
    BY <1>2, <1>3, <2>5, <2>6 DEF AgentRecords
  <2>8. PICK x : x = [a EXCEPT !.text = t]
    OBVIOUS
  <2>9. x.text = t /\ x.anchor = k
    BY <1>2, <1>3, <2>8 DEF AgentRecords
  <2>10. Rollback(x) = u
    BY <2>1, <2>9 DEF Rollback
  <2>11. agents' = [agents EXCEPT ![n] = b]
    BY <1>1, <1>3, <1>7, <2>1, <2>6, <2>8, <2>10 DEF CronStream
  <2>12. b.anchor <= Len(b.text)
    BY <1>4, <2>3, <2>7
  <2> QED BY <1>5, <2>7, <2>11, <2>12, AgentStepKeeps
<1> QED BY <1>6, <1>7

LEMMA AgentEndKeeps ==
    ASSUME CronInv, NEW n \in JobNames, NEW error \in BOOLEAN, CronEnd(n, error) \/ CronTimeout(n)
    PROVE  CronInv'
<1>1. agents[n] \in AgentRecords /\ agents[n].text \in Seq({1, 2}) /\ UNCHANGED agentRest
  BY DEF CronInv, AgentsKept, AgentRecords, CronEnd, CronTimeout
<1>2. CASE CronEnd(n, error)
  <2>1. PICK t : t = IF error THEN <<2>> ELSE agents[n].text
    OBVIOUS
  <2>2. t \in Seq({1, 2})
    <3>1. <<2>> \in Seq({1, 2})
      OBVIOUS
    <3> QED BY <1>1, <2>1, <3>1
  <2>3. PICK b : b = [pc |-> "ended", anchor |-> 0, text |-> t]
    OBVIOUS
  <2>4. b \in AgentRecords /\ b.anchor = 0 /\ b.text = t
    BY <2>2, <2>3 DEF AgentRecords
  <2>5. agents' = [agents EXCEPT ![n] = b]
    <3>1. CASE error
      BY <1>2, <2>1, <2>3, <3>1 DEF CronEnd
    <3>2. CASE ~error
      BY <1>2, <2>1, <2>3, <3>2 DEF CronEnd
    <3> QED BY <3>1, <3>2
  <2>6. b.anchor <= Len(b.text)
    BY <2>2, <2>4
  <2> QED BY <1>1, <2>4, <2>5, <2>6, AgentStepKeeps
<1>3. CASE CronTimeout(n)
  <2>1. PICK b : b = [NoAgent EXCEPT !.pc = "ended"]
    OBVIOUS
  <2>2. b \in AgentRecords /\ b.anchor <= Len(b.text)
    BY <2>1, AgentStarts
  <2>3. agents' = [agents EXCEPT ![n] = b]
    BY <1>3, <2>1 DEF CronTimeout
  <2> QED BY <1>1, <2>2, <2>3, AgentStepKeeps
<1> QED BY <1>2, <1>3

LEMMA CronNextKeeps == CronInv /\ [CronNext]_cronVars => CronInv'
<1> SUFFICES ASSUME CronInv, [CronNext]_cronVars PROVE CronInv'
  OBVIOUS
<1>1. ASSUME NEW n \in JobNames, CronOps(n) PROVE CronInv'
  <2>1. ASSUME handle_cron_manage(n) PROVE CronInv'
    BY <2>1, AddKeeps, RemoveKeeps, SwitchKeeps, UpdateKeeps DEF handle_cron_manage, execute
  <2>2. ASSUME NEW b \in BOOLEAN, NEW c \in BOOLEAN, NEW f, EditFile(n, b, f, c) PROVE CronInv'
    BY <2>2, EditKeeps
  <2> QED BY <1>1, <2>1, <2>2, DeleteKeeps DEF CronOps
<1>2. CASE Runner
  <2>1. ASSUME NEW order \in [1..Cardinality(JobNames) -> JobNames],
               \A i, k \in DOMAIN order : order[i] = order[k] => i = k, enabled_jobs(order)
        PROVE  CronInv'
    BY <2>1, ListJobsKeeps
  <2>2. CASE Scan \/ Skip \/ record_fired \/ SpawnAgent \/ Pass
    BY <2>2, ScanKeeps, SkipKeeps, RecordKeeps, SpawnKeeps, PassKeeps
  <2> QED BY <1>2, <2>1, <2>2 DEF Runner
<1>3. ASSUME NEW later \in 0..Horizon, Reboot(later) PROVE CronInv'
  BY <1>3, RebootKeeps
<1>4. ASSUME NEW n \in JobNames, NEW b \in BOOLEAN, CronStream(n, b) PROVE CronInv'
  BY <1>4, StreamKeeps
<1>5. ASSUME NEW n \in JobNames, NEW b \in BOOLEAN, CronEnd(n, b) \/ CronTimeout(n) PROVE CronInv'
  BY <1>5, AgentEndKeeps
<1>6. CASE UNCHANGED cronVars
  <2>1. UNCHANGED <<jobs, files, cached, clock, runner, agents, credit, spawned>>
    BY <1>6 DEF cronVars
  <2>2. CronTypes' /\ RunnerKept' /\ AgentsKept'
    BY <2>1 DEF CronInv, CronTypes, RunnerKept, AgentsKept
  <2>3. \A m \in JobNames : SpawnKnown(m, runner', spawned'[m], jobs'[m])
    BY <2>1 DEF CronInv
  <2>4. \A m \in JobNames : Once(m) => CreditKnown(credit'[m], jobs'[m], files'[m], Waits(runner', m))
    BY <2>1 DEF CronInv
  <2> QED BY <2>2, <2>3, <2>4 DEF CronInv
<1> QED BY <1>1, <1>2, <1>3, <1>4, <1>5, <1>6 DEF CronNext

LEMMA CronInitInv == CronInit => CronInv
<1> SUFFICES ASSUME CronInit PROVE CronInv
  OBVIOUS
<1>1. /\ jobs \in [JobNames -> {NoJob, NewJob}] /\ files = jobs
      /\ cached = [n \in JobNames |-> IF jobs[n].there THEN "same" ELSE "none"]
      /\ clock = 0 /\ runner = IdleRunner /\ agents = [n \in JobNames |-> NoAgent]
      /\ credit = [n \in JobNames |-> IF jobs[n].there THEN 1 ELSE 0]
      /\ spawned = [n \in JobNames |-> Never]
  BY DEF CronInit
<1>2. PICK r, e : r = IdleRunner /\ e = <<>>
  OBVIOUS
<1>3. e \in Seq(TodoEntries) /\ Len(e) = 0 /\ r = [pc |-> "idle", ticked |-> Never, todo |-> e, wake |-> 0]
  BY <1>2 DEF IdleRunner
<1>4. Never \in Never..Horizon /\ 0 \in 0..Horizon /\ Never <= 0
  BY CronConstants DEF Never
<1>5. r \in RunnerRecords /\ r.pc = "idle" /\ r.todo = e /\ r.ticked = Never
  BY <1>3, <1>4 DEF RunnerRecords
<1>6. jobs \in [JobNames -> JobRecords]
  BY <1>1, JobFacts DEF JobRecords
<1>7. CronTypes
  <2>1. spawned \in [JobNames -> Never..Horizon] /\ credit \in [JobNames -> Int]
    BY <1>1, <1>4
  <2>2. cached \in [JobNames -> {"none", "same", "older"}]
    BY <1>1
  <2> QED BY <1>1, <1>2, <1>4, <1>5, <1>6, <2>1, <2>2 DEF CronTypes
<1>8. RunnerKept
  <2>1. runner = r /\ clock = 0 /\ r.ticked <= 0 /\ r.todo = <<>>
    BY <1>1, <1>2, <1>4, <1>5
  <2>2. \A i, l \in 1..Len(r.todo) : r.todo[i].name = r.todo[l].name => i = l
    BY <1>3, <1>5
  <2> QED BY <1>5, <2>1, <2>2 DEF RunnerKept
<1>9. AgentsKept
  <2>1. NoAgent \in AgentRecords /\ NoAgent.anchor <= Len(NoAgent.text)
    <3>1. PICK a : a = [NoAgent EXCEPT !.pc = "none"]
      OBVIOUS
    <3>2. a \in AgentRecords /\ a.anchor <= Len(a.text)
      BY <3>1, AgentStarts
    <3>3. a = NoAgent
      BY <3>1 DEF NoAgent
    <3> QED BY <3>2, <3>3
  <2> QED BY <1>1, <2>1 DEF AgentsKept
<1>10. \A n \in JobNames : SpawnKnown(n, runner, spawned[n], jobs[n])
  <2>1. \A n \in JobNames : ~Firing(r, n) /\ spawned[n] = Never
    BY <1>1, <1>5 DEF Firing
  <2> QED BY <1>1, <1>2, <2>1 DEF SpawnKnown
<1>11. ASSUME NEW n \in JobNames PROVE CreditKnown(credit[n], jobs[n], files[n], Waits(runner, n))
  <2>1. ~Waits(r, n)
    BY <1>3, <1>5 DEF Waits
  <2>2. files[n] = jobs[n] /\ credit[n] \in {0, 1} /\ (jobs[n].there => credit[n] = 1)
    BY <1>1
  <2>3. Live(jobs[n]) => credit[n] = 1
    BY <2>2 DEF Live
  <2> QED BY <1>1, <1>2, <2>1, <2>2, <2>3 DEF CreditKnown
<1> QED BY <1>7, <1>8, <1>9, <1>10, <1>11 DEF CronInv

LEMMA CronInvKept == CronInv => CronTypeOK /\ OneShotOnce /\ FailedTextGone
<1> SUFFICES ASSUME CronInv PROVE CronTypeOK /\ OneShotOnce /\ FailedTextGone
  OBVIOUS
<1>1. CronTypeOK
  <2>1. ASSUME NEW n \in JobNames
        PROVE  /\ jobs[n] # NoJob => jobs[n].fired \in Never..Horizon /\ jobs[n].enabled \in BOOLEAN
               /\ cached[n] \in {"none", "same", "older"}
               /\ agents[n].pc \in {"none", "runs", "ended"} /\ agents[n].anchor <= Len(agents[n].text)
    <3>1. jobs[n] \in JobRecords /\ cached[n] \in {"none", "same", "older"}
      BY CronFacts
    <3>2. jobs[n] # NoJob => jobs[n].fired \in Never..Horizon /\ jobs[n].enabled \in BOOLEAN
      BY <3>1 DEF JobRecords, PresentJobs
    <3>3. agents[n] \in AgentRecords /\ agents[n].anchor <= Len(agents[n].text)
      BY DEF CronInv, AgentsKept
    <3>4. agents[n].pc \in {"none", "runs", "ended"}
      BY <3>3 DEF AgentRecords
    <3> QED BY <3>1, <3>2, <3>3, <3>4
  <2>2. runner.pc \in {"idle", "scanned", "list", "fires"}
    BY RunnerFacts
  <2> QED BY <2>1, <2>2 DEF CronTypeOK
<1>2. OneShotOnce
  BY CronFacts DEF OneShotOnce, CreditKnown
<1>3. FailedTextGone
  <2> SUFFICES ASSUME NEW n \in JobNames, NEW i \in DOMAIN agents[n].text PROVE agents[n].text[i] # 0
    BY DEF FailedTextGone
  <2>1. PICK s : s = agents[n].text
    OBVIOUS
  <2>2. s \in Seq({1, 2})
    BY <2>1 DEF CronInv, AgentsKept, AgentRecords
  <2>3. s[i] \in {1, 2}
    BY <2>1, <2>2
  <2> QED BY <2>1, <2>3
<1> QED BY <1>1, <1>2, <1>3

(* For any jobs, schedules, cooldowns, changes, edits and crashes: a       *)
(* one-shot job fires no more often than it was added or switched on, a    *)
(* job starts its agents no closer than its cooldown and the ticks of one  *)
(* minute allow, and what an agent leaves holds nothing of an attempt that *)
(* failed (cron/mod.rs, cron_runner.rs, spawn.rs).                         *)
THEOREM JobsAreFiredRight == CronSpec => JobsFireRight
<1>1. CronInv /\ [CronNext]_cronVars => CronInv'
  BY CronNextKeeps
<1>2. CronInv /\ [CronNext]_cronVars =>
        [\A n \in JobNames : SpawnAgent /\ spawned'[n] # spawned[n] /\ spawned[n] # Never =>
            clock - spawned[n] >= (IF Once(n) THEN Dedup
                                   ELSE IF Dedup > Wanted[n].cooldown THEN Dedup
                                   ELSE Wanted[n].cooldown)]_cronVars
  BY SpawnKeeps DEF Apart
<1> QED BY <1>1, <1>2, CronInitInv, CronInvKept, PTL DEF CronSpec, JobsFireRight, FiringsApart

-----------------------------------------------------------------------------
(* The specification that the run checks: each of the three goes its own   *)
(* steps in it.                                                            *)
LEMMA WorkParts == WorkSpec => SubSpec /\ BgSpec /\ CronSpec
<1>1. WorkInit => SubInit /\ BgInit /\ CronInit
  BY DEF WorkInit
<1>2. [WorkNext]_workVars => [SubNext]_subVars /\ [BgNext]_bgVars /\ [CronNext]_cronVars
  BY Zenon DEF WorkNext, workVars
<1> QED BY <1>1, <1>2, PTL DEF WorkSpec, SubSpec, BgSpec, CronSpec

(* The three together, as they are run: what is said of sub-agents, of     *)
(* background tasks and of scheduled jobs holds of every behaviour of the  *)
(* specification that TLC explores.                                        *)
THEOREM WorkIsKept == WorkSpec => []SubagentsKept /\ TasksTold /\ JobsFireRight
  BY WorkParts, SubagentsAreKept, TasksAreTold, JobsAreFiredRight, PTL
=============================================================================
